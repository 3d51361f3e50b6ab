-------------------------- MODULE VisionGate_proofs --------------------------
(* Proofs of the safety properties of VisionGate, for every number of lists,   *)
(* lost connections and malformed pieces.                                      *)
EXTENDS VisionGate, SequenceFacts

(* Every list has a number that goes on the wire. *)
LEMMA SeqNumberType ==
  ASSUME NEW n \in Nat, n >= 1
  PROVE  SeqNumber(n) \in Numbers
  BY BoundsAssumption DEF SeqNumber, Numbers

(* An answer is not the absence of one. *)
LEMMA ResponseNotNone == ASSUME NEW r \in Response PROVE r # None
  BY NoneAssumption DEF Response, Lists

-----------------------------------------------------------------------------
(* Type correctness *)

(* A list that is being sent has a number, and an answer that is being handed  *)
(* over is one.                                                                *)
TypeInv ==
  /\ TypeOK
  /\ spc # "idle" => req >= 1
  /\ HandingOver => msg # None

LEMMA InitTypeInv == Init => TypeInv
<1> SUFFICES ASSUME Init PROVE TypeInv
  OBVIOUS
<1>1. connected \in BOOLEAN /\ response_event \in BOOLEAN /\ alive \in BOOLEAN
  BY Zenon DEF Init
<1>2. /\ to_gate \in Seq(Lists) /\ from_gate \in Seq(Item) /\ buffer \in Seq(Item)
  BY RangeEmpty DEF Init
<1>3. req \in 0..MAX_SENDS /\ losses \in Nat /\ junk \in Nat
  BY BoundsAssumption DEF Init
<1> QED
  BY <1>1, <1>2, <1>3, Zenon DEF Init, TypeInv, TypeOK, HandingOver

LEMMA SenderTypeInv ==
  ASSUME TypeInv, Sender
  PROVE  TypeInv'
<1> USE BoundsAssumption, NoneAssumption
    DEF TypeInv, TypeOK, HandingOver, clientVars, gateVars, historyVars, Idle
<1>0. req \in 0..MAX_SENDS /\ MAX_SENDS \in Nat /\ (spc # "idle" => req \in Lists)
  BY DEF Lists
<1>1. CASE SendStart
  <2>1. req' \in Lists /\ SeqNumber(req + 1) \in Numbers /\ req' >= 1
    BY <1>0, <1>1, SeqNumberType DEF SendStart, Lists
  <2>2. overtaken' \subseteq Lists /\ req' \in 0..MAX_SENDS
    BY <1>1, <2>1 DEF SendStart, Lists
  <2> QED
    BY <1>1, <2>1, <2>2 DEF SendStart
<1>2. CASE ClearEvent
  BY <1>2 DEF ClearEvent
<1>3. CASE SendRefused
  BY <1>3 DEF SendRefused
<1>4. CASE SendList
  <2>1. to_gate' \in Seq(Lists)
    BY <1>0, <1>4, AppendProperties DEF SendList
  <2> QED
    BY <1>4, <2>1 DEF SendList
<1>5. CASE SendFails
  BY <1>5 DEF SendFails
<1>6. CASE WaitTimesOut
  BY <1>0, <1>6 DEF WaitTimesOut
<1>7. CASE Woken
  BY <1>7 DEF Woken
<1>8. CASE ForgetNumber
  BY <1>8 DEF ForgetNumber
<1>9. CASE TakeResponse
  <2>1. req \in Lists /\ (last_response # None => last_response.list \in Lists)
    BY <1>0, <1>9 DEF TakeResponse, Response
  <2>2. acked' \subseteq [list : Lists, answer : Lists] /\ given_up' \subseteq Lists
    BY <1>9, <2>1 DEF TakeResponse
  <2> QED
    BY <1>9, <2>2 DEF TakeResponse
<1>10. CASE ResetResponse
  BY <1>10 DEF ResetResponse
<1> QED
  BY <1>1, <1>2, <1>3, <1>4, <1>5, <1>6, <1>7, <1>8, <1>9, <1>10 DEF Sender

LEMMA ReceiverTypeInv ==
  ASSUME TypeInv, Receiver
  PROVE  TypeInv'
<1> USE NoneAssumption DEF TypeInv, TypeOK, HandingOver, clientVars, gateVars, historyVars
<1>1. CASE ReceiveData
  <2>1. PICK n \in 1..Len(from_gate) :
          /\ buffer' = buffer \o SubSeq(from_gate, 1, n)
          /\ from_gate' = SubSeq(from_gate, n + 1, Len(from_gate))
    BY <1>1 DEF ReceiveData
  <2>2. n + 1 \in 1..(Len(from_gate) + 1) /\ n \in 0..Len(from_gate)
        /\ Len(from_gate) \in 0..Len(from_gate) /\ 1 \in 1..(Len(from_gate) + 1)
    BY LenProperties
  <2>3. SubSeq(from_gate, 1, n) \in Seq(Item) /\ from_gate' \in Seq(Item)
    BY <2>1, <2>2, RangeSubSeq
  <2>4. buffer' \in Seq(Item)
    BY <2>1, <2>3, RangeConcat
  <2> QED
    BY <1>1, <2>3, <2>4 DEF ReceiveData
<1>2. CASE ReceiveClosed
  <2>1. connected' \in BOOLEAN /\ response_event' \in BOOLEAN /\ alive' \in BOOLEAN
    BY <1>2, Zenon DEF ReceiveClosed, ReceiverEnds
  <2>2. losses' \in Nat /\ UNCHANGED junk
    BY <1>2 DEF ReceiveClosed, ReceiverEnds
  <2> QED
    BY <1>2, <2>1, <2>2, Zenon DEF ReceiveClosed, ReceiverEnds
<1>3. CASE ParseNothing
  BY <1>3 DEF ParseNothing
<1>4. CASE ParseJunk
  <2>1. buffer' \in Seq(Item)
    BY <1>4, RangeTail DEF ParseJunk
  <2> QED
    BY <1>4, <2>1 DEF ParseJunk
<1>5. CASE ParseVersion
  <2>1. connected' \in BOOLEAN /\ response_event' \in BOOLEAN /\ alive' \in BOOLEAN
    BY <1>5, Zenon DEF ParseVersion, ReceiverEnds
  <2>2. losses' \in Nat /\ UNCHANGED junk
    BY <1>5 DEF ParseVersion, ReceiverEnds
  <2> QED
    BY <1>5, <2>1, <2>2, Zenon DEF ParseVersion, ReceiverEnds
<1>6. CASE IgnoreAnswer
  <2>1. buffer' \in Seq(Item)
    BY <1>6, RangeTail DEF IgnoreAnswer, NextAnswer
  <2> QED
    BY <1>6, <2>1 DEF IgnoreAnswer
<1>7. CASE MatchAnswer
  <2>1. Head(buffer) \in Item /\ Tail(buffer) \in Seq(Item)
    BY <1>7, RangeTail DEF MatchAnswer, NextAnswer
  <2>2. msg' \in Response
    <3>1. Head(buffer).kind = "answer" /\ Head(buffer).result \in {"ok", "error"}
      BY <1>7 DEF MatchAnswer, NextAnswer
    <3>2. Head(buffer).list \in Lists
      BY <2>1, <3>1 DEF Item
    <3> QED
      BY <1>7, <3>1, <3>2 DEF MatchAnswer, Response
  <2>3. msg' # None
    BY <2>2, ResponseNotNone
  <2> QED
    BY <1>7, <2>1, <2>2, <2>3 DEF MatchAnswer
<1>8. CASE AnswerUnreadable
  <2>1. buffer' \in Seq(Item) /\ deafened' \in BOOLEAN /\ rpc' = "dead" /\ cpc' = "check"
    BY <1>8, RangeTail DEF AnswerUnreadable, NextAnswer
  <2> QED
    BY <1>8, <2>1 DEF AnswerUnreadable
<1>9. CASE KeepResponse
  BY <1>9 DEF KeepResponse
<1>10. CASE NotifySender
  BY <1>10 DEF NotifySender
<1> QED
  BY <1>1, <1>2, <1>3, <1>4, <1>5, <1>6, <1>7, <1>8, <1>9, <1>10 DEF Receiver

LEMMA OthersTypeInv ==
  ASSUME TypeInv, Reconnector \/ Gate
  PROVE  TypeInv'
<1> USE DEF TypeInv, TypeOK, HandingOver, clientVars, gateVars, historyVars
<1>1. CASE ReconnectCheck
  BY <1>1 DEF ReconnectCheck
<1>2. CASE Cleanup
  <2>1. connected' \in BOOLEAN /\ response_event' \in BOOLEAN /\ alive' \in BOOLEAN
    BY <1>2, Zenon DEF Cleanup
  <2>2. to_gate' \in Seq(Lists) /\ from_gate' \in Seq(Item)
    BY <1>2, RangeEmpty DEF Cleanup
  <2>3. woken' \subseteq Lists
    <3>1. spc \in {"send", "wait"} => req \in Lists
      BY BoundsAssumption DEF Lists
    <3> QED
      BY <1>2, <3>1 DEF Cleanup
  <2> QED
    BY <1>2, <2>1, <2>2, <2>3, Zenon DEF Cleanup
<1>3. CASE ConnectSucceeds
  BY <1>3 DEF ConnectSucceeds
<1>4. CASE ConnectFails
  BY <1>4 DEF ConnectFails
<1>5. CASE GateAnswers
  <2>0. Head(to_gate) \in Lists /\ Tail(to_gate) \in Seq(Lists)
    BY <1>5, RangeTail DEF GateAnswers
  <2>1. SeqNumber(Head(to_gate)) \in Numbers
    BY <2>0, SeqNumberType DEF Lists
  <2>2. PICK result \in {"ok", "error", "unreadable"} :
          /\ from_gate' = Append(from_gate,
               [kind |-> "answer", list |-> Head(to_gate),
                seq |-> SeqNumber(Head(to_gate)), result |-> result])
          /\ accepted' = IF result = "ok" THEN accepted \cup {Head(to_gate)} ELSE accepted
          /\ junk' = IF result = "unreadable" THEN junk + 1 ELSE junk
    BY <1>5 DEF GateAnswers
  <2>3. [kind |-> "answer", list |-> Head(to_gate), seq |-> SeqNumber(Head(to_gate)),
         result |-> result] \in Item
    BY <2>0, <2>1 DEF Item
  <2>4. from_gate' \in Seq(Item)
    BY <2>2, <2>3, RangeAppend
  <2>5. to_gate' \in Seq(Lists) /\ accepted' \subseteq Lists /\ junk' \in Nat
    BY <1>5, <2>0, <2>2 DEF GateAnswers
  <2>6. UNCHANGED <<clientVars, spc, req, rpc, msg, cpc, alive, historyVars>>
    BY <1>5 DEF GateAnswers
  <2> QED
    BY <2>4, <2>5, <2>6
<1>6. CASE GateSendsJunk
  <2>1. PICK kind \in {"junk", "version"} : from_gate' = Append(from_gate, [kind |-> kind])
    BY <1>6 DEF GateSendsJunk
  <2>2. [kind |-> kind] \in Item
    BY DEF Item
  <2>3. from_gate' \in Seq(Item)
    BY <2>1, <2>2, RangeAppend
  <2> QED
    BY <1>6, <2>3 DEF GateSendsJunk
<1>7. CASE GateCloses
  <2>1. connected' \in BOOLEAN /\ response_event' \in BOOLEAN /\ alive' \in BOOLEAN
    BY <1>7, Zenon DEF GateCloses
  <2>2. to_gate' \in Seq(Lists)
    BY <1>7, RangeEmpty DEF GateCloses
  <2>3. HandingOver' => msg' # None
    BY <1>7 DEF GateCloses
  <2> QED
    BY <1>7, <2>1, <2>2, <2>3 DEF GateCloses
<1> QED
  BY <1>1, <1>2, <1>3, <1>4, <1>5, <1>6, <1>7 DEF Reconnector, Gate

LEMMA NextTypeInv == TypeInv /\ [Next]_vars => TypeInv'
<1> SUFFICES ASSUME TypeInv, [Next]_vars PROVE TypeInv'
  OBVIOUS
<1>1. CASE UNCHANGED vars
  BY <1>1 DEF vars, clientVars, gateVars, historyVars, TypeInv, TypeOK, HandingOver
<1> QED
  BY <1>1, SenderTypeInv, ReceiverTypeInv, OthersTypeInv DEF Next

(* Every variable keeps its type: only what the gate sent is parsed, and what  *)
(* the caller is given is an answer or nothing.                                *)
THEOREM TypeCorrect == Spec => []TypeOK
<1>1. TypeInv => TypeOK
  BY DEF TypeInv
<1> QED
  BY <1>1, InitTypeInv, NextTypeInv, PTL DEF Spec

-----------------------------------------------------------------------------
(* What is on its way *)

(* Received and not yet parsed, then what is still on its way from the gate:   *)
(* the answers in the order in which the receiver will come to them.           *)
Pipe == buffer \o from_gate
IsAnswer(s, i) == i \in 1..Len(s) /\ s[i].kind = "answer"
Answers(s) == {n \in Lists : \E i \in 1..Len(s) : IsAnswer(s, i) /\ s[i].list = n}
Inflight == Answers(Pipe) \cup Range(to_gate)

(* Answers come in the order of their lists, as lists come in theirs.          *)
Ordered(s) ==
  \A i, j \in 1..Len(s) : i < j /\ IsAnswer(s, i) /\ IsAnswer(s, j) => s[i].list < s[j].list
Rising(s) == \A i, j \in 1..Len(s) : i < j => s[i] < s[j]

LEMMA TailWire ==
  ASSUME NEW s \in Seq(Item), s # <<>>
  PROVE  /\ Tail(s) \in Seq(Item) /\ Range(Tail(s)) \subseteq Range(s)
         /\ Head(s) \in Item /\ Head(s) \in Range(s)
         /\ Answers(Tail(s)) \subseteq Answers(s)
         /\ Head(s).kind = "answer" => Head(s).list \in Answers(s)
         /\ Ordered(s) => Ordered(Tail(s))
         /\ Ordered(s) /\ Head(s).kind = "answer" =>
              \A n \in Answers(Tail(s)) : Head(s).list < n
<1>1. /\ Len(Tail(s)) = Len(s) - 1 /\ Len(s) \in Nat /\ Len(s) >= 1
      /\ \A i \in 1..Len(Tail(s)) : Tail(s)[i] = s[i + 1]
      /\ Head(s) = s[1]
  BY HeadTailProperties, LenProperties, EmptySeq
<1>2. /\ Tail(s) \in Seq(Item) /\ Range(Tail(s)) \subseteq Range(s)
      /\ Head(s) \in Item /\ Head(s) \in Range(s)
  BY RangeTail
<1>3. Answers(Tail(s)) \subseteq Answers(s)
  <2>1. ASSUME NEW i \in 1..Len(Tail(s)), IsAnswer(Tail(s), i)
        PROVE  IsAnswer(s, i + 1) /\ s[i + 1] = Tail(s)[i] /\ i + 1 \in 1..Len(s)
    BY <1>1, <2>1 DEF IsAnswer
  <2> QED
    BY <2>1 DEF Answers
<1>4. Head(s).kind = "answer" => Head(s).list \in Answers(s)
  <2>1. Head(s).kind = "answer" => Head(s).list \in Lists
    BY <1>2 DEF Item
  <2>2. 1 \in 1..Len(s)
    BY <1>1
  <2> QED
    BY <1>1, <2>1, <2>2 DEF Answers, IsAnswer
<1>5. ASSUME NEW i \in 1..Len(Tail(s))
      PROVE  i + 1 \in 1..Len(s) /\ 1 \in 1..Len(s) /\ 1 < i + 1 /\ Tail(s)[i] = s[i + 1]
             /\ (IsAnswer(Tail(s), i) => IsAnswer(s, i + 1))
             /\ (\A j \in 1..Len(Tail(s)) : i < j => i + 1 < j + 1)
  BY <1>1 DEF IsAnswer
<1>6. Ordered(s) => Ordered(Tail(s))
  BY <1>5 DEF Ordered
<1>7. ASSUME Ordered(s), Head(s).kind = "answer", NEW n \in Answers(Tail(s))
      PROVE  Head(s).list < n
  <2>1. PICK i \in 1..Len(Tail(s)) : IsAnswer(Tail(s), i) /\ Tail(s)[i].list = n
    BY DEF Answers
  <2>2. IsAnswer(s, 1)
    BY <1>1, <1>7 DEF IsAnswer
  <2> QED
    BY <1>1, <1>5, <1>7, <2>1, <2>2 DEF Ordered
<1> QED
  BY <1>2, <1>3, <1>4, <1>6, <1>7

LEMMA AppendWire ==
  ASSUME NEW s \in Seq(Item), NEW e \in Item
  PROVE  /\ Append(s, e) \in Seq(Item) /\ Range(Append(s, e)) = Range(s) \cup {e}
         /\ \A n \in Answers(Append(s, e)) :
              n \in Answers(s) \/ (e.kind = "answer" /\ n = e.list)
         /\ Ordered(s) /\ (e.kind = "answer" => \A n \in Answers(s) : n < e.list) =>
              Ordered(Append(s, e))
<1> DEFINE t == Append(s, e)
<1>1. /\ Len(t) = Len(s) + 1 /\ Len(s) \in Nat /\ t[Len(s) + 1] = e
      /\ \A i \in 1..Len(s) : t[i] = s[i]
  BY AppendProperties, LenProperties
<1>2. t \in Seq(Item) /\ Range(t) = Range(s) \cup {e}
  BY RangeAppend
<1> HIDE DEF t
<1>3. ASSUME NEW i \in 1..Len(t)
      PROVE  \/ i \in 1..Len(s) /\ t[i] = s[i] /\ (IsAnswer(t, i) <=> IsAnswer(s, i))
             \/ i = Len(s) + 1 /\ t[i] = e /\ (IsAnswer(t, i) <=> e.kind = "answer")
  BY <1>1 DEF IsAnswer
<1>4. \A n \in Answers(t) : n \in Answers(s) \/ (e.kind = "answer" /\ n = e.list)
  BY <1>3 DEF Answers
<1>5. ASSUME Ordered(s), e.kind = "answer" => \A n \in Answers(s) : n < e.list
      PROVE  Ordered(t)
  <2> SUFFICES ASSUME NEW i \in 1..Len(t), NEW j \in 1..Len(t), i < j,
                      IsAnswer(t, i), IsAnswer(t, j)
               PROVE  t[i].list < t[j].list
    BY DEF Ordered
  <2>1. i \in 1..Len(s) /\ t[i] = s[i] /\ IsAnswer(s, i)
    BY <1>1, <1>3
  <2>2. CASE j \in 1..Len(s)
    BY <1>1, <1>5, <2>1, <2>2 DEF Ordered, IsAnswer
  <2>3. CASE j = Len(s) + 1
    <3>1. t[j] = e /\ e.kind = "answer"
      BY <1>1, <2>3 DEF IsAnswer
    <3>2. s[i] \in Item /\ s[i].kind = "answer"
      BY <2>1, ElementOfSeq DEF IsAnswer
    <3>3. s[i].list \in Lists
      BY <3>2 DEF Item
    <3>4. s[i].list \in Answers(s)
      BY <2>1, <3>3 DEF Answers
    <3> QED
      BY <1>5, <2>1, <3>1, <3>4
  <2> QED
    BY <1>1, <2>2, <2>3
<1> QED
  BY <1>2, <1>4, <1>5 DEF t

(* A part of what is on its way is in order, too. *)
LEMMA ConcatWire ==
  ASSUME NEW s \in Seq(Item), NEW t \in Seq(Item)
  PROVE  /\ s \o t \in Seq(Item) /\ Range(s \o t) = Range(s) \cup Range(t)
         /\ Answers(s) \subseteq Answers(s \o t) /\ Answers(t) \subseteq Answers(s \o t)
         /\ Ordered(s \o t) => Ordered(s) /\ Ordered(t)
<1> DEFINE u == s \o t
<1>1. /\ Len(u) = Len(s) + Len(t) /\ Len(s) \in Nat /\ Len(t) \in Nat
      /\ \A i \in 1..Len(s) : u[i] = s[i]
      /\ \A i \in 1..Len(t) : u[Len(s) + i] = t[i]
  BY ConcatProperties, LenProperties
<1>2. u \in Seq(Item) /\ Range(u) = Range(s) \cup Range(t)
  BY RangeConcat
<1> HIDE DEF u
<1>3. ASSUME NEW i \in 1..Len(s)
      PROVE  i \in 1..Len(u) /\ u[i] = s[i] /\ (IsAnswer(s, i) => IsAnswer(u, i))
  BY <1>1 DEF IsAnswer
<1>4. ASSUME NEW i \in 1..Len(t)
      PROVE  /\ Len(s) + i \in 1..Len(u) /\ u[Len(s) + i] = t[i]
             /\ IsAnswer(t, i) => IsAnswer(u, Len(s) + i)
             /\ \A j \in 1..Len(t) : i < j => Len(s) + i < Len(s) + j
  BY <1>1 DEF IsAnswer
<1>5. Answers(s) \subseteq Answers(u) /\ Answers(t) \subseteq Answers(u)
  BY <1>3, <1>4 DEF Answers
<1>6. Ordered(u) => Ordered(s)
  BY <1>3 DEF Ordered
<1>7. Ordered(u) => Ordered(t)
  BY <1>4 DEF Ordered
<1> QED
  BY <1>2, <1>5, <1>6, <1>7 DEF u

LEMMA EmptyWire ==
  /\ <<>> \in Seq(Item) /\ Range(<<>>) = {} /\ Answers(<<>>) = {}
  /\ Ordered(<<>>) /\ Rising(<<>>)
  /\ \A s \in Seq(Item) : s \o <<>> = s /\ <<>> \o s = s
<1>1. Len(<<>>) = 0
  OBVIOUS
<1>2. \A s \in Seq(Item) : s \o <<>> = s /\ <<>> \o s = s
  BY ConcatEmptySeq
<1> QED
  BY <1>1, <1>2, RangeEmpty DEF Answers, Ordered, Rising, IsAnswer

LEMMA RisingTail ==
  ASSUME NEW s \in Seq(Lists), s # <<>>, Rising(s)
  PROVE  Rising(Tail(s)) /\ \A n \in Range(Tail(s)) : Head(s) < n
<1>1. /\ Len(Tail(s)) = Len(s) - 1 /\ Len(s) \in Nat /\ Len(s) >= 1
      /\ \A i \in 1..Len(Tail(s)) : Tail(s)[i] = s[i + 1]
      /\ Head(s) = s[1] /\ Tail(s) \in Seq(Lists)
  BY HeadTailProperties, LenProperties, EmptySeq
<1>2. ASSUME NEW i \in 1..Len(Tail(s))
      PROVE  i + 1 \in 1..Len(s) /\ 1 \in 1..Len(s) /\ 1 < i + 1 /\ Tail(s)[i] = s[i + 1]
             /\ (\A j \in 1..Len(Tail(s)) : i < j => i + 1 < j + 1)
  BY <1>1
<1>3. Rising(Tail(s))
  BY <1>2 DEF Rising
<1>4. ASSUME NEW n \in Range(Tail(s)) PROVE Head(s) < n
  <2>1. PICK i \in 1..Len(Tail(s)) : Tail(s)[i] = n
    BY <1>1, LenProperties DEF Range
  <2> QED
    BY <1>1, <1>2, <2>1 DEF Rising
<1> QED
  BY <1>3, <1>4

LEMMA RisingAppend ==
  ASSUME NEW s \in Seq(Lists), NEW e \in Lists, Rising(s), \A n \in Range(s) : n < e
  PROVE  Rising(Append(s, e))
<1> DEFINE t == Append(s, e)
<1>1. /\ Len(t) = Len(s) + 1 /\ Len(s) \in Nat /\ t[Len(s) + 1] = e
      /\ \A i \in 1..Len(s) : t[i] = s[i] /\ s[i] \in Range(s)
  BY AppendProperties, LenProperties DEF Range
<1> HIDE DEF t
<1>2. ASSUME NEW i \in 1..Len(t), NEW j \in 1..Len(t), i < j
      PROVE  t[i] < t[j]
  BY <1>1, <1>2 DEF Rising
<1> QED
  BY <1>2 DEF Rising, t

LEMMA ConcatTail ==
  ASSUME NEW s \in Seq(Item), NEW t \in Seq(Item), s # <<>>
  PROVE  /\ Tail(s) \o t = Tail(s \o t)
         /\ s \o t # <<>> /\ Head(s \o t) = Head(s)
<1> DEFINE a == Tail(s) \o t b == Tail(s \o t)
<1>1. Len(s) \in Nat /\ Len(s) >= 1 /\ Len(t) \in Nat
  BY EmptySeq, LenProperties
<1>2. s \o t # <<>> /\ s \o t \in Seq(Item) /\ Head(s \o t) = Head(s)
  BY <1>1
<1>3. a \in Seq(Item) /\ b \in Seq(Item) /\ Len(a) = Len(b)
  BY <1>1, <1>2
<1>4. ASSUME NEW i \in 1..Len(a) PROVE a[i] = b[i]
  BY <1>1, <1>2
<1> HIDE DEF a, b
<1>5. a = b
  BY <1>3, <1>4
<1> QED
  BY <1>2, <1>5 DEF a, b

LEMMA ConcatAppend ==
  ASSUME NEW s \in Seq(Item), NEW t \in Seq(Item), NEW e \in Item
  PROVE  s \o Append(t, e) = Append(s \o t, e)
<1> DEFINE a == s \o Append(t, e) b == Append(s \o t, e)
<1>1. a \in Seq(Item) /\ b \in Seq(Item) /\ Len(a) = Len(b)
  OBVIOUS
<1>2. ASSUME NEW i \in 1..Len(a) PROVE a[i] = b[i]
  OBVIOUS
<1> HIDE DEF a, b
<1>3. a = b
  BY <1>1, <1>2
<1> QED
  BY <1>3 DEF a, b

-----------------------------------------------------------------------------
(* What the acknowledgements rest on *)

(* The last list that can be on its way or answered. *)
Sent == IF spc \in {"clear", "send"} THEN req - 1 ELSE req

Spent  == {n \in Lists : \E a \in acked : a.answer = n}
Handed == {n \in Lists : HandingOver /\ msg.list = n}
Stored == {n \in Lists : last_response # None /\ last_response.list = n}
Gone   == Spent \cup Handed \cup Stored

(* An answer says what the gate has said of its list, under the number of it.  *)
Told(r) == r.result = "ok" => r.list \in accepted
Honest(a) == a.kind = "answer" => Told(a) /\ a.seq = SeqNumber(a.list)

(* Lists and answers are in order from the gate to the caller: each answer the *)
(* client has been through belongs to an earlier list than each it has yet to  *)
(* come to, and that to an earlier list than each the gate has not answered.   *)
InOrder(gone, answers, lists, last) ==
  /\ \A m \in gone : m <= last /\ \A n \in answers \cup lists : m < n
  /\ \A m \in answers : m <= last /\ \A n \in lists : m < n
  /\ \A m \in lists : m <= last

WireInv ==
  /\ Rising(to_gate) /\ Ordered(Pipe)
  /\ \A a \in Range(Pipe) : Honest(a)
  /\ InOrder(Gone, Answers(Pipe), Range(to_gate), Sent)

LEMMA PipeType == TypeInv => Pipe \in Seq(Item)
  BY ConcatWire DEF TypeInv, TypeOK, Pipe

LEMMA SentType == TypeInv => Sent \in Nat /\ req \in Nat /\ Sent <= req
  BY BoundsAssumption DEF TypeInv, TypeOK, Sent

LEMMA SentTypeAfter == TypeInv' => Sent' \in Nat
<1> SUFFICES ASSUME TypeInv' PROVE Sent' \in Nat
  OBVIOUS
<1>1. req' \in Nat /\ (spc' # "idle" => req' >= 1)
  BY BoundsAssumption DEF TypeInv, TypeOK
<1>2. CASE spc' \in {"clear", "send"}
  <2>1. Sent' = req' - 1 /\ req' >= 1
    BY <1>1, <1>2 DEF Sent
  <2>2. \A n \in Nat : n >= 1 => n - 1 \in Nat
    OBVIOUS
  <2> QED
    BY <1>1, <2>1, <2>2, Zenon
<1>3. CASE spc' \notin {"clear", "send"}
  BY <1>1, <1>3 DEF Sent
<1> QED
  BY <1>2, <1>3

(* Nothing new on the way, nothing new been through. *)
LEMMA WireShrinks ==
  ASSUME TypeInv, TypeInv', WireInv, Rising(to_gate)', Ordered(Pipe)',
         Range(Pipe)' \subseteq Range(Pipe), Answers(Pipe)' \subseteq Answers(Pipe),
         Range(to_gate)' \subseteq Range(to_gate), Gone' \subseteq Gone,
         Sent <= Sent', accepted' = accepted
  PROVE  WireInv' /\ Inflight' \subseteq Inflight
<1>1. \A a \in Range(Pipe)' : Honest(a)'
  BY DEF WireInv, Honest, Told
<1>2. Sent \in Nat /\ Sent' \in Nat
  BY SentType, SentTypeAfter
<1>3. \A m \in Lists : m <= Sent => m <= Sent'
  BY <1>2 DEF Lists
<1>4. Answers(Pipe) \subseteq Lists /\ Gone \subseteq Lists /\ Range(to_gate) \subseteq Lists
  BY LenProperties, ElementOfSeq DEF Answers, Gone, Spent, Handed, Stored, TypeInv, TypeOK, Range
<1>5. InOrder(Gone', Answers(Pipe)', Range(to_gate)', Sent')
  BY <1>3, <1>4 DEF WireInv, InOrder
<1>6. InOrder(Gone, Answers(Pipe), Range(to_gate), Sent)'
  BY <1>5 DEF InOrder
<1> QED
  BY <1>1, <1>6 DEF WireInv, Inflight

LEMMA WireStays ==
  ASSUME TypeInv, TypeInv', WireInv, UNCHANGED <<buffer, from_gate, to_gate, accepted>>,
         Gone' \subseteq Gone, Sent <= Sent'
  PROVE  WireInv' /\ Inflight' = Inflight
<1>1. Pipe' = Pipe /\ Answers(Pipe)' = Answers(Pipe) /\ Range(to_gate)' = Range(to_gate)
  BY DEF Pipe, Answers, IsAnswer
<1>2. Ordered(Pipe)' /\ Rising(to_gate)'
  BY <1>1 DEF WireInv, Ordered, Rising, IsAnswer
<1> QED
  BY <1>1, <1>2, WireShrinks DEF Inflight

(* The sender adds its list behind all others. *)
LEMMA SenderWire ==
  ASSUME TypeInv, TypeInv', WireInv, Sender
  PROVE  /\ WireInv'
         /\ Inflight' \subseteq Inflight \cup (IF SendList THEN {req} ELSE {})
<1> USE DEF clientVars, gateVars, historyVars, Idle
<1>0. req \in Nat /\ Sent \in Nat /\ Sent <= req
  BY SentType
<1>1. CASE SendStart
  <2>1. Gone' \subseteq Gone
    BY <1>1 DEF SendStart, Gone, Spent, Handed, Stored, HandingOver
  <2>2. Sent <= Sent' /\ UNCHANGED <<buffer, from_gate, to_gate, accepted>>
    BY <1>0, <1>1 DEF SendStart, Sent
  <2> QED
    BY <2>1, <2>2, WireStays
<1>2. CASE ClearEvent \/ SendRefused \/ SendFails \/ WaitTimesOut \/ Woken \/ ForgetNumber
  <2>1. UNCHANGED <<acked, rpc, msg, last_response, req, buffer, from_gate, to_gate, accepted>>
    BY <1>2 DEF ClearEvent, SendRefused, SendFails, WaitTimesOut, Woken, ForgetNumber
  <2>2. Gone' \subseteq Gone
    BY <2>1 DEF Gone, Spent, Handed, Stored, HandingOver
  <2>3. Sent <= Sent'
    BY <1>0, <1>2, <2>1
    DEF ClearEvent, SendRefused, SendFails, WaitTimesOut, Woken, ForgetNumber, Sent
  <2> QED
    BY <2>1, <2>2, <2>3, WireStays
<1>3. CASE SendList
  <2>1. CASE alive
    <3>1. /\ req \in Lists /\ to_gate' = Append(to_gate, req) /\ to_gate \in Seq(Lists)
          /\ Sent = req - 1 /\ Sent' = req
      BY <1>3, <2>1, BoundsAssumption DEF SendList, TypeInv, TypeOK, Lists, Sent
    <3>2. /\ UNCHANGED <<acked, rpc, msg, last_response, req, buffer, from_gate, accepted>>
      BY <1>3 DEF SendList
    <3>3. Gone' = Gone /\ Pipe' = Pipe /\ Answers(Pipe)' = Answers(Pipe)
      BY <3>2 DEF Gone, Spent, Handed, Stored, HandingOver, Pipe, Answers, IsAnswer
    <3>4. Ordered(Pipe)' /\ \A a \in Range(Pipe)' : Honest(a)'
      BY <3>2, <3>3 DEF WireInv, Ordered, IsAnswer, Honest, Told
    <3>5. Range(to_gate)' = Range(to_gate) \cup {req}
      BY <3>1, RangeAppend
    <3>6. /\ Range(to_gate) \subseteq Lists /\ Answers(Pipe) \subseteq Lists
          /\ Gone \subseteq Lists
      BY <3>1, LenProperties, ElementOfSeq DEF Range, Answers, Gone, Spent, Handed, Stored
    <3>7. \A n \in Lists : n <= Sent => n < req
      BY <1>0, <3>1 DEF Lists
    <3>8. \A n \in Range(to_gate) : n < req
      BY <3>6, <3>7 DEF WireInv, InOrder
    <3>9. Rising(to_gate)'
      BY <3>1, <3>8, RisingAppend DEF WireInv
    <3>10. InOrder(Gone, Answers(Pipe), Range(to_gate) \cup {req}, req)
      <4>1. \A n \in Lists : n < req => n <= req
        BY <1>0 DEF Lists
      <4>2. req <= req
        BY <1>0
      <4> QED
        BY <3>6, <3>7, <4>1, <4>2 DEF WireInv, InOrder
    <3>11. InOrder(Gone, Answers(Pipe), Range(to_gate), Sent)'
      BY <3>1, <3>3, <3>5, <3>10 DEF InOrder
    <3> QED
      BY <1>3, <3>3, <3>4, <3>5, <3>9, <3>11 DEF WireInv, Inflight
  <2>2. CASE ~alive
    <3>1. /\ UNCHANGED <<acked, rpc, msg, last_response, req, buffer, from_gate, to_gate,
                         accepted>>
      BY <1>3, <2>2 DEF SendList
    <3>2. Gone' \subseteq Gone
      BY <3>1 DEF Gone, Spent, Handed, Stored, HandingOver
    <3>3. Sent <= Sent'
      BY <1>0, <1>3, <3>1 DEF SendList, Sent
    <3> QED
      BY <3>1, <3>2, <3>3, WireStays
  <2> QED
    BY <2>1, <2>2
<1>4. CASE TakeResponse
  <2>1. UNCHANGED <<rpc, msg, last_response, req, buffer, from_gate, to_gate, accepted>>
        /\ spc = "take" /\ spc' = "reset"
    BY <1>4 DEF TakeResponse
  <2>2. Spent' \subseteq Spent \cup Stored
    BY <1>4 DEF TakeResponse, Spent, Stored
  <2>3. Gone' \subseteq Gone
    BY <2>1, <2>2 DEF Gone, Handed, Stored, HandingOver
  <2>4. Sent <= Sent'
    BY <1>0, <2>1 DEF Sent
  <2> QED
    BY <2>1, <2>3, <2>4, WireStays
<1>5. CASE ResetResponse
  <2>1. /\ UNCHANGED <<acked, rpc, msg, req, buffer, from_gate, to_gate, accepted>>
        /\ last_response' = None /\ spc = "reset" /\ spc' = "idle"
    BY <1>5 DEF ResetResponse
  <2>2. Gone' \subseteq Gone
    BY <2>1 DEF Gone, Spent, Handed, Stored, HandingOver
  <2>3. Sent <= Sent'
    BY <1>0, <2>1 DEF Sent
  <2> QED
    BY <2>1, <2>2, <2>3, WireStays
<1> QED
  BY <1>1, <1>2, <1>3, <1>4, <1>5 DEF Sender

(* The receiver comes to the answers one after the other. *)
LEMMA ReceiverWire ==
  ASSUME TypeInv, TypeInv', WireInv, Receiver
  PROVE  WireInv' /\ Inflight' \subseteq Inflight
<1> USE DEF clientVars, gateVars, historyVars
<1>0. /\ req \in Nat /\ Sent \in Nat /\ Sent <= req
      /\ buffer \in Seq(Item) /\ from_gate \in Seq(Item) /\ Pipe \in Seq(Item)
  BY SentType, PipeType DEF TypeInv, TypeOK
<1>1. ASSUME UNCHANGED <<acked, spc, req, to_gate, accepted>>,
             Pipe' = Pipe, Handed' \cup Stored' \subseteq Handed \cup Stored
      PROVE  WireInv' /\ Inflight' \subseteq Inflight
  <2>1. Gone' \subseteq Gone /\ Sent' = Sent /\ Sent <= Sent
    BY <1>0, <1>1 DEF Gone, Spent, Sent
  <2>2. /\ Range(Pipe)' = Range(Pipe) /\ Answers(Pipe)' = Answers(Pipe)
        /\ Range(to_gate)' = Range(to_gate) /\ Ordered(Pipe)' /\ Rising(to_gate)'
    BY <1>1 DEF Answers, IsAnswer, Ordered, Rising, WireInv
  <2> QED
    BY <1>1, <2>1, <2>2, WireShrinks
<1>2. ASSUME UNCHANGED <<acked, spc, req, to_gate, accepted, from_gate, last_response>>,
             buffer # <<>>, buffer' = Tail(buffer),
             Handed' \subseteq Handed
      PROVE  WireInv' /\ Inflight' \subseteq Inflight
  <2>1. Gone' \subseteq Gone /\ Sent' = Sent /\ Sent <= Sent
    BY <1>0, <1>2 DEF Gone, Spent, Stored, Sent
  <2>2. Pipe' = Tail(Pipe) /\ Pipe # <<>>
    BY <1>0, <1>2, ConcatTail DEF Pipe
  <2>3. /\ Range(Pipe)' \subseteq Range(Pipe) /\ Answers(Pipe)' \subseteq Answers(Pipe)
        /\ Ordered(Pipe)'
    <3>1. /\ Range(Tail(Pipe)) \subseteq Range(Pipe) /\ Answers(Tail(Pipe)) \subseteq Answers(Pipe)
          /\ Ordered(Tail(Pipe))
      BY <1>0, <2>2, TailWire DEF WireInv
    <3> QED
      BY <2>2, <3>1 DEF Answers, IsAnswer, Ordered
  <2>4. Range(to_gate)' = Range(to_gate) /\ Rising(to_gate)'
    BY <1>2 DEF Rising, WireInv
  <2> QED
    BY <1>2, <2>1, <2>3, <2>4, WireShrinks
<1>3. CASE ReceiveData
  <2>1. PICK n \in 1..Len(from_gate) :
          /\ buffer' = buffer \o SubSeq(from_gate, 1, n)
          /\ from_gate' = SubSeq(from_gate, n + 1, Len(from_gate))
    BY <1>3 DEF ReceiveData
  <2> DEFINE a == SubSeq(from_gate, 1, n) b == SubSeq(from_gate, n + 1, Len(from_gate))
  <2>2. n + 1 \in 1..(Len(from_gate) + 1) /\ n \in 0..Len(from_gate)
        /\ Len(from_gate) \in 0..Len(from_gate) /\ 1 \in 1..(Len(from_gate) + 1)
        /\ n \in (1 - 1)..Len(from_gate) /\ Len(from_gate) \in n..Len(from_gate)
    BY <1>0, LenProperties
  <2>3. a \in Seq(Item) /\ b \in Seq(Item)
    BY <1>0, <2>2, RangeSubSeq
  <2>4. a \o b = from_gate
    BY <1>0, <2>2, ConcatAdjacentSubSeq, SubSeqFull
  <2>5. buffer' = buffer \o a /\ from_gate' = b
    BY <2>1
  <2> HIDE DEF a, b
  <2>6. Pipe' = Pipe
    <3>1. Pipe' = (buffer \o a) \o b /\ Pipe = buffer \o (a \o b)
      BY <2>4, <2>5 DEF Pipe
    <3>2. \A x, y, z \in Seq(Item) : (x \o y) \o z = x \o (y \o z)
      BY ConcatAssociates
    <3>3. buffer \in Seq(Item)
      BY <1>0
    <3>4. (buffer \o a) \o b = buffer \o (a \o b)
      BY <2>3, <3>2, <3>3, Zenon
    <3> QED
      BY <3>1, <3>4, Zenon
  <2>7. Handed' \cup Stored' \subseteq Handed \cup Stored
    BY <1>3 DEF ReceiveData, Handed, Stored, HandingOver
  <2>8. UNCHANGED <<acked, spc, req, to_gate, accepted>>
    BY <1>3 DEF ReceiveData, historyVars
  <2> QED
    BY <1>1, <2>6, <2>7, <2>8
<1>4. CASE ReceiveClosed \/ ParseVersion \/ ParseNothing
  <2>1. UNCHANGED <<acked, spc, req, to_gate, accepted, buffer, from_gate, last_response>>
        /\ rpc' \in {"dead", "recv"}
    BY <1>4 DEF ReceiveClosed, ParseVersion, ParseNothing, ReceiverEnds
  <2>2. Handed' \cup Stored' \subseteq Handed \cup Stored /\ Pipe' = Pipe
    BY <2>1 DEF Handed, Stored, HandingOver, Pipe
  <2> QED
    BY <1>1, <2>1, <2>2
<1>5. CASE ParseJunk \/ IgnoreAnswer \/ AnswerUnreadable
  <2>1. /\ UNCHANGED <<acked, spc, req, to_gate, accepted, from_gate, last_response>>
        /\ buffer # <<>> /\ buffer' = Tail(buffer) /\ rpc' \in {"dead", "recv", "parse"}
    BY <1>5 DEF ParseJunk, IgnoreAnswer, AnswerUnreadable, NextAnswer
  <2>2. Handed' \subseteq Handed
    BY <2>1 DEF Handed, HandingOver
  <2> QED
    BY <1>2, <2>1, <2>2
<1>6. CASE MatchAnswer
  <2> DEFINE a == Head(buffer)
  <2>1. /\ UNCHANGED <<acked, spc, req, to_gate, accepted, from_gate, last_response>>
        /\ buffer # <<>> /\ buffer' = Tail(buffer)
        /\ a.kind = "answer" /\ msg' = [list |-> a.list, result |-> a.result]
    BY <1>6 DEF MatchAnswer, NextAnswer
  <2>2. Pipe' = Tail(Pipe) /\ Pipe # <<>> /\ Head(Pipe) = a
    BY <1>0, <2>1, ConcatTail DEF Pipe
  <2>3. /\ Range(Tail(Pipe)) \subseteq Range(Pipe) /\ Ordered(Tail(Pipe))
        /\ Answers(Tail(Pipe)) \subseteq Answers(Pipe) /\ a.list \in Answers(Pipe)
        /\ \A n \in Answers(Tail(Pipe)) : a.list < n
    BY <1>0, <2>1, <2>2, TailWire DEF WireInv
  <2>4. /\ Range(Pipe)' \subseteq Range(Pipe) /\ Ordered(Pipe)'
        /\ Answers(Pipe)' = Answers(Tail(Pipe))
    BY <2>2, <2>3 DEF Answers, IsAnswer, Ordered
  <2>5. Gone' \subseteq Gone \cup {a.list}
    BY <2>1 DEF Gone, Spent, Handed, Stored
  <2>6. Sent' = Sent /\ Range(to_gate)' = Range(to_gate) /\ Rising(to_gate)'
    BY <2>1 DEF Sent, WireInv, Rising
  <2>7. \A b \in Range(Pipe)' : Honest(b)'
    BY <2>1, <2>4 DEF WireInv, Honest, Told
  <2> HIDE DEF a
  <2>8. InOrder(Gone \cup {a.list}, Answers(Tail(Pipe)), Range(to_gate), Sent)
    BY <2>3 DEF WireInv, InOrder
  <2>9. InOrder(Gone, Answers(Pipe), Range(to_gate), Sent)'
    BY <2>4, <2>5, <2>6, <2>8 DEF InOrder
  <2> QED
    BY <2>3, <2>4, <2>6, <2>7, <2>9 DEF WireInv, Inflight
<1>7. CASE KeepResponse \/ NotifySender
  <2>1. UNCHANGED <<acked, spc, req, to_gate, accepted, buffer, from_gate>> /\ Pipe' = Pipe
    BY <1>7 DEF KeepResponse, NotifySender, Pipe
  <2>2. Handed' \cup Stored' \subseteq Handed \cup Stored
    BY <1>7 DEF KeepResponse, NotifySender, Handed, Stored, HandingOver
  <2> QED
    BY <1>1, <2>1, <2>2
<1> QED
  BY <1>3, <1>4, <1>5, <1>6, <1>7 DEF Receiver

(* A connection loses what is on it, and the gate answers the first list. *)
LEMMA OthersWire ==
  ASSUME TypeInv, TypeInv', WireInv, Reconnector \/ Gate
  PROVE  WireInv' /\ Inflight' \subseteq Inflight
<1> USE DEF clientVars, gateVars, historyVars
<1>0. /\ req \in Nat /\ Sent \in Nat /\ Sent <= req
      /\ buffer \in Seq(Item) /\ from_gate \in Seq(Item) /\ Pipe \in Seq(Item)
      /\ to_gate \in Seq(Lists)
  BY SentType, PipeType DEF TypeInv, TypeOK
<1>1. ASSUME UNCHANGED <<acked, spc, req, accepted, msg, last_response>>, HandingOver' => HandingOver,
             Pipe' \in {Pipe, buffer, from_gate, <<>>}, to_gate' \in {to_gate, <<>>}
      PROVE  WireInv' /\ Inflight' \subseteq Inflight
  <2>1. Gone' \subseteq Gone /\ Sent' = Sent /\ Sent <= Sent
    BY <1>0, <1>1 DEF Gone, Spent, Handed, Stored, Sent
  <2>2. /\ Range(Pipe') \subseteq Range(Pipe) /\ Answers(Pipe') \subseteq Answers(Pipe)
        /\ Ordered(Pipe')
    <3>1. Ordered(Pipe) /\ Pipe = buffer \o from_gate
      BY DEF WireInv, Pipe
    <3>2. ASSUME NEW p \in {Pipe, buffer, from_gate, <<>>}
          PROVE  Range(p) \subseteq Range(Pipe) /\ Answers(p) \subseteq Answers(Pipe) /\ Ordered(p)
      <4>1. CASE p = Pipe
        BY <3>1, <4>1
      <4>2. CASE p \in {buffer, from_gate}
        BY <1>0, <3>1, <4>2, ConcatWire
      <4>3. CASE p = <<>>
        BY <4>3, EmptyWire
      <4> QED
        BY <3>2, <4>1, <4>2, <4>3
    <3> QED
      BY <1>1, <3>2
  <2>3. /\ Range(Pipe)' \subseteq Range(Pipe) /\ Answers(Pipe)' \subseteq Answers(Pipe)
        /\ Ordered(Pipe)'
    BY <2>2 DEF Answers, IsAnswer, Ordered
  <2>4. Range(to_gate') \subseteq Range(to_gate) /\ Rising(to_gate')
    BY <1>1, EmptyWire DEF WireInv
  <2>5. Range(to_gate)' \subseteq Range(to_gate) /\ Rising(to_gate)'
    BY <2>4 DEF Rising
  <2> QED
    BY <1>1, <2>1, <2>3, <2>5, WireShrinks
<1>2. CASE ReconnectCheck \/ ConnectFails
  BY <1>1, <1>2 DEF ReconnectCheck, ConnectFails, HandingOver, Pipe
<1>3. CASE Cleanup
  <2>1. Pipe' = buffer
    BY <1>0, <1>3, EmptyWire DEF Cleanup, Pipe
  <2>2. HandingOver' => HandingOver
    BY <1>3 DEF Cleanup, HandingOver
  <2> QED
    BY <1>1, <1>3, <2>1, <2>2 DEF Cleanup
<1>4. CASE ConnectSucceeds
  <2>1. Pipe' = from_gate
    BY <1>0, <1>4, EmptyWire DEF ConnectSucceeds, Pipe
  <2>2. HandingOver' => HandingOver
    BY <1>4 DEF ConnectSucceeds, HandingOver
  <2> QED
    BY <1>1, <1>4, <2>1, <2>2 DEF ConnectSucceeds
<1>5. CASE GateCloses
  <2>1. Pipe' = Pipe /\ (HandingOver' => HandingOver)
    BY <1>5 DEF GateCloses, Pipe, HandingOver
  <2> QED
    BY <1>1, <1>5, <2>1 DEF GateCloses
<1>6. ASSUME NEW e \in Item, from_gate' = Append(from_gate, e),
             UNCHANGED <<acked, spc, req, msg, last_response, rpc, buffer>>
      PROVE  /\ Pipe' = Append(Pipe, e)
             /\ Range(Pipe') = Range(Pipe) \cup {e}
             /\ \A n \in Answers(Pipe') : n \in Answers(Pipe) \/ (e.kind = "answer" /\ n = e.list)
             /\ (e.kind = "answer" => \A n \in Answers(Pipe) : n < e.list) => Ordered(Pipe')
             /\ Gone' = Gone /\ Sent' = Sent
  <2>1. Pipe' = Append(Pipe, e)
    BY <1>0, <1>6, ConcatAppend DEF Pipe
  <2>2. Gone' = Gone /\ Sent' = Sent
    BY <1>6 DEF Gone, Spent, Handed, Stored, HandingOver, Sent
  <2>3. Ordered(Pipe)
    BY DEF WireInv
  <2> QED
    BY <1>0, <2>1, <2>2, <2>3, AppendWire
<1>7. CASE GateAnswers
  <2> DEFINE n == Head(to_gate)
  <2>1. /\ n \in Lists /\ n \in Range(to_gate) /\ Range(Tail(to_gate)) \subseteq Range(to_gate)
        /\ Rising(Tail(to_gate)) /\ \A m \in Range(Tail(to_gate)) : n < m
    BY <1>0, <1>7, RangeTail, RisingTail DEF GateAnswers, WireInv
  <2>2. PICK result \in {"ok", "error", "unreadable"} :
          /\ from_gate' = Append(from_gate,
               [kind |-> "answer", list |-> n, seq |-> SeqNumber(n), result |-> result])
          /\ accepted' = IF result = "ok" THEN accepted \cup {n} ELSE accepted
    BY <1>7 DEF GateAnswers
  <2> DEFINE e == [kind |-> "answer", list |-> n, seq |-> SeqNumber(n), result |-> result]
  <2>3. SeqNumber(n) \in Numbers
    BY <2>1, SeqNumberType DEF Lists
  <2>4. e \in Item /\ e.kind = "answer" /\ e.list = n /\ e.seq = SeqNumber(n)
        /\ (e.result = "ok" => n \in accepted')
    BY <2>1, <2>2, <2>3 DEF Item
  <2>5. accepted \subseteq accepted' /\ to_gate' = Tail(to_gate)
        /\ UNCHANGED <<acked, spc, req, msg, last_response, rpc, buffer>>
    BY <1>7, <2>2 DEF GateAnswers
  <2>6. from_gate' = Append(from_gate, e)
    BY <2>2
  <2> HIDE DEF e
  <2>7. \A m \in Answers(Pipe) : m < n
    BY <2>1 DEF WireInv, InOrder
  <2>8. /\ Range(Pipe') = Range(Pipe) \cup {e}
        /\ \A m \in Answers(Pipe') : m \in Answers(Pipe) \/ m = n
        /\ Ordered(Pipe') /\ Gone' = Gone /\ Sent' = Sent
    BY <1>6, <2>4, <2>5, <2>6, <2>7
  <2>9. \A a \in Range(Pipe)' : Honest(a)'
    BY <2>4, <2>5, <2>8 DEF WireInv, Honest, Told
  <2>10. Ordered(Pipe)' /\ Rising(to_gate)'
    BY <2>1, <2>5, <2>8 DEF Ordered, IsAnswer, Rising
  <2>11. Answers(Pipe)' \subseteq Answers(Pipe) \cup {n}
    BY <2>8 DEF Answers, IsAnswer
  <2> HIDE DEF n
  <2>12. InOrder(Gone, Answers(Pipe) \cup {n}, Range(Tail(to_gate)), Sent)
    BY <2>1, <2>7 DEF WireInv, InOrder
  <2>13. InOrder(Gone, Answers(Pipe), Range(to_gate), Sent)'
    BY <2>5, <2>8, <2>11, <2>12 DEF InOrder
  <2> QED
    BY <2>1, <2>5, <2>9, <2>10, <2>11, <2>13 DEF WireInv, Inflight
<1>8. CASE GateSendsJunk
  <2>1. PICK kind \in {"junk", "version"} : from_gate' = Append(from_gate, [kind |-> kind])
    BY <1>8 DEF GateSendsJunk
  <2> DEFINE e == [kind |-> kind]
  <2>2. e \in Item /\ e.kind # "answer"
    BY DEF Item
  <2>3. UNCHANGED <<acked, spc, req, msg, last_response, rpc, buffer, to_gate, accepted>>
    BY <1>8 DEF GateSendsJunk
  <2>4. from_gate' = Append(from_gate, e)
    BY <2>1
  <2> HIDE DEF e
  <2>5. /\ Range(Pipe') = Range(Pipe) \cup {e} /\ Answers(Pipe') \subseteq Answers(Pipe)
        /\ Ordered(Pipe') /\ Gone' = Gone /\ Sent' = Sent
    BY <1>6, <2>2, <2>3, <2>4
  <2>6. \A a \in Range(Pipe)' : Honest(a)'
    BY <2>2, <2>3, <2>5 DEF WireInv, Honest, Told
  <2>7. Answers(Pipe)' \subseteq Answers(Pipe) /\ Ordered(Pipe)'
    BY <2>5 DEF Answers, IsAnswer, Ordered
  <2>8. Range(to_gate)' = Range(to_gate) /\ Rising(to_gate)'
    BY <2>3 DEF WireInv, Rising
  <2>9. InOrder(Gone, Answers(Pipe), Range(to_gate), Sent)'
    BY <2>5, <2>7, <2>8 DEF WireInv, InOrder
  <2> QED
    BY <2>6, <2>7, <2>8, <2>9 DEF WireInv, Inflight
<1> QED
  BY <1>2, <1>3, <1>4, <1>5, <1>7, <1>8 DEF Reconnector, Gate

-----------------------------------------------------------------------------
(* No answer acknowledges twice *)

OnceInv ==
  /\ HandingOver => Told(msg)
  /\ rpc = "keep" => msg.list \notin Spent \cup Stored
  /\ rpc = "notify" => last_response \in {None, msg}
  /\ last_response # None =>
       Told(last_response) /\ (spc # "reset" => last_response.list \notin Spent)
  /\ NoAnswerCountsTwice

LEMMA SenderOnce ==
  ASSUME TypeInv, TypeInv', WireInv, OnceInv, Sender
  PROVE  OnceInv'
<1> USE DEF clientVars, gateVars, historyVars, Idle
<1>1. CASE SendStart \/ ClearEvent \/ SendRefused \/ SendList \/ SendFails
           \/ WaitTimesOut \/ Woken \/ ForgetNumber
  <2>1. /\ UNCHANGED <<acked, accepted, rpc, msg, last_response>>
        /\ spc # "reset"
    BY <1>1 DEF SendStart, ClearEvent, SendRefused, SendList, SendFails, WaitTimesOut,
                Woken, ForgetNumber
  <2>2. HandingOver' = HandingOver /\ Spent' = Spent /\ Stored' = Stored
        /\ Told(msg)' = Told(msg) /\ Told(last_response)' = Told(last_response)
        /\ NoAnswerCountsTwice' = NoAnswerCountsTwice
    BY <2>1 DEF HandingOver, Spent, Stored, Told, NoAnswerCountsTwice
  <2> QED
    BY <2>1, <2>2 DEF OnceInv
<1>2. CASE TakeResponse
  <2>1. UNCHANGED <<accepted, rpc, msg, last_response, req>> /\ spc = "take" /\ spc' = "reset"
    BY <1>2 DEF TakeResponse
  <2>2. /\ HandingOver' = HandingOver /\ Stored' = Stored
        /\ Told(msg)' = Told(msg) /\ Told(last_response)' = Told(last_response)
    BY <2>1 DEF HandingOver, Stored, Told
  <2>3. Spent' \subseteq Spent \cup Stored
    BY <1>2 DEF TakeResponse, Spent, Stored
  <2>4. NoAnswerCountsTwice'
    <3>1. CASE last_response # None /\ last_response.result = "ok"
      <4> DEFINE n == last_response.list
      <4>1. acked' = acked \cup {[list |-> req, answer |-> n]}
        BY <1>2, <3>1 DEF TakeResponse
      <4>2. n \in accepted /\ n \notin Spent /\ n \in Lists
        BY <2>1, <3>1 DEF OnceInv, Told, TypeInv, TypeOK, Response
      <4>3. n \in Stored
        BY <3>1, <4>2 DEF Stored
      <4>4. n <= req
        BY <2>1, <4>3 DEF WireInv, InOrder, Gone, Sent
      <4>5. \A c \in acked : c.answer # n
        BY <4>2 DEF Spent
      <4> HIDE DEF n
      <4> QED
        BY <2>1, <4>1, <4>2, <4>4, <4>5 DEF OnceInv, NoAnswerCountsTwice
    <3>2. CASE ~(last_response # None /\ last_response.result = "ok")
      BY <1>2, <2>1, <3>2 DEF TakeResponse, OnceInv, NoAnswerCountsTwice
    <3> QED
      BY <3>1, <3>2
  <2> QED
    BY <2>1, <2>2, <2>3, <2>4 DEF OnceInv
<1>3. CASE ResetResponse
  <2>1. UNCHANGED <<acked, accepted, rpc, msg>> /\ last_response' = None
    BY <1>3 DEF ResetResponse
  <2>2. HandingOver' = HandingOver /\ Spent' = Spent /\ Stored' = {}
        /\ Told(msg)' = Told(msg) /\ NoAnswerCountsTwice' = NoAnswerCountsTwice
    BY <2>1 DEF HandingOver, Spent, Stored, Told, NoAnswerCountsTwice
  <2> QED
    BY <2>1, <2>2 DEF OnceInv
<1> QED
  BY <1>1, <1>2, <1>3 DEF Sender

LEMMA ReceiverOnce ==
  ASSUME TypeInv, TypeInv', WireInv, OnceInv, Receiver
  PROVE  OnceInv'
<1> USE DEF clientVars, gateVars, historyVars
<1>0. buffer \in Seq(Item) /\ from_gate \in Seq(Item) /\ Pipe \in Seq(Item)
  BY PipeType DEF TypeInv, TypeOK
<1>1. CASE ReceiveData \/ ReceiveClosed \/ ParseNothing \/ ParseJunk \/ ParseVersion
           \/ IgnoreAnswer \/ AnswerUnreadable
  <2>1. /\ UNCHANGED <<acked, accepted, last_response, spc, req>>
        /\ rpc' \in {"parse", "dead", "recv"}
    BY <1>1 DEF ReceiveData, ReceiveClosed, ParseNothing, ParseJunk, ParseVersion,
                IgnoreAnswer, AnswerUnreadable, ReceiverEnds
  <2>2. ~HandingOver' /\ Spent' = Spent /\ Told(last_response)' = Told(last_response)
        /\ NoAnswerCountsTwice' = NoAnswerCountsTwice
    BY <2>1 DEF HandingOver, Spent, Told, NoAnswerCountsTwice
  <2> QED
    BY <2>1, <2>2 DEF OnceInv
<1>2. CASE MatchAnswer
  <2> DEFINE a == Head(buffer)
  <2>1. /\ UNCHANGED <<acked, accepted, last_response, spc, req>> /\ rpc' = "keep"
        /\ buffer # <<>> /\ a.kind = "answer"
        /\ msg' = [list |-> a.list, result |-> a.result]
    BY <1>2 DEF MatchAnswer, NextAnswer
  <2>2. Pipe # <<>> /\ Head(Pipe) = a
    BY <1>0, <2>1, ConcatTail DEF Pipe
  <2>3. a \in Range(Pipe) /\ a.list \in Answers(Pipe)
    BY <1>0, <2>1, <2>2, TailWire
  <2>4. Told(a)
    BY <2>1, <2>3 DEF WireInv, Honest
  <2>5. msg'.list = a.list /\ msg'.result = a.result
    BY <2>1
  <2>6. Told(msg)'
    BY <2>1, <2>4, <2>5 DEF Told
  <2>7. a.list \notin Gone
    <3>1. a.list \in Nat /\ ~(a.list < a.list)
      BY <2>3 DEF Answers, Lists
    <3> QED
      BY <2>3, <3>1 DEF WireInv, InOrder
  <2>8. Spent' = Spent /\ Stored' = Stored /\ Told(last_response)' = Told(last_response)
        /\ NoAnswerCountsTwice' = NoAnswerCountsTwice
    BY <2>1 DEF Spent, Stored, Told, NoAnswerCountsTwice
  <2> QED
    BY <2>1, <2>5, <2>6, <2>7, <2>8 DEF OnceInv, Gone
<1>3. CASE KeepResponse
  <2>1. /\ UNCHANGED <<acked, accepted, spc, req, msg>>
        /\ rpc = "keep" /\ rpc' = "notify" /\ last_response' = msg
    BY <1>3 DEF KeepResponse
  <2>2. /\ Told(msg) /\ msg.list \notin Spent
    BY <2>1 DEF OnceInv, HandingOver
  <2>3. Spent' = Spent /\ Told(msg)' = Told(msg) /\ Told(last_response)' = Told(msg)
        /\ NoAnswerCountsTwice' = NoAnswerCountsTwice
    BY <2>1 DEF Spent, Told, NoAnswerCountsTwice
  <2> QED
    BY <2>1, <2>2, <2>3 DEF OnceInv
<1>4. CASE NotifySender
  <2>1. UNCHANGED <<acked, accepted, spc, req, last_response>> /\ rpc' = "parse"
    BY <1>4 DEF NotifySender
  <2>2. ~HandingOver' /\ Spent' = Spent /\ Told(last_response)' = Told(last_response)
        /\ NoAnswerCountsTwice' = NoAnswerCountsTwice
    BY <2>1 DEF HandingOver, Spent, Told, NoAnswerCountsTwice
  <2> QED
    BY <2>1, <2>2 DEF OnceInv
<1> QED
  BY <1>1, <1>2, <1>3, <1>4 DEF Receiver

LEMMA OthersOnce ==
  ASSUME OnceInv, Reconnector \/ Gate
  PROVE  OnceInv'
<1> USE DEF clientVars, gateVars, historyVars
<1>1. /\ UNCHANGED <<acked, spc, req, msg, last_response>> /\ accepted \subseteq accepted'
      /\ rpc' \in {rpc, "recv"}
  BY DEF Reconnector, Gate, ReconnectCheck, Cleanup, ConnectSucceeds, ConnectFails,
         GateAnswers, GateSendsJunk, GateCloses
<1>2. /\ Told(msg) => Told(msg)'
      /\ Told(last_response) => Told(last_response)'
      /\ Spent' = Spent /\ Stored' = Stored /\ (HandingOver' => HandingOver)
      /\ NoAnswerCountsTwice => NoAnswerCountsTwice'
  BY <1>1 DEF Told, Spent, Stored, HandingOver, NoAnswerCountsTwice
<1> QED
  BY <1>1, <1>2 DEF OnceInv

-----------------------------------------------------------------------------
(* The answers before the first wait given up *)

(* No list before this one has been given up. *)
Clean == \A m \in given_up : m >= req

(* Nothing comes any more. *)
Silent == Inflight = {} /\ rpc # "keep"

CleanInv ==
  /\ AckRightUntilGivenUp
  /\ \A m \in given_up : m <= req
  /\ Clean => /\ \A n \in Inflight \cup Stored : n = req
              /\ rpc = "keep" => msg.list = req
  /\ Clean /\ spc \in {"clear", "send"} => Silent /\ last_response = None
  /\ Clean /\ spc = "idle" /\ req \notin given_up => Silent /\ last_response = None
  /\ Clean /\ spc = "reset" /\ req \notin given_up => Silent

(* Nothing happens but that answers get lost or closer. *)
LEMMA CleanStays ==
  ASSUME CleanInv, Inflight' \subseteq Inflight,
         UNCHANGED <<req, given_up, acked, last_response, spc>>,
         rpc' = "keep" => rpc = "keep" /\ msg' = msg
  PROVE  CleanInv'
<1>1. /\ Clean' = Clean /\ Stored' = Stored /\ (Silent => Silent')
      /\ AckRightUntilGivenUp' = AckRightUntilGivenUp
  BY DEF Clean, Stored, Silent, AckRightUntilGivenUp
<1> QED
  BY <1>1 DEF CleanInv

LEMMA SenderClean ==
  ASSUME TypeInv, TypeInv', WireInv, OnceInv, CleanInv, Sender
  PROVE  CleanInv'
<1> USE DEF clientVars, gateVars, historyVars, Idle
<1>0. /\ req \in Nat /\ given_up \subseteq Lists /\ given_up \subseteq Nat
      /\ Inflight' \subseteq Inflight \cup (IF SendList THEN {req} ELSE {})
  BY SenderWire, BoundsAssumption DEF TypeInv, TypeOK, Lists
<1>1. CASE SendStart
  <2>1. UNCHANGED <<given_up, acked, last_response, rpc, msg>> /\ spc = "idle"
        /\ req' = req + 1 /\ spc' = "clear" /\ ~SendList
    BY <1>1 DEF SendStart, SendList
  <2>2. Clean' => given_up = {} /\ Clean /\ req \notin given_up
    <3>1. \A m \in Nat : ~(m <= req /\ m >= req + 1)
      BY <1>0
    <3> QED
      BY <1>0, <2>1, <3>1 DEF Clean, CleanInv
  <2>3. Clean' => Inflight' = {} /\ rpc' # "keep" /\ last_response' = None /\ Stored' = {}
    BY <1>0, <2>1, <2>2 DEF CleanInv, Silent, Stored
  <2>4. \A m \in given_up : m <= req'
    <3>1. \A m \in Nat : m <= req => m <= req + 1
      BY <1>0
    <3> QED
      BY <1>0, <2>1, <3>1 DEF CleanInv
  <2>5. AckRightUntilGivenUp'
    BY <2>1 DEF CleanInv, AckRightUntilGivenUp
  <2> QED
    BY <2>1, <2>3, <2>4, <2>5 DEF CleanInv, Silent
<1>2. CASE ClearEvent \/ SendRefused \/ SendFails
  <2>1. /\ UNCHANGED <<req, given_up, acked, last_response, rpc, msg>>
        /\ spc \in {"clear", "send"} /\ spc' \in {"send", "idle"} /\ ~SendList
    BY <1>2 DEF ClearEvent, SendRefused, SendFails, SendList
  <2>2. Inflight' \subseteq Inflight
    BY <1>0, <2>1
  <2>3. /\ Clean' = Clean /\ Stored' = Stored /\ (Silent => Silent')
        /\ AckRightUntilGivenUp' = AckRightUntilGivenUp
    BY <2>1, <2>2 DEF Clean, Stored, Silent, AckRightUntilGivenUp
  <2> QED
    BY <2>1, <2>2, <2>3 DEF CleanInv
<1>3. CASE SendList
  <2>1. /\ UNCHANGED <<req, given_up, acked, last_response, rpc, msg>> /\ spc' = "wait"
    BY <1>3 DEF SendList
  <2>2. /\ Clean' = Clean /\ Stored' = Stored /\ Inflight' \subseteq Inflight \cup {req}
        /\ AckRightUntilGivenUp' = AckRightUntilGivenUp
    BY <1>0, <2>1 DEF Clean, Stored, AckRightUntilGivenUp
  <2> QED
    BY <2>1, <2>2 DEF CleanInv
<1>4. CASE WaitTimesOut
  <2>1. /\ UNCHANGED <<req, acked, last_response, rpc, msg>> /\ spc' = "idle" /\ ~SendList
        /\ given_up' = given_up \cup {req}
    BY <1>4 DEF WaitTimesOut, SendList
  <2>2. Inflight' \subseteq Inflight /\ Stored' = Stored /\ req >= req /\ req <= req
    BY <1>0, <2>1 DEF Stored
  <2>3. Clean' => Clean
    BY <2>1 DEF Clean
  <2>4. AckRightUntilGivenUp'
    BY <2>1 DEF CleanInv, AckRightUntilGivenUp
  <2> QED
    BY <2>1, <2>2, <2>3, <2>4 DEF CleanInv
<1>5. CASE Woken \/ ForgetNumber
  <2>1. /\ UNCHANGED <<req, given_up, acked, last_response, rpc, msg>>
        /\ spc' \in {"forget", "take"} /\ ~SendList
    BY <1>5 DEF Woken, ForgetNumber, SendList
  <2>2. /\ Clean' = Clean /\ Stored' = Stored /\ Inflight' \subseteq Inflight
        /\ AckRightUntilGivenUp' = AckRightUntilGivenUp
    BY <1>0, <2>1 DEF Clean, Stored, AckRightUntilGivenUp
  <2> QED
    BY <2>1, <2>2 DEF CleanInv
<1>6. CASE TakeResponse
  <2>1. /\ UNCHANGED <<req, last_response, rpc, msg>> /\ spc = "take" /\ spc' = "reset"
        /\ ~SendList /\ req \in Lists
        /\ given_up' = IF last_response = None THEN given_up \cup {req} ELSE given_up
    BY <1>6, BoundsAssumption DEF TakeResponse, SendList, TypeInv, TypeOK, Lists
  <2>2. /\ Inflight' \subseteq Inflight /\ Stored' = Stored /\ req >= req /\ req <= req
        /\ ~(req < req)
    BY <1>0, <2>1 DEF Stored
  <2>3. Clean' = Clean
    BY <2>1, <2>2 DEF Clean
  <2>4. last_response # None => last_response.list \in Stored
    BY DEF Stored, TypeInv, TypeOK, Response
  <2>5. AckRightUntilGivenUp'
    <3>1. CASE last_response # None /\ last_response.result = "ok"
      <4>1. acked' = acked \cup {[list |-> req, answer |-> last_response.list]}
            /\ given_up' = given_up
        BY <1>6, <2>1, <3>1 DEF TakeResponse
      <4>2. Clean => last_response.list = req
        BY <2>4, <3>1 DEF CleanInv
      <4>3. ~Clean => \E m \in given_up : m < req
        BY <1>0 DEF Clean
      <4> QED
        BY <4>1, <4>2, <4>3 DEF CleanInv, AckRightUntilGivenUp
    <3>2. CASE ~(last_response # None /\ last_response.result = "ok")
      <4>1. acked' = acked /\ given_up \subseteq given_up'
        BY <1>6, <2>1, <3>2 DEF TakeResponse
      <4> QED
        BY <4>1 DEF CleanInv, AckRightUntilGivenUp
    <3> QED
      BY <3>1, <3>2
  <2>6. Clean /\ last_response # None => Silent
    <3> SUFFICES ASSUME Clean, last_response # None PROVE Silent
      OBVIOUS
    <3>1. last_response.list = req /\ req \in Stored
      BY <2>4 DEF CleanInv
    <3>2. Inflight = {}
      BY <2>2, <3>1 DEF CleanInv, WireInv, InOrder, Gone, Inflight
    <3>3. rpc # "keep"
      BY <3>1 DEF CleanInv, OnceInv
    <3> QED
      BY <3>2, <3>3 DEF Silent
  <2>7. Clean' /\ req \notin given_up' => Silent'
    BY <2>1, <2>2, <2>3, <2>6 DEF Silent
  <2>8. \A m \in given_up' : m <= req
    BY <2>1, <2>2 DEF CleanInv
  <2> QED
    BY <2>1, <2>2, <2>3, <2>5, <2>7, <2>8 DEF CleanInv
<1>7. CASE ResetResponse
  <2>1. /\ UNCHANGED <<req, given_up, acked, rpc, msg>> /\ spc = "reset" /\ spc' = "idle"
        /\ last_response' = None /\ ~SendList
    BY <1>7 DEF ResetResponse, SendList
  <2>2. /\ Clean' = Clean /\ Stored' = {} /\ Inflight' \subseteq Inflight
        /\ AckRightUntilGivenUp' = AckRightUntilGivenUp
    BY <1>0, <2>1 DEF Clean, Stored, AckRightUntilGivenUp
  <2>3. Silent => Silent'
    BY <2>1, <2>2 DEF Silent
  <2> QED
    BY <2>1, <2>2, <2>3 DEF CleanInv
<1> QED
  BY <1>1, <1>2, <1>3, <1>4, <1>5, <1>6, <1>7 DEF Sender

LEMMA ReceiverClean ==
  ASSUME TypeInv, TypeInv', WireInv, CleanInv, Receiver
  PROVE  CleanInv'
<1> USE DEF clientVars, gateVars, historyVars
<1>0. /\ Inflight' \subseteq Inflight /\ buffer \in Seq(Item) /\ from_gate \in Seq(Item)
      /\ Pipe \in Seq(Item)
  BY ReceiverWire, PipeType DEF TypeInv, TypeOK
<1>1. CASE ReceiveData \/ ReceiveClosed \/ ParseNothing \/ ParseJunk \/ ParseVersion
           \/ IgnoreAnswer \/ AnswerUnreadable \/ NotifySender
  <2>1. /\ UNCHANGED <<req, given_up, acked, last_response, spc>> /\ rpc' # "keep"
    BY <1>1 DEF ReceiveData, ReceiveClosed, ParseNothing, ParseJunk, ParseVersion,
                IgnoreAnswer, AnswerUnreadable, NotifySender, ReceiverEnds
  <2> QED
    BY <1>0, <2>1, CleanStays
<1>2. CASE MatchAnswer
  <2> DEFINE a == Head(buffer)
  <2>1. /\ UNCHANGED <<req, given_up, acked, last_response, spc>> /\ rpc' = "keep"
        /\ buffer # <<>> /\ a.kind = "answer" /\ msg'.list = a.list
    BY <1>2 DEF MatchAnswer, NextAnswer
  <2>2. Pipe # <<>> /\ Head(Pipe) = a
    BY <1>0, <2>1, ConcatTail DEF Pipe
  <2>3. a.list \in Inflight
    BY <1>0, <2>1, <2>2, TailWire DEF Inflight
  <2>4. Clean' = Clean /\ Stored' = Stored /\ AckRightUntilGivenUp' = AckRightUntilGivenUp
    BY <2>1 DEF Clean, Stored, AckRightUntilGivenUp
  <2>5. ~Silent
    BY <2>3 DEF Silent
  <2> HIDE DEF a
  <2> QED
    BY <1>0, <2>1, <2>3, <2>4, <2>5 DEF CleanInv
<1>3. CASE KeepResponse
  <2>1. /\ UNCHANGED <<req, given_up, acked, spc, msg>> /\ rpc = "keep" /\ rpc' = "notify"
        /\ last_response' = msg
    BY <1>3 DEF KeepResponse
  <2>2. Clean' = Clean /\ AckRightUntilGivenUp' = AckRightUntilGivenUp
        /\ Stored' \subseteq {msg.list} /\ ~Silent
    BY <2>1 DEF Clean, Stored, AckRightUntilGivenUp, Silent
  <2> QED
    BY <1>0, <2>1, <2>2 DEF CleanInv
<1> QED
  BY <1>1, <1>2, <1>3 DEF Receiver

LEMMA OthersClean ==
  ASSUME TypeInv, TypeInv', WireInv, CleanInv, Reconnector \/ Gate
  PROVE  CleanInv'
<1>1. /\ UNCHANGED <<req, given_up, acked, last_response, spc, msg>>
      /\ rpc' \in {rpc, "recv"}
  BY DEF Reconnector, Gate, ReconnectCheck, Cleanup, ConnectSucceeds, ConnectFails,
         GateAnswers, GateSendsJunk, GateCloses, clientVars, gateVars, historyVars
<1> QED
  BY <1>1, OthersWire, CleanStays

-----------------------------------------------------------------------------
(* Answers to other lists *)

Own(r) == SeqNumber(r.list) = SeqNumber(req)

(* A list that was begun while an answer was handed over, or whose wait a new  *)
(* connection has ended, may be given an answer that is not its own.           *)
Misled == req \in overtaken \cup woken

(* Where the sender, woken, is about to take what is there. *)
Taking == (spc \in {"send", "wait"} /\ response_event) \/ spc \in {"forget", "take"}

MatchInv ==
  /\ pending_seq # None => pending_seq = SeqNumber(req)
  /\ HandingOver => Own(msg) \/ Misled
  /\ Taking => last_response = None \/ Own(last_response) \/ Misled
  /\ AckWrongOnlyInHandover

LEMMA SenderMatch ==
  ASSUME TypeInv, MatchInv, Sender
  PROVE  MatchInv'
<1> USE DEF clientVars, gateVars, historyVars, Idle
<1>1. CASE SendStart
  <2>1. /\ req' = req + 1 /\ pending_seq' = SeqNumber(req + 1) /\ spc' = "clear"
        /\ UNCHANGED <<acked, woken, rpc, msg>>
        /\ overtaken' = IF HandingOver THEN overtaken \cup {req + 1} ELSE overtaken
    BY <1>1 DEF SendStart
  <2>2. HandingOver' = HandingOver /\ ~Taking' /\ overtaken \subseteq overtaken'
    BY <2>1 DEF HandingOver, Taking
  <2>3. HandingOver' => Misled'
    BY <2>1, <2>2 DEF Misled
  <2>4. AckWrongOnlyInHandover'
    BY <2>1, <2>2 DEF MatchInv, AckWrongOnlyInHandover
  <2>5. pending_seq' = SeqNumber(req')
    BY <2>1
  <2> QED
    BY <2>2, <2>3, <2>4, <2>5 DEF MatchInv
<1>2. CASE ClearEvent \/ SendRefused \/ SendList \/ SendFails \/ WaitTimesOut \/ Woken
  <2>1. UNCHANGED <<req, pending_seq, acked, woken, overtaken, rpc, msg, last_response>>
    BY <1>2 DEF ClearEvent, SendRefused, SendList, SendFails, WaitTimesOut, Woken
  <2>2. Taking' => Taking
    BY <1>2 DEF ClearEvent, SendRefused, SendList, SendFails, WaitTimesOut, Woken, Taking
  <2> QED
    BY <2>1, <2>2 DEF MatchInv, HandingOver, Own, Misled, AckWrongOnlyInHandover
<1>3. CASE ForgetNumber
  <2>1. UNCHANGED <<req, acked, woken, overtaken, rpc, msg, last_response>>
        /\ pending_seq' = None /\ Taking
    BY <1>3 DEF ForgetNumber, Taking
  <2> QED
    BY <2>1 DEF MatchInv, HandingOver, Own, Misled, AckWrongOnlyInHandover
<1>4. CASE TakeResponse
  <2>1. UNCHANGED <<req, pending_seq, woken, overtaken, rpc, msg, last_response>>
        /\ ~Taking' /\ Taking
        /\ acked' = IF last_response # None /\ last_response.result = "ok"
                    THEN acked \cup {[list |-> req, answer |-> last_response.list]} ELSE acked
    BY <1>4 DEF TakeResponse, Taking
  <2>2. AckWrongOnlyInHandover'
    BY <2>1 DEF MatchInv, AckWrongOnlyInHandover, Own, Misled
  <2> QED
    BY <2>1, <2>2 DEF MatchInv, HandingOver, Own, Misled
<1>5. CASE ResetResponse
  <2>1. UNCHANGED <<req, pending_seq, acked, woken, overtaken, rpc, msg>> /\ ~Taking'
    BY <1>5 DEF ResetResponse, Taking
  <2> QED
    BY <2>1 DEF MatchInv, HandingOver, Own, Misled, AckWrongOnlyInHandover
<1> QED
  BY <1>1, <1>2, <1>3, <1>4, <1>5 DEF Sender

LEMMA ReceiverMatch ==
  ASSUME TypeInv, WireInv, OnceInv, MatchInv, Receiver
  PROVE  MatchInv'
<1> USE DEF clientVars, gateVars, historyVars
<1>0. /\ buffer \in Seq(Item) /\ from_gate \in Seq(Item) /\ Pipe \in Seq(Item)
  BY PipeType DEF TypeInv, TypeOK
<1>1. CASE ReceiveData \/ ReceiveClosed \/ ParseNothing \/ ParseJunk \/ ParseVersion
           \/ IgnoreAnswer \/ AnswerUnreadable
  <2>1. UNCHANGED <<req, pending_seq, acked, woken, overtaken, last_response, spc,
                    response_event>> /\ rpc' \in {"parse", "dead", "recv"}
    BY <1>1 DEF ReceiveData, ReceiveClosed, ParseNothing, ParseJunk, ParseVersion,
                IgnoreAnswer, AnswerUnreadable, ReceiverEnds
  <2> QED
    BY <2>1 DEF MatchInv, HandingOver, Own, Misled, Taking, AckWrongOnlyInHandover
<1>2. CASE MatchAnswer
  <2> DEFINE a == Head(buffer)
  <2>1. /\ UNCHANGED <<req, pending_seq, acked, woken, overtaken, last_response, spc,
                       response_event>>
        /\ buffer # <<>> /\ a.kind = "answer" /\ msg'.list = a.list /\ a.seq = pending_seq
    BY <1>2 DEF MatchAnswer, NextAnswer, Matches
  <2>2. Pipe # <<>> /\ Head(Pipe) = a
    BY <1>0, <2>1, ConcatTail DEF Pipe
  <2>3. a \in Range(Pipe) /\ a \in Item
    BY <1>0, <2>2, TailWire
  <2>4. a.seq = SeqNumber(a.list)
    BY <2>1, <2>3 DEF WireInv, Honest
  <2>5. pending_seq # None
    BY <2>1, <2>3, NoneAssumption, BoundsAssumption DEF Item, Numbers
  <2> HIDE DEF a
  <2>6. Own(msg)'
    BY <2>1, <2>4, <2>5 DEF MatchInv, Own
  <2> QED
    BY <2>1, <2>6 DEF MatchInv, Own, Misled, Taking, AckWrongOnlyInHandover
<1>3. CASE KeepResponse
  <2>1. UNCHANGED <<req, pending_seq, acked, woken, overtaken, msg, spc, response_event>>
        /\ rpc = "keep" /\ last_response' = msg
    BY <1>3 DEF KeepResponse
  <2> QED
    BY <2>1 DEF MatchInv, HandingOver, Own, Misled, Taking, AckWrongOnlyInHandover
<1>4. CASE NotifySender
  <2>1. UNCHANGED <<req, pending_seq, acked, woken, overtaken, last_response, spc>>
        /\ rpc = "notify" /\ rpc' = "parse"
    BY <1>4 DEF NotifySender
  <2>2. last_response = None \/ Own(last_response) \/ Misled
    BY <2>1 DEF MatchInv, OnceInv, HandingOver
  <2> QED
    BY <2>1, <2>2 DEF MatchInv, HandingOver, Own, Misled, AckWrongOnlyInHandover
<1> QED
  BY <1>1, <1>2, <1>3, <1>4 DEF Receiver

LEMMA OthersMatch ==
  ASSUME MatchInv, Reconnector \/ Gate
  PROVE  MatchInv'
<1> USE DEF clientVars, gateVars, historyVars
<1>1. CASE Cleanup
  <2>1. UNCHANGED <<req, pending_seq, acked, overtaken, last_response, spc, rpc, msg>>
        /\ woken' = IF spc \in {"send", "wait"} THEN woken \cup {req} ELSE woken
    BY <1>1 DEF Cleanup
  <2>2. Taking' => Taking \/ Misled'
    BY <2>1 DEF Taking, Misled
  <2>3. Misled => Misled'
    BY <2>1 DEF Misled
  <2>4. AckWrongOnlyInHandover'
    BY <2>1 DEF MatchInv, AckWrongOnlyInHandover
  <2> QED
    BY <2>1, <2>2, <2>3, <2>4 DEF MatchInv, HandingOver, Own
<1>2. CASE ReconnectCheck \/ ConnectSucceeds \/ ConnectFails \/ Gate
  <2>1. UNCHANGED <<req, pending_seq, acked, overtaken, woken, last_response, spc,
                    response_event, msg>> /\ rpc' \in {rpc, "recv"}
    BY <1>2 DEF Gate, ReconnectCheck, ConnectSucceeds, ConnectFails, GateAnswers,
                GateSendsJunk, GateCloses
  <2> QED
    BY <2>1 DEF MatchInv, HandingOver, Own, Misled, Taking, AckWrongOnlyInHandover
<1> QED
  BY <1>1, <1>2 DEF Reconnector

-----------------------------------------------------------------------------
(* The theorems *)

IInv == TypeInv /\ WireInv /\ OnceInv /\ CleanInv /\ MatchInv

LEMMA InitIInv == Init => IInv
<1> SUFFICES ASSUME Init PROVE IInv
  OBVIOUS
<1>1. TypeInv
  BY InitTypeInv
<1>2. Pipe = <<>> /\ to_gate = <<>> /\ req = 0 /\ spc = "idle" /\ acked = {} /\ given_up = {}
      /\ last_response = None /\ rpc = "dead" /\ pending_seq = None
      /\ overtaken = {} /\ woken = {}
  BY EmptyWire DEF Init, Pipe
<1>3. Gone = {} /\ Inflight = {} /\ Answers(Pipe) = {} /\ Range(to_gate) = {} /\ Range(Pipe) = {}
  BY <1>2, EmptyWire DEF Gone, Spent, Handed, Stored, HandingOver, Inflight
<1>4. WireInv
  BY <1>2, <1>3, EmptyWire DEF WireInv, InOrder
<1>5. OnceInv
  BY <1>2 DEF OnceInv, HandingOver, NoAnswerCountsTwice
<1>6. CleanInv
  BY <1>2, <1>3 DEF CleanInv, AckRightUntilGivenUp, Stored, Silent
<1>7. MatchInv
  BY <1>2 DEF MatchInv, HandingOver, Taking, AckWrongOnlyInHandover
<1> QED
  BY <1>1, <1>4, <1>5, <1>6, <1>7 DEF IInv

LEMMA NextIInv == IInv /\ [Next]_vars => IInv'
<1> SUFFICES ASSUME IInv, [Next]_vars PROVE IInv'
  OBVIOUS
<1> USE DEF IInv
<1>0. TypeInv'
  BY NextTypeInv
<1>1. CASE UNCHANGED vars
  <2>1. UNCHANGED <<connected, pending_seq, last_response, response_event, buffer, spc, req,
                    rpc, msg, to_gate, from_gate, accepted, acked, given_up, overtaken, woken>>
    BY <1>1 DEF vars, clientVars, gateVars, historyVars
  <2>2. Pipe' = Pipe /\ Gone' = Gone /\ Sent' = Sent /\ Spent' = Spent /\ Stored' = Stored
        /\ HandingOver' = HandingOver /\ Answers(Pipe)' = Answers(Pipe)
        /\ Range(to_gate)' = Range(to_gate) /\ Sent <= Sent
    BY <2>1, SentType DEF Pipe, Gone, Spent, Handed, Stored, HandingOver, Sent, Answers, IsAnswer
  <2>3. WireInv' /\ Inflight' = Inflight
    BY <1>0, <2>1, <2>2, WireStays
  <2>4. OnceInv'
    BY <2>1, <2>2 DEF OnceInv, Told, NoAnswerCountsTwice
  <2>5. CleanInv'
    BY <2>1, <2>3, CleanStays
  <2>6. MatchInv'
    BY <2>1, <2>2 DEF MatchInv, Own, Misled, Taking, AckWrongOnlyInHandover
  <2> QED
    BY <1>0, <2>3, <2>4, <2>5, <2>6
<1>2. CASE Sender
  BY <1>0, <1>2, SenderWire, SenderOnce, SenderClean, SenderMatch
<1>3. CASE Receiver
  BY <1>0, <1>3, ReceiverWire, ReceiverOnce, ReceiverClean, ReceiverMatch
<1>4. CASE Reconnector \/ Gate
  BY <1>0, <1>4, OthersWire, OthersOnce, OthersClean, OthersMatch
<1> QED
  BY <1>1, <1>2, <1>3, <1>4 DEF Next

LEMMA IInvHolds == Spec => []IInv
<1> QED
  BY InitIInv, NextIInv, PTL DEF Spec

(* Until a list is given up - its wait has timed out or has ended without an   *)
(* answer - every list is reported as acknowledged on the word of its own      *)
(* answer only: wherever sender, receiver and reconnecting thread are, for any *)
(* number of lists, lost connections and malformed pieces, and however the     *)
(* numbers wrap.                                                               *)
THEOREM AckRightUntilGivenUpHolds == Spec => []AckRightUntilGivenUp
<1>1. IInv => AckRightUntilGivenUp
  BY DEF IInv, CleanInv
<1> QED
  BY <1>1, IInvHolds, PTL

(* No success of the gate acknowledges two lists, and none acknowledges a list *)
(* that was sent before it: neither timeouts, late answers and reconnects nor  *)
(* a receiver overtaken by the sender can bring that about.                    *)
THEOREM NoAnswerCountsTwiceHolds == Spec => []NoAnswerCountsTwice
<1>1. IInv => NoAnswerCountsTwice
  BY DEF IInv, OnceInv
<1> QED
  BY <1>1, IInvHolds, PTL

(* A list is acknowledged by the answer to a list with another number only if  *)
(* it was begun while the receiver was handing over, or a new connection has   *)
(* ended its wait.                                                             *)
THEOREM AckWrongOnlyInHandoverHolds == Spec => []AckWrongOnlyInHandover
<1>1. IInv => AckWrongOnlyInHandover
  BY DEF IInv, MatchInv
<1> QED
  BY <1>1, IInvHolds, PTL
=============================================================================
