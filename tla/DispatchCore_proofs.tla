------------------------ MODULE DispatchCore_proofs ------------------------
(* Proofs of the safety properties of DispatchCore, for every set of tasks,    *)
(* requests, connections and fault sets, and that it implements TaskLifecycle. *)
EXTENDS DispatchCore, SequenceTheorems, TLAPS

-----------------------------------------------------------------------------
(* Operators *)

(* A request moves one or three different stations. *)
LEMMA TargetsFacts ==
  ASSUME NEW r \in Request
  PROVE  /\ Len(Targets(r)) \in 1..3
         /\ DOMAIN Targets(r) = 1..Len(Targets(r))
         /\ \A i \in 1..Len(Targets(r)) : Targets(r)[i] \in Station
         /\ \A i, j \in 1..Len(Targets(r)) : Targets(r)[i] = Targets(r)[j] => i = j
<1>1. r.station \in Station
  BY RequestAssumption
<1>2. CASE r.kind = "putaway"
  <2>1. Targets(r) = <<r.station>>
    BY <1>2 DEF Targets
  <2> QED
    BY <1>1, <2>1
<1>3. CASE r.kind # "putaway"
  <2>1. Targets(r) = <<"A", "B", "C">>
    BY <1>3 DEF Targets, StationSeq
  <2>2. Len(Targets(r)) = 3 /\ DOMAIN Targets(r) = 1..3
    BY <2>1
  <2>3. Targets(r)[1] = "A" /\ Targets(r)[2] = "B" /\ Targets(r)[3] = "C"
    BY <2>1
  <2>4. \A i \in 1..3 : i = 1 \/ i = 2 \/ i = 3
    OBVIOUS
  <2> QED
    BY <2>2, <2>3, <2>4 DEF Station
<1> QED
  BY <1>2, <1>3

(* What the table allows, read by the state that is reached. *)
LEMMA LegalFacts ==
  ASSUME NEW from \in StationState, NEW target \in StationState, Legal(from, target)
  PROVE  /\ target = "READY" => from = "IDLE"
         /\ target \in Running => from = "READY"
         /\ target = "DELIVERED" => from = "WAITING_DELIVERY"
         /\ target = "DONE" => from = "OUTBOUND"
         /\ target = "IDLE" => from \in {"DELIVERED", "DONE", "ERROR"}
         /\ from # target
  BY DEF Legal, TransitionTable, StationState, Running

(* From every state but ERROR a station can be put in ERROR. *)
LEMMA ErrorLegal ==
  ASSUME NEW from \in StationState, from # "ERROR"
  PROVE  Legal(from, "ERROR")
  BY DEF Legal, TransitionTable, StationState

(* `transition` changes the one station, to the target, or nothing. *)
LEMMA MovedFacts ==
  ASSUME NEW states \in [Station -> StationState], NEW s \in Station,
         NEW target \in StationState
  PROVE  /\ Moved(states, s, target) \in [Station -> StationState]
         /\ \A x \in Station : x # s => Moved(states, s, target)[x] = states[x]
         /\ Moved(states, s, target)[s] =
              IF Legal(states[s], target) THEN target ELSE states[s]
  BY DEF Moved

(* Removing the id of the head of the queue removes the head. *)
LEMMA RemoveHead ==
  ASSUME NEW q \in Seq(Request), q # <<>>
  PROVE  RemovePending(q, Head(q).id) = Tail(q)
<1> DEFINE hits == {i \in DOMAIN q : q[i].id = Head(q).id}
           k    == CHOOSE i \in hits : \A j \in hits : i <= j
<1>1. 1 \in hits /\ \A j \in hits : 1 <= j /\ j \in Nat
  OBVIOUS
<1>2. k = 1
  BY <1>1
<1>3. RemovePending(q, Head(q).id) = SubSeq(q, 1, k - 1) \o SubSeq(q, k + 1, Len(q))
  BY <1>1 DEF RemovePending
<1>4. SubSeq(q, 1, 0) = <<>> /\ SubSeq(q, 2, Len(q)) = Tail(q) /\ Tail(q) \in Seq(Request)
  BY SubSeqEmpty, TailIsSubSeq
<1> QED
  BY <1>2, <1>3, <1>4, ConcatEmptySeq

-----------------------------------------------------------------------------
(* Type correctness *)

(* The types, how far each loop over stations may have come, and the head of   *)
(* the queue while the worker relies on it.                                    *)
TypeInv ==
  /\ TypeOK
  /\ (wpc = "check") <=> (job = None)
  /\ wpc # "check" => wi <= Len(Targets(job))
  /\ wpc = "plan" => job.kind = "outbound"
  /\ wpc \in {"plan", "dequeue"} => pending # <<>> /\ Head(pending) = job
  /\ \A c \in Conn : call[c] # None => call[c].next <= Len(Targets(call[c].req)) + 1

LEMMA InitTypeInv == Init => TypeInv
  BY NoneAssumption DEF Init, TypeInv, TypeOK, Station, StationState, Call

LEMMA HandlerTypeInv ==
  ASSUME TypeInv, NEW c \in Conn, Handler(c)
  PROVE  TypeInv'
<1> USE DEF TypeInv, TypeOK, taskVars, workerVars
<1>1. ASSUME NEW r \in Request, DispatchRequest(c, r) PROVE TypeInv'
  BY <1>1, TargetsFacts, RequestAssumption, NoneAssumption DEF DispatchRequest, Call
<1>2. ASSUME MakeStationReady(c) PROVE TypeInv'
  <2> DEFINE r == call[c].req
             n == call[c].next
  <2>1. r \in Request /\ n \in 1..4 /\ call[c] \in [req : Request, next : 1..4]
    BY <1>2 DEF MakeStationReady, Call
  <2>2. Len(Targets(r)) \in 1..3 /\ Targets(r)[n] \in Station
    BY <1>2, <2>1, TargetsFacts DEF MakeStationReady
  <2>3. st' \in [Station -> StationState]
    BY <1>2, <2>2, MovedFacts DEF MakeStationReady, StationState
  <2>4. call' = [call EXCEPT ![c] = [req |-> r, next |-> n + 1]]
    BY <1>2, <2>1 DEF MakeStationReady
  <2>5. call' \in [Conn -> Call] /\
        \A d \in Conn : call'[d] # None => call'[d].next <= Len(Targets(call'[d].req)) + 1
    BY <1>2, <2>1, <2>2, <2>4 DEF MakeStationReady, Call
  <2> QED
    BY <1>2, <2>3, <2>5 DEF MakeStationReady
<1>3. ASSUME Enqueue(c) PROVE TypeInv'
  <2>1. call[c].req \in Request /\ call[c].req.id \in TaskId
    BY <1>3, RequestAssumption DEF Enqueue, Call
  <2>2. /\ known' \subseteq TaskId /\ pending' \in Seq(Request)
        /\ pending # <<>> => pending' # <<>> /\ Head(pending') = Head(pending)
        /\ status' \in [TaskId -> {"unknown", "pending", "executing", "completed", "failed"}]
    <3>1. CASE call[c].req.id \in known
      BY <1>3, <3>1 DEF Enqueue
    <3>2. CASE call[c].req.id \notin known
      <4>1. pending' = Append(pending, call[c].req)
        BY <1>3, <3>2 DEF Enqueue
      <4>2. pending' \in Seq(Request) /\ pending' # <<>>
        BY <2>1, <4>1, AppendProperties
      <4>3. pending # <<>> => Head(pending') = Head(pending)
        BY <2>1, <4>1, AppendProperties
      <4> QED
        BY <1>3, <2>1, <3>2, <4>2, <4>3 DEF Enqueue
    <3> QED
      BY <3>1, <3>2
  <2>3. call' \in [Conn -> Call] /\
        \A d \in Conn : call'[d] # None => call'[d] = call[d]
    BY <1>3, <2>1 DEF Enqueue, Call
  <2> QED
    BY <1>3, <2>2, <2>3 DEF Enqueue
<1>4. ASSUME NEW s \in Station, ClearStationAbnormal(c, s) PROVE TypeInv'
  BY <1>4, MovedFacts DEF ClearStationAbnormal, Disturb, StationState
<1> QED
  BY <1>1, <1>2, <1>3, <1>4 DEF Handler

LEMMA PollingTypeInv ==
  ASSUME TypeInv, PlcPolling
  PROVE  TypeInv'
<1> USE DEF TypeInv, TypeOK, taskVars, workerVars
<1>1. ASSUME NEW e \in BOOLEAN, NEW faulty \in FaultSets, Poll(e, faulty) PROVE TypeInv'
  <2>1. Faulted(faulty) \in Seq(Station) /\ StationSeq \in Seq(Station)
    <3>1. "A" \in Station /\ "B" \in Station /\ "C" \in Station
      BY DEF Station
    <3>2. <<"A">> \in Seq(Station) /\ <<"B">> \in Seq(Station) /\ <<"C">> \in Seq(Station)
          /\ <<>> \in Seq(Station) /\ <<"A", "B", "C">> \in Seq(Station)
      BY <3>1
    <3> DEFINE a == IF "A" \in faulty THEN <<"A">> ELSE <<>>
               b == IF "B" \in faulty THEN <<"B">> ELSE <<>>
               d == IF "C" \in faulty THEN <<"C">> ELSE <<>>
    <3>3. a \in Seq(Station) /\ b \in Seq(Station) /\ d \in Seq(Station)
      BY <3>2
    <3> HIDE DEF a, b, d
    <3>4. a \o b \in Seq(Station)
      BY <3>3, ConcatProperties
    <3>5. (a \o b) \o d \in Seq(Station)
      BY <3>3, <3>4, ConcatProperties
    <3>6. Faulted(faulty) = (a \o b) \o d
      BY DEF Faulted, a, b, d
    <3> QED
      BY <3>2, <3>5, <3>6 DEF StationSeq
  <2>2. alarms' \in Seq(Station)
    BY <1>1, <2>1, ConcatProperties, EmptySeq DEF Poll
  <2> QED
    BY <1>1, <2>2 DEF Poll
<1>2. ASSUME RaiseFault PROVE TypeInv'
  <2>1. Head(alarms) \in Station /\ Tail(alarms) \in Seq(Station)
    BY <1>2, HeadTailProperties DEF RaiseFault
  <2> QED
    BY <1>2, <2>1, MovedFacts DEF RaiseFault, Disturb, StationState
<1> QED
  BY <1>1, <1>2 DEF PlcPolling

(* While the worker holds a task, the station its loop is at is a station. *)
LEMMA WorkerStationFacts ==
  ASSUME TypeInv, wpc # "check"
  PROVE  /\ job \in Request
         /\ wi \in 1..Len(Targets(job))
         /\ Len(Targets(job)) \in 1..3
         /\ WorkerStation \in Station
<1>1. job \in Request
  BY DEF TypeInv, TypeOK
<1> QED
  BY <1>1, TargetsFacts DEF TypeInv, TypeOK, WorkerStation

(* What a turn of a loop does to the worker. *)
LEMMA NextStationFacts ==
  ASSUME TypeInv, wpc # "check", NEW after, NextStation(after)
  PROVE  /\ job' = job
         /\ \/ wi < Len(Targets(job)) /\ wi' = wi + 1 /\ wpc' = wpc
            \/ wi = Len(Targets(job)) /\ wi' = 1 /\ wpc' = after
         /\ wi' \in 1..3 /\ wi' <= Len(Targets(job))
<1> DEFINE n == Len(Targets(job))
<1>1. wi \in 1..n /\ n \in 1..3
  BY WorkerStationFacts
<1>2. IF wi < n THEN wi' = wi + 1 /\ wpc' = wpc /\ job' = job
                ELSE wi' = 1 /\ wpc' = after /\ job' = job
  BY DEF NextStation, Goto
<1> HIDE DEF n
<1>3. /\ job' = job
      /\ \/ wi < n /\ wi' = wi + 1 /\ wpc' = wpc
         \/ wi = n /\ wi' = 1 /\ wpc' = after
      /\ wi' \in 1..3 /\ wi' <= n
  BY <1>1, <1>2
<1> QED
  BY <1>3 DEF n

LEMMA WorkerTypeInv ==
  ASSUME TypeInv, Worker
  PROVE  TypeInv'
<1> USE DEF TypeInv, TypeOK, taskVars
<1>1. CASE TakeHead
  <2>1. Head(pending) \in Request
    BY <1>1, HeadTailProperties DEF TakeHead
  <2> QED
    <3>1. job' \in Request /\ job' # None /\ Len(Targets(job')) \in 1..3
      BY <1>1, <2>1, TargetsFacts, NoneAssumption DEF TakeHead
    <3>2. job'.kind \in {"putaway", "outbound"}
      BY <3>1, RequestAssumption
    <3> QED
      <4> DEFINE n == Len(Targets(job'))
      <4>0. wi' = 1 /\ n \in 1..3
        BY <1>1, <3>1 DEF TakeHead
      <4> HIDE DEF n
      <4>1. wi' \in 1..3 /\ wi' <= n
        BY <4>0
      <4>2. wpc' = IF job'.kind = "outbound" THEN "plan" ELSE "dequeue"
        BY <1>1 DEF TakeHead
      <4> QED
        BY <1>1, <3>1, <3>2, <4>1, <4>2 DEF TakeHead, n
<1>2. CASE PlanReturns
  BY <1>2, WorkerStationFacts DEF PlanReturns, Goto
<1>3. CASE PlanRaises
  <2>1. job \in Request /\ job.id \in TaskId
    BY <1>3, WorkerStationFacts, RequestAssumption DEF PlanRaises
  <2>2. RemovePending(pending, job.id) \in Seq(Request)
    <3>1. pending # <<>> /\ job = Head(pending)
      BY <1>3 DEF PlanRaises
    <3>2. RemovePending(pending, job.id) = Tail(pending) /\ Tail(pending) \in Seq(Request)
      BY <3>1, RemoveHead, HeadTailProperties
    <3> QED
      BY <3>2
  <2> QED
    BY <1>3, <2>1, <2>2 DEF PlanRaises, Return
<1>4. CASE Dequeue
  <2>1. RemovePending(pending, job.id) \in Seq(Request)
    <3>1. pending # <<>> /\ job = Head(pending)
      BY <1>4 DEF Dequeue
    <3>2. RemovePending(pending, job.id) = Tail(pending) /\ Tail(pending) \in Seq(Request)
      BY <3>1, RemoveHead, HeadTailProperties
    <3> QED
      BY <3>2
  <2> QED
    BY <1>4, <2>1, WorkerStationFacts DEF Dequeue, Goto
<1>5. CASE AddToRunning
  BY <1>5, WorkerStationFacts, RequestAssumption DEF AddToRunning, Goto
<1>6. CASE PlacementRaises
  BY <1>6, WorkerStationFacts DEF PlacementRaises, Goto
<1>7. CASE StartStation
  <2>1. RunState(job) \in StationState
    BY DEF RunState, StationState
  <2>2. CASE Legal(st[WorkerStation], RunState(job))
    <3>1. NextStation("execute") /\ st' = Moved(st, WorkerStation, RunState(job))
      BY <1>7, <2>2 DEF StartStation, MoveOrRaise
    <3>2. st' \in [Station -> StationState] /\ wpc # "check"
      BY <1>7, <2>1, <3>1, WorkerStationFacts, MovedFacts DEF StartStation
    <3> QED
      BY <1>7, <3>1, <3>2, WorkerStationFacts, NextStationFacts DEF StartStation
  <2>3. CASE ~Legal(st[WorkerStation], RunState(job))
    BY <1>7, <2>3, WorkerStationFacts DEF StartStation, MoveOrRaise, Goto
  <2> QED
    BY <2>2, <2>3
<1>8. CASE ExecuteReturns
  BY <1>8, WorkerStationFacts DEF ExecuteReturns, Goto
<1>9. CASE ExecuteRaises
  BY <1>9, WorkerStationFacts DEF ExecuteRaises, Goto
<1>10. CASE FinishStation
  <2>1. DoneState(job) \in StationState
    BY DEF DoneState, StationState
  <2>2. CASE Legal(st[WorkerStation], DoneState(job))
    <3>1. NextStation("complete") /\ st' = Moved(st, WorkerStation, DoneState(job))
      BY <1>10, <2>2 DEF FinishStation, MoveOrRaise
    <3>2. st' \in [Station -> StationState] /\ wpc # "check"
      BY <1>10, <2>1, <3>1, WorkerStationFacts, MovedFacts DEF FinishStation
    <3> QED
      BY <1>10, <3>1, <3>2, WorkerStationFacts, NextStationFacts DEF FinishStation
  <2>3. CASE ~Legal(st[WorkerStation], DoneState(job))
    BY <1>10, <2>3, WorkerStationFacts DEF FinishStation, MoveOrRaise, Goto
  <2> QED
    BY <2>2, <2>3
<1>11. CASE CompleteTask
  BY <1>11, WorkerStationFacts, RequestAssumption DEF CompleteTask, Goto
<1>12. CASE ReleaseStation
  <2>1. st' \in [Station -> StationState]
    BY <1>12, WorkerStationFacts, MovedFacts DEF ReleaseStation, StationState
  <2> QED
    <3>1. CASE wi < Len(Targets(job))
      <4>1. wi' = wi + 1 /\ wpc' = wpc /\ job' = job
        BY <1>12, <3>1 DEF ReleaseStation
      <4> DEFINE n == Len(Targets(job))
      <4>2. wi < n /\ wi \in 1..n /\ n \in 1..3
        BY <1>12, <3>1, WorkerStationFacts DEF ReleaseStation
      <4> HIDE DEF n
      <4>3. wi' \in 1..3 /\ wi' <= n
        BY <4>1, <4>2
      <4> QED
        BY <1>12, <2>1, <4>1, <4>3 DEF ReleaseStation, n
    <3>2. CASE ~(wi < Len(Targets(job)))
      BY <1>12, <2>1, <3>2 DEF ReleaseStation, Return
    <3> QED
      BY <3>1, <3>2
<1>13. CASE FailStation
  <2>1. st' \in [Station -> StationState]
    BY <1>13, WorkerStationFacts, MovedFacts DEF FailStation, StationState
  <2> QED
    BY <1>13, <2>1, WorkerStationFacts, NextStationFacts DEF FailStation
<1>14. CASE FailTask
  BY <1>14, WorkerStationFacts, RequestAssumption DEF FailTask, Return
<1> QED
  BY <1>1, <1>2, <1>3, <1>4, <1>5, <1>6, <1>7, <1>8, <1>9, <1>10, <1>11,
     <1>12, <1>13, <1>14 DEF Worker

LEMMA NextTypeInv == TypeInv /\ [Next]_vars => TypeInv'
<1> SUFFICES ASSUME TypeInv, [Next]_vars PROVE TypeInv'
  OBVIOUS
<1>1. CASE UNCHANGED vars
  BY <1>1 DEF vars, taskVars, workerVars, TypeInv, TypeOK
<1> QED
  BY <1>1, HandlerTypeInv, PollingTypeInv, WorkerTypeInv DEF Next

(* Every variable keeps its type: in particular no loop over stations runs     *)
(* past the stations of its task.                                              *)
THEOREM TypeCorrect == Spec => []TypeOK
<1>1. TypeInv => TypeOK
  BY DEF TypeInv
<1> QED
  BY <1>1, InitTypeInv, NextTypeInv, PTL DEF Spec

-----------------------------------------------------------------------------
(* Stations *)

(* Where a run has come to, station by station: which stations of the task may *)
(* be in a running or finished state at each point of the worker's loops, and  *)
(* which of them another thread has disturbed.                                 *)
RunInv ==
  /\ \A s \in Station : st[s] \in Running =>
       /\ wpc \in {"start", "execute", "finish", "fail"}
       /\ \E i \in 1..Len(Targets(job)) :
            /\ Targets(job)[i] = s
            /\ wpc = "start" => i < wi
            /\ wpc \in {"finish", "fail"} => wi <= i
  /\ \A s \in Station : st[s] \in Finished =>
       /\ wpc \in {"finish", "complete", "release", "fail"}
       /\ \E i \in 1..Len(Targets(job)) :
            /\ Targets(job)[i] = s
            /\ wpc = "finish" => i < wi
            /\ wpc \in {"release", "fail"} => wi <= i
  /\ \A s \in disturbed :
       /\ st[s] \notin Running
       /\ wpc = "start" => \E i \in 1..Len(Targets(job)) : Targets(job)[i] = s /\ i < wi
  /\ wpc = "finish" =>
       \A i \in 1..Len(Targets(job)) : i < wi => Targets(job)[i] \notin disturbed
  /\ wpc = "complete" =>
       \A i \in 1..Len(Targets(job)) : Targets(job)[i] \notin disturbed

LEMMA InitRunInv == Init => RunInv
  BY DEF Init, RunInv, Running, Finished

(* A step of another thread: it moves at most one station, never into a busy   *)
(* state, and records it when it was running.                                  *)
LEMMA OtherThreadRunInv ==
  ASSUME TypeInv, RunInv, UNCHANGED workerVars, NEW s \in Station,
         \A x \in Station : st'[x] = st[x] \/ (x = s /\ st'[x] \notin Busy),
         \/ disturbed' = disturbed
         \/ /\ disturbed' = disturbed \cup {s}
            /\ st[s] \in Running /\ st'[s] # st[s]
  PROVE  RunInv'
<1>1. wpc' = wpc /\ job' = job /\ wi' = wi
  BY DEF workerVars
<1>2. \A x \in Station : st'[x] \in Running \cup Finished => st'[x] = st[x]
  BY DEF Busy
<1>3. disturbed \subseteq Station
  BY DEF TypeInv, TypeOK
<1>4. wpc \in {"start", "execute", "finish", "fail"} => job \in Request
  BY WorkerStationFacts
<1>5. \A i, j \in 1..Len(Targets(job)) :
        job \in Request /\ Targets(job)[i] = Targets(job)[j] => i = j
  BY TargetsFacts
<1> DEFINE n == Len(Targets(job))
           T == Targets(job)
<1>6. job \in Request => n \in 1..3
  BY TargetsFacts
<1> USE DEF RunInv
<1>7. /\ \A x \in Station : st[x] \in Running =>
            /\ wpc \in {"start", "execute", "finish", "fail"}
            /\ \E i \in 1..n : /\ T[i] = x
                               /\ wpc = "start" => i < wi
                               /\ wpc \in {"finish", "fail"} => wi <= i
      /\ wpc = "finish" => \A i \in 1..n : i < wi => T[i] \notin disturbed
      /\ wpc = "complete" => \A i \in 1..n : T[i] \notin disturbed
      /\ \A x \in disturbed :
            st[x] \notin Running /\ (wpc = "start" => \E i \in 1..n : T[i] = x /\ i < wi)
  OBVIOUS
<1>8. \A i, j \in 1..n : job \in Request /\ T[i] = T[j] => i = j
  BY <1>5
<1>9. wi \in 1..3
  BY DEF TypeInv, TypeOK
<1> HIDE DEF n, T
<1>10. wpc = "finish" => \A i \in 1..n : i < wi => T[i] \notin disturbed'
  BY <1>4, <1>6, <1>7, <1>8, <1>9
<1>11. wpc = "complete" => \A i \in 1..n : T[i] \notin disturbed'
  BY <1>7
<1>12. \A x \in disturbed' :
         /\ st'[x] \notin Running
         /\ wpc = "start" => \E i \in 1..n : T[i] = x /\ i < wi
  <2> SUFFICES ASSUME NEW x \in disturbed'
               PROVE  /\ st'[x] \notin Running
                      /\ wpc = "start" => \E i \in 1..n : T[i] = x /\ i < wi
    OBVIOUS
  <2>1. CASE x \in disturbed
    BY <1>2, <1>3, <1>7, <2>1
  <2>2. CASE x \notin disturbed
    BY <1>2, <1>7, <2>2
  <2> QED
    BY <2>1, <2>2
<1> QED
  BY <1>1, <1>2, <1>10, <1>11, <1>12 DEF n, T

LEMMA HandlerRunInv ==
  ASSUME TypeInv, RunInv, NEW c \in Conn, Handler(c)
  PROVE  RunInv'
<1>0. st \in [Station -> StationState]
  BY DEF TypeInv, TypeOK
<1>1. ASSUME UNCHANGED <<st, workerVars, disturbed>> PROVE RunInv'
  <2>1. "A" \in Station
    BY DEF Station
  <2> QED
    BY <1>1, <2>1, OtherThreadRunInv
<1>2. ASSUME NEW r \in Request, DispatchRequest(c, r) PROVE RunInv'
  BY <1>1, <1>2 DEF DispatchRequest
<1>3. ASSUME MakeStationReady(c) PROVE RunInv'
  <2> DEFINE s == Targets(call[c].req)[call[c].next]
  <2>1. s \in Station
    <3>1. call[c] \in [req : Request, next : 1..4]
      BY <1>3 DEF MakeStationReady, TypeInv, TypeOK, Call
    <3>2. call[c].req \in Request /\ call[c].next \in 1..Len(Targets(call[c].req))
      BY <1>3, <3>1 DEF MakeStationReady
    <3> QED
      BY <3>2, TargetsFacts
  <2>2. st' = Moved(st, s, "READY") /\ UNCHANGED <<workerVars, disturbed>>
    BY <1>3 DEF MakeStationReady
  <2> HIDE DEF s
  <2>3. \A x \in Station : st'[x] = st[x] \/ (x = s /\ st'[x] \notin Busy)
    BY <1>0, <2>1, <2>2, MovedFacts DEF StationState, Busy, Running, Finished
  <2> QED
    BY <2>1, <2>2, <2>3, OtherThreadRunInv
<1>4. ASSUME Enqueue(c) PROVE RunInv'
  BY <1>1, <1>4 DEF Enqueue
<1>5. ASSUME NEW s \in Station, ClearStationAbnormal(c, s) PROVE RunInv'
  <2>1. st' = Moved(st, s, "IDLE") /\ UNCHANGED workerVars /\ Disturb(s)
    BY <1>5 DEF ClearStationAbnormal
  <2>2. \A x \in Station : st'[x] = st[x] \/ (x = s /\ st'[x] \notin Busy)
    BY <1>0, <2>1, MovedFacts DEF StationState, Busy, Running, Finished
  <2> QED
    BY <2>1, <2>2, OtherThreadRunInv DEF Disturb
<1> QED
  BY <1>2, <1>3, <1>4, <1>5 DEF Handler

LEMMA PollingRunInv ==
  ASSUME TypeInv, RunInv, PlcPolling
  PROVE  RunInv'
<1>0. st \in [Station -> StationState]
  BY DEF TypeInv, TypeOK
<1>1. ASSUME NEW e \in BOOLEAN, NEW faulty \in FaultSets, Poll(e, faulty) PROVE RunInv'
  <2>1. "A" \in Station
    BY DEF Station
  <2> QED
    BY <1>1, <2>1, OtherThreadRunInv DEF Poll
<1>2. ASSUME RaiseFault PROVE RunInv'
  <2> DEFINE s == Head(alarms)
  <2>1. s \in Station
    BY <1>2, HeadTailProperties DEF RaiseFault, TypeInv, TypeOK
  <2>2. st' = Moved(st, s, "ERROR") /\ UNCHANGED workerVars /\ Disturb(s)
    BY <1>2 DEF RaiseFault
  <2> HIDE DEF s
  <2>3. \A x \in Station : st'[x] = st[x] \/ (x = s /\ st'[x] \notin Busy)
    BY <1>0, <2>1, <2>2, MovedFacts DEF StationState, Busy, Running, Finished
  <2> QED
    BY <2>1, <2>2, <2>3, OtherThreadRunInv DEF Disturb
<1> QED
  BY <1>1, <1>2 DEF PlcPolling

(* A step of the worker between its loops over stations. *)
LEMMA WorkerStraightRunInv ==
  ASSUME TypeInv, RunInv, UNCHANGED st, wi' = 1,
         \/ /\ wpc \notin {"start", "execute", "finish", "complete", "release", "fail"}
            /\ wpc' \in {"check", "plan", "dequeue", "run", "start"}
            /\ wpc' = "start" => disturbed' = {}
            /\ wpc' # "start" => disturbed' = disturbed
         \/ /\ disturbed' = disturbed /\ job' = job
            /\ \/ wpc = "execute" /\ wpc' \in {"finish", "fail"}
               \/ wpc \in {"start", "finish"} /\ wpc' = "fail"
               \/ wpc = "complete" /\ wpc' = "release"
  PROVE  RunInv'
<1>1. \A i \in 1..Len(Targets(job)) : 1 <= i /\ ~(i < 1)
  OBVIOUS
<1>2. \A i \in 1..Len(Targets(job')) : ~(i < 1)
  OBVIOUS
<1> QED
  BY <1>1, <1>2 DEF RunInv

(* A turn of one of the worker's loops: the station it is at moves to a state  *)
(* outside those the loop has yet to visit, and the loop goes on or ends.      *)
LEMMA StartTurnRunInv ==
  ASSUME TypeInv, RunInv, wpc = "start", NextStation("execute"), UNCHANGED disturbed,
         st' = Moved(st, WorkerStation, RunState(job))
  PROVE  RunInv'
<1> DEFINE n == Len(Targets(job))
           T == Targets(job)
<1>1. wi \in 1..n /\ n \in 1..3 /\ T[wi] \in Station /\ WorkerStation = T[wi]
  BY WorkerStationFacts DEF WorkerStation
<1>2. \A i, j \in 1..n : T[i] = T[j] => i = j
  BY WorkerStationFacts, TargetsFacts
<1>3. /\ job' = job
      /\ \/ wi < n /\ wi' = wi + 1 /\ wpc' = "start"
         \/ wi = n /\ wi' = 1 /\ wpc' = "execute"
  BY NextStationFacts
<1>4. RunState(job) \in StationState /\ RunState(job) \in Running /\ RunState(job) \notin Finished
  BY DEF RunState, StationState, Running, Finished
<1>5. /\ \A x \in Station : x # T[wi] => st'[x] = st[x]
      /\ \/ st'[T[wi]] = RunState(job)
         \/ st'[T[wi]] = st[T[wi]]
  <2>1. st \in [Station -> StationState] /\ st' = Moved(st, T[wi], RunState(job))
    BY <1>1 DEF TypeInv, TypeOK
  <2>2. /\ \A x \in Station : x # T[wi] => st'[x] = st[x]
        /\ st'[T[wi]] = IF Legal(st[T[wi]], RunState(job)) THEN RunState(job) ELSE st[T[wi]]
    BY <1>1, <1>4, <2>1, MovedFacts
  <2> QED
    BY <2>2
<1>6. disturbed \subseteq Station
  BY DEF TypeInv, TypeOK
<1>7. /\ \A x \in Station : st[x] \in Running => \E i \in 1..n : T[i] = x /\ i < wi
      /\ \A x \in Station : st[x] \notin Finished
      /\ \A x \in disturbed : st[x] \notin Running /\ \E i \in 1..n : T[i] = x /\ i < wi
  BY DEF RunInv
<1> HIDE DEF n, T
<1>8. \A x \in disturbed : x # T[wi]
  BY <1>1, <1>2, <1>7
<1>9. \A x \in Station : st'[x] \in Running => \E i \in 1..n : T[i] = x /\ i < wi + 1
  BY <1>1, <1>5, <1>7
<1>10. \A x \in Station : st'[x] \notin Finished
  BY <1>4, <1>5, <1>7
<1>11. \A x \in disturbed : st'[x] \notin Running /\ \E i \in 1..n : T[i] = x /\ i < wi + 1
  BY <1>1, <1>5, <1>6, <1>7, <1>8
<1> QED
  BY <1>3, <1>9, <1>10, <1>11 DEF RunInv, n, T

LEMMA FinishTurnRunInv ==
  ASSUME TypeInv, RunInv, wpc = "finish", NextStation("complete"), UNCHANGED disturbed,
         Legal(st[WorkerStation], DoneState(job)),
         st' = Moved(st, WorkerStation, DoneState(job))
  PROVE  RunInv'
<1> DEFINE n == Len(Targets(job))
           T == Targets(job)
<1>1. wi \in 1..n /\ n \in 1..3 /\ T[wi] \in Station /\ WorkerStation = T[wi]
  BY WorkerStationFacts DEF WorkerStation
<1>2. \A i, j \in 1..n : T[i] = T[j] => i = j
  BY WorkerStationFacts, TargetsFacts
<1>3. /\ job' = job
      /\ \/ wi < n /\ wi' = wi + 1 /\ wpc' = "finish"
         \/ wi = n /\ wi' = 1 /\ wpc' = "complete"
  BY NextStationFacts
<1>4. DoneState(job) \in StationState /\ DoneState(job) \in Finished /\ DoneState(job) \notin Running
  BY DEF DoneState, StationState, Running, Finished
<1>5. /\ \A x \in Station : x # T[wi] => st'[x] = st[x]
      /\ st'[T[wi]] = DoneState(job)
  BY <1>1, <1>4, MovedFacts DEF TypeInv, TypeOK
<1>6. st[T[wi]] \in Running
  BY <1>1, <1>4, LegalFacts DEF TypeInv, TypeOK, DoneState, Running
<1>7. /\ \A x \in Station : st[x] \in Running => \E i \in 1..n : T[i] = x /\ wi <= i
      /\ \A x \in Station : st[x] \in Finished => \E i \in 1..n : T[i] = x /\ i < wi
      /\ \A x \in disturbed : st[x] \notin Running
      /\ \A i \in 1..n : i < wi => T[i] \notin disturbed
  BY DEF RunInv
<1>8. disturbed \subseteq Station
  BY DEF TypeInv, TypeOK
<1> HIDE DEF n, T
<1>9. \A i \in 1..n : i < wi + 1 => T[i] \notin disturbed
  BY <1>1, <1>6, <1>7
<1>10. \A x \in Station : st'[x] \in Running => \E i \in 1..n : T[i] = x /\ wi + 1 <= i
  BY <1>1, <1>4, <1>5, <1>7
<1>11. \A x \in Station : st'[x] \in Finished => \E i \in 1..n : T[i] = x /\ i < wi + 1
  BY <1>1, <1>5, <1>7
<1>12. \A x \in disturbed : st'[x] \notin Running
  BY <1>4, <1>5, <1>7, <1>8
<1>13. CASE wi < n
  BY <1>3, <1>9, <1>10, <1>11, <1>12, <1>13 DEF RunInv, n, T
<1>14. CASE wi = n
  <2>1. \A x \in Station : st'[x] \notin Running
    BY <1>1, <1>10, <1>14
  <2>2. \A i \in 1..n : T[i] \notin disturbed
    BY <1>1, <1>9, <1>14
  <2> QED
    BY <1>1, <1>3, <1>11, <1>12, <1>14, <2>1, <2>2 DEF RunInv, n, T
<1> QED
  BY <1>3, <1>13, <1>14

(* Giving stations back and failing them leaves none of them busy. *)
LEMMA ClosingTurnRunInv ==
  ASSUME TypeInv, RunInv, UNCHANGED disturbed, wpc \in {"release", "fail"},
         NEW target \in {"IDLE", "ERROR"},
         wpc = "release" <=> target = "IDLE",
         st' = Moved(st, WorkerStation, target),
         \/ wi < Len(Targets(job)) /\ wi' = wi + 1 /\ UNCHANGED <<wpc, job>>
         \/ wi = Len(Targets(job)) /\ wpc' \in {"check", "failtask"}
  PROVE  RunInv'
<1> DEFINE n == Len(Targets(job))
           T == Targets(job)
<1>1. wi \in 1..n /\ n \in 1..3 /\ T[wi] \in Station /\ WorkerStation = T[wi]
  BY WorkerStationFacts DEF WorkerStation
<1>2. target \in StationState /\ target \notin Busy
  BY DEF StationState, Busy, Running, Finished
<1>3. /\ \A x \in Station : x # T[wi] => st'[x] = st[x]
      /\ st'[T[wi]] = IF Legal(st[T[wi]], target) THEN target ELSE st[T[wi]]
  BY <1>1, <1>2, MovedFacts DEF TypeInv, TypeOK
<1>4. st[T[wi]] \in StationState
  BY <1>1 DEF TypeInv, TypeOK
<1>5. wpc = "release" => st[T[wi]] \notin Running
  BY <1>1 DEF RunInv
<1>6. st'[T[wi]] \notin Busy
  <2>1. CASE target = "ERROR"
    BY <1>2, <1>3, <1>4, <2>1, ErrorLegal DEF Busy, Running, Finished
  <2>2. CASE target = "IDLE"
    BY <1>2, <1>3, <1>4, <1>5, <2>2 DEF Busy, Running, Finished, Legal, TransitionTable
  <2> QED
    BY <2>1, <2>2
<1>7. /\ \A x \in Station : st[x] \in Running => wpc = "fail" /\ \E i \in 1..n : T[i] = x /\ wi <= i
      /\ \A x \in Station : st[x] \in Finished => \E i \in 1..n : T[i] = x /\ wi <= i
      /\ \A x \in disturbed : st[x] \notin Running
  BY DEF RunInv
<1>8. disturbed \subseteq Station
  BY DEF TypeInv, TypeOK
<1> HIDE DEF n, T
<1>9. \A x \in Station : st'[x] \in Running =>
        wpc = "fail" /\ \E i \in 1..n : T[i] = x /\ wi + 1 <= i
  BY <1>1, <1>3, <1>6, <1>7 DEF Busy
<1>10. \A x \in Station : st'[x] \in Finished => \E i \in 1..n : T[i] = x /\ wi + 1 <= i
  BY <1>1, <1>3, <1>6, <1>7 DEF Busy
<1>11. \A x \in disturbed : st'[x] \notin Running
  BY <1>3, <1>6, <1>7, <1>8 DEF Busy
<1>12. CASE wi < n
  BY <1>9, <1>10, <1>11, <1>12 DEF RunInv, n, T
<1>13. CASE wi = n
  <2>1. \A x \in Station : st'[x] \notin Running /\ st'[x] \notin Finished
    BY <1>1, <1>9, <1>10, <1>13
  <2>2. wpc' \in {"check", "failtask"}
    BY <1>13 DEF n
  <2> QED
    BY <1>11, <2>1, <2>2 DEF RunInv
<1> QED
  BY <1>12, <1>13 DEF n

LEMMA WorkerRunInv ==
  ASSUME TypeInv, RunInv, Worker
  PROVE  RunInv'
<1>1. CASE TakeHead \/ PlanReturns \/ PlanRaises \/ Dequeue
  <2>1. /\ UNCHANGED st /\ UNCHANGED disturbed /\ wi' = 1
        /\ wpc \in {"check", "plan", "dequeue"}
        /\ wpc' \in {"check", "plan", "dequeue", "run"}
    BY <1>1 DEF TakeHead, PlanReturns, PlanRaises, Dequeue, Goto, Return
  <2> QED
    BY <2>1, WorkerStraightRunInv
<1>2. CASE AddToRunning
  BY <1>2, WorkerStraightRunInv DEF AddToRunning, Goto
<1>3. CASE PlacementRaises
  BY <1>3, WorkerStraightRunInv DEF PlacementRaises, Goto
<1>4. CASE StartStation
  <2>1. CASE Legal(st[WorkerStation], RunState(job))
    BY <1>4, <2>1, StartTurnRunInv DEF StartStation, MoveOrRaise
  <2>2. CASE ~Legal(st[WorkerStation], RunState(job))
    BY <1>4, <2>2, WorkerStraightRunInv DEF StartStation, MoveOrRaise, Goto
  <2> QED
    BY <2>1, <2>2
<1>5. CASE ExecuteReturns \/ ExecuteRaises
  BY <1>5, WorkerStraightRunInv DEF ExecuteReturns, ExecuteRaises, Goto
<1>6. CASE FinishStation
  <2>1. CASE Legal(st[WorkerStation], DoneState(job))
    BY <1>6, <2>1, FinishTurnRunInv DEF FinishStation, MoveOrRaise
  <2>2. CASE ~Legal(st[WorkerStation], DoneState(job))
    BY <1>6, <2>2, WorkerStraightRunInv DEF FinishStation, MoveOrRaise, Goto
  <2> QED
    BY <2>1, <2>2
<1>7. CASE CompleteTask
  BY <1>7, WorkerStraightRunInv DEF CompleteTask, Goto
<1>8. CASE ReleaseStation
  <2> DEFINE n == Len(Targets(job))
  <2>1. wi \in 1..n /\ n \in 1..3
    BY <1>8, WorkerStationFacts DEF ReleaseStation
  <2>2. IF wi < n THEN wi' = wi + 1 /\ UNCHANGED <<wpc, job>> ELSE wpc' = "check"
    BY <1>8 DEF ReleaseStation, Return
  <2> HIDE DEF n
  <2>3. \/ wi < n /\ wi' = wi + 1 /\ UNCHANGED <<wpc, job>>
        \/ wi = n /\ wpc' = "check"
    BY <2>1, <2>2
  <2> QED
    BY <1>8, <2>3, ClosingTurnRunInv DEF ReleaseStation, n
<1>9. CASE FailStation
  <2>1. NextStation("failtask") /\ wpc = "fail"
    BY <1>9 DEF FailStation
  <2>2. \/ wi < Len(Targets(job)) /\ wi' = wi + 1 /\ UNCHANGED <<wpc, job>>
        \/ wi = Len(Targets(job)) /\ wpc' = "failtask"
    BY <2>1, NextStationFacts
  <2> QED
    BY <1>9, <2>1, <2>2, ClosingTurnRunInv DEF FailStation
<1>10. CASE FailTask
  BY <1>10, WorkerStraightRunInv DEF FailTask, Return
<1> QED
  BY <1>1, <1>2, <1>3, <1>4, <1>5, <1>6, <1>7, <1>8, <1>9, <1>10 DEF Worker

LEMMA NextRunInv == TypeInv /\ RunInv /\ [Next]_vars => RunInv'
<1> SUFFICES ASSUME TypeInv, RunInv, [Next]_vars PROVE RunInv'
  OBVIOUS
<1>1. CASE UNCHANGED vars
  BY <1>1 DEF vars, workerVars, RunInv
<1> QED
  BY <1>1, HandlerRunInv, PollingRunInv, WorkerRunInv DEF Next

LEMMA RunInvHolds == Spec => [](TypeInv /\ RunInv)
  BY InitTypeInv, InitRunInv, NextTypeInv, NextRunInv, PTL DEF Spec

(* A station is busy only in the run of a task that owns it: whatever faults,  *)
(* clear requests and dispatches come in between, a run gives every station    *)
(* back before the worker turns to the next task.                              *)
THEOREM BusyOnlyInRunHolds == Spec => []BusyOnlyInRun
<1>1. TypeInv /\ RunInv => BusyOnlyInRun
  <2> SUFFICES ASSUME TypeInv, RunInv, NEW s \in Station, st[s] \in Busy
               PROVE  /\ wpc \in {"start", "execute", "finish", "complete", "release", "fail"}
                      /\ \E i \in DOMAIN Targets(job) : Targets(job)[i] = s
    BY DEF BusyOnlyInRun
  <2>1. /\ wpc \in {"start", "execute", "finish", "complete", "release", "fail"}
        /\ \E i \in 1..Len(Targets(job)) : Targets(job)[i] = s
    BY DEF RunInv, Busy
  <2>2. DOMAIN Targets(job) = 1..Len(Targets(job))
    BY <2>1, WorkerStationFacts, TargetsFacts
  <2> QED
    BY <2>1, <2>2
<1> QED
  BY <1>1, RunInvHolds, PTL

(* A task whose station another thread took out of its running state - a fault *)
(* put it in ERROR, RCS perhaps cleared it - is never reported as completed.   *)
THEOREM CompletedUndisturbedHolds == Spec => []CompletedUndisturbed
<1>1. TypeInv /\ RunInv => CompletedUndisturbed
  BY WorkerStationFacts, TargetsFacts DEF RunInv, CompletedUndisturbed
<1> QED
  BY <1>1, RunInvHolds, PTL

-----------------------------------------------------------------------------
(* Tasks *)

(* What the tables know about each id: a queued task is pending, exactly the   *)
(* worker's task is executing, and no task is in two places.                   *)
TaskInv ==
  /\ \A i, j \in 1..Len(pending) : pending[i].id = pending[j].id => i = j
  /\ \A i \in 1..Len(pending) :
       pending[i].id \in known /\ status[pending[i].id] = "pending"
  /\ \A t \in TaskId : t \notin known => status[t] = "unknown"
  /\ wpc = "run" =>
       /\ job.id \in known /\ status[job.id] = "pending"
       /\ \A i \in 1..Len(pending) : pending[i].id # job.id
  /\ running = IF InRun THEN {job.id} ELSE {}
  /\ InRun => job.id \in known /\ status[job.id] = "executing"
  /\ last_completed # None => status[last_completed] \in {"completed", "failed"}
  /\ InRun => last_completed = None

LEMMA InitTaskInv == Init => TaskInv
  BY DEF Init, TaskInv, InRun

(* No step of a handler or of the polling but `add_to_pending` changes what    *)
(* TaskInv speaks of.                                                          *)
LEMMA EnqueueTaskInv ==
  ASSUME TypeInv, TaskInv, NEW c \in Conn, Enqueue(c), call[c].req.id \notin known
  PROVE  TaskInv'
<1> DEFINE r == call[c].req
<1>1. r \in Request /\ r.id \in TaskId
  BY RequestAssumption DEF Enqueue, TypeInv, TypeOK, Call
<1>2. /\ known' = known \cup {r.id}
      /\ pending' = Append(pending, r)
      /\ status' = [status EXCEPT ![r.id] = "pending"]
      /\ UNCHANGED <<wpc, job, running, last_completed>>
  BY DEF Enqueue, workerVars
<1>3. /\ pending \in Seq(Request) /\ known \subseteq TaskId
      /\ status \in [TaskId -> {"unknown", "pending", "executing", "completed", "failed"}]
  BY DEF TypeInv, TypeOK
<1>4. r.id \notin known /\ status[r.id] = "unknown"
  BY <1>1 DEF TaskInv
<1> HIDE DEF r
<1>5. /\ \A i \in 1..Len(pending') :
            IF i = Len(pending) + 1 THEN pending'[i] = r
            ELSE i \in 1..Len(pending) /\ pending'[i] = pending[i]
      /\ Len(pending') = Len(pending) + 1
  BY <1>1, <1>2, <1>3, AppendProperties
<1>6. \A t \in TaskId : status'[t] = IF t = r.id THEN "pending" ELSE status[t]
  BY <1>1, <1>2, <1>3
<1>7. \A i \in 1..Len(pending) :
        pending[i].id \in known /\ status[pending[i].id] = "pending"
        /\ pending[i].id # r.id /\ pending[i].id \in TaskId
  BY <1>3, <1>4 DEF TaskInv
<1>8. \A i, j \in 1..Len(pending') : pending'[i].id = pending'[j].id => i = j
  <2> SUFFICES ASSUME NEW i \in 1..Len(pending'), NEW j \in 1..Len(pending'),
                      pending'[i].id = pending'[j].id
               PROVE  i = j
    OBVIOUS
  <2>1. CASE i = Len(pending) + 1 /\ j # Len(pending) + 1
    BY <1>5, <1>7, <2>1
  <2>2. CASE i # Len(pending) + 1 /\ j = Len(pending) + 1
    BY <1>5, <1>7, <2>2
  <2>3. CASE i # Len(pending) + 1 /\ j # Len(pending) + 1
    BY <1>5, <2>3 DEF TaskInv
  <2> QED
    BY <2>1, <2>2, <2>3
<1>9. \A i \in 1..Len(pending') :
        pending'[i].id \in known' /\ status'[pending'[i].id] = "pending"
  BY <1>1, <1>2, <1>5, <1>6, <1>7
<1>10. \A t \in TaskId : t \notin known' => status'[t] = "unknown"
  BY <1>2, <1>6 DEF TaskInv
<1>11. wpc = "run" => /\ job.id \in known' /\ status'[job.id] = "pending"
                      /\ \A i \in 1..Len(pending') : pending'[i].id # job.id
  BY <1>2, <1>3, <1>4, <1>5, <1>6 DEF TaskInv
<1>12. InRun => job.id \in known' /\ status'[job.id] = "executing"
  BY <1>2, <1>3, <1>4, <1>6 DEF TaskInv
<1>13. last_completed # None => status'[last_completed] \in {"completed", "failed"}
  <2>1. last_completed # None => last_completed \in TaskId
    BY DEF TypeInv, TypeOK
  <2> QED
    BY <1>4, <1>6, <2>1 DEF TaskInv
<1> QED
  BY <1>2, <1>8, <1>9, <1>10, <1>11, <1>12, <1>13 DEF TaskInv, InRun

(* Taking the head off the queue leaves no other entry with its id. *)
LEMMA DequeuedGone ==
  ASSUME TypeInv, TaskInv, wpc \in {"plan", "dequeue"}
  PROVE  /\ RemovePending(pending, job.id) = Tail(pending)
         /\ Len(Tail(pending)) = Len(pending) - 1
         /\ \A i \in 1..Len(Tail(pending)) :
              /\ i + 1 \in 1..Len(pending)
              /\ Tail(pending)[i] = pending[i + 1]
              /\ Tail(pending)[i].id # job.id
         /\ 1 \in 1..Len(pending) /\ pending[1] = job
         /\ job.id \in known /\ status[job.id] = "pending"
<1>1. pending \in Seq(Request) /\ pending # <<>> /\ job = Head(pending)
  BY DEF TypeInv, TypeOK
<1>2. RemovePending(pending, job.id) = Tail(pending)
  BY <1>1, RemoveHead
<1>3. /\ Len(Tail(pending)) = Len(pending) - 1
      /\ \A i \in 1..Len(Tail(pending)) : Tail(pending)[i] = pending[i + 1]
  BY <1>1, HeadTailProperties
<1>4. Len(pending) \in Nat \ {0} /\ pending[1] = job
  BY <1>1
<1>5. \A i \in 1..Len(Tail(pending)) : i + 1 \in 1..Len(pending) /\ i + 1 # 1
  BY <1>3, <1>4
<1>6. \A i \in 1..Len(pending) : pending[i].id = job.id => i = 1
  BY <1>4 DEF TaskInv
<1>7. 1 \in 1..Len(pending)
  BY <1>4
<1> QED
  BY <1>2, <1>3, <1>4, <1>5, <1>6, <1>7 DEF TaskInv

LEMMA WorkerTaskInv ==
  ASSUME TypeInv, TaskInv, Worker
  PROVE  TaskInv'
<1>0. /\ pending \in Seq(Request)
      /\ status \in [TaskId -> {"unknown", "pending", "executing", "completed", "failed"}]
      /\ known \subseteq TaskId
      /\ last_completed \in TaskId \cup {None}
  BY DEF TypeInv, TypeOK
<1>1. wpc # "check" => job \in Request /\ job.id \in TaskId /\ job.id # None
  BY WorkerStationFacts, RequestAssumption, NoneAssumption
<1>2. ASSUME UNCHANGED taskVars, wpc' # "run", InRun' <=> InRun,
             InRun => job' = job
      PROVE  TaskInv'
  BY <1>2 DEF TaskInv, taskVars, InRun
<1>3. CASE TakeHead \/ PlanReturns
  <2>1. UNCHANGED taskVars /\ wpc' \in {"plan", "dequeue"} /\ ~InRun /\ ~InRun'
    BY <1>3 DEF TakeHead, PlanReturns, Goto, InRun
  <2> QED
    BY <1>2, <2>1
<1>4. CASE PlanRaises
  <2>1. \/ pending' = pending
        \/ pending' = Tail(pending)
    BY <1>4, DequeuedGone DEF PlanRaises
  <2>2. /\ UNCHANGED <<known, running, last_completed, status>>
        /\ wpc' = "check" /\ wpc = "plan" /\ ~InRun /\ ~InRun'
    BY <1>4 DEF PlanRaises, Return, InRun
  <2>3. /\ \A i, j \in 1..Len(pending') : pending'[i].id = pending'[j].id => i = j
        /\ \A i \in 1..Len(pending') :
             pending'[i].id \in known /\ status[pending'[i].id] = "pending"
    <3>1. CASE pending' = pending
      BY <3>1 DEF TaskInv
    <3>2. CASE pending' = Tail(pending)
      <4>1. Len(pending) \in Nat
        BY <1>0
      <4> QED
        BY <2>2, <3>2, <4>1, DequeuedGone DEF TaskInv
    <3> QED
      BY <2>1, <3>1, <3>2
  <2> QED
    BY <2>2, <2>3 DEF TaskInv
<1>5. CASE Dequeue
  <2>1. /\ pending' = Tail(pending)
        /\ UNCHANGED <<known, running, last_completed, status, job>>
        /\ wpc' = "run" /\ wpc = "dequeue" /\ ~InRun /\ ~InRun'
    BY <1>5, DequeuedGone DEF Dequeue, Goto, InRun
  <2>2. Len(pending) \in Nat
    BY <1>0
  <2>3. /\ \A i, j \in 1..Len(pending') : pending'[i].id = pending'[j].id => i = j
        /\ \A i \in 1..Len(pending') :
             /\ pending'[i].id \in known /\ status[pending'[i].id] = "pending"
             /\ pending'[i].id # job.id
    BY <2>1, <2>2, DequeuedGone DEF TaskInv
  <2>4. job.id \in known /\ status[job.id] = "pending"
    BY <2>1, DequeuedGone
  <2> QED
    BY <2>1, <2>3, <2>4 DEF TaskInv
<1>6. CASE AddToRunning
  <2>1. /\ status' = [status EXCEPT ![job.id] = "executing"]
        /\ running' = running \cup {job.id} /\ last_completed' = None
        /\ UNCHANGED <<pending, known, job>>
        /\ wpc' = "start" /\ wpc = "run" /\ ~InRun /\ InRun'
    BY <1>6 DEF AddToRunning, Goto, InRun
  <2>2. \A t \in TaskId : status'[t] = IF t = job.id THEN "executing" ELSE status[t]
    BY <1>0, <1>1, <2>1
  <2>3. \A i \in 1..Len(pending) : pending[i].id \in TaskId /\ pending[i].id # job.id
    BY <1>0, <2>1 DEF TaskInv
  <2>4. job.id \in TaskId /\ job.id \in known
    BY <1>1, <2>1 DEF TaskInv
  <2> QED
    BY <2>1, <2>2, <2>3, <2>4 DEF TaskInv
<1>7. CASE PlacementRaises \/ StartStation \/ ExecuteReturns \/ ExecuteRaises
           \/ FinishStation \/ FailStation
  <2>1. UNCHANGED taskVars /\ InRun /\ wpc # "check"
    BY <1>7 DEF PlacementRaises, StartStation, ExecuteReturns, ExecuteRaises,
                FinishStation, FailStation, InRun
  <2>2. /\ job' = job
        /\ wpc' \in {wpc, "fail", "execute", "finish", "complete", "failtask"}
    BY <1>7 DEF PlacementRaises, StartStation, ExecuteReturns, ExecuteRaises,
                FinishStation, FailStation, MoveOrRaise, NextStation, Goto
  <2>3. InRun' /\ wpc' # "run"
    BY <2>1, <2>2 DEF InRun
  <2> QED
    BY <1>2, <2>1, <2>2, <2>3
<1>8. ASSUME wpc \in {"complete", "failtask"}, wpc' \in {"release", "check"},
             NEW how \in {"completed", "failed"},
             status' = [status EXCEPT ![job.id] = how],
             last_completed' = job.id, running' = running \ {job.id},
             UNCHANGED <<pending, known>>
      PROVE  TaskInv'
  <2>1. InRun /\ ~InRun' /\ running = {job.id} /\ wpc' # "run"
    BY <1>8 DEF InRun, TaskInv
  <2>2. job.id \in TaskId /\ job.id \in known /\ status[job.id] = "executing"
    BY <1>1, <1>8, <2>1 DEF TaskInv
  <2>3. \A t \in TaskId : status'[t] = IF t = job.id THEN how ELSE status[t]
    BY <1>0, <1>8, <2>2
  <2>4. \A i \in 1..Len(pending) : pending[i].id \in TaskId /\ pending[i].id # job.id
    BY <1>0, <2>2 DEF TaskInv
  <2> QED
    BY <1>8, <2>1, <2>2, <2>3, <2>4 DEF TaskInv
<1>9. CASE CompleteTask
  BY <1>8, <1>9 DEF CompleteTask, Goto
<1>10. CASE FailTask
  BY <1>8, <1>10 DEF FailTask, Return
<1>11. CASE ReleaseStation
  <2>1. UNCHANGED taskVars /\ wpc = "release" /\ wpc' \in {"release", "check"}
    BY <1>11 DEF ReleaseStation, Return
  <2> QED
    BY <1>2, <2>1 DEF InRun
<1> QED
  BY <1>3, <1>4, <1>5, <1>6, <1>7, <1>9, <1>10, <1>11 DEF Worker

LEMMA NextTaskInv == TypeInv /\ TaskInv /\ [Next]_vars => TaskInv'
<1> SUFFICES ASSUME TypeInv, TaskInv, [Next]_vars PROVE TaskInv'
  OBVIOUS
<1>1. ASSUME UNCHANGED <<taskVars, workerVars>> PROVE TaskInv'
  BY <1>1 DEF taskVars, workerVars, TaskInv, InRun
<1>2. CASE UNCHANGED vars
  BY <1>1, <1>2 DEF vars
<1>3. ASSUME NEW c \in Conn, Handler(c) PROVE TaskInv'
  <2>1. CASE Enqueue(c)
    <3>1. CASE call[c].req.id \in known
      BY <1>1, <2>1, <3>1 DEF Enqueue, taskVars
    <3>2. CASE call[c].req.id \notin known
      BY <2>1, <3>2, EnqueueTaskInv
    <3> QED
      BY <3>1, <3>2
  <2>2. CASE ~Enqueue(c)
    BY <1>1, <1>3, <2>2 DEF Handler, DispatchRequest, MakeStationReady, ClearStationAbnormal
  <2> QED
    BY <2>1, <2>2
<1>4. CASE PlcPolling
  BY <1>1, <1>4 DEF PlcPolling, Poll, RaiseFault
<1> QED
  BY <1>2, <1>3, <1>4, WorkerTaskInv DEF Next

LEMMA TaskInvHolds == Spec => [](TypeInv /\ TaskInv)
  BY InitTypeInv, InitTaskInv, NextTypeInv, NextTaskInv, PTL DEF Spec

(* The queue holds each accepted task once and unstarted, and a removal by id  *)
(* takes the very task the worker looked at.                                   *)
THEOREM QueueConsistentHolds == Spec => []QueueConsistent
<1>1. TypeInv /\ TaskInv => QueueConsistent
  <2> SUFFICES ASSUME TypeInv, TaskInv PROVE QueueConsistent
    OBVIOUS
  <2>1. DOMAIN pending = 1..Len(pending)
    BY DEF TypeInv, TypeOK
  <2>2. wpc \in {"plan", "dequeue"} => pending # <<>> /\ Head(pending) = job
    BY DEF TypeInv
  <2> QED
    BY <2>1, <2>2 DEF TaskInv, QueueConsistent
<1> QED
  BY <1>1, TaskInvHolds, PTL

(* RCS is shown the task that is running while it runs, and never a task as    *)
(* executing when none is.                                                     *)
THEOREM ReportFollowsWorkerHolds == Spec => []ReportFollowsWorker
<1>1. TypeInv /\ TaskInv => ReportFollowsWorker
  <2> SUFFICES ASSUME TypeInv, TaskInv PROVE ReportFollowsWorker
    OBVIOUS
  <2>1. CASE InRun
    <3>1. running = {job.id} /\ status[job.id] = "executing"
      BY <2>1 DEF TaskInv
    <3>2. {t \in running : status[t] = "executing"} = {job.id}
      BY <3>1
    <3>3. CurrentTaskDetail = [id |-> job.id, status |-> "executing"]
      BY <3>2 DEF CurrentTaskDetail
    <3> QED
      BY <2>1, <3>1, <3>3 DEF ReportFollowsWorker
  <2>2. CASE ~InRun
    BY <2>2 DEF TaskInv, ReportFollowsWorker, CurrentTaskDetail
  <2> QED
    BY <2>1, <2>2
<1> QED
  BY <1>1, TaskInvHolds, PTL

-----------------------------------------------------------------------------
(* The refinement: what the threads do to the tables is, seen from RCS, one    *)
(* task accepted, started, dropped or ended at a time.  The worker's task      *)
(* counts as waiting until `add_to_running`, although it has left the queue    *)
(* before.                                                                     *)

(* The ids of a sequence of requests. *)
LEMMA IdsFacts ==
  ASSUME NEW q \in Seq(Request), NEW ids, ids = [i \in DOMAIN q |-> q[i].id]
  PROVE  /\ ids \in Seq(TaskId) /\ Len(ids) = Len(q)
         /\ \A i \in 1..Len(q) : ids[i] = q[i].id
<1>1. \A i \in 1..Len(q) : q[i].id \in TaskId
  BY RequestAssumption
<1>2. ids \in Seq(TaskId) /\ Len(ids) = Len(q)
  BY <1>1
<1> QED
  BY <1>2

(* The ids in the queue, one by one. *)
LEMMA WaitingFacts ==
  ASSUME TypeInv
  PROVE  /\ PendingIds \in Seq(TaskId)
         /\ Len(PendingIds) = Len(pending) /\ Len(pending) \in Nat
         /\ \A i \in 1..Len(pending) : PendingIds[i] = pending[i].id
         /\ pending = <<>> <=> PendingIds = <<>>
         /\ wpc = "run" => job.id \in TaskId /\ <<job.id>> \in Seq(TaskId)
<1>1. pending \in Seq(Request)
  BY DEF TypeInv, TypeOK
<1>2. Len(pending) \in Nat /\ DOMAIN pending = 1..Len(pending)
  BY <1>1
<1>3. /\ PendingIds \in Seq(TaskId) /\ Len(PendingIds) = Len(pending)
      /\ \A i \in 1..Len(pending) : PendingIds[i] = pending[i].id
  BY <1>1, IdsFacts DEF PendingIds
<1>4. wpc = "run" => job \in Request /\ job.id \in TaskId
  BY WorkerStationFacts, RequestAssumption
<1> QED
  BY <1>1, <1>2, <1>3, <1>4

(* Which tasks are waiting, by the tables. *)
LEMMA WaitingMembers ==
  ASSUME TypeInv, TaskInv, NEW t \in TaskId, \E i \in DOMAIN Waiting : Waiting[i] = t
  PROVE  t \in known /\ status[t] = "pending"
<1>1. CASE wpc = "run"
  <2>1. /\ Waiting = <<job.id>> \o PendingIds
        /\ <<job.id>> \in Seq(TaskId) /\ Len(<<job.id>>) = 1 /\ <<job.id>>[1] = job.id
    BY <1>1, WaitingFacts DEF Waiting
  <2>2. /\ DOMAIN Waiting = 1..(1 + Len(pending))
        /\ \A i \in 1..(1 + Len(pending)) :
             Waiting[i] = IF i <= 1 THEN <<job.id>>[i] ELSE PendingIds[i - 1]
    BY <2>1, WaitingFacts, ConcatProperties, LenProperties
  <2>3. PICK i \in 1..(1 + Len(pending)) : Waiting[i] = t
    BY <2>2
  <2>4. CASE i = 1
    BY <1>1, <2>1, <2>2, <2>3, <2>4 DEF TaskInv
  <2>5. CASE i # 1
    <3>1. i - 1 \in 1..Len(pending) /\ ~(i <= 1)
      BY <2>3, <2>5, WaitingFacts
    <3>2. pending[i - 1].id = t
      BY <2>2, <2>3, <3>1, WaitingFacts
    <3> QED
      BY <3>1, <3>2 DEF TaskInv
  <2> QED
    BY <2>4, <2>5
<1>2. CASE wpc # "run"
  <2>1. PICK i \in DOMAIN PendingIds : PendingIds[i] = t
    BY <1>2 DEF Waiting
  <2>2. i \in 1..Len(pending) /\ pending[i].id = t
    BY <2>1, WaitingFacts, LenProperties
  <2> QED
    BY <2>2 DEF TaskInv
<1> QED
  BY <1>1, <1>2

-----------------------------------------------------------------------------
(* Steps that RCS does not see *)

(* The abstract variables follow from the queue, the known ids, the status and *)
(* where the worker is with which task.                                        *)
LEMMA UnseenStep ==
  ASSUME UNCHANGED <<pending, known, status>>, wpc # "run", wpc' # "run",
         InRun' <=> InRun, InRun => job' = job
  PROVE  UNCHANGED <<Waiting, Executing, Outcome>>
<1>1. PendingIds' = PendingIds
  BY DEF PendingIds
<1>2. \A t \in TaskId : Dropped(t)' <=> Dropped(t)
  BY DEF Dropped
<1>3. UNCHANGED Waiting /\ UNCHANGED Executing
  BY <1>1 DEF Waiting, Executing
<1>4. UNCHANGED Outcome
  BY <1>2 DEF Outcome
<1> QED
  BY <1>3, <1>4

LEMMA OtherThreadUnseen ==
  ASSUME UNCHANGED <<pending, known, status, workerVars>>
  PROVE  UNCHANGED <<Waiting, Executing, Outcome>>
<1>1. PendingIds' = PendingIds /\ wpc' = wpc /\ job' = job /\ (InRun' <=> InRun)
  BY DEF PendingIds, workerVars, InRun
<1>2. \A t \in TaskId : Dropped(t)' <=> Dropped(t)
  BY <1>1 DEF Dropped, workerVars
<1>3. UNCHANGED Waiting /\ UNCHANGED Executing
  BY <1>1 DEF Waiting, Executing
<1>4. UNCHANGED Outcome
  BY <1>2 DEF Outcome
<1> QED
  BY <1>3, <1>4

(* A task that is in the queue has no outcome, and neither has the one the     *)
(* worker has taken off it.                                                    *)
LEMMA PendingNotDropped ==
  ASSUME TypeInv, NEW i \in 1..Len(pending)
  PROVE  ~Dropped(pending[i].id)
<1>1. DOMAIN pending = 1..Len(pending)
  BY DEF TypeInv, TypeOK
<1> QED
  BY <1>1 DEF Dropped
-----------------------------------------------------------------------------
(* Steps that RCS sees *)

(* `add_to_pending` accepts a task that is nowhere yet. *)
LEMMA EnqueueAccepts ==
  ASSUME TypeInv, TaskInv, NEW c \in Conn, Enqueue(c), call[c].req.id \notin known
  PROVE  Tasks!Accept(call[c].req.id)
<1>0. PICK r \in Request : r = call[c].req
  BY DEF Enqueue, TypeInv, TypeOK, Call
<1> DEFINE t == r.id
<1>1. r \in Request /\ t \in TaskId
  BY RequestAssumption
<1>2. /\ known' = known \cup {t}
      /\ pending' = Append(pending, r)
      /\ status' = [status EXCEPT ![t] = "pending"]
      /\ UNCHANGED <<wpc, job>>
  BY <1>0 DEF Enqueue, workerVars
<1>3. /\ pending \in Seq(Request)
      /\ status \in [TaskId -> {"unknown", "pending", "executing", "completed", "failed"}]
  BY DEF TypeInv, TypeOK
<1>4. t \notin known /\ status[t] = "unknown"
  BY <1>0, <1>1 DEF TaskInv
<1>5. ~Tasks!Queued(t)
  BY <1>1, <1>4, WaitingMembers DEF Tasks!Queued
<1>6. Executing # t
  BY <1>1, <1>4, NoneAssumption DEF Executing, TaskInv
<1>7. Outcome[t] = None
  BY <1>1, <1>4 DEF Outcome, Dropped
<1>8. /\ Len(pending') = Len(pending) + 1
      /\ \A i \in 1..Len(pending) : pending'[i] = pending[i]
      /\ pending'[Len(pending) + 1] = r
      /\ DOMAIN pending' = 1..(Len(pending) + 1)
  BY <1>1, <1>2, <1>3, AppendProperties, LenProperties
<1>9. PendingIds' = Append(PendingIds, t)
  <2> DEFINE n == Len(pending) + 1
             p == PendingIds'
             q == Append(PendingIds, t)
  <2>1. p \in Seq(TaskId) /\ Len(p) = n /\ \A i \in 1..n : p[i] = pending'[i].id
    <3>1. pending' \in Seq(Request) /\ Len(pending') = n
      BY <1>2, <1>3, <1>8, AppendProperties
    <3>2. p = [i \in DOMAIN pending' |-> pending'[i].id]
      BY DEF PendingIds
    <3> HIDE DEF n, p, q
    <3> QED
      BY <3>1, <3>2, IdsFacts
  <2>2. /\ q \in Seq(TaskId) /\ Len(q) = n
        /\ \A i \in 1..Len(pending) : q[i] = pending[i].id
        /\ q[n] = t
    BY <1>1, WaitingFacts, AppendProperties
  <2>3. \A i \in 1..n : i = n \/ i \in 1..Len(pending)
    BY WaitingFacts
  <2>4. \A i \in 1..n : q[i] = pending'[i].id
    BY <1>8, <2>2, <2>3
  <2> HIDE DEF n, p, q
  <2> QED
    BY <2>1, <2>2, <2>4, SeqEqual DEF p, q
<1>10. Waiting' = Append(Waiting, t)
  <2>1. CASE wpc = "run"
    <3> DEFINE h == <<job.id>>
               p == PendingIds
    <3>1. h \in Seq(TaskId) /\ p \in Seq(TaskId) /\ <<t>> \in Seq(TaskId)
      BY <1>1, <2>1, WaitingFacts
    <3>2. h \o p \in Seq(TaskId)
      BY <3>1, ConcatProperties
    <3>3. Waiting' = h \o Append(p, t) /\ Waiting = h \o p
      BY <1>2, <1>9, <2>1 DEF Waiting
    <3> HIDE DEF h, p
    <3>4. Append(p, t) = p \o <<t>> /\ Append(h \o p, t) = (h \o p) \o <<t>>
      BY <1>1, <3>1, <3>2, AppendIsConcat
    <3>5. (h \o p) \o <<t>> = h \o (p \o <<t>>)
      BY <3>1, ConcatAssociative
    <3> QED
      BY <3>3, <3>4, <3>5
  <2>2. CASE wpc # "run"
    BY <1>2, <1>9, <2>2 DEF Waiting
  <2> QED
    BY <2>1, <2>2
<1>11. UNCHANGED Executing
  BY <1>2 DEF Executing, InRun
<1>12. UNCHANGED Outcome
  <2>1. ~Dropped(t)' /\ status'[t] = "pending" /\ ~Dropped(t)
    <3>1. Len(pending) + 1 \in DOMAIN pending' /\ pending'[Len(pending) + 1].id = t
      BY <1>8, WaitingFacts
    <3>2. status'[t] = "pending"
      BY <1>1, <1>2, <1>3
    <3> QED
      BY <1>4, <3>1, <3>2 DEF Dropped
  <2>2. ASSUME NEW u \in TaskId, u # t
        PROVE  status'[u] = status[u] /\ (Dropped(u)' <=> Dropped(u))
    <3>1. status'[u] = status[u] /\ (u \in known' <=> u \in known)
      BY <1>1, <1>2, <1>3, <2>2
    <3>2. (\A i \in DOMAIN pending' : pending'[i].id # u)
          <=> (\A i \in DOMAIN pending : pending[i].id # u)
      <4>1. DOMAIN pending = 1..Len(pending) /\ Len(pending) \in Nat
        BY <1>3
      <4>2. \A i \in 1..(Len(pending) + 1) : i \in 1..Len(pending) \/ i = Len(pending) + 1
        BY <4>1
      <4>3. \A i \in 1..Len(pending) : i \in 1..(Len(pending) + 1)
        BY <4>1
      <4> QED
        BY <1>8, <2>2, <4>1, <4>2, <4>3
    <3> QED
      BY <1>2, <3>1, <3>2 DEF Dropped
  <2>3. \A u \in TaskId : Outcome'[u] = Outcome[u]
    <3>1. /\ ~Dropped(t)' /\ ~Dropped(t)
          /\ status'[t] \notin {"completed", "failed"}
          /\ status[t] \notin {"completed", "failed"}
      BY <1>4, <2>1
    <3> SUFFICES ASSUME NEW u \in TaskId PROVE Outcome'[u] = Outcome[u]
      OBVIOUS
    <3>2. CASE u = t
      BY <3>1, <3>2 DEF Outcome
    <3>3. CASE u # t
      BY <2>2, <3>3 DEF Outcome
    <3> QED
      BY <3>2, <3>3
  <2> QED
    BY <2>3 DEF Outcome
<1> QED
  BY <1>0, <1>5, <1>6, <1>7, <1>10, <1>11, <1>12 DEF Tasks!Accept
(* The ids left in the queue once its head is gone. *)
LEMMA TailIds ==
  ASSUME TypeInv, TaskInv, wpc \in {"plan", "dequeue"}, pending' = Tail(pending)
  PROVE  /\ PendingIds # <<>> /\ Head(PendingIds) = job.id
         /\ PendingIds' = Tail(PendingIds)
         /\ PendingIds = <<job.id>> \o PendingIds'
         /\ \A t \in TaskId : t # job.id =>
              ((\A i \in DOMAIN pending' : pending'[i].id # t)
               <=> (\A i \in DOMAIN pending : pending[i].id # t))
         /\ \A i \in DOMAIN pending' : pending'[i].id # job.id
         /\ \E i \in DOMAIN pending : pending[i].id = job.id
<1> DEFINE n == Len(pending)
           p == PendingIds
<1>1. /\ pending \in Seq(Request) /\ n \in Nat /\ DOMAIN pending = 1..n
      /\ pending' \in Seq(Request)
  BY DequeuedGone, HeadTailProperties DEF TypeInv, TypeOK
<1>2. /\ Len(pending') = n - 1 /\ DOMAIN pending' = 1..(n - 1)
      /\ \A i \in 1..(n - 1) : pending'[i] = pending[i + 1] /\ pending'[i].id # job.id
      /\ 1 \in 1..n /\ pending[1] = job
  BY <1>1, DequeuedGone
<1>3. p \in Seq(TaskId) /\ Len(p) = n /\ \A i \in 1..n : p[i] = pending[i].id
  BY WaitingFacts
<1>4. p # <<>> /\ Head(p) = job.id
  BY <1>2, <1>3
<1>5. /\ PendingIds' \in Seq(TaskId) /\ Len(PendingIds') = n - 1
      /\ \A i \in 1..(n - 1) : PendingIds'[i] = pending'[i].id
  BY <1>1, <1>2, IdsFacts DEF PendingIds
<1>6. Tail(p) \in Seq(TaskId) /\ Len(Tail(p)) = n - 1
      /\ \A i \in 1..(n - 1) : Tail(p)[i] = pending'[i].id
  <2>1. /\ Tail(p) \in Seq(TaskId) /\ Len(Tail(p)) = n - 1
        /\ \A i \in 1..(n - 1) : Tail(p)[i] = p[i + 1]
    BY <1>3, <1>4, HeadTailProperties
  <2>2. \A i \in 1..(n - 1) : i + 1 \in 1..n
    BY <1>1
  <2> QED
    BY <1>2, <1>3, <2>1, <2>2
<1>7. PendingIds' = Tail(p)
  BY <1>5, <1>6, SeqEqual
<1>8. p = <<Head(p)>> \o Tail(p)
  <2>1. n \in Nat /\ 1 \in 1..n /\ n \in 1..n /\ Len(p) = n
    BY <1>1, <1>2, <1>3
  <2>2. SubSeq(p, 1, n) = <<p[1]>> \o SubSeq(p, 2, n)
    BY <1>3, <2>1, SubSeqRecursiveFirst
  <2>3. SubSeq(p, 1, n) = p /\ SubSeq(p, 2, n) = Tail(p)
    BY <1>3, <1>4, SubSeqFull, TailIsSubSeq
  <2> QED
    BY <1>3, <1>4, <2>2, <2>3
<1>9. ASSUME NEW t \in TaskId, t # job.id
      PROVE  (\A i \in DOMAIN pending' : pending'[i].id # t)
             <=> (\A i \in DOMAIN pending : pending[i].id # t)
  <2>1. \A i \in 1..(n - 1) : i + 1 \in 1..n
    BY <1>1
  <2>2. \A i \in 1..n : i = 1 \/ (i - 1 \in 1..(n - 1) /\ pending'[i - 1] = pending[i])
    <3>1. \A i \in 1..n : i = 1 \/ (i - 1 \in 1..(n - 1) /\ (i - 1) + 1 = i)
      BY <1>1
    <3> QED
      BY <1>2, <3>1
  <2>3. ASSUME NEW i \in 1..(n - 1), pending'[i].id = t
        PROVE  \E j \in 1..n : pending[j].id = t
    BY <1>2, <2>1, <2>3
  <2>4. ASSUME NEW i \in 1..n, pending[i].id = t
        PROVE  \E j \in 1..(n - 1) : pending'[j].id = t
    BY <1>2, <1>9, <2>2, <2>4
  <2> QED
    BY <1>1, <1>2, <2>3, <2>4
<1> QED
  BY <1>1, <1>2, <1>4, <1>7, <1>8, <1>9

(* Taking the head off the queue to run it: it still counts as waiting. *)
LEMMA DequeueUnseen ==
  ASSUME TypeInv, TaskInv, Dequeue
  PROVE  UNCHANGED <<Waiting, Executing, Outcome>>
<1>1. /\ wpc = "dequeue" /\ wpc' = "run" /\ pending' = Tail(pending)
      /\ UNCHANGED <<known, status, job>> /\ ~InRun /\ ~InRun'
  BY DequeuedGone DEF Dequeue, Goto, InRun
<1>2. UNCHANGED Waiting /\ UNCHANGED Executing
  BY <1>1, TailIds DEF Waiting, Executing
<1>3. \A t \in TaskId : Dropped(t)' <=> Dropped(t)
  BY <1>1, TailIds DEF Dropped
<1>4. UNCHANGED Outcome
  BY <1>1, <1>3 DEF Outcome
<1> QED
  BY <1>2, <1>4

(* A plan that has failed too often drops the oldest waiting task; one that    *)
(* may be tried again changes nothing.                                         *)
LEMMA PlanRaisesDrops ==
  ASSUME TypeInv, TaskInv, PlanRaises
  PROVE  Tasks!Drop \/ UNCHANGED <<Waiting, Executing, Outcome>>
<1>1. /\ wpc = "plan" /\ wpc' = "check" /\ UNCHANGED <<known, status>>
      /\ ~InRun /\ ~InRun'
      /\ pending' = pending \/ pending' = Tail(pending)
  BY DequeuedGone DEF PlanRaises, Return, InRun
<1>2. CASE pending' = pending
  BY <1>1, <1>2, UnseenStep
<1>3. CASE pending' = Tail(pending)
  <2>1. PICK t \in TaskId : t = job.id
    BY <1>1, WorkerStationFacts, RequestAssumption
  <2>2. Waiting = PendingIds /\ Waiting' = PendingIds' /\ Executing = None /\ Executing' = None
    BY <1>1 DEF Waiting, Executing
  <2>3. Waiting # <<>> /\ Waiting' = Tail(Waiting) /\ Head(Waiting) = t
    BY <1>1, <1>3, <2>1, <2>2, TailIds
  <2>4. t \in known /\ status[t] = "pending"
    BY <1>1, <2>1, DequeuedGone
  <2>5. Dropped(t)'
    BY <1>1, <1>3, <2>1, <2>4, TailIds DEF Dropped
  <2>6. \A u \in TaskId : u # t => (Dropped(u)' <=> Dropped(u))
    BY <1>1, <1>3, <2>1, TailIds DEF Dropped
  <2>7. Outcome' = [Outcome EXCEPT ![t] = "dropped"]
    BY <1>1, <2>4, <2>5, <2>6 DEF Outcome
  <2> QED
    BY <2>2, <2>3, <2>7 DEF Tasks!Drop
<1> QED
  BY <1>1, <1>2, <1>3

(* `add_to_running` starts the oldest waiting task. *)
LEMMA AddToRunningStarts ==
  ASSUME TypeInv, TaskInv, AddToRunning
  PROVE  Tasks!Start
<1>1. PICK t \in TaskId : t = job.id
  BY WorkerStationFacts, RequestAssumption DEF AddToRunning
<1>2. /\ wpc = "run" /\ wpc' = "start" /\ UNCHANGED <<pending, known, job>>
      /\ status' = [status EXCEPT ![t] = "executing"] /\ ~InRun /\ InRun'
  BY <1>1 DEF AddToRunning, Goto, InRun
<1>3. status[t] = "pending"
  BY <1>1, <1>2 DEF TaskInv
<1>4. Executing = None /\ Executing' = t
  BY <1>1, <1>2 DEF Executing
<1>5. Waiting # <<>> /\ Head(Waiting) = t /\ Tail(Waiting) = Waiting'
  <2> DEFINE p == PendingIds
             w == <<t>> \o p
  <2>1. p \in Seq(TaskId) /\ Waiting = w /\ Waiting' = p
    BY <1>1, <1>2, WaitingFacts DEF Waiting, PendingIds
  <2> HIDE DEF p
  <2>2. w \in Seq(TaskId) /\ Len(w) = 1 + Len(p) /\ Len(p) \in Nat
        /\ \A i \in 1..(1 + Len(p)) : w[i] = IF i <= 1 THEN <<t>>[i] ELSE p[i - 1]
    BY <2>1, ConcatProperties
  <2> HIDE DEF w
  <2>3. w # <<>> /\ Head(w) = t
    BY <2>2
  <2>4. Tail(w) \in Seq(TaskId) /\ Len(Tail(w)) = Len(p)
        /\ \A i \in 1..Len(p) : Tail(w)[i] = w[i + 1]
    BY <2>2, <2>3, HeadTailProperties
  <2>5. \A i \in 1..Len(p) : w[i + 1] = p[i]
    <3>1. \A i \in 1..Len(p) : i + 1 \in 1..(1 + Len(p)) /\ ~(i + 1 <= 1) /\ (i + 1) - 1 = i
      BY <2>2
    <3> QED
      BY <2>2, <3>1
  <2>6. Tail(w) = p
    BY <2>1, <2>4, <2>5, SeqEqual
  <2> QED
    BY <2>1, <2>3, <2>6
<1>6. UNCHANGED Outcome
  <2>1. ~Dropped(t) /\ ~Dropped(t)'
    BY <1>1, <1>2, <1>3 DEF Dropped, TypeInv, TypeOK
  <2>2. \A u \in TaskId : u # t =>
          (status'[u] = status[u] /\ (Dropped(u)' <=> Dropped(u)))
    BY <1>1, <1>2 DEF Dropped, TypeInv, TypeOK
  <2>3. status'[t] = "executing"
    BY <1>2 DEF TypeInv, TypeOK
  <2> QED
    BY <1>3, <2>1, <2>2, <2>3 DEF Outcome
<1> QED
  BY <1>4, <1>5, <1>6 DEF Tasks!Start

(* `complete_task` and `fail_task` end the task that is executing. *)
LEMMA ClosingEnds ==
  ASSUME TypeInv, TaskInv, wpc \in {"complete", "failtask"},
         wpc' \in {"release", "check"}, NEW how \in {"completed", "failed"},
         status' = [status EXCEPT ![job.id] = how], UNCHANGED <<pending, known>>
  PROVE  Tasks!End(how)
<1>1. PICK t \in TaskId : t = job.id
  BY WorkerStationFacts, RequestAssumption
<1>2. InRun /\ ~InRun' /\ status[t] = "executing" /\ wpc # "run" /\ wpc' # "run"
  BY <1>1 DEF InRun, TaskInv
<1>3. Executing = t /\ Executing' = None /\ t # None
  BY <1>1, <1>2, NoneAssumption DEF Executing
<1>4. UNCHANGED Waiting
  BY <1>2 DEF Waiting, PendingIds
<1>5. /\ status'[t] = how
      /\ \A u \in TaskId : u # t => status'[u] = status[u]
  BY <1>1 DEF TypeInv, TypeOK
<1>6. \A u \in TaskId : u # t => (Dropped(u)' <=> Dropped(u))
  BY <1>2, <1>5 DEF Dropped
<1>7. Outcome' = [Outcome EXCEPT ![t] = how]
  BY <1>5, <1>6 DEF Outcome
<1> QED
  BY <1>3, <1>4, <1>7 DEF Tasks!End

-----------------------------------------------------------------------------
(* The refinement *)

LEMMA InitLifecycle == Init => Tasks!Init
<1> SUFFICES ASSUME Init PROVE Tasks!Init
  OBVIOUS
<1>1. pending = <<>> /\ wpc = "check" /\ known = {} /\ status = [t \in TaskId |-> "unknown"]
  BY DEF Init
<1>2. Waiting = <<>>
  BY <1>1 DEF Waiting, PendingIds
<1>3. Executing = None
  BY <1>1 DEF Executing, InRun
<1>4. Outcome = [t \in TaskId |-> None]
  BY <1>1 DEF Outcome, Dropped
<1> QED
  BY <1>2, <1>3, <1>4 DEF Tasks!Init

LEMMA WorkerLifecycle ==
  ASSUME TypeInv, TaskInv, Worker
  PROVE  Tasks!Next \/ UNCHANGED <<Waiting, Executing, Outcome>>
<1>1. CASE TakeHead \/ PlanReturns
  <2>1. /\ UNCHANGED <<pending, known, status>> /\ wpc # "run" /\ wpc' # "run"
        /\ ~InRun /\ ~InRun'
    BY <1>1 DEF TakeHead, PlanReturns, Goto, InRun, taskVars
  <2> QED
    BY <2>1, UnseenStep
<1>2. CASE PlacementRaises \/ StartStation \/ ExecuteReturns \/ ExecuteRaises
           \/ FinishStation \/ FailStation
  <2>1. UNCHANGED taskVars /\ InRun
    BY <1>2 DEF PlacementRaises, StartStation, ExecuteReturns, ExecuteRaises,
                FinishStation, FailStation, InRun
  <2>2. /\ job' = job
        /\ wpc' \in {wpc, "fail", "execute", "finish", "complete", "failtask"}
    BY <1>2 DEF PlacementRaises, StartStation, ExecuteReturns, ExecuteRaises,
                FinishStation, FailStation, MoveOrRaise, NextStation, Goto
  <2>3. InRun' /\ wpc' # "run" /\ wpc # "run"
    BY <2>1, <2>2 DEF InRun
  <2> QED
    BY <2>1, <2>2, <2>3, UnseenStep DEF taskVars
<1>3. CASE ReleaseStation
  <2>1. /\ UNCHANGED taskVars /\ wpc # "run" /\ wpc' # "run" /\ ~InRun /\ ~InRun'
    BY <1>3 DEF ReleaseStation, Return, InRun
  <2> QED
    BY <2>1, UnseenStep DEF taskVars
<1>4. CASE PlanRaises
  BY <1>4, PlanRaisesDrops DEF Tasks!Next
<1>5. CASE Dequeue
  BY <1>5, DequeueUnseen
<1>6. CASE AddToRunning
  BY <1>6, AddToRunningStarts DEF Tasks!Next
<1>7. CASE CompleteTask
  <2>1. Tasks!End("completed")
    BY <1>7, ClosingEnds DEF CompleteTask, Goto
  <2> QED
    BY <2>1 DEF Tasks!Next
<1>8. CASE FailTask
  <2>1. Tasks!End("failed")
    BY <1>8, ClosingEnds DEF FailTask, Return
  <2> QED
    BY <2>1 DEF Tasks!Next
<1> QED
  BY <1>1, <1>2, <1>3, <1>4, <1>5, <1>6, <1>7, <1>8 DEF Worker

LEMMA NextLifecycle ==
  TypeInv /\ TaskInv /\ [Next]_vars => [Tasks!Next]_(Tasks!tvars)
<1> SUFFICES ASSUME TypeInv, TaskInv, [Next]_vars
             PROVE  Tasks!Next \/ UNCHANGED <<Waiting, Executing, Outcome>>
  BY DEF Tasks!tvars
<1>1. CASE UNCHANGED vars
  BY <1>1, OtherThreadUnseen DEF vars, taskVars
<1>2. ASSUME NEW c \in Conn, Handler(c)
      PROVE  Tasks!Next \/ UNCHANGED <<Waiting, Executing, Outcome>>
  <2>1. CASE Enqueue(c) /\ call[c].req.id \notin known
    <3>1. call[c].req.id \in TaskId
      BY <2>1, RequestAssumption DEF Enqueue, TypeInv, TypeOK, Call
    <3> QED
      BY <2>1, <3>1, EnqueueAccepts DEF Tasks!Next
  <2>2. CASE ~(Enqueue(c) /\ call[c].req.id \notin known)
    <3>1. UNCHANGED <<pending, known, status, workerVars>>
      BY <1>2, <2>2 DEF Handler, DispatchRequest, MakeStationReady, Enqueue,
                        ClearStationAbnormal, taskVars
    <3> QED
      BY <3>1, OtherThreadUnseen
  <2> QED
    BY <2>1, <2>2
<1>3. CASE PlcPolling
  <2>1. UNCHANGED <<pending, known, status, workerVars>>
    BY <1>3 DEF PlcPolling, Poll, RaiseFault, taskVars
  <2> QED
    BY <2>1, OtherThreadUnseen
<1> QED
  BY <1>1, <1>2, <1>3, WorkerLifecycle DEF Next

(* Whatever the connections, the worker and the polling do at the same time,   *)
(* RCS sees every id accepted at most once, the accepted tasks taken in the    *)
(* order they were accepted, one at a time, and each ended once: completed,    *)
(* failed, or dropped unstarted when it could not be planned.                  *)
THEOREM LifecycleImplementedHolds == Spec => LifecycleImplemented
<1>1. Init => Tasks!Init
  BY InitLifecycle
<1>2. TypeInv /\ TaskInv /\ [Next]_vars => [Tasks!Next]_(Tasks!tvars)
  BY NextLifecycle
<1> QED
  BY <1>1, <1>2, TaskInvHolds, PTL DEF Spec, LifecycleImplemented, Tasks!Spec
=============================================================================
