----------------------------- MODULE VisionGate -----------------------------
(* The vision-gate client (communication/vision_gate.py): the worker thread    *)
(* that sends a list of goods and waits for the gate's answer, the receiving   *)
(* thread, and the thread that connects and reconnects.  The gate and the TCP  *)
(* connection are external.  `close` is not called anywhere and not modelled,  *)
(* nor is `_stop_event`, which is set only while no receiver runs.             *)
EXTENDS Integers, Sequences, FiniteSets

CONSTANTS SEQ_MODULUS,     \* sequence numbers wrap here (65536)
          MAX_SENDS,       \* bound: lists sent
          MAX_LOSSES,      \* bound: connections the gate closes
          MAX_JUNK,        \* bound: malformed pieces and answers the gate sends
          None             \* no answer, no pending number

ASSUME BoundsAssumption ==
  /\ SEQ_MODULUS \in Nat \ {0} /\ MAX_SENDS \in Nat
  /\ MAX_LOSSES \in Nat /\ MAX_JUNK \in Nat
ASSUME NoneAssumption ==
  None \notin Nat /\ None \notin [list : 1..MAX_SENDS, result : {"ok", "error"}]

VARIABLES
  connected,       \* VisionGateClient.connected
  pending_seq,     \* _pending_seq
  last_response,   \* _last_response: the answer kept for the sender, or None
  response_event,  \* _response_event
  buffer,          \* _recv_buffer: what was received and not yet parsed
  spc,             \* where the sender is in send_goods_list
  req,             \* number of the list being sent; see SeqNumber
  rpc,             \* where the receiver is, "dead" when there is none
  msg,             \* the answer _on_message is working on
  cpc,             \* where the (re)connecting thread is, "off" when there is none
  alive,           \* external: the gate's end of the connection is open
  to_gate,         \* external: lists on their way to the gate
  from_gate,       \* external: what is on its way from the gate
  junk,            \* external: malformed pieces sent so far
  accepted,        \* history: lists the gate has answered with success
  acked,           \* history: lists send_goods_list returned success for, with
                   \* the list whose answer it was
  given_up,        \* history: lists whose wait ended without an answer
  overtaken,       \* history: lists begun while the receiver was handing over
  woken,           \* history: lists whose wait a new connection has ended
  losses,          \* history: connections lost
  deafened         \* history: has a receiver ended on a connection left open?

clientVars  == <<connected, pending_seq, last_response, response_event, buffer>>
gateVars    == <<alive, to_gate, from_gate, junk, accepted>>
historyVars == <<acked, given_up, overtaken, woken, losses, deafened>>
vars == <<clientVars, spc, req, rpc, msg, cpc, gateVars, historyVars>>

(* _next_seq: the numbers start at 0 and wrap. *)
SeqUnwrapped(n) == n
SeqNumber(n) == (n - 1) % SEQ_MODULUS

Init ==
  /\ connected = FALSE /\ pending_seq = None /\ last_response = None
  /\ response_event = FALSE /\ buffer = <<>>
  /\ spc = "idle" /\ req = 0
  /\ rpc = "dead" /\ msg = None
  /\ cpc = "cleanup"                     \* connect_with_retry at startup
  /\ alive = FALSE /\ to_gate = <<>> /\ from_gate = <<>> /\ junk = 0
  /\ accepted = {} /\ acked = {} /\ given_up = {} /\ overtaken = {} /\ woken = {}
  /\ losses = 0 /\ deafened = FALSE

-----------------------------------------------------------------------------
(* send_goods_list, one list after the other. *)

Idle == spc' = "idle"

(* Nothing keeps the sender from beginning a list while the receiver, which    *)
(* has found the number of the list before to match, is handing its answer     *)
(* over.                                                                       *)
HandingOver == rpc \in {"keep", "notify"}

SendStart ==
  /\ spc = "idle" /\ req < MAX_SENDS
  /\ req' = req + 1
  /\ pending_seq' = SeqNumber(req + 1)
  /\ overtaken' = IF HandingOver THEN overtaken \cup {req + 1} ELSE overtaken
  /\ spc' = "clear"
  /\ UNCHANGED <<connected, last_response, response_event, buffer, rpc, msg, cpc,
                 gateVars, acked, given_up, woken, losses, deafened>>

ClearEvent ==
  /\ spc = "clear"
  /\ response_event' = FALSE
  /\ spc' = "send"
  /\ UNCHANGED <<connected, pending_seq, last_response, buffer, req, rpc, msg, cpc,
                 gateVars, historyVars>>

SendRefused ==
  /\ spc = "send" /\ ~connected
  /\ Idle
  /\ UNCHANGED <<clientVars, req, rpc, msg, cpc, gateVars, historyVars>>

(* On a connection the gate has closed the list is lost, and sendall may or    *)
(* may not notice.                                                             *)
SendList ==
  /\ spc = "send" /\ connected
  /\ to_gate' = IF alive THEN Append(to_gate, req) ELSE to_gate
  /\ spc' = "wait"
  /\ UNCHANGED <<clientVars, req, rpc, msg, cpc, alive, from_gate, junk, accepted,
                 historyVars>>

(* sendall raises: the connection is gone, or the gate has not read for five   *)
(* seconds.  In the second case the connection stays open and the receiver     *)
(* waits on it, so that nothing connects again before the gate closes it.      *)
SendFails ==
  /\ spc = "send" /\ connected
  /\ connected' = FALSE
  /\ Idle
  /\ UNCHANGED <<pending_seq, last_response, response_event, buffer, req, rpc, msg,
                 cpc, gateVars, historyVars>>

(* The wait times out: the list counts as not acknowledged; the number stays   *)
(* pending.                                                                    *)
WaitTimesOut ==
  /\ spc = "wait" /\ ~response_event
  /\ given_up' = given_up \cup {req}
  /\ Idle
  /\ UNCHANGED <<clientVars, req, rpc, msg, cpc, gateVars, acked, overtaken, woken,
                 losses, deafened>>

(* The wait is over, and after it the number is not pending any more. *)
Woken ==
  /\ spc = "wait" /\ response_event
  /\ spc' = "forget"
  /\ UNCHANGED <<clientVars, req, rpc, msg, cpc, gateVars, historyVars>>

ForgetNumber ==
  /\ spc = "forget"
  /\ pending_seq' = None
  /\ spc' = "take"
  /\ UNCHANGED <<connected, last_response, response_event, buffer, req, rpc, msg, cpc,
                 gateVars, historyVars>>

(* The answer the caller will get: success, an error, or None, which the       *)
(* caller cannot read and which fails its batch like an error.                 *)
TakeResponse ==
  /\ spc = "take"
  /\ acked' = IF last_response # None /\ last_response.result = "ok"
              THEN acked \cup {[list |-> req, answer |-> last_response.list]} ELSE acked
  /\ given_up' = IF last_response = None THEN given_up \cup {req} ELSE given_up
  /\ spc' = "reset"
  /\ UNCHANGED <<clientVars, req, rpc, msg, cpc, gateVars, overtaken, woken, losses,
                 deafened>>

(* Returning it and leaving it there. *)
KeepTaken ==
  /\ spc = "reset"
  /\ Idle
  /\ UNCHANGED <<clientVars, req, rpc, msg, cpc, gateVars, historyVars>>

ResetResponse ==
  /\ spc = "reset"
  /\ last_response' = None
  /\ Idle
  /\ UNCHANGED <<connected, pending_seq, response_event, buffer, req, rpc, msg, cpc,
                 gateVars, historyVars>>

Sender ==
  \/ SendStart \/ ClearEvent \/ SendRefused \/ SendList \/ SendFails
  \/ WaitTimesOut \/ Woken \/ ForgetNumber \/ TakeResponse \/ ResetResponse

-----------------------------------------------------------------------------
(* _recv_loop *)

(* recv returns some of what has arrived. *)
ReceiveData ==
  /\ rpc = "recv" /\ from_gate # <<>>
  /\ \E n \in 1..Len(from_gate) :
       /\ buffer' = buffer \o SubSeq(from_gate, 1, n)
       /\ from_gate' = SubSeq(from_gate, n + 1, Len(from_gate))
  /\ rpc' = "parse"
  /\ UNCHANGED <<connected, pending_seq, last_response, response_event, spc, req,
                 msg, cpc, alive, to_gate, junk, accepted, historyVars>>

(* The receiver ends and leaves a reconnecting thread behind. *)
ReceiverEnds ==
  /\ connected' = FALSE
  /\ rpc' = "dead"
  /\ cpc' = "check"
  /\ losses' = losses + 1

(* recv reports the end of the connection or an error. *)
ReceiveClosed ==
  /\ rpc = "recv" /\ ~alive
  /\ ReceiverEnds
  /\ UNCHANGED <<pending_seq, last_response, response_event, buffer, spc, req, msg,
                 gateVars, acked, given_up, overtaken, woken, deafened>>

(* _parse_header finds nothing complete, and the receiver waits for more.      *)
ParseNothing ==
  /\ rpc = "parse" /\ buffer = <<>>
  /\ rpc' = "recv"
  /\ UNCHANGED <<clientVars, spc, req, msg, cpc, gateVars, historyVars>>

(* It skips a malformed piece - and the receiver waits for more, although      *)
(* there may be an answer behind it.                                           *)
ParseJunk ==
  /\ rpc = "parse" /\ buffer # <<>> /\ Head(buffer).kind = "junk"
  /\ buffer' = Tail(buffer)
  /\ rpc' = "recv"
  /\ UNCHANGED <<connected, pending_seq, last_response, response_event, spc, req,
                 msg, cpc, gateVars, historyVars>>

(* A wrong protocol version raises a CommunicationError, an OSError, and gives *)
(* up the connection.                                                          *)
ParseVersion ==
  /\ rpc = "parse" /\ buffer # <<>> /\ Head(buffer).kind = "version"
  /\ ReceiverEnds
  /\ UNCHANGED <<pending_seq, last_response, response_event, buffer, spc, req, msg,
                 gateVars, acked, given_up, overtaken, woken, deafened>>

(* Any answer taken for the one waited for. *)
MatchesAnyway(answer) == TRUE

(* _on_message: an answer whose number is not the pending one is ignored. *)
Matches(answer) == answer.seq = pending_seq

NextAnswer == buffer # <<>> /\ Head(buffer).kind = "answer"

IgnoreAnswer ==
  /\ rpc = "parse" /\ NextAnswer /\ ~Matches(Head(buffer))
  /\ buffer' = Tail(buffer)
  /\ UNCHANGED <<connected, pending_seq, last_response, response_event, spc, req, rpc,
                 msg, cpc, gateVars, historyVars>>

MatchAnswer ==
  /\ rpc = "parse" /\ NextAnswer /\ Matches(Head(buffer))
  /\ Head(buffer).result \in {"ok", "error"}
  /\ buffer' = Tail(buffer)
  /\ rpc' = "keep"
  /\ msg' = [list |-> Head(buffer).list, result |-> Head(buffer).result]
  /\ UNCHANGED <<connected, pending_seq, last_response, response_event, spc, req,
                 cpc, gateVars, historyVars>>

(* An answer whose body is no JSON object ends the receiver with an            *)
(* AttributeError, and the connection still counts as open.                    *)
AnswerUnreadable ==
  /\ rpc = "parse" /\ NextAnswer /\ Matches(Head(buffer))
  /\ Head(buffer).result = "unreadable"
  /\ buffer' = Tail(buffer)
  /\ rpc' = "dead" /\ cpc' = "check"
  /\ deafened' = TRUE
  /\ UNCHANGED <<connected, pending_seq, last_response, response_event, spc, req, msg,
                 gateVars, acked, given_up, overtaken, woken, losses>>

KeepResponse ==
  /\ rpc = "keep"
  /\ last_response' = msg
  /\ rpc' = "notify"
  /\ UNCHANGED <<connected, pending_seq, response_event, buffer, spc, req, msg, cpc,
                 gateVars, historyVars>>

NotifySender ==
  /\ rpc = "notify"
  /\ response_event' = TRUE
  /\ rpc' = "parse" /\ msg' = None
  /\ UNCHANGED <<connected, pending_seq, last_response, buffer, spc, req, cpc,
                 gateVars, historyVars>>

Receiver ==
  \/ ReceiveData \/ ReceiveClosed \/ ParseNothing \/ ParseJunk \/ ParseVersion
  \/ IgnoreAnswer \/ MatchAnswer \/ AnswerUnreadable \/ KeepResponse \/ NotifySender

-----------------------------------------------------------------------------
(* _auto_reconnect, and connect_with_retry at startup *)

ReconnectCheck ==
  /\ cpc = "check"
  /\ cpc' = IF connected THEN "off" ELSE "cleanup"
  /\ UNCHANGED <<clientVars, spc, req, rpc, msg, gateVars, historyVars>>

(* After three seconds: connect first closes what is left of the old           *)
(* connection, and wakes the sender, for which nothing may have come.          *)
Cleanup ==
  /\ cpc = "cleanup"
  /\ response_event' = TRUE
  /\ connected' = FALSE
  /\ alive' = FALSE /\ to_gate' = <<>> /\ from_gate' = <<>>
  /\ cpc' = "connect"
  /\ woken' = IF spc \in {"send", "wait"} THEN woken \cup {req} ELSE woken
  /\ UNCHANGED <<pending_seq, last_response, buffer, spc, req, rpc, msg, junk,
                 accepted, acked, given_up, overtaken, losses, deafened>>

ConnectSucceeds ==
  /\ cpc = "connect"
  /\ alive' = TRUE
  /\ connected' = TRUE
  /\ buffer' = <<>>
  /\ rpc' = "recv"
  /\ cpc' = "off"
  /\ UNCHANGED <<pending_seq, last_response, response_event, spc, req, msg, to_gate,
                 from_gate, junk, accepted, historyVars>>

ConnectGivesUp ==
  /\ cpc = "connect"
  /\ cpc' = "off"
  /\ UNCHANGED <<clientVars, spc, req, rpc, msg, gateVars, historyVars>>

ConnectFails ==
  /\ cpc = "connect"
  /\ cpc' = "check"
  /\ UNCHANGED <<clientVars, spc, req, rpc, msg, gateVars, historyVars>>

Reconnector == ReconnectCheck \/ Cleanup \/ ConnectSucceeds \/ ConnectFails

-----------------------------------------------------------------------------
(* The gate (external): it answers a list whenever it likes or not at all, may *)
(* close the connection, and may send something malformed.  An answer carries  *)
(* the number of its list; that it is also marked with the list is history.    *)

GateAnswers ==
  /\ alive /\ to_gate # <<>>
  /\ to_gate' = Tail(to_gate)
  /\ \E result \in {"ok", "error"} \cup (IF junk < MAX_JUNK THEN {"unreadable"} ELSE {}) :
       /\ from_gate' = Append(from_gate,
            [kind |-> "answer", list |-> Head(to_gate),
             seq |-> SeqNumber(Head(to_gate)), result |-> result])
       /\ accepted' = IF result = "ok" THEN accepted \cup {Head(to_gate)} ELSE accepted
       /\ junk' = IF result = "unreadable" THEN junk + 1 ELSE junk
  /\ UNCHANGED <<clientVars, spc, req, rpc, msg, cpc, alive, historyVars>>

GateSendsJunk ==
  /\ alive /\ junk < MAX_JUNK
  /\ \E kind \in {"junk", "version"} : from_gate' = Append(from_gate, [kind |-> kind])
  /\ junk' = junk + 1
  /\ UNCHANGED <<clientVars, spc, req, rpc, msg, cpc, alive, to_gate, accepted,
                 historyVars>>

GateCloses ==
  /\ alive /\ losses < MAX_LOSSES
  /\ alive' = FALSE /\ to_gate' = <<>>
  /\ UNCHANGED <<clientVars, spc, req, rpc, msg, cpc, from_gate, junk, accepted,
                 historyVars>>

Gate == GateAnswers \/ GateSendsJunk \/ GateCloses

-----------------------------------------------------------------------------
Next == Sender \/ Receiver \/ Reconnector \/ Gate

(* Threads keep running; a gate that can be reached again and again will at    *)
(* some time be there when connect is tried.                                   *)
Fairness ==
  /\ WF_vars(Sender) /\ WF_vars(Receiver) /\ WF_vars(Reconnector)
  /\ SF_vars(ConnectSucceeds)

Spec == Init /\ [][Next]_vars /\ Fairness

-----------------------------------------------------------------------------
(* Properties *)

Numbers == 0..(SEQ_MODULUS - 1)
Lists == 1..MAX_SENDS
Item == [kind : {"answer"}, list : Lists, seq : Numbers,
         result : {"ok", "error", "unreadable"}]
        \cup [kind : {"junk", "version"}]
Response == [list : Lists, result : {"ok", "error"}]

TypeOK ==
  /\ connected \in BOOLEAN /\ response_event \in BOOLEAN /\ alive \in BOOLEAN
  /\ pending_seq \in Numbers \cup {None}
  /\ last_response \in Response \cup {None} /\ msg \in Response \cup {None}
  /\ buffer \in Seq(Item) /\ from_gate \in Seq(Item)
  /\ to_gate \in Seq(Lists) /\ req \in 0..MAX_SENDS
  /\ spc \in {"idle", "clear", "send", "wait", "forget", "take", "reset"}
  /\ rpc \in {"dead", "recv", "parse", "keep", "notify"}
  /\ cpc \in {"off", "check", "cleanup", "connect"}
  /\ accepted \subseteq Lists /\ acked \subseteq [list : Lists, answer : Lists]
  /\ given_up \subseteq Lists /\ overtaken \subseteq Lists /\ woken \subseteq Lists
  /\ losses \in Nat /\ junk \in Nat /\ deafened \in BOOLEAN

(* A list is reported as acknowledged on the word of its own answer, as long   *)
(* as each wait before it ended with an answer: however often the connection   *)
(* breaks, whenever a reconnect sets the event, and wherever receiver and      *)
(* sender are in their handover.                                               *)
AckRightUntilGivenUp ==
  \A a \in acked : a.answer = a.list \/ \E m \in given_up : m < a.list

(* After that, an acknowledgement still stands for a success the gate has      *)
(* reported, for this list or an earlier one, and none stands for two: late    *)
(* answers, timeouts and reconnects never make one success acknowledge twice.  *)
NoAnswerCountsTwice ==
  \A a \in acked :
    /\ a.answer \in accepted /\ a.answer <= a.list
    /\ \A c \in acked : c.answer = a.answer => c.list = a.list

(* There are two ways only for a list to be acknowledged by the answer to      *)
(* another one (or, after 65536 lists, to one with the same number): it was    *)
(* begun while the receiver, past the comparison of the number, was handing    *)
(* over an answer given up before, or a new connection has ended its wait.     *)
(* However late an answer comes otherwise, it is not taken for another's.      *)
AckWrongOnlyInHandover ==
  \A a \in acked :
    SeqNumber(a.answer) = SeqNumber(a.list) \/ a.list \in overtaken \cup woken

(* A lost connection is found out about and restored, unless a receiver has    *)
(* ended on an answer it could not read.                                       *)
ConnectionRestored == (~alive) ~> ((alive /\ connected) \/ deafened)

(* A list the client reports as acknowledged was acknowledged by the gate.     *)
AckBelongsToRequest == \A a \in acked : a.answer = a.list
=============================================================================
