----------------------------- MODULE RcsFraming -----------------------------
(* One RCS connection (communication/rcs_sever.py, rcs_sever_protocol.py): RCS  *)
(* writes requests into a byte stream, TCP delivers it in pieces of any size,  *)
(* and the receiving thread cuts it into requests again and answers them one   *)
(* after the other.                                                            *)
(*                                                                             *)
(* Bytes are numbers.  A header is shorter than in the code: the sync byte,    *)
(* the protocol version, one byte that stands for the sequence number and the  *)
(* type of the request, and one for the length of the body.                    *)
EXTENDS Integers, SequencesExt

CONSTANTS Kinds,      \* [version, body] records: the requests RCS may send
          MAX_SENT    \* bound: requests on the connection

MAGIC == 172
PROTOCOL_VERSION == 1
HEADER_SIZE == 4

NOT_JSON == 255       \* a body with this byte cannot be parsed

ASSUME BoundAssumption == MAX_SENT \in 1..(MAGIC - 1)
ASSUME KindAssumption ==
  \A k \in Kinds : /\ k \in [version : 0..255, body : Seq(0..255)]
                   /\ k.version # MAGIC /\ Len(k.body) < MAGIC
                   /\ \A i \in DOMAIN k.body : k.body[i] # PROTOCOL_VERSION

VARIABLES
  sent,         \* kinds of the requests sent; the n-th has number n
  wire,         \* bytes on their way to the host
  recv_buffer,  \* recv_buffer of the receiving thread
  rpc,          \* where that thread is; "refused" is "recv" after an error answer
  answers       \* [number, ok] of the answers given, in order

vars == <<sent, wire, recv_buffer, rpc, answers>>

Parses(body) == NOT_JSON \notin ToSet(body)

(* encode *)
Encoded(n, kind) == <<MAGIC, kind.version, n, Len(kind.body)>> \o kind.body

-----------------------------------------------------------------------------
(* decode *)

From(bytes, i) == SubSeq(bytes, i, Len(bytes))

(* The next sync byte of a buffer that does not begin with one: the first two  *)
(* bytes are passed over.                                                      *)
Resynchronised(buffer) ==
  LET syncs == {i \in 3..Len(buffer) : buffer[i] = MAGIC}
  IN  IF syncs = {} THEN <<>> ELSE From(buffer, Min(syncs))

Outcome(kind, number, rest) == [kind |-> kind, number |-> number, rest |-> rest]

(* What a header at the start of a buffer leads to, whatever its version.      *)
DecodedAnyVersion(buffer) ==
  LET total == HEADER_SIZE + buffer[4] IN
  IF Len(buffer) < total THEN Outcome("more", 0, buffer)
  ELSE Outcome(IF Parses(SubSeq(buffer, HEADER_SIZE + 1, total)) THEN "request" ELSE "data",
               buffer[3], From(buffer, total + 1))

(* The same, with only the header passed over when the body is not JSON.       *)
DecodedHeaderOnly(buffer) ==
  IF buffer[2] # PROTOCOL_VERSION
  THEN Outcome("version", buffer[3], From(buffer, HEADER_SIZE + 1))
  ELSE LET d == DecodedAnyVersion(buffer)
       IN  IF d.kind = "data" THEN [d EXCEPT !.rest = From(buffer, HEADER_SIZE + 1)] ELSE d

(* Another version is an error that takes the header out of the buffer; a body *)
(* that is not JSON is one that takes the whole request.                       *)
DecodedFrame(buffer) ==
  IF buffer[2] # PROTOCOL_VERSION
  THEN Outcome("version", buffer[3], From(buffer, HEADER_SIZE + 1))
  ELSE DecodedAnyVersion(buffer)

(* Unpacking a header raises when resynchronising left less than one. *)
Decoded(buffer) ==
  LET synced == IF buffer[1] = MAGIC THEN buffer ELSE Resynchronised(buffer) IN
  IF Len(buffer) < HEADER_SIZE THEN Outcome("more", 0, buffer)
  ELSE IF synced = <<>> THEN Outcome("more", 0, <<>>)
  ELSE IF Len(synced) < HEADER_SIZE THEN Outcome("raises", 0, synced)
  ELSE DecodedFrame(synced)

-----------------------------------------------------------------------------
Init ==
  /\ sent = <<>> /\ wire = <<>> /\ recv_buffer = <<>>
  /\ rpc = "recv" /\ answers = <<>>

(* RCS need not wait for an answer before it sends the next request. *)
Send(kind) ==
  /\ Len(sent) < MAX_SENT
  /\ sent' = Append(sent, kind)
  /\ wire' = wire \o Encoded(Len(sent) + 1, kind)
  /\ UNCHANGED <<recv_buffer, rpc, answers>>

(* recv returns some of what is there. *)
Receive ==
  /\ rpc \in {"recv", "refused"}
  /\ \E n \in 1..Len(wire) :
       /\ recv_buffer' = recv_buffer \o SubSeq(wire, 1, n)
       /\ wire' = From(wire, n + 1)
  /\ rpc' = "decode"
  /\ UNCHANGED <<sent, answers>>

D == Decoded(recv_buffer)

(* Nothing complete: wait for more. *)
NeedMore ==
  /\ rpc = "decode" /\ D.kind = "more"
  /\ recv_buffer' = D.rest
  /\ rpc' = "recv"
  /\ UNCHANGED <<sent, wire, answers>>

(* One request for each piece received. *)
HandleOne ==
  /\ rpc = "decode" /\ D.kind = "request"
  /\ recv_buffer' = D.rest
  /\ answers' = Append(answers, [number |-> D.number, ok |-> TRUE])
  /\ rpc' = "recv"
  /\ UNCHANGED <<sent, wire>>

(* _task_handle_message, _status_handle_message: handle, answer, look again. *)
HandleRequest ==
  /\ rpc = "decode" /\ D.kind = "request"
  /\ recv_buffer' = D.rest
  /\ answers' = Append(answers, [number |-> D.number, ok |-> TRUE])
  /\ UNCHANGED <<sent, wire, rpc>>

(* An error answer that does not say which request it is for. *)
RefuseUnnumbered ==
  /\ rpc = "decode" /\ D.kind \in {"version", "data"}
  /\ recv_buffer' = D.rest
  /\ answers' = Append(answers, [number |-> -1, ok |-> FALSE])
  /\ rpc' = "refused"
  /\ UNCHANGED <<sent, wire>>

(* An error answer - and then the thread waits for more, although there may be *)
(* a complete request in the buffer.                                           *)
RefuseRequest ==
  /\ rpc = "decode" /\ D.kind \in {"version", "data"}
  /\ recv_buffer' = D.rest
  /\ answers' = Append(answers, [number |-> D.number, ok |-> FALSE])
  /\ rpc' = "refused"
  /\ UNCHANGED <<sent, wire>>

(* Any other exception ends the thread and closes the connection. *)
CloseConnection ==
  /\ rpc = "decode" /\ D.kind = "raises"
  /\ rpc' = "closed"
  /\ UNCHANGED <<sent, wire, recv_buffer, answers>>

Next ==
  \/ \E kind \in Kinds : Send(kind)
  \/ Receive \/ NeedMore \/ HandleRequest \/ RefuseRequest \/ CloseConnection

Spec == Init /\ [][Next]_vars

-----------------------------------------------------------------------------
(* Properties *)

TypeOK ==
  /\ sent \in Seq(Kinds) /\ Len(sent) <= MAX_SENT
  /\ wire \in Seq(0..255) /\ recv_buffer \in Seq(0..255)
  /\ rpc \in {"recv", "refused", "decode", "closed"}
  /\ answers \in Seq([number : 0..255, ok : BOOLEAN])

Understood(kind) == kind.version = PROTOCOL_VERSION /\ Parses(kind.body)

(* A request of another version whose body stays in the buffer as garbage. *)
LeavesBody(kind) == kind.version # PROTOCOL_VERSION /\ kind.body # <<>>

(* However the stream is cut, and whatever garbage is in it: what is handled   *)
(* are requests RCS has sent and the host understands, in order, none twice.   *)
NothingInvented ==
  /\ \A i \in DOMAIN answers : answers[i].ok =>
       answers[i].number \in DOMAIN sent /\ Understood(sent[answers[i].number])
  /\ \A i, j \in DOMAIN answers :
       i < j /\ answers[i].ok /\ answers[j].ok => answers[i].number < answers[j].number

(* None of the first n requests leaves its body behind. *)
Clean(n) == \A i \in DOMAIN sent : i <= n => ~LeavesBody(sent[i])

(* Up to the first such garbage, the n-th answer is the answer to the n-th     *)
(* request: success if it is understood, an error if not.                      *)
AnsweredInOrder ==
  \A i \in DOMAIN answers : Clean(i - 1) =>
    i \in DOMAIN sent /\ answers[i] = [number |-> i, ok |-> Understood(sent[i])]

(* The bytes of the first n of some requests. *)
Stream(requests, n) == FlattenSeq([i \in 1..n |-> Encoded(i, requests[i])])

(* A thread that waits for more has answered every request that has arrived    *)
(* completely - unless its last answer was an error.                           *)
WaitsOnlyWhenAnswered ==
  (rpc = "recv" /\ Clean(Len(sent))) =>
    \A n \in DOMAIN sent :
      Len(Stream(sent, n)) <= Len(Stream(sent, Len(sent))) - Len(wire) => n <= Len(answers)
=============================================================================
