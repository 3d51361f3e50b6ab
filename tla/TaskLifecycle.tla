--------------------------- MODULE TaskLifecycle ---------------------------
(* What the dispatcher promises about tasks, whatever its threads do: a task   *)
(* id is accepted at most once, accepted tasks are taken in the order they     *)
(* were accepted, one at a time, and each ends exactly once - completed,       *)
(* failed, or dropped without having run.                                      *)
EXTENDS Sequences

CONSTANTS TaskId,
          None      \* not an id

VARIABLES queue,     \* accepted and not yet started, oldest first
          current,   \* the task being executed, or None
          ended      \* [TaskId -> None | "completed" | "failed" | "dropped"]

tvars == <<queue, current, ended>>

Queued(t) == \E i \in DOMAIN queue : queue[i] = t

Init ==
  /\ queue = <<>>
  /\ current = None
  /\ ended = [t \in TaskId |-> None]

Accept(t) ==
  /\ ~Queued(t) /\ current # t /\ ended[t] = None
  /\ queue' = Append(queue, t)
  /\ UNCHANGED <<current, ended>>

Start ==
  /\ current = None /\ queue # <<>>
  /\ current' = Head(queue)
  /\ queue' = Tail(queue)
  /\ UNCHANGED ended

Drop ==
  /\ current = None /\ queue # <<>>
  /\ ended' = [ended EXCEPT ![Head(queue)] = "dropped"]
  /\ queue' = Tail(queue)
  /\ UNCHANGED current

End(how) ==
  /\ current # None
  /\ ended' = [ended EXCEPT ![current] = how]
  /\ current' = None
  /\ UNCHANGED queue

Next ==
  \/ \E t \in TaskId : Accept(t)
  \/ Start
  \/ Drop
  \/ \E how \in {"completed", "failed"} : End(how)

Spec == Init /\ [][Next]_tvars
=============================================================================
