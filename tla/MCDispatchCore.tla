--------------------------- MODULE MCDispatchCore ---------------------------
(* Small instances of DispatchCore for TLC. *)
EXTENDS DispatchCore, TLC

CONSTANTS t1, t2, c1, c2

(* Two ids, and a second request that reuses one of them for another station. *)
MCRequest == {[id |-> t1, kind |-> "outbound", station |-> "A"],
              [id |-> t1, kind |-> "putaway", station |-> "B"],
              [id |-> t2, kind |-> "putaway", station |-> "A"]}

(* A station of a putaway, one outside it, or none; the emergency stop, which  *)
(* concerns all three, is chosen beside it.                                    *)
MCFaultSets == {{}, {"A"}, {"C"}}

(* For the liveness run: one request of each kind, faults of one station. *)
MCLiveRequest == {[id |-> t1, kind |-> "outbound", station |-> "A"],
                  [id |-> t2, kind |-> "putaway", station |-> "A"]}
MCLiveFaultSets == {{}, {"A"}}

Symmetry == Permutations({c1, c2})

(* The same system on a day when nothing goes wrong: no fault, every plan and  *)
(* every run returns.                                                          *)
CalmNext ==
  \/ \E c \in Conn : \/ \E r \in Request : DispatchRequest(c, r)
                     \/ MakeStationReady(c)
                     \/ Enqueue(c)
  \/ TakeHead \/ PlanReturns \/ Dequeue \/ AddToRunning
  \/ StartStation \/ ExecuteReturns \/ FinishStation
  \/ CompleteTask \/ ReleaseStation \/ FailStation \/ FailTask

CalmSpec == Init /\ [][CalmNext]_vars
=============================================================================
