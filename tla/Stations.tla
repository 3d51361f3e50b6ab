------------------------------ MODULE Stations ------------------------------
(* The three workstations of one outbound host, the states a station goes      *)
(* through and the table that says which changes of state are legal            *)
(* (src/src/business/state_machine.py).                                        *)
EXTENDS Integers, Sequences

Station == {"A", "B", "C"}

(* The order in which every loop of the code visits the stations. *)
StationSeq == <<"A", "B", "C">>

StationState == {"IDLE", "READY", "WAITING_DELIVERY", "DELIVERED",
                 "OUTBOUND", "DONE", "ERROR"}

TransitionTable ==
  [IDLE             |-> {"READY", "ERROR"},
   READY            |-> {"WAITING_DELIVERY", "OUTBOUND", "ERROR"},
   WAITING_DELIVERY |-> {"DELIVERED", "ERROR"},
   DELIVERED        |-> {"IDLE", "ERROR"},
   OUTBOUND         |-> {"DONE", "ERROR"},
   DONE             |-> {"IDLE", "ERROR"},
   ERROR            |-> {"IDLE"}]

(* What `transition` answers: may a station in state `from` go to `target`? *)
Legal(from, target) == target \in TransitionTable[from]

(* The states of all stations after `transition(s, target)`, which leaves them  *)
(* alone when the change is not legal.                                          *)
Moved(states, s, target) ==
  IF Legal(states[s], target) THEN [states EXCEPT ![s] = target] ELSE states

(* The states only the task worker puts a station in. *)
Running  == {"WAITING_DELIVERY", "OUTBOUND"}
Finished == {"DELIVERED", "DONE"}
Busy     == Running \cup Finished
=============================================================================
