--------------------------- MODULE DispatchCore ---------------------------
(* The dispatching core of the outbound host: RCS connection threads that      *)
(* accept tasks and clear abnormal stations (business/request_handle.py), the  *)
(* task tables (business/task_manager.py), the station states                  *)
(* (business/state_machine.py), the worker thread that runs one task after the *)
(* other (business/task_processing.py) and the PLC polling thread whose        *)
(* callback puts faulty stations in ERROR.                                     *)
(*                                                                             *)
(* A step is one critical section of the code: one call of `transition` or of  *)
(* a TaskManager method.  What a run does to the cabinets is abstracted to     *)
(* "it returns" or "it raises".                                                *)
EXTENDS Stations, FiniteSets

CONSTANTS TaskId,          \* ids RCS gives its tasks
          Request,         \* the dispatch requests RCS may send
          Conn,            \* connection threads of the task port
          MAX_TASK_RETRY,  \* planning failures forgiven
          FaultSets,       \* sets of stations one poll may find faulty
          None             \* no task, no call

ASSUME RequestAssumption ==
  Request \subseteq [id : TaskId, kind : {"putaway", "outbound"}, station : Station]
ASSUME NoneAssumption == None \notin TaskId /\ None \notin Request
ASSUME RetryAssumption == MAX_TASK_RETRY \in Nat
ASSUME FaultAssumption == FaultSets \subseteq SUBSET Station

VARIABLES
  st,              \* StateMachine._states
  pending,         \* TaskManager._pending: the queue of accepted requests
  known,           \* TaskManager._known_task_ids
  running,         \* ids in TaskManager._task
  last_completed,  \* id of TaskManager._last_completed, or None
  status,          \* QueueTask.status of the accepted task of an id
  retry_count,     \* QueueTask.retry_count
  wpc,             \* where the worker thread is
  job,             \* the request the worker holds, or None
  wi,              \* next station of the worker's loop over stations
  call,            \* per connection: the dispatch being handled, or None
  alarms,          \* stations the current fault check still has to put in ERROR
  disturbed        \* history: stations another thread took out of the running
                   \* state of the current run

taskVars == <<pending, known, running, last_completed, status, retry_count>>
workerVars == <<wpc, job, wi>>
vars == <<st, taskVars, workerVars, call, alarms, disturbed>>

-----------------------------------------------------------------------------
(* Requests *)

(* Stations a request moves: its own for a putaway, all for an outbound task. *)
Targets(r) == IF r.kind = "putaway" THEN <<r.station>> ELSE StationSeq

(* Running and finished state of a station under a request of each kind. *)
RunState(r)  == IF r.kind = "putaway" THEN "WAITING_DELIVERY" ELSE "OUTBOUND"
DoneState(r) == IF r.kind = "putaway" THEN "DELIVERED" ELSE "DONE"

-----------------------------------------------------------------------------
(* TaskManager *)

(* The queue with no entry dropped: a removal that misses its task. *)
RemoveNothing(q, id) == q

(* `remove_pending`: the queue without the first entry of that id. *)
RemovePending(q, id) ==
  LET hits == {i \in DOMAIN q : q[i].id = id}
      k    == CHOOSE i \in hits : \A j \in hits : i <= j
  IN  IF hits = {} THEN q
      ELSE SubSeq(q, 1, k - 1) \o SubSeq(q, k + 1, Len(q))

(* `get_current_task_detail`: the id and status shown to RCS. *)
CurrentTaskDetail ==
  LET executing == {t \in running : status[t] = "executing"}
  IN  IF executing # {}
      THEN [id |-> CHOOSE t \in executing : TRUE, status |-> "executing"]
      ELSE IF last_completed # None
      THEN [id |-> last_completed, status |-> status[last_completed]]
      ELSE [id |-> None, status |-> "idle"]

-----------------------------------------------------------------------------
Init ==
  /\ st = [s \in Station |-> "IDLE"]
  /\ pending = <<>>
  /\ known = {}
  /\ running = {}
  /\ last_completed = None
  /\ status = [t \in TaskId |-> "unknown"]
  /\ retry_count = [t \in TaskId |-> 0]
  /\ wpc = "check" /\ job = None /\ wi = 1
  /\ call = [c \in Conn |-> None]
  /\ alarms = <<>>
  /\ disturbed = {}

-----------------------------------------------------------------------------
(* RCS connection threads.  A request that is malformed, or whose id is known  *)
(* when it arrives, is answered -1 and changes nothing.                        *)

DispatchRequest(c, r) ==
  /\ call[c] = None
  /\ r.id \notin known                               \* has_task_id
  /\ call' = [call EXCEPT ![c] = [req |-> r, next |-> 1]]
  /\ UNCHANGED <<st, taskVars, workerVars, alarms, disturbed>>

(* transition(sid, READY); its answer is not looked at. *)
MakeStationReady(c) ==
  /\ call[c] # None
  /\ call[c].next <= Len(Targets(call[c].req))
  /\ st' = Moved(st, Targets(call[c].req)[call[c].next], "READY")
  /\ call' = [call EXCEPT ![c] = [req |-> call[c].req, next |-> call[c].next + 1]]
  /\ UNCHANGED <<taskVars, workerVars, alarms, disturbed>>

(* add_to_pending that trusts the check made when the request arrived. *)
EnqueueUnchecked(c) ==
  /\ call[c] # None
  /\ call[c].next > Len(Targets(call[c].req))
  /\ LET r == call[c].req IN
       /\ known' = known \cup {r.id}
       /\ pending' = Append(pending, r)
       /\ status' = [status EXCEPT ![r.id] = "pending"]
  /\ call' = [call EXCEPT ![c] = None]
  /\ UNCHANGED <<st, running, last_completed, retry_count, workerVars,
                 alarms, disturbed>>

(* add_to_pending, and the answer: 0 when queued, -1 for an id that another    *)
(* connection queued in the meantime.                                          *)
Enqueue(c) ==
  /\ call[c] # None
  /\ call[c].next > Len(Targets(call[c].req))
  /\ LET r == call[c].req IN
       IF r.id \in known
       THEN UNCHANGED <<known, pending, status>>
       ELSE /\ known' = known \cup {r.id}
            /\ pending' = Append(pending, r)
            /\ status' = [status EXCEPT ![r.id] = "pending"]
  /\ call' = [call EXCEPT ![c] = None]
  /\ UNCHANGED <<st, running, last_completed, retry_count, workerVars,
                 alarms, disturbed>>

(* History: s leaves the running state of the current run by another thread. *)
Disturb(s) ==
  disturbed' = IF st[s] \in Running /\ st'[s] # st[s]
               THEN disturbed \cup {s} ELSE disturbed

(* NOTIFY_CLEAR_STATION_ABNORMAL_REQ: refused unless the table allows IDLE. *)
ClearStationAbnormal(c, s) ==
  /\ call[c] = None
  /\ Legal(st[s], "IDLE")
  /\ st' = Moved(st, s, "IDLE")
  /\ Disturb(s)
  /\ UNCHANGED <<taskVars, workerVars, call, alarms>>

-----------------------------------------------------------------------------
(* The PLC polling thread: one poll reads the emergency stop and the station   *)
(* faults, the callback then visits the stations one `transition` at a time.   *)

Faulted(faulty) ==
  (IF "A" \in faulty THEN <<"A">> ELSE <<>>) \o
  (IF "B" \in faulty THEN <<"B">> ELSE <<>>) \o
  (IF "C" \in faulty THEN <<"C">> ELSE <<>>)

Poll(emergency_stop, faulty) ==
  /\ alarms = <<>>
  /\ alarms' = (IF emergency_stop THEN StationSeq ELSE <<>>) \o Faulted(faulty)
  /\ UNCHANGED <<st, taskVars, workerVars, call, disturbed>>

(* One station of check_plc_faults.  Asking is_error first changes nothing:    *)
(* the table refuses ERROR -> ERROR.                                           *)
RaiseFault ==
  /\ alarms # <<>>
  /\ st' = Moved(st, Head(alarms), "ERROR")
  /\ Disturb(Head(alarms))
  /\ alarms' = Tail(alarms)
  /\ UNCHANGED <<taskVars, workerVars, call>>

-----------------------------------------------------------------------------
(* The worker thread *)

Goto(pc) == wpc' = pc /\ wi' = 1 /\ UNCHANGED job
Return   == wpc' = "check" /\ wi' = 1 /\ job' = None

(* _check_pending_loop: look at the head of the queue, leaving it there. *)
TakeHead ==
  /\ wpc = "check" /\ pending # <<>>
  /\ job' = Head(pending)
  /\ wpc' = IF Head(pending).kind = "outbound" THEN "plan" ELSE "dequeue"
  /\ wi' = 1
  /\ UNCHANGED <<st, taskVars, call, alarms, disturbed>>

(* strategy(queuetask, cabinet_store) returns a plan. *)
PlanReturns ==
  /\ wpc = "plan"
  /\ Goto("dequeue")
  /\ UNCHANGED <<st, taskVars, call, alarms, disturbed>>

(* A failing plan that forgets to count the attempt. *)
PlanRaisesUncounted ==
  /\ wpc = "plan"
  /\ Return
  /\ UNCHANGED <<st, taskVars, call, alarms, disturbed>>

(* It raises: the task stays in the queue until it has failed too often. *)
PlanRaises ==
  /\ wpc = "plan"
  /\ retry_count' = [retry_count EXCEPT ![job.id] = @ + 1]
  /\ pending' = IF retry_count'[job.id] > MAX_TASK_RETRY
                THEN RemovePending(pending, job.id) ELSE pending
  /\ Return
  /\ UNCHANGED <<st, known, running, last_completed, status, call, alarms, disturbed>>

(* remove_pending *)
Dequeue ==
  /\ wpc = "dequeue"
  /\ pending' = RemovePending(pending, job.id)
  /\ Goto("run")
  /\ UNCHANGED <<st, known, running, last_completed, status, retry_count,
                 call, alarms, disturbed>>

(* add_to_running with a status the other methods do not know. *)
AddAsRunning ==
  /\ wpc = "run"
  /\ status' = [status EXCEPT ![job.id] = "running"]
  /\ running' = running \cup {job.id}
  /\ last_completed' = None
  /\ disturbed' = {}
  /\ Goto("start")
  /\ UNCHANGED <<st, pending, known, retry_count, call, alarms>>

(* add_to_running *)
AddToRunning ==
  /\ wpc = "run"
  /\ status' = [status EXCEPT ![job.id] = "executing"]
  /\ running' = running \cup {job.id}
  /\ last_completed' = None
  /\ disturbed' = {}
  /\ Goto("start")
  /\ UNCHANGED <<st, pending, known, retry_count, call, alarms>>

(* _build_putaway_placements raises before the station has moved. *)
PlacementRaises ==
  /\ wpc = "start" /\ job.kind = "putaway"
  /\ Goto("fail")
  /\ UNCHANGED <<st, taskVars, call, alarms, disturbed>>

WorkerStation == Targets(job)[wi]

(* The worker's loops: the next station, or `after` once all are visited. *)
NextStation(after) ==
  IF wi < Len(Targets(job))
  THEN wi' = wi + 1 /\ UNCHANGED <<wpc, job>>
  ELSE Goto(after)

(* A loop of _transition_or_raise to `target`, with the answer ignored. *)
MoveUnchecked(target, after) ==
  /\ st' = Moved(st, WorkerStation, target)
  /\ NextStation(after)

(* One turn of a loop of _transition_or_raise to `target`. *)
MoveOrRaise(target, after) ==
  IF Legal(st[WorkerStation], target)
  THEN st' = Moved(st, WorkerStation, target) /\ NextStation(after)
  ELSE UNCHANGED st /\ Goto("fail")

StartStation ==
  /\ wpc = "start"
  /\ MoveOrRaise(RunState(job), "execute")
  /\ UNCHANGED <<taskVars, call, alarms, disturbed>>

(* The body of the run: every wait in it has a timeout, so it ends. *)
ExecuteReturns ==
  /\ wpc = "execute"
  /\ Goto("finish")
  /\ UNCHANGED <<st, taskVars, call, alarms, disturbed>>

ExecuteRaises ==
  /\ wpc = "execute"
  /\ Goto("fail")
  /\ UNCHANGED <<st, taskVars, call, alarms, disturbed>>

FinishStation ==
  /\ wpc = "finish"
  /\ MoveOrRaise(DoneState(job), "complete")
  /\ UNCHANGED <<taskVars, call, alarms, disturbed>>

(* complete_task that leaves the task in the table. *)
CompleteKeepsEntry ==
  /\ wpc = "complete"
  /\ status' = [status EXCEPT ![job.id] = "completed"]
  /\ last_completed' = job.id
  /\ Goto("release")
  /\ UNCHANGED <<st, pending, known, running, retry_count, call, alarms, disturbed>>

(* complete_task *)
CompleteTask ==
  /\ wpc = "complete"
  /\ status' = [status EXCEPT ![job.id] = "completed"]
  /\ last_completed' = job.id
  /\ running' = running \ {job.id}
  /\ Goto("release")
  /\ UNCHANGED <<st, pending, known, retry_count, call, alarms, disturbed>>

(* After two seconds: transition(s, IDLE), its answer not looked at. *)
ReleaseStation ==
  /\ wpc = "release"
  /\ st' = Moved(st, WorkerStation, "IDLE")
  /\ IF wi < Len(Targets(job))
     THEN wi' = wi + 1 /\ UNCHANGED <<wpc, job>>
     ELSE Return
  /\ UNCHANGED <<taskVars, call, alarms, disturbed>>

(* _fail_running_task that forgets the stations. *)
FailSkipsStations ==
  /\ wpc = "fail"
  /\ Goto("failtask")
  /\ UNCHANGED <<st, taskVars, call, alarms, disturbed>>

(* _fail_running_task: transition(s, ERROR) for the stations of the task... *)
FailStation ==
  /\ wpc = "fail"
  /\ st' = Moved(st, WorkerStation, "ERROR")
  /\ NextStation("failtask")
  /\ UNCHANGED <<taskVars, call, alarms, disturbed>>

(* ...then fail_task. *)
FailTask ==
  /\ wpc = "failtask"
  /\ status' = [status EXCEPT ![job.id] = "failed"]
  /\ last_completed' = job.id
  /\ running' = running \ {job.id}
  /\ Return
  /\ UNCHANGED <<st, pending, known, retry_count, call, alarms, disturbed>>

-----------------------------------------------------------------------------
Handler(c) ==
  \/ \E r \in Request : DispatchRequest(c, r)
  \/ MakeStationReady(c)
  \/ Enqueue(c)
  \/ \E s \in Station : ClearStationAbnormal(c, s)

Worker ==
  \/ TakeHead \/ PlanReturns \/ PlanRaises \/ Dequeue \/ AddToRunning
  \/ PlacementRaises \/ StartStation \/ ExecuteReturns \/ ExecuteRaises
  \/ FinishStation \/ CompleteTask \/ ReleaseStation \/ FailStation \/ FailTask

PlcPolling ==
  \/ \E emergency_stop \in BOOLEAN, faulty \in FaultSets :
       Poll(emergency_stop, faulty)
  \/ RaiseFault

Next == (\E c \in Conn : Handler(c)) \/ Worker \/ PlcPolling

(* The worker is a thread that never stops, and each of its waits has a        *)
(* timeout; planning is the one step that may take for ever, since the search  *)
(* for a plan loops without a bound (strategy.py).  A handler that accepted a  *)
(* request finishes it.  Nothing obliges RCS to send or the PLC to fail.       *)
Fairness ==
  /\ WF_vars(Worker /\ wpc # "plan")
  /\ \A c \in Conn : WF_vars(MakeStationReady(c)) /\ WF_vars(Enqueue(c))

Spec == Init /\ [][Next]_vars
LiveSpec == Spec /\ Fairness

-----------------------------------------------------------------------------
(* Properties *)

Call == {None} \cup [req : Request, next : 1..4]

TypeOK ==
  /\ st \in [Station -> StationState]
  /\ pending \in Seq(Request)
  /\ known \subseteq TaskId
  /\ running \subseteq TaskId
  /\ last_completed \in TaskId \cup {None}
  /\ status \in [TaskId -> {"unknown", "pending", "executing", "completed", "failed"}]
  /\ retry_count \in [TaskId -> Nat]
  /\ wpc \in {"check", "plan", "dequeue", "run", "start", "execute", "finish",
             "complete", "release", "fail", "failtask"}
  /\ job \in Request \cup {None}
  /\ wi \in 1..3
  /\ call \in [Conn -> Call]
  /\ alarms \in Seq(Station)
  /\ disturbed \subseteq Station

InRun == wpc \in {"start", "execute", "finish", "complete", "fail", "failtask"}

(* The queue holds each accepted task at most once, none of them started, and  *)
(* the request the worker is planning or about to dequeue is still its head:   *)
(* remove_pending, which searches by id, takes the task the worker holds.      *)
QueueConsistent ==
  /\ \A i, j \in DOMAIN pending : pending[i].id = pending[j].id => i = j
  /\ \A i \in DOMAIN pending :
       pending[i].id \in known /\ status[pending[i].id] = "pending"
  /\ wpc \in {"plan", "dequeue"} => pending # <<>> /\ Head(pending) = job

(* The task table holds the worker's task during its run and nothing at any    *)
(* other time, so the status port reports that task, and after the run the     *)
(* task that ended last.                                                       *)
ReportFollowsWorker ==
  /\ running = IF InRun THEN {job.id} ELSE {}
  /\ InRun => CurrentTaskDetail = [id |-> job.id, status |-> "executing"]
  /\ (~InRun /\ last_completed # None) =>
       CurrentTaskDetail.status \in {"completed", "failed"}

(* A station is in a running or finished state only while the worker is in the *)
(* run of a task that owns the station: no fault, clear-abnormal, dispatch or  *)
(* failure leaves a station busy behind the worker's back.                     *)
BusyOnlyInRun ==
  \A s \in Station : st[s] \in Busy =>
    /\ wpc \in {"start", "execute", "finish", "complete", "release", "fail"}
    /\ \E i \in DOMAIN Targets(job) : Targets(job)[i] = s

(* A task is completed only if no thread took one of its stations out of the   *)
(* running state during the run, however briefly: a fault that was cleared     *)
(* again still fails the task.                                                 *)
CompletedUndisturbed ==
  wpc = "complete" =>
    \A i \in DOMAIN Targets(job) : Targets(job)[i] \notin disturbed

(* The dispatcher implements the life of tasks it promises to RCS. *)
Dropped(t) ==
  /\ t \in known /\ status[t] = "pending"
  /\ \A i \in DOMAIN pending : pending[i].id # t
  /\ ~(wpc = "run" /\ job.id = t)

PendingIds == [i \in DOMAIN pending |-> pending[i].id]

Waiting   == IF wpc = "run" THEN <<job.id>> \o PendingIds ELSE PendingIds
Executing == IF InRun THEN job.id ELSE None
Outcome   == [t \in TaskId |->
                IF status[t] \in {"completed", "failed"} THEN status[t]
                ELSE IF Dropped(t) THEN "dropped" ELSE None]

Tasks == INSTANCE TaskLifecycle WITH
  queue <- Waiting, current <- Executing, ended <- Outcome

LifecycleImplemented == Tasks!Spec

(* No plan is searched for for ever. *)
PlanningEnds == []<>(wpc # "plan")

(* As long as no search for a plan goes on for ever, every task RCS was told   *)
(* is accepted ends, or is dropped from the queue, no matter how often plans   *)
(* fail and stations fault meanwhile.                                          *)
AcceptedTasksEnd ==
  PlanningEnds =>
    \A t \in TaskId :
      t \in known ~> (status[t] \in {"completed", "failed"} \/ Dropped(t))

(* A station that a run has made busy is given back. *)
BusyStationsReleased ==
  \A s \in Station : st[s] \in Busy ~> st[s] \notin Busy

(* With no fault, no failing plan and no failing run, a task that was accepted  *)
(* into the queue is executed when its turn comes: it does not fail.           *)
NoCalmFailure == \A t \in TaskId : status[t] # "failed"

(* A station leaves ERROR only on RCS's request to clear it, never because the *)
(* worker gives back the stations of a run that was already completed.         *)
ErrorLeftOnlyOnRequest ==
  [][\A s \in Station : st[s] = "ERROR" /\ st'[s] # "ERROR" => UNCHANGED workerVars]_vars
=============================================================================
