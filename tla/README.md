# Outbound host: a TLA+ verification project

The repository is the host program of an outbound station: cabinets that robots
fill with boxes and grippers empty onto a line. RCS, the fleet controller, sends it tasks over TCP; it drives one PLC
over Modbus TCP and reports boxes to a vision gate over TCP. There is one PLC
with three stations `A`, `B`, `C`; each station is a cabinet of four layers,
each layer has two front slots (1, 2) that grippers reach and two back slots
(3, 4) that a conveyor brings to the front. Six grippers serve the cabinets, two
per station.

All paths below are relative to the repository; the program is `src/src/**`.

| module | models | checked by |
|---|---|---|
| `Stations` | station states and their transition table | used by all |
| `TaskLifecycle` | abstract: what the dispatcher promises about a task | refined by `DispatchCore` |
| `DispatchCore` | RCS handlers, task tables, station states, worker thread, PLC fault callback | `core_safety`, `core_live`, `core_calm`, `core_release` |
| `DispatchCore_proofs` | theorems about `DispatchCore`, and that it implements `TaskLifecycle` | TLAPS |
| `Cabinets` | the inventory operations of `CabinetStore` | through `Planner`, `OutboundRun`, `Putaway` |
| `Planner` | the outbound planner: search, slots, batches, physical picks, checks | `planner`, `planner_order` |
| `OutboundRun` | the execution of one outbound plan against PLC and machinery | `outbound`, `stale_move` |
| `VisionGate` | the vision gate client: sender, receiver, reconnecting thread | `gate`, `stale_ack` |
| `Putaway` | the run of one putaway task against robot, conveyors and sensors | `putaway` |
| `RcsFraming` | one RCS connection: frames in a byte stream, decoding, answers | `framing` |
| `OutboundRun_proofs`, `Planner_proofs`, `VisionGate_proofs`, `Putaway_proofs`, `RcsFraming_proofs` | theorems about these modules | TLAPS |
| `OutboundBoxes_proofs` | theorems about the boxes of `OutboundRun`: inventory, cabinets, line | TLAPS |
| `SequenceFacts` | lemmas about the library's sequence operators | TLAPS |
| `MC*` | constants and small instances for TLC | |

## 1. Inventory

### Components

**Station state machine** (`business/state_machine.py`). State: one
`StationState` per station. Operations: `transition` (moves a station if
`_TRANSITION_TABLE` allows it, answers whether it did), `can_transition`,
`check_plc_faults` (callback of the polling thread: emergency stop puts all
stations in `ERROR`, a station fault that station). Called by every thread under
a lock. *Correct when* a station is busy only in the run of a task that owns it,
an error is never lost, and a run disturbed by a fault is not called completed.

**Task tables** (`business/task_manager.py`). State: the queue `_pending`, the
ids ever seen `_known_task_ids`, the running tasks `_task`, `_last_completed`,
and status and retry count of each task. Operations: add to the queue, remove
from it by id, start, complete, fail, report. *Correct when* an id is accepted
once, the queue is worked off in order, each accepted task ends once, and the
status port reports the task being worked on.

**RCS request handling** (`business/request_handle.py`, reached from
`communication/rcs_sever.py`). One thread per connection. A dispatch checks that
the id is new, asks `transition(sid, READY)` for each station concerned, queues
the task and answers. A clear-abnormal asks `transition(sid, IDLE)`. A status
request reports. *Hard*: check and insertion are two critical sections; the
answers of the transitions are not looked at.

**Task worker** (`business/task_processing.py`, `_check_pending_loop`). One
thread: takes the head of the queue, plans (outbound) or goes straight on
(putaway), dequeues by id, marks it running, moves the stations, executes, moves
the stations on, completes, and after two seconds releases the stations; any
exception fails the task and its stations. *Hard*: everything it reads may be
changed by the other threads between two of its steps.

**Outbound plan execution** (`_execute_plan` and what it calls, with
`communication/plc_service.py`). For each batch of the plan: conveyor runs
backward, moves between slots, refills to the front, commands to the grippers,
wait for the batch, announcement to the vision gate, return of leftover boxes,
inventory update. *Hard*: commands are register writes, feedback is a polled
copy of registers up to one interval old; the inventory is changed on the word
of that copy. *Correct when* no command is written to a busy device, inventory
and cabinets stay in step, and no wait is for something that never happens.

**Putaway run** (`_build_putaway_placements`, `_putaway_task_processing`). Opens
a station's conveyors, waits for the sensors of each layer, writes the
inventory. *Hard*: where a box ends up depends on what else arrives on its
layer; sensors are polled; failing after the first write would leave boxes
inside that the inventory does not know. *Correct when* a box is entered only
where and when it stands, and all of a task's boxes or none.

**Cabinet inventory** (`models/containers.py`). `CabinetStore`: goods per slot,
capacity four, moves between front and back.

**Outbound planner** (`business/strategy.py`, `models/outbound_plan_model.py`).
A computation from inventory and packages to batches, without effect on either.
A search on a simulated inventory takes package after package and moves boxes
that are in the way; what it took is cut into batches of one box per gripper;
boxes a gripper still holds are not picked again; the plan is validated. *Hard*:
a gripper lifts the whole slot and can only drop the lowest box, so a slot
serves a package by a prefix; refills and moves found by the search must
keep their place relative to the picks through every later transformation; the
search may undo its own steps. *Correct when* no box is lost or invented,
carrying out the plan step by step is possible and gives each package its boxes
without another's in between, and commands do not overlap.

**PLC service, client, registers, status model** (`communication/plc_*.py`,
`models/plc_data_model.py`). The client polls status registers in a thread and
reconnects; the service translates commands into register writes.

**Vision gate client** (`communication/vision_gate.py`). State: connection flag,
pending sequence number, kept answer, event, receive buffer. The worker sends a
list and waits for the answer; a receiver thread parses answers; when it ends it
leaves a thread that reconnects. *Correct when* a list is reported as
acknowledged only if the gate acknowledged that list, and a lost connection
comes back.

**RCS server and framing** (`communication/rcs_sever.py`,
`rcs_sever_protocol.py`). Accepts connections, cuts the byte stream into frames,
resynchronises on a sync byte. *Correct when* each request is answered once, in
order, however TCP cuts the stream, and garbage is never taken for a request.

**Rest** (`main.py`, `config`, `utils`, `exception`, tests and simulators):
wiring, settings, logging, response records.

### How they interact

```
RCS --TCP--> connection threads --transition()--> station states <--transition()-- PLC polling thread
                 |  add_to_pending                      ^                                |
                 v                                      | transition()                   | copies registers
             task tables <---- worker thread -----------+                                v
                                  |  register writes --> PLC/machinery --> polled status (read by the worker)
                                  |  send_goods_list --> vision gate client <--TCP--> gate
                                  +--> planner, CabinetStore
```

### What is hard to test

`PROJECT.json` lists each hazard at its line. In short: two connections racing
with one id; a dispatch for busy stations; faults, and their clearing, at every
point of a run and in the two seconds after it; the head of the queue read long
before it is removed; a task that cannot be planned blocking the queue; a polled
status older than the command just written; grippers that wait for a return
command while the worker waits for the grippers; a run abandoned half way; late
answers of the vision gate, timeouts and reconnects; a planner search that does
not end; pre-actions that lose their order; framing after garbage.

## 2. The modules

### Stations, DispatchCore

A step of `DispatchCore` is one critical section: one call of `transition`
(`Moved`, guarded by `Legal`) or one method of `TaskManager`. Everything between
two such calls is interleaved with everything else.

| code | model |
|---|---|
| `StateMachine._states`, `_TRANSITION_TABLE` | `st`, `TransitionTable` |
| `TaskManager._pending`, `_known_task_ids`, `_task`, `_last_completed` | `pending`, `known`, `running`, `last_completed` |
| `QueueTask.status`, `.retry_count` | `status`, `retry_count` |
| the worker's program counter, its `queuetask`, its loop over stations | `wpc`, `job`, `wi` |
| a dispatch in progress on a connection thread | `call[c]` |
| the station visits left in `check_plc_faults` | `alarms` |
| has_task_id / READY loop / `add_to_pending` | `DispatchRequest`, `MakeStationReady`, `Enqueue` |
| clear-abnormal request | `ClearStationAbnormal` |
| `_poll_loop` and its callback | `Poll`, `RaiseFault` |
| `_check_pending_loop` | `TakeHead`, `PlanReturns`, `PlanRaises` |
| both `_..._task_processing` | `Dequeue`, `AddToRunning`, `PlacementRaises`, `StartStation`, `ExecuteReturns/Raises`, `FinishStation`, `CompleteTask`, `ReleaseStation`, `FailStation`, `FailTask` |

`disturbed` is a history variable: the stations that another thread took out of
the running state of the current run. A request names a kind (putaway of one
station, outbound of all) and an id. Requests that fail validation are answered
-1 and change nothing; they are not modelled. What a run does to the cabinets is
"it returns or it raises" here and is the subject of `OutboundRun`.

`TaskLifecycle` is the promise: an id is accepted at most once, tasks start in
the order accepted, one at a time, and each ends once - completed, failed or
dropped without having run. `DispatchCore` is shown to implement it with the
queue being `pending` (with the task that has been dequeued and not yet added to
the running table still at its head), the current task the worker's, and
`Dropped` the tasks that have left the queue without running.

### Planner

Each round of the loop in `build_package_infos` is an action, and a round takes
the first of these that is possible, as the code's `continue`s order them:

| code | model |
|---|---|
| `simulated_inventory`, `pending_packages`, `remaining_goods_by_package` | `inv`, `pending`, `remaining` |
| `package_infos`, `pending_before_*`, `forced_package_id` | `infos`, `before`, `forced` |
| `last_target_line` and its count, `single_wave_*`, `batch_group_id` | `recent`, `wave`, `group` |
| a package the front slots can serve | `SelectPackage` (`Candidates`, `choose_next_package_info`, `choose_slots_for_package`) |
| `shift_back_goods_to_front` | `ShiftBackGoods` |
| `try_build_same_package_front_blocker_info` | `TakeOwnBlocker` |
| `try_resolve_by_location_adjustment` | `AdjustLocation` |
| `build_unschedulable_message` | `Unschedulable` |
| `build_batches`, `reuse_consecutive_physical_picks`, `validate_plan` | `BuildPlan`, with operators of the same names |

The search is deterministic; what varies is the inventory and the task. Boxes
are told apart by their SKU only, as in the code, so goods are compared as bags.
`before` keeps the pre-actions in one list, in the order found; the code keeps
three, one per kind. Batches have the three lists (`backs`, `moves`,
`forwards`), and beside them `found`, a history variable with the original
order. `CarriedOut` performs a plan on the operations of `Cabinets`, with the
pre-actions in either order: `AsFound`, or `AsExecuted` - kind by kind, as the
worker does. Names of packages matter only as the last part of the sort key and
are numbers; the code files what a package still needs under its name, and the
model, which files it under the package, says the same as long as the packages of
a task are named apart (`CasesAssumption`). A slot of the inventory holds at most
four boxes (`CapacityAssumption`: `put_goods_to_slot` puts no more in). A package that asks for no boxes is
never chosen and never removed, so planning gives up on it. The checks of `validate_plan` that hold by the shape of the model
(counts of idle actions, a location's layer and gripper, numbering without
gaps) are left out.

### Cabinets, OutboundRun

`Cabinets` translates the operations of `CabinetStore` a run uses; a box is a
model value in a sequence per slot. `OutboundRun` runs one plan. The plan is a
constant record of what `strategy.py` returns; the nine plans of `MCOutboundRun`
are outputs of the real planner for nine inventories, written down by hand.
`PlansAssumption` says what a plan looks like (the dataclasses of
`outbound_plan_model.py`). The predicates above the properties - `OneBoxEach`,
`WavesKeepApart`, `SlotsInReach`, `ContinuesAWave`, `DroppedOnce` - say what the
theorems assume of the structure of plans, all of it something the planner sees
to (section 4); `MCOutboundRun` asserts them of its nine plans.

There are three actors. The *worker* goes through each batch as `_execute_batch`
and its helpers do; `pc` names the wait or write it is at. The *polling thread*
copies the state of the machinery into `polled`, at any moment. The *machinery*
is external: it is what the registers written and the waits in the code, and
`tests/plc_simulator.py`, imply - a gripper takes at most the number of boxes
asked for, drops one box per batch, goes home when it has none left and waits
with the rest until the return command; a conveyor runs when the side it fills
is empty; a command to a gripper that is not idle is lost. The PLC may count a
waiting gripper as running or not (the code's comments leave both open), and
the line sensor may miss a box. Any wait or command may fail (`Abandon`):
emergency stop, timeout, conveyor alarm, communication error, error answer of
the vision gate.

`shelf` is what really stands in the cabinets and `store` what the host
believes; the properties are about their difference. Two history variables note
what the code does not guard against; no action looks at them.

* `hasty`: a move was taken for over although no poll had come since its
  command, or a gripper that waits with leftover boxes was found idle and asked
  for a move.
* `misfit`: a step was commanded that does not fit the inventory of that moment -
  a layer backed off onto boxes, a move from an empty slot or to a full one, a
  refill to an occupied front, a pick that does not find its box in front - or
  that clears a slot a gripper holds boxes of (`BackingFits`, `MoveFits`,
  `RefillFits`, `PicksFit`). The planner does return plans with such steps
  (finding 5, and other things noticed).

`AsPlanned` is neither. The properties that fail once one of these has happened
say so in their own formula; nothing in the actions keeps them from happening,
and in the runs they do happen: every plan with a move can become hasty, and two
plans (`LadenMoverPlan`, `WaitingMoverPlan`) ask a gripper with boxes in it for a
move.

### Putaway

The worker goes through `_putaway_task_processing` from the placements on: their
room is checked (`Fits`), layers without goods are locked (`SkipLayer`), the
conveyors started, the sensors awaited, the placements written. The worker
reads the sensors one after the other, layer by layer, front before back
(`FrontThenBack`, `LookAtSensor`), and the polled copy may change between two
readings, so a look is no snapshot. That the order of the two readings matters is
what the mutant `BackThenFront` shows: the first row passes the back sensor on
its way to the front, and reading back before front would take one row for two.
External are the robot, which holds the boxes of the request row by row, and the
conveyor of each layer: it carries what stands at the back to an empty front and
takes in the next row behind it; locked layers stand still.

A request may name any layer; the code does not ask whether it is empty. On a
layer that held boxes before, the sensors are triggered before anything new
arrives, so slot by slot the inventory is then simply wrong: a box is entered
before it stands there, or in another slot than the one it stands in. Nothing in
the repository says whether RCS sends such requests, or what should happen.
`BoxesArrivedFirst` and the first half of `StoreMatchesShelf` therefore speak of
the other slots (`Restocked` names those they leave out; layers of the same
request that were empty are not left out). What holds on a restocked layer all
the same is the second half: the boxes listed for it are those that stand on it
(`OnLayer`) or still wait on the robot (`Waiting`), in whichever slots. One of
the requests run, `Restocking`, is of this kind.

### RcsFraming

Bytes are numbers and the stream is cut at every position. The header is
shortened to four bytes: sync, version, one byte for sequence number and command,
one for the length; nothing else of `decode` is abstracted, the two bytes its
resynchronisation passes over and the exception for a header cut short included.
Bodies do not contain the byte `1`, the protocol version: a control character
cannot occur in JSON. Request numbers do not contain the sync byte; a number that
does (0xAC01) could make a misread header look genuine.

### VisionGate

The sender's, receiver's and reconnecting thread's steps are the individual
assignments to shared fields, since the class has no lock around them. The
handover of an answer is cut line by line on both sides:

| code | model |
|---|---|
| set the number, clear the event, send (`vision_gate.py:168-173`) | `SendStart`, `ClearEvent`, `SendList` / `SendRefused` / `SendFails` |
| wait, forget the number, take the answer, reset it (175-185) | `Woken` / `WaitTimesOut`, `ForgetNumber`, `TakeResponse`, `ResetResponse` |
| compare the number (267-269) | `MatchAnswer`, `IgnoreAnswer` |
| a body that is no JSON object raises (271) | `AnswerUnreadable` |
| keep the answer, set the event (280-285) | `KeepResponse`, `NotifySender` |

so a wait may time out and the next list begin between any two of the receiver's
steps, and an answer may come between any two of the sender's. The received bytes
are a sequence of items: an answer, a malformed piece, a piece with a wrong
protocol version; `recv` may deliver any prefix of what has arrived. Sequence
numbers wrap at `SEQ_MODULUS`. History: `accepted` (lists the gate has answered
with success), `acked` (lists reported as acknowledged, with the list whose answer
it was), `given_up` (waits that ended with no answer), `overtaken` (lists begun
while the receiver was between `MatchAnswer` and `NotifySender`), `woken` (lists
whose wait a reconnect has ended), `deafened` (a receiver has ended on an
unreadable answer).

## 3. What the runs check

| run | result | question |
|---|---|---|
| `core_safety` | holds | do queue, reports and station states stay consistent, and do tasks live as promised, under racing dispatches, faults and clears? |
| `core_live` | holds | does every accepted task end, if planning comes back, and every busy station get released in any case, however often stations fault? |
| `core_calm` | **violated** | does a queued task succeed when nothing goes wrong? |
| `core_release` | **violated** | does a station leave `ERROR` only on RCS's request? |
| `outbound` | holds | do inventory and cabinets stay in step, commands wait for devices and the line follow the plan until a step was hasty or did not fit, and does the run end? |
| `stale_move` | **violated** | do commands always wait for devices, also after a move? |
| `planner` | holds | does planning keep track of every box, do the batches carry out what was found, do packages stay together, do rounds lead to an end? |
| `planner_order` | **violated** | can an accepted plan be carried out in the worker's order? |
| `putaway` | holds | are boxes entered only where and when they stand, all or none, and does the run end? |
| `framing` | holds | is each request answered once and in order, and nothing else handled, however the stream is cut? |
| `gate` | holds | are acknowledgements right until a wait is given up, what can be wrong after that, and does the connection come back? |
| `stale_ack` | **violated** | are acknowledgements right after a timeout? |

Properties of `core_safety`: `QueueConsistent` (each id once, pending, and the
worker's task is still the head it read before planning), `ReportFollowsWorker`
(the status port), `BusyOnlyInRun` (no busy station outside the run that owns
it), `CompletedUndisturbed` (a fault raised and cleared within a run still fails
it), `LifecycleImplemented` (refinement). Of `core_live`: `BusyStationsReleased`,
and `AcceptedTasksEnd`, which has a condition: `PlanningEnds`, that the worker is
outside planning again and again. A search for a plan that circles (`CirclingCase`)
holds the worker, and every task behind it, for ever; the specification allows
that behaviour, and what the property says is that it is the only one in which an
accepted task does not end.

Of `outbound`: `StoreMatchesShelf` (whenever a command is about to be computed,
the inventory is what stands in the cabinets), `StoreLagsByOneBatch` (even after
a run was abandoned the inventory knows every box present, and lists at most one
batch's boxes too many) and `LineFollowsPlan`, these three as long as the run is
`AsPlanned`; `CommandsWaitUnlessHasty` (a command is written to a device at work
only after a move was hasty: the wait after the return of boxes, the wait before
new picks and the front sensors never are the first to fail), `NeverInconsistent`
(none of the checks the code makes of itself ever fails, for these nine plans,
hasty or not) and `RunEnds` (the run ends unless it was hasty or asks a gripper
with boxes in it for a move: such a gripper the worker waits for until the
timeout, an `Abandon` here, that nothing obliges to come).

Of `planner`: `BoxesAccountedFor` (what is simulated, what is taken and what is
still needed always add up), `CarriedOutAsFound` (with the pre-actions in the
order found, every step of an accepted plan is possible, every command finds the
boxes it was planned for and the cabinets end as the search left them),
`PackagesStayTogether`, `OneLinePerBatch`, `WavesDoNotOverlap`,
`ChoiceFindsWhatLeaves` (choosing slots greedily finds a choice whenever there is
one, provided no needed SKU stands in front twice: with a choice between two slots
it may miss one) and `RoundsProgress`. The last is an action property: each step
decreases the tuple *goods still needed; adjustments left of the bound; layers
with boxes behind* lexicographically. It says that only adjustments can go on for
ever, and is stated with the bound `MaxAdjustments` because they really can.

Of `putaway`: `BoxesArrivedFirst`, `StoreMatchesShelf` (a completed putaway
leaves the inventory equal to the cabinets, stocked layers it brings nothing to
included, and loses or doubles no box on a layer it restocks), `AllOrNothing`,
`PutawayEnds`. Of `framing`: `NothingInvented` (whatever garbage
is in the stream, what is handled was sent, in order, none twice),
`AnsweredInOrder` (up to the first garbage), `WaitsOnlyWhenAnswered` (a thread
that waits has answered every complete request, unless its last answer was an
error: then the code stops decoding and a request behind the refused one waits
for the next bytes).

Of `gate`: `AckRightUntilGivenUp` (as long as every wait has ended with an answer,
each list is acknowledged by its own, however often the connection breaks and
however numbers wrap), `NoAnswerCountsTwice` (after that, an acknowledgement still
stands for a success the gate reported for this list or an earlier one, and no
success acknowledges two lists), `AckWrongOnlyInHandover` (an answer with another
number is taken only by a list that was begun in the middle of a handover, or whose
wait a reconnect ended: the two ways of finding 4 are all there are) and
`ConnectionRestored` (unless a receiver has died of an unreadable answer).

Every property of a passing run has a mutant - a plausible bug of a mapped
definition, kept beside it in the module - under which TLC finds it violated.

### Findings

1. **A queued task fails for want of READY** (`core_calm`;
   `request_handle.py:155`). `transition(sid, READY)` is refused while the
   station is busy, its answer is ignored, the task is queued and acknowledged;
   when its turn comes `IDLE -> OUTBOUND` is illegal, the task fails and its
   stations go to `ERROR`.
2. **The release after a task clears a fault** (`core_release`;
   `task_processing.py:276`). Two seconds after completion the worker calls
   `transition(s, IDLE)`; `ERROR -> IDLE` is legal, so a fault raised meanwhile
   disappears.
3. **A move can overtake the status it waits for** (`stale_move`;
   `task_processing.py:464`). The wait after a move command reads a polled
   status that may be older than the command. The code adds a delay of 0.6 s for
   exactly this reason after the return command and lacks it here.
4. **An answer is taken for the next list's** (`stale_ack`;
   `vision_gate.py:267`). The receiver compares an answer's number with the pending
   one and only later, without a lock, keeps the answer and sets the event (280-285).
   When the wait times out in between and the next list is begun, the next list is
   given the answer of the one before. With more time to it: a late answer kept in
   `_last_response`, which sending does not clear, is returned by a wait that a
   reconnect ends (`vision_gate.py:42`).

5. **Pre-actions lose their order** (`planner_order`; `strategy.py:1088`).
   The search may refill a layer and then move a box to its front; the batch lists
   moves before refills and the worker executes them so (`task_processing.py:399`).
   The plan passes `validate_plan`, and the worker finds the front occupied that
   the refill needs empty. The inventory: `x` in A12, `a` in A14, `y` in A31,
   `b` in A33; one package of `a` and `b`.

Other things noticed while reading, not stated as runs: `task_manager.py:26`
speaks of a table that keeps completed tasks, but `complete_task` and
`fail_task` delete them (83, 95); a task given up in planning leaves its
stations `READY`, which clear-abnormal refuses; ids are never forgotten, so a
dropped task cannot be sent again under its id; clear-abnormal is accepted in
`DONE` and `DELIVERED` too; a putaway onto a level that holds boxes finds its
sensors already triggered, the situation the comment at
`task_processing.py:869` guards refills against (section 2, Putaway); the planner's search for
clearing moves can repeat itself without end (`CirclingCase` of `MCPlanner`:
`AdjustLocation` undoes itself until the bound), refuses a plan whose package was
split and then separated by another package (`strategy.py:1595`), and gives up
on the first blocked box it cannot move; a batch that goes on with boxes held in a
gripper may have refills or moves before it (`can_reuse_previous_physical_picks`
does not look, though the group barrier at `strategy.py:273` keeps
single packages from being merged across them), so a move can be asked of a
gripper that is not empty, as the real planner does for these two tasks: with
`b`, `a` in A11, `x` in A21 and `c` in A23, a package of `b` and one of `a` and
`c` - batch 2 moves `x` with gripper 1, which holds `a`; with `a` in A11, `c`,
`d` in A12, `b` in A13 and `u`, `z` in A31, a package of `c` and `u` and one of
`d` and `b` - batch 2 moves `a` with gripper 1, which waits with `z` for the end
of the wave (the wait for an idle gripper then ends in a timeout) - both plans are
among those of `outbound`; the frame decoder's resynchronisation never looks at the
second byte and can be left with fewer bytes than a header, which ends the
connection (`CloseConnection`); the registers that lock conveyors in a putaway
are never reset by the host; a poll that fails leaves the old status in place.

### Bounds

* `core_*`: two ids, two connections, three requests of which two share an id
  (so that both races - same id twice, and two ids for the same station - occur),
  one retry forgiven, fault sets: none, a station of a putaway, a station outside
  it, plus the emergency stop. More ids add queue length only: the queue already
  holds a task behind a running one. Connections are interchangeable
  (`SYMMETRY`, safety only). The liveness run uses one connection and one fault
  station, without symmetry. The proofs remove these bounds for the safety
  properties.
* `outbound`: nine plans, chosen so that each kind of batch preparation
  (backing off, one move, two moves with one gripper, moves with two grippers,
  a planned refill, a refill between batches, a move while another gripper waits
  with leftover boxes, a move asked of a gripper that has yet to drop a box or
  waits with leftovers) and each kind of wave (one batch,
  several batches, leftovers returned, two waves) occurs.
* `planner`: every inventory with at most two boxes in each of six slots - two
  layers of a station, one of them with both its grippers, with a slot behind
  each, and one slot of another station - that holds the goods asked for, for
  three tasks (a package that frees its own blocker, single packages of several
  lines, a gift line); and four inventories made by hand for what the corner is
  too small for: a column without a free slot, a search that circles, three
  batches in a row for one line, a package in two waves. `MaxAdjustments` is
  four; a task of the corner never needs more than two in a row.
* `putaway`: six requests: both rows of a layer beside a layer with only a back
  row and a stocked one, a slot named by two entries with and without room for
  both, no goods at all, all four layers with each combination of rows, and either
  row of a layer with a box in front beside one for an empty layer.
* `framing`: four requests of six kinds (plain, with a body, not JSON, other
  version without, with and with a misleading body): enough for garbage, a false
  sync that swallows the next header, and a request after that.
* `gate`: three lists (a late answer can meet the list after the next one),
  numbers modulo two, so that the third list has the number of the first (the
  code's 65536 as small as it can be with two numbers to confuse), one lost
  connection and one malformed piece or unreadable answer. `stale_ack` needs less:
  two lists with numbers of their own, one lost connection.

### Fairness, and assumptions about time

* The dispatching worker has weak fairness *except while it plans*: between two
  plans all its waits are bounded by timeouts and everything else runs through, but
  the loop of the planner (`strategy.py:163`) has no bound and can circle. So
  nothing makes a plan come back, and `AcceptedTasksEnd` is stated under
  `PlanningEnds`; `BusyStationsReleased` needs no such condition, since stations
  are busy only after planning. A connection thread finishes the dispatch it began
  (`MakeStationReady`, `Enqueue`).
* In the other modules the worker, polling, receiver, sender and reconnecting
  threads have weak fairness, each as a whole: whenever one of a thread's steps is
  possible for good, the thread takes one. A thread that waits has no step. The
  machinery does what it was told. Nothing obliges RCS to send, a station to fault,
  a wait to be abandoned or the gate to answer. A `connect` that is tried again and
  again succeeds at some time (strong fairness of `ConnectSucceeds`): a gate that
  is never reachable is not a fault of the client.
* Nothing is assumed about when a poll falls, with two exceptions that are about
  the machinery's time. The settle delay of 0.6 s before the wait for returned boxes
  (`Settled`) is the code's own and covers one polling interval of 0.5 s; it fails
  if polls fail. `DropBox` takes picking to last longer than one polling interval.
  After a move command the code has no such delay: the worker reads the polled
  status at once, and `hasty` only notes it when that status was old.
* `CHECK_DEADLOCK FALSE` is set in `core_calm` (all ids used, nothing to do),
  in `outbound`, `stale_move` and `putaway` (a finished or abandoned run), in
  `framing` (everything answered) and in `gate` and `stale_ack` (all lists sent,
  the gate silent): the system really rests there.

## 4. What is proved

`DispatchCore_proofs` proves, for every set of ids, requests, connections, fault
sets and every retry limit, of `Spec` (no fairness needed):

| theorem | property |
|---|---|
| `TypeCorrect` | `TypeOK` |
| `BusyOnlyInRunHolds` | `BusyOnlyInRun` |
| `CompletedUndisturbedHolds` | `CompletedUndisturbed` |
| `QueueConsistentHolds` | `QueueConsistent` |
| `ReportFollowsWorkerHolds` | `ReportFollowsWorker` |

The assumptions are those `DispatchCore` states about its constants: requests
have an id, a kind and a station; `None` is neither an id nor a request; the
retry limit is a natural number; fault sets are sets of stations. TLC evaluates
them on each run.

The argument is three inductive invariants, each relative to the one before.

* `TypeInv` adds to the types what indexing needs: loop counters stay within the
  stations of the worker's or the connection's request, the worker holds a
  request exactly when it is not at the top of its loop, and while it plans the
  request is still the head of the queue.
* `RunInv` says station by station how far the worker's loops have come: in
  `start` the stations before `wi` may be running, in `finish` those before are
  finished and those from `wi` on running, and so on. `BusyOnlyInRun` alone is
  not inductive: without the position one cannot know that the loop releasing or
  failing the stations has reached all busy ones when it ends. It also says that
  a disturbed station is not running again in the same run, because the way back
  to a running state is through `READY`, which only leads on from there in
  `start`, after the loop has passed; this is what makes `MoveOrRaise` in
  `finish` detect every disturbance.
* `TaskInv` says what the tables know about each id: queued means pending,
  the dequeued task is in no other place, the running table holds the worker's
  task in a run and nothing otherwise. That `remove_pending` searches by id and
  still takes the worker's task rests on `RemoveHead` and the uniqueness of ids.

### The dispatching core implements the life of a task

`DispatchCore_proofs` also proves `LifecycleImplementedHolds`: `Spec` implies the
safety part of `TaskLifecycle` under the mapping of section 2. Initial states map
to initial states; of the worker's steps `TakeHead` to `FailTask` each is shown
to be one abstract step or a stutter, and `Enqueue` an acceptance; the rest
leave every mapped variable alone. The steps use `TypeInv` and `TaskInv`: that
the head removed by id is the worker's task is what makes the mapped queue lose
its first element and no other.

### Vision gate client

`VisionGate_proofs`, for every number of lists, every modulus and any number of
lost connections, malformed pieces and timeouts, with nothing assumed but the
types of the constants:

| theorem | property |
|---|---|
| `TypeCorrect` | `TypeOK` |
| `AckRightUntilGivenUpHolds` | `AckRightUntilGivenUp` |
| `NoAnswerCountsTwiceHolds` | `NoAnswerCountsTwice` |
| `AckWrongOnlyInHandoverHolds` | `AckWrongOnlyInHandover` |

The argument follows lists and answers along the one way they take, from the gate
(`to_gate`) over the connection and the buffer (`Pipe`), the receiver (`msg`) and
`last_response` to the caller. On top of `TypeInv`:

* `WireInv`: they are in order on that way, and each only once - what the client has
  been through belongs to earlier lists than what is still coming, and that to
  earlier lists than what the gate has not answered - and an answer has the number
  and the result of its list.
* `OnceInv`: an answer that is still to be handed over, or kept for the sender,
  has not acknowledged anything yet. With `WireInv` this is `NoAnswerCountsTwice`.
* `CleanInv`: as long as no list before the current one has been given up, the
  only answer anywhere is the one to the current list; before that list has been
  sent, and after its answer has been taken, there is none. This gives
  `AckRightUntilGivenUp`; without it, a late reconnect that sets the event could
  hand over what was left of an earlier list.
* `MatchInv`: a pending number is that of the current list, so an answer that has
  passed the comparison is its own - unless the list was begun after the
  comparison, or is woken by a reconnect. This gives `AckWrongOnlyInHandover`.

### Putaway

`Putaway_proofs`, for every set of requests and every inventory:

| theorem | property | assumes |
|---|---|---|
| `TypeCorrect` | `TypeOK` | - |
| `BoxesArrivedFirstHolds` | `BoxesArrivedFirst` | - |
| `StoreMatchesShelfHolds` | `StoreMatchesShelf` | - |
| `AllOrNothingHolds` | `AllOrNothing` | `NewBoxes` |

`NewBoxes`: a box is brought once and is not stored already; boxes are told apart
by it, to be followed. The invariant follows each layer that was empty before from
the robot to its place (`ConveyorInv`, `PollInv`, `LookInv`): what the robot has
still to bring, what stands at the back and what at the front are always the rows
of the request in order, a sensor that has been seen stays triggered, and where
front and back were seen in this order both rows stand. On a layer that is
restocked nothing of this holds, but the conveyor still only moves boxes: `KeptInv`
says that what stands on a layer with goods and what waits on the robot for it are
together the boxes it had and those of the request. `StoreInv` says that the
inventory has the placements written so far and nothing else. `AllOrNothing`
rests on the check of the room before the first write adding up exactly the boxes
the writes put into each slot, which is a fact about folding a sequence of
placements (`SequenceFacts`).

### Outbound run

`OutboundRun_proofs`, for every set of plans - any number of batches, moves,
refills, commands and boxes:

| theorem | property | assumes |
|---|---|---|
| `TypeCorrect` | `TypeOK` | `OneBoxEach` |
| `CommandsWaitUnlessHastyHolds` | `CommandsWaitUnlessHasty` | `OneBoxEach`, `WavesKeepApart` |

`OneBoxEach` - a gripper serves a batch with one box of its own - is checked by
`validate_plan` before a plan is run. `WavesKeepApart` - from its command to its
last box a gripper serves every batch and no other command is sent - is what
`WavesDoNotOverlap` of `Planner` says, which is proved of every plan the planner
builds. Nothing is assumed of polls, or of moves: that a move may be taken for over
too early (finding 3), and may be asked of a gripper that waits with leftover boxes
(section 3, other things noticed), is in the formula as `hasty`. The theorem says
that there is no third way to write a command to a device at work.

`CommandsWaitForDevices` is not inductive: whether a gripper is idle is known only
through a poll that may be old. `TypeInv` holds throughout; `Safe` holds until the
run becomes hasty, and hasty it then stays (`HistoryStays`):

* `TypeInv`: types, and where the worker's position is within the lists of its
  batch; boxes are due only while the worker waits for them. Then `Safe`, which is:
* `CountInv`: only the grippers a batch is served by drop in it, and it is
  complete when all of them have.
* `HandInv`: each gripper that picks or holds boxes works at a command of this
  batch or an earlier one; it has dropped a box in each batch since, and keeps
  leftover boxes only while its wave goes on. Without it one could not
  know that `polled.running = {}` before new commands means idle grippers and
  not waiting ones.
* `SeenInv`: a gripper that is not idle is in the polled status, or waits with
  leftover boxes, or was told to move or return boxes after the last poll, or has
  yet to drop its box of the batch being awaited.
* `PhaseInv`: which grippers may be at work at which point of the worker's
  program.
* `FrontInv`: a front slot that is occupied is seen to be, except one a conveyor
  or gripper is filling; nothing but the worker's own commands fills one, so an
  old poll errs on one side only.

TLC was used to find these parts on the plans of `outbound` before they were proved.

`OutboundBoxes_proofs` goes on from there to the boxes, again for every set of
plans:

| theorem | property | assumes |
|---|---|---|
| `StoreMatchesShelfHolds` | `StoreMatchesShelf` | `OneBoxEach`, `WavesKeepApart`, `SlotsInReach`, `ContinuesAWave` |
| `StoreLagsByOneBatchHolds` | `StoreLagsByOneBatch` | the same |
| `LineFollowsPlanHolds` | `LineFollowsPlan` | the same and `DroppedOnce` |

What is assumed is the structure of plans, and the planner gives it to each plan it
returns:

* `SlotsInReach`, `ContinuesAWave`: grippers take from front slots, a batch
  takes from no slot twice, and a pick without a command goes on with one
  that still lasts. `choose_slots_for_package` offers front slots only, a slot
  belongs to one gripper, and `reuse_consecutive_physical_picks` clears the
  command of a pick only when the gripper holds its box.
* `DroppedOnce`, and the part of `OneBoxEach` that says the boxes of a batch
  differ: boxes are individuals here, so that they can be followed to the line,
  while the host knows only their SKU. That no box is planned twice is then
  `PackagesStayTogether` of `Planner`.

That the plan can be carried out in the worker's order, that no layer is backed off
and no slot cleared while a gripper holds boxes of it, and that the wait after a
move sees a new poll, is **not** assumed: the planner accepts plans that cannot be
carried out so (finding 5), pre-actions may stand before a batch that goes on with
held boxes, and the code lacks the delay. A run in which one of these occurs has
`hasty` or `misfit` set from that step on, and the three properties speak of the
states before. They are not the conclusion put another way: `misfit` compares a
step with the *inventory* at the moment it is commanded, and with the slots the
grippers hold boxes of; it knows nothing of what stands in the cabinets, of polls,
or of what the machinery does afterwards. The theorems say that what really stands
in the cabinets, is held, and falls on the line agrees with the inventory, whatever
the interleaving.

`NeverInconsistent` is not proved: it fails for plans the planner accepts, and what
rules those out would nearly be the property again. The run checks it for nine
plans.

The argument, on top of `TypeInv` and `Safe`:

* `FitInv`: a step that fitted when it was commanded fits as long as it is awaited,
  and what is still to be recorded of a batch (`PicksLeft`) stands at the head of
  its slots.
* `Truth` is the inventory, corrected by what the worker waits for and has not
  written down yet: the level a conveyor has run on, the slots of the move a
  gripper is carrying out, the boxes of this batch that have been dropped.
  `ShelfInv` says that this is what stands in the cabinets, boxes in a gripper
  counted to their slot, as long as the run has not been given up or stopped by a
  check of its own; `StoreMatchesShelf` is a part of it. It is inductive only
  together with what is
  in the machinery: grippers take from front slots of their own (`SlotInv`), hold
  only what they have taken (`EmptyHanded`), lift for the move the worker waits
  for (`MoveInv`), the running conveyor is the one awaited and is not seen to have
  run before it has (`BeltInv`), and at the end nothing is under way (`EndInv`).
  `BoxInv` is all of these; it holds until the run is hasty or misfit.
* After a run was given up, or stopped by a check, the worker's position says
  nothing and the machinery goes on. `GhostInv` counts the boxes: the inventory lists all that are in the
  cabinets or in a gripper, and besides only boxes of the batch being dropped.
  `DueInv` says that what the grippers still drop are boxes of that batch, so
  nothing under way can lose another one.
* `LineOrder` and `LineSet`: the line is in the order of the plan's batches, and
  holds the boxes of the batches before `b` and the dropped ones of `b`.

### Planner

`Planner_proofs`, for every inventory of the cabinets, every list of packages
named apart and every bound on adjustments:

| theorem | property | assumes |
|---|---|---|
| `TypeCorrect` | `TypeOK` | `CasesAssumption` |
| `BoxesAccountedForHolds` | `BoxesAccountedFor` | the same |
| `RoundsProgressHolds` | `RoundsProgress` | the same |
| `OneLinePerBatchHolds` | `OneLinePerBatch` | the same |
| `WavesDoNotOverlapHolds` | `WavesDoNotOverlap` | the same |
| `PackagesStayTogetherHolds` | `PackagesStayTogether` | the same |
| `ChoiceFindsWhatLeavesHolds` | `ChoiceFindsWhatLeaves` | the same and `CapacityAssumption` |

The assumption says what the planner is called with: piles of boxes in the slots,
packages that ask for boxes. The invariant is `SearchInv`, which is `TypeOK` and
`BoxesAccountedFor` together with that assumption about `packages`. `TypeOK` is
needed for the rest: a package is pending exactly while it still needs boxes (or
never asked for any), so a round serves a package that has a need.

* A round that takes boxes - `SelectPackage` or `TakeOwnBlocker` - is shown to do
  the same thing (`Takes`): an info is added whose picks are tops of different
  piles, whose boxes the package still needs and of which there is at least one.
  For `SelectPackage` that is what `choose_slots_for_package` returns, whichever
  grippers it avoids (`ChoiceServes`). It goes slot by slot, and what is still
  needed and what is planned always make up what was asked for (`Filled`, by
  induction on the slots). `FirstOf` is
  shown to choose a candidate, since the names at the end of the keys tell
  packages apart. Taking such boxes moves them from the inventory and from the
  package's needs to the infos (`ConsumeAccounts`).
* A round that moves boxes - `ShiftBackGoods` or `AdjustLocation` - permutes the
  slots that hold any (`SameBoxes`): a refill, a backward run and a move are
  each a renaming of slots (`StandingMoved`).
* For `RoundsProgress`: taking boxes leaves fewer needed, an adjustment adds one
  move to the pre-actions, a refill adds none and leaves fewer layers with boxes
  behind, and the end of planning lowers the last component.
* For `OneLinePerBatch` the invariant grows by `InfosKnown`: each info carries the
  line of its package and takes from front slots. A run is made of infos of one line, by induction on its
  length (`RunForOneLine`), so the commands of a run and the batches they fall on
  are for one line (`BatchOfCommands`); the recursion over the runs
  (`BatchesBuilt`) and the one over the batches in which picks are reused
  (`PlanKeepsOwners`) are unrolled by induction. `validate_plan` is not needed for
  it: it compares the lines of boxes at one station only.
* `WavesDoNotOverlap` is shown of every plan that is built, accepted or not. The
  waves of a run follow each other (`WavesInOrder`, `OneAfterTheOther`), so the
  batches as built are `InWaves`: all boxes of a batch go back to one command,
  and a gripper drops a box in every batch from its command on (`BuiltInWaves`,
  by induction on the runs). The reuse of picks is followed batch by batch
  (`ReuseStep`): `Waiting` says of the grippers that could go on that theirs was
  the last command and that they dropped a box in every batch up to their last,
  `Gone` that a batch that goes on sends nothing and that the drops of a command
  have no gap. `place_count` counts these drops, so without a gap it is how far
  they reach (`NoGaps`, `CountedApart`). Again `validate_plan` is not needed.
* `PackagesStayTogether` says two things of an accepted plan. That the boxes of a
  package are not interrupted is a check of `validate_plan`
  (`check_package_segments`), which looks at the packages that occur in the plan;
  that every package occurs, with exactly the boxes it asked for, no check says
  (`check_total` compares one number), and it is what the proof is about. Boxes
  are counted by the places where a box of a SKU for a package stands (`Places`,
  `Amount`). The infos of the runs are those of the search, each once
  (`RunsCoverInfos`, `RunsHaveAll`); the commands of a run have the boxes of its
  infos (`CommandBoxes`); a batch drops what its commands drop in it (`BatchDrops`),
  so the batches of a run, from its first command to its last box, drop each box of
  its commands in one batch (`RunDrops`: the box at place `j` of a command falls on
  batch `first + j - 1`, and the other way round); the plan adds up its runs
  (`BuiltDrops`, by induction). Reuse of picks and `place_count` change neither
  boxes nor owners (`PlanKeepsOwners`), so the sequence of the boxes is that of the
  batches as built (`OwnersAndItems`). With `BoxesAccountedFor` and nothing
  pending, what was taken for a package (`TakenBoxes`) is what it asked for.
* `ChoiceFindsWhatLeaves` compares the greedy choice with every other. When no box
  a package needs stands in two front slots, depths at which the boxes leave
  together must take each of these boxes from its only slot as often as it is
  needed (`LeavesSomehow`). The greedy choice goes at least as deep there
  (`NeededMost`), since when it comes to a slot nothing of what stands in it has
  been taken elsewhere (`EmptyOne`); so after all slots nothing is needed any more
  (`ChoiceFinds`). It needs that a gripper reaches every front slot with boxes, that
  is that no slot ever holds more than four: `Roomy`, an invariant of its own
  (`RoomInv`), for which each round is shown to leave every pile where it is, to
  bring it to an empty slot, or to make it shorter.

### RCS framing

`RcsFraming_proofs`, for every set of requests, at most 171 of them on the
connection, cut into pieces in any way:

| theorem | property |
|---|---|
| `TypeCorrect` | `TypeOK` |
| `NothingInventedHolds` | `NothingInvented` |
| `AnsweredInOrderHolds` | `AnsweredInOrder` |
| `WaitsOnlyWhenAnsweredHolds` | `WaitsOnlyWhenAnswered` |

The assumptions are those of `RcsFraming`: no body contains the protocol version
as a byte (JSON has no control characters), and neither a version, nor a number,
nor the length of a body equals the sync byte (the last two by their bounds, a
simplification of the model: section 2). Only `NothingInvented` owes anything to
them. The argument: `SequenceFacts` tells where the frame of each request begins
and ends in the bytes of all requests (`FramesInStream`, by induction on their
number). What the thread holds and what is on its way are windows into these
bytes (`StreamInv`). Anywhere in them decoding takes bytes off the front, and
finds a request only where a sync byte and the protocol version follow each
other, which is the start of a frame (`Genuine`): what is handled was sent, and
since it has been taken out of the buffer (`HandledInv`) it is not handled again.
As long as no body has been left behind, exactly the answered requests have been
taken out (`AlignedInv`), so decoding starts at a frame and answers that one
(`OrderInv`); and where the thread waits the next frame is incomplete. TLC checks
the whole invariant on the instance of `framing`.

### What is only model-checked, and why

* Liveness (`AcceptedTasksEnd`, `BusyStationsReleased`, `RunEnds`, `PutawayEnds`,
  `ConnectionRestored`): fairness and `ENABLED` are out of the proof system's
  reach.
* `NeverInconsistent` of `OutboundRun`: it depends on more of a plan than the
  planner ensures (see there).
* Of `Planner`, that a plan can be carried out as it was found
  (`CarriedOutAsFound`): it compares two executions, the search's and the batches',
  that take the same boxes in different orders.

## 5. What is not modelled, and why

* Of the planner: sequence numbers beyond the order they express, package and
  batch labels, box sizes, error texts.
* What a plan of `Planner` does to grippers and conveyors is not composed with
  `OutboundRun`: its nine plans are written down as data.
* Accepting sockets and several connections at the level of bytes: each has a
  buffer and a thread of its own; what they share is in `DispatchCore`.
* Validation of requests, formats of messages, addresses of registers, logging,
  configuration: no behaviour of their own.
* The PLC client's reconnection: to its callers it is a call that returns or
  raises, which is how every run models it.
* `stop()`, `VisionGateClient.close()` and `force_reset_to_idle`: shutdown is not
  part of the promises, and the last two are never called.
* Waits are not given their durations; a wait ends by its condition or is
  abandoned.

## 6. What would come next

`OutboundRun` on plans `Planner` computes, and `DispatchCore` with the outcomes of
both: today the theorems about `OutboundRun` assume of a plan what the properties
of `Planner` say, where they do, and nothing checks the two together.
