---------------------------- MODULE OutboundRun ----------------------------
(* One run of an outbound plan (_execute_plan, business/task_processing.py):   *)
(* the worker thread that commands the PLC and keeps the inventory, the        *)
(* polling thread that copies the PLC's status registers, and the machinery    *)
(* itself - grippers, conveyors, line sensor - which is external and modelled  *)
(* from the registers the host writes and waits for (plc_service.py) and from  *)
(* tests/plc_simulator.py.                                                     *)
EXTENDS Cabinets, FiniteSets

CONSTANT Plans   \* [inventory, batches] records the planner returns

Gripper == 1..6

(* The steps of a batch, each kind in a list of its own.  A pick says what the *)
(* gripper takes, how many of these boxes it drops in all, and which one in    *)
(* this batch; it is sent as a command unless the gripper holds the boxes.     *)
PickStep   == [g : Gripper, loc : Location, picked : Seq(Sku), place : Nat,
               items : Seq(Sku), send : BOOLEAN]
MoveStep   == [g : Gripper, from : Location, to : Location, goods : Seq(Sku)]
RefillStep == [level : Level, moved : {<<>>} \cup (Seq(Sku) \X Seq(Sku))]
BatchPlan  == [backs : Seq(Level), moves : Seq(MoveStep), forwards : Seq(RefillStep),
               picks : Seq(PickStep)]

ASSUME PlansAssumption ==
  \A p \in Plans :
    /\ p \in [inventory : [Location -> Seq(Sku)], batches : Seq(BatchPlan)]
    /\ \A loc \in Location : Len(p.inventory[loc]) <= SLOT_CAPACITY

VARIABLES
  plan,      \* the outbound plan
  store,     \* CabinetStore: the inventory of the host
  pc,        \* where the worker is
  b, k,      \* current batch, current element of the list it goes through
  refills,   \* conveyor refills still to execute before the batch
  told,      \* boxes announced to the vision gate
  shelf,     \* boxes that really stand in each slot
  arm,       \* what each gripper is doing
  task,      \* the parameters of its last command
  held,      \* the boxes in it
  belt,      \* the conveyor run commanded and not yet done, or NoRun
  due,       \* D63: boxes this batch has to drop on the line
  dropped,   \* grippers that have dropped theirs
  complete,  \* D64: the batch is complete
  photo,     \* D65: boxes the line sensor has counted
  line,      \* boxes on the line, in order
  polled,    \* PLCStatusData: the status registers as last polled
  fresh,     \* has a poll been made since the last command that cleared this?
  hasty,     \* history: has a move been taken for over with no poll since its
             \* command, or a gripper that waits with boxes been asked for one?
  misfit     \* history: has a step been commanded that did not fit the inventory
             \* (BackingFits, MoveFits, RefillFits, PicksFit)?

history   == <<hasty, misfit>>
hostVars  == <<store, pc, b, k, refills, told, history>>
armVars   == <<shelf, arm, task, held>>
lineVars  == <<due, dropped, complete, photo, line>>
pollVars  == <<polled, fresh>>
vars == <<plan, hostVars, armVars, belt, lineVars, pollVars>>

NoRun == [way |-> "none", level |-> <<"A", 1>>]

-----------------------------------------------------------------------------
(* The plan *)

Batch == plan.batches[b]

Commands(batch) ==
  FlattenSeq([i \in DOMAIN batch.picks |->
    IF batch.picks[i].send THEN <<batch.picks[i]>> ELSE <<>>])
Continues(batch) == \E i \in DOMAIN batch.picks : ~batch.picks[i].send

Items(batch) == UNION {ToSet(batch.picks[i].items) : i \in DOMAIN batch.picks}
OutboundCount(batch) == Cardinality(Items(batch))

(* One batch too many. *)
WaveEndLate(i) ==
  LET places == {c.place : c \in ToSet(Commands(plan.batches[i]))}
  IN  i + Max(places)

(* The batch after which a wave's leftover boxes go back to the cabinets: the  *)
(* last one of the wave, if the wave has leftovers.                            *)
WaveEnd(i) ==
  LET places == {c.place : c \in ToSet(Commands(plan.batches[i]))}
  IN  i + Max(places) - 1

HasLeftovers(i) == \E c \in ToSet(Commands(plan.batches[i])) : Len(c.picked) > c.place

ReturnsAfter == {WaveEnd(i) : i \in {j \in DOMAIN plan.batches : HasLeftovers(j)}}

-----------------------------------------------------------------------------
Still(g) == arm[g] = "idle"

(* A gripper that has dropped what it had to and waits with the rest. *)
Waiting == {g \in Gripper : arm[g] = "holding" /\ task[g].left = 0 /\ held[g] # <<>>}

Init ==
  /\ plan \in Plans
  /\ store = plan.inventory /\ shelf = plan.inventory
  /\ pc = "backward" /\ b = 1 /\ k = 1
  /\ refills = <<>> /\ told = {}
  /\ arm = [g \in Gripper |-> "idle"]
  /\ task = [g \in Gripper |-> [left |-> 0]]
  /\ held = [g \in Gripper |-> <<>>]
  /\ belt = NoRun
  /\ due = 0 /\ dropped = {} /\ complete = FALSE /\ photo = 0 /\ line = <<>>
  /\ polled = [running |-> {},
               front |-> {l \in Level : ~FrontEmpty(shelf, l)},
               back  |-> {l \in Level : ~BackEmpty(shelf, l)}]
  /\ fresh = FALSE /\ hasty = FALSE /\ misfit = FALSE

(* What the steps of a plan were made for, and nothing looks at when they are  *)
(* commanded: a layer is backed off onto an empty back, a move finds boxes to  *)
(* move and an empty slot, a refill an empty front, a pick the box it is       *)
(* planned to drop in front; and no gripper has boxes of a slot that is        *)
(* cleared.                                                                    *)
HasBoxes(g) == arm[g] = "picking" \/ (arm[g] \in {"holding", "returning"} /\ held[g] # <<>>)

BackingFits(level) ==
  /\ BackEmpty(store, level)
  /\ \A g \in Gripper : HasBoxes(g) => LevelOf(task[g].loc) # level

MoveFits(move) ==
  /\ CanMove(store, move.from, move.to)
  /\ \A g \in Gripper : HasBoxes(g) => task[g].loc # move.from

RefillFits(level) == FrontEmpty(store, level)

PicksFit(batch) ==
  \A i \in DOMAIN batch.picks :
    LET pick == batch.picks[i] slot == store[pick.loc]
    IN  slot # <<>> /\ pick.items = <<Head(slot)>>

-----------------------------------------------------------------------------
(* The worker *)

(* Counting list elements from 0, as the code's language does. *)
GotoZero(next) == pc' = next /\ k' = 0

Goto(next) == pc' = next /\ k' = 1
Stay == UNCHANGED <<armVars, belt, lineVars, pollVars, plan>>

(* The lists of a batch are gone through in this order. *)
BackwardsDone ==
  /\ pc = "backward" /\ b <= Len(plan.batches) /\ k > Len(Batch.backs)
  /\ Goto("move")
  /\ Stay /\ UNCHANGED <<store, b, refills, told, history>>

MovesDone ==
  /\ pc = "move" /\ k > Len(Batch.moves)
  /\ refills' = Batch.forwards
  /\ Goto("refill")
  /\ Stay /\ UNCHANGED <<store, b, told, history>>

(* _execute_batch_before_backwards *)
CommandBackward ==
  /\ pc = "backward" /\ b <= Len(plan.batches) /\ k <= Len(Batch.backs)
  /\ belt' = [way |-> "backward", level |-> Batch.backs[k]]
  /\ pc' = "await_backward"
  /\ misfit' = (misfit \/ ~BackingFits(Batch.backs[k]))
  /\ UNCHANGED <<plan, store, b, k, refills, told, hasty, armVars, lineVars, pollVars>>

(* Going on without waiting for the conveyor. *)
BackwardNotAwaited ==
  /\ pc = "await_backward"
  /\ store' = FrontToBack(store, Batch.backs[k])
  /\ pc' = "backward" /\ k' = k + 1
  /\ Stay /\ UNCHANGED <<b, refills, told, history>>

BackwardComplete ==
  /\ pc = "await_backward"
  /\ Batch.backs[k] \in polled.back
  /\ IF BackEmpty(store, Batch.backs[k])
     THEN /\ store' = FrontToBack(store, Batch.backs[k])
          /\ pc' = "backward" /\ k' = k + 1
     ELSE pc' = "inconsistent" /\ UNCHANGED <<store, k>>
  /\ Stay /\ UNCHANGED <<b, refills, told, history>>

(* _execute_batch_before_moves: wait for the gripper, command it, wait again,  *)
(* then move the boxes in the inventory.  Both waits read the status as it was *)
(* polled last, be that before the command: nothing here makes the worker wait *)
(* for a poll, and hasty only notes that it did not.                           *)
Move == Batch.moves[k]

MoveGripperIdle ==
  /\ pc = "move" /\ k <= Len(Batch.moves)
  /\ Move.g \notin polled.running
  /\ pc' = "command_move"
  /\ hasty' = (hasty \/ Move.g \in Waiting)
  /\ Stay /\ UNCHANGED <<store, b, k, refills, told, misfit>>

CommandMove ==
  /\ pc = "command_move"
  /\ IF Still(Move.g)
     THEN /\ arm' = [arm EXCEPT ![Move.g] = "lifting"]
          /\ task' = [task EXCEPT ![Move.g] =
                        [from |-> Move.from, to |-> Move.to, left |-> 0]]
     ELSE UNCHANGED <<arm, task>>
  /\ fresh' = FALSE
  /\ pc' = "await_move"
  /\ misfit' = (misfit \/ ~MoveFits(Move))
  /\ UNCHANGED <<plan, store, b, k, refills, told, hasty, shelf, held, belt,
                 lineVars, polled>>

MoveNotRecorded ==
  /\ pc = "await_move"
  /\ Move.g \notin polled.running
  /\ pc' = "move" /\ k' = k + 1
  /\ hasty' = (hasty \/ ~fresh)
  /\ Stay /\ UNCHANGED <<store, b, refills, told, misfit>>

MoveComplete ==
  /\ pc = "await_move"
  /\ Move.g \notin polled.running
  /\ IF CanMove(store, Move.from, Move.to) /\ store[Move.from] = Move.goods
     THEN /\ store' = MoveGoods(store, Move.from, Move.to)
          /\ pc' = "move" /\ k' = k + 1
     ELSE pc' = "inconsistent" /\ UNCHANGED <<store, k>>
  /\ hasty' = (hasty \/ ~fresh)
  /\ Stay /\ UNCHANGED <<b, refills, told, misfit>>

(* _execute_required_front_refill_before_batch: levels whose front the plan    *)
(* wants to pick from and whose boxes still stand behind it.                   *)
RequiredRefills ==
  {LevelOf(p.loc) : p \in
     {q \in ToSet(Commands(Batch)) :
        /\ IsFront(q.loc) /\ store[q.loc] # q.picked
        /\ store[BackOf(q.loc)] = q.picked /\ FrontEmpty(store, LevelOf(q.loc))}}

RefillsDone ==
  /\ pc = "refill" /\ refills = <<>>
  /\ IF RequiredRefills = {}
     THEN Goto("batch") /\ UNCHANGED refills
     ELSE /\ refills' = SetToSeq({[level |-> l, moved |-> <<>>] : l \in RequiredRefills})
          /\ UNCHANGED <<pc, k>>
  /\ Stay /\ UNCHANGED <<store, b, told, history>>

(* _execute_front_refill: the front sensor must be clear, or the boxes that    *)
(* are still there would be taken for the ones the conveyor brings.            *)
FrontClear ==
  /\ pc = "refill" /\ refills # <<>>
  /\ Head(refills).level \notin polled.front
  /\ pc' = "command_forward"
  /\ Stay /\ UNCHANGED <<store, b, k, refills, told, history>>

CommandForward ==
  /\ pc = "command_forward"
  /\ belt' = [way |-> "forward", level |-> Head(refills).level]
  /\ pc' = "await_forward"
  /\ misfit' = (misfit \/ ~RefillFits(Head(refills).level))
  /\ UNCHANGED <<plan, store, b, k, refills, told, hasty, armVars, lineVars, pollVars>>

(* The boxes moved must be the ones planned; a required refill moves any. *)
RefillAsPlanned ==
  LET level == Head(refills).level
      moved == <<store[Slot(level, 3)], store[Slot(level, 4)]>>
  IN  IF Head(refills).moved = <<>> THEN moved # <<<<>>, <<>>>>
      ELSE moved = Head(refills).moved

ForwardComplete ==
  /\ pc = "await_forward"
  /\ Head(refills).level \in polled.front
  /\ IF FrontEmpty(store, Head(refills).level) /\ RefillAsPlanned
     THEN /\ store' = BackToFront(store, Head(refills).level)
          /\ refills' = Tail(refills)
          /\ pc' = "refill"
     ELSE pc' = "inconsistent" /\ UNCHANGED <<store, refills>>
  /\ Stay /\ UNCHANGED <<b, k, told, history>>

-----------------------------------------------------------------------------
(* The worker: _execute_batch.  New commands wait until all grippers are idle; *)
(* a batch that only continues a wave just tells the PLC its count.  A batch   *)
(* must do one or the other; one that drops nothing is skipped.                *)

StartBatch ==
  /\ pc = "batch"
  /\ LET new == Commands(Batch) # <<>> IN
       IF OutboundCount(Batch) = 0 /\ ~(new /\ Continues(Batch))
       THEN b' = b + 1 /\ Goto("backward")
       ELSE /\ pc' = IF new = Continues(Batch) THEN "inconsistent"
                     ELSE IF new THEN "await_idle" ELSE "clear"
            /\ UNCHANGED <<b, k>>
  /\ misfit' = (misfit \/ ~PicksFit(Batch))
  /\ Stay /\ UNCHANGED <<store, refills, told, hasty>>

AllGrippersIdle ==
  /\ pc = "await_idle"
  /\ polled.running = {}
  /\ pc' = "clear"
  /\ Stay /\ UNCHANGED <<store, b, k, refills, told, history>>

(* clear_outbound_complete *)
ClearOutboundComplete ==
  /\ pc = "clear"
  /\ complete' = FALSE /\ photo' = 0
  /\ pc' = "count"
  /\ UNCHANGED <<plan, store, b, k, refills, told, history, armVars, belt, due, dropped,
                 line, pollVars>>

(* The count of the batch, after the parameters of its commands if it has any. *)
WriteBatchCount ==
  /\ pc = "count"
  /\ due' = OutboundCount(Batch) /\ dropped' = {}
  /\ Goto(IF Commands(Batch) # <<>> THEN "trigger" ELSE "await_complete")
  /\ UNCHANGED <<plan, store, b, refills, told, history, armVars, belt, complete, photo,
                 line, pollVars>>

(* The write of one layer register sets one gripper off. *)
TriggerGripper ==
  /\ pc = "trigger"
  /\ LET c == Commands(Batch)[k] IN
       IF Still(c.g)
       THEN /\ arm' = [arm EXCEPT ![c.g] = "picking"]
            /\ task' = [task EXCEPT ![c.g] =
                          [loc |-> c.loc, count |-> Len(c.picked), left |-> c.place]]
       ELSE UNCHANGED <<arm, task>>
  /\ IF k < Len(Commands(Batch))
     THEN k' = k + 1 /\ UNCHANGED pc
     ELSE Goto("await_complete")
  /\ UNCHANGED <<plan, store, b, refills, told, history, shelf, held, belt, lineVars,
                 pollVars>>

(* Going on without waiting for the line. *)
BatchNotAwaited ==
  /\ pc = "await_complete"
  /\ pc' = "announce"
  /\ Stay /\ UNCHANGED <<store, b, k, refills, told, history>>

(* D64 and D65 are read from the PLC itself, not from the polled copy. *)
BatchComplete ==
  /\ pc = "await_complete" /\ complete
  /\ pc' = IF photo = OutboundCount(Batch) THEN "announce" ELSE "failed"
  /\ Stay /\ UNCHANGED <<store, b, k, refills, told, history>>

(* _send_batch_to_vision_gate, acknowledged. *)
Announce ==
  /\ pc = "announce"
  /\ told' = told \cup Items(Batch)
  /\ pc' = IF b \in ReturnsAfter THEN "return" ELSE "store"
  /\ Stay /\ UNCHANGED <<store, b, k, refills, history>>

(* command_return_remaining_boxes, then the delay of 0.6 s that covers one     *)
(* polling interval, then the wait for all grippers.                           *)
CommandReturn ==
  /\ pc = "return"
  /\ arm' = [g \in Gripper |-> IF g \in Waiting THEN "returning" ELSE arm[g]]
  /\ fresh' = FALSE
  /\ pc' = "settle"
  /\ UNCHANGED <<plan, store, b, k, refills, told, history, shelf, task, held, belt,
                 lineVars, polled>>

SkipSettle ==
  /\ pc = "settle"
  /\ pc' = "await_return"
  /\ Stay /\ UNCHANGED <<store, b, k, refills, told, history>>

Settled ==
  /\ pc = "settle" /\ fresh
  /\ pc' = "await_return"
  /\ Stay /\ UNCHANGED <<store, b, k, refills, told, history>>

ReturnComplete ==
  /\ pc = "await_return"
  /\ polled.running = {}
  /\ pc' = "store"
  /\ Stay /\ UNCHANGED <<store, b, k, refills, told, history>>

(* Removing everything the gripper picked, not only what it dropped. *)
UpdateStorePicked ==
  /\ pc = "store"
  /\ LET p == Batch.picks[k] IN
       /\ store' = RemoveGoods(store, p.loc, p.picked)
       /\ IF k < Len(Batch.picks)
          THEN k' = k + 1 /\ UNCHANGED <<pc, b>>
          ELSE b' = b + 1 /\ Goto("backward")
  /\ Stay /\ UNCHANGED <<refills, told, history>>

(* _update_cabinet_store_after_batch, one action of the batch after the other. *)
UpdateStore ==
  /\ pc = "store"
  /\ LET p == Batch.picks[k] IN
       IF RemovedAll(store, p.loc, p.items)
       THEN /\ store' = RemoveGoods(store, p.loc, p.items)
            /\ IF k < Len(Batch.picks)
               THEN k' = k + 1 /\ UNCHANGED <<pc, b>>
               ELSE b' = b + 1 /\ Goto("backward")
       ELSE pc' = "inconsistent" /\ UNCHANGED <<store, b, k>>
  /\ Stay /\ UNCHANGED <<refills, told, history>>

PlanDone ==
  /\ pc = "backward" /\ b > Len(plan.batches)
  /\ Goto("done")
  /\ Stay /\ UNCHANGED <<store, b, refills, told, history>>

(* Any wait may end in an emergency stop, a timeout or a conveyor alarm, any   *)
(* command in a communication error, the announcement in an error answer: the  *)
(* run is abandoned where it stands.                                           *)
Abandon ==
  /\ pc \in {"await_backward", "move", "command_move", "await_move", "refill",
             "command_forward", "await_forward", "await_idle", "clear", "count",
             "trigger", "await_complete", "announce", "return", "settle",
             "await_return"}
  /\ pc' = "failed"
  /\ Stay /\ UNCHANGED <<store, b, k, refills, told, history>>

-----------------------------------------------------------------------------
(* The machinery (external) *)

(* A gripper takes the boxes of its slot, as many as it was told. *)
PickUp(g) ==
  /\ arm[g] = "picking"
  /\ LET slot == shelf[task[g].loc]
         n == Min({task[g].count, Len(slot)})
     IN  /\ held' = [held EXCEPT ![g] = SubSeq(slot, 1, n)]
         /\ shelf' = [shelf EXCEPT ![task[g].loc] = SubSeq(slot, n + 1, Len(slot))]
  /\ arm' = [arm EXCEPT ![g] = "holding"]
  /\ UNCHANGED <<plan, hostVars, task, belt, lineVars, pollVars>>

(* It drops one box per batch, the lowest; the sensor may miss it.  Picking     *)
(* takes longer than a polling interval, so a poll has seen the gripper run.   *)
DropBox(g) ==
  /\ arm[g] = "holding" /\ g \in polled.running
  /\ task[g].left > 0 /\ held[g] # <<>>
  /\ g \notin dropped /\ Cardinality(dropped) < due
  /\ line' = Append(line, Head(held[g]))
  /\ held' = [held EXCEPT ![g] = Tail(@)]
  /\ task' = [task EXCEPT ![g].left = @ - 1]
  /\ dropped' = dropped \cup {g}
  /\ photo' \in {photo, photo + 1}
  /\ UNCHANGED <<plan, hostVars, shelf, arm, belt, due, complete, pollVars>>

CompleteBatch ==
  /\ due > 0 /\ Cardinality(dropped) = due
  /\ complete' = TRUE /\ due' = 0
  /\ UNCHANGED <<plan, hostVars, armVars, belt, dropped, photo, line, pollVars>>

GoHome(g) ==
  /\ arm[g] = "holding" /\ task[g].left = 0 /\ held[g] = <<>>
  /\ arm' = [arm EXCEPT ![g] = "idle"]
  /\ UNCHANGED <<plan, hostVars, shelf, task, held, belt, lineVars, pollVars>>

ReturnBoxes(g) ==
  /\ arm[g] = "returning"
  /\ shelf' = [shelf EXCEPT ![task[g].loc] = held[g] \o @]
  /\ held' = [held EXCEPT ![g] = <<>>]
  /\ arm' = [arm EXCEPT ![g] = "idle"]
  /\ UNCHANGED <<plan, hostVars, task, belt, lineVars, pollVars>>

Lift(g) ==
  /\ arm[g] = "lifting"
  /\ held' = [held EXCEPT ![g] = shelf[task[g].from]]
  /\ shelf' = [shelf EXCEPT ![task[g].from] = <<>>]
  /\ arm' = [arm EXCEPT ![g] = "lowering"]
  /\ UNCHANGED <<plan, hostVars, task, belt, lineVars, pollVars>>

Lower(g) ==
  /\ arm[g] = "lowering"
  /\ shelf' = [shelf EXCEPT ![task[g].to] = held[g] \o @]
  /\ held' = [held EXCEPT ![g] = <<>>]
  /\ arm' = [arm EXCEPT ![g] = "idle"]
  /\ UNCHANGED <<plan, hostVars, task, belt, lineVars, pollVars>>

(* A conveyor runs when the side it moves boxes to is empty. *)
RunBelt ==
  /\ belt # NoRun
  /\ \/ /\ belt.way = "forward" /\ FrontEmpty(shelf, belt.level)
        /\ shelf' = BackToFront(shelf, belt.level)
     \/ /\ belt.way = "backward" /\ BackEmpty(shelf, belt.level)
        /\ shelf' = FrontToBack(shelf, belt.level)
  /\ belt' = NoRun
  /\ UNCHANGED <<plan, hostVars, arm, task, held, lineVars, pollVars>>

Machinery ==
  \/ \E g \in Gripper : PickUp(g) \/ DropBox(g) \/ GoHome(g) \/ ReturnBoxes(g)
                        \/ Lift(g) \/ Lower(g)
  \/ CompleteBatch
  \/ RunBelt

-----------------------------------------------------------------------------
(* The polling thread copies the status registers.  Whether a gripper that     *)
(* waits with leftover boxes counts as running is the PLC's business.          *)
Poll ==
  /\ \E waiting \in SUBSET Waiting :
       polled' = [running |-> {g \in Gripper : ~Still(g)} \ waiting,
                  front |-> {l \in Level : ~FrontEmpty(shelf, l)},
                  back  |-> {l \in Level : ~BackEmpty(shelf, l)}]
  /\ fresh' = TRUE
  /\ UNCHANGED <<plan, hostVars, armVars, belt, lineVars>>

-----------------------------------------------------------------------------
Worker ==
  \/ BackwardsDone \/ CommandBackward \/ BackwardComplete
  \/ MovesDone \/ MoveGripperIdle \/ CommandMove \/ MoveComplete
  \/ RefillsDone \/ FrontClear \/ CommandForward \/ ForwardComplete
  \/ StartBatch \/ AllGrippersIdle \/ ClearOutboundComplete \/ WriteBatchCount
  \/ TriggerGripper \/ BatchComplete \/ Announce
  \/ CommandReturn \/ Settled \/ ReturnComplete \/ UpdateStore \/ PlanDone

Next == Worker \/ Abandon \/ Machinery \/ Poll

(* The worker and the polling thread keep running and the machinery does what  *)
(* it was told; nothing makes a wait be abandoned.                             *)
Fairness == WF_vars(Worker) /\ WF_vars(Machinery) /\ WF_vars(Poll)

Spec == Init /\ [][Next]_vars /\ Fairness

-----------------------------------------------------------------------------
(* What the theorems take for granted of the plans, and the planner sees to:   *)
(* validate_plan checks the first, the second is WavesDoNotOverlap of Planner, *)
(* the next two are what choose_slots_for_package, which offers front slots    *)
(* only, and reuse_consecutive_physical_picks do; the last, and that the boxes *)
(* of a batch differ, follow from PackagesStayTogether of Planner with boxes   *)
(* told apart, as they are here to be followed to the line.                    *)

Served(batch) == {batch.picks[i].g : i \in DOMAIN batch.picks}

(* A gripper serves a batch with one box of its own, one that it has picked.   *)
OneBoxEach ==
  \A p \in Plans : \A n \in DOMAIN p.batches : \A i, j \in DOMAIN p.batches[n].picks :
    LET some == p.batches[n].picks[i] other == p.batches[n].picks[j] IN
      /\ Len(some.items) = 1 /\ some.place \in 1..Len(some.picked)
      /\ i # j => some.g # other.g /\ some.items # other.items

(* A gripper drops a box in each batch from its command to its last box, and   *)
(* meanwhile no gripper is given a new command.                                *)
WavesKeepApart ==
  \A p \in Plans : \A n \in DOMAIN p.batches :
    \A c \in ToSet(Commands(p.batches[n])) : \A m \in (n + 1)..(n + c.place - 1) :
      /\ m \in DOMAIN p.batches /\ c.g \in Served(p.batches[m])
      /\ Commands(p.batches[m]) = <<>>

(* Grippers reach the front slots, and each its own: a batch takes from no     *)
(* slot twice.                                                                 *)
SlotsInReach ==
  \A p \in Plans : \A n \in DOMAIN p.batches :
    LET batch == p.batches[n] IN
      /\ \A i, j \in DOMAIN batch.picks :
           IsFront(batch.picks[i].loc) /\ (i # j => batch.picks[i].loc # batch.picks[j].loc)
      /\ \A i \in DOMAIN batch.moves : IsFront(batch.moves[i].from)

(* A pick that is not commanded goes on with a command that still lasts.       *)
ContinuesAWave ==
  \A p \in Plans : \A m \in DOMAIN p.batches : \A i \in DOMAIN p.batches[m].picks :
    LET pick == p.batches[m].picks[i] IN
      ~pick.send =>
        \E n \in 1..(m - 1) : \E c \in ToSet(Commands(p.batches[n])) :
          c.g = pick.g /\ c.loc = pick.loc /\ m <= n + c.place - 1

(* No box is planned to be dropped in two batches.                             *)
DroppedOnce ==
  \A p \in Plans : \A n, m \in DOMAIN p.batches :
    n # m => Items(p.batches[n]) \cap Items(p.batches[m]) = {}

-----------------------------------------------------------------------------
(* Properties *)

TypeOK ==
  /\ plan \in Plans
  /\ store \in [Location -> Seq(Sku)] /\ shelf \in [Location -> Seq(Sku)]
  /\ \A loc \in Location : Len(store[loc]) <= SLOT_CAPACITY
  /\ pc \in {"backward", "await_backward", "move", "command_move", "await_move",
             "refill", "command_forward", "await_forward", "batch", "await_idle",
             "clear", "count", "trigger", "await_complete", "announce", "return",
             "settle", "await_return", "store", "done", "failed", "inconsistent"}
  /\ b \in 1..(Len(plan.batches) + 1) /\ k \in Nat \ {0}
  /\ told \subseteq Sku
  /\ arm \in [Gripper -> {"idle", "picking", "holding", "returning", "lifting",
                          "lowering"}]
  /\ held \in [Gripper -> Seq(Sku)] /\ line \in Seq(Sku)
  /\ due \in 0..6 /\ dropped \subseteq Gripper /\ photo \in 0..6
  /\ complete \in BOOLEAN /\ fresh \in BOOLEAN
  /\ hasty \in BOOLEAN /\ misfit \in BOOLEAN

(* What stands in a slot once the gripper that took its boxes has put back the *)
(* ones it still holds.                                                        *)
Standing(loc) ==
  LET owners == {g \in Gripper : arm[g] \in {"holding", "returning"}
                                 /\ held[g] # <<>> /\ task[g].loc = loc}
  IN  IF owners = {} THEN shelf[loc] ELSE held[CHOOSE g \in owners : TRUE] \o shelf[loc]

(* Nothing has gone wrong yet that the code does not guard against. *)
AsPlanned == ~hasty /\ ~misfit

(* Whenever the worker is about to command the machinery - between batches,    *)
(* between moves, after a refill - its inventory is what really stands in the  *)
(* cabinets: no command is computed from a stale slot, as long as no move was  *)
(* hasty and every step fitted.                                                *)
StoreMatchesShelf ==
  AsPlanned /\ pc \in {"backward", "move", "command_move", "refill", "command_forward",
                       "batch", "await_idle", "clear", "done"} =>
    \A loc \in Location : store[loc] = Standing(loc)

(* At every moment, also after a run was abandoned, the inventory knows every  *)
(* box that is still in the cabinets or a gripper, and the boxes it lists too  *)
(* many are at most those of the batch that was being dropped.                 *)
StoreLagsByOneBatch ==
  LET present == Stored(shelf) \cup UNION {ToSet(held[g]) : g \in Gripper}
      ghosts  == Stored(store) \ present
  IN  AsPlanned =>
        /\ present \subseteq Stored(store)
        /\ ghosts # {} => b <= Len(plan.batches) /\ ghosts \subseteq Items(Batch)

(* A command is written only when the device has finished the last one: new    *)
(* picks when every gripper of the last wave is back, a move when its gripper  *)
(* is idle, a refill when all moves are over and the front is empty.  The code *)
(* says so and does not do it: a move may be taken for over too early.         *)
CommandsWaitForDevices ==
  /\ pc = "command_move" => Still(Move.g)
  /\ pc = "trigger" =>
       {g \in Gripper : ~Still(g)} \subseteq {Commands(Batch)[i].g : i \in 1..(k - 1)}
  /\ pc = "command_forward" =>
       /\ \A g \in Gripper : arm[g] \notin {"lifting", "lowering"}
       /\ FrontEmpty(shelf, Head(refills).level)

(* The commands wait unless an earlier move did not: nothing but a move taken  *)
(* for over with no poll since its command, or asked of a gripper that waits   *)
(* with boxes, makes the worker write to a device at work.                     *)
CommandsWaitUnlessHasty == ~hasty => CommandsWaitForDevices

(* The line receives the boxes of the plan batch by batch, none twice, none    *)
(* that was not planned; the vision gate is told of boxes only once they are   *)
(* there, and of all of them before the next batch begins.                     *)
LineFollowsPlan ==
  LET BatchOf(x) == CHOOSE i \in DOMAIN plan.batches : x \in Items(plan.batches[i])
  IN  AsPlanned =>
        /\ \A i \in DOMAIN line : \E j \in 1..b :
             j \in DOMAIN plan.batches /\ line[i] \in Items(plan.batches[j])
        /\ \A i, j \in DOMAIN line :
             i < j => line[i] # line[j] /\ BatchOf(line[i]) <= BatchOf(line[j])
        /\ told \subseteq ToSet(line)
        /\ pc \in {"backward", "done"} =>
             told = UNION {Items(plan.batches[i]) : i \in 1..(b - 1)}
             /\ told = ToSet(line)

(* The checks the code makes of itself - the boxes a move or a refill found,   *)
(* the boxes a batch removed - never fail: plan, inventory and cabinets stay   *)
(* in step.                                                                    *)
NeverInconsistent == pc # "inconsistent"

(* Unless it is abandoned, a run gets to the end of its plan: no wait of the   *)
(* worker waits for something the machinery only does after it, but the wait   *)
(* for a gripper with boxes in it that is to move others.                      *)
AsksLadenGripper == pc = "move" /\ k <= Len(Batch.moves) /\ held[Move.g] # <<>>

RunEnds == <>(hasty \/ AsksLadenGripper \/ pc \in {"done", "failed"})
=============================================================================
