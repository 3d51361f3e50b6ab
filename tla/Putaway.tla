------------------------------ MODULE Putaway ------------------------------
(* The run of a putaway task (_putaway_task_processing,                        *)
(* business/task_processing.py): a robot stands behind a station with boxes    *)
(* for some of its layers, the conveyors of these layers take them in, and the *)
(* worker enters them in the inventory when the polled sensors show that they  *)
(* are there.  Robot and conveyors are external and modelled from the          *)
(* registers the host writes and the sensors it waits for.                     *)
EXTENDS Cabinets, FiniteSets

CONSTANT Cases   \* [station, stock, put_goods] records: a station, the inventory
                 \* before the task, and the entries of the task

ASSUME CaseAssumption ==
  \A c \in Cases :
    /\ c.station \in Station
    /\ c.stock \in [Location -> Seq(Sku)]
    /\ \A loc \in Location : Len(c.stock[loc]) <= SLOT_CAPACITY
    /\ c.put_goods \in Seq([loc : Location, sku : Seq(Sku)])
    /\ \A i \in DOMAIN c.put_goods : c.put_goods[i].loc[1] = c.station

VARIABLES
  task,      \* the case at hand
  store,     \* CabinetStore: the inventory of the host
  pc,        \* where the worker is
  k,         \* current layer, or current placement
  triggered, \* all_triggered: what this look at the sensors has found so far
  no_box,    \* layers whose conveyor must not run
  placing,   \* the conveyors of the station were told to run
  robot,     \* per layer the rows of boxes still on the robot, first one first
  shelf,     \* boxes that really stand in each slot
  polled     \* sensors as last polled: layers with boxes in front, at the back

vars == <<task, store, pc, k, triggered, no_box, placing, robot, shelf, polled>>

LevelAt(layer) == <<task.station, layer>>

-----------------------------------------------------------------------------
(* The request *)

HasBoxes(entry) == entry.sku # <<>>

(* Layers with goods to put in their front slots, and in their back slots. *)
Goods   == {e \in ToSet(task.put_goods) : HasBoxes(e)}
Fronted == {e.loc[2] : e \in {f \in Goods : IsFront(f.loc)}}
Backed  == {e.loc[2] : e \in {f \in Goods : ~IsFront(f.loc)}}
GoodsLayers == Fronted \cup Backed

(* Entries without boxes are passed over. *)
Entries ==
  FlattenSeq([i \in DOMAIN task.put_goods |->
    IF HasBoxes(task.put_goods[i]) THEN <<task.put_goods[i]>> ELSE <<>>])

(* Where the boxes of a slot end up: on a layer with nothing for the front the *)
(* conveyor brings the back row to the front.                                  *)
ActualLocation(loc) == IF loc[2] \in Fronted THEN loc ELSE FrontOf(loc)

(* _build_putaway_placements: what to write, in the order of the request. *)
Placements ==
  [i \in DOMAIN Entries |->
     [loc |-> ActualLocation(Entries[i].loc), sku |-> Entries[i].sku]]

(* Each entry looked at for itself. *)
FitsAlone ==
  \A i \in DOMAIN Placements : CanPut(store, Placements[i].loc, Placements[i].sku)

(* The boxes the first n placements bring to a slot. *)
Planned(loc, n) ==
  FlattenSeq([i \in 1..n |->
    IF Placements[i].loc = loc THEN Placements[i].sku ELSE <<>>])

(* Each slot has room for its boxes and those of the entries before it. *)
Fits ==
  \A i \in DOMAIN Placements :
    Len(store[Placements[i].loc]) + Len(Planned(Placements[i].loc, i)) <= SLOT_CAPACITY

-----------------------------------------------------------------------------
(* What the robot carries: the boxes of the request, row by row. *)

Carried(loc) ==
  FlattenSeq([i \in DOMAIN Entries |->
    IF Entries[i].loc = loc THEN Entries[i].sku ELSE <<>>])

Row(layer, left, right) ==
  <<Carried(Slot(LevelAt(layer), left)), Carried(Slot(LevelAt(layer), right))>>

(* A row without boxes is not there at all. *)
NoRow == <<<<>>, <<>>>>
Rows(row) == IF row = NoRow THEN <<>> ELSE <<row>>

Seen == [front |-> {l \in Layer : ~FrontEmpty(shelf, LevelAt(l))},
         back  |-> {l \in Layer : ~BackEmpty(shelf, LevelAt(l))}]

Init ==
  /\ task \in Cases
  /\ store = task.stock /\ shelf = task.stock
  /\ pc = "place" /\ k = 1 /\ triggered = TRUE
  /\ no_box = {} /\ placing = FALSE
  /\ robot = [l \in Layer |-> Rows(Row(l, 1, 2)) \o Rows(Row(l, 3, 4))]
  /\ polled = Seen

-----------------------------------------------------------------------------
(* The worker *)

(* Counting list elements from 0, as the code's language does. *)
GotoZero(next) == pc' = next /\ k' = 0

Goto(next) == pc' = next /\ k' = 1
Outside == UNCHANGED <<task, robot, shelf, polled>>
Plant == Outside /\ UNCHANGED triggered

(* The placements are worked out, and their room checked, before the station   *)
(* changes its state or anything moves.                                        *)
BuildPlacements ==
  /\ pc = "place"
  /\ Goto(IF Fits THEN "skip" ELSE "failed")
  /\ Plant /\ UNCHANGED <<store, no_box, placing>>

(* Leaving a layer without goods to its conveyor. *)
PassLayer ==
  /\ pc = "skip" /\ k \in Layer
  /\ k' = k + 1
  /\ Plant /\ UNCHANGED <<store, pc, no_box, placing>>

(* command_cabinet_no_box for each layer without goods. *)
SkipLayer ==
  /\ pc = "skip" /\ k \in Layer
  /\ no_box' = IF k \in GoodsLayers THEN no_box ELSE no_box \cup {k}
  /\ k' = k + 1
  /\ Plant /\ UNCHANGED <<store, pc, placing>>

(* A request without goods is delivered at once. *)
NothingToPlace ==
  /\ pc = "skip" /\ k \notin Layer /\ GoodsLayers = {}
  /\ Goto("deliver")
  /\ Plant /\ UNCHANGED <<store, no_box, placing>>

(* command_cabinet_place *)
CommandPlace ==
  /\ pc = "skip" /\ k \notin Layer /\ GoodsLayers # {}
  /\ placing' = TRUE
  /\ Goto("await")
  /\ Plant /\ UNCHANGED <<store, no_box>>

(* What the worker looks at: layer by layer the front sensor, and the back      *)
(* sensor too where there is something for either row.                         *)
Looks(rows) ==
  FlattenSeq([layer \in Layer |->
    IF layer \in Fronted \cap Backed THEN [i \in 1..2 |-> <<layer, rows[i]>>]
    ELSE IF layer \in GoodsLayers THEN <<<<layer, "front">>>> ELSE <<>>])

BackThenFront == Looks(<<"back", "front">>)

(* Both sensors of every layer with goods. *)
BothEverywhere ==
  FlattenSeq([layer \in Layer |->
    IF layer \in GoodsLayers THEN <<<<layer, "front">>, <<layer, "back">>>> ELSE <<>>])

FrontThenBack == Looks(<<"front", "back">>)

(* One look; the status may be polled anew between any two of them. *)
LookAtSensor ==
  /\ pc = "await" /\ k <= Len(FrontThenBack)
  /\ triggered' = (triggered /\ FrontThenBack[k][1] \in polled[FrontThenBack[k][2]])
  /\ k' = k + 1
  /\ Outside /\ UNCHANGED <<store, pc, no_box, placing>>

(* After the last look: the boxes are there, or the worker starts again. *)
BoxesArrived ==
  /\ pc = "await" /\ k > Len(FrontThenBack)
  /\ Goto(IF triggered THEN "write" ELSE "await")
  /\ triggered' = TRUE
  /\ Outside /\ UNCHANGED <<store, no_box, placing>>

(* put_goods_to_slot, one placement after the other. *)
WritePlacement ==
  /\ pc = "write" /\ k <= Len(Placements)
  /\ LET p == Placements[k] IN
       IF CanPut(store, p.loc, p.sku)
       THEN store' = PutGoods(store, p.loc, p.sku) /\ k' = k + 1 /\ UNCHANGED pc
       ELSE Goto("failed") /\ UNCHANGED store
  /\ Plant /\ UNCHANGED <<no_box, placing>>

PlacementsWritten ==
  /\ pc = "write" /\ k > Len(Placements)
  /\ Goto("deliver")
  /\ Plant /\ UNCHANGED <<store, no_box, placing>>

Deliver ==
  /\ pc = "deliver"
  /\ Goto("done")
  /\ Plant /\ UNCHANGED <<store, no_box, placing>>

(* A station that may not start or be delivered, a command that fails, an      *)
(* emergency stop, a conveyor alarm or a timeout fails the task where it       *)
(* stands.                                                                     *)
Abandon ==
  /\ pc \in {"skip", "await", "deliver"}
  /\ Goto("failed")
  /\ Plant /\ UNCHANGED <<store, no_box, placing>>

-----------------------------------------------------------------------------
(* The conveyor of a layer (external) carries what stands at the back to an    *)
(* empty front, and takes in the next row of the robot behind it.              *)
ConveyorRuns(layer) ==
  LET level == LevelAt(layer) IN
  /\ placing /\ layer \notin no_box
  /\ \/ /\ FrontEmpty(shelf, level) /\ ~BackEmpty(shelf, level)
        /\ shelf' = BackToFront(shelf, level)
        /\ UNCHANGED robot
     \/ /\ robot[layer] # <<>> /\ BackEmpty(shelf, level)
        /\ shelf' = [shelf EXCEPT ![Slot(level, 3)] = Head(robot[layer])[1],
                                  ![Slot(level, 4)] = Head(robot[layer])[2]]
        /\ robot' = [robot EXCEPT ![layer] = Tail(@)]
  /\ UNCHANGED <<task, store, pc, k, triggered, no_box, placing, polled>>

Poll ==
  /\ polled' = Seen
  /\ UNCHANGED <<task, store, pc, k, triggered, no_box, placing, robot, shelf>>

Worker ==
  \/ BuildPlacements \/ SkipLayer \/ NothingToPlace \/ CommandPlace
  \/ LookAtSensor \/ BoxesArrived \/ WritePlacement \/ PlacementsWritten \/ Deliver

Conveyors == \E layer \in Layer : ConveyorRuns(layer)

Next == Worker \/ Abandon \/ Conveyors \/ Poll

(* The worker and the polling thread keep running, and a conveyor that was     *)
(* told to runs; nothing makes the run be abandoned.                           *)
Fairness == WF_vars(Worker) /\ WF_vars(Conveyors) /\ WF_vars(Poll)

Spec == Init /\ [][Next]_vars /\ Fairness

-----------------------------------------------------------------------------
(* What the properties tell apart *)

(* Of the layers boxes are brought for, those that were empty before: only     *)
(* there a sensor tells of the boxes of the request, and not of older ones.     *)
FreshLayers ==
  {layer \in GoodsLayers :
     \A position \in Position : task.stock[Slot(LevelAt(layer), position)] = <<>>}

Restocked(loc) == loc[1] = task.station /\ loc[2] \in GoodsLayers \ FreshLayers

(* The boxes an inventory has on a layer, and those the robot still has for it. *)
OnLayer(inventory, layer) ==
  UNION {ToSet(inventory[Slot(LevelAt(layer), position)]) : position \in Position}
Waiting(layer) == UNION {ToSet(row[1]) \cup ToSet(row[2]) : row \in ToSet(robot[layer])}

(* The boxes of a request are not in the inventory yet: the code does not look. *)
NewBoxes ==
  \A c \in Cases : \A i \in DOMAIN c.put_goods : \A loc \in Location :
    ToSet(c.put_goods[i].sku) \cap ToSet(c.stock[loc]) = {}

-----------------------------------------------------------------------------
(* Properties *)

TypeOK ==
  /\ task \in Cases
  /\ store \in [Location -> Seq(Sku)] /\ shelf \in [Location -> Seq(Sku)]
  /\ \A loc \in Location : Len(store[loc]) <= SLOT_CAPACITY
  /\ pc \in {"place", "skip", "await", "write", "deliver", "done", "failed"}
  /\ k \in Nat \ {0}
  /\ triggered \in BOOLEAN /\ no_box \subseteq Layer /\ placing \in BOOLEAN
  /\ polled \in [front : SUBSET Layer, back : SUBSET Layer]

(* The inventory never runs ahead of the cabinets: a box is entered only when  *)
(* it stands in that very slot, not while a row is still on its way and not in *)
(* the slot of the request when the conveyor stops elsewhere.  Only a layer    *)
(* restocked while it held boxes is another matter: older boxes trigger the    *)
(* sensors there.                                                              *)
BoxesArrivedFirst ==
  \A loc \in Location :
    ~Restocked(loc) => ToSet(store[loc]) \subseteq ToSet(shelf[loc])

(* A completed putaway leaves the inventory equal to the cabinets, the layers  *)
(* it was not about included: their boxes have not moved.  A restocked layer   *)
(* has in the inventory what stands on it or still waits on the robot for it,  *)
(* whichever slots.                                                            *)
StoreMatchesShelf ==
  pc = "done" =>
    /\ \A loc \in Location : ~Restocked(loc) => store[loc] = shelf[loc]
    /\ \A layer \in GoodsLayers :
         OnLayer(store, layer) = OnLayer(shelf, layer) \cup Waiting(layer)

(* A putaway enters all of its boxes or none: it does not find out half way    *)
(* through writing that a slot is too small, with the boxes already inside.    *)
(* (A task that fails only when its station is to be DELIVERED has entered all.) *)
AllOrNothing ==
  LET boxes == UNION {ToSet(e.sku) : e \in Goods}
  IN  pc \in {"done", "failed"} => Stored(store) \cap boxes \in {{}, boxes}

(* Unless it is abandoned, a putaway comes to its end: no layer is waited for  *)
(* that the conveyors leave without a box at a sensor.                         *)
PutawayEnds == <>(pc \in {"done", "failed"})
=============================================================================
