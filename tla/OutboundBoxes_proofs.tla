------------------------ MODULE OutboundBoxes_proofs ------------------------
(* Proofs about the boxes of an outbound plan, as long as no move was hasty    *)
(* and every step fitted the inventory when it was commanded: the worker's     *)
(* inventory is what stands in the cabinets, also in a run that was given up,  *)
(* and the line receives the boxes of the plan in its order.                   *)
EXTENDS OutboundRun_proofs

-----------------------------------------------------------------------------
(* The inductive invariant *)

Inventory == [Location -> Seq(Sku)]

(* An inventory without the first box of some slots, the slots of some picks.  *)
LessHeads(stock, slots) ==
  [loc \in Location |-> IF loc \in slots THEN Tail(stock[loc]) ELSE stock[loc]]
Slots(picks, chosen) == {picks[i].loc : i \in chosen}

(* The picks of the batch whose boxes have left the inventory. *)
Recorded == IF pc = "store" THEN 1..(k - 1) ELSE {}

(* The other picks find the box they drop at the head of their slot. *)
PicksLeft ==
  \A i \in DOMAIN Batch.picks \ Recorded :
    /\ store[Batch.picks[i].loc] # <<>>
    /\ Batch.picks[i].items = <<Head(store[Batch.picks[i].loc])>>

(* A step that fitted when it was commanded fits as long as it is awaited.     *)
FitInv ==
  Going =>
    /\ pc = "await_backward" => BackingFits(Batch.backs[k])
    /\ pc = "await_move" => MoveFits(Move)
    /\ pc = "await_forward" => RefillFits(Head(refills).level)
    /\ Started => PicksLeft

(* The run goes on or has come to its end. *)
Orderly == pc \notin {"failed", "inconsistent"}

(* What the cabinets hold, boxes in a gripper counted to the slot they came    *)
(* from: what the inventory says, but for the conveyor run or the move that    *)
(* the worker waits for and the boxes dropped of the batch.                    *)
DroppedPicks == {i \in DOMAIN Batch.picks : Batch.picks[i].g \in dropped}

Truth ==
  IF pc = "await_backward" /\ belt = NoRun THEN FrontToBack(store, Batch.backs[k])
  ELSE IF pc = "await_forward" /\ belt = NoRun THEN BackToFront(store, Head(refills).level)
  ELSE IF pc = "await_move" /\ arm[Move.g] = "lowering" THEN [store EXCEPT ![Move.from] = <<>>]
  ELSE IF pc = "await_move" /\ Still(Move.g) THEN MoveGoods(store, Move.from, Move.to)
  ELSE IF Counted THEN LessHeads(store, Slots(Batch.picks, DroppedPicks \ Recorded))
  ELSE store

(* Gripper g has boxes of the slot in it. *)
Holds(g, loc) == arm[g] \in {"holding", "returning"} /\ held[g] # <<>> /\ task[g].loc = loc

Stands(loc, boxes) ==
  /\ \A g \in Gripper : Holds(g, loc) => boxes = held[g] \o shelf[loc]
  /\ (\A g \in Gripper : ~Holds(g, loc)) => boxes = shelf[loc]

ShelfInv == Orderly => \A loc \in Location : Stands(loc, Truth[loc])

(* Each gripper takes from a front slot of its own. *)
SlotInv ==
  Orderly =>
    /\ \A g \in Gripper : HasBoxes(g) => IsFront(task[g].loc)
    /\ \A g, h \in Gripper : g # h /\ HasBoxes(g) /\ HasBoxes(h) => task[g].loc # task[h].loc

(* Only boxes that were taken are in a gripper; a gripper that moves boxes has *)
(* been told the move the worker waits for.                                    *)
EmptyHanded == \A g \in Gripper : arm[g] \in {"idle", "picking", "lifting"} => held[g] = <<>>

MoveInv ==
  pc = "await_move" =>
    /\ arm[Move.g] \in {"lifting", "lowering"} =>
         task[Move.g].from = Move.from /\ task[Move.g].to = Move.to
    /\ arm[Move.g] = "lowering" => held[Move.g] = store[Move.from]

(* The conveyor that runs is the one that is waited for, and it is not taken   *)
(* to have run before it has.                                                  *)
BeltInv ==
  Going =>
    /\ belt # NoRun =>
         \/ pc = "await_backward" /\ belt = [way |-> "backward", level |-> Batch.backs[k]]
         \/ pc = "await_forward" /\ belt = [way |-> "forward", level |-> Head(refills).level]
    /\ \A level \in polled.back :
         \/ ~BackEmpty(shelf, level)
         \/ pc = "await_forward" /\ level = Head(refills).level /\ level \notin polled.front

(* When the plan is carried out nothing is under way but a gripper going home. *)
EndInv ==
  pc = "done" =>
    belt = NoRun /\ due = 0 /\ \A g \in Gripper : arm[g] \in {"idle", "picking", "holding"}

BoxInv == FitInv /\ SlotInv /\ EmptyHanded /\ MoveInv /\ BeltInv /\ EndInv /\ ShelfInv

-----------------------------------------------------------------------------
(* The steps that are commanded *)

(* A box that is found at the head of a slot is taken off its head. *)
LEMMA WithoutHead ==
  ASSUME NEW slot \in Seq(Sku), slot # <<>>
  PROVE  /\ Without(slot, <<Head(slot)>>) = Tail(slot)
         /\ Tail(slot) \in Seq(Sku) /\ Len(Tail(slot)) = Len(slot) - 1
<1> DEFINE e == Head(slot) goods == <<e>>
<1>1. /\ Len(slot) \in Nat \ {0} /\ slot[1] = e
      /\ Tail(slot) \in Seq(Sku) /\ Len(Tail(slot)) = Len(slot) - 1
      /\ \A i \in 1..Len(Tail(slot)) : Tail(slot)[i] = slot[i + 1]
  BY HeadTailProperties, EmptySeq
<1> HIDE DEF e
<1>2. RemoveFirst(slot, e) = Tail(slot)
  <2> DEFINE I == {i \in 1..Len(slot) : slot[i] = e}
  <2>1. 1 \in I /\ I \subseteq Nat /\ \A i \in I : 1 <= i
    BY <1>1
  <2>2. Min(I) = 1
    <3> HIDE DEF I
    <3>1. 1 \in I /\ \A y \in I : 1 <= y
      BY <2>1
    <3>2. Min(I) \in I /\ \A y \in I : Min(I) <= y
      BY <3>1 DEF Min
    <3>3. Min(I) \in Nat /\ Min(I) <= 1 /\ 1 <= Min(I)
      BY <2>1, <3>1, <3>2
    <3> QED
      BY <3>3
  <2>3. RemoveFirst(slot, e) = RemoveAt(slot, Min(I))
    BY <2>1 DEF RemoveFirst, SelectInSeq
  <2> HIDE DEF I
  <2>4. RemoveFirst(slot, e) = SubSeq(slot, 1, 0) \o SubSeq(slot, 2, Len(slot))
    BY <2>2, <2>3 DEF RemoveAt
  <2>5. SubSeq(slot, 1, 0) = <<>> /\ SubSeq(slot, 2, Len(slot)) = Tail(slot)
    BY <1>1
  <2>6. <<>> \o Tail(slot) = Tail(slot)
    BY <1>1
  <2> QED
    BY <2>4, <2>5, <2>6
<1>3. Len(goods) = 1 /\ goods[1] = e
  OBVIOUS
<1> HIDE DEF goods
<1>4. \E f : Removes(slot, goods, f, 1)
  BY RemovesExists
<1> DEFINE f == CHOOSE g : Removes(slot, goods, g, 1)
<1>5. f = [i \in 0..1 |-> IF i = 0 THEN slot ELSE RemoveFirst(f[i - 1], goods[i])]
  <2>1. Removes(slot, goods, f, 1)
    BY <1>4
  <2> HIDE DEF f
  <2> QED
    BY <2>1 DEF Removes
<1>6. Without(slot, goods) = f[1]
  <2>1. Len(goods) = 1
    BY <1>3
  <2> QED
    BY <2>1, Zenon DEF Without, Removes
<1> HIDE DEF f
<1>7. f[1] = RemoveFirst(f[0], goods[1]) /\ f[0] = slot
  <2>1. 0 \in 0..1 /\ 1 \in 0..1 /\ 1 # 0 /\ 1 - 1 = 0
    OBVIOUS
  <2>2. f[0] = slot
    BY <1>5, <2>1
  <2>3. f[1] = RemoveFirst(f[1 - 1], goods[1])
    BY <1>5, <2>1
  <2> QED
    BY <2>1, <2>2, <2>3
<1> QED
  BY <1>1, <1>2, <1>3, <1>6, <1>7 DEF goods, e

(* The first boxes of some slots taken off, those of one slot before the others. *)
LEMMA HeadsOff ==
  ASSUME NEW stock \in Inventory
  PROVE  /\ LessHeads(stock, {}) = stock
         /\ \A slots \in SUBSET Location : \A at \in Location \ slots :
              LessHeads([stock EXCEPT ![at] = Tail(stock[at])], slots)
                = LessHeads(stock, slots \cup {at})
  BY DEF LessHeads, Inventory

(* The slots a batch takes from, one pick after the other. *)
LEMMA SlotsOfPicks ==
  ASSUME plan \in Plans, SlotsInReach, NEW n \in 1..Len(plan.batches),
         NEW picks, picks = plan.batches[n].picks
  PROVE  /\ Slots(picks, {}) = {}
         /\ \A I \in SUBSET (1..Len(picks)) :
              /\ Slots(picks, I) \subseteq Location
              /\ \A i \in 1..Len(picks) :
                   /\ Slots(picks, I \cup {i}) = Slots(picks, I) \cup {picks[i].loc}
                   /\ i \notin I => picks[i].loc \notin Slots(picks, I)
<1>1. picks \in Seq(PickStep) /\ n \in DOMAIN plan.batches
  BY PlanType
<1>2. /\ DOMAIN picks = 1..Len(picks)
      /\ \A i \in 1..Len(picks) : picks[i].loc \in Location
  <2>1. DOMAIN picks = 1..Len(picks) /\ \A i \in 1..Len(picks) : picks[i] \in PickStep
    BY <1>1
  <2> QED
    BY <2>1 DEF PickStep
<1>3. \A i, j \in 1..Len(picks) : i # j => picks[i].loc # picks[j].loc
  BY <1>1, <1>2 DEF SlotsInReach
<1> QED
  BY <1>2, <1>3 DEF Slots

(* What a step that is awaited needs. *)
LEMMA BackwardPossible ==
  ASSUME TypeInv, FitInv, pc = "await_backward"
  PROVE  Batch.backs[k] \in Level /\ BackEmpty(store, Batch.backs[k])
<1>1. plan \in Plans /\ b \in 1..Len(plan.batches) /\ k \in 1..Len(Batch.backs) /\ Going
  BY DEF TypeInv, PlaceInv, Going
<1> QED
  BY <1>1, BatchType DEF FitInv, BackingFits

LEMMA ForwardPossible ==
  ASSUME TypeInv, FitInv, pc = "await_forward"
  PROVE  Head(refills).level \in Level /\ FrontEmpty(store, Head(refills).level)
<1>1. Going /\ refills # <<>>
  BY DEF TypeInv, PlaceInv, Going
<1>2. Head(refills).level \in Level
  BY <1>1, RefillLevel
<1> QED
  BY <1>1, <1>2 DEF FitInv, RefillFits

LEMMA MoveListed ==
  ASSUME SlotsInReach, TypeInv, pc \in {"command_move", "await_move"}
  PROVE  /\ Move.from \in Location /\ Move.to \in Location /\ Move.g \in Gripper
         /\ IsFront(Move.from)
<1>1. plan \in Plans /\ b \in 1..Len(plan.batches) /\ k \in 1..Len(Batch.moves)
  BY DEF TypeInv, PlaceInv, Going
<1>2. Move \in MoveStep
  BY <1>1, BatchType DEF Move
<1>3. b \in DOMAIN plan.batches /\ DOMAIN Batch.moves = 1..Len(Batch.moves)
  BY <1>1, PlanType DEF Batch
<1>4. IsFront(Move.from)
  BY <1>1, <1>3 DEF SlotsInReach, Batch, Move
<1> QED
  BY <1>2, <1>4 DEF MoveStep

LEMMA MovePossible ==
  ASSUME SlotsInReach, TypeInv, FitInv, pc = "await_move"
  PROVE  CanMove(store, Move.from, Move.to)
  BY DEF FitInv, MoveFits, Going

(* The picks of the batch, once it is started. *)
LEMMA PicksPossible ==
  ASSUME TypeInv, FitInv, Going, Started, pc # "store"
  PROVE  /\ b \in 1..Len(plan.batches) /\ plan \in Plans /\ store \in Inventory
         /\ DOMAIN Batch.picks = 1..Len(Batch.picks) /\ Recorded = {}
         /\ \A i \in 1..Len(Batch.picks) :
              /\ Batch.picks[i].loc \in Location /\ store[Batch.picks[i].loc] # <<>>
              /\ Batch.picks[i].items = <<Head(store[Batch.picks[i].loc])>>
<1>1. /\ b \in 1..Len(plan.batches) /\ plan \in Plans /\ store \in Inventory
      /\ Recorded = {} /\ PicksLeft
  BY DEF TypeInv, PlaceInv, StoreInv, Inventory, Recorded, FitInv, Started
<1>2. /\ DOMAIN Batch.picks = 1..Len(Batch.picks)
      /\ \A i \in 1..Len(Batch.picks) : Batch.picks[i] \in PickStep
  <2>1. Batch.picks \in Seq(PickStep)
    BY <1>1, PlanType DEF Batch
  <2> QED
    BY <2>1
<1> QED
  BY <1>1, <1>2 DEF PicksLeft, PickStep

(* The update of the inventory takes off the boxes of one pick after the other. *)
LEMMA UpdatedStore ==
  ASSUME TypeInv, FitInv, UpdateStore
  PROVE  /\ plan \in Plans /\ b \in 1..Len(plan.batches) /\ k \in 1..Len(Batch.picks)
         /\ plan' = plan /\ Len(plan.batches) \in Nat /\ Len(Batch.picks) \in Nat
         /\ DOMAIN Batch.picks = 1..Len(Batch.picks) /\ Batch.picks[k].loc \in Location
         /\ store' = [store EXCEPT ![Batch.picks[k].loc] = Tail(store[Batch.picks[k].loc])]
         /\ pc' # "inconsistent" /\ Recorded = 1..(k - 1)
         /\ k < Len(Batch.picks) => k' = k + 1 /\ pc' = "store" /\ b' = b
         /\ ~(k < Len(Batch.picks)) =>
              k = Len(Batch.picks) /\ k' = 1 /\ pc' = "backward" /\ b' = b + 1
<1>1. /\ plan \in Plans /\ b \in 1..Len(plan.batches) /\ k \in 1..Len(Batch.picks)
      /\ plan' = plan /\ Len(plan.batches) \in Nat /\ Recorded = 1..(k - 1) /\ PicksLeft
      /\ store \in [Location -> Seq(Sku)]
  <2>1. plan \in Plans /\ Len(plan.batches) \in Nat /\ store \in [Location -> Seq(Sku)]
    BY PlanType DEF TypeInv, PlaceInv, StoreInv
  <2>2. Going /\ Started /\ plan' = plan /\ pc = "store"
    BY DEF Going, Started, UpdateStore, Stay
  <2>3. b \in 1..Len(plan.batches) /\ k \in 1..Len(Batch.picks)
    BY <2>2 DEF TypeInv, PlaceInv
  <2>4. Recorded = 1..(k - 1) /\ PicksLeft
    BY <2>2 DEF Recorded, FitInv
  <2> QED
    BY <2>1, <2>2, <2>3, <2>4
<1>2. /\ DOMAIN Batch.picks = 1..Len(Batch.picks) /\ Len(Batch.picks) \in Nat
      /\ \A i \in 1..Len(Batch.picks) : Batch.picks[i].loc \in Location
  <2>1. Batch.picks \in Seq(PickStep)
    BY <1>1, PlanType DEF Batch
  <2>2. DOMAIN Batch.picks = 1..Len(Batch.picks) /\ Len(Batch.picks) \in Nat
    BY <2>1
  <2>3. \A i \in 1..Len(Batch.picks) : Batch.picks[i] \in PickStep
    BY <2>1
  <2> QED
    BY <2>2, <2>3 DEF PickStep
<1>3. PICK p : p = Batch.picks[k]
  OBVIOUS
<1>4. PICK slot : slot = store[p.loc]
  OBVIOUS
<1>5. p.loc \in Location /\ slot \in Seq(Sku) /\ slot # <<>> /\ p.items = <<Head(slot)>>
  <2>1. k \in DOMAIN Batch.picks \ Recorded
    BY <1>1, <1>2
  <2>2. slot # <<>> /\ p.items = <<Head(slot)>>
    BY <1>1, <1>3, <1>4, <2>1 DEF PicksLeft
  <2>3. p.loc \in Location /\ slot \in Seq(Sku)
    BY <1>1, <1>2, <1>3, <1>4
  <2> QED
    BY <2>2, <2>3
<1>6. /\ Without(store[p.loc], p.items) = Tail(slot) /\ Len(Tail(slot)) = Len(slot) - 1
      /\ Len(p.items) = 1
  BY <1>4, <1>5, WithoutHead
<1>7. RemovedAll(store, p.loc, p.items)
  BY <1>4, <1>6 DEF RemovedAll
<1>8. store' = [store EXCEPT ![p.loc] = Tail(slot)]
  <2>1. store' = RemoveGoods(store, p.loc, p.items)
    BY <1>3, <1>7 DEF UpdateStore
  <2>2. RemoveGoods(store, p.loc, p.items) = [store EXCEPT ![p.loc] = Tail(slot)]
    BY <1>6 DEF RemoveGoods
  <2> QED
    BY <2>1, <2>2
<1>9. CASE k < Len(Batch.picks)
  <2>1. k' = k + 1 /\ pc' = "store" /\ b' = b
    BY <1>3, <1>7, <1>9 DEF UpdateStore
  <2> QED
    BY <1>1, <1>2, <1>3, <1>4, <1>5, <1>8, <1>9, <2>1
<1>10. CASE ~(k < Len(Batch.picks))
  <2>1. k' = 1 /\ pc' = "backward" /\ b' = b + 1
    BY <1>3, <1>7, <1>10 DEF UpdateStore, Goto
  <2>2. k = Len(Batch.picks)
    BY <1>1, <1>2, <1>10
  <2> QED
    BY <1>1, <1>2, <1>3, <1>4, <1>5, <1>8, <1>10, <2>1, <2>2
<1> QED
  BY <1>9, <1>10

-----------------------------------------------------------------------------
(* The boxes in the grippers *)

(* A pick is a command of its batch, or goes on with an earlier one. *)
LEMMA PickSent ==
  ASSUME plan \in Plans, NEW n \in 1..Len(plan.batches)
  PROVE  /\ \A i \in 1..Len(plan.batches[n].picks) : plan.batches[n].picks[i].send =>
              plan.batches[n].picks[i] \in Range(Commands(plan.batches[n]))
         /\ \A c \in Range(Commands(plan.batches[n])) :
              c.send /\ \E i \in 1..Len(plan.batches[n].picks) : c = plan.batches[n].picks[i]
<1> DEFINE picks == plan.batches[n].picks
           T == {p \in PickStep : p.send}
           cs == Commands(plan.batches[n])
<1>1. picks \in Seq(PickStep)
  BY PlanType
<1>2. cs = Kept(picks, T)
  BY <1>1, CommandsAreKept
<1>3. /\ Range(picks) = {picks[i] : i \in 1..Len(picks)}
      /\ \A i \in 1..Len(picks) : picks[i] \in PickStep
  BY <1>1 DEF Range
<1> HIDE DEF T
<1>4. Range(cs) = Range(picks) \cap T
  <2> HIDE DEF cs, picks
  <2> QED
    BY <1>1, <1>2, KeptElements
<1> QED
  BY <1>3, <1>4 DEF T

(* A gripper is given one command in a batch. *)
LEMMA OneCommandEach ==
  ASSUME plan \in Plans, OneBoxEach, NEW n \in 1..Len(plan.batches),
         NEW c \in Range(Commands(plan.batches[n])), NEW d \in Range(Commands(plan.batches[n])),
         c.g = d.g
  PROVE  c = d
<1>1. PICK cs : cs = Commands(plan.batches[n])
  OBVIOUS
<1>2. cs \in Seq(PickStep) /\ \A i, j \in 1..Len(cs) : cs[i].g = cs[j].g => i = j
  BY <1>1, CommandsType
<1>3. Range(cs) = {cs[i] : i \in 1..Len(cs)}
  BY <1>2 DEF Range
<1> QED
  BY <1>1, <1>2, <1>3

(* A gripper with boxes of its slot is in a wave that reaches this batch: it   *)
(* has a box to drop itself, or keeps its leftover ones until another has.     *)
LEMMA TakerInWave ==
  ASSUME OneBoxEach, TypeInv, b \in 1..Len(plan.batches), NEW g \in Gripper, HasBoxes(g),
         arm[g] \in {"picking", "holding"}, NEW n \in 1..Len(plan.batches),
         NEW c \in Range(Commands(plan.batches[n])), WorksAt(g, n, c)
  PROVE  \E d \in Range(Commands(plan.batches[n])) :
           b <= n + d.place - 1 /\ (c = d \/ Len(c.picked) > c.place)
<1>1. plan \in Plans
  BY DEF TypeInv, PlaceInv
<1>2. /\ n \in Nat \ {0} /\ b \in Nat \ {0} /\ c.place \in Nat \ {0}
      /\ Len(c.picked) \in Nat /\ c.place <= Len(c.picked)
  BY <1>1, CommandNumbers
<1>3. Turns(g) \in Nat /\ b <= Turns(g)
  BY <1>2 DEF Turns
<1>4. PICK p \in Nat \ {0} : p = c.place
  BY <1>2
<1>5. PICK t \in Nat : t = Turns(g)
  BY <1>3
<1>6. task[g].left = IF n + p > t THEN n + p - t ELSE 0
  BY <1>4, <1>5 DEF WorksAt
<1>7. CASE n + p > t
  <2>1. b <= n + c.place - 1
    BY <1>2, <1>3, <1>4, <1>5, <1>7
  <2> QED
    BY <2>1
<1>8. CASE ~(n + p > t)
  <2>1. task[g].left = 0
    BY <1>6, <1>8
  <2>2. arm[g] = "holding" /\ held[g] # <<>>
    BY <1>2, <2>1 DEF WorksAt, HasBoxes
  <2>3. held[g] \in Seq(Sku)
    BY DEF TypeInv, DeviceInv
  <2>4. Len(held[g]) \in Nat \ {0}
    BY <2>2, <2>3, EmptySeq
  <2>5. Len(held[g]) + c.place <= Len(c.picked) + 0
    BY <2>1, <2>2 DEF WorksAt
  <2>6. Len(c.picked) > c.place
    BY <1>2, <2>4, <2>5
  <2>7. LastsUntil(n, IF Settling THEN b + 1 ELSE b)
    BY <2>2, <2>6 DEF WorksAt
  <2>8. PICK d \in Range(Commands(plan.batches[n])) :
          (IF Settling THEN b + 1 ELSE b) <= n + d.place - 1
    BY <2>7 DEF LastsUntil
  <2>9. d.place \in Nat
    BY <1>1, CommandNumbers
  <2>10. b <= n + d.place - 1
    BY <1>2, <2>8, <2>9
  <2> QED
    BY <2>6, <2>10
<1> QED
  BY <1>7, <1>8

(* The gripper that is set off next takes from a slot no other takes from. *)
LEMMA OwnSlot ==
  ASSUME OneBoxEach, WavesKeepApart, SlotsInReach, TypeInv, HandInv, PhaseInv,
         TriggerGripper, NEW c, c = Commands(Batch)[k], NEW h \in Gripper, HasBoxes(h)
  PROVE  h # c.g => task[h].loc # c.loc
<1> SUFFICES ASSUME h # c.g PROVE task[h].loc # c.loc
  OBVIOUS
<1>1. pc = "trigger" /\ Going /\ Counted /\ b \in 1..Len(plan.batches) /\ plan \in Plans
      /\ k \in 1..Len(Commands(Batch))
  BY DEF TriggerGripper, Going, Counted, TypeInv, PlaceInv
<1>2. arm[h] \in {"picking", "holding"}
  BY <1>1 DEF HasBoxes, PhaseInv
<1>3a. PICK n \in 1..Len(plan.batches) :
         \E d \in Range(Commands(plan.batches[n])) : WorksAt(h, n, d)
  BY <1>1, <1>2 DEF HandInv, Working
<1>3. PICK d \in Range(Commands(plan.batches[n])) : WorksAt(h, n, d)
  BY <1>3a
<1>4. c \in Range(Commands(plan.batches[b]))
  BY <1>1, BatchType DEF Batch
<1>5. n = b
  <2> SUFFICES ASSUME n # b PROVE FALSE
    OBVIOUS
  <2>1. PICK e \in Range(Commands(plan.batches[n])) : b <= n + e.place - 1
    BY <1>1, <1>2, <1>3, TakerInWave
  <2>2. n < b /\ n <= b
    <3>1. n <= b /\ n \in Nat /\ b \in Nat
      BY <1>1, <1>3, PlanType DEF WorksAt
    <3> QED
      BY <3>1
  <2>3. Commands(plan.batches[b]) = <<>>
    BY <1>1, <2>1, <2>2, StillServing
  <2> QED
    BY <1>4, <2>3, RangeEmpty
<1>6. d.g = h /\ task[h].loc = d.loc
  BY <1>3 DEF WorksAt
<1>7. PICK i \in 1..Len(Batch.picks) : c = Batch.picks[i]
  BY <1>1, <1>4, PickSent DEF Batch
<1>8. PICK j \in 1..Len(Batch.picks) : d = Batch.picks[j]
  BY <1>1, <1>3, <1>5, PickSent DEF Batch
<1>9. i # j
  BY <1>6, <1>7, <1>8
<1>10. b \in DOMAIN plan.batches /\ DOMAIN Batch.picks = 1..Len(Batch.picks)
  BY <1>1, PlanType DEF Batch
<1>11. Batch.picks[i].loc # Batch.picks[j].loc
  BY <1>1, <1>9, <1>10 DEF SlotsInReach, Batch
<1> QED
  BY <1>6, <1>7, <1>8, <1>11

(* A gripper that drops a box has taken it from the slot its pick is planned   *)
(* from, whether it was commanded in this batch or an earlier one.             *)
LEMMA PickOfGripper ==
  ASSUME OneBoxEach, WavesKeepApart, ContinuesAWave, TypeInv, HandInv, Going,
         b \in 1..Len(plan.batches), NEW g \in Gripper, arm[g] \in {"picking", "holding"},
         task[g].left > 0, ~(Counted /\ g \in dropped)
  PROVE  \A i \in 1..Len(Batch.picks) : Batch.picks[i].g = g => Batch.picks[i].loc = task[g].loc
<1> SUFFICES ASSUME NEW i \in 1..Len(Batch.picks), Batch.picks[i].g = g
             PROVE  Batch.picks[i].loc = task[g].loc
  OBVIOUS
<1>1. plan \in Plans
  BY DEF TypeInv, PlaceInv
<1>2a. PICK n \in 1..Len(plan.batches) :
         \E c \in Range(Commands(plan.batches[n])) : WorksAt(g, n, c)
  BY DEF HandInv, Working
<1>2. PICK c \in Range(Commands(plan.batches[n])) : WorksAt(g, n, c)
  BY <1>2a
<1>3. /\ n \in Nat \ {0} /\ b \in Nat \ {0} /\ c.place \in Nat \ {0}
  BY <1>1, CommandNumbers
<1>4. c.g = g /\ task[g].loc = c.loc /\ n <= b /\ b <= n + c.place - 1
  <2>1. PICK p \in Nat : p = c.place
    BY <1>3
  <2>2. task[g].left = IF n + p > b THEN n + p - b ELSE 0
    BY <1>2, <2>1 DEF WorksAt, Turns
  <2>3. n + p > b
    BY <1>3, <2>2
  <2>4. b <= n + c.place - 1
    BY <1>3, <2>1, <2>3
  <2> QED
    BY <1>2, <2>4 DEF WorksAt
<1>5. PICK pick : pick = Batch.picks[i]
  OBVIOUS
<1>6. CASE pick.send
  <2>1. pick \in Range(Commands(plan.batches[b]))
    BY <1>1, <1>5, <1>6, PickSent DEF Batch
  <2>2. n = b
    <3> SUFFICES ASSUME n # b PROVE FALSE
      OBVIOUS
    <3>1. n < b
      BY <1>3, <1>4
    <3>2. Commands(plan.batches[b]) = <<>>
      BY <1>1, <1>2, <1>4, <3>1, StillServing
    <3> QED
      BY <2>1, <3>2, RangeEmpty
  <2>3. pick = c
    BY <1>1, <1>2, <1>4, <1>5, <2>1, <2>2, OneCommandEach
  <2> QED
    BY <1>4, <1>5, <2>3
<1>7. CASE ~pick.send
  <2>1. b \in DOMAIN plan.batches /\ DOMAIN plan.batches = 1..Len(plan.batches)
        /\ DOMAIN Batch.picks = 1..Len(Batch.picks) /\ Len(plan.batches) \in Nat
    BY <1>1, PlanType DEF Batch
  <2>2. PICK m \in 1..(b - 1) : \E d \in ToSet(Commands(plan.batches[m])) :
          d.g = pick.g /\ d.loc = pick.loc /\ b <= m + d.place - 1
    BY <1>1, <1>5, <1>7, <2>1 DEF ContinuesAWave, Batch
  <2>3. m \in 1..Len(plan.batches) /\ m < b /\ m <= b /\ m \in Nat
    BY <1>3, <2>1
  <2>4. PICK d \in Range(Commands(plan.batches[m])) :
          d.g = pick.g /\ d.loc = pick.loc /\ b <= m + d.place - 1
    BY <2>2, SetOfRange
  <2>5. d.place \in Nat
    BY <1>1, <2>3, <2>4, CommandNumbers
  <2>6. ~(m < n)
    <3> SUFFICES ASSUME m < n PROVE FALSE
      OBVIOUS
    <3>1. n <= m + d.place - 1 /\ m <= n
      BY <1>3, <1>4, <2>3, <2>4, <2>5
    <3>2. Commands(plan.batches[n]) = <<>>
      BY <1>1, <2>3, <2>4, <3>1, StillServing
    <3> QED
      BY <1>2, <3>2, RangeEmpty
  <2>7. ~(n < m)
    <3> SUFFICES ASSUME n < m PROVE FALSE
      OBVIOUS
    <3>1. m <= n + c.place - 1 /\ n <= m
      BY <1>3, <1>4, <2>3
    <3>2. Commands(plan.batches[m]) = <<>>
      BY <1>1, <1>2, <2>3, <3>1, StillServing
    <3> QED
      BY <2>4, <3>2, RangeEmpty
  <2>8. m = n
    BY <1>3, <2>3, <2>6, <2>7
  <2>9. d = c
    BY <1>1, <1>2, <1>4, <1>5, <2>4, <2>8, OneCommandEach
  <2> QED
    BY <1>4, <1>5, <2>4, <2>9
<1> QED
  BY <1>6, <1>7

-----------------------------------------------------------------------------
(* The worker                                                                  *)

(* The truth in each place the worker may be. *)
TruthOfPhase ==
  /\ pc = "await_backward" =>
       Truth = IF belt = NoRun THEN FrontToBack(store, Batch.backs[k]) ELSE store
  /\ pc = "await_forward" =>
       Truth = IF belt = NoRun THEN BackToFront(store, Head(refills).level) ELSE store
  /\ pc = "await_move" =>
       /\ arm[Move.g] = "lowering" => Truth = [store EXCEPT ![Move.from] = <<>>]
       /\ arm[Move.g] = "idle" => Truth = MoveGoods(store, Move.from, Move.to)
       /\ arm[Move.g] = "lifting" => Truth = store
  /\ Counted => Truth = LessHeads(store, Slots(Batch.picks, DroppedPicks \ Recorded))
  /\ pc \in {"backward", "move", "command_move", "refill", "command_forward", "batch",
             "await_idle", "clear", "count", "done"} => Truth = store

LEMMA TruthByPhase == TruthOfPhase /\ TruthOfPhase'
<1>1. TruthOfPhase
  BY DEF TruthOfPhase, Truth, Counted, Still
<1>2. TruthOfPhase'
  BY <1>1, PTL
<1> QED
  BY <1>1, <1>2

(* Nothing the worker writes moves a box. *)
LEMMA HandsLeftAlone ==
  ASSUME DeviceInv, Worker
  PROVE  /\ shelf' = shelf /\ held' = held
         /\ \A g \in Gripper : \A loc : Holds(g, loc)' <=> Holds(g, loc)
<1>1. /\ arm \in [Gripper -> {"idle", "picking", "holding", "returning", "lifting", "lowering"}]
      /\ DOMAIN task = Gripper /\ task = [g \in Gripper |-> task[g]]
  BY DEF DeviceInv
<1>2. CASE UNCHANGED <<shelf, arm, task, held, belt>>
  BY <1>2 DEF Holds
<1>3. CASE CommandBackward \/ CommandForward
  BY <1>3 DEF CommandBackward, CommandForward, armVars, Holds
<1>4. CASE CommandMove
  <2>1. PICK a : a = Move.g
    OBVIOUS
  <2>2. shelf' = shelf /\ held' = held
    BY <1>4 DEF CommandMove
  <2>3. CASE Still(a)
    <3>1. /\ arm' = [arm EXCEPT ![a] = "lifting"]
          /\ task' = [task EXCEPT ![a] = [from |-> Move.from, to |-> Move.to, left |-> 0]]
      BY <1>4, <2>1, <2>3 DEF CommandMove
    <3>2. \A g \in Gripper : g # a => arm'[g] = arm[g] /\ task'[g] = task[g]
      BY <1>1, <3>1
    <3>3. a \in Gripper => arm[a] = "idle" /\ arm'[a] = "lifting"
      BY <1>1, <2>3, <3>1 DEF Still
    <3> QED
      BY <2>2, <3>2, <3>3 DEF Holds
  <2>4. CASE ~Still(a)
    <3>1. arm' = arm /\ task' = task
      BY <1>4, <2>1, <2>4 DEF CommandMove
    <3> QED
      BY <2>2, <3>1 DEF Holds
  <2> QED
    BY <2>3, <2>4
<1>5. CASE TriggerGripper
  <2>1. PICK c : c = Commands(Batch)[k]
    OBVIOUS
  <2>2. shelf' = shelf /\ held' = held
    BY <1>5 DEF TriggerGripper
  <2>3. CASE Still(c.g)
    <3>1. /\ arm' = [arm EXCEPT ![c.g] = "picking"]
          /\ task' = [task EXCEPT ![c.g] =
                        [loc |-> c.loc, count |-> Len(c.picked), left |-> c.place]]
      BY <1>5, <2>1, <2>3 DEF TriggerGripper
    <3>2. \A g \in Gripper : g # c.g => arm'[g] = arm[g] /\ task'[g] = task[g]
      BY <1>1, <3>1
    <3>3. c.g \in Gripper => arm[c.g] = "idle" /\ arm'[c.g] = "picking"
      BY <1>1, <2>3, <3>1 DEF Still
    <3> QED
      BY <2>2, <3>2, <3>3 DEF Holds
  <2>4. CASE ~Still(c.g)
    <3>1. arm' = arm /\ task' = task
      BY <1>5, <2>1, <2>4 DEF TriggerGripper
    <3> QED
      BY <2>2, <3>1 DEF Holds
  <2> QED
    BY <2>3, <2>4
<1>6. CASE CommandReturn
  <2>1. /\ shelf' = shelf /\ held' = held /\ task' = task
        /\ arm' = [g \in Gripper |-> IF g \in Waiting THEN "returning" ELSE arm[g]]
    BY <1>6 DEF CommandReturn
  <2>2. \A g \in Gripper :
          arm'[g] \in {"holding", "returning"} <=> arm[g] \in {"holding", "returning"}
    BY <2>1 DEF Waiting
  <2> QED
    BY <2>1, <2>2 DEF Holds
<1> QED
  BY <1>2, <1>3, <1>4, <1>5, <1>6, DevicesFrame

LEMMA StandsKept ==
  ASSUME NEW loc, NEW boxes, shelf'[loc] = shelf[loc],
         \A g \in Gripper : Holds(g, loc)' <=> Holds(g, loc),
         \A g \in Gripper : Holds(g, loc) => held'[g] = held[g]
  PROVE  Stands(loc, boxes) => Stands(loc, boxes)'
  BY DEF Stands

(* A slot that is empty in truth is empty, and no gripper has boxes of it. *)
LEMMA EmptySlot ==
  ASSUME DeviceInv, NEW loc \in Location, Stands(loc, <<>>)
  PROVE  shelf[loc] = <<>> /\ \A g \in Gripper : ~Holds(g, loc)
<1>1. \A g \in Gripper : ~Holds(g, loc)
  <2> SUFFICES ASSUME NEW g \in Gripper, Holds(g, loc) PROVE FALSE
    OBVIOUS
  <2>1. <<>> = held[g] \o shelf[loc] /\ held[g] # <<>>
    BY DEF Stands, Holds
  <2>2. PICK s \in Seq(Sku) : s = held[g]
    BY DEF DeviceInv
  <2>3. PICK t \in Seq(Sku) : t = shelf[loc]
    BY DEF DeviceInv
  <2>4. Len(s \o t) = Len(s) + Len(t) /\ Len(s) \in Nat \ {0} /\ Len(t) \in Nat
    BY <2>1, <2>2, EmptySeq
  <2>5. Len(s \o t) = 0
    BY <2>1, <2>2, <2>3
  <2> QED
    BY <2>4, <2>5
<1> QED
  BY <1>1 DEF Stands

(* The worker takes a conveyor run to be over only when it is. *)
LEMMA BackwardOver ==
  ASSUME TypeInv, BoxInv, BackwardComplete
  PROVE  belt = NoRun
<1> SUFFICES ASSUME belt # NoRun PROVE FALSE
  OBVIOUS
<1>1. pc = "await_backward" /\ Going /\ Orderly /\ Batch.backs[k] \in polled.back
  BY DEF BackwardComplete, Going, Orderly
<1>2. Batch.backs[k] \in Level /\ BackEmpty(store, Batch.backs[k])
  BY <1>1, BackwardPossible DEF BoxInv
<1>3. ~BackEmpty(shelf, Batch.backs[k])
  BY <1>1 DEF BoxInv, BeltInv
<1>4. PICK level \in Level : level = Batch.backs[k]
  BY <1>2
<1>5. PICK loc \in BackSlots(level) : shelf[loc] # <<>>
  BY <1>3, <1>4 DEF BackEmpty
<1>6. loc \in Location
  BY <1>5 DEF BackSlots, Slot, Level, Location, Position
<1>7. Truth = store
  BY <1>1, TruthByPhase DEF TruthOfPhase
<1>8. store[loc] = <<>>
  BY <1>2, <1>4, <1>5 DEF BackEmpty
<1>9. Stands(loc, <<>>)
  BY <1>1, <1>6, <1>7, <1>8 DEF BoxInv, ShelfInv
<1>10. shelf[loc] = <<>>
  BY <1>6, <1>9, EmptySlot DEF TypeInv
<1> QED
  BY <1>5, <1>10

LEMMA ForwardOver ==
  ASSUME TypeInv, FrontInv, BoxInv, ForwardComplete
  PROVE  belt = NoRun
<1> SUFFICES ASSUME belt # NoRun PROVE FALSE
  OBVIOUS
<1>1. pc = "await_forward" /\ Going /\ Head(refills).level \in polled.front
  BY DEF ForwardComplete, Going
<1>2. belt = [way |-> "forward", level |-> Head(refills).level]
  BY <1>1 DEF BoxInv, BeltInv
<1>3. belt.way = "forward" /\ belt.level = Head(refills).level
  BY <1>2
<1>4. belt.level \notin polled.front
  BY <1>1, <1>3 DEF FrontInv
<1> QED
  BY <1>1, <1>3, <1>4

(* Whatever the worker does, in its inventory too, the truth stays the same.   *)
LEMMA TruthKeptByWorker ==
  ASSUME OneBoxEach, SlotsInReach, TypeInv, Safe, BoxInv, Worker, Orderly', ~hasty'
  PROVE  Truth' = Truth
<1>1. TypeInv /\ CountInv /\ SeenInv /\ PhaseInv /\ FrontInv /\ FitInv
  BY DEF Safe, BoxInv
<1>2. TruthOfPhase /\ TruthOfPhase'
  BY TruthByPhase
<1>3. CASE \/ BackwardsDone \/ MovesDone \/ MoveGripperIdle \/ RefillsDone \/ FrontClear
           \/ StartBatch \/ AllGrippersIdle \/ ClearOutboundComplete \/ PlanDone
  <2>1. store' = store
    BY <1>3 DEF BackwardsDone, MovesDone, MoveGripperIdle, RefillsDone, FrontClear,
                StartBatch, AllGrippersIdle, ClearOutboundComplete, PlanDone, Stay
  <2>2. /\ pc \in {"backward", "move", "command_move", "refill", "command_forward", "batch",
                   "await_idle", "clear", "count", "done"}
        /\ pc' \in {"backward", "move", "command_move", "refill", "command_forward", "batch",
                    "await_idle", "clear", "count", "done"}
    BY <1>3 DEF BackwardsDone, MovesDone, MoveGripperIdle, RefillsDone, FrontClear, Goto,
                StartBatch, AllGrippersIdle, ClearOutboundComplete, PlanDone, Orderly
  <2> QED
    BY <1>2, <2>1, <2>2 DEF TruthOfPhase
<1>4. CASE CommandBackward \/ CommandForward
  <2>1. /\ store' = store /\ belt' # NoRun /\ pc \in {"backward", "command_forward"}
        /\ pc' \in {"await_backward", "await_forward"}
    BY <1>4 DEF CommandBackward, CommandForward, NoRun
  <2> QED
    BY <1>2, <2>1 DEF TruthOfPhase
<1>5. CASE BackwardComplete
  <2>1. belt = NoRun
    BY <1>1, <1>5, BackwardOver
  <2>2. /\ pc = "await_backward" /\ pc' = "backward"
        /\ store' = FrontToBack(store, Batch.backs[k])
    BY <1>5 DEF BackwardComplete, Orderly
  <2> QED
    BY <1>2, <2>1, <2>2 DEF TruthOfPhase
<1>6. CASE ForwardComplete
  <2>1. belt = NoRun
    BY <1>1, <1>6, ForwardOver
  <2>2. /\ pc = "await_forward" /\ pc' = "refill"
        /\ store' = BackToFront(store, Head(refills).level)
    BY <1>6 DEF ForwardComplete, Orderly
  <2> QED
    BY <1>2, <2>1, <2>2 DEF TruthOfPhase
<1>7. CASE CommandMove
  <2>1. pc = "command_move" /\ pc' = "await_move" /\ store' = store /\ Still(Move.g)
        /\ plan' = plan /\ b' = b /\ k' = k
    BY <1>1, <1>7 DEF CommandMove, PhaseInv
  <2>2. PICK g : g = Move.g
    OBVIOUS
  <2>3. Move.g \in Gripper
    BY <1>1, <2>1, MoveListed
  <2>4. arm' = [arm EXCEPT ![g] = "lifting"]
    BY <1>7, <2>1, <2>2 DEF CommandMove
  <2>5. arm'[g] = "lifting"
    BY <1>1, <2>2, <2>3, <2>4 DEF TypeInv, DeviceInv
  <2>6. Move' = Move
    BY <2>1 DEF Move, Batch
  <2> QED
    BY <1>2, <2>1, <2>2, <2>5, <2>6 DEF TruthOfPhase
<1>8. CASE MoveComplete
  <2>1. Still(Move.g)
    BY <1>1, <1>8, MoveOver
  <2>2. /\ pc = "await_move" /\ pc' = "move" /\ store' = MoveGoods(store, Move.from, Move.to)
    BY <1>8 DEF MoveComplete, Orderly
  <2> QED
    BY <1>2, <2>1, <2>2 DEF TruthOfPhase, Still
<1>9. CASE WriteBatchCount
  <2>1. /\ pc = "count" /\ pc' \in {"trigger", "await_complete"} /\ dropped' = {}
        /\ store' = store /\ plan' = plan /\ b' = b
    BY <1>9 DEF WriteBatchCount, Goto
  <2>2. Counted' /\ DroppedPicks' \ Recorded' = {}
    BY <2>1 DEF Counted, DroppedPicks
  <2>3. store \in Inventory
    BY <1>1 DEF TypeInv, StoreInv, Inventory
  <2>4. Slots(Batch'.picks, {}) = {} /\ LessHeads(store, {}) = store
    BY <2>3, HeadsOff DEF Slots
  <2>5. Truth' = LessHeads(store, {})
    BY <1>2, <2>1, <2>2, <2>4 DEF TruthOfPhase
  <2> QED
    BY <1>2, <2>1, <2>4, <2>5 DEF TruthOfPhase
<1>10. CASE \/ TriggerGripper \/ BatchComplete \/ Announce \/ CommandReturn \/ Settled
            \/ ReturnComplete
  <2>1. plan' = plan /\ b' = b /\ store' = store /\ dropped' = dropped /\ Counted
        /\ pc # "store"
    BY <1>10 DEF TriggerGripper, BatchComplete, Announce, CommandReturn, Settled,
                 ReturnComplete, Stay, lineVars, Counted
  <2>2. Counted'
    BY <1>10 DEF TriggerGripper, BatchComplete, Announce, CommandReturn, Settled,
                 ReturnComplete, Goto, Orderly, Counted
  <2>3. Recorded' = {} /\ Recorded = {}
    <3>1. pc' = "store" => k' = 1
      <4>1. pc' = "store" => (Announce \/ ReturnComplete) /\ k' = k
        BY <1>10 DEF TriggerGripper, BatchComplete, Announce, CommandReturn, Settled,
                     ReturnComplete, Goto
      <4>2. Announce \/ ReturnComplete => k = 1
        BY <1>1 DEF Announce, ReturnComplete, TypeInv, PlaceInv
      <4> QED
        BY <4>1, <4>2
    <3>2. 1..(1 - 1) = {}
      OBVIOUS
    <3> QED
      BY <2>1, <3>1, <3>2 DEF Recorded
  <2>4. Batch' = Batch
    BY <2>1 DEF Batch
  <2>5. DroppedPicks' \ Recorded' = DroppedPicks \ Recorded
    BY <2>1, <2>3, <2>4 DEF DroppedPicks
  <2> QED
    BY <1>2, <2>1, <2>2, <2>4, <2>5 DEF TruthOfPhase
<1>11. CASE UpdateStore
  <2>1. pc = "store" /\ Counted /\ Going /\ dropped' = dropped
    BY <1>11 DEF UpdateStore, Counted, Going, Stay, lineVars
  <2>2. /\ plan \in Plans /\ b \in 1..Len(plan.batches) /\ k \in 1..Len(Batch.picks)
        /\ plan' = plan /\ Len(Batch.picks) \in Nat
        /\ DOMAIN Batch.picks = 1..Len(Batch.picks) /\ Batch.picks[k].loc \in Location
        /\ store' = [store EXCEPT ![Batch.picks[k].loc] = Tail(store[Batch.picks[k].loc])]
        /\ Recorded = 1..(k - 1)
    BY <1>1, <1>11, UpdatedStore
  <2>3. DroppedPicks = 1..Len(Batch.picks)
    <3>1. dropped = Served(Batch)
      BY <1>1, <2>1 DEF CountInv
    <3> QED
      BY <2>2, <3>1 DEF DroppedPicks, Served
  <2>4. PICK picks : picks = Batch.picks
    OBVIOUS
  <2>5. PICK rest : rest = (1..Len(picks)) \ (1..k)
    OBVIOUS
  <2>6. /\ (1..Len(picks)) \ (1..(k - 1)) = rest \cup {k} /\ k \notin rest
        /\ rest \in SUBSET (1..Len(picks))
    BY <2>2, <2>4, <2>5
  <2>7. /\ Slots(picks, rest) \in SUBSET Location
        /\ picks[k].loc \in Location \ Slots(picks, rest)
        /\ Slots(picks, rest \cup {k}) = Slots(picks, rest) \cup {picks[k].loc}
    <3>1. plan \in Plans /\ b \in 1..Len(plan.batches)
      BY <2>2
    <3>2. \A I \in SUBSET (1..Len(Batch.picks)) :
            /\ Slots(Batch.picks, I) \subseteq Location
            /\ \A i \in 1..Len(Batch.picks) :
                 /\ Slots(Batch.picks, I \cup {i}) = Slots(Batch.picks, I) \cup {Batch.picks[i].loc}
                 /\ i \notin I => Batch.picks[i].loc \notin Slots(Batch.picks, I)
      BY <3>1, SlotsOfPicks DEF Batch
    <3> QED
      BY <2>2, <2>4, <2>6, <3>2
  <2>8. LessHeads(store', Slots(picks, rest)) = LessHeads(store, Slots(picks, rest \cup {k}))
    <3>1. PICK stock \in Inventory : stock = store
      BY <1>1 DEF TypeInv, StoreInv, Inventory
    <3>2. PICK at : at = picks[k].loc
      OBVIOUS
    <3>3. store' = [stock EXCEPT ![at] = Tail(stock[at])]
      BY <2>2, <2>4, <3>1, <3>2
    <3>4. PICK slots \in SUBSET Location : slots = Slots(picks, rest)
      BY <2>7
    <3>5. at \in Location \ slots
      BY <2>7, <3>2, <3>4
    <3>6. LessHeads([stock EXCEPT ![at] = Tail(stock[at])], slots)
            = LessHeads(stock, slots \cup {at})
      BY <3>5, HeadsOff
    <3> QED
      BY <2>7, <3>1, <3>2, <3>3, <3>4, <3>6
  <2>9. Truth = LessHeads(store, Slots(picks, rest \cup {k}))
    BY <1>2, <2>1, <2>2, <2>3, <2>4, <2>6 DEF TruthOfPhase
  <2>10. CASE k < Len(Batch.picks)
    <3>1. k' = k + 1 /\ pc' = "store" /\ b' = b
      BY <1>1, <1>11, <2>10, UpdatedStore
    <3>2. Batch' = Batch /\ Recorded' = 1..k /\ Counted'
      <4>1. k' - 1 = k
        BY <2>2, <3>1
      <4> QED
        BY <2>2, <3>1, <4>1 DEF Batch, Recorded, Counted
    <3>3. DroppedPicks' \ Recorded' = rest
      BY <2>1, <2>3, <2>4, <2>5, <3>2 DEF DroppedPicks
    <3> QED
      BY <1>2, <2>4, <2>8, <2>9, <3>2, <3>3 DEF TruthOfPhase
  <2>11. CASE ~(k < Len(Batch.picks))
    <3>1. pc' = "backward" /\ k = Len(Batch.picks)
      BY <1>1, <1>11, <2>11, UpdatedStore
    <3>2. rest = {}
      BY <2>4, <2>5, <3>1
    <3>3. Slots(picks, rest) = {}
      BY <3>2 DEF Slots
    <3>4. LessHeads(store', {}) = store'
      <4>1. PICK stock : stock = store'
        OBVIOUS
      <4>2. stock \in Inventory
        <5>1. Next /\ PlaceInv /\ StoreInv
          BY <1>1 DEF Next, TypeInv
        <5>2. StoreInv'
          BY <5>1, StoreStep
        <5> QED
          BY <4>1, <5>2 DEF StoreInv, Inventory
      <4> QED
        BY <4>1, <4>2, HeadsOff
    <3>5. Truth' = store'
      BY <1>2, <3>1 DEF TruthOfPhase
    <3> QED
      BY <2>8, <2>9, <3>3, <3>4, <3>5
  <2> QED
    BY <2>10, <2>11
<1> QED
  BY <1>3, <1>4, <1>5, <1>6, <1>7, <1>8, <1>9, <1>10, <1>11 DEF Worker

-----------------------------------------------------------------------------
(* The machinery                                                               *)

(* Boxes taken off the front of a row, and put before one. *)
LEMMA SplitRow ==
  ASSUME NEW S, NEW s \in Seq(S), NEW n \in 0..Len(s)
  PROVE  /\ SubSeq(s, 1, n) \in Seq(S) /\ SubSeq(s, n + 1, Len(s)) \in Seq(S)
         /\ SubSeq(s, 1, n) \o SubSeq(s, n + 1, Len(s)) = s
         /\ SubSeq(s, 1, n) = <<>> => SubSeq(s, n + 1, Len(s)) = s
<1>1. Len(s) \in Nat /\ n \in Nat /\ n <= Len(s)
  OBVIOUS
<1> DEFINE p == SubSeq(s, 1, n) q == SubSeq(s, n + 1, Len(s))
<1>2. p \in Seq(S) /\ q \in Seq(S)
  BY <1>1
<1>3. p \o q = s
  <2>1. /\ 1 \in 1..(Len(s) + 1) /\ n \in (1 - 1)..Len(s) /\ Len(s) \in n..Len(s)
    BY <1>1
  <2>2. p \o q = SubSeq(s, 1, Len(s))
    BY <2>1, ConcatAdjacentSubSeq
  <2> QED
    BY <2>2, SubSeqFull
<1> HIDE DEF p, q
<1>4. ASSUME p = <<>> PROVE q = s
  <2>1. <<>> \o q = q
    BY <1>2, ConcatEmptySeq
  <2> QED
    BY <1>3, <1>4, <2>1
<1> QED
  BY <1>2, <1>3, <1>4 DEF p, q

LEMMA HeadOfConcat ==
  ASSUME NEW S, NEW s \in Seq(S), NEW t \in Seq(S), s # <<>>
  PROVE  /\ Head(s \o t) = Head(s) /\ Tail(s \o t) = Tail(s) \o t
         /\ Tail(s) \in Seq(S) /\ s \o t # <<>>
<1>1. PICK n \in Nat \ {0} : n = Len(s)
  BY EmptySeq
<1>2. PICK m \in Nat : m = Len(t)
  BY LenProperties
<1> DEFINE r == s \o t
<1>3. /\ r \in Seq(S) /\ Len(r) = n + m
      /\ \A i \in 1..(n + m) : r[i] = IF i <= n THEN s[i] ELSE t[i - n]
  BY <1>1, <1>2, ConcatProperties
<1>4. r # <<>> /\ Head(r) = r[1] /\ Head(s) = s[1]
  <2> HIDE DEF r
  <2> QED
    BY <1>1, <1>2, <1>3, EmptySeq
<1>5. r[1] = s[1]
  BY <1>1, <1>2, <1>3
<1> HIDE DEF r
<1>6. PICK u : u = Tail(s)
  OBVIOUS
<1>7. PICK v : v = Tail(r)
  OBVIOUS
<1>8. u \in Seq(S) /\ Len(u) = n - 1 /\ \A i \in 1..(n - 1) : u[i] = s[i + 1]
  BY <1>1, <1>6, HeadTailProperties
<1>9. v \in Seq(S) /\ Len(v) = n + m - 1 /\ \A i \in 1..(n + m - 1) : v[i] = r[i + 1]
  <2>1. v \in Seq(S) /\ Len(v) = Len(r) - 1 /\ \A i \in 1..Len(v) : v[i] = r[i + 1]
    BY <1>3, <1>4, <1>7, HeadTailProperties
  <2> QED
    BY <1>1, <1>2, <1>3, <2>1
<1>10. PICK w : w = u \o t
  OBVIOUS
<1>11. /\ w \in Seq(S) /\ Len(w) = n - 1 + m
       /\ \A i \in 1..(n - 1 + m) : w[i] = IF i <= n - 1 THEN u[i] ELSE t[i - (n - 1)]
  <2>1. /\ w \in Seq(S) /\ Len(w) = Len(u) + Len(t)
        /\ \A i \in 1..(Len(u) + Len(t)) : w[i] = IF i <= Len(u) THEN u[i] ELSE t[i - Len(u)]
    <3> u \in Seq(S) /\ t \in Seq(S)
      BY <1>8
    <3> QED
      BY <1>10, ConcatProperties
  <2>2. Len(u) = n - 1 /\ Len(t) = m
    BY <1>2, <1>8
  <2> QED
    BY ONLY <2>1, <2>2
<1>12. \A i \in 1..(n + m - 1) : w[i] = v[i]
  <2> SUFFICES ASSUME NEW i \in 1..(n + m - 1) PROVE w[i] = v[i]
    OBVIOUS
  <2>1. i + 1 \in 1..(n + m) /\ i \in 1..(n - 1 + m) /\ i - (n - 1) = (i + 1) - n
    BY <1>1, <1>2
  <2>2. v[i] = IF i + 1 <= n THEN s[i + 1] ELSE t[(i + 1) - n]
    BY <1>3, <1>9, <2>1
  <2>3. CASE i <= n - 1
    <3>1. i \in 1..(n - 1) /\ i + 1 <= n
      BY <1>1, <2>3
    <3> QED
      BY <1>8, <1>11, <2>1, <2>2, <2>3, <3>1
  <2>4. CASE ~(i <= n - 1)
    <3>1. ~(i + 1 <= n)
      BY <1>1, <2>4
    <3> QED
      BY <1>11, <2>1, <2>2, <2>4, <3>1
  <2> QED
    BY <2>3, <2>4
<1>13. w = v
  <2>1. Len(w) = Len(v) /\ \A i \in 1..Len(w) : w[i] = v[i]
    BY <1>1, <1>2, <1>9, <1>11, <1>12
  <2> QED
    BY <1>9, <1>11, <2>1, SeqEqual
<1> QED
  BY <1>4, <1>5, <1>6, <1>7, <1>8, <1>10, <1>13 DEF r

(* A gripper that does something does it alone. *)
LEMMA OthersLeftAlone ==
  ASSUME DeviceInv, NEW g \in Gripper,
         PickUp(g) \/ DropBox(g) \/ GoHome(g) \/ ReturnBoxes(g) \/ Lift(g) \/ Lower(g),
         NEW h \in Gripper, h # g
  PROVE  /\ arm'[h] = arm[h] /\ held'[h] = held[h] /\ task'[h] = task[h]
         /\ HasBoxes(h)' <=> HasBoxes(h)
         /\ \A loc : Holds(h, loc)' <=> Holds(h, loc)
<1>1. /\ arm \in [Gripper -> {"idle", "picking", "holding", "returning", "lifting", "lowering"}]
      /\ held \in [Gripper -> Seq(Sku)] /\ DOMAIN task = Gripper
  BY DEF DeviceInv
<1>2. arm'[h] = arm[h] /\ held'[h] = held[h] /\ task'[h] = task[h]
  BY <1>1 DEF PickUp, DropBox, GoHome, ReturnBoxes, Lift, Lower
<1> QED
  BY <1>2 DEF HasBoxes, Holds

LEMMA OtherSlot ==
  ASSUME NEW g \in Gripper, NEW loc,
         \A h \in Gripper \ {g} : Holds(h, loc)' <=> Holds(h, loc),
         \A h \in Gripper \ {g} : held'[h] = held[h],
         shelf'[loc] = shelf[loc], ~Holds(g, loc), ~Holds(g, loc)',
         NEW boxes, Stands(loc, boxes)
  PROVE  Stands(loc, boxes)'
<1>1. \A h \in Gripper : Holds(h, loc)' <=> Holds(h, loc)
  OBVIOUS
<1>2. \A h \in Gripper : Holds(h, loc) => held'[h] = held[h]
  OBVIOUS
<1> QED
  BY <1>1, <1>2, StandsKept

LEMMA OwnSlotStands ==
  ASSUME NEW g \in Gripper, NEW loc, \A h \in Gripper \ {g} : ~Holds(h, loc)',
         NEW boxes, Holds(g, loc)' => boxes = held'[g] \o shelf'[loc],
         ~Holds(g, loc)' => boxes = shelf'[loc]
  PROVE  Stands(loc, boxes)'
  BY DEF Stands

(* What the truth depends on. *)
LEMMA TruthKept ==
  ASSUME UNCHANGED <<plan, store, pc, b, k, refills, dropped, belt>>,
         pc = "await_move" => arm'[Move.g] = arm[Move.g]
  PROVE  Truth' = Truth
<1>1. Batch' = Batch /\ Move' = Move /\ Recorded' = Recorded /\ Counted' = Counted
  BY DEF Batch, Move, Recorded, Counted
<1>2. DroppedPicks' = DroppedPicks
  BY <1>1 DEF DroppedPicks
<1>3. CASE pc = "await_move"
  BY <1>1, <1>2, <1>3 DEF Truth, Still
<1>4. CASE pc # "await_move"
  BY <1>1, <1>2, <1>4 DEF Truth
<1> QED
  BY <1>3, <1>4

LEMMA StandsNext ==
  ASSUME NEW loc, NEW boxes, boxes = Truth'[loc], Stands(loc, boxes)'
  PROVE  Stands(loc, Truth[loc])'
  BY DEF Stands

(* Where no other gripper has boxes of the slot this one takes from. *)
LEMMA OwnSlotOnly ==
  ASSUME SlotInv, Orderly, NEW g \in Gripper, HasBoxes(g), NEW h \in Gripper, h # g
  PROVE  ~Holds(h, task[g].loc)
  BY DEF SlotInv, HasBoxes, Holds

(* While a move is awaited no other gripper changes the truth. *)
LEMMA MoverIdle ==
  ASSUME TypeInv, PhaseInv, NEW g \in Gripper, pc = "await_move",
         PickUp(g) \/ DropBox(g) \/ GoHome(g) \/ ReturnBoxes(g)
  PROVE  arm'[Move.g] = arm[Move.g]
<1>1. Move.g \in Gripper
  <2>1. plan \in Plans /\ b \in 1..Len(plan.batches) /\ k \in 1..Len(Batch.moves)
    BY DEF TypeInv, PlaceInv, Going
  <2>2. Move \in MoveStep
    BY <2>1, BatchType DEF Move
  <2> QED
    BY <2>2 DEF MoveStep
<1>2. arm[Move.g] \in {"idle", "lifting", "lowering"}
  BY DEF PhaseInv
<1>3. arm[g] \in {"picking", "holding", "returning"}
  BY DEF PickUp, DropBox, GoHome, ReturnBoxes
<1>4. g # Move.g
  BY <1>2, <1>3
<1> QED
  BY <1>1, <1>4, OthersLeftAlone DEF TypeInv

(* What a gripper takes from its slot, and what it leaves there. *)
LEMMA PickUpSplits ==
  ASSUME DeviceInv, NEW g \in Gripper, PickUp(g)
  PROVE  /\ task[g].loc \in Location
         /\ \E taken, rest \in Seq(Sku) :
              /\ taken \o rest = shelf[task[g].loc]
              /\ taken = <<>> => rest = shelf[task[g].loc]
              /\ held' = [held EXCEPT ![g] = taken]
              /\ shelf' = [shelf EXCEPT ![task[g].loc] = rest]
<1>1. PICK at : at = task[g].loc
  OBVIOUS
<1>2. at \in Location /\ task[g].count \in Nat
  BY <1>1 DEF DeviceInv, PickUp, PickTask
<1>3. PICK slot \in Seq(Sku) : slot = shelf[at]
  BY <1>2 DEF DeviceInv
<1>4. PICK n \in 0..Len(slot) : n = Min({task[g].count, Len(slot)})
  <2>1. PICK c \in Nat : c = task[g].count
    BY <1>2
  <2>2. PICK l \in Nat : l = Len(slot)
    BY <1>3, LenProperties
  <2>3. \E x \in {c, l} : \A y \in {c, l} : x <= y
    OBVIOUS
  <2>4. Min({c, l}) \in {c, l} /\ \A y \in {c, l} : Min({c, l}) <= y
    BY <2>3 DEF Min
  <2> DEFINE m == Min({c, l})
  <2>5. m \in Nat /\ m <= l
    BY <2>4
  <2> HIDE DEF m
  <2>6. m \in 0..l
    BY <2>5
  <2> QED
    BY <2>1, <2>2, <2>6 DEF m
<1>5. PICK taken : taken = SubSeq(slot, 1, n)
  OBVIOUS
<1>6. PICK rest : rest = SubSeq(slot, n + 1, Len(slot))
  OBVIOUS
<1>7. /\ taken \in Seq(Sku) /\ rest \in Seq(Sku) /\ taken \o rest = slot
      /\ taken = <<>> => rest = slot
  BY <1>3, <1>4, <1>5, <1>6, SplitRow
<1>8. held' = [held EXCEPT ![g] = taken] /\ shelf' = [shelf EXCEPT ![at] = rest]
  BY <1>1, <1>3, <1>4, <1>5, <1>6 DEF PickUp
<1> QED
  BY <1>1, <1>2, <1>3, <1>7, <1>8

LEMMA ShelfPickUp ==
  ASSUME TypeInv, PhaseInv, BoxInv, Orderly, NEW g \in Gripper, PickUp(g)
  PROVE  \A loc \in Location : Stands(loc, Truth[loc])'
<1>1. /\ DeviceInv /\ SlotInv /\ arm[g] = "picking" /\ HasBoxes(g)
      /\ \A loc \in Location : Stands(loc, Truth[loc])
  BY DEF TypeInv, BoxInv, PickUp, ShelfInv, HasBoxes
<1>2. PICK at : at = task[g].loc
  OBVIOUS
<1>3. at \in Location
  BY <1>1, <1>2, PickUpSplits
<1>4. PICK slot \in Seq(Sku) : slot = shelf[at]
  BY <1>1, <1>3 DEF DeviceInv
<1>5. DeviceInv
  BY <1>1
<1>6. PICK taken, rest \in Seq(Sku) :
        /\ taken \o rest = shelf[task[g].loc]
        /\ taken = <<>> => rest = shelf[task[g].loc]
        /\ held' = [held EXCEPT ![g] = taken]
        /\ shelf' = [shelf EXCEPT ![task[g].loc] = rest]
  BY <1>5, PickUpSplits
<1>7. taken \o rest = slot /\ (taken = <<>> => rest = slot)
  BY <1>2, <1>4, <1>6
<1>8. held' = [held EXCEPT ![g] = taken] /\ shelf' = [shelf EXCEPT ![at] = rest]
  BY <1>2, <1>6
<1>9. /\ arm' = [arm EXCEPT ![g] = "holding"] /\ task' = task
      /\ UNCHANGED <<plan, store, pc, b, k, refills, dropped, belt>>
  BY DEF PickUp, hostVars, lineVars
<1>10. /\ held'[g] = taken /\ shelf'[at] = rest /\ arm'[g] = "holding"
       /\ \A loc : loc # at => shelf'[loc] = shelf[loc]
  BY <1>1, <1>3, <1>8, <1>9 DEF DeviceInv
<1>11. /\ Truth' = Truth
  BY <1>9, TruthKept, MoverIdle
<1>12. \A h \in Gripper \ {g} : ~Holds(h, at)
  BY <1>1, <1>2, OwnSlotOnly
<1>13. /\ \A h \in Gripper \ {g} : held'[h] = held[h]
       /\ \A h \in Gripper \ {g} : \A loc : Holds(h, loc)' <=> Holds(h, loc)
  BY <1>1, OthersLeftAlone
<1>14. \A loc : ~Holds(g, loc)
  BY <1>1 DEF Holds
<1>15. Truth[at] = slot
  BY <1>1, <1>3, <1>4, <1>12, <1>14 DEF Stands
<1>16. Stands(at, slot)'
  <2>1. \A h \in Gripper \ {g} : ~Holds(h, at)'
    BY <1>12, <1>13
  <2>2. Holds(g, at)' => slot = held'[g] \o shelf'[at]
    BY <1>7, <1>10
  <2>3. ~Holds(g, at)' => slot = shelf'[at]
    <3> SUFFICES ASSUME ~Holds(g, at)' PROVE slot = shelf'[at]
      OBVIOUS
    <3>1. held'[g] = <<>>
      BY <1>2, <1>9, <1>10 DEF Holds
    <3> QED
      BY <1>7, <1>10, <3>1
  <2> QED
    BY <2>1, <2>2, <2>3, OwnSlotStands
<1> SUFFICES ASSUME NEW loc \in Location PROVE Stands(loc, Truth[loc])'
  OBVIOUS
<1>17. PICK boxes : boxes = Truth[loc]
  OBVIOUS
<1>18. Stands(loc, boxes)'
  <2>1. CASE loc = at
    BY <1>15, <1>16, <1>17, <2>1
  <2>2. CASE loc # at
    <3>1. ~Holds(g, loc)'
      BY <1>2, <1>9, <2>2 DEF Holds
    <3>2. Stands(loc, boxes)
      BY <1>1, <1>17
    <3> QED
      BY <1>10, <1>13, <1>14, <2>2, <3>1, <3>2, OtherSlot
  <2> QED
    BY <2>1, <2>2
<1> QED
  BY <1>11, <1>17, <1>18, StandsNext

LEMMA ShelfGoHome ==
  ASSUME TypeInv, PhaseInv, BoxInv, Orderly, NEW g \in Gripper, GoHome(g)
  PROVE  \A loc \in Location : Stands(loc, Truth[loc])'
<1>1. /\ DeviceInv /\ arm[g] = "holding" /\ held[g] = <<>>
      /\ \A loc \in Location : Stands(loc, Truth[loc])
  BY DEF TypeInv, BoxInv, GoHome, ShelfInv
<1>2. /\ arm' = [arm EXCEPT ![g] = "idle"] /\ shelf' = shelf /\ held' = held
      /\ UNCHANGED <<plan, store, pc, b, k, refills, dropped, belt>>
  BY DEF GoHome, hostVars, lineVars
<1>3. Truth' = Truth
  BY <1>2, TruthKept, MoverIdle
<1>4. \A h \in Gripper : \A loc : Holds(h, loc)' <=> Holds(h, loc)
  <2>1. \A loc : ~Holds(g, loc) /\ ~Holds(g, loc)'
    BY <1>1, <1>2 DEF Holds
  <2>2. \A h \in Gripper \ {g} : \A loc : Holds(h, loc)' <=> Holds(h, loc)
    BY <1>1, OthersLeftAlone
  <2> QED
    BY <2>1, <2>2
<1> SUFFICES ASSUME NEW loc \in Location PROVE Stands(loc, Truth[loc])'
  OBVIOUS
<1>5. PICK boxes : boxes = Truth[loc]
  OBVIOUS
<1>6. Stands(loc, boxes)'
  BY <1>1, <1>2, <1>4, <1>5, StandsKept
<1> QED
  BY <1>3, <1>5, <1>6, StandsNext

LEMMA ShelfReturn ==
  ASSUME TypeInv, PhaseInv, BoxInv, Orderly, NEW g \in Gripper, ReturnBoxes(g)
  PROVE  \A loc \in Location : Stands(loc, Truth[loc])'
<1>1. /\ DeviceInv /\ SlotInv /\ arm[g] = "returning"
      /\ \A loc \in Location : Stands(loc, Truth[loc])
  BY DEF TypeInv, BoxInv, ReturnBoxes, ShelfInv
<1>2. PICK at : at = task[g].loc
  OBVIOUS
<1>3. at \in Location
  BY <1>1, <1>2 DEF DeviceInv, PickTask
<1>4. /\ shelf' = [shelf EXCEPT ![at] = held[g] \o @]
      /\ arm' = [arm EXCEPT ![g] = "idle"] /\ task' = task
      /\ UNCHANGED <<plan, store, pc, b, k, refills, dropped, belt>>
  BY <1>2 DEF ReturnBoxes, hostVars, lineVars
<1>5. /\ shelf'[at] = held[g] \o shelf[at] /\ arm'[g] = "idle"
      /\ \A loc : loc # at => shelf'[loc] = shelf[loc]
  BY <1>1, <1>3, <1>4 DEF DeviceInv
<1>6. Truth' = Truth
  BY <1>4, TruthKept, MoverIdle
<1>7. /\ \A h \in Gripper \ {g} : held'[h] = held[h]
      /\ \A h \in Gripper \ {g} : \A loc : Holds(h, loc)' <=> Holds(h, loc)
  BY <1>1, OthersLeftAlone
<1>8. \A loc : ~Holds(g, loc)'
  BY <1>5 DEF Holds
<1> SUFFICES ASSUME NEW loc \in Location PROVE Stands(loc, Truth[loc])'
  OBVIOUS
<1>9. PICK boxes : boxes = Truth[loc]
  OBVIOUS
<1>10. Stands(loc, boxes)
  BY <1>1, <1>9
<1>11. Stands(loc, boxes)'
  <2>1. CASE held[g] = <<>>
    <3>1. ~Holds(g, loc)
      BY <2>1 DEF Holds
    <3>2. shelf'[loc] = shelf[loc]
      <4>1. shelf[at] \in Seq(Sku)
        BY <1>1, <1>3 DEF DeviceInv
      <4>2. shelf'[at] = shelf[at]
        BY <1>5, <2>1, <4>1, ConcatEmptySeq
      <4> QED
        BY <1>5, <4>2
    <3> QED
      BY <1>7, <1>8, <1>10, <3>1, <3>2, OtherSlot
  <2>2. CASE held[g] # <<>> /\ loc # at
    <3>1. ~Holds(g, loc)
      BY <1>2, <2>2 DEF Holds
    <3> QED
      BY <1>5, <1>7, <1>8, <1>10, <2>2, <3>1, OtherSlot
  <2>3. CASE held[g] # <<>> /\ loc = at
    <3>1. Holds(g, at) /\ HasBoxes(g)
      BY <1>1, <1>2, <2>3 DEF Holds, HasBoxes
    <3>2. boxes = shelf'[at]
      BY <1>5, <1>10, <2>3, <3>1 DEF Stands
    <3>3. \A h \in Gripper \ {g} : ~Holds(h, at)'
      BY <1>1, <1>2, <1>7, <3>1, OwnSlotOnly
    <3> QED
      BY <1>8, <2>3, <3>2, <3>3, OwnSlotStands
  <2> QED
    BY <2>1, <2>2, <2>3
<1> QED
  BY <1>6, <1>9, <1>11, StandsNext

(* While the batch is prepared no gripper has boxes of a slot that a move      *)
(* takes from.                                                                 *)
LEMMA ShelfLift ==
  ASSUME SlotsInReach, TypeInv, PhaseInv, BoxInv, Orderly, NEW g \in Gripper, Lift(g)
  PROVE  /\ pc = "await_move" /\ g = Move.g
         /\ \A loc \in Location : Stands(loc, Truth[loc])'
         /\ held'[g] = store[Move.from]
<1>1. /\ DeviceInv /\ FitInv /\ arm[g] = "lifting"
      /\ \A loc \in Location : Stands(loc, Truth[loc])
  BY DEF TypeInv, BoxInv, Lift, ShelfInv
<1>2. pc # "done"
  BY <1>1 DEF BoxInv, EndInv
<1>3. Going /\ pc = "await_move" /\ g = Move.g
  BY <1>1, <1>2 DEF Going, Orderly, PhaseInv
<1>4. PICK from : from = Move.from
  OBVIOUS
<1>5. task[g].from = from
  BY <1>1, <1>3, <1>4 DEF BoxInv, MoveInv
<1>6. from \in Location
  BY <1>3, <1>4, MoveListed
<1>8. \A h \in Gripper : ~Holds(h, from)
  <2>1. \A h \in Gripper : HasBoxes(h) => task[h].loc # from
    BY <1>1, <1>3, <1>4 DEF FitInv, MoveFits
  <2> QED
    BY <2>1 DEF Holds, HasBoxes
<1>9. /\ held' = [held EXCEPT ![g] = shelf[from]] /\ shelf' = [shelf EXCEPT ![from] = <<>>]
      /\ arm' = [arm EXCEPT ![g] = "lowering"]
      /\ UNCHANGED <<plan, store, pc, b, k>>
  BY <1>5 DEF Lift, hostVars
<1>10. /\ held'[g] = shelf[from] /\ shelf'[from] = <<>> /\ arm'[g] = "lowering"
       /\ \A loc : loc # from => shelf'[loc] = shelf[loc]
  BY <1>1, <1>6, <1>9 DEF DeviceInv
<1>11. Truth = store
  BY <1>1, <1>3, TruthByPhase DEF TruthOfPhase
<1>12. Move' = Move
  BY <1>9 DEF Move, Batch
<1>13. Truth' = [store EXCEPT ![from] = <<>>]
  BY <1>3, <1>4, <1>9, <1>10, <1>12, TruthByPhase DEF TruthOfPhase
<1>14. store \in [Location -> Seq(Sku)]
  BY DEF TypeInv, StoreInv
<1>15. Truth'[from] = <<>> /\ \A loc : loc # from => Truth'[loc] = store[loc]
  BY <1>6, <1>13, <1>14
<1>16. store[from] = shelf[from]
  BY <1>1, <1>6, <1>8, <1>11 DEF Stands
<1>17. /\ \A h \in Gripper \ {g} : held'[h] = held[h]
       /\ \A h \in Gripper \ {g} : \A loc : Holds(h, loc)' <=> Holds(h, loc)
  BY <1>1, OthersLeftAlone
<1>18. \A loc : ~Holds(g, loc) /\ ~Holds(g, loc)'
  BY <1>1, <1>10 DEF Holds
<1>19. ASSUME NEW loc \in Location
       PROVE  Stands(loc, Truth[loc])'
  <2>1. PICK boxes : boxes = Truth'[loc]
    OBVIOUS
  <2>2. Stands(loc, boxes)'
    <3>1. CASE loc = from
      <4>1. \A h \in Gripper \ {g} : ~Holds(h, loc)'
        BY <1>8, <1>17, <3>1
      <4>2. boxes = shelf'[loc]
        BY <1>10, <1>15, <2>1, <3>1
      <4> QED
        BY <1>18, <4>1, <4>2, OwnSlotStands
    <3>2. CASE loc # from
      <4>1. boxes = Truth[loc]
        BY <1>11, <1>15, <2>1, <3>2
      <4>2. Stands(loc, boxes)
        BY <1>1, <4>1
      <4> QED
        BY <1>10, <1>17, <1>18, <3>2, <4>2, OtherSlot
    <3> QED
      BY <3>1, <3>2
  <2> QED
    BY <2>1, <2>2, StandsNext
<1> QED
  BY <1>3, <1>4, <1>10, <1>16, <1>19

LEMMA ShelfLower ==
  ASSUME SlotsInReach, TypeInv, PhaseInv, BoxInv, Orderly, NEW g \in Gripper, Lower(g)
  PROVE  \A loc \in Location : Stands(loc, Truth[loc])'
<1>1. /\ DeviceInv /\ FitInv /\ arm[g] = "lowering"
      /\ \A loc \in Location : Stands(loc, Truth[loc])
  BY DEF TypeInv, BoxInv, Lower, ShelfInv
<1>2. pc # "done"
  BY <1>1 DEF BoxInv, EndInv
<1>3. Going /\ pc = "await_move" /\ g = Move.g
  BY <1>1, <1>2 DEF Going, Orderly, PhaseInv
<1>4. PICK from : from = Move.from
  OBVIOUS
<1>5. PICK to : to = Move.to
  OBVIOUS
<1>6. task[g].to = to /\ held[g] = store[from]
  BY <1>1, <1>3, <1>4, <1>5 DEF BoxInv, MoveInv
<1>7. from \in Location /\ to \in Location /\ CanMove(store, from, to)
  BY <1>1, <1>3, <1>4, <1>5, MoveListed, MovePossible
<1>8. /\ shelf' = [shelf EXCEPT ![to] = held[g] \o @]
      /\ arm' = [arm EXCEPT ![g] = "idle"]
      /\ UNCHANGED <<plan, store, pc, b, k>>
  BY <1>6 DEF Lower, hostVars
<1>9. /\ shelf'[to] = held[g] \o shelf[to] /\ arm'[g] = "idle"
      /\ \A loc : loc # to => shelf'[loc] = shelf[loc]
  BY <1>1, <1>7, <1>8 DEF DeviceInv
<1>10. Truth = [store EXCEPT ![from] = <<>>]
  BY <1>1, <1>3, <1>4, TruthByPhase DEF TruthOfPhase
<1>11. Move' = Move
  BY <1>8 DEF Move, Batch
<1>12. Truth' = MoveGoods(store, from, to)
  BY <1>3, <1>4, <1>5, <1>8, <1>9, <1>11, TruthByPhase DEF TruthOfPhase
<1>13. store \in [Location -> Seq(Sku)]
  BY DEF TypeInv, StoreInv
<1>14. from # to /\ store[to] = <<>>
  BY <1>7 DEF CanMove
<1>15. /\ Truth[to] = <<>> /\ Truth'[to] = store[from]
       /\ \A loc \in Location : loc # to => Truth'[loc] = Truth[loc]
  <2>1. PICK s \in [Location -> Seq(Sku)] : s = store
    BY <1>13
  <2>2. PICK u : u = [s EXCEPT ![from] = <<>>]
    OBVIOUS
  <2>3. PICK v : v = [s EXCEPT ![to] = s[from], ![from] = <<>>]
    OBVIOUS
  <2>4. s[to] = <<>> /\ from # to
    BY <1>14, <2>1
  <2>5. u[to] = <<>> /\ v[to] = s[from] /\ \A loc \in Location : loc # to => v[loc] = u[loc]
    BY <1>7, <2>2, <2>3, <2>4
  <2>6. Truth = u /\ Truth' = v
    BY <1>10, <1>12, <2>1, <2>2, <2>3 DEF MoveGoods
  <2> QED
    BY <2>1, <2>5, <2>6
<1>16. shelf[to] = <<>> /\ \A h \in Gripper : ~Holds(h, to)
  BY <1>1, <1>7, <1>15, EmptySlot
<1>17. shelf'[to] = store[from]
  <2>1. store[from] \in Seq(Sku)
    BY <1>7, <1>13
  <2> QED
    BY <1>6, <1>9, <1>16, <2>1, ConcatEmptySeq
<1>18. /\ \A h \in Gripper \ {g} : held'[h] = held[h]
       /\ \A h \in Gripper \ {g} : \A loc : Holds(h, loc)' <=> Holds(h, loc)
  BY <1>1, OthersLeftAlone
<1>19. \A loc : ~Holds(g, loc) /\ ~Holds(g, loc)'
  BY <1>1, <1>9 DEF Holds
<1> SUFFICES ASSUME NEW loc \in Location PROVE Stands(loc, Truth[loc])'
  OBVIOUS
<1>20. PICK boxes : boxes = Truth'[loc]
  OBVIOUS
<1>21. Stands(loc, boxes)'
  <2>1. CASE loc = to
    <3>1. \A h \in Gripper \ {g} : ~Holds(h, loc)'
      BY <1>16, <1>18, <2>1
    <3>2. boxes = shelf'[loc]
      BY <1>15, <1>17, <1>20, <2>1
    <3> QED
      BY <1>19, <3>1, <3>2, OwnSlotStands
  <2>2. CASE loc # to
    <3>1. boxes = Truth[loc]
      BY <1>15, <1>20, <2>2
    <3>2. Stands(loc, boxes)
      BY <1>1, <3>1
    <3> QED
      BY <1>9, <1>18, <1>19, <2>2, <3>2, OtherSlot
  <2> QED
    BY <2>1, <2>2
<1> QED
  BY <1>20, <1>21, StandsNext

(* A gripper that has yet to drop its box of the batch finds it at the head of *)
(* its slot, or has it lowest in its hands.                                    *)
LEMMA BoxDue ==
  ASSUME OneBoxEach, WavesKeepApart, SlotsInReach, ContinuesAWave,
         TypeInv, HandInv, BoxInv, pc \in {"trigger", "await_complete"},
         NEW g \in Gripper, g \notin dropped,
         \/ arm[g] = "picking"
         \/ arm[g] = "holding" /\ task[g].left > 0 /\ held[g] # <<>>
  PROVE  /\ b \in 1..Len(plan.batches) /\ store \in Inventory /\ task[g].loc \in Location
         /\ Truth[task[g].loc] = store[task[g].loc] /\ store[task[g].loc] # <<>>
         /\ \E i \in 1..Len(Batch.picks) :
              /\ Batch.picks[i].g = g /\ Batch.picks[i].items = <<Head(store[task[g].loc])>>
              /\ Batch.picks[i].loc = task[g].loc /\ i \notin DroppedPicks
<1>1. /\ Going /\ Counted /\ b \in 1..Len(plan.batches) /\ plan \in Plans
      /\ store \in Inventory /\ Recorded = {}
      /\ \A i \in 1..Len(Batch.picks) :
           /\ Batch.picks[i].loc \in Location /\ store[Batch.picks[i].loc] # <<>>
           /\ Batch.picks[i].items = <<Head(store[Batch.picks[i].loc])>>
  <2>1. Going /\ Counted /\ Started /\ pc # "store" /\ FitInv
    BY DEF Going, Counted, Started, BoxInv
  <2> QED
    BY <2>1, PicksPossible
<1>2. DOMAIN Batch.picks = 1..Len(Batch.picks) /\ b \in DOMAIN plan.batches
  BY <1>1, PlanType DEF Batch
<1>3. PICK n \in 1..Len(plan.batches) : \E c \in Range(Commands(plan.batches[n])) : WorksAt(g, n, c)
  BY <1>1 DEF HandInv, Working
<1>4. PICK c \in Range(Commands(plan.batches[n])) : WorksAt(g, n, c)
  BY <1>3
<1>5. n \in Nat \ {0} /\ b \in Nat \ {0} /\ c.place \in Nat \ {0}
  BY <1>1, CommandNumbers
<1>6. task[g].left > 0
  <2>1. PICK p \in Nat \ {0} : p = c.place
    BY <1>5
  <2>2. CASE arm[g] = "picking"
    <3>1. task[g].left = p
      BY <1>4, <2>1, <2>2 DEF WorksAt
    <3> QED
      BY <3>1
  <2> QED
    BY <2>2
<1>7. c.g = g /\ n <= b /\ b <= n + c.place - 1
  <2>1. PICK p \in Nat : p = c.place
    BY <1>5
  <2>2. task[g].left = IF n + p > b THEN n + p - b ELSE 0
    BY <1>4, <2>1 DEF WorksAt, Turns
  <2>3. n + p > b
    BY <1>5, <1>6, <2>2
  <2>4. b <= n + c.place - 1
    BY <1>5, <2>1, <2>3
  <2> QED
    BY <1>4, <2>4 DEF WorksAt
<1>8. g \in Served(Batch)
  BY <1>1, <1>7, StillServing DEF Batch
<1>9. PICK i \in 1..Len(Batch.picks) : Batch.picks[i].g = g
  BY <1>2, <1>8 DEF Served
<1>10. Batch.picks[i].loc = task[g].loc
  BY <1>1, <1>6, <1>9, PickOfGripper
<1>11. i \notin DroppedPicks
  BY <1>9 DEF DroppedPicks
<1>12. /\ store \in Inventory /\ Batch.picks[i].loc \in Location
       /\ store[Batch.picks[i].loc] # <<>>
       /\ Batch.picks[i].items = <<Head(store[Batch.picks[i].loc])>>
  BY <1>1, <1>9
<1>13. Truth[task[g].loc] = store[task[g].loc]
  <2>1. PICK taken : taken = Slots(Batch.picks, DroppedPicks)
    OBVIOUS
  <2>2. DroppedPicks \in SUBSET (1..Len(Batch.picks))
    BY <1>2 DEF DroppedPicks
  <2>3. PICK picks : picks = plan.batches[b].picks
    OBVIOUS
  <2>4. \A I \in SUBSET (1..Len(picks)) :
          /\ Slots(picks, I) \subseteq Location
          /\ \A j \in 1..Len(picks) : j \notin I => picks[j].loc \notin Slots(picks, I)
    BY <1>1, <2>3, SlotsOfPicks
  <2>5. taken \in SUBSET Location /\ task[g].loc \in Location \ taken
    BY <1>9, <1>10, <1>11, <1>12, <2>1, <2>2, <2>3, <2>4 DEF Batch
  <2>6. LessHeads(store, taken)[task[g].loc] = store[task[g].loc]
    BY <1>12, <2>5 DEF LessHeads
  <2> QED
    <3>1. DroppedPicks \ Recorded = DroppedPicks
      BY <1>1
    <3> QED
      BY <1>1, <2>1, <2>6, <3>1, TruthByPhase DEF TruthOfPhase
<1> QED
  BY <1>1, <1>9, <1>10, <1>11, <1>12, <1>13

(* The box that is dropped is the one its batch has planned for the gripper.   *)
LEMMA BoxDropped ==
  ASSUME OneBoxEach, WavesKeepApart, SlotsInReach, ContinuesAWave,
         TypeInv, HandInv, BoxInv, Orderly, NEW g \in Gripper, DropBox(g)
  PROVE  /\ Counted /\ b \in 1..Len(plan.batches) /\ store \in Inventory
         /\ task[g].loc \in Location /\ store[task[g].loc] = held[g] \o shelf[task[g].loc]
         /\ pc # "store"
         /\ \E i \in 1..Len(Batch.picks) :
              /\ Batch.picks[i].loc = task[g].loc
              /\ i \notin DroppedPicks /\ DroppedPicks' = DroppedPicks \cup {i}
<1>1. /\ arm[g] = "holding" /\ task[g].left > 0 /\ held[g] # <<>>
      /\ g \notin dropped /\ Cardinality(dropped) < due
      /\ \A loc \in Location : Stands(loc, Truth[loc])
  BY DEF BoxInv, DropBox, ShelfInv
<1>2. pc # "done"
  <2>1. Cardinality(dropped) \in Nat
    BY GripperFinite, FS_Subset, FS_CardinalityType DEF TypeInv, LineInv
  <2>2. due # 0
    BY <1>1, <2>1
  <2> QED
    BY <2>2 DEF BoxInv, EndInv
<1>3. Going
  BY <1>2 DEF Going, Orderly
<1>4. pc \in {"trigger", "await_complete"} /\ b \in 1..Len(plan.batches) /\ plan \in Plans
  BY <1>3, DropServes DEF TypeInv, PlaceInv
<1>5. DOMAIN Batch.picks = 1..Len(Batch.picks) /\ b \in DOMAIN plan.batches
  BY <1>4, PlanType DEF Batch
<1>6. /\ store \in Inventory /\ task[g].loc \in Location
      /\ Truth[task[g].loc] = store[task[g].loc]
  BY <1>1, <1>4, BoxDue
<1>7. PICK i \in 1..Len(Batch.picks) :
        Batch.picks[i].g = g /\ Batch.picks[i].loc = task[g].loc /\ i \notin DroppedPicks
  BY <1>1, <1>4, BoxDue
<1>8. \A j \in 1..Len(Batch.picks) : Batch.picks[j].g = g => j = i
  BY <1>4, <1>5, <1>7 DEF OneBoxEach, Batch
<1>9. DroppedPicks' = DroppedPicks \cup {i}
  <2>1. dropped' = dropped \cup {g} /\ Batch' = Batch
    BY DEF DropBox, hostVars, Batch
  <2> QED
    BY <1>5, <1>7, <1>8, <2>1 DEF DroppedPicks
<1>10. Holds(g, task[g].loc)
  BY <1>1 DEF Holds
<1>11. store[task[g].loc] = held[g] \o shelf[task[g].loc]
  BY <1>1, <1>6, <1>10 DEF Stands
<1> QED
  BY <1>4, <1>6, <1>7, <1>9, <1>11 DEF Counted

LEMMA ShelfDrop ==
  ASSUME OneBoxEach, WavesKeepApart, SlotsInReach, ContinuesAWave,
         TypeInv, HandInv, BoxInv, Orderly, NEW g \in Gripper, DropBox(g)
  PROVE  \A loc \in Location : Stands(loc, Truth[loc])'
<1>1. /\ DeviceInv /\ SlotInv /\ arm[g] = "holding" /\ held[g] # <<>> /\ HasBoxes(g)
      /\ \A loc \in Location : Stands(loc, Truth[loc])
      /\ plan \in Plans
  BY DEF TypeInv, PlaceInv, BoxInv, DropBox, ShelfInv, HasBoxes
<1>2. PICK at : at = task[g].loc
  OBVIOUS
<1>3. /\ Counted /\ b \in 1..Len(plan.batches) /\ store \in Inventory /\ at \in Location
      /\ store[at] = held[g] \o shelf[at] /\ pc # "store"
  BY <1>2, BoxDropped
<1>4. PICK i \in 1..Len(Batch.picks) :
        /\ Batch.picks[i].loc = at
        /\ i \notin DroppedPicks /\ DroppedPicks' = DroppedPicks \cup {i}
  BY <1>2, BoxDropped
<1>5. /\ held' = [held EXCEPT ![g] = Tail(held[g])] /\ shelf' = shelf /\ arm' = arm
      /\ task' = [task EXCEPT ![g].left = @ - 1]
      /\ UNCHANGED <<plan, store, pc, b, k, refills>>
  BY DEF DropBox, hostVars
<1>6. held'[g] = Tail(held[g]) /\ task'[g].loc = at /\ arm'[g] = "holding"
  <2>1. task[g] \in PickTask
    BY <1>1 DEF DeviceInv
  <2> QED
    BY <1>1, <1>2, <1>5, <2>1 DEF DeviceInv, PickTask
<1>7. PICK stock \in Inventory : stock = store
  BY <1>3
<1>8. PICK picks : picks = Batch.picks
  OBVIOUS
<1>9. PICK I : I = DroppedPicks
  OBVIOUS
<1>10. I \in SUBSET (1..Len(picks)) /\ DOMAIN picks = 1..Len(picks)
  <2>1. DOMAIN Batch.picks = 1..Len(Batch.picks)
    BY <1>1, <1>3, PlanType DEF Batch
  <2> QED
    BY <1>8, <1>9, <2>1 DEF DroppedPicks
<1>11. /\ Slots(picks, I) \subseteq Location /\ at \notin Slots(picks, I)
       /\ Slots(picks, I \cup {i}) = Slots(picks, I) \cup {at}
  <2>1. plan \in Plans /\ b \in 1..Len(plan.batches)
    BY <1>1, <1>3
  <2>2. \A J \in SUBSET (1..Len(Batch.picks)) :
          /\ Slots(Batch.picks, J) \subseteq Location
          /\ \A j \in 1..Len(Batch.picks) :
               /\ Slots(Batch.picks, J \cup {j}) = Slots(Batch.picks, J) \cup {Batch.picks[j].loc}
               /\ j \notin J => Batch.picks[j].loc \notin Slots(Batch.picks, J)
    BY <2>1, SlotsOfPicks DEF Batch
  <2> QED
    BY <1>4, <1>8, <1>9, <1>10, <2>2
<1>12. PICK taken \in SUBSET Location : taken = Slots(picks, I)
  BY <1>11
<1>13. Truth = LessHeads(stock, taken)
  <2>1. DroppedPicks \ Recorded = I
    BY <1>3, <1>9 DEF Recorded
  <2> QED
    BY <1>3, <1>7, <1>8, <1>12, <2>1, TruthByPhase DEF TruthOfPhase
<1>14. Truth' = LessHeads(stock, taken \cup {at})
  <2>1. Counted' /\ store' = stock /\ Batch'.picks = picks /\ Recorded' = {}
    BY <1>3, <1>5, <1>7, <1>8 DEF Counted, Batch, Recorded
  <2>2. DroppedPicks' \ Recorded' = I \cup {i}
    BY <1>4, <1>9, <2>1
  <2>3. Truth' = LessHeads(store', Slots(Batch'.picks, DroppedPicks' \ Recorded'))
    BY <2>1, TruthByPhase DEF TruthOfPhase
  <2> QED
    BY <1>11, <1>12, <2>1, <2>2, <2>3
<1>15. \A loc \in Location :
         Truth'[loc] = IF loc = at THEN Tail(Truth[loc]) ELSE Truth[loc]
  BY <1>11, <1>12, <1>13, <1>14 DEF LessHeads
<1>16. Truth[at] = held[g] \o shelf[at]
  BY <1>3, <1>7, <1>11, <1>12, <1>13 DEF LessHeads
<1>17. Tail(Truth[at]) = Tail(held[g]) \o shelf[at]
  <2>1. PICK s \in Seq(Sku) : s = held[g]
    BY <1>1 DEF DeviceInv
  <2>2. PICK t \in Seq(Sku) : t = shelf[at]
    BY <1>1, <1>3 DEF DeviceInv
  <2>3. Tail(s \o t) = Tail(s) \o t
    BY <1>1, <2>1, HeadOfConcat
  <2> QED
    BY <1>16, <2>1, <2>2, <2>3
<1>18. \A h \in Gripper \ {g} : ~Holds(h, at)
  BY <1>1, <1>2, OwnSlotOnly DEF BoxInv
<1>19. /\ \A h \in Gripper \ {g} : held'[h] = held[h]
       /\ \A h \in Gripper \ {g} : \A loc : Holds(h, loc)' <=> Holds(h, loc)
  BY <1>1, OthersLeftAlone
<1> SUFFICES ASSUME NEW loc \in Location PROVE Stands(loc, Truth[loc])'
  OBVIOUS
<1>20. PICK boxes : boxes = Truth'[loc]
  OBVIOUS
<1>21. Stands(loc, boxes)'
  <2>1. CASE loc = at
    <3>1. boxes = held'[g] \o shelf'[at]
      BY <1>3, <1>5, <1>6, <1>15, <1>17, <1>20, <2>1
    <3>2. ~Holds(g, at)' => boxes = shelf'[at]
      <4> SUFFICES ASSUME ~Holds(g, at)' PROVE boxes = shelf'[at]
        OBVIOUS
      <4>1. held'[g] = <<>>
        BY <1>6 DEF Holds
      <4>2. PICK t \in Seq(Sku) : t = shelf'[at]
        BY <1>1, <1>3, <1>5 DEF DeviceInv
      <4>3. <<>> \o t = t
        BY ConcatEmptySeq
      <4> QED
        BY <3>1, <4>1, <4>2, <4>3
    <3>3. \A h \in Gripper \ {g} : ~Holds(h, at)'
      BY <1>18, <1>19
    <3> QED
      BY <2>1, <3>1, <3>2, <3>3, OwnSlotStands
  <2>2. CASE loc # at
    <3>1. boxes = Truth[loc]
      BY <1>15, <1>20, <2>2
    <3>2. Stands(loc, boxes)
      BY <1>1, <3>1
    <3>3. ~Holds(g, loc) /\ ~Holds(g, loc)'
      BY <1>2, <1>6, <2>2 DEF Holds
    <3>4. shelf'[loc] = shelf[loc]
      BY <1>5
    <3> QED
      BY <1>19, <3>2, <3>3, <3>4, OtherSlot
  <2> QED
    BY <2>1, <2>2
<1> QED
  BY <1>20, <1>21, StandsNext

(* The slots of a level. *)
LEMMA LevelSlots ==
  ASSUME NEW level \in Level
  PROVE  /\ FrontSlots(level) \subseteq Location /\ BackSlots(level) \subseteq Location
         /\ FrontSlots(level) \cap BackSlots(level) = {}
         /\ \A loc \in FrontSlots(level) :
              LevelOf(loc) = level /\ BackOf(loc) \in BackSlots(level)
         /\ \A loc \in BackSlots(level) : ~IsFront(loc) /\ FrontOf(loc) \in FrontSlots(level)
<1>1. PICK s \in Station, l \in Layer : level = <<s, l>>
  BY DEF Level
<1> QED
  BY <1>1 DEF FrontSlots, BackSlots, Slot, LevelOf, BackOf, FrontOf, IsFront, Location, Position

(* A conveyor runs where no gripper has boxes of a slot. *)
LEMMA RunStands ==
  ASSUME NEW s, NEW level \in Level, \A loc \in Location : Stands(loc, s[loc]),
         \A loc \in FrontSlots(level) \cup BackSlots(level) : \A g \in Gripper : ~Holds(g, loc),
         held' = held, \A g \in Gripper : \A loc : Holds(g, loc)' <=> Holds(g, loc)
  PROVE  /\ shelf' = BackToFront(shelf, level) =>
              \A loc \in Location : Stands(loc, BackToFront(s, level)[loc])'
         /\ shelf' = FrontToBack(shelf, level) =>
              \A loc \in Location : Stands(loc, FrontToBack(s, level)[loc])'
<1>1. \A loc \in FrontSlots(level) \cup BackSlots(level) : loc \in Location /\ s[loc] = shelf[loc]
  BY LevelSlots DEF Stands
<1>2. ASSUME shelf' = BackToFront(shelf, level), NEW loc \in Location
      PROVE  Stands(loc, BackToFront(s, level)[loc])'
  <2>1. PICK boxes : boxes = BackToFront(s, level)[loc]
    OBVIOUS
  <2>2. CASE loc \in FrontSlots(level) \cup BackSlots(level)
    <3>1. boxes = shelf'[loc]
      BY <1>1, <1>2, <2>1, <2>2, LevelSlots DEF BackToFront
    <3>2. Stands(loc, boxes)'
      BY <2>2, <3>1 DEF Stands
    <3> QED
      BY <2>1, <3>2
  <2>3. CASE loc \notin FrontSlots(level) \cup BackSlots(level)
    <3>1. boxes = s[loc] /\ shelf'[loc] = shelf[loc]
      BY <1>2, <2>1, <2>3 DEF BackToFront
    <3>2. Stands(loc, boxes)'
      BY <3>1, StandsKept
    <3> QED
      BY <2>1, <3>2
  <2> QED
    BY <2>2, <2>3
<1>3. ASSUME shelf' = FrontToBack(shelf, level), NEW loc \in Location
      PROVE  Stands(loc, FrontToBack(s, level)[loc])'
  <2>1. PICK boxes : boxes = FrontToBack(s, level)[loc]
    OBVIOUS
  <2>2. CASE loc \in FrontSlots(level) \cup BackSlots(level)
    <3>1. boxes = shelf'[loc]
      BY <1>1, <1>3, <2>1, <2>2, LevelSlots DEF FrontToBack
    <3>2. Stands(loc, boxes)'
      BY <2>2, <3>1 DEF Stands
    <3> QED
      BY <2>1, <3>2
  <2>3. CASE loc \notin FrontSlots(level) \cup BackSlots(level)
    <3>1. boxes = s[loc] /\ shelf'[loc] = shelf[loc]
      BY <1>3, <2>1, <2>3 DEF FrontToBack
    <3>2. Stands(loc, boxes)'
      BY <3>1, StandsKept
    <3> QED
      BY <2>1, <3>2
  <2> QED
    BY <2>2, <2>3
<1> QED
  BY <1>2, <1>3

LEMMA ShelfBelt ==
  ASSUME TypeInv, BoxInv, Orderly, RunBelt
  PROVE  \A loc \in Location : Stands(loc, Truth[loc])'
<1>1. /\ DeviceInv /\ FitInv /\ SlotInv /\ BeltInv
      /\ \A loc \in Location : Stands(loc, Truth[loc])
      /\ belt # NoRun /\ belt' = NoRun
  BY DEF TypeInv, BoxInv, RunBelt, ShelfInv
<1>2. Going
  BY <1>1 DEF BoxInv, EndInv, Going, Orderly
<1>3. /\ held' = held /\ UNCHANGED <<plan, store, pc, b, k, refills>>
      /\ \A g \in Gripper : \A loc : Holds(g, loc)' <=> Holds(g, loc)
  BY DEF RunBelt, hostVars, Holds
<1>4. PICK s \in [Location -> Seq(Sku)] : s = store
  BY DEF TypeInv, StoreInv
<1>5. \A g \in Gripper : \A loc : Holds(g, loc) => IsFront(loc)
  BY <1>1 DEF SlotInv, Holds, HasBoxes
<1>6. CASE belt.way = "forward"
  <2>1. pc = "await_forward" /\ belt.level = Head(refills).level
    BY <1>1, <1>2, <1>6 DEF BeltInv
  <2>2. PICK level \in Level : level = belt.level /\ FrontEmpty(s, level)
    BY <1>1, <1>4, <2>1, ForwardPossible
  <2>3. \A loc \in Location : Stands(loc, s[loc])
    BY <1>1, <1>4, <2>1, TruthByPhase DEF TruthOfPhase
  <2>4. Truth' = BackToFront(s, level)
    BY <1>1, <1>3, <1>4, <2>1, <2>2, TruthByPhase DEF TruthOfPhase
  <2>5. shelf' = BackToFront(shelf, level)
    BY <1>6, <2>2 DEF RunBelt
  <2>6. \A loc \in FrontSlots(level) \cup BackSlots(level) : \A g \in Gripper : ~Holds(g, loc)
    <3>1. ASSUME NEW loc \in FrontSlots(level) PROVE \A g \in Gripper : ~Holds(g, loc)
      <4>1. loc \in Location /\ s[loc] = <<>>
        BY <2>2, <3>1, LevelSlots DEF FrontEmpty
      <4>2. Stands(loc, <<>>)
        BY <2>3, <4>1
      <4> QED
        BY <1>1, <4>1, <4>2, EmptySlot
    <3>2. ASSUME NEW loc \in BackSlots(level) PROVE \A g \in Gripper : ~Holds(g, loc)
      BY <1>5, <3>2, LevelSlots
    <3> QED
      BY <3>1, <3>2
  <2>7. \A loc \in Location : Stands(loc, BackToFront(s, level)[loc])'
    BY <1>3, <2>3, <2>5, <2>6, RunStands
  <2> QED
    BY <2>4, <2>7, StandsNext
<1>7. CASE belt.way = "backward"
  <2>1. pc = "await_backward" /\ belt.level = Batch.backs[k]
    BY <1>1, <1>2, <1>7 DEF BeltInv
  <2>2. PICK level \in Level : level = belt.level
    BY <1>1, <2>1, BackwardPossible
  <2>3. \A loc \in Location : Stands(loc, s[loc])
    BY <1>1, <1>4, <2>1, TruthByPhase DEF TruthOfPhase
  <2>4. Truth' = FrontToBack(s, level)
    <3>1. Batch' = Batch
      BY <1>3 DEF Batch
    <3> QED
      BY <1>1, <1>3, <1>4, <2>1, <2>2, <3>1, TruthByPhase DEF TruthOfPhase
  <2>5. shelf' = FrontToBack(shelf, level)
    BY <1>7, <2>2 DEF RunBelt
  <2>6. \A loc \in FrontSlots(level) \cup BackSlots(level) : \A g \in Gripper : ~Holds(g, loc)
    <3>1. ASSUME NEW loc \in FrontSlots(level), NEW g \in Gripper, Holds(g, loc) PROVE FALSE
      <4>1. HasBoxes(g) /\ task[g].loc = loc /\ LevelOf(loc) = level
        BY <3>1, LevelSlots DEF Holds, HasBoxes
      <4>2. BackingFits(level)
        BY <1>1, <1>2, <2>1, <2>2 DEF FitInv
      <4> QED
        BY <4>1, <4>2 DEF BackingFits
    <3>2. ASSUME NEW loc \in BackSlots(level) PROVE \A g \in Gripper : ~Holds(g, loc)
      BY <1>5, <3>2, LevelSlots
    <3> QED
      BY <3>1, <3>2
  <2>7. \A loc \in Location : Stands(loc, FrontToBack(s, level)[loc])'
    BY <1>3, <2>3, <2>5, <2>6, RunStands
  <2> QED
    BY <2>4, <2>7, StandsNext
<1> QED
  BY <1>6, <1>7 DEF RunBelt

-----------------------------------------------------------------------------
(* Each part of the invariant is kept *)

LEMMA OrderlyBefore ==
  ASSUME Next
  PROVE  /\ Orderly' => Orderly
         /\ pc' = "done" => PlanDone \/ (pc = "done" /\ ~Worker)
         /\ Worker => Going
<1>1. Worker => Going
  BY DEF Worker, BackwardsDone, CommandBackward, BackwardComplete, MovesDone, MoveGripperIdle,
         CommandMove, MoveComplete, RefillsDone, FrontClear, CommandForward, ForwardComplete,
         StartBatch, AllGrippersIdle, ClearOutboundComplete, WriteBatchCount, TriggerGripper,
         BatchComplete, Announce, CommandReturn, Settled, ReturnComplete, UpdateStore, PlanDone,
         Going
<1>2. Machinery \/ Poll => pc' = pc
  BY MachineryFrame
<1>3. Abandon => Going /\ pc' = "failed"
  BY DEF Abandon, Going
<1>4. Worker /\ ~PlanDone => pc' # "done"
  BY DEF Worker, BackwardsDone, CommandBackward, BackwardComplete, MovesDone, MoveGripperIdle,
         CommandMove, MoveComplete, RefillsDone, FrontClear, CommandForward, ForwardComplete,
         StartBatch, AllGrippersIdle, ClearOutboundComplete, WriteBatchCount, TriggerGripper,
         BatchComplete, Announce, CommandReturn, Settled, ReturnComplete, UpdateStore, Goto
<1>5. PlanDone => Worker
  BY DEF Worker
<1> QED
  BY <1>1, <1>2, <1>3, <1>4, <1>5 DEF Next, Going, Orderly

(* A gripper takes from the slot it has been told, until it is told another.   *)
LEMMA HasBoxesFrame ==
  ASSUME DeviceInv, Next, ~TriggerGripper, NEW g \in Gripper, HasBoxes(g)'
  PROVE  HasBoxes(g) /\ task'[g].loc = task[g].loc
<1>1. /\ arm \in [Gripper -> {"idle", "picking", "holding", "returning", "lifting", "lowering"}]
      /\ held \in [Gripper -> Seq(Sku)] /\ DOMAIN task = Gripper
  BY DEF DeviceInv
<1>2. CASE UNCHANGED <<arm, task, held>>
  BY <1>2 DEF HasBoxes
<1>3. CASE CommandMove
  <2>1. PICK a : a = Move.g
    OBVIOUS
  <2>2. held' = held
    BY <1>3 DEF CommandMove
  <2>3. CASE Still(a)
    <3>1. /\ arm' = [arm EXCEPT ![a] = "lifting"]
          /\ task' = [task EXCEPT ![a] = [from |-> Move.from, to |-> Move.to, left |-> 0]]
      BY <1>3, <2>1, <2>3 DEF CommandMove
    <3>2. arm'[g] = IF g = a THEN "lifting" ELSE arm[g]
      BY <1>1, <3>1
    <3>3. g # a
      BY <3>2 DEF HasBoxes
    <3>4. task'[g] = task[g]
      BY <1>1, <3>1, <3>3
    <3> QED
      BY <2>2, <3>2, <3>3, <3>4 DEF HasBoxes
  <2>4. CASE ~Still(a)
    <3>1. arm' = arm /\ task' = task
      BY <1>3, <2>1, <2>4 DEF CommandMove
    <3> QED
      BY <2>2, <3>1 DEF HasBoxes
  <2> QED
    BY <2>3, <2>4
<1>4. CASE CommandReturn
  <2>1. /\ held' = held /\ task' = task
        /\ arm' = [h \in Gripper |-> IF h \in Waiting THEN "returning" ELSE arm[h]]
    BY <1>4 DEF CommandReturn
  <2>2. arm'[g] = arm[g] \/ (arm[g] = "holding" /\ held[g] # <<>>)
    BY <2>1 DEF Waiting
  <2> QED
    BY <2>1, <2>2 DEF HasBoxes
<1>5. CASE \E h \in Gripper : PickUp(h) \/ DropBox(h) \/ GoHome(h) \/ ReturnBoxes(h)
                             \/ Lift(h) \/ Lower(h)
  <2>1. PICK h \in Gripper : PickUp(h) \/ DropBox(h) \/ GoHome(h) \/ ReturnBoxes(h)
                             \/ Lift(h) \/ Lower(h)
    BY <1>5
  <2>2. CASE h # g
    BY <2>1, <2>2, OthersLeftAlone
  <2>3. CASE h = g
    <3>1. CASE PickUp(g)
      BY <3>1 DEF PickUp, HasBoxes
    <3>2. CASE DropBox(g)
      <4>1. arm[g] = "holding" /\ held[g] # <<>> /\ task' = [task EXCEPT ![g].left = @ - 1]
        BY <3>2 DEF DropBox
      <4>2. task[g] \in PickTask
        BY <4>1 DEF DeviceInv
      <4>3. task'[g].loc = task[g].loc
        BY <1>1, <4>1, <4>2 DEF PickTask
      <4> QED
        BY <4>1, <4>3 DEF HasBoxes
    <3>3. CASE GoHome(g) \/ ReturnBoxes(g) \/ Lift(g) \/ Lower(g)
      <4>1. arm'[g] \in {"idle", "lowering"}
        BY <1>1, <3>3 DEF GoHome, ReturnBoxes, Lift, Lower
      <4> QED
        BY <4>1 DEF HasBoxes
    <3> QED
      BY <2>1, <2>3, <3>1, <3>2, <3>3
  <2> QED
    BY <2>2, <2>3
<1>6. CASE CompleteBatch \/ RunBelt \/ Poll
  <2>1. UNCHANGED <<arm, task, held>>
    BY <1>6 DEF CompleteBatch, RunBelt, Poll, armVars
  <2> QED
    BY <1>2, <2>1
<1>7. CASE CommandBackward \/ CommandForward
  <2>1. UNCHANGED <<arm, task, held>>
    BY <1>7 DEF CommandBackward, CommandForward, armVars
  <2> QED
    BY <1>2, <2>1
<1>8. CASE Worker \/ Abandon
  BY <1>2, <1>3, <1>4, <1>7, <1>8, DevicesFrame
<1> QED
  BY <1>5, <1>6, <1>8 DEF Next, Machinery

(* What is commanded fits, unless it is noted that it does not, and goes on    *)
(* fitting: nothing but the worker changes the inventory, and no gripper takes *)
(* boxes without a command.                                                    *)
LEMMA FitKept ==
  ASSUME TypeInv, FitInv, Next, ~TriggerGripper,
         UNCHANGED <<plan, store, b, k, refills, pc>>
  PROVE  FitInv'
<1>1. Batch' = Batch /\ Move' = Move /\ Recorded' = Recorded /\ Going' = Going
      /\ Started' = Started
  BY DEF Batch, Move, Recorded, Going, Started
<1>2. \A g \in Gripper : HasBoxes(g)' => HasBoxes(g) /\ task'[g].loc = task[g].loc
  BY HasBoxesFrame DEF TypeInv
<1>3. \A level : BackingFits(level) => BackingFits(level)'
  BY <1>2 DEF BackingFits
<1>4. MoveFits(Move) => MoveFits(Move)'
  BY <1>1, <1>2 DEF MoveFits
<1>5. \A level : RefillFits(level) => RefillFits(level)'
  BY DEF RefillFits
<1>6. PicksLeft => PicksLeft'
  BY <1>1 DEF PicksLeft
<1>7. pc = "await_backward" /\ Going => BackingFits(Batch.backs[k])'
  <2>1. PICK level : level = Batch.backs[k]
    OBVIOUS
  <2>2. level = Batch'.backs[k']
    BY <1>1, <2>1
  <2> SUFFICES ASSUME pc = "await_backward", Going PROVE BackingFits(Batch.backs[k])'
    OBVIOUS
  <2>3. BackingFits(level)'
    BY <1>3, <2>1 DEF FitInv
  <2> QED
    BY <1>1, <2>2, <2>3 DEF BackingFits
<1>8. pc = "await_forward" /\ Going => RefillFits(Head(refills).level)'
  BY DEF FitInv, RefillFits
<1> QED
  BY <1>1, <1>4, <1>6, <1>7, <1>8 DEF FitInv

LEMMA FitStep ==
  ASSUME SlotsInReach, TypeInv, FitInv, Next, ~misfit'
  PROVE  FitInv'
<1>1. CASE Machinery \/ Poll
  <2>1. UNCHANGED <<plan, store, b, k, refills, pc>>
    BY <1>1 DEF Machinery, PickUp, DropBox, GoHome, ReturnBoxes, Lift, Lower, CompleteBatch,
       RunBelt, Poll, hostVars
  <2>2. k \in Nat
    BY DEF TypeInv, PlaceInv
  <2>3. ~TriggerGripper
    BY <2>1, <2>2 DEF TriggerGripper, Goto
  <2> QED
    BY <2>1, <2>3, FitKept
<1>2. CASE Abandon
  BY <1>2 DEF Abandon, FitInv, Going
<1>3. CASE CommandBackward
  <2>1. /\ pc' = "await_backward" /\ BackingFits(Batch.backs[k])
        /\ UNCHANGED <<plan, store, b, k, arm, held, task>>
    BY <1>3 DEF CommandBackward, armVars
  <2>2. Batch' = Batch
    BY <2>1 DEF Batch
  <2>3. BackingFits(Batch.backs[k])'
    BY <2>1, <2>2 DEF BackingFits, HasBoxes
  <2> QED
    BY <2>1, <2>3 DEF FitInv, Started
<1>4. CASE CommandForward
  <2>1. /\ pc' = "await_forward" /\ RefillFits(Head(refills).level)
        /\ UNCHANGED <<store, refills>>
    BY <1>4 DEF CommandForward
  <2> QED
    BY <2>1 DEF FitInv, Started, RefillFits
<1>5. CASE CommandMove
  <2>1. pc' = "await_move" /\ MoveFits(Move) /\ UNCHANGED <<plan, store, b, k>>
    BY <1>5 DEF CommandMove
  <2>2. Move' = Move
    BY <2>1 DEF Move, Batch
  <2>3. ~TriggerGripper
    BY <1>5 DEF CommandMove, TriggerGripper
  <2>4. \A g \in Gripper : HasBoxes(g)' => HasBoxes(g) /\ task'[g].loc = task[g].loc
    BY <2>3, HasBoxesFrame DEF TypeInv
  <2>5. MoveFits(Move)'
    BY <2>1, <2>2, <2>4 DEF MoveFits
  <2> QED
    BY <2>1, <2>5 DEF FitInv, Started
<1>6. CASE StartBatch
  <2>1. CASE pc' \in {"backward", "inconsistent"}
    BY <2>1 DEF FitInv, Started, Going
  <2>2. CASE pc' \in {"await_idle", "clear"}
    <3>1. PicksFit(Batch) /\ UNCHANGED <<plan, store, b>>
      BY <1>6, <2>2 DEF StartBatch, Stay, Goto
    <3>2. Batch' = Batch
      BY <3>1 DEF Batch
    <3>3. PicksLeft'
      BY <3>1, <3>2 DEF PicksFit, PicksLeft
    <3> QED
      BY <2>2, <3>3 DEF FitInv
  <2>3. pc' \in {"backward", "inconsistent", "await_idle", "clear"}
    BY <1>6 DEF StartBatch, Goto
  <2> QED
    BY <2>1, <2>2, <2>3
<1>7. CASE \/ AllGrippersIdle \/ ClearOutboundComplete \/ WriteBatchCount
           \/ TriggerGripper \/ BatchComplete \/ Announce \/ CommandReturn \/ Settled
           \/ ReturnComplete
  <2>1. /\ UNCHANGED <<plan, store, b>> /\ Going /\ Started /\ pc # "store"
        /\ pc' \in {"clear", "count", "trigger", "await_complete", "announce", "return",
                    "settle", "await_return", "store", "failed"}
    BY <1>7 DEF AllGrippersIdle, ClearOutboundComplete, WriteBatchCount, Goto, Going, Started,
           TriggerGripper, BatchComplete, Announce, CommandReturn, Settled, ReturnComplete, Stay
  <2>2. pc' = "store" => k' = 1
    <3>1. pc' = "store" => (Announce \/ ReturnComplete) /\ k' = k
      BY <1>7 DEF AllGrippersIdle, ClearOutboundComplete, WriteBatchCount, Goto,
           TriggerGripper, BatchComplete, Announce, CommandReturn, Settled, ReturnComplete
    <3>2. Announce \/ ReturnComplete => k = 1
      BY DEF Announce, ReturnComplete, TypeInv, PlaceInv
    <3> QED
      BY <3>1, <3>2
  <2>3. Batch' = Batch /\ Recorded' = {} /\ Recorded = {}
    <3>1. Batch' = Batch /\ Recorded = {}
      BY <2>1 DEF Batch, Recorded
    <3>2. 1..(1 - 1) = {}
      OBVIOUS
    <3>3. Recorded' = {}
      BY <2>2, <3>2 DEF Recorded
    <3> QED
      BY <3>1, <3>3
  <2>4. PicksLeft'
    BY <2>1, <2>3 DEF FitInv, PicksLeft
  <2> QED
    BY <2>1, <2>4 DEF FitInv
<1>8. CASE UpdateStore
  <2>1. /\ plan \in Plans /\ b \in 1..Len(plan.batches) /\ k \in 1..Len(Batch.picks)
        /\ plan' = plan /\ Len(Batch.picks) \in Nat
        /\ DOMAIN Batch.picks = 1..Len(Batch.picks) /\ Batch.picks[k].loc \in Location
        /\ store' = [store EXCEPT ![Batch.picks[k].loc] = Tail(store[Batch.picks[k].loc])]
        /\ Recorded = 1..(k - 1)
    BY <1>8, UpdatedStore
  <2>2. CASE ~(k < Len(Batch.picks))
    <3>1. pc' = "backward"
      BY <1>8, <2>2, UpdatedStore
    <3> QED
      BY <3>1 DEF FitInv, Started
  <2>3. CASE k < Len(Batch.picks)
    <3>1. k' = k + 1 /\ pc' = "store" /\ b' = b
      BY <1>8, <2>3, UpdatedStore
    <3>2. Batch' = Batch /\ Recorded' = 1..k
      <4>1. k' - 1 = k
        BY <2>1, <3>1
      <4> QED
        BY <2>1, <3>1, <4>1 DEF Batch, Recorded
    <3>3. PicksLeft /\ store \in [Location -> Seq(Sku)]
      BY <1>8 DEF FitInv, Going, Started, UpdateStore, TypeInv, StoreInv
    <3>4. ASSUME NEW i \in DOMAIN Batch.picks \ (1..k)
          PROVE  /\ store'[Batch.picks[i].loc] # <<>>
                 /\ Batch.picks[i].items = <<Head(store'[Batch.picks[i].loc])>>
      <4>1. i \in 1..Len(Batch.picks) /\ i \notin 1..(k - 1) /\ i # k
        BY <2>1
      <4>2. /\ store[Batch.picks[i].loc] # <<>>
            /\ Batch.picks[i].items = <<Head(store[Batch.picks[i].loc])>>
        BY <2>1, <3>3, <4>1 DEF PicksLeft
      <4>3. Batch.picks[i].loc # Batch.picks[k].loc
        BY <2>1, <4>1, PlanType DEF SlotsInReach, Batch
      <4>4. store'[Batch.picks[i].loc] = store[Batch.picks[i].loc]
        BY <2>1, <3>3, <4>3
      <4> QED
        BY <4>2, <4>4
    <3>5. PicksLeft'
      BY <3>2, <3>4 DEF PicksLeft
    <3> QED
      BY <3>1, <3>5 DEF FitInv
  <2> QED
    BY <2>2, <2>3
<1>9. CASE \/ BackwardsDone \/ BackwardComplete \/ MovesDone \/ MoveGripperIdle
           \/ MoveComplete \/ RefillsDone \/ FrontClear \/ ForwardComplete \/ PlanDone
  <2>1. pc' \in {"backward", "move", "command_move", "refill", "command_forward", "batch",
                 "done", "inconsistent"}
    BY <1>9 DEF BackwardsDone, BackwardComplete, MovesDone, MoveGripperIdle, MoveComplete,
       RefillsDone, FrontClear, ForwardComplete, PlanDone, Goto, Stay
  <2> QED
    BY <2>1 DEF FitInv, Started
<1> QED
  BY <1>1, <1>2, <1>3, <1>4, <1>5, <1>6, <1>7, <1>8, <1>9 DEF Next, Worker

LEMMA SlotStep ==
  ASSUME OneBoxEach, WavesKeepApart, SlotsInReach, TypeInv, HandInv, PhaseInv, SlotInv, Next
  PROVE  SlotInv'
<1> SUFFICES ASSUME Orderly'
             PROVE  /\ \A g \in Gripper : HasBoxes(g)' => IsFront(task'[g].loc)
                    /\ \A g, h \in Gripper : g # h /\ HasBoxes(g)' /\ HasBoxes(h)' =>
                         task'[g].loc # task'[h].loc
  BY DEF SlotInv
<1>1. /\ \A g \in Gripper : HasBoxes(g) => IsFront(task[g].loc)
      /\ \A g, h \in Gripper : g # h /\ HasBoxes(g) /\ HasBoxes(h) => task[g].loc # task[h].loc
      /\ DeviceInv
  BY OrderlyBefore DEF SlotInv, TypeInv
<1>2. CASE ~TriggerGripper
  <2>1. \A g \in Gripper : HasBoxes(g)' => HasBoxes(g) /\ task'[g].loc = task[g].loc
    BY <1>1, <1>2, HasBoxesFrame
  <2> QED
    BY <1>1, <2>1
<1>3. CASE TriggerGripper
  <2>1. PICK c : c = Commands(Batch)[k]
    OBVIOUS
  <2>2. held' = held /\ c.g \in Gripper
    BY <1>3, <2>1, NextCommand DEF TriggerGripper
  <2>3. CASE Still(c.g)
    <3>1. /\ arm' = [arm EXCEPT ![c.g] = "picking"]
          /\ task' = [task EXCEPT ![c.g] =
                        [loc |-> c.loc, count |-> Len(c.picked), left |-> c.place]]
      BY <1>3, <2>1, <2>3 DEF TriggerGripper
    <3>2. task'[c.g].loc = c.loc
      BY <1>1, <2>2, <3>1 DEF DeviceInv
    <3>3. \A h \in Gripper : h # c.g => arm'[h] = arm[h] /\ task'[h] = task[h]
      BY <1>1, <3>1 DEF DeviceInv
    <3>4. \A h \in Gripper : h # c.g /\ HasBoxes(h)' => HasBoxes(h) /\ task'[h].loc = task[h].loc
      BY <2>2, <3>3 DEF HasBoxes
    <3>5. \A h \in Gripper : h # c.g /\ HasBoxes(h) => task[h].loc # c.loc
      BY <1>3, <2>1, OwnSlot
    <3>6. IsFront(c.loc)
      <4>1. /\ plan \in Plans /\ b \in 1..Len(plan.batches)
            /\ c \in Range(Commands(plan.batches[b]))
        BY <1>3, <2>1, NextCommand
      <4>2. PICK i \in 1..Len(plan.batches[b].picks) : c = plan.batches[b].picks[i]
        BY <4>1, PickSent
      <4>3. b \in DOMAIN plan.batches /\ i \in DOMAIN plan.batches[b].picks
        BY <4>1, PlanType
      <4> QED
        BY <4>1, <4>2, <4>3 DEF SlotsInReach
    <3> QED
      BY <1>1, <3>2, <3>4, <3>5, <3>6
  <2>4. CASE ~Still(c.g)
    <3>1. arm' = arm /\ task' = task
      BY <1>3, <2>1, <2>4 DEF TriggerGripper
    <3>2. \A g \in Gripper : HasBoxes(g)' => HasBoxes(g) /\ task'[g].loc = task[g].loc
      BY <2>2, <3>1 DEF HasBoxes
    <3> QED
      BY <1>1, <3>2
  <2> QED
    BY <2>3, <2>4
<1> QED
  BY <1>2, <1>3

LEMMA EmptyHandedStep ==
  ASSUME DeviceInv, EmptyHanded, Next
  PROVE  EmptyHanded'
<1> SUFFICES ASSUME NEW h \in Gripper, arm'[h] \in {"idle", "picking", "lifting"}
             PROVE  held'[h] = <<>>
  BY DEF EmptyHanded
<1>1. /\ arm \in [Gripper -> {"idle", "picking", "holding", "returning", "lifting", "lowering"}]
      /\ held \in [Gripper -> Seq(Sku)]
      /\ arm[h] \in {"idle", "picking", "lifting"} => held[h] = <<>>
  BY DEF DeviceInv, EmptyHanded
<1>2. CASE UNCHANGED <<arm, held>>
  BY <1>1, <1>2
<1>3. CASE CommandMove
  <2>1. held' = held /\ (arm' = arm \/ (Still(Move.g) /\ arm' = [arm EXCEPT ![Move.g] = "lifting"]))
    BY <1>3 DEF CommandMove
  <2>2. arm'[h] = arm[h] \/ arm[h] = "idle"
    BY <1>1, <2>1 DEF Still
  <2> QED
    BY <1>1, <2>1, <2>2
<1>4. CASE TriggerGripper
  <2>1. PICK a : a = Commands(Batch)[k].g
    OBVIOUS
  <2>2. held' = held /\ (arm' = arm \/ (Still(a) /\ arm' = [arm EXCEPT ![a] = "picking"]))
    BY <1>4, <2>1 DEF TriggerGripper
  <2>3. arm'[h] = arm[h] \/ arm[h] = "idle"
    BY <1>1, <2>2 DEF Still
  <2> QED
    BY <1>1, <2>2, <2>3
<1>5. CASE CommandReturn
  <2>1. held' = held /\ arm' = [g \in Gripper |-> IF g \in Waiting THEN "returning" ELSE arm[g]]
    BY <1>5 DEF CommandReturn
  <2>2. arm'[h] = arm[h]
    BY <2>1
  <2> QED
    BY <1>1, <2>1, <2>2
<1>6. CASE \E g \in Gripper : PickUp(g) \/ DropBox(g) \/ GoHome(g) \/ ReturnBoxes(g)
                             \/ Lift(g) \/ Lower(g)
  <2>1. PICK g \in Gripper : PickUp(g) \/ DropBox(g) \/ GoHome(g) \/ ReturnBoxes(g)
                             \/ Lift(g) \/ Lower(g)
    BY <1>6
  <2>2. CASE g # h
    BY <1>1, <2>1, <2>2, OthersLeftAlone
  <2>3. CASE g = h
    <3>1. CASE PickUp(h) \/ Lift(h)
      <4>1. arm'[h] \in {"holding", "lowering"}
        BY <1>1, <3>1 DEF PickUp, Lift
      <4> QED
        BY <4>1
    <3>2. CASE DropBox(h)
      <4>1. arm'[h] = "holding"
        BY <3>2 DEF DropBox
      <4> QED
        BY <4>1
    <3>3. CASE GoHome(h) \/ ReturnBoxes(h) \/ Lower(h)
      BY <1>1, <3>3 DEF GoHome, ReturnBoxes, Lower
    <3> QED
      BY <2>1, <2>3, <3>1, <3>2, <3>3
  <2> QED
    BY <2>2, <2>3
<1>7. CASE CompleteBatch \/ RunBelt \/ Poll \/ CommandBackward \/ CommandForward
  <2>1. UNCHANGED <<arm, held>>
    BY <1>7 DEF CompleteBatch, RunBelt, Poll, CommandBackward, CommandForward, armVars
  <2> QED
    BY <1>2, <2>1
<1>8. CASE Worker \/ Abandon
  BY <1>2, <1>3, <1>4, <1>5, <1>7, <1>8, DevicesFrame
<1> QED
  BY <1>6, <1>7, <1>8 DEF Next, Machinery

LEMMA MoveInvStep ==
  ASSUME SlotsInReach, TypeInv, PhaseInv, BoxInv, Next
  PROVE  MoveInv'
<1> SUFFICES ASSUME pc' = "await_move"
             PROVE  /\ arm'[Move'.g] \in {"lifting", "lowering"} =>
                         task'[Move'.g].from = Move'.from /\ task'[Move'.g].to = Move'.to
                    /\ arm'[Move'.g] = "lowering" => held'[Move'.g] = store'[Move'.from]
  BY DEF MoveInv
<1>1. DeviceInv /\ FitInv /\ Orderly
  BY OrderlyBefore DEF TypeInv, BoxInv, Orderly
<1>2. CASE CommandMove
  <2>1. pc = "command_move" /\ UNCHANGED <<plan, b, k>> /\ Still(Move.g)
    BY <1>2 DEF CommandMove, PhaseInv
  <2>2. Move' = Move
    BY <2>1 DEF Move, Batch
  <2>3. Move.g \in Gripper
    BY <1>1, <2>1, MoveListed
  <2>4. PICK move : move = Move
    OBVIOUS
  <2>5. /\ arm' = [arm EXCEPT ![move.g] = "lifting"]
        /\ task' = [task EXCEPT ![move.g] = [from |-> move.from, to |-> move.to, left |-> 0]]
    BY <1>2, <2>1, <2>4 DEF CommandMove
  <2>6. arm'[move.g] = "lifting" /\ task'[move.g] = [from |-> move.from, to |-> move.to, left |-> 0]
    BY <1>1, <2>3, <2>4, <2>5 DEF DeviceInv
  <2> QED
    BY <2>2, <2>4, <2>6
<1>3. CASE (Machinery \/ Poll) /\ pc = "await_move"
  <2>1. /\ UNCHANGED <<plan, b, k, store>> /\ Move' = Move
    BY <1>3, MachineryFrame DEF Machinery, PickUp, DropBox, GoHome, ReturnBoxes, Lift, Lower,
                               CompleteBatch, RunBelt, Poll, hostVars, Move, Batch
  <2>2. PICK move : move = Move
    OBVIOUS
  <2>3. move.g \in Gripper /\ arm[move.g] \in {"idle", "lifting", "lowering"}
    BY <1>1, <1>3, <2>2, MoveListed DEF PhaseInv
  <2>4. /\ arm[move.g] \in {"lifting", "lowering"} =>
             task[move.g].from = move.from /\ task[move.g].to = move.to
        /\ arm[move.g] = "lowering" => held[move.g] = store[move.from]
    BY <1>3, <2>2 DEF BoxInv, MoveInv
  <2>5. CASE UNCHANGED <<arm, task, held>>
    BY <2>1, <2>2, <2>4, <2>5
  <2>6. CASE \E g \in Gripper : PickUp(g) \/ DropBox(g) \/ GoHome(g) \/ ReturnBoxes(g)
                               \/ Lift(g) \/ Lower(g)
    <3>1. PICK g \in Gripper : PickUp(g) \/ DropBox(g) \/ GoHome(g) \/ ReturnBoxes(g)
                               \/ Lift(g) \/ Lower(g)
      BY <2>6
    <3>2. CASE g # move.g
      <4>1. arm'[move.g] = arm[move.g] /\ held'[move.g] = held[move.g] /\ task'[move.g] = task[move.g]
        BY <1>1, <2>3, <3>1, <3>2, OthersLeftAlone
      <4> QED
        BY <2>1, <2>2, <2>4, <4>1
    <3>3. CASE g = move.g /\ Lift(g)
      <4>1. held'[g] = store[move.from]
        BY <1>1, <2>2, <3>3, ShelfLift
      <4>2. task' = task /\ arm[g] = "lifting"
        BY <3>3 DEF Lift
      <4> QED
        BY <2>1, <2>2, <2>4, <3>3, <4>1, <4>2
    <3>4. CASE g = move.g /\ Lower(g)
      <4>1. arm'[g] = "idle"
        BY <1>1, <3>4 DEF Lower, DeviceInv
      <4> QED
        BY <2>1, <2>2, <3>4, <4>1
    <3>5. CASE g = move.g /\ (PickUp(g) \/ DropBox(g) \/ GoHome(g) \/ ReturnBoxes(g))
      <4>1. arm[g] \in {"picking", "holding", "returning"}
        BY <3>5 DEF PickUp, DropBox, GoHome, ReturnBoxes
      <4> QED
        BY <2>3, <3>5, <4>1
    <3> QED
      BY <3>1, <3>2, <3>3, <3>4, <3>5
  <2>7. CompleteBatch \/ RunBelt \/ Poll => UNCHANGED <<arm, task, held>>
    BY DEF CompleteBatch, RunBelt, Poll, armVars
  <2> QED
    BY <1>3, <2>5, <2>6, <2>7 DEF Machinery
<1>4. Machinery \/ Poll => pc = "await_move"
  BY MachineryFrame
<1>5. Worker \/ Abandon => CommandMove
  BY DEF Worker, BackwardsDone, CommandBackward, BackwardComplete, MovesDone, MoveGripperIdle,
         MoveComplete, RefillsDone, FrontClear, CommandForward, ForwardComplete,
         StartBatch, AllGrippersIdle, ClearOutboundComplete, WriteBatchCount, TriggerGripper,
         BatchComplete, Announce, CommandReturn, Settled, ReturnComplete, UpdateStore, PlanDone,
         Goto, Abandon
<1> QED
  BY <1>2, <1>3, <1>4, <1>5 DEF Next

(* Nothing but a conveyor run empties a back.                                  *)
LEMMA BackKept ==
  ASSUME SlotsInReach, TypeInv, PhaseInv, BoxInv, Orderly, Machinery, ~RunBelt,
         NEW level \in Level, ~BackEmpty(shelf, level)
  PROVE  ~BackEmpty(shelf', level)
<1>1. PICK loc \in BackSlots(level) : shelf[loc] # <<>>
  BY DEF BackEmpty
<1>2. loc \in Location /\ ~IsFront(loc) /\ shelf[loc] \in Seq(Sku) /\ DeviceInv
  BY LevelSlots DEF TypeInv, DeviceInv
<1>3. CASE UNCHANGED shelf
  BY <1>3
<1>4. CASE \E g \in Gripper : PickUp(g) \/ Lift(g)
  <2>1. PICK g \in Gripper : PickUp(g) \/ Lift(g)
    BY <1>4
  <2>2. PICK at : (PickUp(g) => at = task[g].loc) /\ (Lift(g) => at = task[g].from)
    <3>1. PickUp(g) => ~Lift(g)
      BY DEF PickUp, Lift
    <3> QED
      BY <3>1
  <2>3. IsFront(at)
    <3>1. CASE PickUp(g)
      <4>1. HasBoxes(g)
        BY <3>1 DEF PickUp, HasBoxes
      <4> QED
        BY <2>2, <3>1, <4>1 DEF BoxInv, SlotInv
    <3>2. CASE Lift(g)
      <4>1. pc = "await_move" /\ g = Move.g /\ arm[g] = "lifting"
        BY <3>2, ShelfLift DEF Lift
      <4>2. task[g].from = Move.from
        BY <4>1 DEF BoxInv, MoveInv
      <4>3. IsFront(Move.from)
        BY <4>1, MoveListed
      <4> QED
        BY <2>2, <3>2, <4>2, <4>3
    <3> QED
      BY <2>1, <3>1, <3>2
  <2>4. \E rest : shelf' = [shelf EXCEPT ![at] = rest]
    BY <2>1, <2>2 DEF PickUp, Lift
  <2>5. shelf'[loc] = shelf[loc]
    BY <1>2, <2>3, <2>4 DEF DeviceInv
  <2> QED
    BY <1>1, <2>5 DEF BackEmpty
<1>5. CASE \E g \in Gripper : ReturnBoxes(g) \/ Lower(g)
  <2>1. PICK g \in Gripper : ReturnBoxes(g) \/ Lower(g)
    BY <1>5
  <2>2. PICK s \in Seq(Sku) : \E at : shelf' = [shelf EXCEPT ![at] = s \o @]
    BY <1>2, <2>1 DEF ReturnBoxes, Lower, DeviceInv
  <2>3. shelf'[loc] = shelf[loc] \/ shelf'[loc] = s \o shelf[loc]
    BY <1>2, <2>2 DEF DeviceInv
  <2>4. s \o shelf[loc] # <<>>
    <3>1. PICK t \in Seq(Sku) : t = shelf[loc]
      BY <1>2
    <3>2. Len(s \o t) = Len(s) + Len(t) /\ Len(s) \in Nat /\ Len(t) \in Nat /\ Len(t) # 0
      BY <1>1, <3>1, EmptySeq
    <3>3. Len(s \o t) # 0
      BY <3>2
    <3> QED
      BY <3>1, <3>3
  <2> QED
    BY <1>1, <2>3, <2>4 DEF BackEmpty
<1>6. CASE \E g \in Gripper : DropBox(g) \/ GoHome(g)
  <2>1. UNCHANGED shelf
    BY <1>6 DEF DropBox, GoHome
  <2> QED
    BY <1>3, <2>1
<1>7. CASE CompleteBatch
  <2>1. UNCHANGED shelf
    BY <1>7 DEF CompleteBatch, armVars
  <2> QED
    BY <1>3, <2>1
<1> QED
  BY <1>4, <1>5, <1>6, <1>7 DEF Machinery

(* A back slot of one level is no slot of another. *)
LEMMA OtherLevel ==
  ASSUME NEW level \in Level, NEW other \in Level, level # other,
         NEW loc \in BackSlots(level)
  PROVE  loc \in Location /\ loc \notin FrontSlots(other) /\ loc \notin BackSlots(other)
<1>1. PICK s \in Station, l \in Layer : level = <<s, l>>
  BY DEF Level
<1>2. PICK t \in Station, m \in Layer : other = <<t, m>>
  BY DEF Level
<1> QED
  BY <1>1, <1>2 DEF FrontSlots, BackSlots, Slot, Location, Position

LEMMA BeltStep ==
  ASSUME OneBoxEach, SlotsInReach,
         TypeInv, HandInv, PhaseInv, FrontInv, BoxInv, Next
  PROVE  BeltInv'
<1> DEFINE BeltRuns ==
             \/ pc = "await_backward" /\ belt = [way |-> "backward", level |-> Batch.backs[k]]
             \/ pc = "await_forward" /\ belt = [way |-> "forward", level |-> Head(refills).level]
           Known(level) ==
             \/ ~BackEmpty(shelf, level)
             \/ pc = "await_forward" /\ level = Head(refills).level /\ level \notin polled.front
<1> SUFFICES ASSUME Going'
             PROVE  (belt' # NoRun => BeltRuns') /\ \A level \in polled'.back : Known(level)'
  BY DEF BeltInv
<1>1. Going /\ Orderly
  BY BatchOrder DEF Going, Orderly
<1>2. (belt # NoRun => BeltRuns) /\ \A level \in polled.back : Known(level)
  BY <1>1 DEF BoxInv, BeltInv
<1>3. DeviceInv /\ polled.back \subseteq Level
  BY DEF TypeInv, PollInv
<1>4. CASE Worker
  <2>2. polled' = polled /\ shelf' = shelf
    <3>1. shelf' = shelf
      BY <1>3, <1>4, HandsLeftAlone
    <3>2. polled' = polled
      BY <1>4 DEF Worker, BackwardsDone, CommandBackward, BackwardComplete, MovesDone,
         MoveGripperIdle, CommandMove, MoveComplete, RefillsDone, FrontClear, CommandForward,
         ForwardComplete, StartBatch, AllGrippersIdle, ClearOutboundComplete, WriteBatchCount,
         TriggerGripper, BatchComplete, Announce, CommandReturn, Settled, ReturnComplete,
         UpdateStore, PlanDone, Stay, pollVars
    <3> QED
      BY <3>1, <3>2
  <2>3. pc = "await_forward" => Head(refills).level \in polled.front
    BY <1>4 DEF Worker, BackwardsDone, CommandBackward, BackwardComplete, MovesDone,
         MoveGripperIdle, CommandMove, MoveComplete, RefillsDone, FrontClear, CommandForward,
         ForwardComplete, StartBatch, AllGrippersIdle, ClearOutboundComplete, WriteBatchCount,
         TriggerGripper, BatchComplete, Announce, CommandReturn, Settled, ReturnComplete,
         UpdateStore, PlanDone
  <2>4. \A level \in polled'.back : Known(level)'
    <3>1. \A level \in polled'.back : ~BackEmpty(shelf', level)
      BY <1>2, <2>2, <2>3
    <3> QED
      BY <3>1
  <2>5. CASE CommandBackward
    <3>1. /\ belt' = [way |-> "backward", level |-> Batch.backs[k]] /\ pc' = "await_backward"
          /\ UNCHANGED <<plan, b, k>>
      BY <2>5 DEF CommandBackward
    <3>2. Batch' = Batch
      BY <3>1 DEF Batch
    <3> QED
      BY <2>4, <3>1, <3>2
  <2>6. CASE CommandForward
    <3>1. /\ belt' = [way |-> "forward", level |-> Head(refills).level]
          /\ pc' = "await_forward" /\ refills' = refills
      BY <2>6 DEF CommandForward
    <3> QED
      BY <2>4, <3>1
  <2>7. CASE BackwardComplete
    <3>1. belt = NoRun /\ belt' = belt
      BY <2>7, BackwardOver DEF BackwardComplete, Stay
    <3> QED
      BY <2>4, <3>1
  <2>8. CASE ForwardComplete
    <3>1. belt = NoRun /\ belt' = belt
      BY <2>8, ForwardOver DEF ForwardComplete, Stay
    <3> QED
      BY <2>4, <3>1
  <2>9. CASE ~CommandBackward /\ ~CommandForward /\ ~BackwardComplete /\ ~ForwardComplete
    <3>1. pc \notin {"await_backward", "await_forward"} /\ belt' = belt
      BY <1>4, <2>9 DEF Worker, BackwardsDone, MovesDone, MoveGripperIdle, CommandMove,
         MoveComplete, RefillsDone, FrontClear, StartBatch, AllGrippersIdle,
         ClearOutboundComplete, WriteBatchCount, TriggerGripper, BatchComplete, Announce,
         CommandReturn, Settled, ReturnComplete, UpdateStore, PlanDone, Stay
    <3>2. belt' = NoRun
      BY <1>2, <3>1
    <3> QED
      BY <2>4, <3>2
  <2> QED
    BY <2>5, <2>6, <2>7, <2>8, <2>9
<1>5. CASE Machinery \/ Poll
  <2>1. UNCHANGED <<plan, pc, b, k, refills>> /\ Batch' = Batch
    BY <1>5, MachineryFrame DEF Batch
  <2>2. belt' = belt \/ (RunBelt /\ belt' = NoRun)
    BY <1>5 DEF Machinery, PickUp, DropBox, GoHome, ReturnBoxes, Lift, Lower, CompleteBatch,
                RunBelt, Poll
  <2>3. belt' # NoRun => BeltRuns'
    BY <1>2, <2>1, <2>2
  <2>4. CASE Poll
    <3>1. \A level \in polled'.back : ~BackEmpty(shelf', level)
      <4>1. polled'.back = {l \in Level : ~BackEmpty(shelf, l)} /\ shelf' = shelf
        BY <2>4 DEF Poll, armVars
      <4> QED
        BY <4>1
    <3> QED
      BY <2>3, <3>1
  <2>5. CASE Machinery
    <3>1. polled' = polled
      BY <2>5 DEF Machinery, PickUp, DropBox, GoHome, ReturnBoxes, Lift, Lower, CompleteBatch,
                  RunBelt, pollVars
    <3>2. ASSUME NEW level \in polled.back PROVE Known(level)'
      <4>1. level \in Level
        BY <1>3
      <4>2. CASE pc = "await_forward" /\ level = Head(refills).level /\ level \notin polled.front
        BY <2>1, <3>1, <4>2
      <4>3. CASE ~BackEmpty(shelf, level) /\ ~RunBelt
        <5>1. ~BackEmpty(shelf', level)
          BY <1>1, <2>5, <4>1, <4>3, BackKept
        <5> QED
          BY <5>1
      <4>4. CASE ~BackEmpty(shelf, level) /\ RunBelt
        <5>1. CASE belt.way = "forward"
          <6>1. /\ pc = "await_forward" /\ belt.level = Head(refills).level
                /\ belt.level \notin polled.front
            BY <1>1, <5>1 DEF FrontInv
          <6>2. CASE level = belt.level
            BY <2>1, <3>1, <6>1, <6>2
          <6>3. CASE level # belt.level
            <7>1. shelf' = BackToFront(shelf, belt.level) /\ belt.level \in Level
              BY <1>3, <4>4, <5>1 DEF RunBelt, DeviceInv
            <7>2. PICK loc \in BackSlots(level) : shelf[loc] # <<>>
              BY <4>4 DEF BackEmpty
            <7>3. /\ loc \in Location
                  /\ loc \notin FrontSlots(belt.level) /\ loc \notin BackSlots(belt.level)
              BY <4>1, <6>3, <7>1, <7>2, OtherLevel
            <7>4. shelf'[loc] = shelf[loc]
              BY <7>1, <7>3 DEF BackToFront
            <7>5. ~BackEmpty(shelf', level)
              BY <7>2, <7>4 DEF BackEmpty
            <7> QED
              BY <7>5
          <6> QED
            BY <6>2, <6>3
        <5>2. CASE belt.way = "backward"
          <6>1. /\ shelf' = FrontToBack(shelf, belt.level) /\ belt.level \in Level
                /\ BackEmpty(shelf, belt.level)
            BY <1>3, <4>4, <5>2 DEF RunBelt, DeviceInv
          <6>2. level # belt.level
            BY <4>4, <6>1
          <6>3. PICK loc \in BackSlots(level) : shelf[loc] # <<>>
            BY <4>4 DEF BackEmpty
          <6>4. /\ loc \in Location
                /\ loc \notin FrontSlots(belt.level) /\ loc \notin BackSlots(belt.level)
            BY <4>1, <6>1, <6>2, <6>3, OtherLevel
          <6>5. shelf'[loc] = shelf[loc]
            BY <6>1, <6>4 DEF FrontToBack
          <6>6. ~BackEmpty(shelf', level)
            BY <6>3, <6>5 DEF BackEmpty
          <6> QED
            BY <6>6
        <5> QED
          BY <4>4, <5>1, <5>2 DEF RunBelt
      <4> QED
        BY <1>2, <4>2, <4>3, <4>4
    <3> QED
      BY <2>3, <3>1, <3>2
  <2> QED
    BY <1>5, <2>4, <2>5
<1>6. ~Abandon
  BY DEF Abandon, Going
<1> QED
  BY <1>4, <1>5, <1>6 DEF Next

LEMMA EndStep ==
  ASSUME TypeInv, PhaseInv, BeltInv, EndInv, Next
  PROVE  EndInv'
<1> SUFFICES ASSUME pc' = "done"
             PROVE  /\ belt' = NoRun /\ due' = 0
                    /\ \A g \in Gripper : arm'[g] \in {"idle", "picking", "holding"}
  BY DEF EndInv
<1>1. DeviceInv
  BY DEF TypeInv
<1>2. CASE PlanDone
  <2>1. Going /\ pc = "backward"
    BY <1>2 DEF PlanDone, Going
  <2>2. belt = NoRun
    BY <2>1 DEF BeltInv
  <2>3. due = 0
    BY <2>1 DEF TypeInv, LineInv
  <2>4. \A g \in Gripper : arm[g] \in {"idle", "picking", "holding"}
    <3>1. \A g \in Gripper : arm[g] \notin {"lifting", "lowering", "returning"}
      BY <2>1 DEF PhaseInv
    <3> QED
      BY <1>1, <3>1 DEF DeviceInv
  <2>5. belt' = belt /\ due' = due /\ arm' = arm
    BY <1>2 DEF PlanDone, Stay, armVars, lineVars
  <2> QED
    BY <2>2, <2>3, <2>4, <2>5
<1>3. CASE pc = "done" /\ ~Worker
  <2>1. Machinery \/ Poll
    BY <1>3 DEF Next, Abandon
  <2>2. belt = NoRun /\ due = 0 /\ \A g \in Gripper : arm[g] \in {"idle", "picking", "holding"}
    BY <1>3 DEF EndInv
  <2>3. \A g \in Gripper : arm'[g] \in {"idle", "picking", "holding"}
    <3> SUFFICES ASSUME NEW g \in Gripper PROVE arm'[g] \in {"idle", "picking", "holding"}
      OBVIOUS
    <3>1. \/ arm'[g] = arm[g]
          \/ arm[g] = "picking" /\ arm'[g] = "holding"
          \/ arm[g] = "lifting" /\ arm'[g] = "lowering"
          \/ arm'[g] = "idle"
      BY <1>1, <2>1, ArmsMove
    <3> QED
      BY <2>2, <3>1
  <2>4. belt' = belt \/ belt' = NoRun
    BY <2>1 DEF Machinery, PickUp, DropBox, GoHome, ReturnBoxes, Lift, Lower, CompleteBatch,
                RunBelt, Poll
  <2>5. due' = due \/ due' = 0
    BY <2>1 DEF Machinery, PickUp, DropBox, GoHome, ReturnBoxes, Lift, Lower, CompleteBatch,
                RunBelt, Poll, lineVars
  <2> QED
    BY <2>2, <2>3, <2>4, <2>5
<1> QED
  BY <1>2, <1>3, OrderlyBefore

LEMMA ShelfStep ==
  ASSUME OneBoxEach, WavesKeepApart, SlotsInReach, ContinuesAWave,
         TypeInv, Safe, BoxInv, Next, ~hasty'
  PROVE  ShelfInv'
<1> SUFFICES ASSUME Orderly' PROVE \A loc \in Location : Stands(loc, Truth[loc])'
  BY DEF ShelfInv
<1>1. /\ Orderly /\ TypeInv /\ HandInv /\ PhaseInv /\ DeviceInv
      /\ \A loc \in Location : Stands(loc, Truth[loc])
  BY OrderlyBefore DEF Safe, TypeInv, BoxInv, ShelfInv
<1>2. ASSUME Truth' = Truth, shelf' = shelf, held' = held,
             \A g \in Gripper : \A loc : Holds(g, loc)' <=> Holds(g, loc)
      PROVE  \A loc \in Location : Stands(loc, Truth[loc])'
  <2> SUFFICES ASSUME NEW loc \in Location PROVE Stands(loc, Truth[loc])'
    OBVIOUS
  <2>1. PICK boxes : boxes = Truth[loc]
    OBVIOUS
  <2>2. Stands(loc, boxes)'
    BY <1>1, <1>2, <2>1, StandsKept
  <2> QED
    BY <1>2, <2>1, <2>2, StandsNext
<1>3. CASE Worker
  <2>1. Truth' = Truth
    BY <1>3, TruthKeptByWorker
  <2> QED
    BY <1>1, <1>2, <1>3, <2>1, HandsLeftAlone
<1>4. CASE Poll \/ CompleteBatch
  <2>1. /\ UNCHANGED <<plan, store, pc, b, k, refills, dropped, belt>>
        /\ shelf' = shelf /\ arm' = arm /\ held' = held /\ task' = task
    BY <1>4 DEF Poll, CompleteBatch, hostVars, armVars, lineVars
  <2>2. Truth' = Truth
    BY <2>1, TruthKept
  <2>3. \A g \in Gripper : \A loc : Holds(g, loc)' <=> Holds(g, loc)
    BY <2>1 DEF Holds
  <2> QED
    BY <1>2, <2>1, <2>2, <2>3
<1>5. ASSUME NEW g \in Gripper,
             PickUp(g) \/ DropBox(g) \/ GoHome(g) \/ ReturnBoxes(g) \/ Lift(g) \/ Lower(g)
      PROVE  \A loc \in Location : Stands(loc, Truth[loc])'
  BY <1>1, <1>5, ShelfPickUp, ShelfDrop, ShelfGoHome, ShelfReturn, ShelfLift, ShelfLower
<1>6. CASE RunBelt
  BY <1>1, <1>6, ShelfBelt
<1>7. ~Abandon
  BY DEF Abandon, Orderly
<1> QED
  BY <1>3, <1>4, <1>5, <1>6, <1>7 DEF Next, Machinery

LEMMA BoxStep ==
  ASSUME OneBoxEach, WavesKeepApart, SlotsInReach, ContinuesAWave,
         TypeInv, Safe, BoxInv, [Next]_vars, ~hasty', ~misfit'
  PROVE  BoxInv'
<1>1. CASE Next
  <2>1. /\ TypeInv /\ DeviceInv /\ HandInv /\ PhaseInv /\ FrontInv
        /\ FitInv /\ SlotInv /\ EmptyHanded /\ BeltInv /\ EndInv
    BY DEF Safe, TypeInv, BoxInv
  <2>2. FitInv'
    BY <1>1, <2>1, FitStep
  <2>3. SlotInv' /\ EmptyHanded' /\ EndInv'
    BY <1>1, <2>1, SlotStep, EmptyHandedStep, EndStep
  <2>4. MoveInv' /\ BeltInv'
    BY <1>1, <2>1, MoveInvStep, BeltStep
  <2>5. ShelfInv'
    BY <1>1, ShelfStep
  <2> QED
    BY <2>2, <2>3, <2>4, <2>5 DEF BoxInv
<1>2. CASE UNCHANGED vars
  <2>1. UNCHANGED <<plan, store, pc, b, k, refills, shelf, arm, task, held, belt, due, dropped,
                    polled>>
    BY <1>2 DEF vars, hostVars, armVars, lineVars, pollVars
  <2>2. /\ Batch' = Batch /\ Move' = Move /\ Going' = Going /\ Orderly' = Orderly
        /\ Truth' = Truth /\ Started' = Started /\ Recorded' = Recorded
    <3>1. /\ Batch' = Batch /\ Move' = Move /\ Going' = Going /\ Orderly' = Orderly
          /\ Started' = Started /\ Recorded' = Recorded
      BY <2>1 DEF Batch, Move, Going, Orderly, Started, Recorded
    <3> QED
      BY <2>1, <3>1, TruthKept
  <2>3. \A g \in Gripper : (HasBoxes(g)' <=> HasBoxes(g)) /\ \A loc : Holds(g, loc)' <=> Holds(g, loc)
    BY <2>1 DEF HasBoxes, Holds
  <2>4. FitInv'
    <3>1. PicksLeft' <=> PicksLeft
      BY <2>1, <2>2 DEF PicksLeft
    <3>2. \A level : BackingFits(level)' <=> BackingFits(level)
      BY <2>1, <2>3 DEF BackingFits, BackEmpty
    <3>3. MoveFits(Move)' <=> MoveFits(Move)
      BY <2>1, <2>2, <2>3 DEF MoveFits, CanMove
    <3>4. \A level : RefillFits(level)' <=> RefillFits(level)
      BY <2>1 DEF RefillFits, FrontEmpty
    <3> QED
      BY <2>1, <2>2, <3>1, <3>2, <3>3, <3>4 DEF BoxInv, FitInv
  <2>5. SlotInv' /\ EmptyHanded' /\ MoveInv'
    BY <2>1, <2>2, <2>3 DEF BoxInv, SlotInv, EmptyHanded, MoveInv
  <2>6. BeltInv' /\ EndInv'
    BY <2>1, <2>2 DEF BoxInv, BeltInv, EndInv
  <2>7. ShelfInv'
    BY <2>1, <2>2, <2>3 DEF BoxInv, ShelfInv, Stands
  <2> QED
    BY <2>4, <2>5, <2>6, <2>7 DEF BoxInv
<1> QED
  BY <1>1, <1>2

LEMMA BoxInit ==
  ASSUME Init
  PROVE  BoxInv
<1>1. /\ pc = "backward" /\ belt = NoRun /\ store = shelf
      /\ arm = [g \in Gripper |-> "idle"] /\ held = [g \in Gripper |-> <<>>]
      /\ polled.back = {l \in Level : ~BackEmpty(shelf, l)}
  BY DEF Init
<1>2. FitInv
  BY <1>1 DEF FitInv, Started
<1>3. /\ \A g \in Gripper : arm[g] = "idle" /\ held[g] = <<>>
      /\ \A g \in Gripper : ~HasBoxes(g) /\ \A loc : ~Holds(g, loc)
  BY <1>1 DEF HasBoxes, Holds
<1>4. SlotInv /\ EmptyHanded /\ MoveInv /\ EndInv
  BY <1>1, <1>3 DEF SlotInv, EmptyHanded, MoveInv, EndInv
<1>5. BeltInv
  BY <1>1 DEF BeltInv
<1>6. ShelfInv
  <2>1. Truth = store
    BY <1>1, TruthByPhase DEF TruthOfPhase
  <2> QED
    BY <1>1, <1>3, <2>1 DEF ShelfInv, Stands
<1> QED
  BY <1>2, <1>4, <1>5, <1>6 DEF BoxInv

LEMMA BoxHolds ==
  ASSUME OneBoxEach, WavesKeepApart, SlotsInReach, ContinuesAWave
  PROVE  Spec => [](TypeInv /\ (hasty \/ misfit \/ (Safe /\ BoxInv)))
<1>1. Spec => []TypeInv /\ [](hasty \/ Safe)
  BY TypeInvHolds, SafeHolds
<1>2. Init => BoxInv
  BY BoxInit
<1>3. TypeInv /\ Safe /\ BoxInv /\ [Next]_vars /\ ~hasty' /\ ~misfit' => BoxInv'
  BY BoxStep
<1>4. [Next]_vars => (hasty => hasty') /\ (misfit => misfit')
  BY HistoryStays
<1> QED
  BY <1>1, <1>2, <1>3, <1>4, PTL DEF Spec

(* The worker's inventory is what stands in the cabinets whenever it is about  *)
(* to command the machinery, boxes that a gripper is to put back counted to    *)
(* their slot: as long as no move was hasty and every step fitted, however     *)
(* late the machinery and the polls are.                                       *)
THEOREM StoreMatchesShelfHolds ==
  ASSUME OneBoxEach, WavesKeepApart, SlotsInReach, ContinuesAWave
  PROVE  Spec => []StoreMatchesShelf
<1>1. Spec => [](TypeInv /\ (hasty \/ misfit \/ (Safe /\ BoxInv)))
  BY BoxHolds
<1>2. hasty \/ misfit \/ (Safe /\ BoxInv) => StoreMatchesShelf
  <2> SUFFICES ASSUME BoxInv, NEW loc \in Location,
                      pc \in {"backward", "move", "command_move", "refill", "command_forward",
                              "batch", "await_idle", "clear", "done"}
               PROVE  store[loc] = Standing(loc)
    BY DEF StoreMatchesShelf, AsPlanned
  <2>1. Orderly /\ Truth = store
    BY TruthByPhase DEF Orderly, TruthOfPhase
  <2>2. Stands(loc, store[loc])
    BY <2>1 DEF BoxInv, ShelfInv
  <2> DEFINE owners == {g \in Gripper : arm[g] \in {"holding", "returning"}
                                         /\ held[g] # <<>> /\ task[g].loc = loc}
  <2>3. owners = {g \in Gripper : Holds(g, loc)}
    BY DEF Holds
  <2>4. CASE owners = {}
    BY <2>2, <2>3, <2>4 DEF Stands, Standing
  <2>5. CASE owners # {}
    <3>1. PICK g : g = CHOOSE h \in owners : TRUE
      OBVIOUS
    <3>2. g \in owners
      BY <2>5, <3>1
    <3>3. Standing(loc) = held[g] \o shelf[loc]
      BY <2>5, <3>1 DEF Standing
    <3>4. g \in Gripper /\ Holds(g, loc)
      BY <2>3, <3>2
    <3> QED
      BY <2>2, <3>3, <3>4 DEF Stands
  <2> QED
    BY <2>4, <2>5
<1> QED
  BY <1>1, <1>2, PTL

-----------------------------------------------------------------------------
(* The boxes, also in a run that was abandoned *)

(* The boxes that are in the cabinets or in a gripper. *)
Present == Stored(shelf) \cup UNION {ToSet(held[g]) : g \in Gripper}

(* The inventory lists every box that is there, and else only boxes of the     *)
(* batch that is being dropped.                                                *)
GhostInv ==
  /\ Present \subseteq Stored(store)
  /\ \A x \in Stored(store) \ Present : b <= Len(plan.batches) /\ x \in Items(Batch)

(* While boxes are due nothing else moves, and what the grippers of the batch  *)
(* drop next are its boxes.                                                    *)
ItsBox(g, box) ==
  \E i \in DOMAIN Batch.picks : Batch.picks[i].g = g /\ Batch.picks[i].items = <<box>>

DropsItsBox(g) ==
  /\ arm[g] = "picking" => shelf[task[g].loc] # <<>> /\ ItsBox(g, Head(shelf[task[g].loc]))
  /\ arm[g] = "holding" /\ task[g].left > 0 /\ held[g] # <<>> => ItsBox(g, Head(held[g]))

DueInv ==
  due > 0 =>
    /\ b <= Len(plan.batches) /\ belt = NoRun
    /\ \A g \in Gripper : arm[g] \in {"idle", "picking", "holding"}
    /\ \A g, h \in Gripper : g # h /\ HasBoxes(g) /\ HasBoxes(h) => task[g].loc # task[h].loc
    /\ \A g \in Gripper \ dropped : DropsItsBox(g)

LEMMA StoredMember ==
  ASSUME NEW s, NEW x
  PROVE  x \in Stored(s) <=> \E loc \in Location : x \in Range(s[loc])
<1>1. \A loc \in Location : ToSet(s[loc]) = Range(s[loc])
  BY SetOfRange
<1> QED
  BY <1>1 DEF Stored

LEMMA PresentMember ==
  \A x : x \in Present <=> \/ \E loc \in Location : x \in Range(shelf[loc])
                           \/ \E g \in Gripper : x \in Range(held[g])
<1> SUFFICES ASSUME NEW x
             PROVE  x \in Present <=> \/ \E loc \in Location : x \in Range(shelf[loc])
                                      \/ \E g \in Gripper : x \in Range(held[g])
  OBVIOUS
<1>1. x \in Stored(shelf) <=> \E loc \in Location : x \in Range(shelf[loc])
  BY StoredMember
<1>2. \A g \in Gripper : ToSet(held[g]) = Range(held[g])
  BY SetOfRange
<1> QED
  BY <1>1, <1>2 DEF Present

(* A conveyor run and a move keep the boxes there are. *)
LEMMA SameBoxes ==
  ASSUME NEW s \in [Location -> Seq(Sku)], NEW x
  PROVE  /\ \A level \in Level :
              /\ FrontEmpty(s, level) => (x \in Stored(BackToFront(s, level)) <=> x \in Stored(s))
              /\ BackEmpty(s, level) => (x \in Stored(FrontToBack(s, level)) <=> x \in Stored(s))
         /\ \A from, to \in Location : CanMove(s, from, to) =>
              /\ x \in Stored(MoveGoods(s, from, to)) <=> x \in Stored(s)
              /\ x \in Stored([s EXCEPT ![from] = <<>>]) \/ x \in Range(s[from])
                   <=> x \in Stored(s)
<1>1. \A r : x \in Stored(r) <=> \E loc \in Location : x \in Range(r[loc])
  BY StoredMember
<1>2. ASSUME NEW level \in Level
      PROVE  /\ FrontSlots(level) \subseteq Location /\ BackSlots(level) \subseteq Location
             /\ FrontSlots(level) \cap BackSlots(level) = {}
             /\ \A loc \in FrontSlots(level) :
                  BackOf(loc) \in BackSlots(level) /\ FrontOf(BackOf(loc)) = loc
             /\ \A loc \in BackSlots(level) :
                  FrontOf(loc) \in FrontSlots(level) /\ BackOf(FrontOf(loc)) = loc
  <2>1. PICK t \in Station, l \in Layer : level = <<t, l>>
    BY DEF Level
  <2> QED
    BY <2>1 DEF FrontSlots, BackSlots, Slot, BackOf, FrontOf, Location, Position
<1>3. ASSUME NEW level \in Level, FrontEmpty(s, level)
      PROVE  x \in Stored(BackToFront(s, level)) <=> x \in Stored(s)
  <2>1. PICK r : r = BackToFront(s, level)
    OBVIOUS
  <2>2. \A loc \in Location :
          r[loc] = IF loc \in FrontSlots(level) THEN s[BackOf(loc)]
                   ELSE IF loc \in BackSlots(level) THEN <<>> ELSE s[loc]
    BY <2>1 DEF BackToFront
  <2>3. \A loc \in FrontSlots(level) : s[loc] = <<>>
    BY <1>3 DEF FrontEmpty
  <2>4. ASSUME NEW loc \in Location, x \in Range(r[loc])
        PROVE  \E at \in Location : x \in Range(s[at])
    BY <1>2, <2>2, <2>4, RangeEmpty
  <2>5. ASSUME NEW loc \in Location, x \in Range(s[loc])
        PROVE  \E at \in Location : x \in Range(r[at])
    <3>1. loc \notin FrontSlots(level)
      BY <2>3, <2>5, RangeEmpty
    <3>2. loc \in BackSlots(level) => r[FrontOf(loc)] = s[loc] /\ FrontOf(loc) \in Location
      BY <1>2, <2>2
    <3>3. loc \notin BackSlots(level) => r[loc] = s[loc]
      BY <2>2, <3>1
    <3> QED
      BY <2>5, <3>2, <3>3
  <2> QED
    BY <1>1, <2>1, <2>4, <2>5
<1>4. ASSUME NEW level \in Level, BackEmpty(s, level)
      PROVE  x \in Stored(FrontToBack(s, level)) <=> x \in Stored(s)
  <2>1. PICK r : r = FrontToBack(s, level)
    OBVIOUS
  <2>2. \A loc \in Location :
          r[loc] = IF loc \in BackSlots(level) THEN s[FrontOf(loc)]
                   ELSE IF loc \in FrontSlots(level) THEN <<>> ELSE s[loc]
    BY <2>1 DEF FrontToBack
  <2>3. \A loc \in BackSlots(level) : s[loc] = <<>>
    BY <1>4 DEF BackEmpty
  <2>4. ASSUME NEW loc \in Location, x \in Range(r[loc])
        PROVE  \E at \in Location : x \in Range(s[at])
    BY <1>2, <2>2, <2>4, RangeEmpty
  <2>5. ASSUME NEW loc \in Location, x \in Range(s[loc])
        PROVE  \E at \in Location : x \in Range(r[at])
    <3>1. loc \notin BackSlots(level)
      BY <2>3, <2>5, RangeEmpty
    <3>2. loc \in FrontSlots(level) => r[BackOf(loc)] = s[loc] /\ BackOf(loc) \in Location
      BY <1>2, <2>2
    <3>3. loc \notin FrontSlots(level) => r[loc] = s[loc]
      BY <2>2, <3>1
    <3> QED
      BY <2>5, <3>2, <3>3
  <2> QED
    BY <1>1, <2>1, <2>4, <2>5
<1>5. ASSUME NEW from \in Location, NEW to \in Location, CanMove(s, from, to)
      PROVE  /\ x \in Stored(MoveGoods(s, from, to)) <=> x \in Stored(s)
             /\ x \in Stored([s EXCEPT ![from] = <<>>]) \/ x \in Range(s[from]) <=> x \in Stored(s)
  <2>1. PICK r : r = MoveGoods(s, from, to)
    OBVIOUS
  <2>2. PICK q : q = [s EXCEPT ![from] = <<>>]
    OBVIOUS
  <2>3. s[to] = <<>> /\ from # to
    BY <1>5 DEF CanMove
  <2>4. r = [s EXCEPT ![to] = s[from], ![from] = <<>>]
    BY <2>1 DEF MoveGoods
  <2>5. \A loc \in Location :
          /\ r[loc] = IF loc = from THEN <<>> ELSE IF loc = to THEN s[from] ELSE s[loc]
          /\ q[loc] = IF loc = from THEN <<>> ELSE s[loc]
    BY <2>2, <2>3, <2>4
  <2>6. (\E loc \in Location : x \in Range(r[loc])) <=> \E loc \in Location : x \in Range(s[loc])
    BY <2>3, <2>5, RangeEmpty
  <2>7. (\E loc \in Location : x \in Range(q[loc])) \/ x \in Range(s[from])
          <=> \E loc \in Location : x \in Range(s[loc])
    BY <2>5, RangeEmpty
  <2> QED
    BY <1>1, <2>1, <2>2, <2>6, <2>7
<1> QED
  BY <1>3, <1>4, <1>5

(* In an orderly run the boxes that are there are those of the truth, and      *)
(* those that a gripper moves.                                                 *)
LEMMA PresentInTruth ==
  ASSUME SlotsInReach, TypeInv, PhaseInv, BoxInv, Orderly, NEW x
  PROVE  x \in Present <=>
           \/ x \in Stored(Truth)
           \/ pc = "await_move" /\ arm[Move.g] = "lowering" /\ x \in Range(store[Move.from])
<1>1. DeviceInv /\ \A loc \in Location : Stands(loc, Truth[loc])
  BY DEF TypeInv, BoxInv, ShelfInv
<1>2. ASSUME NEW loc \in Location
      PROVE  x \in Range(Truth[loc]) <=>
               \/ x \in Range(shelf[loc])
               \/ \E g \in Gripper : Holds(g, loc) /\ x \in Range(held[g])
  <2>1. PICK boxes : boxes = Truth[loc]
    OBVIOUS
  <2>2. Stands(loc, boxes)
    BY <1>1, <2>1
  <2>3. \A g \in Gripper : Range(held[g] \o shelf[loc]) = Range(held[g]) \cup Range(shelf[loc])
    <3>1. \A g \in Gripper : held[g] \in Seq(Sku) /\ shelf[loc] \in Seq(Sku)
      BY <1>1 DEF DeviceInv
    <3> QED
      BY <3>1, RangeConcat
  <2>4. \A g \in Gripper : Holds(g, loc) => boxes = held[g] \o shelf[loc]
    BY <2>2 DEF Stands
  <2>5. (\A g \in Gripper : ~Holds(g, loc)) => boxes = shelf[loc]
    BY <2>2 DEF Stands
  <2>6. \A g \in Gripper : Holds(g, loc) =>
          Range(boxes) = Range(held[g]) \cup Range(shelf[loc])
    BY <2>3, <2>4
  <2> QED
    BY <2>1, <2>5, <2>6
<1>3. ASSUME NEW g \in Gripper, x \in Range(held[g])
      PROVE  \/ \E loc \in Location : Holds(g, loc)
             \/ pc = "await_move" /\ g = Move.g /\ arm[g] = "lowering"
  <2>1. held[g] # <<>>
    BY <1>3, RangeEmpty
  <2>2. arm[g] \in {"holding", "returning", "lowering"}
    BY <1>1, <2>1 DEF DeviceInv, BoxInv, EmptyHanded
  <2>3. CASE arm[g] = "lowering"
    <3>1. Going
      BY <2>3 DEF BoxInv, EndInv, Going, Orderly
    <3> QED
      BY <2>3, <3>1 DEF PhaseInv
  <2>4. CASE arm[g] \in {"holding", "returning"}
    <3>1. task[g].loc \in Location
      BY <1>1, <2>4 DEF DeviceInv, PickTask
    <3> QED
      BY <2>1, <2>4, <3>1 DEF Holds
  <2> QED
    BY <2>2, <2>3, <2>4
<1>4. pc = "await_move" => Move.g \in Gripper
  BY MoveListed
<1>5. pc = "await_move" /\ arm[Move.g] = "lowering" => held[Move.g] = store[Move.from]
  BY DEF BoxInv, MoveInv
<1>6. x \in Present <=> \/ \E loc \in Location : x \in Range(shelf[loc])
                        \/ \E g \in Gripper : x \in Range(held[g])
  BY PresentMember
<1>7. x \in Stored(Truth) <=> \E loc \in Location : x \in Range(Truth[loc])
  BY StoredMember
<1>8. CASE x \in Present
  BY <1>2, <1>3, <1>5, <1>6, <1>7, <1>8
<1>9. CASE x \in Stored(Truth)
  BY <1>2, <1>6, <1>7, <1>9
<1>10. CASE pc = "await_move" /\ arm[Move.g] = "lowering" /\ x \in Range(store[Move.from])
  BY <1>4, <1>5, <1>6, <1>10
<1> QED
  BY <1>8, <1>9, <1>10

(* Boxes taken off the heads of some slots more. *)
LEMMA HeadsGone ==
  ASSUME NEW stock \in Inventory, NEW some \in SUBSET Location, NEW more \in SUBSET Location,
         some \subseteq more, \A loc \in more : stock[loc] # <<>>, NEW x
  PROVE  /\ x \in Stored(LessHeads(stock, more)) => x \in Stored(LessHeads(stock, some))
         /\ x \in Stored(LessHeads(stock, some)) /\ x \notin Stored(LessHeads(stock, more)) =>
              \E loc \in more : x = Head(stock[loc])
<1>1. PICK r : r = LessHeads(stock, some)
  OBVIOUS
<1>2. PICK q : q = LessHeads(stock, more)
  OBVIOUS
<1>3. \A loc \in Location :
        /\ r[loc] = IF loc \in some THEN Tail(stock[loc]) ELSE stock[loc]
        /\ q[loc] = IF loc \in more THEN Tail(stock[loc]) ELSE stock[loc]
  BY <1>1, <1>2 DEF LessHeads
<1>4. \A loc \in more : Range(stock[loc]) = {Head(stock[loc])} \cup Range(Tail(stock[loc]))
  <2>1. \A loc \in more : stock[loc] \in Seq(Sku)
    BY DEF Inventory
  <2> QED
    BY <2>1, RangeHeadTail
<1>5. \A loc \in Location :
        /\ x \in Range(q[loc]) => x \in Range(r[loc])
        /\ x \in Range(r[loc]) /\ x \notin Range(q[loc]) => loc \in more /\ x = Head(stock[loc])
  BY <1>3, <1>4
<1>6. /\ x \in Stored(r) <=> \E loc \in Location : x \in Range(r[loc])
      /\ x \in Stored(q) <=> \E loc \in Location : x \in Range(q[loc])
  BY StoredMember
<1>7. /\ x \in Stored(q) => x \in Stored(r)
      /\ x \in Stored(r) /\ x \notin Stored(q) => \E loc \in more : x = Head(stock[loc])
  BY <1>5, <1>6
<1> QED
  BY <1>1, <1>2, <1>7

LEMMA OrderlyGhosts ==
  ASSUME OneBoxEach, SlotsInReach, TypeInv, Safe, BoxInv, Orderly
  PROVE  GhostInv
<1>1. /\ TypeInv /\ PhaseInv /\ CountInv /\ FitInv
      /\ store \in [Location -> Seq(Sku)] /\ plan \in Plans
  BY DEF Safe, TypeInv, PlaceInv, StoreInv, BoxInv
<1> SUFFICES ASSUME NEW x
             PROVE  /\ x \in Present => x \in Stored(store)
                    /\ x \in Stored(store) /\ x \notin Present =>
                         b <= Len(plan.batches) /\ x \in Items(Batch)
  BY DEF GhostInv
<1>2. x \in Present <=>
        \/ x \in Stored(Truth)
        \/ pc = "await_move" /\ arm[Move.g] = "lowering" /\ x \in Range(store[Move.from])
  BY <1>1, PresentInTruth
<1>3. TruthOfPhase
  BY TruthByPhase
<1>4. CASE pc = "await_backward"
  <2>1. PICK level \in Level : level = Batch.backs[k] /\ BackEmpty(store, level)
    BY <1>1, <1>4, BackwardPossible
  <2>2. Truth = FrontToBack(store, level) \/ Truth = store
    BY <1>3, <1>4, <2>1 DEF TruthOfPhase
  <2>3. x \in Stored(FrontToBack(store, level)) <=> x \in Stored(store)
    BY <1>1, <2>1, SameBoxes
  <2>4. x \in Stored(Truth) <=> x \in Stored(store)
    BY <2>2, <2>3
  <2> QED
    BY <1>2, <1>4, <2>4
<1>5. CASE pc = "await_forward"
  <2>1. PICK level \in Level : level = Head(refills).level /\ FrontEmpty(store, level)
    BY <1>1, <1>5, ForwardPossible
  <2>2. Truth = BackToFront(store, level) \/ Truth = store
    BY <1>3, <1>5, <2>1 DEF TruthOfPhase
  <2>3. x \in Stored(BackToFront(store, level)) <=> x \in Stored(store)
    BY <1>1, <2>1, SameBoxes
  <2>4. x \in Stored(Truth) <=> x \in Stored(store)
    BY <2>2, <2>3
  <2> QED
    BY <1>2, <1>5, <2>4
<1>6. CASE pc = "await_move"
  <2>1. PICK from \in Location, to \in Location :
          from = Move.from /\ to = Move.to /\ CanMove(store, from, to)
    BY <1>1, <1>6, MoveListed, MovePossible
  <2>2. /\ x \in Stored(MoveGoods(store, from, to)) <=> x \in Stored(store)
        /\ x \in Stored([store EXCEPT ![from] = <<>>]) \/ x \in Range(store[from])
             <=> x \in Stored(store)
    BY <1>1, <2>1, SameBoxes
  <2>3. /\ arm[Move.g] = "lowering" => Truth = [store EXCEPT ![from] = <<>>]
        /\ arm[Move.g] = "idle" => Truth = MoveGoods(store, from, to)
        /\ arm[Move.g] = "lifting" => Truth = store
    BY <1>3, <1>6, <2>1 DEF TruthOfPhase
  <2>4. arm[Move.g] \in {"idle", "lifting", "lowering"}
    BY <1>1, <1>6 DEF PhaseInv
  <2>5. CASE arm[Move.g] = "lowering"
    <3>1. x \in Present <=> x \in Stored([store EXCEPT ![from] = <<>>]) \/ x \in Range(store[from])
      BY <1>2, <1>6, <2>1, <2>3, <2>5
    <3> QED
      BY <2>2, <3>1
  <2>6. CASE arm[Move.g] = "idle"
    <3>1. x \in Present <=> x \in Stored(MoveGoods(store, from, to))
      BY <1>2, <2>3, <2>6
    <3> QED
      BY <2>2, <3>1
  <2>7. CASE arm[Move.g] = "lifting"
    BY <1>2, <2>3, <2>7
  <2> QED
    BY <2>4, <2>5, <2>6, <2>7
<1>7. CASE Counted
  <2>1. Going /\ pc # "await_move" /\ b \in 1..Len(plan.batches)
    BY <1>1, <1>7 DEF Counted, Going, TypeInv, PlaceInv
  <2>2. /\ store \in Inventory /\ DOMAIN Batch.picks = 1..Len(Batch.picks)
        /\ Len(plan.batches) \in Nat /\ \A i \in DOMAIN Batch.picks : Batch.picks[i].loc \in Location
    <3>1. Batch.picks \in Seq(PickStep) /\ Len(plan.batches) \in Nat
      BY <1>1, <2>1, PlanType DEF Batch
    <3>2. \A i \in DOMAIN Batch.picks : Batch.picks[i] \in PickStep
      BY <3>1
    <3>3. DOMAIN Batch.picks = 1..Len(Batch.picks)
      BY <3>1
    <3> QED
      BY <1>1, <3>1, <3>2, <3>3 DEF Inventory, PickStep
  <2>3. PICK I : I = DroppedPicks \ Recorded
    OBVIOUS
  <2>4. \A i \in I : /\ i \in DOMAIN Batch.picks /\ store[Batch.picks[i].loc] # <<>>
                    /\ Batch.picks[i].items = <<Head(store[Batch.picks[i].loc])>>
    <3>1. Started
      BY <1>7 DEF Counted, Started
    <3>2. PicksLeft
      BY <1>1, <2>1, <3>1 DEF FitInv
    <3> QED
      BY <2>3, <3>2 DEF PicksLeft, DroppedPicks
  <2>5. PICK more \in SUBSET Location : more = Slots(Batch.picks, I)
    BY <2>2, <2>4 DEF Slots
  <2>6. PICK stock \in Inventory : stock = store
    BY <2>2
  <2>7. \A loc \in more : stock[loc] # <<>>
    BY <2>4, <2>5, <2>6 DEF Slots
  <2>8. Truth = LessHeads(stock, more) /\ LessHeads(stock, {}) = stock
    <3>1. Truth = LessHeads(stock, more)
      BY <1>3, <1>7, <2>3, <2>5, <2>6 DEF TruthOfPhase
    <3> QED
      BY <2>6, <3>1, HeadsOff
  <2>9. /\ x \in Stored(LessHeads(stock, more)) => x \in Stored(stock)
        /\ x \in Stored(stock) /\ x \notin Stored(LessHeads(stock, more)) =>
             \E loc \in more : x = Head(stock[loc])
    <3>1. PICK none \in SUBSET Location : none = {}
      OBVIOUS
    <3>2. none \subseteq more /\ LessHeads(stock, none) = stock
      BY <2>8, <3>1
    <3>3. /\ x \in Stored(LessHeads(stock, more)) => x \in Stored(LessHeads(stock, none))
          /\ x \in Stored(LessHeads(stock, none)) /\ x \notin Stored(LessHeads(stock, more)) =>
               \E loc \in more : x = Head(stock[loc])
      BY <2>7, <3>2, HeadsGone
    <3> QED
      BY <3>2, <3>3
  <2>10. x \in Present <=> x \in Stored(LessHeads(stock, more))
    BY <1>2, <2>1, <2>8
  <2>11. ASSUME NEW loc \in more, x = Head(stock[loc]) PROVE x \in Items(Batch)
    <3>1. PICK i \in I : loc = Batch.picks[i].loc
      BY <2>5 DEF Slots
    <3>2. i \in DOMAIN Batch.picks /\ Batch.picks[i].items = <<x>>
      BY <2>4, <2>6, <2>11, <3>1
    <3>3. x \in ToSet(Batch.picks[i].items)
      BY <3>2 DEF ToSet
    <3> QED
      BY <3>2, <3>3 DEF Items
  <2>12. b <= Len(plan.batches)
    BY <2>1, <2>2
  <2> QED
    BY <2>6, <2>9, <2>10, <2>11, <2>12
<1>8. CASE pc \notin {"await_backward", "await_forward", "await_move"} /\ ~Counted
  <2>1. Truth = store
    BY <1>1, <1>3, <1>8 DEF TruthOfPhase, Counted, Orderly, TypeInv, PlaceInv
  <2> QED
    BY <1>2, <1>8, <2>1
<1> QED
  BY <1>4, <1>5, <1>6, <1>7, <1>8

LEMMA OrderlyDue ==
  ASSUME OneBoxEach, WavesKeepApart, SlotsInReach, ContinuesAWave,
         TypeInv, Safe, BoxInv, Orderly
  PROVE  DueInv
<1>1. /\ TypeInv /\ HandInv /\ PhaseInv /\ DeviceInv /\ SlotInv /\ BeltInv
      /\ plan \in Plans /\ \A loc \in Location : Stands(loc, Truth[loc])
  BY DEF Safe, TypeInv, PlaceInv, BoxInv, ShelfInv
<1> SUFFICES ASSUME due > 0
             PROVE  /\ b <= Len(plan.batches) /\ belt = NoRun
                    /\ \A g \in Gripper : arm[g] \in {"idle", "picking", "holding"}
                    /\ \A g, h \in Gripper :
                         g # h /\ HasBoxes(g) /\ HasBoxes(h) => task[g].loc # task[h].loc
                    /\ \A g \in Gripper \ dropped : DropsItsBox(g)
  BY DEF DueInv
<1>2. Going
  <2>1. pc # "done"
    BY DEF BoxInv, EndInv
  <2> QED
    BY <2>1 DEF Going, Orderly
<1>3. pc \in {"trigger", "await_complete"}
  BY <1>1, <1>2 DEF TypeInv, LineInv
<1>4. b \in 1..Len(plan.batches) /\ Len(plan.batches) \in Nat
  BY <1>1, <1>2, <1>3, PlanType DEF TypeInv, PlaceInv
<1>5. b <= Len(plan.batches) /\ belt = NoRun
  BY <1>1, <1>2, <1>3, <1>4 DEF BeltInv
<1>6. \A g \in Gripper : arm[g] \in {"idle", "picking", "holding"}
  BY <1>1, <1>2, <1>3 DEF PhaseInv, DeviceInv
<1>7. \A g, h \in Gripper : g # h /\ HasBoxes(g) /\ HasBoxes(h) => task[g].loc # task[h].loc
  BY <1>1 DEF SlotInv
<1>8. DOMAIN Batch.picks = 1..Len(Batch.picks)
  BY <1>1, <1>4, PlanType DEF Batch
<1>9. ASSUME NEW g \in Gripper \ dropped, arm[g] = "picking"
      PROVE  shelf[task[g].loc] # <<>> /\ ItsBox(g, Head(shelf[task[g].loc]))
  <2>1. PICK at : at = task[g].loc
    OBVIOUS
  <2>2. at \in Location /\ Truth[at] = store[at] /\ store[at] # <<>>
    BY <1>1, <1>3, <1>9, <2>1, BoxDue
  <2>3. PICK i \in 1..Len(Batch.picks) :
          Batch.picks[i].g = g /\ Batch.picks[i].items = <<Head(store[at])>>
    BY <1>1, <1>3, <1>9, <2>1, BoxDue
  <2>4. \A h \in Gripper : ~Holds(h, at)
    <3>1. ~Holds(g, at) /\ HasBoxes(g)
      BY <1>9 DEF Holds, HasBoxes
    <3>2. \A h \in Gripper : h # g => ~Holds(h, at)
      BY <1>1, <2>1, <3>1, OwnSlotOnly
    <3> QED
      BY <3>1, <3>2
  <2>5. shelf[at] = store[at]
    BY <1>1, <2>2, <2>4 DEF Stands
  <2> QED
    BY <1>8, <2>1, <2>2, <2>3, <2>5 DEF ItsBox
<1>10. ASSUME NEW g \in Gripper \ dropped, arm[g] = "holding", task[g].left > 0, held[g] # <<>>
       PROVE  ItsBox(g, Head(held[g]))
  <2>1. PICK at : at = task[g].loc
    OBVIOUS
  <2>2. at \in Location /\ Truth[at] = store[at]
    BY <1>1, <1>3, <1>10, <2>1, BoxDue
  <2>3. PICK i \in 1..Len(Batch.picks) :
          Batch.picks[i].g = g /\ Batch.picks[i].items = <<Head(store[at])>>
    BY <1>1, <1>3, <1>10, <2>1, BoxDue
  <2>4. Holds(g, at)
    BY <1>10, <2>1 DEF Holds
  <2>5. store[at] = held[g] \o shelf[at]
    BY <1>1, <2>2, <2>4 DEF Stands
  <2>6. Head(store[at]) = Head(held[g])
    <3>1. PICK s \in Seq(Sku) : s = held[g]
      BY <1>1 DEF DeviceInv
    <3>2. PICK t \in Seq(Sku) : t = shelf[at]
      BY <1>1, <2>2 DEF DeviceInv
    <3>3. Head(s \o t) = Head(s)
      BY <1>10, <3>1, HeadOfConcat
    <3> QED
      BY <2>5, <3>1, <3>2, <3>3
  <2> QED
    BY <1>8, <2>3, <2>6 DEF ItsBox
<1>11. \A g \in Gripper \ dropped : DropsItsBox(g)
  BY <1>9, <1>10 DEF DropsItsBox
<1> QED
  BY <1>5, <1>6, <1>7, <1>11

LEMMA PresentMemberNext ==
  \A x : x \in Present' <=> \/ \E loc \in Location : x \in Range(shelf'[loc])
                            \/ \E g \in Gripper : x \in Range(held'[g])
<1>1. \A x : x \in Present <=> \/ \E loc \in Location : x \in Range(shelf[loc])
                               \/ \E g \in Gripper : x \in Range(held[g])
  BY PresentMember
<1>2. (\A x : x \in Present <=> \/ \E loc \in Location : x \in Range(shelf[loc])
                                \/ \E g \in Gripper : x \in Range(held[g]))'
  BY <1>1, PTL
<1> QED
  BY <1>2

(* Boxes that go from a slot to a gripper or back stay there. *)
LEMMA PresentMoved ==
  ASSUME DeviceInv, NEW g \in Gripper, NEW at \in Location, NEW hand, NEW rest,
         held' = [held EXCEPT ![g] = hand], shelf' = [shelf EXCEPT ![at] = rest], NEW x,
         x \in Range(rest) \/ x \in Range(hand) <=>
           x \in Range(shelf[at]) \/ x \in Range(held[g])
  PROVE  x \in Present' <=> x \in Present
<1>1. /\ held'[g] = hand /\ \A h \in Gripper : h # g => held'[h] = held[h]
      /\ shelf'[at] = rest /\ \A loc \in Location : loc # at => shelf'[loc] = shelf[loc]
  BY DEF DeviceInv
<1>2. x \in Present <=> \/ \E loc \in Location : x \in Range(shelf[loc])
                        \/ \E h \in Gripper : x \in Range(held[h])
  BY PresentMember
<1>3. x \in Present' <=> \/ \E loc \in Location : x \in Range(shelf'[loc])
                         \/ \E h \in Gripper : x \in Range(held'[h])
  BY PresentMemberNext
<1>4. CASE x \in Present
  BY <1>1, <1>2, <1>3, <1>4
<1>5. CASE x \in Present'
  BY <1>1, <1>2, <1>3, <1>5
<1> QED
  BY <1>4, <1>5

(* The machinery keeps the boxes there are, but for those it drops on the      *)
(* line, and these are of the batch.                                           *)
LEMMA PresentKept ==
  ASSUME DeviceInv, LineInv, EmptyHanded, DueInv, Machinery \/ Poll, NEW x
  PROVE  /\ x \in Present' => x \in Present
         /\ x \in Present => \/ x \in Present'
                             \/ b <= Len(plan.batches) /\ x \in Items(Batch)
<1>1. /\ shelf \in [Location -> Seq(Sku)] /\ held \in [Gripper -> Seq(Sku)]
      /\ \A h \in Gripper : arm[h] \in {"picking", "lifting"} => held[h] = <<>>
  BY DEF DeviceInv, EmptyHanded
<1>2. \A e : e \notin Range(<<>>)
  BY RangeEmpty
<1>3. CASE UNCHANGED <<shelf, held>>
  BY <1>3 DEF Present
<1>4. ASSUME NEW g \in Gripper, PickUp(g)
      PROVE  x \in Present' <=> x \in Present
  <2>1. task[g].loc \in Location
    BY <1>4, PickUpSplits
  <2>2. PICK taken, rest \in Seq(Sku) :
          /\ taken \o rest = shelf[task[g].loc]
          /\ taken = <<>> => rest = shelf[task[g].loc]
          /\ held' = [held EXCEPT ![g] = taken]
          /\ shelf' = [shelf EXCEPT ![task[g].loc] = rest]
    BY <1>4, PickUpSplits
  <2>3. held[g] = <<>>
    BY <1>1, <1>4 DEF PickUp
  <2>4. Range(taken \o rest) = Range(taken) \cup Range(rest)
    BY RangeConcat
  <2>5. x \in Range(rest) \/ x \in Range(taken) <=>
          x \in Range(shelf[task[g].loc]) \/ x \in Range(held[g])
    BY <1>2, <2>2, <2>3, <2>4
  <2>6. PICK at \in Location : at = task[g].loc
    BY <2>1
  <2>7. shelf' = [shelf EXCEPT ![at] = rest]
    BY <2>2, <2>6
  <2>8. x \in Range(rest) \/ x \in Range(taken) <=>
          x \in Range(shelf[at]) \/ x \in Range(held[g])
    BY <2>5, <2>6
  <2> QED
    BY <2>2, <2>7, <2>8, PresentMoved
<1>5. ASSUME NEW g \in Gripper, DropBox(g)
      PROVE  /\ x \in Present' => x \in Present
             /\ x \in Present => \/ x \in Present'
                                 \/ b <= Len(plan.batches) /\ x \in Items(Batch)
  <2>1. /\ arm[g] = "holding" /\ task[g].left > 0 /\ held[g] # <<>> /\ g \notin dropped
        /\ Cardinality(dropped) < due /\ shelf' = shelf
        /\ held' = [held EXCEPT ![g] = Tail(held[g])]
    BY <1>5 DEF DropBox
  <2>2. due > 0
    <3>1. Cardinality(dropped) \in Nat /\ due \in Nat
      BY GripperFinite, FS_Subset, FS_CardinalityType DEF LineInv
    <3> QED
      BY <2>1, <3>1
  <2>3. b <= Len(plan.batches) /\ ItsBox(g, Head(held[g]))
    BY <2>1, <2>2 DEF DueInv, DropsItsBox
  <2>4. Head(held[g]) \in Items(Batch)
    <3>1. PICK i \in DOMAIN Batch.picks : Batch.picks[i].items = <<Head(held[g])>>
      BY <2>3 DEF ItsBox
    <3>2. Head(held[g]) \in ToSet(Batch.picks[i].items)
      BY <3>1 DEF ToSet
    <3> QED
      BY <3>1, <3>2 DEF Items
  <2>5. Range(held[g]) = {Head(held[g])} \cup Range(Tail(held[g]))
    <3>1. held[g] \in Seq(Sku)
      BY <1>1
    <3> QED
      BY <2>1, <3>1, RangeHeadTail
  <2>6. held'[g] = Tail(held[g]) /\ \A h \in Gripper : h # g => held'[h] = held[h]
    BY <1>1, <2>1
  <2>7. x \in Present <=> \/ \E loc \in Location : x \in Range(shelf[loc])
                          \/ \E h \in Gripper : x \in Range(held[h])
    BY PresentMember
  <2>8. x \in Present' <=> \/ \E loc \in Location : x \in Range(shelf'[loc])
                           \/ \E h \in Gripper : x \in Range(held'[h])
    BY PresentMemberNext
  <2>9. x \in Present' => x \in Present
    BY <2>1, <2>5, <2>6, <2>7, <2>8
  <2>10. x \in Present => x \in Present' \/ x = Head(held[g])
    BY <2>1, <2>5, <2>6, <2>7, <2>8
  <2> QED
    BY <2>3, <2>4, <2>9, <2>10
<1>6. ASSUME NEW g \in Gripper, NEW at \in Location,
             held' = [held EXCEPT ![g] = <<>>], shelf' = [shelf EXCEPT ![at] = held[g] \o @]
      PROVE  x \in Present' <=> x \in Present
  <2>1. PICK rest : rest = held[g] \o shelf[at]
    OBVIOUS
  <2>2. Range(rest) = Range(held[g]) \cup Range(shelf[at])
    <3>1. held[g] \in Seq(Sku) /\ shelf[at] \in Seq(Sku)
      BY <1>1
    <3> QED
      BY <2>1, <3>1, RangeConcat
  <2>3. shelf' = [shelf EXCEPT ![at] = rest]
    BY <1>6, <2>1
  <2>4. x \in Range(rest) \/ x \in Range(<<>>) <=> x \in Range(shelf[at]) \/ x \in Range(held[g])
    BY <1>2, <2>2
  <2> QED
    BY <1>6, <2>3, <2>4, PresentMoved
<1>7. ASSUME NEW g \in Gripper, ReturnBoxes(g)
      PROVE  x \in Present' <=> x \in Present
  <2>1. PICK at \in Location : at = task[g].loc
    BY <1>7 DEF ReturnBoxes, DeviceInv, PickTask
  <2>2. held' = [held EXCEPT ![g] = <<>>] /\ shelf' = [shelf EXCEPT ![at] = held[g] \o @]
    BY <1>7, <2>1 DEF ReturnBoxes
  <2> QED
    BY <1>6, <2>2
<1>8. ASSUME NEW g \in Gripper, Lower(g)
      PROVE  x \in Present' <=> x \in Present
  <2>1. PICK at \in Location : at = task[g].to
    BY <1>8 DEF Lower, DeviceInv, MoveTask
  <2>2. held' = [held EXCEPT ![g] = <<>>] /\ shelf' = [shelf EXCEPT ![at] = held[g] \o @]
    BY <1>8, <2>1 DEF Lower
  <2> QED
    BY <1>6, <2>2
<1>9. ASSUME NEW g \in Gripper, Lift(g)
      PROVE  x \in Present' <=> x \in Present
  <2>1. PICK at \in Location : at = task[g].from
    BY <1>9 DEF Lift, DeviceInv, MoveTask
  <2>2. PICK hand : hand = shelf[at]
    OBVIOUS
  <2>3. held' = [held EXCEPT ![g] = hand] /\ shelf' = [shelf EXCEPT ![at] = <<>>]
    BY <1>9, <2>1, <2>2 DEF Lift
  <2>4. held[g] = <<>>
    BY <1>1, <1>9 DEF Lift
  <2>5. x \in Range(<<>>) \/ x \in Range(hand) <=> x \in Range(shelf[at]) \/ x \in Range(held[g])
    BY <1>2, <2>2, <2>4
  <2> QED
    BY <2>3, <2>5, PresentMoved
<1>10. CASE RunBelt
  <2>1. PICK level \in Level : level = belt.level
    BY DEF DeviceInv
  <2>2. \/ FrontEmpty(shelf, level) /\ shelf' = BackToFront(shelf, level)
        \/ BackEmpty(shelf, level) /\ shelf' = FrontToBack(shelf, level)
    BY <1>10, <2>1 DEF RunBelt
  <2>3. /\ FrontEmpty(shelf, level) =>
             (x \in Stored(BackToFront(shelf, level)) <=> x \in Stored(shelf))
        /\ BackEmpty(shelf, level) =>
             (x \in Stored(FrontToBack(shelf, level)) <=> x \in Stored(shelf))
    BY <1>1, SameBoxes
  <2>4. x \in Stored(shelf') <=> x \in Stored(shelf)
    BY <2>2, <2>3
  <2>5. held' = held
    BY <1>10 DEF RunBelt
  <2> QED
    BY <2>4, <2>5 DEF Present
<1>11. CASE Poll \/ CompleteBatch \/ \E g \in Gripper : GoHome(g)
  <2>1. UNCHANGED <<shelf, held>>
    BY <1>11 DEF Poll, CompleteBatch, GoHome, armVars
  <2> QED
    BY <1>3, <2>1
<1> QED
  BY <1>4, <1>5, <1>7, <1>8, <1>9, <1>10, <1>11 DEF Machinery

(* A gripper that nothing happens to drops the box it was to drop. *)
LEMMA SameNextBox ==
  ASSUME NEW h \in Gripper, DropsItsBox(h), Batch' = Batch,
         arm'[h] = arm[h], held'[h] = held[h], task'[h] = task[h],
         arm[h] = "picking" => shelf'[task[h].loc] = shelf[task[h].loc]
  PROVE  DropsItsBox(h)'
<1>1. \A box : ItsBox(h, box)' <=> ItsBox(h, box)
  BY DEF ItsBox
<1>2. arm[h] = "picking" => ItsBox(h, Head(shelf[task[h].loc]))'
  BY <1>1 DEF DropsItsBox
<1>3. arm[h] = "holding" /\ task[h].left > 0 /\ held[h] # <<>> => ItsBox(h, Head(held[h]))'
  BY <1>1 DEF DropsItsBox
<1> QED
  BY <1>2, <1>3 DEF DropsItsBox

(* Whatever the machinery does, the boxes due stay those the batch asks for. *)
LEMMA DueKept ==
  ASSUME TypeInv, EmptyHanded, DueInv, Machinery \/ Poll
  PROVE  DueInv'
<1> SUFFICES ASSUME due' > 0 PROVE DueInv'
  BY DEF DueInv
<1>1. /\ DeviceInv /\ due \in Nat /\ held \in [Gripper -> Seq(Sku)]
      /\ shelf \in [Location -> Seq(Sku)] /\ k \in Nat
  BY DEF TypeInv, DeviceInv, LineInv, PlaceInv
<1>2. due' = due /\ due > 0 /\ ~CompleteBatch
  <2>1. ~CompleteBatch
    BY DEF CompleteBatch
  <2>2. due' = due
    BY <2>1 DEF Machinery, Poll, PickUp, DropBox, GoHome, ReturnBoxes, Lift, Lower, RunBelt,
                lineVars
  <2> QED
    BY <2>1, <2>2
<1>3. /\ b <= Len(plan.batches) /\ belt = NoRun
      /\ \A g \in Gripper : arm[g] \in {"idle", "picking", "holding"}
      /\ \A g, h \in Gripper : g # h /\ HasBoxes(g) /\ HasBoxes(h) => task[g].loc # task[h].loc
      /\ \A g \in Gripper \ dropped : DropsItsBox(g)
  BY <1>2 DEF DueInv
<1>4. /\ UNCHANGED <<plan, pc, b, k, belt>> /\ Batch' = Batch
      /\ \A g, box : ItsBox(g, box)' <=> ItsBox(g, box)
  <2>1. UNCHANGED <<plan, pc, b, k>>
    BY MachineryFrame
  <2>2. belt' = belt
    BY <1>2, <1>3 DEF Machinery, Poll, PickUp, DropBox, GoHome, ReturnBoxes, Lift, Lower, RunBelt
  <2>3. Batch' = Batch
    BY <2>1 DEF Batch
  <2> QED
    BY <2>1, <2>2, <2>3 DEF ItsBox
<1>5. ~TriggerGripper
  BY <1>1, <1>4 DEF TriggerGripper, Goto
<1>6. \A g \in Gripper : HasBoxes(g)' => HasBoxes(g) /\ task'[g].loc = task[g].loc
  BY <1>1, <1>5, HasBoxesFrame DEF Next
<1>7. \A g \in Gripper : arm'[g] \in {"idle", "picking", "holding"}
  BY <1>1, <1>3, ArmsMove
<1>8. \A g, h \in Gripper : g # h /\ HasBoxes(g)' /\ HasBoxes(h)' => task'[g].loc # task'[h].loc
  BY <1>3, <1>6
<1>9. \/ UNCHANGED <<armVars, dropped>>
      \/ \E g \in Gripper : PickUp(g) \/ DropBox(g) \/ GoHome(g)
  <2>1. \A g \in Gripper : ~ReturnBoxes(g) /\ ~Lift(g) /\ ~Lower(g)
    BY <1>3 DEF ReturnBoxes, Lift, Lower
  <2>2. ~RunBelt
    BY <1>3 DEF RunBelt
  <2>3. CASE Poll
    BY <2>3 DEF Poll, lineVars
  <2> QED
    BY <1>2, <2>1, <2>2, <2>3 DEF Machinery
<1>10. ASSUME NEW h \in Gripper, h \notin dropped'
       PROVE  DropsItsBox(h)'
  <2>1. CASE UNCHANGED <<armVars, dropped>>
    <3>1. UNCHANGED <<shelf, arm, task, held, dropped>>
      BY <2>1 DEF armVars
    <3> QED
      BY <1>3, <1>4, <1>10, <3>1, SameNextBox
  <2>2. ASSUME NEW g \in Gripper, PickUp(g)
        PROVE  DropsItsBox(h)'
    <3>1. /\ arm[g] = "picking" /\ arm'[g] = "holding" /\ task' = task /\ dropped' = dropped
      BY <1>1, <2>2 DEF PickUp, DeviceInv, lineVars
    <3>2. task[g].loc \in Location
      BY <1>1, <2>2, PickUpSplits
    <3>3. PICK taken, rest \in Seq(Sku) :
            /\ taken \o rest = shelf[task[g].loc]
            /\ taken = <<>> => rest = shelf[task[g].loc]
            /\ held' = [held EXCEPT ![g] = taken]
            /\ shelf' = [shelf EXCEPT ![task[g].loc] = rest]
      BY <1>1, <2>2, PickUpSplits
    <3>4. CASE h = g
      <4>1. h \notin dropped /\ ItsBox(g, Head(shelf[task[g].loc])) /\ held'[g] = taken
        BY <1>1, <1>3, <1>10, <3>1, <3>3, <3>4 DEF DropsItsBox
      <4>2. taken # <<>> => Head(taken \o rest) = Head(taken)
        BY HeadOfConcat
      <4>3. held'[h] # <<>> => ItsBox(h, Head(held'[h]))
        BY <3>3, <3>4, <4>1, <4>2
      <4>4. held'[h] # <<>> => ItsBox(h, Head(held[h]))'
        BY <1>4, <4>3
      <4> QED
        BY <3>1, <3>4, <4>4 DEF DropsItsBox
    <3>5. CASE h # g
      <4>1. arm'[h] = arm[h] /\ held'[h] = held[h] /\ task'[h] = task[h]
        BY <1>1, <2>2, <3>5, OthersLeftAlone
      <4>2. arm[h] = "picking" => task[h].loc # task[g].loc
        BY <1>3, <3>1, <3>5 DEF HasBoxes
      <4>3. arm[h] = "picking" => shelf'[task[h].loc] = shelf[task[h].loc]
        <5> SUFFICES ASSUME arm[h] = "picking" PROVE shelf'[task[h].loc] = shelf[task[h].loc]
          OBVIOUS
        <5>1. task[h].loc \in Location
          BY <1>1 DEF DeviceInv, PickTask
        <5> QED
          BY <1>1, <3>3, <4>2, <5>1
      <4> QED
        BY <1>3, <1>4, <1>10, <3>1, <4>1, <4>3, SameNextBox
    <3> QED
      BY <3>4, <3>5
  <2>3. ASSUME NEW g \in Gripper, DropBox(g) \/ GoHome(g)
        PROVE  DropsItsBox(h)'
    <3>1. shelf' = shelf /\ dropped \subseteq dropped' /\ (DropBox(g) => g \in dropped')
      BY <2>3 DEF DropBox, GoHome, lineVars
    <3>2. CASE h # g
      <4>1. arm'[h] = arm[h] /\ held'[h] = held[h] /\ task'[h] = task[h]
        BY <1>1, <2>3, <3>2, OthersLeftAlone
      <4> QED
        BY <1>3, <1>4, <1>10, <3>1, <4>1, SameNextBox
    <3>3. CASE h = g
      <4>1. GoHome(g)
        BY <1>10, <2>3, <3>1, <3>3
      <4>2. arm'[g] = "idle"
        BY <1>1, <4>1 DEF GoHome, DeviceInv
      <4> QED
        BY <3>3, <4>2 DEF DropsItsBox
    <3> QED
      BY <3>2, <3>3
  <2> QED
    BY <1>9, <2>1, <2>2, <2>3
<1>11. /\ (b <= Len(plan.batches))' /\ (belt = NoRun)'
  BY <1>3, <1>4 DEF NoRun
<1>12. (\A g \in Gripper \ dropped : DropsItsBox(g))'
  BY <1>10
<1> QED
  BY <1>7, <1>8, <1>11, <1>12 DEF DueInv

(* Nothing is touched when a run is given up. *)
LEMMA GivenUp ==
  ASSUME Worker \/ Abandon, pc' \in {"failed", "inconsistent"}
  PROVE  UNCHANGED <<plan, store, b, told, armVars, belt, lineVars>>
  BY DEF Worker, Abandon, Stay, BackwardsDone, CommandBackward, BackwardComplete, MovesDone,
         MoveGripperIdle, CommandMove, MoveComplete, RefillsDone, FrontClear, CommandForward,
         ForwardComplete, StartBatch, AllGrippersIdle, ClearOutboundComplete, WriteBatchCount,
         TriggerGripper, BatchComplete, Announce, CommandReturn, Settled, ReturnComplete,
         UpdateStore, PlanDone, Goto

LEMMA GhostKept ==
  ASSUME TypeInv, EmptyHanded, GhostInv, DueInv, Machinery \/ Poll
  PROVE  GhostInv'
<1>1. UNCHANGED <<plan, b, store>> /\ Batch' = Batch
  BY DEF Machinery, Poll, PickUp, DropBox, GoHome, ReturnBoxes, Lift, Lower, CompleteBatch,
         RunBelt, hostVars, Batch
<1>2. DeviceInv /\ LineInv
  BY DEF TypeInv
<1>3. \A x : /\ x \in Present' => x \in Present
             /\ x \in Present => \/ x \in Present'
                                 \/ b <= Len(plan.batches) /\ x \in Items(Batch)
  BY <1>2, PresentKept
<1>4. PICK boxes : boxes = Stored(store)
  OBVIOUS
<1>5. Stored(store') = boxes
  BY <1>1, <1>4
<1>6. /\ \A x \in Present : x \in boxes
      /\ \A x \in boxes : x \notin Present => b <= Len(plan.batches) /\ x \in Items(Batch)
  BY <1>4 DEF GhostInv
<1>7. \A x \in Present' : x \in boxes
  BY <1>3, <1>6
<1>8. \A x \in boxes : x \notin Present' => b <= Len(plan.batches) /\ x \in Items(Batch)
  BY <1>3, <1>6
<1>9. (Present \subseteq Stored(store))'
  BY <1>5, <1>7
<1>10. (\A x \in Stored(store) \ Present : b <= Len(plan.batches) /\ x \in Items(Batch))'
  BY <1>1, <1>5, <1>8
<1> QED
  BY <1>9, <1>10 DEF GhostInv

LEMMA GhostsUnchanged ==
  ASSUME GhostInv, DueInv,
         UNCHANGED <<plan, store, b, shelf, arm, task, held, belt, due, dropped>>
  PROVE  GhostInv' /\ DueInv'
<1>1. Batch' = Batch /\ Present' = Present
  BY DEF Batch, Present
<1>2. GhostInv'
  BY <1>1 DEF GhostInv
<1>3. \A g \in Gripper : HasBoxes(g)' <=> HasBoxes(g)
  BY DEF HasBoxes
<1>4. (\A g \in Gripper \ dropped : due > 0 => DropsItsBox(g))'
  BY <1>1, SameNextBox DEF DueInv
<1>5. DueInv'
  BY <1>3, <1>4 DEF DueInv
<1> QED
  BY <1>2, <1>5

LEMMA GhostsHold ==
  ASSUME OneBoxEach, WavesKeepApart, SlotsInReach, ContinuesAWave
  PROVE  Spec => [](hasty \/ misfit \/ (GhostInv /\ DueInv))
<1>1. Spec => [](TypeInv /\ (hasty \/ misfit \/ (Safe /\ BoxInv)))
  BY BoxHolds
<1>2. [Next]_vars => (hasty => hasty') /\ (misfit => misfit')
  BY HistoryStays
<1>3. TypeInv /\ Safe /\ BoxInv /\ Orderly => GhostInv /\ DueInv
  BY OrderlyGhosts, OrderlyDue
<1>4. Init => Orderly
  BY DEF Init, Orderly
<1>5. TypeInv /\ Safe /\ BoxInv /\ [Next]_vars
        /\ (Orderly' => GhostInv' /\ DueInv') /\ GhostInv /\ DueInv => GhostInv' /\ DueInv'
  <2> SUFFICES ASSUME TypeInv, Safe, BoxInv,
                      Orderly' => GhostInv' /\ DueInv', GhostInv, DueInv, [Next]_vars
               PROVE  GhostInv' /\ DueInv'
    OBVIOUS
  <2>1. CASE Machinery \/ Poll
    <3>1. TypeInv /\ EmptyHanded /\ GhostInv /\ DueInv
      BY DEF Safe, BoxInv
    <3>2. GhostInv'
      BY <2>1, <3>1, GhostKept
    <3>3. DueInv'
      BY <2>1, <3>1, DueKept
    <3> QED
      BY <3>2, <3>3
  <2>2. CASE (Worker \/ Abandon) /\ pc' \in {"failed", "inconsistent"}
    <3>1. UNCHANGED <<plan, store, b, shelf, arm, task, held, belt, due, dropped>>
      BY <2>2, GivenUp DEF armVars, lineVars
    <3> QED
      BY <3>1, GhostsUnchanged
  <2>3. CASE (Worker \/ Abandon) /\ pc' \notin {"failed", "inconsistent"}
    <3>1. Orderly'
      BY <2>3 DEF Orderly
    <3> QED
      BY <3>1
  <2>4. CASE UNCHANGED vars
    <3>1. UNCHANGED <<plan, store, b, shelf, arm, task, held, belt, due, dropped>>
      BY <2>4 DEF vars, hostVars, armVars, lineVars
    <3> QED
      BY <3>1, GhostsUnchanged
  <2> QED
    BY <2>1, <2>2, <2>3, <2>4 DEF Next
<1> QED
  BY <1>1, <1>2, <1>3, <1>4, <1>5, PTL DEF Spec

(* At every moment, also after a run was given up, the inventory lists every   *)
(* box that is in the cabinets or in a gripper, and besides them only boxes of *)
(* the batch that was being dropped.                                           *)
THEOREM StoreLagsByOneBatchHolds ==
  ASSUME OneBoxEach, WavesKeepApart, SlotsInReach, ContinuesAWave
  PROVE  Spec => []StoreLagsByOneBatch
<1>1. Spec => [](hasty \/ misfit \/ (GhostInv /\ DueInv))
  BY GhostsHold
<1>2. hasty \/ misfit \/ (GhostInv /\ DueInv) => StoreLagsByOneBatch
  BY DEF GhostInv, Present, StoreLagsByOneBatch, AsPlanned
<1> QED
  BY <1>1, <1>2, PTL

-----------------------------------------------------------------------------
(* The line *)

(* The boxes of the batches before this one, and those of the batch that some  *)
(* grippers drop.                                                              *)
Before == UNION {Items(plan.batches[n]) : n \in 1..(b - 1)}

BoxesOf(grippers) ==
  UNION {ToSet(Batch.picks[i].items) :
           i \in {j \in DOMAIN Batch.picks : Batch.picks[j].g \in grippers}}

OnLine == IF Counted THEN Before \cup BoxesOf(dropped) ELSE Before

(* The vision gate has been told of the batch. *)
Announced == pc \in {"return", "settle", "await_return", "store"}

InPlanOrder ==
  /\ \A i \in 1..Len(line) : \E n \in 1..b :
       n \in 1..Len(plan.batches) /\ line[i] \in Items(plan.batches[n])
  /\ \A i, j \in 1..Len(line) : i < j =>
       /\ line[i] # line[j]
       /\ \A n, m \in 1..Len(plan.batches) :
            line[i] \in Items(plan.batches[n]) /\ line[j] \in Items(plan.batches[m]) => n <= m

LineOrder ==
  /\ InPlanOrder
  /\ due > 0 => Range(line) \cap Items(Batch) \subseteq BoxesOf(dropped)
  /\ told \subseteq Range(line)

LineSet ==
  Orderly => /\ Range(line) = OnLine
             /\ told = IF Announced THEN Before \cup Items(Batch) ELSE Before

LEMMA PlanBoxes ==
  ASSUME plan \in Plans, DroppedOnce
  PROVE  /\ \A x : x \in Before <=> \E n \in 1..(b - 1) : x \in Items(plan.batches[n])
         /\ b \in 1..Len(plan.batches) => Before \cap Items(Batch) = {}
         /\ \A n, m \in 1..Len(plan.batches) : \A x :
              x \in Items(plan.batches[n]) /\ x \in Items(plan.batches[m]) => n = m
<1>1. \A x : x \in Before <=> \E n \in 1..(b - 1) : x \in Items(plan.batches[n])
  BY DEF Before
<1>2. DOMAIN plan.batches = 1..Len(plan.batches) /\ Len(plan.batches) \in Nat
  BY PlanType
<1>3. \A n, m \in 1..Len(plan.batches) : \A x :
        x \in Items(plan.batches[n]) /\ x \in Items(plan.batches[m]) => n = m
  BY <1>2 DEF DroppedOnce
<1>4. ASSUME b \in 1..Len(plan.batches), NEW x \in Before, x \in Items(Batch)
      PROVE  FALSE
  <2>1. PICK n \in 1..(b - 1) : x \in Items(plan.batches[n])
    BY <1>1, <1>4
  <2>2. n \in 1..Len(plan.batches) /\ n # b
    BY <1>2, <1>4
  <2> QED
    BY <1>3, <1>4, <2>1, <2>2 DEF Batch
<1> QED
  BY <1>1, <1>3, <1>4

(* Each gripper drops a box of its own. *)
LEMMA BoxesOfGrippers ==
  ASSUME plan \in Plans, OneBoxEach, b \in 1..Len(plan.batches)
  PROVE  /\ BoxesOf({}) = {} /\ BoxesOf(Served(Batch)) = Items(Batch)
         /\ \A S, g, e : ItsBox(g, e) =>
              /\ e \in Items(Batch) /\ BoxesOf(S \cup {g}) = BoxesOf(S) \cup {e}
              /\ g \notin S => e \notin BoxesOf(S)
<1>1. PICK picks : picks = Batch.picks
  OBVIOUS
<1>2. \A S, x : x \in BoxesOf(S) <=>
        \E i \in DOMAIN picks : picks[i].g \in S /\ x \in ToSet(picks[i].items)
  BY <1>1 DEF BoxesOf
<1>3. \A x : x \in Items(Batch) <=> \E i \in DOMAIN picks : x \in ToSet(picks[i].items)
  BY <1>1 DEF Items
<1>4. BoxesOf({}) = {}
  BY <1>2
<1>5. BoxesOf(Served(Batch)) = Items(Batch)
  BY <1>1, <1>2, <1>3 DEF Served
<1>6. ASSUME NEW S, NEW g, NEW e, ItsBox(g, e)
      PROVE  /\ e \in Items(Batch) /\ BoxesOf(S \cup {g}) = BoxesOf(S) \cup {e}
             /\ g \notin S => e \notin BoxesOf(S)
  <2>1. PICK i \in DOMAIN picks : picks[i].g = g /\ picks[i].items = <<e>>
    BY <1>1, <1>6 DEF ItsBox
  <2>2. ToSet(picks[i].items) = {e}
    BY <2>1 DEF ToSet
  <2>3. ASSUME NEW j \in DOMAIN picks, j # i
        PROVE  picks[j].g # g /\ e \notin ToSet(picks[j].items)
    <3>1. b \in DOMAIN plan.batches /\ picks = plan.batches[b].picks
      BY <1>1, PlanType DEF Batch
    <3>2. /\ Len(picks[j].items) = 1 /\ picks[j].g # picks[i].g
          /\ picks[j].items # picks[i].items
      BY <2>3, <3>1 DEF OneBoxEach
    <3>3. picks[j].items \in Seq(Sku)
      <4>1. picks \in Seq(PickStep)
        BY <3>1, PlanType
      <4>2. picks[j] \in PickStep
        BY <2>3, <4>1
      <4> QED
        BY <4>2 DEF PickStep
    <3>4. PICK s \in Seq(Sku) : s = picks[j].items
      BY <3>3
    <3>5. s = <<s[1]>> /\ ToSet(s) = {s[1]}
      <4>1. Len(s) = 1
        BY <3>2, <3>4
      <4>2. s = <<s[1]>>
        BY <4>1
      <4> QED
        BY <4>1, <4>2 DEF ToSet
    <3> QED
      BY <2>1, <3>2, <3>4, <3>5
  <2>4. e \in Items(Batch)
    BY <1>3, <2>2
  <2>5. BoxesOf(S \cup {g}) = BoxesOf(S) \cup {e}
    <3>1. \A x : x \in BoxesOf(S \cup {g}) <=> x \in BoxesOf(S) \/ x = e
      BY <1>2, <2>1, <2>2, <2>3
    <3> QED
      BY <3>1
  <2>6. g \notin S => e \notin BoxesOf(S)
    BY <1>2, <2>1, <2>3
  <2> QED
    BY <2>4, <2>5, <2>6
<1> QED
  BY <1>4, <1>5, <1>6

(* The worker announces the batch before it asks for the leftover boxes, and   *)
(* else neither tells nor forgets anything but when it begins the next batch.  *)
LEMMA AnnounceFrame ==
  ASSUME PlaceInv, Next, b' = b, Orderly', ~WriteBatchCount
  PROVE  /\ Counted' <=> Counted
         /\ \/ Announce
            \/ told' = told /\ (Announced' <=> Announced)
<1>1. b \in Nat
  BY PlanType DEF PlaceInv
<1>2. CASE Machinery \/ Poll
  BY <1>2 DEF Machinery, Poll, PickUp, DropBox, GoHome, ReturnBoxes, Lift, Lower,
              CompleteBatch, RunBelt, hostVars, Counted, Announced
<1>3. CASE Worker
  <2>1. b + 1 # b
    BY <1>1
  <2> QED
    BY <1>3, <2>1 DEF Worker, BackwardsDone, CommandBackward, BackwardComplete, MovesDone,
       MoveGripperIdle, CommandMove, MoveComplete, RefillsDone, FrontClear, CommandForward,
       ForwardComplete, StartBatch, AllGrippersIdle, ClearOutboundComplete, TriggerGripper,
       BatchComplete, CommandReturn, Settled, ReturnComplete, UpdateStore, PlanDone, Goto,
       Orderly, Counted, Announced, Announce
<1>4. ~Abandon
  BY DEF Abandon, Orderly
<1> QED
  BY <1>2, <1>3, <1>4 DEF Next

(* A box more on the line: it is of the batch, and none was there before it.   *)
LEMMA BoxOnLine ==
  ASSUME plan \in Plans, OneBoxEach, DroppedOnce, LineInv, DueInv, LineOrder, Len(plan.batches) \in Nat,
         b \in Nat \ {0}, NEW g \in Gripper, DropBox(g)
  PROVE  /\ LineOrder'
         /\ Range(line') = Range(line) \cup (BoxesOf(dropped') \ BoxesOf(dropped))
         /\ BoxesOf(dropped) \subseteq BoxesOf(dropped')
<1>1. PICK e : e = Head(held[g])
  OBVIOUS
<1>2. /\ arm[g] = "holding" /\ task[g].left > 0 /\ held[g] # <<>> /\ g \notin dropped
      /\ Cardinality(dropped) < due /\ line' = Append(line, e) /\ dropped' = dropped \cup {g}
      /\ UNCHANGED <<plan, b, told, due>>
  BY <1>1 DEF DropBox, hostVars
<1>3. due > 0
  <2>1. Cardinality(dropped) \in Nat /\ due \in Nat
    BY GripperFinite, FS_Subset, FS_CardinalityType DEF LineInv
  <2> QED
    BY <1>2, <2>1
<1>4. b \in 1..Len(plan.batches) /\ ItsBox(g, e)
  <2>1. b <= Len(plan.batches) /\ DropsItsBox(g)
    BY <1>2, <1>3 DEF DueInv
  <2> QED
    BY <1>1, <1>2, <2>1 DEF DropsItsBox
<1>5. /\ e \in Items(Batch) /\ BoxesOf(dropped \cup {g}) = BoxesOf(dropped) \cup {e}
      /\ e \notin BoxesOf(dropped)
  BY <1>2, <1>4, BoxesOfGrippers
<1>6. e \notin Range(line)
  BY <1>3, <1>5 DEF LineOrder, InPlanOrder
<1>7. Batch' = Batch /\ BoxesOf(dropped') = BoxesOf(dropped) \cup {e}
  BY <1>2, <1>5 DEF Batch
<1>8. BoxesOf(dropped)' = BoxesOf(dropped) \cup {e}
  BY <1>2, <1>5, <1>7 DEF BoxesOf
<1>9. e \in Sku /\ line \in Seq(Sku)
  BY <1>4, <1>5, BatchType DEF LineInv
<1>10. PICK n \in Nat : n = Len(line)
  BY <1>9, LenProperties
<1>11. /\ Len(line') = n + 1 /\ line'[n + 1] = e /\ \A i \in 1..n : line'[i] = line[i]
       /\ Range(line') = Range(line) \cup {e}
  <2>1. Range(line') = Range(line) \cup {e}
    BY <1>2, <1>9, RangeAppend
  <2>2. Len(line') = n + 1 /\ line'[n + 1] = e /\ \A i \in 1..n : line'[i] = line[i]
    BY <1>2, <1>9, <1>10, AppendProperties
  <2> QED
    BY <2>1, <2>2
<1>12. Range(line) = {line[i] : i \in 1..n}
  BY <1>9, <1>10, RangeEquality
<1>13. \A i \in 1..(n + 1) : \E m \in 1..b :
         m \in 1..Len(plan.batches) /\ line'[i] \in Items(plan.batches[m])
  <2> SUFFICES ASSUME NEW i \in 1..(n + 1)
               PROVE  \E m \in 1..b : m \in 1..Len(plan.batches) /\ line'[i] \in Items(plan.batches[m])
    OBVIOUS
  <2>1. CASE i = n + 1
    BY <1>4, <1>5, <1>11, <2>1 DEF Batch
  <2>2. CASE i # n + 1
    <3>1. i \in 1..n
      BY <2>2
    <3> QED
      BY <1>10, <1>11, <3>1 DEF LineOrder, InPlanOrder
  <2> QED
    BY <2>1, <2>2
<1>14. ASSUME NEW i \in 1..(n + 1), NEW j \in 1..(n + 1), i < j
       PROVE  /\ line'[i] # line'[j]
              /\ \A l, m \in 1..Len(plan.batches) :
                   line'[i] \in Items(plan.batches[l]) /\ line'[j] \in Items(plan.batches[m]) => l <= m
  <2>1. i \in 1..n
    BY <1>14
  <2>2. CASE j = n + 1
    <3>1. line'[i] = line[i] /\ line'[j] = e
      BY <1>11, <2>1, <2>2
    <3>2. line[i] # e
      BY <1>6, <1>12, <2>1
    <3>3. ASSUME NEW l \in 1..Len(plan.batches), NEW m \in 1..Len(plan.batches),
                 line[i] \in Items(plan.batches[l]), e \in Items(plan.batches[m])
          PROVE  l <= m
      <4>1. m = b
        BY <1>4, <1>5, <3>3, PlanBoxes DEF Batch
      <4>2. PICK o \in 1..b : o \in 1..Len(plan.batches) /\ line[i] \in Items(plan.batches[o])
        BY <1>10, <2>1 DEF LineOrder, InPlanOrder
      <4>3. l = o
        BY <3>3, <4>2, PlanBoxes
      <4> QED
        BY <4>1, <4>2, <4>3
    <3> QED
      BY <3>1, <3>2, <3>3
  <2>3. CASE j # n + 1
    <3>1. j \in 1..n
      BY <2>3
    <3>2. line'[i] = line[i] /\ line'[j] = line[j]
      BY <1>11, <2>1, <3>1
    <3> QED
      BY <1>10, <1>14, <2>1, <3>1, <3>2 DEF LineOrder, InPlanOrder
  <2> QED
    BY <2>2, <2>3
<1>15. Range(line') \cap Items(Batch') \subseteq BoxesOf(dropped)'
  BY <1>3, <1>7, <1>8, <1>11 DEF LineOrder, InPlanOrder
<1>16. told' \subseteq Range(line')
  BY <1>2, <1>11 DEF LineOrder, InPlanOrder
<1>17. LineOrder'
  <2>1. (\A i \in 1..Len(line) : \E m \in 1..b :
           m \in 1..Len(plan.batches) /\ line[i] \in Items(plan.batches[m]))'
    BY <1>2, <1>11, <1>13
  <2>2. (\A i, j \in 1..Len(line) : i < j =>
           /\ line[i] # line[j]
           /\ \A l, m \in 1..Len(plan.batches) :
                line[i] \in Items(plan.batches[l]) /\ line[j] \in Items(plan.batches[m]) => l <= m)'
    BY <1>2, <1>11, <1>14
  <2>3. (due > 0 => Range(line) \cap Items(Batch) \subseteq BoxesOf(dropped))'
    BY <1>15
  <2>4. (told \subseteq Range(line))'
    BY <1>16
  <2> QED
    BY <2>1, <2>2, <2>3, <2>4 DEF LineOrder, InPlanOrder
<1> QED
  BY <1>5, <1>7, <1>11, <1>17

LEMMA SameOrder ==
  ASSUME InPlanOrder, plan' = plan, line' = line, \A n \in 1..b : n \in 1..b'
  PROVE  InPlanOrder'
<1>1. (\A i \in 1..Len(line) : \E n \in 1..b :
         n \in 1..Len(plan.batches) /\ line[i] \in Items(plan.batches[n]))'
  BY DEF InPlanOrder
<1>2. (\A i, j \in 1..Len(line) : i < j =>
         /\ line[i] # line[j]
         /\ \A n, m \in 1..Len(plan.batches) :
              line[i] \in Items(plan.batches[n]) /\ line[j] \in Items(plan.batches[m])
                => n <= m)'
  BY DEF InPlanOrder
<1> QED
  BY <1>1, <1>2 DEF InPlanOrder

LEMMA LineOrderStep ==
  ASSUME OneBoxEach, WavesKeepApart, DroppedOnce, TypeInv, CountInv, DueInv, LineOrder, LineSet, Next
  PROVE  LineOrder'
<1>1. /\ plan \in Plans /\ plan' = plan /\ Len(plan.batches) \in Nat /\ b \in Nat \ {0} /\ LineInv
      /\ b \in 1..(Len(plan.batches) + 1)
  BY PlanType, BatchOrder DEF TypeInv, PlaceInv
<1>2. CASE \E g \in Gripper : DropBox(g)
  <2>1. PICK g \in Gripper : DropBox(g)
    BY <1>2
  <2>2. LineInv /\ Len(plan.batches) \in Nat /\ b \in Nat \ {0}
    BY <1>1
  <2> QED
    BY <1>1, <2>1, <2>2, BoxOnLine
<1>3. CASE CompleteBatch
  <2>1. UNCHANGED <<b, told, line>> /\ due' = 0
    BY <1>3 DEF CompleteBatch, hostVars
  <2>2. InPlanOrder'
    BY <1>1, <2>1, SameOrder DEF LineOrder
  <2> QED
    BY <1>1, <2>1, <2>2 DEF LineOrder
<1>4. CASE ClearOutboundComplete
  <2>1. UNCHANGED <<b, told, line, due, dropped>>
    BY <1>4 DEF ClearOutboundComplete
  <2>2. BoxesOf(dropped)' = BoxesOf(dropped) /\ Batch' = Batch
    BY <1>1, <2>1 DEF BoxesOf, Batch
  <2>3. InPlanOrder'
    BY <1>1, <2>1, SameOrder DEF LineOrder
  <2>4. (due > 0 => Range(line) \cap Items(Batch) \subseteq BoxesOf(dropped))'
    BY <2>1, <2>2 DEF LineOrder
  <2> QED
    BY <2>1, <2>3, <2>4 DEF LineOrder
<1>5. CASE WriteBatchCount
  <2>1. UNCHANGED <<b, told, line>> /\ pc = "count"
    BY <1>5 DEF WriteBatchCount
  <2>2. Range(line) = Before /\ b \in 1..Len(plan.batches)
    BY <1>1, <2>1 DEF LineSet, Orderly, OnLine, Counted, TypeInv, PlaceInv, Going
  <2>3. Range(line) \cap Items(Batch) = {} /\ Batch' = Batch
    BY <1>1, <2>1, <2>2, PlanBoxes DEF Batch
  <2>4. Range(line') \cap Items(Batch') = {}
    BY <2>1, <2>3
  <2>5. (due > 0 => Range(line) \cap Items(Batch) \subseteq BoxesOf(dropped))'
    BY <2>4
  <2>6. InPlanOrder'
    BY <1>1, <2>1, SameOrder DEF LineOrder
  <2> QED
    BY <2>1, <2>5, <2>6 DEF LineOrder
<1>6. CASE UNCHANGED lineVars /\ ~Announce
  <2>1. UNCHANGED <<line, due, dropped>>
    BY <1>6 DEF lineVars
  <2>2. told' = told
    BY <1>6 DEF Next, Worker, Machinery, Abandon, Poll, BackwardsDone, CommandBackward,
       BackwardComplete, MovesDone, MoveGripperIdle, CommandMove, MoveComplete, RefillsDone,
       FrontClear, CommandForward, ForwardComplete, StartBatch, AllGrippersIdle,
       ClearOutboundComplete, WriteBatchCount, TriggerGripper, BatchComplete, CommandReturn,
       Settled, ReturnComplete, UpdateStore, PlanDone, PickUp, DropBox, GoHome, ReturnBoxes,
       Lift, Lower, CompleteBatch, RunBelt, hostVars
  <2>3. b' \in Nat /\ b <= b' /\ (b' # b => due = 0)
    <3>1. CASE b' # b
      <4>1. pc \in {"batch", "store"} /\ b' = b + 1
        BY <3>1, BatchOrder
      <4>2. due = 0
        BY <1>1, <4>1 DEF LineInv, Going
      <4> QED
        BY <1>1, <4>1, <4>2
    <3>2. CASE b' = b
      BY <1>1, <3>2
    <3> QED
      BY <3>1, <3>2
  <2>4. due > 0 => BoxesOf(dropped)' = BoxesOf(dropped) /\ Batch' = Batch
    BY <1>1, <2>1, <2>3 DEF BoxesOf, Batch
  <2>5. \A n \in 1..b : n \in 1..b'
    BY <1>1, <2>3
  <2>6. (due > 0 => Range(line) \cap Items(Batch) \subseteq BoxesOf(dropped))'
    BY <2>1, <2>4 DEF LineOrder
  <2>7. InPlanOrder'
    BY <1>1, <2>1, <2>5, SameOrder DEF LineOrder
  <2> QED
    BY <2>1, <2>2, <2>6, <2>7 DEF LineOrder
<1>7. CASE Announce
  <2>1. /\ UNCHANGED <<b, line, due, dropped>> /\ pc = "announce"
        /\ told' = told \cup Items(Batch)
    BY <1>7 DEF Announce, Stay, lineVars
  <2>2. b \in 1..Len(plan.batches) /\ dropped = Served(Batch) /\ Range(line) = OnLine /\ Counted
    BY <1>1, <2>1 DEF TypeInv, PlaceInv, CountInv, Going, LineSet, Orderly, Counted
  <2>3. BoxesOf(dropped) = Items(Batch)
    BY <1>1, <2>2, BoxesOfGrippers
  <2>4. told' \subseteq Range(line)
    BY <2>1, <2>2, <2>3 DEF OnLine, LineOrder
  <2>5. BoxesOf(dropped)' = BoxesOf(dropped) /\ Batch' = Batch
    BY <1>1, <2>1 DEF BoxesOf, Batch
  <2>6. InPlanOrder'
    BY <1>1, <2>1, SameOrder DEF LineOrder
  <2>7. (due > 0 => Range(line) \cap Items(Batch) \subseteq BoxesOf(dropped))'
    BY <2>1, <2>5 DEF LineOrder
  <2> QED
    BY <2>1, <2>4, <2>6, <2>7 DEF LineOrder
<1> QED
  BY <1>2, <1>3, <1>4, <1>5, <1>6, <1>7, LineFrame

LEMMA LineSetStep ==
  ASSUME OneBoxEach, WavesKeepApart, DroppedOnce, TypeInv, HandInv, CountInv, EndInv, DueInv,
         LineOrder, LineSet, Next
  PROVE  LineSet'
<1> SUFFICES ASSUME Orderly'
             PROVE  /\ Range(line') = OnLine'
                    /\ told' = IF Announced' THEN Before' \cup Items(Batch') ELSE Before'
  BY DEF LineSet
<1>1. /\ plan \in Plans /\ plan' = plan /\ Len(plan.batches) \in Nat /\ LineInv /\ PlaceInv
      /\ b \in Nat \ {0}
  BY PlanType, BatchOrder DEF TypeInv, PlaceInv
<1>2. /\ Orderly /\ Range(line) = OnLine
      /\ told = IF Announced THEN Before \cup Items(Batch) ELSE Before
  BY OrderlyBefore DEF LineSet
<1>3. CASE b' # b
  <2>1. pc \in {"batch", "store"} /\ pc' = "backward" /\ b' = b + 1
    BY <1>3, BatchOrder
  <2>2. Going /\ ~Counted' /\ ~Announced' /\ b \in 1..Len(plan.batches)
    BY <1>1, <2>1 DEF Going, Counted, Announced, PlaceInv
  <2>3. StartBatch \/ UpdateStore
    BY <1>3 DEF Next, Worker, Machinery, Abandon, Poll, BackwardsDone, CommandBackward,
       BackwardComplete, MovesDone, MoveGripperIdle, CommandMove, MoveComplete, RefillsDone,
       FrontClear, CommandForward, ForwardComplete, AllGrippersIdle, Announce,
       ClearOutboundComplete, WriteBatchCount, TriggerGripper, BatchComplete, CommandReturn,
       Settled, ReturnComplete, PlanDone, PickUp, DropBox, GoHome, ReturnBoxes,
       Lift, Lower, CompleteBatch, RunBelt, hostVars
  <2>4. told' = told /\ line' = line
    BY <2>3 DEF StartBatch, UpdateStore, Stay, lineVars
  <2>5. Before' = Before \cup Items(Batch)
    <3>1. Before' = UNION {Items(plan.batches[n]) : n \in 1..b}
      BY <1>1, <2>1 DEF Before
    <3>2. 1..b = (1..(b - 1)) \cup {b}
      BY <1>1
    <3> QED
      BY <3>1, <3>2 DEF Before, Batch
  <2>6. CASE pc = "store"
    <3>1. dropped = Served(Batch) /\ Counted /\ Announced
      BY <2>2, <2>6 DEF CountInv, Counted, Announced
    <3>2. BoxesOf(dropped) = Items(Batch)
      BY <1>1, <2>2, <3>1, BoxesOfGrippers
    <3> QED
      BY <1>2, <2>2, <2>4, <2>5, <3>1, <3>2 DEF OnLine
  <2>7. CASE pc = "batch"
    <3>1. OutboundCount(Batch) = 0
      <4>1. StartBatch
        BY <2>3, <2>7 DEF UpdateStore
      <4> QED
        BY <1>3, <4>1 DEF StartBatch
    <3>2. Items(Batch) = {}
      <4>1. Batch.picks = <<>>
        BY <1>1, <2>2, <3>1, CountType DEF Batch
      <4>2. DOMAIN Batch.picks = {}
        BY <4>1
      <4> QED
        BY <4>2 DEF Items
    <3>3. ~Counted /\ ~Announced
      BY <2>7 DEF Counted, Announced
    <3> QED
      BY <1>2, <2>2, <2>4, <2>5, <3>2, <3>3 DEF OnLine
  <2> QED
    BY <2>1, <2>6, <2>7
<1>4. CASE b' = b
  <2>1. Batch' = Batch /\ Before' = Before
    BY <1>1, <1>4 DEF Batch, Before
  <2>2. CASE WriteBatchCount
    <3>1. /\ pc = "count" /\ pc' \in {"trigger", "await_complete"} /\ dropped' = {}
          /\ told' = told /\ line' = line
      BY <2>2 DEF WriteBatchCount, Goto
    <3>2. b \in 1..Len(plan.batches) /\ ~Counted /\ Counted' /\ ~Announced /\ ~Announced'
      BY <1>1, <3>1 DEF PlaceInv, Going, Counted, Announced
    <3>3. BoxesOf(dropped)' = {}
      <4>1. BoxesOf({}) = {}
        BY <1>1, <3>2, BoxesOfGrippers
      <4> QED
        BY <2>1, <3>1, <4>1 DEF BoxesOf
    <3>4. OnLine' = Before
      BY <2>1, <3>2, <3>3 DEF OnLine
    <3> QED
      BY <1>2, <2>1, <3>1, <3>2, <3>4 DEF OnLine
  <2>3. CASE Announce
    <3>1. /\ UNCHANGED <<line, dropped>> /\ pc = "announce" /\ pc' \in {"return", "store"}
          /\ told' = told \cup Items(Batch)
      BY <2>3 DEF Announce, Stay, lineVars
    <3>2. Counted /\ Counted' /\ ~Announced /\ Announced'
      BY <3>1 DEF Counted, Announced
    <3>3. BoxesOf(dropped)' = BoxesOf(dropped)
      BY <2>1, <3>1 DEF BoxesOf
    <3>4. OnLine' = OnLine
      BY <2>1, <3>2, <3>3 DEF OnLine
    <3> QED
      BY <1>2, <2>1, <3>1, <3>2, <3>4
  <2>4. CASE ~WriteBatchCount /\ ~Announce
    <3>1. (Counted' <=> Counted) /\ told' = told /\ (Announced' <=> Announced)
      BY <1>1, <1>4, <2>4, AnnounceFrame
    <3>2. CASE UNCHANGED <<line, dropped>>
      <4>1. BoxesOf(dropped)' = BoxesOf(dropped)
        BY <2>1, <3>2 DEF BoxesOf
      <4>2. OnLine' = OnLine
        BY <2>1, <3>1, <4>1 DEF OnLine
      <4> QED
        BY <1>2, <2>1, <3>1, <3>2, <4>2
    <3>3. CASE \E g \in Gripper : DropBox(g)
      <4>1. PICK g \in Gripper : DropBox(g)
        BY <3>3
      <4>2. Going
        <5>1. Cardinality(dropped) \in Nat /\ due \in Nat /\ Cardinality(dropped) < due
          BY <1>1, <4>1, GripperFinite, FS_Subset, FS_CardinalityType DEF LineInv, DropBox
        <5>2. due # 0
          BY <5>1
        <5> QED
          BY <1>2, <5>2 DEF EndInv, Going, Orderly
      <4>3. Counted
        BY <4>1, <4>2, DropServes DEF Counted
      <4>4. /\ Range(line') = Range(line) \cup (BoxesOf(dropped') \ BoxesOf(dropped))
            /\ BoxesOf(dropped) \subseteq BoxesOf(dropped')
        BY <1>1, <4>1, BoxOnLine
      <4>5. BoxesOf(dropped)' = BoxesOf(dropped')
        BY <2>1 DEF BoxesOf
      <4>6. OnLine' = Before \cup BoxesOf(dropped') /\ OnLine = Before \cup BoxesOf(dropped)
        BY <2>1, <3>1, <4>3, <4>5 DEF OnLine
      <4>7. Range(line') = OnLine'
        BY <1>2, <4>4, <4>6
      <4> QED
        BY <1>2, <2>1, <3>1, <4>7
    <3>4. CASE ClearOutboundComplete \/ CompleteBatch
      BY <3>2, <3>4 DEF ClearOutboundComplete, CompleteBatch
    <3>5. CASE UNCHANGED lineVars
      BY <3>2, <3>5 DEF lineVars
    <3> QED
      BY <2>4, <3>3, <3>4, <3>5, LineFrame
  <2> QED
    BY <2>2, <2>3, <2>4
<1> QED
  BY <1>3, <1>4

(* The line receives the boxes of the plan batch by batch, none twice and none *)
(* that was not planned; the vision gate is told of boxes only once they are   *)
(* on the line, and of all of them before the next batch begins.               *)
THEOREM LineFollowsPlanHolds ==
  ASSUME OneBoxEach, WavesKeepApart, SlotsInReach, ContinuesAWave,
         DroppedOnce
  PROVE  Spec => []LineFollowsPlan
<1>1. Spec => [](TypeInv /\ (hasty \/ misfit \/ (Safe /\ BoxInv)))
  BY BoxHolds
<1>2. Spec => [](hasty \/ misfit \/ (GhostInv /\ DueInv))
  BY GhostsHold
<1>3. Init => LineOrder /\ LineSet
  <2> SUFFICES ASSUME Init PROVE LineOrder /\ LineSet
    OBVIOUS
  <2>1. line = <<>> /\ told = {} /\ due = 0 /\ pc = "backward" /\ b = 1
    BY DEF Init
  <2>2. Len(line) = 0 /\ Range(line) = {} /\ Before = {} /\ ~Counted /\ ~Announced
    BY <2>1, RangeEmpty DEF Before, Counted, Announced
  <2> QED
    BY <2>1, <2>2 DEF LineOrder, InPlanOrder, LineSet, OnLine
<1>4. TypeInv /\ Safe /\ BoxInv /\ GhostInv /\ DueInv /\ LineOrder /\ LineSet /\ [Next]_vars
        => LineOrder' /\ LineSet'
  <2> SUFFICES ASSUME TypeInv, Safe, BoxInv, DueInv, LineOrder, LineSet, [Next]_vars
               PROVE  LineOrder' /\ LineSet'
    OBVIOUS
  <2>1. TypeInv /\ HandInv /\ CountInv /\ EndInv
    BY DEF Safe, BoxInv
  <2>2. CASE Next
    <3>1. LineOrder'
      BY <2>1, <2>2, LineOrderStep
    <3>2. LineSet'
      BY <2>1, <2>2, LineSetStep
    <3> QED
      BY <3>1, <3>2
  <2>3. CASE UNCHANGED vars
    <3>1. UNCHANGED <<plan, pc, b, told, line, due, dropped>>
      BY <2>3 DEF vars, hostVars, lineVars
    <3>2. /\ Batch' = Batch /\ Before' = Before /\ (Counted' <=> Counted)
          /\ (Announced' <=> Announced) /\ (Orderly' <=> Orderly)
      BY <3>1 DEF Batch, Before, Counted, Announced, Orderly
    <3>3. BoxesOf(dropped)' = BoxesOf(dropped)
      BY <3>1, <3>2 DEF BoxesOf
    <3>4. OnLine' = OnLine
      BY <3>2, <3>3 DEF OnLine
    <3>5. LineOrder'
      <4>1. (due > 0 => Range(line) \cap Items(Batch) \subseteq BoxesOf(dropped))'
        BY <3>1, <3>2, <3>3 DEF LineOrder
      <4>2. InPlanOrder'
        BY <3>1, SameOrder DEF LineOrder
      <4> QED
        BY <3>1, <4>1, <4>2 DEF LineOrder
    <3>6. LineSet'
      BY <3>1, <3>2, <3>4 DEF LineSet
    <3> QED
      BY <3>5, <3>6
  <2> QED
    BY <2>2, <2>3
<1>5. [Next]_vars => (hasty => hasty') /\ (misfit => misfit')
  BY HistoryStays
<1>6. TypeInv /\ (hasty \/ misfit \/ (LineOrder /\ LineSet)) => LineFollowsPlan
  <2> SUFFICES ASSUME TypeInv, LineOrder, LineSet PROVE LineFollowsPlan
    BY DEF LineFollowsPlan, AsPlanned
  <2>1. plan \in Plans /\ line \in Seq(Sku)
    BY DEF TypeInv, PlaceInv, LineInv
  <2>2. /\ DOMAIN plan.batches = 1..Len(plan.batches) /\ DOMAIN line = 1..Len(line)
        /\ ToSet(line) = Range(line)
    BY <2>1, PlanType, SetOfRange
  <2> DEFINE BatchOf(x) == CHOOSE i \in DOMAIN plan.batches : x \in Items(plan.batches[i])
  <2>3. \A i \in DOMAIN line : \E j \in 1..b :
          j \in DOMAIN plan.batches /\ line[i] \in Items(plan.batches[j])
    BY <2>2 DEF LineOrder, InPlanOrder
  <2>4. \A i \in DOMAIN line :
          BatchOf(line[i]) \in DOMAIN plan.batches /\ line[i] \in Items(plan.batches[BatchOf(line[i])])
    BY <2>3
  <2> HIDE DEF BatchOf
  <2>5. \A i, j \in DOMAIN line :
          i < j => line[i] # line[j] /\ BatchOf(line[i]) <= BatchOf(line[j])
    BY <2>2, <2>4 DEF LineOrder, InPlanOrder
  <2>6. told \subseteq ToSet(line)
    BY <2>2 DEF LineOrder
  <2>7. pc \in {"backward", "done"} =>
          /\ told = UNION {Items(plan.batches[i]) : i \in 1..(b - 1)}
          /\ told = ToSet(line)
    <3> SUFFICES ASSUME pc \in {"backward", "done"}
                 PROVE  told = Before /\ told = Range(line)
      BY <2>2 DEF Before
    <3>1. Orderly /\ ~Counted /\ ~Announced
      BY DEF Orderly, Counted, Announced
    <3> QED
      BY <3>1 DEF LineSet, OnLine
  <2> QED
    BY <2>3, <2>5, <2>6, <2>7 DEF LineFollowsPlan, BatchOf
<1> QED
  BY <1>1, <1>2, <1>3, <1>4, <1>5, <1>6, PTL DEF Spec

=============================================================================
