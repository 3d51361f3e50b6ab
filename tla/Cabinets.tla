------------------------------ MODULE Cabinets ------------------------------
(* The cabinets of the three stations and the inventory the host keeps of them *)
(* (CabinetStore, src/src/models/containers.py).  Each layer of a station has  *)
(* two front slots, 1 and 2, which the grippers reach, and behind them two     *)
(* back slots, 3 and 4, which a conveyor brings to the front.                  *)
EXTENDS Stations, SequencesExt

CONSTANT Sku    \* boxes

Layer    == 1..4
Position == 1..4
Location == Station \X Layer \X Position
Level    == Station \X Layer

SLOT_CAPACITY == 4

Slot(level, position) == <<level[1], level[2], position>>
LevelOf(loc) == <<loc[1], loc[2]>>
IsFront(loc) == loc[3] \in {1, 2}

FrontSlots(level) == {Slot(level, 1), Slot(level, 2)}
BackSlots(level)  == {Slot(level, 3), Slot(level, 4)}

BackOf(loc)  == <<loc[1], loc[2], loc[3] + 2>>
FrontOf(loc) == <<loc[1], loc[2], loc[3] - 2>>

EmptyStore == [loc \in Location |-> <<>>]
FrontEmpty(store, level) == \A loc \in FrontSlots(level) : store[loc] = <<>>
BackEmpty(store, level)  == \A loc \in BackSlots(level) : store[loc] = <<>>

Stored(store) == UNION {ToSet(store[loc]) : loc \in Location}

(* put_goods_to_slot: the slot must have room for all of them. *)
CanPut(store, loc, goods) == Len(store[loc]) + Len(goods) <= SLOT_CAPACITY
PutGoods(store, loc, goods) == [store EXCEPT ![loc] = @ \o goods]

(* remove_goods_batch: each box in turn, its first occurrence. *)
Without(slot, goods) ==
  LET rest[i \in 0..Len(goods)] ==
        IF i = 0 THEN slot ELSE RemoveFirst(rest[i - 1], goods[i])
  IN  rest[Len(goods)]
RemoveGoods(store, loc, goods) == [store EXCEPT ![loc] = Without(@, goods)]
RemovedAll(store, loc, goods) ==
  Len(Without(store[loc], goods)) = Len(store[loc]) - Len(goods)

(* move_back_goods_to_front, for a level whose front is empty. *)
BackToFront(store, level) ==
  [loc \in Location |->
     IF loc \in FrontSlots(level) THEN store[BackOf(loc)]
     ELSE IF loc \in BackSlots(level) THEN <<>> ELSE store[loc]]

(* move_front_goods_to_back, for a level whose back is empty. *)
FrontToBack(store, level) ==
  [loc \in Location |->
     IF loc \in BackSlots(level) THEN store[FrontOf(loc)]
     ELSE IF loc \in FrontSlots(level) THEN <<>> ELSE store[loc]]

(* move_goods_between_slots, from a slot with boxes to an empty one. *)
CanMove(store, from, to) == store[from] # <<>> /\ store[to] = <<>>
MoveGoods(store, from, to) == [store EXCEPT ![to] = store[from], ![from] = <<>>]
=============================================================================
