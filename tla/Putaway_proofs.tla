--------------------------- MODULE Putaway_proofs ---------------------------
(* Proofs of the safety properties of Putaway, for every set of requests.      *)
EXTENDS Putaway, SequenceFacts

-----------------------------------------------------------------------------
(* The request *)

Entry == [loc : Location, sku : Seq(Sku)]

LEMMA RequestType ==
  ASSUME task \in Cases
  PROVE  /\ task.station \in Station
         /\ task.stock \in [Location -> Seq(Sku)]
         /\ \A loc \in Location : Len(task.stock[loc]) <= SLOT_CAPACITY
         /\ task.put_goods \in Seq(Entry)
         /\ \A i \in DOMAIN task.put_goods : task.put_goods[i].loc[1] = task.station
  BY CaseAssumption DEF Entry

(* The entries with boxes, and the layers they name. *)
LEMMA GoodsType ==
  ASSUME task \in Cases
  PROVE  /\ \A e \in Goods : /\ e \in Entry /\ e.sku # <<>> /\ e.sku \in Seq(Sku)
                             /\ e.loc \in Location /\ e.loc[1] = task.station
                             /\ e.loc[2] \in Layer
         /\ \A e \in Goods : e.loc[2] \in GoodsLayers
         /\ \A e \in Goods : e.loc[2] \notin Fronted => ~IsFront(e.loc)
         /\ \A e \in Goods : e.loc[2] \notin Backed => IsFront(e.loc)
         /\ \A l \in Fronted : \E e \in Goods : e.loc[2] = l /\ IsFront(e.loc)
         /\ \A l \in Backed : \E e \in Goods : e.loc[2] = l /\ ~IsFront(e.loc)
         /\ Fronted \subseteq Layer /\ Backed \subseteq Layer /\ GoodsLayers \subseteq Layer
<1>1. \A i \in DOMAIN task.put_goods :
        task.put_goods[i] \in Entry /\ task.put_goods[i].loc[1] = task.station
  BY RequestType
<1>2. \A e \in Goods : e \in Entry /\ e.sku # <<>> /\ e.loc[1] = task.station
  BY <1>1 DEF Goods, ToSet, HasBoxes
<1>3. \A e \in Entry : e.sku \in Seq(Sku) /\ e.loc \in Location /\ e.loc[2] \in Layer
  BY DEF Entry, Location
<1>4. /\ \A e \in Goods : IsFront(e.loc) => e.loc[2] \in Fronted
      /\ \A e \in Goods : ~IsFront(e.loc) => e.loc[2] \in Backed
      /\ \A l \in Fronted : \E e \in Goods : e.loc[2] = l /\ IsFront(e.loc)
      /\ \A l \in Backed : \E e \in Goods : e.loc[2] = l /\ ~IsFront(e.loc)
  BY DEF Fronted, Backed
<1> QED
  BY <1>2, <1>3, <1>4 DEF GoodsLayers

(* Passing over the entries without boxes leaves those with boxes. *)
LEMMA EntriesType ==
  ASSUME task \in Cases
  PROVE  Entries \in Seq(Entry) /\ Range(Entries) = Goods
<1> DEFINE rows == [i \in DOMAIN task.put_goods |->
                      IF HasBoxes(task.put_goods[i]) THEN <<task.put_goods[i]>> ELSE <<>>]
<1>1. task.put_goods \in Seq(Entry) /\ DOMAIN task.put_goods = 1..Len(task.put_goods)
      /\ Len(task.put_goods) \in Nat
  BY RequestType
<1>2. \A e \in Entry : <<e>> \in Seq(Entry) /\ Range(<<e>>) = {e}
  BY DEF Range
<1>3. <<>> \in Seq(Entry) /\ Range(<<>>) = {}
  BY RangeEmpty
<1>4. \A i \in 1..Len(task.put_goods) : task.put_goods[i] \in Entry
  BY <1>1
<1>5. rows \in Seq(Seq(Entry)) /\ Len(rows) = Len(task.put_goods)
  <2>1. \A i \in 1..Len(task.put_goods) : rows[i] \in Seq(Entry)
    BY <1>1, <1>2, <1>3, <1>4
  <2>2. rows = [i \in 1..Len(task.put_goods) |-> rows[i]]
    BY <1>1
  <2> HIDE DEF rows
  <2>3. rows \in [1..Len(task.put_goods) -> Seq(Entry)]
    BY <2>1, <2>2
  <2> QED
    BY <1>1, <2>3, SeqDef
<1>6. \A i \in 1..Len(task.put_goods) :
        Range(rows[i]) = IF HasBoxes(task.put_goods[i]) THEN {task.put_goods[i]} ELSE {}
  BY <1>1, <1>2, <1>3, <1>4
<1>7. Entries = FlattenSeq(rows)
  BY DEF Entries
<1> HIDE DEF rows
<1>8. /\ \A i \in 1..Len(rows) : Range(rows[i]) \subseteq Range(Entries)
      /\ \A e \in Range(Entries) : \E i \in 1..Len(rows) : e \in Range(rows[i])
      /\ Entries \in Seq(Entry)
  BY <1>5, <1>7, FlattenRange, FlattenType
<1>9. \A e : e \in Goods <=> \E i \in 1..Len(rows) : e = task.put_goods[i] /\ HasBoxes(e)
  BY <1>1, <1>5 DEF Goods, ToSet
<1>10. ASSUME NEW e \in Range(Entries)
       PROVE  e \in Goods
  <2>1. PICK i \in 1..Len(rows) : e \in Range(rows[i])
    BY <1>8
  <2>2. HasBoxes(task.put_goods[i]) /\ e = task.put_goods[i]
    BY <1>5, <1>6, <2>1
  <2> QED
    BY <1>9, <2>2
<1>11. ASSUME NEW e \in Goods
       PROVE  e \in Range(Entries)
  <2>1. PICK i \in 1..Len(rows) : e = task.put_goods[i] /\ HasBoxes(e)
    BY <1>9
  <2>2. e \in Range(rows[i])
    BY <1>5, <1>6, <2>1
  <2> QED
    BY <1>8, <2>2
<1> QED
  BY <1>8, <1>10, <1>11

(* Every entry is placed, in its own slot or, on a layer with nothing for the   *)
(* front, in the slot before it.                                                *)
LEMMA PlacementsType ==
  ASSUME task \in Cases
  PROVE  /\ Placements \in Seq(Entry) /\ Len(Placements) = Len(Entries)
         /\ Len(Entries) \in Nat /\ DOMAIN Entries = 1..Len(Entries)
         /\ \A i \in 1..Len(Entries) :
              /\ Entries[i] \in Goods
              /\ Placements[i] = [loc |-> ActualLocation(Entries[i].loc), sku |-> Entries[i].sku]
         /\ \A i \in 1..Len(Entries) :
              /\ Placements[i].loc = ActualLocation(Entries[i].loc)
              /\ Placements[i].sku = Entries[i].sku
              /\ Placements[i].loc \in Location
              /\ Placements[i].loc[1] = task.station
              /\ Placements[i].loc[2] = Entries[i].loc[2]
<1>1. Entries \in Seq(Entry) /\ Len(Entries) \in Nat /\ DOMAIN Entries = 1..Len(Entries)
  BY EntriesType
<1>2. \A i \in 1..Len(Entries) : Entries[i] \in Goods
  BY <1>1, EntriesType DEF Range
<1>3. Placements = [i \in 1..Len(Entries) |->
                      [loc |-> ActualLocation(Entries[i].loc), sku |-> Entries[i].sku]]
  BY <1>1 DEF Placements
<1>4. ASSUME NEW e \in Goods
      PROVE  /\ ActualLocation(e.loc) \in Location /\ ActualLocation(e.loc)[1] = task.station
             /\ ActualLocation(e.loc)[2] = e.loc[2]
  <2>1. /\ e.loc \in Location /\ e.loc[1] = task.station
        /\ e.loc[2] \notin Fronted => ~IsFront(e.loc)
    BY GoodsType
  <2>2. CASE e.loc[2] \in Fronted
    BY <2>1, <2>2 DEF ActualLocation
  <2>3. CASE e.loc[2] \notin Fronted
    BY <2>1, <2>3 DEF ActualLocation, FrontOf, IsFront, Location, Position
  <2> QED
    BY <2>2, <2>3
<1>5. \A i \in 1..Len(Entries) : Placements[i] \in Entry
  BY <1>2, <1>3, <1>4, GoodsType DEF Entry
<1>6. Placements \in [1..Len(Entries) -> Entry]
  BY <1>3, <1>5
<1>7. Placements \in Seq(Entry) /\ Len(Placements) = Len(Entries)
  BY <1>1, <1>6, SeqDef
<1> QED
  BY <1>1, <1>2, <1>3, <1>4, <1>7

-----------------------------------------------------------------------------
(* The boxes of a slot *)

(* What each of the first n entries of a list brings to a slot. *)
Parts(list, loc, n) == [i \in 1..n |-> IF list[i].loc = loc THEN list[i].sku ELSE <<>>]

LEMMA PartsType ==
  ASSUME NEW list \in Seq(Entry), NEW loc, NEW n \in 0..Len(list)
  PROVE  /\ Parts(list, loc, n) \in Seq(Seq(Sku)) /\ Len(Parts(list, loc, n)) = n
         /\ \A i \in 1..n : Parts(list, loc, n)[i]
                              = IF list[i].loc = loc THEN list[i].sku ELSE <<>>
         /\ Parts(list, loc, n) = SubSeq(Parts(list, loc, Len(list)), 1, n)
<1> DEFINE Part(i) == IF list[i].loc = loc THEN list[i].sku ELSE <<>>
<1>1. \A i \in 1..Len(list) : Part(i) \in Seq(Sku)
  <2>1. \A i \in 1..Len(list) : list[i] \in Entry
    OBVIOUS
  <2> QED
    BY <2>1 DEF Entry
<1>2. \A m \in Nat : Parts(list, loc, m) = [i \in 1..m |-> Part(i)]
  BY DEF Parts
<1> HIDE DEF Part
<1>3. ASSUME NEW m \in 0..Len(list)
      PROVE  /\ Parts(list, loc, m) \in Seq(Seq(Sku)) /\ Len(Parts(list, loc, m)) = m
             /\ \A i \in 1..m : Parts(list, loc, m)[i] = Part(i)
  <2>1. [i \in 1..m |-> Part(i)] \in [1..m -> Seq(Sku)]
    BY <1>1
  <2>2. m \in Nat /\ Parts(list, loc, m) = [i \in 1..m |-> Part(i)]
    BY <1>2
  <2> QED
    BY <2>1, <2>2, SeqDef
<1>4. Len(list) \in 0..Len(list)
  OBVIOUS
<1> DEFINE all == Parts(list, loc, Len(list))
<1>5. all \in Seq(Seq(Sku)) /\ Len(all) = Len(list) /\ \A i \in 1..Len(list) : all[i] = Part(i)
  BY <1>3, <1>4
<1> HIDE DEF all
<1>6. /\ SubSeq(all, 1, n) \in Seq(Seq(Sku)) /\ Len(SubSeq(all, 1, n)) = n
      /\ \A i \in 1..n : SubSeq(all, 1, n)[i] = all[i] /\ i \in 1..Len(list)
  BY <1>5
<1>7. Parts(list, loc, n) = SubSeq(all, 1, n)
  <2> DEFINE p == Parts(list, loc, n)
             q == SubSeq(all, 1, n)
  <2>1. p \in Seq(Seq(Sku)) /\ Len(p) = n /\ \A i \in 1..n : p[i] = Part(i)
    BY <1>3
  <2> HIDE DEF p, q
  <2>2. q \in Seq(Seq(Sku)) /\ Len(q) = n /\ \A i \in 1..n : q[i] = Part(i)
    BY <1>5, <1>6 DEF q
  <2>3. p = q
    BY <2>1, <2>2, SeqEqual
  <2> QED
    BY <2>3 DEF p, q
<1> QED
  BY <1>3, <1>7 DEF all, Part

(* A slot is brought boxes exactly if some entry names it. *)
LEMMA PartsFlattened ==
  ASSUME NEW list \in Seq(Entry), NEW loc,
         \A i \in 1..Len(list) : list[i].sku # <<>>
  PROVE  LET brought == FlattenSeq(Parts(list, loc, Len(list)))
         IN  /\ brought \in Seq(Sku)
             /\ \A i \in 1..Len(list) :
                  list[i].loc = loc => Range(list[i].sku) \subseteq Range(brought)
             /\ brought = <<>> <=> \A i \in 1..Len(list) : list[i].loc # loc
<1> DEFINE parts == Parts(list, loc, Len(list))
           brought == FlattenSeq(parts)
<1>1. Len(list) \in 0..Len(list)
  OBVIOUS
<1>2. /\ parts \in Seq(Seq(Sku)) /\ Len(parts) = Len(list)
      /\ \A i \in 1..Len(list) : parts[i] = IF list[i].loc = loc THEN list[i].sku ELSE <<>>
  BY <1>1, PartsType
<1> HIDE DEF parts
<1>3. brought \in Seq(Sku)
  BY <1>2, FlattenType
<1>4. \A i \in 1..Len(list) : Range(parts[i]) \subseteq Range(brought)
  BY <1>2, FlattenRange
<1>5. \A i \in 1..Len(list) : list[i].loc = loc => Range(list[i].sku) \subseteq Range(brought)
  BY <1>2, <1>4
<1>6. ASSUME NEW i \in 1..Len(list), list[i].loc = loc
      PROVE  brought # <<>>
  <2>1. list[i].sku \in Seq(Sku) /\ list[i].sku # <<>>
    <3>1. list[i] \in Entry
      OBVIOUS
    <3> QED
      BY <3>1 DEF Entry
  <2>2. list[i].sku[1] \in Range(list[i].sku)
    BY <2>1, EmptySeq, RangeEquality
  <2>3. list[i].sku[1] \in Range(brought)
    BY <1>5, <1>6, <2>2
  <2> QED
    BY <2>3, RangeEmpty
<1>7. (\A i \in 1..Len(list) : list[i].loc # loc) => brought = <<>>
  <2> SUFFICES ASSUME \A i \in 1..Len(list) : list[i].loc # loc PROVE brought = <<>>
    OBVIOUS
  <2>1. \A i \in 1..Len(parts) : parts[i] = <<>>
    BY <1>2
  <2> QED
    BY <1>2, <2>1, FlattenEmptyRows
<1> HIDE DEF brought
<1> QED
  BY <1>3, <1>5, <1>6, <1>7 DEF brought, parts

(* What the first n placements bring grows with n, by the boxes of the next     *)
(* placement if it is to that slot.                                             *)
LEMMA PlannedSteps ==
  ASSUME task \in Cases, NEW loc
  PROVE  /\ Planned(loc, 0) = <<>>
         /\ \A n \in 0..Len(Placements) :
              /\ Planned(loc, n) \in Seq(Sku)
              /\ Range(Planned(loc, n)) \subseteq Range(Planned(loc, Len(Placements)))
         /\ \A n \in Nat : n + 1 <= Len(Placements) =>
              Planned(loc, n + 1)
                = Planned(loc, n)
                    \o (IF Placements[n + 1].loc = loc THEN Placements[n + 1].sku ELSE <<>>)
<1> DEFINE N == Len(Placements)
           all == Parts(Placements, loc, N)
<1>1. Placements \in Seq(Entry) /\ N \in Nat /\ N \in 0..N
  BY PlacementsType
<1>2. \A n \in 0..N : Planned(loc, n) = FlattenSeq(Parts(Placements, loc, n))
  BY DEF Planned, Parts
<1>3. /\ all \in Seq(Seq(Sku)) /\ Len(all) = N
      /\ \A i \in 1..N : all[i]
           = IF Placements[i].loc = loc THEN Placements[i].sku ELSE <<>>
  BY <1>1, PartsType
<1>4. \A n \in 0..N : Parts(Placements, loc, n) = SubSeq(all, 1, n)
  BY <1>1, PartsType
<1> HIDE DEF all, N
<1>5. \A n \in 0..N : Planned(loc, n) = FlattenSeq(SubSeq(all, 1, n))
  BY <1>2, <1>4
<1>6. SubSeq(all, 1, N) = all /\ SubSeq(all, 1, 0) = <<>>
  BY <1>1, <1>3
<1>7. Planned(loc, 0) = <<>>
  <2>1. 0 \in 0..N
    BY <1>1
  <2>2. Planned(loc, 0) = FlattenSeq(<<>>)
    BY <1>5, <1>6, <2>1
  <2> QED
    BY <2>2, FlattenNothing
<1>8. ASSUME NEW n \in 0..N
      PROVE  /\ Planned(loc, n) \in Seq(Sku)
             /\ Range(Planned(loc, n)) \subseteq Range(Planned(loc, N))
  <2>1. /\ FlattenSeq(SubSeq(all, 1, n)) \in Seq(Sku)
        /\ Range(FlattenSeq(SubSeq(all, 1, n))) \subseteq Range(FlattenSeq(all))
    BY <1>3, FlattenPrefix, FlattenPrefixRange
  <2> QED
    BY <1>1, <1>5, <1>6, <2>1
<1>9. ASSUME NEW n \in Nat, n + 1 <= N
      PROVE  Planned(loc, n + 1) = Planned(loc, n) \o all[n + 1]
  <2>1. n \in 0..N /\ n + 1 \in 0..N
    BY <1>1, <1>9
  <2>2. /\ SubSeq(all, 1, n) \in Seq(Seq(Sku)) /\ all[n + 1] \in Seq(Sku)
        /\ SubSeq(all, 1, n + 1) = Append(SubSeq(all, 1, n), all[n + 1])
    BY <1>3, <1>9, PrefixSplits
  <2> QED
    BY <1>5, <2>1, <2>2, FlattenAppend
<1>10. \A n \in Nat : n + 1 <= N => n + 1 \in 1..N
  BY <1>1
<1> QED
  BY <1>3, <1>7, <1>8, <1>9, <1>10 DEF N

(* The boxes a slot is to receive. *)
Brought(loc) == Planned(loc, Len(Placements))

LEMMA EntriesHaveBoxes ==
  ASSUME task \in Cases
  PROVE  /\ \A i \in 1..Len(Entries) : Entries[i].sku # <<>>
         /\ \A i \in 1..Len(Placements) : Placements[i].sku # <<>>
<1>1. \A e \in Goods : e.sku # <<>>
  BY GoodsType
<1>2. /\ Len(Placements) = Len(Entries)
      /\ \A i \in 1..Len(Entries) : Entries[i] \in Goods
      /\ \A i \in 1..Len(Entries) : Placements[i].sku = Entries[i].sku
  BY PlacementsType
<1> QED
  BY <1>1, <1>2

LEMMA BroughtType ==
  ASSUME task \in Cases, NEW loc
  PROVE  /\ Brought(loc) \in Seq(Sku)
         /\ \A i \in 1..Len(Placements) :
              Placements[i].loc = loc => Range(Placements[i].sku) \subseteq Range(Brought(loc))
         /\ Brought(loc) = <<>> <=> \A i \in 1..Len(Placements) : Placements[i].loc # loc
<1>1. Placements \in Seq(Entry) /\ \A i \in 1..Len(Placements) : Placements[i].sku # <<>>
  BY PlacementsType, EntriesHaveBoxes
<1>2. Brought(loc) = FlattenSeq(Parts(Placements, loc, Len(Placements)))
  BY DEF Brought, Planned, Parts
<1> QED
  BY <1>1, <1>2, PartsFlattened

LEMMA CarriedType ==
  ASSUME task \in Cases, NEW loc
  PROVE  /\ Carried(loc) \in Seq(Sku)
         /\ Carried(loc) = <<>> <=> \A e \in Goods : e.loc # loc
<1>1. /\ Entries \in Seq(Entry) /\ DOMAIN Entries = 1..Len(Entries)
      /\ \A i \in 1..Len(Entries) : Entries[i] \in Goods
      /\ \A i \in 1..Len(Entries) : Entries[i].sku # <<>>
  <2>1. Entries \in Seq(Entry)
    BY EntriesType
  <2>2. \A i \in 1..Len(Entries) : Entries[i].sku # <<>>
    BY EntriesHaveBoxes
  <2>3. DOMAIN Entries = 1..Len(Entries) /\ \A i \in 1..Len(Entries) : Entries[i] \in Goods
    BY PlacementsType
  <2> QED
    BY <2>1, <2>2, <2>3
<1>2. Carried(loc) = FlattenSeq(Parts(Entries, loc, Len(Entries)))
  BY <1>1 DEF Carried, Parts
<1>3. /\ Carried(loc) \in Seq(Sku)
      /\ Carried(loc) = <<>> <=> \A i \in 1..Len(Entries) : Entries[i].loc # loc
  BY <1>1, <1>2, PartsFlattened
<1>4. \A e \in Goods : \E i \in 1..Len(Entries) : e = Entries[i]
  BY <1>1, EntriesType DEF Range
<1> QED
  BY <1>1, <1>3, <1>4

(* On a layer with boxes for the front, they stay in the slots of the request.  *)
LEMMA BroughtAsCarried ==
  ASSUME task \in Cases, NEW loc \in Location, loc[2] \in Fronted
  PROVE  Brought(loc) = Carried(loc)
<1>1. DOMAIN Entries = 1..Len(Entries) /\ Len(Placements) = Len(Entries)
  BY PlacementsType, EntriesType
<1>2. ASSUME NEW i \in 1..Len(Entries)
      PROVE  /\ Placements[i].sku = Entries[i].sku
             /\ Placements[i].loc = loc <=> Entries[i].loc = loc
  <2>1. /\ Placements[i].loc = ActualLocation(Entries[i].loc)
        /\ Placements[i].sku = Entries[i].sku
        /\ Placements[i].loc[2] = Entries[i].loc[2]
    BY PlacementsType
  <2> QED
    BY <2>1 DEF ActualLocation
<1>3. Parts(Placements, loc, Len(Placements)) = Parts(Entries, loc, Len(Entries))
  BY <1>1, <1>2 DEF Parts
<1>4. /\ Brought(loc) = FlattenSeq(Parts(Placements, loc, Len(Placements)))
      /\ Carried(loc) = FlattenSeq(Parts(Entries, loc, Len(Entries)))
  BY <1>1 DEF Brought, Planned, Carried, Parts
<1> QED
  BY <1>3, <1>4

(* On the other layers the boxes end up before the slots of the request.        *)
LEMMA BroughtToFront ==
  ASSUME task \in Cases, NEW loc \in Location, loc[2] \notin Fronted
  PROVE  /\ IsFront(loc) => Brought(loc) = Carried(BackOf(loc))
         /\ ~IsFront(loc) => Brought(loc) = <<>>
<1>1. DOMAIN Entries = 1..Len(Entries) /\ Len(Placements) = Len(Entries)
  BY PlacementsType, EntriesType
<1>2. ASSUME NEW i \in 1..Len(Entries)
      PROVE  /\ Placements[i].sku = Entries[i].sku
             /\ Placements[i].loc = loc <=> IsFront(loc) /\ Entries[i].loc = BackOf(loc)
  <2>1. /\ Placements[i].loc = ActualLocation(Entries[i].loc)
        /\ Placements[i].sku = Entries[i].sku
        /\ Placements[i].loc[2] = Entries[i].loc[2]
        /\ Entries[i] \in Goods
    BY PlacementsType
  <2>2. Entries[i].loc \in Location /\ (Entries[i].loc[2] \notin Fronted => ~IsFront(Entries[i].loc))
    BY <2>1, GoodsType
  <2>3. CASE Entries[i].loc[2] \in Fronted
    BY <2>1, <2>2, <2>3 DEF BackOf, Location
  <2>4. CASE Entries[i].loc[2] \notin Fronted
    <3>1. Placements[i].loc = FrontOf(Entries[i].loc) /\ ~IsFront(Entries[i].loc)
      BY <2>1, <2>2, <2>4 DEF ActualLocation
    <3> QED
      BY <2>1, <2>2, <3>1 DEF FrontOf, BackOf, IsFront, Location, Position
  <2> QED
    BY <2>3, <2>4
<1>3. /\ Brought(loc) = FlattenSeq(Parts(Placements, loc, Len(Placements)))
      /\ Carried(BackOf(loc)) = FlattenSeq(Parts(Entries, BackOf(loc), Len(Entries)))
  BY <1>1 DEF Brought, Planned, Carried, Parts
<1>4. CASE IsFront(loc)
  <2>1. Parts(Placements, loc, Len(Placements)) = Parts(Entries, BackOf(loc), Len(Entries))
    BY <1>1, <1>2, <1>4 DEF Parts
  <2> QED
    BY <1>3, <1>4, <2>1
<1>5. CASE ~IsFront(loc)
  BY <1>1, <1>2, <1>5, BroughtType
<1> QED
  BY <1>4, <1>5

-----------------------------------------------------------------------------
(* The rows of a layer *)

FirstRow(layer)  == <<Brought(Slot(LevelAt(layer), 1)), Brought(Slot(LevelAt(layer), 2))>>
SecondRow(layer) == <<Brought(Slot(LevelAt(layer), 3)), Brought(Slot(LevelAt(layer), 4))>>

Both(layer) == layer \in Fronted \cap Backed

(* The robot brings the row that is to stand in front, and behind it a second    *)
(* one for a layer with boxes for either row.                                   *)
OnRobot(layer) ==
  IF Both(layer) THEN <<FirstRow(layer), SecondRow(layer)>> ELSE <<FirstRow(layer)>>

LEMMA SlotFacts ==
  ASSUME task \in Cases, NEW layer \in Layer, NEW position \in Position
  PROVE  LET slot == Slot(LevelAt(layer), position)
         IN  /\ slot \in Location /\ slot[1] = task.station
             /\ slot[2] = layer /\ slot[3] = position
             /\ IsFront(slot) <=> position \in {1, 2}
             /\ BackOf(slot) = Slot(LevelAt(layer), position + 2)
  BY RequestType DEF Slot, LevelAt, IsFront, BackOf, Location, Position

(* A slot of the station, by its layer and its position. *)
LEMMA SlotOfLocation ==
  ASSUME task \in Cases, NEW loc \in Location, loc[1] = task.station
  PROVE  /\ loc[2] \in Layer /\ loc[3] \in Position
         /\ loc = Slot(LevelAt(loc[2]), loc[3])
  BY DEF Slot, LevelAt, Location, Position, Layer

LEMMA RowTypes ==
  ASSUME task \in Cases, NEW layer \in Layer
  PROVE  /\ FirstRow(layer) \in Seq(Sku) \X Seq(Sku)
         /\ SecondRow(layer) \in Seq(Sku) \X Seq(Sku)
  BY BroughtType DEF FirstRow, SecondRow

(* What is carried for the front of a layer, and for its back. *)
LEMMA CarriedRows ==
  ASSUME task \in Cases, NEW layer \in Layer
  PROVE  /\ Row(layer, 1, 2) = NoRow <=> layer \notin Fronted
         /\ Row(layer, 3, 4) = NoRow <=> layer \notin Backed
<1> DEFINE S(p) == Slot(LevelAt(layer), p)
<1>1. \A p \in Position : /\ S(p)[2] = layer /\ (IsFront(S(p)) <=> p \in {1, 2})
  BY SlotFacts
<1>2. ASSUME NEW e \in Goods, e.loc[2] = layer
      PROVE  \E p \in Position : e.loc = S(p) /\ (IsFront(e.loc) <=> p \in {1, 2})
  <2>1. e.loc \in Location /\ e.loc[1] = task.station
    BY GoodsType
  <2>2. e.loc[3] \in Position /\ e.loc = S(e.loc[3])
    BY <1>2, <2>1, SlotOfLocation
  <2> QED
    BY <1>1, <2>2
<1> HIDE DEF S
<1>3. Row(layer, 1, 2) = <<Carried(S(1)), Carried(S(2))>>
      /\ Row(layer, 3, 4) = <<Carried(S(3)), Carried(S(4))>>
  BY DEF Row, S
<1>4. \A p \in Position : Carried(S(p)) = <<>> <=> \A e \in Goods : e.loc # S(p)
  BY CarriedType
<1>5. \A e \in Goods : /\ IsFront(e.loc) => e.loc[2] \in Fronted
                       /\ ~IsFront(e.loc) => e.loc[2] \in Backed
  BY DEF Fronted, Backed
<1>6. 1 \in Position /\ 2 \in Position /\ 3 \in Position /\ 4 \in Position
      /\ \A p \in Position : p = 1 \/ p = 2 \/ p = 3 \/ p = 4
  BY DEF Position
<1>7. Row(layer, 1, 2) = NoRow <=> Carried(S(1)) = <<>> /\ Carried(S(2)) = <<>>
  BY <1>3 DEF NoRow
<1>8. Row(layer, 3, 4) = NoRow <=> Carried(S(3)) = <<>> /\ Carried(S(4)) = <<>>
  BY <1>3 DEF NoRow
<1>9. layer \in Fronted => \E e \in Goods : e.loc = S(1) \/ e.loc = S(2)
  BY <1>2, <1>6, GoodsType
<1>10. layer \in Backed => \E e \in Goods : e.loc = S(3) \/ e.loc = S(4)
  BY <1>2, <1>6, GoodsType
<1>11. \A e \in Goods : e.loc = S(1) \/ e.loc = S(2) => layer \in Fronted
  BY <1>1, <1>5, <1>6
<1>12. \A e \in Goods : e.loc = S(3) \/ e.loc = S(4) => layer \in Backed
  BY <1>1, <1>5, <1>6
<1> QED
  BY <1>4, <1>6, <1>7, <1>8, <1>9, <1>10, <1>11, <1>12

LEMMA SmallSequences ==
  ASSUME NEW a, NEW b
  PROVE  /\ <<a>> \o <<b>> = <<a, b>> /\ <<a>> \o <<>> = <<a>> /\ <<>> \o <<a>> = <<a>>
         /\ Tail(<<a, b>>) = <<b>> /\ Tail(<<a>>) = <<>>
         /\ Head(<<a, b>>) = a /\ Head(<<a>>) = a
         /\ <<a, b>> # <<>> /\ <<a>> # <<>> /\ <<a, b>> # <<b>>
<1> DEFINE S == {a, b}
<1>1. /\ <<a>> \in Seq(S) /\ <<b>> \in Seq(S) /\ <<a, b>> \in Seq(S) /\ <<>> \in Seq(S)
      /\ Len(<<a>>) = 1 /\ Len(<<b>>) = 1 /\ Len(<<a, b>>) = 2 /\ Len(<<>>) = 0
  OBVIOUS
<1>2. <<a>> \o <<b>> = <<a, b>>
  <2>1. Append(<<a>>, b) = <<a>> \o <<b>>
    BY <1>1, AppendIsConcat
  <2>2. Append(<<a>>, b) = <<a, b>>
    <3> DEFINE p == Append(<<a>>, b)
               q == <<a, b>>
    <3>1. p \in Seq(S) /\ Len(p) = 2 /\ p[1] = a /\ p[2] = b
      BY <1>1, AppendProperties
    <3>2. q \in Seq(S) /\ Len(q) = 2 /\ q[1] = a /\ q[2] = b
      BY <1>1
    <3>3. \A i \in 1..2 : i = 1 \/ i = 2
      OBVIOUS
    <3> HIDE DEF p, q, S
    <3>4. p = q
      BY <3>1, <3>2, <3>3, SeqEqual
    <3> QED
      BY <3>4 DEF p, q
  <2> QED
    BY <2>1, <2>2
<1>3. <<a>> \o <<>> = <<a>> /\ <<>> \o <<a>> = <<a>>
  <2> HIDE DEF S
  <2> QED
    BY <1>1, ConcatEmptySeq
<1>4. Tail(<<a, b>>) = <<b>>
  OBVIOUS
<1>5. Tail(<<a>>) = <<>>
  OBVIOUS
<1>6. Head(<<a, b>>) = a /\ Head(<<a>>) = a
  OBVIOUS
<1>7. <<a, b>> # <<>> /\ <<a>> # <<>> /\ <<a, b>> # <<b>>
  BY <1>1
<1> QED
  BY <1>2, <1>3, <1>4, <1>5, <1>6, <1>7

(* The rows the robot starts with. *)
LEMMA RobotRows ==
  ASSUME task \in Cases, NEW layer \in Layer
  PROVE  /\ layer \in GoodsLayers =>
              /\ Rows(Row(layer, 1, 2)) \o Rows(Row(layer, 3, 4)) = OnRobot(layer)
              /\ FirstRow(layer) # NoRow
         /\ Both(layer) => SecondRow(layer) # NoRow
         /\ ~Both(layer) => SecondRow(layer) = NoRow
<1> DEFINE S(p) == Slot(LevelAt(layer), p)
<1>1. \A p \in Position : /\ S(p) \in Location /\ S(p)[2] = layer
                          /\ IsFront(S(p)) <=> p \in {1, 2}
                          /\ BackOf(S(p)) = S(p + 2)
  BY SlotFacts
<1> HIDE DEF S
<1>2. /\ Row(layer, 1, 2) = <<Carried(S(1)), Carried(S(2))>>
      /\ Row(layer, 3, 4) = <<Carried(S(3)), Carried(S(4))>>
      /\ FirstRow(layer) = <<Brought(S(1)), Brought(S(2))>>
      /\ SecondRow(layer) = <<Brought(S(3)), Brought(S(4))>>
  BY DEF Row, FirstRow, SecondRow, S
<1>3. 1 \in Position /\ 2 \in Position /\ 3 \in Position /\ 4 \in Position
  BY DEF Position
<1>4. /\ Row(layer, 1, 2) = NoRow <=> layer \notin Fronted
      /\ Row(layer, 3, 4) = NoRow <=> layer \notin Backed
  BY CarriedRows
<1>5. CASE layer \in Fronted
  <2>1. \A p \in Position : Brought(S(p)) = Carried(S(p))
    BY <1>1, <1>5, BroughtAsCarried
  <2>2. FirstRow(layer) = Row(layer, 1, 2) /\ SecondRow(layer) = Row(layer, 3, 4)
    BY <1>2, <1>3, <2>1
  <2>3. Rows(Row(layer, 1, 2)) = <<FirstRow(layer)>>
    BY <1>4, <1>5, <2>2 DEF Rows
  <2>4. Rows(Row(layer, 3, 4)) = IF layer \in Backed THEN <<SecondRow(layer)>> ELSE <<>>
    BY <1>4, <2>2 DEF Rows
  <2>5. Rows(Row(layer, 1, 2)) \o Rows(Row(layer, 3, 4)) = OnRobot(layer)
    BY <1>5, <2>3, <2>4, SmallSequences DEF OnRobot, Both
  <2> QED
    BY <1>4, <1>5, <2>2, <2>5 DEF Both
<1>6. CASE layer \notin Fronted
  <2>1. /\ Brought(S(1)) = Carried(S(3)) /\ Brought(S(2)) = Carried(S(4))
        /\ Brought(S(3)) = <<>> /\ Brought(S(4)) = <<>>
    <3>1. \A p \in Position : /\ p \in {1, 2} => Brought(S(p)) = Carried(BackOf(S(p)))
                              /\ p \notin {1, 2} => Brought(S(p)) = <<>>
      BY <1>1, <1>6, BroughtToFront
    <3>2. BackOf(S(1)) = S(3) /\ BackOf(S(2)) = S(4)
      BY <1>1, <1>3
    <3> QED
      BY <1>3, <3>1, <3>2
  <2>2. FirstRow(layer) = Row(layer, 3, 4) /\ SecondRow(layer) = NoRow
    BY <1>2, <2>1 DEF NoRow
  <2>3. layer \in GoodsLayers => layer \in Backed
    BY <1>6 DEF GoodsLayers
  <2>4. Rows(Row(layer, 1, 2)) = <<>>
    BY <1>4, <1>6 DEF Rows
  <2>5. layer \in Backed => Rows(Row(layer, 3, 4)) = <<FirstRow(layer)>>
    BY <1>4, <2>2 DEF Rows
  <2>6. layer \in Backed =>
          Rows(Row(layer, 1, 2)) \o Rows(Row(layer, 3, 4)) = OnRobot(layer)
    BY <1>6, <2>4, <2>5, SmallSequences DEF OnRobot, Both
  <2> QED
    BY <1>4, <1>6, <2>2, <2>3, <2>6 DEF Both
<1> QED
  BY <1>5, <1>6

-----------------------------------------------------------------------------
(* The looks at the sensors *)

LooksAt(layer) ==
  IF Both(layer) THEN <<<<layer, "front">>, <<layer, "back">>>>
  ELSE IF layer \in GoodsLayers THEN <<<<layer, "front">>>> ELSE <<>>

Sensor == Layer \X {"front", "back"}

(* Every layer with goods is looked at in front, those with boxes for either    *)
(* row also at the back, right after the look in front.                         *)
LEMMA LooksFacts ==
  ASSUME task \in Cases
  PROVE  /\ FrontThenBack \in Seq(Sensor)
         /\ \A layer \in GoodsLayers :
              \E j \in 1..Len(FrontThenBack) : FrontThenBack[j] = <<layer, "front">>
         /\ \A layer \in GoodsLayers : Both(layer) =>
              \E j \in 1..Len(FrontThenBack) : FrontThenBack[j] = <<layer, "back">>
         /\ \A j \in 1..Len(FrontThenBack) :
              /\ FrontThenBack[j][1] \in GoodsLayers
              /\ FrontThenBack[j][2] = "back" =>
                   /\ j - 1 \in 1..Len(FrontThenBack)
                   /\ FrontThenBack[j - 1] = <<FrontThenBack[j][1], "front">>
<1> DEFINE rows == [layer \in Layer |-> LooksAt(layer)]
           F == FrontThenBack
<1>1. F = FlattenSeq(rows)
  <2>1. \A layer : [i \in 1..2 |-> <<layer, <<"front", "back">>[i]>>]
                     = <<<<layer, "front">>, <<layer, "back">>>>
    OBVIOUS
  <2>2. rows = [layer \in Layer |->
                  IF layer \in Fronted \cap Backed
                  THEN [i \in 1..2 |-> <<layer, <<"front", "back">>[i]>>]
                  ELSE IF layer \in GoodsLayers THEN <<<<layer, "front">>>> ELSE <<>>]
    BY <2>1 DEF LooksAt, Both
  <2> QED
    BY <2>2 DEF FrontThenBack, Looks
<1>2. rows \in Seq(Seq(Sensor)) /\ Len(rows) = 4 /\ \A l \in 1..4 : rows[l] = LooksAt(l)
  <2>1. \A layer \in Layer : LooksAt(layer) \in Seq(Sensor)
    <3> SUFFICES ASSUME NEW layer \in Layer PROVE LooksAt(layer) \in Seq(Sensor)
      OBVIOUS
    <3>1. <<layer, "front">> \in Sensor /\ <<layer, "back">> \in Sensor
      BY DEF Sensor
    <3>2. \A x, y \in Sensor : <<>> \in Seq(Sensor) /\ <<x>> \in Seq(Sensor) /\ <<x, y>> \in Seq(Sensor)
      OBVIOUS
    <3> QED
      BY <3>1, <3>2 DEF LooksAt
  <2>2. rows \in [1..4 -> Seq(Sensor)]
    BY <2>1 DEF Layer
  <2> QED
    BY <2>2, SeqDef DEF Layer
<1> HIDE DEF rows
<1>3. F \in Seq(Sensor) /\ Len(F) \in Nat
  BY <1>1, <1>2, FlattenType, LenProperties
<1>4. MadeOf(F, rows, 4)
  BY <1>1, <1>2, FlattenKeepsRows
<1> HIDE DEF F
<1>5. ASSUME NEW layer \in GoodsLayers
      PROVE  /\ \E j \in 1..Len(F) : F[j] = <<layer, "front">>
             /\ Both(layer) => \E j \in 1..Len(F) : F[j] = <<layer, "back">>
  <2>1. layer \in 1..4
    BY GoodsType DEF Layer
  <2>2. PICK o \in Nat : StandsAt(LooksAt(layer), F, o)
    BY <1>2, <1>4, <2>1 DEF MadeOf
  <2>3. CASE Both(layer)
    <3>1. LooksAt(layer) = <<<<layer, "front">>, <<layer, "back">>>>
      BY <2>3 DEF LooksAt
    <3>2. o + 2 <= Len(F) /\ F[o + 1] = <<layer, "front">> /\ F[o + 2] = <<layer, "back">>
      BY <2>2, <3>1 DEF StandsAt
    <3>3. o + 1 \in 1..Len(F) /\ o + 2 \in 1..Len(F)
      BY <1>3, <3>2
    <3> QED
      BY <3>2, <3>3
  <2>4. CASE ~Both(layer)
    <3>1. LooksAt(layer) = <<<<layer, "front">>>>
      BY <2>4 DEF LooksAt
    <3>2. o + 1 <= Len(F) /\ F[o + 1] = <<layer, "front">>
      BY <2>2, <3>1 DEF StandsAt
    <3>3. o + 1 \in 1..Len(F)
      BY <1>3, <3>2
    <3> QED
      BY <2>4, <3>2, <3>3
  <2> QED
    BY <2>3, <2>4
<1>6. ASSUME NEW j \in 1..Len(F)
      PROVE  /\ F[j][1] \in GoodsLayers
             /\ F[j][2] = "back" => j - 1 \in 1..Len(F) /\ F[j - 1] = <<F[j][1], "front">>
  <2>1. PICK layer \in 1..4, o \in Nat :
          StandsAt(LooksAt(layer), F, o) /\ o + 1 <= j /\ j <= o + Len(LooksAt(layer))
    BY <1>2, <1>4 DEF MadeOf
  <2>2. CASE Both(layer)
    <3>1. LooksAt(layer) = <<<<layer, "front">>, <<layer, "back">>>> /\ layer \in GoodsLayers
      BY <2>2 DEF LooksAt, Both, GoodsLayers
    <3>2. o + 2 <= Len(F) /\ F[o + 1] = <<layer, "front">> /\ F[o + 2] = <<layer, "back">>
      BY <2>1, <3>1 DEF StandsAt
    <3>3. j = o + 1 \/ j = o + 2
      BY <1>3, <2>1, <3>1
    <3>4. CASE j = o + 1
      BY <3>1, <3>2, <3>4
    <3>5. CASE j = o + 2
      <4>1. j - 1 = o + 1 /\ j - 1 \in 1..Len(F)
        BY <1>3, <3>2, <3>5
      <4> QED
        BY <3>1, <3>2, <3>5, <4>1
    <3> QED
      BY <3>3, <3>4, <3>5
  <2>3. CASE ~Both(layer)
    <3>1. layer \in GoodsLayers /\ LooksAt(layer) = <<<<layer, "front">>>>
      <4>1. LooksAt(layer) # <<>>
        BY <1>3, <2>1
      <4> QED
        BY <2>3, <4>1 DEF LooksAt
    <3>2. o + 1 <= Len(F) /\ F[o + 1] = <<layer, "front">>
      BY <2>1, <3>1 DEF StandsAt
    <3>3. j = o + 1
      BY <1>3, <2>1, <3>1
    <3> QED
      BY <3>1, <3>2, <3>3
  <2> QED
    BY <2>2, <2>3
<1> QED
  BY <1>3, <1>5, <1>6 DEF F

-----------------------------------------------------------------------------
(* Types *)

TypeInv == TypeOK /\ robot \in [Layer -> Seq(Seq(Sku) \X Seq(Sku))]

(* The case at hand stays, and with it all that is worked out from it. *)
LEMMA SameTask ==
  ASSUME task' = task
  PROVE  /\ Goods' = Goods /\ Fronted' = Fronted /\ Backed' = Backed
         /\ GoodsLayers' = GoodsLayers /\ Entries' = Entries /\ Placements' = Placements
         /\ FreshLayers' = FreshLayers
         /\ FrontThenBack' = FrontThenBack
         /\ \A layer : LevelAt(layer)' = LevelAt(layer)
         /\ \A loc, n : Planned(loc, n)' = Planned(loc, n)
         /\ \A loc : Brought(loc)' = Brought(loc)
         /\ \A layer : /\ FirstRow(layer)' = FirstRow(layer)
                       /\ SecondRow(layer)' = SecondRow(layer)
                       /\ OnRobot(layer)' = OnRobot(layer)
                       /\ Both(layer)' = Both(layer)
<1>1. /\ Goods' = Goods /\ Fronted' = Fronted /\ Backed' = Backed
      /\ GoodsLayers' = GoodsLayers
  BY DEF Goods, Fronted, Backed, GoodsLayers
<1>2. Entries' = Entries
  BY <1>1 DEF Entries
<1>3. \A loc : ActualLocation(loc)' = ActualLocation(loc)
  BY <1>1 DEF ActualLocation
<1>4. Placements' = Placements
  BY <1>2, <1>3, Zenon DEF Placements
<1>5. \A loc, n : Planned(loc, n)' = Planned(loc, n)
  BY <1>4, Zenon DEF Planned
<1>6. FrontThenBack' = FrontThenBack /\ \A layer : LevelAt(layer)' = LevelAt(layer)
  BY <1>1 DEF FrontThenBack, Looks, LevelAt
<1>7. \A loc : Brought(loc)' = Brought(loc)
  BY <1>2, <1>3, <1>4, <1>5, Zenon DEF Brought
<1>8. \A layer : /\ FirstRow(layer)' = FirstRow(layer)
                  /\ SecondRow(layer)' = SecondRow(layer)
                  /\ Both(layer)' = Both(layer)
  BY <1>1, <1>6, <1>7 DEF FirstRow, SecondRow, Both
<1>9. \A layer : OnRobot(layer)' = OnRobot(layer)
  BY <1>8 DEF OnRobot
<1>10. FreshLayers' = FreshLayers
  BY <1>1, <1>6 DEF FreshLayers
<1> QED
  BY <1>1, <1>2, <1>4, <1>5, <1>6, <1>7, <1>8, <1>9, <1>10

LEMMA SeenType == Seen \in [front : SUBSET Layer, back : SUBSET Layer]
  BY DEF Seen

LEMMA BackToFrontType ==
  ASSUME NEW s \in [Location -> Seq(Sku)], NEW level \in Level
  PROVE  BackToFront(s, level) \in [Location -> Seq(Sku)]
<1>1. ASSUME NEW loc \in FrontSlots(level)
      PROVE  BackOf(loc) \in Location
  BY DEF FrontSlots, Slot, BackOf, Level, Location, Position
<1>2. <<>> \in Seq(Sku)
  OBVIOUS
<1> QED
  BY <1>1, <1>2 DEF BackToFront

LEMMA TypeInit ==
  ASSUME Init
  PROVE  TypeInv
<1>1. task \in Cases /\ store = task.stock /\ shelf = task.stock
  BY DEF Init
<1>2. ASSUME NEW row \in Seq(Sku) \X Seq(Sku)
      PROVE  Rows(row) \in Seq(Seq(Sku) \X Seq(Sku))
  <2> DEFINE R == Seq(Sku) \X Seq(Sku)
  <2>1. row \in R
    OBVIOUS
  <2> HIDE DEF R
  <2>2. Rows(row) \in Seq(R)
    BY <2>1 DEF Rows
  <2> QED
    BY <2>2 DEF R
<1>3. \A l, i, j : Row(l, i, j) \in Seq(Sku) \X Seq(Sku)
  BY <1>1, CarriedType DEF Row
<1>4. ASSUME NEW l \in Layer
      PROVE  Rows(Row(l, 1, 2)) \o Rows(Row(l, 3, 4)) \in Seq(Seq(Sku) \X Seq(Sku))
  BY <1>2, <1>3, ConcatProperties
<1>5. robot \in [Layer -> Seq(Seq(Sku) \X Seq(Sku))]
  BY <1>4 DEF Init
<1>6. polled \in [front : SUBSET Layer, back : SUBSET Layer]
  BY SeenType DEF Init
<1>7. pc = "place" /\ k = 1 /\ triggered = TRUE /\ no_box = {} /\ placing = FALSE
  BY DEF Init
<1>8. /\ store \in [Location -> Seq(Sku)] /\ shelf \in [Location -> Seq(Sku)]
      /\ \A loc \in Location : Len(store[loc]) <= SLOT_CAPACITY
  BY <1>1, RequestType
<1>9. triggered \in BOOLEAN /\ placing \in BOOLEAN
  BY <1>7, Zenon
<1>10. k \in Nat \ {0} /\ no_box \subseteq Layer
  BY <1>7
<1>11. pc \in {"place", "skip", "await", "write", "deliver", "done", "failed"}
  BY <1>7
<1> QED
  BY <1>1, <1>5, <1>6, <1>8, <1>9, <1>10, <1>11 DEF TypeInv, TypeOK

LEMMA TypeStep ==
  ASSUME TypeInv, [Next]_vars
  PROVE  TypeInv'
<1> USE DEF TypeInv
<1>1. CASE BuildPlacements
  BY <1>1 DEF TypeOK, BuildPlacements, Goto, Plant, Outside
<1>2. CASE SkipLayer
  BY <1>2 DEF TypeOK, SkipLayer, Plant, Outside
<1>3. CASE NothingToPlace
  BY <1>3 DEF TypeOK, NothingToPlace, Goto, Plant, Outside
<1>4. CASE CommandPlace
  BY <1>4 DEF TypeOK, CommandPlace, Goto, Plant, Outside
<1>5. CASE LookAtSensor
  <2>1. triggered' \in BOOLEAN
    BY <1>5, Zenon DEF LookAtSensor
  <2> QED
    BY <1>5, <2>1 DEF TypeOK, LookAtSensor, Outside
<1>6. CASE BoxesArrived
  BY <1>6 DEF TypeOK, BoxesArrived, Goto, Outside
<1>7. CASE WritePlacement
  <2> DEFINE p == Placements[k]
  <2>1. task \in Cases /\ k \in Nat \ {0} /\ k <= Len(Placements)
    BY <1>7 DEF TypeOK, WritePlacement
  <2>2. p.loc \in Location /\ p.sku \in Seq(Sku)
    <3>1. Placements \in Seq(Entry) /\ k \in 1..Len(Placements)
      BY <2>1, PlacementsType
    <3>2. p \in Entry
      BY <3>1
    <3> QED
      BY <3>2 DEF Entry
  <2> HIDE DEF p
  <2>3. CASE CanPut(store, p.loc, p.sku)
    <3>1. store' = [store EXCEPT ![p.loc] = @ \o p.sku] /\ k' = k + 1 /\ pc' = pc
      BY <1>7, <2>3 DEF WritePlacement, PutGoods, p
    <3>2. /\ store[p.loc] \o p.sku \in Seq(Sku)
          /\ Len(store[p.loc] \o p.sku) = Len(store[p.loc]) + Len(p.sku)
      BY <2>2, ConcatProperties DEF TypeOK
    <3>3. Len(store[p.loc] \o p.sku) <= SLOT_CAPACITY
      BY <2>3, <3>2 DEF CanPut
    <3>4. /\ store' \in [Location -> Seq(Sku)]
          /\ \A loc \in Location : Len(store'[loc]) <= SLOT_CAPACITY
      BY <3>1, <3>2, <3>3 DEF TypeOK
    <3>5. UNCHANGED <<task, robot, shelf, polled, triggered, no_box, placing>>
      BY <1>7 DEF WritePlacement, Plant, Outside
    <3>6. k' \in Nat \ {0}
      BY <2>1, <3>1
    <3>7. /\ task' \in Cases /\ triggered' \in BOOLEAN /\ placing' \in BOOLEAN
          /\ pc' \in {"place", "skip", "await", "write", "deliver", "done", "failed"}
      BY <3>1, <3>5 DEF TypeOK
    <3>8. /\ no_box' \subseteq Layer /\ shelf' \in [Location -> Seq(Sku)]
          /\ polled' \in [front : SUBSET Layer, back : SUBSET Layer]
          /\ robot' \in [Layer -> Seq(Seq(Sku) \X Seq(Sku))]
      BY <3>5 DEF TypeOK
    <3> QED
      BY <3>4, <3>6, <3>7, <3>8 DEF TypeOK
  <2>4. CASE ~CanPut(store, p.loc, p.sku)
    <3>1. pc' = "failed" /\ k' = 1 /\ store' = store
      BY <1>7, <2>4 DEF WritePlacement, Goto, p
    <3> QED
      BY <1>7, <3>1 DEF TypeOK, WritePlacement, Plant, Outside
  <2> QED
    BY <2>3, <2>4
<1>8. CASE PlacementsWritten
  BY <1>8 DEF TypeOK, PlacementsWritten, Goto, Plant, Outside
<1>9. CASE Deliver
  BY <1>9 DEF TypeOK, Deliver, Goto, Plant, Outside
<1>10. CASE Abandon
  BY <1>10 DEF TypeOK, Abandon, Goto, Plant, Outside
<1>11. ASSUME NEW layer \in Layer, ConveyorRuns(layer)
       PROVE  TypeInv'
  <2>1. LevelAt(layer) \in Level /\ task \in Cases
    BY RequestType DEF TypeOK, LevelAt, Level
  <2>2. CASE shelf' = BackToFront(shelf, LevelAt(layer)) /\ robot' = robot
    <3>1. shelf' \in [Location -> Seq(Sku)]
      BY <2>1, <2>2, BackToFrontType DEF TypeOK
    <3> QED
      BY <1>11, <2>2, <3>1 DEF TypeOK, ConveyorRuns
  <2>3. CASE /\ robot[layer] # <<>>
             /\ shelf' = [shelf EXCEPT ![Slot(LevelAt(layer), 3)] = Head(robot[layer])[1],
                                       ![Slot(LevelAt(layer), 4)] = Head(robot[layer])[2]]
             /\ robot' = [robot EXCEPT ![layer] = Tail(@)]
    <3>1. /\ Head(robot[layer]) \in Seq(Sku) \X Seq(Sku)
          /\ Tail(robot[layer]) \in Seq(Seq(Sku) \X Seq(Sku))
      BY <2>3, RangeTail
    <3>2. Head(robot[layer])[1] \in Seq(Sku) /\ Head(robot[layer])[2] \in Seq(Sku)
      BY <3>1
    <3>3. shelf' \in [Location -> Seq(Sku)]
      BY <2>3, <3>2 DEF TypeOK
    <3>4. robot' \in [Layer -> Seq(Seq(Sku) \X Seq(Sku))]
      BY <2>3, <3>1
    <3> QED
      BY <1>11, <3>3, <3>4 DEF TypeOK, ConveyorRuns
  <2> QED
    BY <1>11, <2>2, <2>3 DEF ConveyorRuns
<1>12. CASE Poll
  BY <1>12, SeenType DEF TypeOK, Poll
<1>13. CASE UNCHANGED vars
  BY <1>13 DEF TypeOK, vars
<1> QED
  BY <1>1, <1>2, <1>3, <1>4, <1>5, <1>6, <1>7, <1>8, <1>9, <1>10, <1>11, <1>12, <1>13
     DEF Next, Worker, Conveyors

(* The type invariant of a putaway, for every request: no slot of the inventory *)
(* is ever filled beyond its capacity.                                          *)
THEOREM TypeCorrect == Spec => []TypeOK
<1>1. Init => TypeInv
  BY TypeInit
<1>2. TypeInv /\ [Next]_vars => TypeInv'
  BY TypeStep
<1>3. TypeInv => TypeOK
  BY DEF TypeInv
<1> QED
  BY <1>1, <1>2, <1>3, PTL DEF Spec

-----------------------------------------------------------------------------
(* How the boxes come in *)

FrontRow(layer) == <<shelf[Slot(LevelAt(layer), 1)], shelf[Slot(LevelAt(layer), 2)]>>
BackRow(layer)  == <<shelf[Slot(LevelAt(layer), 3)], shelf[Slot(LevelAt(layer), 4)]>>

(* The boxes of a layer stand where they are to stand. *)
Settled(layer) ==
  /\ robot[layer] = <<>>
  /\ FrontRow(layer) = FirstRow(layer) /\ BackRow(layer) = SecondRow(layer)

(* On the robot, at the back, in front, and in front with the second row behind. *)
Arrival(layer) ==
  \/ /\ robot[layer] = OnRobot(layer)
     /\ FrontRow(layer) = NoRow /\ BackRow(layer) = NoRow
  \/ /\ robot[layer] = Tail(OnRobot(layer))
     /\ FrontRow(layer) = NoRow /\ BackRow(layer) = FirstRow(layer)
  \/ /\ robot[layer] = Tail(OnRobot(layer))
     /\ FrontRow(layer) = FirstRow(layer) /\ BackRow(layer) = NoRow
  \/ Settled(layer)

InGoods(loc) == loc[1] = task.station /\ loc[2] \in GoodsLayers
InFresh(loc) == loc[1] = task.station /\ loc[2] \in FreshLayers

(* Only the conveyors of layers with goods run, and they run from the robot to  *)
(* the front.                                                                   *)
ConveyorInv ==
  /\ pc = "place" => no_box = {}
  /\ pc = "skip" => no_box = {l \in Layer : l < k} \ GoodsLayers
  /\ pc \in {"place", "skip"} => placing = FALSE
  /\ placing => no_box = Layer \ GoodsLayers
  /\ \A loc \in Location : ~InGoods(loc) => shelf[loc] = task.stock[loc]
  /\ \A layer \in FreshLayers : Arrival(layer)

(* A sensor that was seen triggered in front stays so, and one seen at the same *)
(* time at the back shows the second row, not the first one on its way.         *)
PollInv ==
  \A layer \in FreshLayers :
    /\ layer \in polled.front => FrontRow(layer) = FirstRow(layer)
    /\ layer \in polled.front /\ layer \in polled.back => Settled(layer)

(* What the worker has found triggered: a front sensor still is in what was     *)
(* polled last, and a back sensor, looked at after the front one, showed the    *)
(* boxes where they are to stand.                                               *)
LookInv ==
  /\ pc = "await" /\ triggered =>
       \A layer \in FreshLayers : \A j \in 1..Len(FrontThenBack) : j < k =>
         /\ FrontThenBack[j] = <<layer, "front">> => layer \in polled.front
         /\ FrontThenBack[j] = <<layer, "back">> => Settled(layer)
  /\ pc \in {"write", "deliver", "done"} => \A layer \in FreshLayers : Settled(layer)

(* Boxes are brought to fresh layers, which held none. *)
LEMMA FreshType ==
  ASSUME task \in Cases
  PROVE  /\ FreshLayers \subseteq GoodsLayers /\ FreshLayers \subseteq Layer
         /\ \A loc \in Location : InFresh(loc) => task.stock[loc] = <<>>
<1>1. FreshLayers \subseteq GoodsLayers /\ FreshLayers \subseteq Layer
  BY GoodsType DEF FreshLayers
<1>2. ASSUME NEW loc \in Location, InFresh(loc)
      PROVE  task.stock[loc] = <<>>
  <2>1. loc[3] \in Position /\ loc = Slot(LevelAt(loc[2]), loc[3])
    BY <1>2, SlotOfLocation DEF InFresh
  <2> QED
    BY <1>2, <2>1, Zenon DEF InFresh, FreshLayers
<1> QED
  BY <1>1, <1>2

(* The sensors, in terms of rows. *)
LEMMA RowsSeen ==
  ASSUME NEW layer
  PROVE  /\ FrontEmpty(shelf, LevelAt(layer)) <=> FrontRow(layer) = NoRow
         /\ BackEmpty(shelf, LevelAt(layer)) <=> BackRow(layer) = NoRow
  BY DEF FrontEmpty, BackEmpty, FrontSlots, BackSlots, FrontRow, BackRow, NoRow

(* A run of a conveyor concerns its layer only, and moves a whole row. *)
LEMMA ConveyorStep ==
  ASSUME TypeInv, NEW layer \in Layer, ConveyorRuns(layer)
  PROVE  /\ UNCHANGED <<task, store, pc, k, triggered, no_box, placing, polled>>
         /\ placing /\ layer \notin no_box
         /\ \A loc \in Location :
              ~(loc[1] = task.station /\ loc[2] = layer) => shelf'[loc] = shelf[loc]
         /\ \A l \in Layer : l # layer =>
              /\ FrontRow(l)' = FrontRow(l) /\ BackRow(l)' = BackRow(l)
              /\ robot'[l] = robot[l]
         /\ \/ /\ FrontRow(layer) = NoRow /\ BackRow(layer) # NoRow
               /\ FrontRow(layer)' = BackRow(layer) /\ BackRow(layer)' = NoRow
               /\ robot'[layer] = robot[layer]
            \/ /\ robot[layer] # <<>> /\ BackRow(layer) = NoRow
               /\ FrontRow(layer)' = FrontRow(layer)
               /\ BackRow(layer)' = Head(robot[layer])
               /\ robot'[layer] = Tail(robot[layer])
<1> DEFINE S(l, p) == Slot(LevelAt(l), p)
<1>1. /\ UNCHANGED <<task, store, pc, k, triggered, no_box, placing, polled>>
      /\ placing /\ layer \notin no_box
  BY DEF ConveyorRuns
<1>2. /\ task \in Cases /\ shelf \in [Location -> Seq(Sku)]
      /\ robot \in [Layer -> Seq(Seq(Sku) \X Seq(Sku))]
  BY DEF TypeInv, TypeOK
<1>3. \A l \in Layer : \A p \in Position :
        S(l, p) \in Location /\ S(l, p)[1] = task.station /\ S(l, p)[2] = l /\ S(l, p)[3] = p
  BY <1>2, SlotFacts
<1>4. 1 \in Position /\ 2 \in Position /\ 3 \in Position /\ 4 \in Position
  BY DEF Position
<1>5. \A l : /\ FrontRow(l) = <<shelf[S(l, 1)], shelf[S(l, 2)]>>
             /\ BackRow(l) = <<shelf[S(l, 3)], shelf[S(l, 4)]>>
             /\ FrontRow(l)' = <<shelf'[S(l, 1)], shelf'[S(l, 2)]>>
             /\ BackRow(l)' = <<shelf'[S(l, 3)], shelf'[S(l, 4)]>>
  BY <1>1, SameTask DEF FrontRow, BackRow
<1>6. /\ LevelAt(layer) = <<task.station, layer>>
      /\ FrontSlots(LevelAt(layer)) = {S(layer, 1), S(layer, 2)}
      /\ BackSlots(LevelAt(layer)) = {S(layer, 3), S(layer, 4)}
      /\ BackOf(S(layer, 1)) = S(layer, 3) /\ BackOf(S(layer, 2)) = S(layer, 4)
  BY DEF LevelAt, FrontSlots, BackSlots, BackOf, Slot
<1> HIDE DEF S
<1>7. CASE /\ FrontEmpty(shelf, LevelAt(layer)) /\ ~BackEmpty(shelf, LevelAt(layer))
           /\ shelf' = BackToFront(shelf, LevelAt(layer)) /\ robot' = robot
  <2>1. \A loc \in Location :
          shelf'[loc] = IF loc \in {S(layer, 1), S(layer, 2)} THEN shelf[BackOf(loc)]
                        ELSE IF loc \in {S(layer, 3), S(layer, 4)} THEN <<>> ELSE shelf[loc]
    BY <1>6, <1>7 DEF BackToFront
  <2>2. \A loc \in Location :
          ~(loc[1] = task.station /\ loc[2] = layer) => shelf'[loc] = shelf[loc]
    BY <1>3, <1>4, <2>1
  <2>3. \A l \in Layer : l # layer =>
          FrontRow(l)' = FrontRow(l) /\ BackRow(l)' = BackRow(l)
    BY <1>3, <1>4, <1>5, <2>2
  <2>4. /\ shelf'[S(layer, 1)] = shelf[S(layer, 3)] /\ shelf'[S(layer, 2)] = shelf[S(layer, 4)]
        /\ shelf'[S(layer, 3)] = <<>> /\ shelf'[S(layer, 4)] = <<>>
    BY <1>3, <1>4, <1>6, <2>1
  <2>5. FrontRow(layer)' = BackRow(layer) /\ BackRow(layer)' = NoRow
    BY <1>5, <2>4 DEF NoRow
  <2> QED
    BY <1>1, <1>7, <2>2, <2>3, <2>5, RowsSeen
<1>8. CASE /\ robot[layer] # <<>> /\ BackEmpty(shelf, LevelAt(layer))
           /\ shelf' = [shelf EXCEPT ![S(layer, 3)] = Head(robot[layer])[1],
                                     ![S(layer, 4)] = Head(robot[layer])[2]]
           /\ robot' = [robot EXCEPT ![layer] = Tail(@)]
  <2>1. \A loc \in Location :
          shelf'[loc] = IF loc = S(layer, 4) THEN Head(robot[layer])[2]
                        ELSE IF loc = S(layer, 3) THEN Head(robot[layer])[1] ELSE shelf[loc]
    BY <1>2, <1>8
  <2>2. \A loc \in Location :
          ~(loc[1] = task.station /\ loc[2] = layer) => shelf'[loc] = shelf[loc]
    BY <1>3, <1>4, <2>1
  <2>3. \A l \in Layer : l # layer =>
          FrontRow(l)' = FrontRow(l) /\ BackRow(l)' = BackRow(l)
    BY <1>3, <1>4, <1>5, <2>2
  <2>4. /\ shelf'[S(layer, 1)] = shelf[S(layer, 1)] /\ shelf'[S(layer, 2)] = shelf[S(layer, 2)]
        /\ shelf'[S(layer, 3)] = Head(robot[layer])[1]
        /\ shelf'[S(layer, 4)] = Head(robot[layer])[2]
    BY <1>3, <1>4, <2>1
  <2>5. Head(robot[layer]) \in Seq(Sku) \X Seq(Sku)
    BY <1>2, <1>8, RangeTail
  <2>6. FrontRow(layer)' = FrontRow(layer) /\ BackRow(layer)' = Head(robot[layer])
    <3>1. Head(robot[layer]) = <<Head(robot[layer])[1], Head(robot[layer])[2]>>
      BY <2>5
    <3> QED
      BY <1>5, <2>4, <3>1
  <2>7. robot'[layer] = Tail(robot[layer]) /\ \A l \in Layer : l # layer => robot'[l] = robot[l]
    BY <1>2, <1>8
  <2> QED
    BY <1>1, <1>8, <2>2, <2>3, <2>6, <2>7, RowsSeen
<1> QED
  BY <1>7, <1>8 DEF ConveyorRuns, S

(* A row that reached its place stays there. *)
LEMMA ArrivalStep ==
  ASSUME TypeInv, NEW layer \in FreshLayers, Arrival(layer), ConveyorRuns(layer)
  PROVE  /\ Arrival(layer)'
         /\ FrontRow(layer) = FirstRow(layer) => FrontRow(layer)' = FirstRow(layer)
         /\ ~Settled(layer)
<1>1. task \in Cases /\ layer \in Layer /\ task' = task
  BY GoodsType, FreshType DEF TypeInv, TypeOK, ConveyorRuns
<1>2. \/ /\ FrontRow(layer) = NoRow /\ BackRow(layer) # NoRow
         /\ FrontRow(layer)' = BackRow(layer) /\ BackRow(layer)' = NoRow
         /\ robot'[layer] = robot[layer]
      \/ /\ robot[layer] # <<>> /\ BackRow(layer) = NoRow
         /\ FrontRow(layer)' = FrontRow(layer)
         /\ BackRow(layer)' = Head(robot[layer])
         /\ robot'[layer] = Tail(robot[layer])
  BY <1>1, ConveyorStep
<1>3. /\ FirstRow(layer)' = FirstRow(layer) /\ SecondRow(layer)' = SecondRow(layer)
      /\ OnRobot(layer)' = OnRobot(layer)
  BY <1>1, SameTask
<1>4. /\ FirstRow(layer) # NoRow
      /\ Both(layer) => SecondRow(layer) # NoRow
      /\ ~Both(layer) => SecondRow(layer) = NoRow
  BY <1>1, RobotRows, FreshType
<1>5. /\ OnRobot(layer) # <<>> /\ Head(OnRobot(layer)) = FirstRow(layer)
      /\ OnRobot(layer) # Tail(OnRobot(layer))
      /\ Both(layer) => /\ Tail(OnRobot(layer)) # <<>>
                        /\ Head(Tail(OnRobot(layer))) = SecondRow(layer)
                        /\ Tail(Tail(OnRobot(layer))) = <<>>
      /\ ~Both(layer) => Tail(OnRobot(layer)) = <<>>
  BY SmallSequences DEF OnRobot
<1>6. Settled(layer)' <=> /\ robot'[layer] = <<>>
                          /\ FrontRow(layer)' = FirstRow(layer)
                          /\ BackRow(layer)' = SecondRow(layer)
  BY <1>3 DEF Settled
<1>7. Arrival(layer)' <=>
        \/ /\ robot'[layer] = OnRobot(layer)
           /\ FrontRow(layer)' = NoRow /\ BackRow(layer)' = NoRow
        \/ /\ robot'[layer] = Tail(OnRobot(layer))
           /\ FrontRow(layer)' = NoRow /\ BackRow(layer)' = FirstRow(layer)
        \/ /\ robot'[layer] = Tail(OnRobot(layer))
           /\ FrontRow(layer)' = FirstRow(layer) /\ BackRow(layer)' = NoRow
        \/ Settled(layer)'
  BY <1>3 DEF Arrival
<1>8. CASE /\ robot[layer] = OnRobot(layer)
           /\ FrontRow(layer) = NoRow /\ BackRow(layer) = NoRow
  <2>1. /\ FrontRow(layer)' = NoRow /\ BackRow(layer)' = FirstRow(layer)
        /\ robot'[layer] = Tail(OnRobot(layer))
    BY <1>2, <1>5, <1>8
  <2> QED
    BY <1>4, <1>7, <1>8, <2>1 DEF Settled
<1>9. CASE /\ robot[layer] = Tail(OnRobot(layer))
           /\ FrontRow(layer) = NoRow /\ BackRow(layer) = FirstRow(layer)
  <2>1. /\ FrontRow(layer)' = FirstRow(layer) /\ BackRow(layer)' = NoRow
        /\ robot'[layer] = Tail(OnRobot(layer))
    BY <1>2, <1>4, <1>9
  <2> QED
    BY <1>4, <1>7, <1>9, <2>1 DEF Settled
<1>10. CASE /\ robot[layer] = Tail(OnRobot(layer)) /\ Both(layer)
            /\ FrontRow(layer) = FirstRow(layer) /\ BackRow(layer) = NoRow
  <2>1. /\ FrontRow(layer)' = FirstRow(layer) /\ BackRow(layer)' = SecondRow(layer)
        /\ robot'[layer] = <<>>
    <3>1. FrontRow(layer) # NoRow /\ BackRow(layer) = NoRow
      BY <1>4, <1>10
    <3>2. /\ FrontRow(layer)' = FrontRow(layer) /\ BackRow(layer)' = Head(robot[layer])
          /\ robot'[layer] = Tail(robot[layer])
      BY <1>2, <3>1
    <3> QED
      BY <1>5, <1>10, <3>2
  <2> QED
    BY <1>4, <1>5, <1>6, <1>7, <1>10, <2>1 DEF Settled
<1>11. CASE /\ robot[layer] = Tail(OnRobot(layer)) /\ ~Both(layer)
            /\ FrontRow(layer) = FirstRow(layer)
  BY <1>2, <1>4, <1>5, <1>11
<1>12. CASE Settled(layer)
  BY <1>2, <1>4, <1>12 DEF Settled
<1> QED
  BY <1>8, <1>9, <1>10, <1>11, <1>12 DEF Arrival

(* What the sensors tell of a layer on which the boxes come in. *)
LEMMA SensorsTell ==
  ASSUME task \in Cases, NEW layer \in FreshLayers, Arrival(layer)
  PROVE  /\ FrontRow(layer) # NoRow => FrontRow(layer) = FirstRow(layer)
         /\ FrontRow(layer) # NoRow /\ BackRow(layer) # NoRow => Settled(layer)
         /\ ~Both(layer) /\ FrontRow(layer) = FirstRow(layer) => Settled(layer)
         /\ FrontRow(layer) = FirstRow(layer) => FrontRow(layer) # NoRow
<1>1. layer \in Layer
  BY GoodsType, FreshType
<1>2. FirstRow(layer) # NoRow /\ (~Both(layer) => SecondRow(layer) = NoRow)
  BY <1>1, RobotRows, FreshType
<1>3. ~Both(layer) => Tail(OnRobot(layer)) = <<>>
  BY SmallSequences DEF OnRobot
<1> QED
  BY <1>2, <1>3 DEF Arrival, Settled

(* What depends only on the request, the robot, the shelf and the polled status. *)
LEMMA OutsideSame ==
  ASSUME Outside
  PROVE  /\ \A layer : /\ FrontRow(layer)' = FrontRow(layer)
                       /\ BackRow(layer)' = BackRow(layer)
                       /\ Settled(layer)' <=> Settled(layer)
                       /\ Arrival(layer)' <=> Arrival(layer)
         /\ \A loc : InGoods(loc)' <=> InGoods(loc)
         /\ GoodsLayers' = GoodsLayers /\ FreshLayers' = FreshLayers /\ FrontThenBack' = FrontThenBack
         /\ PollInv' <=> PollInv
<1>1. UNCHANGED <<task, robot, shelf, polled>>
  BY DEF Outside
<1>2. /\ GoodsLayers' = GoodsLayers /\ FreshLayers' = FreshLayers /\ FrontThenBack' = FrontThenBack
      /\ \A layer : /\ LevelAt(layer)' = LevelAt(layer)
                    /\ FirstRow(layer)' = FirstRow(layer)
                    /\ SecondRow(layer)' = SecondRow(layer)
                    /\ OnRobot(layer)' = OnRobot(layer)
  BY <1>1, SameTask
<1>3. \A layer : FrontRow(layer)' = FrontRow(layer) /\ BackRow(layer)' = BackRow(layer)
  BY <1>1, <1>2 DEF FrontRow, BackRow
<1>4. \A layer : Settled(layer)' <=> Settled(layer)
  BY <1>1, <1>2, <1>3 DEF Settled
<1>5. \A layer : Arrival(layer)' <=> Arrival(layer)
  BY <1>1, <1>2, <1>3, <1>4 DEF Arrival
<1>6. \A loc : InGoods(loc)' <=> InGoods(loc)
  BY <1>1, <1>2 DEF InGoods
<1>7. PollInv' <=> PollInv
  BY <1>1, <1>2, <1>3, <1>4 DEF PollInv
<1> QED
  BY <1>2, <1>3, <1>4, <1>5, <1>6, <1>7

LEMMA ConveyorInit ==
  ASSUME Init
  PROVE  ConveyorInv /\ PollInv /\ LookInv
<1>1. task \in Cases /\ shelf = task.stock
  BY DEF Init
<1>2. ASSUME NEW layer \in FreshLayers
      PROVE  FrontRow(layer) = NoRow /\ BackRow(layer) = NoRow
  <2>1. layer \in Layer
    BY <1>1, GoodsType, FreshType
  <2>2. \A p \in Position : shelf[Slot(LevelAt(layer), p)] = <<>>
    <3> SUFFICES ASSUME NEW p \in Position PROVE shelf[Slot(LevelAt(layer), p)] = <<>>
      OBVIOUS
    <3>1. Slot(LevelAt(layer), p) \in Location /\ InFresh(Slot(LevelAt(layer), p))
      BY <1>1, <1>2, <2>1, SlotFacts DEF InFresh
    <3> QED
      BY <1>1, <3>1, FreshType
  <2> QED
    BY <2>2 DEF FrontRow, BackRow, NoRow, Position
<1>3. ASSUME NEW layer \in FreshLayers
      PROVE  Arrival(layer)
  <2>1. layer \in Layer
    BY <1>1, GoodsType, FreshType
  <2>2. robot[layer] = OnRobot(layer)
    BY <1>1, <2>1, RobotRows, FreshType DEF Init
  <2> QED
    BY <1>2, <2>2 DEF Arrival
<1>4. \A layer \in FreshLayers : layer \notin polled.front
  BY <1>2, RowsSeen DEF Init, Seen
<1>5. pc = "place" /\ k = 1 /\ no_box = {} /\ placing = FALSE
  BY DEF Init
<1> QED
  BY <1>1, <1>3, <1>4, <1>5 DEF ConveyorInv, PollInv, LookInv

(* The parts of the invariants that only robot, shelf and request decide. *)
LEMMA ArrivalsStay ==
  ASSUME ConveyorInv, Outside
  PROVE  /\ \A loc \in Location : ~InGoods(loc)' => shelf'[loc] = task'.stock[loc]
         /\ \A layer \in FreshLayers' : Arrival(layer)'
  BY OutsideSame DEF ConveyorInv, Outside

LEMMA ConveyorInvStep ==
  ASSUME TypeInv, ConveyorInv, [Next]_vars
  PROVE  ConveyorInv'
<1>1. CASE BuildPlacements
  <2>1. Outside /\ pc' \in {"skip", "failed"} /\ k' = 1 /\ no_box' = no_box /\ placing' = placing
        /\ pc = "place"
    BY <1>1 DEF BuildPlacements, Goto, Plant
  <2>2. {l \in Layer : l < 1} = {}
    BY DEF Layer
  <2> QED
    BY <2>1, <2>2, ArrivalsStay, OutsideSame DEF ConveyorInv
<1>2. CASE SkipLayer
  <2>1. /\ Outside /\ pc = "skip" /\ pc' = pc /\ k' = k + 1 /\ k \in Layer /\ placing' = placing
        /\ no_box' = IF k \in GoodsLayers THEN no_box ELSE no_box \cup {k}
    BY <1>2 DEF SkipLayer, Plant
  <2>2. {l \in Layer : l < k + 1} = {l \in Layer : l < k} \cup {k}
    BY <2>1 DEF Layer
  <2>3. no_box' = {l \in Layer : l < k + 1} \ GoodsLayers
    BY <2>1, <2>2 DEF ConveyorInv
  <2> QED
    BY <2>1, <2>3, ArrivalsStay, OutsideSame DEF ConveyorInv
<1>3. CASE CommandPlace
  <2>1. /\ Outside /\ pc = "skip" /\ pc' = "await" /\ k \notin Layer /\ no_box' = no_box
    BY <1>3 DEF CommandPlace, Goto, Plant
  <2>2. \A l \in Layer : l < k
    BY <2>1 DEF TypeInv, TypeOK, Layer
  <2>3. no_box = Layer \ GoodsLayers
    BY <2>1, <2>2 DEF ConveyorInv
  <2> QED
    BY <2>1, <2>3, ArrivalsStay, OutsideSame DEF ConveyorInv
<1>4. CASE NothingToPlace \/ Abandon
  <2>1. Outside /\ pc' \in {"deliver", "failed"} /\ no_box' = no_box /\ placing' = placing
    BY <1>4 DEF NothingToPlace, Abandon, Goto, Plant
  <2> QED
    BY <2>1, ArrivalsStay, OutsideSame DEF ConveyorInv
<1>5. CASE LookAtSensor \/ BoxesArrived
  <2>1. Outside /\ pc' \in {"await", "write"} /\ no_box' = no_box /\ placing' = placing
    BY <1>5 DEF LookAtSensor, BoxesArrived, Goto
  <2> QED
    BY <2>1, ArrivalsStay, OutsideSame DEF ConveyorInv
<1>6. CASE WritePlacement \/ PlacementsWritten \/ Deliver
  <2>1. /\ Outside /\ pc' \in {"write", "failed", "deliver", "done"}
        /\ no_box' = no_box /\ placing' = placing
    BY <1>6 DEF WritePlacement, PlacementsWritten, Deliver, Goto, Plant
  <2> QED
    BY <2>1, ArrivalsStay, OutsideSame DEF ConveyorInv
<1>7. ASSUME NEW layer \in Layer, ConveyorRuns(layer)
      PROVE  ConveyorInv'
  <2>1. /\ UNCHANGED <<task, pc, k, no_box, placing>> /\ placing /\ layer \notin no_box
        /\ \A loc \in Location :
             ~(loc[1] = task.station /\ loc[2] = layer) => shelf'[loc] = shelf[loc]
        /\ \A l \in Layer : l # layer =>
             FrontRow(l)' = FrontRow(l) /\ BackRow(l)' = BackRow(l) /\ robot'[l] = robot[l]
    BY <1>7, ConveyorStep
  <2>2. layer \in GoodsLayers
    BY <2>1 DEF ConveyorInv
  <2>3. /\ GoodsLayers' = GoodsLayers /\ FreshLayers' = FreshLayers
        /\ \A l : /\ FirstRow(l)' = FirstRow(l) /\ SecondRow(l)' = SecondRow(l)
                  /\ OnRobot(l)' = OnRobot(l)
    BY <2>1, SameTask
  <2>4. ASSUME NEW loc \in Location, ~InGoods(loc)
        PROVE  shelf'[loc] = task.stock[loc]
    BY <2>1, <2>2, <2>4 DEF ConveyorInv, InGoods
  <2>5. ASSUME NEW l \in FreshLayers
        PROVE  Arrival(l)'
    <3>1. CASE l = layer
      BY <1>7, <2>2, <3>1, ArrivalStep DEF ConveyorInv
    <3>2. CASE l # layer
      <4>1. l \in Layer
        BY GoodsType, FreshType DEF TypeInv, TypeOK
      <4> QED
        BY <2>1, <2>3, <3>2, <4>1 DEF ConveyorInv, Arrival, Settled
    <3> QED
      BY <3>1, <3>2
  <2>6. \A loc \in Location : InGoods(loc)' <=> InGoods(loc)
    BY <2>1, <2>3 DEF InGoods
  <2> QED
    BY <2>1, <2>3, <2>4, <2>5, <2>6 DEF ConveyorInv
<1>8. CASE Poll \/ UNCHANGED vars
  <2>1. UNCHANGED <<task, pc, k, no_box, placing, robot, shelf>>
    BY <1>8 DEF Poll, vars
  <2>2. /\ GoodsLayers' = GoodsLayers /\ FreshLayers' = FreshLayers
        /\ \A l : /\ FirstRow(l)' = FirstRow(l) /\ SecondRow(l)' = SecondRow(l)
                  /\ OnRobot(l)' = OnRobot(l) /\ LevelAt(l)' = LevelAt(l)
    BY <2>1, SameTask
  <2>3. \A l : Arrival(l)' <=> Arrival(l)
    BY <2>1, <2>2 DEF Arrival, Settled, FrontRow, BackRow
  <2> QED
    BY <2>1, <2>2, <2>3 DEF ConveyorInv, InGoods
<1> QED
  BY <1>1, <1>2, <1>3, <1>4, <1>5, <1>6, <1>7, <1>8 DEF Next, Worker, Conveyors

(* Once in its place, the first row is there, and a layer settled stays so. *)
LEMMA RowsStay ==
  ASSUME TypeInv, ConveyorInv, [Next]_vars
  PROVE  /\ GoodsLayers' = GoodsLayers /\ FreshLayers' = FreshLayers /\ FrontThenBack' = FrontThenBack
         /\ \A layer \in FreshLayers :
              /\ FirstRow(layer)' = FirstRow(layer)
              /\ FrontRow(layer) = FirstRow(layer) => FrontRow(layer)' = FirstRow(layer)
              /\ Settled(layer) => Settled(layer)'
<1>1. task' = task
  BY DEF Next, Worker, Conveyors, vars, BuildPlacements, SkipLayer, NothingToPlace,
         CommandPlace, LookAtSensor, BoxesArrived, WritePlacement, PlacementsWritten,
         Deliver, Abandon, ConveyorRuns, Poll, Plant, Outside
<1>2. /\ GoodsLayers' = GoodsLayers /\ FreshLayers' = FreshLayers /\ FrontThenBack' = FrontThenBack
      /\ \A l : /\ FirstRow(l)' = FirstRow(l) /\ SecondRow(l)' = SecondRow(l)
                /\ LevelAt(l)' = LevelAt(l)
  BY <1>1, SameTask
<1>3. ASSUME NEW l \in FreshLayers, NEW c \in Layer, ConveyorRuns(c)
      PROVE  /\ FrontRow(l) = FirstRow(l) => FrontRow(l)' = FirstRow(l)
             /\ Settled(l) => Settled(l)'
  <2>1. CASE l = c
    BY <1>3, <2>1, ArrivalStep DEF ConveyorInv
  <2>2. CASE l # c
    <3>1. l \in Layer
      BY GoodsType, FreshType DEF TypeInv, TypeOK
    <3>2. FrontRow(l)' = FrontRow(l) /\ BackRow(l)' = BackRow(l) /\ robot'[l] = robot[l]
      BY <1>3, <2>2, <3>1, ConveyorStep
    <3> QED
      BY <1>2, <3>2 DEF Settled
  <2> QED
    BY <2>1, <2>2
<1>4. ASSUME UNCHANGED <<robot, shelf>>, NEW l \in FreshLayers
      PROVE  /\ FrontRow(l)' = FrontRow(l)
             /\ Settled(l) => Settled(l)'
  BY <1>2, <1>4 DEF Settled, FrontRow, BackRow
<1>5. UNCHANGED <<robot, shelf>> \/ \E c \in Layer : ConveyorRuns(c)
  BY DEF Next, Worker, Conveyors, vars, BuildPlacements, SkipLayer, NothingToPlace,
         CommandPlace, LookAtSensor, BoxesArrived, WritePlacement, PlacementsWritten,
         Deliver, Abandon, Poll, Plant, Outside
<1> QED
  BY <1>2, <1>3, <1>4, <1>5

LEMMA PollInvStep ==
  ASSUME TypeInv, ConveyorInv, PollInv, [Next]_vars
  PROVE  PollInv'
<1>1. CASE Poll
  <2>1. task \in Cases /\ polled' = Seen /\ UNCHANGED <<task, robot, shelf>>
    BY <1>1 DEF Poll, TypeInv, TypeOK
  <2>2. /\ GoodsLayers' = GoodsLayers /\ FreshLayers' = FreshLayers
        /\ \A l : /\ FirstRow(l)' = FirstRow(l) /\ SecondRow(l)' = SecondRow(l)
                  /\ LevelAt(l)' = LevelAt(l)
    BY <2>1, SameTask
  <2>3. \A l : FrontRow(l)' = FrontRow(l) /\ (Settled(l)' <=> Settled(l))
    BY <2>1, <2>2 DEF FrontRow, BackRow, Settled
  <2>4. \A l \in Layer : /\ l \in polled'.front <=> FrontRow(l) # NoRow
                         /\ l \in polled'.back <=> BackRow(l) # NoRow
    BY <2>1, RowsSeen DEF Seen
  <2>5. ASSUME NEW l \in FreshLayers
        PROVE  /\ l \in polled'.front => FrontRow(l) = FirstRow(l)
               /\ l \in polled'.front /\ l \in polled'.back => Settled(l)
    <3>1. l \in Layer
      BY <2>1, GoodsType, FreshType
    <3> QED
      BY <2>1, <2>4, <3>1, SensorsTell DEF ConveyorInv
  <2> QED
    BY <2>2, <2>3, <2>5 DEF PollInv
<1>2. CASE ~Poll
  <2>1. polled' = polled
    BY <1>2 DEF Next, Worker, Conveyors, vars, BuildPlacements, SkipLayer, NothingToPlace,
         CommandPlace, LookAtSensor, BoxesArrived, WritePlacement, PlacementsWritten,
         Deliver, Abandon, ConveyorRuns, Plant, Outside
  <2> QED
    BY <2>1, RowsStay DEF PollInv
<1> QED
  BY <1>1, <1>2

(* When all looks found their sensor triggered, all boxes are where they are to *)
(* stand.                                                                       *)
LEMMA AllLookedAt ==
  ASSUME TypeInv, ConveyorInv, PollInv, LookInv,
         pc = "await", triggered, k > Len(FrontThenBack)
  PROVE  \A layer \in FreshLayers : Settled(layer)
<1> SUFFICES ASSUME NEW layer \in FreshLayers PROVE Settled(layer)
  OBVIOUS
<1>1. task \in Cases /\ k \in Nat
  BY DEF TypeInv, TypeOK
<1>2. FrontThenBack \in Seq(Sensor) /\ Len(FrontThenBack) \in Nat
  BY <1>1, LooksFacts, LenProperties
<1>3. \A j \in 1..Len(FrontThenBack) : j < k
  BY <1>1, <1>2
<1>4. CASE Both(layer)
  <2>1. PICK j \in 1..Len(FrontThenBack) : FrontThenBack[j] = <<layer, "back">>
    BY <1>1, <1>4, LooksFacts, FreshType
  <2> QED
    BY <1>3, <2>1 DEF LookInv
<1>5. CASE ~Both(layer)
  <2>1. PICK j \in 1..Len(FrontThenBack) : FrontThenBack[j] = <<layer, "front">>
    BY <1>1, LooksFacts, FreshType
  <2>2. layer \in polled.front
    BY <1>3, <2>1 DEF LookInv
  <2>3. FrontRow(layer) = FirstRow(layer) /\ Arrival(layer)
    BY <2>2 DEF PollInv, ConveyorInv
  <2> QED
    BY <1>1, <1>5, <2>3, SensorsTell
<1> QED
  BY <1>4, <1>5

LEMMA LookInvStep ==
  ASSUME TypeInv, ConveyorInv, PollInv, LookInv, [Next]_vars
  PROVE  LookInv'
<1>1. /\ GoodsLayers' = GoodsLayers /\ FreshLayers' = FreshLayers /\ FrontThenBack' = FrontThenBack
      /\ \A layer \in FreshLayers : Settled(layer) => Settled(layer)'
  BY RowsStay
<1>2. task \in Cases /\ k \in Nat \ {0} /\ triggered \in BOOLEAN
  BY DEF TypeInv, TypeOK
<1>3. CASE BuildPlacements \/ SkipLayer \/ Abandon
  <2>1. pc' \in {"skip", "failed"}
    BY <1>3 DEF BuildPlacements, SkipLayer, Abandon, Goto, Plant
  <2> QED
    BY <2>1 DEF LookInv
<1>4. CASE NothingToPlace
  <2>1. pc' = "deliver" /\ GoodsLayers = {}
    BY <1>4 DEF NothingToPlace, Goto
  <2> QED
    BY <1>1, <2>1, <1>2, FreshType DEF LookInv, FreshLayers
<1>5. CASE CommandPlace
  <2>1. pc' = "await" /\ k' = 1
    BY <1>5 DEF CommandPlace, Goto
  <2>2. \A j \in 1..Len(FrontThenBack) : ~(j < 1)
    BY <1>2, LooksFacts, LenProperties
  <2> QED
    BY <1>1, <2>1, <2>2 DEF LookInv
<1>6. CASE LookAtSensor
  <2>1. /\ pc = "await" /\ pc' = pc /\ k' = k + 1 /\ polled' = polled
        /\ k <= Len(FrontThenBack)
        /\ triggered' = (triggered /\ FrontThenBack[k][1] \in polled[FrontThenBack[k][2]])
    BY <1>6 DEF LookAtSensor, Outside
  <2>2. ASSUME triggered', NEW layer \in FreshLayers,
               NEW j \in 1..Len(FrontThenBack), j < k + 1
        PROVE  /\ FrontThenBack[j] = <<layer, "front">> => layer \in polled.front
               /\ FrontThenBack[j] = <<layer, "back">> => Settled(layer)
    <3>1. triggered /\ FrontThenBack[k][1] \in polled[FrontThenBack[k][2]]
      BY <2>1, <2>2
    <3>2. Len(FrontThenBack) \in Nat
      BY <1>2, LooksFacts, LenProperties
    <3>3. CASE j < k
      BY <2>1, <3>1, <3>3 DEF LookInv
    <3>4. CASE ~(j < k)
      <4>1. j = k
        BY <1>2, <2>2, <3>2, <3>4
      <4>2. FrontThenBack[j] = <<layer, "front">> => layer \in polled.front
        BY <3>1, <4>1
      <4>3. ASSUME FrontThenBack[j] = <<layer, "back">>
            PROVE  Settled(layer)
        <5>1. layer \in polled.back
          BY <3>1, <4>1, <4>3
        <5>2. /\ j - 1 \in 1..Len(FrontThenBack) /\ j - 1 < k
              /\ FrontThenBack[j - 1] = <<layer, "front">>
          BY <1>2, <4>1, <4>3, LooksFacts
        <5>3. layer \in polled.front
          BY <2>1, <3>1, <5>2 DEF LookInv
        <5> QED
          BY <5>1, <5>3 DEF PollInv
      <4> QED
        BY <4>2, <4>3
    <3> QED
      BY <3>3, <3>4
  <2> QED
    BY <1>1, <2>1, <2>2 DEF LookInv
<1>7. CASE BoxesArrived
  <2>1. /\ pc = "await" /\ k > Len(FrontThenBack) /\ k' = 1
        /\ pc' = IF triggered THEN "write" ELSE "await"
    BY <1>7 DEF BoxesArrived, Goto
  <2>2. triggered => \A layer \in FreshLayers : Settled(layer)
    BY <2>1, AllLookedAt
  <2>3. \A j \in 1..Len(FrontThenBack) : ~(j < 1)
    BY <1>2, LooksFacts, LenProperties
  <2> QED
    BY <1>1, <2>1, <2>2, <2>3 DEF LookInv
<1>8. CASE WritePlacement \/ PlacementsWritten \/ Deliver
  <2>1. pc \in {"write", "deliver"} /\ pc' \in {"write", "failed", "deliver", "done"}
    BY <1>8 DEF WritePlacement, PlacementsWritten, Deliver, Goto
  <2> QED
    BY <1>1, <2>1 DEF LookInv
<1>9. ASSUME NEW c \in Layer, ConveyorRuns(c)
      PROVE  LookInv'
  <2>1. UNCHANGED <<pc, k, triggered, polled>>
    BY <1>9 DEF ConveyorRuns
  <2> QED
    BY <1>1, <2>1 DEF LookInv
<1>10. CASE Poll
  <2>1. UNCHANGED <<pc, k, triggered, task, shelf>> /\ polled' = Seen
    BY <1>10 DEF Poll
  <2>2. ASSUME NEW layer \in FreshLayers, layer \in polled.front
        PROVE  layer \in polled'.front
    <3>1. FrontRow(layer) = FirstRow(layer) /\ Arrival(layer) /\ layer \in Layer
      BY <1>2, <2>2, GoodsType, FreshType DEF PollInv, ConveyorInv
    <3>2. FrontRow(layer) # NoRow
      BY <1>2, <3>1, SensorsTell
    <3> QED
      BY <2>1, <3>1, <3>2, RowsSeen DEF Seen
  <2> QED
    BY <1>1, <2>1, <2>2 DEF LookInv
<1>11. CASE UNCHANGED vars
  <2>1. UNCHANGED <<pc, k, triggered, polled>>
    BY <1>11 DEF vars
  <2> QED
    BY <1>1, <2>1 DEF LookInv
<1> QED
  BY <1>3, <1>4, <1>5, <1>6, <1>7, <1>8, <1>9, <1>10, <1>11 DEF Next, Worker, Conveyors

-----------------------------------------------------------------------------
(* The inventory *)

(* The inventory with the first n placements entered. *)
Entered(n) == [loc \in Location |-> task.stock[loc] \o Planned(loc, n)]

(* There is room for each placement behind those before it, and the inventory   *)
(* is the stock with the placements entered so far.                             *)
StoreInv ==
  /\ pc \in {"place", "skip", "await"} => store = task.stock
  /\ pc \in {"skip", "await", "write"} =>
       \A i \in 1..Len(Placements) :
         Len(task.stock[Placements[i].loc]) + Len(Planned(Placements[i].loc, i))
           <= SLOT_CAPACITY
  /\ pc = "write" => k <= Len(Placements) + 1 /\ store = Entered(k - 1)
  /\ pc \in {"deliver", "done"} => store = Entered(Len(Placements))
  /\ pc = "failed" =>
       \/ store = task.stock
       \/ /\ store = Entered(Len(Placements))
          /\ \A layer \in FreshLayers : Settled(layer)

LEMMA EnteredNothing ==
  ASSUME task \in Cases
  PROVE  Entered(0) = task.stock
<1>1. task.stock \in [Location -> Seq(Sku)]
  BY RequestType
<1>2. \A loc \in Location : task.stock[loc] \o Planned(loc, 0) = task.stock[loc]
  BY <1>1, PlannedSteps, ConcatEmptySeq
<1> QED
  BY <1>1, <1>2 DEF Entered

(* One more placement, when there is room for it. *)
LEMMA EnteredStep ==
  ASSUME task \in Cases, NEW n \in Nat, n + 1 <= Len(Placements),
         Len(task.stock[Placements[n + 1].loc]) + Len(Planned(Placements[n + 1].loc, n + 1))
           <= SLOT_CAPACITY
  PROVE  LET p == Placements[n + 1]
         IN  /\ CanPut(Entered(n), p.loc, p.sku)
             /\ PutGoods(Entered(n), p.loc, p.sku) = Entered(n + 1)
<1> DEFINE p == Placements[n + 1]
<1>1. /\ task.stock \in [Location -> Seq(Sku)] /\ Len(Placements) \in Nat
      /\ Placements \in Seq(Entry)
  BY RequestType, PlacementsType
<1>2. p.loc \in Location /\ p.sku \in Seq(Sku)
  <2>1. p \in Entry
    BY <1>1
  <2> QED
    BY <2>1 DEF Entry
<1>3. \A loc : Planned(loc, n + 1) = Planned(loc, n) \o (IF p.loc = loc THEN p.sku ELSE <<>>)
  BY PlannedSteps
<1>4. n \in 0..Len(Placements)
  BY <1>1
<1>5. \A loc : Planned(loc, n) \in Seq(Sku)
  BY <1>4, PlannedSteps
<1> HIDE DEF p
<1>6. \A loc \in Location : task.stock[loc] \in Seq(Sku)
  BY <1>1
<1>7. /\ Planned(p.loc, n + 1) = Planned(p.loc, n) \o p.sku
      /\ \A loc : loc # p.loc => Planned(loc, n + 1) = Planned(loc, n)
  BY <1>3, <1>5, ConcatEmptySeq
<1> DEFINE a == task.stock[p.loc]
           b == Planned(p.loc, n)
           c == p.sku
<1>8. a \in Seq(Sku) /\ b \in Seq(Sku) /\ c \in Seq(Sku)
  BY <1>2, <1>5, <1>6
<1>9. Entered(n)[p.loc] = a \o b /\ Planned(p.loc, n + 1) = b \o c
  BY <1>2, <1>7 DEF Entered
<1>10. Len(a) + Len(b \o c) <= SLOT_CAPACITY
  BY <1>7 DEF p
<1> HIDE DEF a, b, c
<1>11. (a \o b) \o c = a \o (b \o c)
  BY <1>8, ConcatAssociative
<1>12. Len(a \o b) + Len(c) <= SLOT_CAPACITY
  <2>1. Len(a \o b) = Len(a) + Len(b) /\ Len(b \o c) = Len(b) + Len(c)
    BY <1>8, ConcatProperties
  <2>2. Len(a) \in Nat /\ Len(b) \in Nat /\ Len(c) \in Nat
    BY <1>8, LenProperties
  <2> QED
    BY <1>10, <2>1, <2>2 DEF SLOT_CAPACITY
<1>13. CanPut(Entered(n), p.loc, p.sku)
  BY <1>9, <1>12 DEF CanPut, c
<1>14. PutGoods(Entered(n), p.loc, p.sku) = Entered(n + 1)
  <2>1. PutGoods(Entered(n), p.loc, p.sku) = [Entered(n) EXCEPT ![p.loc] = (a \o b) \o c]
    BY <1>2, <1>9 DEF PutGoods, c
  <2>2. Entered(n + 1)[p.loc] = a \o (b \o c)
    BY <1>2, <1>9 DEF Entered, a
  <2>3. \A loc \in Location : loc # p.loc => Entered(n + 1)[loc] = Entered(n)[loc]
    BY <1>7 DEF Entered
  <2> QED
    BY <1>2, <1>11, <2>1, <2>2, <2>3 DEF Entered
<1> QED
  BY <1>13, <1>14 DEF p

LEMMA StoreInit ==
  ASSUME Init
  PROVE  StoreInv
  BY DEF Init, StoreInv

LEMMA StoreInvStep ==
  ASSUME TypeInv, ConveyorInv, PollInv, LookInv, StoreInv, [Next]_vars
  PROVE  StoreInv'
<1>1. /\ GoodsLayers' = GoodsLayers /\ FreshLayers' = FreshLayers
      /\ \A layer \in FreshLayers : Settled(layer) => Settled(layer)'
  BY RowsStay
<1>2. task \in Cases /\ k \in Nat \ {0} /\ Len(Placements) \in Nat
  BY PlacementsType DEF TypeInv, TypeOK
<1>3. task' = task
  BY DEF Next, Worker, Conveyors, vars, BuildPlacements, SkipLayer, NothingToPlace,
         CommandPlace, LookAtSensor, BoxesArrived, WritePlacement, PlacementsWritten,
         Deliver, Abandon, ConveyorRuns, Poll, Plant, Outside
<1>4. /\ Placements' = Placements
      /\ \A loc, n : Planned(loc, n)' = Planned(loc, n)
      /\ \A n : Entered(n)' = Entered(n)
  BY <1>3, SameTask DEF Entered
<1>5. CASE BuildPlacements
  <2>1. pc = "place" /\ store' = store /\ pc' = IF Fits THEN "skip" ELSE "failed"
    BY <1>5 DEF BuildPlacements, Goto
  <2>2. DOMAIN Placements = 1..Len(Placements)
    BY <1>2, PlacementsType, LenProperties
  <2>3. CASE Fits
    <3>1. \A i \in 1..Len(Placements) :
            Len(task.stock[Placements[i].loc]) + Len(Planned(Placements[i].loc, i))
              <= SLOT_CAPACITY
      BY <2>1, <2>2, <2>3 DEF StoreInv, Fits
    <3> QED
      BY <1>3, <1>4, <2>1, <2>3, <3>1 DEF StoreInv
  <2>4. CASE ~Fits
    BY <1>3, <2>1, <2>4 DEF StoreInv
  <2> QED
    BY <2>3, <2>4
<1>6. CASE SkipLayer \/ CommandPlace \/ LookAtSensor
  <2>1. pc \in {"skip", "await"} /\ pc' \in {"skip", "await"} /\ store' = store
    BY <1>6 DEF SkipLayer, CommandPlace, LookAtSensor, Goto
  <2> QED
    BY <1>3, <1>4, <2>1 DEF StoreInv
<1>7. CASE NothingToPlace
  <2>1. pc = "skip" /\ pc' = "deliver" /\ store' = store /\ GoodsLayers = {}
    BY <1>7 DEF NothingToPlace, Goto
  <2>2. Len(Placements) = 0
    <3> SUFFICES ASSUME Len(Placements) # 0 PROVE FALSE
      OBVIOUS
    <3>1. Len(Entries) \in Nat \ {0} /\ \A i \in 1..Len(Entries) : Entries[i] \in Goods
      BY <1>2, PlacementsType
    <3>2. Entries[1] \in Goods
      BY <3>1
    <3> QED
      BY <1>2, <2>1, <3>2, GoodsType
  <2> QED
    BY <1>2, <1>4, <2>1, <2>2, EnteredNothing DEF StoreInv
<1>8. CASE BoxesArrived
  <2>1. pc = "await" /\ pc' \in {"write", "await"} /\ k' = 1 /\ store' = store
    BY <1>8 DEF BoxesArrived, Goto
  <2>2. 1 <= Len(Placements) + 1 /\ 1 - 1 = 0
    BY <1>2
  <2> QED
    BY <1>2, <1>3, <1>4, <2>1, <2>2, EnteredNothing DEF StoreInv
<1>9. CASE WritePlacement
  <2> DEFINE n == k - 1
  <2>1. /\ pc = "write" /\ k <= Len(Placements) /\ n \in Nat /\ n + 1 = k
        /\ n + 1 <= Len(Placements) /\ k \in 1..Len(Placements) /\ (k + 1) - 1 = k
        /\ k + 1 <= Len(Placements) + 1
    BY <1>2, <1>9 DEF WritePlacement
  <2>2. /\ store = Entered(n)
        /\ Len(task.stock[Placements[k].loc]) + Len(Planned(Placements[k].loc, k))
             <= SLOT_CAPACITY
    BY <2>1 DEF StoreInv
  <2> HIDE DEF n
  <2>3. /\ CanPut(store, Placements[k].loc, Placements[k].sku)
        /\ PutGoods(store, Placements[k].loc, Placements[k].sku) = Entered(k)
    BY <1>2, <2>1, <2>2, EnteredStep
  <2>4. store' = Entered(k) /\ k' = k + 1 /\ pc' = "write"
    BY <1>9, <2>1, <2>3 DEF WritePlacement
  <2> QED
    BY <1>3, <1>4, <2>1, <2>4 DEF StoreInv
<1>10. CASE PlacementsWritten
  <2>1. pc = "write" /\ pc' = "deliver" /\ store' = store /\ k > Len(Placements)
    BY <1>10 DEF PlacementsWritten, Goto
  <2>2. k - 1 = Len(Placements)
    BY <1>2, <2>1 DEF StoreInv
  <2> QED
    BY <1>4, <2>1, <2>2 DEF StoreInv
<1>11. CASE Deliver
  <2>1. pc = "deliver" /\ pc' = "done" /\ store' = store
    BY <1>11 DEF Deliver, Goto
  <2> QED
    BY <1>4, <2>1 DEF StoreInv
<1>12. CASE Abandon
  <2>1. pc \in {"skip", "await", "deliver"} /\ pc' = "failed" /\ store' = store
    BY <1>12 DEF Abandon, Goto
  <2>2. \/ store = task.stock
        \/ /\ store = Entered(Len(Placements))
           /\ \A layer \in FreshLayers : Settled(layer)
    BY <2>1 DEF StoreInv, LookInv
  <2> QED
    BY <1>1, <1>3, <1>4, <2>1, <2>2 DEF StoreInv
<1>13. CASE Conveyors \/ Poll \/ UNCHANGED vars
  <2>1. UNCHANGED <<pc, k, store>>
    BY <1>13 DEF Conveyors, ConveyorRuns, Poll, vars
  <2> QED
    BY <1>1, <1>3, <1>4, <2>1 DEF StoreInv
<1> QED
  BY <1>5, <1>6, <1>7, <1>8, <1>9, <1>10, <1>11, <1>12, <1>13 DEF Next, Worker

-----------------------------------------------------------------------------
(* The boxes of a layer *)

RowBoxes(row) == ToSet(row[1]) \cup ToSet(row[2])

(* The boxes a layer had, and those brought for it. *)
Due(layer) == OnLayer(task.stock, layer) \cup RowBoxes(FirstRow(layer))
                \cup RowBoxes(SecondRow(layer))

(* On a layer with goods all of them stand on the layer or wait on the robot,   *)
(* wherever the conveyor has moved them.                                        *)
KeptInv ==
  \A layer \in GoodsLayers : OnLayer(shelf, layer) \cup Waiting(layer) = Due(layer)

LEMMA LayerByRows ==
  ASSUME NEW s, NEW layer
  PROVE  OnLayer(s, layer)
           = RowBoxes(<<s[Slot(LevelAt(layer), 1)], s[Slot(LevelAt(layer), 2)]>>)
               \cup RowBoxes(<<s[Slot(LevelAt(layer), 3)], s[Slot(LevelAt(layer), 4)]>>)
<1> DEFINE B(p) == ToSet(s[Slot(LevelAt(layer), p)])
<1>1. OnLayer(s, layer) = UNION {B(p) : p \in Position}
  BY DEF OnLayer
<1>2. /\ RowBoxes(<<s[Slot(LevelAt(layer), 1)], s[Slot(LevelAt(layer), 2)]>>) = B(1) \cup B(2)
      /\ RowBoxes(<<s[Slot(LevelAt(layer), 3)], s[Slot(LevelAt(layer), 4)]>>) = B(3) \cup B(4)
  BY DEF RowBoxes
<1> HIDE DEF B
<1>3. UNION {B(p) : p \in Position} = B(1) \cup B(2) \cup B(3) \cup B(4)
  <2>1. Position = {1, 2, 3, 4}
    BY DEF Position
  <2> QED
    BY <2>1
<1> QED
  BY <1>1, <1>2, <1>3

LEMMA WaitingRows ==
  ASSUME NEW layer
  PROVE  Waiting(layer) = UNION {RowBoxes(row) : row \in ToSet(robot[layer])}
  BY DEF Waiting, RowBoxes

LEMMA KeptInit ==
  ASSUME Init
  PROVE  KeptInv
<1> SUFFICES ASSUME NEW layer \in GoodsLayers
             PROVE  OnLayer(shelf, layer) \cup Waiting(layer) = Due(layer)
  BY DEF KeptInv
<1>1. task \in Cases /\ shelf = task.stock /\ layer \in Layer
  BY GoodsType DEF Init
<1>2. robot[layer] = OnRobot(layer) /\ (~Both(layer) => SecondRow(layer) = NoRow)
  BY <1>1, RobotRows DEF Init
<1>3. \A a, b : ToSet(<<a, b>>) = {a, b} /\ ToSet(<<a>>) = {a}
  BY DEF ToSet
<1>4. RowBoxes(NoRow) = {}
  <2>1. ToSet(<<>>) = {}
    BY DEF ToSet
  <2> QED
    BY <2>1 DEF RowBoxes, NoRow
<1>5. CASE Both(layer)
  <2>1. ToSet(robot[layer]) = {FirstRow(layer), SecondRow(layer)}
    BY <1>2, <1>3, <1>5 DEF OnRobot
  <2>2. Waiting(layer) = RowBoxes(FirstRow(layer)) \cup RowBoxes(SecondRow(layer))
    BY <2>1, WaitingRows
  <2> QED
    BY <1>1, <2>2 DEF Due
<1>6. CASE ~Both(layer)
  <2>1. ToSet(robot[layer]) = {FirstRow(layer)}
    BY <1>2, <1>3, <1>6 DEF OnRobot
  <2>2. Waiting(layer) = RowBoxes(FirstRow(layer))
    BY <2>1, WaitingRows
  <2> QED
    BY <1>1, <1>2, <1>4, <1>6, <2>2 DEF Due
<1> QED
  BY <1>5, <1>6

LEMMA KeptInvStep ==
  ASSUME TypeInv, KeptInv, [Next]_vars
  PROVE  KeptInv'
<1>1. /\ task' = task /\ task \in Cases /\ robot \in [Layer -> Seq(Seq(Sku) \X Seq(Sku))]
  BY DEF Next, Worker, Conveyors, vars, BuildPlacements, SkipLayer, NothingToPlace,
         CommandPlace, LookAtSensor, BoxesArrived, WritePlacement, PlacementsWritten,
         Deliver, Abandon, ConveyorRuns, Poll, Plant, Outside, TypeInv, TypeOK
<1>2. /\ GoodsLayers' = GoodsLayers
      /\ \A l : /\ FirstRow(l)' = FirstRow(l) /\ SecondRow(l)' = SecondRow(l)
                /\ LevelAt(l)' = LevelAt(l)
  BY <1>1, SameTask
<1>3. \A l : Due(l)' = Due(l)
  BY <1>1, <1>2 DEF Due, OnLayer
<1>4. UNCHANGED <<robot, shelf>> \/ \E c \in Layer : ConveyorRuns(c)
  BY DEF Next, Worker, Conveyors, vars, BuildPlacements, SkipLayer, NothingToPlace,
         CommandPlace, LookAtSensor, BoxesArrived, WritePlacement, PlacementsWritten,
         Deliver, Abandon, Poll, Plant, Outside
<1>5. CASE UNCHANGED <<robot, shelf>>
  <2>1. \A l : OnLayer(shelf, l)' = OnLayer(shelf, l) /\ Waiting(l)' = Waiting(l)
    BY <1>2, <1>5 DEF OnLayer, Waiting
  <2> QED
    BY <1>2, <1>3, <2>1 DEF KeptInv
<1>6. \A l : OnLayer(shelf, l) = RowBoxes(FrontRow(l)) \cup RowBoxes(BackRow(l))
  BY LayerByRows DEF FrontRow, BackRow
<1>7. \A l : OnLayer(shelf, l)' = RowBoxes(FrontRow(l)') \cup RowBoxes(BackRow(l)')
  <2>1. \A l : OnLayer(shelf, l)' = OnLayer(shelf', l)
    BY <1>2 DEF OnLayer
  <2>2. \A l : FrontRow(l)' = <<shelf'[Slot(LevelAt(l), 1)], shelf'[Slot(LevelAt(l), 2)]>>
               /\ BackRow(l)' = <<shelf'[Slot(LevelAt(l), 3)], shelf'[Slot(LevelAt(l), 4)]>>
    BY <1>2 DEF FrontRow, BackRow
  <2> QED
    BY <2>1, <2>2, LayerByRows
<1>8. ASSUME NEW c \in Layer, ConveyorRuns(c), NEW l \in GoodsLayers
      PROVE  (OnLayer(shelf, l) \cup Waiting(l))' = OnLayer(shelf, l) \cup Waiting(l)
  <2>0. l \in Layer
    BY <1>1, GoodsType
  <2>1. /\ l # c => /\ FrontRow(l)' = FrontRow(l) /\ BackRow(l)' = BackRow(l)
                    /\ robot'[l] = robot[l]
        /\ \/ /\ FrontRow(c) = NoRow /\ BackRow(c) # NoRow
              /\ FrontRow(c)' = BackRow(c) /\ BackRow(c)' = NoRow
              /\ robot'[c] = robot[c]
           \/ /\ robot[c] # <<>> /\ BackRow(c) = NoRow
              /\ FrontRow(c)' = FrontRow(c)
              /\ BackRow(c)' = Head(robot[c])
              /\ robot'[c] = Tail(robot[c])
    BY <1>8, <2>0, ConveyorStep
  <2>2. /\ Waiting(l) = UNION {RowBoxes(row) : row \in ToSet(robot[l])}
        /\ Waiting(l)' = UNION {RowBoxes(row) : row \in ToSet(robot'[l])}
    BY DEF Waiting, RowBoxes
  <2>3. CASE robot'[l] = robot[l] /\ FrontRow(l)' = FrontRow(l) /\ BackRow(l)' = BackRow(l)
    BY <1>6, <1>7, <2>2, <2>3
  <2>4. CASE /\ robot'[l] = robot[l] /\ FrontRow(l) = NoRow
             /\ FrontRow(l)' = BackRow(l) /\ BackRow(l)' = NoRow
    BY <1>6, <1>7, <2>2, <2>4
  <2>5. CASE /\ robot[l] # <<>> /\ BackRow(l) = NoRow /\ FrontRow(l)' = FrontRow(l)
             /\ BackRow(l)' = Head(robot[l]) /\ robot'[l] = Tail(robot[l])
    <3>1. ToSet(robot[l]) = {Head(robot[l])} \cup ToSet(Tail(robot[l]))
      <4>1. robot[l] \in Seq(Seq(Sku) \X Seq(Sku)) /\ Tail(robot[l]) \in Seq(Seq(Sku) \X Seq(Sku))
        BY <1>1, <2>0, <2>5, RangeTail
      <4> QED
        BY <2>5, <4>1, RangeHeadTail, SetOfRange
    <3>2. Waiting(l) = RowBoxes(Head(robot[l])) \cup Waiting(l)'
      BY <2>2, <2>5, <3>1
    <3>3. RowBoxes(NoRow) = {}
      <4>1. ToSet(<<>>) = {}
        BY DEF ToSet
      <4> QED
        BY <4>1 DEF RowBoxes, NoRow
    <3> QED
      BY <1>6, <1>7, <2>5, <3>2, <3>3
  <2> QED
    BY <2>1, <2>3, <2>4, <2>5
<1>9. CASE \E c \in Layer : ConveyorRuns(c)
  BY <1>2, <1>3, <1>8, <1>9 DEF KeptInv
<1> QED
  BY <1>4, <1>5, <1>9

(* An inventory with all placements entered has on a layer what was due. *)
LEMMA EnteredOnLayer ==
  ASSUME task \in Cases, NEW layer \in Layer, NEW s,
         \A loc \in Location : s[loc] = task.stock[loc] \o Brought(loc)
  PROVE  OnLayer(s, layer) = Due(layer)
<1> DEFINE S(p) == Slot(LevelAt(layer), p)
<1>1. ASSUME NEW p \in Position
      PROVE  ToSet(s[S(p)]) = ToSet(task.stock[S(p)]) \cup ToSet(Brought(S(p)))
  <2>1. S(p) \in Location
    BY SlotFacts
  <2>2. PICK x, y : x = task.stock[S(p)] /\ y = Brought(S(p)) /\ s[S(p)] = x \o y
    BY <2>1
  <2>3. x \in Seq(Sku) /\ y \in Seq(Sku)
    BY <2>1, <2>2, RequestType, BroughtType
  <2>4. Range(x \o y) = Range(x) \cup Range(y)
    BY <2>3, RangeConcat
  <2>5. ToSet(x \o y) = ToSet(x) \cup ToSet(y)
    BY <2>4, SetOfRange
  <2> QED
    BY <2>2, <2>5
<1>2. /\ OnLayer(s, layer) = RowBoxes(<<s[S(1)], s[S(2)]>>) \cup RowBoxes(<<s[S(3)], s[S(4)]>>)
      /\ OnLayer(task.stock, layer)
           = RowBoxes(<<task.stock[S(1)], task.stock[S(2)]>>)
               \cup RowBoxes(<<task.stock[S(3)], task.stock[S(4)]>>)
      /\ FirstRow(layer) = <<Brought(S(1)), Brought(S(2))>>
      /\ SecondRow(layer) = <<Brought(S(3)), Brought(S(4))>>
  BY LayerByRows DEF FirstRow, SecondRow
<1>3. 1 \in Position /\ 2 \in Position /\ 3 \in Position /\ 4 \in Position
  BY DEF Position
<1>4. \A a, b : RowBoxes(<<a, b>>) = ToSet(a) \cup ToSet(b)
  BY DEF RowBoxes
<1> HIDE DEF S
<1>5. /\ OnLayer(s, layer) = ToSet(s[S(1)]) \cup ToSet(s[S(2)]) \cup ToSet(s[S(3)]) \cup ToSet(s[S(4)])
      /\ OnLayer(task.stock, layer) = ToSet(task.stock[S(1)]) \cup ToSet(task.stock[S(2)])
                                       \cup ToSet(task.stock[S(3)]) \cup ToSet(task.stock[S(4)])
      /\ RowBoxes(FirstRow(layer)) = ToSet(Brought(S(1))) \cup ToSet(Brought(S(2)))
      /\ RowBoxes(SecondRow(layer)) = ToSet(Brought(S(3))) \cup ToSet(Brought(S(4)))
  BY <1>2, <1>4
<1> QED
  BY <1>1, <1>3, <1>5 DEF Due

-----------------------------------------------------------------------------
(* The properties *)

PutawayInv == TypeInv /\ ConveyorInv /\ PollInv /\ LookInv /\ StoreInv /\ KeptInv

LEMMA PutawayInvInit ==
  ASSUME Init
  PROVE  PutawayInv
  BY TypeInit, ConveyorInit, StoreInit, KeptInit DEF PutawayInv

LEMMA PutawayInvStep ==
  ASSUME PutawayInv, [Next]_vars
  PROVE  PutawayInv'
  BY TypeStep, ConveyorInvStep, PollInvStep, LookInvStep, StoreInvStep, KeptInvStep
     DEF PutawayInv

LEMMA PutawayInvariant == Spec => []PutawayInv
<1>1. Init => PutawayInv
  BY PutawayInvInit
<1>2. PutawayInv /\ [Next]_vars => PutawayInv'
  BY PutawayInvStep
<1> QED
  BY <1>1, <1>2, PTL DEF Spec

(* Where all fresh layers are settled each of their slots, and each slot that    *)
(* no boxes are brought to, holds what it was to receive.                       *)
LEMMA SettledShelf ==
  ASSUME TypeInv, ConveyorInv, \A layer \in FreshLayers : Settled(layer),
         NEW loc \in Location, ~Restocked(loc)
  PROVE  shelf[loc] = task.stock[loc] \o Brought(loc)
<1>1. task \in Cases /\ task.stock[loc] \in Seq(Sku)
  BY RequestType DEF TypeInv, TypeOK
<1>2. CASE InFresh(loc)
  <2>1. loc[3] \in Position /\ loc = Slot(LevelAt(loc[2]), loc[3]) /\ loc[2] \in FreshLayers
    BY <1>1, <1>2, SlotOfLocation DEF InFresh
  <2>2. FrontRow(loc[2]) = FirstRow(loc[2]) /\ BackRow(loc[2]) = SecondRow(loc[2])
    BY <2>1 DEF Settled
  <2>3. \A p \in Position :
          shelf[Slot(LevelAt(loc[2]), p)] = Brought(Slot(LevelAt(loc[2]), p))
    BY <2>2 DEF FrontRow, BackRow, FirstRow, SecondRow, Position
  <2>4. shelf[loc] = Brought(loc)
    BY <2>1, <2>3
  <2>5. task.stock[loc] = <<>> /\ Brought(loc) \in Seq(Sku)
    BY <1>1, <1>2, FreshType, BroughtType
  <2> QED
    BY <2>4, <2>5, ConcatEmptySeq
<1>3. CASE ~InGoods(loc)
  <2>1. ASSUME NEW i \in 1..Len(Placements)
        PROVE  Placements[i].loc # loc
    <3>1. /\ Placements[i].loc[1] = task.station
          /\ Placements[i].loc[2] = Entries[i].loc[2] /\ Entries[i] \in Goods
      BY <1>1, PlacementsType
    <3> QED
      BY <1>1, <1>3, <3>1, GoodsType DEF InGoods
  <2>2. Brought(loc) = <<>>
    BY <1>1, <2>1, BroughtType
  <2>3. shelf[loc] = task.stock[loc]
    BY <1>3 DEF ConveyorInv
  <2> QED
    BY <1>1, <2>2, <2>3, ConcatEmptySeq
<1> QED
  BY <1>2, <1>3 DEF Restocked, InGoods, InFresh

(* The inventory with some placements entered holds what stands on the shelf.   *)
LEMMA EnteredOnShelf ==
  ASSUME TypeInv, ConveyorInv, \A layer \in FreshLayers : Settled(layer),
         NEW n \in 0..Len(Placements), NEW loc \in Location, ~Restocked(loc)
  PROVE  ToSet(Entered(n)[loc]) \subseteq ToSet(shelf[loc])
<1>1. task \in Cases /\ task.stock[loc] \in Seq(Sku)
  BY RequestType DEF TypeInv, TypeOK
<1>2. /\ Planned(loc, n) \in Seq(Sku) /\ Brought(loc) \in Seq(Sku)
      /\ Range(Planned(loc, n)) \subseteq Range(Brought(loc))
  BY <1>1, PlannedSteps, BroughtType DEF Brought
<1>3. Entered(n)[loc] = task.stock[loc] \o Planned(loc, n)
  BY DEF Entered
<1>4. shelf[loc] = task.stock[loc] \o Brought(loc)
  BY SettledShelf
<1>5. /\ Range(Entered(n)[loc]) = Range(task.stock[loc]) \cup Range(Planned(loc, n))
      /\ Range(shelf[loc]) = Range(task.stock[loc]) \cup Range(Brought(loc))
  BY <1>1, <1>2, <1>3, <1>4, RangeConcat
<1> QED
  BY <1>2, <1>5, SetOfRange

(* The inventory never runs ahead of the cabinets, for every request: an entry  *)
(* on a layer that was empty follows two looks at sensors, whatever was polled  *)
(* in between, and no other layer is touched.                                   *)
THEOREM BoxesArrivedFirstHolds ==
  Spec => []BoxesArrivedFirst
<1>1. ASSUME PutawayInv
      PROVE  BoxesArrivedFirst
  <2> USE DEF PutawayInv
  <2>1. /\ task \in Cases /\ k \in Nat \ {0} /\ Len(Placements) \in Nat
        /\ pc \in {"place", "skip", "await", "write", "deliver", "done", "failed"}
    BY <1>1, PlacementsType DEF TypeInv, TypeOK
  <2>2. CASE store = task.stock
    <3> SUFFICES ASSUME NEW loc \in Location, ~Restocked(loc)
                 PROVE  ToSet(store[loc]) \subseteq ToSet(shelf[loc])
      BY DEF BoxesArrivedFirst
    <3>1. CASE InFresh(loc)
      <4>1. store[loc] = <<>>
        BY <2>1, <2>2, <3>1, FreshType
      <4> QED
        BY <4>1, SetOfRange, RangeEmpty
    <3>2. CASE ~InGoods(loc)
      BY <1>1, <2>2, <3>2 DEF ConveyorInv
    <3> QED
      BY <3>1, <3>2 DEF Restocked, InGoods, InFresh
  <2>3. ASSUME NEW n \in 0..Len(Placements), store = Entered(n),
               \A layer \in FreshLayers : Settled(layer)
        PROVE  BoxesArrivedFirst
    BY <1>1, <2>3, EnteredOnShelf DEF BoxesArrivedFirst
  <2>4. CASE pc = "write"
    <3>1. k - 1 \in 0..Len(Placements) /\ store = Entered(k - 1)
      BY <1>1, <2>1, <2>4 DEF StoreInv
    <3> QED
      BY <1>1, <2>3, <2>4, <3>1 DEF LookInv
  <2>5. CASE pc \in {"deliver", "done"}
    <3>1. Len(Placements) \in 0..Len(Placements) /\ store = Entered(Len(Placements))
      BY <1>1, <2>1, <2>5 DEF StoreInv
    <3> QED
      BY <1>1, <2>3, <2>5, <3>1 DEF LookInv
  <2>6. CASE pc = "failed"
    <3>1. Len(Placements) \in 0..Len(Placements)
      BY <2>1
    <3> QED
      BY <1>1, <2>2, <2>3, <2>6, <3>1 DEF StoreInv
  <2>7. CASE pc \in {"place", "skip", "await"}
    BY <1>1, <2>2, <2>7 DEF StoreInv
  <2> QED
    BY <2>1, <2>4, <2>5, <2>6, <2>7
<1> QED
  BY <1>1, PutawayInvariant, PTL

(* A completed putaway leaves the inventory equal to the cabinets, for every     *)
(* request; on a layer that already held boxes, equal to what stands there or    *)
(* still waits for it on the robot.                                              *)
THEOREM StoreMatchesShelfHolds == Spec => []StoreMatchesShelf
<1>1. ASSUME PutawayInv, pc = "done"
      PROVE  /\ \A loc \in Location : ~Restocked(loc) => store[loc] = shelf[loc]
             /\ \A layer \in GoodsLayers :
                  OnLayer(store, layer) = OnLayer(shelf, layer) \cup Waiting(layer)
  <2>1. /\ store = Entered(Len(Placements)) /\ \A layer \in FreshLayers : Settled(layer)
        /\ TypeInv /\ ConveyorInv /\ KeptInv
    BY <1>1 DEF PutawayInv, StoreInv, LookInv
  <2>2. \A loc \in Location : store[loc] = task.stock[loc] \o Brought(loc)
    BY <2>1 DEF Entered, Brought
  <2>3. \A loc \in Location : ~Restocked(loc) => store[loc] = shelf[loc]
    BY <2>1, <2>2, SettledShelf
  <2>4. ASSUME NEW layer \in GoodsLayers
        PROVE  OnLayer(store, layer) = OnLayer(shelf, layer) \cup Waiting(layer)
    <3>1. task \in Cases /\ layer \in Layer
      BY <2>1, GoodsType DEF TypeInv, TypeOK
    <3>2. OnLayer(store, layer) = Due(layer)
      BY <2>2, <3>1, EnteredOnLayer
    <3> QED
      BY <2>1, <3>2 DEF KeptInv
  <2> QED
    BY <2>3, <2>4
<1>2. PutawayInv => StoreMatchesShelf
  BY <1>1 DEF StoreMatchesShelf
<1> QED
  BY <1>2, PutawayInvariant, PTL

(* A putaway enters all of its boxes or none, for every request of new boxes.    *)
THEOREM AllOrNothingHolds ==
  ASSUME NewBoxes
  PROVE  Spec => []AllOrNothing
<1>1. ASSUME PutawayInv, pc \in {"done", "failed"}
      PROVE  Stored(store) \cap UNION {ToSet(e.sku) : e \in Goods}
               \in {{}, UNION {ToSet(e.sku) : e \in Goods}}
  <2> DEFINE boxes == UNION {ToSet(e.sku) : e \in Goods}
  <2>1. task \in Cases
    BY <1>1 DEF PutawayInv, TypeInv, TypeOK
  <2>2. CASE store = task.stock
    <3>1. ASSUME NEW e \in Goods, NEW loc \in Location
          PROVE  ToSet(e.sku) \cap ToSet(store[loc]) = {}
      <4>1. PICK i \in DOMAIN task.put_goods : e = task.put_goods[i]
        BY DEF Goods, ToSet
      <4> QED
        BY <2>1, <2>2, <4>1 DEF NewBoxes
    <3>2. Stored(store) \cap boxes = {}
      BY <3>1 DEF Stored
    <3> QED
      BY <3>2
  <2>3. CASE store = Entered(Len(Placements))
    <3>1. ASSUME NEW e \in Goods
          PROVE  ToSet(e.sku) \subseteq Stored(store)
      <4>1. PICK i \in 1..Len(Placements) :
              /\ Placements[i].loc \in Location /\ Placements[i].sku = e.sku
        <5>1. PICK i \in 1..Len(Entries) : e = Entries[i]
          BY <2>1, EntriesType, PlacementsType DEF Range
        <5> QED
          BY <2>1, <5>1, PlacementsType
      <4> DEFINE loc == Placements[i].loc
      <4>2. Range(e.sku) \subseteq Range(Brought(loc)) /\ Brought(loc) \in Seq(Sku)
        BY <2>1, <4>1, BroughtType
      <4>3. store[loc] = task.stock[loc] \o Brought(loc) /\ task.stock[loc] \in Seq(Sku)
        BY <2>1, <2>3, <4>1, RequestType DEF Entered, Brought
      <4>4. Range(Brought(loc)) \subseteq Range(store[loc])
        BY <4>2, <4>3, RangeConcat
      <4>5. ToSet(e.sku) \subseteq ToSet(store[loc])
        BY <4>2, <4>4, SetOfRange
      <4> QED
        BY <4>1, <4>5 DEF Stored
    <3>2. boxes \subseteq Stored(store)
      BY <3>1
    <3> QED
      BY <3>2
  <2> QED
    BY <1>1, <2>2, <2>3 DEF PutawayInv, StoreInv
<1>2. PutawayInv => AllOrNothing
  BY <1>1 DEF AllOrNothing
<1> QED
  BY <1>2, PutawayInvariant, PTL
=============================================================================
