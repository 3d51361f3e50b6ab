------------------------- MODULE OutboundRun_proofs -------------------------
(* Proofs about one run of an outbound plan, for every plan of the kind the    *)
(* assumptions of OutboundRun describe: its type invariant, and that no        *)
(* command is written before the device has finished the last one.             *)
EXTENDS OutboundRun, SequenceFacts, FiniteSetTheorems

-----------------------------------------------------------------------------
(* The inductive invariant *)

(* The run goes on: it has neither ended nor been given up. *)
Going == pc \notin {"done", "failed", "inconsistent"}

(* From the batch's first wait on, it is known to have something to drop. *)
Started == pc \in {"await_idle", "clear", "count", "trigger", "await_complete",
                   "announce", "return", "settle", "await_return", "store"}

(* Where the worker goes through a list, the element it is at is there. *)
PlaceInv ==
  /\ plan \in Plans /\ refills \in Seq(RefillStep)
  /\ pc \in {"backward", "await_backward", "move", "command_move", "await_move",
             "refill", "command_forward", "await_forward", "batch", "await_idle",
             "clear", "count", "trigger", "await_complete", "announce", "return",
             "settle", "await_return", "store", "done", "failed", "inconsistent"}
  /\ b \in 1..(Len(plan.batches) + 1) /\ k \in Nat \ {0}
  /\ Going /\ pc # "backward" => b \in 1..Len(plan.batches)
  /\ pc \in {"command_move", "await_move"} => k \in 1..Len(Batch.moves)
  /\ pc = "await_backward" => k \in 1..Len(Batch.backs)
  /\ pc \in {"command_forward", "await_forward"} => refills # <<>>
  /\ Started => Batch.picks # <<>>
  /\ pc = "await_idle" => Commands(Batch) # <<>>
  /\ pc = "trigger" => k \in 1..Len(Commands(Batch))
  /\ pc = "store" => k \in 1..Len(Batch.picks)
  /\ pc \in {"await_complete", "announce", "return", "settle", "await_return"} => k = 1

(* What a gripper was last told: a pick, or a move. *)
PickTask == [loc : Location, count : Nat, left : Nat]
MoveTask == [from : Location, to : Location, left : {0}]

StoreInv ==
  /\ store \in [Location -> Seq(Sku)]
  /\ \A loc \in Location : Len(store[loc]) <= SLOT_CAPACITY

DeviceInv ==
  /\ shelf \in [Location -> Seq(Sku)] /\ held \in [Gripper -> Seq(Sku)]
  /\ arm \in [Gripper -> {"idle", "picking", "holding", "returning", "lifting",
                          "lowering"}]
  /\ task \in [Gripper -> PickTask \cup MoveTask \cup [left : {0}]]
  /\ \A g \in Gripper :
       /\ arm[g] \in {"picking", "holding", "returning"} => task[g] \in PickTask
       /\ arm[g] \in {"lifting", "lowering"} => task[g] \in MoveTask
  /\ belt \in [way : {"none", "forward", "backward"}, level : Level]

LineInv ==
  /\ line \in Seq(Sku) /\ told \subseteq Sku
  /\ due \in 0..6 /\ dropped \subseteq Gripper /\ complete \in BOOLEAN
  /\ photo \in Nat /\ (photo <= Cardinality(dropped) \/ photo = 0)
  /\ Going /\ due > 0 => pc \in {"trigger", "await_complete"}
  /\ Going /\ complete => due = 0
  /\ pc = "count" => photo = 0 /\ ~complete

PollInv ==
  /\ polled \in [running : SUBSET Gripper, front : SUBSET Level, back : SUBSET Level]
  /\ fresh \in BOOLEAN

HistoryInv == hasty \in BOOLEAN /\ misfit \in BOOLEAN

TypeInv == PlaceInv /\ StoreInv /\ DeviceInv /\ LineInv /\ PollInv /\ HistoryInv

(* From the writing of its count on, the boxes dropped are those of the batch. *)
Counted == pc \in {"trigger", "await_complete", "announce", "return", "settle",
                   "await_return", "store"}

(* Leftover boxes have been asked for, if the wave ends here. *)
Settling == pc \in {"settle", "await_return", "store"}

(* The batches in which gripper g has had its turn end before this one. *)
Turns(g) == IF Counted /\ g \in dropped THEN b + 1 ELSE b

(* Some gripper commanded in batch n still drops a box in batch m. *)
LastsUntil(n, m) ==
  \E d \in Range(Commands(plan.batches[n])) : m <= n + d.place - 1

(* Gripper g works at command c of batch n: it has dropped a box in each batch *)
(* since, and keeps leftover boxes until the whole wave has dropped its.       *)
WorksAt(g, n, c) ==
  /\ c.g = g /\ n <= b /\ (Counted \/ n < b)
  /\ task[g].left = IF n + c.place > Turns(g) THEN n + c.place - Turns(g) ELSE 0
  /\ task[g].count = Len(c.picked) /\ task[g].loc = c.loc
  /\ arm[g] = "picking" => task[g].left = c.place
  /\ arm[g] = "holding" => Len(held[g]) + c.place <= Len(c.picked) + task[g].left
  /\ Len(c.picked) > c.place /\ (arm[g] = "picking" \/ held[g] # <<>>) =>
       LastsUntil(n, IF Settling THEN b + 1 ELSE b)

Working(g) ==
  \E n \in 1..Len(plan.batches) : \E c \in Range(Commands(plan.batches[n])) :
    WorksAt(g, n, c)

HandInv ==
  Going => \A g \in Gripper : arm[g] \in {"picking", "holding"} => Working(g)

(* What is dropped is dropped by the grippers the batch is served by, and the  *)
(* batch is complete when all of them have.                                    *)
CountInv ==
  Going =>
    /\ due > 0 => due = Cardinality(Served(Batch))
    /\ Counted => dropped \subseteq Served(Batch)
    /\ complete /\ pc \in {"trigger", "await_complete"} => dropped = Served(Batch)
    /\ pc \in {"announce", "return", "settle", "await_return", "store"} =>
         dropped = Served(Batch)

(* A gripper that is not idle is known to run, or waits with leftover boxes,   *)
(* or has been told to move or return boxes since the last poll, or has yet to *)
(* drop its box of the batch that is being awaited.                            *)
Seen(g) ==
  \/ Still(g)
  \/ g \in polled.running
  \/ g \in Waiting
  \/ arm[g] \in {"returning", "lifting", "lowering"} /\ ~fresh
  \/ /\ arm[g] \in {"picking", "holding"} /\ pc \in {"trigger", "await_complete"}
     /\ g \in Served(Batch) \ dropped

SeenInv == Going => \A g \in Gripper : Seen(g)

(* Which grippers may be at work at which point of the program. *)
Commanded == {Commands(Batch)[i].g : i \in 1..(k - 1)}

PhaseInv ==
  /\ pc = "command_move" => Still(Move.g)
  /\ Going => \A g \in Gripper :
       /\ arm[g] \in {"lifting", "lowering"} => pc = "await_move" /\ g = Move.g
       /\ arm[g] = "returning" => pc \in {"settle", "await_return"}
  /\ pc = "await_move" => arm[Move.g] \in {"idle", "lifting", "lowering"}
  /\ pc = "await_return" => fresh
  /\ pc \in {"clear", "count"} /\ Commands(Batch) # <<>> => \A g \in Gripper : Still(g)
  /\ pc = "trigger" =>
       /\ \A g \in Gripper : Still(g) \/ g \in Commanded
       /\ dropped \subseteq Commanded

(* The front of each level, but perhaps one, is seen to be occupied if it is. *)
FrontSeen(but) ==
  \A level \in Level : level \in but \/ FrontEmpty(shelf, level) \/ level \in polled.front

FrontInv ==
  Going =>
    /\ pc \notin {"await_move", "settle", "await_return", "await_forward"} => FrontSeen({})
    /\ pc = "await_move" /\ fresh /\ Move.g \notin polled.running => FrontSeen({})
    /\ pc \in {"settle", "await_return"} /\ fresh /\ polled.running = {} => FrontSeen({})
    /\ pc = "await_forward" => FrontSeen({Head(refills).level})
    /\ pc = "command_forward" =>
         /\ FrontEmpty(shelf, Head(refills).level)
         /\ Head(refills).level \notin polled.front
    /\ belt.way = "forward" =>
         /\ pc = "await_forward" /\ belt.level = Head(refills).level
         /\ FrontEmpty(shelf, belt.level) /\ belt.level \notin polled.front

-----------------------------------------------------------------------------
(* The plan *)

LEMMA PlanType ==
  ASSUME plan \in Plans
  PROVE  /\ plan.inventory \in [Location -> Seq(Sku)]
         /\ \A loc \in Location : Len(plan.inventory[loc]) <= SLOT_CAPACITY
         /\ Len(plan.batches) \in Nat /\ DOMAIN plan.batches = 1..Len(plan.batches)
         /\ \A n \in 1..Len(plan.batches) :
              /\ plan.batches[n].backs \in Seq(Level)
              /\ plan.batches[n].moves \in Seq(MoveStep)
              /\ plan.batches[n].forwards \in Seq(RefillStep)
              /\ plan.batches[n].picks \in Seq(PickStep)
<1>1. /\ plan \in [inventory : [Location -> Seq(Sku)], batches : Seq(BatchPlan)]
      /\ \A loc \in Location : Len(plan.inventory[loc]) <= SLOT_CAPACITY
  BY PlansAssumption
<1>2. plan.batches \in Seq(BatchPlan)
  BY <1>1
<1>3. /\ Len(plan.batches) \in Nat /\ DOMAIN plan.batches = 1..Len(plan.batches)
      /\ \A n \in 1..Len(plan.batches) : plan.batches[n] \in BatchPlan
  BY <1>2
<1> QED
  BY <1>1, <1>3 DEF BatchPlan

LEMMA CommandsAreKept ==
  ASSUME NEW batch
  PROVE  Commands(batch) = Kept(batch.picks, {p \in PickStep : p.send})
         \/ batch.picks \notin Seq(PickStep)
<1> SUFFICES ASSUME batch.picks \in Seq(PickStep)
             PROVE  Commands(batch) = Kept(batch.picks, {p \in PickStep : p.send})
  OBVIOUS
<1>1. \A i \in DOMAIN batch.picks : batch.picks[i] \in PickStep
  OBVIOUS
<1>2. [i \in DOMAIN batch.picks |-> IF batch.picks[i].send THEN <<batch.picks[i]>> ELSE <<>>]
      = [i \in DOMAIN batch.picks |->
           IF batch.picks[i] \in {p \in PickStep : p.send} THEN <<batch.picks[i]>> ELSE <<>>]
  BY <1>1
<1> QED
  BY <1>2 DEF Commands, Kept

(* The commands of a batch are picks of it; under OneBoxEach to as many        *)
(* grippers, and each gripper takes at least the boxes it is to drop.          *)
LEMMA CommandsType ==
  ASSUME plan \in Plans, NEW n \in 1..Len(plan.batches)
  PROVE  /\ Commands(plan.batches[n]) \in Seq(PickStep)
         /\ \A c \in Range(Commands(plan.batches[n])) :
              c \in Range(plan.batches[n].picks) /\ c.g \in Served(plan.batches[n])
         /\ OneBoxEach =>
              /\ \A c \in Range(Commands(plan.batches[n])) :
                   /\ c.place \in Nat \ {0} /\ Len(c.picked) \in Nat
                   /\ c.place <= Len(c.picked)
              /\ \A i, j \in 1..Len(Commands(plan.batches[n])) :
                   Commands(plan.batches[n])[i].g = Commands(plan.batches[n])[j].g => i = j
<1> DEFINE picks == plan.batches[n].picks
           T == {p \in PickStep : p.send}
           cs == Commands(plan.batches[n])
<1>1. picks \in Seq(PickStep) /\ n \in DOMAIN plan.batches
  BY PlanType
<1>2. cs = Kept(picks, T)
  BY <1>1, CommandsAreKept
<1>3. DOMAIN picks = 1..Len(picks) /\ Range(picks) = {picks[i] : i \in 1..Len(picks)}
  BY <1>1 DEF Range
<1> HIDE DEF T
<1>4. /\ cs \in Seq(PickStep) /\ Range(cs) = Range(picks) \cap T
      /\ (\A i, j \in 1..Len(picks) : picks[i] = picks[j] => i = j) =>
              \A i, j \in 1..Len(cs) : cs[i] = cs[j] => i = j
  <2> HIDE DEF cs, picks
  <2> QED
    BY <1>1, <1>2, KeptElements
<1>5. \A c \in Range(cs) : c \in Range(picks) /\ c.g \in Served(plan.batches[n])
  BY <1>3, <1>4 DEF Served
<1>6. ASSUME OneBoxEach
      PROVE  /\ \A c \in Range(cs) : /\ c.place \in Nat \ {0} /\ Len(c.picked) \in Nat
                                     /\ c.place <= Len(c.picked)
             /\ \A i, j \in 1..Len(cs) : cs[i].g = cs[j].g => i = j
  <2>1. \A i, j \in 1..Len(picks) :
          /\ picks[i].place \in 1..Len(picks[i].picked)
          /\ i # j => picks[i].g # picks[j].g
    BY <1>1, <1>3, <1>6 DEF OneBoxEach
  <2>2. \A c \in Range(cs) : /\ c.place \in Nat \ {0} /\ Len(c.picked) \in Nat
                             /\ c.place <= Len(c.picked)
    <3> SUFFICES ASSUME NEW c \in Range(cs)
                 PROVE  /\ c.place \in Nat \ {0} /\ Len(c.picked) \in Nat
                        /\ c.place <= Len(c.picked)
      OBVIOUS
    <3>1. PICK i \in 1..Len(picks) : c = picks[i]
      BY <1>3, <1>4
    <3>2. c \in PickStep
      BY <1>1, <3>1
    <3>3. c.picked \in Seq(Sku)
      BY <3>2 DEF PickStep
    <3>4. c.place \in 1..Len(c.picked)
      BY <2>1, <3>1
    <3> QED
      BY <3>3, <3>4
  <2>3. \A i, j \in 1..Len(picks) : picks[i] = picks[j] => i = j
    BY <2>1
  <2>4. \A i, j \in 1..Len(cs) : cs[i].g = cs[j].g => i = j
    <3> SUFFICES ASSUME NEW i \in 1..Len(cs), NEW j \in 1..Len(cs), cs[i].g = cs[j].g
                 PROVE  i = j
      OBVIOUS
    <3>1. cs[i] \in Range(picks) /\ cs[j] \in Range(picks)
      <4>1. DOMAIN cs = 1..Len(cs)
        BY <1>4
      <4>2. cs[i] \in Range(cs) /\ cs[j] \in Range(cs)
        BY <4>1 DEF Range
      <4> QED
        BY <1>4, <4>2
    <3>2. PICK m \in 1..Len(picks) : cs[i] = picks[m]
      BY <1>3, <3>1
    <3>3. PICK l \in 1..Len(picks) : cs[j] = picks[l]
      BY <1>3, <3>1
    <3>4. m = l
      BY <2>1, <3>2, <3>3
    <3> QED
      BY <1>4, <2>3, <3>2, <3>3, <3>4
  <2> QED
    BY <2>2, <2>4
<1> QED
  BY <1>4, <1>5, <1>6

(* A batch is served by grippers, and drops as many boxes as it has grippers.  *)
LEMMA ServedType ==
  ASSUME plan \in Plans, NEW n \in 1..Len(plan.batches)
  PROVE  /\ Served(plan.batches[n]) \subseteq Gripper
         /\ Items(plan.batches[n]) \subseteq Sku
         /\ Served(plan.batches[n]) = {} <=> plan.batches[n].picks = <<>>
<1> DEFINE picks == plan.batches[n].picks
<1>1. picks \in Seq(PickStep)
  BY PlanType
<1>2. DOMAIN picks = 1..Len(picks) /\ Len(picks) \in Nat /\ \A i \in 1..Len(picks) : picks[i] \in PickStep
  BY <1>1
<1>3. \A i \in 1..Len(picks) : picks[i].g \in Gripper /\ picks[i].items \in Seq(Sku)
  BY <1>2 DEF PickStep
<1>4. Served(plan.batches[n]) \subseteq Gripper
  BY <1>2, <1>3 DEF Served
<1>5. Items(plan.batches[n]) \subseteq Sku
  BY <1>2, <1>3 DEF Items, ToSet
<1>6. ASSUME Served(plan.batches[n]) = {} PROVE picks = <<>>
  <2>1. 1 \notin DOMAIN picks
    BY <1>6 DEF Served
  <2>2. Len(picks) = 0
    BY <1>2, <2>1
  <2> QED
    BY <1>1, <2>2, EmptySeq
<1>7. ASSUME picks = <<>> PROVE Served(plan.batches[n]) = {}
  BY <1>7 DEF Served
<1> QED
  BY <1>4, <1>5, <1>6, <1>7

LEMMA GripperFinite == IsFiniteSet(Gripper) /\ Cardinality(Gripper) = 6
<1>1. 1 \in Int /\ 6 \in Int /\ ~(1 > 6) /\ 6 - 1 + 1 = 6
  OBVIOUS
<1>2. IsFiniteSet(1..6) /\ Cardinality(1..6) = IF 1 > 6 THEN 0 ELSE 6 - 1 + 1
  BY <1>1, FS_Interval
<1> QED
  BY <1>1, <1>2 DEF Gripper

LEMMA CountType ==
  ASSUME plan \in Plans, OneBoxEach, NEW n \in 1..Len(plan.batches)
  PROVE  /\ OutboundCount(plan.batches[n]) = Cardinality(Served(plan.batches[n]))
         /\ OutboundCount(plan.batches[n]) \in 0..6
         /\ OutboundCount(plan.batches[n]) = 0 <=> plan.batches[n].picks = <<>>
<1> DEFINE picks == plan.batches[n].picks
           G == {picks[i].g : i \in DOMAIN picks}
           I == UNION {ToSet(picks[i].items) : i \in DOMAIN picks}
           f == [g \in G |-> (CHOOSE i \in DOMAIN picks : picks[i].g = g)]
           h == [g \in G |-> picks[f[g]].items[1]]
<1>1. /\ G = Served(plan.batches[n]) /\ I = Items(plan.batches[n])
  BY DEF Served, Items
<1>2. G \subseteq Gripper
  BY <1>1, ServedType
<1>3. IsFiniteSet(G) /\ Cardinality(G) \in Nat /\ Cardinality(G) <= 6
      /\ (Cardinality(G) = 0 <=> G = {})
  <2>1. IsFiniteSet(G) /\ Cardinality(G) <= 6
    BY <1>2, GripperFinite, FS_Subset
  <2> QED
    BY <2>1, FS_CardinalityType, FS_EmptySet
<1>4. picks \in Seq(PickStep) /\ n \in DOMAIN plan.batches
  BY PlanType
<1>5. \A i \in DOMAIN picks : picks[i].items \in Seq(Sku)
  <2>1. \A i \in DOMAIN picks : picks[i] \in PickStep
    BY <1>4
  <2> QED
    BY <2>1 DEF PickStep
<1>6. \A i, j \in DOMAIN picks :
        /\ Len(picks[i].items) = 1
        /\ i # j => picks[i].g # picks[j].g /\ picks[i].items # picks[j].items
  BY <1>4 DEF OneBoxEach
<1>7. \A i \in DOMAIN picks : picks[i].items = <<picks[i].items[1]>>
                              /\ ToSet(picks[i].items) = {picks[i].items[1]}
  <2> SUFFICES ASSUME NEW i \in DOMAIN picks
               PROVE  picks[i].items = <<picks[i].items[1]>>
                      /\ ToSet(picks[i].items) = {picks[i].items[1]}
    OBVIOUS
  <2> DEFINE s == picks[i].items
  <2>1. s \in Seq(Sku) /\ Len(s) = 1
    BY <1>5, <1>6
  <2> HIDE DEF s
  <2>2. s = <<s[1]>>
    BY <2>1
  <2>3. ToSet(s) = {s[1]}
    BY <2>1 DEF ToSet
  <2> QED
    BY <2>2, <2>3 DEF s
<1>8. \A g \in G : f[g] \in DOMAIN picks /\ picks[f[g]].g = g
  BY DEF f
<1>9. \A i \in DOMAIN picks : picks[i].g \in G /\ f[picks[i].g] = i
  BY <1>6, <1>8
<1> HIDE DEF f
<1>10. h \in [G -> I]
  <2>1. \A g \in G : picks[f[g]].items[1] \in I
    BY <1>7, <1>8
  <2> QED
    BY <2>1
<1>11. \A x, y \in G : h[x] = h[y] => x = y
  <2> SUFFICES ASSUME NEW x \in G, NEW y \in G, h[x] = h[y] PROVE x = y
    OBVIOUS
  <2>1. picks[f[x]].items = picks[f[y]].items
    <3>1. picks[f[x]].items[1] = picks[f[y]].items[1]
      OBVIOUS
    <3>2. /\ picks[f[x]].items = <<picks[f[x]].items[1]>>
          /\ picks[f[y]].items = <<picks[f[y]].items[1]>>
      BY <1>7, <1>8
    <3> QED
      BY <3>1, <3>2
  <2>2. f[x] = f[y]
    BY <1>6, <1>8, <2>1
  <2> QED
    BY <1>8, <2>2
<1>12. \A x \in I : \E g \in G : h[g] = x
  <2> SUFFICES ASSUME NEW x \in I PROVE \E g \in G : h[g] = x
    OBVIOUS
  <2>1. PICK i \in DOMAIN picks : x \in ToSet(picks[i].items)
    OBVIOUS
  <2>2. x = picks[i].items[1]
    BY <1>7, <2>1
  <2> QED
    BY <1>9, <2>2
<1> HIDE DEF h, G, I
<1>13. ExistsBijection(G, I)
  BY <1>10, <1>11, <1>12 DEF ExistsBijection, Bijection, Injection, Surjection, IsInjective
<1>14. Cardinality(I) = Cardinality(G)
  BY <1>3, <1>13, FS_Bijection
<1>15. G = {} <=> picks = <<>>
  BY <1>1, ServedType
<1> QED
  BY <1>1, <1>3, <1>14, <1>15 DEF OutboundCount

(* A list of numbers has a greatest one. *)
LEMMA GreatestElement ==
  ASSUME NEW n \in Nat \ {0}, NEW f, \A i \in 1..n : f[i] \in Nat
  PROVE  \E i \in 1..n : \A j \in 1..n : f[j] <= f[i]
<1> DEFINE T == {m \in Nat : m \in 1..n => \E i \in 1..m : \A j \in 1..m : f[j] <= f[i]}
<1>1. 0 \in T
  OBVIOUS
<1>2. ASSUME NEW m \in Nat, m \in T
      PROVE  m + 1 \in T
  <2> SUFFICES ASSUME m + 1 \in 1..n
               PROVE  \E i \in 1..(m + 1) : \A j \in 1..(m + 1) : f[j] <= f[i]
    OBVIOUS
  <2>1. CASE m = 0
    <3>1. \A j \in 1..(m + 1) : j = 1
      BY <2>1
    <3>2. f[1] \in Nat /\ 1 \in 1..(m + 1)
      BY <2>1
    <3> QED
      BY <3>1, <3>2
  <2>2. CASE m # 0
    <3>1. m \in 1..n
      BY <2>2
    <3>2. PICK i \in 1..m : \A j \in 1..m : f[j] <= f[i]
      BY <1>2, <3>1
    <3>3. f[i] \in Nat /\ f[m + 1] \in Nat /\ \A j \in 1..m : f[j] \in Nat
      OBVIOUS
    <3>4. \A j \in 1..(m + 1) : j \in 1..m \/ j = m + 1
      OBVIOUS
    <3>5. i \in 1..(m + 1) /\ m + 1 \in 1..(m + 1)
      OBVIOUS
    <3>6. CASE f[i] <= f[m + 1]
      BY <3>2, <3>3, <3>4, <3>5, <3>6
    <3>7. CASE f[m + 1] <= f[i]
      BY <3>2, <3>3, <3>4, <3>5, <3>7
    <3> QED
      BY <3>3, <3>6, <3>7
  <2> QED
    BY <2>1, <2>2
<1> HIDE DEF T
<1>3. \A m \in Nat : m \in T
  BY ONLY <1>1, <1>2, SetInduction
<1>4. n \in T /\ n \in 1..n
  BY <1>3
<1> QED
  BY <1>4 DEF T

(* A wave with leftover boxes that drops in batch m goes on after it, unless   *)
(* the boxes are returned after m.                                             *)
LEMMA WaveGoesOn ==
  ASSUME plan \in Plans, OneBoxEach, NEW n \in 1..Len(plan.batches), NEW m \in Nat,
         LastsUntil(n, m), m \notin ReturnsAfter,
         NEW c \in Range(Commands(plan.batches[n])), Len(c.picked) > c.place
  PROVE  LastsUntil(n, m + 1)
<1> DEFINE cs == Commands(plan.batches[n])
           places == {d.place : d \in ToSet(cs)}
<1>1. /\ DOMAIN cs = 1..Len(cs) /\ Len(cs) \in Nat /\ ToSet(cs) = Range(cs)
      /\ \A i \in 1..Len(cs) : cs[i].place \in Nat \ {0}
  <2>1. cs \in Seq(PickStep)
    BY CommandsType
  <2>2. DOMAIN cs = 1..Len(cs) /\ Len(cs) \in Nat
    BY <2>1
  <2>3. \A i \in 1..Len(cs) : cs[i] \in Range(cs)
    BY <2>2 DEF Range
  <2>4. \A i \in 1..Len(cs) : cs[i].place \in Nat \ {0}
    BY <2>3, CommandsType
  <2> QED
    BY <2>2, <2>4, SetOfRange
<1>2. PICK i \in 1..Len(cs) : \A j \in 1..Len(cs) : cs[j].place <= cs[i].place
  <2> DEFINE f == [j \in 1..Len(cs) |-> cs[j].place]
  <2>1. Len(cs) \in Nat \ {0}
    BY <1>1 DEF Range
  <2>2. \A j \in 1..Len(cs) : f[j] \in Nat
    BY <1>1
  <2>3. \E i \in 1..Len(cs) : \A j \in 1..Len(cs) : f[j] <= f[i]
    <3> HIDE DEF cs, f
    <3> QED
      BY <2>1, <2>2, GreatestElement
  <2> QED
    BY <2>3
<1>3. cs[i].place \in places /\ cs[i] \in Range(cs)
  BY <1>1 DEF Range
<1>4. \A x \in places : x <= cs[i].place /\ x \in Nat
  BY <1>1, <1>2 DEF Range
<1>5. Max(places) = cs[i].place
  <2> DEFINE top == cs[i].place
  <2>1. top \in places /\ top \in Nat /\ \A x \in places : x <= top /\ x \in Nat
    BY <1>3, <1>4
  <2> HIDE DEF places, top
  <2>2. top \in places /\ \A y \in places : top >= y
    BY <2>1
  <2>3. /\ Max(places) \in places /\ \A y \in places : Max(places) >= y
    BY <2>2 DEF Max
  <2> DEFINE x == Max(places)
  <2>4. x \in Nat /\ x >= top /\ top >= x
    BY <2>1, <2>3
  <2> HIDE DEF x
  <2>5. x = top
    BY <2>1, <2>4
  <2> QED
    BY <2>5 DEF top, x
<1>6. WaveEnd(n) = n + cs[i].place - 1
  BY <1>5 DEF WaveEnd
<1>7. WaveEnd(n) \in ReturnsAfter
  <2>1. HasLeftovers(n)
    BY <1>1 DEF HasLeftovers
  <2>2. n \in DOMAIN plan.batches
    BY PlanType
  <2> QED
    BY <2>1, <2>2 DEF ReturnsAfter
<1>8. PICK d \in Range(cs) : m <= n + d.place - 1
  BY DEF LastsUntil
<1>9. d.place <= cs[i].place /\ d.place \in Nat
  BY <1>1, <1>4
<1>10. m + 1 <= n + cs[i].place - 1
  <2>1. m # n + cs[i].place - 1
    BY <1>6, <1>7
  <2>2. cs[i].place \in Nat
    BY <1>1
  <2> DEFINE p == cs[i].place q == d.place
  <2>3. m <= n + q - 1 /\ q <= p /\ q \in Nat /\ p \in Nat /\ m # n + p - 1
    BY <1>8, <1>9, <2>1, <2>2
  <2>4. n \in Nat
    BY PlanType
  <2> HIDE DEF p, q
  <2>5. m + 1 <= n + p - 1
    BY <2>3, <2>4
  <2> QED
    BY <2>5 DEF p
<1> QED
  BY <1>3, <1>10 DEF LastsUntil

-----------------------------------------------------------------------------
(* The cabinets *)

LEMMA BeltType ==
  ASSUME NEW s \in [Location -> Seq(Sku)], NEW level \in Level
  PROVE  /\ BackToFront(s, level) \in [Location -> Seq(Sku)]
         /\ FrontToBack(s, level) \in [Location -> Seq(Sku)]
         /\ (\A loc \in Location : Len(s[loc]) <= SLOT_CAPACITY) =>
              \A loc \in Location :
                /\ Len(BackToFront(s, level)[loc]) <= SLOT_CAPACITY
                /\ Len(FrontToBack(s, level)[loc]) <= SLOT_CAPACITY
<1>1. /\ \A loc \in FrontSlots(level) : BackOf(loc) \in Location
      /\ \A loc \in BackSlots(level) : FrontOf(loc) \in Location
  BY DEF FrontSlots, BackSlots, Slot, BackOf, FrontOf, Level, Location, Position
<1>2. <<>> \in Seq(Sku) /\ Len(<<>>) <= SLOT_CAPACITY
  BY DEF SLOT_CAPACITY
<1> QED
  BY <1>1, <1>2 DEF BackToFront, FrontToBack

(* Taking a box off a slot. *)
LEMMA RemoveFirstType ==
  ASSUME NEW S, NEW s \in Seq(S), NEW e
  PROVE  RemoveFirst(s, e) \in Seq(S) /\ Len(RemoveFirst(s, e)) <= Len(s)
<1> DEFINE I == {i \in 1..Len(s) : s[i] = e}
<1>1. CASE I = {}
  <2>1. RemoveFirst(s, e) = s
    BY <1>1 DEF RemoveFirst
  <2> QED
    BY <2>1
<1>2. CASE I # {}
  <2> DEFINE m == Min(I)
  <2>1. RemoveFirst(s, e) = SubSeq(s, 1, m - 1) \o SubSeq(s, m + 1, Len(s))
    BY <1>2 DEF RemoveFirst, RemoveAt, SelectInSeq
  <2>2. I \in SUBSET Nat
    OBVIOUS
  <2>3. \E n \in I : \A x \in I : n <= x
    <3> HIDE DEF I
    <3> QED
      BY <1>2, <2>2, LeastElement
  <2>4. m \in I
    BY <2>3 DEF Min
  <2>5. m \in 1..Len(s) /\ Len(s) \in Nat
    BY <2>4
  <2> HIDE DEF m, I
  <2> DEFINE p == SubSeq(s, 1, m - 1) q == SubSeq(s, m + 1, Len(s))
  <2>6. p \in Seq(S) /\ Len(p) = m - 1
    BY <2>5
  <2>7. q \in Seq(S) /\ Len(q) = Len(s) - m
    BY <2>5
  <2> HIDE DEF p, q
  <2>8. p \o q \in Seq(S) /\ Len(p \o q) = Len(p) + Len(q)
    BY <2>6, <2>7
  <2>9. Len(p \o q) <= Len(s)
    BY <2>5, <2>6, <2>7, <2>8
  <2>10. RemoveFirst(s, e) = p \o q
    BY <2>1 DEF p, q
  <2> QED
    BY <2>8, <2>9, <2>10
<1> QED
  BY <1>1, <1>2

LEMMA WithoutType ==
  ASSUME NEW S, NEW slot \in Seq(S), NEW goods \in Seq(S)
  PROVE  Without(slot, goods) \in Seq(S) /\ Len(Without(slot, goods)) <= Len(slot)
<1> DEFINE n == Len(goods)
           f == CHOOSE f : Removes(slot, goods, f, n)
           T == {i \in Nat : i <= n => f[i] \in Seq(S) /\ Len(f[i]) <= Len(slot)}
<1>1. n \in Nat
  OBVIOUS
<1>2. Without(slot, goods) = f[n]
  BY Zenon DEF Without, Removes
<1>3. Removes(slot, goods, f, n)
  BY <1>1, RemovesExists
<1> HIDE DEF f, n
<1>4. \A i \in 0..n : f[i] = IF i = 0 THEN slot ELSE RemoveFirst(f[i - 1], goods[i])
  BY <1>3 DEF Removes
<1>5. 0 \in T
  BY <1>1, <1>4
<1>6. ASSUME NEW i \in Nat, i \in T
      PROVE  i + 1 \in T
  <2> SUFFICES ASSUME i + 1 <= n
               PROVE  f[i + 1] \in Seq(S) /\ Len(f[i + 1]) <= Len(slot)
    OBVIOUS
  <2>1. f[i] \in Seq(S) /\ Len(f[i]) <= Len(slot) /\ Len(f[i]) \in Nat
    BY <1>1, <1>6
  <2>2. i + 1 \in 0..n /\ i + 1 # 0 /\ (i + 1) - 1 = i
    BY <1>1
  <2>3. f[i + 1] = RemoveFirst(f[i], goods[i + 1])
    BY <1>4, <2>2
  <2> DEFINE r == RemoveFirst(f[i], goods[i + 1])
  <2>4. r \in Seq(S) /\ Len(r) <= Len(f[i])
    BY <2>1, RemoveFirstType
  <2> HIDE DEF r
  <2>5. Len(r) \in Nat /\ Len(slot) \in Nat
    BY <2>4, LenProperties
  <2>6. Len(r) <= Len(slot)
    BY <2>1, <2>4, <2>5
  <2> QED
    BY <2>3, <2>4, <2>6 DEF r
<1> HIDE DEF T
<1>7. \A i \in Nat : i \in T
  BY ONLY <1>5, <1>6, SetInduction
<1>8. n \in T
  BY <1>1, <1>7
<1> QED
  BY <1>1, <1>2, <1>8 DEF T

-----------------------------------------------------------------------------
(* Types: where the worker is *)

(* What the lists of the current batch hold. *)
LEMMA BatchType ==
  ASSUME plan \in Plans, b \in 1..Len(plan.batches)
  PROVE  /\ Len(Batch.backs) \in Nat /\ Len(Batch.moves) \in Nat
         /\ Len(Batch.picks) \in Nat /\ Len(Commands(Batch)) \in Nat
         /\ \A i \in 1..Len(Batch.backs) : Batch.backs[i] \in Level
         /\ \A i \in 1..Len(Batch.moves) : Batch.moves[i] \in MoveStep
         /\ \A i \in 1..Len(Batch.picks) : Batch.picks[i] \in PickStep
         /\ \A i \in 1..Len(Commands(Batch)) :
              /\ Commands(Batch)[i] \in PickStep
              /\ Commands(Batch)[i] \in Range(Commands(Batch))
         /\ Batch.forwards \in Seq(RefillStep) /\ Commands(Batch) \in Seq(PickStep)
         /\ Commands(Batch) # <<>> => Batch.picks # <<>>
         /\ Batch.picks # <<>> => 1 \in 1..Len(Batch.picks)
         /\ Commands(Batch) # <<>> => 1 \in 1..Len(Commands(Batch))
         /\ OutboundCount(Batch) # 0 => Batch.picks # <<>>
         /\ Items(Batch) \subseteq Sku
<1>1. /\ Batch.backs \in Seq(Level) /\ Batch.moves \in Seq(MoveStep)
      /\ Batch.forwards \in Seq(RefillStep) /\ Batch.picks \in Seq(PickStep)
  BY PlanType DEF Batch
<1>2. /\ Commands(Batch) \in Seq(PickStep)
      /\ \A c \in Range(Commands(Batch)) : c \in Range(Batch.picks)
      /\ Items(Batch) \subseteq Sku
  BY CommandsType, ServedType DEF Batch
<1> DEFINE cs == Commands(Batch) ps == Batch.picks
<1>3. cs \in Seq(PickStep) /\ ps \in Seq(PickStep) /\ \A c \in Range(cs) : c \in Range(ps)
  BY <1>1, <1>2
<1>4. /\ Len(Batch.backs) \in Nat /\ Len(Batch.moves) \in Nat
      /\ \A i \in 1..Len(Batch.backs) : Batch.backs[i] \in Level
      /\ \A i \in 1..Len(Batch.moves) : Batch.moves[i] \in MoveStep
  BY <1>1
<1>5. Batch.picks = <<>> => OutboundCount(Batch) = 0
  <2>1. Batch.picks = <<>> => Items(Batch) = {}
    BY DEF Items
  <2> QED
    BY <2>1, FS_EmptySet DEF OutboundCount
<1> HIDE DEF cs, ps
<1>6. /\ Len(ps) \in Nat /\ Len(cs) \in Nat
      /\ \A i \in 1..Len(ps) : ps[i] \in PickStep
      /\ \A i \in 1..Len(cs) : cs[i] \in PickStep /\ cs[i] \in Range(cs)
      /\ ps # <<>> => 1 \in 1..Len(ps)
      /\ cs # <<>> => 1 \in 1..Len(cs)
  <2>1. /\ Len(ps) \in Nat /\ Len(cs) \in Nat
        /\ \A i \in 1..Len(ps) : ps[i] \in PickStep
        /\ \A i \in 1..Len(cs) : cs[i] \in PickStep
    BY <1>3
  <2>2. \A i \in 1..Len(cs) : cs[i] \in Range(cs)
    BY <1>3 DEF Range
  <2>3. (ps # <<>> => Len(ps) # 0) /\ (cs # <<>> => Len(cs) # 0)
    BY <1>3, EmptySeq
  <2> QED
    BY <2>1, <2>2, <2>3
<1>7. cs # <<>> => ps # <<>>
  <2> SUFFICES ASSUME cs # <<>>, ps = <<>> PROVE FALSE
    OBVIOUS
  <2>1. cs[1] \in Range(ps)
    BY <1>3, <1>6
  <2> QED
    BY <2>1, RangeEmpty
<1> QED
  BY <1>1, <1>2, <1>4, <1>5, <1>6, <1>7 DEF cs, ps

(* The refills that a batch needs, as a list. *)
LEMMA RequiredRefillsList ==
  ASSUME plan \in Plans, b \in 1..Len(plan.batches)
  PROVE  SetToSeq({[level |-> l, moved |-> <<>>] : l \in RequiredRefills}) \in Seq(RefillStep)
<1> DEFINE R == {[level |-> l, moved |-> <<>>] : l \in RequiredRefills}
<1>1. RequiredRefills \subseteq Level
  <2>1. \A q \in ToSet(Commands(Batch)) : q \in PickStep
    <3>1. Commands(Batch) \in Seq(PickStep)
      BY BatchType
    <3> QED
      BY <3>1 DEF ToSet
  <2>2. \A q \in ToSet(Commands(Batch)) : LevelOf(q.loc) \in Level
    BY <2>1 DEF PickStep, LevelOf, Location, Level
  <2> QED
    BY <2>2 DEF RequiredRefills
<1>2. R \subseteq RefillStep
  BY <1>1 DEF RefillStep
<1>3. IsFiniteSet(R)
  <2>1. IsFiniteSet(Level)
    <3>1. IsFiniteSet(Layer)
      <4>1. 1 \in Int /\ 4 \in Int
        OBVIOUS
      <4> QED
        BY <4>1, FS_Interval DEF Layer
    <3>2. IsFiniteSet(Station)
      <4>1. Station = (({} \cup {"A"}) \cup {"B"}) \cup {"C"}
        BY DEF Station
      <4> QED
        BY <4>1, FS_EmptySet, FS_AddElement
    <3> QED
      BY <3>1, <3>2, FS_Product DEF Level
  <2>2. IsFiniteSet(RequiredRefills)
    BY <1>1, <2>1, FS_Subset
  <2> DEFINE f == [l \in RequiredRefills |-> [level |-> l, moved |-> <<>>]]
  <2>3. f \in Surjection(RequiredRefills, R)
    BY DEF Surjection
  <2> HIDE DEF f, R
  <2> QED
    BY <2>2, <2>3, FS_Surjection
<1> HIDE DEF R
<1>4. PICK f : f \in Bijection(1..Cardinality(R), R)
  BY <1>3, FS_CardinalityType DEF ExistsBijection
<1>5. f \in [1..Cardinality(R) -> R] /\ IsInjective(f)
  BY <1>4 DEF Bijection, Injection, IsInjective
<1>6. SetToSeq(R) \in [1..Cardinality(R) -> R]
  BY <1>5 DEF SetToSeq
<1>7. SetToSeq(R) \in Seq(RefillStep)
  <2>1. Cardinality(R) \in Nat
    BY <1>3, FS_CardinalityType
  <2> DEFINE q == SetToSeq(R) n == Cardinality(R)
  <2>2. n \in Nat /\ q \in [1..n -> RefillStep]
    BY <1>2, <1>6, <2>1
  <2> HIDE DEF q, n
  <2>3. q \in Seq(RefillStep)
    BY <2>2
  <2> QED
    BY <2>3 DEF q
<1> QED
  BY <1>7 DEF R

LEMMA PlaceStep ==
  ASSUME PlaceInv, Next
  PROVE  PlaceInv'
<1>1. /\ plan \in Plans /\ b \in Nat \ {0} /\ k \in Nat \ {0} /\ Len(plan.batches) \in Nat
      /\ refills \in Seq(RefillStep)
  BY PlanType DEF PlaceInv
<1>2. b \in 1..Len(plan.batches) =>
         /\ Len(Batch.backs) \in Nat /\ Len(Batch.moves) \in Nat
         /\ Len(Batch.picks) \in Nat /\ Len(Commands(Batch)) \in Nat
         /\ Batch.forwards \in Seq(RefillStep)
         /\ Commands(Batch) # <<>> => Batch.picks # <<>>
         /\ Batch.picks # <<>> => 1 \in 1..Len(Batch.picks)
         /\ Commands(Batch) # <<>> => 1 \in 1..Len(Commands(Batch))
         /\ OutboundCount(Batch) # 0 => Batch.picks # <<>>
  BY <1>1, BatchType
<1>3. CASE UNCHANGED <<plan, pc, b, k, refills>>
  BY <1>3 DEF PlaceInv, Going, Started, Batch
<1>4. CASE Machinery \/ Poll
  <2>1. UNCHANGED <<plan, pc, b, k, refills>>
    BY <1>4 DEF Machinery, PickUp, DropBox, GoHome, ReturnBoxes, Lift, Lower, CompleteBatch,
                RunBelt, Poll, hostVars
  <2> QED
    BY <1>3, <2>1
<1>5. CASE Abandon
  BY <1>5 DEF Abandon, Stay, PlaceInv, Going, Started, Batch
<1>6. CASE BackwardsDone
  BY <1>1, <1>6 DEF BackwardsDone, Goto, Stay, PlaceInv, Going, Started, Batch
<1>7. CASE CommandBackward
  BY <1>1, <1>2, <1>7 DEF CommandBackward, PlaceInv, Going, Started, Batch
<1>8. CASE BackwardComplete
  BY <1>1, <1>8 DEF BackwardComplete, Stay, PlaceInv, Going, Started, Batch
<1>9. CASE MovesDone
  BY <1>1, <1>2, <1>9 DEF MovesDone, Goto, Stay, PlaceInv, Going, Started, Batch
<1>10. CASE MoveGripperIdle
  BY <1>1, <1>2, <1>10 DEF MoveGripperIdle, Stay, PlaceInv, Going, Started, Batch
<1>11. CASE CommandMove
  BY <1>1, <1>11 DEF CommandMove, PlaceInv, Going, Started, Batch
<1>12. CASE MoveComplete
  BY <1>1, <1>12 DEF MoveComplete, Stay, PlaceInv, Going, Started, Batch
<1>13. CASE RefillsDone
  <2>1. b \in 1..Len(plan.batches)
    BY <1>13 DEF RefillsDone, PlaceInv, Going
  <2>2. refills' \in Seq(RefillStep)
    BY <1>1, <1>13, <2>1, RequiredRefillsList DEF RefillsDone
  <2> QED
    BY <1>1, <1>13, <2>1, <2>2 DEF RefillsDone, Goto, Stay, PlaceInv, Going, Started, Batch
<1>14. CASE FrontClear
  BY <1>1, <1>14 DEF FrontClear, Stay, PlaceInv, Going, Started, Batch
<1>15. CASE CommandForward
  BY <1>1, <1>15 DEF CommandForward, PlaceInv, Going, Started, Batch
<1>16. CASE ForwardComplete
  <2>1. refills' \in Seq(RefillStep)
    <3>1. refills # <<>>
      BY <1>16 DEF ForwardComplete, PlaceInv
    <3>2. Tail(refills) \in Seq(RefillStep)
      BY <1>1, <3>1, RangeTail
    <3> QED
      BY <1>1, <1>16, <3>2 DEF ForwardComplete
  <2> QED
    BY <1>1, <1>16, <2>1 DEF ForwardComplete, Stay, PlaceInv, Going, Started, Batch
<1>17. CASE StartBatch
  <2>1. b \in 1..Len(plan.batches)
    BY <1>17 DEF StartBatch, PlaceInv, Going
  <2>2. CASE OutboundCount(Batch) = 0 /\ ~(Commands(Batch) # <<>> /\ Continues(Batch))
    <3>1. b' = b + 1 /\ pc' = "backward" /\ k' = 1
      BY <1>17, <2>2 DEF StartBatch, Goto
    <3> QED
      BY <1>1, <1>17, <2>1, <3>1 DEF StartBatch, Stay, PlaceInv, Going, Started, Batch
  <2>3. CASE ~(OutboundCount(Batch) = 0 /\ ~(Commands(Batch) # <<>> /\ Continues(Batch)))
    <3>1. /\ UNCHANGED <<plan, b, k, refills>>
          /\ pc' \in {"inconsistent", "await_idle", "clear"}
          /\ pc' = "await_idle" => Commands(Batch) # <<>>
          /\ pc' # "inconsistent" => Batch.picks # <<>>
      BY <1>2, <1>17, <2>1, <2>3 DEF StartBatch, Stay
    <3> QED
      BY <1>1, <2>1, <3>1 DEF PlaceInv, Going, Started, Batch
  <2> QED
    BY <2>2, <2>3
<1>18. CASE AllGrippersIdle
  BY <1>1, <1>18 DEF AllGrippersIdle, Stay, PlaceInv, Going, Started, Batch
<1>19. CASE ClearOutboundComplete
  BY <1>1, <1>19 DEF ClearOutboundComplete, PlaceInv, Going, Started, Batch
<1>20. CASE WriteBatchCount
  BY <1>1, <1>2, <1>20 DEF WriteBatchCount, Goto, PlaceInv, Going, Started, Batch
<1>21. CASE TriggerGripper
  BY <1>1, <1>2, <1>21 DEF TriggerGripper, Goto, PlaceInv, Going, Started, Batch
<1>22. CASE BatchComplete
  BY <1>1, <1>22 DEF BatchComplete, Stay, PlaceInv, Going, Started, Batch
<1>23. CASE Announce
  BY <1>1, <1>2, <1>23 DEF Announce, Stay, PlaceInv, Going, Started, Batch
<1>24. CASE CommandReturn
  BY <1>1, <1>24 DEF CommandReturn, PlaceInv, Going, Started, Batch
<1>25. CASE Settled
  BY <1>1, <1>25 DEF Settled, Stay, PlaceInv, Going, Started, Batch
<1>26. CASE ReturnComplete
  BY <1>1, <1>2, <1>26 DEF ReturnComplete, Stay, PlaceInv, Going, Started, Batch
<1>27. CASE UpdateStore
  <2>1. pc = "store" /\ UNCHANGED <<plan, refills>>
    BY <1>27 DEF UpdateStore, Stay
  <2>2. \/ k < Len(Batch.picks) /\ k' = k + 1 /\ UNCHANGED <<pc, b>>
        \/ b' = b + 1 /\ pc' = "backward" /\ k' = 1
        \/ pc' = "inconsistent" /\ UNCHANGED <<b, k>>
    <3>1. \/ IF k < Len(Batch.picks) THEN k' = k + 1 /\ UNCHANGED <<pc, b>>
                                    ELSE b' = b + 1 /\ Goto("backward")
          \/ pc' = "inconsistent" /\ UNCHANGED <<store, b, k>>
      BY <1>27, Zenon DEF UpdateStore
    <3> QED
      BY <3>1 DEF Goto
  <2>3. CASE k < Len(Batch.picks) /\ k' = k + 1 /\ UNCHANGED <<pc, b>>
    BY <1>1, <1>2, <2>1, <2>3 DEF PlaceInv, Going, Started, Batch
  <2>4. CASE b' = b + 1 /\ pc' = "backward" /\ k' = 1
    BY <1>1, <1>2, <2>1, <2>4 DEF PlaceInv, Going, Started
  <2>5. CASE pc' = "inconsistent" /\ UNCHANGED <<b, k>>
    BY <1>1, <1>2, <2>1, <2>5 DEF PlaceInv, Going, Started
  <2> QED
    BY <2>2, <2>3, <2>4, <2>5
<1>28. CASE PlanDone
  BY <1>1, <1>28 DEF PlanDone, Goto, Stay, PlaceInv, Going, Started, Batch
<1> QED
  BY <1>4, <1>5, <1>6, <1>7, <1>8, <1>9, <1>10, <1>11, <1>12, <1>13, <1>14, <1>15, <1>16,
     <1>17, <1>18, <1>19, <1>20, <1>21, <1>22, <1>23, <1>24, <1>25, <1>26, <1>27, <1>28
     DEF Next, Worker

-----------------------------------------------------------------------------
(* Types: the inventory, the devices, the line *)

LEMMA StoreStep ==
  ASSUME PlaceInv, StoreInv, Next
  PROVE  StoreInv'
<1>1. CASE UNCHANGED store
  BY <1>1 DEF StoreInv
<1>2. CASE BackwardComplete /\ store' # store
  <2>1. Batch.backs[k] \in Level
    BY <1>2, BatchType DEF BackwardComplete, PlaceInv, Going
  <2>2. store' = FrontToBack(store, Batch.backs[k])
    BY <1>2 DEF BackwardComplete
  <2> QED
    BY <2>1, <2>2, BeltType DEF StoreInv
<1>3. CASE MoveComplete /\ store' # store
  <2>1. Move \in MoveStep
    BY <1>3, BatchType DEF MoveComplete, PlaceInv, Going, Move
  <2>2. store' = [store EXCEPT ![Move.to] = store[Move.from], ![Move.from] = <<>>]
    BY <1>3 DEF MoveComplete, MoveGoods
  <2>3. Move.to \in Location /\ Move.from \in Location
    BY <2>1 DEF MoveStep
  <2>4. <<>> \in Seq(Sku) /\ Len(<<>>) <= SLOT_CAPACITY
    BY DEF SLOT_CAPACITY
  <2> QED
    BY <2>2, <2>3, <2>4 DEF StoreInv
<1>4. CASE ForwardComplete /\ store' # store
  <2>1. refills # <<>> /\ refills \in Seq(RefillStep)
    BY <1>4 DEF ForwardComplete, PlaceInv
  <2>2. Head(refills) \in RefillStep
    BY <2>1, RangeTail
  <2>3. Head(refills).level \in Level
    BY <2>2 DEF RefillStep
  <2>4. store' = BackToFront(store, Head(refills).level)
    BY <1>4 DEF ForwardComplete
  <2> QED
    BY <2>3, <2>4, BeltType DEF StoreInv
<1>5. CASE UpdateStore /\ store' # store
  <2> DEFINE p == Batch.picks[k]
  <2>1. p \in PickStep
    BY <1>5, BatchType DEF UpdateStore, PlaceInv, Going
  <2>2. p.loc \in Location /\ p.items \in Seq(Sku)
    BY <2>1 DEF PickStep
  <2>3. store' = [store EXCEPT ![p.loc] = Without(store[p.loc], p.items)]
    BY <1>5 DEF UpdateStore, RemoveGoods
  <2> HIDE DEF p
  <2>4. store[p.loc] \in Seq(Sku) /\ Len(store[p.loc]) <= SLOT_CAPACITY
    BY <2>2 DEF StoreInv
  <2> DEFINE w == Without(store[p.loc], p.items)
  <2>5. w \in Seq(Sku) /\ Len(w) <= Len(store[p.loc])
    BY <2>2, <2>4, WithoutType
  <2>6. store' = [store EXCEPT ![p.loc] = w]
    BY <2>3
  <2> HIDE DEF w
  <2>7. Len(w) <= SLOT_CAPACITY
    <3>1. Len(w) \in Nat /\ Len(store[p.loc]) \in Nat
      BY <2>4, <2>5, LenProperties
    <3> QED
      BY <2>4, <2>5, <3>1 DEF SLOT_CAPACITY
  <2> QED
    BY <2>2, <2>5, <2>6, <2>7 DEF StoreInv
<1>6. UNCHANGED store \/ BackwardComplete \/ MoveComplete \/ ForwardComplete \/ UpdateStore
  BY DEF Next, Worker, Machinery, Abandon, Poll, PickUp, DropBox, GoHome, ReturnBoxes, Lift,
         Lower, CompleteBatch, RunBelt, Stay, hostVars, BackwardsDone, CommandBackward, MovesDone,
         MoveGripperIdle, CommandMove, RefillsDone, FrontClear, CommandForward, StartBatch,
         AllGrippersIdle, ClearOutboundComplete, WriteBatchCount, TriggerGripper, BatchComplete,
         Announce, CommandReturn, Settled, ReturnComplete, PlanDone
<1> QED
  BY <1>1, <1>2, <1>3, <1>4, <1>5, <1>6

(* The worker commands the devices in five places, and leaves them alone      *)
(* everywhere else.                                                            *)
LEMMA DevicesFrame ==
  ASSUME Worker \/ Abandon
  PROVE  \/ UNCHANGED <<shelf, arm, task, held, belt>>
         \/ CommandBackward \/ CommandForward \/ CommandMove \/ TriggerGripper \/ CommandReturn
  BY DEF Worker, Abandon, Stay, armVars, BackwardsDone, BackwardComplete, MovesDone,
         MoveGripperIdle, MoveComplete, RefillsDone, FrontClear, ForwardComplete, StartBatch,
         AllGrippersIdle, ClearOutboundComplete, WriteBatchCount, BatchComplete, Announce,
         Settled, ReturnComplete, UpdateStore, PlanDone

(* A gripper told something else. *)
LEMMA ArmTask ==
  ASSUME DeviceInv, NEW g \in Gripper,
         NEW a \in {"idle", "picking", "holding", "returning", "lifting", "lowering"},
         NEW t \in PickTask \cup MoveTask,
         a \in {"picking", "holding", "returning"} => t \in PickTask,
         a \in {"lifting", "lowering"} => t \in MoveTask,
         arm' = [arm EXCEPT ![g] = a], task' = [task EXCEPT ![g] = t],
         shelf' \in [Location -> Seq(Sku)], held' \in [Gripper -> Seq(Sku)],
         belt' \in [way : {"none", "forward", "backward"}, level : Level]
  PROVE  DeviceInv'
<1>1. arm' \in [Gripper -> {"idle", "picking", "holding", "returning", "lifting", "lowering"}]
  BY DEF DeviceInv
<1>2. task' \in [Gripper -> PickTask \cup MoveTask \cup [left : {0}]]
  <2> DEFINE Tasks == PickTask \cup MoveTask \cup [left : {0}]
  <2>1. task \in [Gripper -> Tasks] /\ t \in Tasks
    BY DEF DeviceInv
  <2> HIDE DEF Tasks
  <2> QED
    BY <2>1 DEF Tasks
<1>3. ASSUME NEW h \in Gripper
      PROVE  /\ arm'[h] \in {"picking", "holding", "returning"} => task'[h] \in PickTask
             /\ arm'[h] \in {"lifting", "lowering"} => task'[h] \in MoveTask
  <2>1. CASE h = g
    <3>1. arm'[h] = a /\ task'[h] = t
      BY <2>1 DEF DeviceInv
    <3> QED
      BY <3>1
  <2>2. CASE h # g
    <3>1. arm'[h] = arm[h] /\ task'[h] = task[h]
      BY <2>2 DEF DeviceInv
    <3> QED
      BY <3>1 DEF DeviceInv
  <2> QED
    BY <2>1, <2>2
<1> QED
  BY <1>1, <1>2, <1>3 DEF DeviceInv

(* A gripper that goes on with the task it has. *)
LEMMA ArmOnly ==
  ASSUME DeviceInv, NEW g \in Gripper,
         NEW a \in {"idle", "holding", "lowering"},
         a = "holding" => arm[g] = "picking", a = "lowering" => arm[g] = "lifting",
         arm' = [arm EXCEPT ![g] = a], task' = task,
         shelf' \in [Location -> Seq(Sku)], held' \in [Gripper -> Seq(Sku)],
         belt' \in [way : {"none", "forward", "backward"}, level : Level]
  PROVE  DeviceInv'
<1>1. arm' \in [Gripper -> {"idle", "picking", "holding", "returning", "lifting", "lowering"}]
  BY DEF DeviceInv
<1>2. ASSUME NEW h \in Gripper
      PROVE  /\ arm'[h] \in {"picking", "holding", "returning"} => task'[h] \in PickTask
             /\ arm'[h] \in {"lifting", "lowering"} => task'[h] \in MoveTask
  <2>1. CASE h = g
    <3>1. arm'[h] = a
      BY <2>1 DEF DeviceInv
    <3> QED
      BY <2>1, <3>1 DEF DeviceInv
  <2>2. CASE h # g
    <3>1. arm'[h] = arm[h]
      BY <2>2 DEF DeviceInv
    <3> QED
      BY <3>1 DEF DeviceInv
  <2> QED
    BY <2>1, <2>2
<1> QED
  BY <1>1, <1>2 DEF DeviceInv

LEMMA DeviceStep ==
  ASSUME PlaceInv, DeviceInv, Next
  PROVE  DeviceInv'
<1>1. /\ shelf \in [Location -> Seq(Sku)] /\ held \in [Gripper -> Seq(Sku)]
      /\ belt \in [way : {"none", "forward", "backward"}, level : Level]
      /\ arm \in [Gripper -> {"idle", "picking", "holding", "returning", "lifting", "lowering"}]
      /\ <<>> \in Seq(Sku)
  BY DEF DeviceInv
<1>2. CASE UNCHANGED <<shelf, arm, task, held, belt>>
  BY <1>2 DEF DeviceInv
<1>3. CASE UNCHANGED <<arm, task, held>> /\ shelf' \in [Location -> Seq(Sku)]
           /\ belt' \in [way : {"none", "forward", "backward"}, level : Level]
  BY <1>3 DEF DeviceInv
<1>4. CASE CommandBackward
  <2>1. Batch.backs[k] \in Level
    BY <1>4, BatchType DEF CommandBackward, PlaceInv
  <2>2. belt' \in [way : {"none", "forward", "backward"}, level : Level]
    BY <1>4, <2>1 DEF CommandBackward
  <2> QED
    BY <1>1, <1>3, <1>4, <2>2 DEF CommandBackward, armVars
<1>5. CASE CommandForward
  <2>1. refills # <<>> /\ refills \in Seq(RefillStep)
    BY <1>5 DEF CommandForward, PlaceInv
  <2>2. Head(refills) \in RefillStep
    BY <2>1, RangeTail
  <2>3. Head(refills).level \in Level
    BY <2>2 DEF RefillStep
  <2>4. belt' \in [way : {"none", "forward", "backward"}, level : Level]
    BY <1>5, <2>3 DEF CommandForward
  <2> QED
    BY <1>1, <1>3, <1>5, <2>4 DEF CommandForward, armVars
<1>6. CASE CommandMove
  <2>1. Move \in MoveStep
    BY <1>6, BatchType DEF CommandMove, PlaceInv, Going, Move
  <2> DEFINE t == [from |-> Move.from, to |-> Move.to, left |-> 0]
  <2>2. t \in MoveTask /\ Move.g \in Gripper
    BY <2>1 DEF MoveStep, MoveTask
  <2>3. CASE Still(Move.g)
    <3>1. arm' = [arm EXCEPT ![Move.g] = "lifting"] /\ task' = [task EXCEPT ![Move.g] = t]
          /\ UNCHANGED <<shelf, held, belt>>
      BY <1>6, <2>3 DEF CommandMove
    <3> HIDE DEF t
    <3> QED
      BY <1>1, <2>2, <3>1, ArmTask
  <2>4. CASE ~Still(Move.g)
    BY <1>2, <1>6, <2>4 DEF CommandMove
  <2> QED
    BY <2>3, <2>4
<1>7. CASE TriggerGripper
  <2> DEFINE c == Commands(Batch)[k]
             t == [loc |-> c.loc, count |-> Len(c.picked), left |-> c.place]
  <2>1. c \in PickStep
    BY <1>7, BatchType DEF TriggerGripper, PlaceInv, Going
  <2>2. t \in PickTask /\ c.g \in Gripper
    BY <2>1 DEF PickStep, PickTask
  <2>3. CASE Still(c.g)
    <3>1. arm' = [arm EXCEPT ![c.g] = "picking"] /\ task' = [task EXCEPT ![c.g] = t]
          /\ UNCHANGED <<shelf, held, belt>>
      BY <1>7, <2>3 DEF TriggerGripper
    <3> HIDE DEF t, c
    <3> QED
      BY <1>1, <2>2, <3>1, ArmTask
  <2>4. CASE ~Still(c.g)
    BY <1>2, <1>7, <2>4 DEF TriggerGripper
  <2> QED
    BY <2>3, <2>4
<1>8. CASE CommandReturn
  <2>1. /\ arm' = [g \in Gripper |-> IF g \in Waiting THEN "returning" ELSE arm[g]]
        /\ UNCHANGED <<task, held, shelf, belt>>
    BY <1>8 DEF CommandReturn
  <2>2. arm' \in [Gripper -> {"idle", "picking", "holding", "returning", "lifting", "lowering"}]
    BY <1>1, <2>1
  <2>3. ASSUME NEW g \in Gripper
        PROVE  /\ arm'[g] \in {"picking", "holding", "returning"} => task[g] \in PickTask
               /\ arm'[g] \in {"lifting", "lowering"} => task[g] \in MoveTask
    BY <2>1 DEF DeviceInv, Waiting
  <2> QED
    BY <2>1, <2>2, <2>3 DEF DeviceInv
<1>9. ASSUME NEW g \in Gripper, PickUp(g)
      PROVE  DeviceInv'
  <2>1. task[g] \in PickTask
    BY <1>9 DEF PickUp, DeviceInv
  <2>2. task[g].loc \in Location /\ task[g].count \in Nat
    BY <2>1 DEF PickTask
  <2> DEFINE slot == shelf[task[g].loc]
             n == Min({task[g].count, Len(slot)})
  <2>3. slot \in Seq(Sku) /\ Len(slot) \in Nat
    BY <1>1, <2>2
  <2>4. n \in 0..Len(slot)
    BY <2>2, <2>3 DEF Min
  <2>5. /\ held' = [held EXCEPT ![g] = SubSeq(slot, 1, n)]
        /\ shelf' = [shelf EXCEPT ![task[g].loc] = SubSeq(slot, n + 1, Len(slot))]
        /\ arm' = [arm EXCEPT ![g] = "holding"] /\ arm[g] = "picking"
        /\ UNCHANGED <<task, belt>>
    BY <1>9 DEF PickUp
  <2> HIDE DEF slot, n
  <2>6. SubSeq(slot, 1, n) \in Seq(Sku) /\ SubSeq(slot, n + 1, Len(slot)) \in Seq(Sku)
    BY <2>3, <2>4
  <2>7. shelf' \in [Location -> Seq(Sku)] /\ held' \in [Gripper -> Seq(Sku)]
    BY <1>1, <2>2, <2>5, <2>6
  <2> QED
    BY <1>1, <2>5, <2>7, ArmOnly
<1>10. ASSUME NEW g \in Gripper, DropBox(g)
       PROVE  DeviceInv'
  <2>1. /\ held[g] # <<>> /\ held[g] \in Seq(Sku) /\ arm[g] = "holding"
        /\ task[g] \in PickTask /\ task[g].left \in Nat /\ task[g].left > 0
        /\ held' = [held EXCEPT ![g] = Tail(held[g])]
        /\ UNCHANGED <<shelf, arm, belt>>
    BY <1>1, <1>10 DEF DropBox, DeviceInv, PickTask
  <2> DEFINE t == [task[g] EXCEPT !.left = task[g].left - 1]
  <2>2. task' = [task EXCEPT ![g] = t]
    BY <1>10 DEF DropBox
  <2>3. t \in PickTask
    BY <2>1 DEF PickTask
  <2>4. Tail(held[g]) \in Seq(Sku)
    BY <2>1, RangeTail
  <2>5. held' \in [Gripper -> Seq(Sku)]
    BY <1>1, <2>1, <2>4
  <2>6. arm' = [arm EXCEPT ![g] = "holding"]
    BY <1>1, <2>1
  <2>7. /\ shelf' \in [Location -> Seq(Sku)]
        /\ belt' \in [way : {"none", "forward", "backward"}, level : Level]
    BY <1>1, <2>1
  <2> HIDE DEF t
  <2> QED
    BY <2>2, <2>3, <2>5, <2>6, <2>7, ArmTask
<1>11. ASSUME NEW g \in Gripper, GoHome(g)
       PROVE  DeviceInv'
  BY <1>1, <1>11, ArmOnly DEF GoHome
<1>12. ASSUME NEW g \in Gripper, ReturnBoxes(g)
       PROVE  DeviceInv'
  <2>1. /\ held[g] \in Seq(Sku) /\ task[g].loc \in Location
        /\ shelf[task[g].loc] \in Seq(Sku)
    BY <1>1, <1>12 DEF ReturnBoxes, DeviceInv, PickTask
  <2>2. held[g] \o shelf[task[g].loc] \in Seq(Sku)
    BY <2>1, ConcatProperties
  <2>3. shelf' \in [Location -> Seq(Sku)] /\ held' \in [Gripper -> Seq(Sku)]
    BY <1>1, <1>12, <2>1, <2>2 DEF ReturnBoxes
  <2> QED
    BY <1>1, <1>12, <2>3, ArmOnly DEF ReturnBoxes
<1>13. ASSUME NEW g \in Gripper, Lift(g)
       PROVE  DeviceInv'
  <2>1. task[g].from \in Location /\ shelf[task[g].from] \in Seq(Sku)
    BY <1>1, <1>13 DEF Lift, DeviceInv, MoveTask
  <2>2. shelf' \in [Location -> Seq(Sku)] /\ held' \in [Gripper -> Seq(Sku)]
    BY <1>1, <1>13, <2>1 DEF Lift
  <2> QED
    BY <1>1, <1>13, <2>2, ArmOnly DEF Lift
<1>14. ASSUME NEW g \in Gripper, Lower(g)
       PROVE  DeviceInv'
  <2>1. /\ held[g] \in Seq(Sku) /\ task[g].to \in Location
        /\ shelf[task[g].to] \in Seq(Sku)
    BY <1>1, <1>14 DEF Lower, DeviceInv, MoveTask
  <2>2. held[g] \o shelf[task[g].to] \in Seq(Sku)
    BY <2>1, ConcatProperties
  <2>3. shelf' \in [Location -> Seq(Sku)] /\ held' \in [Gripper -> Seq(Sku)]
    BY <1>1, <1>14, <2>1, <2>2 DEF Lower
  <2> QED
    BY <1>1, <1>14, <2>3, ArmOnly DEF Lower
<1>15. CASE RunBelt
  <2>1. belt.level \in Level
    BY <1>1
  <2>2. shelf' \in [Location -> Seq(Sku)]
    BY <1>1, <1>15, <2>1, BeltType DEF RunBelt
  <2>3. belt' \in [way : {"none", "forward", "backward"}, level : Level]
    BY <1>15 DEF RunBelt, NoRun, Level, Station, Layer
  <2> QED
    BY <1>3, <1>15, <2>2, <2>3 DEF RunBelt
<1>16. CASE CompleteBatch
  BY <1>2, <1>16 DEF CompleteBatch, armVars
<1>17. CASE Poll
  BY <1>2, <1>17 DEF Poll, armVars
<1> QED
  BY <1>2, <1>4, <1>5, <1>6, <1>7, <1>8, <1>9, <1>10, <1>11, <1>12, <1>13, <1>14, <1>15,
     <1>16, <1>17, DevicesFrame DEF Next, Machinery

(* Only the worker's two writes, the boxes dropped and the end of a batch      *)
(* change what the line counts.                                                *)
LEMMA LineFrame ==
  ASSUME Next
  PROVE  \/ UNCHANGED lineVars
         \/ ClearOutboundComplete \/ WriteBatchCount \/ CompleteBatch
         \/ \E g \in Gripper : DropBox(g)
  BY DEF Next, Worker, Machinery, Abandon, Poll, Stay, BackwardsDone, CommandBackward,
         BackwardComplete, MovesDone, MoveGripperIdle, CommandMove, MoveComplete, RefillsDone,
         FrontClear, CommandForward, ForwardComplete, StartBatch, AllGrippersIdle,
         TriggerGripper, BatchComplete, Announce, CommandReturn, Settled, ReturnComplete,
         UpdateStore, PlanDone, PickUp, GoHome, ReturnBoxes, Lift, Lower, RunBelt

(* While boxes are due the worker waits for them, and it comes to the count of *)
(* the next batch with the counter of the photo sensor cleared.                *)
LEMMA WorkerOrder ==
  ASSUME Next, pc' # pc
  PROVE  /\ pc \in {"trigger", "await_complete"} =>
              pc' \in {"trigger", "await_complete", "announce", "failed"}
         /\ pc' = "announce" => pc = "await_complete" /\ complete
         /\ pc' \in {"trigger", "await_complete"} => pc \in {"count", "trigger"}
         /\ pc' = "count" => ClearOutboundComplete
  BY DEF Next, Worker, Machinery, Abandon, Poll, Stay, BackwardsDone, CommandBackward,
         BackwardComplete, MovesDone, MoveGripperIdle, CommandMove, MoveComplete, RefillsDone,
         FrontClear, CommandForward, ForwardComplete, StartBatch, AllGrippersIdle,
         TriggerGripper, BatchComplete, Announce, CommandReturn, Settled, ReturnComplete,
         UpdateStore, PlanDone, PickUp, GoHome, ReturnBoxes, Lift, Lower, RunBelt,
         ClearOutboundComplete, WriteBatchCount, CompleteBatch, DropBox, Goto, hostVars

(* The worker goes on to the next batch in two places, and comes by the count  *)
(* of a batch to everything that is done after it.                             *)
LEMMA BatchOrder ==
  ASSUME Next
  PROVE  /\ plan' = plan /\ (Going' => Going)
         /\ b' # b => pc \in {"batch", "store"} /\ pc' = "backward" /\ b' = b + 1
         /\ Counted' => Counted \/ WriteBatchCount
         /\ pc' \in {"announce", "return", "settle", "await_return", "store"} =>
              \/ pc \in {"announce", "return", "settle", "await_return", "store"}
              \/ pc = "await_complete" /\ complete
  BY DEF Next, Worker, Machinery, Abandon, Poll, Stay, BackwardsDone, CommandBackward,
         BackwardComplete, MovesDone, MoveGripperIdle, CommandMove, MoveComplete, RefillsDone,
         FrontClear, CommandForward, ForwardComplete, StartBatch, AllGrippersIdle,
         TriggerGripper, BatchComplete, Announce, CommandReturn, Settled, ReturnComplete,
         UpdateStore, PlanDone, PickUp, GoHome, ReturnBoxes, Lift, Lower, RunBelt,
         ClearOutboundComplete, WriteBatchCount, CompleteBatch, DropBox, Goto, hostVars,
         Going, Counted

LEMMA LineStep ==
  ASSUME OneBoxEach, PlaceInv, DeviceInv, LineInv, Next
  PROVE  LineInv'
<1>1. /\ line \in Seq(Sku) /\ told \subseteq Sku
      /\ due \in 0..6 /\ dropped \subseteq Gripper /\ complete \in BOOLEAN
      /\ photo \in Nat /\ (photo <= Cardinality(dropped) \/ photo = 0)
      /\ IsFiniteSet(dropped) /\ Cardinality(dropped) \in Nat
  <2>1. dropped \subseteq Gripper
    BY DEF LineInv
  <2>2. IsFiniteSet(dropped) /\ Cardinality(dropped) \in Nat
    BY <2>1, GripperFinite, FS_Subset, FS_CardinalityType
  <2> QED
    BY <2>2 DEF LineInv
<1>2. told' \subseteq Sku
  <2>1. CASE UNCHANGED told
    BY <1>1, <2>1
  <2>2. CASE Announce
    <3>1. Items(Batch) \subseteq Sku
      BY <2>2, BatchType DEF Announce, PlaceInv, Going
    <3> QED
      BY <1>1, <2>2, <3>1 DEF Announce
  <2> QED
    BY <2>1, <2>2
       DEF Next, Worker, Machinery, Abandon, Poll, Stay, BackwardsDone, CommandBackward,
           BackwardComplete, MovesDone, MoveGripperIdle, CommandMove, MoveComplete, RefillsDone,
           FrontClear, CommandForward, ForwardComplete, StartBatch, AllGrippersIdle,
           TriggerGripper, BatchComplete, CommandReturn, Settled, ReturnComplete,
           UpdateStore, PlanDone, PickUp, GoHome, ReturnBoxes, Lift, Lower, RunBelt,
           ClearOutboundComplete, WriteBatchCount, CompleteBatch, DropBox, hostVars
<1>3. CASE UNCHANGED lineVars
  <2>1. due > 0 /\ Going' => pc' \in {"trigger", "await_complete"}
    <3>1. CASE pc' = pc
      BY <3>1 DEF LineInv, Going
    <3>2. CASE pc' # pc /\ due > 0 /\ Going'
      <4>1. Going
        BY <3>2, BatchOrder
      <4>2. pc \in {"trigger", "await_complete"}
        BY <3>2, <4>1 DEF LineInv
      <4>3. pc' # "announce"
        <5>1. ~complete
          BY <1>1, <3>2, <4>1 DEF LineInv
        <5> QED
          BY <3>2, <5>1, WorkerOrder
      <4>4. pc' \in {"trigger", "await_complete", "failed"}
        BY <3>2, <4>2, <4>3, WorkerOrder
      <4> QED
        BY <4>4 DEF Going
    <3> QED
      BY <3>1, <3>2
  <2>2. pc' = "count" => photo' = 0 /\ ~complete'
    <3>1. CASE pc' = pc
      BY <1>3, <3>1 DEF LineInv, lineVars
    <3>2. CASE pc' # pc
      BY <3>2, WorkerOrder DEF ClearOutboundComplete
    <3> QED
      BY <3>1, <3>2
  <2>3. Going' /\ complete => due = 0
    BY BatchOrder DEF LineInv
  <2> QED
    BY <1>1, <1>2, <1>3, <2>1, <2>2, <2>3 DEF LineInv, lineVars
<1>4. CASE ClearOutboundComplete
  <2>1. Going /\ ~(due > 0)
    BY <1>4 DEF ClearOutboundComplete, LineInv, Going
  <2>2. UNCHANGED <<line, due, dropped>> /\ photo' = 0 /\ complete' = FALSE /\ pc' = "count"
    BY <1>4 DEF ClearOutboundComplete
  <2>3. complete' \in BOOLEAN
    BY <2>2, Zenon
  <2> QED
    BY <1>1, <1>2, <2>1, <2>2, <2>3 DEF LineInv
<1>5. CASE WriteBatchCount
  <2>1. /\ due' = OutboundCount(Batch) /\ dropped' = {} /\ UNCHANGED <<complete, photo, line>>
        /\ pc = "count" /\ pc' \in {"trigger", "await_complete"}
    BY <1>5 DEF WriteBatchCount, Goto
  <2>2. OutboundCount(Batch) \in 0..6
    <3>1. plan \in Plans /\ b \in 1..Len(plan.batches)
      BY <2>1 DEF PlaceInv, Going
    <3> QED
      BY <3>1, CountType DEF Batch
  <2>3. photo = 0 /\ ~complete
    BY <2>1 DEF LineInv
  <2> QED
    BY <1>1, <1>2, <2>1, <2>2, <2>3 DEF LineInv
<1>6. CASE CompleteBatch
  <2>1. UNCHANGED <<pc, dropped, photo, line>> /\ due' = 0 /\ complete' = TRUE
        /\ due > 0
    BY <1>6 DEF CompleteBatch, hostVars
  <2>2. complete' \in BOOLEAN
    BY <2>1, Zenon
  <2>3. pc # "count"
    BY <2>1 DEF LineInv, Going
  <2> QED
    BY <1>1, <1>2, <2>1, <2>2, <2>3 DEF LineInv
<1>7. ASSUME NEW g \in Gripper, DropBox(g)
      PROVE  LineInv'
  <2>1. /\ UNCHANGED <<pc, due, complete>> /\ line' = Append(line, Head(held[g]))
        /\ dropped' = dropped \cup {g} /\ photo' \in {photo, photo + 1}
        /\ g \notin dropped /\ Cardinality(dropped) < due /\ held[g] # <<>>
    BY <1>7 DEF DropBox, hostVars
  <2>2. Cardinality(dropped') = Cardinality(dropped) + 1
    BY <1>1, <2>1, FS_AddElement
  <2>3. Head(held[g]) \in Sku
    <3>1. held[g] \in Seq(Sku)
      BY DEF DeviceInv
    <3> QED
      BY <2>1, <3>1, RangeTail
  <2>4. line' \in Seq(Sku)
    BY <1>1, <2>1, <2>3
  <2>5. pc # "count"
    BY <1>1, <2>1 DEF LineInv, Going
  <2>6. photo' \in Nat /\ photo' <= Cardinality(dropped')
    BY <1>1, <2>1, <2>2
  <2>7. /\ Going /\ due > 0 => pc \in {"trigger", "await_complete"}
        /\ Going /\ complete => due = 0
    BY DEF LineInv
  <2> QED
    BY <1>1, <1>2, <2>1, <2>4, <2>5, <2>6, <2>7 DEF LineInv, Going
<1> QED
  BY <1>3, <1>4, <1>5, <1>6, <1>7, LineFrame

LEMMA PollStep ==
  ASSUME PollInv, Next
  PROVE  PollInv'
<1>1. CASE UNCHANGED pollVars
  BY <1>1 DEF pollVars, PollInv
<1>2. CASE polled' = polled /\ fresh' = FALSE
  <2>1. fresh' \in BOOLEAN
    BY <1>2, Zenon
  <2> QED
    BY <1>2, <2>1 DEF PollInv
<1>3. CASE Poll
  <2>1. PICK waiting \in SUBSET Waiting :
           polled' = [running |-> {g \in Gripper : ~Still(g)} \ waiting,
                      front |-> {l \in Level : ~FrontEmpty(shelf, l)},
                      back  |-> {l \in Level : ~BackEmpty(shelf, l)}]
    BY <1>3 DEF Poll
  <2>2. polled' \in [running : SUBSET Gripper, front : SUBSET Level, back : SUBSET Level]
    BY <2>1
  <2>3. fresh' \in BOOLEAN
    BY <1>3, Zenon DEF Poll
  <2> QED
    BY <2>2, <2>3 DEF PollInv
<1> QED
  BY <1>1, <1>2, <1>3
     DEF Next, Worker, Machinery, Abandon, Stay, BackwardsDone, CommandBackward,
         BackwardComplete, MovesDone, MoveGripperIdle, CommandMove, MoveComplete, RefillsDone,
         FrontClear, CommandForward, ForwardComplete, StartBatch, AllGrippersIdle,
         TriggerGripper, BatchComplete, Announce, CommandReturn, Settled, ReturnComplete,
         UpdateStore, PlanDone, PickUp, GoHome, ReturnBoxes, Lift, Lower, RunBelt,
         ClearOutboundComplete, WriteBatchCount, CompleteBatch, DropBox

(* What is noted of the run stays noted. *)
LEMMA HistoryFrame ==
  ASSUME [Next]_vars
  PROVE  /\ hasty' = hasty \/ MoveGripperIdle \/ MoveComplete
         /\ misfit' = misfit \/ CommandBackward \/ CommandMove \/ CommandForward \/ StartBatch
<1>1. CASE Worker
  BY <1>1 DEF Worker, BackwardsDone, CommandBackward, BackwardComplete, MovesDone,
     MoveGripperIdle, CommandMove, MoveComplete, RefillsDone, FrontClear, CommandForward,
     ForwardComplete, StartBatch, AllGrippersIdle, ClearOutboundComplete, WriteBatchCount,
     TriggerGripper, BatchComplete, Announce, CommandReturn, Settled, ReturnComplete,
     UpdateStore, PlanDone, history
<1>2. CASE Abandon \/ Machinery \/ Poll \/ UNCHANGED vars
  BY <1>2 DEF Abandon, Machinery, PickUp, DropBox, GoHome, ReturnBoxes, Lift, Lower,
     CompleteBatch, RunBelt, Poll, vars, hostVars, history
<1> QED
  BY <1>1, <1>2 DEF Next

LEMMA HistoryStays ==
  ASSUME [Next]_vars
  PROVE  (hasty => hasty') /\ (misfit => misfit')
<1>1. MoveGripperIdle \/ MoveComplete => (hasty => hasty')
  BY DEF MoveGripperIdle, MoveComplete
<1>2. CommandBackward \/ CommandMove \/ CommandForward \/ StartBatch => (misfit => misfit')
  BY DEF CommandBackward, CommandMove, CommandForward, StartBatch
<1> QED
  BY <1>1, <1>2, HistoryFrame

LEMMA HistoryStep ==
  ASSUME HistoryInv, [Next]_vars
  PROVE  HistoryInv'
<1>1. MoveGripperIdle => hasty' \in BOOLEAN
  BY Zenon DEF MoveGripperIdle
<1>2. MoveComplete => hasty' \in BOOLEAN
  BY Zenon DEF MoveComplete
<1>3. CommandBackward => misfit' \in BOOLEAN
  BY Zenon DEF CommandBackward
<1>4. CommandMove => misfit' \in BOOLEAN
  BY Zenon DEF CommandMove
<1>5. CommandForward => misfit' \in BOOLEAN
  BY Zenon DEF CommandForward
<1>6. StartBatch => misfit' \in BOOLEAN
  BY Zenon DEF StartBatch
<1> QED
  BY <1>1, <1>2, <1>3, <1>4, <1>5, <1>6, HistoryFrame DEF HistoryInv

-----------------------------------------------------------------------------
(* The boxes of a batch *)

(* From its command to its last box a gripper serves each batch, and in the    *)
(* batches after its command there are no new ones.                            *)
LEMMA StillServing ==
  ASSUME plan \in Plans, OneBoxEach, WavesKeepApart, NEW m \in 1..Len(plan.batches),
         NEW n \in 1..Len(plan.batches), NEW c \in Range(Commands(plan.batches[n])),
         n <= m, m <= n + c.place - 1
  PROVE  /\ c.g \in Served(plan.batches[m])
         /\ n < m => Commands(plan.batches[m]) = <<>>
<1>1. CASE n = m
  BY <1>1, CommandsType
<1>2. CASE n < m
  <2>1. c.place \in Nat \ {0}
    BY CommandsType
  <2>2. m \in (n + 1)..(n + c.place - 1)
    BY <1>2, <2>1, PlanType
  <2>3. c \in ToSet(Commands(plan.batches[n])) /\ n \in DOMAIN plan.batches
    BY SetOfRange, PlanType
  <2> QED
    BY <1>2, <2>2, <2>3 DEF WavesKeepApart
<1> QED
  BY <1>1, <1>2, PlanType

(* A box is dropped for the batch it is due in. *)
LEMMA DropServes ==
  ASSUME OneBoxEach, WavesKeepApart, TypeInv, HandInv, Going, NEW g \in Gripper, DropBox(g)
  PROVE  /\ pc \in {"trigger", "await_complete"} /\ b \in 1..Len(plan.batches)
         /\ g \in Served(Batch)
<1>1. /\ arm[g] = "holding" /\ task[g].left > 0 /\ g \notin dropped
      /\ Cardinality(dropped) < due /\ Cardinality(dropped) \in Nat
  <2>1. dropped \subseteq Gripper
    BY DEF TypeInv, LineInv
  <2>2. Cardinality(dropped) \in Nat
    BY <2>1, GripperFinite, FS_Subset, FS_CardinalityType
  <2> QED
    BY <2>2 DEF DropBox
<1>2. pc \in {"trigger", "await_complete"}
  BY <1>1 DEF TypeInv, LineInv
<1>3. plan \in Plans /\ b \in 1..Len(plan.batches)
  BY <1>2 DEF TypeInv, PlaceInv
<1>4. PICK n \in 1..Len(plan.batches) : \E c \in Range(Commands(plan.batches[n])) : WorksAt(g, n, c)
  BY <1>1 DEF HandInv, Working
<1> PICK c \in Range(Commands(plan.batches[n])) : WorksAt(g, n, c)
  BY <1>4
<1>5. c.g = g /\ n <= b /\ n + c.place > b
  <2>1. c.g = g /\ n <= b
    BY DEF WorksAt
  <2>2. task[g].left = IF n + c.place > b THEN n + c.place - b ELSE 0
    BY <1>1 DEF WorksAt, Turns
  <2> QED
    BY <1>1, <2>1, <2>2
<1>6. c.place \in Nat /\ n \in Nat /\ b \in Nat
  <2>1. n \in Nat /\ b \in Nat
    BY <1>3, PlanType
  <2>2. c.place \in Nat
    BY <1>3, CommandsType
  <2> QED
    BY <2>1, <2>2
<1>7. b <= n + c.place - 1
  BY <1>5, <1>6
<1> QED
  BY <1>2, <1>3, <1>5, <1>7, StillServing DEF Batch

LEMMA CountStep ==
  ASSUME OneBoxEach, WavesKeepApart, TypeInv, HandInv, CountInv, Next
  PROVE  CountInv'
<1> SUFFICES ASSUME Going' PROVE CountInv'
  BY DEF CountInv
<1>1. /\ Going /\ plan \in Plans /\ plan' = plan /\ due \in 0..6 /\ dropped \subseteq Gripper
      /\ complete \in BOOLEAN
  BY BatchOrder DEF TypeInv, PlaceInv, LineInv
<1>2. /\ complete => due = 0
      /\ due > 0 => due = Cardinality(Served(Batch)) /\ pc \in {"trigger", "await_complete"}
      /\ Counted => dropped \subseteq Served(Batch)
      /\ pc = "count" => ~complete
      /\ complete /\ pc \in {"trigger", "await_complete"} => dropped = Served(Batch)
      /\ pc \in {"announce", "return", "settle", "await_return", "store"} =>
           dropped = Served(Batch)
  BY <1>1 DEF CountInv, TypeInv, LineInv
<1>3. CASE UNCHANGED lineVars /\ ~WriteBatchCount
  <2>1. CASE b' # b
    <3>1. pc \in {"batch", "store"} /\ pc' = "backward"
      BY <2>1, BatchOrder
    <3>2. due = 0
      BY <1>1, <1>2, <3>1
    <3> QED
      BY <1>2, <1>3, <3>1, <3>2 DEF CountInv, Counted, lineVars
  <2>2. CASE b' = b
    <3>1. Batch' = Batch /\ UNCHANGED <<due, dropped, complete>>
      BY <1>1, <1>3, <2>2 DEF Batch, lineVars
    <3>2. /\ Counted' => Counted
          /\ pc' \in {"announce", "return", "settle", "await_return", "store"} =>
              \/ pc \in {"announce", "return", "settle", "await_return", "store"}
              \/ pc = "await_complete" /\ complete
      BY <1>3, BatchOrder
    <3>3. complete /\ pc' \in {"trigger", "await_complete"} => dropped = Served(Batch)
      <4>1. CASE pc' = pc
        BY <1>2, <4>1
      <4>2. CASE pc' # pc /\ pc' \in {"trigger", "await_complete"}
        BY <1>2, <4>2, WorkerOrder
      <4> QED
        BY <4>1, <4>2
    <3>4. pc' \in {"announce", "return", "settle", "await_return", "store"} =>
            dropped = Served(Batch)
      BY <1>2, <3>2
    <3>5. Counted' => dropped \subseteq Served(Batch)
      BY <1>2, <3>2
    <3> QED
      BY <1>2, <3>1, <3>3, <3>4, <3>5 DEF CountInv
  <2> QED
    BY <2>1, <2>2
<1>4. CASE ClearOutboundComplete
  <2>1. pc = "clear" /\ pc' = "count" /\ complete' = FALSE /\ due' = due
    BY <1>4 DEF ClearOutboundComplete
  <2>2. due = 0
    BY <1>1, <1>2, <2>1
  <2> QED
    BY <2>1, <2>2 DEF CountInv, Counted
<1>5. CASE WriteBatchCount
  <2>1. /\ pc = "count" /\ pc' \in {"trigger", "await_complete"} /\ b' = b
        /\ due' = OutboundCount(Batch) /\ dropped' = {} /\ complete' = complete
    BY <1>5 DEF WriteBatchCount, Goto
  <2>2. b \in 1..Len(plan.batches)
    BY <1>1, <2>1 DEF TypeInv, PlaceInv
  <2>3. OutboundCount(Batch) = Cardinality(Served(Batch))
    BY <1>1, <2>2, CountType DEF Batch
  <2>4. Batch' = Batch /\ ~complete
    BY <1>1, <1>2, <2>1 DEF Batch
  <2> QED
    BY <2>1, <2>3, <2>4 DEF CountInv
<1>6. CASE CompleteBatch
  <2>1. /\ pc' = pc /\ b' = b /\ due' = 0 /\ complete' = TRUE /\ dropped' = dropped
        /\ due > 0 /\ Cardinality(dropped) = due
    BY <1>6 DEF CompleteBatch, hostVars
  <2>2. pc \in {"trigger", "await_complete"} /\ Batch' = Batch
    BY <1>1, <1>2, <2>1 DEF Batch
  <2>3. dropped = Served(Batch)
    <3>1. b \in 1..Len(plan.batches)
      BY <1>1, <2>2 DEF TypeInv, PlaceInv
    <3>2. Served(Batch) \subseteq Gripper
      BY <1>1, <3>1, ServedType DEF Batch
    <3>3. IsFiniteSet(Served(Batch))
      BY <3>2, GripperFinite, FS_Subset
    <3>4. dropped \subseteq Served(Batch) /\ Cardinality(Served(Batch)) = Cardinality(dropped)
      BY <1>2, <2>1, <2>2 DEF Counted
    <3> QED
      BY <3>3, <3>4, FS_Subset
  <2> QED
    BY <2>1, <2>2, <2>3 DEF CountInv
<1>7. ASSUME NEW g \in Gripper, DropBox(g)
      PROVE  CountInv'
  <2>1. /\ pc' = pc /\ b' = b /\ due' = due /\ complete' = complete
        /\ dropped' = dropped \cup {g} /\ Cardinality(dropped) < due
    BY <1>7 DEF DropBox, hostVars
  <2>2. pc \in {"trigger", "await_complete"} /\ g \in Served(Batch) /\ Batch' = Batch
    BY <1>1, <1>7, <2>1, DropServes DEF Batch
  <2>3. ~complete
    <3>1. Cardinality(dropped) \in Nat
      BY <1>1, GripperFinite, FS_Subset, FS_CardinalityType
    <3> QED
      BY <1>1, <1>2, <2>1, <3>1
  <2> QED
    BY <1>2, <2>1, <2>2, <2>3 DEF CountInv, Counted
<1> QED
  BY <1>3, <1>4, <1>5, <1>6, <1>7, LineFrame

-----------------------------------------------------------------------------
(* What the grippers work at *)

(* A gripper nothing happens to goes on. *)
LEMMA WorkGoesOn ==
  ASSUME NEW g, Working(g), plan' = plan, b' = b,
         arm'[g] = arm[g], held'[g] = held[g], task'[g] = task[g],
         Counted' <=> Counted, Settling' <=> Settling, g \in dropped' <=> g \in dropped
  PROVE  Working(g)'
  BY DEF Working, WorksAt, Turns, LastsUntil

(* The numbers of a command. *)
LEMMA CommandNumbers ==
  ASSUME plan \in Plans, OneBoxEach, b \in 1..Len(plan.batches),
         NEW n \in 1..Len(plan.batches), NEW c \in Range(Commands(plan.batches[n]))
  PROVE  /\ n \in Nat \ {0} /\ b \in Nat \ {0} /\ c.place \in Nat \ {0}
         /\ Len(c.picked) \in Nat /\ c.place <= Len(c.picked)
<1>1. n \in Nat \ {0} /\ b \in Nat \ {0}
  BY PlanType
<1>2. c.place \in Nat \ {0} /\ Len(c.picked) \in Nat /\ c.place <= Len(c.picked)
  BY CommandsType
<1> QED
  BY <1>1, <1>2

(* A gripper whose command has boxes left for this batch is one that serves it. *)
LEMMA ServesOrDone ==
  ASSUME plan \in Plans, OneBoxEach, WavesKeepApart, b \in 1..Len(plan.batches),
         NEW n \in 1..Len(plan.batches), NEW c \in Range(Commands(plan.batches[n])),
         n <= b, c.g \notin Served(Batch)
  PROVE  n + c.place <= b
<1>1. n \in Nat /\ b \in Nat /\ c.place \in Nat
  BY CommandNumbers
<1>2. ~(b <= n + c.place - 1)
  BY StillServing DEF Batch
<1> QED
  BY <1>1, <1>2

(* An empty batch comes after the boxes of every wave before it. *)
LEMMA WorkAfterSkip ==
  ASSUME OneBoxEach, WavesKeepApart, TypeInv, NEW g \in Gripper, Working(g),
         pc = "batch", pc' = "backward", b' = b + 1, plan' = plan, OutboundCount(Batch) = 0,
         arm'[g] = arm[g], held'[g] = held[g], task'[g] = task[g]
  PROVE  Working(g)'
<1>1. plan \in Plans /\ b \in 1..Len(plan.batches)
  BY DEF TypeInv, PlaceInv, Going
<1>2. Served(Batch) = {}
  BY <1>1, CountType, ServedType DEF Batch
<1>3. PICK n \in 1..Len(plan.batches) : \E c \in Range(Commands(plan.batches[n])) : WorksAt(g, n, c)
  BY DEF Working
<1> PICK c \in Range(Commands(plan.batches[n])) : WorksAt(g, n, c)
  BY <1>3
<1>4. n \in Nat /\ b \in Nat /\ c.place \in Nat /\ Len(c.picked) \in Nat
  BY <1>1, CommandNumbers
<1>5. ~Counted /\ ~Settling /\ ~Counted' /\ ~Settling'
  BY DEF Counted, Settling
<1>6. n < b /\ n <= b
  BY <1>4, <1>5 DEF WorksAt
<1>7. n + c.place <= b
  BY <1>1, <1>2, <1>6, ServesOrDone
<1>8. task[g].left = 0
  BY <1>4, <1>5, <1>7 DEF WorksAt, Turns
<1>9. ~LastsUntil(n, b)
  <2> SUFFICES ASSUME NEW d \in Range(Commands(plan.batches[n])), b <= n + d.place - 1
               PROVE  FALSE
    BY DEF LastsUntil
  <2>1. d.g \in Served(Batch)
    BY <1>1, <1>6, StillServing DEF Batch
  <2> QED
    BY <1>2, <2>1
<1>10. ~(Len(c.picked) > c.place /\ (arm[g] = "picking" \/ held[g] # <<>>))
  BY <1>5, <1>9 DEF WorksAt
<1>11. n <= b' /\ n < b' /\ ~(n + c.place > b')
  BY <1>4, <1>6, <1>7
<1>12. WorksAt(g, n, c)'
  BY <1>5, <1>8, <1>10, <1>11 DEF WorksAt, Turns
<1> QED
  BY <1>12 DEF Working

(* The count of a batch is written before any of its boxes is dropped. *)
LEMMA WorkAfterCount ==
  ASSUME NEW g \in Gripper, Working(g), WriteBatchCount
  PROVE  Working(g)'
<1>1. /\ pc = "count" /\ pc' \in {"trigger", "await_complete"} /\ b' = b /\ dropped' = {}
      /\ UNCHANGED <<plan, arm, held, task>>
  BY DEF WriteBatchCount, Goto, armVars
<1>2. ~Counted /\ Counted' /\ ~Settling /\ ~Settling' /\ g \notin dropped'
  BY <1>1 DEF Counted, Settling
<1> QED
  BY <1>1, <1>2 DEF Working, WorksAt, Turns, LastsUntil

(* A batch is over when every gripper that serves it has dropped its box. *)
LEMMA WorkAfterBatch ==
  ASSUME OneBoxEach, WavesKeepApart, TypeInv, CountInv, NEW g \in Gripper, Working(g),
         pc = "store", pc' = "backward", b' = b + 1, plan' = plan,
         arm'[g] = arm[g], held'[g] = held[g], task'[g] = task[g]
  PROVE  Working(g)'
<1>1. plan \in Plans /\ b \in 1..Len(plan.batches) /\ dropped = Served(Batch)
  BY DEF TypeInv, PlaceInv, CountInv, Going
<1>2. PICK n \in 1..Len(plan.batches) : \E c \in Range(Commands(plan.batches[n])) : WorksAt(g, n, c)
  BY DEF Working
<1> PICK c \in Range(Commands(plan.batches[n])) : WorksAt(g, n, c)
  BY <1>2
<1>3. n \in Nat /\ b \in Nat /\ c.place \in Nat
  BY <1>1, CommandNumbers
<1>4. Counted /\ Settling /\ ~Counted' /\ ~Settling'
  BY DEF Counted, Settling
<1>5. c.g = g /\ n <= b
  BY DEF WorksAt
<1>6. task[g].left = IF n + c.place > b + 1 THEN n + c.place - (b + 1) ELSE 0
  <2>1. CASE g \in dropped
    BY <1>4, <2>1 DEF WorksAt, Turns
  <2>2. CASE g \notin dropped
    <3>1. n + c.place <= b
      BY <1>1, <1>5, <2>2, ServesOrDone
    <3>2. task[g].left = IF n + c.place > b THEN n + c.place - b ELSE 0
      BY <2>2 DEF WorksAt, Turns
    <3> QED
      BY <1>3, <3>1, <3>2
  <2> QED
    BY <2>1, <2>2
<1>7. n <= b' /\ n < b'
  BY <1>3, <1>5
<1>8. WorksAt(g, n, c)'
  BY <1>4, <1>6, <1>7 DEF WorksAt, Turns, LastsUntil
<1> QED
  BY <1>8 DEF Working

(* Where a wave does not end its leftover boxes are kept for the next batch. *)
LEMMA WorkAfterAnnounce ==
  ASSUME OneBoxEach, TypeInv, NEW g \in Gripper, Working(g),
         pc = "announce", pc' = "store", b \notin ReturnsAfter,
         UNCHANGED <<plan, b, arm, held, task, dropped>>
  PROVE  Working(g)'
<1>1. plan \in Plans /\ b \in 1..Len(plan.batches)
  BY DEF TypeInv, PlaceInv, Going
<1>2. PICK n \in 1..Len(plan.batches) : \E c \in Range(Commands(plan.batches[n])) : WorksAt(g, n, c)
  BY DEF Working
<1> PICK c \in Range(Commands(plan.batches[n])) : WorksAt(g, n, c)
  BY <1>2
<1>3. Counted /\ ~Settling /\ Counted' /\ Settling' /\ b \in Nat
  BY <1>1, PlanType DEF Counted, Settling
<1>4. Len(c.picked) > c.place /\ (arm[g] = "picking" \/ held[g] # <<>>) => LastsUntil(n, b + 1)
  BY <1>1, <1>3, WaveGoesOn DEF WorksAt
<1>5. WorksAt(g, n, c)'
  BY <1>3, <1>4 DEF WorksAt, Turns, LastsUntil
<1> QED
  BY <1>5 DEF Working

(* Where it does end, the grippers that wait return theirs, and the others     *)
(* have boxes to drop yet.                                                     *)
LEMMA WorkAfterReturn ==
  ASSUME OneBoxEach, WavesKeepApart, TypeInv, CountInv, NEW g \in Gripper, Working(g),
         arm[g] \in {"picking", "holding"}, g \notin Waiting, pc = "return", pc' = "settle",
         UNCHANGED <<plan, b, held, task, dropped>>, arm'[g] = arm[g]
  PROVE  Working(g)'
<1>1. plan \in Plans /\ b \in 1..Len(plan.batches) /\ dropped = Served(Batch)
  BY DEF TypeInv, PlaceInv, CountInv, Going
<1>2. PICK n \in 1..Len(plan.batches) : \E c \in Range(Commands(plan.batches[n])) : WorksAt(g, n, c)
  BY DEF Working
<1> PICK c \in Range(Commands(plan.batches[n])) : WorksAt(g, n, c)
  BY <1>2
<1>3. Counted /\ ~Settling /\ Counted' /\ Settling'
  BY DEF Counted, Settling
<1>4. n \in Nat /\ b \in Nat /\ c.place \in Nat \ {0}
  BY <1>1, CommandNumbers
<1>5. c.g = g /\ n <= b
  BY DEF WorksAt
<1>6. arm[g] = "picking" \/ held[g] # <<>> => LastsUntil(n, b + 1)
  <2> SUFFICES ASSUME arm[g] = "picking" \/ held[g] # <<>> PROVE b + 1 <= n + c.place - 1
    BY DEF LastsUntil
  <2>1. task[g].left # 0
    <3>1. CASE arm[g] = "picking"
      BY <1>4, <3>1 DEF WorksAt
    <3>2. CASE arm[g] = "holding" /\ held[g] # <<>>
      BY <3>2 DEF Waiting
    <3> QED
      BY <3>1, <3>2
  <2>2. n + c.place > Turns(g)
    BY <2>1 DEF WorksAt
  <2>3. CASE g \in dropped
    BY <1>3, <1>4, <2>2, <2>3 DEF Turns
  <2>4. CASE g \notin dropped
    <3>1. n + c.place <= b
      BY <1>1, <1>5, <2>4, ServesOrDone
    <3> QED
      BY <1>4, <2>2, <2>4, <3>1 DEF Turns
  <2> QED
    BY <2>3, <2>4
<1>7. WorksAt(g, n, c)'
  BY <1>3, <1>6 DEF WorksAt, Turns, LastsUntil
<1> QED
  BY <1>7 DEF Working

(* The gripper that is set off next has not dropped a box of the batch yet. *)
LEMMA NextCommand ==
  ASSUME OneBoxEach, TypeInv, PhaseInv, TriggerGripper,
         NEW g, g = Commands(Batch)[k].g
  PROVE  /\ plan \in Plans /\ b \in 1..Len(plan.batches) /\ k \in 1..Len(Commands(Batch))
         /\ Commands(Batch)[k] \in Range(Commands(plan.batches[b]))
         /\ g \in Gripper /\ g \in Served(Batch) /\ g \notin dropped
<1> PICK c : c = Commands(Batch)[k]
  OBVIOUS
<1>1. plan \in Plans /\ b \in 1..Len(plan.batches) /\ k \in 1..Len(Commands(Batch))
  BY DEF TriggerGripper, TypeInv, PlaceInv, Going
<1>2. c \in Range(Commands(plan.batches[b])) /\ c.g = g /\ g \in Gripper
  <2>1. c \in PickStep /\ c \in Range(Commands(Batch))
    BY <1>1, BatchType
  <2> QED
    BY <2>1 DEF PickStep, Batch
<1>3. g \in Served(Batch)
  BY <1>1, <1>2, CommandsType DEF Batch
<1>4. g \notin dropped
  <2> SUFFICES ASSUME g \in dropped PROVE FALSE
    OBVIOUS
  <2>1. PICK i \in 1..(k - 1) : c.g = Commands(Batch)[i].g
    BY <1>2 DEF PhaseInv, Commanded, TriggerGripper
  <2>2. i \in 1..Len(Commands(plan.batches[b])) /\ k \in 1..Len(Commands(plan.batches[b])) /\ i # k
    BY <1>1, BatchType DEF Batch
  <2> QED
    BY <1>1, <2>1, <2>2, CommandsType DEF Batch
<1> QED
  BY <1>1, <1>2, <1>3, <1>4

(* A gripper that is set off starts on the command it is set off for. *)
LEMMA WorkStarts ==
  ASSUME OneBoxEach, TypeInv, PhaseInv, TriggerGripper,
         NEW g, g = Commands(Batch)[k].g, Still(g)
  PROVE  Working(g)'
<1> PICK c : c = Commands(Batch)[k]
  OBVIOUS
<1> PICK n : n = b
  OBVIOUS
<1>1. plan \in Plans /\ b \in 1..Len(plan.batches)
  BY NextCommand
<1>2. c \in Range(Commands(plan.batches[n])) /\ c.g = g /\ g \in Gripper
  BY NextCommand
<1>3. c.place \in Nat \ {0} /\ n \in Nat
  BY <1>1, <1>2, CommandNumbers
<1>4. g \notin dropped
  BY NextCommand
<1>5. /\ pc' \in {"trigger", "await_complete"} /\ b' = b /\ UNCHANGED <<plan, held, dropped>>
      /\ arm' = [arm EXCEPT ![g] = "picking"]
      /\ task' = [task EXCEPT ![g] = [loc |-> c.loc, count |-> Len(c.picked), left |-> c.place]]
  BY DEF TriggerGripper, Goto, lineVars
<1>6. /\ arm'[g] = "picking"
      /\ task'[g] = [loc |-> c.loc, count |-> Len(c.picked), left |-> c.place]
  BY <1>2, <1>5 DEF TypeInv, DeviceInv
<1>7. /\ Counted' /\ ~Settling' /\ g \notin dropped'
      /\ task'[g].left = c.place /\ task'[g].count = Len(c.picked) /\ task'[g].loc = c.loc
  BY <1>4, <1>5, <1>6 DEF Counted, Settling
<1>8. n <= n + c.place - 1 /\ n + c.place > n /\ n + c.place - n = c.place /\ n <= n
  BY <1>3
<1>9. LastsUntil(n, b)'
  BY <1>2, <1>5, <1>8 DEF LastsUntil
<1>10. task'[g].left = IF n + c.place > Turns(g)' THEN n + c.place - Turns(g)' ELSE 0
  <2>1. Turns(g)' = n
    BY <1>5, <1>7 DEF Turns
  <2> QED
    BY <1>7, <1>8, <2>1
<1>11. WorksAt(g, n, c)'
  <2>1. (Len(c.picked) > c.place /\ (arm[g] = "picking" \/ held[g] # <<>>) =>
           LastsUntil(n, IF Settling THEN b + 1 ELSE b))'
    BY <1>5, <1>7, <1>9
  <2> QED
    BY <1>2, <1>5, <1>6, <1>7, <1>8, <1>10, <2>1 DEF WorksAt
<1> QED
  BY <1>1, <1>2, <1>5, <1>11 DEF Working

(* It takes no more boxes than it was told to. *)
LEMMA WorkPickedUp ==
  ASSUME OneBoxEach, TypeInv, NEW g \in Gripper, Working(g), PickUp(g)
  PROVE  Working(g)'
<1>1. PICK n \in 1..Len(plan.batches) : \E c \in Range(Commands(plan.batches[n])) : WorksAt(g, n, c)
  BY DEF Working
<1> PICK c \in Range(Commands(plan.batches[n])) : WorksAt(g, n, c)
  BY <1>1
<1>2. /\ UNCHANGED <<plan, pc, b, dropped, task>> /\ arm[g] = "picking"
      /\ arm' = [arm EXCEPT ![g] = "holding"]
  BY DEF PickUp, hostVars, lineVars
<1>3. plan \in Plans /\ task[g] \in PickTask
  BY <1>2 DEF TypeInv, PlaceInv, DeviceInv
<1>4. c.place \in Nat /\ Len(c.picked) \in Nat
  BY <1>3, CommandsType
<1>5. Len(held'[g]) \in Nat /\ Len(held'[g]) <= Len(c.picked)
  <2> DEFINE slot == shelf[task[g].loc]
             m == Min({task[g].count, Len(slot)})
  <2>1. task[g].loc \in Location /\ task[g].count \in Nat /\ task[g].count = Len(c.picked)
    BY <1>3 DEF PickTask, WorksAt
  <2>2. slot \in Seq(Sku) /\ Len(slot) \in Nat
    BY <2>1 DEF TypeInv, DeviceInv
  <2>3. m \in 0..Len(slot) /\ m <= Len(c.picked)
    BY <2>1, <2>2 DEF Min
  <2>4. held' = [held EXCEPT ![g] = SubSeq(slot, 1, m)]
    BY DEF PickUp
  <2>5. held'[g] = SubSeq(slot, 1, m)
    BY <2>4 DEF TypeInv, DeviceInv
  <2> HIDE DEF slot, m
  <2>6. Len(SubSeq(slot, 1, m)) = m
    BY <2>2, <2>3
  <2> QED
    BY <1>4, <2>3, <2>5, <2>6
<1>6. arm'[g] = "holding"
  BY <1>2 DEF TypeInv, DeviceInv
<1>7. task[g].left = c.place
  BY <1>2 DEF WorksAt
<1>8. Len(held'[g]) + c.place <= Len(c.picked) + task[g].left
  BY <1>4, <1>5, <1>7
<1>9. Counted' = Counted /\ Settling' = Settling
  BY <1>2 DEF Counted, Settling
<1>10. WorksAt(g, n, c)'
  BY <1>2, <1>6, <1>8, <1>9 DEF WorksAt, Turns, LastsUntil
<1> QED
  BY <1>2, <1>10 DEF Working

(* With each box dropped it has had its turn in this batch. *)
LEMMA WorkDropped ==
  ASSUME OneBoxEach, WavesKeepApart, TypeInv, HandInv, Going, NEW g \in Gripper, DropBox(g)
  PROVE  Working(g)'
<1>1. /\ UNCHANGED <<plan, pc, b, arm>> /\ arm[g] = "holding" /\ task[g].left > 0
      /\ held[g] # <<>> /\ held' = [held EXCEPT ![g] = Tail(held[g])]
      /\ task' = [task EXCEPT ![g].left = task[g].left - 1]
      /\ dropped' = dropped \cup {g} /\ g \notin dropped
  BY DEF DropBox, hostVars
<1>2. PICK n \in 1..Len(plan.batches) : \E c \in Range(Commands(plan.batches[n])) : WorksAt(g, n, c)
  BY <1>1 DEF HandInv, Working
<1> PICK c \in Range(Commands(plan.batches[n])) : WorksAt(g, n, c)
  BY <1>2
<1>3. /\ pc \in {"trigger", "await_complete"} /\ b \in 1..Len(plan.batches) /\ plan \in Plans
      /\ task[g] \in PickTask
  BY <1>1, DropServes DEF TypeInv, PlaceInv, DeviceInv
<1>4. n \in Nat /\ b \in Nat /\ c.place \in Nat /\ Len(c.picked) \in Nat
  BY <1>3, CommandNumbers
<1>5. Counted /\ Counted' /\ ~Settling /\ ~Settling'
  BY <1>1, <1>3 DEF Counted, Settling
<1>6. task[g].left = n + c.place - b /\ n + c.place > b
  <2>1. task[g].left = IF n + c.place > b THEN n + c.place - b ELSE 0
    BY <1>1 DEF WorksAt, Turns
  <2> QED
    BY <1>1, <2>1
<1>7. /\ task'[g] = [task[g] EXCEPT !.left = task[g].left - 1]
      /\ held'[g] = Tail(held[g]) /\ held[g] \in Seq(Sku)
  <2>1. g \in DOMAIN task /\ g \in DOMAIN held /\ held[g] \in Seq(Sku)
    BY DEF TypeInv, DeviceInv
  <2>2. task'[g] = [task[g] EXCEPT !.left = task[g].left - 1]
    BY <1>1, <2>1
  <2>3. held'[g] = Tail(held[g])
    BY <1>1, <2>1
  <2> QED
    BY <2>1, <2>2, <2>3
<1>8. /\ task'[g].left = task[g].left - 1 /\ task'[g].count = task[g].count
      /\ task'[g].loc = task[g].loc
  BY <1>3, <1>7 DEF PickTask
<1>9. Turns(g)' = b + 1
  BY <1>1, <1>5 DEF Turns
<1>10. task'[g].left = IF n + c.place > b + 1 THEN n + c.place - (b + 1) ELSE 0
  <2> DEFINE p == c.place
             l == task[g].left
  <2>1. p \in Nat /\ l = n + p - b /\ n + p > b /\ task'[g].left = l - 1
    BY <1>4, <1>6, <1>8
  <2> HIDE DEF p, l
  <2>2. task'[g].left = IF n + p > b + 1 THEN n + p - (b + 1) ELSE 0
    BY <1>4, <2>1
  <2> QED
    BY <2>2 DEF p
<1>11. Len(held'[g]) + c.place <= Len(c.picked) + task'[g].left
  <2>1. Len(held[g]) + c.place <= Len(c.picked) + task[g].left
    BY <1>1 DEF WorksAt
  <2>2. Len(held'[g]) = Len(held[g]) - 1 /\ Len(held[g]) \in Nat
    <3> DEFINE s == held[g]
    <3>1. s \in Seq(Sku) /\ s # <<>> /\ held'[g] = Tail(s)
      BY <1>1, <1>7
    <3> HIDE DEF s
    <3>2. Len(Tail(s)) = Len(s) - 1 /\ Len(s) \in Nat
      BY <3>1
    <3> QED
      BY <3>1, <3>2 DEF s
  <2>3. task[g].left \in Nat
    BY <1>4, <1>6
  <2> DEFINE m == Len(held[g])
             l == task[g].left
  <2> HIDE DEF m, l
  <2>4. m + c.place <= Len(c.picked) + l /\ m \in Nat /\ l \in Nat
    BY <2>1, <2>2, <2>3 DEF m, l
  <2>5. Len(held'[g]) = m - 1 /\ task'[g].left = l - 1
    BY <1>8, <2>2 DEF m, l
  <2> QED
    BY <1>4, <2>4, <2>5
<1>12. held'[g] # <<>> => held[g] # <<>>
  BY <1>1
<1>13. (Len(c.picked) > c.place /\ (arm[g] = "picking" \/ held[g] # <<>>) =>
           LastsUntil(n, IF Settling THEN b + 1 ELSE b))'
  BY <1>1, <1>5, <1>12 DEF WorksAt, LastsUntil
<1>14. WorksAt(g, n, c)'
  BY <1>1, <1>5, <1>8, <1>9, <1>10, <1>11, <1>13 DEF WorksAt
<1> QED
  BY <1>1, <1>14 DEF Working

(* What a gripper works at depends on where the worker is in four places only. *)
LEMMA WorkFrame ==
  ASSUME PlaceInv, Worker, Going', b' = b, ~WriteBatchCount, ~CommandReturn, ~(Announce /\ pc' = "store")
  PROVE  (Counted' <=> Counted) /\ (Settling' <=> Settling) /\ dropped' = dropped
<1>1. dropped' = dropped
  BY DEF Worker, Stay, BackwardsDone, CommandBackward, BackwardComplete, MovesDone,
         MoveGripperIdle, CommandMove, MoveComplete, RefillsDone, FrontClear, CommandForward,
         ForwardComplete, StartBatch, AllGrippersIdle, TriggerGripper, BatchComplete, Announce,
         Settled, ReturnComplete, UpdateStore, PlanDone, ClearOutboundComplete, lineVars
<1>2. CASE BackwardsDone \/ CommandBackward \/ BackwardComplete \/ MovesDone
           \/ MoveGripperIdle \/ CommandMove \/ MoveComplete \/ RefillsDone \/ FrontClear
           \/ CommandForward \/ ForwardComplete \/ PlanDone
  <2>1. /\ pc \in {"backward", "await_backward", "move", "command_move", "await_move", "refill",
                  "command_forward", "await_forward"}
        /\ pc' \in {"backward", "await_backward", "move", "command_move", "await_move", "refill",
                   "command_forward", "await_forward", "batch", "done", "inconsistent"}
    BY <1>2 DEF BackwardsDone, CommandBackward, BackwardComplete, MovesDone, MoveGripperIdle,
       CommandMove, MoveComplete, RefillsDone, FrontClear, CommandForward, ForwardComplete,
       PlanDone, Goto
  <2> QED
    BY <1>1, <2>1 DEF Counted, Settling
<1>3. CASE StartBatch \/ AllGrippersIdle \/ ClearOutboundComplete
  <2>1. /\ pc \in {"batch", "await_idle", "clear"}
        /\ pc' \in {"backward", "await_idle", "clear", "count", "inconsistent"}
    BY <1>3 DEF StartBatch, AllGrippersIdle, ClearOutboundComplete, Goto
  <2> QED
    BY <1>1, <2>1 DEF Counted, Settling
<1>4. CASE TriggerGripper \/ BatchComplete \/ Announce
  <2>1. /\ pc \in {"trigger", "await_complete", "announce"}
        /\ pc' \in {"trigger", "await_complete", "announce", "return"}
    BY <1>4 DEF TriggerGripper, BatchComplete, Announce, Goto, Going
  <2> QED
    BY <1>1, <2>1 DEF Counted, Settling
<1>5. CASE Settled \/ ReturnComplete \/ UpdateStore
  <2>1. pc \in {"settle", "await_return", "store"} /\ pc' \in {"await_return", "store"}
    <3>1. CASE Settled \/ ReturnComplete
      BY <3>1 DEF Settled, ReturnComplete
    <3>2. CASE UpdateStore
      <4>1. pc = "store" /\ (pc' = pc \/ pc' = "inconsistent" \/ b' = b + 1)
        BY <3>2 DEF UpdateStore
      <4>2. b' # b + 1
        BY PlanType DEF PlaceInv
      <4> QED
        BY <4>1, <4>2 DEF Going
    <3> QED
      BY <1>5, <3>1, <3>2
  <2> QED
    BY <1>1, <2>1 DEF Counted, Settling
<1> QED
  BY <1>2, <1>3, <1>4, <1>5 DEF Worker

(* The machinery drops a box or leaves the worker and the count alone. *)
LEMMA MachineryFrame ==
  ASSUME Machinery \/ Poll
  PROVE  /\ UNCHANGED <<plan, pc, b, k, refills>>
         /\ Counted' = Counted /\ Settling' = Settling
         /\ dropped' = dropped \/ \E g \in Gripper : DropBox(g)
  BY DEF Machinery, Poll, PickUp, DropBox, GoHome, ReturnBoxes, Lift, Lower, CompleteBatch,
         RunBelt, hostVars, lineVars, Counted, Settling

LEMMA HandStep ==
  ASSUME OneBoxEach, WavesKeepApart, TypeInv, HandInv, CountInv, PhaseInv, Next
  PROVE  HandInv'
<1> SUFFICES ASSUME Going', NEW h \in Gripper, arm'[h] \in {"picking", "holding"}
             PROVE  Working(h)'
  BY DEF HandInv
<1>1. /\ Going /\ plan' = plan /\ (arm[h] \in {"picking", "holding"} => Working(h))
      /\ arm \in [Gripper -> {"idle", "picking", "holding", "returning", "lifting", "lowering"}]
      /\ held \in [Gripper -> Seq(Sku)] /\ DOMAIN task = Gripper
  BY BatchOrder DEF HandInv, TypeInv, DeviceInv
<1>2. CASE /\ arm'[h] = arm[h] /\ held'[h] = held[h] /\ task'[h] = task[h]
           /\ b' = b /\ (Counted' <=> Counted) /\ (Settling' <=> Settling)
           /\ (h \in dropped' <=> h \in dropped)
  BY <1>1, <1>2, WorkGoesOn
<1>3. CASE WriteBatchCount
  BY <1>1, <1>3, WorkAfterCount DEF WriteBatchCount, armVars
<1>4. CASE CommandReturn
  <2>1. /\ arm' = [g \in Gripper |-> IF g \in Waiting THEN "returning" ELSE arm[g]]
        /\ pc = "return" /\ pc' = "settle" /\ UNCHANGED <<plan, b, held, task, dropped>>
    BY <1>4 DEF CommandReturn, lineVars
  <2>2. h \notin Waiting /\ arm'[h] = arm[h]
    BY <2>1
  <2>3. Working(h) /\ arm[h] \in {"picking", "holding"}
    BY <1>1, <2>2
  <2> QED
    BY <2>1, <2>2, <2>3, WorkAfterReturn
<1>5. CASE Announce /\ pc' = "store"
  <2>1. /\ pc = "announce" /\ b \notin ReturnsAfter
        /\ UNCHANGED <<plan, b, arm, held, task, dropped>>
    BY <1>5 DEF Announce, Stay, armVars, lineVars
  <2> QED
    BY <1>1, <1>5, <2>1, WorkAfterAnnounce
<1>6. CASE Worker /\ b' # b
  <2>1. UNCHANGED <<arm, held, task>> /\ pc' = "backward" /\ b' = b + 1
        /\ (pc = "store" \/ (pc = "batch" /\ OutboundCount(Batch) = 0))
    BY <1>6 DEF Worker, Stay, armVars, BackwardsDone, CommandBackward, BackwardComplete,
         MovesDone, MoveGripperIdle, CommandMove, MoveComplete, RefillsDone, FrontClear,
         CommandForward, ForwardComplete, StartBatch, AllGrippersIdle, TriggerGripper,
         BatchComplete, Announce, CommandReturn, Settled, ReturnComplete, UpdateStore, PlanDone,
         ClearOutboundComplete, WriteBatchCount, Goto
  <2>2. Working(h)
    BY <1>1, <2>1
  <2>3. CASE pc = "store"
    BY <1>1, <2>1, <2>2, <2>3, WorkAfterBatch
  <2>4. CASE pc = "batch" /\ OutboundCount(Batch) = 0
    BY <1>1, <2>1, <2>2, <2>4, WorkAfterSkip
  <2> QED
    BY <2>1, <2>3, <2>4
<1>7. CASE /\ Worker /\ b' = b /\ ~WriteBatchCount /\ ~CommandReturn
           /\ ~(Announce /\ pc' = "store")
  <2>1. (Counted' <=> Counted) /\ (Settling' <=> Settling) /\ dropped' = dropped
    BY <1>7, WorkFrame DEF TypeInv
  <2>2. CASE TriggerGripper
    <3> PICK g : g = Commands(Batch)[k].g
      OBVIOUS
    <3>1. CASE Still(g) /\ h = g
      BY <2>2, <3>1, WorkStarts
    <3>2. CASE ~(Still(g) /\ h = g)
      <4>1. arm'[h] = arm[h] /\ held'[h] = held[h] /\ task'[h] = task[h]
        BY <1>1, <2>2, <3>2 DEF TriggerGripper
      <4> QED
        BY <1>2, <1>7, <2>1, <4>1
    <3> QED
      BY <3>1, <3>2
  <2>3. CASE CommandMove
    <3>1. arm'[h] = arm[h] /\ held'[h] = held[h] /\ task'[h] = task[h]
      BY <1>1, <2>3 DEF CommandMove
    <3> QED
      BY <1>2, <1>7, <2>1, <3>1
  <2>4. CASE ~TriggerGripper /\ ~CommandMove
    <3>1. UNCHANGED <<arm, held, task>>
      BY <1>7, <2>4, DevicesFrame DEF CommandBackward, CommandForward, armVars
    <3> QED
      BY <1>2, <1>7, <2>1, <3>1
  <2> QED
    BY <2>2, <2>3, <2>4
<1>8. CASE Abandon
  BY <1>1, <1>8 DEF Abandon, Going
<1>9. ASSUME NEW g \in Gripper, PickUp(g)
      PROVE  Working(h)'
  <2>1. CASE h = g
    BY <1>1, <1>9, <2>1, WorkPickedUp DEF PickUp
  <2>2. CASE h # g
    <3>1. arm'[h] = arm[h] /\ held'[h] = held[h] /\ task'[h] = task[h] /\ dropped' = dropped
      BY <1>1, <1>9, <2>2 DEF PickUp, lineVars
    <3> QED
      BY <1>2, <1>9, <3>1, MachineryFrame DEF Machinery
  <2> QED
    BY <2>1, <2>2
<1>10. ASSUME NEW g \in Gripper, DropBox(g)
       PROVE  Working(h)'
  <2>1. CASE h = g
    BY <1>1, <1>10, <2>1, WorkDropped
  <2>2. CASE h # g
    <3>1. /\ arm'[h] = arm[h] /\ held'[h] = held[h] /\ task'[h] = task[h]
          /\ (h \in dropped' <=> h \in dropped)
      BY <1>1, <1>10, <2>2 DEF DropBox
    <3> QED
      BY <1>2, <1>10, <3>1, MachineryFrame DEF Machinery
  <2> QED
    BY <2>1, <2>2
<1>11. ASSUME NEW g \in Gripper, GoHome(g) \/ ReturnBoxes(g) \/ Lift(g) \/ Lower(g)
       PROVE  Working(h)'
  <2>1. h # g /\ arm'[h] = arm[h] /\ held'[h] = held[h] /\ task'[h] = task[h] /\ dropped' = dropped
    BY <1>1, <1>11 DEF GoHome, ReturnBoxes, Lift, Lower, lineVars
  <2> QED
    BY <1>2, <1>11, <2>1, MachineryFrame DEF Machinery
<1>12. CASE CompleteBatch \/ RunBelt \/ Poll
  <2>1. UNCHANGED <<arm, held, task, dropped>>
    BY <1>12 DEF CompleteBatch, RunBelt, Poll, armVars, lineVars
  <2> QED
    BY <1>2, <1>12, <2>1, MachineryFrame DEF Machinery
<1> QED
  BY <1>3, <1>4, <1>5, <1>6, <1>7, <1>8, <1>9, <1>10, <1>11, <1>12 DEF Next, Machinery

-----------------------------------------------------------------------------
(* What the worker knows of the grippers *)

(* A gripper nothing happens to is as well known as before. *)
LEMMA SeenKept ==
  ASSUME NEW g \in Gripper, Seen(g), polled' = polled, fresh' => fresh,
         arm'[g] = arm[g], held'[g] = held[g], task'[g] = task[g],
         pc \in {"trigger", "await_complete"} /\ g \in Served(Batch) \ dropped =>
           (pc \in {"trigger", "await_complete"} /\ g \in Served(Batch) \ dropped)'
  PROVE  Seen(g)'
  BY DEF Seen, Still, Waiting

(* The worker goes on from a batch only when all its boxes are dropped. *)
LEMMA AwaitedStaysAwaited ==
  ASSUME CountInv, TypeInv, Next, Going', dropped' = dropped, NEW g,
         pc \in {"trigger", "await_complete"}, g \in Served(Batch) \ dropped
  PROVE  (pc \in {"trigger", "await_complete"} /\ g \in Served(Batch) \ dropped)'
<1>1. plan' = plan /\ b' = b /\ Going
  BY BatchOrder
<1>2. pc' \in {"trigger", "await_complete"}
  <2>1. CASE pc' # pc
    <3>1. pc' \in {"trigger", "await_complete", "announce", "failed"}
          /\ (pc' = "announce" => complete)
      BY <2>1, WorkerOrder
    <3>2. pc' # "failed"
      BY DEF Going
    <3>3. ~complete
      BY <1>1 DEF CountInv
    <3> QED
      BY <3>1, <3>2, <3>3
  <2> QED
    BY <2>1
<1> QED
  BY <1>1, <1>2 DEF Batch

LEMMA SeenStep ==
  ASSUME OneBoxEach, WavesKeepApart, TypeInv, HandInv, CountInv, SeenInv, PhaseInv, Next
  PROVE  SeenInv'
<1> SUFFICES ASSUME Going', NEW h \in Gripper PROVE Seen(h)'
  BY DEF SeenInv
<1>1. /\ Going /\ plan' = plan /\ Seen(h)
      /\ arm \in [Gripper -> {"idle", "picking", "holding", "returning", "lifting", "lowering"}]
      /\ held \in [Gripper -> Seq(Sku)] /\ DOMAIN task = Gripper
  BY BatchOrder DEF SeenInv, TypeInv, DeviceInv
<1>2. CASE /\ polled' = polled /\ (fresh' => fresh) /\ dropped' = dropped
           /\ arm'[h] = arm[h] /\ held'[h] = held[h] /\ task'[h] = task[h]
  BY <1>1, <1>2, SeenKept, AwaitedStaysAwaited
<1>3. CASE Poll
  <2>1. PICK waiting \in SUBSET Waiting :
           polled' = [running |-> {g \in Gripper : ~Still(g)} \ waiting,
                      front |-> {l \in Level : ~FrontEmpty(shelf, l)},
                      back  |-> {l \in Level : ~BackEmpty(shelf, l)}]
    BY <1>3 DEF Poll
  <2>2. Still(h) \/ h \in polled'.running \/ h \in Waiting
    BY <2>1
  <2>3. (Still(h)' <=> Still(h)) /\ (h \in Waiting' <=> h \in Waiting)
    BY <1>3 DEF Poll, armVars, Still, Waiting
  <2> QED
    BY <2>2, <2>3 DEF Seen
<1>4. CASE WriteBatchCount
  <2>1. /\ pc = "count" /\ UNCHANGED <<plan, arm, held, task, polled, fresh>>
    BY <1>4 DEF WriteBatchCount, armVars, pollVars
  <2> QED
    BY <1>1, <2>1 DEF Seen, Still, Waiting
<1>5. CASE CommandMove
  <2>1. /\ fresh' = FALSE /\ pc' = "await_move" /\ Still(Move.g)
        /\ arm' = [arm EXCEPT ![Move.g] = "lifting"] /\ UNCHANGED <<polled, held, dropped>>
        /\ \A g \in Gripper : g # Move.g => task'[g] = task[g]
    BY <1>1, <1>5 DEF CommandMove, PhaseInv, lineVars
  <2>2. CASE h = Move.g
    BY <1>1, <2>1, <2>2 DEF Seen
  <2>3. CASE h # Move.g
    BY <1>1, <1>2, <2>1, <2>3
  <2> QED
    BY <2>2, <2>3
<1>6. CASE TriggerGripper
  <2> PICK g : g = Commands(Batch)[k].g
    OBVIOUS
  <2>1. g \in Gripper /\ g \in Served(Batch) /\ g \notin dropped
    BY <1>6, NextCommand
  <2>2. pc' \in {"trigger", "await_complete"} /\ UNCHANGED <<plan, b, dropped, polled, fresh, held>>
    BY <1>6 DEF TriggerGripper, Goto, lineVars, pollVars
  <2>3. CASE Still(g) /\ h = g
    <3>1. arm'[h] = "picking"
      BY <1>1, <1>6, <2>3 DEF TriggerGripper
    <3>2. Batch' = Batch
      BY <2>2 DEF Batch
    <3> QED
      BY <2>1, <2>2, <2>3, <3>1, <3>2 DEF Seen
  <2>4. CASE ~(Still(g) /\ h = g)
    <3>1. arm'[h] = arm[h] /\ task'[h] = task[h]
      BY <1>1, <1>6, <2>4 DEF TriggerGripper
    <3> QED
      BY <1>2, <2>2, <3>1
  <2> QED
    BY <2>3, <2>4
<1>7. CASE CommandReturn
  <2>1. /\ arm' = [g \in Gripper |-> IF g \in Waiting THEN "returning" ELSE arm[g]]
        /\ fresh' = FALSE /\ UNCHANGED <<polled, held, task, dropped>>
    BY <1>7 DEF CommandReturn, lineVars
  <2>2. CASE h \in Waiting
    BY <2>1, <2>2 DEF Seen
  <2>3. CASE h \notin Waiting
    BY <1>2, <2>1, <2>3
  <2> QED
    BY <2>2, <2>3
<1>8. CASE Worker /\ ~WriteBatchCount /\ ~CommandMove /\ ~TriggerGripper /\ ~CommandReturn
  <2>1. UNCHANGED <<arm, held, task>>
    BY <1>8, DevicesFrame DEF CommandBackward, CommandForward, armVars
  <2>2. UNCHANGED <<polled, fresh, dropped>>
    BY <1>8 DEF Worker, Stay, BackwardsDone, CommandBackward,
         BackwardComplete, MovesDone, MoveGripperIdle, MoveComplete, RefillsDone,
         FrontClear, CommandForward, ForwardComplete, StartBatch, AllGrippersIdle,
         BatchComplete, Announce, Settled, ReturnComplete, UpdateStore, PlanDone,
         ClearOutboundComplete, lineVars, pollVars
  <2> QED
    BY <1>2, <2>1, <2>2
<1>9. CASE Abandon
  BY <1>9 DEF Abandon, Going
<1>10. ASSUME NEW g \in Gripper, PickUp(g)
       PROVE  Seen(h)'
  <2>1. /\ UNCHANGED <<plan, pc, b, task, polled, fresh, dropped>> /\ arm[g] = "picking"
        /\ arm' = [arm EXCEPT ![g] = "holding"]
        /\ \A j \in Gripper : j # g => held'[j] = held[j]
    BY <1>1, <1>10 DEF PickUp, hostVars, lineVars, pollVars
  <2>2. CASE h = g
    <3>1. /\ arm'[g] = "holding" /\ Batch' = Batch
      BY <1>1, <2>1 DEF Batch
    <3>2. \/ g \in polled.running
          \/ pc \in {"trigger", "await_complete"} /\ g \in Served(Batch) \ dropped
      BY <1>1, <2>1, <2>2 DEF Seen, Still, Waiting
    <3> QED
      BY <2>1, <2>2, <3>1, <3>2 DEF Seen
  <2>3. CASE h # g
    BY <1>1, <1>2, <2>1, <2>3
  <2> QED
    BY <2>2, <2>3
<1>11. ASSUME NEW g \in Gripper, DropBox(g)
       PROVE  Seen(h)'
  <2>1. /\ UNCHANGED <<plan, pc, b, arm, polled, fresh>> /\ g \in polled.running
        /\ dropped' = dropped \cup {g}
        /\ \A j \in Gripper : j # g => held'[j] = held[j] /\ task'[j] = task[j]
    BY <1>1, <1>11 DEF DropBox, hostVars, pollVars
  <2>2. CASE h = g
    BY <2>1, <2>2 DEF Seen
  <2>3. CASE h # g
    <3>1. Batch' = Batch
      BY <2>1 DEF Batch
    <3> QED
      BY <1>1, <2>1, <2>3, <3>1, SeenKept
  <2> QED
    BY <2>2, <2>3
<1>12. ASSUME NEW g \in Gripper, GoHome(g) \/ ReturnBoxes(g) \/ Lower(g)
       PROVE  Seen(h)'
  <2>1. /\ UNCHANGED <<polled, fresh, dropped, task>> /\ arm' = [arm EXCEPT ![g] = "idle"]
        /\ \A j \in Gripper : j # g => held'[j] = held[j]
    BY <1>1, <1>12 DEF GoHome, ReturnBoxes, Lower, lineVars, pollVars
  <2>2. CASE h = g
    BY <1>1, <2>1, <2>2 DEF Seen, Still
  <2>3. CASE h # g
    BY <1>1, <1>2, <2>1, <2>3
  <2> QED
    BY <2>2, <2>3
<1>13. ASSUME NEW g \in Gripper, Lift(g)
       PROVE  Seen(h)'
  <2>1. /\ UNCHANGED <<polled, fresh, dropped, task>> /\ arm' = [arm EXCEPT ![g] = "lowering"]
        /\ arm[g] = "lifting" /\ \A j \in Gripper : j # g => held'[j] = held[j]
    BY <1>1, <1>13 DEF Lift, lineVars, pollVars
  <2>2. CASE h = g
    <3>1. g \in polled.running \/ ~fresh
      BY <1>1, <2>1, <2>2 DEF Seen, Still, Waiting
    <3> QED
      BY <1>1, <2>1, <2>2, <3>1 DEF Seen
  <2>3. CASE h # g
    BY <1>1, <1>2, <2>1, <2>3
  <2> QED
    BY <2>2, <2>3
<1>14. CASE CompleteBatch \/ RunBelt
  <2>1. UNCHANGED <<arm, held, task, dropped, polled, fresh>>
    BY <1>14 DEF CompleteBatch, RunBelt, armVars, lineVars, pollVars
  <2> QED
    BY <1>2, <2>1
<1> QED
  BY <1>3, <1>4, <1>5, <1>6, <1>7, <1>8, <1>9, <1>10, <1>11, <1>12, <1>13, <1>14
     DEF Next, Machinery

-----------------------------------------------------------------------------
(* What the waits of the worker are for *)

(* A gripper that waits holds leftover boxes of a wave that goes on. *)
LEMMA WaitingInWave ==
  ASSUME OneBoxEach, TypeInv, HandInv, Going, pc # "backward", ~Counted,
         NEW g \in Waiting
  PROVE  \E n \in 1..Len(plan.batches) : \E c, d \in Range(Commands(plan.batches[n])) :
           /\ c.g = g /\ Len(c.picked) > c.place
           /\ n < b /\ b <= n + d.place - 1
<1>1. plan \in Plans /\ b \in 1..Len(plan.batches) /\ g \in Gripper
  BY DEF TypeInv, PlaceInv, Waiting
<1>2. arm[g] = "holding" /\ task[g].left = 0 /\ held[g] # <<>>
  BY DEF Waiting
<1>3. PICK n \in 1..Len(plan.batches) : \E c \in Range(Commands(plan.batches[n])) : WorksAt(g, n, c)
  BY <1>1, <1>2 DEF HandInv, Working
<1> PICK c \in Range(Commands(plan.batches[n])) : WorksAt(g, n, c)
  BY <1>3
<1>4. c.place \in Nat /\ Len(c.picked) \in Nat
  BY <1>1, CommandNumbers
<1>5. Len(held[g]) \in Nat \ {0}
  <2> DEFINE s == held[g]
  <2>1. s \in Seq(Sku) /\ s # <<>>
    BY <1>1, <1>2 DEF TypeInv, DeviceInv
  <2> HIDE DEF s
  <2>2. Len(s) \in Nat \ {0}
    BY <2>1, EmptySeq
  <2> QED
    BY <2>2 DEF s
<1>6. Len(held[g]) + c.place <= Len(c.picked) + 0
  BY <1>2 DEF WorksAt
<1>7. Len(c.picked) > c.place
  BY <1>4, <1>5, <1>6
<1>8. c.g = g /\ n < b
  BY DEF WorksAt
<1>9. LastsUntil(n, b)
  BY <1>2, <1>7 DEF WorksAt, Settling, Counted
<1> QED
  BY <1>7, <1>8, <1>9 DEF LastsUntil

(* The wait before new commands: all grippers are back. *)
LEMMA AllIdle ==
  ASSUME OneBoxEach, WavesKeepApart, TypeInv, HandInv, SeenInv, PhaseInv,
         pc = "await_idle", polled.running = {}
  PROVE  \A g \in Gripper : Still(g)
<1> SUFFICES ASSUME NEW g \in Gripper, ~Still(g) PROVE FALSE
  OBVIOUS
<1>1. Going /\ pc # "backward" /\ ~Counted
  BY DEF Going, Counted
<1>2. g \in Waiting
  BY <1>1 DEF SeenInv, Seen, PhaseInv
<1>3. plan \in Plans /\ b \in 1..Len(plan.batches) /\ Commands(Batch) # <<>>
  BY <1>1 DEF TypeInv, PlaceInv
<1>4. PICK n \in 1..Len(plan.batches) : \E c, d \in Range(Commands(plan.batches[n])) :
           c.g = g /\ Len(c.picked) > c.place /\ n < b /\ b <= n + d.place - 1
  BY <1>1, <1>2, WaitingInWave
<1>5. PICK d \in Range(Commands(plan.batches[n])) : n < b /\ b <= n + d.place - 1
  BY <1>4
<1>6. n <= b
  BY <1>3, <1>5, PlanType
<1>7. Commands(plan.batches[b]) = <<>>
  BY <1>3, <1>5, <1>6, StillServing
<1> QED
  BY <1>3, <1>7 DEF Batch

(* The wait before a move: its gripper is idle, or waits with boxes. *)
LEMMA MoveGripperFree ==
  ASSUME TypeInv, SeenInv, PhaseInv, MoveGripperIdle, ~hasty'
  PROVE  Still(Move.g)
<1>1. /\ pc = "move" /\ k <= Len(Batch.moves) /\ Move.g \notin polled.running
      /\ Move.g \notin Waiting
  BY DEF MoveGripperIdle
<1>2. Going /\ pc # "backward" /\ ~Counted
  BY <1>1 DEF Going, Counted
<1>3. k \in 1..Len(Batch.moves)
  BY <1>1, <1>2, BatchType DEF TypeInv, PlaceInv
<1>4. Move.g \in Gripper
  <2>1. Move \in MoveStep
    BY <1>2, <1>3, BatchType DEF Move, TypeInv, PlaceInv
  <2> QED
    BY <2>1 DEF MoveStep
<1> QED
  BY <1>1, <1>2, <1>4 DEF SeenInv, Seen, PhaseInv

(* The wait after a move: its gripper is idle again. *)
LEMMA MoveOver ==
  ASSUME TypeInv, SeenInv, PhaseInv, MoveComplete, ~hasty'
  PROVE  Still(Move.g)
<1>1. pc = "await_move" /\ fresh /\ Move.g \notin polled.running
  BY DEF MoveComplete
<1>2. Move.g \in Gripper
  <2>1. Move \in MoveStep
    BY <1>1, BatchType DEF TypeInv, PlaceInv, Going, Move
  <2> QED
    BY <2>1 DEF MoveStep
<1> QED
  BY <1>1, <1>2 DEF SeenInv, Seen, PhaseInv, Going, Still, Waiting

(* What the machinery does to a gripper. *)
LEMMA ArmsMove ==
  ASSUME DeviceInv, Machinery \/ Poll, NEW h \in Gripper
  PROVE  \/ arm'[h] = arm[h]
         \/ arm[h] = "picking" /\ arm'[h] = "holding"
         \/ arm[h] = "lifting" /\ arm'[h] = "lowering"
         \/ arm'[h] = "idle"
<1>1. arm \in [Gripper -> {"idle", "picking", "holding", "returning", "lifting", "lowering"}]
  BY DEF DeviceInv
<1>2. CASE CompleteBatch \/ RunBelt \/ Poll
  BY <1>2 DEF CompleteBatch, RunBelt, Poll, armVars
<1>3. ASSUME NEW g \in Gripper, PickUp(g) \/ DropBox(g) \/ GoHome(g) \/ ReturnBoxes(g) \/ Lift(g)
                                \/ Lower(g)
      PROVE  \/ arm'[h] = arm[h]
             \/ arm[h] = "picking" /\ arm'[h] = "holding"
             \/ arm[h] = "lifting" /\ arm'[h] = "lowering"
             \/ arm'[h] = "idle"
  BY <1>1, <1>3 DEF PickUp, DropBox, GoHome, ReturnBoxes, Lift, Lower
<1> QED
  BY <1>2, <1>3 DEF Machinery

LEMMA PhaseStep ==
  ASSUME OneBoxEach, WavesKeepApart, TypeInv, HandInv, SeenInv, PhaseInv, Next, ~hasty'
  PROVE  PhaseInv'
<1>1. /\ plan' = plan /\ plan \in Plans
      /\ arm \in [Gripper -> {"idle", "picking", "holding", "returning", "lifting", "lowering"}]
  BY BatchOrder DEF TypeInv, PlaceInv, DeviceInv
<1>2. CASE Machinery \/ Poll
  <2>1. UNCHANGED <<plan, pc, b, k>>
    BY <1>2, MachineryFrame
  <2>2. UNCHANGED <<Move, Batch, Commanded, Going>>
    BY <2>1 DEF Move, Batch, Commanded, Going
  <2>3. \A h \in Gripper :
          \/ arm'[h] = arm[h]
          \/ arm[h] = "picking" /\ arm'[h] = "holding"
          \/ arm[h] = "lifting" /\ arm'[h] = "lowering"
          \/ arm'[h] = "idle"
    BY <1>2, ArmsMove DEF TypeInv
  <2>4. \A h \in Gripper : Still(h) => Still(h)'
    BY <2>3 DEF Still
  <2>5. pc \in {"command_move", "await_move"} => Move.g \in Gripper
    <3> SUFFICES ASSUME pc \in {"command_move", "await_move"} PROVE Move.g \in Gripper
      OBVIOUS
    <3>1. Move \in MoveStep
      BY BatchType DEF TypeInv, PlaceInv, Going, Move
    <3> QED
      BY <3>1 DEF MoveStep
  <2>6. fresh => fresh'
    BY <1>2 DEF Machinery, Poll, PickUp, DropBox, GoHome, ReturnBoxes, Lift, Lower,
                CompleteBatch, RunBelt, pollVars
  <2>7. pc = "trigger" => dropped' \subseteq Commanded
    <3> SUFFICES ASSUME pc = "trigger" PROVE dropped' \subseteq Commanded
      OBVIOUS
    <3>1. CASE dropped' = dropped
      BY <3>1 DEF PhaseInv
    <3>2. ASSUME NEW g \in Gripper, DropBox(g) PROVE dropped' \subseteq Commanded
      BY <3>2 DEF DropBox, PhaseInv, Still
    <3> QED
      BY <1>2, <3>1, <3>2, MachineryFrame
  <2>8. (pc = "command_move" => Still(Move.g))'
    BY <2>1, <2>2, <2>4, <2>5 DEF PhaseInv
  <2>9. (pc = "await_move" => arm[Move.g] \in {"idle", "lifting", "lowering"})'
    BY <2>1, <2>2, <2>3, <2>5 DEF PhaseInv
  <2>10. (Going => \A g \in Gripper :
           /\ arm[g] \in {"lifting", "lowering"} => pc = "await_move" /\ g = Move.g
           /\ arm[g] = "returning" => pc \in {"settle", "await_return"})'
    BY <2>1, <2>2, <2>3 DEF PhaseInv
  <2>11. (pc \in {"clear", "count"} /\ Commands(Batch) # <<>> => \A g \in Gripper : Still(g))'
    BY <2>1, <2>2, <2>4 DEF PhaseInv
  <2>12. (pc = "trigger" => /\ \A g \in Gripper : Still(g) \/ g \in Commanded
                            /\ dropped \subseteq Commanded)'
    BY <2>1, <2>2, <2>4, <2>7 DEF PhaseInv
  <2>13. (pc = "await_return" => fresh)'
    BY <2>1, <2>6 DEF PhaseInv
  <2> QED
    BY <2>8, <2>9, <2>10, <2>11, <2>12, <2>13 DEF PhaseInv
<1>3. CASE /\ UNCHANGED arm
           /\ Going => pc \notin {"await_move", "settle", "await_return"}
           /\ Going' => Going
           /\ pc' \notin {"command_move", "await_move", "await_return", "clear", "count", "trigger"}
  BY <1>3 DEF PhaseInv
<1>4. CASE \/ BackwardsDone \/ CommandBackward \/ BackwardComplete \/ MovesDone \/ RefillsDone
           \/ FrontClear \/ CommandForward \/ ForwardComplete \/ BatchComplete \/ Announce
           \/ UpdateStore \/ PlanDone
  <2>1. /\ UNCHANGED arm /\ pc \notin {"await_move", "settle", "await_return"}
        /\ pc' \notin {"command_move", "await_move", "await_return", "clear", "count", "trigger"}
    BY <1>4 DEF BackwardsDone, CommandBackward, BackwardComplete, MovesDone, RefillsDone,
       FrontClear, CommandForward, ForwardComplete, BatchComplete, Announce, UpdateStore,
       PlanDone, Goto, Stay, armVars
  <2> QED
    BY <1>3, <2>1, BatchOrder
<1>5. CASE Abandon
  BY <1>1, <1>5 DEF Abandon, Going, PhaseInv
<1>6. CASE MoveGripperIdle
  <2>1. /\ pc = "move" /\ k <= Len(Batch.moves) /\ Move.g \notin polled.running
        /\ pc' = "command_move" /\ UNCHANGED <<plan, b, k, arm>>
    BY <1>6 DEF MoveGripperIdle, Stay, armVars
  <2>2. Still(Move.g)
    BY <1>6, MoveGripperFree
  <2>3. Still(Move.g)'
    BY <2>1, <2>2 DEF Still, Move, Batch
  <2>4. \A g \in Gripper : arm'[g] \notin {"lifting", "lowering", "returning"}
    BY <2>1 DEF PhaseInv, Going
  <2> QED
    BY <2>1, <2>3, <2>4 DEF PhaseInv
<1>7. CASE CommandMove
  <2>1. /\ pc = "command_move" /\ pc' = "await_move" /\ UNCHANGED <<plan, b, k>>
        /\ arm' = [arm EXCEPT ![Move.g] = "lifting"]
    BY <1>7 DEF CommandMove, PhaseInv
  <2>2. Move' = Move
    BY <2>1 DEF Move, Batch
  <2>3. \A g \in Gripper : arm[g] \notin {"lifting", "lowering", "returning"}
    BY <2>1 DEF PhaseInv, Going
  <2>4. Move.g \in Gripper
    <3>1. Move \in MoveStep
      BY <2>1, BatchType DEF TypeInv, PlaceInv, Going, Move
    <3> QED
      BY <3>1 DEF MoveStep
  <2> QED
    BY <1>1, <2>1, <2>2, <2>3, <2>4 DEF PhaseInv
<1>8. CASE MoveComplete
  <2>1. /\ pc = "await_move" /\ pc' \in {"move", "inconsistent"} /\ UNCHANGED arm /\ Going
    BY <1>8 DEF MoveComplete, Stay, armVars, Going
  <2>2. \A g \in Gripper : arm[g] \notin {"lifting", "lowering", "returning"}
    <3>1. Still(Move.g)
      BY <1>8, MoveOver
    <3> QED
      BY <2>1, <3>1 DEF PhaseInv, Still
  <2> QED
    BY <2>1, <2>2 DEF PhaseInv
<1>9. CASE StartBatch
  <2>1. /\ pc = "batch" /\ UNCHANGED arm /\ plan' = plan
        /\ pc' \in {"backward", "inconsistent", "await_idle", "clear"}
        /\ (pc' = "clear" => b' = b /\ Commands(Batch) = <<>>)
    BY <1>9 DEF StartBatch, Stay, armVars, Goto
  <2>2. \A g \in Gripper : arm'[g] \notin {"lifting", "lowering", "returning"}
    BY <2>1 DEF PhaseInv, Going
  <2>3. (pc \in {"clear", "count"} => Commands(Batch) = <<>>)'
    BY <2>1 DEF Batch
  <2> QED
    BY <2>1, <2>2, <2>3 DEF PhaseInv
<1>10. CASE AllGrippersIdle
  <2>1. pc = "await_idle" /\ pc' = "clear" /\ UNCHANGED arm /\ polled.running = {}
    BY <1>10 DEF AllGrippersIdle, Stay, armVars
  <2>2. \A g \in Gripper : Still(g)
    BY <2>1, AllIdle
  <2> QED
    BY <2>1, <2>2 DEF PhaseInv, Still
<1>11. CASE ClearOutboundComplete
  <2>1. pc = "clear" /\ pc' = "count" /\ UNCHANGED <<plan, b, arm>>
    BY <1>11 DEF ClearOutboundComplete, armVars
  <2>2. Batch' = Batch
    BY <2>1 DEF Batch
  <2>3. \A g \in Gripper : arm'[g] \notin {"lifting", "lowering", "returning"}
    BY <2>1 DEF PhaseInv, Going
  <2>4. (pc \in {"clear", "count"} /\ Commands(Batch) # <<>> => \A g \in Gripper : Still(g))'
    BY <2>1, <2>2 DEF PhaseInv, Still
  <2> QED
    BY <2>1, <2>3, <2>4 DEF PhaseInv
<1>12. CASE WriteBatchCount
  <2>1. /\ pc = "count" /\ pc' \in {"trigger", "await_complete"} /\ UNCHANGED <<plan, b, arm>>
        /\ dropped' = {} /\ (pc' = "trigger" => Commands(Batch) # <<>>)
    BY <1>12 DEF WriteBatchCount, armVars, Goto
  <2>2. \A g \in Gripper : arm'[g] \notin {"lifting", "lowering", "returning"}
    BY <2>1 DEF PhaseInv, Going
  <2>3. pc' = "trigger" => \A g \in Gripper : Still(g)'
    BY <2>1 DEF PhaseInv, Still
  <2> QED
    BY <2>1, <2>2, <2>3 DEF PhaseInv
<1>13. CASE TriggerGripper
  <2> PICK g : g = Commands(Batch)[k].g
    OBVIOUS
  <2>1. /\ pc = "trigger" /\ UNCHANGED <<plan, b, dropped>>
        /\ \/ pc' = "trigger" /\ k' = k + 1
           \/ pc' = "await_complete"
        /\ arm' = [arm EXCEPT ![g] = "picking"] \/ arm' = arm
    BY <1>13 DEF TriggerGripper, Goto, lineVars
  <2>2. g \in Gripper /\ k \in 1..Len(Commands(Batch)) /\ Len(Commands(Batch)) \in Nat
    BY <1>1, <1>13, NextCommand, BatchType
  <2>3. \A h \in Gripper : /\ arm'[h] \notin {"lifting", "lowering", "returning"}
                           /\ arm'[h] = arm[h] \/ h = g
    BY <1>1, <2>1, <2>2 DEF PhaseInv, Going
  <2>4. pc' = "trigger" => g \in Commanded' /\ Commanded \subseteq Commanded'
    <3> SUFFICES ASSUME pc' = "trigger" PROVE g \in Commanded' /\ Commanded \subseteq Commanded'
      OBVIOUS
    <3>1. k' = k + 1 /\ Batch' = Batch /\ k \in Nat \ {0}
      BY <2>1, <2>2 DEF Batch
    <3>2. k \in 1..(k' - 1) /\ \A i \in 1..(k - 1) : i \in 1..(k' - 1)
      BY <3>1
    <3>3. Commanded' = {Commands(Batch)[i].g : i \in 1..(k' - 1)}
      BY <3>1 DEF Commanded
    <3> QED
      BY <3>2, <3>3 DEF Commanded
  <2>5. (pc = "trigger" => /\ \A h \in Gripper : Still(h) \/ h \in Commanded
                           /\ dropped \subseteq Commanded)'
    BY <2>1, <2>3, <2>4 DEF PhaseInv, Still
  <2> QED
    BY <2>1, <2>3, <2>5 DEF PhaseInv
<1>14. CASE CommandReturn
  <2>1. /\ pc = "return" /\ pc' = "settle"
        /\ arm' = [g \in Gripper |-> IF g \in Waiting THEN "returning" ELSE arm[g]]
    BY <1>14 DEF CommandReturn
  <2>2. \A g \in Gripper : arm'[g] \notin {"lifting", "lowering"}
    BY <2>1 DEF PhaseInv, Going
  <2> QED
    BY <2>1, <2>2 DEF PhaseInv
<1>15. CASE Settled
  <2>1. pc = "settle" /\ pc' = "await_return" /\ fresh /\ UNCHANGED <<fresh, arm>>
    BY <1>15 DEF Settled, Stay, armVars, pollVars
  <2> QED
    BY <2>1 DEF PhaseInv, Going
<1>16. CASE ReturnComplete
  <2>1. pc = "await_return" /\ pc' = "store" /\ polled.running = {} /\ UNCHANGED arm
    BY <1>16 DEF ReturnComplete, Stay, armVars
  <2>2. \A g \in Gripper : arm[g] \notin {"lifting", "lowering", "returning"}
    BY <2>1 DEF PhaseInv, SeenInv, Seen, Going, Still, Waiting
  <2> QED
    BY <2>1, <2>2 DEF PhaseInv
<1> QED
  BY <1>2, <1>4, <1>5, <1>6, <1>7, <1>8, <1>9, <1>10, <1>11, <1>12, <1>13, <1>14, <1>15, <1>16
     DEF Next, Worker

-----------------------------------------------------------------------------
(* The fronts *)

(* A conveyor run empties the front of its level or fills no other. *)
LEMMA FrontOfRun ==
  ASSUME NEW s \in [Location -> Seq(Sku)], NEW at \in Level, NEW level \in Level,
         FrontEmpty(s, level)
  PROVE  /\ FrontEmpty(FrontToBack(s, at), level)
         /\ level # at => FrontEmpty(BackToFront(s, at), level)
<1> SUFFICES ASSUME NEW loc \in FrontSlots(level)
             PROVE  /\ FrontToBack(s, at)[loc] = <<>>
                    /\ level # at => BackToFront(s, at)[loc] = <<>>
  BY DEF FrontEmpty
<1>1. /\ loc \in Location /\ loc[1] = level[1] /\ loc[2] = level[2] /\ loc[3] \in {1, 2}
      /\ level = <<level[1], level[2]>> /\ at = <<at[1], at[2]>>
  BY DEF FrontSlots, Slot, Level, Location, Position
<1>2. s[loc] = <<>>
  BY DEF FrontEmpty
<1>3. loc \notin BackSlots(at)
  BY <1>1 DEF BackSlots, Slot
<1>4. FrontToBack(s, at)[loc] = <<>>
  BY <1>1, <1>2, <1>3 DEF FrontToBack
<1>5. ASSUME level # at
      PROVE  BackToFront(s, at)[loc] = <<>>
  <2>1. loc \notin FrontSlots(at)
    BY <1>1, <1>5 DEF FrontSlots, Slot
  <2> QED
    BY <1>1, <1>2, <1>3, <2>1 DEF BackToFront
<1> QED
  BY <1>4, <1>5

(* Boxes are put into a front by a conveyor, or by a gripper told to move or   *)
(* return them.                                                                *)
LEMMA FrontFilled ==
  ASSUME DeviceInv, Machinery, NEW level \in Level, FrontEmpty(shelf, level)
  PROVE  \/ FrontEmpty(shelf', level)
         \/ \E g \in Gripper : ReturnBoxes(g) \/ Lower(g)
         \/ RunBelt /\ belt.way = "forward" /\ level = belt.level
<1>1. /\ shelf \in [Location -> Seq(Sku)] /\ held \in [Gripper -> Seq(Sku)]
      /\ belt \in [way : {"none", "forward", "backward"}, level : Level]
  BY DEF DeviceInv
<1>2. CASE UNCHANGED shelf
  BY <1>2 DEF FrontEmpty
<1>3. ASSUME NEW g \in Gripper, PickUp(g)
      PROVE  FrontEmpty(shelf', level)
  <2>1. task[g].loc \in Location /\ task[g].count \in Nat
    BY <1>3 DEF PickUp, DeviceInv, PickTask
  <2> DEFINE slot == shelf[task[g].loc]
             n == Min({task[g].count, Len(slot)})
  <2>2. slot \in Seq(Sku) /\ Len(slot) \in Nat
    BY <1>1, <2>1
  <2>3. n \in 0..Len(slot)
    BY <2>1, <2>2 DEF Min
  <2>4. shelf' = [shelf EXCEPT ![task[g].loc] = SubSeq(slot, n + 1, Len(slot))]
    BY <1>3 DEF PickUp
  <2>5. slot = <<>> => SubSeq(slot, n + 1, Len(slot)) = <<>>
    <3> HIDE DEF n
    <3> SUFFICES ASSUME slot = <<>> PROVE SubSeq(slot, n + 1, Len(slot)) = <<>>
      OBVIOUS
    <3>1. Len(slot) = 0 /\ n = 0
      BY <2>3
    <3> HIDE DEF slot
    <3>2. SubSeq(slot, 1, 0) = <<>>
      BY <2>2, EmptySeq
    <3> QED
      BY <3>1, <3>2
  <2> HIDE DEF n
  <2> QED
    BY <1>1, <2>1, <2>4, <2>5 DEF FrontEmpty
<1>4. ASSUME NEW g \in Gripper, Lift(g)
      PROVE  FrontEmpty(shelf', level)
  <2>1. shelf' = [shelf EXCEPT ![task[g].from] = <<>>]
    BY <1>4 DEF Lift
  <2> QED
    BY <1>1, <2>1 DEF FrontEmpty
<1>5. CASE RunBelt
  <2>1. belt.level \in Level
    BY <1>1
  <2>2. CASE belt.way = "forward" /\ shelf' = BackToFront(shelf, belt.level)
    BY <1>1, <1>5, <2>1, <2>2, FrontOfRun
  <2>3. CASE shelf' = FrontToBack(shelf, belt.level)
    BY <1>1, <2>1, <2>3, FrontOfRun
  <2> QED
    BY <1>5, <2>2, <2>3 DEF RunBelt
<1>6. ASSUME NEW g \in Gripper, DropBox(g) \/ GoHome(g)
      PROVE  UNCHANGED shelf
  BY <1>6 DEF DropBox, GoHome
<1>7. CompleteBatch => UNCHANGED shelf
  BY DEF CompleteBatch, armVars
<1> QED
  BY <1>2, <1>3, <1>4, <1>5, <1>6, <1>7 DEF Machinery

(* A level's front the worker waits for is one of the plan's levels. *)
LEMMA RefillLevel ==
  ASSUME TypeInv, refills # <<>>
  PROVE  Head(refills).level \in Level
<1>1. refills \in Seq(RefillStep)
  BY DEF TypeInv, PlaceInv
<1>2. Head(refills) \in RefillStep
  BY <1>1, RangeTail
<1> QED
  BY <1>2 DEF RefillStep

LEMMA FrontStep ==
  ASSUME TypeInv, SeenInv, PhaseInv, FrontInv, Next, ~hasty'
  PROVE  FrontInv'
<1> SUFFICES ASSUME Going' PROVE FrontInv'
  BY DEF FrontInv
<1>1. /\ Going /\ plan' = plan /\ fresh \in BOOLEAN
      /\ belt \in [way : {"none", "forward", "backward"}, level : Level]
  BY BatchOrder DEF TypeInv, DeviceInv, PollInv
<1>2. /\ pc \notin {"await_move", "settle", "await_return", "await_forward"} => FrontSeen({})
      /\ pc = "await_move" /\ fresh /\ Move.g \notin polled.running => FrontSeen({})
      /\ pc \in {"settle", "await_return"} /\ fresh /\ polled.running = {} => FrontSeen({})
      /\ pc = "await_forward" => FrontSeen({Head(refills).level})
      /\ pc = "command_forward" =>
           FrontEmpty(shelf, Head(refills).level) /\ Head(refills).level \notin polled.front
      /\ belt.way = "forward" =>
           /\ pc = "await_forward" /\ belt.level = Head(refills).level
           /\ FrontEmpty(shelf, belt.level) /\ belt.level \notin polled.front
  BY <1>1 DEF FrontInv
<1>3. pc \in {"command_forward", "await_forward"} => Head(refills).level \in Level
  BY RefillLevel DEF TypeInv, PlaceInv
<1>4. CASE Poll
  <2>1. PICK waiting \in SUBSET Waiting :
           polled' = [running |-> {g \in Gripper : ~Still(g)} \ waiting,
                      front |-> {l \in Level : ~FrontEmpty(shelf, l)},
                      back  |-> {l \in Level : ~BackEmpty(shelf, l)}]
    BY <1>4 DEF Poll
  <2>2. UNCHANGED <<pc, shelf, belt, refills>>
    BY <1>4 DEF Poll, hostVars, armVars
  <2>3. \A level \in Level : FrontEmpty(shelf', level) \/ level \in polled'.front
    BY <2>1, <2>2
  <2>4. \A level : FrontEmpty(shelf', level) => level \notin polled'.front
    BY <2>1, <2>2
  <2>5. FrontSeen({})' /\ FrontSeen({Head(refills).level})'
    BY <2>3 DEF FrontSeen
  <2> QED
    BY <1>2, <2>2, <2>4, <2>5 DEF FrontInv
<1>5. CASE Machinery
  <2>1. UNCHANGED <<plan, pc, b, k, refills, polled, fresh>>
    BY <1>5 DEF Machinery, PickUp, DropBox, GoHome, ReturnBoxes, Lift, Lower, CompleteBatch,
                RunBelt, hostVars, pollVars
  <2>2. Move' = Move
    BY <2>1 DEF Move, Batch
  <2>3. belt' = belt \/ belt'.way = "none"
    <3>1. RunBelt => belt'.way = "none"
      BY DEF RunBelt, NoRun
    <3>2. ~RunBelt => belt' = belt
      BY <1>5 DEF Machinery, PickUp, DropBox, GoHome, ReturnBoxes, Lift, Lower, CompleteBatch
    <3> QED
      BY <3>1, <3>2
  <2>4. CASE \E g \in Gripper : ReturnBoxes(g) \/ Lower(g)
    <3>1. PICK g \in Gripper : ReturnBoxes(g) \/ Lower(g)
      BY <2>4
    <3>2. /\ arm[g] \in {"returning", "lowering"}
          /\ arm[g] = "lowering" => pc = "await_move" /\ g = Move.g
          /\ arm[g] = "returning" => pc \in {"settle", "await_return"}
      BY <1>1, <3>1 DEF ReturnBoxes, Lower, PhaseInv
    <3>3. g \in polled.running \/ ~fresh
      BY <1>1, <3>2 DEF SeenInv, Seen, Still, Waiting
    <3>4. belt'.way # "forward"
      BY <1>2, <2>3, <3>2
    <3> QED
      BY <2>1, <2>2, <3>2, <3>3, <3>4 DEF FrontInv
  <2>5. CASE ~ \E g \in Gripper : ReturnBoxes(g) \/ Lower(g)
    <3>1. \A level \in Level : FrontEmpty(shelf, level) =>
            \/ FrontEmpty(shelf', level)
            \/ RunBelt /\ belt.way = "forward" /\ level = belt.level
      BY <1>5, <2>5, FrontFilled DEF TypeInv
    <3>2. FrontSeen({}) /\ belt.way # "forward" => FrontSeen({})'
      BY <2>1, <3>1 DEF FrontSeen
    <3>3. pc = "await_forward" => FrontSeen({Head(refills).level})'
      <4> SUFFICES ASSUME pc = "await_forward", NEW level \in Level
                   PROVE  level = Head(refills').level \/ FrontEmpty(shelf', level)
                          \/ level \in polled'.front
        BY DEF FrontSeen
      <4>1. level = Head(refills).level \/ FrontEmpty(shelf, level) \/ level \in polled.front
        BY <1>2 DEF FrontSeen
      <4>2. belt.way = "forward" => belt.level = Head(refills).level
        BY <1>2
      <4> QED
        BY <2>1, <3>1, <4>1, <4>2
    <3>4. pc = "command_forward" => FrontEmpty(shelf', Head(refills).level)
      BY <1>2, <1>3, <3>1
    <3>5. belt'.way = "forward" => belt' = belt
      BY <2>3
    <3>6. belt'.way = "forward" => FrontEmpty(shelf', belt.level)
      <4> SUFFICES ASSUME belt'.way = "forward" PROVE FrontEmpty(shelf', belt.level)
        OBVIOUS
      <4>1. belt.way = "forward" /\ ~RunBelt
        BY <3>5 DEF RunBelt, NoRun
      <4>2. belt.level \in Level /\ FrontEmpty(shelf, belt.level)
        BY <1>1, <1>2, <4>1
      <4> QED
        BY <3>1, <4>1, <4>2
    <3> QED
      BY <1>2, <2>1, <2>2, <3>2, <3>3, <3>4, <3>5, <3>6 DEF FrontInv
  <2> QED
    BY <2>4, <2>5
<1>6. CASE Worker
  <2>1. UNCHANGED <<shelf, polled>>
    BY <1>6 DEF Worker, Stay, armVars, pollVars, BackwardsDone, CommandBackward,
       BackwardComplete, MovesDone, MoveGripperIdle, CommandMove, MoveComplete, RefillsDone,
       FrontClear, CommandForward, ForwardComplete, StartBatch, AllGrippersIdle,
       ClearOutboundComplete, WriteBatchCount, TriggerGripper, BatchComplete, Announce,
       CommandReturn, Settled, ReturnComplete, UpdateStore, PlanDone
  <2>2. FrontSeen({}) => FrontSeen({})'
    BY <2>1 DEF FrontSeen
  <2>3. CASE CommandMove
    <3>1. pc = "command_move" /\ pc' = "await_move" /\ belt' = belt /\ ~fresh'
      BY <2>3 DEF CommandMove
    <3> QED
      BY <1>2, <3>1 DEF FrontInv
  <2>4. CASE MoveComplete
    <3>1. /\ pc = "await_move" /\ pc' \in {"move", "inconsistent"} /\ belt' = belt
          /\ fresh /\ Move.g \notin polled.running
      BY <2>4 DEF MoveComplete, Stay
    <3> QED
      BY <1>2, <2>2, <3>1 DEF FrontInv
  <2>5. CASE FrontClear
    <3>1. /\ pc = "refill" /\ pc' = "command_forward" /\ UNCHANGED <<belt, refills>>
          /\ refills # <<>> /\ Head(refills).level \notin polled.front
      BY <2>5 DEF FrontClear, Stay
    <3>2. FrontEmpty(shelf, Head(refills).level)
      BY <1>2, <3>1, RefillLevel DEF FrontSeen
    <3> QED
      BY <1>2, <2>1, <2>2, <3>1, <3>2 DEF FrontInv
  <2>6. CASE CommandForward
    <3>1. /\ pc = "command_forward" /\ pc' = "await_forward" /\ refills' = refills
          /\ belt' = [way |-> "forward", level |-> Head(refills).level]
      BY <2>6 DEF CommandForward
    <3>2. FrontSeen({Head(refills).level})'
      BY <1>2, <2>1, <3>1 DEF FrontSeen
    <3> QED
      BY <1>2, <2>1, <3>1, <3>2 DEF FrontInv
  <2>7. CASE ForwardComplete
    <3>1. /\ pc = "await_forward" /\ pc' \in {"refill", "inconsistent"} /\ belt' = belt
          /\ Head(refills).level \in polled.front
      BY <2>7 DEF ForwardComplete, Stay
    <3>2. FrontSeen({})
      BY <1>2, <3>1 DEF FrontSeen
    <3> QED
      BY <1>2, <2>2, <3>1, <3>2 DEF FrontInv
  <2>8. CASE CommandReturn
    <3>1. pc = "return" /\ pc' = "settle" /\ belt' = belt /\ ~fresh'
      BY <2>8 DEF CommandReturn
    <3> QED
      BY <1>2, <3>1 DEF FrontInv
  <2>9. CASE Settled
    <3>1. pc = "settle" /\ pc' = "await_return" /\ UNCHANGED <<belt, fresh>>
      BY <2>9 DEF Settled, Stay, pollVars
    <3> QED
      BY <1>2, <2>1, <2>2, <3>1 DEF FrontInv
  <2>10. CASE ReturnComplete
    <3>1. pc = "await_return" /\ pc' = "store" /\ belt' = belt /\ polled.running = {} /\ fresh
      BY <2>10 DEF ReturnComplete, Stay, PhaseInv
    <3> QED
      BY <1>2, <2>2, <3>1 DEF FrontInv
  <2>11. CASE CommandBackward
    <3>1. pc = "backward" /\ pc' = "await_backward" /\ belt'.way = "backward"
      BY <2>11 DEF CommandBackward
    <3> QED
      BY <1>2, <2>2, <3>1 DEF FrontInv
  <2>12. CASE \/ BackwardsDone \/ BackwardComplete \/ MovesDone \/ MoveGripperIdle \/ RefillsDone
              \/ StartBatch \/ AllGrippersIdle \/ ClearOutboundComplete \/ WriteBatchCount
              \/ TriggerGripper \/ BatchComplete \/ Announce \/ UpdateStore \/ PlanDone
    <3>1. /\ pc \notin {"await_move", "settle", "await_return", "await_forward",
                        "command_forward"}
          /\ pc' \notin {"await_move", "settle", "await_return", "await_forward",
                         "command_forward"}
          /\ belt' = belt
      BY <2>12 DEF BackwardsDone, BackwardComplete, MovesDone, MoveGripperIdle, RefillsDone,
         StartBatch, AllGrippersIdle, ClearOutboundComplete, WriteBatchCount, TriggerGripper,
         BatchComplete, Announce, UpdateStore, PlanDone, Stay, Goto
    <3> QED
      BY <1>2, <2>2, <3>1 DEF FrontInv
  <2> QED
    BY <1>6, <2>3, <2>4, <2>5, <2>6, <2>7, <2>8, <2>9, <2>10, <2>11, <2>12 DEF Worker
<1>7. CASE Abandon
  BY <1>7 DEF Abandon, Going
<1> QED
  BY <1>4, <1>5, <1>6, <1>7 DEF Next

-----------------------------------------------------------------------------
(* The theorems *)

(* At the start nothing is under way and the status registers are right. *)
LEMMA InitInv ==
  ASSUME Init
  PROVE  TypeInv /\ HandInv /\ CountInv /\ SeenInv /\ PhaseInv /\ FrontInv
<1>1. /\ plan \in Plans /\ store = plan.inventory /\ shelf = plan.inventory
      /\ pc = "backward" /\ b = 1 /\ k = 1 /\ refills = <<>> /\ told = {}
      /\ arm = [g \in Gripper |-> "idle"] /\ task = [g \in Gripper |-> [left |-> 0]]
      /\ held = [g \in Gripper |-> <<>>] /\ belt = NoRun
      /\ due = 0 /\ dropped = {} /\ complete = FALSE /\ photo = 0 /\ line = <<>>
      /\ polled = [running |-> {}, front |-> {l \in Level : ~FrontEmpty(shelf, l)},
                   back |-> {l \in Level : ~BackEmpty(shelf, l)}]
      /\ fresh = FALSE /\ hasty = FALSE /\ misfit = FALSE
  BY DEF Init
<1>2. /\ plan.inventory \in [Location -> Seq(Sku)]
      /\ \A loc \in Location : Len(plan.inventory[loc]) <= SLOT_CAPACITY
      /\ Len(plan.batches) \in Nat
  BY <1>1, PlanType
<1>3. <<>> \in Seq(Sku) /\ <<>> \in Seq(RefillStep)
  OBVIOUS
<1>4. complete \in BOOLEAN /\ fresh \in BOOLEAN
  BY <1>1, Zenon
<1>5. PlaceInv
  BY <1>1, <1>2, <1>3 DEF PlaceInv, Going, Started
<1>6. StoreInv
  BY <1>1, <1>2 DEF StoreInv
<1>7. belt \in [way : {"none", "forward", "backward"}, level : Level]
  BY <1>1 DEF NoRun, Level, Station, Layer
<1>8. DeviceInv
  BY <1>1, <1>2, <1>3, <1>7 DEF DeviceInv
<1>9. LineInv
  BY <1>1, <1>3, <1>4 DEF LineInv
<1>10. PollInv /\ HistoryInv
  <2>1. hasty \in BOOLEAN /\ misfit \in BOOLEAN
    BY <1>1, Zenon
  <2> QED
    BY <1>1, <1>4, <2>1 DEF PollInv, HistoryInv
<1>11. HandInv
  BY <1>1 DEF HandInv
<1>12. CountInv
  BY <1>1 DEF CountInv, Counted
<1>13. SeenInv
  BY <1>1 DEF SeenInv, Seen, Still
<1>14. PhaseInv
  BY <1>1 DEF PhaseInv
<1>15. FrontSeen({})
  BY <1>1 DEF FrontSeen
<1>16. FrontInv
  BY <1>1, <1>15 DEF FrontInv, NoRun
<1> QED
  BY <1>5, <1>6, <1>8, <1>9, <1>10, <1>11, <1>12, <1>13, <1>14, <1>16 DEF TypeInv

LEMMA TypeStep ==
  ASSUME OneBoxEach, TypeInv, [Next]_vars
  PROVE  TypeInv'
<1>1. CASE Next
  <2>1. PlaceInv' /\ StoreInv' /\ DeviceInv'
    BY <1>1, PlaceStep, StoreStep, DeviceStep DEF TypeInv
  <2>2. LineInv' /\ PollInv'
    BY <1>1, LineStep, PollStep DEF TypeInv
  <2> QED
    BY <2>1, <2>2, HistoryStep DEF TypeInv
<1>2. CASE UNCHANGED vars
  <2>1. PlaceInv' /\ StoreInv' /\ DeviceInv'
    BY <1>2 DEF vars, hostVars, armVars, lineVars, pollVars, TypeInv, PlaceInv, StoreInv,
                DeviceInv, Going, Started, Batch
  <2>2. LineInv' /\ PollInv'
    BY <1>2 DEF vars, hostVars, armVars, lineVars, pollVars, TypeInv, LineInv, PollInv, Going
  <2> QED
    BY <2>1, <2>2, HistoryStep DEF TypeInv
<1> QED
  BY <1>1, <1>2

LEMMA TypeInvHolds ==
  ASSUME OneBoxEach
  PROVE  Spec => []TypeInv
<1>1. Init => TypeInv
  BY InitInv
<1>2. TypeInv /\ [Next]_vars => TypeInv'
  BY TypeStep
<1> QED
  BY <1>1, <1>2, PTL DEF Spec

(* Every variable keeps its type, for every set of plans in which a gripper    *)
(* serves a batch with one box: slots never hold more boxes than fit, the      *)
(* worker is never past the end of the list it goes through, and the PLC never *)
(* has more boxes due or counted than there are grippers.                      *)
THEOREM TypeCorrect ==
  ASSUME OneBoxEach
  PROVE  Spec => []TypeOK
<1>1. TypeInv => TypeOK
  <2> SUFFICES ASSUME TypeInv PROVE TypeOK
    OBVIOUS
  <2>1. photo \in 0..6
    <3>1. dropped \subseteq Gripper /\ photo \in Nat
          /\ (photo <= Cardinality(dropped) \/ photo = 0)
      BY DEF TypeInv, LineInv
    <3>2. Cardinality(dropped) \in Nat
      BY <3>1, GripperFinite, FS_Subset, FS_CardinalityType
    <3>3. Cardinality(dropped) <= 6
      BY <3>1, GripperFinite, FS_Subset
    <3> QED
      BY <3>1, <3>2, <3>3
  <2> QED
    BY <2>1 DEF TypeOK, TypeInv, PlaceInv, StoreInv, DeviceInv, LineInv, PollInv,
                   HistoryInv
<1> QED
  BY <1>1, TypeInvHolds, PTL

(* What holds at every moment of a run of such plans before a move is hasty. *)
Safe == HandInv /\ CountInv /\ SeenInv /\ PhaseInv /\ FrontInv

LEMMA SafeStep ==
  ASSUME OneBoxEach, WavesKeepApart, TypeInv, Safe, [Next]_vars, ~hasty'
  PROVE  Safe'
<1>1. TypeInv /\ HandInv /\ CountInv /\ SeenInv /\ PhaseInv /\ FrontInv
  BY DEF Safe
<1>2. CASE Next
  <2>1. HandInv' /\ CountInv'
    BY <1>1, <1>2, HandStep, CountStep
  <2>2. SeenInv' /\ PhaseInv'
    BY <1>1, <1>2, SeenStep, PhaseStep
  <2>3. FrontInv'
    BY <1>1, <1>2, FrontStep
  <2> QED
    BY <2>1, <2>2, <2>3 DEF Safe
<1>3. CASE UNCHANGED vars
  <2>1. UNCHANGED <<plan, store, pc, b, k, refills, told, shelf, arm, task, held, belt, due,
                    dropped, complete, photo, line, polled, fresh>>
    BY <1>3 DEF vars, hostVars, armVars, lineVars, pollVars
  <2>2. UNCHANGED <<Going, Counted, Settling, Batch, Move, Commanded>>
    BY <2>1 DEF Going, Counted, Settling, Batch, Move, Commanded
  <2>3. \A g \in Gripper : Working(g) => Working(g)'
    BY <2>1, <2>2, WorkGoesOn
  <2>4. HandInv' /\ CountInv'
    BY <1>1, <2>1, <2>2, <2>3 DEF HandInv, CountInv
  <2>5. SeenInv' /\ PhaseInv'
    BY <1>1, <2>1, <2>2 DEF SeenInv, Seen, Still, Waiting, PhaseInv
  <2>6. FrontInv'
    BY <1>1, <2>1, <2>2 DEF FrontInv, FrontSeen
  <2> QED
    BY <2>4, <2>5, <2>6 DEF Safe
<1> QED
  BY <1>2, <1>3

LEMMA SafeHolds ==
  ASSUME OneBoxEach, WavesKeepApart
  PROVE  Spec => [](hasty \/ Safe)
<1>1. Init => hasty \/ Safe
  BY InitInv DEF Safe
<1>2. TypeInv /\ (hasty \/ Safe) /\ [Next]_vars => (hasty \/ Safe)'
  BY HistoryStays, SafeStep
<1>3. Spec => []TypeInv
  BY TypeInvHolds
<1> QED
  BY <1>1, <1>2, <1>3, PTL DEF Spec

(* No command is written before the device has finished the last one, for any  *)
(* number of batches and boxes and however rarely the status is polled: new    *)
(* picks wait for every gripper of the last wave, a move for its gripper, a    *)
(* refill for all moves and an empty front.  The only ways out are the two     *)
(* that hasty notes, a move taken for over with no poll since its command and  *)
(* a move asked of a gripper that waits with boxes.                            *)
THEOREM CommandsWaitUnlessHastyHolds ==
  ASSUME OneBoxEach, WavesKeepApart
  PROVE  Spec => []CommandsWaitUnlessHasty
<1>1. hasty \/ Safe => CommandsWaitUnlessHasty
  <2> SUFFICES ASSUME Safe PROVE CommandsWaitForDevices
    BY DEF CommandsWaitUnlessHasty
  <2>1. pc = "command_move" => Still(Move.g)
    BY DEF Safe, PhaseInv
  <2>2. pc = "trigger" =>
          {g \in Gripper : ~Still(g)} \subseteq {Commands(Batch)[i].g : i \in 1..(k - 1)}
    BY DEF Safe, PhaseInv, Commanded
  <2>3. pc = "command_forward" => \A g \in Gripper : arm[g] \notin {"lifting", "lowering"}
    BY DEF Safe, PhaseInv, Going
  <2>4. pc = "command_forward" => FrontEmpty(shelf, Head(refills).level)
    BY DEF Safe, FrontInv, Going
  <2> QED
    BY <2>1, <2>2, <2>3, <2>4 DEF CommandsWaitForDevices
<1> QED
  BY <1>1, SafeHolds, PTL

=============================================================================
