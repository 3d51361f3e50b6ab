------------------------------ MODULE Planner ------------------------------
(* The outbound planner (business/strategy.py): from the inventory of the      *)
(* cabinets and the packages of a task to the batches the worker executes.     *)
(* A search on a simulated copy of the inventory takes packages one after the  *)
(* other, moving boxes out of the way where it must (build_package_infos);     *)
(* what it took is then cut into batches of one box per gripper                *)
(* (build_batches), boxes still in a gripper are not picked again              *)
(* (reuse_consecutive_physical_picks), and the result is checked               *)
(* (validate_plan).                                                            *)
EXTENDS Cabinets, FiniteSets

CONSTANTS Cases,           \* [store, packages]: what the planner is called with
          MaxAdjustments   \* bound: adjustments in a row without a box taken

NoLine == "none"
Nobody == 0

(* An inventory holds piles of boxes; packages are named apart, and a package  *)
(* asks for boxes.  Gifts and soft goods have lines of their own.              *)
Stock == [Location -> Seq(Sku)]
Line == STRING \cup {"GIFT", "SOFT", NoLine}
Package == [name : Nat, line : STRING, manual : STRING, goods : Seq(Sku)]

ASSUME MaxAdjustmentsAssumption == MaxAdjustments \in Nat
ASSUME CasesAssumption ==
  \A case \in Cases :
    /\ case.store \in Stock /\ case.packages \in Seq(Package)
    /\ \A p, q \in DOMAIN case.packages :
         case.packages[p].name = case.packages[q].name => p = q
ASSUME CapacityAssumption ==
  \A case \in Cases, loc \in Location : Len(case.store[loc]) <= SLOT_CAPACITY

MAX_GRIPPER_COUNT == 4
Gripper == 1..6

VARIABLES
  store,      \* CabinetStore, which planning leaves alone
  packages,   \* the packages of the task, in its order: name, line, manual, goods
  inv,        \* simulated_inventory
  pending,    \* pending_packages, as positions in `packages`
  remaining,  \* remaining_goods_by_package
  infos,      \* package_infos: what has been taken, in order
  before,     \* pending_before_*: the pre-actions of the next info, as found
  forced,     \* forced_package_id
  recent,     \* last_target_line and same_line_batch_count
  wave,       \* single_wave_line and single_wave_grippers
  group,      \* batch_group_id
  phase,      \* "search", then how it ended
  batches     \* the batches of the plan

given == <<store, packages>>
vars == <<given, inv, pending, remaining, infos, before, forced, recent, wave,
          group, phase, batches>>

-----------------------------------------------------------------------------
(* The cabinets, in the order of location_sort_key *)

AllSlots ==
  [i \in 1..48 |-> <<StationSeq[(i - 1) \div 16 + 1],
                     (((i - 1) \div 4) % 4) + 1, ((i - 1) % 4) + 1>>]
AllLevels == [i \in 1..12 |-> <<StationSeq[(i - 1) \div 4 + 1], ((i - 1) % 4) + 1>>]

(* The members of a set in the order of a list. *)
InOrder(list, set) ==
  LET kept[i \in 0..Len(list)] ==
        IF i = 0 THEN <<>>
        ELSE IF list[i] \in set THEN Append(kept[i - 1], list[i]) ELSE kept[i - 1]
  IN  kept[Len(list)]

(* The first slot in that order for which something holds. *)
FirstSlot(Test(_)) == AllSlots[SelectInSeq(AllSlots, Test)]

station_id(loc) == CHOOSE i \in 1..3 : StationSeq[i] = loc[1]
global_gripper_id(loc) == (station_id(loc) - 1) * 2 + loc[3]

(* Boxes are told apart by their SKU only: goods are compared as bags. *)
Count(goods, sku) == Cardinality({i \in DOMAIN goods : goods[i] = sku})
goods_all_in_need(goods, need) ==
  \A sku \in ToSet(goods) : Count(goods, sku) <= Count(need, sku)
Wanted(goods, need) == ToSet(goods) \cap ToSet(need) # {}

(* What a gripper can drop of a slot for a package: a gripper drops the lowest *)
(* box first, so the longest prefix the package still needs.                   *)
goods_of_whole_slot(slot, need) == IF goods_all_in_need(slot, need) THEN slot ELSE <<>>
goods_needed_from_slot(slot, need) ==
  SubSeq(slot, 1,
         Max({n \in 0..Len(slot) : goods_all_in_need(SubSeq(slot, 1, n), need)}))

target_line(package) ==
  CASE package.manual = "G" -> "GIFT"
    [] package.manual = "S" -> "SOFT"
    [] OTHER -> package.line

line_priority(line) ==
  LET priority == [HS1 |-> 0, HS2 |-> 1, GIFT |-> 2, SOFT |-> 2,
                   MP1 |-> 3, MA1 |-> 4, MO1 |-> 5]
  IN  IF line \in DOMAIN priority THEN priority[line] ELSE 9

-----------------------------------------------------------------------------
(* Which slots serve a package *)

(* Slots a gripper reaches, those of the grippers to avoid after the others. *)
SlotOrder(stock, avoided) ==
  LET usable == {loc \in Location : IsFront(loc) /\ Len(stock[loc]) \in 1..MAX_GRIPPER_COUNT}
      last   == {loc \in usable : global_gripper_id(loc) \in avoided}
  IN  InOrder(AllSlots, usable \ last) \o InOrder(AllSlots, last)

(* One slot after the other gives what it can; nothing at all when the slots   *)
(* together do not give everything.                                            *)
choose_slots_for_package(goods, stock, avoided) ==
  LET Take(acc, loc) ==
        LET planned == goods_needed_from_slot(stock[loc], acc.need) IN
          IF planned = <<>> THEN acc
          ELSE [need  |-> Without(acc.need, planned),
                picks |-> Append(acc.picks, [loc |-> loc, picked |-> stock[loc],
                                             planned |-> planned])]
      order == SlotOrder(stock, avoided)
      taken[i \in 0..Len(order)] ==
        IF i = 0 THEN [need |-> goods, picks |-> <<>>] ELSE Take(taken[i - 1], order[i])
      all == taken[Len(order)]
  IN  IF all.need = <<>> THEN all.picks ELSE <<>>

(* What stays in the slots: the boxes not dropped go back where they stood. *)
AfterWholePicks(stock, picks) ==
  [loc \in Location |->
     IF \E i \in DOMAIN picks : picks[i].loc = loc THEN <<>> ELSE stock[loc]]
AfterPicks(stock, picks) ==
  [loc \in Location |->
     LET here == {i \in DOMAIN picks : picks[i].loc = loc}
     IN  IF here = {} THEN stock[loc]
         ELSE SubSeq(stock[loc], Len(picks[Min(here)].planned) + 1, Len(stock[loc]))]

clears_front_blocker(picks, stock) ==
  \E i \in DOMAIN picks : ~BackEmpty(stock, LevelOf(picks[i].loc))

build_package_info(p, goods, picks, pre) ==
  [package |-> p, line |-> target_line(packages[p]), total |-> Len(goods),
   picks |-> picks, clears |-> clears_front_blocker(picks, inv),
   group |-> group, before |-> pre]

is_cross_station(info) == Cardinality({pick.loc[1] : pick \in ToSet(info.picks)}) > 1
is_single(info) == info.total = 1

planned_goods_from_slot_picks(picks) ==
  FlattenSeq([i \in DOMAIN picks |-> picks[i].planned])

-----------------------------------------------------------------------------
(* Which package is next *)

(* package_sort_key: packages that free a layer with boxes behind first, then  *)
(* single boxes, then packages from several stations, then the others.         *)
SortKey(info) ==
  <<IF info.clears THEN 0 ELSE 1,
    CASE is_single(info) -> 0 [] is_cross_station(info) -> 1 [] OTHER -> 2,
    info.total, line_priority(info.line), packages[info.package].name>>

Precedes(one, other) ==
  \E i \in 1..5 : one[i] < other[i] /\ \A j \in 1..(i - 1) : one[j] = other[j]

FirstOf(candidates) ==
  CHOOSE c \in candidates : \A d \in candidates \ {c} : Precedes(SortKey(c), SortKey(d))

(* After three batches for one line, another line if there is one. *)
choose_next_package_info(candidates) ==
  LET first  == FirstOf(candidates)
      others == {c \in candidates : c.line # recent.line}
  IN  IF is_single(first) \/ recent.line = NoLine \/ recent.count < 3 \/ others = {}
      THEN first ELSE FirstOf(others)

(* Slot picks in the waves they are commanded in: one pick per gripper, the    *)
(* next wave when the slowest gripper of the last has dropped everything.      *)
WaveOf(picks, i) ==
  1 + Cardinality({j \in 1..(i - 1) : global_gripper_id(picks[j].loc)
                                      = global_gripper_id(picks[i].loc)})
WaveLengthShortest(picks, w) ==
  Min({Len(picks[i].planned) : i \in {j \in DOMAIN picks : WaveOf(picks, j) = w}})
WaveLength(picks, w) ==
  Max({0} \cup {Len(picks[i].planned) : i \in {j \in DOMAIN picks : WaveOf(picks, j) = w}})
WaveStart(picks, w) ==
  LET start[v \in 0..Len(picks)] ==
        IF v = 0 THEN 1 ELSE start[v - 1] + WaveLength(picks, v)
  IN  start[w - 1]

estimate_package_batch_count(picks) ==
  WaveStart(picks, Max({WaveOf(picks, i) : i \in DOMAIN picks}) + 1) - 1

-----------------------------------------------------------------------------
(* The search.  A round takes the first of these that is possible: a package   *)
(* that the slots in front can serve, boxes brought forward, a box of a        *)
(* package out of the way of others of the same package, a box moved aside.    *)

Init ==
  /\ \E case \in Cases : store = case.store /\ packages = case.packages
  /\ inv = store
  /\ pending = DOMAIN packages
  /\ remaining = [p \in DOMAIN packages |-> packages[p].goods]
  /\ infos = <<>> /\ before = <<>>
  /\ forced = Nobody
  /\ recent = [line |-> NoLine, count |-> 0]
  /\ wave = [line |-> NoLine, grippers |-> {}]
  /\ group = 0
  /\ phase = "search" /\ batches = <<>>

Searching == phase = "search" /\ pending # {}
Unplanned == UNCHANGED <<given, phase, batches>>

Considered == IF forced = Nobody THEN pending ELSE pending \cap {forced}

Candidates ==
  {build_package_info(p, remaining[p],
                      choose_slots_for_package(remaining[p], inv, {}), <<>>) :
     p \in {q \in Considered :
              choose_slots_for_package(remaining[q], inv, {}) # <<>>}}

(* Taking an info off what its package still needs. *)
ConsumeKeepsPending(info) ==
  LET p == info.package IN
    /\ remaining' = [remaining EXCEPT
         ![p] = Without(@, planned_goods_from_slot_picks(info.picks))]
    /\ infos' = Append(infos, info)
    /\ before' = <<>>
    /\ UNCHANGED pending
Consume(info) ==
  LET p    == info.package
      left == Without(remaining[p], planned_goods_from_slot_picks(info.picks))
  IN  /\ remaining' = [remaining EXCEPT ![p] = left]
      /\ pending' = IF left = <<>> THEN pending \ {p} ELSE pending
      /\ infos' = Append(infos, info)
      /\ before' = <<>>

NewWave == wave' = [line |-> NoLine, grippers |-> {}]

(* Single boxes for one line share batches, so each avoids the grippers the    *)
(* ones before it use, unless it has to clear a slot in front.                 *)
WaveFor(chosen) ==
  CASE ~is_single(chosen) -> [line |-> NoLine, grippers |-> {}]
    [] is_single(chosen) /\ (chosen.clears \/ chosen.line = wave.line) -> wave
    [] OTHER -> [line |-> chosen.line, grippers |-> {}]

SelectPackage ==
  /\ Searching /\ Candidates # {}
  /\ LET chosen == choose_next_package_info(Candidates)
         p      == chosen.package
         now    == WaveFor(chosen)
         picks  == choose_slots_for_package(remaining[p], inv,
                     IF chosen.clears THEN {} ELSE now.grippers)
         info   == build_package_info(p, remaining[p], picks, before)
         length == estimate_package_batch_count(picks)
     IN  /\ Consume(info)
         /\ inv' = AfterPicks(inv, picks)
         /\ wave' = IF ~is_single(info) THEN now
                    ELSE LET g == global_gripper_id(picks[1].loc)
                         IN  [now EXCEPT !.grippers = IF g \in @ THEN {g} ELSE @ \cup {g}]
         /\ recent' = [line  |-> info.line,
                       count |-> IF info.line = recent.line THEN recent.count + length
                                 ELSE length]
  /\ forced' = Nobody
  /\ Unplanned /\ UNCHANGED group

(* shift_back_goods_to_front: every layer whose front is empty. *)
ShiftableAnyway(level) == FrontEmpty(inv, level)
Shiftable(level) == FrontEmpty(inv, level) /\ ~BackEmpty(inv, level)

ShiftBackGoods ==
  /\ Searching /\ Candidates = {}
  /\ \E level \in Level : Shiftable(level)
  /\ inv' = [loc \in Location |->
               IF ~Shiftable(LevelOf(loc)) THEN inv[loc]
               ELSE IF IsFront(loc) THEN inv[BackOf(loc)] ELSE <<>>]
  /\ LET levels == InOrder(AllLevels, {level \in Level : Shiftable(level)}) IN
       before' = before \o
         [i \in DOMAIN levels |->
            [kind |-> "forward", level |-> levels[i],
             moved |-> <<inv[Slot(levels[i], 3)], inv[Slot(levels[i], 4)]>>]]
  /\ group' = group + 1
  /\ NewWave
  /\ Unplanned /\ UNCHANGED <<pending, remaining, infos, forced, recent>>

(* try_build_same_package_front_blocker_info: the one slot in front of a       *)
(* layer holds only boxes a package needs, and one behind holds others.        *)
OwnBlocker(p, loc) ==
  /\ IsFront(loc) /\ Len(inv[loc]) \in 1..MAX_GRIPPER_COUNT
  /\ \A other \in FrontSlots(LevelOf(loc)) \ {loc} : inv[other] = <<>>
  /\ goods_all_in_need(inv[loc], remaining[p])
  /\ \E back \in BackSlots(LevelOf(loc)) : Wanted(inv[back], remaining[p])

Stuck == Candidates = {} /\ \A level \in Level : ~Shiftable(level)

TakeOwnBlocker ==
  /\ Searching /\ Stuck
  /\ \E p \in pending, loc \in Location : OwnBlocker(p, loc)
  /\ LET p    == Min({q \in pending : \E loc \in Location : OwnBlocker(q, loc)})
         loc  == FirstSlot(LAMBDA l : OwnBlocker(p, l))
         pick == [loc |-> loc, picked |-> inv[loc], planned |-> inv[loc]]
     IN  /\ Consume(build_package_info(p, inv[loc], <<pick>>, before))
         /\ inv' = AfterPicks(inv, <<pick>>)
         /\ forced' = IF remaining'[p] = <<>> THEN Nobody ELSE p
  /\ NewWave
  /\ Unplanned /\ UNCHANGED <<recent, group>>

(* find_front_blocker_for_pending_back_goods: a wanted box behind another one. *)
Blocked(p, back) ==
  /\ ~IsFront(back) /\ Wanted(inv[back], remaining[p])
  /\ inv[FrontOf(back)] # <<>>

HasBlocked(p) == \E back \in Location : Blocked(p, back)
BlockingSlot ==
  LET p == Min({q \in pending : HasBlocked(q)})
  IN  FrontOf(FirstSlot(LAMBDA l : Blocked(p, l)))

(* The layers with room for what is moved aside: in front, or behind, so that  *)
(* the layer can be backed off first.                                          *)
OtherLayers(loc) == Layer \ {loc[2]}
BufferLayers(loc) == {l \in OtherLayers(loc) : inv[<<loc[1], l, loc[3]>>] = <<>>}
BackableLayers(loc) == {l \in OtherLayers(loc) : BackEmpty(inv, <<loc[1], l>>)}

NoOwnBlocker == \A p \in pending, loc \in Location : ~OwnBlocker(p, loc)

AdjustmentsInARow ==
  Cardinality({i \in DOMAIN before : before[i].kind = "move"})

CanAdjust ==
  /\ Stuck /\ NoOwnBlocker
  /\ \E p \in pending : HasBlocked(p)
  /\ BufferLayers(BlockingSlot) \cup BackableLayers(BlockingSlot) # {}

(* try_resolve_by_location_adjustment *)
AdjustLocation ==
  /\ Searching /\ CanAdjust
  /\ AdjustmentsInARow < MaxAdjustments
  /\ LET from  == BlockingSlot
         back  == BufferLayers(from) = {}
         layer == Min(IF back THEN BackableLayers(from) ELSE BufferLayers(from))
         level == <<from[1], layer>>
         to    == Slot(level, from[3])
         cleared == IF back THEN FrontToBack(inv, level) ELSE inv
     IN  /\ inv' = MoveGoods(cleared, from, to)
         /\ before' = before
              \o (IF back THEN <<[kind |-> "backward", level |-> level]>> ELSE <<>>)
              \o <<[kind |-> "move", g |-> global_gripper_id(from),
                    from |-> from, to |-> to, goods |-> inv[from]]>>
  /\ group' = group + 1
  /\ NewWave
  /\ Unplanned /\ UNCHANGED <<pending, remaining, infos, forced, recent>>

(* The task is given up with an error that says what blocks what. *)
Unschedulable ==
  /\ Searching
  /\ Stuck /\ NoOwnBlocker /\ ~CanAdjust
  /\ phase' = "unschedulable"
  /\ UNCHANGED <<given, inv, pending, remaining, infos, before, forced, recent,
                 wave, group, batches>>

-----------------------------------------------------------------------------
(* The batches.  Consecutive single boxes of one line and one group are taken  *)
(* together, any other info by itself.                                         *)

StartsRunAnyGroup(i) ==
  \/ i = 1
  \/ ~is_single(infos[i]) \/ ~is_single(infos[i - 1])
  \/ infos[i].line # infos[i - 1].line
StartsRunAnyLine(i) ==
  \/ i = 1
  \/ ~is_single(infos[i]) \/ ~is_single(infos[i - 1])
  \/ infos[i].group # infos[i - 1].group
StartsRun(i) ==
  \/ i = 1
  \/ ~is_single(infos[i]) \/ ~is_single(infos[i - 1])
  \/ infos[i].line # infos[i - 1].line
  \/ infos[i].group # infos[i - 1].group

RunFrom(i) ==
  SubSeq(infos, i,
         Max({j \in i..Len(infos) : \A k \in (i + 1)..j : ~StartsRun(k)}))
Runs ==
  LET starts == InOrder([i \in DOMAIN infos |-> i], {i \in DOMAIN infos : StartsRun(i)})
  IN  [k \in DOMAIN starts |-> RunFrom(starts[k])]

(* The commands of a run, each with the number of the batch that sends it.     *)
CommandsOf(run, base) ==
  LET Tagged(info) ==
        [k \in DOMAIN info.picks |->
           [pick |-> info.picks[k], package |-> info.package, line |-> info.line,
            before |-> IF k = 1 THEN info.before ELSE <<>>]]
      all   == FlattenSeq([i \in DOMAIN run |-> Tagged(run[i])])
      picks == [k \in DOMAIN all |-> all[k].pick]
  IN  [k \in DOMAIN all |->
         [pick |-> all[k].pick, package |-> all[k].package, line |-> all[k].line,
          before |-> all[k].before, first |-> base + WaveStart(picks, WaveOf(picks, k))]]

LastBatch(commands) ==
  Max({c.first + Len(c.pick.planned) - 1 : c \in ToSet(commands)})

(* The part of a command that falls on batch n: a gripper drops one box per    *)
(* batch.                                                                      *)
Action(c, n) ==
  [g |-> global_gripper_id(c.pick.loc), loc |-> c.pick.loc,
   picked |-> c.pick.picked, place |-> Len(c.pick.planned),
   items |-> <<c.pick.planned[n - c.first + 1]>>, send |-> n = c.first,
   package |-> c.package, line |-> c.line, command |-> c.first]

OfKind(steps, kind) == SelectSeq(steps, LAMBDA step : step.kind = kind)

(* The actions of a batch in the order of the grippers, which is the order in  *)
(* which renumber_placed_items numbers its boxes; the pre-actions sorted into  *)
(* the three lists of attach_pre_actions_to_batch.  `found` is not part of the *)
(* plan: the order the search found the pre-actions in.                        *)
BatchAt(commands, n) ==
  LET here  == {c \in ToSet(commands) : n \in c.first..(c.first + Len(c.pick.planned) - 1)}
      steps == FlattenSeq([k \in DOMAIN commands |->
                 IF commands[k].first = n THEN commands[k].before ELSE <<>>])
      By(g) == InOrder(commands, {c \in here : global_gripper_id(c.pick.loc) = g})
      sorted == FlattenSeq([g \in Gripper |-> By(g)])
  IN  [backs |-> OfKind(steps, "backward"), moves |-> OfKind(steps, "move"),
       forwards |-> OfKind(steps, "forward"), found |-> steps,
       picks |-> [i \in DOMAIN sorted |-> Action(sorted[i], n)]]

build_batches ==
  LET AddRun(done, run) ==
        LET base     == Len(done)
            commands == CommandsOf(run, base)
        IN  done \o [i \in 1..(LastBatch(commands) - base) |-> BatchAt(commands, base + i)]
      built[k \in 0..Len(Runs)] == IF k = 0 THEN <<>> ELSE AddRun(built[k - 1], Runs[k])
  IN  built[Len(Runs)]

-----------------------------------------------------------------------------
(* Picks that go on with boxes a gripper already holds *)

Sends(batch) == \E i \in DOMAIN batch.picks : batch.picks[i].send
Continues(batch) == \E i \in DOMAIN batch.picks : ~batch.picks[i].send

(* can_append_to_physical_pick: `active` maps the grippers of the wave to what *)
(* each of them picked and how much of it has been dropped.                    *)
Appendable(active, action, n) ==
  /\ action.g \in DOMAIN active
  /\ LET held == active[action.g] IN
       /\ held.loc = action.loc /\ held.line = action.line
       /\ held.last = n - 1 /\ held.placed < Len(held.picked)
       /\ action.items = <<held.picked[held.placed + 1]>>

(* append_action_to_physical_pick, for all actions of a batch. *)
Appended(active, picks, n) ==
  [g \in DOMAIN active |->
     IF \E i \in DOMAIN picks : picks[i].g = g
     THEN [active[g] EXCEPT !.placed = @ + 1, !.last = n] ELSE active[g]]

Continued(active, action) ==
  [action EXCEPT !.send = FALSE, !.picked = active[action.g].picked,
                 !.command = active[action.g].command]

StartedBy(picks, n) ==
  LET sent == {i \in DOMAIN picks : picks[i].send} IN
  [g \in {picks[i].g : i \in sent} |->
     LET own == picks[CHOOSE i \in sent : picks[i].g = g]
     IN  [loc |-> own.loc, line |-> own.line, picked |-> own.picked,
          placed |-> 1, last |-> n, command |-> own.command]]

ReuseBatch(acc, n) ==
  LET batch == acc.batches[n]
      all   == \A i \in DOMAIN batch.picks : Appendable(acc.active, batch.picks[i], n)
      reused == [batch EXCEPT !.picks =
                   [i \in DOMAIN @ |-> Continued(acc.active, @[i])]]
  IN  IF all
      THEN [acc EXCEPT !.batches[n] = reused,
                       !.active = Appended(@, batch.picks, n)]
      ELSE IF Sends(batch)
      THEN [acc EXCEPT !.active = StartedBy(batch.picks, n)]
      ELSE [acc EXCEPT !.lost = TRUE]

(* place_count of every action of a physical pick: all the boxes it drops, in  *)
(* whichever batches.                                                          *)
PlaceCounts(plan) ==
  LET placed(action) ==
        Cardinality({n \in DOMAIN plan : \E i \in DOMAIN plan[n].picks :
          plan[n].picks[i].g = action.g /\ plan[n].picks[i].command = action.command})
  IN  [n \in DOMAIN plan |->
         [plan[n] EXCEPT !.picks =
            [i \in DOMAIN @ |-> [@[i] EXCEPT !.place = placed(plan[n].picks[i])]]]]

reuse_consecutive_physical_picks(plan) ==
  LET fresh == [batches |-> plan, active |-> [g \in {} |-> 0], lost |-> FALSE]
      after[n \in 0..Len(plan)] == IF n = 0 THEN fresh ELSE ReuseBatch(after[n - 1], n)
      end == after[Len(plan)]
  IN  [batches |-> PlaceCounts(end.batches), lost |-> end.lost]

-----------------------------------------------------------------------------
(* The checks of validate_plan that the shape of a plan does not make true *)

check_action_counts(plan) ==
  \A n \in DOMAIN plan : \A i \in DOMAIN plan[n].picks :
    /\ Len(plan[n].picks[i].picked) \in 1..MAX_GRIPPER_COUNT
    /\ plan[n].picks[i].place <= Len(plan[n].picks[i].picked)

check_batch_shape(plan) ==
  \A n \in DOMAIN plan : \A i, j \in DOMAIN plan[n].picks :
    plan[n].picks[i].g = plan[n].picks[j].g => i = j

check_command_wave_barrier(plan) ==
  \A n \in DOMAIN plan : ~(Sends(plan[n]) /\ Continues(plan[n]))

check_station_target_line(plan) ==
  \A n \in DOMAIN plan : \A i, j \in DOMAIN plan[n].picks :
    plan[n].picks[i].loc[1] = plan[n].picks[j].loc[1] =>
      plan[n].picks[i].line = plan[n].picks[j].line

(* The owners of the boxes in the order of the sequence numbers. *)
Sequence(plan) ==
  FlattenSeq([n \in DOMAIN plan |->
    [i \in DOMAIN plan[n].picks |-> plan[n].picks[i].package]])

Contiguous(places) == Max(places) - Min(places) + 1 = Cardinality(places)

segments_unchecked(plan) == TRUE
check_package_segments(plan) ==
  LET owners == Sequence(plan) IN
    \A p \in ToSet(owners) : Contiguous({i \in DOMAIN owners : owners[i] = p})

check_total(plan) ==
  Len(Sequence(plan)) =
    FoldLeft(LAMBDA sum, package : sum + Len(package.goods), 0, packages)

validate_plan(plan) ==
  /\ check_batch_shape(plan) /\ check_action_counts(plan)
  /\ check_command_wave_barrier(plan) /\ check_station_target_line(plan)
  /\ check_package_segments(plan) /\ check_total(plan)

BuildPlan ==
  /\ phase = "search" /\ pending = {}
  /\ LET plan == reuse_consecutive_physical_picks(build_batches) IN
       /\ batches' = plan.batches
       /\ phase' = IF ~plan.lost /\ validate_plan(plan.batches)
                   THEN "planned" ELSE "refused"
  /\ UNCHANGED <<given, inv, pending, remaining, infos, before, forced, recent,
                 wave, group>>

(* Planning has returned, or the bound cuts it off. *)
Over ==
  /\ phase # "search" \/ (CanAdjust /\ AdjustmentsInARow >= MaxAdjustments)
  /\ UNCHANGED vars

Next ==
  \/ SelectPackage \/ ShiftBackGoods \/ TakeOwnBlocker \/ AdjustLocation
  \/ Unschedulable \/ BuildPlan \/ Over

Spec == Init /\ [][Next]_vars

-----------------------------------------------------------------------------
(* Carrying out a plan on an inventory: what the worker does to the cabinets   *)
(* when nothing fails (OutboundRun has the run itself).                        *)

Possible(stock, step) ==
  CASE step.kind = "backward" -> BackEmpty(stock, step.level)
    [] step.kind = "move"     -> CanMove(stock, step.from, step.to)
                                 /\ stock[step.from] = step.goods
    [] step.kind = "forward"  ->
         FrontEmpty(stock, step.level)
         /\ step.moved = <<stock[Slot(step.level, 3)], stock[Slot(step.level, 4)]>>

Stepped(stock, step) ==
  CASE step.kind = "backward" -> FrontToBack(stock, step.level)
    [] step.kind = "move"     -> MoveGoods(stock, step.from, step.to)
    [] step.kind = "forward"  -> BackToFront(stock, step.level)

PerformStep(acc, step) ==
  IF acc.ok /\ Possible(acc.stock, step)
  THEN [ok |-> TRUE, stock |-> Stepped(acc.stock, step)] ELSE [acc EXCEPT !.ok = FALSE]

(* A command takes the boxes that stand in its slot, and every box dropped is  *)
(* the lowest of its slot.                                                     *)
PerformPick(acc, action) ==
  LET slot == acc.stock[action.loc] IN
    IF /\ acc.ok /\ slot # <<>> /\ action.items = <<Head(slot)>>
       /\ action.send => slot = action.picked
    THEN [acc EXCEPT !.stock[action.loc] = Tail(slot)] ELSE [acc EXCEPT !.ok = FALSE]

CarriedOut(Steps(_)) ==
  LET Perform(acc, batch) ==
        FoldLeft(PerformPick, FoldLeft(PerformStep, acc, Steps(batch)), batch.picks)
  IN  FoldLeft(Perform, [ok |-> TRUE, stock |-> store], batches)

AsFound(batch)    == batch.found
AsExecuted(batch) == batch.backs \o batch.moves \o batch.forwards

(* The places where boxes of a SKU stand, and the boxes taken for packages.    *)
Standing(stock, sku) ==
  UNION {{loc} \X {i \in DOMAIN stock[loc] : stock[loc][i] = sku} : loc \in Location}

Taken(which) ==
  FlattenSeq([i \in DOMAIN infos |->
    IF infos[i].package \in which THEN planned_goods_from_slot_picks(infos[i].picks)
    ELSE <<>>])

-----------------------------------------------------------------------------
(* Properties *)

Pick == [loc : Location, picked : Seq(Sku), planned : Seq(Sku)]
PreAction ==
  [kind : {"backward"}, level : Level]
  \cup [kind : {"move"}, g : Gripper, from : Location, to : Location, goods : Seq(Sku)]
  \cup [kind : {"forward"}, level : Level, moved : Seq(Sku) \X Seq(Sku)]
Info == [package : Nat, line : Line, total : Nat, picks : Seq(Pick), clears : BOOLEAN,
         group : Nat, before : Seq(PreAction)]

TypeOK ==
  /\ store \in Stock /\ inv \in Stock
  /\ remaining \in [DOMAIN packages -> Seq(Sku)]
  /\ pending = {p \in DOMAIN packages : remaining[p] # <<>> \/ packages[p].goods = <<>>}
  /\ forced \in pending \cup {Nobody}
  /\ infos \in Seq(Info) /\ before \in Seq(PreAction)
  /\ \A i \in DOMAIN infos : infos[i].package \in DOMAIN packages /\ infos[i].picks # <<>>
  /\ recent \in [line : Line, count : Nat]
  /\ wave \in [line : Line, grippers : SUBSET Gripper] /\ group \in Nat
  /\ phase \in {"search", "planned", "refused", "unschedulable"}

(* While the search moves boxes about and takes them prefix by prefix, no box  *)
(* is lost or doubled: what is simulated and what is taken make up the         *)
(* inventory, what a package got and what it still needs make up its goods.    *)
BoxesAccountedFor ==
  \A sku \in Sku :
    /\ Cardinality(Standing(store, sku))
         = Cardinality(Standing(inv, sku)) + Count(Taken(DOMAIN packages), sku)
    /\ \A p \in DOMAIN packages :
         Count(packages[p].goods, sku) = Count(remaining[p], sku) + Count(Taken({p}), sku)

(* Cutting the search's result into batches, deferring boxes to later batches  *)
(* and going on with boxes held in a gripper changes nothing of what it found: *)
(* with the pre-actions in the order found, every one of them is possible,     *)
(* every command finds the boxes it was planned for, every box dropped is the  *)
(* lowest of its slot, and the cabinets end as the search left them.           *)
CarriedOutAsFound ==
  phase = "planned" =>
    LET end == CarriedOut(AsFound) IN end.ok /\ end.stock = inv

(* The worker executes the pre-actions of a batch kind by kind: backwards,     *)
(* moves, forwards.  An accepted plan can be carried out in that order.        *)
PlanCanBeCarriedOut == phase = "planned" => CarriedOut(AsExecuted).ok

(* The boxes of a package reach the line one after the other, with none of     *)
(* another package between them, and they are the boxes it asked for.          *)
PackagesStayTogether ==
  phase = "planned" =>
    LET owners == Sequence(batches)
        items  == FlattenSeq([n \in DOMAIN batches |->
                    FlattenSeq([i \in DOMAIN batches[n].picks |-> batches[n].picks[i].items])])
    IN  \A p \in DOMAIN packages :
          LET places == {i \in DOMAIN owners : owners[i] = p} IN
            /\ Contiguous(places)
            /\ \A sku \in Sku : Count(packages[p].goods, sku)
                                = Cardinality({i \in places : items[i] = sku})

(* All boxes of a batch go to one line, that of their packages: the PLC gets   *)
(* one speed and one count for the batch.                                      *)
OneLinePerBatch ==
  phase = "planned" =>
    \A n \in DOMAIN batches : \A i, j \in DOMAIN batches[n].picks :
      target_line(packages[batches[n].picks[i].package])
        = target_line(packages[batches[n].picks[j].package])

(* From the batch that commands a gripper to the one in which it drops its     *)
(* last box, also when later packages go on with the boxes it holds, it drops  *)
(* a box in every batch and no batch but the first commands any gripper.       *)
WavesDoNotOverlap ==
  \A n \in DOMAIN batches : \A i \in DOMAIN batches[n].picks :
    LET command == batches[n].picks[i] IN
      command.send =>
        \A m \in (n + 1)..(n + command.place - 1) :
          /\ m \in DOMAIN batches /\ ~Sends(batches[m])
          /\ \E j \in DOMAIN batches[m].picks :
               batches[m].picks[j].g = command.g /\ batches[m].picks[j].command = n

(* Choosing slots one by one, each as much as possible, finds a choice for a   *)
(* package whenever there is one, provided no box it needs stands in front     *)
(* twice: then no package is moved for, or given up, that could leave at once. *)
FrontSlotsFor(goods) == {loc \in Location : IsFront(loc) /\ Wanted(inv[loc], goods)}

Unambiguous(goods) ==
  \A sku \in ToSet(goods), loc, other \in FrontSlotsFor(goods) :
    sku \in ToSet(inv[loc]) \cap ToSet(inv[other]) => loc = other

CanLeave(goods) ==
  LET slots == InOrder(AllSlots, FrontSlotsFor(goods))
      Dropped(depth) ==
        FlattenSeq([i \in DOMAIN slots |-> SubSeq(inv[slots[i]], 1, depth[slots[i]])])
  IN  \E depth \in [FrontSlotsFor(goods) -> 0..SLOT_CAPACITY] :
        /\ \A loc \in DOMAIN depth : depth[loc] <= Len(inv[loc])
        /\ \A sku \in Sku : Count(Dropped(depth), sku) = Count(goods, sku)

ChoiceFindsWhatLeaves ==
  phase = "search" => \A p \in pending :
    remaining[p] # <<>> /\ Unambiguous(remaining[p]) /\ CanLeave(remaining[p]) =>
      choose_slots_for_package(remaining[p], inv, {}) # <<>>

(* Every round brings planning nearer to its end: a box fewer is needed, or    *)
(* there is one more adjustment since a box left, or one layer fewer with      *)
(* boxes behind.  So refills, own blockers and packages cannot follow each     *)
(* other for ever; adjustments can.                                            *)
Rank ==
  <<Cardinality(UNION {{p} \X DOMAIN remaining[p] : p \in DOMAIN packages}),
    MaxAdjustments - AdjustmentsInARow,
    Cardinality({level \in Level : ~BackEmpty(inv, level)}),
    IF phase = "search" THEN 1 ELSE 0, 0>>

RoundsProgress == [][Precedes(Rank', Rank)]_vars
=============================================================================
