--------------------------- MODULE MCOutboundRun ---------------------------
(* Plans as the planner returns them for small inventories: what it answers is *)
(* written down here, so that each instance is a run the program can make.     *)
EXTENDS OutboundRun

A(layer, position) == <<"A", layer, position>>

Pick(g, loc, picked, place, items, send) ==
  [g |-> g, loc |-> loc, picked |-> picked, place |-> place, items |-> items,
   send |-> send]

BatchOfPicks(picks) ==
  [backs |-> <<>>, moves |-> <<>>, forwards |-> <<>>, picks |-> picks]

(* a in A11, b behind it and the other front slots of the column taken; b is   *)
(* wanted: layer 2 is backed off, a moved into it, b brought to the front.     *)
BackingPlan ==
  [inventory |-> [EmptyStore EXCEPT ![A(1, 1)] = <<"a">>, ![A(1, 3)] = <<"b">>,
                    ![A(2, 1)] = <<"x">>, ![A(3, 1)] = <<"y">>, ![A(4, 1)] = <<"z">>],
   batches |-> <<[backs |-> << <<"A", 2>> >>,
                  moves |-> <<[g |-> 1, from |-> A(1, 1), to |-> A(2, 1), goods |-> <<"a">>]>>,
                  forwards |-> <<[level |-> <<"A", 1>>, moved |-> << <<"b">>, <<>> >>]>>,
                  picks |-> <<Pick(1, A(1, 1), <<"b">>, 1, <<"b">>, TRUE)>>]>>]

(* Both a and x stand before wanted boxes: gripper 1 moves twice in a row.     *)
TwoMovesPlan ==
  [inventory |-> [EmptyStore EXCEPT ![A(1, 1)] = <<"a">>, ![A(1, 3)] = <<"b">>,
                    ![A(3, 1)] = <<"x">>, ![A(3, 3)] = <<"y">>],
   batches |-> <<[backs |-> <<>>,
                  moves |-> <<[g |-> 1, from |-> A(1, 1), to |-> A(2, 1), goods |-> <<"a">>],
                              [g |-> 1, from |-> A(3, 1), to |-> A(4, 1), goods |-> <<"x">>]>>,
                  forwards |-> <<[level |-> <<"A", 1>>, moved |-> << <<"b">>, <<>> >>],
                                 [level |-> <<"A", 3>>, moved |-> << <<"y">>, <<>> >>]>>,
                  picks |-> <<Pick(1, A(1, 1), <<"b">>, 1, <<"b">>, TRUE)>>],
                 BatchOfPicks(<<Pick(1, A(3, 1), <<"y">>, 1, <<"y">>, TRUE)>>)>>]

(* A package of a, b and d: gripper 1 picks three boxes and drops two, in two  *)
(* batches, gripper 3 picks two and drops one; then both return a box.  A      *)
(* package for another line takes the box returned to A11, in its own wave.    *)
WavePlan ==
  [inventory |-> [EmptyStore EXCEPT ![A(1, 1)] = <<"a", "b", "c">>,
                    ![<<"B", 1, 1>>] = <<"d", "e">>],
   batches |-> <<BatchOfPicks(<<Pick(1, A(1, 1), <<"a", "b", "c">>, 2, <<"a">>, TRUE),
                                Pick(3, <<"B", 1, 1>>, <<"d", "e">>, 1, <<"d">>, TRUE)>>),
                 BatchOfPicks(<<Pick(1, A(1, 1), <<"a", "b", "c">>, 2, <<"b">>, FALSE)>>),
                 BatchOfPicks(<<Pick(1, A(1, 1), <<"c">>, 1, <<"c">>, TRUE)>>)>>]

(* The box behind the first is brought to the front between two batches. *)
RefillPlan ==
  [inventory |-> [EmptyStore EXCEPT ![A(1, 1)] = <<"a">>, ![A(1, 3)] = <<"b">>],
   batches |-> <<BatchOfPicks(<<Pick(1, A(1, 1), <<"a">>, 1, <<"a">>, TRUE)>>),
                 [BatchOfPicks(<<Pick(1, A(1, 1), <<"b">>, 1, <<"b">>, TRUE)>>)
                    EXCEPT !.forwards =
                      <<[level |-> <<"A", 1>>, moved |-> << <<"b">>, <<>> >>]>>]>>]

(* The case of tests/test_strategy_front_refill.py: both front slots in the    *)
(* way, moved by a gripper each, then both back slots brought forward.         *)
BothSidesPlan ==
  [inventory |-> [EmptyStore EXCEPT ![A(1, 1)] = <<"a">>, ![A(1, 2)] = <<"b">>,
                    ![A(1, 3)] = <<"c">>, ![A(1, 4)] = <<"d">>],
   batches |-> <<[backs |-> <<>>,
                  moves |-> <<[g |-> 1, from |-> A(1, 1), to |-> A(2, 1), goods |-> <<"a">>],
                              [g |-> 2, from |-> A(1, 2), to |-> A(2, 2), goods |-> <<"b">>]>>,
                  forwards |-> <<[level |-> <<"A", 1>>, moved |-> << <<"c">>, <<"d">> >>]>>,
                  picks |-> <<Pick(1, A(1, 1), <<"c">>, 1, <<"c">>, TRUE),
                              Pick(2, A(1, 2), <<"d">>, 1, <<"d">>, TRUE)>>]>>]

(* Three packages: f alone, then a, b and d, then c, which gripper 1 still     *)
(* holds from the wave before and goes on dropping.                            *)
LongWavePlan ==
  [inventory |-> [EmptyStore EXCEPT ![A(1, 1)] = <<"a", "b", "c">>,
                    ![<<"B", 1, 1>>] = <<"d", "e">>, ![A(1, 2)] = <<"f">>],
   batches |-> <<BatchOfPicks(<<Pick(2, A(1, 2), <<"f">>, 1, <<"f">>, TRUE)>>),
                 BatchOfPicks(<<Pick(1, A(1, 1), <<"a", "b", "c">>, 3, <<"a">>, TRUE),
                                Pick(3, <<"B", 1, 1>>, <<"d", "e">>, 1, <<"d">>, TRUE)>>),
                 BatchOfPicks(<<Pick(1, A(1, 1), <<"a", "b", "c">>, 3, <<"b">>, FALSE)>>),
                 BatchOfPicks(<<Pick(1, A(1, 1), <<"a", "b", "c">>, 3, <<"c">>, FALSE)>>)>>]

(* Gripper 1 clears a front slot while gripper 2 still holds a box to drop. *)
MoveInWavePlan ==
  [inventory |-> [EmptyStore EXCEPT ![A(1, 1)] = <<"a">>, ![A(1, 2)] = <<"c", "d">>,
                    ![A(1, 3)] = <<"b">>],
   batches |-> <<BatchOfPicks(<<Pick(2, A(1, 2), <<"c", "d">>, 2, <<"c">>, TRUE)>>),
                 [BatchOfPicks(<<Pick(2, A(1, 2), <<"c", "d">>, 2, <<"d">>, FALSE)>>)
                    EXCEPT !.moves =
                      <<[g |-> 1, from |-> A(1, 1), to |-> A(2, 1), goods |-> <<"a">>]>>],
                 [BatchOfPicks(<<Pick(1, A(1, 1), <<"b">>, 1, <<"b">>, TRUE)>>)
                    EXCEPT !.forwards =
                      <<[level |-> <<"A", 1>>, moved |-> << <<"b">>, <<>> >>]>>]>>]

(* Gripper 1 is asked for a move while it holds a box it has yet to drop: the  *)
(* planner's answer for a package of b and one of a and c.                     *)
LadenMoverPlan ==
  [inventory |-> [EmptyStore EXCEPT ![A(1, 1)] = <<"b", "a">>, ![A(2, 1)] = <<"x">>,
                    ![A(2, 3)] = <<"c">>],
   batches |-> <<BatchOfPicks(<<Pick(1, A(1, 1), <<"b", "a">>, 2, <<"b">>, TRUE)>>),
                 [backs |-> <<>>,
                  moves |-> <<[g |-> 1, from |-> A(2, 1), to |-> A(3, 1), goods |-> <<"x">>]>>,
                  forwards |-> <<[level |-> <<"A", 2>>, moved |-> << <<"c">>, <<>> >>]>>,
                  picks |-> <<Pick(1, A(1, 1), <<"b", "a">>, 2, <<"a">>, FALSE)>>],
                 BatchOfPicks(<<Pick(1, A(2, 1), <<"c">>, 1, <<"c">>, TRUE)>>)>>]

(* Gripper 1 is asked for a move while it waits with z for the wave to end: a  *)
(* package of c and u, then one of d and b.                                    *)
WaitingMoverPlan ==
  [inventory |-> [EmptyStore EXCEPT ![A(1, 1)] = <<"a">>, ![A(1, 2)] = <<"c", "d">>,
                    ![A(1, 3)] = <<"b">>, ![A(3, 1)] = <<"u", "z">>],
   batches |-> <<BatchOfPicks(<<Pick(1, A(3, 1), <<"u", "z">>, 1, <<"u">>, TRUE),
                                Pick(2, A(1, 2), <<"c", "d">>, 2, <<"c">>, TRUE)>>),
                 [BatchOfPicks(<<Pick(2, A(1, 2), <<"c", "d">>, 2, <<"d">>, FALSE)>>)
                    EXCEPT !.moves =
                      <<[g |-> 1, from |-> A(1, 1), to |-> A(2, 1), goods |-> <<"a">>]>>],
                 [BatchOfPicks(<<Pick(1, A(1, 1), <<"b">>, 1, <<"b">>, TRUE)>>)
                    EXCEPT !.forwards =
                      <<[level |-> <<"A", 1>>, moved |-> << <<"b">>, <<>> >>]>>]>>]

MCPlans == {BackingPlan, TwoMovesPlan, WavePlan, RefillPlan,
            BothSidesPlan, LongWavePlan, MoveInWavePlan,
            LadenMoverPlan, WaitingMoverPlan}
MCSku == {"a", "b", "c", "d", "e", "f", "u", "x", "y", "z"}

(* The plans are of the kind the theorems speak of. *)
ASSUME PlansAsRequired ==
  OneBoxEach /\ WavesKeepApart /\ SlotsInReach /\ ContinuesAWave /\ DroppedOnce
=============================================================================
