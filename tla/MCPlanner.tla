----------------------------- MODULE MCPlanner -----------------------------
(* Inventories and tasks for the planner: all ways in which piles of boxes can *)
(* stand in a corner of the cabinets, and some larger ones picked by hand.     *)
EXTENDS Planner

Shelved(some) == [loc \in Location |-> IF loc \in DOMAIN some THEN some[loc] ELSE <<>>]

A(layer, position) == <<"A", layer, position>>

Order(name, line, goods) ==
  [name |-> name, line |-> line, manual |-> "", goods |-> goods]
Gift(name, goods) == [Order(name, "HS1", goods) EXCEPT !.manual = "G"]

(* A layer of station A with a slot behind, one of the next layer, and a slot  *)
(* of station B.  Packages come in one order and are named in another.         *)
Corner == {A(1, 1), A(1, 2), A(1, 3), A(2, 1), A(2, 3), <<"B", 1, 1>>}
Piles == {<<>>, <<"a">>, <<"b">>, <<"b", "a">>}

CornerTasks == {
  <<Order(1, "HS1", <<"a">>), Order(2, "MA1", <<"b">>)>>,
  <<Order(2, "HS1", <<"b">>), Order(1, "HS1", <<"a", "b">>)>>,
  <<Order(2, "MP1", <<"a">>), Gift(3, <<"b", "b">>), Order(1, "MP1", <<"a">>)>> }

(* All boxes of an inventory. *)
Goods(stock) == FlattenSeq([i \in DOMAIN AllSlots |-> stock[AllSlots[i]]])

Asked(task) == FlattenSeq([p \in DOMAIN task |-> task[p].goods])

CornerCases ==
  {case \in [store : {Shelved(piles) : piles \in [Corner -> Piles]}, packages : CornerTasks] :
     goods_all_in_need(Asked(case.packages), Goods(case.store))}

(* c and d stand behind x and y and no slot of the column is free: layers must *)
(* be backed off, and b at the end of a pile of four goes to another line.     *)
CrowdedCase ==
  [store |-> Shelved((A(1, 1) :> <<"x">>) @@ (A(1, 3) :> <<"c">>) @@ (A(2, 1) :> <<"a", "a", "b", "b">>)
                     @@ (A(3, 1) :> <<"y">>) @@ (A(4, 1) :> <<"a">>)),
   packages |-> <<Order(1, "HS1", <<"c", "a">>), Order(2, "MP1", <<"a", "a", "b">>),
                  Order(3, "HS1", <<"b">>)>>]

(* Two boxes moved aside into each other's way: neither wanted box comes free. *)
CirclingCase ==
  [store |-> Shelved((A(1, 1) :> <<"x">>) @@ (A(1, 2) :> <<"y">>) @@ (A(1, 3) :> <<"c">>)
                     @@ (A(2, 2) :> <<"y">>) @@ (A(2, 3) :> <<"d">>)),
   packages |-> <<Order(1, "HS1", <<"c", "d">>)>>]

(* Five packages of two boxes, four of them for one line, in two stations. *)
LinesCase ==
  [store |-> Shelved((A(1, 1) :> <<"a", "a", "a", "b">>) @@ (A(1, 2) :> <<"b", "b", "x">>)
                     @@ (A(2, 1) :> <<"c", "c", "d">>) @@ (<<"B", 1, 1>> :> <<"d", "y">>)),
   packages |-> <<Order(1, "HS1", <<"a", "b">>), Order(2, "HS1", <<"a", "b">>),
                  Order(3, "HS1", <<"a", "c">>), Order(4, "HS1", <<"c", "d">>),
                  Order(5, "HS2", <<"b", "d">>)>>]

(* A package that needs two waves, the first as long as its slower gripper.    *)
WavesCase ==
  [store |-> Shelved((A(1, 1) :> <<"b", "a">>) @@ (A(1, 2) :> <<"a">>) @@ (A(2, 1) :> <<"b">>)),
   packages |-> <<Order(1, "HS1", <<"a", "a", "b", "b">>)>>]

(* A package without boxes is never served: planning gives up. *)
NothingCase ==
  [store |-> Shelved(A(1, 1) :> <<"a">>),
   packages |-> <<Order(1, "HS1", <<>>), Order(2, "HS1", <<"a">>)>>]

MCCases ==
  CornerCases \cup {CrowdedCase, CirclingCase, LinesCase, WavesCase, NothingCase}

(* a and b stand behind x and y.  The search moves x aside, brings a forward,  *)
(* moves y to the front slot beside a, and brings b forward; the worker moves  *)
(* x and y first.                                                              *)
OrderCase ==
  [store |-> Shelved((A(1, 2) :> <<"x">>) @@ (A(1, 4) :> <<"a">>)
                     @@ (A(3, 1) :> <<"y">>) @@ (A(3, 3) :> <<"b">>)),
   packages |-> <<Order(1, "HS1", <<"a", "b">>)>>]
OrderCases == {OrderCase}

MCSku == {"a", "b", "c", "d", "x", "y"}
=============================================================================
