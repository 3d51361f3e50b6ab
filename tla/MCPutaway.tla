----------------------------- MODULE MCPutaway -----------------------------
(* Requests for station A, to empty layers and to one that holds a box.        *)
EXTENDS Putaway

A(layer, position) == <<"A", layer, position>>
Put(loc, sku) == [loc |-> loc, sku |-> sku]

Case(stock, put_goods) ==
  [station |-> "A", stock |-> stock, put_goods |-> put_goods]

(* Both rows of layer 1, only the back row of layer 2; layer 3 holds a box at   *)
(* the back that must stay there.                                              *)
TwoLayers ==
  Case([EmptyStore EXCEPT ![A(3, 3)] = <<"x">>],
       <<Put(A(1, 1), <<"a", "b">>), Put(A(1, 4), <<"c">>), Put(A(2, 3), <<"d">>)>>)

(* A slot named by two entries, with room for both; an entry without boxes. *)
SharedSlot ==
  Case([EmptyStore EXCEPT ![A(4, 1)] = <<"x">>],
       <<Put(A(1, 3), <<"a", "b">>), Put(A(2, 2), <<>>), Put(A(1, 3), <<"c">>)>>)

(* Two entries that fit into their slot only one at a time. *)
TooMany ==
  Case(EmptyStore,
       <<Put(A(1, 1), <<"a", "b", "c">>), Put(A(2, 1), <<"f">>), Put(A(1, 1), <<"d", "e">>)>>)

(* Nothing at all. *)
NoGoods == Case([EmptyStore EXCEPT ![A(2, 3)] = <<"x">>], <<Put(A(1, 1), <<>>)>>)

(* All four layers: front only, back only, both, both on one side. *)
FourLayers ==
  Case(EmptyStore,
       <<Put(A(1, 2), <<"a">>), Put(A(2, 4), <<"b">>), Put(A(3, 1), <<"c">>),
         Put(A(3, 4), <<"d">>), Put(A(4, 2), <<"e">>), Put(A(4, 4), <<"f">>)>>)

(* Boxes for either row of a layer with a box in front already, and one for an *)
(* empty layer.                                                                *)
Restocking ==
  Case([EmptyStore EXCEPT ![A(2, 1)] = <<"x">>],
       <<Put(A(1, 3), <<"a">>), Put(A(2, 1), <<"b">>), Put(A(2, 4), <<"c">>)>>)

MCCases == {TwoLayers, SharedSlot, TooMany, NoGoods, FourLayers, Restocking}
MCSku == {"a", "b", "c", "d", "e", "f", "x"}

ASSUME CasesAsRequested == NewBoxes
=============================================================================
