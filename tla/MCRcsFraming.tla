---------------------------- MODULE MCRcsFraming ----------------------------
(* Requests for TLC: with and without a body, with a body that is not JSON, of *)
(* another version without a body and with one.  Two of the bodies contain the *)
(* sync byte, which is part of many characters in UTF-8.                       *)
EXTENDS RcsFraming

Kind(version, body) == [version |-> version, body |-> body]

MCKinds ==
  {Kind(1, <<>>), Kind(1, <<60, 60>>), Kind(1, <<60, NOT_JSON, MAGIC, 60>>),
   Kind(2, <<>>), Kind(2, <<60, 60>>), Kind(2, <<60, 60, MAGIC, 60>>)}
=============================================================================
