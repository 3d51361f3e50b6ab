---------------------------- MODULE MCVisionGate ----------------------------
(* Small instances of VisionGate for TLC: three lists, so that a late answer   *)
(* can meet a list after the next one; numbers do not wrap within the bounds.  *)
EXTENDS VisionGate, TLC
=============================================================================
