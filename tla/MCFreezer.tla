----------------------------- MODULE MCFreezer -----------------------------
(* All six cartridges. *)
EXTENDS Freezer
=============================================================================
