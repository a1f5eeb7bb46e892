------------------------- MODULE MCSidekickNet -------------------------
(* Instances of SidekickNet for TLC.                                      *)
EXTENDS SidekickNet, TLC

(* Files of one kind differ in nothing but their name.                    *)
FileSymmetry == Permutations(Uploads) \cup Permutations(Downloads)
=========================================================================
