---------------------------- MODULE MCSidSound ----------------------------
(* Two samples in seven cycles, instead of 44100 in 985248. *)
EXTENDS SidSound
=============================================================================
