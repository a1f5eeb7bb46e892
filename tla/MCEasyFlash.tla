---------------------------- MODULE MCEasyFlash ----------------------------
(* Two banks of one sector; the file lacks one half of the second. *)
EXTENDS EasyFlash

MCChips == {<<0, "low">>, <<0, "high">>, <<1, "low">>}
=============================================================================
