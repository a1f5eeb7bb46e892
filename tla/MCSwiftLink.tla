---------------------------- MODULE MCSwiftLink ----------------------------
(* One or two dial commands, data for the remote host, hanging up. *)
EXTENDS SwiftLink

MCScripts == {<<"dial", "cr", "other", "plus", "plus", "plus">>,
              <<"other", "cr", "dial", "cr">>}
MCNuls == {2}
=============================================================================
