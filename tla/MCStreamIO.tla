----------------------------- MODULE MCStreamIO -----------------------------
(***************************************************************************)
(* StreamIO for TLC: a message of three bytes, all different, so that a    *)
(* byte that is lost, repeated or out of order shows.                      *)
(***************************************************************************)
EXTENDS StreamIO

MessageVal == <<"b1", "b2", "b3">>

=============================================================================
