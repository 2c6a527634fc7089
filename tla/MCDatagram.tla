----------------------------- MODULE MCDatagram -----------------------------
(***************************************************************************)
(* Datagram for TLC: an address of each family, and ANY.                   *)
(***************************************************************************)
EXTENDS Datagram, TLC

SendersVal == {<<"sender", 1, "unset">>, <<"six", 1, "link">>}

Symmetry == Permutations(Slot) \cup Permutations(Impl) \cup Permutations(Packet)

=============================================================================
