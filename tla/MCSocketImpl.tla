---------------------------- MODULE MCSocketImpl ----------------------------
(***************************************************************************)
(* Small instances of SocketImpl.  Slots of one kind, and descriptors, are *)
(* interchangeable; streams are of two kinds, moved to or not.             *)
(***************************************************************************)
EXTENDS SocketImpl, TLC

Symmetry ==
    Permutations(Streams \ Receivers) \cup Permutations(Receivers)
    \cup Permutations(Servers) \cup Permutations(FD)

=============================================================================
