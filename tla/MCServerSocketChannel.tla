----------------------- MODULE MCServerSocketChannel -----------------------
(***************************************************************************)
(* ServerSocketChannel for TLC.                                            *)
(***************************************************************************)
EXTENDS ServerSocketChannel, TLC

Symmetry ==
    Permutations(Channels) \cup Permutations(Servers \ Channels)
    \cup Permutations(Streams \ Receivers) \cup Permutations(Receivers)
    \cup Permutations(FD)

=============================================================================
