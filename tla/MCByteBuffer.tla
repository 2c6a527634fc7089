---------------------------- MODULE MCByteBuffer ----------------------------
(***************************************************************************)
(* ByteBuffer for TLC: programs that use one type, and one that mixes two, *)
(* over arrays in which two values of the fill and one more have room.     *)
(***************************************************************************)
EXTENDS ByteBuffer

ProgramsVal ==
    {[types |-> {"char"}, cap |-> 3],
     [types |-> {"int16", "int32"}, cap |-> 36],
     [types |-> {"float"}, cap |-> 36],
     [types |-> {"int64"}, cap |-> 72],
     [types |-> {"double"}, cap |-> 72]}

=============================================================================
