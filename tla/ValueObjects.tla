---------------------------- MODULE ValueObjects ----------------------------
(***************************************************************************)
(* What a class promises whose objects are values: an object is a variable *)
(* that holds a value of its own or none.  It is made with a value, copied *)
(* and moved from another object, and dropped; no operation changes        *)
(* another object than the ones it is applied to.                          *)
(***************************************************************************)
CONSTANTS Slot,    \* the objects of the program
          Value,   \* values they may hold
          None     \* what an object holds that has none

VARIABLES val,     \* the value of each object
          call     \* the operation last applied, and to what

Init ==
    /\ val = [o \in Slot |-> None]
    /\ call = <<"start">>

Make(o, v) ==
    /\ call' = <<"make", o, v>>
    /\ val' = [val EXCEPT ![o] = v]

Copy(o, p) ==
    /\ call' = <<"copy", o, p>>
    /\ val' = [val EXCEPT ![o] = val[p]]

\* An object that is moved to itself has the value it had, or none.
Move(o, p) ==
    /\ call' = <<"move", o, p>>
    /\ \/ o # p /\ val' = [val EXCEPT ![o] = val[p], ![p] = None]
       \/ o = p /\ \E v \in {val[o], None} : val' = [val EXCEPT ![o] = v]

Drop(o) ==
    /\ call' = <<"drop", o>>
    /\ val' = [val EXCEPT ![o] = None]

\* An operation that fails changes nothing.
Fail(o) == call' = <<"fail", o>> /\ UNCHANGED val

Next ==
    \/ \E o \in Slot, v \in Value : Make(o, v)
    \/ \E o, p \in Slot : Copy(o, p) \/ Move(o, p)
    \/ \E o \in Slot : Drop(o) \/ Fail(o)

Spec == Init /\ [][Next]_<<val, call>>

=============================================================================
