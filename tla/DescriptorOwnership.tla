------------------------ MODULE DescriptorOwnership ------------------------
(***************************************************************************)
(* What the socket classes promise about descriptors, whatever sequence of *)
(* calls an application makes: a descriptor that is open is owned by one   *)
(* object, only its owner closes it, and it changes owner only by a move   *)
(* into an object that owns none.                                          *)
(***************************************************************************)
CONSTANTS Obj, FD, None

VARIABLES own, open

TypeOK ==
    /\ own \in [Obj -> FD \cup {None}]
    /\ open \in SUBSET FD

Init ==
    /\ own = [o \in Obj |-> None]
    /\ open = {}

Acquire(o, fd) ==
    /\ own[o] = None
    /\ fd \notin open
    /\ own' = [own EXCEPT ![o] = fd]
    /\ open' = open \cup {fd}

Release(o) ==
    /\ own[o] \in open
    /\ own' = [own EXCEPT ![o] = None]
    /\ open' = open \ {own[o]}

Transfer(o, p) ==
    /\ own[o] = None
    /\ own[p] \in open
    /\ own' = [own EXCEPT ![o] = own[p], ![p] = None]
    /\ UNCHANGED open

Next ==
    \/ \E o \in Obj, fd \in FD : Acquire(o, fd)
    \/ \E o \in Obj : Release(o)
    \/ \E o, p \in Obj : Transfer(o, p)

Spec == Init /\ [][Next]_<<own, open>>

\* Every open descriptor is owned, and by one object.
Owned ==
    /\ open = {own[o] : o \in Obj} \ {None}
    /\ \A o, p \in Obj : own[o] = own[p] /\ own[o] # None => o = p

=============================================================================
