------------------------- MODULE InetSocketAddress -------------------------
(***************************************************************************)
(* InetSocketAddress (src/net/inet_address.cpp): an object that points to  *)
(* an implementation of its own, or to none, with the address, the port    *)
(* and a buffer for the sockaddr it hands to the kernel.  Address objects  *)
(* are never changed once they are made, so that it makes no difference    *)
(* that the copy constructor clones them and the copy assignment shares.   *)
(***************************************************************************)
EXTENDS Integers, FiniteSets

CONSTANTS
    Slot,        \* InetSocketAddress objects
    Impl,        \* implementations there may be at a time
    Addr4,       \* addresses of family AF_INET, ANY4 among them
    Addr6,       \* of family AF_INET6
    ANY4,        \* INADDR_ANY
    Port,        \* ports
    Scope,       \* scope ids of IPv6 senders
    Null,        \* nullptr
    Free         \* what an implementation is that is not allocated

VARIABLES
    m_pImpl,     \* of each object
    impl,        \* [addr, port, buf] of each implementation
    call         \* the last operation on the objects

avars == <<m_pImpl, impl, call>>

Sockaddr == (Addr4 \cup Addr6) \X Port
NoAddress == <<"none", 0>>

(***************************************************************************)
(* What the buffer has at the places of the address, the port and the      *)
(* scope id (of which the flow information is a second case).  A new       *)
(* buffer has what was in memory: Unset.                                   *)
(***************************************************************************)
Scopes == Scope \cup {"unset"}
Unset  == <<"unset", 0, "unset">>
Buffer == (Addr4 \cup Addr6) \X Port \X Scopes

Cells == [addr : Addr4 \cup Addr6, port : Port, buf : Buffer \cup {Unset}]

ASSUME AddressAssumption ==
    /\ Null \notin Impl
    /\ ANY4 \in Addr4 /\ Addr4 \cap Addr6 = {}
    /\ Free \notin Cells

AddressTypeOK ==
    /\ m_pImpl \in [Slot -> Impl \cup {Null}]
    /\ impl \in [Impl -> Cells \cup {Free}]

AddressInit ==
    /\ m_pImpl = [o \in Slot |-> Null]
    /\ impl = [i \in Impl |-> Free]
    /\ call = <<"start">>

Holds(o)   == m_pImpl[o] # Null
Unused     == {i \in Impl : impl[i] = Free}
Cell(a, n) == [addr |-> a, port |-> n, buf |-> Unset]

\* The value of an object: address() and port().
Val(o) == IF Holds(o) THEN <<impl[m_pImpl[o]].addr, impl[m_pImpl[o]].port>>
                      ELSE NoAddress

(***************************************************************************)
(* NewInetAddress and the constructors from a text: a text that is not an  *)
(* address gives ANY, or for AF_INET6 whatever was in memory, and an error.*)
(***************************************************************************)
FromText(domain, valid) ==
    IF domain = "AF_INET6" THEN Addr6 ELSE IF valid THEN Addr4 ELSE {ANY4}

(***************************************************************************)
(* caddr(): the buffer once the address and the port are written to it.    *)
(* The scope id and the flow information of an IPv6 address are not, and   *)
(* stay what they were.  caddr() and caddrsize() lack the return in front  *)
(* of the call of GetCAddress and GetCAddressSize; built as CMakeLists.txt *)
(* builds them, without optimisation, they return what that call returned. *)
(***************************************************************************)
\* caddr() that fills the buffer the first time only.
Caddr_Cached(i) ==
    IF impl[i].buf = Unset THEN <<impl[i].addr, impl[i].port, "unset">>
                           ELSE impl[i].buf

Caddr(i) == <<impl[i].addr, impl[i].port, impl[i].buf[3]>>

-----------------------------------------------------------------------------
\* impl without the implementation of o.
Released(o) == [i \in Impl |-> IF i = m_pImpl[o] THEN Free ELSE impl[i]]

(***************************************************************************)
(* The constructors, from an address and from a sockaddr.  One makes a new *)
(* object in the place of o, which is destroyed first.                     *)
(***************************************************************************)
Construct(o) ==
    \E a \in Addr4 \cup Addr6, n \in Port, i \in Unused :
        /\ m_pImpl' = [m_pImpl EXCEPT ![o] = i]
        /\ impl' = [Released(o) EXCEPT ![i] = Cell(a, n)]
        /\ call' = <<"make", o, <<a, n>>>>

\* From a text, the way Bind and Connect of a socket make one.
ConstructFromText(o, domain, valid) ==
    \E a \in FromText(domain, valid), n \in Port, i \in Unused :
        /\ m_pImpl' = [m_pImpl EXCEPT ![o] = i]
        /\ impl' = [Released(o) EXCEPT ![i] = Cell(a, n)]
        /\ call' = <<"make", o, <<a, n>>>>

\* A family that is neither of the two: the constructor throws.
ConstructUnknown(o) ==
    /\ ~Holds(o)
    /\ call' = <<"fail", o>>
    /\ UNCHANGED <<m_pImpl, impl>>

\* The destructor; the object after it is default constructed.
Destroy(o) ==
    /\ m_pImpl' = [m_pImpl EXCEPT ![o] = Null]
    /\ impl' = Released(o)
    /\ call' = <<"drop", o>>

(***************************************************************************)
(* The copies.  Neither may be made of an object that has no address, nor  *)
(* assigned to one: both follow the null pointer.  The assignment brings   *)
(* the buffer along.                                                       *)
(***************************************************************************)
CopyConstruct(o, p) ==
    /\ o # p /\ Holds(p)
    /\ \E i \in Unused :
          /\ m_pImpl' = [m_pImpl EXCEPT ![o] = i]
          /\ impl' = [Released(o) EXCEPT ![i] = [impl[m_pImpl[p]] EXCEPT
                                                   !.buf = Unset]]
    /\ call' = <<"copy", o, p>>

\* An assignment of the pointer instead of what it points to.
Assigned_Pointer(o, p) ==
    /\ m_pImpl' = [m_pImpl EXCEPT ![o] = m_pImpl[p]]
    /\ impl' = Released(o)

\* An assignment of the port without the address.
Assigned_PortOnly(o, p) ==
    /\ impl' = [impl EXCEPT ![m_pImpl[o]].port = impl[m_pImpl[p]].port]
    /\ UNCHANGED m_pImpl

Assigned(o, p) ==
    /\ impl' = [impl EXCEPT ![m_pImpl[o]] = impl[m_pImpl[p]]]
    /\ UNCHANGED m_pImpl

CopyAssign(o, p) ==
    /\ \/ o = p /\ UNCHANGED <<m_pImpl, impl>>
       \/ o # p /\ Holds(o) /\ Holds(p) /\ Assigned(o, p)
    /\ call' = <<"copy", o, p>>

MoveConstruct(o, p) ==
    /\ o # p
    /\ m_pImpl' = [m_pImpl EXCEPT ![o] = m_pImpl[p], ![p] = Null]
    /\ impl' = Released(o)
    /\ call' = <<"move", o, p>>

\* An object that is moved to itself deletes what it points to.
MoveAssign(o, p) ==
    /\ m_pImpl' = IF o = p THEN [m_pImpl EXCEPT ![o] = Null]
                  ELSE [m_pImpl EXCEPT ![o] = m_pImpl[p], ![p] = Null]
    /\ impl' = Released(o)
    /\ call' = <<"move", o, p>>

AddressNext ==
    \/ \E o \in Slot : Construct(o)
    \/ \E o \in Slot, domain \in {"AF_INET", "AF_INET6"}, valid \in BOOLEAN :
          ConstructFromText(o, domain, valid)
    \/ \E o \in Slot : ConstructUnknown(o)
    \/ \E o \in Slot : Destroy(o)
    \/ \E o, p \in Slot : CopyConstruct(o, p)
    \/ \E o, p \in Slot : CopyAssign(o, p)
    \/ \E o, p \in Slot : MoveConstruct(o, p)
    \/ \E o, p \in Slot : MoveAssign(o, p)

-----------------------------------------------------------------------------
(***************************************************************************)
(* Properties.                                                             *)
(***************************************************************************)

(***************************************************************************)
(* An implementation is allocated exactly if one object points to it, and  *)
(* no two objects point to the same: whatever is copied, moved, assigned   *)
(* over or moved to itself, none is deleted twice and none is left behind. *)
(***************************************************************************)
OwnedOnce ==
    /\ \A i \in Impl : impl[i] # Free <=> \E o \in Slot : m_pImpl[o] = i
    /\ \A o, p \in Slot : Holds(o) /\ m_pImpl[o] = m_pImpl[p] => o = p

(***************************************************************************)
(* Socket addresses are values: an object has the address and port it was  *)
(* made with or was given by a copy or a move, and no operation on another *)
(* object changes them.                                                    *)
(***************************************************************************)
AddressValues == INSTANCE ValueObjects
    WITH val <- [o \in Slot |-> Val(o)], Value <- Sockaddr, None <- NoAddress

=============================================================================
