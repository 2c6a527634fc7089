------------------------------ MODULE Datagram ------------------------------
(***************************************************************************)
(* Datagrams: DatagramPacket (include/mercury/net/network.h) and send and  *)
(* receive of DatagramSocket (src/net/socket_base.cpp, over the calls with *)
(* an address of src/net/socket_io_impl.h).  A packet points to a buffer   *)
(* and to an InetSocketAddress; receive appends to what the packet holds.  *)
(* The bytes are left out: what counts is where they go and how many.      *)
(*                                                                         *)
(* The network may lose, repeat and reorder datagrams: what a receive gets *)
(* is not tied to what was sent.  Assertions are compiled in, which is how *)
(* CMakeLists.txt builds the library.                                      *)
(***************************************************************************)
EXTENDS InetSocketAddress

CONSTANTS
    Packet,      \* DatagramPacket objects
    Capacities,  \* sizes of the buffers
    Senders      \* addresses datagrams come from, with their scope ids

ASSUME DatagramAssumption ==
    Capacities \subseteq Nat /\ Senders \subseteq Buffer

VARIABLES
    m_cap, m_len,  \* of each packet
    m_endp,
    io,            \* what the last send or receive did
    aborted,       \* an assert() failed
    given          \* what the application last gave each address object

pvars == <<m_cap, m_len, m_endp>>
vars  == <<avars, pvars, io, aborted, given>>

NoIO == [op |-> "none"]

TypeOK ==
    /\ AddressTypeOK
    /\ m_cap \in [Packet -> Nat] /\ m_len \in [Packet -> Nat]
    /\ m_endp \in [Packet -> Slot \cup {Null}]
    /\ io.op \in {"none", "send", "receive"}
    /\ aborted \in BOOLEAN
    /\ given \in [Slot -> Sockaddr \cup {NoAddress}]

Init ==
    /\ AddressInit
    /\ m_cap = [p \in Packet |-> 0] /\ m_len = [p \in Packet |-> 0]
    /\ m_endp = [p \in Packet |-> Null]
    /\ io = NoIO
    /\ aborted = FALSE
    /\ given = [o \in Slot |-> NoAddress]

(***************************************************************************)
(* given is a history variable: what the constructors, the copies and the  *)
(* moves called so far make of the objects, told from the calls alone and  *)
(* not from the implementations and pointers.                              *)
(***************************************************************************)
Applied(c) ==
    CASE c[1] = "make" -> [given EXCEPT ![c[2]] = c[3]]
      [] c[1] = "copy" -> [given EXCEPT ![c[2]] = given[c[3]]]
      [] c[1] = "move" -> [given EXCEPT ![c[2]] = given[c[3]], ![c[3]] = NoAddress]
      [] c[1] = "drop" -> [given EXCEPT ![c[2]] = NoAddress]
      [] OTHER         -> given

-----------------------------------------------------------------------------
(***************************************************************************)
(* Packets.                                                                *)
(***************************************************************************)
Becomes(p, cap, len, endp) ==
    /\ m_cap' = [m_cap EXCEPT ![p] = cap]
    /\ m_len' = [m_len EXCEPT ![p] = len]
    /\ m_endp' = [m_endp EXCEPT ![p] = endp]
    /\ io' = NoIO
    /\ UNCHANGED <<avars, aborted, given>>

(***************************************************************************)
(* The constructors: only the one from a full buffer keeps the endpoint it *)
(* is given; setEndpoint; setbuf.                                          *)
(***************************************************************************)
Full(p, cap, endp) == Becomes(p, cap, cap, endp)
Part(p, cap, len)  == Becomes(p, cap, len, Null)

setEndpoint(p, o)   == Becomes(p, m_cap[p], m_len[p], o)
setbuf(p, cap, len) == Becomes(p, cap, len, m_endp[p])

\* The call by the application; receive makes it as well.
MaySet(p, len) == len <= m_cap[p]

setbuflen(p, len) ==
    \/ MaySet(p, len) /\ Becomes(p, m_cap[p], len, m_endp[p])
    \/ ~MaySet(p, len) /\ aborted' = TRUE /\ UNCHANGED <<avars, pvars, io, given>>

CopyPacket(p, q) == Becomes(p, m_cap[q], m_len[q], m_endp[q])

MovePacket(p, q) ==
    /\ p # q
    /\ m_cap' = [m_cap EXCEPT ![p] = m_cap[q], ![q] = 0]
    /\ m_len' = [m_len EXCEPT ![p] = m_len[q], ![q] = 0]
    /\ m_endp' = [m_endp EXCEPT ![p] = m_endp[q], ![q] = Null]
    /\ io' = NoIO
    /\ UNCHANGED <<avars, aborted, given>>

-----------------------------------------------------------------------------
(***************************************************************************)
(* Sending and receiving, with a packet that has an endpoint: both follow  *)
(* the pointer.  An endpoint without an address gives the kernel none.     *)
(***************************************************************************)

\* caddr() of the endpoint, and what its buffer holds after x was written there.
Handed(o) == IF Holds(o) THEN Caddr(m_pImpl[o]) ELSE <<"none", 0, "unset">>

BufferOf(o, x) ==
    impl' = IF Holds(o) THEN [impl EXCEPT ![m_pImpl[o]].buf = x] ELSE impl

send(p) ==
    /\ m_endp[p] # Null
    /\ LET o == m_endp[p] IN
       /\ BufferOf(o, Handed(o))
       /\ io' = [op |-> "send", by |-> o, to |-> Handed(o)]
    /\ UNCHANGED <<m_pImpl, call, pvars, aborted, given>>

(***************************************************************************)
(* The address of a sender in the buffer of an endpoint: as much of it as  *)
(* caddrsize() says there is room for.  That has a scope id if both are    *)
(* IPv6 addresses, and leaves the one in the buffer alone if one is not.   *)
(***************************************************************************)
Sender(o, from) ==
    IF Holds(o) /\ ~({from[1], impl[m_pImpl[o]].addr} \subseteq Addr6)
    THEN <<from[1], from[2], impl[m_pImpl[o]].buf[3]>>
    ELSE from

(***************************************************************************)
(* receive: r bytes go behind the m_len there are, at most as many as fit. *)
(* Nothing received (r = 0) is a failed call or an empty datagram, and the *)
(* packet stays as it is.  The new length counts the room there was, and   *)
(* the assertion of setbuflen ends the program if that is too long.        *)
(***************************************************************************)
Room(p) == m_cap[p] - m_len[p]

\* The length without the assertion of setbuflen.
LengthFits_Always(p, len) == TRUE

LengthFits(p, len) == MaySet(p, len)

receive(p) ==
    /\ m_endp[p] # Null
    /\ \E r \in 0..Room(p), from \in Senders :
          /\ \/ r = 0 /\ BufferOf(m_endp[p], Handed(m_endp[p]))
             \/ BufferOf(m_endp[p], Sender(m_endp[p], from))
          /\ io' = [op |-> "receive", at |-> m_len[p], n |-> r, cap |-> m_cap[p]]
          /\ \/ r = 0 /\ UNCHANGED <<m_len, aborted>>
             \/ /\ r > 0 /\ LengthFits(p, Room(p) + r)
                /\ m_len' = [m_len EXCEPT ![p] = Room(p) + r]
                /\ UNCHANGED aborted
             \/ /\ r > 0 /\ ~LengthFits(p, Room(p) + r)
                /\ aborted' = TRUE
                /\ UNCHANGED m_len
    /\ UNCHANGED <<m_pImpl, call, m_cap, m_endp, given>>

Endpoints == Slot \cup {Null}
Fill      == {b \in Capacities \X (0..10) : b[2] <= b[1]}

Next ==
    /\ ~aborted
    /\ \/ /\ AddressNext /\ given' = Applied(call')
          /\ io' = NoIO /\ UNCHANGED <<pvars, aborted>>
       \/ \E p \in Packet, cap \in Capacities, o \in Endpoints : Full(p, cap, o)
       \/ \E p \in Packet, b \in Fill : Part(p, b[1], b[2])
       \/ \E p \in Packet, o \in Endpoints : setEndpoint(p, o)
       \/ \E p \in Packet, b \in Fill : setbuf(p, b[1], b[2])
       \/ \E p \in Packet, b \in Fill : setbuflen(p, b[2])
       \/ \E p, q \in Packet : CopyPacket(p, q)
       \/ \E p, q \in Packet : MovePacket(p, q)
       \/ \E p \in Packet : send(p)
       \/ \E p \in Packet : receive(p)

Spec == Init /\ [][Next]_vars

-----------------------------------------------------------------------------
(***************************************************************************)
(* Properties.                                                             *)
(***************************************************************************)

(***************************************************************************)
(* Packets and what is sent and received with them leave the endpoints the *)
(* values they are.                                                        *)
(***************************************************************************)
KeepsAddresses == AddressValues!Spec

(***************************************************************************)
(* A datagram goes to the address and port that the constructors, copies   *)
(* and moves gave the endpoint of its packet, in whatever order they came  *)
(* and whatever senders receives have left in the buffer since, or brought *)
(* along from another endpoint.  The scope id is another matter: it is the *)
(* one of the last sender, or what was in memory.                          *)
(***************************************************************************)
SentWhereAddressed ==
    io.op = "send" => <<io.to[1], io.to[2]>> = given[io.by]

(***************************************************************************)
(* A packet never holds more than its buffer: what is received goes inside *)
(* the buffer, behind what was there, also after receives that got the     *)
(* length wrong and after the packet was copied or moved.                  *)
(***************************************************************************)
WithinPacket ==
    /\ \A p \in Packet : m_len[p] <= m_cap[p]
    /\ io.op = "receive" => io.at + io.n <= io.cap

=============================================================================
