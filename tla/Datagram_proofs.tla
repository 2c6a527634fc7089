-------------------------- MODULE Datagram_proofs --------------------------
(***************************************************************************)
(* Socket addresses and datagram packets, for any number of objects: who   *)
(* owns an implementation, that addresses are values, that a packet stays  *)
(* inside its buffer, and where datagrams go.                              *)
(***************************************************************************)
EXTENDS Datagram, TLAPS

USE DEF Cells

(***************************************************************************)
(* The types, with what the three bounds of TLC leave.                     *)
(***************************************************************************)
PacketsTyped ==
    /\ m_cap \in [Packet -> Nat] /\ m_len \in [Packet -> Nat]
    /\ m_endp \in [Packet -> Slot \cup {Null}]

Typed == AddressTypeOK /\ PacketsTyped

AddressInv == AddressTypeOK /\ OwnedOnce

(***************************************************************************)
(* What an operation on addresses, and one on packets, is.                 *)
(***************************************************************************)
IOStep == (\E p \in Packet : send(p)) \/ (\E p \in Packet : receive(p))

PacketStep ==
    \/ \E p \in Packet, cap \in Capacities, o \in Endpoints : Full(p, cap, o)
    \/ \E p \in Packet, b \in Fill : Part(p, b[1], b[2])
    \/ \E p \in Packet, o \in Endpoints : setEndpoint(p, o)
    \/ \E p \in Packet, b \in Fill : setbuf(p, b[1], b[2])
    \/ \E p \in Packet, b \in Fill : setbuflen(p, b[2])
    \/ \E p, q \in Packet : CopyPacket(p, q)
    \/ \E p, q \in Packet : MovePacket(p, q)

(***************************************************************************)
(* Every step is one of four kinds.                                        *)
(***************************************************************************)
LEMMA Kinds ==
    [Next]_vars =>
        \/ /\ AddressNext /\ given' = Applied(call')
           /\ io' = NoIO /\ UNCHANGED <<pvars, aborted>>
        \/ PacketStep
        \/ IOStep
        \/ UNCHANGED vars
BY DEF Next, PacketStep, IOStep

(***************************************************************************)
(* The operations on packets leave the addresses alone.                    *)
(***************************************************************************)
LEMMA PacketFrame == PacketStep => UNCHANGED avars
BY DEF PacketStep, Full, Part, setEndpoint, setbuf, setbuflen, CopyPacket,
       MovePacket, Becomes

(***************************************************************************)
(* Sending and receiving write to the buffer of one implementation.        *)
(***************************************************************************)
LEMMA IOFrame ==
    ASSUME AddressInv, m_endp \in [Packet -> Slot \cup {Null}], IOStep
    PROVE  /\ UNCHANGED <<m_pImpl, call>>
           /\ \/ UNCHANGED impl
              \/ \E o \in Slot, x \in Buffer :
                    /\ Holds(o)
                    /\ impl' = [impl EXCEPT ![m_pImpl[o]].buf = x]
<1>1. ASSUME NEW o \in Slot, NEW x, BufferOf(o, x),
             x = Handed(o) \/ \E y \in Senders : x = Sender(o, y)
      PROVE  \/ UNCHANGED impl
             \/ \E q \in Slot, y \in Buffer :
                   /\ Holds(q)
                   /\ impl' = [impl EXCEPT ![m_pImpl[q]].buf = y]
  <2>1. CASE Holds(o)
    <3>1. impl[m_pImpl[o]] \in Cells
      BY <2>1 DEF AddressInv, AddressTypeOK, OwnedOnce, Holds
    <3>2. /\ impl[m_pImpl[o]].addr \in Addr4 \cup Addr6
          /\ impl[m_pImpl[o]].port \in Port
          /\ impl[m_pImpl[o]].buf \in Buffer \cup {Unset}
      BY <3>1
    <3>3. impl[m_pImpl[o]].buf[3] \in Scopes
      BY <3>2 DEF Buffer, Unset, Scopes
    <3>4. Handed(o) \in Buffer
      BY <2>1, <3>2, <3>3 DEF Handed, Caddr, Buffer
    <3>5. ASSUME NEW y \in Senders PROVE Sender(o, y) \in Buffer
      <4>1. y \in Buffer
        BY DatagramAssumption
      <4> QED BY <3>3, <4>1 DEF Sender, Buffer
    <3>6. x \in Buffer
      BY <1>1, <3>4, <3>5
    <3> QED BY <1>1, <2>1, <3>6 DEF BufferOf
  <2> QED BY <1>1, <2>1 DEF BufferOf
<1>2. ASSUME NEW p \in Packet, send(p) \/ receive(p)
      PROVE  /\ UNCHANGED <<m_pImpl, call>>
             /\ m_endp[p] \in Slot
             /\ \E x : /\ BufferOf(m_endp[p], x)
                       /\ \/ x = Handed(m_endp[p])
                          \/ \E y \in Senders : x = Sender(m_endp[p], y)
  <2>1. UNCHANGED <<m_pImpl, call>> /\ m_endp[p] \in Slot
    BY <1>2 DEF send, receive
  <2>2. CASE send(p)
    BY <2>1, <2>2 DEF send
  <2>3. CASE receive(p)
    BY <2>1, <2>3, DatagramAssumption DEF receive
  <2> QED BY <1>2, <2>1, <2>2, <2>3
<1> QED BY <1>1, <1>2 DEF IOStep

-----------------------------------------------------------------------------
(***************************************************************************)
(* What an operation does to who owns what, and to the values: one lemma   *)
(* for each way the code has of changing the pointers.  The first is about *)
(* an allocation in the place of what o held.                              *)
(***************************************************************************)
Others(o) == \A q \in Slot \ {o} : Val(q)' = Val(q)

LEMMA CellTyped ==
    ASSUME AddressInv, NEW o \in Slot, Holds(o)
    PROVE  m_pImpl[o] \in Impl /\ impl[m_pImpl[o]] \in Cells
BY DEF AddressInv, AddressTypeOK, OwnedOnce, Holds

LEMMA Allocated ==
    ASSUME AddressInv, NEW o \in Slot, NEW i \in Unused, NEW c \in Cells,
           m_pImpl' = [m_pImpl EXCEPT ![o] = i],
           impl' = [Released(o) EXCEPT ![i] = c]
    PROVE  AddressInv' /\ Others(o) /\ Val(o)' = <<c.addr, c.port>>
<1> USE AddressAssumption DEF AddressInv, AddressTypeOK
<1>1. i \in Impl /\ impl[i] = Free /\ i # Null /\ c # Free
  BY DEF Unused
<1>2. \A q \in Slot : m_pImpl[q] # i
  BY <1>1 DEF OwnedOnce
<1>3. AddressTypeOK'
  BY <1>1 DEF Released
<1>4. \A j \in Impl : impl'[j] = IF j = i THEN c
                                 ELSE IF j = m_pImpl[o] THEN Free ELSE impl[j]
  BY <1>1 DEF Released
<1>5. \A q \in Slot : m_pImpl'[q] = IF q = o THEN i ELSE m_pImpl[q]
  OBVIOUS
<1>6. OwnedOnce'
  <2>1. ASSUME NEW j \in Impl
        PROVE  impl'[j] # Free <=> \E q \in Slot : m_pImpl'[q] = j
    BY <1>1, <1>2, <1>4, <1>5 DEF OwnedOnce, Holds
  <2>2. ASSUME NEW p \in Slot, NEW q \in Slot, Holds(p)',
               m_pImpl'[p] = m_pImpl'[q]
        PROVE  p = q
    BY <1>1, <1>2, <1>5, <2>2 DEF OwnedOnce, Holds
  <2> QED BY <2>1, <2>2 DEF OwnedOnce
<1>7. Others(o)
  BY <1>1, <1>2, <1>4, <1>5 DEF Others, Val, Holds, OwnedOnce
<1>8. Val(o)' = <<c.addr, c.port>>
  BY <1>1, <1>4, <1>5 DEF Val, Holds
<1> QED BY <1>3, <1>6, <1>7, <1>8

(***************************************************************************)
(* What o held is deleted.                                                 *)
(***************************************************************************)
LEMMA Deleted ==
    ASSUME AddressInv, NEW o \in Slot,
           m_pImpl' = [m_pImpl EXCEPT ![o] = Null],
           impl' = Released(o)
    PROVE  AddressInv' /\ Others(o) /\ Val(o)' = NoAddress
<1> USE AddressAssumption DEF AddressInv, AddressTypeOK
<1>1. AddressTypeOK'
  BY DEF Released
<1>2. \A j \in Impl : impl'[j] = IF j = m_pImpl[o] THEN Free ELSE impl[j]
  BY DEF Released
<1>3. \A q \in Slot : m_pImpl'[q] = IF q = o THEN Null ELSE m_pImpl[q]
  OBVIOUS
<1>4. OwnedOnce'
  <2>1. ASSUME NEW j \in Impl
        PROVE  impl'[j] # Free <=> \E q \in Slot : m_pImpl'[q] = j
    BY <1>2, <1>3 DEF OwnedOnce, Holds
  <2>2. ASSUME NEW p \in Slot, NEW q \in Slot, Holds(p)',
               m_pImpl'[p] = m_pImpl'[q]
        PROVE  p = q
    BY <1>3, <2>2 DEF OwnedOnce, Holds
  <2> QED BY <2>1, <2>2 DEF OwnedOnce
<1>5. Others(o)
  BY <1>2, <1>3 DEF Others, Val, Holds, OwnedOnce
<1>6. Val(o)' = NoAddress
  BY <1>3 DEF Val, Holds
<1> QED BY <1>1, <1>4, <1>5, <1>6

(***************************************************************************)
(* What p held is given to o, and what o held is deleted.                  *)
(***************************************************************************)
LEMMA HandedOver ==
    ASSUME AddressInv, NEW o \in Slot, NEW p \in Slot, o # p,
           m_pImpl' = [m_pImpl EXCEPT ![o] = m_pImpl[p], ![p] = Null],
           impl' = Released(o)
    PROVE  /\ AddressInv'
           /\ \A q \in Slot \ {o, p} : Val(q)' = Val(q)
           /\ Val(o)' = Val(p) /\ Val(p)' = NoAddress
<1> USE AddressAssumption DEF AddressInv, AddressTypeOK
<1>1. AddressTypeOK'
  BY DEF Released
<1>2. \A j \in Impl : impl'[j] = IF j = m_pImpl[o] THEN Free ELSE impl[j]
  BY DEF Released
<1>3. \A q \in Slot : m_pImpl'[q] = IF q = p THEN Null
                                    ELSE IF q = o THEN m_pImpl[p] ELSE m_pImpl[q]
  OBVIOUS
<1>4. OwnedOnce'
  <2>1. ASSUME NEW j \in Impl
        PROVE  impl'[j] # Free <=> \E q \in Slot : m_pImpl'[q] = j
    BY <1>2, <1>3 DEF OwnedOnce, Holds
  <2>2. ASSUME NEW q \in Slot, NEW r \in Slot, Holds(q)',
               m_pImpl'[q] = m_pImpl'[r]
        PROVE  q = r
    BY <1>3, <2>2 DEF OwnedOnce, Holds
  <2> QED BY <2>1, <2>2 DEF OwnedOnce
<1>5. \A q \in Slot \ {o, p} : Val(q)' = Val(q)
  BY <1>2, <1>3 DEF Val, Holds, OwnedOnce
<1>6. Val(o)' = Val(p) /\ Val(p)' = NoAddress
  BY <1>2, <1>3 DEF Val, Holds, OwnedOnce
<1> QED BY <1>1, <1>4, <1>5, <1>6

(***************************************************************************)
(* What o points to is written over.                                       *)
(***************************************************************************)
LEMMA WrittenOver ==
    ASSUME AddressInv, NEW o \in Slot, Holds(o), NEW c \in Cells,
           UNCHANGED m_pImpl, impl' = [impl EXCEPT ![m_pImpl[o]] = c]
    PROVE  AddressInv' /\ Others(o) /\ Val(o)' = <<c.addr, c.port>>
<1> USE AddressAssumption DEF AddressInv, AddressTypeOK
<1>1. m_pImpl[o] \in Impl /\ impl[m_pImpl[o]] # Free /\ c # Free
  BY CellTyped
<1>2. AddressTypeOK'
  BY <1>1
<1>3. \A j \in Impl : impl'[j] = IF j = m_pImpl[o] THEN c ELSE impl[j]
  OBVIOUS
<1>4. OwnedOnce'
  BY <1>1, <1>3 DEF OwnedOnce, Holds
<1>5. Others(o)
  BY <1>1, <1>3 DEF Others, Val, Holds, OwnedOnce
<1>6. Val(o)' = <<c.addr, c.port>>
  BY <1>1, <1>3 DEF Val, Holds
<1> QED BY <1>2, <1>4, <1>5, <1>6

-----------------------------------------------------------------------------
(***************************************************************************)
(* A packet stays inside its buffer.                                       *)
(***************************************************************************)
PacketInv == PacketsTyped /\ WithinPacket

LEMMA FillIsWithin ==
    \A b \in Fill : b[1] \in Nat /\ b[2] \in Nat /\ b[2] <= b[1]
<1> TAKE b \in Fill
<1>1. b \in Capacities \X (0..10) /\ b[2] <= b[1]
  BY DEF Fill
<1>2. b[1] \in Capacities /\ b[2] \in 0..10
  BY <1>1
<1>3. b[1] \in Nat
  BY <1>2, DatagramAssumption
<1>4. b[2] \in Nat
  BY <1>2
<1> QED BY <1>1, <1>3, <1>4

LEMMA BecomesWithin ==
    ASSUME PacketInv, NEW p \in Packet, NEW cap \in Nat, NEW len \in Nat,
           len <= cap, NEW o \in Slot \cup {Null}, Becomes(p, cap, len, o)
    PROVE  PacketInv'
<1>1. PacketsTyped'
  BY DEF PacketInv, PacketsTyped, Becomes
<1>2. WithinPacket'
  BY DEF PacketInv, PacketsTyped, WithinPacket, Becomes, NoIO
<1> QED BY <1>1, <1>2 DEF PacketInv

LEMMA PacketStepWithin == PacketInv /\ PacketStep => PacketInv'
<1> SUFFICES ASSUME PacketInv, PacketStep PROVE PacketInv'
  OBVIOUS
<1> USE DEF PacketInv, PacketsTyped
<1>1. ASSUME NEW p \in Packet, NEW cap \in Capacities, NEW o \in Endpoints,
             Full(p, cap, o)
      PROVE  PacketInv'
  BY <1>1, BecomesWithin, DatagramAssumption DEF Full, Endpoints
<1>2. ASSUME NEW p \in Packet, NEW b \in Fill, Part(p, b[1], b[2])
      PROVE  PacketInv'
  BY <1>2, BecomesWithin, FillIsWithin DEF Part
<1>3. ASSUME NEW p \in Packet, NEW o \in Endpoints, setEndpoint(p, o)
      PROVE  PacketInv'
  BY <1>3, BecomesWithin DEF setEndpoint, Endpoints, WithinPacket
<1>4. ASSUME NEW p \in Packet, NEW b \in Fill, setbuf(p, b[1], b[2])
      PROVE  PacketInv'
  BY <1>4, BecomesWithin, FillIsWithin DEF setbuf
<1>5. ASSUME NEW p \in Packet, NEW b \in Fill, setbuflen(p, b[2])
      PROVE  PacketInv'
  <2>1. CASE MaySet(p, b[2]) /\ Becomes(p, m_cap[p], b[2], m_endp[p])
    BY <2>1, BecomesWithin, FillIsWithin DEF MaySet
  <2>2. CASE UNCHANGED <<avars, pvars, io>>
    BY <2>2 DEF pvars, WithinPacket
  <2> QED BY <1>5, <2>1, <2>2 DEF setbuflen
<1>6. ASSUME NEW p \in Packet, NEW q \in Packet, CopyPacket(p, q)
      PROVE  PacketInv'
  BY <1>6, BecomesWithin DEF CopyPacket, WithinPacket
<1>7. ASSUME NEW p \in Packet, NEW q \in Packet, MovePacket(p, q)
      PROVE  PacketInv'
  <2>1. PacketsTyped'
    BY <1>7 DEF MovePacket
  <2>2. WithinPacket'
    BY <1>7 DEF MovePacket, WithinPacket, NoIO
  <2> QED BY <2>1, <2>2
<1> QED BY <1>1, <1>2, <1>3, <1>4, <1>5, <1>6, <1>7 DEF PacketStep

LEMMA IOStepWithin == PacketInv /\ IOStep => PacketInv'
<1> SUFFICES ASSUME PacketInv, IOStep PROVE PacketInv'
  OBVIOUS
<1> USE DEF PacketInv, PacketsTyped
<1>1. ASSUME NEW p \in Packet, send(p) PROVE PacketInv'
  <2>1. io'.op = "send" /\ UNCHANGED pvars
    BY <1>1 DEF send
  <2> QED BY <2>1 DEF pvars, WithinPacket
<1>2. ASSUME NEW p \in Packet, receive(p) PROVE PacketInv'
  <2>1. PICK r \in 0..Room(p) :
          /\ io' = [op |-> "receive", at |-> m_len[p], n |-> r, cap |-> m_cap[p]]
          /\ \/ m_len' = m_len
             \/ /\ Room(p) + r <= m_cap[p]
                /\ m_len' = [m_len EXCEPT ![p] = Room(p) + r]
    BY <1>2 DEF receive, LengthFits, MaySet
  <2>2. UNCHANGED <<m_cap, m_endp>>
    BY <1>2 DEF receive
  <2>3. Room(p) \in Nat /\ r \in Nat /\ m_len[p] + r <= m_cap[p]
    BY <2>1 DEF Room, WithinPacket
  <2>4. PacketsTyped'
    BY <2>1, <2>2, <2>3
  <2>5. \A q \in Packet : m_len'[q] <= m_cap'[q]
    BY <2>1, <2>2, <2>3 DEF WithinPacket
  <2>6. io'.at + io'.n <= io'.cap
    BY <2>1, <2>3
  <2> QED BY <2>4, <2>5, <2>6 DEF WithinPacket
<1> QED BY <1>1, <1>2 DEF IOStep

LEMMA PacketInvStep == PacketInv /\ [Next]_vars => PacketInv'
<1> SUFFICES ASSUME PacketInv, [Next]_vars PROVE PacketInv'
  OBVIOUS
<1>1. CASE AddressNext /\ io' = NoIO /\ UNCHANGED <<pvars, aborted>>
  BY <1>1 DEF PacketInv, PacketsTyped, WithinPacket, pvars, NoIO
<1>2. CASE UNCHANGED vars
  BY <1>2 DEF PacketInv, PacketsTyped, WithinPacket, vars, pvars
<1> QED BY <1>1, <1>2, Kinds, PacketStepWithin, IOStepWithin

(***************************************************************************)
(* Whatever is received goes inside the buffer of the packet, behind what  *)
(* the packet held, for buffers of every size.                             *)
(***************************************************************************)
THEOREM AlwaysWithinPacket == Spec => []WithinPacket
<1>1. Init => PacketInv
  BY DEF Init, PacketInv, PacketsTyped, WithinPacket, NoIO
<1>2. PacketInv => WithinPacket
  BY DEF PacketInv
<1> QED BY <1>1, <1>2, PacketInvStep, PTL DEF Spec

-----------------------------------------------------------------------------
(***************************************************************************)
(* Every operation on addresses keeps the ownership and is an operation on *)
(* values: one step per action.                                            *)
(***************************************************************************)
LEMMA CellOf ==
    ASSUME NEW a \in Addr4 \cup Addr6, NEW n \in Port
    PROVE  Cell(a, n) \in Cells /\ Cell(a, n).addr = a /\ Cell(a, n).port = n
BY DEF Cell

LEMMA MakingIs ==
    ASSUME AddressInv, NEW o \in Slot,
           NEW a \in Addr4 \cup Addr6, NEW n \in Port, NEW i \in Unused,
           m_pImpl' = [m_pImpl EXCEPT ![o] = i],
           impl' = [Released(o) EXCEPT ![i] = Cell(a, n)],
           call' = <<"make", o, <<a, n>>>>
    PROVE  AddressInv' /\ AddressValues!Next
<1> DEFINE c == Cell(a, n)
<1>1. c \in Cells /\ c.addr = a /\ c.port = n
  BY CellOf
<1>2. impl' = [Released(o) EXCEPT ![i] = c]
  OBVIOUS
<1> HIDE DEF c
<1>3. AddressInv' /\ Others(o) /\ Val(o)' = <<c.addr, c.port>>
  BY <1>1, <1>2, Allocated
<1>4. Val(o)' = <<a, n>>
  BY <1>1, <1>3
<1>5. <<a, n>> \in Sockaddr
  BY DEF Sockaddr
<1>6. AddressValues!Make(o, <<a, n>>)
  BY <1>3, <1>4 DEF AddressValues!Make, Others
<1> QED BY <1>3, <1>5, <1>6 DEF AddressValues!Next

LEMMA CopiedIs ==
    ASSUME NEW o \in Slot, NEW p \in Slot, Others(o), Val(o)' = Val(p),
           call' = <<"copy", o, p>>
    PROVE  AddressValues!Next
<1>1. AddressValues!Copy(o, p)
  BY DEF AddressValues!Copy, Others
<1> QED BY <1>1 DEF AddressValues!Next

LEMMA MovedIs ==
    ASSUME NEW o \in Slot, NEW p \in Slot, o # p,
           \A q \in Slot \ {o, p} : Val(q)' = Val(q),
           Val(o)' = Val(p), Val(p)' = NoAddress,
           call' = <<"move", o, p>>
    PROVE  AddressValues!Next
<1>1. AddressValues!Move(o, p)
  BY DEF AddressValues!Move
<1> QED BY <1>1 DEF AddressValues!Next

LEMMA AddressStep ==
    AddressInv /\ AddressNext => AddressInv' /\ AddressValues!Next
<1> SUFFICES ASSUME AddressInv, AddressNext
             PROVE  AddressInv' /\ AddressValues!Next
  OBVIOUS
<1>1. ASSUME NEW o \in Slot, Construct(o)
      PROVE  AddressInv' /\ AddressValues!Next
  BY <1>1, MakingIs DEF Construct
<1>2. ASSUME NEW o \in Slot, NEW domain \in {"AF_INET", "AF_INET6"},
             NEW valid \in BOOLEAN, ConstructFromText(o, domain, valid)
      PROVE  AddressInv' /\ AddressValues!Next
  <2>1. FromText(domain, valid) \subseteq Addr4 \cup Addr6
    BY AddressAssumption DEF FromText
  <2> QED BY <1>2, <2>1, MakingIs DEF ConstructFromText
<1>3. ASSUME NEW o \in Slot, ConstructUnknown(o)
      PROVE  AddressInv' /\ AddressValues!Next
  <2>1. UNCHANGED <<m_pImpl, impl>>
    BY <1>3 DEF ConstructUnknown
  <2>2. AddressInv'
    BY <2>1 DEF AddressInv, AddressTypeOK, OwnedOnce, Holds
  <2>3. \A q \in Slot : Val(q)' = Val(q)
    BY <2>1 DEF Val, Holds
  <2>4. AddressValues!Fail(o)
    BY <1>3, <2>3 DEF AddressValues!Fail, ConstructUnknown
  <2> QED BY <2>2, <2>4 DEF AddressValues!Next
<1>4. ASSUME NEW o \in Slot, Destroy(o)
      PROVE  AddressInv' /\ AddressValues!Next
  <2>1. AddressInv' /\ Others(o) /\ Val(o)' = NoAddress
    BY <1>4, Deleted DEF Destroy
  <2>2. AddressValues!Drop(o)
    BY <1>4, <2>1 DEF AddressValues!Drop, Others, Destroy
  <2> QED BY <2>1, <2>2 DEF AddressValues!Next
<1>5. ASSUME NEW o \in Slot, NEW p \in Slot, CopyConstruct(o, p)
      PROVE  AddressInv' /\ AddressValues!Next
  <2> DEFINE c == [impl[m_pImpl[p]] EXCEPT !.buf = Unset]
  <2>1. PICK i \in Unused : /\ m_pImpl' = [m_pImpl EXCEPT ![o] = i]
                            /\ impl' = [Released(o) EXCEPT ![i] = c]
    BY <1>5 DEF CopyConstruct
  <2>2. Holds(p) /\ call' = <<"copy", o, p>>
    BY <1>5 DEF CopyConstruct
  <2>3. impl[m_pImpl[p]] \in Cells
    BY <2>2, CellTyped
  <2>4. c \in Cells /\ <<c.addr, c.port>> = Val(p)
    BY <2>2, <2>3 DEF Val
  <2> HIDE DEF c
  <2>5. AddressInv' /\ Others(o) /\ Val(o)' = Val(p)
    BY <2>1, <2>4, Allocated
  <2> QED BY <2>2, <2>5, CopiedIs
<1>6. ASSUME NEW o \in Slot, NEW p \in Slot, CopyAssign(o, p)
      PROVE  AddressInv' /\ AddressValues!Next
  <2>1. call' = <<"copy", o, p>>
    BY <1>6 DEF CopyAssign
  <2>2. CASE o = p /\ UNCHANGED <<m_pImpl, impl>>
    <3>1. AddressInv'
      BY <2>2 DEF AddressInv, AddressTypeOK, OwnedOnce, Holds
    <3>2. Others(o) /\ Val(o)' = Val(p)
      BY <2>2 DEF Others, Val, Holds
    <3> QED BY <2>1, <3>1, <3>2, CopiedIs
  <2>3. CASE o # p /\ Holds(o) /\ Holds(p) /\ Assigned(o, p)
    <3>1. impl[m_pImpl[p]] \in Cells
      BY <2>3, CellTyped
    <3>2. AddressInv' /\ Others(o)
            /\ Val(o)' = <<impl[m_pImpl[p]].addr, impl[m_pImpl[p]].port>>
      BY <2>3, <3>1, WrittenOver DEF Assigned
    <3>3. Val(o)' = Val(p)
      BY <2>3, <3>2 DEF Val
    <3> QED BY <2>1, <3>2, <3>3, CopiedIs
  <2> QED BY <1>6, <2>2, <2>3 DEF CopyAssign
<1>7. ASSUME NEW o \in Slot, NEW p \in Slot, MoveConstruct(o, p)
      PROVE  AddressInv' /\ AddressValues!Next
  BY <1>7, HandedOver, MovedIs DEF MoveConstruct
<1>8. ASSUME NEW o \in Slot, NEW p \in Slot, MoveAssign(o, p)
      PROVE  AddressInv' /\ AddressValues!Next
  <2>1. CASE o # p
    BY <1>8, <2>1, HandedOver, MovedIs DEF MoveAssign
  <2>2. CASE o = p
    <3>1. AddressInv' /\ Others(o) /\ Val(o)' = NoAddress
      BY <1>8, <2>2, Deleted DEF MoveAssign
    <3>2. AddressValues!Move(o, p)
      BY <1>8, <2>2, <3>1 DEF AddressValues!Move, Others, MoveAssign
    <3> QED BY <3>1, <3>2 DEF AddressValues!Next
  <2> QED BY <2>1, <2>2
<1> QED BY <1>1, <1>2, <1>3, <1>4, <1>5, <1>6, <1>7, <1>8 DEF AddressNext

(***************************************************************************)
(* Every other step keeps the ownership and every value.                   *)
(***************************************************************************)
LEMMA AddressesKept ==
    ASSUME AddressInv, UNCHANGED <<m_pImpl, impl>>
    PROVE  AddressInv' /\ \A q \in Slot : Val(q)' = Val(q)
BY DEF AddressInv, AddressTypeOK, OwnedOnce, Val, Holds

LEMMA IOStepKeeps ==
    ASSUME AddressInv, m_endp \in [Packet -> Slot \cup {Null}], IOStep
    PROVE  AddressInv' /\ \A q \in Slot : Val(q)' = Val(q)
<1>1. UNCHANGED m_pImpl
  BY IOFrame
<1>2. CASE UNCHANGED impl
  BY <1>1, <1>2, AddressesKept
<1>3. ASSUME NEW o \in Slot, NEW x \in Buffer, Holds(o),
             impl' = [impl EXCEPT ![m_pImpl[o]].buf = x]
      PROVE  AddressInv' /\ \A q \in Slot : Val(q)' = Val(q)
  <2> DEFINE c == [impl[m_pImpl[o]] EXCEPT !.buf = x]
  <2>1. impl[m_pImpl[o]] \in Cells
    BY <1>3, CellTyped
  <2>2. c \in Cells /\ <<c.addr, c.port>> = Val(o)
    BY <1>3, <2>1 DEF Val
  <2>3. impl' = [impl EXCEPT ![m_pImpl[o]] = c]
    BY <1>3
  <2> HIDE DEF c
  <2>4. AddressInv' /\ Others(o) /\ Val(o)' = Val(o)
    BY <1>1, <1>3, <2>2, <2>3, WrittenOver
  <2> QED BY <2>4 DEF Others
<1> QED BY <1>2, <1>3, IOFrame

-----------------------------------------------------------------------------
(***************************************************************************)
(* The inductive invariant: the addresses, and what packets point to.      *)
(***************************************************************************)
DatagramInv == AddressInv /\ PacketInv

LEMMA DatagramInit == Init => DatagramInv
<1> SUFFICES ASSUME Init PROVE DatagramInv
  OBVIOUS
<1>1. AddressTypeOK /\ OwnedOnce
  BY AddressAssumption DEF Init, AddressInit, AddressTypeOK, OwnedOnce, Holds
<1>2. PacketInv
  BY DEF Init, PacketInv, PacketsTyped, WithinPacket, NoIO
<1> QED BY <1>1, <1>2 DEF DatagramInv, AddressInv

LEMMA DatagramStep ==
    DatagramInv /\ [Next]_vars =>
        /\ DatagramInv'
        /\ AddressValues!Next \/ (UNCHANGED call /\ \A q \in Slot : Val(q)' = Val(q))
<1> SUFFICES ASSUME DatagramInv, [Next]_vars
             PROVE  /\ AddressInv'
                    /\ \/ AddressValues!Next
                       \/ UNCHANGED call /\ \A q \in Slot : Val(q)' = Val(q)
  BY PacketInvStep DEF DatagramInv
<1>1. AddressInv /\ m_endp \in [Packet -> Slot \cup {Null}]
  BY DEF DatagramInv, PacketInv, PacketsTyped
<1>2. CASE AddressNext
  BY <1>1, <1>2, AddressStep
<1>3. CASE UNCHANGED avars
  BY <1>1, <1>3, AddressesKept DEF avars
<1>4. CASE IOStep
  BY <1>1, <1>4, IOFrame, IOStepKeeps
<1>5. CASE UNCHANGED vars
  BY <1>3, <1>5 DEF vars
<1> QED BY <1>2, <1>3, <1>4, <1>5, Kinds, PacketFrame

(***************************************************************************)
(* No address is deleted twice or left behind, and no two objects own the  *)
(* same one, for any number of objects.                                    *)
(***************************************************************************)
THEOREM AlwaysOwnedOnce == Spec => []OwnedOnce
<1>1. DatagramInv /\ [Next]_vars => DatagramInv'
  BY DatagramStep
<1>2. DatagramInv => OwnedOnce
  BY DEF DatagramInv, AddressInv
<1> QED BY <1>1, <1>2, DatagramInit, PTL DEF Spec

(***************************************************************************)
(* Addresses are values: every step is an operation on the values of the   *)
(* objects it names, or leaves every value alone.                          *)
(***************************************************************************)
THEOREM ImplementsValueObjects == Spec => KeepsAddresses
<1>1. Init => AddressValues!Init
  BY DEF Init, AddressInit, AddressValues!Init, Val, Holds
<1>2. DatagramInv /\ [Next]_vars => DatagramInv'
  BY DatagramStep
<1>3. DatagramInv /\ [Next]_vars
        => [AddressValues!Next]_<<[o \in Slot |-> Val(o)], call>>
  <2> SUFFICES ASSUME DatagramInv, [Next]_vars, ~AddressValues!Next
               PROVE  UNCHANGED <<[o \in Slot |-> Val(o)], call>>
    OBVIOUS
  <2>1. UNCHANGED call /\ \A q \in Slot : Val(q)' = Val(q)
    BY DatagramStep
  <2> QED BY <2>1
<1> QED BY <1>1, <1>2, <1>3, DatagramInit, PTL
        DEF Spec, KeepsAddresses, AddressValues!Spec

-----------------------------------------------------------------------------
(***************************************************************************)
(* Where datagrams go.  The invariant: what the application was told it    *)
(* has given an object, from the calls alone, is the value the object has. *)
(***************************************************************************)
Given == given = [o \in Slot |-> Val(o)]

GivenInv == DatagramInv /\ Given /\ SentWhereAddressed

\* An address that is moved to itself is gone, in the code as in the books.
LEMMA MovedToItself ==
    ASSUME AddressInv, AddressNext, NEW o \in Slot, call' = <<"move", o, o>>
    PROVE  Val(o)' = NoAddress
<1>1. MoveAssign(o, o)
  BY DEF AddressNext, Construct, ConstructFromText, ConstructUnknown, Destroy,
         CopyConstruct, CopyAssign, MoveConstruct, MoveAssign
<1> QED BY <1>1, Deleted DEF MoveAssign

LEMMA AddressesGiven ==
    ASSUME AddressInv, Given, AddressNext, given' = Applied(call') PROVE Given'
<1>1. AddressValues!Next
  BY AddressStep
<1>2. ASSUME NEW o \in Slot, NEW v \in Sockaddr, AddressValues!Make(o, v)
      PROVE  Given'
  BY <1>2 DEF AddressValues!Make, Applied, Given
<1>3. ASSUME NEW o \in Slot, NEW p \in Slot, AddressValues!Copy(o, p)
      PROVE  Given'
  BY <1>3 DEF AddressValues!Copy, Applied, Given
<1>4. ASSUME NEW o \in Slot, NEW p \in Slot, AddressValues!Move(o, p)
      PROVE  Given'
  <2>1. /\ call' = <<"move", o, p>>
        /\ given' = [given EXCEPT ![o] = given[p], ![p] = NoAddress]
    BY <1>4 DEF AddressValues!Move, Applied
  <2>2. CASE o # p
    BY <1>4, <2>1, <2>2 DEF AddressValues!Move, Given
  <2>3. CASE o = p
    <3>1. Val(o)' = NoAddress
      BY <2>1, <2>3, MovedToItself
    <3>2. \A q \in Slot \ {o} : Val(q)' = Val(q)
      BY <1>4, <2>3 DEF AddressValues!Move
    <3> QED BY <2>1, <2>3, <3>1, <3>2 DEF Given
  <2> QED BY <2>2, <2>3
<1>5. ASSUME NEW o \in Slot, AddressValues!Drop(o) PROVE Given'
  BY <1>5 DEF AddressValues!Drop, Applied, Given
<1>6. ASSUME NEW o \in Slot, AddressValues!Fail(o) PROVE Given'
  BY <1>6 DEF AddressValues!Fail, Applied, Given
<1> QED BY <1>1, <1>2, <1>3, <1>4, <1>5, <1>6 DEF AddressValues!Next

\* What a send hands to the kernel is what its endpoint was given.
LEMMA SendGiven ==
    ASSUME AddressInv, Given, UNCHANGED given, NEW p \in Packet, send(p),
           m_endp[p] \in Slot
    PROVE  SentWhereAddressed'
<1> DEFINE o == m_endp[p]
<1>1. io' = [op |-> "send", by |-> o, to |-> Handed(o)]
  BY DEF send
<1>2. given'[o] = Val(o)
  BY DEF Given
<1>3. <<Handed(o)[1], Handed(o)[2]>> = Val(o)
  BY DEF Handed, Caddr, Val, NoAddress
<1> QED BY <1>1, <1>2, <1>3 DEF SentWhereAddressed

LEMMA GivenStep == GivenInv /\ [Next]_vars => GivenInv'
<1> SUFFICES ASSUME GivenInv, [Next]_vars PROVE Given' /\ SentWhereAddressed'
  BY DatagramStep DEF GivenInv
<1>1. AddressInv /\ m_endp \in [Packet -> Slot \cup {Null}]
  BY DEF GivenInv, DatagramInv, PacketInv, PacketsTyped
<1>2. CASE AddressNext /\ given' = Applied(call') /\ io' = NoIO
  BY <1>1, <1>2, AddressesGiven DEF GivenInv, SentWhereAddressed, NoIO
<1>3. CASE PacketStep
  <2>1. UNCHANGED <<m_pImpl, impl, given>> /\ (io' = NoIO \/ UNCHANGED io)
    BY <1>3 DEF PacketStep, Full, Part, setEndpoint, setbuf, setbuflen,
                CopyPacket, MovePacket, Becomes, avars
  <2>2. Given'
    BY <1>1, <2>1, AddressesKept DEF GivenInv, Given
  <2> QED BY <2>1, <2>2 DEF GivenInv, SentWhereAddressed, NoIO
<1>4. CASE IOStep
  <2>1. UNCHANGED given
    BY <1>4 DEF IOStep, send, receive
  <2>2. Given'
    BY <1>1, <1>4, <2>1, IOStepKeeps DEF GivenInv, Given
  <2>3. ASSUME NEW p \in Packet, send(p) PROVE SentWhereAddressed'
    <3>1. m_endp[p] \in Slot
      BY <1>1, <2>3 DEF send
    <3> QED BY <1>1, <2>1, <2>3, <3>1, SendGiven DEF GivenInv
  <2>4. ASSUME NEW p \in Packet, receive(p) PROVE SentWhereAddressed'
    <3>1. io'.op = "receive"
      BY <2>4 DEF receive
    <3> QED BY <3>1 DEF SentWhereAddressed
  <2> QED BY <1>4, <2>2, <2>3, <2>4 DEF IOStep
<1>5. CASE UNCHANGED vars
  <2>1. UNCHANGED <<m_pImpl, impl, given, io>>
    BY <1>5 DEF vars, avars
  <2>2. Given'
    BY <1>1, <2>1, AddressesKept DEF GivenInv, Given
  <2> QED BY <2>1, <2>2 DEF GivenInv, SentWhereAddressed
<1> QED BY <1>2, <1>3, <1>4, <1>5, Kinds

(***************************************************************************)
(* A datagram goes to the address and port the application gave its        *)
(* packet's endpoint, for any number of objects and whatever was received, *)
(* copied, moved or assigned before.                                       *)
(***************************************************************************)
THEOREM AlwaysSentWhereAddressed == Spec => []SentWhereAddressed
<1>1. Init => GivenInv
  <2>1. Init => Given /\ SentWhereAddressed
    BY DEF Init, AddressInit, Given, Val, Holds, SentWhereAddressed, NoIO
  <2> QED BY <2>1, DatagramInit DEF GivenInv
<1>2. GivenInv => SentWhereAddressed
  BY DEF GivenInv
<1> QED BY <1>1, <1>2, GivenStep, PTL DEF Spec

=============================================================================
