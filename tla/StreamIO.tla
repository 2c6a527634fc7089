------------------------------ MODULE StreamIO ------------------------------
(***************************************************************************)
(* One direction of a connection: a SocketWriterImpl at one end, a         *)
(* SocketReaderImpl at the other (src/net/socket_io_impl.h), the kernel's  *)
(* buffers between them.  StreamSocket::send and receive are one default   *)
(* Write or Read of a writer or reader made for the call.                  *)
(*                                                                         *)
(* The application knows of the transfer what the calls return.  acked are *)
(* the bytes it takes to be sent, counting from where it last told the     *)
(* writer to go on.  What was received it may take out of the buffer in    *)
(* two ways: from the Position() the reader had before the call (taken),   *)
(* or from where it last told the reader to go on (got).                   *)
(***************************************************************************)
EXTENDS Integers, SequencesExt

CONSTANTS
    Message,    \* the bytes of the writer's buffer
    Capacity,   \* size of the reader's buffer
    WireCap,    \* bytes the kernel buffers between the two ends
    MaxSent,    \* bound: bytes the application sends in all
    Excess,     \* bound: bytes a limit may go beyond the room left
    Modes,      \* whether the sockets block, per way of using them considered
    Builds      \* whether assert() is compiled out, per build considered

ASSUME StreamAssumption ==
    /\ Message \in Seq(ToSet(Message))
    /\ {Capacity, WireCap, MaxSent} \subseteq Nat \ {0} /\ Excess \in Nat
    /\ Modes \subseteq BOOLEAN /\ Builds \subseteq BOOLEAN

VARIABLES
    ndebug,     \* whether assert() is compiled out of this program
    blocking,   \* whether its sockets are in blocking mode
    w_pos,      \* m_pos of the writer
    r_pos,      \* m_pos of the reader
    r_buf,      \* the reader's buffer
    wire,       \* bytes sent and not yet received
    ended,      \* "no"; "eof": the sender shut its output; "reset"
    w_told,     \* the writer's position as the application takes it to be
    r_told,     \* the reader's, likewise
    acked,      \* bytes the application takes to be sent
    taken,      \* bytes it took from the position before each Read
    got,        \* bytes it took from where it told the reader to go on
    ret,        \* the last call, what it returned and the error it recorded
    stopped     \* "no"; "assert": one failed; "overrun": past a buffer's end

vars == <<ndebug, blocking, w_pos, r_pos, r_buf, wire, ended, w_told, r_told,
          acked, taken, got, ret, stopped>>

Bytes == ToSet(Message)
Unset == "unset"    \* a byte of the buffer nothing was received into

Results == [op : {"Write", "Read", "Reset"}, n : Int,
            err : {"none", "closed", "failed"}]

Return(op, n, err) == ret' = [op |-> op, n |-> n, err |-> err]

TypeOK ==
    /\ ndebug \in Builds /\ blocking \in Modes
    /\ w_pos \in 0..Len(Message) /\ w_told \in Nat
    /\ r_pos \in 0..Capacity /\ r_told \in Nat
    /\ r_buf \in [1..Capacity -> Bytes \cup {Unset}]
    /\ wire \in Seq(Bytes) /\ Len(wire) <= WireCap
    /\ ended \in {"no", "eof", "reset"}
    /\ acked \in Seq(Bytes)
    /\ taken \in Seq(Bytes \cup {Unset}) /\ got \in Seq(Bytes \cup {Unset})
    /\ ret \in Results
    /\ stopped \in {"no", "assert", "overrun"}

Init ==
    /\ ndebug \in Builds /\ blocking \in Modes
    /\ w_pos = 0 /\ w_told = 0
    /\ r_pos = 0 /\ r_told = 0
    /\ r_buf = [i \in 1..Capacity |-> Unset]
    /\ wire = <<>> /\ ended = "no"
    /\ acked = <<>> /\ taken = <<>> /\ got = <<>>
    /\ ret = [op |-> "Reset", n |-> 0, err |-> "none"]
    /\ stopped = "no"

-----------------------------------------------------------------------------
\* The program has not stopped, and was compiled and set up once.
Running == stopped = "no" /\ UNCHANGED <<ndebug, blocking>>

(***************************************************************************)
(* The assertion at the head of Write and of Read, with the comparison the *)
(* way round the code has it: with assertions on, only a limit beyond the  *)
(* room left passes.                                                       *)
(***************************************************************************)
Passes(pos, limit, size) == ndebug \/ pos + limit > size

\* An assertion fails, or the kernel goes past the end of a buffer.
Stop(why) ==
    /\ stopped' = why
    /\ UNCHANGED <<w_pos, r_pos, r_buf, wire, ended, w_told, r_told, acked,
                   taken, got, ret>>

\* The room of a buffer that forgets its last byte.
Room_Short(pos, size) == IF pos < size THEN size - pos - 1 ELSE 0

\* The limit of a call that is given none.
Room(pos, size) == size - pos

(***************************************************************************)
(* send(): how many bytes the kernel takes of limit; it may take fewer.  A *)
(* blocking send waits for room, unless a signal comes.  Once the output   *)
(* is shut or the connection reset it fails (the application ignores       *)
(* SIGPIPE).                                                               *)
(***************************************************************************)
SendResults(limit) ==
    LET room == WireCap - Len(wire) IN
    IF ended # "no" THEN {-1}
    ELSE IF limit = 0 THEN {0}
    ELSE IF room = 0 THEN {IF blocking THEN -1 ELSE 0}
    ELSE {n \in 1..limit : n <= room}

\* Write that takes a short send for a complete one.
Advance_Full(pos, r, limit) == pos + limit

Advance(pos, r, limit) == pos + r

Send(limit, r) ==
    \/ r > Len(Message) - w_pos /\ Stop("overrun")
    \/ /\ r \in 0 .. Len(Message) - w_pos
       /\ wire' = wire \o SubSeq(Message, w_pos + 1, w_pos + r)
       /\ w_pos' = Advance(w_pos, r, limit)
       /\ w_told' = w_told + r
       /\ acked' = acked \o SubSeq(Message, w_told + 1, w_told + r)
       /\ Return("Write", r, "none")
       /\ UNCHANGED <<r_pos, r_buf, ended, r_told, taken, got, stopped>>
    \/ /\ r = -1
       /\ Return("Write", -1, "failed")
       /\ UNCHANGED <<w_pos, r_pos, r_buf, wire, ended, w_told, r_told, acked,
                      taken, got, stopped>>

Write(limit) ==
    /\ Running
    /\ \/ ~Passes(w_pos, limit, Len(Message)) /\ Stop("assert")
       \/ /\ Passes(w_pos, limit, Len(Message))
          /\ \E r \in SendResults(limit) : Send(limit, r)

\* Reset that moves by pos instead of to pos.
WriterReset_Relative(pos) ==
    /\ Running
    /\ w_pos' = w_pos + pos
    /\ w_told' = pos
    /\ Return("Reset", pos, "none")
    /\ UNCHANGED <<r_pos, r_buf, wire, ended, r_told, acked, taken, got,
                   stopped>>

WriterReset(pos) ==
    /\ Running
    /\ w_pos' = pos
    /\ w_told' = pos
    /\ Return("Reset", pos, "none")
    /\ UNCHANGED <<r_pos, r_buf, wire, ended, r_told, acked, taken, got,
                   stopped>>

-----------------------------------------------------------------------------
(***************************************************************************)
(* recv(): how many bytes of limit it delivers; 0 at the end of the stream *)
(* and, as it may, when limit is 0; EAGAIN if a non-blocking socket has    *)
(* nothing; another errno after a reset or, if it blocks, on a signal.     *)
(***************************************************************************)
EAGAIN == -1
EOTHER == -2

RecvResults(limit) ==
    LET delivered == {n \in 1..limit : n <= Len(wire)}
        idle == IF ended # "no" THEN 0 ELSE IF blocking THEN EOTHER ELSE EAGAIN
    IN (IF wire = <<>> THEN {idle} ELSE delivered)
       \cup (IF limit = 0 THEN {0} ELSE {})
       \cup (IF ended = "reset" THEN {EOTHER} ELSE {})

\* What Read returns, and the error it records, when recv() gives r.
Returned(r) ==
    CASE r > 0      -> [n |-> r,  err |-> "none"]
      [] r = 0      -> [n |-> -1, err |-> "closed"]
      [] r = EAGAIN -> [n |-> 0,  err |-> "none"]
      [] r = EOTHER -> [n |-> -1, err |-> "failed"]

\* r bytes move from the wire into the buffer behind r_pos, if it has room.
Receive(r) ==
    /\ r \in 1 .. Capacity - r_pos
    /\ r_buf' = [i \in 1..Capacity |-> IF i \in r_pos + 1 .. r_pos + r
                                       THEN wire[i - r_pos] ELSE r_buf[i]]
    /\ r_pos' = r_pos + r
    /\ wire' = SubSeq(wire, r + 1, Len(wire))
    /\ r_told' = r_told + r
    /\ taken' = taken \o SubSeq(r_buf', r_pos + 1, r_pos + r)
    /\ got' = got \o SubSeq(r_buf', r_told + 1, r_told + r)

Read(limit) ==
    /\ Running
    /\ \/ ~Passes(r_pos, limit, Capacity) /\ Stop("assert")
       \/ /\ Passes(r_pos, limit, Capacity)
          /\ \E r \in RecvResults(limit) :
                \/ r > Capacity - r_pos /\ Stop("overrun")
                \/ /\ \/ Receive(r)
                      \/ r <= 0 /\ UNCHANGED <<r_pos, r_buf, wire, r_told,
                                              taken, got>>
                   /\ Return("Read", Returned(r).n, Returned(r).err)
                   /\ UNCHANGED <<w_pos, ended, w_told, acked, stopped>>

(***************************************************************************)
(* Reset of the reader compares where the writer's assigns: m_pos stays.   *)
(***************************************************************************)
ReaderReset(pos) ==
    /\ Running
    /\ r_told' = pos
    /\ Return("Reset", pos, "none")
    /\ UNCHANGED <<w_pos, r_pos, r_buf, wire, ended, w_told, acked, taken,
                   got, stopped>>

-----------------------------------------------------------------------------
(***************************************************************************)
(* The connection: the sender shuts its output, or it is reset and bytes   *)
(* on the way are dropped from some point on.                              *)
(***************************************************************************)
SenderEnds ==
    /\ Running
    /\ ended = "no"
    /\ ended' = "eof"
    /\ UNCHANGED <<w_pos, r_pos, r_buf, wire, w_told, r_told, acked, taken,
                   got, ret, stopped>>

ConnectionFails ==
    /\ Running
    /\ ended # "reset"
    /\ ended' = "reset"
    /\ \E k \in 0 .. Len(wire) : wire' = SubSeq(wire, 1, k)
    /\ UNCHANGED <<w_pos, r_pos, r_buf, w_told, r_told, acked, taken, got,
                   ret, stopped>>

(***************************************************************************)
(* A call without a limit, which is what StreamSocket::send and receive    *)
(* make, and the limits an application passes: any, within the bounds.     *)
(***************************************************************************)
ReadDefault == Read(Room(r_pos, Capacity))

WriteLimits ==
    {n \in 0 .. Len(Message) - w_pos + Excess : Len(acked) + n <= MaxSent}

ReadLimits == 0 .. Capacity - r_pos + Excess

Next ==
    \/ \E limit \in WriteLimits : Write(limit)
    \/ \E limit \in ReadLimits : Read(limit)
    \/ ReadDefault
    \/ \E pos \in 0 .. w_pos : WriterReset(pos)
    \/ \E pos \in 0 .. r_pos : ReaderReset(pos)
    \/ SenderEnds
    \/ ConnectionFails

Spec == Init /\ [][Next]_vars

(***************************************************************************)
(* The application goes on reading.  This is an assumption on the caller;  *)
(* the library itself schedules nothing.                                   *)
(***************************************************************************)
KeepsReading == WF_vars(ReadDefault)

FairSpec == Spec /\ KeepsReading

-----------------------------------------------------------------------------
(***************************************************************************)
(* Properties.                                                             *)
(***************************************************************************)

(***************************************************************************)
(* What an application takes out of the buffer, from the reader's position *)
(* before each Read, followed by what is on the way, is what the counts    *)
(* returned by Write told the other side was sent: nothing is lost,        *)
(* repeated or reordered by short transfers, would-block results, limits   *)
(* beyond the buffer, a writer that is rewound or a reader that is reset,  *)
(* whether Reset moves the reader or not.                                  *)
(***************************************************************************)
SentArrives ==
    /\ IsPrefix(taken \o wire, acked)
    /\ ended # "reset" => taken \o wire = acked

(***************************************************************************)
(* A reader that goes on reading gets everything that was sent before the  *)
(* sender ended, as far as its buffer has room (compiled without           *)
(* assertions: with them on no call without a limit gets anywhere).        *)
(***************************************************************************)
AllReceived ==
    ended = "eof" /\ ndebug ~>
        taken = acked \/ r_pos = Capacity \/ ended = "reset" \/ stopped # "no"

(***************************************************************************)
(* What the comment on the reader's Reset says: the next Read goes to the  *)
(* position given, so an application that looks there finds what was sent, *)
(* in order.  The code compares instead of assigning.                      *)
(***************************************************************************)
ResetMoves == IsPrefix(got, acked)

(***************************************************************************)
(* What the comment on Read says: it returns 0 when the peer has closed.   *)
(* The code returns 0 when there is nothing to read yet.                   *)
(***************************************************************************)
ZeroMeansClosed == ret.op = "Read" /\ ret.n = 0 => ended # "no"

=============================================================================
