------------------------------ MODULE SocketOpt ------------------------------
(***************************************************************************)
(* The options of one socket (src/net/socket_opt_impl.h) as the facade of  *)
(* src/net/socket_base.cpp sets and reads them, over what the kernel keeps *)
(* of each: a flag, a size, a number of clock ticks to wait, or whether    *)
(* and how long to linger.  The socket may be closed and created again;    *)
(* the new one has the options of a new socket.                            *)
(*                                                                         *)
(* The eight option classes are two operations, Set and Get, that differ   *)
(* in the name they give the kernel and in how they convert the value.     *)
(***************************************************************************)
EXTENDS Integers, FiniteSets

CONSTANTS
    Asked,   \* the integers the application passes
    PerSec,  \* milliseconds in a second (1000)
    PerMs,   \* microseconds in a millisecond (1000)
    Hz,      \* clock ticks in a second: the kernel waits in ticks
    IntMax,  \* the largest int
    MaxBuf,  \* the largest buffer the kernel lets a socket ask for
    MaxSet   \* bound: options that may have a value of their own at a time

ASSUME UnitsAssumption ==
    /\ {PerSec, PerMs, Hz, IntMax, MaxBuf, MaxSet} \subseteq Nat \ {0}
    /\ Asked \subseteq -IntMax - 1 .. IntMax
    /\ PerSec % Hz = 0 /\ PerSec <= IntMax

VARIABLES
    open,    \* whether the object has a descriptor
    opt,     \* the kernel's value of each of its own options
    asked,   \* history: what was last set, with success, on this descriptor
    ret      \* what the last Get answered: an option and a value

optVars == <<open, opt, asked, ret>>

Flags    == {"ReuseAddr", "KeepAlive", "TcpNoDelay"}
Buffers  == {"RecvBuffer", "SendBuffer"}
Timeouts == {"RecvTimeout", "SendTimeout"}
Options  == Flags \cup Buffers \cup Timeouts \cup {"Linger"}

KernelOptions ==
    {"SO_REUSEADDR", "SO_KEEPALIVE", "SO_DEBUG", "TCP_NODELAY", "SO_RCVBUF",
     "SO_SNDBUF", "SO_RCVTIMEO", "SO_SNDTIMEO", "SO_LINGER"}

\* The constructors, with SO_SNDTIMEO in both timeout classes.
Name_SameTimeout(o) ==
    CASE o = "ReuseAddr" -> "SO_REUSEADDR" [] o = "RecvBuffer"  -> "SO_RCVBUF"
      [] o = "KeepAlive" -> "SO_KEEPALIVE" [] o = "SendBuffer"  -> "SO_SNDBUF"
      [] o = "Linger"    -> "SO_LINGER"    [] o = "RecvTimeout" -> "SO_SNDTIMEO"
      [] o = "TcpNoDelay" -> "SO_DEBUG"    [] o = "SendTimeout" -> "SO_SNDTIMEO"

(***************************************************************************)
(* The level and name each class is constructed with.  TcpNoDelay passes   *)
(* the number of TCP_NODELAY at level SOL_SOCKET, where it is SO_DEBUG.    *)
(***************************************************************************)
Name(o) ==
    CASE o = "ReuseAddr" -> "SO_REUSEADDR" [] o = "RecvBuffer"  -> "SO_RCVBUF"
      [] o = "KeepAlive" -> "SO_KEEPALIVE" [] o = "SendBuffer"  -> "SO_SNDBUF"
      [] o = "Linger"    -> "SO_LINGER"    [] o = "RecvTimeout" -> "SO_RCVTIMEO"
      [] o = "TcpNoDelay" -> "SO_DEBUG"    [] o = "SendTimeout" -> "SO_SNDTIMEO"

-----------------------------------------------------------------------------
(***************************************************************************)
(* Arithmetic of C: division truncates, a long cast to int wraps around.   *)
(***************************************************************************)
Div(a, b) == IF a >= 0 THEN a \div b ELSE -((-a) \div b)
Mod(a, b) == a - b * Div(a, b)

ToInt(n) == ((n + IntMax + 1) % (2 * (IntMax + 1))) - (IntMax + 1)

(***************************************************************************)
(* The kernel (Linux).  A wait is a number of ticks, rounded up, or        *)
(* Forever; no time at all means for ever and a negative time means not    *)
(* to wait.  A buffer is given twice what was asked, within a limit.       *)
(***************************************************************************)
Forever == -1

TickUs == (PerSec * PerMs) \div Hz

InDomain(t) == t.usec \in 0 .. PerSec * PerMs - 1

Ticks(t) ==
    CASE t.sec < 0                -> 0
      [] t.sec = 0 /\ t.usec = 0  -> Forever
      [] OTHER                    -> t.sec * Hz + (t.usec + TickUs - 1) \div TickUs

TimeOf(w) ==
    IF w = Forever THEN [sec |-> 0, usec |-> 0]
    ELSE [sec |-> w \div Hz, usec |-> (w % Hz) * TickUs]

DefaultOf(k) ==
    CASE k \in {"SO_RCVTIMEO", "SO_SNDTIMEO"} -> Forever
      [] k = "SO_LINGER"                      -> [onoff |-> 0, linger |-> 0]
      [] k \in {"SO_RCVBUF", "SO_SNDBUF"}     -> MaxBuf
      [] OTHER                                -> 0

NewOptions == [k \in KernelOptions |-> DefaultOf(k)]

-----------------------------------------------------------------------------
(***************************************************************************)
(* What Set passes to ::setsockopt and Get makes of what ::getsockopt      *)
(* gives.                                                                  *)
(***************************************************************************)

ToTimeval(ms) == [sec |-> Div(ms, PerSec), usec |-> Mod(ms, PerSec) * PerMs]

FromTimeval(t) == ToInt(t.sec * PerSec + t.usec \div PerMs)

ToLinger(secs) == [onoff |-> IF secs = 0 THEN 0 ELSE 1, linger |-> secs]

\* Reading linger as if its switch were always on.
FromLinger_On(t) == IF t.onoff = 0 THEN 1 ELSE t.linger

FromLinger(t) == IF t.onoff = 0 THEN 0 ELSE t.linger

(***************************************************************************)
(* The value the kernel keeps of an accepted Set, and which it accepts.    *)
(* Only a privileged process may turn SO_DEBUG on.                         *)
(***************************************************************************)
Kept(o, n) ==
    CASE o \in Flags    -> IF n = 0 THEN 0 ELSE 1
      [] o \in Buffers  -> 2 * (IF n \in 0 .. MaxBuf THEN n ELSE MaxBuf)
      [] o \in Timeouts -> Ticks(ToTimeval(n))
      [] o = "Linger"   -> ToLinger(n)

Accepts(o, n) == o \in Timeouts => InDomain(ToTimeval(n))

Refusable(o, n) == Name(o) = "SO_DEBUG" /\ n # 0

(***************************************************************************)
(* What Get delivers.  The facade reads ReuseAddr and KeepAlive as 1 or 0. *)
(***************************************************************************)
Read(o) ==
    CASE o \in Timeouts -> FromTimeval(TimeOf(opt[Name(o)]))
      [] o = "Linger"   -> FromLinger(opt[Name(o)])
      [] OTHER          -> opt[Name(o)]

-----------------------------------------------------------------------------
Silent == [call |-> "none", value |-> 0]

NothingAsked == [o \in Options |-> IF o \in Buffers THEN MaxBuf ELSE 0]

OptInit ==
    /\ open = FALSE
    /\ opt = NewOptions
    /\ asked = NothingAsked
    /\ ret = Silent

\* The options that were given a value other than that of a new socket.
OwnValue == {o \in Options : asked[o] # NothingAsked[o]}

\* SocketImpl::Create and SocketImpl::Close, as far as the options go.
Create ==
    /\ ~open
    /\ open' = TRUE
    /\ opt' = NewOptions
    /\ asked' = NothingAsked
    /\ ret' = Silent

Close ==
    /\ open
    /\ open' = FALSE
    /\ opt' = NewOptions
    /\ asked' = NothingAsked
    /\ ret' = Silent

\* A Set that fails, without a descriptor or by the kernel, changes nothing.
Set(o, n) ==
    /\ Cardinality(OwnValue \cup {o}) <= MaxSet
    /\ \/ /\ ~open \/ ~Accepts(o, n) \/ Refusable(o, n)
          /\ ret' = [call |-> "refused", value |-> 0]
          /\ UNCHANGED <<opt, asked>>
       \/ /\ open
          /\ Accepts(o, n)
          /\ opt' = [opt EXCEPT ![Name(o)] = Kept(o, n)]
          /\ asked' = [asked EXCEPT ![o] = n]
          /\ ret' = Silent
    /\ UNCHANGED open

Get(o) ==
    /\ ret' = [call |-> o, value |-> IF open THEN Read(o) ELSE -1]
    /\ UNCHANGED <<open, opt, asked>>

OptNext ==
    \/ Create
    \/ Close
    \/ \E o \in Options, n \in Asked : Set(o, n)
    \/ \E o \in Options : Get(o)

OptSpec == OptInit /\ [][OptNext]_optVars

-----------------------------------------------------------------------------
(***************************************************************************)
(* Properties.                                                             *)
(***************************************************************************)

\* Milliseconds in a tick.
TickMs == PerSec \div Hz

(***************************************************************************)
(* The calls of a socket wait at least as long as its timeout asks, less   *)
(* than a tick longer, and for ever only if it asks for 0: whatever else   *)
(* was set before or after, and whatever was refused (set_so_timeout, the  *)
(* two timeout classes).                                                   *)
(***************************************************************************)
WaitsAsAsked ==
    open => \A o \in Timeouts :
        LET waits == opt[IF o = "RecvTimeout" THEN "SO_RCVTIMEO" ELSE "SO_SNDTIMEO"]
            ms    == asked[o]
        IN  CASE ms = 0 -> waits = Forever
              [] ms < 0 -> waits = 0
              [] OTHER  -> /\ waits * TickMs >= ms
                           /\ waits * TickMs < ms + TickMs

(***************************************************************************)
(* What Get answers is what was last set on this socket: the same sense of *)
(* a flag, the same linger time, and the time of a timeout, rounded up to  *)
(* a tick, as far as both are an int that is not negative.  Without a      *)
(* descriptor it is -1.  (The buffers read back as the kernel's double,    *)
(* and TcpNoDelay is another option to the kernel.)                        *)
(***************************************************************************)
ReadsWhatWasSet ==
    LET o == ret.call
        n == asked[o]
    IN  o \in Options =>
        /\ ~open => ret.value = -1
        /\ open /\ o \in {"ReuseAddr", "KeepAlive"} =>
              ret.value = IF n = 0 THEN 0 ELSE 1
        /\ open /\ o = "Linger" => ret.value = n
        /\ open /\ o \in Timeouts /\ n \in 0 .. IntMax - TickMs + 1 =>
              ret.value \in n .. n + TickMs - 1

=============================================================================
