-------------------------- MODULE SocketOpt_proofs --------------------------
(***************************************************************************)
(* Theorems about SocketOpt, for every unit of time, every width of an int *)
(* and whatever values are asked for.                                      *)
(***************************************************************************)
EXTENDS SocketOpt, TLAPS

(***************************************************************************)
(* Arithmetic: products of what is ordered, and division.                  *)
(***************************************************************************)
LEMMA Products ==
    ASSUME NEW c \in Nat \ {0}, NEW i \in Nat, NEW h \in Nat, i < h
    PROVE  /\ i * c \in Nat /\ h * c \in Nat
           /\ i * c + c <= h * c
  <1>1. PICK d \in Nat : h = i + 1 + d
    <2>1. h - i - 1 \in Nat /\ h = i + 1 + (h - i - 1)
      OBVIOUS
    <2>. QED BY <2>1
  <1>2. h * c = (i * c) + c + (d * c)
    BY <1>1
  <1>3. d * c \in Nat /\ i * c \in Nat /\ h * c \in Nat
    OBVIOUS
  <1>. QED BY <1>2, <1>3

LEMMA Cancel ==
    ASSUME NEW c \in Nat \ {0}, NEW i \in Nat, NEW h \in Nat, i * c < h * c
    PROVE  i < h
  <1>1. i * c \in Nat /\ h * c \in Nat
    OBVIOUS
  <1>2. ~(h < i)
    BY <1>1, Products
  <1>3. i # h
    BY <1>1
  <1>. QED BY <1>2, <1>3

LEMMA DivMod ==
    ASSUME NEW c \in Nat \ {0}, NEW k \in Nat
    PROVE  /\ k \div c \in Nat /\ k % c \in 0..c - 1
           /\ k = (k \div c) * c + (k % c)
  OBVIOUS

LEMMA DivModOf ==
    ASSUME NEW c \in Nat \ {0}, NEW i \in Nat, NEW j \in 0..c - 1
    PROVE  /\ (i * c + j) \div c = i
           /\ ((i * c + j) % c) = j
  <1>. DEFINE d == (i * c + j) \div c
              m == (i * c + j) % c
  <1>1. i * c + j \in Nat
    OBVIOUS
  <1>2. d \in Nat /\ m \in 0..c - 1 /\ i * c + j = d * c + m
    BY <1>1, DivMod
  <1>. HIDE DEF d, m
  <1>3. ~(i < d) /\ ~(d < i)
    BY <1>2, Products
  <1>4. i = d
    BY <1>2, <1>3
  <1>5. i * c \in Nat
    OBVIOUS
  <1>. QED BY <1>2, <1>4, <1>5 DEF d, m

-----------------------------------------------------------------------------
(***************************************************************************)
(* The units: a second is Hz ticks, and a tick some milliseconds.          *)
(***************************************************************************)
LEMMA Units ==
    /\ PerSec \in Nat \ {0} /\ PerMs \in Nat \ {0} /\ Hz \in Nat \ {0}
    /\ IntMax \in Nat \ {0} /\ MaxBuf \in Nat \ {0}
    /\ TickMs \in Nat \ {0} /\ TickMs <= PerSec /\ PerSec <= IntMax
    /\ PerSec = TickMs * Hz
    /\ TickUs \in Nat \ {0} /\ TickUs = TickMs * PerMs
  <1>1. /\ PerSec \in Nat \ {0} /\ PerMs \in Nat \ {0} /\ Hz \in Nat \ {0}
        /\ IntMax \in Nat \ {0} /\ MaxBuf \in Nat \ {0}
        /\ PerSec <= IntMax /\ PerSec % Hz = 0
    BY UnitsAssumption
  <1>2. TickMs \in Nat /\ PerSec = TickMs * Hz
    BY <1>1, DivMod DEF TickMs
  <1>3. TickMs # 0
    BY <1>1, <1>2
  <1>4. TickMs <= PerSec
    <2>1. Hz - 1 \in Nat /\ TickMs * (Hz - 1) \in Nat
      BY <1>1, <1>2
    <2>2. TickMs * Hz = TickMs + TickMs * (Hz - 1)
      BY <1>1, <1>2
    <2>. QED BY <1>1, <1>2, <2>1, <2>2
  <1>5. TickUs = TickMs * PerMs
    <2>. DEFINE p == TickMs * PerMs
    <2>1. p \in Nat /\ 0 \in 0..Hz - 1
      BY <1>1, <1>2
    <2>2. PerSec * PerMs = p * Hz + 0
      <3>1. \A a, b, c \in Nat : (a * b) * c = (a * c) * b + 0
        OBVIOUS
      <3>. QED BY <1>1, <1>2, <3>1
    <2>. HIDE DEF p
    <2>3. (p * Hz + 0) \div Hz = p
      BY <1>1, <2>1, DivModOf
    <2>. QED BY <2>2, <2>3 DEF p, TickUs
  <1>6. TickUs \in Nat \ {0}
    BY <1>1, <1>2, <1>3, <1>5
  <1>. QED BY <1>1, <1>2, <1>3, <1>4, <1>5, <1>6

(***************************************************************************)
(* What the kernel waits when a positive time is asked for: that time,     *)
(* rounded up to a tick.                                                   *)
(***************************************************************************)
Wait(n) == Ticks(ToTimeval(n))

LEMMA RoundedUp ==
    ASSUME NEW n \in Nat \ {0}
    PROVE  /\ Wait(n) \in Nat
           /\ Wait(n) * TickMs >= n
           /\ Wait(n) * TickMs < n + TickMs
  <1>. DEFINE s == n \div PerSec
              m == n % PerSec
              q == (m * PerMs + TickUs - 1) \div TickUs
              r == (m * PerMs + TickUs - 1) % TickUs
  <1>1. s \in Nat /\ m \in 0..PerSec - 1 /\ n = s * PerSec + m
    BY Units, DivMod
  <1>2. ToTimeval(n) = [sec |-> s, usec |-> m * PerMs]
    <2>1. Div(n, PerSec) = s
      BY DEF Div
    <2>. HIDE DEF s, m
    <2>2. n - PerSec * s = m
      <3>1. s * PerSec \in Nat /\ PerSec * s = s * PerSec
        BY <1>1, Units
      <3>. QED BY <1>1, <3>1, Units
    <2>. QED BY <2>1, <2>2 DEF ToTimeval, Mod
  <1>3. m * PerMs \in Nat
    BY <1>1, Units
  <1>4. m * PerMs + TickUs - 1 \in Nat
    BY <1>3, Units
  <1>5. q \in Nat /\ r \in 0..TickUs - 1 /\ m * PerMs + TickUs - 1 = q * TickUs + r
    BY <1>4, Units, DivMod
  <1>6. Wait(n) = s * Hz + q
    <2>. HIDE DEF s, m
    <2>1. s # 0 \/ m # 0
      BY <1>1, Units
    <2>2. m # 0 => m * PerMs # 0
      BY <1>1, Units
    <2>3. ~(s < 0) /\ ~(s = 0 /\ m * PerMs = 0)
      BY <1>1, <2>1, <2>2
    <2>. QED BY <1>2, <2>3 DEF Wait, Ticks
  <1>. HIDE DEF s, m, q, r
  <1>7. q * TickMs \in Nat /\ q * TickMs >= m /\ q * TickMs < m + TickMs
    <2>. DEFINE k == q * TickMs
    <2>1. k \in Nat
      BY <1>5, Units
    <2>2. q * TickUs = k * PerMs
      <3>1. \A a, b, c \in Nat : a * (b * c) = (a * b) * c
        OBVIOUS
      <3>. QED BY <1>5, <3>1, Units
    <2>. HIDE DEF k
    <2>3. k * PerMs \in Nat
      BY <2>1, Units
    <2>4. m * PerMs < (k + 1) * PerMs
      <3>1. (k + 1) * PerMs = k * PerMs + PerMs
        BY <2>1, Units
      <3>2. m * PerMs <= k * PerMs
        BY <1>3, <1>5, <2>2, <2>3, Units
      <3>. QED BY <1>3, <2>3, <3>1, <3>2, Units
    <2>5. k * PerMs < (m + TickMs) * PerMs
      <3>1. (m + TickMs) * PerMs = m * PerMs + TickUs
        BY <1>1, Units
      <3>. QED BY <1>3, <1>5, <2>2, <2>3, <3>1, Units
    <2>6. m < k + 1
      BY <1>1, <2>1, <2>4, Cancel, Units
    <2>7. k < m + TickMs
      BY <1>1, <2>1, <2>5, Cancel, Units
    <2>. QED BY <1>1, <2>1, <2>6, <2>7 DEF k
  <1>8. s * Hz + q \in Nat /\ (s * Hz + q) * TickMs = s * PerSec + q * TickMs
    <2>1. \A a, b, c, d \in Nat : (a * c + d) * b = a * (b * c) + d * b
      OBVIOUS
    <2>2. s * Hz + q \in Nat
      BY <1>1, <1>5, Units
    <2>. QED BY <1>1, <1>5, <2>1, <2>2, Units
  <1>9. s * PerSec \in Nat
    BY <1>1, Units
  <1>. QED BY <1>1, <1>6, <1>7, <1>8, <1>9, Units

\* No time at all is for ever, a negative time that is accepted is none.
LEMMA NoTime ==
    /\ Wait(0) = Forever
    /\ \A n \in Int : n < 0 /\ InDomain(ToTimeval(n)) => Wait(n) = 0
  <1>1. Wait(0) = Forever
    <2>1. 0 \div PerSec = 0
      BY Units
    <2>2. ToTimeval(0) = [sec |-> 0, usec |-> 0]
      BY <2>1, Units DEF ToTimeval, Div, Mod
    <2>. QED BY <2>2 DEF Wait, Ticks
  <1>2. ASSUME NEW n \in Int, n < 0, InDomain(ToTimeval(n))
        PROVE  Wait(n) = 0
    <2>. DEFINE k == -n
                s == k \div PerSec
                m == k % PerSec
    <2>1. k \in Nat \ {0}
      BY <1>2
    <2>2. s \in Nat /\ m \in 0..PerSec - 1 /\ k = s * PerSec + m
      BY <2>1, Units, DivMod
    <2>3. Div(n, PerSec) = -s
      BY <1>2 DEF Div
    <2>. HIDE DEF s, m
    <2>4. n - PerSec * (-s) = -m
      <3>1. s * PerSec \in Nat /\ PerSec * (-s) = -(s * PerSec)
        BY <2>2, Units
      <3>. QED BY <1>2, <2>2, <3>1, Units
    <2>5. ToTimeval(n) = [sec |-> -s, usec |-> (-m) * PerMs]
      BY <2>3, <2>4 DEF ToTimeval, Mod
    <2>6. m = 0
      <3>1. (-m) * PerMs >= 0
        <4>1. (-m) * PerMs \in 0 .. PerSec * PerMs - 1
          BY <1>2, <2>5 DEF InDomain
        <4>. QED BY <4>1
      <3>2. ASSUME m # 0 PROVE FALSE
        <4>1. m * PerMs \in Nat /\ m * PerMs # 0 /\ (-m) * PerMs = -(m * PerMs)
          BY <2>2, <3>2, Units
        <4>. QED BY <3>1, <4>1
      <3>. QED BY <3>2
    <2>7. s # 0
      BY <2>1, <2>2, <2>6, Units
    <2>8. -s < 0
      BY <2>2, <2>7
    <2>. QED BY <2>5, <2>8 DEF Wait, Ticks
  <1>. QED BY <1>1, <1>2

-----------------------------------------------------------------------------
(***************************************************************************)
(* What Get makes of a wait: its length in milliseconds, unless that is    *)
(* more than an int.                                                       *)
(***************************************************************************)
LEMMA ToIntOf ==
    ASSUME NEW x \in 0 .. 2 * IntMax + 1
    PROVE  /\ x <= IntMax => ToInt(x) = x
           /\ x > IntMax => ToInt(x) < 0
  <1>. DEFINE M == 2 * (IntMax + 1)
              b == x + IntMax + 1
  <1>1. M \in Nat \ {0} /\ b \in Nat
    BY Units
  <1>2. ToInt(x) = (b % M) - (IntMax + 1)
    BY DEF ToInt
  <1>3. CASE x <= IntMax
    <2>1. b \in 0..M - 1 /\ b = 0 * M + b
      BY <1>3, Units
    <2>. HIDE DEF M
    <2>2. (0 * M + b) % M = b
      BY <1>1, <2>1, DivModOf
    <2>. QED BY <1>2, <1>3, <2>1, <2>2, Units
  <1>4. CASE x > IntMax
    <2>. DEFINE j == b - M
    <2>1. j \in 0..M - 1 /\ b = 1 * M + j
      BY <1>4, Units
    <2>2. j < IntMax + 1
      BY <1>4, Units
    <2>. HIDE DEF M, j
    <2>3. (1 * M + j) % M = j
      BY <1>1, <2>1, DivModOf
    <2>. QED BY <1>2, <1>4, <2>1, <2>2, <2>3, Units
  <1>. QED BY <1>3, <1>4, Units

LEMMA WaitRead ==
    ASSUME NEW w \in Nat
    PROVE  FromTimeval(TimeOf(w)) = ToInt(w * TickMs)
  <1>. DEFINE s == w \div Hz
              k == w % Hz
  <1>1. s \in Nat /\ k \in 0..Hz - 1 /\ w = s * Hz + k
    BY Units, DivMod
  <1>2. TimeOf(w) = [sec |-> s, usec |-> k * TickUs]
    BY DEF TimeOf, Forever
  <1>. HIDE DEF s, k
  <1>3. (k * TickUs) \div PerMs = k * TickMs
    <2>. DEFINE p == k * TickMs
    <2>1. p \in Nat /\ 0 \in 0..PerMs - 1
      BY <1>1, Units
    <2>2. k * TickUs = p * PerMs + 0
      <3>1. \A a, b, c \in Nat : a * (b * c) = (a * b) * c + 0
        OBVIOUS
      <3>. QED BY <1>1, <3>1, Units
    <2>. HIDE DEF p
    <2>3. (p * PerMs + 0) \div PerMs = p
      BY <2>1, DivModOf, Units
    <2>. QED BY <2>2, <2>3 DEF p
  <1>4. s * PerSec + k * TickMs = w * TickMs
    <2>1. \A a, b, c, d \in Nat : a * (b * c) + d * b = (a * c + d) * b
      OBVIOUS
    <2>. QED BY <1>1, <2>1, Units
  <1>. QED BY <1>2, <1>3, <1>4 DEF FromTimeval

LEMMA NoTimeRead ==
    FromTimeval(TimeOf(Forever)) = 0 /\ FromTimeval(TimeOf(0)) = 0
  <1>1. ToInt(0) = 0
    BY ToIntOf, Units
  <1>2. 0 \div PerMs = 0 /\ 0 * PerSec + 0 = 0
    BY Units
  <1>3. FromTimeval(TimeOf(Forever)) = 0
    BY <1>1, <1>2 DEF FromTimeval, TimeOf
  <1>4. FromTimeval(TimeOf(0)) = 0
    <2>1. 0 * TickMs = 0
      BY Units
    <2>. QED BY <1>1, <2>1, WaitRead
  <1>. QED BY <1>3, <1>4

-----------------------------------------------------------------------------
(***************************************************************************)
(* The inductive invariant: the kernel keeps of each option what was last  *)
(* set, of a buffer no less, and what was set of a timeout is a time that  *)
(* the kernel accepts.  It says nothing of whether the socket is open,     *)
(* since the options of a closed one are those of the next.                *)
(***************************************************************************)
HeldAs(o, v, n) ==
    /\ o \notin Buffers => v = Kept(o, n)
    /\ o \in Buffers /\ n \in 0 .. MaxBuf => v \in Int /\ v >= n
    /\ n \in Asked \cup {0, MaxBuf}
    /\ o \in Timeouts => n \in Asked \cup {0} /\ Accepts(o, n)

OptInv ==
    /\ open \in BOOLEAN
    /\ opt = [k \in KernelOptions |-> opt[k]]
    /\ asked = [o \in Options |-> asked[o]]
    /\ \A o \in Options : HeldAs(o, opt[Name(o)], asked[o])

\* No two options are the same one to the kernel.
LEMMA Names ==
    ASSUME NEW o \in Options
    PROVE  /\ Name(o) \in KernelOptions
           /\ \A p \in Options : Name(o) = Name(p) => o = p
  BY DEF Options, Flags, Buffers, Timeouts, Name, KernelOptions

\* The integers asked for are ints.
LEMMA Ints ==
    \A n \in Asked \cup {0} : n \in Int /\ n \in -IntMax - 1 .. IntMax
  BY UnitsAssumption, Units

LEMMA KeptIs ==
    ASSUME NEW o \in Options, NEW n
    PROVE  /\ o \in Flags => Kept(o, n) = IF n = 0 THEN 0 ELSE 1
           /\ o \in Buffers => Kept(o, n) = 2 * (IF n \in 0 .. MaxBuf THEN n ELSE MaxBuf)
           /\ o \in Timeouts => Kept(o, n) = Wait(n)
           /\ o = "Linger" => Kept(o, n) = ToLinger(n)
  BY DEF Options, Flags, Buffers, Timeouts, Kept, Wait

LEMMA NewHeld ==
    ASSUME NEW o \in Options
    PROVE  HeldAs(o, NewOptions[Name(o)], NothingAsked[o])
  <1>1. NewOptions[Name(o)] = DefaultOf(Name(o))
    BY Names DEF NewOptions
  <1>2. CASE o \in Flags
    BY <1>1, <1>2 DEF HeldAs, DefaultOf, Name, Kept, NothingAsked, Flags,
                      Buffers, Timeouts, Options
  <1>3. CASE o \in Buffers
    BY <1>1, <1>3, Units DEF HeldAs, DefaultOf, Name, NothingAsked,
                             Buffers, Timeouts, Options
  <1>4. CASE o \in Timeouts
    <2>1. DefaultOf(Name(o)) = Forever /\ o \notin Buffers /\ o \notin Flags
      BY <1>4 DEF DefaultOf, Name, Timeouts, Buffers, Flags
    <2>2. InDomain(ToTimeval(0))
      <3>1. 0 \div PerSec = 0
        BY Units
      <3>2. ToTimeval(0) = [sec |-> 0, usec |-> 0]
        BY <3>1, Units DEF ToTimeval, Div, Mod
      <3>3. PerSec * PerMs \in Nat \ {0}
        BY Units
      <3>. QED BY <3>2, <3>3 DEF InDomain
    <2>3. Kept(o, 0) = Forever
      BY <1>4, NoTime, KeptIs
    <2>. QED BY <1>1, <1>4, <2>1, <2>2, <2>3 DEF HeldAs, Accepts, NothingAsked
  <1>5. CASE o = "Linger"
    BY <1>1, <1>5 DEF HeldAs, DefaultOf, Name, Kept, ToLinger, NothingAsked,
                      Flags, Buffers, Timeouts
  <1>. QED BY <1>2, <1>3, <1>4, <1>5 DEF Options

LEMMA SetHeld ==
    ASSUME NEW o \in Options, NEW n \in Asked, Accepts(o, n)
    PROVE  HeldAs(o, Kept(o, n), n)
  <1>1. ASSUME o \in Buffers, n \in 0 .. MaxBuf
        PROVE  Kept(o, n) \in Int /\ Kept(o, n) >= n
    <2>1. Kept(o, n) = 2 * n
      BY <1>1, KeptIs
    <2>. QED BY <1>1, <2>1, Units
  <1>. QED BY <1>1 DEF HeldAs

LEMMA HeldInit == OptInit => OptInv
  <1>. SUFFICES ASSUME OptInit PROVE OptInv
    OBVIOUS
  <1>1. /\ opt = NewOptions /\ asked = NothingAsked /\ open = FALSE
    BY DEF OptInit
  <1>2. /\ opt = [k \in KernelOptions |-> opt[k]]
        /\ asked = [o \in Options |-> asked[o]]
    BY <1>1 DEF NewOptions, NothingAsked
  <1>. QED BY <1>1, <1>2, NewHeld DEF OptInv

LEMMA HeldStep == OptInv /\ [OptNext]_optVars => OptInv'
  <1>. SUFFICES ASSUME OptInv, [OptNext]_optVars PROVE OptInv'
    OBVIOUS
  <1>1. ASSUME opt' = NewOptions, asked' = NothingAsked, open' \in BOOLEAN
        PROVE  OptInv'
    <2>1. /\ opt' = [k \in KernelOptions |-> opt'[k]]
          /\ asked' = [o \in Options |-> asked'[o]]
      BY <1>1 DEF NewOptions, NothingAsked
    <2>. QED BY <1>1, <2>1, NewHeld DEF OptInv
  <1>2. ASSUME NEW o \in Options, NEW n \in Asked, Set(o, n)
        PROVE  OptInv'
    <2>1. CASE UNCHANGED <<opt, asked>>
      BY <1>2, <2>1 DEF OptInv, Set
    <2>2. CASE /\ Accepts(o, n) /\ opt' = [opt EXCEPT ![Name(o)] = Kept(o, n)]
               /\ asked' = [asked EXCEPT ![o] = n]
      <3>1. ASSUME NEW p \in Options
            PROVE  HeldAs(p, opt'[Name(p)], asked'[p])
        <4>1. CASE p = o
          <5>1. opt'[Name(p)] = Kept(o, n) /\ asked'[p] = n
            BY <2>2, <4>1, Names DEF OptInv
          <5>. QED BY <2>2, <4>1, <5>1, SetHeld
        <4>2. CASE p # o
          <5>1. opt'[Name(p)] = opt[Name(p)] /\ asked'[p] = asked[p]
            BY <2>2, <4>2, Names DEF OptInv
          <5>. QED BY <5>1 DEF OptInv
        <4>. QED BY <4>1, <4>2
      <3>2. /\ opt' = [k \in KernelOptions |-> opt'[k]]
            /\ asked' = [p \in Options |-> asked'[p]]
        BY <2>2 DEF OptInv
      <3>. QED BY <1>2, <3>1, <3>2 DEF OptInv, Set
    <2>. QED BY <1>2, <2>1, <2>2 DEF Set
  <1>3. CASE Create
    BY <1>1, <1>3 DEF Create
  <1>4. CASE Close
    BY <1>1, <1>4 DEF Close
  <1>5. ASSUME NEW o \in Options, Get(o) PROVE OptInv'
    BY <1>5 DEF OptInv, Get
  <1>6. CASE UNCHANGED optVars
    BY <1>6 DEF OptInv, optVars
  <1>. QED BY <1>2, <1>3, <1>4, <1>5, <1>6 DEF OptNext

-----------------------------------------------------------------------------
(***************************************************************************)
(* The calls of a socket wait as their timeouts ask (set_so_timeout).      *)
(***************************************************************************)
THEOREM WaitsHold == OptSpec => []WaitsAsAsked
  <1>1. OptInv => WaitsAsAsked
    <2>. SUFFICES ASSUME OptInv, NEW o \in Timeouts
                  PROVE  LET w == opt[IF o = "RecvTimeout" THEN "SO_RCVTIMEO"
                                                          ELSE "SO_SNDTIMEO"]
                             n == asked[o]
                         IN  /\ n = 0 => w = Forever
                             /\ n < 0 => w = 0
                             /\ n > 0 => /\ w * TickMs >= n
                                         /\ w * TickMs < n + TickMs
      <3>1. OptInv => \A o \in Timeouts : asked[o] \in Int
        BY Ints DEF OptInv, HeldAs, Options
      <3>. QED BY <3>1 DEF WaitsAsAsked
    <2>1. o \in Options /\ o \notin Buffers /\ o \notin Flags
      BY DEF Options, Timeouts, Buffers, Flags
    <2>2. Name(o) = IF o = "RecvTimeout" THEN "SO_RCVTIMEO" ELSE "SO_SNDTIMEO"
      BY DEF Name, Timeouts
    <2>3. /\ opt[Name(o)] = Wait(asked[o])
          /\ asked[o] \in Int /\ InDomain(ToTimeval(asked[o]))
      <3>1. HeldAs(o, opt[Name(o)], asked[o])
        BY <2>1 DEF OptInv
      <3>. QED BY <2>1, <3>1, Ints, Units, KeptIs DEF HeldAs, Accepts
    <2>4. asked[o] > 0 => asked[o] \in Nat \ {0}
      BY <2>3
    <2>. QED BY <2>2, <2>3, <2>4, NoTime, RoundedUp
  <1>. QED BY <1>1, HeldInit, HeldStep, PTL DEF OptSpec

(***************************************************************************)
(* What is read of a timeout that the kernel holds is the time asked for,  *)
(* rounded up to a tick, where that is an int.                             *)
(***************************************************************************)
LEMMA TimeoutRead ==
    ASSUME NEW n \in 0 .. IntMax - TickMs + 1
    PROVE  FromTimeval(TimeOf(Wait(n))) \in n .. n + TickMs - 1
  <1>0. n \in Nat /\ n + TickMs - 1 <= IntMax
    BY Units
  <1>1. CASE n = 0
    BY <1>1, NoTime, NoTimeRead, Units
  <1>2. CASE n # 0
    <2>. DEFINE x == Wait(n) * TickMs
    <2>1. /\ Wait(n) \in Nat /\ x >= n /\ x < n + TickMs
      BY <1>0, <1>2, RoundedUp, Units
    <2>2. x \in Nat
      BY <2>1, Units
    <2>3. FromTimeval(TimeOf(Wait(n))) = ToInt(x)
      BY <2>1, WaitRead
    <2>. HIDE DEF x
    <2>4. x \in 0 .. 2 * IntMax + 1 /\ x <= IntMax
      BY <1>0, <2>1, <2>2, Units
    <2>5. ToInt(x) = x
      BY <2>4, ToIntOf
    <2>. QED BY <1>0, <2>1, <2>2, <2>3, <2>5, Units
  <1>. QED BY <1>1, <1>2

(***************************************************************************)
(* What Get answers is what was last set on this socket.                   *)
(***************************************************************************)
LEMMA GetReads ==
    ASSUME OptInv, NEW o \in Options, Get(o)
    PROVE  ReadsWhatWasSet'
  <1>1. /\ open' = open /\ opt' = opt /\ asked' = asked
        /\ ret'.call = o /\ ret'.value = IF open THEN Read(o) ELSE -1
    BY DEF Get
  <1>2. HeldAs(o, opt[Name(o)], asked[o])
    BY DEF OptInv
  <1>3. CASE ~open
    BY <1>1, <1>3 DEF ReadsWhatWasSet
  <1>4. CASE open /\ o \in {"ReuseAddr", "KeepAlive"}
    <2>1. o \in Flags /\ o \notin Buffers /\ o \notin Timeouts /\ o # "Linger"
      BY <1>4 DEF Flags, Buffers, Timeouts
    <2>2. ret'.value = IF asked[o] = 0 THEN 0 ELSE 1
      BY <1>1, <1>2, <1>4, <2>1, KeptIs DEF Read, HeldAs
    <2>. QED BY <1>1, <1>4, <2>1, <2>2 DEF ReadsWhatWasSet
  <1>5. CASE open /\ (o \in Buffers \/ o = "TcpNoDelay")
    BY <1>1, <1>5 DEF ReadsWhatWasSet, Buffers, Timeouts
  <1>6. CASE open /\ o = "Linger"
    <2>1. o \notin Flags /\ o \notin Timeouts /\ o \notin Buffers
      BY <1>6 DEF Flags, Buffers, Timeouts
    <2>2. ret'.value = asked[o]
      BY <1>1, <1>2, <1>6, <2>1, KeptIs DEF Read, HeldAs, ToLinger, FromLinger
    <2>. QED BY <1>1, <1>6, <2>1, <2>2 DEF ReadsWhatWasSet
  <1>7. CASE open /\ o \in Timeouts
    <2>1. /\ o \notin Flags /\ o # "Linger" /\ o \notin Buffers
          /\ o \notin {"ReuseAddr", "KeepAlive"}
      BY <1>7 DEF Flags, Buffers, Timeouts
    <2>2. ret'.value = FromTimeval(TimeOf(Wait(asked[o])))
      BY <1>1, <1>2, <1>7, <2>1, KeptIs DEF Read, HeldAs
    <2>3. asked[o] \in 0 .. IntMax - TickMs + 1 =>
             ret'.value \in asked[o] .. asked[o] + TickMs - 1
      BY <2>2, TimeoutRead
    <2>. QED BY <1>1, <1>7, <2>1, <2>3 DEF ReadsWhatWasSet
  <1>. QED BY <1>3, <1>4, <1>5, <1>6, <1>7 DEF Options, Flags

(***************************************************************************)
(* What Get answers is what was last set on this socket (the Get of        *)
(* SocketOptReuseAddr, KeepAlive, Linger and the two timeouts), for every  *)
(* unit of time, width of an int and sequence of calls.                    *)
(***************************************************************************)
THEOREM ReadsHold == OptSpec => []ReadsWhatWasSet
  <1>1. OptInit => ReadsWhatWasSet
    BY DEF OptInit, Silent, ReadsWhatWasSet, Options, Flags, Buffers, Timeouts
  <1>2. OptInv /\ ReadsWhatWasSet /\ [OptNext]_optVars => ReadsWhatWasSet'
    <2>. SUFFICES ASSUME OptInv, ReadsWhatWasSet, [OptNext]_optVars
                  PROVE  ReadsWhatWasSet'
      OBVIOUS
    <2>1. ASSUME ret'.call \in {"none", "refused"}
          PROVE  ReadsWhatWasSet'
      BY <2>1 DEF ReadsWhatWasSet, Options, Flags, Buffers, Timeouts
    <2>2. CASE Create \/ Close
      BY <2>1, <2>2 DEF Create, Close, Silent
    <2>3. CASE \E o \in Options, n \in Asked : Set(o, n)
      BY <2>1, <2>3 DEF Set, Silent
    <2>4. CASE \E o \in Options : Get(o)
      BY <2>4, GetReads
    <2>5. CASE UNCHANGED optVars
      BY <2>5 DEF ReadsWhatWasSet, optVars
    <2>. QED BY <2>2, <2>3, <2>4, <2>5 DEF OptNext
  <1>. QED BY <1>1, <1>2, HeldInit, HeldStep, PTL DEF OptSpec

=============================================================================
