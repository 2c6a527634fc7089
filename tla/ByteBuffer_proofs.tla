-------------------------- MODULE ByteBuffer_proofs --------------------------
(***************************************************************************)
(* For arrays, programs and fills of every size: chars keep to the array,  *)
(* and what was put is read back.                                          *)
(***************************************************************************)
EXTENDS ByteBuffer, FiniteSetTheorems, SequenceTheorems, TLAPS

Items == [type : Types, order : Orders]

Histories == [phase : {"fill", "drain", "other"}, fill : Seq(Items), taken : Nat]

\* What a call does that ends the program.
Stops ==
    /\ status' \in Ends
    /\ UNCHANGED <<env, m_buf, m_pos, m_lim, m_mark, m_endian, hist, lowered, ret>>

-----------------------------------------------------------------------------
(***************************************************************************)
(* The operators.                                                          *)
(***************************************************************************)
LEMMA SizeFacts ==
    ASSUME NEW t \in Types
    PROVE  Size(t) \in {1, 2, 4, 8} /\ Step(t) \in Nat \ {0}
  <1>1. SizeT \in Nat \ {0}
    BY ByteBufferAssumption
  <1>. QED BY <1>1 DEF Types, Size, Step

LEMMA MinusFacts ==
    ASSUME NEW a \in Nat, NEW b \in Nat, b <= a
    PROVE  Minus(a, b) = a - b
  BY DEF Minus

LEMMA ProgramFacts ==
    ASSUME TypeOK
    PROVE  /\ m_cap \in Nat /\ env.program.types \subseteq Types
           /\ native \in Orders /\ env.ndebug \in BOOLEAN
  <1>1. env.program \in Programs /\ env.native \in Natives /\ env.ndebug \in Builds
    BY DEF TypeOK
  <1>. QED BY <1>1, ByteBufferAssumption DEF m_cap, native

LEMMA HistoryFacts ==
    ASSUME TypeOK
    PROVE  /\ hist \in Histories /\ Len(hist.fill) \in Nat /\ Len(hist.fill) <= MaxFill
           /\ hist.fill \in Seq(Items) /\ hist.taken \in Nat
           /\ \A t \in Types : Item(t) \in Items
  <1>1. hist \in Histories /\ Len(hist.fill) <= MaxFill /\ m_endian \in Orders
    BY DEF TypeOK, Histories, Items
  <1>2. hist.fill \in Seq(Items) /\ hist.taken \in Nat
    BY <1>1 DEF Histories
  <1>3. Len(hist.fill) \in Nat
    BY <1>2, LenProperties
  <1>. QED BY <1>1, <1>2, <1>3 DEF Item, Items

\* The values of hist are replaced one component at a time.
LEMMA NewFill ==
    ASSUME NEW h \in Histories, NEW f \in Seq(Items)
    PROVE  /\ [h EXCEPT !.fill = f] \in Histories
           /\ [h EXCEPT !.fill = f].fill = f
           /\ [h EXCEPT !.fill = f].phase = h.phase
           /\ [h EXCEPT !.fill = f].taken = h.taken
  BY DEF Histories

LEMMA NewTaken ==
    ASSUME NEW h \in Histories, NEW n \in Nat
    PROVE  /\ [h EXCEPT !.taken = n] \in Histories
           /\ [h EXCEPT !.taken = n].taken = n
           /\ [h EXCEPT !.taken = n].phase = h.phase
           /\ [h EXCEPT !.taken = n].fill = h.fill
  BY DEF Histories

\* The histories a program starts anew with hold no values.
LEMMA FreshHistories ==
    /\ Filling \in Histories /\ Filling.fill = <<>> /\ Filling.phase = "fill"
    /\ Other \in Histories /\ Other.fill = <<>> /\ Other.phase = "other"
    /\ Len(<<>>) = 0 /\ MaxFill >= 0
  <1>1. <<>> \in Seq(Items) /\ Len(<<>>) = 0
    BY EmptySeq
  <1>. QED BY <1>1, ByteBufferAssumption DEF Filling, Other, Histories

LEMMA DrainedFacts ==
    ASSUME NEW f \in Seq(Items)
    PROVE  /\ Drained(f) \in Histories /\ Drained(f).fill = f
           /\ Drained(f).phase = "drain" /\ Drained(f).taken = 0
  BY DEF Drained, Histories

(***************************************************************************)
(* The values that come next are those after the ones taken, if there are  *)
(* so many; then taking them moves taken past them.                        *)
(***************************************************************************)
CanTake(t, n) == /\ hist.phase = "drain" /\ Uniform(t) /\ n \in Nat \ {0}
                 /\ hist.taken + n <= Len(hist.fill)

LEMMA NextFacts ==
    ASSUME TypeOK, NEW t, NEW n \in Nat
    PROVE  \/ /\ NextValues(t, n) = <<>>
              /\ Taken(NextValues(t, n)) = Other
           \/ /\ CanTake(t, n)
              /\ NextValues(t, n) = [i \in 1..n |-> hist.taken + i]
              /\ Taken(NextValues(t, n)) = [hist EXCEPT !.taken = hist.taken + n]
  <1>. DEFINE ks == [i \in 1..n |-> hist.taken + i]
  <1>1. hist.taken \in Nat /\ Len(hist.fill) \in Nat
    BY HistoryFacts
  <1>2. ks \in Seq(Nat) /\ Len(ks) = n
    BY <1>1
  <1>3. n = 0 => ks = <<>>
    BY <1>2, EmptySeq
  <1>4. n # 0 => ks # <<>> /\ Last(ks) = hist.taken + n
    <2>1. n # 0 => n \in 1..n
      OBVIOUS
    <2>2. n # 0 => ks[n] = hist.taken + n
      BY <2>1
    <2>3. n # 0 => ks # <<>>
      BY <1>2, EmptySeq
    <2>. QED BY <1>2, <2>2, <2>3 DEF Last
  <1>5. CASE hist.phase = "drain" /\ Uniform(t) /\ hist.taken + n <= Len(hist.fill)
    <2>1. NextValues(t, n) = ks
      BY <1>5 DEF NextValues
    <2>. HIDE DEF ks
    <2>2. CASE n = 0
      BY <1>3, <2>1, <2>2 DEF Taken
    <2>3. CASE n # 0
      <3>1. Taken(ks) = [hist EXCEPT !.taken = hist.taken + n]
        BY <1>4, <2>3 DEF Taken
      <3>. QED BY <1>5, <2>1, <2>3, <3>1 DEF CanTake, ks
    <2>. QED BY <2>2, <2>3
  <1>6. CASE ~(hist.phase = "drain" /\ Uniform(t) /\ hist.taken + n <= Len(hist.fill))
    BY <1>6 DEF NextValues, Taken
  <1>. QED BY <1>5, <1>6

LEMMA TakenHistory ==
    ASSUME TypeOK, NEW t, NEW n \in Nat
    PROVE  /\ Taken(NextValues(t, n)) \in Histories
           /\ Len(Taken(NextValues(t, n)).fill) <= MaxFill
  <1>1. hist.taken + n \in Nat
    BY HistoryFacts
  <1>2. hist \in Histories /\ Len(hist.fill) <= MaxFill
    BY HistoryFacts
  <1>3. CASE Taken(NextValues(t, n)) = Other
    BY <1>3, FreshHistories
  <1>4. CASE Taken(NextValues(t, n)) = [hist EXCEPT !.taken = hist.taken + n]
    BY <1>1, <1>2, <1>4, NewTaken
  <1>. QED BY <1>3, <1>4, NextFacts

-----------------------------------------------------------------------------
(***************************************************************************)
(* The type of the state after a step.                                     *)
(***************************************************************************)
LEMMA KnownFacts ==
    ASSUME NEW h, NEW mem, DOMAIN mem = DOMAIN m_buf, Known(h, mem)
    PROVE  /\ hist' = h /\ DOMAIN m_buf' = DOMAIN m_buf
           /\ h.fill = <<>> => m_buf' = [a \in DOMAIN m_buf |-> Blank]
           /\ h.fill # <<>> => m_buf' = mem
  BY DEF Known

LEMMA StoreDomain == ASSUME NEW a, NEW w PROVE DOMAIN Store(a, w) = DOMAIN m_buf
  BY DEF Store

LEMMA TypeNext ==
    ASSUME TypeOK, Going, lowered' \in BOOLEAN,
           NEW h \in Histories, Len(h.fill) <= MaxFill,
           NEW mem, DOMAIN mem = DOMAIN m_buf, Known(h, mem),
           m_pos' \in Nat, m_lim' \in Nat, m_mark' \in Nat, m_endian' \in Orders
    PROVE  TypeOK'
  <1>1. m_cap' = m_cap /\ UNCHANGED env /\ status' = "running"
    BY DEF m_cap, Going
  <1>2. hist' = h /\ DOMAIN m_buf' = DOMAIN m_buf
    BY KnownFacts
  <1>3. hist' \in [phase : {"fill", "drain", "other"},
                   fill : Seq([type : Types, order : Orders]), taken : Nat]
    BY <1>2 DEF Histories, Items
  <1>. QED BY <1>1, <1>2, <1>3 DEF TypeOK

\* What a call that goes on leaves alone.
LEMMA RunningFacts ==
    ASSUME TypeOK, Running
    PROVE  /\ Going /\ UNCHANGED env /\ m_cap' = m_cap
           /\ lowered' = lowered /\ lowered' \in BOOLEAN
  BY DEF TypeOK, Running, Going, m_cap

LEMMA PosFacts ==
    ASSUME TypeOK
    PROVE  /\ m_pos \in Nat /\ m_lim \in Nat /\ m_mark \in Nat /\ m_cap \in Nat
           /\ m_endian \in Orders /\ remaining \in Nat
           /\ m_pos <= m_lim => remaining = m_lim - m_pos
  <1>1. /\ m_pos \in Nat /\ m_lim \in Nat /\ m_mark \in Nat /\ m_cap \in Nat
        /\ m_endian \in Orders
    BY ProgramFacts DEF TypeOK
  <1>2. m_pos <= m_lim => remaining = m_lim - m_pos /\ remaining \in Nat
    BY <1>1 DEF remaining, Minus
  <1>3. ~(m_pos <= m_lim) => remaining = 2 ^ 30
    BY DEF remaining, Minus
  <1>4. 2 ^ 30 \in Nat
    BY SMT
  <1>. QED BY <1>1, <1>2, <1>3, <1>4

LEMMA StopType == ASSUME TypeOK, Stops PROVE TypeOK'
  BY DEF TypeOK, Stops, m_cap

-----------------------------------------------------------------------------
(***************************************************************************)
(* The accesses.  What a put makes of the fill:                            *)
(***************************************************************************)
Appended(t) == [hist EXCEPT !.fill = Append(@, Item(t))]

LEMMA AppendedFacts ==
    ASSUME TypeOK, NEW t \in Types, Len(hist.fill) < MaxFill
    PROVE  /\ Appended(t) \in Histories
           /\ Appended(t).fill = Append(hist.fill, Item(t))
           /\ Appended(t).phase = hist.phase /\ Appended(t).taken = hist.taken
           /\ Len(Appended(t).fill) = Len(hist.fill) + 1
           /\ Len(Appended(t).fill) <= MaxFill
  <1>. DEFINE f == Append(hist.fill, Item(t))
  <1>1. hist \in Histories /\ hist.fill \in Seq(Items) /\ Item(t) \in Items
        /\ Len(hist.fill) \in Nat
    BY HistoryFacts
  <1>2. f \in Seq(Items) /\ Len(f) = Len(hist.fill) + 1
    BY <1>1
  <1>3. Appended(t) = [hist EXCEPT !.fill = f]
    BY DEF Appended
  <1>. HIDE DEF f
  <1>4. Appended(t) \in Histories /\ Appended(t).fill = f
        /\ Appended(t).phase = hist.phase /\ Appended(t).taken = hist.taken
    BY <1>1, <1>2, <1>3, NewFill
  <1>5. Len(f) <= MaxFill
    BY <1>1, <1>2, ByteBufferAssumption
  <1>. QED BY <1>2, <1>4, <1>5 DEF f

LEMMA NothingFacts == Nothing.want = <<>>
  BY DEF Nothing

LEMMA PutType ==
    ASSUME TypeOK, NEW t \in Types, Put(t) PROVE TypeOK'
  <1>1. CASE Stops
    BY <1>1, StopType
  <1>2. CASE ~Stops
    <2>1. /\ Running /\ m_pos' = m_pos + Step(t) /\ UNCHANGED <<m_lim, m_mark, m_endian>>
      BY <1>2 DEF Put, Ended, Stop, Stops, Ends
    <2>2. /\ m_pos' \in Nat /\ m_lim' \in Nat /\ m_mark' \in Nat
          /\ m_endian' \in Orders
      BY <2>1, PosFacts, SizeFacts
    <2>3. ASSUME NEW h \in Histories, Len(h.fill) <= MaxFill, NEW mem,
                 DOMAIN mem = DOMAIN m_buf, Known(h, mem)
          PROVE  TypeOK'
      BY <2>1, <2>2, <2>3, RunningFacts, TypeNext
    <2>4. CASE hist.phase = "fill"
      <3>1. PICK a, w : Len(hist.fill) < MaxFill /\ Known(Appended(t), Store(a, w))
        BY <1>2, <2>4 DEF Put, Appended, Ended, Stop, Stops, Ends
      <3>. QED BY <2>3, <3>1, AppendedFacts, StoreDomain
    <2>5. CASE hist.phase # "fill"
      <3>1. Known(Other, m_buf)
        BY <1>2, <2>5 DEF Put, Ended, Stop, Stops, Ends
      <3>. QED BY <2>3, <3>1, FreshHistories
    <2>. QED BY <2>4, <2>5
  <1>. QED BY <1>1, <1>2

LEMMA GetType ==
    ASSUME TypeOK, NEW t \in Types, Get(t) PROVE TypeOK'
  <1>1. CASE Stops
    BY <1>1, StopType
  <1>2. CASE ~Stops
    <2>1. /\ Running /\ Known(Taken(NextValues(t, 1)), m_buf)
          /\ m_pos' = m_pos + Step(t) /\ UNCHANGED <<m_lim, m_mark, m_endian>>
      BY <1>2 DEF Get, Ended, Stop, Stops, Ends
    <2>2. /\ m_pos' \in Nat /\ m_lim' \in Nat /\ m_mark' \in Nat
          /\ m_endian' \in Orders
      BY <2>1, PosFacts, SizeFacts
    <2>. QED BY <2>1, <2>2, RunningFacts, TakenHistory, TypeNext
  <1>. QED BY <1>1, <1>2

\* A value of the fill is replaced.
Replaced(k, t) == [hist EXCEPT !.fill[k] = Item(t)]

LEMMA ReplacedFacts ==
    ASSUME TypeOK, NEW t \in Types, NEW k \in DOMAIN hist.fill
    PROVE  /\ Replaced(k, t) \in Histories
           /\ Replaced(k, t).fill = [hist.fill EXCEPT ![k] = Item(t)]
           /\ Replaced(k, t).phase = hist.phase /\ Replaced(k, t).taken = hist.taken
           /\ Len(Replaced(k, t).fill) = Len(hist.fill)
           /\ Len(Replaced(k, t).fill) <= MaxFill
           /\ Replaced(k, t).fill # <<>> /\ DOMAIN Replaced(k, t).fill = DOMAIN hist.fill
  <1>. DEFINE f == [hist.fill EXCEPT ![k] = Item(t)]
  <1>1. hist \in Histories /\ hist.fill \in Seq(Items) /\ Item(t) \in Items
        /\ Len(hist.fill) \in Nat /\ Len(hist.fill) <= MaxFill
        /\ DOMAIN hist.fill = 1..Len(hist.fill)
    BY HistoryFacts, LenProperties
  <1>2. f \in Seq(Items) /\ Len(f) = Len(hist.fill) /\ DOMAIN f = DOMAIN hist.fill
    BY <1>1, ExceptSeq
  <1>3. Replaced(k, t) = [hist EXCEPT !.fill = f]
    BY <1>1 DEF Replaced, Histories
  <1>4. f # <<>>
    BY <1>1, <1>2, EmptySeq
  <1>. HIDE DEF f
  <1>5. Replaced(k, t) \in Histories /\ Replaced(k, t).fill = f
        /\ Replaced(k, t).phase = hist.phase /\ Replaced(k, t).taken = hist.taken
    BY <1>1, <1>2, <1>3, NewFill
  <1>. QED BY <1>1, <1>2, <1>4, <1>5 DEF f

LEMMA AtFacts ==
    ASSUME NEW t, NEW idx, NEW k \in At(t, idx)
    PROVE  k \in DOMAIN hist.fill /\ Uniform(t) /\ idx = (k - 1) * Step(t)
  BY DEF At

LEMMA PutAtType ==
    ASSUME TypeOK, NEW t \in Types, NEW idx, PutAt(t, idx) PROVE TypeOK'
  <1>1. CASE Stops
    BY <1>1, StopType
  <1>2. CASE ~Stops
    <2>1. /\ Running /\ UNCHANGED <<m_pos, m_lim, m_mark, m_endian>>
          /\ \/ Known(Other, m_buf)
             \/ \E k \in At(t, idx) :
                   Known(Replaced(k, t),
                         Store(Offset(t, idx), InMemory(m_ord(Value(k, t)))))
      BY <1>2 DEF PutAt, Replaced, Ended, Stop, Stops, Ends
    <2>3. ASSUME NEW h \in Histories, Len(h.fill) <= MaxFill, NEW mem,
                 DOMAIN mem = DOMAIN m_buf, Known(h, mem)
          PROVE  TypeOK'
      BY <2>1, <2>3, PosFacts, RunningFacts, TypeNext
    <2>4. CASE Known(Other, m_buf)
      BY <2>3, <2>4, FreshHistories
    <2>5. ASSUME NEW k \in At(t, idx),
                 Known(Replaced(k, t),
                       Store(Offset(t, idx), InMemory(m_ord(Value(k, t)))))
          PROVE  TypeOK'
      <3>1. k \in DOMAIN hist.fill
        BY <2>5, AtFacts
      <3>2. Replaced(k, t) \in Histories /\ Len(Replaced(k, t).fill) <= MaxFill
        BY <3>1, ReplacedFacts
      <3>. QED BY <2>3, <2>5, <3>2, StoreDomain
    <2>. QED BY <2>1, <2>4, <2>5
  <1>. QED BY <1>1, <1>2

\* A step that changes the values returned and no more.
LEMMA ReturnType ==
    ASSUME TypeOK, Running, UNCHANGED <<m_buf, m_pos, m_lim, m_mark, m_endian, hist>>
    PROVE  TypeOK'
  BY DEF TypeOK, Running, Going, m_cap

LEMMA GetAtType ==
    ASSUME TypeOK, NEW t, NEW idx, GetAt(t, idx) PROVE TypeOK'
  <1>1. CASE Stops
    BY <1>1, StopType
  <1>2. CASE ~Stops
    <2>1. Running /\ UNCHANGED <<m_buf, m_pos, m_lim, m_mark, m_endian, hist>>
      BY <1>2 DEF GetAt, Ended, Stop, Stops, Ends
    <2>. QED BY <2>1, ReturnType
  <1>. QED BY <1>1, <1>2

-----------------------------------------------------------------------------
(***************************************************************************)
(* Blocks.                                                                 *)
(***************************************************************************)
Extended(n) == [hist EXCEPT !.fill = @ \o [i \in 1..n |-> Item("char")]]

LEMMA ExtendedFacts ==
    ASSUME TypeOK, NEW n \in Nat, Len(hist.fill) + n <= MaxFill
    PROVE  /\ Extended(n) \in Histories
           /\ Extended(n).fill = hist.fill \o [i \in 1..n |-> Item("char")]
           /\ Extended(n).phase = hist.phase /\ Extended(n).taken = hist.taken
           /\ Len(Extended(n).fill) = Len(hist.fill) + n
           /\ \A k \in 1 .. Len(hist.fill) + n :
                 Extended(n).fill[k] = IF k <= Len(hist.fill) THEN hist.fill[k]
                                                             ELSE Item("char")
  <1>. DEFINE x == [i \in 1..n |-> Item("char")]
              f == hist.fill \o x
  <1>1. hist \in Histories /\ hist.fill \in Seq(Items) /\ Item("char") \in Items
        /\ Len(hist.fill) \in Nat
    BY HistoryFacts DEF Types
  <1>2. x \in Seq(Items) /\ Len(x) = n /\ \A i \in 1..n : x[i] = Item("char")
    BY <1>1
  <1>3. Extended(n) = [hist EXCEPT !.fill = f]
    BY DEF Extended
  <1>. HIDE DEF x
  <1>4. /\ f \in Seq(Items) /\ Len(f) = Len(hist.fill) + n
        /\ \A k \in 1 .. Len(hist.fill) + n :
              f[k] = IF k <= Len(hist.fill) THEN hist.fill[k]
                                            ELSE x[k - Len(hist.fill)]
    BY <1>1, <1>2, ConcatProperties
  <1>. HIDE DEF f
  <1>5. ASSUME NEW k \in 1 .. Len(hist.fill) + n
        PROVE  f[k] = IF k <= Len(hist.fill) THEN hist.fill[k] ELSE Item("char")
    <2>1. ~(k <= Len(hist.fill)) => k - Len(hist.fill) \in 1..n
      BY <1>1
    <2>. QED BY <1>2, <1>4, <2>1
  <1>6. Extended(n) \in Histories /\ Extended(n).fill = f
        /\ Extended(n).phase = hist.phase /\ Extended(n).taken = hist.taken
    BY <1>1, <1>3, <1>4, NewFill
  <1>. QED BY <1>4, <1>5, <1>6 DEF f, x

\* Block b of the fill as PutBlock stores it.
Block(n) == [b \in 0..n - 1 |-> <<Len(hist.fill) + b + 1, 0>>]

LEMMA PutBlockType ==
    ASSUME TypeOK, NEW n \in Nat, PutBlock(n) PROVE TypeOK'
  <1>1. CASE Stops
    BY <1>1, StopType
  <1>2. CASE ~Stops
    <2>1. /\ Running /\ m_pos' = m_pos + n /\ UNCHANGED <<m_lim, m_mark, m_endian>>
      BY <1>2 DEF PutBlock, Ended, Stop, Stops, Ends
    <2>2. /\ m_pos' \in Nat /\ m_lim' \in Nat /\ m_mark' \in Nat
          /\ m_endian' \in Orders
      BY <2>1, PosFacts
    <2>3. ASSUME NEW h \in Histories, Len(h.fill) <= MaxFill, NEW mem,
                 DOMAIN mem = DOMAIN m_buf, Known(h, mem)
          PROVE  TypeOK'
      BY <2>1, <2>2, <2>3, RunningFacts, TypeNext
    <2>4. CASE hist.phase = "fill"
      <3>1. Len(hist.fill) + n <= MaxFill
            /\ Known(Extended(n), Store(m_pos, Block(n)))
        BY <1>2, <2>4 DEF PutBlock, Extended, Block, Ended, Stop, Stops, Ends
      <3>2. Extended(n) \in Histories /\ Len(Extended(n).fill) <= MaxFill
        BY <3>1, ExtendedFacts
      <3>. QED BY <2>3, <3>1, <3>2, StoreDomain
    <2>5. CASE hist.phase # "fill"
      <3>1. Known(Other, m_buf)
        BY <1>2, <2>5 DEF PutBlock, Ended, Stop, Stops, Ends
      <3>. QED BY <2>3, <3>1, FreshHistories
    <2>. QED BY <2>4, <2>5
  <1>. QED BY <1>1, <1>2

LEMMA PutBlockAtType ==
    ASSUME TypeOK, NEW idx, NEW n, PutBlockAt(idx, n) PROVE TypeOK'
  <1>1. CASE Stops
    BY <1>1, StopType
  <1>2. CASE ~Stops
    <2>1. /\ Running /\ Known(Other, m_buf)
          /\ UNCHANGED <<m_pos, m_lim, m_mark, m_endian>>
      BY <1>2 DEF PutBlockAt, Ended, Stop, Stops, Ends
    <2>. QED BY <2>1, PosFacts, FreshHistories, RunningFacts, TypeNext
  <1>. QED BY <1>1, <1>2

LEMMA ClampFacts ==
    ASSUME NEW n \in Nat, NEW room \in Nat
    PROVE  Clamp(n, room) \in Nat
  BY DEF Clamp

LEMMA GetBlockType ==
    ASSUME TypeOK, NEW n \in Nat, GetBlock(n) PROVE TypeOK'
  <1>1. CASE Stops
    BY <1>1, StopType
  <1>2. CASE ~Stops
    <2>. DEFINE len == Clamp(n, remaining)
    <2>1. /\ Running /\ m_pos' = m_pos + len /\ UNCHANGED <<m_lim, m_mark, m_endian>>
          /\ Known(IF len = 0 THEN hist ELSE Taken(NextValues("char", len)), m_buf)
      BY <1>2 DEF GetBlock, Ended, Stop, Stops, Ends
    <2>2. len \in Nat
      BY PosFacts, ClampFacts
    <2>. HIDE DEF len
    <2>3. /\ m_pos' \in Nat /\ m_lim' \in Nat /\ m_mark' \in Nat
          /\ m_endian' \in Orders
      BY <2>1, <2>2, PosFacts
    <2>4. CASE len = 0
      <3>1. Known(hist, m_buf)
        BY <2>1, <2>4
      <3>. QED BY <2>1, <2>3, <3>1, HistoryFacts, RunningFacts, TypeNext
    <2>5. CASE len # 0
      <3>1. Known(Taken(NextValues("char", len)), m_buf)
        BY <2>1, <2>5
      <3>. QED BY <2>1, <2>2, <2>3, <3>1, TakenHistory, RunningFacts, TypeNext
    <2>. QED BY <2>4, <2>5
  <1>. QED BY <1>1, <1>2

LEMMA GetBlockAtType ==
    ASSUME TypeOK, NEW idx, NEW n, GetBlockAt(idx, n) PROVE TypeOK'
  <1>1. CASE Stops
    BY <1>1, StopType
  <1>2. CASE ~Stops
    <2>1. Running /\ UNCHANGED <<m_buf, m_pos, m_lim, m_mark, m_endian, hist>>
      BY <1>2 DEF GetBlockAt, Ended, Stop, Stops, Ends
    <2>. QED BY <2>1, ReturnType
  <1>. QED BY <1>1, <1>2

(***************************************************************************)
(* Moves.                                                                  *)
(***************************************************************************)
LEMMA MovedType ==
    ASSUME TypeOK, Going, lowered' \in BOOLEAN,
           NEW pos \in Nat, NEW lim \in Nat, NEW mk \in Nat,
           NEW h \in Histories, Len(h.fill) <= MaxFill, Moved(pos, lim, mk, h)
    PROVE  TypeOK'
  <1>1. /\ m_pos' = pos /\ m_lim' = lim /\ m_mark' = mk /\ UNCHANGED m_endian
        /\ Known(h, m_buf)
    BY DEF Moved
  <1>. QED BY <1>1, PosFacts, TypeNext

\* What flip and rewind make of the history.
Emptied(phase) == IF hist.phase = phase THEN Drained(hist.fill) ELSE Other

LEMMA EmptiedFacts ==
    ASSUME TypeOK, NEW phase
    PROVE  Emptied(phase) \in Histories /\ Len(Emptied(phase).fill) <= MaxFill
  <1>1. hist.fill \in Seq(Items) /\ Len(hist.fill) <= MaxFill
    BY HistoryFacts
  <1>2. Drained(hist.fill) \in Histories /\ Drained(hist.fill).fill = hist.fill
    BY <1>1, DrainedFacts
  <1>. QED BY <1>1, <1>2, FreshHistories DEF Emptied

LEMMA MovesType ==
    ASSUME TypeOK,
           \/ clear \/ flip \/ rewind \/ mark \/ reset
           \/ \E n \in Indexes : limit(n)
           \/ \E n \in Indexes : position(n)
           \/ \E e \in Orders : order(e)
    PROVE  TypeOK'
  <1>. USE PosFacts, RunningFacts
  <1>1. Indexes \subseteq Nat
    BY ByteBufferAssumption
  <1>2. CASE clear
    BY <1>2, MovedType, FreshHistories DEF clear
  <1>3. CASE flip
    <2>1. Running /\ Moved(0, m_pos, 0, Emptied("fill"))
      BY <1>3 DEF flip, Emptied
    <2>. QED BY <2>1, MovedType, EmptiedFacts
  <1>4. CASE rewind
    <2>1. Running /\ Moved(0, m_lim, 0, Emptied("drain"))
      BY <1>4 DEF rewind, Emptied
    <2>. QED BY <2>1, MovedType, EmptiedFacts
  <1>5. CASE mark
    BY <1>5, MovedType, HistoryFacts DEF mark
  <1>6. CASE reset
    BY <1>6, MovedType, FreshHistories DEF reset
  <1>7. ASSUME NEW n \in Indexes, limit(n) PROVE TypeOK'
    <2>1. CASE Stops
      BY <2>1, StopType
    <2>2. CASE ~Stops
      <3>1. /\ Going /\ Moved(m_pos, n, m_mark, Other)
            /\ lowered' = (lowered \/ n < m_pos \/ n < m_mark)
        BY <1>7, <2>2 DEF limit, Stop, Stops, Ends
      <3>2. lowered' \in BOOLEAN
        BY <3>1
      <3>. QED BY <1>1, <3>1, <3>2, MovedType, FreshHistories
    <2>. QED BY <2>1, <2>2
  <1>8. ASSUME NEW n \in Indexes, position(n) PROVE TypeOK'
    <2>1. CASE Stops
      BY <2>1, StopType
    <2>2. CASE ~Stops
      <3>1. Running /\ Moved(n, m_lim, m_mark, Other)
        BY <1>8, <2>2 DEF position, Stop, Stops, Ends
      <3>. QED BY <1>1, <3>1, MovedType, FreshHistories
    <2>. QED BY <2>1, <2>2
  <1>9. ASSUME NEW e \in Orders, order(e) PROVE TypeOK'
    BY <1>9 DEF order, Running, Going, TypeOK, m_cap
  <1>. QED BY <1>2, <1>3, <1>4, <1>5, <1>6, <1>7, <1>8, <1>9

LEMMA TypeInit == Init => TypeOK
  <1>. SUFFICES ASSUME Init PROVE TypeOK
    OBVIOUS
  <1>1. m_cap \in Nat
    BY ByteBufferAssumption DEF Init, m_cap
  <1>2. hist \in Histories /\ Len(hist.fill) <= MaxFill
    BY FreshHistories DEF Init
  <1>3. DOMAIN m_buf = 0..m_cap - 1
    BY DEF Init
  <1>4. hist \in [phase : {"fill", "drain", "other"},
                 fill : Seq([type : Types, order : Orders]), taken : Nat]
    BY <1>2 DEF Histories, Items
  <1>5. {m_pos, m_lim, m_mark} \subseteq Nat
    BY <1>1 DEF Init
  <1>. QED BY <1>2, <1>3, <1>4, <1>5 DEF Init, TypeOK

LEMMA TypeStep == TypeOK /\ [Next]_vars => TypeOK'
  <1>. SUFFICES ASSUME TypeOK, [Next]_vars PROVE TypeOK'
    OBVIOUS
  <1>1. env.program.types \subseteq Types
    BY ProgramFacts
  <1>2. Lengths \subseteq Nat
    BY ByteBufferAssumption
  <1>3. CASE UNCHANGED vars
    BY <1>3 DEF vars, TypeOK, m_cap
  <1>. QED
    BY <1>1, <1>2, <1>3, PutType, GetType, PutAtType, GetAtType,
       PutBlockType, GetBlockType, PutBlockAtType, GetBlockAtType,
       MovesType DEF Next

-----------------------------------------------------------------------------
(***************************************************************************)
(* Programs of chars, in a build with assertions: each assertion, with the *)
(* order of the positions, is enough for the access behind it.             *)
(***************************************************************************)
CharProgram == env.program.types = {"char"} /\ ~env.ndebug /\ ~lowered

Ordered == m_pos <= m_lim /\ m_mark <= m_lim /\ m_lim <= m_cap

LEMMA CharSize ==
    /\ Size("char") = 1 /\ Step("char") = 1
    /\ \A idx \in Nat : Offset("char", idx) = idx
  BY DEF Size, Step, Offset

CharInv == TypeOK /\ CharsInside

LEMMA StopChars ==
    ASSUME CharInv, Stops, status' # "strayed" PROVE CharsInside'
  BY DEF CharInv, CharsInside, Stops, m_cap

\* A call that goes on, and leaves the positions ordered if they were.
LEMMA GoingChars ==
    ASSUME CharInv, Going, (CharProgram /\ Ordered)' \/ ~CharProgram'
    PROVE  CharsInside'
  BY DEF CharInv, CharsInside, Going, CharProgram, Ordered

\* An access that leaves the limit and the mark alone.
LEMMA AccessChars ==
    ASSUME CharInv, Running, UNCHANGED <<m_lim, m_mark>>,
           CharProgram /\ Ordered => m_pos' <= m_lim
    PROVE  CharsInside'
  <1>1. CharProgram' <=> CharProgram
    BY DEF CharProgram, Running, Going
  <1>2. CharProgram => Ordered
    BY DEF CharProgram, Ordered, CharInv, CharsInside
  <1>3. CharProgram => Ordered'
    BY <1>2 DEF Ordered, Running, Going, m_cap
  <1>. QED BY <1>1, <1>3, GoingChars DEF Running

LEMMA OrderFacts ==
    ASSUME CharInv, CharProgram
    PROVE  /\ Ordered /\ remaining = m_lim - m_pos /\ TypeOK
           /\ \A p : GoesOn(p) <=> p
  <1>1. Ordered /\ TypeOK
    BY DEF CharInv, CharsInside, CharProgram, Ordered
  <1>2. remaining = m_lim - m_pos
    BY <1>1, PosFacts DEF Ordered
  <1>. QED BY <1>1, <1>2 DEF GoesOn, CharProgram

LEMMA OtherPrograms ==
    ASSUME CharInv, ~CharProgram, Stops \/ Running PROVE CharsInside'
  BY DEF CharProgram, CharsInside, Stops, Running, Going

LEMMA ElementChars ==
    ASSUME CharInv, CharProgram, NEW t \in env.program.types,
           \/ Put(t) \/ Get(t)
           \/ \E idx \in Nat : PutAt(t, idx) \/ GetAt(t, idx)
    PROVE  CharsInside'
  <1>1. t = "char" /\ Ordered /\ remaining = m_lim - m_pos /\ TypeOK
        /\ \A p : GoesOn(p) <=> p
    BY OrderFacts DEF CharProgram
  <1>2. /\ m_pos \in Nat /\ m_lim \in Nat /\ m_cap \in Nat
        /\ Size(t) = 1 /\ Step(t) = 1
        /\ \A idx \in Nat : Inside(t, idx) <=> idx + 1 <= m_cap
    BY <1>1, PosFacts, CharSize DEF Inside
  <1>3. CASE Put(t) \/ Get(t)
    <2>1. PutPasses(t) => Inside(t, m_pos) /\ m_pos + 1 <= m_lim
      BY <1>1, <1>2 DEF PutPasses
    <2>2. GetPasses(t) => PutPasses(t)
      BY DEF GetPasses
    <2>3. CASE Stops
      <3>1. status' # "strayed"
        BY <1>1, <1>3, <2>1, <2>2, <2>3 DEF Put, Get, Ended, Stop, Stops, Ends, Running, Going
      <3>. QED BY <2>3, <3>1, StopChars
    <2>4. CASE ~Stops
      <3>1. /\ Running /\ UNCHANGED <<m_lim, m_mark>> /\ m_pos' = m_pos + Step(t)
            /\ PutPasses(t)
        BY <1>1, <1>3, <2>2, <2>4 DEF Put, Get, Ended, Stop, Stops, Ends
      <3>. QED BY <1>2, <2>1, <3>1, AccessChars
    <2>. QED BY <2>3, <2>4
  <1>4. ASSUME NEW idx \in Nat, PutAt(t, idx) \/ GetAt(t, idx) PROVE CharsInside'
    <2>1. PutAtPasses(t, idx) \/ GetAtPasses(t, idx) => Inside(t, idx)
      BY <1>2 DEF PutAtPasses, GetAtPasses
    <2>2. CASE Stops
      <3>1. status' # "strayed"
        BY <1>1, <1>4, <2>1, <2>2 DEF PutAt, GetAt, Ended, Stop, Stops, Ends, Running, Going
      <3>. QED BY <2>2, <3>1, StopChars
    <2>3. CASE ~Stops
      <3>1. Running /\ UNCHANGED <<m_pos, m_lim, m_mark>>
        BY <1>4, <2>3 DEF PutAt, GetAt, Ended, Stop, Stops, Ends
      <3>. QED BY <1>1, <3>1, AccessChars DEF Ordered
    <2>. QED BY <2>2, <2>3
  <1>. QED BY <1>3, <1>4

LEMMA BlockChars ==
    ASSUME CharInv, CharProgram, NEW n \in Nat,
           \/ PutBlock(n) \/ GetBlock(n)
           \/ \E idx \in Nat : PutBlockAt(idx, n) \/ GetBlockAt(idx, n)
    PROVE  CharsInside'
  <1>1. Ordered /\ remaining = m_lim - m_pos /\ TypeOK /\ \A p : GoesOn(p) <=> p
    BY OrderFacts
  <1>2. m_pos \in Nat /\ m_lim \in Nat /\ m_cap \in Nat
    BY <1>1, PosFacts
  <1>3. CASE PutBlock(n)
    <2>1. remaining >= n => m_pos + n <= m_lim /\ m_pos + n <= m_cap
      BY <1>1, <1>2 DEF Ordered
    <2>2. CASE Stops
      <3>1. status' # "strayed"
        BY <1>1, <1>3, <2>1, <2>2 DEF PutBlock, Ended, Stop, Stops, Ends, Running, Going
      <3>. QED BY <2>2, <3>1, StopChars
    <2>3. CASE ~Stops
      <3>1. /\ Running /\ UNCHANGED <<m_lim, m_mark>> /\ m_pos' = m_pos + n
            /\ remaining >= n
        BY <1>1, <1>3, <2>3 DEF PutBlock, Ended, Stop, Stops, Ends
      <3>. QED BY <2>1, <3>1, AccessChars
    <2>. QED BY <2>2, <2>3
  <1>4. CASE GetBlock(n) \/ \E idx \in Nat : GetBlockAt(idx, n)
    <2>1. Stops /\ status' # "strayed"
      BY <1>1, <1>4 DEF GetBlock, GetBlockAt, Ended, Stop, Stops, Ends
    <2>. QED BY <2>1, StopChars
  <1>5. ASSUME NEW idx \in Nat, PutBlockAt(idx, n) PROVE CharsInside'
    <2>1. CASE Stops
      <3>1. status' # "strayed"
        BY <1>5, <2>1 DEF PutBlockAt, Ended, Stop, Stops, Ends, Running, Going
      <3>. QED BY <2>1, <3>1, StopChars
    <2>2. CASE ~Stops
      <3>1. Running /\ UNCHANGED <<m_pos, m_lim, m_mark>>
        BY <1>5, <2>2 DEF PutBlockAt, Ended, Stop, Stops, Ends
      <3>. QED BY <1>1, <3>1, AccessChars DEF Ordered
    <2>. QED BY <2>1, <2>2
  <1>. QED BY <1>3, <1>4, <1>5

LEMMA MovesChars ==
    ASSUME CharInv,
           \/ clear \/ flip \/ rewind \/ mark \/ reset
           \/ \E n \in Indexes : limit(n)
           \/ \E n \in Indexes : position(n)
           \/ \E e \in Orders : order(e)
    PROVE  CharsInside'
  <1>1. /\ TypeOK /\ m_pos \in Nat /\ m_lim \in Nat /\ m_mark \in Nat
        /\ m_cap \in Nat /\ Indexes \subseteq Nat
    BY PosFacts, ByteBufferAssumption DEF CharInv
  <1>2. CharProgram => Ordered /\ \A p : GoesOn(p) <=> p
    BY OrderFacts
  <1>3. CASE clear
    <2>1. Going /\ m_pos' = 0 /\ m_lim' = m_cap /\ m_mark' = 0
      BY <1>3 DEF clear, Moved
    <2>2. Ordered'
      BY <1>1, <2>1 DEF Ordered, Going, m_cap
    <2>. QED BY <2>1, <2>2, GoingChars
  <1>4. CASE flip \/ rewind \/ mark \/ reset
    <2>1. CASE ~CharProgram
      BY <1>4, <2>1, OtherPrograms DEF flip, rewind, mark, reset
    <2>2. CASE CharProgram
      <3>1. Running /\ Ordered
        BY <1>2, <1>4, <2>2 DEF flip, rewind, mark, reset
      <3>2. m_cap' = m_cap /\ CharProgram'
        BY <2>2, <3>1 DEF Running, Going, m_cap, CharProgram
      <3>3. Ordered'
        BY <1>1, <1>4, <3>1, <3>2 DEF flip, rewind, mark, reset, Moved, Ordered
      <3>. QED BY <3>1, <3>2, <3>3, GoingChars DEF Running
    <2>. QED BY <2>1, <2>2
  <1>5. ASSUME NEW n \in Indexes, limit(n) PROVE CharsInside'
    <2>1. CASE Stops
      <3>1. status' # "strayed"
        BY <1>5, <2>1 DEF limit, Stop, Stops, Ends, Going
      <3>. QED BY <2>1, <3>1, StopChars
    <2>2. CASE ~Stops
      <3>1. /\ Going /\ GoesOn(n <= m_cap) /\ UNCHANGED <<m_pos, m_mark>> /\ m_lim' = n
            /\ lowered' = (lowered \/ n < m_pos \/ n < m_mark)
        BY <1>5, <2>2 DEF limit, Moved, Stop, Stops, Ends
      <3>2. CASE ~CharProgram \/ n < m_pos \/ n < m_mark
        <4>1. ~CharProgram'
          BY <3>1, <3>2 DEF CharProgram, Going
        <4>. QED BY <3>1, <4>1, GoingChars
      <3>3. CASE CharProgram /\ ~(n < m_pos \/ n < m_mark)
        <4>1. n <= m_cap /\ n \in Nat
          BY <1>1, <3>1, <3>3 DEF GoesOn, CharProgram
        <4>2. Ordered'
          BY <1>1, <3>1, <3>3, <4>1 DEF Ordered, Going, m_cap
        <4>3. CharProgram'
          BY <3>1, <3>3 DEF CharProgram, Going
        <4>. QED BY <3>1, <4>2, <4>3, GoingChars
      <3>. QED BY <3>2, <3>3
    <2>. QED BY <2>1, <2>2
  <1>6. ASSUME NEW n \in Indexes, position(n) PROVE CharsInside'
    <2>1. CASE Stops
      <3>1. status' # "strayed"
        BY <1>6, <2>1 DEF position, Stop, Stops, Ends, Running, Going
      <3>. QED BY <2>1, <3>1, StopChars
    <2>2. CASE ~Stops
      <3>1. /\ Running /\ GoesOn(n < m_lim) /\ UNCHANGED <<m_lim, m_mark>> /\ m_pos' = n
        BY <1>6, <2>2 DEF position, Moved, Stop, Stops, Ends
      <3>2. CharProgram => m_pos' <= m_lim
        <4>1. CharProgram => n < m_lim
          BY <3>1 DEF GoesOn, CharProgram
        <4>. QED BY <1>1, <3>1, <4>1
      <3>. QED BY <3>1, <3>2, AccessChars
    <2>. QED BY <2>1, <2>2
  <1>7. ASSUME NEW e \in Orders, order(e) PROVE CharsInside'
    <2>1. Running /\ UNCHANGED <<m_pos, m_lim, m_mark>>
      BY <1>7 DEF order
    <2>. QED BY <1>1, <1>2, <2>1, AccessChars DEF Ordered
  <1>. QED BY <1>3, <1>4, <1>5, <1>6, <1>7

LEMMA AccessesEnd ==
    ASSUME NEW t, NEW idx, NEW n,
           \/ Put(t) \/ Get(t) \/ PutAt(t, idx) \/ GetAt(t, idx)
           \/ PutBlock(n) \/ GetBlock(n) \/ PutBlockAt(idx, n) \/ GetBlockAt(idx, n)
    PROVE  Stops \/ Running
  <1>1. ASSUME NEW p, NEW i, NEW how \in Ends, Ended(p, i, how) PROVE Stops
    BY <1>1 DEF Ended, Stop, Stops, Ends
  <1>2. "strayed" \in Ends /\ "overran" \in Ends
    BY DEF Ends
  <1>. QED BY <1>1, <1>2 DEF Put, Get, PutAt, GetAt, PutBlock, GetBlock,
                            PutBlockAt, GetBlockAt

LEMMA CharInit == Init => CharInv
  <1>. SUFFICES ASSUME Init PROVE CharInv
    OBVIOUS
  <1>1. TypeOK /\ m_cap \in Nat
    BY TypeInit, PosFacts
  <1>. QED BY <1>1 DEF Init, CharInv, CharsInside

LEMMA CharStep == CharInv /\ [Next]_vars => CharInv'
  <1>. SUFFICES ASSUME CharInv, [Next]_vars PROVE CharInv'
    OBVIOUS
  <1>1. TypeOK' /\ Indexes \subseteq Nat /\ Lengths \subseteq Nat
    BY TypeStep, ByteBufferAssumption DEF CharInv
  <1>2. CASE UNCHANGED vars
    BY <1>1, <1>2 DEF vars, CharInv, CharsInside, m_cap
  <1>3. ASSUME NEW t \in env.program.types,
               \/ Put(t) \/ Get(t)
               \/ \E idx \in Indexes : PutAt(t, idx) \/ GetAt(t, idx)
        PROVE  CharsInside'
    <2>1. Stops \/ Running
      BY <1>3, AccessesEnd
    <2>. QED BY <1>1, <1>3, <2>1, ElementChars, OtherPrograms
  <1>4. ASSUME NEW n \in Lengths,
               \/ PutBlock(n) \/ GetBlock(n)
               \/ \E idx \in Indexes : PutBlockAt(idx, n) \/ GetBlockAt(idx, n)
        PROVE  CharsInside'
    <2>1. Stops \/ Running
      BY <1>4, AccessesEnd
    <2>. QED BY <1>1, <1>4, <2>1, BlockChars, OtherPrograms
  <1>5. Next => CharsInside'
    BY <1>3, <1>4, MovesChars DEF Next
  <1>. QED BY <1>1, <1>2, <1>5 DEF CharInv

(***************************************************************************)
(* In a build with assertions, a program of chars and blocks that never    *)
(* lowers the limit below its position or mark keeps them in order and     *)
(* never leaves the array, other than by a block put at an index.          *)
(***************************************************************************)
THEOREM CharsHold == Spec => []CharsInside
  BY CharInit, CharStep, PTL DEF Spec, CharInv

-----------------------------------------------------------------------------
(***************************************************************************)
(* What is put is read back.  BytesInOrder is not inductive: a put goes    *)
(* where the position is, which must be behind the values of the fill, and *)
(* a get reads from there, which must be where the next value lies.        *)
(***************************************************************************)
Place(k, t) == Offset(t, (k - 1) * Step(t))

\* The byte of a value that holds its s-th significant one.
Cell(e, s, t) == IF e = "Little" THEN s ELSE Size(t) - 1 - s

InPlace(k) ==
    LET t == hist.fill[k].type IN
    Uniform(t) =>
        \A s \in 0..Size(t) - 1 :
            m_buf[Place(k, t) + Cell(hist.fill[k].order, s, t)] = <<k, s>>

\* The values of a fill of one type lie in the array.
Fits == \A t \in Types, k \in DOMAIN hist.fill :
           Uniform(t) => Place(k, t) + Size(t) <= m_cap

\* The position is behind the values that were put, or taken.
AtPosition ==
    \A t \in Types : Uniform(t) =>
        /\ hist.phase = "fill" => m_pos = Len(hist.fill) * Step(t)
        /\ hist.phase = "drain" => m_pos = hist.taken * Step(t)

FillInv == TypeOK /\ BytesInOrder /\ Fits /\ AtPosition

LEMMA BytesInPlace == BytesInOrder <=> \A k \in DOMAIN hist.fill : InPlace(k)
  BY DEF BytesInOrder, InPlace, Place, Cell

LEMMA BytesInPlaceNext ==
    BytesInOrder' <=> \A k \in DOMAIN hist'.fill : InPlace(k)'
  BY DEF BytesInOrder, InPlace, Place, Cell

(***************************************************************************)
(* Values of one type lie one after the other.                             *)
(***************************************************************************)
LEMMA Distance ==
    ASSUME NEW s \in Nat \ {0}, NEW j \in Nat, NEW k \in Nat, j < k
    PROVE  j * s \in Nat /\ k * s \in Nat /\ j * s + s <= k * s
  <1>1. PICK d \in Nat : k = j + 1 + d
    <2>1. k - j - 1 \in Nat /\ k = j + 1 + (k - j - 1)
      OBVIOUS
    <2>. QED BY <2>1
  <1>2. k * s = j * s + s + d * s
    BY <1>1
  <1>3. j * s \in Nat /\ k * s \in Nat /\ d * s \in Nat
    OBVIOUS
  <1>. QED BY <1>2, <1>3

LEMMA Places ==
    ASSUME NEW t \in Types, NEW j \in Nat \ {0}, NEW k \in Nat \ {0}
    PROVE  /\ Place(k, t) \in Nat
           /\ j < k => Place(j, t) + Size(t) <= Place(k, t)
  <1>. DEFINE p == (j - 1) * Step(t)
              q == (k - 1) * Step(t)
  <1>1. Size(t) \in {1, 2, 4, 8} /\ Step(t) \in Nat \ {0}
    BY SizeFacts
  <1>2. j - 1 \in Nat /\ k - 1 \in Nat
    OBVIOUS
  <1>3. j < k => p + Step(t) <= q
    BY <1>1, <1>2, Distance
  <1>4. p \in Nat /\ q \in Nat
    BY <1>1, <1>2
  <1>5. Place(j, t) = p * Size(t) /\ Place(k, t) = q * Size(t)
    BY DEF Place, Offset
  <1>. HIDE DEF p, q
  <1>6. j < k => p + 1 <= q
    BY <1>1, <1>3, <1>4
  <1>. QED BY <1>1, <1>4, <1>5, <1>6

LEMMA CellFacts ==
    ASSUME NEW t \in Types, NEW e, NEW s \in 0..Size(t) - 1
    PROVE  Cell(e, s, t) \in 0..Size(t) - 1
  BY SizeFacts DEF Cell

(***************************************************************************)
(* The byte orders.                                                        *)
(***************************************************************************)
LEMMA ReversedFacts ==
    ASSUME NEW n \in Nat, NEW w, DOMAIN w = 0..n - 1
    PROVE  /\ Reversed(w) = [s \in 0..n - 1 |-> w[n - 1 - s]]
           /\ DOMAIN Reversed(w) = 0..n - 1
  <1>1. Cardinality(0..n - 1) = n
    BY FS_Interval
  <1>. QED BY <1>1 DEF Reversed

LEMMA ReversedTwice ==
    ASSUME NEW n \in Nat, NEW w, w = [s \in 0..n - 1 |-> w[s]]
    PROVE  Reversed(Reversed(w)) = w
  <1>1. DOMAIN w = 0..n - 1
    OBVIOUS
  <1>. DEFINE r == Reversed(w)
  <1>2. DOMAIN r = 0..n - 1 /\ r = [s \in 0..n - 1 |-> w[n - 1 - s]]
    BY <1>1, ReversedFacts
  <1>. HIDE DEF r
  <1>3. Reversed(r) = [s \in 0..n - 1 |-> r[n - 1 - s]]
    <2>1. Cardinality(0..n - 1) = n
      BY FS_Interval
    <2>2. Cardinality(DOMAIN r) = n
      BY <1>2, <2>1, Zenon
    <2>3. Reversed(r) = [s \in DOMAIN r |-> r[n - 1 - s]]
      BY <2>2, Zenon DEF Reversed
    <2>. QED BY <1>2, <2>3, Zenon
  <1>4. \A s \in 0..n - 1 : r[n - 1 - s] = w[s]
    <2>1. \A s \in 0..n - 1 : n - 1 - s \in 0..n - 1 /\ n - 1 - (n - 1 - s) = s
      OBVIOUS
    <2>. QED BY <1>2, <2>1
  <1>. QED BY <1>3, <1>4 DEF r

\* Whatever the machine, bytes go to memory in the order that is set.
LEMMA OrdersCancel ==
    ASSUME NEW n \in Nat, NEW w, w = [s \in 0..n - 1 |-> w[s]],
           m_endian \in Orders, native \in Orders
    PROVE  /\ InMemory(m_ord(w)) = IF m_endian = "Little" THEN w ELSE Reversed(w)
           /\ m_ord(InMemory(w)) = IF m_endian = "Little" THEN w ELSE Reversed(w)
  BY ReversedTwice DEF InMemory, m_ord, Orders

LEMMA ValueFacts ==
    ASSUME NEW t \in Types, NEW k
    PROVE  /\ DOMAIN Value(k, t) = 0..Size(t) - 1
           /\ Value(k, t) = [s \in 0..Size(t) - 1 |-> Value(k, t)[s]]
           /\ \A s \in 0..Size(t) - 1 : Value(k, t)[s] = <<k, s>>
           /\ DOMAIN Reversed(Value(k, t)) = 0..Size(t) - 1
           /\ \A s \in 0..Size(t) - 1 :
                 Reversed(Value(k, t))[Size(t) - 1 - s] = <<k, s>>
  <1>1. /\ DOMAIN Value(k, t) = 0..Size(t) - 1
        /\ Value(k, t) = [s \in 0..Size(t) - 1 |-> Value(k, t)[s]]
        /\ \A s \in 0..Size(t) - 1 : Value(k, t)[s] = <<k, s>>
    BY DEF Value
  <1>2. Size(t) \in Nat
    BY SizeFacts
  <1>. DEFINE r == Reversed(Value(k, t))
              v == Value(k, t)
              n == Size(t)
  <1>3. r = [s \in 0..n - 1 |-> v[n - 1 - s]]
    BY <1>1, <1>2, ReversedFacts
  <1>4. \A s \in 0..n - 1 : n - 1 - s \in 0..n - 1 /\ n - 1 - (n - 1 - s) = s
    BY <1>2
  <1>. HIDE DEF r, v, n
  <1>5. \A s \in 0..n - 1 : r[n - 1 - s] = v[s]
    BY <1>3, <1>4
  <1>6. DOMAIN r = 0..n - 1
    BY <1>3
  <1>. QED BY <1>1, <1>5, <1>6 DEF r, v, n

\* A value as it is put: byte by byte in the order that is set.
LEMMA StoredValue ==
    ASSUME TypeOK, NEW t \in Types, NEW k
    PROVE  LET w == InMemory(m_ord(Value(k, t))) IN
           /\ DOMAIN w = 0..Size(t) - 1
           /\ \A s \in 0..Size(t) - 1 : w[Cell(m_endian, s, t)] = <<k, s>>
  <1>1. Size(t) \in Nat /\ m_endian \in Orders /\ native \in Orders
    BY SizeFacts, ProgramFacts DEF TypeOK
  <1>2. InMemory(m_ord(Value(k, t)))
          = IF m_endian = "Little" THEN Value(k, t) ELSE Reversed(Value(k, t))
    BY <1>1, ValueFacts, OrdersCancel
  <1>. QED BY <1>2, ValueFacts DEF Cell

-----------------------------------------------------------------------------
(***************************************************************************)
(* What a step makes of the values.  Most steps keep them or forget them:  *)
(***************************************************************************)
LEMMA FillDomain ==
    ASSUME TypeOK
    PROVE  /\ DOMAIN hist.fill = 1..Len(hist.fill) /\ Len(hist.fill) \in Nat
           /\ \A k \in DOMAIN hist.fill :
                 /\ hist.fill[k] \in Items /\ hist.fill[k].type \in Types
                 /\ k \in Nat \ {0} /\ hist.fill # <<>>
  <1>1. hist.fill \in Seq(Items)
    BY HistoryFacts
  <1>2. /\ DOMAIN hist.fill = 1..Len(hist.fill) /\ Len(hist.fill) \in Nat
        /\ \A k \in DOMAIN hist.fill : hist.fill[k] \in Items
    BY <1>1, LenProperties, ElementOfSeq
  <1>3. \A i \in Items : i.type \in Types
    BY DEF Items
  <1>4. hist.fill = <<>> => Len(hist.fill) = 0
    BY EmptySeq
  <1>. QED BY <1>2, <1>3, <1>4

LEMMA SameFill ==
    ASSUME FillInv, UNCHANGED env, hist'.fill = hist.fill,
           hist.fill # <<>> => m_buf' = m_buf
    PROVE  BytesInOrder' /\ Fits'
  <1>1. \A k \in DOMAIN hist.fill : hist.fill # <<>>
    BY FillDomain DEF FillInv
  <1>2. \A t : Uniform(t)' <=> Uniform(t)
    BY DEF Uniform
  <1>3. BytesInOrder'
    BY <1>1, <1>2 DEF FillInv, BytesInOrder
  <1>4. Fits'
    BY <1>2 DEF FillInv, Fits, m_cap
  <1>. QED BY <1>3, <1>4

LEMMA NoFill ==
    ASSUME hist'.fill = <<>>
    PROVE  BytesInOrder' /\ Fits'
  <1>1. DOMAIN hist'.fill = {}
    OBVIOUS
  <1>. QED BY <1>1 DEF BytesInOrder, Fits

LEMMA OtherFill ==
    ASSUME TypeOK', NEW mem, Known(Other, mem) PROVE FillInv'
  <1>1. hist' = Other
    BY DEF Known
  <1>2. AtPosition'
    BY <1>1, FreshHistories DEF AtPosition
  <1>. QED BY <1>1, <1>2, FreshHistories, NoFill DEF FillInv

LEMMA AtPositionKept ==
    ASSUME AtPosition, hist' = hist, m_pos' = m_pos PROVE AtPosition'
  BY DEF AtPosition, Uniform

LEMMA StopFill ==
    ASSUME FillInv, Stops PROVE FillInv'
  <1>1. UNCHANGED <<env, m_buf, m_pos, hist>>
    BY DEF Stops
  <1>2. TypeOK'
    BY StopType DEF FillInv
  <1>. QED BY <1>1, <1>2, SameFill, AtPositionKept DEF FillInv

\* A step that returns values, or sets the order, and no more.
LEMMA ReturnFill ==
    ASSUME FillInv, TypeOK', UNCHANGED <<env, m_buf, m_pos, hist>> PROVE FillInv'
  BY SameFill, AtPositionKept DEF FillInv

LEMMA FlippedFill ==
    ASSUME FillInv, TypeOK', UNCHANGED env, NEW phase,
           Known(Emptied(phase), m_buf), m_pos' = 0
    PROVE  FillInv'
  <1>1. CASE hist.phase = phase
    <2>1. /\ hist'.fill = hist.fill /\ hist'.phase = "drain" /\ hist'.taken = 0
          /\ hist.fill # <<>> => m_buf' = m_buf
      BY <1>1 DEF Known, Emptied, Drained
    <2>2. \A t \in Types : 0 = 0 * Step(t)
      BY SizeFacts
    <2>3. AtPosition'
      BY <2>1, <2>2 DEF AtPosition
    <2>. QED BY <2>1, <2>3, SameFill DEF FillInv
  <1>2. CASE hist.phase # phase
    BY <1>2, OtherFill DEF Emptied
  <1>. QED BY <1>1, <1>2

(***************************************************************************)
(* A get moves the position by as many steps as it takes values.           *)
(***************************************************************************)
LEMMA OneType ==
    ASSUME NEW i \in DOMAIN hist.fill, NEW t, NEW u, Uniform(t), Uniform(u)
    PROVE  t = u
  BY DEF Uniform

LEMMA TakenFill ==
    ASSUME FillInv, TypeOK', UNCHANGED env, NEW t \in Types, NEW n \in Nat,
           Known(Taken(NextValues(t, n)), m_buf), m_pos' = m_pos + n * Step(t)
    PROVE  FillInv'
  <1>1. CASE Taken(NextValues(t, n)) = Other
    BY <1>1, OtherFill
  <1>2. CASE CanTake(t, n)
             /\ Taken(NextValues(t, n)) = [hist EXCEPT !.taken = hist.taken + n]
    <2>1. hist \in Histories /\ hist.taken \in Nat /\ Len(hist.fill) \in Nat
      BY HistoryFacts DEF FillInv
    <2>2. hist.taken + n \in Nat
      BY <2>1
    <2>3. /\ hist'.fill = hist.fill /\ hist'.phase = hist.phase
          /\ hist'.taken = hist.taken + n
          /\ hist.fill # <<>> => m_buf' = m_buf
      BY <1>2, <2>1, <2>2, NewTaken DEF Known
    <2>4. hist.phase = "drain" /\ Uniform(t) /\ 1 \in DOMAIN hist.fill
      BY <1>2, <2>1, FillDomain DEF CanTake, FillInv
    <2>5. m_pos' = (hist.taken + n) * Step(t)
      <3>1. m_pos = hist.taken * Step(t)
        BY <2>4 DEF FillInv, AtPosition
      <3>. QED BY <2>1, <3>1, SizeFacts
    <2>6. \A u : Uniform(u)' => u = t
      BY <2>3, <2>4, OneType DEF Uniform
    <2>7. AtPosition'
      BY <2>3, <2>4, <2>5, <2>6 DEF AtPosition
    <2>. QED BY <2>3, <2>7, SameFill DEF FillInv
  <1>. QED BY <1>1, <1>2, NextFacts DEF FillInv

(***************************************************************************)
(* A put writes value j at its place, and no byte of the others.           *)
(***************************************************************************)
LEMMA ByteOfValue ==
    ASSUME TypeOK, Fits, NEW k \in DOMAIN hist.fill, NEW t \in Types, Uniform(t),
           NEW c \in 0..Size(t) - 1
    PROVE  Place(k, t) + c \in DOMAIN m_buf /\ Place(k, t) + c \in Nat
  <1>1. Place(k, t) \in Nat /\ Place(k, t) + Size(t) <= m_cap /\ m_cap \in Nat
    BY FillDomain, Places, ProgramFacts DEF Fits
  <1>2. DOMAIN m_buf = 0..m_cap - 1
    BY DEF TypeOK
  <1>. QED BY <1>1, <1>2, SizeFacts

LEMMA Apart ==
    ASSUME NEW t \in Types, NEW j \in Nat \ {0}, NEW k \in Nat \ {0}, k # j,
           NEW c \in 0..Size(t) - 1
    PROVE  (Place(k, t) + c) - Place(j, t) \notin 0..Size(t) - 1
  <1>1. k < j \/ j < k
    OBVIOUS
  <1>2. /\ Place(j, t) \in Nat /\ Place(k, t) \in Nat
        /\ j < k => Place(j, t) + Size(t) <= Place(k, t)
        /\ k < j => Place(k, t) + Size(t) <= Place(j, t)
    BY Places
  <1>. QED BY <1>1, <1>2, SizeFacts

Written(j, t) == Store(Place(j, t), InMemory(m_ord(Value(j, t))))

LEMMA WrittenBytes ==
    ASSUME TypeOK, NEW t \in Types, NEW j \in Nat \ {0},
           Place(j, t) + Size(t) <= m_cap
    PROVE  \A s \in 0..Size(t) - 1 :
              Written(j, t)[Place(j, t) + Cell(m_endian, s, t)] = <<j, s>>
  <1>. DEFINE w == InMemory(m_ord(Value(j, t)))
              a == Place(j, t)
  <1>1. DOMAIN w = 0..Size(t) - 1
        /\ \A s \in 0..Size(t) - 1 : w[Cell(m_endian, s, t)] = <<j, s>>
    BY StoredValue
  <1>2. a \in Nat /\ Size(t) \in Nat /\ m_cap \in Nat
    BY Places, SizeFacts, ProgramFacts
  <1>3. DOMAIN m_buf = 0..m_cap - 1
    BY DEF TypeOK
  <1>4. Written(j, t) = Store(a, w) /\ a + Size(t) <= m_cap
    BY DEF Written
  <1>. HIDE DEF w, a
  <1>5. ASSUME NEW s \in 0..Size(t) - 1
        PROVE  Store(a, w)[a + Cell(m_endian, s, t)] = <<j, s>>
    <2>. DEFINE c == Cell(m_endian, s, t)
    <2>1. c \in 0..Size(t) - 1
      BY CellFacts
    <2>2. w[c] = <<j, s>>
      BY <1>1
    <2>. HIDE DEF c
    <2>3. a + c \in DOMAIN m_buf /\ a + c \in Nat
          /\ (a + c) - a = c /\ (a + c) - a \in 0..Size(t) - 1
      BY <1>2, <1>3, <1>4, <2>1
    <2>4. Store(a, w)[a + c] = w[(a + c) - a]
      BY <1>1, <2>3 DEF Store
    <2>. QED BY <2>2, <2>3, <2>4 DEF c
  <1>. QED BY <1>4, <1>5 DEF a

LEMMA WrittenOthers ==
    ASSUME TypeOK, Fits, NEW t \in Types, NEW j \in Nat \ {0},
           NEW k \in DOMAIN hist.fill, k # j, Uniform(t),
           NEW c \in 0..Size(t) - 1
    PROVE  Written(j, t)[Place(k, t) + c] = m_buf[Place(k, t) + c]
  <1>3. k \in Nat \ {0}
    BY FillDomain
  <1>4. (Place(k, t) + c) - Place(j, t) \notin 0..Size(t) - 1
    BY <1>3, Apart
  <1>. DEFINE w == InMemory(m_ord(Value(j, t)))
              a == Place(j, t)
              b == Place(k, t) + c
  <1>1. DOMAIN w = 0..Size(t) - 1 /\ a \in Nat /\ Size(t) \in Nat
    BY StoredValue, Places, SizeFacts
  <1>2. b \in DOMAIN m_buf /\ b \in Nat
    BY ByteOfValue
  <1>5. Written(j, t) = Store(a, w)
    BY DEF Written
  <1>6. b - a \notin DOMAIN w
    BY <1>1, <1>4
  <1>. HIDE DEF w, a, b
  <1>7. Store(a, w)[b] = m_buf[b]
    BY <1>2, <1>6 DEF Store
  <1>. QED BY <1>5, <1>7 DEF b

\* One value is added or replaced, in a fill of its type.
PutsValue(j, t) ==
    /\ DOMAIN hist'.fill = DOMAIN hist.fill \cup {j}
    /\ hist'.fill[j] = Item(t)
    /\ \A k \in DOMAIN hist.fill \ {j} : hist'.fill[k] = hist.fill[k]
    /\ Uniform(t)' => /\ Uniform(t) /\ Place(j, t) + Size(t) <= m_cap
                      /\ m_buf' = Written(j, t)

LEMMA PutsFill ==
    ASSUME FillInv, UNCHANGED env, NEW t \in Types, NEW j \in Nat \ {0},
           PutsValue(j, t)
    PROVE  BytesInOrder' /\ Fits'
  <1>1. \A u : Uniform(u)' => u = t
    BY DEF PutsValue, Uniform, Item
  <1>2. m_cap' = m_cap /\ TypeOK /\ Fits
    BY DEF FillInv, m_cap
  <1>3. Fits'
    <2>. SUFFICES ASSUME NEW u \in Types, NEW k \in DOMAIN hist'.fill, Uniform(u)'
                  PROVE  Place(k, u) + Size(u) <= m_cap
      BY <1>2 DEF Fits, Place, Offset
    <2>1. u = t /\ Uniform(t) /\ (k = j \/ k \in DOMAIN hist.fill)
      BY <1>1 DEF PutsValue
    <2>. QED BY <1>2, <2>1 DEF Fits, PutsValue
  <1>4. ASSUME NEW k \in DOMAIN hist'.fill PROVE InPlace(k)'
    <2>. SUFFICES ASSUME NEW u, u = hist'.fill[k].type, Uniform(u)',
                         NEW s \in 0..Size(u) - 1
                  PROVE  m_buf'[Place(k, u) + Cell(hist'.fill[k].order, s, u)]
                           = <<k, s>>
      BY DEF InPlace, Place, Offset, Cell, Uniform
    <2>1. u = t /\ Uniform(t)' /\ Uniform(t) /\ m_buf' = Written(j, t)
          /\ Place(j, t) + Size(t) <= m_cap
      BY <1>1 DEF PutsValue
    <2>2. CASE k = j
      <3>1. hist'.fill[k].order = m_endian
        BY <2>2 DEF PutsValue, Item
      <3>. QED BY <1>2, <2>1, <2>2, <3>1, WrittenBytes
    <2>3. CASE k # j
      <3>1. k \in DOMAIN hist.fill /\ hist'.fill[k] = hist.fill[k]
        BY <2>3 DEF PutsValue
      <3>. DEFINE c == Cell(hist.fill[k].order, s, t)
      <3>2. c \in 0..Size(t) - 1
        BY <2>1, CellFacts
      <3>3. InPlace(k) /\ hist.fill[k].type = t
        BY <2>1, <3>1, BytesInPlace DEF FillInv
      <3>4. m_buf[Place(k, t) + c] = <<k, s>>
        BY <2>1, <3>3 DEF InPlace
      <3>. HIDE DEF c
      <3>5. Written(j, t)[Place(k, t) + c] = m_buf[Place(k, t) + c]
        BY <1>2, <2>1, <2>3, <3>1, <3>2, WrittenOthers
      <3>. QED BY <2>1, <3>1, <3>4, <3>5 DEF c
    <2>. QED BY <2>2, <2>3
  <1>. QED BY <1>3, <1>4, BytesInPlaceNext

LEMMA PutFill ==
    ASSUME FillInv, NEW t \in Types, Put(t) PROVE FillInv'
  <1>1. TypeOK'
    BY PutType DEF FillInv
  <1>2. CASE Stops
    BY <1>2, StopFill
  <1>3. CASE ~Stops /\ hist.phase # "fill"
    BY <1>1, <1>3, OtherFill DEF Put, Ended, Stop, Stops, Ends
  <1>4. CASE ~Stops /\ hist.phase = "fill"
    <2>. DEFINE L == Len(hist.fill)
    <2>1. /\ Running /\ Inside(t, m_pos) /\ L < MaxFill /\ m_pos' = m_pos + Step(t)
          /\ Known(Appended(t), Store(Offset(t, m_pos), InMemory(m_ord(Value(L + 1, t)))))
      BY <1>4 DEF Put, Appended, Ended, Stop, Stops, Ends
    <2>2. TypeOK /\ hist.fill \in Seq(Items) /\ Item(t) \in Items /\ L \in Nat
          /\ DOMAIN hist.fill = 1..L
      BY HistoryFacts, FillDomain DEF FillInv
    <2>3. hist' = Appended(t) /\ hist'.fill = Append(hist.fill, Item(t))
          /\ hist'.phase = "fill" /\ Len(hist'.fill) = L + 1
      BY <1>4, <2>1, <2>2, AppendedFacts DEF Known
    <2>4. /\ DOMAIN hist'.fill = 1..L + 1 /\ hist'.fill[L + 1] = Item(t)
          /\ \A k \in 1..L : hist'.fill[k] = hist.fill[k]
      BY <2>2, <2>3, AppendProperties
    <2>. HIDE DEF L
    <2>5. 1..L + 1 = 1..L \cup {L + 1} /\ L + 1 \in Nat \ {0} /\ L + 1 \notin 1..L
      BY <2>2
    <2>6. hist'.fill # <<>>
      BY <2>4, <2>5
    <2>7. \A u : Uniform(u)' => u = t /\ Uniform(u)
      BY <2>2, <2>4, <2>5 DEF Uniform, Item
    <2>8. Uniform(t)' => m_pos = L * Step(t)
      BY <1>4, <2>7 DEF FillInv, AtPosition, L
    <2>9. Uniform(t)' => Offset(t, m_pos) = Place(L + 1, t)
      <3>1. (L + 1) - 1 = L
        BY <2>2
      <3>. QED BY <2>8, <3>1 DEF Place
    <2>10. PutsValue(L + 1, t)
      <3>1. m_buf' = Store(Offset(t, m_pos), InMemory(m_ord(Value(L + 1, t))))
        BY <2>1, <2>3, <2>6 DEF Known
      <3>2. Offset(t, m_pos) + Size(t) <= m_cap
        BY <2>1 DEF Inside
      <3>3. Uniform(t)' => /\ Uniform(t) /\ Place(L + 1, t) + Size(t) <= m_cap
                           /\ m_buf' = Written(L + 1, t)
        BY <2>7, <2>9, <3>1, <3>2 DEF Written
      <3>. QED BY <2>2, <2>4, <2>5, <3>3 DEF PutsValue
    <2>11. BytesInOrder' /\ Fits'
      BY <2>1, <2>5, <2>10, PutsFill DEF Running, Going
    <2>12. Uniform(t)' => m_pos' = (L + 1) * Step(t)
      BY <2>1, <2>2, <2>8, SizeFacts
    <2>13. AtPosition'
      BY <2>3, <2>7, <2>12 DEF AtPosition
    <2>. QED BY <1>1, <2>11, <2>13 DEF FillInv
  <1>. QED BY <1>2, <1>3, <1>4

LEMMA PutAtFill ==
    ASSUME FillInv, NEW t \in Types, NEW idx, PutAt(t, idx) PROVE FillInv'
  <1>1. TypeOK'
    BY PutAtType DEF FillInv
  <1>2. CASE Stops
    BY <1>2, StopFill
  <1>3. CASE ~Stops
    <2>1. /\ Running /\ Inside(t, idx) /\ m_pos' = m_pos
          /\ \/ Known(Other, m_buf)
             \/ \E k \in At(t, idx) :
                   Known(Replaced(k, t),
                         Store(Offset(t, idx), InMemory(m_ord(Value(k, t)))))
      BY <1>3 DEF PutAt, Replaced, Ended, Stop, Stops, Ends
    <2>2. CASE Known(Other, m_buf)
      BY <1>1, <2>2, OtherFill
    <2>3. ASSUME NEW k \in At(t, idx),
                 Known(Replaced(k, t),
                       Store(Offset(t, idx), InMemory(m_ord(Value(k, t)))))
          PROVE  FillInv'
      <3>1. k \in DOMAIN hist.fill /\ Uniform(t) /\ Offset(t, idx) = Place(k, t)
            /\ TypeOK
        BY <2>3, AtFacts DEF Place, FillInv
      <3>2. hist' = Replaced(k, t) /\ hist'.fill # <<>>
            /\ hist'.fill = [hist.fill EXCEPT ![k] = Item(t)]
            /\ hist'.phase = hist.phase /\ hist'.taken = hist.taken
            /\ Len(hist'.fill) = Len(hist.fill)
            /\ DOMAIN hist'.fill = DOMAIN hist.fill
        BY <2>3, <3>1, ReplacedFacts DEF Known
      <3>3. m_buf' = Written(k, t)
        BY <2>3, <3>1, <3>2 DEF Known, Written
      <3>4. PutsValue(k, t)
        BY <2>1, <3>1, <3>2, <3>3 DEF PutsValue, Inside
      <3>5. k \in Nat \ {0}
        BY <3>1, FillDomain
      <3>6. BytesInOrder' /\ Fits'
        BY <2>1, <3>4, <3>5, PutsFill DEF Running, Going
      <3>7. \A u : Uniform(u)' => u = t /\ Uniform(u)
        BY <3>1, <3>2 DEF Uniform, Item
      <3>8. AtPosition'
        BY <2>1, <3>2, <3>7 DEF AtPosition, FillInv
      <3>. QED BY <1>1, <3>6, <3>8 DEF FillInv
    <2>. QED BY <2>1, <2>2, <2>3
  <1>. QED BY <1>2, <1>3

\* A block of chars is put behind the values of the fill.
LEMMA CharFacts ==
    ASSUME NEW k \in Nat \ {0}
    PROVE  Size("char") = 1 /\ Step("char") = 1 /\ "char" \in Types
           /\ Place(k, "char") = k - 1
  <1>1. Size("char") = 1 /\ Step("char") = 1 /\ "char" \in Types
    BY DEF Size, Step, Types
  <1>. QED BY <1>1 DEF Place, Offset

LEMMA PutBlockFill ==
    ASSUME FillInv, NEW n \in Nat, PutBlock(n) PROVE FillInv'
  <1>1. TypeOK'
    BY PutBlockType DEF FillInv
  <1>2. CASE Stops
    BY <1>2, StopFill
  <1>3. CASE ~Stops /\ hist.phase # "fill"
    BY <1>1, <1>3, OtherFill DEF PutBlock, Ended, Stop, Stops, Ends
  <1>4. CASE ~Stops /\ hist.phase = "fill"
    <2>. DEFINE L == Len(hist.fill)
    <2>1. /\ Running /\ m_pos + n <= m_cap /\ L + n <= MaxFill /\ m_pos' = m_pos + n
          /\ Known(Extended(n), Store(m_pos, Block(n)))
      BY <1>4 DEF PutBlock, Extended, Block, Ended, Stop, Stops, Ends
    <2>2. TypeOK /\ L \in Nat /\ DOMAIN hist.fill = 1..L /\ m_pos \in Nat
          /\ m_cap \in Nat /\ m_pos + n <= m_cap /\ m_cap' = m_cap
      BY <2>1, FillDomain, PosFacts DEF FillInv, Running, Going, m_cap
    <2>3. /\ hist' = Extended(n) /\ hist'.phase = "fill" /\ Len(hist'.fill) = L + n
          /\ hist'.fill \in Seq(Items)
          /\ \A k \in 1..L + n : hist'.fill[k] = IF k <= L THEN hist.fill[k]
                                                          ELSE Item("char")
      <3>1. Extended(n) \in Histories /\ hist' = Extended(n)
        BY <2>1, <2>2, ExtendedFacts DEF Known
      <3>2. hist'.fill \in Seq(Items)
        BY <3>1 DEF Histories
      <3>. QED BY <1>4, <2>1, <2>2, <3>1, <3>2, ExtendedFacts
    <2>4. DOMAIN hist'.fill = 1..L + n
      BY <2>3, LenProperties
    <2>. HIDE DEF L
    <2>5. \A u : Uniform(u)' => Uniform(u) /\ (n # 0 => u = "char")
      <3>. SUFFICES ASSUME NEW u, Uniform(u)'
                    PROVE  Uniform(u) /\ (n # 0 => u = "char")
        OBVIOUS
      <3>1. \A k \in 1..L : k \in 1..L + n /\ k <= L
        BY <2>2
      <3>2. n # 0 => L + n \in 1..L + n /\ ~(L + n <= L)
        BY <2>2
      <3>3. \A k \in 1..L + n : hist'.fill[k].type = u
        BY <2>4 DEF Uniform
      <3>. QED BY <2>2, <2>3, <3>1, <3>2, <3>3 DEF Uniform, Item
    <2>6. ASSUME NEW u, Uniform(u)', n # 0 PROVE u = "char" /\ m_pos = L
      <3>1. u = "char" /\ Uniform("char")
        BY <2>5, <2>6
      <3>2. m_pos = L * Step("char")
        BY <1>4, <3>1, CharFacts DEF FillInv, AtPosition, L
      <3>. QED BY <2>2, <3>1, <3>2, CharFacts
    <2>7. Fits'
      <3>. SUFFICES ASSUME NEW u \in Types, NEW k \in 1..L + n, Uniform(u)'
                    PROVE  Place(k, u) + Size(u) <= m_cap
        BY <2>2, <2>4 DEF Fits, Place, Offset
      <3>1. CASE k <= L
        <4>1. k \in DOMAIN hist.fill
          BY <2>2, <3>1
        <4>. QED BY <2>5, <4>1 DEF FillInv, Fits
      <3>2. CASE ~(k <= L)
        <4>1. n # 0 /\ k \in Nat \ {0}
          BY <2>2, <3>2
        <4>2. u = "char" /\ m_pos = L
          BY <2>6, <4>1
        <4>. QED BY <2>2, <4>1, <4>2, CharFacts
      <3>. QED BY <3>1, <3>2
    <2>8. ASSUME NEW k \in DOMAIN hist'.fill PROVE InPlace(k)'
      <3>. SUFFICES ASSUME NEW u, u = hist'.fill[k].type, Uniform(u)',
                           NEW s \in 0..Size(u) - 1
                    PROVE  m_buf'[Place(k, u) + Cell(hist'.fill[k].order, s, u)]
                             = <<k, s>>
        BY DEF InPlace, Place, Offset, Cell, Uniform
      <3>1. hist'.fill # <<>> /\ k \in 1..L + n
        <4>1. hist'.fill = <<>> => DOMAIN hist'.fill = {}
          OBVIOUS
        <4>. QED BY <2>4, <4>1
      <3>2. m_buf' = Store(m_pos, Block(n))
        BY <2>1, <2>3, <3>1 DEF Known
      <3>3. DOMAIN Block(n) = 0..n - 1
        BY DEF Block
      <3>4. Uniform(u)
        BY <2>5
      <3>5. CASE k <= L
        <4>. DEFINE c == Cell(hist.fill[k].order, s, u)
                    b == Place(k, u) + c
        <4>1. k \in DOMAIN hist.fill /\ hist'.fill[k] = hist.fill[k]
          BY <2>2, <2>3, <3>1, <3>5
        <4>2. u \in Types /\ k \in Nat \ {0}
          BY <2>2, <4>1, FillDomain
        <4>3. c \in 0..Size(u) - 1
          BY <4>2, CellFacts
        <4>4. InPlace(k)
          BY <4>1, BytesInPlace DEF FillInv
        <4>5. m_buf[b] = <<k, s>>
          BY <3>4, <4>1, <4>4 DEF InPlace
        <4>6. b \in DOMAIN m_buf /\ b \in Nat
          BY <2>2, <3>4, <4>1, <4>2, <4>3, ByteOfValue DEF FillInv
        <4>7. b - m_pos \notin 0..n - 1
          <5>1. CASE n = 0
            BY <5>1
          <5>2. CASE n # 0
            <6>1. u = "char" /\ m_pos = L
              BY <2>6, <5>2
            <6>2. b = k - 1
              BY <4>2, <4>3, <6>1, CharFacts
            <6>. HIDE DEF b
            <6>. QED BY <2>2, <3>5, <4>2, <6>1, <6>2
          <5>. QED BY <5>1, <5>2
        <4>. HIDE DEF c
        <4>8. m_buf'[b] = m_buf[b]
          BY <3>2, <3>3, <4>6, <4>7 DEF Store
        <4>. QED BY <4>1, <4>5, <4>8 DEF c
      <3>6. CASE ~(k <= L)
        <4>. DEFINE b == k - 1
        <4>1. n # 0 /\ k \in Nat \ {0}
          BY <2>2, <3>1, <3>6
        <4>2. u = "char" /\ m_pos = L
          BY <2>6, <4>1
        <4>3. s = 0 /\ Cell(hist'.fill[k].order, s, u) = 0
          BY <4>1, <4>2, CharFacts DEF Cell
        <4>4. Place(k, u) + Cell(hist'.fill[k].order, s, u) = b
          BY <4>1, <4>2, <4>3, CharFacts
        <4>5. /\ b - m_pos \in 0..n - 1 /\ b \in 0..m_cap - 1
              /\ L + (b - m_pos) + 1 = k
          BY <2>2, <3>1, <3>6, <4>1, <4>2
        <4>6. b \in DOMAIN m_buf
          BY <2>2, <4>5 DEF TypeOK
        <4>. HIDE DEF b
        <4>7. m_buf'[b] = Block(n)[b - m_pos]
          BY <3>2, <3>3, <4>5, <4>6 DEF Store
        <4>8. Block(n)[b - m_pos] = <<k, 0>>
          BY <4>5 DEF Block, L
        <4>. QED BY <4>3, <4>4, <4>7, <4>8
      <3>. QED BY <3>5, <3>6
    <2>9. AtPosition'
      <3>1. ASSUME NEW u \in Types, Uniform(u)'
            PROVE  m_pos' = (L + n) * Step(u)
        <4>1. Uniform(u) /\ m_pos = L * Step(u)
          BY <1>4, <2>5, <3>1 DEF FillInv, AtPosition, L
        <4>2. CASE n = 0
          BY <2>1, <2>2, <4>1, <4>2
        <4>3. CASE n # 0
          <5>1. u = "char" /\ m_pos = L
            BY <2>6, <3>1, <4>3
          <5>2. Step(u) = 1
            BY <5>1, CharFacts
          <5>. QED BY <2>1, <2>2, <5>1, <5>2
        <4>. QED BY <4>2, <4>3
      <3>. QED BY <2>3, <3>1 DEF AtPosition
    <2>. QED BY <1>1, <2>7, <2>8, <2>9, BytesInPlaceNext DEF FillInv
  <1>. QED BY <1>2, <1>3, <1>4

LEMMA GetsFill ==
    ASSUME FillInv,
           \/ \E t \in Types : Get(t)
           \/ \E n \in Nat : GetBlock(n)
           \/ \E t, idx : GetAt(t, idx)
           \/ \E idx, n : PutBlockAt(idx, n)
           \/ \E idx, n : GetBlockAt(idx, n)
    PROVE  FillInv'
  <1>1. CASE Stops
    BY <1>1, StopFill
  <1>2. ASSUME NEW t \in Types, Get(t), ~Stops PROVE FillInv'
    <2>1. /\ UNCHANGED env /\ Known(Taken(NextValues(t, 1)), m_buf)
          /\ m_pos' = m_pos + Step(t)
      BY <1>2 DEF Get, Running, Going, Ended, Stop, Stops, Ends
    <2>2. m_pos' = m_pos + 1 * Step(t) /\ TypeOK'
      BY <1>2, <2>1, SizeFacts, GetType DEF FillInv
    <2>. QED BY <2>1, <2>2, TakenFill
  <1>3. ASSUME NEW n \in Nat, GetBlock(n), ~Stops PROVE FillInv'
    <2>. DEFINE len == Clamp(n, remaining)
    <2>1. /\ UNCHANGED env /\ m_pos' = m_pos + len
          /\ Known(IF len = 0 THEN hist ELSE Taken(NextValues("char", len)), m_buf)
      BY <1>3 DEF GetBlock, Running, Going, Ended, Stop, Stops, Ends
    <2>2. len \in Nat /\ m_pos \in Nat /\ TypeOK'
      BY <1>3, PosFacts, ClampFacts, GetBlockType DEF FillInv
    <2>. HIDE DEF len
    <2>3. CASE len = 0
      <3>1. hist' = hist /\ m_pos' = m_pos /\ (hist.fill # <<>> => m_buf' = m_buf)
        BY <2>1, <2>2, <2>3 DEF Known
      <3>. QED BY <2>1, <2>2, <3>1, SameFill, AtPositionKept DEF FillInv
    <2>4. CASE len # 0
      <3>1. "char" \in Types /\ Step("char") = 1
        BY CharFacts
      <3>2. m_pos' = m_pos + len * Step("char")
        BY <2>1, <2>2, <3>1
      <3>. QED BY <2>1, <2>2, <2>4, <3>1, <3>2, TakenFill
    <2>. QED BY <2>3, <2>4
  <1>4. ASSUME NEW t, NEW idx, GetAt(t, idx), ~Stops PROVE FillInv'
    <2>1. UNCHANGED <<env, m_buf, m_pos, hist>>
      BY <1>4 DEF GetAt, Running, Going, Ended, Stop, Stops, Ends
    <2>. QED BY <1>4, <2>1, GetAtType, ReturnFill DEF FillInv
  <1>5. ASSUME NEW idx, NEW n, PutBlockAt(idx, n), ~Stops PROVE FillInv'
    <2>1. Known(Other, m_buf)
      BY <1>5 DEF PutBlockAt, Ended, Stop, Stops, Ends
    <2>. QED BY <1>5, <2>1, PutBlockAtType, OtherFill DEF FillInv
  <1>6. ASSUME NEW idx, NEW n, GetBlockAt(idx, n), ~Stops PROVE FillInv'
    <2>1. UNCHANGED <<env, m_buf, m_pos, hist>>
      BY <1>6 DEF GetBlockAt, Running, Going, Ended, Stop, Stops, Ends
    <2>. QED BY <1>6, <2>1, GetBlockAtType, ReturnFill DEF FillInv
  <1>. QED BY <1>1, <1>2, <1>3, <1>4, <1>5, <1>6

LEMMA MovesFill ==
    ASSUME FillInv,
           \/ clear \/ flip \/ rewind \/ mark \/ reset
           \/ \E n \in Indexes : limit(n)
           \/ \E n \in Indexes : position(n)
           \/ \E e \in Orders : order(e)
    PROVE  FillInv'
  <1>1. TypeOK'
    BY MovesType DEF FillInv
  <1>2. CASE Stops
    BY <1>2, StopFill
  <1>3. CASE clear
    <2>1. hist' = Filling /\ m_pos' = 0 /\ hist'.fill = <<>> /\ hist'.phase = "fill"
          /\ Len(hist'.fill) = 0
      BY <1>3, FreshHistories DEF clear, Moved, Known
    <2>2. \A t \in Types : 0 = 0 * Step(t)
      BY SizeFacts
    <2>3. AtPosition'
      BY <2>1, <2>2 DEF AtPosition
    <2>. QED BY <1>1, <2>1, <2>3, NoFill DEF FillInv
  <1>4. CASE flip
    <2>1. UNCHANGED env /\ Known(Emptied("fill"), m_buf) /\ m_pos' = 0
      BY <1>4 DEF flip, Running, Going, Moved, Emptied
    <2>. QED BY <1>1, <2>1, FlippedFill
  <1>5. CASE rewind
    <2>1. UNCHANGED env /\ Known(Emptied("drain"), m_buf) /\ m_pos' = 0
      BY <1>5 DEF rewind, Running, Going, Moved, Emptied
    <2>. QED BY <1>1, <2>1, FlippedFill
  <1>6. CASE mark
    <2>1. UNCHANGED <<env, hist, m_pos>> /\ (hist.fill # <<>> => m_buf' = m_buf)
      BY <1>6 DEF mark, Running, Going, Moved, Known
    <2>. QED BY <1>1, <2>1, SameFill, AtPositionKept DEF FillInv
  <1>7. CASE reset
    <2>1. Known(Other, m_buf)
      BY <1>7 DEF reset, Moved
    <2>. QED BY <1>1, <2>1, OtherFill
  <1>8. ASSUME NEW n \in Indexes, limit(n) \/ position(n), ~Stops PROVE FillInv'
    <2>1. Known(Other, m_buf)
      BY <1>8 DEF limit, position, Moved, Stop, Stops, Ends
    <2>. QED BY <1>1, <2>1, OtherFill
  <1>9. ASSUME NEW e \in Orders, order(e) PROVE FillInv'
    <2>1. UNCHANGED <<env, m_buf, m_pos, hist>>
      BY <1>9 DEF order, Running, Going
    <2>. QED BY <1>1, <2>1, ReturnFill
  <1>. QED BY <1>2, <1>3, <1>4, <1>5, <1>6, <1>7, <1>8, <1>9

LEMMA FillInit == Init => FillInv
  <1>. SUFFICES ASSUME Init PROVE FillInv
    OBVIOUS
  <1>1. hist.fill = <<>> /\ Len(hist.fill) = 0 /\ hist.phase = "fill" /\ m_pos = 0
    BY FreshHistories DEF Init
  <1>2. DOMAIN hist.fill = {} /\ \A t \in Types : 0 = 0 * Step(t)
    BY <1>1, SizeFacts
  <1>3. BytesInOrder /\ Fits /\ AtPosition
    BY <1>1, <1>2 DEF BytesInOrder, Fits, AtPosition
  <1>. QED BY <1>3, TypeInit DEF FillInv

LEMMA FillStep == FillInv /\ [Next]_vars => FillInv'
  <1>. SUFFICES ASSUME FillInv, [Next]_vars PROVE FillInv'
    OBVIOUS
  <1>1. env.program.types \subseteq Types /\ Lengths \subseteq Nat
    BY ProgramFacts, ByteBufferAssumption DEF FillInv
  <1>2. CASE UNCHANGED vars
    <2>1. UNCHANGED <<env, m_buf, m_pos, hist>> /\ TypeOK'
      BY <1>2, TypeStep DEF vars, FillInv
    <2>. QED BY <2>1, ReturnFill
  <1>. QED BY <1>1, <1>2, PutFill, PutAtFill, PutBlockFill, GetsFill, MovesFill
           DEF Next

(***************************************************************************)
(* The bytes of the values put since clear lie in the order that was set   *)
(* when they were put, on machines of either byte order.                   *)
(***************************************************************************)
THEOREM BytesHold == Spec => []BytesInOrder
  BY FillInit, FillStep, PTL DEF Spec, FillInv

-----------------------------------------------------------------------------
(***************************************************************************)
(* What lies in the array is read as it was put.                           *)
(***************************************************************************)
LEMMA LoadFacts ==
    ASSUME TypeOK, NEW a \in Nat, NEW n \in Nat, a + n <= m_cap
    PROVE  /\ DOMAIN Load(a, n) = 0..n - 1
           /\ Load(a, n) = [s \in 0..n - 1 |-> Load(a, n)[s]]
           /\ \A s \in 0..n - 1 : Load(a, n)[s] = m_buf[a + s]
  <1>1. m_cap \in Nat /\ DOMAIN m_buf = 0..m_cap - 1
    BY ProgramFacts DEF TypeOK
  <1>2. \A s \in 0..n - 1 : a + s \in DOMAIN m_buf
    BY <1>1
  <1>. QED BY <1>2 DEF Load

LEMMA LoadedBytes ==
    ASSUME FillInv, NEW t \in Types, Uniform(t), NEW k \in DOMAIN hist.fill
    PROVE  Load(Place(k, t), Size(t))
             = IF hist.fill[k].order = "Little" THEN Value(k, t)
                                                ELSE Reversed(Value(k, t))
  <1>. DEFINE n == Size(t)
              a == Place(k, t)
              l == Load(a, n)
              v == Value(k, t)
              o == hist.fill[k].order
  <1>1. TypeOK /\ k \in Nat \ {0} /\ hist.fill[k].type = t
    BY FillDomain DEF FillInv, Uniform
  <1>2. a \in Nat /\ n \in Nat /\ a + n <= m_cap
    BY <1>1, Places, SizeFacts DEF FillInv, Fits
  <1>3. l = [s \in 0..n - 1 |-> l[s]] /\ \A s \in 0..n - 1 : l[s] = m_buf[a + s]
    BY <1>1, <1>2, LoadFacts
  <1>4. InPlace(k)
    BY BytesInPlace DEF FillInv
  <1>5. \A s \in 0..n - 1 : m_buf[a + Cell(o, s, t)] = <<k, s>>
    BY <1>1, <1>4 DEF InPlace
  <1>6. v = [s \in 0..n - 1 |-> <<k, s>>]
    BY DEF Value
  <1>7. Reversed(v) = [s \in 0..n - 1 |-> v[n - 1 - s]]
    BY <1>2, ValueFacts, ReversedFacts
  <1>8. \A s \in 0..n - 1 : n - 1 - s \in 0..n - 1 /\ n - 1 - (n - 1 - s) = s
    BY <1>2
  <1>9. \A s \in 0..n - 1 : Cell(o, s, t) = IF o = "Little" THEN s ELSE n - 1 - s
    BY DEF Cell
  <1>. HIDE DEF n, a, l, v, o
  <1>10. CASE o = "Little"
    BY <1>3, <1>5, <1>6, <1>9, <1>10 DEF n, a, l, v, o
  <1>11. CASE o # "Little"
    <2>1. \A s \in 0..n - 1 : l[s] = <<k, n - 1 - s>>
      BY <1>3, <1>5, <1>8, <1>9, <1>11
    <2>2. \A s \in 0..n - 1 : v[n - 1 - s] = <<k, n - 1 - s>>
      BY <1>6, <1>8
    <2>3. l = Reversed(v)
      BY <1>3, <1>7, <2>1, <2>2
    <2>. QED BY <1>11, <2>3 DEF n, a, l, v, o
  <1>. QED BY <1>10, <1>11

LEMMA LoadedValue ==
    ASSUME FillInv, NEW t \in Types, Uniform(t), NEW k \in DOMAIN hist.fill
    PROVE  m_ord(InMemory(Load(Place(k, t), Size(t)))) = Wanted(k, t)
  <1>. DEFINE n == Size(t)
              l == Load(Place(k, t), n)
              v == Value(k, t)
              o == hist.fill[k].order
  <1>1. /\ TypeOK /\ k \in Nat \ {0} /\ n \in Nat /\ o \in Orders
        /\ m_endian \in Orders /\ native \in Orders
    <2>1. TypeOK /\ n \in Nat
      BY SizeFacts DEF FillInv
    <2>2. k \in Nat \ {0} /\ hist.fill[k] \in Items
      BY <2>1, FillDomain
    <2>3. m_endian \in Orders /\ native \in Orders
      BY <2>1, ProgramFacts DEF TypeOK
    <2>. QED BY <2>1, <2>2, <2>3 DEF Items
  <1>2. Place(k, t) \in Nat /\ Place(k, t) + n <= m_cap
    BY <1>1, Places DEF FillInv, Fits
  <1>3. l = [s \in 0..n - 1 |-> l[s]]
    BY <1>1, <1>2, LoadFacts
  <1>4. l = IF o = "Little" THEN v ELSE Reversed(v)
    BY LoadedBytes
  <1>5. Reversed(Reversed(v)) = v
    BY <1>1, ValueFacts, ReversedTwice
  <1>6. Wanted(k, t) = IF o = m_endian THEN v ELSE Reversed(v)
    BY DEF Wanted
  <1>. HIDE DEF n, l, v, o
  <1>7. m_ord(InMemory(l)) = IF m_endian = "Little" THEN l ELSE Reversed(l)
    BY <1>1, <1>3, OrdersCancel
  <1>8. m_ord(InMemory(l)) = Wanted(k, t)
    BY <1>1, <1>4, <1>5, <1>6, <1>7 DEF Orders
  <1>. QED BY <1>8 DEF l, n

LEMMA LoadedChar ==
    ASSUME FillInv, Uniform("char"), NEW k \in DOMAIN hist.fill
    PROVE  Load(k - 1, 1) = Wanted(k, "char")
  <1>. DEFINE l == Load(k - 1, 1)
  <1>1. /\ k \in Nat \ {0} /\ m_endian \in Orders /\ native \in Orders /\ TypeOK
        /\ "char" \in Types /\ Size("char") = 1 /\ Place(k, "char") = k - 1
    BY FillDomain, ProgramFacts, CharFacts DEF FillInv, TypeOK
  <1>2. l = [s \in 0..1 - 1 |-> l[s]]
    <2>1. k - 1 \in Nat /\ (k - 1) + 1 <= m_cap
      BY <1>1 DEF FillInv, Fits
    <2>. QED BY <1>1, <2>1, LoadFacts
  <1>3. m_ord(InMemory(l)) = Wanted(k, "char")
    BY <1>1, LoadedValue
  <1>. HIDE DEF l
  <1>4. Reversed(l) = l
    <2>1. DOMAIN l = 0..1 - 1
      BY <1>2
    <2>2. Reversed(l) = [s \in 0..1 - 1 |-> l[1 - 1 - s]]
      BY <2>1, ReversedFacts
    <2>3. \A s \in 0..1 - 1 : s = 0 /\ 1 - 1 - s = 0
      <3>1. \A s \in 0..1 - 1 : s = 0
        OBVIOUS
      <3>2. 1 - 1 - 0 = 0
        OBVIOUS
      <3>. QED BY <3>1, <3>2
    <2>. QED BY <1>2, <2>2, <2>3
  <1>5. m_ord(InMemory(l)) = l
    BY <1>1, <1>2, <1>4, OrdersCancel
  <1>. QED BY <1>3, <1>5 DEF l

(***************************************************************************)
(* The values returned.  A get that takes nothing known wants nothing, and *)
(* at most one value lies at an index.                                     *)
(***************************************************************************)
WantedNext(t, n) ==
    [i \in DOMAIN NextValues(t, n) |-> Wanted(NextValues(t, n)[i], t)]

LEMMA WantedFacts ==
    ASSUME FillInv, NEW t \in Types, NEW n \in Nat, WantedNext(t, n) # <<>>
    PROVE  /\ CanTake(t, n) /\ m_pos = hist.taken * Step(t)
           /\ WantedNext(t, n) = [i \in 1..n |-> Wanted(hist.taken + i, t)]
           /\ \A i \in 1..n : hist.taken + i \in DOMAIN hist.fill
           /\ hist.taken \in Nat
  <1>. DEFINE ks == NextValues(t, n)
  <1>1. TypeOK /\ hist.taken \in Nat /\ DOMAIN hist.fill = 1..Len(hist.fill)
        /\ Len(hist.fill) \in Nat
    BY HistoryFacts, FillDomain DEF FillInv
  <1>2. ks = <<>> => WantedNext(t, n) = <<>>
    <2>1. DOMAIN <<>> = {}
      OBVIOUS
    <2>2. ks = <<>> => WantedNext(t, n) = [i \in {} |-> Wanted(ks[i], t)]
      BY <2>1 DEF WantedNext
    <2>3. [i \in {} |-> Wanted(ks[i], t)] = <<>>
      OBVIOUS
    <2>. QED BY <2>2, <2>3
  <1>3. CanTake(t, n) /\ ks = [i \in 1..n |-> hist.taken + i]
    BY <1>1, <1>2, NextFacts
  <1>4. m_pos = hist.taken * Step(t)
    BY <1>3 DEF CanTake, FillInv, AtPosition
  <1>5. \A i \in 1..n : hist.taken + i \in DOMAIN hist.fill
    BY <1>1, <1>3 DEF CanTake
  <1>6. WantedNext(t, n) = [i \in 1..n |-> Wanted(hist.taken + i, t)]
    BY <1>3 DEF WantedNext
  <1>. QED BY <1>1, <1>3, <1>4, <1>5, <1>6

LEMMA GetReturns ==
    ASSUME FillInv, ReadBack, NEW t \in Types, Get(t) PROVE ReadBack'
  <1>1. CASE Stops
    BY <1>1 DEF Stops, ReadBack
  <1>2. CASE ~Stops
    <2>. DEFINE x == m_ord(InMemory(Load(Offset(t, m_pos), Size(t))))
    <2>1. ret'.got = <<x>> /\ ret'.want = WantedNext(t, 1)
      BY <1>2 DEF Get, WantedNext, Ended, Stop, Stops, Ends
    <2>. SUFFICES ASSUME WantedNext(t, 1) # <<>> PROVE <<x>> = WantedNext(t, 1)
      BY <2>1 DEF ReadBack
    <2>. DEFINE k == hist.taken + 1
    <2>2. /\ CanTake(t, 1) /\ m_pos = hist.taken * Step(t) /\ hist.taken \in Nat
          /\ WantedNext(t, 1) = [i \in 1..1 |-> Wanted(hist.taken + i, t)]
          /\ k \in DOMAIN hist.fill
      <3>1. 1 \in Nat /\ 1 \in 1..1
        OBVIOUS
      <3>2. /\ CanTake(t, 1) /\ m_pos = hist.taken * Step(t) /\ hist.taken \in Nat
            /\ WantedNext(t, 1) = [i \in 1..1 |-> Wanted(hist.taken + i, t)]
            /\ \A i \in 1..1 : hist.taken + i \in DOMAIN hist.fill
        BY <3>1, WantedFacts
      <3>. QED BY <3>1, <3>2
    <2>3. Offset(t, m_pos) = Place(k, t)
      <3>1. k - 1 = hist.taken
        BY <2>2
      <3>. QED BY <2>2, <3>1 DEF Place
    <2>4. x = Wanted(k, t)
      BY <2>2, <2>3, LoadedValue DEF CanTake
    <2>5. \A i \in 1..1 : Wanted(hist.taken + i, t) = x
      <3>1. \A i \in 1..1 : i = 1
        OBVIOUS
      <3>. QED BY <2>4, <3>1
    <2>. HIDE DEF x, k
    <2>. QED BY <2>2, <2>5
  <1>. QED BY <1>1, <1>2

LEMMA GetBlockReturns ==
    ASSUME FillInv, ReadBack, NEW n \in Nat, GetBlock(n) PROVE ReadBack'
  <1>1. CASE Stops
    BY <1>1 DEF Stops, ReadBack
  <1>2. CASE ~Stops
    <2>. DEFINE len == Clamp(n, remaining)
    <2>1. ret'.got = Chars(m_pos, len) /\ ret'.want = WantedNext("char", len)
      <3>1. ret' = [got  |-> Chars(m_pos, len),
                    want |-> [i \in DOMAIN NextValues("char", len) |->
                                Wanted(NextValues("char", len)[i], "char")]]
        BY <1>2 DEF GetBlock, Ended, Stop, Stops, Ends
      <3>. QED BY <3>1 DEF WantedNext
    <2>2. len \in Nat /\ "char" \in Types /\ Step("char") = 1
      <3>1. remaining \in Nat
        BY PosFacts DEF FillInv
      <3>2. len \in Nat
        BY <3>1, ClampFacts
      <3>. QED BY <3>2 DEF Types, Step
    <2>. HIDE DEF len
    <2>. SUFFICES ASSUME WantedNext("char", len) # <<>>
                  PROVE  Chars(m_pos, len) = WantedNext("char", len)
      BY <2>1 DEF ReadBack
    <2>3. /\ Uniform("char") /\ m_pos = hist.taken * Step("char")
          /\ hist.taken \in Nat
          /\ WantedNext("char", len)
               = [i \in 1..len |-> Wanted(hist.taken + i, "char")]
          /\ \A i \in 1..len : hist.taken + i \in DOMAIN hist.fill
      BY <2>2, WantedFacts DEF CanTake
    <2>4. m_pos = hist.taken
      BY <2>2, <2>3
    <2>5. ASSUME NEW i \in 1..len
          PROVE  Load(m_pos + i - 1, 1) = Wanted(hist.taken + i, "char")
      <3>1. m_pos + i - 1 = (hist.taken + i) - 1
        BY <2>2, <2>3, <2>4
      <3>2. Load((hist.taken + i) - 1, 1) = Wanted(hist.taken + i, "char")
        BY <2>3, LoadedChar
      <3>. QED BY <3>1, <3>2
    <2>. QED BY <2>3, <2>5 DEF Chars
  <1>. QED BY <1>1, <1>2

LEMMA OneAt ==
    ASSUME TypeOK, NEW t \in Types, NEW idx, NEW j \in At(t, idx), NEW k \in At(t, idx)
    PROVE  j = k
  <1>1. /\ j \in DOMAIN hist.fill /\ k \in DOMAIN hist.fill
        /\ idx = (j - 1) * Step(t) /\ idx = (k - 1) * Step(t)
    BY AtFacts
  <1>2. j \in Nat \ {0} /\ k \in Nat \ {0}
    BY <1>1, FillDomain
  <1>. DEFINE a == j - 1
              b == k - 1
  <1>3. a \in Nat /\ b \in Nat /\ Step(t) \in Nat \ {0}
    BY <1>2, SizeFacts
  <1>4. idx = a * Step(t) /\ idx = b * Step(t)
    BY <1>1
  <1>. HIDE DEF a, b
  <1>5. ~(a < b) /\ ~(b < a)
    <2>1. a < b => a * Step(t) \in Nat /\ b * Step(t) \in Nat
                   /\ a * Step(t) + Step(t) <= b * Step(t)
      BY <1>3, Distance
    <2>2. b < a => b * Step(t) \in Nat /\ a * Step(t) \in Nat
                   /\ b * Step(t) + Step(t) <= a * Step(t)
      BY <1>3, Distance
    <2>3. idx \in Nat
      BY <1>3, <1>4
    <2>. QED BY <1>3, <1>4, <2>1, <2>2, <2>3
  <1>6. a = b
    BY <1>3, <1>5
  <1>. QED BY <1>2, <1>6 DEF a, b

LEMMA SeqOfNone == SetToSeq({}) = <<>>
  <1>1. Cardinality({}) = 0 /\ 1..0 = {}
    BY FS_EmptySet
  <1>2. <<>> \in [1..0 -> {}] /\ IsInjective(<<>>)
    BY <1>1 DEF IsInjective
  <1>3. SetToSeq({}) = CHOOSE f \in [1..0 -> {}] : IsInjective(f)
    BY <1>1 DEF SetToSeq
  <1>4. SetToSeq({}) \in [1..0 -> {}]
    BY <1>2, <1>3
  <1>. QED BY <1>1, <1>4

LEMMA SeqOfOne == ASSUME NEW x PROVE SetToSeq({x}) = <<x>>
  <1>1. Cardinality({x}) = 1
    BY FS_Singleton
  <1>2. <<x>> \in [1..1 -> {x}] /\ IsInjective(<<x>>)
    BY DEF IsInjective
  <1>3. SetToSeq({x}) = CHOOSE f \in [1..1 -> {x}] : IsInjective(f)
    BY <1>1 DEF SetToSeq
  <1>4. SetToSeq({x}) \in [1..1 -> {x}]
    BY <1>2, <1>3
  <1>. QED BY <1>4

LEMMA GetAtReturns ==
    ASSUME FillInv, ReadBack, NEW t \in Types, NEW idx, GetAt(t, idx) PROVE ReadBack'
  <1>1. CASE Stops
    BY <1>1 DEF Stops, ReadBack
  <1>2. CASE ~Stops
    <2>. DEFINE x == m_ord(InMemory(Load(Offset(t, idx), Size(t))))
                all == {Wanted(k, t) : k \in At(t, idx)}
    <2>1. ret'.got = <<x>> /\ ret'.want = SetToSeq(all)
      BY <1>2 DEF GetAt, Ended, Stop, Stops, Ends
    <2>2. CASE At(t, idx) = {}
      <3>1. all = {}
        BY <2>2
      <3>. QED BY <2>1, <3>1, SeqOfNone DEF ReadBack
    <2>3. ASSUME NEW k \in At(t, idx) PROVE ReadBack'
      <3>1. TypeOK /\ k \in DOMAIN hist.fill /\ Uniform(t)
            /\ Offset(t, idx) = Place(k, t)
        BY AtFacts DEF FillInv, Place
      <3>2. x = Wanted(k, t)
        BY <3>1, LoadedValue
      <3>3. all = {Wanted(k, t)}
        BY <3>1, OneAt
      <3>4. ret'.want = <<Wanted(k, t)>>
        BY <2>1, <3>3, SeqOfOne
      <3>. QED BY <2>1, <3>2, <3>4 DEF ReadBack
    <2>. QED BY <2>2, <2>3
  <1>. QED BY <1>1, <1>2

ReadInv == FillInv /\ ReadBack

LEMMA ReadInit == Init => ReadInv
  BY FillInit, NothingFacts DEF Init, ReadInv, ReadBack

LEMMA ReadStep == ReadInv /\ [Next]_vars => ReadInv'
  <1>. SUFFICES ASSUME ReadInv, [Next]_vars PROVE ReadInv'
    OBVIOUS
  <1>1. FillInv' /\ env.program.types \subseteq Types /\ Lengths \subseteq Nat
    BY FillStep, ProgramFacts, ByteBufferAssumption DEF ReadInv, FillInv
  <1>2. Stops \/ UNCHANGED vars => ReadBack'
    BY DEF ReadInv, ReadBack, Stops, vars
  <1>3. ret'.want = <<>> => ReadBack'
    BY DEF ReadBack
  <1>4. ASSUME \/ \E t \in Types : Get(t)
               \/ \E n \in Nat : GetBlock(n)
               \/ \E t \in Types, idx \in Indexes : GetAt(t, idx)
        PROVE  ReadBack'
    BY <1>4, GetReturns, GetBlockReturns, GetAtReturns DEF ReadInv
  <1>5. ASSUME \/ \E t \in Types : Put(t)
               \/ \E t \in Types, idx \in Indexes : PutAt(t, idx)
               \/ \E n \in Lengths : PutBlock(n)
               \/ \E idx \in Indexes, n \in Lengths : PutBlockAt(idx, n)
               \/ \E idx \in Indexes, n \in Lengths : GetBlockAt(idx, n)
        PROVE  ReadBack'
    <2>1. Stops \/ ret'.want = <<>>
      <3>1. ASSUME NEW t \in Types, Put(t) PROVE Stops \/ ret'.want = <<>>
        BY <3>1, NothingFacts DEF Put, Ended, Stop, Stops, Ends
      <3>2. ASSUME NEW t \in Types, NEW idx \in Indexes, PutAt(t, idx)
            PROVE  Stops \/ ret'.want = <<>>
        BY <3>2, NothingFacts DEF PutAt, Ended, Stop, Stops, Ends
      <3>3. ASSUME NEW n \in Lengths, PutBlock(n) PROVE Stops \/ ret'.want = <<>>
        BY <3>3, NothingFacts DEF PutBlock, Ended, Stop, Stops, Ends
      <3>4. ASSUME NEW idx \in Indexes, NEW n \in Lengths, PutBlockAt(idx, n)
            PROVE  Stops \/ ret'.want = <<>>
        BY <3>4, NothingFacts DEF PutBlockAt, Ended, Stop, Stops, Ends
      <3>5. ASSUME NEW idx \in Indexes, NEW n \in Lengths, GetBlockAt(idx, n)
            PROVE  Stops \/ ret'.want = <<>>
        <4>1. Stops \/ \E x : ret' = [got |-> x, want |-> <<>>]
          BY <3>5 DEF GetBlockAt, Ended, Stop, Stops, Ends
        <4>. QED BY <4>1
      <3>. QED BY <1>5, <3>1, <3>2, <3>3, <3>4, <3>5
    <2>. QED BY <1>2, <1>3, <2>1
  <1>6. ASSUME \/ clear \/ flip \/ rewind \/ mark \/ reset
               \/ \E n \in Indexes : limit(n)
               \/ \E n \in Indexes : position(n)
               \/ \E e \in Orders : order(e)
        PROVE  ReadBack'
    <2>1. Stops \/ ret' = Nothing
      BY <1>6 DEF clear, flip, rewind, mark, reset, limit, position, order, Moved,
                  Stop, Stops, Ends
    <2>. QED BY <1>2, <1>3, <2>1, NothingFacts
  <1>7. \A n \in Lengths : n \in Nat
    BY <1>1
  <1>8. Next => ReadBack'
    BY <1>1, <1>4, <1>5, <1>6, <1>7 DEF Next
  <1>. QED BY <1>1, <1>2, <1>8 DEF ReadInv

(***************************************************************************)
(* What is put after clear is read back after flip, and again after        *)
(* rewind, in order, by values, at indexes and in blocks, its bytes        *)
(* reversed where the order has changed.                                   *)
(***************************************************************************)
THEOREM ReadBackHolds == Spec => []ReadBack
  BY ReadInit, ReadStep, PTL DEF Spec, ReadInv

=============================================================================
