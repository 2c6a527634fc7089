----------------------------- MODULE ByteBuffer -----------------------------
(***************************************************************************)
(* ByteBuffer over an array it does not own, and ByteOrder                 *)
(* (include/mercury/nio/buffer.h, src/nio/buffer.cpp).                     *)
(*                                                                         *)
(* Positions, limits and indexes are compared in bytes and used as         *)
(* subscripts of an array of the type accessed; the position advances by   *)
(* one for a char and by sizeof(sizeof(T)) for every other type.  Memory   *)
(* is kept byte by byte: a value of n bytes is a function from 0..n-1, its *)
(* least significant byte first, to cells <<k, s>>, byte s of the k-th     *)
(* value of the fill the program knows of; Blank is a byte of no such one. *)
(*                                                                         *)
(* The assertions compare with what remains of the buffer and not with     *)
(* what is accessed.  An access that passes them, or is made where they    *)
(* are compiled out, and reaches outside the array is undefined behaviour: *)
(* the model notes it in status and says nothing of what comes after.      *)
(***************************************************************************)
EXTENDS Integers, SequencesExt

CONSTANTS
    Programs,   \* [types, cap]: types a program mixes, and its array's size
    Indexes,    \* positions, limits and indexes programs pass
    Lengths,    \* lengths of blocks programs pass
    Natives,    \* byte orders of the machines considered
    Builds,     \* whether assert() is compiled out, per build considered
    SizeT,      \* sizeof(size_t)
    MaxFill     \* bound: values put between two clears

Types == {"char", "int16", "int32", "int64", "float", "double"}

Orders == {"Little", "Big"}

ASSUME ByteBufferAssumption ==
    /\ \A p \in Programs : p.types \subseteq Types /\ p.cap \in Nat
    /\ Indexes \subseteq Nat /\ Lengths \subseteq Nat
    /\ Natives \subseteq Orders /\ Builds \subseteq BOOLEAN
    /\ SizeT \in Nat \ {0} /\ MaxFill \in Nat

VARIABLES
    env,        \* the program, the machine and the build
    m_buf,      \* the bytes of the array
    m_pos, m_lim, m_mark,
    m_endian,   \* m_endian of m_ord
    hist,       \* what was put since clear, and how much was read back
    lowered,    \* since clear, the limit was set below position or mark
    ret,        \* the values returned, and those that were put
    status      \* running, or what ended the program

vars == <<env, m_buf, m_pos, m_lim, m_mark, m_endian, hist, lowered, ret, status>>

(***************************************************************************)
(* A program ends by an assertion; by an access to a value, or to a block  *)
(* that is as long as asserted, outside the array; or by a block put at an *)
(* index, whose length nothing is compared with.                           *)
(***************************************************************************)
Ends == {"aborted", "strayed", "overran"}

m_cap  == env.program.cap
native == env.native
Blank  == <<0, 0>>

Size(t) == CASE t = "char" -> 1 [] t = "int16" -> 2
             [] t \in {"int32", "float"} -> 4 [] OTHER -> 8
Step(t) == IF t = "char" THEN 1 ELSE SizeT

\* get<T>(index): the first byte of element index of an array of T.
Offset(t, index) == index * Size(t)

\* A size_t difference; the largest size_t stands for one that wraps round.
Minus(a, b) == IF b <= a THEN a - b ELSE 2 ^ 30
remaining   == Minus(m_lim, m_pos)

(***************************************************************************)
(* ByteOrder::operator(), and the machine's own load and store.            *)
(***************************************************************************)
Reversed(w) == [s \in DOMAIN w |-> w[Cardinality(DOMAIN w) - 1 - s]]

\* m_ord that turns the values that are in order already.
m_ord_Wrong(w) == IF m_endian = native THEN Reversed(w) ELSE w

m_ord(w) == IF m_endian # native THEN Reversed(w) ELSE w

InMemory(w) == IF native = "Little" THEN w ELSE Reversed(w)

Load(a, n) == [s \in 0..n - 1 |->
                  IF a + s \in DOMAIN m_buf THEN m_buf[a + s] ELSE Blank]

Store(a, w) == [b \in DOMAIN m_buf |->
                  IF b - a \in DOMAIN w THEN w[b - a] ELSE m_buf[b]]

-----------------------------------------------------------------------------
(***************************************************************************)
(* What the program knows: after clear it fills, after flip it drains what *)
(* it filled, from the start again after rewind; any other move ends that. *)
(* A fill of values of one type has them one step apart.                   *)
(***************************************************************************)
Filling == [phase |-> "fill", fill |-> <<>>, taken |-> 0]
Other   == [phase |-> "other", fill |-> <<>>, taken |-> 0]
Item(t) == [type |-> t, order |-> m_endian]

Uniform(t) == \A i \in DOMAIN hist.fill : hist.fill[i].type = t
Value(k, t) == [s \in 0..Size(t) - 1 |-> <<k, s>>]

\* Value k as it is read when the order is what it is now.
Wanted(k, t) ==
    IF hist.fill[k].order = m_endian THEN Value(k, t) ELSE Reversed(Value(k, t))

\* The n values that come next, and the value that lies at an index.
NextValues(t, n) ==
    IF hist.phase = "drain" /\ Uniform(t) /\ hist.taken + n <= Len(hist.fill)
    THEN [i \in 1..n |-> hist.taken + i] ELSE <<>>

At(t, idx) == {k \in DOMAIN hist.fill : Uniform(t) /\ idx = (k - 1) * Step(t)}

Taken(ks) == IF ks = <<>> THEN Other ELSE [hist EXCEPT !.taken = Last(ks)]

\* The history becomes h, memory mem; it holds no value of an empty fill.
Known(h, mem) ==
    /\ hist' = h
    /\ m_buf' = IF h.fill = <<>> THEN [a \in DOMAIN m_buf |-> Blank] ELSE mem

Nothing == [got |-> <<>>, want |-> <<>>]

TypeOK ==
    /\ env \in [program : Programs, native : Natives, ndebug : Builds]
    /\ DOMAIN m_buf = 0..m_cap - 1
    /\ {m_pos, m_lim, m_mark} \subseteq Nat
    /\ m_endian \in Orders
    /\ hist \in [phase : {"fill", "drain", "other"},
                 fill : Seq([type : Types, order : Orders]), taken : Nat]
    /\ Len(hist.fill) <= MaxFill
    /\ lowered \in BOOLEAN
    /\ status \in Ends \cup {"running"}

Init ==
    /\ env \in [program : Programs, native : Natives, ndebug : Builds]
    /\ m_buf = [a \in 0..m_cap - 1 |-> Blank]
    /\ m_pos = 0 /\ m_lim = m_cap /\ m_mark = 0
    /\ m_endian \in Orders
    /\ hist = Filling
    /\ lowered = FALSE
    /\ ret = Nothing
    /\ status = "running"

-----------------------------------------------------------------------------
(***************************************************************************)
(* A call made while the program runs.  It ends the program if assertions  *)
(* are compiled in and do not pass, and if it goes on and reaches past the *)
(* array; else its effect is Running /\ ...                                *)
(***************************************************************************)
Going   == status = "running" /\ UNCHANGED <<env, status>>
Running == Going /\ UNCHANGED lowered

Stop(how) ==
    /\ status = "running"
    /\ status' = how
    /\ UNCHANGED <<env, m_buf, m_pos, m_lim, m_mark, m_endian, hist, lowered, ret>>

GoesOn(passes) == env.ndebug \/ passes

Ended(passes, inside, how) ==
    \/ ~GoesOn(passes) /\ Stop("aborted")
    \/ GoesOn(passes) /\ ~inside /\ Stop(how)

\* The element at an index is in the array.
Inside(t, idx) == Offset(t, idx) + Size(t) <= m_cap

PutPasses(t) == remaining >= Size(t) /\ m_pos < m_cap
GetPasses(t) == PutPasses(t) /\ (t = "int64" => remaining > Size(t))
PutAtPasses(t, idx) == Minus(m_lim, idx) >= Size(t) /\ idx < m_cap
GetAtPasses(t, idx) == idx < m_cap /\ (t # "char" => PutAtPasses(t, idx))

Put(t) ==
    \/ Ended(PutPasses(t), Inside(t, m_pos), "strayed")
    \/ /\ Running /\ GoesOn(PutPasses(t)) /\ Inside(t, m_pos)
       /\ IF hist.phase = "fill"
          THEN /\ Len(hist.fill) < MaxFill
               /\ Known([hist EXCEPT !.fill = Append(@, Item(t))],
                        Store(Offset(t, m_pos),
                              InMemory(m_ord(Value(Len(hist.fill) + 1, t)))))
          ELSE Known(Other, m_buf)
       /\ m_pos' = m_pos + Step(t)
       /\ ret' = Nothing
       /\ UNCHANGED <<m_lim, m_mark, m_endian>>

Get(t) ==
    \/ Ended(GetPasses(t), Inside(t, m_pos), "strayed")
    \/ /\ Running /\ GoesOn(GetPasses(t)) /\ Inside(t, m_pos)
       /\ LET ks == NextValues(t, 1) IN
          /\ ret' = [got  |-> <<m_ord(InMemory(Load(Offset(t, m_pos), Size(t))))>>,
                     want |-> [i \in DOMAIN ks |-> Wanted(ks[i], t)]]
          /\ Known(Taken(ks), m_buf)
       /\ m_pos' = m_pos + Step(t)
       /\ UNCHANGED <<m_lim, m_mark, m_endian>>

\* A put over a value of the fill replaces it.
PutAt(t, idx) ==
    \/ Ended(PutAtPasses(t, idx), Inside(t, idx), "strayed")
    \/ /\ Running /\ GoesOn(PutAtPasses(t, idx)) /\ Inside(t, idx)
       /\ \/ At(t, idx) = {} /\ Known(Other, m_buf)
          \/ \E k \in At(t, idx) :
                Known([hist EXCEPT !.fill[k] = Item(t)],
                      Store(Offset(t, idx), InMemory(m_ord(Value(k, t)))))
       /\ ret' = Nothing
       /\ UNCHANGED <<m_pos, m_lim, m_mark, m_endian>>

GetAt(t, idx) ==
    \/ Ended(GetAtPasses(t, idx), Inside(t, idx), "strayed")
    \/ /\ Running /\ GoesOn(GetAtPasses(t, idx)) /\ Inside(t, idx)
       /\ ret' = [got  |-> <<m_ord(InMemory(Load(Offset(t, idx), Size(t))))>>,
                  want |-> SetToSeq({Wanted(k, t) : k \in At(t, idx)})]
       /\ UNCHANGED <<m_buf, m_pos, m_lim, m_mark, m_endian, hist>>

(***************************************************************************)
(* Blocks of chars.  The assertion of the gets, that source and target do  *)
(* not overlap, holds of no two addresses.                                 *)
(***************************************************************************)
Chars(a, n) == [i \in 1..n |-> Load(a + i - 1, 1)]

Clamp(n, room) == IF n > room THEN room ELSE n

PutBlock(n) ==
    LET passes == remaining >= n /\ m_pos < m_cap
        inside == m_pos + n <= m_cap IN
    \/ Ended(passes, inside, "strayed")
    \/ /\ Running /\ GoesOn(passes) /\ inside
       /\ IF hist.phase = "fill"
          THEN /\ Len(hist.fill) + n <= MaxFill
               /\ Known([hist EXCEPT !.fill = @ \o [i \in 1..n |-> Item("char")]],
                        Store(m_pos, [b \in 0..n - 1 |->
                                        <<Len(hist.fill) + b + 1, 0>>]))
          ELSE Known(Other, m_buf)
       /\ m_pos' = m_pos + n
       /\ ret' = Nothing
       /\ UNCHANGED <<m_lim, m_mark, m_endian>>

PutBlockAt(idx, n) ==
    LET passes == Minus(m_lim, idx) >= 1 /\ idx < m_cap
        inside == idx + n <= m_cap IN
    \/ Ended(passes, inside, "overran")
    \/ /\ Running /\ GoesOn(passes) /\ inside
       /\ Known(Other, m_buf)
       /\ ret' = Nothing
       /\ UNCHANGED <<m_pos, m_lim, m_mark, m_endian>>

GetBlock(n) ==
    LET len    == Clamp(n, remaining)
        inside == m_pos + len <= m_cap
        ks     == NextValues("char", len) IN
    \/ Ended(FALSE, inside, "strayed")
    \/ /\ Running /\ GoesOn(FALSE) /\ inside
       /\ ret' = [got  |-> Chars(m_pos, len),
                  want |-> [i \in DOMAIN ks |-> Wanted(ks[i], "char")]]
       /\ m_pos' = m_pos + len
       /\ Known(IF len = 0 THEN hist ELSE Taken(ks), m_buf)
       /\ UNCHANGED <<m_lim, m_mark, m_endian>>

\* The block is taken from m_pos, and cut to what there is after idx.
GetBlockAt(idx, n) ==
    LET len    == Clamp(n, Minus(m_lim, idx))
        inside == m_pos + len <= m_cap IN
    \/ Ended(FALSE, inside, "strayed")
    \/ /\ Running /\ GoesOn(FALSE) /\ inside
       /\ ret' = [got |-> Chars(m_pos, len), want |-> <<>>]
       /\ UNCHANGED <<m_buf, m_pos, m_lim, m_mark, m_endian, hist>>

-----------------------------------------------------------------------------
(***************************************************************************)
(* Moves of the position, the limit and the mark.                          *)
(***************************************************************************)
Moved(pos, lim, mark, h) ==
    /\ m_pos' = pos /\ m_lim' = lim /\ m_mark' = mark
    /\ Known(h, m_buf)
    /\ ret' = Nothing
    /\ UNCHANGED m_endian

clear == Going /\ lowered' = FALSE /\ Moved(0, m_cap, 0, Filling)

Drained(fill) == [phase |-> "drain", fill |-> fill, taken |-> 0]

\* flip that leaves the mark.
flip_Mark ==
    /\ Running
    /\ Moved(0, m_pos, m_mark,
             IF hist.phase = "fill" THEN Drained(hist.fill) ELSE Other)

flip ==
    /\ Running
    /\ Moved(0, m_pos, 0,
             IF hist.phase = "fill" THEN Drained(hist.fill) ELSE Other)

\* rewind that goes to the mark.
rewind_Mark ==
    /\ Running
    /\ Moved(m_mark, m_lim, m_mark,
             IF hist.phase = "drain" THEN Drained(hist.fill) ELSE Other)

rewind ==
    /\ Running
    /\ Moved(0, m_lim, 0,
             IF hist.phase = "drain" THEN Drained(hist.fill) ELSE Other)

mark  == Running /\ Moved(m_pos, m_lim, m_pos, hist)
reset == Running /\ Moved(m_mark, m_lim, m_mark, Other)

limit(n) ==
    \/ ~GoesOn(n <= m_cap) /\ Stop("aborted")
    \/ /\ Going /\ GoesOn(n <= m_cap)
       /\ lowered' = (lowered \/ n < m_pos \/ n < m_mark)
       /\ Moved(m_pos, n, m_mark, Other)

position(n) ==
    \/ ~GoesOn(n < m_lim) /\ Stop("aborted")
    \/ Running /\ GoesOn(n < m_lim) /\ Moved(n, m_lim, m_mark, Other)

order(e) ==
    /\ Running
    /\ m_endian' = e
    /\ ret' = Nothing
    /\ UNCHANGED <<m_buf, m_pos, m_lim, m_mark, hist>>

Next ==
    \/ \E t \in env.program.types : Put(t)
    \/ \E t \in env.program.types : Get(t)
    \/ \E t \in env.program.types, idx \in Indexes : PutAt(t, idx)
    \/ \E t \in env.program.types, idx \in Indexes : GetAt(t, idx)
    \/ "char" \in env.program.types /\ \E n \in Lengths : PutBlock(n)
    \/ "char" \in env.program.types /\ \E n \in Lengths : GetBlock(n)
    \/ "char" \in env.program.types
       /\ \E idx \in Indexes, n \in Lengths : PutBlockAt(idx, n)
    \/ "char" \in env.program.types
       /\ \E idx \in Indexes, n \in Lengths : GetBlockAt(idx, n)
    \/ clear \/ flip \/ rewind \/ mark \/ reset
    \/ \E n \in Indexes : limit(n)
    \/ \E n \in Indexes : position(n)
    \/ \E e \in Orders : order(e)

Spec == Init /\ [][Next]_vars

-----------------------------------------------------------------------------
(***************************************************************************)
(* Properties.                                                             *)
(***************************************************************************)

(***************************************************************************)
(* The assertions are enough for chars.  In a build that has them, a       *)
(* program of chars and blocks that never lowers the limit below the       *)
(* position or the mark keeps both within the limit and the limit within   *)
(* the array, so that remaining() does not wrap round zero, and ends by an *)
(* assertion where an access would leave the array.  (Of the other types,  *)
(* of a lowered limit and of the blocks put at an index it is not so.)     *)
(***************************************************************************)
CharsInside ==
    env.program.types = {"char"} /\ ~env.ndebug /\ ~lowered =>
        /\ m_pos <= m_lim /\ m_mark <= m_lim /\ m_lim <= m_cap
        /\ status # "strayed"

(***************************************************************************)
(* What is put after clear is read back after flip, and again after        *)
(* rewind, value by value and in order, when all values are of one type,   *)
(* although their positions are eight apart and their bytes elsewhere; a   *)
(* change of the byte order in between reverses their bytes.  A program    *)
(* whose values do not fit the array has ended before it reads them.       *)
(***************************************************************************)
ReadBack == ret.want # <<>> => ret.got = ret.want

(***************************************************************************)
(* The bytes of the values put since clear, of one type, lie in the order  *)
(* that was set when they were put, whatever the machine's own is: the     *)
(* most significant byte first for BigEndian.                              *)
(***************************************************************************)
BytesInOrder ==
    \A k \in DOMAIN hist.fill :
        LET t == hist.fill[k].type
            a == Offset(t, (k - 1) * Step(t)) IN
        Uniform(t) =>
            \A s \in 0..Size(t) - 1 :
                m_buf[a + IF hist.fill[k].order = "Little" THEN s
                          ELSE Size(t) - 1 - s] = <<k, s>>

=============================================================================
