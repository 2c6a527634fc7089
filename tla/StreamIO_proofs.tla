-------------------------- MODULE StreamIO_proofs --------------------------
(***************************************************************************)
(* For messages, buffers and kernel buffers of every size, and however     *)
(* sends and receives come out short: the bytes arrive, and in order.      *)
(***************************************************************************)
EXTENDS StreamIO, SequenceTheorems, TLAPS

(***************************************************************************)
(* Facts about prefixes, whatever the sequences are of.                    *)
(***************************************************************************)
LEMMA PrefixPointwise ==
    ASSUME NEW S, NEW s \in Seq(S), NEW t \in Seq(S)
    PROVE  IsPrefix(s, t) <=>
               Len(s) <= Len(t) /\ \A i \in 1..Len(s) : s[i] = t[i]
  <1>1. ASSUME Len(s) <= Len(t)
        PROVE  SubSeq(s, 1, Len(s)) = SubSeq(t, 1, Len(s)) <=>
                   \A i \in 1..Len(s) : s[i] = t[i]
    <2>. DEFINE p == SubSeq(t, 1, Len(s))
    <2>1. Len(s) \in Nat /\ Len(t) \in Nat
      BY LenProperties
    <2>2. \A i \in 1..Len(s) : t[i] \in S
      BY <1>1, <2>1, ElementOfSeq
    <2>3. p \in Seq(S) /\ Len(p) = Len(s) /\ \A i \in 1..Len(s) : p[i] = t[i]
      <3>1. /\ SubSeq(t, 1, Len(s)) \in Seq(S)
            /\ Len(SubSeq(t, 1, Len(s))) = IF 1 <= Len(s) THEN Len(s) - 1 + 1 ELSE 0
            /\ \A i \in 1 .. Len(s) - 1 + 1 : SubSeq(t, 1, Len(s))[i] = t[1 + i - 1]
        BY <2>1, <2>2, SubSeqProperties
      <3>. QED BY <2>1, <3>1
    <2>4. SubSeq(s, 1, Len(s)) = s
      BY SubSeqFull
    <2>. HIDE DEF p
    <2>5. s = p <=> \A i \in 1..Len(s) : s[i] = t[i]
      BY <2>3, SeqEqual
    <2>. QED BY <2>4, <2>5 DEF p
  <1>. QED BY <1>1 DEF IsPrefix

LEMMA PrefixOfSelf ==
    ASSUME NEW S, NEW s \in Seq(S) PROVE IsPrefix(s, s)
  BY LenProperties, PrefixPointwise

LEMMA FirstBytes ==
    ASSUME NEW S, NEW s \in Seq(S), NEW k \in 0..Len(s)
    PROVE  /\ SubSeq(s, 1, k) \in Seq(S) /\ Len(SubSeq(s, 1, k)) = k
           /\ \A i \in 1..k : SubSeq(s, 1, k)[i] = s[i]
  <1>1. Len(s) \in Nat
    BY LenProperties
  <1>2. \A i \in 1..k : s[i] \in S
    BY <1>1, ElementOfSeq
  <1>3. /\ SubSeq(s, 1, k) \in Seq(S)
        /\ Len(SubSeq(s, 1, k)) = IF 1 <= k THEN k - 1 + 1 ELSE 0
        /\ \A i \in 1 .. k - 1 + 1 : SubSeq(s, 1, k)[i] = s[1 + i - 1]
    BY <1>1, <1>2, SubSeqProperties
  <1>. QED BY <1>1, <1>3

\* Dropping the end of what follows a prefix leaves a prefix.
LEMMA PrefixCut ==
    ASSUME NEW S, NEW s \in Seq(S), NEW w \in Seq(S), NEW a \in Seq(S),
           IsPrefix(s \o w, a), NEW k \in 0..Len(w)
    PROVE  IsPrefix(s \o SubSeq(w, 1, k), a)
  <1>. DEFINE v == SubSeq(w, 1, k)
  <1>1. v \in Seq(S) /\ Len(v) = k /\ \A i \in 1..k : v[i] = w[i]
    BY FirstBytes
  <1>. HIDE DEF v
  <1>2. Len(s) \in Nat /\ Len(w) \in Nat /\ Len(a) \in Nat
    BY LenProperties
  <1>3. /\ s \o w \in Seq(S) /\ Len(s \o w) = Len(s) + Len(w)
        /\ \A i \in 1 .. Len(s) + Len(w) :
              (s \o w)[i] = IF i <= Len(s) THEN s[i] ELSE w[i - Len(s)]
    BY ConcatProperties
  <1>4. /\ s \o v \in Seq(S) /\ Len(s \o v) = Len(s) + k
        /\ \A i \in 1 .. Len(s) + k :
              (s \o v)[i] = IF i <= Len(s) THEN s[i] ELSE v[i - Len(s)]
    BY <1>1, ConcatProperties
  <1>5. Len(s) + Len(w) <= Len(a)
        /\ \A i \in 1 .. Len(s) + Len(w) : (s \o w)[i] = a[i]
    <2>. DEFINE sw == s \o w
    <2>1. sw \in Seq(S) /\ Len(sw) = Len(s) + Len(w) /\ IsPrefix(sw, a)
      BY <1>3
    <2>. HIDE DEF sw
    <2>2. Len(sw) <= Len(a) /\ \A i \in 1..Len(sw) : sw[i] = a[i]
      <3>1. Len(sw) <= Len(a)
        BY <2>1, PrefixPointwise
      <3>2. ASSUME NEW i \in 1..Len(sw) PROVE sw[i] = a[i]
        BY <2>1, PrefixPointwise
      <3>. QED BY <3>1, <3>2
    <2>3. Len(s) + Len(w) <= Len(a)
          /\ \A i \in 1 .. Len(s) + Len(w) : sw[i] = a[i]
      BY <2>1, <2>2
    <2>. QED BY <2>3 DEF sw
  <1>6. ASSUME NEW i \in 1 .. Len(s) + k PROVE (s \o v)[i] = a[i]
    <2>1. i \in 1 .. Len(s) + Len(w)
      BY <1>2
    <2>2. a[i] = IF i <= Len(s) THEN s[i] ELSE w[i - Len(s)]
      BY <1>3, <1>5, <2>1
    <2>3. i > Len(s) => i - Len(s) \in 1..k
      BY <1>2
    <2>4. i > Len(s) => v[i - Len(s)] = w[i - Len(s)]
      BY <1>1, <2>3
    <2>5. i <= Len(s) \/ i > Len(s)
      BY <1>2
    <2>. QED BY <1>4, <2>2, <2>4, <2>5
  <1>7. Len(s \o v) <= Len(a)
    BY <1>2, <1>4, <1>5
  <1>8. IsPrefix(s \o v, a)
    BY <1>4, <1>6, <1>7, PrefixPointwise
  <1>. QED BY <1>8 DEF v

-----------------------------------------------------------------------------
(***************************************************************************)
(* SentArrives is not inductive.  What Write appends to the wire is read   *)
(* from where the writer is, what it tells of from where the application   *)
(* takes it to be: the two must agree.  The reader's need not, since Reset *)
(* leaves the reader where it is, but the application never takes it to be *)
(* further than it is.                                                     *)
(***************************************************************************)
Positions == w_told = w_pos /\ r_told <= r_pos

StreamInv == TypeOK /\ Positions /\ SentArrives

Cells == Bytes \cup {Unset}

LEMMA Sizes == Capacity \in Nat \ {0} /\ WireCap \in Nat \ {0} /\ Excess \in Nat
               /\ Len(Message) \in Nat /\ Message \in Seq(Bytes)
  <1>1. Message \in Seq(Bytes)
    BY StreamAssumption DEF Bytes
  <1>. QED BY <1>1, StreamAssumption, LenProperties

LEMMA Sequences ==
    ASSUME TypeOK
    PROVE  /\ wire \in Seq(Bytes) /\ wire \in Seq(Cells)
           /\ acked \in Seq(Bytes) /\ acked \in Seq(Cells)
           /\ taken \in Seq(Cells) /\ got \in Seq(Cells)
           /\ Len(wire) \in Nat /\ Len(wire) <= WireCap
  <1>1. wire \in Seq(Bytes) /\ acked \in Seq(Bytes) /\ Len(wire) <= WireCap
    BY DEF TypeOK
  <1>2. wire \in Seq(Cells) /\ acked \in Seq(Cells)
    BY <1>1, SeqMonotonic DEF Cells
  <1>3. taken \in Seq(Cells) /\ got \in Seq(Cells)
    BY DEF TypeOK, Cells
  <1>. QED BY <1>1, <1>2, <1>3, LenProperties

(***************************************************************************)
(* The bytes of a buffer between two positions.                            *)
(***************************************************************************)
LEMMA Taken ==
    ASSUME NEW S, NEW s \in Seq(S), NEW from \in Nat, NEW k \in Nat,
           from + k <= Len(s)
    PROVE  /\ SubSeq(s, from + 1, from + k) \in Seq(S)
           /\ Len(SubSeq(s, from + 1, from + k)) = k
           /\ \A i \in 1..k : SubSeq(s, from + 1, from + k)[i] = s[from + i]
  <1>1. Len(s) \in Nat
    BY LenProperties
  <1>2. \A i \in from + 1 .. from + k : s[i] \in S
    BY <1>1, ElementOfSeq
  <1>3. /\ SubSeq(s, from + 1, from + k) \in Seq(S)
        /\ Len(SubSeq(s, from + 1, from + k))
              = IF from + 1 <= from + k THEN (from + k) - (from + 1) + 1 ELSE 0
        /\ \A i \in 1 .. (from + k) - (from + 1) + 1 :
               SubSeq(s, from + 1, from + k)[i] = s[(from + 1) + i - 1]
    BY <1>2, SubSeqProperties
  <1>4. (from + k) - (from + 1) + 1 = k /\ (from + 1 <= from + k <=> k >= 1)
    OBVIOUS
  <1>. QED BY <1>3, <1>4

(***************************************************************************)
(* What the kernel gives for a send and for a receive, of whatever limit.  *)
(***************************************************************************)
LEMMA SendFacts ==
    ASSUME TypeOK, NEW limit \in Nat, NEW r \in SendResults(limit)
    PROVE  /\ r = -1 \/ r \in Nat
           /\ r >= 0 => ended = "no" /\ Len(wire) + r <= WireCap
  <1>1. Len(wire) \in Nat /\ Len(wire) <= WireCap /\ WireCap \in Nat
    BY Sizes, Sequences
  <1>2. r = -1 \/ r \in Nat
    BY <1>1 DEF SendResults
  <1>3. r >= 0 => ended = "no" /\ Len(wire) + r <= WireCap
    BY <1>1 DEF SendResults
  <1>. QED BY <1>2, <1>3

LEMMA RecvFacts ==
    ASSUME TypeOK, NEW limit \in Nat, NEW r \in RecvResults(limit)
    PROVE  r \in {EOTHER, EAGAIN, 0} \/ r \in 1..Len(wire)
  <1>1. Len(wire) \in Nat
    BY Sequences
  <1>2. CASE r \in {n \in 1..limit : n <= Len(wire)}
    BY <1>1, <1>2
  <1>3. CASE r = 0
    BY <1>3
  <1>4. CASE r = EOTHER
    BY <1>4
  <1>5. CASE r = IF ended # "no" THEN 0
                 ELSE IF blocking THEN EOTHER ELSE EAGAIN
    BY <1>5
  <1>. QED BY <1>2, <1>3, <1>4, <1>5 DEF RecvResults

-----------------------------------------------------------------------------
LEMMA StreamInit == Init => StreamInv
  <1>. SUFFICES ASSUME Init PROVE StreamInv
    OBVIOUS
  <1>1. TypeOK
    <2>1. wire \in Seq(Bytes) /\ Len(wire) = 0
      BY EmptySeq DEF Init
    <2>2. /\ acked \in Seq(Bytes)
          /\ taken \in Seq(Bytes \cup {Unset}) /\ got \in Seq(Bytes \cup {Unset})
      BY EmptySeq DEF Init
    <2>3. r_buf \in [1..Capacity -> Bytes \cup {Unset}]
      BY DEF Init
    <2>4. w_pos \in 0..Len(Message) /\ r_pos \in 0..Capacity
      BY Sizes DEF Init
    <2>5. ret \in Results
      BY DEF Init, Results
    <2>6. Len(wire) <= WireCap
      BY <2>1, Sizes
    <2>7. /\ ndebug \in Builds /\ blocking \in Modes /\ w_told \in Nat
          /\ r_told \in Nat /\ ended \in {"no", "eof", "reset"}
          /\ stopped \in {"no", "assert", "overrun"}
      BY DEF Init
    <2>. QED BY <2>1, <2>2, <2>3, <2>4, <2>5, <2>6, <2>7 DEF TypeOK
  <1>2. Positions
    BY DEF Init, Positions
  <1>3. taken \o wire = acked
    BY EmptySeq, ConcatEmptySeq DEF Init
  <1>4. IsPrefix(acked, acked)
    BY <1>1, PrefixOfSelf DEF TypeOK
  <1>. QED BY <1>1, <1>2, <1>3, <1>4 DEF SentArrives, StreamInv

\* A step that leaves the buffers and the positions alone.
LEMMA NothingMoves ==
    ASSUME StreamInv, ret' \in Results, stopped' \in {"no", "assert", "overrun"},
           UNCHANGED <<ndebug, blocking, w_pos, r_pos, r_buf, wire, ended,
                       w_told, r_told, acked, taken, got>>
    PROVE  StreamInv'
  BY DEF StreamInv, TypeOK, Positions, SentArrives

LEMMA StopStep ==
    ASSUME StreamInv, Running, NEW why \in {"assert", "overrun"}, Stop(why)
    PROVE  StreamInv'
  <1>1. ret' \in Results /\ stopped' \in {"no", "assert", "overrun"}
    BY DEF Stop, StreamInv, TypeOK
  <1>. QED BY <1>1, NothingMoves DEF Running, Stop

LEMMA ResultFacts ==
    ASSUME NEW op \in {"Write", "Read", "Reset"}, NEW n \in Int,
           NEW err \in {"none", "closed", "failed"}, Return(op, n, err)
    PROVE  ret' \in Results
  BY DEF Return, Results

(***************************************************************************)
(* What Write takes from the message goes to the end of the wire, and the  *)
(* application takes the same bytes to be sent.                            *)
(***************************************************************************)
LEMMA WriteStep ==
    ASSUME StreamInv, NEW limit \in Nat, Write(limit) PROVE StreamInv'
  <1>. USE DEF StreamInv
  <1>0. Running /\ stopped \in {"no", "assert", "overrun"}
    BY DEF Write, TypeOK
  <1>1. CASE Stop("assert")
    BY <1>0, <1>1, StopStep
  <1>2. CASE ~Stop("assert")
    <2>1. PICK r \in SendResults(limit) : Send(limit, r)
      BY <1>2 DEF Write
    <2>2. (r = -1 \/ r \in Nat)
          /\ (r >= 0 => ended = "no" /\ Len(wire) + r <= WireCap)
      BY SendFacts
    <2>3. CASE Stop("overrun")
      BY <1>0, <2>3, StopStep
    <2>4. CASE r = -1 /\ ~Stop("overrun")
      <3>1. UNCHANGED <<w_pos, r_pos, r_buf, wire, ended, w_told, r_told,
                        acked, taken, got, stopped>>
            /\ Return("Write", -1, "failed")
        BY <2>1, <2>4, Sizes DEF Send
      <3>2. ret' \in Results
        BY <3>1, ResultFacts
      <3>. QED BY <1>0, <3>1, <3>2, NothingMoves DEF Running
    <2>5. CASE r # -1 /\ ~Stop("overrun")
      <3>. DEFINE x == SubSeq(Message, w_pos + 1, w_pos + r)
      <3>1. /\ r \in Nat /\ w_pos \in Nat /\ w_pos + r <= Len(Message)
            /\ ended = "no" /\ Len(wire) + r <= WireCap
        BY <2>1, <2>2, <2>5, Sizes DEF Send, TypeOK
      <3>2. UNCHANGED <<ndebug, blocking, r_pos, r_buf, ended, r_told, taken,
                        got, stopped>>
        BY <1>0, <2>1, <2>5 DEF Running, Send
      <3>3. x \in Seq(Bytes) /\ Len(x) = r
        BY <3>1, Sizes, Taken
      <3>4. /\ wire' = wire \o x /\ w_pos' = w_pos + r /\ w_told' = w_told + r
            /\ acked' = acked \o x /\ Return("Write", r, "none")
        BY <2>1, <2>5 DEF Send, Advance, Positions
      <3>. HIDE DEF x
      <3>5. ret' \in Results
        BY <3>1, <3>4, ResultFacts
      <3>6. wire' \in Seq(Bytes) /\ Len(wire') <= WireCap /\ acked' \in Seq(Bytes)
        BY <3>1, <3>3, <3>4, ConcatProperties DEF TypeOK
      <3>7. w_pos' \in 0..Len(Message) /\ w_told' \in Nat
        BY <3>1, <3>4, Sizes DEF TypeOK
      <3>8. TypeOK'
        BY <3>2, <3>5, <3>6, <3>7 DEF TypeOK
      <3>9. taken \o wire = acked
        BY <3>1 DEF SentArrives
      <3>10. x \in Seq(Cells) /\ taken \in Seq(Cells) /\ wire \in Seq(Cells)
        BY <3>3, SeqMonotonic, Sequences DEF Cells
      <3>11. taken \o (wire \o x) = (taken \o wire) \o x
        BY <3>10, ConcatAssociative
      <3>12. (taken \o wire)' = acked'
        BY <3>2, <3>4, <3>9, <3>11
      <3>13. IsPrefix(acked', acked')
        BY <3>6, PrefixOfSelf
      <3>14. SentArrives'
        BY <3>12, <3>13 DEF SentArrives
      <3>15. Positions'
        BY <3>2, <3>4 DEF Positions
      <3>. QED BY <3>8, <3>14, <3>15
    <2>. QED BY <2>3, <2>4, <2>5
  <1>. QED BY <1>1, <1>2

(***************************************************************************)
(* r bytes received go from the front of the wire into the buffer, where   *)
(* an application that looks at the reader's position takes them.          *)
(***************************************************************************)
LEMMA ReceiveFacts ==
    ASSUME StreamInv, NEW r \in 1..Len(wire), Receive(r)
    PROVE  /\ r_buf' \in [1..Capacity -> Cells]
           /\ r_pos' \in 0..Capacity /\ r_told' \in Nat /\ r_told' <= r_pos'
           /\ wire' \in Seq(Bytes) /\ Len(wire') <= WireCap
           /\ got' \in Seq(Cells)
           /\ taken' = taken \o SubSeq(wire, 1, r)
           /\ wire = SubSeq(wire, 1, r) \o wire'
  <1>. DEFINE y == SubSeq(wire, 1, r)
              b == SubSeq(r_buf', r_pos + 1, r_pos + r)
  <1>0. TypeOK /\ Positions
    BY DEF StreamInv
  <1>1. wire \in Seq(Bytes) /\ Len(wire) \in Nat /\ Len(wire) <= WireCap
        /\ wire \in Seq(Cells) /\ got \in Seq(Cells)
    BY <1>0, Sequences
  <1>2. r \in Nat /\ r_pos \in Nat /\ r_told \in Nat /\ r_told <= r_pos
        /\ Capacity \in Nat /\ r_pos + r <= Capacity
    BY <1>0, <1>1, Sizes DEF TypeOK, Positions, Receive
  <1>3. y \in Seq(Cells) /\ Len(y) = r /\ \A i \in 1..r : y[i] = wire[i]
    BY <1>1, <1>2, FirstBytes
  <1>4. /\ wire' \in Seq(Bytes) /\ Len(wire') = Len(wire) - r
        /\ wire = y \o wire'
    <2>1. wire' = SubSeq(wire, r + 1, r + (Len(wire) - r))
      BY <1>1, <1>2 DEF Receive
    <2>2. Len(wire) - r \in Nat /\ r + (Len(wire) - r) <= Len(wire)
      BY <1>1, <1>2
    <2>3. /\ wire' \in Seq(Bytes) /\ Len(wire') = Len(wire) - r
      BY <1>1, <1>2, <2>1, <2>2, Taken
    <2>4. wire' = SubSeq(wire, r + 1, Len(wire))
      BY DEF Receive
    <2>5. y \o wire' = SubSeq(wire, 1, Len(wire))
      BY <1>1, <2>4, ConcatAdjacentSubSeq
    <2>. QED BY <1>1, <2>3, <2>5, SubSeqFull
  <1>. HIDE DEF y
  <1>5. r_buf' \in [1..Capacity -> Cells]
    <2>1. ASSUME NEW i \in 1..Capacity, i \in r_pos + 1 .. r_pos + r
          PROVE  wire[i - r_pos] \in Cells
      <3>1. i - r_pos \in 1..Len(wire)
        BY <1>1, <1>2, <2>1
      <3>. QED BY <1>1, <3>1, ElementOfSeq
    <2>. QED BY <1>0, <2>1 DEF Receive, TypeOK, Cells
  <1>6. r_buf' \in Seq(Cells) /\ Len(r_buf') = Capacity
    BY <1>2, <1>5
  <1>7. /\ r_pos' = r_pos + r /\ r_told' = r_told + r
        /\ got' = got \o SubSeq(r_buf', r_told + 1, r_told + r)
        /\ taken' = taken \o b
    BY DEF Receive
  <1>8. got' \in Seq(Cells)
    <2>1. r_told + r <= Len(r_buf')
      BY <1>2, <1>6
    <2>2. SubSeq(r_buf', r_told + 1, r_told + r) \in Seq(Cells)
      BY <1>2, <1>6, <2>1, Taken
    <2>. QED BY <1>1, <1>7, <2>2, ConcatProperties
  <1>9. b = y
    <2>1. r_pos + r <= Len(r_buf')
      BY <1>2, <1>6
    <2>2. /\ b \in Seq(Cells) /\ Len(b) = r
          /\ \A i \in 1..r : b[i] = r_buf'[r_pos + i]
      BY <1>2, <1>6, <2>1, Taken
    <2>. HIDE DEF b
    <2>3. ASSUME NEW i \in 1..r PROVE b[i] = y[i]
      <3>1. /\ r_pos + i \in 1..Capacity /\ r_pos + i \in r_pos + 1 .. r_pos + r
            /\ (r_pos + i) - r_pos = i
        BY <1>2
      <3>2. r_buf'[r_pos + i] = wire[i]
        BY <3>1 DEF Receive
      <3>. QED BY <1>3, <2>2, <3>2
    <2>. QED BY <1>2, <1>3, <2>2, <2>3, SeqEqual
  <1>10. r_pos' \in 0..Capacity /\ r_told' \in Nat /\ r_told' <= r_pos'
    BY <1>2, <1>7
  <1>11. Len(wire') <= WireCap
    BY <1>1, <1>2, <1>4, Sizes
  <1>. QED BY <1>4, <1>5, <1>7, <1>8, <1>9, <1>10, <1>11 DEF y

LEMMA ReturnedFacts ==
    ASSUME NEW r \in Int, r \in {EOTHER, EAGAIN, 0} \/ r > 0
    PROVE  /\ Returned(r).n \in Int
           /\ Returned(r).err \in {"none", "closed", "failed"}
  BY DEF Returned, EOTHER, EAGAIN

LEMMA ReadStep ==
    ASSUME StreamInv, NEW limit \in Nat, Read(limit) PROVE StreamInv'
  <1>0. /\ TypeOK /\ Positions /\ SentArrives
        /\ Running /\ stopped \in {"no", "assert", "overrun"}
    BY DEF StreamInv, Read, TypeOK
  <1>1. CASE Stop("assert")
    BY <1>0, <1>1, StopStep
  <1>2. CASE ~Stop("assert")
    <2>. DEFINE Still == UNCHANGED <<r_pos, r_buf, wire, r_told, taken, got>>
    <2>1. PICK r \in RecvResults(limit) :
            \/ r > Capacity - r_pos /\ Stop("overrun")
            \/ /\ Receive(r) \/ (r <= 0 /\ Still)
               /\ Return("Read", Returned(r).n, Returned(r).err)
               /\ UNCHANGED <<w_pos, ended, w_told, acked, stopped>>
      BY <1>2 DEF Read
    <2>2. r \in {EOTHER, EAGAIN, 0} \/ r \in 1..Len(wire)
      BY <1>0, RecvFacts
    <2>3. /\ Len(wire) \in Nat /\ Len(wire) <= WireCap
          /\ taken \in Seq(Cells) /\ wire \in Seq(Cells)
      BY <1>0, Sequences
    <2>4. r \in Int /\ (r \in {EOTHER, EAGAIN, 0} \/ r > 0)
      BY <2>2, <2>3 DEF EOTHER, EAGAIN
    <2>5. CASE r > Capacity - r_pos /\ Stop("overrun")
      BY <1>0, <2>5, StopStep
    <2>6. CASE /\ Receive(r)
               /\ Return("Read", Returned(r).n, Returned(r).err)
               /\ UNCHANGED <<w_pos, ended, w_told, acked, stopped>>
      <3>1. r \in 1..Len(wire)
        <4>1. r \in 1 .. Capacity - r_pos
          BY <2>6 DEF Receive
        <4>2. r > 0
          BY <2>4, <4>1
        <4>. QED BY <2>2, <4>2 DEF EOTHER, EAGAIN
      <3>2. /\ r_buf' \in [1..Capacity -> Cells]
            /\ r_pos' \in 0..Capacity /\ r_told' \in Nat /\ r_told' <= r_pos'
            /\ wire' \in Seq(Bytes) /\ Len(wire') <= WireCap
            /\ got' \in Seq(Cells)
            /\ taken' = taken \o SubSeq(wire, 1, r)
            /\ wire = SubSeq(wire, 1, r) \o wire'
        BY <2>6, <3>1, ReceiveFacts
      <3>3. ret' \in Results
        BY <2>4, <2>6, ReturnedFacts, ResultFacts
      <3>. DEFINE y == SubSeq(wire, 1, r)
      <3>4. y \in Seq(Cells) /\ wire' \in Seq(Cells)
        <4>1. r \in 0..Len(wire)
          BY <3>1
        <4>. QED BY <2>3, <3>2, <4>1, SeqMonotonic, FirstBytes DEF Cells
      <3>5. taken' = taken \o y /\ wire = y \o wire'
        BY <3>2
      <3>. HIDE DEF y
      <3>6. taken' \in Seq(Cells)
        BY <2>3, <3>4, <3>5, ConcatProperties
      <3>7. TypeOK'
        BY <1>0, <2>6, <3>2, <3>3, <3>6 DEF TypeOK, Cells, Running
      <3>8. (taken \o y) \o wire' = taken \o (y \o wire')
        BY <2>3, <3>4, ConcatAssociative
      <3>9. taken' \o wire' = taken \o wire
        BY <3>5, <3>8
      <3>10. SentArrives'
        BY <1>0, <2>6, <3>9 DEF SentArrives
      <3>11. Positions'
        BY <1>0, <2>6, <3>2 DEF Positions
      <3>. QED BY <3>7, <3>10, <3>11 DEF StreamInv
    <2>7. CASE /\ r <= 0 /\ Still
               /\ Return("Read", Returned(r).n, Returned(r).err)
               /\ UNCHANGED <<w_pos, ended, w_told, acked, stopped>>
      <3>1. ret' \in Results
        BY <2>4, <2>7, ReturnedFacts, ResultFacts
      <3>. QED BY <1>0, <2>7, <3>1, NothingMoves DEF Running
    <2>. QED BY <2>1, <2>5, <2>6, <2>7
  <1>. QED BY <1>1, <1>2

(***************************************************************************)
(* The resets and the end of the connection.                               *)
(***************************************************************************)
LEMMA ResetStep ==
    ASSUME StreamInv, NEW pos,
           \/ pos \in 0..w_pos /\ WriterReset(pos)
           \/ pos \in 0..r_pos /\ ReaderReset(pos)
    PROVE  StreamInv'
  <1>1. TypeOK /\ Positions /\ SentArrives
    BY DEF StreamInv
  <1>2. pos \in Int /\ Return("Reset", pos, "none")
    BY <1>1 DEF WriterReset, ReaderReset, TypeOK
  <1>3. ret' \in Results
    BY <1>2, ResultFacts
  <1>4. UNCHANGED <<ndebug, blocking, r_pos, r_buf, wire, ended, acked, taken,
                    got, stopped>>
    BY DEF WriterReset, ReaderReset, Running
  <1>5. /\ w_pos' \in 0..Len(Message) /\ w_told' \in Nat /\ w_told' = w_pos'
        /\ r_told' \in Nat /\ r_told' <= r_pos
    BY <1>1, Sizes DEF WriterReset, ReaderReset, TypeOK, Positions
  <1>6. TypeOK'
    BY <1>1, <1>3, <1>4, <1>5 DEF TypeOK
  <1>. QED BY <1>1, <1>4, <1>5, <1>6 DEF StreamInv, Positions, SentArrives

LEMMA EndStep ==
    ASSUME StreamInv, SenderEnds \/ ConnectionFails PROVE StreamInv'
  <1>1. TypeOK /\ Positions /\ SentArrives
    BY DEF StreamInv
  <1>2. /\ UNCHANGED <<ndebug, blocking, w_pos, r_pos, r_buf, w_told, r_told,
                       acked, taken, got, ret, stopped>>
        /\ ended' \in {"eof", "reset"} /\ ended # "reset"
    BY DEF SenderEnds, ConnectionFails, Running
  <1>3. /\ Len(wire) \in Nat /\ Len(wire) <= WireCap /\ wire \in Seq(Bytes)
        /\ wire \in Seq(Cells) /\ taken \in Seq(Cells) /\ acked \in Seq(Cells)
    BY <1>1, Sequences
  <1>4. CASE SenderEnds
    BY <1>1, <1>2, <1>4 DEF TypeOK, SenderEnds, StreamInv, Positions, SentArrives
  <1>5. CASE ConnectionFails
    <2>1. PICK k \in 0..Len(wire) : wire' = SubSeq(wire, 1, k)
      BY <1>5 DEF ConnectionFails
    <2>2. wire' \in Seq(Bytes) /\ Len(wire') <= WireCap
      BY <1>3, <2>1, FirstBytes, Sizes
    <2>3. TypeOK'
      BY <1>1, <1>2, <2>2 DEF TypeOK
    <2>4. IsPrefix(taken \o SubSeq(wire, 1, k), acked)
      BY <1>1, <1>3, PrefixCut DEF SentArrives
    <2>5. SentArrives'
      <3>1. ended' = "reset"
        BY <1>5 DEF ConnectionFails
      <3>. QED BY <1>2, <2>1, <2>4, <3>1 DEF SentArrives
    <2>. QED BY <1>1, <1>2, <2>3, <2>5 DEF StreamInv, Positions
  <1>. QED BY <1>4, <1>5

LEMMA StreamInvHolds == Spec => []StreamInv
  <1>1. ASSUME StreamInv, [Next]_vars PROVE StreamInv'
    <2>0. /\ w_pos \in 0..Len(Message) /\ r_pos \in 0..Capacity
      BY <1>1 DEF StreamInv, TypeOK
    <2>1. WriteLimits \subseteq Nat /\ ReadLimits \subseteq Nat
      BY <2>0, Sizes DEF WriteLimits, ReadLimits
    <2>2. Room(r_pos, Capacity) \in Nat
      BY <2>0, Sizes DEF Room
    <2>3. CASE UNCHANGED vars
      BY <1>1, <2>3 DEF vars, StreamInv, TypeOK, Positions, SentArrives
    <2>4. CASE \E limit \in WriteLimits : Write(limit)
      BY <1>1, <2>1, <2>4, WriteStep
    <2>5. CASE \E limit \in ReadLimits : Read(limit)
      BY <1>1, <2>1, <2>5, ReadStep
    <2>6. CASE ReadDefault
      BY <1>1, <2>2, <2>6, ReadStep DEF ReadDefault
    <2>. QED BY <1>1, <2>3, <2>4, <2>5, <2>6, ResetStep, EndStep DEF Next
  <1>. QED BY <1>1, StreamInit, PTL DEF Spec

-----------------------------------------------------------------------------
(***************************************************************************)
(* Positions stay inside the buffers they are positions of, and what the   *)
(* application is told of is in the message and in the buffer.             *)
(***************************************************************************)
THEOREM TypeCorrect == Spec => []TypeOK
  BY StreamInvHolds, PTL DEF StreamInv

(***************************************************************************)
(* The bytes taken out of the buffer and those on the way are what the     *)
(* counts returned by Write say was sent, until a reset, and a prefix of   *)
(* it after one.                                                           *)
(***************************************************************************)
THEOREM ArrivesHolds == Spec => []SentArrives
  BY StreamInvHolds, PTL DEF StreamInv

=============================================================================
