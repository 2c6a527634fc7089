-------------------------- MODULE UrlError_proofs --------------------------
(***************************************************************************)
(* Theorems about RuntimeError, for any number of objects, hints and       *)
(* errors, and about Url, whose parser reports to one, for texts of any    *)
(* length over any symbols.                                                *)
(***************************************************************************)
EXTENDS RuntimeError, Url, SequenceTheorems, FiniteSetTheorems,
        WellFoundedInduction, TLAPS

(***************************************************************************)
(* RuntimeError.  Its properties are invariants of their own accord, given *)
(* the types; what the operations do to a stack is in lemmas about         *)
(* sequences.                                                              *)
(***************************************************************************)
Lines == (Hints \cup {Empty}) \X (1..MaxErrors \cup {Empty})

(***************************************************************************)
(* The lines of a stack after push_back, and the errors among them.        *)
(***************************************************************************)
LEMMA AppendLines ==
    ASSUME NEW S, NEW stack \in Seq(S), NEW line \in S
    PROVE  /\ Append(stack, line) \in Seq(S)
           /\ ToSet(Append(stack, line)) = ToSet(stack) \cup {line}
           /\ OnStack(Append(stack, line)) =
                 OnStack(stack) \cup ({line[2]} \ {Empty})
  <1>1. Append(stack, line) \in Seq(S)
    OBVIOUS
  <1>2. ToSet(Append(stack, line)) = ToSet(stack) \cup {line}
    <2>1. ASSUME NEW x \in ToSet(Append(stack, line))
          PROVE  x \in ToSet(stack) \cup {line}
      BY DEF ToSet
    <2>2. ASSUME NEW x \in ToSet(stack)
          PROVE  x \in ToSet(Append(stack, line))
      BY DEF ToSet
    <2>3. line \in ToSet(Append(stack, line))
      <3>1. /\ Len(stack) + 1 \in DOMAIN Append(stack, line)
            /\ Append(stack, line)[Len(stack) + 1] = line
        OBVIOUS
      <3> QED BY <3>1 DEF ToSet
    <2> QED BY <2>1, <2>2, <2>3
  <1> QED BY <1>1, <1>2 DEF OnStack

(***************************************************************************)
(* The lines of a stack after splice, and the errors among them.           *)
(***************************************************************************)
LEMMA ConcatLines ==
    ASSUME NEW S, NEW s \in Seq(S), NEW t \in Seq(S)
    PROVE  /\ s \o t \in Seq(S)
           /\ ToSet(s \o t) = ToSet(s) \cup ToSet(t)
           /\ OnStack(s \o t) = OnStack(s) \cup OnStack(t)
  <1>1. s \o t \in Seq(S)
    OBVIOUS
  <1>2. ToSet(s \o t) = ToSet(s) \cup ToSet(t)
    <2>1. ASSUME NEW x \in ToSet(s \o t)
          PROVE  x \in ToSet(s) \cup ToSet(t)
      <3>1. PICK i \in DOMAIN (s \o t) : x = (s \o t)[i]
        BY DEF ToSet
      <3>2. CASE i <= Len(s)
        BY <3>1, <3>2 DEF ToSet
      <3>3. CASE i > Len(s)
        <4>1. i - Len(s) \in DOMAIN t /\ x = t[i - Len(s)]
          BY <3>1, <3>3
        <4> QED BY <4>1 DEF ToSet
      <3> QED BY <3>2, <3>3
    <2>2. ASSUME NEW x \in ToSet(s)
          PROVE  x \in ToSet(s \o t)
      BY DEF ToSet
    <2>3. ASSUME NEW x \in ToSet(t)
          PROVE  x \in ToSet(s \o t)
      <3>1. PICK i \in DOMAIN t : x = t[i]
        BY <2>3 DEF ToSet
      <3>2. i + Len(s) \in DOMAIN (s \o t) /\ (s \o t)[i + Len(s)] = x
        BY <3>1
      <3> QED BY <3>2 DEF ToSet
    <2> QED BY <2>1, <2>2, <2>3
  <1> QED BY <1>1, <1>2 DEF OnStack

(***************************************************************************)
(* An empty stack holds no error.                                          *)
(***************************************************************************)
LEMMA EmptyStack ==
    ToSet(<<>>) = {} /\ OnStack(<<>>) = {}
BY DEF ToSet, OnStack

-----------------------------------------------------------------------------
(***************************************************************************)
(* The types the properties rest on: TypeOK without the bounds of TLC.     *)
(***************************************************************************)
Typed ==
    /\ m_code \in [Obj -> 0..MaxErrors]
    /\ m_message \in [Obj -> 1..MaxErrors \cup {Empty}]
    /\ m_hint \in [Obj -> Hints \cup {Empty}]
    /\ m_stack \in [Obj -> Seq(Lines)]
    /\ count \in 0..MaxErrors

(***************************************************************************)
(* merge and the moves change a member of two objects.                     *)
(***************************************************************************)
LEMMA TwoChanged ==
    ASSUME NEW S, NEW f \in [Obj -> S], NEW a \in S, NEW b \in S,
           NEW o \in Obj, NEW p \in Obj
    PROVE  [f EXCEPT ![o] = a, ![p] = b] \in [Obj -> S]
OBVIOUS

(***************************************************************************)
(* The types hold of every object from the start, and every operation      *)
(* keeps them.                                                             *)
(***************************************************************************)
LEMMA TypedInit == Init => Typed
BY ErrorAssumption DEF Init, Typed

LEMMA TypedStep == Typed /\ [Next]_vars => Typed'
  <1> SUFFICES ASSUME Typed, [Next]_vars PROVE Typed'
    OBVIOUS
  <1> USE ErrorAssumption DEF Typed
  <1>1. ASSUME NEW o \in Obj, NEW hint \in Hints \cup {Null}, set(o, hint)
        PROVE  Typed'
    <2>1. m_hint' \in [Obj -> Hints \cup {Empty}] /\ count + 1 \in 1..MaxErrors
      BY <1>1 DEF set, HintAfterSet
    <2>2. Line(m_hint'[o], count + 1) \in Lines
      BY <2>1 DEF Line, Lines
    <2>3. Append(m_stack[o], Line(m_hint'[o], count + 1)) \in Seq(Lines)
      BY <2>2, AppendLines
    <2> QED BY <1>1, <2>1, <2>3 DEF set
  <1>2. ASSUME NEW o \in Obj, push(o) PROVE Typed'
    <2>1. PushLine \in Lines
      BY DEF PushLine, Lines
    <2>2. Append(m_stack[o], PushLine) \in Seq(Lines)
      BY <2>1, AppendLines
    <2> QED BY <1>2, <2>2 DEF push
  <1>3. ASSUME NEW o \in Obj, clear(o) PROVE Typed'
    BY <1>3 DEF clear
  <1>4. ASSUME NEW o \in Obj, NEW p \in Obj, merge(o, p) PROVE Typed'
    <2>1. Spliced(o, p) \in Seq(Lines)
      BY ConcatLines DEF Spliced
    <2>2. m_code' \in [Obj -> 0..MaxErrors]
      <3>1. m_code[p] \in 0..MaxErrors /\ 0 \in 0..MaxErrors
        OBVIOUS
      <3> QED BY <1>4, <3>1, TwoChanged DEF merge, CodeAfterMerge
    <2>3. /\ m_message' \in [Obj -> 1..MaxErrors \cup {Empty}]
          /\ m_hint' \in [Obj -> Hints \cup {Empty}]
      BY <1>4 DEF merge
    <2>4. m_stack' \in [Obj -> Seq(Lines)]
      <3>1. <<>> \in Seq(Lines)
        OBVIOUS
      <3> QED BY <1>4, <2>1, <3>1, TwoChanged DEF merge
    <2> QED BY <1>4, <2>2, <2>3, <2>4 DEF merge
  <1>5. ASSUME NEW o \in Obj, NEW p \in Obj, Copy(o, p) PROVE Typed'
    BY <1>5 DEF Copy
  <1>6. ASSUME NEW o \in Obj, NEW p \in Obj, Move(o, p) PROVE Typed'
    <2>1. m_code' \in [Obj -> 0..MaxErrors]
      <3>1. m_code[p] \in 0..MaxErrors /\ 0 \in 0..MaxErrors
        OBVIOUS
      <3> QED BY <1>6, <3>1, TwoChanged DEF Move, CodeAfterMove
    <2>2. /\ m_message' \in [Obj -> 1..MaxErrors \cup {Empty}]
          /\ m_hint' \in [Obj -> Hints \cup {Empty}]
      BY <1>6 DEF Move
    <2>3. m_stack' \in [Obj -> Seq(Lines)]
      <3>1. <<>> \in Seq(Lines) /\ m_stack[p] \in Seq(Lines)
        OBVIOUS
      <3> QED BY <1>6, <3>1, TwoChanged DEF Move
    <2> QED BY <1>6, <2>1, <2>2, <2>3 DEF Move
  <1>7. CASE UNCHANGED vars
    BY <1>7 DEF vars
  <1> QED BY <1>1, <1>2, <1>3, <1>4, <1>5, <1>6, <1>7 DEF Next

-----------------------------------------------------------------------------
(***************************************************************************)
(* What an object reports is one error whose line is on its stack.         *)
(***************************************************************************)
LEMMA ReportsStep ==
    Typed /\ ReportsOneError /\ [Next]_vars => ReportsOneError'
  <1> SUFFICES ASSUME Typed, ReportsOneError, [Next]_vars,
                      NEW x \in Obj, m_code'[x] # 0
               PROVE  /\ m_message'[x] = m_code'[x]
                      /\ Line(m_hint'[x], m_message'[x]) \in ToSet(m_stack'[x])
    BY DEF ReportsOneError
  <1> USE ErrorAssumption DEF Typed, ReportsOneError
  <1>1. ASSUME NEW o \in Obj, NEW hint \in Hints \cup {Null}, set(o, hint)
        PROVE  /\ m_message'[x] = m_code'[x]
               /\ Line(m_hint'[x], m_message'[x]) \in ToSet(m_stack'[x])
    <2>1. CASE x = o
      <3>1. m_hint' \in [Obj -> Hints \cup {Empty}] /\ count + 1 \in 1..MaxErrors
        BY <1>1 DEF set, HintAfterSet
      <3>2. Line(m_hint'[o], count + 1) \in Lines
        BY <3>1 DEF Line, Lines
      <3>3. Line(m_hint'[o], count + 1)
               \in ToSet(Append(m_stack[o], Line(m_hint'[o], count + 1)))
        BY <3>2, AppendLines
      <3> QED BY <1>1, <2>1, <3>1, <3>3 DEF set
    <2>2. CASE x # o
      BY <1>1, <2>2 DEF set
    <2> QED BY <2>1, <2>2
  <1>2. ASSUME NEW o \in Obj, push(o)
        PROVE  /\ m_message'[x] = m_code'[x]
               /\ Line(m_hint'[x], m_message'[x]) \in ToSet(m_stack'[x])
    <2>1. PushLine \in Lines
      BY DEF PushLine, Lines
    <2>2. ToSet(m_stack[x]) \subseteq ToSet(m_stack'[x])
      BY <1>2, <2>1, AppendLines DEF push
    <2> QED BY <1>2, <2>2 DEF push
  <1>3. ASSUME NEW o \in Obj, clear(o)
        PROVE  /\ m_message'[x] = m_code'[x]
               /\ Line(m_hint'[x], m_message'[x]) \in ToSet(m_stack'[x])
    BY <1>3 DEF clear
  <1>4. ASSUME NEW o \in Obj, NEW p \in Obj, merge(o, p)
        PROVE  /\ m_message'[x] = m_code'[x]
               /\ Line(m_hint'[x], m_message'[x]) \in ToSet(m_stack'[x])
    <2>1. ToSet(m_stack[p]) \subseteq ToSet(Spliced(o, p))
      BY ConcatLines DEF Spliced
    <2> QED BY <1>4, <2>1 DEF merge, CodeAfterMerge
  <1>5. ASSUME NEW o \in Obj, NEW p \in Obj, Copy(o, p)
        PROVE  /\ m_message'[x] = m_code'[x]
               /\ Line(m_hint'[x], m_message'[x]) \in ToSet(m_stack'[x])
    BY <1>5 DEF Copy
  <1>6. ASSUME NEW o \in Obj, NEW p \in Obj, Move(o, p)
        PROVE  /\ m_message'[x] = m_code'[x]
               /\ Line(m_hint'[x], m_message'[x]) \in ToSet(m_stack'[x])
    BY <1>6 DEF Move, CodeAfterMove
  <1>7. CASE UNCHANGED vars
    BY <1>7 DEF vars
  <1> QED BY <1>1, <1>2, <1>3, <1>4, <1>5, <1>6, <1>7 DEF Next

(***************************************************************************)
(* The code, message and hint an object reports are those of one error     *)
(* that is on its stack, for any number of objects, errors and hints.      *)
(***************************************************************************)
THEOREM ReportsHold == Spec => []ReportsOneError
  <1>1. Init => ReportsOneError
    BY DEF Init, ReportsOneError
  <1> QED BY <1>1, TypedInit, TypedStep, ReportsStep, PTL DEF Spec

-----------------------------------------------------------------------------
(***************************************************************************)
(* An object with an error on its stack has a code.                        *)
(***************************************************************************)
LEMMA ReportedStep ==
    ASSUME "mergeClean" \notin Uses
    PROVE  Typed /\ ErrorsAreReported /\ [Next]_vars => ErrorsAreReported'
  <1> SUFFICES ASSUME Typed, ErrorsAreReported, [Next]_vars,
                      NEW x \in Obj, OnStack(m_stack'[x]) # {}
               PROVE  m_code'[x] # 0
    BY DEF ErrorsAreReported
  <1> USE ErrorAssumption DEF Typed, ErrorsAreReported
  <1>1. ASSUME NEW o \in Obj, NEW hint \in Hints \cup {Null}, set(o, hint)
        PROVE  m_code'[x] # 0
    BY <1>1 DEF set
  <1>2. ASSUME NEW o \in Obj, push(o)
        PROVE  m_code'[x] # 0
    <2>1. PushLine \in Lines /\ PushLine[2] = Empty
      BY DEF PushLine, Lines
    <2>2. OnStack(Append(m_stack[o], PushLine)) = OnStack(m_stack[o])
      <3>1. OnStack(Append(m_stack[o], PushLine)) =
               OnStack(m_stack[o]) \cup ({PushLine[2]} \ {Empty})
        <4>1. m_stack[o] \in Seq(Lines)
          OBVIOUS
        <4> QED BY <2>1, <4>1, AppendLines
      <3> QED BY <2>1, <3>1
    <2> QED BY <1>2, <2>2 DEF push
  <1>3. ASSUME NEW o \in Obj, clear(o)
        PROVE  m_code'[x] # 0
    BY <1>3, EmptyStack DEF clear
  <1>4. ASSUME NEW o \in Obj, NEW p \in Obj, merge(o, p)
        PROVE  m_code'[x] # 0
    BY <1>4, EmptyStack DEF merge, CodeAfterMerge
  <1>5. ASSUME NEW o \in Obj, NEW p \in Obj, Copy(o, p)
        PROVE  m_code'[x] # 0
    BY <1>5 DEF Copy
  <1>6. ASSUME NEW o \in Obj, NEW p \in Obj, Move(o, p)
        PROVE  m_code'[x] # 0
    BY <1>6, EmptyStack DEF Move, CodeAfterMove
  <1>7. CASE UNCHANGED vars
    BY <1>7 DEF vars
  <1> QED BY <1>1, <1>2, <1>3, <1>4, <1>5, <1>6, <1>7 DEF Next

(***************************************************************************)
(* If only objects that hold an error are merged, an object with an error  *)
(* on its stack says so.                                                   *)
(***************************************************************************)
THEOREM ReportedHolds ==
    ASSUME "mergeClean" \notin Uses
    PROVE  Spec => []ErrorsAreReported
  <1>1. Init => ErrorsAreReported
    BY EmptyStack DEF Init, ErrorsAreReported
  <1> QED BY <1>1, TypedInit, TypedStep, ReportedStep, PTL DEF Spec

-----------------------------------------------------------------------------
(***************************************************************************)
(* Every operation keeps every error on some stack, or the program drops   *)
(* it.  What holds an error is followed from the state before.             *)
(***************************************************************************)
LEMMA KeptStep == Typed /\ NoErrorLost /\ [Next]_vars => NoErrorLost'
  <1> SUFFICES ASSUME Typed, NoErrorLost, [Next]_vars,
                      NEW err \in 1..count', err \notin dropped'
               PROVE  \E y \in Obj : err \in OnStack(m_stack'[y])
    BY DEF NoErrorLost
  <1> USE ErrorAssumption DEF Typed
  <1>0. ASSUME err \in 1..count, err \notin dropped
        PROVE  \E y \in Obj : err \in OnStack(m_stack[y])
    BY <1>0 DEF NoErrorLost
  <1>1. ASSUME NEW o \in Obj, NEW hint \in Hints \cup {Null}, set(o, hint)
        PROVE  \E y \in Obj : err \in OnStack(m_stack'[y])
    <2>1. m_hint' \in [Obj -> Hints \cup {Empty}] /\ count + 1 \in 1..MaxErrors
      BY <1>1 DEF set, HintAfterSet
    <2>2. /\ Line(m_hint'[o], count + 1) \in Lines
          /\ Line(m_hint'[o], count + 1)[2] = count + 1
      BY <2>1 DEF Line, Lines
    <2>3. m_stack'[o] = Append(m_stack[o], Line(m_hint'[o], count + 1))
      BY <1>1 DEF set
    <2>4. OnStack(m_stack'[o]) =
             OnStack(m_stack[o]) \cup ({count + 1} \ {Empty})
      BY <2>2, <2>3, AppendLines
    <2>5. CASE err = count + 1
      BY <2>1, <2>4, <2>5
    <2>6. CASE err # count + 1
      <3>1. err \in 1..count /\ err \notin dropped
        BY <1>1, <2>6 DEF set
      <3>2. PICK y \in Obj : err \in OnStack(m_stack[y])
        BY <1>0, <3>1
      <3>3. y # o => m_stack'[y] = m_stack[y]
        BY <1>1 DEF set
      <3> QED BY <2>4, <3>2, <3>3
    <2> QED BY <2>5, <2>6
  <1>2. ASSUME NEW o \in Obj, push(o)
        PROVE  \E y \in Obj : err \in OnStack(m_stack'[y])
    <2>1. PushLine \in Lines /\ PushLine[2] = Empty
      BY DEF PushLine, Lines
    <2>2. OnStack(Append(m_stack[o], PushLine)) = OnStack(m_stack[o])
      <3>1. OnStack(Append(m_stack[o], PushLine)) =
               OnStack(m_stack[o]) \cup ({PushLine[2]} \ {Empty})
        <4>1. m_stack[o] \in Seq(Lines)
          OBVIOUS
        <4> QED BY <2>1, <4>1, AppendLines
      <3> QED BY <2>1, <3>1
    <2>3. PICK y \in Obj : err \in OnStack(m_stack[y])
      BY <1>0, <1>2 DEF push
    <2> QED BY <1>2, <2>2, <2>3 DEF push
  <1>3. ASSUME NEW o \in Obj, clear(o)
        PROVE  \E y \in Obj : err \in OnStack(m_stack'[y])
    <2>1. PICK y \in Obj : err \in OnStack(m_stack[y])
      BY <1>0, <1>3 DEF clear, Drop
    <2> QED BY <1>3, <2>1 DEF clear, Drop
  <1>4. ASSUME NEW o \in Obj, NEW p \in Obj, merge(o, p)
        PROVE  \E y \in Obj : err \in OnStack(m_stack'[y])
    <2>1. OnStack(Spliced(o, p)) = OnStack(m_stack[p]) \cup OnStack(m_stack[o])
      BY ConcatLines DEF Spliced
    <2>2. PICK y \in Obj : err \in OnStack(m_stack[y])
      BY <1>0, <1>4 DEF merge
    <2> QED BY <1>4, <2>1, <2>2 DEF merge
  <1>5. ASSUME NEW o \in Obj, NEW p \in Obj, Copy(o, p)
        PROVE  \E y \in Obj : err \in OnStack(m_stack'[y])
    <2>1. PICK y \in Obj : err \in OnStack(m_stack[y])
      BY <1>0, <1>5 DEF Copy, Drop
    <2> QED BY <1>5, <2>1 DEF Copy, Drop
  <1>6. ASSUME NEW o \in Obj, NEW p \in Obj, Move(o, p)
        PROVE  \E y \in Obj : err \in OnStack(m_stack'[y])
    <2>1. PICK y \in Obj : err \in OnStack(m_stack[y])
      BY <1>0, <1>6 DEF Move, Drop
    <2> QED BY <1>6, <2>1 DEF Move, Drop
  <1>7. CASE UNCHANGED vars
    BY <1>0, <1>7 DEF vars
  <1> QED BY <1>1, <1>2, <1>3, <1>4, <1>5, <1>6, <1>7 DEF Next

(***************************************************************************)
(* No error that was recorded is lost before the program clears or         *)
(* overwrites an object with it on its stack.                              *)
(***************************************************************************)
THEOREM NothingLost == Spec => []NoErrorLost
  <1>1. Init => NoErrorLost
    BY DEF Init, NoErrorLost
  <1> QED BY <1>1, TypedInit, TypedStep, KeptStep, PTL DEF Spec

-----------------------------------------------------------------------------
(***************************************************************************)
(* Url.                                                                    *)
(***************************************************************************)

(***************************************************************************)
(* The least and the greatest element of a set of numbers.                 *)
(***************************************************************************)
LEMMA Least ==
    ASSUME NEW T, T \subseteq Nat, T # {}
    PROVE  \E x \in T : \A y \in T : x <= y
  <1>1. PICK x \in T : \A y \in T : <<y, x>> \notin OpToRel(<, Nat)
    BY NatLessThanWellFounded, WFMin
  <1>2. \A y \in T : ~(y < x)
    BY <1>1 DEF OpToRel
  <1>. QED BY <1>2

LEMMA MinFacts ==
    ASSUME NEW T, T \subseteq Nat, T # {}
    PROVE  Min(T) \in T /\ \A y \in T : Min(T) <= y
  BY Least DEF Min

LEMMA MinIs ==
    ASSUME NEW T, T \subseteq Nat, NEW x \in T, \A y \in T : x <= y
    PROVE  Min(T) = x
  <1>. DEFINE m == Min(T)
  <1>1. m \in T /\ m <= x
    BY MinFacts
  <1>. HIDE DEF m
  <1>2. m \in Nat /\ x \in Nat /\ x <= m
    BY <1>1
  <1>3. m = x
    BY <1>1, <1>2
  <1>. QED BY <1>3 DEF m

LEMMA MaxFacts ==
    ASSUME NEW b \in Nat, NEW T, T \subseteq 0..b, T # {}
    PROVE  Max(T) \in T /\ \A y \in T : Max(T) >= y
  <1>. DEFINE U == {b - y : y \in T}
  <1>1. U \subseteq Nat /\ U # {}
    <2>1. \A y \in T : b - y \in Nat
      OBVIOUS
    <2>. QED BY <2>1
  <1>2. PICK u \in U : \A v \in U : u <= v
    BY <1>1, Least
  <1>3. PICK x \in T : u = b - x
    BY <1>2
  <1>4. \A y \in T : x >= y
    <2>. TAKE y \in T
    <2>1. b - y \in U
      OBVIOUS
    <2>. QED BY <1>2, <1>3, <2>1
  <1>. QED BY <1>4 DEF Max

(***************************************************************************)
(* Pieces of a text, whatever its symbols are.                             *)
(***************************************************************************)
LEMMA PieceFacts ==
    ASSUME NEW S, NEW s \in Seq(S), NEW a \in Nat \ {0}, NEW b \in a - 1..Len(s)
    PROVE  /\ SubSeq(s, a, b) \in Seq(S)
           /\ Len(SubSeq(s, a, b)) = b - a + 1
           /\ \A i \in 1 .. b - a + 1 : SubSeq(s, a, b)[i] = s[a + i - 1]
  <1>1. Len(s) \in Nat
    BY LenProperties
  <1>2. \A i \in a..b : s[i] \in S
    BY <1>1, ElementOfSeq
  <1>. QED BY <1>1, <1>2, SubSeqProperties

LEMMA InPiece ==
    ASSUME NEW S, NEW s \in Seq(S), NEW a \in Nat \ {0}, NEW b \in a - 1..Len(s),
           NEW k \in a..b
    PROVE  s[k] \in ToSet(SubSeq(s, a, b))
  <1>1. /\ SubSeq(s, a, b) \in Seq(S) /\ Len(SubSeq(s, a, b)) = b - a + 1
        /\ Len(s) \in Nat
        /\ \A i \in 1 .. b - a + 1 : SubSeq(s, a, b)[i] = s[a + i - 1]
    BY PieceFacts, LenProperties
  <1>2. k - a + 1 \in 1 .. b - a + 1 /\ a + (k - a + 1) - 1 = k
    BY <1>1
  <1>3. DOMAIN SubSeq(s, a, b) = 1 .. b - a + 1
    BY <1>1, LenProperties
  <1>4. SubSeq(s, a, b)[k - a + 1] = s[k]
    BY <1>1, <1>2
  <1>. QED BY <1>2, <1>3, <1>4 DEF ToSet

LEMMA EmptyIs ==
    ASSUME NEW S, NEW s \in Seq(S) PROVE s = <<>> <=> Len(s) = 0
  BY EmptySeq, LenProperties

-----------------------------------------------------------------------------
(***************************************************************************)
(* What parse() makes of a text, step by step, as functions of the text:   *)
(* where its schema ends, whether two slashes follow, where the host ends, *)
(* and whether there is a port and it begins with a digit or the like.     *)
(***************************************************************************)
At(s, n) == IF n < Len(s) THEN s[n + 1] ELSE EOS

Colons(s)    == {n \in 0..Len(s) - 1 : At(s, n) = ":"}
Colon(s)     == Min(Colons(s))
HasSchema(s) == Colons(s) # {} /\ 0 \notin Colons(s)
SchemaOf(s)  == SubSeq(s, 1, Colon(s))

Slashes(s) == At(s, Colon(s) + 1) = "/" /\ At(s, Colon(s) + 2) = "/"

Brackets(s, q, n, b) == {i \in q + 2..n - 1 : At(s, i) = b}

DepthOf(s, q, n) ==
    Cardinality(Brackets(s, q, n, "[")) - Cardinality(Brackets(s, q, n, "]"))

EndsHost(s, q, n) ==
    At(s, n) = EOS \/ (At(s, n) \in {":", "/"} /\ DepthOf(s, q, n) = 0)

Ends(s, q) == {n \in q + 2..Len(s) : EndsHost(s, q, n)}
End(s)     == Min(Ends(s, Colon(s) + 1))
HostOf(s)  == SubSeq(s, Colon(s) + 4, End(s))

HasPort(s)   == At(s, End(s)) = ":"
PortFails(s) == At(s, End(s) + 1) \in After9
PortText(s)  == SubSeq(s, End(s) + 2, Len(s))

LEMMA SymbolFacts ==
    /\ EOS \notin Symbols /\ EOS \notin {":", "/", "[", "]", "-"}
    /\ DOMAIN Digit \cap After9 = {} /\ EOS \notin DOMAIN Digit
    /\ \A d \in DOMAIN Digit : d \in Symbols /\ d # "-"
                               /\ d \notin {":", "/", "[", "]"}
  BY UrlAssumption DEF Symbols, EOS, After9

LEMMA AtFacts ==
    ASSUME NEW s \in Seq(Symbols)
    PROVE  /\ Len(s) \in Nat
           /\ \A n \in 0..Len(s) - 1 : At(s, n) = s[n + 1] /\ At(s, n) \in Symbols
           /\ \A n \in Nat : At(s, n) # EOS => n < Len(s)
           /\ \A n \in Nat : At(s, n) = EOS => n >= Len(s)
           /\ At(s, Len(s)) = EOS
  <1>1. Len(s) \in Nat
    BY LenProperties
  <1>2. \A n \in 0..Len(s) - 1 : At(s, n) = s[n + 1] /\ At(s, n) \in Symbols
    <2>. TAKE n \in 0..Len(s) - 1
    <2>1. n + 1 \in 1..Len(s)
      BY <1>1
    <2>. QED BY <1>1, <2>1, ElementOfSeq DEF At
  <1>3. \A n \in Nat : At(s, n) # EOS => n < Len(s)
    BY <1>1 DEF At
  <1>4. \A n \in Nat : At(s, n) = EOS => n >= Len(s)
    BY <1>1, <1>2, SymbolFacts
  <1>. QED BY <1>1, <1>2, <1>3, <1>4 DEF At

LEMMA ColonFacts ==
    ASSUME NEW s \in Seq(Symbols), HasSchema(s)
    PROVE  /\ Colon(s) \in 1..Len(s) - 1 /\ At(s, Colon(s)) = ":"
           /\ \A n \in 0..Colon(s) - 1 : At(s, n) # ":"
  <1>1. Len(s) \in Nat
    BY LenProperties
  <1>2. Colons(s) \subseteq Nat /\ Colons(s) # {} /\ 0 \notin Colons(s)
    BY <1>1 DEF Colons, HasSchema
  <1>3. Colon(s) \in Colons(s) /\ \A n \in Colons(s) : Colon(s) <= n
    BY <1>2, MinFacts DEF Colon
  <1>4. Colon(s) \in 0..Len(s) - 1 /\ Colon(s) # 0 /\ At(s, Colon(s)) = ":"
    BY <1>2, <1>3 DEF Colons
  <1>5. ASSUME NEW n \in 0..Colon(s) - 1 PROVE At(s, n) # ":"
    <2>1. n \in 0..Len(s) - 1 /\ ~(Colon(s) <= n)
      BY <1>1, <1>4
    <2>. QED BY <1>3, <2>1 DEF Colons
  <1>. QED BY <1>1, <1>4, <1>5

LEMMA EndFacts ==
    ASSUME NEW s \in Seq(Symbols), HasSchema(s), Slashes(s)
    PROVE  /\ End(s) \in Colon(s) + 3..Len(s)
           /\ At(s, End(s)) \in {EOS, ":", "/"}
  <1>1. Len(s) \in Nat /\ Colon(s) \in Nat
    BY LenProperties, ColonFacts
  <1>2. Colon(s) + 2 < Len(s)
    BY <1>1, AtFacts, SymbolFacts DEF Slashes
  <1>. DEFINE T == Ends(s, Colon(s) + 1)
  <1>3. T \subseteq Nat /\ Len(s) \in T
    BY <1>1, <1>2, AtFacts DEF Ends, EndsHost
  <1>4. End(s) \in T
    BY <1>3, MinFacts DEF End
  <1>. QED BY <1>1, <1>4 DEF Ends, EndsHost

-----------------------------------------------------------------------------
(***************************************************************************)
(* The invariant: at each step the parts are those that the steps so far   *)
(* make of the text, and a text is refused only where a step refuses it.   *)
(***************************************************************************)
Passed ==
    /\ HasSchema(str) /\ Slashes(str)
    /\ m_schema = SchemaOf(str) /\ m_host = HostOf(str)

ParseInv ==
    /\ str \in Seq(Symbols)
    /\ given # <<>> =>
          given \in Parts /\ str = define_string(given[1], given[2], given[3])
    /\ pc # "refused" => ~e
    /\ pc \in {"schema", "host", "port"} => m_port = -1
    /\ pc = "schema" => p0 = 0
    /\ pc = "host" => /\ HasSchema(str) /\ p0 = Colon(str) + 1
                      /\ m_schema = SchemaOf(str)
    /\ pc = "port" => Passed /\ HasPort(str) /\ p0 = End(str)
    /\ pc \in {"accept", "accepted"} =>
          /\ Passed
          /\ IF HasPort(str) THEN ~PortFails(str) /\ m_port \in atoi(PortText(str))
                             ELSE m_port = -1
    /\ pc = "accepted" => m_string = str
    /\ pc = "refused" => \/ ~HasSchema(str) \/ ~Slashes(str)
                         \/ HasPort(str) /\ PortFails(str)
    /\ pc \in {"schema", "host", "port", "accept", "accepted", "refused",
               "crashed"}

(***************************************************************************)
(* The texts of URLs that are composed are texts.                          *)
(***************************************************************************)
LEMMA DecimalFacts ==
    ASSUME NEW p \in Parts, p[3] >= 0
    PROVE  /\ Decimal(p[3]) \in Seq(DOMAIN Digit) /\ Decimal(p[3]) # <<>>
           /\ Number(Decimal(p[3])) = p[3]
  <1>1. Decimal(p[3]) \in Decimals(p[3])
    BY PortsAssumption DEF Decimal
  <1>2. BoundedSeq(DOMAIN Digit, MaxDigits) \subseteq Seq(DOMAIN Digit)
    <2>1. \A n \in 0..MaxDigits : [1..n -> DOMAIN Digit] \subseteq Seq(DOMAIN Digit)
      BY UrlAssumption, SeqDef
    <2>. QED BY <2>1 DEF BoundedSeq, SeqOf
  <1>. QED BY <1>1, <1>2 DEF Decimals

LEMMA SomeSymbols ==
    /\ <<>> \in Seq(Symbols) /\ <<":">> \in Seq(Symbols)
    /\ <<"/", "/">> \in Seq(Symbols)
    /\ <<"[">> \in Seq(Symbols) /\ <<"]">> \in Seq(Symbols)
  BY DEF Symbols

LEMMA Composed ==
    ASSUME NEW p \in Parts
    PROVE  define_string(p[1], p[2], p[3]) \in Seq(Symbols)
  <1>1. p[1] \in Seq(Symbols) /\ p[2] \in Seq(Symbols)
    BY UrlAssumption
  <1>2. p[3] >= 0 => Decimal(p[3]) \in Seq(Symbols)
    BY DecimalFacts, SeqMonotonic DEF Symbols
  <1>. DEFINE a == IF p[1] # <<>> THEN p[1] \o <<":">> ELSE <<>>
              b == IF p[2] # <<>> THEN <<"/", "/">> ELSE <<>>
              c == IF NeedBrackets(p[2]) THEN <<"[">> \o p[2] \o <<"]">> ELSE p[2]
              d == IF p[3] >= 0 THEN <<":">> \o Decimal(p[3]) ELSE <<>>
  <1>3. a \in Seq(Symbols) /\ b \in Seq(Symbols) /\ c \in Seq(Symbols)
        /\ d \in Seq(Symbols)
    BY <1>1, <1>2, SomeSymbols, ConcatProperties
  <1>4. define_string(p[1], p[2], p[3]) = a \o b \o c \o d
    BY DEF define_string
  <1>. HIDE DEF a, b, c, d
  <1>. QED BY <1>3, <1>4, ConcatProperties

LEMMA ParseInit == UrlInit => ParseInv
  <1>. SUFFICES ASSUME UrlInit PROVE ParseInv
    OBVIOUS
  <1>1. str \in Seq(Symbols)
    BY UrlAssumption, Composed DEF UrlInit
  <1>. QED BY <1>1 DEF UrlInit, ParseInv

LEMMA ParseStep == ParseInv /\ [UrlNext]_urlVars => ParseInv'
  <1>. SUFFICES ASSUME ParseInv, [UrlNext]_urlVars PROVE ParseInv'
    OBVIOUS
  <1>1. str \in Seq(Symbols) /\ Len(str) \in Nat
    BY LenProperties DEF ParseInv
  <1>2. \A n : Sym(n) = At(str, n)
    BY DEF Sym, At
  <1>3. CASE parse_schema
    <2>1. {n \in 0..Len(str) - 1 : Sym(n) = ":"} = Colons(str)
      BY <1>2 DEF Colons
    <2>2. CASE ~HasSchema(str) /\ pc' = "refused"
      BY <1>3, <2>2 DEF parse_schema, ParseInv
    <2>3. CASE /\ HasSchema(str)
               /\ m_schema' = Piece(0, Min(Colons(str)))
               /\ p0' = Min(Colons(str)) + 1 /\ pc' = "host"
               /\ UNCHANGED <<m_string, e>>
      <3>1. Colon(str) \in Nat
        BY <1>1, <2>3, ColonFacts
      <3>2. m_schema' = SchemaOf(str) /\ p0' = Colon(str) + 1
        BY <2>3, <3>1 DEF Piece, Colon, SchemaOf
      <3>. QED BY <1>3, <2>3, <3>2 DEF parse_schema, ParseInv
    <2>. QED BY <1>3, <2>1, <2>2, <2>3 DEF parse_schema, Refuse, HasSchema
  <1>4. CASE parse_host
    <2>1. HasSchema(str) /\ p0 = Colon(str) + 1 /\ Colon(str) \in Nat
      BY <1>1, <1>4, ColonFacts DEF parse_host, ParseInv
    <2>2. (Sym(p0) = "/" /\ Sym(p0 + 1) = "/") <=> Slashes(str)
      BY <1>2, <2>1 DEF Slashes
    <2>3. CASE ~Slashes(str) /\ pc' = "refused"
      BY <1>4, <2>3 DEF parse_host, ParseInv
    <2>4. CASE /\ Slashes(str)
               /\ m_host' = HostText(HostEnd)
               /\ p0' = HostEnd
               /\ pc' = IF Sym(HostEnd) = ":" THEN "port" ELSE "accept"
               /\ UNCHANGED <<m_string, e>>
      <3>1. HostEnd = End(str)
        BY <1>2, <2>1 DEF HostEnd, End, Ends, EndsHost, Depth, DepthOf, Brackets
      <3>2. End(str) \in Colon(str) + 3..Len(str)
        BY <1>1, <2>1, <2>4, EndFacts
      <3>3. HostText(End(str)) = HostOf(str)
        <4>1. /\ p0 + 2 + 1 = Colon(str) + 4
              /\ p0 + 2 + (End(str) - p0 - 2) = End(str)
          BY <1>1, <2>1, <3>2
        <4>. QED BY <4>1 DEF HostText, Piece, HostOf
      <3>4. /\ m_host' = HostOf(str) /\ p0' = End(str)
            /\ pc' = IF HasPort(str) THEN "port" ELSE "accept"
        BY <1>2, <2>4, <3>1, <3>3 DEF HasPort
      <3>5. /\ m_schema' = SchemaOf(str) /\ m_port' = -1 /\ str' = str
            /\ given' = given /\ ~e'
        BY <1>4, <2>4 DEF parse_host, ParseInv
      <3>. QED BY <1>1, <2>1, <2>4, <3>4, <3>5 DEF ParseInv, Passed
    <2>. QED BY <1>4, <2>2, <2>3, <2>4 DEF parse_host, Refuse
  <1>5. CASE parse_port
    <2>1. HasPort(str) /\ p0 = End(str) /\ Passed /\ End(str) \in Nat
      BY <1>1, <1>5, EndFacts, ColonFacts DEF parse_port, ParseInv, Passed
    <2>2. Sym(p0 + 1) \in After9 <=> PortFails(str)
      BY <1>2, <2>1 DEF PortFails
    <2>3. CASE PortFails(str) /\ pc' = "refused"
      BY <1>5, <2>1, <2>3 DEF parse_port, ParseInv
    <2>4. CASE /\ ~PortFails(str)
               /\ m_port' \in atoi(SubSeq(str, p0 + 2, Len(str)))
               /\ pc' = "accept"
               /\ UNCHANGED <<p0, m_string, e>>
      <3>1. m_port' \in atoi(PortText(str))
        BY <2>1, <2>4 DEF PortText
      <3>. QED BY <1>5, <2>1, <2>4, <3>1 DEF parse_port, ParseInv, Passed
    <2>5. CASE pc' = "crashed" /\ e' = e
      BY <1>5, <2>5 DEF parse_port, ParseInv
    <2>. QED BY <1>5, <2>2, <2>3, <2>4, <2>5 DEF parse_port, Refuse
  <1>6. CASE Accept
    BY <1>6 DEF Accept, ParseInv, Passed
  <1>7. CASE UNCHANGED urlVars
    BY <1>7 DEF urlVars, ParseInv, Passed
  <1>. QED BY <1>3, <1>4, <1>5, <1>6, <1>7 DEF UrlNext

LEMMA ParseInvHolds == UrlSpec => []ParseInv
  BY ParseInit, ParseStep, PTL DEF UrlSpec

-----------------------------------------------------------------------------
(***************************************************************************)
(* Schema, colon, slashes and host are the text up to the end of the host. *)
(***************************************************************************)
FrontOf(s) == SchemaOf(s) \o <<":", "/", "/">> \o HostOf(s)

LEMMA FrontFacts ==
    ASSUME NEW s \in Seq(Symbols), HasSchema(s), Slashes(s)
    PROVE  /\ FrontOf(s) \in Seq(Symbols) /\ Len(FrontOf(s)) = End(s)
           /\ \A k \in 1..End(s) : FrontOf(s)[k] = s[k]
           /\ IsPrefix(FrontOf(s), s)
           /\ ":" \notin ToSet(SchemaOf(s))
  <1>. DEFINE c == Colon(s)
              d == End(s)
              a == SchemaOf(s)
              b == <<":", "/", "/">>
              h == HostOf(s)
  <1>1. /\ Len(s) \in Nat /\ c \in 1..Len(s) - 1 /\ d \in c + 3..Len(s)
        /\ c + 2 < Len(s)
    <2>1. Len(s) \in Nat /\ c \in 1..Len(s) - 1 /\ d \in c + 3..Len(s)
      BY LenProperties, ColonFacts, EndFacts
    <2>. QED BY <2>1
  <1>2. s[c + 1] = ":" /\ s[c + 2] = "/" /\ s[c + 3] = "/"
    BY <1>1, ColonFacts DEF At, Slashes
  <1>3. /\ a \in Seq(Symbols) /\ Len(a) = c /\ \A k \in 1..c : a[k] = s[k]
    <2>. HIDE DEF c
    <2>1. 1 \in Nat \ {0} /\ c \in 1 - 1..Len(s)
      BY <1>1
    <2>2. /\ SubSeq(s, 1, c) \in Seq(Symbols)
          /\ Len(SubSeq(s, 1, c)) = c - 1 + 1
          /\ \A k \in 1 .. c - 1 + 1 : SubSeq(s, 1, c)[k] = s[1 + k - 1]
      BY <2>1, PieceFacts
    <2>. QED BY <1>1, <2>2 DEF SchemaOf, c
  <1>4. /\ h \in Seq(Symbols) /\ Len(h) = d - c - 3
        /\ \A k \in 1..d - c - 3 : h[k] = s[c + 3 + k]
    <2>. HIDE DEF c, d
    <2>1. c + 4 \in Nat \ {0} /\ d \in (c + 4) - 1..Len(s)
      BY <1>1
    <2>2. /\ SubSeq(s, c + 4, d) \in Seq(Symbols)
          /\ Len(SubSeq(s, c + 4, d)) = d - (c + 4) + 1
          /\ \A k \in 1 .. d - (c + 4) + 1 : SubSeq(s, c + 4, d)[k] = s[(c + 4) + k - 1]
      BY <2>1, PieceFacts
    <2>3. \A k \in 1 .. d - c - 3 : (c + 4) + k - 1 = c + 3 + k
      BY <1>1
    <2>. QED BY <1>1, <2>2, <2>3 DEF HostOf, c, d
  <1>5. b \in Seq(Symbols) /\ Len(b) = 3 /\ b[1] = ":" /\ b[2] = "/" /\ b[3] = "/"
    BY DEF Symbols
  <1>6. FrontOf(s) = (a \o b) \o h
    BY DEF FrontOf
  <1>. HIDE DEF a, b, c, d, h
  <1>7. /\ a \o b \in Seq(Symbols) /\ Len(a \o b) = c + 3
        /\ \A k \in 1..c + 3 : (a \o b)[k] = IF k <= c THEN a[k] ELSE b[k - c]
    <2>1. /\ a \o b \in Seq(Symbols) /\ Len(a \o b) = Len(a) + Len(b)
          /\ \A k \in 1 .. Len(a) + Len(b) :
               (a \o b)[k] = IF k <= Len(a) THEN a[k] ELSE b[k - Len(a)]
      BY <1>3, <1>5, ConcatProperties
    <2>. QED BY <1>3, <1>5, <2>1
  <1>8. /\ (a \o b) \o h \in Seq(Symbols) /\ Len((a \o b) \o h) = d
        /\ \A k \in 1..d : ((a \o b) \o h)[k]
                             = IF k <= c + 3 THEN (a \o b)[k] ELSE h[k - (c + 3)]
    <2>. DEFINE f == a \o b
    <2>1. f \in Seq(Symbols) /\ Len(f) = c + 3 /\ (c + 3) + (d - c - 3) = d
      BY <1>1, <1>7
    <2>. HIDE DEF f
    <2>2. /\ f \o h \in Seq(Symbols) /\ Len(f \o h) = Len(f) + Len(h)
          /\ \A k \in 1 .. Len(f) + Len(h) :
               (f \o h)[k] = IF k <= Len(f) THEN f[k] ELSE h[k - Len(f)]
      BY <1>4, <2>1, ConcatProperties
    <2>3. Len(f) + Len(h) = d
      BY <1>4, <2>1
    <2>4. \A k \in 1..d : (f \o h)[k] = IF k <= c + 3 THEN f[k] ELSE h[k - (c + 3)]
      BY <2>1, <2>2, <2>3
    <2>. QED BY <2>2, <2>3, <2>4 DEF f
  <1>9. ASSUME NEW k \in 1..d PROVE ((a \o b) \o h)[k] = s[k]
    <2>1. CASE k <= c
      <3>1. k \in 1..c /\ k \in 1..c + 3 /\ k <= c + 3
        BY <1>1, <2>1
      <3>. QED BY <1>3, <1>7, <1>8, <2>1, <3>1
    <2>2. CASE k = c + 1 \/ k = c + 2 \/ k = c + 3
      <3>1. k \in 1..c + 3 /\ k <= c + 3 /\ ~(k <= c) /\ k - c \in 1..3
        BY <1>1, <2>2
      <3>2. ((a \o b) \o h)[k] = b[k - c]
        BY <1>7, <1>8, <3>1
      <3>3. \/ k = c + 1 /\ k - c = 1
            \/ k = c + 2 /\ k - c = 2
            \/ k = c + 3 /\ k - c = 3
        BY <1>1, <2>2
      <3>. QED BY <1>2, <1>5, <3>2, <3>3
    <2>3. CASE k > c + 3
      <3>1. k - (c + 3) \in 1..d - c - 3 /\ c + 3 + (k - (c + 3)) = k
            /\ ~(k <= c + 3)
        BY <1>1, <2>3
      <3>2. ((a \o b) \o h)[k] = h[k - (c + 3)]
        BY <1>8, <3>1
      <3>3. h[k - (c + 3)] = s[c + 3 + (k - (c + 3))]
        BY <1>4, <3>1
      <3>. QED BY <3>1, <3>2, <3>3
    <2>4. k <= c \/ k = c + 1 \/ k = c + 2 \/ k = c + 3 \/ k > c + 3
      BY <1>1
    <2>. QED BY <2>1, <2>2, <2>3, <2>4
  <1>10. IsPrefix((a \o b) \o h, s)
    <2>. DEFINE f == (a \o b) \o h
                g == SubSeq(s, 1, d)
    <2>1. 1 \in Nat \ {0} /\ d \in 1 - 1..Len(s)
      BY <1>1
    <2>2. /\ g \in Seq(Symbols) /\ Len(g) = d - 1 + 1
          /\ \A k \in 1 .. d - 1 + 1 : g[k] = s[1 + k - 1]
      BY <2>1, PieceFacts
    <2>3. Len(g) = d /\ \A k \in 1..d : g[k] = s[k]
      BY <1>1, <2>2
    <2>. HIDE DEF f, g
    <2>4. f \in Seq(Symbols) /\ Len(f) = d /\ \A k \in 1..d : f[k] = s[k]
      BY <1>8, <1>9 DEF f
    <2>5. f = g
      BY <2>2, <2>3, <2>4, SeqEqual
    <2>6. SubSeq(f, 1, Len(f)) = f
      BY <2>4, SubSeqFull
    <2>. QED BY <1>1, <2>4, <2>5, <2>6 DEF IsPrefix, f, g
  <1>11. ":" \notin ToSet(a)
    <2>1. DOMAIN a = 1..c
      BY <1>3, LenProperties
    <2>2. ASSUME NEW k \in 1..c PROVE a[k] # ":"
      <3>1. k - 1 \in 0..c - 1 /\ k - 1 \in 0..Len(s) - 1 /\ (k - 1) + 1 = k
        BY <1>1
      <3>2. At(s, k - 1) # ":"
        BY <3>1, ColonFacts DEF c
      <3>. QED BY <1>3, <3>1, <3>2, AtFacts
    <2>. QED BY <2>1, <2>2 DEF ToSet
  <1>. QED BY <1>6, <1>8, <1>9, <1>10, <1>11 DEF a, d

(***************************************************************************)
(* What is accepted is its parts (parse, parse_schema, parse_host): none   *)
(* loses a symbol to another, whatever the text.                           *)
(***************************************************************************)
THEOREM PartsHold == UrlSpec => []PartsCompose
  <1>1. ASSUME ParseInv PROVE PartsCompose
    <2>. SUFFICES ASSUME pc = "accepted" PROVE PartsCompose
      BY DEF PartsCompose
    <2>. DEFINE rest == SubSeq(str, End(str) + 1, Len(str))
    <2>1. str \in Seq(Symbols) /\ Passed
      BY <1>1 DEF ParseInv
    <2>2. /\ IsPrefix(FrontOf(str), str) /\ Len(FrontOf(str)) = End(str)
          /\ ":" \notin ToSet(SchemaOf(str))
      BY <2>1, FrontFacts DEF Passed
    <2>3. m_schema \o <<":", "/", "/">> \o m_host = FrontOf(str)
      BY <2>1 DEF Passed, FrontOf
    <2>4. /\ Len(str) \in Nat /\ Colon(str) \in Nat
          /\ End(str) \in Colon(str) + 3..Len(str)
          /\ At(str, End(str)) \in {EOS, ":", "/"}
      BY <2>1, ColonFacts, EndFacts, LenProperties DEF Passed
    <2>5. \/ At(str, End(str)) = EOS /\ rest = <<>>
          \/ /\ rest # <<>> /\ rest[1] = At(str, End(str))
             /\ At(str, End(str)) # EOS
      <3>1. CASE End(str) = Len(str)
        <4>1. rest = <<>>
          BY <2>4, <3>1, SubSeqEmpty
        <4>. QED BY <2>1, <3>1, <4>1, AtFacts
      <3>2. CASE End(str) < Len(str)
        <4>. DEFINE d == End(str)
        <4>1. d + 1 \in Nat \ {0} /\ Len(str) \in (d + 1) - 1..Len(str)
              /\ 1 \in 1 .. Len(str) - (d + 1) + 1 /\ (d + 1) + 1 - 1 = d + 1
          BY <2>4, <3>2
        <4>. HIDE DEF d
        <4>2. /\ SubSeq(str, d + 1, Len(str)) \in Seq(Symbols)
              /\ Len(SubSeq(str, d + 1, Len(str))) = Len(str) - (d + 1) + 1
              /\ \A k \in 1 .. Len(str) - (d + 1) + 1 :
                   SubSeq(str, d + 1, Len(str))[k] = str[(d + 1) + k - 1]
          BY <2>1, <4>1, PieceFacts
        <4>3. rest # <<>> /\ rest[1] = str[d + 1]
          BY <4>1, <4>2, EmptyIs DEF d
        <4>4. End(str) \in 0..Len(str) - 1
          BY <2>4, <3>2
        <4>. QED BY <2>1, <4>3, <4>4, AtFacts, SymbolFacts DEF d
      <3>. QED BY <2>4, <3>1, <3>2
    <2>6. m_port = -1 \/ HasPort(str)
      BY <1>1 DEF ParseInv
    <2>7. HasPort(str) => At(str, End(str)) = ":" /\ At(str, End(str)) # EOS
      BY SymbolFacts DEF HasPort
    <2>. HIDE DEF rest
    <2>8. \/ m_port = -1 /\ (rest = <<>> \/ rest[1] = "/")
          \/ rest # <<>> /\ rest[1] = ":"
      <3>1. CASE HasPort(str)
        BY <2>5, <2>7, <3>1
      <3>2. CASE ~HasPort(str)
        <4>1. At(str, End(str)) \in {EOS, "/"} /\ m_port = -1
          BY <2>4, <2>6, <3>2 DEF HasPort
        <4>. QED BY <2>5, <4>1
      <3>. QED BY <3>1, <3>2
    <2>9. m_schema = SchemaOf(str)
      BY <2>1 DEF Passed
    <2>. QED BY <2>2, <2>3, <2>8, <2>9 DEF PartsCompose, rest
  <1>. QED BY <1>1, ParseInvHolds, PTL

-----------------------------------------------------------------------------
(***************************************************************************)
(* Digits: the longest piece of digits a text begins with.                 *)
(***************************************************************************)
LEMMA DigitsFacts ==
    ASSUME NEW t \in Seq(Symbols)
    PROVE  \E m \in 0..Len(t) :
              /\ Digits(t) = SubSeq(t, 1, m) /\ Len(Digits(t)) = m
              /\ \A k \in 1..m : t[k] \in DOMAIN Digit
              /\ \A n \in 0..Len(t) :
                    (\A k \in 1..n : t[k] \in DOMAIN Digit) => m >= n
  <1>. DEFINE D == {n \in 0..Len(t) : \A k \in 1..n : t[k] \in DOMAIN Digit}
              m == Max(D)
  <1>1. Len(t) \in Nat /\ D \subseteq 0..Len(t) /\ 0 \in D
    BY LenProperties
  <1>2. m \in D /\ \A n \in D : m >= n
    BY <1>1, MaxFacts
  <1>3. Digits(t) = SubSeq(t, 1, m)
    BY DEF Digits
  <1>. HIDE DEF m
  <1>4. m \in 1 - 1..Len(t) /\ m \in Nat /\ 1 \in Nat \ {0}
    BY <1>1, <1>2
  <1>5. Len(SubSeq(t, 1, m)) = m - 1 + 1
    BY <1>4, PieceFacts
  <1>6. Len(Digits(t)) = m
    BY <1>3, <1>4, <1>5
  <1>. QED BY <1>2, <1>3, <1>6

LEMMA DigitFirst ==
    ASSUME NEW t \in Seq(Symbols), Digits(t) # <<>>
    PROVE  t # <<>> /\ t[1] \in DOMAIN Digit /\ Value(t) = Number(Digits(t))
  <1>1. PICK m \in 0..Len(t) :
           /\ Digits(t) = SubSeq(t, 1, m) /\ Len(Digits(t)) = m
           /\ \A k \in 1..m : t[k] \in DOMAIN Digit
    BY DigitsFacts
  <1>2. Len(t) \in Nat
    BY LenProperties
  <1>3. m # 0
    <2>1. SUFFICES ASSUME m = 0 PROVE FALSE
      OBVIOUS
    <2>2. SubSeq(t, 1, 0) = <<>>
      BY SubSeqEmpty
    <2>. QED BY <1>1, <2>1, <2>2
  <1>4. 1 \in 1..m /\ Len(t) # 0
    BY <1>2, <1>3
  <1>5. t[1] \in DOMAIN Digit /\ t # <<>>
    BY <1>1, <1>4, EmptyIs
  <1>6. Head(t) = t[1]
    BY <1>5
  <1>7. Head(t) # "-"
    BY <1>5, <1>6, SymbolFacts
  <1>. QED BY <1>5, <1>7 DEF Value

(***************************************************************************)
(* A text of the form AcceptsUrls is about: its schema has i symbols, and  *)
(* its host ends before offset j.                                          *)
(***************************************************************************)
IsUrl(s, i, j) ==
    /\ Plain(SubSeq(s, 1, i))
    /\ s[i + 1] = ":" /\ s[i + 2] = "/" /\ s[i + 3] = "/"
    /\ Plain(SubSeq(s, i + 4, j)) \/ Bracketed(SubSeq(s, i + 4, j))
    /\ FollowsHost(SubSeq(s, j + 1, Len(s)))

LEMMA PlainPiece ==
    ASSUME NEW s \in Seq(Symbols), NEW a \in Nat \ {0}, NEW b \in a - 1..Len(s),
           Plain(SubSeq(s, a, b))
    PROVE  a <= b /\ \A k \in a..b : s[k] \notin {":", "/", "[", "]"}
  <1>1. SubSeq(s, a, b) # <<>> /\ ToSet(SubSeq(s, a, b)) \cap {":", "/", "[", "]"} = {}
    BY DEF Plain
  <1>2. Len(SubSeq(s, a, b)) = b - a + 1 /\ SubSeq(s, a, b) \in Seq(Symbols)
        /\ Len(s) \in Nat
    BY PieceFacts, LenProperties
  <1>3. b - a + 1 # 0
    BY <1>1, <1>2, EmptyIs
  <1>4. a <= b
    BY <1>2, <1>3
  <1>5. \A k \in a..b : s[k] \in ToSet(SubSeq(s, a, b))
    BY InPiece
  <1>. QED BY <1>1, <1>4, <1>5

LEMMA BracketedPiece ==
    ASSUME NEW s \in Seq(Symbols), NEW a \in Nat \ {0}, NEW b \in a - 1..Len(s),
           Bracketed(SubSeq(s, a, b))
    PROVE  /\ a + 2 <= b /\ s[a] = "[" /\ s[b] = "]"
           /\ \A k \in a + 1..b - 1 : s[k] \notin {"[", "]", "/"}
  <1>. DEFINE h == SubSeq(s, a, b)
  <1>1. /\ h \in Seq(Symbols) /\ Len(h) = b - a + 1 /\ Len(s) \in Nat
        /\ \A k \in 1 .. b - a + 1 : h[k] = s[a + k - 1]
    BY PieceFacts, LenProperties
  <1>2. /\ Len(h) > 2 /\ h[1] = "[" /\ h[Len(h)] = "]"
        /\ ToSet(Front(Tail(h))) \cap {"[", "]", "/"} = {}
    BY DEF Bracketed, Last
  <1>. HIDE DEF h
  <1>3. a + 2 <= b
    BY <1>1, <1>2
  <1>4. s[a] = "[" /\ s[b] = "]"
    <2>1. /\ 1 \in 1 .. b - a + 1 /\ a + 1 - 1 = a
          /\ b - a + 1 \in 1 .. b - a + 1 /\ a + (b - a + 1) - 1 = b
      BY <1>1, <1>3
    <2>2. h[1] = s[a + 1 - 1] /\ h[b - a + 1] = s[a + (b - a + 1) - 1]
      BY <1>1, <2>1
    <2>. QED BY <1>1, <1>2, <2>1, <2>2
  <1>5. ASSUME NEW k \in a + 1..b - 1 PROVE s[k] \notin {"[", "]", "/"}
    <2>. DEFINE t == Tail(h)
    <2>1. h # <<>>
      BY <1>1, <1>2, EmptyIs
    <2>2. /\ t \in Seq(Symbols) /\ Len(t) = Len(h) - 1
          /\ \A n \in 1 .. Len(t) : t[n] = h[n + 1]
      BY <1>1, <2>1, HeadTailProperties
    <2>3. Len(t) = b - a
      BY <1>1, <2>2
    <2>. DEFINE n == k - a
    <2>4. /\ n \in 1..Len(t) - 1 /\ n \in 1..Len(t) /\ n + 1 \in 1 .. b - a + 1
          /\ a + (n + 1) - 1 = k
          /\ 1 \in Nat \ {0} /\ Len(t) - 1 \in 1 - 1..Len(t)
      BY <1>1, <1>3, <2>3
    <2>5. t[n] = s[k]
      BY <1>1, <2>2, <2>4
    <2>. HIDE DEF t, n
    <2>6. t[n] \in ToSet(SubSeq(t, 1, Len(t) - 1))
      BY <2>2, <2>4, InPiece
    <2>7. SubSeq(t, 1, Len(t) - 1) = Front(Tail(h))
      BY DEF Front, t
    <2>. QED BY <1>2, <2>5, <2>6, <2>7
  <1>. QED BY <1>3, <1>4, <1>5

LEMMA UrlSchema ==
    ASSUME NEW s \in Seq(Symbols), NEW i \in 0..Len(s) - 3, NEW j \in i + 3..Len(s),
           IsUrl(s, i, j)
    PROVE  i >= 1 /\ HasSchema(s) /\ Colon(s) = i /\ Slashes(s)
  <1>1. Len(s) \in Nat /\ 1 \in Nat \ {0} /\ i \in 1 - 1..Len(s)
    BY LenProperties
  <1>2. 1 <= i /\ \A k \in 1..i : s[k] \notin {":", "/", "[", "]"}
    BY <1>1, PlainPiece DEF IsUrl
  <1>3. ASSUME NEW n \in 0..i - 1 PROVE At(s, n) # ":"
    <2>1. n + 1 \in 1..i /\ n \in 0..Len(s) - 1
      BY <1>1
    <2>. QED BY <1>2, <2>1, AtFacts
  <1>4. At(s, i) = ":" /\ At(s, i + 1) = "/" /\ At(s, i + 2) = "/"
    <2>1. /\ i \in 0..Len(s) - 1 /\ i + 1 \in 0..Len(s) - 1 /\ i + 2 \in 0..Len(s) - 1
          /\ (i + 1) + 1 = i + 2 /\ (i + 2) + 1 = i + 3
      BY <1>1
    <2>. QED BY <2>1, AtFacts DEF IsUrl
  <1>5. i \in Colons(s) /\ Colons(s) \subseteq Nat
    BY <1>1, <1>4 DEF Colons
  <1>6. ASSUME NEW n \in Colons(s) PROVE i <= n
    BY <1>1, <1>3 DEF Colons
  <1>7. Colon(s) = i
    BY <1>5, <1>6, MinIs DEF Colon
  <1>8. 0 \notin Colons(s)
    BY <1>2, <1>6
  <1>. QED BY <1>2, <1>4, <1>5, <1>7, <1>8 DEF HasSchema, Slashes

LEMMA Depths ==
    ASSUME NEW s, NEW q, NEW n
    PROVE  /\ Brackets(s, q, n, "[") = {} /\ Brackets(s, q, n, "]") = {}
                => DepthOf(s, q, n) = 0
           /\ \A x, y : Brackets(s, q, n, "[") = {x} /\ Brackets(s, q, n, "]") = {y}
                => DepthOf(s, q, n) = 0
           /\ \A x : Brackets(s, q, n, "[") = {x} /\ Brackets(s, q, n, "]") = {}
                => DepthOf(s, q, n) = 1
  <1>. DEFINE u == Cardinality(Brackets(s, q, n, "["))
              v == Cardinality(Brackets(s, q, n, "]"))
  <1>1. Cardinality({}) = 0 /\ \A x : Cardinality({x}) = 1
    BY FS_EmptySet, FS_Singleton
  <1>2. /\ Brackets(s, q, n, "[") = {} => u = 0
        /\ Brackets(s, q, n, "]") = {} => v = 0
        /\ \A x : Brackets(s, q, n, "[") = {x} => u = 1
        /\ \A x : Brackets(s, q, n, "]") = {x} => v = 1
    BY <1>1, Zenon
  <1>3. DepthOf(s, q, n) = u - v
    BY DEF DepthOf
  <1>. HIDE DEF u, v
  <1>. QED BY <1>2, <1>3

LEMMA UrlEnd ==
    ASSUME NEW s \in Seq(Symbols), NEW i \in 0..Len(s) - 3, NEW j \in i + 3..Len(s),
           IsUrl(s, i, j)
    PROVE  End(s) = j
  <1>. DEFINE q == i + 1
  <1>1. /\ Len(s) \in Nat /\ i \in Nat /\ j \in Nat
        /\ i + 4 \in Nat \ {0} /\ j \in (i + 4) - 1..Len(s)
        /\ q + 2 = i + 3
    BY LenProperties
  <1>2. \A n \in i + 3..j - 1 : At(s, n) = s[n + 1] /\ At(s, n) # EOS
                                /\ n + 1 \in i + 4..j
    <2>. TAKE n \in i + 3..j - 1
    <2>1. n \in 0..Len(s) - 1 /\ n + 1 \in i + 4..j
      BY <1>1
    <2>. QED BY <2>1, AtFacts, SymbolFacts
  <1>3. At(s, j) \in {EOS, ":", "/"}
    <2>. DEFINE rest == SubSeq(s, j + 1, Len(s))
    <2>1. CASE j = Len(s)
      BY <2>1, AtFacts
    <2>2. CASE j < Len(s)
      <3>1. /\ j + 1 \in Nat \ {0} /\ Len(s) \in (j + 1) - 1..Len(s)
            /\ 1 \in 1 .. Len(s) - (j + 1) + 1 /\ (j + 1) + 1 - 1 = j + 1
        BY <1>1, <2>2
      <3>2. /\ rest \in Seq(Symbols) /\ Len(rest) = Len(s) - (j + 1) + 1
            /\ rest[1] = s[(j + 1) + 1 - 1]
        BY <3>1, PieceFacts
      <3>. HIDE DEF rest
      <3>3. rest # <<>> /\ rest[1] = At(s, j)
        BY <2>2, <3>1, <3>2, EmptyIs DEF At
      <3>4. rest[1] \in {":", "/"}
        BY <3>3 DEF IsUrl, FollowsHost, rest
      <3>. QED BY <3>3, <3>4
    <2>. QED BY <1>1, <2>1, <2>2
  <1>4. /\ \A n \in i + 3..j - 1 : ~EndsHost(s, q, n)
        /\ DepthOf(s, q, j) = 0
    <2>1. CASE Plain(SubSeq(s, i + 4, j))
      <3>1. \A k \in i + 4..j : s[k] \notin {":", "/", "[", "]"}
        BY <1>1, <2>1, PlainPiece
      <3>2. \A n \in i + 3..j - 1 : At(s, n) \notin {EOS, ":", "/", "[", "]"}
        BY <1>2, <3>1
      <3>3. Brackets(s, q, j, "[") = {} /\ Brackets(s, q, j, "]") = {}
        BY <1>1, <3>2 DEF Brackets
      <3>4. DepthOf(s, q, j) = 0
        BY <3>3, Depths
      <3>. QED BY <3>2, <3>4 DEF EndsHost
    <2>2. CASE Bracketed(SubSeq(s, i + 4, j))
      <3>1. /\ i + 6 <= j /\ s[i + 4] = "[" /\ s[j] = "]"
            /\ \A k \in i + 5..j - 1 : s[k] \notin {"[", "]", "/"}
        <4>1. /\ (i + 4) + 2 <= j /\ s[i + 4] = "[" /\ s[j] = "]"
              /\ \A k \in (i + 4) + 1..j - 1 : s[k] \notin {"[", "]", "/"}
          BY <1>1, <2>2, BracketedPiece
        <4>2. (i + 4) + 2 = i + 6 /\ (i + 4) + 1 = i + 5
          BY <1>1
        <4>. QED BY <4>1, <4>2
      <3>2. At(s, i + 3) = "[" /\ At(s, j - 1) = "]"
        <4>1. /\ i + 3 \in i + 3..j - 1 /\ (i + 3) + 1 = i + 4
              /\ j - 1 \in i + 3..j - 1 /\ (j - 1) + 1 = j
          BY <1>1, <3>1
        <4>. QED BY <1>2, <3>1, <4>1
      <3>3. \A n \in i + 4..j - 2 : At(s, n) \notin {EOS, "[", "]", "/"}
        <4>. TAKE n \in i + 4..j - 2
        <4>1. n \in i + 3..j - 1 /\ n + 1 \in i + 5..j - 1
          BY <1>1
        <4>. QED BY <1>2, <3>1, <4>1
      <3>4. Brackets(s, q, j, "[") = {i + 3}
        <4>1. \A n \in Brackets(s, q, j, "[") : n = i + 3
          BY <1>1, <3>2, <3>3 DEF Brackets
        <4>2. i + 3 \in Brackets(s, q, j, "[")
          BY <1>1, <3>1, <3>2 DEF Brackets
        <4>. QED BY <4>1, <4>2
      <3>5. Brackets(s, q, j, "]") = {j - 1}
        <4>1. \A n \in Brackets(s, q, j, "]") : n = j - 1
          BY <1>1, <3>2, <3>3 DEF Brackets
        <4>2. j - 1 \in Brackets(s, q, j, "]")
          BY <1>1, <3>1, <3>2 DEF Brackets
        <4>. QED BY <4>1, <4>2
      <3>6. DepthOf(s, q, j) = 0
        BY <3>4, <3>5, Depths
      <3>7. ASSUME NEW n \in i + 4..j - 2 PROVE DepthOf(s, q, n) = 1
        <4>1. Brackets(s, q, n, "[") = {i + 3}
          <5>1. \A m \in Brackets(s, q, n, "[") : m = i + 3
            BY <1>1, <3>3 DEF Brackets
          <5>2. i + 3 \in Brackets(s, q, n, "[")
            BY <1>1, <3>2 DEF Brackets
          <5>. QED BY <5>1, <5>2
        <4>2. Brackets(s, q, n, "]") = {}
          BY <1>1, <3>2, <3>3 DEF Brackets
        <4>. QED BY <4>1, <4>2, Depths
      <3>8. ASSUME NEW n \in i + 3..j - 1 PROVE ~EndsHost(s, q, n)
        <4>1. n = i + 3 \/ n = j - 1 \/ n \in i + 4..j - 2
          BY <1>1
        <4>2. EOS # "[" /\ EOS # "]"
          BY SymbolFacts
        <4>3. CASE n \in i + 4..j - 2
          <5>1. DepthOf(s, q, n) # 0 /\ At(s, n) # EOS
            BY <3>3, <3>7, <4>3
          <5>. QED BY <5>1 DEF EndsHost
        <4>4. CASE n = i + 3 \/ n = j - 1
          BY <3>2, <4>2, <4>4 DEF EndsHost
        <4>. QED BY <4>1, <4>3, <4>4
      <3>. QED BY <3>6, <3>8
    <2>. QED BY <2>1, <2>2 DEF IsUrl
  <1>5. EndsHost(s, q, j)
    BY <1>3, <1>4 DEF EndsHost
  <1>6. j \in Ends(s, q) /\ Ends(s, q) \subseteq Nat
    BY <1>1, <1>5 DEF Ends
  <1>7. ASSUME NEW n \in Ends(s, q) PROVE j <= n
    BY <1>1, <1>4 DEF Ends
  <1>8. Min(Ends(s, q)) = j
    BY <1>6, <1>7, MinIs
  <1>. QED BY <1>8, UrlSchema DEF End

LEMMA UrlPort ==
    ASSUME NEW s \in Seq(Symbols), NEW i \in 0..Len(s) - 3, NEW j \in i + 3..Len(s),
           IsUrl(s, i, j)
    PROVE  LET rest == SubSeq(s, j + 1, Len(s)) IN
           /\ HasPort(s) => ~PortFails(s) /\ Value(PortText(s)) = PortOf(rest)
           /\ ~HasPort(s) => PortOf(rest) = -1
  <1>. DEFINE rest == SubSeq(s, j + 1, Len(s))
              t == SubSeq(s, j + 2, Len(s))
  <1>1. Len(s) \in Nat /\ j \in Nat /\ End(s) = j
    BY LenProperties, UrlEnd
  <1>2. CASE j = Len(s)
    <2>1. rest = <<>>
      BY <1>1, <1>2, SubSeqEmpty
    <2>2. ~HasPort(s)
      BY <1>1, <1>2, AtFacts, SymbolFacts DEF HasPort
    <2>. QED BY <2>1, <2>2 DEF PortOf
  <1>3. CASE j < Len(s)
    <2>1. /\ j + 1 \in Nat \ {0} /\ Len(s) \in (j + 1) - 1..Len(s)
          /\ 1 \in 1 .. Len(s) - (j + 1) + 1 /\ (j + 1) + 1 - 1 = j + 1
          /\ j + 1 \in 1..Len(s) /\ Len(s) \in j + 1..Len(s) /\ (j + 1) + 1 = j + 2
          /\ j + 2 \in Nat \ {0} /\ Len(s) \in (j + 2) - 1..Len(s)
          /\ Len(s) - (j + 1) + 1 # 0
      BY <1>1, <1>3
    <2>2. /\ rest \in Seq(Symbols) /\ Len(rest) = Len(s) - (j + 1) + 1
          /\ rest[1] = s[(j + 1) + 1 - 1]
      BY <2>1, PieceFacts
    <2>3. Tail(rest) = SubSeq(s, (j + 1) + 1, Len(s))
      BY <2>1, HeadTailOfSubSeq
    <2>4. Tail(rest) = t /\ t \in Seq(Symbols) /\ PortText(s) = t
      BY <1>1, <2>1, <2>3, PieceFacts DEF PortText
    <2>5. rest # <<>> /\ rest[1] = At(s, j)
      <3>. HIDE DEF rest
      <3>. QED BY <1>3, <2>1, <2>2, EmptyIs DEF At
    <2>6. ~HasPort(s) => PortOf(rest) = -1
      BY <1>1, <2>5 DEF HasPort, PortOf
    <2>7. ASSUME HasPort(s)
          PROVE  ~PortFails(s) /\ Value(PortText(s)) = PortOf(rest)
      <3>1. rest[1] = ":"
        BY <1>1, <2>5, <2>7 DEF HasPort
      <3>2. Digits(t) # <<>>
        <4>. HIDE DEF rest, t
        <4>1. FollowsHost(rest)
          BY DEF IsUrl, rest
        <4>. QED BY <2>4, <2>5, <3>1, <4>1 DEF FollowsHost
      <3>. HIDE DEF t
      <3>3. t # <<>> /\ t[1] \in DOMAIN Digit /\ Value(t) = Number(Digits(t))
        BY <2>4, <3>2, DigitFirst
      <3>4. PortOf(rest) = Number(Digits(t))
        BY <2>4, <2>5, <3>1 DEF PortOf
      <3>5. Len(t) = Len(s) - (j + 2) + 1
            /\ \A k \in 1 .. Len(s) - (j + 2) + 1 : t[k] = s[(j + 2) + k - 1]
        BY <2>1, PieceFacts DEF t
      <3>6. Len(t) \in Nat /\ Len(t) # 0
        BY <2>4, <3>3, EmptyIs, LenProperties
      <3>7. /\ 1 \in 1 .. Len(s) - (j + 2) + 1 /\ (j + 2) + 1 - 1 = (j + 1) + 1
            /\ j + 1 \in 0..Len(s) - 1
        <4>1. Len(s) - (j + 2) + 1 \in Nat /\ Len(s) - (j + 2) + 1 # 0
          BY <3>5, <3>6
        <4>. QED BY <1>1, <4>1
      <3>8. At(s, j + 1) = t[1]
        BY <3>5, <3>7, AtFacts
      <3>9. ~PortFails(s)
        BY <1>1, <3>3, <3>8, SymbolFacts DEF PortFails
      <3>. QED BY <2>4, <3>3, <3>4, <3>9
    <2>. QED BY <2>6, <2>7
  <1>. QED BY <1>1, <1>2, <1>3

(***************************************************************************)
(* What parse() makes of such a text.                                      *)
(***************************************************************************)
LEMMA UrlAccepted ==
    ASSUME ParseInv, pc \in {"accepted", "refused"},
           NEW i \in 0..Len(str) - 3, NEW j \in i + 3..Len(str), IsUrl(str, i, j),
           PortOf(SubSeq(str, j + 1, Len(str))) \in Ints
    PROVE  /\ pc = "accepted" /\ ~e
           /\ m_schema = SubSeq(str, 1, i) /\ m_host = SubSeq(str, i + 4, j)
           /\ m_port = PortOf(SubSeq(str, j + 1, Len(str)))
  <1>. DEFINE rest == SubSeq(str, j + 1, Len(str))
  <1>1. str \in Seq(Symbols)
    BY DEF ParseInv
  <1>2. HasSchema(str) /\ Colon(str) = i /\ Slashes(str) /\ End(str) = j
    BY <1>1, UrlSchema, UrlEnd
  <1>3. /\ HasPort(str) => ~PortFails(str) /\ Value(PortText(str)) = PortOf(rest)
        /\ ~HasPort(str) => PortOf(rest) = -1
    BY <1>1, UrlPort
  <1>. HIDE DEF rest
  <1>4. pc = "accepted" /\ ~e /\ Passed
    BY <1>2, <1>3 DEF ParseInv
  <1>5. m_schema = SubSeq(str, 1, i) /\ m_host = SubSeq(str, i + 4, j)
    BY <1>2, <1>4 DEF Passed, SchemaOf, HostOf
  <1>6. m_port = PortOf(rest)
    <2>1. HasPort(str) => atoi(PortText(str)) = {PortOf(rest)}
      BY <1>3 DEF atoi, rest
    <2>. QED BY <1>3, <1>4, <2>1 DEF ParseInv
  <1>. QED BY <1>4, <1>5, <1>6 DEF rest

(***************************************************************************)
(* A text that is a URL is accepted, with its parts (parse and its steps), *)
(* whatever stands between a host's brackets and however long the path.    *)
(***************************************************************************)
THEOREM AcceptsHold == UrlSpec => []AcceptsUrls
  <1>1. ASSUME ParseInv PROVE AcceptsUrls
    <2>. SUFFICES ASSUME pc \in {"accepted", "refused"},
                         NEW i \in 0..Len(str) - 3, NEW j \in i + 3..Len(str),
                         Plain(Piece(0, i)), Piece(i, 3) = <<":", "/", "/">>,
                         \/ Plain(SubSeq(str, i + 4, j))
                         \/ Bracketed(SubSeq(str, i + 4, j)),
                         FollowsHost(SubSeq(str, j + 1, Len(str))),
                         PortOf(SubSeq(str, j + 1, Len(str))) \in Ints
                  PROVE  /\ pc = "accepted" /\ ~e
                         /\ m_schema = Piece(0, i) /\ m_host = SubSeq(str, i + 4, j)
                         /\ m_port = PortOf(SubSeq(str, j + 1, Len(str)))
      BY DEF AcceptsUrls
    <2>1. /\ str \in Seq(Symbols) /\ Len(str) \in Nat
          /\ i + 1 \in Nat \ {0} /\ i + 3 \in (i + 1) - 1..Len(str)
          /\ 0 + 1 = 1 /\ 0 + i = i
          /\ 1 \in 1 .. (i + 3) - (i + 1) + 1 /\ (i + 1) + 1 - 1 = i + 1
          /\ 2 \in 1 .. (i + 3) - (i + 1) + 1 /\ (i + 1) + 2 - 1 = i + 2
          /\ 3 \in 1 .. (i + 3) - (i + 1) + 1 /\ (i + 1) + 3 - 1 = i + 3
      <3>1. str \in Seq(Symbols)
        BY <1>1 DEF ParseInv
      <3>2. Len(str) \in Nat
        BY <3>1, LenProperties
      <3>. QED BY <3>1, <3>2
    <2>2. Piece(0, i) = SubSeq(str, 1, i)
      BY <2>1 DEF Piece
    <2>3. str[i + 1] = ":" /\ str[i + 2] = "/" /\ str[i + 3] = "/"
      <3>. DEFINE u == SubSeq(str, i + 1, i + 3)
      <3>1. u[1] = str[i + 1] /\ u[2] = str[i + 2] /\ u[3] = str[i + 3]
        <4>1. \A k \in 1 .. (i + 3) - (i + 1) + 1 : u[k] = str[(i + 1) + k - 1]
          BY <2>1, PieceFacts
        <4>. HIDE DEF u
        <4>2. /\ u[1] = str[(i + 1) + 1 - 1] /\ u[2] = str[(i + 1) + 2 - 1]
              /\ u[3] = str[(i + 1) + 3 - 1]
          BY <2>1, <4>1
        <4>. QED BY <2>1, <4>2
      <3>2. u = <<":", "/", "/">>
        BY DEF Piece
      <3>. HIDE DEF u
      <3>. QED BY <3>1, <3>2
    <2>4. IsUrl(str, i, j)
      BY <2>2, <2>3 DEF IsUrl
    <2>. QED BY <1>1, <2>2, <2>4, UrlAccepted
  <1>. QED BY <1>1, ParseInvHolds, PTL

-----------------------------------------------------------------------------
(***************************************************************************)
(* Pieces of a text that is composed.                                      *)
(***************************************************************************)
LEMMA Joined ==
    ASSUME NEW a \in Seq(Symbols), NEW b \in Seq(Symbols)
    PROVE  a \o b \in Seq(Symbols) /\ Len(a \o b) = Len(a) + Len(b)
  BY ConcatProperties

LEMMA MiddleOf ==
    ASSUME NEW a \in Seq(Symbols), NEW b \in Seq(Symbols), NEW c \in Seq(Symbols)
    PROVE  /\ SubSeq(a \o b \o c, Len(a) + 1, Len(a) + Len(b)) = b
           /\ Len(a \o b \o c) = Len(a) + Len(b) + Len(c)
           /\ a \o b \o c \in Seq(Symbols)
  <1>. DEFINE f == a \o b
              g == f \o c
              m == Len(a)
              n == Len(b)
  <1>1. m \in Nat /\ n \in Nat /\ Len(c) \in Nat
    BY LenProperties
  <1>2. /\ f \in Seq(Symbols) /\ Len(f) = Len(a) + Len(b)
        /\ \A k \in 1 .. Len(a) + Len(b) :
             f[k] = IF k <= Len(a) THEN a[k] ELSE b[k - Len(a)]
    BY ConcatProperties
  <1>. HIDE DEF f
  <1>3. /\ g \in Seq(Symbols) /\ Len(g) = Len(f) + Len(c)
        /\ \A k \in 1 .. Len(f) + Len(c) :
             g[k] = IF k <= Len(f) THEN f[k] ELSE c[k - Len(f)]
    <2>1. f \in Seq(Symbols)
      BY <1>2
    <2>. HIDE DEF m, n
    <2>. QED BY <2>1, ConcatProperties
  <1>. HIDE DEF g
  <1>4. Len(f) = m + n /\ Len(g) = m + n + Len(c)
    BY <1>2, <1>3
  <1>. DEFINE h == SubSeq(g, m + 1, m + n)
  <1>5. m + 1 \in Nat \ {0} /\ m + n \in (m + 1) - 1..Len(g)
        /\ (m + n) - (m + 1) + 1 = n
    BY <1>1, <1>4
  <1>6. /\ h \in Seq(Symbols) /\ Len(h) = (m + n) - (m + 1) + 1
        /\ \A k \in 1 .. (m + n) - (m + 1) + 1 : h[k] = g[(m + 1) + k - 1]
    BY <1>3, <1>5, PieceFacts
  <1>. HIDE DEF h
  <1>7. ASSUME NEW k \in 1..n PROVE h[k] = b[k]
    <2>1. h[k] = g[(m + 1) + k - 1]
      BY <1>5, <1>6
    <2>2. /\ (m + 1) + k - 1 = m + k /\ m + k \in 1 .. Len(f) + Len(c)
          /\ m + k <= Len(f) /\ m + k \in 1 .. Len(a) + Len(b)
          /\ ~(m + k <= Len(a)) /\ (m + k) - Len(a) = k
      BY <1>1, <1>4
    <2>. HIDE DEF m
    <2>3. g[m + k] = f[m + k]
      BY <1>3, <2>2
    <2>4. f[m + k] = b[(m + k) - Len(a)]
      BY <1>2, <2>2
    <2>. QED BY <2>1, <2>2, <2>3, <2>4
  <1>8. Len(h) = Len(b)
    BY <1>5, <1>6
  <1>9. h = b
    <2>1. \A k \in 1 .. Len(h) : h[k] = b[k]
      BY <1>7, <1>8
    <2>. QED BY <1>6, <1>8, <2>1, SeqEqual
  <1>. QED BY <1>3, <1>4, <1>9 DEF f, g, h

LEMMA DigitsOnly ==
    ASSUME NEW t \in Seq(DOMAIN Digit)
    PROVE  Digits(t) = t
  <1>1. t \in Seq(Symbols) /\ Len(t) \in Nat
    BY SeqMonotonic, LenProperties DEF Symbols
  <1>2. PICK m \in 0..Len(t) :
           /\ Digits(t) = SubSeq(t, 1, m)
           /\ \A n \in 0..Len(t) :
                 (\A k \in 1..n : t[k] \in DOMAIN Digit) => m >= n
    BY <1>1, DigitsFacts
  <1>3. \A k \in 1..Len(t) : t[k] \in DOMAIN Digit
    BY ElementOfSeq
  <1>4. m = Len(t)
    BY <1>1, <1>2, <1>3
  <1>. QED BY <1>1, <1>2, <1>4, SubSeqFull

LEMMA EndsOf ==
    ASSUME NEW t \in Seq(Symbols), t # <<>>
    PROVE  /\ Head(t) = t[1] /\ t[1] \in ToSet(t) /\ Last(t) \in ToSet(t)
           /\ Len(t) \in Nat /\ Len(t) >= 1
  <1>1. Len(t) \in Nat /\ Len(t) # 0 /\ DOMAIN t = 1..Len(t)
    BY LenProperties, EmptyIs
  <1>. QED BY <1>1 DEF ToSet, Last

(***************************************************************************)
(* A host in brackets: define_string gives it no others.                   *)
(***************************************************************************)
InBrackets(h) == <<"[">> \o h \o <<"]">>

LEMMA BracketFacts ==
    ASSUME NEW h \in Seq(Symbols), h # <<>>, ToSet(h) \cap {"[", "]", "/"} = {}
    PROVE  /\ InBrackets(h) \in Seq(Symbols) /\ InBrackets(h) # <<>>
           /\ Bracketed(InBrackets(h)) /\ ~NeedBrackets(InBrackets(h))
  <1>. DEFINE g == InBrackets(h)
              l == Len(h)
              f == <<"[">> \o h
  <1>1. l \in Nat /\ l >= 1
    BY EndsOf
  <1>2. /\ <<"[">> \in Seq(Symbols) /\ <<"]">> \in Seq(Symbols)
        /\ Len(<<"[">>) = 1 /\ Len(<<"]">>) = 1
    BY SomeSymbols
  <1>3. g \in Seq(Symbols) /\ Len(g) = l + 2 /\ SubSeq(g, 2, l + 1) = h
    <2>1. /\ SubSeq(g, Len(<<"[">>) + 1, Len(<<"[">>) + Len(h)) = h
          /\ Len(g) = Len(<<"[">>) + Len(h) + Len(<<"]">>)
          /\ g \in Seq(Symbols)
      BY <1>2, MiddleOf DEF InBrackets
    <2>2. Len(<<"[">>) + 1 = 2 /\ Len(<<"[">>) + Len(h) = l + 1
          /\ Len(<<"[">>) + Len(h) + Len(<<"]">>) = l + 2
      BY <1>1, <1>2
    <2>. QED BY <2>1, <2>2
  <1>4. g[1] = "[" /\ g[l + 2] = "]"
    <2>1. /\ f \in Seq(Symbols) /\ Len(f) = Len(<<"[">>) + Len(h)
          /\ \A k \in 1 .. Len(<<"[">>) + Len(h) :
               f[k] = IF k <= Len(<<"[">>) THEN <<"[">>[k] ELSE h[k - Len(<<"[">>)]
      BY <1>2, ConcatProperties
    <2>2. Len(f) = l + 1 /\ f[1] = "["
      BY <1>1, <1>2, <2>1
    <2>. HIDE DEF f
    <2>3. \A k \in 1 .. Len(f) + Len(<<"]">>) :
            (f \o <<"]">>)[k] = IF k <= Len(f) THEN f[k] ELSE <<"]">>[k - Len(f)]
      BY <1>2, <2>1, ConcatProperties
    <2>4. g = f \o <<"]">>
      BY DEF f, InBrackets
    <2>. QED BY <1>1, <1>2, <2>2, <2>3, <2>4
  <1>. HIDE DEF g
  <1>5. g # <<>> /\ Len(g) > 2 /\ Head(g) = "[" /\ Last(g) = "]"
    <2>1. g # <<>>
      BY <1>1, <1>3, EmptyIs
    <2>. QED BY <1>1, <1>3, <1>4, <2>1, EndsOf DEF Last
  <1>6. Front(Tail(g)) = h
    <2>. DEFINE t == Tail(g)
    <2>1. 1 \in 1..Len(g) /\ Len(g) \in 1..Len(g) /\ 1 + 1 = 2 /\ Len(g) = l + 2
          /\ 2 \in 1..Len(g)
      BY <1>1, <1>3
    <2>2. t = SubSeq(g, 2, l + 2)
      <3>1. Tail(SubSeq(g, 1, Len(g))) = SubSeq(g, 1 + 1, Len(g))
        BY <1>3, <2>1, HeadTailOfSubSeq
      <3>2. SubSeq(g, 1, Len(g)) = g
        BY <1>3, SubSeqFull
      <3>. QED BY <2>1, <3>1, <3>2
    <2>3. /\ t \in Seq(Symbols) /\ Len(t) = l + 1
          /\ \A k \in 1..l + 1 : t[k] = g[k + 1]
      <3>1. /\ t \in Seq(Symbols) /\ Len(t) = Len(g) - 1
            /\ \A k \in 1..Len(t) : t[k] = g[k + 1]
        BY <1>3, <1>5, HeadTailProperties
      <3>2. Len(t) = l + 1
        BY <1>1, <1>3, <3>1
      <3>. QED BY <3>1, <3>2
    <2>. HIDE DEF t
    <2>4. /\ 1 \in Nat \ {0} /\ l \in 1 - 1..Len(t) /\ l - 1 + 1 = l
          /\ 2 \in Nat \ {0} /\ l + 1 \in 2 - 1..Len(g) /\ l + 1 - 2 + 1 = l
      BY <1>1, <1>3, <2>3
    <2>5. /\ SubSeq(t, 1, l) \in Seq(Symbols) /\ Len(SubSeq(t, 1, l)) = l - 1 + 1
          /\ \A k \in 1 .. l - 1 + 1 : SubSeq(t, 1, l)[k] = t[1 + k - 1]
      <3>. HIDE DEF l
      <3>. QED BY <2>3, <2>4, PieceFacts
    <2>6. \A k \in 1 .. l + 1 - 2 + 1 : SubSeq(g, 2, l + 1)[k] = g[2 + k - 1]
      <3>. HIDE DEF l
      <3>. QED BY <1>3, <2>4, PieceFacts
    <2>7. ASSUME NEW k \in 1..l PROVE SubSeq(t, 1, l)[k] = h[k]
      <3>1. /\ k \in 1 .. l - 1 + 1 /\ 1 + k - 1 = k /\ k \in 1..l + 1
            /\ k \in 1 .. l + 1 - 2 + 1 /\ 2 + k - 1 = k + 1
        BY <1>1
      <3>2. SubSeq(t, 1, l)[k] = t[k] /\ t[k] = g[k + 1]
        BY <2>3, <2>5, <3>1
      <3>3. h[k] = g[k + 1]
        BY <1>3, <2>6, <3>1
      <3>. QED BY <3>2, <3>3
    <2>8. SubSeq(t, 1, l) = h
      <3>1. Len(SubSeq(t, 1, l)) = l
        BY <2>4, <2>5
      <3>. DEFINE u == SubSeq(t, 1, l)
      <3>2. \A k \in 1..Len(u) : u[k] = h[k]
        BY <2>7, <3>1
      <3>3. u \in Seq(Symbols) /\ Len(u) = Len(h)
        BY <2>5, <3>1
      <3>. HIDE DEF u
      <3>4. u = h
        BY <3>2, <3>3, SeqEqual
      <3>. QED BY <3>4 DEF u
    <2>9. Len(t) - 1 = l
      BY <1>1, <2>3
    <2>. QED BY <2>8, <2>9 DEF Front, t
  <1>7. Bracketed(g)
    BY <1>4, <1>5, <1>6 DEF Bracketed
  <1>8. ~NeedBrackets(g)
    BY <1>5 DEF NeedBrackets
  <1>. QED BY <1>3, <1>5, <1>7, <1>8 DEF g

(***************************************************************************)
(* The text of a host and of a port, as define_string writes them.         *)
(***************************************************************************)
HostGiven(h) == IF ":" \in ToSet(h) THEN InBrackets(h) ELSE h
PortGiven(n) == IF n >= 0 THEN <<":">> \o Decimal(n) ELSE <<>>

LEMMA HostComposed ==
    ASSUME NEW h \in Seq(Symbols), h # <<>>, ToSet(h) \cap {"[", "]", "/"} = {}
    PROVE  /\ HostGiven(h) \in Seq(Symbols) /\ HostGiven(h) # <<>>
           /\ Plain(HostGiven(h)) \/ Bracketed(HostGiven(h))
           /\ ~NeedBrackets(HostGiven(h))
           /\ NeedBrackets(h) <=> ":" \in ToSet(h)
  <1>1. Head(h) \in ToSet(h) /\ Last(h) \in ToSet(h)
    BY EndsOf
  <1>2. NeedBrackets(h) <=> ":" \in ToSet(h)
    BY <1>1 DEF NeedBrackets
  <1>3. CASE ":" \in ToSet(h)
    BY <1>2, <1>3, BracketFacts DEF HostGiven
  <1>4. CASE ":" \notin ToSet(h)
    BY <1>2, <1>4 DEF HostGiven, Plain
  <1>. QED BY <1>3, <1>4

LEMMA PortComposed ==
    ASSUME NEW p \in Parts
    PROVE  /\ PortGiven(p[3]) \in Seq(Symbols)
           /\ FollowsHost(PortGiven(p[3])) /\ PortOf(PortGiven(p[3])) = p[3]
  <1>. DEFINE d == PortGiven(p[3])
              v == Decimal(p[3])
  <1>1. p[3] \in Nat \cup {-1}
    BY UrlAssumption
  <1>2. CASE p[3] >= 0
    <2>1. /\ v \in Seq(DOMAIN Digit) /\ v # <<>> /\ Number(v) = p[3]
          /\ v \in Seq(Symbols)
      BY <1>2, DecimalFacts, SeqMonotonic DEF Symbols
    <2>2. <<":">> \in Seq(Symbols) /\ Len(<<":">>) = 1 /\ d = <<":">> \o v
          /\ Len(v) \in Nat
      BY <1>2, <2>1, SomeSymbols, LenProperties DEF PortGiven
    <2>. HIDE DEF d, v
    <2>3. /\ d \in Seq(Symbols) /\ Len(d) = Len(<<":">>) + Len(v)
          /\ \A k \in 1 .. Len(<<":">>) + Len(v) :
               d[k] = IF k <= Len(<<":">>) THEN <<":">>[k] ELSE v[k - Len(<<":">>)]
      BY <2>1, <2>2, ConcatProperties
    <2>4. Len(d) = Len(v) + 1 /\ d[1] = ":" /\ d # <<>>
      <3>1. Len(d) = Len(v) + 1 /\ d[1] = ":"
        BY <2>2, <2>3
      <3>2. Len(d) # 0
        BY <2>2, <3>1
      <3>. QED BY <2>3, <3>1, <3>2, EmptyIs
    <2>5. Tail(d) = v
      <3>. DEFINE t == Tail(d)
      <3>1. /\ t \in Seq(Symbols) /\ Len(t) = Len(d) - 1
            /\ \A k \in 1..Len(t) : t[k] = d[k + 1]
        BY <2>3, <2>4, HeadTailProperties
      <3>. HIDE DEF t
      <3>2. Len(t) = Len(v)
        BY <2>2, <2>4, <3>1
      <3>3. ASSUME NEW k \in 1..Len(t) PROVE t[k] = v[k]
        <4>1. /\ k + 1 \in 1 .. Len(<<":">>) + Len(v) /\ ~(k + 1 <= Len(<<":">>))
              /\ (k + 1) - Len(<<":">>) = k
          BY <2>2, <3>2
        <4>2. d[k + 1] = v[(k + 1) - Len(<<":">>)]
          BY <2>3, <4>1
        <4>. QED BY <3>1, <4>1, <4>2
      <3>4. t = v
        BY <2>1, <3>1, <3>2, <3>3, SeqEqual
      <3>. QED BY <3>4 DEF t
    <2>6. Digits(v) = v
      BY <2>1, DigitsOnly
    <2>7. SubSeq(d, Len(v) + 2, Len(d)) = <<>>
      BY <2>2, <2>4, SubSeqEmpty
    <2>8. FollowsHost(d)
      BY <2>1, <2>4, <2>5, <2>6, <2>7 DEF FollowsHost
    <2>9. PortOf(d) = p[3]
      BY <2>1, <2>4, <2>5, <2>6 DEF PortOf
    <2>. QED BY <2>3, <2>8, <2>9 DEF d
  <1>3. CASE ~(p[3] >= 0)
    <2>1. d = <<>> /\ p[3] = -1
      BY <1>1, <1>3 DEF PortGiven
    <2>. QED BY <2>1, SomeSymbols DEF FollowsHost, PortOf
  <1>. QED BY <1>2, <1>3

LEMMA ComposedUrl ==
    ASSUME NEW p \in Parts, Plain(p[1]), p[2] # <<>>,
           ToSet(p[2]) \cap {"[", "]", "/"} = {}
    PROVE  LET s == define_string(p[1], p[2], p[3])
               h == HostGiven(p[2])
               i == Len(p[1])
               j == i + 3 + Len(h) IN
           /\ i \in 0..Len(s) - 3 /\ j \in i + 3..Len(s) /\ IsUrl(s, i, j)
           /\ SubSeq(s, 1, i) = p[1] /\ SubSeq(s, i + 4, j) = h
           /\ PortOf(SubSeq(s, j + 1, Len(s))) = p[3]
           /\ define_string(p[1], h, p[3]) = s
  <1>. DEFINE s == define_string(p[1], p[2], p[3])
              a == p[1]
              b == <<":">> \o <<"/", "/">>
              h == HostGiven(p[2])
              d == PortGiven(p[3])
              i == Len(a)
              j == i + 3 + Len(h)
              n == Len(d)
              ab == a \o b
              abh == ab \o h
  <1>1. a \in Seq(Symbols) /\ p[2] \in Seq(Symbols) /\ a # <<>>
    BY UrlAssumption DEF Plain
  <1>2. /\ h \in Seq(Symbols) /\ h # <<>> /\ (Plain(h) \/ Bracketed(h))
        /\ ~NeedBrackets(h) /\ (NeedBrackets(p[2]) <=> ":" \in ToSet(p[2]))
    BY <1>1, HostComposed
  <1>3. d \in Seq(Symbols) /\ FollowsHost(d) /\ PortOf(d) = p[3]
    BY PortComposed
  <1>4. /\ <<":">> \in Seq(Symbols) /\ <<"/", "/">> \in Seq(Symbols)
        /\ b \in Seq(Symbols) /\ Len(b) = 3
        /\ b[1] = ":" /\ b[2] = "/" /\ b[3] = "/"
    <2>1. /\ <<":">> \in Seq(Symbols) /\ <<"/", "/">> \in Seq(Symbols)
      BY SomeSymbols
    <2>2. /\ b \in Seq(Symbols) /\ Len(b) = Len(<<":">>) + Len(<<"/", "/">>)
          /\ \A k \in 1 .. Len(<<":">>) + Len(<<"/", "/">>) :
               b[k] = IF k <= Len(<<":">>) THEN <<":">>[k]
                      ELSE <<"/", "/">>[k - Len(<<":">>)]
      BY <2>1, ConcatProperties
    <2>3. Len(<<":">>) = 1 /\ Len(<<"/", "/">>) = 2
      OBVIOUS
    <2>4. /\ 1 \in 1..3 /\ 2 \in 1..3 /\ 3 \in 1..3 /\ 1 + 2 = 3
          /\ 1 <= 1 /\ ~(2 <= 1) /\ ~(3 <= 1) /\ 2 - 1 = 1 /\ 3 - 1 = 2
      OBVIOUS
    <2>. HIDE DEF b
    <2>5. b[1] = <<":">>[1] /\ b[2] = <<"/", "/">>[1] /\ b[3] = <<"/", "/">>[2]
      BY <2>2, <2>3, <2>4
    <2>. QED BY <2>1, <2>2, <2>3, <2>5
  <1>5. s = abh \o d /\ define_string(a, h, p[3]) = s
    <2>1. a \o <<":">> \o <<"/", "/">> = ab
      BY <1>1, <1>4, ConcatAssociative
    <2>2. (IF NeedBrackets(p[2]) THEN <<"[">> \o p[2] \o <<"]">> ELSE p[2]) = h
      BY <1>2 DEF HostGiven, InBrackets
    <2>3. s = a \o <<":">> \o <<"/", "/">> \o h \o d
      BY <1>1, <2>2 DEF define_string, PortGiven
    <2>4. define_string(a, h, p[3]) = a \o <<":">> \o <<"/", "/">> \o h \o d
      <3>. HIDE DEF h, a
      <3>. QED BY <1>1, <1>2 DEF define_string, PortGiven
    <2>. QED BY <2>1, <2>3, <2>4
  <1>. HIDE DEF a, b, d, h, s
  <1>6. ab \in Seq(Symbols) /\ abh \in Seq(Symbols) /\ h \o d \in Seq(Symbols)
        /\ b \o (h \o d) \in Seq(Symbols) /\ <<>> \in Seq(Symbols)
        /\ Len(ab) = i + 3 /\ Len(abh) = j
    <2>1. /\ ab \in Seq(Symbols) /\ Len(ab) = Len(a) + Len(b)
          /\ h \o d \in Seq(Symbols)
      BY <1>1, <1>2, <1>3, <1>4, Joined
    <2>. HIDE DEF ab
    <2>2. abh \in Seq(Symbols) /\ Len(abh) = Len(ab) + Len(h)
      BY <1>2, <2>1, Joined
    <2>. HIDE DEF abh
    <2>3. b \o (h \o d) \in Seq(Symbols)
      <3>. DEFINE hd == h \o d
      <3>1. hd \in Seq(Symbols)
        BY <2>1
      <3>. HIDE DEF hd
      <3>2. b \o hd \in Seq(Symbols)
        BY <1>4, <3>1, Joined
      <3>. QED BY <3>2 DEF hd
    <2>. QED BY <1>4, <2>1, <2>2, <2>3, SomeSymbols
  <1>7. s = ab \o (h \o d) /\ s = a \o (b \o (h \o d)) /\ s \in Seq(Symbols)
    <2>1. abh \o d = ab \o (h \o d)
      <3>1. ab \in Seq(Symbols)
        BY <1>6
      <3>. HIDE DEF ab
      <3>. QED BY <1>2, <1>3, <3>1, ConcatAssociative
    <2>2. ab \o (h \o d) = a \o (b \o (h \o d))
      <3>. DEFINE hd == h \o d
      <3>1. hd \in Seq(Symbols)
        BY <1>6
      <3>. HIDE DEF hd
      <3>2. (a \o b) \o hd = a \o (b \o hd)
        BY <1>1, <1>4, <3>1, ConcatAssociative
      <3>. QED BY <3>2 DEF hd
    <2>3. abh \o d \in Seq(Symbols)
      BY <1>3, <1>6, ConcatProperties
    <2>. QED BY <1>5, <2>1, <2>2, <2>3
  <1>8. /\ i \in Nat /\ Len(h) \in Nat /\ n \in Nat /\ j \in Nat
        /\ Len(s) = j + n
    <2>1. i \in Nat /\ Len(h) \in Nat /\ n \in Nat
      BY <1>1, <1>2, <1>3, LenProperties
    <2>2. Len(abh \o d) = Len(abh) + Len(d)
      BY <1>3, <1>6, ConcatProperties
    <2>. QED BY <1>5, <1>6, <2>1, <2>2
  <1>9. SubSeq(s, 1, i) = a
    <2>1. SubSeq(<<>> \o a \o (b \o (h \o d)), Len(<<>>) + 1, Len(<<>>) + Len(a)) = a
      BY <1>1, <1>6, MiddleOf
    <2>2. <<>> \o a = a /\ Len(<<>>) = 0
      BY <1>1, ConcatEmptySeq
    <2>3. Len(<<>>) + 1 = 1 /\ Len(<<>>) + Len(a) = i
      BY <1>8, <2>2
    <2>. QED BY <1>7, <2>1, <2>2, <2>3
  <1>10. SubSeq(s, i + 1, i + 3) = b
    <2>1. SubSeq(a \o b \o (h \o d), Len(a) + 1, Len(a) + Len(b)) = b
      BY <1>1, <1>4, <1>6, MiddleOf
    <2>. QED BY <1>4, <1>7, <2>1
  <1>11. SubSeq(s, i + 4, j) = h
    <2>. HIDE DEF ab
    <2>1. SubSeq(ab \o h \o d, Len(ab) + 1, Len(ab) + Len(h)) = h
      BY <1>2, <1>3, <1>6, MiddleOf
    <2>2. Len(ab) + 1 = i + 4 /\ Len(ab) + Len(h) = j
      BY <1>6, <1>8
    <2>. QED BY <1>5, <2>1, <2>2
  <1>12. SubSeq(s, j + 1, Len(s)) = d
    <2>. HIDE DEF abh
    <2>1. SubSeq(abh \o d \o <<>>, Len(abh) + 1, Len(abh) + Len(d)) = d
      BY <1>3, <1>6, MiddleOf
    <2>2. abh \o d \o <<>> = s
      BY <1>5, <1>7, ConcatEmptySeq
    <2>. QED BY <1>6, <1>8, <2>1, <2>2
  <1>13. s[i + 1] = ":" /\ s[i + 2] = "/" /\ s[i + 3] = "/"
    <2>1. /\ i + 1 \in Nat \ {0} /\ i + 3 \in (i + 1) - 1..Len(s)
          /\ 1 \in 1 .. (i + 3) - (i + 1) + 1 /\ (i + 1) + 1 - 1 = i + 1
          /\ 2 \in 1 .. (i + 3) - (i + 1) + 1 /\ (i + 1) + 2 - 1 = i + 2
          /\ 3 \in 1 .. (i + 3) - (i + 1) + 1 /\ (i + 1) + 3 - 1 = i + 3
      BY <1>8
    <2>. HIDE DEF i
    <2>2. \A k \in 1 .. (i + 3) - (i + 1) + 1 :
            SubSeq(s, i + 1, i + 3)[k] = s[(i + 1) + k - 1]
      <3>1. s \in Seq(Symbols)
        BY <1>7
      <3>. QED BY <2>1, <3>1, PieceFacts
    <2>3. \A k \in 1 .. (i + 3) - (i + 1) + 1 : b[k] = s[(i + 1) + k - 1]
      BY <1>10, <2>2
    <2>. QED BY <1>4, <2>1, <2>3
  <1>14. i \in 0..Len(s) - 3 /\ j \in i + 3..Len(s)
    BY <1>8
  <1>15. IsUrl(s, i, j)
    <2>1. Plain(a)
      BY DEF a
    <2>. HIDE DEF i, j
    <2>. QED BY <1>2, <1>3, <1>9, <1>11, <1>12, <1>13, <2>1 DEF IsUrl
  <1>. QED BY <1>3, <1>5, <1>9, <1>11, <1>12, <1>14, <1>15 DEF a, h, s

(***************************************************************************)
(* The text that define_string makes of parts parses into these parts, for *)
(* every schema, host and port, and makes the same text again.             *)
(***************************************************************************)
THEOREM RoundTripHolds == UrlSpec => []RoundTrip
  <1>1. ASSUME ParseInv PROVE RoundTrip
    <2>. DEFINE h == HostGiven(given[2])
                i == Len(given[1])
                j == i + 3 + Len(h)
    <2>1. SUFFICES ASSUME pc \in {"accepted", "refused"}, given # <<>>,
                          Plain(given[1]), given[2] # <<>>,
                          ToSet(given[2]) \cap {"[", "]", "/"} = {}
                   PROVE  /\ pc = "accepted" /\ ~e
                          /\ m_schema = given[1] /\ m_port = given[3]
                          /\ m_host = h
                          /\ define_string(m_schema, m_host, m_port) = m_string
      BY DEF RoundTrip, HostGiven, InBrackets
    <2>2. given \in Parts /\ str = define_string(given[1], given[2], given[3])
      BY <1>1, <2>1 DEF ParseInv
    <2>3. /\ i \in 0..Len(str) - 3 /\ j \in i + 3..Len(str) /\ IsUrl(str, i, j)
          /\ SubSeq(str, 1, i) = given[1] /\ SubSeq(str, i + 4, j) = h
          /\ PortOf(SubSeq(str, j + 1, Len(str))) = given[3]
          /\ define_string(given[1], h, given[3]) = str
      BY <2>1, <2>2, ComposedUrl
    <2>. HIDE DEF h, i, j
    <2>6. given[3] \in Ints
      BY <2>2, UrlAssumption DEF Ints
    <2>4. /\ pc = "accepted" /\ ~e /\ m_schema = given[1] /\ m_host = h
          /\ m_port = given[3]
      BY <1>1, <2>1, <2>3, <2>6, UrlAccepted
    <2>5. m_string = str
      BY <1>1, <2>4 DEF ParseInv
    <2>. QED BY <2>3, <2>4, <2>5
  <1>. QED BY <1>1, ParseInvHolds, PTL

=============================================================================
