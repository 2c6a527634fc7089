---------------------------- MODULE Matop_proofs ----------------------------
(***************************************************************************)
(* For matrices of every size over every field: a row that has served as   *)
(* a pivot keeps its unit column to the end of reduced_row_echelon, and    *)
(* the equations keep their solutions.                                     *)
(***************************************************************************)
EXTENDS Matop, TLAPS

(***************************************************************************)
(* PivotColumns is not inductive: that dividing row r keeps it needs that  *)
(* r has not served yet, and that a switch keeps it that both rows come    *)
(* after those that have.                                                  *)
(***************************************************************************)
Progress ==
    /\ pc \in {"divide", "clear"} => r <= Rows
    /\ pc = "divide" => m[r][r] # Zero
    /\ pc = "clear" => r \in pivots
    /\ \A k \in pivots : k <= r /\ (pc \in {"pivot", "divide"} => k < r)

PivotInv == TypeOK /\ PivotColumns /\ Progress

-----------------------------------------------------------------------------
(***************************************************************************)
(* The row operations give a matrix, and what they leave at each place.    *)
(***************************************************************************)
LEMMA SwitchFacts ==
    ASSUME NEW a \in Matrices, NEW r1 \in R, NEW r2 \in R
    PROVE  /\ row_switch(a, r1, r2) \in Matrices
           /\ \A c \in C : row_switch(a, r1, r2)[r1][c] = a[r2][c]
           /\ \A i \in R, c \in C : i # r1 /\ i # r2 =>
                  row_switch(a, r1, r2)[i][c] = a[i][c]
           /\ \A i \in R, c \in C :
                  row_switch(a, r1, r2)[i][c] \in {a[i][c], a[r1][c], a[r2][c]}
  BY DEF Matrices, row_switch

LEMMA DivideFacts ==
    ASSUME NEW a \in Matrices, NEW r1 \in R, NEW v \in F, v # Zero
    PROVE  /\ row_divide(a, r1, v) \in Matrices
           /\ \A c \in C : row_divide(a, r1, v)[r1][c] = Over(a[r1][c], v)
           /\ \A i \in R, c \in C : i # r1 =>
                  row_divide(a, r1, v)[i][c] = a[i][c]
  BY FieldAssumption DEF Matrices, row_divide

LEMMA AddFacts ==
    ASSUME NEW a \in Matrices, NEW r1 \in R, NEW r2 \in R, NEW v \in F
    PROVE  /\ row_multiply_add(a, r1, r2, v) \in Matrices
           /\ \A c \in C : row_multiply_add(a, r1, r2, v)[r1][c]
                             = Plus(Times(a[r2][c], v), a[r1][c])
           /\ \A i \in R, c \in C : i # r1 =>
                  row_multiply_add(a, r1, r2, v)[i][c] = a[i][c]
  BY FieldAssumption DEF Matrices, row_multiply_add

\* The diagonal is inside the matrix, as the assertion of the code has it.
LEMMA Diagonal == R \subseteq C
  BY SizeAssumption DEF R, C

-----------------------------------------------------------------------------
LEMMA PivotInit == Init => PivotInv
  BY SizeAssumption DEF Init, PivotInv, TypeOK, PivotColumns, Progress

(***************************************************************************)
(* The search for a pivot switches rows that have not served yet.          *)
(***************************************************************************)
LEMMA PivotStep == PivotInv /\ Pivot => PivotInv'
  <1>. SUFFICES ASSUME PivotInv, Pivot PROVE PivotInv'
    OBVIOUS
  <1>. USE Diagonal, SizeAssumption DEF PivotInv
  <1>1. r \in R /\ \A k \in pivots : k \in R /\ k < r
    BY DEF TypeOK, Progress, Pivot, R
  <1>2. m' \in Matrices /\ \A i \in R, k \in pivots : m'[i][k] = m[i][k]
    <2>1. CASE UNCHANGED m
      BY <2>1 DEF TypeOK
    <2>2. ASSUME NEW r1 \in Candidates, m' = row_switch(m, r, r1)
          PROVE  m' \in Matrices /\ \A i \in R, k \in pivots : m'[i][k] = m[i][k]
      <3>1. r1 \in R /\ r1 > r
        BY <1>1, <2>2 DEF Candidates, R
      <3>2. \A k \in pivots : m[r][k] = Zero /\ m[r1][k] = Zero
        BY <1>1, <3>1 DEF PivotColumns, TypeOK, R
      <3>3. m \in Matrices
        BY DEF TypeOK
      <3>4. /\ row_switch(m, r, r1) \in Matrices
            /\ \A i \in R, c \in C : i # r /\ i # r1 =>
                   row_switch(m, r, r1)[i][c] = m[i][c]
            /\ \A i \in R, c \in C :
                   row_switch(m, r, r1)[i][c] \in {m[i][c], m[r][c], m[r1][c]}
        BY <1>1, <3>1, <3>3, SwitchFacts
      <3>5. ASSUME NEW i \in R, NEW k \in pivots PROVE m'[i][k] = m[i][k]
        <4>1. k \in C
          BY <1>1
        <4>2. CASE i # r /\ i # r1
          BY <2>2, <3>4, <4>1, <4>2
        <4>3. CASE i = r \/ i = r1
          BY <1>1, <2>2, <3>1, <3>2, <3>4, <4>1, <4>3 DEF PivotColumns
        <4>. QED BY <4>2, <4>3
      <3>. QED BY <2>2, <3>4, <3>5
    <2>. QED BY <2>1, <2>2 DEF Pivot, Search
  <1>3. TypeOK'
    BY <1>1, <1>2 DEF TypeOK, Pivot, R
  <1>4. PivotColumns'
    BY <1>1, <1>2 DEF PivotColumns, Pivot
  <1>5. Progress'
    BY <1>1 DEF Progress, Pivot, TypeOK, R
  <1>. QED BY <1>3, <1>4, <1>5

LEMMA DivideStep == PivotInv /\ Divide => PivotInv'
  <1>. SUFFICES ASSUME PivotInv, Divide PROVE PivotInv'
    OBVIOUS
  <1>. USE Diagonal, SizeAssumption DEF PivotInv
  <1>1. /\ r \in R /\ r \in C /\ m \in Matrices
        /\ \A k \in pivots : k \in R /\ k \in C /\ k < r /\ k # r
    <2>1. r \in R /\ m \in Matrices /\ \A k \in pivots : k \in R /\ k < r
      BY DEF TypeOK, Progress, Divide, R
    <2>2. \A k \in pivots : k # r
      BY <2>1 DEF R
    <2>. QED BY <2>1, <2>2
  <1>2. m[r][r] \in F \ {Zero}
    BY <1>1 DEF Matrices, Progress, Divide
  <1>3. /\ m' \in Matrices
        /\ \A c \in C : m'[r][c] = Over(m[r][c], m[r][r])
        /\ \A i \in R, c \in C : i # r => m'[i][c] = m[i][c]
    BY <1>1, <1>2, DivideFacts DEF Divide
  <1>4. m'[r][r] = One
    BY <1>1, <1>2, <1>3, FieldAssumption
  <1>5. ASSUME NEW k \in pivots PROVE m'[r][k] = Zero
    <2>1. k \in C /\ k # r
      BY <1>1
    <2>2. m[r][k] = Zero
      BY <1>1, <2>1 DEF PivotColumns
    <2>3. Over(Zero, m[r][r]) = Zero
      BY <1>2, FieldAssumption
    <2>. QED BY <1>3, <2>1, <2>2, <2>3
  <1>6. TypeOK'
    BY <1>1, <1>3, SizeAssumption DEF TypeOK, Divide, R
  <1>7. PivotColumns'
    <2>. SUFFICES ASSUME NEW k \in pivots'
                  PROVE  /\ m'[k][k] = One
                         /\ \A i \in R \ {k} :
                              (k # r \/ i < 1) => m'[i][k] = Zero
      BY DEF PivotColumns, Divide
    <2>1. CASE k = r
      BY <1>4, <2>1 DEF R
    <2>2. CASE k \in pivots
      <3>1. k \in R /\ k \in C /\ k # r
        BY <1>1, <2>2
      <3>2. m[k][k] = One /\ \A i \in R \ {k} : m[i][k] = Zero
        BY <2>2, <3>1 DEF PivotColumns
      <3>3. m'[k][k] = One
        BY <1>3, <3>1, <3>2
      <3>4. ASSUME NEW i \in R \ {k} PROVE m'[i][k] = Zero
        BY <1>3, <1>5, <2>2, <3>1, <3>2
      <3>. QED BY <3>3, <3>4
    <2>. QED BY <2>1, <2>2 DEF Divide
  <1>8. Progress'
    BY <1>1 DEF Progress, Divide, TypeOK, R
  <1>. QED BY <1>6, <1>7, <1>8

(***************************************************************************)
(* Adding a multiple of row r clears its column in row n; where an earlier *)
(* pivot has its column, row r is zero and adds nothing.                   *)
(***************************************************************************)
LEMMA ClearStep == PivotInv /\ Clear => PivotInv'
  <1>. SUFFICES ASSUME PivotInv, Clear PROVE PivotInv'
    OBVIOUS
  <1>. USE Diagonal, SizeAssumption DEF PivotInv
  <1>1. /\ r \in R /\ n \in R /\ m \in Matrices /\ r \in pivots
        /\ \A k \in pivots : k \in R /\ k \in C
    <2>1. r \in R /\ n \in R /\ m \in Matrices /\ r \in pivots
      BY DEF TypeOK, Progress, Clear, R
    <2>2. \A k \in pivots : k \in R
      BY DEF TypeOK
    <2>. QED BY <2>1, <2>2
  <1>2. CASE n = r
    BY <1>1, <1>2 DEF TypeOK, PivotColumns, Progress, Clear, R
  <1>3. CASE n # r
    <2>. DEFINE v == Times(m[n][r], MinusOne)
    <2>1. m[n][r] \in F /\ v \in F
      BY <1>1, FieldAssumption DEF Matrices
    <2>2. /\ m' \in Matrices
          /\ \A c \in C : m'[n][c] = Plus(Times(m[r][c], v), m[n][c])
          /\ \A i \in R, c \in C : i # n => m'[i][c] = m[i][c]
      <3>1. m' = row_multiply_add(m, n, r, v)
        BY <1>3 DEF Clear
      <3>. HIDE DEF v
      <3>2. /\ row_multiply_add(m, n, r, v) \in Matrices
            /\ \A c \in C : row_multiply_add(m, n, r, v)[n][c]
                              = Plus(Times(m[r][c], v), m[n][c])
            /\ \A i \in R, c \in C : i # n =>
                   row_multiply_add(m, n, r, v)[i][c] = m[i][c]
        BY <1>1, <2>1, AddFacts
      <3>. QED BY <3>1, <3>2
    <2>3. m[r][r] = One /\ \A k \in pivots \ {r} : m[r][k] = Zero
      BY <1>1 DEF PivotColumns
    <2>4. m'[n][r] = Zero
      BY <1>1, <2>1, <2>2, <2>3, FieldAssumption
    <2>5. \A k \in pivots \ {r} : m'[n][k] = m[n][k]
      BY <1>1, <2>1, <2>2, <2>3, FieldAssumption DEF Matrices
    <2>6. PivotColumns'
      BY <1>1, <1>3, <2>2, <2>4, <2>5 DEF PivotColumns, Clear, R
    <2>. QED BY <1>1, <2>2, <2>6 DEF TypeOK, Progress, Clear, R
  <1>. QED BY <1>2, <1>3

LEMMA NextRowStep == PivotInv /\ NextRow => PivotInv'
  BY SizeAssumption DEF PivotInv, NextRow, TypeOK, PivotColumns, Progress, R

LEMMA ReturnStep == PivotInv /\ Return => PivotInv'
  BY DEF PivotInv, Return, TypeOK, PivotColumns, Progress

LEMMA PivotInvHolds == Spec => []PivotInv
  <1>1. ASSUME PivotInv, [Next]_vars PROVE PivotInv'
    <2>1. CASE UNCHANGED vars
      BY <1>1, <2>1 DEF vars, PivotInv, TypeOK, PivotColumns, Progress
    <2>. QED BY <1>1, <2>1, PivotStep, DivideStep, ClearStep, NextRowStep,
                ReturnStep DEF Next
  <1>. QED BY <1>1, PivotInit, PTL DEF Spec

(***************************************************************************)
(* No step leaves the matrix: every row operation is on rows it has, and   *)
(* both loops end at its last row.                                         *)
(***************************************************************************)
THEOREM TypeCorrect == Spec => []TypeOK
  BY PivotInvHolds, PTL DEF PivotInv

(***************************************************************************)
(* A pivot's column is unit from when it has been cleared to the end.      *)
(***************************************************************************)
THEOREM PivotsHold == Spec => []PivotColumns
  BY PivotInvHolds, PTL DEF PivotInv

-----------------------------------------------------------------------------
(***************************************************************************)
(* The equations.  Of a row only its sum with the unknowns matters.        *)
(***************************************************************************)
Side(row, x) == Sum([c \in C |-> Times(row[c], x[c])])

LEMMA SideType ==
    ASSUME NEW row \in [C -> F], NEW x \in [C -> F]
    PROVE  /\ [c \in C |-> Times(row[c], x[c])] \in [C -> F]
           /\ Side(row, x) \in F
  <1>1. [c \in C |-> Times(row[c], x[c])] \in [C -> F]
    BY FieldAssumption
  <1>. QED BY <1>1, SumAssumption DEF Side

\* A row that is divided has its side divided.
LEMMA DividedSide ==
    ASSUME NEW row \in [C -> F], NEW x \in [C -> F], NEW v \in F \ {Zero}
    PROVE  Side([c \in C |-> Over(row[c], v)], x) = Times(Side(row, x), Over(One, v))
  <1>. DEFINE w == Over(One, v)
              f == [c \in C |-> Times(row[c], x[c])]
  <1>1. w \in F /\ f \in [C -> F]
    BY SideType, FieldAssumption
  <1>2. ASSUME NEW c \in C
        PROVE  Times(Over(row[c], v), x[c]) = Times(f[c], w)
    <2>1. row[c] \in F /\ x[c] \in F /\ Over(row[c], v) = Times(row[c], w)
      BY ProductAssumption
    <2>. HIDE DEF w
    <2>2. Times(Times(row[c], w), x[c]) = Times(row[c], Times(w, x[c]))
      BY <1>1, <2>1, ProductAssumption
    <2>3. Times(w, x[c]) = Times(x[c], w)
      BY <1>1, <2>1, ProductAssumption
    <2>4. Times(row[c], Times(x[c], w)) = Times(Times(row[c], x[c]), w)
      BY <1>1, <2>1, ProductAssumption
    <2>. QED BY <2>1, <2>2, <2>3, <2>4
  <1>3. [c \in C |-> Times([d \in C |-> Over(row[d], v)][c], x[c])]
          = [c \in C |-> Times(f[c], w)]
    BY <1>2
  <1>. HIDE DEF f, w
  <1>4. Sum([c \in C |-> Times(f[c], w)]) = Times(Sum(f), w)
    BY <1>1, SumAssumption
  <1>. QED BY <1>3, <1>4 DEF Side, f, w

\* A multiple of a row that is added adds the multiple of its side.
LEMMA AddedSide ==
    ASSUME NEW row \in [C -> F], NEW add \in [C -> F], NEW x \in [C -> F],
           NEW v \in F
    PROVE  Side([c \in C |-> Plus(Times(add[c], v), row[c])], x)
             = Plus(Times(Side(add, x), v), Side(row, x))
  <1>. DEFINE f == [c \in C |-> Times(add[c], x[c])]
              g == [c \in C |-> Times(row[c], x[c])]
              h == [c \in C |-> Times(f[c], v)]
  <1>1. f \in [C -> F] /\ g \in [C -> F]
    BY SideType
  <1>2. h \in [C -> F]
    BY <1>1, FieldAssumption
  <1>3. ASSUME NEW c \in C
        PROVE  Times(Plus(Times(add[c], v), row[c]), x[c]) = Plus(h[c], g[c])
    <2>1. row[c] \in F /\ add[c] \in F /\ x[c] \in F /\ Times(add[c], v) \in F
      BY FieldAssumption
    <2>2. Times(Plus(Times(add[c], v), row[c]), x[c])
            = Plus(Times(Times(add[c], v), x[c]), Times(row[c], x[c]))
      BY <2>1, ProductAssumption
    <2>3. Times(Times(add[c], v), x[c]) = Times(add[c], Times(v, x[c]))
      BY <2>1, ProductAssumption
    <2>4. Times(v, x[c]) = Times(x[c], v)
      BY <2>1, ProductAssumption
    <2>5. Times(add[c], Times(x[c], v)) = Times(Times(add[c], x[c]), v)
      BY <2>1, ProductAssumption
    <2>. QED BY <2>2, <2>3, <2>4, <2>5
  <1>4. [c \in C |-> Times([d \in C |-> Plus(Times(add[d], v), row[d])][c], x[c])]
          = [c \in C |-> Plus(h[c], g[c])]
    BY <1>3
  <1>5. h = [c \in C |-> Times(f[c], v)]
    OBVIOUS
  <1>. HIDE DEF f, g, h
  <1>6. Sum([c \in C |-> Plus(h[c], g[c])]) = Plus(Sum(h), Sum(g))
    BY <1>1, <1>2, SumAssumption
  <1>7. Sum(h) = Times(Sum(f), v)
    BY <1>1, <1>5, SumAssumption
  <1>. QED BY <1>4, <1>6, <1>7 DEF Side, f, g

(***************************************************************************)
(* Each row operation keeps the solutions.                                 *)
(***************************************************************************)
LEMMA SolvesSides ==
    \A a, x : Solves(a, x) <=> \A i \in R : Side(a[i], x) = Zero
  BY DEF Solves, Side

LEMMA SwitchSolves ==
    ASSUME NEW a \in Matrices, NEW r1 \in R, NEW r2 \in R, NEW x
    PROVE  Solves(row_switch(a, r1, r2), x) <=> Solves(a, x)
  <1>. DEFINE b == row_switch(a, r1, r2)
  <1>1. /\ b[r1] = a[r2] /\ b[r2] = a[r1]
        /\ \A i \in R \ {r1, r2} : b[i] = a[i]
    BY DEF row_switch, Matrices
  <1>. HIDE DEF b
  <1>2. (\A i \in R : Side(b[i], x) = Zero) <=> (\A i \in R : Side(a[i], x) = Zero)
    BY <1>1
  <1>. QED BY <1>2, SolvesSides DEF b

LEMMA DivideSolves ==
    ASSUME NEW a \in Matrices, NEW r1 \in R, NEW v \in F \ {Zero},
           NEW x \in [C -> F]
    PROVE  Solves(row_divide(a, r1, v), x) <=> Solves(a, x)
  <1>. DEFINE b == row_divide(a, r1, v)
              w == Over(One, v)
              s == Side(a[r1], x)
  <1>1. /\ b[r1] = [c \in C |-> Over(a[r1][c], v)]
        /\ \A i \in R \ {r1} : b[i] = a[i]
    BY DEF row_divide, Matrices
  <1>2. a[r1] \in [C -> F]
    BY DEF Matrices
  <1>3. w \in F /\ s \in F /\ Side(b[r1], x) = Times(s, w)
    <2>1. w \in F
      BY FieldAssumption
    <2>. HIDE DEF b
    <2>2. Side([c \in C |-> Over(a[r1][c], v)], x) = Times(Side(a[r1], x), Over(One, v))
      BY <1>2, DividedSide
    <2>3. Side(a[r1], x) \in F
      BY <1>2, SideType
    <2>. QED BY <1>1, <2>1, <2>2, <2>3
  <1>. HIDE DEF b, s, w
  <1>4. Times(v, w) = One
    <2>1. Over(v, v) = Times(v, Over(One, v))
      BY ProductAssumption
    <2>. QED BY <2>1, FieldAssumption DEF w
  <1>5. Times(s, w) = Zero <=> s = Zero
    <2>1. s = Zero => Times(s, w) = Zero
      BY <1>3, FieldAssumption
    <2>2. s = Times(Times(s, w), v)
      <3>1. Times(Times(s, w), v) = Times(s, Times(w, v)) /\ Times(w, v) = Times(v, w)
        BY <1>3, ProductAssumption
      <3>2. Times(s, One) = s
        <4>1. Times(s, One) = Times(One, s)
          <5>1. One \in F
            BY FieldAssumption
          <5>. QED BY <1>3, <5>1, ProductAssumption
        <4>. QED BY <1>3, <4>1, FieldAssumption
      <3>. QED BY <1>4, <3>1, <3>2
    <2>3. Times(Zero, v) = Zero
      BY FieldAssumption
    <2>. QED BY <2>1, <2>2, <2>3
  <1>6. (\A i \in R : Side(b[i], x) = Zero) <=> (\A i \in R : Side(a[i], x) = Zero)
    BY <1>1, <1>3, <1>5 DEF s
  <1>. QED BY <1>6, SolvesSides DEF b

LEMMA AddSolves ==
    ASSUME NEW a \in Matrices, NEW r1 \in R, NEW r2 \in R \ {r1}, NEW v \in F,
           NEW x \in [C -> F]
    PROVE  Solves(row_multiply_add(a, r1, r2, v), x) <=> Solves(a, x)
  <1>. DEFINE b == row_multiply_add(a, r1, r2, v)
              s == Side(a[r1], x)
              t == Side(a[r2], x)
  <1>1. /\ b[r1] = [c \in C |-> Plus(Times(a[r2][c], v), a[r1][c])]
        /\ \A i \in R \ {r1} : b[i] = a[i]
    BY DEF row_multiply_add, Matrices
  <1>2. a[r1] \in [C -> F] /\ a[r2] \in [C -> F]
    BY DEF Matrices
  <1>3. s \in F /\ t \in F /\ Side(b[r1], x) = Plus(Times(t, v), s)
    <2>. HIDE DEF b
    <2>1. Side([c \in C |-> Plus(Times(a[r2][c], v), a[r1][c])], x)
            = Plus(Times(Side(a[r2], x), v), Side(a[r1], x))
      BY <1>2, AddedSide
    <2>2. Side(a[r1], x) \in F /\ Side(a[r2], x) \in F
      BY <1>2, SideType
    <2>. QED BY <1>1, <2>1, <2>2
  <1>4. t = Zero => Side(b[r1], x) = s
    BY <1>3, FieldAssumption
  <1>. HIDE DEF b
  <1>5. (\A i \in R : Side(b[i], x) = Zero) <=> (\A i \in R : Side(a[i], x) = Zero)
    BY <1>1, <1>4
  <1>. QED BY <1>5, SolvesSides DEF b

(***************************************************************************)
(* At every step the equations have the solutions of those of the matrix   *)
(* that was passed (reduced_row_echelon).                                  *)
(***************************************************************************)
THEOREM SolutionsHold == Spec => []SolutionsKept
  <1>1. Init => SolutionsKept
    BY DEF Init, SolutionsKept
  <1>2. ASSUME PivotInv, SolutionsKept, [Next]_vars PROVE SolutionsKept'
    <2>1. m \in Matrices
      BY <1>2 DEF PivotInv, TypeOK
    <2>2. ASSUME m0' = m0, \A x \in [C -> F] : Solves(m', x) <=> Solves(m, x)
          PROVE  SolutionsKept'
      <3>. SUFFICES ASSUME NEW x \in [C -> F]
                    PROVE  Solves(m', x) <=> Solves(m0', x)
        BY DEF SolutionsKept, Solves
      <3>. QED BY <1>2, <2>2 DEF SolutionsKept
    <2>3. CASE Pivot
      <3>1. CASE UNCHANGED m
        BY <2>2, <2>3, <3>1 DEF Pivot
      <3>2. ASSUME NEW r1 \in Candidates, m' = row_switch(m, r, r1)
            PROVE  SolutionsKept'
        <4>1. r \in R /\ r1 \in R
          BY <1>2, <2>3 DEF PivotInv, TypeOK, Candidates, Pivot, R
        <4>. QED BY <2>1, <2>2, <2>3, <3>2, <4>1, SwitchSolves DEF Pivot
      <3>. QED BY <2>3, <3>1, <3>2 DEF Pivot, Search
    <2>4. CASE Divide
      <3>1. r \in R
        BY <1>2, <2>4 DEF PivotInv, Progress, TypeOK, Divide, R
      <3>2. m[r][r] \in F \ {Zero}
        BY <1>2, <2>1, <2>4, <3>1, Diagonal
           DEF PivotInv, Progress, Divide, Matrices
      <3>. QED BY <2>1, <2>2, <2>4, <3>1, <3>2, DivideSolves DEF Divide
    <2>5. CASE Clear
      <3>1. r \in R /\ n \in R
        BY <1>2, <2>5 DEF PivotInv, Progress, TypeOK, Clear, R
      <3>2. CASE n = r
        BY <2>2, <2>5, <3>2 DEF Clear
      <3>3. CASE n # r
        <4>. DEFINE v == Times(m[n][r], MinusOne)
        <4>1. v \in F
          BY <2>1, <3>1, Diagonal, FieldAssumption DEF Matrices
        <4>2. m' = row_multiply_add(m, n, r, v) /\ m0' = m0
          BY <2>5, <3>3 DEF Clear
        <4>. HIDE DEF v
        <4>. QED BY <2>1, <2>2, <3>1, <3>3, <4>1, <4>2, AddSolves
      <3>. QED BY <3>2, <3>3
    <2>6. CASE NextRow \/ Return \/ UNCHANGED vars
      BY <2>2, <2>6 DEF NextRow, Return, vars
    <2>. QED BY <1>2, <2>3, <2>4, <2>5, <2>6 DEF Next
  <1>. QED BY <1>1, <1>2, PivotInvHolds, PTL DEF Spec

-----------------------------------------------------------------------------
(***************************************************************************)
(* A bound on the steps the loops of reduced_row_echelon still take.       *)
(***************************************************************************)
RowsLeft == Rows + 1 - r
PerRow   == Rows + 4

StepsLeft ==
    CASE pc = "pivot"  -> RowsLeft * PerRow + 1
      [] pc = "divide" -> RowsLeft * PerRow
      [] pc = "clear"  -> RowsLeft * PerRow - 1 - n
      [] OTHER         -> 0

CountsDown == StepsLeft' < StepsLeft

LEMMA RowSteps ==
    ASSUME NEW rows \in Nat, NEW k \in 1..rows
    PROVE  /\ (rows + 1 - k) * (rows + 4) \in Nat
           /\ (rows + 1 - k) * (rows + 4) >= rows + 4
           /\ (rows + 1 - (k + 1)) * (rows + 4)
                 = (rows + 1 - k) * (rows + 4) - (rows + 4)
  <1>. DEFINE j == rows - k
  <1>1. j \in Nat /\ rows + 1 - k = j + 1 /\ rows + 1 - (k + 1) = j
    OBVIOUS
  <1>. HIDE DEF j
  <1>2. j * (rows + 4) \in Nat
    BY <1>1
  <1>3. (j + 1) * (rows + 4) = j * (rows + 4) + (rows + 4)
    BY <1>1
  <1>. QED BY <1>1, <1>2, <1>3

(***************************************************************************)
(* The bound is a natural number and every step of the elimination lowers  *)
(* it, whatever the matrix: neither loop runs for ever.  That a step is    *)
(* taken is what Terminates adds, under the fairness of Spec.              *)
(***************************************************************************)
THEOREM LoopsEnd == Spec => [](StepsLeft \in Nat) /\ [][CountsDown]_vars
  <1>1. ASSUME PivotInv PROVE StepsLeft \in Nat
    <2>1. /\ Rows \in Nat /\ r \in 1..Rows + 1 /\ n \in 1..Rows + 1
          /\ pc \in {"divide", "clear"} => r \in 1..Rows
      BY <1>1, SizeAssumption DEF PivotInv, TypeOK, Progress
    <2>2. CASE r \in 1..Rows
      <3>1. RowsLeft * PerRow \in Nat /\ RowsLeft * PerRow >= Rows + 4
        BY <2>1, <2>2, RowSteps DEF RowsLeft, PerRow
      <3>. QED BY <2>1, <3>1 DEF StepsLeft
    <2>3. CASE r = Rows + 1
      <3>1. RowsLeft * PerRow = 0
        BY <2>1, <2>3 DEF RowsLeft, PerRow
      <3>2. pc \notin {"divide", "clear"}
        BY <2>1, <2>3
      <3>. QED BY <3>1, <3>2 DEF StepsLeft
    <2>. QED BY <2>1, <2>2, <2>3
  <1>2. ASSUME PivotInv, [Next]_vars PROVE [CountsDown]_vars
    <2>. SUFFICES ASSUME Next PROVE CountsDown
      BY <1>2
    <2>1. Rows \in Nat /\ n \in 1..Rows + 1
      BY <1>2, SizeAssumption DEF PivotInv, TypeOK
    <2>2. CASE Return
      <3>1. r = Rows + 1 /\ RowsLeft * PerRow = 0
        BY <1>2, <2>1, <2>2 DEF PivotInv, TypeOK, Return, RowsLeft, PerRow
      <3>. QED BY <2>2, <3>1 DEF Return, CountsDown, StepsLeft
    <2>3. CASE r \in 1..Rows
      <3>. DEFINE k == RowsLeft * PerRow
      <3>1. /\ k \in Nat /\ k >= Rows + 4
            /\ r' = r + 1 => RowsLeft' * PerRow' = k - (Rows + 4)
            /\ r' = r => RowsLeft' * PerRow' = k
        BY <2>1, <2>3, RowSteps DEF RowsLeft, PerRow
      <3>. HIDE DEF k
      <3>2. CASE Pivot
        BY <2>1, <3>1, <3>2 DEF Pivot, CountsDown, StepsLeft, k
      <3>3. CASE Divide
        BY <2>1, <3>1, <3>3 DEF Divide, CountsDown, StepsLeft, k
      <3>4. CASE Clear
        BY <2>1, <3>1, <3>4 DEF Clear, CountsDown, StepsLeft, k
      <3>5. CASE NextRow
        BY <2>1, <3>1, <3>5 DEF NextRow, CountsDown, StepsLeft, k
      <3>. QED BY <2>2, <3>2, <3>3, <3>4, <3>5 DEF Next
    <2>4. Next => Return \/ r \in 1..Rows
      BY <1>2, <2>1
         DEF PivotInv, TypeOK, Progress, Next, Pivot, Divide, Clear, NextRow
    <2>. QED BY <2>2, <2>3, <2>4
  <1>. QED BY <1>1, <1>2, PivotInvHolds, PTL DEF Spec

=============================================================================
