------------------------------- MODULE Matop -------------------------------
(***************************************************************************)
(* Matop of include/mars/matrix.h: the elementary row operations, and      *)
(* reduced_row_echelon as the loop it is, one action per row operation.    *)
(*                                                                         *)
(* Elements are those of any field: what the code does with double, but    *)
(* for rounding.  (With int, row_divide truncates and the result is not    *)
(* meant to be reduced.)                                                   *)
(***************************************************************************)
EXTENDS Naturals, Functions

CONSTANTS
    Rows, Cols,                    \* sizes of the matrix
    F, Zero, One,                  \* the elements
    Plus(_, _), Times(_, _),       \* operator+ and operator*
    Over(_, _),                    \* operator/
    MinusOne                       \* -1

R == 1..Rows
C == 1..Cols

(***************************************************************************)
(* reduced_row_echelon asserts that there are no more rows than columns.   *)
(***************************************************************************)
ASSUME SizeAssumption == Rows \in Nat /\ Cols \in Nat /\ Rows <= Cols

ASSUME FieldAssumption ==
    /\ {Zero, One, MinusOne} \subseteq F /\ Zero # One
    /\ \A x, y \in F : Plus(x, y) \in F /\ Times(x, y) \in F
    /\ \A x \in F : \A y \in F \ {Zero} : Over(x, y) \in F
    /\ \A x \in F : Plus(Zero, x) = x /\ Plus(Times(x, MinusOne), x) = Zero
    /\ \A x \in F : Times(Zero, x) = Zero /\ Times(One, x) = x
    /\ \A x \in F \ {Zero} : Over(x, x) = One /\ Over(Zero, x) = Zero

ASSUME ProductAssumption ==
    /\ \A x, y \in F : Times(x, y) = Times(y, x)
    /\ \A x, y, z \in F :
          /\ Times(Times(x, y), z) = Times(x, Times(y, z))
          /\ Times(Plus(x, y), z) = Plus(Times(x, z), Times(y, z))
    /\ \A x \in F, y \in F \ {Zero} : Over(x, y) = Times(x, Over(One, y))

Sum(row) == FoldFunction(Plus, Zero, row)

(***************************************************************************)
(* Sums are linear.  In a field they are, by induction over the columns.   *)
(***************************************************************************)
ASSUME SumAssumption ==
    \A f \in [C -> F] :
        /\ Sum(f) \in F
        /\ \A x \in F : Sum([c \in C |-> Times(f[c], x)]) = Times(Sum(f), x)
        /\ \A g \in [C -> F] :
              Sum([c \in C |-> Plus(f[c], g[c])]) = Plus(Sum(f), Sum(g))

Matrices == [R -> [C -> F]]

VARIABLES
    m,        \* the matrix, changed in place
    m0,       \* the matrix that was passed
    r,        \* the row the outer loop is at
    n,        \* the row the inner loop is at
    pc,       \* where the function is
    pivots    \* rows that were divided by their diagonal element

vars == <<m, m0, r, n, pc, pivots>>

TypeOK ==
    /\ m \in Matrices /\ m0 \in Matrices
    /\ r \in 1 .. Rows + 1 /\ n \in 1 .. Rows + 1
    /\ pc \in {"pivot", "divide", "clear", "done"}
    /\ pivots \in SUBSET R

-----------------------------------------------------------------------------
(***************************************************************************)
(* The row operations it uses.                                             *)
(***************************************************************************)
row_switch(a, r1, r2) == [a EXCEPT ![r1] = a[r2], ![r2] = a[r1]]

row_divide(a, r1, value) ==
    [a EXCEPT ![r1] = [c \in C |-> Over(a[r1][c], value)]]

\* Row r1 becomes the sum of r2 and its multiple: the operands the wrong way.
row_multiply_add_Swapped(a, r1, r2, value) ==
    [a EXCEPT ![r1] = [c \in C |-> Plus(Times(a[r1][c], value), a[r2][c])]]

row_multiply_add(a, r1, r2, value) ==
    [a EXCEPT ![r1] = [c \in C |-> Plus(Times(a[r2][c], value), a[r1][c])]]

-----------------------------------------------------------------------------
(***************************************************************************)
(* reduced_row_echelon.                                                    *)
(***************************************************************************)
Init ==
    /\ m \in Matrices
    /\ m0 = m
    /\ r = 1 /\ n = 1
    /\ pc = "pivot"
    /\ pivots = {}

(***************************************************************************)
(* Rows the search for a pivot may switch with row r.  The code tests the  *)
(* diagonal element of each row below, not its element in column r.        *)
(***************************************************************************)
Candidates == {r1 \in r + 1 .. Rows : m[r1][r1] # Zero}

(***************************************************************************)
(* The search: r is switched with the first candidate if its diagonal      *)
(* element is zero.                                                        *)
(***************************************************************************)
Search ==
    \/ /\ m[r][r] # Zero \/ Candidates = {}
       /\ UNCHANGED m
    \/ /\ m[r][r] = Zero
       /\ \E r1 \in Candidates :
             /\ \A r2 \in Candidates : r1 <= r2
             /\ m' = row_switch(m, r, r1)

Pivot ==
    /\ pc = "pivot"
    /\ r <= Rows
    /\ Search
    /\ \/ /\ m'[r][r] = Zero
          /\ r' = r + 1
          /\ UNCHANGED pc
       \/ /\ m'[r][r] # Zero
          /\ pc' = "divide"
          /\ UNCHANGED r
    /\ UNCHANGED <<m0, n, pivots>>

\* An inner loop that does not start again at the first row.
Divide_NoReset ==
    /\ pc = "divide"
    /\ m' = row_divide(m, r, m[r][r])
    /\ pivots' = pivots \cup {r}
    /\ pc' = "clear"
    /\ UNCHANGED <<m0, r, n>>

Divide ==
    /\ pc = "divide"
    /\ m' = row_divide(m, r, m[r][r])
    /\ pivots' = pivots \cup {r}
    /\ n' = 1
    /\ pc' = "clear"
    /\ UNCHANGED <<m0, r>>

Clear ==
    /\ pc = "clear"
    /\ n <= Rows
    /\ m' = IF n = r THEN m
            ELSE row_multiply_add(m, n, r, Times(m[n][r], MinusOne))
    /\ n' = n + 1
    /\ UNCHANGED <<m0, r, pc, pivots>>

\* A loop that does not go on to the next row.
NextRow_Stays ==
    /\ pc = "clear"
    /\ n > Rows
    /\ pc' = "pivot"
    /\ UNCHANGED <<m, m0, r, n, pivots>>

\* An outer loop that counts with the variable of the inner one.
NextRow_Inner ==
    /\ pc = "clear"
    /\ n > Rows
    /\ r' = n + 1
    /\ pc' = "pivot"
    /\ UNCHANGED <<m, m0, n, pivots>>

NextRow ==
    /\ pc = "clear"
    /\ n > Rows
    /\ r' = r + 1
    /\ pc' = "pivot"
    /\ UNCHANGED <<m, m0, n, pivots>>

Return ==
    /\ pc = "pivot"
    /\ r > Rows
    /\ pc' = "done"
    /\ UNCHANGED <<m, m0, r, n, pivots>>

Next == Pivot \/ Divide \/ Clear \/ NextRow \/ Return

\* A function that was called runs on.
Spec == Init /\ [][Next]_vars /\ WF_vars(Next)

-----------------------------------------------------------------------------
(***************************************************************************)
(* Properties.                                                             *)
(***************************************************************************)

(***************************************************************************)
(* Whether x solves the homogeneous equations whose coefficients a are.    *)
(***************************************************************************)
Solves(a, x) ==
    \A i \in R : Sum([c \in C |-> Times(a[i][c], x[c])]) = Zero

(***************************************************************************)
(* At every step the rows span what they did: the equations have the same  *)
(* solutions as those of the matrix that was passed.                       *)
(***************************************************************************)
SolutionsKept == \A x \in [C -> F] : Solves(m, x) <=> Solves(m0, x)

(***************************************************************************)
(* Once a row has served as a pivot its column holds one at the diagonal   *)
(* and, when the rows have been cleared, zero elsewhere, and no later      *)
(* switch, division or addition undoes it.                                 *)
(***************************************************************************)
PivotColumns ==
    \A k \in pivots :
        /\ m[k][k] = One
        /\ \A i \in R \ {k} : (k # r \/ pc # "clear" \/ i < n) => m[i][k] = Zero

(***************************************************************************)
(* Equations with one solution only end reduced, as the identity: what the *)
(* comments promise of the function (a reduced echelon form, made by       *)
(* switching with a later row that is not zero).  Not so: the search does  *)
(* not find a row whose diagonal element is zero.                          *)
(***************************************************************************)
Regular == \A x \in [C -> F] : Solves(m0, x) => \A c \in C : x[c] = Zero

RegularReduced ==
    pc = "done" /\ Regular =>
        \A i \in R, k \in C : m[i][k] = IF i = k THEN One ELSE Zero

(***************************************************************************)
(* The function returns.                                                   *)
(***************************************************************************)
Terminates == <>(pc = "done")

=============================================================================
