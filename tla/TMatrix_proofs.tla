--------------------------- MODULE TMatrix_proofs ---------------------------
(***************************************************************************)
(* Matrices of any shapes over any elements: who owns an array, when one   *)
(* is lost, and that matrices are values.                                  *)
(***************************************************************************)
EXTENDS TMatrix, TLAPS

(***************************************************************************)
(* Row by row: what lies at the offset of row i, column j of c columns.    *)
(***************************************************************************)
LEMMA Products ==
    ASSUME NEW c \in Nat \ {0}, NEW i \in Nat, NEW h \in Nat, i < h
    PROVE  i * c \in Nat /\ h * c \in Nat /\ i * c + c <= h * c
  <1>1. PICK d \in Nat : h = i + 1 + d
    <2>1. h - i - 1 \in Nat /\ h = i + 1 + (h - i - 1)
      OBVIOUS
    <2>. QED BY <2>1
  <1>2. h * c = i * c + c + d * c
    BY <1>1
  <1>3. i * c \in Nat /\ h * c \in Nat /\ d * c \in Nat
    OBVIOUS
  <1>. QED BY <1>2, <1>3

LEMMA DivMod ==
    ASSUME NEW c \in Nat \ {0}, NEW k \in Nat
    PROVE  /\ k \div c \in Nat /\ k % c \in 0..c - 1
           /\ k = (k \div c) * c + (k % c)
  OBVIOUS

LEMMA Unique ==
    ASSUME NEW c \in Nat \ {0}, NEW i \in Nat, NEW h \in Nat,
           NEW j \in 0..c - 1, NEW l \in 0..c - 1, i * c + j = h * c + l
    PROVE  i = h /\ j = l
  <1>1. ~(i < h) /\ ~(h < i)
    BY Products
  <1>2. i = h
    BY <1>1
  <1>3. i * c \in Nat
    OBVIOUS
  <1>. QED BY <1>2, <1>3

LEMMA OffsetOf ==
    ASSUME NEW c \in Nat \ {0}, NEW i \in Nat, NEW j \in 0..c - 1
    PROVE  /\ i * c + j \in Nat
           /\ (i * c + j) \div c = i /\ ((i * c + j) % c) = j
  <1>. DEFINE k == i * c + j
  <1>1. k \in Nat
    OBVIOUS
  <1>2. /\ k \div c \in Nat /\ k % c \in 0..c - 1
        /\ k = (k \div c) * c + (k % c)
    BY <1>1, DivMod
  <1>. DEFINE d == k \div c
              m == k % c
  <1>3. d \in Nat /\ m \in 0..c - 1 /\ i * c + j = d * c + m
    BY <1>2
  <1>. HIDE DEF d, m
  <1>4. i = d /\ j = m
    BY <1>3, Unique
  <1>. QED BY <1>1, <1>4 DEF d, m

LEMMA OffsetIn ==
    ASSUME NEW r \in Nat, NEW c \in Nat, NEW i \in 0..r - 1, NEW j \in 0..c - 1
    PROVE  i * c + j \in 0..r * c - 1 /\ r * c > 0
  <1>0. c \in Nat \ {0}
    OBVIOUS
  <1>1. i * c \in Nat /\ r * c \in Nat /\ i * c + c <= r * c
    BY <1>0, Products
  <1>. QED BY <1>0, <1>1

LEMMA RowOf ==
    ASSUME NEW r \in Nat, NEW c \in Nat, NEW k \in 0..r * c - 1
    PROVE  k \div c \in 0..r - 1 /\ k % c \in 0..c - 1
  <1>. DEFINE d == k \div c
              m == k % c
  <1>0. c \in Nat \ {0}
    <2>1. c = 0 => r * c = 0
      OBVIOUS
    <2>. QED BY <2>1
  <1>1. r * c \in Nat /\ k \in Nat /\ k < r * c
    OBVIOUS
  <1>2. d \in Nat /\ m \in 0..c - 1 /\ k = d * c + m
    BY <1>0, <1>1, DivMod
  <1>. HIDE DEF d, m
  <1>3. d < r
    <2>1. CASE r < d
      <3>1. r * c + c <= d * c /\ d * c \in Nat
        BY <1>0, <1>2, <2>1, Products
      <3>. QED BY <1>1, <1>2, <3>1
    <2>2. CASE r = d
      <3>1. d * c = r * c
        BY <2>2
      <3>. QED BY <1>1, <1>2, <3>1
    <2>. QED BY <1>2, <2>1, <2>2
  <1>. QED BY <1>2, <1>3 DEF d, m

-----------------------------------------------------------------------------
(***************************************************************************)
(* An array of elements as a matrix, and a matrix as an array.             *)
(***************************************************************************)
Ats(rows, cols) == [0..rows - 1 -> [0..cols - 1 -> F]]

AtOf(rows, cols, e) == [i \in 0..rows - 1 |-> [j \in 0..cols - 1 |-> e[i * cols + j]]]

View(rows, cols, e) == [rows |-> rows, cols |-> cols, at |-> AtOf(rows, cols, e)]

Flat(rows, cols, at) == [k \in 0..rows * cols - 1 |-> at[k \div cols][k % cols]]

LEMMA CountFacts ==
    /\ Counts \subseteq Nat /\ 0 \in Counts
    /\ \A shape \in Shapes : shape[1] \in Counts /\ shape[2] \in Counts
  <1>1. \A shape \in Shapes : shape[1] \in Nat /\ shape[2] \in Nat
    BY MatrixAssumption
  <1>2. \A shape \in Shapes : shape[1] \in Counts /\ shape[2] \in Counts
    BY DEF Counts
  <1>3. Counts \subseteq Nat /\ 0 \in Counts
    BY <1>1 DEF Counts
  <1>. QED BY <1>2, <1>3

LEMMA ViewTyped ==
    ASSUME NEW r \in Counts, NEW c \in Counts, NEW e \in Elements(r, c)
    PROVE  AtOf(r, c, e) \in Ats(r, c)
  <1>1. r \in Nat /\ c \in Nat
    BY CountFacts
  <1>2. \A i \in 0..r - 1, j \in 0..c - 1 : i * c + j \in 0..r * c - 1
    BY <1>1, OffsetIn
  <1>3. \A i \in 0..r - 1, j \in 0..c - 1 : e[i * c + j] \in F
    BY <1>2 DEF Elements
  <1>. QED BY <1>3 DEF AtOf, Ats

LEMMA FlatTyped ==
    ASSUME NEW r \in Counts, NEW c \in Counts, NEW at \in Ats(r, c)
    PROVE  Flat(r, c, at) \in Elements(r, c) /\ AtOf(r, c, Flat(r, c, at)) = at
  <1>1. r \in Nat /\ c \in Nat
    BY CountFacts
  <1>2. \A k \in 0..r * c - 1 : k \div c \in 0..r - 1 /\ k % c \in 0..c - 1
    BY <1>1, RowOf
  <1>3. Flat(r, c, at) \in Elements(r, c)
    BY <1>2 DEF Flat, Elements, Ats
  <1>4. ASSUME NEW i \in 0..r - 1, NEW j \in 0..c - 1
        PROVE  Flat(r, c, at)[i * c + j] = at[i][j]
    <2>1. i * c + j \in 0..r * c - 1
      BY <1>1, OffsetIn
    <2>2. i \in Nat /\ (i * c + j) \div c = i /\ ((i * c + j) % c) = j
      BY <1>1, OffsetOf
    <2>. QED BY <2>1, <2>2 DEF Flat
  <1>5. at = [i \in 0..r - 1 |-> [j \in 0..c - 1 |-> at[i][j]]]
    BY DEF Ats
  <1>. QED BY <1>3, <1>4, <1>5 DEF AtOf

\* Without elements it makes no difference which.
LEMMA EmptyView ==
    ASSUME NEW r \in Nat, NEW c \in Nat, r * c = 0, NEW d, NEW e
    PROVE  View(r, c, d) = View(r, c, e)
  <1>1. r = 0 \/ c = 0
    OBVIOUS
  <1>2. 0..0 - 1 = {}
    OBVIOUS
  <1>3. AtOf(r, c, d) = AtOf(r, c, e)
    BY <1>1, <1>2 DEF AtOf
  <1>. QED BY <1>3 DEF View

LEMMA NoMatrixView == \A e : View(0, 0, e) = NoMatrix
  <1>1. 0..0 - 1 = {}
    OBVIOUS
  <1>. QED BY <1>1 DEF View, AtOf, NoMatrix, Matrix

LEMMA ValIsView ==
    ASSUME NEW o
    PROVE  /\ Val(o) = View(m_rows[o], m_cols[o], heap[m_array[o]])
           /\ Val(o)' = View(m_rows'[o], m_cols'[o], heap'[m_array'[o]])
  BY DEF Val, Matrix, View, AtOf, El

-----------------------------------------------------------------------------
(***************************************************************************)
(* The inductive invariant: the types, and who owns what.                  *)
(***************************************************************************)
MatrixTyped ==
    /\ m_rows \in [Slot -> Counts] /\ m_cols \in [Slot -> Counts]
    /\ m_array \in [Slot -> Arrays \cup {Null}]
    /\ heap = [id \in Arrays |-> heap[id]]

MatrixInv == MatrixTyped /\ ArraysOwned

(***************************************************************************)
(* What is lost in a step, whether o gets another array, and which values  *)
(* stay.                                                                   *)
(***************************************************************************)
NoneLost    == \A id \in Arrays : heap'[id] = Lost => heap[id] = Lost
LostAt(o)   == \A id \in Arrays :
                  heap[id] # Lost /\ heap'[id] = Lost => m_array[o] = id
Replaced(o) == Holds(o) => m_array'[o] # m_array[o]

Others(o) == \A q \in Slot \ {o} : Val(q)' = Val(q)

LEMMA ShapeFacts ==
    ASSUME MatrixInv, NEW o \in Slot
    PROVE  /\ m_rows[o] \in Nat /\ m_cols[o] \in Nat
           /\ m_rows[o] \in Counts /\ m_cols[o] \in Counts
           /\ ~Holds(o) => m_rows[o] * m_cols[o] = 0
           /\ \A i \in 0..m_rows[o] - 1, j \in 0..m_cols[o] - 1 : Holds(o)
  <1>1. m_rows[o] \in Counts /\ m_cols[o] \in Counts
    BY DEF MatrixInv, MatrixTyped
  <1>2. m_rows[o] \in Nat /\ m_cols[o] \in Nat
    BY <1>1, CountFacts
  <1>3. ~Holds(o) => m_rows[o] * m_cols[o] = 0
    BY DEF MatrixInv, ArraysOwned
  <1>4. ASSUME NEW i \in 0..m_rows[o] - 1, NEW j \in 0..m_cols[o] - 1
        PROVE  Holds(o)
    <2>1. m_rows[o] * m_cols[o] > 0
      BY <1>2, OffsetIn
    <2>. QED BY <1>3, <2>1
  <1>. QED BY <1>1, <1>2, <1>3, <1>4

LEMMA HeldFacts ==
    ASSUME MatrixInv, NEW o \in Slot, Holds(o)
    PROVE  /\ m_array[o] \in Arrays /\ m_rows[o] \in Counts /\ m_cols[o] \in Counts
           /\ heap[m_array[o]] \in Elements(m_rows[o], m_cols[o])
           /\ heap[m_array[o]] # Free /\ heap[m_array[o]] # Lost
           /\ \A p \in Slot \ {o} : m_array[p] # m_array[o]
  <1>1. /\ m_array[o] \in Arrays /\ m_rows[o] \in Counts /\ m_cols[o] \in Counts
        /\ heap[m_array[o]] \in Elements(m_rows[o], m_cols[o])
        /\ \A p \in Slot \ {o} : m_array[p] # m_array[o]
    BY DEF MatrixInv, MatrixTyped, ArraysOwned, Holds
  <1>. QED BY <1>1, MatrixAssumption

LEMMA NothingHeld ==
    ASSUME MatrixInv, NEW o \in Slot, ~Holds(o)
    PROVE  heap = Released(o)
  <1>1. m_array[o] \notin Arrays
    BY MatrixAssumption DEF Holds
  <1>. QED BY <1>1 DEF Released, MatrixInv, MatrixTyped

LEMMA Unrelated ==
    ASSUME MatrixInv, NEW q \in Slot,
           m_rows'[q] = m_rows[q], m_cols'[q] = m_cols[q], m_array'[q] = m_array[q],
           Holds(q) => heap'[m_array[q]] = heap[m_array[q]]
    PROVE  Val(q)' = Val(q)
  <1>1. CASE Holds(q)
    BY <1>1, ValIsView
  <1>2. CASE ~Holds(q)
    <2>1. m_rows[q] \in Nat /\ m_cols[q] \in Nat /\ m_rows[q] * m_cols[q] = 0
      BY <1>2, ShapeFacts
    <2>. DEFINE r == m_rows[q]
                c == m_cols[q]
                d == heap[m_array[q]]
                e == heap'[m_array'[q]]
    <2>2. Val(q) = View(r, c, d) /\ Val(q)' = View(r, c, e)
      BY ValIsView
    <2>. HIDE DEF r, c, d, e
    <2>3. View(r, c, d) = View(r, c, e)
      BY <2>1, EmptyView DEF r, c
    <2>. QED BY <2>2, <2>3
  <1>. QED BY <1>1, <1>2

(***************************************************************************)
(* One lemma for each way the code has of changing pointers and arrays.    *)
(* The first: a new array in the place of what o held.                     *)
(***************************************************************************)
LEMMA NewArray ==
    ASSUME MatrixInv, NEW o \in Slot, NEW r \in Counts, NEW c \in Counts,
           NEW id \in Unused, NEW e \in Elements(r, c),
           NEW before \in {Released(o), Dropped(o)},
           Shape(o, r, c, id), heap' = [before EXCEPT ![id] = e]
    PROVE  /\ MatrixInv' /\ Others(o) /\ Val(o)' = View(r, c, e)
           /\ LostAt(o) /\ Replaced(o) /\ (before = Released(o) => NoneLost)
  <1>1. id \in Arrays /\ heap[id] = Free /\ id # Null /\ e # Free /\ e # Lost
        /\ Free # Lost
    BY MatrixAssumption DEF Unused
  <1>2. \A q \in Slot : m_array[q] # id
    BY <1>1, HeldFacts DEF Holds
  <1>3. /\ \A q \in Slot : m_rows'[q] = IF q = o THEN r ELSE m_rows[q]
        /\ \A q \in Slot : m_cols'[q] = IF q = o THEN c ELSE m_cols[q]
        /\ \A q \in Slot : m_array'[q] = IF q = o THEN id ELSE m_array[q]
    BY DEF Shape, MatrixInv, MatrixTyped
  <1>4. \A a \in Arrays : heap'[a] = IF a = id THEN e
                                     ELSE IF a = m_array[o] THEN heap'[a] ELSE heap[a]
    BY DEF Released, Dropped
  <1>5. \A a \in Arrays : a = m_array[o] => heap'[a] \in {Free, Lost}
    BY <1>1, <1>2 DEF Released, Dropped
  <1>6. MatrixTyped'
    <2>1. m_rows' \in [Slot -> Counts] /\ m_cols' \in [Slot -> Counts]
          /\ m_array' \in [Slot -> Arrays \cup {Null}]
      BY <1>1 DEF Shape, MatrixInv, MatrixTyped
    <2>2. heap' = [a \in Arrays |-> heap'[a]]
      BY DEF Released, Dropped
    <2>. QED BY <2>1, <2>2 DEF MatrixTyped
  <1>7. ASSUME NEW q \in Slot \ {o}, Holds(q)
        PROVE  heap'[m_array[q]] = heap[m_array[q]]
    BY <1>2, <1>4, <1>7, HeldFacts
  <1>8. ArraysOwned'
    <2>0. ASSUME NEW q \in Slot, ~Holds(q)' PROVE m_rows'[q] * m_cols'[q] = 0
      BY <1>1, <1>3, <2>0, ShapeFacts DEF Holds
    <2>1. ASSUME NEW q \in Slot, Holds(q)'
          PROVE  heap'[m_array'[q]] \in Elements(m_rows'[q], m_cols'[q])
      BY <1>1, <1>3, <1>4, <1>7, <2>1, HeldFacts DEF Holds
    <2>2. ASSUME NEW q \in Slot, Holds(q)', NEW p \in Slot \ {q}
          PROVE  m_array'[p] # m_array'[q]
      BY <1>2, <1>3, <2>2, HeldFacts DEF Holds
    <2>3. ASSUME NEW a \in Arrays, heap'[a] \notin {Free, Lost}
          PROVE  \E q \in Slot : m_array'[q] = a
      BY <1>3, <1>4, <1>5, <2>3 DEF MatrixInv, ArraysOwned
    <2>. QED BY <2>0, <2>1, <2>2, <2>3 DEF ArraysOwned, Holds
  <1>9. Others(o)
    BY <1>3, <1>7, Unrelated DEF Others
  <1>10. Val(o)' = View(r, c, e)
    BY <1>1, <1>3, <1>4, ValIsView
  <1>11. LostAt(o) /\ Replaced(o)
    BY <1>1, <1>2, <1>3, <1>4 DEF LostAt, Replaced
  <1>12. before = Released(o) => NoneLost
    BY <1>1 DEF Released, NoneLost
  <1>. QED BY <1>6, <1>8, <1>9, <1>10, <1>11, <1>12 DEF MatrixInv

(***************************************************************************)
(* What o held is freed or lost, and o has no elements after.              *)
(***************************************************************************)
LEMMA NoArray ==
    ASSUME MatrixInv, NEW o \in Slot, NEW r \in Counts, NEW c \in Counts,
           r * c = 0, Shape(o, r, c, Null), heap' \in {Released(o), Dropped(o)},
           NEW e
    PROVE  /\ MatrixInv' /\ Others(o) /\ Val(o)' = View(r, c, e)
           /\ LostAt(o) /\ Replaced(o) /\ (heap' = Released(o) => NoneLost)
  <1>1. /\ \A q \in Slot : m_rows'[q] = IF q = o THEN r ELSE m_rows[q]
        /\ \A q \in Slot : m_cols'[q] = IF q = o THEN c ELSE m_cols[q]
        /\ \A q \in Slot : m_array'[q] = IF q = o THEN Null ELSE m_array[q]
    BY DEF Shape, MatrixInv, MatrixTyped
  <1>2. /\ \A a \in Arrays : a # m_array[o] => heap'[a] = heap[a]
        /\ \A a \in Arrays : a = m_array[o] => heap'[a] \in {Free, Lost}
    BY DEF Released, Dropped
  <1>3. MatrixTyped'
    <2>1. m_rows' \in [Slot -> Counts] /\ m_cols' \in [Slot -> Counts]
          /\ m_array' \in [Slot -> Arrays \cup {Null}]
      BY DEF Shape, MatrixInv, MatrixTyped
    <2>2. heap' = [a \in Arrays |-> heap'[a]]
      BY DEF Released, Dropped
    <2>. QED BY <2>1, <2>2 DEF MatrixTyped
  <1>4. ASSUME NEW q \in Slot \ {o}, Holds(q)
        PROVE  heap'[m_array[q]] = heap[m_array[q]]
    BY <1>2, <1>4, HeldFacts
  <1>5. ArraysOwned'
    <2>0. ASSUME NEW q \in Slot, ~Holds(q)' PROVE m_rows'[q] * m_cols'[q] = 0
      BY <1>1, <2>0, ShapeFacts DEF Holds
    <2>1. ASSUME NEW q \in Slot, Holds(q)'
          PROVE  heap'[m_array'[q]] \in Elements(m_rows'[q], m_cols'[q])
      BY <1>1, <1>4, <2>1, HeldFacts DEF Holds
    <2>2. ASSUME NEW q \in Slot, Holds(q)', NEW p \in Slot \ {q}
          PROVE  m_array'[p] # m_array'[q]
      BY <1>1, <2>2, HeldFacts DEF Holds
    <2>3. ASSUME NEW a \in Arrays, heap'[a] \notin {Free, Lost}
          PROVE  \E q \in Slot : m_array'[q] = a
      BY <1>1, <1>2, <2>3 DEF MatrixInv, ArraysOwned
    <2>. QED BY <2>0, <2>1, <2>2, <2>3 DEF ArraysOwned, Holds
  <1>6. Others(o)
    BY <1>1, <1>4, Unrelated DEF Others
  <1>7. Val(o)' = View(r, c, e)
    <2>. DEFINE d == heap'[m_array'[o]]
    <2>1. Val(o)' = View(r, c, d)
      BY <1>1, ValIsView
    <2>. HIDE DEF d
    <2>2. View(r, c, d) = View(r, c, e)
      BY CountFacts, EmptyView
    <2>. QED BY <2>1, <2>2
  <1>8. LostAt(o) /\ Replaced(o)
    BY <1>1, <1>2 DEF LostAt, Replaced, Holds
  <1>9. heap' = Released(o) => NoneLost
    BY MatrixAssumption DEF Released, NoneLost
  <1>. QED BY <1>3, <1>5, <1>6, <1>7, <1>8, <1>9 DEF MatrixInv

LEMMA Allocated ==
    ASSUME MatrixInv, NEW o \in Slot, NEW r \in Counts, NEW c \in Counts,
           NEW e \in Elements(r, c), NEW before \in {Released(o), Dropped(o)},
           Allocate(o, r, c, e, before)
    PROVE  /\ MatrixInv' /\ Others(o) /\ Val(o)' = View(r, c, e)
           /\ LostAt(o) /\ Replaced(o) /\ (before = Released(o) => NoneLost)
  <1>1. CASE r * c = 0 /\ Shape(o, r, c, Null) /\ heap' = before
    BY <1>1, NoArray
  <1>2. CASE \E id \in Unused : /\ Shape(o, r, c, id)
                                /\ heap' = [before EXCEPT ![id] = e]
    BY <1>2, NewArray
  <1>. QED BY <1>1, <1>2 DEF Allocate

(***************************************************************************)
(* What p held is given to o, and what o held is freed or lost.            *)
(***************************************************************************)
LEMMA HandedOver ==
    ASSUME MatrixInv, NEW o \in Slot, NEW p \in Slot, o # p, Taken(o, p),
           heap' \in {Released(o), Dropped(o)}
    PROVE  /\ MatrixInv' /\ \A q \in Slot \ {o, p} : Val(q)' = Val(q)
           /\ Val(o)' = Val(p) /\ Val(p)' = NoMatrix
           /\ LostAt(o) /\ Replaced(o) /\ (heap' = Released(o) => NoneLost)
  <1>1. /\ \A q \in Slot : m_rows'[q] = IF q = p THEN 0 ELSE
                                        IF q = o THEN m_rows[p] ELSE m_rows[q]
        /\ \A q \in Slot : m_cols'[q] = IF q = p THEN 0 ELSE
                                        IF q = o THEN m_cols[p] ELSE m_cols[q]
        /\ \A q \in Slot : m_array'[q] = IF q = p THEN Null ELSE
                                         IF q = o THEN m_array[p] ELSE m_array[q]
    BY DEF Taken, MatrixInv, MatrixTyped
  <1>2. /\ \A a \in Arrays : a # m_array[o] => heap'[a] = heap[a]
        /\ \A a \in Arrays : a = m_array[o] => heap'[a] \in {Free, Lost}
    BY DEF Released, Dropped
  <1>3. MatrixTyped'
    <2>1. m_rows' \in [Slot -> Counts] /\ m_cols' \in [Slot -> Counts]
          /\ m_array' \in [Slot -> Arrays \cup {Null}]
      BY CountFacts DEF Taken, MatrixInv, MatrixTyped
    <2>2. heap' = [a \in Arrays |-> heap'[a]]
      BY DEF Released, Dropped
    <2>. QED BY <2>1, <2>2 DEF MatrixTyped
  <1>4. ASSUME NEW q \in Slot \ {o}, Holds(q)
        PROVE  heap'[m_array[q]] = heap[m_array[q]]
    BY <1>2, <1>4, HeldFacts
  <1>5. ArraysOwned'
    <2>0. ASSUME NEW q \in Slot, ~Holds(q)' PROVE m_rows'[q] * m_cols'[q] = 0
      BY <1>1, <2>0, ShapeFacts DEF Holds
    <2>1. ASSUME NEW q \in Slot, Holds(q)'
          PROVE  heap'[m_array'[q]] \in Elements(m_rows'[q], m_cols'[q])
      <3>1. CASE q = o
        BY <1>1, <1>4, <2>1, <3>1, HeldFacts DEF Holds
      <3>2. CASE q # o
        BY <1>1, <1>4, <2>1, <3>2, HeldFacts DEF Holds
      <3>. QED BY <3>1, <3>2
    <2>2. ASSUME NEW q \in Slot, Holds(q)', NEW r \in Slot \ {q}
          PROVE  m_array'[r] # m_array'[q]
      BY <1>1, <2>2, HeldFacts DEF Holds
    <2>3. ASSUME NEW a \in Arrays, heap'[a] \notin {Free, Lost}
          PROVE  \E q \in Slot : m_array'[q] = a
      <3>1. a # m_array[o] /\ heap[a] \notin {Free, Lost}
        BY <1>2, <2>3
      <3>2. PICK q \in Slot : m_array[q] = a
        BY <3>1 DEF MatrixInv, ArraysOwned
      <3>3. m_array'[IF q = p THEN o ELSE q] = a
        BY <1>1, <3>1, <3>2
      <3>. QED BY <3>3
    <2>. QED BY <2>0, <2>1, <2>2, <2>3 DEF ArraysOwned, Holds
  <1>6. \A q \in Slot \ {o, p} : Val(q)' = Val(q)
    BY <1>1, <1>4, Unrelated
  <1>7. Val(p)' = NoMatrix
    BY <1>1, ValIsView, NoMatrixView
  <1>8. Val(o)' = Val(p)
    <2>1. CASE Holds(p)
      BY <1>1, <1>4, <2>1, ValIsView
    <2>2. CASE ~Holds(p)
      <3>. DEFINE r == m_rows[p]
                  c == m_cols[p]
                  d == heap[m_array[p]]
                  e == heap'[m_array'[o]]
      <3>1. r \in Nat /\ c \in Nat /\ r * c = 0
        BY <2>2, ShapeFacts
      <3>2. Val(p) = View(r, c, d) /\ Val(o)' = View(r, c, e)
        BY <1>1, ValIsView
      <3>. HIDE DEF r, c, d, e
      <3>3. View(r, c, d) = View(r, c, e)
        BY <3>1, EmptyView
      <3>. QED BY <3>2, <3>3
    <2>. QED BY <2>1, <2>2
  <1>9. LostAt(o) /\ Replaced(o)
    BY <1>1, <1>2, HeldFacts DEF LostAt, Replaced, Holds
  <1>10. heap' = Released(o) => NoneLost
    BY MatrixAssumption DEF Released, NoneLost
  <1>. QED BY <1>3, <1>5, <1>6, <1>7, <1>8, <1>9, <1>10 DEF MatrixInv

(***************************************************************************)
(* The elements of the array of o change.                                  *)
(***************************************************************************)
LEMMA WrittenOver ==
    ASSUME MatrixInv, NEW o \in Slot, Holds(o),
           NEW e \in Elements(m_rows[o], m_cols[o]),
           UNCHANGED <<m_rows, m_cols, m_array>>,
           heap' = [heap EXCEPT ![m_array[o]] = e]
    PROVE  /\ MatrixInv' /\ Others(o)
           /\ Val(o)' = View(m_rows[o], m_cols[o], e) /\ NoneLost
  <1>1. m_array[o] \in Arrays /\ e # Free /\ e # Lost
    BY HeldFacts, MatrixAssumption
  <1>2. /\ \A a \in Arrays : heap'[a] = IF a = m_array[o] THEN e ELSE heap[a]
        /\ heap' = [a \in Arrays |-> heap'[a]]
    BY DEF MatrixInv, MatrixTyped
  <1>3. MatrixTyped'
    BY <1>2 DEF MatrixInv, MatrixTyped, Holds
  <1>4. ASSUME NEW q \in Slot \ {o}, Holds(q)
        PROVE  heap'[m_array[q]] = heap[m_array[q]]
    BY <1>2, <1>4, HeldFacts
  <1>5. ArraysOwned'
    <2>0. ASSUME NEW q \in Slot, ~Holds(q)' PROVE m_rows'[q] * m_cols'[q] = 0
      BY <2>0, ShapeFacts DEF Holds
    <2>1. ASSUME NEW q \in Slot, Holds(q)'
          PROVE  heap'[m_array'[q]] \in Elements(m_rows'[q], m_cols'[q])
      BY <1>1, <1>2, <1>4, <2>1, HeldFacts DEF Holds
    <2>2. ASSUME NEW q \in Slot, Holds(q)', NEW p \in Slot \ {q}
          PROVE  m_array'[p] # m_array'[q]
      BY <2>2, HeldFacts DEF Holds
    <2>3. ASSUME NEW a \in Arrays, heap'[a] \notin {Free, Lost}
          PROVE  \E q \in Slot : m_array'[q] = a
      BY <1>2, <2>3 DEF MatrixInv, ArraysOwned
    <2>. QED BY <2>0, <2>1, <2>2, <2>3 DEF ArraysOwned, Holds
  <1>6. Others(o)
    BY <1>4, Unrelated DEF Others
  <1>7. Val(o)' = View(m_rows[o], m_cols[o], e)
    BY <1>1, <1>2, ValIsView
  <1>8. NoneLost
    BY <1>1, <1>2 DEF NoneLost
  <1>. QED BY <1>3, <1>5, <1>6, <1>7, <1>8 DEF MatrixInv

\* A step that changes no object.
LEMMA Kept ==
    ASSUME MatrixInv, UNCHANGED <<m_rows, m_cols, m_array, heap>>
    PROVE  MatrixInv' /\ NoneLost /\ \A q \in Slot : Val(q)' = Val(q)
  <1>1. MatrixInv' /\ NoneLost
    BY DEF MatrixInv, MatrixTyped, ArraysOwned, Holds, NoneLost
  <1>2. \A q \in Slot : Val(q)' = Val(q)
    BY Unrelated
  <1>. QED BY <1>1, <1>2

-----------------------------------------------------------------------------
(***************************************************************************)
(* The steps as operations on values.                                      *)
(***************************************************************************)
LostInCall ==
    \A id \in Arrays : heap[id] # Lost /\ heap'[id] = Lost =>
        \E o \in Slot :
           /\ m_array[o] = id /\ m_array'[o] # id
           /\ \/ \E p \in Slot \ {o} : MoveAssign(o, p)
              \/ call'[1] = "make" /\ call'[2] = o

Follows == MatrixInv' /\ MatrixValues!Next /\ LostInCall

LEMMA Matrices ==
    ASSUME NEW r \in Counts, NEW c \in Counts, NEW at \in Ats(r, c)
    PROVE  [rows |-> r, cols |-> c, at |-> at]
              \in UNION {[rows : {h}, cols : {w},
                          at : [0..h - 1 -> [0..w - 1 -> F]]] : h, w \in Counts}
  <1>1. [rows |-> r, cols |-> c, at |-> at]
           \in [rows : {r}, cols : {c}, at : [0..r - 1 -> [0..c - 1 -> F]]]
    BY DEF Ats
  <1>. DEFINE S(h, w) == [rows : {h}, cols : {w},
                          at : [0..h - 1 -> [0..w - 1 -> F]]]
  <1>. HIDE DEF S
  <1>2. S(r, c) \in {S(h, w) : h, w \in Counts}
    OBVIOUS
  <1>3. [rows |-> r, cols |-> c, at |-> at] \in S(r, c)
    BY <1>1 DEF S
  <1>4. [rows |-> r, cols |-> c, at |-> at] \in UNION {S(h, w) : h, w \in Counts}
    BY <1>2, <1>3
  <1>. QED BY <1>4 DEF S

LEMMA MadeIs ==
    ASSUME NEW o \in Slot, NEW r \in Counts, NEW c \in Counts,
           NEW at \in Ats(r, c), NEW v, v = [rows |-> r, cols |-> c, at |-> at],
           call' = <<"make", o, v>>, Others(o), Val(o)' = v
    PROVE  MatrixValues!Next
  <1>1. MatrixValues!Make(o, v)
    BY DEF MatrixValues!Make, Others
  <1>. QED BY <1>1, Matrices DEF MatrixValues!Next

LEMMA CopiedIs ==
    ASSUME NEW o \in Slot, NEW p \in Slot, call' = <<"copy", o, p>>,
           Others(o), Val(o)' = Val(p)
    PROVE  MatrixValues!Next
  <1>1. MatrixValues!Copy(o, p)
    BY DEF MatrixValues!Copy, Others
  <1>. QED BY <1>1 DEF MatrixValues!Next

LEMMA MovedIs ==
    ASSUME NEW o \in Slot, NEW p \in Slot, call' = <<"move", o, p>>, o # p,
           \A q \in Slot \ {o, p} : Val(q)' = Val(q),
           Val(o)' = Val(p), Val(p)' = NoMatrix
    PROVE  MatrixValues!Next
  <1>1. MatrixValues!Move(o, p)
    BY DEF MatrixValues!Move
  <1>. QED BY <1>1 DEF MatrixValues!Next

LEMMA FailedIs ==
    ASSUME NEW o \in Slot, call' = <<"fail", o>>, \A q \in Slot : Val(q)' = Val(q)
    PROVE  MatrixValues!Next
  <1>1. MatrixValues!Fail(o)
    BY DEF MatrixValues!Fail
  <1>. QED BY <1>1 DEF MatrixValues!Next

LEMMA NoneLostFollows == NoneLost => LostInCall
  BY DEF NoneLost, LostInCall

LEMMA LostAtFollows ==
    ASSUME MatrixInv, NEW o \in Slot, LostAt(o), Replaced(o),
           \/ \E p \in Slot \ {o} : MoveAssign(o, p)
           \/ call'[1] = "make" /\ call'[2] = o
    PROVE  LostInCall
  <1>. SUFFICES ASSUME NEW id \in Arrays, heap[id] # Lost, heap'[id] = Lost
                PROVE  m_array[o] = id /\ m_array'[o] # id
    BY DEF LostInCall
  <1>1. m_array[o] = id
    BY DEF LostAt
  <1>2. Holds(o)
    BY <1>1, MatrixAssumption DEF Holds
  <1>. QED BY <1>1, <1>2 DEF Replaced

(***************************************************************************)
(* Objects.                                                                *)
(***************************************************************************)
LEMMA ConstructFollows ==
    ASSUME MatrixInv, NEW o \in Slot, Construct(o) PROVE Follows
  <1>1. ~Holds(o)
    BY DEF Construct
  <1>2. PICK shape \in Shapes : \E e \in Elements(shape[1], shape[2]) :
          /\ Allocate(o, shape[1], shape[2], e, heap)
          /\ call' = <<"make", o, View(shape[1], shape[2], e)>>
    BY DEF Construct, Matrix, View, AtOf
  <1>. DEFINE r == shape[1]
              c == shape[2]
  <1>3. r \in Counts /\ c \in Counts
    BY CountFacts
  <1>4. \E e \in Elements(r, c) :
          Allocate(o, r, c, e, heap) /\ call' = <<"make", o, View(r, c, e)>>
    BY <1>2
  <1>. HIDE DEF r, c
  <1>5. PICK e \in Elements(r, c) :
          Allocate(o, r, c, e, heap) /\ call' = <<"make", o, View(r, c, e)>>
    BY <1>4
  <1>6. Allocate(o, r, c, e, Released(o))
    BY <1>1, <1>5, NothingHeld
  <1>7. AtOf(r, c, e) \in Ats(r, c)
    BY <1>3, ViewTyped
  <1>8. MatrixInv' /\ Others(o) /\ Val(o)' = View(r, c, e) /\ NoneLost
    BY <1>3, <1>6, Allocated
  <1>9. MatrixValues!Next
    BY <1>3, <1>5, <1>7, <1>8, MadeIs DEF View
  <1>. QED BY <1>8, <1>9, NoneLostFollows DEF Follows

LEMMA DestroyFollows ==
    ASSUME MatrixInv, NEW o \in Slot, Destroy(o) PROVE Follows
  <1>1. MatrixInv' /\ Others(o) /\ Val(o)' = NoMatrix /\ NoneLost
    <2>1. 0 \in Counts /\ 0 * 0 = 0
      BY CountFacts
    <2>2. Shape(o, 0, 0, Null) /\ heap' = Released(o)
      BY DEF Destroy
    <2>. QED BY <2>1, <2>2, NoArray, NoMatrixView
  <1>2. MatrixValues!Drop(o)
    BY <1>1 DEF Destroy, MatrixValues!Drop, Others
  <1>. QED BY <1>1, <1>2, NoneLostFollows DEF Follows, MatrixValues!Next

LEMMA CopyFollows ==
    ASSUME MatrixInv, NEW o \in Slot, NEW p \in Slot, Copy(o, p) PROVE Follows
  <1>1. call' = <<"copy", o, p>>
    BY DEF Copy
  <1>2. CASE o = p
    <2>1. MatrixInv' /\ NoneLost /\ \A q \in Slot : Val(q)' = Val(q)
      BY <1>2, Kept DEF Copy
    <2>. QED BY <1>1, <1>2, <2>1, CopiedIs, NoneLostFollows DEF Follows, Others
  <1>3. CASE o # p /\ Holds(p)
    <2>. DEFINE e == heap[m_array[p]]
                r == m_rows[p]
                c == m_cols[p]
    <2>1. PICK id \in Unused : Shape(o, r, c, id)
                               /\ heap' = [Released(o) EXCEPT ![id] = e]
      BY <1>3 DEF Copy, CopyTo
    <2>2. r \in Counts /\ c \in Counts /\ e \in Elements(r, c)
      BY <1>3, HeldFacts
    <2>. HIDE DEF e, r, c
    <2>3. MatrixInv' /\ Others(o) /\ Val(o)' = View(r, c, e) /\ NoneLost
      BY <2>1, <2>2, NewArray
    <2>4. Val(o)' = Val(p)
      BY <2>3, ValIsView DEF r, c, e
    <2>. QED BY <1>1, <2>3, <2>4, CopiedIs, NoneLostFollows DEF Follows
  <1>4. CASE o # p /\ ~Holds(p)
    <2>. DEFINE e == heap[m_array[p]]
                r == m_rows[p]
                c == m_cols[p]
    <2>1. r \in Counts /\ c \in Counts /\ r * c = 0
      BY <1>4, ShapeFacts
    <2>2. Shape(o, r, c, Null) /\ heap' = Released(o)
      BY <1>4 DEF Copy, CopyTo
    <2>3. Val(p) = View(r, c, e)
      BY ValIsView
    <2>. HIDE DEF e, r, c
    <2>4. MatrixInv' /\ Others(o) /\ Val(o)' = View(r, c, e) /\ NoneLost
      BY <2>1, <2>2, NoArray
    <2>. QED BY <1>1, <2>3, <2>4, CopiedIs, NoneLostFollows DEF Follows
  <1>. QED BY <1>2, <1>3, <1>4

LEMMA MoveFollows ==
    ASSUME MatrixInv, NEW o \in Slot, NEW p \in Slot,
           MoveConstruct(o, p) \/ MoveAssign(o, p)
    PROVE  Follows
  <1>1. call' = <<"move", o, p>>
    BY DEF MoveConstruct, MoveAssign
  <1>2. CASE o # p
    <2>1. Taken(o, p) /\ heap' \in {Released(o), Dropped(o)}
      BY <1>2, NothingHeld DEF MoveConstruct, MoveAssign
    <2>2. /\ MatrixInv' /\ \A q \in Slot \ {o, p} : Val(q)' = Val(q)
          /\ Val(o)' = Val(p) /\ Val(p)' = NoMatrix
          /\ LostAt(o) /\ Replaced(o) /\ (heap' = Released(o) => NoneLost)
      BY <1>2, <2>1, HandedOver
    <2>3. LostInCall
      <3>1. CASE MoveConstruct(o, p)
        BY <2>2, <3>1, NothingHeld, NoneLostFollows DEF MoveConstruct
      <3>2. CASE MoveAssign(o, p)
        BY <1>2, <2>2, <3>2, LostAtFollows
      <3>. QED BY <3>1, <3>2
    <2>. QED BY <1>1, <1>2, <2>2, <2>3, MovedIs DEF Follows
  <1>3. CASE o = p
    <2>1. MatrixInv' /\ NoneLost /\ \A q \in Slot : Val(q)' = Val(q)
      BY <1>3, Kept DEF MoveConstruct, MoveAssign
    <2>2. MatrixValues!Move(o, p)
      BY <1>1, <1>3, <2>1 DEF MatrixValues!Move
    <2>. QED BY <2>1, <2>2, NoneLostFollows DEF Follows, MatrixValues!Next
  <1>. QED BY <1>2, <1>3

(***************************************************************************)
(* Elements.  A row or column that is too high leaves all as it is.        *)
(***************************************************************************)
LEMMA FailFollows ==
    ASSUME MatrixInv, NEW o \in Slot, call' = <<"fail", o>>,
           UNCHANGED <<m_rows, m_cols, m_array, heap>>
    PROVE  Follows
  <1>1. MatrixInv' /\ NoneLost /\ \A q \in Slot : Val(q)' = Val(q)
    BY Kept
  <1>. QED BY <1>1, FailedIs, NoneLostFollows DEF Follows

LEMMA WriteFollows ==
    ASSUME MatrixInv, NEW o \in Slot, Holds(o),
           NEW e \in Elements(m_rows[o], m_cols[o]),
           UNCHANGED <<m_rows, m_cols, m_array>>,
           heap' = [heap EXCEPT ![m_array[o]] = e],
           call' = <<"make", o, View(m_rows[o], m_cols[o], e)>>
    PROVE  Follows
  <1>. DEFINE r == m_rows[o]
              c == m_cols[o]
  <1>1. r \in Counts /\ c \in Counts
    BY HeldFacts
  <1>2. MatrixInv' /\ Others(o) /\ Val(o)' = View(r, c, e) /\ NoneLost
    BY WrittenOver
  <1>3. AtOf(r, c, e) \in Ats(r, c)
    BY <1>1, ViewTyped
  <1>4. call' = <<"make", o, View(r, c, e)>>
    OBVIOUS
  <1>. HIDE DEF r, c
  <1>5. MatrixValues!Next
    BY <1>1, <1>2, <1>3, <1>4, MadeIs DEF View
  <1>. QED BY <1>2, <1>5, NoneLostFollows DEF Follows

LEMMA SetFollows ==
    ASSUME MatrixInv, NEW o \in Slot, NEW i \in Counts, NEW j \in Counts, NEW x \in F,
           set(o, i, j, x)
    PROVE  Follows
  <1>1. CASE call' = <<"fail", o>> /\ UNCHANGED heap
    BY <1>1, FailFollows DEF set
  <1>2. CASE ~(call' = <<"fail", o>> /\ UNCHANGED heap)
    <2>. DEFINE r == m_rows[o]
                c == m_cols[o]
                h == heap[m_array[o]]
                n == i * c + j
                e == [h EXCEPT ![n] = x]
    <2>1. /\ i < r /\ j < c /\ UNCHANGED <<m_rows, m_cols, m_array>>
          /\ heap' = [heap EXCEPT ![m_array[o]][n] = x]
          /\ call' = <<"make", o, [Val(o) EXCEPT !.at[i][j] = x]>>
      BY <1>2 DEF set, Write
    <2>2. i \in Nat /\ j \in Nat /\ r \in Nat /\ c \in Nat
      BY CountFacts, ShapeFacts
    <2>3. Holds(o)
      <3>1. i \in 0..r - 1 /\ j \in 0..c - 1
        BY <2>1, <2>2
      <3>. QED BY <3>1, ShapeFacts
    <2>4. /\ r \in Counts /\ c \in Counts /\ h \in Elements(r, c)
          /\ r \in Nat /\ c \in Nat /\ m_array[o] \in Arrays
      BY <2>3, HeldFacts, CountFacts
    <2>5. heap' = [heap EXCEPT ![m_array[o]] = e]
      BY <2>1
    <2>6. Val(o) = View(r, c, h)
      BY ValIsView
    <2>. HIDE DEF r, c, h
    <2>7. i \in 0..r - 1 /\ j \in 0..c - 1 /\ n \in 0..r * c - 1
      BY <2>1, <2>2, <2>4, OffsetIn
    <2>8. e \in Elements(r, c)
      BY <2>4, <2>7 DEF Elements
    <2>9. [Val(o) EXCEPT !.at[i][j] = x] = View(r, c, e)
      <3>1. ASSUME NEW k \in 0..r - 1, NEW l \in 0..c - 1
            PROVE  e[k * c + l] = IF k = i /\ l = j THEN x ELSE h[k * c + l]
        <4>1. k * c + l \in 0..r * c - 1
          BY <2>4, OffsetIn
        <4>2. k * c + l = n => k = i /\ l = j
          BY <2>1, <2>2, <2>4, <2>7, Unique
        <4>. QED BY <2>4, <4>1, <4>2 DEF Elements
      <3>. DEFINE at == AtOf(r, c, h)
                  w  == [at EXCEPT ![i] = [at[i] EXCEPT ![j] = x]]
      <3>2. [Val(o) EXCEPT !.at[i][j] = x] = [rows |-> r, cols |-> c, at |-> w]
        BY <2>6 DEF View
      <3>3. w = AtOf(r, c, e)
        <4>. HIDE DEF e
        <4>1. w = [k \in 0..r - 1 |-> [l \in 0..c - 1 |->
                     IF k = i /\ l = j THEN x ELSE h[k * c + l]]]
          BY <2>7 DEF AtOf
        <4>. HIDE DEF w
        <4>2. \A k \in 0..r - 1 :
                 [l \in 0..c - 1 |-> IF k = i /\ l = j THEN x ELSE h[k * c + l]]
                   = [l \in 0..c - 1 |-> e[k * c + l]]
          BY <3>1
        <4>. QED BY <4>1, <4>2 DEF AtOf
      <3>. QED BY <3>2, <3>3 DEF View
    <2>. HIDE DEF e
    <2>10. call' = <<"make", o, View(r, c, e)>>
      BY <2>1, <2>9
    <2>. QED BY <2>1, <2>3, <2>5, <2>8, <2>10, WriteFollows DEF r, c
  <1>. QED BY <1>1, <1>2

LEMMA RowFollows ==
    ASSUME MatrixInv, NEW o \in Slot, NEW r1 \in Counts, NEW x \in F,
           row_multiply(o, r1, x)
    PROVE  Follows
  <1>1. CASE call' = <<"fail", o>> /\ UNCHANGED heap
    BY <1>1, FailFollows DEF row_multiply
  <1>2. CASE ~(call' = <<"fail", o>> /\ UNCHANGED heap) /\ ~Holds(o)
    <2>. DEFINE r == m_rows[o]
                c == m_cols[o]
                d == heap[m_array[o]]
                at == AtOf(r, c, d)
                w  == [at EXCEPT ![r1] = [j \in DOMAIN at[r1] |-> Times(at[r1][j], x)]]
    <2>1. /\ r1 < r /\ UNCHANGED <<m_rows, m_cols, m_array>>
          /\ heap' = [id \in Arrays |->
                        IF id # m_array[o] THEN heap[id]
                        ELSE [k \in DOMAIN heap[id] |->
                                IF k \div c = r1
                                THEN Times(heap[id][k], x) ELSE heap[id][k]]]
          /\ call' = <<"make", o, [Val(o) EXCEPT !.at[r1] =
                                     [j \in DOMAIN @ |-> Times(@[j], x)]]>>
      BY <1>2 DEF row_multiply
    <2>2. UNCHANGED heap
      BY <1>2, <2>1, MatrixAssumption DEF Holds, MatrixInv, MatrixTyped
    <2>3. /\ r1 \in Nat /\ r \in Nat /\ c \in Nat /\ r * c = 0
          /\ r \in Counts /\ c \in Counts
      BY <1>2, ShapeFacts, CountFacts
    <2>4. Val(o) = View(r, c, d)
      BY ValIsView
    <2>5. MatrixInv' /\ NoneLost /\ \A q \in Slot : Val(q)' = Val(q)
      BY <2>1, <2>2, Kept
    <2>6. [Val(o) EXCEPT !.at[r1] = [j \in DOMAIN @ |-> Times(@[j], x)]]
            = [rows |-> r, cols |-> c, at |-> w]
      <3>. HIDE DEF r, c, d
      <3>. QED BY <2>4 DEF View
    <2>. HIDE DEF r, c, d
    <2>7. c = 0 /\ 0..0 - 1 = {} /\ r1 \in 0..r - 1
      BY <2>1, <2>3
    <2>8. w = at /\ at \in Ats(r, c)
      BY <2>7 DEF AtOf, Ats
    <2>. HIDE DEF w
    <2>9. call' = <<"make", o, View(r, c, d)>>
      BY <2>1, <2>6, <2>8 DEF View
    <2>10. MatrixValues!Next
      BY <2>3, <2>4, <2>5, <2>8, <2>9, MadeIs DEF View, Others
    <2>. QED BY <2>5, <2>10, NoneLostFollows DEF Follows
  <1>3. CASE ~(call' = <<"fail", o>> /\ UNCHANGED heap) /\ Holds(o)
    <2>. DEFINE r == m_rows[o]
                c == m_cols[o]
                h == heap[m_array[o]]
                e == [k \in DOMAIN h |-> IF k \div c = r1 THEN Times(h[k], x)
                                                          ELSE h[k]]
    <2>1. /\ r1 < r /\ UNCHANGED <<m_rows, m_cols, m_array>>
          /\ heap' = [id \in Arrays |->
                        IF id # m_array[o] THEN heap[id]
                        ELSE [k \in DOMAIN heap[id] |->
                                IF k \div c = r1
                                THEN Times(heap[id][k], x) ELSE heap[id][k]]]
          /\ call' = <<"make", o, [Val(o) EXCEPT !.at[r1] =
                                     [j \in DOMAIN @ |-> Times(@[j], x)]]>>
      BY <1>3 DEF row_multiply
    <2>2. r1 \in Nat /\ r \in Nat /\ c \in Nat
      BY CountFacts, ShapeFacts
    <2>3. Holds(o)
      BY <1>3
    <2>4. /\ r \in Counts /\ c \in Counts /\ h \in Elements(r, c)
          /\ r \in Nat /\ c \in Nat
      BY <2>3, HeldFacts, CountFacts
    <2>5. heap' = [heap EXCEPT ![m_array[o]] = e]
      BY <2>1, <2>3, HeldFacts DEF MatrixInv, MatrixTyped
    <2>6. Val(o) = View(r, c, h)
      BY ValIsView
    <2>. HIDE DEF r, c, h
    <2>7. r1 \in 0..r - 1
      BY <2>1, <2>2
    <2>8. e \in Elements(r, c)
      BY <2>4, ElementsAssumption DEF Elements
    <2>9. [Val(o) EXCEPT !.at[r1] = [j \in DOMAIN @ |-> Times(@[j], x)]]
            = View(r, c, e)
      <3>1. ASSUME NEW k \in 0..r - 1, NEW l \in 0..c - 1
            PROVE  e[k * c + l] = IF k = r1 THEN Times(h[k * c + l], x)
                                            ELSE h[k * c + l]
        <4>1. k * c + l \in DOMAIN h
          BY <2>4, OffsetIn DEF Elements
        <4>2. (k * c + l) \div c = k
          BY <2>4, OffsetOf
        <4>. QED BY <4>1, <4>2
      <3>. DEFINE at == AtOf(r, c, h)
                  w  == [at EXCEPT ![r1] = [j \in DOMAIN at[r1] |-> Times(at[r1][j], x)]]
      <3>2. [Val(o) EXCEPT !.at[r1] = [j \in DOMAIN @ |-> Times(@[j], x)]]
              = [rows |-> r, cols |-> c, at |-> w]
        BY <2>6 DEF View
      <3>3. w = AtOf(r, c, e)
        <4>. HIDE DEF e
        <4>1. w = [k \in 0..r - 1 |-> [l \in 0..c - 1 |->
                     IF k = r1 THEN Times(h[k * c + l], x) ELSE h[k * c + l]]]
          BY <2>7 DEF AtOf
        <4>. HIDE DEF w
        <4>2. \A k \in 0..r - 1 :
                 [l \in 0..c - 1 |-> IF k = r1 THEN Times(h[k * c + l], x) ELSE h[k * c + l]]
                   = [l \in 0..c - 1 |-> e[k * c + l]]
          BY <3>1
        <4>. QED BY <4>1, <4>2 DEF AtOf
      <3>. QED BY <3>2, <3>3 DEF View
    <2>. HIDE DEF e
    <2>10. call' = <<"make", o, View(r, c, e)>>
      BY <2>1, <2>9
    <2>. QED BY <2>1, <2>3, <2>5, <2>8, <2>10, WriteFollows DEF r, c
  <1>. QED BY <1>1, <1>2, <1>3

(***************************************************************************)
(* Arithmetic.  A result that has the elements that are meant.             *)
(***************************************************************************)
LEMMA ResultFollows ==
    ASSUME MatrixInv, NEW o \in Slot,
           NEW r \in Counts, NEW c \in Counts, NEW at \in Ats(r, c), NEW mr,
           mr = [rows |-> r, cols |-> c, at |-> at], Result(o, mr, mr)
    PROVE  Follows
  <1>. DEFINE e == Flat(r, c, at)
  <1>1. mr.rows = r /\ mr.cols = c /\ mr.at = at
    OBVIOUS
  <1>2. Allocate(o, r, c, e, Dropped(o)) /\ call' = <<"make", o, mr>>
    BY <1>1 DEF Result, Flat
  <1>3. e \in Elements(r, c) /\ AtOf(r, c, e) = at
    BY FlatTyped
  <1>. HIDE DEF e
  <1>4. MatrixInv' /\ Others(o) /\ Val(o)' = View(r, c, e)
          /\ LostAt(o) /\ Replaced(o)
    BY <1>2, <1>3, Allocated
  <1>5. Val(o)' = mr
    BY <1>3, <1>4 DEF View
  <1>6. MatrixValues!Next
    BY <1>2, <1>4, <1>5, MadeIs
  <1>7. LostInCall
    BY <1>2, <1>4, LostAtFollows
  <1>. QED BY <1>4, <1>6, <1>7 DEF Follows

\* An element there is, as the value has it.
LEMMA ElementFacts ==
    ASSUME MatrixInv, NEW p \in Slot
    PROVE  /\ m_rows[p] \in Counts /\ m_cols[p] \in Counts
           /\ \A i \in 0..m_rows[p] - 1, j \in 0..m_cols[p] - 1 :
                 El(p, i, j) \in F /\ Val(p).at[i][j] = El(p, i, j)
  <1>. DEFINE r == m_rows[p]
              c == m_cols[p]
              h == heap[m_array[p]]
  <1>1. r \in Counts /\ c \in Counts /\ r \in Nat /\ c \in Nat
    BY ShapeFacts
  <1>2. \A i \in 0..r - 1, j \in 0..c - 1 :
           i * c + j \in 0..r * c - 1 /\ h \in Elements(r, c)
    BY <1>1, OffsetIn, ShapeFacts, HeldFacts
  <1>3. \A i, j : El(p, i, j) = h[i * c + j]
    BY DEF El
  <1>4. Val(p).at = [i \in 0..r - 1 |-> [j \in 0..c - 1 |-> El(p, i, j)]]
    BY DEF Val, Matrix
  <1>. HIDE DEF r, c, h
  <1>5. \A i \in 0..r - 1, j \in 0..c - 1 : El(p, i, j) \in F
    BY <1>1, <1>2, <1>3 DEF Elements
  <1>6. \A i \in 0..r - 1, j \in 0..c - 1 : Val(p).at[i][j] = El(p, i, j)
    BY <1>4
  <1>. QED BY <1>1, <1>5, <1>6 DEF r, c

LEMMA TransposeFollows ==
    ASSUME MatrixInv, NEW o \in Slot, NEW p \in Slot, transpose(o, p)
    PROVE  Follows
  <1>. DEFINE r  == m_rows[p]
              c  == m_cols[p]
              at == [i \in 0..c - 1 |-> [j \in 0..r - 1 |-> El(p, j, i)]]
              wt == [i \in 0..c - 1 |-> [j \in 0..r - 1 |-> Val(p).at[j][i]]]
              mr == [rows |-> c, cols |-> r, at |-> at]
  <1>1. Result(o, mr, [rows |-> c, cols |-> r, at |-> wt])
    BY DEF transpose, Matrix
  <1>2. /\ r \in Counts /\ c \in Counts
        /\ \A j \in 0..r - 1, i \in 0..c - 1 :
              El(p, j, i) \in F /\ Val(p).at[j][i] = El(p, j, i)
    BY <1>1, ElementFacts
  <1>. HIDE DEF r, c
  <1>3. at \in Ats(c, r)
    BY <1>2 DEF Ats
  <1>4. wt = at
    BY <1>2
  <1>. HIDE DEF at, wt
  <1>5. Result(o, mr, mr)
    BY <1>1, <1>4
  <1>. HIDE DEF mr
  <1>6. mr = [rows |-> c, cols |-> r, at |-> at]
    BY DEF mr
  <1>. QED BY <1>2, <1>3, <1>5, <1>6, ResultFollows

LEMMA ApplyTyped ==
    ASSUME NEW op \in {"+", "-", "*", "/"}, NEW x \in F, NEW y \in F,
           op = "/" => y # Zero
    PROVE  Apply(op, x, y) \in F
  BY ElementsAssumption DEF Apply

LEMMA ScalarFollows ==
    ASSUME MatrixInv, NEW o \in Slot, NEW p \in Slot,
           NEW op \in {"+", "-", "*", "/"}, NEW x \in F, Scalar(o, p, op, x)
    PROVE  Follows
  <1>. DEFINE r  == m_rows[p]
              c  == m_cols[p]
              v  == [i \in 0..r - 1 |-> [j \in 0..c - 1 |-> El(p, i, j)]]
              at == [i \in 0..r - 1 |-> [j \in 0..c - 1 |-> Apply(op, El(p, i, j), x)]]
              wt == [i \in DOMAIN v |-> [j \in DOMAIN v[i] |-> Apply(op, v[i][j], x)]]
              mr == [rows |-> r, cols |-> c, at |-> at]
  <1>1. Val(p) = [rows |-> r, cols |-> c, at |-> v]
    BY DEF Val, Matrix
  <1>2. (op = "/" => x # Zero)
        /\ Result(o, mr, [Val(p) EXCEPT !.at =
                                 [i \in DOMAIN @ |-> [j \in DOMAIN @[i] |->
                                   Apply(op, @[i][j], x)]]])
    BY DEF Scalar, Matrix
  <1>3. /\ r \in Counts /\ c \in Counts
        /\ \A i \in 0..r - 1, j \in 0..c - 1 : El(p, i, j) \in F
    BY <1>2, ElementFacts
  <1>4. at \in Ats(r, c)
    <2>1. \A i \in 0..r - 1, j \in 0..c - 1 : Apply(op, El(p, i, j), x) \in F
      BY <1>2, <1>3, ApplyTyped
    <2>. QED BY <2>1 DEF Ats
  <1>5. wt = at
    OBVIOUS
  <1>6. [Val(p) EXCEPT !.at = [i \in DOMAIN @ |-> [j \in DOMAIN @[i] |->
                                 Apply(op, @[i][j], x)]]]
          = [rows |-> r, cols |-> c, at |-> wt]
    <2>. HIDE DEF v, r, c
    <2>. QED BY <1>1
  <1>. HIDE DEF r, c, v, at, wt
  <1>7. Result(o, mr, mr)
    BY <1>2, <1>5, <1>6
  <1>. HIDE DEF mr
  <1>8. mr = [rows |-> r, cols |-> c, at |-> at]
    BY DEF mr
  <1>. QED BY <1>3, <1>4, <1>7, <1>8, ResultFollows

LEMMA ElementwiseFollows ==
    ASSUME MatrixInv, NEW o \in Slot, NEW p \in Slot, NEW q \in Slot,
           NEW op \in {"+", "-"}, Elementwise(o, p, q, op)
    PROVE  Follows
  <1>. DEFINE r  == m_rows[p]
              c  == m_cols[p]
              v  == [i \in 0..r - 1 |-> [j \in 0..c - 1 |-> El(p, i, j)]]
              u  == Val(q).at
              at == [i \in 0..r - 1 |-> [j \in 0..c - 1 |->
                       Apply(op, El(p, i, j), El(q, i, j))]]
              wt == [i \in DOMAIN v |-> [j \in DOMAIN v[i] |->
                       Apply(op, v[i][j], u[i][j])]]
              mr == [rows |-> r, cols |-> c, at |-> at]
  <1>1. Val(p) = [rows |-> r, cols |-> c, at |-> v]
    BY DEF Val, Matrix
  <1>2. /\ m_rows[q] = r /\ m_cols[q] = c
        /\ Result(o, mr, [Val(p) EXCEPT !.at =
                                    [i \in DOMAIN @ |-> [j \in DOMAIN @[i] |->
                                      Apply(op, @[i][j], u[i][j])]]])
    BY DEF Elementwise, Matrix
  <1>3. /\ r \in Counts /\ c \in Counts
        /\ \A i \in 0..r - 1, j \in 0..c - 1 : El(p, i, j) \in F
    BY <1>2, ElementFacts
  <1>5. \A i \in 0..r - 1, j \in 0..c - 1 :
           El(q, i, j) \in F /\ u[i][j] = El(q, i, j)
    BY <1>2, ElementFacts
  <1>6. at \in Ats(r, c)
    <2>1. \A i \in 0..r - 1, j \in 0..c - 1 :
             Apply(op, El(p, i, j), El(q, i, j)) \in F
      BY <1>3, <1>5, ApplyTyped
    <2>. QED BY <2>1 DEF Ats
  <1>7. wt = at
    <2>. HIDE DEF u, r, c
    <2>1. wt = [i \in 0..r - 1 |-> [j \in 0..c - 1 |->
                  Apply(op, El(p, i, j), u[i][j])]]
      OBVIOUS
    <2>2. \A i \in 0..r - 1 :
             [j \in 0..c - 1 |-> Apply(op, El(p, i, j), u[i][j])]
               = [j \in 0..c - 1 |-> Apply(op, El(p, i, j), El(q, i, j))]
      BY <1>5
    <2>. HIDE DEF wt
    <2>. QED BY <2>1, <2>2
  <1>8. [Val(p) EXCEPT !.at = [i \in DOMAIN @ |-> [j \in DOMAIN @[i] |->
                                 Apply(op, @[i][j], u[i][j])]]]
          = [rows |-> r, cols |-> c, at |-> wt]
    <2>. HIDE DEF v, r, c, u
    <2>. QED BY <1>1
  <1>. HIDE DEF r, c, v, u, at, wt
  <1>9. Result(o, mr, mr)
    BY <1>2, <1>7, <1>8
  <1>. HIDE DEF mr
  <1>10. mr = [rows |-> r, cols |-> c, at |-> at]
    BY DEF mr
  <1>. QED BY <1>3, <1>6, <1>9, <1>10, ResultFollows

LEMMA ProductFollows ==
    ASSUME MatrixInv, NEW o \in Slot, NEW p \in Slot, NEW q \in Slot,
           Product(o, p, q)
    PROVE  Follows
  <1>. DEFINE r  == m_rows[p]
              n  == m_cols[p]
              c  == m_cols[q]
              pv == Val(p).at
              qv == Val(q).at
              f(i, j) == [t \in 0..n - 1 |-> Times(El(p, i, t), El(q, t, j))]
              g(i, j) == [t \in 0..n - 1 |-> Times(pv[i][t], qv[t][j])]
              at == [i \in 0..r - 1 |-> [j \in 0..c - 1 |-> Sum(f(i, j))]]
              wt == [i \in 0..r - 1 |-> [j \in 0..c - 1 |-> Sum(g(i, j))]]
              mr == [rows |-> r, cols |-> c, at |-> at]
  <1>1. /\ n = m_rows[q]
        /\ Result(o, mr, [rows |-> r, cols |-> c, at |-> wt])
    BY DEF Product, Matrix, Term
  <1>2. /\ r \in Counts /\ n \in Counts
        /\ \A i \in 0..r - 1, t \in 0..n - 1 :
              El(p, i, t) \in F /\ pv[i][t] = El(p, i, t)
    BY <1>1, ElementFacts
  <1>3. /\ c \in Counts
        /\ \A t \in 0..n - 1, j \in 0..c - 1 :
              El(q, t, j) \in F /\ qv[t][j] = El(q, t, j)
    BY <1>1, ElementFacts
  <1>. HIDE DEF r, n, c, pv, qv
  <1>4. ASSUME NEW i \in 0..r - 1, NEW j \in 0..c - 1
        PROVE  f(i, j) = g(i, j) /\ f(i, j) \in [0..n - 1 -> F]
    <2>1. \A t \in 0..n - 1 : Times(El(p, i, t), El(q, t, j)) \in F
      BY <1>2, <1>3, ElementsAssumption
    <2>2. f(i, j) \in [0..n - 1 -> F]
      BY <2>1
    <2>3. f(i, j) = g(i, j)
      BY <1>2, <1>3
    <2>. QED BY <2>2, <2>3
  <1>. HIDE DEF f, g
  <1>5. at \in Ats(r, c)
    <2>1. \A i \in 0..r - 1, j \in 0..c - 1 : Sum(f(i, j)) \in F
      BY <1>2, <1>4, ElementsAssumption
    <2>. QED BY <2>1 DEF Ats
  <1>6. wt = at
    BY <1>4
  <1>. HIDE DEF at, wt
  <1>7. Result(o, mr, mr)
    BY <1>1, <1>6
  <1>. HIDE DEF mr
  <1>8. mr = [rows |-> r, cols |-> c, at |-> at]
    BY DEF mr
  <1>. QED BY <1>2, <1>3, <1>5, <1>7, <1>8, ResultFollows

-----------------------------------------------------------------------------
LEMMA MatrixInit == Init => MatrixInv /\ MatrixValues!Init
  <1>. SUFFICES ASSUME Init PROVE MatrixInv /\ MatrixValues!Init
    OBVIOUS
  <1>1. \A o \in Slot : ~Holds(o) /\ m_rows[o] = 0 /\ m_cols[o] = 0
    BY DEF Init, Holds
  <1>2. MatrixTyped
    BY CountFacts DEF Init, MatrixTyped
  <1>3. ArraysOwned
    BY <1>1 DEF Init, ArraysOwned
  <1>4. \A o \in Slot : Val(o) = NoMatrix
    BY <1>1, ValIsView, NoMatrixView
  <1>5. MatrixValues!Init
    BY <1>4 DEF Init, MatrixValues!Init
  <1>. QED BY <1>2, <1>3, <1>5 DEF MatrixInv

LEMMA MatrixNext == MatrixInv /\ Next => Follows
  BY ConstructFollows, DestroyFollows, CopyFollows, MoveFollows, SetFollows,
     RowFollows, TransposeFollows, ScalarFollows, ElementwiseFollows,
     ProductFollows DEF Next

LEMMA MatrixStep == MatrixInv /\ [Next]_vars => MatrixInv'
  BY MatrixNext, Kept DEF vars, Follows

(***************************************************************************)
(* Every array that is allocated belongs to one object that has its shape, *)
(* or was lost: none is freed twice or used after it was freed.            *)
(***************************************************************************)
THEOREM OwnedHolds == Spec => []ArraysOwned
  BY MatrixInit, MatrixStep, PTL DEF Spec, MatrixInv

(***************************************************************************)
(* An array is lost only in a step that assigns its object another matrix  *)
(* by a move, or the result of an operator, and gives it another array.    *)
(***************************************************************************)
THEOREM LostHolds == Spec => LostOnlyByMove
  <1>1. MatrixInv /\ [Next]_vars =>
          [\A id \in Arrays : heap[id] # Lost /\ heap'[id] = Lost =>
              \E o \in Slot :
                 /\ m_array[o] = id /\ m_array'[o] # id
                 /\ \/ \E p \in Slot \ {o} : MoveAssign(o, p)
                    \/ call'[1] = "make" /\ call'[2] = o]_vars
    BY MatrixNext DEF Follows, LostInCall
  <1>. QED BY <1>1, MatrixInit, MatrixStep, PTL DEF Spec, LostOnlyByMove

(***************************************************************************)
(* Matrices are values: every step gives the object it is applied to what  *)
(* the operation gives of its operands, and changes no other.              *)
(***************************************************************************)
THEOREM ImplementsValueObjects == Spec => KeepsValues
  <1>1. MatrixInv /\ [Next]_vars
          => [MatrixValues!Next]_<<[o \in Slot |-> Val(o)], call>>
    <2>. SUFFICES ASSUME MatrixInv, [Next]_vars, ~MatrixValues!Next
                  PROVE  UNCHANGED <<[o \in Slot |-> Val(o)], call>>
      OBVIOUS
    <2>1. UNCHANGED vars
      BY MatrixNext DEF Follows
    <2>2. UNCHANGED call /\ \A q \in Slot : Val(q)' = Val(q)
      BY <2>1, Kept DEF vars
    <2>. QED BY <2>2
  <1>. QED BY <1>1, MatrixInit, MatrixStep, PTL
           DEF Spec, KeepsValues, MatrixValues!Spec

=============================================================================
