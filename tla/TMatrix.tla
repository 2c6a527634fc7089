------------------------------ MODULE TMatrix ------------------------------
(***************************************************************************)
(* TMatrix of include/mars/matrix.h: objects with a shape and an array     *)
(* they own, and the arithmetic on them.  Arrays are flat, row by row, and *)
(* rows and columns are counted from 0 as in the code.  A result is built  *)
(* in an object of the operator's own and moved to where it is wanted.     *)
(***************************************************************************)
EXTENDS Integers, Functions, FiniteSetsExt

CONSTANTS
    Slot,                     \* TMatrix objects
    Shapes,                   \* <<rows, cols>> of the matrices made
    F, Zero,                  \* the elements
    Plus(_, _), Less(_, _),   \* operator+ and operator-
    Times(_, _), Over(_, _),  \* operator* and operator/
    Null,                     \* nullptr
    Arrays,                   \* bound: arrays there are at a time
    Free,                     \* what an array holds that is not allocated
    Lost                      \* one nothing points to and nobody freed

\* Numbers of rows and columns of the matrices there are, and indexes used.
Counts == {0} \cup UNION {{shape[1], shape[2]} : shape \in Shapes}

\* new T[rows * cols], its elements given by their offsets
Elements(rows, cols) == [0..rows * cols - 1 -> F]

ASSUME MatrixAssumption ==
    /\ Shapes \subseteq Nat \X Nat
    /\ Zero \in F /\ Null \notin Arrays
    /\ Free # Lost
    /\ \A r, c \in Counts : {Free, Lost} \cap Elements(r, c) = {}

VARIABLES
    m_rows, m_cols, m_array,  \* of each object
    heap,                     \* the elements of each array, if allocated
    call                      \* the last call, its result as it should be

vars == <<m_rows, m_cols, m_array, heap, call>>

Unused == {id \in Arrays : heap[id] = Free}

Init ==
    /\ m_rows = [o \in Slot |-> 0] /\ m_cols = [o \in Slot |-> 0]
    /\ m_array = [o \in Slot |-> Null]
    /\ heap = [id \in Arrays |-> Free]
    /\ call = <<"start">>

-----------------------------------------------------------------------------
(***************************************************************************)
(* What an object means: [rows, cols, at], the element of row i, column j  *)
(* at[i][j].                                                               *)
(***************************************************************************)
Matrix(rows, cols, at(_, _)) ==
    [rows |-> rows, cols |-> cols,
     at |-> [i \in 0..rows - 1 |-> [j \in 0..cols - 1 |-> at(i, j)]]]

NoMatrix == Matrix(0, 0, LAMBDA i, j : Zero)

\* operator()(row, col) with a row and a column there are.
El(o, i, j) == heap[m_array[o]][i * m_cols[o] + j]

Val(o) == Matrix(m_rows[o], m_cols[o], LAMBDA i, j : El(o, i, j))

Holds(o) == m_array[o] # Null

-----------------------------------------------------------------------------
(***************************************************************************)
(* Objects.  A constructor makes a new object in the place of o, which     *)
(* holds no array: it was destroyed, or is new.                            *)
(***************************************************************************)
\* heap without the array of o, and with what a new array id holds.
Released(o) == [id \in Arrays |-> IF id = m_array[o] THEN Free ELSE heap[id]]

Shape(o, rows, cols, id) ==
    /\ m_rows' = [m_rows EXCEPT ![o] = rows]
    /\ m_cols' = [m_cols EXCEPT ![o] = cols]
    /\ m_array' = [m_array EXCEPT ![o] = id]

(***************************************************************************)
(* An array for o of so many rows and columns, with these elements, where  *)
(* heap is what the others are: none is allocated for no elements.         *)
(***************************************************************************)
Allocate(o, rows, cols, elements, others) ==
    \/ /\ rows * cols = 0
       /\ Shape(o, rows, cols, Null)
       /\ heap' = others
    \/ /\ rows * cols > 0
       /\ \E id \in Unused :
             /\ Shape(o, rows, cols, id)
             /\ heap' = [others EXCEPT ![id] = elements]

\* From an array, with one value everywhere, or with elements left unset.
Construct(o) ==
    /\ ~Holds(o)
    /\ \E shape \in Shapes : \E elements \in Elements(shape[1], shape[2]) :
          /\ Allocate(o, shape[1], shape[2], elements, heap)
          /\ call' = <<"make", o, Matrix(shape[1], shape[2], LAMBDA i, j :
                                           elements[i * shape[2] + j])>>

Destroy(o) ==
    /\ Shape(o, 0, 0, Null)
    /\ heap' = Released(o)
    /\ call' = <<"drop", o>>

\* A copy assignment that does not free the array of o.
CopyTo_Leak(o, p) ==
    \E id \in Unused :
        /\ Holds(p)
        /\ Shape(o, m_rows[p], m_cols[p], id)
        /\ heap' = [x \in Arrays |-> CASE x = id -> heap[m_array[p]]
                                        [] x = m_array[o] -> Lost
                                        [] OTHER -> heap[x]]

\* A copy that takes the array and not what is in it.
CopyTo_Shared(o, p) ==
    /\ Shape(o, m_rows[p], m_cols[p], m_array[p])
    /\ heap' = Released(o)

\* The copy constructor and the assignment: the array of o is freed first.
CopyTo(o, p) ==
    \/ /\ Holds(p)
       /\ \E id \in Unused :
             /\ Shape(o, m_rows[p], m_cols[p], id)
             /\ heap' = [Released(o) EXCEPT ![id] = heap[m_array[p]]]
    \/ /\ ~Holds(p)
       /\ Shape(o, m_rows[p], m_cols[p], Null)
       /\ heap' = Released(o)

Copy(o, p) ==
    /\ call' = <<"copy", o, p>>
    /\ \/ o = p /\ UNCHANGED <<m_rows, m_cols, m_array, heap>>
       \/ o # p /\ CopyTo(o, p)

Taken(o, p) ==
    /\ m_rows' = [m_rows EXCEPT ![o] = m_rows[p], ![p] = 0]
    /\ m_cols' = [m_cols EXCEPT ![o] = m_cols[p], ![p] = 0]
    /\ m_array' = [m_array EXCEPT ![o] = m_array[p], ![p] = Null]

MoveConstruct(o, p) ==
    /\ o # p /\ ~Holds(o)
    /\ Taken(o, p)
    /\ call' = <<"move", o, p>>
    /\ UNCHANGED heap

\* The array of the object that is assigned to is not freed.
Dropped(o) == [id \in Arrays |-> IF id = m_array[o] THEN Lost ELSE heap[id]]

MoveAssign(o, p) ==
    /\ call' = <<"move", o, p>>
    /\ \/ o = p /\ UNCHANGED <<m_rows, m_cols, m_array, heap>>
       \/ o # p /\ Taken(o, p) /\ heap' = Dropped(o)

-----------------------------------------------------------------------------
(***************************************************************************)
(* Elements and arithmetic.                                                *)
(***************************************************************************)
\* A write that takes the array column by column.
Write_Columns(o, i, j, x) ==
    heap' = [heap EXCEPT ![m_array[o]][j * m_rows[o] + i] = x]

Write(o, i, j, x) ==
    heap' = [heap EXCEPT ![m_array[o]][i * m_cols[o] + j] = x]

\* set and operator(); out_of_range is thrown for a row or column too high.
set(o, i, j, x) ==
    /\ \/ /\ i >= m_rows[o] \/ j >= m_cols[o]
          /\ call' = <<"fail", o>>
          /\ UNCHANGED heap
       \/ /\ i < m_rows[o] /\ j < m_cols[o]
          /\ Write(o, i, j, x)
          /\ call' = <<"make", o, [Val(o) EXCEPT !.at[i][j] = x]>>
    /\ UNCHANGED <<m_rows, m_cols, m_array>>

row_multiply(o, r1, x) ==
    /\ \/ /\ r1 >= m_rows[o]
          /\ call' = <<"fail", o>>
          /\ UNCHANGED heap
       \/ /\ r1 < m_rows[o]
          /\ heap' = [id \in Arrays |->
                        IF id # m_array[o] THEN heap[id]
                        ELSE [k \in DOMAIN heap[id] |->
                                IF k \div m_cols[o] = r1
                                THEN Times(heap[id][k], x) ELSE heap[id][k]]]
          /\ call' = <<"make", o, [Val(o) EXCEPT !.at[r1] =
                                     [j \in DOMAIN @ |-> Times(@[j], x)]]>>
    /\ UNCHANGED <<m_rows, m_cols, m_array>>

(***************************************************************************)
(* A result mr, moved into o: into an object constructed there, or         *)
(* assigned to the one that is there, an operand or not.  mr is a local    *)
(* object and the operands are const, so that nothing sees mr half done:   *)
(* the loops over its elements are one evaluation.  at are the elements,   *)
(* read from the arrays of the operands and laid out in that of mr; meant  *)
(* is the matrix the operation is meant to give of the operands' values.   *)
(***************************************************************************)
Result(o, mr, meant) ==
    /\ Allocate(o, mr.rows, mr.cols,
                [k \in 0..mr.rows * mr.cols - 1 |->
                   mr.at[k \div mr.cols][k % mr.cols]],
                Dropped(o))
    /\ call' = <<"make", o, meant>>

transpose(o, p) ==
    Result(o,
           Matrix(m_cols[p], m_rows[p], LAMBDA i, j : El(p, j, i)),
           Matrix(m_cols[p], m_rows[p], LAMBDA i, j : Val(p).at[j][i]))

\* operator+, -, * and / of two elements.
Apply(op, x, y) == CASE op = "+" -> Plus(x, y) [] op = "-" -> Less(x, y)
                     [] op = "*" -> Times(x, y) [] op = "/" -> Over(x, y)

\* The four operators of a matrix and a value; over a field, no 0 divides.
Scalar(o, p, op, x) ==
    /\ op = "/" => x # Zero
    /\ Result(o,
              Matrix(m_rows[p], m_cols[p], LAMBDA i, j : Apply(op, El(p, i, j), x)),
              [Val(p) EXCEPT !.at = [i \in DOMAIN @ |->
                                      [j \in DOMAIN @[i] |-> Apply(op, @[i][j], x)]]])

\* operator+ and operator- of two matrices.
Elementwise(o, p, q, op) ==
    /\ m_rows[p] = m_rows[q] /\ m_cols[p] = m_cols[q]
    /\ Result(o,
              Matrix(m_rows[p], m_cols[p],
                     LAMBDA i, j : Apply(op, El(p, i, j), El(q, i, j))),
              [Val(p) EXCEPT !.at = [i \in DOMAIN @ |-> [j \in DOMAIN @[i] |->
                                      Apply(op, @[i][j], Val(q).at[i][j])]]])

Sum(f) == FoldFunction(Plus, Zero, f)

(***************************************************************************)
(* The operators of T return a T, and so does adding up a row of them; a   *)
(* division by 0 may return anything.                                      *)
(***************************************************************************)
ASSUME ElementsAssumption ==
    /\ \A x, y \in F : {Plus(x, y), Less(x, y), Times(x, y)} \subseteq F
    /\ \A x \in F, y \in F \ {Zero} : Over(x, y) \in F
    /\ \A n \in Counts : \A f \in [0..n - 1 -> F] : Sum(f) \in F

Term(p, q, i, j, t) == Times(El(p, i, t), El(q, t, j))

Product(o, p, q) ==
    /\ m_cols[p] = m_rows[q]
    /\ Result(o,
              Matrix(m_rows[p], m_cols[q], LAMBDA i, j :
                 Sum([t \in 0..m_cols[p] - 1 |-> Term(p, q, i, j, t)])),
              Matrix(m_rows[p], m_cols[q], LAMBDA i, j :
                 Sum([t \in 0..m_cols[p] - 1 |->
                        Times(Val(p).at[i][t], Val(q).at[t][j])])))

Next ==
    \/ \E o \in Slot : Construct(o)
    \/ \E o \in Slot : Destroy(o)
    \/ \E o, p \in Slot : Copy(o, p)
    \/ \E o, p \in Slot : MoveConstruct(o, p)
    \/ \E o, p \in Slot : MoveAssign(o, p)
    \/ \E o \in Slot, i, j \in Counts, x \in F : set(o, i, j, x)
    \/ \E o \in Slot, r1 \in Counts, x \in F : row_multiply(o, r1, x)
    \/ \E o, p \in Slot : transpose(o, p)
    \/ \E o, p \in Slot, op \in {"+", "-", "*", "/"}, x \in F : Scalar(o, p, op, x)
    \/ \E o, p, q \in Slot, op \in {"+", "-"} : Elementwise(o, p, q, op)
    \/ \E o, p, q \in Slot : Product(o, p, q)

Spec == Init /\ [][Next]_vars

-----------------------------------------------------------------------------
(***************************************************************************)
(* Properties.                                                             *)
(***************************************************************************)

(***************************************************************************)
(* Every allocated array is the array of exactly one object, has as many   *)
(* elements as its shape says, or was lost; no object points to an array   *)
(* that was freed: so no destructor frees an array twice.  An object       *)
(* without one has no elements, so that none is read or written there.     *)
(***************************************************************************)
ArraysOwned ==
    /\ \A o \in Slot : ~Holds(o) => m_rows[o] * m_cols[o] = 0
    /\ \A o \in Slot : Holds(o) =>
          /\ heap[m_array[o]] \in Elements(m_rows[o], m_cols[o])
          /\ \A p \in Slot \ {o} : m_array[p] # m_array[o]
    /\ \A id \in Arrays :
          heap[id] \notin {Free, Lost} => \E o \in Slot : m_array[o] = id

(***************************************************************************)
(* Matrices are values: each operation gives the object it is applied to   *)
(* the matrix that the mathematical operation gives of the values of its   *)
(* operands, and changes no other object, whatever moves and copies have   *)
(* made of the arrays before.                                              *)
(***************************************************************************)
MatrixValues == INSTANCE ValueObjects
    WITH val <- [o \in Slot |-> Val(o)], None <- NoMatrix,
         Value <- UNION {[rows : {r}, cols : {c},
                          at : [0..r - 1 -> [0..c - 1 -> F]]] : r, c \in Counts}

KeepsValues == MatrixValues!Spec

(***************************************************************************)
(* An array is lost only when the object that holds it is assigned another *)
(* matrix by a move, the result of an operator among them, and gets the    *)
(* array of that matrix: never by a constructor, a copy, a write to its    *)
(* elements, or the destructor.                                            *)
(***************************************************************************)
LostOnlyByMove ==
    [][\A id \in Arrays : heap[id] # Lost /\ heap'[id] = Lost =>
          \E o \in Slot :
             /\ m_array[o] = id /\ m_array'[o] # id
             /\ \/ \E p \in Slot \ {o} : MoveAssign(o, p)
                \/ call'[1] = "make" /\ call'[2] = o]_vars

=============================================================================
