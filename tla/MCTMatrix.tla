----------------------------- MODULE MCTMatrix -----------------------------
(***************************************************************************)
(* TMatrix for TLC.  Nothing in it depends on the laws of the elements'    *)
(* arithmetic: two elements do, with a difference that is cut off at 0, so *)
(* that it is neither the sum nor the same with its operands exchanged.    *)
(***************************************************************************)
EXTENDS TMatrix, TLC

PlusVal(x, y)  == (x + y) % 2
LessVal(x, y)  == IF x > y THEN x - y ELSE 0
TimesVal(x, y) == x * y
OverVal(x, y)  == x \div y

ShapesVal == {<<1, 1>>, <<2, 1>>, <<1, 2>>, <<2, 2>>, <<0, 2>>, <<2, 0>>}

Symmetry == Permutations(Slot) \cup Permutations(Arrays)

=============================================================================
