------------------------------ MODULE MCMatop ------------------------------
(***************************************************************************)
(* Matop for TLC over the integers modulo a prime: a field, so that what   *)
(* holds of elimination over every field is checked without rounding.      *)
(***************************************************************************)
EXTENDS Matop

CONSTANT Prime

FVal == 0 .. Prime - 1

MinusOneVal == Prime - 1

PlusVal(x, y)  == (x + y) % Prime
TimesVal(x, y) == (x * y) % Prime
OverVal(x, y)  == CHOOSE z \in FVal : (z * y) % Prime = x % Prime

=============================================================================
