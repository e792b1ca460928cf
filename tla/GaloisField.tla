---------------------------- MODULE GaloisField ----------------------------
(***************************************************************************)
(* The field the second parity of RAID 6 is computed in (vajra-raid,       *)
(* galois.rs): bytes under exclusive or, multiplied by way of logarithms   *)
(* to the base 2.  The code has Width = 8 and Poly = 285 (0x11D).          *)
(***************************************************************************)
EXTENDS Integers, Folds, Functions

CONSTANTS
  Width, (* bits of an element                                             *)
  Poly   (* the polynomial the elements are reduced by                     *)

ASSUME WidthAssumption == Width \in Nat \ {0} /\ Poly \in Nat

Order == 2 ^ Width - 1
Element == 0 .. Order

(* Exclusive or, bit by bit.                                               *)
Add(a, b) ==
  LET Bit(k) == 2 ^ k * (((a \div 2 ^ k) + (b \div 2 ^ k)) % 2)
  IN  MapThenFoldSet(+, 0, Bit, LAMBDA s : CHOOSE k \in s : TRUE, 0 .. Width)

Doubled(a) == IF 2 * a > Order THEN Add(2 * a, Poly) ELSE 2 * a

(* exp_table: the powers of 2, twice over, so that the sum of two          *)
(* logarithms needs no reduction.                                          *)
Exp[i \in 0 .. 2 * Order + 1] ==
  IF i = 0 THEN 1 ELSE IF i >= Order THEN Exp[i - Order] ELSE Doubled(Exp[i - 1])

Log == [a \in 1 .. Order |-> CHOOSE i \in 0 .. Order - 1 : Exp[i] = a]

Mul(a, b) == IF a = 0 \/ b = 0 THEN 0 ELSE Exp[Log[a] + Log[b]]

(* inv_table.                                                              *)
Inv(a) == IF a = 0 THEN 0 ELSE Exp[(Order - Log[a]) % Order]

GPow(power) == Exp[power % Order]

Sum(f) == FoldFunction(Add, 0, f)

(* A sector lost with P, with Q, and two lost with neither.  The sums run  *)
(* over the columns that are left.                                         *)
WithP(p, sum) == Add(p, sum)
WithQ(q, gsum, x) == Mul(Inv(GPow(x)), Add(q, gsum))
SecondOf(pxy, qxy, x, y) ==
  Mul(Add(qxy, Mul(GPow(x), pxy)), Inv(Add(GPow(y), GPow(x))))
FirstOf(pxy, qxy, x, y) == Add(pxy, SecondOf(pxy, qxy, x, y))

=============================================================================
