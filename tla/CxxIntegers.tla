---------------------------- MODULE CxxIntegers ----------------------------
(***************************************************************************)
(* Division of integers as C++ defines it: the quotient is cut toward      *)
(* zero, and the remainder has the sign of the dividend.                   *)
(***************************************************************************)
EXTENDS Integers

Magnitude(a) == IF a < 0 THEN -a ELSE a

Quotient(a, b) == IF a >= 0 THEN a \div b ELSE -((-a) \div b)

Remainder(a, b) == IF a >= 0 THEN a % b ELSE -((-a) % b)

=============================================================================
