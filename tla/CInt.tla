-------------------------------- MODULE CInt --------------------------------
(***************************************************************************)
(* The C arithmetic the two counter drivers rely on: `int` is stored modulo*)
(* 2^32 (the kernel is built with -fno-strict-overflow, and `+=` converts  *)
(* the sum, a long, back to int), and "%d\n" has one character per digit,  *)
(* one for a minus sign and one for the newline.  Modulus stands for 2^32; *)
(* TLC uses a small one so that the counter really wraps.                  *)
(***************************************************************************)
EXTENDS Integers, FiniteSets

CONSTANT Modulus

ASSUME ModulusAssumption == Modulus \in Nat \ {0}

Half == Modulus \div 2

CInts == -Half .. Modulus - Half - 1

\* The value a C int holds after x is stored into it.
Wrap(x) == ((x + Half) % Modulus) - Half

Abs(x) == IF x < 0 THEN -x ELSE x

\* Length of scnprintf(tmp, 32, "%d\n", x).
TextLen(x) ==
  Cardinality({k \in 0 .. 9 : k = 0 \/ 10^k <= Abs(x)})
    + (IF x < 0 THEN 2 ELSE 1)
=============================================================================
