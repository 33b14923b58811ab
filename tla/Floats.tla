------------------------------- MODULE Floats -------------------------------
(***************************************************************************)
(* Binary floating point with a short significand: an integer count of     *)
(* some smallest unit, rounded to Mantissa bits, to nearest, ties to even. *)
(* It stands for f64, whose 53 bits make every i64 above 2^53 inexact and  *)
(* round i64::MAX up to 2^63.                                              *)
(***************************************************************************)
EXTENDS Integers

CONSTANT Mantissa       \* the bits of a float's significand

AbsOf(n) == IF n < 0 THEN -n ELSE n

Exponent(n) == CHOOSE e \in 0 .. 12 : /\ AbsOf(n) < 2 ^ (Mantissa + e)
                                      /\ e = 0 \/ AbsOf(n) >= 2 ^ (Mantissa + e - 1)

Ulp(n) == 2 ^ Exponent(n)

RoundMag(n, u) == LET q == n \div u  r == n % u
                  IN  IF 2 * r > u \/ (2 * r = u /\ q % 2 = 1) THEN (q + 1) * u ELSE q * u

RoundF(n) == (IF n < 0 THEN -1 ELSE 1) * RoundMag(AbsOf(n), Ulp(n))

=============================================================================
