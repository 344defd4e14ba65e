------------------------------ MODULE FixedPoint ------------------------------
(***************************************************************************)
(* The 16-bit fixed-point arithmetic of integer_math.h that the synthesizer *)
(* uses.  FULL stands for INT16_MAX; a factor of FULL + 1 would be one.     *)
(* `\div' rounds down, as the arithmetic right shift of a negative product. *)
(***************************************************************************)
EXTENDS Integers

CONSTANT FULL               \* INT16_MAX

ASSUME FixedPointAssumption == FULL \in Nat \ {0}

Samples == -FULL - 1 .. FULL

\* saturate16: the ssat instruction.
saturate16(s) == IF s > FULL THEN FULL ELSE IF s < -FULL - 1 THEN -FULL - 1 ELSE s

FIXED_ADD_SATURATE(a, b) == saturate16(a + b)

FIXED_MULTIPLY(a, b) == (a * b) \div (FULL + 1)
=============================================================================
