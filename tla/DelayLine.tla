------------------------------- MODULE DelayLine -------------------------------
(***************************************************************************)
(* What the echo promises, without its circular buffer: each output is the  *)
(* input and, attenuated, the output of DELAY blocks before.                *)
(***************************************************************************)
EXTENDS FixedPoint

CONSTANTS DELAY, GAIN

VARIABLES input,    \* the sample mixed last
          past      \* the last DELAY outputs, the most recent one first

Init == input = 0 /\ past = [k \in 1 .. DELAY |-> 0]

Next ==
  /\ input' \in Samples
  /\ past' = [k \in 1 .. DELAY |->
                IF k = 1 THEN FIXED_ADD_SATURATE(input', FIXED_MULTIPLY(past[DELAY], GAIN))
                ELSE past[k - 1]]

Spec == Init /\ [][Next]_<<input, past>>
=============================================================================
