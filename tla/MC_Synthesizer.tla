---------------------------- MODULE MC_Synthesizer ----------------------------
EXTENDS Synthesizer

\* One period has three blocks, whose levels rise, fall and end at the floor.
MCCurve == [p \in 0 .. PHASES - 1 |-> CASE p < 3 -> 1 [] p < 6 -> 3 [] OTHER -> 2]

\* The mode of synthesizer_init, and the one that waits for its stop.
MCMode == [v \in Voices |-> IF v = 0 THEN "ONE_SHOT" ELSE "ONE_SHOT_HOLD"]
=============================================================================
