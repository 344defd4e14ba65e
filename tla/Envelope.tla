------------------------------- MODULE Envelope -------------------------------
(***************************************************************************)
(* dsp/effect_envelope.c as operators on struct effect_envelope: the loop   *)
(* of a started voice, its end after one period, its fade-out.  Times and   *)
(* levels are the integers of the code; the curve is any function of the    *)
(* phase, which stands for the pow() of _calculate_envelope_magnitude.      *)
(***************************************************************************)
EXTENDS FixedPoint

CONSTANTS PHASES,      \* the values of a uint32_t phase accumulator
          STEP,        \* phase_increment * block_size, modulo PHASES
          FLOOR,       \* INT16_MAX * floor_level
          Curve,       \* the level of the envelope at each phase
          FADE, WHOLE  \* fade_out_attenuation is FADE / WHOLE

\* effect_envelope_set_fade_out_attenuation keeps the attenuation positive and
\* at most 1; a floor and a curve are parts of the full scale.
ASSUME EnvelopeAssumption ==
  /\ PHASES \in Nat \ {0} /\ STEP \in 1 .. PHASES - 1
  /\ FLOOR \in 0 .. FULL
  /\ Curve \in [0 .. PHASES - 1 -> 0 .. FULL]
  /\ WHOLE \in Nat \ {0} /\ FADE \in 1 .. WHOLE

FADE_OUT_THRESHOLD == 1

Modes == {"LOOP", "ONE_SHOT", "ONE_SHOT_HOLD"}
Envelope == [state : {"SILENT", "LOOP", "HOLD", "FADE_OUT"},
             new   : BOOLEAN,                \* new_state
             phase : 0 .. PHASES - 1,        \* phase_accumulator
             level : 0 .. FULL]              \* magnitude_next

InitialEnvelope == [state |-> "SILENT", new |-> FALSE, phase |-> 0, level |-> 0]

set_envelope_state(e, s) == [e EXCEPT !.state = s, !.new = TRUE]

effect_envelope_start(e) == set_envelope_state(e, "LOOP")
effect_envelope_end(e) == set_envelope_state(e, "FADE_OUT")
effect_envelope_is_active(e) == e.state # "SILENT"

\* A restarted envelope begins its period anew, at the level it has reached.
PhaseFrom_Stale(e) == e.phase
PhaseFrom(e) == IF e.new THEN 0 ELSE e.phase

\* The level at the end of a block that ends at a phase.
LevelAt(phase) == IF phase = 0 THEN FLOOR ELSE Curve[phase]

\* The period is over when the accumulator wraps, which only counts if the
\* envelope does not loop.
process_loop(e, mode) ==
  LET from  == PhaseFrom(e)
      upper == (from + STEP) % PHASES
      goes  == from < upper \/ mode = "LOOP"
      run   == [e EXCEPT !.new = FALSE, !.phase = upper,
                         !.level = IF goes THEN LevelAt(upper) ELSE FLOOR]
  IN IF goes THEN run
     ELSE set_envelope_state(run, IF mode = "ONE_SHOT" THEN "FADE_OUT" ELSE "HOLD")

Faded_Never(level) == level
Faded(level) == (level * (WHOLE - FADE)) \div WHOLE

process_fade_out(e) ==
  LET end == Faded(e.level)
  IN IF end > FADE_OUT_THRESHOLD THEN [e EXCEPT !.level = end]
     ELSE set_envelope_state([e EXCEPT !.level = 0], "SILENT")

\* effect_envelope_process; a silent or held envelope stays as it is.
effect_envelope_process(e, mode) ==
  CASE e.state = "LOOP"     -> process_loop(e, mode)
    [] e.state = "FADE_OUT" -> process_fade_out(e)
    [] OTHER                -> e
=============================================================================
