----------------------------- MODULE TickProvider -----------------------------
(***************************************************************************)
(* audio/tick_provider.c: a 32-bit phase that grows by a constant with each *)
(* block and notifies the subscribers when it overflows.  There is one      *)
(* subscriber, synthesizer_tick, from audio_process_init on.                *)
(***************************************************************************)
EXTENDS Integers

CONSTANTS TICK_PHASES,     \* the values of the uint32_t _phase_accumulate
          TICK_STEP        \* _phase_increment, at a number of beats per minute

\* tick_provider_set_bpm below 250 beats per minute: less than a tick per block.
ASSUME TickAssumption ==
  TICK_PHASES \in Nat \ {0} /\ TICK_STEP \in 1 .. TICK_PHASES - 1

Phases == 0 .. TICK_PHASES - 1

PhaseAfter_Reset(phase) ==
  IF phase + TICK_STEP >= TICK_PHASES THEN 0 ELSE phase + TICK_STEP
PhaseAfter(phase) == (phase + TICK_STEP) % TICK_PHASES

\* An overflow is seen by the phase being less than before.
Overflows(phase) == PhaseAfter(phase) < phase
=============================================================================
