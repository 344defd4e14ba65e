------------------------------ MODULE Synthesizer ------------------------------
(***************************************************************************)
(* synthesizer.c as audio_process.c drives it: for each block the active    *)
(* voices are mixed and pass the echo, and then the audio time advances,    *)
(* which lets the arpeggiator stop and play voices.  All of this runs on    *)
(* the encoder's work queue.                                                *)
(*                                                                         *)
(* Of a voice's waveform the model keeps how loud it may be: a triangle     *)
(* takes every value up to its amplitude.  Of the arpeggiator it keeps that *)
(* at most one voice is held, which Arpeggio.tla shows.                     *)
(***************************************************************************)
EXTENDS Envelope, Echo, TickProvider, FiniteSets

CONSTANTS MAX_NOTES,     \* CONFIG_MAX_NOTES
          Mode           \* effect_envelope_set_mode of each voice

Voices == 0 .. MAX_NOTES - 1
NoVoice == -1

\* Each voice has a part of the full scale that does not round to 0.
ASSUME SynthesizerAssumption ==
  /\ MAX_NOTES \in 1 .. 2 * FULL
  /\ Mode \in [Voices -> Modes]

VARIABLES
  at,          \* what the encoder's work does next: "block" or "tick"
  envelopes,   \* _envelopes
  amplitude,   \* the magnitude of each of _osciillators
  held,        \* the voice the arpeggiator plays, or NoVoice
  input,       \* the sample mixed for this block
  echo,        \* _echo
  tick_phase,  \* _phase_accumulate of tick_provider.c
  age,         \* history: blocks of its loop a voice has played (0 in mode LOOP)
  blocks,      \* history: blocks and ticks since the audio time started, both
  ticks        \* from 0 again after TICK_PHASES blocks

vars == <<at, envelopes, amplitude, held, input, echo, tick_phase, age, blocks, ticks>>
voice == <<envelopes, amplitude, held, age>>
time == <<tick_phase, blocks, ticks>>

\* roundf(INT16_MAX / MAX_NOTES), and the loudest sample UFIXED_MULTIPLY makes
\* of it: half of that.
AMPLITUDE == (2 * FULL + MAX_NOTES) \div (2 * MAX_NOTES)
PEAK == (AMPLITUDE + 1) \div 2

\* synthesizer_init, tick_provider_init.
Init ==
  /\ at = "block"
  /\ envelopes = [v \in Voices |-> InitialEnvelope]
  /\ amplitude = [v \in Voices |-> 0]
  /\ held = NoVoice /\ age = [v \in Voices |-> 0]
  /\ input = 0 /\ echo = InitialEcho
  /\ tick_phase = 0 /\ blocks = 0 /\ ticks = 0

-----------------------------------------------------------------------------
\* A voice is skipped when it is inactive or its oscillator has no amplitude.
Processed(v) == effect_envelope_is_active(envelopes[v]) /\ amplitude[v] # 0

\* What a voice adds is scaled by a level between the one before and after.
Loud(v) == Processed(v) /\ (envelopes[v].level > 0 \/ envelopes'[v].level > 0)

Mixed(n) == {s \in Samples : -(n * PEAK) =< s /\ s =< n * PEAK}

AgeAfter(v) ==
  IF envelopes[v].state = "LOOP" /\ envelopes'[v].state = "LOOP" /\ Mode[v] # "LOOP"
    THEN (IF envelopes[v].new THEN 0 ELSE age[v]) + 1 ELSE 0

synthesizer_process ==
  /\ at = "block"
  /\ envelopes' = [v \in Voices |->
                     IF Processed(v) THEN effect_envelope_process(envelopes[v], Mode[v])
                     ELSE envelopes[v]]
  /\ age' = [v \in Voices |-> IF Processed(v) THEN AgeAfter(v) ELSE age[v]]
  /\ input' \in Mixed(Cardinality({v \in Voices : Loud(v)}))
  /\ echo' = effect_echo_process(echo, input')
  /\ at' = "tick"
  /\ UNCHANGED <<amplitude, held, time>>

-----------------------------------------------------------------------------
stop_note(e, v) == IF v = NoVoice THEN e ELSE [e EXCEPT ![v] = effect_envelope_end(@)]

play_note(e, v) == [e EXCEPT ![v] = effect_envelope_start(@)]

\* synthesizer_tick: arpeggio_tick leaves the voices alone, stops the held one,
\* or stops it and plays the next.
synthesizer_tick ==
  \/ UNCHANGED voice
  \/ /\ held # NoVoice
     /\ envelopes' = stop_note(envelopes, held)
     /\ held' = NoVoice
     /\ UNCHANGED <<amplitude, age>>
  \/ \E v \in Voices :
        /\ envelopes' = play_note(stop_note(envelopes, held), v)
        /\ amplitude' = [amplitude EXCEPT ![v] = AMPLITUDE]
        /\ held' = v
        /\ UNCHANGED age

tick_provider_increment ==
  /\ at = "tick"
  /\ tick_phase' = PhaseAfter(tick_phase)
  /\ IF Overflows(tick_phase) THEN synthesizer_tick ELSE UNCHANGED voice
  /\ LET over == blocks + 1 = TICK_PHASES
     IN /\ blocks' = IF over THEN 0 ELSE blocks + 1
        /\ ticks' = IF over THEN 0
                    ELSE IF Overflows(tick_phase) THEN ticks + 1 ELSE ticks
  /\ at' = "block"
  /\ UNCHANGED <<input, echo>>

Next == synthesizer_process \/ tick_provider_increment

\* Blocks are processed as long as the stream goes on.
Spec == Init /\ [][Next]_vars /\ WF_vars(Next)

-----------------------------------------------------------------------------
\* Types of the variables: both indices of the echo wrap at the end of its
\* buffer (effect_echo.c 44-52), every level fits its 16 bits.
TypeOK ==
  /\ at \in {"block", "tick"}
  /\ envelopes \in [Voices -> Envelope]
  /\ amplitude \in [Voices -> {0, AMPLITUDE}]
  /\ held \in Voices \cup {NoVoice}
  /\ age \in [Voices -> Nat]
  /\ input \in Samples
  /\ echo \in Echo
  /\ tick_phase \in Phases
  /\ blocks \in 0 .. TICK_PHASES - 1
  /\ ticks \in Nat

\* The ticks of tick_provider.c 52-66 keep the time of the audio: after any
\* number of blocks there were as many as the exact product of blocks and step
\* has whole periods in it; no overflow is missed, counted twice or rounded.
TicksKeepTime ==
  at = "block" => ticks * TICK_PHASES + tick_phase = blocks * TICK_STEP

\* A played note has its whole period: the loop of a one-shot envelope ends by
\* itself with the first block that reaches the period, counted from when the
\* voice was (re)started, in whatever state or phase it was then
\* (effect_envelope.c 148-178).
OneShotIsWhole ==
  [][\A v \in Voices :
       at = "block" /\ envelopes[v].state = "LOOP" /\ Mode[v] # "LOOP"
         => (envelopes'[v].state = "LOOP"
               <=> ((IF envelopes[v].new THEN 0 ELSE age[v]) + 1) * STEP < PHASES)]_vars

\* The circular buffer of effect_echo.c 24-70 is a delay line: what it feeds
\* back is the output of exactly DELAY blocks before, across its wrap and for a
\* delay as long as the buffer (500 ms are 24000 samples, all of it).
Line == INSTANCE DelayLine WITH
          past <- [k \in 1 .. DELAY |-> echo.buffer[(echo.head - k) % BUFFER_SIZE]]

ImplementsDelayLine == Line!Spec

\* A voice that begins.
Struck(v) == envelopes[v].state = "LOOP" /\ envelopes[v].new

\* When no more notes are played and those that would sound on are stopped, all
\* voices fall silent and the echo dies away: down to 0, or to -1, at which the
\* rounding of FIXED_MULTIPLY holds a negative sample for ever.
FallsQuiet ==
  <>[](\A v \in Voices : ~Struck(v) /\ (v = held => Mode[v] = "ONE_SHOT"))
    => <>[](/\ \A v \in Voices : envelopes[v].state = "SILENT"
            /\ \A i \in Places : echo.buffer[i] \in {-1, 0})
=============================================================================
