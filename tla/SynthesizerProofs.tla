--------------------------- MODULE SynthesizerProofs ---------------------------
(***************************************************************************)
(* What is proved of the synthesizer, for any numbers of voices, phases,    *)
(* levels and blocks of delay.                                              *)
(***************************************************************************)
EXTENDS Synthesizer, TLAPS

(* Arithmetic. *)

LEMMA QuotientBounds ==
  ASSUME NEW a \in Int, NEW d \in Nat \ {0}
  PROVE  /\ a \div d \in Int
         /\ d * (a \div d) =< a
         /\ a < d * (a \div d) + d
BY Z3

LEMMA QuotientBetween ==
  ASSUME NEW a \in Int, NEW d \in Nat \ {0}, NEW lo \in Int, NEW hi \in Int,
         d * lo =< a, a < d * (hi + 1)
  PROVE  a \div d \in lo .. hi
<1> DEFINE q == a \div d
<1>1. q \in Int /\ d * q =< a /\ a < d * q + d
  BY QuotientBounds
<1> HIDE DEF q
<1>2. q >= lo
  <2>1. SUFFICES ASSUME q + 1 =< lo PROVE FALSE
    BY <1>1
  <2>2. d * (q + 1) =< d * lo
    BY <1>1, <2>1
  <2> QED
    BY <1>1, <2>2
<1>3. q =< hi
  <2>1. SUFFICES ASSUME hi + 1 =< q PROVE FALSE
    BY <1>1
  <2>2. d * (hi + 1) =< d * q
    BY <1>1, <2>1
  <2> QED
    BY <1>1, <2>2
<1> QED
  BY <1>1, <1>2, <1>3 DEF q

LEMMA RemainderOfOne ==
  ASSUME NEW d \in Nat \ {0}, NEW a \in 0 .. d - 1
  PROVE  /\ a % d = a
         /\ (a + d) % d = a
         /\ (a - d) % d = a
OBVIOUS

LEMMA SumInRange ==
  ASSUME NEW d \in Nat \ {0}, NEW a \in 0 .. d - 1, NEW b \in 0 .. d - 1
  PROVE  /\ (a + b) % d \in 0 .. d - 1
         /\ (a + b) % d = IF a + b < d THEN a + b ELSE a + b - d
<1>1. CASE a + b < d
  BY <1>1, RemainderOfOne
<1>2. CASE a + b >= d
  <2>1. a + b - d \in 0 .. d - 1 /\ (a + b - d) + d = a + b
    BY <1>2
  <2> QED
    BY <1>2, <2>1, RemainderOfOne
<1> QED
  BY <1>1, <1>2

LEMMA SaturatedIsSample == \A s \in Int : saturate16(s) \in Samples
BY FixedPointAssumption DEF saturate16, Samples

\* A product with a gain of less than one is no further from zero.
LEMMA ProductBounds == \A b \in Samples : FIXED_MULTIPLY(b, GAIN) \in -GAIN .. GAIN
<1> TAKE b \in Samples
<1> DEFINE a == b * GAIN
           d == FULL + 1
<1>1. d \in Nat \ {0} /\ GAIN \in Nat /\ b \in Int /\ -d =< b /\ b =< d
  BY FixedPointAssumption, EchoAssumption DEF Samples
<1>2. a \in Int /\ d * (-GAIN) =< a /\ a =< d * GAIN
  <2>1. (-d) * GAIN =< a /\ a =< d * GAIN
    BY <1>1
  <2> QED
    BY <1>1, <2>1
<1>3. a < d * (GAIN + 1) /\ -GAIN \in Int
  BY <1>1, <1>2
<1> HIDE DEF a, d
<1>4. a \div d \in -GAIN .. GAIN
  BY <1>1, <1>2, <1>3, QuotientBetween
<1> QED
  BY <1>4 DEF FIXED_MULTIPLY, a, d

LEMMA FadesWithin == \A l \in 0 .. FULL : Faded(l) \in 0 .. l
<1> TAKE l \in 0 .. FULL
<1> DEFINE a == l * (WHOLE - FADE)
<1>1. a \in Int /\ 0 =< a /\ a =< WHOLE * l /\ WHOLE \in Nat \ {0} /\ l \in Int
  BY EnvelopeAssumption, FixedPointAssumption
<1>2. WHOLE * 0 =< a /\ a < WHOLE * (l + 1)
  BY <1>1
<1> HIDE DEF a
<1>3. a \div WHOLE \in 0 .. l
  BY <1>1, <1>2, QuotientBetween
<1> QED
  BY <1>3 DEF Faded, a

-----------------------------------------------------------------------------
LEMMA ProcessTypes ==
  \A e \in Envelope, mode \in Modes : effect_envelope_process(e, mode) \in Envelope
<1> TAKE e \in Envelope, mode \in Modes
<1>1. FLOOR \in 0 .. FULL /\ 0 \in 0 .. FULL
  BY EnvelopeAssumption, FixedPointAssumption
<1>2. \A p \in 0 .. PHASES - 1 : LevelAt(p) \in 0 .. FULL
  BY <1>1, EnvelopeAssumption DEF LevelAt
<1>3. (PhaseFrom(e) + STEP) % PHASES \in 0 .. PHASES - 1
  <2>1. PhaseFrom(e) \in 0 .. PHASES - 1 /\ STEP \in 0 .. PHASES - 1 /\ PHASES \in Nat \ {0}
    BY EnvelopeAssumption DEF PhaseFrom, Envelope
  <2> QED
    BY <2>1, SumInRange
<1>4. process_loop(e, mode) \in Envelope
  BY <1>1, <1>2, <1>3 DEF process_loop, set_envelope_state, Envelope
<1>5. process_fade_out(e) \in Envelope
  <2>1. Faded(e.level) \in 0 .. FULL
    BY FadesWithin, FixedPointAssumption DEF Envelope
  <2> QED
    BY <1>1, <2>1 DEF process_fade_out, set_envelope_state, Envelope
<1> QED
  BY <1>4, <1>5 DEF effect_envelope_process

LEMMA EchoTypes ==
  ASSUME NEW e \in Echo, NEW s \in Samples
  PROVE  effect_echo_process(e, s) \in Echo
<1>1. EchoOutput(e, s) \in Samples
  <2>1. FIXED_MULTIPLY(e.buffer[e.tail], GAIN) \in Int
    BY ProductBounds, EchoAssumption DEF Echo
  <2>2. s \in Int
    BY FixedPointAssumption DEF Samples
  <2> QED
    BY <2>1, <2>2, SaturatedIsSample DEF EchoOutput, FIXED_ADD_SATURATE
<1>2. \A i \in Places : Advanced(i) \in Places
  BY EchoAssumption DEF Advanced, Places
<1> QED
  BY <1>1, <1>2 DEF effect_echo_process, Echo

LEMMA TypeInit == Init => TypeOK
<1> SUFFICES ASSUME Init PROVE TypeOK
  OBVIOUS
<1>1. InitialEnvelope \in Envelope
  BY EnvelopeAssumption, FixedPointAssumption DEF InitialEnvelope, Envelope
<1>2. InitialEcho \in Echo
  BY EchoAssumption, FixedPointAssumption DEF InitialEcho, Echo, Places, Samples, TailFor
<1>3. 0 \in Phases /\ 0 \in 0 .. TICK_PHASES - 1 /\ 0 \in Samples
  BY TickAssumption, FixedPointAssumption DEF Phases, Samples
<1> QED
  BY <1>1, <1>2, <1>3 DEF Init, TypeOK

LEMMA NoteTypes ==
  ASSUME NEW e \in [Voices -> Envelope], NEW v \in Voices \cup {NoVoice}
  PROVE  /\ stop_note(e, v) \in [Voices -> Envelope]
         /\ v \in Voices => play_note(e, v) \in [Voices -> Envelope]
BY DEF stop_note, play_note, effect_envelope_start, effect_envelope_end,
       set_envelope_state, Envelope

LEMMA PhaseStep ==
  ASSUME tick_phase \in Phases
  PROVE  /\ PhaseAfter(tick_phase) \in Phases
         /\ Overflows(tick_phase) <=> tick_phase + TICK_STEP >= TICK_PHASES
         /\ PhaseAfter(tick_phase) = IF Overflows(tick_phase)
                                       THEN tick_phase + TICK_STEP - TICK_PHASES
                                       ELSE tick_phase + TICK_STEP
<1>1. /\ TICK_PHASES \in Nat \ {0}
      /\ tick_phase \in 0 .. TICK_PHASES - 1 /\ TICK_STEP \in 0 .. TICK_PHASES - 1
  BY TickAssumption DEF Phases
<1>2. /\ PhaseAfter(tick_phase) \in Phases
      /\ PhaseAfter(tick_phase) = IF tick_phase + TICK_STEP < TICK_PHASES
                                    THEN tick_phase + TICK_STEP
                                    ELSE tick_phase + TICK_STEP - TICK_PHASES
  BY <1>1, SumInRange DEF PhaseAfter, Phases
<1> QED
  BY <1>1, <1>2, TickAssumption DEF Overflows

LEMMA TypeNext == TypeOK /\ [Next]_vars => TypeOK'
<1> SUFFICES ASSUME TypeOK, [Next]_vars PROVE TypeOK'
  OBVIOUS
<1>1. CASE synthesizer_process
  <2>1. envelopes' \in [Voices -> Envelope]
    BY <1>1, ProcessTypes, SynthesizerAssumption DEF synthesizer_process, TypeOK
  <2>2. age' \in [Voices -> Nat]
    BY <1>1 DEF synthesizer_process, TypeOK, AgeAfter
  <2>3. input' \in Samples
    BY <1>1 DEF synthesizer_process, Mixed
  <2>4. echo' \in Echo
    BY <1>1, <2>3, EchoTypes DEF synthesizer_process, TypeOK
  <2> QED
    BY <1>1, <2>1, <2>2, <2>3, <2>4 DEF synthesizer_process, TypeOK, time
<1>2. CASE tick_provider_increment
  <2>1. UNCHANGED voice \/ synthesizer_tick
    BY <1>2 DEF tick_provider_increment
  <2>2. /\ envelopes' \in [Voices -> Envelope]
        /\ amplitude' \in [Voices -> {0, AMPLITUDE}]
        /\ held' \in Voices \cup {NoVoice}
        /\ age' \in [Voices -> Nat]
    <3>1. CASE UNCHANGED voice
      BY <3>1 DEF voice, TypeOK
    <3>2. CASE synthesizer_tick
      <4>1. stop_note(envelopes, held) \in [Voices -> Envelope]
        BY NoteTypes DEF TypeOK
      <4>2. \A v \in Voices : play_note(stop_note(envelopes, held), v) \in [Voices -> Envelope]
        BY <4>1, NoteTypes
      <4>3. AMPLITUDE \in {0, AMPLITUDE}
        OBVIOUS
      <4> HIDE DEF stop_note, play_note, AMPLITUDE
      <4> QED
        BY <3>2, <4>1, <4>2, <4>3 DEF synthesizer_tick, voice, TypeOK
    <3> QED
      BY <2>1, <3>1, <3>2
  <2>3. tick_phase' \in Phases
    BY <1>2, PhaseStep DEF tick_provider_increment, TypeOK
  <2>4. blocks' \in 0 .. TICK_PHASES - 1 /\ ticks' \in Nat
    BY <1>2, TickAssumption DEF tick_provider_increment, TypeOK
  <2> QED
    BY <1>2, <2>2, <2>3, <2>4 DEF tick_provider_increment, TypeOK
<1>3. CASE UNCHANGED vars
  BY <1>3 DEF vars, TypeOK
<1> QED
  BY <1>1, <1>2, <1>3 DEF Next

\* The state of the synthesizer keeps its types: every level and sample fits 16
\* bits, and both indices of the echo stay in its buffer.
THEOREM SynthesizerTypeCorrect == Spec => []TypeOK
BY TypeInit, TypeNext, PTL DEF Spec

-----------------------------------------------------------------------------
TimeInv == ticks * TICK_PHASES + tick_phase = blocks * TICK_STEP

\* When as many blocks are over as a phase has values, the phase is back at 0.
LEMMA PhaseReturns ==
  ASSUME NEW p \in Nat \ {0}, NEW s \in Int, NEW t \in Int, NEW r \in 0 .. p - 1,
         t * p + r = p * s
  PROVE  r = 0
<1> DEFINE k == s - t
<1>1. k \in Int /\ r = p * k
  OBVIOUS
<1> HIDE DEF k
<1>2. k < 1
  <2>1. SUFFICES ASSUME k >= 1 PROVE FALSE
    BY <1>1
  <2>2. p * k >= p * 1
    BY <1>1, <2>1
  <2> QED
    BY <1>1, <2>2
<1>3. k > -1
  <2>1. SUFFICES ASSUME k =< -1 PROVE FALSE
    BY <1>1
  <2>2. p * k =< p * (-1)
    BY <1>1, <2>1
  <2> QED
    BY <1>1, <2>2
<1> QED
  BY <1>1, <1>2, <1>3

LEMMA TimeInvNext == TypeOK /\ TimeInv /\ [Next]_vars => TimeInv'
<1> SUFFICES ASSUME TypeOK, TimeInv, [Next]_vars PROVE TimeInv'
  OBVIOUS
<1>1. CASE synthesizer_process \/ UNCHANGED vars
  BY <1>1 DEF synthesizer_process, time, vars, TimeInv
<1>2. CASE tick_provider_increment
  <2>1. /\ TICK_PHASES \in Nat \ {0} /\ TICK_STEP \in Int
        /\ tick_phase \in Phases /\ blocks \in Nat /\ ticks \in Nat /\ tick_phase \in Int
    BY TickAssumption DEF TypeOK, Phases
  <2> DEFINE t == IF Overflows(tick_phase) THEN ticks + 1 ELSE ticks
  <2>2. /\ tick_phase' \in 0 .. TICK_PHASES - 1
        /\ tick_phase' = IF Overflows(tick_phase) THEN tick_phase + TICK_STEP - TICK_PHASES
                         ELSE tick_phase + TICK_STEP
    BY <1>2, <2>1, PhaseStep DEF tick_provider_increment, Phases
  <2>3. t * TICK_PHASES + tick_phase' = (blocks + 1) * TICK_STEP
    <3>1. CASE Overflows(tick_phase)
      BY <2>1, <2>2, <3>1 DEF TimeInv
    <3>2. CASE ~Overflows(tick_phase)
      BY <2>1, <2>2, <3>2 DEF TimeInv
    <3> QED
      BY <3>1, <3>2
  <2>4. CASE blocks + 1 = TICK_PHASES
    <3>1. t \in Int
      BY <2>1
    <3> HIDE DEF t
    <3>2. tick_phase' = 0
      BY <2>1, <2>2, <2>3, <2>4, <3>1, PhaseReturns
    <3>3. ticks' = 0 /\ blocks' = 0
      BY <1>2, <2>4 DEF tick_provider_increment
    <3> QED
      BY <2>1, <3>2, <3>3 DEF TimeInv
  <2>5. CASE blocks + 1 # TICK_PHASES
    <3>1. ticks' = t /\ blocks' = blocks + 1
      BY <1>2, <2>5 DEF tick_provider_increment
    <3> QED
      BY <2>3, <3>1 DEF TimeInv
  <2> QED
    BY <2>4, <2>5
<1> QED
  BY <1>1, <1>2 DEF Next

\* The ticks keep the time of the audio, at any number of beats per minute and
\* any width of the accumulator (tick_provider.c 52-66).
THEOREM TicksAlwaysKeepTime == Spec => []TicksKeepTime
<1>1. Init => TimeInv
  BY TickAssumption DEF Init, TimeInv
<1>2. TimeInv => TicksKeepTime
  BY DEF TimeInv, TicksKeepTime
<1> QED
  BY <1>1, <1>2, TimeInvNext, SynthesizerTypeCorrect, PTL DEF Spec

-----------------------------------------------------------------------------
(* A one-shot loop under way has reached the phase of the blocks it played,  *)
(* and a voice that is on is never skipped for want of an amplitude.         *)
LoopInv ==
  \A v \in Voices :
    envelopes[v].state = "LOOP" =>
      /\ amplitude[v] = AMPLITUDE
      /\ Mode[v] # "LOOP" /\ ~envelopes[v].new => envelopes[v].phase = age[v] * STEP

LEMMA AmplitudePositive == AMPLITUDE \in Nat \ {0}
<1> DEFINE a == 2 * FULL + MAX_NOTES
           d == 2 * MAX_NOTES
<1>1. /\ d \in Nat \ {0} /\ a \in Int /\ 1 \in Int /\ FULL + 1 \in Int
      /\ d * 1 =< a /\ a < d * (FULL + 1 + 1)
  BY SynthesizerAssumption, FixedPointAssumption
<1> HIDE DEF a, d
<1>2. a \div d \in 1 .. FULL + 1
  BY <1>1, QuotientBetween
<1> QED
  BY <1>2, FixedPointAssumption DEF AMPLITUDE, a, d

\* One block of a one-shot loop: it goes on just if the period is not over.
LEMMA LoopStep ==
  ASSUME NEW e \in Envelope, e.state = "LOOP", NEW mode \in Modes, mode # "LOOP",
         NEW a \in Nat, ~e.new => e.phase = a * STEP
  PROVE  LET e2 == effect_envelope_process(e, mode)
             a2 == (IF e.new THEN 0 ELSE a) + 1
         IN /\ e2.state = "LOOP" <=> a2 * STEP < PHASES
            /\ e2.state = "LOOP" => ~e2.new /\ e2.phase = a2 * STEP
<1> DEFINE a1 == IF e.new THEN 0 ELSE a
           from == PhaseFrom(e)
           upper == (from + STEP) % PHASES
<1>1. /\ PHASES \in Nat \ {0} /\ STEP \in 1 .. PHASES - 1 /\ STEP \in 0 .. PHASES - 1
      /\ from \in 0 .. PHASES - 1 /\ a1 \in Nat
  BY EnvelopeAssumption DEF PhaseFrom, Envelope
<1>2. from = a1 * STEP
  BY <1>1 DEF PhaseFrom
<1>3. (a1 + 1) * STEP = from + STEP
  BY <1>1, <1>2
<1>4. upper = IF from + STEP < PHASES THEN from + STEP ELSE from + STEP - PHASES
  BY <1>1, SumInRange
<1>5. from < upper <=> (a1 + 1) * STEP < PHASES
  BY <1>1, <1>3, <1>4
<1>6. from < upper => upper = (a1 + 1) * STEP
  BY <1>1, <1>3, <1>4
<1> DEFINE e2 == effect_envelope_process(e, mode)
<1>7. e2 = process_loop(e, mode)
  BY DEF effect_envelope_process
<1>8. /\ e2.state = "LOOP" <=> from < upper
      /\ from < upper => ~e2.new /\ e2.phase = upper
  BY <1>7 DEF process_loop, set_envelope_state, Envelope
<1> HIDE DEF e2, from, upper
<1> QED
  BY <1>5, <1>6, <1>8 DEF e2

LEMMA LoopPlays ==
  ASSUME TypeOK, LoopInv, synthesizer_process, NEW v \in Voices, envelopes[v].state = "LOOP"
  PROVE  /\ Processed(v)
         /\ envelopes'[v] = effect_envelope_process(envelopes[v], Mode[v])
         /\ age'[v] = AgeAfter(v)
BY AmplitudePositive
   DEF TypeOK, LoopInv, synthesizer_process, Processed, effect_envelope_is_active

LEMMA OneShotStep ==
  ASSUME TypeOK, LoopInv, synthesizer_process, NEW v \in Voices,
         envelopes[v].state = "LOOP", Mode[v] # "LOOP"
  PROVE  LET a2 == (IF envelopes[v].new THEN 0 ELSE age[v]) + 1
         IN /\ envelopes'[v].state = "LOOP" <=> a2 * STEP < PHASES
            /\ envelopes'[v].state = "LOOP" =>
                 ~envelopes'[v].new /\ envelopes'[v].phase = a2 * STEP /\ age'[v] = a2
<1>1. envelopes[v] \in Envelope /\ Mode[v] \in Modes /\ age[v] \in Nat
  BY SynthesizerAssumption DEF TypeOK
<1>2. ~envelopes[v].new => envelopes[v].phase = age[v] * STEP
  BY DEF LoopInv
<1>3. /\ envelopes'[v] = effect_envelope_process(envelopes[v], Mode[v])
      /\ age'[v] = AgeAfter(v)
  BY LoopPlays
<1> QED
  BY <1>1, <1>2, <1>3, LoopStep DEF AgeAfter

\* A voice that is not in its loop is not brought into it by a block.
LEMMA OthersStay ==
  ASSUME TypeOK, synthesizer_process, NEW v \in Voices, envelopes'[v].state = "LOOP"
  PROVE  envelopes[v].state = "LOOP"
<1>1. envelopes[v] \in Envelope
  BY DEF TypeOK
<1>2. SUFFICES ASSUME envelopes[v].state # "LOOP" PROVE envelopes'[v].state # "LOOP"
  OBVIOUS
<1>3. \/ envelopes'[v] = envelopes[v]
      \/ envelopes'[v] = effect_envelope_process(envelopes[v], Mode[v])
  BY DEF synthesizer_process
<1>4. effect_envelope_process(envelopes[v], Mode[v]).state # "LOOP"
  <2>1. process_fade_out(envelopes[v]).state # "LOOP" \/ envelopes[v].state # "FADE_OUT"
    BY <1>1 DEF process_fade_out, set_envelope_state, Envelope
  <2> QED
    BY <1>1, <1>2, <2>1 DEF effect_envelope_process, Envelope
<1> QED
  BY <1>2, <1>3, <1>4

LEMMA LoopModeStays ==
  ASSUME TypeOK, LoopInv, synthesizer_process, NEW v \in Voices, envelopes[v].state = "LOOP"
  PROVE  amplitude'[v] = AMPLITUDE
BY DEF LoopInv, synthesizer_process

LEMMA LoopInvNext == TypeOK /\ LoopInv /\ [Next]_vars => LoopInv'
<1> SUFFICES ASSUME TypeOK, LoopInv, [Next]_vars, NEW v \in Voices, envelopes'[v].state = "LOOP"
             PROVE  /\ amplitude'[v] = AMPLITUDE
                    /\ Mode[v] # "LOOP" /\ ~envelopes'[v].new
                         => envelopes'[v].phase = age'[v] * STEP
  BY DEF LoopInv
<1>1. CASE synthesizer_process
  <2>1. envelopes[v].state = "LOOP"
    BY <1>1, OthersStay
  <2> QED
    BY <1>1, <2>1, OneShotStep, LoopModeStays
<1>2. CASE UNCHANGED voice
  BY <1>2 DEF voice, LoopInv
<1>3. CASE synthesizer_tick
  <2>1. envelopes \in [Voices -> Envelope] /\ amplitude \in [Voices -> {0, AMPLITUDE}]
    BY DEF TypeOK
  <2>2. ASSUME NEW u \in Voices \cup {NoVoice}, NEW w \in Voices
        PROVE  \/ stop_note(envelopes, u)[w] = envelopes[w]
               \/ stop_note(envelopes, u)[w].state = "FADE_OUT"
    BY <2>1 DEF stop_note, effect_envelope_end, set_envelope_state, Envelope
  <2>3. held \in Voices \cup {NoVoice} /\ stop_note(envelopes, held) \in [Voices -> Envelope]
    BY NoteTypes DEF TypeOK
  <2>4. CASE held # NoVoice /\ envelopes' = stop_note(envelopes, held) /\ UNCHANGED <<amplitude, age>>
    BY <2>2, <2>3, <2>4 DEF LoopInv
  <2>5. ASSUME NEW w \in Voices,
               envelopes' = play_note(stop_note(envelopes, held), w),
               amplitude' = [amplitude EXCEPT ![w] = AMPLITUDE], UNCHANGED age
        PROVE  /\ amplitude'[v] = AMPLITUDE
               /\ Mode[v] # "LOOP" /\ ~envelopes'[v].new
                    => envelopes'[v].phase = age'[v] * STEP
    <3> DEFINE e == stop_note(envelopes, held)
    <3>1. e \in [Voices -> Envelope]
      BY <2>3
    <3>2. e[v] = envelopes[v] \/ e[v].state = "FADE_OUT"
      BY <2>2, <2>3
    <3> HIDE DEF e
    <3>3. CASE v = w
      <4>1. envelopes'[v].new
        BY <2>5, <3>1, <3>3
           DEF e, play_note, effect_envelope_start, set_envelope_state, Envelope
      <4> QED
        BY <2>1, <2>5, <3>3, <4>1
    <3>4. CASE v # w
      <4>1. envelopes'[v] = e[v] /\ amplitude'[v] = amplitude[v]
        BY <2>1, <2>5, <3>1, <3>4 DEF e, play_note
      <4> QED
        BY <2>5, <3>2, <4>1 DEF LoopInv
    <3> QED
      BY <3>3, <3>4
  <2> QED
    BY <1>2, <1>3, <2>4, <2>5 DEF synthesizer_tick
<1>4. CASE UNCHANGED vars
  BY <1>2, <1>4 DEF vars, voice
<1>5. tick_provider_increment => synthesizer_tick \/ UNCHANGED voice
  BY DEF tick_provider_increment
<1> QED
  BY <1>1, <1>2, <1>3, <1>4, <1>5 DEF Next

\* Every played note has its whole period, for any period, block size and mode
\* but the endless one, and wherever the voice was when it was restarted.
THEOREM OneShotAlwaysWhole == Spec => OneShotIsWhole
<1>1. Init => LoopInv
  BY DEF Init, LoopInv, InitialEnvelope
<1>2. TypeOK /\ LoopInv /\ [Next]_vars =>
        [\A v \in Voices :
           at = "block" /\ envelopes[v].state = "LOOP" /\ Mode[v] # "LOOP"
             => (envelopes'[v].state = "LOOP"
                   <=> ((IF envelopes[v].new THEN 0 ELSE age[v]) + 1) * STEP < PHASES)]_vars
  <2> SUFFICES ASSUME TypeOK, LoopInv, Next, at = "block", NEW v \in Voices,
                      envelopes[v].state = "LOOP", Mode[v] # "LOOP"
               PROVE  envelopes'[v].state = "LOOP"
                        <=> ((IF envelopes[v].new THEN 0 ELSE age[v]) + 1) * STEP < PHASES
    OBVIOUS
  <2>1. synthesizer_process
    BY DEF Next, tick_provider_increment
  <2> QED
    BY <2>1, OneShotStep
<1> QED
  BY <1>1, <1>2, LoopInvNext, SynthesizerTypeCorrect, PTL DEF Spec, OneShotIsWhole

-----------------------------------------------------------------------------
LEMMA Behind ==
  ASSUME NEW d \in Nat \ {0}, NEW h \in 0 .. d - 1, NEW k \in 1 .. d
  PROVE  (h - k) % d = IF k =< h THEN h - k ELSE h + d - k
<1>1. CASE k =< h
  BY <1>1, RemainderOfOne
<1>2. CASE k > h
  <2>1. h + d - k \in 0 .. d - 1 /\ (h + d - k) - d = h - k
    BY <1>2
  <2> QED
    BY <1>2, <2>1, RemainderOfOne
<1> QED
  BY <1>1, <1>2

(* The tail stays the delay behind the head. *)
TailInv == echo.tail = TailFor(echo.head)

LEMMA TailStep ==
  ASSUME NEW h \in Places
  PROVE  Advanced(TailFor(h)) = TailFor(Advanced(h))
BY EchoAssumption DEF Places, Advanced, TailFor

LEMMA TailInvNext == TypeOK /\ TailInv /\ [Next]_vars => TailInv'
<1> SUFFICES ASSUME TypeOK, TailInv, [Next]_vars PROVE TailInv'
  OBVIOUS
<1>1. CASE synthesizer_process
  <2>1. echo.head \in Places
    BY DEF TypeOK, Echo
  <2>2. echo'.tail = Advanced(echo.tail) /\ echo'.head = Advanced(echo.head)
    BY <1>1 DEF synthesizer_process, effect_echo_process
  <2> QED
    BY <2>1, <2>2, TailStep DEF TailInv
<1>2. CASE tick_provider_increment \/ UNCHANGED vars
  BY <1>2 DEF tick_provider_increment, vars, TailInv
<1> QED
  BY <1>1, <1>2 DEF Next

Past == [k \in 1 .. DELAY |-> echo.buffer[(echo.head - k) % BUFFER_SIZE]]

\* One block moves the line by one: what was written last is the most recent.
LEMMA PastStep ==
  ASSUME TypeOK, TailInv, synthesizer_process
  PROVE  Past' = [k \in 1 .. DELAY |->
                    IF k = 1 THEN EchoOutput(echo, input') ELSE Past[k - 1]]
<1> DEFINE h == echo.head
           B == BUFFER_SIZE
<1>1. /\ B \in Nat \ {0} /\ h \in 0 .. B - 1 /\ DELAY \in 1 .. B
      /\ echo.buffer \in [Places -> Samples]
  BY EchoAssumption DEF TypeOK, Echo, Places
<1>2. /\ echo'.head = Advanced(h)
      /\ echo'.buffer = [echo.buffer EXCEPT ![h] = EchoOutput(echo, input')]
  BY DEF synthesizer_process, effect_echo_process
<1>3. Advanced(h) \in 0 .. B - 1
  BY <1>1 DEF Advanced
<1> SUFFICES ASSUME NEW k \in 1 .. DELAY
             PROVE  echo'.buffer[(Advanced(h) - k) % B]
                      = IF k = 1 THEN EchoOutput(echo, input')
                        ELSE echo.buffer[(h - (k - 1)) % B]
  BY <1>1, <1>2 DEF Past
<1>4. k \in 1 .. B
  BY <1>1
<1>5. (Advanced(h) - k) % B = IF k =< Advanced(h) THEN Advanced(h) - k ELSE Advanced(h) + B - k
  BY <1>1, <1>3, <1>4, Behind
<1>6. CASE k = 1
  <2>1. (Advanced(h) - k) % B = h
    BY <1>1, <1>5, <1>6 DEF Advanced
  <2> QED
    BY <1>1, <1>2, <1>6, <2>1 DEF Places
<1>7. CASE k # 1
  <2>1. k - 1 \in 1 .. B /\ k - 1 < B
    BY <1>1, <1>4, <1>7
  <2>2. (h - (k - 1)) % B = IF k - 1 =< h THEN h - (k - 1) ELSE h + B - (k - 1)
    BY <1>1, <2>1, Behind
  <2>3. /\ (Advanced(h) - k) % B = (h - (k - 1)) % B
        /\ (h - (k - 1)) % B \in 0 .. B - 1
        /\ (h - (k - 1)) % B # h
    <3> DEFINE x == (Advanced(h) - k) % B
               y == (h - (k - 1)) % B
    <3>1. /\ x = IF k =< Advanced(h) THEN Advanced(h) - k ELSE Advanced(h) + B - k
          /\ y = IF k - 1 =< h THEN h - (k - 1) ELSE h + B - (k - 1)
      BY <1>5, <2>2
    <3> HIDE DEF x, y
    <3>2. x = y /\ y \in 0 .. B - 1 /\ y # h
      BY <1>1, <1>4, <2>1, <3>1 DEF Advanced
    <3> QED
      BY <3>2 DEF x, y
  <2> QED
    BY <1>1, <1>2, <1>7, <2>3 DEF Places
<1> QED
  BY <1>6, <1>7

\* The circular buffer is a delay line of exactly DELAY blocks, for every size
\* of the buffer and every delay up to all of it.
THEOREM EchoIsDelayLine == Spec => ImplementsDelayLine
<1>1. Init => TailInv
  BY DEF Init, InitialEcho, TailInv
<1>2. Init => Line!Init
  <2> SUFFICES ASSUME Init, NEW k \in 1 .. DELAY
               PROVE  echo.buffer[(echo.head - k) % BUFFER_SIZE] = 0
    BY DEF Init, Line!Init
  <2>1. (0 - k) % BUFFER_SIZE \in Places
    <3>1. BUFFER_SIZE \in Nat \ {0} /\ 0 \in 0 .. BUFFER_SIZE - 1 /\ k \in 1 .. BUFFER_SIZE
      BY EchoAssumption
    <3>2. (0 - k) % BUFFER_SIZE = IF k =< 0 THEN 0 - k ELSE 0 + BUFFER_SIZE - k
      BY <3>1, Behind
    <3> QED
      BY <3>1, <3>2 DEF Places
  <2> QED
    BY <2>1 DEF Init, InitialEcho
<1>3. TypeOK /\ TailInv /\ [Next]_vars => [Line!Next]_<<input, Past>>
  <2> SUFFICES ASSUME TypeOK, TailInv, [Next]_vars
               PROVE  Line!Next \/ UNCHANGED <<input, Past>>
    BY DEF Past
  <2>1. CASE synthesizer_process
    <3>1. input' \in Samples
      BY <2>1 DEF synthesizer_process, Mixed
    <3>2. Past[DELAY] = echo.buffer[echo.tail]
      <4>1. /\ BUFFER_SIZE \in Nat \ {0} /\ echo.head \in 0 .. BUFFER_SIZE - 1
            /\ DELAY \in 1 .. BUFFER_SIZE
        BY EchoAssumption DEF TypeOK, Echo, Places
      <4>2. (echo.head - DELAY) % BUFFER_SIZE = TailFor(echo.head)
        BY <4>1, Behind DEF TailFor
      <4> QED
        BY <4>1, <4>2 DEF Past, TailInv
    <3>3. EchoOutput(echo, input')
            = FIXED_ADD_SATURATE(input', FIXED_MULTIPLY(Past[DELAY], GAIN))
      BY <3>2 DEF EchoOutput
    <3>4. Past' = [k \in 1 .. DELAY |->
                     IF k = 1 THEN EchoOutput(echo, input') ELSE Past[k - 1]]
      BY <2>1, PastStep
    <3> QED
      BY <3>1, <3>3, <3>4 DEF Line!Next, Past, Line!FIXED_ADD_SATURATE,
         Line!FIXED_MULTIPLY, Line!saturate16, Line!Samples,
         FIXED_ADD_SATURATE, FIXED_MULTIPLY, saturate16, Samples
  <2>2. CASE tick_provider_increment \/ UNCHANGED vars
    BY <2>2 DEF tick_provider_increment, vars, Past
  <2> QED
    BY <2>1, <2>2 DEF Next
<1> QED
  BY <1>1, <1>2, <1>3, TailInvNext, SynthesizerTypeCorrect, PTL
     DEF Spec, ImplementsDelayLine, Line!Spec, Past
=============================================================================
