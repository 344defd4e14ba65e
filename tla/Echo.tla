--------------------------------- MODULE Echo ---------------------------------
(***************************************************************************)
(* dsp/effect_echo.c as operators on struct effect_echo: a delay line in a  *)
(* circular buffer that is read at the tail and written at the head.  One   *)
(* sample stands for a block: buffer and delay are whole blocks (24000      *)
(* samples of 480), so the samples at one place of their blocks meet only   *)
(* each other.                                                              *)
(***************************************************************************)
EXTENDS FixedPoint

CONSTANTS BUFFER_SIZE,   \* _ECHO_BUF_SIZE, in blocks
          DELAY,         \* delay_samples of effect_echo_set_delay, in blocks
          GAIN           \* feedback_gain, a fixed16

\* The assertion of effect_echo_set_delay, and a feedback of less than one.
ASSUME EchoAssumption ==
  /\ BUFFER_SIZE \in Nat \ {0}
  /\ DELAY \in 1 .. BUFFER_SIZE
  /\ GAIN \in 1 .. FULL

Places == 0 .. BUFFER_SIZE - 1
Echo == [buffer : [Places -> Samples], head : Places, tail : Places]

TailFor_Head(head) == head
TailFor(head) == IF head >= DELAY THEN head - DELAY ELSE head + BUFFER_SIZE - DELAY

\* effect_echo_init, then effect_echo_set_delay.
InitialEcho == [buffer |-> [i \in Places |-> 0], head |-> 0, tail |-> TailFor(0)]

Advanced(i) == IF i + 1 = BUFFER_SIZE THEN 0 ELSE i + 1

EchoOutput(e, sample) ==
  FIXED_ADD_SATURATE(sample, FIXED_MULTIPLY(e.buffer[e.tail], GAIN))

effect_echo_process(e, sample) ==
  [buffer |-> [e.buffer EXCEPT ![e.head] = EchoOutput(e, sample)],
   head   |-> Advanced(e.head),
   tail   |-> Advanced(e.tail)]
=============================================================================
