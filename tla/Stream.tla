-------------------------------- MODULE Stream --------------------------------
(***************************************************************************)
(* The streaming life cycle: the CIS callbacks of ble_transmit.c report    *)
(* the link to the queue of stream_control.c; the main thread takes one    *)
(* report at a time and starts or stops audio_process.c; its timer submits *)
(* the encoder work, which encodes a block and sends it while streaming.   *)
(*                                                                         *)
(* The Bluetooth threads are cooperative: a callback is one step.  The     *)
(* encoder's work queue has priority over the main thread: main moves only *)
(* while the encoder has nothing to do or sleeps in ble_trans_iso_tx.  The *)
(* model starts when main.c has finished its initialisation.               *)
(***************************************************************************)
EXTENDS Integers, Sequences, FiniteSets

CONSTANTS Channels,        \* the CIS channels, CONFIG_BT_ISO_MAX_CHAN of them
          QUEUE_SIZE       \* CONTROL_EVENTS_MSGQ_MAX_ELEMENTS

ASSUME StreamAssumption ==
  /\ IsFiniteSet(Channels)
  /\ QUEUE_SIZE \in Nat \ {0}

VARIABLES
  cis,          \* the channels in BT_ISO_STATE_CONNECTED
  queue,        \* _ble_msg_queue
  state,        \* _stream_state
  main,         \* where the main thread is
  started,      \* _audio_codec_started
  initialized,  \* _sw_codec_config.initialized
  codec,        \* m_config.encoder.enabled of sw_codec.c
  timer,        \* _encoder_timer runs
  work,         \* _encoder_work is submitted and not yet taken
  worker,       \* where the encoder's work queue is
  fault,        \* the error that ended the program (ERR_CHK), or "none"
  burst,        \* history: link changes reported since the queue was last
                \* empty, not counted beyond BurstBound
  slept         \* history: the encoder slept since it encoded its last block

vars == <<cis, queue, state, main, started, initialized, codec, timer, work,
          worker, fault, burst, slept>>
audio == <<started, initialized, codec, timer>>
encoder == <<work, worker, slept>>

Events == {"CONNECTED", "LINK_READY", "DISCONNECTED"}
States == {"CONNECTING", "CONNECTED", "LINK_READY", "STREAMING", "PAUSED", "DISCONNECTED"}
BurstBound == 3

Init ==
  /\ cis = {} /\ queue = <<>> /\ burst = 0
  /\ state = "CONNECTING" /\ main = "waiting"
  /\ started = FALSE /\ initialized = FALSE /\ codec = FALSE
  /\ timer = FALSE /\ work = FALSE /\ worker = "idle" /\ slept = FALSE
  /\ fault = "none"

Alive == fault = "none"

-----------------------------------------------------------------------------
(* stream_control_set_status, once per event; the callers' ERR_CHK_MSG ends *)
(* the program when an event finds the queue full.                          *)
HasRoom_Unchecked(events) == TRUE
HasRoom(events) == Len(queue) + Len(events) =< QUEUE_SIZE

report(events) ==
  /\ IF HasRoom(events)
       THEN queue' = queue \o events /\ UNCHANGED fault
       ELSE fault' = "queue" /\ UNCHANGED queue
  /\ burst' = IF burst < BurstBound THEN burst + 1 ELSE burst

LinkUp_Swapped == <<"LINK_READY", "CONNECTED">>
LinkUp == <<"CONNECTED", "LINK_READY">>

\* Only the first connected CIS is reported.
IsFirst_Any(connected) == connected # {}
IsFirst(connected) == Cardinality(connected) = 1

iso_connected_cb(c) ==
  /\ Alive /\ c \notin cis
  /\ cis' = cis \cup {c}
  /\ IF IsFirst(cis') THEN report(LinkUp) ELSE UNCHANGED <<queue, fault, burst>>
  /\ UNCHANGED <<state, main, audio, encoder>>

\* Also called, with c never connected, when a CIS could not be established.
iso_disconnected_cb(c) ==
  /\ Alive
  /\ cis' = cis \ {c}
  /\ IF cis' = {} THEN report(<<"DISCONNECTED">>) ELSE UNCHANGED <<queue, fault, burst>>
  /\ UNCHANGED <<state, main, audio, encoder>>

-----------------------------------------------------------------------------
(* The main thread: stream_control_event_handler.                           *)
MainRuns_NoPriority == Alive
MainRuns == Alive /\ (worker = "sleeping" \/ (worker = "idle" /\ ~work))

ConnectedFrom_Once == {"CONNECTING"}
ConnectedFrom == {"DISCONNECTED", "CONNECTING"}
DisconnectedFrom == {"CONNECTED", "LINK_READY", "PAUSED"}

connected_event ==
  /\ state' = IF state \in ConnectedFrom THEN "CONNECTED" ELSE state
  /\ UNCHANGED main

link_ready_event ==
  /\ main' = IF state = "CONNECTED" THEN "starting" ELSE "waiting"
  /\ UNCHANGED state

disconnected_event ==
  \/ /\ state \in DisconnectedFrom
     /\ state' = "DISCONNECTED" /\ UNCHANGED main
  \/ /\ state = "STREAMING"
     /\ state' = "DISCONNECTED" /\ main' = "stopping"
  \/ /\ state \notin DisconnectedFrom \cup {"STREAMING"}
     /\ UNCHANGED <<state, main>>

event_handler ==
  /\ MainRuns
  /\ main = "waiting" /\ queue # <<>>
  /\ queue' = Tail(queue)
  /\ burst' = IF Len(queue) = 1 THEN 0 ELSE burst
  /\ \/ Head(queue) = "CONNECTED" /\ connected_event
     \/ Head(queue) = "LINK_READY" /\ link_ready_event
     \/ Head(queue) = "DISCONNECTED" /\ disconnected_event
  /\ UNCHANGED <<cis, audio, encoder, fault>>

\* audio_process_start: sw_codec_init refuses a codec that is initialised; the
\* timer is started with no delay.
start_codec ==
  /\ MainRuns /\ main = "starting"
  /\ IF codec
       THEN fault' = "init" /\ UNCHANGED <<codec, initialized, main>>
       ELSE codec' = TRUE /\ initialized' = TRUE /\ main' = "initialized" /\ UNCHANGED fault
  /\ UNCHANGED <<cis, queue, burst, state, started, timer, encoder>>

start_timer ==
  /\ MainRuns /\ main = "initialized"
  /\ timer' = TRUE /\ started' = TRUE /\ main' = "started"
  /\ UNCHANGED <<cis, queue, burst, state, initialized, codec, encoder, fault>>

start_streaming ==
  /\ MainRuns /\ main = "started"
  /\ state' = "STREAMING" /\ main' = "waiting"
  /\ UNCHANGED <<cis, queue, burst, audio, encoder, fault>>

\* audio_process_stop, whose early returns ask for both flags.
MayStop_Inverted == ~started /\ initialized
MayStop == started /\ initialized

stop_timer ==
  /\ MainRuns /\ main = "stopping"
  /\ started' = FALSE
  /\ IF MayStop
       THEN timer' = FALSE /\ main' = "uninit"
       ELSE main' = "waiting" /\ UNCHANGED timer
  /\ UNCHANGED <<cis, queue, burst, state, initialized, codec, encoder, fault>>

stop_codec ==
  /\ MainRuns /\ main = "uninit"
  /\ IF codec
       THEN codec' = FALSE /\ initialized' = FALSE /\ main' = "waiting" /\ UNCHANGED fault
       ELSE fault' = "uninit" /\ UNCHANGED <<codec, initialized, main>>
  /\ UNCHANGED <<cis, queue, burst, state, started, timer, encoder>>

-----------------------------------------------------------------------------
(* The encoder: its timer and its work queue.                               *)
audio_process_work_submit ==
  /\ Alive /\ timer /\ work' = TRUE
  /\ UNCHANGED <<cis, queue, burst, state, main, audio, worker, slept, fault>>

\* _audio_process up to the end of sw_codec_encode.  encoder.enabled is TRUE
\* from the first audio_process_start on.
audio_process ==
  /\ Alive /\ worker = "idle" /\ work
  /\ work' = FALSE
  /\ IF codec
       THEN worker' = "encoded" /\ slept' = FALSE /\ UNCHANGED fault
       ELSE fault' = "encode" /\ UNCHANGED <<worker, slept>>
  /\ UNCHANGED <<cis, queue, burst, state, main, audio>>

\* With both channels connected ble_trans_iso_tx may ask the controller for its
\* anchor point and sleep past it; both suspend the encoder.
encoded_data_send ==
  /\ Alive /\ worker = "encoded"
  /\ \/ worker' = "idle" /\ UNCHANGED slept
     \/ state = "STREAMING" /\ Cardinality(cis) > 1
        /\ worker' = "sleeping" /\ slept' = TRUE
  /\ UNCHANGED <<cis, queue, burst, state, main, audio, work, fault>>

send_resumes ==
  /\ Alive /\ worker = "sleeping" /\ worker' = "idle"
  /\ UNCHANGED <<cis, queue, burst, state, main, audio, work, slept, fault>>

-----------------------------------------------------------------------------
MainThread == \/ event_handler
              \/ start_codec \/ start_timer \/ start_streaming
              \/ stop_timer \/ stop_codec

Encoder == audio_process \/ encoded_data_send \/ send_resumes

Next ==
  \/ \E c \in Channels : iso_connected_cb(c) \/ iso_disconnected_cb(c)
  \/ MainThread
  \/ audio_process_work_submit
  \/ Encoder

\* The encoder's queue is served.  A block takes less than its frame, if not
\* every time then again and again (else there is no audio to speak of), and in
\* the time it leaves main moves.
Fairness ==
  /\ WF_vars(Encoder)
  /\ SF_vars(~work /\ encoded_data_send)
  /\ SF_vars(MainThread)

Spec == Init /\ [][Next]_vars /\ Fairness

-----------------------------------------------------------------------------
\* Types of the variables.
TypeOK ==
  /\ cis \subseteq Channels
  /\ queue \in Seq(Events) /\ Len(queue) =< QUEUE_SIZE
  /\ state \in States
  /\ main \in {"waiting", "starting", "initialized", "started", "stopping", "uninit"}
  /\ {started, initialized, codec, timer, work, slept} \subseteq BOOLEAN
  /\ worker \in {"idle", "encoded", "sleeping"}
  /\ fault \in {"none", "queue", "init", "uninit", "encode", "fifo"}
  /\ burst \in 0 .. BurstBound

\* Once main has handled every report (stream_control.c 56-108) it streams
\* exactly when a channel is connected, whatever came up or went down while it
\* was starting or stopping the encoder.
StreamMatchesLink ==
  queue = <<>> /\ main = "waiting" /\ fault = "none"
    => (state = "STREAMING" <=> cis # {})

\* Between events the encoder's timer runs, and the codec is initialised, just
\* in the streaming state: audio_process_start and _stop are never repeated nor
\* skipped by the early returns of audio_process.c 78-88.
AudioMatchesState ==
  main = "waiting"
    => /\ state = "STREAMING" <=> timer
       /\ timer = codec /\ timer = started /\ timer = initialized

\* The codec is not initialised or uninitialised twice, and no block is encoded
\* without it (the ERR_CHK_MSG at audio_process.c 66, 97 and 120) but for a block
\* that was submitted when the encoder slept in a send.
NoCodecFault == /\ fault \notin {"init", "uninit"}
                /\ fault = "encode" => slept

\* "Aborting encoder thread before uninitializing" (audio_process.c 91): no work
\* is left to the encoder, nor a block half done, once the codec is gone.
EncoderAborted == ~codec => ~work /\ worker # "encoded"

\* The control queue (ERR_CHK_MSG at ble_transmit.c 762, 765, 822) overflows only
\* when three changes of the link find main behind.
OverflowNeedsBurst == fault = "queue" => burst >= 3

\* A link that stays is streamed on, and one that stays away is not, unless a
\* queue overflow ended the program first.
FollowsLink ==
  /\ <>[](cis # {}) => <>(fault # "none" \/ [](state = "STREAMING"))
  /\ <>[](cis = {}) => <>(fault # "none" \/ [](~timer /\ worker = "idle" /\ ~work))
=============================================================================
