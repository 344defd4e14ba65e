----------------------------- MODULE StreamProofs -----------------------------
(***************************************************************************)
(* What is proved of Stream, for any channels and any size of the control  *)
(* queue; then of its receive path, for any frames and number of blocks;   *)
(* then of both with the stereo transmission, for any number of buffers.   *)
(***************************************************************************)
EXTENDS Transport, FiniteSetTheorems, SequenceTheorems, TLAPS

Flags == <<started, initialized, codec, timer>>

(* Where main is tells which half of a start or stop has been made. *)
AudioInv ==
  \/ main = "waiting" /\ state # "STREAMING" /\ Flags = <<FALSE, FALSE, FALSE, FALSE>>
  \/ main = "waiting" /\ state = "STREAMING" /\ Flags = <<TRUE, TRUE, TRUE, TRUE>>
  \/ main = "starting" /\ state = "CONNECTED" /\ Flags = <<FALSE, FALSE, FALSE, FALSE>>
  \/ main = "initialized" /\ state = "CONNECTED" /\ Flags = <<FALSE, TRUE, TRUE, FALSE>>
  \/ main = "started" /\ state = "CONNECTED" /\ Flags = <<TRUE, TRUE, TRUE, TRUE>>
  \/ main = "stopping" /\ state = "DISCONNECTED" /\ Flags = <<TRUE, TRUE, TRUE, TRUE>>
  \/ main = "uninit" /\ state = "DISCONNECTED" /\ Flags = <<FALSE, TRUE, TRUE, FALSE>>

(* Work without a codec is work that was there when the encoder slept. *)
EncoderInv ==
  /\ fault \notin {"init", "uninit"}
  /\ worker \in {"idle", "encoded", "sleeping"}
  /\ worker = "encoded" => codec
  /\ worker = "sleeping" => slept
  /\ work /\ ~codec => slept
  /\ fault = "encode" => slept

CodecInv == AudioInv /\ EncoderInv

LEMMA CodecInvInit == Init => CodecInv
  BY DEF Init, CodecInv, AudioInv, EncoderInv, Flags

LEMMA CodecInvNext == CodecInv /\ [Next]_vars => CodecInv'
<1> SUFFICES ASSUME CodecInv, [Next]_vars PROVE CodecInv'
  OBVIOUS
<1> USE DEF CodecInv, AudioInv, EncoderInv, Flags, audio, encoder
<1>1. ASSUME NEW c \in Channels, iso_connected_cb(c) \/ iso_disconnected_cb(c)
      PROVE  CodecInv'
  <2>1. fault' = fault \/ fault' = "queue"
    BY <1>1 DEF iso_connected_cb, iso_disconnected_cb, report
  <2>2. UNCHANGED <<state, main, started, initialized, codec, timer, work, worker, slept>>
    BY <1>1 DEF iso_connected_cb, iso_disconnected_cb
  <2> QED
    BY <2>1, <2>2
<1>2. CASE event_handler
  BY <1>2 DEF event_handler, MainRuns, connected_event, link_ready_event,
              disconnected_event, ConnectedFrom, DisconnectedFrom
<1>3. CASE start_codec
  BY <1>3 DEF start_codec, MainRuns
<1>4. CASE start_timer
  BY <1>4 DEF start_timer, MainRuns
<1>5. CASE start_streaming
  BY <1>5 DEF start_streaming, MainRuns
<1>6. CASE stop_timer
  BY <1>6 DEF stop_timer, MainRuns, MayStop
<1>7. CASE stop_codec
  BY <1>7 DEF stop_codec, MainRuns
<1>8. CASE audio_process_work_submit
  BY <1>8 DEF audio_process_work_submit
<1>9. CASE audio_process
  BY <1>9 DEF audio_process, Alive
<1>10. CASE encoded_data_send \/ send_resumes
  BY <1>10 DEF encoded_data_send, send_resumes
<1>11. CASE UNCHANGED vars
  BY <1>11 DEF vars
<1> QED
  BY <1>1, <1>2, <1>3, <1>4, <1>5, <1>6, <1>7, <1>8, <1>9, <1>10, <1>11
     DEF Next, MainThread, Encoder

\* Between events the timer runs and the codec is initialised exactly while the
\* stream is on (audio_process_start and _stop, audio_process.c 47-99).
THEOREM AudioAlwaysMatchesState == Spec => []AudioMatchesState
<1>1. CodecInv => AudioMatchesState
  BY DEF CodecInv, AudioInv, Flags, AudioMatchesState
<1> QED
  BY <1>1, CodecInvInit, CodecInvNext, PTL DEF Spec

\* The codec is never initialised or uninitialised twice, and a block meets no
\* codec only if it was submitted when the encoder slept in a send
\* (ERR_CHK_MSG at audio_process.c 66, 97 and 120).
THEOREM CodecNeverFaults == Spec => []NoCodecFault
<1>1. CodecInv => NoCodecFault
  BY DEF CodecInv, EncoderInv, NoCodecFault
<1> QED
  BY <1>1, CodecInvInit, CodecInvNext, PTL DEF Spec

-----------------------------------------------------------------------------
LEMMA TypeInit == Init => TypeOK
<1> SUFFICES ASSUME Init PROVE TypeOK
  OBVIOUS
<1>1. queue \in Seq(Events) /\ Len(queue) =< QUEUE_SIZE
  BY StreamAssumption DEF Init
<1>2. {started, initialized, codec, timer, work, slept} \subseteq BOOLEAN
  BY DEF Init
<1>3. /\ cis \subseteq Channels /\ state \in States /\ burst \in 0 .. BurstBound
      /\ main = "waiting" /\ worker = "idle" /\ fault = "none"
  BY DEF Init, States, BurstBound
<1> QED
  BY <1>1, <1>2, <1>3 DEF TypeOK

LEMMA TypeNext == TypeOK /\ [Next]_vars => TypeOK'
<1> SUFFICES ASSUME TypeOK, [Next]_vars PROVE TypeOK'
  OBVIOUS
<1> USE DEF TypeOK, BurstBound, States, audio, encoder
<1>1. ASSUME NEW events \in Seq(Events), report(events)
      PROVE  /\ queue' \in Seq(Events) /\ Len(queue') =< QUEUE_SIZE
             /\ fault' \in {fault, "queue"} /\ burst' \in 0 .. 3
  <2>1. CASE HasRoom(events)
    <3>1. queue' = queue \o events /\ fault' = fault
      BY <1>1, <2>1 DEF report
    <3>2. queue' \in Seq(Events) /\ Len(queue') = Len(queue) + Len(events)
      BY <1>1, <3>1
    <3> QED
      BY <1>1, <2>1, <3>1, <3>2 DEF report, HasRoom
  <2>2. CASE ~HasRoom(events)
    BY <1>1, <2>2 DEF report
  <2> QED
    BY <2>1, <2>2
<1>2. ASSUME NEW c \in Channels, iso_connected_cb(c) PROVE TypeOK'
  <2>1. LinkUp \in Seq(Events)
    BY DEF LinkUp, Events
  <2> QED
    BY <1>1, <1>2, <2>1 DEF iso_connected_cb
<1>3. ASSUME NEW c \in Channels, iso_disconnected_cb(c) PROVE TypeOK'
  <2>1. <<"DISCONNECTED">> \in Seq(Events)
    BY DEF Events
  <2> QED
    BY <1>1, <1>3, <2>1 DEF iso_disconnected_cb
<1>4. CASE event_handler
  <2>1. queue' \in Seq(Events) /\ Len(queue') =< QUEUE_SIZE
    BY <1>4, StreamAssumption DEF event_handler
  <2> QED
    BY <1>4, <2>1 DEF event_handler, connected_event, link_ready_event, disconnected_event
<1>5. CASE start_codec \/ start_timer \/ start_streaming
  BY <1>5 DEF start_codec, start_timer, start_streaming
<1>6. CASE stop_timer \/ stop_codec
  BY <1>6 DEF stop_timer, stop_codec
<1>7. CASE audio_process_work_submit \/ Encoder
  BY <1>7 DEF audio_process_work_submit, Encoder, audio_process, encoded_data_send, send_resumes
<1>8. CASE UNCHANGED vars
  BY <1>8 DEF vars
<1> QED
  BY <1>2, <1>3, <1>4, <1>5, <1>6, <1>7, <1>8 DEF Next, MainThread

\* Types of the streaming state, and the bound of the control queue, which
\* stream_control_set_status refuses to exceed (stream_control.c 111-114).
THEOREM StreamTypeCorrect == Spec => []TypeOK
  BY TypeInit, TypeNext, PTL DEF Spec

-----------------------------------------------------------------------------
(* The stream and the link.  Between two reports the stream is down, waits  *)
(* for LINK_READY, or is up; and the queue always holds what turns it into  *)
(* what the link is.                                                        *)

Down    == state \in ConnectedFrom
Waiting == state = "CONNECTED" /\ main = "waiting"
Up      == state = "STREAMING" \/ (state = "CONNECTED" /\ main # "waiting")

LinkInv ==
  /\ Down \/ Waiting \/ Up
  /\ queue = <<>> => (Up <=> cis # {})
  /\ queue # <<>> => queue[Len(queue)] = IF cis # {} THEN "LINK_READY" ELSE "DISCONNECTED"
  /\ \A i \in 1 .. Len(queue) :
       /\ queue[i] = "LINK_READY" => IF i = 1 THEN Waiting ELSE queue[i - 1] = "CONNECTED"
       /\ queue[i] = "CONNECTED" =>
            /\ i < Len(queue) /\ queue[i + 1] = "LINK_READY"
            /\ IF i = 1 THEN Down ELSE queue[i - 1] = "DISCONNECTED"
  /\ Waiting => queue # <<>> /\ queue[1] = "LINK_READY"

LEMMA FirstMeansNoneBefore ==
  ASSUME TypeOK, NEW c \in Channels, c \notin cis
  PROVE  IsFirst(cis \cup {c}) <=> cis = {}
<1>1. IsFiniteSet(cis)
  BY StreamAssumption, FS_Subset DEF TypeOK
<1>2. Cardinality(cis \cup {c}) = Cardinality(cis) + 1 /\ Cardinality(cis) \in Nat
  BY <1>1, FS_AddElement, FS_CardinalityType
<1>3. Cardinality(cis) = 0 <=> cis = {}
  BY <1>1, FS_EmptySet
<1> QED
  BY <1>2, <1>3 DEF IsFirst

LEMMA LinkInvNext ==
  TypeOK /\ CodecInv /\ (Alive => LinkInv) /\ [Next]_vars => (Alive => LinkInv)'
<1> SUFFICES ASSUME TypeOK, CodecInv, Alive => LinkInv, [Next]_vars, Alive' PROVE LinkInv'
  OBVIOUS
<1> USE DEF Down, Waiting, Up, ConnectedFrom
<1>1. queue \in Seq(Events) /\ Len(queue) \in Nat
  BY DEF TypeOK
<1>2. ASSUME Alive, UNCHANGED <<cis, queue>>, Down' = Down, Waiting' = Waiting, Up' = Up
      PROVE  LinkInv'
  BY <1>2 DEF LinkInv
<1>3. ASSUME NEW c \in Channels, iso_connected_cb(c) PROVE LinkInv'
  <2>1. Alive /\ c \notin cis /\ cis' = cis \cup {c} /\ UNCHANGED <<state, main>>
    BY <1>3 DEF iso_connected_cb
  <2>2. CASE cis # {}
    <3>1. UNCHANGED queue
      BY <1>3, <2>1, <2>2, FirstMeansNoneBefore DEF iso_connected_cb
    <3> QED
      BY <2>1, <2>2, <3>1 DEF LinkInv
  <2>3. CASE cis = {}
    <3>1. report(LinkUp)
      BY <1>3, <2>1, <2>3, FirstMeansNoneBefore DEF iso_connected_cb
    <3>2. queue' = queue \o <<"CONNECTED", "LINK_READY">>
      BY <3>1 DEF report, LinkUp, Alive
    <3>3. Len(queue') = Len(queue) + 2 /\ queue'[Len(queue) + 1] = "CONNECTED"
          /\ queue'[Len(queue) + 2] = "LINK_READY"
          /\ \A i \in 1 .. Len(queue) : queue'[i] = queue[i]
      BY <1>1, <3>2
    <3>4. queue = <<>> => Down
      BY <2>1, <2>3 DEF LinkInv
    <3>5. queue # <<>> => queue[Len(queue)] = "DISCONNECTED" /\ Len(queue) > 0
      BY <1>1, <2>1, <2>3 DEF LinkInv
    <3> QED
      BY <1>1, <2>1, <3>3, <3>4, <3>5 DEF LinkInv
  <2> QED
    BY <2>2, <2>3
<1>4. ASSUME NEW c \in Channels, iso_disconnected_cb(c) PROVE LinkInv'
  <2>1. Alive /\ cis' = cis \ {c} /\ UNCHANGED <<state, main>>
    BY <1>4 DEF iso_disconnected_cb
  <2>2. CASE cis' # {}
    <3>1. UNCHANGED queue /\ cis # {}
      BY <1>4, <2>1, <2>2 DEF iso_disconnected_cb
    <3> QED
      BY <2>1, <2>2, <3>1 DEF LinkInv
  <2>3. CASE cis' = {}
    <3>1. queue' = Append(queue, "DISCONNECTED")
      BY <1>1, <1>4, <2>3 DEF iso_disconnected_cb, report, Alive
    <3>2. Len(queue') = Len(queue) + 1 /\ queue'[Len(queue) + 1] = "DISCONNECTED"
          /\ \A i \in 1 .. Len(queue) : queue'[i] = queue[i]
      BY <1>1, <3>1
    <3> QED
      BY <1>1, <2>1, <2>3, <3>2 DEF LinkInv
  <2> QED
    BY <2>2, <2>3
<1>5. CASE event_handler
  <2>1. /\ Alive /\ LinkInv /\ main = "waiting" /\ queue # <<>> /\ cis' = cis
        /\ Len(queue) > 0
    BY <1>1, <1>5 DEF event_handler, MainRuns
  <2>2. Len(queue') = Len(queue) - 1 /\ \A i \in 1 .. Len(queue') : queue'[i] = queue[i + 1]
    BY <1>1, <1>5, <2>1 DEF event_handler
  <2>3. queue' = <<>> <=> Len(queue) = 1
    BY <1>1, <1>5, <2>1, <2>2 DEF event_handler
  <2>4. CASE queue[1] = "CONNECTED"
    <3>1. Waiting'
      BY <1>5, <2>1, <2>4 DEF event_handler, connected_event, LinkInv
    <3> QED
      BY <1>1, <2>1, <2>2, <2>3, <2>4, <3>1 DEF LinkInv
  <2>5. CASE queue[1] = "LINK_READY"
    <3>1. Up' /\ ~Waiting'
      BY <1>5, <2>1, <2>5 DEF event_handler, link_ready_event, LinkInv
    <3>2. queue' # <<>> => queue'[1] = "DISCONNECTED"
      BY <1>1, <2>1, <2>2, <2>3, <2>5 DEF LinkInv, TypeOK, Events
    <3>3. queue' = <<>> => cis # {}
      BY <1>1, <2>1, <2>3, <2>5 DEF LinkInv
    <3> QED
      BY <1>1, <2>1, <2>2, <2>3, <3>1, <3>2, <3>3 DEF LinkInv
  <2>6. CASE queue[1] = "DISCONNECTED"
    <3>1. ~Waiting /\ (Down \/ state = "STREAMING")
      BY <2>1, <2>6 DEF LinkInv
    <3>2. Down' /\ ~Waiting' /\ ~Up'
      BY <1>5, <2>1, <2>6, <3>1 DEF event_handler, disconnected_event, DisconnectedFrom
    <3>3. queue' # <<>> => queue'[1] # "LINK_READY"
      BY <1>1, <2>1, <2>2, <2>3, <2>6 DEF LinkInv
    <3>4. queue' = <<>> => cis = {}
      BY <1>1, <2>1, <2>3, <2>6 DEF LinkInv
    <3> QED
      BY <1>1, <2>1, <2>2, <2>3, <3>2, <3>3, <3>4 DEF LinkInv
  <2> QED
    <3>1. Head(queue) = queue[1]
      BY <1>1, <2>1
    <3> QED
      BY <1>5, <2>4, <2>5, <2>6, <3>1 DEF event_handler
<1>6. CASE start_codec \/ start_timer \/ start_streaming
  <2>1. Alive /\ UNCHANGED <<cis, queue>>
    BY <1>6 DEF start_codec, start_timer, start_streaming, MainRuns
  <2>2. state = "CONNECTED" /\ main # "waiting"
    BY <1>6 DEF start_codec, start_timer, start_streaming, CodecInv, AudioInv
  <2>3. \/ state' = "CONNECTED" /\ main' # "waiting"
        \/ state' = "STREAMING"
    BY <1>6, <2>2 DEF start_codec, start_timer, start_streaming
  <2>4. Up /\ Up' /\ ~Down /\ ~Down' /\ ~Waiting /\ ~Waiting'
    BY <2>2, <2>3
  <2> QED
    BY <2>1, <2>4 DEF LinkInv
<1>7. CASE stop_timer \/ stop_codec
  BY <1>2, <1>7 DEF stop_timer, stop_codec, MainRuns, CodecInv, AudioInv
<1>8. CASE audio_process_work_submit \/ Encoder
  BY <1>2, <1>8 DEF audio_process_work_submit, Encoder, audio_process, encoded_data_send, send_resumes
<1>9. CASE UNCHANGED vars
  BY <1>2, <1>9 DEF vars, Alive
<1> QED
  BY <1>3, <1>4, <1>5, <1>6, <1>7, <1>8, <1>9 DEF Next, MainThread

\* When main has handled every report it streams exactly if a channel is
\* connected, however the reports of _iso_connected_cb and _iso_disconnected_cb
\* came between the steps of stream_control_event_handler.
THEOREM StreamAlwaysMatchesLink == Spec => []StreamMatchesLink
<1>1. Init => (Alive => LinkInv)
  BY DEF Init, LinkInv, Down, Waiting, Up, ConnectedFrom
<1>2. (Alive => LinkInv) => StreamMatchesLink
  BY DEF LinkInv, Alive, Up, StreamMatchesLink
<1> QED
  BY <1>1, <1>2, LinkInvNext, CodecInvInit, CodecInvNext, StreamTypeCorrect, PTL DEF Spec

-----------------------------------------------------------------------------
(* How full the control queue can be.  A link that comes up posts two events *)
(* and one that goes down posts one, but it cannot come up twice without     *)
(* going down in between; so two changes post at most three events.          *)

RoomForTwoChanges == QUEUE_SIZE >= 3

BurstInv ==
  /\ burst \in 0 .. BurstBound
  /\ Alive =>
       /\ burst = 0 => queue = <<>>
       /\ burst = 1 => Len(queue) =< IF cis = {} THEN 1 ELSE 2
       /\ burst = 2 => Len(queue) =< 3
  /\ fault = "queue" => burst >= 3

LEMMA BurstInvInit == Init => BurstInv
BY DEF Init, BurstInv, BurstBound, Alive

LEMMA BurstInvNext == RoomForTwoChanges /\ TypeOK /\ BurstInv /\ [Next]_vars => BurstInv'
<1> SUFFICES ASSUME RoomForTwoChanges, TypeOK, BurstInv, [Next]_vars PROVE BurstInv'
  OBVIOUS
<1>0. queue \in Seq(Events) /\ Len(queue) \in Nat /\ QUEUE_SIZE \in Nat /\ cis \subseteq Channels
  BY StreamAssumption DEF TypeOK
<1>1. ASSUME NEW c \in Channels, iso_connected_cb(c) PROVE BurstInv'
  <2>1. cis' = cis \cup {c} /\ cis' # {} /\ Alive
    BY <1>1 DEF iso_connected_cb
  <2>2. CASE IsFirst(cis')
    <3>1. cis = {}
      BY <1>1, <2>1, <2>2, FirstMeansNoneBefore DEF iso_connected_cb
    <3>2. report(LinkUp)
      BY <1>1, <2>2 DEF iso_connected_cb
    <3>3. LinkUp \in Seq(Events) /\ Len(LinkUp) = 2
      BY DEF LinkUp, Events
    <3>4. HasRoom(LinkUp) <=> Len(queue) + 2 =< QUEUE_SIZE
      BY <3>3 DEF HasRoom
    <3>5. HasRoom(LinkUp) => fault' = fault /\ Len(queue') = Len(queue) + 2
      <4>1. Len(queue \o LinkUp) = Len(queue) + Len(LinkUp)
        BY <1>0, <3>3 DEF LinkUp
      <4> QED
        BY <3>2, <3>3, <4>1 DEF report
    <3>6. ~HasRoom(LinkUp) => fault' = "queue"
      BY <3>2 DEF report
    <3>7. burst' = IF burst < 3 THEN burst + 1 ELSE burst
      BY <3>2 DEF report, BurstBound
    <3>8. burst = 0 => Len(queue) = 0
      BY <2>1 DEF BurstInv
    <3> QED
      BY <1>0, <2>1, <3>1, <3>4, <3>5, <3>6, <3>7, <3>8
         DEF BurstInv, BurstBound, Alive, RoomForTwoChanges
  <2>3. CASE ~IsFirst(cis')
    BY <1>0, <1>1, <2>1, <2>3 DEF iso_connected_cb, BurstInv, Alive
  <2> QED
    BY <2>2, <2>3
<1>2. ASSUME NEW c \in Channels, iso_disconnected_cb(c) PROVE BurstInv'
  <2>1. CASE cis' = {}
    <3> DEFINE down == <<"DISCONNECTED">>
    <3>1. report(down) /\ Alive
      BY <1>2, <2>1 DEF iso_disconnected_cb
    <3>2. down \in Seq(Events) /\ Len(down) = 1
      BY DEF Events
    <3>3. HasRoom(down) <=> Len(queue) + 1 =< QUEUE_SIZE
      BY <3>2 DEF HasRoom
    <3>4. HasRoom(down) => fault' = fault /\ Len(queue') = Len(queue) + 1
      <4>1. Len(queue \o down) = Len(queue) + Len(down)
        BY <1>0, <3>2
      <4> QED
        BY <3>1, <3>2, <4>1 DEF report
    <3>5. ~HasRoom(down) => fault' = "queue"
      BY <3>1 DEF report
    <3>6. burst' = IF burst < 3 THEN burst + 1 ELSE burst
      BY <3>1 DEF report, BurstBound
    <3>7. burst = 0 => Len(queue) = 0
      BY <3>1 DEF BurstInv
    <3> HIDE DEF down
    <3> QED
      BY <1>0, <2>1, <3>1, <3>3, <3>4, <3>5, <3>6, <3>7
         DEF BurstInv, BurstBound, Alive, RoomForTwoChanges
  <2>2. CASE cis' # {}
    BY <1>0, <1>2, <2>2 DEF iso_disconnected_cb, BurstInv, Alive
  <2> QED
    BY <2>1, <2>2
<1>3. CASE event_handler
  <2>1. /\ Alive /\ fault' = fault /\ cis' = cis
        /\ burst' = IF Len(queue) = 1 THEN 0 ELSE burst
    BY <1>3 DEF event_handler, MainRuns
  <2>2. /\ queue # <<>> /\ queue' = Tail(queue)
    BY <1>3 DEF event_handler
  <2>3. Len(queue') = Len(queue) - 1 /\ (Len(queue) = 1 => queue' = <<>>)
    BY <1>0, <2>2
  <2> QED
    BY <1>0, <2>1, <2>2, <2>3 DEF BurstInv, BurstBound, Alive
<1>4. ASSUME UNCHANGED <<queue, burst, cis>>, fault' # "queue" \/ fault' = fault,
             Alive' => Alive
      PROVE  BurstInv'
  BY <1>4 DEF BurstInv
<1>5. CASE start_codec \/ start_timer \/ start_streaming \/ stop_timer \/ stop_codec
  BY <1>4, <1>5 DEF start_codec, start_timer, start_streaming, stop_timer, stop_codec,
                    MainRuns, Alive
<1>6. CASE audio_process_work_submit \/ Encoder
  BY <1>4, <1>6 DEF audio_process_work_submit, Encoder, audio_process,
                    encoded_data_send, send_resumes, Alive
<1>7. CASE UNCHANGED vars
  BY <1>4, <1>7 DEF vars, Alive
<1> QED
  BY <1>1, <1>2, <1>3, <1>5, <1>6, <1>7 DEF Next, MainThread

\* The queue, if it holds three events as stream_control.c makes it, refuses
\* none before the third change of the link since it was empty.
THEOREM OverflowAlwaysNeedsBurst == RoomForTwoChanges => (Spec => []OverflowNeedsBurst)
<1>1. BurstInv => OverflowNeedsBurst
  BY DEF BurstInv, OverflowNeedsBurst
<1>2. SUFFICES ASSUME RoomForTwoChanges PROVE Spec => []OverflowNeedsBurst
  OBVIOUS
<1>3. TypeOK /\ BurstInv /\ [Next]_vars => BurstInv'
  BY <1>2, BurstInvNext
<1> QED
  BY <1>1, <1>3, BurstInvInit, StreamTypeCorrect, PTL DEF Spec

-----------------------------------------------------------------------------
(* The receive FIFO.                                                        *)

Elements(s) == {s[i] : i \in 1 .. Len(s)}
Distinct(s) == \A i, j \in 1 .. Len(s) : i # j => s[i] # s[j]
Reader      == IF reading = NoBlock THEN {} ELSE {reading}
Read        == IF reading = NoBlock THEN 0 ELSE 1

LEMMA TailElements ==
  ASSUME NEW S, NEW s \in Seq(S), s # <<>>, Distinct(s)
  PROVE  /\ Tail(s) \in Seq(S) /\ Len(Tail(s)) = Len(s) - 1 /\ Len(s) \in Nat \ {0}
         /\ Head(s) = s[1] /\ Head(s) \in Elements(s) /\ Head(s) \in S
         /\ \A i \in 1 .. Len(s) - 1 : Tail(s)[i] = s[i + 1]
         /\ Distinct(Tail(s))
         /\ Elements(Tail(s)) = Elements(s) \ {Head(s)}
<1>1. /\ Tail(s) \in Seq(S) /\ Len(Tail(s)) = Len(s) - 1 /\ Len(s) \in Nat \ {0}
      /\ Head(s) = s[1] /\ s[1] \in S
      /\ \A i \in 1 .. Len(s) - 1 : Tail(s)[i] = s[i + 1]
  OBVIOUS
<1>2. s[1] \in Elements(s)
  BY <1>1 DEF Elements
<1>3. Distinct(Tail(s))
  BY <1>1 DEF Distinct
<1>4. ASSUME NEW x \in Elements(Tail(s)) PROVE x \in Elements(s) /\ x # s[1]
  <2>1. PICK i \in 1 .. Len(s) - 1 : x = s[i + 1]
    BY <1>1, <1>4 DEF Elements
  <2>2. i + 1 \in 1 .. Len(s) /\ i + 1 # 1 /\ 1 \in 1 .. Len(s)
    BY <1>1
  <2> QED
    BY <2>1, <2>2 DEF Elements, Distinct
<1>5. ASSUME NEW x \in Elements(s), x # s[1] PROVE x \in Elements(Tail(s))
  <2>1. PICK i \in 1 .. Len(s) : x = s[i]
    BY DEF Elements
  <2>2. i - 1 \in 1 .. Len(s) - 1 /\ (i - 1) + 1 = i
    BY <1>1, <1>5, <2>1
  <2>3. Tail(s)[i - 1] = x
    BY <1>1, <2>1, <2>2
  <2> QED
    BY <1>1, <2>2, <2>3 DEF Elements
<1> QED
  BY <1>1, <1>2, <1>3, <1>4, <1>5

LEMMA AppendElements ==
  ASSUME NEW S, NEW s \in Seq(S), NEW x \in S
  PROVE  /\ Append(s, x) \in Seq(S) /\ Len(Append(s, x)) = Len(s) + 1 /\ Len(s) \in Nat
         /\ \A i \in 1 .. Len(s) + 1 : Append(s, x)[i] = IF i = Len(s) + 1 THEN x ELSE s[i]
         /\ Elements(Append(s, x)) = Elements(s) \cup {x}
         /\ Distinct(s) /\ x \notin Elements(s) => Distinct(Append(s, x))
<1>1. /\ Append(s, x) \in Seq(S) /\ Len(Append(s, x)) = Len(s) + 1 /\ Len(s) \in Nat
      /\ \A i \in 1 .. Len(s) + 1 : Append(s, x)[i] = IF i = Len(s) + 1 THEN x ELSE s[i]
  OBVIOUS
<1>2. \A i \in 1 .. Len(s) : i \in 1 .. Len(s) + 1 /\ i # Len(s) + 1
  BY <1>1
<1>3. Len(s) + 1 \in 1 .. Len(s) + 1
  BY <1>1
<1>4. \A i \in 1 .. Len(s) + 1 : i # Len(s) + 1 => i \in 1 .. Len(s)
  BY <1>1
<1>5. Elements(Append(s, x)) = Elements(s) \cup {x}
  BY <1>1, <1>2, <1>3, <1>4 DEF Elements
<1>6. Distinct(s) /\ x \notin Elements(s) => Distinct(Append(s, x))
  BY <1>1, <1>4 DEF Elements, Distinct
<1> QED
  BY <1>1, <1>5, <1>6

\* Both as functions.
LEMMA TailIs ==
  ASSUME NEW S, NEW s \in Seq(S), s # <<>>
  PROVE  Tail(s) = [i \in 1 .. Len(s) - 1 |-> s[i + 1]]
<1>1. Tail(s) \in Seq(S) /\ Len(Tail(s)) = Len(s) - 1
  OBVIOUS
<1>2. Tail(s) \in [1 .. Len(s) - 1 -> S]
  BY <1>1, LenProperties
<1>3. \A i \in 1 .. Len(s) - 1 : Tail(s)[i] = s[i + 1]
  OBVIOUS
<1> QED
  BY <1>2, <1>3

LEMMA AppendIs ==
  ASSUME NEW S, NEW s \in Seq(S), NEW x \in S
  PROVE  Append(s, x) = [i \in 1 .. Len(s) + 1 |-> IF i = Len(s) + 1 THEN x ELSE s[i]]
<1>1. Append(s, x) \in Seq(S) /\ Len(Append(s, x)) = Len(s) + 1
  OBVIOUS
<1>2. Append(s, x) \in [1 .. Len(s) + 1 -> S]
  BY <1>1, LenProperties
<1>3. \A i \in 1 .. Len(s) + 1 : Append(s, x)[i] = IF i = Len(s) + 1 THEN x ELSE s[i]
  BY AppendElements
<1> QED
  BY <1>2, <1>3

LEMMA InStepParts ==
  FifoInStep <=> /\ fifo \in Fifo /\ reading \in Blocks \cup {NoBlock}
                 /\ Distinct(fifo.msgq) /\ reading \notin Elements(fifo.msgq)
                 /\ fifo.slab = Elements(fifo.msgq) \cup Reader
                 /\ fault # "fifo"
BY DEF FifoInStep, Distinct, Elements, Reader

\* Blocks are allocated for the queue and for the reader, and for no one else.
LEMMA Allocated ==
  ASSUME FifoInStep
  PROVE  /\ fifo.msgq \in Seq(Blocks) /\ Len(fifo.msgq) \in Nat
         /\ fifo.slab \subseteq Blocks /\ IsFiniteSet(fifo.slab)
         /\ Cardinality(fifo.slab) = Len(fifo.msgq) + Read
         /\ elements_max \in Nat /\ Cardinality(fifo.slab) =< elements_max
<1> DEFINE n == Len(fifo.msgq)
           Q == Elements(fifo.msgq)
           f == [i \in 1 .. n |-> fifo.msgq[i]]
<1>1. fifo.msgq \in Seq(Blocks) /\ n \in Nat /\ fifo.slab \subseteq Blocks
  BY DEF FifoInStep, Fifo
<1>2. f \in Surjection(1 .. n, Q) /\ f \in Injection(1 .. n, Q)
  BY InStepParts DEF Surjection, Injection, IsInjective, Elements, Distinct
<1>3. IsFiniteSet(1 .. n) /\ Cardinality(1 .. n) = n
  BY <1>1, FS_Interval
<1> HIDE DEF n, Q, f
<1>4. IsFiniteSet(Q) /\ Cardinality(Q) = n
  BY <1>2, <1>3, FS_Surjection
<1>5. Cardinality(fifo.slab) = n + Read
  <2>1. CASE reading = NoBlock
    <3>1. fifo.slab = Q
      BY <2>1, InStepParts DEF Reader, Q
    <3> QED
      BY <1>1, <1>4, <2>1, <3>1 DEF Read
  <2>2. CASE reading # NoBlock
    <3>1. fifo.slab = Q \cup {reading} /\ reading \notin Q
      BY <2>2, InStepParts DEF Reader, Q
    <3>2. Cardinality(Q \cup {reading}) = Cardinality(Q) + 1
      BY <1>4, <3>1, FS_AddElement
    <3> QED
      BY <1>4, <2>2, <3>1, <3>2 DEF Read
  <2> QED
    BY <2>1, <2>2
<1>6. /\ IsFiniteSet(Blocks) /\ elements_max \in Nat
      /\ IsFiniteSet(fifo.slab) /\ Cardinality(fifo.slab) =< elements_max
  BY <1>1, DataFifoAssumption, FS_CardinalityType, FS_Subset DEF elements_max
<1> QED
  BY <1>1, <1>5, <1>6 DEF n

\* After the swap of a full FIFO, as before, the FIFO takes another frame.
LEMMA HandlerStores ==
  ASSUME FifoInStep
  PROVE  /\ Stores(fifo)
         /\ Overrun(fifo) <=> Len(fifo.msgq) + Read >= elements_max
         /\ Overrun(fifo) => fifo.msgq # <<>>
<1> DEFINE n == Len(fifo.msgq)
<1>1. /\ n \in Nat /\ IsFiniteSet(fifo.slab) /\ Cardinality(fifo.slab) = n + Read
      /\ elements_max \in Nat /\ n + Read =< elements_max /\ Read \in {0, 1}
      /\ fifo \in Fifo /\ fifo.msgq \in Seq(Blocks) /\ fifo.slab \subseteq Blocks
  BY Allocated DEF Read, FifoInStep
<1>2. elements_max >= 2
  BY <1>1, DataFifoAssumption DEF elements_max
<1>3. legal_used_elements(fifo)
  BY <1>1 DEF legal_used_elements, blocks_alloced_num, blocks_locked_num
<1>4. Overrun(fifo) <=> n + Read >= elements_max
  BY <1>1 DEF Overrun, blocks_alloced_num
<1>5. Overrun(fifo) => n > 0 /\ fifo.msgq # <<>>
  BY <1>1, <1>2, <1>4
<1>6. CASE Overrun(fifo)
  <2>1. /\ Swapped(fifo).slab = fifo.slab \ {Head(fifo.msgq)}
        /\ Swapped(fifo).msgq = Tail(fifo.msgq)
    BY <1>1, <1>6 DEF Swapped, block_free, last_filled_get, last_filled, Fifo
  <2>2. Head(fifo.msgq) \in Blocks /\ Len(Tail(fifo.msgq)) = n - 1
    BY <1>1, <1>5, <1>6
  <2>3. Vacant(Swapped(fifo)) # {}
    BY <2>1, <2>2 DEF Vacant
  <2>4. CanLock(Swapped(fifo))
    BY <1>1, <2>1, <2>2 DEF CanLock, blocks_locked_num
  <2> QED
    BY <1>3, <1>4, <1>5, <2>3, <2>4 DEF Stores, CanFetch
<1>7. CASE ~Overrun(fifo)
  <2>1. n + Read < elements_max /\ Swapped(fifo) = fifo
    BY <1>1, <1>4, <1>7 DEF Swapped
  <2>2. fifo.slab # Blocks
    BY <1>1, <2>1 DEF elements_max
  <2>3. Vacant(fifo) # {}
    BY <1>1, <2>2 DEF Vacant
  <2>4. CanLock(fifo)
    BY <1>1, <2>1 DEF CanLock, blocks_locked_num
  <2> QED
    BY <1>3, <1>4, <1>7, <2>1, <2>3, <2>4 DEF Stores
<1> QED
  BY <1>4, <1>5, <1>6, <1>7

\* The FIFO after the swap is in step as well.
LEMMA SwapInStep ==
  ASSUME FifoInStep
  PROVE  /\ Swapped(fifo) \in Fifo
         /\ Distinct(Swapped(fifo).msgq) /\ reading \notin Elements(Swapped(fifo).msgq)
         /\ Swapped(fifo).slab = Elements(Swapped(fifo).msgq) \cup Reader
         /\ Swapped(fifo).msgq = IF Overrun(fifo) THEN Tail(fifo.msgq) ELSE fifo.msgq
<1>1. CASE ~Overrun(fifo)
  BY <1>1, InStepParts DEF Swapped
<1>2. CASE Overrun(fifo)
  <2> DEFINE m == fifo.msgq
  <2>1. /\ fifo \in Fifo /\ m \in Seq(Blocks) /\ m # <<>> /\ fifo.slab \subseteq Blocks
        /\ Distinct(m) /\ reading \notin Elements(m)
        /\ fifo.slab = Elements(m) \cup Reader
    BY <1>2, HandlerStores, Allocated, InStepParts
  <2>2. Swapped(fifo) = [slab |-> fifo.slab \ {Head(m)}, msgq |-> Tail(m)]
    BY <1>2, <2>1 DEF Swapped, block_free, last_filled_get, last_filled, Fifo
  <2>3. /\ Tail(m) \in Seq(Blocks) /\ Head(m) \in Elements(m) /\ Distinct(Tail(m))
        /\ Elements(Tail(m)) = Elements(m) \ {Head(m)}
    BY <2>1, TailElements
  <2>4. Head(m) \notin Reader
    BY <2>1, <2>3 DEF Reader
  <2> HIDE DEF m
  <2>5. Swapped(fifo).slab = fifo.slab \ {Head(m)} /\ Swapped(fifo).msgq = Tail(m)
    BY <2>2
  <2>6. Swapped(fifo) \in Fifo
    BY <2>1, <2>2, <2>3 DEF Fifo
  <2> QED
    BY <1>2, <2>1, <2>3, <2>4, <2>5, <2>6 DEF m
<1> QED
  BY <1>1, <1>2

(* Every block in use holds a frame. *)
ContentInv ==
  /\ content \in [Blocks -> Frames \cup {NoFrame}]
  /\ \A b \in fifo.slab : content[b] \in Frames

RxInv == FifoInStep /\ ContentInv

LEMMA RxInvInit == RxInit => RxInv
<1> SUFFICES ASSUME RxInit PROVE RxInv
  OBVIOUS
<1>1. fifo = [slab |-> {}, msgq |-> <<>>] /\ reading = NoBlock /\ fault = "none"
  BY DEF RxInit, Init, data_fifo_init
<1>2. fifo \in Fifo /\ fifo.msgq = <<>> /\ fifo.slab = {}
  BY <1>1 DEF Fifo
<1>3. Elements(<<>>) = {} /\ Distinct(<<>>)
  BY DEF Elements, Distinct
<1>4. FifoInStep
  BY <1>1, <1>2, <1>3, InStepParts DEF Reader
<1> QED
  BY <1>2, <1>4 DEF RxInit, RxInv, ContentInv

\* What the handler does when the FIFO is in step: it never fails.
LEMMA HandlerStep ==
  ASSUME RxInv, NEW frame \in Frames, iso_rx_data_handler(frame)
  PROVE  \E b \in Vacant(Swapped(fifo)) :
           /\ fifo' \in Fifo
           /\ fifo'.slab = Swapped(fifo).slab \cup {b}
           /\ fifo'.msgq = Append(Swapped(fifo).msgq, b)
           /\ content' = [content EXCEPT ![b] = frame]
           /\ UNCHANGED <<vars, reading>>
<1>1. Stores(fifo)
  BY HandlerStores DEF RxInv
<1>2. PICK b \in Vacant(Swapped(fifo)) :
        /\ fifo' = block_lock(first_vacant_get(Swapped(fifo), b), b)
        /\ content' = [content EXCEPT ![b] = frame]
  BY <1>1 DEF iso_rx_data_handler
<1> DEFINE f == Swapped(fifo)
<1>3. f \in Fifo
  BY SwapInStep DEF RxInv
<1> HIDE DEF f
<1>4. b \in Blocks /\ f.slab \subseteq Blocks /\ f.msgq \in Seq(Blocks)
  BY <1>2, <1>3 DEF Vacant, Fifo
<1>5. fifo' = [slab |-> f.slab \cup {b}, msgq |-> Append(f.msgq, b)]
  BY <1>2, <1>3 DEF f, block_lock, first_vacant_get, Fifo
<1>6. fifo' \in Fifo
  BY <1>4, <1>5 DEF Fifo
<1>7. UNCHANGED <<vars, reading>>
  BY <1>1 DEF iso_rx_data_handler, vars, audio, encoder
<1>8. fifo'.slab = f.slab \cup {b} /\ fifo'.msgq = Append(f.msgq, b)
  BY <1>5
<1> QED
  BY <1>2, <1>6, <1>7, <1>8 DEF f

LEMMA StepsKeepTheFifo == Next /\ fault # "fifo" => fault' # "fifo"
BY DEF Next, MainThread, Encoder, iso_connected_cb, iso_disconnected_cb, report,
       event_handler, start_codec, start_timer, start_streaming, stop_timer,
       stop_codec, audio_process_work_submit, audio_process, encoded_data_send,
       send_resumes

LEMMA RxInvNext == RxInv /\ [RxNext]_rx_vars => RxInv'
<1> SUFFICES ASSUME RxInv, [RxNext]_rx_vars PROVE RxInv'
  OBVIOUS
<1>1. /\ fifo \in Fifo /\ reading \in Blocks \cup {NoBlock}
      /\ Distinct(fifo.msgq) /\ reading \notin Elements(fifo.msgq)
      /\ fifo.slab = Elements(fifo.msgq) \cup Reader
      /\ fault # "fifo" /\ fifo.msgq \in Seq(Blocks)
      /\ content \in [Blocks -> Frames \cup {NoFrame}]
      /\ \A b \in fifo.slab : content[b] \in Frames
      /\ fifo.slab \subseteq Blocks
  BY InStepParts DEF RxInv, ContentInv, Fifo
<1>2. SUFFICES /\ fifo' \in Fifo /\ reading' \in Blocks \cup {NoBlock}
               /\ Distinct(fifo'.msgq) /\ reading' \notin Elements(fifo'.msgq)
               /\ fifo'.slab = Elements(fifo'.msgq) \cup Reader'
               /\ fault' # "fifo"
               /\ content' \in [Blocks -> Frames \cup {NoFrame}]
               /\ \A b \in fifo'.slab : content'[b] \in Frames
  BY DEF RxInv, ContentInv, FifoInStep, Distinct, Elements, Reader
<1>3. CASE (Next \/ UNCHANGED vars) /\ UNCHANGED rx
  <2>1. fault' # "fifo"
    BY <1>1, <1>3, StepsKeepTheFifo DEF vars
  <2> QED
    BY <1>1, <1>3, <2>1 DEF rx, Reader
<1>4. ASSUME NEW frame \in Frames, iso_rx_data_handler(frame)
      PROVE  /\ fifo' \in Fifo /\ reading' \in Blocks \cup {NoBlock}
             /\ Distinct(fifo'.msgq) /\ reading' \notin Elements(fifo'.msgq)
             /\ fifo'.slab = Elements(fifo'.msgq) \cup Reader'
             /\ fault' # "fifo"
             /\ content' \in [Blocks -> Frames \cup {NoFrame}]
             /\ \A b \in fifo'.slab : content'[b] \in Frames
  <2> DEFINE f == Swapped(fifo)
  <2>1. PICK b \in Vacant(f) :
           /\ fifo' \in Fifo /\ fifo'.slab = f.slab \cup {b}
           /\ fifo'.msgq = Append(f.msgq, b)
           /\ content' = [content EXCEPT ![b] = frame]
           /\ UNCHANGED <<vars, reading>>
    BY <1>4, HandlerStep
  <2>2. /\ f \in Fifo /\ Distinct(f.msgq) /\ reading \notin Elements(f.msgq)
        /\ f.slab = Elements(f.msgq) \cup Reader
    BY SwapInStep DEF RxInv
  <2>3. f.slab \subseteq fifo.slab
    BY DEF Swapped, block_free, last_filled_get
  <2>4. b \in Blocks /\ b \notin f.slab /\ f.msgq \in Seq(Blocks)
    BY <2>1, <2>2 DEF Vacant, Fifo
  <2> HIDE DEF f
  <2>5. /\ Elements(fifo'.msgq) = Elements(f.msgq) \cup {b}
        /\ Distinct(fifo'.msgq)
    BY <2>1, <2>2, <2>4, AppendElements
  <2>6. reading' = reading /\ Reader' = Reader /\ fault' = fault
    BY <2>1 DEF vars, Reader
  <2>7. reading # b
    BY <1>1, <2>2, <2>4, StreamRxAssumption DEF Reader
  <2> QED
    BY <1>1, <2>1, <2>2, <2>3, <2>4, <2>5, <2>6, <2>7
<1>5. CASE frame_get
  <2> DEFINE m == fifo.msgq
  <2>1. /\ m # <<>> /\ reading = NoBlock /\ reading' = Head(m)
        /\ fifo' = [fifo EXCEPT !.msgq = Tail(@)] /\ UNCHANGED <<vars, content>>
    BY <1>5 DEF frame_get, CanFetch, last_filled, last_filled_get
  <2>2. fifo' = [slab |-> fifo.slab, msgq |-> Tail(m)]
    BY <1>1, <2>1 DEF Fifo
  <2>3. /\ Tail(m) \in Seq(Blocks) /\ Head(m) \in Elements(m) /\ Head(m) \in Blocks
        /\ Distinct(Tail(m)) /\ Elements(Tail(m)) = Elements(m) \ {Head(m)}
    BY <1>1, <2>1, TailElements
  <2> HIDE DEF m
  <2>4. fifo'.slab = fifo.slab /\ fifo'.msgq = Tail(m) /\ fifo' \in Fifo
    BY <1>1, <2>2, <2>3 DEF Fifo
  <2>5. reading' # NoBlock /\ Reader' = {Head(m)} /\ Reader = {}
    BY <2>1, <2>3, StreamRxAssumption DEF Reader
  <2>6. fifo.slab = Elements(m)
    BY <1>1, <2>5 DEF m
  <2>7. fault' = fault
    BY <2>1 DEF vars
  <2> QED
    BY <1>1, <2>1, <2>3, <2>4, <2>5, <2>6, <2>7
<1>6. CASE frame_release
  <2>1. /\ reading # NoBlock /\ reading' = NoBlock
        /\ fifo' = [fifo EXCEPT !.slab = @ \ {reading}] /\ UNCHANGED <<vars, content>>
    BY <1>6 DEF frame_release, block_free
  <2>2. fifo' = [slab |-> fifo.slab \ {reading}, msgq |-> fifo.msgq]
    BY <1>1, <2>1 DEF Fifo
  <2>3. /\ fifo'.slab = fifo.slab \ {reading} /\ fifo'.msgq = fifo.msgq
        /\ fifo' \in Fifo
    BY <1>1, <2>2 DEF Fifo
  <2>4. Reader' = {} /\ Reader = {reading} /\ fault' = fault
    BY <2>1 DEF Reader, vars
  <2>5. NoBlock \notin Elements(fifo.msgq)
    BY <1>1, StreamRxAssumption DEF Elements
  <2> QED
    BY <1>1, <2>1, <2>3, <2>4, <2>5
<1>7. UNCHANGED rx_vars => UNCHANGED vars /\ UNCHANGED rx
  BY DEF rx_vars
<1> QED
  BY <1>3, <1>4, <1>5, <1>6, <1>7 DEF RxNext

\* The slab and the queue of the receive FIFO stay in step for any number of
\* blocks from two on, whenever the link and the reader interfere; the handler
\* of stream_control.c 195-257 never meets an error of data_fifo.c.
THEOREM FifoAlwaysInStep == RxSpec => []FifoInStep
<1>1. RxInv => FifoInStep
  BY DEF RxInv
<1> QED
  BY <1>1, RxInvInit, RxInvNext, PTL DEF RxSpec

LEMMA RxStepsStream == RxInv /\ [RxNext]_rx_vars => [Next]_vars
<1> SUFFICES ASSUME RxInv, RxNext PROVE Next \/ UNCHANGED vars
  BY DEF rx_vars
<1>1. ASSUME NEW frame \in Frames, iso_rx_data_handler(frame) PROVE UNCHANGED vars
  BY <1>1, HandlerStep
<1>2. CASE frame_get \/ frame_release
  BY <1>2 DEF frame_get, frame_release
<1> QED
  BY <1>1, <1>2 DEF RxNext

\* The receive path disturbs nothing of the streaming life cycle: what is proved
\* of Spec holds of RxSpec too.
THEOREM RxImplementsStream == RxSpec => Spec
<1>1. RxInit => Init
  BY DEF RxInit
<1> QED
  BY <1>1, RxInvInit, RxInvNext, RxStepsStream, PTL DEF RxSpec, Spec

-----------------------------------------------------------------------------
(* The frames that wait and the one that is read, as StreamRx.tla maps them. *)
Line    == [i \in 1 .. Len(fifo.msgq) |-> content[fifo.msgq[i]]]
Current == IF reading = NoBlock THEN NoFrame ELSE content[reading]

LEMMA LineFacts ==
  ASSUME RxInv
  PROVE  /\ Line \in Seq(Frames) /\ Len(Line) = Len(fifo.msgq)
         /\ Current = NoFrame <=> reading = NoBlock
         /\ Len(Line) \in Nat /\ elements_max \in Nat
         /\ Overrun(fifo) <=> Len(Line) >= elements_max - Read
<1>1. /\ fifo.msgq \in Seq(Blocks) /\ Len(fifo.msgq) \in Nat /\ elements_max \in Nat
      /\ fifo.slab = Elements(fifo.msgq) \cup Reader
      /\ \A b \in fifo.slab : content[b] \in Frames
      /\ Overrun(fifo) <=> Len(fifo.msgq) + Read >= elements_max
  BY Allocated, HandlerStores, InStepParts DEF RxInv, ContentInv
<1>2. \A i \in 1 .. Len(fifo.msgq) : content[fifo.msgq[i]] \in Frames
  BY <1>1 DEF Elements
<1>3. Line \in Seq(Frames) /\ Len(Line) = Len(fifo.msgq)
  <2> DEFINE n == Len(fifo.msgq)
  <2>1. Line \in [1 .. n -> Frames] /\ n \in Nat
    BY <1>1, <1>2 DEF Line
  <2> HIDE DEF n
  <2>2. Line \in Seq(Frames) /\ Len(Line) = n
    BY <2>1
  <2> QED
    BY <2>2 DEF n
<1>4. Current = NoFrame <=> reading = NoBlock
  <2>1. reading # NoBlock => content[reading] \in Frames
    BY <1>1 DEF Reader
  <2> QED
    BY <2>1, StreamRxAssumption DEF Current
<1>5. Len(Line) + Read >= elements_max <=> Len(Line) >= elements_max - Read
  BY <1>1, <1>3 DEF Read
<1> QED
  BY <1>1, <1>3, <1>4, <1>5

LEMMA PutStep ==
  ASSUME RxInv, NEW frame \in Frames, iso_rx_data_handler(frame)
  PROVE  /\ Line' = Append(IF Len(Line) >= elements_max - Read THEN Tail(Line) ELSE Line, frame)
         /\ Current' = Current
<1> DEFINE f == Swapped(fifo)
           q == f.msgq
           m == fifo.msgq
           kept == [i \in 1 .. Len(q) |-> content[q[i]]]
<1>1. PICK b \in Vacant(f) :
        /\ fifo'.msgq = Append(q, b)
        /\ content' = [content EXCEPT ![b] = frame]
        /\ reading' = reading
  BY HandlerStep
<1>2. /\ f \in Fifo /\ f.slab = Elements(q) \cup Reader
      /\ q = IF Overrun(fifo) THEN Tail(m) ELSE m
      /\ m \in Seq(Blocks) /\ content \in [Blocks -> Frames \cup {NoFrame}]
  BY SwapInStep, Allocated DEF RxInv, ContentInv
<1>3. b \in Blocks /\ b \notin Elements(q) /\ b \notin Reader /\ q \in Seq(Blocks)
  BY <1>1, <1>2 DEF Vacant, Fifo
<1>4. Current' = Current
  BY <1>1, <1>2, <1>3 DEF Current, Reader
<1>5. kept = IF Overrun(fifo) THEN Tail(Line) ELSE Line
  <2>1. CASE ~Overrun(fifo)
    BY <1>2, <2>1 DEF Line
  <2>2. CASE Overrun(fifo)
    <3>1. m # <<>> /\ Line \in Seq(Frames) /\ Len(Line) = Len(m) /\ q = Tail(m)
      BY <1>2, <2>2, HandlerStores, LineFacts DEF RxInv
    <3>2. Distinct(m)
      BY InStepParts DEF RxInv
    <3>3. /\ Len(q) = Len(m) - 1 /\ Len(m) \in Nat \ {0}
          /\ \A i \in 1 .. Len(m) - 1 : q[i] = m[i + 1]
      BY <1>2, <3>1, <3>2, TailElements
    <3>4. Line # <<>>
      BY <3>1, <3>3
    <3>5. Tail(Line) = [i \in 1 .. Len(Line) - 1 |-> Line[i + 1]]
      BY <3>1, <3>4, TailIs
    <3>6. \A i \in 1 .. Len(m) - 1 : Line[i + 1] = content[m[i + 1]]
      BY <3>3 DEF Line
    <3> HIDE DEF m, q
    <3> QED
      BY <2>2, <3>1, <3>3, <3>5, <3>6
  <2> QED
    BY <2>1, <2>2
<1>6. Line' = Append(kept, frame)
  <2>1. /\ Append(q, b) \in Seq(Blocks) /\ Len(Append(q, b)) = Len(q) + 1 /\ Len(q) \in Nat
        /\ \A i \in 1 .. Len(q) + 1 : Append(q, b)[i] = IF i = Len(q) + 1 THEN b ELSE q[i]
    BY <1>3, AppendElements
  <2>2. \A i \in 1 .. Len(q) : q[i] \in Blocks /\ q[i] # b
    BY <1>3 DEF Elements
  <2>3. Line' = [i \in 1 .. Len(q) + 1 |-> content'[Append(q, b)[i]]]
    BY <1>1, <2>1 DEF Line
  <2>4. \A i \in 1 .. Len(q) + 1 :
          content'[Append(q, b)[i]] = IF i = Len(q) + 1 THEN frame ELSE content[q[i]]
    <3> TAKE i \in 1 .. Len(q) + 1
    <3>1. i # Len(q) + 1 => i \in 1 .. Len(q)
      BY <2>1
    <3> HIDE DEF q
    <3> QED
      BY <1>1, <1>2, <1>3, <2>1, <2>2, <3>1
  <2>5. kept \in Seq(Frames \cup {NoFrame}) /\ Len(kept) = Len(q)
    <3> DEFINE n == Len(q)
    <3>1. kept \in [1 .. n -> Frames \cup {NoFrame}] /\ n \in Nat
      BY <1>2, <2>1, <2>2
    <3> HIDE DEF n, kept
    <3>2. kept \in Seq(Frames \cup {NoFrame}) /\ Len(kept) = n
      BY <3>1
    <3> QED
      BY <3>2 DEF n
  <2>6. \A i \in 1 .. Len(q) : kept[i] = content[q[i]]
    OBVIOUS
  <2> HIDE DEF kept, q
  <2>7. Append(kept, frame)
          = [i \in 1 .. Len(q) + 1 |-> IF i = Len(q) + 1 THEN frame ELSE kept[i]]
    BY <2>1, <2>5, AppendIs
  <2>8. \A i \in 1 .. Len(q) + 1 : i # Len(q) + 1 => i \in 1 .. Len(q)
    BY <2>1
  <2> QED
    BY <2>3, <2>4, <2>6, <2>7, <2>8
<1> QED
  BY <1>4, <1>5, <1>6, LineFacts

\* What the reader gets is what was received, in order and once each, and only
\* the oldest frames of a full FIFO are lost.
THEOREM FifoIsLossy == RxSpec => ImplementsLossyFifo
<1>1. RxInit => Received!Init
  <2> SUFFICES ASSUME RxInit PROVE Received!Init
    OBVIOUS
  <2>1. Len(fifo.msgq) = 0 /\ reading = NoBlock
    BY DEF RxInit, data_fifo_init
  <2>2. Line = <<>>
    BY <2>1 DEF Line
  <2> QED
    BY <2>1, <2>2 DEF Received!Init, Line
<1>2. RxInv /\ RxInv' /\ [RxNext]_rx_vars => [Received!Next]_<<Line, Current>>
  <2> SUFFICES ASSUME RxInv, RxInv', [RxNext]_rx_vars
               PROVE  Received!Next \/ (Line' = Line /\ Current' = Current)
    OBVIOUS
  <2>1. ASSUME NEW frame \in Frames, iso_rx_data_handler(frame) PROVE Received!Put(frame)
    <3>1. elements_max - (IF Current = NoFrame THEN 0 ELSE 1) = elements_max - Read
      BY LineFacts DEF Read
    <3> QED
      BY <2>1, <3>1, PutStep DEF Received!Put, Received!Room, Line, Current
  <2>2. CASE frame_get
    <3> DEFINE m == fifo.msgq
    <3>1. /\ m # <<>> /\ reading = NoBlock /\ reading' = Head(m)
          /\ fifo' = [fifo EXCEPT !.msgq = Tail(@)] /\ UNCHANGED content
      BY <2>2 DEF frame_get, CanFetch, last_filled, last_filled_get
    <3>2. fifo \in Fifo /\ m \in Seq(Blocks) /\ Distinct(m)
      BY InStepParts DEF RxInv, Fifo
    <3>3. fifo'.msgq = Tail(m)
      BY <3>1, <3>2 DEF Fifo
    <3>4. /\ Len(Tail(m)) = Len(m) - 1 /\ Len(m) \in Nat \ {0}
          /\ Head(m) = m[1] /\ Head(m) \in Blocks
          /\ \A i \in 1 .. Len(m) - 1 : Tail(m)[i] = m[i + 1]
      BY <3>1, <3>2, TailElements
    <3>5. Line \in Seq(Frames) /\ Len(Line) = Len(m) /\ (Current = NoFrame)
      BY <3>1, LineFacts
    <3>6. Line # <<>>
      BY <3>4, <3>5
    <3>7. Current' = Head(Line)
      <4>1. Head(Line) = Line[1]
        BY <3>5, <3>6
      <4>2. 1 \in 1 .. Len(m)
        BY <3>4
      <4> QED
        BY <3>1, <3>4, <4>1, <4>2, StreamRxAssumption DEF Line, Current
    <3>8. Line' = Tail(Line)
      <4>1. Tail(Line) = [i \in 1 .. Len(Line) - 1 |-> Line[i + 1]]
        BY <3>5, <3>6, TailIs
      <4>2. Line' = [i \in 1 .. Len(Tail(m)) |-> content[Tail(m)[i]]]
        BY <3>1, <3>3 DEF Line
      <4>3. \A i \in 1 .. Len(m) - 1 : Line[i + 1] = content[m[i + 1]]
        BY <3>4 DEF Line
      <4> HIDE DEF m
      <4> QED
        BY <3>4, <3>5, <4>1, <4>2, <4>3
    <3> QED
      BY <3>5, <3>6, <3>7, <3>8 DEF Received!Next, Received!Take, Line, Current
  <2>3. CASE frame_release
    <3>1. /\ reading # NoBlock /\ reading' = NoBlock
          /\ fifo' = [fifo EXCEPT !.slab = @ \ {reading}] /\ UNCHANGED content
      BY <2>3 DEF frame_release, block_free
    <3>2. fifo'.msgq = fifo.msgq
      BY <3>1, InStepParts DEF RxInv, Fifo
    <3>3. Line' = Line /\ Current' = NoFrame /\ Current # NoFrame
      BY <3>1, <3>2, LineFacts DEF Line, Current
    <3> QED
      BY <3>3 DEF Received!Next, Received!Done, Line, Current
  <2>4. CASE UNCHANGED rx
    BY <2>4 DEF rx, Line, Current
  <2>5. UNCHANGED rx_vars => UNCHANGED rx
    BY DEF rx_vars
  <2> QED
    BY <2>1, <2>2, <2>3, <2>4, <2>5 DEF RxNext, Received!Next
<1> QED
  BY <1>1, <1>2, RxInvInit, RxInvNext, PTL
     DEF RxSpec, ImplementsLossyFifo, Received!Spec, Line, Current

-----------------------------------------------------------------------------
(* The transport.  IP is the transmission of Transport with what was proved *)
(* of it.                                                                   *)
IP == INSTANCE IsoTransmitProofs

LEMMA SameIsoInit == Iso!Init => IP!Init
BY DEF Iso!Init, IP!Init, Iso!Channels, IP!Channels

LEMMA SameIsoNext == Iso!Next => IP!Next
<1> USE DEF Iso!control, IP!control, Iso!link, IP!link, Iso!Channels, IP!Channels,
            Iso!IsFull, IP!IsFull, Iso!IsEmpty, IP!IsEmpty, Iso!Ended, IP!Ended,
            Iso!MaySend, IP!MaySend, Iso!Flushing, IP!Flushing,
            Iso!Cardinality, IP!Cardinality, Iso!IsFiniteSet, IP!IsFiniteSet
<1>1. ASSUME NEW c \in Iso!Channels
      PROVE  /\ Iso!iso_connected_cb(c) => IP!iso_connected_cb(c)
             /\ Iso!iso_disconnected_cb(c) => IP!iso_disconnected_cb(c)
             /\ Iso!iso_sent_cb(c) => IP!iso_sent_cb(c)
  BY DEF Iso!iso_connected_cb, IP!iso_connected_cb, Iso!iso_disconnected_cb,
         IP!iso_disconnected_cb, Iso!Cleared, IP!Cleared, Iso!iso_sent_cb, IP!iso_sent_cb
<1>2. Iso!flush_ends => IP!flush_ends
  BY DEF Iso!flush_ends, IP!flush_ends
<1>3. Iso!block_starts => IP!block_starts
  BY DEF Iso!block_starts, IP!block_starts
<1>4. Iso!anchor_get => IP!anchor_get
  BY DEF Iso!anchor_get, IP!anchor_get, Iso!AnchorMayFail, IP!AnchorMayFail
<1>5. Iso!reserve => IP!reserve
  BY DEF Iso!reserve, IP!reserve
<1>6. Iso!count => IP!count
  BY DEF Iso!count, IP!count
<1>7. Iso!send => IP!send
  BY DEF Iso!send, IP!send, Iso!Uncounted, IP!Uncounted, Iso!Step, IP!Step
<1> QED
  BY <1>1, <1>2, <1>3, <1>4, <1>5, <1>6, <1>7 DEF Iso!Next, IP!Next, Iso!iso_tx, IP!iso_tx

LEMMA SendEndsSteps == SendEnds => Next /\ UNCHANGED cis
BY DEF SendEnds, Next, Encoder, encoded_data_send, send_resumes

LEMMA TransportStepsStream == [TransportNext]_transport_vars => [RxNext]_rx_vars
<1> SUFFICES ASSUME [TransportNext]_transport_vars PROVE [RxNext]_rx_vars
  OBVIOUS
<1> USE DEF rx_vars
<1>1. ASSUME NEW c \in Channels, ChannelConnects(c) \/ ChannelDisconnects(c) PROVE RxNext
  BY <1>1 DEF ChannelConnects, ChannelDisconnects, RxNext, Next
<1>2. ASSUME NEW c \in Channels, BufferSent(c) PROVE UNCHANGED rx_vars
  BY <1>2 DEF BufferSent
<1>3. CASE Receives
  BY <1>3 DEF Receives, RxNext
<1>4. CASE MainMoves \/ Encodes
  BY <1>4 DEF MainMoves, Encodes, RxNext, Next, Encoder
<1>5. CASE BlockDropped \/ BlockEndsFlush
  BY <1>5, SendEndsSteps DEF BlockDropped, BlockEndsFlush, RxNext
<1>6. CASE BlockStarts
  BY <1>6 DEF BlockStarts, RxNext, Next, Encoder
<1>7. CASE BlockGoesOn
  BY <1>7, SendEndsSteps DEF BlockGoesOn, RxNext
<1>8. CASE UNCHANGED transport_vars
  BY <1>8 DEF transport_vars
<1> QED
  BY <1>1, <1>2, <1>3, <1>4, <1>5, <1>6, <1>7, <1>8 DEF TransportNext

\* Whatever a send does in how many steps, and whatever the callbacks do in the
\* middle of it, the stream and its FIFO work as StreamRx.tla has them.
THEOREM TransportKeepsStream == TransportSpec => StreamSafety
<1>1. TransportInit => RxInit
  BY DEF TransportInit
<1> QED
  BY <1>1, TransportStepsStream, PTL DEF TransportSpec, StreamSafety

LEMMA TransportStepsIso ==
  ASSUME Channels = Iso!Channels, [TransportNext]_transport_vars
  PROVE  [Iso!Next]_(Iso!vars)
<1>1. ASSUME UNCHANGED <<cis, tx>> PROVE UNCHANGED Iso!vars
  BY <1>1 DEF tx, Iso!vars
<1>2. ASSUME NEW c \in Channels,
             ChannelConnects(c) \/ ChannelDisconnects(c) \/ BufferSent(c)
      PROVE  Iso!Next
  BY <1>2 DEF ChannelConnects, ChannelDisconnects, BufferSent, Iso!Next
<1>3. CASE Receives
  <2>1. UNCHANGED cis
    BY <1>3 DEF Receives, iso_rx_data_handler, frame_get, frame_release, vars
  <2> QED
    BY <1>1, <1>3, <2>1 DEF Receives
<1>4. CASE MainMoves
  <2>1. UNCHANGED cis
    BY <1>4 DEF MainMoves, MainThread, event_handler, start_codec, start_timer,
                start_streaming, stop_timer, stop_codec
  <2> QED
    BY <1>1, <1>4, <2>1 DEF MainMoves
<1>5. CASE Encodes
  BY <1>1, <1>5 DEF Encodes, audio_process_work_submit, audio_process
<1>6. CASE BlockDropped
  BY <1>1, <1>6, SendEndsSteps DEF BlockDropped
<1>7. CASE BlockEndsFlush \/ BlockStarts \/ BlockGoesOn
  BY <1>7 DEF BlockEndsFlush, BlockStarts, BlockGoesOn, Iso!Next, Iso!iso_tx
<1>8. CASE UNCHANGED transport_vars
  BY <1>1, <1>8 DEF transport_vars, rx_vars, vars
<1> QED
  BY <1>2, <1>3, <1>4, <1>5, <1>6, <1>7, <1>8 DEF TransportNext

\* And blocks that come only from a stream that is up, and wait for nothing but
\* themselves, are sent as IsoTransmit.tla has it.
THEOREM TransportKeepsTransmission ==
  ASSUME TransportSound PROVE TransportSpec => TransmitSafety
<1>1. TransportInit => Iso!Init
  BY DEF TransportInit
<1>2. [TransportNext]_transport_vars => [Iso!Next]_(Iso!vars)
  BY TransportStepsIso DEF TransportSound
<1> QED
  BY <1>1, <1>2, PTL DEF TransportSpec, TransmitSafety

(* Where the send is tells where the encoder of Stream.tla is, and an encoder *)
(* that does not sleep keeps main where it is.                                *)
JointInv ==
  /\ sender = "idle" => worker # "sleeping"
  /\ sender # "idle" => worker \in {"encoded", "sleeping"}
  /\ sender = "anchor" => worker = "sleeping"
  /\ sender # "idle" /\ worker = "encoded" => state = "STREAMING"

LEMMA JointInvInit == TransportInit => JointInv
BY DEF TransportInit, RxInit, Init, Iso!Init, JointInv

LEMMA JointInvNext == JointInv /\ [TransportNext]_transport_vars => JointInv'
<1> SUFFICES ASSUME JointInv, [TransportNext]_transport_vars PROVE JointInv'
  OBVIOUS
<1> USE DEF JointInv
<1>0. ASSUME UNCHANGED <<sender, worker, state>> PROVE JointInv'
  BY <1>0
<1>1. ASSUME NEW c \in Channels,
             ChannelConnects(c) \/ ChannelDisconnects(c) \/ BufferSent(c)
      PROVE  JointInv'
  BY <1>0, <1>1
     DEF ChannelConnects, ChannelDisconnects, BufferSent, rx_vars, vars, encoder,
         iso_connected_cb, iso_disconnected_cb, Iso!iso_connected_cb,
         Iso!iso_disconnected_cb, Iso!iso_sent_cb, Iso!control
<1>2. CASE Receives
  BY <1>0, <1>2 DEF Receives, tx, iso_rx_data_handler, frame_get, frame_release, vars, encoder
<1>3. CASE MainMoves
  <2>1. worker = "sleeping" \/ worker = "idle"
    BY <1>3 DEF MainMoves, MainThread, MainRuns, event_handler, start_codec, start_timer,
                start_streaming, stop_timer, stop_codec
  <2>2. UNCHANGED <<sender, worker>>
    BY <1>3 DEF MainMoves, MainThread, tx, encoder, event_handler, start_codec, start_timer,
                start_streaming, stop_timer, stop_codec
  <2> QED
    BY <2>1, <2>2
<1>4. CASE Encodes
  BY <1>4 DEF Encodes, tx, audio_process_work_submit, audio_process
<1>5. CASE BlockDropped
  BY <1>5 DEF BlockDropped, SendEnds, tx
<1>6. CASE BlockEndsFlush
  BY <1>6 DEF BlockEndsFlush, SendEnds, Iso!flush_ends, Iso!control
<1>7. CASE BlockStarts
  <2>1. sender = "idle" /\ sender' \in {"reserve", "anchor"}
    BY <1>7 DEF BlockStarts, Iso!block_starts
  <2>2. CASE sender' = "anchor"
    BY <1>7, <2>1, <2>2 DEF BlockStarts
  <2>3. CASE sender' = "reserve"
    BY <1>7, <2>1, <2>3 DEF BlockStarts, MaySend, vars
  <2> QED
    BY <2>1, <2>2, <2>3
<1>8. CASE BlockGoesOn
  <2>1. sender # "idle" /\ sender' \in {"idle", "reserve", "count", "send"}
    BY <1>8 DEF BlockGoesOn, Iso!anchor_get, Iso!reserve, Iso!count, Iso!send, Iso!Ended
  <2>2. CASE sender' = "idle"
    BY <1>8, <2>2 DEF BlockGoesOn, SendEnds
  <2>3. CASE sender' # "idle"
    <3>1. UNCHANGED <<worker, state>>
      BY <1>8, <2>3 DEF BlockGoesOn, vars
    <3> QED
      BY <2>1, <2>3, <3>1
  <2> QED
    BY <2>2, <2>3
<1>9. CASE UNCHANGED transport_vars
  BY <1>0, <1>9 DEF transport_vars, rx_vars, tx, vars
<1> QED
  BY <1>1, <1>2, <1>3, <1>4, <1>5, <1>6, <1>7, <1>8, <1>9 DEF TransportNext

(* What is invariant of the stream is invariant of its transport. *)
StreamInv == TypeOK /\ CodecInv /\ (Alive => LinkInv) /\ RxInv

LEMMA StreamInvInit == TransportInit => StreamInv
<1>1. Init => LinkInv
  BY DEF Init, LinkInv, Down, Waiting, Up, ConnectedFrom
<1> QED
  BY <1>1, TypeInit, CodecInvInit, RxInvInit DEF TransportInit, RxInit, StreamInv

LEMMA StreamInvNext == StreamInv /\ [TransportNext]_transport_vars => StreamInv'
<1> SUFFICES ASSUME StreamInv, [TransportNext]_transport_vars PROVE StreamInv'
  OBVIOUS
<1>1. [RxNext]_rx_vars
  BY TransportStepsStream
<1>2. RxInv' /\ TypeOK' /\ CodecInv' /\ (Alive => LinkInv)'
  BY <1>1, RxInvNext, RxStepsStream, TypeNext, CodecInvNext, LinkInvNext DEF StreamInv
<1> QED
  BY <1>2 DEF StreamInv

\* A block goes out only while the program streams and of a codec that is there,
\* but for what is left of a block that slept at its anchor point
\* (stream_control.c 125, ble_transmit.c 239-253).
THEOREM SendsAlwaysWhileStreaming == TransportSpec => []SendsWhileStreaming
<1>1. StreamInv /\ JointInv => SendsWhileStreaming
  BY DEF StreamInv, CodecInv, EncoderInv, JointInv, SendsWhileStreaming
<1> QED
  BY <1>1, StreamInvInit, StreamInvNext, JointInvInit, JointInvNext, PTL DEF TransportSpec

-----------------------------------------------------------------------------
(* What is invariant of the transmission is invariant of its transport. *)
IsoKept == IP!IsoInv /\ IP!StepInv

LEMMA IsoKeptInit == ASSUME TransportSound PROVE TransportInit => IsoKept
BY SameIsoInit, IP!IsoInvInit, IP!StepInvInit DEF TransportSound, TransportInit, IsoKept

LEMMA IsoKeptNext ==
  ASSUME TransportSound PROVE IsoKept /\ [TransportNext]_transport_vars => IsoKept'
<1> SUFFICES ASSUME IsoKept, [TransportNext]_transport_vars PROVE IsoKept'
  OBVIOUS
<1>1. [Iso!Next]_(Iso!vars)
  BY TransportStepsIso DEF TransportSound
<1>2. [IP!Next]_(IP!vars)
  BY <1>1, SameIsoNext DEF Iso!vars, IP!vars
<1> QED
  BY <1>2, IP!IsoInvNext, IP!StepInvNext DEF TransportSound, IsoKept

\* The counts of the buffers stay exact and the halves in step with the stream
\* above them starting, stopping and dropping blocks as it does.
THEOREM TransportKeepsCounts ==
  ASSUME TransportSound PROVE TransportSpec => [](Iso!CountExact /\ Iso!InStep)
<1>1. IsoKept => Iso!CountExact /\ Iso!InStep
  BY DEF IsoKept, IP!IsoInv, IP!CountExact, IP!StepInv, IP!Undisturbed, IP!Channels,
         Iso!CountExact, Iso!InStep, Iso!Channels
<1> QED
  BY <1>1, IsoKeptInit, IsoKeptNext, PTL DEF TransportSpec

\* When main has handled every report and no channel is connected the timer is
\* off, the host has no buffer to report, and a send under way is one that slept
\* (stream_control.c 56-108, ble_transmit.c 779-829).
THEOREM AlwaysQuietWhenDown ==
  ASSUME TransportSound PROVE TransportSpec => []QuietWhenDown
<1>1. StreamInv /\ JointInv /\ IsoKept => QuietWhenDown
  <2> SUFFICES ASSUME StreamInv, JointInv, IsoKept,
                      queue = <<>>, main = "waiting", fault = "none", cis = {}
               PROVE  /\ ~timer
                      /\ \A c \in Channels : flight[c] = 0
                      /\ sender # "idle" => slept
    BY DEF QuietWhenDown
  <2>1. state # "STREAMING"
    BY DEF StreamInv, LinkInv, Alive, Up
  <2>2. ~timer
    BY <2>1 DEF StreamInv, CodecInv, AudioInv, Flags
  <2>3. \A c \in Channels : flight[c] = 0
    BY DEF IsoKept, IP!IsoInv, IP!RoomInv, IP!Channels, Iso!Channels, TransportSound
  <2>4. sender # "idle" => slept
    BY <2>1 DEF StreamInv, CodecInv, EncoderInv, JointInv
  <2> QED
    BY <2>2, <2>3, <2>4
<1> QED
  BY <1>1, StreamInvInit, StreamInvNext, JointInvInit, JointInvNext, IsoKeptInit, IsoKeptNext,
     PTL DEF TransportSpec
=============================================================================
