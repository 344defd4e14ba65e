------------------------------- MODULE Transport -------------------------------
(***************************************************************************)
(* The stream, its receive path and its stereo transmission at once: what  *)
(* is one step, or one sleep, of the encoder in Stream.tla is here the     *)
(* send of IsoTransmit.tla, step by step, and a CIS callback drives both.  *)
(*                                                                         *)
(* Stream.tla takes it that a send changes nothing but the encoder, and    *)
(* IsoTransmit.tla that blocks come one after the other at any time.  Here *)
(* a block is sent only when it was encoded and the state is STREAMING,    *)
(* and main has to wait for a send that does not sleep.                    *)
(***************************************************************************)
EXTENDS StreamRx

CONSTANTS HCI_ISO_BUF_ALLOC_PER_CHAN, FLUSH_BOUND

VARIABLES alloc, flush, flight, sender, half, begun, hit, lead

Iso == INSTANCE IsoTransmit

tx == <<alloc, flush, flight, sender, half, begun, hit, lead>>
transport_vars == <<rx_vars, tx>>

TransportInit == RxInit /\ Iso!Init

-----------------------------------------------------------------------------
(* The callbacks. *)

ChannelConnects(c) ==
  iso_connected_cb(c) /\ Iso!iso_connected_cb(c) /\ UNCHANGED rx

ChannelDisconnects(c) ==
  iso_disconnected_cb(c) /\ Iso!iso_disconnected_cb(c) /\ UNCHANGED rx

BufferSent(c) == Alive /\ Iso!iso_sent_cb(c) /\ UNCHANGED rx_vars

Receives ==
  /\ \/ \E frame \in Frames : iso_rx_data_handler(frame)
     \/ frame_get \/ frame_release
  /\ UNCHANGED tx

-----------------------------------------------------------------------------
(* Main, below the encoder, and the encoder up to the end of the encoding. *)

\* The encoder is awake in ble_trans_iso_tx, perhaps again after a sleep.
Sending == sender \notin {"idle", "anchor"}

MainMoves == MainThread /\ ~Sending /\ UNCHANGED <<rx, tx>>

Encodes == (audio_process_work_submit \/ audio_process) /\ UNCHANGED <<rx, tx>>

-----------------------------------------------------------------------------
(* stream_control_encoded_data_send and ble_trans_iso_tx. *)

\* "only send data if in streaming state"
MaySend == state = "STREAMING"

\* The send is over, whether it slept or not.
SendEnds == (encoded_data_send \/ send_resumes) /\ worker' = "idle"

\* Nothing goes out of a block that comes outside the streaming state, finds a
\* channel full, or waits with a flush for the buffers under way.
BlockDropped ==
  /\ worker = "encoded" /\ sender = "idle"
  /\ \/ ~MaySend
     \/ ~Iso!MaySend
     \/ Iso!Flushing /\ \E c \in Channels : ~Iso!IsEmpty(c)
  /\ SendEnds
  /\ UNCHANGED <<rx, tx>>

\* The block that finds nothing under way ends the flush.
BlockEndsFlush ==
  /\ worker = "encoded" /\ MaySend
  /\ Iso!flush_ends /\ SendEnds
  /\ UNCHANGED rx

\* The anchor request is what the send may sleep in.
BlockStarts ==
  /\ Alive /\ worker = "encoded" /\ MaySend
  /\ Iso!block_starts
  /\ IF sender' = "anchor"
       THEN encoded_data_send /\ worker' = "sleeping"
       ELSE UNCHANGED vars
  /\ UNCHANGED rx

BlockGoesOn ==
  /\ Alive
  /\ Iso!anchor_get \/ Iso!reserve \/ Iso!count \/ Iso!send
  /\ IF sender' = "idle" THEN SendEnds ELSE UNCHANGED vars
  /\ UNCHANGED rx

TransportNext ==
  \/ \E c \in Channels : ChannelConnects(c) \/ ChannelDisconnects(c) \/ BufferSent(c)
  \/ Receives
  \/ MainMoves \/ Encodes
  \/ BlockDropped \/ BlockEndsFlush \/ BlockStarts \/ BlockGoesOn

TransportSpec == TransportInit /\ [][TransportNext]_transport_vars

-----------------------------------------------------------------------------
\* What CONFIG_BT_ISO_MAX_CHAN and the bounds have to be.
TransportSound ==
  /\ Channels = Iso!Channels
  /\ HCI_ISO_BUF_ALLOC_PER_CHAN \in Nat \ {0} /\ FLUSH_BOUND \in Nat \ {0}

\* A block goes out only while the program streams, and only of a codec that is
\* there, but for the rest of a block that slept at its anchor point: the state
\* read at stream_control.c 125 is not read again.
SendsWhileStreaming ==
  sender # "idle" /\ ~slept => state = "STREAMING" /\ codec

\* Once main has handled every report and no channel is connected, the program
\* is quiet: it encodes no more, the host has no buffer left to report, and a
\* block is still on its way only if it slept.
QuietWhenDown ==
  queue = <<>> /\ main = "waiting" /\ fault = "none" /\ cis = {}
    => /\ ~timer
       /\ \A c \in Channels : flight[c] = 0
       /\ sender # "idle" => slept

\* The transport is the stream with its receive path: a send of any length, with
\* callbacks between its steps, is what Stream.tla has as one step or one sleep.
StreamSafety == RxInit /\ [][RxNext]_rx_vars

\* And it is stereo transmission.
TransmitSafety == Iso!Init /\ [][Iso!Next]_(Iso!vars)
=============================================================================
