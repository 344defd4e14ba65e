------------------------------- MODULE StreamRx -------------------------------
(***************************************************************************)
(* The stream of Stream.tla with its receive path: _ble_iso_rx_data_handler *)
(* of stream_control.c stores a frame in _ble_fifo_rx when the program is   *)
(* streaming, and swaps out the oldest one when the FIFO is full.  It runs  *)
(* in the cooperative receive thread: no other action on the FIFO happens   *)
(* within it.                                                               *)
(*                                                                         *)
(* The handler is written for an audio datapath that reads the FIFO, which  *)
(* this repository does not have yet: it is external, and does what         *)
(* data_fifo.h asks of a reader, one frame at a time.                       *)
(* The handler is only called in a bidirectional stream, which prj.conf     *)
(* does not build.                                                          *)
(***************************************************************************)
EXTENDS Stream, DataFifo

CONSTANTS Frames,        \* what a frame may hold
          NoFrame,       \* a block that was never written
          NoBlock        \* the reader has no block

ASSUME StreamRxAssumption == NoFrame \notin Frames /\ NoBlock \notin Blocks

VARIABLES
  fifo,         \* _ble_fifo_rx
  content,      \* what was last written to each block of its slab
  reading       \* the block the reader works on, or NoBlock

rx == <<fifo, content, reading>>
rx_vars == <<vars, rx>>

RxInit ==
  /\ Init
  /\ fifo = data_fifo_init
  /\ content = [b \in Blocks |-> NoFrame]
  /\ reading = NoBlock

-----------------------------------------------------------------------------
Overrun_Never(f) == FALSE
Overrun(f) == blocks_alloced_num(f) >= elements_max

\* "FIFO buffer is full, swap out oldest frame for a new one".
Swapped(f) ==
  IF Overrun(f) THEN block_free(last_filled_get(f), last_filled(f)) ELSE f

\* None of the handler's calls returns an error, on which ERR_CHK ends the
\* program.
Stores(f) ==
  /\ legal_used_elements(f)
  /\ Overrun(f) => CanFetch(f)
  /\ Vacant(Swapped(f)) # {}
  /\ CanLock(Swapped(f))

\* A frame that comes outside the streaming state is thrown away.
iso_rx_data_handler(frame) ==
  /\ Alive /\ cis # {} /\ state = "STREAMING"
  /\ IF Stores(fifo)
       THEN /\ \E b \in Vacant(Swapped(fifo)) :
                 /\ fifo' = block_lock(first_vacant_get(Swapped(fifo), b), b)
                 /\ content' = [content EXCEPT ![b] = frame]
            /\ UNCHANGED fault
       ELSE fault' = "fifo" /\ UNCHANGED <<fifo, content>>
  /\ UNCHANGED <<cis, queue, burst, state, main, audio, encoder, reading>>

-----------------------------------------------------------------------------
(* The reader.                                                              *)
frame_get ==
  /\ Alive /\ reading = NoBlock /\ CanFetch(fifo)
  /\ reading' = last_filled(fifo)
  /\ fifo' = last_filled_get(fifo)
  /\ UNCHANGED <<vars, content>>

frame_release ==
  /\ Alive /\ reading # NoBlock
  /\ fifo' = block_free(fifo, reading)
  /\ reading' = NoBlock
  /\ UNCHANGED <<vars, content>>

RxNext ==
  \/ Next /\ UNCHANGED rx
  \/ \E frame \in Frames : iso_rx_data_handler(frame)
  \/ frame_get \/ frame_release

RxSpec == RxInit /\ [][RxNext]_rx_vars /\ Fairness

-----------------------------------------------------------------------------
\* The slab and the queue of the FIFO stay in step (data_fifo.c 21-77): every
\* allocated block is queued once or is the reader's, so none is lost, given
\* twice, or read while the handler writes to it; and no call of the handler
\* fails, even when the overrun swap meets a reader at work.
FifoInStep ==
  /\ fifo \in Fifo
  /\ reading \in Blocks \cup {NoBlock}
  /\ \A i, j \in 1 .. Len(fifo.msgq) : i # j => fifo.msgq[i] # fifo.msgq[j]
  /\ \A i \in 1 .. Len(fifo.msgq) : fifo.msgq[i] # reading
  /\ fifo.slab = {fifo.msgq[i] : i \in 1 .. Len(fifo.msgq)}
                   \cup (IF reading = NoBlock THEN {} ELSE {reading})
  /\ fault # "fifo"

\* What is read is what was received, in order and once each; a full FIFO loses
\* its oldest frame and nothing else (stream_control.c 224-256).
Received == INSTANCE LossyFifo WITH
  Nothing  <- NoFrame,
  CAPACITY <- elements_max,
  line     <- [i \in 1 .. Len(fifo.msgq) |-> content[fifo.msgq[i]]],
  current  <- IF reading = NoBlock THEN NoFrame ELSE content[reading]

ImplementsLossyFifo == Received!Spec
=============================================================================
