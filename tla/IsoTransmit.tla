----------------------------- MODULE IsoTransmit -----------------------------
(***************************************************************************)
(* Stereo transmission over two CIS channels, ble_transmit.c: the encoder  *)
(* thread sends the halves of a block, counting per channel the buffers it *)
(* has handed to the host; the callbacks of the Bluetooth threads count    *)
(* them down, clear the count of a channel that goes away, and ask for a   *)
(* flush when a second channel comes up.                                   *)
(*                                                                         *)
(* The Bluetooth threads are cooperative, so a callback is one step, and   *)
(* one that can come between any two steps of the encoder thread.  What    *)
(* is lost with a connection is never reported as sent; that a buffer is   *)
(* free when it is reported follows the comments at 831 and 1189.          *)
(***************************************************************************)
EXTENDS Integers, FiniteSets

CONSTANTS HCI_ISO_BUF_ALLOC_PER_CHAN,
          FLUSH_BOUND                  \* requests for a flush that can be open

ASSUME IsoAssumption ==
  /\ HCI_ISO_BUF_ALLOC_PER_CHAN \in Nat \ {0}
  /\ FLUSH_BOUND \in Nat \ {0}

VARIABLES
  cis,       \* the channels in BT_ISO_STATE_CONNECTED
  alloc,     \* _iso_tx_pool_alloc
  flush,     \* _iso_tx_flush
  flight,    \* the buffers of a channel that the host has and must report
  sender,    \* where the encoder thread is in ble_trans_iso_tx
  half,      \* the channel it sends to
  begun,     \* history: the host got a buffer since the channel connected
  hit,       \* history: the last clear came between a count and its send
  lead       \* history: by how many buffers LEFT is ahead of RIGHT since the
             \* last flush, not counted beyond 1

vars == <<cis, alloc, flush, flight, sender, half, begun, hit, lead>>
link == <<cis, begun, hit>>
control == <<sender, half>>

Channels == {"LEFT", "RIGHT"}

Init ==
  /\ cis = {} /\ flush = 0
  /\ alloc = [c \in Channels |-> 0]
  /\ flight = [c \in Channels |-> 0]
  /\ sender = "idle" /\ half = "LEFT"
  /\ begun = [c \in Channels |-> FALSE]
  /\ hit = [c \in Channels |-> FALSE]
  /\ lead = 0

IsFull(c) == alloc[c] >= HCI_ISO_BUF_ALLOC_PER_CHAN
IsEmpty(c) == alloc[c] = 0

-----------------------------------------------------------------------------
(* The callbacks.                                                           *)

\* The first channel is reported to stream_control.c, a later one flushes.
iso_connected_cb(c) ==
  /\ c \notin cis
  /\ cis' = cis \cup {c}
  /\ begun' = [begun EXCEPT ![c] = FALSE]
  /\ \/ Cardinality(cis') = 1 /\ UNCHANGED flush
     \/ Cardinality(cis') > 1 /\ flush < FLUSH_BOUND /\ flush' = flush + 1
  /\ UNCHANGED <<alloc, flight, control, hit, lead>>

Cleared_Not(c) == alloc
Cleared(c) == [alloc EXCEPT ![c] = 0]

\* Also called when a channel could not be established.
iso_disconnected_cb(c) ==
  /\ cis' = cis \ {c}
  /\ alloc' = Cleared(c)
  /\ flight' = [flight EXCEPT ![c] = 0]
  /\ hit' = [hit EXCEPT ![c] = (sender = "send" /\ half = c)]
  /\ UNCHANGED <<flush, control, begun, lead>>

iso_sent_cb(c) ==
  /\ flight[c] > 0
  /\ flight' = [flight EXCEPT ![c] = @ - 1]
  /\ alloc' = [alloc EXCEPT ![c] = @ - 1]
  /\ UNCHANGED <<flush, control, link, lead>>

-----------------------------------------------------------------------------
(* ble_trans_iso_tx with BLE_TRANS_CHANNEL_STEREO.  A block is dropped, and  *)
(* nothing changes, while a channel is full or a flush waits for buffers.    *)

Flushing == flush # 0

MaySend_LeftOnly == ~IsFull("LEFT")
MaySend == \A c \in Channels : ~IsFull(c)

flush_ends ==
  /\ sender = "idle" /\ MaySend /\ Flushing
  /\ \A c \in Channels : IsEmpty(c)
  /\ flush' = flush - 1
  /\ lead' = 0
  /\ UNCHANGED <<alloc, flight, control, link>>

\* The anchor point is asked for when the last block was long ago.
block_starts ==
  /\ sender = "idle" /\ MaySend /\ ~Flushing
  /\ sender' \in IF Cardinality(cis) > 1 THEN {"reserve", "anchor"} ELSE {"reserve"}
  /\ UNCHANGED <<cis, alloc, flush, flight, half, begun, hit, lead>>

\* ble_trans_iso_tx_anchor_get asks for the first connected channel, LEFT while it
\* is one.  The controller has no anchor point for a channel nothing was sent on,
\* nor for one that went away while it was asked (-EIO).
AnchorMayFail == "LEFT" \notin cis \/ ~begun["LEFT"]

anchor_get ==
  /\ sender = "anchor" /\ sender' = "reserve"
  /\ \/ UNCHANGED flush
     \/ /\ AnchorMayFail
        /\ flush < FLUSH_BOUND /\ flush' = flush + 1
  /\ UNCHANGED <<alloc, flight, half, link, lead>>

\* The end of a half: an error ends the block, also before its right half.
Ended(ok) ==
  IF ok /\ half = "LEFT" THEN sender' = "reserve" /\ half' = "RIGHT"
                         ELSE sender' = "idle" /\ half' = "LEFT"

\* _iso_tx_data_or_pattern and _iso_tx up to the allocation from the pool of
\* the channel, which holds the buffers the host has not given back.
reserve ==
  /\ sender = "reserve"
  /\ \/ half \notin cis /\ Ended(TRUE)
     \/ /\ half \in cis
        /\ IsFull(half) \/ flight[half] >= HCI_ISO_BUF_ALLOC_PER_CHAN
        /\ Ended(FALSE)
     \/ /\ half \in cis
        /\ ~IsFull(half) /\ flight[half] < HCI_ISO_BUF_ALLOC_PER_CHAN
        /\ sender' = "count" /\ UNCHANGED half
  /\ UNCHANGED <<alloc, flush, flight, link, lead>>

count ==
  /\ sender = "count" /\ sender' = "send"
  /\ alloc' = [alloc EXCEPT ![half] = @ + 1]
  /\ UNCHANGED <<flush, flight, half, link, lead>>

Uncounted_Not == alloc
Uncounted == [alloc EXCEPT ![half] = @ - 1]

Step == IF half = "LEFT" THEN 1 ELSE -1

\* bt_iso_chan_send refuses a channel that is no longer connected.
send ==
  /\ sender = "send"
  /\ \/ /\ half \in cis
        /\ flight' = [flight EXCEPT ![half] = @ + 1]
        /\ begun' = [begun EXCEPT ![half] = TRUE]
        /\ lead' = IF lead + Step \in -1 .. 1 THEN lead + Step ELSE lead
        /\ Ended(TRUE)
        /\ UNCHANGED alloc
     \/ /\ half \notin cis
        /\ alloc' = Uncounted
        /\ Ended(FALSE)
        /\ UNCHANGED <<flight, begun, lead>>
  /\ UNCHANGED <<cis, flush, hit>>

-----------------------------------------------------------------------------
iso_tx == flush_ends \/ block_starts \/ anchor_get \/ reserve \/ count \/ send

Next ==
  \/ \E c \in Channels : iso_connected_cb(c) \/ iso_disconnected_cb(c) \/ iso_sent_cb(c)
  \/ iso_tx

\* Blocks keep coming and the encoder thread gets to run; the host reports
\* each buffer as long as the channel stays connected.
Fairness == WF_vars(iso_tx) /\ \A c \in Channels : WF_vars(iso_sent_cb(c))

Spec == Init /\ [][Next]_vars /\ Fairness

-----------------------------------------------------------------------------
\* Types of the variables.  The count is -1 after a disconnection hit a send.
TypeOK ==
  /\ cis \subseteq Channels
  /\ alloc \in [Channels -> -1 .. HCI_ISO_BUF_ALLOC_PER_CHAN]
  /\ flight \in [Channels -> 0 .. HCI_ISO_BUF_ALLOC_PER_CHAN]
  /\ flush \in 0 .. FLUSH_BOUND
  /\ sender \in {"idle", "anchor", "reserve", "count", "send"}
  /\ half \in Channels
  /\ begun \in [Channels -> BOOLEAN]
  /\ hit \in [Channels -> BOOLEAN]
  /\ lead \in -1 .. 1

\* The count of a channel (ble_transmit.c 1226-1249, 783, 834) is exactly the
\* buffers in the host and the one being handed over, whatever connects or
\* disconnects when, but for the one case that makes it one too small: a
\* disconnection between the count and the send.
CountExact ==
  \A c \in Channels :
    alloc[c] = flight[c] + (IF sender = "send" /\ half = c THEN 1 ELSE 0)
                         - (IF hit[c] THEN 1 ELSE 0)

\* With both channels up and no flush open, a block is sent on both or on none:
\* the halves do not drift apart ("a permanent offset between the channels",
\* ble_transmit.c 248), unless a count was made too small.
InStep ==
  sender = "idle" /\ cis = Channels /\ flush = 0 /\ (\A c \in Channels : ~hit[c])
    => lead = 0

\* Once the link settles every requested flush ends, so that the stream goes on,
\* unless a count was made too small.
FlushEnds ==
  <>[][FALSE]_cis /\ <>[](\A c \in Channels : ~hit[c]) => <>[](flush = 0)

\* "Wait for ongoing transmissions to complete before enqueuing more"
\* (ble_transmit.c 769), so a flush with no transmission left to wait for ends
\* with the next block.
FlushWaitsForOngoing ==
  Flushing /\ sender = "idle" /\ (\A c \in Channels : flight[c] = 0)
    => \A c \in Channels : IsEmpty(c)
=============================================================================
