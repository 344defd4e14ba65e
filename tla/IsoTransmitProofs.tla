--------------------------- MODULE IsoTransmitProofs ---------------------------
(***************************************************************************)
(* The counts of buffers are exact and the two halves of the stream stay   *)
(* in step, for any number of buffers per channel, wherever the callbacks  *)
(* come between the steps of the encoder thread.                           *)
(***************************************************************************)
EXTENDS IsoTransmit, FiniteSetTheorems, TLAPS

(* The half under way has room from its reservation on, nobody else fills   *)
(* the channel, and a channel that is down has no buffers in the host.      *)
RoomInv ==
  /\ sender = "count" => alloc[half] < HCI_ISO_BUF_ALLOC_PER_CHAN
  /\ sender \in {"count", "send"} => flight[half] < HCI_ISO_BUF_ALLOC_PER_CHAN
  /\ \A c \in Channels : c \notin cis => flight[c] = 0

IsoInv == TypeOK /\ CountExact /\ RoomInv

LEMMA IsoInvInit == Init => IsoInv
BY IsoAssumption DEF Init, IsoInv, TypeOK, CountExact, RoomInv, Channels

LEMMA IsoInvNext == IsoInv /\ [Next]_vars => IsoInv'
<1> SUFFICES ASSUME IsoInv, [Next]_vars PROVE IsoInv'
  OBVIOUS
<1> USE IsoAssumption DEF IsoInv, TypeOK, CountExact, RoomInv, Channels, link, control
<1>1. ASSUME NEW c \in Channels, iso_connected_cb(c) PROVE IsoInv'
  <2>1. flush' \in 0 .. FLUSH_BOUND
    BY <1>1 DEF iso_connected_cb
  <2>2. /\ cis' = cis \cup {c} /\ begun' = [begun EXCEPT ![c] = FALSE]
        /\ UNCHANGED <<alloc, flight, sender, half, hit, lead>>
    BY <1>1 DEF iso_connected_cb
  <2> QED
    BY <2>1, <2>2
<1>2. ASSUME NEW c \in Channels, iso_disconnected_cb(c) PROVE IsoInv'
  <2>1. /\ cis' = cis \ {c} /\ alloc' = [alloc EXCEPT ![c] = 0]
        /\ flight' = [flight EXCEPT ![c] = 0]
        /\ hit' = [hit EXCEPT ![c] = (sender = "send" /\ half = c)]
        /\ UNCHANGED <<flush, sender, half, begun, lead>>
    BY <1>2 DEF iso_disconnected_cb, Cleared
  <2>2. hit'[c] <=> sender = "send" /\ half = c
    BY <2>1
  <2>3. TypeOK'
    BY <2>1
  <2>4. CountExact'
    BY <2>1, <2>2
  <2>5. RoomInv'
    BY <2>1
  <2> QED
    BY <2>3, <2>4, <2>5
<1>3. ASSUME NEW c \in Channels, iso_sent_cb(c) PROVE IsoInv'
  <2>1. TypeOK'
    BY <1>3 DEF iso_sent_cb
  <2>2. CountExact'
    BY <1>3 DEF iso_sent_cb
  <2>3. RoomInv'
    BY <1>3 DEF iso_sent_cb
  <2> QED
    BY <2>1, <2>2, <2>3
<1>4. CASE flush_ends
  BY <1>4 DEF flush_ends, Flushing
<1>5. CASE block_starts
  BY <1>5 DEF block_starts
<1>6. CASE anchor_get
  BY <1>6 DEF anchor_get
<1>7. CASE reserve
  BY <1>7 DEF reserve, Ended, IsFull
<1>8. CASE count
  BY <1>8 DEF count
<1>9. CASE send
  <2>1. CASE half \in cis
    <3>1. /\ sender = "send" /\ sender' \in {"reserve", "idle"} /\ half' \in Channels
          /\ flight' = [flight EXCEPT ![half] = @ + 1]
          /\ UNCHANGED <<alloc, cis, flush, hit>>
      BY <1>9, <2>1 DEF send, Ended
    <3>2. begun' \in [Channels -> BOOLEAN] /\ lead' \in -1 .. 1
      BY <1>9, <2>1 DEF send
    <3> QED
      BY <2>1, <3>1, <3>2
  <2>2. CASE half \notin cis
    BY <1>9, <2>2 DEF send, Ended, Uncounted
  <2> QED
    BY <2>1, <2>2
<1>10. CASE UNCHANGED vars
  BY <1>10 DEF vars
<1> QED
  BY <1>1, <1>2, <1>3, <1>4, <1>5, <1>6, <1>7, <1>8, <1>9, <1>10 DEF Next, iso_tx

LEMMA IsoInvAlways == Spec => []IsoInv
BY IsoInvInit, IsoInvNext, PTL DEF Spec

\* Types of the variables: no channel has more buffers out than its pool holds
\* (ble_transmit.c 45-47), and no count ever falls below -1.
THEOREM IsoTypeCorrect == Spec => []TypeOK
<1>1. IsoInv => TypeOK
  BY DEF IsoInv
<1> QED
  BY <1>1, IsoInvAlways, PTL

\* The count of each channel is its buffers in the host and the one being handed
\* over, but for a disconnection between the count and the send
\* (ble_transmit.c 783, 834, 1237-1249).
THEOREM CountAlwaysExact == Spec => []CountExact
<1>1. IsoInv => CountExact
  BY DEF IsoInv
<1> QED
  BY <1>1, IsoInvAlways, PTL

-----------------------------------------------------------------------------
(* The halves in step.  A block that was let through has room for both of   *)
(* its halves to its end; and a flush request is open from the moment the   *)
(* second channel comes up, so none is closed without emptying both.        *)

Undisturbed == cis = Channels /\ flush = 0 /\ \A c \in Channels : ~hit[c]

StepInv ==
  /\ sender = "idle" => half = "LEFT"
  /\ sender = "anchor" => half = "LEFT"
  /\ Undisturbed =>
       /\ lead = IF half = "LEFT" THEN 0 ELSE 1
       /\ sender # "idle" /\ half = "LEFT" => alloc["RIGHT"] < HCI_ISO_BUF_ALLOC_PER_CHAN
       /\ sender \in {"anchor", "reserve"} => alloc[half] < HCI_ISO_BUF_ALLOC_PER_CHAN

LEMMA BothAreTwo == Cardinality(Channels) = 2
<1>1. IsFiniteSet({}) /\ Cardinality({}) = 0
  BY FS_EmptySet
<1>2. IsFiniteSet({"LEFT"}) /\ Cardinality({"LEFT"}) = 1
  BY FS_Singleton
<1>3. Channels = {"LEFT"} \cup {"RIGHT"} /\ "RIGHT" \notin {"LEFT"}
  BY DEF Channels
<1> QED
  BY <1>2, <1>3, FS_AddElement

LEMMA StepInvInit == Init => StepInv
BY DEF Init, StepInv, Undisturbed, Channels

LEMMA StepInvNext == IsoInv /\ StepInv /\ [Next]_vars => StepInv'
<1> SUFFICES ASSUME IsoInv, StepInv, [Next]_vars PROVE StepInv'
  OBVIOUS
<1> USE IsoAssumption DEF StepInv, Undisturbed, link, control
<1> USE DEF IsoInv, TypeOK, CountExact, RoomInv
<1>1. ASSUME NEW c \in Channels, iso_connected_cb(c) PROVE StepInv'
  <2>1. CASE cis' = Channels
    <3>1. Cardinality(cis') = 2
      BY <2>1, BothAreTwo DEF Channels
    <3>2. flush' = flush + 1 /\ flush \in Nat
      BY <1>1, <3>1 DEF iso_connected_cb
    <3> QED
      BY <1>1, <3>2 DEF iso_connected_cb
  <2>2. CASE cis' # Channels
    BY <1>1, <2>2 DEF iso_connected_cb
  <2> QED
    BY <2>1, <2>2
<1>2. ASSUME NEW c \in Channels, iso_disconnected_cb(c) PROVE StepInv'
  BY <1>2 DEF iso_disconnected_cb, Channels
<1>3. ASSUME NEW c \in Channels, iso_sent_cb(c) PROVE StepInv'
  BY <1>3 DEF iso_sent_cb, Channels
<1>4. CASE flush_ends
  BY <1>4 DEF flush_ends, Flushing, Channels
<1>5. CASE block_starts
  BY <1>5 DEF block_starts, MaySend, IsFull, Channels
<1>6. CASE anchor_get
  BY <1>6 DEF anchor_get, Channels
<1>7. CASE reserve
  BY <1>7 DEF reserve, Ended, IsFull, Channels
<1>8. CASE count
  BY <1>8 DEF count, Channels
<1>9. CASE send
  BY <1>9 DEF send, Ended, Uncounted, Step, Channels
<1>10. CASE UNCHANGED vars
  BY <1>10 DEF vars
<1> QED
  BY <1>1, <1>2, <1>3, <1>4, <1>5, <1>6, <1>7, <1>8, <1>9, <1>10 DEF Next, iso_tx

\* With both channels up and no flush open, a block is sent on both or on none
\* (ble_transmit.c 216-293): the halves do not drift apart.
THEOREM HalvesStayInStep == Spec => []InStep
<1>1. StepInv => InStep
  BY DEF StepInv, InStep, Undisturbed
<1> QED
  BY <1>1, IsoInvAlways, StepInvInit, StepInvNext, PTL DEF Spec
=============================================================================
