# A formal model of the LE Audio synthesizer

The program is a small polyphonic synthesizer on an nRF5340: four buttons play
notes through an arpeggiator, the audio is encoded with LC3 and sent over
Bluetooth LE Audio (two connected isochronous streams, CIS) to one or two
headphone boards. This directory holds TLA+ modules translated from its C
code, configurations that check them with TLC, and theorems about them that
TLAPS proves. Line numbers refer to the files under `src/`; `button.c 134`
means line 134 of `src/io/button.c`.

Nine modules of state machines are here: `KeyAssign`, `Arpeggio`, `Button`,
`Synthesizer`, `Stream` and its extension `StreamRx`, `IsoTransmit`, `Gateway` and
`Volume`. Two more compose them: `Controls` joins the buttons and the arpeggiator,
`Transport` the stream and its transmission. Twelve runs check 40 properties and
refute four statements the documentation makes; 49 theorems carry the most
important properties to every value of the constants.

## 1. Inventory

### Threads

| thread | priority | runs |
|---|---|---|
| Bluetooth receive thread, system work queue | cooperative | link and CIS callbacks; scanning and CIS connection work |
| encoder work queue (`audio_process.c`) | 3 | one block of audio per 7.5 or 10 ms: tick, synthesis, encoding, sending |
| button thread (`main.c` 33-36) | 5 | takes button events, adds and removes notes |
| main thread (`main.c` 80-84) | 10 | takes link events, starts and stops the encoder |
| timer and GPIO interrupts | above all | encoder timer, button edges, debounce |

There is one core. A lower-priority thread runs when every thread above it
waits; a cooperative thread gives way only where it waits. The models rely on
this (and say so in their headers), because much of the code is right only
because of it. Errors that `ERR_CHK` or `ERR_CHK_MSG` catch end the program
(`k_oops`); the models have them as `fault`.

### Components

| component | state | operations | hard behaviour | what makes it correct |
|---|---|---|---|---|
| Key assignment, `key_assign.c` | linked list of voices, note of each | `keys_play`, `keys_stop`, callbacks after the unlock | relinking through indirect pointers, early exit of the walk, stealing of held voices | no key is lost; every held key is found; voices follow keys; the oldest free, else the oldest held voice is used |
| Arpeggiator, `arpeggio.c` | held notes and their number, current index, octave and note, enabled flag, tick count | `note_add`, `note_remove` (button thread), `tick` (encoder thread) | two threads, some state outside the mutex, array shifted under the index | index in range, notes packed, no hanging voice, prompt start, every held note is played, silence at the end |
| Button input, `button.c`, `main.c` | per button: state, debounce flag, timer; a queue of 3 | edge interrupt, debounce callback, button thread | the state is guessed at the edge and verified later; queue may refuse; reads may fail | events alternate, what is reported is what is stored, guesses are verified, edges are listened to again |
| Stream control, `stream_control.c` | state machine, queue of 3 events | `set_status` (Bluetooth threads), event handler (main), `encoded_data_send` (encoder) | reports are late; state changes before and after the encoder is started or stopped | the stream follows the link |
| Audio processing, `audio_process.c`, and codec front end, `sw_codec.c` | timer, submitted work, flags, codec initialised or not | start, stop (main), submit (timer), process (encoder) | stop under a sleeping encoder | start and stop come in turn; no block without a codec |
| ISO transmission, CIS, `ble_transmit.c` | channel states, buffers counted per channel, flush requests | stereo send (encoder), connected, disconnected and sent callbacks | callbacks between any two steps of a send; failures of one half | counts are exact, halves stay in step, a flush ends |
| Gateway, `ble_acl_gateway.c`, `ble_acl_common.c`, CIS worker of `ble_transmit.c` | peer slots, scanning, request queue of 2, one work item | advertising, connected, security, MTU, disconnected callbacks; scan and CIS work | loss of a link in every phase, retries, requests sharing one work item, failures that are only logged | one slot per link, work has a request, ready headsets keep theirs, scanning goes on, requests are served |
| Synthesizer, `synthesizer.c`, with DSP (`effect_envelope.c`, `effect_echo.c`, `integer_math.h`) and tick provider, `tick_provider.c` | envelope and amplitude of each voice, delay line of the echo, phase of the audio time | per block: mix the voices, echo, advance the time; per tick: stop and play a voice | restart of an envelope in any state and phase, fixed-point rounding and saturation, wrap of the delay line and of the 32-bit phase | ticks keep the time of the audio, a note has its whole period, the echo is a delay line, voices and echo fall quiet |
| Data FIFO, `data_fifo.c`, and the receive handler of `stream_control.c` | memory slab and message queue | get, fill, lock, fetch, free; swap out the oldest on overrun | overrun while a reader holds a block; slab and queue in step | no call fails, no block is lost or shared, frames come in order and once |
| Volume services, `ble_audio_services.c` | client peer of each slot | discovery, volume state callback | a write makes the other headset report; refused writes; crossing changes | connected headsets have one volume at rest, and come to rest |

Interactions. `Button` delivers alternating events, which `Arpeggio` takes for
granted (`note_add(n)` only when `n` is up) and `EventsAlternate` establishes;
`Controls` runs both and proves that nothing else is needed. `Arpeggio` calls the
keys of `KeyList`, as `KeyAssign` does. The CIS callbacks of `ble_transmit.c` drive
both `Stream` (what they report) and `IsoTransmit` (what they count), and the
encoder of `Stream` is the sender of `IsoTransmit`: `Transport` runs both. `Gateway` decides when a CIS is there at all; its MTU callback
starts the discovery from which `Volume` goes on. `audio_process` of `Stream` runs
one block of `Synthesizer`, whose tick runs `arpeggio_tick`: `Synthesizer` takes over
from `Arpeggio` that at most one voice is held (`OnlyCurrentSounds`). `StreamRx`
composes `Stream` with the receive FIFO.

Not modelled:

- BIS transmission and reception: not compiled with `CONFIG_TRANSPORT_CIS`; a
  gateway without return channel uses none of it.
- The volume setters, the volume server and `tick_provider_unsubscribe`: nothing in
  this program calls them. The modulation effect is initialised and its call
  commented out; the allpass filter has no caller. SBC and the decoder are not
  compiled or not reached.
- LC3, the volume library, the host stack and the headsets: outside the
  repository. The models have them as choices of what they may answer.
- Vendor HCI commands, LEDs, the sync timer, the net core start and boot: one pass of
  set-up, or pure input and output, without state that outlives the call. With it
  goes the one race of the start-up, `button_init` enabling an interrupt before it
  initialises what the interrupt uses (`button.c` 96); what `k_timer_init` does to a
  running timer is undefined by the kernel, so there is nothing to translate.
- `prj.conf` sets neither test tone nor test pattern.

The hazards, each with its line and the properties that cover it, are in
`PROJECT.json`.

## 2. Modules

| module | lines of code it models | role |
|---|---|---|
| `KeyList` | `key_assign.c` 10-91 | the linked list as pure operators; shared by the next two |
| `KeyAssign` | `key_assign.c` 10-91 | calls of `keys_play` and `keys_stop` with their callbacks, by any set of callers |
| `KeyAllocator` | none: abstract | the allocation policy: a queue of free and a queue of held voices |
| `Arpeggio` | `arpeggio.c`, `main.c` 33-36 | the two threads on the arpeggiator, with its keys |
| `Button` | `button.c`, `main.c` 112-119 | interrupts, debounce, queue, button thread |
| `Stream` | `stream_control.c`, `audio_process.c`, `sw_codec.c` (control), link callbacks | life cycle of the stream |
| `IsoTransmit` | `ble_transmit.c` 198-308, 745-837, 1187-1304 | stereo sending and its callbacks |
| `Gateway` | `ble_acl_gateway.c`, `ble_acl_common.c`, `ble_transmit.c` 373-400, 1152-1185 | scanning, connecting, CIS requests |
| `FixedPoint` | `integer_math.h` | saturating and multiplying 16-bit fixed-point numbers |
| `Envelope`, `Echo`, `TickProvider` | `effect_envelope.c`, `effect_echo.c`, `tick_provider.c` | the parts of the next module as operators on their structs |
| `Synthesizer` | `synthesizer.c`, `audio_process.c` | block after block: mixing, echo, tick |
| `DelayLine` | none: abstract | what an echo is without a circular buffer |
| `DataFifo` | `data_fifo.c` | slab and message queue as operators |
| `StreamRx` | `stream_control.c` 195-257 | `Stream` with the receive handler, its FIFO and a reader |
| `LossyFifo` | none: abstract | a line of frames that drops its oldest |
| `Volume` | `ble_audio_services.c` | volumes of the headsets kept the same |
| `Controls` | `main.c` 33-36, 112-119, `synthesizer.c` (key events) | `Button` and `Arpeggio` on their common button thread |
| `Transport` | `stream_control.c` 121-133, `ble_transmit.c` 198-308, 745-837 | `StreamRx` and `IsoTransmit` on their common encoder thread and callbacks |
| `MC_*` | | constants and symmetry for TLC; a module without one needs neither |
| `KeyAssignProofs`, `ArpeggioProofs`, `ControlsProofs`, `SynthesizerProofs`, `StreamProofs`, `IsoTransmitProofs`, `GatewayProofs`, `VolumeProofs` | | theorems; those of `Button` are in `ControlsProofs`, those of `StreamRx` and `Transport` in `StreamProofs` |

An operator `X_Y` just before `X` is `X` with the programming error `Y`. No
specification uses it: `PROJECT.json` names, for each property of each run, one
such error that makes TLC find the property violated.

### How state and actions correspond to the code

*KeyList, KeyAssign.* The chain of `next` pointers is the function from
positions to key indices that it spells out; position 1 is `keys->head`. A call
is two steps: what happens under the mutex, then the callback, which reads
`key->note` again. `KeyAssign!Policy` is the refinement mapping to
`KeyAllocator`: as many keys from the head of the list as are held are its queue of
held voices, the rest its queue of free ones.

*Arpeggio.* An action is what a thread does between two points where the other
one can see a difference. `arpeggio_tick` is split at the mutex (`TickStops`,
then `TickDisables` or `TickPlays`, then `TickEnds`). `arpeggio_note_add` makes
its three restart stores one at a time and in any order (they are plain stores
the compiler may reorder), as the encoder thread preempts between them;
`arpeggio_note_remove` changes only what is read under the mutex and is one step.
The divider is a constant: `synthesizer_init` sets it once. `Arpeggio!Policy` is the
refinement mapping to `KeyAllocator` again, now as the arpeggiator uses the keys.

*Controls.* The button thread has an event in its hands (`taken` of `Button`) until it
is in `synthesizer_key_event`; meanwhile both interrupts and the encoder thread may
run, so what was reported and what the arpeggiator knows are the events of `Pending`
apart. `down` of `Arpeggio`, there the choice of the environment, is here `Told`: the
notes of the buttons whose last event passed on (`seen`) is a press.

*Button.* Interrupt and debounce callback are one step each: the timer interrupt
has priority over the GPIO interrupt, and the timer of a button runs only while
its edges are ignored. The environment changes pins at will. `k_msgq_put` hands an
event straight to a thread that waits in `k_msgq_get` (`waiting`), without a place of
the queue; else it needs one of the three. So one event more than the queue holds can be
on its way: `Pending` is the one in the thread's hands and then the queue. The thread is
there before `main` runs and waits when `button_init` is done. It runs only when no
interrupt waits to be served (`ThreadRuns`), and it may be held up at any point, as the
encoder is above it. The 30 ms are not modelled: a running timer expires at some time,
or, with `ThreadKeepsUp`, only when the thread has passed everything on and waits again.

*Stream.* The handler of each event is one action, with the start and the stop of
the encoder split into the steps between which the encoder, or a Bluetooth
callback, can run. `MainRuns` is the priority rule: main moves only while the
encoder has nothing to do or sleeps in `ble_trans_iso_tx`.

*StreamRx.* The receive handler runs in the cooperative receive thread, so it is one
action, with the overrun swap and each of the five calls whose error ends the
program (`Stores`). The datapath that would read the FIFO is not in the repository; a
reader that takes and releases one frame at a time stands for it, as `data_fifo.h`
prescribes. `prj.conf` builds a gateway that only transmits (`DIR_TX`,
`stream_control.c` 179), which never calls the handler: what is shown of it is shown of
the code for a bidirectional stream (line 175) and of `data_fifo.c`. What is in the FIFO
when the stream ends stays there, as in the code.

*Synthesizer.* One block is `synthesizer_process`, then `tick_provider_increment` with
the tick it may bring. Levels, phases and times are the integers of the code with a
smaller width (`FULL`, `PHASES`, `TICK_PHASES` for 2^15 - 1, 2^32, 2^32). Of a waveform
only its loudness is kept: a voice that sounds adds any value up to its peak.
The curve of the envelope, a `pow` of the phase, is any function of the phase. One
sample stands for a block: buffer and delay of the echo are whole blocks, so the
samples at one place of their blocks meet only each other. `blocks`, `ticks` and `age`
are history; `blocks` and `ticks` start again after a full cycle of the phase.

*Volume.* Headsets and library are external: a headset changes at will and notifies, a
library instance has one write under way and refuses another, and a headset refuses a
write that is older than its own change. The state callback is one action over all
slots, as it runs in one callback of the host. `unsynced` records every case in which
the code only logs that a headset was not reached.

*IsoTransmit.* `ble_trans_iso_tx` is split where a Bluetooth callback can come
between: after the tests, at the anchor request, per half at the reservation, the
count and the send. `flight` is what the host has and still has to report; what
is lost with a connection is not reported. A late sent callback after a
disconnection, which the host may or may not make, is left out; it could only
make the count smaller, as the finding below shows for another reason.

*Transport.* What is one step of the encoder in `Stream`, from `encoded` to `idle`, is
here the whole send of `IsoTransmit`; what is its one sleep begins with the request
for the anchor point and ends with the block. Between the two the thread wakes and
goes on, and main, which `Stream` would let move, waits for it (`~Sending`). Callbacks
come between any two steps of the send, and each drives both sides at once. The
state is read once, before the send (`stream_control.c` 126), as in the code.

*Gateway.* One action per callback and per piece of work; the CIS work is split at
`bt_iso_chan_connect`, which waits for the controller. A connection is named by
its headset. Delays are "now" (before the radio's next event) or "later" (at any
time). Scanning and CIS work share the system work queue, so neither starts while the
other waits. What the host, the controller and the headsets may answer is a choice in
the action that asks. A call whose error `ERR_CHK_MSG` looks at can end the program
(`fault`): setting the security level, starting the service discovery, a request that
finds the queue full. One whose error is only logged goes on as the code does: a scan
that fails to start, a connection that cannot be created or fails, an MTU request that
is refused, a link that cannot be closed (`"stalled"`). `unattended` is then set, and a
scan that starts clears it. A headset is `"ready"` from its MTU exchange until its CIS
is asked for (`"joined"`).

## 3. Runs

| run | instance | distinct states | shows |
|---|---|---|---|
| `key_assign` | 4 keys, 3 notes, the encoder thread as caller | 14,496 | `NoKeyLost`, `HeldKeysFirst`, `VoiceFollowsKey`, `ImplementsPolicy` |
| `arpeggio` | 3 voices, 4 notes, divider 2 | 54,656 | `ImplementsPolicy`, `IndexInRange`, `NotesArePressed`, `OnlyCurrentSounds`, `RestartIsPrompt`, `VoicesTakeTurns`; live: `FallsSilent`, `HeldNotesRecur` |
| `button` | 2 buttons, queue of 3, failing reads | 66,424 | `TypeOK`, `EventsAlternate`, `StateIsReported`, `VerifiedAtRest`, `IgnoredOnlyWhileTimed`; live: `CorrectedUnlessRefused` |
| `button_chord` | 4 buttons, queue of 3, no failing reads, a thread that keeps up | violation | `CorrectedAfterDebounce` |
| `synthesizer` | 2 voices of 2 modes, echo of 2 blocks in 3 | 97,032 | `TicksKeepTime`, `OneShotIsWhole`, `ImplementsDelayLine`; live: `FallsQuiet` |
| `stream` | 2 channels, queue of 3, 2 blocks, 2 frames | 65,203 | `TypeOK`, `StreamMatchesLink`, `AudioMatchesState`, `NoCodecFault`, `OverflowNeedsBurst`, `FifoInStep`, `ImplementsLossyFifo`; live: `FollowsLink` |
| `stream_abort` | 2 channels, queue of 3, without the FIFO | violation | `EncoderAborted` |
| `iso_tx` | 2 buffers per channel, at most 3 open flush requests | 4,840 | `CountExact`, `InStep`; live: `FlushEnds` |
| `iso_flush` | the same | violation | `FlushWaitsForOngoing` |
| `gateway` | 3 headsets, 2 slots, 2 attempts | 281,220 | `TypeOK`, `OneSlotPerLink`, `WorkHasRequest`, `RequestsKept`, `SearchesWhileFree` |
| `gateway_served` | 2 headsets | violation | `RequestsServed` |
| `volume` | 2 headsets, 3 volumes, at most 4 messages under way | 16,845 | `SameVolumeAtRest`; live: `Settles` |

The type invariants of `KeyAssign`, `Arpeggio`, `Synthesizer`, `IsoTransmit` and `Volume`,
and `NotesPacked` of `Arpeggio`, are proved for all instances and have no run of their own.

The compositions are proved for all instances, too. `MC_Controls` and `MC_Transport` are
the instances on which their properties were checked before; they take minutes and
stand beside the twelve runs: `MC_Controls` (2 buttons, queue of 2, no failing reads,
1 place for notes, divider 1) has 861,471 distinct states, `MC_Transport` (2 channels,
1 buffer each, queue of 3, 2 blocks, 1 frame) has 2,383,558.

Why the instances are large enough.

- *Keys and notes.* With four keys the key moved by `keys_stop` can be at the
  head, at the tail, next to each and between both; three notes leave keys with
  equal notes possible (a note can be played twice), and four plays steal a
  voice. The program has five keys.
- *Arpeggio.* Four buttons for three places fill the array and drop the oldest
  note (the program has four buttons for five places, so that this path is
  reachable only with other settings, and it is the harder one); divider 2 has a
  tick inside a note and one at its end. Three octaves are those of the code.
- *Buttons.* Two buttons have enough edges to put one event into the thread's hands
  and fill the queue of three behind it, also with reports of one button. A debounce
  time may be over before or after the thread has passed the event on. The chord has the
  four buttons of the program and takes the harder case, a thread that keeps up: one
  button has to be let go as its debounce time ends for the queue to fill.
- *Stream.* Channels and queue are those of the program. `BurstBound` = 3 stops
  the history of link changes where the property needs it.
- *Receive FIFO.* Two blocks are the least the configuration allows (it has 2 to 5)
  and the tightest: with one held by the reader, every frame is an overrun. Two
  frames show an order that is broken.
- *Synthesizer.* With `FULL` = 3 two voices of peak 1 and a feedback of 1 just reach the
  end of the range; a period of 8 with steps of 3 does not divide, so the loop ends beside the
  wrap; buffer 3 and delay 2 let head and tail wrap apart from each other; ticks at 3
  of 5 come after one block and after two. One voice has the mode of the program
  (`ONE_SHOT`), the other is held until it is stopped. The case of a delay as long as
  the buffer, which the program has, is in the theorem.
- *Volume.* Two slots as in the program; with three volumes two changes can cross and
  differ from the volume before; four messages are two changes and their two writes.
- *ISO.* Channels and buffers are those of the program; `FLUSH_BOUND` bounds the
  requests that can be open: one from a connection and one from an anchor
  request come together within a block, and a third on top.
- *Gateway.* One headset more than there are slots, so that slots change hands;
  two attempts have a retry and a give-up. The code has five attempts, which
  repeat the first.

Deadlock is checked except in `stream` and `stream_abort`, whose program may stop by a
fault, and in `gateway` and `gateway_served`, where it may also come to rest because a
set-up failed and was only logged.

### Fairness

- `Arpeggio`: ticks keep coming while the stream runs (weak fairness of
  `arpeggio_tick`), and a thread in the mutex gets to release it. No fairness for
  the buttons.
- `Button`: latched interrupts are served, started timers expire, the button
  thread gets its events and passes them on. No fairness for the pins.
- `Stream`: the encoder's queue is served (weak fairness; only cooperative threads
  and interrupts are above it). A block is done before the next one is due again
  and again, and main, whose steps are enabled only then, moves again and again
  (strong fairness of both): `README.md` 48 of the repository gives 80% as the
  load of the core at most, without which there is no audio at all. Links come
  and go without fairness.
- `IsoTransmit`: blocks keep coming, and the host reports each buffer it was given
  as long as the channel is connected. No fairness for links.
- `StreamRx` adds none: frames need not come, nor a reader read.
- `Synthesizer`: blocks go on while the stream does (weak fairness of the whole
  next step). Notes come and go without fairness.
- `Volume`: notifications and writes arrive while the link stays. None for changes
  and links.
- `Gateway`: none; its runs check safety only.

### What the runs refute

Each of these is a run with one property that states what a document or comment
says, and a trace of the code against it.

1. `button_chord`: the repository's `README.md` 52 says wrong states are "corrected again
   after the debounce time". A report refused by the full queue starts no timer,
   and the wrong state stays until the next edge of that button. In the trace a press
   is handled and the thread waits again. The button is released as its debounce time
   ends: the callback hands the release to the thread, which the encoder holds up, and
   the edge behind it reports the next press, as nobody reads the pin. With two more
   buttons the queue holds three, and the press of the fourth is refused. (The same
   sentence says 50 ms; `button.c` has 30.)
2. `stream_abort`: the comment at `audio_process.c` 91 says the encoder is aborted
   before the codec is uninitialised. Only the timer is stopped: work submitted while
   the encoder slept in a send is encoded without a codec, which ends the program.
3. `iso_flush`: the comment at `ble_transmit.c` 769 wants ongoing transmissions
   completed before more are enqueued. A disconnection between the count of a
   buffer and its failing send leaves the count at -1; a flush then waits although
   nothing is under way, and every block is dropped until that channel disconnects
   again.
4. `gateway_served`: `README.md` 97 expects audio on 1 or 2 headphone boards. A
   retry for one slot and the first request of the other share a work item, which
   is scheduled once; it serves one of them and the other stays in the queue.

The passing properties name these cases where they meet them (`hit` in
`CountExact`, `slept` in `NoCodecFault`, `unverified` in `VerifiedAtRest`, `burst` in
`OverflowNeedsBurst`, `unattended` in `SearchesWhileFree`, `unsynced` in `SameVolumeAtRest`,
`overlap` in `Settles`): they say that nothing
else can go wrong, and a further error would break them. They do not catch the named
case itself. A refused report, `hit` and `slept` are what three of the refuting runs
show; the others (a pin that cannot be read, a burst of links, a set-up or a scan that
fails, a volume that is not written, two changes that cross) are what the code does with
an error or at a limit, and no document says otherwise.

## 4. Proofs

All theorems are of the form "the specification implies the property" for every
value of the constants that the named assumptions allow. The assumptions are the
types and bounds of the constants (`MAX_NOTES` positive, notes and their octaves
fit in a `uint8_t`, queues hold at least one entry, channels are finite, the
receive FIFO has at least two blocks, a delay fits its buffer, a block is less than a
period and less than a tick). Some theorems have a hypothesis more, all of them true of
the program: those about `Controls` and `Arpeggio` together need `KeyMapSound` (each
button has a note of its own, low enough for its octaves; `key_map` of
`synthesizer.c` has 37, 54, 58, 61 and 66), three about `Transport` need `TransportSound`
(the two channels of a stereo stream, at least one buffer), `VoicesAlwaysFollowKeys` needs `SingleCaller`, and `OverflowAlwaysNeedsBurst` needs
`RoomForTwoChanges` (at least three places).

- `KeyAssignProofs`: first lemmas about the operators of `KeyList`: moving a key
  within the list keeps it a permutation (`RelinkedIsPermutation`), and playing or
  stopping keeps the held keys in front (`PlayKeepsOrder`, `StopKeepsOrder`);
  `ArpeggioProofs` cites them, too. `ListInv` = types, permutation and held keys first is inductive:
  held keys first needs the permutation, or a relinked key could be a second
  copy. For a single caller, `VoiceInv` says that voice and key agree except for
  the key of the pending callback. `ListImplementsPolicy` is the refinement to
  `KeyAllocator`: as held keys are in front, their number is where the list splits
  (`HeldAreCounted`), and relinking at the head or behind the last held key moves one
  voice between the queues and keeps the order of the others (`PlayFreeQueues`,
  `PlayStolenQueues`, `StopQueues`).
- `ArpeggioProofs`: `HeldInv` adds `NotesPacked` to `IndexInRange`: only because
  nothing behind the length matches does a removal shorten the array by a held
  note. `VoiceInv` makes `OnlyCurrentSounds` inductive: the voice that sounds is the
  head of the list, and the list counts down from its head; from that follows
  also `VoicesTakeTurns`, an action property. `CountInv` follows the restart:
  while the encoder thread is past its test the count is 0. `ArpeggioImplementsPolicy`
  is the refinement to `KeyAllocator`: with at most one voice held, a stop only empties
  the queue of the held, and a play moves the head of the list to its end
  (`RotationIsPermutation`), so the voices are used in turn and none is ever stolen.
- `ControlsProofs`: of `Button`, `Reports` = types, alternation and stored = last reported,
  all over the sequence `Pending` of what was reported and not yet passed on. A report
  only appends to it, whether it goes to the waiting thread or to the queue
  (`NotifyAppends`: a thread that waits has left nothing behind); getting an event keeps
  it (`GetKeepsPending`), and passing one on takes its head (`HandlerTakesHead`).
  Alternation needs stored = last reported: an interrupt reports the opposite of the
  *stored* state, which contradicts the last pending report only because the two are
  equal. `Debounce` gives the two properties of a button at rest. Of the composition,
  every step is a step of `Button` (`ControlsKeepButton`) and a step of `Arpeggio`
  (`ControlsKeepArpeggio`): the event that is passed on tells a press of a note that was
  up or a release of one that was down (`PassesAlternately`). This is where
  `EventsAlternate` is used, and where two buttons with one note would break it. The
  invariants of both sides then hold of the composition, and from both together follow
  `NotesFollowPins` and `HeldOnce`, which neither side can state alone.
- `StreamProofs`: `AudioInv` says at which of main's places which flag is set, and
  `EncoderInv` when work can be left without a codec. `LinkInv` describes the queue
  as a word: its last report is the state of the link, reports alternate, and the
  first one fits the state main is in; so the empty queue means state = link.
  `BurstInv` bounds the queue by the number of link changes.
  `RxImplementsStream` shows that the receive path disturbs none of this, so that the
  theorems hold of `RxSpec` too. `RxInv` keeps the allocated blocks equal to the queued
  ones and the reader's, without repetition; from the count follows that an overrun
  finds a frame to swap out, that the freed block is vacant and that the queue has
  room, so no call fails. With the contents of the blocks, each step maps to a step
  of `LossyFifo` (`FifoIsLossy`). `Transport` is shown to be a stream
  (`TransportKeepsStream`) and a transmission (`TransportKeepsTransmission`), so the
  invariants of both hold of it (`TransportKeepsCounts` for the counts and the halves).
  `JointInv` ties the two encoders: a send is under way exactly while the encoder of
  `Stream` has a block or sleeps, it waits for its anchor point only asleep, and one
  that never slept keeps the state at STREAMING. With it follow
  `SendsAlwaysWhileStreaming` and `AlwaysQuietWhenDown`.
- `SynthesizerProofs`: `TimeInv` is the exact time (ticks and phase against blocks times
  step), modulo a full cycle. `LoopInv` says that the phase of a looping one-shot voice
  is its age times the step, without a wrap, so the wrap comes with the block that
  fills the period. `TailInv` keeps the tail one delay behind the head, which makes the
  circular buffer a delay line for every delay up to the whole buffer.
- `IsoTransmitProofs`: `RoomInv` keeps the room of a half from its reservation to its
  send, so that `CountExact` is inductive. `StepInv` gives the lead of the left channel
  in the middle of a block; it rests on the flush request that is open from the
  moment the second channel comes up.
- `GatewayProofs`: `OneSlotPerLink` needs `WorkerInv`: what the CIS work read before it
  waited is still the headset of the slot, as long as that headset has had its link
  since. `RequestsKept` is inductive with it: the request of a ready headset is still
  queued, or the work has it for the link it read; another headset that took over the
  slot has queued one of its own (`PutQueues`, `TakeKeepsOthers`). `WorkHasRequest` and
  `SearchesWhileFree` are inductive with the types.
- `VolumeProofs`: `SameVolumeAtRest` needs no account of the orders in which changes,
  reports and writes can be under way. `LastTellsVolume`: the last report on its way
  from a headset is its volume. `NothingLeftBehind`: nothing is on its way from or to
  a headset that left. `Agreed`: once every report is passed on, there is a volume
  that each connected headset has or is about to be written. A state callback that
  takes the last report makes that volume the one of the reporting headset, which
  `LastTellsVolume` says it has; a write that was refused sets `unsynced`.

Only model-checked: the liveness properties (`FallsSilent`, `HeldNotesRecur`,
`CorrectedUnlessRefused`, `FollowsLink`, `FlushEnds`, `FallsQuiet`, `Settles`), which the prover
does not reach. Every safety property of the passing runs is a theorem.

## 5. Plan

Written, in this order: the keys (everything audible passes through them), the
arpeggiator, the buttons that feed it, the stream life cycle, transmission,
connections; then the synthesizer with its effects and its time, the receive FIFO and
the volumes; then the refinement proofs, and last the two compositions.

What would come next, and why it is not here:

1. A composition of `Arpeggio` with `Synthesizer`. A tick of `Synthesizer` is one step in
   which at most one voice is stopped and played, a tick of `Arpeggio` is several, with
   the button thread between them; the first would have to be split like the second.
2. Liveness across `Controls`: that a press is heard needs the fairness of both sides
   and bounds beyond runs of minutes.
3. The race of `button_init` (`button.c` 96), with a model of the kernel's timer list.
4. BIS, when a configuration uses it.
