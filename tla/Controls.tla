------------------------------- MODULE Controls -------------------------------
(***************************************************************************)
(* From the pins to the held notes: the button thread of main.c passes     *)
(* each event it gets from Button on, through synthesizer_key_event, to    *)
(* the arpeggiator of Arpeggio, which the encoder thread ticks.  Between   *)
(* the moment an event is in the thread's hands and the moment the         *)
(* arpeggiator hears of it, both interrupts and the encoder thread may     *)
(* run.                                                                    *)
(*                                                                         *)
(* Arpeggio.tla takes it that a button's presses and releases come         *)
(* alternately, and Button.tla only speaks of events.  Here the two        *)
(* share their steps, so that this is no longer taken for granted.         *)
(***************************************************************************)
EXTENDS Button

CONSTANTS MAX_NOTES, DIVIDER,
          key_map       \* the note of each button (synthesizer.c)

VARIABLES
  notes, len, idx, octave, current, enabled, tick_count, list, note, button, encoder

arpVars == <<notes, len, idx, octave, current, enabled, tick_count, list, note,
             button, encoder>>
controlVars == <<vars, arpVars>>

ButtonNotes == {key_map[b] : b \in Buttons}

\* The notes of the buttons that the arpeggiator was told are down.
Told == {key_map[b] : b \in {c \in Buttons : seen[c]}}

Arp == INSTANCE Arpeggio WITH Notes <- ButtonNotes, down <- Told

ControlsInit == Init /\ Arp!Init

\* button_event_get, when the button thread is back at the top of its loop.
ButtonEventGet == Arp!MutexFree /\ button_event_get /\ UNCHANGED arpVars

\* synthesizer_key_event: the press adds the button's note, the release removes it.
synthesizer_key_event ==
  /\ button_event_handler
  /\ LET n == key_map[taken[1].index]
     IN  \/ taken[1].state /\ Arp!arpeggio_note_add(n)
         \/ ~taken[1].state /\ Arp!arpeggio_note_remove(n)

\* The rest of arpeggio_note_add, while it holds the mutex.
FinishNoteAdd ==
  /\ UNCHANGED vars
  /\ Arp!Unlock \/ \E s \in Arp!RestartStores : Arp!RestartStore(s)

\* A turn of the encoder thread in the arpeggiator.
EncoderTick == UNCHANGED vars /\ Arp!arpeggio_tick

\* The pins, the interrupts of their edges and the debounce timers.
ButtonInterrupt ==
  /\ \E b \in Buttons : \/ PinChanges(b)
                        \/ button_event_interrupt(b)
                        \/ button_debounce_cb(b)
  /\ UNCHANGED arpVars

ControlsNext ==
  \/ ButtonEventGet \/ synthesizer_key_event
  \/ FinishNoteAdd \/ EncoderTick \/ ButtonInterrupt

ControlsSpec == ControlsInit /\ [][ControlsNext]_controlVars

-----------------------------------------------------------------------------
\* What key_map has to be: a note of its own for every button, none so high that
\* an octave of it overflows a uint8_t.
KeyMapSound ==
  /\ MAX_NOTES \in Nat \ {0} /\ DIVIDER \in Nat \ {0}
  /\ key_map \in [Buttons -> 1 .. 255 - 12 * (Arp!MAX_OCTAVES - 1)]
  /\ \A b, c \in Buttons : key_map[b] = key_map[c] => b = c

\* A button that waits for nothing: no edge, no debounce time, no event of it on
\* the way, and no refused report or failed read since its pin was last verified.
AtRest(b) == ~edge[b] /\ ~ongoing[b] /\ ~unverified[b] /\ NothingPending(b)

\* The arpeggiator holds no note behind the player's back: each held note is that
\* of a button which is physically down or still has something coming.
NotesFollowPins ==
  \A i \in 0 .. len - 1 :
    \E b \in Buttons : notes[i] = key_map[b] /\ (pin[b] \/ ~AtRest(b))

\* A note is never held twice, so that one release always ends it: nobody but
\* button.c sees to that, arpeggio_note_add does not look.
HeldOnce == \A i, j \in 0 .. len - 1 : i # j => notes[i] # notes[j]

\* The controls are Button to the interrupts: nothing the arpeggiator does holds
\* a report up or loses one.
ButtonSafety == Init /\ [][Next]_vars

\* And they are Arpeggio to the encoder thread: a press reaches it only for a
\* button it knows to be up, and a release only for one it knows to be down.
ArpeggioSafety == Arp!Init /\ [][Arp!Next]_(Arp!vars)
=============================================================================
