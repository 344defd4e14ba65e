------------------------------- MODULE Arpeggio -------------------------------
(***************************************************************************)
(* synthesizer/arpeggio.c: the arpeggiator between two threads.  The       *)
(* button thread adds and removes held notes under _mutex; the encoder     *)
(* thread, once per tick of the tick provider, stops the note that sounds  *)
(* and plays the next held one, octave after octave.  The encoder thread   *)
(* reads _arp_enabled and _tick_count without the mutex.                   *)
(*                                                                         *)
(* The program runs on one core.  The encoder thread has priority over the *)
(* button thread (ENCODER_THREAD_PRIO 3 against 5): it preempts the button *)
(* thread anywhere, but the button thread runs only while the encoder      *)
(* thread sleeps between two ticks or waits for the mutex.                 *)
(*                                                                         *)
(* button.c delivers the presses and releases of a button alternately: a   *)
(* note is added only when its button is up and removed when it is down.   *)
(*                                                                         *)
(* The keys behind the arpeggiator are those of KeyList; only the encoder  *)
(* thread calls them, so keys_play and keys_stop are part of its steps.    *)
(***************************************************************************)
EXTENDS KeyList, Sequences

CONSTANTS Notes,     \* the notes of the buttons (key_map in synthesizer.c)
          DIVIDER    \* _divider: ticks per note, set once by synthesizer_init

MAX_OCTAVES == 3

ASSUME ArpeggioAssumption ==
  /\ Notes \subseteq 1 .. 255 - 12 * (MAX_OCTAVES - 1)   \* key->note: uint8_t
  /\ DIVIDER \in Nat \ {0}

VARIABLES
  down,         \* the buttons whose last delivered event was a press
  notes,        \* _notes, an array of MAX_NOTES entries, 0 past its length
  len,          \* _notes_active_length
  idx,          \* _arp_current_note_idx
  octave,       \* _arp_current_octave
  current,      \* _arp_current_note, 0 when none was played
  enabled,      \* _arp_enabled
  tick_count,   \* _tick_count
  list, note,   \* the linked list of keys and the note of each key
  button,       \* where the button thread is: outside, or restarting the
                \* arpeggio with these stores still to make (then it holds _mutex)
  encoder       \* where the encoder thread is in arpeggio_tick

held == <<notes, len>>
keys == <<list, note>>
vars == <<down, notes, len, idx, octave, current, enabled, tick_count, list, note,
          button, encoder>>

Indices == 0 .. MAX_NOTES - 1

\* The notes that are played: the held ones in each of the octaves.
Pitches == {n + 12 * o : n \in Notes, o \in 0 .. MAX_OCTAVES - 1}

Outside == [in |-> FALSE, stores |-> {}]

\* A button held down while the program starts delivers its release first.
Init ==
  /\ down \in SUBSET Notes
  /\ notes = [i \in Indices |-> 0]
  /\ len = 0
  /\ idx = 0
  /\ octave = 0
  /\ current = 0
  /\ enabled = FALSE
  /\ tick_count = 0
  /\ list = InitialList
  /\ note = InitialNotes
  /\ button = Outside
  /\ encoder = "idle"

-----------------------------------------------------------------------------
(* The button thread. *)

MutexFree == ~button.in

ButtonThreadRuns == encoder = "idle" \/ (encoder = "lock" /\ ~MutexFree)

Without_OffByOne(array, i) ==
  [j \in Indices |-> IF j =< i THEN array[j]
                     ELSE IF j < MAX_NOTES - 1 THEN array[j + 1]
                     ELSE 0]

\* _remove_note: the entries behind index i move up.
Without(array, i) ==
  [j \in Indices |-> IF j < i THEN array[j]
                     ELSE IF j < MAX_NOTES - 1 THEN array[j + 1]
                     ELSE 0]

\* What a note that finds the arpeggio off restarts.
RestartStores_NoCount == {"enabled", "octave"}
RestartStores         == {"count", "enabled", "octave"}

\* The oldest note makes room for the new one.  When the arpeggio is off, three
\* more stores follow under the mutex.
arpeggio_note_add(n) ==
  /\ ButtonThreadRuns /\ MutexFree
  /\ \/ /\ len = MAX_NOTES
        /\ notes' = [Without(notes, 0) EXCEPT ![MAX_NOTES - 1] = n]
        /\ UNCHANGED len
     \/ /\ len < MAX_NOTES
        /\ notes' = [notes EXCEPT ![len] = n]
        /\ len' = len + 1
  /\ button' = [in |-> TRUE,
                stores |-> IF enabled THEN {} ELSE RestartStores]
  /\ UNCHANGED <<idx, octave, current, enabled, tick_count, keys, encoder>>

\* The press of a button that was up.
note_add(n) ==
  /\ n \notin down /\ down' = down \cup {n}
  /\ arpeggio_note_add(n)

\* The three plain stores of the restart may be compiled in any order.
RestartStore(s) ==
  /\ ButtonThreadRuns /\ s \in button.stores
  /\ button' = [button EXCEPT !.stores = @ \ {s}]
  /\ tick_count' = IF s = "count" THEN 0 ELSE tick_count
  /\ enabled' = (enabled \/ s = "enabled")
  /\ octave' = IF s = "octave" THEN 0 ELSE octave
  /\ UNCHANGED <<down, held, idx, current, keys, encoder>>

Unlock ==
  /\ ButtonThreadRuns /\ button.in /\ button.stores = {}
  /\ button' = Outside
  /\ UNCHANGED <<down, held, idx, octave, current, enabled, tick_count, keys, encoder>>

IndexAfterRemoval_Stale(i, l) == idx

\* Which index to go on from once the note at i is gone and l notes are left.
IndexAfterRemoval(i, l) ==
  IF idx = l THEN 0 ELSE IF idx > i THEN idx - 1 ELSE idx

\* The first entry equal to n goes; nothing that is touched is read outside the
\* mutex, so the critical section is one step.
arpeggio_note_remove(n) ==
  /\ ButtonThreadRuns /\ MutexFree
  /\ \/ \E i \in Indices :
           /\ notes[i] = n
           /\ \A j \in 0 .. i - 1 : notes[j] # n
           /\ notes' = Without(notes, i)
           /\ len' = len - 1
           /\ idx' = IndexAfterRemoval(i, len - 1)
     \/ /\ \A i \in Indices : notes[i] # n     \* dropped when the array was full
        /\ UNCHANGED <<held, idx>>
  /\ UNCHANGED <<octave, current, enabled, tick_count, keys, button, encoder>>

\* The release of a button that was down.
note_remove(n) ==
  /\ n \in down /\ down' = down \ {n}
  /\ arpeggio_note_remove(n)

-----------------------------------------------------------------------------
(* The encoder thread: arpeggio_tick. *)

NextIndex_Early(i, l) == IF i + 1 >= l - 1 THEN 0 ELSE i + 1
NextIndex(i, l) == IF i + 1 = l THEN 0 ELSE i + 1

Counted == IF tick_count + 1 = DIVIDER THEN 0 ELSE tick_count + 1

\* A tick in the middle of a note only counts.
TickCounts ==
  /\ encoder = "idle" /\ enabled /\ tick_count # 0
  /\ tick_count' = Counted
  /\ UNCHANGED <<down, held, idx, octave, current, enabled, keys, button, encoder>>

MustStop_WhileHeld == current # 0 /\ len # 0
MustStop == current # 0

\* A tick at the end of a note stops it, outside the mutex.
TickStops ==
  /\ encoder = "idle" /\ enabled /\ tick_count = 0
  /\ IF MustStop /\ \E i \in Positions : StopFinds(list, note, current, i)
     THEN \E i, j \in Positions :
             /\ StopFinds(list, note, current, i)
             /\ StopReinsertsAt(list, note, i, j)
             /\ list' = Relinked(list, i, j)
             /\ note' = StoppedNotes(note, list[i])
     ELSE UNCHANGED keys
  /\ encoder' = "lock"
  /\ UNCHANGED <<down, held, idx, octave, current, enabled, tick_count, button>>

\* With no note held the arpeggio goes off.
TickDisables ==
  /\ encoder = "lock" /\ MutexFree /\ len = 0
  /\ enabled' = FALSE
  /\ current' = 0
  /\ encoder' = "count"
  /\ UNCHANGED <<down, held, idx, octave, tick_count, keys, button>>

\* Otherwise the next held note plays, one octave up after the last one.
TickPlays ==
  /\ encoder = "lock" /\ MutexFree /\ len # 0
  /\ idx' = NextIndex(idx, len)
  /\ octave' = IF idx' = 0 THEN (octave + 1) % MAX_OCTAVES ELSE octave
  /\ current' = notes[idx'] + 12 * octave'
  /\ list' = PlayedList(list)
  /\ note' = PlayedNotes(list, note, current')
  /\ encoder' = "count"
  /\ UNCHANGED <<down, held, enabled, tick_count, button>>

\* Both end with the count, after the mutex was released.
TickEnds ==
  /\ encoder = "count"
  /\ tick_count' = Counted
  /\ encoder' = "idle"
  /\ UNCHANGED <<down, held, idx, octave, current, enabled, keys, button>>

-----------------------------------------------------------------------------
ButtonThread ==
  \/ \E n \in Notes : note_add(n) \/ note_remove(n)
  \/ \E s \in RestartStores : RestartStore(s)
  \/ Unlock

arpeggio_tick == TickCounts \/ TickStops \/ TickDisables \/ TickPlays \/ TickEnds

Next == ButtonThread \/ arpeggio_tick

\* Ticks keep coming while the stream runs, and a thread that holds the mutex
\* gets to release it; nobody has to press or release a button.
Fairness ==
  /\ WF_vars(arpeggio_tick)
  /\ WF_vars(Unlock \/ \E s \in RestartStores : RestartStore(s))

Spec == Init /\ [][Next]_vars /\ Fairness

-----------------------------------------------------------------------------
\* Types of the variables.
TypeOK ==
  /\ down \in SUBSET Notes
  /\ notes \in [Indices -> Notes \cup {0}]
  /\ len \in 0 .. MAX_NOTES
  /\ idx \in Indices
  /\ octave \in 0 .. MAX_OCTAVES - 1
  /\ current \in Pitches \cup {0}
  /\ enabled \in BOOLEAN
  /\ tick_count \in 0 .. DIVIDER - 1
  /\ list \in [Positions -> Keys]
  /\ note \in [Keys -> 0 .. 255]
  /\ button \in [in : BOOLEAN, stores : SUBSET {"count", "enabled", "octave"}]
  /\ encoder \in {"idle", "lock", "count"}

\* The index from which a tick goes on is that of a held note, whatever was
\* added, dropped or removed since the last tick: the test for equality at
\* arpeggio.c 108 can never be jumped over and the array never overrun.
IndexInRange == idx < len \/ (idx = 0 /\ len = 0)

\* The held notes are exactly the first entries of _notes: a tick never plays
\* the filler 0, and arpeggio_note_remove, which scans the whole array
\* (arpeggio.c 63), never matches an entry past the length.
NotesPacked == \A i \in Indices : notes[i] # 0 <=> i < len

\* Every held note belongs to a button that is down, and is held once: the
\* single removal by its release (the break at arpeggio.c 78) takes it out.
NotesArePressed ==
  \A i, j \in 0 .. len - 1 : notes[i] \in down /\ (i # j => notes[i] # notes[j])

\* At most one voice is held, and it is the one _arp_current_note names: every
\* note played is stopped before the next, so none is left hanging even when
\* its button was released, or the arpeggio went off and on, in between.
OnlyCurrentSounds ==
  LET sounding == {k \in Keys : note[k] # Unused}
  IN  IF current = 0 \/ encoder = "lock"
      THEN sounding = {}
      ELSE \E k \in Keys : sounding = {k} /\ note[k] = current

\* The voices take turns: each note goes to the voice after the last one and
\* nothing else moves a voice, so that a voice is played again only after all
\* others were and its envelope has MAX_NOTES - 1 notes to fade out.
VoicesTakeTurns ==
  [][IF TickPlays
     THEN list'[1] = (IF list[1] + 1 = MAX_NOTES THEN 0 ELSE list[1] + 1)
     ELSE list' = list]_vars

\* Whether a note sounds: it is the head of the list.
Sounds == current # 0 /\ encoder # "lock"

HeldVoices == IF Sounds THEN <<list[1]>> ELSE <<>>
FreeVoices == IF Sounds THEN Tail(list) ELSE list

\* Of the allocation policy the arpeggiator uses the part for one held voice.
Policy == INSTANCE KeyAllocator WITH
            Notes <- Pitches, held <- HeldVoices, free <- FreeVoices, pitch <- note

\* Against the keys the arpeggiator is a caller of the policy that always finds
\* a free voice: each tick releases the voice that sounds before it asks for the
\* one that was released the longest time ago, and keys_stop never returns early.
ImplementsPolicy == Policy!Spec

\* A note added while the arpeggio is off sounds at the very next tick: the
\* count the tick that switched it off still makes cannot come after the reset.
RestartIsPrompt ==
  button = Outside /\ encoder = "idle" /\ enabled /\ current = 0 => tick_count = 0

\* Once no note is held, the arpeggio falls silent unless one is added.
FallsSilent == len = 0 ~> (len # 0 \/ \A k \in Keys : note[k] = Unused)

\* A note that stays held is played again and again once the set of held notes
\* settles, whatever the index and octave were when it did.
HeldNotesRecur ==
  \A n \in Notes :
    (<>[][FALSE]_held /\ <>[](\E i \in Indices : notes[i] = n))
      => []<>(\E o \in 0 .. MAX_OCTAVES - 1 : current = n + 12 * o)
=============================================================================
