---------------------------- MODULE ArpeggioProofs ----------------------------
(***************************************************************************)
(* The arpeggiator never leaves its array of held notes and never leaves a *)
(* voice hanging, for every number of voices, every set of notes and every *)
(* divider, however the button thread and the encoder thread interleave.   *)
(*                                                                         *)
(* IndexInRange is inductive only with NotesPacked, which lets the walk of *)
(* arpeggio_note_remove find held notes only.  OnlyCurrentSounds needs to  *)
(* know which voice sounds: the head of the list of keys, which counts     *)
(* down from it.                                                           *)
(***************************************************************************)
EXTENDS Arpeggio, SequenceTheorems, TLAPS

HeldInv == TypeOK /\ IndexInRange /\ NotesPacked

LEMMA NoteValues == 
  /\ \A n \in Notes, o \in 0 .. MAX_OCTAVES - 1 : n + 12 * o \in 1 .. 255
  /\ \A n \in Notes : n \in Nat /\ n # 0
  BY ArpeggioAssumption DEF MAX_OCTAVES

\* _remove_note keeps the array packed (arpeggio.c 139-146).
LEMMA WithoutPacked ==
  ASSUME NEW array \in [Indices -> Notes \cup {0}], NEW l \in 1 .. MAX_NOTES,
         \A i \in Indices : array[i] # 0 <=> i < l,
         NEW r \in Indices, r < l
  PROVE  /\ Without(array, r) \in [Indices -> Notes \cup {0}]
         /\ \A i \in Indices : Without(array, r)[i] # 0 <=> i < l - 1
<1>1. \A j \in Indices : j < MAX_NOTES - 1 => j + 1 \in Indices
  BY MaxNotesAssumption DEF Indices
<1>2. Without(array, r) \in [Indices -> Notes \cup {0}]
  BY <1>1 DEF Without
<1>3. ASSUME NEW i \in Indices
      PROVE  Without(array, r)[i] # 0 <=> i < l - 1
  <2>1. CASE i < r
    BY <2>1, MaxNotesAssumption DEF Without, Indices
  <2>2. CASE i >= r /\ i < MAX_NOTES - 1
    <3>1. Without(array, r)[i] = array[i + 1]
      BY <2>2, MaxNotesAssumption DEF Without, Indices
    <3> QED
      BY <1>1, <2>2, <3>1, MaxNotesAssumption DEF Indices
  <2>3. CASE i >= r /\ i >= MAX_NOTES - 1
    <3>1. Without(array, r)[i] = 0
      BY <2>3, MaxNotesAssumption DEF Without, Indices
    <3> QED
      BY <2>3, <3>1, MaxNotesAssumption DEF Indices
  <2> QED
    BY <2>1, <2>2, <2>3, MaxNotesAssumption DEF Indices
<1> QED
  BY <1>2, <1>3

\* Relinking one key keeps the list a list of keys (key_assign.c 42-46, 73-84).
LEMMA RelinkedType ==
  ASSUME NEW l \in [Positions -> Keys], NEW i \in Positions, NEW j \in Positions
  PROVE  Relinked(l, i, j) \in [Positions -> Keys]
  BY MaxNotesAssumption DEF Relinked, Positions, Keys

LEMMA HeldInvInit == Init => HeldInv
<1> SUFFICES ASSUME Init PROVE HeldInv
  OBVIOUS
<1>1. MAX_NOTES \in Nat /\ MAX_NOTES > 0 /\ DIVIDER \in Nat /\ DIVIDER > 0
  BY MaxNotesAssumption, ArpeggioAssumption
<1>2. list \in [Positions -> Keys]
  BY MaxNotesAssumption DEF Init, InitialList, Positions, Keys
<1>3. note \in [Keys -> 0 .. 255]
  BY DEF Init, InitialNotes, Unused
<1>4. notes \in [Indices -> Notes \cup {0}] /\ \A i \in Indices : notes[i] = 0 /\ i >= 0
  BY DEF Init, Indices
<1>5. button \in [in : BOOLEAN, stores : SUBSET {"count", "enabled", "octave"}]
  BY DEF Init, Outside
<1>6. TypeOK
  <2>1. len \in 0 .. MAX_NOTES /\ idx \in Indices /\ tick_count \in 0 .. DIVIDER - 1
    BY <1>1 DEF Init, Indices
  <2>2. octave \in 0 .. MAX_OCTAVES - 1
    BY DEF Init, MAX_OCTAVES
  <2>3. down \in SUBSET Notes /\ current \in Pitches \cup {0}
    BY DEF Init
  <2>4. enabled \in BOOLEAN /\ encoder \in {"idle", "lock", "count"}
    BY DEF Init
  <2> QED
    BY <1>2, <1>3, <1>4, <1>5, <2>1, <2>2, <2>3, <2>4 DEF TypeOK
<1>7. IndexInRange
  BY DEF Init, IndexInRange
<1>8. NotesPacked
  BY <1>4 DEF Init, NotesPacked, Indices
<1> QED
  BY <1>6, <1>7, <1>8 DEF HeldInv

\* The note a tick plays is a held one in one of the octaves, never the filler 0.
LEMMA TickPlaysNote ==
  ASSUME HeldInv, TickPlays
  PROVE  /\ idx' \in Indices /\ idx' < len /\ octave' \in 0 .. MAX_OCTAVES - 1
         /\ current' \in Pitches /\ current' \in 1 .. 255
<1>1. /\ MAX_NOTES \in Nat /\ MAX_NOTES > 0
      /\ idx \in Nat /\ len \in Nat /\ len =< MAX_NOTES /\ idx < len
  BY MaxNotesAssumption DEF HeldInv, TypeOK, Indices, IndexInRange, TickPlays
<1>2. idx' \in Indices /\ idx' < len
  BY <1>1 DEF TickPlays, NextIndex, Indices
<1>3. octave' \in 0 .. MAX_OCTAVES - 1
  BY DEF TickPlays, HeldInv, TypeOK, MAX_OCTAVES
<1>4. notes[idx'] \in Notes
  BY <1>2 DEF HeldInv, TypeOK, NotesPacked
<1>5. current' = notes[idx'] + 12 * octave'
  BY DEF TickPlays
<1>6. current' \in Pitches
  BY <1>3, <1>4, <1>5 DEF Pitches
<1> QED
  BY <1>2, <1>3, <1>4, <1>5, <1>6, NoteValues

LEMMA HeldInvNext == HeldInv /\ [Next]_vars => HeldInv'
<1> SUFFICES ASSUME HeldInv, [Next]_vars PROVE HeldInv'
  OBVIOUS
<1> USE DEF HeldInv
<1>1. /\ MAX_NOTES \in Nat /\ MAX_NOTES > 0 /\ DIVIDER \in Nat /\ DIVIDER > 0
      /\ idx \in Nat /\ len \in Nat /\ len =< MAX_NOTES /\ idx < MAX_NOTES
  BY MaxNotesAssumption, ArpeggioAssumption DEF TypeOK, Indices
<1>2. Counted \in 0 .. DIVIDER - 1
  BY <1>1 DEF Counted, TypeOK
<1>3. ASSUME NEW n \in Notes, note_add(n)
      PROVE  HeldInv'
  <2>1. n # 0
    BY NoteValues
  <2>2. /\ notes' \in [Indices -> Notes \cup {0}] /\ len' \in 1 .. MAX_NOTES /\ len =< len'
        /\ \A i \in Indices : notes'[i] # 0 <=> i < len'
    <3>1. CASE len = MAX_NOTES
      <4>1. MAX_NOTES \in 1 .. MAX_NOTES /\ 0 \in Indices /\ MAX_NOTES - 1 \in Indices
        BY <1>1 DEF Indices
      <4>2. /\ Without(notes, 0) \in [Indices -> Notes \cup {0}]
            /\ \A i \in Indices : Without(notes, 0)[i] # 0 <=> i < MAX_NOTES - 1
        BY <1>1, <3>1, <4>1, WithoutPacked DEF TypeOK, NotesPacked
      <4>3. notes' = [Without(notes, 0) EXCEPT ![MAX_NOTES - 1] = n] /\ len' = len
        BY <1>3, <3>1, <1>1 DEF note_add, arpeggio_note_add
      <4>4. notes' \in [Indices -> Notes \cup {0}]
        BY <4>2, <4>3
      <4> QED
        BY <1>1, <2>1, <3>1, <4>1, <4>2, <4>3, <4>4 DEF Indices
    <3>2. CASE len < MAX_NOTES
      <4>1. notes' = [notes EXCEPT ![len] = n] /\ len' = len + 1
        BY <1>1, <1>3, <3>2 DEF note_add, arpeggio_note_add
      <4> QED
        BY <1>1, <2>1, <3>2, <4>1 DEF TypeOK, NotesPacked, Indices
    <3> QED
      BY <1>1, <3>1, <3>2
  <2>3. button' \in [in : BOOLEAN, stores : SUBSET {"count", "enabled", "octave"}]
    BY <1>3 DEF note_add, arpeggio_note_add, RestartStores
  <2>4. TypeOK'
    BY <1>1, <1>3, <2>2, <2>3 DEF note_add, arpeggio_note_add, TypeOK, keys
  <2>5. IndexInRange'
    BY <1>1, <1>3, <2>2 DEF note_add, arpeggio_note_add, IndexInRange
  <2> QED
    BY <2>2, <2>4, <2>5 DEF NotesPacked
<1>4. ASSUME NEW n \in Notes, note_remove(n)
      PROVE  HeldInv'
  <2>1. CASE UNCHANGED <<held, idx>>
    <3>1. TypeOK'
      BY <1>4, <2>1 DEF note_remove, arpeggio_note_remove, TypeOK, keys, held
    <3> QED
      BY <2>1, <3>1 DEF IndexInRange, NotesPacked, held
  <2>2. ASSUME NEW i \in Indices,
               notes[i] = n,
               notes' = Without(notes, i),
               len' = len - 1,
               idx' = IndexAfterRemoval(i, len - 1)
        PROVE  HeldInv'
    <3>1. i < len /\ len \in 1 .. MAX_NOTES
      BY <1>1, <2>2, NoteValues DEF NotesPacked, Indices
    <3>2. /\ notes' \in [Indices -> Notes \cup {0}]
          /\ \A j \in Indices : notes'[j] # 0 <=> j < len'
      BY <2>2, <3>1, WithoutPacked DEF TypeOK, NotesPacked
    <3>3. idx < len
      BY <1>1, <3>1 DEF IndexInRange
    <3>4. idx' \in Indices /\ IndexInRange'
      BY <1>1, <2>2, <3>1, <3>3 DEF IndexAfterRemoval, IndexInRange, Indices
    <3>5. TypeOK'
      BY <1>1, <1>4, <2>2, <3>1, <3>2, <3>4 DEF note_remove, arpeggio_note_remove, TypeOK, keys
    <3> QED
      BY <3>2, <3>4, <3>5 DEF NotesPacked
  <2> QED
    BY <1>4, <2>1, <2>2 DEF note_remove, arpeggio_note_remove
<1>5. ASSUME NEW s \in RestartStores, RestartStore(s)
      PROVE  HeldInv'
  <2>1. button' \in [in : BOOLEAN, stores : SUBSET {"count", "enabled", "octave"}]
    BY <1>5 DEF RestartStore, TypeOK, RestartStores
  <2>2. TypeOK'
    BY <1>1, <1>5, <2>1 DEF RestartStore, TypeOK, keys, held, MAX_OCTAVES
  <2> QED
    BY <1>5, <2>2 DEF RestartStore, IndexInRange, NotesPacked, held
<1>6. CASE Unlock
  <2>1. button' \in [in : BOOLEAN, stores : SUBSET {"count", "enabled", "octave"}]
    BY <1>6 DEF Unlock, Outside
  <2> QED
    BY <1>6, <2>1 DEF Unlock, TypeOK, keys, held, IndexInRange, NotesPacked
<1>7. CASE TickCounts \/ TickEnds
  <2>1. TypeOK'
    BY <1>2, <1>7 DEF TickCounts, TickEnds, TypeOK, keys, held
  <2> QED
    BY <1>7, <2>1 DEF TickCounts, TickEnds, IndexInRange, NotesPacked, held
<1>8. CASE TickStops
  <2>1. list' \in [Positions -> Keys] /\ note' \in [Keys -> 0 .. 255]
    <3>1. CASE UNCHANGED keys
      BY <3>1 DEF TypeOK, keys
    <3>2. CASE \E i, j \in Positions : /\ list' = Relinked(list, i, j)
                                       /\ note' = StoppedNotes(note, list[i])
      BY <3>2, RelinkedType DEF TypeOK, StoppedNotes, Unused
    <3> QED
      BY <1>8, <3>1, <3>2 DEF TickStops
  <2>2. TypeOK'
    BY <1>8, <2>1 DEF TickStops, TypeOK, held
  <2> QED
    BY <1>8, <2>2 DEF TickStops, IndexInRange, NotesPacked, held
<1>9. CASE TickDisables
  BY <1>9 DEF TickDisables, TypeOK, keys, held, IndexInRange, NotesPacked
<1>10. CASE TickPlays
  <2>1. /\ idx' \in Indices /\ idx' < len /\ octave' \in 0 .. MAX_OCTAVES - 1
        /\ current' \in Pitches /\ current' \in 0 .. 255
    BY <1>10, TickPlaysNote
  <2>2. list' \in [Positions -> Keys] /\ note' \in [Keys -> 0 .. 255]
    <3>1. MAX_NOTES \in Positions /\ 1 \in Positions
      BY <1>1 DEF Positions
    <3>2. list' = Relinked(list, MAX_NOTES, 1) /\ note' = [note EXCEPT ![list[MAX_NOTES]] = current']
      BY <1>10 DEF TickPlays, PlayedList, PlayedNotes, PlayedKey
    <3> QED
      BY <2>1, <3>1, <3>2, RelinkedType DEF TypeOK
  <2>3. TypeOK'
    BY <1>10, <2>1, <2>2 DEF TickPlays, TypeOK, held
  <2> QED
    BY <1>10, <2>1, <2>3 DEF TickPlays, IndexInRange, NotesPacked, held
<1>11. CASE UNCHANGED vars
  BY <1>11 DEF vars, keys, TypeOK, IndexInRange, NotesPacked
<1> QED
  BY <1>3, <1>4, <1>5, <1>6, <1>7, <1>8, <1>9, <1>10, <1>11
     DEF Next, ButtonThread, arpeggio_tick

\* Type correctness of the arpeggiator's static variables and of its keys.
THEOREM ArpeggioTypeCorrect == Spec => []TypeOK
  BY HeldInvInit, HeldInvNext, PTL DEF Spec, HeldInv

\* Whatever is added and removed between two ticks, the index arpeggio_tick
\* goes on from is that of a held note (arpeggio.c 106-116).
THEOREM IndexAlwaysInRange == Spec => []IndexInRange
  BY HeldInvInit, HeldInvNext, PTL DEF Spec, HeldInv

\* The held notes are the first entries of _notes and the rest is 0, so that a
\* tick never plays 0 and a removal never matches past the length.
THEOREM NotesAlwaysPacked == Spec => []NotesPacked
  BY HeldInvInit, HeldInvNext, PTL DEF Spec, HeldInv

-----------------------------------------------------------------------------
(* Held notes and pressed buttons. *)

LEMMA NotesArePressedNext ==
  HeldInv /\ NotesArePressed /\ [Next]_vars => NotesArePressed'
<1> SUFFICES ASSUME HeldInv, NotesArePressed, [Next]_vars PROVE NotesArePressed'
  OBVIOUS
<1>1. /\ MAX_NOTES \in Nat /\ MAX_NOTES > 0
      /\ len \in Nat /\ len =< MAX_NOTES
      /\ notes \in [Indices -> Notes \cup {0}]
  BY MaxNotesAssumption DEF HeldInv, TypeOK
<1>2. ASSUME NEW n \in Notes, note_add(n)
      PROVE  NotesArePressed'
  <2>1. n \notin down /\ down' = down \cup {n}
    BY <1>2 DEF note_add, arpeggio_note_add
  <2>2. CASE len = MAX_NOTES
    <3>1. len' = len /\ notes' = [Without(notes, 0) EXCEPT ![MAX_NOTES - 1] = n]
      BY <1>1, <1>2, <2>2 DEF note_add, arpeggio_note_add
    <3>2. notes'[MAX_NOTES - 1] = n
      BY <1>1, <3>1 DEF Without, Indices
    <3>3. \A i \in 0 .. len - 2 : notes'[i] = notes[i + 1] /\ i + 1 \in 0 .. len - 1
      BY <1>1, <2>2, <3>1 DEF Without, Indices
    <3>4. \A i \in 0 .. len - 2 : notes'[i] \in down
      BY <3>3 DEF NotesArePressed
    <3>5. \A i, j \in 0 .. len - 2 : i # j => notes'[i] # notes'[j]
      BY <1>1, <3>3 DEF NotesArePressed
    <3>6. \A i \in 0 .. len - 1 : i \in 0 .. len - 2 \/ i = MAX_NOTES - 1
      BY <1>1, <2>2
    <3> QED
      BY <2>1, <3>1, <3>2, <3>4, <3>5, <3>6 DEF NotesArePressed
  <2>3. CASE len < MAX_NOTES
    <3>1. len' = len + 1 /\ notes' = [notes EXCEPT ![len] = n]
      BY <1>1, <1>2, <2>3 DEF note_add, arpeggio_note_add
    <3>2. \A i \in 0 .. len : /\ i = len => notes'[i] = n
                              /\ i # len => i \in 0 .. len - 1 /\ notes'[i] = notes[i]
      BY <1>1, <2>3, <3>1 DEF Indices
    <3>3. len' - 1 = len
      BY <1>1, <3>1
    <3> QED
      BY <2>1, <3>2, <3>3 DEF NotesArePressed
  <2> QED
    BY <1>1, <2>2, <2>3
<1>3. ASSUME NEW n \in Notes, note_remove(n)
      PROVE  NotesArePressed'
  <2>1. down' = down \ {n}
    BY <1>3 DEF note_remove, arpeggio_note_remove
  <2>2. CASE UNCHANGED <<held, idx>> /\ \A i \in Indices : notes[i] # n
    <3>1. \A i \in 0 .. len - 1 : i \in Indices
      BY <1>1 DEF Indices
    <3> QED
      BY <2>1, <2>2, <3>1 DEF NotesArePressed, held
  <2>3. ASSUME NEW r \in Indices, notes[r] = n,
               notes' = Without(notes, r), len' = len - 1
        PROVE  NotesArePressed'
    <3>1. r < len
      BY <2>3, NoteValues DEF HeldInv, NotesPacked
    <3> DEFINE From(i) == IF i < r THEN i ELSE i + 1
    <3>2. \A i \in 0 .. len - 2 : /\ From(i) \in 0 .. len - 1 /\ From(i) # r
                                  /\ notes'[i] = notes[From(i)]
      BY <1>1, <2>3, <3>1 DEF Without, Indices
    <3>3. \A i, j \in 0 .. len - 2 : i # j => From(i) # From(j)
      BY <1>1 DEF Indices
    <3>4. r \in 0 .. len - 1 /\ len' - 1 = len - 2
      BY <1>1, <2>3, <3>1 DEF Indices
    <3> HIDE DEF From
    <3>5. \A i \in 0 .. len - 2 : notes'[i] \in down /\ notes'[i] # n
      BY <2>3, <3>2, <3>4 DEF NotesArePressed
    <3>6. \A i, j \in 0 .. len - 2 : i # j => notes'[i] # notes'[j]
      BY <3>2, <3>3 DEF NotesArePressed
    <3> QED
      BY <2>1, <3>4, <3>5, <3>6 DEF NotesArePressed
  <2> QED
    BY <1>3, <2>2, <2>3 DEF note_remove, arpeggio_note_remove
<1>4. ASSUME NEW s \in RestartStores, RestartStore(s)
      PROVE  NotesArePressed'
  BY <1>4 DEF RestartStore, NotesArePressed, held
<1>5. CASE Unlock \/ arpeggio_tick
  BY <1>5 DEF Unlock, arpeggio_tick, TickCounts, TickStops, TickDisables, TickPlays,
              TickEnds, NotesArePressed, held
<1>6. CASE UNCHANGED vars
  BY <1>6 DEF vars, NotesArePressed
<1> QED
  BY <1>2, <1>3, <1>4, <1>5, <1>6 DEF Next, ButtonThread

\* Every held note belongs to a pressed button and is held once, so the release
\* of the button takes it out of the arpeggio (arpeggio.c 63-78).
THEOREM NotesAlwaysPressed == Spec => []NotesArePressed
<1>1. Init => NotesArePressed
  BY DEF Init, NotesArePressed
<1> QED
  BY <1>1, HeldInvInit, HeldInvNext, NotesArePressedNext, PTL DEF Spec

-----------------------------------------------------------------------------
(* The voice that sounds is the head of the list, and no other is held. *)

HeadSounds ==
  IF current = 0 \/ encoder = "lock"
  THEN \A k \in Keys : note[k] = Unused
  ELSE /\ note[list[1]] = current
       /\ \A k \in Keys : k # list[1] => note[k] = Unused

\* The list counts down from its head, round and round.
VoicesRotate ==
  \A p \in Positions :
    list[p] = list[1] - (p - 1) + (IF list[1] < p - 1 THEN MAX_NOTES ELSE 0)

VoiceInv == HeadSounds /\ VoicesRotate

\* A list that counts down from its head holds every key once.
LEMMA RotationIsPermutation ==
  ASSUME list \in [Positions -> Keys], VoicesRotate
  PROVE  IsPermutation(list)
<1>1. MAX_NOTES \in Nat /\ MAX_NOTES > 0 /\ list[1] \in 0 .. MAX_NOTES - 1
  BY MaxNotesAssumption DEF Positions, Keys
<1>2. ASSUME NEW p \in Positions, NEW q \in Positions, p # q
      PROVE  list[p] # list[q]
  <2>1. /\ p \in 1 .. MAX_NOTES /\ q \in 1 .. MAX_NOTES
        /\ list[p] = list[1] - (p - 1) + (IF list[1] < p - 1 THEN MAX_NOTES ELSE 0)
        /\ list[q] = list[1] - (q - 1) + (IF list[1] < q - 1 THEN MAX_NOTES ELSE 0)
    BY DEF VoicesRotate, Positions
  <2> QED
    BY <1>1, <1>2, <2>1
<1>3. ASSUME NEW k \in Keys
      PROVE  \E p \in Positions : list[p] = k
  <2> DEFINE p == list[1] - k + 1 + (IF list[1] < k THEN MAX_NOTES ELSE 0)
  <2>1. p \in Positions
    BY <1>1 DEF Positions, Keys
  <2>2. list[p] = k
    BY <1>1, <2>1 DEF VoicesRotate, Keys
  <2> QED
    BY <2>1, <2>2
<1> QED
  BY <1>2, <1>3 DEF IsPermutation

LEMMA VoiceInvInit == Init => VoiceInv
<1> SUFFICES ASSUME Init PROVE VoiceInv
  OBVIOUS
<1>2. HeadSounds
  BY DEF Init, HeadSounds, InitialNotes
<1>3. VoicesRotate
  BY MaxNotesAssumption DEF Init, VoicesRotate, InitialList, Positions
<1> QED
  BY <1>2, <1>3 DEF VoiceInv

\* The note that is stopped is the head's and no other is held: the key goes
\* back to where it was, and every key is unused.
LEMMA StopLeavesList ==
  ASSUME TypeOK, VoiceInv, TickStops
  PROVE  list' = list /\ \A k \in Keys : note'[k] = Unused
<1> USE DEF VoiceInv
<1>1. /\ MAX_NOTES \in Nat /\ MAX_NOTES > 0
      /\ MAX_NOTES \in Positions /\ 1 \in Positions
      /\ list \in [Positions -> Keys] /\ note \in [Keys -> 0 .. 255]
  BY MaxNotesAssumption DEF TypeOK, Positions
<1>0. IsPermutation(list)
  BY <1>1, RotationIsPermutation
<1>2. HeadSounds /\ encoder # "lock"
  BY DEF TickStops
<1>3. CASE UNCHANGED keys /\ current = 0
  BY <1>2, <1>3 DEF HeadSounds, keys
<1>4. CASE UNCHANGED keys /\ current # 0
                          /\ ~\E i \in Positions : StopFinds(list, note, current, i)
  <2>1. StopFinds(list, note, current, 1)
    BY <1>2, <1>4 DEF HeadSounds, StopFinds
  <2> QED
    BY <1>1, <1>4, <2>1
<1>5. ASSUME NEW i \in Positions, NEW j \in Positions, current # 0,
             StopFinds(list, note, current, i), StopReinsertsAt(list, note, i, j),
             list' = Relinked(list, i, j), note' = StoppedNotes(note, list[i])
      PROVE  list' = list /\ \A k \in Keys : note'[k] = Unused
  <2>1. \A k \in Keys : k # list[1] => note[k] = Unused
    BY <1>2, <1>5 DEF HeadSounds
  <2>2. list[i] = list[1] /\ i = 1
    BY <1>1, <1>0, <1>5, <2>1 DEF StopFinds, IsPermutation, Unused
  <2>3. \A q \in Positions : q # 1 => note[list[q]] = Unused
    BY <1>1, <1>0, <2>1 DEF IsPermutation
  <2>4. j = 1
    <3>1. SUFFICES ASSUME j # 1 PROVE FALSE
      OBVIOUS
    <3>2. 2 \in i + 1 .. j /\ 2 \in Positions
      BY <1>1, <2>2, <3>1 DEF Positions
    <3> QED
      BY <1>5, <2>3, <3>2 DEF StopReinsertsAt
  <2>5. list' = list
    BY <1>1, <1>5, <2>2, <2>4 DEF Relinked, Positions
  <2>6. \A k \in Keys : note'[k] = Unused
    BY <1>1, <1>5, <2>1, <2>2 DEF StoppedNotes
  <2> QED
    BY <2>5, <2>6
<1> QED
  BY <1>3, <1>4, <1>5 DEF TickStops, MustStop

LEMMA VoiceInvNext == TypeOK /\ VoiceInv /\ [Next]_vars => VoiceInv'
<1> SUFFICES ASSUME TypeOK, VoiceInv, [Next]_vars PROVE VoiceInv'
  OBVIOUS
<1> USE DEF VoiceInv
<1>1. /\ MAX_NOTES \in Nat /\ MAX_NOTES > 0
      /\ MAX_NOTES \in Positions /\ 1 \in Positions
      /\ list \in [Positions -> Keys] /\ note \in [Keys -> 0 .. 255]
  BY MaxNotesAssumption DEF TypeOK, Positions
<1>2. CASE TickStops
  BY <1>2, StopLeavesList DEF TickStops, HeadSounds, VoicesRotate
<1>3. CASE TickPlays
  <2>1. list' = Relinked(list, MAX_NOTES, 1) /\ note' = [note EXCEPT ![list[MAX_NOTES]] = current']
    BY <1>3 DEF TickPlays, PlayedList, PlayedNotes, PlayedKey
  <2>3. list'[1] = list[MAX_NOTES] /\ \A p \in Positions : p # 1 => list'[p] = list[p - 1] /\ p - 1 \in Positions
    BY <1>1, <2>1 DEF Relinked, Positions
  <2>4. \A k \in Keys : note[k] = Unused
    BY <1>3 DEF TickPlays, HeadSounds
  <2>5. encoder' # "lock"
    BY <1>3 DEF TickPlays
  <2>6. HeadSounds'
    BY <1>1, <2>1, <2>3, <2>4, <2>5 DEF HeadSounds, Unused
  <2>7. VoicesRotate'
    <3>1. list[MAX_NOTES] = list[1] - (MAX_NOTES - 1) + (IF list[1] < MAX_NOTES - 1 THEN MAX_NOTES ELSE 0)
      BY <1>1 DEF VoicesRotate
    <3>2. list[1] \in 0 .. MAX_NOTES - 1
      BY <1>1 DEF Keys
    <3>3. ASSUME NEW p \in Positions, p # 1
          PROVE  list'[p] = list'[1] - (p - 1) + (IF list'[1] < p - 1 THEN MAX_NOTES ELSE 0)
      <4>1. list'[p] = list[1] - (p - 2) + (IF list[1] < p - 2 THEN MAX_NOTES ELSE 0)
        BY <2>3, <3>3 DEF VoicesRotate, Positions
      <4> QED
        BY <1>1, <2>3, <3>1, <3>2, <3>3, <4>1 DEF Positions
    <3>4. list'[1] = list'[1] - (1 - 1) + (IF list'[1] < 1 - 1 THEN MAX_NOTES ELSE 0)
      BY <1>1, <2>3 DEF Keys
    <3> QED
      BY <3>3, <3>4 DEF VoicesRotate
  <2> QED
    BY <2>6, <2>7
<1>4. CASE TickDisables
  BY <1>4 DEF TickDisables, HeadSounds, VoicesRotate, keys
<1>5. CASE TickCounts \/ TickEnds
  BY <1>5 DEF TickCounts, TickEnds, HeadSounds, VoicesRotate, keys
<1>6. CASE ButtonThread
  BY <1>6 DEF ButtonThread, note_add, arpeggio_note_add, note_remove, arpeggio_note_remove,
              RestartStore, Unlock,
              HeadSounds, VoicesRotate, keys
<1>7. CASE UNCHANGED vars
  BY <1>7 DEF vars, HeadSounds, VoicesRotate, keys
<1> QED
  BY <1>2, <1>3, <1>4, <1>5, <1>6, <1>7 DEF Next, arpeggio_tick

LEMMA VoiceInvAlways == Spec => []VoiceInv
  BY HeldInvInit, HeldInvNext, VoiceInvInit, VoiceInvNext, PTL DEF Spec, HeldInv

\* At most one voice is held and it plays _arp_current_note: keys_stop at
\* arpeggio.c 92 always finds what keys_play at 118 started.
THEOREM NoHangingVoice == Spec => []OnlyCurrentSounds
<1>1. TypeOK /\ VoiceInv => OnlyCurrentSounds
  <2> SUFFICES ASSUME TypeOK, VoiceInv PROVE OnlyCurrentSounds
    OBVIOUS
  <2>1. list[1] \in Keys
    BY MaxNotesAssumption DEF TypeOK, Positions
  <2>2. CASE current = 0 \/ encoder = "lock"
    BY <2>2 DEF VoiceInv, HeadSounds, OnlyCurrentSounds
  <2>3. CASE ~(current = 0 \/ encoder = "lock")
    <3>1. note[list[1]] = current /\ current # Unused
      BY <2>3 DEF VoiceInv, HeadSounds, Unused
    <3>2. {k \in Keys : note[k] # Unused} = {list[1]}
      BY <2>1, <2>3, <3>1 DEF VoiceInv, HeadSounds
    <3> QED
      BY <2>1, <2>3, <3>1, <3>2 DEF OnlyCurrentSounds
  <2> QED
    BY <2>2, <2>3
<1> QED
  BY <1>1, ArpeggioTypeCorrect, VoiceInvAlways, PTL

\* The arpeggiator uses the voices in turn, so that the envelope of a voice can
\* fade out while the MAX_NOTES - 1 others are played (the search for the tail
\* in keys_play and the unlinking in keys_stop, key_assign.c 35-46 and 72-84).
THEOREM VoicesAlwaysTakeTurns == Spec => VoicesTakeTurns
<1> DEFINE Turn == IF TickPlays
                   THEN list'[1] = (IF list[1] + 1 = MAX_NOTES THEN 0 ELSE list[1] + 1)
                   ELSE list' = list
<1>1. TypeOK /\ VoiceInv /\ [Next]_vars => [Turn]_vars
  <2> SUFFICES ASSUME TypeOK, VoiceInv, Next PROVE Turn
    OBVIOUS
  <2>1. /\ MAX_NOTES \in Nat /\ MAX_NOTES > 0
        /\ MAX_NOTES \in Positions /\ list[1] \in 0 .. MAX_NOTES - 1
    BY MaxNotesAssumption DEF TypeOK, Positions, Keys
  <2>2. CASE TickPlays
    <3>1. list'[1] = list[MAX_NOTES]
      BY <2>1, <2>2 DEF TickPlays, PlayedList, Relinked, Positions
    <3>2. list[MAX_NOTES] = list[1] - (MAX_NOTES - 1)
                            + (IF list[1] < MAX_NOTES - 1 THEN MAX_NOTES ELSE 0)
      BY <2>1 DEF VoiceInv, VoicesRotate
    <3> QED
      BY <2>1, <2>2, <3>1, <3>2
  <2>3. CASE TickStops
    BY <2>3, StopLeavesList DEF TickStops, TickPlays
  <2>4. CASE TickCounts \/ TickDisables \/ TickEnds
    BY <2>4 DEF TickCounts, TickDisables, TickEnds, TickPlays, keys
  <2>5. CASE ButtonThread
    BY <2>5 DEF ButtonThread, note_add, arpeggio_note_add, note_remove, arpeggio_note_remove,
              RestartStore, Unlock, keys, TickPlays
  <2> QED
    BY <2>2, <2>3, <2>4, <2>5 DEF Next, arpeggio_tick
<1> QED
  BY <1>1, ArpeggioTypeCorrect, VoiceInvAlways, PTL DEF Spec, VoicesTakeTurns

-----------------------------------------------------------------------------
(* The voices as the allocation policy sees them.                           *)

\* The list of keys as a sequence, its head and what follows.
LEMMA ListIsSequence ==
  ASSUME NEW l \in [Positions -> Keys]
  PROVE  /\ l \in Seq(Keys) /\ Len(l) = MAX_NOTES /\ l # <<>>
         /\ Tail(l) \in Seq(Keys) /\ Len(Tail(l)) = MAX_NOTES - 1
         /\ \A p \in 1 .. MAX_NOTES - 1 : Tail(l)[p] = l[p + 1]
         /\ l = <<l[1]>> \o Tail(l)
<1>1. MAX_NOTES \in Nat /\ MAX_NOTES > 0
  BY MaxNotesAssumption
<1>2. l \in Seq(Keys) /\ Len(l) = MAX_NOTES
  BY <1>1, SeqDef, LenProperties DEF Positions
<1>3. l # <<>>
  BY <1>1, <1>2, EmptySeq
<1>4. /\ Tail(l) \in Seq(Keys) /\ Len(Tail(l)) = MAX_NOTES - 1
      /\ \A p \in 1 .. MAX_NOTES - 1 : Tail(l)[p] = l[p + 1]
  BY <1>2, <1>3, HeadTailProperties
<1>5. l = <<l[1]>> \o Tail(l)
  <2> DEFINE t == Tail(l)
             c == <<l[1]>> \o t
  <2>1. t \in Seq(Keys) /\ Len(t) = MAX_NOTES - 1 /\ \A p \in 1 .. MAX_NOTES - 1 : t[p] = l[p + 1]
    BY <1>4
  <2>2. <<l[1]>> \in Seq(Keys) /\ Len(<<l[1]>>) = 1 /\ <<l[1]>>[1] = l[1]
    BY <1>1 DEF Positions
  <2> HIDE DEF t
  <2>3. /\ c \in Seq(Keys) /\ Len(c) = MAX_NOTES
        /\ \A p \in 1 .. MAX_NOTES : c[p] = IF p =< 1 THEN <<l[1]>>[p] ELSE t[p - 1]
    BY <1>1, <2>1, <2>2, ConcatProperties
  <2> HIDE DEF c
  <2>4. ASSUME NEW p \in 1 .. MAX_NOTES PROVE c[p] = l[p]
    BY <1>1, <2>1, <2>2, <2>3
  <2>5. c = l
    BY <1>2, <2>3, <2>4, SeqEqual
  <2> QED
    BY <2>5 DEF c, t
<1> QED
  BY <1>2, <1>3, <1>4, <1>5

\* keys_play makes the tail of the list its head.
LEMMA PlayedSequence ==
  ASSUME NEW l \in [Positions -> Keys]
  PROVE  /\ PlayedList(l) \in [Positions -> Keys]
         /\ PlayedList(l)[1] = l[Len(l)]
         /\ Tail(PlayedList(l)) = SubSeq(l, 1, Len(l) - 1)
<1> DEFINE k == PlayedList(l)
<1>1. MAX_NOTES \in Nat /\ MAX_NOTES > 0 /\ MAX_NOTES \in Positions /\ 1 \in Positions
  BY MaxNotesAssumption DEF Positions
<1>2. k \in [Positions -> Keys]
  BY <1>1, RelinkedType DEF PlayedList
<1>3. k[1] = l[MAX_NOTES] /\ \A p \in 1 .. MAX_NOTES - 1 : k[p + 1] = l[p]
  <2>1. k[1] = l[MAX_NOTES]
    BY <1>1 DEF PlayedList, Relinked
  <2>2. ASSUME NEW p \in 1 .. MAX_NOTES - 1 PROVE k[p + 1] = l[p]
    <3>1. /\ p + 1 \in Positions /\ p + 1 # 1 /\ p + 1 \in 1 + 1 .. MAX_NOTES
          /\ (p + 1) - 1 = p
      BY <1>1 DEF Positions
    <3> QED
      BY <3>1 DEF PlayedList, Relinked
  <2> QED
    BY <2>1, <2>2
<1> HIDE DEF k
<1>4. l \in Seq(Keys) /\ Len(l) = MAX_NOTES
  BY ListIsSequence
<1> DEFINE t == Tail(k)
           f == SubSeq(l, 1, MAX_NOTES - 1)
<1>5. t \in Seq(Keys) /\ Len(t) = MAX_NOTES - 1 /\ \A p \in 1 .. MAX_NOTES - 1 : t[p] = k[p + 1]
  BY <1>2, ListIsSequence
<1>6. \A p \in 1 .. MAX_NOTES - 1 : l[p] \in Keys
  BY <1>1 DEF Positions
<1>7. f \in Seq(Keys) /\ Len(f) = MAX_NOTES - 1 /\ \A p \in 1 .. MAX_NOTES - 1 : f[p] = l[p]
  BY <1>1, <1>4, <1>6, SubSeqProperties
<1> HIDE DEF t, f
<1>8. \A p \in 1 .. MAX_NOTES - 1 : t[p] = f[p]
  BY <1>3, <1>5, <1>7
<1>9. t = f
  BY <1>5, <1>7, <1>8, SeqEqual
<1> QED
  BY <1>2, <1>3, <1>4, <1>9 DEF k, t, f

LEMMA PolicyInit == Init => Policy!Init
<1> SUFFICES ASSUME Init PROVE Policy!Init
  OBVIOUS
<1>1. ~Sounds
  BY DEF Init, Sounds
<1> QED
  BY <1>1 DEF Init, Policy!Init, Policy!Voices, HeldVoices, FreeVoices,
              InitialList, InitialNotes, Positions, Keys, Unused

LEMMA PolicyStops ==
  ASSUME TypeOK, VoiceInv, TickStops
  PROVE  /\ current = 0 => UNCHANGED <<HeldVoices, FreeVoices, note>>
         /\ current # 0 => Policy!Stop(current)
<1>1. /\ list \in [Positions -> Keys] /\ 1 \in Positions
      /\ note \in [Keys -> 0 .. 255]
  BY MaxNotesAssumption DEF TypeOK, Positions
<1>2. list' = list /\ \A k \in Keys : note'[k] = Unused
  BY StopLeavesList
<1>3. ~Sounds' /\ UNCHANGED current /\ encoder # "lock" /\ note' \in [Keys -> 0 .. 255]
  <2>1. note' \in [Keys -> 0 .. 255]
    BY <1>1 DEF TickStops, StoppedNotes, Unused, keys
  <2> QED
    BY <2>1 DEF TickStops, Sounds
<1>4. CASE current = 0
  <2>1. \A k \in Keys : note[k] = Unused
    BY <1>4 DEF VoiceInv, HeadSounds
  <2>2. note' = note
    BY <1>1, <1>2, <1>3, <2>1
  <2>3. ~Sounds
    BY <1>4 DEF Sounds
  <2> QED
    BY <1>2, <1>3, <1>4, <2>2, <2>3 DEF HeldVoices, FreeVoices
<1>5. CASE current # 0
  <2>1. Sounds /\ note[list[1]] = current /\ \A k \in Keys : k # list[1] => note[k] = Unused
    BY <1>3, <1>5 DEF VoiceInv, HeadSounds, Sounds
  <2>2. note' = [note EXCEPT ![list[1]] = 0]
    BY <1>1, <1>2, <1>3, <2>1 DEF Unused
  <2>3. HeldVoices = <<list[1]>> /\ FreeVoices = Tail(list) /\ HeldVoices' = <<>> /\ FreeVoices' = list
    BY <1>2, <1>3, <2>1 DEF HeldVoices, FreeVoices
  <2>4. FreeVoices' = <<HeldVoices[1]>> \o FreeVoices
    BY <1>1, <2>3, ListIsSequence
  <2>5. HeldVoices' = SubSeq(HeldVoices, 1, 1 - 1) \o SubSeq(HeldVoices, 1 + 1, Len(HeldVoices))
    BY <2>3
  <2>6. 1 \in DOMAIN HeldVoices /\ HeldVoices[1] = list[1]
    BY <2>3
  <2>7. \A h \in 1 .. 1 - 1 : note[HeldVoices[h]] # current
    OBVIOUS
  <2>8. note' = [note EXCEPT ![HeldVoices[1]] = 0]
    BY <2>2, <2>6
  <2> QED
    BY <1>5, <2>1, <2>4, <2>5, <2>6, <2>7, <2>8
       DEF Policy!Stop, Policy!Assign, Policy!RemoveAt
<1> QED
  BY <1>4, <1>5

LEMMA PolicyPlays ==
  ASSUME TypeOK, VoiceInv, TickPlays, current' \in Pitches, current' # 0
  PROVE  Policy!PlayFree(current')
<1>1. list \in [Positions -> Keys]
  BY DEF TypeOK
<1>2. ~Sounds /\ Sounds'
  BY DEF TickPlays, Sounds
<1>3. list' = PlayedList(list) /\ note' = [note EXCEPT ![list[MAX_NOTES]] = current']
  BY DEF TickPlays, PlayedNotes, PlayedKey
<1>4. HeldVoices = <<>> /\ FreeVoices = list /\ HeldVoices' = <<list'[1]>> /\ FreeVoices' = Tail(list')
  BY <1>2 DEF HeldVoices, FreeVoices
<1>5. FreeVoices # <<>> /\ Len(FreeVoices) = MAX_NOTES
  BY <1>1, <1>4, ListIsSequence
<1>6. FreeVoices' = SubSeq(FreeVoices, 1, Len(FreeVoices) - 1) /\ list'[1] = FreeVoices[Len(FreeVoices)]
  BY <1>1, <1>3, <1>4, PlayedSequence
<1>7. HeldVoices' = <<FreeVoices[Len(FreeVoices)]>> \o HeldVoices
  BY <1>4, <1>6
<1> QED
  BY <1>3, <1>4, <1>5, <1>6, <1>7
     DEF Policy!PlayFree, Policy!Assign, Policy!Last, Policy!Front

\* The arpeggiator calls the keys as the policy for one held voice has it: each
\* voice is released before the next is assigned, which is always a free one,
\* released the longest time ago (arpeggio.c 85-128).
THEOREM ArpeggioImplementsPolicy == Spec => ImplementsPolicy
<1>1. HeldInv /\ VoiceInv /\ [Next]_vars => [Policy!Next]_<<HeldVoices, FreeVoices, note>>
  <2> SUFFICES ASSUME HeldInv, VoiceInv, [Next]_vars
               PROVE  Policy!Next \/ UNCHANGED <<HeldVoices, FreeVoices, note>>
    OBVIOUS
  <2>1. TypeOK
    BY DEF HeldInv
  <2>2. CASE TickStops
    <3>1. current \in Pitches \/ current = 0
      BY <2>1 DEF TypeOK
    <3> QED
      BY <2>1, <2>2, <3>1, PolicyStops DEF Policy!Next
  <2>3. CASE TickPlays
    <3>1. current' \in Pitches /\ current' # 0
      BY <2>3, TickPlaysNote DEF HeldInv
    <3> QED
      BY <2>1, <2>3, <3>1, PolicyPlays DEF Policy!Next
  <2>4. CASE TickDisables
    BY <2>4 DEF TickDisables, keys, HeldVoices, FreeVoices, Sounds
  <2>5. CASE TickCounts \/ TickEnds
    BY <2>5 DEF TickCounts, TickEnds, keys, HeldVoices, FreeVoices, Sounds
  <2>6. CASE ButtonThread
    BY <2>6 DEF ButtonThread, note_add, arpeggio_note_add, note_remove, arpeggio_note_remove,
              RestartStore, Unlock, keys,
                HeldVoices, FreeVoices, Sounds
  <2>7. CASE UNCHANGED vars
    BY <2>7 DEF vars, HeldVoices, FreeVoices, Sounds
  <2> QED
    BY <2>2, <2>3, <2>4, <2>5, <2>6, <2>7 DEF Next, arpeggio_tick
<1> QED
  BY <1>1, PolicyInit, HeldInvInit, HeldInvNext, VoiceInvAlways, PTL
     DEF Spec, ImplementsPolicy, Policy!Spec, Policy!vars

-----------------------------------------------------------------------------
(* The tick count and the restart.  While the encoder thread is past the    *)
(* test of its count, the count is 0; and a restart that made its store to  *)
(* the count before the others finds it still 0 when the arpeggio goes on.  *)

CountInv ==
  /\ ~button.in => button.stores = {}
  /\ encoder = "count" => ~button.in
  /\ encoder # "idle" => tick_count = 0
  /\ encoder = "count" /\ enabled => current # 0
  /\ enabled /\ current = 0 /\ "count" \notin button.stores => tick_count = 0
  /\ ~enabled /\ button.stores # {} /\ "count" \notin button.stores => tick_count = 0

LEMMA CountInvInit == Init => CountInv
  BY DEF Init, CountInv, Outside

LEMMA CountInvNext == HeldInv /\ CountInv /\ [Next]_vars => CountInv'
<1> SUFFICES ASSUME HeldInv, TypeOK, CountInv, [Next]_vars PROVE CountInv'
  BY DEF HeldInv
<1>1. ASSUME NEW n \in Notes, note_add(n) PROVE CountInv'
  BY <1>1 DEF note_add, arpeggio_note_add, CountInv, ButtonThreadRuns, MutexFree, RestartStores, TypeOK
<1>2. ASSUME NEW n \in Notes, note_remove(n) PROVE CountInv'
  BY <1>2 DEF note_remove, arpeggio_note_remove, CountInv
<1>3. ASSUME NEW s \in RestartStores, RestartStore(s) PROVE CountInv'
  BY <1>3 DEF RestartStore, CountInv, RestartStores, ButtonThreadRuns, MutexFree, TypeOK
<1>4. CASE Unlock
  BY <1>4 DEF Unlock, CountInv, Outside, ButtonThreadRuns, MutexFree
<1>5. CASE TickCounts
  BY <1>5 DEF TickCounts, CountInv
<1>6. CASE TickStops
  BY <1>6 DEF TickStops, CountInv
<1>7. CASE TickDisables
  BY <1>7 DEF TickDisables, CountInv, MutexFree
<1>8. CASE TickPlays
  <2>1. current' # 0
    BY <1>8, TickPlaysNote
  <2> QED
    BY <1>8, <2>1 DEF TickPlays, CountInv, MutexFree
<1>9. CASE TickEnds
  BY <1>9 DEF TickEnds, CountInv
<1>10. CASE UNCHANGED vars
  BY <1>10 DEF vars, CountInv
<1> QED
  BY <1>1, <1>2, <1>3, <1>4, <1>5, <1>6, <1>7, <1>8, <1>9, <1>10
     DEF Next, ButtonThread, arpeggio_tick

\* A note added while the arpeggio is off sounds at the very next tick, in
\* whatever order the stores of the restart (arpeggio.c 50-55) are compiled and
\* wherever the encoder thread comes between them.
THEOREM RestartAlwaysPrompt == Spec => []RestartIsPrompt
<1>1. CountInv => RestartIsPrompt
  BY DEF CountInv, RestartIsPrompt, Outside
<1> QED
  BY <1>1, CountInvInit, CountInvNext, HeldInvInit, HeldInvNext, PTL DEF Spec
=============================================================================
