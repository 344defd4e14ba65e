------------------------------ MODULE KeyAssign ------------------------------
(***************************************************************************)
(* synthesizer/key_assign.c: assigns notes to the MAX_NOTES oscillator     *)
(* voices.  keys_play and keys_stop change the list under keys->mutex and  *)
(* call the synthesizer back (play_cb, stop_cb) after they released it, so *)
(* each call is two steps here: the critical section, then the callback.   *)
(***************************************************************************)
EXTENDS KeyList, Sequences, FiniteSets

CONSTANTS Callers,   \* the threads that call keys_play and keys_stop
          Notes      \* the notes they ask for

ASSUME NotesAssumption == Notes \subseteq 1 .. 255   \* key->note is a uint8_t

VARIABLES list,      \* key indices in the order of the linked list
          note,      \* key->note
          voice,     \* what the callbacks last told each voice: a note, or off
          pending    \* per caller, the callback it still has to make

vars == <<list, note, voice, pending>>

NoCall == [op |-> "none", key |-> 0]

Init ==
  /\ list = InitialList
  /\ note = InitialNotes
  /\ voice = [k \in Keys |-> Unused]
  /\ pending = [c \in Callers |-> NoCall]

keys_play(c, n) ==
  /\ pending[c] = NoCall
  /\ list' = PlayedList(list)
  /\ note' = PlayedNotes(list, note, n)
  /\ pending' = [pending EXCEPT ![c] = [op |-> "play", key |-> PlayedKey(list)]]
  /\ UNCHANGED voice

\* The early return, for a note the walk does not find, changes nothing.
keys_stop(c, n) ==
  /\ pending[c] = NoCall
  /\ \E i, j \in Positions :
        /\ StopFinds(list, note, n, i)
        /\ StopReinsertsAt(list, note, i, j)
        /\ list' = Relinked(list, i, j)
        /\ note' = StoppedNotes(note, list[i])
        /\ pending' = [pending EXCEPT ![c] = [op |-> "stop", key |-> list[i]]]
  /\ UNCHANGED voice

\* keys->play_cb(key->index, key->note): the note is read after the unlock.
play_cb(c) ==
  /\ pending[c].op = "play"
  /\ voice' = [voice EXCEPT ![pending[c].key] = note[pending[c].key]]
  /\ pending' = [pending EXCEPT ![c] = NoCall]
  /\ UNCHANGED <<list, note>>

stop_cb(c) ==
  /\ pending[c].op = "stop"
  /\ voice' = [voice EXCEPT ![pending[c].key] = Unused]
  /\ pending' = [pending EXCEPT ![c] = NoCall]
  /\ UNCHANGED <<list, note>>

Next ==
  \E c \in Callers :
     \/ \E n \in Notes : keys_play(c, n) \/ keys_stop(c, n)
     \/ play_cb(c)
     \/ stop_cb(c)

Spec == Init /\ [][Next]_vars

-----------------------------------------------------------------------------
\* Types of the four variables.
TypeOK ==
  /\ list \in [Positions -> Keys]
  /\ note \in [Keys -> Notes \cup {Unused}]
  /\ voice \in [Keys -> Notes \cup {Unused}]
  /\ pending \in [Callers -> {NoCall} \cup [op : {"play", "stop"}, key : Keys]]

\* Unlinking and relinking (key_assign.c 42-46, 73-84) never loses a key and
\* never makes the list share or repeat one, however calls follow each other.
NoKeyLost == IsPermutation(list)

\* The held keys are a prefix of the list: the loop of keys_stop, which gives
\* up at the first unused key (line 66), can never miss a key that is held,
\* and keys_play only takes a held key when none is unused.
HeldKeysFirst == UsedBeforeUnused(list, note)

\* When no call is under way, each voice sounds exactly the note its key is
\* bound to and is off when the key is unused: no voice is left hanging and
\* none is silenced by the stop of another, also when keys_play takes over a
\* held key without a stop_cb.  True for a single calling thread only, since
\* play_cb reads key->note outside the mutex.
VoiceFollowsKey ==
  (\A c \in Callers : pending[c] = NoCall) => \A k \in Keys : voice[k] = note[k]

HeldCount(l, m) == Cardinality({p \in Positions : m[l[p]] # Unused})
FirstKeys(l, h) == [p \in 1 .. h |-> l[p]]
OtherKeys(l, h) == [p \in 1 .. MAX_NOTES - h |-> l[h + p]]

\* The list implements the allocation policy of KeyAllocator: as many keys as
\* are held, from its head, are the queue of held voices, and the rest is the
\* queue of free ones.
Policy == INSTANCE KeyAllocator WITH
            held  <- FirstKeys(list, HeldCount(list, note)),
            free  <- OtherKeys(list, HeldCount(list, note)),
            pitch <- note

\* Every step of keys_play and keys_stop is the step the policy prescribes:
\* the longest released voice, else the longest held one, is assigned.
ImplementsPolicy == Policy!Spec
=============================================================================
