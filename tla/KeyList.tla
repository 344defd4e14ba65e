------------------------------- MODULE KeyList -------------------------------
(***************************************************************************)
(* The linked list of synthesizer/key_assign.c as a data structure: the    *)
(* order in which its keys hang from keys->head, and the note each key is  *)
(* bound to.  The chain of next pointers is modelled as the function from  *)
(* positions to key indices that it spells out, position 1 being the head. *)
(* The operators only compute; the modules that use them own the state.    *)
(*                                                                         *)
(* Throughout the project an operator X_Y is X with the programming error  *)
(* Y.  No specification uses one: they stand in for X when the properties  *)
(* are tried on a wrong program (see the README).                          *)
(***************************************************************************)
EXTENDS Integers

CONSTANT MAX_NOTES   \* CONFIG_MAX_NOTES: how many keys (voices) there are

ASSUME MaxNotesAssumption == MAX_NOTES \in Nat \ {0}

Keys      == 0 .. MAX_NOTES - 1      \* key->index
Positions == 1 .. MAX_NOTES          \* distance from keys->head, plus one
Unused    == 0                       \* key->note of a key that is not held

\* keys_init pushes keys 0, 1, ... in front, so the last one is the head.
InitialList  == [p \in Positions |-> MAX_NOTES - p]
InitialNotes == [k \in Keys |-> Unused]

(***************************************************************************)
(* The list after the key at position i is unlinked and linked in again so *)
(* that it ends up at position j; the keys between move up by one.         *)
(***************************************************************************)
Relinked(list, i, j) ==
  [p \in Positions |->
     IF p = j THEN list[i]
     ELSE IF p \in j + 1 .. i THEN list[p - 1]
     ELSE IF p \in i .. j - 1 THEN list[p + 1]
     ELSE list[p]]

\* keys_play takes the tail and makes it the head.
PlayedKey(list)           == list[MAX_NOTES]
PlayedList_TailKept(list) == [list EXCEPT ![1] = PlayedKey(list)]
PlayedList(list)          == Relinked(list, MAX_NOTES, 1)
PlayedNotes(list, note, n) == [note EXCEPT ![PlayedKey(list)] = n]

(***************************************************************************)
(* keys_stop walks from the head to the first key bound to n.  The head is *)
(* compared with n whatever its note is; the walk gives up at the first    *)
(* unused key after it, and at the end of the list.                        *)
(***************************************************************************)
StopFinds(list, note, n, p) ==
  /\ note[list[p]] = n
  /\ \A q \in 1 .. p - 1 : note[list[q]] # n
  /\ \A q \in 2 .. p : note[list[q]] # Unused

StopReinsertsAt_InPlace(list, note, i, j) == j = i
StopReinsertsAt_AtTail(list, note, i, j)  == j = MAX_NOTES

\* The walk then goes on, over used keys only, from the key it found at i.
StopReinsertsAt(list, note, i, j) ==
  /\ j \in i .. MAX_NOTES
  /\ \A q \in i + 1 .. j : note[list[q]] # Unused
  /\ j < MAX_NOTES => note[list[j + 1]] = Unused

StoppedNotes_Kept(note, key) == note
StoppedNotes(note, key) == [note EXCEPT ![key] = Unused]

(***************************************************************************)
(* What a well-formed list is.                                             *)
(***************************************************************************)
IsPermutation(list) ==
  /\ \A p, q \in Positions : p # q => list[p] # list[q]
  /\ \A k \in Keys : \E p \in Positions : list[p] = k

UsedBeforeUnused(list, note) ==
  \A p, q \in Positions :
     p < q /\ note[list[q]] # Unused => note[list[p]] # Unused
=============================================================================
