----------------------------- MODULE KeyAllocator -----------------------------
(***************************************************************************)
(* What key assignment promises, without its linked list: a pool of voices *)
(* kept in two queues.  A note gets the voice that has been free for the   *)
(* longest time and, when none is free, takes over the one that has been   *)
(* held for the longest time; a released voice becomes the last choice.    *)
(***************************************************************************)
EXTENDS Integers, SequencesExt

CONSTANTS MAX_NOTES, Notes

VARIABLES held,    \* voices that sound, the most recently assigned first
          free,    \* voices that do not, the most recently released first
          pitch    \* the note of each voice, 0 when it is free

vars == <<held, free, pitch>>

Voices == 0 .. MAX_NOTES - 1

Init ==
  /\ held = <<>>
  /\ free = [p \in 1 .. MAX_NOTES |-> MAX_NOTES - p]
  /\ pitch = [v \in Voices |-> 0]

Assign(v, n) == pitch' = [pitch EXCEPT ![v] = n]

PlayFree(n) ==
  /\ free # <<>>
  /\ held' = <<Last(free)>> \o held
  /\ free' = Front(free)
  /\ Assign(Last(free), n)

PlayStolen(n) ==
  /\ free = <<>>
  /\ held' = <<Last(held)>> \o Front(held)
  /\ UNCHANGED free
  /\ Assign(Last(held), n)

\* Of two voices with the same note, the more recently assigned is released.
Stop(n) ==
  \E i \in DOMAIN held :
     /\ pitch[held[i]] = n
     /\ \A h \in 1 .. i - 1 : pitch[held[h]] # n
     /\ held' = RemoveAt(held, i)
     /\ free' = <<held[i]>> \o free
     /\ Assign(held[i], 0)

Next == \E n \in Notes : PlayFree(n) \/ PlayStolen(n) \/ Stop(n)

Spec == Init /\ [][Next]_vars
=============================================================================
