------------------------------ MODULE VolumeProofs ------------------------------
(***************************************************************************)
(* The volumes are the same at rest, for any number of headsets, volumes   *)
(* and changes on their way.  No order of changes, reports and writes has  *)
(* to be told apart for it: a report that is the last one on its way tells *)
(* the volume its headset has, and the gateway passes it to all others; so *)
(* once no report is left, there is a volume that every headset has or is  *)
(* about to be written.                                                    *)
(***************************************************************************)
EXTENDS Volume, SequenceTheorems, TLAPS

\* The last state a headset has notified is its volume.
LastTellsVolume ==
  \A i \in Slots : states[i] # <<>> => states[i][Len(states[i])] = volume[i]

\* Nothing is on its way from or to a headset that is not connected.
NothingLeftBehind ==
  \A i \in Slots : i \notin up => states[i] = <<>> /\ write[i] = Idle

Heard == \A i \in Slots : states[i] = <<>>
HasOrGets(i, v) == volume[i] = v \/ write[i] = v

\* With every state passed on, there is a volume all headsets come to.
Agreed == Heard /\ ~unsynced => \E v \in Volumes : \A i \in up : HasOrGets(i, v)

VolumeInv == TypeOK /\ LastTellsVolume /\ NothingLeftBehind /\ Agreed

-----------------------------------------------------------------------------
(* Queues of states.                                                        *)

LEMMA AppendedState ==
  ASSUME NEW q \in Seq(Volumes), NEW v \in Volumes
  PROVE  /\ Append(q, v) \in Seq(Volumes) /\ Append(q, v) # <<>>
         /\ Append(q, v)[Len(Append(q, v))] = v
  BY AppendProperties

\* Taking the first of several states leaves the last one, and the first is the
\* last when no other is left.
LEMMA TakenState ==
  ASSUME NEW q \in Seq(Volumes), q # <<>>
  PROVE  /\ Head(q) \in Volumes /\ Tail(q) \in Seq(Volumes)
         /\ Tail(q) # <<>> => Tail(q)[Len(Tail(q))] = q[Len(q)]
         /\ Tail(q) = <<>> => Head(q) = q[Len(q)]
<1> DEFINE t == Tail(q)
<1>1. /\ Head(q) \in Volumes /\ t \in Seq(Volumes)
      /\ Len(q) \in Nat /\ Len(q) > 0 /\ Len(t) = Len(q) - 1
      /\ Head(q) = q[1] /\ \A k \in 1 .. Len(t) : t[k] = q[k + 1]
  BY HeadTailProperties, EmptySeq, LenProperties
<1> HIDE DEF t
<1>2. t = <<>> => Len(q) = 1
  BY <1>1, EmptySeq
<1>3. t # <<>> => Len(t) \in 1 .. Len(t) /\ Len(t) + 1 = Len(q)
  BY <1>1, EmptySeq, LenProperties
<1> QED
  BY <1>1, <1>2, <1>3 DEF t

-----------------------------------------------------------------------------
LEMMA TypeInit == Init => TypeOK
  BY EmptySeq DEF Init, TypeOK

LEMMA TypeNext == TypeOK /\ [Next]_vars => TypeOK'
<1> SUFFICES ASSUME TypeOK, [Next]_vars PROVE TypeOK'
  OBVIOUS
<1> USE DEF TypeOK
<1>1. ASSUME NEW i \in Slots, ble_vcs_discover(i) PROVE TypeOK'
  BY <1>1 DEF ble_vcs_discover
<1>2. ASSUME NEW i \in Slots, headset_leaves(i) PROVE TypeOK'
  <2>1. states' \in [Slots -> Seq(Volumes)]
    BY <1>2, EmptySeq DEF headset_leaves
  <2> QED
    BY <1>2, <2>1 DEF headset_leaves
<1>3. ASSUME NEW i \in Slots, headset_changes(i) PROVE TypeOK'
  <2>1. PICK v \in Volumes : /\ volume' = [volume EXCEPT ![i] = v]
                             /\ states' = [states EXCEPT ![i] = Append(@, v)]
    BY <1>3 DEF headset_changes
  <2>2. states' \in [Slots -> Seq(Volumes)]
    BY <2>1, AppendedState
  <2>3. unsynced' \in BOOLEAN /\ overlap' \in BOOLEAN /\ UNCHANGED <<known, up, write>>
    BY <1>3 DEF headset_changes
  <2> QED
    BY <2>1, <2>2, <2>3
<1>4. ASSUME NEW i \in Slots, vcs_state_cb_handler(i) PROVE TypeOK'
  <2>1. Head(states[i]) \in Volumes /\ Tail(states[i]) \in Seq(Volumes)
    BY <1>4, TakenState DEF vcs_state_cb_handler
  <2>2. states' \in [Slots -> Seq(Volumes)]
    BY <1>4, <2>1 DEF vcs_state_cb_handler
  <2>3. write' \in [Slots -> Volumes \cup {Idle, Answered}] /\ unsynced' \in BOOLEAN
    BY <1>4, <2>1 DEF vcs_state_cb_handler, Passed
  <2> QED
    BY <1>4, <2>2, <2>3 DEF vcs_state_cb_handler
<1>5. ASSUME NEW i \in Slots, headset_writes(i) PROVE TypeOK'
  <2>1. states' \in [Slots -> Seq(Volumes)]
    <3>1. Append(states[i], write[i]) \in Seq(Volumes)
      BY <1>5, AppendedState DEF headset_writes
    <3> QED
      BY <1>5, <3>1 DEF headset_writes
  <2>2. volume' \in [Slots -> Volumes] /\ unsynced' \in BOOLEAN
    BY <1>5 DEF headset_writes
  <2> QED
    BY <1>5, <2>1, <2>2 DEF headset_writes
<1>6. ASSUME NEW i \in Slots, write_done(i) PROVE TypeOK'
  BY <1>6 DEF write_done
<1>7. CASE UNCHANGED vars
  BY <1>7 DEF vars
<1> QED
  BY <1>1, <1>2, <1>3, <1>4, <1>5, <1>6, <1>7 DEF Next, Delivery

\* Types of the volumes and of what is on its way; a slot that is connected has
\* its client peer (ble_audio_services.c 127-137).
THEOREM VolumeTypeCorrect == Spec => []TypeOK
  BY TypeInit, TypeNext, PTL DEF Spec

-----------------------------------------------------------------------------
(* The volume that all headsets come to.                                    *)

LEMMA VolumeInvInit == Init => VolumeInv
<1> SUFFICES ASSUME Init PROVE VolumeInv
  OBVIOUS
<1>1. LastTellsVolume /\ NothingLeftBehind /\ Agreed
  BY DEF Init, LastTellsVolume, NothingLeftBehind, Agreed
<1> QED
  BY <1>1, TypeInit DEF VolumeInv

\* Whatever is appended to the states of a headset is its volume from then on.
LEMMA NotifyTellsVolume ==
  ASSUME TypeOK, LastTellsVolume, NEW i \in Slots, NEW v \in Volumes,
         volume' = [volume EXCEPT ![i] = v],
         states' = [states EXCEPT ![i] = Append(@, v)]
  PROVE  LastTellsVolume' /\ ~Heard'
<1>1. states'[i] = Append(states[i], v) /\ volume'[i] = v /\ states[i] \in Seq(Volumes)
  BY DEF TypeOK
<1>2. states'[i] # <<>> /\ states'[i][Len(states'[i])] = v
  BY <1>1, AppendedState
<1>3. \A j \in Slots : j # i => states'[j] = states[j] /\ volume'[j] = volume[j]
  BY DEF TypeOK
<1> QED
  BY <1>1, <1>2, <1>3 DEF LastTellsVolume, Heard

\* When a state is passed on and none is left, all headsets get its volume, or
\* one was not written and unsynced records it (ble_audio_services.c 207-232).
LEMMA StatePassedOn ==
  ASSUME VolumeInv, NEW i \in Slots, vcs_state_cb_handler(i)
  PROVE  LastTellsVolume' /\ NothingLeftBehind' /\ Agreed'
<1> USE DEF VolumeInv
<1>1. /\ states[i] # <<>> /\ states[i] \in Seq(Volumes)
      /\ states' = [states EXCEPT ![i] = Tail(@)]
      /\ UNCHANGED <<known, up, volume>>
  BY DEF vcs_state_cb_handler, TypeOK
<1>2. /\ states'[i] = Tail(states[i])
      /\ \A j \in Slots : j # i => states'[j] = states[j]
  BY <1>1 DEF TypeOK
<1>3. /\ Head(states[i]) \in Volumes
      /\ states'[i] # <<>> => states'[i][Len(states'[i])] = states[i][Len(states[i])]
      /\ states'[i] = <<>> => Head(states[i]) = states[i][Len(states[i])]
  BY <1>1, <1>2, TakenState
<1>4. LastTellsVolume'
  BY <1>1, <1>2, <1>3 DEF LastTellsVolume
<1>5. i \in up
  BY <1>1 DEF NothingLeftBehind
<1>6. NothingLeftBehind'
  <2>1. \A j \in Slots : j \notin up => write'[j] = write[j]
    BY DEF vcs_state_cb_handler, Writable
  <2> QED
    BY <1>1, <1>2, <1>5, <2>1 DEF NothingLeftBehind
<1>7. Agreed'
  <2> SUFFICES ASSUME Heard', ~unsynced'
               PROVE  \E v \in Volumes : \A j \in up : volume'[j] = v \/ write'[j] = v
    BY <1>1 DEF Agreed, HasOrGets
  <2>1. volume[i] = Head(states[i])
    BY <1>1, <1>3 DEF LastTellsVolume, Heard
  <2>2. /\ \A j \in Others(i) \cap up : Writable(j)
        /\ write' = [j \in Slots |-> IF j \in Others(i) /\ Writable(j)
                                     THEN Passed(Head(states[i])) ELSE write[j]]
    BY DEF vcs_state_cb_handler
  <2>3. ASSUME NEW j \in up
        PROVE  volume'[j] = Head(states[i]) \/ write'[j] = Head(states[i])
    <3>1. CASE j = i
      BY <1>1, <2>1, <3>1
    <3>2. CASE j # i
      <4>1. j \in Slots /\ j \in Others(i)
        BY <3>2 DEF Others, TypeOK
      <4> QED
        BY <2>2, <4>1 DEF Passed
    <3> QED
      BY <3>1, <3>2
  <2> QED
    BY <1>3, <2>3
<1> QED
  BY <1>4, <1>6, <1>7

\* A write that is carried out changes nothing about where the volumes go.
LEMMA WriteCarriedOut ==
  ASSUME VolumeInv, NEW i \in Slots, headset_writes(i)
  PROVE  LastTellsVolume' /\ NothingLeftBehind' /\ Agreed'
<1> USE DEF VolumeInv
<1>1. /\ write[i] \in Volumes /\ write[i] # Idle
      /\ write' = [write EXCEPT ![i] = Answered]
      /\ UNCHANGED <<known, up>>
  BY VolumeAssumption DEF headset_writes, Volumes
<1>2. i \in up
  BY <1>1 DEF NothingLeftBehind
<1>3. CASE UNCHANGED <<volume, states>> /\ unsynced'
  BY <1>1, <1>2, <1>3 DEF LastTellsVolume, NothingLeftBehind, Agreed, TypeOK
<1>4. CASE /\ volume' = [volume EXCEPT ![i] = write[i]] /\ UNCHANGED unsynced
           /\ volume[i] = write[i] /\ UNCHANGED states
  <2>1. volume' = volume
    BY <1>4 DEF TypeOK
  <2>2. \A j \in up, v \in Volumes : HasOrGets(j, v) => HasOrGets(j, v)'
    BY <1>1, <1>4, <2>1 DEF HasOrGets, TypeOK
  <2>3. Heard' => Heard
    BY <1>4 DEF Heard
  <2> QED
    BY <1>1, <1>2, <1>4, <2>1, <2>2, <2>3
       DEF LastTellsVolume, NothingLeftBehind, Agreed, TypeOK
<1>5. CASE /\ volume' = [volume EXCEPT ![i] = write[i]] /\ UNCHANGED unsynced
           /\ states' = [states EXCEPT ![i] = Append(@, write[i])]
  <2>1. LastTellsVolume' /\ ~Heard'
    BY <1>1, <1>5, NotifyTellsVolume
  <2> QED
    BY <1>1, <1>2, <1>5, <2>1 DEF NothingLeftBehind, Agreed, TypeOK
<1> QED
  BY <1>3, <1>4, <1>5 DEF headset_writes

LEMMA VolumeInvNext == VolumeInv /\ [Next]_vars => VolumeInv'
<1> SUFFICES ASSUME VolumeInv, [Next]_vars
             PROVE  LastTellsVolume' /\ NothingLeftBehind' /\ Agreed'
  BY TypeNext DEF VolumeInv
<1>1. ASSUME NEW i \in Slots, ble_vcs_discover(i)
      PROVE  LastTellsVolume' /\ NothingLeftBehind' /\ Agreed'
  BY <1>1 DEF ble_vcs_discover, VolumeInv, TypeOK, LastTellsVolume, NothingLeftBehind, Agreed
<1>2. ASSUME NEW i \in Slots, headset_leaves(i)
      PROVE  LastTellsVolume' /\ NothingLeftBehind' /\ Agreed'
  BY <1>2 DEF headset_leaves, VolumeInv, TypeOK, LastTellsVolume, NothingLeftBehind, Agreed
<1>3. ASSUME NEW i \in Slots, headset_changes(i)
      PROVE  LastTellsVolume' /\ NothingLeftBehind' /\ Agreed'
  <2>1. PICK v \in Volumes : /\ volume' = [volume EXCEPT ![i] = v]
                             /\ states' = [states EXCEPT ![i] = Append(@, v)]
    BY <1>3 DEF headset_changes
  <2>2. LastTellsVolume' /\ ~Heard'
    BY <2>1, NotifyTellsVolume DEF VolumeInv
  <2>3. i \in up /\ UNCHANGED <<up, write>>
    BY <1>3 DEF headset_changes
  <2> QED
    BY <2>1, <2>2, <2>3 DEF VolumeInv, TypeOK, NothingLeftBehind, Agreed
<1>4. ASSUME NEW i \in Slots, write_done(i)
      PROVE  LastTellsVolume' /\ NothingLeftBehind' /\ Agreed'
  <2>1. /\ write[i] = Answered /\ write' = [write EXCEPT ![i] = Idle]
        /\ UNCHANGED <<known, up, volume, states, unsynced>>
    BY <1>4 DEF write_done
  <2>2. \A j \in up, v \in Volumes : HasOrGets(j, v) => HasOrGets(j, v)'
    BY <2>1, VolumeAssumption DEF HasOrGets, VolumeInv, TypeOK, Volumes
  <2> QED
    BY <2>1, <2>2 DEF VolumeInv, TypeOK, LastTellsVolume, NothingLeftBehind, Agreed, Heard
<1>5. CASE UNCHANGED vars
  BY <1>5 DEF vars, VolumeInv, LastTellsVolume, NothingLeftBehind, Agreed, Heard, HasOrGets
<1> QED
  BY <1>1, <1>2, <1>3, <1>4, <1>5, StatePassedOn, WriteCarriedOut DEF Next, Delivery

\* At rest all connected headsets have one volume, in whatever order changes,
\* reports and writes of however many headsets crossed each other, if since a
\* change made at rest nothing went wrong that ble_audio_services.c 211 and 230
\* only log.
THEOREM SameVolumeAlwaysAtRest == Spec => []SameVolumeAtRest
<1>1. VolumeInv => SameVolumeAtRest
  <2> SUFFICES ASSUME VolumeInv, Rest, ~unsynced
               PROVE  \A i, j \in up : volume[i] = volume[j]
    BY DEF SameVolumeAtRest
  <2>1. PICK v \in Volumes : \A i \in up : volume[i] = v \/ write[i] = v
    BY DEF VolumeInv, Agreed, Rest, Heard, HasOrGets
  <2>2. \A i \in up : write[i] = Idle
    BY DEF VolumeInv, TypeOK, Rest
  <2> QED
    BY <2>1, <2>2, VolumeAssumption DEF Volumes
<1> QED
  BY <1>1, VolumeInvInit, VolumeInvNext, PTL DEF Spec
=============================================================================
