-------------------------------- MODULE Volume --------------------------------
(***************************************************************************)
(* ble_audio_services.c as the client of the volume services of the         *)
(* headsets: when one reports a new volume, the gateway writes it to every  *)
(* other.  The headsets and the VCS library are external: a library         *)
(* instance makes one write at a time, a headset notifies what changed, and *)
(* what is on its way is lost with the link.                                *)
(***************************************************************************)
EXTENDS Integers, FiniteSets, SequencesExt

CONSTANTS CONFIG_BT_MAX_CONN,
          VOLUMES,            \* the values of a uint8_t volume
          Idle, Answered,     \* no write, a write that is carried out
          CHANGES_BOUND       \* how many changes may be on their way

ASSUME VolumeAssumption ==
  /\ CONFIG_BT_MAX_CONN \in Nat \ {0}
  /\ VOLUMES \in Nat \ {0}
  /\ CHANGES_BOUND \in Nat \ {0}
  /\ Idle # Answered /\ {Idle, Answered} \cap (0 .. VOLUMES - 1) = {}

VARIABLES
  known,      \* the slots with a volume_control_service_client_peer
  up,         \* the slots whose headset is connected
  volume,     \* the volume of the headset of each slot
  states,     \* the volume states it notified, on their way to the gateway
  write,      \* the volume its library instance writes; Answered; or Idle
  unsynced,   \* history: since the last change made at rest, a write was
              \* refused, a state came with an error, or a headset came or went
  overlap     \* history: since the last rest, a change met another on its way

vars == <<known, up, volume, states, write, unsynced, overlap>>

Volumes == 0 .. VOLUMES - 1
Slots == 0 .. CONFIG_BT_MAX_CONN - 1

\* The states and writes that are on their way.
Moving ==
  FoldFunction(LAMBDA s, n : Len(s) + n, Cardinality({i \in Slots : write[i] # Idle}), states)

\* Nothing is on its way.
Rest == \A i \in Slots : states[i] = <<>> /\ write[i] = Idle

Init ==
  /\ known = {} /\ up = {}
  /\ volume \in [Slots -> Volumes]
  /\ states = [i \in Slots |-> <<>>]
  /\ write = [i \in Slots |-> Idle]
  /\ unsynced = TRUE /\ overlap = FALSE

-----------------------------------------------------------------------------
\* ble_vcs_discover, for the headset that has come to a slot, with a volume of
\* its own; the peer stays when the headset goes.
ble_vcs_discover(i) ==
  /\ i \notin up
  /\ known' = known \cup {i} /\ up' = up \cup {i}
  /\ \E v \in Volumes : volume' = [volume EXCEPT ![i] = v]
  /\ unsynced' = TRUE
  /\ UNCHANGED <<states, write, overlap>>

headset_leaves(i) ==
  /\ i \in up
  /\ up' = up \ {i}
  /\ states' = [states EXCEPT ![i] = <<>>]
  /\ write' = [write EXCEPT ![i] = Idle]
  /\ unsynced' = TRUE
  /\ UNCHANGED <<known, volume, overlap>>

\* Somebody sets the volume of a headset, or mutes it: then its state changes
\* and the volume does not.
headset_changes(i) ==
  /\ i \in up /\ Moving < CHANGES_BOUND
  /\ \E v \in Volumes : /\ volume' = [volume EXCEPT ![i] = v]
                        /\ states' = [states EXCEPT ![i] = Append(@, v)]
  /\ unsynced' = (~Rest /\ unsynced)
  /\ overlap' = (~Rest)
  /\ UNCHANGED <<known, up, write>>

-----------------------------------------------------------------------------
\* The slots a state from slot i is passed on to.
Others_Inverted(i) == known \cap {i}
Others(i) == known \ {i}

Passed_Stepped(v) == (v + 1) % VOLUMES
Passed(v) == v

\* bt_vcs_vol_set refuses a headset that is gone, or an instance that is busy;
\* that is only logged.
Writable(i) == i \in up /\ write[i] = Idle

\* A state that comes with an error is only logged.
vcs_state_cb_handler(i) ==
  /\ states[i] # <<>>
  /\ states' = [states EXCEPT ![i] = Tail(@)]
  /\ \/ /\ write' = [j \in Slots |->
                        IF j \in Others(i) /\ Writable(j) THEN Passed(Head(states[i]))
                        ELSE write[j]]
        /\ unsynced' = (unsynced \/ \E j \in Others(i) \cap up : ~Writable(j))
     \/ /\ unsynced' = TRUE
        /\ UNCHANGED write
  /\ UNCHANGED <<known, up, volume, overlap>>

\* The headset carries a write out and notifies if that changed its volume; or
\* refuses it, when it has changed since the client heard of it.
headset_writes(i) ==
  /\ write[i] \in Volumes
  /\ \/ /\ volume' = [volume EXCEPT ![i] = write[i]]
        /\ states' = IF volume[i] = write[i] THEN states
                     ELSE [states EXCEPT ![i] = Append(@, write[i])]
        /\ UNCHANGED unsynced
     \/ /\ states[i] # <<>>
        /\ unsynced' = TRUE /\ UNCHANGED <<volume, states>>
  /\ write' = [write EXCEPT ![i] = Answered]
  /\ UNCHANGED <<known, up, overlap>>

write_done(i) ==
  /\ write[i] = Answered
  /\ write' = [write EXCEPT ![i] = Idle]
  /\ UNCHANGED <<known, up, volume, states, unsynced, overlap>>

Delivery(i) == vcs_state_cb_handler(i) \/ headset_writes(i) \/ write_done(i)

Next ==
  \E i \in Slots :
    \/ ble_vcs_discover(i) \/ headset_leaves(i) \/ headset_changes(i)
    \/ Delivery(i)

\* What is on its way arrives while the link stays.
Fairness ==
  \A i \in Slots : /\ WF_vars(vcs_state_cb_handler(i))
                   /\ WF_vars(headset_writes(i)) /\ WF_vars(write_done(i))

Spec == Init /\ [][Next]_vars /\ Fairness

-----------------------------------------------------------------------------
\* Types of the variables.
TypeOK ==
  /\ known \subseteq Slots /\ up \subseteq known
  /\ volume \in [Slots -> Volumes]
  /\ states \in [Slots -> Seq(Volumes)]
  /\ write \in [Slots -> Volumes \cup {Idle, Answered}]
  /\ unsynced \in BOOLEAN /\ overlap \in BOOLEAN

\* With nothing on its way all connected headsets have the same volume, whatever
\* changes crossed each other, if they stayed and the library refused no write
\* nor reported an error (only logged, ble_audio_services.c 211 and 230) since a
\* change made at rest.
SameVolumeAtRest ==
  Rest /\ ~unsynced => \A i, j \in up : volume[i] = volume[j]

\* A write of the gateway, which the headset reports like any other change, is
\* not answered by ever more writes: with no headset coming or going, volumes
\* come to rest again unless a change crosses another on its way, and then two
\* headsets can swap them for ever.
Settles == <>[][FALSE]_up => []<>(Rest \/ overlap)
=============================================================================
