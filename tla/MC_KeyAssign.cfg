\* One caller, the encoder thread.
SPECIFICATION Spec
CONSTANTS
  MAX_NOTES = 4
  Callers = {encoder}
  Notes <- MCNotes
INVARIANTS
  NoKeyLost
  HeldKeysFirst
  VoiceFollowsKey
PROPERTY
  ImplementsPolicy
