SPECIFICATION Spec
CONSTANTS
  MAX_NOTES = 3
  Notes <- FourNotes
  DIVIDER = 2
INVARIANTS
  IndexInRange
  NotesArePressed
  OnlyCurrentSounds
  RestartIsPrompt
PROPERTIES
  VoicesTakeTurns
  ImplementsPolicy
  FallsSilent
  HeldNotesRecur
