----------------------------- MODULE MC_Arpeggio -----------------------------
EXTENDS Arpeggio

\* More notes than entries: a fourth button makes arpeggio_note_add drop one.
FourNotes == {1, 2, 3, 4}
=============================================================================
