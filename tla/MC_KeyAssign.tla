----------------------------- MODULE MC_KeyAssign -----------------------------
EXTENDS KeyAssign

MCNotes == {1, 2, 3}

=============================================================================
