------------------------------ MODULE MC_Button ------------------------------
EXTENDS Button, TLC

\* The buttons are interchangeable: no handler compares their indices.
ButtonSymmetry == Permutations(Buttons)
=============================================================================
