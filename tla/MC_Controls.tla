----------------------------- MODULE MC_Controls -----------------------------
EXTENDS Controls

\* Two buttons with notes of their own.
TwoKeys == [b \in Buttons |-> IF b = 1 THEN 37 ELSE 54]
=============================================================================
