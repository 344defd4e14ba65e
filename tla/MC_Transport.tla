----------------------------- MODULE MC_Transport -----------------------------
EXTENDS Transport, TLC

\* The two headsets.
Stereo == {"LEFT", "RIGHT"}
=============================================================================
