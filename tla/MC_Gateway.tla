----------------------------- MODULE MC_Gateway -----------------------------
EXTENDS Gateway, TLC

\* Any headset takes the first free slot: they are interchangeable.
HeadsetSymmetry == Permutations(Headsets)
=============================================================================
