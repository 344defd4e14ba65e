------------------------------- MODULE LossyFifo -------------------------------
(***************************************************************************)
(* What the receive buffer promises, without its slab and pointers: a line  *)
(* of frames in the order they came, which drops its oldest rather than     *)
(* refuse a new one, and hands each frame to its reader once.               *)
(***************************************************************************)
EXTENDS Integers, Sequences

CONSTANTS Frames, Nothing, CAPACITY

VARIABLES line,       \* the frames that wait
          current     \* the frame the reader has, or Nothing

Init == line = <<>> /\ current = Nothing

Room == CAPACITY - (IF current = Nothing THEN 0 ELSE 1)

Put(frame) ==
  /\ line' = Append(IF Len(line) >= Room THEN Tail(line) ELSE line, frame)
  /\ UNCHANGED current

Take ==
  /\ line # <<>> /\ current = Nothing
  /\ current' = Head(line) /\ line' = Tail(line)

Done == current # Nothing /\ current' = Nothing /\ UNCHANGED line

Next == (\E frame \in Frames : Put(frame)) \/ Take \/ Done

Spec == Init /\ [][Next]_<<line, current>>
=============================================================================
