------------------------------ MODULE MCFiles -------------------------------
(***************************************************************************)
(* Files for TLC: seeks backwards and forwards, counts on both sides of 0, *)
(* and names that only differ from each other.                             *)
(***************************************************************************)
EXTENDS Files, TLC

MCOffsets == {-1, 2}

MCCounts == {-2, -1, 0, 1, 3}

NameSymmetry == Permutations(Names)

\* What a closed descriptor still holds is never looked at; ret is only what
\* the properties of steps look at.
Seen == <<fname, size, extent, [h \in Fds |-> IF fd[h].inuse THEN fd[h] ELSE ClosedFd]>>
=============================================================================
