------------------------------ MODULE MCInodes ------------------------------
(***************************************************************************)
(* Inodes for TLC: one direct block, two cells per block, so that a file   *)
(* has one direct, two indirect and four double indirect blocks.           *)
(***************************************************************************)
EXTENDS Inodes, TLC

W(h, start, mem) == [h |-> h, start |-> start, mem |-> mem]
R(h, start, n) == [h |-> h, start |-> start, n |-> n]

\* File 0 reaches each kind of block and crosses the borders between them,
\* leaving holes; file 1 competes for blocks and leaves gaps when it is deleted.
MCWrites ==
  { W(0, 0, <<10>>),          \* short, at the start of the direct block
    W(0, 1, <<10, 11, 11>>),  \* from the direct block into the indirect range
    W(0, 8, <<10, 11, 10>>),  \* from one second-level table into the next one
    W(0, 0, <<11, 11, 10>>),  \* ends inside the first indirect block
    W(1, 0, <<20, 20, 20>>) }

MCReads == {R(0, 1, 2), R(1, 0, 3)}

NameSymmetry == Permutations(Names)
=============================================================================
