------------------------------ MODULE MCParams ------------------------------
(* Two parameters and the format version in three lines of five cells: the *)
(* second record begins in one line and ends in the next.                  *)
EXTENDS Params

MCData == 0 .. 9

\* A FRAM that was never written.
Blank == [c \in Cells |-> 0]
OnlyBlank == {Blank}

=============================================================================
