----------------------------- MODULE MC_NpzLoad -----------------------------
(* Model-checking instance of NpzLoad: lists of three lines.               *)
EXTENDS NpzLoad

L(usable, label, word) ==
  [usable |-> usable, label |-> label, first |-> 7, word |-> word, labelWord |-> 4]

\* A short line, int16 samples of classes 0 and 1, a float32 sample of
\* class 1 and a sample whose data word size is not supported.
MC_Lines == {L(FALSE, 0, 2), L(TRUE, 0, 2), L(TRUE, 1, 2), L(TRUE, 1, 4),
             L(TRUE, 0, 3)}

MC_LineLists == [1 .. 3 -> MC_Lines]

\* Two int16 samples of classes 0 and 1: each rank of two sees one class.
MC_TwoClasses == {<<L(TRUE, 0, 2), L(TRUE, 1, 2)>>}

=============================================================================
