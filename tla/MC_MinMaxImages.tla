-------------------------- MODULE MC_MinMaxImages --------------------------
(* Model-checking instance of MinMaxImages: two image views, pixel values  *)
(* below zero, zero and above FLT_MIN, and files of a few kinds of samples.*)
EXTENDS MinMaxImages

MC_Vals == {-2, 0, 3}

\* A successful sample with a bright and a dark view.
S_Bright == [flag |-> "success", img |-> <<3, 0>>, bad |-> {}]
\* A successful sample whose pixels are all below zero.
S_Dark == [flag |-> "success", img |-> <<-2, -2>>, bad |-> {}]
\* A successful sample whose second image cannot be read.
S_Partial == [flag |-> "success", img |-> <<-2, 3>>, bad |-> {2}]
\* A sample whose success flag cannot be read, and a failed simulation.
S_NoFlag == [flag |-> "unreadable", img |-> <<3, 3>>, bad |-> {}]
S_Failed == [flag |-> "failed", img |-> <<3, 3>>, bad |-> {}]

Bad(status) == [status |-> status, samples |-> <<>>]
Ok(samples) == [status |-> "ok", samples |-> samples]

MC_Files == {Bad("noopen"), Bad("nolist"), Ok(<<S_Bright>>),
             Ok(<<S_Dark, S_Partial>>), Ok(<<S_NoFlag, S_Failed, S_Bright>>)}

\* Lists of three files from MC_Files.
MC_FileLists == [1 .. 3 -> MC_Files]

MC_EnvOk == {[args |-> TRUE, mkdir |-> TRUE, list |-> TRUE]}
MC_EnvAny == [args : BOOLEAN, mkdir : BOOLEAN, list : BOOLEAN]
MC_EnvNoArgs == {[args |-> FALSE, mkdir |-> TRUE, list |-> TRUE]}
=============================================================================
