---------------------------- MODULE MinMaxImages ----------------------------
(***************************************************************************)
(* The compute_min_max_images tool                                         *)
(* (src/model_zoo/jag_utils/compute_min_max_images.cpp): NP MPI ranks;     *)
(* the master checks its arguments, creates the output directory and      *)
(* reads the file list, broadcasts it; every rank scans the files          *)
(* j = rank, rank + NP, ... and folds the emission images of every         *)
(* successful sample into its running per-view minimum and maximum; the   *)
(* ranks then MPI_Reduce (MIN and MAX) to the master.                      *)
(*                                                                         *)
(* An image view stands for its 4 channels (the code's 12 slots are 3      *)
(* views x 4 channels treated alike).  Float values are integers with      *)
(* FltMin the smallest positive float and FltMax the largest.             *)
(***************************************************************************)
EXTENDS Integers, Sequences, SequencesExt, FiniteSets

CONSTANTS
  NP,          \* comm->get_procs_in_world()
  NumViews,    \* images per sample: (0,0), (90,0), (90,78)
  Vals,        \* pixel values an image may hold
  FileLists,   \* possible contents of the files named by the file list
  EnvChoices   \* possible outcomes of the master's setup checks

Ranks == 0 .. NP - 1
Master == 0
Views == 1 .. NumViews
FltMin == 1
FltMax == 100

ASSUME /\ NP \in Nat \ {0} /\ NumViews \in Nat \ {0}
       /\ Vals \subseteq -FltMax .. FltMax
       \* FLT_MIN is the smallest positive float: no value lies in (0, FLT_MIN].
       /\ \A v \in Vals : v <= 0 \/ v > FltMin
       /\ EnvChoices \subseteq [args : BOOLEAN, mkdir : BOOLEAN, list : BOOLEAN]

(* A sample: its performance/success flag ("unreadable" when the read      *)
(* throws, "success" for 1), its images, and the views whose hdf5_read     *)
(* throws.                                                                 *)
Sample == [flag : {"unreadable", "failed", "success"}, img : [Views -> Vals],
           bad : SUBSET Views]
(* A file: whether hdf5_open_file_for_read and                           *)
(* hdf5_group_list_child_names succeed, and its samples in child-name     *)
(* order.                                                                  *)
File == [status : {"noopen", "nolist", "ok"}, samples : Seq(Sample)]

VARIABLES
  env,       \* outcomes of the master's argument, mkdir and file-list checks
  disk,      \* the files of the list, in list order
  pc,        \* [Ranks -> control point]
  sent,      \* the master has broadcast the file list
  j,         \* [Ranks -> index of the next file (0-based)]
  cnames,    \* [Ranks -> samples of the open file]
  i,         \* [Ranks -> index of the next sample in cnames]
  vmin,      \* [Ranks -> [Views -> v_min]]
  vmax,      \* [Ranks -> [Views -> v_max]]
  numSamples,\* [Ranks -> num_samples]
  contrib,   \* ranks whose MPI_Reduce contribution is posted
  gmin,      \* global_v_min at the master
  gmax       \* global_v_max at the master

vars == <<env, disk, pc, sent, j, cnames, i, vmin, vmax, numSamples, contrib,
          gmin, gmax>>

-----------------------------------------------------------------------------
(* The three try blocks of one successful sample: fold image v into the    *)
(* running range, in view order; the first image that fails to read ends  *)
(* the sample ("continue") after the views before it were folded.  The    *)
(* sample counts only when every image was read.                           *)
FirstFail(s) == IF s.bad = {} THEN NumViews + 1 ELSE Min(s.bad)

Folded(s) == IF s.flag = "success" THEN 1 .. FirstFail(s) - 1 ELSE {}

LowerOf(a, b) == IF b < a THEN b ELSE a
HigherOf(a, b) == IF b > a THEN b ELSE a

(* acc is [min, max, n]: v_min, v_max and num_samples of one rank.         *)
FoldSample(acc, s) ==
  [min |-> [v \in Views |-> IF v \in Folded(s) THEN LowerOf(acc.min[v], s.img[v]) ELSE acc.min[v]],
   max |-> [v \in Views |-> IF v \in Folded(s) THEN HigherOf(acc.max[v], s.img[v]) ELSE acc.max[v]],
   n   |-> IF s.flag = "success" /\ FirstFail(s) > NumViews THEN acc.n + 1 ELSE acc.n]

(* std::vector<float> v_max(12, FLT_MIN), v_min(12, FLT_MAX).              *)
InitMax == [v \in Views |-> FltMin]
InitMin == [v \in Views |-> FltMax]

(* Mutant: files scanned from rank + 1.                                    *)
FirstFileShifted(r) == r + 1
(* for (size_t j = rank; j < files.size(); j += np)                        *)
FirstFile(r) == r
NextFile(x) == x + NP

(* Mutant: the MAX reduction given the v_min buffer (line 234 copied).     *)
ReduceMaxWrongBuffer(f) == [v \in Views |-> Max({vmin[r][v] : r \in Ranks})]
ReduceMax(f) == [v \in Views |-> Max({f[r][v] : r \in Ranks})]
ReduceMin(f) == [v \in Views |-> Min({f[r][v] : r \in Ranks})]

-----------------------------------------------------------------------------
Init ==
  /\ env \in EnvChoices
  /\ disk \in FileLists
  /\ pc = [r \in Ranks |-> "setup"]
  /\ sent = FALSE
  /\ j = [r \in Ranks |-> FirstFile(r)]
  /\ cnames = [r \in Ranks |-> <<>>]
  /\ i = [r \in Ranks |-> 0]
  /\ vmin = [r \in Ranks |-> InitMin]
  /\ vmax = [r \in Ranks |-> InitMax]
  /\ numSamples = [r \in Ranks |-> 0]
  /\ contrib = {}
  /\ gmin = [v \in Views |-> FltMax]
  /\ gmax = [v \in Views |-> FltMin]

(* Lines 69-109.  Only the master throws on missing arguments, a failed    *)
(* mkdir or an unreadable file list (the exception ends its main with     *)
(* EXIT_FAILURE); every other rank goes on to the broadcast.               *)
Setup(r) ==
  /\ pc[r] = "setup"
  /\ pc' = [pc EXCEPT ![r] =
              IF r = Master /\ ~(env.args /\ env.mkdir /\ env.list)
              THEN "failed" ELSE "bcast"]
  /\ UNCHANGED <<env, disk, sent, j, cnames, i, vmin, vmax, numSamples, contrib,
                 gmin, gmax>>

(* The two world_broadcasts of the file list from the master (lines        *)
(* 110-112): the root sends and goes on, the others block until it has.   *)
Broadcast(r) ==
  /\ pc[r] = "bcast"
  /\ r = Master \/ sent
  /\ sent' = TRUE
  /\ pc' = [pc EXCEPT ![r] = "files"]
  /\ UNCHANGED <<env, disk, j, cnames, i, vmin, vmax, numSamples, contrib,
                 gmin, gmax>>

(* Mutant: a skipped file does not advance j.                              *)
OpenFileNoAdvance(r) ==
  /\ pc[r] = "files"
  /\ IF j[r] >= Len(disk)
     THEN /\ pc' = [pc EXCEPT ![r] = "reduce"]
          /\ UNCHANGED <<j, cnames, i>>
     ELSE LET f == disk[j[r] + 1]
          IN  IF f.status # "ok"
              THEN UNCHANGED <<pc, j, cnames, i>>
              ELSE /\ cnames' = [cnames EXCEPT ![r] = f.samples]
                   /\ i' = [i EXCEPT ![r] = 0]
                   /\ pc' = [pc EXCEPT ![r] = "samples"]
                   /\ UNCHANGED j
  /\ UNCHANGED <<env, disk, sent, vmin, vmax, numSamples, contrib, gmin, gmax>>

(* One iteration of the file loop (lines 138-157): leave it when j is past *)
(* the list; skip the file when it cannot be opened or listed; otherwise   *)
(* start on its samples.                                                   *)
OpenFile(r) ==
  /\ pc[r] = "files"
  /\ IF j[r] >= Len(disk)
     THEN /\ pc' = [pc EXCEPT ![r] = "reduce"]
          /\ UNCHANGED <<j, cnames, i>>
     ELSE LET f == disk[j[r] + 1]
          IN  IF f.status # "ok"
              THEN /\ j' = [j EXCEPT ![r] = NextFile(@)]
                   /\ UNCHANGED <<pc, cnames, i>>
              ELSE /\ cnames' = [cnames EXCEPT ![r] = f.samples]
                   /\ i' = [i EXCEPT ![r] = 0]
                   /\ pc' = [pc EXCEPT ![r] = "samples"]
                   /\ UNCHANGED j
  /\ UNCHANGED <<env, disk, sent, vmin, vmax, numSamples, contrib, gmin, gmax>>

(* One iteration of the sample loop (lines 158-227), or its exit to the    *)
(* next file (the handle is never closed).                                 *)
ReadSample(r) ==
  /\ pc[r] = "samples"
  /\ IF i[r] < Len(cnames[r])
     THEN LET acc == FoldSample([min |-> vmin[r], max |-> vmax[r], n |-> numSamples[r]],
                                cnames[r][i[r] + 1])
          IN  /\ vmin' = [vmin EXCEPT ![r] = acc.min]
              /\ vmax' = [vmax EXCEPT ![r] = acc.max]
              /\ numSamples' = [numSamples EXCEPT ![r] = acc.n]
              /\ i' = [i EXCEPT ![r] = @ + 1]
              /\ UNCHANGED <<pc, j>>
     ELSE /\ j' = [j EXCEPT ![r] = NextFile(@)]
          /\ pc' = [pc EXCEPT ![r] = "files"]
          /\ UNCHANGED <<i, vmin, vmax, numSamples>>
  /\ UNCHANGED <<env, disk, sent, cnames, contrib, gmin, gmax>>

(* The two MPI_Reduce calls (lines 232-235): a non-root rank posts its     *)
(* contribution and returns; the root returns once every rank's is there, *)
(* with the element-wise MIN and MAX.                                      *)
Reduce(r) ==
  /\ pc[r] = "reduce"
  /\ r = Master => Ranks \ {Master} \subseteq contrib
  /\ contrib' = contrib \cup {r}
  /\ IF r = Master
     THEN /\ gmin' = ReduceMin(vmin)
          /\ gmax' = ReduceMax(vmax)
     ELSE UNCHANGED <<gmin, gmax>>
  /\ pc' = [pc EXCEPT ![r] = "done"]
  /\ UNCHANGED <<env, disk, sent, j, cnames, i, vmin, vmax, numSamples>>

(* Every rank has returned from main.                                      *)
Finished ==
  /\ \A r \in Ranks : pc[r] \in {"done", "failed"}
  /\ UNCHANGED vars

Rank(r) == Setup(r) \/ Broadcast(r) \/ OpenFile(r) \/ ReadSample(r) \/ Reduce(r)

Next == (\E r \in Ranks : Rank(r)) \/ Finished

Spec == Init /\ [][Next]_vars

(* Every rank is its own process and is scheduled by the OS: each is       *)
(* weakly fair.                                                            *)
FairSpec == Spec /\ \A r \in Ranks : WF_vars(Rank(r))

-----------------------------------------------------------------------------
(***************************************************************************)
(* Properties                                                              *)
(***************************************************************************)
TypeOK ==
  /\ env \in EnvChoices
  /\ disk \in Seq(File)
  /\ pc \in [Ranks -> {"setup", "bcast", "files", "samples", "reduce", "done", "failed"}]
  /\ sent \in BOOLEAN
  /\ j \in [Ranks -> Nat]
  /\ cnames \in [Ranks -> Seq(Sample)]
  /\ i \in [Ranks -> Nat]
  /\ vmin \in [Ranks -> [Views -> Vals \cup {FltMax}]]
  /\ vmax \in [Ranks -> [Views -> Vals \cup {FltMin}]]
  /\ numSamples \in [Ranks -> Nat]
  /\ contrib \subseteq Ranks
  /\ gmin \in [Views -> Vals \cup {FltMax}]
  /\ gmax \in [Views -> Vals \cup {FltMin}]

(* The samples of every file that opens and lists, in list order.          *)
AllSamples ==
  FoldLeft(LAMBDA acc, f : IF f.status = "ok" THEN acc \o f.samples ELSE acc,
           <<>>, disk)

(* The same loop body run by one process over the whole list.              *)
SequentialScan ==
  FoldLeft(FoldSample, [min |-> InitMin, max |-> InitMax, n |-> 0], AllSamples)

(* Splitting the list round-robin over the ranks and reducing with MIN and *)
(* MAX gives the master the range one process scanning every file would   *)
(* compute, and every successful sample is counted by exactly one rank:   *)
(* the stride j += np, the start j = rank and the reduction operators     *)
(* together partition the work.                                            *)
ScanCoversEveryFileOnce ==
  pc[Master] = "done" =>
    /\ gmin = SequentialScan.min
    /\ gmax = SequentialScan.max
    /\ FoldFunction(+, 0, numSamples) = SequentialScan.n

(* Every rank returns from main: no rank waits forever in a collective.    *)
AllRanksReturn == <>(\A r \in Ranks : pc[r] \in {"done", "failed"})

=============================================================================
