------------------------------- MODULE NpzLoad -------------------------------
(***************************************************************************)
(* numpy_npz_conduit_reader                                                *)
(* (src/src/data_readers/data_reader_numpy_npz_conduit.cpp): every rank    *)
(* of a trainer runs load() over the same list of npz files, keeps the     *)
(* samples whose index is its rank modulo np in its data store, collects   *)
(* the label classes of its own samples and checks them; later            *)
(* fetch_datum / fetch_label read a stored sample.                         *)
(*                                                                         *)
(* A line of the list is abstracted to whether it is a usable name (more   *)
(* than two characters) and the npz file it names: its label, the first   *)
(* word of its data array and the word sizes of its data and labels.       *)
(***************************************************************************)
EXTENDS Integers, Sequences, SequencesExt, FiniteSets

CONSTANTS
  NP,          \* m_comm->get_procs_per_trainer()
  HasLabels,   \* m_has_labels
  HasResponses,\* m_has_responses
  LineLists    \* possible contents of the list file

Ranks == 0 .. NP - 1

(* One line of the list file and the npz file it names.                    *)
Line == [usable : BOOLEAN, label : Nat, first : Nat, word : Nat, labelWord : Nat]

ASSUME /\ NP \in Nat \ {0} /\ HasLabels \in BOOLEAN /\ HasResponses \in BOOLEAN
       /\ LineLists \subseteq Seq(Line)

VARIABLES
  lines,      \* the list file
  pc,         \* [Ranks -> "load" | "ready" | "error"]
  pos,        \* [Ranks -> lines read so far]
  numSamples, \* [Ranks -> m_num_samples]
  first,      \* [Ranks -> the local 'first']
  wordSize,   \* [Ranks -> m_data_word_size (0 before it is set)]
  classes,    \* [Ranks -> label_classes]
  store,      \* [Ranks -> the data store: sample index -> line]
  numLabels,  \* [Ranks -> m_num_labels]
  fetched     \* the last fetch: [kind, rank, id, value, crash]

vars == <<lines, pc, pos, numSamples, first, wordSize, classes, store, numLabels,
          fetched>>

-----------------------------------------------------------------------------
(* if (m_num_samples % np == rank)                                         *)
Owns(r, n) == n % NP = r

(* Mutant: ++m_num_samples inside the ownership test.                      *)
CountedOwnedOnly(l, mine) == mine
(* ++m_num_samples for every usable name, owned or not.                    *)
Counted(l, mine) == l.usable

(* Mutant: the sample stored under its index after ++m_num_samples.       *)
StoreSampleAfterCount(st, n, l) == st @@ ((n + 1) :> l)
(* m_data_store->set_conduit_node(m_num_samples, node)                     *)
StoreSample(st, n, l) == st @@ (n :> l)

(* The checks made on the first sample a rank loads (lines 119-131).       *)
FirstSampleOk(l) ==
  /\ l.word \in {2, 4, 8}
  /\ HasLabels => l.labelWord = 4

(* The sanity checks of lines 151-158 on a rank's label classes.  On an    *)
(* empty set minmax_element returns end() and dereferencing it is          *)
(* undefined: either outcome is possible.                                  *)
ClassChecks(cs) ==
  IF cs = {} THEN {TRUE, FALSE}
  ELSE {Min(cs) = 0 /\ Max(cs) = Cardinality(cs) - 1}

Init ==
  /\ lines \in LineLists
  /\ pc = [r \in Ranks |-> "load"]
  /\ pos = [r \in Ranks |-> 0]
  /\ numSamples = [r \in Ranks |-> 0]
  /\ first = [r \in Ranks |-> TRUE]
  /\ wordSize = [r \in Ranks |-> 0]
  /\ classes = [r \in Ranks |-> {}]
  /\ store = [r \in Ranks |-> << >>]
  /\ numLabels = [r \in Ranks |-> 0]
  /\ fetched = [kind |-> "none", rank |-> 0, id |-> 0, value |-> 0, crash |-> FALSE]

(* One iteration of load()'s getline loop (lines 105-144): skip a short    *)
(* name; otherwise, when the sample is this rank's, load it (checking the  *)
(* word sizes on the first one), add its label and store it; count it.    *)
LoadLine(r) ==
  /\ pc[r] = "load"
  /\ pos[r] < Len(lines)
  /\ LET l == lines[pos[r] + 1]
         n == numSamples[r]
         mine == l.usable /\ Owns(r, n)
     IN  /\ pos' = [pos EXCEPT ![r] = @ + 1]
         /\ IF mine /\ first[r] /\ ~FirstSampleOk(l)
            THEN /\ pc' = [pc EXCEPT ![r] = "error"]
                 /\ UNCHANGED <<numSamples, first, wordSize, classes, store>>
            ELSE /\ first' = [first EXCEPT ![r] = @ /\ ~mine]
                 /\ wordSize' = [wordSize EXCEPT ![r] = IF mine /\ first[r] THEN l.word ELSE @]
                 /\ classes' = [classes EXCEPT ![r] =
                                  IF mine /\ HasLabels THEN @ \cup {l.label} ELSE @]
                 /\ store' = [store EXCEPT ![r] = IF mine THEN StoreSample(@, n, l) ELSE @]
                 /\ numSamples' = [numSamples EXCEPT ![r] = IF Counted(l, mine) THEN @ + 1 ELSE @]
                 /\ UNCHANGED pc
  /\ UNCHANGED <<lines, numLabels, fetched>>

(* The end of load() (lines 145-180): with labels, m_num_labels is the     *)
(* number of this rank's classes, and the sanity checks may fail.  The    *)
(* classes are not all-reduced (the TODO at line 147).                     *)
FinishLoad(r) ==
  /\ pc[r] = "load"
  /\ pos[r] = Len(lines)
  /\ IF HasLabels
     THEN \E ok \in ClassChecks(classes[r]) :
            /\ numLabels' = [numLabels EXCEPT ![r] = Cardinality(classes[r])]
            /\ pc' = [pc EXCEPT ![r] = IF ok THEN "ready" ELSE "error"]
     ELSE /\ pc' = [pc EXCEPT ![r] = "ready"]
          /\ UNCHANGED numLabels
  /\ UNCHANGED <<lines, pos, numSamples, first, wordSize, classes, store, fetched>>

(* fetch_label(Y, data_id, mb_idx) (lines 212-222) for a sample in the     *)
(* rank's store: LBANN_ERROR without labels; the label is read from the    *)
(* "/data/data" array, i.e. the first word of the sample's data.           *)
FetchLabel(r, id) ==
  /\ pc[r] = "ready"
  /\ id \in DOMAIN store[r]
  /\ fetched' = [kind |-> "label", rank |-> r, id |-> id,
                 value |-> store[r][id].first, crash |-> ~HasLabels]
  /\ UNCHANGED <<lines, pc, pos, numSamples, first, wordSize, classes, store, numLabels>>

(* fetch_datum(X, data_id, mb_idx) (lines 183-210): int16 data is scaled   *)
(* into X; for 4- and 8-byte words the pointers declared in the if-blocks  *)
(* shadow 'data', which stays NULL, and memcpy reads from address 0.      *)
FetchDatum(r, id) ==
  /\ pc[r] = "ready"
  /\ id \in DOMAIN store[r]
  /\ fetched' = [kind |-> "datum", rank |-> r, id |-> id,
                 value |-> store[r][id].first, crash |-> wordSize[r] # 2]
  /\ UNCHANGED <<lines, pc, pos, numSamples, first, wordSize, classes, store, numLabels>>

(* fetch_response(Y, data_id, mb_idx) (lines 223-243): LBANN_ERROR without *)
(* responses; with them it returns true and leaves Y as it was (the copy   *)
(* is compiled out), delivered here as value 0.                            *)
FetchResponse(r, id) ==
  /\ pc[r] = "ready"
  /\ id \in DOMAIN store[r]
  /\ fetched' = [kind |-> "response", rank |-> r, id |-> id,
                 value |-> 0, crash |-> ~HasResponses]
  /\ UNCHANGED <<lines, pc, pos, numSamples, first, wordSize, classes, store, numLabels>>

(* Every rank has finished load(), or failed with LBANN_ERROR.             *)
Loaded ==
  /\ \A r \in Ranks : pc[r] \in {"ready", "error"}
  /\ UNCHANGED vars

Next ==
  \/ \E r \in Ranks : LoadLine(r) \/ FinishLoad(r)
  \/ \E r \in Ranks, id \in 0 .. Len(lines) : FetchLabel(r, id) \/ FetchDatum(r, id)
                                          \/ FetchResponse(r, id)
  \/ Loaded

Spec == Init /\ [][Next]_vars

-----------------------------------------------------------------------------
(***************************************************************************)
(* Properties                                                              *)
(***************************************************************************)
TypeOK ==
  /\ lines \in LineLists
  /\ pc \in [Ranks -> {"load", "ready", "error"}]
  /\ pos \in [Ranks -> 0 .. Len(lines)]
  /\ numSamples \in [Ranks -> 0 .. Len(lines)]
  /\ first \in [Ranks -> BOOLEAN]
  /\ \A r \in Ranks : DOMAIN store[r] \subseteq 0 .. numSamples[r] - 1
  /\ \A r \in Ranks : classes[r] \subseteq {l.label : l \in Range(lines)}

(* The usable lines, in order: sample index k is Usable[k + 1].            *)
Usable == SelectSeq(lines, LAMBDA l : l.usable)

(* Once every rank has read the whole list, the ranks' data stores         *)
(* partition the samples: each usable line is stored under its sample     *)
(* index by exactly one rank, and every rank counted the same samples.    *)
StoresPartitionSamples ==
  (\A r \in Ranks : pos[r] = Len(lines) /\ pc[r] # "error") =>
    /\ \A r \in Ranks : numSamples[r] = Len(Usable)
    /\ \A k \in 0 .. Len(Usable) - 1 :
         \E r \in Ranks : /\ k \in DOMAIN store[r]
                          /\ store[r][k] = Usable[k + 1]
                          /\ \A q \in Ranks \ {r} : k \notin DOMAIN store[q]

=============================================================================
