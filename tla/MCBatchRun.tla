----------------------------- MODULE MCBatchRun -----------------------------
(* Two workers over two containers.  An earlier batch that was killed may    *)
(* have left a container, stopped, with its last project in it.              *)
EXTENDS BatchRun, TLC

CONSTANTS w1, w2, Old

MCWorker == {w1, w2}
MCSymmetry == Permutations(MCWorker)
MCClient == MCWorker \cup {Main}
MCContainer == {"v-0", "v-1"}
MCNames == <<"v-0", "v-1">>
MCAlike == [c \in MCContainer |-> {c}]
MCManifest == ((1..NumJobs) \X (1..MaxRevs)) \cup {Old}
MCLeftovers == {Gone, [status |-> "stopped", dir |-> TRUE, tree |-> {Old}, orphans |-> {}]}

-----------------------------------------------------------------------------
(* More than ten workers: the filter name=v-1 also lists v-10.  The instance *)
(* keeps these two containers, which an earlier batch may have left running. *)
PrefixContainer == {"v-1", "v-10"}
PrefixNames == <<"v-1", "v-10">>
PrefixAlike == [c \in PrefixContainer |-> IF c = "v-1" THEN {"v-1", "v-10"} ELSE {"v-10"}]
PrefixLeftovers == {Gone, Fresh}

NoLeftovers == {Gone}

=============================================================================
