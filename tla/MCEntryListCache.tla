-------------------------- MODULE MCEntryListCache --------------------------
(* Instances of EntryListCache: four configurations over two primary trees. *)
EXTENDS EntryListCache

MCConfigs == 1..4
MCTrees == {"vertex_tree", "flat_tree"}
MCTreeOf == [c \in MCConfigs |-> IF c = 3 THEN "flat_tree" ELSE "vertex_tree"]
MCHashes == 1..4

\* No two configurations share a hash.
MCInjectiveHash == [c \in MCConfigs |-> c]

\* Configuration 4 is configuration 2 with another input sample behind the
\* same path: the directory and file name are not part of the key.
MCCollidingHash == [c \in MCConfigs |-> IF c = 4 THEN 2 ELSE c]
=============================================================================
