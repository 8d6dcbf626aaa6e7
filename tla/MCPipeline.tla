----------------------------- MODULE MCPipeline -----------------------------
(* An instance of Pipeline, over the configurations of MCEntryListCache.     *)
EXTENDS Pipeline, MCEntryListCache

\* The flat tree and the sample that replaces another have their own lengths.
MCEntriesOf == [c \in MCConfigs |-> IF c \in {3, 4} THEN c ELSE 1]
=============================================================================
