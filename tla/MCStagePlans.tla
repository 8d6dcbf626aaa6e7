---------------------------- MODULE MCStagePlans ----------------------------
(* Every mode, on the entries of MCStageEntryLists.                         *)
EXTENDS StagePlans

MCEntries == 1..8
MCTopologicalCuts == (1..8) \ {7}
MCDefinitionCuts == 1..7
MCPreCuts == (1..8) \ {4}
MCPostCuts == {1, 2}
MCMva == <<[e \in MCEntries |-> CASE e \in {3} -> 1 [] e = 5 -> 0 [] OTHER -> 2],
           [e \in MCEntries |-> CASE e \in {2} -> 1 [] e = 6 -> 0 [] OTHER -> 2]>>
MCBdtCuts == <<1, 1>>
MCCutVectors == {<<1, 1>>, <<0, 1>>, <<0, 0>>}

\* The grid of two steps on each axis.
MCMinvals == <<0, 0>>
MCPoints == <<<<0, 0>>, <<0, 1>>, <<1, 0>>, <<1, 1>>>>
=============================================================================
