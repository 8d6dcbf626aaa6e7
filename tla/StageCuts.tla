------------------------------ MODULE StageCuts ------------------------------
(***************************************************************************)
(* The cut strings of bdt_flow and bdt_file, read as the sets of entries   *)
(* that pass them.  A cut string is a conjunction: topological, definition *)
(* and precuts, then one comparison of a BDT score per later stage.  The   *)
(* overloads differ in the comparison (">=" against ">"), in which cut     *)
(* values they take, and in what they answer outside their range.          *)
(***************************************************************************)
EXTENDS Integers, Sequences

CONSTANTS
  Entries,           \* entries of the primary TTree of one file
  TopologicalCuts,   \* the entries passing each cut string of the XML
  DefinitionCuts,
  PreCuts,
  PostCuts,
  NBdts,             \* bdt_vector.size()
  Mva,               \* [1..NBdts -> [Entries -> Int]], the "<id>_mva" friends
  BdtCuts            \* cut scores configured in the XML, or <<>>

ASSUME StageCutsAssumption ==
  /\ TopologicalCuts \subseteq Entries
  /\ DefinitionCuts \subseteq Entries
  /\ PreCuts \subseteq Entries
  /\ PostCuts \subseteq Entries
  /\ NBdts \in Nat
  /\ Mva \in [1..NBdts -> [Entries -> Int]]
  /\ BdtCuts \in Seq(Int)

\* Stages with a slot in vec_entry_lists.
BdtStages == 2..NBdts + 1

-----------------------------------------------------------------------------
\* stage_cuts as built by set_stage_cuts: topological, precuts, then as many
\* score cuts as there are both BDTs and configured cut values.
ConfiguredBdts == (1..NBdts) \cap DOMAIN BdtCuts

\* bdt_flow::GetGeneralStageCuts(stage); it throws for stage < 0.
GetGeneralStageCuts(stage) ==
  {e \in TopologicalCuts :
     /\ stage >= 1 => e \in PreCuts
     /\ \A i \in ConfiguredBdts : i < stage => Mva[i][e] >= BdtCuts[i]}

\* bdt_flow::GetGeneralStageCuts(stage, external_bdt_cuts).
GetGeneralStageCutsExt(stage, cuts) ==
  {e \in TopologicalCuts :
     /\ stage >= 1 => e \in PreCuts
     /\ \A i \in DOMAIN cuts : i < stage => Mva[i][e] >= cuts[i]}

FileNegativeStage(stage) == IF stage = -1 THEN DefinitionCuts ELSE Entries

\* bdt_flow::GetStageCuts(stage) and bdt_file::getStageCuts(stage).
GetStageCuts(stage) ==
  IF stage < 0 THEN FileNegativeStage(stage)
  ELSE DefinitionCuts \cap GetGeneralStageCuts(stage)

\* bdt_flow::GetStageCuts(stage, external_cuts).
GetStageCutsExt(stage, cuts) ==
  IF stage < 0 THEN FileNegativeStage(stage)
  ELSE DefinitionCuts \cap GetGeneralStageCutsExt(stage, cuts)

\* bdt_file::getStageCuts(stage, vector): ">" where bdt_flow has ">=", and
\* every entry beyond the last stage.
FileStageCuts(stage, cuts) ==
  IF stage <= 1 THEN GetStageCuts(stage)
  ELSE IF stage > NBdts + 1 THEN Entries
  ELSE {e \in GetStageCuts(1) : \A i \in 1..stage - 1 : Mva[i][e] > cuts[i]}

\* bdt_file::getStageCuts(stage, d1, d2): the two-BDT analysis, with the
\* post cuts as a fourth stage.
FileStageCutsTwo(stage, d1, d2) ==
  CASE stage \in {-1, 0, 1} -> GetStageCuts(stage)
    [] stage = 2 -> {e \in GetStageCuts(1) : Mva[1][e] > d1}
    [] stage = 3 -> {e \in GetStageCuts(1) : Mva[1][e] > d1 /\ Mva[2][e] > d2}
    [] stage = 4 -> {e \in GetStageCuts(1) \cap PostCuts :
                       Mva[1][e] > d1 /\ Mva[2][e] > d2}
    [] OTHER -> Entries

\* The cuts calcBDTEntryList draws with: the configured scores without an
\* argument, the given ones otherwise.
Selection(stage, cuts) ==
  IF cuts = <<>> THEN GetStageCuts(stage) ELSE FileStageCuts(stage, cuts)
=============================================================================
