----------------------------- MODULE StagePlans -----------------------------
(***************************************************************************)
(* The order in which hive's modes call setStageEntryList and              *)
(* calcBDTEntryList on a file, and what they mean to read between calls.   *)
(* An invocation runs one mode; a mode is a loop, and the calls it makes   *)
(* on a file are the bodies of its rounds, one after the other.            *)
(***************************************************************************)
EXTENDS StageEntryLists

CONSTANTS
  NVars,      \* variables mode eff loops over
  Minvals,    \* scan_min of each BDT, as a cut argument
  Points      \* the grid of cut values of a significance scan

\* round_to keeps the lowest grid value at scan_min if that has at most three
\* decimals, as it has in every XML of the repository.
ASSUME PlansAssumption ==
  /\ NVars \in Nat
  /\ Minvals \in CutArgs \cap [1..NBdts -> Int]
  /\ Points \in Seq([1..NBdts -> Int])
  /\ \A p \in DOMAIN Points : \A b \in 1..NBdts : Points[p][b] >= Minvals[b]

VARIABLES
  job,        \* what the invocation was started for
  round, at,  \* the round of the loop, and the call of its body that is next
  scan,       \* the last scan of the tree: what it was for, saw and meant
  whole       \* what the last denominator counted: Entries before the first

planvars == <<job, round, at, scan, whole, vars>>

\* A mode with which_stage and fbdtcuts.  For stack and recomc, stage -1 is every
\* stage in turn; datamc, a stack of one variable included, plots at which_stage
\* as it is; vars and eff have replaced -1.  Stages may be one past the last.
Jobs ==
  [mode : {"stack", "datamc"}, stage : -1..NBdts + 2, cuts : CutArgs]
  \cup [mode : {"recomc"}, stage : -1..NBdts + 2, cuts : CutVectors]
  \cup [mode : {"vars", "eff"}, stage : 0..NBdts + 2, cuts : CutVectors]
  \cup [mode : {"sig"}, stage : {NBdts + 1}, cuts : {Minvals}]

Call(op, stage, cuts) ==
  [op |-> op, stage |-> stage, cuts |-> cuts,
   what |-> "none", filter |-> Entries, meant |-> Entries]

Scan(what, filter, meant) ==
  [op |-> "scan", stage |-> -1, cuts |-> <<>>,
   what |-> what, filter |-> filter, meant |-> meant]

ScanStage(s, cuts) == Scan("stage", Entries, Selection(s, cuts))

\* if(s > 1) calcBDTEntryList(s, cuts)
CalcIfBdtStage(s, cuts) == IF s > 1 THEN <<Call("calc", s, cuts)>> ELSE <<>>

-----------------------------------------------------------------------------
\* The modes that loop over the stages.
EveryStage == job.stage = -1 /\ job.mode \in {"stack", "recomc"}

\* Mutant of StageOf: from the last stage down.
StageOfDown(r) == IF EveryStage THEN Len(job.cuts) + 2 - r ELSE job.stage

\* The stage of round r, in a loop over the stages or at one stage.
StageOf(r) == IF EveryStage THEN r - 1 ELSE job.stage

\* How often the loop of the mode runs: over the stages, the BDTs, the
\* variables, the grid (after what the scan begins with).
Rounds ==
  CASE job.mode \in {"stack", "datamc", "recomc"} -> IF EveryStage THEN Len(job.cuts) + 2 ELSE 1
    [] job.mode = "vars" -> NBdts
    [] job.mode = "eff" -> NVars
    [] job.mode = "sig" -> Len(Points) + 1

\* modes stack and datamc, bdt_datamc::plotStacks with setPlotStage(s).  At stage -1
\* getGeneralStageCuts throws before the call: the end, like setStageEntryList's exit.
PlotStacks(s, cuts) == <<Call("set", s, cuts), ScanStage(s, cuts)>>

\* Mutant of PlotRecomc: the list is left to setStageEntryList.
PlotRecomcSetOnly(s, cuts) == <<Call("set", s, <<>>), ScanStage(s, cuts)>>

\* bdt_recomc::plot_recomc: the list is drawn, then set without cuts.
PlotRecomc(s, cuts) ==
  CalcIfBdtStage(s, cuts) \o <<Call("set", s, <<>>), ScanStage(s, cuts)>>

\* mode vars: plot_bdt_variables for a BDT that trains on this file.
PlotVariables(s, cuts) ==
  CalcIfBdtStage(s, cuts) \o <<Call("set", s, <<>>), ScanStage(s, cuts)>>

\* mode eff, number 2: bdt_efficiency of a variable.  It begins with the
\* number of entries that pass the definition, the denominator.
\* (calcBaseEntryList, before the list is set, loads what main has loaded.)
EfficiencyOfVariable(s, cuts) ==
  <<Scan("denominator", DefinitionCuts, DefinitionCuts)>>
  \o (CalcIfBdtStage(s, cuts) \o <<Call("set", s, <<>>), ScanStage(s, cuts)>>)

ScanGridPoint(p) ==
  <<Scan("stage", Selection(NBdts + 1, Points[p]), Selection(NBdts + 1, Points[p]))>>

\* Mutant of ScanSignificance: the total is counted at the last grid point.
ScanSignificanceLate(r) ==
  IF r > 1 THEN ScanGridPoint(r - 1)
  ELSE <<Call("set", 1, <<>>), Call("set", NBdts + 1, Minvals),
         Scan("total signal", Selection(NBdts + 1, Points[Len(Points)]), GetStageCuts(1))>>

\* scan_significance: the lists are set at the lowest grid point, the total
\* signal is counted, then every grid point.
ScanSignificance(r) ==
  IF r > 1 THEN ScanGridPoint(r - 1)
  ELSE <<Call("set", 1, <<>>), Call("set", NBdts + 1, Minvals),
         Scan("total signal", GetStageCuts(1), GetStageCuts(1))>>

\* The calls round r makes on a file.
Body(r) ==
  CASE job.mode \in {"stack", "datamc"} -> PlotStacks(StageOf(r), job.cuts)
    [] job.mode = "recomc" -> PlotRecomc(StageOf(r), job.cuts)
    [] job.mode = "vars"   -> PlotVariables(StageOf(r), job.cuts)
    [] job.mode = "eff"    -> EfficiencyOfVariable(StageOf(r), job.cuts)
    [] job.mode = "sig"    -> ScanSignificance(r)

NextCall == Body(round)[at]

\* The scans whose count others are divided by.
Denominators == {"denominator", "total signal"}

-----------------------------------------------------------------------------
PlanInit ==
  /\ Init
  /\ job \in Jobs
  /\ round = 1 /\ at = 1
  /\ scan = Scan("none", Entries, Entries)
  /\ whole = Entries

\* calcBDTEntryList for a stage past the last: vec_entry_lists has no slot for
\* it.  The process dies writing past the vector's end, or overwrites memory that
\* is no part of this model; setStageEntryList, called next, ends it then.
CalcPastLast ==
  /\ ~exited
  /\ exited' \in BOOLEAN
  /\ UNCHANGED <<vec_entry_lists, active, filledFor>>

CalcList(j, cuts) ==
  \/ j \in BdtStages /\ CalcBDTEntryList(j, cuts)
  \/ j > NBdts + 1 /\ CalcPastLast

\* setStageEntryList, whichever of its branches applies.
SetStage(j, cuts) ==
  \/ j \in {0, 1} /\ SetBaseEntryList(j, cuts)
  \/ j \in BdtStages /\ (SetFilledEntryList(j, cuts) \/ SetEmptyEntryList(j, cuts))
  \/ (j < 0 \/ j > NBdts + 1) /\ SetInvalidStage

Advance ==
  /\ IF at < Len(Body(round))
     THEN at' = at + 1 /\ round' = round
     ELSE at' = 1 /\ round' = round + 1
  /\ UNCHANGED job

\* The next call of the mode.
StepCall ==
  /\ round <= Rounds
  /\ \/ NextCall.op = "set" /\ SetStage(NextCall.stage, NextCall.cuts)
     \/ NextCall.op = "calc" /\ CalcList(NextCall.stage, NextCall.cuts)
  /\ Advance
  /\ UNCHANGED <<scan, whole>>

\* The next scan of the tree, e.g. GetEntries(filter).
StepScan ==
  /\ round <= Rounds
  /\ NextCall.op = "scan"
  /\ ~exited
  /\ scan' = [NextCall EXCEPT !.filter = @ \cap ActiveEntries]
  /\ whole' = IF NextCall.what \in Denominators THEN scan'.filter ELSE whole
  /\ Advance
  /\ UNCHANGED vars

PlanNext == StepCall \/ StepScan

PlanSpec == PlanInit /\ [][PlanNext]_planvars

-----------------------------------------------------------------------------
(* StageScansExact: what a mode reads at a stage is what passes that stage,
   in every mode, with every earlier call of the same invocation. *)
StageScansExact == scan.what = "stage" => scan.filter = scan.meant

(* CallersGoInOrder: the modes of hive call upwards through the stages, the
   discipline under which stage lists are complete. *)
Ordered == INSTANCE StageEntryLists WITH AnyOrder <- FALSE
CallersGoInOrder == Ordered!Spec

(* DenominatorsOverFile: the denominator of an efficiency is counted over the
   file ("The definition cuts, i.e the denominator"), not over the list an
   earlier variable left on the tree. *)
DenominatorsOverFile == scan.what = "denominator" => scan.filter = scan.meant

(* EfficienciesBelowOne: what a mode divides was counted within what it divides
   by, though neither may be the number its comment names: an earlier stage
   list narrows numerator and denominator alike. *)
EfficienciesBelowOne == scan.what = "stage" => scan.filter \subseteq whole
=============================================================================
