--------------------------- MODULE StageEntryLists ---------------------------
(***************************************************************************)
(* The entry lists of one bdt_file in memory.  topological_list and        *)
(* precut_list are there from calcBaseEntryList on; the list of a BDT      *)
(* stage is drawn by calcBDTEntryList into its slot of vec_entry_lists,    *)
(* on request or when setStageEntryList finds the slot empty.  TTree::Draw *)
(* reads only the entries of the list set on the tree at that moment, and  *)
(* the slot does not remember which cut values it was filled for.          *)
(***************************************************************************)
EXTENDS StageCuts

CONSTANTS
  CutVectors,  \* cut values callers pass: sequences of NBdts scores
  Null,        \* the nullptr of an unfilled slot
  AnyOrder     \* FALSE: calls come in the order InOrder describes

ASSUME CallsAssumption ==
  /\ CutVectors \subseteq [1..NBdts -> Int] \ {<<>>}
  /\ \A S \in SUBSET Entries : S # Null
  /\ AnyOrder \in BOOLEAN

CutArgs == CutVectors \cup {<<>>}

VARIABLES
  vec_entry_lists,  \* slot of each BDT stage: a set of entries, or Null
  active,           \* stage whose list is set on the tree, -1 for no list
  exited,           \* the program has called exit(EXIT_FAILURE)
  filledFor         \* cut argument each slot was last filled for (history)

vars == <<vec_entry_lists, active, exited, filledFor>>

TypeOK ==
  /\ vec_entry_lists \in [BdtStages -> {Null} \cup SUBSET Entries]
  /\ active \in -1..NBdts + 1
  /\ exited \in BOOLEAN
  /\ filledFor \in [BdtStages -> CutArgs]

Init ==
  /\ vec_entry_lists = [j \in BdtStages |-> Null]
  /\ active = -1
  /\ exited = FALSE
  /\ filledFor = [j \in BdtStages |-> <<>>]

-----------------------------------------------------------------------------
topological_list == GetStageCuts(0)
precut_list == GetStageCuts(1)

\* What a scan of the tree visits.
ActiveEntries ==
  IF active = -1 THEN Entries
  ELSE IF active = 0 THEN topological_list
  ELSE IF active = 1 THEN precut_list
  ELSE vec_entry_lists[active]

\* Callers that go up the stages, with one cut argument throughout.
InOrder(j, cuts) ==
  /\ active <= j
  /\ \A k \in BdtStages : vec_entry_lists[k] # Null => filledFor[k] = cuts

\* Mutant of DrawnList: the scan ignores the stage below the last cut.
DrawnListOneCut(j, cuts) ==
  ActiveEntries \cap {e \in GetStageCuts(1) :
    \/ cuts # <<>> /\ Mva[j - 1][e] > cuts[j - 1]
    \/ cuts = <<>> /\ (j - 1 \in ConfiguredBdts => Mva[j - 1][e] >= BdtCuts[j - 1])}

\* tvertex->Draw(">>stage_<j>_BDT_<tag>", getStageCuts(j, cuts), "entrylist")
DrawnList(j, cuts) == ActiveEntries \cap Selection(j, cuts)

\* bdt_file::calcBDTEntryList, both overloads: the slot is overwritten.
CalcBDTEntryList(j, cuts) ==
  /\ ~exited
  /\ AnyOrder \/ InOrder(j, cuts)
  /\ vec_entry_lists' = [vec_entry_lists EXCEPT ![j] = DrawnList(j, cuts)]
  /\ filledFor' = [filledFor EXCEPT ![j] = cuts]
  /\ UNCHANGED <<active, exited>>

\* setStageEntryList(j, cuts) for the two base stages.
SetBaseEntryList(j, cuts) ==
  /\ ~exited
  /\ active' = j
  /\ UNCHANGED <<vec_entry_lists, exited, filledFor>>

\* Mutant of SetFilledEntryList: the slot is not looked at either.
SetWithoutLooking(j, cuts) ==
  /\ ~exited
  /\ active' = j
  /\ UNCHANGED <<vec_entry_lists, exited, filledFor>>

\* setStageEntryList(j, cuts) with the slot filled: cuts is not looked at.
SetFilledEntryList(j, cuts) ==
  /\ ~exited
  /\ vec_entry_lists[j] # Null
  /\ active' = j
  /\ UNCHANGED <<vec_entry_lists, exited, filledFor>>

\* setStageEntryList(j, cuts) with the slot empty: drawn now, then set.
SetEmptyEntryList(j, cuts) ==
  /\ ~exited
  /\ vec_entry_lists[j] = Null
  /\ AnyOrder \/ InOrder(j, cuts)
  /\ vec_entry_lists' = [vec_entry_lists EXCEPT ![j] = DrawnList(j, cuts)]
  /\ filledFor' = [filledFor EXCEPT ![j] = cuts]
  /\ active' = j
  /\ UNCHANGED exited

\* Mutant of SetInvalidStage: the error is printed and the program goes on.
SetInvalidGoesOn ==
  /\ ~exited
  /\ active' = NBdts + 2
  /\ UNCHANGED <<vec_entry_lists, exited, filledFor>>

\* A stage past the last BDT, or a negative one (the comparison with size()
\* is unsigned): "Only up to level ... allowed with Entry Lists".
SetInvalidStage ==
  /\ ~exited
  /\ exited' = TRUE
  /\ UNCHANGED <<vec_entry_lists, active, filledFor>>

\* tvertex->SetEntryList(NULL), as bdt_eff does between its scans.
ClearEntryList ==
  /\ ~exited
  /\ active' = -1
  /\ UNCHANGED <<vec_entry_lists, exited, filledFor>>

Next ==
  \/ \E cuts \in CutArgs :
       \/ \E j \in {0, 1} : SetBaseEntryList(j, cuts)
       \/ \E j \in BdtStages :
            \/ CalcBDTEntryList(j, cuts)
            \/ SetFilledEntryList(j, cuts)
            \/ SetEmptyEntryList(j, cuts)
  \/ SetInvalidStage
  \/ ClearEntryList

Spec == Init /\ [][Next]_vars

-----------------------------------------------------------------------------
(* ListsSound: whatever the order of calls, a stage list never holds an
   entry that fails the cuts the list was drawn for. *)
ListsSound ==
  \A j \in BdtStages :
    vec_entry_lists[j] # Null => vec_entry_lists[j] \subseteq Selection(j, filledFor[j])

(* ActiveListExists: the list set on the tree is never a null pointer; with
   one, TTree would silently read every entry. *)
ActiveListExists == active \in BdtStages => vec_entry_lists[active] # Null

(* ListsComplete: a stage list holds every entry that passes its cuts
   ("calculate the entrylist that satisfies cuts at given stage", bdt_file.h).
   It needs the calls to go up the stages. *)
ListsComplete ==
  \A j \in BdtStages :
    vec_entry_lists[j] # Null => Selection(j, filledFor[j]) \subseteq vec_entry_lists[j]
=============================================================================
