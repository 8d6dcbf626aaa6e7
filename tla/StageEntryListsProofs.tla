------------------------ MODULE StageEntryListsProofs ------------------------
(* Proofs about the stage entry lists, for any entries, scores and cuts.     *)
EXTENDS StageEntryLists, TLAPS

(* A cut string never selects an entry the tree does not have. *)
LEMMA SelectionOfEntries ==
  ASSUME NEW j \in Int, NEW cuts
  PROVE  Selection(j, cuts) \subseteq Entries
BY StageCutsAssumption
DEF Selection, GetStageCuts, FileStageCuts, FileNegativeStage, GetGeneralStageCuts

(* Selections shrink from stage to stage: bdt_flow's comment "stage 0: topo  *)
(* + definition; stage 1: stage 0 cut + precuts; ...: stage 1 cut + bdt cuts" *)
LEMMA SelectionsNest ==
  ASSUME NEW cuts \in CutArgs, NEW j \in 0..NBdts + 1, NEW k \in 0..NBdts + 1, k <= j
  PROVE  Selection(j, cuts) \subseteq Selection(k, cuts)
<1> USE StageCutsAssumption
<1>1. \A s, t \in 0..NBdts + 1 : s <= t => GetStageCuts(t) \subseteq GetStageCuts(s)
  BY DEF GetStageCuts, GetGeneralStageCuts, ConfiguredBdts
<1>2. CASE cuts = <<>>
  BY <1>1, <1>2 DEF Selection
<1>3. CASE cuts # <<>>
  <2>1. CASE j <= 1
    BY <1>1, <1>3, <2>1 DEF Selection, FileStageCuts
  <2>2. CASE j > 1 /\ k <= 1
    <3>1. Selection(j, cuts) \subseteq GetStageCuts(1)
      BY <1>3, <2>2 DEF Selection, FileStageCuts
    <3>2. Selection(k, cuts) = GetStageCuts(k)
      BY <1>3, <2>2 DEF Selection, FileStageCuts
    <3> QED
      BY <1>1, <2>2, <3>1, <3>2
  <2>3. CASE k > 1
    BY <1>3, <2>3 DEF Selection, FileStageCuts
  <2> QED
    BY <2>1, <2>2, <2>3
<1> QED
  BY <1>2, <1>3

\* Base stages do not look at the cut argument.
LEMMA BaseSelection ==
  ASSUME NEW cuts, NEW j \in {0, 1}
  PROVE  Selection(j, cuts) = GetStageCuts(j)
BY DEF Selection, FileStageCuts

-----------------------------------------------------------------------------
\* TypeOK with the two facts it needs to be inductive: what is active exists.
ShapeInv == TypeOK /\ ActiveListExists

LEMMA ActiveIsEntries ==
  ASSUME ShapeInv PROVE ActiveEntries \subseteq Entries
<1> USE StageCutsAssumption DEF ShapeInv, TypeOK
<1>1. CASE active = -1
  BY <1>1 DEF ActiveEntries
<1>2. CASE active \in {0, 1}
  BY <1>2 DEF ActiveEntries, topological_list, precut_list, GetStageCuts,
              GetGeneralStageCuts
<1>3. CASE active \in BdtStages
  <2>1. ActiveEntries = vec_entry_lists[active]
    BY <1>3 DEF ActiveEntries, BdtStages
  <2> QED
    BY <1>3, <2>1 DEF ActiveListExists
<1> QED
  BY <1>1, <1>2, <1>3 DEF BdtStages

LEMMA DrawnListIsEntries ==
  ASSUME ShapeInv, NEW j \in BdtStages, NEW cuts
  PROVE  DrawnList(j, cuts) \in SUBSET Entries /\ DrawnList(j, cuts) # Null
BY ActiveIsEntries, CallsAssumption DEF DrawnList

LEMMA ShapeInit == Init => ShapeInv
<1> SUFFICES ASSUME Init PROVE ShapeInv
  OBVIOUS
<1>1. <<>> \in CutArgs /\ -1 \in -1..NBdts + 1
  BY StageCutsAssumption DEF CutArgs
<1>2. TypeOK
  BY <1>1 DEF Init, TypeOK
<1>3. active \notin BdtStages
  BY StageCutsAssumption DEF Init, BdtStages
<1> QED
  BY <1>2, <1>3 DEF ShapeInv, ActiveListExists

LEMMA ShapeStep == ShapeInv /\ [Next]_vars => ShapeInv'
<1> SUFFICES ASSUME ShapeInv, [Next]_vars PROVE ShapeInv'
  OBVIOUS
<1> USE StageCutsAssumption DEF ShapeInv, TypeOK, ActiveListExists, BdtStages
<1>1. ASSUME NEW cuts \in CutArgs, NEW j \in {0, 1}, SetBaseEntryList(j, cuts)
      PROVE  ShapeInv'
  BY <1>1 DEF SetBaseEntryList
<1>2. ASSUME NEW cuts \in CutArgs, NEW j \in BdtStages, CalcBDTEntryList(j, cuts)
      PROVE  ShapeInv'
  BY <1>2, DrawnListIsEntries DEF CalcBDTEntryList
<1>3. ASSUME NEW cuts \in CutArgs, NEW j \in BdtStages, SetFilledEntryList(j, cuts)
      PROVE  ShapeInv'
  BY <1>3 DEF SetFilledEntryList
<1>4. ASSUME NEW cuts \in CutArgs, NEW j \in BdtStages, SetEmptyEntryList(j, cuts)
      PROVE  ShapeInv'
  BY <1>4, DrawnListIsEntries DEF SetEmptyEntryList
<1>5. CASE SetInvalidStage
  BY <1>5 DEF SetInvalidStage
<1>6. CASE ClearEntryList
  BY <1>6 DEF ClearEntryList, CutArgs
<1>7. CASE UNCHANGED vars
  BY <1>7 DEF vars
<1> QED
  BY <1>1, <1>2, <1>3, <1>4, <1>5, <1>6, <1>7 DEF Next

(* The slots, the active stage and the history keep their types, whatever the *)
(* order of calls and whatever stage is asked for.                            *)
THEOREM TypeCorrect == Spec => []TypeOK
<1>1. ShapeInv => TypeOK
  BY DEF ShapeInv
<1> QED
  BY <1>1, ShapeInit, ShapeStep, PTL DEF Spec

(* Types are right and no null list is ever set on the tree. *)
THEOREM ActiveListAlwaysExists == Spec => [](TypeOK /\ ActiveListExists)
<1>1. ShapeInv => TypeOK /\ ActiveListExists
  BY DEF ShapeInv
<1> QED
  BY <1>1, ShapeInit, ShapeStep, PTL DEF Spec

-----------------------------------------------------------------------------
\* One slot, whichever call filled it.
SoundSlot(j) ==
  vec_entry_lists[j] # Null => vec_entry_lists[j] \subseteq Selection(j, filledFor[j])

\* A call that fills slot j, and one that leaves the slots alone.
Fills(j, cuts) == CalcBDTEntryList(j, cuts) \/ SetEmptyEntryList(j, cuts)

LEMMA FilledSlots ==
  ASSUME TypeOK, NEW cuts \in CutArgs, NEW j \in BdtStages, Fills(j, cuts), NEW k \in BdtStages
  PROVE  /\ vec_entry_lists'[k] = IF k = j THEN DrawnList(j, cuts) ELSE vec_entry_lists[k]
         /\ filledFor'[k] = IF k = j THEN cuts ELSE filledFor[k]
BY DEF Fills, CalcBDTEntryList, SetEmptyEntryList, TypeOK

LEMMA SoundFill ==
  ASSUME ShapeInv, ListsSound, NEW cuts \in CutArgs, NEW j \in BdtStages, Fills(j, cuts)
  PROVE  ListsSound'
<1> SUFFICES ASSUME NEW k \in BdtStages
             PROVE  SoundSlot(k)'
  BY DEF ListsSound, SoundSlot
<1>0. SoundSlot(k)
  BY DEF ListsSound, SoundSlot
<1>1. /\ vec_entry_lists'[k] = IF k = j THEN DrawnList(j, cuts) ELSE vec_entry_lists[k]
      /\ filledFor'[k] = IF k = j THEN cuts ELSE filledFor[k]
  BY FilledSlots DEF ShapeInv
<1>2. DrawnList(j, cuts) \subseteq Selection(j, cuts)
  BY DEF DrawnList
<1>3. SoundSlot(k)' =
        (vec_entry_lists'[k] # Null =>
           vec_entry_lists'[k] \subseteq Selection(k, filledFor'[k]))
  BY DEF SoundSlot, Selection, FileStageCuts, GetStageCuts, FileNegativeStage,
         GetGeneralStageCuts, ConfiguredBdts
<1> QED
  BY <1>0, <1>1, <1>2, <1>3 DEF SoundSlot

LEMMA SoundKept ==
  ASSUME ListsSound, UNCHANGED <<vec_entry_lists, filledFor>>
  PROVE  ListsSound'
BY DEF ListsSound, Selection, FileStageCuts, GetStageCuts, FileNegativeStage,
       GetGeneralStageCuts, ConfiguredBdts

(* In any order of calls a stage list holds only entries that pass its cuts. *)
THEOREM ListsAlwaysSound == Spec => []ListsSound
<1>1. Init => ListsSound
  BY DEF Init, ListsSound
<1>2. ShapeInv /\ ListsSound /\ [Next]_vars => ListsSound'
  <2> SUFFICES ASSUME ShapeInv, ListsSound, [Next]_vars PROVE ListsSound'
    OBVIOUS
  <2>1. ASSUME NEW cuts \in CutArgs, NEW j \in BdtStages, Fills(j, cuts)
        PROVE  ListsSound'
    BY <2>1, SoundFill
  <2>2. CASE UNCHANGED <<vec_entry_lists, filledFor>>
    BY <2>2, SoundKept
  <2> QED
    BY <2>1, <2>2 DEF Fills, Next, vars, SetBaseEntryList, SetFilledEntryList,
       SetInvalidStage, ClearEntryList
<1> QED
  BY <1>1, <1>2, ShapeInit, ShapeStep, PTL DEF Spec

-----------------------------------------------------------------------------
\* Called upwards, the active list always contains what is to be drawn next.
CompleteInv == ShapeInv /\ ListsComplete

LEMMA DrawnUpwards ==
  ASSUME CompleteInv, NEW j \in BdtStages, NEW cuts \in CutArgs, InOrder(j, cuts)
  PROVE  Selection(j, cuts) \subseteq DrawnList(j, cuts)
<1> USE StageCutsAssumption DEF CompleteInv, ShapeInv, TypeOK, BdtStages
<1> SUFFICES Selection(j, cuts) \subseteq ActiveEntries
  BY DEF DrawnList
<1>1. CASE active = -1
  BY <1>1, SelectionOfEntries DEF ActiveEntries
<1>2. CASE active \in {0, 1}
  <2>1. ActiveEntries = Selection(active, cuts)
    BY <1>2, BaseSelection DEF ActiveEntries, topological_list, precut_list
  <2> QED
    BY <1>2, <2>1, SelectionsNest
<1>3. CASE active \in BdtStages
  <2>1. active <= j /\ filledFor[active] = cuts
    BY <1>3 DEF InOrder, ActiveListExists
  <2>2. Selection(active, cuts) \subseteq vec_entry_lists[active]
    BY <1>3, <2>1 DEF ListsComplete, ActiveListExists
  <2>3. ActiveEntries = vec_entry_lists[active]
    BY <1>3 DEF ActiveEntries
  <2> QED
    BY <1>3, <2>1, <2>2, <2>3, SelectionsNest
<1> QED
  BY <1>1, <1>2, <1>3

CompleteSlot(j) ==
  vec_entry_lists[j] # Null => Selection(j, filledFor[j]) \subseteq vec_entry_lists[j]

LEMMA CompleteFill ==
  ASSUME CompleteInv, NEW cuts \in CutArgs, NEW j \in BdtStages, InOrder(j, cuts),
         Fills(j, cuts)
  PROVE  ListsComplete'
<1> SUFFICES ASSUME NEW k \in BdtStages
             PROVE  CompleteSlot(k)'
  BY DEF ListsComplete, CompleteSlot
<1>0. CompleteSlot(k)
  BY DEF CompleteInv, ListsComplete, CompleteSlot
<1>1. /\ vec_entry_lists'[k] = IF k = j THEN DrawnList(j, cuts) ELSE vec_entry_lists[k]
      /\ filledFor'[k] = IF k = j THEN cuts ELSE filledFor[k]
  BY FilledSlots DEF CompleteInv, ShapeInv
<1>2. Selection(j, cuts) \subseteq DrawnList(j, cuts)
  BY DrawnUpwards
<1>3. CompleteSlot(k)' =
        (vec_entry_lists'[k] # Null =>
           Selection(k, filledFor'[k]) \subseteq vec_entry_lists'[k])
  BY DEF CompleteSlot, Selection, FileStageCuts, GetStageCuts, FileNegativeStage,
         GetGeneralStageCuts, ConfiguredBdts
<1> QED
  BY <1>0, <1>1, <1>2, <1>3 DEF CompleteSlot

LEMMA CompleteKept ==
  ASSUME ListsComplete, UNCHANGED <<vec_entry_lists, filledFor>>
  PROVE  ListsComplete'
BY DEF ListsComplete, Selection, FileStageCuts, GetStageCuts, FileNegativeStage,
       GetGeneralStageCuts, ConfiguredBdts

(* Called upwards through the stages with one set of cuts, a stage list has  *)
(* every entry that passes its cuts.                                         *)
THEOREM ListsCompleteInOrder == ASSUME AnyOrder = FALSE PROVE Spec => []ListsComplete
<1>1. Init => ListsComplete
  BY DEF Init, ListsComplete
<1>2. ShapeInv /\ ListsComplete /\ [Next]_vars => ListsComplete'
  <2> SUFFICES ASSUME ShapeInv, ListsComplete, [Next]_vars PROVE ListsComplete'
    OBVIOUS
  <2>1. ASSUME NEW cuts \in CutArgs, NEW j \in BdtStages, Fills(j, cuts)
        PROVE  ListsComplete'
    <3>1. InOrder(j, cuts)
      BY <2>1 DEF Fills, CalcBDTEntryList, SetEmptyEntryList
    <3> QED
      BY <2>1, <3>1, CompleteFill DEF CompleteInv
  <2>2. CASE UNCHANGED <<vec_entry_lists, filledFor>>
    BY <2>2, CompleteKept
  <2> QED
    BY <2>1, <2>2 DEF Fills, Next, vars, SetBaseEntryList, SetFilledEntryList,
       SetInvalidStage, ClearEntryList
<1> QED
  BY <1>1, <1>2, ShapeInit, ShapeStep, PTL DEF Spec
=============================================================================
