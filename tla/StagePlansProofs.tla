-------------------------- MODULE StagePlansProofs --------------------------
(* Proofs about the modes' calls on the stage lists: any number of BDTs,     *)
(* entries, variables and grid points, any scores and any cuts.              *)
EXTENDS StagePlans, StageEntryListsProofs

-----------------------------------------------------------------------------
\* The modes that leave the drawing of a list to setStageEntryList.
Stacks == {"stack", "datamc"}

\* The calls of a round in every mode but sig: what bdt_efficiency counts
\* first, a list drawn for a BDT stage, the list set, the scan.
BodyLen ==
  2 + (IF job.mode = "eff" THEN 1 ELSE 0)
    + (IF job.mode \notin Stacks /\ StageOf(round) > 1 THEN 1 ELSE 0)

\* No list is left from other cuts.
DrawnForJob == \A k \in BdtStages : vec_entry_lists[k] # Null => filledFor[k] = job.cuts

(* Where a loop stands: below or at its stage; on its list before a scan; with
   the list drawn before it is set without cuts; within what it counted first. *)
LoopInv ==
  job.mode # "sig" /\ round <= Rounds =>
    /\ at \in 1..BodyLen
    /\ active <= StageOf(round)
    /\ at = BodyLen /\ ~exited => active = StageOf(round) /\ active \in 0..NBdts + 1
    /\ at = BodyLen - 1 /\ StageOf(round) \in BdtStages /\ job.mode \notin Stacks =>
         vec_entry_lists[StageOf(round)] # Null
    /\ job.mode = "eff" /\ at > 1 /\ StageOf(round) \in 0..NBdts + 1 =>
         Selection(StageOf(round), job.cuts) \subseteq whole
    /\ job.mode # "eff" => whole = Entries

\* The same for a significance scan, which sets its lists in the first round.
SigInv ==
  job.mode = "sig" =>
    /\ round = 1 => at \in 1..3
    /\ round = 1 /\ at = 1 => active = -1
    /\ round = 1 /\ at = 2 => active = 1
    /\ round = 1 /\ at = 3 => active = NBdts + 1
    /\ round > 1 => /\ at = 1
                    /\ active = NBdts + 1
                    /\ Selection(NBdts + 1, Minvals) \subseteq whole

ListsInv == CompleteInv /\ ListsSound /\ DrawnForJob

PlanInv ==
  /\ ListsInv
  /\ job \in Jobs /\ round \in Nat \ {0}
  /\ LoopInv
  /\ SigInv
  /\ StageScansExact
  /\ EfficienciesBelowOne

-----------------------------------------------------------------------------
\* What is known of any job.
LEMMA JobFields ==
  ASSUME job \in Jobs
  PROVE  /\ job.mode \in {"stack", "datamc", "recomc", "vars", "eff", "sig"}
         /\ job.cuts \in CutArgs
         /\ job.stage \in Int
         /\ job.stage >= -1
         /\ job.stage <= NBdts + 2
         /\ job.mode = "sig" => job.cuts = Minvals
BY StageCutsAssumption, PlansAssumption DEF Jobs, CutArgs

LEMMA CutLength ==
  ASSUME NEW c \in CutArgs
  PROVE  Len(c) \in 0..NBdts
<1>1. CASE c = <<>>
  BY <1>1, StageCutsAssumption
<1>2. CASE c \in CutVectors
  <2>1. c \in [1..NBdts -> Int]
    BY <1>2, CallsAssumption
  <2> QED
    BY <2>1, StageCutsAssumption
<1> QED
  BY <1>1, <1>2 DEF CutArgs

\* A round is about a stage hive has, or one on either side, which ends it.
LEMMA StageOfRound ==
  ASSUME job \in Jobs, job.mode # "sig", NEW r \in Nat \ {0}, r <= Rounds
  PROVE  StageOf(r) \in -1..NBdts + 2
<1>1. Len(job.cuts) \in 0..NBdts
  BY CutLength, JobFields
<1>2. CASE EveryStage
  <2>1. r <= Len(job.cuts) + 2
    BY <1>2, JobFields DEF Rounds, EveryStage
  <2> QED
    BY <1>1, <1>2, <2>1, StageCutsAssumption DEF StageOf
<1>3. CASE ~EveryStage
  BY <1>3, JobFields, StageCutsAssumption DEF StageOf
<1> QED
  BY <1>2, <1>3

\* One call before others.
LEMMA Prepended ==
  ASSUME NEW T, NEW a \in T, NEW t \in Seq(T)
  PROVE  /\ <<a>> \o t \in Seq(T)
         /\ Len(<<a>> \o t) = Len(t) + 1
         /\ (<<a>> \o t)[1] = a
         /\ \A k \in 1..Len(t) : (<<a>> \o t)[k + 1] = t[k]
<1> DEFINE s == <<a>>
<1>1. s \in Seq(T)
  OBVIOUS
<1>2. Len(s) = 1 /\ s[1] = a
  OBVIOUS
<1> HIDE DEF s
<1>3. /\ s \o t \in Seq(T)
      /\ Len(s \o t) = Len(s) + Len(t)
      /\ \A i \in 1..Len(s) + Len(t) : (s \o t)[i] = IF i <= Len(s) THEN s[i] ELSE t[i - Len(s)]
  BY <1>1
<1>4. Len(t) \in Nat
  OBVIOUS
<1>5. ASSUME NEW k \in 1..Len(t) PROVE (s \o t)[k + 1] = t[k]
  <2>1. k + 1 \in 1..Len(s) + Len(t) /\ ~(k + 1 <= Len(s)) /\ k + 1 - Len(s) = k
    BY <1>2, <1>4
  <2> QED
    BY <1>3, <2>1
<1> QED
  BY <1>2, <1>3, <1>4, <1>5 DEF s

LEMMA PrependedTo2 ==
  ASSUME NEW a, NEW b, NEW c
  PROVE  /\ Len(<<a>> \o <<b, c>>) = 3
         /\ (<<a>> \o <<b, c>>)[1] = a /\ (<<a>> \o <<b, c>>)[2] = b /\ (<<a>> \o <<b, c>>)[3] = c
<1> DEFINE t == <<b, c>>
           T == {a, b, c}
<1>0. a \in T /\ t \in Seq(T)
  OBVIOUS
<1>1. Len(t) = 2 /\ t[1] = b /\ t[2] = c
  OBVIOUS
<1> HIDE DEF t, T
<1>2. /\ Len(<<a>> \o t) = Len(t) + 1 /\ (<<a>> \o t)[1] = a
      /\ \A k \in 1..Len(t) : (<<a>> \o t)[k + 1] = t[k]
  BY <1>0, Prepended
<1>3. (<<a>> \o t)[1 + 1] = b /\ (<<a>> \o t)[2 + 1] = c
  BY <1>1, <1>2
<1> QED
  BY <1>1, <1>2, <1>3 DEF t

LEMMA PrependedTo3 ==
  ASSUME NEW a, NEW b, NEW c, NEW d
  PROVE  /\ Len(<<a>> \o (<<b>> \o <<c, d>>)) = 4
         /\ (<<a>> \o (<<b>> \o <<c, d>>))[1] = a /\ (<<a>> \o (<<b>> \o <<c, d>>))[2] = b
         /\ (<<a>> \o (<<b>> \o <<c, d>>))[3] = c /\ (<<a>> \o (<<b>> \o <<c, d>>))[4] = d
<1> DEFINE u == <<c, d>>
           t == <<b>> \o u
<1>0. u \in Seq({a, b, c, d})
  OBVIOUS
<1>1. t \in Seq({a, b, c, d})
  <2> HIDE DEF u
  <2> QED
    BY <1>0, Prepended
<1>2. Len(t) = 3 /\ t[1] = b /\ t[2] = c /\ t[3] = d
  BY PrependedTo2
<1> HIDE DEF t
<1>3. /\ Len(<<a>> \o t) = Len(t) + 1 /\ (<<a>> \o t)[1] = a
      /\ \A k \in 1..Len(t) : (<<a>> \o t)[k + 1] = t[k]
  BY <1>1, Prepended
<1>4. (<<a>> \o t)[1 + 1] = b /\ (<<a>> \o t)[2 + 1] = c /\ (<<a>> \o t)[3 + 1] = d
  BY <1>2, <1>3
<1> QED
  BY <1>2, <1>3, <1>4 DEF t

\* The body of a round, by position from its end.
LEMMA BodyOfRound ==
  ASSUME job \in Jobs, job.mode # "sig", StageOf(round) \in Int
  PROVE  /\ BodyLen \in 2..4
         /\ Len(Body(round)) = BodyLen
         /\ Body(round)[BodyLen] = ScanStage(StageOf(round), job.cuts)
         /\ Body(round)[BodyLen - 1] =
              Call("set", StageOf(round), IF job.mode \in Stacks THEN job.cuts ELSE <<>>)
         /\ job.mode \notin Stacks /\ StageOf(round) > 1 =>
              Body(round)[BodyLen - 2] = Call("calc", StageOf(round), job.cuts)
         /\ job.mode = "eff" =>
              Body(round)[1] = Scan("denominator", DefinitionCuts, DefinitionCuts)
<1> DEFINE s == StageOf(round)
           den == Scan("denominator", DefinitionCuts, DefinitionCuts)
           calc == Call("calc", s, job.cuts)
           setArg == Call("set", s, job.cuts)
           set == Call("set", s, <<>>)
           read == ScanStage(s, job.cuts)
<1>1. CASE job.mode \in Stacks
  <2>1. Body(round) = <<setArg, read>>
    BY <1>1 DEF Body, PlotStacks, Stacks
  <2>2. BodyLen = 2
    BY <1>1 DEF BodyLen, Stacks
  <2> HIDE DEF read, setArg
  <2>3. Len(Body(round)) = 2 /\ Body(round)[1] = setArg /\ Body(round)[2] = read
    BY <2>1
  <2> QED
    BY <1>1, <2>2, <2>3 DEF setArg, read, Stacks
<1>2. CASE job.mode \in {"recomc", "vars"}
  <2>0. Body(round) = CalcIfBdtStage(s, job.cuts) \o <<set, read>>
    BY <1>2 DEF Body, PlotRecomc, PlotVariables
  <2>1. CASE s > 1
    <3>1. CalcIfBdtStage(s, job.cuts) = <<calc>>
      BY <2>1 DEF CalcIfBdtStage
    <3>2. BodyLen = 3
      BY <1>2, <2>1 DEF BodyLen, Stacks
    <3> HIDE DEF calc, set, read
    <3>4. /\ Len(Body(round)) = 3
          /\ Body(round)[1] = calc /\ Body(round)[2] = set /\ Body(round)[3] = read
      BY <2>0, <3>1, PrependedTo2
    <3> QED
      BY <1>2, <3>2, <3>4 DEF calc, set, read, Stacks
  <2>2. CASE ~(s > 1)
    <3>1. CalcIfBdtStage(s, job.cuts) = <<>>
      BY <2>2 DEF CalcIfBdtStage
    <3>2. BodyLen = 2
      BY <1>2, <2>2 DEF BodyLen
    <3> HIDE DEF set, read
    <3>3. Body(round) = <<set, read>>
      BY <2>0, <3>1
    <3>4. Len(Body(round)) = 2 /\ Body(round)[1] = set /\ Body(round)[2] = read
      BY <3>3
    <3> QED
      BY <1>2, <2>2, <3>2, <3>4 DEF set, read, Stacks
  <2> QED
    BY <2>1, <2>2
<1>3. CASE job.mode = "eff"
  <2>0. Body(round) = <<den>> \o (CalcIfBdtStage(s, job.cuts) \o <<set, read>>)
    BY <1>3 DEF Body, EfficiencyOfVariable
  <2>1. CASE s > 1
    <3>1. CalcIfBdtStage(s, job.cuts) = <<calc>>
      BY <2>1 DEF CalcIfBdtStage
    <3>2. BodyLen = 4
      BY <1>3, <2>1 DEF BodyLen, Stacks
    <3> HIDE DEF den, calc, set, read
    <3>4. /\ Len(Body(round)) = 4
          /\ Body(round)[1] = den /\ Body(round)[2] = calc
          /\ Body(round)[3] = set /\ Body(round)[4] = read
      BY <2>0, <3>1, PrependedTo3
    <3> QED
      BY <1>3, <3>2, <3>4 DEF den, calc, set, read, Stacks
  <2>2. CASE ~(s > 1)
    <3>1. CalcIfBdtStage(s, job.cuts) = <<>>
      BY <2>2 DEF CalcIfBdtStage
    <3>2. BodyLen = 3
      BY <1>3, <2>2 DEF BodyLen
    <3> HIDE DEF den, set, read
    <3>3. CalcIfBdtStage(s, job.cuts) \o <<set, read>> = <<set, read>>
      BY <3>1
    <3>4. /\ Len(Body(round)) = 3
          /\ Body(round)[1] = den /\ Body(round)[2] = set /\ Body(round)[3] = read
      <4>1. Body(round) = <<den>> \o <<set, read>>
        BY <2>0, <3>3
      <4> QED
        BY <4>1, PrependedTo2
    <3> QED
      BY <1>3, <2>2, <3>2, <3>4 DEF den, set, read, Stacks
  <2> QED
    BY <2>1, <2>2
<1> QED
  BY <1>1, <1>2, <1>3, JobFields DEF Stacks

-----------------------------------------------------------------------------
\* The list on the tree is what passes its stage.
LEMMA ActiveIsSelection ==
  ASSUME ListsInv, active \in 0..NBdts + 1
  PROVE  ActiveEntries = Selection(active, job.cuts)
<1> USE StageCutsAssumption
<1>1. CASE active \in {0, 1}
  BY <1>1, BaseSelection DEF ActiveEntries, topological_list, precut_list
<1>2. CASE active \in BdtStages
  <2>1. vec_entry_lists[active] # Null
    BY <1>2 DEF ListsInv, CompleteInv, ShapeInv, ActiveListExists
  <2>2. filledFor[active] = job.cuts
    BY <1>2, <2>1 DEF ListsInv, DrawnForJob
  <2>3. vec_entry_lists[active] = Selection(active, job.cuts)
    BY <1>2, <2>1, <2>2 DEF ListsInv, CompleteInv, ListsSound, ListsComplete
  <2> QED
    BY <1>2, <2>3 DEF ActiveEntries, BdtStages
<1> QED
  BY <1>1, <1>2 DEF BdtStages

\* A list of a lower stage, or none, hides nothing of a stage.
LEMMA ActiveBelow ==
  ASSUME ListsInv, job \in Jobs, NEW k \in 0..NBdts + 1, active <= k
  PROVE  Selection(k, job.cuts) \subseteq ActiveEntries
<1>1. active \in -1..NBdts + 1
  BY DEF ListsInv, CompleteInv, ShapeInv, TypeOK
<1>2. CASE active = -1
  BY <1>2, SelectionOfEntries DEF ActiveEntries
<1>3. CASE active # -1
  <2>1. active \in 0..NBdts + 1
    BY <1>1, <1>3
  <2>2. Selection(k, job.cuts) \subseteq Selection(active, job.cuts)
    BY <2>1, JobFields, SelectionsNest
  <2> QED
    BY <2>1, <2>2, ActiveIsSelection
<1> QED
  BY <1>2, <1>3

LEMMA WithinDefinition ==
  ASSUME NEW cuts \in CutArgs, NEW k \in 0..NBdts + 1
  PROVE  Selection(k, cuts) \subseteq DefinitionCuts
<1>1. Selection(k, cuts) \subseteq Selection(0, cuts)
  BY StageCutsAssumption, SelectionsNest
<1>2. Selection(0, cuts) \subseteq DefinitionCuts
  BY BaseSelection DEF GetStageCuts
<1> QED
  BY <1>1, <1>2

\* What passes a point of the grid passes its lowest one.
LEMMA GridWithinMinvals ==
  ASSUME NEW p \in DOMAIN Points
  PROVE  Selection(NBdts + 1, Points[p]) \subseteq Selection(NBdts + 1, Minvals)
<1> USE StageCutsAssumption, PlansAssumption
<1>1. Points[p] \in [1..NBdts -> Int] /\ \A b \in 1..NBdts : Points[p][b] >= Minvals[b]
  OBVIOUS
<1>2. CASE NBdts = 0
  <2>1. \A cuts : Selection(1, cuts) = GetStageCuts(1)
    BY BaseSelection
  <2> QED
    BY <1>2, <2>1
<1>3. CASE NBdts > 0
  <2>1. Points[p] # <<>> /\ Minvals # <<>>
    BY <1>1, <1>3
  <2>2. \A c \in [1..NBdts -> Int] : c # <<>> =>
          Selection(NBdts + 1, c) = {e \in GetStageCuts(1) : \A i \in 1..NBdts : Mva[i][e] > c[i]}
    BY <1>3 DEF Selection, FileStageCuts
  <2>3. GetStageCuts(1) \subseteq Entries
    BY DEF GetStageCuts, GetGeneralStageCuts
  <2>4. \A i \in 1..NBdts, e \in Entries : Mva[i][e] \in Int
    OBVIOUS
  <2>5. ASSUME NEW e \in Selection(NBdts + 1, Points[p]) PROVE e \in Selection(NBdts + 1, Minvals)
    <3>1. e \in GetStageCuts(1) /\ \A i \in 1..NBdts : Mva[i][e] > Points[p][i]
      BY <1>1, <2>1, <2>2, <2>5
    <3>2. \A i \in 1..NBdts : Mva[i][e] > Minvals[i]
      BY <1>1, <2>3, <2>4, <3>1
    <3> QED
      BY <2>1, <2>2, <3>1, <3>2
  <2> QED
    BY <2>5
<1> QED
  BY <1>2, <1>3

-----------------------------------------------------------------------------
\* Which branch of which call a loop makes, by where it stands.
LEMMA LoopCalls ==
  ASSUME PlanInv, job.mode # "sig", StepCall
  PROVE  /\ at = BodyLen - 1 \/ (at = BodyLen - 2 /\ job.mode \notin Stacks)
         /\ at = BodyLen - 1 =>
              \/ StageOf(round) \in {0, 1} /\ \E cuts \in CutArgs : SetBaseEntryList(StageOf(round), cuts)
              \/ StageOf(round) \in BdtStages /\ \E cuts \in CutArgs : SetFilledEntryList(StageOf(round), cuts)
              \/ StageOf(round) \in BdtStages /\ SetEmptyEntryList(StageOf(round), job.cuts)
              \/ SetInvalidStage
         /\ at = BodyLen - 2 =>
              \/ StageOf(round) \in BdtStages /\ CalcBDTEntryList(StageOf(round), job.cuts)
              \/ StageOf(round) = NBdts + 2 /\ CalcPastLast
         /\ StageOf(round) \in -1..NBdts + 2
<1> DEFINE s == StageOf(round)
           arg == IF job.mode \in Stacks THEN job.cuts ELSE <<>>
<1>1. job \in Jobs /\ round \in Nat \ {0} /\ round <= Rounds
  BY DEF PlanInv, StepCall
<1>2. s \in -1..NBdts + 2
  BY <1>1, StageOfRound
<1>3. /\ BodyLen \in 2..4
      /\ Body(round)[BodyLen] = ScanStage(s, job.cuts)
      /\ Body(round)[BodyLen - 1] = Call("set", s, arg)
      /\ job.mode \notin Stacks /\ s > 1 => Body(round)[BodyLen - 2] = Call("calc", s, job.cuts)
      /\ job.mode = "eff" => Body(round)[1] = Scan("denominator", DefinitionCuts, DefinitionCuts)
  BY <1>1, <1>2, BodyOfRound, StageCutsAssumption
<1>4. at \in 1..BodyLen
  BY <1>1 DEF PlanInv, LoopInv
<1>5. arg \in CutArgs
  BY <1>1, JobFields DEF CutArgs
<1>6. \/ NextCall.op = "set" /\ SetStage(NextCall.stage, NextCall.cuts)
      \/ NextCall.op = "calc" /\ CalcList(NextCall.stage, NextCall.cuts)
  BY DEF StepCall
<1>7. at # BodyLen
  BY <1>3, <1>6 DEF NextCall, ScanStage, Scan
<1>8. job.mode = "eff" => at # 1
  BY <1>3, <1>6 DEF NextCall, Scan
<1>9. at = BodyLen - 1 \/ (at = BodyLen - 2 /\ job.mode \notin Stacks /\ s > 1)
  BY <1>3, <1>4, <1>7, <1>8 DEF BodyLen
<1>10. CASE at = BodyLen - 1
  <2>1. NextCall.op = "set" /\ NextCall.stage = s /\ NextCall.cuts = arg
    BY <1>3, <1>10 DEF NextCall, Call
  <2>2. SetStage(s, arg)
    BY <1>6, <2>1
  <2>3. s \in BdtStages /\ SetEmptyEntryList(s, arg) => arg = job.cuts
    <3>1. s \in BdtStages /\ job.mode \notin Stacks => vec_entry_lists[s] # Null
      BY <1>1, <1>10 DEF PlanInv, LoopInv
    <3> QED
      BY <3>1 DEF SetEmptyEntryList
  <2>4. at # BodyLen - 2
    BY <1>3, <1>10
  <2> HIDE DEF arg, s
  <2>5. \/ s \in {0, 1} /\ SetBaseEntryList(s, arg)
        \/ s \in BdtStages /\ SetFilledEntryList(s, arg)
        \/ s \in BdtStages /\ SetEmptyEntryList(s, job.cuts)
        \/ SetInvalidStage
    BY <2>2, <2>3 DEF SetStage
  <2>6. \/ s \in {0, 1} /\ \E cuts \in CutArgs : SetBaseEntryList(s, cuts)
        \/ s \in BdtStages /\ \E cuts \in CutArgs : SetFilledEntryList(s, cuts)
        \/ s \in BdtStages /\ SetEmptyEntryList(s, job.cuts)
        \/ SetInvalidStage
    BY <1>5, <2>5
  <2> QED
    BY <1>2, <1>10, <2>4, <2>6 DEF s
<1>11. CASE at = BodyLen - 2 /\ job.mode \notin Stacks /\ s > 1
  <2>1. NextCall.op = "calc" /\ NextCall.stage = s /\ NextCall.cuts = job.cuts
    BY <1>3, <1>11 DEF NextCall, Call
  <2>2. CalcList(s, job.cuts)
    BY <1>6, <2>1
  <2>3. \/ s \in BdtStages /\ CalcBDTEntryList(s, job.cuts)
        \/ s = NBdts + 2 /\ CalcPastLast
    BY <1>2, <2>2, StageCutsAssumption DEF CalcList, BdtStages
  <2>4. at # BodyLen - 1
    BY <1>3, <1>11
  <2> QED
    BY <1>2, <1>11, <2>3, <2>4
<1> QED
  BY <1>9, <1>10, <1>11

\* Writing past the slots ends the program or leaves the lists as they are.
LEMMA PastLastOutcome ==
  ASSUME PlanInv, CalcPastLast
  PROVE  SetInvalidStage \/ UNCHANGED vars
<1>1. exited \in BOOLEAN
  BY DEF PlanInv, ListsInv, CompleteInv, ShapeInv, TypeOK
<1>2. ~exited /\ exited' \in BOOLEAN /\ UNCHANGED <<vec_entry_lists, active, filledFor>>
  BY DEF CalcPastLast
<1>3. exited' = TRUE \/ exited' = exited
  BY <1>1, <1>2, Zenon
<1> QED
  BY <1>2, <1>3, Zenon DEF SetInvalidStage, vars

\* The two calls of a significance scan.
LEMMA SigCalls ==
  ASSUME PlanInv, job.mode = "sig", StepCall
  PROVE  /\ round = 1
         /\ \/ at = 1 /\ SetBaseEntryList(1, <<>>)
            \/ at = 2 /\ NBdts + 1 = 1 /\ SetBaseEntryList(1, Minvals)
            \/ /\ at = 2 /\ NBdts + 1 \in BdtStages
               /\ SetFilledEntryList(NBdts + 1, Minvals) \/ SetEmptyEntryList(NBdts + 1, Minvals)
<1> USE StageCutsAssumption
<1>1. \/ NextCall.op = "set" /\ SetStage(NextCall.stage, NextCall.cuts)
      \/ NextCall.op = "calc" /\ CalcList(NextCall.stage, NextCall.cuts)
  BY DEF StepCall
<1>2. round \in Nat \ {0} /\ (round = 1 => at \in 1..3) /\ (round > 1 => at = 1)
  BY DEF PlanInv, SigInv
<1>3. NextCall = ScanSignificance(round)[at]
  BY DEF NextCall, Body
<1>4. ~(round > 1)
  <2> SUFFICES ASSUME round > 1 PROVE FALSE
    OBVIOUS
  <2>1. NextCall.op = "scan"
    BY <1>2, <1>3 DEF ScanSignificance, ScanGridPoint, Scan
  <2> QED
    BY <1>1, <2>1
<1>5. round = 1
  BY <1>2, <1>4
<1> DEFINE first == Call("set", 1, <<>>)
           second == Call("set", NBdts + 1, Minvals)
           total == Scan("total signal", GetStageCuts(1), GetStageCuts(1))
<1>c. ScanSignificance(round) = <<first, second, total>>
  BY <1>5 DEF ScanSignificance
<1>f. first.op = "set" /\ first.stage = 1 /\ first.cuts = <<>>
  BY DEF Call
<1>s. second.op = "set" /\ second.stage = NBdts + 1 /\ second.cuts = Minvals
  BY DEF Call
<1>t. total.op = "scan"
  BY DEF Scan
<1> HIDE DEF first, second, total
<1>6. NextCall = <<first, second, total>>[at]
  BY <1>3, <1>c
<1>7. CASE at = 1
  <2>1. NextCall.op = "set" /\ NextCall.stage = 1 /\ NextCall.cuts = <<>>
    BY <1>6, <1>7, <1>f
  <2>2. SetStage(1, <<>>)
    BY <1>1, <2>1
  <2> QED
    BY <1>5, <1>7, <2>2 DEF SetStage, BdtStages
<1>8. CASE at = 2
  <2>1. NextCall.op = "set" /\ NextCall.stage = NBdts + 1 /\ NextCall.cuts = Minvals
    BY <1>6, <1>8, <1>s
  <2>2. SetStage(NBdts + 1, Minvals)
    BY <1>1, <2>1
  <2> QED
    BY <1>5, <1>8, <2>2 DEF SetStage, BdtStages
<1>9. CASE at = 3
  <2>1. NextCall.op = "scan"
    BY <1>6, <1>9, <1>t
  <2> QED
    BY <1>1, <2>1
<1> QED
  BY <1>2, <1>5, <1>7, <1>8, <1>9

\* So every list is drawn upwards, for the cuts of the invocation.
LEMMA CallsInOrder ==
  ASSUME PlanInv, StepCall
  PROVE  \/ \E j \in {0, 1}, cuts \in CutArgs : SetBaseEntryList(j, cuts)
         \/ \E j \in BdtStages, cuts \in CutArgs : SetFilledEntryList(j, cuts)
         \/ \E j \in BdtStages : Fills(j, job.cuts) /\ InOrder(j, job.cuts)
         \/ SetInvalidStage
         \/ UNCHANGED vars
<1>1. job \in Jobs /\ round <= Rounds
  BY DEF PlanInv, StepCall
<1>2. ASSUME NEW j \in BdtStages, active <= j PROVE InOrder(j, job.cuts)
  BY <1>2 DEF InOrder, PlanInv, ListsInv, DrawnForJob
<1>3. CASE job.mode # "sig"
  <2>1. active <= StageOf(round)
    BY <1>1, <1>3 DEF PlanInv, LoopInv
  <2>2. StageOf(round) \in BdtStages => InOrder(StageOf(round), job.cuts)
    BY <1>2, <2>1
  <2> QED
    BY <1>3, <2>2, LoopCalls, PastLastOutcome DEF Fills
<1>4. CASE job.mode = "sig"
  <2>1. job.cuts = Minvals /\ Minvals \in CutArgs /\ <<>> \in CutArgs
    BY <1>1, <1>4, JobFields, PlansAssumption DEF CutArgs
  <2>2. round = 1 /\ at = 2 => active <= NBdts + 1
    BY <1>4, StageCutsAssumption DEF PlanInv, SigInv
  <2> QED
    BY <1>2, <1>4, <2>1, <2>2, SigCalls DEF Fills
<1> QED
  BY <1>3, <1>4

-----------------------------------------------------------------------------
LEMMA PlanInitInv == PlanInit => PlanInv
<1> SUFFICES ASSUME PlanInit PROVE PlanInv
  OBVIOUS
<1> USE StageCutsAssumption
<1>1. ShapeInv /\ active = -1 /\ job \in Jobs /\ round = 1 /\ at = 1 /\ whole = Entries
  BY ShapeInit DEF PlanInit, Init
<1>2. ListsInv
  BY <1>1 DEF PlanInit, Init, ListsInv, CompleteInv, ListsSound, ListsComplete, DrawnForJob
<1>3. LoopInv
  <2> SUFFICES ASSUME job.mode # "sig", round <= Rounds PROVE LoopInv
    BY DEF LoopInv
  <2>1. StageOf(round) \in -1..NBdts + 2
    BY <1>1, StageOfRound
  <2>2. BodyLen \in 2..4 /\ (BodyLen = 2 => job.mode \in Stacks \/ StageOf(round) <= 1)
    BY <2>1 DEF BodyLen
  <2> QED
    BY <1>1, <2>1, <2>2 DEF LoopInv, BdtStages
<1>4. SigInv
  BY <1>1 DEF SigInv
<1>5. StageScansExact /\ EfficienciesBelowOne
  BY DEF PlanInit, Scan, StageScansExact, EfficienciesBelowOne
<1> QED
  BY <1>1, <1>2, <1>3, <1>4, <1>5 DEF PlanInv

\* The lists, call by call.
LEMMA ListsStep ==
  ASSUME PlanInv, StepCall
  PROVE  ListsInv'
<1>1. ListsInv /\ job \in Jobs /\ job.cuts \in CutArgs /\ job' = job
  BY JobFields DEF PlanInv, StepCall, Advance
<1>2. ASSUME UNCHANGED <<vec_entry_lists, filledFor>>
      PROVE  (ListsSound /\ ListsComplete /\ DrawnForJob)'
  BY <1>1, <1>2, SoundKept, CompleteKept DEF ListsInv, CompleteInv, DrawnForJob
<1>3. ASSUME NEW j \in BdtStages, Fills(j, job.cuts), InOrder(j, job.cuts)
      PROVE  (ListsSound /\ ListsComplete /\ DrawnForJob)'
  <2>1. PICK cuts \in CutArgs : cuts = job.cuts
    BY <1>1
  <2>2. Fills(j, cuts) /\ InOrder(j, cuts)
    BY <1>3, <2>1
  <2>3. ListsSound' /\ ListsComplete'
    BY <1>1, <2>2, SoundFill, CompleteFill DEF ListsInv, CompleteInv
  <2>4. \A k \in BdtStages :
          /\ vec_entry_lists'[k] = IF k = j THEN DrawnList(j, cuts) ELSE vec_entry_lists[k]
          /\ filledFor'[k] = IF k = j THEN cuts ELSE filledFor[k]
    BY <1>1, <2>2, FilledSlots DEF ListsInv, CompleteInv, ShapeInv
  <2>5. DrawnForJob'
    BY <1>1, <2>1, <2>4 DEF ListsInv, DrawnForJob
  <2> QED
    BY <2>3, <2>5
<1>4. [Next]_vars
  BY <1>1, CallsInOrder DEF Next, Fills
<1>5. ShapeInv'
  BY <1>1, <1>4, ShapeStep DEF ListsInv, CompleteInv
<1>6. (ListsSound /\ ListsComplete /\ DrawnForJob)'
  BY <1>2, <1>3, CallsInOrder DEF SetBaseEntryList, SetFilledEntryList, SetInvalidStage, vars
<1> QED
  BY <1>5, <1>6 DEF ListsInv, CompleteInv

\* A selection depends on the stage and the cuts only.
LEMMA SelectionPrime ==
  ASSUME UNCHANGED job, StageOf(round)' = StageOf(round)
  PROVE  Selection(StageOf(round), job.cuts)' = Selection(StageOf(round), job.cuts)
BY DEF Selection, FileStageCuts, GetStageCuts, FileNegativeStage,
       GetGeneralStageCuts, ConfiguredBdts

LEMMA SameRound ==
  ASSUME UNCHANGED <<job, round>>
  PROVE  /\ StageOf(round)' = StageOf(round)
         /\ BodyLen' = BodyLen
         /\ Rounds' = Rounds
         /\ Selection(StageOf(round), job.cuts)' = Selection(StageOf(round), job.cuts)
<1>1. StageOf(round)' = StageOf(round)
  BY DEF StageOf, EveryStage
<1>2. BodyLen' = BodyLen
  BY <1>1 DEF BodyLen
<1>3. Rounds' = Rounds
  BY DEF Rounds, EveryStage
<1> QED
  BY <1>1, <1>2, <1>3, SelectionPrime

\* A loop at a call.
LEMMA LoopCallStep ==
  ASSUME PlanInv, job.mode # "sig", StepCall
  PROVE  LoopInv'
<1> USE StageCutsAssumption
<1>1. /\ job \in Jobs /\ round \in Nat \ {0} /\ round <= Rounds /\ ShapeInv
      /\ job' = job /\ scan' = scan /\ whole' = whole
  BY DEF PlanInv, ListsInv, CompleteInv, StepCall, Advance
<1>2. StageOf(round) \in -1..NBdts + 2
  BY <1>1, StageOfRound
<1>3. BodyLen \in 2..4 /\ Len(Body(round)) = BodyLen
  BY <1>1, <1>2, BodyOfRound
<1>4. LoopInv /\ at \in 1..BodyLen
  BY <1>1 DEF PlanInv, LoopInv
<1>5. at < BodyLen
  BY <1>3, LoopCalls
<1>6. at' = at + 1 /\ round' = round
  BY <1>3, <1>5 DEF StepCall, Advance
<1>7. /\ StageOf(round)' = StageOf(round)
      /\ BodyLen' = BodyLen
      /\ Selection(StageOf(round), job.cuts)' = Selection(StageOf(round), job.cuts)
  BY <1>1, <1>6, SameRound
<1>8. job.mode = "eff" => at > 1
  BY <1>3, <1>4, LoopCalls DEF BodyLen, BdtStages, Stacks
<1>9. /\ job.mode = "eff" /\ StageOf(round) \in 0..NBdts + 1 =>
           Selection(StageOf(round), job.cuts) \subseteq whole
      /\ job.mode # "eff" => whole = Entries
  BY <1>1, <1>4, <1>8 DEF LoopInv
<1>10. CASE at = BodyLen - 1
  <2>1. \/ active' = StageOf(round) /\ StageOf(round) \in 0..NBdts + 1
        \/ active' = active /\ exited'
    <3>1. \/ active' = StageOf(round) /\ StageOf(round) \in {0, 1} \cup BdtStages
          \/ active' = active /\ exited'
      BY <1>10, LoopCalls DEF SetBaseEntryList, SetFilledEntryList, SetEmptyEntryList,
         SetInvalidStage
    <3> QED
      BY <3>1 DEF BdtStages
  <2>2. active <= StageOf(round)
    BY <1>1, <1>4 DEF LoopInv
  <2> QED
    BY <1>1, <1>2, <1>3, <1>6, <1>7, <1>9, <1>10, <2>1, <2>2 DEF LoopInv
<1>11. CASE at = BodyLen - 2 /\ StageOf(round) \in BdtStages
  <2>1. CalcBDTEntryList(StageOf(round), job.cuts)
    BY <1>11, LoopCalls DEF BdtStages
  <2>2. PICK j \in BdtStages, cuts \in CutArgs : j = StageOf(round) /\ cuts = job.cuts
    BY <1>1, <1>11, JobFields
  <2>3. CalcBDTEntryList(j, cuts)
    BY <2>1, <2>2
  <2>4. vec_entry_lists'[j] # Null
    BY <1>1, <2>3, DrawnListIsEntries DEF CalcBDTEntryList, ShapeInv, TypeOK
  <2>5. active' = active
    BY <2>3 DEF CalcBDTEntryList
  <2>6. active <= StageOf(round)
    BY <1>1, <1>4 DEF LoopInv
  <2> QED
    BY <1>1, <1>2, <1>3, <1>6, <1>7, <1>9, <1>11, <2>2, <2>4, <2>5, <2>6 DEF LoopInv
<1>12. CASE at = BodyLen - 2 /\ StageOf(round) = NBdts + 2
  <2>1. active' = active
    BY <1>12, LoopCalls DEF CalcPastLast, BdtStages
  <2>2. active <= StageOf(round)
    BY <1>1, <1>4 DEF LoopInv
  <2> QED
    BY <1>1, <1>2, <1>3, <1>6, <1>7, <1>9, <1>12, <2>1, <2>2 DEF LoopInv, BdtStages
<1> QED
  BY <1>10, <1>11, <1>12, LoopCalls

\* The next round of a loop is about the same stage or the one above.
LEMMA NextRound ==
  ASSUME job \in Jobs, job.mode # "sig", round \in Nat \ {0}, round <= Rounds,
         job' = job, round' = round + 1, round' <= Rounds'
  PROVE  /\ StageOf(round)' \in -1..NBdts + 2
         /\ StageOf(round)' >= StageOf(round)
         /\ BodyLen' \in 2..4
         /\ BodyLen' = 2 => job.mode \in Stacks \/ StageOf(round)' <= 1
<1> USE StageCutsAssumption
<1>1. PICK n \in Nat \ {0} : n = round + 1
  OBVIOUS
<1>2. n <= Rounds
  BY <1>1 DEF Rounds, EveryStage
<1>3. StageOf(n) \in -1..NBdts + 2 /\ StageOf(round) \in -1..NBdts + 2
  BY <1>2, StageOfRound
<1>4. StageOf(round)' = StageOf(n) /\ StageOf(n) >= StageOf(round)
  BY <1>1, <1>3, JobFields DEF StageOf, EveryStage
<1>5. BodyLen' \in 2..4 /\ (BodyLen' = 2 => job.mode \in Stacks \/ StageOf(round)' <= 1)
  BY <1>3, <1>4 DEF BodyLen
<1> QED
  BY <1>3, <1>4, <1>5

\* A loop at a scan: of its stage, or of the denominator.
LEMMA LoopScanStep ==
  ASSUME PlanInv, job.mode # "sig", StepScan
  PROVE  LoopInv' /\ StageScansExact' /\ EfficienciesBelowOne'
<1> USE StageCutsAssumption
<1> DEFINE s == StageOf(round)
<1>1. /\ job \in Jobs /\ round \in Nat \ {0} /\ round <= Rounds /\ ~exited /\ ListsInv
      /\ job' = job /\ UNCHANGED vars
  BY DEF PlanInv, StepScan, Advance
<1>2. s \in -1..NBdts + 2 /\ job.cuts \in CutArgs
  BY <1>1, StageOfRound, JobFields
<1>3. /\ BodyLen \in 2..4
      /\ Len(Body(round)) = BodyLen
      /\ Body(round)[BodyLen] = ScanStage(s, job.cuts)
      /\ Body(round)[BodyLen - 1] =
           Call("set", s, IF job.mode \in Stacks THEN job.cuts ELSE <<>>)
      /\ job.mode \notin Stacks /\ s > 1 => Body(round)[BodyLen - 2] = Call("calc", s, job.cuts)
      /\ job.mode = "eff" => Body(round)[1] = Scan("denominator", DefinitionCuts, DefinitionCuts)
  BY <1>1, <1>2, BodyOfRound
<1>4. LoopInv /\ at \in 1..BodyLen
  BY <1>1 DEF PlanInv, LoopInv
<1>5. /\ scan' = [NextCall EXCEPT !.filter = NextCall.filter \cap ActiveEntries]
      /\ whole' = IF NextCall.what \in Denominators THEN scan'.filter ELSE whole
      /\ NextCall.op = "scan"
  BY DEF StepScan
<1>6. at # BodyLen - 1
  BY <1>3, <1>5 DEF NextCall, Call
<1>7. job.mode \notin Stacks /\ s > 1 => at # BodyLen - 2
  BY <1>3, <1>5 DEF NextCall, Call
<1>8. at = BodyLen \/ (job.mode = "eff" /\ at = 1)
  BY <1>3, <1>4, <1>6, <1>7 DEF BodyLen
<1>9. active \in -1..NBdts + 1 /\ active <= s
  BY <1>1, <1>4 DEF ListsInv, CompleteInv, ShapeInv, TypeOK, LoopInv
<1>10. ActiveEntries \subseteq Entries
  BY <1>1, ActiveIsEntries DEF ListsInv, CompleteInv
<1>11. CASE at = BodyLen
  <2>1. active = s /\ active \in 0..NBdts + 1
    BY <1>1, <1>4, <1>11 DEF LoopInv
  <2>2. ActiveEntries = Selection(s, job.cuts)
    BY <1>1, <2>1, ActiveIsSelection
  <2>3. NextCall = ScanStage(s, job.cuts)
    BY <1>3, <1>11 DEF NextCall
  <2>4. /\ NextCall.what = "stage" /\ NextCall.filter = Entries
        /\ NextCall.meant = Selection(s, job.cuts)
    BY <2>3 DEF ScanStage, Scan
  <2>5. /\ scan'.what = "stage" /\ scan'.filter = Selection(s, job.cuts)
        /\ scan'.meant = Selection(s, job.cuts)
    <3>1. scan' = [ScanStage(s, job.cuts) EXCEPT !.filter = Entries \cap ActiveEntries]
      BY <1>5, <2>3, <2>4
    <3> QED
      BY <1>10, <2>2, <3>1 DEF ScanStage, Scan
  <2>6. whole' = whole
    BY <1>5, <2>4 DEF Denominators
  <2>7. Selection(s, job.cuts) \subseteq whole
    <3>1. CASE job.mode = "eff"
      <4>1. at > 1
        BY <1>3, <1>11
      <4> QED
        BY <1>1, <1>4, <2>1, <3>1, <4>1 DEF LoopInv
    <3>2. CASE job.mode # "eff"
      BY <1>1, <1>4, <1>10, <2>2, <3>2 DEF LoopInv
    <3> QED
      BY <3>1, <3>2
  <2>8. StageScansExact' /\ EfficienciesBelowOne'
    BY <2>5, <2>6, <2>7 DEF StageScansExact, EfficienciesBelowOne
  <2>9. at' = 1 /\ round' = round + 1
    BY <1>3, <1>11 DEF StepScan, Advance
  <2>10. LoopInv'
    <3> SUFFICES ASSUME round' <= Rounds' PROVE LoopInv'
      BY DEF LoopInv
    <3>1. /\ StageOf(round)' \in -1..NBdts + 2
          /\ StageOf(round)' >= s
          /\ BodyLen' \in 2..4
          /\ BodyLen' = 2 => job.mode \in Stacks \/ StageOf(round)' <= 1
      BY <1>1, <2>9, NextRound
    <3>2. active' = active /\ (job.mode # "eff" => whole' = Entries)
      BY <1>1, <1>4, <2>6 DEF vars, LoopInv
    <3> QED
      BY <1>1, <1>2, <1>9, <2>9, <3>1, <3>2 DEF LoopInv, BdtStages
  <2> QED
    BY <2>8, <2>10
<1>12. CASE job.mode = "eff" /\ at = 1
  <2>1. NextCall = Scan("denominator", DefinitionCuts, DefinitionCuts)
    BY <1>3, <1>12 DEF NextCall
  <2>2. NextCall.what = "denominator" /\ NextCall.filter = DefinitionCuts
    BY <2>1 DEF Scan
  <2>3. scan'.what = "denominator" /\ scan'.filter = DefinitionCuts \cap ActiveEntries
    BY <1>5, <2>1, <2>2 DEF Scan
  <2>4. whole' = DefinitionCuts \cap ActiveEntries
    BY <1>5, <2>2, <2>3 DEF Denominators
  <2>5. s \in 0..NBdts + 1 => Selection(s, job.cuts) \subseteq whole'
    BY <1>1, <1>2, <1>9, <1>12, <2>4, ActiveBelow, WithinDefinition
  <2>6. StageScansExact' /\ EfficienciesBelowOne'
    BY <2>3 DEF StageScansExact, EfficienciesBelowOne
  <2>7. BodyLen \in 3..4 /\ (BodyLen = 3 => s <= 1)
    BY <1>2, <1>12 DEF BodyLen, Stacks
  <2>8. at' = 2 /\ round' = round
    BY <1>3, <1>12, <2>7 DEF StepScan, Advance
  <2>9. /\ StageOf(round)' = s /\ BodyLen' = BodyLen
        /\ Selection(StageOf(round), job.cuts)' = Selection(s, job.cuts)
    BY <1>1, <2>8, SameRound
  <2>10. active' = active
    BY <1>1 DEF vars
  <2>11. LoopInv'
    BY <1>1, <1>2, <1>9, <1>12, <2>5, <2>7, <2>8, <2>9, <2>10 DEF LoopInv, BdtStages
  <2> QED
    BY <2>6, <2>11
<1> QED
  BY <1>8, <1>11, <1>12

-----------------------------------------------------------------------------
\* The bodies of a significance scan have three calls, then one each.
LEMMA SigBody ==
  ASSUME job.mode = "sig", round \in Nat \ {0}
  PROVE  /\ round = 1 =>
              /\ Len(Body(round)) = 3
              /\ Body(round)[1].op = "set" /\ Body(round)[2].op = "set"
              /\ Body(round)[3] = Scan("total signal", GetStageCuts(1), GetStageCuts(1))
         /\ round > 1 =>
              /\ Len(Body(round)) = 1
              /\ Body(round)[1] = Scan("stage", Selection(NBdts + 1, Points[round - 1]),
                                       Selection(NBdts + 1, Points[round - 1]))
<1>1. CASE round = 1
  <2> DEFINE first == Call("set", 1, <<>>)
             second == Call("set", NBdts + 1, Minvals)
             total == Scan("total signal", GetStageCuts(1), GetStageCuts(1))
  <2>0. ScanSignificance(round) = <<first, second, total>>
    BY <1>1 DEF ScanSignificance
  <2>2. first.op = "set" /\ second.op = "set"
    BY DEF Call
  <2> HIDE DEF first, second, total
  <2>1. Body(round) = <<first, second, total>>
    BY <2>0 DEF Body
  <2>3. /\ Len(Body(round)) = 3
        /\ Body(round)[1] = first /\ Body(round)[2] = second /\ Body(round)[3] = total
    BY <2>1
  <2>4. Body(round)[1].op = "set" /\ Body(round)[2].op = "set"
    BY <2>2, <2>3
  <2>5. ~(round > 1)
    BY <1>1
  <2> QED
    BY <2>3, <2>4, <2>5 DEF total
<1>2. CASE round > 1
  <2> DEFINE point == Scan("stage", Selection(NBdts + 1, Points[round - 1]),
                           Selection(NBdts + 1, Points[round - 1]))
  <2>0. ScanSignificance(round) = <<point>>
    BY <1>2 DEF ScanSignificance, ScanGridPoint
  <2> HIDE DEF point
  <2>1. Body(round) = <<point>>
    BY <2>0 DEF Body
  <2>2. Len(Body(round)) = 1 /\ Body(round)[1] = point
    BY <2>1
  <2> QED
    BY <1>2, <2>2 DEF point
<1> QED
  BY <1>1, <1>2

LEMMA SigCallStep ==
  ASSUME PlanInv, job.mode = "sig", StepCall
  PROVE  SigInv'
<1>1. round = 1 /\ round \in Nat \ {0} /\ job' = job
  BY SigCalls DEF PlanInv, StepCall, Advance
<1>2. Len(Body(round)) = 3
  BY <1>1, SigBody
<1>a. at \in 1..2
  BY SigCalls
<1>b. Advance
  BY DEF StepCall
<1>3. at \in 1..2 /\ at' = at + 1 /\ round' = 1
  BY <1>1, <1>2, <1>a, <1>b DEF Advance
<1>4. (at = 1 => active' = 1) /\ (at = 2 => active' = NBdts + 1)
  BY SigCalls DEF SetBaseEntryList, SetFilledEntryList, SetEmptyEntryList
<1> QED
  BY <1>1, <1>3, <1>4 DEF SigInv

\* The total signal, then the grid points within it.
LEMMA SigScanStep ==
  ASSUME PlanInv, job.mode = "sig", StepScan
  PROVE  SigInv' /\ StageScansExact' /\ EfficienciesBelowOne'
<1> USE StageCutsAssumption, PlansAssumption
<1> DEFINE top == Selection(NBdts + 1, Minvals)
<1>1. /\ job \in Jobs /\ round \in Nat \ {0} /\ round <= Rounds /\ ListsInv /\ SigInv
      /\ job' = job /\ active' = active
  BY DEF PlanInv, StepScan, Advance, vars
<1>2. job.cuts = Minvals
  BY <1>1, JobFields
<1>3. /\ scan' = [NextCall EXCEPT !.filter = NextCall.filter \cap ActiveEntries]
      /\ whole' = IF NextCall.what \in Denominators THEN scan'.filter ELSE whole
      /\ NextCall.op = "scan"
  BY DEF StepScan
<1>4. active = NBdts + 1 => ActiveEntries = top
  BY <1>1, <1>2, ActiveIsSelection
<1>5. CASE round = 1
  <2>1. at = 3
    <3>1. at \in 1..3
      BY <1>1, <1>5 DEF SigInv
    <3>2. Body(round)[1].op = "set" /\ Body(round)[2].op = "set"
      BY <1>1, <1>5, SigBody
    <3> QED
      BY <1>3, <3>1, <3>2 DEF NextCall
  <2>2. active = NBdts + 1 /\ ActiveEntries = top
    BY <1>1, <1>4, <1>5, <2>1 DEF SigInv
  <2>3. NextCall = Scan("total signal", GetStageCuts(1), GetStageCuts(1))
    BY <1>1, <1>5, <2>1, SigBody DEF NextCall
  <2>4. scan'.what = "total signal" /\ scan'.filter = GetStageCuts(1) \cap top
    BY <1>3, <2>2, <2>3 DEF Scan
  <2>5. whole' = GetStageCuts(1) \cap top
    BY <1>3, <2>3, <2>4 DEF Scan, Denominators
  <2>6. top \subseteq GetStageCuts(1)
    <3>1. \A c \in CutArgs : \A j, k \in 0..NBdts + 1 : k <= j => Selection(j, c) \subseteq Selection(k, c)
      BY SelectionsNest
    <3>2. Minvals \in CutArgs /\ NBdts + 1 \in 0..NBdts + 1 /\ 1 \in 0..NBdts + 1 /\ 1 <= NBdts + 1
      OBVIOUS
    <3>3. top \subseteq Selection(1, Minvals)
      BY <3>1, <3>2
    <3>4. Selection(1, Minvals) = GetStageCuts(1)
      BY BaseSelection
    <3> QED
      BY <3>3, <3>4
  <2>7. at' = 1 /\ round' = 2
    <3>1. Len(Body(round)) = 3
      BY <1>1, <1>5, SigBody
    <3>2. Advance
      BY DEF StepScan
    <3>3. ~(at < Len(Body(round)))
      BY <2>1, <3>1
    <3>4. at' = 1 /\ round' = round + 1
      BY <3>2, <3>3 DEF Advance
    <3> QED
      BY <1>5, <3>4
  <2>8. top' = top
    BY DEF Selection, FileStageCuts, GetStageCuts, FileNegativeStage,
           GetGeneralStageCuts, ConfiguredBdts
  <2>9. SigInv'
    BY <1>1, <2>2, <2>5, <2>6, <2>7, <2>8 DEF SigInv
  <2> QED
    BY <2>4, <2>9 DEF StageScansExact, EfficienciesBelowOne
<1>6. CASE round > 1
  <2>1. at = 1 /\ active = NBdts + 1 /\ ActiveEntries = top /\ top \subseteq whole
    BY <1>1, <1>4, <1>6 DEF SigInv
  <2>2. PICK p \in DOMAIN Points : p = round - 1
    BY <1>1, <1>6 DEF Rounds
  <2>3. NextCall = Scan("stage", Selection(NBdts + 1, Points[p]), Selection(NBdts + 1, Points[p]))
    BY <1>1, <1>6, <2>1, <2>2, SigBody DEF NextCall
  <2>4. Selection(NBdts + 1, Points[p]) \subseteq top
    BY GridWithinMinvals
  <2>5. /\ scan'.what = "stage" /\ scan'.filter = Selection(NBdts + 1, Points[p])
        /\ scan'.meant = Selection(NBdts + 1, Points[p])
    <3> DEFINE sel == Selection(NBdts + 1, Points[p])
    <3>1. sel \cap ActiveEntries = sel
      BY <2>1, <2>4
    <3> HIDE DEF sel
    <3>2. NextCall = Scan("stage", sel, sel)
      BY <2>3 DEF sel
    <3>3. scan'.what = "stage" /\ scan'.filter = sel /\ scan'.meant = sel
      BY <1>3, <3>1, <3>2 DEF Scan
    <3> QED
      BY <3>3 DEF sel
  <2>6. whole' = whole
    BY <1>3, <2>3 DEF Scan, Denominators
  <2>7. at' = 1 /\ round' = round + 1
    <3>1. Len(Body(round)) = 1
      BY <1>1, <1>6, SigBody
    <3>2. Advance
      BY DEF StepScan
    <3> QED
      BY <2>1, <3>1, <3>2 DEF Advance
  <2>8. top' = top
    BY DEF Selection, FileStageCuts, GetStageCuts, FileNegativeStage,
           GetGeneralStageCuts, ConfiguredBdts
  <2>9. SigInv'
    BY <1>1, <1>6, <2>1, <2>6, <2>7, <2>8 DEF SigInv
  <2>10. scan'.filter \subseteq whole'
    BY <2>1, <2>4, <2>5, <2>6
  <2> QED
    BY <2>5, <2>9, <2>10 DEF StageScansExact, EfficienciesBelowOne
<1> QED
  BY <1>1, <1>5, <1>6

-----------------------------------------------------------------------------
LEMMA PlanStep == PlanInv /\ [PlanNext]_planvars => PlanInv'
<1> SUFFICES ASSUME PlanInv, [PlanNext]_planvars PROVE PlanInv'
  OBVIOUS
<1>0. /\ job \in Jobs /\ round \in Nat \ {0} /\ ListsInv /\ LoopInv /\ SigInv
      /\ StageScansExact /\ EfficienciesBelowOne
  BY DEF PlanInv
<1>1. ASSUME Advance PROVE job' = job /\ job' \in Jobs /\ round' \in Nat \ {0}
  <2>1. job' = job /\ (round' = round \/ round' = round + 1)
    BY <1>1 DEF Advance
  <2>2. job' \in Jobs
    BY <1>0, <2>1 DEF Jobs, CutArgs
  <2> QED
    BY <1>0, <2>1, <2>2
<1>2. ASSUME job' = job, job.mode # "sig" PROVE SigInv'
  BY <1>2 DEF SigInv
<1>3. ASSUME job' = job, job.mode = "sig" PROVE LoopInv'
  BY <1>3 DEF LoopInv
<1>4. ASSUME UNCHANGED vars, job' = job PROVE ListsInv'
  <2>1. ListsSound' /\ ListsComplete'
    BY <1>0, <1>4, SoundKept, CompleteKept DEF vars, ListsInv, CompleteInv
  <2>2. ShapeInv'
    BY <1>0, <1>4, ShapeStep DEF ListsInv, CompleteInv
  <2>3. DrawnForJob'
    BY <1>0, <1>4 DEF ListsInv, DrawnForJob, vars
  <2> QED
    BY <2>1, <2>2, <2>3 DEF ListsInv, CompleteInv
<1>5. CASE StepCall
  <2>1. Advance /\ scan' = scan /\ whole' = whole
    BY <1>5 DEF StepCall
  <2>2. StageScansExact' /\ EfficienciesBelowOne'
    BY <1>0, <2>1 DEF StageScansExact, EfficienciesBelowOne
  <2>3. LoopInv' /\ SigInv'
    BY <1>1, <1>2, <1>3, <1>5, <2>1, LoopCallStep, SigCallStep
  <2> QED
    BY <1>1, <1>5, <2>1, <2>2, <2>3, ListsStep DEF PlanInv
<1>6. CASE StepScan
  <2>1. Advance /\ UNCHANGED vars
    BY <1>6 DEF StepScan
  <2>2. LoopInv' /\ SigInv' /\ StageScansExact' /\ EfficienciesBelowOne'
    BY <1>1, <1>2, <1>3, <1>6, <2>1, LoopScanStep, SigScanStep
  <2> QED
    BY <1>1, <1>4, <2>1, <2>2 DEF PlanInv
<1>7. CASE UNCHANGED planvars
  <2>1. UNCHANGED <<job, round, at, scan, whole, vars>>
    BY <1>7 DEF planvars
  <2>2. job' \in Jobs /\ round' \in Nat \ {0}
    BY <1>0, <2>1 DEF Jobs, CutArgs
  <2>3. StageScansExact' /\ EfficienciesBelowOne'
    BY <1>0, <2>1 DEF StageScansExact, EfficienciesBelowOne
  <2>4. LoopInv'
    <3>1. /\ StageOf(round)' = StageOf(round) /\ BodyLen' = BodyLen /\ Rounds' = Rounds
          /\ Selection(StageOf(round), job.cuts)' = Selection(StageOf(round), job.cuts)
      BY <2>1, SameRound
    <3> QED
      BY <1>0, <2>1, <3>1 DEF LoopInv, vars
  <2>5. SigInv'
    <3>1. Selection(NBdts + 1, Minvals)' = Selection(NBdts + 1, Minvals)
      BY DEF Selection, FileStageCuts, GetStageCuts, FileNegativeStage,
             GetGeneralStageCuts, ConfiguredBdts
    <3> QED
      BY <1>0, <2>1, <3>1 DEF SigInv, vars
  <2> QED
    BY <1>4, <2>1, <2>2, <2>3, <2>4, <2>5 DEF PlanInv
<1> QED
  BY <1>5, <1>6, <1>7 DEF PlanNext

(* In every mode, with whatever it called before, a scan at a stage reads    *)
(* what passes the stage: no list of an earlier call hides an entry.         *)
THEOREM StageScansAlwaysExact == PlanSpec => []StageScansExact
<1>1. PlanInv => StageScansExact
  BY DEF PlanInv
<1> QED
  BY <1>1, PlanInitInv, PlanStep, PTL DEF PlanSpec

(* No efficiency of mode eff and no signal fraction of a scan exceeds one,   *)
(* whatever list was on the tree when the whole was counted.                 *)
THEOREM EfficienciesAlwaysBelowOne == PlanSpec => []EfficienciesBelowOne
<1>1. PlanInv => EfficienciesBelowOne
  BY DEF PlanInv
<1> QED
  BY <1>1, PlanInitInv, PlanStep, PTL DEF PlanSpec

(* No mode makes a list that misses entries of its cuts.                     *)
THEOREM PlanListsComplete == PlanSpec => []ListsComplete
<1>1. PlanInv => ListsComplete
  BY DEF PlanInv, ListsInv, CompleteInv
<1> QED
  BY <1>1, PlanInitInv, PlanStep, PTL DEF PlanSpec

(* Every mode is a caller that goes up the stages with one set of cuts: the  *)
(* calls of a mode are steps of the stage lists called in that order.        *)
THEOREM CallersAlwaysInOrder == PlanSpec => CallersGoInOrder
<1>1. PlanInit => Ordered!Init
  BY DEF PlanInit, Init, Ordered!Init, BdtStages, Ordered!BdtStages
<1>2. PlanInv /\ [PlanNext]_planvars => [Ordered!Next]_Ordered!vars
  <2> SUFFICES ASSUME PlanInv, [PlanNext]_planvars PROVE [Ordered!Next]_Ordered!vars
    OBVIOUS
  <2>1. CASE StepCall
    <3>1. ASSUME NEW j \in {0, 1}, NEW cuts \in CutArgs, SetBaseEntryList(j, cuts)
          PROVE  Ordered!SetBaseEntryList(j, cuts)
      BY <3>1 DEF SetBaseEntryList, Ordered!SetBaseEntryList
    <3>2. ASSUME NEW j \in BdtStages, NEW cuts \in CutArgs, SetFilledEntryList(j, cuts)
          PROVE  Ordered!SetFilledEntryList(j, cuts)
      BY <3>2 DEF SetFilledEntryList, Ordered!SetFilledEntryList
    <3>3. ASSUME NEW j \in BdtStages, Fills(j, job.cuts), InOrder(j, job.cuts)
          PROVE  \/ Ordered!CalcBDTEntryList(j, job.cuts)
                 \/ Ordered!SetEmptyEntryList(j, job.cuts)
      <4>1. Ordered!InOrder(j, job.cuts)
        BY <3>3 DEF InOrder, Ordered!InOrder, BdtStages, Ordered!BdtStages
      <4>2. Ordered!ActiveEntries = ActiveEntries
        BY DEF ActiveEntries, topological_list, precut_list, GetStageCuts,
               GetGeneralStageCuts, ConfiguredBdts, Ordered!ActiveEntries,
               Ordered!topological_list, Ordered!precut_list, Ordered!GetStageCuts,
               Ordered!GetGeneralStageCuts, Ordered!ConfiguredBdts
      <4>3. Ordered!Selection(j, job.cuts) = Selection(j, job.cuts)
        BY DEF Selection, FileStageCuts, GetStageCuts, FileNegativeStage,
               GetGeneralStageCuts, ConfiguredBdts, Ordered!Selection,
               Ordered!FileStageCuts, Ordered!GetStageCuts, Ordered!FileNegativeStage,
               Ordered!GetGeneralStageCuts, Ordered!ConfiguredBdts
      <4>4. Ordered!DrawnList(j, job.cuts) = DrawnList(j, job.cuts)
        BY <4>2, <4>3 DEF Ordered!DrawnList, DrawnList
      <4> QED
        BY <3>3, <4>1, <4>4 DEF Fills, CalcBDTEntryList, SetEmptyEntryList,
           Ordered!CalcBDTEntryList, Ordered!SetEmptyEntryList
    <3>4. SetInvalidStage => Ordered!SetInvalidStage
      BY DEF SetInvalidStage, Ordered!SetInvalidStage
    <3>5. job.cuts \in CutArgs
      BY JobFields DEF PlanInv
    <3>6. UNCHANGED vars => UNCHANGED Ordered!vars
      BY DEF vars, Ordered!vars
    <3>7. CASE UNCHANGED vars
      BY <3>6, <3>7
    <3>8. CASE ~UNCHANGED vars
      BY <2>1, <3>1, <3>2, <3>3, <3>4, <3>5, <3>8, CallsInOrder
      DEF Ordered!Next, Ordered!CutArgs, CutArgs, Ordered!BdtStages, BdtStages
    <3> QED
      BY <3>7, <3>8
  <2>2. CASE UNCHANGED vars
    BY <2>2 DEF vars, Ordered!vars
  <2> QED
    BY <2>1, <2>2 DEF PlanNext, StepScan, planvars, vars
<1> QED
  BY <1>1, <1>2, PlanInitInv, PlanStep, PTL DEF PlanSpec, CallersGoInOrder, Ordered!Spec
=============================================================================
