--------------------------- MODULE StackPlotProofs ---------------------------
(* Proofs about SampleLoading and StackPlot, for XMLs of any length made of   *)
(* any entries.                                                               *)
EXTENDS StackPlot, FunctionTheorems, FiniteSetTheorems, TLAPS

Files == 1 .. f

Injective(list) == \A j, k \in DOMAIN list : list[j] = list[k] => j = k

\* list holds the files of S, each once.
Lists(list, S) ==
    /\ list \in Seq(Nat)
    /\ Elements(list) = S
    /\ Injective(list)

(* Appending a file that a list does not hold keeps it a list without         *)
(* repetitions.                                                               *)
LEMMA AppendLists ==
  ASSUME NEW list, NEW S, Lists(list, S), NEW i \in Nat, i \notin S
  PROVE  Lists(Append(list, i), S \cup {i})
<1> DEFINE new == Append(list, i)
           L == Len(list)
<1>1. /\ list \in Seq(Nat) /\ L \in Nat /\ DOMAIN list = 1 .. L
      /\ new \in Seq(Nat) /\ DOMAIN new = 1 .. L + 1
      /\ new[L + 1] = i
      /\ \A k \in 1 .. L : new[k] = list[k]
  BY DEF Lists
<1>2. \A k \in 1 .. L : list[k] \in S
  BY <1>1 DEF Lists, Elements
<1>3. Elements(new) = S \cup {i}
  <2>1. Elements(new) \subseteq S \cup {i}
    <3> SUFFICES ASSUME NEW k \in 1 .. L + 1 PROVE new[k] \in S \cup {i}
      BY <1>1 DEF Elements
    <3> QED
      BY <1>1, <1>2
  <2>2. S \subseteq Elements(new)
    <3> SUFFICES ASSUME NEW s \in S PROVE s \in Elements(new)
      OBVIOUS
    <3>1. PICK k \in 1 .. L : list[k] = s
      BY <1>1 DEF Lists, Elements
    <3> QED
      BY <1>1, <3>1 DEF Elements
  <2>3. i \in Elements(new)
    BY <1>1 DEF Elements
  <2> QED
    BY <2>1, <2>2, <2>3
<1>4. Injective(new)
  <2> SUFFICES ASSUME NEW j \in 1 .. L + 1, NEW k \in 1 .. L + 1, new[j] = new[k]
               PROVE  j = k
    BY <1>1 DEF Injective
  <2>1. CASE j = L + 1 \/ k = L + 1
    BY <2>1, <1>1, <1>2
  <2>2. CASE j \in 1 .. L /\ k \in 1 .. L
    BY <2>2, <1>1 DEF Lists, Injective
  <2> QED
    BY <1>1, <2>1, <2>2
<1> QED
  BY <1>1, <1>3, <1>4 DEF Lists

LEMMA AppendIfLists ==
  ASSUME NEW list, NEW S, Lists(list, S), NEW i \in Nat, i \notin S, NEW test \in BOOLEAN
  PROVE  Lists(AppendIf(list, test, i), IF test THEN S \cup {i} ELSE S)
  BY AppendLists DEF AppendIf

(* A list without repetitions is as long as its set of files is large.        *)
LEMMA LengthCounts ==
  ASSUME NEW list, NEW S, Lists(list, S)
  PROVE  /\ IsFiniteSet(S)
         /\ Len(list) = Cardinality(S)
<1>1. /\ list \in [1 .. Len(list) -> Nat] /\ Len(list) \in Nat
      /\ DOMAIN list = 1 .. Len(list)
  BY DEF Lists
<1>2. list \in Bijection(1 .. Len(list), S)
  <2>1. \A k \in 1 .. Len(list) : list[k] \in S
    BY <1>1 DEF Lists, Elements
  <2>2. list \in [1 .. Len(list) -> S]
    BY <1>1, <2>1
  <2>3. \A j, k \in 1 .. Len(list) : list[j] = list[k] => j = k
    BY <1>1 DEF Lists, Injective
  <2>4. \A s \in S : \E k \in 1 .. Len(list) : list[k] = s
    BY <1>1 DEF Lists, Elements
  <2> QED
    BY <2>2, <2>3, <2>4, Fun_IsBij
<1>3. IsFiniteSet(1 .. Len(list)) /\ Cardinality(1 .. Len(list)) = Len(list)
  BY <1>1, FS_Interval
<1> QED
  BY <1>2, <1>3, FS_Bijection DEF ExistsBijection

(* Two lists without a common file, one after the other.                      *)
LEMMA ConcatLists ==
  ASSUME NEW a, NEW b, NEW S, NEW T, Lists(a, S), Lists(b, T), S \cap T = {}
  PROVE  Lists(a \o b, S \cup T)
<1> DEFINE c == a \o b
           L == Len(a)
           M == Len(b)
<1>1. /\ L \in Nat /\ M \in Nat /\ DOMAIN a = 1 .. L /\ DOMAIN b = 1 .. M
      /\ a \in Seq(Nat) /\ b \in Seq(Nat) /\ c \in Seq(Nat)
      /\ DOMAIN c = 1 .. L + M
      /\ \A k \in 1 .. L : c[k] = a[k]
      /\ \A k \in 1 .. M : c[L + k] = b[k]
  BY DEF Lists
<1>2. /\ \A k \in 1 .. L : a[k] \in S
      /\ \A k \in 1 .. M : b[k] \in T
      /\ \A s \in S : \E k \in 1 .. L : a[k] = s
      /\ \A s \in T : \E k \in 1 .. M : b[k] = s
  BY <1>1 DEF Lists, Elements
<1>3. ASSUME NEW k \in 1 .. L + M
      PROVE  \/ k \in 1 .. L /\ c[k] = a[k] /\ c[k] \in S
             \/ k - L \in 1 .. M /\ c[k] = b[k - L] /\ c[k] \in T
  <2>1. CASE k \in 1 .. L
    BY <2>1, <1>1, <1>2
  <2>2. CASE k \notin 1 .. L
    <3>1. k - L \in 1 .. M /\ L + (k - L) = k
      BY <2>2, <1>1
    <3>2. c[L + (k - L)] = b[k - L]
      BY <3>1, <1>1
    <3> QED
      BY <3>1, <3>2, <1>2
  <2> QED
    BY <2>1, <2>2
<1>4. Elements(c) = S \cup T
  <2>1. Elements(c) \subseteq S \cup T
    BY <1>1, <1>3 DEF Elements
  <2>2. S \subseteq Elements(c)
    <3> SUFFICES ASSUME NEW s \in S PROVE s \in Elements(c)
      OBVIOUS
    <3>1. PICK k \in 1 .. L : a[k] = s
      BY <1>2
    <3>2. k \in 1 .. L + M /\ c[k] = s
      BY <1>1, <3>1
    <3> QED
      BY <1>1, <3>2 DEF Elements
  <2>3. T \subseteq Elements(c)
    <3> SUFFICES ASSUME NEW s \in T PROVE s \in Elements(c)
      OBVIOUS
    <3>1. PICK k \in 1 .. M : b[k] = s
      BY <1>2
    <3>2. L + k \in 1 .. L + M /\ c[L + k] = s
      BY <1>1, <3>1
    <3> QED
      BY <1>1, <3>2 DEF Elements
  <2> QED
    BY <2>1, <2>2, <2>3
<1>5. Injective(c)
  <2> SUFFICES ASSUME NEW j \in 1 .. L + M, NEW k \in 1 .. L + M, c[j] = c[k]
               PROVE  j = k
    BY <1>1 DEF Injective
  <2>1. CASE j \in 1 .. L /\ c[j] = a[j] /\ c[j] \in S
    <3>1. k \in 1 .. L /\ c[k] = a[k]
      BY <2>1, <1>3
    <3> QED
      BY <2>1, <3>1, <1>1 DEF Lists, Injective
  <2>2. CASE j - L \in 1 .. M /\ c[j] = b[j - L] /\ c[j] \in T
    <3>1. k - L \in 1 .. M /\ c[k] = b[k - L]
      BY <2>2, <1>3
    <3>2. j - L = k - L
      BY <2>2, <3>1, <1>1 DEF Lists, Injective
    <3> QED
      BY <3>2, <1>1
  <2> QED
    BY <2>1, <2>2, <1>3
<1> QED
  BY <1>1, <1>4, <1>5 DEF Lists

-----------------------------------------------------------------------------
(* The loading loop.                                                          *)

Signals     == {i \in Files : IsSignal(XMLconfig[i])}
Backgrounds == {i \in Files : IsBackground(XMLconfig[i])}
Stacked     == {i \in Files : InStack(XMLconfig[i])}
Trainings   == {i \in Files : XMLconfig[i].training}
Validations == {i \in Files : XMLconfig[i].validate}

\* As long as every file goes into the stack, positions are file numbers.
StackFollowsXML ==
    \A m \in 0 .. f :
        (\A i \in 1 .. m : InStack(XMLconfig[i])) =>
            /\ m <= Len(stack_bdt_files)
            /\ \A i \in 1 .. m : stack_bdt_files[i] = i

GivenInv ==
    /\ XMLconfig \in UNION {[1 .. k -> FileTypes] : k \in 1 .. MaxFiles}
    /\ mode_option \in Modes

LoadInv ==
    /\ GivenInv
    /\ f \in 0 .. Len(XMLconfig)
    /\ bdt_files = [k \in 1 .. f |-> k]
    /\ mergeDownVector = [k \in 1 .. f |-> XMLconfig[k].mergedown]
    /\ Lists(signal_bdt_files, Signals)
    /\ Lists(bkg_bdt_files, Backgrounds)
    /\ Lists(stack_bdt_files, Stacked)
    /\ Lists(training_bdt_files, Trainings)
    /\ Lists(validate_files, Validations)
    /\ onbeam_data_file \in 0 .. f
    /\ signal \in 0 .. f
    /\ Len(stack_bdt_files) <= f
    /\ StackFollowsXML
    /\ mode_option # "train" => \A i \in Files : ~XMLconfig[i].training
    /\ pc \in {"load", "signal", "crashed", "loaded", "stack", "merge",
               "legend", "drawn"}
    /\ pc # "load" /\ mode_option = "train" => f = Len(XMLconfig)

(* What the XML's type says of a single file.                                 *)
LEMMA XMLFacts ==
  ASSUME GivenInv
  PROVE  /\ Len(XMLconfig) \in Nat
         /\ DOMAIN XMLconfig = 1 .. Len(XMLconfig)
         /\ \A i \in 1 .. Len(XMLconfig) : XMLconfig[i] \in Attributes
<1>1. PICK k \in 1 .. MaxFiles : XMLconfig \in [1 .. k -> FileTypes]
  BY DEF GivenInv
<1>2. k \in Nat /\ XMLconfig \in Seq(FileTypes) /\ Len(XMLconfig) = k
  BY <1>1, MaxFilesAssumption
<1> QED
  BY <1>1, <1>2, FileTypesAssumption

(* Init makes every list empty.                                               *)
LEMMA LoadInitInv == LoadInit => LoadInv
<1> SUFFICES ASSUME LoadInit PROVE LoadInv
  OBVIOUS
<1>1. GivenInv
  BY DEF LoadInit, GivenInv
<1>2. Len(XMLconfig) \in Nat
  BY <1>1, XMLFacts
<1>3. f = 0 /\ Files = {}
  BY DEF LoadInit, Files
<1>4. Lists(<<>>, {})
  BY DEF Lists, Elements, Injective
<1>5. /\ Signals = {} /\ Backgrounds = {} /\ Stacked = {}
      /\ Trainings = {} /\ Validations = {}
  BY <1>3 DEF Signals, Backgrounds, Stacked, Trainings, Validations
<1>6. /\ bdt_files = [k \in 1 .. f |-> k]
      /\ mergeDownVector = [k \in 1 .. f |-> XMLconfig[k].mergedown]
  BY <1>3 DEF LoadInit
<1>7. StackFollowsXML /\ Len(stack_bdt_files) <= f
  BY <1>3 DEF LoadInit, StackFollowsXML
<1> QED
  BY <1>1, <1>2, <1>3, <1>4, <1>5, <1>6, <1>7 DEF LoadInit, LoadInv, NoFile

(* Each list gets the new file exactly if it is of the list's kind.           *)
LEMMA LoadFileLists ==
  ASSUME LoadInv, LoadFile
  PROVE  /\ Lists(signal_bdt_files, Signals)'
         /\ Lists(bkg_bdt_files, Backgrounds)'
         /\ Lists(stack_bdt_files, Stacked)'
         /\ Lists(training_bdt_files, Trainings)'
         /\ Lists(validate_files, Validations)'
<1> DEFINE i == f + 1
           file == XMLconfig[i]
<1>1. /\ i \in Nat /\ i \in 1 .. Len(XMLconfig) /\ f' = i /\ XMLconfig' = XMLconfig
      /\ file \in Attributes
  BY XMLFacts DEF LoadInv, LoadFile, given
<1>2. /\ IsSignal(file) \in BOOLEAN /\ IsBackground(file) \in BOOLEAN
      /\ InStack(file) \in BOOLEAN /\ file.training \in BOOLEAN
      /\ file.validate \in BOOLEAN
  BY <1>1 DEF IsSignal, IsBackground, InStack, Attributes
<1>3. Files' = Files \cup {i} /\ i \notin Files
  BY <1>1 DEF Files, LoadInv
<1>4. /\ Signals' = IF IsSignal(file) THEN Signals \cup {i} ELSE Signals
      /\ i \notin Signals
  BY <1>1, <1>3 DEF Signals
<1>5. /\ Backgrounds' = IF IsBackground(file) THEN Backgrounds \cup {i} ELSE Backgrounds
      /\ i \notin Backgrounds
  BY <1>1, <1>3 DEF Backgrounds
<1>6. /\ Stacked' = IF InStack(file) THEN Stacked \cup {i} ELSE Stacked
      /\ i \notin Stacked
  BY <1>1, <1>3 DEF Stacked
<1>7. /\ Trainings' = IF file.training THEN Trainings \cup {i} ELSE Trainings
      /\ i \notin Trainings
  BY <1>1, <1>3 DEF Trainings
<1>8. /\ Validations' = IF file.validate THEN Validations \cup {i} ELSE Validations
      /\ i \notin Validations
  BY <1>1, <1>3 DEF Validations
<1>9. /\ signal_bdt_files' = AppendIf(signal_bdt_files, IsSignal(file), i)
      /\ bkg_bdt_files' = AppendIf(bkg_bdt_files, IsBackground(file), i)
      /\ stack_bdt_files' = AppendIf(stack_bdt_files, InStack(file), i)
      /\ training_bdt_files' = AppendIf(training_bdt_files, file.training, i)
      /\ validate_files' = AppendIf(validate_files, file.validate, i)
  BY DEF LoadFile
<1>10. Lists(signal_bdt_files, Signals)'
  BY <1>1, <1>2, <1>4, <1>9, AppendIfLists DEF LoadInv
<1>11. Lists(bkg_bdt_files, Backgrounds)'
  BY <1>1, <1>2, <1>5, <1>9, AppendIfLists DEF LoadInv
<1>12. Lists(stack_bdt_files, Stacked)'
  BY <1>1, <1>2, <1>6, <1>9, AppendIfLists DEF LoadInv
<1>13. Lists(training_bdt_files, Trainings)'
  BY <1>1, <1>2, <1>7, <1>9, AppendIfLists DEF LoadInv
<1>14. Lists(validate_files, Validations)'
  BY <1>1, <1>2, <1>8, <1>9, AppendIfLists DEF LoadInv
<1> QED
  BY <1>10, <1>11, <1>12, <1>13, <1>14

(* If every file so far went into the stack, the stack is as long as the XML  *)
(* so far, and the next file's position is its number.                        *)
LEMMA LoadFileFollows ==
  ASSUME LoadInv, LoadFile
  PROVE  StackFollowsXML' /\ (Len(stack_bdt_files) <= f)'
<1> DEFINE i == f + 1
           L == Len(stack_bdt_files)
<1>1. /\ f \in Nat /\ i \in 1 .. Len(XMLconfig) /\ f' = i /\ XMLconfig' = XMLconfig
      /\ L \in Nat /\ L <= f /\ stack_bdt_files \in Seq(Nat)
  BY XMLFacts DEF LoadInv, LoadFile, given, Lists
<1>2. stack_bdt_files' = IF InStack(XMLconfig[i]) THEN Append(stack_bdt_files, i)
                                                  ELSE stack_bdt_files
  BY DEF LoadFile, AppendIf
<1>3. /\ Len(stack_bdt_files') \in Nat
      /\ Len(stack_bdt_files') = IF InStack(XMLconfig[i]) THEN L + 1 ELSE L
      /\ \A k \in 1 .. L : stack_bdt_files'[k] = stack_bdt_files[k]
      /\ InStack(XMLconfig[i]) => stack_bdt_files'[L + 1] = i
  BY <1>1, <1>2
<1>4. ASSUME NEW m \in 0 .. i, \A j \in 1 .. m : InStack(XMLconfig[j])
      PROVE  /\ m <= Len(stack_bdt_files')
             /\ \A j \in 1 .. m : stack_bdt_files'[j] = j
  <2>1. CASE m \in 0 .. f
    <3>1. m <= L /\ \A j \in 1 .. m : stack_bdt_files[j] = j
      BY <1>4, <2>1 DEF LoadInv, StackFollowsXML
    <3>2. m <= Len(stack_bdt_files')
      BY <1>1, <1>3, <2>1, <3>1
    <3>3. ASSUME NEW j \in 1 .. m PROVE stack_bdt_files'[j] = j
      <4>1. j \in 1 .. L
        BY <1>1, <2>1, <3>1
      <4> QED
        BY <1>3, <3>1, <4>1
    <3> QED
      BY <3>2, <3>3
  <2>2. CASE m = i
    <3>1. f <= L /\ \A j \in 1 .. f : stack_bdt_files[j] = j
      BY <1>1, <1>4, <2>2 DEF LoadInv, StackFollowsXML
    <3>2. L = f /\ InStack(XMLconfig[i])
      BY <1>1, <1>4, <2>2, <3>1
    <3> QED
      BY <1>1, <1>3, <2>2, <3>1, <3>2
  <2> QED
    BY <1>1, <2>1, <2>2
<1>5. StackFollowsXML'
  BY <1>1, <1>4 DEF StackFollowsXML
<1> QED
  BY <1>1, <1>3, <1>5

(* All of LoadInv but signal and pc is about what the loop loads.             *)
LEMMA SameLists ==
  ASSUME LoadInv, UNCHANGED <<given, lists>>, signal' \in 0 .. f,
         pc' \in {"load", "signal", "crashed", "loaded", "stack", "merge",
                 "legend", "drawn"},
         pc' # "load" /\ mode_option = "train" => f = Len(XMLconfig)
  PROVE  LoadInv'
<1>1. /\ XMLconfig' = XMLconfig /\ mode_option' = mode_option /\ f' = f
      /\ bdt_files' = bdt_files /\ stack_bdt_files' = stack_bdt_files
      /\ signal_bdt_files' = signal_bdt_files /\ bkg_bdt_files' = bkg_bdt_files
      /\ training_bdt_files' = training_bdt_files /\ validate_files' = validate_files
      /\ onbeam_data_file' = onbeam_data_file /\ mergeDownVector' = mergeDownVector
  BY DEF given, lists
<1>2. /\ Signals' = Signals /\ Backgrounds' = Backgrounds /\ Stacked' = Stacked
      /\ Trainings' = Trainings /\ Validations' = Validations
  BY <1>1 DEF Signals, Backgrounds, Stacked, Trainings, Validations, Files
<1>3. /\ Lists(signal_bdt_files, Signals)'
      /\ Lists(bkg_bdt_files, Backgrounds)'
      /\ Lists(stack_bdt_files, Stacked)'
      /\ Lists(training_bdt_files, Trainings)'
      /\ Lists(validate_files, Validations)'
  BY <1>1, <1>2, Zenon DEF LoadInv
<1>4. StackFollowsXML'
  BY <1>1, Zenon DEF LoadInv, StackFollowsXML
<1>5. GivenInv'
  BY <1>1 DEF LoadInv, GivenInv
<1>6. mode_option' # "train" => \A i \in Files' : ~XMLconfig'[i].training
  BY <1>1 DEF LoadInv, Files
<1> QED
  BY <1>1, <1>3, <1>4, <1>5, <1>6 DEF LoadInv

LEMMA LoadStepInv ==
  ASSUME LoadInv, LoadNext
  PROVE  LoadInv'
<1>1. /\ XMLconfig' = XMLconfig /\ mode_option' = mode_option /\ GivenInv /\ GivenInv'
      /\ f \in Nat /\ Len(XMLconfig) \in Nat
      /\ \A i \in 1 .. Len(XMLconfig) : XMLconfig[i] \in Attributes
  BY XMLFacts DEF LoadInv, LoadNext, LoadFile, LeaveLoop, TakeSignal, given, GivenInv
<1>2. CASE LoadFile
  <2>1. f' = f + 1 /\ f' \in 0 .. Len(XMLconfig)
    BY <1>1, <1>2 DEF LoadFile
  <2>2. bdt_files' = [k \in 1 .. f' |-> k]
    BY <1>1, <1>2, <2>1 DEF LoadFile, LoadInv
  <2>3. mergeDownVector' = [k \in 1 .. f' |-> XMLconfig'[k].mergedown]
    <3>1. mergeDownVector \in Seq(BOOLEAN) /\ Len(mergeDownVector) = f
      BY <1>1 DEF LoadInv, Attributes
    <3>2. mergeDownVector' = Append(mergeDownVector, XMLconfig[f + 1].mergedown)
      BY <1>2 DEF LoadFile
    <3> QED
      BY <1>1, <2>1, <3>1, <3>2 DEF LoadInv
  <2>4. onbeam_data_file' \in 0 .. f' /\ signal' \in 0 .. f'
    BY <1>1, <1>2, <2>1 DEF LoadFile, LoadInv
  <2>5. pc' = "load"
    BY <1>2 DEF LoadFile
  <2>6. mode_option' # "train" => \A i \in Files' : ~XMLconfig'[i].training
    <3>1. mode_option # "train" => ~XMLconfig[f + 1].training
      BY <1>2 DEF LoadFile, Breaks
    <3>2. mode_option # "train" => \A i \in 1 .. f : ~XMLconfig[i].training
      BY DEF LoadInv, Files
    <3>3. \A i \in 1 .. f + 1 : i \in 1 .. f \/ i = f + 1
      BY <1>1
    <3> QED
      BY <1>1, <2>1, <3>1, <3>2, <3>3 DEF Files
  <2> QED
    BY <1>1, <1>2, <2>1, <2>2, <2>3, <2>4, <2>5, <2>6, LoadFileLists, LoadFileFollows DEF LoadInv
<1>3. ASSUME UNCHANGED <<given, lists>>, signal' \in 0 .. f,
             pc' \in {"signal", "crashed", "loaded"},
             mode_option = "train" => f = Len(XMLconfig)
      PROVE  LoadInv'
  BY <1>3, SameLists
<1>4. CASE LeaveLoop
  <2>1. ~Breaks(f + 1) \/ mode_option # "train"
    BY DEF Breaks
  <2>2. mode_option = "train" => f = Len(XMLconfig)
    BY <1>1, <1>4, <2>1 DEF LeaveLoop, LoadInv
  <2> QED
    BY <1>3, <1>4, <2>2 DEF LeaveLoop, LoadInv
<1>5. CASE TakeSignal
  <2>1. signal_bdt_files = <<>> \/ signal_bdt_files[1] \in Signals
    BY DEF LoadInv, Lists, Elements
  <2>2. signal' \in 0 .. f
    BY <1>1, <1>5, <2>1 DEF TakeSignal, NoFile, Signals, Files
  <2> QED
    BY <1>3, <1>5, <2>2 DEF TakeSignal, LoadInv
<1> QED
  BY <1>2, <1>4, <1>5 DEF LoadNext

LEMMA LoadInvStutter ==
  ASSUME LoadInv, UNCHANGED loadVars
  PROVE  LoadInv'
<1>1. UNCHANGED <<given, lists>> /\ signal' \in 0 .. f /\ pc' = pc
  BY DEF LoadInv, loadVars
<1> QED
  BY <1>1, SameLists DEF LoadInv

(* The steps that plot leave what was loaded alone.                           *)
LEMMA PlotStepLoadInv ==
  ASSUME LoadInv, UNCHANGED <<given, lists, signal>>, pc # "load",
         pc' \in {"stack", "merge", "legend", "drawn"}
  PROVE  LoadInv'
<1>1. UNCHANGED <<given, lists>> /\ signal' \in 0 .. f
  BY DEF LoadInv
<1> QED
  BY <1>1, SameLists DEF LoadInv

(* LoadInv holds throughout: the loading loop of main (hive.cxx 376-543)     *)
(* files each sample under the lists its attributes ask for, in the order of *)
(* the XML, and the plot that follows leaves the lists alone.                *)
THEOREM LoadInvariant == Spec => []LoadInv
<1>1. Init => LoadInv
  BY LoadInitInv DEF Init
<1>2. LoadInv /\ [Next]_vars => LoadInv'
  <2> SUFFICES ASSUME LoadInv, [Next]_vars PROVE LoadInv'
    OBVIOUS
  <2>1. CASE LoadNext
    BY <2>1, LoadStepInv
  <2>2. CASE StartStack \/ GetStack \/ ZeroMerged \/ DrawSignalOnTop
    BY <2>2, PlotStepLoadInv DEF StartStack, GetStack, ZeroMerged, DrawSignalOnTop
  <2>3. CASE AddToStack \/ MergeOne \/ LegendOne
    BY <2>3, LoadInvStutter DEF AddToStack, MergeOne, LegendOne
  <2>4. CASE UNCHANGED vars
    BY <2>4, LoadInvStutter DEF vars
  <2> QED
    BY <2>1, <2>2, <2>3, <2>4 DEF Next
<1> QED
  BY <1>1, <1>2, PTL DEF Spec

LEMMA LoadFacts ==
  ASSUME LoadInv
  PROVE  /\ f \in Nat /\ Len(XMLconfig) \in Nat
         /\ \A i \in Files : i \in Nat /\ XMLconfig[i] \in Attributes
         /\ \A i \in Files : mergeDownVector[i] = XMLconfig[i].mergedown
         /\ Len(mergeDownVector) = f
<1>1. GivenInv /\ f \in 0 .. Len(XMLconfig)
  BY Zenon DEF LoadInv
<1>2. f \in Nat /\ Len(XMLconfig) \in Nat
  BY <1>1, XMLFacts
<1>3. \A i \in Files : i \in Nat /\ XMLconfig[i] \in Attributes
  BY <1>1, <1>2, XMLFacts DEF Files
<1>4. mergeDownVector = [k \in 1 .. f |-> XMLconfig[k].mergedown]
  BY Zenon DEF LoadInv
<1> QED
  BY <1>2, <1>3, <1>4 DEF Files

(* The lists of main are indexed by the numbers of the files in the XML, and  *)
(* training loads all of it.                                                  *)
THEOREM FileNumbersAlwaysXMLNumbers == Spec => []FileNumbersAreXMLNumbers
<1>1. LoadInv => FileNumbersAreXMLNumbers
  <2> SUFFICES ASSUME LoadInv PROVE FileNumbersAreXMLNumbers
    OBVIOUS
  <2>1. Len(mergeDownVector) = f
    BY LoadFacts
  <2>2. /\ bdt_files = [k \in 1 .. f |-> k]
        /\ pc # "load" /\ mode_option = "train" => f = Len(XMLconfig)
    BY Zenon DEF LoadInv
  <2> QED
    BY <2>1, <2>2 DEF FileNumbersAreXMLNumbers
<1> QED
  BY <1>1, LoadInvariant, PTL

(* Signal and background files make up the stack without the validation       *)
(* files, and no file is in both or in one of them twice.                     *)
THEOREM SignificanceAlwaysSeesTheStack == Spec => []SignificanceSeesTheStack
<1>1. LoadInv => SignificanceSeesTheStack
  <2> SUFFICES ASSUME LoadInv PROVE SignificanceSeesTheStack
    OBVIOUS
  <2> DEFINE scanned == signal_bdt_files \o bkg_bdt_files
  <2>1. \A i \in Files : XMLconfig[i] \in Attributes
    BY LoadFacts
  <2>2. Signals \cap Backgrounds = {}
    BY <2>1 DEF Signals, Backgrounds, IsSignal, IsBackground, Attributes
  <2>3. Lists(scanned, Signals \cup Backgrounds)
    BY <2>2, ConcatLists DEF LoadInv
  <2>4. /\ Elements(scanned) = Signals \cup Backgrounds
        /\ Elements(stack_bdt_files) = Stacked
        /\ Elements(validate_files) = Validations
    BY <2>3 DEF Lists, LoadInv
  <2>5. Len(scanned) = Cardinality(Elements(scanned))
    BY <2>3, <2>4, LengthCounts
  <2>6. /\ Stacked \ Validations \subseteq Signals \cup Backgrounds
        /\ Signals \cup Backgrounds \subseteq Stacked
    BY <2>1 DEF Stacked, Validations, Signals, Backgrounds, InStack, IsSignal, IsBackground,
                Attributes
  <2> QED
    BY <2>4, <2>5, <2>6 DEF SignificanceSeesTheStack
<1> QED
  BY <1>1, LoadInvariant, PTL

-----------------------------------------------------------------------------
(* Filling the stack.                                                         *)

Unbuilt  == pc \in {"load", "signal", "crashed", "loaded"}
Complete == pc \in {"merge", "legend", "drawn"}

\* The files the iterations so far have put into the stack.
Taken == {FileAt(k) : k \in {j \in 1 .. added : Takes(j)}}

StackInv ==
    /\ LoadInv
    /\ added \in 0 .. Iterations
    /\ Lists(stack, Taken)
    /\ mode_option = "datamc" =>
           /\ Len(stack) = added
           /\ \A k \in 1 .. added : stack[k] = stack_bdt_files[k]
    /\ Unbuilt => added = 0
    /\ Complete => added = Iterations
    /\ ~Unbuilt => mode_option \in {"datamc", "gif"}

(* An iteration is at a file of the stack, and takes none twice: where gif's  *)
(* loops meet the same file, only one of them takes it.                       *)
LEMMA IterationFacts ==
  ASSUME LoadInv, NEW k \in 1 .. Iterations
  PROVE  /\ Iterations \in Nat
         /\ FileAt(k) \in Nat /\ FileAt(k) \in Stacked
         /\ Takes(k) \in BOOLEAN
         /\ \A j \in 1 .. Iterations : Takes(j) /\ Takes(k) /\ FileAt(j) = FileAt(k) => j = k
<1>1. Lists(stack_bdt_files, Stacked)
  BY Zenon DEF LoadInv
<1> PICK L \in Nat : L = Len(stack_bdt_files) /\ DOMAIN stack_bdt_files = 1 .. L
  BY <1>1 DEF Lists
<1> DEFINE Position(i) == IF SecondLoop(i) THEN i - L ELSE i
<1>2. /\ Iterations \in Nat
      /\ mode_option = "gif" => Iterations = 2 * L
      /\ mode_option # "gif" => Iterations = L
  BY DEF Iterations
<1>3. ASSUME NEW i \in 1 .. Iterations
      PROVE  /\ Position(i) \in 1 .. L
             /\ FileAt(i) = stack_bdt_files[Position(i)]
             /\ FileAt(i) \in Stacked /\ FileAt(i) \in Nat
  <2>1. Position(i) \in 1 .. L
    <3>1. CASE i > L
      <4>1. i \in 1 .. 2 * L
        BY <1>2, <3>1
      <4>2. Position(i) = i - L
        BY <3>1 DEF SecondLoop
      <4> QED
        BY <3>1, <4>1, <4>2
    <3>2. CASE ~(i > L)
      <4>1. Position(i) = i
        BY <3>2 DEF SecondLoop
      <4> QED
        BY <1>2, <3>2, <4>1
    <3> QED
      BY <3>1, <3>2
  <2>2. FileAt(i) = stack_bdt_files[Position(i)]
    BY DEF FileAt
  <2>3. stack_bdt_files[Position(i)] \in Stacked /\ stack_bdt_files[Position(i)] \in Nat
    BY <1>1, <2>1 DEF Lists, Elements
  <2> QED
    BY <2>1, <2>2, <2>3
<1>4. FileAt(k) \in Files /\ OnTop(FileAt(k)) \in BOOLEAN
  BY <1>3, LoadFacts DEF Stacked, OnTop, Attributes
<1>5. ASSUME NEW j \in 1 .. Iterations, Takes(j), Takes(k), FileAt(j) = FileAt(k)
      PROVE  j = k
  <2>1. Position(j) = Position(k)
    BY <1>1, <1>3, <1>5 DEF Lists, Injective
  <2>2. SecondLoop(j) <=> SecondLoop(k)
    <3>1. CASE mode_option = "gif"
      BY <1>5, <3>1 DEF Takes
    <3>2. CASE mode_option # "gif"
      BY <1>2, <3>2 DEF SecondLoop
    <3> QED
      BY <3>1, <3>2
  <2>3. CASE SecondLoop(k)
    <3>1. j - L = k - L
      BY <2>1, <2>2, <2>3
    <3> QED
      BY <1>2, <3>1
  <2>4. CASE ~SecondLoop(k)
    BY <2>1, <2>2, <2>4
  <2> QED
    BY <2>3, <2>4
<1>6. Takes(k) \in BOOLEAN
  BY DEF Takes
<1> QED
  BY <1>2, <1>3, <1>5, <1>6

LEMMA AddToStackInv ==
  ASSUME StackInv, LoadInv', AddToStack
  PROVE  StackInv'
<1> DEFINE i == added + 1
<1>1. /\ UNCHANGED <<XMLconfig, mode_option, stack_bdt_files, pc>> /\ LoadInv
      /\ Iterations' = Iterations /\ added \in 0 .. Iterations
      /\ i \in 1 .. Iterations /\ added' = i /\ pc = "stack"
      /\ stack' = AppendIf(stack, Takes(i), FileAt(i))
  <2>1. UNCHANGED <<XMLconfig, mode_option, stack_bdt_files, pc>>
    BY DEF AddToStack, loadVars, given, lists
  <2>2. added \in 0 .. Iterations /\ LoadInv
    BY DEF StackInv
  <2>3. Len(stack_bdt_files) \in Nat
    <3>1. Lists(stack_bdt_files, Stacked)
      BY <2>2, Zenon DEF LoadInv
    <3> QED
      BY <3>1 DEF Lists
  <2> QED
    BY <2>1, <2>2, <2>3 DEF AddToStack, Iterations
<1>2. \A k : FileAt(k)' = FileAt(k) /\ Takes(k)' = Takes(k)
  BY <1>1 DEF FileAt, Takes, SecondLoop, OnTop
<1>3. Taken' = IF Takes(i) THEN Taken \cup {FileAt(i)} ELSE Taken
  BY <1>1, <1>2 DEF Taken
<1>4. FileAt(i) \in Nat /\ Takes(i) \in BOOLEAN
  BY <1>1, IterationFacts
<1>5. Takes(i) => FileAt(i) \notin Taken
  BY <1>1, IterationFacts DEF Taken
<1>6. Lists(stack, Taken)'
  BY <1>1, <1>3, <1>4, <1>5, AppendIfLists DEF StackInv, AppendIf
<1>7. mode_option = "datamc" =>
         /\ Len(stack') = added'
         /\ \A k \in 1 .. added' : stack'[k] = stack_bdt_files'[k]
  <2> SUFFICES ASSUME mode_option = "datamc"
               PROVE  /\ Len(stack') = added'
                      /\ \A k \in 1 .. added' : stack'[k] = stack_bdt_files[k]
    BY <1>1
  <2>1. /\ added \in Nat /\ stack \in Seq(Nat) /\ Len(stack) = added
        /\ \A k \in 1 .. added : stack[k] = stack_bdt_files[k]
    BY <1>1 DEF StackInv, Lists
  <2>2. Takes(i) /\ FileAt(i) = stack_bdt_files[i]
    BY <1>1, <2>1 DEF Takes, FileAt, SecondLoop, Iterations
  <2>3. stack' = Append(stack, stack_bdt_files[i])
    BY <1>1, <2>2 DEF AppendIf
  <2> QED
    BY <1>1, <2>1, <2>3
<1> QED
  BY <1>1, <1>6, <1>7 DEF StackInv, Unbuilt, Complete

(* Steps that neither load nor add to the stack.                              *)
LEMMA SameStack ==
  ASSUME StackInv, LoadInv', UNCHANGED <<given, lists, added, stack>>,
         Unbuilt' => Unbuilt, Complete' => added = Iterations,
         ~Unbuilt' => mode_option \in {"datamc", "gif"}
  PROVE  StackInv'
<1>1. /\ UNCHANGED <<XMLconfig, mode_option, stack_bdt_files, added, stack>>
      /\ Iterations' = Iterations
  BY DEF given, lists, Iterations
<1>2. \A k : FileAt(k)' = FileAt(k) /\ Takes(k)' = Takes(k)
  BY <1>1 DEF FileAt, Takes, SecondLoop, OnTop
<1>3. Taken' = Taken
  BY <1>1, <1>2 DEF Taken
<1>4. Lists(stack, Taken)'
  BY <1>1, <1>3, Zenon DEF StackInv
<1> QED
  BY <1>1, <1>4 DEF StackInv

LEMMA LoadNextStackInv ==
  ASSUME StackInv, LoadInv', LoadNext, UNCHANGED plotVars
  PROVE  StackInv'
<1>1. /\ Unbuilt /\ Unbuilt' /\ ~Complete'
      /\ mode_option' = mode_option
  BY DEF LoadNext, LoadFile, LeaveLoop, TakeSignal, Unbuilt, Complete, given
<1>2. added = 0 /\ added' = 0 /\ stack' = stack
  BY <1>1 DEF StackInv, plotVars
<1>3. Taken = {} /\ Taken' = {}
  BY <1>2 DEF Taken
<1>4. Lists(stack, Taken)'
  BY <1>2, <1>3, Zenon DEF StackInv
<1>5. Iterations' \in Nat
  <2>1. Lists(stack_bdt_files, Stacked)'
    BY Zenon DEF LoadInv
  <2>2. Len(stack_bdt_files') \in Nat
    BY <2>1 DEF Lists
  <2> QED
    BY <2>2 DEF Iterations
<1> QED
  BY <1>1, <1>2, <1>4, <1>5 DEF StackInv

(* StackInv holds throughout: while addToStack (bdt_spec.cxx) is called, the *)
(* stack is exactly what the iterations done so far have taken.              *)
THEOREM StackInvariant == Spec => []StackInv
<1>1. Init => StackInv
  <2> SUFFICES ASSUME Init PROVE StackInv
    OBVIOUS
  <2>1. LoadInv
    BY LoadInitInv DEF Init
  <2>2. added = 0 /\ stack = <<>> /\ stack_bdt_files = <<>> /\ pc = "load"
    BY DEF Init, LoadInit
  <2>3. Taken = {} /\ Iterations \in Nat
    BY <2>2 DEF Taken, Iterations
  <2>4. Lists(stack, Taken)
    BY <2>2, <2>3 DEF Lists, Elements, Injective
  <2> QED
    BY <2>1, <2>2, <2>3, <2>4 DEF StackInv, Unbuilt, Complete
<1>2. LoadInv' /\ StackInv /\ [Next]_vars => StackInv'
  <2> SUFFICES ASSUME LoadInv', StackInv, [Next]_vars PROVE StackInv'
    OBVIOUS
  <2>1. CASE LoadNext /\ UNCHANGED plotVars
    BY <2>1, LoadNextStackInv
  <2>2. CASE AddToStack
    BY <2>2, AddToStackInv
  <2>3. CASE StartStack \/ GetStack
    <3>1. /\ UNCHANGED <<given, lists, added, stack>>
          /\ ~Unbuilt'
          /\ Complete' => added = Iterations
          /\ mode_option \in {"datamc", "gif"}
      BY <2>3 DEF StartStack, GetStack, plotVars, StackInv, Unbuilt, Complete
    <3> QED
      BY <3>1, SameStack
  <2>4. CASE ZeroMerged \/ DrawSignalOnTop
    <3>1. UNCHANGED <<given, lists, added, stack>> /\ ~Unbuilt' /\ ~Unbuilt /\ Complete
      BY <2>4 DEF ZeroMerged, DrawSignalOnTop, Unbuilt, Complete
    <3> QED
      BY <3>1, SameStack DEF StackInv
  <2>5. CASE MergeOne \/ LegendOne \/ UNCHANGED vars
    <3>1. UNCHANGED <<given, lists, added, stack, pc>>
      BY <2>5 DEF MergeOne, LegendOne, vars, loadVars, plotVars
    <3>2. (Unbuilt' <=> Unbuilt) /\ (Complete' <=> Complete)
      BY <3>1 DEF Unbuilt, Complete
    <3> QED
      BY <3>1, <3>2, SameStack DEF StackInv
  <2> QED
    BY <2>1, <2>2, <2>3, <2>4, <2>5 DEF Next
<1> QED
  BY <1>1, <1>2, LoadInvariant, PTL DEF Spec

(* What the plot may rely on: the stack holds the files of stack_bdt_files,   *)
(* each once, and mergeDownVector has a flag for each of its positions.       *)
LEMMA StackFacts ==
  ASSUME StackInv
  PROVE  /\ stack \in Seq(Nat) /\ Len(stack) \in Nat
         /\ DOMAIN stack = 1 .. Len(stack)
         /\ \A k \in 1 .. Len(stack) : stack[k] \in Files
         /\ \A j, k \in 1 .. Len(stack) : stack[j] = stack[k] => j = k
         /\ Len(stack) <= f
         /\ \A k \in 1 .. Len(stack) : Flagged(k) \in BOOLEAN
         /\ \A i \in Files : OnTop(i) \in BOOLEAN
<1>1. LoadInv /\ Lists(stack, Taken) /\ added \in 0 .. Iterations
  BY DEF StackInv
<1>2. Taken \subseteq Files
  BY <1>1, IterationFacts DEF Taken, Stacked
<1>3. /\ stack \in Seq(Nat) /\ Len(stack) \in Nat
      /\ DOMAIN stack = 1 .. Len(stack)
      /\ \A k \in 1 .. Len(stack) : stack[k] \in Files
      /\ \A j, k \in 1 .. Len(stack) : stack[j] = stack[k] => j = k
  BY <1>1, <1>2 DEF Lists, Elements, Injective
<1>4. Len(stack) <= f
  <2>1. f \in Nat
    BY <1>1, LoadFacts
  <2>2. IsFiniteSet(Files) /\ Cardinality(Files) = f
    BY <2>1, FS_Interval DEF Files
  <2>3. Cardinality(Taken) <= f
    BY <1>2, <2>2, FS_Subset
  <2> QED
    BY <1>1, <2>3, LengthCounts
<1>5. \A k \in 1 .. Len(stack) : Flagged(k) \in BOOLEAN
  <2> SUFFICES ASSUME NEW k \in 1 .. Len(stack) PROVE Flagged(k) \in BOOLEAN
    OBVIOUS
  <2>1. k \in Files
    BY <1>1, <1>3, <1>4, LoadFacts DEF Files
  <2> QED
    BY <1>1, <2>1, LoadFacts DEF Flagged, Attributes
<1>6. \A i \in Files : OnTop(i) \in BOOLEAN
  BY <1>1, LoadFacts DEF OnTop, Attributes
<1> QED
  BY <1>3, <1>4, <1>5, <1>6

-----------------------------------------------------------------------------
(* The merge-down loops in closed form.  saved holds one histogram, the one   *)
(* just before: of several flagged samples in a row, the last.                *)

Positions == 1 .. Len(stack)

MergesFrom(k) == k > 1 /\ Flagged(k - 1)

Merged(k) ==
    Drawn(stack[k]) \cup
        (IF MergesFrom(k) /\ ~Flagged(k) THEN Drawn(stack[k - 1]) ELSE {})

Kept(k) == IF Flagged(k) THEN {} ELSE Merged(k)

Stacks == [k \in Positions |-> Kept(k)]

MergeInv ==
    /\ StackInv
    /\ Unbuilt \/ pc = "stack" => hists = <<>> /\ lor = 0 /\ mergetarget = FALSE /\ saved = {}
    /\ saved \subseteq Files
    /\ mergetarget \in BOOLEAN
    /\ lor \in 0 .. Len(stack)
    /\ pc = "merge" =>
          /\ hists \in [Positions -> SUBSET Files]
          /\ \A k \in Positions :
                hists[k] = IF k <= lor THEN Merged(k) ELSE Drawn(stack[k])
          /\ mergetarget <=> lor > 0 /\ Flagged(lor)
          /\ mergetarget => saved = Drawn(stack[lor])
    /\ pc = "legend" => hists = Stacks
    /\ pc = "drawn" => hists = IF SignalOnTop = {} THEN Stacks ELSE Append(Stacks, SignalOnTop)
    /\ pc \in {"legend", "drawn"} => lor = Len(stack)

(* What the definitions above are made of does not change while plotting.     *)
LEMMA SamePlot ==
  ASSUME UNCHANGED <<given, lists, stack>>
  PROVE  /\ Files' = Files /\ Positions' = Positions
         /\ \A k : Flagged(k)' = Flagged(k)
         /\ \A k : Merged(k)' = Merged(k)
         /\ \A k : Kept(k)' = Kept(k)
         /\ \A i : Drawn(i)' = Drawn(i)
         /\ Stacks' = Stacks
         /\ SignalOnTop' = SignalOnTop
         /\ NoRunsOfFlags' = NoRunsOfFlags
<1>1. /\ XMLconfig' = XMLconfig /\ f' = f /\ stack' = stack
      /\ mergeDownVector' = mergeDownVector
  BY DEF given, lists
<1>2. /\ Files' = Files /\ Positions' = Positions
      /\ \A k : Flagged(k)' = Flagged(k)
      /\ \A i : Drawn(i)' = Drawn(i)
      /\ \A i : Beneath(i)' = Beneath(i)
      /\ \A i : OnTop(i)' = OnTop(i)
  BY <1>1 DEF Files, Positions, Flagged, Drawn, OnTop, Beneath
<1>3. \A k : Merged(k)' = Merged(k)
  BY <1>1, <1>2 DEF Merged, MergesFrom
<1>4. \A k : Kept(k)' = Kept(k)
  BY <1>2, <1>3 DEF Kept
<1>5. Stacks' = Stacks
  BY <1>2, <1>4 DEF Stacks
<1>6. SignalOnTop' = SignalOnTop
  BY <1>1, <1>2 DEF SignalOnTop
<1>7. NoRunsOfFlags' = NoRunsOfFlags
  BY <1>1, <1>2 DEF NoRunsOfFlags
<1> QED
  BY <1>2, <1>3, <1>4, <1>5, <1>6, <1>7

LEMMA DrawnFiles ==
  ASSUME StackInv, NEW k \in Positions
  PROVE  /\ Drawn(stack[k]) \subseteq Files
         /\ Merged(k) \subseteq Files
         /\ Kept(k) \subseteq Files
<1>1. \A j \in Positions : Drawn(stack[j]) \subseteq Files
  BY StackFacts DEF Drawn, Positions
<1>2. k > 1 => k - 1 \in Positions
  BY StackFacts DEF Positions
<1>3. Merged(k) \subseteq Files
  BY <1>1, <1>2 DEF Merged, MergesFrom
<1> QED
  BY <1>1, <1>3 DEF Kept

LEMMA GetStackMergeInv ==
  ASSUME MergeInv, StackInv', GetStack
  PROVE  MergeInv'
<1>1. /\ StackInv /\ pc = "stack" /\ pc' = "merge"
      /\ lor' = 0 /\ mergetarget' = FALSE /\ saved' = {}
      /\ UNCHANGED <<given, lists, stack>>
      /\ hists' = [k \in DOMAIN stack |-> Drawn(stack[k])]
  BY DEF GetStack, MergeInv, merging
<1>2. Len(stack) \in Nat /\ stack' = stack /\ DOMAIN stack = Positions
  BY <1>1, StackFacts DEF Positions
<1>3. hists' \in [Positions' -> SUBSET Files']
  BY <1>1, <1>2, SamePlot, DrawnFiles
<1>4. \A k \in Positions : k > 0 /\ hists'[k] = Drawn(stack[k])
  BY <1>1, <1>2 DEF Positions
<1>5. mergetarget' <=> lor' > 0 /\ Flagged(lor)'
  BY <1>1
<1>6. \A k \in Positions' :
         hists'[k] = IF k <= lor' THEN Merged(k)' ELSE Drawn(stack[k])'
  BY <1>1, <1>2, <1>4, SamePlot DEF Positions
<1> QED
  BY <1>1, <1>2, <1>3, <1>5, <1>6 DEF MergeInv, Unbuilt

LEMMA MergeOneMergeInv ==
  ASSUME MergeInv, StackInv', MergeOne
  PROVE  MergeInv'
<1> DEFINE k == lor + 1
<1>1. /\ StackInv /\ pc = "merge" /\ pc' = "merge"
      /\ UNCHANGED <<given, lists, stack>> /\ stack' = stack
      /\ lor \in 0 .. Len(stack) /\ lor' = k
      /\ hists \in [Positions -> SUBSET Files]
      /\ \A j \in Positions : hists[j] = IF j <= lor THEN Merged(j) ELSE Drawn(stack[j])
      /\ mergetarget \in BOOLEAN
      /\ mergetarget <=> lor > 0 /\ Flagged(lor)
      /\ mergetarget => saved = Drawn(stack[lor])
      /\ saved \subseteq Files
      /\ lor < Len(hists)
  BY DEF MergeOne, MergeInv, loadVars
<1>2. /\ Len(stack) \in Nat /\ Len(hists) = Len(stack)
      /\ k \in Positions /\ Flagged(k) \in BOOLEAN /\ Positions \subseteq Nat
  <2>1. Len(stack) \in Nat
    BY <1>1, StackFacts
  <2>2. Len(hists) = Len(stack)
    BY <1>1, <2>1 DEF Positions
  <2>3. k \in Positions
    BY <1>1, <2>1, <2>2 DEF Positions
  <2> QED
    BY <1>1, <2>1, <2>2, <2>3, StackFacts DEF Positions
<1>3. hists[k] = Drawn(stack[k])
  BY <1>1, <1>2
<1>4. lor' \in 0 .. Len(stack')
  BY <1>1, <1>2 DEF Positions
<1>5. CASE Flagged(k)
  <2>1. saved' = Drawn(stack[k]) /\ mergetarget' = TRUE /\ hists' = hists
    BY <1>3, <1>5 DEF MergeOne
  <2>2. Merged(k) = Drawn(stack[k])
    BY <1>5 DEF Merged
  <2>3. \A j \in Positions : hists'[j] = IF j <= k THEN Merged(j) ELSE Drawn(stack[j])
    BY <1>1, <1>2, <2>1, <2>2
  <2>4. saved' \subseteq Files /\ k > 0
    BY <1>1, <1>2, <2>1, DrawnFiles
  <2> QED
    BY <1>1, <1>4, <1>5, <2>1, <2>3, <2>4, SamePlot DEF MergeInv, Unbuilt
<1>6. CASE ~Flagged(k)
  <2>1. /\ hists' = [hists EXCEPT ![k] = MergeInto(@)]
        /\ mergetarget' = FALSE /\ saved' = saved
    BY <1>6 DEF MergeOne
  <2>2. MergesFrom(k) <=> mergetarget
    BY <1>1, <1>2 DEF MergesFrom
  <2>3. k - 1 = lor
    BY <1>1
  <2>4. MergeInto(hists[k]) = Merged(k)
    BY <1>1, <1>3, <1>6, <2>2, <2>3 DEF MergeInto, Merged
  <2>5. Merged(k) \in SUBSET Files
    BY <1>1, <1>2, DrawnFiles
  <2>6. hists' \in [Positions -> SUBSET Files]
    BY <1>1, <1>2, <2>1, <2>4, <2>5
  <2>7. \A j \in Positions : hists'[j] = IF j <= k THEN Merged(j) ELSE Drawn(stack[j])
    <3> SUFFICES ASSUME NEW j \in Positions
                 PROVE  hists'[j] = IF j <= k THEN Merged(j) ELSE Drawn(stack[j])
      OBVIOUS
    <3>1. CASE j = k
      BY <1>1, <1>2, <2>1, <2>4, <3>1
    <3>2. CASE j # k
      <4>1. hists'[j] = hists[j]
        BY <1>1, <2>1, <3>2
      <4>2. j <= k <=> j <= lor
        BY <1>1, <1>2, <3>2
      <4> QED
        BY <1>1, <4>1, <4>2
    <3> QED
      BY <3>1, <3>2
  <2> QED
    BY <1>1, <1>4, <1>6, <2>1, <2>6, <2>7, SamePlot DEF MergeInv, Unbuilt
<1> QED
  BY <1>2, <1>5, <1>6

LEMMA ZeroMergedMergeInv ==
  ASSUME MergeInv, StackInv', ZeroMerged
  PROVE  MergeInv'
<1>1. /\ StackInv /\ pc = "merge" /\ pc' = "legend"
      /\ UNCHANGED <<given, lists, stack, merging>> /\ stack' = stack
      /\ lor \in 0 .. Len(stack) /\ lor = Len(hists)
      /\ lor' = lor /\ saved' = saved /\ mergetarget' = mergetarget
      /\ hists \in [Positions -> SUBSET Files]
      /\ \A k \in Positions : hists[k] = IF k <= lor THEN Merged(k) ELSE Drawn(stack[k])
      /\ hists' = ZeroedHists
      /\ saved \subseteq Files /\ mergetarget \in BOOLEAN
  BY DEF ZeroMerged, MergeInv, merging
<1>2. Len(stack) \in Nat /\ lor = Len(stack)
  BY <1>1, StackFacts DEF Positions
<1>3. hists' = Stacks
  BY <1>1, <1>2 DEF ZeroedHists, Stacks, Kept, Positions
<1> QED
  BY <1>1, <1>2, <1>3, SamePlot DEF MergeInv, Unbuilt

LEMMA DrawSignalMergeInv ==
  ASSUME MergeInv, StackInv', DrawSignalOnTop
  PROVE  MergeInv'
<1>1. /\ pc = "legend" /\ pc' = "drawn" /\ hists = Stacks
      /\ UNCHANGED <<given, lists, stack, merging>> /\ stack' = stack
      /\ lor = Len(stack) /\ lor \in 0 .. Len(stack)
      /\ lor' = lor /\ saved' = saved /\ mergetarget' = mergetarget
      /\ hists' = IF SignalOnTop = {} THEN hists ELSE Append(hists, SignalOnTop)
      /\ saved \subseteq Files /\ mergetarget \in BOOLEAN
  BY DEF DrawSignalOnTop, MergeInv, merging
<1> QED
  BY <1>1, SamePlot DEF MergeInv, Unbuilt

(* Before the stack is drawn nothing is merged; after, loops other than the   *)
(* merge loops leave its histograms alone.                                    *)
LEMMA OtherStepMergeInv ==
  ASSUME MergeInv, StackInv',
         \/ LoadNext /\ UNCHANGED plotVars
         \/ StartStack \/ AddToStack \/ LegendOne
         \/ UNCHANGED vars
  PROVE  MergeInv'
<1>1. UNCHANGED <<hists, saved, mergetarget, lor>>
  BY DEF plotVars, StartStack, AddToStack, LegendOne, vars, merging
<1>2. CASE (Unbuilt \/ pc = "stack") /\ (Unbuilt' \/ pc' = "stack")
  <2>1. /\ hists' = <<>> /\ lor' = 0 /\ mergetarget' = FALSE /\ saved' = {}
    BY <1>1, <1>2 DEF MergeInv
  <2>2. Len(stack') \in Nat
    <3>1. Lists(stack, Taken)'
      BY Zenon DEF StackInv
    <3> QED
      BY <3>1 DEF Lists
  <2>3. pc' \notin {"merge", "legend", "drawn"}
    BY <1>2 DEF Unbuilt
  <2>4. lor' \in 0 .. Len(stack')
    BY <2>1, <2>2
  <2>5. saved' \subseteq Files'
    BY <2>1, Zenon
  <2>6. mergetarget' \in BOOLEAN
    BY <2>1, Zenon
  <2> QED
    BY <2>1, <2>3, <2>4, <2>5, <2>6 DEF MergeInv
<1>3. CASE UNCHANGED <<given, lists, stack, pc>>
  <2>1. stack' = stack /\ pc' = pc
    BY <1>3
  <2>2. Unbuilt' <=> Unbuilt
    BY <2>1 DEF Unbuilt
  <2> QED
    BY <1>1, <1>3, <2>1, <2>2, SamePlot DEF MergeInv
<1>4. CASE LoadNext /\ UNCHANGED plotVars
  <2>1. Unbuilt /\ Unbuilt'
    BY <1>4 DEF LoadNext, LoadFile, LeaveLoop, TakeSignal, Unbuilt
  <2> QED
    BY <1>2, <2>1
<1>5. CASE StartStack \/ AddToStack
  <2>1. (Unbuilt \/ pc = "stack") /\ pc' = "stack"
    BY <1>5 DEF StartStack, AddToStack, Unbuilt, loadVars
  <2> QED
    BY <1>2, <2>1
<1>6. CASE LegendOne \/ UNCHANGED vars
  <2>1. UNCHANGED <<given, lists, stack, pc>>
    BY <1>6 DEF LegendOne, vars, loadVars, plotVars
  <2> QED
    BY <1>3, <2>1
<1> QED
  BY <1>4, <1>5, <1>6

(* MergeInv holds throughout: after every step of the merge-down and zeroing *)
(* loops (bdt_datamc.cxx 665-714) a histogram counts the samples the closed  *)
(* form Merged gives it.                                                     *)
THEOREM MergeInvariant == Spec => []MergeInv
<1>1. Init /\ StackInv => MergeInv
  <2> SUFFICES ASSUME Init, StackInv PROVE MergeInv
    OBVIOUS
  <2>1. Len(stack) \in Nat
    BY StackFacts
  <2>2. /\ hists = <<>> /\ lor = 0 /\ mergetarget = FALSE /\ saved = {}
        /\ pc = "load"
    BY DEF Init, LoadInit
  <2>3. lor \in 0 .. Len(stack)
    BY <2>1, <2>2
  <2>4. saved \subseteq Files /\ mergetarget \in BOOLEAN
    BY <2>2, Zenon
  <2> QED
    BY <2>2, <2>3, <2>4 DEF MergeInv
<1>2. StackInv' /\ MergeInv /\ [Next]_vars => MergeInv'
  BY GetStackMergeInv, MergeOneMergeInv, ZeroMergedMergeInv, DrawSignalMergeInv, OtherStepMergeInv
     DEF Next
<1> QED
  BY <1>1, <1>2, StackInvariant, PTL DEF Spec

-----------------------------------------------------------------------------
(* The legend loop in closed form.                                            *)

\* Without runs of flags, only the sample before can be carried.
Counted(k) == {stack[k]} \cup (IF MergesFrom(k) THEN {stack[k - 1]} ELSE {})

LegendInv ==
    /\ MergeInv
    /\ pc \notin {"legend", "drawn"} => n = 0 /\ legend = <<>> /\ Nevents_save_for_later = {}
    /\ n \in 0 .. Len(stack)
    /\ Nevents_save_for_later \subseteq Files
    /\ NoRunsOfFlags =>
          Nevents_save_for_later = IF n > 0 /\ Flagged(n) THEN {stack[n]} ELSE {}
    /\ legend \in Seq([at : Positions, counts : SUBSET Files])
    /\ \A i \in 1 .. Len(legend) :
          /\ ~Flagged(legend[i].at)
          /\ NoRunsOfFlags => legend[i].counts = Counted(legend[i].at)

LEMMA AppendType ==
  ASSUME NEW T, NEW s \in Seq(T), NEW e \in T
  PROVE  Append(s, e) \in Seq(T)
  OBVIOUS

LEMMA LegendOneLegendInv ==
  ASSUME LegendInv, MergeInv', LegendOne
  PROVE  LegendInv'
<1> DEFINE k == n + 1
           new == [at |-> k, counts |-> Nevents_save_for_later \cup {stack[k]}]
<1>1. /\ StackInv /\ pc = "legend" /\ pc' = "legend"
      /\ UNCHANGED <<given, lists, stack>> /\ stack' = stack
      /\ n \in 0 .. Len(stack) /\ n < Len(stack) /\ n' = k
      /\ legend' = IF Flagged(k) THEN legend ELSE Append(legend, new)
      /\ Nevents_save_for_later' = LegendCarry(k)
      /\ Nevents_save_for_later \subseteq Files
      /\ legend \in Seq([at : Positions, counts : SUBSET Files])
  BY DEF LegendOne, LegendInv, MergeInv, loadVars
<1>2. /\ Len(stack) \in Nat /\ k \in Positions /\ stack[k] \in Files
      /\ Flagged(k) \in BOOLEAN /\ Positions \subseteq Nat
      /\ Len(legend) \in Nat
  BY <1>1, StackFacts DEF Positions
<1>3. \A j : Counted(j)' = Counted(j)
  BY <1>1, SamePlot DEF Counted, MergesFrom
<1>4. NoRunsOfFlags /\ Flagged(k) => Nevents_save_for_later = {}
  <2> SUFFICES ASSUME NoRunsOfFlags, Flagged(k) PROVE ~(n > 0 /\ Flagged(n))
    BY DEF LegendInv
  <2> QED
    BY <1>1, <1>2 DEF NoRunsOfFlags
<1>5. NoRunsOfFlags => LegendCarry(k) = IF Flagged(k) THEN {stack[k]} ELSE {}
  BY <1>4 DEF LegendCarry
<1>6. NoRunsOfFlags /\ ~Flagged(k) => new.counts = Counted(k)
  <2>1. MergesFrom(k) <=> n > 0 /\ Flagged(n)
    BY <1>1 DEF MergesFrom
  <2>2. k - 1 = n
    BY <1>1
  <2> QED
    BY <2>1, <2>2 DEF LegendInv, Counted
<1>7. new \in [at : Positions, counts : SUBSET Files]
  BY <1>1, <1>2
<1>8. legend' \in Seq([at : Positions, counts : SUBSET Files])
  <2>1. CASE Flagged(k)
    BY <1>1, <2>1
  <2>2. CASE ~Flagged(k)
    <3>1. legend' = Append(legend, new)
      BY <1>1, <2>2
    <3> HIDE DEF new
    <3> QED
      BY <1>1, <1>7, <3>1, AppendType
  <2> QED
    BY <2>1, <2>2
<1>9. \A i \in 1 .. Len(legend') :
         /\ ~Flagged(legend'[i].at)
         /\ NoRunsOfFlags => legend'[i].counts = Counted(legend'[i].at)
  <2>1. CASE Flagged(k)
    BY <1>1, <2>1 DEF LegendInv
  <2>2. CASE ~Flagged(k)
    <3>1. legend' = Append(legend, new) /\ Len(legend') = Len(legend) + 1
      BY <1>1, <2>2
    <3> SUFFICES ASSUME NEW i \in 1 .. Len(legend')
                 PROVE  /\ ~Flagged(legend'[i].at)
                        /\ NoRunsOfFlags => legend'[i].counts = Counted(legend'[i].at)
      OBVIOUS
    <3>2. CASE i = Len(legend) + 1
      <4>1. legend'[i] = new
        BY <1>1, <3>1, <3>2
      <4> QED
        BY <1>6, <2>2, <4>1
    <3>3. CASE i \in 1 .. Len(legend)
      <4>1. legend'[i] = legend[i]
        BY <1>1, <3>1, <3>3
      <4> QED
        BY <3>3, <4>1 DEF LegendInv
    <3> QED
      BY <1>2, <3>1, <3>2, <3>3
  <2> QED
    BY <2>1, <2>2
<1>10. \A i \in 1 .. Len(legend') :
         /\ ~Flagged(legend[i].at)'
         /\ NoRunsOfFlags' => (legend[i].counts = Counted(legend[i].at))'
  BY <1>1, <1>3, <1>9, SamePlot
<1>11. n' \in 0 .. Len(stack') /\ n' > 0
  BY <1>1, <1>2
<1>12. LegendCarry(k) \subseteq Files
  BY <1>1, <1>2 DEF LegendCarry
<1>13. NoRunsOfFlags' =>
          Nevents_save_for_later' = IF n' > 0 /\ Flagged(n)' THEN {stack[n]}' ELSE {}
  BY <1>1, <1>5, <1>11, SamePlot
<1>14. /\ Nevents_save_for_later' \subseteq Files'
       /\ legend' \in Seq([at : Positions', counts : SUBSET Files'])
  BY <1>1, <1>8, <1>12, SamePlot
<1> QED
  BY <1>1, <1>10, <1>11, <1>13, <1>14 DEF LegendInv

LEMMA SameLegend ==
  ASSUME LegendInv, MergeInv', UNCHANGED <<given, lists, stack, writing>>,
         pc' \notin {"legend", "drawn"} => pc \notin {"legend", "drawn"}
  PROVE  LegendInv'
<1>1. /\ n' = n /\ legend' = legend /\ Nevents_save_for_later' = Nevents_save_for_later
      /\ stack' = stack
  BY DEF writing
<1>2. \A j : Counted(j)' = Counted(j)
  BY <1>1, SamePlot DEF Counted, MergesFrom
<1>3. \A i \in 1 .. Len(legend') :
         /\ ~Flagged(legend[i].at)'
         /\ NoRunsOfFlags' => (legend[i].counts = Counted(legend[i].at))'
  BY <1>1, <1>2, SamePlot DEF LegendInv
<1>4. NoRunsOfFlags' =>
         Nevents_save_for_later' = IF n' > 0 /\ Flagged(n)' THEN {stack[n]}' ELSE {}
  BY <1>1, SamePlot DEF LegendInv
<1>5. /\ Nevents_save_for_later' \subseteq Files'
      /\ legend' \in Seq([at : Positions', counts : SUBSET Files'])
      /\ n' \in 0 .. Len(stack')
  BY <1>1, SamePlot DEF LegendInv
<1> QED
  BY <1>1, <1>3, <1>4, <1>5 DEF LegendInv

LEMMA UnplottedLegendInv ==
  ASSUME LegendInv, MergeInv', UNCHANGED writing,
         pc \notin {"legend", "drawn"}, pc' \notin {"legend", "drawn"}
  PROVE  LegendInv'
<1>1. n' = 0 /\ legend' = <<>> /\ Nevents_save_for_later' = {}
  BY DEF LegendInv, writing
<1>2. Len(stack') \in Nat
  <2>1. Lists(stack, Taken)'
    BY Zenon DEF MergeInv, StackInv
  <2> QED
    BY <2>1 DEF Lists
<1>3. n' \in 0 .. Len(stack')
  BY <1>1, <1>2
<1>4. legend' \in Seq([at : Positions', counts : SUBSET Files'])
  BY <1>1
<1>5. 1 .. Len(legend') = {}
  BY <1>1
<1> QED
  BY <1>1, <1>3, <1>4, <1>5 DEF LegendInv

(* LegendInv holds throughout: every legend line written so far sums the     *)
(* samples the closed form Counted gives it (bdt_datamc.cxx 723-801).        *)
THEOREM LegendInvariant == Spec => []LegendInv
<1>1. Init /\ MergeInv => LegendInv
  <2> SUFFICES ASSUME Init, MergeInv PROVE LegendInv
    OBVIOUS
  <2>1. n = 0 /\ legend = <<>> /\ Nevents_save_for_later = {}
    BY DEF Init
  <2>2. Len(stack) \in Nat
    BY StackFacts DEF MergeInv
  <2>3. n \in 0 .. Len(stack) /\ 1 .. Len(legend) = {}
    BY <2>1, <2>2
  <2>4. legend \in Seq([at : Positions, counts : SUBSET Files])
    BY <2>1
  <2> QED
    BY <2>1, <2>3, <2>4 DEF LegendInv
<1>2. MergeInv' /\ LegendInv /\ [Next]_vars => LegendInv'
  <2> SUFFICES ASSUME MergeInv', LegendInv, [Next]_vars PROVE LegendInv'
    OBVIOUS
  <2>1. CASE LegendOne
    BY <2>1, LegendOneLegendInv
  <2>2. CASE (LoadNext /\ UNCHANGED plotVars) \/ StartStack \/ AddToStack
    <3>1. /\ UNCHANGED writing
          /\ pc \notin {"legend", "drawn"} /\ pc' \notin {"legend", "drawn"}
      BY <2>2 DEF LoadNext, LoadFile, LeaveLoop, TakeSignal, StartStack, AddToStack,
                  plotVars, loadVars
    <3> QED
      BY <3>1, UnplottedLegendInv
  <2>3. CASE GetStack \/ MergeOne \/ ZeroMerged \/ DrawSignalOnTop \/ UNCHANGED vars
    <3>1. /\ UNCHANGED <<given, lists, stack, writing>>
          /\ pc' \notin {"legend", "drawn"} => pc \notin {"legend", "drawn"}
      BY <2>3 DEF GetStack, MergeOne, ZeroMerged, DrawSignalOnTop, vars, plotVars, loadVars
    <3> QED
      BY <3>1, SameLegend
  <2> QED
    BY <2>1, <2>2, <2>3 DEF Next
<1> QED
  BY <1>1, <1>2, MergeInvariant, PTL DEF Spec

-----------------------------------------------------------------------------
(* What is drawn.                                                             *)

(* The histograms of the stack when the plot is made.                         *)
LEMMA PlottedFacts ==
  ASSUME LegendInv, Plotted
  PROVE  /\ StackInv
         /\ hists = Stacks \/ hists = Append(Stacks, SignalOnTop)
         /\ Len(stack) \in Nat /\ Stacks \in Seq(SUBSET Files) /\ Len(Stacks) = Len(stack)
         /\ \A k \in Positions : hists[k] = Kept(k)
         /\ \A k \in DOMAIN hists \ Positions : hists[k] = SignalOnTop /\ k = Len(stack) + 1
         /\ Positions \subseteq DOMAIN hists
<1>1. StackInv /\ (hists = Stacks \/ hists = Append(Stacks, SignalOnTop))
  BY DEF LegendInv, MergeInv, Plotted
<1>2. Len(stack) \in Nat
  BY <1>1, StackFacts
<1>3. Stacks \in [Positions -> SUBSET Files]
  BY <1>1, DrawnFiles DEF Stacks
<1>4. Stacks \in Seq(SUBSET Files) /\ Len(Stacks) = Len(stack)
  BY <1>2, <1>3 DEF Positions
<1>5. \A k \in Positions : Stacks[k] = Kept(k)
  BY DEF Stacks
<1>6. CASE hists = Stacks
  BY <1>1, <1>2, <1>3, <1>4, <1>5, <1>6
<1>7. CASE hists = Append(Stacks, SignalOnTop)
  <2>1. /\ DOMAIN hists = 1 .. Len(stack) + 1
        /\ \A k \in Positions : hists[k] = Stacks[k]
        /\ hists[Len(stack) + 1] = SignalOnTop
    BY <1>2, <1>4, <1>7 DEF Positions
  <2>2. \A k \in DOMAIN hists \ Positions : k = Len(stack) + 1
    BY <1>2, <2>1 DEF Positions
  <2>3. Positions \subseteq DOMAIN hists
    BY <1>2, <2>1 DEF Positions
  <2> QED
    BY <1>1, <1>2, <1>4, <1>5, <2>1, <2>2, <2>3
<1> QED
  BY <1>1, <1>6, <1>7

(* A histogram holds its own sample, and possibly a flagged one just before   *)
(* it; what is on top is in none.                                             *)
LEMMA KeptFacts ==
  ASSUME StackInv, NEW k \in Positions, NEW i \in Kept(k)
  PROVE  /\ Beneath(i) /\ ~Flagged(k)
         /\ \/ i = stack[k]
            \/ k - 1 \in Positions /\ Flagged(k - 1) /\ i = stack[k - 1]
<1>1. i \in Drawn(stack[k]) \/ (MergesFrom(k) /\ i \in Drawn(stack[k - 1]))
  BY DEF Kept, Merged
<1>2. MergesFrom(k) => k - 1 \in Positions /\ Flagged(k - 1)
  BY StackFacts DEF MergesFrom, Positions
<1>3. ~Flagged(k)
  BY DEF Kept
<1> QED
  BY <1>1, <1>2, <1>3 DEF Drawn, Beneath

(* No event is drawn in two histograms, whatever the flags: a sample moved up *)
(* is gone from its own place, and what is on top is in no other histogram.   *)
THEOREM NothingEverDrawnTwice == Spec => []NothingDrawnTwice
<1>1. LegendInv => NothingDrawnTwice
  <2> SUFFICES ASSUME LegendInv, Plotted,
                      NEW j \in DOMAIN hists, NEW k \in DOMAIN hists,
                      NEW i \in hists[j] \cap hists[k]
               PROVE  j = k
    BY DEF NothingDrawnTwice
  <2>1. \A h \in SignalOnTop : OnTop(h)
    BY DEF SignalOnTop
  <2>2. CASE j \in Positions /\ k \in Positions
    <3>1. /\ i \in Kept(j) /\ i \in Kept(k) /\ StackInv
          /\ Positions \subseteq Nat
      BY <2>2, PlottedFacts DEF Positions
    <3>2. /\ ~Flagged(j) /\ ~Flagged(k)
          /\ \/ i = stack[j]
             \/ j - 1 \in Positions /\ Flagged(j - 1) /\ i = stack[j - 1]
          /\ \/ i = stack[k]
             \/ k - 1 \in Positions /\ Flagged(k - 1) /\ i = stack[k - 1]
      BY <2>2, <3>1, KeptFacts
    <3>3. \A a, b \in Positions : stack[a] = stack[b] => a = b
      BY <3>1, StackFacts DEF Positions
    <3>4. CASE i = stack[j]
      <4>1. ~(k - 1 \in Positions /\ Flagged(k - 1) /\ i = stack[k - 1])
        BY <2>2, <3>2, <3>3, <3>4
      <4> QED
        BY <2>2, <3>2, <3>3, <3>4, <4>1
    <3>5. CASE j - 1 \in Positions /\ Flagged(j - 1) /\ i = stack[j - 1]
      <4>1. i # stack[k]
        BY <2>2, <3>2, <3>3, <3>5
      <4>2. j - 1 = k - 1
        BY <3>2, <3>3, <3>5, <4>1
      <4> QED
        BY <2>2, <3>1, <4>2
    <3> QED
      BY <3>2, <3>4, <3>5
  <2>3. CASE j \notin Positions /\ k \notin Positions
    BY <2>3, PlottedFacts
  <2>4. ASSUME NEW a \in DOMAIN hists, NEW b \in DOMAIN hists, a \in Positions,
               b \notin Positions, i \in hists[a], i \in hists[b]
        PROVE  FALSE
    <3>1. i \in Kept(a) /\ i \in SignalOnTop /\ StackInv
      BY <2>4, PlottedFacts
    <3>2. Beneath(i) /\ OnTop(i)
      BY <2>1, <2>4, <3>1, KeptFacts
    <3> QED
      BY <3>2 DEF Beneath
  <2> QED
    BY <2>2, <2>3, <2>4
<1> QED
  BY <1>1, LegendInvariant, PTL

(* The legend's number next to a sample is what its histogram shows, unless   *)
(* flagged samples follow one another.                                        *)
THEOREM LegendAlwaysMatchesPlot == Spec => []LegendMatchesPlot
<1>1. LegendInv => LegendMatchesPlot
  <2> SUFFICES ASSUME LegendInv, pc = "drawn", NoRunsOfFlags, NEW e \in Elements(legend)
               PROVE  hists[e.at] = {i \in e.counts : Beneath(i)}
    BY DEF LegendMatchesPlot
  <2>1. Plotted
    BY DEF Plotted
  <2>2. PICK j \in 1 .. Len(legend) : e = legend[j]
    BY DEF Elements, LegendInv
  <2>3. /\ e.at \in Positions /\ ~Flagged(e.at)
        /\ e.counts = Counted(e.at)
    <3>1. /\ legend \in Seq([at : Positions, counts : SUBSET Files])
          /\ ~Flagged(legend[j].at)
          /\ legend[j].counts = Counted(legend[j].at)
      BY DEF LegendInv
    <3>2. legend[j] \in [at : Positions, counts : SUBSET Files]
      <4> DEFINE T == [at : Positions, counts : SUBSET Files]
      <4> HIDE DEF T
      <4>1. legend \in Seq(T) /\ j \in 1 .. Len(legend)
        BY <2>2, <3>1 DEF T
      <4>2. legend[j] \in T
        BY <4>1
      <4> QED
        BY <4>2 DEF T
    <3> QED
      BY <2>2, <3>1, <3>2
  <2>4. hists[e.at] = Merged(e.at)
    BY <2>1, <2>3, PlottedFacts DEF Kept
  <2>5. Merged(e.at) = {i \in Counted(e.at) : Beneath(i)}
    BY <2>3 DEF Merged, Counted, Drawn, Beneath
  <2> QED
    BY <2>3, <2>4, <2>5
<1> QED
  BY <1>1, LegendInvariant, PTL

(* A file of stack_bdt_files that is not on top reaches the stack.            *)
LEMMA BeneathInStack ==
  ASSUME StackInv, Complete, NEW i \in Elements(stack_bdt_files), Beneath(i)
  PROVE  \E k \in Positions : stack[k] = i
<1>1. /\ added = Iterations /\ LoadInv /\ Lists(stack, Taken)
      /\ Lists(stack_bdt_files, Stacked)
  BY Zenon DEF StackInv, LoadInv
<1> PICK L \in Nat : L = Len(stack_bdt_files) /\ DOMAIN stack_bdt_files = 1 .. L
  BY <1>1 DEF Lists
<1>2. PICK k \in 1 .. L : stack_bdt_files[k] = i
  BY DEF Elements
<1>3. k \in 1 .. Iterations
  <2>1. CASE mode_option = "gif"
    BY <2>1 DEF Iterations
  <2>2. CASE mode_option # "gif"
    BY <2>2 DEF Iterations
  <2> QED
    BY <2>1, <2>2
<1>4. ~SecondLoop(k) /\ FileAt(k) = i /\ Takes(k)
  <2>1. ~SecondLoop(k)
    BY DEF SecondLoop
  <2>2. FileAt(k) = i
    BY <1>2, <2>1 DEF FileAt
  <2> QED
    BY <2>1, <2>2 DEF Takes, Beneath
<1>5. i \in Elements(stack)
  BY <1>1, <1>3, <1>4 DEF Taken, Lists
<1> QED
  BY <1>5, StackFacts DEF Elements, Positions

(* "Total Prediction" is what is drawn: all files of the stack but those on   *)
(* top, if no flagged samples follow one another and the last is not flagged. *)
THEOREM TotalAlwaysDrawn == Spec => []TotalIsDrawn
<1>1. LegendInv => TotalIsDrawn
  <2> SUFFICES ASSUME LegendInv, Plotted, NoRunsOfFlags, LastStays
               PROVE  UNION {hists[k] : k \in DOMAIN stack} =
                        {i \in Elements(stack_bdt_files) : Beneath(i)}
    BY DEF TotalIsDrawn
  <2>1. /\ StackInv /\ Complete /\ DOMAIN stack = Positions
        /\ \A k \in Positions : hists[k] = Kept(k)
    BY PlottedFacts, StackFacts DEF Plotted, Complete, Positions
  <2>2. Elements(stack_bdt_files) = Stacked /\ LoadInv
    BY <2>1, Zenon DEF StackInv, LoadInv, Lists
  <2>3. \A k \in Positions : stack[k] \in Stacked
    <3>1. Lists(stack, Taken) /\ added \in 0 .. Iterations
      BY <2>1 DEF StackInv
    <3>2. Taken \subseteq Stacked
      BY <2>2, <3>1, IterationFacts DEF Taken
    <3> QED
      BY <2>1, <3>1, <3>2 DEF Lists, Elements
  <2>4. ASSUME NEW k \in Positions, NEW i \in Kept(k)
        PROVE  i \in Stacked /\ Beneath(i)
    BY <2>1, <2>3, <2>4, KeptFacts
  <2>5. ASSUME NEW i \in Stacked, Beneath(i)
        PROVE  \E k \in Positions : i \in Kept(k)
    <3>1. PICK k \in Positions : stack[k] = i
      BY <2>1, <2>2, <2>5, BeneathInStack
    <3>2. i \in Drawn(stack[k])
      BY <2>5, <3>1 DEF Drawn, Beneath
    <3>3. CASE ~Flagged(k)
      BY <3>2, <3>3 DEF Kept, Merged
    <3>4. CASE Flagged(k)
      <4>1. k # Len(stack)
        BY <3>4 DEF LastStays
      <4>2. Len(stack) \in Nat
        BY <2>1, StackFacts
      <4>3. k + 1 \in Positions /\ k \in 1 .. Len(stack) - 1 /\ k + 1 > 1 /\ (k + 1) - 1 = k
        BY <4>1, <4>2 DEF Positions
      <4>4. ~Flagged(k + 1)
        BY <3>4, <4>3 DEF NoRunsOfFlags
      <4>5. MergesFrom(k + 1)
        BY <3>4, <4>3 DEF MergesFrom
      <4>6. i \in Kept(k + 1)
        BY <3>2, <4>3, <4>4, <4>5 DEF Kept, Merged
      <4> QED
        BY <4>3, <4>6
    <3> QED
      BY <3>3, <3>4
  <2> QED
    BY <2>1, <2>2, <2>4, <2>5
<1> QED
  BY <1>1, LegendInvariant, PTL

(* In mode datamc a position's flag is that of the sample drawn there: before *)
(* a flagged sample there is no on-beam data, which alone is not in the stack *)
(* (training files are not loaded).                                           *)
LEMMA FlagsAreOwn ==
  ASSUME StackInv, Complete, mode_option = "datamc", DataAfterFlags, NEW k \in Positions
  PROVE  Flagged(k) <=> XMLconfig[stack[k]].mergedown
<1>1. /\ LoadInv /\ Lists(stack_bdt_files, Stacked)
      /\ added = Iterations /\ Len(stack) = added
      /\ \A j \in 1 .. added : stack[j] = stack_bdt_files[j]
      /\ bdt_files = [j \in 1 .. f |-> j]
      /\ \A j \in Files : ~XMLconfig[j].training
  BY Zenon DEF StackInv, LoadInv
<1>2. /\ f \in Nat /\ Len(stack) \in Nat /\ Len(stack) <= f /\ k \in Files
      /\ Len(stack) = Len(stack_bdt_files) /\ stack[k] \in Files /\ stack[k] \in Nat
      /\ stack[k] = stack_bdt_files[k]
      /\ \A a, b \in Positions : stack[a] = stack[b] => a = b
  <2>1. f \in Nat /\ Len(stack) \in Nat /\ Len(stack) <= f /\ stack[k] \in Files
    BY <1>1, LoadFacts, StackFacts DEF Positions
  <2>2. Len(stack) = Len(stack_bdt_files)
    BY <1>1 DEF Iterations
  <2>3. k \in Files /\ stack[k] = stack_bdt_files[k] /\ stack[k] \in Nat
    BY <1>1, <2>1 DEF Files, Positions
  <2>4. \A a, b \in Positions : stack[a] = stack[b] => a = b
    BY StackFacts DEF Positions
  <2> QED
    BY <2>1, <2>2, <2>3, <2>4
<1>3. Elements(bdt_files) = Files
  BY <1>1, Zenon DEF Elements, Files
<1>4. ASSUME NEW m \in Files, XMLconfig[m].mergedown
      PROVE  m <= Len(stack) /\ stack[m] = m
  <2>1. m \in 0 .. f
    BY <1>2 DEF Files
  <2>2. ASSUME NEW i \in 1 .. m PROVE InStack(XMLconfig[i])
    <3>1. i \in Files
      BY <1>2 DEF Files
    <3>2. XMLconfig[i].kind # "onbeam"
      <4> SUFFICES ASSUME XMLconfig[i].kind = "onbeam" PROVE FALSE
        OBVIOUS
      <4>1. m < i
        BY <1>3, <1>4, <3>1 DEF DataAfterFlags
      <4> QED
        BY <4>1, <2>1
    <3> QED
      BY <1>1, <3>1, <3>2 DEF InStack
  <2>3. m <= Len(stack_bdt_files) /\ stack_bdt_files[m] = m
    <3>1. StackFollowsXML
      BY <1>1, Zenon DEF LoadInv
    <3>2. m \in 1 .. m
      BY <1>2 DEF Files
    <3> QED
      BY <2>1, <2>2, <3>1, <3>2 DEF StackFollowsXML
  <2>4. m \in 1 .. added
    BY <1>1, <1>2, <2>3 DEF Files
  <2> QED
    BY <1>1, <1>2, <2>3, <2>4
<1>5. Flagged(k) = XMLconfig[k].mergedown
  BY <1>1, <1>2, LoadFacts DEF Flagged
<1>6. CASE Flagged(k)
  BY <1>2, <1>4, <1>5, <1>6
<1>7. CASE XMLconfig[stack[k]].mergedown
  <2>1. stack[k] <= Len(stack) /\ stack[stack[k]] = stack[k]
    BY <1>2, <1>4, <1>7
  <2>2. stack[k] \in Positions
    BY <1>2, <2>1 DEF Positions, Files
  <2>3. stack[k] = k
    BY <1>2, <2>1, <2>2
  <2> QED
    BY <1>5, <1>7, <2>3
<1>8. Flagged(k) \in BOOLEAN /\ XMLconfig[stack[k]].mergedown \in BOOLEAN
  BY <1>1, <1>2, StackFacts, LoadFacts DEF Attributes, Positions
<1> QED
  BY <1>6, <1>7, <1>8

(* Every sample is drawn where the XML says.                                  *)
THEOREM AlwaysMergedAsConfigured == Spec => []MergedAsConfigured
<1>1. LegendInv => MergedAsConfigured
  <2> SUFFICES ASSUME LegendInv, Plotted, mode_option = "datamc", DataAfterFlags,
                      NEW k \in DOMAIN stack
               PROVE  LET own == XMLconfig[stack[k]].mergedown
                      IN /\ own => hists[k] = {}
                         /\ ~own => hists[k] = Drawn(stack[k]) \cup
                               (IF k > 1 /\ XMLconfig[stack[k - 1]].mergedown
                                THEN Drawn(stack[k - 1]) ELSE {})
    BY DEF MergedAsConfigured
  <2>1. StackInv /\ Complete /\ k \in Positions /\ hists[k] = Kept(k)
    BY PlottedFacts, StackFacts DEF Plotted, Complete, Positions
  <2>2. Flagged(k) <=> XMLconfig[stack[k]].mergedown
    BY <2>1, FlagsAreOwn
  <2>3. k > 1 => (Flagged(k - 1) <=> XMLconfig[stack[k - 1]].mergedown)
    <3>1. k > 1 => k - 1 \in Positions
      BY <2>1, StackFacts DEF Positions
    <3> QED
      BY <2>1, <3>1, FlagsAreOwn
  <2>4. MergesFrom(k) <=> k > 1 /\ XMLconfig[stack[k - 1]].mergedown
    BY <2>3 DEF MergesFrom
  <2> QED
    BY <2>1, <2>2, <2>4 DEF Kept, Merged
<1> QED
  BY <1>1, LegendInvariant, PTL

-----------------------------------------------------------------------------
(* Positions stay inside the lists they index, and every content is a set of  *)
(* files the loop has loaded.                                                 *)
LEMMA HistsFiles == ASSUME LegendInv PROVE Elements(hists) \subseteq SUBSET Files
<1>1. StackInv
  BY DEF LegendInv, MergeInv
<1>2. CASE Unbuilt \/ pc = "stack"
  <2>1. hists = <<>>
    BY <1>2 DEF LegendInv, MergeInv
  <2> QED
    BY <2>1 DEF Elements
<1>3. CASE pc = "merge"
  <2>1. hists \in [Positions -> SUBSET Files]
    BY <1>3 DEF LegendInv, MergeInv
  <2> QED
    BY <2>1 DEF Elements
<1>4. CASE pc \in {"legend", "drawn"}
  <2>1. Plotted
    BY <1>4 DEF Plotted
  <2>2. \A k \in Positions : hists[k] \subseteq Files
    BY <1>1, <2>1, PlottedFacts, DrawnFiles
  <2>3. SignalOnTop \subseteq Files
    BY <1>1, StackFacts DEF SignalOnTop
  <2>4. \A k \in DOMAIN hists \ Positions : hists[k] \subseteq Files
    BY <2>1, <2>3, PlottedFacts
  <2> QED
    BY <2>2, <2>4 DEF Elements
<1>5. Unbuilt \/ pc \in {"stack", "merge", "legend", "drawn"}
  BY <1>1, Zenon DEF StackInv, LoadInv, Unbuilt
<1> QED
  BY <1>2, <1>3, <1>4, <1>5

(* TypeOK: the lists, stack, histograms and legend of loading and plotting   *)
(* hold files of the XML throughout (hive.cxx, bdt_spec.cxx, bdt_datamc.cxx).*)
THEOREM TypeCorrect == Spec => []TypeOK
<1>1. LegendInv => TypeOK
  <2> SUFFICES ASSUME LegendInv PROVE TypeOK
    OBVIOUS
  <2>1. StackInv /\ LoadInv /\ MergeInv
    BY DEF LegendInv, MergeInv, StackInv
  <2>2. /\ XMLconfig \in UNION {[1 .. k -> FileTypes] : k \in 1 .. MaxFiles}
        /\ mode_option \in Modes /\ f \in 0 .. Len(XMLconfig)
    BY <2>1, Zenon DEF LoadInv, GivenInv
  <2>3. /\ onbeam_data_file \in 0 .. f /\ signal \in 0 .. f
        /\ pc \in {"load", "signal", "crashed", "loaded", "stack", "merge", "legend", "drawn"}
    BY <2>1, Zenon DEF LoadInv
  <2>4. /\ Elements(signal_bdt_files) = Signals /\ Elements(bkg_bdt_files) = Backgrounds
        /\ Elements(stack_bdt_files) = Stacked /\ Elements(training_bdt_files) = Trainings
        /\ Elements(validate_files) = Validations /\ bdt_files = [k \in 1 .. f |-> k]
    BY <2>1, Zenon DEF LoadInv, Lists
  <2>5. Elements(bdt_files) = Files
    BY <2>4, Zenon DEF Elements, Files
  <2>6. Elements(stack) \subseteq Files
    BY <2>1, StackFacts DEF Elements
  <2>7. \A list \in {bdt_files, stack_bdt_files, signal_bdt_files, bkg_bdt_files,
                     training_bdt_files, validate_files, stack} :
           Elements(list) \subseteq 1 .. f
    BY <2>4, <2>5, <2>6 DEF Files, Signals, Backgrounds, Stacked, Trainings, Validations
  <2>8. Elements(mergeDownVector) \subseteq BOOLEAN
    <3>1. mergeDownVector = [k \in 1 .. f |-> XMLconfig[k].mergedown]
      BY <2>1, Zenon DEF LoadInv
    <3>2. \A k \in 1 .. f : XMLconfig[k].mergedown \in BOOLEAN
      BY <2>1, LoadFacts DEF Files, Attributes
    <3> QED
      BY <3>1, <3>2, Zenon DEF Elements
  <2>9. Len(stack) <= Len(mergeDownVector)
    BY <2>1, StackFacts, LoadFacts
  <2>10. added \in 0 .. Iterations
    BY <2>1 DEF StackInv
  <2>11. Elements(hists) \subseteq SUBSET (1 .. f)
    BY HistsFiles DEF Files
  <2>12. /\ saved \subseteq 1 .. f /\ mergetarget \in BOOLEAN /\ lor \in 0 .. Len(stack)
         /\ pc \in {"legend", "drawn"} => lor = Len(stack)
    BY <2>1, Zenon DEF MergeInv, Files
  <2>13. n \in 0 .. lor
    <3>1. /\ n \in 0 .. Len(stack)
          /\ pc \notin {"legend", "drawn"} => n = 0
      BY DEF LegendInv
    <3>2. Len(stack) \in Nat
      BY <2>1, StackFacts
    <3> QED
      BY <2>12, <3>1, <3>2
  <2>14. Nevents_save_for_later \subseteq 1 .. f
    BY DEF LegendInv, Files
  <2>15. Elements(legend) \subseteq [at : 1 .. f, counts : SUBSET (1 .. f)]
    <3> DEFINE T == [at : Positions, counts : SUBSET Files]
    <3>1. legend \in Seq(T)
      BY DEF LegendInv
    <3>2. Elements(legend) \subseteq T
      <4> HIDE DEF T
      <4> QED
        BY <3>1 DEF Elements
    <3>3. Positions \subseteq 1 .. f
      BY <2>1, StackFacts, LoadFacts DEF Positions
    <3> QED
      BY <3>2, <3>3 DEF Files
  <2> QED
    BY <2>2, <2>3, <2>7, <2>8, <2>9, <2>10, <2>11, <2>12, <2>13, <2>14, <2>15 DEF TypeOK
<1> QED
  BY <1>1, LegendInvariant, PTL
=============================================================================
