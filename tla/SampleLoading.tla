---------------------------- MODULE SampleLoading ----------------------------
(***************************************************************************)
(* The loop of hive.cxx that turns the <bdtfile> entries of the analysis   *)
(* XML into bdt_file objects and sorts them into the lists every mode      *)
(* works with: all files, files of the stack, signal, background,          *)
(* training and validation files, the on-beam data, and mergeDownVector.   *)
(*                                                                         *)
(* A file is its position in the XML.  What the loop reads of it is the    *)
(* record of its attributes (load_mva_param.cxx).                          *)
(***************************************************************************)
EXTENDS Integers, Sequences, FiniteSets

CONSTANTS FileTypes,     \* the attribute records an XML may contain
          MaxFiles,      \* bound: files in the XML
          Modes          \* the values of --mode that are explored

Attributes == [kind : {"mc", "onbeam", "offbeam"}, training : BOOLEAN,
               signal : BOOLEAN, validate : BOOLEAN,
               mergedown : BOOLEAN, on_top : BOOLEAN]

ASSUME FileTypesAssumption == FileTypes \subseteq Attributes
ASSUME MaxFilesAssumption  == MaxFiles \in Nat
ASSUME ModesAssumption     ==
    Modes \subseteq {"train", "datamc", "gif", "flatten", "makefluxcovar"}

NoFile == 0

VARIABLES
    XMLconfig,        \* the attributes of the files, in XML order
    mode_option,
    f,                \* files the loop has gone past
    bdt_files, stack_bdt_files, signal_bdt_files, bkg_bdt_files,
    training_bdt_files, validate_files,
    onbeam_data_file, \* NoFile: the pointer still holds what the stack held
    mergeDownVector,
    signal,           \* NoFile: not assigned
    pc

lists == <<f, bdt_files, stack_bdt_files, signal_bdt_files, bkg_bdt_files,
           training_bdt_files, validate_files, onbeam_data_file,
           mergeDownVector>>
given == <<XMLconfig, mode_option>>
loadVars == <<given, lists, signal, pc>>

LoadInit ==
    /\ XMLconfig \in UNION {[1 .. n -> FileTypes] : n \in 1 .. MaxFiles}
    /\ mode_option \in Modes
    /\ f = 0
    /\ bdt_files = <<>> /\ stack_bdt_files = <<>>
    /\ signal_bdt_files = <<>> /\ bkg_bdt_files = <<>>
    /\ training_bdt_files = <<>> /\ validate_files = <<>>
    /\ onbeam_data_file = NoFile
    /\ mergeDownVector = <<>>
    /\ signal = NoFile
    /\ pc = "load"

\* Mutant of Breaks: a training file ends the loop whatever the mode.
BreaksAtTraining(i) ==
    \/ mode_option = "makefluxcovar"
    \/ mode_option = "flatten" /\ i # 1
    \/ XMLconfig[i].training

(***************************************************************************)
(* The two breaks at the top of the loop body: modes that load no file at  *)
(* all (or, flattening an external file, only the first one), and a        *)
(* training file met in a mode that does not train.                        *)
(***************************************************************************)
Breaks(i) ==
    \/ mode_option = "makefluxcovar"
    \/ mode_option = "flatten" /\ i # 1
    \/ XMLconfig[i].training /\ mode_option # "train"

InStack(file)  == file.kind # "onbeam" /\ ~file.training

\* Neither list is for training files; validation files join the off-beam
\* list only.
IsBackground(file) ==
    /\ ~file.training
    /\ \/ file.kind = "offbeam"
       \/ file.kind = "mc" /\ ~file.validate /\ ~file.signal

\* Mutant of IsSignal: off-beam files are not kept out of the branch, though
\* is_data is false for off-beam files too.
OffbeamCountsAsMC(file) ==
    file.kind # "onbeam" /\ ~file.training /\ ~file.validate /\ file.signal

IsSignal(file) ==
    file.kind = "mc" /\ ~file.training /\ ~file.validate /\ file.signal

AppendIf(list, test, i) == IF test THEN Append(list, i) ELSE list

LoadFile ==
    LET i == f + 1
        file == XMLconfig[i]
    IN /\ pc = "load"
       /\ f < Len(XMLconfig)
       /\ ~Breaks(i)
       /\ f' = i
       /\ bdt_files' = Append(bdt_files, i)
       /\ onbeam_data_file' = IF file.kind = "onbeam" THEN i ELSE onbeam_data_file
       /\ bkg_bdt_files' = AppendIf(bkg_bdt_files, IsBackground(file), i)
       /\ signal_bdt_files' = AppendIf(signal_bdt_files, IsSignal(file), i)
       /\ mergeDownVector' = Append(mergeDownVector, file.mergedown)
       /\ training_bdt_files' = AppendIf(training_bdt_files, file.training, i)
       /\ stack_bdt_files' = AppendIf(stack_bdt_files, InStack(file), i)
       /\ validate_files' = AppendIf(validate_files, file.validate, i)
       /\ UNCHANGED <<given, signal, pc>>

LeaveLoop ==
    /\ pc = "load"
    /\ f < Len(XMLconfig) => Breaks(f + 1)
    /\ pc' = "signal"
    /\ UNCHANGED <<given, lists, signal>>

(***************************************************************************)
(* signal = signal_bdt_files[0].  On an empty vector this reads through a  *)
(* null pointer: the program stops there, or, where the compiler drops the *)
(* read of a value nobody uses, goes on.                                   *)
(***************************************************************************)
TakeSignal ==
    /\ pc = "signal"
    /\ IF signal_bdt_files = <<>>
       THEN signal' = NoFile /\ pc' \in {"crashed", "loaded"}
       ELSE signal' = signal_bdt_files[1] /\ pc' = "loaded"
    /\ UNCHANGED <<given, lists>>

LoadNext == LoadFile \/ LeaveLoop \/ TakeSignal

LoadSpec == LoadInit /\ [][LoadNext]_loadVars

-----------------------------------------------------------------------------
Elements(list) == {list[k] : k \in DOMAIN list}

(***************************************************************************)
(* A sample that is not for training takes part in the analysis: modes     *)
(* that do not train leave out the training files and nothing else.        *)
(***************************************************************************)
OnlyTrainingLeftOut ==
    (pc = "loaded" /\ mode_option \in {"datamc", "gif"}) =>
        \A i \in DOMAIN XMLconfig :
            i \notin Elements(bdt_files) => XMLconfig[i].training

(***************************************************************************)
(* What mode sig scans is what mode datamc draws: outside validation       *)
(* files, signal and background together are the stack, each file once.    *)
(* (A sample in two lists, or in none, makes the scanned significance that *)
(* of another selection than the plotted one.)                             *)
(***************************************************************************)
SignificanceSeesTheStack ==
    LET scanned == signal_bdt_files \o bkg_bdt_files
    IN /\ Elements(stack_bdt_files) \ Elements(validate_files)
              \subseteq Elements(scanned)
       /\ Elements(scanned) \subseteq Elements(stack_bdt_files)
       /\ Len(scanned) = Cardinality(Elements(scanned))

(***************************************************************************)
(* The tags of a BDT resolve: training loads every file of the XML, in the *)
(* XML's order, so which_file and the tags mean the same in every mode     *)
(* that gets that far.                                                     *)
(***************************************************************************)
FileNumbersAreXMLNumbers ==
    /\ bdt_files = [k \in 1 .. f |-> k]
    /\ Len(mergeDownVector) = f
    /\ (pc = "loaded" /\ mode_option = "train") => f = Len(XMLconfig)
=============================================================================
