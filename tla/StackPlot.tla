------------------------------- MODULE StackPlot -------------------------------
(***************************************************************************)
(* The histogram stack of modes datamc, stack and gif: hive.cxx puts the   *)
(* files of the stack into a bdt_stack, bdt_stack::getStack draws one      *)
(* histogram per file, and bdt_datamc::plotStacks folds the samples        *)
(* flagged "mergedown" into the next one, zeroes them, and writes the      *)
(* event counts into the legend.                                           *)
(*                                                                         *)
(* The content of a histogram, and of a legend number, is the set of       *)
(* files whose events it counts (files are disjoint samples).              *)
(***************************************************************************)
EXTENDS SampleLoading

VARIABLES
    added,        \* iterations done of the loops that fill the stack
    stack,        \* bdt_stack::stack, its signal_on_top is OnTop below
    hists,        \* contents of the histograms of the THStack
    saved,        \* the clone kept for the next histogram
    mergetarget,
    lor, n,       \* stack positions done in the merge and legend loops
    Nevents_save_for_later,
    legend        \* the legend's entries: <<stack position, files counted>>

merging == <<saved, mergetarget, lor>>
writing == <<n, Nevents_save_for_later, legend>>
plotVars == <<added, stack, hists, merging, writing>>
vars == <<loadVars, plotVars>>

Init ==
    /\ LoadInit
    /\ added = 0 /\ stack = <<>> /\ hists = <<>>
    /\ saved = {} /\ mergetarget = FALSE
    /\ lor = 0 /\ n = 0
    /\ Nevents_save_for_later = {}
    /\ legend = <<>>

\* plotOnTopMap, signal_on_top
OnTop(i) == XMLconfig[i].on_top

Beneath(i) == ~OnTop(i)

\* gif goes over the files of the stack twice.
Iterations ==
    IF mode_option = "gif" THEN 2 * Len(stack_bdt_files) ELSE Len(stack_bdt_files)

SecondLoop(k) == k > Len(stack_bdt_files)

FileAt(k) ==
    stack_bdt_files[IF SecondLoop(k) THEN k - Len(stack_bdt_files) ELSE k]

\* Mutant of Takes: the first of gif's two loops takes the files on top, too.
OnTopAddedTwice(k) == SecondLoop(k) => OnTop(FileAt(k))

\* gif adds the files on top in its second loop; datamc keeps their places,
\* "as that messes up covariances".
Takes(k) == mode_option = "gif" => (OnTop(FileAt(k)) <=> SecondLoop(k))

\* plot_pot = onbeam_data_file->pot
StartStack ==
    /\ pc = "loaded"
    /\ mode_option \in {"datamc", "gif"}
    /\ onbeam_data_file # NoFile
    /\ pc' = "stack"
    /\ UNCHANGED <<given, lists, signal, plotVars>>

AddToStack ==
    LET k == added + 1
    IN /\ pc = "stack"
       /\ added < Iterations
       /\ added' = k
       /\ stack' = AppendIf(stack, Takes(k), FileAt(k))
       /\ UNCHANGED <<loadVars, hists, merging, writing>>

\* getStack(.., skip_signal = true): the signal on top is Reset.
Drawn(i) == IF OnTop(i) THEN {} ELSE {i}

\* An empty stack ends the program: getSum asks for stack.at(0).
GetStack ==
    /\ pc = "stack"
    /\ added = Iterations
    /\ stack # <<>>
    /\ hists' = [k \in DOMAIN stack |-> Drawn(stack[k])]
    /\ pc' = "merge"
    /\ UNCHANGED <<given, lists, signal, added, stack, merging, writing>>

\* remove_to_merge[k]: mergeDownVector, read with a position of the stack.
Flagged(k) == mergeDownVector[k]

\* Mutants of MergeInto: what is kept replaces the histogram, or is added to
\* every later one.
MergeForgetting(h) == IF mergetarget THEN saved ELSE h
MergeAlways(h) == h \cup saved

MergeInto(h) == IF mergetarget THEN h \cup saved ELSE h

MergeOne ==
    LET k == lor + 1
    IN /\ pc = "merge"
       /\ lor < Len(hists)
       /\ lor' = k
       /\ IF Flagged(k)
          THEN /\ saved' = hists[k]
               /\ mergetarget' = TRUE
               /\ UNCHANGED hists
          ELSE /\ hists' = [hists EXCEPT ![k] = MergeInto(@)]
               /\ mergetarget' = FALSE
               /\ UNCHANGED saved
       /\ UNCHANGED <<loadVars, added, stack, writing>>

\* Mutant of ZeroedHists: the second loop is not there.
ZeroNothing == hists

\* The second loop: "and Zero".
ZeroedHists == [k \in DOMAIN hists |-> IF Flagged(k) THEN {} ELSE hists[k]]

ZeroMerged ==
    /\ pc = "merge"
    /\ lor = Len(hists)
    /\ hists' = ZeroedHists
    /\ pc' = "legend"
    /\ UNCHANGED <<given, lists, signal, added, stack, merging, writing>>

\* Mutant of LegendCarry: the carried number is not reset.
LegendKeepsCarry(k) ==
    IF Flagged(k) THEN Nevents_save_for_later \cup {stack[k]}
                  ELSE Nevents_save_for_later

\* The legend counts a file's events wherever it is drawn.
LegendCarry(k) ==
    IF Flagged(k) THEN Nevents_save_for_later \cup {stack[k]} ELSE {}

LegendOne ==
    LET k == n + 1
    IN /\ pc = "legend"
       /\ n < Len(stack)
       /\ n' = k
       /\ legend' = IF Flagged(k) THEN legend
                    ELSE Append(legend, [at |-> k,
                                         counts |-> Nevents_save_for_later
                                                        \cup {stack[k]}])
       /\ Nevents_save_for_later' = LegendCarry(k)
       /\ UNCHANGED <<loadVars, added, stack, hists, merging>>

\* getSignalOnTop: the first file on top, and no other, joins the THStack.
SignalOnTop ==
    {stack[k] : k \in {j \in DOMAIN stack :
                         /\ OnTop(stack[j])
                         /\ \A h \in 1 .. j - 1 : Beneath(stack[h])}}

DrawSignalOnTop ==
    /\ pc = "legend"
    /\ n = Len(stack)
    /\ hists' = IF SignalOnTop = {} THEN hists ELSE Append(hists, SignalOnTop)
    /\ pc' = "drawn"
    /\ UNCHANGED <<given, lists, signal, added, stack, merging, writing>>

Next == \/ LoadNext /\ UNCHANGED plotVars
        \/ StartStack \/ AddToStack \/ GetStack \/ MergeOne \/ ZeroMerged
        \/ LegendOne \/ DrawSignalOnTop

Spec == Init /\ [][Next]_vars
-----------------------------------------------------------------------------
\* Shapes and ranges: positions stay inside the stack, every list and every
\* content holds files the loop loaded, and a flag exists for every position.
TypeOK ==
    /\ XMLconfig \in UNION {[1 .. k -> FileTypes] : k \in 1 .. MaxFiles}
    /\ mode_option \in Modes
    /\ f \in 0 .. Len(XMLconfig)
    /\ \A list \in {bdt_files, stack_bdt_files, signal_bdt_files, bkg_bdt_files,
                     training_bdt_files, validate_files, stack} :
           Elements(list) \subseteq 1 .. f
    /\ onbeam_data_file \in 0 .. f
    /\ signal \in 0 .. f
    /\ Elements(mergeDownVector) \subseteq BOOLEAN
    /\ added \in 0 .. Iterations
    /\ Len(stack) <= Len(mergeDownVector)
    /\ Elements(hists) \subseteq SUBSET (1 .. f)
    /\ saved \subseteq 1 .. f
    /\ mergetarget \in BOOLEAN
    /\ lor \in 0 .. Len(stack) /\ n \in 0 .. lor
    /\ Nevents_save_for_later \subseteq 1 .. f
    /\ Elements(legend) \subseteq [at : 1 .. f, counts : SUBSET (1 .. f)]
    /\ pc \in {"load", "signal", "crashed", "loaded", "stack", "merge",
              "legend", "drawn"}

Plotted == pc \in {"legend", "drawn"}

\* No flagged sample is followed by another: saved holds one histogram.
NoRunsOfFlags == \A k \in 1 .. Len(stack) - 1 : ~(Flagged(k) /\ Flagged(k + 1))

\* The file drawn at the top of the stack is not to be merged down.
LastStays == ~Flagged(Len(stack))

\* As the XMLs of the repository order their files: every sample to be
\* merged down comes before the on-beam data.
DataAfterFlags ==
    \A i, j \in Elements(bdt_files) :
        XMLconfig[i].kind = "onbeam" /\ XMLconfig[j].mergedown => j < i

(***************************************************************************)
(* No event is drawn in two histograms: what is copied up into the next    *)
(* sample is gone from its own, whatever the flags.                        *)
(***************************************************************************)
NothingDrawnTwice ==
    Plotted => \A j, k \in DOMAIN hists : j # k => hists[j] \cap hists[k] = {}

(***************************************************************************)
(* The number the legend writes next to a sample is what its histogram     *)
(* shows, but for the signal on top, counted where it would stand.         *)
(***************************************************************************)
LegendMatchesPlot ==
    (pc = "drawn" /\ NoRunsOfFlags) =>
        \A e \in Elements(legend) :
            hists[e.at] = {i \in e.counts : Beneath(i)}

(***************************************************************************)
(* "Total Prediction" (NeventsStack) is the height of the drawn stack, and *)
(* counts every file of the stack that is not drawn on top.                *)
(***************************************************************************)
TotalIsDrawn ==
    (Plotted /\ NoRunsOfFlags /\ LastStays) =>
        UNION {hists[k] : k \in DOMAIN stack} =
            {i \in Elements(stack_bdt_files) : Beneath(i)}

(***************************************************************************)
(* From the XML to the plot: in mode datamc a sample whose own entry says  *)
(* mergedown is not drawn at its own place, any other is, and with it such *)
(* a sample just before it, and nothing else.                              *)
(* (mergeDownVector runs over all files, the stack over fewer.)            *)
(***************************************************************************)
MergedAsConfigured ==
    (Plotted /\ mode_option = "datamc" /\ DataAfterFlags) =>
        \A k \in DOMAIN stack :
            LET own == XMLconfig[stack[k]].mergedown
            IN /\ own => hists[k] = {}
               /\ ~own => hists[k] = Drawn(stack[k]) \cup
                     (IF k > 1 /\ XMLconfig[stack[k - 1]].mergedown
                      THEN Drawn(stack[k - 1]) ELSE {})
=============================================================================
