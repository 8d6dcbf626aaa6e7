------------------------------- MODULE XGApp -------------------------------
(***************************************************************************)
(* mode app: convertToLibSVM writes one line to a libSVM file for every    *)
(* entry of a bdt_file's precut_list, XGBoost returns one score per line,  *)
(* and bdt_XGapp spreads the scores over a tree that is to go beside the   *)
(* event tree entry by entry, -999 where the precuts fail.                 *)
(*                                                                         *)
(* Both functions walk precut_list through the cursor TEntryList keeps, and*)
(* nothing but the order of lines ties a score to its entry.  A line of the*)
(* file, and the score computed from it, are identified with the entry the *)
(* line was written for.                                                   *)
(*                                                                         *)
(* Two of the calls into XGBoost are made through safe_xgboost, which ends *)
(* the program; the one that returns the scores is not.                    *)
(***************************************************************************)
EXTENDS Integers, Sequences

CONSTANTS
  NEntries,       \* tvertex->GetEntries()
  SizeMax         \* the largest size_t

ASSUME XGAppAssumption ==
  /\ NEntries \in Nat
  /\ SizeMax \in Nat
  /\ SizeMax > NEntries + 1

VARIABLES
  precut_list,    \* the entries that pass the precuts, ascending
  last_queried,   \* TEntryList's cursor into it, -1 before the first query
  model_loads,    \* whether XGBoosterLoadModel finds a model it can read
  dat,            \* lines of the libSVM file, none also when there is no file
  opened,         \* whether sslibSVM could be opened
  pc,             \* what the two functions are at
  next_entry,     \* convertToLibSVM: the entry the next line is for
  num,            \* convertToLibSVM: lines written; bdt_XGapp: scores used
  out_len,        \* bdt_XGapp: the scores XGBoosterPredict returned
  working_index,  \* bdt_XGapp: the entry the next score is for
  tree            \* bdt_XGapp: rows filled; have_filled is their number

vars == <<precut_list, last_queried, model_loads, dat, opened, pc, next_entry, num, out_len,
          working_index, tree>>

Entries == 0..NEntries - 1

\* mva of an entry that fails the precuts.
NoScore == -999

\* What TEntryList::Enter has collected: ascending, no entry twice.
IsEntryList(l) == \A j, k \in DOMAIN l : j < k => l[j] < l[k]

\* Mutant of AsSizeT: the index is kept in a signed integer.
AsSizeTSigned(y) == y

\* size_t x = y for an integer y: -1 becomes the largest size_t.
AsSizeT(y) == IF y < 0 THEN SizeMax ELSE y

\* TEntryList::GetN, GetEntry(0) and Next: value returned, cursor left behind.
GetN == Len(precut_list)

First == IF GetN = 0 THEN -1 ELSE precut_list[1]

FirstQueried == IF GetN = 0 THEN last_queried ELSE 0

HasNext == GetN # 0 /\ last_queried + 1 < GetN

NextValue == IF HasNext THEN precut_list[last_queried + 2] ELSE -1

NextQueried == IF HasNext THEN last_queried + 1 ELSE last_queried

have_filled == Len(tree)

-----------------------------------------------------------------------------
\* Whatever an earlier job left in the libSVM file is there at the start.
Init ==
  /\ precut_list \in UNION {[1..n -> Entries] : n \in 0..NEntries}
  /\ IsEntryList(precut_list)
  /\ last_queried \in -1..Len(precut_list) - 1
  /\ dat \in UNION {[1..n -> Entries] : n \in 0..NEntries}
  /\ IsEntryList(dat)
  /\ model_loads \in BOOLEAN
  /\ opened = FALSE
  /\ pc = "open"
  /\ next_entry = 0
  /\ num = 0
  /\ out_len = 0
  /\ working_index = 0
  /\ tree = <<>>

\* sslibSVM.open truncates the file, or fails, which nothing looks at; the
\* list's cursor goes to its start.
OpenFile ==
  /\ pc = "open"
  /\ \/ opened' = TRUE /\ dat' = <<>>
     \/ opened' = FALSE /\ dat' = dat
  /\ next_entry' = AsSizeT(First)
  /\ last_queried' = FirstQueried
  /\ pc' = "convert"
  /\ UNCHANGED <<precut_list, model_loads, num, out_len, working_index, tree>>

\* Mutant of ConvertEntry: the cursor moves on before the line is written.
ConvertNextEntry ==
  /\ pc = "convert"
  /\ num < GetN
  /\ dat' = IF opened THEN Append(dat, AsSizeT(NextValue)) ELSE dat
  /\ next_entry' = AsSizeT(NextValue)
  /\ last_queried' = NextQueried
  /\ num' = num + 1
  /\ UNCHANGED <<precut_list, model_loads, opened, pc, out_len, working_index, tree>>

\* The body of convertToLibSVM's while (num < precut_list->GetN()).
ConvertEntry ==
  /\ pc = "convert"
  /\ num < GetN
  /\ dat' = IF opened THEN Append(dat, next_entry) ELSE dat
  /\ next_entry' = AsSizeT(NextValue)
  /\ last_queried' = NextQueried
  /\ num' = num + 1
  /\ UNCHANGED <<precut_list, model_loads, opened, pc, out_len, working_index, tree>>

\* XGDMatrixCreateFromFile refuses a file of no bytes, and a missing one.
DataReadable == dat # <<>>

\* Mutant of Predict: an input that cannot be read is no reason to stop.
PredictUnchecked ==
  /\ pc = "convert"
  /\ num >= GetN
  /\ out_len' \in {Len(dat), 0}
  /\ num' = 0
  /\ working_index' = AsSizeT(First)
  /\ last_queried' = FirstQueried
  /\ pc' = "spread"
  /\ UNCHANGED <<precut_list, model_loads, dat, opened, next_entry, tree>>

\* The model is loaded, the friend file recreated, the libSVM file read and
\* XGBoosterPredict called: a score per line, or none if it catches an error,
\* for nothing looks at the code it returns and out_len was 0.
Predict ==
  /\ pc = "convert"
  /\ num >= GetN
  /\ model_loads /\ DataReadable
  /\ out_len' \in {Len(dat), 0}
  /\ num' = 0
  /\ working_index' = AsSizeT(First)
  /\ last_queried' = FirstQueried
  /\ pc' = "spread"
  /\ UNCHANGED <<precut_list, model_loads, dat, opened, next_entry, tree>>

\* safe_xgboost around XGBoosterLoadModel, and, with the friend file recreated
\* by then, around XGDMatrixCreateFromFile.
ExitOnError ==
  /\ pc = "convert"
  /\ num >= GetN
  /\ ~(model_loads /\ DataReadable)
  /\ pc' = "exited"
  /\ UNCHANGED <<precut_list, last_queried, model_loads, dat, opened, next_entry, num, out_len,
                 working_index, tree>>

\* while (have_filled < working_index) inside the loop over the scores.  A gap
\* as long as a size_t can count is never filled: the job stays in this loop.
FillGap ==
  /\ pc = "spread"
  /\ num < out_len
  /\ have_filled < working_index
  /\ have_filled + 1 < SizeMax
  /\ tree' = Append(tree, NoScore)
  /\ UNCHANGED <<precut_list, last_queried, model_loads, dat, opened, pc, next_entry, num, out_len,
                 working_index>>

\* Mutant of UseScore: the entry to wait for is not moved on.
UseScoreStay ==
  /\ pc = "spread"
  /\ num < out_len
  /\ have_filled >= working_index
  /\ IF have_filled = working_index
     THEN /\ tree' = Append(tree, dat[num + 1])
          /\ last_queried' = NextQueried
     ELSE UNCHANGED <<tree, last_queried>>
  /\ num' = num + 1
  /\ UNCHANGED <<precut_list, model_loads, dat, opened, pc, next_entry, out_len, working_index>>

\* The score goes to the entry that is due; otherwise "AGHR, something went wrong".
UseScore ==
  /\ pc = "spread"
  /\ num < out_len
  /\ have_filled >= working_index
  /\ IF have_filled = working_index
     THEN /\ tree' = Append(tree, dat[num + 1])
          /\ working_index' = AsSizeT(NextValue)
          /\ last_queried' = NextQueried
     ELSE UNCHANGED <<tree, working_index, last_queried>>
  /\ num' = num + 1
  /\ UNCHANGED <<precut_list, model_loads, dat, opened, pc, next_entry, out_len>>

\* Mutant of FillRest: one row short.
FillRestShort ==
  /\ pc = "spread"
  /\ num >= out_len
  /\ IF have_filled < NEntries - 1
     THEN tree' = Append(tree, NoScore) /\ pc' = pc
     ELSE tree' = tree /\ pc' = "written"
  /\ UNCHANGED <<precut_list, last_queried, model_loads, dat, opened, next_entry, num, out_len,
                 working_index>>

\* The last while loop, and tree->Write.
FillRest ==
  /\ pc = "spread"
  /\ num >= out_len
  /\ IF have_filled < NEntries
     THEN tree' = Append(tree, NoScore) /\ pc' = pc
     ELSE tree' = tree /\ pc' = "written"
  /\ UNCHANGED <<precut_list, last_queried, model_loads, dat, opened, next_entry, num, out_len,
                 working_index>>

Next == OpenFile \/ ConvertEntry \/ Predict \/ ExitOnError \/ FillGap \/ UseScore \/ FillRest

\* bdt_XGapp is straight-line code with loops: it takes its next step.
Spec == Init /\ [][Next]_vars /\ WF_vars(Next)

-----------------------------------------------------------------------------
TypeOK ==
  /\ precut_list \in Seq(Entries)
  /\ last_queried \in -1..GetN - 1
  /\ model_loads \in BOOLEAN
  /\ dat \in Seq(0..SizeMax)
  /\ opened \in BOOLEAN
  /\ pc \in {"open", "convert", "spread", "written", "exited"}
  /\ next_entry \in 0..SizeMax
  /\ num \in Nat
  /\ out_len \in Nat
  /\ working_index \in 0..SizeMax
  /\ tree \in Seq(0..SizeMax \cup {NoScore})

PassesPrecuts(e) == \E k \in DOMAIN precut_list : precut_list[k] = e

\* XGBoosterPredict returned a score for every line.
Predicted == out_len = Len(dat)

(* EveryEntryItsScore: when the libSVM file was written, row e of the tree has
   the score of entry e if the precuts pass it and XGBoost did return scores,
   and -999 otherwise. *)
EveryEntryItsScore ==
  pc = "written" /\ opened =>
    /\ Len(tree) = NEntries
    /\ \A e \in Entries :
         tree[e + 1] = IF PassesPrecuts(e) /\ Predicted THEN e ELSE NoScore

(* NeverAghr: bdt_XGapp never arrives at its own error message, at an entry it
   is past before its score came up, whatever file XGBoost was given. *)
NeverAghr == pc = "spread" /\ num < out_len => have_filled <= working_index

(* WrittenTreeFits: a tree that is written at all has an entry for each entry of
   the event tree, even if its scores came from the wrong lines: the comparison
   of entry counts in addFriend accepts it. *)
WrittenTreeFits == pc = "written" => Len(tree) = NEntries

(* AppEnds: with the libSVM file written, application ends: with a tree when the
   model can be loaded and the precuts pass an entry, with exit(1) otherwise.
   (With more lines in the file than entries it fills without end.) *)
AppEnds ==
  pc = "convert" /\ opened
    ~> IF model_loads /\ GetN > 0 THEN pc = "written" ELSE pc = "exited"
=============================================================================
