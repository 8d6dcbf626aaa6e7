------------------------------ MODULE Pipeline ------------------------------
(***************************************************************************)
(* Invocations of hive that train a BDT, apply it and use its scores, over *)
(* the files that lie between them: the entry lists of EntryListCache, the *)
(* libSVM files, the model, and the friend file with the scores.  Any of   *)
(* them may be left by an earlier invocation, for another analysis, or by  *)
(* one that died.                                                          *)
(*                                                                         *)
(* As in EntryListCache what was made is identified with the configuration *)
(* it was made under.  The sample the scores are for stands for all; the   *)
(* training samples have entry list files of their own.                    *)
(***************************************************************************)
EXTENDS EntryListCache

CONSTANT
  EntriesOf      \* [Configs -> Nat], entries in the sample of a configuration

ASSUME EntriesAssumption == EntriesOf \in [Configs -> Nat]

VARIABLES
  mode,          \* --mode of the running invocation
  stage,         \* where its work stands
  train_file,    \* <bdt>.libSVM.train.dat: what its lines were written for
  model,         \* <bdt>.XGBoost.mod: what it was trained under
  feature_file,  \* <bdt>_<tag>.libSVM.dat: the list its lines follow
  friend,        \* <bdt>_<tag>_app.root
  unwritten      \* an ofstream or a prediction failed, which nobody checks (history)

pipevars == <<mode, stage, train_file, model, feature_file, friend, unwritten>>
allvars == <<vars, pipevars>>

\* The scores in a tree: the model, the list the lines they were computed from
\* follow, the list they were placed with, the sample they were made for.
Scores == [model : Lists, lines : Lists, placed : Lists, sample : Lists]

NoScores == [model |-> NoList, lines |-> NoList, placed |-> NoList, sample |-> NoList]

\* A friend file can be missing or beyond ROOT's recovery, which TFile::Open
\* answers alike, be readable without its tree, or have it.
Friend == [kind : {"unreadable", "no_tree", "tree"}, scores : Scores]

NoTree(kind) == [kind |-> kind, scores |-> NoScores]

(* Only an invocation that is running, and done with the lists, holds them. *)
PipelineTypeOK ==
  /\ TypeOK
  /\ stage = "out" => pc = "idle"
  /\ stage \notin {"out", "lists"} => pc = "ready"
  /\ mode \in {"none", "train", "app", "plot"}
  /\ stage \in {"out", "lists", "save", "saving", "load", "open", "read", "fill", "done"}
  /\ train_file \in Lists
  /\ model \in Lists
  /\ feature_file \in Lists
  /\ friend \in Friend
  /\ unwritten \in BOOLEAN

PipelineInit ==
  /\ Init
  /\ mode = "none"
  /\ stage = "out"
  /\ train_file = NoList
  /\ model = NoList
  /\ feature_file = NoList
  /\ friend = NoTree("unreadable")
  /\ unwritten = FALSE

-----------------------------------------------------------------------------
Edit ==
  /\ stage = "out"
  /\ \E c \in Configs : EditConfig(c)
  /\ UNCHANGED pipevars

\* Mutant of FriendAccepted: the trees are not compared.
FriendAnyLength == friend.kind # "no_tree"

\* addFriend goes on without a file it cannot open, dereferences the tree it
\* does not find, and exits if the trees differ in length.  An invocation it
\* ends has changed nothing.
FriendAccepted ==
  \/ friend.kind = "unreadable"
  \/ friend.kind = "tree" /\ EntriesOf[friend.scores.sample] = EntriesOf[config]

\* Every mode adds the responses of its BDTs first, that of app included.
Begin(m) ==
  /\ stage = "out"
  /\ runs < MaxRuns
  /\ FriendAccepted
  /\ mode' = m
  /\ stage' = "lists"
  /\ UNCHANGED <<vars, train_file, model, feature_file, friend, unwritten>>

CalcBaseEntryList ==
  /\ stage = "lists"
  /\ \/ LoadFromFile \/ DrawLists
     \/ OpenForUpdate \/ WriteHash \/ WriteTopological \/ WritePrecut \/ CloseFile
  /\ UNCHANGED pipevars

\* ofstream::open may fail, for the train file or the test file beside it, and
\* the file of an earlier invocation stays.
WriteTrainFile ==
  /\ stage = "lists" /\ pc = "ready" /\ mode = "train"
  /\ \/ train_file' = config /\ UNCHANGED unwritten
     \/ train_file' \in {config, train_file} /\ unwritten' = TRUE
  /\ stage' = "save"
  /\ UNCHANGED <<vars, mode, model, feature_file, friend>>

\* XGBoosterSaveModel empties the file, and then writes it.
TruncateModel ==
  /\ stage = "save"
  /\ train_file # NoList
  /\ model' = NoList
  /\ stage' = "saving"
  /\ UNCHANGED <<vars, mode, train_file, feature_file, friend, unwritten>>

SaveModel ==
  /\ stage = "saving"
  /\ model' = train_file
  /\ stage' = "done"
  /\ UNCHANGED <<vars, mode, train_file, feature_file, friend, unwritten>>

\* Mutant of WriteFeatures: the entries are selected by the cuts, not by the
\* list, as in the deprecated convertToLibSVM.
WriteSelected ==
  /\ stage = "lists" /\ pc = "ready" /\ mode = "app"
  /\ \/ feature_file' = config /\ UNCHANGED unwritten
     \/ unwritten' = TRUE /\ UNCHANGED feature_file
  /\ stage' = "load"
  /\ UNCHANGED <<vars, mode, train_file, model, friend>>

\* convertToLibSVM: one line for each entry of the precut list.
WriteFeatures ==
  /\ stage = "lists" /\ pc = "ready" /\ mode = "app"
  /\ \/ feature_file' = precut_list /\ UNCHANGED unwritten
     \/ unwritten' = TRUE /\ UNCHANGED feature_file
  /\ stage' = "load"
  /\ UNCHANGED <<vars, mode, train_file, model, friend>>

\* Mutant of LoadModel: nobody looks whether the model could be read.
LoadModelUnchecked ==
  /\ stage = "load"
  /\ stage' = "open"
  /\ UNCHANGED <<vars, mode, train_file, model, feature_file, friend, unwritten>>

LoadModel ==
  /\ stage = "load"
  /\ model # NoList
  /\ stage' = "open"
  /\ UNCHANGED <<vars, mode, train_file, model, feature_file, friend, unwritten>>

\* The friend file is created anew before there is anything to put in it.
RecreateFriend ==
  /\ stage = "open"
  /\ friend' = NoTree("unreadable")
  /\ stage' = "read"
  /\ UNCHANGED <<vars, mode, train_file, model, feature_file, unwritten>>

ReadFeatures ==
  /\ stage = "read"
  /\ feature_file # NoList
  /\ stage' = "fill"
  /\ UNCHANGED <<vars, mode, train_file, model, feature_file, friend, unwritten>>

\* The loop that places the scores is XGApp's.  If XGBoosterPredict fails there
\* are none, and the tree holds -999 throughout.
WriteScores ==
  /\ stage = "fill"
  /\ \E predicted \in BOOLEAN :
       /\ friend' = [kind |-> "tree",
                     scores |-> [model |-> IF predicted THEN model ELSE NoList,
                                 lines |-> feature_file, placed |-> precut_list,
                                 sample |-> config]]
       /\ unwritten' = (unwritten \/ ~predicted)
  /\ stage' = "done"
  /\ UNCHANGED <<vars, mode, train_file, model, feature_file>>

\* safe_xgboost ends the program when XGBoost cannot read a file: the train or
\* test file, the model, the features (empty ones too).  exit() closes the friend file if it has
\* been recreated, without a tree in it.
ExitOnError ==
  /\ \/ stage = "save" /\ (train_file = NoList \/ unwritten)
     \/ stage = "load" /\ model = NoList
     \/ stage = "read"
  /\ friend' = IF stage = "read" THEN NoTree("no_tree") ELSE friend
  /\ stage' = "out"
  /\ mode' = "none"
  /\ Finish
  /\ UNCHANGED <<train_file, model, feature_file, unwritten>>

\* The process dies: in calcBaseEntryList, or later.  What it holds open of
\* the friend file is lost.
Die ==
  /\ stage # "out"
  /\ \/ stage = "lists" /\ Crash
     \/ MayCrash /\ stage \notin {"lists", "done"} /\ Finish
  /\ stage' = "out"
  /\ mode' = "none"
  /\ UNCHANGED <<train_file, model, feature_file, friend, unwritten>>

\* The invocation has done its work; one that plots has used the scores it
\* was given.
End ==
  /\ stage = "done" \/ (stage = "lists" /\ pc = "ready" /\ mode = "plot")
  /\ Finish
  /\ stage' = "out"
  /\ mode' = "none"
  /\ UNCHANGED <<train_file, model, feature_file, friend, unwritten>>

PipelineNext ==
  \/ Edit
  \/ \E m \in {"train", "app", "plot"} : Begin(m)
  \/ CalcBaseEntryList
  \/ WriteTrainFile \/ TruncateModel \/ SaveModel
  \/ WriteFeatures \/ LoadModel \/ RecreateFriend \/ ReadFeatures \/ WriteScores
  \/ ExitOnError \/ Die \/ End

PipelineSpec == PipelineInit /\ [][PipelineNext]_allvars

-----------------------------------------------------------------------------
(* LinesMatchList: the lines scores were computed from follow the list they
   were placed with, also when that list is a stale one, unless the file of the
   lines could not be written (or there are no scores at all): a score is at its
   own entry. *)
LinesMatchList ==
  ~unwritten => friend.scores.lines = friend.scores.placed

(* AcceptedScoresFit: whatever became of the samples, the cuts and the model
   in between, an invocation at work has scores for exactly the entries of its
   sample, or none at all. *)
AcceptedScoresFit ==
  /\ stage # "out" /\ friend.kind = "tree" => EntriesOf[friend.scores.sample] = EntriesOf[config]
  /\ stage # "out" => friend.kind # "no_tree"
  /\ friend.kind # "tree" => friend.scores = NoScores

(* ImplementsScoreStore: up to the moment the user strays, a file is not written
   or a prediction fails unnoticed, applications are atomic: the scores on disk are those of one model
   for one analysis, made when both were the present ones. *)
Store == INSTANCE ScoreStore WITH store <- friend.scores
ImplementsScoreStore ==
  Store!StoreInit /\ [][strayed' \/ unwritten' \/ Store!StoreNext]_(Store!storevars)
=============================================================================
