--------------------------- MODULE PipelineProofs ---------------------------
(* Proofs about EntryListCache and Pipeline, for any configurations, trees,  *)
(* hashes and samples.  Every step of an invocation is a step of             *)
(* EntryListCache or leaves it alone, so what is proved of the cache holds   *)
(* of the pipeline.                                                          *)
EXTENDS Pipeline, TLAPS

-----------------------------------------------------------------------------
(* The cache.                                                                *)

LEMMA InitTypeOK == Init => TypeOK
<1> SUFFICES ASSUME Init PROVE TypeOK
  OBVIOUS
<1>1. strayed \in BOOLEAN
  BY Zenon DEF Init
<1>2. EmptyFile \in File
  BY DEF EmptyFile, File, Lists
<1> QED
  BY <1>1, <1>2, NoListAssumption, KeyAssumption, FlagAssumption DEF Init, TypeOK, Lists

(* The cache never leaves the shape TypeOK describes. *)
THEOREM TypeCorrect == Spec => []TypeOK
<1>1. Init => TypeOK
  BY InitTypeOK
<1>2. TypeOK /\ [Next]_vars => TypeOK'
  <2> SUFFICES ASSUME TypeOK, [Next]_vars PROVE TypeOK'
    OBVIOUS
  <2> USE KeyAssumption, FlagAssumption DEF TypeOK, File, Lists
  <2>1. ASSUME NEW c \in Configs, EditConfig(c) PROVE TypeOK'
    BY <2>1 DEF EditConfig
  <2>2. CASE LoadFromFile
    BY <2>2 DEF LoadFromFile
  <2>3. CASE DrawLists
    BY <2>3 DEF DrawLists
  <2>4. CASE OpenForUpdate
    BY <2>4 DEF OpenForUpdate
  <2>5. CASE WriteHash
    BY <2>5 DEF WriteHash
  <2>6. CASE WriteTopological
    BY <2>6 DEF WriteTopological
  <2>7. CASE WritePrecut
    BY <2>7 DEF WritePrecut
  <2>8. CASE CloseFile
    BY <2>8 DEF CloseFile, EmptyFile
  <2>9. CASE Finish
    BY <2>9 DEF Finish
  <2>10. CASE Crash
    BY <2>10 DEF Crash, EmptyFile
  <2>11. CASE UNCHANGED vars
    BY <2>11 DEF vars
  <2> QED
    BY <2>1, <2>2, <2>3, <2>4, <2>5, <2>6, <2>7, <2>8, <2>9, <2>10, <2>11 DEF Next
<1> QED
  BY <1>1, <1>2, PTL DEF Spec

-----------------------------------------------------------------------------
(* A file in which every list was drawn under a configuration whose hash is  *)
(* in the file.                                                              *)
Hashed(f) ==
  \A l \in {f.topo} \cup {f.precut[t] : t \in Trees} :
     l # NoList => HashOf[l] \in f.hashes

\* While a file is written, what is drawn in memory is this configuration's,
\* and from the hash on its key is in the file.
HashInv ==
  /\ TypeOK
  /\ Hashed(disk)
  /\ pc \in {"hash", "topo", "precut", "close"} => Hashed(pending)
  /\ pc \in {"draw", "hash", "topo", "precut", "close"} =>
       topological_list = config /\ precut_list = config
  /\ pc \in {"topo", "precut", "close"} => HashOf[config] \in pending.hashes

(* No crash can leave a list without the hash it was drawn under. *)
THEOREM ListsAlwaysHashed == Spec => []ListsHaveHash
<1>1. Init => HashInv
  <2> SUFFICES ASSUME Init PROVE HashInv
    OBVIOUS
  <2>1. TypeOK
    BY InitTypeOK
  <2>2. Hashed(disk) /\ pc = "idle"
    BY DEF Init, Hashed, EmptyFile
  <2> QED
    BY <2>1, <2>2 DEF HashInv
<1>2. HashInv /\ TypeOK' /\ [Next]_vars => HashInv'
  <2> SUFFICES ASSUME HashInv, TypeOK', [Next]_vars PROVE HashInv'
    OBVIOUS
  <2> USE NoListAssumption, KeyAssumption DEF HashInv
  <2>1. ASSUME NEW c \in Configs, EditConfig(c) PROVE HashInv'
    BY <2>1 DEF EditConfig, Hashed
  <2>2. CASE LoadFromFile
    BY <2>2 DEF LoadFromFile, Hashed
  <2>3. CASE DrawLists
    BY <2>3 DEF DrawLists, Hashed
  <2>4. CASE OpenForUpdate
    BY <2>4 DEF OpenForUpdate, Hashed, TypeOK, File
  <2>5. CASE WriteHash
    BY <2>5 DEF WriteHash, Hashed, TypeOK, File
  <2>6. CASE WriteTopological
    BY <2>6 DEF WriteTopological, Hashed, TypeOK, File
  <2>7. CASE WritePrecut
    BY <2>7 DEF WritePrecut, Hashed, TypeOK, File
  <2>8. CASE CloseFile
    BY <2>8 DEF CloseFile, Hashed
  <2>9. CASE Finish
    BY <2>9 DEF Finish, Hashed
  <2>10. CASE Crash
    BY <2>10 DEF Crash, Hashed
  <2>11. CASE UNCHANGED vars
    BY <2>11 DEF vars, Hashed
  <2> QED
    BY <2>1, <2>2, <2>3, <2>4, <2>5, <2>6, <2>7, <2>8, <2>9, <2>10, <2>11 DEF Next
<1>3. HashInv => ListsHaveHash
  BY DEF HashInv, Hashed, ListsHaveHash
<1> QED
  BY <1>1, <1>2, <1>3, TypeCorrect, PTL DEF Spec

-----------------------------------------------------------------------------
(* The list under the name of a tree was drawn on that tree, in both files.  *)
OfTrees(f) == \A t \in Trees : f.precut[t] # NoList => TreeOf[f.precut[t]] = t

TreeInv ==
  /\ TypeOK
  /\ OfTrees(disk)
  /\ pc \in {"hash", "topo", "precut", "close"} => OfTrees(pending)
  /\ pc = "idle" => precut_list = NoList
  /\ PrecutOfOwnTree

(* No edit, hash collision or crash hands an invocation the precut list of    *)
(* another primary tree.                                                      *)
THEOREM PrecutAlwaysOfOwnTree == Spec => []PrecutOfOwnTree
<1>1. Init => TreeInv
  <2> SUFFICES ASSUME Init PROVE TreeInv
    OBVIOUS
  <2>1. TypeOK
    BY InitTypeOK
  <2> QED
    BY <2>1 DEF Init, TreeInv, OfTrees, EmptyFile, PrecutOfOwnTree
<1>2. TreeInv /\ TypeOK' /\ [Next]_vars => TreeInv'
  <2> SUFFICES ASSUME TreeInv, TypeOK', [Next]_vars PROVE TreeInv'
    OBVIOUS
  <2> USE NoListAssumption, KeyAssumption DEF TreeInv, OfTrees, PrecutOfOwnTree
  <2>1. ASSUME NEW c \in Configs, EditConfig(c) PROVE TreeInv'
    BY <2>1 DEF EditConfig
  <2>2. CASE LoadFromFile
    BY <2>2 DEF LoadFromFile, TypeOK
  <2>3. CASE DrawLists
    BY <2>3 DEF DrawLists
  <2>4. CASE OpenForUpdate
    BY <2>4 DEF OpenForUpdate, TypeOK, File
  <2>5. CASE WriteHash
    BY <2>5 DEF WriteHash, TypeOK, File
  <2>6. CASE WriteTopological
    BY <2>6 DEF WriteTopological, TypeOK, File
  <2>7. CASE WritePrecut
    BY <2>7 DEF WritePrecut, TypeOK, File
  <2>8. CASE CloseFile
    BY <2>8 DEF CloseFile
  <2>9. CASE Finish
    BY <2>9 DEF Finish
  <2>10. CASE Crash
    BY <2>10 DEF Crash
  <2>11. CASE UNCHANGED vars
    BY <2>11 DEF vars
  <2> QED
    BY <2>1, <2>2, <2>3, <2>4, <2>5, <2>6, <2>7, <2>8, <2>9, <2>10, <2>11 DEF Next
<1>3. TreeInv => PrecutOfOwnTree
  BY DEF TreeInv
<1> QED
  BY <1>1, <1>2, <1>3, TypeCorrect, PTL DEF Spec

-----------------------------------------------------------------------------
(* Why the lists are fresh until the user strays: the hashes in the file are *)
(* those of configurations already used, so a new hash misses; and as long    *)
(* as the configuration stays, the newest lists in the file are its own,      *)
(* since a crash leaves the file as it was, or with both of them.             *)
OwnLists(f) == f.topo = config /\ f.precut[TreeOf[config]] = config

UsedHashes(f) == \A h \in f.hashes : \E c \in used : h = HashOf[c]

FreshInv ==
  /\ TypeOK
  /\ config \in used
  /\ UsedHashes(disk)
  /\ pc = "idle" => topological_list = NoList /\ precut_list = NoList
  /\ pc \in {"draw", "hash", "topo", "precut", "close"} =>
       topological_list = config /\ precut_list = config
  /\ pc = "hash" => pending = [disk EXCEPT !.exists = TRUE]
  /\ pc \in {"topo", "precut", "close"} => UsedHashes(pending)
  /\ pc \in {"precut", "close"} => pending.topo = config
  /\ pc = "close" => OwnLists(pending)
  /\ ~strayed /\ HashOf[config] \in disk.hashes => OwnLists(disk)
  /\ ~strayed /\ pc = "ready" => topological_list = config /\ precut_list = config

LEMMA FreshInit == Init => FreshInv
<1> SUFFICES ASSUME Init PROVE FreshInv
  OBVIOUS
<1>1. TypeOK
  BY InitTypeOK
<1>2. disk.hashes = {}
  BY DEF Init, EmptyFile
<1> QED
  BY <1>1, <1>2 DEF Init, FreshInv, UsedHashes

LEMMA FreshStep ==
  ASSUME FreshInv, TypeOK', [Next]_vars
  PROVE  FreshInv'
<1> USE KeyAssumption DEF FreshInv, OwnLists, UsedHashes
<1>1. ASSUME NEW c \in Configs, EditConfig(c) PROVE FreshInv'
  <2>1. ~strayed' => ~strayed /\ HashOf[c] \notin disk.hashes
    BY <1>1 DEF EditConfig, TypeOK
  <2> QED
    BY <1>1, <2>1 DEF EditConfig
<1>2. CASE LoadFromFile
  BY <1>2 DEF LoadFromFile, HashRight
<1>3. CASE DrawLists
  BY <1>3 DEF DrawLists
<1>4. CASE OpenForUpdate
  BY <1>4 DEF OpenForUpdate, TypeOK, File
<1>5. CASE WriteHash
  BY <1>5 DEF WriteHash, TypeOK, File
<1>6. CASE WriteTopological
  BY <1>6 DEF WriteTopological, TypeOK, File
<1>7. CASE WritePrecut
  BY <1>7 DEF WritePrecut, TypeOK, File
<1>8. CASE CloseFile
  BY <1>8 DEF CloseFile
<1>9. CASE Finish
  BY <1>9 DEF Finish
<1>10. CASE Crash
  <2>1. CASE disk' = disk
    BY <1>10, <2>1 DEF Crash
  <2>2. CASE disk' = pending /\ pc = "hash"
    BY <1>10, <2>2 DEF Crash, TypeOK, File
  <2>3. CASE disk' = pending /\ disk' # disk /\ pc \in {"topo", "precut"}
    BY <1>10, <2>3 DEF Crash
  <2>4. CASE disk' = pending /\ pc = "close"
    BY <1>10, <2>4 DEF Crash
  <2> QED
    BY <1>10, <2>1, <2>2, <2>3, <2>4 DEF Crash
<1>11. CASE UNCHANGED vars
  BY <1>11 DEF vars
<1> QED
  BY <1>1, <1>2, <1>3, <1>4, <1>5, <1>6, <1>7, <1>8, <1>9, <1>10, <1>11 DEF Next

LEMMA FreshAlways == Spec => []FreshInv
<1>1. FreshInv /\ TypeOK' /\ [Next]_vars => FreshInv'
  BY FreshStep
<1> QED
  BY <1>1, FreshInit, TypeCorrect, PTL DEF Spec

(* Until a hash comes back or a writer dies between the hash and the second  *)
(* list, an invocation works with its own configuration's lists.             *)
THEOREM FreshUnlessStrayed == Spec => []Fresh
<1>1. FreshInv => Fresh
  BY DEF FreshInv, Fresh, AlwaysFresh
<1> QED
  BY <1>1, FreshAlways, PTL

(* And until then the cache implements the specification that has no cache. *)
THEOREM CacheImplementsBaseLists == Spec => ImplementsBaseLists
<1>1. Init => Base!Init
  BY DEF Init, Base!Init
<1>2. FreshInv /\ FreshInv' /\ [Next]_vars => [strayed' \/ Base!Next]_(Base!absvars)
  <2> SUFFICES ASSUME FreshInv, FreshInv', [Next]_vars, ~strayed'
               PROVE  [Base!Next]_(Base!absvars)
    OBVIOUS
  <2> USE DEF Base!Next, Base!absvars
  <2>1. ASSUME NEW c \in Configs, EditConfig(c) PROVE Base!Edit
    BY <2>1 DEF EditConfig, Base!Edit, FreshInv
  <2>2. CASE LoadFromFile
    BY <2>2 DEF LoadFromFile, Base!Obtain, FreshInv
  <2>3. CASE DrawLists
    BY <2>3 DEF DrawLists, Base!Obtain
  <2>4. CASE OpenForUpdate \/ WriteHash \/ WriteTopological \/ WritePrecut \/ CloseFile
    BY <2>4 DEF OpenForUpdate, WriteHash, WriteTopological, WritePrecut, CloseFile
  <2>5. CASE Finish
    BY <2>5 DEF Finish, Base!Release
  <2>6. CASE Crash
    BY <2>6 DEF Crash, Base!Release
  <2>7. CASE UNCHANGED vars
    BY <2>7 DEF vars
  <2> QED
    BY <2>1, <2>2, <2>3, <2>4, <2>5, <2>6, <2>7 DEF Next
<1> QED
  BY <1>1, <1>2, FreshAlways, PTL DEF Spec, ImplementsBaseLists

-----------------------------------------------------------------------------
(* The pipeline.                                                             *)

LEMMA CacheStep ==
  ASSUME [PipelineNext]_allvars
  PROVE  [Next]_vars
<1>1. CASE Edit
  BY <1>1 DEF Edit, Next
<1>2. ASSUME NEW m \in {"train", "app", "plot"}, Begin(m) PROVE UNCHANGED vars
  BY <1>2 DEF Begin
<1>3. CASE CalcBaseEntryList
  BY <1>3 DEF CalcBaseEntryList, Next
<1>4. CASE WriteTrainFile \/ TruncateModel \/ SaveModel \/ WriteFeatures \/ LoadModel
  BY <1>4 DEF WriteTrainFile, TruncateModel, SaveModel, WriteFeatures, LoadModel
<1>5. CASE RecreateFriend \/ ReadFeatures \/ WriteScores
  BY <1>5 DEF RecreateFriend, ReadFeatures, WriteScores
<1>6. CASE ExitOnError \/ Die \/ End
  BY <1>6 DEF ExitOnError, Die, End, Next
<1>7. CASE UNCHANGED allvars
  BY <1>7 DEF allvars
<1> QED
  BY <1>1, <1>2, <1>3, <1>4, <1>5, <1>6, <1>7 DEF PipelineNext

(* The entry lists of invocations that train and apply are those of           *)
(* EntryListCache: its theorems are theorems of Pipeline.                     *)
THEOREM PipelineUsesCache == PipelineSpec => Spec
<1>1. PipelineInit => Init
  BY DEF PipelineInit
<1>2. [PipelineNext]_allvars => [Next]_vars
  BY CacheStep
<1> QED
  BY <1>1, <1>2, PTL DEF PipelineSpec, Spec

-----------------------------------------------------------------------------
PipelineData ==
  /\ mode \in {"none", "train", "app", "plot"}
  /\ stage \in {"out", "lists", "save", "saving", "load", "open", "read", "fill", "done"}
  /\ train_file \in Lists
  /\ model \in Lists
  /\ feature_file \in Lists
  /\ friend \in Friend

\* Where an invocation stands with its lists, its files and the friend file.
PipelineInv ==
  /\ PipelineData
  /\ unwritten \in BOOLEAN
  /\ stage = "out" => pc = "idle"
  /\ stage \notin {"out", "lists"} => pc = "ready"
  /\ stage \in {"open", "read", "fill"} => model # NoList
  /\ stage = "saving" => train_file # NoList
  /\ ~unwritten /\ stage \in {"save", "saving"} => train_file = config
  /\ ~unwritten /\ stage \in {"load", "open", "read", "fill"} => feature_file = precut_list
  /\ friend.kind # "tree" => friend.scores = NoScores
  /\ ~unwritten => friend.scores.lines = friend.scores.placed
  /\ stage # "out" => FriendAccepted

LEMMA PipelineInitInv == PipelineInit => PipelineInv
<1> SUFFICES ASSUME PipelineInit PROVE PipelineInv
  OBVIOUS
<1>1. unwritten \in BOOLEAN
  BY Zenon DEF PipelineInit
<1> QED
  BY <1>1 DEF PipelineInit, Init, PipelineInv, PipelineData, Friend, NoTree, NoScores, Scores,
              Lists, FriendAccepted

LEMMA PipelineStepInv ==
  ASSUME PipelineInv, TypeOK, TypeOK', [PipelineNext]_allvars
  PROVE  PipelineInv'
<1> USE DEF PipelineInv, PipelineData, Lists, FriendAccepted
<1>1. CASE Edit
  BY <1>1 DEF Edit, EditConfig, pipevars
<1>2. ASSUME NEW m \in {"train", "app", "plot"}, Begin(m) PROVE PipelineInv'
  BY <1>2 DEF Begin, vars
<1>3. CASE CalcBaseEntryList
  BY <1>3 DEF CalcBaseEntryList, pipevars, LoadFromFile, DrawLists, OpenForUpdate, WriteHash,
              WriteTopological, WritePrecut, CloseFile
<1>4. CASE WriteTrainFile
  <2>1. unwritten' \in BOOLEAN
    BY <1>4, Zenon DEF WriteTrainFile
  <2> QED
    BY <1>4, <2>1 DEF WriteTrainFile, vars, TypeOK
<1>5. CASE TruncateModel
  BY <1>5 DEF TruncateModel, vars
<1>6. CASE SaveModel
  BY <1>6 DEF SaveModel, vars
<1>7. CASE WriteFeatures
  <2>1. unwritten' \in BOOLEAN
    BY <1>7, Zenon DEF WriteFeatures
  <2> QED
    BY <1>7, <2>1 DEF WriteFeatures, vars, TypeOK
<1>8. CASE LoadModel
  BY <1>8 DEF LoadModel, vars
<1>9. CASE RecreateFriend
  BY <1>9 DEF RecreateFriend, vars, NoTree, NoScores, Friend, Scores
<1>10. CASE ReadFeatures
  BY <1>10 DEF ReadFeatures, vars
<1>11. CASE WriteScores
  BY <1>11 DEF WriteScores, vars, Friend, Scores, TypeOK
<1>12. CASE ExitOnError
  BY <1>12 DEF ExitOnError, Finish, NoTree, NoScores, Friend, Scores
<1>13. CASE Die
  BY <1>13 DEF Die, Crash, Finish
<1>14. CASE End
  BY <1>14 DEF End, Finish
<1>15. CASE UNCHANGED allvars
  BY <1>15 DEF allvars, vars, pipevars
<1> QED
  BY <1>1, <1>2, <1>3, <1>4, <1>5, <1>6, <1>7, <1>8, <1>9, <1>10, <1>11, <1>12, <1>13, <1>14,
     <1>15 DEF PipelineNext

LEMMA PipelineAlways == PipelineSpec => []PipelineInv
<1>1. PipelineInv /\ TypeOK /\ TypeOK' /\ [PipelineNext]_allvars => PipelineInv'
  BY PipelineStepInv
<1> QED
  BY <1>1, PipelineInitInv, PipelineUsesCache, TypeCorrect, PTL DEF PipelineSpec

(* Every file between the invocations stays one of those the reader knows.    *)
THEOREM PipelineTypeCorrect == PipelineSpec => []PipelineTypeOK
<1>1. PipelineInv /\ TypeOK => PipelineTypeOK
  BY DEF PipelineInv, PipelineData, PipelineTypeOK
<1> QED
  BY <1>1, PipelineAlways, PipelineUsesCache, TypeCorrect, PTL

(* Also with a stale list the scores are at the entries they were computed    *)
(* for, unless a file could not be written.                                   *)
THEOREM LinesAlwaysMatch == PipelineSpec => []LinesMatchList
<1>1. PipelineInv => LinesMatchList
  BY DEF PipelineInv, LinesMatchList
<1> QED
  BY <1>1, PipelineAlways, PTL

(* No invocation works with scores for another number of entries, whatever    *)
(* changed since they were made.                                              *)
THEOREM AcceptedAlwaysFit == PipelineSpec => []AcceptedScoresFit
<1>1. PipelineInv => AcceptedScoresFit
  BY DEF PipelineInv, AcceptedScoresFit, FriendAccepted, PipelineData, Friend
<1> QED
  BY <1>1, PipelineAlways, PTL

(* Until the user strays, a file is not written or a prediction fails, an     *)
(* application happens at once or not at all, though every file in it may be  *)
(* left over or cut off.                                                      *)
THEOREM PipelineImplementsScoreStore == PipelineSpec => ImplementsScoreStore
<1>1. PipelineInit => Store!StoreInit
  BY DEF PipelineInit, Init, Store!StoreInit, Store!NoScores, NoTree, NoScores
<1>2. ASSUME PipelineInv, FreshInv, [PipelineNext]_allvars
      PROVE  [strayed' \/ unwritten' \/ Store!StoreNext]_(Store!storevars)
  <2> SUFFICES ASSUME ~strayed', ~unwritten'
               PROVE  [Store!StoreNext]_(Store!storevars)
    OBVIOUS
  <2> USE DEF Store!StoreNext, Store!storevars
  <2>1. CASE Edit
    BY <2>1 DEF Edit, EditConfig, pipevars, Store!Edit
  <2>2. ASSUME NEW m \in {"train", "app", "plot"}, Begin(m) PROVE UNCHANGED Store!storevars
    BY <2>2 DEF Begin, vars
  <2>3. CASE CalcBaseEntryList
    BY <2>3 DEF CalcBaseEntryList, pipevars, LoadFromFile, DrawLists, OpenForUpdate, WriteHash,
                WriteTopological, WritePrecut, CloseFile
  <2>4. CASE WriteTrainFile \/ WriteFeatures \/ LoadModel \/ ReadFeatures
    BY <2>4 DEF WriteTrainFile, WriteFeatures, LoadModel, ReadFeatures, vars
  <2>5. CASE TruncateModel
    BY <2>5 DEF TruncateModel, vars, Store!Train
  <2>6. CASE SaveModel
    BY <1>2, <2>6 DEF SaveModel, vars, Store!Train, PipelineInv
  <2>7. CASE RecreateFriend
    BY <2>7 DEF RecreateFriend, vars, Store!Lose, Store!NoScores, NoTree, NoScores
  <2>8. CASE WriteScores
    <3>1. ~unwritten /\ ~strayed /\ pc = "ready" /\ model # NoList
      BY <1>2, <2>8 DEF WriteScores, vars, PipelineInv
    <3>2. precut_list = config /\ feature_file = config
      BY <1>2, <2>8, <3>1 DEF WriteScores, PipelineInv, FreshInv
    <3>3. PICK predicted \in BOOLEAN :
            /\ friend' = [kind |-> "tree",
                          scores |-> [model |-> IF predicted THEN model ELSE NoList,
                                      lines |-> feature_file, placed |-> precut_list,
                                      sample |-> config]]
            /\ unwritten' = (unwritten \/ ~predicted)
      BY <2>8 DEF WriteScores
    <3>4. predicted
      BY <3>3
    <3> QED
      BY <2>8, <3>1, <3>2, <3>3, <3>4 DEF WriteScores, vars, Store!Apply
  <2>9. CASE ExitOnError
    BY <2>9 DEF ExitOnError, Finish, Store!Lose, Store!NoScores, NoTree, NoScores
  <2>10. CASE Die \/ End
    BY <2>10 DEF Die, End, Finish, Crash
  <2>11. CASE UNCHANGED allvars
    BY <2>11 DEF allvars, vars, pipevars
  <2> QED
    BY <1>2, <2>1, <2>2, <2>3, <2>4, <2>5, <2>6, <2>7, <2>8, <2>9, <2>10, <2>11
    DEF PipelineNext
<1> QED
  BY <1>1, <1>2, PipelineAlways, PipelineUsesCache, FreshAlways, PTL
  DEF PipelineSpec, ImplementsScoreStore
=============================================================================
