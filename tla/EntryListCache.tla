--------------------------- MODULE EntryListCache ---------------------------
(***************************************************************************)
(* bdt_file::calcBaseEntryList: the topological and precut TEntryLists of  *)
(* a sample are kept in "<tag>_<analysis_tag>_entrylists.root" beside an   *)
(* empty object whose name is the Jenkins hash of (name, stage 1 cuts,     *)
(* primary tree).  A later invocation that finds its hash among the keys   *)
(* loads the lists by name; one that does not draws both lists, reopens    *)
(* the file for update and writes the hash first, then the lists.          *)
(*                                                                         *)
(* A list is identified with the configuration it was drawn under.  ROOT   *)
(* keeps old cycles of an object, and Get returns the newest: the file is  *)
(* therefore its set of hash keys and the newest list under each name.     *)
(***************************************************************************)
EXTENDS Naturals

CONSTANTS
  Configs,     \* what the lists depend on: sample name, content and cuts
  Trees,       \* names of primary TTrees
  Hashes,
  NoList,      \* no object of that name: Get returns a null pointer
  HashOf,      \* [Configs -> Hashes], jenkins_hash of the key string
  TreeOf,      \* [Configs -> Trees], primary_ttree_name
  MayCrash,    \* an invocation may die while it writes the file
  MaxRuns      \* bound on the number of invocations

ASSUME NoListAssumption == NoList \notin Configs
ASSUME KeyAssumption ==
  /\ HashOf \in [Configs -> Hashes]
  /\ TreeOf \in [Configs -> Trees]
ASSUME FlagAssumption ==
  /\ MayCrash \in BOOLEAN
  /\ MaxRuns \in Nat

VARIABLES
  config,            \* configuration of the present (or next) invocation
  used,              \* configurations the user has had so far (history)
  strayed,           \* whether the history has been one the file can be wrong
                     \* after (history)
  runs,              \* invocations started (bound)
  pc,                \* where calcBaseEntryList stands
  disk,              \* the entry list file as a reader would find it
  pending,           \* the file as the invocation has it open for update
  topological_list,  \* members of bdt_file
  precut_list

vars == <<config, used, strayed, runs, pc, disk, pending, topological_list, precut_list>>

Lists == Configs \cup {NoList}

File == [exists : BOOLEAN, hashes : SUBSET Hashes,
         topo : Lists, precut : [Trees -> Lists]]

EmptyFile == [exists |-> FALSE, hashes |-> {},
              topo |-> NoList, precut |-> [t \in Trees |-> NoList]]

TypeOK ==
  /\ config \in Configs
  /\ used \subseteq Configs
  /\ strayed \in BOOLEAN
  /\ runs \in 0..MaxRuns
  /\ pc \in {"idle", "draw", "hash", "topo", "precut", "close", "ready"}
  /\ disk \in File
  /\ pending \in File
  /\ pc \in {"idle", "draw", "ready"} => pending = EmptyFile
  /\ topological_list \in Lists
  /\ precut_list \in Lists

-----------------------------------------------------------------------------
Init ==
  /\ config \in Configs
  /\ used = {config}
  /\ strayed = FALSE
  /\ runs = 0
  /\ pc = "idle"
  /\ disk = EmptyFile
  /\ pending = EmptyFile
  /\ topological_list = NoList
  /\ precut_list = NoList

\* The user edits the XML, or replaces the input sample, between invocations,
\* and strays by going to a hash that was in use before: back to an earlier
\* configuration, or to another sample of the same name and cuts.
EditConfig(c) ==
  /\ pc = "idle"
  /\ c # config
  /\ config' = c
  /\ used' = used \cup {c}
  /\ strayed' = (strayed \/ \E d \in used : HashOf[d] = HashOf[c])
  /\ UNCHANGED <<runs, pc, disk, pending, topological_list, precut_list>>

\* Mutant of HashRight: trusts any file of the right name.
AnyFileIsRight == disk.exists

\* The file exists and has the key of this configuration.
HashRight == disk.exists /\ HashOf[config] \in disk.hashes

\* Mutant of LoadFromFile: leaves the precut list unset on a hit.
LoadTopologicalOnly ==
  /\ pc = "idle"
  /\ runs < MaxRuns
  /\ HashRight
  /\ runs' = runs + 1
  /\ topological_list' = disk.topo
  /\ pc' = "ready"
  /\ UNCHANGED <<config, used, strayed, disk, pending, precut_list>>

\* "File has correct hash! Just going to load the TEntryLists"
LoadFromFile ==
  /\ pc = "idle"
  /\ runs < MaxRuns
  /\ HashRight
  /\ runs' = runs + 1
  /\ topological_list' = disk.topo
  /\ precut_list' = disk.precut[TreeOf[config]]
  /\ pc' = "ready"
  /\ UNCHANGED <<config, used, strayed, disk, pending>>

\* No file, or no such key: both lists are drawn on the tree, in memory.
DrawLists ==
  /\ pc = "idle"
  /\ runs < MaxRuns
  /\ ~HashRight
  /\ runs' = runs + 1
  /\ topological_list' = config
  /\ precut_list' = config
  /\ pc' = "draw"
  /\ UNCHANGED <<config, used, strayed, disk, pending>>

\* new TFile(filename, "update") keeps what is already in the file.
OpenForUpdate ==
  /\ pc = "draw"
  /\ pending' = [disk EXCEPT !.exists = TRUE]
  /\ pc' = "hash"
  /\ UNCHANGED <<config, used, strayed, runs, disk, topological_list, precut_list>>

\* Mutant of WriteHash: a list goes to the file before the hash does.
WriteListBeforeHash ==
  /\ pc = "hash"
  /\ pending' = [pending EXCEPT !.topo = topological_list]
  /\ pc' = "topo"
  /\ UNCHANGED <<config, used, strayed, runs, disk, topological_list, precut_list>>

WriteHash ==
  /\ pc = "hash"
  /\ pending' = [pending EXCEPT !.hashes = @ \cup {HashOf[config]}]
  /\ pc' = "topo"
  /\ UNCHANGED <<config, used, strayed, runs, disk, topological_list, precut_list>>

WriteTopological ==
  /\ pc = "topo"
  /\ pending' = [pending EXCEPT !.topo = topological_list]
  /\ pc' = "precut"
  /\ UNCHANGED <<config, used, strayed, runs, disk, topological_list, precut_list>>

\* Mutant of WritePrecut: the name of the list lacks the primary tree.
WritePrecutUnderOneName ==
  /\ pc = "precut"
  /\ pending' = [pending EXCEPT !.precut = [t \in Trees |-> precut_list]]
  /\ pc' = "close"
  /\ UNCHANGED <<config, used, strayed, runs, disk, topological_list, precut_list>>

WritePrecut ==
  /\ pc = "precut"
  /\ pending' = [pending EXCEPT !.precut[TreeOf[config]] = precut_list]
  /\ pc' = "close"
  /\ UNCHANGED <<config, used, strayed, runs, disk, topological_list, precut_list>>

\* Mutant of CloseFile: the file is left open, as it is after a hit.
FlushOnly ==
  /\ pc = "close"
  /\ disk' = pending
  /\ pc' = "ready"
  /\ UNCHANGED <<config, used, strayed, runs, pending, topological_list, precut_list>>

CloseFile ==
  /\ pc = "close"
  /\ disk' = pending
  /\ pending' = EmptyFile
  /\ pc' = "ready"
  /\ UNCHANGED <<config, used, strayed, runs, topological_list, precut_list>>

\* The invocation has done what it was started for and exits.
Finish ==
  /\ pc = "ready"
  /\ topological_list' = NoList
  /\ precut_list' = NoList
  /\ pc' = "idle"
  /\ UNCHANGED <<config, used, strayed, runs, disk, pending>>

\* The invocation dies with the file open for update.  A reader then finds
\* either the file as it was, or (ROOT's recovery of an unclosed file) every
\* object written so far: harmless unless it is the hash without both lists.
Crash ==
  /\ MayCrash
  /\ pc \in {"hash", "topo", "precut", "close"}
  /\ disk' \in {disk, pending}
  /\ pending' = EmptyFile
  /\ topological_list' = NoList
  /\ precut_list' = NoList
  /\ pc' = "idle"
  /\ strayed' = (strayed \/ (disk' # disk /\ pc \in {"topo", "precut"}))
  /\ UNCHANGED <<config, used, runs>>

Next ==
  \/ \E c \in Configs : EditConfig(c)
  \/ LoadFromFile
  \/ DrawLists
  \/ OpenForUpdate
  \/ WriteHash
  \/ WriteTopological
  \/ WritePrecut
  \/ CloseFile
  \/ Finish
  \/ Crash

Spec == Init /\ [][Next]_vars

-----------------------------------------------------------------------------
(* AlwaysFresh: when calcBaseEntryList returns, the lists the invocation goes
   on with are the ones its present configuration selects, whether they were
   drawn or loaded ("grab entrylist for entries that pass topological cut and
   preselection cut, or generate them if not exist", bdt_file.h). *)
AlwaysFresh ==
  pc = "ready" => topological_list = config /\ precut_list = config

(* Fresh: this is so as long as no hash comes back and no writer dies between
   the hash and the second list in a way that ROOT recovers from. *)
Fresh == ~strayed => AlwaysFresh

(* ListsHaveHash: every list in the file was drawn under a configuration
   whose hash is in the file, even when a writer died half way: the reason
   for writing the hash before the lists. *)
ListsHaveHash ==
  \A l \in {disk.topo} \cup {disk.precut[t] : t \in Trees} :
     l # NoList => HashOf[l] \in disk.hashes

(* PrecutOfOwnTree: the precut list an invocation works with was drawn on its
   own primary TTree, under every history of edits, hash collisions and
   crashes ("add on primary ttree name!"). *)
PrecutOfOwnTree ==
  precut_list # NoList => TreeOf[precut_list] = TreeOf[config]

(* ImplementsBaseLists: up to that moment the cache cannot be told from
   drawing the lists anew in every invocation. *)
Base == INSTANCE BaseEntryLists
ImplementsBaseLists == Base!Init /\ [][strayed' \/ Base!Next]_(Base!absvars)
=============================================================================
