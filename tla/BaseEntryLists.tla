--------------------------- MODULE BaseEntryLists ---------------------------
(***************************************************************************)
(* What bdt_file::calcBaseEntryList promises, without the disk cache: a    *)
(* hive invocation that asks for the base entry lists gets the topological *)
(* list and the precut list of the configuration it was started with.      *)
(***************************************************************************)
CONSTANTS Configs, NoList

VARIABLES config,            \* the XML and input sample the user works with
          topological_list,  \* list held by the running invocation
          precut_list

absvars == <<config, topological_list, precut_list>>

Init ==
  /\ config \in Configs
  /\ topological_list = NoList
  /\ precut_list = NoList

\* The user edits the XML between two invocations.
Edit ==
  /\ topological_list = NoList
  /\ precut_list = NoList
  /\ config' \in Configs
  /\ UNCHANGED <<topological_list, precut_list>>

\* Both lists arrive together and are those of the configuration in force.
Obtain ==
  /\ topological_list' = config
  /\ precut_list' = config
  /\ UNCHANGED config

\* The invocation ends; whatever it held in memory is gone.
Release ==
  /\ topological_list' = NoList
  /\ precut_list' = NoList
  /\ UNCHANGED config

Next == Edit \/ Obtain \/ Release

Spec == Init /\ [][Next]_absvars
=============================================================================
