----------------------------- MODULE ScoreStore -----------------------------
(***************************************************************************)
(* What training and application promise to the invocations that plot:     *)
(* scores appear all at once, made by the model there is, for the analysis *)
(* there is; they may be lost, and they stay while the analysis and the    *)
(* model go on changing.                                                   *)
(***************************************************************************)
CONSTANTS Configs, NoList

VARIABLES config,    \* analysis and samples
          model,     \* analysis the model was trained under, NoList for none
          store      \* analysis and model the scores on disk were made with

storevars == <<config, model, store>>

NoScores == [model |-> NoList, lines |-> NoList, placed |-> NoList, sample |-> NoList]

StoreInit ==
  /\ config \in Configs
  /\ model = NoList
  /\ store = NoScores

Edit == config' \in Configs /\ UNCHANGED <<model, store>>

\* A training replaces the model, or spoils it.
Train == model' \in {config, NoList} /\ UNCHANGED <<config, store>>

\* An application makes scores of the present model for the present analysis.
Apply ==
  /\ model # NoList
  /\ store' = [model |-> model, lines |-> config, placed |-> config, sample |-> config]
  /\ UNCHANGED <<config, model>>

\* One that does not end leaves none.
Lose == store' = NoScores /\ UNCHANGED <<config, model>>

StoreNext == Edit \/ Train \/ Apply \/ Lose

StoreSpec == StoreInit /\ [][StoreNext]_storevars
=============================================================================
