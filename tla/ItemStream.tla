----------------------------- MODULE ItemStream -----------------------------
(***************************************************************************)
(* What a DataIter promises its client: NItems items, one after the other, *)
(* then the answer that there are no more, from the start again after      *)
(* BeforeFirst; or, once the source has thrown, an exception for good.     *)
(***************************************************************************)
EXTENDS Naturals

CONSTANTS
  NItems,         \* items in the source
  MayThrow        \* whether reading the source can fail

VARIABLES
  read,           \* items handed over since the start or the last BeforeFirst
  answer          \* what the latest call answered

streamVars == <<read, answer>>

StreamInit == read = 0 /\ answer = "none"

GiveItem ==
  /\ answer # "failed"
  /\ read < NItems
  /\ read' = read + 1
  /\ answer' = "item"

GiveEnd ==
  /\ answer # "failed"
  /\ read = NItems
  /\ answer' = "end"
  /\ UNCHANGED read

Rewind ==
  /\ answer # "failed"
  /\ read' = 0
  /\ answer' = "none"

Fail ==
  /\ MayThrow
  /\ answer' = "failed"
  /\ UNCHANGED read

StreamNext == GiveItem \/ GiveEnd \/ Rewind \/ Fail

StreamSpec == StreamInit /\ [][StreamNext]_streamVars
=============================================================================
