------------------------------ MODULE FlatTree ------------------------------
(***************************************************************************)
(* mode flatten and mode flatfriend: bdt_file::MakeFlatTree turns a tree   *)
(* with one entry per event, each carrying vectors with one element per    *)
(* cluster, into a tree with one entry per cluster; MakeFlatFriend writes  *)
(* a tree of cut flags meant to go beside it.                              *)
(*                                                                         *)
(* An event is reduced to what decides the rows written for it: the value  *)
(* of its candidate counter, the length of its first vector branch, and    *)
(* whether the filter cut or the training list makes MakeFlatTree skip it. *)
(***************************************************************************)
EXTENDS Integers, Sequences, FiniteSets

CONSTANTS
  NEvents,        \* entries of the event tree
  MaxCandidates,  \* bound on candidate counters and vector lengths
  HasCounter      \* the counter is among the variables to flatten

ASSUME FlatAssumption ==
  /\ NEvents \in Nat
  /\ MaxCandidates \in Nat
  /\ HasCounter \in BOOLEAN

VARIABLES
  events,      \* the input, entries 0 .. NEvents - 1
  phase,       \* which function is at work
  i,           \* its loop counter
  tree_out,    \* rows of the flat tree
  friend_out   \* rows of the flat friend

flatvars == <<events, phase, i, tree_out, friend_out>>

EventIndex == 0..NEvents - 1

Event == [counter : 0..MaxCandidates, length : 0..MaxCandidates, skip : BOOLEAN]

\* orig_event_index and inside_candidate_index, -1 for an event without any.
Row == [event : EventIndex, cluster : -1..MaxCandidates - 1]

SmallerOf(a, b) == IF a <= b THEN a ELSE b

\* num_candidates: INT_MAX without a counter, then cut to the vector's length.
NumCandidates(ev) ==
  IF HasCounter THEN SmallerOf(ev.counter, ev.length) ELSE ev.length

\* Mutant of RowsOf: an event without candidates leaves no row.
RowsOfDropEmpty(e, n) == [j \in 1..n |-> [event |-> e, cluster |-> j - 1]]

\* Mutant of RowsOf: the loop over candidates runs one too far.
RowsOfOneMore(e, n) ==
  IF n = 0 THEN <<[event |-> e, cluster |-> -1]>>
  ELSE [j \in 1..n + 1 |-> [event |-> e, cluster |-> j - 1]]

\* What both functions write for event e with n candidates.
RowsOf(e, n) ==
  IF n = 0 THEN <<[event |-> e, cluster |-> -1]>>
  ELSE [j \in 1..n |-> [event |-> e, cluster |-> j - 1]]

-----------------------------------------------------------------------------
FlatInit ==
  /\ events \in [EventIndex -> Event]
  /\ phase = "flatten"
  /\ i = 0
  /\ tree_out = <<>>
  /\ friend_out = <<>>

\* The filter cut fails, or remove_train finds the event in the training list.
SkipEvent ==
  /\ phase = "flatten"
  /\ i < NEvents
  /\ events[i].skip
  /\ i' = i + 1
  /\ UNCHANGED <<events, phase, tree_out, friend_out>>

FlattenEvent ==
  /\ phase = "flatten"
  /\ i < NEvents
  /\ ~events[i].skip
  /\ tree_out' = tree_out \o RowsOf(i, NumCandidates(events[i]))
  /\ i' = i + 1
  /\ UNCHANGED <<events, phase, friend_out>>

EndFlatten ==
  /\ phase = "flatten"
  /\ i = NEvents
  /\ phase' = "friend"
  /\ i' = 0
  /\ UNCHANGED <<events, tree_out, friend_out>>

\* Mutant of FriendEvent: the flag of an event without candidates is lost.
FriendEventDropEmpty ==
  /\ phase = "friend"
  /\ i < NEvents
  /\ friend_out' = friend_out \o RowsOfDropEmpty(i, events[i].counter)
  /\ i' = i + 1
  /\ UNCHANGED <<events, phase, tree_out>>

\* MakeFlatFriend looks at the counter alone and skips nothing.
FriendEvent ==
  /\ phase = "friend"
  /\ i < NEvents
  /\ friend_out' = friend_out \o RowsOf(i, events[i].counter)
  /\ i' = i + 1
  /\ UNCHANGED <<events, phase, tree_out>>

EndFriend ==
  /\ phase = "friend"
  /\ i = NEvents
  /\ phase' = "unflatten"
  /\ i' = 0
  /\ UNCHANGED <<events, tree_out, friend_out>>

FlatNext == SkipEvent \/ FlattenEvent \/ EndFlatten \/ FriendEvent \/ EndFriend

-----------------------------------------------------------------------------
\* The event each row belongs to.
EventsOf(rows) == [k \in DOMAIN rows |-> rows[k].event]

(* FriendCheckSuffices: addFriend compares entry counts only.  That is enough
   for a friend of a tree flattened with its counter: when the counts agree,
   every row of the friend is about the event of the row it goes beside. *)
FriendCheckSuffices ==
  phase = "unflatten" /\ HasCounter /\ Len(friend_out) = Len(tree_out)
    => EventsOf(friend_out) = EventsOf(tree_out)
=============================================================================
