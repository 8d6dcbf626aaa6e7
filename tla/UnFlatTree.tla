----------------------------- MODULE UnFlatTree -----------------------------
(***************************************************************************)
(* mode unflatten: bdt_file::MakeUnFlatTree collects the BDT scores of the *)
(* rows of a flat tree back into one vector per event.  A score is         *)
(* identified with the row it belongs to.                                  *)
(***************************************************************************)
EXTENDS FlatTree

VARIABLES
  last_event_index,  \* events written so far
  out_score,         \* the vector being collected
  t_out              \* entries of the unflattened tree

vars == <<flatvars, last_event_index, out_score, t_out>>

TypeOK ==
  /\ events \in [EventIndex -> Event]
  /\ phase \in {"flatten", "friend", "unflatten", "topup", "done"}
  /\ i \in Nat
  /\ tree_out \in Seq(Row)
  /\ last_event_index \in Nat
  /\ out_score \in Seq(Row)
  /\ t_out \in Seq(Seq(Row))

Init ==
  /\ FlatInit
  /\ last_event_index = 0
  /\ out_score = <<>>
  /\ t_out = <<>>

Flatten == FlatNext /\ UNCHANGED <<last_event_index, out_score, t_out>>

\* Mutant of StartsNewEvent: the last cluster of an event ends it.
StartsNewEventEarly(row) == last_event_index <= row.event

\* "write prev event to file": the row belongs to a later event.
StartsNewEvent(row) == last_event_index < row.event

\* Mutant of Collected: the scores of the previous event are kept.
CollectedNoClear(row) == IF row.cluster = -1 THEN out_score ELSE Append(out_score, row)

\* The vector after this row; a row without a cluster adds nothing.
Collected(row) ==
  LET kept == IF StartsNewEvent(row) THEN <<>> ELSE out_score
  IN  IF row.cluster = -1 THEN kept ELSE Append(kept, row)

\* One row of the flat tree.  However far its event is ahead, at most one
\* entry is written.
UnflattenRow ==
  /\ phase = "unflatten"
  /\ i < Len(tree_out)
  /\ LET row == tree_out[i + 1] IN
       /\ out_score' = Collected(row)
       /\ IF StartsNewEvent(row)
          THEN /\ t_out' = Append(t_out, out_score)
               /\ last_event_index' = last_event_index + 1
          ELSE UNCHANGED <<t_out, last_event_index>>
  /\ i' = i + 1
  /\ UNCHANGED <<events, phase, tree_out, friend_out>>

\* Mutant of FillLast: the entry is written but not counted.
FillLastUncounted ==
  /\ phase = "unflatten"
  /\ i = Len(tree_out)
  /\ t_out' = Append(t_out, out_score)
  /\ out_score' = <<>>
  /\ phase' = "topup"
  /\ UNCHANGED <<events, i, tree_out, friend_out, last_event_index>>

\* "and fill the last entry that was missed by construction"
FillLast ==
  /\ phase = "unflatten"
  /\ i = Len(tree_out)
  /\ t_out' = Append(t_out, out_score)
  /\ last_event_index' = last_event_index + 1
  /\ out_score' = <<>>
  /\ phase' = "topup"
  /\ UNCHANGED <<events, i, tree_out, friend_out>>

\* "Topping up any events a the end of the file", to original_file_nevents.
TopUp ==
  /\ phase = "topup"
  /\ last_event_index < NEvents
  /\ t_out' = Append(t_out, out_score)
  /\ last_event_index' = last_event_index + 1
  /\ UNCHANGED <<flatvars, out_score>>

EndUnflatten ==
  /\ phase = "topup"
  /\ last_event_index >= NEvents
  /\ phase' = "done"
  /\ UNCHANGED <<events, i, tree_out, friend_out, last_event_index, out_score, t_out>>

Next == Flatten \/ UnflattenRow \/ FillLast \/ TopUp \/ EndUnflatten

Spec == Init /\ [][Next]_vars

-----------------------------------------------------------------------------
\* The scores of one event, in the order of its clusters.
ScoresOf(e) ==
  [j \in 1..NumCandidates(events[e]) |-> [event |-> e, cluster |-> j - 1]]

NoneSkipped == \A e \in EventIndex : ~events[e].skip

(* OneEntryPerEvent: entry e of the unflattened tree holds the scores of the
   clusters of event e, all of them and no other ("one entry in this file
   corresponds to one event", bdt_file.h). *)
OneEntryPerEvent ==
  phase = "done" /\ NEvents > 0 =>
    /\ Len(t_out) = NEvents
    /\ \A e \in EventIndex : ~events[e].skip => t_out[e + 1] = ScoresOf(e)

(* ExactWithoutSkips: as long as no event was left out of the flat tree, the
   scores come back to the entries of their events. *)
ExactWithoutSkips == NoneSkipped => OneEntryPerEvent

(* EntryCountKept: the unflattened tree has as many entries as the event tree,
   skipped events or not, so the entry count addFriend compares never differs.
   (Of a tree without events it makes one with a single entry.) *)
EntryCountKept == phase = "done" /\ NEvents > 0 => Len(t_out) = NEvents

\* The places of the scores: entry and position in its vector.
Places == UNION {{n} \X DOMAIN t_out[n] : n \in DOMAIN t_out}

(* NoScoreLost: the score of every cluster row ends up in exactly one entry,
   at one place. *)
NoScoreLost ==
  phase = "done" =>
    \A k \in DOMAIN tree_out : tree_out[k].cluster # -1 =>
      \E p \in Places : \A q \in Places :
        t_out[q[1]][q[2]] = tree_out[k] <=> q = p
=============================================================================
