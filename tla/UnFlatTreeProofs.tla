-------------------------- MODULE UnFlatTreeProofs --------------------------
(* Proofs about flattening and unflattening, for any number of events and    *)
(* of clusters.                                                              *)
EXTENDS UnFlatTree, TLAPS

\* Unfolded forms of the actions that every case split below uses.
LEMMA NextCases ==
  ASSUME [Next]_vars
  PROVE  \/ Flatten \/ UnflattenRow \/ FillLast \/ TopUp \/ EndUnflatten
         \/ UNCHANGED vars
BY DEF Next

LEMMA CandidatesType ==
  ASSUME NEW ev \in Event PROVE NumCandidates(ev) \in 0..MaxCandidates
BY FlatAssumption DEF Event, NumCandidates, SmallerOf

LEMMA RowsType ==
  ASSUME NEW e \in EventIndex, NEW n \in 0..MaxCandidates
  PROVE  /\ RowsOf(e, n) \in Seq(Row)
         /\ Len(RowsOf(e, n)) = (IF n = 0 THEN 1 ELSE n)
         /\ \A k \in 1..Len(RowsOf(e, n)) :
              RowsOf(e, n)[k] = [event |-> e, cluster |-> IF n = 0 THEN -1 ELSE k - 1]
<1> USE FlatAssumption
<1>1. CASE n = 0
  BY <1>1 DEF RowsOf, Row
<1>2. CASE n # 0
  <2>1. \A j \in 1..n : [event |-> e, cluster |-> j - 1] \in Row
    BY DEF Row
  <2>2. RowsOf(e, n) = [j \in 1..n |-> [event |-> e, cluster |-> j - 1]]
    BY <1>2 DEF RowsOf
  <2>3. RowsOf(e, n) \in Seq(Row)
    BY <2>1, <2>2
  <2>4. Len(RowsOf(e, n)) = n
    BY <2>2
  <2> QED
    BY <1>2, <2>2, <2>3, <2>4
<1> QED
  BY <1>1, <1>2

(* The types, for every input. *)
TypeInv == TypeOK /\ (phase \in {"flatten", "friend"} => i \in 0..NEvents)

LEMMA TypeInit == Init => TypeInv
BY FlatAssumption DEF Init, FlatInit, TypeInv, TypeOK

LEMMA TypeStep == TypeInv /\ [Next]_vars => TypeInv'
<1> SUFFICES ASSUME TypeInv, [Next]_vars PROVE TypeInv'
  OBVIOUS
<1> USE FlatAssumption DEF TypeInv, TypeOK
<1>1. CASE Flatten
  <2> USE <1>1 DEF Flatten
  <2>1. CASE SkipEvent
    BY <2>1 DEF SkipEvent
  <2>2. CASE FlattenEvent
    <3>1. i \in EventIndex
      BY <2>2 DEF FlattenEvent, EventIndex
    <3>2. RowsOf(i, NumCandidates(events[i])) \in Seq(Row)
      BY <3>1, CandidatesType, RowsType
    <3> QED
      BY <2>2, <3>2 DEF FlattenEvent
  <2>3. CASE EndFlatten
    BY <2>3 DEF EndFlatten
  <2>4. CASE FriendEvent
    BY <2>4 DEF FriendEvent
  <2>5. CASE EndFriend
    BY <2>5 DEF EndFriend
  <2> QED
    BY <2>1, <2>2, <2>3, <2>4, <2>5 DEF FlatNext
<1>2. CASE UnflattenRow
  <2>1. tree_out[i + 1] \in Row
    BY <1>2 DEF UnflattenRow
  <2>2. out_score' \in Seq(Row)
    BY <1>2, <2>1 DEF UnflattenRow, Collected
  <2> DEFINE Scores == Seq(Row)
  <2> HIDE DEF Scores
  <2>a. t_out \in Seq(Scores) /\ out_score \in Scores
    BY DEF Scores
  <2>b. Append(t_out, out_score) \in Seq(Scores)
    BY <2>a
  <2>3. last_event_index' \in Nat /\ t_out' \in Seq(Seq(Row))
    <3>1. CASE StartsNewEvent(tree_out[i + 1])
      <4>1. t_out' = Append(t_out, out_score) /\ last_event_index' = last_event_index + 1
        BY <1>2, <3>1 DEF UnflattenRow
      <4> QED
        BY <4>1, <2>b DEF Scores
    <3>2. CASE ~StartsNewEvent(tree_out[i + 1])
      BY <1>2, <3>2 DEF UnflattenRow
    <3> QED
      BY <3>1, <3>2
  <2> QED
    BY <1>2, <2>2, <2>3 DEF UnflattenRow
<1>3. CASE FillLast
  BY <1>3 DEF FillLast
<1>4. CASE TopUp
  BY <1>4 DEF TopUp, flatvars
<1>5. CASE EndUnflatten
  BY <1>5 DEF EndUnflatten
<1>6. CASE UNCHANGED vars
  BY <1>6 DEF vars, flatvars
<1> QED
  BY NextCases, <1>1, <1>2, <1>3, <1>4, <1>5, <1>6

(* Flattening and unflattening keep their types. *)
THEOREM TypeCorrect == Spec => []TypeOK
<1>1. TypeInv => TypeOK
  BY DEF TypeInv
<1> QED
  BY <1>1, TypeInit, TypeStep, PTL DEF Spec

-----------------------------------------------------------------------------
\* Entries written and the counter of events agree, and the counter stays
\* below the number of events until the last entry is filled.
CountInv ==
  /\ TypeInv
  /\ Len(t_out) = last_event_index
  /\ phase \in {"flatten", "friend"} => last_event_index = 0
  /\ NEvents > 0 /\ phase = "unflatten" => last_event_index < NEvents
  /\ NEvents > 0 /\ phase \in {"topup", "done"} => last_event_index <= NEvents
  /\ phase = "done" => last_event_index >= NEvents

LEMMA CountStep == CountInv /\ TypeInv' /\ [Next]_vars => CountInv'
<1> SUFFICES ASSUME CountInv, TypeInv', [Next]_vars PROVE CountInv'
  OBVIOUS
<1> USE FlatAssumption DEF CountInv, TypeInv, TypeOK
<1>1. CASE Flatten
  BY <1>1 DEF Flatten, FlatNext, SkipEvent, FlattenEvent, EndFlatten, FriendEvent, EndFriend
<1>2. CASE UnflattenRow
  <2>1. tree_out[i + 1] \in Row
    BY <1>2 DEF UnflattenRow
  <2>2. StartsNewEvent(tree_out[i + 1]) => last_event_index < NEvents - 1
    <3>1. PICK row \in Row : row = tree_out[i + 1]
      BY <2>1
    <3>2. row.event \in EventIndex
      BY DEF Row
    <3> HIDE DEF CountInv, TypeInv, TypeOK
    <3>3. last_event_index \in Nat
      BY DEF CountInv, TypeInv, TypeOK
    <3> QED
      BY <3>1, <3>2, <3>3 DEF StartsNewEvent, EventIndex
  <2> QED
    BY <1>2, <2>2 DEF UnflattenRow
<1>3. CASE FillLast
  BY <1>3 DEF FillLast
<1>4. CASE TopUp
  BY <1>4 DEF TopUp, flatvars
<1>5. CASE EndUnflatten
  BY <1>5 DEF EndUnflatten
<1>6. CASE UNCHANGED vars
  BY <1>6 DEF vars, flatvars
<1> QED
  BY NextCases, <1>1, <1>2, <1>3, <1>4, <1>5, <1>6

(* Whatever was skipped, the unflattened tree has the entry count of the      *)
(* event tree: comparing counts cannot tell a misaligned tree from a good one. *)
THEOREM EntryCountAlwaysKept == Spec => []EntryCountKept
<1>1. Init => CountInv
  BY TypeInit DEF Init, FlatInit, CountInv
<1>2. CountInv => EntryCountKept
  BY FlatAssumption DEF CountInv, TypeInv, TypeOK, EntryCountKept
<1> QED
  BY <1>1, <1>2, CountStep, TypeInit, TypeStep, PTL DEF Spec

-----------------------------------------------------------------------------
\* Without skipped events the rows of the flat tree run through the clusters
\* of event 0, then of event 1, and so on; an event without clusters has one row.
LastCluster(e) == NumCandidates(events[e]) - 1

FirstCluster(e) == IF NumCandidates(events[e]) = 0 THEN -1 ELSE 0

Follows(r, s) ==
  \/ s.event = r.event /\ s.cluster = r.cluster + 1
  \/ /\ r.cluster = LastCluster(r.event)
     /\ s.event = r.event + 1
     /\ s.cluster = FirstCluster(s.event)

RowsUpTo(n) ==
  /\ n = 0 => tree_out = <<>>
  /\ n > 0 => /\ Len(tree_out) > 0
              /\ tree_out[Len(tree_out)].event = n - 1
              /\ tree_out[Len(tree_out)].cluster = LastCluster(n - 1)

FlatShape ==
  /\ NoneSkipped
  /\ \A k \in 1..Len(tree_out) :
       tree_out[k].cluster \in FirstCluster(tree_out[k].event)..LastCluster(tree_out[k].event)
  /\ Len(tree_out) > 0 => /\ tree_out[1].event = 0
                          /\ tree_out[1].cluster = FirstCluster(0)
  /\ \A k \in 1..Len(tree_out) - 1 : Follows(tree_out[k], tree_out[k + 1])
  /\ phase = "flatten" => RowsUpTo(i)
  /\ phase # "flatten" => RowsUpTo(NEvents)

\* What has been collected of the event of row r once r has been read.
ScoresUpTo(r) == [j \in 1..r.cluster + 1 |-> [event |-> r.event, cluster |-> j - 1]]

WrittenUpTo(n) == last_event_index = n /\ \A d \in 0..n - 1 : t_out[d + 1] = ScoresOf(d)

UnFlatShape ==
  /\ phase \in {"flatten", "friend"} => t_out = <<>> /\ out_score = <<>> /\ last_event_index = 0
  /\ phase = "unflatten" =>
       /\ i <= Len(tree_out)
       /\ i = 0 => t_out = <<>> /\ out_score = <<>> /\ last_event_index = 0
       /\ i > 0 => /\ WrittenUpTo(tree_out[i].event)
                   /\ out_score = ScoresUpTo(tree_out[i])
  /\ phase \in {"topup", "done"} /\ NEvents > 0 => WrittenUpTo(NEvents)

RoundTripInv == CountInv /\ FlatShape /\ UnFlatShape

\* The rows FlattenEvent adds follow one another and end the event.
LEMMA RowsOfShape ==
  ASSUME TypeInv, NEW e \in EventIndex
  PROVE  LET rows == RowsOf(e, NumCandidates(events[e])) IN
         /\ rows \in Seq(Row)
         /\ Len(rows) > 0
         /\ rows[1].event = e /\ rows[1].cluster = FirstCluster(e)
         /\ rows[Len(rows)].event = e /\ rows[Len(rows)].cluster = LastCluster(e)
         /\ \A k \in 1..Len(rows) :
              rows[k].event = e /\ rows[k].cluster \in FirstCluster(e)..LastCluster(e)
         /\ \A k \in 1..Len(rows) - 1 : Follows(rows[k], rows[k + 1])
<1> DEFINE n == NumCandidates(events[e])
           rows == RowsOf(e, n)
<1>1. n \in 0..MaxCandidates
  <2>1. events[e] \in Event
    BY DEF TypeInv, TypeOK
  <2> QED
    BY <2>1, CandidatesType
<1>2. /\ rows \in Seq(Row)
      /\ Len(rows) = (IF n = 0 THEN 1 ELSE n)
      /\ \A k \in 1..Len(rows) : rows[k] = [event |-> e, cluster |-> IF n = 0 THEN -1 ELSE k - 1]
  BY <1>1, RowsType
<1>3. FirstCluster(e) = (IF n = 0 THEN -1 ELSE 0) /\ LastCluster(e) = n - 1
  BY DEF FirstCluster, LastCluster
<1> HIDE DEF n, rows
<1>4. Len(rows) > 0 /\ Len(rows) \in Nat
  BY <1>1, <1>2
<1>5. \A k \in 1..Len(rows) :
        rows[k].event = e /\ rows[k].cluster = (IF n = 0 THEN -1 ELSE k - 1)
  <2> SUFFICES ASSUME NEW k \in 1..Len(rows)
               PROVE  rows[k].event = e /\ rows[k].cluster = (IF n = 0 THEN -1 ELSE k - 1)
    OBVIOUS
  <2> DEFINE c == IF n = 0 THEN -1 ELSE k - 1
  <2>1. rows[k] = [event |-> e, cluster |-> c]
    BY <1>2
  <2> HIDE DEF c
  <2>2. rows[k].event = e /\ rows[k].cluster = c
    BY <2>1
  <2> QED
    BY <2>2 DEF c
<1>6. \A k \in 1..Len(rows) - 1 : Follows(rows[k], rows[k + 1])
  BY <1>1, <1>2, <1>5 DEF Follows
<1>7. /\ rows[1].event = e /\ rows[1].cluster = FirstCluster(e)
      /\ rows[Len(rows)].event = e /\ rows[Len(rows)].cluster = LastCluster(e)
      /\ \A k \in 1..Len(rows) :
           rows[k].event = e /\ rows[k].cluster \in FirstCluster(e)..LastCluster(e)
  BY <1>1, <1>2, <1>3, <1>4, <1>5
<1> QED
  BY <1>2, <1>4, <1>6, <1>7 DEF rows, n

LEMMA FlattenKeepsShape ==
  ASSUME RoundTripInv, FlattenEvent PROVE FlatShape'
<1> USE FlatAssumption DEF RoundTripInv, CountInv, TypeInv, TypeOK, FlattenEvent
<1> DEFINE rows == RowsOf(i, NumCandidates(events[i]))
<1>1. i \in EventIndex
  BY DEF EventIndex
<1>2. /\ rows \in Seq(Row)
      /\ Len(rows) > 0
      /\ rows[1].event = i /\ rows[1].cluster = FirstCluster(i)
      /\ rows[Len(rows)].event = i /\ rows[Len(rows)].cluster = LastCluster(i)
      /\ \A k \in 1..Len(rows) :
           rows[k].event = i /\ rows[k].cluster \in FirstCluster(i)..LastCluster(i)
      /\ \A k \in 1..Len(rows) - 1 : Follows(rows[k], rows[k + 1])
  BY <1>1, RowsOfShape
<1>3. tree_out' = tree_out \o rows
  OBVIOUS
<1>4. /\ events' = events /\ phase' = phase /\ phase = "flatten" /\ i' = i + 1 /\ i \in Nat
      /\ tree_out \in Seq(Row) /\ tree_out' \in Seq(Row)
  BY <1>2, <1>3
<1>5. \A e : FirstCluster(e)' = FirstCluster(e) /\ LastCluster(e)' = LastCluster(e)
  BY <1>4 DEF FirstCluster, LastCluster
<1> HIDE DEF rows
<1>6. /\ Len(tree_out') = Len(tree_out) + Len(rows)
      /\ \A k \in 1..Len(tree_out) : tree_out'[k] = tree_out[k]
      /\ \A k \in 1..Len(rows) : tree_out'[Len(tree_out) + k] = rows[k]
      /\ Len(tree_out) \in Nat /\ Len(rows) \in Nat
  BY <1>2, <1>3, <1>4
<1>7. \A k \in 1..Len(tree_out') :
         \/ k \in 1..Len(tree_out) /\ tree_out'[k] = tree_out[k]
         \/ k - Len(tree_out) \in 1..Len(rows) /\ tree_out'[k] = rows[k - Len(tree_out)]
  <2> SUFFICES ASSUME NEW k \in 1..Len(tree_out'), ~(k \in 1..Len(tree_out))
               PROVE  /\ k - Len(tree_out) \in 1..Len(rows)
                      /\ tree_out'[k] = rows[k - Len(tree_out)]
    BY <1>6
  <2> DEFINE j == k - Len(tree_out)
  <2>1. j \in 1..Len(rows) /\ k = Len(tree_out) + j
    BY <1>6
  <2> HIDE DEF j
  <2>2. tree_out'[k] = rows[j]
    BY <2>1, <1>6
  <2> QED
    BY <2>1, <2>2 DEF j
<1>8. \A k \in 1..Len(tree_out') :
         tree_out'[k].cluster \in FirstCluster(tree_out'[k].event)..LastCluster(tree_out'[k].event)
  <2>1. ASSUME NEW k \in 1..Len(tree_out)
        PROVE  tree_out[k].cluster \in FirstCluster(tree_out[k].event)..LastCluster(tree_out[k].event)
    BY DEF FlatShape
  <2>2. ASSUME NEW k \in 1..Len(rows)
        PROVE  rows[k].cluster \in FirstCluster(rows[k].event)..LastCluster(rows[k].event)
    BY <1>2
  <2> QED
    BY <1>7, <2>1, <2>2
<1>9. tree_out'[1].event = 0 /\ tree_out'[1].cluster = FirstCluster(0)
  <2>1. CASE i = 0
    BY <2>1, <1>2, <1>4, <1>6 DEF FlatShape, RowsUpTo
  <2>2. CASE i > 0
    BY <2>2, <1>4, <1>6 DEF FlatShape, RowsUpTo
  <2>3. i = 0 \/ i > 0
    BY <1>4
  <2> QED
    BY <2>1, <2>2, <2>3
<1>10. \A k \in 1..Len(tree_out') - 1 : Follows(tree_out'[k], tree_out'[k + 1])
  <2> SUFFICES ASSUME NEW k \in 1..Len(tree_out') - 1
               PROVE  Follows(tree_out'[k], tree_out'[k + 1])
    OBVIOUS
  <2>1. CASE k < Len(tree_out)
    BY <2>1, <1>6 DEF FlatShape
  <2>2. CASE k = Len(tree_out)
    <3>1. tree_out'[k + 1] = rows[1] /\ tree_out'[k] = tree_out[Len(tree_out)]
      BY <2>2, <1>2, <1>6
    <3>2. i > 0
      BY <2>2, <1>4, <1>6 DEF FlatShape, RowsUpTo
    <3>3. tree_out[Len(tree_out)].event = i - 1 /\ tree_out[Len(tree_out)].cluster = LastCluster(i - 1)
      BY <3>2, <1>4 DEF FlatShape, RowsUpTo
    <3> QED
      BY <3>1, <3>3, <1>2, <1>4 DEF Follows
  <2>3. CASE k > Len(tree_out)
    <3>1. k - Len(tree_out) \in 1..Len(rows) - 1
      BY <2>3, <1>6
    <3> DEFINE j == k - Len(tree_out)
    <3>a. j \in 1..Len(rows) /\ j + 1 \in 1..Len(rows) /\ k = Len(tree_out) + j
          /\ k + 1 = Len(tree_out) + (j + 1)
      BY <3>1, <1>6
    <3> HIDE DEF j
    <3>2. tree_out'[k] = rows[j] /\ tree_out'[k + 1] = rows[j + 1]
      BY <3>a, <1>6
    <3> QED
      BY <3>1, <3>2, <1>2 DEF j
  <2> QED
    BY <2>1, <2>2, <2>3, <1>6
<1>11. /\ Len(tree_out') > 0
       /\ tree_out'[Len(tree_out')].event = i /\ tree_out'[Len(tree_out')].cluster = LastCluster(i)
  BY <1>2, <1>6
<1>12. FlatShape!1'
  BY <1>4 DEF FlatShape, NoneSkipped
<1>13. RowsUpTo(i)'
  BY <1>4, <1>5, <1>11 DEF RowsUpTo
<1>14. \A r, t : Follows(r, t)' <=> Follows(r, t)
  BY <1>5 DEF Follows
<1> QED
  BY <1>4, <1>5, <1>8, <1>9, <1>10, <1>12, <1>13, <1>14 DEF FlatShape, NoneSkipped

LEMMA RoundTripInit == NoneSkipped /\ Init => RoundTripInv
<1> SUFFICES ASSUME NoneSkipped, Init PROVE RoundTripInv
  OBVIOUS
<1>1. CountInv
  BY TypeInit DEF Init, FlatInit, CountInv
<1>2. FlatShape
  BY DEF Init, FlatInit, FlatShape, RowsUpTo
<1>3. UnFlatShape
  BY DEF Init, FlatInit, UnFlatShape
<1> QED
  BY <1>1, <1>2, <1>3 DEF RoundTripInv

\* The flat tree is untouched once it has been written.
LEMMA ShapeStep == RoundTripInv /\ [Next]_vars => FlatShape'
<1> SUFFICES ASSUME RoundTripInv, [Next]_vars PROVE FlatShape'
  OBVIOUS
<1> USE FlatAssumption
<1>1. CASE FlattenEvent
  BY <1>1, FlattenKeepsShape
<1>2. CASE SkipEvent
  <2>1. i \in EventIndex /\ events[i].skip
    BY <1>2 DEF SkipEvent, RoundTripInv, CountInv, TypeInv, TypeOK, EventIndex
  <2> QED
    BY <2>1 DEF RoundTripInv, FlatShape, NoneSkipped
<1>3. CASE ~FlattenEvent /\ ~SkipEvent
  <2>1. UNCHANGED <<events, tree_out>>
    BY <1>3, NextCases DEF Flatten, FlatNext, EndFlatten, FriendEvent, EndFriend, UnflattenRow,
       FillLast, TopUp, EndUnflatten, vars, flatvars
  <2>2. \/ phase' = phase /\ i' = i /\ phase = "flatten"
        \/ phase' # "flatten" /\ phase # "flatten"
        \/ phase = "flatten" /\ i = NEvents /\ phase' # "flatten"
    BY <1>3, NextCases DEF Flatten, FlatNext, EndFlatten, FriendEvent, EndFriend, UnflattenRow,
       FillLast, TopUp, EndUnflatten, vars, flatvars
  <2>3. \A e : FirstCluster(e)' = FirstCluster(e) /\ LastCluster(e)' = LastCluster(e)
    BY <2>1 DEF FirstCluster, LastCluster
  <2>4. \A r, t : Follows(r, t)' <=> Follows(r, t)
    BY <2>3 DEF Follows
  <2>5. (phase = "flatten" => RowsUpTo(i))' /\ (phase # "flatten" => RowsUpTo(NEvents))'
    BY <2>1, <2>2, <2>3 DEF RoundTripInv, FlatShape, RowsUpTo
  <2> QED
    BY <2>1, <2>3, <2>4, <2>5 DEF RoundTripInv, FlatShape, NoneSkipped
<1> QED
  BY <1>1, <1>2, <1>3

\* A row that follows the row read last continues its event or starts the
\* next one, and then the vector collected so far is complete.
LEMMA RowKeepsShape == RoundTripInv /\ UnflattenRow => UnFlatShape'
<1> SUFFICES ASSUME RoundTripInv, UnflattenRow PROVE UnFlatShape'
  OBVIOUS
<1> USE FlatAssumption
<1>0. PICK r, s : r = tree_out[i] /\ s = tree_out[i + 1]
  OBVIOUS
<1>1. /\ i \in Nat /\ i + 1 \in 1..Len(tree_out) /\ tree_out \in Seq(Row) /\ Len(tree_out) \in Nat
      /\ phase = "unflatten" /\ phase' = phase /\ i' = i + 1
      /\ UNCHANGED <<events, tree_out>>
      /\ last_event_index \in Nat /\ out_score \in Seq(Row) /\ t_out \in Seq(Seq(Row))
      /\ Len(t_out) = last_event_index
  BY DEF UnflattenRow, RoundTripInv, CountInv, TypeInv, TypeOK
<1>2. s \in Row
  BY <1>0, <1>1
<1>3. /\ s = [event |-> s.event, cluster |-> s.cluster]
      /\ s.event \in 0..NEvents - 1 /\ s.cluster \in Int /\ s.cluster >= -1
  BY <1>2 DEF Row, EventIndex
<1>4. /\ out_score' = Collected(s)
      /\ StartsNewEvent(s) => /\ t_out' = Append(t_out, out_score)
                              /\ last_event_index' = last_event_index + 1
      /\ ~StartsNewEvent(s) => t_out' = t_out /\ last_event_index' = last_event_index
  BY <1>0 DEF UnflattenRow
<1>5. \A d : ScoresOf(d)' = ScoresOf(d)
  BY <1>1 DEF ScoresOf
<1>6. SUFFICES /\ last_event_index' = s.event
               /\ \A d \in 0..s.event - 1 : t_out'[d + 1] = ScoresOf(d)
               /\ out_score' = ScoresUpTo(s)
  BY <1>0, <1>1, <1>5 DEF UnFlatShape, WrittenUpTo
<1>7. CASE i = 0
  <2>1. s.event = 0 /\ s.cluster = FirstCluster(0) /\ t_out = <<>> /\ out_score = <<>>
        /\ last_event_index = 0
    BY <1>0, <1>1, <1>7 DEF RoundTripInv, FlatShape, UnFlatShape
  <2>2. s.cluster \in {-1, 0}
    BY <2>1 DEF FirstCluster
  <2> QED
    <3>1. ~StartsNewEvent(s)
      BY <2>1 DEF StartsNewEvent
    <3>2. CASE s.cluster = -1
      BY <1>3, <1>4, <2>1, <3>1, <3>2 DEF Collected, ScoresUpTo
    <3>3. CASE s.cluster = 0
      BY <1>3, <1>4, <2>1, <3>1, <3>3 DEF Collected, ScoresUpTo
    <3> QED
      BY <2>2, <3>2, <3>3
<1>8. CASE i > 0
  <2>1. i \in 1..Len(tree_out) - 1
    BY <1>1, <1>8
  <2>2. r \in Row
    BY <1>0, <1>1, <2>1
  <2>3. r.event \in 0..NEvents - 1 /\ r.cluster \in Int /\ r.cluster >= -1
    BY <2>2 DEF Row, EventIndex
  <2>4. Follows(r, s) /\ WrittenUpTo(r.event) /\ out_score = ScoresUpTo(r)
    BY <1>0, <1>1, <1>8, <2>1 DEF RoundTripInv, FlatShape, UnFlatShape
  <2>5. s.cluster \in FirstCluster(s.event)..LastCluster(s.event)
    BY <1>0, <1>1 DEF RoundTripInv, FlatShape
  <2>6. last_event_index = r.event
    BY <2>4 DEF WrittenUpTo
  <2>7. CASE s.event = r.event /\ s.cluster = r.cluster + 1
    <3>1. ~StartsNewEvent(s) /\ s.cluster >= 0
      BY <2>3, <2>6, <2>7 DEF StartsNewEvent
    <3>2. out_score' = Append(out_score, s)
      BY <1>3, <1>4, <3>1 DEF Collected
    <3>3. Append(ScoresUpTo(r), s) = ScoresUpTo(s)
      BY <1>3, <2>3, <2>7 DEF ScoresUpTo
    <3>4. last_event_index' = s.event /\ \A d \in 0..s.event - 1 : t_out'[d + 1] = ScoresOf(d)
      BY <1>4, <2>4, <2>7, <3>1 DEF WrittenUpTo
    <3> QED
      BY <2>4, <3>2, <3>3, <3>4
  <2>8. CASE r.cluster = LastCluster(r.event) /\ s.event = r.event + 1 /\ s.cluster = FirstCluster(s.event)
    <3>1. StartsNewEvent(s)
      BY <2>3, <2>6, <2>8 DEF StartsNewEvent
    <3>2. out_score = ScoresOf(r.event)
      <4>1. r.cluster + 1 = NumCandidates(events[r.event])
        <5>1. NumCandidates(events[r.event]) \in Int
          BY <1>1, <2>3, CandidatesType DEF EventIndex, RoundTripInv, CountInv, TypeInv, TypeOK
        <5> QED
          BY <2>3, <2>8, <5>1 DEF LastCluster
      <4> QED
        BY <2>4, <4>1 DEF ScoresUpTo, ScoresOf
    <3>3. out_score' = ScoresUpTo(s)
      <4>1. s.cluster \in {-1, 0}
        BY <2>8 DEF FirstCluster
      <4> QED
        BY <1>3, <1>4, <3>1, <4>1 DEF Collected, ScoresUpTo
    <3>4. \A d \in 0..s.event - 1 : t_out'[d + 1] = ScoresOf(d)
      <4> SUFFICES ASSUME NEW d \in 0..s.event - 1 PROVE t_out'[d + 1] = ScoresOf(d)
        OBVIOUS
      <4> DEFINE Scores == Seq(Row)
      <4> HIDE DEF Scores
      <4>0. t_out \in Seq(Scores) /\ out_score \in Scores
        BY <1>1 DEF Scores
      <4>1. t_out' = Append(t_out, out_score) /\ Len(t_out) = r.event
        BY <1>1, <1>4, <2>6, <3>1
      <4>2. CASE d = r.event
        BY <1>1, <2>3, <3>2, <4>0, <4>1, <4>2
      <4>3. CASE d < r.event
        <5>1. d \in 0..r.event - 1 /\ d + 1 \in 1..Len(t_out)
          BY <2>3, <4>1, <4>3
        <5>2. t_out[d + 1] = ScoresOf(d)
          BY <2>4, <5>1 DEF WrittenUpTo
        <5> QED
          BY <4>0, <4>1, <5>1, <5>2
      <4> QED
        BY <2>3, <2>8, <4>2, <4>3
    <3> QED
      BY <1>4, <2>6, <2>8, <3>1, <3>3, <3>4
  <2> QED
    BY <2>4, <2>7, <2>8 DEF Follows
<1> QED
  BY <1>1, <1>7, <1>8

\* The last row ends the last event, so the last entry completes the tree.
LEMMA LastKeepsShape == RoundTripInv /\ FillLast => UnFlatShape'
<1> SUFFICES ASSUME RoundTripInv, FillLast PROVE UnFlatShape'
  OBVIOUS
<1> USE FlatAssumption
<1>1. /\ phase = "unflatten" /\ phase' = "topup" /\ i = Len(tree_out) /\ UNCHANGED events
      /\ t_out' = Append(t_out, out_score) /\ last_event_index' = last_event_index + 1
      /\ last_event_index \in Nat /\ Len(t_out) = last_event_index
  BY DEF FillLast, RoundTripInv, CountInv, TypeInv, TypeOK
<1>2. \A d : ScoresOf(d)' = ScoresOf(d)
  BY <1>1 DEF ScoresOf
<1> SUFFICES ASSUME NEvents > 0 PROVE WrittenUpTo(NEvents)'
  BY <1>1 DEF UnFlatShape
<1>3. PICK r : r = tree_out[Len(tree_out)]
  OBVIOUS
<1>4. Len(tree_out) > 0 /\ r.event = NEvents - 1 /\ r.cluster = LastCluster(NEvents - 1)
  BY <1>1, <1>3 DEF RoundTripInv, FlatShape, RowsUpTo
<1>5. WrittenUpTo(NEvents - 1) /\ out_score = ScoresUpTo(r)
  BY <1>1, <1>3, <1>4 DEF RoundTripInv, UnFlatShape
<1>6. out_score = ScoresOf(NEvents - 1)
  <2>1. NumCandidates(events[NEvents - 1]) \in Int
    BY CandidatesType DEF EventIndex, RoundTripInv, CountInv, TypeInv, TypeOK
  <2>2. r.cluster + 1 = NumCandidates(events[NEvents - 1])
    BY <1>4, <2>1 DEF LastCluster
  <2> QED
    BY <1>4, <1>5, <2>2 DEF ScoresUpTo, ScoresOf
<1>7. last_event_index = NEvents - 1 /\ last_event_index' = NEvents
  BY <1>1, <1>5 DEF WrittenUpTo
<1>8. \A d \in 0..NEvents - 1 : t_out'[d + 1] = ScoresOf(d)
  <2> SUFFICES ASSUME NEW d \in 0..NEvents - 1 PROVE t_out'[d + 1] = ScoresOf(d)
    OBVIOUS
  <2> DEFINE Scores == Seq(Row)
  <2> HIDE DEF Scores
  <2>1. t_out \in Seq(Scores) /\ out_score \in Scores
    BY DEF Scores, RoundTripInv, CountInv, TypeInv, TypeOK
  <2>2. CASE d = NEvents - 1
    BY <1>1, <1>6, <1>7, <2>1, <2>2
  <2>3. CASE d < NEvents - 1
    <3>1. d \in 0..(NEvents - 1) - 1 /\ d + 1 \in 1..Len(t_out)
      BY <1>1, <1>7, <2>3
    <3>2. t_out[d + 1] = ScoresOf(d)
      BY <1>5, <3>1 DEF WrittenUpTo
    <3> QED
      BY <1>1, <2>1, <3>1, <3>2
  <2> QED
    BY <2>2, <2>3
<1> QED
  BY <1>2, <1>7, <1>8 DEF WrittenUpTo

LEMMA UnFlatShapeStep == RoundTripInv /\ [Next]_vars => UnFlatShape'
<1> SUFFICES ASSUME RoundTripInv, [Next]_vars PROVE UnFlatShape'
  OBVIOUS
<1> USE FlatAssumption
<1>1. CASE Flatten
  <2>1. /\ phase \in {"flatten", "friend"} /\ phase' \in {"flatten", "friend", "unflatten"}
        /\ phase' = "unflatten" => i' = 0
        /\ UNCHANGED <<last_event_index, out_score, t_out>>
    BY <1>1 DEF Flatten, FlatNext, SkipEvent, FlattenEvent, EndFlatten, FriendEvent, EndFriend
  <2>2. Len(tree_out') \in Nat
    BY <2>1, <1>1, ShapeStep, TypeStep DEF RoundTripInv, CountInv, TypeInv, TypeOK
  <2> QED
    BY <2>1, <2>2 DEF RoundTripInv, UnFlatShape
<1>2. CASE UnflattenRow
  BY <1>2, RowKeepsShape
<1>3. CASE FillLast
  BY <1>3, LastKeepsShape
\* The counter has reached NEvents already: there is nothing to top up.
<1>4. CASE TopUp
  BY <1>4 DEF TopUp, RoundTripInv, UnFlatShape, WrittenUpTo, flatvars
<1>5. CASE EndUnflatten
  <2>1. \A d : ScoresOf(d)' = ScoresOf(d)
    BY <1>5 DEF ScoresOf, EndUnflatten
  <2> QED
    BY <1>5, <2>1 DEF EndUnflatten, RoundTripInv, UnFlatShape, WrittenUpTo
<1>6. CASE UNCHANGED vars
  <2>1. \A d : ScoresOf(d)' = ScoresOf(d)
    BY <1>6 DEF ScoresOf, vars, flatvars
  <2> QED
    BY <1>6, <2>1 DEF vars, flatvars, RoundTripInv, UnFlatShape, WrittenUpTo
<1> QED
  BY NextCases, <1>1, <1>2, <1>3, <1>4, <1>5, <1>6

ExactInv == TypeInv /\ (NoneSkipped => RoundTripInv)

\* The events are the input: no step changes them.
LEMMA EventsFixed == [Next]_vars => events' = events
BY DEF Next, vars, flatvars, Flatten, FlatNext, SkipEvent, FlattenEvent, EndFlatten, FriendEvent,
       EndFriend, UnflattenRow, FillLast, TopUp, EndUnflatten

(* Flattening a tree without skipping any event, and unflattening it, gives   *)
(* back one entry per event with exactly the scores of its clusters.          *)
THEOREM RoundTripExact == Spec => []ExactWithoutSkips
<1>1. Init => ExactInv
  BY RoundTripInit, TypeInit DEF ExactInv
<1>2. ExactInv /\ [Next]_vars => ExactInv'
  <2> SUFFICES ASSUME ExactInv, [Next]_vars, NoneSkipped' PROVE RoundTripInv'
    BY TypeStep DEF ExactInv
  <2>1. NoneSkipped
    BY EventsFixed DEF NoneSkipped
  <2>2. RoundTripInv
    BY <2>1 DEF ExactInv
  <2>3. CountInv'
    BY <2>2, TypeStep, CountStep DEF RoundTripInv, CountInv
  <2> QED
    BY <2>2, <2>3, ShapeStep, UnFlatShapeStep DEF RoundTripInv
<1>3. ExactInv => ExactWithoutSkips
  <2>1. RoundTripInv => OneEntryPerEvent
    BY FlatAssumption DEF RoundTripInv, CountInv, UnFlatShape, WrittenUpTo, OneEntryPerEvent, EventIndex
  <2> QED
    BY <2>1 DEF ExactInv, ExactWithoutSkips, NoneSkipped
<1> QED
  BY <1>1, <1>2, <1>3, PTL DEF Spec

-----------------------------------------------------------------------------
(* What the entry count of a flat friend is worth, and where the scores go   *)
(* when events were skipped: any choice of skipped events.                   *)
\* The rows written for a counter of n.
RowCount(n) == IF n = 0 THEN 1 ELSE n

\* The flat tree up to event n: the rows of event e end at T[e + 1], where those
\* of the next one begin, and are no more than MakeFlatFriend writes for it.
Blocks(T, n) ==
  /\ T \in [0..NEvents -> Nat]
  /\ T[0] = 0 /\ T[n] = Len(tree_out)
  /\ \A e \in 0..n : T[e] <= Len(tree_out)
  /\ \A e \in 0..n - 1 :
       /\ T[e] <= T[e + 1]
       /\ T[e + 1] <= T[e] + RowCount(events[e].counter)
       /\ \A k \in T[e] + 1..T[e + 1] : tree_out[k].event = e

\* After n events the friend is never behind, and beside the tree if level.
Beside(T, n) ==
  /\ T[n] <= Len(friend_out)
  /\ T[n] = Len(friend_out) =>
       \A k \in 1..T[n] : friend_out[k].event = tree_out[k].event

FriendInv ==
  /\ TypeInv
  /\ friend_out \in Seq(Row)
  /\ phase = "flatten" => friend_out = <<>> /\ \E T : Blocks(T, i)
  /\ phase = "friend"  => \E T : Blocks(T, NEvents) /\ Beside(T, i)
  /\ phase = "unflatten" => \E T : Blocks(T, NEvents) /\ Beside(T, NEvents)

LEMMA FriendFacts ==
  ASSUME FriendInv
  PROVE  /\ NEvents \in Nat /\ MaxCandidates \in Nat /\ i \in Nat
         /\ events \in [EventIndex -> Event]
         /\ tree_out \in Seq(Row) /\ Len(tree_out) \in Nat
         /\ friend_out \in Seq(Row) /\ Len(friend_out) \in Nat
         /\ phase \in {"flatten", "friend"} => i \in 0..NEvents
         /\ \A e \in 0..NEvents - 1 : e \in EventIndex /\ events[e].counter \in 0..MaxCandidates
BY FlatAssumption DEF FriendInv, TypeInv, TypeOK, EventIndex, Event

LEMMA SkipKeepsFriendInv ==
  ASSUME FriendInv, HasCounter, SkipEvent, TypeInv' PROVE FriendInv'
<1>1. PICK T : Blocks(T, i)
  BY DEF FriendInv, SkipEvent
<1>2. /\ i \in 0..NEvents - 1 /\ i + 1 \in 0..NEvents /\ NEvents \in Nat
      /\ events[i].counter \in Nat /\ Len(tree_out) \in Nat
  BY FriendFacts DEF SkipEvent
<1>0. /\ T \in [0..NEvents -> Nat] /\ T[0] = 0 /\ T[i] = Len(tree_out)
      /\ \A e \in 0..i : T[e] <= Len(tree_out)
  BY <1>1 DEF Blocks
<1>T. PICK T2 : T2 = [T EXCEPT ![i + 1] = Len(tree_out)]
  OBVIOUS
<1>3. /\ T2 \in [0..NEvents -> Nat]
      /\ T2[i + 1] = Len(tree_out)
      /\ \A e \in 0..i : T2[e] = T[e]
  BY <1>2, <1>0, <1>T
<1>4. T2[0] = 0 /\ T2[i] = Len(tree_out)
  BY <1>2, <1>3, <1>0
<1>5. \A e \in 0..i + 1 : T2[e] <= Len(tree_out)
  BY <1>2, <1>3, <1>0
<1>6. ASSUME NEW e \in 0..i
      PROVE  /\ T2[e] <= T2[e + 1]
             /\ T2[e + 1] <= T2[e] + RowCount(events[e].counter)
             /\ \A k \in T2[e] + 1..T2[e + 1] : tree_out[k].event = e
  <2>1. CASE e = i
    BY <2>1, <1>2, <1>3, <1>4 DEF RowCount
  <2>2. CASE e # i
    <3>1. e \in 0..i - 1 /\ T2[e] = T[e] /\ T2[e + 1] = T[e + 1]
      BY <2>2, <1>2, <1>3
    <3> QED
      BY <3>1, <1>1 DEF Blocks
  <2> QED
    BY <2>1, <2>2
<1>7. Blocks(T2, i)'
  BY <1>2, <1>3, <1>4, <1>5, <1>6 DEF Blocks, SkipEvent
<1> QED
  BY <1>7 DEF FriendInv, SkipEvent

LEMMA FlattenKeepsFriendInv ==
  ASSUME FriendInv, HasCounter, FlattenEvent, TypeInv' PROVE FriendInv'
<1>1. PICK T : Blocks(T, i)
  BY DEF FriendInv, FlattenEvent
<1>2. /\ i \in EventIndex /\ i \in 0..NEvents - 1 /\ i + 1 \in 0..NEvents
      /\ NEvents \in Nat /\ MaxCandidates \in Nat
      /\ events[i] \in Event /\ tree_out \in Seq(Row) /\ Len(tree_out) \in Nat
  BY FriendFacts DEF FlattenEvent
<1>0. /\ T \in [0..NEvents -> Nat] /\ T[0] = 0 /\ T[i] = Len(tree_out)
      /\ \A e \in 0..i : T[e] <= Len(tree_out)
  BY <1>1 DEF Blocks
<1> DEFINE c == NumCandidates(events[i])
           rows == RowsOf(i, c)
<1>3. c \in 0..MaxCandidates /\ c <= events[i].counter /\ events[i].counter \in Nat
  <2>1. c \in 0..MaxCandidates
    BY <1>2, CandidatesType
  <2>2. events[i].counter \in Nat /\ events[i].length \in Nat
    BY <1>2 DEF Event
  <2> QED
    BY <2>1, <2>2 DEF NumCandidates, SmallerOf
<1>4. /\ rows \in Seq(Row)
      /\ Len(rows) = RowCount(c)
      /\ \A k \in 1..Len(rows) : rows[k].event = i
  <2>1. /\ rows \in Seq(Row)
        /\ Len(rows) = RowCount(c)
        /\ \A k \in 1..Len(rows) :
             rows[k] = [event |-> i, cluster |-> IF c = 0 THEN -1 ELSE k - 1]
    BY <1>2, <1>3, RowsType DEF RowCount
  <2> HIDE DEF rows, c
  <2> QED
    BY <2>1
<1>5. tree_out' = tree_out \o rows
  BY DEF FlattenEvent
<1> HIDE DEF rows, c
<1>6. /\ Len(tree_out) \in Nat /\ Len(rows) \in Nat
      /\ Len(tree_out') = Len(tree_out) + Len(rows)
      /\ \A k \in 1..Len(tree_out) : tree_out'[k] = tree_out[k]
      /\ \A k \in Len(tree_out) + 1..Len(tree_out') : tree_out'[k].event = i
  <2>1. ASSUME NEW k \in Len(tree_out) + 1..Len(tree_out) + Len(rows)
        PROVE  tree_out'[k].event = i
    <3>1. PICK j \in 1..Len(rows) : k = Len(tree_out) + j
      <4>1. k - Len(tree_out) \in 1..Len(rows) /\ k = Len(tree_out) + (k - Len(tree_out))
        BY <2>1, <1>2, <1>4
      <4> QED
        BY <4>1
    <3>2. tree_out'[k] = rows[j]
      BY <3>1, <1>2, <1>4, <1>5
    <3> QED
      BY <3>2, <1>4
  <2>2. Len(tree_out') = Len(tree_out) + Len(rows)
    <3>1. tree_out \in Seq(Row) /\ rows \in Seq(Row)
      BY <1>2, <1>4
    <3> QED
      BY <3>1, <1>5
  <2>3. \A k \in 1..Len(tree_out) : tree_out'[k] = tree_out[k]
    BY <1>2, <1>4, <1>5
  <2> QED
    BY <2>1, <2>2, <2>3, <1>2, <1>4
<1>7. Len(rows) <= RowCount(events[i].counter) /\ RowCount(events[i].counter) \in Nat
  BY <1>3, <1>4 DEF RowCount
<1>T. PICK T2 : T2 = [T EXCEPT ![i + 1] = Len(tree_out')]
  OBVIOUS
<1>8. /\ T2 \in [0..NEvents -> Nat]
      /\ T2[i + 1] = Len(tree_out')
      /\ \A e \in 0..i : T2[e] = T[e]
  BY <1>2, <1>6, <1>0, <1>T
<1>9. T2[0] = 0 /\ T2[i] = Len(tree_out)
  BY <1>2, <1>8, <1>0
<1>10. \A e \in 0..i + 1 : T2[e] <= Len(tree_out')
  BY <1>2, <1>6, <1>8, <1>0
<1>11. ASSUME NEW e \in 0..i
      PROVE  /\ T2[e] <= T2[e + 1]
             /\ T2[e + 1] <= T2[e] + RowCount(events[e].counter)
             /\ \A k \in T2[e] + 1..T2[e + 1] : tree_out'[k].event = e
  <2>1. CASE e = i
    <3>1. T2[i] = Len(tree_out) /\ T2[i + 1] = Len(tree_out) + Len(rows)
      BY <1>6, <1>8, <1>9
    <3> QED
      BY <2>1, <3>1, <1>2, <1>3, <1>6, <1>7
  <2>2. CASE e # i
    <3>1. e \in 0..i - 1 /\ T2[e] = T[e] /\ T2[e + 1] = T[e + 1]
      BY <2>2, <1>2, <1>8
    <3>2. /\ T[e] <= T[e + 1]
          /\ T[e + 1] <= T[e] + RowCount(events[e].counter)
          /\ \A k \in T[e] + 1..T[e + 1] : tree_out[k].event = e
      BY <3>1, <1>1 DEF Blocks
    <3>0. T[e + 1] <= Len(tree_out) /\ T[e] \in Nat /\ T[e + 1] \in Nat
      BY <3>1, <1>2, <1>0
    <3>3. \A k \in T[e] + 1..T[e + 1] : tree_out'[k] = tree_out[k]
      BY <3>0, <1>6
    <3> QED
      BY <3>1, <3>2, <3>3, <3>0
  <2> QED
    BY <2>1, <2>2
<1>12. Blocks(T2, i)'
  BY <1>2, <1>8, <1>9, <1>10, <1>11 DEF Blocks, FlattenEvent
<1> QED
  BY <1>12 DEF FriendInv, FlattenEvent

LEMMA FriendKeepsFriendInv ==
  ASSUME FriendInv, FriendEvent, TypeInv' PROVE FriendInv'
<1>1. PICK T : Blocks(T, NEvents) /\ Beside(T, i)
  BY DEF FriendInv, FriendEvent
<1>2. /\ i \in EventIndex /\ i \in 0..NEvents - 1 /\ i + 1 \in 0..NEvents
      /\ NEvents \in Nat /\ MaxCandidates \in Nat
      /\ events[i].counter \in 0..MaxCandidates
      /\ friend_out \in Seq(Row) /\ Len(friend_out) \in Nat
  BY FriendFacts DEF FriendEvent
<1> DEFINE rows == RowsOf(i, events[i].counter)
<1>3. /\ rows \in Seq(Row)
      /\ Len(rows) = RowCount(events[i].counter)
      /\ \A k \in 1..Len(rows) : rows[k].event = i
  <2>1. /\ rows \in Seq(Row)
        /\ Len(rows) = RowCount(events[i].counter)
        /\ \A k \in 1..Len(rows) :
             rows[k] = [event |-> i, cluster |-> IF events[i].counter = 0 THEN -1 ELSE k - 1]
    BY <1>2, RowsType DEF RowCount
  <2> HIDE DEF rows
  <2> QED
    BY <2>1
<1>4. friend_out' = friend_out \o rows
  BY DEF FriendEvent
<1> HIDE DEF rows
<1>5. /\ Len(friend_out) \in Nat /\ Len(rows) \in Nat
      /\ friend_out' \in Seq(Row)
      /\ Len(friend_out') = Len(friend_out) + Len(rows)
      /\ \A k \in 1..Len(friend_out) : friend_out'[k] = friend_out[k]
      /\ \A k \in Len(friend_out) + 1..Len(friend_out') : friend_out'[k].event = i
  <2>1. ASSUME NEW k \in Len(friend_out) + 1..Len(friend_out) + Len(rows)
        PROVE  friend_out'[k].event = i
    <3>1. PICK j \in 1..Len(rows) : k = Len(friend_out) + j
      <4>1. k - Len(friend_out) \in 1..Len(rows) /\ k = Len(friend_out) + (k - Len(friend_out))
        BY <2>1, <1>2, <1>3
      <4> QED
        BY <4>1
    <3>2. friend_out'[k] = rows[j]
      BY <3>1, <1>2, <1>3, <1>4
    <3> QED
      BY <3>2, <1>3
  <2>2. Len(friend_out') = Len(friend_out) + Len(rows) /\ friend_out' \in Seq(Row)
    <3>1. friend_out \in Seq(Row) /\ rows \in Seq(Row)
      BY <1>2, <1>3
    <3> QED
      BY <3>1, <1>4
  <2>3. \A k \in 1..Len(friend_out) : friend_out'[k] = friend_out[k]
    BY <1>2, <1>3, <1>4
  <2> QED
    BY <2>1, <2>2, <2>3, <1>2, <1>3
<1>6. /\ T[i] \in Nat /\ T[i + 1] \in Nat /\ T[i] <= T[i + 1]
      /\ T[i + 1] <= T[i] + Len(rows)
      /\ \A k \in T[i] + 1..T[i + 1] : tree_out[k].event = i
      /\ T[i] <= Len(friend_out)
  BY <1>1, <1>2, <1>3 DEF Blocks, Beside
<1>7. T[i + 1] <= Len(friend_out')
  BY <1>5, <1>6
<1>8. ASSUME T[i + 1] = Len(friend_out'), NEW k \in 1..T[i + 1]
      PROVE  friend_out'[k].event = tree_out[k].event
  <2>1. T[i] = Len(friend_out)
    BY <1>5, <1>6, <1>8
  <2>2. CASE k <= T[i]
    BY <2>1, <2>2, <1>1, <1>5, <1>6 DEF Beside
  <2>3. CASE ~(k <= T[i])
    BY <2>1, <2>3, <1>5, <1>6, <1>8
  <2> QED
    BY <2>2, <2>3
<1>9. Blocks(T, NEvents)' /\ Beside(T, i)'
  BY <1>1, <1>7, <1>8 DEF Blocks, Beside, FriendEvent
<1> QED
  BY <1>5, <1>9 DEF FriendInv, FriendEvent

LEMMA FriendStep == HasCounter /\ FriendInv /\ TypeInv' /\ [Next]_vars => FriendInv'
<1> SUFFICES ASSUME HasCounter, FriendInv, TypeInv', [Next]_vars PROVE FriendInv'
  OBVIOUS
<1>1. CASE Flatten
  <2>1. CASE EndFlatten
    <3>1. i = NEvents /\ friend_out = <<>> /\ i' = 0 /\ phase' = "friend"
      BY <2>1 DEF EndFlatten, FriendInv
    <3>2. PICK T : Blocks(T, NEvents)
      BY <2>1, <3>1 DEF EndFlatten, FriendInv
    <3>3. Blocks(T, NEvents)' /\ Beside(T, 0)'
      BY <2>1, <3>1, <3>2, FlatAssumption DEF EndFlatten, Blocks, Beside
    <3> QED
      BY <2>1, <3>1, <3>3 DEF EndFlatten, FriendInv
  <2>2. CASE EndFriend
    <3>1. PICK T : Blocks(T, NEvents) /\ Beside(T, NEvents)
      BY <2>2 DEF EndFriend, FriendInv
    <3>2. Blocks(T, NEvents)' /\ Beside(T, NEvents)'
      BY <2>2, <3>1 DEF EndFriend, Blocks, Beside
    <3> QED
      BY <2>2, <3>2 DEF EndFriend, FriendInv
  <2> QED
    BY <1>1, <2>1, <2>2, SkipKeepsFriendInv, FlattenKeepsFriendInv, FriendKeepsFriendInv
    DEF Flatten, FlatNext
<1>2. ASSUME UNCHANGED <<events, tree_out, friend_out>>,
             \/ phase' \in {"topup", "done"}
             \/ phase' = phase /\ phase \notin {"flatten", "friend"}
      PROVE  FriendInv'
  <2>1. \A T : Blocks(T, NEvents)' /\ Beside(T, NEvents)' <=> Blocks(T, NEvents) /\ Beside(T, NEvents)
    BY <1>2 DEF Blocks, Beside
  <2> QED
    BY <1>2, <2>1 DEF FriendInv
<1>3. CASE UnflattenRow \/ FillLast \/ TopUp \/ EndUnflatten
  BY <1>2, <1>3 DEF UnflattenRow, FillLast, TopUp, EndUnflatten, flatvars
<1>4. CASE UNCHANGED vars
  <2>1. \A T, m : (Blocks(T, m)' <=> Blocks(T, m)) /\ (Beside(T, m)' <=> Beside(T, m))
    BY <1>4 DEF Blocks, Beside, vars, flatvars
  <2> QED
    BY <1>4, <2>1 DEF FriendInv, vars, flatvars
<1> QED
  BY NextCases, <1>1, <1>3, <1>4

(* addFriend compares entry counts only, and need not do more for a friend of  *)
(* a tree flattened with its counter: MakeFlatFriend never writes fewer rows   *)
(* for an event than MakeFlatTree, so with equal totals none is out of place.  *)
THEOREM FriendCheckIsEnough == Spec => []FriendCheckSuffices
<1>1. CASE HasCounter
  <2>1. Init => FriendInv
    <3> SUFFICES ASSUME Init PROVE FriendInv
      OBVIOUS
    <3> DEFINE T == [e \in 0..NEvents |-> 0]
    <3>1. Blocks(T, 0)
      BY FlatAssumption DEF Init, FlatInit, Blocks
    <3> HIDE DEF T
    <3> QED
      BY <3>1, TypeInit DEF Init, FlatInit, FriendInv
  <2>2. FriendInv => FriendCheckSuffices
    <3> SUFFICES ASSUME FriendInv, phase = "unflatten", Len(friend_out) = Len(tree_out)
                 PROVE  EventsOf(friend_out) = EventsOf(tree_out)
      BY DEF FriendCheckSuffices
    <3>1. PICK T : Blocks(T, NEvents) /\ Beside(T, NEvents)
      BY DEF FriendInv
    <3>2. \A k \in 1..Len(tree_out) : friend_out[k].event = tree_out[k].event
      BY <3>1 DEF Blocks, Beside
    <3>3. DOMAIN friend_out = 1..Len(tree_out) /\ DOMAIN tree_out = 1..Len(tree_out)
      BY DEF FriendInv, TypeInv, TypeOK
    <3> QED
      BY <3>2, <3>3 DEF EventsOf
  <2>3. HasCounter /\ FriendInv /\ TypeInv /\ [Next]_vars => FriendInv'
    BY FriendStep, TypeStep
  <2>4. FriendInv => TypeInv
    BY DEF FriendInv
  <2>5. FriendInv /\ [Next]_vars => FriendInv'
    BY <1>1, <2>3, <2>4
  <2> QED
    BY <2>1, <2>2, <2>5, PTL DEF Spec
<1>2. CASE ~HasCounter
  <2>1. FriendCheckSuffices
    BY <1>2 DEF FriendCheckSuffices
  <2> QED
    BY <2>1, PTL
<1> QED
  BY <1>1, <1>2

-----------------------------------------------------------------------------
\* The entries written and, as the last one, the vector being collected.
EntryAt(n) == IF n <= Len(t_out) THEN t_out[n] ELSE out_score

Slots == {p \in Nat \X Nat : /\ p[1] \in 1..Len(t_out) + 1
                             /\ p[2] \in 1..Len(EntryAt(p[1]))}

ScoreAt(p) == EntryAt(p[1])[p[2]]

\* The rows among the first n that carry a score.
ScoreRows(n) == {k \in 1..n : tree_out[k].cluster # -1}

\* The slots hold the scores of the first n rows, each once, and nothing else.
Holding(n) ==
  /\ \A p \in Slots : \E k \in ScoreRows(n) : ScoreAt(p) = tree_out[k]
  /\ \A k \in ScoreRows(n) : \E p \in Slots : ScoreAt(p) = tree_out[k]
  /\ \A p, q \in Slots : ScoreAt(p) = ScoreAt(q) => p = q

RowsDistinct ==
  \A j, k \in ScoreRows(Len(tree_out)) : tree_out[j] = tree_out[k] => j = k

ScoreInv ==
  /\ TypeInv
  /\ RowsDistinct
  /\ phase = "flatten" => \A k \in 1..Len(tree_out) : tree_out[k].event < i
  /\ phase \in {"flatten", "friend"} => t_out = <<>> /\ out_score = <<>>
  /\ phase = "unflatten" => i <= Len(tree_out) /\ Holding(i)
  /\ phase \in {"topup", "done"} => out_score = <<>> /\ Holding(Len(tree_out))

ScoreTypes ==
  /\ Len(t_out) \in Nat
  /\ out_score \in Seq(Row) /\ Len(out_score) \in Nat
  /\ \A n \in 1..Len(t_out) : t_out[n] \in Seq(Row) /\ Len(t_out[n]) \in Nat

LEMMA ScoreFacts ==
  ASSUME TypeInv
  PROVE  /\ ScoreTypes
         /\ tree_out \in Seq(Row) /\ Len(tree_out) \in Nat
         /\ i \in Nat
         /\ \A k \in 1..Len(tree_out) : tree_out[k].event \in Int
<1> DEFINE Scores == Seq(Row)
<1>1. t_out \in Seq(Scores)
  BY DEF TypeInv, TypeOK
<1>2. out_score \in Scores
  BY DEF TypeInv, TypeOK
<1>3. \A s \in Scores : Len(s) \in Nat
  OBVIOUS
<1> HIDE DEF Scores
<1>4. Len(t_out) \in Nat /\ \A n \in 1..Len(t_out) : t_out[n] \in Scores
  BY <1>1
<1>5. tree_out \in Seq(Row) /\ \A r \in Row : r.event \in Int
  BY FlatAssumption DEF TypeInv, TypeOK, Row, EventIndex
<1>6. \A k \in 1..Len(tree_out) : tree_out[k].event \in Int
  <2> TAKE k \in 1..Len(tree_out)
  <2>1. tree_out[k] \in Row
    BY <1>5
  <2> QED
    BY <1>5, <2>1
<1> QED
  BY <1>2, <1>3, <1>4, <1>5, <1>6 DEF Scores, TypeInv, TypeOK, ScoreTypes

\* Appending the vector being collected to the tree moves no score.
LEMMA NewEntrySlots ==
  ASSUME TypeInv, TypeInv', t_out' = Append(t_out, out_score)
  PROVE  LET new == {p \in Nat \X Nat : p[1] = Len(t_out) + 2 /\ p[2] \in 1..Len(out_score')} IN
         /\ Slots' = Slots \cup new
         /\ \A p \in Slots : ScoreAt(p)' = ScoreAt(p) /\ p \notin new
         /\ \A p \in new : ScoreAt(p)' = out_score'[p[2]]
<1> DEFINE Scores == Seq(Row)
<1>1. ScoreTypes /\ out_score' \in Seq(Row) /\ Len(out_score') \in Nat
  BY ScoreFacts DEF TypeInv, TypeOK
<1>2. t_out \in Seq(Scores) /\ out_score \in Scores
  BY DEF TypeInv, TypeOK
<1> HIDE DEF Scores
<1>3. /\ Len(t_out') = Len(t_out) + 1
      /\ t_out'[Len(t_out) + 1] = out_score
      /\ \A n \in 1..Len(t_out) : t_out'[n] = t_out[n]
  BY <1>2
<1>4. \A n \in 1..Len(t_out) + 1 : EntryAt(n)' = EntryAt(n)
  BY <1>1, <1>3 DEF EntryAt, ScoreTypes
<1>5. \A n : n = Len(t_out) + 2 => EntryAt(n)' = out_score'
  BY <1>1, <1>3 DEF EntryAt, ScoreTypes
<1>6. \A p \in Slots : ScoreAt(p)' = ScoreAt(p)
  BY <1>4 DEF Slots, ScoreAt
<1>7. \A p : p \in Slots' <=>
               \/ p \in Slots
               \/ p \in Nat \X Nat /\ p[1] = Len(t_out) + 2 /\ p[2] \in 1..Len(out_score')
  BY <1>1, <1>3, <1>4, <1>5 DEF Slots, ScoreTypes
<1>8. \A p \in Slots : p[1] # Len(t_out) + 2
  BY <1>1 DEF Slots, ScoreTypes
<1> QED
  BY <1>5, <1>6, <1>7, <1>8 DEF ScoreAt

\* One more score in the vector being collected.
LEMMA NewScoreSlots ==
  ASSUME TypeInv, TypeInv', t_out' = t_out,
         NEW row \in Row, out_score' = Append(out_score, row)
  PROVE  LET new == <<Len(t_out) + 1, Len(out_score) + 1>> IN
         /\ Slots' = Slots \cup {new}
         /\ \A p \in Slots : ScoreAt(p)' = ScoreAt(p) /\ p # new
         /\ \A p \in {new} : ScoreAt(p)' = row
<1> DEFINE new == <<Len(t_out) + 1, Len(out_score) + 1>>
<1>1. ScoreTypes /\ out_score' \in Seq(Row) /\ Len(out_score') \in Nat
  BY ScoreFacts DEF TypeInv, TypeOK
<1>2. /\ Len(out_score') = Len(out_score) + 1
      /\ out_score'[Len(out_score) + 1] = row
      /\ \A m \in 1..Len(out_score) : out_score'[m] = out_score[m]
  BY <1>1 DEF ScoreTypes
<1>3. \A n \in 1..Len(t_out) : EntryAt(n)' = EntryAt(n)
  BY DEF EntryAt
<1>4. \A n : n = Len(t_out) + 1 => EntryAt(n)' = out_score' /\ EntryAt(n) = out_score
  BY <1>1 DEF EntryAt, ScoreTypes
<1>5. \A p \in Slots : ScoreAt(p)' = ScoreAt(p) /\ p # new
  BY <1>1, <1>2, <1>3, <1>4 DEF Slots, ScoreAt, ScoreTypes
<1>6. \A p : p \in Slots' <=> p \in Slots \/ p = new
  <2>1. new \in Nat \X Nat
    BY <1>1 DEF ScoreTypes
  <2>2. \A p \in Nat \X Nat :
          p = new <=> p[1] = Len(t_out) + 1 /\ p[2] = Len(out_score) + 1
    OBVIOUS
  <2>3. \A p \in Nat \X Nat : p[1] \in 1..Len(t_out) =>
          (p \in Slots' <=> p \in Slots)
    BY <1>1, <1>3 DEF Slots, ScoreTypes
  <2>4. \A p \in Nat \X Nat : p[1] = Len(t_out) + 1 =>
          /\ p \in Slots' <=> p[2] \in 1..Len(out_score) + 1
          /\ p \in Slots <=> p[2] \in 1..Len(out_score)
    BY <1>1, <1>2, <1>4 DEF Slots, ScoreTypes
  <2>5. \A p : p \in Slots' \/ p \in Slots =>
          p \in Nat \X Nat /\ p[1] \in 1..Len(t_out) + 1
    BY DEF Slots
  <2> HIDE DEF new
  <2> QED
    BY <1>1, <2>1, <2>2, <2>3, <2>4, <2>5 DEF ScoreTypes
<1>7. \A p \in {new} : ScoreAt(p)' = row
  BY <1>2, <1>4 DEF ScoreAt
<1> QED
  BY <1>5, <1>6, <1>7

\* Without a score in the row, or with one in a slot of its own, the slots go
\* on holding what has been read.
LEMMA HoldingGrows ==
  ASSUME RowsDistinct, tree_out' = tree_out,
         Len(tree_out) \in Nat, NEW n \in 0..Len(tree_out) - 1, Holding(n),
         NEW new,
         Slots' = Slots \cup new,
         \A p \in Slots : ScoreAt(p)' = ScoreAt(p) /\ p \notin new,
         \A p, q \in new : p = q,
         \A p \in new : ScoreAt(p)' = tree_out[n + 1],
         new = {} <=> tree_out[n + 1].cluster = -1
  PROVE  Holding(n + 1)'
<1>1. ScoreRows(n + 1)' = ScoreRows(n) \cup (IF new = {} THEN {} ELSE {n + 1})
  BY DEF ScoreRows
<1>2. \A k \in ScoreRows(n) : k \in ScoreRows(Len(tree_out)) /\ k # n + 1
  BY DEF ScoreRows
<1>3. new # {} => n + 1 \in ScoreRows(Len(tree_out))
  BY DEF ScoreRows
<1>4. \A p \in Slots' : \E k \in ScoreRows(n + 1)' : ScoreAt(p)' = tree_out'[k]
  BY <1>1 DEF Holding
<1>5. \A k \in ScoreRows(n + 1)' : \E p \in Slots' : ScoreAt(p)' = tree_out'[k]
  BY <1>1 DEF Holding
<1>6. \A p \in Slots, q \in new : ScoreAt(p)' # ScoreAt(q)'
  BY <1>2, <1>3 DEF Holding, RowsDistinct
<1>7. \A p, q \in Slots' : ScoreAt(p)' = ScoreAt(q)' => p = q
  BY <1>6 DEF Holding
<1> QED
  BY <1>4, <1>5, <1>7 DEF Holding

\* The rows of one event are distinct, and later ones belong to later events.
LEMMA FlattenKeepsRows ==
  ASSUME ScoreInv, FlattenEvent
  PROVE  /\ RowsDistinct'
         /\ \A k \in 1..Len(tree_out') : tree_out'[k].event < i + 1
<1>1. /\ i \in EventIndex /\ i \in Nat /\ MaxCandidates \in Nat
      /\ events[i] \in Event /\ tree_out \in Seq(Row) /\ Len(tree_out) \in Nat
  BY FlatAssumption DEF FlattenEvent, ScoreInv, TypeInv, TypeOK, EventIndex
<1> DEFINE c == NumCandidates(events[i])
           rows == RowsOf(i, c)
<1>2. /\ rows \in Seq(Row) /\ Len(rows) \in Nat
      /\ \A k \in 1..Len(rows) :
           rows[k] = [event |-> i, cluster |-> IF c = 0 THEN -1 ELSE k - 1]
  BY <1>1, CandidatesType, RowsType
<1>3. tree_out' = tree_out \o rows
  BY DEF FlattenEvent
<1> HIDE DEF rows
<1>4. \A k \in 1..Len(rows) : /\ rows[k].event = i
                              /\ rows[k].cluster = IF c = 0 THEN -1 ELSE k - 1
  <2> SUFFICES ASSUME NEW k \in 1..Len(rows)
               PROVE  rows[k].event = i /\ rows[k].cluster = IF c = 0 THEN -1 ELSE k - 1
    OBVIOUS
  <2> DEFINE cluster == IF c = 0 THEN -1 ELSE k - 1
  <2>1. rows[k] = [event |-> i, cluster |-> cluster]
    BY <1>2
  <2> HIDE DEF cluster
  <2>2. rows[k].event = i /\ rows[k].cluster = cluster
    BY <2>1
  <2> QED
    BY <2>2 DEF cluster
<1>5. /\ Len(tree_out') = Len(tree_out) + Len(rows)
      /\ \A k \in 1..Len(tree_out) : tree_out'[k] = tree_out[k]
      /\ \A k \in Len(tree_out) + 1..Len(tree_out') : tree_out'[k] = rows[k - Len(tree_out)]
  <2>1. tree_out \in Seq(Row) /\ rows \in Seq(Row)
    BY <1>1, <1>2
  <2> QED
    BY <2>1, <1>3
<1>6. \A k \in 1..Len(tree_out) : tree_out[k].event < i /\ tree_out[k].event \in Int
  BY ScoreFacts DEF ScoreInv, FlattenEvent
<1>7. \A k \in Len(tree_out) + 1..Len(tree_out') :
        /\ tree_out'[k].event = i
        /\ tree_out'[k].cluster = IF c = 0 THEN -1 ELSE k - Len(tree_out) - 1
  <2> HIDE DEF c
  <2> SUFFICES ASSUME NEW k \in Len(tree_out) + 1..Len(tree_out')
               PROVE  /\ tree_out'[k].event = i
                      /\ tree_out'[k].cluster = IF c = 0 THEN -1 ELSE k - Len(tree_out) - 1
    OBVIOUS
  <2>1. k - Len(tree_out) \in 1..Len(rows)
    BY <1>1, <1>2, <1>5
  <2> QED
    BY <2>1, <1>4, <1>5
<1> HIDE DEF c
<1>8. \A k \in 1..Len(tree_out') : tree_out'[k].event < i + 1
  <2> TAKE k \in 1..Len(tree_out')
  <2>1. CASE k <= Len(tree_out)
    BY <2>1, <1>1, <1>5, <1>6
  <2>2. CASE k > Len(tree_out)
    BY <2>2, <1>1, <1>2, <1>5, <1>7
  <2> QED
    BY <2>1, <2>2, <1>1, <1>2, <1>5
<1>9. ASSUME NEW j \in ScoreRows(Len(tree_out))', NEW k \in ScoreRows(Len(tree_out))',
             tree_out'[j] = tree_out'[k]
      PROVE  j = k
  <2>1. /\ j \in 1..Len(tree_out') /\ tree_out'[j].cluster # -1
        /\ k \in 1..Len(tree_out') /\ tree_out'[k].cluster # -1
    BY DEF ScoreRows
  <2>2. CASE j <= Len(tree_out) /\ k <= Len(tree_out)
    <3>1. j \in 1..Len(tree_out) /\ k \in 1..Len(tree_out)
      BY <2>1, <2>2, <1>1, <1>2, <1>5
    <3>2. j \in ScoreRows(Len(tree_out)) /\ k \in ScoreRows(Len(tree_out))
      BY <3>1, <2>1, <1>5 DEF ScoreRows
    <3> QED
      BY <3>1, <3>2, <1>5, <1>9 DEF ScoreInv, RowsDistinct
  <2>3. CASE j > Len(tree_out) /\ k > Len(tree_out)
    <3>1. tree_out'[j].cluster = tree_out'[k].cluster
      BY <1>9
    <3>2. j \in Len(tree_out) + 1..Len(tree_out') /\ k \in Len(tree_out) + 1..Len(tree_out')
      BY <2>1, <2>3, <1>1, <1>2, <1>5
    <3>3. c # 0 /\ j - Len(tree_out) - 1 = k - Len(tree_out) - 1
      BY <3>1, <3>2, <2>1, <1>7
    <3> QED
      BY <3>2, <3>3, <1>1
  <2>4. ASSUME NEW l \in 1..Len(tree_out), NEW m \in Len(tree_out) + 1..Len(tree_out')
        PROVE  tree_out'[l] # tree_out'[m]
    BY <1>1, <1>5, <1>6, <1>7
  <2> QED
    BY <2>1, <2>2, <2>3, <2>4, <1>1, <1>2, <1>5, <1>9
<1> QED
  BY <1>8, <1>9 DEF RowsDistinct

\* A row is read: with a new entry or without, with a score or without.
LEMMA RowKeepsScores ==
  ASSUME ScoreInv, UnflattenRow, TypeInv'
  PROVE  i + 1 <= Len(tree_out) /\ Holding(i)'
<1> DEFINE row == tree_out[i + 1]
<1>1. /\ i \in 0..Len(tree_out) - 1 /\ Len(tree_out) \in Nat
      /\ row \in Row /\ ScoreTypes /\ TypeInv /\ RowsDistinct /\ Holding(i)
      /\ tree_out' = tree_out /\ i' = i + 1
  BY ScoreFacts DEF ScoreInv, UnflattenRow
<1>2. /\ out_score' = Collected(row)
      /\ StartsNewEvent(row) => t_out' = Append(t_out, out_score)
      /\ ~StartsNewEvent(row) => t_out' = t_out
  BY DEF UnflattenRow
<1> HIDE DEF row
<1> SUFFICES \E new : /\ Slots' = Slots \cup new
                      /\ \A p \in Slots : ScoreAt(p)' = ScoreAt(p) /\ p \notin new
                      /\ \A p, q \in new : p = q
                      /\ \A p \in new : ScoreAt(p)' = row
                      /\ new = {} <=> row.cluster = -1
  <2>1. PICK n \in 0..Len(tree_out) - 1 : n = i
    BY <1>1
  <2>2. Holding(n) /\ row = tree_out[n + 1]
    BY <1>1, <2>1 DEF row
  <2>3. Holding(n + 1)' => Holding(i)'
    BY <1>1, <2>1 DEF Holding
  <2> QED
    BY <1>1, <2>2, <2>3, HoldingGrows
<1>3. CASE StartsNewEvent(row)
  <2> DEFINE new == {p \in Nat \X Nat : p[1] = Len(t_out) + 2 /\ p[2] \in 1..Len(out_score')}
  <2>1. /\ Slots' = Slots \cup new
        /\ \A p \in Slots : ScoreAt(p)' = ScoreAt(p) /\ p \notin new
        /\ \A p \in new : ScoreAt(p)' = out_score'[p[2]]
    BY <1>1, <1>2, <1>3, NewEntrySlots
  <2>2. CASE row.cluster = -1
    <3>1. out_score' = <<>>
      BY <1>2, <1>3, <2>2 DEF Collected
    <3>2. new = {}
      BY <3>1
    <3> QED
      BY <2>1, <2>2, <3>2
  <2>3. CASE row.cluster # -1
    <3>1. out_score' = <<row>>
      BY <1>2, <1>3, <2>3 DEF Collected
    <3>2. Len(out_score') = 1 /\ out_score'[1] = row
      BY <3>1
    <3>3. <<Len(t_out) + 2, 1>> \in new
      BY <3>2, <1>1 DEF ScoreTypes
    <3>4. \A p \in new : p = <<Len(t_out) + 2, 1>> /\ p[2] = 1
      BY <3>2
    <3> HIDE DEF new
    <3> QED
      BY <2>1, <2>3, <3>2, <3>3, <3>4
  <2> QED
    BY <2>2, <2>3
<1>4. CASE ~StartsNewEvent(row)
  <2>1. CASE row.cluster = -1
    <3>1. out_score' = out_score /\ t_out' = t_out
      BY <1>2, <1>4, <2>1 DEF Collected
    <3>2. Slots' = Slots /\ \A p : ScoreAt(p)' = ScoreAt(p)
      BY <3>1 DEF Slots, ScoreAt, EntryAt
    <3> QED
      BY <2>1, <3>2
  <2>2. CASE row.cluster # -1
    <3>1. out_score' = Append(out_score, row) /\ t_out' = t_out
      BY <1>2, <1>4, <2>2 DEF Collected
    <3> DEFINE new == <<Len(t_out) + 1, Len(out_score) + 1>>
    <3>2. /\ Slots' = Slots \cup {new}
          /\ \A p \in Slots : ScoreAt(p)' = ScoreAt(p) /\ p # new
          /\ \A p \in {new} : ScoreAt(p)' = row
      BY <3>1, <1>1, NewScoreSlots
    <3> HIDE DEF new
    <3> WITNESS {new}
    <3> QED
      BY <2>2, <3>2
  <2> QED
    BY <2>1, <2>2
<1> QED
  BY <1>3, <1>4

\* Closing an entry leaves the scores where they are.
LEMMA CloseKeepsScores ==
  ASSUME ScoreInv, TypeInv', NEW n \in Nat, Holding(n), tree_out' = tree_out,
         t_out' = Append(t_out, out_score), out_score' = <<>>
  PROVE  Holding(n)'
<1> DEFINE new == {p \in Nat \X Nat : p[1] = Len(t_out) + 2 /\ p[2] \in 1..Len(out_score')}
<1>1. /\ Slots' = Slots \cup new
      /\ \A p \in Slots : ScoreAt(p)' = ScoreAt(p) /\ p \notin new
  BY NewEntrySlots DEF ScoreInv
<1>2. new = {}
  OBVIOUS
<1> HIDE DEF new
<1>3. ScoreRows(n)' = ScoreRows(n)
  BY DEF ScoreRows
<1> QED
  BY <1>1, <1>2, <1>3 DEF Holding

LEMMA ScoreStep == ScoreInv /\ TypeInv' /\ [Next]_vars => ScoreInv'
<1> SUFFICES ASSUME ScoreInv, TypeInv', [Next]_vars PROVE ScoreInv'
  OBVIOUS
<1>1. ASSUME UNCHANGED <<tree_out, out_score, t_out>>
      PROVE  /\ RowsDistinct' <=> RowsDistinct
             /\ \A n : Holding(n)' <=> Holding(n)
  <2>1. \A n : ScoreRows(n)' = ScoreRows(n)
    BY <1>1 DEF ScoreRows
  <2>2. Slots' = Slots /\ \A p : ScoreAt(p)' = ScoreAt(p)
    BY <1>1 DEF Slots, ScoreAt, EntryAt
  <2> QED
    BY <1>1, <2>1, <2>2 DEF RowsDistinct, Holding
<1>2. CASE Flatten
  <2> USE <1>2 DEF Flatten
  <2>1. CASE SkipEvent
    <3>1. \A k \in 1..Len(tree_out) : tree_out[k].event < i + 1
      <4>1. \A k \in 1..Len(tree_out) : tree_out[k].event < i /\ tree_out[k].event \in Int
        BY <2>1, ScoreFacts DEF SkipEvent, ScoreInv
      <4> QED
        BY <4>1, ScoreFacts DEF ScoreInv
    <3> QED
      BY <2>1, <3>1, <1>1 DEF SkipEvent, ScoreInv
  <2>2. CASE FlattenEvent
    BY <2>2, FlattenKeepsRows DEF FlattenEvent, ScoreInv
  <2>3. CASE EndFlatten
    BY <2>3, <1>1 DEF EndFlatten, ScoreInv
  <2>4. CASE FriendEvent
    BY <2>4, <1>1 DEF FriendEvent, ScoreInv
  <2>5. CASE EndFriend
    <3>1. t_out = <<>> /\ out_score = <<>>
      BY <2>5 DEF EndFriend, ScoreInv
    <3>2. Slots = {}
      BY <3>1 DEF Slots, EntryAt
    <3>3. Holding(0)
      BY <3>2 DEF Holding, ScoreRows
    <3> QED
      BY <2>5, <3>3, <1>1, ScoreFacts DEF EndFriend, ScoreInv
  <2> QED
    BY <2>1, <2>2, <2>3, <2>4, <2>5 DEF FlatNext
<1>3. CASE UnflattenRow
  <2>1. RowsDistinct'
    BY <1>3 DEF UnflattenRow, ScoreInv, RowsDistinct, ScoreRows
  <2> QED
    BY <1>3, <2>1, RowKeepsScores DEF UnflattenRow, ScoreInv
<1>4. CASE FillLast
  <2>1. RowsDistinct'
    BY <1>4 DEF FillLast, ScoreInv, RowsDistinct, ScoreRows
  <2>2. Holding(i)'
    <3>1. \A n \in Nat : Holding(n) => Holding(n)'
      BY <1>4, CloseKeepsScores DEF FillLast
    <3>2. Holding(i) /\ i' = i
      BY <1>4 DEF FillLast, ScoreInv
    <3> QED
      BY <3>1, <3>2, ScoreFacts DEF ScoreInv, Holding
  <2> QED
    BY <1>4, <2>1, <2>2 DEF FillLast, ScoreInv
<1>5. CASE TopUp
  <2>1. RowsDistinct'
    BY <1>5 DEF TopUp, flatvars, ScoreInv, RowsDistinct, ScoreRows
  <2>2. Holding(Len(tree_out))'
    <3>1. \A n \in Nat : Holding(n) => Holding(n)'
      BY <1>5, CloseKeepsScores DEF TopUp, flatvars, ScoreInv
    <3>2. Holding(Len(tree_out)) /\ tree_out' = tree_out
      BY <1>5 DEF TopUp, flatvars, ScoreInv
    <3> QED
      BY <3>1, <3>2, ScoreFacts DEF ScoreInv, Holding
  <2> QED
    BY <1>5, <2>1, <2>2 DEF TopUp, flatvars, ScoreInv
<1>6. CASE EndUnflatten
  BY <1>6, <1>1 DEF EndUnflatten, ScoreInv
<1>7. CASE UNCHANGED vars
  BY <1>7, <1>1 DEF vars, flatvars, ScoreInv
<1> QED
  BY NextCases, <1>2, <1>3, <1>4, <1>5, <1>6, <1>7

(* Misaligned or not, unflattening loses no score and writes none twice.       *)
THEOREM NoScoreIsLost == Spec => []NoScoreLost
<1>1. Init => ScoreInv
  BY TypeInit DEF Init, FlatInit, ScoreInv, RowsDistinct, ScoreRows
<1>2. ScoreInv => NoScoreLost
  <2> SUFFICES ASSUME ScoreInv, phase = "done",
                      NEW k \in DOMAIN tree_out, tree_out[k].cluster # -1
               PROVE  \E p \in Places : \A q \in Places :
                        t_out[q[1]][q[2]] = tree_out[k] <=> q = p
    BY DEF NoScoreLost
  <2>1. /\ ScoreTypes /\ tree_out \in Seq(Row)
        /\ out_score = <<>> /\ Holding(Len(tree_out))
    BY ScoreFacts DEF ScoreInv
  <2>2. k \in ScoreRows(Len(tree_out))
    BY <2>1 DEF ScoreRows
  <2>3. \A p : p \in Places <=> p \in Slots
    <3>1. DOMAIN t_out = 1..Len(t_out) /\ \A n \in 1..Len(t_out) : DOMAIN t_out[n] = 1..Len(t_out[n])
      BY <2>1 DEF ScoreInv, TypeInv, TypeOK, ScoreTypes
    <3> QED
      BY <2>1, <3>1 DEF Places, Slots, EntryAt, ScoreTypes
  <2>4. \A p \in Places : t_out[p[1]][p[2]] = ScoreAt(p)
    BY <2>1 DEF Places, ScoreAt, EntryAt, ScoreTypes
  <2> QED
    BY <2>1, <2>2, <2>3, <2>4 DEF Holding
<1>3. ScoreInv /\ [Next]_vars => ScoreInv'
  BY ScoreStep, TypeStep DEF ScoreInv
<1> QED
  BY <1>1, <1>2, <1>3, PTL DEF Spec
=============================================================================
