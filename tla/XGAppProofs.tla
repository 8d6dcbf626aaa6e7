---------------------------- MODULE XGAppProofs ----------------------------
(* Proofs about applying a BDT, for any tree, any precut list and any length *)
(* of the libSVM file left by an earlier job.                                *)
EXTENDS XGApp, TLAPS

LEMMA NextCases ==
  ASSUME [Next]_vars
  PROVE  \/ OpenFile \/ ConvertEntry \/ Predict \/ ExitOnError
         \/ FillGap \/ UseScore \/ FillRest \/ UNCHANGED vars
BY DEF Next

\* TEntryList's cursor once k entries of the list have been passed.
CursorAt(k, value) ==
  /\ k < GetN => last_queried = k /\ value = precut_list[k + 1]
  /\ k >= GetN => ~HasNext /\ value = SizeMax

\* The first k rows of the tree's scores are those of the first k lines.
Spread(k) ==
  /\ \A j \in 1..k : precut_list[j] < Len(tree) /\ tree[precut_list[j] + 1] = dat[j]
  /\ \A e \in 0..Len(tree) - 1 :
       (\A j \in 1..k : precut_list[j] # e) => tree[e + 1] = NoScore

AppInv ==
  /\ TypeOK
  /\ IsEntryList(precut_list)
  /\ pc = "open" => num = 0 /\ tree = <<>>
  /\ pc = "convert" => /\ num <= GetN
                       /\ CursorAt(num, next_entry)
                       /\ opened => /\ Len(dat) = num
                                    /\ \A j \in 1..num : dat[j] = precut_list[j]
                       /\ tree = <<>>
  /\ pc \in {"spread", "written"} =>
       /\ num <= GetN
       /\ CursorAt(num, working_index)
       /\ opened => Len(dat) = GetN /\ \A j \in 1..GetN : dat[j] = precut_list[j]
       /\ out_len \in {0, Len(dat)}
       /\ num <= out_len
       /\ num < GetN /\ num < out_len => Len(tree) <= precut_list[num + 1]
       /\ num >= out_len => Len(tree) <= NEntries
       /\ Len(tree) < SizeMax
       /\ Spread(num)
  /\ pc = "written" => num >= out_len /\ Len(tree) = NEntries

LEMMA AppInit == Init => AppInv
<1> SUFFICES ASSUME Init PROVE AppInv
  OBVIOUS
<1> USE XGAppAssumption
<1>1. precut_list \in Seq(Entries) /\ dat \in Seq(Entries) /\ Len(precut_list) \in 0..NEntries
  <2>1. PICK n \in 0..NEntries : precut_list \in [1..n -> Entries]
    BY DEF Init
  <2>2. PICK m \in 0..NEntries : dat \in [1..m -> Entries]
    BY DEF Init
  <2> QED
    BY <2>1, <2>2
<1>2. dat \in Seq(0..SizeMax)
  BY <1>1 DEF Entries
<1>3. /\ tree = <<>> /\ opened = FALSE /\ pc = "open" /\ next_entry = 0 /\ num = 0
      /\ out_len = 0 /\ model_loads \in BOOLEAN
      /\ working_index = 0 /\ last_queried \in -1..GetN - 1 /\ IsEntryList(precut_list)
  BY DEF Init, GetN
<1>4. tree \in Seq(0..SizeMax \cup {NoScore})
  BY <1>3
<1>5. next_entry \in 0..SizeMax /\ working_index \in 0..SizeMax /\ num \in Nat /\ out_len \in Nat
      /\ opened \in BOOLEAN /\ pc \in {"open", "convert", "spread", "written", "exited"}
  <2>1. 0 \in 0..SizeMax /\ 0 \in Nat
    BY DEF XGAppAssumption
  <2> QED
    BY <1>3, <2>1, Zenon
<1>6. TypeOK
  BY <1>1, <1>2, <1>3, <1>4, <1>5, Zenon DEF TypeOK
<1> QED
  BY <1>3, <1>6 DEF AppInv

LEMMA ListFacts ==
  ASSUME AppInv, UNCHANGED precut_list
  PROVE  /\ GetN \in Nat /\ GetN' = GetN /\ SizeMax \in Nat /\ NEntries \in Nat
         /\ SizeMax > NEntries
         /\ \A j \in 1..GetN : precut_list[j] \in 0..NEntries - 1
         /\ last_queried \in -1..GetN - 1
BY XGAppAssumption DEF AppInv, TypeOK, GetN, Entries

\* GetEntry(0) puts the cursor on the first entry.
LEMMA FirstCursor ==
  ASSUME AppInv, last_queried' = FirstQueried, UNCHANGED precut_list, NEW v, v = AsSizeT(First)
  PROVE  /\ v \in 0..SizeMax
         /\ last_queried' \in -1..GetN - 1
         /\ 0 < GetN => last_queried' = 0 /\ v = precut_list[1]
         /\ 0 >= GetN => ~HasNext' /\ v = SizeMax
<1>1. /\ GetN \in Nat /\ GetN' = GetN /\ SizeMax \in Nat /\ NEntries \in Nat /\ SizeMax > NEntries
      /\ \A j \in 1..GetN : precut_list[j] \in 0..NEntries - 1
      /\ last_queried \in -1..GetN - 1
  BY ListFacts
<1>2. CASE GetN = 0
  BY <1>1, <1>2 DEF FirstQueried, First, AsSizeT, HasNext
<1>3. CASE GetN > 0
  <2>1. precut_list[1] \in 0..NEntries - 1
    BY <1>1, <1>3
  <2> QED
    BY <1>1, <1>3, <2>1 DEF FirstQueried, First, AsSizeT
<1> QED
  BY <1>1, <1>2, <1>3

\* Next moves it from the entry with index k to the one after.
LEMMA NextCursor ==
  ASSUME AppInv, last_queried' = NextQueried, UNCHANGED precut_list, NEW v, v = AsSizeT(NextValue),
         NEW k \in Nat, k < GetN, last_queried = k
  PROVE  /\ v \in 0..SizeMax
         /\ last_queried' \in -1..GetN - 1
         /\ k + 1 < GetN => last_queried' = k + 1 /\ v = precut_list[k + 2]
         /\ k + 1 >= GetN => ~HasNext' /\ v = SizeMax
<1>1. /\ GetN \in Nat /\ GetN' = GetN /\ SizeMax \in Nat /\ NEntries \in Nat /\ SizeMax > NEntries
      /\ \A j \in 1..GetN : precut_list[j] \in 0..NEntries - 1
  BY ListFacts
<1>2. CASE k + 1 < GetN
  <2>1. HasNext /\ NextValue = precut_list[k + 2] /\ NextQueried = k + 1
    BY <1>1, <1>2 DEF HasNext, NextValue, NextQueried
  <2>2. precut_list[k + 2] \in 0..NEntries - 1
    BY <1>1, <1>2
  <2> QED
    BY <1>1, <1>2, <2>1, <2>2 DEF AsSizeT
<1>3. CASE k + 1 >= GetN
  <2>1. ~HasNext /\ NextValue = -1 /\ NextQueried = k
    BY <1>1, <1>3 DEF HasNext, NextValue, NextQueried
  <2>2. ~HasNext'
    BY <1>1, <1>3, <2>1 DEF HasNext
  <2> QED
    BY <1>1, <1>3, <2>1, <2>2 DEF AsSizeT
<1> QED
  BY <1>1, <1>2, <1>3

LEMMA OpenStep == AppInv /\ OpenFile => AppInv'
<1> SUFFICES ASSUME AppInv, OpenFile PROVE AppInv'
  OBVIOUS
<1> USE XGAppAssumption DEF OpenFile
<1>1. /\ next_entry' \in 0..SizeMax
      /\ last_queried' \in -1..GetN - 1
      /\ 0 < GetN => last_queried' = 0 /\ next_entry' = precut_list[1]
      /\ 0 >= GetN => ~HasNext' /\ next_entry' = SizeMax
  BY FirstCursor
<1>2. GetN' = GetN /\ GetN \in Nat /\ num = 0
  BY DEF GetN, AppInv, TypeOK
<1>3. TypeOK'
  <2>1. dat' \in Seq(0..SizeMax)
    <3>1. <<>> \in Seq(0..SizeMax)
      OBVIOUS
    <3> QED
      BY <3>1 DEF AppInv, TypeOK
  <2> QED
    BY <1>1, <1>2, <2>1 DEF AppInv, TypeOK
<1>4. CursorAt(num, next_entry)'
  BY <1>1, <1>2 DEF CursorAt
<1> QED
  BY <1>1, <1>2, <1>3, <1>4 DEF AppInv, IsEntryList

LEMMA ConvertStep == AppInv /\ ConvertEntry => AppInv'
<1> SUFFICES ASSUME AppInv, ConvertEntry PROVE AppInv'
  OBVIOUS
<1> USE XGAppAssumption DEF ConvertEntry
<1>1. GetN' = GetN /\ GetN \in Nat /\ num \in Nat /\ num < GetN /\ pc = "convert" /\ pc' = pc
  BY DEF GetN, AppInv, TypeOK
<1>2. last_queried = num /\ next_entry = precut_list[num + 1]
  BY <1>1 DEF AppInv, CursorAt
<1>3. /\ next_entry' \in 0..SizeMax
      /\ last_queried' \in -1..GetN - 1
      /\ num + 1 < GetN => last_queried' = num + 1 /\ next_entry' = precut_list[num + 2]
      /\ num + 1 >= GetN => ~HasNext' /\ next_entry' = SizeMax
  BY <1>1, <1>2, NextCursor
<1>4. TypeOK'
  <2>1. dat' \in Seq(0..SizeMax)
    <3>1. dat \in Seq(0..SizeMax) /\ next_entry \in 0..SizeMax /\ opened \in BOOLEAN
      BY DEF AppInv, TypeOK
    <3>2. Append(dat, next_entry) \in Seq(0..SizeMax)
      BY <3>1
    <3> QED
      BY <3>1, <3>2
  <2> QED
    BY <1>1, <1>3, <2>1 DEF AppInv, TypeOK
<1>5. CursorAt(num, next_entry)'
  BY <1>1, <1>3 DEF CursorAt
<1>6. opened' => Len(dat') = num' /\ \A j \in 1..num' : dat'[j] = precut_list'[j]
  BY <1>1, <1>2 DEF AppInv, TypeOK
<1> QED
  BY <1>1, <1>3, <1>4, <1>5, <1>6 DEF AppInv, IsEntryList

LEMMA PredictStep == AppInv /\ Predict => AppInv'
<1> SUFFICES ASSUME AppInv, Predict PROVE AppInv'
  OBVIOUS
<1> USE XGAppAssumption DEF Predict
<1>1. /\ GetN' = GetN /\ GetN \in Nat /\ num = GetN /\ num' = 0
      /\ pc = "convert" /\ pc' = "spread" /\ opened \in BOOLEAN
      /\ tree = <<>> /\ UNCHANGED <<precut_list, dat, opened, tree>>
      /\ Len(dat) \in Nat /\ SizeMax \in Nat /\ SizeMax > 1 /\ NEntries \in Nat
      /\ out_len' \in {Len(dat), 0} /\ UNCHANGED model_loads
  BY DEF GetN, AppInv, TypeOK
<1>2. opened => Len(dat) = GetN /\ \A j \in 1..GetN : dat[j] = precut_list[j]
  BY <1>1 DEF AppInv
<1>3. /\ working_index' \in 0..SizeMax
      /\ last_queried' \in -1..GetN - 1
      /\ 0 < GetN => last_queried' = 0 /\ working_index' = precut_list[1]
      /\ 0 >= GetN => ~HasNext' /\ working_index' = SizeMax
  BY FirstCursor
<1>8. out_len' \in {0, Len(dat')} /\ out_len' \in Nat
  BY <1>1
<1>4. TypeOK'
  BY <1>1, <1>3, <1>8 DEF AppInv, TypeOK
<1>5. CursorAt(num, working_index)'
  BY <1>1, <1>3 DEF CursorAt
<1>6. Spread(num)'
  BY <1>1 DEF Spread
<1>7. num' < GetN' => Len(tree') <= precut_list'[num' + 1]
  <2>1. 0 < GetN => precut_list[1] \in Entries
    BY DEF AppInv, TypeOK, GetN
  <2> QED
    BY <1>1, <2>1 DEF Entries
<1> QED
  BY <1>1, <1>2, <1>3, <1>4, <1>5, <1>6, <1>7, <1>8 DEF AppInv, IsEntryList

LEMMA ExitStep == AppInv /\ ExitOnError => AppInv'
<1> SUFFICES ASSUME AppInv, ExitOnError PROVE AppInv'
  OBVIOUS
<1>1. /\ pc' = "exited" /\ UNCHANGED precut_list
      /\ UNCHANGED <<last_queried, model_loads, dat, opened, next_entry, num, out_len>>
      /\ UNCHANGED <<working_index, tree>>
  BY DEF ExitOnError
<1>2. TypeOK'
  BY <1>1 DEF AppInv, TypeOK, GetN
<1> QED
  BY <1>1, <1>2 DEF AppInv, IsEntryList

\* What the invariant says while the scores are spread.
LEMMA SpreadFacts ==
  ASSUME AppInv, pc = "spread", UNCHANGED precut_list
  PROVE  /\ num \in Nat /\ num <= GetN /\ num <= out_len /\ Len(dat) \in Nat
         /\ out_len \in {0, Len(dat)} /\ out_len \in Nat
         /\ CursorAt(num, working_index) /\ Spread(num)
         /\ num < GetN /\ num < out_len => Len(tree) <= precut_list[num + 1]
         /\ num >= out_len => Len(tree) <= NEntries
         /\ Len(tree) < SizeMax /\ Len(tree) \in Nat
         /\ tree \in Seq(0..SizeMax \cup {NoScore})
         /\ dat \in Seq(0..SizeMax)
BY DEF AppInv, TypeOK

\* A row of -999 goes to an entry none of the first num precut entries is.
LEMMA GapKeepsSpread ==
  ASSUME AppInv, pc = "spread", UNCHANGED <<precut_list, dat>>, tree' = Append(tree, NoScore)
  PROVE  /\ tree' \in Seq(0..SizeMax \cup {NoScore})
         /\ Len(tree') = Len(tree) + 1
         /\ \A j \in 1..num : precut_list'[j] < Len(tree') /\ tree'[precut_list'[j] + 1] = dat'[j]
         /\ \A e \in 0..Len(tree') - 1 :
              (\A j \in 1..num : precut_list'[j] # e) => tree'[e + 1] = NoScore
<1> DEFINE Score == 0..SizeMax \cup {NoScore}
<1>1. NoScore \in Score
  OBVIOUS
<1>2. tree \in Seq(Score) /\ Len(tree) \in Nat /\ num \in Nat /\ num <= GetN /\ Spread(num)
  BY SpreadFacts
<1>3. \A j \in 1..GetN : precut_list[j] \in 0..NEntries - 1
  BY ListFacts
<1>4. GetN \in Nat /\ NEntries \in Nat
  BY ListFacts
<1> HIDE DEF Score
<1>5. /\ tree' \in Seq(Score) /\ Len(tree') = Len(tree) + 1
      /\ \A k \in 1..Len(tree) : tree'[k] = tree[k]
      /\ tree'[Len(tree) + 1] = NoScore
  BY <1>1, <1>2
<1>6. ASSUME NEW j \in 1..num
      PROVE  precut_list'[j] < Len(tree') /\ tree'[precut_list'[j] + 1] = dat'[j]
  <2>1. precut_list[j] < Len(tree) /\ tree[precut_list[j] + 1] = dat[j]
    BY <1>2 DEF Spread
  <2>2. precut_list[j] \in 0..NEntries - 1
    BY <1>2, <1>3, <1>4
  <2> QED
    BY <1>2, <1>4, <1>5, <2>1, <2>2
<1>7. ASSUME NEW e \in 0..Len(tree') - 1, \A j \in 1..num : precut_list'[j] # e
      PROVE  tree'[e + 1] = NoScore
  <2>1. CASE e = Len(tree)
    BY <1>5, <2>1
  <2>2. CASE e < Len(tree)
    <3>1. e \in 0..Len(tree) - 1 /\ e + 1 \in 1..Len(tree)
      BY <1>2, <1>5, <2>2
    <3>2. tree[e + 1] = NoScore
      BY <1>2, <1>7, <3>1 DEF Spread
    <3> QED
      BY <1>5, <3>1, <3>2
  <2> QED
    BY <1>2, <1>5, <2>1, <2>2
<1> QED
  BY <1>5, <1>6, <1>7 DEF Score

LEMMA GapStep == AppInv /\ FillGap => AppInv'
<1> SUFFICES ASSUME AppInv, FillGap PROVE AppInv'
  OBVIOUS
<1>1. /\ pc = "spread" /\ pc' = pc /\ num < out_len /\ Len(tree) < working_index
      /\ Len(tree) + 1 < SizeMax /\ tree' = Append(tree, NoScore)
      /\ UNCHANGED <<precut_list, last_queried, model_loads, dat, opened>>
      /\ UNCHANGED <<next_entry, num, out_len, working_index>>
  BY DEF FillGap, have_filled
<1>2. GetN' = GetN /\ GetN \in Nat /\ HasNext' = HasNext
  BY <1>1, ListFacts DEF HasNext, GetN
<1>3. /\ tree' \in Seq(0..SizeMax \cup {NoScore}) /\ Len(tree') = Len(tree) + 1 /\ Spread(num)'
  BY <1>1, GapKeepsSpread DEF Spread
<1>4. /\ num \in Nat /\ num <= GetN /\ CursorAt(num, working_index) /\ Len(tree) \in Nat
      /\ Len(dat) \in Nat /\ out_len \in {0, Len(dat)} /\ num <= out_len
  BY <1>1, SpreadFacts
<1>5. num < GetN => Len(tree') <= precut_list[num + 1]
  <2>1. num < GetN => working_index = precut_list[num + 1] /\ working_index \in Nat
    BY <1>4, ListFacts, <1>1 DEF CursorAt
  <2> QED
    BY <1>1, <1>3, <1>4, <2>1
<1>6. CursorAt(num, working_index)'
  BY <1>1, <1>2, <1>4 DEF CursorAt
<1>7. TypeOK'
  BY <1>1, <1>2, <1>3 DEF AppInv, TypeOK
<1>8. Len(tree') < SizeMax
  BY <1>1, <1>3
<1> QED
  BY <1>1, <1>2, <1>3, <1>4, <1>5, <1>6, <1>7, <1>8 DEF AppInv, IsEntryList

LEMMA RestStep == AppInv /\ FillRest => AppInv'
<1> SUFFICES ASSUME AppInv, FillRest PROVE AppInv'
  OBVIOUS
<1>1. /\ pc = "spread" /\ num >= out_len
      /\ UNCHANGED <<precut_list, last_queried, model_loads, dat, opened>>
      /\ UNCHANGED <<next_entry, num, out_len, working_index>>
  BY DEF FillRest
<1>2. GetN' = GetN /\ GetN \in Nat /\ HasNext' = HasNext /\ NEntries \in Nat /\ SizeMax \in Nat
      /\ SizeMax > NEntries
  BY <1>1, ListFacts DEF HasNext, GetN
<1>3. /\ num \in Nat /\ num <= GetN /\ num <= out_len /\ out_len \in {0, Len(dat)} /\ CursorAt(num, working_index)
      /\ Spread(num) /\ Len(tree) \in Nat /\ Len(dat) \in Nat /\ Len(tree) <= NEntries
  BY <1>1, SpreadFacts
<1>4. CursorAt(num, working_index)'
  BY <1>1, <1>2, <1>3 DEF CursorAt
<1>5. CASE Len(tree) < NEntries
  <2>1. tree' = Append(tree, NoScore) /\ pc' = pc
    BY <1>5 DEF FillRest, have_filled
  <2>2. /\ tree' \in Seq(0..SizeMax \cup {NoScore}) /\ Len(tree') = Len(tree) + 1 /\ Spread(num)'
    BY <1>1, <2>1, GapKeepsSpread DEF Spread
  <2>3. TypeOK'
    BY <1>1, <1>2, <2>1, <2>2 DEF AppInv, TypeOK
  <2>4. Len(tree') <= NEntries /\ Len(tree') < SizeMax
    BY <1>2, <1>3, <1>5, <2>2
  <2> QED
    BY <1>1, <1>2, <1>3, <1>4, <2>1, <2>2, <2>3, <2>4 DEF AppInv, IsEntryList
<1>6. CASE ~(Len(tree) < NEntries)
  <2>1. tree' = tree /\ pc' = "written"
    BY <1>6 DEF FillRest, have_filled
  <2>2. TypeOK'
    BY <1>1, <1>2, <2>1 DEF AppInv, TypeOK
  <2>3. Spread(num)'
    BY <1>1, <1>3, <2>1 DEF Spread
  <2>4. Len(tree) = NEntries
    BY <1>2, <1>3, <1>6
  <2> QED
    BY <1>1, <1>2, <1>3, <1>4, <2>1, <2>2, <2>3, <2>4 DEF AppInv, IsEntryList
<1> QED
  BY <1>5, <1>6

\* A score is used only at the entry its line was written for.
LEMMA UseIsDue ==
  ASSUME AppInv, UseScore
  PROVE  /\ have_filled = working_index
         /\ num \in Nat /\ num < GetN /\ last_queried = num
         /\ working_index = precut_list[num + 1]
<1>1. /\ pc = "spread" /\ num < out_len /\ Len(tree) >= working_index
      /\ UNCHANGED precut_list
  BY DEF UseScore, have_filled
<1>2. /\ num \in Nat /\ num <= GetN /\ CursorAt(num, working_index) /\ Len(tree) < SizeMax
      /\ Len(tree) \in Nat /\ num < GetN => Len(tree) <= precut_list[num + 1]
  BY <1>1, SpreadFacts
<1>3. GetN \in Nat /\ SizeMax \in Nat /\ \A j \in 1..GetN : precut_list[j] \in 0..NEntries - 1
  BY <1>1, ListFacts
<1>4. num < GetN
  <2>1. CASE num >= GetN
    BY <1>1, <1>2, <1>3, <2>1 DEF CursorAt
  <2> QED
    BY <1>2, <1>3, <2>1
<1>5. last_queried = num /\ working_index = precut_list[num + 1]
  BY <1>2, <1>4 DEF CursorAt
<1>6. working_index \in Nat
  BY <1>2, <1>3, <1>4, <1>5
<1> QED
  BY <1>1, <1>2, <1>4, <1>5, <1>6 DEF have_filled

LEMMA ElementOfSeq ==
  ASSUME NEW S, NEW q \in Seq(S) PROVE \A k \in 1..Len(q) : q[k] \in S
OBVIOUS

LEMMA UseStep == AppInv /\ UseScore => AppInv'
<1> SUFFICES ASSUME AppInv, UseScore PROVE AppInv'
  OBVIOUS
<1> DEFINE Score == 0..SizeMax \cup {NoScore}
<1>1. /\ num \in Nat /\ num < GetN /\ last_queried = num /\ Len(tree) = working_index
      /\ working_index = precut_list[num + 1]
  BY UseIsDue DEF have_filled
<1>2. /\ pc = "spread" /\ pc' = pc /\ num < out_len /\ num' = num + 1
      /\ tree' = Append(tree, dat[num + 1])
      /\ working_index' = AsSizeT(NextValue) /\ last_queried' = NextQueried
      /\ UNCHANGED <<precut_list, model_loads, dat, opened, next_entry, out_len>>
  BY <1>1 DEF UseScore, have_filled
<1>3. /\ GetN \in Nat /\ GetN' = GetN /\ SizeMax \in Nat /\ NEntries \in Nat /\ SizeMax > NEntries + 1
      /\ \A j \in 1..GetN : precut_list[j] \in 0..NEntries - 1
  BY <1>2, ListFacts, XGAppAssumption
<1>4. /\ num < Len(dat) /\ Len(dat) \in Nat /\ out_len = Len(dat) /\ Spread(num) /\ tree \in Seq(Score)
      /\ dat \in Seq(0..SizeMax) /\ Len(tree) \in Nat
  BY <1>1, <1>2, SpreadFacts
<1>5. /\ working_index' \in 0..SizeMax
      /\ last_queried' \in -1..GetN - 1
      /\ num + 1 < GetN => last_queried' = num + 1 /\ working_index' = precut_list[num + 2]
      /\ num + 1 >= GetN => ~HasNext' /\ working_index' = SizeMax
  BY <1>1, <1>2, NextCursor
<1>6. dat[num + 1] \in Score
  <2>1. num + 1 \in 1..Len(dat)
    BY <1>1, <1>2, <1>4
  <2>2. \A k \in 1..Len(dat) : dat[k] \in 0..SizeMax
    BY <1>4, ElementOfSeq
  <2>3. dat[num + 1] \in 0..SizeMax
    BY <2>1, <2>2
  <2> QED
    BY <2>3
<1>7. \A j, k \in 1..GetN : j < k => precut_list[j] < precut_list[k]
  BY DEF AppInv, TypeOK, IsEntryList, GetN
<1> HIDE DEF Score
<1>8. /\ tree' \in Seq(Score) /\ Len(tree') = Len(tree) + 1
      /\ \A k \in 1..Len(tree) : tree'[k] = tree[k]
      /\ tree'[Len(tree) + 1] = dat[num + 1]
  BY <1>2, <1>4, <1>6
<1>9. TypeOK'
  BY <1>1, <1>2, <1>3, <1>5, <1>8 DEF AppInv, TypeOK, Score
<1>10. CursorAt(num, working_index)'
  BY <1>1, <1>2, <1>3, <1>5 DEF CursorAt
<1>11. Len(tree') <= NEntries /\ Len(tree') < SizeMax
  <2>1. precut_list[num + 1] \in 0..NEntries - 1
    BY <1>1, <1>3
  <2> QED
    BY <1>1, <1>3, <1>8, <2>1
<1>12. num' < GetN => Len(tree') <= precut_list[num' + 1]
  <2> SUFFICES ASSUME num + 1 < GetN PROVE Len(tree') <= precut_list[num + 2]
    BY <1>2, <1>1
  <2>1. precut_list[num + 1] < precut_list[num + 2]
    BY <1>1, <1>3, <1>7
  <2>2. precut_list[num + 1] \in 0..NEntries - 1 /\ precut_list[num + 2] \in 0..NEntries - 1
    BY <1>1, <1>3
  <2> QED
    BY <1>1, <1>3, <1>8, <2>1, <2>2
<1>13. Spread(num)'
  <2>1. ASSUME NEW j \in 1..num + 1
        PROVE  precut_list[j] < Len(tree') /\ tree'[precut_list[j] + 1] = dat[j]
    <3>1. CASE j = num + 1
      BY <1>1, <1>3, <1>8, <3>1
    <3>2. CASE j \in 1..num
      <4>1. precut_list[j] < Len(tree) /\ tree[precut_list[j] + 1] = dat[j]
        BY <1>4, <3>2 DEF Spread
      <4>2. precut_list[j] \in 0..NEntries - 1
        BY <1>1, <1>3, <3>2
      <4>3. precut_list[j] + 1 \in 1..Len(tree)
        BY <1>4, <4>1, <4>2
      <4> QED
        BY <1>4, <1>8, <4>1, <4>2, <4>3
    <3> QED
      BY <1>1, <3>1, <3>2
  <2>2. ASSUME NEW e \in 0..Len(tree') - 1, \A j \in 1..num + 1 : precut_list[j] # e
        PROVE  tree'[e + 1] = NoScore
    <3>1. e # Len(tree)
      BY <1>1, <2>2
    <3>2. e \in 0..Len(tree) - 1 /\ e + 1 \in 1..Len(tree)
      BY <1>4, <1>8, <3>1
    <3>3. \A j \in 1..num : precut_list[j] # e
      BY <1>1, <2>2
    <3>4. tree[e + 1] = NoScore
      BY <1>4, <3>2, <3>3 DEF Spread
    <3> QED
      BY <1>8, <3>2, <3>4
  <2> QED
    BY <1>2, <2>1, <2>2 DEF Spread
<1>14. num' <= GetN /\ num' <= out_len
  BY <1>1, <1>2, <1>3, <1>4
<1> QED
  BY <1>2, <1>3, <1>4, <1>9, <1>10, <1>11, <1>12, <1>13, <1>14 DEF AppInv, IsEntryList

LEMMA AppStep == AppInv /\ [Next]_vars => AppInv'
<1> SUFFICES ASSUME AppInv, [Next]_vars PROVE AppInv'
  OBVIOUS
<1>1. CASE UNCHANGED vars
  BY <1>1 DEF vars, AppInv, TypeOK, IsEntryList, CursorAt, Spread, GetN, HasNext
<1> QED
  BY <1>1, NextCases, OpenStep, ConvertStep, PredictStep, ExitStep, GapStep, UseStep, RestStep

(* Application keeps its types. *)
THEOREM TypeCorrect == Spec => []TypeOK
<1>1. AppInv => TypeOK
  BY DEF AppInv
<1> QED
  BY <1>1, AppInit, AppStep, PTL DEF Spec

(* Every entry of the event tree gets the score computed for it, or -999 when *)
(* the precuts reject it, whatever the precut list is; -999 throughout when   *)
(* XGBoost returned no score.                                                 *)
THEOREM ScoresReachTheirEntries == Spec => []EveryEntryItsScore
<1>1. ASSUME AppInv PROVE EveryEntryItsScore
  <2> SUFFICES ASSUME pc = "written", opened
               PROVE  /\ Len(tree) = NEntries
                      /\ \A e \in Entries : tree[e + 1] = IF PassesPrecuts(e) /\ Predicted THEN e ELSE NoScore
    BY DEF EveryEntryItsScore
  <2>1. /\ num \in Nat /\ num = out_len /\ Len(tree) = NEntries /\ Spread(num)
        /\ out_len \in {0, Len(dat)} /\ Len(dat) = GetN /\ GetN \in Nat
        /\ \A j \in 1..GetN : dat[j] = precut_list[j]
        /\ DOMAIN precut_list = 1..GetN
    BY <1>1 DEF AppInv, TypeOK, GetN
  <2>2. ASSUME NEW e \in Entries
        PROVE  tree[e + 1] = IF PassesPrecuts(e) /\ Predicted THEN e ELSE NoScore
    <3>1. CASE PassesPrecuts(e) /\ Predicted
      <4>1. PICK j \in 1..GetN : precut_list[j] = e
        BY <2>1, <3>1 DEF PassesPrecuts
      <4>2. num = GetN
        BY <2>1, <3>1 DEF Predicted
      <4> QED
        BY <2>1, <3>1, <4>1, <4>2 DEF Spread
    <3>2. CASE ~PassesPrecuts(e)
      <4>1. \A j \in 1..num : precut_list[j] # e
        BY <2>1, <3>2 DEF PassesPrecuts
      <4> QED
        BY <2>1, <3>2, <4>1 DEF Spread, Entries
    <3>3. CASE ~Predicted
      <4>1. num = 0
        BY <2>1, <3>3 DEF Predicted
      <4> QED
        BY <2>1, <3>3, <4>1 DEF Spread, Entries
    <3> QED
      BY <3>1, <3>2, <3>3
  <2> QED
    BY <2>1, <2>2
<1> QED
  BY <1>1, AppInit, AppStep, PTL DEF Spec

(* The "AGHR, something went wrong" branch is dead code.                      *)
THEOREM AghrUnreachable == Spec => []NeverAghr
<1>1. ASSUME AppInv PROVE NeverAghr
  <2> SUFFICES ASSUME pc = "spread", num < out_len PROVE Len(tree) <= working_index
    BY DEF NeverAghr, have_filled
  <2>1. /\ num \in Nat /\ num <= GetN /\ CursorAt(num, working_index) /\ Len(tree) < SizeMax
        /\ Len(tree) \in Nat /\ num < GetN => Len(tree) <= precut_list[num + 1]
    BY <1>1 DEF AppInv, TypeOK
  <2>2. GetN \in Nat /\ SizeMax \in Nat
    BY <1>1, XGAppAssumption DEF AppInv, TypeOK, GetN
  <2> QED
    BY <2>1, <2>2 DEF CursorAt
<1> QED
  BY <1>1, AppInit, AppStep, PTL DEF Spec

(* A written score tree has the entry count of the event tree even when the   *)
(* scores belong to another list.                                             *)
THEOREM WrittenTreeAlwaysFits == Spec => []WrittenTreeFits
<1>1. AppInv => WrittenTreeFits
  BY DEF AppInv, WrittenTreeFits
<1> QED
  BY <1>1, AppInit, AppStep, PTL DEF Spec
=============================================================================
