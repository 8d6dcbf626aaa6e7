----------------------------- MODULE RunWeights -----------------------------
(***************************************************************************)
(* bdt_file::calcPOT, as far as the run periods of the XML go: a simulated *)
(* sample has its own mixture of runs, and run_weight_string reweights it  *)
(* to the mixture of the data.                                             *)
(*                                                                         *)
(* Numbers are quotients; one with denominator 0 stands for the infinities *)
(* and NaN, which the code tells from the others only by isfinite.  The    *)
(* cuts of the periods are disjoint, as in the XMLs of the repository.     *)
(***************************************************************************)
EXTENDS Integers

CONSTANTS NPeriods,     \* run_names.size()
          Fractions,    \* [Periods -> 0 .. Unit], the run_fractions explored
          Unit,
          MaxEvents,    \* bound: events of one run period in the file
          Kinds         \* the samples explored

Periods == 1 .. NPeriods
Outside == 0            \* runs in none of them
Runs    == 0 .. NPeriods

\* combin += f[i], period by period.
Sums(f)  == LET combin[p \in 0 .. NPeriods] == IF p = 0 THEN 0 ELSE combin[p - 1] + f[p]
            IN combin
Total(f) == Sums(f)[NPeriods]

ASSUME FractionsAssumption ==
  \A fractions \in Fractions :
    fractions \in [Periods -> 0 .. Unit] /\ Total(fractions) = Unit
ASSUME BoundsAssumption == NPeriods \in Nat /\ Unit \in Nat \ {0} /\ MaxEvents \in Nat
ASSUME KindsAssumption  == Kinds \subseteq {"mc", "flat", "textgen", "onbeam", "offbeam"}

VARIABLES
  kind,                \* the tag, and setAsOnBeamData or setAsOffBeamData
  events,              \* entries that pass event_identifier, per run period
  run_fractions,
  run_fractions_file,
  run_weight,          \* run_weight_string, as the weight of a run period
  pc

weightvars == <<kind, events, run_fractions, run_fractions_file, run_weight>>

Quotient(a, b) == [num |-> a.num * b.den, den |-> a.den * b.num]
IsOne(a)       == a.den # 0 /\ a.num = a.den
IsFinite(a)    == a.den # 0
Whole(n)       == [num |-> n, den |-> 1]

InPeriods == Total([p \in Periods |-> events[p]])
Counted   == events[Outside] + InPeriods

WeightsInit ==
  /\ kind \in Kinds
  /\ events \in [Runs -> 0 .. MaxEvents]
  /\ run_fractions \in Fractions
  /\ run_fractions_file = [p \in Periods |-> Whole(0)]
  /\ run_weight = [r \in Runs |-> Whole(1)]
  /\ pc = "load"

\* What the first loop leaves: the share of the period in the file, and their sum.
InFile(p) == Quotient(Whole(events[p]), Whole(Counted))
combin    == Quotient(Whole(InPeriods), Whole(Counted))

\* Mutant of PeriodWeight: a file of one period is treated as any other.
PeriodWeightPlain(share, p) ==
  LET mval == Quotient([num |-> run_fractions[p], den |-> Unit], share)
  IN IF IsFinite(mval) THEN mval ELSE Whole(0)

PeriodWeight(share, p) ==
  LET mval == Quotient([num |-> run_fractions[p], den |-> Unit], share)
  IN CASE IsOne(share)                     -> Whole(1)
       [] ~IsOne(share) /\ IsFinite(mval)  -> mval
       [] ~IsOne(share) /\ ~IsFinite(mval) -> Whole(0)

\* "TextGen" and on-beam data end with a weight of one for every run, others
\* with no weight outside the periods.
CalcPOT ==
  /\ pc = "load"
  /\ run_fractions_file' = [p \in Periods |-> Quotient(InFile(p), combin)]
  /\ run_weight' =
       [r \in Runs |->
          CASE kind \in {"textgen", "onbeam"} -> Whole(1)
            [] kind \notin {"textgen", "onbeam"} /\ r = Outside -> Whole(0)
            [] kind \notin {"textgen", "onbeam"} /\ r # Outside ->
                 PeriodWeight(run_fractions_file'[r], r)]
  /\ pc' = "loaded"
  /\ UNCHANGED <<kind, events, run_fractions>>

-----------------------------------------------------------------------------
(* NormalisationKept: the weights move events between the run periods and
   never change how many there are, in a file that has every period and in one
   that has only one (its weight is not its fraction: "if(run_fractions_file[i]
   ==1)mval = 1.0").  A file that lacks one of several periods does lose its
   share. *)
HasAll == \A p \in Periods : run_fractions[p] > 0 => events[p] > 0
HasOne == \E p \in Periods : events[p] > 0 /\ \A q \in Periods \ {p} : events[q] = 0

\* The sum of events[r] * run_weight[r], over a common denominator.
Products(f)  == LET product[r \in Runs] == IF r = 0 THEN f[r] ELSE product[r - 1] * f[r]
                IN product
Product(f)   == Products(f)[NPeriods]
OtherDens(r) == Product([q \in Runs |-> IF q = r THEN 1 ELSE run_weight[q].den])
Part(r)      == events[r] * run_weight[r].num * OtherDens(r)
Weighted     == [num |-> Part(Outside) + Total([p \in Periods |-> Part(p)]),
                 den |-> Product([r \in Runs |-> run_weight[r].den])]

NormalisationKept ==
  (pc # "load" /\ kind \notin {"textgen", "onbeam"} /\ (HasAll \/ HasOne))
    => Weighted.num = InPeriods * Weighted.den
=============================================================================
