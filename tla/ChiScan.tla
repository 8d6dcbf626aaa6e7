------------------------------ MODULE ChiScan ------------------------------
(***************************************************************************)
(* Mode sig, types 8, 9 and 11: scan_chisquare_sys_iterative looks for the *)
(* BDT cuts with the largest chi-square, on a grid, under a covariance     *)
(* matrix made at the best cuts of the iteration before.                   *)
(*                                                                         *)
(* A cut is the index of its step on the axis of its BDT.  The chi-square  *)
(* is SBNfit's: any positive value where signal with a weight passes the   *)
(* cuts, and no positive one (0, or NaN) where none does.                  *)
(***************************************************************************)
EXTENDS RunWeights, FiniteSetsExt, Sequences

CONSTANTS Grids,       \* the grids explored: steps of each BDT
          NumIters,    \* num_iter: 1, or 5
          MaxChi,      \* bound: values of a chi-square that are told apart
          IntMax,      \* the largest int, and the largest size_t
          SizeTMax

\* total_pts after each BDT of a grid: the points of the axes so far.
total_pts(g) ==
  LET total[k \in 0 .. Len(g)] == IF k = 0 THEN 1 ELSE total[k - 1] * g[k]
  IN total

\* The number of points of a grid is an int.
ASSUME GridsAssumption ==
  \A g \in Grids : /\ g \in Seq(Nat \ {0}) /\ g # <<>>
                   /\ total_pts(g)[Len(g)] <= IntMax
ASSUME ScanBoundsAssumption ==
  /\ NumIters \subseteq Nat \ {0} /\ MaxChi \in Nat \ {0}
  /\ IntMax \in Nat /\ SizeTMax \in Nat /\ IntMax <= SizeTMax

VARIABLES
  grid,             \* the sizes of bdt_scan_pts
  reach,            \* step from which on no signal passes
  num_iter, iter,
  i,                \* grid points done
  chi_at,           \* chivec, by the cuts of the point
  best_point, best_chi, last_best_chi,
  cuts              \* last_best_cuts, in the end best_pt; <<>>: the external ones

scanvars == <<grid, reach, num_iter, iter, i, chi_at, best_point, best_chi, last_best_chi, cuts>>
vars == <<weightvars, pc, scanvars>>

Steps(b)   == 0 .. grid[b] - 1
GridPoints == {c \in [DOMAIN grid -> UNION {Steps(b) : b \in DOMAIN grid}] : \A b \in DOMAIN grid : c[b] \in Steps(b)}
max_pts    == total_pts(grid)[Len(grid)]

NoChis == [c \in {} |-> 0]

Init ==
  /\ WeightsInit
  /\ grid = <<>> /\ reach = 0
  /\ num_iter = 0 /\ iter = 0 /\ i = 0
  /\ chi_at = NoChis
  /\ best_point = -1 /\ best_chi = 0 /\ last_best_chi = -999
  /\ cuts = <<>>

-----------------------------------------------------------------------------
\* The conversions of global_index % size() and global_index /= size().
AsSizeT(n) == n % (SizeTMax + 1)
AsInt(u) == LET low == u % (2 * IntMax + 2)
            IN IF low <= IntMax THEN low ELSE low - (2 * IntMax + 2)

\* global_index after the last k axes have been taken off it.
Rest(global_index) ==
  LET rest[k \in 0 .. Len(grid)] ==
        IF k = 0 THEN global_index
        ELSE AsInt(AsSizeT(rest[k - 1]) \div grid[Len(grid) + 1 - k])
  IN rest

\* Mutant of GrabPoint: the index is not reduced on the first axis.
GrabPointUnreduced(pt) ==
  [b \in DOMAIN grid |->
     IF b = 1 THEN Rest(pt)[Len(grid) - 1] ELSE AsSizeT(Rest(pt)[Len(grid) - b]) % grid[b]]

\* grab_point: the digits of the index, the last BDT's the lowest.
GrabPoint(pt) == [b \in DOMAIN grid |-> AsSizeT(Rest(pt)[Len(grid) - b]) % grid[b]]

SignalPasses(c) ==
  /\ \E r \in Runs : events[r] > 0 /\ run_weight[r].num > 0
  /\ \A b \in DOMAIN c : c[b] < reach

-----------------------------------------------------------------------------
SetUp ==
  /\ pc = "loaded"
  /\ kind \in {"mc", "textgen"}
  /\ grid' \in Grids
  /\ reach' \in 0 .. Max(Range(grid'))
  /\ num_iter' \in NumIters
  /\ pc' = "iterate"
  /\ UNCHANGED <<weightvars, iter, i, chi_at, best_point, best_chi, last_best_chi, cuts>>

\* Mutant of StartScan: the largest chi-square so far is that of all iterations.
StartScanAbove ==
  /\ pc = "iterate"
  /\ i' = 0 /\ chi_at' = NoChis
  /\ best_point' = -1
  /\ pc' = "scan"
  /\ UNCHANGED <<weightvars, grid, reach, num_iter, iter, best_chi, last_best_chi, cuts>>

\* The matrix is made at cuts, and chisquare_grid_scan_sys_fixed starts.
StartScan ==
  /\ pc = "iterate"
  /\ i' = 0 /\ chi_at' = NoChis
  /\ best_point' = -1 /\ best_chi' = 0
  /\ pc' = "scan"
  /\ UNCHANGED <<weightvars, grid, reach, num_iter, iter, last_best_chi, cuts>>

ScanPoint ==
  /\ pc = "scan"
  /\ i < max_pts
  /\ \E current_chi \in IF SignalPasses(GrabPoint(i)) THEN 1 .. MaxChi ELSE {0} :
       /\ chi_at' = [c \in DOMAIN chi_at \cup {GrabPoint(i)} |->
                       IF c = GrabPoint(i) THEN current_chi ELSE chi_at[c]]
       /\ IF current_chi > best_chi
          THEN best_chi' = current_chi /\ best_point' = i
          ELSE UNCHANGED <<best_chi, best_point>>
  /\ i' = i + 1
  /\ UNCHANGED <<weightvars, pc, grid, reach, num_iter, iter, last_best_chi, cuts>>

\* Converged, or out of iterations: the cuts are the answer.  Else they make the
\* next matrix.
EndScan ==
  /\ pc = "scan"
  /\ i = max_pts
  /\ cuts' = GrabPoint(best_point)
  /\ iter' = iter + 1
  /\ IF best_chi = last_best_chi \/ iter + 1 = num_iter
     THEN pc' = "done" /\ UNCHANGED last_best_chi
     ELSE pc' = "iterate" /\ last_best_chi' = best_chi
  /\ UNCHANGED <<weightvars, grid, reach, num_iter, i, chi_at, best_point, best_chi>>

Next ==
  \/ CalcPOT /\ UNCHANGED scanvars
  \/ SetUp \/ StartScan \/ ScanPoint \/ EndScan

Spec == Init /\ [][Next]_vars

-----------------------------------------------------------------------------
(* BestCutsUsed: the cuts an iteration hands on, to the next matrix or to the
   caller, are always a point of the grid, also when no chi-square was above
   the start value and the index is still -1; and they are cuts with the
   largest chi-square of a scan that visited every point of the grid ("Return:
   cut position with the highest chi-square", bdt_sig.h). *)
BestCutsUsed ==
  [][cuts' # cuts \/ pc' = "done" =>
       /\ cuts' \in GridPoints
       /\ DOMAIN chi_at = GridPoints
       /\ \A c \in GridPoints : chi_at[c] <= chi_at[cuts']]_vars
=============================================================================
