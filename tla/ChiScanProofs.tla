---------------------------- MODULE ChiScanProofs ----------------------------
(* Proofs about the chi-square scan and the run weights of its samples: any  *)
(* number of BDTs and of steps on their axes.                                *)
EXTENDS ChiScan, FiniteSetTheorems, TLAPS

-----------------------------------------------------------------------------
(* Induction.  The provers take no induction theorem with an operator for a  *)
(* parameter, but finite sets are well founded, and an induction can be about *)
(* the set of the numbers it has reached.                                    *)

LEMMA MinimalSet ==
  ASSUME NEW S, IsFiniteSet(S), NEW F \in SUBSET SUBSET S, F # {}
  PROVE  \E m \in F : \A k \in F : k \subseteq m => k = m
<1>1. IsWellFoundedOn(StrictSubsetOrdering(S), FiniteSubsetsOf(S))
  BY FS_StrictSubsetOrderingWellFounded
<1>2. FiniteSubsetsOf(S) = SUBSET S
  BY FS_FiniteSubsetsOfFinite
<1>3. PICK m \in F : \A k \in F : ~(<<k, m>> \in StrictSubsetOrdering(S))
  BY <1>1, <1>2, WFMin, Zenon
<1>4. ASSUME NEW k \in F, k \subseteq m PROVE k = m
  BY <1>3, <1>4 DEF StrictSubsetOrdering
<1> QED
  BY <1>4

\* The least element of a set of numbers up to n.
LEMMA LeastUpTo ==
  ASSUME NEW n \in Nat, NEW T \in SUBSET (0 .. n), T # {}
  PROVE  \E m \in T : \A k \in T : m <= k
<1> DEFINE S == 0 .. n
           F == {0 .. p : p \in T}
<1>1. IsFiniteSet(S)
  BY FS_Interval
<1>2. ASSUME NEW p \in T PROVE 0 .. p \in SUBSET S
  OBVIOUS
<1>3. F \in SUBSET SUBSET S
  BY <1>2, Zenon
<1>4. F # {}
  BY Zenon
<1>5. PICK s \in F : \A k \in F : k \subseteq s => k = s
  <2> HIDE DEF F, S
  <2> QED
    BY <1>1, <1>3, <1>4, MinimalSet
<1>6. PICK m \in T : s = 0 .. m
  BY <1>5
<1>7. ASSUME NEW k \in T PROVE m <= k
  <2>1. CASE k < m
    <3>1. 0 .. k \in F /\ 0 .. k \subseteq s
      BY <2>1, <1>6
    <3>2. 0 .. k = s
      BY <3>1, <1>5
    <3> QED
      BY <3>2, <1>6, <2>1
  <2> QED
    BY <2>1
<1> QED
  BY <1>7

\* Counting up to n.
LEMMA UpTo ==
  ASSUME NEW n \in Nat, NEW T, 0 \in T,
         \A k \in 0 .. n : k \in T /\ k < n => k + 1 \in T
  PROVE  \A k \in 0 .. n : k \in T
<1> SUFFICES ASSUME NEW b \in 0 .. n, b \notin T PROVE FALSE
  OBVIOUS
<1> DEFINE Missing == {k \in 0 .. n : k \notin T}
<1>1. Missing \in SUBSET (0 .. n) /\ Missing # {}
  OBVIOUS
<1>2. PICK m \in Missing : \A k \in Missing : m <= k
  <2> HIDE DEF Missing
  <2> QED
    BY <1>1, LeastUpTo
<1>3. m \in 0 .. n /\ m # 0
  OBVIOUS
<1>4. m - 1 \in 0 .. n /\ m - 1 \notin Missing
  BY <1>2, <1>3
<1>5. m - 1 \in T /\ m - 1 < n
  BY <1>3, <1>4
<1>6. (m - 1) + 1 \in T
  BY <1>4, <1>5
<1> QED
  BY <1>3, <1>6

\* A function is given by its first value and its steps.
StepFunctions(n, S) == [1 .. n -> [S -> S]]
Iterates(f, n, S, a, G) ==
  /\ f \in [0 .. n -> S]
  /\ f[0] = a
  /\ \A k \in 1 .. n : f[k] = G[k][f[k - 1]]

LEMMA Recursion ==
  ASSUME NEW n \in Nat, NEW S, NEW a \in S, NEW G \in StepFunctions(n, S)
  PROVE  \E f : Iterates(f, n, S, a, G)
<1> USE DEF StepFunctions
<1> DEFINE Upto(m) == \E f \in [0 .. m -> S] : f[0] = a /\ \A k \in 1 .. m : f[k] = G[k][f[k - 1]]
           T == {m \in 0 .. n : Upto(m)}
<1>1. 0 \in T
  <2>1. [k \in 0 .. 0 |-> a] \in [0 .. 0 -> S]
    OBVIOUS
  <2>2. Upto(0)
    <3> DEFINE f == [k \in 0 .. 0 |-> a]
    <3>1. f[0] = a /\ \A k \in 1 .. 0 : f[k] = G[k][f[k - 1]]
      OBVIOUS
    <3> HIDE DEF f
    <3> QED
      BY <2>1, <3>1 DEF f
  <2> QED
    BY <2>2
<1>2. ASSUME NEW m \in 0 .. n, m \in T, m < n PROVE m + 1 \in T
  <2>1. PICK f \in [0 .. m -> S] : f[0] = a /\ \A k \in 1 .. m : f[k] = G[k][f[k - 1]]
    BY <1>2
  <2> DEFINE h == [k \in 0 .. m + 1 |-> IF k = m + 1 THEN G[m + 1][f[m]] ELSE f[k]]
  <2>2. f[m] \in S /\ m + 1 \in 1 .. n
    BY <1>2
  <2>3. G[m + 1][f[m]] \in S
    BY <2>2
  <2>4. \A k \in 0 .. m + 1 : k # m + 1 => k \in 0 .. m
    OBVIOUS
  <2>5. h \in [0 .. m + 1 -> S]
    BY <2>3, <2>4
  <2>6. h[0] = a
    BY <2>1
  <2>7. ASSUME NEW k \in 1 .. m + 1 PROVE h[k] = G[k][h[k - 1]]
    <3>1. k - 1 \in 0 .. m + 1 /\ k - 1 # m + 1 /\ k \in 0 .. m + 1
      OBVIOUS
    <3>2. h[k - 1] = f[k - 1]
      BY <3>1
    <3>3. CASE k = m + 1
      BY <3>2, <3>3
    <3>4. CASE k # m + 1
      BY <2>1, <3>1, <3>2, <3>4
    <3> QED
      BY <3>3, <3>4
  <2>8. Upto(m + 1)
    <3> HIDE DEF h
    <3> QED
      BY <2>5, <2>6, <2>7
  <2>9. m + 1 \in 0 .. n
    BY <1>2
  <2> QED
    BY <2>8, <2>9
<1>3. \A m \in 0 .. n : m \in T
  <2> HIDE DEF T
  <2> QED
    BY <1>1, <1>2, UpTo
<1>4. n \in T
  BY <1>3
<1> QED
  BY <1>4 DEF Iterates

-----------------------------------------------------------------------------
(* The index of a grid point.                                                *)

LEMMA DivMod ==
  ASSUME NEW x \in Int, NEW m \in Nat \ {0}
  PROVE  /\ x \div m \in Int /\ x % m \in 0 .. m - 1
         /\ x = m * (x \div m) + (x % m)
OBVIOUS

LEMMA ModSmall ==
  ASSUME NEW x \in Nat, NEW m \in Nat, x < m
  PROVE  x % m = x
OBVIOUS

\* One digit put on, and taken off again.
LEMMA DigitOff ==
  ASSUME NEW h \in Nat, NEW g \in Nat \ {0}, NEW c \in 0 .. g - 1
  PROVE  (h * g + c) \div g = h /\ (h * g + c) % g = c
OBVIOUS

LEMMA DigitOn ==
  ASSUME NEW h \in Nat, NEW g \in Nat \ {0}, NEW a \in Nat, h < a, NEW c \in 0 .. g - 1
  PROVE  h * g + c \in Nat /\ h * g + c < a * g
OBVIOUS

LEMMA RestSmaller ==
  ASSUME NEW x \in Nat, NEW g \in Nat \ {0}, NEW a \in Nat, x < a * g
  PROVE  x \div g \in Nat /\ x \div g < a
OBVIOUS

LEMMA Conversions ==
  ASSUME NEW x \in Int
  PROVE  /\ AsSizeT(x) \in Nat /\ AsInt(x) \in Int
         /\ x \in 0 .. IntMax => AsSizeT(x) = x /\ AsInt(x) = x
<1> USE ScanBoundsAssumption
<1>1. AsSizeT(x) \in Nat
  <2>1. SizeTMax + 1 \in Nat \ {0}
    OBVIOUS
  <2> QED
    BY <2>1, DivMod DEF AsSizeT
<1>2. x % (2 * IntMax + 2) \in Int
  <2>1. 2 * IntMax + 2 \in Nat \ {0}
    OBVIOUS
  <2> QED
    BY <2>1, DivMod
<1>3. AsInt(x) \in Int
  BY <1>2 DEF AsInt
<1>4. ASSUME x \in 0 .. IntMax PROVE AsSizeT(x) = x /\ AsInt(x) = x
  <2>1. /\ x \in Nat /\ SizeTMax + 1 \in Nat /\ x < SizeTMax + 1
        /\ 2 * IntMax + 2 \in Nat /\ x < 2 * IntMax + 2
    BY <1>4
  <2>2. x % (SizeTMax + 1) = x /\ x % (2 * IntMax + 2) = x
    BY <2>1, ModSmall
  <2> QED
    BY <1>4, <2>2 DEF AsSizeT, AsInt
<1> QED
  BY <1>1, <1>3, <1>4

\* What the loop of setup_bdt_cut_grid computes.
LEMMA TotalPts ==
  ASSUME NEW g \in Seq(Nat \ {0})
  PROVE  /\ total_pts(g) \in [0 .. Len(g) -> Nat \ {0}]
         /\ total_pts(g)[0] = 1
         /\ \A k \in 1 .. Len(g) : total_pts(g)[k] = total_pts(g)[k - 1] * g[k]
<1> DEFINE n == Len(g)
           S == Nat \ {0}
           G == [k \in 1 .. n |-> [x \in S |-> x * g[k]]]
           step(f) == [k \in 0 .. n |-> IF k = 0 THEN 1 ELSE f[k - 1] * g[k]]
<1>1. n \in Nat /\ 1 \in S /\ \A k \in 1 .. n : g[k] \in S
  OBVIOUS
<1>2. G \in StepFunctions(n, S)
  BY <1>1 DEF StepFunctions
<1>3. PICK f : Iterates(f, n, S, 1, G)
  <2> HIDE DEF G, n, S
  <2> QED
    BY <1>1, <1>2, Recursion
<1>4. \A k \in 1 .. n : f[k] = f[k - 1] * g[k]
  <2> TAKE k \in 1 .. n
  <2>1. k - 1 \in 0 .. n
    BY <1>1
  <2>2. f[k - 1] \in S
    BY <1>3, <2>1 DEF Iterates
  <2> QED
    BY <1>3, <2>2 DEF Iterates
<1>5. f = step(f)
  BY <1>1, <1>3, <1>4 DEF Iterates
<1>6. total_pts(g) = CHOOSE total : total = step(total)
  BY DEF total_pts
<1>7. total_pts(g) = step(total_pts(g))
  <2> HIDE DEF step
  <2> QED
    BY <1>5, <1>6
<1>8. /\ total_pts(g)[0] = 1
      /\ \A k \in 1 .. n : total_pts(g)[k] = total_pts(g)[k - 1] * g[k]
  BY <1>1, <1>7
<1>9. \A k \in 0 .. n : total_pts(g)[k] \in S
  <2> DEFINE T == {k \in 0 .. n : total_pts(g)[k] \in S}
  <2>1. 0 \in T
    BY <1>1, <1>8
  <2>2. ASSUME NEW k \in 0 .. n, k \in T, k < n PROVE k + 1 \in T
    <3>1. k + 1 \in 1 .. n /\ (k + 1) - 1 = k
      BY <1>1, <2>2
    <3>2. total_pts(g)[k + 1] = total_pts(g)[k] * g[k + 1]
      BY <1>8, <3>1
    <3>3. g[k + 1] \in S /\ total_pts(g)[k] \in S
      BY <1>1, <2>2, <3>1
    <3>4. total_pts(g)[k + 1] \in S
      BY <3>2, <3>3
    <3> QED
      BY <3>1, <3>4
  <2>3. \A k \in 0 .. n : k \in T
    <3> HIDE DEF T, n
    <3> QED
      BY <1>1, <2>1, <2>2, UpTo
  <2> QED
    BY <2>3
<1>10. DOMAIN total_pts(g) = 0 .. n
  BY <1>7
<1> QED
  BY <1>7, <1>8, <1>9, <1>10

\* What SetUp chooses.
GoodGrid == grid \in Seq(Nat \ {0}) /\ grid # <<>> /\ max_pts <= IntMax

LEMMA RestDef ==
  ASSUME GoodGrid, NEW pt \in Int
  PROVE  /\ Rest(pt) \in [0 .. Len(grid) -> Int]
         /\ Rest(pt)[0] = pt
         /\ \A k \in 1 .. Len(grid) :
              Rest(pt)[k] = AsInt(AsSizeT(Rest(pt)[k - 1]) \div grid[Len(grid) + 1 - k])
<1> DEFINE n == Len(grid)
           G == [k \in 1 .. n |-> [x \in Int |-> AsInt(AsSizeT(x) \div grid[n + 1 - k])]]
           step(f) == [k \in 0 .. n |-> IF k = 0 THEN pt ELSE AsInt(AsSizeT(f[k - 1]) \div grid[n + 1 - k])]
<1>1. n \in Nat /\ \A k \in 1 .. n : grid[k] \in Nat \ {0}
  BY DEF GoodGrid
<1>2. \A k \in 1 .. n, x \in Int : AsInt(AsSizeT(x) \div grid[n + 1 - k]) \in Int
  <2> TAKE k \in 1 .. n, x \in Int
  <2>1. n + 1 - k \in 1 .. n
    BY <1>1
  <2>2. AsSizeT(x) \in Nat
    BY Conversions
  <2>3. AsSizeT(x) \div grid[n + 1 - k] \in Int
    <3>1. grid[n + 1 - k] \in Nat \ {0}
      BY <1>1, <2>1
    <3>2. AsSizeT(x) \in Int
      BY <2>2
    <3> QED
      BY <3>1, <3>2, DivMod
  <2> QED
    BY <2>3, Conversions
<1>3. G \in StepFunctions(n, Int)
  BY <1>2 DEF StepFunctions
<1>4. PICK f : Iterates(f, n, Int, pt, G)
  <2> HIDE DEF G, n
  <2> QED
    BY <1>1, <1>3, Recursion
<1>5. \A k \in 1 .. n : f[k] = AsInt(AsSizeT(f[k - 1]) \div grid[n + 1 - k])
  <2> TAKE k \in 1 .. n
  <2>1. k - 1 \in 0 .. n
    BY <1>1
  <2>2. f[k - 1] \in Int
    BY <1>4, <2>1 DEF Iterates
  <2> QED
    BY <1>4, <2>2 DEF Iterates
<1>6. f = step(f)
  BY <1>1, <1>4, <1>5 DEF Iterates
<1>7. Rest(pt) = CHOOSE rest : rest = step(rest)
  BY DEF Rest
<1>8. Rest(pt) = step(Rest(pt))
  <2> HIDE DEF step
  <2> QED
    BY <1>6, <1>7
<1>9. /\ Rest(pt)[0] = pt
      /\ \A k \in 1 .. n : Rest(pt)[k] = AsInt(AsSizeT(Rest(pt)[k - 1]) \div grid[n + 1 - k])
  BY <1>1, <1>8
<1>10. \A k \in 0 .. n : Rest(pt)[k] \in Int
  <2> DEFINE T == {k \in 0 .. n : Rest(pt)[k] \in Int}
  <2>1. 0 \in T
    BY <1>1, <1>9
  <2>2. ASSUME NEW k \in 0 .. n, k \in T, k < n PROVE k + 1 \in T
    <3>1. k + 1 \in 1 .. n /\ (k + 1) - 1 = k
      BY <1>1, <2>2
    <3>2. Rest(pt)[k + 1] = AsInt(AsSizeT(Rest(pt)[k]) \div grid[n + 1 - (k + 1)])
      BY <1>9, <3>1
    <3>3. Rest(pt)[k + 1] \in Int
      BY <1>2, <2>2, <3>1, <3>2
    <3> QED
      BY <3>1, <3>3
  <2>3. \A k \in 0 .. n : k \in T
    <3> HIDE DEF T, n
    <3> QED
      BY <1>1, <2>1, <2>2, UpTo
  <2> QED
    BY <2>3
<1>11. DOMAIN Rest(pt) = 0 .. n
  BY <1>8
<1> QED
  BY <1>8, <1>9, <1>10, <1>11

\* The points of the first axes are no more than those of all.
LEMMA TotalPtsGrow ==
  ASSUME GoodGrid
  PROVE  \A k \in 0 .. Len(grid) : total_pts(grid)[k] \in 1 .. max_pts
<1> DEFINE n == Len(grid)
           T == {k \in 0 .. n : total_pts(grid)[n - k] <= max_pts}
<1>1. n \in Nat /\ \A k \in 1 .. n : grid[k] \in Nat \ {0}
  BY DEF GoodGrid
<1>2. /\ \A k \in 0 .. n : total_pts(grid)[k] \in Nat \ {0}
      /\ \A k \in 1 .. n : total_pts(grid)[k] = total_pts(grid)[k - 1] * grid[k]
  BY TotalPts DEF GoodGrid
<1>3. max_pts = total_pts(grid)[n] /\ max_pts \in Nat
  BY <1>1, <1>2 DEF max_pts
<1>4. 0 \in T
  BY <1>1, <1>3
<1>5. ASSUME NEW k \in 0 .. n, k \in T, k < n PROVE k + 1 \in T
  <2>1. n - k \in 1 .. n /\ (n - k) - 1 = n - (k + 1) /\ n - (k + 1) \in 0 .. n
    BY <1>1, <1>5
  <2>2. total_pts(grid)[n - k] = total_pts(grid)[n - (k + 1)] * grid[n - k]
    BY <1>2, <2>1
  <2>3. \A a, b \in Nat \ {0} : a <= a * b
    OBVIOUS
  <2>4. total_pts(grid)[n - (k + 1)] <= total_pts(grid)[n - k]
    BY <1>1, <1>2, <2>1, <2>2, <2>3
  <2>5. total_pts(grid)[n - k] \in Nat /\ total_pts(grid)[n - (k + 1)] \in Nat
    BY <1>2, <2>1
  <2>6. total_pts(grid)[n - (k + 1)] <= max_pts
    BY <1>3, <1>5, <2>4, <2>5
  <2> QED
    BY <1>1, <1>5, <2>6
<1>6. \A k \in 0 .. n : k \in T
  <2> HIDE DEF T, n
  <2> QED
    BY <1>1, <1>4, <1>5, UpTo
<1>7. ASSUME NEW k \in 0 .. n PROVE total_pts(grid)[k] <= max_pts
  <2>1. n - k \in 0 .. n /\ n - (n - k) = k
    BY <1>1
  <2>2. n - k \in T
    BY <1>6, <2>1
  <2> QED
    BY <2>1, <2>2
<1> QED
  BY <1>2, <1>3, <1>7

\* Within an int no conversion changes anything, and the index shrinks with the
\* axes that are left.
LEMMA RestStep ==
  ASSUME GoodGrid, NEW pt \in 0 .. max_pts - 1
  PROVE  \A k \in 0 .. Len(grid) :
           /\ Rest(pt)[k] \in 0 .. total_pts(grid)[Len(grid) - k] - 1
           /\ AsSizeT(Rest(pt)[k]) = Rest(pt)[k]
           /\ k < Len(grid) => Rest(pt)[k + 1] = Rest(pt)[k] \div grid[Len(grid) - k]
<1> USE ScanBoundsAssumption
<1> DEFINE n == Len(grid)
           T == {k \in 0 .. n : Rest(pt)[k] \in 0 .. total_pts(grid)[n - k] - 1}
<1>0. max_pts = total_pts(grid)[n]
  BY DEF max_pts
<1>1. n \in Nat /\ \A k \in 1 .. n : grid[k] \in Nat \ {0}
  BY DEF GoodGrid
<1>2. \A k \in 0 .. n : total_pts(grid)[k] \in 1 .. max_pts
  BY TotalPtsGrow
<1>3. max_pts \in Nat /\ max_pts <= IntMax /\ pt \in Int
  BY <1>0, <1>1, <1>2 DEF GoodGrid
<1>4. /\ Rest(pt)[0] = pt
      /\ \A k \in 1 .. n : Rest(pt)[k] = AsInt(AsSizeT(Rest(pt)[k - 1]) \div grid[n + 1 - k])
  BY <1>3, RestDef
<1>5. \A k \in 1 .. n : total_pts(grid)[k] = total_pts(grid)[k - 1] * grid[k]
  BY TotalPts DEF GoodGrid
<1>6. ASSUME NEW k \in 0 .. n, k \in T
      PROVE  /\ AsSizeT(Rest(pt)[k]) = Rest(pt)[k]
             /\ k < n => /\ Rest(pt)[k + 1] = Rest(pt)[k] \div grid[n - k]
                         /\ k + 1 \in T
  <2> DEFINE r == Rest(pt)[k]
  <2>1. n - k \in 0 .. n
    BY <1>1
  <2>2. total_pts(grid)[n - k] \in 1 .. max_pts
    BY <1>2, <2>1
  <2>3. r \in 0 .. total_pts(grid)[n - k] - 1
    BY <1>6
  <2>4. r \in 0 .. IntMax
    BY <1>3, <2>2, <2>3
  <2> HIDE DEF r
  <2>5. AsSizeT(r) = r
    BY <2>4, Conversions
  <2>6. ASSUME k < n PROVE Rest(pt)[k + 1] = r \div grid[n - k] /\ k + 1 \in T
    <3>1. k + 1 \in 1 .. n /\ (k + 1) - 1 = k /\ n + 1 - (k + 1) = n - k
      BY <1>1, <2>6
    <3>2. Rest(pt)[k + 1] = AsInt(r \div grid[n - k])
      BY <1>4, <2>5, <3>1 DEF r
    <3>3. n - k \in 1 .. n /\ (n - k) - 1 = n - (k + 1) /\ n - (k + 1) \in 0 .. n
      BY <1>1, <2>6
    <3>4. PICK g \in Nat \ {0} : g = grid[n - k]
      BY <1>1, <3>3
    <3>5. PICK a \in 1 .. max_pts : a = total_pts(grid)[n - (k + 1)]
      BY <1>2, <3>3
    <3>6. total_pts(grid)[n - k] = a * g
      BY <1>5, <3>3, <3>4, <3>5
    <3>7. a \in Nat /\ r \in Nat /\ r < a * g
      BY <2>2, <2>3, <3>6 DEF r
    <3>8. r \div g \in Nat /\ r \div g < a
      BY <3>7, RestSmaller
    <3>9. r \div g \in 0 .. IntMax /\ r \div g \in 0 .. a - 1
      BY <1>3, <3>5, <3>8
    <3>10. AsInt(r \div g) = r \div g
      BY <3>9, Conversions
    <3>11. Rest(pt)[k + 1] = r \div g
      BY <3>2, <3>4, <3>10
    <3>12. k + 1 \in 0 .. n
      BY <3>1
    <3> QED
      BY <3>4, <3>5, <3>9, <3>11, <3>12
  <2> QED
    BY <2>5, <2>6 DEF r
<1>7. 0 \in T
  BY <1>0, <1>1, <1>4
<1>8. \A k \in 0 .. n : k \in T
  <2> HIDE DEF T, n
  <2> QED
    BY <1>1, <1>6, <1>7, UpTo
<1> QED
  BY <1>6, <1>8

\* grab_point answers with a point of the grid whatever the index, -1 too.
LEMMA GrabPointInGrid ==
  ASSUME GoodGrid, NEW pt \in Int
  PROVE  GrabPoint(pt) \in GridPoints
<1> DEFINE n == Len(grid)
<1>1. n \in Nat /\ DOMAIN grid = 1 .. n /\ \A b \in 1 .. n : grid[b] \in Nat \ {0}
  BY DEF GoodGrid
<1>2. \A b \in DOMAIN grid : GrabPoint(pt)[b] \in Steps(b)
  <2> TAKE b \in DOMAIN grid
  <2>1. n - b \in 0 .. n
    BY <1>1
  <2>2. Rest(pt)[n - b] \in Int
    BY <2>1, RestDef
  <2>3. AsSizeT(Rest(pt)[n - b]) \in Int /\ grid[b] \in Nat \ {0}
    <3>1. AsSizeT(Rest(pt)[n - b]) \in Nat
      BY <2>2, Conversions
    <3> QED
      BY <1>1, <3>1
  <2>4. AsSizeT(Rest(pt)[n - b]) % grid[b] \in 0 .. grid[b] - 1
    BY <2>3, DivMod
  <2> QED
    BY <2>4 DEF GrabPoint, Steps
<1>3. DOMAIN GrabPoint(pt) = DOMAIN grid
  BY DEF GrabPoint
<1>4. GrabPoint(pt) = [b \in DOMAIN grid |-> GrabPoint(pt)[b]]
  BY DEF GrabPoint
<1> QED
  BY <1>2, <1>4 DEF GridPoints

\* The digits of an index below max_pts, without the conversions.
LEMMA GrabPointDigits ==
  ASSUME GoodGrid, NEW pt \in 0 .. max_pts - 1
  PROVE  \A b \in 1 .. Len(grid) : GrabPoint(pt)[b] = Rest(pt)[Len(grid) - b] % grid[b]
<1> DEFINE n == Len(grid)
<1>1. n \in Nat /\ DOMAIN grid = 1 .. n
  BY DEF GoodGrid
<1> TAKE b \in 1 .. n
<1>2. n - b \in 0 .. n
  BY <1>1
<1>3. AsSizeT(Rest(pt)[n - b]) = Rest(pt)[n - b]
  BY <1>2, RestStep
<1> QED
  BY <1>1, <1>3 DEF GrabPoint

\* Every point of the grid is visited.
LEMMA GrabPointOnto ==
  ASSUME GoodGrid, NEW c \in GridPoints
  PROVE  \E pt \in 0 .. max_pts - 1 : GrabPoint(pt) = c
<1> DEFINE n == Len(grid)
           G == [k \in 1 .. n |-> [x \in Nat |-> x * grid[k] + c[k]]]
<1>1. n \in Nat /\ DOMAIN grid = 1 .. n /\ \A b \in 1 .. n : grid[b] \in Nat \ {0}
  BY DEF GoodGrid
<1>2. /\ \A b \in 1 .. n : c[b] \in 0 .. grid[b] - 1
      /\ c = [b \in 1 .. n |-> c[b]]
  BY <1>1 DEF GridPoints, Steps
<1>3. G \in StepFunctions(n, Nat)
  <2>1. \A k \in 1 .. n, x \in Nat : x * grid[k] + c[k] \in Nat
    <3> TAKE k \in 1 .. n, x \in Nat
    <3>1. grid[k] \in Nat /\ c[k] \in Nat
      BY <1>1, <1>2
    <3> QED
      BY <3>1
  <2> QED
    BY <2>1 DEF StepFunctions
<1>4. PICK h : Iterates(h, n, Nat, 0, G)
  <2> HIDE DEF G, n
  <2> QED
    BY <1>1, <1>3, Recursion
<1>5. /\ \A k \in 0 .. n : h[k] \in Nat
      /\ h[0] = 0
      /\ \A k \in 1 .. n : h[k] = h[k - 1] * grid[k] + c[k]
  <2>1. /\ \A k \in 0 .. n : h[k] \in Nat
        /\ h[0] = 0 /\ \A k \in 1 .. n : h[k] = G[k][h[k - 1]]
    BY <1>4 DEF Iterates
  <2>2. \A k \in 1 .. n : k - 1 \in 0 .. n
    BY <1>1
  <2> QED
    BY <2>1, <2>2
<1>6. /\ total_pts(grid)[0] = 1 /\ total_pts(grid)[n] = max_pts
      /\ \A k \in 0 .. n : total_pts(grid)[k] \in Nat
      /\ \A k \in 1 .. n : total_pts(grid)[k] = total_pts(grid)[k - 1] * grid[k]
  BY TotalPts DEF GoodGrid, max_pts
<1>7. \A k \in 0 .. n : h[k] < total_pts(grid)[k]
  <2> DEFINE T == {k \in 0 .. n : h[k] < total_pts(grid)[k]}
  <2>1. 0 \in T
    BY <1>1, <1>5, <1>6
  <2>2. ASSUME NEW k \in 0 .. n, k \in T, k < n PROVE k + 1 \in T
    <3>1. k + 1 \in 1 .. n /\ (k + 1) - 1 = k /\ k + 1 \in 0 .. n
      BY <1>1, <2>2
    <3>2. PICK x \in Nat, a \in Nat, g \in Nat \ {0}, d \in Nat :
            /\ x = h[k] /\ a = total_pts(grid)[k] /\ g = grid[k + 1] /\ d = c[k + 1]
            /\ d \in 0 .. g - 1
      BY <1>1, <1>2, <1>5, <1>6, <3>1
    <3>3. x < a
      BY <2>2, <3>2
    <3>4. x * g + d < a * g
      BY <3>2, <3>3, DigitOn
    <3>5. h[k + 1] = x * g + d /\ total_pts(grid)[k + 1] = a * g
      BY <1>5, <1>6, <3>1, <3>2
    <3> QED
      BY <3>1, <3>4, <3>5
  <2>3. \A k \in 0 .. n : k \in T
    <3> HIDE DEF T, n
    <3> QED
      BY <1>1, <2>1, <2>2, UpTo
  <2> QED
    BY <2>3
<1>8. PICK pt \in 0 .. max_pts - 1 : pt = h[n]
  BY <1>1, <1>5, <1>6, <1>7
<1>9. /\ \A k \in 0 .. n : k < n => Rest(pt)[k + 1] = Rest(pt)[k] \div grid[n - k]
      /\ Rest(pt)[0] = pt
  BY <1>6, <1>8, RestStep, RestDef DEF GoodGrid
<1>10. \A k \in 0 .. n : Rest(pt)[k] = h[n - k]
  <2> DEFINE T == {k \in 0 .. n : Rest(pt)[k] = h[n - k]}
  <2>1. 0 \in T
    BY <1>1, <1>8, <1>9
  <2>2. ASSUME NEW k \in 0 .. n, k \in T, k < n PROVE k + 1 \in T
    <3>1. /\ n - k \in 1 .. n /\ (n - k) - 1 = n - (k + 1)
          /\ n - (k + 1) \in 0 .. n /\ k + 1 \in 0 .. n
      BY <1>1, <2>2
    <3>2. PICK x \in Nat, g \in Nat \ {0}, d \in Nat :
            x = h[n - (k + 1)] /\ g = grid[n - k] /\ d = c[n - k] /\ d \in 0 .. g - 1
      BY <1>1, <1>2, <1>5, <3>1
    <3>3. h[n - k] = x * g + d
      BY <1>5, <3>1, <3>2
    <3>4. (x * g + d) \div g = x
      BY <3>2, DigitOff
    <3>5. Rest(pt)[k + 1] = h[n - k] \div grid[n - k]
      BY <1>9, <2>2
    <3> QED
      BY <3>1, <3>2, <3>3, <3>4, <3>5
  <2>3. \A k \in 0 .. n : k \in T
    <3> HIDE DEF T, n
    <3> QED
      BY <1>1, <2>1, <2>2, UpTo
  <2> QED
    BY <2>3
<1>11. ASSUME NEW b \in 1 .. n PROVE GrabPoint(pt)[b] = c[b]
  <2>1. n - b \in 0 .. n /\ n - (n - b) = b /\ b - 1 \in 0 .. n
    BY <1>1
  <2>2. GrabPoint(pt)[b] = h[b] % grid[b]
    BY <1>10, <2>1, GrabPointDigits
  <2>3. PICK x \in Nat, g \in Nat \ {0}, d \in Nat :
          x = h[b - 1] /\ g = grid[b] /\ d = c[b] /\ d \in 0 .. g - 1
    BY <1>1, <1>2, <1>5, <2>1
  <2>4. (x * g + d) % g = d
    BY <2>3, DigitOff
  <2>5. h[b] = x * g + d
    BY <1>5, <2>3
  <2> QED
    BY <2>2, <2>3, <2>4, <2>5
<1>12. GrabPoint(pt) = [b \in 1 .. n |-> GrabPoint(pt)[b]]
  BY <1>1 DEF GrabPoint
<1>13. GrabPoint(pt) = c
  BY <1>2, <1>11, <1>12
<1> QED
  BY <1>13

\* No two indices are the same point, so no chi-square is overwritten.
LEMMA GrabPointOneToOne ==
  ASSUME GoodGrid, NEW p \in 0 .. max_pts - 1, NEW q \in 0 .. max_pts - 1,
         GrabPoint(p) = GrabPoint(q)
  PROVE  p = q
<1> DEFINE n == Len(grid)
           T == {k \in 0 .. n : Rest(p)[n - k] = Rest(q)[n - k]}
<1>1. n \in Nat /\ \A b \in 1 .. n : grid[b] \in Nat \ {0}
  BY DEF GoodGrid
<1>2. total_pts(grid)[0] = 1 /\ max_pts \in Nat
  BY <1>1, TotalPts DEF GoodGrid, max_pts
<1>3. /\ Rest(p) \in [0 .. n -> Int] /\ Rest(p)[0] = p
      /\ Rest(q) \in [0 .. n -> Int] /\ Rest(q)[0] = q
  BY <1>2, RestDef
<1>4. 0 \in T
  <2>1. n \in 0 .. n /\ n - n = 0 /\ n - 0 = n /\ 0 \in 0 .. n
    BY <1>1
  <2>2. Rest(p)[n] \in 0 .. total_pts(grid)[0] - 1 /\ Rest(q)[n] \in 0 .. total_pts(grid)[0] - 1
    BY <2>1, RestStep
  <2>3. Rest(p)[n] = 0 /\ Rest(q)[n] = 0
    BY <1>2, <2>2
  <2> QED
    BY <2>1, <2>3
<1>5. ASSUME NEW k \in 0 .. n, k \in T, k < n PROVE k + 1 \in T
  <2>1. /\ n - (k + 1) \in 0 .. n /\ n - (k + 1) < n /\ (n - (k + 1)) + 1 = n - k
        /\ n - (n - (k + 1)) = k + 1 /\ k + 1 \in 1 .. n
    BY <1>1, <1>5
  <2>2. PICK g \in Nat \ {0} : g = grid[k + 1]
    BY <1>1, <2>1
  <2>3. PICK x \in Int, y \in Int : x = Rest(p)[n - (k + 1)] /\ y = Rest(q)[n - (k + 1)]
    BY <1>3, <2>1
  <2>4. Rest(p)[n - k] = x \div g /\ Rest(q)[n - k] = y \div g
    BY <2>1, <2>2, <2>3, RestStep
  <2>5. x \div g = y \div g
    BY <1>5, <2>4
  <2>6. x % g = y % g
    BY <2>1, <2>2, <2>3, GrabPointDigits
  <2>7. x = g * (x \div g) + (x % g) /\ y = g * (y \div g) + (y % g)
    BY DivMod
  <2>8. x = y
    BY <2>5, <2>6, <2>7
  <2>9. Rest(p)[n - (k + 1)] = Rest(q)[n - (k + 1)]
    BY <2>3, <2>8
  <2>10. k + 1 \in 0 .. n
    BY <2>1
  <2> QED
    BY <2>9, <2>10
<1>6. \A k \in 0 .. n : k \in T
  <2> HIDE DEF T, n
  <2> QED
    BY <1>1, <1>4, <1>5, UpTo
<1>7. n \in T /\ n - n = 0
  BY <1>1, <1>6
<1> QED
  BY <1>3, <1>7

-----------------------------------------------------------------------------
(* The scan.                                                                 *)

Visited(k) == {GrabPoint(j) : j \in 0 .. k - 1}

\* After i points chivec has their chi-squares, and best_point the largest, or
\* none was above zero.
BestSoFar ==
  /\ i \in 0 .. max_pts
  /\ DOMAIN chi_at = Visited(i)
  /\ best_chi \in Nat
  /\ \A j \in 0 .. i - 1 : chi_at[GrabPoint(j)] \in 0 .. best_chi
  /\ \/ best_point = -1 /\ best_chi = 0
     \/ best_point \in 0 .. i - 1 /\ chi_at[GrabPoint(best_point)] = best_chi

ScanInv ==
  /\ pc \in {"iterate", "scan", "done"} => GoodGrid
  /\ pc = "scan" => BestSoFar

LEMMA ScanInit == Init => ScanInv
BY DEF Init, WeightsInit, ScanInv

\* Unchanged variables, unchanged points.
LEMMA SamePoints ==
  ASSUME grid' = grid
  PROVE  /\ max_pts' = max_pts /\ GoodGrid' = GoodGrid
         /\ \A pt : GrabPoint(pt)' = GrabPoint(pt)
         /\ \A k : Visited(k)' = Visited(k)
<1>1. max_pts' = max_pts
  BY DEF max_pts, total_pts
<1>2. \A pt : GrabPoint(pt)' = GrabPoint(pt)
  BY DEF GrabPoint, Rest
<1>3. GoodGrid' = GoodGrid
  BY <1>1 DEF GoodGrid
<1>4. \A k : Visited(k)' = Visited(k)
  BY <1>2 DEF Visited
<1> QED
  BY <1>1, <1>2, <1>3, <1>4

LEMMA StartsAtNone ==
  ASSUME ScanInv, StartScan
  PROVE  BestSoFar'
<1>1. GoodGrid /\ grid' = grid
  BY DEF ScanInv, StartScan
<1>2. max_pts \in Nat
  <2>1. Len(grid) \in 0 .. Len(grid) /\ max_pts = total_pts(grid)[Len(grid)]
    BY <1>1 DEF GoodGrid, max_pts
  <2> QED
    BY <1>1, <2>1, TotalPtsGrow
<1>3. max_pts' = max_pts
  BY <1>1, SamePoints
<1>4. i' = 0 /\ chi_at' = NoChis /\ best_point' = -1 /\ best_chi' = 0
  BY DEF StartScan
<1>5. DOMAIN chi_at' = {} /\ Visited(i)' = {}
  BY <1>4 DEF NoChis, Visited
<1> QED
  BY <1>2, <1>3, <1>4, <1>5 DEF BestSoFar

LEMMA BestStays ==
  ASSUME ScanInv, ScanPoint
  PROVE  BestSoFar'
<1> USE ScanBoundsAssumption
<1>1. GoodGrid /\ BestSoFar /\ grid' = grid /\ i < max_pts /\ i' = i + 1
  BY DEF ScanInv, ScanPoint
<1>2. PICK current_chi \in Nat :
        /\ chi_at' = [c \in DOMAIN chi_at \cup {GrabPoint(i)} |->
                        IF c = GrabPoint(i) THEN current_chi ELSE chi_at[c]]
        /\ IF current_chi > best_chi
           THEN best_chi' = current_chi /\ best_point' = i
           ELSE UNCHANGED <<best_chi, best_point>>
  <2>1. (IF SignalPasses(GrabPoint(i)) THEN 1 .. MaxChi ELSE {0}) \subseteq Nat
    OBVIOUS
  <2> QED
    BY <2>1 DEF ScanPoint
<1>3. i \in Nat /\ i \in 0 .. max_pts - 1 /\ max_pts \in Int
  <2>1. Len(grid) \in 0 .. Len(grid) /\ max_pts = total_pts(grid)[Len(grid)]
    BY <1>1 DEF GoodGrid, max_pts
  <2>2. max_pts \in Int
    BY <1>1, <2>1, TotalPtsGrow
  <2> QED
    BY <1>1, <2>2 DEF BestSoFar
<1>4. max_pts' = max_pts /\ \A pt : GrabPoint(pt)' = GrabPoint(pt)
  BY <1>1, SamePoints
<1>5. ASSUME NEW j \in 0 .. i - 1
      PROVE  /\ GrabPoint(j) # GrabPoint(i) /\ GrabPoint(j) \in DOMAIN chi_at
             /\ chi_at'[GrabPoint(j)] = chi_at[GrabPoint(j)]
  <2>1. j \in 0 .. max_pts - 1 /\ j # i
    BY <1>3
  <2>2. GrabPoint(j) # GrabPoint(i)
    BY <1>1, <1>3, <2>1, GrabPointOneToOne
  <2>3. GrabPoint(j) \in DOMAIN chi_at
    BY <1>1 DEF BestSoFar, Visited
  <2> QED
    BY <1>2, <2>2, <2>3
<1>6. chi_at'[GrabPoint(i)] = current_chi
  BY <1>2
<1>7. best_chi \in Nat /\ best_chi' \in Nat /\ best_chi <= best_chi' /\ current_chi <= best_chi'
  BY <1>1, <1>2 DEF BestSoFar
<1>8. DOMAIN chi_at' = Visited(i)'
  <2>1. DOMAIN chi_at' = Visited(i) \cup {GrabPoint(i)}
    BY <1>1, <1>2 DEF BestSoFar
  <2>2. 0 .. i' - 1 = (0 .. i - 1) \cup {i}
    BY <1>1, <1>3
  <2>3. Visited(i)' = {GrabPoint(j) : j \in 0 .. i' - 1}
    BY <1>4 DEF Visited
  <2> QED
    BY <2>1, <2>2, <2>3 DEF Visited
<1>9. \A j \in 0 .. i' - 1 : chi_at'[GrabPoint(j)] \in 0 .. best_chi'
  <2> TAKE j \in 0 .. i' - 1
  <2>1. CASE j = i
    BY <1>6, <1>7, <2>1
  <2>2. CASE j # i
    <3>1. j \in 0 .. i - 1
      BY <1>1, <1>3, <2>2
    <3>2. chi_at[GrabPoint(j)] \in 0 .. best_chi
      BY <1>1, <3>1 DEF BestSoFar
    <3> QED
      BY <1>5, <1>7, <3>1, <3>2
  <2> QED
    BY <2>1, <2>2
<1>10. \/ best_point' = -1 /\ best_chi' = 0
       \/ best_point' \in 0 .. i' - 1 /\ chi_at'[GrabPoint(best_point')] = best_chi'
  <2>1. CASE current_chi > best_chi
    BY <1>1, <1>2, <1>3, <1>6, <2>1
  <2>2. CASE ~(current_chi > best_chi)
    <3>1. best_chi' = best_chi /\ best_point' = best_point
      BY <1>2, <2>2
    <3>2. CASE best_point = -1 /\ best_chi = 0
      BY <3>1, <3>2
    <3>3. CASE best_point \in 0 .. i - 1 /\ chi_at[GrabPoint(best_point)] = best_chi
      <4>1. chi_at'[GrabPoint(best_point)] = best_chi
        BY <1>5, <3>3
      <4>2. best_point \in 0 .. i' - 1
        BY <1>1, <1>3, <3>3
      <4> QED
        BY <3>1, <4>1, <4>2
    <3> QED
      BY <1>1, <3>2, <3>3 DEF BestSoFar
  <2> QED
    BY <2>1, <2>2
<1> QED
  BY <1>1, <1>3, <1>4, <1>7, <1>8, <1>9, <1>10 DEF BestSoFar

LEMMA ScanStep == ScanInv /\ [Next]_vars => ScanInv'
<1> SUFFICES ASSUME ScanInv, [Next]_vars PROVE ScanInv'
  OBVIOUS
<1>1. CASE CalcPOT /\ UNCHANGED scanvars
  BY <1>1 DEF CalcPOT, ScanInv
<1>2. CASE SetUp
  <2>1. grid' \in Grids /\ pc' = "iterate"
    BY <1>2 DEF SetUp
  <2>2. GoodGrid'
    <3>1. PICK g \in Grids : g = grid'
      BY <2>1
    <3>2. max_pts' = total_pts(g)[Len(g)]
      BY <3>1 DEF max_pts, total_pts
    <3> QED
      BY <3>1, <3>2, GridsAssumption DEF GoodGrid
  <2> QED
    BY <2>1, <2>2 DEF ScanInv
<1>3. CASE StartScan
  <2>1. pc = "iterate" /\ pc' = "scan" /\ grid' = grid
    BY <1>3 DEF StartScan
  <2> QED
    BY <1>3, <2>1, StartsAtNone, SamePoints DEF ScanInv
<1>4. CASE ScanPoint
  <2>1. pc = "scan" /\ pc' = "scan" /\ grid' = grid
    BY <1>4 DEF ScanPoint
  <2> QED
    BY <1>4, <2>1, BestStays, SamePoints DEF ScanInv
<1>5. CASE EndScan
  <2>1. pc = "scan" /\ pc' \in {"done", "iterate"} /\ grid' = grid
    BY <1>5 DEF EndScan
  <2> QED
    BY <2>1, SamePoints DEF ScanInv
<1>6. CASE UNCHANGED vars
  <2>1. UNCHANGED <<pc, grid, i, chi_at, best_point, best_chi>>
    BY <1>6 DEF vars, scanvars
  <2>2. GoodGrid' = GoodGrid /\ (BestSoFar => BestSoFar')
    <3>1. /\ max_pts' = max_pts /\ GoodGrid' = GoodGrid
          /\ \A pt : GrabPoint(pt)' = GrabPoint(pt)
          /\ \A k : Visited(k)' = Visited(k)
      BY <2>1, SamePoints
    <3> QED
      BY <2>1, <3>1 DEF BestSoFar
  <2> QED
    BY <2>1, <2>2 DEF ScanInv
<1> QED
  BY <1>1, <1>2, <1>3, <1>4, <1>5, <1>6 DEF Next

\* What a full scan ends with.
LEMMA BestOfGrid ==
  ASSUME ScanInv, EndScan
  PROVE  /\ cuts' \in GridPoints
         /\ DOMAIN chi_at = GridPoints
         /\ \A c \in GridPoints : chi_at[c] <= chi_at[cuts']
<1>1. GoodGrid /\ BestSoFar /\ i = max_pts /\ cuts' = GrabPoint(best_point)
  BY DEF ScanInv, EndScan
<1>2. i \in Int /\ best_point \in Int /\ best_chi \in Nat
  BY <1>1 DEF BestSoFar
<1>3. cuts' \in GridPoints
  BY <1>1, <1>2, GrabPointInGrid
<1>4. DOMAIN chi_at = GridPoints
  <2>1. ASSUME NEW j \in 0 .. i - 1 PROVE GrabPoint(j) \in GridPoints
    BY <1>1, <1>2, GrabPointInGrid
  <2>2. ASSUME NEW c \in GridPoints PROVE c \in Visited(i)
    <3>1. \E pt \in 0 .. max_pts - 1 : GrabPoint(pt) = c
      BY <1>1, GrabPointOnto
    <3> QED
      BY <1>1, <3>1 DEF Visited
  <2> QED
    BY <1>1, <2>1, <2>2 DEF BestSoFar, Visited
<1>5. ASSUME NEW c \in GridPoints PROVE chi_at[c] \in 0 .. best_chi
  <2>1. PICK j \in 0 .. i - 1 : c = GrabPoint(j)
    BY <1>1, GrabPointOnto
  <2> QED
    BY <1>1, <2>1 DEF BestSoFar
<1>6. chi_at[cuts'] = best_chi
  BY <1>1, <1>2, <1>3, <1>5 DEF BestSoFar
<1> QED
  BY <1>2, <1>3, <1>4, <1>5, <1>6

(* Every iteration of the chi-square scan hands on cuts of the grid with the *)
(* largest chi-square of all its points, for any number of BDTs and of steps; *)
(* where no chi-square is above zero the index -1 is decoded to a grid point. *)
THEOREM BestCutsAlwaysUsed == Spec => BestCutsUsed
<1>1. ScanInv /\ [Next]_vars =>
        [cuts' # cuts \/ pc' = "done" =>
           /\ cuts' \in GridPoints
           /\ DOMAIN chi_at = GridPoints
           /\ \A c \in GridPoints : chi_at[c] <= chi_at[cuts']]_vars
  <2> SUFFICES ASSUME ScanInv, Next, cuts' # cuts \/ pc' = "done"
               PROVE  /\ cuts' \in GridPoints
                      /\ DOMAIN chi_at = GridPoints
                      /\ \A c \in GridPoints : chi_at[c] <= chi_at[cuts']
    OBVIOUS
  <2>1. EndScan
    BY DEF Next, CalcPOT, scanvars, SetUp, StartScan, ScanPoint
  <2> QED
    BY <2>1, BestOfGrid
<1> QED
  BY <1>1, ScanInit, ScanStep, PTL DEF Spec, BestCutsUsed

-----------------------------------------------------------------------------
(* The run weights.                                                          *)

\* A sum over the run periods, period by period.
LEMMA SumsDef ==
  ASSUME NEW f \in [Periods -> Int]
  PROVE  /\ \A p \in 0 .. NPeriods : Sums(f)[p] \in Int
         /\ Sums(f)[0] = 0
         /\ \A p \in Periods : Sums(f)[p] = Sums(f)[p - 1] + f[p]
<1> DEFINE n == NPeriods
           G == [p \in 1 .. n |-> [x \in Int |-> x + f[p]]]
           step(h) == [p \in 0 .. n |-> IF p = 0 THEN 0 ELSE h[p - 1] + f[p]]
<1>1. n \in Nat /\ 0 \in Int /\ \A p \in 1 .. n : f[p] \in Int
  BY BoundsAssumption DEF Periods
<1>2. G \in StepFunctions(n, Int)
  BY <1>1 DEF StepFunctions
<1>3. PICK h : Iterates(h, n, Int, 0, G)
  <2> HIDE DEF G, n
  <2> QED
    BY <1>1, <1>2, Recursion
<1>4. \A p \in 1 .. n : h[p] = h[p - 1] + f[p]
  <2> TAKE p \in 1 .. n
  <2>1. p - 1 \in 0 .. n
    BY <1>1
  <2>2. h[p - 1] \in Int
    BY <1>3, <2>1 DEF Iterates
  <2> QED
    BY <1>3, <2>2 DEF Iterates
<1>5. h = step(h)
  BY <1>1, <1>3, <1>4 DEF Iterates
<1>6. Sums(f) = CHOOSE combinations : combinations = step(combinations)
  BY DEF Sums
<1>7. Sums(f) = step(Sums(f))
  <2> HIDE DEF step
  <2> QED
    BY <1>5, <1>6
<1>8. Sums(f)[0] = 0 /\ \A p \in 1 .. n : Sums(f)[p] = Sums(f)[p - 1] + f[p]
  <2>1. 0 \in 0 .. n /\ \A p \in 1 .. n : p \in 0 .. n /\ p # 0
    BY <1>1
  <2> HIDE DEF n
  <2> QED
    BY <1>7, <2>1
<1>9. \A p \in 0 .. n : Sums(f)[p] \in Int
  <2> DEFINE T == {p \in 0 .. n : Sums(f)[p] \in Int}
  <2>1. 0 \in T
    BY <1>1, <1>8
  <2>2. ASSUME NEW p \in 0 .. n, p \in T, p < n PROVE p + 1 \in T
    <3>1. p + 1 \in 1 .. n /\ (p + 1) - 1 = p
      BY <1>1, <2>2
    <3>2. Sums(f)[p + 1] = Sums(f)[p] + f[p + 1]
      BY <1>8, <3>1
    <3> QED
      BY <1>1, <2>2, <3>1, <3>2
  <2>3. \A p \in 0 .. n : p \in T
    <3> HIDE DEF T, n
    <3> QED
      BY <1>1, <2>1, <2>2, UpTo
  <2> QED
    BY <2>3
<1> QED
  BY <1>8, <1>9 DEF Periods

LEMMA TotalType ==
  ASSUME NEW f \in [Periods -> Int]
  PROVE  Total(f) \in Int
BY SumsDef, BoundsAssumption DEF Total

\* A factor of every term.
LEMMA TotalScaled ==
  ASSUME NEW f \in [Periods -> Int], NEW g \in [Periods -> Int], NEW c \in Int,
         \A p \in Periods : g[p] = c * f[p]
  PROVE  Total(g) = c * Total(f)
<1> DEFINE n == NPeriods
           T == {k \in 0 .. n : Sums(g)[k] = c * Sums(f)[k]}
<1>1. n \in Nat
  BY BoundsAssumption
<1>2. /\ \A p \in 0 .. n : Sums(f)[p] \in Int
      /\ Sums(f)[0] = 0 /\ \A p \in 1 .. n : Sums(f)[p] = Sums(f)[p - 1] + f[p]
      /\ Sums(g)[0] = 0 /\ \A p \in 1 .. n : Sums(g)[p] = Sums(g)[p - 1] + g[p]
  BY SumsDef DEF Periods
<1>3. 0 \in T
  BY <1>1, <1>2
<1>4. ASSUME NEW k \in 0 .. n, k \in T, k < n PROVE k + 1 \in T
  <2>1. k + 1 \in 1 .. n /\ (k + 1) - 1 = k /\ k + 1 \in 0 .. n
    BY <1>1, <1>4
  <2>2. PICK a \in Int, b \in Int : a = Sums(f)[k] /\ b = f[k + 1]
    BY <1>2, <2>1 DEF Periods
  <2>3. Sums(g)[k + 1] = c * a + c * b
    BY <1>2, <1>4, <2>1, <2>2 DEF Periods
  <2>4. Sums(f)[k + 1] = a + b
    BY <1>2, <2>1, <2>2
  <2>5. c * a + c * b = c * (a + b)
    OBVIOUS
  <2> QED
    BY <2>1, <2>3, <2>4, <2>5
<1>5. \A k \in 0 .. n : k \in T
  <2> HIDE DEF T, n
  <2> QED
    BY <1>1, <1>3, <1>4, UpTo
<1> QED
  BY <1>1, <1>5 DEF Total

\* One term, and two of them, against the total.
LEMMA TotalOfOne ==
  ASSUME NEW f \in [Periods -> Nat], NEW p \in Periods
  PROVE  /\ f[p] <= Total(f)
         /\ \A q \in Periods \ {p} : f[p] + f[q] <= Total(f)
         /\ (\A q \in Periods \ {p} : f[q] = 0) => Total(f) = f[p]
<1> DEFINE n == NPeriods
           Alone == \A q \in Periods \ {p} : f[q] = 0
           T == {k \in 0 .. n :
                   /\ Sums(f)[k] \in Nat
                   /\ p <= k => f[p] <= Sums(f)[k]
                   /\ \A q \in Periods \ {p} : q <= k => f[q] <= Sums(f)[k]
                   /\ p <= k => \A q \in Periods \ {p} : q <= k => f[p] + f[q] <= Sums(f)[k]
                   /\ Alone => Sums(f)[k] = IF p <= k THEN f[p] ELSE 0}
<1>1. n \in Nat /\ p \in 1 .. n /\ Periods = 1 .. n
  BY BoundsAssumption DEF Periods
<1>2. f \in [Periods -> Int] /\ \A q \in 1 .. n : f[q] \in Nat
  BY <1>1
<1>3. Sums(f)[0] = 0 /\ \A k \in 1 .. n : Sums(f)[k] = Sums(f)[k - 1] + f[k]
  BY <1>1, <1>2, SumsDef
<1>4. 0 \in T
  BY <1>1, <1>3
<1>5. ASSUME NEW k \in 0 .. n, k \in T, k < n PROVE k + 1 \in T
  <2>1. k + 1 \in 1 .. n /\ (k + 1) - 1 = k /\ k + 1 \in 0 .. n
    BY <1>1, <1>5
  <2>2. Sums(f)[k + 1] = Sums(f)[k] + f[k + 1] /\ f[k + 1] \in Nat /\ Sums(f)[k] \in Nat
    BY <1>2, <1>3, <1>5, <2>1
  <2>3. Sums(f)[k + 1] \in Nat
    BY <2>2
  <2>4. p <= k + 1 => f[p] <= Sums(f)[k + 1]
    <3>1. CASE p = k + 1
      BY <2>2, <3>1
    <3>2. CASE p <= k
      BY <1>1, <1>2, <1>5, <2>2, <3>2
    <3> QED
      BY <1>1, <3>1, <3>2
  <2>5. ASSUME NEW q \in Periods \ {p}, q <= k + 1 PROVE f[q] <= Sums(f)[k + 1]
    <3>1. CASE q = k + 1
      BY <2>2, <3>1
    <3>2. CASE q <= k
      BY <1>1, <1>2, <1>5, <2>2, <3>2
    <3> QED
      BY <1>1, <2>5, <3>1, <3>2
  <2>6. ASSUME p <= k + 1, NEW q \in Periods \ {p}, q <= k + 1
        PROVE  f[p] + f[q] <= Sums(f)[k + 1]
    <3>0. f[p] \in Nat /\ f[q] \in Nat /\ q \in 1 .. n
      BY <1>1, <1>2
    <3>1. CASE p = k + 1
      <4>1. f[q] <= Sums(f)[k]
        BY <1>1, <1>5, <2>6, <3>0, <3>1
      <4> QED
        BY <2>2, <3>0, <3>1, <4>1
    <3>2. CASE q = k + 1
      <4>1. f[p] <= Sums(f)[k]
        BY <1>1, <1>5, <2>6, <3>0, <3>2
      <4> QED
        BY <2>2, <3>0, <3>2, <4>1
    <3>3. CASE p <= k /\ q <= k
      <4>1. f[p] + f[q] <= Sums(f)[k]
        BY <1>5, <3>3
      <4> QED
        BY <2>2, <3>0, <4>1
    <3> QED
      BY <1>1, <2>6, <3>0, <3>1, <3>2, <3>3
  <2>7. Alone => Sums(f)[k + 1] = IF p <= k + 1 THEN f[p] ELSE 0
    <3> SUFFICES ASSUME Alone PROVE Sums(f)[k + 1] = IF p <= k + 1 THEN f[p] ELSE 0
      OBVIOUS
    <3>1. Sums(f)[k] = IF p <= k THEN f[p] ELSE 0
      BY <1>5
    <3>2. CASE p = k + 1
      BY <1>1, <2>2, <3>1, <3>2
    <3>3. CASE p # k + 1
      <4>1. f[k + 1] = 0
        BY <1>1, <2>1, <3>3
      <4>2. p <= k + 1 <=> p <= k
        BY <1>1, <3>3
      <4> QED
        BY <2>2, <3>1, <4>1, <4>2
    <3> QED
      BY <3>2, <3>3
  <2> HIDE DEF Alone
  <2> QED
    BY <2>1, <2>3, <2>4, <2>5, <2>6, <2>7
<1>6. \A k \in 0 .. n : k \in T
  <2> HIDE DEF T, n
  <2> QED
    BY <1>1, <1>4, <1>5, UpTo
<1>7. n \in T /\ p <= n /\ \A q \in Periods : q <= n
  BY <1>1, <1>6
<1> HIDE DEF n
<1> QED
  BY <1>7 DEF Total, n

\* A product over the runs.
LEMMA ProductsDef ==
  ASSUME NEW f \in [Runs -> Int]
  PROVE  /\ \A r \in Runs : Products(f)[r] \in Int
         /\ Products(f)[0] = f[0]
         /\ \A r \in Periods : Products(f)[r] = Products(f)[r - 1] * f[r]
<1> DEFINE n == NPeriods
           G == [r \in 1 .. n |-> [x \in Int |-> x * f[r]]]
           step(h) == [r \in 0 .. n |-> IF r = 0 THEN f[r] ELSE h[r - 1] * f[r]]
<1>1. n \in Nat /\ f[0] \in Int /\ \A r \in 1 .. n : f[r] \in Int
  BY BoundsAssumption DEF Runs
<1>2. G \in StepFunctions(n, Int)
  BY <1>1 DEF StepFunctions
<1>3. PICK h : Iterates(h, n, Int, f[0], G)
  <2> HIDE DEF G, n
  <2> QED
    BY <1>1, <1>2, Recursion
<1>4. \A r \in 1 .. n : h[r] = h[r - 1] * f[r]
  <2> TAKE r \in 1 .. n
  <2>1. r - 1 \in 0 .. n
    BY <1>1
  <2>2. h[r - 1] \in Int
    BY <1>3, <2>1 DEF Iterates
  <2> QED
    BY <1>3, <2>2 DEF Iterates
<1>5. h = step(h)
  BY <1>1, <1>3, <1>4 DEF Iterates
<1>6. Products(f) = CHOOSE product : product = step(product)
  BY DEF Products, Runs
<1>7. Products(f) = step(Products(f))
  <2> HIDE DEF step
  <2> QED
    BY <1>5, <1>6
<1>8. Products(f)[0] = f[0] /\ \A r \in 1 .. n : Products(f)[r] = Products(f)[r - 1] * f[r]
  <2>1. 0 \in 0 .. n /\ \A r \in 1 .. n : r \in 0 .. n /\ r # 0
    BY <1>1
  <2> HIDE DEF n
  <2> QED
    BY <1>7, <2>1
<1>9. \A r \in 0 .. n : Products(f)[r] \in Int
  <2> DEFINE T == {r \in 0 .. n : Products(f)[r] \in Int}
  <2>1. 0 \in T
    BY <1>1, <1>8
  <2>2. ASSUME NEW r \in 0 .. n, r \in T, r < n PROVE r + 1 \in T
    <3>1. r + 1 \in 1 .. n /\ (r + 1) - 1 = r
      BY <1>1, <2>2
    <3>2. Products(f)[r + 1] = Products(f)[r] * f[r + 1]
      BY <1>8, <3>1
    <3>3. Products(f)[r] \in Int /\ f[r + 1] \in Int
      BY <1>1, <2>2, <3>1
    <3>4. Products(f)[r + 1] \in Int
      BY <3>2, <3>3
    <3> QED
      BY <3>1, <3>4
  <2>3. \A r \in 0 .. n : r \in T
    <3> HIDE DEF T, n
    <3> QED
      BY <1>1, <2>1, <2>2, UpTo
  <2> QED
    BY <2>3
<1> QED
  BY <1>8, <1>9 DEF Periods, Runs

\* One factor taken out of a product.
LEMMA ProductWithout ==
  ASSUME NEW f \in [Runs -> Int], NEW r \in Runs
  PROVE  LET g == [q \in Runs |-> IF q = r THEN 1 ELSE f[q]]
         IN  Product(g) \in Int /\ Product(f) = f[r] * Product(g)
<1> DEFINE n == NPeriods
           g == [q \in Runs |-> IF q = r THEN 1 ELSE f[q]]
           T == {k \in 0 .. n : Products(f)[k] = (IF r <= k THEN f[r] ELSE 1) * Products(g)[k]}
<1>1. n \in Nat /\ Runs = 0 .. n /\ Periods = 1 .. n /\ r \in 0 .. n
  BY BoundsAssumption DEF Runs, Periods
<1>2. g \in [Runs -> Int]
  OBVIOUS
<1>3. /\ \A k \in 0 .. n : Products(f)[k] \in Int
      /\ Products(f)[0] = f[0] /\ \A k \in 1 .. n : Products(f)[k] = Products(f)[k - 1] * f[k]
  BY <1>1, ProductsDef
<1>4. /\ \A k \in 0 .. n : Products(g)[k] \in Int
      /\ Products(g)[0] = g[0] /\ \A k \in 1 .. n : Products(g)[k] = Products(g)[k - 1] * g[k]
  <2> HIDE DEF g
  <2> QED
    BY <1>1, <1>2, ProductsDef
<1>5. \A k \in 0 .. n : f[k] \in Int /\ g[k] = IF k = r THEN 1 ELSE f[k]
  BY <1>1
<1> HIDE DEF g
<1>6. 0 \in T
  <2>1. 0 \in 0 .. n
    BY <1>1
  <2>2. CASE r = 0
    BY <1>3, <1>4, <1>5, <2>1, <2>2
  <2>3. CASE r # 0
    BY <1>1, <1>3, <1>4, <1>5, <2>1, <2>3
  <2> QED
    BY <2>2, <2>3
<1>7. ASSUME NEW k \in 0 .. n, k \in T, k < n PROVE k + 1 \in T
  <2>1. k + 1 \in 1 .. n /\ (k + 1) - 1 = k /\ k + 1 \in 0 .. n
    BY <1>1, <1>7
  <2>2. PICK x \in Int, y \in Int, a \in Int, b \in Int :
          x = Products(f)[k] /\ y = Products(g)[k] /\ a = f[k + 1] /\ b = f[r]
    BY <1>1, <1>3, <1>4, <1>5, <2>1
  <2>3. x = (IF r <= k THEN b ELSE 1) * y
    BY <1>7, <2>2
  <2>4. Products(f)[k + 1] = x * a /\ Products(g)[k + 1] = y * g[k + 1]
    BY <1>3, <1>4, <2>1, <2>2
  <2>5. CASE r = k + 1
    <3>1. a = b /\ g[k + 1] = 1 /\ ~(r <= k)
      BY <1>5, <2>1, <2>2, <2>5
    <3>2. x * a = b * (y * 1)
      BY <2>3, <3>1
    <3> QED
      BY <2>1, <2>2, <2>4, <2>5, <3>1, <3>2
  <2>6. CASE r # k + 1
    <3>1. g[k + 1] = a /\ (r <= k <=> r <= k + 1)
      BY <1>1, <1>5, <2>1, <2>2, <2>6
    <3>2. x * a = (IF r <= k THEN b ELSE 1) * (y * a)
      BY <2>3
    <3> QED
      BY <2>1, <2>2, <2>4, <3>1, <3>2
  <2> QED
    BY <2>5, <2>6
<1>8. \A k \in 0 .. n : k \in T
  <2> HIDE DEF T, n
  <2> QED
    BY <1>1, <1>6, <1>7, UpTo
<1>9. n \in T /\ n \in 0 .. n /\ r <= n
  BY <1>1, <1>8
<1>10. Product(g) \in Int /\ Product(f) = f[r] * Product(g)
  BY <1>4, <1>9 DEF Product
<1> QED
  BY <1>10 DEF g

Share(p) == Quotient(InFile(p), combin)

\* Types, and the weights once calcPOT has made them.
WeightTypes ==
  /\ events \in [Runs -> Nat]
  /\ run_fractions \in [Periods -> Nat] /\ Total(run_fractions) = Unit

WeightsInv ==
  /\ WeightTypes
  /\ pc # "load" /\ kind \notin {"textgen", "onbeam"} =>
       run_weight = [r \in Runs |-> IF r = Outside THEN Whole(0) ELSE PeriodWeight(Share(r), r)]

LEMMA CountTypes ==
  ASSUME WeightTypes
  PROVE  /\ Outside \in Runs /\ \A p \in Periods : p \in Runs /\ p # Outside
         /\ InPeriods \in Nat /\ Counted \in Nat /\ InPeriods <= Counted
         /\ \A p \in Periods : events[p] \in Nat /\ events[p] <= InPeriods
<1> DEFINE f == [p \in Periods |-> events[p]]
<1>1. Outside \in Runs /\ \A p \in Periods : p \in Runs /\ p # Outside
  BY BoundsAssumption DEF Outside, Runs, Periods
<1>2. f \in [Periods -> Nat] /\ f \in [Periods -> Int] /\ events[Outside] \in Nat
  BY <1>1 DEF WeightTypes
<1>3. Total(f) \in Int /\ \A p \in Periods : f[p] <= Total(f)
  <2> HIDE DEF f
  <2> QED
    BY <1>2, TotalType, TotalOfOne
<1>4. Total(f) \in Nat
  <2>1. CASE NPeriods = 0
    <3>1. Sums(f)[0] = 0
      <4> HIDE DEF f
      <4> QED
        BY <1>2, SumsDef
    <3> QED
      BY <2>1, <3>1 DEF Total
  <2>2. CASE NPeriods # 0
    <3>1. 1 \in Periods
      BY <2>2, BoundsAssumption DEF Periods
    <3>2. f[1] \in Nat /\ f[1] <= Total(f)
      BY <1>2, <1>3, <3>1
    <3> QED
      BY <1>3, <3>2
  <2> QED
    BY <2>1, <2>2
<1>5. InPeriods = Total(f)
  BY DEF InPeriods
<1>6. \A p \in Periods : events[p] \in Nat /\ events[p] <= InPeriods
  BY <1>2, <1>3, <1>5
<1> QED
  BY <1>1, <1>2, <1>4, <1>5, <1>6 DEF Counted

\* The three weights a period can have, without the quotients.
LEMMA WeightCases ==
  ASSUME WeightTypes, NEW p \in Periods,
         NEW share, share = [num |-> events[p] * Counted, den |-> Counted * InPeriods]
  PROVE  /\ Share(p) = share
         /\ IsOne(share) => PeriodWeight(share, p) = Whole(1)
         /\ ~IsOne(share) /\ Unit * share.num # 0 =>
              PeriodWeight(share, p) = [num |-> run_fractions[p] * share.den, den |-> Unit * share.num]
         /\ ~IsOne(share) /\ Unit * share.num = 0 => PeriodWeight(share, p) = Whole(0)
<1>1. /\ InPeriods \in Int /\ Counted \in Int /\ events[p] \in Int
  BY CountTypes
<1>2. InFile(p) = [num |-> events[p], den |-> Counted]
  BY <1>1 DEF InFile, Quotient, Whole
<1>3. combin = [num |-> InPeriods, den |-> Counted]
  BY <1>1 DEF combin, Quotient, Whole
<1>4. Share(p) = share
  BY <1>2, <1>3 DEF Share, Quotient
<1> DEFINE mval == Quotient([num |-> run_fractions[p], den |-> Unit], share)
<1>5. mval = [num |-> run_fractions[p] * share.den, den |-> Unit * share.num]
  BY DEF Quotient
<1>6. IsFinite(mval) <=> Unit * share.num # 0
  BY <1>5 DEF IsFinite
<1>7. PeriodWeight(share, p) = CASE IsOne(share)                     -> Whole(1)
                                 [] ~IsOne(share) /\ IsFinite(mval)  -> mval
                                 [] ~IsOne(share) /\ ~IsFinite(mval) -> Whole(0)
  BY DEF PeriodWeight
<1> HIDE DEF mval
<1> QED
  BY <1>4, <1>5, <1>6, <1>7

\* What a period should weigh, in units of 1 / Unit: its fraction of the events
\* in the periods, or its own where it is the only one.
Target(p) == IF HasOne THEN Unit * events[p] ELSE run_fractions[p] * InPeriods

LEMMA WeightOfPeriod ==
  ASSUME WeightTypes, NEW p \in Periods, HasAll \/ HasOne
  PROVE  LET w == PeriodWeight(Share(p), p)
         IN  w.num \in Int /\ w.den \in Int /\ Unit * (events[p] * w.num) = Target(p) * w.den
<1> DEFINE e == events[p]
           C == InPeriods
           N == Counted
           fr == run_fractions[p]
           share == [num |-> e * N, den |-> N * C]
           w == PeriodWeight(share, p)
<1>1. Unit \in Nat \ {0} /\ e \in Nat /\ C \in Nat /\ N \in Nat /\ fr \in Nat /\ C <= N /\ e <= C
  BY BoundsAssumption, CountTypes DEF WeightTypes
<1>2. /\ Share(p) = share
      /\ IsOne(share) => w = Whole(1)
      /\ ~IsOne(share) /\ Unit * share.num # 0 => w = [num |-> fr * share.den, den |-> Unit * share.num]
      /\ ~IsOne(share) /\ Unit * share.num = 0 => w = Whole(0)
  BY WeightCases
<1>3. share.num = e * N /\ share.den = N * C /\ share.num \in Nat /\ share.den \in Nat
  BY <1>1
<1>4. IsOne(share) <=> share.den # 0 /\ share.num = share.den
  BY DEF IsOne
<1> HIDE DEF share, w
<1>5. w.num \in Int /\ w.den \in Int
  <2>1. CASE IsOne(share)
    BY <1>2, <2>1 DEF Whole
  <2>2. CASE ~IsOne(share) /\ Unit * share.num # 0
    BY <1>1, <1>2, <1>3, <2>2
  <2>3. CASE ~IsOne(share) /\ Unit * share.num = 0
    BY <1>2, <2>3 DEF Whole
  <2> QED
    BY <2>1, <2>2, <2>3
<1>6. ASSUME NEW f \in [Periods -> Nat], f = [q \in Periods |-> events[q]]
      PROVE  /\ (\E q \in Periods : f[q] > 0 /\ \A r \in Periods \ {q} : f[r] = 0) <=> HasOne
             /\ Total(f) = C
  BY <1>6, CountTypes DEF HasOne, InPeriods
<1>7. PICK f \in [Periods -> Nat] : f = [q \in Periods |-> events[q]]
  BY CountTypes
<1>8. CASE HasOne
  <2>1. PICK o \in Periods : events[o] > 0 /\ \A q \in Periods \ {o} : events[q] = 0
    BY <1>8 DEF HasOne
  <2>2. C = events[o]
    <3>1. \A q \in Periods \ {o} : f[q] = 0
      BY <1>7, <2>1
    <3>2. Total(f) = f[o]
      BY <3>1, TotalOfOne
    <3> QED
      BY <1>6, <1>7, <3>2
  <2>3. C > 0 /\ N > 0
    BY <1>1, <2>1, <2>2
  <2>4. N * C # 0
    BY <1>1, <2>3
  <2>5. Target(p) = Unit * e
    BY <1>8 DEF Target
  <2>6. CASE p = o
    <3>1. IsOne(share)
      BY <1>1, <1>3, <1>4, <2>2, <2>4, <2>6
    <3>2. w.num = 1 /\ w.den = 1
      BY <1>2, <3>1 DEF Whole
    <3> QED
      BY <1>1, <1>2, <1>5, <2>5, <3>2 DEF w
  <2>7. CASE p # o
    <3>1. e = 0
      BY <2>1, <2>7
    <3>2. share.num = 0
      BY <1>1, <1>3, <3>1
    <3>3. ~IsOne(share) /\ Unit * share.num = 0
      BY <1>1, <1>3, <1>4, <2>4, <3>2
    <3>4. w.num = 0 /\ w.den = 1
      BY <1>2, <3>3 DEF Whole
    <3> QED
      BY <1>1, <1>2, <1>5, <2>5, <3>1, <3>4 DEF w
  <2> QED
    BY <2>6, <2>7
<1>9. CASE ~HasOne
  <2>1. HasAll /\ Target(p) = fr * C
    BY <1>9 DEF Target
  <2>2. CASE e = 0
    <3>1. fr = 0
      BY <1>1, <2>1, <2>2 DEF HasAll
    <3>2. share.num = 0
      BY <1>1, <1>3, <2>2
    <3>3. ~IsOne(share) /\ Unit * share.num = 0
      BY <1>1, <1>4, <3>2
    <3>4. w.num = 0 /\ w.den = 1
      BY <1>2, <3>3 DEF Whole
    <3>5. Target(p) = 0
      BY <1>1, <2>1, <3>1
    <3> QED
      BY <1>1, <1>2, <1>5, <2>2, <3>4, <3>5 DEF w
  <2>3. CASE e # 0
    <3>1. e > 0 /\ N > 0 /\ C > 0
      BY <1>1, <2>3
    <3>2. e # C
      <4> SUFFICES ASSUME e = C PROVE FALSE
        OBVIOUS
      <4>1. \A q \in Periods \ {p} : f[p] + f[q] <= Total(f)
        BY TotalOfOne
      <4>2. f[p] = Total(f) /\ f[p] > 0
        BY <1>6, <1>7, <3>1
      <4>3. ASSUME NEW q \in Periods \ {p} PROVE f[q] = 0
        <5>1. f[q] \in Nat /\ f[p] \in Nat /\ f[p] + f[q] <= f[p]
          BY <4>1, <4>2
        <5> QED
          BY <5>1
      <4>4. HasOne
        BY <1>6, <1>7, <4>2, <4>3
      <4> QED
        BY <1>9, <4>4
    <3>3. e * N # N * C
      BY <1>1, <3>1, <3>2
    <3>4. e * N # 0
      BY <1>1, <3>1
    <3>5. Unit * (e * N) # 0
      BY <1>1, <1>3, <3>4
    <3>6. w = [num |-> fr * share.den, den |-> Unit * share.num]
      BY <1>2, <1>3, <1>4, <3>3, <3>5
    <3>7. w.num = fr * (N * C) /\ w.den = Unit * (e * N)
      BY <1>3, <3>6
    <3>8. Unit * (e * (fr * (N * C))) = (fr * C) * (Unit * (e * N))
      <4> HIDE DEF e, N, C, fr
      <4> QED
        BY <1>1
    <3>9. Unit * (e * w.num) = Target(p) * w.den
      BY <2>1, <3>7, <3>8
    <3> QED
      BY <1>2, <1>5, <3>9 DEF w
  <2> QED
    BY <2>2, <2>3
<1> QED
  BY <1>8, <1>9

LEMMA TargetsTotal ==
  ASSUME WeightTypes
  PROVE  /\ \A p \in Periods : Target(p) \in Int
         /\ Total([p \in Periods |-> Target(p)]) = Unit * InPeriods
<1>1. /\ Unit \in Int /\ InPeriods \in Int
      /\ \A p \in Periods : events[p] \in Int /\ run_fractions[p] \in Int
  BY BoundsAssumption, CountTypes DEF WeightTypes
<1>2. \A p \in Periods : Target(p) \in Int
  BY <1>1 DEF Target
<1>3. PICK t \in [Periods -> Int] : t = [p \in Periods |-> Target(p)]
  BY <1>2
<1>4. CASE HasOne
  <2>1. PICK f \in [Periods -> Int] : f = [p \in Periods |-> events[p]]
    BY <1>1
  <2>2. \A p \in Periods : t[p] = Unit * f[p]
    BY <1>3, <1>4, <2>1 DEF Target
  <2>3. Total(t) = Unit * Total(f)
    BY <1>1, <2>2, TotalScaled
  <2> QED
    BY <1>2, <1>3, <2>1, <2>3 DEF InPeriods
<1>5. CASE ~HasOne
  <2>1. run_fractions \in [Periods -> Int]
    BY DEF WeightTypes
  <2>2. \A p \in Periods : t[p] = InPeriods * run_fractions[p]
    BY <1>1, <1>3, <1>5 DEF Target
  <2>3. Total(t) = InPeriods * Total(run_fractions)
    BY <1>1, <2>1, <2>2, TotalScaled
  <2>4. Total(t) = InPeriods * Unit
    BY <2>3 DEF WeightTypes
  <2> QED
    BY <1>1, <1>2, <1>3, <2>4
<1> QED
  BY <1>4, <1>5

LEMMA WeightsKeepCounts ==
  ASSUME WeightsInv
  PROVE  NormalisationKept
<1> SUFFICES ASSUME pc # "load", kind \notin {"textgen", "onbeam"}, HasAll \/ HasOne
             PROVE  Weighted.num = InPeriods * Weighted.den
  BY DEF NormalisationKept
<1>1. /\ Unit \in Nat \ {0} /\ InPeriods \in Int /\ \A p \in Periods : events[p] \in Int
      /\ Outside \in Runs /\ \A p \in Periods : p \in Runs /\ p # Outside
      /\ events[Outside] \in Int
  BY BoundsAssumption, CountTypes DEF WeightsInv, WeightTypes
<1>2. /\ run_weight[Outside] = Whole(0)
      /\ \A p \in Periods : run_weight[p] = PeriodWeight(Share(p), p)
  BY <1>1 DEF WeightsInv
<1>3. \A p \in Periods : /\ run_weight[p].num \in Int /\ run_weight[p].den \in Int
                         /\ Unit * (events[p] * run_weight[p].num) = Target(p) * run_weight[p].den
  BY <1>2, WeightOfPeriod DEF WeightsInv
<1>4. run_weight[Outside].num = 0 /\ run_weight[Outside].den = 1
  BY <1>2 DEF Whole
<1>5. \A r \in Runs : run_weight[r].den \in Int
  BY <1>3, <1>4, BoundsAssumption DEF Runs, Periods, Outside
<1>6. PICK dens \in [Runs -> Int] : dens = [r \in Runs |-> run_weight[r].den]
  BY <1>5
<1> DEFINE D == Product(dens)
<1>7. ASSUME NEW r \in Runs
      PROVE  OtherDens(r) \in Int /\ D = run_weight[r].den * OtherDens(r)
  <2>1. OtherDens(r) = Product([q \in Runs |-> IF q = r THEN 1 ELSE dens[q]])
    <3>1. [q \in Runs |-> IF q = r THEN 1 ELSE dens[q]]
            = [q \in Runs |-> IF q = r THEN 1 ELSE run_weight[q].den]
      BY <1>6
    <3> QED
      BY <3>1 DEF OtherDens
  <2>2. dens[r] = run_weight[r].den
    BY <1>6
  <2> QED
    BY <2>1, <2>2, ProductWithout
<1>8. D \in Int
  <2>1. NPeriods \in Runs
    BY BoundsAssumption DEF Runs
  <2> QED
    BY <2>1, ProductsDef DEF Product
<1> HIDE DEF D
<1>9. ASSUME NEW p \in Periods PROVE Part(p) \in Int /\ Unit * Part(p) = D * Target(p)
  <2>1. PICK e \in Int, a \in Int, b \in Int, o \in Int, t \in Int :
          /\ e = events[p] /\ a = run_weight[p].num /\ b = run_weight[p].den
          /\ o = OtherDens(p) /\ t = Target(p)
    BY <1>1, <1>3, <1>7, TargetsTotal DEF WeightsInv
  <2>2. Part(p) = e * a * o
    BY <2>1 DEF Part
  <2>3. Unit * (e * a) = t * b /\ D = b * o
    BY <1>1, <1>3, <1>7, <2>1
  <2>4. Unit * (e * a * o) = (Unit * (e * a)) * o
    BY <1>1
  <2>5. (t * b) * o = (b * o) * t
    OBVIOUS
  <2>6. Part(p) \in Int
    BY <2>2
  <2> QED
    BY <2>1, <2>2, <2>3, <2>4, <2>5, <2>6
<1>10. PICK part \in [Periods -> Int] : part = [p \in Periods |-> Part(p)]
  BY <1>9
<1>11. PICK t \in [Periods -> Int] : t = [p \in Periods |-> Target(p)]
  BY TargetsTotal DEF WeightsInv
<1>12. PICK scaled \in [Periods -> Int] : scaled = [p \in Periods |-> Unit * part[p]]
  <2>1. Unit \in Int
    BY BoundsAssumption
  <2>2. \A p \in Periods : Unit * part[p] \in Int
    BY <1>10, <2>1
  <2> QED
    BY <2>2
<1>13. Total(scaled) = Unit * Total(part)
  BY <1>1, <1>12, TotalScaled
<1>14. Total(scaled) = D * Total(t)
  <2>1. \A p \in Periods : scaled[p] = D * t[p]
    BY <1>9, <1>10, <1>11, <1>12
  <2> QED
    BY <1>8, <2>1, TotalScaled
<1>15. Total(t) = Unit * InPeriods
  BY <1>11, TargetsTotal DEF WeightsInv
<1>16. Total(part) \in Int
  BY TotalType
<1>17. Unit * Total(part) = D * (Unit * InPeriods)
  BY <1>13, <1>14, <1>15
<1>18. Total(part) = InPeriods * D
  BY <1>1, <1>8, <1>16, <1>17
<1>19. Part(Outside) = 0
  <2>1. OtherDens(Outside) \in Int
    BY <1>1, <1>7
  <2> QED
    BY <1>1, <1>4, <2>1 DEF Part
<1>20. Weighted.num = Part(Outside) + Total(part) /\ Weighted.den = D
  BY <1>6, <1>10 DEF Weighted, D
<1> QED
  BY <1>1, <1>8, <1>18, <1>19, <1>20

LEMMA WeightsStart == Init => WeightsInv
<1> SUFFICES ASSUME Init PROVE WeightsInv
  OBVIOUS
<1>1. events \in [Runs -> 0 .. MaxEvents] /\ run_fractions \in Fractions /\ pc = "load"
  BY DEF Init, WeightsInit
<1>2. run_fractions \in [Periods -> 0 .. Unit] /\ Total(run_fractions) = Unit
  BY <1>1, FractionsAssumption
<1>3. WeightTypes
  BY <1>1, <1>2, BoundsAssumption DEF WeightTypes
<1> QED
  BY <1>1, <1>3 DEF WeightsInv

LEMMA WeightsStep == WeightsInv /\ [Next]_vars => WeightsInv'
<1> SUFFICES ASSUME WeightsInv, [Next]_vars PROVE WeightsInv'
  OBVIOUS
<1>1. ASSUME UNCHANGED <<events, run_fractions>>
      PROVE  WeightTypes'
  <2>1. Total(run_fractions)' = Total(run_fractions)
    BY <1>1 DEF Total, Sums
  <2> QED
    BY <1>1, <2>1 DEF WeightsInv, WeightTypes
<1>2. CASE CalcPOT
  <2>1. UNCHANGED <<kind, events, run_fractions>>
    BY <1>2 DEF CalcPOT
  <2>2. \A p \in Periods : run_fractions_file'[p] = Share(p)
    BY <1>2 DEF CalcPOT, Share
  <2>3. \A r \in Runs : r # Outside => r \in Periods
    BY BoundsAssumption DEF Runs, Outside, Periods
  <2>4. kind \notin {"textgen", "onbeam"} =>
          run_weight' = [r \in Runs |-> IF r = Outside THEN Whole(0) ELSE PeriodWeight(Share(r), r)]
    BY <1>2, <2>2, <2>3 DEF CalcPOT
  <2>5. \A r \in Runs : PeriodWeight(Share(r), r)' = PeriodWeight(Share(r), r)
    BY <2>1 DEF Total, Sums, Share, Quotient, InFile, combin, Counted, InPeriods, PeriodWeight
  <2> QED
    BY <1>1, <2>1, <2>4, <2>5 DEF WeightsInv
<1>3. CASE UNCHANGED weightvars /\ (pc' = pc \/ pc # "load")
  <2>1. UNCHANGED <<kind, events, run_fractions, run_weight>>
    BY <1>3 DEF weightvars
  <2>2. \A r \in Runs : PeriodWeight(Share(r), r)' = PeriodWeight(Share(r), r)
    BY <2>1 DEF Total, Sums, Share, Quotient, InFile, combin, Counted, InPeriods, PeriodWeight
  <2> QED
    BY <1>1, <1>3, <2>1, <2>2 DEF WeightsInv
<1> QED
  BY <1>2, <1>3 DEF Next, SetUp, StartScan, ScanPoint, EndScan, vars

(* The run weights of a sample that has every run period of the data, or one *)
(* alone, leave the number of its events in the periods as it was: any       *)
(* number of periods, of events in them, and any fractions of the data.      *)
THEOREM NormalisationAlwaysKept == Spec => []NormalisationKept
<1>1. WeightsInv => NormalisationKept
  BY WeightsKeepCounts
<1> QED
  BY <1>1, WeightsStart, WeightsStep, PTL DEF Spec
=============================================================================
