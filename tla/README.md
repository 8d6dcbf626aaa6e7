# Hellstrom's Hive in TLA+

A verification development kept beside `hellstroms_hive`, the event selection
framework of the MicroBooNE single photon analyses (`hive/inc`, `hive/src`). It
holds TLA+ modules translated from the code, TLC configurations that
model-check them, and theorems checked by TLAPS.

`hive` is one sequential program. A user runs it again and again, each time
with `--mode` saying what to do and an analysis XML saying with which samples;
the invocations communicate through files in the working directory. Threads
meet in one place only: every libSVM file is read by XGBoost through
`dmlc::ThreadedIter`. What is hard here:

* **State across invocations.** Entry lists, friend trees, libSVM files and
  models stay on disk while the XML that made them changes, and an invocation
  can die while it writes one.
* **State hidden in ROOT objects.** A `TTree` has *one* active entry list. Every
  `Draw` and `GetEntries` reads under it, so what a count means depends on all
  calls made before, in other functions.
* **Alignment by position.** Scores, flags and trees are put together because
  they have the same number of entries in the same order. Nothing else ties them.
* **Parallel vectors.** Samples, merge flags, histograms and legend entries are
  kept in several lists, indexed by positions that do not always agree.
* **Reading ahead.** A producer thread fills a bounded queue for its client, who
  may start over, give up, or be told of an exception at any moment.

## Components

| Component (source) | State | Operations | Interacts with | What makes it correct | Status |
|---|---|---|---|---|---|
| Base entry lists (`bdt_file.cxx` 735-800) | `<tag>_<analysis>_entrylists.root`: hash keys and two lists; `topological_list`, `precut_list` | `calcBaseEntryList` | every invocation after the XML is read | lists are those of the present configuration; a crash leaves nothing misleading | modelled |
| Stage cuts and stage entry lists (`bdt_flow.cxx`, `bdt_file.cxx` 697-709, 1210-1323) | `vec_entry_lists`, the active list of the tree | `getStageCuts`, `calcBDTEntryList`, `setStageEntryList` | all plotting and counting modes | a stage list holds exactly the entries that pass the stage | modelled |
| Modes' calls on the lists (`hive.cxx`, `bdt_datamc`, `bdt_recomc`, `bdt_varplot`, `bdt_eff`, `bdt_sig`) | none of their own | sequences of calls and scans | stage entry lists | a scan sees what it is meant to see; efficiencies stay below one | modelled as plans |
| Flat and unflat trees (`bdt_file.cxx` 1858-2148) | three trees, loop counters | `MakeFlatTree`, `MakeFlatFriend`, `MakeUnFlatTree` | `addFriend` | entry *e* goes with event *e* | modelled |
| Training and application (`bdt_train.cxx`, `bdt_app.cxx`) | libSVM files, model, friend tree, the cursor of `TEntryList` | training, `convertToLibSVM`, `bdt_XGapp`, `addFriend` | base entry lists, each other through files | every entry gets its own score, of one model, or -999 | XGBoost path modelled; TMVA and super BDT not |
| Reading threads (`dmlc/threadediter.h`) | queue, free cells, signals, two condition variables | `Next`, `Recycle`, `BeforeFirst`, `Destroy`, the producer loop | XGBoost's parser, used by training and application | every item once and in order; no lost wakeup; bounded memory | modelled |
| Sample loading (`hive.cxx` 376-543, `load_mva_param.cxx`) | lists of files, `mergeDownVector`, `signal` | the loading loop of `main` | every mode | the lists agree; nothing is lost but training files | loop modelled; XML parsing not |
| Stacked plots (`bdt_datamc.cxx` 665-801, `bdt_spec.cxx`) | stack, histograms, legend | `addToStack`, `getStack`, `getSignalOnTop`, merge-down, legend | sample loading | each sample is drawn and counted once, where the XML says | stack, merge and legend modelled |
| POT and run periods (`bdt_file.cxx` 292-600) | `pot`, run fractions, weight string | `calcPOT` | every scaled count, the significance scan | weights keep the number of events | run weights modelled; POT sums not |
| Significance scan (`bdt_sig.cxx`) | grid, best point | `scan_significance`, chi-square scans, cut grid | stage entry lists, run weights | the best point is a grid point with the largest chi-square | entry lists, grid and iterated scan modelled |
| Run lists (`duplicate_suite_2022.h`) | set of run/subrun/event numbers | one membership test per event | `makeSBNfitFile`, `MakeFlatTree` | training events are left out | not modelled: its answer is an event's `skip` in `FlatTree` |
| Covariance, pre-calculated variables, variables and binning, response plots, validation, truncated mean | no state that outlives one pass | formulas and drawing | | | not modelled: arithmetic or drawing without control state |
| `obsol`, `validates`, `validation_vars` | | | | | not compiled into `hive` |
| The rest of XGBoost, tinyxml, ROOT dictionaries, XMLs, trained models, scripts | | | | | third-party code and data |

`PROJECT.json` lists the components with their sources and the hazards with
their lines.

## Modules

**`EntryListCache`** is one entry list file over many invocations. A list is
identified with the configuration it was drawn under, and a configuration is
whatever the list depends on, so "the right list" means "the list of the present
`config`". ROOT keeps older cycles of an object and `Get` returns the newest, so
the file is its set of hash keys and the newest list under each name. The order
of writes (hash, topological list, precut list, close) is one action each,
because a `Crash` may come between any two; a reader then finds the file as it
was, or, after ROOT's recovery, everything written so far. `EditConfig` is the
user between invocations. `HashOf` is the Jenkins hash, any function.
`strayed` is a history variable: it turns true when the user comes to a hash used
before (the same configuration again, a collision, or another sample under the
same name), and when a writer dies with the hash in the file and not both lists.
**`BaseEntryLists`** is the abstract specification: every invocation
draws its lists anew. Until `strayed` the cache implements it
(`ImplementsBaseLists`).

**`Pipeline`** composes it with the other files between invocations: the libSVM file
and the model of a training, the libSVM file and the friend tree of an application.
It extends `EntryListCache`, whose actions are those of its stage "lists". What was
made is again identified with the configuration it was made under, so a stale file
is one with an older name in it. Modelled as they are: an `ofstream` that does not
open and a prediction that fails go unnoticed (`unwritten`, a history variable), the
model is emptied before it is saved, the friend file is recreated before the
features are read, an error of XGBoost ends in `exit`, which closes the friend file
without a tree, and a process that is killed leaves one that cannot be opened.
`FriendAccepted` is `addFriend`, which every mode runs first. **`ScoreStore`** is
its abstract specification: scores appear all at once, made by the present model for
the present analysis, or are lost.

**`ThreadedIter`** is `dmlc::ThreadedIter`: producer and client as two program
counters, a step being what a thread does in one critical section, or one access
outside (the store to `produce_end_`, each notification). Waits may wake up
spuriously. `cell`, `taken` and `held` say who has which cell. The client is
XGBoost's parser: `Next`, `Recycle` and `BeforeFirst` in any legal order, and
`Destroy` between any two. Its two clients (`parser.h:105`,
`threaded_input_split.h:61-76`) pass a cell of their own to `Next` and call nothing
after `Destroy`, so the give-back of `out_data_` in `BeforeFirst` and the early
returns on `kDestroy` are dead code for them and left out. **`ItemStream`** is the
abstract specification: the items in order, then the end, from the start again after
a rewind, or an exception.

**`StageCuts`** reads each cut string as the set of entries that pass it. The
overloads differ as in the code: `>=` in `bdt_flow`, `>` in `bdt_file`, the
answer outside the range. **`StageEntryLists`** is one `bdt_file` in memory: the
slots of `vec_entry_lists` (null or drawn), the active list and `exit`. A list
is drawn under the active one (`DrawnList`). `filledFor` is a history variable.
With `AnyOrder = FALSE` calls go up the stages with one cut argument
(`InOrder`). **`StagePlans`** is an invocation in one of the modes that use the
lists (`job`: mode, stage, cut values). A mode is a loop over stages, BDTs,
variables or grid points (`Rounds`), and `Body` gives the calls and scans a round
makes on a file, translated from `hive.cxx` and the class each mode calls; they are
run one by one over the actions of `StageEntryLists`. A scan remembers what it saw
and what it was meant to see, and `whole` is the count that later ones are divided
by. `CallersGoInOrder` says that what the modes do is a behaviour of
`StageEntryLists` with `AnyOrder = FALSE`. The call of `calcBaseEntryList` in the
middle of `bdt_efficiency` is left out: it loads the lists `main` has loaded.
Stages go from -1 to one past the last. At the upper end `calcBDTEntryList` writes
behind the end of `vec_entry_lists` before any check (`bdt_file.cxx:707`);
`CalcPastLast` has both outcomes, the process ends there, or the write hits foreign
memory and `setStageEntryList` ends it next. What the foreign memory was is not
modelled.

**`FlatTree`** and **`UnFlatTree`** are the modes flatten, flatfriend and
unflatten in sequence. An event is its candidate counter, the length of its
first vector, and whether the filter cut or the training list skips it. A row is
the event and cluster it was written for, so misalignment is visible.

**`XGApp`** is mode app for XGBoost: one line per precut entry through the
cursor of `TEntryList`, one score per line, spread over a friend tree. A score
is the entry its line was written for. `size_t` is `0..SizeMax`, and the -1 of an
exhausted list becomes `SizeMax`. The libSVM file may fail to open, which the
code does not notice; then an older file is read. `safe_xgboost` ends the program
when the model does not load (`model_loads`) and when the libSVM file is missing or
has no bytes (`DataReadable`), as after an empty precut list: `ExitOnError`, pc
"exited". The code `XGBoosterPredict` returns is not looked at; if it fails, `out_len`
stays 0 and no score is used.

**`SampleLoading`** is the loading loop of `main` for an arbitrary list of files and
a mode; **`StackPlot`** continues with the stack of modes datamc and gif: filling it
file by file (gif goes over the files twice), the merge-down loop, the zeroing loop,
the legend loop, the signal on top. A histogram is the set of files whose events it
counts. Flags are read with stack positions from a vector built over all files, as
in the code. `makefluxcovar` stands for the three modes that leave the loop at once,
`datamc` for the modes that load everything but training files.

**`RunWeights`** is the part of `calcPOT` that reweights a simulated sample from its
own mixture of run periods to the data's. Numbers are quotients; one with
denominator 0 stands for an infinity or NaN, which the code tells from others by
`isfinite`. Sums go period by period, as the loops of the code do. **`ChiScan`**
continues with the iterated chi-square scan of mode sig over such a sample:
`GrabPoint` is the decoding of a grid index with its conversions between `int` (up
to `IntMax`) and `size_t` (up to `SizeTMax`), and `total_pts` the product of the
axes; a chi-square is any positive number where weighted signal passes the cuts, and
0 where none does.

`MCEntryListCache`, `MCPipeline`, `MCStageEntryLists`, `MCStagePlans`,
`MCStackPlot` and `MCChiScan` give the constants their values; `UnFlatTree`,
`XGApp` and `ThreadedIter` need numbers only. Operators whose comment begins
"Mutant of" are deliberate errors: with one put in place of the definition it
names, the run must find its property violated. They are not part of any
specification.

## Runs

| Run | Shows | Bounds, and why they are enough |
|---|---|---|
| `pipeline` | `Fresh`, `ImplementsBaseLists`, `ListsHaveHash`, `PrecutOfOwnTree` of the entry lists; `LinesMatchList`, `AcceptedScoresFit`, `ImplementsScoreStore` of the scores; `PipelineTypeOK` | 4 configurations on 2 trees, two of them with one hash, two with a length of their own; 5 invocations: train, apply, edit, and more to notice, with a death or a file that does not open anywhere |
| `elc_revisit` | finding: `AlwaysFresh` fails for A, B, A | 3 invocations, no crash, no collision |
| `sel_anyorder` | `TypeOK`, `ListsSound`, `ActiveListExists` for every order of calls | 2 BDTs; 8 entries, for each cut one above, one below, one exactly on it |
| `plan_live` | `StageScansExact`, `CallersGoInOrder`, `ListsComplete`, `EfficienciesBelowOne` for the plans of every mode | the same entries, 3 vectors of cut values, a grid in 2 dimensions, 2 variables (the second is the first to see leftovers), all stages in turn, and each from -1 to one past the last |
| `plan_eff` | finding: `DenominatorsOverFile` | 2 variables |
| `flat` | `TypeOK`, `ExactWithoutSkips`, `EntryCountKept`, `NoScoreLost`, `FriendCheckSuffices` | 3 events of up to 2 clusters: first, middle and last event, each with none, one or several clusters, each skipped or not |
| `flat_misaligned` | finding: `OneEntryPerEvent` with skipped events | as `flat` |
| `app` | `TypeOK`, `EveryEntryItsScore`, `NeverAghr`, `WrittenTreeFits`, `AppEnds` | 4 entries, every precut list, empty ones too, and every older file of up to 4 lines; a model that loads or not, a prediction that fails or not; `SizeMax` = 7 lies beyond every entry |
| `samples` | `TypeOK`, `SignificanceSeesTheStack`, `FileNumbersAreXMLNumbers`, `NothingDrawnTwice`, `LegendMatchesPlot`, `TotalIsDrawn`, `MergedAsConfigured` | up to 4 files of 9 kinds (those of the XMLs in the repository), 5 modes: a flagged sample, its target, and one sample on either side |
| `load_dropped` | finding: `OnlyTrainingLeftOut` | 2 files |
| `chi` | `NormalisationKept` of the run weights, `BestCutsUsed` of the iterated scan | 3 run periods and runs outside them, 0 to 2 events in each, a period without data; 1 or 2 BDTs with up to 3 steps; 1 or 3 iterations: something to carry and something to carry it over; an `int` up to 7 and a `size_t` up to 255, which no grid exceeds |
| `titer` | `TypeOK`, `ImplementsStream`, `NoLostWakeup`, `BoundedCells`, `ChecksHold`, `CallsReturn` | 4 items through a queue of 2: the queue is full, half full and empty with items still to come; any number of rewinds |

`CHECK_DEADLOCK FALSE` is set throughout: invocations end, the bound on their
number ends the rest, and a destroyed iterator has nothing left to do. That the
two threads never sleep together is part of `NoLostWakeup`.

Some properties have a precondition that the code needs and does not check:

* `LegendMatchesPlot` and `TotalIsDrawn` hold if no two flagged samples follow
  each other (`NoRunsOfFlags`): `saved` keeps one histogram, the legend adds up
  all. `TotalIsDrawn` also needs the last sample unflagged. `MergedAsConfigured`
  needs the on-beam data after the flagged samples, as it is in the XMLs of the
  repository, and mode datamc: gif reorders the stack and not the flags.
  `NothingDrawnTwice` holds without any of these.
* `Fresh` and the refinements of the files hold until `strayed`, that of the
  scores also until `unwritten`; `LinesMatchList` holds until `unwritten`,
  `PrecutOfOwnTree` and `AcceptedScoresFit` always. The return to an earlier
  configuration is itself straying, so only the finding of `elc_revisit` shows what it
  leads to.
* `EfficienciesBelowOne` says something of modes eff and sig; the others divide by
  the whole file. `TotalIsDrawn` is about the stack, not about what
  `getSignalOnTop` returns.
* `NormalisationKept` is about samples with all run periods the data has, or with
  one. A sample that lacks one of several loses that share.
* `FriendCheckSuffices` needs the counter among the flattened variables.
* `EveryEntryItsScore` and `AppEnds` need the libSVM file to have been written.
  `AppEnds` does fail otherwise: with more lines than entries the gap is filled up
  to the largest `size_t`. It promises a tree when the model loads and the precuts
  pass an entry, `exit` otherwise. `EveryEntryItsScore` promises scores if XGBoost
  returned them (`Predicted`), -999 throughout if it did not.

### Fairness

`XGApp`: `WF_vars(Next)` says that `bdt_XGapp`, a sequence of loops without
waiting or calls to other processes, takes its next step. `ThreadedIter`: weak
fairness of the producer and, apart from it, of the client inside a call: the
operating system runs a thread that is not blocked. A client need not call, and
spurious wakeups need not happen, so neither has fairness. `CallsReturn` makes one
exception, `OrphanedRewind`: a `BeforeFirst` past its look at the exception waits
for a producer that then dies of one. In the other components steps are taken by
a person who may stop at any point, or are plain sequences whose end nobody waits
for; they have no fairness and no liveness property.

## Findings

* `elc_revisit`: a hash among the keys says that its lists were *once* written;
  they may have been replaced since (`bdt_file.cxx:759`).
* `plan_eff`: the denominator of the second variable in mode eff is counted on
  the stage list of the first (`bdt_eff.cxx:542`).
* `flat_misaligned`: one skipped event shifts the scores of all later events, with
  the entry count still right (`bdt_file.cxx:2108`).
* `load_dropped`: a training file in the middle of the XML drops the samples after
  it: `break` where `continue` is meant (`hive.cxx:413`).

Met while modelling, without a run of their own:

* `setStageEntryList` with cut values reuses a list drawn for others
  (`bdt_file.cxx:1221`); `scan_significance` counts its total signal on the list
  of the lowest grid point (`bdt_sig.cxx:56`, `EfficienciesBelowOne` still holds).
* Three modes read element 0 of an empty list of signal files (`hive.cxx:543`,
  both outcomes are in `TakeSignal`). `getSum` of an empty stack throws.
* `plotEfficiency` would divide by its own numerator (`bdt_datamc.cxx:1784`, its
  calls are commented out). `MakeFlatFriend` ignores the filter of `MakeFlatTree`
  (`bdt_file.cxx:2050`), which the entry count of `addFriend` does catch
  (`FriendCheckSuffices`, proved).
* An empty precut list ends mode app in `exit`, after the friend file was recreated
  (`bdt_app.cxx:248`, `AppEnds`). A failure of `XGBoosterPredict` is not noticed
  (`bdt_app.cxx:254`): the tree is -999 throughout and `addFriend` accepts it.
* Modes recomc, vars and eff at one stage past the last write out of range
  (`bdt_file.cxx:707`, `CalcPastLast`).
* An application that ends in `exit` leaves a readable friend file without its tree,
  which `addFriend` dereferences in every later invocation, mode app included; a
  sample replaced by one of another length makes even mode app exit before it
  could make new scores (`bdt_file.cxx:1171`). The file must be removed by hand.
* `BeforeFirst` may wait for ever (`OrphanedRewind`, `threadediter.h:195`).
* `round_to` may put the lowest value of a grid below `scan_min`, at which the lists
  of `scan_significance` are drawn, if that has more than three decimals
  (`bdt_sig.cxx:1405`). No XML of the repository has; `PlansAssumption` says so.
* With no positive chi-square `best_point` is -1, decoded as a point of the grid
  without a message (`bdt_sig.cxx:226`).

## Proofs

Each theorem holds for every value of the constants that satisfies the named
assumptions in the modules.

**`PipelineProofs`, entry lists.** The types are inductive as they stand.
`ListsAlwaysHashed` (`ListsHaveHash`, crashes included) needs `HashInv`: the
pending file is hashed as well, and from the first write on its hash is among the
keys and the lists in memory are those of `config`, which is why the hash must be
written first. `PrecutAlwaysOfOwnTree` needs that the precut list under each name
was drawn on the tree of that name, in both copies of the file. For
`FreshUnlessStrayed` (`Fresh`), `FreshInv` says that until `strayed` every
hash in the file belongs to a configuration already used, and that if the
present one's is there the lists are its own. `CacheImplementsBaseLists` follows:
under `FreshInv` a hit is a draw. None of them assumes anything of the hash or of
crashes.

**`PipelineProofs`, scores.** `PipelineUsesCache` shows that a behaviour of `Pipeline` is one
of `EntryListCache`, so the theorems above hold of it. `PipelineTypeCorrect`,
`LinesAlwaysMatch`, `AcceptedAlwaysFit` and `PipelineImplementsScoreStore` rest
on one invariant: what the running application has made so far follows the list
it holds, and is of the present configuration until the user strays (here
`Fresh` is used). Every step then maps to a step of `ScoreStore` or a stutter.

**`ThreadedIterProofs`.** One invariant of four parts. `ControlInv` ties the two
program counters to the signals and cells; `OrderInv` says that the queue, the item
in the producer's hands and `source` continue what the client was given, unless
a rewind or an exception has made them void; `WakeInv` says who is on the way to
wake a sleeper; `CellsInv` counts. From it: `TypeCorrect`, `NoWakeupLost`,
`MemoryBounded`, `ChecksAlwaysHold`, and `IterImplementsStream`, the refinement of
`ItemStream`, for any number of items and any capacity.

**`StageEntryListsProofs`.** `ActiveListAlwaysExists` and `ListsAlwaysSound` hold
for any order of calls, as does `TypeCorrect`: a slot once drawn stays drawn, and
drawing intersects with the selection. `ListsCompleteInOrder` assumes `AnyOrder =
FALSE`. The selections nest (`SelectionsNest`: a later stage passes fewer entries),
so a list drawn under a complete list of a lower stage is complete (`DrawnUpwards`);
`CompleteInv` is completeness together with types and the existence of the active
list.

**`StagePlansProofs`.** All four properties of run `plan_live`, for any number of
BDTs and variables, any cuts and any grid above its lowest point. `PlanInv` says,
for each place in each mode's loop, which list is on the tree, which slots are
drawn and for which cuts, and within what the next numerator will be counted.
Three facts carry it: while a stage's list is on the tree its slot is complete;
all slots are drawn for the cuts of the job (`DrawnForJob`); the stage of a
round never lies below the list on the tree. `CallersAlwaysInOrder` shows each step
to be one of `StageEntryLists` called in order, and `PlanListsComplete` then is
`ListsCompleteInOrder` applied to the modes. `StageScansAlwaysExact` follows
because a scan under a complete list with its own cuts sees the selection of the
stage. A call one stage past the last ends the program or leaves the lists as they are
(`PastLastOutcome`).
`EfficienciesAlwaysBelowOne` follows from the nesting of selections, also
where the denominator was counted on a narrowed list: the list is never
taken off, so the numerator is counted on it or on one above.

**`UnFlatTreeProofs`.** `TypeCorrect`; `EntryCountAlwaysKept` from `CountInv` (the
counter is the number of entries written, and stays below the number of events
until the last fill); `RoundTripExact` (`ExactWithoutSkips`) from
`RoundTripInv`: the rows of the flat tree follow one another cluster by cluster
and event by event without gaps (`FlatShape`), so the unflattening loop, which can
advance by one event per row, is never behind (`UnFlatShape`).

**`XGAppProofs`.** `AppInv` states where the cursor of the entry list stands after
`num` steps, what the tree holds below it, and that the due entry is never behind
the tree. From it: `TypeCorrect`, `ScoresReachTheirEntries` (`EveryEntryItsScore`,
with `out_len` either the number of lines or 0), `AghrUnreachable` (`NeverAghr`,
whatever the file holds) and `WrittenTreeAlwaysFits` (`WrittenTreeFits`).

The same module has `FriendCheckIsEnough` (`FriendCheckSuffices`): there is a
table of where each event's rows end in the flat tree (`Blocks`), and no event has
more rows there than `MakeFlatFriend` writes for it; so the friend is never
behind, and level only if it was level after every event so far (`Beside`).
`NoScoreIsLost` (`NoScoreLost`), with events skipped or not: the entries written
and the vector being collected are one set of slots, which holds each score read
so far at one place (`Holding`); a row adds at most one slot, closing an entry adds
none, and no two rows with a score are equal (`RowsDistinct`).

**`StackPlotProofs`.** All seven properties of run `samples`, for XMLs of any
length. The invariants follow the program: `LoadInv` says what each list of `main`
holds after *f* files; `StackInv` what the iterations of the stack loop have
taken, none twice; `MergeInv` gives every histogram in closed form (`Merged`: its
own file and, after a flagged sample, the one saved); `LegendInv` does so for the
legend (`Counted`). The property theorems compare the closed forms: `TypeCorrect`,
`FileNumbersAlwaysXMLNumbers`, `SignificanceAlwaysSeesTheStack`,
`NothingEverDrawnTwice`, `LegendAlwaysMatchesPlot`, `TotalAlwaysDrawn`,
`AlwaysMergedAsConfigured`.

**`ChiScanProofs`.** The library's induction schemes take an operator as a
parameter, which the provers cannot instantiate. The first part of the module
does without them: every non-empty set of natural numbers has a least member
(`MinimalSet`, from finite sets in the library), so a *set* of numbers that holds
0 and, up to `n`, each successor is all of `0..n` (`UpTo`). With that a recursive
function of the model exists and satisfies its equation (`Recursion`), and what it
computes is proved by taking for the set the numbers at which the claim holds.

*The scan*, for any number of BDTs and steps as long as the number of grid points
is an `int`, as `total_pts` is. The conversions then change nothing
(`Conversions`), the index is written in the digits of the axes, and `GrabPoint` maps
`0..max_pts - 1` onto the grid, one to one (`GrabPointOnto`, `GrabPointOneToOne`).
`ScanInv`: the points visited so far are those below `i`, and `best_chi` is the
largest chi-square among them, or 0 with all of them 0 (`BestSoFar`).
`BestCutsAlwaysUsed` (`BestCutsUsed`) follows, with and without a positive
chi-square: an index of -1 is decoded into the grid too (`GrabPointInGrid`).

*The weights*, for any number of run periods, events and fractions. `WeightsInv`
says that the weights are those of the file's shares. For each period, its events
times its weight are its target, the data's share of the file's events
(`WeightOfPeriod`), in a file with every period or with one; the targets add up to
the events (`TargetsTotal`), and sums and products are linear (`TotalScaled`,
`ProductWithout`). `NormalisationAlwaysKept` (`NormalisationKept`) puts these
together over the common denominator.

TLC has checked `PlanInv`, `ScanInv` and `WeightsInv` on the instances of the runs.

Only model-checked: `AppEnds` and `CallsReturn`, which are liveness properties under
fairness and out of this prover's reach.

## Not modelled

* Floating point: errors, significances, chi-squares and covariance matrices,
  POT sums, physics variables. No control depends on them but the comparisons
  that are in the models.
* Drawing, output formatting, option and XML parsing: single passes without state.
* `bdt_app` and `bdt_train` for TMVA, the super BDT and the cosmic split: files of
  the same kind in the same order, written by libraries outside the repository.
* The boosting, the parsing of libSVM text and the rest of XGBoost, tinyxml, ROOT:
  third-party code, most of the lines under `src`. `ThreadedIter` is the exception
  because its threads run inside `hive`.
* `calcTopologicalEntryList`, `calcPrecutEntryList` and the deprecated overloads of
  `convertToLibSVM` that write training files: no caller.

## Plan

Done: all modules above, and the proof of every safety property, action property
and refinement that a passing run checks. Left:

1. The collapse of the covariance matrix over merged samples in `bdt_datamc`, against
   the histograms of `StackPlot`.
2. The two-dimensional plots, which mix positions of two lists (`hive.cxx:1103`).
3. Lemmas that no property states yet: that the decoded grid visits a point once per
   scan (`GrabPointOneToOne` has the fact), and the safety half of `AppEnds`, how many
   steps `bdt_XGapp` can take.
