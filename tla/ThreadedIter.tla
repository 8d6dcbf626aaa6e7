---------------------------- MODULE ThreadedIter ----------------------------
(***************************************************************************)
(* dmlc::ThreadedIter, the only place where threads meet in hive: XGBoost  *)
(* reads every libSVM file through two of them, one over another.  A       *)
(* producer thread fills cells ahead of the client, through a queue of     *)
(* filled cells, a queue of cells to be used again, and two condition      *)
(* variables over one mutex.                                               *)
(*                                                                         *)
(* A step is what one thread does while it holds mutex_ (or                *)
(* mutex_exception_), or one access outside: the store to produce_end_     *)
(* after the source was read, and the notifications sent after unlocking.  *)
(* A cell is the number of the item in it; empty cells are counted.        *)
(***************************************************************************)
EXTENDS Naturals, Sequences

CONSTANTS
  NItems,         \* items the source has
  Capacity,       \* max_capacity_
  MayThrow        \* whether reading the source may throw

ASSUME ThreadedIterAssumption ==
  /\ NItems \in Nat
  /\ Capacity \in Nat \ {0}
  /\ MayThrow \in BOOLEAN

VARIABLES
  producer_sig,            \* what the producer is asked to do
  producer_sig_processed,  \* whether BeforeFirst or Destroy has been done
  produce_end,             \* produce_end_: the source is exhausted
  queue,                   \* queue_: items filled and not taken
  free_cells,              \* size of free_cells_
  iter_exception,          \* whether iter_exception_ is set
  source,                  \* items read from the source since its start
  cell,                    \* whether the producer has a cell in hand
  p_pc, p_asleep,          \* the producer: where it is, whether its wait blocks
  c_pc, c_asleep,          \* the client thread, likewise
  taken,                   \* what Next is about to answer: an item, 0 for none
  held,                    \* whether the client holds a cell
  read, answer             \* history: items the client got, its latest answer

signalVars == <<producer_sig, producer_sig_processed, produce_end>>
cellVars == <<queue, free_cells, cell>>
producerVars == <<source, cell, p_pc>>
clientVars == <<c_pc, taken, held, read, answer>>
vars == <<producer_sig, producer_sig_processed, produce_end, queue, free_cells,
          iter_exception, source, cell, p_pc, p_asleep, c_pc, c_asleep, taken,
          held, read, answer>>

ProducerAt == {"top", "wait", "rewound", "next", "push", "notify", "caught",
               "recorded", "last", "exit"}

ClientAt == {"idle", "next_lock", "next_wait", "next_notify", "next_return",
             "recycle_lock", "recycle_notify", "recycle_return",
             "rewind_lock", "rewind_wait", "rewind_notify", "rewind_return",
             "thrown", "join", "destroyed"}

\* nwait_producer_ and nwait_consumer_: raised for as long as wait() lasts.
nwait_producer == IF p_pc = "wait" THEN 1 ELSE 0

nwait_consumer == IF c_pc = "next_wait" THEN 1 ELSE 0

\* The condition of producer_cond_.wait.
ProducerGoes ==
  producer_sig = "kProduce" =>
    ~produce_end /\ (Len(queue) < Capacity \/ free_cells # 0)

\* The condition of consumer_cond_.wait in Next.
ClientGoes == queue # <<>> \/ produce_end

\* The result of `nwait_producer_ != 0 && !produce_end_`.
ProducerToNotify == nwait_producer # 0 /\ ~produce_end

\* producer_cond_.notify_one(), consumer_cond_.notify_all().
NotifyProducer == p_asleep' = FALSE

NotifyClient == c_asleep' = FALSE

Init ==
  /\ producer_sig = "kProduce"
  /\ producer_sig_processed = FALSE
  /\ produce_end = FALSE
  /\ queue = <<>>
  /\ free_cells = 0
  /\ iter_exception = FALSE
  /\ source = 0
  /\ cell = FALSE
  /\ p_pc = "top" /\ p_asleep = FALSE
  /\ c_pc = "idle" /\ c_asleep = FALSE
  /\ taken = 0
  /\ held = FALSE
  /\ read = 0
  /\ answer = "none"

-----------------------------------------------------------------------------
(* The producer thread.                                                    *)

\* It has the mutex at the top of its loop, or again after a notification.
AtWait == p_pc = "top" \/ (p_pc = "wait" /\ ~p_asleep)

Sleep ==
  /\ AtWait
  /\ ~ProducerGoes
  /\ p_pc' = "wait"
  /\ p_asleep' = TRUE
  /\ UNCHANGED <<signalVars, cellVars, iter_exception, source, clientVars, c_asleep>>

\* Mutant of TakeCell: cells given back are never used again.
TakeNewCell ==
  /\ AtWait
  /\ ProducerGoes
  /\ producer_sig = "kProduce"
  /\ cell' = FALSE
  /\ p_pc' = "next"
  /\ UNCHANGED <<signalVars, queue, free_cells, iter_exception, source, p_asleep, clientVars,
                 c_asleep>>

\* kProduce: use a cell again if there is one.
TakeCell ==
  /\ AtWait
  /\ ProducerGoes
  /\ producer_sig = "kProduce"
  /\ cell' = (free_cells # 0)
  /\ free_cells' = IF free_cells # 0 THEN free_cells - 1 ELSE 0
  /\ p_pc' = "next"
  /\ UNCHANGED <<signalVars, queue, iter_exception, source, p_asleep, clientVars, c_asleep>>

\* Mutant of Reset: items read ahead stay in the queue.
ResetSource ==
  /\ AtWait
  /\ producer_sig = "kBeforeFirst"
  /\ source' = 0
  /\ produce_end' = FALSE
  /\ producer_sig_processed' = TRUE
  /\ producer_sig' = "kProduce"
  /\ p_pc' = "rewound"
  /\ UNCHANGED <<queue, free_cells, cell, iter_exception, p_asleep, clientVars, c_asleep>>

\* kBeforeFirst: the source is reset and the queue emptied.
Reset ==
  /\ AtWait
  /\ producer_sig = "kBeforeFirst"
  /\ source' = 0
  /\ free_cells' = free_cells + Len(queue)
  /\ queue' = <<>>
  /\ produce_end' = FALSE
  /\ producer_sig_processed' = TRUE
  /\ producer_sig' = "kProduce"
  /\ p_pc' = "rewound"
  /\ UNCHANGED <<cell, iter_exception, p_asleep, clientVars, c_asleep>>

\* beforefirst() throws: the wait is left with the mutex released.
ResetThrows ==
  /\ MayThrow
  /\ AtWait
  /\ producer_sig = "kBeforeFirst"
  /\ p_pc' = "caught"
  /\ UNCHANGED <<signalVars, cellVars, iter_exception, source, p_asleep, clientVars, c_asleep>>

\* kDestroy: the thread returns.
Quit ==
  /\ AtWait
  /\ producer_sig = "kDestroy"
  /\ producer_sig_processed' = TRUE
  /\ produce_end' = TRUE
  /\ NotifyClient
  /\ p_pc' = "exit"
  /\ UNCHANGED <<producer_sig, cellVars, iter_exception, source, p_asleep, clientVars>>

\* Mutant of ReadSource: the source does not stop at its end.
ReadSourceOn ==
  /\ p_pc = "next"
  /\ cell' = TRUE
  /\ source' = source + 1
  /\ produce_end' = (source = NItems)
  /\ p_pc' = "push"
  /\ UNCHANGED <<producer_sig, producer_sig_processed, queue, free_cells, iter_exception,
                 p_asleep, clientVars, c_asleep>>

\* produce_end_.store(!next(&cell)), outside the mutex.  A cell is made for
\* the source if there was none, also when it turns out to be at its end.
ReadSource ==
  /\ p_pc = "next"
  /\ cell' = TRUE
  /\ source' = IF source < NItems THEN source + 1 ELSE source
  /\ produce_end' = (source = NItems)
  /\ p_pc' = "push"
  /\ UNCHANGED <<producer_sig, producer_sig_processed, queue, free_cells, iter_exception,
                 p_asleep, clientVars, c_asleep>>

\* next(&cell) throws, and the cell is lost.
SourceThrows ==
  /\ MayThrow
  /\ p_pc = "next"
  /\ cell' = FALSE
  /\ p_pc' = "caught"
  /\ UNCHANGED <<signalVars, queue, free_cells, iter_exception, source, p_asleep,
                 clientVars, c_asleep>>

\* Mutant of PushCell: the client is told of items, not of the end.
PushCellQuiet ==
  /\ p_pc = "push"
  /\ queue' = IF produce_end THEN queue ELSE Append(queue, source)
  /\ free_cells' = IF produce_end THEN free_cells + 1 ELSE free_cells
  /\ cell' = FALSE
  /\ p_pc' = IF nwait_consumer # 0 /\ ~produce_end THEN "notify" ELSE "top"
  /\ UNCHANGED <<signalVars, iter_exception, source, p_asleep, clientVars, c_asleep>>

PushCell ==
  /\ p_pc = "push"
  /\ queue' = IF produce_end THEN queue ELSE Append(queue, source)
  /\ free_cells' = IF produce_end THEN free_cells + 1 ELSE free_cells
  /\ cell' = FALSE
  /\ p_pc' = IF nwait_consumer # 0 THEN "notify" ELSE "top"
  /\ UNCHANGED <<signalVars, iter_exception, source, p_asleep, clientVars, c_asleep>>

\* consumer_cond_.notify_all() after a push, or after a reset.
PushNotify ==
  /\ p_pc \in {"notify", "rewound"}
  /\ NotifyClient
  /\ p_pc' = "top"
  /\ UNCHANGED <<signalVars, cellVars, iter_exception, source, p_asleep, clientVars>>

\* The catch block keeps the first exception, under its own mutex.
KeepException ==
  /\ p_pc = "caught"
  /\ iter_exception' = TRUE
  /\ p_pc' = "recorded"
  /\ UNCHANGED <<signalVars, cellVars, source, p_asleep, clientVars, c_asleep>>

\* Then it says so to the client, depending on what was asked.
EndByException ==
  /\ p_pc = "recorded"
  /\ produce_end' = (producer_sig # "kDestroy" \/ produce_end)
  /\ IF producer_sig = "kBeforeFirst"
     THEN /\ free_cells' = free_cells + Len(queue)
          /\ queue' = <<>>
          /\ producer_sig_processed' = TRUE
     ELSE UNCHANGED <<queue, free_cells, producer_sig_processed>>
  /\ p_pc' = IF \/ producer_sig = "kBeforeFirst"
                \/ producer_sig = "kProduce" /\ nwait_consumer # 0
             THEN "last" ELSE "exit"
  /\ UNCHANGED <<producer_sig, cell, iter_exception, source, p_asleep, clientVars, c_asleep>>

LastNotify ==
  /\ p_pc = "last"
  /\ NotifyClient
  /\ p_pc' = "exit"
  /\ UNCHANGED <<signalVars, cellVars, iter_exception, source, p_asleep, clientVars>>

ProducerNext ==
  \/ Sleep \/ TakeCell \/ Reset \/ ResetThrows \/ Quit
  \/ ReadSource \/ SourceThrows \/ PushCell \/ PushNotify
  \/ KeepException \/ EndByException \/ LastNotify

-----------------------------------------------------------------------------
(* The client: it calls Next, gives the cell back with Recycle before the  *)
(* next Next, calls BeforeFirst when it likes, with or without a cell in   *)
(* hand, and destroys the iterator in the end.  ThreadedParser,            *)
(* ThreadedInputSplit and the parser's reader in DMatrix::Create are such  *)
(* clients.                                                                *)

\* ThrowExceptionIfSet: the client gets the exception, or goes on.
GoOnAt(place) ==
  IF iter_exception
  THEN c_pc' = "thrown" /\ answer' = "failed"
  ELSE c_pc' = place /\ UNCHANGED answer

CallNext ==
  /\ c_pc = "idle"
  /\ ~held
  /\ GoOnAt("next_lock")
  /\ UNCHANGED <<signalVars, cellVars, iter_exception, source, p_pc, p_asleep, c_asleep,
                 taken, held, read>>

AtNextWait == c_pc = "next_lock" \/ (c_pc = "next_wait" /\ ~c_asleep)

SleepInNext ==
  /\ AtNextWait
  /\ ~ClientGoes
  /\ c_pc' = "next_wait"
  /\ c_asleep' = TRUE
  /\ UNCHANGED <<signalVars, cellVars, iter_exception, source, p_pc, p_asleep,
                 taken, held, read, answer>>

TakeItem ==
  /\ AtNextWait
  /\ queue # <<>>
  /\ taken' = Head(queue)
  /\ queue' = Tail(queue)
  /\ c_pc' = IF ProducerToNotify THEN "next_notify" ELSE "next_return"
  /\ UNCHANGED <<signalVars, free_cells, cell, iter_exception, source, p_pc, p_asleep,
                 c_asleep, held, read, answer>>

FindEnd ==
  /\ AtNextWait
  /\ queue = <<>>
  /\ produce_end
  /\ taken' = 0
  /\ c_pc' = "next_return"
  /\ UNCHANGED <<signalVars, cellVars, iter_exception, source, p_pc, p_asleep, c_asleep,
                 held, read, answer>>

\* Next looks for an exception once more before it answers; an item taken is
\* lost then.
ReturnFromNext ==
  /\ c_pc = "next_return"
  /\ taken' = 0
  /\ IF iter_exception
     THEN /\ c_pc' = "thrown"
          /\ answer' = "failed"
          /\ UNCHANGED <<held, read>>
     ELSE /\ c_pc' = "idle"
          /\ answer' = IF taken # 0 THEN "item" ELSE "end"
          /\ held' = (taken # 0)
          /\ read' = IF taken # 0 THEN taken ELSE read
  /\ UNCHANGED <<signalVars, cellVars, iter_exception, source, p_pc, p_asleep, c_asleep>>

CallRecycle ==
  /\ c_pc = "idle"
  /\ held
  /\ GoOnAt("recycle_lock")
  /\ UNCHANGED <<signalVars, cellVars, iter_exception, source, p_pc, p_asleep, c_asleep,
                 taken, held, read>>

\* Mutant of GiveBack: the producer is not told of the free cell.
GiveBackQuiet ==
  /\ c_pc = "recycle_lock"
  /\ free_cells' = free_cells + 1
  /\ held' = FALSE
  /\ c_pc' = "recycle_return"
  /\ UNCHANGED <<signalVars, queue, cell, iter_exception, source, p_pc, p_asleep, c_asleep,
                 taken, read, answer>>

GiveBack ==
  /\ c_pc = "recycle_lock"
  /\ free_cells' = free_cells + 1
  /\ held' = FALSE
  /\ c_pc' = IF ProducerToNotify THEN "recycle_notify" ELSE "recycle_return"
  /\ UNCHANGED <<signalVars, queue, cell, iter_exception, source, p_pc, p_asleep, c_asleep,
                 taken, read, answer>>

CallBeforeFirst ==
  /\ c_pc = "idle"
  /\ GoOnAt("rewind_lock")
  /\ UNCHANGED <<signalVars, cellVars, iter_exception, source, p_pc, p_asleep, c_asleep,
                 taken, held, read>>

\* The request; the wait that follows in the same critical section blocks
\* unless it has been processed already.  The clients keep their own cell, so
\* out_data_, which BeforeFirst would give back, is null; and they call nothing
\* after Destroy, so the early returns on kDestroy are not taken.
AskRewind ==
  /\ c_pc = "rewind_lock"
  /\ producer_sig' = "kBeforeFirst"
  /\ IF nwait_producer # 0 THEN NotifyProducer ELSE UNCHANGED p_asleep
  /\ c_pc' = "rewind_wait"
  /\ c_asleep' = ~producer_sig_processed
  /\ UNCHANGED <<producer_sig_processed, produce_end, cellVars, iter_exception, source, p_pc,
                 taken, held, read, answer>>

SleepInRewind ==
  /\ c_pc = "rewind_wait"
  /\ ~c_asleep
  /\ ~producer_sig_processed
  /\ c_asleep' = TRUE
  /\ UNCHANGED <<signalVars, cellVars, iter_exception, source, p_pc, p_asleep, clientVars>>

\* Mutant of RewindDone: the mark of the request is left set.
RewindDoneMarked ==
  /\ c_pc = "rewind_wait"
  /\ ~c_asleep
  /\ producer_sig_processed
  /\ c_pc' = IF ProducerToNotify THEN "rewind_notify" ELSE "rewind_return"
  /\ UNCHANGED <<signalVars, cellVars, iter_exception, source, p_pc, p_asleep,
                 c_asleep, taken, held, read, answer>>

RewindDone ==
  /\ c_pc = "rewind_wait"
  /\ ~c_asleep
  /\ producer_sig_processed
  /\ producer_sig_processed' = FALSE
  /\ c_pc' = IF ProducerToNotify THEN "rewind_notify" ELSE "rewind_return"
  /\ UNCHANGED <<producer_sig, produce_end, cellVars, iter_exception, source, p_pc, p_asleep,
                 c_asleep, taken, held, read, answer>>

\* producer_cond_.notify_one() after unlocking, in each of the three calls.
ClientNotify ==
  /\ c_pc \in {"next_notify", "recycle_notify", "rewind_notify"}
  /\ NotifyProducer
  /\ c_pc' = CASE c_pc = "next_notify" -> "next_return"
               [] c_pc = "recycle_notify" -> "recycle_return"
               [] c_pc = "rewind_notify" -> "rewind_return"
  /\ UNCHANGED <<signalVars, cellVars, iter_exception, source, p_pc, c_asleep,
                 taken, held, read, answer>>

ReturnFromRecycle ==
  /\ c_pc = "recycle_return"
  /\ GoOnAt("idle")
  /\ UNCHANGED <<signalVars, cellVars, iter_exception, source, p_pc, p_asleep, c_asleep,
                 taken, held, read>>

ReturnFromRewind ==
  /\ c_pc = "rewind_return"
  /\ IF iter_exception
     THEN c_pc' = "thrown" /\ answer' = "failed" /\ UNCHANGED read
     ELSE c_pc' = "idle" /\ answer' = "none" /\ read' = 0
  /\ UNCHANGED <<signalVars, cellVars, iter_exception, source, p_pc, p_asleep, c_asleep,
                 taken, held>>

\* Destroy, also on the way out after an exception.
CallDestroy ==
  /\ c_pc \in {"idle", "thrown"}
  /\ producer_sig' = "kDestroy"
  /\ IF nwait_producer # 0 THEN NotifyProducer ELSE UNCHANGED p_asleep
  /\ c_pc' = "join"
  /\ UNCHANGED <<producer_sig_processed, produce_end, cellVars, iter_exception, source, p_pc,
                 c_asleep, taken, held, read, answer>>

\* producer_thread_->join() returns; what is left of the cells is deleted.
Join ==
  /\ c_pc = "join"
  /\ p_pc = "exit"
  /\ queue' = <<>>
  /\ free_cells' = 0
  /\ c_pc' = "destroyed"
  /\ UNCHANGED <<signalVars, cell, iter_exception, source, p_pc, p_asleep, c_asleep,
                 taken, held, read, answer>>

\* Inside a call the client goes on by itself; which call comes next, if any,
\* is up to the program.
ClientInCall ==
  \/ SleepInNext \/ TakeItem \/ FindEnd \/ ReturnFromNext
  \/ GiveBack \/ ReturnFromRecycle
  \/ AskRewind \/ SleepInRewind \/ RewindDone \/ ReturnFromRewind
  \/ ClientNotify \/ Join

ClientCalls == CallNext \/ CallRecycle \/ CallBeforeFirst \/ CallDestroy

\* A wait on a condition variable may end for no reason.
SpuriousWake ==
  /\ \/ p_asleep /\ p_asleep' = FALSE /\ UNCHANGED c_asleep
     \/ c_asleep /\ c_asleep' = FALSE /\ UNCHANGED p_asleep
  /\ UNCHANGED <<signalVars, cellVars, iter_exception, source, p_pc, clientVars>>

Next == ProducerNext \/ ClientInCall \/ ClientCalls \/ SpuriousWake

\* The operating system runs a thread that is not blocked: the producer, and
\* the client until its call returns.
Fairness == WF_vars(ProducerNext) /\ WF_vars(ClientInCall)

Spec == Init /\ [][Next]_vars

FairSpec == Spec /\ Fairness

-----------------------------------------------------------------------------
TypeOK ==
  /\ producer_sig \in {"kProduce", "kBeforeFirst", "kDestroy"}
  /\ producer_sig_processed \in BOOLEAN
  /\ produce_end \in BOOLEAN
  /\ queue \in Seq(1..NItems)
  /\ free_cells \in Nat
  /\ iter_exception \in BOOLEAN
  /\ source \in 0..NItems
  /\ cell \in BOOLEAN
  /\ p_pc \in ProducerAt
  /\ p_asleep \in BOOLEAN
  /\ c_pc \in ClientAt
  /\ c_asleep \in BOOLEAN
  /\ taken \in 0..NItems
  /\ held \in BOOLEAN
  /\ read \in 0..NItems
  /\ answer \in {"none", "item", "end", "failed"}

\* The client gets every item once and in order, the end only after the last
\* item, and the first item again after BeforeFirst, whatever the producer was
\* doing when it was asked to start over.
Stream == INSTANCE ItemStream

ImplementsStream == Stream!StreamSpec

\* No notification is lost, and the two threads never wait for each other.  A
\* thread sleeps though it could go on only while the other is on its way to
\* wake it: each notification is decided under the mutex and sent after it was
\* released, and produce_end_ is stored without it.
NoLostWakeup ==
  /\ p_asleep /\ ProducerGoes => c_pc \in {"next_notify", "recycle_notify", "rewind_notify"}
  /\ c_asleep /\ c_pc = "next_wait" /\ ClientGoes => p_pc \in {"push", "notify", "last"}
  /\ c_asleep /\ c_pc = "rewind_wait" /\ producer_sig_processed => p_pc \in {"rewound", "last"}
  /\ ~(p_asleep /\ c_asleep)

\* Memory stays bounded: never more than max_capacity_ cells and one more, the
\* one the client holds, although a full queue does not stop a producer that
\* finds free cells.
One(b) == IF b THEN 1 ELSE 0

Cells == Len(queue) + free_cells + One(cell) + One(held) + One(taken # 0)

BoundedCells == Cells <= Capacity + 1

\* The CHECKs of the code never fail: Next finds no signal pending, and
\* BeforeFirst finds no earlier request marked as processed.
ChecksHold ==
  /\ c_pc = "next_lock" => producer_sig = "kProduce"
  /\ c_pc = "rewind_lock" => ~producer_sig_processed

\* Every call returns.  The exception is a BeforeFirst that was past its look
\* at the exception when the producer thread died of one: nobody is left to
\* answer.
InCall == c_pc \notin {"idle", "thrown", "destroyed"}

OrphanedRewind == c_pc = "rewind_wait" /\ p_pc = "exit" /\ iter_exception

CallsReturn == InCall ~> (~InCall \/ OrphanedRewind)
=============================================================================
