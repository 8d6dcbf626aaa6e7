------------------------- MODULE ThreadedIterProofs -------------------------
(* Proofs about ThreadedIter, for any number of items and any capacity.      *)
EXTENDS ThreadedIter, SequenceTheorems, TLAPS

InNext == {"next_lock", "next_wait", "next_notify", "next_return"}

ByException == {"recorded", "last", "exit"}

ToWakeProducer == {"next_notify", "recycle_notify", "rewind_notify"}

\* The producer thread has told the client of the exception it ends with.
AnsweredLast == iter_exception /\ p_pc \in {"last", "exit"}

\* Between the reset of the source and the return of BeforeFirst the items in
\* the queue are counted from the start, not from what the client has read.
Rewound == producer_sig_processed \/ c_pc \in {"rewind_notify", "rewind_return"}

Handed == IF Rewound THEN 0 ELSE IF taken # 0 THEN taken ELSE read

\* Where the threads can be, given the signal and who has seen what.
ControlInv ==
  /\ p_asleep => p_pc = "wait"
  /\ c_asleep => c_pc \in {"next_wait", "rewind_wait"}
  /\ cell => p_pc \in {"next", "push"}
  /\ p_pc = "push" => cell
  /\ p_pc = "push" /\ ~produce_end => source # 0
  /\ taken # 0 => c_pc \in {"next_notify", "next_return"}
  /\ c_pc = "next_notify" => taken # 0
  /\ held => c_pc \notin InNext \cup {"recycle_notify", "recycle_return"}
  /\ c_pc = "recycle_lock" => held
  /\ iter_exception => p_pc \in ByException
  /\ p_pc \in {"recorded", "last"} => iter_exception
  /\ p_pc = "exit" => iter_exception \/ producer_sig = "kDestroy"
  /\ c_pc = "thrown" => iter_exception
  /\ producer_sig = "kDestroy" <=> c_pc \in {"join", "destroyed"}
  /\ c_pc = "destroyed" => p_pc = "exit"
  /\ producer_sig = "kBeforeFirst" =>
       \/ c_pc = "rewind_wait"
       \/ AnsweredLast /\ c_pc \in {"rewind_notify", "rewind_return", "thrown"}
  /\ producer_sig_processed => c_pc = "rewind_wait" \/ producer_sig = "kDestroy"
  /\ c_pc = "rewind_wait" /\ ~producer_sig_processed => producer_sig = "kBeforeFirst"
  /\ c_pc = "rewind_wait" /\ producer_sig_processed =>
       producer_sig = "kProduce" \/ AnsweredLast
  /\ p_pc = "caught" \/ iter_exception => MayThrow
  /\ p_pc = "next" => ~produce_end
  /\ p_pc = "caught" /\ produce_end =>
       \/ c_pc = "rewind_wait" /\ ~producer_sig_processed
       \/ producer_sig = "kDestroy"

\* The queue continues what was handed over, and the source the queue.
OrderInv ==
  /\ producer_sig # "kDestroy" /\ c_pc # "thrown" => \A i \in 1..Len(queue) : queue[i] = Handed + i
  /\ producer_sig # "kDestroy" /\ p_pc \notin {"caught"} \cup ByException =>
       source = Handed + Len(queue) + (IF p_pc = "push" /\ ~produce_end THEN 1 ELSE 0)
  /\ producer_sig # "kDestroy" /\ produce_end => source = NItems \/ iter_exception
  /\ c_pc = "next_return" /\ taken = 0 => read = NItems \/ iter_exception
  /\ taken # 0 => taken = read + 1
  /\ answer = "failed" => c_pc \in {"thrown", "join", "destroyed"}

\* A sleeping thread's condition is false, or the other thread is about to
\* notify it.
WakeInv ==
  /\ p_asleep => ~ProducerGoes \/ c_pc \in ToWakeProducer
  /\ c_asleep /\ c_pc = "next_wait" => ~ClientGoes \/ p_pc \in {"push", "notify", "last"}
  /\ c_asleep /\ c_pc = "rewind_wait" =>
       ~producer_sig_processed \/ p_pc \in {"rewound", "last"}

\* One cell of room is left when the producer is to make a new one.
CellsInv ==
  /\ Cells <= Capacity + 1
  /\ p_pc = "next" /\ ~cell => Cells <= Capacity

\* The Boolean variables apart: what the two provers can do differs.
BoolOK ==
  /\ producer_sig_processed \in BOOLEAN
  /\ produce_end \in BOOLEAN
  /\ iter_exception \in BOOLEAN
  /\ cell \in BOOLEAN
  /\ p_asleep \in BOOLEAN
  /\ c_asleep \in BOOLEAN
  /\ held \in BOOLEAN

DataOK ==
  /\ producer_sig \in {"kProduce", "kBeforeFirst", "kDestroy"}
  /\ queue \in Seq(1..NItems)
  /\ free_cells \in Nat
  /\ source \in 0..NItems
  /\ p_pc \in ProducerAt
  /\ c_pc \in ClientAt
  /\ taken \in 0..NItems
  /\ read \in 0..NItems
  /\ answer \in {"none", "item", "end", "failed"}

LEMMA BoolStep ==
  ASSUME BoolOK, [Next]_vars
  PROVE  BoolOK'
<1> USE DEF BoolOK, signalVars, cellVars, clientVars
<1>1. CASE Sleep
  BY <1>1, Zenon DEF Sleep, AtWait, ProducerGoes
<1>2. CASE TakeCell
  BY <1>2, Zenon DEF TakeCell, AtWait, ProducerGoes
<1>3. CASE Reset
  BY <1>3, Zenon DEF Reset, AtWait
<1>4. CASE ResetThrows
  BY <1>4, Zenon DEF ResetThrows, AtWait
<1>5. CASE Quit
  BY <1>5, Zenon DEF Quit, AtWait, NotifyClient
<1>6. CASE ReadSource
  BY <1>6, Zenon DEF ReadSource
<1>7. CASE SourceThrows
  BY <1>7, Zenon DEF SourceThrows
<1>8. CASE PushCell
  BY <1>8, Zenon DEF PushCell, nwait_consumer
<1>9. CASE PushNotify
  BY <1>9, Zenon DEF PushNotify, NotifyClient
<1>10. CASE KeepException
  BY <1>10, Zenon DEF KeepException
<1>11. CASE EndByException
  BY <1>11, Zenon DEF EndByException, nwait_consumer
<1>12. CASE LastNotify
  BY <1>12, Zenon DEF LastNotify, NotifyClient
<1>13. CASE SleepInNext
  BY <1>13, Zenon DEF SleepInNext, AtNextWait, ClientGoes
<1>14. CASE TakeItem
  BY <1>14, Zenon DEF TakeItem, AtNextWait, ProducerToNotify, nwait_producer
<1>15. CASE FindEnd
  BY <1>15, Zenon DEF FindEnd, AtNextWait
<1>16. CASE ReturnFromNext
  BY <1>16, Zenon DEF ReturnFromNext
<1>17. CASE GiveBack
  BY <1>17, Zenon DEF GiveBack, ProducerToNotify, nwait_producer
<1>18. CASE ReturnFromRecycle
  BY <1>18, Zenon DEF ReturnFromRecycle, GoOnAt
<1>19. CASE AskRewind
  BY <1>19, Zenon DEF AskRewind, nwait_producer, NotifyProducer
<1>20. CASE SleepInRewind
  BY <1>20, Zenon DEF SleepInRewind
<1>21. CASE RewindDone
  BY <1>21, Zenon DEF RewindDone, ProducerToNotify, nwait_producer
<1>22. CASE ReturnFromRewind
  BY <1>22, Zenon DEF ReturnFromRewind
<1>23. CASE ClientNotify
  BY <1>23, Zenon DEF ClientNotify, NotifyProducer
<1>24. CASE Join
  BY <1>24, Zenon DEF Join
<1>25. CASE CallNext
  BY <1>25, Zenon DEF CallNext, GoOnAt
<1>26. CASE CallRecycle
  BY <1>26, Zenon DEF CallRecycle, GoOnAt
<1>27. CASE CallBeforeFirst
  BY <1>27, Zenon DEF CallBeforeFirst, GoOnAt
<1>28. CASE CallDestroy
  BY <1>28, Zenon DEF CallDestroy, nwait_producer, NotifyProducer
<1>29. CASE SpuriousWake
  BY <1>29, Zenon DEF SpuriousWake
<1>30. CASE UNCHANGED vars
  BY <1>30 DEF vars
<1> QED
  BY <1>1, <1>2, <1>3, <1>4, <1>5, <1>6, <1>7, <1>8, <1>9, <1>10, <1>11, <1>12, <1>13, <1>14,
     <1>15, <1>16, <1>17, <1>18, <1>19, <1>20, <1>21, <1>22, <1>23, <1>24, <1>25, <1>26, <1>27, <1>28,
     <1>29, <1>30
  DEF Next, ProducerNext, ClientInCall, ClientCalls

LEMMA DataStep ==
  ASSUME DataOK, BoolOK, ControlInv, [Next]_vars
  PROVE  DataOK'
<1> USE DEF DataOK, ProducerAt, ClientAt, signalVars, cellVars, clientVars
<1>1. CASE Sleep
  BY <1>1, ThreadedIterAssumption DEF Sleep, AtWait, ProducerGoes
<1>2. CASE TakeCell
  BY <1>2, ThreadedIterAssumption DEF TakeCell, AtWait, ProducerGoes
<1>3. CASE Reset
  BY <1>3, ThreadedIterAssumption DEF Reset, AtWait
<1>4. CASE ResetThrows
  BY <1>4, ThreadedIterAssumption DEF ResetThrows, AtWait
<1>5. CASE Quit
  BY <1>5, ThreadedIterAssumption DEF Quit, AtWait, NotifyClient
<1>6. CASE ReadSource
  BY <1>6, ThreadedIterAssumption DEF ReadSource
<1>7. CASE SourceThrows
  BY <1>7, ThreadedIterAssumption DEF SourceThrows
<1>8. CASE PushCell
  <2>1. ~produce_end => source \in 1..NItems
    BY <1>8, ThreadedIterAssumption DEF PushCell, ControlInv
  <2>2. queue \in Seq(1..NItems)
    OBVIOUS
  <2>3. queue' \in Seq(1..NItems)
    <3>1. CASE produce_end
      BY <1>8, <2>2, <3>1 DEF PushCell
    <3>2. CASE ~produce_end
      <4>1. queue' = Append(queue, source) /\ source \in 1..NItems
        BY <1>8, <2>1, <3>2 DEF PushCell
      <4> QED
        BY <2>2, <4>1, AppendProperties
    <3> QED
      BY <3>1, <3>2
  <2> QED
    BY <1>8, <2>3 DEF PushCell, nwait_consumer
<1>9. CASE PushNotify
  BY <1>9, ThreadedIterAssumption DEF PushNotify, NotifyClient
<1>10. CASE KeepException
  BY <1>10, ThreadedIterAssumption DEF KeepException
<1>11. CASE EndByException
  <2>1. CASE producer_sig = "kBeforeFirst"
    <3>1. queue' = <<>> /\ free_cells' \in Nat
      BY <1>11, <2>1 DEF EndByException
    <3> QED
      BY <1>11, <2>1, <3>1 DEF EndByException
  <2>2. CASE producer_sig # "kBeforeFirst"
    <3>1. queue' = queue /\ free_cells' = free_cells
      BY <1>11, <2>2 DEF EndByException
    <3> QED
      BY <1>11, <2>2, <3>1 DEF EndByException
  <2> QED
    BY <2>1, <2>2
<1>12. CASE LastNotify
  BY <1>12, ThreadedIterAssumption DEF LastNotify, NotifyClient
<1>13. CASE SleepInNext
  BY <1>13, ThreadedIterAssumption DEF SleepInNext, AtNextWait, ClientGoes
<1>14. CASE TakeItem
  BY <1>14, ThreadedIterAssumption DEF TakeItem, AtNextWait, ProducerToNotify, nwait_producer
<1>15. CASE FindEnd
  BY <1>15, ThreadedIterAssumption DEF FindEnd, AtNextWait
<1>16. CASE ReturnFromNext
  BY <1>16, ThreadedIterAssumption DEF ReturnFromNext
<1>17. CASE GiveBack
  BY <1>17, ThreadedIterAssumption DEF GiveBack, ProducerToNotify, nwait_producer
<1>18. CASE ReturnFromRecycle
  BY <1>18, ThreadedIterAssumption DEF ReturnFromRecycle, GoOnAt
<1>19. CASE AskRewind
  BY <1>19, ThreadedIterAssumption DEF AskRewind, nwait_producer, NotifyProducer
<1>20. CASE SleepInRewind
  BY <1>20, ThreadedIterAssumption DEF SleepInRewind
<1>21. CASE RewindDone
  BY <1>21, ThreadedIterAssumption DEF RewindDone, ProducerToNotify, nwait_producer
<1>22. CASE ReturnFromRewind
  BY <1>22, ThreadedIterAssumption DEF ReturnFromRewind
<1>23. CASE ClientNotify
  BY <1>23, ThreadedIterAssumption DEF ClientNotify, NotifyProducer
<1>24. CASE Join
  BY <1>24, ThreadedIterAssumption DEF Join
<1>25. CASE CallNext
  BY <1>25, ThreadedIterAssumption DEF CallNext, GoOnAt
<1>26. CASE CallRecycle
  BY <1>26, ThreadedIterAssumption DEF CallRecycle, GoOnAt
<1>27. CASE CallBeforeFirst
  BY <1>27, ThreadedIterAssumption DEF CallBeforeFirst, GoOnAt
<1>28. CASE CallDestroy
  BY <1>28, ThreadedIterAssumption DEF CallDestroy, nwait_producer, NotifyProducer
<1>29. CASE SpuriousWake
  BY <1>29, ThreadedIterAssumption DEF SpuriousWake
<1>30. CASE UNCHANGED vars
  BY <1>30 DEF vars
<1> QED
  BY <1>1, <1>2, <1>3, <1>4, <1>5, <1>6, <1>7, <1>8, <1>9, <1>10, <1>11, <1>12, <1>13, <1>14,
     <1>15, <1>16, <1>17, <1>18, <1>19, <1>20, <1>21, <1>22, <1>23, <1>24, <1>25, <1>26, <1>27, <1>28,
     <1>29, <1>30
  DEF Next, ProducerNext, ClientInCall, ClientCalls

LEMMA ControlStep ==
  ASSUME TypeOK, ControlInv, [Next]_vars
  PROVE  ControlInv'
<1> USE DEF TypeOK, ControlInv, AnsweredLast, InNext, ByException, signalVars, cellVars, clientVars
<1>1. CASE Sleep
  BY <1>1 DEF Sleep, AtWait, ProducerGoes
<1>2. CASE TakeCell
  BY <1>2 DEF TakeCell, AtWait, ProducerGoes
<1>3. CASE Reset
  BY <1>3 DEF Reset, AtWait
<1>4. CASE ResetThrows
  BY <1>4 DEF ResetThrows, AtWait
<1>5. CASE Quit
  BY <1>5 DEF Quit, AtWait, NotifyClient
<1>6. CASE ReadSource
  <2>1. CASE source = NItems
    BY <1>6, <2>1 DEF ReadSource
  <2>2. CASE source # NItems
    <3>1. source' # 0 /\ ~produce_end'
      BY <1>6, <2>2, ThreadedIterAssumption DEF ReadSource
    <3> QED
      BY <1>6, <2>2, <3>1 DEF ReadSource
  <2> QED
    BY <2>1, <2>2
<1>7. CASE SourceThrows
  BY <1>7 DEF SourceThrows
<1>8. CASE PushCell
  BY <1>8 DEF PushCell, nwait_consumer
<1>9. CASE PushNotify
  BY <1>9 DEF PushNotify, NotifyClient
<1>10. CASE KeepException
  BY <1>10 DEF KeepException
<1>11. CASE EndByException
  <2>1. CASE producer_sig = "kBeforeFirst"
    BY <1>11, <2>1 DEF EndByException
  <2>2. CASE producer_sig = "kProduce"
    BY <1>11, <2>2 DEF EndByException
  <2>3. CASE producer_sig = "kDestroy"
    BY <1>11, <2>3 DEF EndByException
  <2> QED
    BY <2>1, <2>2, <2>3
<1>12. CASE LastNotify
  BY <1>12 DEF LastNotify, NotifyClient
<1>13. CASE SleepInNext
  BY <1>13 DEF SleepInNext, AtNextWait, ClientGoes
<1>14. CASE TakeItem
  <2>1. taken' # 0
    <3>1. Head(queue) \in 1..NItems
      BY <1>14, HeadTailProperties DEF TakeItem
    <3> QED
      BY <1>14, <3>1 DEF TakeItem
  <2> QED
    BY <1>14, <2>1 DEF TakeItem, AtNextWait
<1>15. CASE FindEnd
  BY <1>15 DEF FindEnd, AtNextWait
<1>16. CASE ReturnFromNext
  BY <1>16 DEF ReturnFromNext
<1>17. CASE GiveBack
  BY <1>17 DEF GiveBack, ProducerToNotify, nwait_producer
<1>18. CASE ReturnFromRecycle
  BY <1>18 DEF ReturnFromRecycle, GoOnAt
<1>19. CASE AskRewind
  BY <1>19 DEF AskRewind, nwait_producer, NotifyProducer
<1>20. CASE SleepInRewind
  BY <1>20 DEF SleepInRewind
<1>21. CASE RewindDone
  <2>1. /\ c_pc = "rewind_wait" /\ producer_sig_processed
        /\ c_pc' \in {"rewind_notify", "rewind_return"} /\ ~producer_sig_processed'
    BY <1>21 DEF RewindDone
  <2>2. producer_sig # "kDestroy" /\ (producer_sig = "kProduce" \/ AnsweredLast)
    BY <2>1
  <2>3. CASE producer_sig = "kProduce"
    BY <1>21, <2>1, <2>3 DEF RewindDone
  <2>4. CASE AnsweredLast
    BY <1>21, <2>1, <2>2, <2>4 DEF RewindDone
  <2> QED
    BY <2>2, <2>3, <2>4
<1>22. CASE ReturnFromRewind
  BY <1>22 DEF ReturnFromRewind
<1>23. CASE ClientNotify
  BY <1>23 DEF ClientNotify, NotifyProducer
<1>24. CASE Join
  BY <1>24 DEF Join
<1>25. CASE CallNext
  BY <1>25 DEF CallNext, GoOnAt
<1>26. CASE CallRecycle
  BY <1>26 DEF CallRecycle, GoOnAt
<1>27. CASE CallBeforeFirst
  BY <1>27 DEF CallBeforeFirst, GoOnAt
<1>28. CASE CallDestroy
  BY <1>28 DEF CallDestroy, nwait_producer, NotifyProducer
<1>29. CASE SpuriousWake
  BY <1>29 DEF SpuriousWake
<1>30. CASE UNCHANGED vars
  BY <1>30 DEF vars
<1> QED
  BY <1>1, <1>2, <1>3, <1>4, <1>5, <1>6, <1>7, <1>8, <1>9, <1>10, <1>11, <1>12, <1>13, <1>14,
     <1>15, <1>16, <1>17, <1>18, <1>19, <1>20, <1>21, <1>22, <1>23, <1>24, <1>25, <1>26, <1>27, <1>28,
     <1>29, <1>30
  DEF Next, ProducerNext, ClientInCall, ClientCalls

LEMMA OrderStep ==
  ASSUME TypeOK, ControlInv, OrderInv, [Next]_vars
  PROVE  OrderInv'
<1>1. CASE Sleep
  BY <1>1 DEF Sleep, AtWait, ProducerGoes, TypeOK, ControlInv, OrderInv, Handed, Rewound, AnsweredLast, InNext, ByException, signalVars, cellVars, clientVars
<1>2. CASE TakeCell
  BY <1>2 DEF TakeCell, AtWait, ProducerGoes, TypeOK, ControlInv, OrderInv, Handed, Rewound, AnsweredLast, InNext, ByException, signalVars, cellVars, clientVars
<1>3. CASE Reset
  BY <1>3 DEF Reset, AtWait, TypeOK, ControlInv, OrderInv, Handed, Rewound, AnsweredLast, InNext, ByException, signalVars, cellVars, clientVars
<1>4. CASE ResetThrows
  BY <1>4 DEF ResetThrows, AtWait, TypeOK, ControlInv, OrderInv, Handed, Rewound, AnsweredLast, InNext, ByException, signalVars, cellVars, clientVars
<1>5. CASE Quit
  BY <1>5 DEF Quit, AtWait, NotifyClient, TypeOK, ControlInv, OrderInv, Handed, Rewound, AnsweredLast, InNext, ByException, signalVars, cellVars, clientVars
<1>6. CASE ReadSource
  <2>1. /\ p_pc = "next" /\ p_pc' = "push" /\ ~produce_end /\ queue' = queue
        /\ UNCHANGED <<producer_sig, iter_exception, c_pc, taken, read, answer>>
    BY <1>6 DEF ReadSource, ControlInv, clientVars
  <2>2. Handed' = Handed
    BY <1>6 DEF ReadSource, Handed, Rewound, clientVars
  <2>3. producer_sig # "kDestroy" => source = Handed + Len(queue) + 0
    BY <2>1 DEF OrderInv, ByException
  <2>4. source \in Nat
    BY ThreadedIterAssumption DEF TypeOK
  <2>5. CASE source = NItems
    <3>1. source' = source /\ produce_end'
      <4>1. ~(source < NItems) /\ source = NItems
        BY <2>5, ThreadedIterAssumption
      <4> QED
        BY <1>6, <4>1, Zenon DEF ReadSource
    <3> QED
      BY <2>1, <2>2, <2>3, <2>4, <2>5, <3>1 DEF OrderInv
  <2>6. CASE source # NItems
    <3>1. source' = source + 1 /\ ~produce_end'
      <4>1. source < NItems
        BY <2>6, ThreadedIterAssumption DEF TypeOK
      <4> QED
        BY <1>6, <2>6, <4>1, Zenon DEF ReadSource
    <3>2. producer_sig # "kDestroy" => source' = Handed + Len(queue) + 1
      <4>1. Handed \in Nat /\ Len(queue) \in Nat
        BY DEF Handed, TypeOK
      <4> QED
        BY <2>3, <2>4, <3>1, <4>1
    <3> QED
      BY <2>1, <2>2, <3>1, <3>2 DEF OrderInv
  <2> QED
    BY <2>5, <2>6
<1>7. CASE SourceThrows
  BY <1>7 DEF SourceThrows, TypeOK, ControlInv, OrderInv, Handed, Rewound, AnsweredLast, InNext, ByException, signalVars, cellVars, clientVars
<1>8. CASE PushCell
  <2>1. /\ p_pc = "push" /\ p_pc' \in {"notify", "top"}
        /\ UNCHANGED <<producer_sig, produce_end, source, iter_exception, c_pc, taken, read,
                       answer>>
    BY <1>8 DEF PushCell, signalVars, clientVars
  <2>2. Handed' = Handed
    BY <1>8 DEF PushCell, Handed, Rewound, signalVars, clientVars
  <2>3. CASE produce_end
    <3>1. queue' = queue
      BY <1>8, <2>3 DEF PushCell
    <3> QED
      BY <2>1, <2>2, <2>3, <3>1 DEF OrderInv, ByException
  <2>4. CASE ~produce_end
    <3>1. queue' = Append(queue, source) /\ source \in 1..NItems /\ queue \in Seq(1..NItems)
      BY <1>8, <2>4, ThreadedIterAssumption DEF PushCell, TypeOK, ControlInv
    <3>2. /\ Len(queue') = Len(queue) + 1
          /\ \A i \in 1..Len(queue) : queue'[i] = queue[i]
          /\ queue'[Len(queue) + 1] = source
      BY <3>1, AppendProperties
    <3>3. producer_sig # "kDestroy" => source = Handed + Len(queue) + 1
      BY <2>1, <2>4 DEF OrderInv, ByException
    <3>4. Len(queue) \in Nat /\ Handed \in Nat
      BY <3>1 DEF Handed, TypeOK
    <3>5. producer_sig # "kDestroy" /\ c_pc # "thrown" =>
            \A i \in 1..Len(queue') : queue'[i] = Handed + i
      <4>1. SUFFICES ASSUME producer_sig # "kDestroy", c_pc # "thrown",
                            NEW i \in 1..Len(queue')
                     PROVE  queue'[i] = Handed + i
        OBVIOUS
      <4>2. CASE i \in 1..Len(queue)
        BY <3>2, <4>1, <4>2 DEF OrderInv
      <4>3. CASE i = Len(queue) + 1
        BY <3>2, <3>3, <3>4, <4>1, <4>3
      <4> QED
        BY <3>2, <3>4, <4>2, <4>3
    <3>6. producer_sig # "kDestroy" => source = Handed + Len(queue')
      BY <3>2, <3>3, <3>4
    <3> QED
      <4>1. producer_sig' # "kDestroy" /\ c_pc' # "thrown" =>
              \A i \in 1..Len(queue') : queue'[i] = Handed' + i
        BY <2>1, <2>2, <3>5
      <4>2. p_pc' # "push" /\ (producer_sig' # "kDestroy" => source' = Handed' + Len(queue') + 0)
        <5>1. Handed + Len(queue') + 0 = Handed + Len(queue')
          BY <3>2, <3>4
        <5> QED
          BY <2>1, <2>2, <3>6, <5>1
      <4> QED
        BY <2>1, <4>1, <4>2 DEF OrderInv
  <2> QED
    BY <2>3, <2>4
<1>9. CASE PushNotify
  BY <1>9 DEF PushNotify, NotifyClient, TypeOK, ControlInv, OrderInv, Handed, Rewound, AnsweredLast, InNext, ByException, signalVars, cellVars, clientVars
<1>10. CASE KeepException
  BY <1>10 DEF KeepException, TypeOK, ControlInv, OrderInv, Handed, Rewound, AnsweredLast, InNext, ByException, signalVars, cellVars, clientVars
<1>11. CASE EndByException
  BY <1>11 DEF EndByException, nwait_consumer, TypeOK, ControlInv, OrderInv, Handed, Rewound, AnsweredLast, InNext, ByException, signalVars, cellVars, clientVars
<1>12. CASE LastNotify
  BY <1>12 DEF LastNotify, NotifyClient, TypeOK, ControlInv, OrderInv, Handed, Rewound, AnsweredLast, InNext, ByException, signalVars, cellVars, clientVars
<1>13. CASE SleepInNext
  BY <1>13 DEF SleepInNext, AtNextWait, ClientGoes, TypeOK, ControlInv, OrderInv, Handed, Rewound, AnsweredLast, InNext, ByException, signalVars, cellVars, clientVars
<1>14. CASE TakeItem
  <2>1. /\ Len(queue) \in Nat \ {0} /\ Head(queue) = queue[1]
        /\ queue' \in Seq(1..NItems) /\ Len(queue') = Len(queue) - 1
        /\ \A i \in 1..Len(queue') : queue'[i] = queue[i + 1]
    <3>1. queue \in Seq(1..NItems) /\ queue # <<>> /\ queue' = Tail(queue)
      BY <1>14 DEF TakeItem, TypeOK
    <3>2. Head(queue) = queue[1] /\ Len(queue) \in Nat \ {0}
      BY <3>1
    <3> QED
      BY <3>1, <3>2, HeadTailProperties
  <2>2. /\ producer_sig # "kDestroy" /\ c_pc # "thrown" /\ ~Rewound
        /\ taken = 0 /\ Handed = read /\ read \in Nat
    BY <1>14 DEF TakeItem, AtNextWait, ControlInv, TypeOK, Handed, Rewound
  <2>3. taken' = read + 1 /\ taken' # 0
    BY <1>14, <2>1, <2>2 DEF TakeItem, OrderInv
  <2>4. c_pc' \in {"next_notify", "next_return"}
    BY <1>14 DEF TakeItem
  <2>5. UNCHANGED <<producer_sig, producer_sig_processed, produce_end, p_pc, source,
                    iter_exception, read, answer>>
    BY <1>14 DEF TakeItem, signalVars
  <2>6. Handed' = Handed + 1
    BY <2>2, <2>3, <2>4, <2>5 DEF Handed, Rewound
  <2>7. \A i \in 1..Len(queue') : queue'[i] = Handed' + i
    <3>1. SUFFICES ASSUME NEW i \in 1..Len(queue') PROVE queue'[i] = Handed' + i
      OBVIOUS
    <3>2. i + 1 \in 1..Len(queue)
      BY <2>1
    <3>3. queue[i + 1] = Handed + (i + 1)
      BY <2>2, <3>2 DEF OrderInv
    <3> QED
      BY <2>1, <2>2, <2>6, <3>3
  <2>8. Handed' + Len(queue') = Handed + Len(queue)
    BY <2>1, <2>2, <2>6
  <2>9. ~(p_pc \in {"caught"} \cup ByException) =>
          source = Handed' + Len(queue') + (IF p_pc = "push" /\ ~produce_end THEN 1 ELSE 0)
    BY <2>2, <2>8 DEF OrderInv
  <2> QED
    BY <1>14, <2>2, <2>3, <2>4, <2>5, <2>7, <2>9 DEF OrderInv, TakeItem, AtNextWait
<1>15. CASE FindEnd
  BY <1>15 DEF FindEnd, AtNextWait, TypeOK, ControlInv, OrderInv, Handed, Rewound, AnsweredLast, InNext, ByException, signalVars, cellVars, clientVars
<1>16. CASE ReturnFromNext
  BY <1>16 DEF ReturnFromNext, TypeOK, ControlInv, OrderInv, Handed, Rewound, AnsweredLast, InNext, ByException, signalVars, cellVars, clientVars
<1>17. CASE GiveBack
  BY <1>17 DEF GiveBack, ProducerToNotify, nwait_producer, TypeOK, ControlInv, OrderInv, Handed, Rewound, AnsweredLast, InNext, ByException, signalVars, cellVars, clientVars
<1>18. CASE ReturnFromRecycle
  BY <1>18 DEF ReturnFromRecycle, GoOnAt, TypeOK, ControlInv, OrderInv, Handed, Rewound, AnsweredLast, InNext, ByException, signalVars, cellVars, clientVars
<1>19. CASE AskRewind
  BY <1>19 DEF AskRewind, nwait_producer, NotifyProducer, TypeOK, ControlInv, OrderInv, Handed, Rewound, AnsweredLast, InNext, ByException, signalVars, cellVars, clientVars
<1>20. CASE SleepInRewind
  BY <1>20 DEF SleepInRewind, TypeOK, ControlInv, OrderInv, Handed, Rewound, AnsweredLast, InNext, ByException, signalVars, cellVars, clientVars
<1>21. CASE RewindDone
  <2>1. /\ c_pc = "rewind_wait" /\ producer_sig_processed /\ taken = 0
        /\ c_pc' \in {"rewind_notify", "rewind_return"}
        /\ UNCHANGED <<producer_sig, produce_end, queue, iter_exception, source, p_pc, taken,
                       read, answer>>
    BY <1>21 DEF RewindDone, ControlInv, cellVars
  <2>2. Handed = 0 /\ Handed' = 0
    BY <2>1 DEF Handed, Rewound
  <2> QED
    BY <2>1, <2>2 DEF OrderInv
<1>22. CASE ReturnFromRewind
  BY <1>22 DEF ReturnFromRewind, TypeOK, ControlInv, OrderInv, Handed, Rewound, AnsweredLast, InNext, ByException, signalVars, cellVars, clientVars
<1>23. CASE ClientNotify
  BY <1>23 DEF ClientNotify, NotifyProducer, TypeOK, ControlInv, OrderInv, Handed, Rewound, AnsweredLast, InNext, ByException, signalVars, cellVars, clientVars
<1>24. CASE Join
  BY <1>24 DEF Join, TypeOK, ControlInv, OrderInv, Handed, Rewound, AnsweredLast, InNext, ByException, signalVars, cellVars, clientVars
<1>25. CASE CallNext
  BY <1>25 DEF CallNext, GoOnAt, TypeOK, ControlInv, OrderInv, Handed, Rewound, AnsweredLast, InNext, ByException, signalVars, cellVars, clientVars
<1>26. CASE CallRecycle
  BY <1>26 DEF CallRecycle, GoOnAt, TypeOK, ControlInv, OrderInv, Handed, Rewound, AnsweredLast, InNext, ByException, signalVars, cellVars, clientVars
<1>27. CASE CallBeforeFirst
  BY <1>27 DEF CallBeforeFirst, GoOnAt, TypeOK, ControlInv, OrderInv, Handed, Rewound, AnsweredLast, InNext, ByException, signalVars, cellVars, clientVars
<1>28. CASE CallDestroy
  BY <1>28 DEF CallDestroy, nwait_producer, NotifyProducer, TypeOK, ControlInv, OrderInv, Handed, Rewound, AnsweredLast, InNext, ByException, signalVars, cellVars, clientVars
<1>29. CASE SpuriousWake
  BY <1>29 DEF SpuriousWake, TypeOK, ControlInv, OrderInv, Handed, Rewound, AnsweredLast, InNext, ByException, signalVars, cellVars, clientVars
<1>30. CASE UNCHANGED vars
  BY <1>30 DEF vars, TypeOK, ControlInv, OrderInv, Handed, Rewound, AnsweredLast, InNext, ByException, signalVars, cellVars, clientVars
<1> QED
  BY <1>1, <1>2, <1>3, <1>4, <1>5, <1>6, <1>7, <1>8, <1>9, <1>10, <1>11, <1>12, <1>13, <1>14,
     <1>15, <1>16, <1>17, <1>18, <1>19, <1>20, <1>21, <1>22, <1>23, <1>24, <1>25, <1>26, <1>27, <1>28,
     <1>29, <1>30
  DEF Next, ProducerNext, ClientInCall, ClientCalls

LEMMA WakeStep ==
  ASSUME TypeOK, ControlInv, WakeInv, [Next]_vars
  PROVE  WakeInv'
<1> USE DEF TypeOK, ControlInv, WakeInv, ProducerGoes, ClientGoes, ToWakeProducer, AnsweredLast, InNext, ByException, signalVars, cellVars, clientVars
<1>1. CASE Sleep
  BY <1>1, ThreadedIterAssumption DEF Sleep, AtWait, ProducerGoes
<1>2. CASE TakeCell
  BY <1>2, ThreadedIterAssumption DEF TakeCell, AtWait, ProducerGoes
<1>3. CASE Reset
  BY <1>3, ThreadedIterAssumption DEF Reset, AtWait
<1>4. CASE ResetThrows
  BY <1>4, ThreadedIterAssumption DEF ResetThrows, AtWait
<1>5. CASE Quit
  BY <1>5, ThreadedIterAssumption DEF Quit, AtWait, NotifyClient
<1>6. CASE ReadSource
  BY <1>6, ThreadedIterAssumption DEF ReadSource
<1>7. CASE SourceThrows
  BY <1>7, ThreadedIterAssumption DEF SourceThrows
<1>8. CASE PushCell
  BY <1>8, ThreadedIterAssumption DEF PushCell, nwait_consumer
<1>9. CASE PushNotify
  BY <1>9, ThreadedIterAssumption DEF PushNotify, NotifyClient
<1>10. CASE KeepException
  BY <1>10, ThreadedIterAssumption DEF KeepException
<1>11. CASE EndByException
  BY <1>11, ThreadedIterAssumption DEF EndByException, nwait_consumer
<1>12. CASE LastNotify
  BY <1>12, ThreadedIterAssumption DEF LastNotify, NotifyClient
<1>13. CASE SleepInNext
  BY <1>13, ThreadedIterAssumption DEF SleepInNext, AtNextWait, ClientGoes
<1>14. CASE TakeItem
  BY <1>14, ThreadedIterAssumption DEF TakeItem, AtNextWait, ProducerToNotify, nwait_producer
<1>15. CASE FindEnd
  BY <1>15, ThreadedIterAssumption DEF FindEnd, AtNextWait
<1>16. CASE ReturnFromNext
  BY <1>16, ThreadedIterAssumption DEF ReturnFromNext
<1>17. CASE GiveBack
  BY <1>17, ThreadedIterAssumption DEF GiveBack, ProducerToNotify, nwait_producer
<1>18. CASE ReturnFromRecycle
  BY <1>18, ThreadedIterAssumption DEF ReturnFromRecycle, GoOnAt
<1>19. CASE AskRewind
  BY <1>19, ThreadedIterAssumption DEF AskRewind, nwait_producer, NotifyProducer
<1>20. CASE SleepInRewind
  BY <1>20, ThreadedIterAssumption DEF SleepInRewind
<1>21. CASE RewindDone
  BY <1>21, ThreadedIterAssumption DEF RewindDone, ProducerToNotify, nwait_producer
<1>22. CASE ReturnFromRewind
  BY <1>22, ThreadedIterAssumption DEF ReturnFromRewind
<1>23. CASE ClientNotify
  BY <1>23, ThreadedIterAssumption DEF ClientNotify, NotifyProducer
<1>24. CASE Join
  BY <1>24, ThreadedIterAssumption DEF Join
<1>25. CASE CallNext
  BY <1>25, ThreadedIterAssumption DEF CallNext, GoOnAt
<1>26. CASE CallRecycle
  BY <1>26, ThreadedIterAssumption DEF CallRecycle, GoOnAt
<1>27. CASE CallBeforeFirst
  BY <1>27, ThreadedIterAssumption DEF CallBeforeFirst, GoOnAt
<1>28. CASE CallDestroy
  BY <1>28, ThreadedIterAssumption DEF CallDestroy, nwait_producer, NotifyProducer
<1>29. CASE SpuriousWake
  BY <1>29, ThreadedIterAssumption DEF SpuriousWake
<1>30. CASE UNCHANGED vars
  BY <1>30 DEF vars
<1> QED
  BY <1>1, <1>2, <1>3, <1>4, <1>5, <1>6, <1>7, <1>8, <1>9, <1>10, <1>11, <1>12, <1>13, <1>14,
     <1>15, <1>16, <1>17, <1>18, <1>19, <1>20, <1>21, <1>22, <1>23, <1>24, <1>25, <1>26, <1>27, <1>28,
     <1>29, <1>30
  DEF Next, ProducerNext, ClientInCall, ClientCalls

LEMMA CellsStep ==
  ASSUME TypeOK, ControlInv, CellsInv, [Next]_vars
  PROVE  CellsInv'
<1> USE DEF TypeOK, ControlInv, CellsInv, Cells, One, InNext, ByException, signalVars, cellVars, clientVars
<1>1. CASE Sleep
  BY <1>1, ThreadedIterAssumption DEF Sleep, AtWait, ProducerGoes
<1>2. CASE TakeCell
  <2>1. ~cell /\ (held => taken = 0) /\ Capacity \in Nat
    BY <1>2, ThreadedIterAssumption DEF TakeCell, AtWait
  <2>2. CASE free_cells = 0
    <3>1. Len(queue) < Capacity /\ ~cell' /\ free_cells' = 0
      BY <1>2, <2>2 DEF TakeCell, ProducerGoes
    <3>2. Len(queue) \in Nat /\ queue' = queue /\ held' = held /\ taken' = taken
      BY <1>2 DEF TakeCell
    <3> HIDE DEF One
    <3>3. Cells' = Len(queue) + 0 + One(FALSE) + One(held) + One(taken # 0)
      <4>1. /\ queue' = queue /\ free_cells' = 0 /\ cell' = FALSE /\ held' = held
            /\ (taken' # 0) = (taken # 0)
        BY <3>1, <3>2
      <4> QED
        BY <4>1
    <3>4. One(FALSE) = 0 /\ One(held) \in 0..1 /\ One(taken # 0) \in 0..1
          /\ (One(held) = 0 \/ One(taken # 0) = 0)
      BY <2>1 DEF One
    <3> HIDE DEF Cells
    <3>5. Cells' <= Capacity /\ Cells' \in Nat
      <4>1. PICK a \in 0..1, b \in 0..1 :
              One(held) = a /\ One(taken # 0) = b /\ (a = 0 \/ b = 0)
        BY <3>4
      <4>2. Cells' = Len(queue) + 0 + 0 + a + b
        BY <3>3, <3>4, <4>1
      <4>3. Len(queue) \in Nat /\ Len(queue) + 1 <= Capacity
        BY <2>1, <3>1, <3>2
      <4> QED
        BY <2>1, <4>1, <4>2, <4>3
    <3> QED
      BY <2>1, <3>5
  <2>3. CASE free_cells # 0
    <3>1. cell' /\ free_cells' = free_cells - 1
      BY <1>2, <2>3 DEF TakeCell
    <3> QED
      BY <1>2, <2>1, <2>3, <3>1 DEF TakeCell
  <2> QED
    BY <2>2, <2>3
<1>3. CASE Reset
  BY <1>3, ThreadedIterAssumption DEF Reset, AtWait
<1>4. CASE ResetThrows
  BY <1>4, ThreadedIterAssumption DEF ResetThrows, AtWait
<1>5. CASE Quit
  BY <1>5, ThreadedIterAssumption DEF Quit, AtWait, NotifyClient
<1>6. CASE ReadSource
  BY <1>6, ThreadedIterAssumption DEF ReadSource
<1>7. CASE SourceThrows
  BY <1>7, ThreadedIterAssumption DEF SourceThrows
<1>8. CASE PushCell
  <2>1. cell /\ ~cell' /\ p_pc' \in {"notify", "top"}
    BY <1>8 DEF PushCell
  <2>2. CASE produce_end
    BY <1>8, <2>1, <2>2, ThreadedIterAssumption DEF PushCell
  <2>3. CASE ~produce_end
    <3>1. queue' = Append(queue, source) /\ source \in 1..NItems
      BY <1>8, <2>3, ThreadedIterAssumption DEF PushCell
    <3>2. Len(queue') = Len(queue) + 1
      BY <3>1, AppendProperties
    <3> QED
      BY <1>8, <2>1, <2>3, <3>2, ThreadedIterAssumption DEF PushCell
  <2> QED
    BY <2>2, <2>3
<1>9. CASE PushNotify
  BY <1>9, ThreadedIterAssumption DEF PushNotify, NotifyClient
<1>10. CASE KeepException
  BY <1>10, ThreadedIterAssumption DEF KeepException
<1>11. CASE EndByException
  BY <1>11, ThreadedIterAssumption DEF EndByException, nwait_consumer
<1>12. CASE LastNotify
  BY <1>12, ThreadedIterAssumption DEF LastNotify, NotifyClient
<1>13. CASE SleepInNext
  BY <1>13, ThreadedIterAssumption DEF SleepInNext, AtNextWait, ClientGoes
<1>14. CASE TakeItem
  BY <1>14, ThreadedIterAssumption DEF TakeItem, AtNextWait, ProducerToNotify, nwait_producer
<1>15. CASE FindEnd
  BY <1>15, ThreadedIterAssumption DEF FindEnd, AtNextWait
<1>16. CASE ReturnFromNext
  BY <1>16, ThreadedIterAssumption DEF ReturnFromNext
<1>17. CASE GiveBack
  BY <1>17, ThreadedIterAssumption DEF GiveBack, ProducerToNotify, nwait_producer
<1>18. CASE ReturnFromRecycle
  BY <1>18, ThreadedIterAssumption DEF ReturnFromRecycle, GoOnAt
<1>19. CASE AskRewind
  BY <1>19, ThreadedIterAssumption DEF AskRewind, nwait_producer, NotifyProducer
<1>20. CASE SleepInRewind
  BY <1>20, ThreadedIterAssumption DEF SleepInRewind
<1>21. CASE RewindDone
  BY <1>21, ThreadedIterAssumption DEF RewindDone, ProducerToNotify, nwait_producer
<1>22. CASE ReturnFromRewind
  BY <1>22, ThreadedIterAssumption DEF ReturnFromRewind
<1>23. CASE ClientNotify
  BY <1>23, ThreadedIterAssumption DEF ClientNotify, NotifyProducer
<1>24. CASE Join
  BY <1>24, ThreadedIterAssumption DEF Join
<1>25. CASE CallNext
  BY <1>25, ThreadedIterAssumption DEF CallNext, GoOnAt
<1>26. CASE CallRecycle
  BY <1>26, ThreadedIterAssumption DEF CallRecycle, GoOnAt
<1>27. CASE CallBeforeFirst
  BY <1>27, ThreadedIterAssumption DEF CallBeforeFirst, GoOnAt
<1>28. CASE CallDestroy
  BY <1>28, ThreadedIterAssumption DEF CallDestroy, nwait_producer, NotifyProducer
<1>29. CASE SpuriousWake
  BY <1>29, ThreadedIterAssumption DEF SpuriousWake
<1>30. CASE UNCHANGED vars
  BY <1>30 DEF vars
<1> QED
  BY <1>1, <1>2, <1>3, <1>4, <1>5, <1>6, <1>7, <1>8, <1>9, <1>10, <1>11, <1>12, <1>13, <1>14,
     <1>15, <1>16, <1>17, <1>18, <1>19, <1>20, <1>21, <1>22, <1>23, <1>24, <1>25, <1>26, <1>27, <1>28,
     <1>29, <1>30
  DEF Next, ProducerNext, ClientInCall, ClientCalls

IterInv == DataOK /\ BoolOK /\ ControlInv /\ OrderInv /\ WakeInv /\ CellsInv

LEMMA InitInv ==
  Init => IterInv
<1> SUFFICES ASSUME Init PROVE IterInv
  OBVIOUS
<1> USE ThreadedIterAssumption DEF Init
<1>0. BoolOK
  BY Zenon DEF BoolOK
<1>1. DataOK
  BY DEF DataOK, ProducerAt, ClientAt
<1>2. ControlInv /\ WakeInv
  BY DEF ControlInv, WakeInv, InNext, ByException, AnsweredLast
<1>3. OrderInv
  BY DEF OrderInv, Handed, Rewound, ByException
<1>4. CellsInv
  BY DEF CellsInv, Cells, One
<1> QED
  BY <1>0, <1>1, <1>2, <1>3, <1>4 DEF IterInv

LEMMA StepInv ==
  IterInv /\ [Next]_vars => IterInv'
<1> SUFFICES ASSUME IterInv, [Next]_vars PROVE IterInv'
  OBVIOUS
<1>1. TypeOK
  BY DEF IterInv, TypeOK, DataOK, BoolOK
<1>2. DataOK' /\ BoolOK'
  BY DataStep, BoolStep DEF IterInv
<1>3. ControlInv' /\ OrderInv' /\ WakeInv' /\ CellsInv'
  BY <1>1, ControlStep, OrderStep, WakeStep, CellsStep DEF IterInv
<1> QED
  BY <1>2, <1>3 DEF IterInv

LEMMA AlwaysInv ==
  Spec => []IterInv
<1> QED
  BY InitInv, StepInv, PTL DEF Spec

\* Every variable of the two threads keeps to its values: in particular the
\* source is never read past its end, whoever resets it.
THEOREM TypeCorrect ==
  Spec => []TypeOK
<1>1. IterInv => TypeOK
  BY DEF IterInv, TypeOK, DataOK, BoolOK
<1> QED
  BY <1>1, AlwaysInv, PTL

\* No interleaving of Next, Recycle, BeforeFirst and Destroy with the producer,
\* and no exception, loses a notification or puts both threads to sleep.
THEOREM NoWakeupLost ==
  Spec => []NoLostWakeup
<1>1. ASSUME IterInv PROVE NoLostWakeup
  <2>1. p_asleep => p_pc = "wait" /\ (~ProducerGoes \/ c_pc \in ToWakeProducer)
    BY <1>1 DEF IterInv, ControlInv, WakeInv
  <2>2. c_asleep /\ c_pc = "next_wait" => ~ClientGoes \/ p_pc \in {"push", "notify", "last"}
    BY <1>1 DEF IterInv, WakeInv
  <2>3. c_asleep /\ c_pc = "rewind_wait" =>
          ~producer_sig_processed \/ p_pc \in {"rewound", "last"}
    BY <1>1 DEF IterInv, WakeInv
  <2>4. ~(p_asleep /\ c_asleep)
    <3>1. SUFFICES ASSUME p_asleep, c_asleep PROVE FALSE
      OBVIOUS
    <3>2. p_pc = "wait" /\ ~ProducerGoes
      BY <1>1, <2>1, <3>1 DEF IterInv, ControlInv, ToWakeProducer
    <3>3. producer_sig = "kProduce" /\ (produce_end \/ ~(Len(queue) < Capacity))
      BY <3>2 DEF ProducerGoes
    <3>4. c_pc = "next_wait"
      <4>1. c_pc \in {"next_wait", "rewind_wait"}
        BY <1>1, <3>1 DEF IterInv, ControlInv
      <4>2. c_pc # "rewind_wait"
        BY <1>1, <2>3, <3>1, <3>2, <3>3 DEF IterInv, ControlInv
      <4> QED
        BY <4>1, <4>2
    <3>5. queue = <<>> /\ ~produce_end
      BY <2>2, <3>1, <3>2, <3>4 DEF ClientGoes
    <3> QED
      BY <3>3, <3>5, ThreadedIterAssumption
  <2> QED
    BY <2>1, <2>2, <2>3, <2>4 DEF NoLostWakeup, ToWakeProducer
<1> QED
  BY <1>1, AlwaysInv, PTL

\* However far the producer runs ahead, it makes no more than max_capacity_
\* cells and one.
THEOREM MemoryBounded ==
  Spec => []BoundedCells
<1>1. IterInv => BoundedCells
  BY DEF IterInv, CellsInv, BoundedCells
<1> QED
  BY <1>1, AlwaysInv, PTL

\* The CHECKs of Next and of BeforeFirst never fail.
THEOREM ChecksAlwaysHold ==
  Spec => []ChecksHold
<1>1. IterInv => ChecksHold
  BY DEF IterInv, ControlInv, AnsweredLast, ChecksHold, DataOK
<1> QED
  BY <1>1, AlwaysInv, PTL

\* A step of the iterator is a step of the stream, or changes nothing of it.
LEMMA StreamStep ==
  ASSUME IterInv, [Next]_vars
  PROVE  [Stream!StreamNext]_Stream!streamVars
<1>1. CASE UNCHANGED <<read, answer>>
  BY <1>1 DEF Stream!streamVars
<1>2. CASE iter_exception /\ answer' = "failed" /\ UNCHANGED read
  BY <1>2 DEF IterInv, ControlInv, Stream!StreamNext, Stream!Fail
<1>3. CASE ReturnFromNext /\ ~iter_exception
  <2>1. answer # "failed" /\ c_pc = "next_return"
    BY <1>3 DEF ReturnFromNext, IterInv, OrderInv
  <2>2. CASE taken = 0
    <3>1. read = NItems
      BY <1>3, <2>1, <2>2 DEF IterInv, OrderInv
    <3> QED
      BY <1>3, <2>1, <2>2, <3>1 DEF ReturnFromNext, Stream!StreamNext, Stream!GiveEnd
  <2>3. CASE taken # 0
    <3>1. taken = read + 1 /\ read < NItems
      BY <2>3, ThreadedIterAssumption DEF IterInv, OrderInv, DataOK
    <3> QED
      BY <1>3, <2>1, <2>3, <3>1 DEF ReturnFromNext, Stream!StreamNext, Stream!GiveItem
  <2> QED
    BY <2>2, <2>3
<1>4. CASE ReturnFromRewind /\ ~iter_exception
  BY <1>4 DEF ReturnFromRewind, IterInv, OrderInv, Stream!StreamNext, Stream!Rewind
<1>5. CASE ReturnFromNext /\ iter_exception
  BY <1>2, <1>5 DEF ReturnFromNext
<1>6. CASE ReturnFromRewind /\ iter_exception
  BY <1>2, <1>6 DEF ReturnFromRewind
<1>7. ASSUME CallNext \/ CallRecycle \/ CallBeforeFirst \/ ReturnFromRecycle
      PROVE  UNCHANGED <<read, answer>> \/ (iter_exception /\ answer' = "failed" /\ UNCHANGED read)
  BY <1>7 DEF CallNext, CallRecycle, CallBeforeFirst, ReturnFromRecycle, GoOnAt
<1>8. ASSUME ProducerNext \/ SpuriousWake \/ UNCHANGED vars
      PROVE  UNCHANGED <<read, answer>>
  BY <1>8 DEF ProducerNext, SpuriousWake, vars, Sleep, TakeCell, Reset, ResetThrows, Quit,
              ReadSource, SourceThrows, PushCell, PushNotify, KeepException, EndByException,
              LastNotify, clientVars
<1>9. ASSUME \/ SleepInNext \/ TakeItem \/ FindEnd \/ GiveBack \/ AskRewind
             \/ SleepInRewind \/ RewindDone \/ ClientNotify \/ Join \/ CallDestroy
      PROVE  UNCHANGED <<read, answer>>
  BY <1>9 DEF SleepInNext, TakeItem, FindEnd, GiveBack, AskRewind, SleepInRewind, RewindDone,
              ClientNotify, Join, CallDestroy, clientVars
<1> QED
  BY <1>1, <1>2, <1>3, <1>4, <1>5, <1>6, <1>7, <1>8, <1>9
  DEF Next, ClientInCall, ClientCalls

\* The client gets each item once, in order, and the end only after the last,
\* also after it started over while the producer had read ahead: for any number
\* of items and any capacity.
THEOREM IterImplementsStream ==
  Spec => ImplementsStream
<1>1. Init => Stream!StreamInit
  BY DEF Init, Stream!StreamInit
<1>2. IterInv /\ [Next]_vars => [Stream!StreamNext]_Stream!streamVars
  BY StreamStep
<1> QED
  BY <1>1, <1>2, AlwaysInv, PTL DEF Spec, ImplementsStream, Stream!StreamSpec

=============================================================================
