-------------------------- MODULE AsyncConsoleProofs --------------------------
(***************************************************************************)
(* Proofs about AsyncConsole, for any number of producers, closers and     *)
(* entries, any capacity and any overflow policy.                          *)
(***************************************************************************)
EXTENDS AsyncConsole, SequenceTheorems, TLAPS

(* A goroutine that still has to do something with an entry has one.       *)
WorksOnEntry == {"trySend", "evict", "resend", "arm", "wait", "disarmClosed",
                 "write", "awaitMu", "locked", "direct"}

CallInv ==
  /\ CallTypeOK
  /\ \A p \in Producers : pc[p] \in WorksOnEntry => held[p] \in Entry

WorkerInv ==
  /\ WorkerTypeOK
  /\ workerPC \in {"lock", "write"} => taken \in Entry

TypeInv == /\ QueueTypeOK /\ SignalTypeOK /\ CallInv
           /\ WorkerInv /\ StatsTypeOK /\ HistoryTypeOK

LEMMA InitType == Init => TypeInv
<1> SUFFICES ASSUME Init PROVE TypeInv
  OBVIOUS
<1>1. QueueTypeOK
  BY CapacityAssumption DEF Init, QueueTypeOK
<1>2. SignalTypeOK
  BY DEF Init, SignalTypeOK, CloserPCs
<1>3. CallInv
  BY BoundAssumption
     DEF Init, CallInv, CallTypeOK, ProducerPCs, WorksOnEntry
<1>4. WorkerInv
  BY DEF Init, WorkerInv, WorkerTypeOK, WorkerPCs
<1>5. StatsTypeOK
  BY DEF Init, StatsTypeOK, ZeroDropped
<1>6. HistoryTypeOK
  BY DEF Init, HistoryTypeOK, NoHistory
<1> QED BY <1>1, <1>2, <1>3, <1>4, <1>5, <1>6 DEF TypeInv

(* A send keeps the queue within its capacity when it finds room.          *)
LEMMA EnqueueType ==
  ASSUME NEW q \in Seq(Entry), NEW e \in Entry, Len(q) <= Capacity, HasRoom(q)
  PROVE  Enqueue(q, e) \in Seq(Entry) /\ Len(Enqueue(q, e)) <= Capacity
BY CapacityAssumption DEF HasRoom, Enqueue

(* A receive delivers an entry and leaves a queue of entries.              *)
LEMMA DequeueType ==
  ASSUME NEW q \in Seq(Entry), q # <<>>
  PROVE  /\ Head(q) \in Entry /\ Tail(q) \in Seq(Entry)
         /\ Len(Tail(q)) = Len(q) - 1
OBVIOUS

LEMMA CountDropType ==
  ASSUME StatsTypeOK, NEW level, CountDrop(level)
  PROVE  StatsTypeOK'
BY DEF StatsTypeOK, CountDrop, IncrementDropped

(* What a call of Write does to the counters and the history.              *)
LEMMA WriteType ==
  ASSUME StatsTypeOK, HistoryTypeOK, NEW e \in Entry,
         NEW fallback \in SUBSET Entry, NEW recycle \in SUBSET Entry,
         WriteOK(e, fallback, recycle) \/ WriteError(e)
  PROVE  StatsTypeOK' /\ HistoryTypeOK'
<1>1. CASE WriteOK(e, fallback, recycle)
  <2>1. StatsTypeOK'
    BY <1>1 DEF WriteOK, StatsTypeOK
  <2>2. Append(hist.out, e) \in Seq(Entry)
    BY DEF HistoryTypeOK
  <2>3. HistoryTypeOK'
    BY <1>1, <2>2 DEF WriteOK, HistoryTypeOK
  <2> QED BY <2>1, <2>3
<1>2. CASE WriteError(e)
  BY <1>2 DEF WriteError, StatsTypeOK, HistoryTypeOK
<1> QED BY <1>1, <1>2

LEMMA NextType == TypeInv /\ [Next]_vars => TypeInv'
<1> SUFFICES ASSUME TypeInv, [Next]_vars PROVE TypeInv'
  OBVIOUS
<1> USE DEF TypeInv, callVars, workerVars, CallKeeps, WorkerKeeps, CloseKeeps
<1>1. ASSUME NEW p \in Producers, NEW level \in LogLevels, HandleLog(p, level)
     PROVE  TypeInv'
  <2>0. /\ QueueTypeOK' /\ SignalTypeOK' /\ WorkerInv'
        /\ StatsTypeOK' /\ HistoryTypeOK'
    BY <1>1 DEF HandleLog, QueueTypeOK, SignalTypeOK, WorkerInv, WorkerTypeOK,
                StatsTypeOK, HistoryTypeOK
  <2>1. CallInv'
    <3>1. [src |-> p, seq |-> logged[p] + 1, level |-> level] \in Entry
      BY <1>1, BoundAssumption DEF HandleLog, CallInv, CallTypeOK, Entry
    <3> QED BY <1>1, <3>1, BoundAssumption
           DEF HandleLog, CallInv, CallTypeOK, ProducerPCs, WorksOnEntry
  <2> QED BY <2>0, <2>1
<1>2. ASSUME NEW p \in Producers, Send(p)
     PROVE  TypeInv'
  <2>0. SignalTypeOK' /\ WorkerInv' /\ StatsTypeOK' /\ HistoryTypeOK'
    BY <1>2 DEF Send, SignalTypeOK, WorkerInv, WorkerTypeOK, StatsTypeOK,
                HistoryTypeOK
  <2>1. QueueTypeOK'
    <3>1. held[p] \in Entry
      BY <1>2 DEF Send, Sending, CallInv, WorksOnEntry
    <3> QED BY <1>2, <3>1, EnqueueType DEF Send, QueueTypeOK
  <2>2. CallInv'
    BY <1>2 DEF Send, CallInv, CallTypeOK, ProducerPCs, WorksOnEntry, Sending
  <2> QED BY <2>0, <2>1, <2>2
<1>3. ASSUME NEW p \in Producers, SendPanics(p)
     PROVE  TypeInv'
  <2>0. /\ QueueTypeOK' /\ SignalTypeOK' /\ WorkerInv'
        /\ StatsTypeOK' /\ HistoryTypeOK'
    BY <1>3 DEF SendPanics, QueueTypeOK, SignalTypeOK, WorkerInv, WorkerTypeOK,
                StatsTypeOK, HistoryTypeOK
  <2>1. CallInv'
    BY <1>3 DEF SendPanics, CallInv, CallTypeOK, ProducerPCs, WorksOnEntry,
                Goto, Sending
  <2> QED BY <2>0, <2>1
<1>4. ASSUME NEW p \in Producers, DropIncoming(p)
     PROVE  TypeInv'
  <2>0. QueueTypeOK' /\ SignalTypeOK' /\ WorkerInv'
    BY <1>4 DEF DropIncoming, QueueTypeOK, SignalTypeOK, WorkerInv,
                WorkerTypeOK
  <2>1. CallInv'
    BY <1>4 DEF DropIncoming, CallInv, CallTypeOK, ProducerPCs, WorksOnEntry
  <2>2. StatsTypeOK'
    <3>1. CountDrop(held[p].level)
      BY <1>4 DEF DropIncoming
    <3> QED BY <3>1, CountDropType
  <2>3. HistoryTypeOK'
    <3>1. held[p] \in Entry
      BY <1>4 DEF DropIncoming, CallInv, WorksOnEntry
    <3> QED BY <1>4, <3>1 DEF DropIncoming, HistoryTypeOK
  <2> QED BY <2>0, <2>1, <2>2, <2>3
<1>5. ASSUME NEW p \in Producers, FindFull(p)
     PROVE  TypeInv'
  <2>0. /\ QueueTypeOK' /\ SignalTypeOK' /\ WorkerInv'
        /\ StatsTypeOK' /\ HistoryTypeOK'
    BY <1>5 DEF FindFull, QueueTypeOK, SignalTypeOK, WorkerInv, WorkerTypeOK,
                StatsTypeOK, HistoryTypeOK
  <2>1. CallInv'
    BY <1>5 DEF FindFull, CallInv, CallTypeOK, ProducerPCs, WorksOnEntry, Goto
  <2> QED BY <2>0, <2>1
<1>6. ASSUME NEW p \in Producers, Evict(p)
     PROVE  TypeInv'
  <2>0. SignalTypeOK' /\ WorkerInv'
    BY <1>6 DEF Evict, SignalTypeOK, WorkerInv, WorkerTypeOK
  <2>1. QueueTypeOK'
    <3>1. queue \in Seq(Entry) /\ queue # <<>> /\ Len(queue) <= Capacity
      BY <1>6 DEF Evict, QueueTypeOK
    <3>2. queue' = Tail(queue)
      BY <1>6 DEF Evict
    <3> QED BY <3>1, <3>2, DequeueType, CapacityAssumption DEF QueueTypeOK
  <2>2. CallInv'
    <3>1. AfterEvict(p) \in {"resend", "panicLevel"}
      BY DEF AfterEvict
    <3> QED BY <1>6, <3>1
           DEF Evict, Goto, CallInv, CallTypeOK, ProducerPCs, WorksOnEntry
  <2>3. StatsTypeOK'
    <3>1. CountDrop(held[p].level)
      BY <1>6 DEF Evict
    <3> QED BY <3>1, CountDropType
  <2>4. HistoryTypeOK'
    <3>1. Victim(p) \in Entry
      BY <1>6, DequeueType DEF Evict, Victim, QueueTypeOK
    <3> QED BY <1>6, <3>1 DEF Evict, HistoryTypeOK
  <2> QED BY <2>0, <2>1, <2>2, <2>3, <2>4
<1>7. ASSUME NEW p \in Producers, EvictNothing(p)
     PROVE  TypeInv'
  <2>0. QueueTypeOK' /\ SignalTypeOK' /\ WorkerInv' /\ HistoryTypeOK'
    BY <1>7 DEF EvictNothing, QueueTypeOK, SignalTypeOK, WorkerInv,
                WorkerTypeOK, HistoryTypeOK
  <2>1. CallInv'
    <3>1. AfterEvict(p) \in {"resend", "panicLevel"}
      BY DEF AfterEvict
    <3>2. \E label \in {"resend", "panicLevel"} : Goto(p, label)
      BY <1>7, <3>1 DEF EvictNothing
    <3>3. pc[p] = "evict" /\ logged' = logged
      BY <1>7 DEF EvictNothing
    <3> QED BY <3>2, <3>3
           DEF Goto, CallInv, CallTypeOK, ProducerPCs, WorksOnEntry
  <2>2. StatsTypeOK'
    <3>1. CountDrop(held[p].level) \/ stats' = stats
      BY <1>7 DEF EvictNothing
    <3> QED BY <3>1, CountDropType DEF StatsTypeOK
  <2> QED BY <2>0, <2>1, <2>2
<1>8. ASSUME NEW p \in Producers, ArmTimer(p)
     PROVE  TypeInv'
  <2>0. QueueTypeOK' /\ WorkerInv' /\ StatsTypeOK' /\ HistoryTypeOK'
    BY <1>8 DEF ArmTimer, QueueTypeOK, WorkerInv, WorkerTypeOK, StatsTypeOK,
                HistoryTypeOK
  <2>1. SignalTypeOK'
    BY <1>8 DEF ArmTimer, SignalTypeOK, Actors, CloserPCs, Goto
  <2>2. CallInv'
    BY <1>8 DEF ArmTimer, CallInv, CallTypeOK, ProducerPCs, WorksOnEntry, Goto
  <2> QED BY <2>0, <2>1, <2>2
<1>9. ASSUME NEW p \in Producers, WaitTimeout(p)
     PROVE  TypeInv'
  <2>0. QueueTypeOK' /\ WorkerInv' /\ HistoryTypeOK'
    BY <1>9 DEF WaitTimeout, QueueTypeOK, WorkerInv, WorkerTypeOK,
                HistoryTypeOK
  <2>1. SignalTypeOK'
    BY <1>9 DEF WaitTimeout, SignalTypeOK, Actors, CloserPCs, Goto
  <2>2. CallInv'
    BY <1>9 DEF WaitTimeout, CallInv, CallTypeOK, ProducerPCs, WorksOnEntry,
                Goto
  <2>3. StatsTypeOK'
    BY <1>9 DEF WaitTimeout, StatsTypeOK
  <2> QED BY <2>0, <2>1, <2>2, <2>3
<1>10. ASSUME NEW p \in Producers, WaitClosed(p)
      PROVE  TypeInv'
  <2>0. /\ QueueTypeOK' /\ SignalTypeOK' /\ WorkerInv'
        /\ StatsTypeOK' /\ HistoryTypeOK'
    BY <1>10 DEF WaitClosed, QueueTypeOK, SignalTypeOK, WorkerInv,
                 WorkerTypeOK, StatsTypeOK, HistoryTypeOK
  <2>1. CallInv'
    BY <1>10 DEF WaitClosed, CallInv, CallTypeOK, ProducerPCs, WorksOnEntry,
                 Goto
  <2> QED BY <2>0, <2>1
<1>11. ASSUME NEW p \in Producers, Disarm(p)
      PROVE  TypeInv'
  <2>0. QueueTypeOK' /\ WorkerInv' /\ StatsTypeOK' /\ HistoryTypeOK'
    BY <1>11 DEF Disarm, QueueTypeOK, WorkerInv, WorkerTypeOK, StatsTypeOK,
                 HistoryTypeOK
  <2>1. SignalTypeOK'
    BY <1>11 DEF Disarm, SignalTypeOK, Actors, CloserPCs, Goto
  <2>2. CallInv'
    BY <1>11 DEF Disarm, CallInv, CallTypeOK, ProducerPCs, WorksOnEntry, Goto
  <2> QED BY <2>0, <2>1, <2>2
<1>12. ASSUME NEW p \in Producers, TryLock(p)
      PROVE  TypeInv'
  <2>0. QueueTypeOK' /\ WorkerInv' /\ StatsTypeOK' /\ HistoryTypeOK'
    BY <1>12 DEF TryLock, QueueTypeOK, WorkerInv, WorkerTypeOK, StatsTypeOK,
                 HistoryTypeOK
  <2>1. SignalTypeOK'
    BY <1>12 DEF TryLock, SignalTypeOK, Actors, CloserPCs, Goto
  <2>2. CallInv'
    BY <1>12 DEF TryLock, CallInv, CallTypeOK, ProducerPCs, WorksOnEntry, Goto
  <2> QED BY <2>0, <2>1, <2>2
<1>13. ASSUME NEW p \in Producers, Lock(p)
      PROVE  TypeInv'
  <2>0. QueueTypeOK' /\ WorkerInv' /\ StatsTypeOK' /\ HistoryTypeOK'
    BY <1>13 DEF Lock, QueueTypeOK, WorkerInv, WorkerTypeOK, StatsTypeOK,
                 HistoryTypeOK
  <2>1. SignalTypeOK'
    BY <1>13 DEF Lock, SignalTypeOK, Actors, CloserPCs, Goto
  <2>2. CallInv'
    BY <1>13 DEF Lock, CallInv, CallTypeOK, ProducerPCs, WorksOnEntry, Goto
  <2> QED BY <2>0, <2>1, <2>2
<1>14. ASSUME NEW p \in Producers, FallbackWrite(p)
      PROVE  TypeInv'
  <2>0. QueueTypeOK' /\ WorkerInv'
    BY <1>14 DEF FallbackWrite, QueueTypeOK, WorkerInv, WorkerTypeOK
  <2>1. SignalTypeOK'
    BY <1>14 DEF FallbackWrite, SignalTypeOK, Actors, CloserPCs, Unlock
  <2>2. CallInv'
    BY <1>14 DEF FallbackWrite, CallInv, CallTypeOK, ProducerPCs, WorksOnEntry,
                 Return, InFallback
  <2>3. StatsTypeOK' /\ HistoryTypeOK'
    <3>1. held[p] \in Entry
      BY <1>14 DEF FallbackWrite, InFallback, CallInv, WorksOnEntry
    <3>2. WriteOK(held[p], {held[p]}, {}) \/ WriteError(held[p])
      BY <1>14 DEF FallbackWrite
    <3> QED BY <3>1, <3>2, WriteType
  <2> QED BY <2>0, <2>1, <2>2, <2>3
<1>15. ASSUME TimerFires
      PROVE  TypeInv'
  <2>0. /\ QueueTypeOK' /\ CallInv' /\ WorkerInv'
        /\ StatsTypeOK' /\ HistoryTypeOK'
    BY <1>15 DEF TimerFires, QueueTypeOK, CallInv, CallTypeOK, WorkerInv,
                 WorkerTypeOK, StatsTypeOK, HistoryTypeOK
  <2>1. SignalTypeOK'
    BY <1>15 DEF TimerFires, SignalTypeOK, Actors, CloserPCs
  <2> QED BY <2>0, <2>1
<1>16. ASSUME NEW c \in Closers, CloseCheck(c)
      PROVE  TypeInv'
  <2>0. /\ QueueTypeOK' /\ CallInv' /\ WorkerInv'
        /\ StatsTypeOK' /\ HistoryTypeOK'
    BY <1>16 DEF CloseCheck, QueueTypeOK, CallInv, CallTypeOK, WorkerInv,
                 WorkerTypeOK, StatsTypeOK, HistoryTypeOK
  <2>1. SignalTypeOK'
    BY <1>16 DEF CloseCheck, SignalTypeOK, Actors, CloserPCs, CloseGoto
  <2> QED BY <2>0, <2>1
<1>17. ASSUME NEW c \in Closers, CloseSignal(c)
      PROVE  TypeInv'
  <2>0. QueueTypeOK' /\ CallInv' /\ WorkerInv' /\ StatsTypeOK'
    BY <1>17 DEF CloseSignal, QueueTypeOK, CallInv, CallTypeOK, WorkerInv,
                 WorkerTypeOK, StatsTypeOK
  <2>1. SignalTypeOK'
    BY <1>17 DEF CloseSignal, SignalTypeOK, Actors, CloserPCs, CloseGoto
  <2>2. HistoryTypeOK'
    <3>1. Range(queue) \subseteq Entry
      BY RangeOfSeq DEF QueueTypeOK
    <3>2. {taken} \ {NoEntry} \subseteq Entry
      BY DEF WorkerInv, WorkerTypeOK
    <3> QED BY <1>17, <3>1, <3>2 DEF CloseSignal, HistoryTypeOK
  <2> QED BY <2>0, <2>1, <2>2
<1>18. ASSUME NEW c \in Closers, CloseAwait(c)
      PROVE  TypeInv'
  <2>0. /\ QueueTypeOK' /\ CallInv' /\ WorkerInv'
        /\ StatsTypeOK' /\ HistoryTypeOK'
    BY <1>18 DEF CloseAwait, QueueTypeOK, CallInv, CallTypeOK, WorkerInv,
                 WorkerTypeOK, StatsTypeOK, HistoryTypeOK
  <2>1. SignalTypeOK'
    BY <1>18 DEF CloseAwait, SignalTypeOK, Actors, CloserPCs, CloseGoto
  <2> QED BY <2>0, <2>1
<1>19. ASSUME NEW c \in Closers, CloseQueue(c)
      PROVE  TypeInv'
  <2>0. /\ QueueTypeOK' /\ CallInv' /\ WorkerInv'
        /\ StatsTypeOK' /\ HistoryTypeOK'
    BY <1>19 DEF CloseQueue, QueueTypeOK, CallInv, CallTypeOK, WorkerInv,
                 WorkerTypeOK, StatsTypeOK, HistoryTypeOK
  <2>1. SignalTypeOK'
    BY <1>19 DEF CloseQueue, SignalTypeOK, Actors, CloserPCs, CloseGoto
  <2> QED BY <2>0, <2>1
<1>20. ASSUME NEW from \in {"select", "batch", "drain"}, Receive(from)
      PROVE  TypeInv'
  <2>0. SignalTypeOK' /\ CallInv' /\ StatsTypeOK' /\ HistoryTypeOK'
    BY <1>20 DEF Receive, SignalTypeOK, CallInv, CallTypeOK, StatsTypeOK,
                 HistoryTypeOK
  <2>1. QueueTypeOK'
    <3>1. queue \in Seq(Entry) /\ queue # <<>> /\ Len(queue) <= Capacity
      BY <1>20 DEF Receive, QueueTypeOK
    <3>2. queue' = Tail(queue)
      BY <1>20 DEF Receive
    <3> QED BY <3>1, <3>2, DequeueType, CapacityAssumption DEF QueueTypeOK
  <2>2. WorkerInv'
    <3>1. Head(queue) \in Entry
      BY <1>20, DequeueType DEF Receive, QueueTypeOK
    <3> QED BY <1>20, <3>1 DEF Receive, WorkerInv, WorkerTypeOK, WorkerPCs
  <2> QED BY <2>0, <2>1, <2>2
<1>21. ASSUME BatchEmpty
      PROVE  TypeInv'
  <2>0. /\ QueueTypeOK' /\ SignalTypeOK' /\ CallInv'
        /\ StatsTypeOK' /\ HistoryTypeOK'
    BY <1>21 DEF BatchEmpty, QueueTypeOK, SignalTypeOK, CallInv, CallTypeOK,
                 StatsTypeOK, HistoryTypeOK
  <2>1. WorkerInv'
    BY <1>21 DEF BatchEmpty, WorkerInv, WorkerTypeOK, WorkerPCs
  <2> QED BY <2>0, <2>1
<1>22. ASSUME SeeClosed
      PROVE  TypeInv'
  <2>0. /\ QueueTypeOK' /\ SignalTypeOK' /\ CallInv'
        /\ StatsTypeOK' /\ HistoryTypeOK'
    BY <1>22 DEF SeeClosed, QueueTypeOK, SignalTypeOK, CallInv, CallTypeOK,
                 StatsTypeOK, HistoryTypeOK
  <2>1. WorkerInv'
    BY <1>22 DEF SeeClosed, WorkerInv, WorkerTypeOK, WorkerPCs
  <2> QED BY <2>0, <2>1
<1>23. ASSUME DeadlineExpires
      PROVE  TypeInv'
  <2>0. /\ QueueTypeOK' /\ SignalTypeOK' /\ CallInv'
        /\ StatsTypeOK' /\ HistoryTypeOK'
    BY <1>23 DEF DeadlineExpires, QueueTypeOK, SignalTypeOK, CallInv,
                 CallTypeOK, StatsTypeOK, HistoryTypeOK
  <2>1. WorkerInv'
    BY <1>23 DEF DeadlineExpires, WorkerInv, WorkerTypeOK, WorkerPCs
  <2> QED BY <2>0, <2>1
<1>24. ASSUME DrainEnds
      PROVE  TypeInv'
  <2>0. /\ QueueTypeOK' /\ SignalTypeOK' /\ CallInv'
        /\ StatsTypeOK' /\ HistoryTypeOK'
    BY <1>24 DEF DrainEnds, QueueTypeOK, SignalTypeOK, CallInv, CallTypeOK,
                 StatsTypeOK, HistoryTypeOK
  <2>1. WorkerInv'
    BY <1>24 DEF DrainEnds, WorkerInv, WorkerTypeOK, WorkerPCs
  <2> QED BY <2>0, <2>1
<1>25. ASSUME WorkerLock
      PROVE  TypeInv'
  <2>0. QueueTypeOK' /\ CallInv' /\ StatsTypeOK' /\ HistoryTypeOK'
    BY <1>25 DEF WorkerLock, QueueTypeOK, CallInv, CallTypeOK, StatsTypeOK,
                 HistoryTypeOK
  <2>1. SignalTypeOK'
    BY <1>25 DEF WorkerLock, SignalTypeOK, Actors, CloserPCs
  <2>2. WorkerInv'
    BY <1>25 DEF WorkerLock, WorkerInv, WorkerTypeOK, WorkerPCs
  <2> QED BY <2>0, <2>1, <2>2
<1>26. ASSUME WorkerWrite
      PROVE  TypeInv'
  <2>0. QueueTypeOK' /\ CallInv'
    BY <1>26 DEF WorkerWrite, QueueTypeOK, CallInv, CallTypeOK
  <2>1. SignalTypeOK'
    BY <1>26 DEF WorkerWrite, SignalTypeOK, Actors, CloserPCs, Unlock
  <2>2. WorkerInv'
    BY <1>26 DEF WorkerWrite, WorkerInv, WorkerTypeOK, WorkerPCs, ResumeLoop,
                 WriteError, WriteOK
  <2>3. StatsTypeOK' /\ HistoryTypeOK'
    <3>1. taken \in Entry
      BY <1>26 DEF WorkerWrite, WorkerInv
    <3>2. WriteOK(taken, {}, {taken}) \/ WriteError(taken)
      BY <1>26 DEF WorkerWrite
    <3> QED BY <3>1, <3>2, WriteType
  <2> QED BY <2>0, <2>1, <2>2, <2>3
<1>27. ASSUME UNCHANGED vars
       PROVE  TypeInv'
  BY <1>27 DEF vars, QueueTypeOK, SignalTypeOK, CallInv, CallTypeOK, WorkerInv,
               WorkerTypeOK, StatsTypeOK, HistoryTypeOK
<1> QED
  BY <1>1, <1>2, <1>3, <1>4, <1>5, <1>6, <1>7, <1>8, <1>9, <1>10, <1>11,
     <1>12, <1>13, <1>14, <1>15, <1>16, <1>17, <1>18, <1>19, <1>20, <1>21,
     <1>22, <1>23, <1>24, <1>25, <1>26, <1>27
     DEF Next, HandleStep, CloseStep, WorkerStep

(* Every variable of the handler stays in its type and the queue within    *)
(* BufferSize, for any number of goroutines (console_async.go).            *)
THEOREM TypeCorrect == Spec => []TypeOK
<1>1. Init => TypeInv
  BY InitType
<1>2. TypeInv /\ [Next]_vars => TypeInv'
  BY NextType
<1>3. TypeInv => TypeOK
  BY DEF TypeInv, TypeOK, CallInv, WorkerInv
<1> QED
  BY <1>1, <1>2, <1>3, PTL DEF Spec

(* The mutex belongs to the goroutine inside the locked part of a write,   *)
(* and only a concurrent-safe writer is entered without it.                *)
MutexInv ==
  /\ \A p \in Producers : pc[p] = "locked" => mu = p
  /\ \A p \in Producers : pc[p] = "direct" => ConcurrentSafe
  /\ workerPC = "write" => mu = Worker

(* Close closes the signal, waits for the worker, closes the queue.        *)
ShutdownInv ==
  /\ \A c \in Closers : closerPC[c] \in {"await", "closeQueue"} => closed
  /\ \A c \in Closers : closerPC[c] = "closeQueue" => WorkerGone
  /\ queueClosed => closed /\ WorkerGone
  /\ \A p \in Producers : pc[p] = "panicSend" => queueClosed

LEMMA NextMutex == TypeInv /\ MutexInv /\ [Next]_vars => MutexInv'
<1> SUFFICES ASSUME TypeInv, MutexInv, [Next]_vars PROVE MutexInv'
  OBVIOUS
<1> USE DEF TypeInv, CallInv, CallTypeOK, MutexInv, callVars, workerVars,
            CallKeeps, WorkerKeeps, CloseKeeps
<1>1. ASSUME NEW p \in Producers, NEW level \in LogLevels, HandleLog(p, level)
     PROVE  MutexInv'
  BY <1>1, GoroutineAssumption DEF HandleLog
<1>2. ASSUME NEW p \in Producers, Send(p)
     PROVE  MutexInv'
  BY <1>2, GoroutineAssumption DEF Send
<1>3. ASSUME NEW p \in Producers, SendPanics(p)
     PROVE  MutexInv'
  BY <1>3, GoroutineAssumption DEF SendPanics, Goto
<1>4. ASSUME NEW p \in Producers, DropIncoming(p)
     PROVE  MutexInv'
  BY <1>4, GoroutineAssumption DEF DropIncoming
<1>5. ASSUME NEW p \in Producers, FindFull(p)
     PROVE  MutexInv'
  BY <1>5, GoroutineAssumption DEF FindFull, Goto
<1>6. ASSUME NEW p \in Producers, Evict(p)
     PROVE  MutexInv'
  BY <1>6, GoroutineAssumption DEF Evict, AfterEvict, Goto
<1>7. ASSUME NEW p \in Producers, EvictNothing(p)
     PROVE  MutexInv'
  BY <1>7, GoroutineAssumption DEF EvictNothing, AfterEvict, Goto
<1>8. ASSUME NEW p \in Producers, ArmTimer(p)
     PROVE  MutexInv'
  BY <1>8, GoroutineAssumption DEF ArmTimer, Goto
<1>9. ASSUME NEW p \in Producers, WaitTimeout(p)
     PROVE  MutexInv'
  BY <1>9, GoroutineAssumption DEF WaitTimeout, Goto
<1>10. ASSUME NEW p \in Producers, WaitClosed(p)
      PROVE  MutexInv'
  BY <1>10, GoroutineAssumption DEF WaitClosed, Goto
<1>11. ASSUME NEW p \in Producers, Disarm(p)
      PROVE  MutexInv'
  BY <1>11, GoroutineAssumption DEF Disarm, Goto
<1>12. ASSUME NEW p \in Producers, TryLock(p)
      PROVE  MutexInv'
  BY <1>12, GoroutineAssumption DEF TryLock, Goto
<1>13. ASSUME NEW p \in Producers, Lock(p)
      PROVE  MutexInv'
  BY <1>13, GoroutineAssumption DEF Lock, Goto
<1>14. ASSUME NEW p \in Producers, FallbackWrite(p)
      PROVE  MutexInv'
  BY <1>14, GoroutineAssumption DEF FallbackWrite, Return, Unlock, InFallback
<1>15. ASSUME TimerFires
      PROVE  MutexInv'
  BY <1>15, GoroutineAssumption DEF TimerFires
<1>16. ASSUME NEW c \in Closers, CloseCheck(c)
      PROVE  MutexInv'
  BY <1>16, GoroutineAssumption DEF CloseCheck
<1>17. ASSUME NEW c \in Closers, CloseSignal(c)
      PROVE  MutexInv'
  BY <1>17, GoroutineAssumption DEF CloseSignal
<1>18. ASSUME NEW c \in Closers, CloseAwait(c)
      PROVE  MutexInv'
  BY <1>18, GoroutineAssumption DEF CloseAwait
<1>19. ASSUME NEW c \in Closers, CloseQueue(c)
      PROVE  MutexInv'
  BY <1>19, GoroutineAssumption DEF CloseQueue
<1>20. ASSUME NEW from \in {"select", "batch", "drain"}, Receive(from)
      PROVE  MutexInv'
  BY <1>20, GoroutineAssumption DEF Receive
<1>21. ASSUME BatchEmpty
      PROVE  MutexInv'
  BY <1>21, GoroutineAssumption DEF BatchEmpty
<1>22. ASSUME SeeClosed
      PROVE  MutexInv'
  BY <1>22, GoroutineAssumption DEF SeeClosed
<1>23. ASSUME DeadlineExpires
      PROVE  MutexInv'
  BY <1>23, GoroutineAssumption DEF DeadlineExpires
<1>24. ASSUME DrainEnds
      PROVE  MutexInv'
  BY <1>24, GoroutineAssumption DEF DrainEnds
<1>25. ASSUME WorkerLock
      PROVE  MutexInv'
  BY <1>25, GoroutineAssumption DEF WorkerLock
<1>26. ASSUME WorkerWrite
      PROVE  MutexInv'
  BY <1>26, GoroutineAssumption DEF WorkerWrite, Unlock, ResumeLoop
<1>27. ASSUME UNCHANGED vars
       PROVE  MutexInv'
  BY <1>27 DEF vars
<1> QED
  BY <1>1, <1>2, <1>3, <1>4, <1>5, <1>6, <1>7, <1>8, <1>9, <1>10, <1>11,
     <1>12, <1>13, <1>14, <1>15, <1>16, <1>17, <1>18, <1>19, <1>20, <1>21,
     <1>22, <1>23, <1>24, <1>25, <1>26, <1>27
     DEF Next, HandleStep, CloseStep, WorkerStep

LEMMA NextShutdown == TypeInv /\ ShutdownInv /\ [Next]_vars => ShutdownInv'
<1> SUFFICES ASSUME TypeInv, ShutdownInv, [Next]_vars PROVE ShutdownInv'
  OBVIOUS
<1> USE DEF TypeInv, CallInv, CallTypeOK, SignalTypeOK, ShutdownInv,
            WorkerGone, callVars, workerVars, CallKeeps, WorkerKeeps,
            CloseKeeps
<1>1. ASSUME NEW p \in Producers, NEW level \in LogLevels, HandleLog(p, level)
     PROVE  ShutdownInv'
  BY <1>1 DEF HandleLog
<1>2. ASSUME NEW p \in Producers, Send(p)
     PROVE  ShutdownInv'
  BY <1>2 DEF Send
<1>3. ASSUME NEW p \in Producers, SendPanics(p)
     PROVE  ShutdownInv'
  BY <1>3 DEF SendPanics, Goto
<1>4. ASSUME NEW p \in Producers, DropIncoming(p)
     PROVE  ShutdownInv'
  BY <1>4 DEF DropIncoming
<1>5. ASSUME NEW p \in Producers, FindFull(p)
     PROVE  ShutdownInv'
  BY <1>5 DEF FindFull, Goto
<1>6. ASSUME NEW p \in Producers, Evict(p)
     PROVE  ShutdownInv'
  BY <1>6 DEF Evict, AfterEvict, Goto
<1>7. ASSUME NEW p \in Producers, EvictNothing(p)
     PROVE  ShutdownInv'
  BY <1>7 DEF EvictNothing, AfterEvict, Goto
<1>8. ASSUME NEW p \in Producers, ArmTimer(p)
     PROVE  ShutdownInv'
  BY <1>8 DEF ArmTimer, Goto
<1>9. ASSUME NEW p \in Producers, WaitTimeout(p)
     PROVE  ShutdownInv'
  BY <1>9 DEF WaitTimeout, Goto
<1>10. ASSUME NEW p \in Producers, WaitClosed(p)
      PROVE  ShutdownInv'
  BY <1>10 DEF WaitClosed, Goto
<1>11. ASSUME NEW p \in Producers, Disarm(p)
      PROVE  ShutdownInv'
  BY <1>11 DEF Disarm, Goto
<1>12. ASSUME NEW p \in Producers, TryLock(p)
      PROVE  ShutdownInv'
  BY <1>12 DEF TryLock, Goto
<1>13. ASSUME NEW p \in Producers, Lock(p)
      PROVE  ShutdownInv'
  BY <1>13 DEF Lock, Goto
<1>14. ASSUME NEW p \in Producers, FallbackWrite(p)
      PROVE  ShutdownInv'
  BY <1>14 DEF FallbackWrite, Return, Unlock, InFallback
<1>15. ASSUME TimerFires
      PROVE  ShutdownInv'
  BY <1>15 DEF TimerFires
<1>16. ASSUME NEW c \in Closers, CloseCheck(c)
      PROVE  ShutdownInv'
  BY <1>16 DEF CloseCheck, CloseGoto
<1>17. ASSUME NEW c \in Closers, CloseSignal(c)
      PROVE  ShutdownInv'
  BY <1>17 DEF CloseSignal, CloseGoto
<1>18. ASSUME NEW c \in Closers, CloseAwait(c)
      PROVE  ShutdownInv'
  BY <1>18 DEF CloseAwait, CloseGoto
<1>19. ASSUME NEW c \in Closers, CloseQueue(c)
      PROVE  ShutdownInv'
  BY <1>19 DEF CloseQueue, CloseGoto
<1>20. ASSUME NEW from \in {"select", "batch", "drain"}, Receive(from)
      PROVE  ShutdownInv'
  BY <1>20 DEF Receive
<1>21. ASSUME BatchEmpty
      PROVE  ShutdownInv'
  BY <1>21 DEF BatchEmpty
<1>22. ASSUME SeeClosed
      PROVE  ShutdownInv'
  BY <1>22 DEF SeeClosed
<1>23. ASSUME DeadlineExpires
      PROVE  ShutdownInv'
  BY <1>23 DEF DeadlineExpires
<1>24. ASSUME DrainEnds
      PROVE  ShutdownInv'
  BY <1>24 DEF DrainEnds
<1>25. ASSUME WorkerLock
      PROVE  ShutdownInv'
  BY <1>25 DEF WorkerLock
<1>26. ASSUME WorkerWrite
      PROVE  ShutdownInv'
  BY <1>26 DEF WorkerWrite, Unlock, ResumeLoop
<1>27. ASSUME UNCHANGED vars
       PROVE  ShutdownInv'
  BY <1>27 DEF vars
<1> QED
  BY <1>1, <1>2, <1>3, <1>4, <1>5, <1>6, <1>7, <1>8, <1>9, <1>10, <1>11,
     <1>12, <1>13, <1>14, <1>15, <1>16, <1>17, <1>18, <1>19, <1>20, <1>21,
     <1>22, <1>23, <1>24, <1>25, <1>26, <1>27
     DEF Next, HandleStep, CloseStep, WorkerStep

LEMMA InitSafety == Init => MutexInv /\ ShutdownInv
BY DEF Init, MutexInv, ShutdownInv

LEMMA SafetyInvariant == Spec => [](TypeInv /\ MutexInv /\ ShutdownInv)
<1> DEFINE Inv == TypeInv /\ MutexInv /\ ShutdownInv
<1>1. Init => Inv
  BY InitType, InitSafety
<1>2. Inv /\ [Next]_vars => Inv'
  BY NextType, NextMutex, NextShutdown
<1> QED
  BY <1>1, <1>2, PTL DEF Spec

(* A writer that is not safe for concurrent use is never inside two Write  *)
(* calls at once, for any number of callers whose Block timed out          *)
(* (console.go, write and processWrite).                                   *)
THEOREM WriterExclusiveAlways == Spec => []WriterExclusive
<1>1. TypeInv /\ MutexInv /\ ShutdownInv => WriterExclusive
  BY DEF WriterExclusive, Writing, InFallback, MutexInv
<1> QED
  BY <1>1, SafetyInvariant, PTL

(* The queue is closed only after the close signal and after process() has *)
(* returned, so a send can only panic when nobody consumes the queue       *)
(* (console_async.go, Close).                                              *)
THEOREM ShutdownOrdered == Spec => []ShutdownOrder
<1>1. TypeInv /\ MutexInv /\ ShutdownInv => ShutdownOrder
  BY DEF ShutdownInv, ShutdownOrder
<1> QED
  BY <1>1, SafetyInvariant, PTL

-----------------------------------------------------------------------------
(* Close called more than once                                             *)

(* No two calls of Close stand between the check and close(h.closed).      *)
OneBehindCheck ==
  \A c, d \in Closers :
    closerPC[c] = "signal" /\ closerPC[d] = "signal" => c = d

(* A call that stands there found the handler open, and nobody has closed  *)
(* it since.                                                               *)
CheckInv ==
  /\ CloseIdempotent
  /\ \A c \in Closers : closerPC[c] = "signal" => ~ closed

LEMMA InitCheck == Init => CheckInv
BY DEF Init, CheckInv, CloseIdempotent

LEMMA OtherStepsLeaveClose ==
  ASSUME [Next]_vars,
         \A c \in Closers : ~ CloseCheck(c) /\ ~ CloseSignal(c)
                              /\ ~ CloseAwait(c) /\ ~ CloseQueue(c)
  PROVE  UNCHANGED <<closed, closerPC>>
<1> USE DEF CallKeeps, WorkerKeeps
<1>1. ASSUME NEW p \in Producers, HandleStep(p)
      PROVE  UNCHANGED <<closed, closerPC>>
  BY <1>1
     DEF HandleStep, Send, SendPanics, DropIncoming, FindFull, Evict,
         EvictNothing, ArmTimer, WaitTimeout, WaitClosed, Disarm, TryLock,
         Lock, FallbackWrite
<1>2. ASSUME NEW p \in Producers, NEW level \in LogLevels,
             HandleLog(p, level)
      PROVE  UNCHANGED <<closed, closerPC>>
  BY <1>2 DEF HandleLog
<1>3. CASE WorkerStep
  BY <1>3
     DEF WorkerStep, Receive, BatchEmpty, SeeClosed, DrainEnds, WorkerLock,
         WorkerWrite
<1>4. CASE TimerFires \/ DeadlineExpires \/ UNCHANGED vars
  BY <1>4 DEF TimerFires, DeadlineExpires, vars
<1> QED
  BY <1>1, <1>2, <1>3, <1>4 DEF Next, CloseStep

LEMMA NextCheck ==
  ASSUME TypeInv, CheckInv, OneBehindCheck, [Next]_vars
  PROVE  CheckInv'
<1> USE DEF CheckInv, CloseIdempotent, TypeInv, SignalTypeOK, CloseKeeps,
            CloseGoto
<1>1. ASSUME NEW c \in Closers, CloseCheck(c)
      PROVE  CheckInv'
  BY <1>1 DEF CloseCheck
<1>2. ASSUME NEW c \in Closers, CloseSignal(c)
      PROVE  CheckInv'
  BY <1>2 DEF CloseSignal, OneBehindCheck
<1>3. ASSUME NEW c \in Closers, CloseAwait(c) \/ CloseQueue(c)
      PROVE  CheckInv'
  BY <1>3 DEF CloseAwait, CloseQueue
<1>4. CASE \A c \in Closers : ~ CloseCheck(c) /\ ~ CloseSignal(c)
                                /\ ~ CloseAwait(c) /\ ~ CloseQueue(c)
  BY <1>4, OtherStepsLeaveClose
<1> QED
  BY <1>1, <1>2, <1>3, <1>4

(* Close is idempotent, for any number of calls, also while others drain,  *)
(* as long as no two of them are between the check and close(h.closed) at  *)
(* the same time: that window is all that can make it panic                *)
(* (console_async.go, Close).                                              *)
THEOREM IdempotentOutsideWindow ==
  Spec /\ []OneBehindCheck => []CloseIdempotent
<1>1. TypeInv /\ CheckInv /\ OneBehindCheck /\ [Next]_vars => CheckInv'
  BY NextCheck
<1>2. CheckInv => CloseIdempotent
  BY DEF CheckInv
<1>3. Spec => []TypeInv
  BY SafetyInvariant, PTL
<1> QED
  BY <1>1, <1>2, <1>3, InitCheck, PTL DEF Spec
==============================================================================
