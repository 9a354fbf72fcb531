------------------------- MODULE LegacyConsoleProofs -------------------------
(***************************************************************************)
(* Proofs of the invariants of LegacyConsole, for any set of producers and *)
(* any capacity.                                                           *)
(***************************************************************************)
EXTENDS LegacyConsole, TLAPS

(* Worker, Closer and Nobody differ from each other and from the callers.  *)
LEMMA Distinct ==
  /\ Worker # Closer /\ Worker # Nobody /\ Closer # Nobody
  /\ \A p \in Producers : p # Worker /\ p # Closer /\ p # Nobody
BY GoroutineAssumption

-----------------------------------------------------------------------------
(* The type invariant is inductive by itself.                              *)

LEMMA TypeInit == Init => TypeOK
<1> SUFFICES ASSUME Init PROVE TypeOK
  OBVIOUS
<1>1. queued \in 0 .. Capacity
  BY CapacityAssumption DEF Init
<1>2. {mu, writeMu, syncBuf} \subseteq Writers \cup {Closer, Nobody}
  BY DEF Init
<1>3. /\ line \in [Writers -> {"none", "shared", "own"}]
      /\ pc \in [Producers -> ProducerPCs]
  BY DEF Init, ProducerPCs
<1>4. workerPC \in WorkerPCs
  BY DEF Init, WorkerPCs
<1>5. /\ resume \in {"select", "loop", "drain"}
      /\ deadline \in {"off", "running", "expired"}
      /\ closerPC \in CloserPCs
  BY DEF Init, CloserPCs
<1>6. /\ async \in BOOLEAN /\ buffered \in BOOLEAN
      /\ queueClosed \in BOOLEAN /\ closed \in BOOLEAN
  BY DEF Init
<1> QED
  BY <1>1, <1>2, <1>3, <1>4, <1>5, <1>6 DEF TypeOK

LEMMA TypeStep == TypeOK /\ [Next]_vars => TypeOK'
<1> SUFFICES ASSUME TypeOK, [Next]_vars PROVE TypeOK'
  OBVIOUS
<1> USE CapacityAssumption DEF TypeOK, Writers, ProducerPCs, WorkerPCs, CloserPCs,
        CallKeeps, WorkerKeeps, CloseKeeps, config, channels, buffers, workerVars,
        Goto
<1>1. ASSUME NEW p \in Producers, HandleLog(p) PROVE TypeOK'
  BY <1>1 DEF HandleLog
<1>2. ASSUME NEW p \in Producers, Send(p) PROVE TypeOK'
  BY <1>2 DEF Send, HasRoom, Sending
<1>3. ASSUME NEW p \in Producers, SendPanics(p) PROVE TypeOK'
  BY <1>3 DEF SendPanics
<1>4. ASSUME NEW p \in Producers, FindFull(p) PROVE TypeOK'
  BY <1>4 DEF FindFull
<1>5. ASSUME NEW p \in Producers, Evict(p) PROVE TypeOK'
  BY <1>5 DEF Evict
<1>6. ASSUME NEW p \in Producers, WaitClosed(p) PROVE TypeOK'
  BY <1>6 DEF WaitClosed
<1>7. ASSUME NEW p \in Producers, WaitTimeout(p) PROVE TypeOK'
  BY <1>7 DEF WaitTimeout
<1>8. ASSUME NEW p \in Producers, Format(p) PROVE TypeOK'
  BY <1>8 DEF Format, FormatShared, FormatOwn
<1>9. ASSUME NEW p \in Producers, FormatFails(p) PROVE TypeOK'
  BY <1>9 DEF FormatFails
<1>10. ASSUME NEW p \in Producers, Lock(p) PROVE TypeOK'
  BY <1>10 DEF Lock, LockWriter
<1>11. ASSUME NEW p \in Producers, Written(p) PROVE TypeOK'
  BY <1>11 DEF Written, Release
<1>12. CASE Receive
  BY <1>12 DEF Receive
<1>13. CASE Collect
  BY <1>13 DEF Collect
<1>14. CASE BatchEnds
  BY <1>14 DEF BatchEnds, FormatOwn
<1>15. CASE TakeNext
  BY <1>15 DEF TakeNext
<1>16. CASE LoopEnds \/ SeeClosed \/ DrainEnds \/ WorkerFormatFails \/ DeadlineExpires
  BY <1>16 DEF LoopEnds, SeeClosed, DrainEnds, WorkerFormatFails, DeadlineExpires
<1>17. CASE WorkerFormat
  BY <1>17 DEF WorkerFormat, FormatShared, FormatOwn
<1>18. CASE WorkerLock
  BY <1>18 DEF WorkerLock, LockWriter
<1>19. CASE WorkerWritten
  BY <1>19 DEF WorkerWritten, Release
<1>20. CASE CloseSignal \/ CloseAwait \/ CloseQueue
  <2>1. CASE CloseSignal BY <2>1 DEF CloseSignal
  <2>2. CASE CloseAwait BY <2>2 DEF CloseAwait
  <2>3. CASE CloseQueue BY <2>3 DEF CloseQueue
  <2> QED BY <1>20, <2>1, <2>2, <2>3
<1>21. CASE UNCHANGED vars
  BY <1>21 DEF vars
<1> QED
  BY <1>1, <1>2, <1>3, <1>4, <1>5, <1>6, <1>7, <1>8, <1>9, <1>10, <1>11, <1>12,
     <1>13, <1>14, <1>15, <1>16, <1>17, <1>18, <1>19, <1>20, <1>21
     DEF Next, HandleStep, WorkerStep

(* Every variable keeps its type; in particular the queue never holds more *)
(* than BufferSize entries (Handle).                                       *)
THEOREM TypeCorrect == Spec => []TypeOK
<1>1. Init => TypeOK
  BY TypeInit
<1>2. TypeOK /\ [Next]_vars => TypeOK'
  BY TypeStep
<1> QED
  BY <1>1, <1>2, PTL DEF Spec

-----------------------------------------------------------------------------
(* What the two locks protect, by holder.                                  *)

(* Whoever is in Write holds writeMu.                                      *)
WriterInv ==
  /\ \A p \in Producers : pc[p] = "write" => writeMu = p
  /\ workerPC = "write" => writeMu = Worker

(* Whoever has a line in the shared buffer holds mu, and the line is its   *)
(* own.  A caller that does not come to lock or write has no line.         *)
BufferInv ==
  /\ \A g \in Writers : line[g] = "shared" => mu = g /\ syncBuf = g
  /\ \A p \in Producers : pc[p] \notin {"lock", "write"} => line[p] = "none"
  /\ workerPC \notin {"lock", "write"} => line[Worker] = "none"

(* Close is behind its wait only when the worker has gone.                 *)
CloseInv ==
  /\ closerPC = "queue" => workerPC = "gone"
  /\ queueClosed => workerPC = "gone"

LockInv == WriterInv /\ BufferInv /\ CloseInv

LEMMA LockInit == Init => LockInv
BY Distinct DEF Init, LockInv, WriterInv, BufferInv, CloseInv, Writers

LEMMA WriterStep == TypeOK /\ WriterInv /\ [Next]_vars => WriterInv'
<1> SUFFICES ASSUME TypeOK, WriterInv, [Next]_vars PROVE WriterInv'
  OBVIOUS
<1> USE Distinct DEF TypeOK, WriterInv, CallKeeps, WorkerKeeps, CloseKeeps, config,
        channels, buffers, workerVars, Goto
<1>1. ASSUME NEW p \in Producers, HandleLog(p) PROVE WriterInv'
  BY <1>1 DEF HandleLog
<1>2. ASSUME NEW p \in Producers,
             Send(p) \/ SendPanics(p) \/ FindFull(p) \/ Evict(p) \/ WaitClosed(p)
               \/ WaitTimeout(p)
      PROVE  WriterInv'
  BY <1>2 DEF Send, SendPanics, FindFull, Evict, WaitClosed, WaitTimeout
<1>3. ASSUME NEW p \in Producers, Format(p) \/ FormatFails(p) PROVE WriterInv'
  BY <1>3 DEF Format, FormatFails
<1>4. ASSUME NEW p \in Producers, Lock(p) PROVE WriterInv'
  BY <1>4 DEF Lock, LockWriter
<1>5. ASSUME NEW p \in Producers, Written(p) PROVE WriterInv'
  BY <1>5 DEF Written, Release
<1>6. CASE Receive \/ Collect \/ TakeNext \/ LoopEnds \/ SeeClosed \/ DrainEnds
             \/ WorkerFormatFails \/ DeadlineExpires
  BY <1>6 DEF Receive, Collect, TakeNext, LoopEnds, SeeClosed, DrainEnds,
              WorkerFormatFails, DeadlineExpires
<1>7. CASE BatchEnds \/ WorkerFormat
  BY <1>7 DEF BatchEnds, WorkerFormat
<1>8. CASE WorkerLock
  BY <1>8 DEF WorkerLock, LockWriter
<1>9. CASE WorkerWritten
  BY <1>9 DEF WorkerWritten, Release
<1>10. CASE CloseSignal \/ CloseAwait \/ CloseQueue
  BY <1>10 DEF CloseSignal, CloseAwait, CloseQueue
<1>11. CASE UNCHANGED vars
  BY <1>11 DEF vars
<1> QED
  BY <1>1, <1>2, <1>3, <1>4, <1>5, <1>6, <1>7, <1>8, <1>9, <1>10, <1>11
     DEF Next, HandleStep, WorkerStep

LEMMA BufferStep == TypeOK /\ BufferInv /\ [Next]_vars => BufferInv'
<1> SUFFICES ASSUME TypeOK, BufferInv, [Next]_vars PROVE BufferInv'
  OBVIOUS
<1> USE Distinct DEF TypeOK, BufferInv, Writers, CallKeeps, WorkerKeeps, CloseKeeps,
        config, channels, buffers, workerVars, Goto
<1>1. ASSUME NEW p \in Producers, HandleLog(p) PROVE BufferInv'
  BY <1>1 DEF HandleLog
<1>2. ASSUME NEW p \in Producers,
             Send(p) \/ SendPanics(p) \/ FindFull(p) \/ Evict(p) \/ WaitClosed(p)
               \/ WaitTimeout(p)
      PROVE  BufferInv'
  BY <1>2 DEF Send, SendPanics, FindFull, Evict, WaitClosed, WaitTimeout, Sending
<1>3. ASSUME NEW p \in Producers, Format(p) PROVE BufferInv'
  BY <1>3 DEF Format, FormatShared, FormatOwn
<1>4. ASSUME NEW p \in Producers, FormatFails(p) PROVE BufferInv'
  BY <1>4 DEF FormatFails
<1>5. ASSUME NEW p \in Producers, Lock(p) PROVE BufferInv'
  BY <1>5 DEF Lock
<1>6. ASSUME NEW p \in Producers, Written(p) PROVE BufferInv'
  BY <1>6 DEF Written, Release
<1>7. CASE Receive \/ Collect \/ TakeNext \/ LoopEnds \/ SeeClosed \/ DrainEnds
             \/ WorkerFormatFails \/ DeadlineExpires
  BY <1>7 DEF Receive, Collect, TakeNext, LoopEnds, SeeClosed, DrainEnds,
              WorkerFormatFails, DeadlineExpires
<1>8. CASE BatchEnds
  BY <1>8 DEF BatchEnds, FormatOwn
<1>9. CASE WorkerFormat
  BY <1>9 DEF WorkerFormat, FormatShared, FormatOwn
<1>10. CASE WorkerLock
  BY <1>10 DEF WorkerLock
<1>11. CASE WorkerWritten
  BY <1>11 DEF WorkerWritten, Release
<1>12. CASE CloseSignal \/ CloseAwait \/ CloseQueue
  BY <1>12 DEF CloseSignal, CloseAwait, CloseQueue
<1>13. CASE UNCHANGED vars
  BY <1>13 DEF vars
<1> QED
  BY <1>1, <1>2, <1>3, <1>4, <1>5, <1>6, <1>7, <1>8, <1>9, <1>10, <1>11, <1>12,
     <1>13 DEF Next, HandleStep, WorkerStep

LEMMA CloseStep == TypeOK /\ CloseInv /\ [Next]_vars => CloseInv'
<1> SUFFICES ASSUME TypeOK, CloseInv, [Next]_vars PROVE CloseInv'
  OBVIOUS
<1> USE DEF TypeOK, CloseInv, CallKeeps, WorkerKeeps, CloseKeeps, config, channels,
        workerVars
<1>1. ASSUME NEW p \in Producers,
             HandleLog(p) \/ HandleStep(p) \/ WaitTimeout(p) \/ Lock(p)
      PROVE  CloseInv'
  BY <1>1 DEF HandleLog, HandleStep, WaitTimeout, Lock, Send, SendPanics, FindFull,
              Evict, WaitClosed, Format, FormatFails, Written
<1>2. CASE WorkerStep \/ SeeClosed \/ DrainEnds \/ WorkerFormat \/ WorkerLock
             \/ DeadlineExpires
  BY <1>2 DEF WorkerStep, Receive, Collect, BatchEnds, TakeNext, LoopEnds, SeeClosed,
              DrainEnds, WorkerFormat, WorkerFormatFails, WorkerLock, WorkerWritten,
              DeadlineExpires
<1>3. CASE CloseSignal \/ CloseAwait \/ CloseQueue
  BY <1>3 DEF CloseSignal, CloseAwait, CloseQueue
<1>4. CASE UNCHANGED vars
  BY <1>4 DEF vars
<1> QED
  BY <1>1, <1>2, <1>3, <1>4 DEF Next

LEMMA LocksHold == Spec => [](TypeOK /\ LockInv)
<1>1. Init => TypeOK /\ LockInv
  BY TypeInit, LockInit
<1>2. (TypeOK /\ LockInv) /\ [Next]_vars => (TypeOK /\ LockInv)'
  BY TypeStep, WriterStep, BufferStep, CloseStep DEF LockInv
<1> QED
  BY <1>1, <1>2, PTL DEF Spec

-----------------------------------------------------------------------------
(* The writer is never entered by two goroutines, whichever of the three   *)
(* buffers their lines come from (write, processWrite, process).           *)
THEOREM WriterExclusiveAlways == Spec => []WriterExclusive
<1>1. TypeOK /\ LockInv => WriterExclusive
  BY Distinct DEF LockInv, WriterInv, WriterExclusive, Writing
<1> QED
  BY <1>1, LocksHold, PTL

(* What a goroutine writes from the shared buffer is the line it formatted *)
(* itself (HandleLog, write, processWrite).                                *)
THEOREM OwnLineAlways == Spec => []OwnLine
<1>1. TypeOK /\ LockInv => OwnLine
  BY DEF LockInv, BufferInv, OwnLine
<1> QED
  BY <1>1, LocksHold, PTL

(* Close takes the queue away only when the worker has gone (Close).       *)
THEOREM QueueOutlivesWorkerAlways == Spec => []QueueOutlivesWorker
<1>1. TypeOK /\ LockInv => QueueOutlivesWorker
  BY DEF LockInv, CloseInv, QueueOutlivesWorker
<1> QED
  BY <1>1, LocksHold, PTL
==============================================================================
