---------------------------- MODULE LegacyConsole ----------------------------
(***************************************************************************)
(* ConsoleHandler, the older console handler (handler/console.go), whose   *)
(* one type is synchronous or asynchronous by configuration.  Where the    *)
(* newer handlers have one mutex, it has two: mu for the buffer it formats *)
(* in and writeMu for the writer.                                          *)
(*                                                                         *)
(* The producers never stop logging.  The module is about locks and about  *)
(* progress, so of the queue only its length is kept, and of a line who    *)
(* formatted it where.  (AsyncConsole follows the entries themselves.)     *)
(***************************************************************************)
EXTENDS LogPolicy

CONSTANTS Producers,   \* goroutines that log
          Worker,      \* the goroutine that runs process()
          Closer,      \* the goroutine that calls Close
          Nobody,      \* holds a mutex that is free
          Capacity     \* BufferSize of the configuration

ASSUME CapacityAssumption == Capacity \in Nat \ {0}
ASSUME GoroutineAssumption ==
  /\ Worker # Closer /\ Worker # Nobody /\ Closer # Nobody
  /\ Producers \cap {Worker, Closer, Nobody} = {}

VARIABLES
  async,        \* ConsoleConfig.Async
  buffered,     \* the formatter is a BufferFormatter
  queued,       \* len(h.queue)
  queueClosed,  \* close(h.queue) has happened
  closed,       \* close(h.closed) has happened
  mu,           \* h.mu: the goroutine that holds it
  writeMu,      \* h.writeMu: the goroutine that holds it
  syncBuf,      \* whose line h.syncBuf holds
  line,         \* the buffer each goroutine's unwritten line is in
  pc,           \* what each producer is about to do
  workerPC,     \* what process() is about to do
  resume,       \* the loop of process() that an entry came from
  deadline,     \* the timer of the drain loop
  closerPC      \* what Close is about to do

config     == <<async, buffered>>
channels   == <<queued, queueClosed, closed>>
buffers    == <<mu, writeMu, syncBuf, line>>
workerVars == <<workerPC, resume, deadline>>
vars == <<config, channels, buffers, pc, workerVars, closerPC>>

Writers == Producers \cup {Worker}

ProducerPCs == {"idle", "send", "evict", "resend", "wait", "format", "lock",
                "write", "panicked"}
WorkerPCs   == {"select", "batch", "loop", "drain", "format", "lock",
                "write", "gone"}
CloserPCs   == {"idle", "await", "queue", "done"}

Init ==
  /\ async \in BOOLEAN /\ buffered \in BOOLEAN
  /\ queued = 0 /\ queueClosed = FALSE /\ closed = FALSE
  /\ mu = Nobody /\ writeMu = Nobody
  /\ syncBuf = Nobody /\ line = [g \in Writers |-> "none"]
  /\ pc = [p \in Producers |-> "idle"]
  /\ workerPC = IF async THEN "select" ELSE "gone"
  /\ resume = "select" /\ deadline = "off" /\ closerPC = "idle"

Goto(p, label) == pc' = [pc EXCEPT ![p] = label]

CallKeeps(rest) ==
  UNCHANGED <<config, queueClosed, closed, workerVars, closerPC, rest>>
WorkerKeeps(rest) ==
  UNCHANGED <<config, queueClosed, closed, pc, closerPC, rest>>
CloseKeeps(rest) ==
  UNCHANGED <<config, queued, writeMu, syncBuf, line, pc, workerVars, rest>>

-----------------------------------------------------------------------------
(* The two ways from an entry to the writer.                               *)

(* Format in the handler's buffer, which mu must protect until the line is *)
(* written.                                                                *)
FormatShared_Unprotected(g) ==
  /\ buffered
  /\ mu' = g /\ syncBuf' = g /\ line' = [line EXCEPT ![g] = "shared"]
FormatShared(g) ==
  /\ buffered /\ mu = Nobody
  /\ mu' = g /\ syncBuf' = g /\ line' = [line EXCEPT ![g] = "shared"]

(* Format in a buffer of one's own, from a pool.                           *)
FormatOwn(g) ==
  /\ line' = [line EXCEPT ![g] = "own"]
  /\ UNCHANGED <<mu, syncBuf>>

LockWriter_Shared(g) == writeMu' = g
LockWriter(g) == writeMu = Nobody /\ writeMu' = g

(* Write has returned: the writer is unlocked, then the buffer.            *)
Release_KeepsWriter(g) ==
  /\ mu' = IF mu = g THEN Nobody ELSE mu
  /\ line' = [line EXCEPT ![g] = "none"]
  /\ UNCHANGED <<writeMu, syncBuf>>
Release(g) ==
  /\ writeMu' = Nobody
  /\ mu' = IF mu = g THEN Nobody ELSE mu
  /\ line' = [line EXCEPT ![g] = "none"]
  /\ UNCHANGED syncBuf

-----------------------------------------------------------------------------
(* Producers                                                               *)

(* A call of HandleLog: to the queue, or straight to the writer.           *)
HandleLog(p) ==
  /\ pc[p] = "idle"
  /\ Goto(p, IF async THEN "send" ELSE "format")
  /\ CallKeeps(<<queued, buffers>>)

Sending == {"send", "resend", "wait"}

HasRoom_OffByOne == queued <= Capacity
HasRoom == queued < Capacity

Send(p) ==
  /\ pc[p] \in Sending /\ ~queueClosed /\ HasRoom
  /\ queued' = queued + 1
  /\ Goto(p, "idle")
  /\ CallKeeps(buffers)

SendPanics(p) ==
  /\ pc[p] \in Sending /\ queueClosed
  /\ Goto(p, "panicked")
  /\ CallKeeps(<<queued, buffers>>)

(* The queue is full: DropNewest drops the entry, as DropOldest does at    *)
(* its second attempt; DropOldest goes to evict, Block to wait.  The       *)
(* policy is that of the entry's level, any of the three.                  *)
FindFull(p) ==
  /\ ~queueClosed /\ ~HasRoom
  /\ \E policy \in Policies :
       \/ pc[p] = "send" /\ policy = DropNewest /\ Goto(p, "idle")
       \/ pc[p] = "resend" /\ policy = DropOldest /\ Goto(p, "idle")
       \/ pc[p] = "send" /\ policy = DropOldest /\ Goto(p, "evict")
       \/ pc[p] = "send" /\ policy = Block /\ Goto(p, "wait")
  /\ CallKeeps(<<queued, buffers>>)

Evict(p) ==
  /\ pc[p] = "evict"
  /\ queued' = IF queued > 0 THEN queued - 1 ELSE 0
  /\ Goto(p, "resend")
  /\ CallKeeps(buffers)

(* The shared timer ticks for this caller (it need not: another caller may *)
(* take the tick or stop the timer) ...                                    *)
WaitTimeout(p) ==
  /\ pc[p] = "wait"
  /\ Goto(p, "format")
  /\ CallKeeps(<<queued, buffers>>)

(* ... or the handler closes.  Either way the caller writes the entry.     *)
WaitClosed(p) ==
  /\ pc[p] = "wait" /\ closed
  /\ Goto(p, "format")
  /\ CallKeeps(<<queued, buffers>>)

(* TryLock on mu; a caller that does not get it uses a pooled buffer, and  *)
(* so does every caller when the formatter cannot format into a buffer.    *)
Format(p) ==
  /\ pc[p] = "format"
  /\ \/ FormatShared(p)
     \/ (~buffered \/ mu # Nobody) /\ FormatOwn(p)
  /\ Goto(p, "lock")
  /\ CallKeeps(<<queued, writeMu>>)

(* Formatter.Format returns an error.                                      *)
FormatFails(p) ==
  /\ pc[p] = "format" /\ ~buffered
  /\ Goto(p, "idle")
  /\ CallKeeps(<<queued, buffers>>)

Lock(p) ==
  /\ pc[p] = "lock" /\ LockWriter(p)
  /\ Goto(p, "write")
  /\ CallKeeps(<<queued, mu, syncBuf, line>>)

(* Write returns, with or without an error.                                *)
Written(p) ==
  /\ pc[p] = "write" /\ Release(p)
  /\ Goto(p, "idle")
  /\ CallKeeps(queued)

-----------------------------------------------------------------------------
(* The worker: process() and processWrite()                                *)

(* The outer select takes an entry: with a BufferFormatter it is formatted *)
(* into the batch, otherwise it is written by itself.                      *)
Receive ==
  /\ workerPC = "select" /\ queued > 0
  /\ queued' = queued - 1
  /\ workerPC' = IF buffered THEN "batch" ELSE "format"
  /\ resume' = "loop"
  /\ WorkerKeeps(<<buffers, deadline>>)

(* The batch grows as long as the queue has entries ...                    *)
Collect ==
  /\ workerPC = "batch" /\ queued > 0
  /\ queued' = queued - 1
  /\ WorkerKeeps(<<buffers, workerPC, resume, deadline>>)

(* ... and is written, in one Write, when it has none.                     *)
BatchEnds ==
  /\ workerPC = "batch" /\ queued = 0
  /\ FormatOwn(Worker)
  /\ workerPC' = "lock" /\ resume' = "select"
  /\ WorkerKeeps(<<queued, writeMu, deadline>>)

(* The inner loop of the other path and the drain loop take the next one.  *)
TakeNext ==
  /\ workerPC \in {"loop", "drain"} /\ queued > 0
  /\ queued' = queued - 1
  /\ workerPC' = "format" /\ resume' = workerPC
  /\ WorkerKeeps(<<buffers, deadline>>)

LoopEnds ==
  /\ workerPC = "loop" /\ queued = 0
  /\ workerPC' = "select"
  /\ WorkerKeeps(<<queued, buffers, resume, deadline>>)

SeeClosed ==
  /\ workerPC = "select" /\ closed
  /\ workerPC' = "drain" /\ deadline' = "running"
  /\ WorkerKeeps(<<queued, buffers, resume>>)

DeadlineExpires ==
  /\ deadline = "running" /\ workerPC # "gone"
  /\ deadline' = "expired"
  /\ WorkerKeeps(<<queued, buffers, workerPC, resume>>)

DrainEnds_OnlyEmpty ==
  /\ workerPC = "drain" /\ queued = 0
  /\ workerPC' = "gone"
  /\ WorkerKeeps(<<queued, buffers, resume, deadline>>)
(* The select of the drain loop may choose the deadline, however many      *)
(* entries wait, and ends without one when there are none.                 *)
DrainEnds ==
  /\ workerPC = "drain" /\ (deadline = "expired" \/ queued = 0)
  /\ workerPC' = "gone"
  /\ WorkerKeeps(<<queued, buffers, resume, deadline>>)

(* processWrite: Lock, not TryLock, on mu.                                 *)
WorkerFormat ==
  /\ workerPC = "format"
  /\ \/ FormatShared(Worker)
     \/ ~buffered /\ FormatOwn(Worker)
  /\ workerPC' = "lock"
  /\ WorkerKeeps(<<queued, writeMu, resume, deadline>>)

WorkerFormatFails ==
  /\ workerPC = "format" /\ ~buffered
  /\ workerPC' = "gone"
  /\ WorkerKeeps(<<queued, buffers, resume, deadline>>)

WorkerLock ==
  /\ workerPC = "lock" /\ LockWriter(Worker)
  /\ workerPC' = "write"
  /\ WorkerKeeps(<<queued, mu, syncBuf, line, resume, deadline>>)

(* An error of Write ends process() for good.                              *)
WorkerWritten ==
  /\ workerPC = "write" /\ Release(Worker)
  /\ workerPC' \in {resume, "gone"}
  /\ WorkerKeeps(<<queued, resume, deadline>>)

-----------------------------------------------------------------------------
(* Close                                                                   *)

(* In synchronous mode there is nothing to do, and h.closed stays open.    *)
CloseSignal ==
  /\ closerPC = "idle"
  /\ closed' = async
  /\ closerPC' = IF async THEN "await" ELSE "done"
  /\ CloseKeeps(<<queueClosed, mu>>)

CloseAwait_HoldingMu ==
  /\ closerPC = "await" /\ mu \in {Nobody, Closer}
  /\ IF workerPC = "gone" THEN mu' = Nobody /\ closerPC' = "queue"
                          ELSE mu' = Closer /\ UNCHANGED closerPC
  /\ CloseKeeps(<<closed, queueClosed>>)
CloseAwait_NoWait ==
  /\ closerPC = "await"
  /\ closerPC' = "queue"
  /\ CloseKeeps(<<closed, queueClosed, mu>>)
(* h.wg.Wait(), without the lock "to avoid deadlock".                      *)
CloseAwait ==
  /\ closerPC = "await" /\ workerPC = "gone"
  /\ closerPC' = "queue"
  /\ CloseKeeps(<<closed, queueClosed, mu>>)

(* Lock, close(h.queue), Unlock.                                           *)
CloseQueue ==
  /\ closerPC = "queue" /\ mu = Nobody
  /\ queueClosed' = TRUE /\ closerPC' = "done"
  /\ CloseKeeps(<<closed, mu>>)

-----------------------------------------------------------------------------
(* All producers have panicked on the closed queue.                        *)
AllPanicked == closerPC = "done" /\ \A p \in Producers : pc[p] = "panicked"

(* What a call that is under way does without waiting for a lock.          *)
HandleStep(p) ==
  \/ Send(p) \/ SendPanics(p) \/ FindFull(p) \/ Evict(p)
  \/ WaitClosed(p) \/ Format(p) \/ FormatFails(p) \/ Written(p)

WorkerStep ==
  \/ Receive \/ Collect \/ BatchEnds \/ TakeNext \/ LoopEnds
  \/ WorkerFormatFails \/ WorkerWritten

Next ==
  \/ \E p \in Producers :
       HandleLog(p) \/ HandleStep(p) \/ WaitTimeout(p) \/ Lock(p)
  \/ WorkerStep \/ SeeClosed \/ DrainEnds \/ WorkerFormat \/ WorkerLock
  \/ DeadlineExpires
  \/ CloseSignal \/ CloseAwait \/ CloseQueue
  \/ AllPanicked /\ UNCHANGED vars

Spec == Init /\ [][Next]_vars

(* Goroutines that can run do run, Write returns and the deadline comes.   *)
(* Nobody has to log or to close, and no timer of Block has to tick.  A    *)
(* sync.Mutex hands over to a goroutine that has waited for a millisecond  *)
(* (its starvation mode), and a select with several ready cases picks one  *)
(* at random: both are strongly fair.                                      *)
Fairness ==
  /\ \A p \in Producers : WF_vars(HandleStep(p)) /\ SF_vars(Lock(p))
  /\ WF_vars(WorkerStep) /\ SF_vars(SeeClosed) /\ SF_vars(DrainEnds)
  /\ SF_vars(WorkerFormat) /\ SF_vars(WorkerLock)
  /\ WF_vars(DeadlineExpires)
  /\ WF_vars(CloseAwait) /\ SF_vars(CloseQueue)

FairSpec == Spec /\ Fairness
-----------------------------------------------------------------------------
(* Properties                                                              *)

(* Every variable stays in its type; the queue never holds more than       *)
(* BufferSize entries.                                                     *)
TypeOK ==
  /\ async \in BOOLEAN /\ buffered \in BOOLEAN
  /\ queued \in 0 .. Capacity
  /\ queueClosed \in BOOLEAN /\ closed \in BOOLEAN
  /\ {mu, writeMu, syncBuf} \subseteq Writers \cup {Closer, Nobody}
  /\ line \in [Writers -> {"none", "shared", "own"}]
  /\ pc \in [Producers -> ProducerPCs]
  /\ workerPC \in WorkerPCs
  /\ resume \in {"select", "loop", "drain"}
  /\ deadline \in {"off", "running", "expired"}
  /\ closerPC \in CloserPCs

Writing == {p \in Producers : pc[p] = "write"}
             \cup (IF workerPC = "write" THEN {Worker} ELSE {})

(* The writer is never entered by two goroutines, though lines come from   *)
(* the shared buffer, from pooled buffers and from the worker's batch, and *)
(* only the first of the three is formatted under mu (write, processWrite, *)
(* process).                                                               *)
WriterExclusive == \A a, b \in Writing : a = b

(* The buffer all goroutines share is not formatted over while a line in   *)
(* it waits for the writer: what a goroutine writes from it is the line it *)
(* formatted itself (HandleLog, write and processWrite keep mu for both).  *)
OwnLine ==
  \A g \in Writers : line[g] = "shared" => syncBuf = g

(* Close takes the queue away only when nobody consumes it any more, so a  *)
(* worker never receives the nil of a closed channel (Close, process).     *)
QueueOutlivesWorker == queueClosed => workerPC = "gone"

(* A call that writes its entry itself comes back, whatever the other      *)
(* goroutines hold of the two locks (lock ordering, console.go:49).        *)
WriteReturns == \A p \in Producers : pc[p] = "format" ~> pc[p] = "idle"

(* Once the worker has seen the close signal it returns, though callers    *)
(* may refill the queue for ever: the drain loop has a deadline.           *)
DrainBounded == workerPC = "drain" ~> workerPC = "gone"

AnySend == \E p \in Producers : Send(p)

(* Close returns once callers have stopped enqueueing.  (Without that the  *)
(* inner loops of process, which look neither at h.closed nor at a         *)
(* deadline, may go on for ever.)                                          *)
QuietClose == <>[][~AnySend]_vars => (closerPC = "await" ~> closerPC = "done")
==============================================================================
