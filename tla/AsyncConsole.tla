----------------------------- MODULE AsyncConsole -----------------------------
(***************************************************************************)
(* AsyncConsoleHandler (handler/consolehandler/console_async.go) and the   *)
(* write paths it takes from consoleBase (console.go), for a formatter     *)
(* that is a BufferFormatter (the text and JSON formatters of the library  *)
(* are).                                                                   *)
(*                                                                         *)
(* Any number of goroutines (Producers) log through the handler, one       *)
(* goroutine (Worker) consumes the queue, any number (Closers) call Close. *)
(* A step is what a goroutine does between two operations another one can  *)
(* observe: a channel operation, a timer operation, a lock, a Write.  An   *)
(* atomic counter is added in the step that precedes it: only Stats()      *)
(* reads counters.  A panic ends the goroutine it happens in; a program    *)
(* that does not recover it ends there, after a prefix of what is          *)
(* modelled.                                                               *)
(***************************************************************************)
EXTENDS LogPolicy, Sequences, FiniteSets, Functions

CONSTANTS Producers,       \* goroutines that log
          Closers,         \* goroutines that call Close
          Worker,          \* the goroutine that runs process()
          Nobody,          \* holds the mutex when it is free
          NoEntry,         \* a nil *core.Entry
          Capacity,        \* BufferSize of the configuration
          OverflowPolicy,  \* level |-> policy, partial
          ConcurrentSafe,  \* the writer takes concurrent Write calls
          LogLevels,       \* levels the producers log at
          MaxLogs,         \* bound: calls of HandleLog per producer
          WriteFaults      \* bound: calls of Write that return an error

(* applyConsoleDefaults replaces a BufferSize that is not positive.        *)
ASSUME CapacityAssumption == Capacity \in Nat \ {0}
ASSUME PolicyAssumption == /\ OverflowPolicy \in PolicyMaps
                           /\ LogLevels \subseteq Levels
                           /\ ConcurrentSafe \in BOOLEAN
ASSUME BoundAssumption == MaxLogs \in Nat /\ WriteFaults \in Nat
ASSUME GoroutineAssumption ==
  /\ Producers \cap Closers = {}
  /\ Worker \notin Producers \cup Closers
  /\ Nobody \notin Producers \cup Closers \cup {Worker}

Entry == [src : Producers, seq : 1 .. MaxLogs, level : LogLevels]

ASSUME NoEntryAssumption == NoEntry \notin Entry

VARIABLES
  queue,        \* chan *core.Entry, oldest first
  queueClosed,  \* close(h.queue) has happened
  closed,       \* close(h.closed) has happened
  blockTimer,   \* the one timer all Block callers share
  mu,           \* consoleBase.mu: the goroutine that holds it
  pc,           \* what each producer is about to do
  held,         \* the entry each producer's call works on
  logged,       \* calls of HandleLog each producer has made
  workerPC,     \* what process() is about to do
  taken,        \* the entry process() received last
  drainTimer,   \* deadline of the drain loop
  closerPC,     \* what each closer is about to do
  stats,        \* handler.Stats
  hist          \* history: what became of the entries

callVars   == <<pc, held, logged>>
workerVars == <<workerPC, taken, drainTimer>>
vars == <<queue, queueClosed, closed, blockTimer, mu, callVars, workerVars,
          closerPC, stats, hist>>

ProducerPCs == {"idle", "trySend", "evict", "resend", "arm", "wait",
                "disarmSent", "disarmClosed", "write", "awaitMu", "locked",
                "direct", "panicSend", "panicLevel"}
WorkerPCs   == {"select", "batch", "drain", "lock", "write", "done", "failed"}
CloserPCs   == {"idle", "signal", "await", "closeQueue", "done", "panicked"}

NoHistory == [out       |-> <<>>, \* entries the writer accepted, in order
              direct    |-> {},   \* those a producer wrote itself
              discarded |-> {},   \* entries an overflow policy dropped
              failed    |-> {},   \* entries whose Write returned an error
              recycled  |-> {},   \* entries given back by PutEntry
              atClose   |-> {}]   \* accepted, not written at close(h.closed)

Init ==
  /\ queue = <<>> /\ queueClosed = FALSE /\ closed = FALSE
  /\ blockTimer = "stopped" /\ mu = Nobody
  /\ pc = [p \in Producers |-> "idle"]
  /\ held = [p \in Producers |-> NoEntry]
  /\ logged = [p \in Producers |-> 0]
  /\ workerPC = "select" /\ taken = NoEntry /\ drainTimer = "off"
  /\ closerPC = [c \in Closers |-> "idle"]
  /\ stats = [dropped |-> ZeroDropped, blocked |-> 0, processed |-> 0]
  /\ hist = NoHistory

(* What the steps of each kind of goroutine leave alone, and the rest.     *)
CallKeeps(rest) ==
  UNCHANGED <<queueClosed, closed, logged, workerVars, closerPC, rest>>
WorkerKeeps(rest) ==
  UNCHANGED <<queueClosed, closed, blockTimer, callVars, closerPC, rest>>
CloseKeeps(rest) ==
  UNCHANGED <<queue, blockTimer, mu, callVars, workerVars, stats, rest>>

-----------------------------------------------------------------------------
(* The queue: a buffered channel of Capacity entries.                      *)

HasRoom_OffByOne(q) == Len(q) <= Capacity
HasRoom(q) == Len(q) < Capacity

EnqueueInFront(q, e) == <<e>> \o q
EnqueueTwice(q, e) == q \o <<e, e>>
Enqueue(q, e) == Append(q, e)

QueueFull == ~queueClosed /\ ~HasRoom(queue)

Policy(p) == PolicyFor(OverflowPolicy, held[p].level)

(* IncrementDropped: the level is always that of the entry the caller      *)
(* brought.  Levels without a counter make it panic.                       *)
CountDrop_Missing(level) == UNCHANGED stats
CountDrop(level) ==
  stats' = [stats EXCEPT !.dropped = IncrementDropped(@, level)]

(* The producer's call returns, or goes on.                                *)
Return(p) == /\ pc' = [pc EXCEPT ![p] = "idle"]
             /\ held' = [held EXCEPT ![p] = NoEntry]

Goto(p, label) == pc' = [pc EXCEPT ![p] = label] /\ UNCHANGED held

-----------------------------------------------------------------------------
(* Producers                                                               *)

(* An application goroutine calls HandleLog, which fills an entry from the *)
(* pool and calls Handle.                                                  *)
HandleLog(p, level) ==
  /\ pc[p] = "idle" /\ logged[p] < MaxLogs
  /\ logged' = [logged EXCEPT ![p] = @ + 1]
  /\ held' = [held EXCEPT ![p] =
                [src |-> p, seq |-> logged[p] + 1, level |-> level]]
  /\ pc' = [pc EXCEPT ![p] = "trySend"]
  /\ UNCHANGED <<queue, queueClosed, closed, blockTimer, mu, workerVars,
                 closerPC, stats, hist>>

Sending == {"trySend", "resend", "wait"}

(* A send succeeds.  From "wait" the timer still has to be disarmed.       *)
Send(p) ==
  /\ pc[p] \in Sending /\ ~queueClosed /\ HasRoom(queue)
  /\ queue' = Enqueue(queue, held[p])
  /\ pc' = [pc EXCEPT ![p] = IF @ = "wait" THEN "disarmSent" ELSE "idle"]
  /\ held' = [held EXCEPT ![p] = NoEntry]
  /\ CallKeeps(<<blockTimer, mu, stats, hist>>)

(* A send on a closed channel panics.                                      *)
SendPanics(p) ==
  /\ pc[p] \in Sending /\ queueClosed
  /\ Goto(p, "panicSend")
  /\ CallKeeps(<<queue, blockTimer, mu, stats, hist>>)

(* DropNewest, or DropOldest when its second attempt fails too: the        *)
(* incoming entry is dropped.                                              *)
DropIncoming(p) ==
  /\ QueueFull
  /\ \/ pc[p] = "trySend" /\ Policy(p) = DropNewest
     \/ pc[p] = "resend"
  /\ hist' = [hist EXCEPT !.discarded = @ \cup {held[p]}]
  /\ CountDrop(held[p].level)
  /\ pc' = [pc EXCEPT ![p] = IF held[p].level \in CountedLevels
                             THEN "idle" ELSE "panicLevel"]
  /\ held' = [held EXCEPT ![p] = NoEntry]
  /\ CallKeeps(<<queue, blockTimer, mu>>)

(* DropOldest and Block find the queue full and go on to their next        *)
(* select.                                                                 *)
FindFull(p) ==
  /\ pc[p] = "trySend" /\ QueueFull
  /\ \/ Policy(p) = DropOldest /\ Goto(p, "evict")
     \/ Policy(p) = Block /\ Goto(p, "arm")
  /\ CallKeeps(<<queue, blockTimer, mu, stats, hist>>)

AfterEvict(p) == IF held[p].level \in CountedLevels THEN "resend"
                                                    ELSE "panicLevel"
Victim_Incoming(p) == held[p]
Victim(p) == Head(queue)

(* DropOldest takes whatever is at the head of the queue now, however many *)
(* entries are left.                                                       *)
Evict(p) ==
  /\ pc[p] = "evict" /\ queue # <<>>
  /\ hist' = [hist EXCEPT !.discarded = @ \cup {Victim(p)}]
  /\ queue' = Tail(queue)
  /\ CountDrop(held[p].level)
  /\ Goto(p, AfterEvict(p))
  /\ CallKeeps(<<blockTimer, mu>>)

(* Nothing to evict any more; a closed queue delivers nil, which is        *)
(* counted as a dropped entry.                                             *)
EvictNothing(p) ==
  /\ pc[p] = "evict" /\ queue = <<>>
  /\ IF queueClosed
     THEN CountDrop(held[p].level) /\ Goto(p, AfterEvict(p))
     ELSE UNCHANGED stats /\ Goto(p, "resend")
  /\ CallKeeps(<<queue, blockTimer, mu, hist>>)

(* Block: Stop, drain and Reset the shared timer, then wait in a select.   *)
ArmTimer(p) ==
  /\ pc[p] = "arm"
  /\ blockTimer' = "armed"
  /\ Goto(p, "wait")
  /\ CallKeeps(<<queue, mu, stats, hist>>)

TimerFires ==
  /\ blockTimer = "armed"
  /\ blockTimer' = "fired"
  /\ UNCHANGED <<queue, queueClosed, closed, mu, callVars, workerVars,
                 closerPC, stats, hist>>

(* The tick reaches one of the callers that wait for it.                   *)
WaitTimeout(p) ==
  /\ pc[p] = "wait" /\ blockTimer = "fired"
  /\ blockTimer' = "stopped"
  /\ stats' = [stats EXCEPT !.blocked = @ + 1]
  /\ Goto(p, "write")
  /\ CallKeeps(<<queue, mu, hist>>)

WaitClosed(p) ==
  /\ pc[p] = "wait" /\ closed
  /\ Goto(p, "disarmClosed")
  /\ CallKeeps(<<queue, blockTimer, mu, stats, hist>>)

Disarm_WaitsForTick(p) ==
  /\ blockTimer # "stopped" /\ blockTimer' = "stopped"
  /\ \/ pc[p] = "disarmSent" /\ Goto(p, "idle")
     \/ pc[p] = "disarmClosed" /\ Goto(p, "write")
  /\ CallKeeps(<<queue, mu, stats, hist>>)
(* Stop and drain the shared timer, whoever armed it last: the drain does  *)
(* not wait for a tick that another caller has taken.                      *)
Disarm(p) ==
  /\ blockTimer' = "stopped"
  /\ \/ pc[p] = "disarmSent" /\ Goto(p, "idle")
     \/ pc[p] = "disarmClosed" /\ Goto(p, "write")
  /\ CallKeeps(<<queue, mu, stats, hist>>)

-----------------------------------------------------------------------------
(* consoleBase.write, called by a producer that does not enqueue.          *)

(* TryLock; without the lock a concurrent-safe writer is used directly.    *)
TryLock(p) ==
  /\ pc[p] = "write"
  /\ \/ mu = Nobody /\ mu' = p /\ Goto(p, "locked")
     \/ /\ mu # Nobody /\ UNCHANGED mu
        /\ Goto(p, IF ConcurrentSafe THEN "direct" ELSE "awaitMu")
  /\ CallKeeps(<<queue, blockTimer, stats, hist>>)

Lock_NotExclusive(p) ==
  /\ pc[p] = "awaitMu" /\ mu' = p /\ Goto(p, "locked")
  /\ CallKeeps(<<queue, blockTimer, stats, hist>>)
Lock(p) ==
  /\ pc[p] = "awaitMu" /\ mu = Nobody /\ mu' = p /\ Goto(p, "locked")
  /\ CallKeeps(<<queue, blockTimer, stats, hist>>)

Unlock_Forgotten(g) == UNCHANGED mu
Unlock(g) == mu' = IF mu = g THEN Nobody ELSE mu

(* The writer accepts an entry, or returns an error.                       *)
WriteOK(e, fallback, recycle) ==
  /\ hist' = [hist EXCEPT !.out = Append(@, e),
                          !.direct = @ \cup fallback,
                          !.recycled = @ \cup recycle]
  /\ stats' = [stats EXCEPT !.processed = @ + 1]

WriteError(e) ==
  /\ Cardinality(hist.failed) < WriteFaults
  /\ hist' = [hist EXCEPT !.failed = @ \cup {e}]
  /\ UNCHANGED stats

(* A caller inside consoleBase.write is about to call Write.               *)
InFallback(p) == pc[p] \in {"locked", "direct"}

FallbackWrite(p) ==
  /\ InFallback(p)
  /\ WriteOK(held[p], {held[p]}, {}) \/ WriteError(held[p])
  /\ Unlock(p)
  /\ Return(p)
  /\ CallKeeps(<<queue, blockTimer>>)

-----------------------------------------------------------------------------
(* The worker: process() and processWrite()                                *)

Receive_Recycles(from) ==
  /\ workerPC = from /\ queue # <<>>
  /\ taken' = Head(queue) /\ queue' = Tail(queue)
  /\ hist' = [hist EXCEPT !.recycled = @ \cup {Head(queue)}]
  /\ workerPC' = "lock"
  /\ WorkerKeeps(<<mu, drainTimer, stats>>)

(* The outer select, the batch loop and the drain loop all receive the     *)
(* head of the queue when there is one.                                    *)
Receive(from) ==
  /\ workerPC = from /\ queue # <<>>
  /\ taken' = Head(queue) /\ queue' = Tail(queue)
  /\ workerPC' = "lock"
  /\ WorkerKeeps(<<mu, drainTimer, stats, hist>>)

BatchEmpty ==
  /\ workerPC = "batch" /\ queue = <<>>
  /\ workerPC' = "select"
  /\ WorkerKeeps(<<queue, mu, taken, drainTimer, stats, hist>>)

SeeClosed_StopsAtOnce ==
  /\ workerPC = "select" /\ closed
  /\ workerPC' = "done" /\ drainTimer' = "running"
  /\ WorkerKeeps(<<queue, mu, taken, stats, hist>>)

(* The outer select may prefer the close signal to a waiting entry.        *)
SeeClosed ==
  /\ workerPC = "select" /\ closed
  /\ workerPC' = "drain" /\ drainTimer' = "running"
  /\ WorkerKeeps(<<queue, mu, taken, stats, hist>>)

DeadlineExpires ==
  /\ drainTimer = "running" /\ workerPC \notin {"done", "failed"}
  /\ drainTimer' = "expired"
  /\ WorkerKeeps(<<queue, mu, workerPC, taken, stats, hist>>)

(* The drain loop ends at the deadline or, when neither an entry nor the   *)
(* deadline is there, by its default case.                                 *)
DrainEnds ==
  /\ workerPC = "drain" /\ (drainTimer = "expired" \/ queue = <<>>)
  /\ workerPC' = "done"
  /\ WorkerKeeps(<<queue, mu, taken, drainTimer, stats, hist>>)

WorkerLock ==
  /\ workerPC = "lock" /\ mu = Nobody
  /\ mu' = Worker /\ workerPC' = "write"
  /\ WorkerKeeps(<<queue, taken, drainTimer, stats, hist>>)

(* Which loop the worker came from.                                        *)
ResumeLoop == IF drainTimer = "off" THEN "batch" ELSE "drain"

(* The entry is written and recycled; an error ends process() for good.    *)
WorkerWrite ==
  /\ workerPC = "write"
  /\ \/ WriteOK(taken, {}, {taken}) /\ workerPC' = ResumeLoop
     \/ WriteError(taken) /\ workerPC' = "failed"
  /\ Unlock(Worker)
  /\ taken' = NoEntry
  /\ WorkerKeeps(<<queue, drainTimer>>)

WorkerGone == workerPC \in {"done", "failed"}

-----------------------------------------------------------------------------
(* Close                                                                   *)

CloseGoto(c, label) == closerPC' = [closerPC EXCEPT ![c] = label]

(* The check for a handler that is already closed ...                      *)
CloseCheck(c) ==
  /\ closerPC[c] = "idle"
  /\ CloseGoto(c, IF closed THEN "done" ELSE "signal")
  /\ CloseKeeps(<<queueClosed, closed, hist>>)

(* ... and close(h.closed), which panics when another call was faster.     *)
CloseSignal(c) ==
  /\ closerPC[c] = "signal"
  /\ IF closed
     THEN CloseGoto(c, "panicked") /\ UNCHANGED <<closed, hist>>
     ELSE /\ closed' = TRUE /\ CloseGoto(c, "await")
          /\ hist' = [hist EXCEPT !.atClose =
                        Range(queue) \cup ({taken} \ {NoEntry})]
  /\ CloseKeeps(queueClosed)

CloseAwait_NoWait(c) ==
  /\ closerPC[c] = "await"
  /\ CloseGoto(c, "closeQueue")
  /\ CloseKeeps(<<queueClosed, closed, hist>>)
CloseAwait_HoldingMu(c) ==
  /\ closerPC[c] = "await" /\ mu \in {Nobody, c}
  /\ IF WorkerGone THEN mu' = Nobody /\ CloseGoto(c, "closeQueue")
                   ELSE mu' = c /\ UNCHANGED closerPC
  /\ UNCHANGED <<queue, queueClosed, closed, blockTimer, callVars, workerVars,
                 stats, hist>>

(* h.wg.Wait()                                                             *)
CloseAwait(c) ==
  /\ closerPC[c] = "await" /\ WorkerGone
  /\ CloseGoto(c, "closeQueue")
  /\ CloseKeeps(<<queueClosed, closed, hist>>)

(* Lock, close(h.queue), Unlock.                                           *)
CloseQueue(c) ==
  /\ closerPC[c] = "closeQueue" /\ mu = Nobody
  /\ queueClosed' = TRUE /\ CloseGoto(c, "done")
  /\ CloseKeeps(<<closed, hist>>)

-----------------------------------------------------------------------------
(* The steps of a call that is under way: the Go scheduler runs them.      *)
HandleStep(p) ==
  \/ Send(p) \/ SendPanics(p) \/ DropIncoming(p) \/ FindFull(p)
  \/ Evict(p) \/ EvictNothing(p)
  \/ ArmTimer(p) \/ WaitTimeout(p) \/ WaitClosed(p) \/ Disarm(p)
  \/ TryLock(p) \/ Lock(p) \/ FallbackWrite(p)

WorkerStep ==
  \/ \E from \in {"select", "batch", "drain"} : Receive(from)
  \/ BatchEmpty \/ SeeClosed \/ DrainEnds \/ WorkerLock \/ WorkerWrite

CloseStep(c) == CloseSignal(c) \/ CloseAwait(c) \/ CloseQueue(c)

(* Every call of this instance has ended.                                  *)
Terminated ==
  /\ \A p \in Producers : \/ pc[p] = "idle" /\ logged[p] = MaxLogs
                          \/ pc[p] \in {"panicSend", "panicLevel"}
  /\ \A c \in Closers : closerPC[c] \in {"done", "panicked"}
  /\ WorkerGone

Next ==
  \/ \E p \in Producers : \/ \E level \in LogLevels : HandleLog(p, level)
                          \/ HandleStep(p)
  \/ \E c \in Closers : CloseCheck(c) \/ CloseStep(c)
  \/ WorkerStep
  \/ TimerFires
  \/ DeadlineExpires
  \/ Terminated /\ UNCHANGED vars

Spec == Init /\ [][Next]_vars

(* Goroutines that can run do run, timers fire, Write returns.  The        *)
(* application need not log nor close, and no deadline has to expire.      *)
Fairness ==
  /\ \A p \in Producers : WF_vars(HandleStep(p))
  /\ \A c \in Closers : WF_vars(CloseStep(c))
  /\ WF_vars(WorkerStep)
  /\ WF_vars(TimerFires)

FairSpec == Spec /\ Fairness
-----------------------------------------------------------------------------
(* Properties                                                              *)

Actors == Producers \cup Closers \cup {Worker}
InQueue == Range(queue)
Written == Range(hist.out)
InHand  == {held[p] : p \in Producers} \ {NoEntry}
InWorker == {taken} \ {NoEntry}

QueueTypeOK == queue \in Seq(Entry) /\ Len(queue) <= Capacity

SignalTypeOK ==
  /\ queueClosed \in BOOLEAN /\ closed \in BOOLEAN
  /\ blockTimer \in {"stopped", "armed", "fired"}
  /\ mu \in Actors \cup {Nobody}
  /\ closerPC \in [Closers -> CloserPCs]

CallTypeOK ==
  /\ pc \in [Producers -> ProducerPCs]
  /\ held \in [Producers -> Entry \cup {NoEntry}]
  /\ logged \in [Producers -> 0 .. MaxLogs]

WorkerTypeOK ==
  /\ workerPC \in WorkerPCs
  /\ taken \in Entry \cup {NoEntry}
  /\ drainTimer \in {"off", "running", "expired"}

StatsTypeOK ==
  stats \in [dropped : [CountedLevels -> Nat], blocked : Nat, processed : Nat]

HistoryTypeOK ==
  hist \in [out : Seq(Entry), direct : SUBSET Entry,
            discarded : SUBSET Entry, failed : SUBSET Entry,
            recycled : SUBSET Entry, atClose : SUBSET Entry]

(* Every variable stays in its type; in particular the queue never holds   *)
(* more than BufferSize entries, however many callers race for the last    *)
(* slot.                                                                   *)
TypeOK == /\ QueueTypeOK /\ SignalTypeOK /\ CallTypeOK
          /\ WorkerTypeOK /\ StatsTypeOK /\ HistoryTypeOK

(* Goroutines that are inside a call of Write.                             *)
Writing == {p \in Producers : InFallback(p)}
             \cup (IF workerPC = "write" THEN {Worker} ELSE {})

(* A writer that is not safe for concurrent use is never entered by two    *)
(* goroutines, though the worker, callers whose Block timed out and Close  *)
(* all use the same mutex (console.go, write and processWrite).            *)
WriterExclusive ==
  ~ConcurrentSafe => \A a, b \in Writing : a = b

(* Close is ordered: the queue is closed after the close signal, and only  *)
(* when process() has returned.  A send on the closed queue can therefore  *)
(* only panic when nobody consumes the queue any more.                     *)
ShutdownOrder ==
  /\ queueClosed => closed /\ WorkerGone
  /\ \A p \in Producers : pc[p] = "panicSend" => queueClosed

(* Entries of one producer that go through the queue are written in the    *)
(* order in which the producer logged them, with any overflow policy and   *)
(* any number of loops of process().                                       *)
WorkerFIFO ==
  \A i, j \in 1 .. Len(hist.out) :
    (/\ i < j
     /\ hist.out[i].src = hist.out[j].src
     /\ hist.out[i] \notin hist.direct /\ hist.out[j] \notin hist.direct)
    => hist.out[i].seq < hist.out[j].seq

(* Where an entry is.                                                      *)
Places(e) ==
  {place \in {"held", "queued", "taken", "written", "discarded", "failed"} :
     e \in CASE place = "held"      -> InHand
             [] place = "queued"    -> InQueue
             [] place = "taken"     -> InWorker
             [] place = "written"   -> Written
             [] place = "discarded" -> hist.discarded
             [] place = "failed"    -> hist.failed}

(* No entry is lost, duplicated or written twice: an entry handed to       *)
(* HandleLog is in the hands of its caller, in the queue, with the worker, *)
(* written, dropped by a policy or refused by the writer, and in one of    *)
(* these places only.                                                      *)
EachEntryOnePlace ==
  /\ \A e \in Entry : Cardinality(Places(e)) <= 1
  /\ \A p \in Producers : \A n \in 1 .. logged[p] :
       \E level \in LogLevels :
         Places([src |-> p, seq |-> n, level |-> level]) # {}
  /\ IsInjective(queue) /\ IsInjective(hist.out)

(* The calls of Handle that have been made, by producer and number.        *)
CallsMade == {c \in Producers \X (1 .. MaxLogs) : c[2] <= logged[c[1]]}

(* Until the queue is closed the counters of Stats() account for every     *)
(* call: what was logged is processed, dropped, failed or still on its     *)
(* way.  (Afterwards a nil received from the closed queue is counted as    *)
(* a dropped entry.)                                                       *)
StatsAccount ==
  (~queueClosed /\ LogLevels \subseteq CountedLevels) =>
    Cardinality(CallsMade) =
      stats.processed + GetTotalDropped(stats.dropped)
        + Cardinality(hist.failed) + Len(queue)
        + Cardinality(InHand) + Cardinality(InWorker)

(* PutEntry gives an entry back to the pool, which may hand it to another  *)
(* caller at once: nobody reaches a recycled entry any more, and it had    *)
(* been written.                                                           *)
RecycleSafe ==
  /\ hist.recycled \cap (InHand \cup InQueue \cup InWorker) = {}
  /\ hist.recycled \subseteq Written

(* Draining on Close: when process() returned before the drain timeout and *)
(* without a write error, everything that was accepted before Close closed *)
(* the handler has been written, or was evicted by a later DropOldest      *)
(* call.                                                                   *)
DrainedOnClose ==
  (workerPC = "done" /\ drainTimer # "expired") =>
    hist.atClose \subseteq Written \cup hist.discarded

(* The records of the abstract specification and their fates.              *)
Fate ==
  LET hand == InHand  waiting == InQueue  written == Written
  IN  [e \in Entry |->
         CASE e \in hand      -> "held"
           [] e \in waiting   -> "queued"
           [] e = taken       -> "taken"
           [] e \in written   -> "written"
           [] e \in hist.discarded -> "discarded"
           [] e \in hist.failed    -> "failed"
           [] OTHER           -> "unborn"]

Abstract == INSTANCE RecordFate WITH Record <- Entry, fate <- Fate

(* The handler implements RecordFate.                                      *)
ImplementsRecordFate == Abstract!Spec

(* A Block caller that nothing can wake any more but Close: a write error  *)
(* has ended the worker, and the tick of the one timer went to another     *)
(* caller, or another caller stopped the timer (see BlockTimesOut).        *)
Stranded(p) ==
  /\ pc[p] = "wait" /\ blockTimer = "stopped"
  /\ workerPC = "failed" /\ ~closed
  /\ \E q \in Producers \ {p} : logged[q] > 0

(* A call of Handle ends, whatever the policy: the caller gets room, the   *)
(* tick of the timer it shares with others, the close signal or the mutex. *)
(* The only calls that never end are those of stranded Block callers.      *)
HandleReturns ==
  \A p \in Producers :
    \/ []<>(pc[p] \in {"idle", "panicSend", "panicLevel"})
    \/ <>[]Stranded(p)

AnySend == \E p \in Producers : Send(p)

(* Close returns once callers have stopped enqueueing: it waits for the    *)
(* worker without the mutex the worker needs, and the drain loop ends.     *)
(* (Without that the batch loop of process, which looks neither at         *)
(* h.closed nor at a deadline, may go on for ever.)                        *)
QuietClose ==
  <>[][~AnySend]_vars =>
    \A c \in Closers :
      closerPC[c] = "signal" ~> closerPC[c] \in {"done", "panicked"}

(* An accepted entry does not stay in the queue of a living worker.        *)
AcceptedIsTaken ==
  \A e \in Entry : []<>(e \notin InQueue \/ WorkerGone)

-----------------------------------------------------------------------------
(* What the repository says of the handler and the code does not do.       *)

(* handler/policy.go, Block: "blocks the caller until space is available   *)
(* (with timeout)".  A caller that waits stops waiting.                    *)
BlockTimesOut ==
  \A p \in Producers : pc[p] = "wait" ~> pc[p] # "wait"

(* overflow_test.go: "Close multiple times - should not panic".            *)
CloseIdempotent == \A c \in Closers : closerPC[c] # "panicked"
=============================================================================
