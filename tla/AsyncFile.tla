------------------------------ MODULE AsyncFile ------------------------------
(***************************************************************************)
(* A bounded queue and a worker in front of a rotated file:                *)
(* AsyncFileHandler (handler/filehandler/file_async.go), whose worker      *)
(* writes record by record, and the older FileHandler with Async set       *)
(* (handler/file.go), whose worker formats all that is queued into one     *)
(* buffer and writes that.  The rest of the two is the same.               *)
(*                                                                         *)
(* Every write, rotation and final flush is a run of steps of FileSink,    *)
(* each of which may fail, under the mutex; callers, the worker and Close  *)
(* compete for it.  What a full queue does is any of the policies, and the *)
(* timer of Block may fire at any time: AsyncConsole has their details,    *)
(* and the race of two Close calls.  A crash is left to FileSink.          *)
(***************************************************************************)
EXTENDS Integers, Sequences, FiniteSets, Functions, SequencesExt

CONSTANTS
  MaxSize, MaxAge, RotateInterval, MaxBackups, Second, Foreign, BufSize,
  MaxRecord, FaultKinds, MaxFaults, MaxCrashes, MaxWrites, MaxTime, \* FileSink
  Producers,  \* goroutines that log
  Worker,     \* the goroutine that runs process()
  Closer,     \* the goroutine that calls Close
  Nobody,     \* holds the mutex when it is free
  NoEntry,    \* a nil *Entry
  Capacity,   \* BufferSize of the configuration
  Batching,   \* which workers: {FALSE}, the newer one, {TRUE}, the older
  Sizes,      \* lengths of formatted records
  MaxLogs     \* bound: records per producer

Entry == [src : Producers, seq : 1 .. MaxLogs, size : Sizes]

ASSUME QueueAssumption == Capacity \in Nat \ {0} /\ MaxLogs \in Nat
ASSUME HandlerAssumption == /\ Batching \subseteq BOOLEAN
                            /\ Sizes \subseteq Nat \ {0}
ASSUME GoroutineAssumption ==
  /\ {Worker, Closer, Nobody} \cap Producers = {}
  /\ Cardinality({Worker, Closer, Nobody}) = 3
ASSUME NoEntryAssumption == NoEntry \notin Entry

VARIABLES
  current, backups, h, step, pending, closing, now, env, past,  \* FileSink
  owner,        \* who holds fileBase.mu
  queue, queueClosed, closed,
  batches,      \* the worker formats what is queued into one buffer
  pc, held, logged,             \* each producer
  workerPC, drainTimer,         \* the worker
  taken, batchLen,              \* what it writes next, formatted: its length
  closerPC,
  hist          \* history

File == INSTANCE FileSink

ASSUME FileAssumption ==
  /\ {MaxSize, MaxAge, RotateInterval, MaxBackups} \subseteq Nat
  /\ {BufSize, MaxRecord, Second} \subseteq Nat \ {0}
  /\ IsFiniteSet(Foreign) /\ \A f \in Foreign : f \in Int /\ f < 0
  /\ FaultKinds \subseteq File!Kinds
  /\ {MaxFaults, MaxCrashes, MaxWrites, MaxTime} \subseteq Nat

fileVars   == <<current, backups, h, step, pending, closing, now, env, past>>
queueVars  == <<queue, queueClosed, closed, batches>>
callVars   == <<pc, held, logged>>
workerVars == <<workerPC, drainTimer, taken, batchLen>>
vars == <<fileVars, owner, queueVars, callVars, workerVars, closerPC, hist>>

ProducerPCs == {"idle", "send", "evict", "resend", "wait", "write", "writing",
                "panicked"}
WorkerPCs == {"select", "collect", "batch", "drain", "write", "writing",
              "done", "failed"}
CloserPCs == {"idle", "await", "closeQueue", "closeFile", "closing", "done"}

Init ==
  /\ File!Init
  /\ owner = Nobody
  /\ queue = <<>> /\ queueClosed = FALSE /\ closed = FALSE
  /\ batches \in Batching
  /\ pc = [p \in Producers |-> "idle"]
  /\ held = [p \in Producers |-> NoEntry]
  /\ logged = [p \in Producers |-> 0]
  /\ workerPC = "select" /\ drainTimer = "off"
  /\ taken = <<>> /\ batchLen = 0
  /\ closerPC = "idle"
  /\ hist = [order |-> <<>>,      \* what each write of FileSink consists of
             bytes |-> <<>>,      \* the entries in the order of their bytes
             direct |-> {},       \* entries that callers wrote themselves
             written |-> {},      \* entries whose write returned nil
             failed |-> {},       \* entries whose write returned an error
             discarded |-> {},    \* entries that a policy dropped
             atClose |-> {}]      \* accepted, not written, when Close began

CallKeeps(rest) ==
  UNCHANGED <<queueClosed, closed, batches, logged, workerVars, closerPC, rest>>
WorkerKeeps(rest) ==
  UNCHANGED <<queueClosed, closed, batches, callVars, closerPC, rest>>
CloseKeeps(rest) ==
  UNCHANGED <<queue, batches, callVars, workerVars, rest>>

-----------------------------------------------------------------------------
(* Callers                                                                 *)

HasRoom_OffByOne == Len(queue) <= Capacity
HasRoom == Len(queue) < Capacity

Enqueue_InFront(q, e) == <<e>> \o q
Enqueue(q, e) == Append(q, e)

Goto(p, label) == pc' = [pc EXCEPT ![p] = label] /\ UNCHANGED held
Return(p) == /\ pc' = [pc EXCEPT ![p] = "idle"]
             /\ held' = [held EXCEPT ![p] = NoEntry]

HandleLog(p, size) ==
  /\ pc[p] = "idle" /\ logged[p] < MaxLogs
  /\ logged' = [logged EXCEPT ![p] = @ + 1]
  /\ held' = [held EXCEPT ![p] =
                [src |-> p, seq |-> logged[p] + 1, size |-> size]]
  /\ pc' = [pc EXCEPT ![p] = "send"]
  /\ UNCHANGED <<fileVars, owner, queueVars, workerVars, closerPC, hist>>

Send(p) ==
  /\ pc[p] \in {"send", "resend", "wait"} /\ ~queueClosed /\ HasRoom
  /\ queue' = Enqueue(queue, held[p])
  /\ Return(p)
  /\ CallKeeps(<<fileVars, owner, hist>>)

SendPanics(p) ==
  /\ pc[p] \in {"send", "resend", "wait"} /\ queueClosed
  /\ Goto(p, "panicked")
  /\ CallKeeps(<<fileVars, owner, queue, hist>>)

(* The queue is full: the entry is dropped, the oldest one is, or the      *)
(* caller waits.                                                           *)
Drop(p) ==
  /\ pc[p] \in {"send", "resend"} /\ ~queueClosed /\ ~HasRoom
  /\ hist' = [hist EXCEPT !.discarded = @ \cup {held[p]}]
  /\ Return(p)
  /\ CallKeeps(<<fileVars, owner, queue>>)

FindFull(p) ==
  /\ pc[p] = "send" /\ ~queueClosed /\ ~HasRoom
  /\ Goto(p, "evict") \/ Goto(p, "wait")
  /\ CallKeeps(<<fileVars, owner, queue, hist>>)

Evict(p) ==
  /\ pc[p] = "evict"
  /\ Goto(p, "resend")
  /\ IF queue = <<>> THEN UNCHANGED <<queue, hist>>
     ELSE /\ queue' = Tail(queue)
          /\ hist' = [hist EXCEPT !.discarded = @ \cup {Head(queue)}]
  /\ CallKeeps(<<fileVars, owner>>)

(* The timer fires or the handler is closed: the caller writes.            *)
StopWaiting(p) ==
  /\ pc[p] = "wait"
  /\ Goto(p, "write")
  /\ CallKeeps(<<fileVars, owner, queue, hist>>)

-----------------------------------------------------------------------------
(* fileBase.write: lock, rotate if needed, append, unlock                  *)

BeginWrite(who, entries, size, direct) ==
  /\ owner = Nobody /\ owner' = who
  /\ File!StartWrite(size)
  /\ hist' = [hist EXCEPT !.order = Append(@, entries),
                          !.bytes = @ \o entries,
                          !.direct = @ \cup direct]

CallerWrites(p) ==
  /\ pc[p] = "write"
  /\ BeginWrite(p, <<held[p]>>, held[p].size, {held[p]})
  /\ Goto(p, "writing")
  /\ CallKeeps(queue)

WorkerWrites ==
  /\ workerPC = "write"
  /\ BeginWrite(Worker, taken, batchLen, {})
  /\ workerPC' = "writing"
  /\ WorkerKeeps(<<queue, taken, batchLen, drainTimer>>)

(* Which loop the worker came from.                                        *)
ResumeLoop == IF drainTimer # "off" THEN "drain"
              ELSE IF batches THEN "select" ELSE "batch"

(* A write that ends: a caller returns, the worker goes on or, after an    *)
(* error, ends.                                                            *)
EndWrite(ok) ==
  LET entries == Range(Last(hist.order))
  IN /\ owner' = Nobody
     /\ hist' = [hist EXCEPT !.written = IF ok THEN @ \cup entries ELSE @,
                             !.failed = IF ok THEN @ ELSE @ \cup entries]
     /\ IF owner = Worker
        THEN /\ workerPC' = IF ok THEN ResumeLoop ELSE "failed"
             /\ taken' = <<>> /\ batchLen' = 0
             /\ UNCHANGED <<drainTimer, callVars>>
        ELSE Return(owner) /\ UNCHANGED <<logged, workerVars>>

(* A step of FileSink for the owner of the mutex.  A call ends when the    *)
(* sink is idle again; only AppendOK ends it without an error.             *)
SinkStep ==
  /\ owner \in Producers \cup {Worker}
  /\ \/ File!AppendOK /\ EndWrite(TRUE)
     \/ /\ File!AppendFails \/ File!AppendRefused \/ File!Rotate
        /\ IF step' = "idle" THEN EndWrite(FALSE)
           ELSE UNCHANGED <<owner, callVars, workerVars, hist>>
  /\ UNCHANGED <<queueVars, closerPC>>

-----------------------------------------------------------------------------
(* The worker                                                              *)

(* The outer select, the loop behind it and the drain loop receive an      *)
(* entry.                                                                  *)
Receive(from) ==
  /\ workerPC = from /\ queue # <<>>
  /\ taken' = <<Head(queue)>> /\ batchLen' = Head(queue).size
  /\ queue' = Tail(queue)
  /\ workerPC' = IF from = "select" /\ batches THEN "collect" ELSE "write"
  /\ WorkerKeeps(<<fileVars, owner, drainTimer, hist>>)

(* The older worker formats entries as long as there are any.              *)
Collect_Overwrites ==
  /\ workerPC = "collect" /\ queue # <<>>
  /\ taken' = <<Head(queue)>> /\ batchLen' = Head(queue).size
  /\ queue' = Tail(queue)
  /\ WorkerKeeps(<<fileVars, owner, workerPC, drainTimer, hist>>)
Collect ==
  /\ workerPC = "collect" /\ queue # <<>>
  /\ taken' = Append(taken, Head(queue))
  /\ batchLen' = batchLen + Head(queue).size
  /\ queue' = Tail(queue)
  /\ WorkerKeeps(<<fileVars, owner, workerPC, drainTimer, hist>>)

QueueEmpty ==
  /\ queue = <<>>
  /\ \/ workerPC = "collect" /\ workerPC' = "write"
     \/ workerPC = "batch" /\ workerPC' = "select"
  /\ WorkerKeeps(<<fileVars, owner, queue, taken, batchLen, drainTimer, hist>>)

SeeClosed ==
  /\ workerPC = "select" /\ closed
  /\ workerPC' = "drain" /\ drainTimer' = "running"
  /\ WorkerKeeps(<<fileVars, owner, queue, taken, batchLen, hist>>)

DeadlineExpires ==
  /\ drainTimer = "running" /\ workerPC \notin {"done", "failed"}
  /\ drainTimer' = "expired"
  /\ WorkerKeeps(<<fileVars, owner, queue, workerPC, taken, batchLen, hist>>)

DrainEnds ==
  /\ workerPC = "drain" /\ (drainTimer = "expired" \/ queue = <<>>)
  /\ workerPC' = "done"
  /\ WorkerKeeps(<<fileVars, owner, queue, taken, batchLen, drainTimer, hist>>)

WorkerGone == workerPC \in {"done", "failed"}

-----------------------------------------------------------------------------
(* Close                                                                   *)

CloseSignal ==
  /\ closerPC = "idle" /\ closerPC' = "await"
  /\ closed' = TRUE
  /\ hist' = [hist EXCEPT !.atClose = Range(queue) \cup Range(taken)]
  /\ CloseKeeps(<<fileVars, owner, queueClosed>>)

CloseAwait_NoWait ==
  /\ closerPC = "await"
  /\ closerPC' = "closeQueue"
  /\ CloseKeeps(<<fileVars, owner, queueClosed, closed, hist>>)
CloseAwait ==
  /\ closerPC = "await" /\ WorkerGone
  /\ closerPC' = "closeQueue"
  /\ CloseKeeps(<<fileVars, owner, queueClosed, closed, hist>>)

CloseQueue ==
  /\ closerPC = "closeQueue" /\ owner = Nobody
  /\ queueClosed' = TRUE /\ closerPC' = "closeFile"
  /\ CloseKeeps(<<fileVars, owner, closed, hist>>)

BeginCloseFile ==
  /\ closerPC = "closeFile" /\ owner = Nobody /\ owner' = Closer
  /\ File!StartClose
  /\ closerPC' = "closing"
  /\ CloseKeeps(<<queueClosed, closed, hist>>)

CloseFile ==
  /\ owner = Closer /\ File!CloseFile
  /\ IF step' = "idle" THEN owner' = Nobody /\ closerPC' = "done"
                       ELSE UNCHANGED <<owner, closerPC>>
  /\ CloseKeeps(<<queueClosed, closed, hist>>)

-----------------------------------------------------------------------------
HandleStep(p) ==
  \/ Send(p) \/ SendPanics(p) \/ Drop(p) \/ FindFull(p) \/ Evict(p)
  \/ StopWaiting(p) \/ CallerWrites(p)

WorkerStep ==
  \/ \E from \in {"select", "batch", "drain"} : Receive(from)
  \/ Collect \/ QueueEmpty \/ SeeClosed \/ DrainEnds \/ WorkerWrites

CloseStep == CloseSignal \/ CloseAwait \/ CloseQueue \/ BeginCloseFile
               \/ CloseFile

Tick ==
  /\ File!Tick
  /\ UNCHANGED <<owner, queueVars, callVars, workerVars, closerPC, hist>>

Terminated ==
  /\ \A p \in Producers : \/ pc[p] = "idle" /\ logged[p] = MaxLogs
                          \/ pc[p] = "panicked"
  /\ WorkerGone /\ closerPC = "done"

Next ==
  \/ \E p \in Producers : \/ \E size \in Sizes : HandleLog(p, size)
                          \/ HandleStep(p)
  \/ SinkStep \/ WorkerStep \/ DeadlineExpires \/ CloseStep
  \/ Tick
  \/ Terminated /\ UNCHANGED vars

Spec == Init /\ [][Next]_vars
-----------------------------------------------------------------------------
(* Properties                                                              *)

Histories == [order : Seq(Seq(Entry)), bytes : Seq(Entry), direct : SUBSET Entry,
              written : SUBSET Entry, failed : SUBSET Entry,
              discarded : SUBSET Entry, atClose : SUBSET Entry]

(* Every variable stays in its type; the queue does not outgrow its        *)
(* capacity, and the sink works exactly while somebody holds the mutex.    *)
TypeOK ==
  /\ owner \in Producers \cup {Worker, Closer, Nobody}
  /\ owner = Nobody <=> step = "idle"
  /\ queue \in Seq(Entry) /\ Len(queue) <= Capacity
  /\ queueClosed \in BOOLEAN /\ closed \in BOOLEAN /\ batches \in BOOLEAN
  /\ pc \in [Producers -> ProducerPCs]
  /\ held \in [Producers -> Entry \cup {NoEntry}]
  /\ logged \in [Producers -> 0 .. MaxLogs]
  /\ workerPC \in WorkerPCs /\ taken \in Seq(Entry) /\ batchLen \in Nat
  /\ drainTimer \in {"off", "running", "expired"}
  /\ closerPC \in CloserPCs
  /\ hist \in Histories

(* In how many places an entry is.                                         *)
Copies(e) ==
  Cardinality({p \in Producers : held[p] = e})
    + Cardinality({i \in DOMAIN queue : queue[i] = e})
    + Cardinality({i \in DOMAIN taken : taken[i] = e})
    + Cardinality({s \in {"written", "failed", "discarded"} : e \in hist[s]})

(* No entry is lost or duplicated, also when a rotation fails and ends the *)
(* worker in the middle of a batch: each one that was logged is with its   *)
(* caller, queued, with the worker, written, refused or dropped.           *)
EntryOnePlace ==
  /\ \A e \in Entry : Copies(e) <= 1
  /\ \A p \in Producers : \A n \in 1 .. logged[p] :
       \E size \in Sizes : Copies([src |-> p, seq |-> n, size |-> size]) = 1

(* Entries of one producer that go through the queue reach the file in the *)
(* order in which they were logged, whatever is batched, evicted or        *)
(* drained, and whatever callers write in between.                         *)
QueueOrder ==
  \A i, j \in DOMAIN hist.bytes :
    LET a == hist.bytes[i]  b == hist.bytes[j]
    IN (i < j /\ a.src = b.src /\ {a, b} \cap hist.direct = {})
         => a.seq < b.seq

(* The last byte of the write that an entry is in is in the log file or in *)
(* a backup that is there; or it was in a backup that a cleanup has        *)
(* removed or a rotation of its second has replaced.                       *)
LastBytes(e) ==
  {[rec |-> k, last |-> TRUE] :
     k \in {k \in DOMAIN hist.order : e \in Range(hist.order[k])}}
Stored(e) ==
  \E b \in LastBytes(e) : \/ b \in Range(current)
                         \/ \E t \in DOMAIN backups : b \in Range(backups[t])
Removed(e) == \E b \in LastBytes(e) : b \in past.removed

(* What was accepted before Close is in the files when Close has returned  *)
(* nil, or was there until its backup was removed, unless the drain met    *)
(* its deadline or an error: process drains the queue into bufio.Writer,   *)
(* and only then does Close flush and close the file.                      *)
StoredOnClose ==
  (closing = "succeeded" /\ workerPC = "done" /\ drainTimer # "expired") =>
    \A e \in hist.atClose : e \in hist.discarded \/ Stored(e) \/ Removed(e)

-----------------------------------------------------------------------------
(* What the repository says and the code does not do.                      *)

(* README.md, Block: "Block caller with timeout, fallback to sync write".  *)
(* A caller whose fallback write has returned nil finds its record in the  *)
(* file once Close has returned nil.                                       *)
FallbackIsStored ==
  closing = "succeeded" =>
    \A e \in hist.direct \cap hist.written : Stored(e) \/ Removed(e)
==============================================================================
