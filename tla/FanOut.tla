-------------------------------- MODULE FanOut --------------------------------
(***************************************************************************)
(* Loggers (logger/logger.go) in front of MultiHandlers                    *)
(* (handler/multihandler/multi.go), down to the line that each child       *)
(* writes.  Records travel in pooled entries (EntryPool), or as arguments  *)
(* of HandleLog.                                                           *)
(*                                                                         *)
(* The children are SyncConsoleHandlers, AsyncConsoleHandlers and handlers *)
(* of the application that only have Handle.  A child may belong to        *)
(* several loggers.  What a full queue does is a choice between dropping   *)
(* the record, evicting another one, waiting and writing, whatever the     *)
(* policy: AsyncConsole has the details, and Close.                        *)
(***************************************************************************)
EXTENDS Naturals, Sequences, FiniteSets, Functions

CONSTANTS Producers,      \* goroutines, each logs through a logger of its own
          Sync, Async,    \* the console handlers
          Plain,          \* handlers that have Handle only
          Recycling,      \* those of them whose CanRecycleEntry is TRUE
          Handlers,       \* the children of each logger's MultiHandler
          WithFields,     \* producers whose logger has default fields
          WithCaller,     \* producers whose logger has includeCaller
          ConcurrentSafe, \* children whose writer needs no lock
          Capacity,       \* BufferSize of the asynchronous children
          Worker,         \* the worker of a child, when it holds its mutex
          Nobody,         \* holds a mutex that is free
          Cell,           \* the addresses of entries
          NoCell,         \* a nil *Entry
          NoRecord,       \* no message, no caller
          MaxLogs,        \* bound: records per producer
          WriteFaults     \* bound: writes per child that return an error

Child == Sync \cup Async \cup Plain

ASSUME ChildAssumption ==
  /\ Sync \cap Async = {} /\ Plain \cap (Sync \cup Async) = {}
  /\ Recycling \subseteq Plain /\ ConcurrentSafe \subseteq Sync \cup Async
ASSUME LoggerAssumption ==
  /\ Handlers \in [Producers -> Seq(Child) \ {<<>>}]
  /\ WithFields \subseteq Producers /\ WithCaller \subseteq Producers
ASSUME HolderAssumption ==
  {Worker, Nobody} \cap Producers = {} /\ Worker # Nobody
ASSUME BoundAssumption ==
  Capacity \in Nat \ {0} /\ MaxLogs \in Nat /\ WriteFaults \in Nat

(* One call of a logger; args: it has fields of its own.  Number 0 stands  *)
(* for the logger itself, where its default fields come from.              *)
Record == [src : Producers, seq : 0 .. MaxLogs, args : BOOLEAN]

ASSUME NilAssumption == NoCell \notin Cell /\ NoRecord \notin Record

VARIABLES
  made, pool, entry,  \* EntryPool
  call,      \* what each producer does
  queue,     \* the queue of each asynchronous child
  worker,    \* what its worker does
  mu,        \* who holds the mutex of each console handler
  buf,       \* its own entry and buffer, which mu protects
  out,       \* history: the lines each child has written
  lost       \* history: the records it dropped or could not write

Pool == INSTANCE EntryPool

vars == <<made, pool, entry, call, queue, worker, mu, buf, out, lost>>

CallPCs   == {"idle", "get", "send", "evict", "try", "await", "locked",
              "lockedText", "direct", "plain", "recycle"}
WorkerPCs == {"receive", "lock", "write", "put", "gone"}

Call == [pc : CallPCs,
         record : Record,                \* the record, the last one when idle
         at : Nat,                       \* which child it is at
         cell : Cell \cup {NoCell},      \* the entry of the call
         own : Cell \cup {NoCell},       \* the one HandleLog made for a child
         text : Pool!Entry,              \* formatted in a buffer from a pool
         failed : BOOLEAN]               \* lastErr # nil

Init ==
  /\ Pool!PoolInit
  /\ call = [p \in Producers |->
               [pc |-> "idle", at |-> 1, cell |-> NoCell, own |-> NoCell,
                record |-> [src |-> p, seq |-> 0, args |-> FALSE],
                text |-> Pool!Zero, failed |-> FALSE]]
  /\ queue = [c \in Async |-> <<>>]
  /\ worker = [c \in Async |-> [pc |-> "receive", cell |-> NoCell]]
  /\ mu = [c \in Sync \cup Async |-> Nobody]
  /\ buf = [c \in Sync \cup Async |-> Pool!Zero]
  /\ out = [c \in Child |-> <<>>] /\ lost = [c \in Child |-> {}]

-----------------------------------------------------------------------------
(* What NewMultiHandler and WithHandler find out about the children.       *)

AllFast(p) == Range(Handlers[p]) \cap Plain = {}

CanRecycle_Always(c) == TRUE
CanRecycle(c) == c \in Sync \cup Recycling

RecycleEntry(p) == \A c \in Range(Handlers[p]) : CanRecycle(c)

(* What a record looks like in an entry: the logger's fields, then those   *)
(* of the call.                                                            *)
FieldsOf(r) ==
  (IF r.src \in WithFields THEN <<[r EXCEPT !.seq = 0, !.args = FALSE]>>
                           ELSE <<>>)
    \o (IF r.args THEN <<r>> ELSE <<>>)

CallerOf(r) == IF r.src \in WithCaller THEN r ELSE NoRecord

Logged(r) == [message |-> r, fields |-> FieldsOf(r), caller |-> CallerOf(r)]

(* HandleLog sets every part of an entry; Logger.log leaves the caller as  *)
(* it is when the logger does not include it.                              *)
Filled(e, r) ==
  IF r.args /\ r.src \notin WithCaller
  THEN [Logged(r) EXCEPT !.caller = entry[e].caller] ELSE Logged(r)

-----------------------------------------------------------------------------
(* The call of a producer                                                  *)

ChildOf(p) == Handlers[p][call[p].at]

(* The call has an entry for its children: it has fields of its own, or    *)
(* HandleLog of the MultiHandler found a child that needs one.             *)
NeedsEntry(p, r) == r.args \/ ~AllFast(p)

(* How the child with number i is entered: Handle with that entry, or      *)
(* HandleLog.                                                              *)
Entering(p, i, r) ==
  LET c == Handlers[p][i]
  IN CASE c \in Sync  -> "try"
       [] c \in Plain -> "plain"
       [] OTHER       -> IF r.args THEN "send" ELSE "get"

(* The entry an asynchronous child works on.                               *)
Target(p) == IF call[p].own = NoCell THEN call[p].cell ELSE call[p].own

(* What a console handler formats: the entry it was given, or arguments.   *)
Source(p) ==
  IF ChildOf(p) \in Async \/ call[p].record.args
  THEN entry[Target(p)] ELSE Logged(call[p].record)

Goto(p, label) == call' = [call EXCEPT ![p].pc = label]

(* The entry is recycled at the end if every child allows it; Logger.log   *)
(* does so only if there was no error.                                     *)
Recycles(p, bad) ==
  /\ NeedsEntry(p, call[p].record) /\ RecycleEntry(p)
  /\ call[p].record.args => ~bad

(* A child has returned, perhaps an error: the next one gets the record    *)
(* all the same.                                                           *)
After(p, error) ==
  LET c   == call[p]
      bad == c.failed \/ error
  IN IF c.at < Len(Handlers[p])
     THEN [c EXCEPT !.pc = Entering(p, c.at + 1, c.record), !.at = @ + 1,
                    !.own = NoCell, !.text = Pool!Zero, !.failed = bad]
     ELSE [c EXCEPT !.pc = IF Recycles(p, bad) THEN "recycle" ELSE "idle",
                    !.cell = IF Recycles(p, bad) THEN @ ELSE NoCell,
                    !.own = NoCell, !.text = Pool!Zero, !.failed = bad]

Return_AtFirstError(p, error) ==
  call' = [call EXCEPT ![p] =
             IF error THEN [@ EXCEPT !.pc = "idle", !.cell = NoCell,
                                     !.own = NoCell]
                      ELSE After(p, error)]
Return(p, error) == call' = [call EXCEPT ![p] = After(p, error)]

(* A call that passes the level gate: Logger.log, and HandleLog of the     *)
(* MultiHandler when there are no fields.                                  *)
Start(p, r, e) ==
  call' = [call EXCEPT ![p] = [@ EXCEPT !.pc = Entering(p, 1, r), !.at = 1,
                                        !.record = r, !.cell = e,
                                        !.failed = FALSE]]

Log(p, args) ==
  LET r == [src |-> p, seq |-> call[p].record.seq + 1, args |-> args]
  IN /\ call[p].pc = "idle" /\ r.seq <= MaxLogs
     /\ IF NeedsEntry(p, r)
        THEN \E e \in Cell :
               /\ Start(p, r, e)
               /\ Pool!GetEntry(e, Filled(e, r))
        ELSE Start(p, r, NoCell) /\ UNCHANGED <<made, pool, entry>>
     /\ UNCHANGED <<queue, worker, mu, buf, out, lost>>

(* PutEntry at the end of Logger.log or of HandleLog.                      *)
Recycle(p) ==
  /\ call[p].pc = "recycle"
  /\ Pool!PutEntry(call[p].cell)
  /\ call' = [call EXCEPT ![p].pc = "idle", ![p].cell = NoCell]
  /\ UNCHANGED <<queue, worker, mu, buf, out, lost>>

-----------------------------------------------------------------------------
(* Children that write in the call: a Plain one, a synchronous console     *)
(* handler, and an asynchronous one that falls back to write.              *)

(* The writer takes a line, or returns an error.                           *)
WriteOK(c, line) ==
  out' = [out EXCEPT ![c] = Append(@, line)] /\ UNCHANGED lost
WriteFails(c, line) ==
  /\ Cardinality(lost[c]) < WriteFaults
  /\ lost' = [lost EXCEPT ![c] = @ \cup {line.message}] /\ UNCHANGED out

HandlePlain(p) ==
  /\ call[p].pc = "plain"
  /\ LET c == ChildOf(p)  line == entry[call[p].cell]
     IN \/ WriteOK(c, line) /\ Return(p, FALSE)
        \/ WriteFails(c, line) /\ Return(p, TRUE)
  /\ UNCHANGED <<made, pool, entry, queue, worker, mu, buf>>

(* TryLock: the handler's own entry and buffer when it succeeds, a pair    *)
(* from the handler's pool when it does not.                               *)
TryLock(p) ==
  LET c == ChildOf(p)
  IN /\ call[p].pc = "try"
     /\ \/ /\ mu[c] = Nobody
           /\ mu' = [mu EXCEPT ![c] = p]
           /\ buf' = [buf EXCEPT ![c] = Source(p)]
           /\ Goto(p, "locked")
        \/ /\ mu[c] # Nobody
           /\ call' = [call EXCEPT
                ![p].text = Source(p),
                ![p].pc = IF c \in ConcurrentSafe THEN "direct" ELSE "await"]
           /\ UNCHANGED <<mu, buf>>
     /\ UNCHANGED <<made, pool, entry, queue, worker, out, lost>>

Lock(p) ==
  /\ call[p].pc = "await" /\ mu[ChildOf(p)] = Nobody
  /\ mu' = [mu EXCEPT ![ChildOf(p)] = p]
  /\ Goto(p, "lockedText")
  /\ UNCHANGED <<made, pool, entry, queue, worker, buf, out, lost>>

Write(p) ==
  LET c == ChildOf(p)
      line == IF call[p].pc = "locked" THEN buf[c] ELSE call[p].text
  IN /\ call[p].pc \in {"locked", "lockedText", "direct"}
     /\ \/ WriteOK(c, line) /\ Return(p, FALSE)
        \/ WriteFails(c, line) /\ Return(p, TRUE)
     /\ mu' = IF call[p].pc = "direct" THEN mu ELSE [mu EXCEPT ![c] = Nobody]
     /\ UNCHANGED <<made, pool, entry, queue, worker, buf>>

-----------------------------------------------------------------------------
(* An asynchronous child                                                   *)

(* HandleLog makes an entry of its own from the arguments.                 *)
HandleLog(p) ==
  /\ call[p].pc = "get"
  /\ \E e \in Cell :
       /\ Pool!GetEntry(e, Logged(call[p].record))
       /\ call' = [call EXCEPT ![p].own = e, ![p].pc = "send"]
  /\ UNCHANGED <<queue, worker, mu, buf, out, lost>>

HasRoom_OffByOne(c) == Len(queue[c]) <= Capacity
HasRoom(c) == Len(queue[c]) < Capacity

Send(p) ==
  LET c == ChildOf(p)
  IN /\ call[p].pc = "send" /\ HasRoom(c)
     /\ queue' = [queue EXCEPT ![c] = Append(@, Target(p))]
     /\ Return(p, FALSE)
     /\ UNCHANGED <<made, pool, entry, worker, mu, buf, out, lost>>

(* The queue is full: the record is dropped, or another one is, or the     *)
(* caller writes.  Dropped entries are not given back to the pool.         *)
Overflow(p) ==
  LET c == ChildOf(p)
  IN /\ call[p].pc = "send" /\ ~HasRoom(c)
     /\ \/ /\ lost' = [lost EXCEPT ![c] = @ \cup {entry[Target(p)].message}]
           /\ Return(p, FALSE)
        \/ Goto(p, "evict") /\ UNCHANGED lost
        \/ Goto(p, "try") /\ UNCHANGED lost
     /\ UNCHANGED <<made, pool, entry, queue, worker, mu, buf, out>>

Evict(p) ==
  LET c == ChildOf(p)
  IN /\ call[p].pc = "evict"
     /\ Goto(p, "send")
     /\ IF queue[c] = <<>> THEN UNCHANGED <<queue, lost>>
        ELSE /\ queue' = [queue EXCEPT ![c] = Tail(@)]
             /\ lost' = [lost EXCEPT ![c] =
                           @ \cup {entry[Head(queue[c])].message}]
     /\ UNCHANGED <<made, pool, entry, worker, mu, buf, out>>

(* The worker: receive, processWrite, PutEntry.                            *)
WorkerGoto(c, label) == worker' = [worker EXCEPT ![c].pc = label]

Receive(c) ==
  /\ worker[c].pc = "receive" /\ queue[c] # <<>>
  /\ worker' = [worker EXCEPT ![c] = [pc |-> "lock", cell |-> Head(queue[c])]]
  /\ queue' = [queue EXCEPT ![c] = Tail(@)]
  /\ UNCHANGED <<made, pool, entry, call, mu, buf, out, lost>>

WorkerLock(c) ==
  /\ worker[c].pc = "lock" /\ mu[c] = Nobody
  /\ mu' = [mu EXCEPT ![c] = Worker]
  /\ buf' = [buf EXCEPT ![c] = entry[worker[c].cell]]
  /\ WorkerGoto(c, "write")
  /\ UNCHANGED <<made, pool, entry, call, queue, out, lost>>

(* An error ends the worker, without PutEntry.                             *)
WorkerWrite(c) ==
  /\ worker[c].pc = "write"
  /\ \/ WriteOK(c, buf[c]) /\ WorkerGoto(c, "put")
     \/ /\ WriteFails(c, buf[c])
        /\ worker' = [worker EXCEPT ![c] = [pc |-> "gone", cell |-> NoCell]]
  /\ mu' = [mu EXCEPT ![c] = Nobody]
  /\ UNCHANGED <<made, pool, entry, call, queue, buf>>

WorkerPut(c) ==
  /\ worker[c].pc = "put"
  /\ Pool!PutEntry(worker[c].cell)
  /\ worker' = [worker EXCEPT ![c] = [pc |-> "receive", cell |-> NoCell]]
  /\ UNCHANGED <<call, queue, mu, buf, out, lost>>

-----------------------------------------------------------------------------
CallStep(p) ==
  \/ HandlePlain(p) \/ TryLock(p) \/ Lock(p) \/ Write(p)
  \/ HandleLog(p) \/ Send(p) \/ Overflow(p) \/ Evict(p) \/ Recycle(p)

WorkerStep(c) ==
  Receive(c) \/ WorkerLock(c) \/ WorkerWrite(c) \/ WorkerPut(c)

Terminated ==
  /\ \A p \in Producers : call[p].pc = "idle" /\ call[p].record.seq = MaxLogs
  /\ \A c \in Async : \/ worker[c].pc = "gone"
                      \/ worker[c].pc = "receive" /\ queue[c] = <<>>

Next ==
  \/ \E p \in Producers : \/ \E args \in BOOLEAN : Log(p, args)
                          \/ CallStep(p)
  \/ \E c \in Async : WorkerStep(c)
  \/ Terminated /\ UNCHANGED vars

Spec == Init /\ [][Next]_vars
-----------------------------------------------------------------------------
(* Properties                                                              *)

(* Every variable keeps its type; queues do not outgrow their capacity.    *)
TypeOK ==
  /\ Pool!PoolTypeOK
  /\ call \in [Producers -> Call]
  /\ \A p \in Producers : call[p].at \in DOMAIN Handlers[p]
  /\ queue \in [Async -> Seq(Cell)]
  /\ \A c \in Async : Len(queue[c]) <= Capacity
  /\ worker \in [Async -> [pc : WorkerPCs, cell : Cell \cup {NoCell}]]
  /\ mu \in [Sync \cup Async -> Producers \cup {Worker, Nobody}]
  /\ buf \in [Sync \cup Async -> Pool!Entry]
  /\ out \in [Child -> Seq(Pool!Entry)]
  /\ lost \in [Child -> SUBSET (Record \cup {NoRecord})]

(* Whoever may still read or write an entry.                               *)
Users(e) ==
  {<<"call", p>> : p \in {p \in Producers : call[p].cell = e}}
    \cup {<<"own", p>> : p \in {p \in Producers : call[p].own = e}}
    \cup {<<"worker", c>> : c \in {c \in Async : worker[c].cell = e}}
    \cup UNION {{<<"queue", c, i>> : i \in {i \in DOMAIN queue[c] :
                                              queue[c][i] = e}} : c \in Async}

(* An entry has one user, or it is in the pool, once, and has none: two    *)
(* goroutines never use an entry at the same time.  Logger.log, HandleLog  *)
(* of the MultiHandler, CanRecycleEntry and the workers have to see to     *)
(* that together, on each path of a record and in each order of the steps. *)
EntryExclusive ==
  \A e \in Cell : /\ pool[e] + Cardinality(Users(e)) <= 1
                  /\ e \notin made => pool[e] = 0 /\ Users(e) = {}

(* Whatever entry and buffer a record went through, and whoever used them  *)
(* before, a child writes it with its own fields, in order, and with its   *)
(* own caller or none.                                                     *)
LinesIntact ==
  \A c \in Child : \A i \in DOMAIN out[c] :
    /\ out[c][i].message \in Record
    /\ out[c][i] = Logged(out[c][i].message)

(* In how many places a child, or its queue or worker, has a record.       *)
Copies(c, r) ==
  Cardinality({i \in DOMAIN out[c] : out[c][i].message = r})
    + (IF r \in lost[c] THEN 1 ELSE 0)
    + IF c \in Async
      THEN Cardinality({i \in DOMAIN queue[c] :
                          entry[queue[c][i]].message = r})
             + (IF /\ worker[c].pc \in {"lock", "write"}
                   /\ entry[worker[c].cell].message = r THEN 1 ELSE 0)
      ELSE 0

(* The records that a producer has handed to a child and is done with.     *)
HandedOver(p, c) ==
  {n \in 1 .. MaxLogs :
     \/ n < call[p].record.seq
     \/ /\ n = call[p].record.seq
        /\ \/ call[p].pc \in {"idle", "recycle"}
           \/ \E i \in 1 .. call[p].at - 1 : Handlers[p][i] = c}

(* MultiHandler: "sends log entries to multiple handlers" (multi.go).      *)
(* Every child gets every record once, errors and drops of the other       *)
(* children notwithstanding: it is written, queued, or lost by that child. *)
EveryChildServed ==
  \A p \in Producers : \A c \in Range(Handlers[p]) :
    /\ \A n \in HandedOver(p, c) : \E args \in BOOLEAN :
         Copies(c, [src |-> p, seq |-> n, args |-> args]) = 1
    /\ \A r \in Record : Copies(c, r) <= 1
===============================================================================
