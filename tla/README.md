# Formal model of nlog

nlog is a structured logging library for Go. A `Logger` hands each record to a
`Handler`; handlers write to a console or to a rotated file, either in the
goroutine of the caller or through a bounded queue and a worker goroutine. This
directory holds TLA+ models of the parts of nlog that run concurrently or that
can fail half-way, the TLC configurations that check them on small instances,
and machine-checked proofs of their main invariants.

Paths below are relative to `src/`.

## 1. Inventory

| Part | Source | State it keeps | Operations | Module |
|---|---|---|---|---|
| Async console handler | `handler/consolehandler/console_async.go`, `console.go` | queue, `closed`, shared `blockTimer`, `mu`, worker, stats | `HandleLog`, `Handle`, `process`, `Close` | `AsyncConsole` |
| Overflow policies, statistics | `handler/policy.go` | six counters | `Increment*`, `Get*`, `Reset`, `GetSnapshot` | `LogPolicy` (part) |
| File sink | `handler/filehandler/file.go`, `file_sync.go` | file, `bufio.Writer`, size, rotation time | write, rotate, cleanup, close | `FileSink` |
| Async file handler | `handler/filehandler/file_async.go` | queue as above in front of a file sink | as above | `AsyncFile` |
| Sync console handler | `handler/consolehandler/console_sync.go` | `mu`, `syncBuf`, `syncEntry`, pool of parallel buffers | `HandleLog`, `Handle`, `Close` | `FanOut` (as a child) |
| Entry pool | `core/entry.go` | `sync.Pool` of entries | `GetEntry`, `PutEntry` | `EntryPool` |
| MultiHandler | `handler/multihandler/multi.go` | children, `allFast`, `recycleEntry` | `HandleLog`, `Handle`, `Close` | `FanOut` (not Close) |
| Logger | `logger/*.go` | immutable configuration, default logger | level methods, `With`, `Fatal`, `Panic`, `Close` | `FanOut` (`Logger.log`), `Loggers` (`Build`, `With`) |
| Coarse clock | `core/coarse_clock.go` | cached time | `StartCoarseClock`, `CoarseNow` | `CoarseClock`, used by `Loggers` |
| slog adapter | `handler/sloghandler/slog_handler.go` | group, attributes | `Handle`, `WithAttrs`, `WithGroup` | `Loggers` |
| Formatters | `formatter/*.go` | none | `FormatEntry` and friends | `JSONFormatter` (JSON) |
| Older handlers | `handler/console.go`, `file.go`, `multi.go`, `slog_handler.go` | as the newer ones | as the newer ones | `LegacyConsole`, `AsyncFile` (file handler), `Loggers` (slog) |
| Fields, benchmarks | `core/field.go`, `logger/field.go`, `benchmark/` | none | constructors | not modelled |

**How the parts interact.** An application goroutine calls a method of `Logger`,
which checks the level and calls `HandleLog` of a handler that has it and of a
record without fields of its own, and `Handle` with an entry from the pool
otherwise. A synchronous handler formats and writes under its mutex. An
asynchronous one tries to send the entry to a channel; when the channel is full
the overflow policy of the level decides: drop the new entry, drop the oldest
one, or wait with a timeout and then write in the goroutine of the caller. The
worker (`process`) takes entries from the channel, writes them under the same
mutex and gives them back to the pool. `Close` closes the channel `closed`, waits
for the worker, which drains the queue until it is empty or a deadline passes,
and then closes the queue. A file handler rotates in the middle of a write.

**What is hard in it.** All Block callers share one timer. DropOldest is three
channel operations, with the worker and other callers in between. Close races
with senders and with other Close calls. The caller that falls back to a
synchronous write competes with the worker for the writer. One write error ends
the worker for good. Rotation is eight operations on the file system, each of
which may fail and leave the handler half-way. A crash loses the buffer.
Entries come from one pool for the whole process, and who gives an entry back
depends on the path of the record and on what all children of a MultiHandler say
of themselves. The older console handler has two mutexes where the newer ones
have one, and its worker collects batches as long as callers supply them. Loggers
built by one builder share the array their fields are in, and `append` writes
behind them. The coarse clock is a pointer that is nil until somebody has run its
`Once`. JSON strings are escaped by hand.
`PROJECT.json` lists every such hazard with its line and with the properties
that cover it, or the reason why none does yet.

**What makes each part correct.** For the asynchronous handlers: bounded queue,
no record lost, duplicated or reordered, exclusive use of the writer, statistics
that account for every record, an orderly shutdown that drains the queue, and no
call that hangs. For the file sink: bytes in order without a gap, whole records
per file, a correct size, bounded files, retained backups, nothing written to a
closed file. For the pool: no entry in two hands. For the fan-out: every child gets
every record once, as it was logged. For loggers and adapters: fields that never
change, whatever is derived from the same builder. For the clock: a time that is
there and never goes back. For the JSON formatter: a line from which a reader
gets the record back.

## 2. The modules

### LogPolicy
Levels, overflow policies and drop counters of `policy.go`. `PolicyFor` is the
map lookup with its default. `IncrementDropped` is defined on `CountedLevels`
only: for Fatal and Panic the code panics, which callers of the operator model.

### AsyncConsole
The handler with any number of producers, one worker and any number of callers of
`Close`. A step is what a goroutine does between two operations that another one
can observe: a channel operation, a timer operation, taking the mutex, a Write.

| State | Code |
|---|---|
| `queue`, `queueClosed` | `h.queue`; `close(h.queue)` |
| `closed` | `h.closed` |
| `blockTimer` | `h.blockTimer`: stopped, armed, or fired with its tick in the channel |
| `mu` | `consoleBase.mu`, by holder |
| `pc`, `held`, `logged` | each caller: program counter, its entry, number of its calls |
| `workerPC`, `taken`, `drainTimer` | `process()`: program counter, entry, deadline |
| `closerPC` | each call of `Close` |
| `stats` | `handler.Stats` |
| `hist` | history: what was written, dropped, failed, recycled, pending at Close |

`Handle` is `Send`/`SendPanics`/`DropIncoming`/`FindFull` for its first select,
`Evict`/`EvictNothing` and the second send for DropOldest, `ArmTimer`,
`WaitTimeout`, `WaitClosed` and `Disarm` for Block. `consoleBase.write` is
`TryLock`, `Lock` and `FallbackWrite`. `process` is `Receive` (its three loops
receive in the same way), `BatchEmpty`, `SeeClosed`, `DrainEnds`, `WorkerLock` and
`WorkerWrite`. `Close` is `CloseCheck`, `CloseSignal`, `CloseAwait` and `CloseQueue`.
`TimerFires`, `DeadlineExpires` and `WriteError` belong to the environment.

Abstractions, each of which keeps every behaviour of the code:
- An entry is its producer, its number and its level. Formatting and the format
  buffer are part of the Write that follows, under the same lock.
- A sender parked on a full channel and one that finds room are the same step: the
  runtime hands a freed slot to the sender parked longest, the model lets any
  sender take it. A receiver that is parked (the worker in its outer select) gets
  an entry by way of the queue.
- `Stop`, the drain of the timer's channel and `Reset` are one step. The
  interleavings of these operations inside two callers end in the states stopped,
  armed and fired, which single steps of two callers reach too.
- An atomic increment happens with the step before it: `Stats()` is not modelled,
  and the properties about `stats` are only stated of such states.
- The policy map is a constant. Formatters that are not BufferFormatters are left
  out: those of the library all are.
- A panic ends the goroutine it happens in, so the model also shows what a program
  that recovers panics would see.

### RecordFate
What the handler promises, without queue, lock or timer: a record is unborn,
held by its caller, queued, taken by the worker, and finally written, discarded
or failed; a step moves at most one record, and never back. `AsyncConsole` implements it
under the mapping `Fate`, with one exception the model makes visible: a caller
whose drop panics loses its own record after it has been discarded, which is
still a legal fate.

### FileSink
`fileBase` with the synchronous handler. All of a call runs under one mutex, so
calls do not interleave; but each operation on the file system is a step, may
fail as often as `MaxFaults` allows, and the process may crash between two of
them. A file is a sequence of bytes, and a byte knows its record and whether it
is the last one of it. `current` is the log file, `backups` the rotated files by
the second of their rotation together with the files that others keep beside the log
(`Foreign`), `h` the fields of `fileBase`, `step` the operation the holder of the mutex
does next. The clock counts ticks, and `Second` of them make a second: limits on age are
compared in ticks, as `time.Duration`s are, while a backup is named after its second (`Stamp`),
so a limit may be shorter than the resolution of names. `h.fileOpen` and `h.sinkOpen` tell `b.file` from the file that
`sizeWriter` holds: after a failed rename they differ. `bufio.Writer` is modelled
with its bypass for large records and its sticky error. `past` is history: what was given
and rotated out, and which bytes of that no backup has any more (`removed`).

Abstractions: one call of `Close`; time can advance at any step and does not go back (the
name of a backup is the local time of day, so in the code it does where summer time ends);
backups were modified in the order of their rotation, without ties, and the files of
others at any time, before or after each of them; a crash is one of the process, so
written bytes survive. A file that does not exist and an empty one are the same.

### AsyncFile
The asynchronous file handler: producers, the worker and `Close` in front of an
instance of `FileSink`, whose steps are taken by whoever holds the mutex. `batches`
tells the two workers apart: that of `AsyncFileHandler` writes each entry by
itself, that of the older `FileHandler` formats what is queued into one buffer
(`Collect`) and writes that, with one check for rotation; while draining both write
one by one. The rest of the two types is the same code.

| State | Code |
|---|---|
| `current` ... `past` | the file, as in `FileSink` |
| `owner` | `fileBase.mu`: whose write, rotation or final flush is under way |
| `queue`, `queueClosed`, `closed` | `h.queue`, `close(h.queue)`, `h.closed` |
| `pc`, `held`, `logged` | each caller |
| `workerPC`, `taken`, `batchLen`, `drainTimer` | `process()`; `taken` is what it writes next, an entry or a batch, and `batchLen` its length when formatted |
| `closerPC` | `Close` |
| `hist` | history: entries per write (`order`) and one after the other (`bytes`); those that callers wrote themselves, written, refused, dropped, pending at Close |

`BeginWrite` is `Lock` and the check for rotation, `SinkStep` each operation that
follows; a write that ends (`EndWrite`) lets the caller return and the worker go on,
or end after an error. Abstractions: any policy may answer a full queue, and the
timer of Block may fire at any time (`AsyncConsole` has the maps, the shared timer,
the counters, recycling and concurrent calls of Close, which are the same code
here); no crash (`FileSink` has it).

A record is `Stored` when its last byte is in the log file or in a backup that is there. Backups
go: a cleanup takes the oldest, and a rotation replaces the backup of its own second. Their
records are `Removed`, and `StoredOnClose` names them as the exception they are.

### EntryPool
`GetEntry` and `PutEntry` on the one `sync.Pool`. `entry` is the memory, `pool` counts how
often the pool holds an entry (nothing stops a program from giving one back
twice), `made` the entries that `New` has allocated; `Get` may call `New` at any time, as the
pool is one per P and may be emptied by the garbage collector. `GetEntry` is one step
with the assignments that follow it, before the goroutine passes the entry on.

### FanOut
Loggers with a MultiHandler each, over `EntryPool`. `Log` is `Logger.log`: with call-site
fields it builds an entry and calls `Handle`; without, it calls `HandleLog` of the
MultiHandler, which builds an entry only when a child lacks `HandleLog`. The call
then goes from child to child (`Return`), whatever they return, and ends in
`Recycle` when every child allows it (in `Logger.log` also: when there was no error).

| State | Code |
|---|---|
| `made`, `pool`, `entry` | `core.entryPool` and the entries |
| `call` | each call: program counter, record, index in `handlers`, `entry`, the entry `HandleLog` of an asynchronous child makes, the buffer a contended caller formats in, `lastErr` |
| `queue`, `worker` | an asynchronous child: its channel, its worker and the entry that has |
| `mu`, `buf` | `consoleBase.mu`, `syncEntry` and `syncBuf` |
| `out`, `lost` | history: lines written; records dropped or refused by the writer |

Children are synchronous console handlers (`TryLock`, `Lock`, `Write`), asynchronous
ones (`HandleLog`, `Send`, `Overflow`, `Evict`, the worker), which fall back to the
same write path, and handlers of the application (`HandlePlain`), which are external
and write what they read. Handlers may be shared between loggers. A message, a
field and a caller are known by the record they belong to, so a line tells whose
data it mixes.

Abstractions: formatting reads the entry in one step; a full queue is answered by
any of the policies (`AsyncConsole` has their details, the timer and Close); a file
child is not modelled; a child occurs once in a list; a logger's handler is a
MultiHandler, also when it has one child only.

### LegacyConsole
The older console handler (`handler/console.go`), one type for both modes: `async` and
`buffered` (is the formatter a BufferFormatter?) are chosen at the start. The module
is about its two mutexes, `mu` for the buffer and `writeMu` for the writer, and about
progress under callers that never stop. So of the queue it keeps the length
only, and of a line who formatted it where; the entries are followed in
`AsyncConsole`. Nothing counts the calls: the state space is finite without a bound.

| State | Code |
|---|---|
| `queued`, `queueClosed`, `closed` | `len(h.queue)`, `close(h.queue)`, `close(h.closed)` |
| `mu`, `writeMu` | `h.mu` and `h.writeMu`, by holder |
| `syncBuf`, `line` | whose line is in `h.syncBuf`; where each goroutine's unwritten line is |
| `pc` | each caller |
| `workerPC`, `resume`, `deadline` | `process()`: program counter, the loop an entry came from, the drain timer |
| `closerPC` | `Close` |

`Handle` is `Send`, `SendPanics`, `FindFull`, `Evict`, `WaitTimeout` and `WaitClosed`; `write` and
the synchronous path of `HandleLog` are `Format` (TryLock on `mu`, or a pooled buffer),
`Lock` (`lockedWriter`) and `Written`. `process` is `Receive`, `Collect` and `BatchEnds` with a
BufferFormatter, `Receive`, `TakeNext` and `LoopEnds` without, then `SeeClosed`,
`TakeNext`, `DeadlineExpires` and `DrainEnds`; `processWrite` is `WorkerFormat`, `WorkerLock` and
`WorkerWritten`. `Close` is `CloseSignal`, `CloseAwait` and `CloseQueue`.

Abstractions: the policy is chosen when the queue is found full, any of the three,
as levels are not followed; the timer of Block may tick at any time or never, so
the shared timer of `AsyncConsole` is one of its behaviours; counters and the
recycling of entries are left out; one call of `Close`; a Write may fail at any time,
which ends the worker; the panic of the counters for Fatal and Panic is left out.

### CoarseClock
`StartCoarseClock` and the goroutine it starts. The `sync.Once` (external) lets one caller
run the function and the others wait for it; reading the time and storing it are
two steps, in the function under the Once and in the goroutine. `now` stops at `MaxTime`.

### Slices
Go slices (external): a heap of arrays, and slices that see a prefix of one.
`append` writes in place when the array has room behind the slice (`InPlace`), and
otherwise takes a new array with room for one more or for none (`Appended`).

### JSONFormatter
The line of `formatJSONToBuffer`, with the loop of `appendJSONString` and its index `start`
behind the last escape, and a JSON reader (external) to compare it with. A line is
a sequence of tokens; of the characters, one of each kind is kept: those with an
escape of their own, two of the others below 0x20, any other. Two hexadecimal
digits are one token. `Scanned` is the loop, `Joined` the members one behind the other and
`ReadAll` the reader, each a recursive function over the positions of its argument.
Numbers and times are written without a look at their characters, so a number may be one of
`NonFinite` (what `AppendFloat` writes of NaN and the infinities), and the text of a time
(`TimeText`, by the configured layout `TimestampFormat`) may be any text. Outside strings the reader takes
structural characters and the literals of JSON (`Literals`), and nothing else; inside them
no character below 0x20. So two kinds of record have a line that it refuses: one with a float that
is not a number, and any record under a layout that writes a quote, a backslash
or a control character. The others are `Readable`, and `LineDecodes` is about them.

### Loggers
Builders, loggers and slog adapters over these three modules. `objects` are the
loggers and adapters there are, each with the slice of its fields, its group, whether it
uses the coarse clock, and as history (`made`) the fields of the calls that made it.
`builder` is the Builder of each goroutine, `heap` the memory. `WithFields` is an `append` to
the builder's slice, which `Built` hands to the new logger as it is; `With`, `WithAttrs`
and `WithGroup` copy. An empty name makes `WithGroup` return the adapter itself. `Build` calls `StartCoarseClock`. `Log` makes a record of an object and its
line; it changes nothing, so what it made (`last`) is forgotten before the next step.

Abstractions: fields are given one per call; a slog attribute is a field already;
the record is formatted in the step that logs it (the handlers between the two have
their own modules); the time is a number; the line has no caller.

### Proof and instance modules
`AsyncConsoleProofs` and `ConsoleFateProofs` (both about `AsyncConsole`: control, and
what becomes of the entries), `FileSinkProofs`, `AsyncFileProofs`, `FanOutProofs`,
`LegacyConsoleProofs`, `JSONProofs` (about `JSONFormatter`) and `LoggersProofs` hold the
theorems; `MCAsyncConsole`, `MCFileSink`, `MCAsyncFile`, `MCFanOut` and `MCLoggers` give values to
the constants for TLC.

## 3. The runs

Passing runs:

| Run | Instance | What it shows |
|---|---|---|
| `overflow` | 2 producers of 2 records each, Info evicts, Error blocks, capacity 1, 1 call of Close, 1 write fault, 2-way symmetry | types and queue bound, exclusive writer, order of shutdown, one place per record, statistics, recycling |
| `drain` | 2 producers of 2 records each, Info blocks, Fatal evicts and panics, concurrent-safe writer, capacity 2, 1 call of Close | drain on Close, order of the records of one producer, refinement of `RecordFate` |
| `liveness` | 2 producers of 2 records each that all block, capacity 1, 1 call of Close, 1 write fault | every call of Handle returns, but for the one exception the shared timer makes (`Stranded`); Close returns once callers stop enqueueing; a living worker takes what was accepted |
| `file_faults` | 4 records of 1 to 4 bytes, buffer of 2, MaxSize 3, a second of 2 ticks, RotateInterval of 2, 4 points in time, 1 backup, 1 file of somebody else; every operation may fail, 2 faults, 1 crash | types, order and completeness, whole records, sizes, bounded files, no write to a closed file, Close flushes, backups left alone |
| `async_file` | 2 producers of 2 records each, capacity 2, both kinds of worker, buffer of 2 bytes, MaxSize 2, RotateInterval 1, 1 backup, 2 faults, 2-way symmetry | types, mutual exclusion in the sink, one place per record, order of queued records, drained records are in the log file or a backup, or went with their backup |
| `fan_out` | 2 loggers of 2 records each with or without fields: one over a shared synchronous child and an asynchronous one, the other over a child of the application and the shared one; capacity 1, 1 write fault per child, 4 entries, symmetry of entries | types, one user per entry, lines as logged, every child served once |
| `legacy_console` | 2 callers that never stop, any policy, both modes, both kinds of formatter, capacity 2, any number of write errors | types and queue bound, exclusive writer, own line in the shared buffer, queue closed after the worker; synchronous writes return, the drain ends, Close returns when callers stop |
| `loggers` | 2 goroutines with 2-way symmetry; 3 objects and 3 fields; all messages of up to 3 characters; the coarse clock with 2 objects and 3 times | types, fixed fields, time there and monotone, the JSON reader gets every readable record back |

The bounds are small because the hazards are: two callers and a worker give every
pairwise race on the queue, the timer and the mutex; capacity 1 makes every
record meet a full queue, capacity 2 adds an order among queued records; two
calls per producer let a record meet what the previous one left behind. In `liveness`
the write fault may hit the first record; the queue is then full for good with the second, and
both callers may wait at once, with one timer between them. These runs have one call of `Close`;
a second one is what `double_close` is about, and the theorems hold for any number. For
the file, records shorter than the buffer, as long and longer take all paths of
`bufio.Writer`; two faults allow a second failure during the recovery from the
first, four records two rotations with a record behind each; with one backup to keep and a
file of somebody else, of any age, the first cleanup may take either, and may fail. Four
points in time are two seconds of two ticks, so a rotation by size can fall in the second of
another, and one by the interval cannot. In `async_file` a
record is one byte, so two of them fill buffer and file: the third call rotates,
a batch spans both, and a failure may hit the worker, a caller that falls back or
Close. In
`fan_out` a call needs at most one new entry, so 4 entries never run out; the two
loggers meet in the shared child and in the pool, and only one wants callers, so a
caller that stays behind in an entry shows. In
`legacy_console` two callers and the worker are three goroutines for two mutexes, all
that a circular wait between them could need, and with two callers one can refill
the queue while the other waits; capacity 2 lets a batch be longer than one entry. In
`loggers` the instance is one of three (`ThreeBounds`), since what each is about does not
influence the others: three fields and three objects are a builder with room in its array,
a logger built before, one built after and one derived; in three
characters every kind of character stands first, last and next to every other,
which is all that `start` and the index can get wrong; three times are a tick
read before and stored after another store. Symmetry among
goroutines is used in runs of safety properties only.

**Fairness.** `FairSpec` assumes weak fairness of each goroutine's own steps
(`HandleStep`, `CloseStep`, `WorkerStep`), which the Go scheduler and a
`Write` that returns justify, and of `TimerFires`. It assumes nothing of the
application (it need neither log nor close) and not that the drain deadline
expires. A producer in a select with several ready cases is only promised that
one of them is taken. That is why `HandleReturns` has an exception (`Stranded`): when a write
error has ended the worker, nobody closes the handler, and another caller has taken the one
tick of the shared timer or has stopped it, a Block caller waits for ever (`shared_timer` shows
it). `Close` need not return while callers keep the batch loop of the worker supplied
(`console_async.go:192`); `QuietClose` is about behaviours in which they stop.

That of `LegacyConsole` is weak for steps that wait for nothing and strong for those that
compete: a `sync.Mutex` hands over to a goroutine that has waited for a
millisecond (its starvation mode), so `Lock`, `WorkerFormat`, `WorkerLock` and `CloseQueue` are
strongly fair; a `select` with several ready cases picks one at random, so `SeeClosed` and
`DrainEnds` are. The drain deadline comes (`time.After`). Nothing is assumed of the
application, and not that the timer of Block ticks. These assumptions are not enough
for `Close` to return, which is what `QuietClose` adds its premise for here too: see below.
`Loggers` has no liveness property.

Runs that end in a violation, each of a statement found in the repository; the
`findings` of `PROJECT.json` quote it:

| Run | Statement | What happens |
|---|---|---|
| `shared_timer` | Block waits "with timeout" (`policy.go:31`) | two callers, one tick, a dead worker: one waits for ever |
| `double_close` | "idempotent `Close()`" (`README.md:296`) | two concurrent calls panic |
| `late_write` | "write synchronously" (`file_async.go:96`, `README.md:249`) | a caller that falls back after Close has closed the file gets nil, its record is lost |
| `async_first` | "sends log entries to multiple handlers" (`multi.go:10`) | an asynchronous child that is not the last recycles the entry: the next child writes another record |

Other statements are not what the code does, and the models show it without
a run of their own. "MaxAge is the maximum age before rotation" (`file.go:279`): a
restart begins a new age for the file that is there (`Restart`, `Opened`). The
cleanup claims to keep "only timestamp-based backups" (`file.go:210`) in its list:
every file whose name begins with that of the log is in it (`Cleanup`, `Foreign`). DropOldest "drops the oldest log entry when queue is full"
(`policy.go:29`): between finding the queue full and the eviction the worker may
have made room, and a record is dropped that had space. "Contention is
impossible" for the worker (`console.go:131`): a caller that writes after its
timeout holds the mutex. And `Close` is said to drain the queue
(`console_async.go:229`): a second call returns while the first still drains.
`GetDropped` "returns the dropped count for a level" (`policy.go:108`): an eviction
is counted under the level of the new record, not of the one that is dropped.
DropNewest "drops the newest log entry when queue is full" (`policy.go:27`): for a
Fatal or Panic record the counter is nil and the caller panics (`DropIncoming`).
"MaxBackups ... (0 = keep all)" (`file.go:281`): a rotation in the second of another one, by
size or by a limit below a second such as the 100 ms of `filehandler/file_test.go:47`, renames
over the backup of the first (`Rename`, `Replaced`). "JSONFormatter formats log entries as
JSON" (`formatter/json.go:12`): a float that is NaN or infinite is written bare (line 145,
`NonFinite`), and a time in the configured layout without escaping (line 59), so such a line is
none a JSON reader takes (`Readable`). `DrainTimeout` is the
"timeout for draining queue on Close" (`handler/console.go:75`): callers that keep the
queue filled keep the worker in the loop at `handler/console.go:413` (`Collect`), which looks
neither at `closed` nor at a deadline, so `Close` need not return (hence the premise of
`QuietClose`); `console_async.go:192` has the same loop (`BatchEmpty`). One more was met in code
that is read but not modelled: a slog attribute that is a group becomes its first
attribute only ("flatten", `sloghandler/slog_handler.go:130`).

The instance of `shared_timer` has no call of Close, so its system stops when the
waiting caller does: it is the one run with `CHECK_DEADLOCK FALSE`.

## 4. What is proved

For every value of the constants that satisfies the named assumptions:

| Theorem | Statement |
|---|---|
| `AsyncConsoleProofs!TypeCorrect` | `Spec => []TypeOK`, in particular the bound on the queue |
| `AsyncConsoleProofs!WriterExclusiveAlways` | `Spec => []WriterExclusive` |
| `AsyncConsoleProofs!ShutdownOrdered` | `Spec => []ShutdownOrder` |
| `AsyncConsoleProofs!IdempotentOutsideWindow` | `Spec /\ []OneBehindCheck => []CloseIdempotent` |
| `ConsoleFateProofs!EachEntryOnePlaceAlways` | `Spec => []EachEntryOnePlace` |
| `ConsoleFateProofs!RecycleSafeAlways` | `Spec => []RecycleSafe` |
| `ConsoleFateProofs!DrainedOnCloseAlways` | `Spec => []DrainedOnClose` |
| `ConsoleFateProofs!WorkerFIFOAlways` | `Spec => []WorkerFIFO` |
| `ConsoleFateProofs!StatsAccountAlways` | `Spec => []StatsAccount` |
| `ConsoleFateProofs!ImplementsRecordFateAlways` | `Spec => ImplementsRecordFate`: each step is a step of `RecordFate` or a stutter |
| `FileSinkProofs!TypeCorrect` | `Spec => []TypeOK`, in particular the bound on the buffer |
| `FileSinkProofs!NeverAppendsToClosedFile` | `Spec => []AppendsToOpenFile` |
| `FileSinkProofs!SizeIsAccounted` | `Spec => []SizeAccount` |
| `FileSinkProofs!FilesAreBounded` | `Spec => []FileBound` |
| `FileSinkProofs!BytesAreInOrder` | `Spec => []InOrder` |
| `FileSinkProofs!CloseHasFlushed` | `Spec => []CloseFlushes` |
| `FileSinkProofs!BackupsHoldWholeRecords` | `Spec => []WholeRecords` |
| `FileSinkProofs!NewestIsKept` | `Spec => []NewestBackupKept` |
| `FileSinkProofs!BackupsAreLeftAlone` | `Spec => BackupsStay`, an action property |
| `FileSinkProofs!AllIsKept` | `KeepAll => (Spec => [](AllThere /\ AllBackupsKept))` |
| `AsyncFileProofs!TypeCorrect` | `Spec => []TypeOK`, in particular mutual exclusion in the sink |
| `AsyncFileProofs!EntryOnePlaceAlways` | `Spec => []EntryOnePlace` |
| `AsyncFileProofs!QueueOrderAlways` | `Spec => []QueueOrder` |
| `AsyncFileProofs!StoredOnCloseAlways` | `Spec => []StoredOnClose` |
| `AsyncFileProofs!AllStoredUnlessLate` | `Spec /\ []NoLateWriter => []AllStored` |
| `AsyncFileProofs!ImplementsFileSink` | `Spec /\ [](pending <= MaxRecord) => File!Spec` |
| `FanOutProofs!TypeCorrect` | `Spec => []TypeOK` |
| `FanOutProofs!EntryExclusiveAlways` | `AsyncLast => (Spec => []EntryExclusive)` |
| `FanOutProofs!LinesIntactAlways` | `AsyncLast => (Spec => []LinesIntact)` |
| `FanOutProofs!EveryChildServedAlways` | `AsyncLast /\ ChildrenDiffer => (Spec => []EveryChildServed)` |
| `LegacyConsoleProofs!TypeCorrect` | `Spec => []TypeOK`, in particular the bound on the queue |
| `LegacyConsoleProofs!WriterExclusiveAlways` | `Spec => []WriterExclusive` |
| `LegacyConsoleProofs!OwnLineAlways` | `Spec => []OwnLine` |
| `LegacyConsoleProofs!QueueOutlivesWorkerAlways` | `Spec => []QueueOutlivesWorker` |
| `LoggersProofs!FieldsNeverChange` | `Spec => []FieldsFixed` |
| `LoggersProofs!TypeCorrect` | `Spec => []TypeOK`, in particular that no object has an unfilled element |
| `LoggersProofs!ClockAlwaysReady` | `Spec => []ClockReady` |
| `LoggersProofs!ClockNeverGoesBack` | `Spec => ClockMonotone` |
| `JSONProofs!ReadEscaped` | a reader inside a string gets from `Escape(s)` the characters of `s`, for every text `s` |
| `LoggersProofs!LinesDecode` | `Spec => []LineDecodes` |

The assumptions are those of the modules: a positive capacity (the code replaces
others by its default), a policy map from levels to policies, goroutines with
names of their own, bounds that are natural numbers, seconds of at least one tick, names of
foreign files that are not the name of a rotation, messages, keys and values of fields
that are texts, and literals of JSON that are neither quotes nor structural characters. What a
float or a time looks like is not assumed: that is the premise of `LineDecodes` (`Readable`),
which the code does not check.
Three theorems about `FanOut` have a hypothesis on the lists of children besides, and the
code checks neither. `AsyncLast`: no child comes behind an asynchronous one. Without it the
conclusions are false, which is what the run `async_first` shows. `ChildrenDiffer`: no
logger has a child twice; a child that is there twice gets each record twice. The
hypothesis of `ImplementsFileSink` only names the bound that `FileSink` puts on its writes.

Three theorems say under which condition a statement of the repository holds that the code
does not keep in general:
- `IdempotentOutsideWindow`: `Close` panics only when two calls are between the check and
  `close(h.closed)` at once (`OneBehindCheck` excludes that; `double_close` shows it).
- `AllStoredUnlessLate`: a record whose write returned nil is missing behind `Close` only
  when a caller is in a write behind it (`NoLateWriter` excludes that; `late_write` shows it), or
  when its backup was taken by a cleanup or by a rotation of the same second (`Removed`).
- `AllIsKept`: "MaxBackups ... (0 = keep all)" holds where rotation is by age alone and no
  limit is below a second (`KeepAll`). Each byte rotated out is then in a backup, in order, whatever
  fails; otherwise the second rotation of a second replaces a backup (`Replaced`).

The inductive invariants of the concurrent modules and of `FileSink` were first checked by
TLC as invariants of the run of their module, that of `AllIsKept` on an instance with age
limits only.

**Argument for the console handler.** `TypeOK` is inductive by itself: the queue
grows only where `HasRoom` holds in the same step. `WriterExclusive` is not: its
strengthening says that the goroutine in `locked` holds the mutex, that the
worker in `write` holds it, and that `direct` is reached only with a concurrent-safe writer; two
writers then hold one mutex. `ShutdownOrder` needs that a call of Close in
`await` or `closeQueue` has closed the signal, that one in `closeQueue` has seen the
worker gone, and that the worker never comes back. The lemma `SafetyInvariant`
carries all of it.
`IdempotentOutsideWindow` rests on `CheckInv`: who stands between the check and the close
of the signal found the handler open, and nobody has closed it since.

**Argument for the entries of the console handler.** `EachEntryOnePlace` counts; its
inductive form `PlaceInv` does not. It says that the sets of entries at the six places (with
their callers, queued, with the worker, written, discarded, failed) are disjoint, that
queue and output have no entry twice, and that every call made has its entry somewhere. That a new
record is nowhere yet needs the ages too (`AgeInv`): no entry is younger than the calls of its
producer, and those a caller has passed on are older than the one it holds. Every step moves one
entry from one place to another along `Paths`, brings one into being or leaves all
where they are; `MoveKeepsFate` and `BirthKeepsFate` say once what that preserves, and each
action only has to be shown to be such a step. The same classification gives the
refinement of `RecordFate`, since the place of an entry is its fate (`FateNamed`).

- `RecycledInv`: what is recycled has been written, and written is final; so nobody has it.
- `DrainInv`: as long as the worker has not failed, what was pending at Close is queued, with
  the worker, written or evicted. Being `done` in time means that the queue is empty.
- `OrderInv`: what the worker wrote is older than what it has, and that is older than
  the queue, which is sorted. A caller's entry is the youngest of its producer, so `Send`
  preserves it; `Evict` takes from the head and preserves it as well.
- `CountInv`: calls made = processed + dropped + failed + queued + with callers + with the
  worker. Each is the cardinality of a finite set or a counter; finiteness is
  part of the invariant, as there may be infinitely many goroutines. `StatsAccount` counts the
  calls as the set of pairs of a producer and a number (`CallsMade`), which is the sum of
  `logged` without a fold.

**Argument for the file sink.** Every property of `file_faults` is proved, for every
configuration, buffer and record size and any number of faults, crashes and
records. The lemmas `AppendOKEffect` to `FlushFailsEffect` say where an operation
puts the bytes: file and buffer together (`Held`) gain the record, a beginning of
it, or nothing. On them rest these invariants, each inductive given the ones
before it:

- `RotationInv`: a call that is rotating has a reason to rotate, which lasts until
  the new file is there; so after any failed rotation (in particular after a
  failed rename, which leaves `sizeWriter` with a closed file) the next call
  rotates again instead of appending.
- `BufferInv`: behind a flush that succeeded the buffer is empty and `bufio.Writer`
  has no error; behind the rename the current file is empty.
- `SizeInv`: `currentSize` is the size of file and buffer together while `b.file` is open, also
  behind a failed rename, where a rotation that is tried again still needs the old size; it
  is never less, unless a write has failed; and only a file below MaxSize is appended to. Without
  the last part the bound is not inductive, without the others it says nothing of the file.
- `OrderInv`: backups and `Held` are a prefix of what was given, all of it while
  there is no error. `FlushedInv` (Close has written out what it found, from its flush
  on) and `WholeInv` (what was given ends where a record ends) follow from it.
- `BackupInv`: the backups are finitely many, none is of a later second than the clock's, and
  a cleanup happens only with a positive limit. It takes the newest backup only when
  `MaxBackups` files of others are newer, hence the premise of `NewestBackupKept`.
- `SecondsInv`: as long as the file can be rotated, no backup is of a later second than
  `lastRotateTime`. When the new file cannot be opened this is false, but then `Sync` fails
  from there on and nothing is renamed any more. With `RotationInv` (there is a reason to
  rotate up to the rename) a rotation whose only reason is a limit of a second or more
  gets the name of a later second, so it replaces nothing: `BackupsStay`.
- `AllThere` names for each backup where it stands in what was rotated out; the rename
  puts its file at the end, behind all others in name and place.

**Argument for the asynchronous file handler.** `TypeOK` needs to know who may be at which
step: a caller is in `writing` and the worker is exactly when it owns the mutex, the
last element of `hist.order` is what the owner writes, Close gets behind its wait only
after the worker (`CallInv`, `WorkerInv`, `WriteInv`, `CloserInv`). `EntryOnePlace` and
`QueueOrder` follow as for the console, with two differences: a write moves a
whole batch at once, to the written or to the refused entries; and what callers write
themselves comes in between, so the order is that of `hist.bytes` without these entries.

`StoredOnClose` joins the queue and the file. `FileInv` and `FileKeeps` say of each step of
`FileSink` what happens to the last bytes of records: those in files stay in files, across
rotations; those in the buffer get to a file or the sticky error of `bufio.Writer` is set; and
a flush that succeeds leaves none. `SettledInv` says of the queue that what was
pending at Close is queued, with the worker, dropped, or written or refused by the worker and
no caller; a write of the worker that is refused ends it; a drain that ends in time
leaves nothing of it behind, while callers may still send. `WrittenInv` is the bridge:
without an error every write that returned nil has its last byte among what was rotated out, in
the log file or in the buffer, and behind the flush of Close the worker's are in the files. The last part is not true of
callers, who may write behind Close (`late_write`), and holds because the worker is
gone by then. `DiskInv` leads from history to the disk: what was rotated out is in a backup that
is there, or it is in `removed`. For callers it holds as long as none writes then (`AllFiledInv`), which gives
`AllStoredUnlessLate`.

`ImplementsFileSink`: whoever holds the mutex takes the steps of one call of `FileSink`, and the
next begins where that one ends. The length of a batch has no bound in the code, but
`FileSink` gives writes the bound `MaxRecord`; hence the hypothesis. So
what is proved of `FileSink` (its bytes in order, whole records per file, its sizes) holds
for any number of goroutines.

**Argument for the fan-out.** An entry has one holder: the call that built it, the call of a
child that built one of its own, the queue or the worker of an asynchronous child, the
pool, or the heap it is not taken from yet. `ExclusiveInv` says that these sets (`Held`) are disjoint; every
step takes an entry from one holder and passes it on, or drops it (`Passes`, `Shrinks`). The call's
own set is empty once the entry is with a queue, and it is here that `AsyncLast` is
needed: no further child reads it. `LinesIntact` needs in addition what entries and buffers contain:
who has an entry has one that was filled for his record and with no caller of another
(`ContentInv`: an entry that is free has no caller left, as `GetEntry` does not clear it),
and who has formatted into a handler's buffer holds its mutex (`BufferInv`). `EveryChildServed`
is again a matter of places, per child: records on their way, in the call the child makes,
queued, with the worker, written or lost. A child has a record once (`OnceInv`), only when the
call is through with it (`DueInv`), and every one it was handed (`ServedInv`).

**Argument for the older console handler.** Each lock protects one thing, and three
invariants say which, each inductive given `TypeOK`: who is in Write holds `writeMu`
(`WriterInv`); who has an unwritten line in the shared buffer holds `mu` and the line
there is its own (`BufferInv`); Close comes behind its wait only when the worker is
gone, which never comes back (`CloseInv`). `OwnLine` is not inductive without the
mutex in `BufferInv`, nor `WriterExclusive` without that in `WriterInv`.

**Argument for the loggers.** `FieldsFixed` is not inductive: a builder may append in
place to an array that its loggers share. The lemma `InPlaceEffect` says whom that
leaves alone: all slices that end where the builder's does, or before. `RoomIsFree`
says that these are all there are: no logger that shares a builder's array reaches
behind it, and no two builders share one. It is preserved because `Built` hands over the
builder's own slice, because a builder only ever grows, and because `With`, `WithAttrs` and
`WithGroup` make their own array (`AllocatedEffect`). A `With` that appended to the
parent's slice would break it.

**Argument for the coarse clock.** `OnceInv`: at most one call is inside the Once, before
there is a time, and whoever has returned finds one; a logger with the clock comes
from such a call, or from another logger with it (`ReadyInv`), hence `ClockReady`.
`ClockMonotone` is not inductive: a store could bring back an old time. `TickInv` says
that there is one background goroutine and that what it has read is no older than
what is stored; it holds because the function under the Once stores before it starts
that goroutine.

**Argument for the line.** `LineDecodes` is about texts of any length, so it needs
induction over data. The library's induction theorems take an operator as a parameter,
which the provers cannot instantiate; but well-foundedness of `<` on the natural numbers
(`NatLessThanWellFounded`) can be used with a set. `Induction` says that a set of numbers
with 0 and with each successor is `Nat`, and a statement about all lengths becomes the
set of lengths it holds for. `ReadingEquation`, `ScannedEquation` and
`JoiningEquation` show in this way that the recursive functions satisfy their equations.

- `ReadConcat`: reading one text behind another is reading the second from where the
  first has left the reader.
- `ReadScanned` is the invariant of the loop of `appendJSONString`: what is in the buffer reads
  as the characters before `start`, and none of those from `start` on needs an escape.
  A loop that set `start` to the escaped character itself would break it.
  `ReadEscape` is the case of one escape and `ReadPlain` that of a prefix copied as it is.
  Together they give `ReadEscaped`.
- `Yields` says which strings and bare tokens a piece of a line adds to what a reader
  outside strings has found. It composes (`YieldsConcat`), so `YieldsQuoted`,
  `YieldsMember` and `YieldsJoined` give the line of a record from its pieces. Outside strings the
  reader takes only structural characters and literals, so `YieldsToken` is where the
  premise about floats is needed, and `YieldsPlain` where that about times is.
- `YieldsEntry` puts the pieces together; that the fields of an object are fields at all
  comes from the invariant of `FieldsFixed`.

**Only model-checked.** No safety property is. The provers do not do liveness:
`HandleReturns`, `QuietClose` and `AcceptedIsTaken` in
`AsyncConsole`, and `WriteReturns`, `DrainBounded` and `QuietClose` in `LegacyConsole`, are
checked by TLC under the fairness above.

## 5. What is not modelled, and what is left

Not modelled:
- The text layout of formatters, `GetCaller` and the caller in a JSON line, the constructors of
  fields, the benchmarks: wording, or no state.
- The level gate of `Logger`, a comparison of two numbers; the default logger and
  `SetDefault`; `Fatal` and `Panic`, which end the process or the goroutine behind `Handle`. Every
  state of `AsyncConsole` with a queued Fatal record is one where the process may end.
- The level mapping of the slog adapter, and its attributes that are groups.
- `Stats.Reset` and `GetSnapshot`, which read or clear one counter after the other.
- `MultiHandler.Close` and the `Close` of the synchronous console handler, which nothing in
  the handlers looks at.
- Formatters that are not BufferFormatters, in front of the newer handlers
  (`LegacyConsole` has both kinds).

What could come next, in this order:

1. `StatsSnapshot`: counters, `Reset` and snapshots that are not atomic.
2. `MultiHandler.Close` and the `Close` of its children, and a file child in `FanOut`.
