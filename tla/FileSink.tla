------------------------------- MODULE FileSink -------------------------------
(***************************************************************************)
(* fileBase (handler/filehandler/file.go) with its SyncFileHandler: a      *)
(* bufio.Writer in front of a log file that is rotated by size and age.    *)
(*                                                                         *)
(* Everything a call does happens under fileBase.mu, so calls do not       *)
(* interleave; a call is still taken apart into its operations on the file *)
(* system, because each of them can fail and the process can crash between *)
(* two of them.  File contents are sequences of bytes, and a byte knows    *)
(* the record it belongs to.  A crash is one of the process: what was      *)
(* written to a file stays, what bufio.Writer holds is lost.               *)
(***************************************************************************)
EXTENDS Integers, Sequences, FiniteSets, Functions

CONSTANTS
  MaxSize, MaxAge, RotateInterval, MaxBackups,  \* FileConfig; 0 is "off"
  Second,       \* ticks of the clock in a second
  Foreign,      \* names of files that others keep beside the log
  BufSize,      \* capacity of bufio.Writer (4096 in the code)
  MaxRecord,    \* bound: length of a formatted record
  FaultKinds,   \* operations that may fail
  MaxFaults, MaxCrashes, MaxWrites, MaxTime     \* bounds

Kinds == {"write", "sync", "close", "rename", "reopen", "remove", "open"}

ASSUME ConfigAssumption ==
  /\ MaxSize \in Nat /\ MaxAge \in Nat /\ RotateInterval \in Nat
  /\ MaxBackups \in Nat
  /\ BufSize \in Nat \ {0} /\ Second \in Nat \ {0}
(* No file of this kind has the second of a rotation in its name.          *)
ASSUME ForeignAssumption ==
  IsFiniteSet(Foreign) /\ \A f \in Foreign : f \in Int /\ f < 0
ASSUME BoundAssumption ==
  /\ MaxRecord \in Nat \ {0}
  /\ FaultKinds \subseteq Kinds
  /\ MaxFaults \in Nat /\ MaxCrashes \in Nat
  /\ MaxWrites \in Nat /\ MaxTime \in Nat

VARIABLES
  current,  \* contents of the log file
  backups,  \* contents of the rotated files, by the second of rotation
  h,        \* the fileBase
  step,     \* what the goroutine that holds mu is about to do
  pending,  \* the length of the record it writes
  closing,  \* what has become of Close
  now,      \* time in ticks; it never goes back
  env,      \* faults, crashes and writes so far
  past      \* history

disk == <<current, backups>>
vars == <<disk, h, step, pending, closing, now, env, past>>

RotateSteps == {"flush", "sync", "close", "rename", "reopen", "cleanup",
                "open"}
CloseSteps  == {"finalFlush", "finalSync", "finalClose"}
Steps == {"idle", "append", "down"} \cup RotateSteps \cup CloseSteps

(* The second in the name of a backup: limits on the age of a file are     *)
(* finer (time.Duration).                                                  *)
Stamp(t) == t \div Second

(* The fields that initFileBase sets and a rotation resets.                *)
Opened(size, t) == [fileOpen |-> TRUE,   \* b.file is open
                    sinkOpen |-> TRUE,   \* what sizeWriter writes to is open
                    buffer |-> <<>>, bufErr |-> FALSE,
                    currentSize |-> size, lastRotate |-> t]

Init ==
  /\ current = <<>> /\ backups = [t \in Foreign |-> <<>>]
  /\ h = Opened(0, 0)
  /\ step = "idle" /\ pending = 0
  /\ closing = "no"
  /\ now = 0
  /\ env = [faults |-> 0, crashes |-> 0, writes |-> 0]
  /\ past = [stream |-> <<>>,   \* bytes handed to bufio.Writer, in order
             shelved |-> <<>>,  \* bytes of all rotated files, in order
             removed |-> {},    \* those of them that no backup has any more
             toFlush |-> 0]     \* Len(stream) when Close was called

(* The bytes of the record that is being written.                          *)
Record == [k \in 1 .. pending |-> [rec |-> env.writes, last |-> k = pending]]

Fault(kind) ==
  /\ kind \in FaultKinds /\ env.faults < MaxFaults
  /\ env' = [env EXCEPT !.faults = @ + 1]

(* The call under way goes on, or returns.                                 *)
Goto(next) == step' = next /\ UNCHANGED <<pending, closing, now>>
Return == step' = "idle" /\ pending' = 0 /\ UNCHANGED <<closing, now>>

-----------------------------------------------------------------------------
(* A call of HandleLog or Handle: rotateIfNeeded, then one Write to the    *)
(* bufio.Writer.  Close does not stop it.                                  *)

SizeReached_Above == MaxSize > 0 /\ h.currentSize > MaxSize
SizeReached == MaxSize > 0 /\ h.currentSize >= MaxSize

AgeReached(limit) == limit > 0 /\ now - h.lastRotate >= limit

NeedRotate == SizeReached \/ AgeReached(MaxAge) \/ AgeReached(RotateInterval)

StartWrite(size) ==
  /\ step = "idle" /\ env.writes < MaxWrites
  /\ pending' = size
  /\ step' = IF NeedRotate THEN "flush" ELSE "append"
  /\ env' = [env EXCEPT !.writes = @ + 1]
  /\ UNCHANGED <<disk, h, closing, now, past>>

(* bufio.Writer.Write.  A record that does not fit fills the buffer, which *)
(* is then written out; what is left goes to the file directly when it is  *)
(* larger than the buffer.  An empty buffer is bypassed.                   *)
Fits(total) == Len(total) <= BufSize

Spilled(total) ==
  IF Fits(total) THEN 0
  ELSE IF h.buffer = <<>> \/ Len(total) > 2 * BufSize THEN Len(total)
  ELSE BufSize

AppendOK ==
  LET total == h.buffer \o Record
      n     == Spilled(total)
  IN  /\ step = "append" /\ ~h.bufErr /\ (n > 0 => h.sinkOpen)
      /\ current' = current \o SubSeq(total, 1, n)
      /\ h' = [h EXCEPT !.buffer = SubSeq(total, n + 1, Len(total)),
                        !.currentSize = @ + pending]
      /\ past' = [past EXCEPT !.stream = @ \o Record]
      /\ Return
      /\ UNCHANGED <<backups, env>>

(* A write to the file fails after j bytes; a closed file takes none.  The *)
(* error sticks to the bufio.Writer: it takes nothing any more.            *)
AppendFails ==
  LET total == h.buffer \o Record
  IN  /\ step = "append" /\ ~h.bufErr
      /\ \E j \in 0 .. Spilled(total) - 1 :
           /\ IF h.sinkOpen THEN Fault("write") ELSE j = 0 /\ UNCHANGED env
           /\ current' = current \o SubSeq(total, 1, j)
           /\ h' = [h EXCEPT !.bufErr = TRUE,
                             !.buffer = IF @ = <<>> THEN <<>>
                                        ELSE SubSeq(total, j + 1, BufSize)]
      /\ past' = [past EXCEPT !.stream = @ \o Record]
      /\ Return
      /\ UNCHANGED backups

AppendRefused ==
  /\ step = "append" /\ h.bufErr
  /\ Return
  /\ UNCHANGED <<disk, h, env, past>>

-----------------------------------------------------------------------------
(* rotate, and the flush, sync and close it shares with closeFile          *)

(* closeFile closes the file when it gives up, rotate does not.            *)
GiveUp(handler) ==
  IF step \in CloseSteps
  THEN [handler EXCEPT !.fileOpen = FALSE, !.sinkOpen = FALSE]
  ELSE handler

FlushOK_Skipped(from, next) ==
  /\ step = from
  /\ Goto(next)
  /\ UNCHANGED <<disk, h, env, past>>
FlushOK(from, next) ==
  /\ step = from /\ ~h.bufErr /\ (h.buffer # <<>> => h.sinkOpen)
  /\ current' = current \o h.buffer
  /\ h' = [h EXCEPT !.buffer = <<>>]
  /\ Goto(next)
  /\ UNCHANGED <<backups, env, past>>

FlushFails(from) ==
  /\ step = from
  /\ \/ h.bufErr /\ h' = GiveUp(h) /\ UNCHANGED <<current, env>>
     \/ /\ ~h.bufErr
        /\ \E j \in 0 .. Len(h.buffer) - 1 :
             /\ IF h.sinkOpen THEN Fault("write") ELSE j = 0 /\ UNCHANGED env
             /\ current' = current \o SubSeq(h.buffer, 1, j)
             /\ h' = GiveUp([h EXCEPT !.bufErr = TRUE,
                       !.buffer = SubSeq(@, j + 1, Len(@))])
  /\ Return
  /\ UNCHANGED <<backups, past>>

(* Sync fails on a closed file.                                            *)
Sync(from, next) ==
  /\ step = from
  /\ \/ h.fileOpen /\ Goto(next) /\ UNCHANGED <<h, env>>
     \/ /\ IF h.fileOpen THEN Fault("sync") ELSE UNCHANGED env
        /\ h' = GiveUp(h) /\ Return
  /\ UNCHANGED <<disk, past>>

(* os.File.Close closes the file also when it returns an error.            *)
CloseCurrent ==
  /\ step = "close"
  /\ h' = [h EXCEPT !.fileOpen = FALSE, !.sinkOpen = FALSE]
  /\ \/ Goto("rename") /\ UNCHANGED env
     \/ Fault("close") /\ Return
  /\ UNCHANGED <<disk, past>>

BytesIn(files) == UNION {Range(backups[t]) : t \in files}

(* A backup of the same second is replaced.                                *)
Rename ==
  /\ step = "rename"
  /\ current' = <<>>
  /\ backups' = [t \in DOMAIN backups \cup {Stamp(now)} |->
                    IF t = Stamp(now) THEN current ELSE backups[t]]
  /\ past' = [past EXCEPT !.shelved = @ \o current,
               !.removed = @ \cup BytesIn({Stamp(now)} \cap DOMAIN backups)]
  /\ Goto(IF MaxBackups > 0 THEN "cleanup" ELSE "open")
  /\ UNCHANGED <<h, env>>

RenameFails ==
  /\ step = "rename" /\ Fault("rename")
  /\ Goto("reopen")
  /\ UNCHANGED <<disk, h, past>>

(* The file is opened again, but sizeWriter keeps the closed one; rotate   *)
(* returns the error of the rename.                                        *)
Reopened_AsNew == [h EXCEPT !.fileOpen = TRUE, !.currentSize = 0]
Reopened == [h EXCEPT !.fileOpen = TRUE]

Reopen ==
  /\ step = "reopen"
  /\ \/ h' = Reopened /\ UNCHANGED env
     \/ Fault("reopen") /\ UNCHANGED h
  /\ Return
  /\ UNCHANGED <<disk, past>>

(* cleanupOldBackups: every file whose name begins with the name of the    *)
(* log counts, and the oldest are those modified first.  Backups were      *)
(* modified in the order of their names, foreign files at any time.        *)
Oldest_Newest(files, k) ==
  {old \in SUBSET files :
     /\ Cardinality(old) = k
     /\ \A f \in old \ Foreign, g \in files \ (old \cup Foreign) : f > g}
Oldest(files, k) ==
  {old \in SUBSET files :
     /\ Cardinality(old) = k
     /\ \A f \in old \ Foreign, g \in files \ (old \cup Foreign) : f < g}

(* The first Remove that fails ends it.                                    *)
Cleanup ==
  LET files  == DOMAIN backups
      excess == Cardinality(files) - MaxBackups
  IN  /\ step = "cleanup"
      /\ \E k \in 0 .. Cardinality(files) :
           /\ \/ k = excess /\ UNCHANGED env
              \/ k = 0 /\ excess < 0 /\ UNCHANGED env
              \/ k < excess /\ Fault("remove")
           /\ \E old \in Oldest(files, k) :
                /\ backups' = Restrict(backups, files \ old)
                /\ past' = [past EXCEPT !.removed = @ \cup BytesIn(old)]
      /\ Goto("open")
      /\ UNCHANGED <<current, h>>

Rotated_OldFile == [Opened(0, now) EXCEPT !.fileOpen = FALSE]
Rotated == Opened(0, now)

(* The new file.  When it cannot be opened the handler stays with a closed *)
(* one.                                                                    *)
OpenNew ==
  /\ step = "open"
  /\ \/ h' = Rotated /\ Goto("append") /\ UNCHANGED env
     \/ Fault("open") /\ Return /\ UNCHANGED h
  /\ UNCHANGED <<disk, past>>

-----------------------------------------------------------------------------
(* Close; a second call returns at once.                                   *)

StartClose ==
  /\ step = "idle" /\ closing = "no"
  /\ closing' = "called"
  /\ step' = "finalFlush"
  /\ past' = [past EXCEPT !.toFlush = Len(past.stream)]
  /\ UNCHANGED <<disk, h, pending, now, env>>

FinalClose ==
  /\ step = "finalClose"
  /\ h' = [h EXCEPT !.fileOpen = FALSE, !.sinkOpen = FALSE]
  /\ step' = "idle"
  /\ \/ closing' = "succeeded" /\ UNCHANGED env
     \/ Fault("close") /\ UNCHANGED closing
  /\ UNCHANGED <<disk, pending, now, past>>

-----------------------------------------------------------------------------
(* The environment                                                         *)

Tick == /\ now < MaxTime /\ now' = now + 1
        /\ UNCHANGED <<disk, h, step, pending, closing, env, past>>

(* The process ends, whatever it was doing.                                *)
Crash ==
  /\ step # "down" /\ env.crashes < MaxCrashes
  /\ step' = "down" /\ pending' = 0 /\ closing' = "no"
  /\ h' = [h EXCEPT !.fileOpen = FALSE, !.sinkOpen = FALSE, !.buffer = <<>>,
                    !.bufErr = FALSE]
  /\ env' = [env EXCEPT !.crashes = @ + 1]
  /\ past' = [past EXCEPT !.stream = past.shelved \o current]
  /\ UNCHANGED <<disk, now>>

FileSize == Len(current)

(* NewFileHandler: OpenFile and Stat of the log file that is there.        *)
Restart ==
  /\ step = "down"
  /\ step' = "idle"
  /\ h' = Opened(FileSize, now)
  /\ UNCHANGED <<disk, pending, closing, now, env, past>>

Rotate ==
  \/ FlushOK("flush", "sync") \/ FlushFails("flush") \/ Sync("sync", "close")
  \/ CloseCurrent \/ Rename \/ RenameFails \/ Reopen \/ Cleanup \/ OpenNew

CloseFile ==
  \/ FlushOK("finalFlush", "finalSync") \/ FlushFails("finalFlush")
  \/ Sync("finalSync", "finalClose") \/ FinalClose

(* The bounds are used up.                                                 *)
Terminated ==
  /\ step = "idle" /\ closing # "no"
  /\ env.writes = MaxWrites /\ now = MaxTime

Next ==
  \/ \E size \in 1 .. MaxRecord : StartWrite(size)
  \/ Rotate \/ AppendOK \/ AppendFails \/ AppendRefused
  \/ StartClose \/ CloseFile
  \/ Tick \/ Crash \/ Restart
  \/ Terminated /\ UNCHANGED vars

Spec == Init /\ [][Next]_vars
-----------------------------------------------------------------------------
(* Properties                                                              *)

Byte == [rec : Nat, last : BOOLEAN]

FilesType ==
  /\ current \in Seq(Byte)
  /\ \A t \in DOMAIN backups : t \in Int /\ backups[t] \in Seq(Byte)
Handlers == [fileOpen : BOOLEAN, sinkOpen : BOOLEAN, buffer : Seq(Byte),
             bufErr : BOOLEAN, currentSize : Nat, lastRotate : Nat]
HandlerType ==
  /\ h \in Handlers /\ Len(h.buffer) <= BufSize
  /\ h.sinkOpen => h.fileOpen
CallType ==
  /\ step \in Steps /\ pending \in 0 .. MaxRecord
  /\ closing \in {"no", "called", "succeeded"}
EnvType ==
  /\ now \in 0 .. MaxTime
  /\ env \in [faults : 0 .. MaxFaults, crashes : 0 .. MaxCrashes,
              writes : 0 .. MaxWrites]
HistoryType ==
  past \in [stream : Seq(Byte), shelved : Seq(Byte), removed : SUBSET Byte,
            toFlush : Nat]

(* Every variable stays in its type; bufio.Writer never holds more than    *)
(* its capacity, and while it can write to the file, b.file is that file.  *)
TypeOK == FilesType /\ HandlerType /\ CallType /\ EnvType /\ HistoryType

Prefix(s, t) == Len(s) <= Len(t) /\ SubSeq(t, 1, Len(s)) = s
Suffix(s, t) == /\ Len(s) <= Len(t)
                /\ SubSeq(t, Len(t) - Len(s) + 1, Len(t)) = s

(* Rotated out, in the current file, in the buffer: in this order that is  *)
(* all the handler was given, without a gap, a repetition or a swap.  Only *)
(* an error of the file system may cut off the end; what a crash cuts off  *)
(* is no longer expected.                                                  *)
InOrder ==
  LET kept == past.shelved \o current \o h.buffer
  IN  Prefix(kept, past.stream) /\ (~h.bufErr => kept = past.stream)

(* Rotation does not tear a record apart: as long as nothing fails, a      *)
(* backup ends where a record ends.                                        *)
WholeRecords ==
  env.faults + env.crashes = 0 =>
    \A t \in DOMAIN backups \ Foreign :
      LET b == backups[t] IN b # <<>> => b[Len(b)].last

(* While the log file is open, currentSize, which decides about rotation,  *)
(* is the size it has once the buffer is flushed: after a restart, after a *)
(* rotation and after a rename that failed, when b.file is open again and  *)
(* sizeWriter still has the closed file.                                   *)
SizeAccount ==
  (h.fileOpen /\ ~h.bufErr) =>
    h.currentSize = Len(current) + Len(h.buffer)

(* No log file outgrows MaxSize by a whole record, whatever fails.         *)
FileBound ==
  MaxSize > 0 =>
    /\ Len(current) + Len(h.buffer) < MaxSize + MaxRecord
    /\ \A t \in DOMAIN backups :
         Len(backups[t]) < MaxSize + MaxRecord

(* The newest backup, with what was rotated out last, is there as long as  *)
(* fewer than MaxBackups foreign files are beside it: cleanupOldBackups    *)
(* counts them, and a newer foreign file would stay in its place.          *)
NewestBackupKept ==
  (past.shelved # <<>> /\ (MaxBackups = 0 \/ Cardinality(Foreign) < MaxBackups))
    => \E t \in DOMAIN backups \ Foreign :
         /\ \A u \in DOMAIN backups : u <= t
         /\ Suffix(backups[t], past.shelved)

(* What one step may do to a backup: a cleanup takes it and leaves         *)
(* MaxBackups files that are newer or foreign, or a rotation in its second *)
(* replaces it, one by size or by a limit on the age below a second.       *)
Untouched(t) == t \in DOMAIN backups' /\ backups'[t] = backups[t]
CleanedUp(t) ==
  /\ step = "cleanup" /\ t \notin DOMAIN backups' /\ MaxBackups > 0
  /\ \A u \in DOMAIN backups' : u > t \/ u \in Foreign
  /\ Cardinality(DOMAIN backups') >= MaxBackups
QuickAge ==
  \E limit \in {MaxAge, RotateInterval} : limit < Second /\ AgeReached(limit)
Replaced(t) ==
  step = "rename" /\ t = Stamp(now) /\ (SizeReached \/ QuickAge)

(* Otherwise a backup stays as it is, whatever fails: a limit of a second  *)
(* or more counts from a second that no backup is behind.                  *)
BackupsStay ==
  [][\A t \in DOMAIN backups :
       Untouched(t) \/ CleanedUp(t) \/ Replaced(t)]_vars

(* After a rename that failed, sizeWriter writes to a file that is closed  *)
(* (rotate replaces b.file only).  No record gets there: each call tries   *)
(* to rotate first until it succeeds.                                      *)
AppendsToOpenFile ==
  (step = "append" /\ closing = "no") => h.sinkOpen /\ h.fileOpen

(* When Close returns nil, all the handler was given before has been       *)
(* written out, to the log file or to a file rotated out since.            *)
CloseFlushes ==
  closing = "succeeded" =>
    Len(past.shelved) + Len(current) >= past.toFlush

(* file.go, MaxBackups: "the maximum number of old log files to retain     *)
(* (0 = keep all)": with 0, no byte that was rotated out disappears.  The  *)
(* code keeps this under a condition only: a rotation in the second of     *)
(* another one replaces its backup (Replaced).                             *)
AllBackupsKept == MaxBackups = 0 => past.removed = {}

==============================================================================
