---------------------------- MODULE FileSinkProofs ----------------------------
(***************************************************************************)
(* Theorems about FileSink: types, the account of sizes, bounded files, no *)
(* write to a closed file, the order and completeness of the bytes, and    *)
(* what becomes of the backups.                                            *)
(***************************************************************************)
EXTENDS FileSink, SequenceTheorems, FiniteSetTheorems, TLAPS

-----------------------------------------------------------------------------
(* Sequences of bytes                                                      *)

(* A section of a sequence of bytes is one, of the length one expects.     *)
LEMMA Section ==
  ASSUME NEW s \in Seq(Byte), NEW i \in Nat, NEW j \in Nat,
         1 <= i, i <= j + 1, j <= Len(s)
  PROVE  SubSeq(s, i, j) \in Seq(Byte) /\ Len(SubSeq(s, i, j)) = j - i + 1
<1>1. \A k \in i .. j : s[k] \in Byte
  BY ElementOfSeq, SMT
<1>2. i \in Int /\ j \in Int
  OBVIOUS
<1> QED
  BY <1>1, <1>2, SubSeqProperties, SMT

LEMMA Joined ==
  ASSUME NEW s \in Seq(Byte), NEW t \in Seq(Byte)
  PROVE  s \o t \in Seq(Byte) /\ Len(s \o t) = Len(s) + Len(t)
BY ConcatProperties

LEMMA Associative ==
  ASSUME NEW s \in Seq(Byte), NEW t \in Seq(Byte), NEW u \in Seq(Byte)
  PROVE  (s \o t) \o u = s \o (t \o u)
BY ConcatAssociative

LEMMA NothingWritten == <<>> \in Seq(Byte) /\ Len(<<>>) = 0
BY EmptySeq

LEMMA LengthType == ASSUME NEW s \in Seq(Byte) PROVE Len(s) \in Nat
BY LenProperties

(* Two adjacent pieces of a sequence.                                      *)
LEMMA Cut ==
  ASSUME NEW s \in Seq(Byte), NEW n \in 0 .. Len(s), NEW m \in n .. Len(s)
  PROVE  /\ SubSeq(s, 1, n) \in Seq(Byte) /\ Len(SubSeq(s, 1, n)) = n
         /\ SubSeq(s, n + 1, m) \in Seq(Byte)
         /\ Len(SubSeq(s, n + 1, m)) = m - n
         /\ SubSeq(s, 1, n) \o SubSeq(s, n + 1, m) = SubSeq(s, 1, m)
<1>1. Len(s) \in Nat
  BY LengthType
<1>2. /\ n \in Nat /\ n + 1 \in Nat /\ n <= Len(s)
      /\ m \in Nat /\ n <= m /\ m <= Len(s)
  BY <1>1
<1>3. SubSeq(s, 1, n) \in Seq(Byte) /\ Len(SubSeq(s, 1, n)) = n - 1 + 1
  BY <1>1, <1>2, Section
<1>4. /\ SubSeq(s, n + 1, m) \in Seq(Byte)
      /\ Len(SubSeq(s, n + 1, m)) = m - (n + 1) + 1
  BY <1>1, <1>2, Section
<1>5. /\ 1 \in 1 .. Len(s) + 1 /\ n \in 1 - 1 .. Len(s)
  BY <1>1, <1>2
<1>6. SubSeq(s, 1, n) \o SubSeq(s, n + 1, m) = SubSeq(s, 1, m)
  BY <1>5, ConcatAdjacentSubSeq
<1> QED
  BY <1>1, <1>2, <1>3, <1>4, <1>6

(* The whole is the sum of its two pieces.                                 *)
LEMMA Split ==
  ASSUME NEW s \in Seq(Byte), NEW n \in 0 .. Len(s)
  PROVE  /\ SubSeq(s, 1, n) \in Seq(Byte) /\ Len(SubSeq(s, 1, n)) = n
         /\ SubSeq(s, n + 1, Len(s)) \in Seq(Byte)
         /\ Len(SubSeq(s, n + 1, Len(s))) = Len(s) - n
         /\ SubSeq(s, 1, n) \o SubSeq(s, n + 1, Len(s)) = s
<1>1. Len(s) \in Nat
  BY LengthType
<1>2. Len(s) \in n .. Len(s)
  BY <1>1
<1>3. SubSeq(s, 1, Len(s)) = s
  BY SubSeqFull
<1> QED
  BY <1>2, <1>3, Cut

(* The record that is being written has the length it is said to have.     *)
LEMMA RecordType ==
  ASSUME pending \in Nat, env.writes \in Nat
  PROVE  Record \in Seq(Byte) /\ Len(Record) = pending
BY DEF Record, Byte

(* What bufio.Writer is left with fits in its buffer.                      *)
LEMMA SpilledRange ==
  ASSUME NEW total \in Seq(Byte)
  PROVE  /\ Spilled(total) \in 0 .. Len(total)
         /\ Len(total) - Spilled(total) <= BufSize
         /\ Spilled(total) > 0 => Len(total) > BufSize
<1>1. Len(total) \in Nat
  BY LenProperties
<1> QED
  BY <1>1, ConfigAssumption, SMT DEF Spilled, Fits

-----------------------------------------------------------------------------
(* Where the operations put the bytes                                      *)

(* What is in the file and in the buffer, in the order of the file.        *)
Held == current \o h.buffer

(* What bufio.Writer is given to arrange: its buffer and the record.       *)
Total == h.buffer \o Record

LEMMA TotalType ==
  ASSUME TypeOK
  PROVE  /\ Total \in Seq(Byte)
         /\ Len(Total) = Len(h.buffer) + pending
         /\ Len(h.buffer) \in Nat /\ pending \in Nat
<1>1. Record \in Seq(Byte) /\ Len(Record) = pending
  BY RecordType, BoundAssumption DEF TypeOK, CallType, EnvType
<1>2. h.buffer \in Seq(Byte) /\ pending \in Nat
  BY BoundAssumption DEF TypeOK, HandlerType, Handlers, CallType
<1> QED
  BY <1>1, <1>2, Joined, LengthType DEF Total

(* A Write that succeeds keeps all it was given.                           *)
LEMMA AppendOKEffect ==
  ASSUME TypeOK, AppendOK
  PROVE  /\ current' \in Seq(Byte) /\ h'.buffer \in Seq(Byte)
         /\ Len(h'.buffer) <= BufSize
         /\ Held' = current \o Total
<1> DEFINE n == Spilled(Total)
<1>1. Total \in Seq(Byte) /\ current \in Seq(Byte)
  BY TotalType DEF TypeOK, FilesType, HandlerType, Handlers, HistoryType
<1>2. n \in 0 .. Len(Total) /\ Len(Total) - n <= BufSize
  BY <1>1, SpilledRange
<1>3. /\ current' = current \o SubSeq(Total, 1, n)
      /\ h'.buffer = SubSeq(Total, n + 1, Len(Total))
  BY DEF AppendOK, TypeOK, HandlerType, Handlers, Total
<1>4. /\ SubSeq(Total, 1, n) \in Seq(Byte)
      /\ SubSeq(Total, n + 1, Len(Total)) \in Seq(Byte)
      /\ Len(SubSeq(Total, n + 1, Len(Total))) = Len(Total) - n
      /\ SubSeq(Total, 1, n) \o SubSeq(Total, n + 1, Len(Total)) = Total
  BY <1>1, <1>2, Split
<1>5. current' \in Seq(Byte)
  BY <1>1, <1>3, <1>4, Joined
<1>6. Held' = current \o Total
  <2>1. Held' = (current \o SubSeq(Total, 1, n))
                  \o SubSeq(Total, n + 1, Len(Total))
    BY <1>3 DEF Held
  <2>2. (current \o SubSeq(Total, 1, n))
         \o SubSeq(Total, n + 1, Len(Total))
       = current \o (SubSeq(Total, 1, n)
         \o SubSeq(Total, n + 1, Len(Total)))
    BY <1>1, <1>4, Associative
  <2> QED
    BY <1>4, <2>1, <2>2
<1> QED
  BY <1>2, <1>3, <1>4, <1>5, <1>6

(* A Write that fails keeps a beginning of it.                             *)
LEMMA AppendFailsEffect ==
  ASSUME TypeOK, AppendFails
  PROVE  /\ current' \in Seq(Byte) /\ h'.buffer \in Seq(Byte)
         /\ Len(h'.buffer) <= BufSize
         /\ \E m \in 0 .. Len(Total) :
              Held' = current \o SubSeq(Total, 1, m)
<1>1. /\ Total \in Seq(Byte) /\ current \in Seq(Byte)
      /\ h.buffer \in Seq(Byte) /\ Len(Total) \in Nat
  BY TotalType, LengthType DEF TypeOK, FilesType, HandlerType, Handlers
<1>2. PICK j \in 0 .. Spilled(Total) - 1 :
        /\ current' = current \o SubSeq(Total, 1, j)
        /\ h'.buffer = IF h.buffer = <<>> THEN <<>>
                        ELSE SubSeq(Total, j + 1, BufSize)
  BY DEF AppendFails, TypeOK, HandlerType, Handlers, Total
<1>3. /\ Spilled(Total) \in 0 .. Len(Total)
      /\ Spilled(Total) > 0 => Len(Total) > BufSize
  BY <1>1, SpilledRange
<1>4. /\ j \in 0 .. Len(Total) /\ j \in Nat
      /\ Len(Total) > BufSize /\ BufSize \in Nat
  BY <1>1, <1>3, ConfigAssumption
<1>5. SubSeq(Total, 1, j) \in Seq(Byte)
  BY <1>1, <1>4, Split
<1>6. current' \in Seq(Byte)
  BY <1>1, <1>2, <1>5, Joined
<1>7. CASE h'.buffer = <<>>
  <2>1. Held' = current \o SubSeq(Total, 1, j)
    BY <1>2, <1>6, <1>7, ConcatEmptySeq DEF Held
  <2> QED
    BY <1>4, <1>6, <1>7, <2>1, NothingWritten
<1>8. CASE h'.buffer # <<>>
  <2>1. h'.buffer = SubSeq(Total, j + 1, BufSize)
    BY <1>2, <1>8
  <2>2. j <= BufSize
    BY <1>4, <1>8, <2>1, SubSeqEmpty
  <2>3. BufSize \in j .. Len(Total) /\ BufSize \in 0 .. Len(Total)
    BY <1>1, <1>4, <2>2
  <2>4. /\ SubSeq(Total, j + 1, BufSize) \in Seq(Byte)
        /\ Len(SubSeq(Total, j + 1, BufSize)) = BufSize - j
        /\ SubSeq(Total, 1, j) \o SubSeq(Total, j + 1, BufSize)
             = SubSeq(Total, 1, BufSize)
    BY <1>1, <1>4, <2>3, Cut
  <2>5. Held' = current \o SubSeq(Total, 1, BufSize)
    <3>1. Held' = (current \o SubSeq(Total, 1, j))
                    \o SubSeq(Total, j + 1, BufSize)
      BY <1>2, <2>1 DEF Held
    <3>2. (current \o SubSeq(Total, 1, j))
           \o SubSeq(Total, j + 1, BufSize)
         = current \o (SubSeq(Total, 1, j)
           \o SubSeq(Total, j + 1, BufSize))
      BY <1>1, <1>5, <2>4, Associative
    <3> QED
      BY <2>4, <3>1, <3>2
  <2>6. Len(h'.buffer) <= BufSize
    BY <1>4, <2>1, <2>4
  <2> QED
    BY <1>6, <2>1, <2>3, <2>4, <2>5, <2>6
<1> QED
  BY <1>7, <1>8

(* A Flush moves the buffer to the file, or a part of it.                  *)
LEMMA FlushOKEffect ==
  ASSUME TypeOK, NEW from, NEW next, FlushOK(from, next)
  PROVE  /\ current' \in Seq(Byte) /\ h'.buffer = <<>>
         /\ current' = Held /\ Held' = Held
<1>1. current \in Seq(Byte) /\ h.buffer \in Seq(Byte)
  BY DEF TypeOK, FilesType, HandlerType, Handlers, HistoryType
<1>2. current' = Held /\ h'.buffer = <<>>
  BY DEF FlushOK, Held, TypeOK, HandlerType, Handlers
<1>3. Held \in Seq(Byte)
  BY <1>1, Joined DEF Held
<1>4. Held' = Held
  BY <1>2, <1>3, ConcatEmptySeq DEF Held
<1> QED
  BY <1>2, <1>3, <1>4

LEMMA FlushFailsEffect ==
  ASSUME TypeOK, NEW from, FlushFails(from)
  PROVE  /\ current' \in Seq(Byte) /\ h'.buffer \in Seq(Byte)
         /\ Len(h'.buffer) <= BufSize
         /\ Held' = Held /\ h'.bufErr
<1>1. /\ current \in Seq(Byte) /\ h.buffer \in Seq(Byte)
      /\ Len(h.buffer) <= BufSize /\ Len(h.buffer) \in Nat
  BY LengthType DEF TypeOK, FilesType, HandlerType, Handlers
<1>2. CASE h.bufErr /\ h' = GiveUp(h) /\ current' = current
  <2>1. h'.buffer = h.buffer /\ h'.bufErr
    BY <1>2 DEF GiveUp, TypeOK, HandlerType, Handlers
  <2> QED
    BY <1>1, <1>2, <2>1 DEF Held
<1>3. CASE ~ h.bufErr
  <2>1. PICK j \in 0 .. Len(h.buffer) - 1 :
          /\ current' = current \o SubSeq(h.buffer, 1, j)
          /\ h' = GiveUp([h EXCEPT !.bufErr = TRUE,
                     !.buffer = SubSeq(@, j + 1, Len(@))])
    BY <1>3 DEF FlushFails
  <2>2. h'.buffer = SubSeq(h.buffer, j + 1, Len(h.buffer)) /\ h'.bufErr
    BY <2>1 DEF GiveUp, TypeOK, HandlerType, Handlers
  <2>3. j \in 0 .. Len(h.buffer)
    BY <1>1
  <2>4. /\ SubSeq(h.buffer, 1, j) \in Seq(Byte)
        /\ SubSeq(h.buffer, j + 1, Len(h.buffer)) \in Seq(Byte)
        /\ Len(SubSeq(h.buffer, j + 1, Len(h.buffer))) = Len(h.buffer) - j
        /\ SubSeq(h.buffer, 1, j) \o SubSeq(h.buffer, j + 1, Len(h.buffer))
             = h.buffer
    BY <1>1, <2>3, Split
  <2>5. current' \in Seq(Byte)
    BY <1>1, <2>1, <2>4, Joined
  <2>6. Held' = Held
    <3>1. Held' = (current \o SubSeq(h.buffer, 1, j))
                    \o SubSeq(h.buffer, j + 1, Len(h.buffer))
      BY <2>1, <2>2 DEF Held
    <3>2. (current \o SubSeq(h.buffer, 1, j))
           \o SubSeq(h.buffer, j + 1, Len(h.buffer))
         = current \o (SubSeq(h.buffer, 1, j)
           \o SubSeq(h.buffer, j + 1, Len(h.buffer)))
      BY <1>1, <2>4, Associative
    <3> QED
      BY <2>4, <3>1, <3>2 DEF Held
  <2>7. Len(h'.buffer) <= BufSize
    BY <1>1, <2>2, <2>3, <2>4, ConfigAssumption
  <2> QED
    BY <2>2, <2>4, <2>5, <2>6, <2>7
<1> QED
  BY <1>2, <1>3 DEF FlushFails

-----------------------------------------------------------------------------
(* Types                                                                   *)

LEMMA FaultType ==
  ASSUME EnvType, NEW kind, Fault(kind), UNCHANGED now
  PROVE  EnvType'
BY BoundAssumption DEF EnvType, Fault

(* An empty buffer fits.                                                   *)
LEMMA EmptyType ==
  ASSUME h' \in Handlers, h'.buffer = <<>>, h'.sinkOpen => h'.fileOpen
  PROVE  HandlerType'
BY NothingWritten, ConfigAssumption DEF HandlerType

LEMMA GiveUpType ==
  ASSUME HandlerType, h' = h \/ h' = GiveUp(h)
  PROVE  HandlerType' /\ h'.buffer = h.buffer /\ h'.bufErr = h.bufErr
BY DEF HandlerType, Handlers, GiveUp

LEMMA StartWriteType ==
  ASSUME TypeOK, NEW size \in 1 .. MaxRecord, StartWrite(size)
  PROVE  TypeOK'
<1> USE DEF TypeOK
<1>1. FilesType'
  BY DEF FilesType, StartWrite, disk
<1>2. HandlerType'
  BY DEF HandlerType, Handlers, StartWrite
<1>3. CallType'
  BY BoundAssumption DEF CallType, StartWrite, Steps, RotateSteps, CloseSteps
<1>4. EnvType'
  BY BoundAssumption DEF EnvType, StartWrite
<1>5. HistoryType'
  BY DEF HistoryType, StartWrite
<1> QED
  BY <1>1, <1>2, <1>3, <1>4, <1>5

LEMMA AppendOKType ==
  ASSUME TypeOK, AppendOK
  PROVE  TypeOK'
<1> USE DEF TypeOK
<1>1. /\ current' \in Seq(Byte) /\ h'.buffer \in Seq(Byte)
      /\ Len(h'.buffer) <= BufSize
  BY AppendOKEffect
<1>2. /\ Record \in Seq(Byte) /\ pending \in Nat
      /\ past.stream \in Seq(Byte)
  BY RecordType, BoundAssumption DEF CallType, EnvType, HistoryType
<1>3. past.stream \o Record \in Seq(Byte)
  BY <1>2, Joined
<1>4. FilesType'
  BY <1>1 DEF FilesType, AppendOK, Return
<1>5. HandlerType'
  <2>1. PICK b, c : /\ c = h.currentSize + pending
                    /\ h' = [h EXCEPT !.buffer = b, !.currentSize = c]
    BY DEF AppendOK
  <2>2. b \in Seq(Byte) /\ c \in Nat
    BY <1>1, <1>2, <2>1 DEF HandlerType, Handlers
  <2>3. h' \in Handlers /\ (h'.sinkOpen => h'.fileOpen)
    BY <2>1, <2>2 DEF HandlerType, Handlers
  <2> QED
    BY <1>1, <2>3 DEF HandlerType
<1>6. CallType'
  BY BoundAssumption DEF CallType, AppendOK, Return, Steps
<1>7. EnvType'
  BY DEF EnvType, AppendOK, Return
<1>8. HistoryType'
  BY <1>3 DEF HistoryType, AppendOK, Return
<1> QED
  BY <1>4, <1>5, <1>6, <1>7, <1>8

LEMMA AppendFailsType ==
  ASSUME TypeOK, AppendFails
  PROVE  TypeOK'
<1> USE DEF TypeOK
<1>1. /\ current' \in Seq(Byte) /\ h'.buffer \in Seq(Byte)
      /\ Len(h'.buffer) <= BufSize
  BY AppendFailsEffect
<1>2. /\ Record \in Seq(Byte) /\ pending \in Nat
      /\ past.stream \in Seq(Byte)
  BY RecordType, BoundAssumption DEF CallType, EnvType, HistoryType
<1>3. past.stream \o Record \in Seq(Byte)
  BY <1>2, Joined
<1>4. FilesType'
  BY <1>1 DEF FilesType, AppendFails, Return
<1>5. HandlerType'
  BY <1>1, <1>2 DEF HandlerType, Handlers, AppendFails, Return
<1>6. CallType'
  BY BoundAssumption DEF CallType, AppendFails, Return, Steps
<1>7. EnvType'
  BY FaultType DEF EnvType, AppendFails, Return
<1>8. HistoryType'
  BY <1>3 DEF HistoryType, AppendFails, Return
<1> QED
  BY <1>4, <1>5, <1>6, <1>7, <1>8

LEMMA FlushOKType ==
  ASSUME TypeOK, NEW from, NEW next \in Steps, FlushOK(from, next)
  PROVE  TypeOK'
<1> USE DEF TypeOK
<1>1. current' \in Seq(Byte)
  BY FlushOKEffect
<1>2. FilesType'
  BY <1>1 DEF FilesType, FlushOK, Goto
<1>3. HandlerType'
  BY EmptyType, NothingWritten DEF HandlerType, Handlers, FlushOK
<1>4. CallType'
  BY DEF CallType, FlushOK, Goto
<1>5. EnvType'
  BY DEF EnvType, FlushOK, Goto
<1>6. HistoryType'
  BY DEF HistoryType, FlushOK, Goto
<1> QED
  BY <1>2, <1>3, <1>4, <1>5, <1>6

LEMMA FlushFailsType ==
  ASSUME TypeOK, NEW from, FlushFails(from)
  PROVE  TypeOK'
<1> USE DEF TypeOK
<1>1. /\ current' \in Seq(Byte) /\ h'.buffer \in Seq(Byte)
      /\ Len(h'.buffer) <= BufSize
  BY FlushFailsEffect
<1>2. FilesType'
  BY <1>1 DEF FilesType, FlushFails, Return
<1>3. HandlerType'
  BY <1>1 DEF HandlerType, Handlers, FlushFails, Return, GiveUp
<1>4. CallType'
  <2>1. Return
    BY DEF FlushFails
  <2> QED
    BY <2>1, BoundAssumption DEF CallType, Return, Steps
<1>5. EnvType'
  BY FaultType DEF EnvType, FlushFails, Return
<1>6. HistoryType'
  BY DEF HistoryType, FlushFails, Return
<1> QED
  BY <1>2, <1>3, <1>4, <1>5, <1>6

LEMMA SyncType ==
  ASSUME TypeOK, NEW from, NEW next \in Steps, Sync(from, next)
  PROVE  TypeOK'
<1> USE DEF TypeOK
<1>1. FilesType'
  BY DEF FilesType, Sync, Goto, Return, disk
<1>2. HandlerType'
  BY GiveUpType DEF HandlerType, Handlers, Sync, Goto, Return
<1>3. CallType'
  BY BoundAssumption DEF CallType, Sync, Goto, Return, Steps
<1>4. EnvType'
  BY FaultType DEF EnvType, Sync, Goto, Return
<1>5. HistoryType'
  BY DEF HistoryType, Sync, Goto, Return
<1> QED
  BY <1>1, <1>2, <1>3, <1>4, <1>5

LEMMA CloseCurrentType ==
  ASSUME TypeOK, CloseCurrent
  PROVE  TypeOK'
<1> USE DEF TypeOK
<1>1. FilesType'
  BY DEF FilesType, CloseCurrent, Goto, Return, disk
<1>2. HandlerType'
  BY DEF HandlerType, Handlers, CloseCurrent, Goto, Return
<1>3. CallType'
  BY BoundAssumption
     DEF CallType, CloseCurrent, Goto, Return, Steps, RotateSteps
<1>4. EnvType'
  BY FaultType DEF EnvType, CloseCurrent, Goto, Return
<1>5. HistoryType'
  BY DEF HistoryType, CloseCurrent, Goto, Return
<1> QED
  BY <1>1, <1>2, <1>3, <1>4, <1>5

(* The bytes of backups are bytes, and the names of backups numbers.       *)
LEMMA BytesInType ==
  ASSUME FilesType, NEW files, files \subseteq DOMAIN backups
  PROVE  BytesIn(files) \subseteq Byte
<1>1. ASSUME NEW t \in files PROVE Range(backups[t]) \subseteq Byte
  <2>p. PICK b : b = backups[t]
    OBVIOUS
  <2>1. b \in Seq(Byte)
    BY <2>p DEF FilesType
  <2>2. \A i \in DOMAIN b : b[i] \in Byte
    BY <2>1, ElementOfSeq, LenProperties
  <2> QED
    BY <2>p, <2>2 DEF Range
<1> QED
  BY <1>1 DEF BytesIn

LEMMA StampType ==
  ASSUME NEW t \in Nat
  PROVE  Stamp(t) \in Nat
BY ConfigAssumption, SMT DEF Stamp

LEMMA RenameType ==
  ASSUME TypeOK, Rename
  PROVE  TypeOK'
<1> USE DEF TypeOK
<1>1. past.shelved \o current \in Seq(Byte)
  BY Joined DEF FilesType, HistoryType
<1>2. FilesType'
  <2>1. Stamp(now) \in Int
    BY StampType, BoundAssumption DEF EnvType
  <2>2. /\ current' = <<>>
        /\ backups' = [t \in DOMAIN backups \cup {Stamp(now)} |->
                         IF t = Stamp(now) THEN current ELSE backups[t]]
    BY DEF Rename
  <2> HIDE DEF TypeOK
  <2>3. ASSUME NEW t \in DOMAIN backups'
        PROVE  t \in Int /\ backups'[t] \in Seq(Byte)
    BY <2>1, <2>2, <2>3 DEF TypeOK, FilesType
  <2> QED
    BY <2>2, <2>3, NothingWritten DEF FilesType
<1>3. HandlerType'
  BY DEF HandlerType, Handlers, Rename, Goto
<1>4. CallType'
  BY DEF CallType, Rename, Goto, Steps, RotateSteps
<1>5. EnvType'
  BY DEF EnvType, Rename, Goto
<1>6. HistoryType'
  <2>1. BytesIn({Stamp(now)} \cap DOMAIN backups) \subseteq Byte
    BY BytesInType
  <2>2. PICK x, y : /\ x = past.shelved \o current
                    /\ y = BytesIn({Stamp(now)} \cap DOMAIN backups)
    OBVIOUS
  <2>3. past' = [past EXCEPT !.shelved = x, !.removed = @ \cup y]
    BY <2>2 DEF Rename
  <2> QED
    BY <1>1, <2>1, <2>2, <2>3 DEF HistoryType
<1> QED
  BY <1>2, <1>3, <1>4, <1>5, <1>6

LEMMA RenameFailsType ==
  ASSUME TypeOK, RenameFails
  PROVE  TypeOK'
<1> USE DEF TypeOK
<1>1. FilesType'
  BY DEF FilesType, RenameFails, Goto, disk
<1>2. HandlerType'
  BY DEF HandlerType, Handlers, RenameFails, Goto
<1>3. CallType'
  BY DEF CallType, RenameFails, Goto, Steps, RotateSteps
<1>4. EnvType'
  BY FaultType DEF EnvType, RenameFails, Goto
<1>5. HistoryType'
  BY DEF HistoryType, RenameFails, Goto
<1> QED
  BY <1>1, <1>2, <1>3, <1>4, <1>5

LEMMA ReopenType ==
  ASSUME TypeOK, Reopen
  PROVE  TypeOK'
<1> USE DEF TypeOK
<1>1. FilesType'
  BY DEF FilesType, Reopen, Return, disk
<1>2. HandlerType'
  BY DEF HandlerType, Handlers, Reopen, Return, Reopened
<1>3. CallType'
  BY BoundAssumption DEF CallType, Reopen, Return, Steps
<1>4. EnvType'
  BY FaultType DEF EnvType, Reopen, Return
<1>5. HistoryType'
  BY DEF HistoryType, Reopen, Return
<1> QED
  BY <1>1, <1>2, <1>3, <1>4, <1>5

(* What a cleanup does: old is what it takes.                              *)
LEMMA CleanupEffect ==
  ASSUME Cleanup, IsFiniteSet(DOMAIN backups)
  PROVE  \E old \in SUBSET DOMAIN backups :
           /\ DOMAIN backups' = DOMAIN backups \ old
           /\ \A t \in DOMAIN backups' : backups'[t] = backups[t]
           /\ past' = [past EXCEPT !.removed = @ \cup BytesIn(old)]
           /\ \/ old = {}
              \/ Cardinality(DOMAIN backups \ old) >= MaxBackups
           /\ \A f \in old \ Foreign,
                 g \in DOMAIN backups \ (old \cup Foreign) : f < g
<1> DEFINE files == DOMAIN backups
<1>1. PICK k \in 0 .. Cardinality(files) :
        /\ \/ k = Cardinality(files) - MaxBackups
           \/ k = 0
           \/ k < Cardinality(files) - MaxBackups
        /\ \E old \in Oldest(files, k) :
             /\ backups' = Restrict(backups, files \ old)
             /\ past' = [past EXCEPT !.removed = @ \cup BytesIn(old)]
  BY DEF Cleanup
<1>2. PICK old \in Oldest(files, k) :
        /\ backups' = Restrict(backups, files \ old)
        /\ past' = [past EXCEPT !.removed = @ \cup BytesIn(old)]
  BY <1>1
<1>3. /\ old \in SUBSET files /\ Cardinality(old) = k
      /\ \A f \in old \ Foreign, g \in files \ (old \cup Foreign) : f < g
  BY <1>2 DEF Oldest
<1>4. /\ DOMAIN backups' = files \ old
      /\ \A t \in DOMAIN backups' : backups'[t] = backups[t]
  BY <1>2 DEF Restrict
<1>5. old = {} \/ Cardinality(files \ old) >= MaxBackups
  <2>1. /\ IsFiniteSet(files) /\ IsFiniteSet(old)
        /\ Cardinality(files) \in Nat /\ Cardinality(old) \in Nat
    BY <1>3, FS_Subset, FS_CardinalityType
  <2>2. files \cap old = old
    BY <1>3
  <2>3. Cardinality(files \ old)
          = Cardinality(files) - Cardinality(files \cap old)
    BY <2>1, FS_Difference
  <2>4. k = 0 => old = {}
    BY <1>3, <2>1, FS_EmptySet
  <2> QED
    BY <1>1, <1>3, <2>1, <2>2, <2>3, <2>4, ConfigAssumption
<1> QED
  BY <1>2, <1>3, <1>4, <1>5

LEMMA CleanupPast ==
  ASSUME HistoryType, Cleanup
  PROVE  /\ past'.stream = past.stream /\ past'.shelved = past.shelved
         /\ past'.toFlush = past.toFlush
<1>1. PICK x : past' = [past EXCEPT !.removed = x]
  BY DEF Cleanup
<1> QED
  BY <1>1 DEF HistoryType

LEMMA CleanupType ==
  ASSUME TypeOK, Cleanup
  PROVE  TypeOK'
<1> USE DEF TypeOK
<1>0. PICK old \in SUBSET DOMAIN backups :
        /\ backups' = Restrict(backups, DOMAIN backups \ old)
        /\ past' = [past EXCEPT !.removed = @ \cup BytesIn(old)]
  BY DEF Cleanup, Oldest
<1>1. FilesType'
  BY <1>0 DEF FilesType, Cleanup, Goto, Restrict
<1>2. HandlerType'
  BY DEF HandlerType, Handlers, Cleanup, Goto
<1>3. CallType'
  BY DEF CallType, Cleanup, Goto, Steps, RotateSteps
<1>4. EnvType'
  BY FaultType DEF EnvType, Cleanup, Goto
<1>5. HistoryType'
  <2>1. BytesIn(old) \subseteq Byte
    BY BytesInType
  <2> QED
    BY <1>0, <2>1 DEF HistoryType
<1> QED
  BY <1>1, <1>2, <1>3, <1>4, <1>5

LEMMA OpenNewType ==
  ASSUME TypeOK, OpenNew
  PROVE  TypeOK'
<1> USE DEF TypeOK
<1>1. FilesType'
  BY DEF FilesType, OpenNew, Goto, Return, disk
<1>2. HandlerType'
  <2>1. CASE h' = Opened(0, now)
    BY <2>1, EmptyType, NothingWritten DEF Handlers, Opened, EnvType
  <2>2. CASE h' = h
    BY <2>2 DEF HandlerType
  <2> QED
    BY <2>1, <2>2 DEF OpenNew, Rotated
<1>3. CallType'
  BY BoundAssumption DEF CallType, OpenNew, Goto, Return, Steps
<1>4. EnvType'
  BY FaultType DEF EnvType, OpenNew, Goto, Return
<1>5. HistoryType'
  BY DEF HistoryType, OpenNew, Goto, Return, EnvType
<1> QED
  BY <1>1, <1>2, <1>3, <1>4, <1>5

LEMMA StartCloseType ==
  ASSUME TypeOK, StartClose
  PROVE  TypeOK'
<1> USE DEF TypeOK
<1>1. FilesType'
  BY DEF FilesType, StartClose, disk
<1>2. HandlerType'
  BY DEF HandlerType, Handlers, StartClose
<1>3. CallType'
  BY DEF CallType, StartClose, Steps, CloseSteps
<1>4. EnvType'
  BY DEF EnvType, StartClose
<1>5. HistoryType'
  BY LengthType DEF HistoryType, StartClose
<1> QED
  BY <1>1, <1>2, <1>3, <1>4, <1>5

LEMMA FinalCloseType ==
  ASSUME TypeOK, FinalClose
  PROVE  TypeOK'
<1> USE DEF TypeOK
<1>1. FilesType'
  BY DEF FilesType, FinalClose, disk
<1>2. HandlerType'
  BY DEF HandlerType, Handlers, FinalClose
<1>3. CallType'
  BY DEF CallType, FinalClose, Steps
<1>4. EnvType'
  BY FaultType DEF EnvType, FinalClose
<1>5. HistoryType'
  BY DEF HistoryType, FinalClose
<1> QED
  BY <1>1, <1>2, <1>3, <1>4, <1>5

LEMMA CrashType ==
  ASSUME TypeOK, Crash
  PROVE  TypeOK'
<1> USE DEF TypeOK
<1>1. past.shelved \o current \in Seq(Byte)
  BY Joined DEF FilesType, HistoryType
<1>2. FilesType'
  BY DEF FilesType, Crash, disk
<1>3. HandlerType'
  BY EmptyType, NothingWritten DEF HandlerType, Handlers, Crash
<1>4. CallType'
  BY BoundAssumption DEF CallType, Crash, Steps
<1>5. EnvType'
  BY BoundAssumption DEF EnvType, Crash
<1>6. HistoryType'
  BY <1>1 DEF HistoryType, Crash
<1> QED
  BY <1>2, <1>3, <1>4, <1>5, <1>6

LEMMA RestartType ==
  ASSUME TypeOK, Restart
  PROVE  TypeOK'
<1> USE DEF TypeOK
<1>1. FileSize \in Nat
  BY LengthType DEF FilesType, FileSize
<1>2. FilesType'
  BY DEF FilesType, Restart, disk
<1>3. HandlerType'
  BY <1>1, EmptyType, NothingWritten DEF Handlers, Restart, Opened, EnvType
<1>4. CallType'
  BY DEF CallType, Restart, Steps
<1>5. EnvType'
  BY DEF EnvType, Restart
<1>6. HistoryType'
  BY DEF HistoryType, Restart
<1> QED
  BY <1>2, <1>3, <1>4, <1>5, <1>6

LEMMA InitType == Init => TypeOK
<1> SUFFICES ASSUME Init PROVE TypeOK
  OBVIOUS
<1>1. FilesType
  BY NothingWritten, ForeignAssumption DEF Init, FilesType
<1>2. HandlerType
  BY NothingWritten, ConfigAssumption DEF Init, Opened, HandlerType, Handlers
<1>3. CallType
  BY BoundAssumption DEF Init, CallType, Steps
<1>4. EnvType
  BY BoundAssumption DEF Init, EnvType
<1>5. HistoryType
  BY NothingWritten DEF Init, HistoryType
<1> QED
  BY <1>1, <1>2, <1>3, <1>4, <1>5 DEF TypeOK

LEMMA RotateType ==
  ASSUME TypeOK, Rotate
  PROVE  TypeOK'
<1>1. {"sync", "close"} \subseteq Steps
  BY DEF Steps, RotateSteps
<1> QED
  BY <1>1, FlushOKType, FlushFailsType, SyncType, CloseCurrentType,
     RenameType, RenameFailsType, ReopenType, CleanupType, OpenNewType
     DEF Rotate

LEMMA CloseFileType ==
  ASSUME TypeOK, CloseFile
  PROVE  TypeOK'
<1>1. {"finalSync", "finalClose"} \subseteq Steps
  BY DEF Steps, CloseSteps
<1> QED
  BY <1>1, FlushOKType, FlushFailsType, SyncType, FinalCloseType
     DEF CloseFile

LEMMA StutterType ==
  ASSUME TypeOK, UNCHANGED vars
  PROVE  TypeOK'
BY DEF TypeOK, FilesType, HandlerType, CallType, EnvType, HistoryType,
       vars, disk

LEMMA NextType == TypeOK /\ [Next]_vars => TypeOK'
<1> SUFFICES ASSUME TypeOK, [Next]_vars PROVE TypeOK'
  OBVIOUS
<1>1. ASSUME NEW size \in 1 .. MaxRecord, StartWrite(size) PROVE TypeOK'
  BY <1>1, StartWriteType
<1>2. CASE AppendOK
  BY <1>2, AppendOKType
<1>3. CASE AppendFails
  BY <1>3, AppendFailsType
<1>4. CASE AppendRefused
  BY <1>4, BoundAssumption
     DEF AppendRefused, Return, TypeOK, FilesType, HandlerType, CallType,
         EnvType, HistoryType, Steps, disk
<1>5. CASE Rotate
  BY <1>5, RotateType
<1>6. CASE CloseFile
  BY <1>6, CloseFileType
<1>7. CASE StartClose
  BY <1>7, StartCloseType
<1>8. CASE Tick
  BY <1>8, BoundAssumption
     DEF Tick, TypeOK, FilesType, HandlerType, Handlers, CallType, EnvType,
         HistoryType, disk
<1>9. CASE Crash
  BY <1>9, CrashType
<1>10. CASE Restart
  BY <1>10, RestartType
<1>11. CASE UNCHANGED vars
  BY <1>11, StutterType
<1> QED
  BY <1>1, <1>2, <1>3, <1>4, <1>5, <1>6, <1>7, <1>8, <1>9, <1>10, <1>11
     DEF Next

(* Every variable stays in its type, and bufio.Writer never holds more     *)
(* than its capacity, whatever the limits, the records and the faults.     *)
THEOREM TypeCorrect == Spec => []TypeOK
BY InitType, NextType, PTL DEF Spec

-----------------------------------------------------------------------------
(* Rotation and closing                                                    *)

(* A call that is rotating had a reason to, and the reason lasts until the *)
(* new file is there: a call that fails half-way leaves it to the next.    *)
RotationInv ==
  /\ step \in RotateSteps => NeedRotate
  /\ step \in {"rename", "reopen", "cleanup", "open", "down"} => ~ h.fileOpen
  /\ step \in CloseSteps => closing = "called"
  /\ (closing = "no" /\ step # "down" /\ ~ h.sinkOpen)
       => NeedRotate /\ step # "append"

(* Behind a flush that succeeded the buffer is empty, and behind a rename  *)
(* the file is.                                                            *)
BufferInv ==
  /\ step \in {"sync", "close", "rename", "reopen", "cleanup", "open",
              "finalSync", "finalClose", "down"}
       => h.buffer = <<>> /\ ~ h.bufErr
  /\ step \in {"cleanup", "open"} => current = <<>>

(* The reason to rotate does not depend on the buffer, and time does not   *)
(* take it away.                                                           *)
LEMMA NeedRotateLasts ==
  ASSUME TypeOK, NeedRotate, now' = now \/ now' = now + 1,
         h'.currentSize = h.currentSize, h'.lastRotate = h.lastRotate
  PROVE  NeedRotate'
BY ConfigAssumption
   DEF TypeOK, HandlerType, Handlers, EnvType, NeedRotate, SizeReached,
       AgeReached

LEMMA RotationInit == Init => RotationInv
BY DEF Init, RotationInv, Opened, RotateSteps, CloseSteps

LEMMA RotationNext ==
  ASSUME TypeOK, RotationInv, [Next]_vars
  PROVE  RotationInv'
<1> USE DEF RotationInv, RotateSteps, CloseSteps
<1>0. h \in Handlers /\ (h.sinkOpen => h.fileOpen)
  BY DEF TypeOK, HandlerType
<1>1. ASSUME NEW size \in 1 .. MaxRecord, StartWrite(size)
      PROVE  RotationInv'
  <2>1. UNCHANGED <<h, now, closing>>
    BY <1>1 DEF StartWrite
  <2>2. NeedRotate' <=> NeedRotate
    BY <2>1 DEF NeedRotate, SizeReached, AgeReached
  <2> QED
    BY <1>1, <2>1, <2>2 DEF StartWrite
<1>2. CASE AppendOK \/ AppendFails \/ AppendRefused
  <2>1. /\ h'.sinkOpen = h.sinkOpen /\ h'.fileOpen = h.fileOpen
        /\ step = "append" /\ step' = "idle" /\ closing' = closing
    BY <1>0, <1>2
       DEF AppendOK, AppendFails, AppendRefused, Return, Handlers
  <2> QED
    BY <2>1
<1>3. CASE Rotate
  <2>1. CASE FlushOK("flush", "sync") \/ FlushFails("flush")
    <3>1. /\ h'.sinkOpen = h.sinkOpen /\ h'.fileOpen = h.fileOpen
          /\ h'.currentSize = h.currentSize /\ h'.lastRotate = h.lastRotate
          /\ step = "flush" /\ step' \in {"sync", "idle"}
          /\ UNCHANGED <<closing, now>>
      BY <1>0, <2>1 DEF FlushOK, FlushFails, GiveUp, Goto, Return, Handlers
    <3> QED
      BY <3>1, NeedRotateLasts
  <2>2. CASE Sync("sync", "close")
    <3>1. /\ h' = h
          /\ step = "sync" /\ step' \in {"close", "idle"}
          /\ UNCHANGED <<closing, now>>
      BY <2>2 DEF Sync, GiveUp, Goto, Return
    <3> QED
      BY <3>1, NeedRotateLasts
  <2>3. CASE CloseCurrent
    <3>1. /\ ~ h'.sinkOpen /\ ~ h'.fileOpen
          /\ h'.currentSize = h.currentSize
          /\ h'.lastRotate = h.lastRotate
          /\ step = "close" /\ step' \in {"rename", "idle"}
          /\ UNCHANGED <<closing, now>>
      BY <1>0, <2>3 DEF CloseCurrent, Goto, Return, Handlers
    <3> QED
      BY <3>1, NeedRotateLasts
  <2>4. CASE Rename \/ RenameFails \/ Cleanup
    <3>1. /\ h' = h
          /\ step \in {"rename", "cleanup"}
          /\ step' \in {"reopen", "cleanup", "open"}
          /\ UNCHANGED <<closing, now>>
      BY <2>4 DEF Rename, RenameFails, Cleanup, Goto
    <3> QED
      BY <1>0, <3>1, NeedRotateLasts
  <2>5. CASE Reopen
    <3>1. /\ h'.sinkOpen = h.sinkOpen /\ h'.currentSize = h.currentSize
          /\ h'.lastRotate = h.lastRotate
          /\ step = "reopen" /\ step' = "idle"
          /\ UNCHANGED <<closing, now>>
      BY <1>0, <2>5 DEF Reopen, Reopened, Return, Handlers
    <3> QED
      BY <1>0, <3>1, NeedRotateLasts
  <2>6. CASE OpenNew
    <3>1. CASE h' = Opened(0, now) /\ Goto("append")
      BY <3>1 DEF Opened, Goto
    <3>2. CASE h' = h /\ Return
      <4>1. step = "open"
        BY <2>6 DEF OpenNew
      <4> QED
        BY <1>0, <3>2, <4>1, NeedRotateLasts DEF Return
    <3> QED
      BY <2>6, <3>1, <3>2 DEF OpenNew, Rotated
  <2> QED
    BY <1>3, <2>1, <2>2, <2>3, <2>4, <2>5, <2>6 DEF Rotate
<1>4. CASE CloseFile
  <2>1. /\ step \in CloseSteps
        /\ step' \in {"finalSync", "finalClose", "idle"}
        /\ closing' \in {closing, "succeeded"}
        /\ step' # "idle" => closing' = closing
        /\ \/ h'.sinkOpen = h.sinkOpen /\ h'.fileOpen = h.fileOpen
           \/ ~ h'.sinkOpen
    BY <1>0, <1>4
       DEF CloseFile, FlushOK, FlushFails, Sync, FinalClose, GiveUp, Goto,
           Return, Handlers
  <2> QED
    BY <2>1
<1>5. CASE StartClose
  BY <1>5 DEF StartClose
<1>6. CASE Tick
  BY <1>6, NeedRotateLasts DEF Tick
<1>7. CASE Crash
  BY <1>0, <1>7 DEF Crash, Handlers
<1>8. CASE Restart
  BY <1>8 DEF Restart, Opened
<1>9. CASE UNCHANGED vars
  BY <1>9, NeedRotateLasts DEF vars, NeedRotate, SizeReached, AgeReached
<1> QED
  BY <1>1, <1>2, <1>3, <1>4, <1>5, <1>6, <1>7, <1>8, <1>9 DEF Next

LEMMA BufferInit == Init => BufferInv
BY DEF Init, BufferInv

LEMMA BufferNext ==
  ASSUME TypeOK, BufferInv, [Next]_vars
  PROVE  BufferInv'
<1> USE DEF BufferInv
<1>0. h \in Handlers
  BY DEF TypeOK, HandlerType
<1>1. ASSUME NEW size \in 1 .. MaxRecord, StartWrite(size)
      PROVE  BufferInv'
  BY <1>1 DEF StartWrite
<1>2. CASE AppendOK \/ AppendFails \/ AppendRefused
  <2>1. step' = "idle"
    BY <1>2 DEF AppendOK, AppendFails, AppendRefused, Return
  <2> QED
    BY <2>1
<1>3. ASSUME NEW from, NEW next \in {"sync", "finalSync"}, FlushOK(from, next)
      PROVE  BufferInv'
  BY <1>0, <1>3 DEF FlushOK, Goto, Handlers
<1>4. ASSUME NEW from, FlushFails(from)
      PROVE  BufferInv'
  <2>1. step' = "idle"
    BY <1>4 DEF FlushFails, Return
  <2> QED
    BY <2>1
<1>5. CASE Sync("sync", "close") \/ Sync("finalSync", "finalClose")
  BY <1>0, <1>5 DEF Sync, Goto, Return, Handlers
<1>6. CASE CloseCurrent
  BY <1>0, <1>6 DEF CloseCurrent, Goto, Return, Handlers
<1>7. CASE Rename \/ RenameFails \/ Cleanup
  BY <1>7 DEF Rename, RenameFails, Cleanup, Goto, disk
<1>8. CASE Reopen \/ FinalClose
  <2>1. step' = "idle"
    BY <1>8 DEF Reopen, FinalClose, Return
  <2> QED
    BY <2>1
<1>9. CASE OpenNew
  BY <1>9 DEF OpenNew, Goto, Return
<1>10. CASE StartClose
  BY <1>10 DEF StartClose
<1>11. CASE Tick
  BY <1>11 DEF Tick, disk
<1>12. CASE Crash
  BY <1>0, <1>12 DEF Crash, Handlers
<1>13. CASE Restart
  BY <1>13 DEF Restart
<1>14. CASE UNCHANGED vars
  BY <1>14 DEF vars, disk
<1> QED
  BY <1>1, <1>2, <1>3, <1>4, <1>5, <1>6, <1>7, <1>8, <1>9, <1>10, <1>11,
     <1>12, <1>13, <1>14 DEF Next, Rotate, CloseFile

(* After a rename that failed, sizeWriter writes to a file that is closed, *)
(* and no record gets there: as long as the handler has not been closed,   *)
(* a call that appends has a file that is open.                            *)
THEOREM NeverAppendsToClosedFile == Spec => []AppendsToOpenFile
<1>1. TypeOK /\ RotationInv => AppendsToOpenFile
  BY DEF TypeOK, HandlerType, RotationInv, AppendsToOpenFile
<1> QED
  BY <1>1, InitType, NextType, RotationInit, RotationNext, PTL DEF Spec

-----------------------------------------------------------------------------
(* Sizes                                                                   *)

HeldSize == Len(current) + Len(h.buffer)

(* currentSize never falls behind what the file will be, except behind an  *)
(* error that stays until the next file; it is exact while the file is     *)
(* open, and still when a rename has failed and the file is opened again;  *)
(* only a file below MaxSize is appended to.                               *)
SizeInv ==
  /\ SizeAccount
  /\ (step \in {"close", "rename", "reopen"} /\ ~ h.bufErr)
       => h.currentSize = HeldSize
  /\ (~ h.bufErr /\ step # "down") => HeldSize <= h.currentSize
  /\ (step = "append" /\ MaxSize > 0) => h.currentSize < MaxSize
  /\ FileBound

LEMMA HeldLength ==
  ASSUME TypeOK
  PROVE  /\ Held \in Seq(Byte) /\ Len(Held) = HeldSize
         /\ HeldSize \in Nat /\ Len(current) \in Nat
         /\ Len(h.buffer) \in Nat
<1>1. current \in Seq(Byte) /\ h.buffer \in Seq(Byte)
  BY DEF TypeOK, FilesType, HandlerType, Handlers
<1> QED
  BY <1>1, Joined, LengthType DEF Held, HeldSize

(* What a Write adds.                                                      *)
LEMMA AppendOKSize ==
  ASSUME TypeOK, AppendOK
  PROVE  HeldSize' = HeldSize + pending
<1>1. /\ current' \in Seq(Byte) /\ h'.buffer \in Seq(Byte)
      /\ Held' = current \o Total
  BY AppendOKEffect
<1>2. Total \in Seq(Byte) /\ current \in Seq(Byte)
        /\ Len(Total) = Len(h.buffer) + pending
  BY TotalType DEF TypeOK, FilesType
<1>3. Len(current \o Total) = Len(current) + Len(Total)
  BY <1>2, Joined
<1>4. Len(current' \o h'.buffer) = Len(current') + Len(h'.buffer)
  BY <1>1, Joined
<1>5. HeldSize' = Len(current) + (Len(h.buffer) + pending)
  BY <1>1, <1>2, <1>3, <1>4 DEF Held, HeldSize
<1>6. Len(current) \in Nat /\ Len(h.buffer) \in Nat /\ pending \in Nat
  BY TotalType, HeldLength
<1> QED
  BY <1>5, <1>6 DEF HeldSize

LEMMA AppendFailsSize ==
  ASSUME TypeOK, AppendFails
  PROVE  HeldSize' <= HeldSize + pending
<1>1. /\ current' \in Seq(Byte) /\ h'.buffer \in Seq(Byte)
      /\ \E m \in 0 .. Len(Total) : Held' = current \o SubSeq(Total, 1, m)
  BY AppendFailsEffect
<1>2. PICK m \in 0 .. Len(Total) : Held' = current \o SubSeq(Total, 1, m)
  BY <1>1
<1>3. Total \in Seq(Byte) /\ current \in Seq(Byte)
        /\ Len(Total) = Len(h.buffer) + pending
  BY TotalType DEF TypeOK, FilesType
<1>4. SubSeq(Total, 1, m) \in Seq(Byte) /\ Len(SubSeq(Total, 1, m)) = m
  BY <1>3, Split
<1>5. Len(current \o SubSeq(Total, 1, m)) = Len(current) + m
  BY <1>3, <1>4, Joined
<1>6. Len(current' \o h'.buffer) = Len(current') + Len(h'.buffer)
  BY <1>1, Joined
<1>7. HeldSize' = Len(current) + m
  BY <1>2, <1>5, <1>6 DEF Held, HeldSize
<1>8. m \in 0 .. Len(h.buffer) + pending
  BY <1>3
<1>9. Len(current) \in Nat /\ Len(h.buffer) \in Nat /\ pending \in Nat
  BY TotalType, HeldLength
<1> QED
  BY <1>7, <1>8, <1>9 DEF HeldSize

(* A Flush adds nothing.                                                   *)
LEMMA FlushSize ==
  ASSUME TypeOK, NEW from, NEW next,
         FlushOK(from, next) \/ FlushFails(from)
  PROVE  HeldSize' = HeldSize
<1>1. /\ current' \in Seq(Byte) /\ h'.buffer \in Seq(Byte)
      /\ Held' = Held
  BY FlushOKEffect, FlushFailsEffect, NothingWritten
<1>2. Len(current' \o h'.buffer) = Len(current') + Len(h'.buffer)
  BY <1>1, Joined
<1>3. Len(current \o h.buffer) = Len(current) + Len(h.buffer)
  BY HeldLength DEF Held, HeldSize
<1> QED
  BY <1>1, <1>2, <1>3 DEF Held, HeldSize

LEMMA SizeInit == Init => SizeInv
<1> SUFFICES ASSUME Init PROVE SizeInv
  OBVIOUS
<1>1. /\ Len(current) = 0 /\ Len(h.buffer) = 0 /\ h.currentSize = 0
      /\ step = "idle"
      /\ \A t \in DOMAIN backups : Len(backups[t]) = 0
  BY NothingWritten DEF Init, Opened
<1> QED
  BY <1>1, ConfigAssumption, BoundAssumption
     DEF SizeInv, SizeAccount, HeldSize, FileBound

(* A step that leaves the sizes, or lets them shrink, keeps the invariant. *)
LEMMA SizeKept ==
  ASSUME TypeOK, SizeInv, HeldSize' = HeldSize,
         h'.currentSize = h.currentSize,
         h'.bufErr = h.bufErr \/ h'.bufErr,
         h'.fileOpen => h.fileOpen \/ step = "reopen",
         step' \in {"close", "rename", "reopen"}
           => h.fileOpen \/ step \in {"close", "rename"},
         step' # "append", step # "down",
         \A t \in DOMAIN backups' :
           t \in DOMAIN backups /\ backups'[t] = backups[t]
  PROVE  SizeInv'
BY HeldLength DEF SizeInv, SizeAccount, HeldSize, FileBound

LEMMA SizeNext ==
  ASSUME TypeOK, RotationInv, BufferInv, SizeInv, [Next]_vars
  PROVE  SizeInv'
<1>0. /\ h \in Handlers /\ h.currentSize \in Nat
      /\ MaxSize \in Nat /\ MaxRecord \in Nat \ {0}
      /\ HeldSize \in Nat /\ pending \in Nat /\ pending <= MaxRecord
  BY HeldLength, ConfigAssumption, BoundAssumption
     DEF TypeOK, HandlerType, Handlers, CallType
<1>1. ASSUME NEW size \in 1 .. MaxRecord, StartWrite(size)
      PROVE  SizeInv'
  <2>1. /\ UNCHANGED <<disk, h>> /\ step = "idle"
        /\ step' \in {"flush", "append"}
        /\ step' = "append" => ~ NeedRotate
    BY <1>1 DEF StartWrite
  <2> QED
    BY <1>0, <2>1
       DEF SizeInv, SizeAccount, HeldSize, FileBound, NeedRotate,
           SizeReached, disk
<1>2. CASE AppendOK
  <2>1. /\ h'.fileOpen = h.fileOpen /\ h'.bufErr = h.bufErr
        /\ h'.currentSize = h.currentSize + pending
        /\ ~ h.bufErr /\ step = "append" /\ step' = "idle"
        /\ backups' = backups
    BY <1>0, <1>2 DEF AppendOK, Return, Handlers
  <2>2. HeldSize' = HeldSize + pending
    BY <1>2, AppendOKSize
  <2> QED
    BY <1>0, <2>1, <2>2 DEF SizeInv, SizeAccount, HeldSize, FileBound
<1>3. CASE AppendFails
  <2>1. /\ ~ h.bufErr /\ h'.bufErr /\ step = "append" /\ step' = "idle"
        /\ backups' = backups
    BY <1>0, <1>3 DEF AppendFails, Return, Handlers
  <2>2. HeldSize' <= HeldSize + pending
    BY <1>3, AppendFailsSize
  <2> QED
    BY <1>0, <2>1, <2>2 DEF SizeInv, SizeAccount, HeldSize, FileBound
<1>4. CASE AppendRefused
  <2>1. UNCHANGED <<disk, h>> /\ step = "append" /\ step' = "idle"
    BY <1>4 DEF AppendRefused, Return
  <2> QED
    BY <2>1 DEF SizeInv, SizeAccount, HeldSize, FileBound, disk
<1>5. ASSUME NEW from \in Steps \ {"down"},
             NEW next \in {"sync", "finalSync"},
             FlushOK(from, next) \/ FlushFails(from)
      PROVE  SizeInv'
  <2>1. /\ h'.currentSize = h.currentSize
        /\ h'.bufErr = h.bufErr \/ h'.bufErr
        /\ h'.fileOpen => h.fileOpen
        /\ step = from /\ step' \in {"sync", "finalSync", "idle"}
        /\ backups' = backups
    BY <1>0, <1>5 DEF FlushOK, FlushFails, GiveUp, Goto, Return, Handlers
  <2>2. HeldSize' = HeldSize
    BY <1>5, FlushSize
  <2> QED
    BY <1>5, <2>1, <2>2, SizeKept
<1>6. ASSUME NEW from \in Steps \ {"down"},
             NEW next \in {"close", "finalClose"}, Sync(from, next)
      PROVE  SizeInv'
  <2>1. /\ h'.currentSize = h.currentSize /\ h'.bufErr = h.bufErr
        /\ h'.buffer = h.buffer
        /\ h'.fileOpen => h.fileOpen
        /\ step = from /\ step' \in {"close", "finalClose", "idle"}
        /\ step' = "close" => h.fileOpen
        /\ UNCHANGED <<current, backups>>
    BY <1>0, <1>6 DEF Sync, GiveUp, Goto, Return, Handlers, disk
  <2> QED
    BY <1>6, <2>1, SizeKept DEF HeldSize
<1>7. CASE CloseCurrent \/ Reopen \/ FinalClose
  <2>1. /\ h'.currentSize = h.currentSize /\ h'.bufErr = h.bufErr
        /\ h'.buffer = h.buffer
        /\ h'.fileOpen => h.fileOpen \/ step = "reopen"
        /\ step' = "rename" => step = "close"
        /\ step # "down" /\ step' \in {"rename", "idle"}
        /\ UNCHANGED <<current, backups>>
    BY <1>0, <1>7
       DEF CloseCurrent, Reopen, Reopened, FinalClose, Goto, Return,
           Handlers, disk
  <2> QED
    BY <2>1, SizeKept DEF HeldSize
<1>8. CASE Rename
  <2>1. /\ h' = h /\ current' = <<>>
        /\ h.buffer = <<>> /\ ~ h.fileOpen
        /\ step' \in {"cleanup", "open"}
    BY <1>8 DEF Rename, Goto, RotationInv, BufferInv
  <2>2. Len(current') = 0 /\ Len(h.buffer) = 0
    BY <2>1, NothingWritten
  <2>3. \A t \in DOMAIN backups' :
          \/ backups'[t] = current
          \/ t \in DOMAIN backups /\ backups'[t] = backups[t]
    BY <1>8 DEF Rename
  <2>4. MaxSize > 0 => Len(current) < MaxSize + MaxRecord
    BY <1>0, <2>2, HeldLength DEF SizeInv, FileBound
  <2> QED
    BY <1>0, <2>1, <2>2, <2>3, <2>4
       DEF SizeInv, SizeAccount, HeldSize, FileBound
<1>9. CASE RenameFails \/ Cleanup
  <2>1. /\ h' = h /\ current' = current
        /\ step' = "reopen" => step = "rename"
        /\ step # "down" /\ step' \in {"reopen", "open"}
    BY <1>9 DEF RenameFails, Cleanup, Goto, disk
  <2>2. \A t \in DOMAIN backups' :
          t \in DOMAIN backups /\ backups'[t] = backups[t]
    BY <1>9 DEF RenameFails, Cleanup, Restrict, disk
  <2> QED
    BY <2>1, <2>2, SizeKept DEF HeldSize
<1>10. CASE OpenNew
  <2>1. CASE h' = Opened(0, now)
    <3>1. /\ h'.currentSize = 0 /\ h'.buffer = <<>>
          /\ current' = <<>> /\ backups' = backups
          /\ step' \in {"append", "idle"}
      BY <1>10, <2>1 DEF OpenNew, Goto, Return, Opened, BufferInv, disk
    <3>2. Len(h'.buffer) = 0 /\ Len(current') = 0
      BY <3>1, NothingWritten
    <3> QED
      BY <1>0, <3>1, <3>2 DEF SizeInv, SizeAccount, HeldSize, FileBound
  <2>2. CASE h' = h /\ Return
    <3>1. /\ step = "open" /\ step' = "idle"
          /\ UNCHANGED <<current, backups>>
      BY <1>10, <2>2 DEF OpenNew, Return, disk
    <3> QED
      BY <2>2, <3>1, SizeKept DEF HeldSize
  <2> QED
    BY <1>10, <2>1, <2>2 DEF OpenNew, Rotated
<1>11. CASE StartClose
  BY <1>11 DEF StartClose, SizeInv, SizeAccount, HeldSize, FileBound, disk
<1>12. CASE Tick \/ UNCHANGED vars
  BY <1>12
     DEF Tick, SizeInv, SizeAccount, HeldSize, FileBound, disk, vars
<1>13. CASE Crash
  <2>1. /\ h'.buffer = <<>> /\ ~ h'.fileOpen /\ step' = "down"
        /\ UNCHANGED <<current, backups>>
    BY <1>0, <1>13 DEF Crash, Handlers, disk
  <2>2. Len(h'.buffer) = 0
    BY <2>1, NothingWritten
  <2> QED
    BY <1>0, <2>1, <2>2, HeldLength
       DEF SizeInv, SizeAccount, HeldSize, FileBound
<1>14. CASE Restart
  <2>1. /\ h'.buffer = <<>> /\ h.buffer = <<>>
        /\ h'.currentSize = Len(current)
        /\ step' = "idle"
        /\ UNCHANGED <<current, backups>>
    BY <1>14 DEF Restart, Opened, FileSize, BufferInv, disk
  <2>2. Len(h'.buffer) = 0 /\ Len(h.buffer) = 0
    BY <2>1, NothingWritten
  <2> QED
    BY <1>0, <2>1, <2>2, HeldLength
       DEF SizeInv, SizeAccount, HeldSize, FileBound
<1>15. {"flush", "sync", "finalFlush", "finalSync"} \subseteq Steps \ {"down"}
  BY DEF Steps, RotateSteps, CloseSteps
<1> QED
  BY <1>1, <1>2, <1>3, <1>4, <1>5, <1>6, <1>7, <1>8, <1>9, <1>10, <1>11,
     <1>12, <1>13, <1>14, <1>15 DEF Next, Rotate, CloseFile

(* While the log file is open, currentSize, which decides about rotation,  *)
(* is the size it will have once the buffer is flushed, for every limit    *)
(* and record size and whatever fails or crashes: also when a rename has   *)
(* failed and only b.file is open again.                                   *)
THEOREM SizeIsAccounted == Spec => []SizeAccount
<1>1. SizeInv => SizeAccount
  BY DEF SizeInv
<1> QED
  BY <1>1, InitType, NextType, RotationInit, RotationNext, BufferInit,
     BufferNext, SizeInit, SizeNext, PTL DEF Spec

(* No log file outgrows MaxSize by a whole record, for every limit and     *)
(* record size and whatever fails or crashes.                              *)
THEOREM FilesAreBounded == Spec => []FileBound
<1>1. SizeInv => FileBound
  BY DEF SizeInv
<1> QED
  BY <1>1, InitType, NextType, RotationInit, RotationNext, BufferInit,
     BufferNext, SizeInit, SizeNext, PTL DEF Spec

-----------------------------------------------------------------------------
(* Order and completeness                                                  *)

Kept == past.shelved \o Held

LEMMA KeptType ==
  ASSUME TypeOK
  PROVE  /\ Kept \in Seq(Byte) /\ past.shelved \in Seq(Byte)
         /\ Held \in Seq(Byte) /\ past.stream \in Seq(Byte)
         /\ past.shelved \o current \o h.buffer = Kept
<1>1. /\ past.shelved \in Seq(Byte) /\ past.stream \in Seq(Byte)
      /\ current \in Seq(Byte) /\ h.buffer \in Seq(Byte)
  BY DEF TypeOK, HistoryType, FilesType, HandlerType, Handlers
<1>2. Held \in Seq(Byte)
  BY <1>1, Joined DEF Held
<1>3. Kept \in Seq(Byte)
  BY <1>1, <1>2, Joined DEF Kept
<1>4. (past.shelved \o current) \o h.buffer
        = past.shelved \o (current \o h.buffer)
  BY <1>1, Associative
<1> QED
  BY <1>1, <1>2, <1>3, <1>4 DEF Kept, Held

(* The prefixes of a sequence: itself, and what a cut leaves of it.        *)
LEMMA PrefixSelf ==
  ASSUME NEW s \in Seq(Byte)
  PROVE  Prefix(s, s)
<1>1. Len(s) \in Nat
  BY LengthType
<1> QED
  BY <1>1, SubSeqFull DEF Prefix

LEMMA PrefixOfJoined ==
  ASSUME NEW s \in Seq(Byte), NEW t \in Seq(Byte)
  PROVE  Prefix(s, s \o t)
<1>1. /\ s \o t \in Seq(Byte) /\ Len(s \o t) = Len(s) + Len(t)
      /\ \A i \in 1 .. Len(s) + Len(t) :
           (s \o t)[i] = IF i <= Len(s) THEN s[i] ELSE t[i - Len(s)]
  BY ConcatProperties
<1>2. Len(s) \in Nat /\ Len(t) \in Nat
  BY LengthType
<1>3. Len(s) \in 0 .. Len(s \o t)
  BY <1>1, <1>2
<1>4. /\ SubSeq(s \o t, 1, Len(s)) \in Seq(Byte)
      /\ Len(SubSeq(s \o t, 1, Len(s))) = Len(s)
  BY <1>1, <1>3, Split
<1>5. \A i \in 1 .. Len(s) : SubSeq(s \o t, 1, Len(s))[i] = s[i]
  BY <1>1, <1>2
<1>6. SubSeq(s \o t, 1, Len(s)) = s
  BY <1>4, <1>5, SeqEqual
<1> QED
  BY <1>3, <1>2, <1>6 DEF Prefix

LEMMA PrefixCut ==
  ASSUME NEW s \in Seq(Byte), NEW t \in Seq(Byte), NEW m \in 0 .. Len(t)
  PROVE  Prefix(s \o SubSeq(t, 1, m), s \o t)
<1> DEFINE u == SubSeq(t, 1, m)
           v == SubSeq(t, m + 1, Len(t))
<1>1. u \in Seq(Byte) /\ v \in Seq(Byte) /\ u \o v = t
  BY Split
<1>2. s \o u \in Seq(Byte)
  BY <1>1, Joined
<1>3. (s \o u) \o v = s \o (u \o v)
  BY <1>1, Associative
<1>4. (s \o u) \o v = s \o t
  BY <1>1, <1>3
<1> HIDE DEF u, v
<1>5. Prefix(s \o u, (s \o u) \o v)
  BY <1>1, <1>2, PrefixOfJoined
<1> QED
  BY <1>4, <1>5 DEF u

(* InOrder, with the file and the buffer taken together.                   *)
OrderInv == /\ Prefix(Kept, past.stream)
            /\ ~ h.bufErr => Kept = past.stream

LEMMA OrderInit == Init => OrderInv
<1> SUFFICES ASSUME Init PROVE OrderInv
  OBVIOUS
<1>1. past.shelved = <<>> /\ current = <<>> /\ h.buffer = <<>>
        /\ past.stream = <<>>
  BY DEF Init, Opened
<1>2. Kept = <<>>
  BY <1>1, NothingWritten, ConcatEmptySeq DEF Kept, Held
<1> QED
  BY <1>1, <1>2, NothingWritten, PrefixSelf DEF OrderInv

LEMMA OrderKept ==
  ASSUME OrderInv, Held' = Held, h.bufErr => h'.bufErr,
         past'.shelved = past.shelved, past'.stream = past.stream
  PROVE  OrderInv'
<1>1. Kept' = Kept
  BY DEF Kept
<1> QED
  BY <1>1 DEF OrderInv, Prefix

LEMMA OrderNext ==
  ASSUME TypeOK, BufferInv, OrderInv, [Next]_vars
  PROVE  OrderInv'
<1>0. /\ h \in Handlers /\ past \in [stream : Seq(Byte), shelved : Seq(Byte),
                                   removed : SUBSET Byte, toFlush : Nat]
      /\ current \in Seq(Byte) /\ h.buffer \in Seq(Byte)
      /\ past.shelved \in Seq(Byte) /\ past.stream \in Seq(Byte)
  BY DEF TypeOK, HandlerType, Handlers, HistoryType, FilesType
<1>1. CASE AppendOK
  <2>1. /\ ~ h.bufErr /\ past'.shelved = past.shelved
        /\ past'.stream = past.stream \o Record
    BY <1>0, <1>1 DEF AppendOK
  <2>2. Record \in Seq(Byte)
    BY RecordType, BoundAssumption DEF TypeOK, CallType, EnvType
  <2>3. Held' = current \o (h.buffer \o Record)
    BY <1>1, AppendOKEffect DEF Total
  <2>4. current \o (h.buffer \o Record) = Held \o Record
    <3>p. PICK a, b, c : a = current /\ b = h.buffer /\ c = Record
      OBVIOUS
    <3>1. a \in Seq(Byte) /\ b \in Seq(Byte) /\ c \in Seq(Byte)
      BY <1>0, <2>2, <3>p
    <3>2. a \o (b \o c) = (a \o b) \o c
      BY <3>1, Associative
    <3> QED
      BY <3>p, <3>2 DEF Held
  <2>5. Held \in Seq(Byte) /\ Kept = past.stream
    BY <2>1, KeptType DEF OrderInv
  <2>6. past.shelved \o (Held \o Record) = Kept \o Record
    <3>p. PICK a, b, c : a = past.shelved /\ b = Held /\ c = Record
      OBVIOUS
    <3>1. a \in Seq(Byte) /\ b \in Seq(Byte) /\ c \in Seq(Byte)
      BY <1>0, <2>2, <2>5, <3>p
    <3>2. a \o (b \o c) = (a \o b) \o c
      BY <3>1, Associative
    <3> QED
      BY <3>p, <3>2 DEF Kept
  <2>7. Kept' = past'.stream
    BY <2>1, <2>3, <2>4, <2>5, <2>6 DEF Kept
  <2>8. past'.stream \in Seq(Byte)
    BY <1>0, <2>1, <2>2, Joined
  <2>9. Prefix(past'.stream, past'.stream)
    BY <2>8, PrefixSelf
  <2> QED
    BY <2>7, <2>9 DEF OrderInv
<1>2. CASE AppendFails
  <2>1. /\ ~ h.bufErr /\ h'.bufErr /\ past'.shelved = past.shelved
        /\ past'.stream = past.stream \o Record
    BY <1>0, <1>2 DEF AppendFails, Handlers
  <2>2. PICK m \in 0 .. Len(Total) : Held' = current \o SubSeq(Total, 1, m)
    BY <1>2, AppendFailsEffect
  <2>3. Total \in Seq(Byte) /\ Record \in Seq(Byte)
    BY TotalType, RecordType, BoundAssumption DEF TypeOK, CallType, EnvType
  <2>4. SubSeq(Total, 1, m) \in Seq(Byte)
    BY <2>3, Split
  <2>5. past.shelved \o current \in Seq(Byte)
    BY <1>0, Joined
  <2>6. past.shelved \o (current \o SubSeq(Total, 1, m))
          = (past.shelved \o current) \o SubSeq(Total, 1, m)
    <3>p. PICK a, b, c : /\ a = past.shelved /\ b = current
                         /\ c = SubSeq(Total, 1, m)
      OBVIOUS
    <3>1. a \in Seq(Byte) /\ b \in Seq(Byte) /\ c \in Seq(Byte)
      BY <1>0, <2>4, <3>p
    <3>2. a \o (b \o c) = (a \o b) \o c
      BY <3>1, Associative
    <3> QED
      BY <3>p, <3>2
  <2>7. Kept' = (past.shelved \o current) \o SubSeq(Total, 1, m)
    BY <2>1, <2>2, <2>6 DEF Kept
  <2>8. past'.stream = (past.shelved \o current) \o Total
    <3>1. past.stream = (past.shelved \o current) \o h.buffer
      BY <2>1, KeptType DEF OrderInv
    <3>2. ((past.shelved \o current) \o h.buffer) \o Record
            = (past.shelved \o current) \o (h.buffer \o Record)
      <4>p. PICK a, b, c : /\ a = past.shelved \o current /\ b = h.buffer
                           /\ c = Record
        OBVIOUS
      <4>1. a \in Seq(Byte) /\ b \in Seq(Byte) /\ c \in Seq(Byte)
        BY <1>0, <2>3, <2>5, <4>p
      <4>2. (a \o b) \o c = a \o (b \o c)
        BY <4>1, Associative
      <4> QED
        BY <4>p, <4>2
    <3> QED
      BY <2>1, <3>1, <3>2 DEF Total
  <2>9. Prefix((past.shelved \o current) \o SubSeq(Total, 1, m),
               (past.shelved \o current) \o Total)
    BY <2>3, <2>5, PrefixCut
  <2> QED
    BY <2>1, <2>7, <2>8, <2>9 DEF OrderInv
<1>3. ASSUME NEW from, NEW next, FlushOK(from, next) \/ FlushFails(from)
      PROVE  OrderInv'
  <2>1. Held' = Held
    BY <1>3, FlushOKEffect, FlushFailsEffect
  <2>2. h.bufErr => h'.bufErr
    BY <1>3, FlushFailsEffect DEF FlushOK
  <2>3. past' = past
    BY <1>3 DEF FlushOK, FlushFails
  <2> QED
    BY <2>1, <2>2, <2>3, OrderKept
<1>4. CASE Rename
  <2>1. /\ h' = h /\ current' = <<>>
        /\ h.buffer = <<>> /\ past'.stream = past.stream
        /\ past'.shelved = past.shelved \o current
    BY <1>0, <1>4 DEF Rename, BufferInv
  <2>2. past.shelved \o current \in Seq(Byte)
    BY <1>0, Joined
  <2>3. Held = current /\ Held' = <<>>
    BY <1>0, <2>1, NothingWritten, ConcatEmptySeq DEF Held
  <2>4. (past.shelved \o current) \o <<>> = past.shelved \o current
    BY <2>2, ConcatEmptySeq
  <2>5. Kept' = Kept
    BY <2>1, <2>3, <2>4 DEF Kept
  <2> QED
    BY <2>1, <2>5 DEF OrderInv, Prefix
<1>5. CASE Crash
  <2>1. /\ current' = current /\ h'.buffer = <<>>
        /\ past'.shelved = past.shelved
        /\ past'.stream = past.shelved \o current
    BY <1>0, <1>5 DEF Crash, disk, Handlers
  <2>2. Held' = current
    BY <1>0, <2>1, ConcatEmptySeq DEF Held
  <2>3. Kept' = past'.stream
    BY <2>1, <2>2 DEF Kept
  <2>4. past.shelved \o current \in Seq(Byte)
    BY <1>0, Joined
  <2>5. Prefix(past.shelved \o current, past.shelved \o current)
    BY <2>4, PrefixSelf
  <2> QED
    BY <2>1, <2>3, <2>5 DEF OrderInv
<1>6. CASE \/ \E size \in 1 .. MaxRecord : StartWrite(size)
           \/ AppendRefused \/ RenameFails \/ Cleanup \/ StartClose \/ Tick
           \/ UNCHANGED vars
  <2>1. /\ h' = h /\ current' = current
        /\ past'.shelved = past.shelved /\ past'.stream = past.stream
    BY <1>0, <1>6, CleanupPast
       DEF StartWrite, AppendRefused, RenameFails, Cleanup, StartClose,
           Tick, vars, disk, TypeOK
  <2> QED
    BY <2>1, OrderKept DEF Held
<1>7. CASE \/ \E from, next : Sync(from, next)
           \/ CloseCurrent \/ Reopen \/ FinalClose
  <2>1. /\ h'.buffer = h.buffer /\ h'.bufErr = h.bufErr
        /\ current' = current /\ past' = past
    BY <1>0, <1>7
       DEF Sync, GiveUp, CloseCurrent, Reopen, Reopened, FinalClose, disk,
           Handlers
  <2> QED
    BY <2>1, OrderKept DEF Held
<1>8. CASE OpenNew \/ Restart
  <2>1. step \in {"open", "down"}
    BY <1>8 DEF OpenNew, Restart
  <2>2. h.buffer = <<>> /\ ~ h.bufErr
    BY <2>1 DEF BufferInv
  <2>3. /\ h'.buffer = <<>> /\ ~ h'.bufErr
        /\ current' = current
    BY <1>8, <2>2 DEF OpenNew, Rotated, Restart, Opened, disk
  <2>4. past' = past
    BY <1>8 DEF OpenNew, Restart
  <2>5. past'.shelved = past.shelved /\ past'.stream = past.stream
    BY <1>0, <2>4
  <2> QED
    BY <2>2, <2>3, <2>5, OrderKept DEF Held
<1> QED
  BY <1>1, <1>2, <1>3, <1>4, <1>5, <1>6, <1>7, <1>8
     DEF Next, Rotate, CloseFile

LEMMA OrderIsInOrder ==
  ASSUME TypeOK, OrderInv
  PROVE  InOrder
BY KeptType DEF OrderInv, InOrder

(* Rotated out, in the current file, in the buffer: for every limit,       *)
(* buffer and record size, and whatever fails or crashes, that is a prefix *)
(* of what the handler was given, and all of it while no write has failed. *)
THEOREM BytesAreInOrder == Spec => []InOrder
BY InitType, NextType, BufferInit, BufferNext, OrderInit, OrderNext,
   OrderIsInOrder, PTL DEF Spec

-----------------------------------------------------------------------------
(* Close                                                                   *)

InFiles == Len(past.shelved) + Len(current)

(* Close has written out what it found, from its flush on.                 *)
FlushedInv ==
  /\ step = "finalFlush" => past.toFlush = Len(past.stream)
  /\ (step \in {"finalSync", "finalClose"} \/ closing = "succeeded")
       => InFiles >= past.toFlush

LEMMA FlushedInit == Init => FlushedInv
BY DEF Init, FlushedInv

(* What is in a file stays in a file.                                      *)
LEMMA AppendGrows ==
  ASSUME TypeOK, AppendOK \/ AppendFails
  PROVE  Len(current') >= Len(current)
<1>1. PICK n \in 0 .. Len(Total) : current' = current \o SubSeq(Total, 1, n)
  <2>1. Total \in Seq(Byte) /\ Len(Total) \in Nat
    BY TotalType, LengthType
  <2>2. Spilled(Total) \in 0 .. Len(Total)
    BY <2>1, SpilledRange
  <2>3. CASE AppendOK
    BY <2>2, <2>3 DEF AppendOK, Total
  <2>4. CASE AppendFails
    <3>1. PICK j \in 0 .. Spilled(Total) - 1 :
            current' = current \o SubSeq(Total, 1, j)
      BY <2>4 DEF AppendFails, Total
    <3>2. j \in 0 .. Len(Total)
      BY <2>1, <2>2
    <3> QED
      BY <3>1, <3>2
  <2> QED
    BY <2>3, <2>4
<1>2. Total \in Seq(Byte) /\ current \in Seq(Byte)
  BY TotalType DEF TypeOK, FilesType
<1>3. SubSeq(Total, 1, n) \in Seq(Byte)
  BY <1>2, Split
<1>4. Len(current \o SubSeq(Total, 1, n))
        = Len(current) + Len(SubSeq(Total, 1, n))
  BY <1>2, <1>3, Joined
<1>5. Len(current) \in Nat /\ Len(SubSeq(Total, 1, n)) \in Nat
  BY <1>2, <1>3, LengthType
<1> QED
  BY <1>1, <1>4, <1>5

LEMMA FlushGrows ==
  ASSUME TypeOK, NEW from, NEW next,
         FlushOK(from, next) \/ FlushFails(from)
  PROVE  Len(current') >= Len(current)
<1>1. current \in Seq(Byte) /\ h.buffer \in Seq(Byte)
  BY DEF TypeOK, FilesType, HandlerType, Handlers
<1>2. PICK x \in Seq(Byte) : current' = current \o x
  <2>1. CASE FlushOK(from, next)
    BY <1>1, <2>1 DEF FlushOK
  <2>2. CASE current' = current
    BY <1>1, <2>2, ConcatEmptySeq, NothingWritten
  <2>3. CASE \E j \in 0 .. Len(h.buffer) - 1 :
               current' = current \o SubSeq(h.buffer, 1, j)
    <3>1. PICK j \in 0 .. Len(h.buffer) - 1 :
            current' = current \o SubSeq(h.buffer, 1, j)
      BY <2>3
    <3>2. j \in 0 .. Len(h.buffer)
      BY <1>1, LengthType
    <3>3. SubSeq(h.buffer, 1, j) \in Seq(Byte)
      BY <1>1, <3>2, Split
    <3> QED
      BY <3>1, <3>3
  <2> QED
    BY <2>1, <2>2, <2>3 DEF FlushFails
<1>3. Len(current \o x) = Len(current) + Len(x)
  BY <1>1, <1>2, Joined
<1>4. Len(current) \in Nat /\ Len(x) \in Nat
  BY <1>1, <1>2, LengthType
<1> QED
  BY <1>2, <1>3, <1>4

(* The flush of Close leaves nothing behind.                               *)
LEMMA FinalFlush ==
  ASSUME TypeOK, OrderInv, FlushedInv, FlushOK("finalFlush", "finalSync")
  PROVE  FlushedInv'
<1>1. /\ ~ h.bufErr /\ step = "finalFlush" /\ step' = "finalSync"
      /\ past' = past
  BY DEF FlushOK, Goto
<1>2. current' = Held
  BY FlushOKEffect
<1>3. Kept = past.stream /\ past.shelved \in Seq(Byte) /\ Held \in Seq(Byte)
  BY <1>1, KeptType DEF OrderInv
<1>4. Len(past.shelved \o Held) = Len(past.shelved) + Len(Held)
  BY <1>3, Joined
<1>5. InFiles' = Len(past.stream)
  BY <1>1, <1>2, <1>3, <1>4 DEF InFiles, Kept
<1>6. past.toFlush \in Nat
  BY DEF TypeOK, HistoryType
<1> QED
  BY <1>1, <1>5, <1>6 DEF FlushedInv

(* A step that neither is of Close nor takes anything out of a file.       *)
LEMMA FlushedKept ==
  ASSUME TypeOK, FlushedInv,
         InFiles' >= InFiles, past'.toFlush = past.toFlush,
         step' \notin CloseSteps, closing' = closing \/ closing' = "no"
  PROVE  FlushedInv'
<1>1. InFiles \in Nat /\ past.toFlush \in Nat
  BY LengthType DEF TypeOK, HistoryType, FilesType, InFiles
<1> QED
  BY <1>1 DEF FlushedInv, CloseSteps, InFiles

LEMMA FlushedNext ==
  ASSUME TypeOK, RotationInv, OrderInv, FlushedInv, [Next]_vars
  PROVE  FlushedInv'
<1>0. /\ h \in Handlers
      /\ past \in [stream : Seq(Byte), shelved : Seq(Byte),
                removed : SUBSET Byte, toFlush : Nat]
      /\ current \in Seq(Byte) /\ past.shelved \in Seq(Byte)
      /\ Len(current) \in Nat /\ Len(past.shelved) \in Nat
  BY LengthType DEF TypeOK, HandlerType, HistoryType, FilesType
<1>1. CASE AppendOK \/ AppendFails
  <2>1. /\ step' = "idle" /\ closing' = closing
        /\ past' = [past EXCEPT !.stream = @ \o Record]
    BY <1>1 DEF AppendOK, AppendFails, Return
  <2>2. past'.shelved = past.shelved /\ past'.toFlush = past.toFlush
    BY <1>0, <2>1
  <2>3. Len(current') >= Len(current)
    BY <1>1, AppendGrows
  <2>4. Len(current') \in Nat
    <3>1. current' \in Seq(Byte)
      BY <1>1, AppendOKEffect, AppendFailsEffect
    <3> QED
      BY <3>1, LengthType
  <2>5. InFiles' >= InFiles
    BY <1>0, <2>2, <2>3, <2>4 DEF InFiles
  <2> QED
    BY <2>1, <2>2, <2>5, FlushedKept DEF CloseSteps
<1>2. CASE FlushOK("finalFlush", "finalSync")
  BY <1>2, FinalFlush
<1>3. CASE \/ FlushOK("flush", "sync") \/ FlushFails("flush")
           \/ FlushFails("finalFlush")
  <2>1. /\ step' \in {"sync", "idle"} /\ closing' = closing
        /\ past' = past
    BY <1>3 DEF FlushOK, FlushFails, Goto, Return
  <2>2. Len(current') >= Len(current)
    BY <1>3, FlushGrows
  <2>3. Len(current') \in Nat
    <3>1. current' \in Seq(Byte)
      BY <1>3, FlushOKEffect, FlushFailsEffect
    <3> QED
      BY <3>1, LengthType
  <2>4. InFiles' >= InFiles
    BY <1>0, <2>1, <2>2, <2>3 DEF InFiles
  <2> QED
    BY <2>1, <2>4, FlushedKept DEF CloseSteps
<1>4. CASE Rename
  <2>1. /\ past'.shelved = past.shelved \o current
        /\ past'.toFlush = past.toFlush
        /\ current' = <<>> /\ closing' = closing
        /\ step' \in {"cleanup", "open"}
    BY <1>0, <1>4 DEF Rename, Goto
  <2>2. Len(past.shelved \o current) = Len(past.shelved) + Len(current)
    BY <1>0, Joined
  <2>3. InFiles' >= InFiles
    BY <1>0, <2>1, <2>2, NothingWritten DEF InFiles
  <2> QED
    BY <2>1, <2>3, FlushedKept DEF CloseSteps
<1>5. CASE Sync("finalSync", "finalClose") \/ FinalClose
  <2>1. /\ UNCHANGED <<current, past>> /\ step \in {"finalSync", "finalClose"}
        /\ step' # "finalFlush"
    BY <1>5 DEF Sync, FinalClose, Goto, Return, disk
  <2> QED
    BY <2>1 DEF FlushedInv, InFiles
<1>6. CASE StartClose
  <2>1. /\ past'.toFlush = Len(past.stream) /\ past'.stream = past.stream
        /\ step' = "finalFlush" /\ closing' = "called"
    BY <1>0, <1>6 DEF StartClose
  <2> QED
    BY <2>1 DEF FlushedInv
<1>7. CASE \/ \E size \in 1 .. MaxRecord : StartWrite(size)
           \/ AppendRefused \/ Sync("sync", "close") \/ CloseCurrent
           \/ RenameFails \/ Reopen \/ Cleanup
  <2>1. /\ UNCHANGED <<current, closing>>
        /\ step' \notin CloseSteps
    BY <1>7
       DEF StartWrite, AppendRefused, Sync, CloseCurrent, RenameFails,
           Reopen, Cleanup, Goto, Return, disk, CloseSteps
  <2>2. past'.shelved = past.shelved /\ past'.toFlush = past.toFlush
    BY <1>7, CleanupPast
       DEF StartWrite, AppendRefused, Sync, CloseCurrent, RenameFails,
           Reopen, TypeOK
  <2>3. InFiles' >= InFiles
    BY <1>0, <2>1, <2>2 DEF InFiles
  <2> QED
    BY <2>1, <2>2, <2>3, FlushedKept
<1>8. CASE OpenNew \/ Restart \/ Crash
  <2>1. \/ past' = past
        \/ \E b : past' = [past EXCEPT !.stream = b]
    BY <1>8 DEF OpenNew, Restart, Crash
  <2>2. past'.shelved = past.shelved /\ past'.toFlush = past.toFlush
    BY <1>0, <2>1
  <2>3. /\ current' = current /\ step' \notin CloseSteps
        /\ closing' = closing \/ closing' = "no"
    BY <1>8 DEF OpenNew, Restart, Crash, Goto, Return, disk, CloseSteps
  <2>4. InFiles' >= InFiles
    BY <1>0, <2>2, <2>3 DEF InFiles
  <2> QED
    BY <2>2, <2>3, <2>4, FlushedKept
<1>9. CASE Tick \/ UNCHANGED vars
  BY <1>9 DEF Tick, vars, disk, FlushedInv, InFiles
<1> QED
  BY <1>1, <1>2, <1>3, <1>4, <1>5, <1>6, <1>7, <1>8, <1>9
     DEF Next, Rotate, CloseFile

(* When Close returns nil, all that the handler was given before is in the *)
(* files, whatever failed or crashed before, and however many records and  *)
(* rotations came after.                                                   *)
THEOREM CloseHasFlushed == Spec => []CloseFlushes
<1>1. FlushedInv => CloseFlushes
  BY DEF FlushedInv, CloseFlushes, InFiles
<1> QED
  BY <1>1, InitType, NextType, RotationInit, RotationNext, BufferInit,
     BufferNext, OrderInit, OrderNext, FlushedInit, FlushedNext, PTL DEF Spec

-----------------------------------------------------------------------------
(* Whole records                                                           *)

Clean == env.faults + env.crashes = 0

EndsRecord(s) == s # <<>> => s[Len(s)].last

(* As long as nothing failed, what the handler was given ends where a      *)
(* record ends, and so does what it rotates.                               *)
WholeInv ==
  /\ step \in RotateSteps \cup {"append"} => pending > 0
  /\ Clean => EndsRecord(past.stream)
  /\ WholeRecords

LEMMA WholeInit == Init => WholeInv
<1> SUFFICES ASSUME Init PROVE WholeInv
  OBVIOUS
<1>1. past.stream = <<>> /\ step = "idle"
        /\ \A t \in DOMAIN backups : backups[t] = <<>>
  BY DEF Init
<1> QED
  BY <1>1 DEF WholeInv, EndsRecord, WholeRecords, RotateSteps

(* The end of a sequence is the end of what was joined to it last.         *)
LEMMA EndOfJoined ==
  ASSUME NEW s \in Seq(Byte), NEW t \in Seq(Byte), t # <<>>
  PROVE  (s \o t)[Len(s \o t)] = t[Len(t)]
<1>1. Len(s) \in Nat /\ Len(t) \in Nat \ {0}
  BY LengthType, EmptySeq
<1>2. /\ Len(s \o t) = Len(s) + Len(t)
      /\ \A i \in 1 .. Len(s) + Len(t) :
           (s \o t)[i] = IF i <= Len(s) THEN s[i] ELSE t[i - Len(s)]
  BY ConcatProperties
<1>3. (s \o t)[Len(s) + Len(t)] = t[(Len(s) + Len(t)) - Len(s)]
  BY <1>1, <1>2
<1>4. (Len(s) + Len(t)) - Len(s) = Len(t)
  BY <1>1
<1> QED
  BY <1>2, <1>3, <1>4

LEMMA AppendedWhole ==
  ASSUME TypeOK, pending > 0
  PROVE  EndsRecord(past.stream \o Record)
<1>1. /\ Record \in Seq(Byte) /\ Len(Record) = pending
      /\ past.stream \in Seq(Byte) /\ pending \in Nat
  BY RecordType, BoundAssumption DEF TypeOK, CallType, EnvType, HistoryType
<1>2. Record # <<>>
  BY <1>1, NothingWritten
<1>3. Record[pending].last
  <2>1. pending \in 1 .. pending
    BY <1>1
  <2>2. Record[pending].last = (pending = pending)
    BY <2>1 DEF Record
  <2> QED
    BY <2>2
<1> QED
  BY <1>1, <1>2, <1>3, EndOfJoined DEF EndsRecord

(* What is rotated is the end of what the handler was given.               *)
LEMMA RotatedWhole ==
  ASSUME TypeOK, BufferInv, OrderInv, WholeInv, Rename, Clean
  PROVE  EndsRecord(current)
<1>1. h.buffer = <<>> /\ ~ h.bufErr
  BY DEF Rename, BufferInv
<1>2. current \in Seq(Byte) /\ past.shelved \in Seq(Byte)
  BY DEF TypeOK, FilesType, HistoryType
<1>3. past.stream = past.shelved \o current
  BY <1>1, <1>2, ConcatEmptySeq DEF OrderInv, Kept, Held
<1>4. CASE current # <<>>
  <2>1. past.stream[Len(past.stream)] = current[Len(current)]
    BY <1>2, <1>3, <1>4, EndOfJoined
  <2>2. past.stream # <<>>
    BY <1>2, <1>3, <1>4, ConcatEqualIffEmpty
  <2> QED
    BY <2>1, <2>2 DEF WholeInv, EndsRecord
<1> QED
  BY <1>4 DEF EndsRecord

(* Faults and crashes are only ever counted up.                            *)
LEMMA CleanBefore ==
  ASSUME TypeOK, [Next]_vars, Clean'
  PROVE  Clean
<1>1. \/ env' = env \/ \E kind : Fault(kind)
      \/ env' = [env EXCEPT !.writes = @ + 1]
      \/ env' = [env EXCEPT !.crashes = @ + 1]
  BY DEF Next, StartWrite, AppendOK, AppendFails, AppendRefused, Rotate,
         FlushOK, FlushFails, Sync, CloseCurrent, Rename, RenameFails,
         Reopen, Cleanup, OpenNew, StartClose, CloseFile, FinalClose, Tick,
         Crash, Restart, vars
<1>2. env.faults \in Nat /\ env.crashes \in Nat
  BY BoundAssumption DEF TypeOK, EnvType
<1>3. env \in [faults : 0 .. MaxFaults, crashes : 0 .. MaxCrashes,
              writes : 0 .. MaxWrites]
  BY DEF TypeOK, EnvType
<1>4. CASE \E kind : Fault(kind)
  <2>1. env'.faults = env.faults + 1 /\ env'.crashes = env.crashes
    BY <1>3, <1>4 DEF Fault
  <2> QED
    BY <1>2, <2>1 DEF Clean
<1>5. CASE env' = [env EXCEPT !.crashes = @ + 1]
  <2>1. env'.crashes = env.crashes + 1 /\ env'.faults = env.faults
    BY <1>3, <1>5
  <2> QED
    BY <1>2, <2>1 DEF Clean
<1>6. CASE env' = env \/ env' = [env EXCEPT !.writes = @ + 1]
  BY <1>3, <1>6 DEF Clean
<1> QED
  BY <1>1, <1>4, <1>5, <1>6

LEMMA WholeNext ==
  ASSUME TypeOK, BufferInv, OrderInv, WholeInv, [Next]_vars
  PROVE  WholeInv'
<1>0. /\ past \in [stream : Seq(Byte), shelved : Seq(Byte),
                removed : SUBSET Byte, toFlush : Nat]
      /\ Clean' => Clean
  BY CleanBefore DEF TypeOK, HistoryType
<1>1. step' \in RotateSteps \cup {"append"} => pending' > 0
  <2>1. CASE \E size \in 1 .. MaxRecord : StartWrite(size)
    BY <2>1, BoundAssumption DEF StartWrite
  <2>2. CASE Rotate
    <3>1. Return \/ (step \in RotateSteps /\ pending' = pending)
      BY <2>2
         DEF Rotate, FlushOK, FlushFails, Sync, CloseCurrent, Rename,
             RenameFails, Reopen, Cleanup, OpenNew, Goto, RotateSteps
    <3> QED
      BY <3>1 DEF WholeInv, Return, RotateSteps
  <2>3. CASE \/ AppendOK \/ AppendFails \/ AppendRefused \/ StartClose
             \/ CloseFile \/ Crash \/ Restart
    <3>1. step' \in {"idle", "down"} \cup CloseSteps
      BY <2>3
         DEF AppendOK, AppendFails, AppendRefused, StartClose, CloseFile,
             FlushOK, FlushFails, Sync, FinalClose, Crash, Restart, Goto,
             Return, CloseSteps
    <3> QED
      BY <3>1 DEF RotateSteps, CloseSteps
  <2>4. CASE Tick \/ UNCHANGED vars
    BY <2>4 DEF Tick, vars, WholeInv
  <2> QED
    BY <2>1, <2>2, <2>3, <2>4 DEF Next
<1>2. Clean' => EndsRecord(past'.stream)
  <2>1. CASE AppendOK \/ AppendFails
    <3>1. /\ past'.stream = past.stream \o Record /\ step = "append"
      BY <1>0, <2>1 DEF AppendOK, AppendFails
    <3> QED
      BY <3>1, AppendedWhole DEF WholeInv
  <2>2. CASE Crash
    <3>1. /\ env'.crashes = env.crashes + 1 /\ env'.faults = env.faults
          /\ env.crashes \in Nat /\ env.faults \in Nat
      BY <2>2, BoundAssumption DEF Crash, TypeOK, EnvType
    <3> QED
      BY <3>1 DEF Clean
  <2>3. CASE past'.stream = past.stream
    BY <1>0, <2>3 DEF WholeInv
  <2>4. AppendOK \/ AppendFails \/ Crash \/ past'.stream = past.stream
    BY <1>0, CleanupPast
       DEF Next, StartWrite, AppendRefused, Rotate, FlushOK, FlushFails,
           Sync, CloseCurrent, Rename, RenameFails, Reopen,
           OpenNew, StartClose, CloseFile, FinalClose, Tick, Restart, vars,
           TypeOK
  <2> QED
    BY <2>1, <2>2, <2>3, <2>4
<1>3. WholeRecords'
  <2>1. CASE Rename
    <3>1. \A t \in DOMAIN backups' :
            \/ backups'[t] = current
            \/ t \in DOMAIN backups /\ backups'[t] = backups[t]
      BY <2>1 DEF Rename
    <3>2. Clean' => EndsRecord(current)
      BY <1>0, <2>1, RotatedWhole
    <3> QED
      BY <1>0, <3>1, <3>2 DEF WholeInv, WholeRecords, EndsRecord, Clean
  <2>2. CASE \A t \in DOMAIN backups' :
               t \in DOMAIN backups /\ backups'[t] = backups[t]
    BY <1>0, <2>2 DEF WholeInv, WholeRecords, Clean
  <2>3. \/ Rename
        \/ \A t \in DOMAIN backups' :
             t \in DOMAIN backups /\ backups'[t] = backups[t]
    BY DEF Next, StartWrite, AppendOK, AppendFails, AppendRefused, Rotate,
           FlushOK, FlushFails, Sync, CloseCurrent, RenameFails, Reopen,
           Cleanup, Oldest, Restrict, OpenNew, StartClose, CloseFile,
           FinalClose, Tick, Crash, Restart, vars, disk
  <2> QED
    BY <2>1, <2>2, <2>3
<1> QED
  BY <1>1, <1>2, <1>3 DEF WholeInv

(* Rotation does not tear a record apart, whatever the limits, the buffer  *)
(* and the records: as long as nothing fails, a backup ends where a record *)
(* ends.                                                                   *)
THEOREM BackupsHoldWholeRecords == Spec => []WholeRecords
<1>1. WholeInv => WholeRecords
  BY DEF WholeInv
<1> QED
  BY <1>1, InitType, NextType, BufferInit, BufferNext, OrderInit, OrderNext,
     WholeInit, WholeNext, PTL DEF Spec

-----------------------------------------------------------------------------
(* The newest backup                                                       *)

(* The names of the backups are seconds that have come, and finitely many; *)
(* there is a cleanup only with a limit to clean up to.                    *)
BackupInv ==
  /\ IsFiniteSet(DOMAIN backups)
  /\ \A t \in DOMAIN backups : t <= Stamp(now)
  /\ \A t \in DOMAIN backups \ Foreign : t \in Nat
  /\ step = "cleanup" => MaxBackups > 0
  /\ NewestBackupKept

(* A clock that does not go back names files of no earlier seconds.        *)
LEMMA LaterStamp ==
  ASSUME NEW a \in Nat, NEW b \in Nat, a <= b
  PROVE  Stamp(a) \in Nat /\ Stamp(b) \in Nat /\ Stamp(a) <= Stamp(b)
BY ConfigAssumption, SMT DEF Stamp

LEMMA SecondPassed ==
  ASSUME NEW a \in Nat, NEW b \in Nat, b - a >= Second
  PROVE  Stamp(a) < Stamp(b)
BY ConfigAssumption, SMT DEF Stamp

LEMMA BackupInit == Init => BackupInv
<1> SUFFICES ASSUME Init PROVE BackupInv
  OBVIOUS
<1>1. /\ DOMAIN backups = Foreign /\ past.shelved = <<>> /\ now = 0
      /\ step = "idle"
  BY DEF Init
<1>2. Stamp(0) \in Nat
  BY StampType
<1>3. IsFiniteSet(Foreign) /\ \A t \in Foreign : t <= Stamp(now)
  BY <1>1, <1>2, ForeignAssumption
<1> QED
  BY <1>1, <1>3 DEF BackupInv, NewestBackupKept

LEMMA SuffixOfJoined ==
  ASSUME NEW s \in Seq(Byte), NEW t \in Seq(Byte)
  PROVE  Suffix(t, s \o t)
<1>1. /\ s \o t \in Seq(Byte) /\ Len(s \o t) = Len(s) + Len(t)
      /\ \A i \in 1 .. Len(s) + Len(t) :
           (s \o t)[i] = IF i <= Len(s) THEN s[i] ELSE t[i - Len(s)]
  BY ConcatProperties
<1>2. Len(s) \in Nat /\ Len(t) \in Nat
  BY LengthType
<1> DEFINE a == Len(s) + 1
           z == Len(s) + Len(t)
<1>3. /\ a \in Nat /\ z \in Nat /\ 1 <= a /\ a <= z + 1
      /\ z <= Len(s \o t) /\ z - a + 1 = Len(t)
  BY <1>1, <1>2
<1>4. /\ SubSeq(s \o t, a, z) \in Seq(Byte)
      /\ Len(SubSeq(s \o t, a, z)) = Len(t)
  BY <1>1, <1>3, Section
<1>5. \A i \in 1 .. Len(t) : SubSeq(s \o t, a, z)[i] = t[i]
  BY <1>1, <1>2
<1>6. SubSeq(s \o t, a, z) = t
  BY <1>4, <1>5, SeqEqual
<1>7. Len(s \o t) - Len(t) + 1 = a /\ Len(s \o t) = z
        /\ Len(t) <= Len(s \o t)
  BY <1>1, <1>2
<1> QED
  BY <1>6, <1>7 DEF Suffix

LEMMA BackupKept ==
  ASSUME TypeOK, BackupInv, backups' = backups, now' >= now, now' \in Nat,
         past'.shelved = past.shelved, step' = "cleanup" => step = "cleanup"
  PROVE  BackupInv'
<1>1. now \in Nat /\ \A t \in DOMAIN backups : t \in Int
  BY BoundAssumption DEF TypeOK, EnvType, FilesType
<1>2. Stamp(now) \in Nat /\ Stamp(now') \in Nat /\ Stamp(now) <= Stamp(now')
  BY <1>1, LaterStamp
<1>3. PICK i, j : i = Stamp(now) /\ j = Stamp(now')
  OBVIOUS
<1>4. \A t \in DOMAIN backups : t <= j
  BY <1>1, <1>2, <1>3 DEF BackupInv
<1>5. j = Stamp(now)'
  BY <1>3 DEF Stamp
<1>6. NewestBackupKept'
  BY DEF BackupInv, NewestBackupKept
<1> QED
  BY <1>4, <1>5, <1>6 DEF BackupInv

LEMMA BackupRename ==
  ASSUME TypeOK, BackupInv, Rename
  PROVE  BackupInv'
<1>p. PICK sec : sec = Stamp(now)
  OBVIOUS
<1>1. /\ past \in [stream : Seq(Byte), shelved : Seq(Byte),
                   removed : SUBSET Byte, toFlush : Nat]
      /\ current \in Seq(Byte) /\ past.shelved \in Seq(Byte)
      /\ sec \in Nat /\ \A t \in DOMAIN backups : t \in Int
  <2>1. now \in Nat
    BY BoundAssumption DEF TypeOK, EnvType
  <2>2. sec \in Nat
    BY <1>p, <2>1, StampType
  <2> QED
    BY <2>2 DEF TypeOK, HistoryType, FilesType
<1>2. /\ DOMAIN backups' = DOMAIN backups \cup {sec}
      /\ backups'[sec] = current
      /\ past'.shelved = past.shelved \o current
      /\ now' = now
      /\ step' = "cleanup" => MaxBackups > 0
  BY <1>p, <1>1 DEF Rename, Goto
<1>3. IsFiniteSet(DOMAIN backups \cup {sec})
  BY FS_AddElement DEF BackupInv
<1>4. \A t \in DOMAIN backups' : t <= sec
  BY <1>p, <1>1, <1>2 DEF BackupInv
<1>5. Suffix(backups'[sec], past'.shelved)
  BY <1>1, <1>2, SuffixOfJoined
<1>6. sec \in DOMAIN backups' \ Foreign
  BY <1>1, <1>2, ForeignAssumption
<1>7. NewestBackupKept'
  BY <1>4, <1>5, <1>6 DEF NewestBackupKept
<1>8. sec = Stamp(now)'
  BY <1>p, <1>2 DEF Stamp
<1>9. \A t \in DOMAIN backups' \ Foreign : t \in Nat
  BY <1>1, <1>2 DEF BackupInv
<1> QED
  BY <1>2, <1>3, <1>4, <1>7, <1>8, <1>9 DEF BackupInv

(* A cleanup leaves at least MaxBackups files, so one that is not foreign; *)
(* the newest of these is not among the oldest.                            *)
LEMMA BackupCleanup ==
  ASSUME TypeOK, BackupInv, Cleanup
  PROVE  BackupInv'
<1> DEFINE files == DOMAIN backups
<1>1. PICK old \in SUBSET files :
        /\ DOMAIN backups' = files \ old
        /\ \A t \in DOMAIN backups' : backups'[t] = backups[t]
        /\ past' = [past EXCEPT !.removed = @ \cup BytesIn(old)]
        /\ old = {} \/ Cardinality(files \ old) >= MaxBackups
        /\ \A f \in old \ Foreign, g \in files \ (old \cup Foreign) : f < g
  BY CleanupEffect DEF BackupInv
<1>2. /\ now' = now /\ step' = "open" /\ MaxBackups > 0
      /\ past'.shelved = past.shelved
  BY <1>1 DEF Cleanup, Goto, BackupInv, TypeOK, HistoryType
<1>3. IsFiniteSet(files) /\ \A t \in files : t \in Int
  BY DEF BackupInv, TypeOK, FilesType
<1>4. IsFiniteSet(files \ old)
  BY <1>3, FS_Subset
<1>5. ASSUME past.shelved # <<>>, Cardinality(Foreign) < MaxBackups
      PROVE  \E t \in DOMAIN backups' \ Foreign :
               /\ \A u \in DOMAIN backups' : u <= t
               /\ Suffix(backups'[t], past.shelved)
  <2>1. PICK t \in files \ Foreign :
          /\ \A u \in files : u <= t
          /\ Suffix(backups[t], past.shelved)
    BY <1>5 DEF BackupInv, NewestBackupKept
  <2>2. SUFFICES ASSUME t \in old PROVE FALSE
    BY <1>1, <2>1
  <2>3. files \ old \subseteq Foreign
    <3>1. SUFFICES ASSUME NEW g \in files \ (old \cup Foreign) PROVE FALSE
      OBVIOUS
    <3>2. t < g /\ g <= t
      BY <1>1, <2>1, <2>2, <3>1
    <3> QED
      BY <1>3, <3>1, <3>2
  <2>4. /\ Cardinality(files \ old) <= Cardinality(Foreign)
        /\ Cardinality(files \ old) \in Nat /\ Cardinality(Foreign) \in Nat
    BY <1>4, <2>3, ForeignAssumption, FS_Subset, FS_CardinalityType
  <2>5. Cardinality(files \ old) >= MaxBackups
    BY <1>1, <2>2
  <2> QED
    BY <1>5, <2>4, <2>5, ConfigAssumption
<1>6. NewestBackupKept'
  BY <1>2, <1>5 DEF NewestBackupKept
<1>7. /\ \A t \in DOMAIN backups' : t <= Stamp(now)
      /\ \A t \in DOMAIN backups' \ Foreign : t \in Nat
  BY <1>1 DEF BackupInv
<1>8. Stamp(now)' = Stamp(now)
  BY <1>2 DEF Stamp
<1> QED
  BY <1>1, <1>2, <1>4, <1>6, <1>7, <1>8 DEF BackupInv

LEMMA BackupNext ==
  ASSUME TypeOK, BackupInv, [Next]_vars
  PROVE  BackupInv'
<1>0. /\ past \in [stream : Seq(Byte), shelved : Seq(Byte),
                removed : SUBSET Byte, toFlush : Nat]
      /\ now \in Nat /\ \A t \in DOMAIN backups : t \in Int
  BY BoundAssumption DEF TypeOK, HistoryType, FilesType, EnvType
<1>1. CASE Rename
  BY <1>1, BackupRename
<1>2. CASE Cleanup
  BY <1>2, BackupCleanup
<1>3. CASE ~ Rename /\ ~ Cleanup
  <2>1. backups' = backups /\ (now' = now \/ now' = now + 1)
    BY <1>3
       DEF Next, StartWrite, AppendOK, AppendFails, AppendRefused, Rotate,
           FlushOK, FlushFails, Sync, CloseCurrent, RenameFails, Reopen,
           OpenNew, StartClose, CloseFile, FinalClose, Tick, Crash,
           Restart, Goto, Return, vars, disk
  <2>2. past'.shelved = past.shelved
    BY <1>0, <1>3
       DEF Next, StartWrite, AppendOK, AppendFails, AppendRefused, Rotate,
           FlushOK, FlushFails, Sync, CloseCurrent, RenameFails, Reopen,
           OpenNew, StartClose, CloseFile, FinalClose, Tick, Crash,
           Restart, vars
  <2>3. step' = "cleanup" => step = "cleanup"
    BY <1>3
       DEF Next, StartWrite, AppendOK, AppendFails, AppendRefused, Rotate,
           FlushOK, FlushFails, Sync, CloseCurrent, RenameFails, Reopen,
           OpenNew, StartClose, CloseFile, FinalClose, Tick, Crash,
           Restart, Goto, Return, vars
  <2>4. now' >= now /\ now' \in Nat
    BY <1>0, <2>1
  <2> QED
    BY <2>1, <2>2, <2>3, <2>4, BackupKept
<1> QED
  BY <1>1, <1>2, <1>3

(* While fewer than MaxBackups foreign files are beside the log,           *)
(* cleanupOldBackups never takes the newest backup, whenever the foreign   *)
(* files were modified, for every number of files it finds, every limit,   *)
(* and also when a Remove fails.                                           *)
THEOREM NewestIsKept == Spec => []NewestBackupKept
<1>1. BackupInv => NewestBackupKept
  BY DEF BackupInv
<1> QED
  BY <1>1, InitType, NextType, BackupInit, BackupNext, PTL DEF Spec

-----------------------------------------------------------------------------
(* What becomes of a backup                                                *)

(* As long as the file can be rotated, no backup is of a later second than *)
(* the one it was opened in.                                               *)
SecondsInv ==
  (h.fileOpen \/ step \in {"close", "rename", "reopen"})
    => \A t \in DOMAIN backups : t <= Stamp(h.lastRotate)

LEMMA SecondsInit == Init => SecondsInv
<1> SUFFICES ASSUME Init PROVE SecondsInv
  OBVIOUS
<1>1. BackupInv /\ now = h.lastRotate
  BY BackupInit DEF Init, Opened
<1> QED
  BY <1>1 DEF SecondsInv, BackupInv

LEMMA SecondsNext ==
  ASSUME TypeOK, RotationInv, BackupInv, SecondsInv, [Next]_vars
  PROVE  SecondsInv'
<1> USE DEF SecondsInv, RotationInv
<1>0. h \in Handlers
  BY DEF TypeOK, HandlerType
<1>1. ASSUME NEW size \in 1 .. MaxRecord, StartWrite(size)
      PROVE  SecondsInv'
  BY <1>1 DEF StartWrite, disk
<1>2. CASE AppendOK \/ AppendFails \/ AppendRefused
  <2>1. /\ h'.fileOpen = h.fileOpen /\ h'.lastRotate = h.lastRotate
        /\ step' = "idle" /\ backups' = backups
    BY <1>0, <1>2
       DEF AppendOK, AppendFails, AppendRefused, Return, Handlers, disk
  <2> QED
    BY <2>1
<1>3. CASE \/ FlushOK("flush", "sync") \/ FlushFails("flush")
           \/ FlushOK("finalFlush", "finalSync") \/ FlushFails("finalFlush")
  <2>1. /\ h'.fileOpen => h.fileOpen
        /\ h'.lastRotate = h.lastRotate
        /\ step' \in {"sync", "finalSync", "idle"} /\ backups' = backups
    BY <1>0, <1>3 DEF FlushOK, FlushFails, GiveUp, Goto, Return, Handlers
  <2> QED
    BY <2>1
<1>4. CASE Sync("sync", "close") \/ Sync("finalSync", "finalClose")
  <2>1. /\ h'.fileOpen => h.fileOpen
        /\ h'.lastRotate = h.lastRotate
        /\ step' = "close" => h.fileOpen
        /\ step' \in {"close", "finalClose", "idle"} /\ backups' = backups
    BY <1>0, <1>4 DEF Sync, GiveUp, Goto, Return, Handlers, disk
  <2> QED
    BY <2>1
<1>5. CASE CloseCurrent
  <2>1. /\ ~ h'.fileOpen /\ h'.lastRotate = h.lastRotate
        /\ step = "close" /\ step' \in {"rename", "idle"}
        /\ backups' = backups
    BY <1>0, <1>5 DEF CloseCurrent, Goto, Return, Handlers, disk
  <2> QED
    BY <2>1
<1>6. CASE Rename \/ Cleanup
  BY <1>6 DEF Rename, Cleanup, Goto
<1>7. CASE RenameFails
  BY <1>7 DEF RenameFails, Goto, disk
<1>8. CASE Reopen
  <2>1. /\ h'.lastRotate = h.lastRotate
        /\ step = "reopen" /\ step' = "idle" /\ backups' = backups
    BY <1>0, <1>8 DEF Reopen, Reopened, Return, Handlers, disk
  <2> QED
    BY <2>1
<1>9. CASE OpenNew
  BY <1>9 DEF OpenNew, Rotated, Opened, Goto, Return, disk, BackupInv
<1>10. CASE StartClose
  BY <1>10 DEF StartClose, disk
<1>11. CASE FinalClose
  BY <1>0, <1>11 DEF FinalClose, Handlers, disk
<1>12. CASE Tick
  BY <1>12 DEF Tick, disk
<1>13. CASE Crash
  BY <1>0, <1>13 DEF Crash, Handlers, disk
<1>14. CASE Restart
  BY <1>14 DEF Restart, Opened, disk, BackupInv
<1>15. CASE UNCHANGED vars
  BY <1>15 DEF vars, disk
<1> QED
  BY <1>1, <1>2, <1>3, <1>4, <1>5, <1>6, <1>7, <1>8, <1>9, <1>10, <1>11,
     <1>12, <1>13, <1>14, <1>15 DEF Next, Rotate, CloseFile

(* A rotation by an age of a second or more gives its file the name of a   *)
(* later second than that of any backup there is.                          *)
LEMMA LaterSecond ==
  ASSUME TypeOK, RotationInv, SecondsInv, step = "rename",
         ~ SizeReached, ~ QuickAge
  PROVE  \A t \in DOMAIN backups : t < Stamp(now)
<1>1. /\ h.lastRotate \in Nat /\ now \in Nat
      /\ \A t \in DOMAIN backups : t \in Int
  BY BoundAssumption
     DEF TypeOK, HandlerType, Handlers, EnvType, FilesType
<1>2. AgeReached(MaxAge) \/ AgeReached(RotateInterval)
  BY DEF RotationInv, RotateSteps, NeedRotate
<1>3. PICK limit \in {MaxAge, RotateInterval} : AgeReached(limit)
  BY <1>2
<1>4. limit >= Second /\ limit \in Nat
  BY <1>3, ConfigAssumption DEF QuickAge
<1>5. now - h.lastRotate >= Second
  BY <1>1, <1>3, <1>4, ConfigAssumption DEF AgeReached
<1>6. PICK last : last = h.lastRotate
  OBVIOUS
<1>7. Stamp(last) < Stamp(now)
  BY <1>1, <1>5, <1>6, SecondPassed
<1>8. Stamp(last) \in Nat /\ Stamp(now) \in Nat
  BY <1>1, <1>6, StampType
<1>9. \A t \in DOMAIN backups : t <= Stamp(last)
  BY <1>6 DEF SecondsInv
<1> QED
  BY <1>1, <1>7, <1>8, <1>9

LEMMA OtherStepsLeaveBackups ==
  ASSUME [Next]_vars, ~ Rename, ~ Cleanup
  PROVE  backups' = backups
BY DEF Next, StartWrite, AppendOK, AppendFails, AppendRefused, Rotate,
       FlushOK, FlushFails, Sync, CloseCurrent, RenameFails, Reopen,
       OpenNew, StartClose, CloseFile, FinalClose, Tick, Crash, Restart,
       vars, disk

LEMMA BackupStep ==
  ASSUME TypeOK, RotationInv, BackupInv, SecondsInv, [Next]_vars,
         NEW t \in DOMAIN backups
  PROVE  Untouched(t) \/ CleanedUp(t) \/ Replaced(t)
<1>1. CASE Rename
  <2>p. PICK sec : sec = Stamp(now)
    OBVIOUS
  <2>1. /\ step = "rename" /\ t \in DOMAIN backups'
        /\ t # sec => backups'[t] = backups[t]
    BY <1>1, <2>p DEF Rename
  <2>2. CASE t # sec
    BY <2>1, <2>2 DEF Untouched
  <2>3. CASE t = sec
    <3>1. sec \in Nat
      BY <2>p, StampType, BoundAssumption DEF TypeOK, EnvType
    <3>2. SizeReached \/ QuickAge
      BY <2>p, <2>1, <2>3, <3>1, LaterSecond
    <3> QED
      BY <2>p, <2>1, <2>3, <3>2 DEF Replaced
  <2> QED
    BY <2>2, <2>3
<1>2. CASE Cleanup
  <2> DEFINE files == DOMAIN backups
  <2>1. PICK old \in SUBSET files :
          /\ DOMAIN backups' = files \ old
          /\ \A u \in DOMAIN backups' : backups'[u] = backups[u]
          /\ old = {} \/ Cardinality(files \ old) >= MaxBackups
          /\ \A f \in old \ Foreign, g \in files \ (old \cup Foreign) : f < g
    BY <1>2, CleanupEffect DEF BackupInv
  <2>2. step = "cleanup" /\ MaxBackups > 0
    BY <1>2 DEF Cleanup, BackupInv
  <2>3. CASE t \notin old
    BY <2>1, <2>3 DEF Untouched
  <2>4. CASE t \in old
    <3>1. Cardinality(DOMAIN backups') >= MaxBackups
      BY <2>1, <2>4
    <3>2. \A u \in DOMAIN backups' : u > t \/ u \in Foreign
      BY <2>1, <2>4, ForeignAssumption DEF BackupInv, TypeOK, FilesType
    <3> QED
      BY <2>1, <2>2, <2>4, <3>1, <3>2 DEF CleanedUp
  <2> QED
    BY <2>3, <2>4
<1>3. CASE ~ Rename /\ ~ Cleanup
  BY <1>3, OtherStepsLeaveBackups DEF Untouched
<1> QED
  BY <1>1, <1>2, <1>3

(* No step but a cleanup that leaves MaxBackups files, newer or foreign,   *)
(* and a rotation in the backup's own second, by size or by a limit below  *)
(* a second, takes or changes a backup: not a rotation that fails, not one *)
(* by a limit of a second or more, no crash, restart or Close.             *)
THEOREM BackupsAreLeftAlone == Spec => BackupsStay
<1>1. ASSUME TypeOK, RotationInv, BackupInv, SecondsInv, [Next]_vars
      PROVE  [\A t \in DOMAIN backups :
                Untouched(t) \/ CleanedUp(t) \/ Replaced(t)]_vars
  BY <1>1, BackupStep
<1> QED
  BY <1>1, InitType, NextType, RotationInit, RotationNext, BackupInit,
     BackupNext, SecondsInit, SecondsNext, PTL DEF Spec, BackupsStay

-----------------------------------------------------------------------------
(* Nothing rotated out is lost                                             *)

(* The backups, in the order of their names, stand one behind the other in *)
(* what has been rotated out: at[t] bytes are in front of backup t.        *)
Behind(at, t) == at[t] + Len(backups[t])

LaidOut(at) ==
  /\ \A t \in DOMAIN backups :
       /\ Behind(at, t) <= Len(past.shelved)
       /\ backups[t] = SubSeq(past.shelved, at[t] + 1, Behind(at, t))
  /\ \A t, u \in DOMAIN backups : t < u => Behind(at, t) <= at[u]
  /\ \A k \in 1 .. Len(past.shelved) :
       \E t \in DOMAIN backups : at[t] < k /\ k <= Behind(at, t)

AllThere == \E at \in [DOMAIN backups -> Nat] : LaidOut(at)

LEMMA AllThereInit == Init => AllThere
<1> SUFFICES ASSUME Init PROVE AllThere
  OBVIOUS
<1>1. /\ \A t \in DOMAIN backups : backups[t] = <<>>
      /\ past.shelved = <<>> /\ Len(<<>>) = 0
  BY EmptySeq DEF Init
<1> DEFINE at == [t \in DOMAIN backups |-> 0]
<1>2. /\ at \in [DOMAIN backups -> Nat]
      /\ \A t \in DOMAIN backups : at[t] = 0
  OBVIOUS
<1>3. SubSeq(<<>>, 1, 0) = <<>>
  OBVIOUS
<1> HIDE DEF at
<1>4. \A t \in DOMAIN backups : Behind(at, t) = 0
  BY <1>1, <1>2 DEF Behind
<1>5. Len(past.shelved) = 0
  BY <1>1
<1>6. ASSUME NEW t \in DOMAIN backups
      PROVE  /\ Behind(at, t) <= Len(past.shelved)
             /\ backups[t] = SubSeq(past.shelved, at[t] + 1, Behind(at, t))
  <2>1. PICK i, j : i = at[t] + 1 /\ j = Behind(at, t)
    OBVIOUS
  <2>2. i = 1 /\ j = 0
    BY <1>2, <1>4, <2>1
  <2>3. SubSeq(past.shelved, i, j) = <<>>
    BY <1>1, <1>3, <2>2
  <2>4. backups[t] = SubSeq(past.shelved, at[t] + 1, Behind(at, t))
    BY <1>1, <2>1, <2>3
  <2>5. Behind(at, t) <= Len(past.shelved)
    BY <1>5, <2>1, <2>2
  <2> QED
    BY <2>4, <2>5
<1>7. \A t, u \in DOMAIN backups : t < u => Behind(at, t) <= at[u]
  BY <1>2, <1>4
<1>8. LaidOut(at)
  BY <1>5, <1>6, <1>7 DEF LaidOut
<1> QED
  BY <1>2, <1>8 DEF AllThere

(* A section of the front of two sequences is one of the first of them.    *)
LEMMA SectionOfFront ==
  ASSUME NEW s \in Seq(Byte), NEW t \in Seq(Byte),
         NEW i \in Nat, NEW j \in Nat, 1 <= i, i <= j + 1, j <= Len(s)
  PROVE  SubSeq(s \o t, i, j) = SubSeq(s, i, j)
<1>1. /\ s \o t \in Seq(Byte) /\ Len(s \o t) = Len(s) + Len(t)
      /\ \A k \in 1 .. Len(s) + Len(t) :
           (s \o t)[k] = IF k <= Len(s) THEN s[k] ELSE t[k - Len(s)]
  BY ConcatProperties
<1>2. Len(s) \in Nat /\ Len(t) \in Nat
  BY LengthType
<1>3. /\ SubSeq(s, i, j) \in Seq(Byte) /\ Len(SubSeq(s, i, j)) = j - i + 1
      /\ SubSeq(s \o t, i, j) \in Seq(Byte)
      /\ Len(SubSeq(s \o t, i, j)) = j - i + 1
  BY <1>1, <1>2, Section
<1>4. \A k \in 1 .. j - i + 1 : SubSeq(s \o t, i, j)[k] = SubSeq(s, i, j)[k]
  BY <1>1, <1>2
<1> QED
  BY <1>3, <1>4, SeqEqual

(* The last piece of two sequences is the second of them.                  *)
LEMMA SectionOfBack ==
  ASSUME NEW s \in Seq(Byte), NEW t \in Seq(Byte)
  PROVE  SubSeq(s \o t, Len(s) + 1, Len(s) + Len(t)) = t
<1>1. /\ s \o t \in Seq(Byte) /\ Len(s \o t) = Len(s) + Len(t)
      /\ Len(s) \in Nat /\ Len(t) \in Nat
  BY Joined, LengthType
<1>2. Suffix(t, s \o t)
  BY SuffixOfJoined
<1>3. Len(s \o t) - Len(t) + 1 = Len(s) + 1
  BY <1>1
<1> QED
  BY <1>1, <1>2, <1>3 DEF Suffix

LEMMA AllThereRename ==
  ASSUME TypeOK, RotationInv, SecondsInv, AllThere, Rename,
         ~ SizeReached, ~ QuickAge
  PROVE  AllThere'
<1>s. PICK sec : sec = Stamp(now)
  OBVIOUS
<1>1. /\ past \in [stream : Seq(Byte), shelved : Seq(Byte),
                removed : SUBSET Byte, toFlush : Nat]
      /\ current \in Seq(Byte) /\ past.shelved \in Seq(Byte)
      /\ sec \in Nat
      /\ \A t \in DOMAIN backups : t \in Int /\ backups[t] \in Seq(Byte)
  BY <1>s, StampType, BoundAssumption DEF TypeOK, HistoryType, FilesType, EnvType
<1> DEFINE old == past.shelved
           all == past'.shelved
<1>2. /\ DOMAIN backups' = DOMAIN backups \cup {sec}
      /\ backups'[sec] = current
      /\ \A t \in DOMAIN backups : t # sec => backups'[t] = backups[t]
      /\ all = old \o current
      /\ step = "rename"
  BY <1>s, <1>1 DEF Rename
<1>3. \A t \in DOMAIN backups : t < sec
  BY <1>s, <1>2, LaterSecond
<1>4. sec \notin DOMAIN backups
  BY <1>1, <1>3
<1>5. /\ Len(old) \in Nat /\ Len(current) \in Nat
      /\ Len(all) = Len(old) + Len(current)
      /\ \A t \in DOMAIN backups : Len(backups[t]) \in Nat
  BY <1>1, <1>2, Joined, LengthType
<1>p. PICK at \in [DOMAIN backups -> Nat] : LaidOut(at)
  BY DEF AllThere
<1> DEFINE at2 == [t \in DOMAIN backups \cup {sec} |->
                     IF t = sec THEN Len(old) ELSE at[t]]
<1>6. /\ at2 \in [DOMAIN backups' -> Nat]
      /\ at2[sec] = Len(old)
      /\ \A t \in DOMAIN backups : at2[t] = at[t]
  BY <1>2, <1>4, <1>5
<1>7. \A t \in DOMAIN backups :
        /\ at[t] \in Nat
        /\ backups'[t] = backups[t]
        /\ Behind(at, t) = at[t] + Len(backups[t])
        /\ Behind(at, t) <= Len(old)
        /\ backups[t] = SubSeq(old, at[t] + 1, Behind(at, t))
  BY <1>2, <1>4, <1>p DEF LaidOut, Behind
<1> DEFINE End(t) == at2[t] + Len(backups'[t])
<1>8. /\ End(sec) = Len(all)
      /\ \A t \in DOMAIN backups : End(t) = Behind(at, t)
  <2>1. End(sec) = Len(all)
    BY <1>2, <1>5, <1>6
  <2>2. ASSUME NEW t \in DOMAIN backups PROVE End(t) = Behind(at, t)
    <3>1. at2[t] = at[t] /\ backups'[t] = backups[t]
      BY <1>6, <1>7
    <3> QED
      BY <1>7, <3>1
  <2> QED
    BY <2>1, <2>2
<1> HIDE DEF at2, End, old, all
<1>9. ASSUME NEW t \in DOMAIN backups'
      PROVE  /\ End(t) <= Len(all)
             /\ backups'[t] = SubSeq(all, at2[t] + 1, End(t))
  <2>1. CASE t = sec
    <3>p. PICK s, c : s = past.shelved /\ c = current
      OBVIOUS
    <3>1. s \in Seq(Byte) /\ c \in Seq(Byte) /\ old = s /\ all = s \o c
      BY <1>1, <1>2, <3>p DEF old
    <3>2. SubSeq(s \o c, Len(s) + 1, Len(s) + Len(c)) = c
      BY <3>1, SectionOfBack
    <3>3. SubSeq(all, Len(old) + 1, Len(all)) = current
      BY <1>5, <3>p, <3>1, <3>2
    <3>4. End(t) = Len(all) /\ End(t) <= Len(all)
      BY <1>5, <1>8, <2>1
    <3>5. backups'[t] = current /\ at2[t] = Len(old)
      BY <1>2, <1>6, <2>1
    <3> QED
      BY <3>3, <3>4, <3>5
  <2>2. CASE t \in DOMAIN backups
    <3>1. /\ Behind(at, t) \in Nat /\ at[t] + 1 \in Nat /\ 1 <= at[t] + 1
          /\ at[t] + 1 <= Behind(at, t) + 1 /\ Behind(at, t) <= Len(old)
      BY <1>5, <1>7, <2>2
    <3>2. SubSeq(all, at[t] + 1, Behind(at, t))
            = SubSeq(old, at[t] + 1, Behind(at, t))
      <4>p. PICK s, c, i, j : /\ s = past.shelved /\ c = current
                              /\ i = at[t] + 1 /\ j = Behind(at, t)
        OBVIOUS
      <4>1. s \in Seq(Byte) /\ c \in Seq(Byte) /\ old = s /\ all = s \o c
        BY <1>1, <1>2, <4>p DEF old
      <4>2. i \in Nat /\ j \in Nat /\ 1 <= i /\ i <= j + 1 /\ j <= Len(s)
        BY <3>1, <4>p, <4>1
      <4>3. SubSeq(s \o c, i, j) = SubSeq(s, i, j)
        BY <4>1, <4>2, SectionOfFront
      <4> QED
        BY <4>p, <4>1, <4>3
    <3>3. /\ End(t) = Behind(at, t) /\ at2[t] = at[t]
          /\ backups'[t] = SubSeq(old, at[t] + 1, Behind(at, t))
      BY <1>6, <1>7, <1>8, <2>2
    <3>4. End(t) <= Len(all)
      BY <1>5, <3>1, <3>3
    <3> QED
      BY <3>2, <3>3, <3>4
  <2> QED
    BY <1>2, <2>1, <2>2
<1>10. ASSUME NEW t \in DOMAIN backups', NEW u \in DOMAIN backups', t < u
       PROVE  End(t) <= at2[u]
  <2>1. t # sec
    BY <1>1, <1>2, <1>3, <1>10
  <2>2. t \in DOMAIN backups
    BY <1>2, <2>1
  <2>3. CASE u = sec
    BY <1>6, <1>7, <1>8, <2>2, <2>3
  <2>4. CASE u \in DOMAIN backups
    BY <1>6, <1>8, <1>10, <1>p, <2>2, <2>4 DEF LaidOut
  <2> QED
    BY <1>2, <2>3, <2>4
<1>11. ASSUME NEW k \in 1 .. Len(all)
       PROVE  \E t \in DOMAIN backups' : at2[t] < k /\ k <= End(t)
  <2>1. CASE k <= Len(old)
    <3>1. k \in 1 .. Len(old)
      BY <1>5, <2>1
    <3>p. PICK t \in DOMAIN backups : at[t] < k /\ k <= Behind(at, t)
      BY <1>p, <3>1 DEF LaidOut, old
    <3> QED
      BY <1>2, <1>6, <1>8, <3>p
  <2>2. CASE Len(old) < k
    BY <1>2, <1>5, <1>6, <1>8, <2>2
  <2> QED
    BY <1>5, <2>1, <2>2
<1>12. PICK f \in [DOMAIN backups' -> Nat] : f = at2
  BY <1>6
<1>13. LaidOut(f)'
  BY <1>9, <1>10, <1>11, <1>12 DEF LaidOut, Behind, End, all
<1> QED
  BY <1>13 DEF AllThere

(* The limits that keep all backups: none on the size, none on their       *)
(* number, and each one on the age off or at least a second.               *)
KeepAll ==
  /\ MaxSize = 0 /\ MaxBackups = 0
  /\ \A limit \in {MaxAge, RotateInterval} : limit = 0 \/ limit >= Second

LEMMA KeepAllIsSlow ==
  ASSUME KeepAll
  PROVE  ~ SizeReached /\ ~ QuickAge
<1>1. ~ SizeReached
  BY DEF KeepAll, SizeReached
<1>2. ASSUME NEW limit \in {MaxAge, RotateInterval},
             limit < Second, AgeReached(limit)
      PROVE  FALSE
  BY <1>2, ConfigAssumption DEF KeepAll, AgeReached
<1> QED
  BY <1>1, <1>2 DEF QuickAge

AllKeptInv == AllThere /\ past.removed = {}

LEMMA AllKeptInit == Init => AllKeptInv
BY AllThereInit DEF Init, AllKeptInv

LEMMA AllKeptNext ==
  ASSUME KeepAll, TypeOK, RotationInv, BackupInv, SecondsInv, AllKeptInv,
         [Next]_vars
  PROVE  AllKeptInv'
<1>0. AllThere /\ past.removed = {}
  BY DEF AllKeptInv
<1>1. CASE Rename
  <2>1. AllThere'
    BY <1>0, <1>1, KeepAllIsSlow, AllThereRename
  <2>2. \A t \in DOMAIN backups : t < Stamp(now)
    BY <1>1, KeepAllIsSlow, LaterSecond DEF Rename
  <2>3. Stamp(now) \notin DOMAIN backups
    <3>1. Stamp(now) \in Nat
      BY StampType, BoundAssumption DEF TypeOK, EnvType
    <3> QED
      BY <2>2, <3>1
  <2>4. BytesIn({Stamp(now)} \cap DOMAIN backups) = {}
    BY <2>3 DEF BytesIn
  <2>5. PICK x, y : /\ x = past.shelved \o current
                    /\ y = BytesIn({Stamp(now)} \cap DOMAIN backups)
    OBVIOUS
  <2>6. past' = [past EXCEPT !.shelved = x, !.removed = @ \cup y]
    BY <1>1, <2>5 DEF Rename
  <2>7. past'.removed = {}
    BY <1>0, <2>4, <2>5, <2>6 DEF TypeOK, HistoryType
  <2> QED
    BY <2>1, <2>7 DEF AllKeptInv
<1>2. CASE Cleanup
  BY <1>2, ConfigAssumption DEF Cleanup, BackupInv, KeepAll
<1>3. CASE ~ Rename /\ ~ Cleanup
  <2>1. backups' = backups
    BY <1>3, OtherStepsLeaveBackups
  <2>2. past'.shelved = past.shelved /\ past'.removed = past.removed
    BY <1>3
       DEF Next, StartWrite, AppendOK, AppendFails, AppendRefused, Rotate,
           FlushOK, FlushFails, Sync, CloseCurrent, RenameFails, Reopen,
           OpenNew, StartClose, CloseFile, FinalClose, Tick, Crash,
           Restart, vars, TypeOK, HistoryType
  <2> QED
    BY <1>0, <2>1, <2>2 DEF AllKeptInv, AllThere, LaidOut, Behind
<1> QED
  BY <1>1, <1>2, <1>3

(* "MaxBackups ... (0 = keep all)" holds where rotation is by limits on    *)
(* the age of a second or more: no byte that was rotated out disappears,   *)
(* and the backups in the order of their names hold these bytes in their   *)
(* order, without a gap.  With rotation by size, or by a limit below a     *)
(* second, it is false: see Replaced.                                      *)
THEOREM AllIsKept == KeepAll => (Spec => [](AllThere /\ AllBackupsKept))
<1> SUFFICES ASSUME KeepAll PROVE Spec => [](AllThere /\ AllBackupsKept)
  OBVIOUS
<1>1. TypeOK /\ RotationInv /\ BackupInv /\ SecondsInv /\ AllKeptInv
        /\ [Next]_vars => AllKeptInv'
  BY AllKeptNext
<1>2. AllKeptInv => AllThere /\ AllBackupsKept
  BY DEF AllKeptInv, AllBackupsKept
<1> QED
  BY <1>1, <1>2, AllKeptInit, InitType, NextType, RotationInit, RotationNext,
     BackupInit, BackupNext, SecondsInit, SecondsNext, PTL DEF Spec
===============================================================================
