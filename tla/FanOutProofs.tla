----------------------------- MODULE FanOutProofs -----------------------------
(***************************************************************************)
(* Theorems about FanOut, for any number of loggers, children, entries and *)
(* records.                                                                *)
(***************************************************************************)
EXTENDS FanOut, FiniteSetTheorems, FunctionTheorems, SequenceTheorems, TLAPS

(* What holds of the call of producer p whenever it is d: its pc fits the  *)
(* child it is at, and it has the entries it needs.                        *)
CallOK(p, d) ==
  LET child == Handlers[p][d.at]
      mine  == IF d.own = NoCell THEN d.cell ELSE d.own
  IN /\ d.at \in DOMAIN Handlers[p] /\ d.record.src = p
     /\ d.pc \in {"get", "send", "evict"} => child \in Async
     /\ d.pc = "plain" => child \in Plain
     /\ d.pc \in {"try", "await", "locked", "lockedText", "direct"}
          => child \in Sync \cup Async
     /\ d.pc # "idle" /\ NeedsEntry(p, d.record) => d.cell \in Cell
     /\ d.pc \notin {"idle", "recycle", "get"} /\ child \in Async => mine \in Cell
     /\ d.pc = "recycle" => NeedsEntry(p, d.record) /\ RecycleEntry(p)
     /\ d.pc = "get" => ~d.record.args
     /\ d.own # NoCell => /\ d.pc \notin {"idle", "recycle", "get"}
                          /\ child \in Async /\ ~d.record.args

CallInv == \A p \in Producers : CallOK(p, call[p])

WorkerInv ==
  \A c \in Async : worker[c].pc \in {"lock", "write", "put"}
                     => worker[c].cell \in Cell

TypeInv == TypeOK /\ CallInv /\ WorkerInv

-----------------------------------------------------------------------------
(* The values that the steps compute                                       *)

LEMMA LoggedType ==
  ASSUME NEW r \in Record PROVE Logged(r) \in Pool!Entry
<1>1. FieldsOf(r) \in Seq(Record)
  <2>1. [r EXCEPT !.seq = 0, !.args = FALSE] \in Record
    <3>1. 0 \in 0 .. MaxLogs BY BoundAssumption
    <3> QED BY <3>1, Zenon DEF Record
  <2> QED BY <2>1 DEF FieldsOf
<1>2. CallerOf(r) \in Record \cup {NoRecord}
  BY DEF CallerOf
<1> QED BY <1>1, <1>2 DEF Logged, Pool!Entry

LEMMA FilledType ==
  ASSUME Pool!PoolTypeOK, NEW e \in Cell, NEW r \in Record
  PROVE  Filled(e, r) \in Pool!Entry
BY LoggedType DEF Filled, Pool!PoolTypeOK, Pool!Entry

(* Where a call enters a child says what kind of child it is.              *)
LEMMA EnteringChild ==
  ASSUME NEW p \in Producers, NEW i \in DOMAIN Handlers[p], NEW r \in Record
  PROVE  /\ Handlers[p][i] \in Child
         /\ Handlers[p][i] \in Sync => Entering(p, i, r) = "try"
         /\ Handlers[p][i] \in Plain => Entering(p, i, r) = "plain"
         /\ Handlers[p][i] \in Async =>
              Entering(p, i, r) = IF r.args THEN "send" ELSE "get"
BY LoggerAssumption, ChildAssumption DEF Entering, Child

LEMMA FastChildren ==
  ASSUME NEW p \in Producers, NEW i \in DOMAIN Handlers[p], NEW r \in Record,
         Handlers[p][i] \in Plain
  PROVE  NeedsEntry(p, r)
BY DEF NeedsEntry, AllFast, Range

LEMMA EnteringOK ==
  ASSUME NEW p \in Producers, NEW d \in Call, d.at \in DOMAIN Handlers[p],
         d.record.src = p, d.pc = Entering(p, d.at, d.record),
         NeedsEntry(p, d.record) => d.cell \in Cell, d.own = NoCell
  PROVE  CallOK(p, d)
<1>1. d.record \in Record BY DEF Call
<1> QED
  BY <1>1, EnteringChild, FastChildren, ChildAssumption
     DEF CallOK, Child, NeedsEntry

LEMMA AfterOK ==
  ASSUME TypeInv, NEW p \in Producers, NEW error \in BOOLEAN,
         call[p].pc # "idle"
  PROVE  After(p, error) \in Call /\ CallOK(p, After(p, error))
<1> DEFINE c == call[p]
           bad == c.failed \/ error
           more == [c EXCEPT !.pc = Entering(p, c.at + 1, c.record), !.at = @ + 1,
                    !.own = NoCell, !.text = Pool!Zero, !.failed = bad]
           last == [c EXCEPT !.pc = IF Recycles(p, bad) THEN "recycle" ELSE "idle",
                    !.cell = IF Recycles(p, bad) THEN @ ELSE NoCell,
                    !.own = NoCell, !.text = Pool!Zero, !.failed = bad]
<1>1. c \in Call /\ CallOK(p, c) /\ Pool!Zero \in Pool!Entry
  BY DEF TypeInv, TypeOK, CallInv, Pool!Zero, Pool!Entry
<1>2. CASE c.at < Len(Handlers[p])
  <2>1. c.at + 1 \in DOMAIN Handlers[p] /\ c.at + 1 \in Nat
    BY <1>1, <1>2, LoggerAssumption DEF CallOK, Call
  <2>2. Entering(p, c.at + 1, c.record) \in CallPCs
    BY <1>1, <2>1, EnteringChild DEF Call, CallPCs, Child
  <2>3. more \in Call
    BY <1>1, <2>1, <2>2 DEF Call
  <2>4. CallOK(p, more)
    <3>1. /\ more.at = c.at + 1 /\ more.record = c.record /\ more.own = NoCell
          /\ more.pc = Entering(p, c.at + 1, c.record) /\ more.cell = c.cell
      BY <1>1 DEF Call
    <3> HIDE DEF more
    <3> QED BY <1>1, <2>1, <2>3, <3>1, EnteringOK DEF CallOK
  <2>5. After(p, error) = more BY <1>2 DEF After
  <2> QED BY <2>3, <2>4, <2>5
<1>3. CASE ~(c.at < Len(Handlers[p]))
  <2>1. last \in Call BY <1>1 DEF Call, CallPCs
  <2>2. CallOK(p, last) BY <1>1, <2>1 DEF CallOK, Call, Recycles
  <2>3. After(p, error) = last BY <1>3 DEF After
  <2> QED BY <2>1, <2>2, <2>3
<1> QED BY <1>2, <1>3

(* A step of p that changes its call to d, with the entries of the others. *)
LEMMA CallChanges ==
  ASSUME call \in [Producers -> Call], CallInv,
         NEW p \in Producers, NEW d \in Call, CallOK(p, d),
         call' = [call EXCEPT ![p] = d]
  PROVE  /\ call' \in [Producers -> Call]
         /\ \A q \in Producers : call'[q].at \in DOMAIN Handlers[q]
         /\ CallInv'
<1>1. \A q \in Producers : call'[q] = IF q = p THEN d ELSE call[q]
  OBVIOUS
<1>2. \A q \in Producers : CallOK(q, call'[q])
  BY <1>1 DEF CallInv
<1> QED BY <1>2 DEF CallInv, CallOK

LEMMA ReturnTypes ==
  ASSUME TypeInv, NEW p \in Producers, NEW error \in BOOLEAN,
         call[p].pc # "idle", Return(p, error)
  PROVE  /\ call' \in [Producers -> Call]
         /\ \A q \in Producers : call'[q].at \in DOMAIN Handlers[q]
         /\ CallInv'
BY AfterOK, CallChanges DEF Return, TypeInv, TypeOK

LEMMA GotoOK ==
  ASSUME TypeInv, NEW p \in Producers, NEW label \in CallPCs, Goto(p, label),
         CallOK(p, [call[p] EXCEPT !.pc = label])
  PROVE  /\ call' \in [Producers -> Call]
         /\ \A q \in Producers : call'[q].at \in DOMAIN Handlers[q]
         /\ CallInv'
<1>1. [call[p] EXCEPT !.pc = label] \in Call
  <2>1. call[p] \in Call BY DEF TypeInv, TypeOK
  <2> QED BY <2>1 DEF Call
<1>2. call' = [call EXCEPT ![p] = [call[p] EXCEPT !.pc = label]]
  BY DEF Goto
<1> QED BY <1>1, <1>2, CallChanges DEF TypeInv, TypeOK

(* GetEntry and PutEntry keep the types of the pool.                       *)
LEMMA GetEntryType ==
  ASSUME Pool!PoolTypeOK, NEW e \in Cell, NEW content \in Pool!Entry,
         Pool!GetEntry(e, content)
  PROVE  Pool!PoolTypeOK'
BY DEF Pool!PoolTypeOK, Pool!GetEntry, Pool!Take

LEMMA PutEntryType ==
  ASSUME Pool!PoolTypeOK, NEW e \in Cell, Pool!PutEntry(e)
  PROVE  Pool!PoolTypeOK'
<1>1. [entry[e] EXCEPT !.fields = <<>>, !.caller = NoRecord] \in Pool!Entry
  <2>1. entry[e] \in Pool!Entry BY DEF Pool!PoolTypeOK
  <2>2. <<>> \in Seq(Record) /\ NoRecord \in Record \cup {NoRecord} OBVIOUS
  <2> QED BY <2>1, <2>2, Zenon DEF Pool!Entry
<1>2. entry' = [entry EXCEPT ![e] =
                  [entry[e] EXCEPT !.fields = <<>>, !.caller = NoRecord]]
  BY DEF Pool!PutEntry
<1> QED BY <1>1, <1>2 DEF Pool!PoolTypeOK, Pool!PutEntry

(* The writer of child c takes a line, or does not.                        *)
LEMMA WriteTypes ==
  ASSUME TypeInv, NEW c \in Child, NEW line \in Pool!Entry,
         WriteOK(c, line) \/ WriteFails(c, line)
  PROVE  /\ out' \in [Child -> Seq(Pool!Entry)]
         /\ lost' \in [Child -> SUBSET (Record \cup {NoRecord})]
<1>1. line.message \in Record \cup {NoRecord}
  BY DEF Pool!Entry
<1>2. /\ out \in [Child -> Seq(Pool!Entry)]
      /\ lost \in [Child -> SUBSET (Record \cup {NoRecord})]
  BY DEF TypeInv, TypeOK
<1>3. CASE WriteOK(c, line)
  <2>1. Append(out[c], line) \in Seq(Pool!Entry) BY <1>2
  <2> QED BY <1>2, <1>3, <2>1 DEF WriteOK
<1>4. CASE WriteFails(c, line)
  BY <1>1, <1>2, <1>4 DEF WriteFails
<1> QED BY <1>3, <1>4

(* What is formatted has the type of an entry.                             *)
LEMMA SourceType ==
  ASSUME TypeInv, NEW p \in Producers, call[p].pc = "try"
  PROVE  Source(p) \in Pool!Entry
<1>1. call[p] \in Call /\ CallOK(p, call[p]) /\ entry \in [Cell -> Pool!Entry]
  BY DEF TypeInv, TypeOK, CallInv, Pool!PoolTypeOK
<1>2. Logged(call[p].record) \in Pool!Entry
  BY <1>1, LoggedType DEF Call
<1>3. CASE ChildOf(p) \in Async
  BY <1>1, <1>3 DEF Source, ChildOf, Target, CallOK
<1>4. CASE ChildOf(p) \notin Async /\ call[p].record.args
  <2>1. Target(p) \in Cell
    BY <1>1, <1>4 DEF Target, CallOK, NeedsEntry, Call
  <2> QED BY <1>1, <1>4, <2>1 DEF Source
<1>5. CASE ~(ChildOf(p) \in Async \/ call[p].record.args)
  BY <1>2, <1>5 DEF Source
<1> QED BY <1>3, <1>4, <1>5

-----------------------------------------------------------------------------
(* Types, step by step                                                     *)

LEMMA InitTypes == Init => TypeInv
<1> SUFFICES ASSUME Init PROVE TypeInv
  OBVIOUS
<1>1. Pool!Zero \in Pool!Entry
  BY DEF Pool!Zero, Pool!Entry
<1>2. \A p \in Producers : 1 \in DOMAIN Handlers[p]
  BY LoggerAssumption
<1>3. Pool!PoolTypeOK
  BY <1>1 DEF Init, Pool!PoolInit, Pool!PoolTypeOK
<1>4. \A p \in Producers : [src |-> p, seq |-> 0, args |-> FALSE] \in Record
  BY BoundAssumption DEF Record
<1>5. call \in [Producers -> Call]
  BY <1>1, <1>4 DEF Init, Call, CallPCs
<1>6. /\ queue \in [Async -> Seq(Cell)]
      /\ \A c \in Async : Len(queue[c]) <= Capacity
      /\ worker \in [Async -> [pc : WorkerPCs, cell : Cell \cup {NoCell}]]
      /\ mu \in [Sync \cup Async -> Producers \cup {Worker, Nobody}]
      /\ buf \in [Sync \cup Async -> Pool!Entry]
      /\ out \in [Child -> Seq(Pool!Entry)]
      /\ lost \in [Child -> SUBSET (Record \cup {NoRecord})]
  BY <1>1, BoundAssumption DEF Init, WorkerPCs
<1>7. CallInv /\ WorkerInv
  BY <1>2 DEF Init, CallInv, CallOK, WorkerInv
<1> QED BY <1>2, <1>3, <1>5, <1>6, <1>7 DEF Init, TypeInv, TypeOK

LEMMA LogTypes ==
  ASSUME TypeInv, NEW p \in Producers, NEW args \in BOOLEAN, Log(p, args)
  PROVE  TypeInv'
<1> DEFINE r == [src |-> p, seq |-> call[p].record.seq + 1, args |-> args]
           d(e) == [call[p] EXCEPT !.pc = Entering(p, 1, r), !.at = 1,
                                   !.record = r, !.cell = e, !.failed = FALSE]
<1>1. call[p] \in Call /\ CallOK(p, call[p]) /\ call[p].own \in Cell \cup {NoCell}
  BY DEF TypeInv, TypeOK, CallInv, Call
<1>2. r \in Record
  BY <1>1 DEF Log, Record, Call
<1>3. 1 \in DOMAIN Handlers[p] BY LoggerAssumption
<1>4. Entering(p, 1, r) \in CallPCs
  BY <1>2, <1>3, EnteringChild DEF CallPCs, Child
<1>5. ASSUME NEW e \in Cell \cup {NoCell}, Start(p, r, e),
             NeedsEntry(p, r) => e \in Cell
      PROVE  /\ call' \in [Producers -> Call]
             /\ \A q \in Producers : call'[q].at \in DOMAIN Handlers[q]
             /\ CallInv'
  <2>1. d(e) \in Call BY <1>1, <1>2, <1>4 DEF Call
  <2>2. CallOK(p, d(e))
    <3>1. /\ d(e).at = 1 /\ d(e).record = r /\ d(e).own = NoCell
          /\ d(e).pc = Entering(p, 1, r) /\ d(e).cell = e
      BY <1>1 DEF Log, Call, CallOK
    <3> HIDE DEF d
    <3> QED BY <1>3, <1>5, <2>1, <3>1, EnteringOK
  <2>3. call' = [call EXCEPT ![p] = d(e)] BY <1>5 DEF Start
  <2> HIDE DEF d
  <2> QED BY <2>1, <2>2, <2>3, CallChanges DEF TypeInv, TypeOK
<1>6. CASE NeedsEntry(p, r)
  <2>1. PICK e \in Cell : Start(p, r, e) /\ Pool!GetEntry(e, Filled(e, r))
    BY <1>6 DEF Log
  <2>2. Pool!PoolTypeOK'
    BY <1>2, <2>1, FilledType, GetEntryType DEF TypeInv, TypeOK
  <2> QED BY <1>5, <2>1, <2>2 DEF Log, TypeInv, TypeOK, WorkerInv
<1>7. CASE ~NeedsEntry(p, r)
  <2>1. Start(p, r, NoCell) /\ UNCHANGED <<made, pool, entry>>
    BY <1>7 DEF Log
  <2> QED BY <1>5, <1>7, <2>1 DEF Log, TypeInv, TypeOK, WorkerInv, Pool!PoolTypeOK
<1> QED BY <1>6, <1>7

LEMMA RecycleTypes ==
  ASSUME TypeInv, NEW p \in Producers, Recycle(p)
  PROVE  TypeInv'
<1> DEFINE d == [call[p] EXCEPT !.pc = "idle", !.cell = NoCell]
<1>1. call[p] \in Call /\ CallOK(p, call[p]) /\ call[p].cell \in Cell
  BY DEF TypeInv, TypeOK, CallInv, CallOK, Recycle
<1>2. d \in Call /\ CallOK(p, d)
  <2>1. d \in Call BY <1>1 DEF Call, CallPCs
  <2>2. /\ d.at = call[p].at /\ d.record = call[p].record /\ d.pc = "idle"
        /\ d.own = NoCell
    BY <1>1 DEF Call, CallOK, Recycle
  <2> HIDE DEF d
  <2> QED BY <1>1, <2>1, <2>2 DEF CallOK
<1>3. call' = [call EXCEPT ![p] = d] BY <1>1 DEF Recycle, TypeInv, TypeOK, Call
<1>4. Pool!PoolTypeOK'
  BY <1>1, PutEntryType DEF Recycle, TypeInv, TypeOK
<1> HIDE DEF d
<1>5. /\ call' \in [Producers -> Call]
      /\ \A q \in Producers : call'[q].at \in DOMAIN Handlers[q]
      /\ CallInv'
  BY <1>2, <1>3, CallChanges DEF TypeInv, TypeOK
<1> QED BY <1>4, <1>5 DEF Recycle, TypeInv, TypeOK, WorkerInv

LEMMA HandlePlainTypes ==
  ASSUME TypeInv, NEW p \in Producers, HandlePlain(p)
  PROVE  TypeInv'
<1>1. call[p].pc = "plain" /\ call[p].cell \in Cell /\ ChildOf(p) \in Child
  BY LoggerAssumption, FastChildren
     DEF HandlePlain, TypeInv, TypeOK, Call, CallInv, CallOK, ChildOf, Child
<1>2. entry[call[p].cell] \in Pool!Entry
  BY <1>1 DEF TypeInv, TypeOK, Pool!PoolTypeOK
<1>3. /\ out' \in [Child -> Seq(Pool!Entry)]
      /\ lost' \in [Child -> SUBSET (Record \cup {NoRecord})]
  BY <1>1, <1>2, WriteTypes DEF HandlePlain
<1>4. PICK error \in BOOLEAN : Return(p, error)
  BY DEF HandlePlain
<1>5. /\ call' \in [Producers -> Call]
      /\ \A q \in Producers : call'[q].at \in DOMAIN Handlers[q]
      /\ CallInv'
  BY <1>1, <1>4, ReturnTypes
<1> QED BY <1>3, <1>5 DEF HandlePlain, TypeInv, TypeOK, WorkerInv, Pool!PoolTypeOK

LEMMA TryLockTypes ==
  ASSUME TypeInv, NEW p \in Producers, TryLock(p)
  PROVE  TypeInv'
<1>1. /\ call[p] \in Call /\ CallOK(p, call[p]) /\ call[p].pc = "try"
      /\ ChildOf(p) \in Sync \cup Async
  BY DEF TryLock, TypeInv, TypeOK, CallInv, CallOK, ChildOf
<1>2. Source(p) \in Pool!Entry
  BY <1>1, SourceType
<1>3. CASE /\ mu' = [mu EXCEPT ![ChildOf(p)] = p]
           /\ buf' = [buf EXCEPT ![ChildOf(p)] = Source(p)]
           /\ Goto(p, "locked")
  <2>1. CallOK(p, [call[p] EXCEPT !.pc = "locked"])
    BY <1>1 DEF CallOK, Call
  <2>2. /\ call' \in [Producers -> Call]
        /\ \A q \in Producers : call'[q].at \in DOMAIN Handlers[q]
        /\ CallInv'
    BY <1>3, <2>1, GotoOK DEF CallPCs
  <2> QED
    BY <1>1, <1>2, <1>3, <2>2
       DEF TryLock, TypeInv, TypeOK, WorkerInv, Pool!PoolTypeOK
<1>4. ASSUME NEW label \in {"direct", "await"},
             call' = [call EXCEPT ![p].text = Source(p), ![p].pc = label],
             UNCHANGED <<mu, buf>>
      PROVE  TypeInv'
  <2> DEFINE d == [call[p] EXCEPT !.text = Source(p), !.pc = label]
  <2>1. d \in Call /\ CallOK(p, d)
    BY <1>1, <1>2, <1>4 DEF CallOK, Call, CallPCs
  <2>2. call' = [call EXCEPT ![p] = d]
    BY <1>4 DEF TypeInv, TypeOK
  <2> HIDE DEF d
  <2>3. /\ call' \in [Producers -> Call]
        /\ \A q \in Producers : call'[q].at \in DOMAIN Handlers[q]
        /\ CallInv'
    BY <2>1, <2>2, CallChanges DEF TypeInv, TypeOK
  <2> QED
    BY <1>4, <2>3 DEF TryLock, TypeInv, TypeOK, WorkerInv, Pool!PoolTypeOK
<1> QED BY <1>3, <1>4 DEF TryLock

LEMMA LockTypes ==
  ASSUME TypeInv, NEW p \in Producers, Lock(p)
  PROVE  TypeInv'
<1>1. /\ call[p] \in Call /\ CallOK(p, call[p]) /\ call[p].pc = "await"
      /\ ChildOf(p) \in Sync \cup Async
  BY DEF Lock, TypeInv, TypeOK, CallInv, CallOK, ChildOf
<1>2. CallOK(p, [call[p] EXCEPT !.pc = "lockedText"])
  BY <1>1 DEF CallOK, Call
<1>3. /\ call' \in [Producers -> Call]
      /\ \A q \in Producers : call'[q].at \in DOMAIN Handlers[q]
      /\ CallInv'
  BY <1>2, GotoOK DEF Lock, CallPCs
<1> QED BY <1>1, <1>3 DEF Lock, TypeInv, TypeOK, WorkerInv, Pool!PoolTypeOK

LEMMA WriteStepTypes ==
  ASSUME TypeInv, NEW p \in Producers, Write(p)
  PROVE  TypeInv'
<1>1. /\ call[p] \in Call /\ call[p].pc \in {"locked", "lockedText", "direct"}
      /\ ChildOf(p) \in Sync \cup Async
  BY DEF Write, TypeInv, TypeOK, CallInv, CallOK, ChildOf
<1>2. /\ buf[ChildOf(p)] \in Pool!Entry /\ call[p].text \in Pool!Entry
      /\ ChildOf(p) \in Child
  BY <1>1 DEF TypeInv, TypeOK, Call, Child
<1>3. /\ out' \in [Child -> Seq(Pool!Entry)]
      /\ lost' \in [Child -> SUBSET (Record \cup {NoRecord})]
  BY <1>2, WriteTypes DEF Write
<1>4. PICK error \in BOOLEAN : Return(p, error)
  BY DEF Write
<1>5. /\ call' \in [Producers -> Call]
      /\ \A q \in Producers : call'[q].at \in DOMAIN Handlers[q]
      /\ CallInv'
  BY <1>1, <1>4, ReturnTypes
<1>6. mu' \in [Sync \cup Async -> Producers \cup {Worker, Nobody}]
  BY <1>1 DEF Write, TypeInv, TypeOK
<1> QED
  BY <1>3, <1>5, <1>6 DEF Write, TypeInv, TypeOK, WorkerInv, Pool!PoolTypeOK

LEMMA HandleLogTypes ==
  ASSUME TypeInv, NEW p \in Producers, HandleLog(p)
  PROVE  TypeInv'
<1>1. /\ call[p] \in Call /\ CallOK(p, call[p]) /\ call[p].pc = "get"
      /\ call[p].record \in Record
  BY DEF HandleLog, TypeInv, TypeOK, CallInv, Call
<1>2. PICK e \in Cell : /\ Pool!GetEntry(e, Logged(call[p].record))
                        /\ call' = [call EXCEPT ![p].own = e, ![p].pc = "send"]
  BY DEF HandleLog
<1> DEFINE d == [call[p] EXCEPT !.own = e, !.pc = "send"]
<1>3. d \in Call
  BY <1>1 DEF Call, CallPCs
<1>4. CallOK(p, d)
  <2>1. /\ d.at = call[p].at /\ d.record = call[p].record /\ d.pc = "send"
        /\ d.own = e /\ d.cell = call[p].cell
    BY <1>1 DEF Call
  <2> HIDE DEF d
  <2> QED BY <1>1, <2>1, NilAssumption DEF CallOK
<1>5. call' = [call EXCEPT ![p] = d]
  BY <1>2 DEF TypeInv, TypeOK
<1> HIDE DEF d
<1>6. /\ call' \in [Producers -> Call]
      /\ \A q \in Producers : call'[q].at \in DOMAIN Handlers[q]
      /\ CallInv'
  BY <1>3, <1>4, <1>5, CallChanges DEF TypeInv, TypeOK
<1>7. Pool!PoolTypeOK'
  BY <1>1, <1>2, LoggedType, GetEntryType DEF TypeInv, TypeOK
<1> QED BY <1>6, <1>7 DEF HandleLog, TypeInv, TypeOK, WorkerInv

(* A call at an asynchronous child has the entry it works on.              *)
LEMMA TargetCell ==
  ASSUME TypeInv, NEW p \in Producers, call[p].pc \in {"send", "evict"}
  PROVE  ChildOf(p) \in Async /\ Target(p) \in Cell
BY DEF TypeInv, CallInv, CallOK, ChildOf, Target

LEMMA SendTypes ==
  ASSUME TypeInv, NEW p \in Producers, Send(p)
  PROVE  TypeInv'
<1>1. call[p].pc = "send" /\ ChildOf(p) \in Async /\ Target(p) \in Cell
  BY TargetCell DEF Send
<1>2. /\ call' \in [Producers -> Call]
      /\ \A q \in Producers : call'[q].at \in DOMAIN Handlers[q]
      /\ CallInv'
  BY <1>1, ReturnTypes DEF Send
<1>3. PICK q \in Seq(Cell) : q = queue[ChildOf(p)]
  BY <1>1 DEF TypeInv, TypeOK
<1>4. /\ Append(q, Target(p)) \in Seq(Cell)
      /\ Len(q) < Capacity => Len(Append(q, Target(p))) <= Capacity
  BY <1>1, <1>3, BoundAssumption
<1>5. queue' = [queue EXCEPT ![ChildOf(p)] = Append(q, Target(p))] /\ Len(q) < Capacity
  BY <1>3 DEF Send, HasRoom
<1>6. /\ queue' \in [Async -> Seq(Cell)]
      /\ \A c \in Async : Len(queue'[c]) <= Capacity
  BY <1>1, <1>4, <1>5 DEF TypeInv, TypeOK
<1> QED BY <1>2, <1>6 DEF Send, TypeInv, TypeOK, WorkerInv, Pool!PoolTypeOK

(* The record of an entry can be among the lost ones.                      *)
LEMMA LostType ==
  ASSUME TypeInv, NEW c \in Child, NEW e \in Cell,
         lost' = [lost EXCEPT ![c] = @ \cup {entry[e].message}]
  PROVE  lost' \in [Child -> SUBSET (Record \cup {NoRecord})]
BY DEF TypeInv, TypeOK, Pool!PoolTypeOK, Pool!Entry

LEMMA OverflowTypes ==
  ASSUME TypeInv, NEW p \in Producers, Overflow(p)
  PROVE  TypeInv'
<1>1. /\ call[p] \in Call /\ CallOK(p, call[p]) /\ call[p].pc = "send"
      /\ ChildOf(p) \in Async /\ ChildOf(p) \in Child /\ Target(p) \in Cell
  BY TargetCell DEF Overflow, TypeInv, TypeOK, CallInv, Child
<1>2. CASE /\ lost' = [lost EXCEPT ![ChildOf(p)] = @ \cup {entry[Target(p)].message}]
           /\ Return(p, FALSE)
  <2>1. /\ call' \in [Producers -> Call]
        /\ \A q \in Producers : call'[q].at \in DOMAIN Handlers[q]
        /\ CallInv'
    BY <1>1, <1>2, ReturnTypes
  <2>2. lost' \in [Child -> SUBSET (Record \cup {NoRecord})]
    BY <1>1, <1>2, LostType
  <2> QED
    BY <2>1, <2>2 DEF Overflow, TypeInv, TypeOK, WorkerInv, Pool!PoolTypeOK
<1>3. ASSUME NEW label \in {"evict", "try"}, Goto(p, label), UNCHANGED lost
      PROVE  TypeInv'
  <2>1. CallOK(p, [call[p] EXCEPT !.pc = label])
    BY <1>1, <1>3 DEF CallOK, Call, ChildOf, Target
  <2>2. /\ call' \in [Producers -> Call]
        /\ \A q \in Producers : call'[q].at \in DOMAIN Handlers[q]
        /\ CallInv'
    BY <1>3, <2>1, GotoOK DEF CallPCs
  <2> QED
    BY <1>3, <2>2 DEF Overflow, TypeInv, TypeOK, WorkerInv, Pool!PoolTypeOK
<1> QED BY <1>2, <1>3 DEF Overflow

(* A queue loses its head.                                                 *)
LEMMA TailTypes ==
  ASSUME TypeInv, NEW c \in Async, queue[c] # <<>>,
         queue' = [queue EXCEPT ![c] = Tail(@)]
  PROVE  /\ Head(queue[c]) \in Cell
         /\ queue' \in [Async -> Seq(Cell)]
         /\ \A k \in Async : Len(queue'[k]) <= Capacity
<1>1. PICK q \in Seq(Cell) : q = queue[c]
  BY DEF TypeInv, TypeOK
<1>2. /\ Head(q) \in Cell /\ Tail(q) \in Seq(Cell)
      /\ Len(q) <= Capacity => Len(Tail(q)) <= Capacity
  BY <1>1, BoundAssumption
<1> QED BY <1>1, <1>2 DEF TypeInv, TypeOK

LEMMA EvictTypes ==
  ASSUME TypeInv, NEW p \in Producers, Evict(p)
  PROVE  TypeInv'
<1>1. /\ call[p] \in Call /\ CallOK(p, call[p]) /\ call[p].pc = "evict"
      /\ ChildOf(p) \in Async /\ ChildOf(p) \in Child
  BY TargetCell DEF Evict, TypeInv, TypeOK, CallInv, Child
<1>2. CallOK(p, [call[p] EXCEPT !.pc = "send"])
  BY <1>1 DEF CallOK, Call
<1>3. /\ call' \in [Producers -> Call]
      /\ \A q \in Producers : call'[q].at \in DOMAIN Handlers[q]
      /\ CallInv'
  BY <1>2, GotoOK DEF Evict, CallPCs
<1>4. CASE queue[ChildOf(p)] = <<>>
  BY <1>3, <1>4 DEF Evict, TypeInv, TypeOK, WorkerInv, Pool!PoolTypeOK
<1>5. CASE queue[ChildOf(p)] # <<>>
  <2>1. /\ Head(queue[ChildOf(p)]) \in Cell
        /\ queue' \in [Async -> Seq(Cell)]
        /\ \A c \in Async : Len(queue'[c]) <= Capacity
    BY <1>1, <1>5, TailTypes DEF Evict
  <2>2. lost' \in [Child -> SUBSET (Record \cup {NoRecord})]
    BY <1>1, <1>5, <2>1, LostType DEF Evict
  <2> QED
    BY <1>3, <2>1, <2>2 DEF Evict, TypeInv, TypeOK, WorkerInv, Pool!PoolTypeOK
<1> QED BY <1>4, <1>5

LEMMA WorkerTypes ==
  ASSUME TypeInv, NEW c \in Async, WorkerStep(c)
  PROVE  TypeInv'
<1>1. c \in Child /\ c \in Sync \cup Async
  BY DEF Child
<1>2. CASE Receive(c)
  BY <1>2, TailTypes
     DEF Receive, TypeInv, TypeOK, WorkerPCs, WorkerInv, CallInv, Pool!PoolTypeOK
<1>3. CASE WorkerLock(c)
  BY <1>1, <1>3
     DEF WorkerLock, WorkerGoto, TypeInv, TypeOK, WorkerPCs, WorkerInv, CallInv,
         Pool!PoolTypeOK
<1>4. CASE WorkerWrite(c)
  <2>1. /\ out' \in [Child -> Seq(Pool!Entry)]
        /\ lost' \in [Child -> SUBSET (Record \cup {NoRecord})]
    BY <1>1, <1>4, WriteTypes DEF WorkerWrite, TypeInv, TypeOK
  <2>2. PICK w \in [pc : WorkerPCs, cell : Cell \cup {NoCell}] :
          /\ worker' = [worker EXCEPT ![c] = w]
          /\ w.pc \in {"lock", "write", "put"} => w.cell \in Cell
    <3>1. CASE WorkerGoto(c, "put")
      <4> DEFINE w == [worker[c] EXCEPT !.pc = "put"]
      <4>1. w \in [pc : WorkerPCs, cell : Cell \cup {NoCell}] /\ w.cell \in Cell
        BY <1>4 DEF WorkerWrite, TypeInv, TypeOK, WorkerInv, WorkerPCs
      <4>2. worker' = [worker EXCEPT ![c] = w]
        BY <3>1 DEF WorkerGoto
      <4> QED BY <4>1, <4>2
    <3>2. CASE worker' = [worker EXCEPT ![c] = [pc |-> "gone", cell |-> NoCell]]
      <4> DEFINE w == [pc |-> "gone", cell |-> NoCell]
      <4>1. /\ w \in [pc : WorkerPCs, cell : Cell \cup {NoCell}]
            /\ w.pc \notin {"lock", "write", "put"}
        BY DEF WorkerPCs
      <4>2. worker' = [worker EXCEPT ![c] = w]
        BY <3>2
      <4> HIDE DEF w
      <4> QED BY <4>1, <4>2
    <3> QED BY <1>4, <3>1, <3>2 DEF WorkerWrite
  <2>3. /\ worker' \in [Async -> [pc : WorkerPCs, cell : Cell \cup {NoCell}]]
        /\ WorkerInv'
    BY <2>2 DEF TypeInv, TypeOK, WorkerInv
  <2>4. mu' \in [Sync \cup Async -> Producers \cup {Worker, Nobody}]
    BY <1>1, <1>4 DEF WorkerWrite, TypeInv, TypeOK
  <2> QED
    BY <1>4, <2>1, <2>3, <2>4
       DEF WorkerWrite, TypeInv, TypeOK, CallInv, Pool!PoolTypeOK
<1>5. CASE WorkerPut(c)
  <2>1. worker[c].cell \in Cell
    BY <1>5 DEF WorkerPut, TypeInv, WorkerInv
  <2>2. Pool!PoolTypeOK'
    BY <1>5, <2>1, PutEntryType DEF WorkerPut, TypeInv, TypeOK
  <2> QED
    BY <1>5, <2>2 DEF WorkerPut, TypeInv, TypeOK, WorkerPCs, WorkerInv, CallInv
<1> QED BY <1>2, <1>3, <1>4, <1>5 DEF WorkerStep

LEMMA NextTypes == TypeInv /\ [Next]_vars => TypeInv'
<1>1. CASE UNCHANGED vars
  BY <1>1 DEF vars, TypeInv, TypeOK, CallInv, WorkerInv, Pool!PoolTypeOK
<1> QED
  BY <1>1, LogTypes, RecycleTypes, HandlePlainTypes, TryLockTypes, LockTypes,
     WriteStepTypes, HandleLogTypes, SendTypes, OverflowTypes, EvictTypes,
     WorkerTypes DEF Next, CallStep, Terminated

(* Every variable keeps its type and no queue outgrows its capacity, for   *)
(* any loggers, children and bounds (multi.go, console.go).                *)
THEOREM TypeCorrect == Spec => []TypeOK
<1>1. TypeInv => TypeOK
  BY DEF TypeInv
<1> QED BY <1>1, InitTypes, NextTypes, PTL DEF Spec
-----------------------------------------------------------------------------
(* Who has an entry                                                        *)

(* No child follows an asynchronous one: once the entry of a call is in a  *)
(* queue, the caller is done with it.                                      *)
AsyncLast ==
  \A p \in Producers : \A i \in DOMAIN Handlers[p] :
    Handlers[p][i] \in Async => i = Len(Handlers[p])

Holder == ({"call", "own"} \X Producers) \cup ({"worker", "queue"} \X Async)
            \cup {<<"pool", Nobody>>, <<"unmade", Nobody>>}

(* The entries that each holder has, none twice unless a queue has it so.  *)
Held ==
  [h \in Holder |->
     CASE h[1] = "call"   -> {call[h[2]].cell} \cap Cell
       [] h[1] = "own"    -> {call[h[2]].own} \cap Cell
       [] h[1] = "worker" -> {worker[h[2]].cell} \cap Cell
       [] h[1] = "queue"  -> Range(queue[h[2]])
       [] h[1] = "pool"   -> {e \in Cell : pool[e] # 0}
       [] h[1] = "unmade" -> Cell \ made]

Separate(L) == \A x, y \in Holder : x # y => L[x] \cap L[y] = {}

(* Holders lose entries only, or x passes e to y besides.                  *)
Shrinks(L, M) == \A h \in Holder : M[h] \subseteq L[h]
Passes(L, M, e, x, y) ==
  /\ x # y /\ e \in L[x] /\ M[x] \subseteq L[x] \ {e}
  /\ M[y] \subseteq L[y] \cup {e}
  /\ \A h \in Holder \ {x, y} : M[h] \subseteq L[h]

ExclusiveInv ==
  /\ Separate(Held)
  /\ \A c \in Async : IsInjective(queue[c])
  /\ \A e \in Cell : pool[e] <= 1

LEMMA ShrinksSeparate ==
  ASSUME NEW L, NEW M, Separate(L), Shrinks(L, M) PROVE Separate(M)
BY DEF Separate, Shrinks

LEMMA PassesSeparate ==
  ASSUME NEW L, NEW M, NEW e, NEW x \in Holder, NEW y \in Holder,
         Separate(L), Passes(L, M, e, x, y)
  PROVE  Separate(M)
<1> SUFFICES ASSUME NEW g \in Holder, NEW h \in Holder, g # h,
                    NEW f \in M[g], f \in M[h]
             PROVE  FALSE
  BY DEF Separate
<1>1. f # e => f \in L[g] /\ f \in L[h]
  BY DEF Passes
<1>2. f = e => g = y /\ h = y
  BY DEF Passes, Separate
<1> QED BY <1>1, <1>2 DEF Separate

LEMMA HeldIs ==
  /\ \A p \in Producers : /\ <<"call", p>> \in Holder /\ <<"own", p>> \in Holder
                          /\ Held[<<"call", p>>] = {call[p].cell} \cap Cell
                          /\ Held[<<"own", p>>] = {call[p].own} \cap Cell
  /\ \A c \in Async : /\ <<"worker", c>> \in Holder /\ <<"queue", c>> \in Holder
                      /\ Held[<<"worker", c>>] = {worker[c].cell} \cap Cell
                      /\ Held[<<"queue", c>>] = Range(queue[c])
  /\ <<"pool", Nobody>> \in Holder /\ <<"unmade", Nobody>> \in Holder
  /\ Held[<<"pool", Nobody>>] = {e \in Cell : pool[e] # 0}
  /\ Held[<<"unmade", Nobody>>] = Cell \ made
BY DEF Held, Holder

LEMMA HeldIsNext ==
  /\ \A p \in Producers : /\ Held'[<<"call", p>>] = {call'[p].cell} \cap Cell
                          /\ Held'[<<"own", p>>] = {call'[p].own} \cap Cell
  /\ \A c \in Async : /\ Held'[<<"worker", c>>] = {worker'[c].cell} \cap Cell
                      /\ Held'[<<"queue", c>>] = Range(queue'[c])
  /\ Held'[<<"pool", Nobody>>] = {e \in Cell : pool'[e] # 0}
  /\ Held'[<<"unmade", Nobody>>] = Cell \ made'
BY DEF Held, Holder

LEMMA HolderKinds ==
  ASSUME NEW h \in Holder
  PROVE  \/ \E p \in Producers : h = <<"call", p>> \/ h = <<"own", p>>
         \/ \E c \in Async : h = <<"worker", c>> \/ h = <<"queue", c>>
         \/ h = <<"pool", Nobody>> \/ h = <<"unmade", Nobody>>
BY DEF Holder

(* What a step may do to a caller, a worker or a queue without an entry    *)
(* appearing anywhere.                                                     *)
CallFrees(p) == /\ call'[p].cell \in {call[p].cell, NoCell}
                /\ call'[p].own \in {call[p].own, NoCell}
WorkerFrees(c) == worker'[c].cell \in {worker[c].cell, NoCell}
QueueFrees(c) == Range(queue'[c]) \subseteq Range(queue[c])

LEMMA FreesShrink ==
  ASSUME \A p \in Producers : CallFrees(p),
         \A c \in Async : WorkerFrees(c) /\ QueueFrees(c),
         UNCHANGED <<made, pool>>
  PROVE  Shrinks(Held, Held')
<1> SUFFICES ASSUME NEW h \in Holder PROVE Held'[h] \subseteq Held[h]
  BY DEF Shrinks
<1>1. ASSUME NEW p \in Producers, h = <<"call", p>> \/ h = <<"own", p>>
      PROVE  Held'[h] \subseteq Held[h]
  <2>1. /\ call'[p].cell \in Cell => call'[p].cell = call[p].cell
        /\ call'[p].own \in Cell => call'[p].own = call[p].own
    BY NilAssumption DEF CallFrees
  <2>2. /\ Held[<<"call", p>>] = {call[p].cell} \cap Cell
        /\ Held[<<"own", p>>] = {call[p].own} \cap Cell
        /\ Held'[<<"call", p>>] = {call'[p].cell} \cap Cell
        /\ Held'[<<"own", p>>] = {call'[p].own} \cap Cell
    BY HeldIs, HeldIsNext
  <2> QED BY <1>1, <2>1, <2>2
<1>2. ASSUME NEW c \in Async, h = <<"worker", c>> \/ h = <<"queue", c>>
      PROVE  Held'[h] \subseteq Held[h]
  <2>1. worker'[c].cell \in Cell => worker'[c].cell = worker[c].cell
    BY NilAssumption DEF WorkerFrees
  <2>2. /\ Held[<<"worker", c>>] = {worker[c].cell} \cap Cell
        /\ Held[<<"queue", c>>] = Range(queue[c])
        /\ Held'[<<"worker", c>>] = {worker'[c].cell} \cap Cell
        /\ Held'[<<"queue", c>>] = Range(queue'[c])
    BY HeldIs, HeldIsNext
  <2> QED BY <1>2, <2>1, <2>2 DEF QueueFrees
<1>3. CASE h = <<"pool", Nobody>> \/ h = <<"unmade", Nobody>>
  BY <1>3, HeldIs, HeldIsNext
<1> QED BY <1>1, <1>2, <1>3, HolderKinds

(* A step without a new user of any entry keeps the invariant.             *)
LEMMA FreesKeep ==
  ASSUME ExclusiveInv,
         \A p \in Producers : CallFrees(p),
         \A c \in Async : WorkerFrees(c) /\ QueueFrees(c) /\ IsInjective(queue'[c]),
         UNCHANGED <<made, pool>>
  PROVE  ExclusiveInv'
<1>1. PICK L : L = Held OBVIOUS
<1>2. PICK M : M = Held' OBVIOUS
<1>3. Separate(L) => Separate(M)
  <2>1. Shrinks(L, M) BY <1>1, <1>2, FreesShrink
  <2> QED BY <2>1, ShrinksSeparate
<1>4. Separate(Held) => Separate(Held)'
  BY <1>1, <1>2, <1>3 DEF Separate
<1> QED BY <1>4 DEF ExclusiveInv

(* Entry e goes from x to y.                                               *)
LEMMA PassesKeep ==
  ASSUME ExclusiveInv, NEW e \in Cell, NEW x \in Holder, NEW y \in Holder,
         Passes(Held, Held', e, x, y),
         \A c \in Async : IsInjective(queue'[c]), \A f \in Cell : pool'[f] <= 1
  PROVE  ExclusiveInv'
<1>1. PICK L : L = Held OBVIOUS
<1>2. PICK M : M = Held' OBVIOUS
<1>3. Separate(L) => Separate(M)
  <2>1. Passes(L, M, e, x, y) BY <1>1, <1>2
  <2> QED BY <2>1, PassesSeparate
<1>4. Separate(Held) => Separate(Held)'
  BY <1>1, <1>2, <1>3 DEF Separate
<1> QED BY <1>4 DEF ExclusiveInv

(* A call after a child has returned has no entry it did not have before,  *)
(* and none at all after an asynchronous child.                            *)
LEMMA AfterFrees ==
  ASSUME TypeInv, NEW p \in Producers, NEW error \in BOOLEAN, Return(p, error)
  PROVE  /\ \A q \in Producers : CallFrees(q)
         /\ call'[p].own = NoCell
         /\ \A q \in Producers \ {p} : call'[q] = call[q]
<1>1. call' = [call EXCEPT ![p] = After(p, error)] /\ call \in [Producers -> Call]
  BY DEF Return, TypeInv, TypeOK
<1>2. /\ After(p, error).own = NoCell
      /\ After(p, error).cell \in {call[p].cell, NoCell}
  <2>1. CASE call[p].at < Len(Handlers[p])
    BY <1>1, <2>1 DEF After, Call
  <2>2. CASE ~(call[p].at < Len(Handlers[p]))
    BY <1>1, <2>2 DEF After, Call
  <2> QED BY <2>1, <2>2
<1> QED BY <1>1, <1>2 DEF CallFrees

LEMMA AsyncCallEnds ==
  ASSUME TypeInv, AsyncLast, NEW p \in Producers, NEW error \in BOOLEAN,
         ChildOf(p) \in Async, Return(p, error)
  PROVE  call'[p].cell = NoCell /\ call'[p].own = NoCell
<1>1. /\ call' = [call EXCEPT ![p] = After(p, error)] /\ call[p] \in Call
      /\ call \in [Producers -> Call] /\ call[p].at \in DOMAIN Handlers[p]
  BY DEF Return, TypeInv, TypeOK
<1>2. call[p].at = Len(Handlers[p]) /\ Len(Handlers[p]) \in Nat
  BY <1>1, LoggerAssumption DEF AsyncLast, ChildOf
<1>3. ~RecycleEntry(p)
  BY <1>1, ChildAssumption DEF RecycleEntry, CanRecycle, ChildOf, Range
<1>4. After(p, error).cell = NoCell /\ After(p, error).own = NoCell
  <2>1. ~(call[p].at < Len(Handlers[p])) BY <1>2
  <2> QED BY <1>1, <1>3, <2>1 DEF After, Recycles, Call
<1> QED BY <1>1, <1>4

(* A queue without its head, and with one entry more.                      *)
LEMMA TailRange ==
  ASSUME NEW q \in Seq(Cell), q # <<>>
  PROVE  Range(Tail(q)) \subseteq Range(q) /\ Head(q) \in Range(q)
<1>1. /\ Len(q) \in Nat /\ Len(q) >= 1 /\ DOMAIN q = 1 .. Len(q)
      /\ DOMAIN Tail(q) = 1 .. Len(q) - 1
      /\ \A i \in 1 .. Len(q) - 1 : Tail(q)[i] = q[i + 1]
      /\ Head(q) = q[1]
  OBVIOUS
<1>2. Head(q) \in Range(q)
  BY <1>1 DEF Range
<1>3. ASSUME NEW f \in Range(Tail(q)) PROVE f \in Range(q)
  <2>1. PICK i \in 1 .. Len(q) - 1 : f = q[i + 1]
    BY <1>1 DEF Range
  <2>2. i + 1 \in DOMAIN q BY <1>1
  <2> QED BY <2>1, <2>2 DEF Range
<1> QED BY <1>2, <1>3

LEMMA TailOnce ==
  ASSUME NEW q \in Seq(Cell), q # <<>>, IsInjective(q)
  PROVE  Head(q) \notin Range(Tail(q)) /\ IsInjective(Tail(q))
<1>1. /\ Len(q) \in Nat /\ Len(q) >= 1 /\ DOMAIN q = 1 .. Len(q)
      /\ DOMAIN Tail(q) = 1 .. Len(q) - 1
      /\ \A i \in 1 .. Len(q) - 1 : Tail(q)[i] = q[i + 1]
      /\ Head(q) = q[1]
  OBVIOUS
<1>2. ASSUME NEW f \in Range(Tail(q)) PROVE f # Head(q)
  <2>1. PICK i \in 1 .. Len(q) - 1 : f = q[i + 1]
    BY <1>1 DEF Range
  <2>2. i + 1 \in DOMAIN q /\ 1 \in DOMAIN q /\ i + 1 # 1
    BY <1>1
  <2> QED BY <1>1, <2>1, <2>2 DEF IsInjective
<1>3. IsInjective(Tail(q))
  <2> SUFFICES ASSUME NEW i \in 1 .. Len(q) - 1, NEW j \in 1 .. Len(q) - 1,
                      q[i + 1] = q[j + 1]
               PROVE  i = j
    BY <1>1 DEF IsInjective
  <2>1. i + 1 \in DOMAIN q /\ j + 1 \in DOMAIN q BY <1>1
  <2>2. i + 1 = j + 1 BY <2>1 DEF IsInjective
  <2> QED BY <2>2
<1> QED BY <1>2, <1>3

LEMMA AppendRange ==
  ASSUME NEW q \in Seq(Cell), NEW e \in Cell
  PROVE  Range(Append(q, e)) = Range(q) \cup {e}
<1>1. /\ Len(q) \in Nat /\ DOMAIN q = 1 .. Len(q)
      /\ DOMAIN Append(q, e) = 1 .. Len(q) + 1
      /\ \A i \in 1 .. Len(q) : Append(q, e)[i] = q[i]
      /\ Append(q, e)[Len(q) + 1] = e
  OBVIOUS
<1>2. ASSUME NEW f \in Range(Append(q, e)) PROVE f \in Range(q) \cup {e}
  <2>1. PICK i \in 1 .. Len(q) + 1 : f = Append(q, e)[i] BY <1>1 DEF Range
  <2>2. i \in 1 .. Len(q) \/ i = Len(q) + 1 BY <1>1
  <2> QED BY <1>1, <2>1, <2>2 DEF Range
<1>3. ASSUME NEW f \in Range(q) PROVE f \in Range(Append(q, e))
  <2>1. PICK i \in 1 .. Len(q) : f = q[i] BY <1>1 DEF Range
  <2>2. i \in 1 .. Len(q) + 1 BY <1>1
  <2> QED BY <1>1, <2>1, <2>2 DEF Range
<1>4. e \in Range(Append(q, e))
  <2>1. Len(q) + 1 \in 1 .. Len(q) + 1 BY <1>1
  <2> QED BY <1>1, <2>1 DEF Range
<1> QED BY <1>2, <1>3, <1>4

LEMMA AppendOnce ==
  ASSUME NEW q \in Seq(Cell), NEW e \in Cell, e \notin Range(q), IsInjective(q)
  PROVE  IsInjective(Append(q, e))
<1>1. /\ Len(q) \in Nat /\ DOMAIN q = 1 .. Len(q)
      /\ DOMAIN Append(q, e) = 1 .. Len(q) + 1
      /\ \A i \in 1 .. Len(q) : Append(q, e)[i] = q[i]
      /\ Append(q, e)[Len(q) + 1] = e
  OBVIOUS
<1>2. IsInjective(Append(q, e))
  <2> SUFFICES ASSUME NEW i \in 1 .. Len(q) + 1, NEW j \in 1 .. Len(q) + 1,
                      Append(q, e)[i] = Append(q, e)[j]
               PROVE  i = j
    BY <1>1 DEF IsInjective
  <2>1. \A k \in 1 .. Len(q) : Append(q, e)[k] = q[k] /\ q[k] # e
    BY <1>1 DEF Range
  <2>2. /\ i \in 1 .. Len(q) \/ i = Len(q) + 1
        /\ j \in 1 .. Len(q) \/ j = Len(q) + 1
    BY <1>1
  <2> QED BY <1>1, <2>1, <2>2 DEF IsInjective
<1> QED BY <1>2

(* Steps that nobody gets an entry by.                                     *)
LEMMA QuietCallCells ==
  ASSUME TypeInv, ExclusiveInv, NEW p \in Producers,
         TryLock(p) \/ Lock(p) \/ Write(p) \/ HandlePlain(p) \/ Overflow(p) \/ Evict(p)
  PROVE  ExclusiveInv'
<1>1. call \in [Producers -> Call] /\ \A q \in Producers : call[q] \in Call
  BY DEF TypeInv, TypeOK
<1>2. \A q \in Producers : CallFrees(q)
  <2>1. ASSUME NEW error \in BOOLEAN, Return(p, error)
        PROVE  \A q \in Producers : CallFrees(q)
    BY <2>1, AfterFrees
  <2>2. ASSUME NEW label, Goto(p, label)
        PROVE  \A q \in Producers : CallFrees(q)
    BY <1>1, <2>2 DEF Goto, CallFrees, Call
  <2>3. ASSUME NEW label,
               call' = [call EXCEPT ![p].text = Source(p), ![p].pc = label]
        PROVE  \A q \in Producers : CallFrees(q)
    BY <1>1, <2>3 DEF CallFrees, Call
  <2> QED BY <2>1, <2>2, <2>3 DEF TryLock, Lock, Write, HandlePlain, Overflow, Evict
<1>3. \A c \in Async : WorkerFrees(c)
  BY DEF TryLock, Lock, Write, HandlePlain, Overflow, Evict, WorkerFrees
<1>4. UNCHANGED <<made, pool>>
  BY DEF TryLock, Lock, Write, HandlePlain, Overflow, Evict
<1>5. CASE UNCHANGED queue
  <2>1. \A c \in Async : QueueFrees(c) /\ IsInjective(queue'[c])
    BY <1>5 DEF ExclusiveInv, QueueFrees
  <2> QED BY <1>2, <1>3, <1>4, <2>1, FreesKeep
<1>6. CASE Evict(p) /\ queue[ChildOf(p)] # <<>>
  <2>1. /\ queue' = [queue EXCEPT ![ChildOf(p)] = Tail(@)]
        /\ ChildOf(p) \in Async /\ queue \in [Async -> Seq(Cell)]
    BY <1>6, TargetCell DEF Evict, TypeInv, TypeOK
  <2>2. /\ Range(Tail(queue[ChildOf(p)])) \subseteq Range(queue[ChildOf(p)])
        /\ IsInjective(Tail(queue[ChildOf(p)]))
    BY <1>6, <2>1, TailOnce, TailRange DEF ExclusiveInv
  <2>3. \A c \in Async : QueueFrees(c) /\ IsInjective(queue'[c])
    BY <2>1, <2>2 DEF ExclusiveInv, QueueFrees
  <2> QED BY <1>2, <1>3, <1>4, <2>3, FreesKeep
<1> QED
  BY <1>5, <1>6 DEF TryLock, Lock, Write, HandlePlain, Overflow, Evict

LEMMA QuietWorker ==
  ASSUME TypeInv, NEW c \in Async, WorkerLock(c) \/ WorkerWrite(c)
  PROVE  \A k \in Async : WorkerFrees(k)
<1>1. worker \in [Async -> [pc : WorkerPCs, cell : Cell \cup {NoCell}]]
  BY DEF TypeInv, TypeOK
<1> QED BY <1>1 DEF WorkerLock, WorkerWrite, WorkerGoto, WorkerFrees

LEMMA QuietWorkerCells ==
  ASSUME TypeInv, ExclusiveInv, NEW c \in Async, WorkerLock(c) \/ WorkerWrite(c)
  PROVE  ExclusiveInv'
<1>1. UNCHANGED <<made, pool, call, queue>>
  BY DEF WorkerLock, WorkerWrite
<1>2. \A k \in Async : WorkerFrees(k)
  BY QuietWorker
<1>3. \A k \in Async : QueueFrees(k) /\ IsInjective(queue'[k])
  BY <1>1 DEF ExclusiveInv, QueueFrees
<1>4. \A p \in Producers : CallFrees(p)
  BY <1>1 DEF CallFrees
<1> QED BY <1>1, <1>2, <1>3, <1>4, FreesKeep

LEMMA CallHeld ==
  ASSUME NEW p \in Producers
  PROVE  /\ call[p].cell \in Cell => call[p].cell \in Held[<<"call", p>>]
         /\ call[p].own \in Cell => call[p].own \in Held[<<"own", p>>]
         /\ Held'[<<"call", p>>] \subseteq {call'[p].cell} \cap Cell
         /\ Held'[<<"own", p>>] \subseteq {call'[p].own} \cap Cell
         /\ call'[p].cell = call[p].cell => Held'[<<"call", p>>] = Held[<<"call", p>>]
         /\ call'[p].own = call[p].own => Held'[<<"own", p>>] = Held[<<"own", p>>]
<1>1. /\ Held[<<"call", p>>] = {call[p].cell} \cap Cell
      /\ Held[<<"own", p>>] = {call[p].own} \cap Cell
      /\ Held'[<<"call", p>>] = {call'[p].cell} \cap Cell
      /\ Held'[<<"own", p>>] = {call'[p].own} \cap Cell
  BY HeldIs, HeldIsNext
<1> QED BY <1>1

LEMMA WorkerHeld ==
  ASSUME NEW c \in Async
  PROVE  /\ worker[c].cell \in Cell => worker[c].cell \in Held[<<"worker", c>>]
         /\ Held'[<<"worker", c>>] \subseteq {worker'[c].cell} \cap Cell
         /\ worker'[c].cell = worker[c].cell
              => Held'[<<"worker", c>>] = Held[<<"worker", c>>]
         /\ queue'[c] = queue[c] => Held'[<<"queue", c>>] = Held[<<"queue", c>>]
<1>1. /\ Held[<<"worker", c>>] = {worker[c].cell} \cap Cell
      /\ Held[<<"queue", c>>] = Range(queue[c])
      /\ Held'[<<"worker", c>>] = {worker'[c].cell} \cap Cell
      /\ Held'[<<"queue", c>>] = Range(queue'[c])
  BY HeldIs, HeldIsNext
<1> QED BY <1>1

(* A step that changes what the holders in S have.                         *)
LEMMA OthersKeep ==
  ASSUME NEW S,
         \A p \in Producers : /\ <<"call", p>> \in S \/ call'[p].cell = call[p].cell
                              /\ <<"own", p>> \in S \/ call'[p].own = call[p].own,
         \A c \in Async : /\ <<"worker", c>> \in S \/ worker'[c].cell = worker[c].cell
                          /\ <<"queue", c>> \in S \/ queue'[c] = queue[c],
         <<"pool", Nobody>> \in S \/ UNCHANGED pool,
         <<"unmade", Nobody>> \in S \/ UNCHANGED made
  PROVE  \A h \in Holder \ S : Held'[h] \subseteq Held[h]
<1> SUFFICES ASSUME NEW h \in Holder, h \notin S PROVE Held'[h] \subseteq Held[h]
  OBVIOUS
<1>1. ASSUME NEW p \in Producers, h = <<"call", p>> \/ h = <<"own", p>>
      PROVE  Held'[h] \subseteq Held[h]
  <2>1. <<"call", p>> \in S \/ Held'[<<"call", p>>] = Held[<<"call", p>>]
    <3>1. <<"call", p>> \in S \/ call'[p].cell = call[p].cell OBVIOUS
    <3>2. call'[p].cell = call[p].cell => Held'[<<"call", p>>] = Held[<<"call", p>>]
      BY CallHeld
    <3> QED BY <3>1, <3>2
  <2>2. <<"own", p>> \in S \/ Held'[<<"own", p>>] = Held[<<"own", p>>]
    <3>1. <<"own", p>> \in S \/ call'[p].own = call[p].own OBVIOUS
    <3>2. call'[p].own = call[p].own => Held'[<<"own", p>>] = Held[<<"own", p>>] BY CallHeld
    <3> QED BY <3>1, <3>2
  <2> QED BY <1>1, <2>1, <2>2
<1>2. ASSUME NEW c \in Async, h = <<"worker", c>> \/ h = <<"queue", c>>
      PROVE  Held'[h] \subseteq Held[h]
  <2>1. <<"worker", c>> \in S \/ Held'[<<"worker", c>>] = Held[<<"worker", c>>]
    <3>1. <<"worker", c>> \in S \/ worker'[c].cell = worker[c].cell OBVIOUS
    <3>2. worker'[c].cell = worker[c].cell => Held'[<<"worker", c>>] = Held[<<"worker", c>>]
      BY WorkerHeld
    <3> QED BY <3>1, <3>2
  <2>2. <<"queue", c>> \in S \/ Held'[<<"queue", c>>] = Held[<<"queue", c>>]
    <3>1. <<"queue", c>> \in S \/ queue'[c] = queue[c] OBVIOUS
    <3>2. queue'[c] = queue[c] => Held'[<<"queue", c>>] = Held[<<"queue", c>>] BY WorkerHeld
    <3> QED BY <3>1, <3>2
  <2> QED BY <1>2, <2>1, <2>2
<1>3. CASE h = <<"pool", Nobody>> \/ h = <<"unmade", Nobody>>
  BY <1>3, HeldIs, HeldIsNext
<1> QED BY <1>1, <1>2, <1>3, HolderKinds

(* sync.Pool hands over an entry that nobody has.                          *)
LEMMA TakePasses ==
  ASSUME TypeInv, ExclusiveInv, NEW e \in Cell, Pool!Take(e), NEW y \in Holder,
         y # <<"pool", Nobody>>, y # <<"unmade", Nobody>>,
         Held'[y] \subseteq Held[y] \cup {e},
         \A h \in Holder \ {y, <<"pool", Nobody>>, <<"unmade", Nobody>>} :
           Held'[h] \subseteq Held[h],
         UNCHANGED queue
  PROVE  ExclusiveInv'
<1> DEFINE inPool == <<"pool", Nobody>>
           unmade == <<"unmade", Nobody>>
<1>1. /\ inPool \in Holder /\ unmade \in Holder /\ inPool # unmade
      /\ Held[inPool] = {f \in Cell : pool[f] # 0} /\ Held[unmade] = Cell \ made
      /\ Held'[inPool] = {f \in Cell : pool'[f] # 0} /\ Held'[unmade] = Cell \ made'
  BY HeldIs, HeldIsNext
<1>2. pool \in [Cell -> Nat] /\ \A f \in Cell : pool[f] \in Nat /\ pool[f] <= 1
  BY DEF TypeInv, TypeOK, Pool!PoolTypeOK, ExclusiveInv
<1>3. \A c \in Async : IsInjective(queue'[c])
  BY DEF ExclusiveInv
<1>4. CASE /\ pool[e] > 0 /\ pool' = [pool EXCEPT ![e] = @ - 1] /\ UNCHANGED made
  <2>1. pool[e] = 1 /\ \A f \in Cell : pool'[f] = IF f = e THEN 0 ELSE pool[f]
    BY <1>2, <1>4
  <2>2. \A f \in Cell : pool'[f] <= 1 BY <1>2, <2>1
  <2>3. e \in Held[inPool] /\ Held'[inPool] \subseteq Held[inPool] \ {e}
    BY <1>1, <2>1
  <2>4. Held'[unmade] \subseteq Held[unmade] BY <1>1, <1>4
  <2>5. Passes(Held, Held', e, inPool, y)
    BY <1>1, <2>3, <2>4 DEF Passes
  <2> QED BY <1>1, <1>3, <2>2, <2>5, PassesKeep
<1>5. CASE e \notin made /\ made' = made \cup {e} /\ UNCHANGED pool
  <2>1. e \in Held[unmade] /\ Held'[unmade] \subseteq Held[unmade] \ {e}
    BY <1>1, <1>5
  <2>2. Held'[inPool] \subseteq Held[inPool] BY <1>1, <1>5
  <2>3. Passes(Held, Held', e, unmade, y)
    BY <1>1, <2>1, <2>2 DEF Passes
  <2>4. \A f \in Cell : pool'[f] <= 1 BY <1>2, <1>5
  <2> QED BY <1>1, <1>3, <2>3, <2>4, PassesKeep
<1> QED BY <1>4, <1>5 DEF Pool!Take

LEMMA LogCells ==
  ASSUME TypeInv, ExclusiveInv, NEW p \in Producers, NEW args \in BOOLEAN,
         Log(p, args)
  PROVE  ExclusiveInv'
<1> DEFINE r == [src |-> p, seq |-> call[p].record.seq + 1, args |-> args]
<1>1. call \in [Producers -> Call] /\ \A q \in Producers : call[q] \in Call
  BY DEF TypeInv, TypeOK
<1>2. UNCHANGED <<queue, worker>>
  BY DEF Log
<1>3. ASSUME NEW e \in Cell \cup {NoCell}, Start(p, r, e)
      PROVE  /\ call'[p].cell = e /\ call'[p].own = call[p].own
             /\ \A q \in Producers \ {p} : call'[q] = call[q]
  BY <1>1, <1>3 DEF Start, Call
<1>4. CASE NeedsEntry(p, r)
  <2>1. PICK e \in Cell : Start(p, r, e) /\ Pool!GetEntry(e, Filled(e, r))
    BY <1>4 DEF Log
  <2>2. Pool!Take(e) BY <2>1 DEF Pool!GetEntry
  <2>3. <<"call", p>> \in Holder /\ <<"call", p>> # <<"pool", Nobody>>
        /\ <<"call", p>> # <<"unmade", Nobody>>
    BY HeldIs
  <2>4. Held'[<<"call", p>>] \subseteq Held[<<"call", p>>] \cup {e}
    BY <1>3, <2>1, CallHeld
  <2>5. \A h \in Holder \ {<<"call", p>>, <<"pool", Nobody>>, <<"unmade", Nobody>>} :
          Held'[h] \subseteq Held[h]
    <3> DEFINE S == {<<"call", p>>, <<"pool", Nobody>>, <<"unmade", Nobody>>}
    <3>1. \A q \in Producers : /\ <<"call", q>> \in S \/ call'[q].cell = call[q].cell
                               /\ <<"own", q>> \in S \/ call'[q].own = call[q].own
      BY <1>3, <2>1
    <3>2. <<"pool", Nobody>> \in S /\ <<"unmade", Nobody>> \in S
      OBVIOUS
    <3> HIDE DEF S
    <3>3. \A h \in Holder \ S : Held'[h] \subseteq Held[h]
      BY <1>2, <3>1, <3>2, OthersKeep
    <3> QED BY <3>3 DEF S
  <2> QED BY <1>2, <2>2, <2>3, <2>4, <2>5, TakePasses
<1>5. CASE ~NeedsEntry(p, r)
  <2>1. Start(p, r, NoCell) /\ UNCHANGED <<made, pool>>
    BY <1>5 DEF Log
  <2>2. \A q \in Producers : CallFrees(q)
    BY <1>3, <2>1 DEF CallFrees
  <2>3. \A c \in Async : WorkerFrees(c) /\ QueueFrees(c) /\ IsInjective(queue'[c])
    BY <1>2 DEF ExclusiveInv, WorkerFrees, QueueFrees
  <2> QED BY <2>1, <2>2, <2>3, FreesKeep
<1> QED BY <1>4, <1>5

LEMMA HandleLogCells ==
  ASSUME TypeInv, ExclusiveInv, NEW p \in Producers, HandleLog(p)
  PROVE  ExclusiveInv'
<1>1. call \in [Producers -> Call] /\ \A q \in Producers : call[q] \in Call
  BY DEF TypeInv, TypeOK
<1>2. UNCHANGED <<queue, worker>>
  BY DEF HandleLog
<1>3. PICK e \in Cell : /\ Pool!GetEntry(e, Logged(call[p].record))
                        /\ call' = [call EXCEPT ![p].own = e, ![p].pc = "send"]
  BY DEF HandleLog
<1>4. /\ call'[p].own = e /\ call'[p].cell = call[p].cell
      /\ \A q \in Producers \ {p} : call'[q] = call[q]
  BY <1>1, <1>3 DEF Call
<1>5. <<"own", p>> \in Holder /\ <<"own", p>> # <<"pool", Nobody>>
      /\ <<"own", p>> # <<"unmade", Nobody>>
  BY HeldIs
<1>6. Held'[<<"own", p>>] \subseteq Held[<<"own", p>>] \cup {e}
  BY <1>4, CallHeld
<1>7. \A h \in Holder \ {<<"own", p>>, <<"pool", Nobody>>, <<"unmade", Nobody>>} :
        Held'[h] \subseteq Held[h]
  <2> DEFINE S == {<<"own", p>>, <<"pool", Nobody>>, <<"unmade", Nobody>>}
  <2>1. \A q \in Producers : /\ <<"call", q>> \in S \/ call'[q].cell = call[q].cell
                             /\ <<"own", q>> \in S \/ call'[q].own = call[q].own
    BY <1>4
  <2>2. <<"pool", Nobody>> \in S /\ <<"unmade", Nobody>> \in S
    OBVIOUS
  <2> HIDE DEF S
  <2>3. \A h \in Holder \ S : Held'[h] \subseteq Held[h]
    BY <1>2, <2>1, <2>2, OthersKeep
  <2> QED BY <2>3 DEF S
<1>8. Pool!Take(e) BY <1>3 DEF Pool!GetEntry
<1> QED BY <1>2, <1>5, <1>6, <1>7, <1>8, TakePasses

(* An entry goes back to the pool when its holder gives it up.             *)
LEMMA PutPasses ==
  ASSUME TypeInv, ExclusiveInv, NEW e \in Cell, Pool!PutEntry(e), NEW x \in Holder,
         x # <<"pool", Nobody>>, e \in Held[x], Held'[x] = {},
         \A h \in Holder \ {x, <<"pool", Nobody>>, <<"unmade", Nobody>>} :
           Held'[h] \subseteq Held[h],
         UNCHANGED queue
  PROVE  ExclusiveInv'
<1> DEFINE inPool == <<"pool", Nobody>>
           unmade == <<"unmade", Nobody>>
<1>1. /\ inPool \in Holder /\ unmade \in Holder /\ inPool # unmade
      /\ Held[inPool] = {f \in Cell : pool[f] # 0} /\ Held[unmade] = Cell \ made
      /\ Held'[inPool] = {f \in Cell : pool'[f] # 0} /\ Held'[unmade] = Cell \ made'
  BY HeldIs, HeldIsNext
<1>2. pool \in [Cell -> Nat] /\ \A f \in Cell : pool[f] \in Nat /\ pool[f] <= 1
  BY DEF TypeInv, TypeOK, Pool!PoolTypeOK, ExclusiveInv
<1>3. \A c \in Async : IsInjective(queue'[c])
  BY DEF ExclusiveInv
<1>4. pool[e] = 0
  BY <1>1 DEF ExclusiveInv, Separate
<1>5. \A f \in Cell : pool'[f] = IF f = e THEN 1 ELSE pool[f]
  BY <1>2, <1>4 DEF Pool!PutEntry
<1>6. \A f \in Cell : pool'[f] <= 1
  BY <1>2, <1>5
<1>7. Held'[inPool] \subseteq Held[inPool] \cup {e}
  BY <1>1, <1>5
<1>8. Held'[unmade] \subseteq Held[unmade]
  BY <1>1 DEF Pool!PutEntry
<1>9. Passes(Held, Held', e, x, inPool)
  BY <1>1, <1>7, <1>8 DEF Passes
<1> QED BY <1>1, <1>3, <1>6, <1>9, PassesKeep

LEMMA RecycleCells ==
  ASSUME TypeInv, ExclusiveInv, NEW p \in Producers, Recycle(p)
  PROVE  ExclusiveInv'
<1>1. /\ call \in [Producers -> Call] /\ \A q \in Producers : call[q] \in Call
      /\ call[p].cell \in Cell
  BY DEF TypeInv, TypeOK, CallInv, CallOK, Recycle
<1>2. UNCHANGED <<queue, worker>> /\ Pool!PutEntry(call[p].cell)
  BY DEF Recycle
<1>3. /\ call'[p].cell = NoCell /\ call'[p].own = call[p].own
      /\ \A q \in Producers \ {p} : call'[q] = call[q]
  BY <1>1 DEF Recycle, Call
<1>4. /\ <<"call", p>> \in Holder /\ <<"call", p>> # <<"pool", Nobody>>
      /\ call[p].cell \in Held[<<"call", p>>] /\ Held'[<<"call", p>>] = {}
  <2>1. <<"call", p>> \in Holder /\ <<"call", p>> # <<"pool", Nobody>>
    BY HeldIs
  <2>2. /\ call[p].cell \in Cell => call[p].cell \in Held[<<"call", p>>]
        /\ Held'[<<"call", p>>] \subseteq {call'[p].cell} \cap Cell
    BY CallHeld
  <2> QED BY <1>1, <1>3, <2>1, <2>2, NilAssumption
<1>5. \A h \in Holder \ {<<"call", p>>, <<"pool", Nobody>>, <<"unmade", Nobody>>} :
        Held'[h] \subseteq Held[h]
  <2> DEFINE S == {<<"call", p>>, <<"pool", Nobody>>, <<"unmade", Nobody>>}
  <2>1. \A q \in Producers : /\ <<"call", q>> \in S \/ call'[q].cell = call[q].cell
                             /\ <<"own", q>> \in S \/ call'[q].own = call[q].own
    BY <1>3
  <2>2. <<"pool", Nobody>> \in S /\ <<"unmade", Nobody>> \in S
    OBVIOUS
  <2> HIDE DEF S
  <2>3. \A h \in Holder \ S : Held'[h] \subseteq Held[h]
    BY <1>2, <2>1, <2>2, OthersKeep
  <2> QED BY <2>3 DEF S
<1> QED BY <1>1, <1>2, <1>4, <1>5, PutPasses

LEMMA WorkerPutCells ==
  ASSUME TypeInv, ExclusiveInv, NEW c \in Async, WorkerPut(c)
  PROVE  ExclusiveInv'
<1>1. /\ worker[c].cell \in Cell
      /\ worker \in [Async -> [pc : WorkerPCs, cell : Cell \cup {NoCell}]]
  BY DEF WorkerPut, TypeInv, TypeOK, WorkerInv
<1>2. UNCHANGED <<queue, call>> /\ Pool!PutEntry(worker[c].cell)
  BY DEF WorkerPut
<1>3. /\ worker'[c].cell = NoCell
      /\ \A k \in Async \ {c} : worker'[k] = worker[k]
  BY <1>1 DEF WorkerPut
<1>4. /\ <<"worker", c>> \in Holder /\ <<"worker", c>> # <<"pool", Nobody>>
      /\ worker[c].cell \in Held[<<"worker", c>>] /\ Held'[<<"worker", c>>] = {}
  <2>1. <<"worker", c>> \in Holder /\ <<"worker", c>> # <<"pool", Nobody>>
    BY HeldIs
  <2>2. worker[c].cell \in Held[<<"worker", c>>] BY <1>1, WorkerHeld
  <2>3. Held'[<<"worker", c>>] \subseteq {NoCell} \cap Cell BY <1>3, WorkerHeld
  <2>4. Held'[<<"worker", c>>] = {} BY <2>3, NilAssumption
  <2> QED BY <2>1, <2>2, <2>4
<1>5. \A h \in Holder \ {<<"worker", c>>, <<"pool", Nobody>>, <<"unmade", Nobody>>} :
        Held'[h] \subseteq Held[h]
  <2> DEFINE S == {<<"worker", c>>, <<"pool", Nobody>>, <<"unmade", Nobody>>}
  <2>1. \A k \in Async : <<"worker", k>> \in S \/ worker'[k].cell = worker[k].cell
    BY <1>3
  <2>2. <<"pool", Nobody>> \in S /\ <<"unmade", Nobody>> \in S
    OBVIOUS
  <2> HIDE DEF S
  <2>3. \A h \in Holder \ S : Held'[h] \subseteq Held[h]
    BY <1>2, <2>1, <2>2, OthersKeep
  <2> QED BY <2>3 DEF S
<1> QED BY <1>1, <1>2, <1>4, <1>5, PutPasses

(* The worker takes the head of the queue.                                 *)
LEMMA ReceiveCells ==
  ASSUME TypeInv, ExclusiveInv, NEW c \in Async, Receive(c)
  PROVE  ExclusiveInv'
<1> DEFINE q == queue[c]
           S == {<<"queue", c>>, <<"worker", c>>}
<1>1. /\ q \in Seq(Cell) /\ q # <<>> /\ IsInjective(q)
      /\ queue' = [queue EXCEPT ![c] = Tail(q)]
      /\ queue \in [Async -> Seq(Cell)]
      /\ UNCHANGED <<made, pool, call>>
  BY DEF Receive, TypeInv, TypeOK, ExclusiveInv
<1>2. /\ worker'[c].cell = Head(q)
      /\ \A k \in Async \ {c} : worker'[k] = worker[k] /\ queue'[k] = queue[k]
  BY <1>1 DEF Receive, TypeInv, TypeOK
<1>3. /\ Range(Tail(q)) \subseteq Range(q) \ {Head(q)} /\ Head(q) \in Range(q)
      /\ IsInjective(Tail(q)) /\ Head(q) \in Cell
  BY <1>1, TailOnce, TailRange
<1>4. /\ <<"queue", c>> \in Holder /\ <<"worker", c>> \in Holder
      /\ <<"queue", c>> # <<"worker", c>>
      /\ Held[<<"queue", c>>] = Range(q)
      /\ Held'[<<"queue", c>>] = Range(Tail(q))
      /\ Held'[<<"worker", c>>] \subseteq {Head(q)}
  <2>1. /\ <<"queue", c>> \in Holder /\ <<"worker", c>> \in Holder
        /\ Held[<<"queue", c>>] = Range(queue[c])
    BY HeldIs
  <2>2. Held'[<<"queue", c>>] = Range(queue'[c])
    BY HeldIsNext
  <2>3. Held'[<<"worker", c>>] \subseteq {worker'[c].cell} \cap Cell
    BY WorkerHeld
  <2>4. queue'[c] = Tail(q) BY <1>1
  <2> QED BY <1>2, <2>1, <2>2, <2>3, <2>4
<1>5. \A h \in Holder \ S : Held'[h] \subseteq Held[h]
  <2>1. \A k \in Async : /\ <<"worker", k>> \in S \/ worker'[k].cell = worker[k].cell
                         /\ <<"queue", k>> \in S \/ queue'[k] = queue[k]
    BY <1>2
  <2> HIDE DEF S
  <2> QED BY <1>1, <2>1, OthersKeep
<1>6. Passes(Held, Held', Head(q), <<"queue", c>>, <<"worker", c>>)
  BY <1>3, <1>4, <1>5 DEF Passes
<1>7. \A k \in Async : IsInjective(queue'[k])
  BY <1>1, <1>3 DEF ExclusiveInv
<1>8. \A f \in Cell : pool'[f] <= 1
  BY <1>1 DEF ExclusiveInv
<1> QED BY <1>3, <1>4, <1>6, <1>7, <1>8, PassesKeep

(* A caller passes its entry to the queue, and keeps none.                 *)
LEMMA SendCells ==
  ASSUME TypeInv, ExclusiveInv, AsyncLast, NEW p \in Producers, Send(p)
  PROVE  ExclusiveInv'
<1> DEFINE c == ChildOf(p)
           e == Target(p)
           x == IF call[p].own = NoCell THEN <<"call", p>> ELSE <<"own", p>>
           S == {<<"call", p>>, <<"own", p>>, <<"queue", c>>}
<1>1. /\ c \in Async /\ e \in Cell
      /\ queue' = [queue EXCEPT ![c] = Append(@, e)]
      /\ queue \in [Async -> Seq(Cell)] /\ queue[c] \in Seq(Cell)
      /\ IsInjective(queue[c]) /\ UNCHANGED <<made, pool, worker>>
  BY TargetCell DEF Send, TypeInv, TypeOK, ExclusiveInv
<1>2. /\ call'[p].cell = NoCell /\ call'[p].own = NoCell
      /\ \A r \in Producers \ {p} : call'[r] = call[r]
  BY <1>1, AsyncCallEnds, AfterFrees DEF Send
<1>3. /\ x \in Holder /\ <<"queue", c>> \in Holder /\ x # <<"queue", c>> /\ e \in Held[x]
  <2>1. /\ <<"call", p>> \in Holder /\ <<"own", p>> \in Holder
        /\ <<"queue", c>> \in Holder
    BY <1>1, HeldIs
  <2>2. /\ call[p].cell \in Cell => call[p].cell \in Held[<<"call", p>>]
        /\ call[p].own \in Cell => call[p].own \in Held[<<"own", p>>]
    BY CallHeld
  <2> QED BY <1>1, <2>1, <2>2 DEF Target
<1>4. Held'[<<"call", p>>] = {} /\ Held'[<<"own", p>>] = {}
  <2>1. /\ Held'[<<"call", p>>] \subseteq {call'[p].cell} \cap Cell
        /\ Held'[<<"own", p>>] \subseteq {call'[p].own} \cap Cell
    BY CallHeld
  <2> QED BY <1>2, <2>1, NilAssumption
<1>5. e \notin Range(queue[c])
  <2>1. Held[<<"queue", c>>] = Range(queue[c]) BY <1>1, HeldIs
  <2> QED BY <1>3, <2>1 DEF ExclusiveInv, Separate
<1>6. /\ Range(Append(queue[c], e)) = Range(queue[c]) \cup {e}
      /\ IsInjective(Append(queue[c], e))
  BY <1>1, <1>5, AppendOnce, AppendRange
<1>7. Held'[<<"queue", c>>] \subseteq Held[<<"queue", c>>] \cup {e}
  <2>1. /\ Held[<<"queue", c>>] = Range(queue[c])
        /\ Held'[<<"queue", c>>] = Range(queue'[c])
    BY <1>1, HeldIs, HeldIsNext
  <2>2. queue'[c] = Append(queue[c], e) BY <1>1
  <2> QED BY <1>6, <2>1, <2>2
<1>8. \A h \in Holder \ S : Held'[h] \subseteq Held[h]
  <2>1. \A r \in Producers : /\ <<"call", r>> \in S \/ call'[r].cell = call[r].cell
                             /\ <<"own", r>> \in S \/ call'[r].own = call[r].own
    BY <1>2
  <2>2. \A k \in Async : <<"queue", k>> \in S \/ queue'[k] = queue[k]
    BY <1>1
  <2> HIDE DEF S
  <2> QED BY <1>1, <2>1, <2>2, OthersKeep
<1> HIDE DEF e, x, c
<1>9. Passes(Held, Held', e, x, <<"queue", c>>)
  BY <1>3, <1>4, <1>7, <1>8 DEF Passes, x
<1>10. \A k \in Async : IsInjective(queue'[k])
  BY <1>1, <1>6 DEF ExclusiveInv
<1>11. \A f \in Cell : pool'[f] <= 1
  BY <1>1 DEF ExclusiveInv
<1> QED BY <1>1, <1>3, <1>9, <1>10, <1>11, PassesKeep

LEMMA InitCells == Init => ExclusiveInv
<1> SUFFICES ASSUME Init PROVE ExclusiveInv
  OBVIOUS
<1>1. /\ \A p \in Producers : call[p].cell = NoCell /\ call[p].own = NoCell
      /\ \A c \in Async : worker[c].cell = NoCell /\ queue[c] = <<>>
      /\ \A e \in Cell : pool[e] = 0
  BY DEF Init, Pool!PoolInit
<1>2. \A h \in Holder : h # <<"unmade", Nobody>> => Held[h] = {}
  <2> SUFFICES ASSUME NEW h \in Holder, h # <<"unmade", Nobody>> PROVE Held[h] = {}
    OBVIOUS
  <2>1. ASSUME NEW p \in Producers PROVE Held[<<"call", p>>] = {} /\ Held[<<"own", p>>] = {}
    <3>1. /\ Held[<<"call", p>>] = {call[p].cell} \cap Cell
          /\ Held[<<"own", p>>] = {call[p].own} \cap Cell
      BY HeldIs
    <3> QED BY <1>1, <3>1, NilAssumption
  <2>2. ASSUME NEW c \in Async
        PROVE  Held[<<"worker", c>>] = {} /\ Held[<<"queue", c>>] = {}
    <3>1. /\ Held[<<"worker", c>>] = {worker[c].cell} \cap Cell
          /\ Held[<<"queue", c>>] = Range(queue[c])
      BY HeldIs
    <3>2. Range(<<>>) = {} BY DEF Range
    <3> QED BY <1>1, <3>1, <3>2, NilAssumption
  <2>3. Held[<<"pool", Nobody>>] = {} BY <1>1, HeldIs
  <2> QED BY <2>1, <2>2, <2>3, HolderKinds
<1>3. Separate(Held) BY <1>2 DEF Separate
<1>4. \A c \in Async : IsInjective(queue[c]) BY <1>1 DEF IsInjective
<1> QED BY <1>1, <1>3, <1>4 DEF ExclusiveInv

LEMMA NextCells == AsyncLast /\ TypeInv /\ ExclusiveInv /\ [Next]_vars => ExclusiveInv'
<1> SUFFICES ASSUME AsyncLast, TypeInv, ExclusiveInv, [Next]_vars PROVE ExclusiveInv'
  OBVIOUS
<1>1. CASE UNCHANGED vars
  BY <1>1 DEF vars, ExclusiveInv, Separate, Held
<1>2. ASSUME NEW p \in Producers, CallStep(p) PROVE ExclusiveInv'
  BY <1>2, QuietCallCells, HandleLogCells, SendCells, RecycleCells DEF CallStep
<1>3. ASSUME NEW c \in Async, WorkerStep(c) PROVE ExclusiveInv'
  BY <1>3, QuietWorkerCells, ReceiveCells, WorkerPutCells DEF WorkerStep
<1> QED BY <1>1, <1>2, <1>3, LogCells DEF Next, Terminated

(* The places that Users counts are those of the holders.                  *)
LEMMA UserKinds ==
  ASSUME NEW e, NEW u \in Users(e)
  PROVE  \/ \E p \in Producers : u = <<"call", p>> /\ call[p].cell = e
         \/ \E p \in Producers : u = <<"own", p>> /\ call[p].own = e
         \/ \E c \in Async : u = <<"worker", c>> /\ worker[c].cell = e
         \/ \E c \in Async : \E i \in DOMAIN queue[c] :
              u = <<"queue", c, i>> /\ queue[c][i] = e
BY Zenon DEF Users

LEMMA UserHolds ==
  ASSUME TypeInv, NEW e \in Cell, NEW u \in Users(e)
  PROVE  \E h \in Holder :
           /\ e \in Held[h]
           /\ \/ h[1] \in {"call", "own", "worker"} /\ u = h
              \/ \E c \in Async : \E i \in DOMAIN queue[c] :
                   h = <<"queue", c>> /\ u = <<"queue", c, i>> /\ queue[c][i] = e
<1>1. ASSUME NEW p \in Producers, u = <<"call", p>>, call[p].cell = e
      PROVE  <<"call", p>> \in Holder /\ e \in Held[<<"call", p>>]
  BY <1>1, HeldIs, CallHeld
<1>2. ASSUME NEW p \in Producers, u = <<"own", p>>, call[p].own = e
      PROVE  <<"own", p>> \in Holder /\ e \in Held[<<"own", p>>]
  BY <1>2, HeldIs, CallHeld
<1>3. ASSUME NEW c \in Async, u = <<"worker", c>>, worker[c].cell = e
      PROVE  <<"worker", c>> \in Holder /\ e \in Held[<<"worker", c>>]
  BY <1>3, HeldIs, WorkerHeld
<1>4. ASSUME NEW c \in Async, NEW i \in DOMAIN queue[c], queue[c][i] = e
      PROVE  <<"queue", c>> \in Holder /\ e \in Held[<<"queue", c>>]
  <2>1. <<"queue", c>> \in Holder /\ Held[<<"queue", c>>] = Range(queue[c])
    BY HeldIs
  <2> QED BY <1>4, <2>1 DEF Range
<1>5. CASE \E p \in Producers : u = <<"call", p>> /\ call[p].cell = e
  BY <1>1, <1>5
<1>6. CASE \E p \in Producers : u = <<"own", p>> /\ call[p].own = e
  BY <1>2, <1>6
<1>7. CASE \E c \in Async : u = <<"worker", c>> /\ worker[c].cell = e
  BY <1>3, <1>7
<1>8. CASE \E c \in Async : \E i \in DOMAIN queue[c] :
             u = <<"queue", c, i>> /\ queue[c][i] = e
  BY <1>4, <1>8
<1> QED BY <1>5, <1>6, <1>7, <1>8, UserKinds

(* An entry has one user at most.                                          *)
LEMMA OneUser ==
  ASSUME TypeInv, ExclusiveInv, NEW e \in Cell, NEW u \in Users(e), NEW v \in Users(e)
  PROVE  u = v
<1>1. PICK g \in Holder :
        /\ e \in Held[g]
        /\ \/ g[1] \in {"call", "own", "worker"} /\ u = g
           \/ \E c \in Async : \E i \in DOMAIN queue[c] :
                g = <<"queue", c>> /\ u = <<"queue", c, i>> /\ queue[c][i] = e
  BY UserHolds
<1>2. PICK h \in Holder :
        /\ e \in Held[h]
        /\ \/ h[1] \in {"call", "own", "worker"} /\ v = h
           \/ \E c \in Async : \E i \in DOMAIN queue[c] :
                h = <<"queue", c>> /\ v = <<"queue", c, i>> /\ queue[c][i] = e
  BY UserHolds
<1>3. g = h
  BY <1>1, <1>2 DEF ExclusiveInv, Separate
<1>4. CASE g[1] \in {"call", "own", "worker"}
  BY <1>1, <1>2, <1>3, <1>4
<1>5. CASE g[1] \notin {"call", "own", "worker"}
  <2>1. PICK c \in Async : \E i \in DOMAIN queue[c] :
          g = <<"queue", c>> /\ u = <<"queue", c, i>> /\ queue[c][i] = e
    BY <1>1, <1>5
  <2>2. PICK i \in DOMAIN queue[c] : u = <<"queue", c, i>> /\ queue[c][i] = e
    BY <2>1
  <2>3. PICK d \in Async : \E j \in DOMAIN queue[d] :
          g = <<"queue", d>> /\ v = <<"queue", d, j>> /\ queue[d][j] = e
    BY <1>2, <1>3, <1>5
  <2>4. PICK j \in DOMAIN queue[d] : v = <<"queue", d, j>> /\ queue[d][j] = e
    BY <2>3
  <2>5. c = d BY <2>1, <2>3
  <2>6. i = j BY <2>2, <2>4, <2>5 DEF ExclusiveInv, IsInjective
  <2> QED BY <2>2, <2>4, <2>5, <2>6
<1> QED BY <1>4, <1>5

LEMMA CellsExclusive == TypeInv /\ ExclusiveInv => EntryExclusive
<1> SUFFICES ASSUME TypeInv, ExclusiveInv, NEW e \in Cell
             PROVE  /\ pool[e] + Cardinality(Users(e)) <= 1
                    /\ e \notin made => pool[e] = 0 /\ Users(e) = {}
  BY DEF EntryExclusive
<1>1. pool[e] \in Nat /\ pool[e] <= 1
  BY DEF TypeInv, TypeOK, Pool!PoolTypeOK, ExclusiveInv
<1>2. ASSUME NEW u \in Users(e) PROVE pool[e] = 0 /\ e \in made
  <2>1. PICK h \in Holder : e \in Held[h] /\ h # <<"pool", Nobody>> /\ h # <<"unmade", Nobody>>
    BY UserHolds
  <2>2. e \notin Held[<<"pool", Nobody>>] /\ e \notin Held[<<"unmade", Nobody>>]
    BY <2>1, HeldIs DEF ExclusiveInv, Separate
  <2> QED BY <2>2, HeldIs
<1>3. pool[e] = 1 => e \in made
  <2>1. /\ <<"pool", Nobody>> \in Holder /\ <<"unmade", Nobody>> \in Holder
        /\ <<"pool", Nobody>> # <<"unmade", Nobody>>
        /\ Held[<<"pool", Nobody>>] = {f \in Cell : pool[f] # 0}
        /\ Held[<<"unmade", Nobody>>] = Cell \ made
    BY HeldIs
  <2> QED BY <2>1 DEF ExclusiveInv, Separate
<1>4. CASE Users(e) = {}
  BY <1>1, <1>3, <1>4, FS_EmptySet
<1>5. ASSUME NEW u \in Users(e) PROVE Cardinality(Users(e)) = 1
  <2>1. Users(e) = {u} BY OneUser
  <2> QED BY <2>1, FS_Singleton
<1> QED BY <1>1, <1>2, <1>4, <1>5

(* No two goroutines use an entry at the same time, and the pool has an    *)
(* entry once and only when nobody uses it, for any loggers and children   *)
(* among which an asynchronous one comes last (logger.go, log; multi.go,   *)
(* HandleLog and CanRecycleEntry; console_async.go and entry.go).          *)
THEOREM EntryExclusiveAlways == AsyncLast => (Spec => []EntryExclusive)
<1> SUFFICES ASSUME AsyncLast PROVE Spec => []EntryExclusive
  OBVIOUS
<1>1. TypeInv /\ ExclusiveInv /\ [Next]_vars => ExclusiveInv'
  BY NextCells
<1> QED BY <1>1, InitTypes, NextTypes, InitCells, CellsExclusive, PTL DEF Spec
-----------------------------------------------------------------------------
(* What the entries and buffers contain                                    *)

Intact(x) == x.message \in Record /\ x = Logged(x.message)

(* The entry of a call has the record of the call, an entry on its way to  *)
(* a worker has some record, unmixed, and a free one has no caller left.   *)
ContentInv ==
  /\ \A p \in Producers : call[p].cell \in Cell =>
       entry[call[p].cell] = Logged(call[p].record)
  /\ \A p \in Producers : call[p].own \in Cell =>
       entry[call[p].own] = Logged(call[p].record)
  /\ \A c \in Async : worker[c].cell \in Cell => Intact(entry[worker[c].cell])
  /\ \A c \in Async : \A e \in Range(queue[c]) : Intact(entry[e])
  /\ \A e \in Cell : pool[e] # 0 \/ e \notin made => entry[e].caller = NoRecord

(* Whoever has formatted something into the buffer of a handler holds its  *)
(* mutex.                                                                  *)
BufferInv ==
  /\ \A p \in Producers :
       /\ call[p].pc \in {"locked", "lockedText"} => mu[ChildOf(p)] = p
       /\ call[p].pc = "locked" => buf[ChildOf(p)] = Logged(call[p].record)
       /\ call[p].pc \in {"await", "lockedText", "direct"} =>
            call[p].text = Logged(call[p].record)
  /\ \A c \in Async : worker[c].pc = "write" =>
       mu[c] = Worker /\ Intact(buf[c]) /\ buf[c].message = entry[worker[c].cell].message

IntactInv == ContentInv /\ BufferInv /\ LinesIntact

LEMMA LoggedIntact ==
  ASSUME NEW r \in Record PROVE Intact(Logged(r)) /\ Logged(r).message = r
BY DEF Intact, Logged

(* Nobody else has an entry of the pool, of a call or of a worker.         *)
LEMMA Unshared ==
  ASSUME ExclusiveInv, NEW e \in Cell
  PROVE  /\ \A p \in Producers :
              call[p].cell = e =>
                /\ pool[e] = 0 /\ e \in made
                /\ \A q \in Producers : call[q].own # e /\ (q # p => call[q].cell # e)
                /\ \A c \in Async : worker[c].cell # e /\ e \notin Range(queue[c])
         /\ \A p \in Producers :
              call[p].own = e =>
                /\ pool[e] = 0 /\ e \in made
                /\ \A q \in Producers : call[q].cell # e /\ (q # p => call[q].own # e)
                /\ \A c \in Async : worker[c].cell # e /\ e \notin Range(queue[c])
         /\ \A c \in Async :
              worker[c].cell = e =>
                /\ pool[e] = 0 /\ e \in made
                /\ \A p \in Producers : call[p].cell # e /\ call[p].own # e
                /\ \A d \in Async : e \notin Range(queue[d]) /\ (d # c => worker[d].cell # e)
         /\ \A c \in Async : e \in Range(queue[c]) => pool[e] = 0 /\ e \in made
         /\ pool[e] # 0 => e \in made
<1>1. /\ <<"pool", Nobody>> \in Holder /\ <<"unmade", Nobody>> \in Holder
      /\ pool[e] # 0 => e \in Held[<<"pool", Nobody>>]
      /\ e \notin made => e \in Held[<<"unmade", Nobody>>]
  BY HeldIs
<1>2. ASSUME NEW p \in Producers
      PROVE  /\ <<"call", p>> \in Holder /\ <<"own", p>> \in Holder
             /\ call[p].cell = e => e \in Held[<<"call", p>>]
             /\ call[p].own = e => e \in Held[<<"own", p>>]
  BY HeldIs, CallHeld
<1>3. ASSUME NEW c \in Async
      PROVE  /\ <<"worker", c>> \in Holder /\ <<"queue", c>> \in Holder
             /\ worker[c].cell = e => e \in Held[<<"worker", c>>]
             /\ e \in Range(queue[c]) => e \in Held[<<"queue", c>>]
  BY HeldIs, WorkerHeld
<1>4. \A g, h \in Holder : e \in Held[g] /\ e \in Held[h] => g = h
  BY DEF ExclusiveInv, Separate
<1>5. ASSUME NEW p \in Producers, NEW h \in Holder, e \in Held[h],
             h = <<"call", p>> \/ h = <<"own", p>>
      PROVE  /\ pool[e] = 0 /\ e \in made
             /\ \A c \in Async : worker[c].cell # e /\ e \notin Range(queue[c])
  <2>1. pool[e] = 0 /\ e \in made
    BY <1>1, <1>4, <1>5
  <2>2. ASSUME NEW c \in Async
        PROVE  worker[c].cell # e /\ e \notin Range(queue[c])
    <3>1. /\ worker[c].cell = e => h = <<"worker", c>>
          /\ e \in Range(queue[c]) => h = <<"queue", c>>
      BY <1>3, <1>4, <1>5
    <3> QED BY <1>5, <3>1
  <2> QED BY <2>1, <2>2
<1>6. ASSUME NEW p \in Producers, call[p].cell = e, NEW q \in Producers
      PROVE  call[q].own # e /\ (q # p => call[q].cell # e)
  BY <1>2, <1>4, <1>6
<1>7. ASSUME NEW p \in Producers, call[p].own = e, NEW q \in Producers
      PROVE  call[q].cell # e /\ (q # p => call[q].own # e)
  BY <1>2, <1>4, <1>7
<1>8. ASSUME NEW c \in Async, worker[c].cell = e
      PROVE  /\ pool[e] = 0 /\ e \in made
             /\ \A p \in Producers : call[p].cell # e /\ call[p].own # e
             /\ \A d \in Async : e \notin Range(queue[d]) /\ (d # c => worker[d].cell # e)
  <2>1. <<"worker", c>> \in Holder /\ e \in Held[<<"worker", c>>]
    BY <1>3, <1>8
  <2>2. pool[e] = 0 /\ e \in made
    BY <1>1, <1>4, <2>1
  <2>3. \A p \in Producers : call[p].cell # e /\ call[p].own # e
    BY <1>2, <1>4, <2>1
  <2>4. \A d \in Async : e \notin Range(queue[d]) /\ (d # c => worker[d].cell # e)
    BY <1>3, <1>4, <2>1
  <2> QED BY <2>2, <2>3, <2>4
<1>9. ASSUME NEW c \in Async, e \in Range(queue[c])
      PROVE  pool[e] = 0 /\ e \in made
  BY <1>1, <1>3, <1>4, <1>9
<1>10. \A p \in Producers : call[p].cell = e =>
         /\ pool[e] = 0 /\ e \in made
         /\ \A q \in Producers : call[q].own # e /\ (q # p => call[q].cell # e)
         /\ \A c \in Async : worker[c].cell # e /\ e \notin Range(queue[c])
  BY <1>2, <1>5, <1>6
<1>11. \A p \in Producers : call[p].own = e =>
         /\ pool[e] = 0 /\ e \in made
         /\ \A q \in Producers : call[q].cell # e /\ (q # p => call[q].own # e)
         /\ \A c \in Async : worker[c].cell # e /\ e \notin Range(queue[c])
  BY <1>2, <1>5, <1>7
<1>12. pool[e] # 0 => e \in made
  BY <1>1, <1>4
<1> QED BY <1>8, <1>9, <1>10, <1>11, <1>12

(* What a console handler formats is the record of the call.               *)
LEMMA SourceLogged ==
  ASSUME TypeInv, ContentInv, NEW p \in Producers, call[p].pc = "try"
  PROVE  Source(p) = Logged(call[p].record)
<1>1. call[p] \in Call /\ CallOK(p, call[p])
  BY DEF TypeInv, TypeOK, CallInv
<1>2. Target(p) \in Cell => entry[Target(p)] = Logged(call[p].record)
  BY <1>1 DEF ContentInv, Target, Call
<1>3. ChildOf(p) \in Async => Target(p) \in Cell
  BY <1>1 DEF CallOK, ChildOf, Target
<1>4. call[p].record.args => Target(p) \in Cell
  BY <1>1 DEF CallOK, NeedsEntry, Target
<1> QED BY <1>2, <1>3, <1>4 DEF Source

LEMMA AfterKeeps ==
  ASSUME TypeInv, NEW p \in Producers, NEW error \in BOOLEAN, Return(p, error)
  PROVE  /\ call'[p].record = call[p].record
         /\ call'[p].pc \in {"try", "plain", "send", "get", "recycle", "idle"}
<1>1. /\ call' = [call EXCEPT ![p] = After(p, error)] /\ call \in [Producers -> Call]
      /\ call[p] \in Call /\ call[p].at \in DOMAIN Handlers[p]
  BY DEF Return, TypeInv, TypeOK
<1>2. CASE call[p].at < Len(Handlers[p])
  <2>1. call[p].at + 1 \in DOMAIN Handlers[p]
    BY <1>1, <1>2, LoggerAssumption DEF Call
  <2>2. Entering(p, call[p].at + 1, call[p].record) \in {"try", "plain", "send", "get"}
    BY <1>1, <2>1, EnteringChild DEF Call, Child
  <2>3. /\ After(p, error).record = call[p].record
        /\ After(p, error).pc = Entering(p, call[p].at + 1, call[p].record)
    BY <1>1, <1>2 DEF After, Call
  <2> QED BY <1>1, <2>2, <2>3
<1>3. CASE ~(call[p].at < Len(Handlers[p]))
  <2>1. /\ After(p, error).record = call[p].record
        /\ After(p, error).pc \in {"recycle", "idle"}
    BY <1>1, <1>3 DEF After, Call
  <2> QED BY <1>1, <2>1
<1> QED BY <1>2, <1>3

(* Steps that leave the memory and the pool alone.                         *)
LEMMA ContentKept ==
  ASSUME ContentInv, UNCHANGED <<entry, pool, made>>,
         \A p \in Producers :
           /\ call'[p].cell \in Cell =>
                call'[p].cell = call[p].cell /\ call'[p].record = call[p].record
           /\ call'[p].own \in Cell =>
                call'[p].own = call[p].own /\ call'[p].record = call[p].record,
         \A c \in Async :
           /\ worker'[c].cell \in Cell => Intact(entry[worker'[c].cell])
           /\ \A e \in Range(queue'[c]) : Intact(entry[e])
  PROVE  ContentInv'
<1>1. entry' = entry /\ pool' = pool /\ made' = made
  OBVIOUS
<1> QED BY <1>1 DEF ContentInv, Intact

(* The entries of a caller that does not get one.                          *)
LEMMA CallersKeep ==
  ASSUME TypeInv, NEW p \in Producers,
         TryLock(p) \/ Lock(p) \/ Write(p) \/ HandlePlain(p) \/ Overflow(p)
           \/ Evict(p) \/ Send(p)
  PROVE  \A q \in Producers :
           /\ call'[q].cell \in Cell => call'[q].cell = call[q].cell
           /\ call'[q].own \in Cell => call'[q].own = call[q].own
           /\ call'[q].record = call[q].record
<1>1. call \in [Producers -> Call] /\ \A q \in Producers : call[q] \in Call
  BY DEF TypeInv, TypeOK
<1>2. ASSUME NEW error \in BOOLEAN, Return(p, error)
      PROVE  \A q \in Producers :
               /\ call'[q].cell \in Cell => call'[q].cell = call[q].cell
               /\ call'[q].own \in Cell => call'[q].own = call[q].own
               /\ call'[q].record = call[q].record
  BY <1>2, AfterFrees, AfterKeeps, NilAssumption DEF CallFrees
<1>3. ASSUME NEW label, Goto(p, label)
      PROVE  \A q \in Producers :
               /\ call'[q].cell = call[q].cell /\ call'[q].own = call[q].own
               /\ call'[q].record = call[q].record
  BY <1>1, <1>3 DEF Goto, Call
<1>4. ASSUME NEW label, call' = [call EXCEPT ![p].text = Source(p), ![p].pc = label]
      PROVE  \A q \in Producers :
               /\ call'[q].cell = call[q].cell /\ call'[q].own = call[q].own
               /\ call'[q].record = call[q].record
  BY <1>1, <1>4 DEF Call
<1> QED
  BY <1>2, <1>3, <1>4
     DEF TryLock, Lock, Write, HandlePlain, Overflow, Evict, Send

LEMMA QuietContent ==
  ASSUME TypeInv, ContentInv, NEW p \in Producers,
         TryLock(p) \/ Lock(p) \/ Write(p) \/ HandlePlain(p) \/ Overflow(p)
           \/ Evict(p) \/ Send(p)
  PROVE  ContentInv'
<1>1. UNCHANGED <<entry, pool, made, worker>>
  BY DEF TryLock, Lock, Write, HandlePlain, Overflow, Evict, Send
<1>2. \A c \in Async : worker'[c].cell \in Cell => Intact(entry[worker'[c].cell])
  BY <1>1 DEF ContentInv
<1>3. ASSUME NEW c \in Async, NEW e \in Range(queue'[c]) PROVE Intact(entry[e])
  <2>1. CASE UNCHANGED queue
    BY <1>3, <2>1 DEF ContentInv
  <2>2. CASE Evict(p) /\ queue[ChildOf(p)] # <<>>
    <3>1. /\ queue' = [queue EXCEPT ![ChildOf(p)] = Tail(@)]
          /\ ChildOf(p) \in Async /\ queue \in [Async -> Seq(Cell)]
      BY <2>2, TargetCell DEF Evict, TypeInv, TypeOK
    <3>2. Range(Tail(queue[ChildOf(p)])) \subseteq Range(queue[ChildOf(p)])
      BY <2>2, <3>1, TailRange
    <3>3. e \in Range(queue[c]) BY <1>3, <3>1, <3>2
    <3> QED BY <3>3 DEF ContentInv
  <2>3. CASE Send(p)
    <3>1. /\ queue' = [queue EXCEPT ![ChildOf(p)] = Append(@, Target(p))]
          /\ ChildOf(p) \in Async /\ queue \in [Async -> Seq(Cell)] /\ Target(p) \in Cell
      BY <2>3, TargetCell DEF Send, TypeInv, TypeOK
    <3>2. Range(Append(queue[ChildOf(p)], Target(p)))
            = Range(queue[ChildOf(p)]) \cup {Target(p)}
      BY <3>1, AppendRange
    <3>3. e \in Range(queue[c]) \/ e = Target(p)
      BY <1>3, <3>1, <3>2
    <3>4. Intact(entry[Target(p)])
      <4>1. call[p].record \in Record BY DEF TypeInv, TypeOK, Call
      <4>2. entry[Target(p)] = Logged(call[p].record)
        BY <3>1 DEF ContentInv, Target
      <4> QED BY <4>1, <4>2, LoggedIntact
    <3> QED BY <3>3, <3>4 DEF ContentInv
  <2> QED BY <2>1, <2>2, <2>3 DEF TryLock, Lock, Write, HandlePlain, Overflow, Evict
<1> QED BY <1>1, <1>2, <1>3, CallersKeep, ContentKept

LEMMA QuietWorkerContent ==
  ASSUME TypeInv, ContentInv, NEW c \in Async,
         Receive(c) \/ WorkerLock(c) \/ WorkerWrite(c)
  PROVE  ContentInv'
<1>1. /\ UNCHANGED <<entry, pool, made, call>>
      /\ worker \in [Async -> [pc : WorkerPCs, cell : Cell \cup {NoCell}]]
      /\ queue \in [Async -> Seq(Cell)]
  BY DEF Receive, WorkerLock, WorkerWrite, TypeInv, TypeOK
<1>2. CASE Receive(c)
  <2>1. /\ queue' = [queue EXCEPT ![c] = Tail(@)] /\ queue[c] # <<>>
        /\ worker'[c].cell = Head(queue[c])
        /\ \A k \in Async \ {c} : worker'[k] = worker[k]
    BY <1>1, <1>2 DEF Receive
  <2>2. /\ Range(Tail(queue[c])) \subseteq Range(queue[c]) /\ Head(queue[c]) \in Range(queue[c])
    BY <1>1, <2>1, TailRange
  <2>3. ASSUME NEW k \in Async
        PROVE  /\ worker'[k].cell \in Cell => Intact(entry[worker'[k].cell])
               /\ \A e \in Range(queue'[k]) : Intact(entry[e])
    BY <1>1, <2>1, <2>2 DEF ContentInv
  <2> QED BY <1>1, <2>3, ContentKept
<1>3. CASE WorkerLock(c) \/ WorkerWrite(c)
  <2>1. UNCHANGED queue BY <1>3 DEF WorkerLock, WorkerWrite
  <2>2. \A k \in Async : WorkerFrees(k)
    BY <1>3, QuietWorker
  <2>3. ASSUME NEW k \in Async
        PROVE  /\ worker'[k].cell \in Cell => Intact(entry[worker'[k].cell])
               /\ \A e \in Range(queue'[k]) : Intact(entry[e])
    <3>1. worker'[k].cell \in Cell => worker'[k].cell = worker[k].cell
      BY <2>2, NilAssumption DEF WorkerFrees
    <3> QED BY <2>1, <3>1 DEF ContentInv
  <2> QED BY <1>1, <2>3, ContentKept
<1> QED BY <1>2, <1>3

(* A caller gets an entry: nobody else looks at it.                        *)
LEMMA GetContent ==
  ASSUME TypeInv, ExclusiveInv, ContentInv, NEW p \in Producers, NEW e \in Cell,
         NEW r \in Record, Pool!GetEntry(e, Logged(r)), UNCHANGED <<queue, worker>>,
         call'[p].record = r,
         call'[p].cell \in Cell =>
           call'[p].cell = e \/ (call'[p].cell = call[p].cell /\ call[p].record = r),
         call'[p].own \in Cell =>
           call'[p].own = e \/ (call'[p].own = call[p].own /\ call[p].record = r),
         \A q \in Producers \ {p} : call'[q] = call[q]
  PROVE  ContentInv'
<1>1. /\ entry \in [Cell -> Pool!Entry] /\ pool \in [Cell -> Nat]
      /\ queue \in [Async -> Seq(Cell)]
  BY DEF TypeInv, TypeOK, Pool!PoolTypeOK
<1>2. \A f \in Cell : entry'[f] = IF f = e THEN Logged(r) ELSE entry[f]
  BY <1>1 DEF Pool!GetEntry
<1>3. pool[e] # 0 \/ e \notin made
  BY <1>1 DEF Pool!GetEntry, Pool!Take
<1>4. /\ \A q \in Producers : call[q].cell # e /\ call[q].own # e
      /\ \A c \in Async : worker[c].cell # e /\ e \notin Range(queue[c])
  BY <1>3, Unshared
<1>5. Intact(Logged(r)) BY LoggedIntact
<1>6. \A q \in Producers :
        /\ call'[q].cell \in Cell => entry'[call'[q].cell] = Logged(call'[q].record)
        /\ call'[q].own \in Cell => entry'[call'[q].own] = Logged(call'[q].record)
  <2> SUFFICES ASSUME NEW q \in Producers
               PROVE  /\ call'[q].cell \in Cell =>
                           entry'[call'[q].cell] = Logged(call'[q].record)
                      /\ call'[q].own \in Cell =>
                           entry'[call'[q].own] = Logged(call'[q].record)
    OBVIOUS
  <2>1. CASE q = p
    BY <1>2, <1>4, <2>1 DEF ContentInv
  <2>2. CASE q # p
    BY <1>2, <1>4, <2>2 DEF ContentInv
  <2> QED BY <2>1, <2>2
<1>7. \A c \in Async : worker'[c].cell \in Cell => Intact(entry'[worker'[c].cell])
  BY <1>2, <1>4 DEF ContentInv
<1>8. \A c \in Async : \A f \in Range(queue'[c]) : Intact(entry'[f])
  <2> SUFFICES ASSUME NEW c \in Async, NEW f \in Range(queue[c])
               PROVE  Intact(entry'[f])
    OBVIOUS
  <2>1. f \in Cell BY <1>1 DEF Range
  <2> QED BY <1>2, <1>4, <2>1 DEF ContentInv
<1>9. \A f \in Cell : pool'[f] # 0 \/ f \notin made' => entry'[f].caller = NoRecord
  <2>1. pool'[e] = 0 /\ e \in made'
    <3>1. pool[e] \in Nat /\ pool[e] <= 1 /\ (pool[e] # 0 => e \in made)
      BY <1>1, Unshared DEF ExclusiveInv
    <3> QED BY <1>1, <3>1 DEF Pool!GetEntry, Pool!Take
  <2>2. \A f \in Cell \ {e} : pool'[f] = pool[f] /\ (f \in made' <=> f \in made)
    BY <1>1 DEF Pool!GetEntry, Pool!Take
  <2> QED BY <1>2, <2>1, <2>2 DEF ContentInv
<1> QED BY <1>6, <1>7, <1>8, <1>9 DEF ContentInv, Intact

LEMMA LogContent ==
  ASSUME TypeInv, ExclusiveInv, ContentInv, NEW p \in Producers, NEW args \in BOOLEAN,
         Log(p, args)
  PROVE  ContentInv'
<1> DEFINE r == [src |-> p, seq |-> call[p].record.seq + 1, args |-> args]
<1>1. /\ call \in [Producers -> Call] /\ \A q \in Producers : call[q] \in Call
      /\ call[p].own = NoCell
  BY DEF TypeInv, TypeOK, CallInv, CallOK, Log
<1>2. UNCHANGED <<queue, worker>> /\ r \in Record
  BY <1>1 DEF Log, Record, Call
<1>3. ASSUME NEW e \in Cell \cup {NoCell}, Start(p, r, e)
      PROVE  /\ call'[p].cell = e /\ call'[p].own = NoCell /\ call'[p].record = r
             /\ \A q \in Producers \ {p} : call'[q] = call[q]
  BY <1>1, <1>3 DEF Start, Call
<1>4. CASE NeedsEntry(p, r)
  <2>1. PICK e \in Cell : Start(p, r, e) /\ Pool!GetEntry(e, Filled(e, r))
    BY <1>4 DEF Log
  <2>2. entry[e].caller = NoRecord
    BY <2>1 DEF Pool!GetEntry, Pool!Take, ContentInv, TypeInv, TypeOK, Pool!PoolTypeOK
  <2>3. Filled(e, r) = Logged(r)
    BY <2>2 DEF Filled, Logged, CallerOf
  <2> HIDE DEF r
  <2> QED BY <1>2, <1>3, <2>1, <2>3, NilAssumption, GetContent
<1>5. CASE ~NeedsEntry(p, r)
  <2>1. Start(p, r, NoCell) /\ UNCHANGED <<made, pool, entry>>
    BY <1>5 DEF Log
  <2>2. /\ \A q \in Producers :
             /\ call'[q].cell \in Cell =>
                  call'[q].cell = call[q].cell /\ call'[q].record = call[q].record
             /\ call'[q].own \in Cell =>
                  call'[q].own = call[q].own /\ call'[q].record = call[q].record
    BY <1>3, <2>1, NilAssumption
  <2>3. \A c \in Async :
          /\ worker'[c].cell \in Cell => Intact(entry[worker'[c].cell])
          /\ \A e \in Range(queue'[c]) : Intact(entry[e])
    BY <1>2 DEF ContentInv
  <2> QED BY <2>1, <2>2, <2>3, ContentKept
<1> QED BY <1>4, <1>5

LEMMA HandleLogContent ==
  ASSUME TypeInv, ExclusiveInv, ContentInv, NEW p \in Producers, HandleLog(p)
  PROVE  ContentInv'
<1>1. call \in [Producers -> Call] /\ \A q \in Producers : call[q] \in Call
  BY DEF TypeInv, TypeOK
<1>2. PICK e \in Cell : /\ Pool!GetEntry(e, Logged(call[p].record))
                        /\ call' = [call EXCEPT ![p].own = e, ![p].pc = "send"]
  BY DEF HandleLog
<1>3. /\ call'[p].cell = call[p].cell /\ call'[p].own = e
      /\ call'[p].record = call[p].record /\ call[p].record \in Record
      /\ \A q \in Producers \ {p} : call'[q] = call[q]
  BY <1>1, <1>2 DEF Call
<1>4. UNCHANGED <<queue, worker>> BY DEF HandleLog
<1> QED BY <1>2, <1>3, <1>4, GetContent

(* An entry goes back to the pool: only its last user had it.              *)
LEMMA PutContent ==
  ASSUME TypeInv, ExclusiveInv, ContentInv, NEW e \in Cell, Pool!PutEntry(e),
         UNCHANGED queue,
         \A c \in Async : e \notin Range(queue[c]),
         \A p \in Producers :
           /\ call'[p].cell \in Cell => call'[p].cell = call[p].cell /\ call[p].cell # e
           /\ call'[p].own \in Cell => call'[p].own = call[p].own /\ call[p].own # e
           /\ call'[p].record = call[p].record,
         \A c \in Async : worker'[c].cell \in Cell =>
           worker'[c].cell = worker[c].cell /\ worker[c].cell # e
  PROVE  ContentInv'
<1>1. /\ entry \in [Cell -> Pool!Entry] /\ pool \in [Cell -> Nat]
      /\ queue \in [Async -> Seq(Cell)]
  BY DEF TypeInv, TypeOK, Pool!PoolTypeOK
<1>2. /\ \A f \in Cell \ {e} : entry'[f] = entry[f] /\ pool'[f] = pool[f]
      /\ entry'[e].caller = NoRecord /\ made' = made
  BY <1>1 DEF Pool!PutEntry, Pool!Entry
<1>3. \A q \in Producers :
        /\ call'[q].cell \in Cell => entry'[call'[q].cell] = Logged(call'[q].record)
        /\ call'[q].own \in Cell => entry'[call'[q].own] = Logged(call'[q].record)
  BY <1>2 DEF ContentInv
<1>4. \A c \in Async : worker'[c].cell \in Cell => Intact(entry'[worker'[c].cell])
  BY <1>2 DEF ContentInv
<1>5. \A c \in Async : \A f \in Range(queue'[c]) : Intact(entry'[f])
  <2> SUFFICES ASSUME NEW c \in Async, NEW f \in Range(queue[c])
               PROVE  Intact(entry'[f])
    OBVIOUS
  <2>1. f \in Cell /\ f # e BY <1>1 DEF Range
  <2> QED BY <1>2, <2>1 DEF ContentInv
<1>6. \A f \in Cell : pool'[f] # 0 \/ f \notin made' => entry'[f].caller = NoRecord
  BY <1>2 DEF ContentInv
<1> QED BY <1>3, <1>4, <1>5, <1>6 DEF ContentInv, Intact

LEMMA RecycleContent ==
  ASSUME TypeInv, ExclusiveInv, ContentInv, NEW p \in Producers, Recycle(p)
  PROVE  ContentInv'
<1>1. /\ call \in [Producers -> Call] /\ \A q \in Producers : call[q] \in Call
      /\ call[p].cell \in Cell
  BY DEF TypeInv, TypeOK, CallInv, CallOK, Recycle
<1>2. UNCHANGED <<queue, worker>> /\ Pool!PutEntry(call[p].cell)
  BY DEF Recycle
<1>3. /\ call'[p].cell = NoCell /\ call'[p].own = call[p].own
      /\ call'[p].record = call[p].record
      /\ \A q \in Producers \ {p} : call'[q] = call[q]
  BY <1>1 DEF Recycle, Call
<1>4. /\ \A q \in Producers :
           call[q].own # call[p].cell /\ (q # p => call[q].cell # call[p].cell)
      /\ \A c \in Async :
           worker[c].cell # call[p].cell /\ call[p].cell \notin Range(queue[c])
  BY <1>1, Unshared
<1> QED BY <1>1, <1>2, <1>3, <1>4, NilAssumption, PutContent

LEMMA WorkerPutContent ==
  ASSUME TypeInv, ExclusiveInv, ContentInv, NEW c \in Async, WorkerPut(c)
  PROVE  ContentInv'
<1>1. /\ worker[c].cell \in Cell
      /\ worker \in [Async -> [pc : WorkerPCs, cell : Cell \cup {NoCell}]]
  BY DEF WorkerPut, TypeInv, TypeOK, WorkerInv
<1>2. UNCHANGED <<queue, call>> /\ Pool!PutEntry(worker[c].cell)
  BY DEF WorkerPut
<1>3. /\ worker'[c].cell = NoCell
      /\ \A k \in Async \ {c} : worker'[k] = worker[k]
  BY <1>1 DEF WorkerPut
<1>4. /\ \A p \in Producers : call[p].cell # worker[c].cell /\ call[p].own # worker[c].cell
      /\ \A d \in Async :
           worker[c].cell \notin Range(queue[d]) /\ (d # c => worker[d].cell # worker[c].cell)
  BY <1>1, Unshared
<1>5. \A d \in Async : worker'[d].cell \in Cell =>
        worker'[d].cell = worker[d].cell /\ worker[d].cell # worker[c].cell
  BY <1>3, <1>4, NilAssumption
<1> QED BY <1>1, <1>2, <1>4, <1>5, PutContent

LEMMA NextContent ==
  TypeInv /\ ExclusiveInv /\ ContentInv /\ [Next]_vars => ContentInv'
<1> SUFFICES ASSUME TypeInv, ExclusiveInv, ContentInv, [Next]_vars PROVE ContentInv'
  OBVIOUS
<1>1. CASE UNCHANGED vars
  BY <1>1 DEF vars, ContentInv, Intact
<1>2. ASSUME NEW p \in Producers, CallStep(p) PROVE ContentInv'
  BY <1>2, QuietContent, HandleLogContent, RecycleContent DEF CallStep
<1>3. ASSUME NEW c \in Async, WorkerStep(c) PROVE ContentInv'
  BY <1>3, QuietWorkerContent, WorkerPutContent DEF WorkerStep
<1> QED BY <1>1, <1>2, <1>3, LogContent DEF Next, Terminated

(* Buffers: a step of p that ends in front of a child or outside of one.   *)
LEMMA BufferKept ==
  ASSUME TypeInv, BufferInv, NEW p \in Producers,
         \A q \in Producers \ {p} : call'[q] = call[q],
         call'[p].pc \in {"try", "plain", "send", "evict", "get", "recycle", "idle"},
         UNCHANGED <<buf, worker>>,
         \A c \in Sync \cup Async : mu[c] # p => mu'[c] = mu[c],
         \A c \in Async : worker[c].cell \in Cell =>
           entry'[worker[c].cell].message = entry[worker[c].cell].message
  PROVE  BufferInv'
<1>1. ASSUME NEW q \in Producers, q # p, call[q].pc \in {"locked", "lockedText"}
      PROVE  mu'[ChildOf(q)] = q
  <2>1. ChildOf(q) \in Sync \cup Async
    BY <1>1 DEF TypeInv, CallInv, CallOK, ChildOf
  <2> QED BY <1>1, <2>1 DEF BufferInv
<1>2. ASSUME NEW q \in Producers
      PROVE  /\ call'[q].pc \in {"locked", "lockedText"} => mu'[ChildOf(q)'] = q
             /\ call'[q].pc = "locked" => buf'[ChildOf(q)'] = Logged(call'[q].record)
             /\ call'[q].pc \in {"await", "lockedText", "direct"} =>
                  call'[q].text = Logged(call'[q].record)
  <2>1. CASE q = p BY <2>1
  <2>2. CASE q # p
    <3>1. call'[q] = call[q] /\ ChildOf(q)' = ChildOf(q)
      BY <2>2 DEF ChildOf
    <3> QED BY <1>1, <2>2, <3>1 DEF BufferInv
  <2> QED BY <2>1, <2>2
<1>3. ASSUME NEW c \in Async, worker'[c].pc = "write"
      PROVE  /\ mu'[c] = Worker /\ Intact(buf'[c])
             /\ buf'[c].message = entry'[worker'[c].cell].message
  <2>1. worker[c].cell \in Cell /\ worker[c].pc = "write" /\ mu[c] = Worker
    BY <1>3 DEF TypeInv, WorkerInv, BufferInv
  <2> QED BY <1>3, <2>1, HolderAssumption DEF BufferInv
<1> QED BY <1>2, <1>3 DEF BufferInv, Intact

(* Somebody locks the mutex of a handler, which was free.                  *)
LEMMA TryLockBuffer ==
  ASSUME TypeInv, ContentInv, BufferInv, NEW p \in Producers, TryLock(p) \/ Lock(p)
  PROVE  BufferInv'
<1>1. /\ call \in [Producers -> Call] /\ call[p] \in Call
      /\ ChildOf(p) \in Sync \cup Async
      /\ mu \in [Sync \cup Async -> Producers \cup {Worker, Nobody}]
      /\ buf \in [Sync \cup Async -> Pool!Entry]
      /\ UNCHANGED <<worker, entry>>
  BY DEF TryLock, Lock, TypeInv, TypeOK, CallInv, CallOK, ChildOf
<1>2. call[p].pc = "try" => Source(p) = Logged(call[p].record)
  BY SourceLogged
<1>3. /\ \A q \in Producers \ {p} : call'[q] = call[q] /\ ChildOf(q)' = ChildOf(q)
      /\ ChildOf(p)' = ChildOf(p) /\ call'[p].record = call[p].record
  BY <1>1 DEF TryLock, Lock, Goto, ChildOf, Call
<1>4. \A c \in Sync \cup Async : mu[c] # Nobody => mu'[c] = mu[c] /\ buf'[c] = buf[c]
  BY <1>1 DEF TryLock, Lock
<1>5. /\ call'[p].pc \in {"locked", "lockedText"} => mu'[ChildOf(p)] = p
      /\ call'[p].pc = "locked" => buf'[ChildOf(p)] = Logged(call[p].record)
      /\ call'[p].pc \in {"await", "lockedText", "direct"} =>
           call'[p].text = Logged(call[p].record)
  <2>1. CASE Lock(p)
    <3>1. /\ call'[p].pc = "lockedText" /\ call'[p].text = call[p].text
          /\ call[p].pc = "await" /\ mu'[ChildOf(p)] = p
      BY <1>1, <2>1 DEF Lock, Goto, Call
    <3> QED BY <3>1 DEF BufferInv
  <2>2. CASE TryLock(p)
    <3>1. CASE /\ mu' = [mu EXCEPT ![ChildOf(p)] = p]
               /\ buf' = [buf EXCEPT ![ChildOf(p)] = Source(p)]
               /\ Goto(p, "locked")
      BY <1>1, <1>2, <2>2, <3>1 DEF TryLock, Goto
    <3>2. CASE call' = [call EXCEPT
                 ![p].text = Source(p),
                 ![p].pc = IF ChildOf(p) \in ConcurrentSafe THEN "direct" ELSE "await"]
      BY <1>1, <1>2, <2>2, <3>2 DEF TryLock, Call
    <3> QED BY <2>2, <3>1, <3>2 DEF TryLock
  <2> QED BY <2>1, <2>2
<1>6. ASSUME NEW q \in Producers, q # p, call[q].pc \in {"locked", "lockedText"}
      PROVE  mu'[ChildOf(q)] = q /\ buf'[ChildOf(q)] = buf[ChildOf(q)]
  <2>1. ChildOf(q) \in Sync \cup Async
    BY <1>6 DEF TypeInv, CallInv, CallOK, ChildOf
  <2> QED BY <1>4, <1>6, <2>1, HolderAssumption DEF BufferInv
<1>7. ASSUME NEW q \in Producers
      PROVE  /\ call'[q].pc \in {"locked", "lockedText"} => mu'[ChildOf(q)'] = q
             /\ call'[q].pc = "locked" => buf'[ChildOf(q)'] = Logged(call'[q].record)
             /\ call'[q].pc \in {"await", "lockedText", "direct"} =>
                  call'[q].text = Logged(call'[q].record)
  <2>1. CASE q = p BY <1>3, <1>5, <2>1
  <2>2. CASE q # p BY <1>3, <1>6, <2>2 DEF BufferInv
  <2> QED BY <2>1, <2>2
<1>8. ASSUME NEW c \in Async, worker'[c].pc = "write"
      PROVE  /\ mu'[c] = Worker /\ Intact(buf'[c])
             /\ buf'[c].message = entry'[worker'[c].cell].message
  <2>1. mu[c] = Worker BY <1>1, <1>8 DEF BufferInv
  <2> QED BY <1>1, <1>4, <1>8, <2>1, HolderAssumption DEF BufferInv
<1> QED BY <1>7, <1>8 DEF BufferInv, Intact

LEMMA CallBuffer ==
  ASSUME TypeInv, ExclusiveInv, BufferInv, NEW p \in Producers,
         Write(p) \/ HandlePlain(p) \/ Overflow(p) \/ Evict(p) \/ Send(p)
           \/ HandleLog(p) \/ Recycle(p)
  PROVE  BufferInv'
<1>1. call \in [Producers -> Call] /\ call[p] \in Call
  BY DEF TypeInv, TypeOK
<1>2. \A q \in Producers \ {p} : call'[q] = call[q]
  BY <1>1, AfterFrees
     DEF Write, HandlePlain, Overflow, Evict, Send, HandleLog, Recycle, Goto
<1>3. call'[p].pc \in {"try", "plain", "send", "evict", "get", "recycle", "idle"}
  <2>1. ASSUME NEW error \in BOOLEAN, Return(p, error)
        PROVE  call'[p].pc \in {"try", "plain", "send", "get", "recycle", "idle"}
    BY <2>1, AfterKeeps
  <2>2. ASSUME NEW label \in {"try", "send", "evict"}, Goto(p, label)
        PROVE  call'[p].pc = label
    BY <1>1, <2>2 DEF Goto
  <2>3. CASE HandleLog(p) BY <1>1, <2>3 DEF HandleLog, Call
  <2>4. CASE Recycle(p) BY <1>1, <2>4 DEF Recycle, Call
  <2> QED
    BY <2>1, <2>2, <2>3, <2>4 DEF Write, HandlePlain, Overflow, Evict, Send
<1>4. UNCHANGED <<buf, worker>>
  BY DEF Write, HandlePlain, Overflow, Evict, Send, HandleLog, Recycle
<1>5. \A c \in Sync \cup Async : mu[c] # p => mu'[c] = mu[c]
  <2>1. CASE Write(p)
    <3>1. /\ ChildOf(p) \in Sync \cup Async
          /\ mu \in [Sync \cup Async -> Producers \cup {Worker, Nobody}]
          /\ call[p].pc # "direct" => mu[ChildOf(p)] = p
      BY <2>1 DEF Write, TypeInv, TypeOK, CallInv, CallOK, ChildOf, BufferInv
    <3> QED BY <2>1, <3>1 DEF Write
  <2>2. CASE UNCHANGED mu BY <2>2
  <2> QED
    BY <2>1, <2>2 DEF HandlePlain, Overflow, Evict, Send, HandleLog, Recycle
<1>6. \A c \in Async : worker[c].cell \in Cell =>
        entry'[worker[c].cell].message = entry[worker[c].cell].message
  <2>1. CASE UNCHANGED entry BY <2>1
  <2>2. CASE HandleLog(p)
    <3>1. PICK e \in Cell : Pool!GetEntry(e, Logged(call[p].record))
      BY <2>2 DEF HandleLog
    <3>2. (pool[e] # 0 \/ e \notin made) /\ \A f \in Cell \ {e} : entry'[f] = entry[f]
      BY <3>1 DEF Pool!GetEntry, Pool!Take, TypeInv, TypeOK, Pool!PoolTypeOK
    <3>3. \A c \in Async : worker[c].cell # e BY <3>2, Unshared
    <3> QED BY <3>2, <3>3
  <2>3. CASE Recycle(p)
    BY <2>3 DEF Recycle, Pool!PutEntry, TypeInv, TypeOK, Pool!PoolTypeOK, Pool!Entry
  <2> QED BY <2>1, <2>2, <2>3 DEF Write, HandlePlain, Overflow, Evict, Send
<1> QED BY <1>2, <1>3, <1>4, <1>5, <1>6, BufferKept

LEMMA LogBuffer ==
  ASSUME TypeInv, ExclusiveInv, BufferInv, NEW p \in Producers, NEW args \in BOOLEAN,
         Log(p, args)
  PROVE  BufferInv'
<1> DEFINE r == [src |-> p, seq |-> call[p].record.seq + 1, args |-> args]
<1>1. call \in [Producers -> Call] /\ call[p] \in Call
  BY DEF TypeInv, TypeOK
<1>2. UNCHANGED <<buf, worker, mu>> /\ r \in Record
  BY <1>1 DEF Log, Record, Call
<1>3. Entering(p, 1, r) \in {"try", "plain", "send", "get"}
  BY <1>2, EnteringChild, LoggerAssumption DEF Child
<1>4. ASSUME NEW e, Start(p, r, e)
      PROVE  /\ call'[p].pc = Entering(p, 1, r)
             /\ \A q \in Producers \ {p} : call'[q] = call[q]
  BY <1>1, <1>4 DEF Start, Call
<1>5. CASE NeedsEntry(p, r)
  <2>1. PICK e \in Cell : Start(p, r, e) /\ Pool!GetEntry(e, Filled(e, r))
    BY <1>5 DEF Log
  <2>2. (pool[e] # 0 \/ e \notin made) /\ \A f \in Cell \ {e} : entry'[f] = entry[f]
    BY <2>1 DEF Pool!GetEntry, Pool!Take, TypeInv, TypeOK, Pool!PoolTypeOK
  <2>3. \A c \in Async : worker[c].cell # e BY <2>2, Unshared
  <2> QED BY <1>2, <1>3, <1>4, <2>1, <2>2, <2>3, BufferKept
<1>6. CASE ~NeedsEntry(p, r)
  <2>1. Start(p, r, NoCell) /\ UNCHANGED entry BY <1>6 DEF Log
  <2> QED BY <1>2, <1>3, <1>4, <2>1, BufferKept
<1> QED BY <1>5, <1>6

LEMMA WorkerBuffer ==
  ASSUME TypeInv, ExclusiveInv, ContentInv, BufferInv, NEW c \in Async, WorkerStep(c)
  PROVE  BufferInv'
<1>1. /\ worker \in [Async -> [pc : WorkerPCs, cell : Cell \cup {NoCell}]]
      /\ mu \in [Sync \cup Async -> Producers \cup {Worker, Nobody}]
      /\ buf \in [Sync \cup Async -> Pool!Entry]
      /\ entry \in [Cell -> Pool!Entry]
      /\ call' = call
  BY DEF WorkerStep, Receive, WorkerLock, WorkerWrite, WorkerPut, TypeInv, TypeOK,
         Pool!PoolTypeOK
<1>2. \A d \in (Sync \cup Async) \ {c} : mu'[d] = mu[d] /\ buf'[d] = buf[d]
  BY <1>1 DEF WorkerStep, Receive, WorkerLock, WorkerWrite, WorkerPut
<1>3. ASSUME NEW d \in Async, worker[d].cell \in Cell
      PROVE  entry'[worker[d].cell].message = entry[worker[d].cell].message
  <2>1. CASE WorkerPut(c)
    <3>1. worker[c].cell \in Cell BY <2>1 DEF WorkerPut, TypeInv, WorkerInv
    <3> QED BY <1>1, <1>3, <2>1, <3>1 DEF WorkerPut, Pool!PutEntry, Pool!Entry
  <2>2. CASE ~WorkerPut(c)
    BY <2>2 DEF WorkerStep, Receive, WorkerLock, WorkerWrite
  <2> QED BY <2>1, <2>2
<1>4. mu'[c] # mu[c] => mu[c] = Nobody \/ mu[c] = Worker
  BY <1>1 DEF WorkerStep, Receive, WorkerLock, WorkerWrite, WorkerPut, BufferInv
<1>5. buf'[c] # buf[c] => mu[c] = Nobody
  BY <1>1 DEF WorkerStep, Receive, WorkerLock, WorkerWrite, WorkerPut
<1>6. ASSUME NEW q \in Producers, call[q].pc \in {"locked", "lockedText"}
      PROVE  mu'[ChildOf(q)] = q /\ buf'[ChildOf(q)] = buf[ChildOf(q)]
  <2>1. ChildOf(q) \in Sync \cup Async /\ mu[ChildOf(q)] = q
    BY <1>6 DEF TypeInv, CallInv, CallOK, ChildOf, BufferInv
  <2> QED BY <1>2, <1>4, <1>5, <2>1, HolderAssumption
<1>7. ASSUME NEW q \in Producers
      PROVE  /\ call'[q].pc \in {"locked", "lockedText"} => mu'[ChildOf(q)'] = q
             /\ call'[q].pc = "locked" => buf'[ChildOf(q)'] = Logged(call'[q].record)
             /\ call'[q].pc \in {"await", "lockedText", "direct"} =>
                  call'[q].text = Logged(call'[q].record)
  <2>1. ChildOf(q)' = ChildOf(q) BY <1>1 DEF ChildOf
  <2> QED BY <1>1, <1>6, <2>1 DEF BufferInv
<1>8. ASSUME NEW d \in Async, d # c, worker'[d].pc = "write"
      PROVE  /\ mu'[d] = Worker /\ Intact(buf'[d])
             /\ buf'[d].message = entry'[worker'[d].cell].message
  <2>1. worker'[d] = worker[d]
    BY <1>1, <1>8
       DEF WorkerStep, Receive, WorkerLock, WorkerWrite, WorkerPut, WorkerGoto
  <2>2. worker[d].cell \in Cell BY <1>8, <2>1 DEF TypeInv, WorkerInv
  <2> QED BY <1>2, <1>3, <1>8, <2>1, <2>2 DEF BufferInv
<1>9. ASSUME worker'[c].pc = "write"
      PROVE  /\ mu'[c] = Worker /\ Intact(buf'[c])
             /\ buf'[c].message = entry'[worker'[c].cell].message
  <2>1. WorkerLock(c)
    BY <1>1, <1>9
       DEF WorkerStep, Receive, WorkerLock, WorkerWrite, WorkerPut, WorkerGoto
  <2>2. worker[c].cell \in Cell /\ Intact(entry[worker[c].cell])
    BY <2>1 DEF WorkerLock, TypeInv, WorkerInv, ContentInv
  <2>3. /\ mu'[c] = Worker /\ buf'[c] = entry[worker[c].cell]
        /\ worker'[c].cell = worker[c].cell /\ entry' = entry
    BY <1>1, <2>1 DEF WorkerLock, WorkerGoto
  <2> QED BY <2>2, <2>3
<1> QED BY <1>7, <1>8, <1>9 DEF BufferInv, Intact
-----------------------------------------------------------------------------
(* The lines of the children                                               *)

LEMMA AppendIntact ==
  ASSUME TypeInv, LinesIntact, NEW c \in Child, NEW line \in Pool!Entry, Intact(line),
         WriteOK(c, line) \/ WriteFails(c, line)
  PROVE  LinesIntact'
<1>1. out \in [Child -> Seq(Pool!Entry)]
  BY DEF TypeInv, TypeOK
<1>2. CASE WriteFails(c, line)
  <2>1. out' = out BY <1>2 DEF WriteFails
  <2> QED BY <2>1 DEF LinesIntact
<1>3. CASE WriteOK(c, line)
  <2>1. PICK s \in Seq(Pool!Entry) : s = out[c]
    BY <1>1
  <2>2. /\ out'[c] = Append(s, line)
        /\ \A d \in Child \ {c} : out'[d] = out[d]
    BY <1>1, <1>3, <2>1 DEF WriteOK
  <2>3. \A i \in DOMAIN s : Intact(s[i])
    BY <2>1 DEF LinesIntact, Intact
  <2>4. ASSUME NEW i \in DOMAIN Append(s, line) PROVE Intact(Append(s, line)[i])
    <3>1. (i \in DOMAIN s /\ Append(s, line)[i] = s[i]) \/ Append(s, line)[i] = line
      OBVIOUS
    <3> QED BY <2>3, <3>1
  <2>5. \A d \in Child : \A i \in DOMAIN out'[d] : Intact(out'[d][i])
    BY <2>2, <2>4 DEF LinesIntact, Intact
  <2> QED BY <2>5 DEF LinesIntact, Intact
<1> QED BY <1>2, <1>3

LEMMA CallLines ==
  ASSUME TypeInv, ContentInv, BufferInv, LinesIntact, NEW p \in Producers,
         HandlePlain(p) \/ Write(p)
  PROVE  LinesIntact'
<1>1. /\ call[p] \in Call /\ CallOK(p, call[p]) /\ call[p].record \in Record
      /\ entry \in [Cell -> Pool!Entry] /\ buf \in [Sync \cup Async -> Pool!Entry]
  BY DEF TypeInv, TypeOK, CallInv, Call, Pool!PoolTypeOK
<1>2. Intact(Logged(call[p].record)) BY <1>1, LoggedIntact
<1>3. CASE HandlePlain(p)
  <2>1. call[p].pc = "plain" /\ call[p].cell \in Cell /\ ChildOf(p) \in Child
    BY <1>1, <1>3, FastChildren DEF HandlePlain, CallOK, ChildOf, Child
  <2>2. /\ entry[call[p].cell] \in Pool!Entry
        /\ entry[call[p].cell] = Logged(call[p].record)
    BY <1>1, <2>1 DEF ContentInv
  <2> QED BY <1>2, <1>3, <2>1, <2>2, AppendIntact DEF HandlePlain
<1>4. CASE Write(p)
  <2> DEFINE line == IF call[p].pc = "locked" THEN buf[ChildOf(p)] ELSE call[p].text
  <2>1. /\ call[p].pc \in {"locked", "lockedText", "direct"}
        /\ ChildOf(p) \in Sync \cup Async /\ ChildOf(p) \in Child
    BY <1>1, <1>4 DEF Write, CallOK, ChildOf, Child
  <2>2. line \in Pool!Entry /\ line = Logged(call[p].record)
    BY <1>1, <2>1 DEF BufferInv, Call
  <2>3. WriteOK(ChildOf(p), line) \/ WriteFails(ChildOf(p), line)
    BY <1>4 DEF Write
  <2> HIDE DEF line
  <2> QED BY <1>2, <2>1, <2>2, <2>3, AppendIntact
<1> QED BY <1>3, <1>4

LEMMA NextIntact ==
  TypeInv /\ ExclusiveInv /\ IntactInv /\ [Next]_vars => IntactInv'
<1> SUFFICES ASSUME TypeInv, ExclusiveInv, IntactInv, [Next]_vars PROVE IntactInv'
  OBVIOUS
<1>1. ContentInv' BY NextContent DEF IntactInv
<1>2. BufferInv'
  <2>1. CASE UNCHANGED vars
    BY <2>1 DEF vars, IntactInv, BufferInv, ChildOf, Intact
  <2>2. ASSUME NEW p \in Producers, CallStep(p) PROVE BufferInv'
    BY <2>2, TryLockBuffer, CallBuffer DEF CallStep, IntactInv
  <2> QED
    BY <2>1, <2>2, LogBuffer, WorkerBuffer DEF Next, Terminated, IntactInv
<1>3. LinesIntact'
  <2>1. CASE UNCHANGED out BY <2>1 DEF IntactInv, LinesIntact
  <2>2. ASSUME NEW p \in Producers, HandlePlain(p) \/ Write(p) PROVE LinesIntact'
    BY <2>2, CallLines DEF IntactInv
  <2>3. ASSUME NEW c \in Async, WorkerWrite(c) PROVE LinesIntact'
    <3>1. buf[c] \in Pool!Entry /\ Intact(buf[c]) /\ c \in Child
      BY <2>3 DEF WorkerWrite, TypeInv, TypeOK, IntactInv, BufferInv, Child
    <3> QED BY <2>3, <3>1, AppendIntact DEF WorkerWrite, IntactInv
  <2> QED
    BY <2>1, <2>2, <2>3
       DEF Next, vars, CallStep, WorkerStep, Log, TryLock, Lock, HandleLog, Send, Overflow,
           Evict, Recycle, Receive, WorkerLock, WorkerPut, Terminated
<1> QED BY <1>1, <1>2, <1>3 DEF IntactInv

LEMMA InitIntact == Init => IntactInv
<1> SUFFICES ASSUME Init PROVE IntactInv
  OBVIOUS
<1>1. /\ \A p \in Producers : /\ call[p].cell = NoCell /\ call[p].own = NoCell
                              /\ call[p].pc = "idle"
      /\ \A c \in Async : /\ worker[c].cell = NoCell /\ worker[c].pc = "receive"
                          /\ queue[c] = <<>>
      /\ \A e \in Cell : entry[e].caller = NoRecord
      /\ \A c \in Child : out[c] = <<>>
  BY DEF Init, Pool!PoolInit, Pool!Zero
<1>2. ContentInv BY <1>1, NilAssumption DEF ContentInv, Range
<1>3. BufferInv BY <1>1 DEF BufferInv
<1>4. LinesIntact BY <1>1 DEF LinesIntact
<1> QED BY <1>2, <1>3, <1>4 DEF IntactInv

(* A line has the fields and the caller of its own record, whatever entry  *)
(* and buffer the record went through, for any loggers and children among  *)
(* which an asynchronous one comes last (logger.go, multi.go, entry.go and *)
(* console.go).                                                            *)
THEOREM LinesIntactAlways == AsyncLast => (Spec => []LinesIntact)
<1> SUFFICES ASSUME AsyncLast PROVE Spec => []LinesIntact
  OBVIOUS
<1>1. TypeInv /\ ExclusiveInv /\ [Next]_vars => ExclusiveInv'
  BY NextCells
<1>2. IntactInv => LinesIntact
  BY DEF IntactInv
<1> QED
  BY <1>1, <1>2, InitTypes, NextTypes, InitCells, InitIntact, NextIntact, PTL DEF Spec
-----------------------------------------------------------------------------
(* Where the records of a child are                                        *)

(* No logger has a child twice.                                            *)
ChildrenDiffer == \A p \in Producers : IsInjective(Handlers[p])

(* The labels that f gives to the elements of a sequence.                  *)
Labels(s, f) == {f[s[i]] : i \in DOMAIN s}
LabelsOnce(s, f) == \A i, j \in DOMAIN s : f[s[i]] = f[s[j]] => i = j

MessageOf == [x \in Pool!Entry |-> x.message]
Memory == [e \in Cell |-> entry[e].message]

Spot == {"out", "queue", "worker", "lost"}

(* The records that each child has, and where.                             *)
At ==
  [c \in Child |-> [s \in Spot |->
     CASE s = "out"    -> Labels(out[c], MessageOf)
       [] s = "queue"  -> IF c \in Async THEN Labels(queue[c], Memory) ELSE {}
       [] s = "worker" -> IF c \in Async /\ worker[c].pc \in {"lock", "write"}
                          THEN {entry[worker[c].cell].message} ELSE {}
       [] s = "lost"   -> lost[c]]]

Seen(A, c) == A[c]["out"] \cup A[c]["queue"] \cup A[c]["worker"] \cup A[c]["lost"]

Apart(A) == \A c \in Child : \A x, y \in Spot : x # y => A[c][x] \cap A[c][y] = {}

Stays(A, B, c) == \A x \in Spot : B[c][x] = A[c][x]

(* At child c, record r goes from x to y; a new record r comes to y.       *)
Moves(A, B, c, r, x, y) ==
  /\ x # y /\ r \in A[c][x]
  /\ B[c][x] = A[c][x] \ {r} /\ B[c][y] = A[c][y] \cup {r}
  /\ \A z \in Spot \ {x, y} : B[c][z] = A[c][z]
  /\ \A d \in Child \ {c} : Stays(A, B, d)
Arrives(A, B, c, r, y) ==
  /\ r \notin Seen(A, c) /\ B[c][y] = A[c][y] \cup {r}
  /\ \A z \in Spot \ {y} : B[c][z] = A[c][z]
  /\ \A d \in Child \ {c} : Stays(A, B, d)

(* A child has a record once.                                              *)
OnceInv ==
  /\ Apart(At)
  /\ \A c \in Child : LabelsOnce(out[c], MessageOf)
  /\ \A c \in Async : LabelsOnce(queue[c], Memory)

(* The call of p is through with child c.                                  *)
Passed(p, c) == \/ call[p].pc \in {"idle", "recycle"}
                \/ \E i \in 1 .. call[p].at - 1 : Handlers[p][i] = c

(* A child has records that were logged and handed to it only, ...         *)
DueInv ==
  \A c \in Child : \A r \in Seen(At, c) :
    /\ r \in Record /\ r.seq <= call[r.src].record.seq
    /\ r.seq = call[r.src].record.seq => r = call[r.src].record /\ Passed(r.src, c)

(* ... and all of them.                                                    *)
ServedInv ==
  \A p \in Producers : \A c \in Range(Handlers[p]) : \A n \in HandedOver(p, c) :
    \E args \in BOOLEAN : [src |-> p, seq |-> n, args |-> args] \in Seen(At, c)

LEMMA LabelsAppend ==
  ASSUME NEW S, NEW s \in Seq(S), NEW x \in S, NEW f
  PROVE  /\ Labels(Append(s, x), f) = Labels(s, f) \cup {f[x]}
         /\ LabelsOnce(s, f) /\ f[x] \notin Labels(s, f) => LabelsOnce(Append(s, x), f)
<1>1. /\ Len(s) \in Nat /\ DOMAIN s = 1 .. Len(s)
      /\ DOMAIN Append(s, x) = 1 .. Len(s) + 1
      /\ \A i \in 1 .. Len(s) : Append(s, x)[i] = s[i]
      /\ Append(s, x)[Len(s) + 1] = x
  OBVIOUS
<1>2. /\ 1 .. Len(s) \subseteq 1 .. Len(s) + 1 /\ Len(s) + 1 \in 1 .. Len(s) + 1
      /\ \A i \in 1 .. Len(s) + 1 : i \in 1 .. Len(s) \/ i = Len(s) + 1
  BY <1>1
<1>3. Labels(Append(s, x), f) = Labels(s, f) \cup {f[x]}
  BY <1>1, <1>2 DEF Labels
<1>4. ASSUME LabelsOnce(s, f), f[x] \notin Labels(s, f)
      PROVE  LabelsOnce(Append(s, x), f)
  <2>1. \A i \in 1 .. Len(s) : f[s[i]] # f[x]
    BY <1>1, <1>4 DEF Labels
  <2> QED BY <1>1, <1>2, <1>4, <2>1 DEF LabelsOnce
<1> QED BY <1>3, <1>4

LEMMA LabelsTail ==
  ASSUME NEW S, NEW s \in Seq(S), s # <<>>, NEW f, LabelsOnce(s, f)
  PROVE  /\ Labels(Tail(s), f) = Labels(s, f) \ {f[Head(s)]}
         /\ f[Head(s)] \in Labels(s, f)
         /\ LabelsOnce(Tail(s), f)
<1>1. /\ Len(s) \in Nat /\ Len(s) >= 1 /\ DOMAIN s = 1 .. Len(s)
      /\ DOMAIN Tail(s) = 1 .. Len(s) - 1
      /\ \A i \in 1 .. Len(s) - 1 : Tail(s)[i] = s[i + 1]
      /\ Head(s) = s[1]
  OBVIOUS
<1>2. 1 \in DOMAIN s /\ \A i \in 1 .. Len(s) - 1 : i + 1 \in DOMAIN s /\ i + 1 # 1
  BY <1>1
<1>3. f[Head(s)] \in Labels(s, f)
  BY <1>1, <1>2 DEF Labels
<1>4. ASSUME NEW l \in Labels(Tail(s), f)
      PROVE  l \in Labels(s, f) /\ l # f[Head(s)]
  <2>1. PICK i \in 1 .. Len(s) - 1 : l = f[s[i + 1]]
    BY <1>1 DEF Labels
  <2> QED BY <1>1, <1>2, <2>1 DEF Labels, LabelsOnce
<1>5. ASSUME NEW l \in Labels(s, f), l # f[Head(s)]
      PROVE  l \in Labels(Tail(s), f)
  <2>1. PICK i \in 1 .. Len(s) : l = f[s[i]]
    BY <1>1 DEF Labels
  <2>2. i - 1 \in 1 .. Len(s) - 1 /\ Tail(s)[i - 1] = s[i]
    BY <1>1, <1>5, <2>1
  <2> QED BY <1>1, <2>1, <2>2 DEF Labels
<1>6. LabelsOnce(Tail(s), f)
  <2> SUFFICES ASSUME NEW i \in 1 .. Len(s) - 1, NEW j \in 1 .. Len(s) - 1,
                      f[s[i + 1]] = f[s[j + 1]]
               PROVE  i = j
    BY <1>1 DEF LabelsOnce
  <2>1. i + 1 = j + 1 BY <1>2 DEF LabelsOnce
  <2> QED BY <2>1
<1> QED BY <1>3, <1>4, <1>5, <1>6

(* What the elements of a sequence are labelled with.                      *)
LEMMA LabelsSame ==
  ASSUME NEW s, NEW f, NEW g, \A x \in Range(s) : f[x] = g[x]
  PROVE  Labels(s, f) = Labels(s, g) /\ (LabelsOnce(s, f) => LabelsOnce(s, g))
<1>1. \A i \in DOMAIN s : f[s[i]] = g[s[i]]
  BY DEF Range
<1> QED BY <1>1 DEF Labels, LabelsOnce

LEMMA MovesApart ==
  ASSUME NEW A, NEW B, NEW c \in Child, NEW r, NEW x \in Spot, NEW y \in Spot,
         Apart(A), Moves(A, B, c, r, x, y)
  PROVE  Apart(B) /\ \A d \in Child : Seen(B, d) = Seen(A, d)
<1>1. \A d \in Child \ {c} : Seen(B, d) = Seen(A, d) /\
        \A u, v \in Spot : u # v => B[d][u] \cap B[d][v] = {}
  BY DEF Moves, Stays, Seen, Apart, Spot
<1>2. Seen(B, c) = Seen(A, c)
  BY DEF Moves, Seen, Spot
<1>3. ASSUME NEW u \in Spot, NEW v \in Spot, u # v, NEW q, q \in B[c][u], q \in B[c][v]
      PROVE  FALSE
  <2>1. q # r => q \in A[c][u] /\ q \in A[c][v]
    BY <1>3 DEF Moves
  <2>2. q = r => u = y /\ v = y
    BY <1>3 DEF Moves, Apart
  <2> QED BY <1>3, <2>1, <2>2 DEF Apart
<1> QED BY <1>1, <1>2, <1>3 DEF Apart

LEMMA ArrivesApart ==
  ASSUME NEW A, NEW B, NEW c \in Child, NEW r, NEW y \in Spot,
         Apart(A), Arrives(A, B, c, r, y)
  PROVE  /\ Apart(B) /\ Seen(B, c) = Seen(A, c) \cup {r}
         /\ \A d \in Child \ {c} : Seen(B, d) = Seen(A, d)
<1>1. \A d \in Child \ {c} : Seen(B, d) = Seen(A, d) /\
        \A u, v \in Spot : u # v => B[d][u] \cap B[d][v] = {}
  BY DEF Arrives, Stays, Seen, Apart, Spot
<1>2. Seen(B, c) = Seen(A, c) \cup {r}
  BY DEF Arrives, Seen, Spot
<1>3. \A u \in Spot : r \notin A[c][u]
  BY DEF Arrives, Seen, Spot
<1>4. ASSUME NEW u \in Spot, NEW v \in Spot, u # v, NEW q, q \in B[c][u], q \in B[c][v]
      PROVE  FALSE
  BY <1>3, <1>4 DEF Arrives, Apart
<1> QED BY <1>1, <1>2, <1>4 DEF Apart

LEMMA AtIs ==
  ASSUME NEW c \in Child
  PROVE  /\ At[c]["out"] = Labels(out[c], MessageOf) /\ At[c]["lost"] = lost[c]
         /\ At[c]["queue"] = IF c \in Async THEN Labels(queue[c], Memory) ELSE {}
         /\ At[c]["worker"] = IF c \in Async /\ worker[c].pc \in {"lock", "write"}
                              THEN {entry[worker[c].cell].message} ELSE {}
BY DEF At, Spot

LEMMA AtIsNext ==
  ASSUME NEW c \in Child
  PROVE  /\ At'[c]["out"] = Labels(out'[c], MessageOf) /\ At'[c]["lost"] = lost'[c]
         /\ At'[c]["queue"] = IF c \in Async THEN Labels(queue'[c], Memory') ELSE {}
         /\ At'[c]["worker"] = IF c \in Async /\ worker'[c].pc \in {"lock", "write"}
                               THEN {entry'[worker'[c].cell].message} ELSE {}
BY DEF At, Spot, MessageOf, Pool!Entry

(* No step changes the message of an entry that is queued or worked on.    *)
MessagesKept ==
  \A c \in Async :
    /\ worker[c].cell \in Cell =>
         entry'[worker[c].cell].message = entry[worker[c].cell].message
    /\ \A e \in Range(queue[c]) : entry'[e].message = entry[e].message

LEMMA PutKeepsMessages ==
  ASSUME TypeInv, NEW e \in Cell, Pool!PutEntry(e) PROVE MessagesKept
<1>1. entry \in [Cell -> Pool!Entry] /\ queue \in [Async -> Seq(Cell)]
  BY DEF TypeInv, TypeOK, Pool!PoolTypeOK
<1>2. \A f \in Cell : entry'[f].message = entry[f].message
  BY <1>1 DEF Pool!PutEntry, Pool!Entry
<1>3. \A c \in Async : Range(queue[c]) \subseteq Cell
  BY <1>1 DEF Range
<1> QED BY <1>2, <1>3 DEF MessagesKept

LEMMA GetKeepsMessages ==
  ASSUME TypeInv, ExclusiveInv, NEW e \in Cell, NEW x, Pool!GetEntry(e, x)
  PROVE  MessagesKept
<1>1. /\ entry \in [Cell -> Pool!Entry] /\ pool \in [Cell -> Nat]
      /\ queue \in [Async -> Seq(Cell)]
  BY DEF TypeInv, TypeOK, Pool!PoolTypeOK
<1>2. \A f \in Cell \ {e} : entry'[f] = entry[f]
  BY <1>1 DEF Pool!GetEntry
<1>3. pool[e] # 0 \/ e \notin made
  BY <1>1 DEF Pool!GetEntry, Pool!Take
<1>4. \A c \in Async : worker[c].cell # e /\ e \notin Range(queue[c])
  BY <1>3, Unshared
<1>5. \A c \in Async : Range(queue[c]) \subseteq Cell
  BY <1>1 DEF Range
<1> QED BY <1>2, <1>4, <1>5 DEF MessagesKept

LEMMA StepKeepsMessages ==
  ASSUME TypeInv, ExclusiveInv, [Next]_vars PROVE MessagesKept
<1>1. CASE UNCHANGED entry BY <1>1 DEF MessagesKept
<1>2. ASSUME NEW p \in Producers, NEW args \in BOOLEAN, Log(p, args) PROVE MessagesKept
  BY <1>1, <1>2, GetKeepsMessages DEF Log
<1>3. ASSUME NEW p \in Producers, HandleLog(p) PROVE MessagesKept
  BY <1>3, GetKeepsMessages DEF HandleLog
<1>4. ASSUME NEW p \in Producers, Recycle(p) PROVE MessagesKept
  BY <1>4, PutKeepsMessages DEF Recycle, TypeInv, CallInv, CallOK
<1>5. ASSUME NEW c \in Async, WorkerPut(c) PROVE MessagesKept
  BY <1>5, PutKeepsMessages DEF WorkerPut, TypeInv, WorkerInv
<1> QED
  BY <1>1, <1>2, <1>3, <1>4, <1>5
     DEF Next, vars, CallStep, WorkerStep, HandlePlain, TryLock, Lock, Write, Send, Overflow,
         Evict, Receive, WorkerLock, WorkerWrite, Terminated

(* The queue of c, when it stays as it is.                                 *)
LEMMA QueueStays ==
  ASSUME TypeInv, MessagesKept, NEW c \in Async, queue'[c] = queue[c]
  PROVE  /\ Labels(queue'[c], Memory') = Labels(queue[c], Memory)
         /\ LabelsOnce(queue[c], Memory) => LabelsOnce(queue'[c], Memory')
<1>1. queue[c] \in Seq(Cell) /\ \A e \in Range(queue[c]) : e \in Cell
  BY DEF TypeInv, TypeOK, Range
<1>2. \A e \in Range(queue[c]) : Memory[e] = Memory'[e]
  BY <1>1 DEF Memory, MessagesKept
<1>3. PICK f : f = Memory OBVIOUS
<1>4. PICK g : g = Memory' OBVIOUS
<1>5. /\ Labels(queue[c], f) = Labels(queue[c], g)
      /\ LabelsOnce(queue[c], f) => LabelsOnce(queue[c], g)
  BY <1>2, <1>3, <1>4, LabelsSame
<1> QED BY <1>3, <1>4, <1>5

(* The worker of c has the record it had.                                  *)
WorkerStays(c) ==
  \/ /\ worker[c].pc \notin {"lock", "write"} /\ worker'[c].pc \notin {"lock", "write"}
  \/ /\ worker[c].pc \in {"lock", "write"} /\ worker'[c].pc \in {"lock", "write"}
     /\ worker'[c].cell = worker[c].cell

LEMMA WorkerSpotStays ==
  ASSUME TypeInv, MessagesKept, NEW c \in Async, WorkerStays(c)
  PROVE  At'[c]["worker"] = At[c]["worker"]
<1>1. c \in Child BY DEF Child
<1>2. worker[c].pc \in {"lock", "write"} => worker[c].cell \in Cell
  BY DEF TypeInv, WorkerInv
<1>3. /\ At[c]["worker"] = IF worker[c].pc \in {"lock", "write"}
                            THEN {entry[worker[c].cell].message} ELSE {}
      /\ At'[c]["worker"] = IF worker'[c].pc \in {"lock", "write"}
                             THEN {entry'[worker'[c].cell].message} ELSE {}
  BY <1>1, AtIs, AtIsNext
<1>4. CASE worker[c].pc \notin {"lock", "write"}
  BY <1>3, <1>4 DEF WorkerStays
<1>5. CASE worker[c].pc \in {"lock", "write"}
  <2>1. entry'[worker[c].cell].message = entry[worker[c].cell].message
    BY <1>2, <1>5 DEF MessagesKept
  <2>2. worker'[c].pc \in {"lock", "write"} /\ worker'[c].cell = worker[c].cell
    BY <1>5 DEF WorkerStays
  <2> QED BY <1>3, <1>5, <2>1, <2>2
<1> QED BY <1>4, <1>5

LEMMA QueueSpotStays ==
  ASSUME TypeInv, MessagesKept, NEW c \in Child,
         c \in Async => queue'[c] = queue[c] /\ WorkerStays(c)
  PROVE  At'[c]["queue"] = At[c]["queue"] /\ At'[c]["worker"] = At[c]["worker"]
<1>1. CASE c \in Async
  <2>1. At'[c]["worker"] = At[c]["worker"] BY <1>1, WorkerSpotStays
  <2>2. Labels(queue'[c], Memory') = Labels(queue[c], Memory) BY <1>1, QueueStays
  <2>3. /\ At[c]["queue"] = Labels(queue[c], Memory)
        /\ At'[c]["queue"] = Labels(queue'[c], Memory')
    BY <1>1, AtIs, AtIsNext
  <2> QED BY <2>1, <2>2, <2>3
<1>2. CASE c \notin Async
  BY <1>2, AtIs, AtIsNext
<1> QED BY <1>1, <1>2

LEMMA ChildStays ==
  ASSUME TypeInv, MessagesKept, NEW c \in Child,
         out'[c] = out[c], lost'[c] = lost[c],
         c \in Async => queue'[c] = queue[c] /\ WorkerStays(c)
  PROVE  Stays(At, At', c)
<1>1. At'[c]["out"] = At[c]["out"] /\ At'[c]["lost"] = At[c]["lost"]
  BY AtIs, AtIsNext
<1>2. At'[c]["queue"] = At[c]["queue"] /\ At'[c]["worker"] = At[c]["worker"]
  BY QueueSpotStays
<1> QED BY <1>1, <1>2 DEF Stays, Spot

LEMMA HandedIs ==
  ASSUME NEW p \in Producers, NEW c, NEW n
  PROVE  n \in HandedOver(p, c) <=>
           /\ n \in 1 .. MaxLogs
           /\ \/ n < call[p].record.seq
              \/ n = call[p].record.seq /\ Passed(p, c)
BY DEF HandedOver, Passed

LEMMA HandedIsNext ==
  ASSUME NEW p \in Producers, NEW c, NEW n
  PROVE  n \in HandedOver(p, c)' <=>
           /\ n \in 1 .. MaxLogs
           /\ \/ n < call'[p].record.seq
              \/ n = call'[p].record.seq /\ Passed(p, c)'
BY DEF HandedOver, Passed

(* After a child has returned, the call is through with that child too.    *)
LEMMA ReturnPasses ==
  ASSUME TypeInv, NEW p \in Producers, NEW error \in BOOLEAN, Return(p, error),
         call[p].pc \notin {"idle", "recycle"}
  PROVE  /\ \A d \in Range(Handlers[p]) : Passed(p, d)' => Passed(p, d) \/ d = ChildOf(p)
         /\ \A d : Passed(p, d) \/ d = ChildOf(p) => Passed(p, d)'
<1>1. /\ call' = [call EXCEPT ![p] = After(p, error)] /\ call \in [Producers -> Call]
      /\ call[p] \in Call /\ call[p].at \in DOMAIN Handlers[p]
      /\ DOMAIN Handlers[p] = 1 .. Len(Handlers[p]) /\ Len(Handlers[p]) \in Nat
  BY LoggerAssumption DEF Return, TypeInv, TypeOK
<1>2. CASE call[p].at < Len(Handlers[p])
  <2>1. call[p].at + 1 \in DOMAIN Handlers[p] /\ call[p].at + 1 - 1 = call[p].at
    BY <1>1, <1>2
  <2>2. Entering(p, call[p].at + 1, call[p].record) \in {"try", "plain", "send", "get"}
    BY <1>1, <2>1, EnteringChild DEF Call, Child
  <2>3. /\ After(p, error).at = call[p].at + 1
        /\ After(p, error).pc = Entering(p, call[p].at + 1, call[p].record)
    BY <1>1, <1>2 DEF After, Call
  <2>4. call'[p].pc \notin {"idle", "recycle"} /\ call'[p].at - 1 = call[p].at
    BY <1>1, <2>1, <2>2, <2>3
  <2>5. \A d : Passed(p, d)' <=> \E i \in 1 .. call[p].at : Handlers[p][i] = d
    BY <2>4 DEF Passed
  <2>6. \A d : Passed(p, d) <=> \E i \in 1 .. call[p].at - 1 : Handlers[p][i] = d
    BY DEF Passed
  <2>7. \A i : i \in 1 .. call[p].at <=> i \in 1 .. call[p].at - 1 \/ i = call[p].at
    BY <1>1
  <2> QED BY <2>5, <2>6, <2>7 DEF ChildOf
<1>3. CASE ~(call[p].at < Len(Handlers[p]))
  <2>1. After(p, error).pc \in {"recycle", "idle"}
    BY <1>1, <1>3 DEF After, Call
  <2>2. \A d : Passed(p, d)'
    BY <1>1, <2>1 DEF Passed
  <2>3. ASSUME NEW d \in Range(Handlers[p]) PROVE Passed(p, d) \/ d = ChildOf(p)
    <3>1. PICK i \in 1 .. Len(Handlers[p]) : Handlers[p][i] = d
      BY <1>1 DEF Range
    <3>2. i \in 1 .. call[p].at - 1 \/ i = call[p].at
      BY <1>1, <1>3, <3>1
    <3> QED BY <3>1, <3>2 DEF Passed, ChildOf
  <2> QED BY <2>2, <2>3
<1> QED BY <1>2, <1>3

(* The child that a call is at has not seen its record yet.                *)
LEMMA RecordFresh ==
  ASSUME TypeInv, ChildrenDiffer, DueInv, NEW p \in Producers,
         call[p].pc \notin {"idle", "recycle"}
  PROVE  ChildOf(p) \in Child /\ call[p].record \notin Seen(At, ChildOf(p))
<1>1. /\ call[p] \in Call /\ call[p].at \in DOMAIN Handlers[p] /\ call[p].record.src = p
      /\ DOMAIN Handlers[p] = 1 .. Len(Handlers[p]) /\ Len(Handlers[p]) \in Nat
      /\ Handlers[p] \in Seq(Child)
  BY LoggerAssumption DEF TypeInv, TypeOK, CallInv, CallOK
<1>2. ChildOf(p) \in Child BY <1>1 DEF ChildOf
<1>3. ASSUME NEW i \in 1 .. call[p].at - 1 PROVE Handlers[p][i] # ChildOf(p)
  <2>1. i \in DOMAIN Handlers[p] /\ i # call[p].at BY <1>1
  <2> QED BY <1>1, <2>1 DEF ChildrenDiffer, IsInjective, ChildOf
<1>4. ~Passed(p, ChildOf(p)) BY <1>3 DEF Passed
<1> QED BY <1>1, <1>2, <1>4 DEF DueInv

(* Nothing new is seen, and no call gets through with a child.             *)
LEMMA NothingServed ==
  ASSUME DueInv, ServedInv,
         \A d \in Child : Seen(At', d) = Seen(At, d),
         \A q \in Producers : /\ call'[q].record = call[q].record
                              /\ \A d : Passed(q, d)' <=> Passed(q, d)
  PROVE  DueInv' /\ ServedInv'
<1>1. PICK A : A = At OBVIOUS
<1>2. PICK B : B = At' OBVIOUS
<1>3. \A d \in Child : Seen(B, d) = Seen(A, d) BY <1>1, <1>2
<1>4. DueInv'
  <2> SUFFICES ASSUME NEW d \in Child, NEW r \in Seen(B, d)
               PROVE  /\ r \in Record /\ r.seq <= call'[r.src].record.seq
                      /\ r.seq = call'[r.src].record.seq =>
                           r = call'[r.src].record /\ Passed(r.src, d)'
    BY <1>2 DEF DueInv, Passed
  <2>1. r \in Seen(A, d) BY <1>3
  <2>2. /\ r \in Record /\ r.seq <= call[r.src].record.seq
        /\ r.seq = call[r.src].record.seq => r = call[r.src].record /\ Passed(r.src, d)
    BY <1>1, <2>1 DEF DueInv
  <2>3. r.src \in Producers BY <2>2 DEF Record
  <2> QED BY <2>2, <2>3
<1>5. ServedInv'
  <2> SUFFICES ASSUME NEW q \in Producers, NEW d \in Range(Handlers[q]),
                      NEW n \in HandedOver(q, d)'
               PROVE  \E args \in BOOLEAN :
                        [src |-> q, seq |-> n, args |-> args] \in Seen(B, d)
    BY <1>2 DEF ServedInv
  <2>1. n \in HandedOver(q, d) BY HandedIs, HandedIsNext
  <2>2. d \in Child BY LoggerAssumption DEF Range
  <2>3. \E args \in BOOLEAN : [src |-> q, seq |-> n, args |-> args] \in Seen(A, d)
    BY <1>1, <2>1 DEF ServedInv
  <2> QED BY <1>3, <2>2, <2>3
<1> QED BY <1>4, <1>5

(* The child that p is at gets the record of the call and returns.         *)
LEMMA OneServed ==
  ASSUME TypeInv, DueInv, ServedInv, NEW p \in Producers, NEW error \in BOOLEAN,
         Return(p, error), call[p].pc \notin {"idle", "recycle"},
         Seen(At', ChildOf(p)) = Seen(At, ChildOf(p)) \cup {call[p].record},
         \A d \in Child \ {ChildOf(p)} : Seen(At', d) = Seen(At, d)
  PROVE  DueInv' /\ ServedInv'
<1>1. /\ call[p] \in Call /\ call[p].record \in Record /\ call[p].record.src = p
      /\ call[p].record.seq \in Nat
  BY BoundAssumption DEF TypeInv, TypeOK, CallInv, CallOK, Call, Record
<1>2. /\ \A q \in Producers \ {p} : call'[q] = call[q]
      /\ call'[p].record = call[p].record
  BY AfterFrees, AfterKeeps
<1>3. /\ \A d \in Range(Handlers[p]) : Passed(p, d)' => Passed(p, d) \/ d = ChildOf(p)
      /\ \A d : Passed(p, d) \/ d = ChildOf(p) => Passed(p, d)'
  BY ReturnPasses
<1>4. \A q \in Producers \ {p} : \A d : Passed(q, d)' <=> Passed(q, d)
  BY <1>2 DEF Passed
<1>5. PICK A : A = At OBVIOUS
<1>6. PICK B : B = At' OBVIOUS
<1>7. /\ Seen(B, ChildOf(p)) = Seen(A, ChildOf(p)) \cup {call[p].record}
      /\ \A d \in Child \ {ChildOf(p)} : Seen(B, d) = Seen(A, d)
  BY <1>5, <1>6
<1>8. DueInv'
  <2> SUFFICES ASSUME NEW d \in Child, NEW r \in Seen(B, d)
               PROVE  /\ r \in Record /\ r.seq <= call'[r.src].record.seq
                      /\ r.seq = call'[r.src].record.seq =>
                           r = call'[r.src].record /\ Passed(r.src, d)'
    BY <1>6 DEF DueInv, Passed
  <2>1. CASE r \in Seen(A, d)
    <3>1. /\ r \in Record /\ r.seq <= call[r.src].record.seq
          /\ r.seq = call[r.src].record.seq => r = call[r.src].record /\ Passed(r.src, d)
      BY <1>5, <2>1 DEF DueInv
    <3>2. r.src \in Producers BY <3>1 DEF Record
    <3>3. call'[r.src].record = call[r.src].record /\ (Passed(r.src, d) => Passed(r.src, d)')
      BY <1>2, <1>3, <1>4, <3>2
    <3> QED BY <3>1, <3>3
  <2>2. CASE r = call[p].record /\ d = ChildOf(p)
    BY <1>1, <1>2, <1>3, <2>2
  <2> QED BY <1>7, <2>1, <2>2
<1>9. ServedInv'
  <2> SUFFICES ASSUME NEW q \in Producers, NEW d \in Range(Handlers[q]),
                      NEW n \in HandedOver(q, d)'
               PROVE  \E args \in BOOLEAN :
                        [src |-> q, seq |-> n, args |-> args] \in Seen(B, d)
    BY <1>6 DEF ServedInv
  <2>1. d \in Child BY LoggerAssumption DEF Range
  <2>2. CASE n \in HandedOver(q, d)
    <3>1. \E args \in BOOLEAN : [src |-> q, seq |-> n, args |-> args] \in Seen(A, d)
      BY <1>5, <2>2 DEF ServedInv
    <3> QED BY <1>7, <2>1, <3>1
  <2>3. CASE n \notin HandedOver(q, d)
    <3>1. q = p /\ n = call[p].record.seq /\ d = ChildOf(p)
      BY <1>2, <1>3, <1>4, <2>3, HandedIs, HandedIsNext
    <3>2. call[p].record = [src |-> p, seq |-> n, args |-> call[p].record.args]
          /\ call[p].record.args \in BOOLEAN
      BY <1>1, <3>1 DEF Record
    <3> QED BY <1>7, <3>1, <3>2
  <2> QED BY <2>2, <2>3
<1> QED BY <1>8, <1>9

LEMMA OnceIsNext ==
  ASSUME Apart(At'), \A c \in Child : LabelsOnce(out'[c], MessageOf),
         \A c \in Async : LabelsOnce(queue'[c], Memory')
  PROVE  OnceInv'
BY DEF OnceInv, MessageOf, Pool!Entry, Apart, LabelsOnce, Memory

LEMMA StaysApart ==
  ASSUME NEW A, NEW B, Apart(A), \A c \in Child : Stays(A, B, c)
  PROVE  Apart(B) /\ \A c \in Child : Seen(B, c) = Seen(A, c)
BY DEF Stays, Apart, Seen, Spot

(* The call of q is where it was, as far as its children are concerned.    *)
CallStays(q) ==
  /\ call'[q].record = call[q].record
  /\ \/ call[q].pc \in {"idle", "recycle"} /\ call'[q].pc \in {"idle", "recycle"}
     \/ /\ call[q].pc \notin {"idle", "recycle"} /\ call'[q].pc \notin {"idle", "recycle"}
        /\ call'[q].at = call[q].at

LEMMA CallStaysPassed ==
  ASSUME NEW q \in Producers, CallStays(q)
  PROVE  call'[q].record = call[q].record /\ \A d : Passed(q, d)' <=> Passed(q, d)
BY DEF CallStays, Passed

(* Steps that no record moves by.                                          *)
LEMMA RecordsStay ==
  ASSUME TypeInv, ExclusiveInv, OnceInv, [Next]_vars, UNCHANGED <<queue, out, lost>>,
         \A c \in Async : WorkerStays(c)
  PROVE  OnceInv' /\ \A c \in Child : Seen(At', c) = Seen(At, c)
<1>1. MessagesKept BY StepKeepsMessages
<1>2. \A c \in Child : Stays(At, At', c)
  BY <1>1, ChildStays
<1>3. PICK A : A = At OBVIOUS
<1>4. PICK B : B = At' OBVIOUS
<1>5. Apart(B) /\ \A c \in Child : Seen(B, c) = Seen(A, c)
  BY <1>2, <1>3, <1>4, StaysApart DEF OnceInv
<1>6. \A c \in Child : LabelsOnce(out'[c], MessageOf)
  BY DEF OnceInv
<1>7. \A c \in Async : LabelsOnce(queue'[c], Memory')
  BY <1>1, QueueStays DEF OnceInv
<1> QED BY <1>3, <1>4, <1>5, <1>6, <1>7, OnceIsNext

LEMMA SilentServed ==
  ASSUME TypeInv, ExclusiveInv, OnceInv, DueInv, ServedInv, [Next]_vars,
         UNCHANGED <<queue, out, lost>>,
         \A c \in Async : WorkerStays(c), \A q \in Producers : CallStays(q)
  PROVE  OnceInv' /\ DueInv' /\ ServedInv'
<1>1. OnceInv' /\ \A c \in Child : Seen(At', c) = Seen(At, c)
  BY RecordsStay
<1>2. \A q \in Producers : /\ call'[q].record = call[q].record
                           /\ \A d : Passed(q, d)' <=> Passed(q, d)
  BY CallStaysPassed
<1> QED BY <1>1, <1>2, NothingServed

LEMMA WorkersStay ==
  ASSUME UNCHANGED worker PROVE \A c \in Async : WorkerStays(c)
BY DEF WorkerStays

LEMMA GotoStays ==
  ASSUME TypeInv, NEW p \in Producers, NEW label, Goto(p, label),
         call[p].pc \notin {"idle", "recycle"}, label \notin {"idle", "recycle"}
  PROVE  \A q \in Producers : CallStays(q)
BY DEF TypeInv, TypeOK, Goto, CallStays, Call

LEMMA TryLockServed ==
  ASSUME TypeInv, ExclusiveInv, OnceInv, DueInv, ServedInv, NEW p \in Producers, TryLock(p)
  PROVE  OnceInv' /\ DueInv' /\ ServedInv'
<1>1. [Next]_vars BY DEF Next, CallStep
<1>2. UNCHANGED <<queue, out, lost, worker>> BY DEF TryLock
<1>3. \A q \in Producers : CallStays(q)
  <2>1. CASE Goto(p, "locked")
    BY <2>1, GotoStays DEF TryLock
  <2>2. CASE \E label \in {"direct", "await"} :
               call' = [call EXCEPT ![p].text = Source(p), ![p].pc = label]
    BY <2>2 DEF TypeInv, TypeOK, TryLock, CallStays, Call
  <2> QED BY <2>1, <2>2 DEF TryLock
<1> QED BY <1>1, <1>2, <1>3, WorkersStay, SilentServed

LEMMA QuietServed ==
  ASSUME TypeInv, ExclusiveInv, OnceInv, DueInv, ServedInv, NEW p \in Producers,
         Lock(p) \/ HandleLog(p) \/ Recycle(p)
  PROVE  OnceInv' /\ DueInv' /\ ServedInv'
<1>1. [Next]_vars BY DEF Next, CallStep
<1>2. UNCHANGED <<queue, out, lost, worker>> BY DEF Lock, HandleLog, Recycle
<1>3. CASE Lock(p)
  <2>1. \A q \in Producers : CallStays(q)
    BY <1>3, GotoStays DEF Lock
  <2> QED BY <1>1, <1>2, <2>1, WorkersStay, SilentServed
<1>4. CASE HandleLog(p)
  <2>1. PICK e \in Cell : call' = [call EXCEPT ![p].own = e, ![p].pc = "send"]
    BY <1>4 DEF HandleLog
  <2>2. call[p].pc = "get" /\ call \in [Producers -> Call] /\ call[p] \in Call
    BY <1>4 DEF HandleLog, TypeInv, TypeOK
  <2>3. /\ call'[p].pc = "send" /\ call'[p].at = call[p].at
        /\ call'[p].record = call[p].record
        /\ \A q \in Producers \ {p} : call'[q] = call[q]
    BY <2>1, <2>2 DEF Call
  <2>4. \A q \in Producers : CallStays(q)
    BY <2>2, <2>3 DEF CallStays
  <2> QED BY <1>1, <1>2, <2>4, WorkersStay, SilentServed
<1>5. CASE Recycle(p)
  <2>1. \A q \in Producers : CallStays(q)
    BY <1>5 DEF TypeInv, TypeOK, Recycle, CallStays, Call
  <2> QED BY <1>1, <1>2, <2>1, WorkersStay, SilentServed
<1> QED BY <1>3, <1>4, <1>5

LEMMA QuietWorkerServed ==
  ASSUME TypeInv, ExclusiveInv, OnceInv, DueInv, ServedInv, NEW c \in Async,
         WorkerLock(c) \/ WorkerPut(c)
  PROVE  OnceInv' /\ DueInv' /\ ServedInv'
<1>1. [Next]_vars BY DEF Next, WorkerStep
<1>2. UNCHANGED <<queue, out, lost, call>> BY DEF WorkerLock, WorkerPut
<1>3. \A k \in Async : WorkerStays(k)
  <2>1. worker \in [Async -> [pc : WorkerPCs, cell : Cell \cup {NoCell}]]
    BY DEF TypeInv, TypeOK
  <2>2. CASE WorkerLock(c)
    BY <2>1, <2>2 DEF WorkerLock, WorkerGoto, WorkerStays
  <2>3. CASE WorkerPut(c)
    BY <2>1, <2>3 DEF WorkerPut, WorkerStays
  <2> QED BY <2>2, <2>3
<1>4. \A q \in Producers : CallStays(q)
  BY <1>2 DEF CallStays
<1> QED BY <1>1, <1>2, <1>3, <1>4, SilentServed

(* A new call: its record is due, and no child has seen it.                *)
LEMMA LogServed ==
  ASSUME TypeInv, ExclusiveInv, OnceInv, DueInv, ServedInv,
         NEW p \in Producers, NEW args \in BOOLEAN, Log(p, args)
  PROVE  OnceInv' /\ DueInv' /\ ServedInv'
<1> DEFINE r == [src |-> p, seq |-> call[p].record.seq + 1, args |-> args]
<1>1. [Next]_vars /\ UNCHANGED <<queue, out, lost, worker>> BY DEF Next, Log
<1>2. OnceInv' /\ \A d \in Child : Seen(At', d) = Seen(At, d)
  BY <1>1, WorkersStay, RecordsStay
<1>3. /\ call \in [Producers -> Call] /\ call[p].pc = "idle" /\ call[p] \in Call
      /\ call[p].record \in Record /\ call[p].record.seq \in Nat /\ r \in Record
  <2>1. call \in [Producers -> Call] BY DEF TypeInv, TypeOK
  <2>2. call[p].pc = "idle" /\ r.seq <= MaxLogs BY DEF Log
  <2>3. call[p] \in Call /\ call[p].record \in Record BY <2>1 DEF Call
  <2>4. call[p].record.seq \in 0 .. MaxLogs BY <2>3 DEF Record
  <2>5. r.seq \in 0 .. MaxLogs BY <2>2, <2>4, BoundAssumption
  <2>6. r \in Record BY <2>5 DEF Record
  <2> QED BY <2>1, <2>2, <2>3, <2>4, <2>6, BoundAssumption
<1>4. r.seq = call[p].record.seq + 1 OBVIOUS
<1> HIDE DEF r
<1>5. Entering(p, 1, r) \in {"try", "plain", "send", "get"}
  BY <1>3, EnteringChild, LoggerAssumption DEF Child
<1>6. PICK e : Start(p, r, e)
  BY DEF Log, r
<1>7. /\ call'[p].pc \notin {"idle", "recycle"} /\ call'[p].at = 1 /\ call'[p].record = r
      /\ \A q \in Producers \ {p} : call'[q] = call[q]
  BY <1>3, <1>5, <1>6 DEF Start, Call
<1>8. \A q \in Producers \ {p} : \A d : Passed(q, d)' <=> Passed(q, d)
  BY <1>7 DEF Passed
<1>9. \A d : Passed(p, d) /\ ~Passed(p, d)'
  BY <1>3, <1>7 DEF Passed
<1>10. PICK A : A = At OBVIOUS
<1>11. PICK B : B = At' OBVIOUS
<1>12. \A d \in Child : Seen(B, d) = Seen(A, d) BY <1>2, <1>10, <1>11
<1>13. DueInv'
  <2> SUFFICES ASSUME NEW d \in Child, NEW q \in Seen(B, d)
               PROVE  /\ q \in Record /\ q.seq <= call'[q.src].record.seq
                      /\ q.seq = call'[q.src].record.seq =>
                           q = call'[q.src].record /\ Passed(q.src, d)'
    BY <1>11 DEF DueInv, Passed
  <2>1. /\ q \in Record /\ q.seq <= call[q.src].record.seq
        /\ q.seq = call[q.src].record.seq => q = call[q.src].record /\ Passed(q.src, d)
    BY <1>10, <1>12 DEF DueInv
  <2>2. q.src \in Producers /\ q.seq \in Nat BY <2>1, BoundAssumption DEF Record
  <2>3. CASE q.src = p
    <3>1. q.seq < call'[p].record.seq BY <1>3, <1>4, <1>7, <2>1, <2>2, <2>3
    <3> QED BY <1>3, <1>4, <1>7, <2>1, <2>2, <2>3, <3>1
  <2>4. CASE q.src # p
    BY <1>7, <1>8, <2>1, <2>2, <2>4
  <2> QED BY <2>3, <2>4
<1>14. ServedInv'
  <2> SUFFICES ASSUME NEW q \in Producers, NEW d \in Range(Handlers[q]),
                      NEW n \in HandedOver(q, d)'
               PROVE  \E b \in BOOLEAN :
                        [src |-> q, seq |-> n, args |-> b] \in Seen(B, d)
    BY <1>11 DEF ServedInv
  <2>1. n \in HandedOver(q, d)
    <3>1. CASE q = p
      <4>1. n \in 1 .. MaxLogs /\ n < call[p].record.seq + 1
        BY <1>4, <1>7, <1>9, <3>1, HandedIsNext
      <4>2. n < call[p].record.seq \/ n = call[p].record.seq
        BY <1>3, <4>1, BoundAssumption
      <4> QED BY <1>9, <3>1, <4>1, <4>2, HandedIs
    <3>2. CASE q # p
      BY <1>7, <1>8, <3>2, HandedIs, HandedIsNext
    <3> QED BY <3>1, <3>2
  <2>2. d \in Child BY LoggerAssumption DEF Range
  <2>3. \E b \in BOOLEAN : [src |-> q, seq |-> n, args |-> b] \in Seen(A, d)
    BY <1>10, <2>1 DEF ServedInv
  <2> QED BY <1>12, <2>2, <2>3
<1> QED BY <1>2, <1>13, <1>14

(* The child that p is at gets the record of the call, at y.               *)
LEMMA ArrivalServed ==
  ASSUME TypeInv, ChildrenDiffer, OnceInv, DueInv, ServedInv,
         NEW p \in Producers, NEW error \in BOOLEAN, NEW y \in Spot,
         Return(p, error), call[p].pc \notin {"idle", "recycle"},
         At'[ChildOf(p)][y] = At[ChildOf(p)][y] \cup {call[p].record},
         \A z \in Spot \ {y} : At'[ChildOf(p)][z] = At[ChildOf(p)][z],
         \A d \in Child \ {ChildOf(p)} : Stays(At, At', d),
         \A c \in Child : LabelsOnce(out'[c], MessageOf),
         \A c \in Async : LabelsOnce(queue'[c], Memory')
  PROVE  OnceInv' /\ DueInv' /\ ServedInv'
<1>1. ChildOf(p) \in Child /\ call[p].record \notin Seen(At, ChildOf(p))
  BY RecordFresh
<1>2. PICK A : A = At OBVIOUS
<1>3. PICK B : B = At' OBVIOUS
<1>4. PICK c \in Child : c = ChildOf(p) BY <1>1
<1>5. Arrives(A, B, c, call[p].record, y)
  BY <1>1, <1>2, <1>3, <1>4 DEF Arrives
<1>6. Apart(A) BY <1>2 DEF OnceInv
<1>7. /\ Apart(B) /\ Seen(B, c) = Seen(A, c) \cup {call[p].record}
      /\ \A d \in Child \ {c} : Seen(B, d) = Seen(A, d)
  BY <1>5, <1>6, ArrivesApart
<1>8. OnceInv' BY <1>3, <1>7, OnceIsNext
<1>9. DueInv' /\ ServedInv' BY <1>2, <1>3, <1>4, <1>7, OneServed
<1> QED BY <1>8, <1>9

(* A line comes to the lines of a child.                                   *)
LEMMA LineLabels ==
  ASSUME TypeInv, NEW c \in Child, NEW line \in Pool!Entry, WriteOK(c, line),
         LabelsOnce(out[c], MessageOf), line.message \notin Labels(out[c], MessageOf)
  PROVE  /\ Labels(out'[c], MessageOf) = Labels(out[c], MessageOf) \cup {line.message}
         /\ LabelsOnce(out'[c], MessageOf)
         /\ \A d \in Child \ {c} : out'[d] = out[d]
         /\ lost' = lost
<1>1. out \in [Child -> Seq(Pool!Entry)] /\ out[c] \in Seq(Pool!Entry)
  BY DEF TypeInv, TypeOK
<1>2. /\ out'[c] = Append(out[c], line) /\ \A d \in Child \ {c} : out'[d] = out[d]
      /\ lost' = lost
  BY <1>1 DEF WriteOK
<1>3. MessageOf[line] = line.message BY DEF MessageOf
<1>4. PICK s \in Seq(Pool!Entry) : s = out[c] BY <1>1
<1>5. /\ Labels(Append(s, line), MessageOf) = Labels(s, MessageOf) \cup {line.message}
      /\ LabelsOnce(Append(s, line), MessageOf)
  BY <1>3, <1>4, LabelsAppend
<1> QED BY <1>2, <1>4, <1>5

(* A child writes the record of the call, or fails to.                     *)
LEMMA WrittenServed ==
  ASSUME TypeInv, ExclusiveInv, ChildrenDiffer, OnceInv, DueInv, ServedInv, [Next]_vars,
         NEW p \in Producers, NEW error \in BOOLEAN, NEW line \in Pool!Entry,
         Return(p, error), call[p].pc \notin {"idle", "recycle"},
         UNCHANGED <<queue, worker>>, line.message = call[p].record,
         WriteOK(ChildOf(p), line) \/ WriteFails(ChildOf(p), line)
  PROVE  OnceInv' /\ DueInv' /\ ServedInv'
<1>1. ChildOf(p) \in Child /\ call[p].record \notin Seen(At, ChildOf(p))
  BY RecordFresh
<1>2. PICK c \in Child : c = ChildOf(p) BY <1>1
<1>3. MessagesKept BY StepKeepsMessages
<1>4. At'[c]["queue"] = At[c]["queue"] /\ At'[c]["worker"] = At[c]["worker"]
  BY <1>3, QueueSpotStays, WorkersStay
<1>5. \A d \in Async : LabelsOnce(queue'[d], Memory')
  BY <1>3, QueueStays DEF OnceInv
<1>6. \A d \in Child : LabelsOnce(out[d], MessageOf)
  BY DEF OnceInv
<1>7. \A d \in Child : out'[d] = out[d] /\ lost'[d] = lost[d] => Stays(At, At', d)
  BY <1>3, ChildStays, WorkersStay
<1>8. CASE WriteOK(c, line)
  <2>1. line.message \notin Labels(out[c], MessageOf)
    BY <1>1, <1>2, AtIs DEF Seen
  <2>2. /\ Labels(out'[c], MessageOf) = Labels(out[c], MessageOf) \cup {call[p].record}
        /\ LabelsOnce(out'[c], MessageOf)
        /\ \A d \in Child \ {c} : out'[d] = out[d]
        /\ lost' = lost
    BY <1>6, <1>8, <2>1, LineLabels
  <2>3. At'[c]["out"] = At[c]["out"] \cup {call[p].record} /\ At'[c]["lost"] = At[c]["lost"]
    BY <2>2, AtIs, AtIsNext
  <2>4. \A z \in Spot \ {"out"} : At'[c][z] = At[c][z]
    BY <1>4, <2>3 DEF Spot
  <2>5. \A d \in Child \ {c} : Stays(At, At', d)
    BY <1>7, <2>2
  <2>6. \A d \in Child : LabelsOnce(out'[d], MessageOf)
    BY <1>6, <2>2
  <2>7. "out" \in Spot BY DEF Spot
  <2> QED BY <1>2, <1>5, <2>3, <2>4, <2>5, <2>6, <2>7, ArrivalServed
<1>9. CASE WriteFails(c, line)
  <2>1. /\ lost'[c] = lost[c] \cup {call[p].record} /\ out' = out
        /\ \A d \in Child \ {c} : lost'[d] = lost[d]
    BY <1>9 DEF WriteFails, TypeInv, TypeOK
  <2>2. At'[c]["lost"] = At[c]["lost"] \cup {call[p].record} /\ At'[c]["out"] = At[c]["out"]
    BY <2>1, AtIs, AtIsNext
  <2>3. \A z \in Spot \ {"lost"} : At'[c][z] = At[c][z]
    BY <1>4, <2>2 DEF Spot
  <2>4. \A d \in Child \ {c} : Stays(At, At', d)
    BY <1>7, <2>1
  <2>5. \A d \in Child : LabelsOnce(out'[d], MessageOf)
    BY <1>6, <2>1
  <2>6. "lost" \in Spot BY DEF Spot
  <2> QED BY <1>2, <1>5, <2>2, <2>3, <2>4, <2>5, <2>6, ArrivalServed
<1> QED BY <1>2, <1>8, <1>9

(* What a caller writes is its record.                                     *)
LEMMA CallWritten ==
  ASSUME TypeInv, ExclusiveInv, IntactInv, ChildrenDiffer, OnceInv, DueInv, ServedInv,
         NEW p \in Producers, HandlePlain(p) \/ Write(p)
  PROVE  OnceInv' /\ DueInv' /\ ServedInv'
<1>1. /\ call[p] \in Call /\ CallOK(p, call[p]) /\ call[p].record \in Record
      /\ entry \in [Cell -> Pool!Entry] /\ buf \in [Sync \cup Async -> Pool!Entry]
  BY DEF TypeInv, TypeOK, CallInv, Call, Pool!PoolTypeOK
<1>2. Logged(call[p].record).message = call[p].record
  BY <1>1, LoggedIntact
<1>3. [Next]_vars BY DEF Next, CallStep
<1>4. CASE HandlePlain(p)
  <2>1. call[p].pc = "plain" /\ call[p].cell \in Cell
    BY <1>1, <1>4, FastChildren DEF HandlePlain, CallOK, ChildOf, Child
  <2>2. /\ entry[call[p].cell] \in Pool!Entry
        /\ entry[call[p].cell].message = call[p].record
    BY <1>1, <1>2, <2>1 DEF IntactInv, ContentInv
  <2>3. PICK line \in Pool!Entry : line = entry[call[p].cell] BY <2>2
  <2>4. /\ \/ WriteOK(ChildOf(p), line) /\ Return(p, FALSE)
           \/ WriteFails(ChildOf(p), line) /\ Return(p, TRUE)
        /\ UNCHANGED <<queue, worker>>
    BY <1>4, <2>3 DEF HandlePlain
  <2> QED BY <1>3, <2>1, <2>2, <2>3, <2>4, WrittenServed
<1>5. CASE Write(p)
  <2>1. /\ call[p].pc \in {"locked", "lockedText", "direct"}
        /\ ChildOf(p) \in Sync \cup Async
    BY <1>1, <1>5 DEF Write, CallOK, ChildOf
  <2>2. PICK line : line = IF call[p].pc = "locked" THEN buf[ChildOf(p)] ELSE call[p].text
    OBVIOUS
  <2>3. line \in Pool!Entry /\ line.message = call[p].record
    BY <1>1, <1>2, <2>1, <2>2 DEF IntactInv, BufferInv, Call
  <2>4. /\ \/ WriteOK(ChildOf(p), line) /\ Return(p, FALSE)
           \/ WriteFails(ChildOf(p), line) /\ Return(p, TRUE)
        /\ UNCHANGED <<queue, worker>>
    BY <1>5, <2>2 DEF Write
  <2> QED BY <1>3, <2>1, <2>3, <2>4, WrittenServed
<1> QED BY <1>4, <1>5

LEMMA TargetRecord ==
  ASSUME TypeInv, ContentInv, NEW p \in Producers, call[p].pc \in {"send", "evict"}
  PROVE  /\ ChildOf(p) \in Async /\ Target(p) \in Cell
         /\ entry[Target(p)].message = call[p].record
<1>1. /\ ChildOf(p) \in Async /\ Target(p) \in Cell /\ call[p] \in Call
      /\ call[p].record \in Record
  BY TargetCell DEF TypeInv, TypeOK, Call
<1>2. entry[Target(p)] = Logged(call[p].record)
  BY <1>1, NilAssumption DEF ContentInv, Target
<1> QED BY <1>1, <1>2, LoggedIntact

LEMMA SendServed ==
  ASSUME TypeInv, ExclusiveInv, IntactInv, ChildrenDiffer, OnceInv, DueInv, ServedInv,
         NEW p \in Producers, Send(p)
  PROVE  OnceInv' /\ DueInv' /\ ServedInv'
<1>1. call[p].pc = "send" /\ UNCHANGED <<entry, out, lost, worker>> /\ Return(p, FALSE)
  BY DEF Send
<1>2. PICK c \in Async : c = ChildOf(p)
  BY <1>1, TargetRecord DEF IntactInv
<1>3. PICK e \in Cell : e = Target(p)
  BY <1>1, TargetRecord DEF IntactInv
<1>4. entry[e].message = call[p].record /\ c \in Child
  BY <1>1, <1>2, <1>3, TargetRecord DEF IntactInv, Child
<1>5. call[p].record \notin Seen(At, c)
  BY <1>1, <1>2, RecordFresh
<1>6. [Next]_vars BY DEF Next, CallStep
<1>7. MessagesKept BY <1>6, StepKeepsMessages
<1>8. /\ queue \in [Async -> Seq(Cell)] /\ queue'[c] = Append(queue[c], e)
      /\ \A d \in Async \ {c} : queue'[d] = queue[d]
  BY <1>2, <1>3 DEF Send, TypeInv, TypeOK
<1>9. PICK s \in Seq(Cell) : s = queue[c] BY <1>8
<1>10. PICK f : f = Memory OBVIOUS
<1>11. f = Memory' /\ f[e] = call[p].record
  BY <1>1, <1>4, <1>10 DEF Memory
<1>12. LabelsOnce(s, f) /\ f[e] \notin Labels(s, f)
  BY <1>4, <1>5, <1>9, <1>10, <1>11, AtIs DEF OnceInv, Seen
<1>13. /\ Labels(Append(s, e), f) = Labels(s, f) \cup {call[p].record}
       /\ LabelsOnce(Append(s, e), f)
  BY <1>11, <1>12, LabelsAppend
<1>14. At'[c]["queue"] = At[c]["queue"] \cup {call[p].record}
  BY <1>4, <1>8, <1>9, <1>10, <1>11, <1>13, AtIs, AtIsNext
<1>15. WorkerStays(c) /\ \A d \in Async : WorkerStays(d)
  BY <1>1, WorkersStay
<1>16. At'[c]["worker"] = At[c]["worker"]
  BY <1>7, <1>15, WorkerSpotStays
<1>17. At'[c]["out"] = At[c]["out"] /\ At'[c]["lost"] = At[c]["lost"]
  BY <1>1, <1>4, AtIs, AtIsNext
<1>18. \A z \in Spot \ {"queue"} : At'[c][z] = At[c][z]
  BY <1>16, <1>17 DEF Spot
<1>19. \A d \in Child \ {c} : Stays(At, At', d)
  BY <1>1, <1>7, <1>8, <1>15, ChildStays
<1>20. \A d \in Child : LabelsOnce(out'[d], MessageOf)
  BY <1>1 DEF OnceInv
<1>21. \A d \in Async : LabelsOnce(queue'[d], Memory')
  <2>1. LabelsOnce(queue'[c], Memory')
    BY <1>8, <1>9, <1>11, <1>13
  <2>2. \A d \in Async \ {c} : LabelsOnce(queue'[d], Memory')
    BY <1>7, <1>8, QueueStays DEF OnceInv
  <2> QED BY <2>1, <2>2
<1>22. "queue" \in Spot BY DEF Spot
<1> QED BY <1>1, <1>2, <1>14, <1>18, <1>19, <1>20, <1>21, <1>22, ArrivalServed

LEMMA OverflowServed ==
  ASSUME TypeInv, ExclusiveInv, IntactInv, ChildrenDiffer, OnceInv, DueInv, ServedInv,
         NEW p \in Producers, Overflow(p)
  PROVE  OnceInv' /\ DueInv' /\ ServedInv'
<1>1. call[p].pc = "send" /\ UNCHANGED <<entry, out, queue, worker>> /\ [Next]_vars
  BY DEF Overflow, Next, CallStep
<1>2. CASE UNCHANGED lost /\ (Goto(p, "evict") \/ Goto(p, "try"))
  <2>1. \A q \in Producers : CallStays(q)
    BY <1>1, <1>2, GotoStays
  <2> QED BY <1>1, <1>2, <2>1, WorkersStay, SilentServed
<1>3. CASE /\ Return(p, FALSE)
           /\ lost' = [lost EXCEPT ![ChildOf(p)] = @ \cup {entry[Target(p)].message}]
  <2>1. PICK c \in Child : c = ChildOf(p)
    BY <1>1, TargetRecord DEF IntactInv, Child
  <2>2. entry[Target(p)].message = call[p].record
    BY <1>1, TargetRecord DEF IntactInv
  <2>3. /\ lost'[c] = lost[c] \cup {call[p].record}
        /\ \A d \in Child \ {c} : lost'[d] = lost[d]
    BY <1>3, <2>1, <2>2 DEF TypeInv, TypeOK
  <2>4. MessagesKept BY <1>1, StepKeepsMessages
  <2>5. At'[c]["queue"] = At[c]["queue"] /\ At'[c]["worker"] = At[c]["worker"]
    BY <1>1, <2>4, QueueSpotStays, WorkersStay
  <2>6. At'[c]["lost"] = At[c]["lost"] \cup {call[p].record} /\ At'[c]["out"] = At[c]["out"]
    BY <1>1, <2>3, AtIs, AtIsNext
  <2>7. \A z \in Spot \ {"lost"} : At'[c][z] = At[c][z]
    BY <2>5, <2>6 DEF Spot
  <2>8. \A d \in Child \ {c} : Stays(At, At', d)
    BY <1>1, <2>3, <2>4, ChildStays, WorkersStay
  <2>9. \A d \in Child : LabelsOnce(out'[d], MessageOf)
    BY <1>1 DEF OnceInv
  <2>10. \A d \in Async : LabelsOnce(queue'[d], Memory')
    BY <1>1, <2>4, QueueStays DEF OnceInv
  <2>11. "lost" \in Spot BY DEF Spot
  <2> QED BY <1>1, <1>3, <2>1, <2>6, <2>7, <2>8, <2>9, <2>10, <2>11, ArrivalServed
<1> QED BY <1>2, <1>3 DEF Overflow

(* A record of child c goes from x to y.                                   *)
LEMMA MoveServed ==
  ASSUME OnceInv, DueInv, ServedInv, NEW c \in Child, NEW r,
         NEW x \in Spot, NEW y \in Spot, x # y, r \in At[c][x],
         At'[c][x] = At[c][x] \ {r}, At'[c][y] = At[c][y] \cup {r},
         \A z \in Spot \ {x, y} : At'[c][z] = At[c][z],
         \A d \in Child \ {c} : Stays(At, At', d),
         \A d \in Child : LabelsOnce(out'[d], MessageOf),
         \A d \in Async : LabelsOnce(queue'[d], Memory'),
         \A q \in Producers : CallStays(q)
  PROVE  OnceInv' /\ DueInv' /\ ServedInv'
<1>1. PICK A : A = At OBVIOUS
<1>2. PICK B : B = At' OBVIOUS
<1>3. Moves(A, B, c, r, x, y) BY <1>1, <1>2 DEF Moves
<1>4. Apart(A) BY <1>1 DEF OnceInv
<1>5. Apart(B) /\ \A d \in Child : Seen(B, d) = Seen(A, d)
  BY <1>3, <1>4, MovesApart
<1>6. OnceInv' BY <1>2, <1>5, OnceIsNext
<1>7. \A q \in Producers : /\ call'[q].record = call[q].record
                           /\ \A d : Passed(q, d)' <=> Passed(q, d)
  BY CallStaysPassed
<1>8. \A d \in Child : Seen(At', d) = Seen(At, d) BY <1>1, <1>2, <1>5
<1> QED BY <1>6, <1>7, <1>8, NothingServed

(* The first entry leaves the queue of c.                                  *)
LEMMA TailLabels ==
  ASSUME TypeInv, MessagesKept, OnceInv, NEW c \in Async, queue[c] # <<>>,
         queue' = [queue EXCEPT ![c] = Tail(@)], UNCHANGED entry
  PROVE  /\ At'[c]["queue"] = At[c]["queue"] \ {entry[Head(queue[c])].message}
         /\ entry[Head(queue[c])].message \in At[c]["queue"]
         /\ Head(queue[c]) \in Cell
         /\ \A d \in Async : LabelsOnce(queue'[d], Memory')
         /\ \A d \in Async \ {c} : queue'[d] = queue[d]
<1>1. /\ queue \in [Async -> Seq(Cell)] /\ queue'[c] = Tail(queue[c])
      /\ \A d \in Async \ {c} : queue'[d] = queue[d]
      /\ c \in Child
  BY DEF TypeInv, TypeOK, Child
<1>2. PICK s \in Seq(Cell) : s = queue[c] BY <1>1
<1>3. Head(s) \in Cell BY <1>2
<1>4. PICK f : f = Memory OBVIOUS
<1>5. f = Memory' /\ f[Head(s)] = entry[Head(s)].message
  BY <1>3, <1>4 DEF Memory
<1>6. LabelsOnce(s, f) BY <1>2, <1>4 DEF OnceInv
<1>7. /\ Labels(Tail(s), f) = Labels(s, f) \ {f[Head(s)]}
      /\ f[Head(s)] \in Labels(s, f) /\ LabelsOnce(Tail(s), f)
  BY <1>2, <1>6, LabelsTail
<1>8. At'[c]["queue"] = Labels(Tail(s), f) /\ At[c]["queue"] = Labels(s, f)
  BY <1>1, <1>2, <1>4, <1>5, AtIs, AtIsNext
<1>9. LabelsOnce(queue'[c], Memory')
  BY <1>1, <1>2, <1>5, <1>7
<1>10. \A d \in Async \ {c} : LabelsOnce(queue'[d], Memory')
  BY <1>1, QueueStays DEF OnceInv
<1> QED BY <1>1, <1>2, <1>3, <1>5, <1>7, <1>8, <1>9, <1>10

LEMMA EvictServed ==
  ASSUME TypeInv, ExclusiveInv, IntactInv, OnceInv, DueInv, ServedInv,
         NEW p \in Producers, Evict(p)
  PROVE  OnceInv' /\ DueInv' /\ ServedInv'
<1>1. /\ call[p].pc = "evict" /\ UNCHANGED <<entry, out, worker>> /\ [Next]_vars
      /\ Goto(p, "send")
  BY DEF Evict, Next, CallStep
<1>2. \A q \in Producers : CallStays(q)
  BY <1>1, GotoStays
<1>3. CASE UNCHANGED <<queue, lost>>
  BY <1>1, <1>2, <1>3, WorkersStay, SilentServed
<1>4. CASE queue[ChildOf(p)] # <<>>
  <2>1. PICK c \in Async : c = ChildOf(p)
    BY <1>1, TargetCell
  <2>2. PICK r : r = entry[Head(queue[c])].message OBVIOUS
  <2>3. /\ c \in Child /\ queue[c] # <<>> /\ queue' = [queue EXCEPT ![c] = Tail(@)]
        /\ lost' = [lost EXCEPT ![c] = @ \cup {r}]
    BY <1>4, <2>1, <2>2 DEF Evict, Child
  <2>4. MessagesKept BY <1>1, StepKeepsMessages
  <2>5. /\ At'[c]["queue"] = At[c]["queue"] \ {r} /\ r \in At[c]["queue"]
        /\ \A d \in Async : LabelsOnce(queue'[d], Memory')
        /\ \A d \in Async \ {c} : queue'[d] = queue[d]
    BY <1>1, <2>2, <2>3, <2>4, TailLabels
  <2>6. lost'[c] = lost[c] \cup {r} /\ \A d \in Child \ {c} : lost'[d] = lost[d]
    BY <2>3 DEF TypeInv, TypeOK
  <2>7. At'[c]["lost"] = At[c]["lost"] \cup {r} /\ At'[c]["out"] = At[c]["out"]
    BY <1>1, <2>3, <2>6, AtIs, AtIsNext
  <2>8. At'[c]["worker"] = At[c]["worker"]
    BY <1>1, <2>4, WorkersStay, WorkerSpotStays
  <2>9. \A z \in Spot \ {"queue", "lost"} : At'[c][z] = At[c][z]
    BY <2>7, <2>8 DEF Spot
  <2>10. \A d \in Child \ {c} : Stays(At, At', d)
    BY <1>1, <2>4, <2>5, <2>6, WorkersStay, ChildStays
  <2>11. \A d \in Child : LabelsOnce(out'[d], MessageOf)
    BY <1>1 DEF OnceInv
  <2>12. "queue" \in Spot /\ "lost" \in Spot BY DEF Spot
  <2> QED BY <1>2, <2>3, <2>5, <2>7, <2>9, <2>10, <2>11, <2>12, MoveServed
<1> QED BY <1>3, <1>4 DEF Evict

LEMMA ReceiveServed ==
  ASSUME TypeInv, ExclusiveInv, OnceInv, DueInv, ServedInv, NEW c \in Async, Receive(c)
  PROVE  OnceInv' /\ DueInv' /\ ServedInv'
<1>1. /\ worker[c].pc = "receive" /\ queue[c] # <<>> /\ UNCHANGED <<entry, call, out, lost>>
      /\ queue' = [queue EXCEPT ![c] = Tail(@)] /\ c \in Child /\ [Next]_vars
  BY DEF Receive, Child, Next, WorkerStep
<1>2. MessagesKept BY <1>1, StepKeepsMessages
<1>3. PICK r : r = entry[Head(queue[c])].message OBVIOUS
<1>4. /\ At'[c]["queue"] = At[c]["queue"] \ {r} /\ r \in At[c]["queue"]
      /\ \A d \in Async : LabelsOnce(queue'[d], Memory')
      /\ \A d \in Async \ {c} : queue'[d] = queue[d]
  BY <1>1, <1>2, <1>3, TailLabels
<1>5. /\ worker'[c].pc = "lock" /\ worker'[c].cell = Head(queue[c])
      /\ \A d \in Async \ {c} : worker'[d] = worker[d]
  BY DEF Receive, TypeInv, TypeOK
<1>6. entry'[worker'[c].cell].message = r BY <1>1, <1>3, <1>5
<1>7. At'[c]["worker"] = {r} /\ At[c]["worker"] = {}
  BY <1>1, <1>5, <1>6, AtIs, AtIsNext
<1>8. At'[c]["worker"] = At[c]["worker"] \cup {r} BY <1>7
<1>9. At'[c]["out"] = At[c]["out"] /\ At'[c]["lost"] = At[c]["lost"]
  BY <1>1, AtIs, AtIsNext
<1>10. \A z \in Spot \ {"queue", "worker"} : At'[c][z] = At[c][z]
  BY <1>9 DEF Spot
<1>11. \A d \in Async \ {c} : WorkerStays(d) BY <1>5 DEF WorkerStays
<1>12. \A d \in Child \ {c} : Stays(At, At', d)
  BY <1>1, <1>2, <1>4, <1>11, ChildStays
<1>13. \A d \in Child : LabelsOnce(out'[d], MessageOf)
  BY <1>1 DEF OnceInv
<1>14. \A q \in Producers : CallStays(q) BY <1>1 DEF CallStays
<1>15. "queue" \in Spot /\ "worker" \in Spot BY DEF Spot
<1> QED BY <1>1, <1>4, <1>8, <1>10, <1>12, <1>13, <1>14, <1>15, MoveServed

LEMMA WorkerWriteServed ==
  ASSUME TypeInv, ExclusiveInv, IntactInv, OnceInv, DueInv, ServedInv,
         NEW c \in Async, WorkerWrite(c)
  PROVE  OnceInv' /\ DueInv' /\ ServedInv'
<1>1. /\ worker[c].pc = "write" /\ UNCHANGED <<entry, call, queue>>
      /\ c \in Child /\ [Next]_vars
  BY DEF WorkerWrite, Child, Next, WorkerStep
<1>2. MessagesKept BY <1>1, StepKeepsMessages
<1>3. PICK line \in Pool!Entry : line = buf[c]
  BY DEF TypeInv, TypeOK
<1>4. line.message = entry[worker[c].cell].message
  BY <1>1, <1>3 DEF IntactInv, BufferInv
<1>5. PICK r : r = line.message OBVIOUS
<1>6. /\ worker'[c].pc \in {"put", "gone"}
      /\ \A d \in Async \ {c} : worker'[d] = worker[d]
  BY DEF WorkerWrite, WorkerGoto, TypeInv, TypeOK
<1>7. At[c]["worker"] = {r} /\ At'[c]["worker"] = {}
  BY <1>1, <1>4, <1>5, <1>6, AtIs, AtIsNext
<1>8. r \in At[c]["worker"] /\ At'[c]["worker"] = At[c]["worker"] \ {r}
  BY <1>7
<1>9. At'[c]["queue"] = At[c]["queue"]
  BY <1>1, <1>2, AtIs, AtIsNext, QueueStays
<1>10. \A d \in Async : LabelsOnce(queue'[d], Memory')
  BY <1>1, <1>2, QueueStays DEF OnceInv
<1>11. \A d \in Async \ {c} : WorkerStays(d) BY <1>6 DEF WorkerStays
<1>12. \A d \in Child \ {c} : out'[d] = out[d] /\ lost'[d] = lost[d] => Stays(At, At', d)
  BY <1>1, <1>2, <1>11, ChildStays
<1>13. \A q \in Producers : CallStays(q) BY <1>1 DEF CallStays
<1>14. \A d \in Child : LabelsOnce(out[d], MessageOf) BY DEF OnceInv
<1>15. "worker" \in Spot /\ "out" \in Spot /\ "lost" \in Spot BY DEF Spot
<1>16. CASE WriteOK(c, line)
  <2>1. r \notin At[c]["out"]
    BY <1>1, <1>8, <1>15 DEF OnceInv, Apart
  <2>2. line.message \notin Labels(out[c], MessageOf)
    BY <1>1, <1>5, <2>1, AtIs
  <2>3. /\ Labels(out'[c], MessageOf) = Labels(out[c], MessageOf) \cup {r}
        /\ LabelsOnce(out'[c], MessageOf)
        /\ \A d \in Child \ {c} : out'[d] = out[d]
        /\ lost' = lost
    BY <1>1, <1>5, <1>14, <1>16, <2>2, LineLabels
  <2>4. At'[c]["out"] = At[c]["out"] \cup {r} /\ At'[c]["lost"] = At[c]["lost"]
    BY <1>1, <2>3, AtIs, AtIsNext
  <2>5. \A z \in Spot \ {"worker", "out"} : At'[c][z] = At[c][z]
    BY <1>9, <2>4 DEF Spot
  <2>6. \A d \in Child \ {c} : Stays(At, At', d) BY <1>12, <2>3
  <2>7. \A d \in Child : LabelsOnce(out'[d], MessageOf) BY <1>14, <2>3
  <2> QED BY <1>1, <1>8, <1>10, <1>13, <1>15, <2>4, <2>5, <2>6, <2>7, MoveServed
<1>17. CASE WriteFails(c, line)
  <2>1. /\ lost'[c] = lost[c] \cup {r} /\ out' = out
        /\ \A d \in Child \ {c} : lost'[d] = lost[d]
    BY <1>1, <1>5, <1>17 DEF WriteFails, TypeInv, TypeOK
  <2>2. At'[c]["lost"] = At[c]["lost"] \cup {r} /\ At'[c]["out"] = At[c]["out"]
    BY <1>1, <2>1, AtIs, AtIsNext
  <2>3. \A z \in Spot \ {"worker", "lost"} : At'[c][z] = At[c][z]
    BY <1>9, <2>2 DEF Spot
  <2>4. \A d \in Child \ {c} : Stays(At, At', d) BY <1>12, <2>1
  <2>5. \A d \in Child : LabelsOnce(out'[d], MessageOf) BY <1>14, <2>1
  <2> QED BY <1>1, <1>8, <1>10, <1>13, <1>15, <2>2, <2>3, <2>4, <2>5, MoveServed
<1> QED BY <1>3, <1>16, <1>17 DEF WorkerWrite

LEMMA NextServed ==
  ASSUME ChildrenDiffer, TypeInv, ExclusiveInv, IntactInv, OnceInv, DueInv, ServedInv,
         [Next]_vars
  PROVE  OnceInv' /\ DueInv' /\ ServedInv'
<1>1. CASE UNCHANGED vars
  <2>1. UNCHANGED <<queue, out, lost, worker, call>> BY <1>1 DEF vars
  <2>2. \A q \in Producers : CallStays(q) BY <2>1 DEF CallStays
  <2> QED BY <2>1, <2>2, WorkersStay, SilentServed
<1>2. ASSUME NEW p \in Producers, CallStep(p)
      PROVE  OnceInv' /\ DueInv' /\ ServedInv'
  BY <1>2, CallWritten, TryLockServed, QuietServed, SendServed, OverflowServed, EvictServed
     DEF CallStep
<1>3. ASSUME NEW c \in Async, WorkerStep(c)
      PROVE  OnceInv' /\ DueInv' /\ ServedInv'
  BY <1>3, ReceiveServed, QuietWorkerServed, WorkerWriteServed DEF WorkerStep
<1> QED BY <1>1, <1>2, <1>3, LogServed DEF Next, Terminated

LEMMA InitServed == Init => OnceInv /\ DueInv /\ ServedInv
<1> SUFFICES ASSUME Init PROVE OnceInv /\ DueInv /\ ServedInv
  OBVIOUS
<1>1. /\ \A c \in Child : out[c] = <<>> /\ lost[c] = {}
      /\ \A c \in Async : queue[c] = <<>> /\ worker[c].pc = "receive"
      /\ \A p \in Producers : call[p].record.seq = 0
  BY DEF Init
<1>2. \A c \in Child : \A x \in Spot : At[c][x] = {}
  <2>3. \A f : Labels(<<>>, f) = {} BY DEF Labels
  <2>1. ASSUME NEW c \in Child PROVE At[c]["out"] = {} /\ At[c]["lost"] = {}
    BY <1>1, <2>3, AtIs
  <2>2. ASSUME NEW c \in Child PROVE At[c]["queue"] = {} /\ At[c]["worker"] = {}
    BY <1>1, <2>3, AtIs
  <2> QED BY <2>1, <2>2 DEF Spot
<1>3. OnceInv BY <1>1, <1>2 DEF OnceInv, Apart, LabelsOnce
<1>4. DueInv BY <1>2 DEF DueInv, Seen, Spot
<1>5. ServedInv BY <1>1, BoundAssumption DEF ServedInv, HandedOver
<1> QED BY <1>3, <1>4, <1>5

LEMMA LabelCount ==
  ASSUME NEW s, NEW f, LabelsOnce(s, f), NEW r
  PROVE  Cardinality({i \in DOMAIN s : f[s[i]] = r}) = IF r \in Labels(s, f) THEN 1 ELSE 0
<1>1. CASE r \in Labels(s, f)
  <2>1. PICK i \in DOMAIN s : f[s[i]] = r BY <1>1 DEF Labels
  <2>2. {j \in DOMAIN s : f[s[j]] = r} = {i} BY <2>1 DEF LabelsOnce
  <2> QED BY <1>1, <2>2, FS_Singleton
<1>2. CASE r \notin Labels(s, f)
  <2>1. {j \in DOMAIN s : f[s[j]] = r} = {} BY <1>2 DEF Labels
  <2> QED BY <1>2, <2>1, FS_EmptySet
<1> QED BY <1>1, <1>2

(* A child has as many copies of a record as there are places with it.     *)
LEMMA CopiesIs ==
  ASSUME TypeInv, OnceInv, NEW c \in Child, NEW r
  PROVE  Copies(c, r) = IF r \in Seen(At, c) THEN 1 ELSE 0
<1> DEFINE is(x) == IF r \in At[c][x] THEN 1 ELSE 0
<1>1. Cardinality({i \in DOMAIN out[c] : out[c][i].message = r}) = is("out")
  <2>1. \A i \in DOMAIN out[c] : MessageOf[out[c][i]] = out[c][i].message
    BY DEF TypeInv, TypeOK, MessageOf
  <2>2. {i \in DOMAIN out[c] : out[c][i].message = r}
          = {i \in DOMAIN out[c] : MessageOf[out[c][i]] = r}
    BY <2>1
  <2>3. PICK s : s = out[c] OBVIOUS
  <2>4. LabelsOnce(s, MessageOf) BY <2>3 DEF OnceInv
  <2>5. Cardinality({i \in DOMAIN s : MessageOf[s[i]] = r})
          = IF r \in Labels(s, MessageOf) THEN 1 ELSE 0
    BY <2>4, LabelCount
  <2>6. is("out") = IF r \in Labels(s, MessageOf) THEN 1 ELSE 0
    BY <2>3, AtIs
  <2> QED BY <2>2, <2>3, <2>5, <2>6
<1>2. ASSUME c \in Async
      PROVE  Cardinality({i \in DOMAIN queue[c] : entry[queue[c][i]].message = r})
               = is("queue")
  <2>1. \A i \in DOMAIN queue[c] : Memory[queue[c][i]] = entry[queue[c][i]].message
    BY <1>2 DEF TypeInv, TypeOK, Memory
  <2>2. {i \in DOMAIN queue[c] : entry[queue[c][i]].message = r}
          = {i \in DOMAIN queue[c] : Memory[queue[c][i]] = r}
    BY <2>1
  <2>3. PICK s : s = queue[c] OBVIOUS
  <2>4. PICK f : f = Memory OBVIOUS
  <2>5. LabelsOnce(s, f) BY <1>2, <2>3, <2>4 DEF OnceInv
  <2>6. Cardinality({i \in DOMAIN s : f[s[i]] = r}) = IF r \in Labels(s, f) THEN 1 ELSE 0
    BY <2>5, LabelCount
  <2>7. is("queue") = IF r \in Labels(s, f) THEN 1 ELSE 0
    BY <1>2, <2>3, <2>4, AtIs
  <2> QED BY <2>2, <2>3, <2>4, <2>6, <2>7
<1>3. ASSUME c \in Async
      PROVE  (IF /\ worker[c].pc \in {"lock", "write"}
                 /\ entry[worker[c].cell].message = r THEN 1 ELSE 0) = is("worker")
  BY <1>3, AtIs
<1>4. (IF r \in lost[c] THEN 1 ELSE 0) = is("lost")
  BY AtIs
<1>5. c \notin Async => is("queue") = 0 /\ is("worker") = 0
  BY AtIs
<1>6. Copies(c, r) = is("out") + is("lost") + (is("queue") + is("worker"))
  <2>1. CASE c \in Async BY <1>1, <1>2, <1>3, <1>4, <2>1 DEF Copies
  <2>2. CASE c \notin Async BY <1>1, <1>4, <1>5, <2>2 DEF Copies
  <2> QED BY <2>1, <2>2
<1>7. \A x, y \in Spot : x # y => ~(r \in At[c][x] /\ r \in At[c][y])
  BY DEF OnceInv, Apart
<1> QED BY <1>6, <1>7 DEF Seen, Spot

LEMMA AllServed ==
  TypeInv /\ OnceInv /\ ServedInv => EveryChildServed
<1> SUFFICES ASSUME TypeInv, OnceInv, ServedInv,
                    NEW p \in Producers, NEW c \in Range(Handlers[p])
             PROVE  /\ \A n \in HandedOver(p, c) : \E args \in BOOLEAN :
                         Copies(c, [src |-> p, seq |-> n, args |-> args]) = 1
                    /\ \A r \in Record : Copies(c, r) <= 1
  BY DEF EveryChildServed
<1>1. c \in Child BY LoggerAssumption DEF Range
<1>2. \A r : Copies(c, r) = IF r \in Seen(At, c) THEN 1 ELSE 0
  BY <1>1, CopiesIs
<1>3. ASSUME NEW n \in HandedOver(p, c)
      PROVE  \E args \in BOOLEAN : Copies(c, [src |-> p, seq |-> n, args |-> args]) = 1
  <2>1. PICK args \in BOOLEAN : [src |-> p, seq |-> n, args |-> args] \in Seen(At, c)
    BY DEF ServedInv
  <2>2. Copies(c, [src |-> p, seq |-> n, args |-> args]) = 1
    BY <1>2, <2>1
  <2> QED BY <2>2
<1>4. \A r \in Record : Copies(c, r) <= 1
  BY <1>2
<1> QED BY <1>3, <1>4

(* MultiHandler.Handle and HandleLog (multi.go) go on after an error, and  *)
(* a console handler writes, queues or drops what it is given: each child  *)
(* gets each record of its loggers once, for any loggers none of which has *)
(* a child twice and each of whose asynchronous children comes last.       *)
THEOREM EveryChildServedAlways ==
  AsyncLast /\ ChildrenDiffer => (Spec => []EveryChildServed)
<1> SUFFICES ASSUME AsyncLast, ChildrenDiffer PROVE Spec => []EveryChildServed
  OBVIOUS
<1>1. TypeInv /\ ExclusiveInv /\ [Next]_vars => ExclusiveInv'
  BY NextCells
<1>2. TypeInv /\ ExclusiveInv /\ IntactInv /\ OnceInv /\ DueInv /\ ServedInv /\ [Next]_vars
        => OnceInv' /\ DueInv' /\ ServedInv'
  BY NextServed
<1> QED
  BY <1>1, <1>2, InitTypes, NextTypes, InitCells, InitIntact, NextIntact, InitServed,
     AllServed, PTL DEF Spec
===============================================================================
