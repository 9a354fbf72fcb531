--------------------------- MODULE AsyncFileProofs ---------------------------
(***************************************************************************)
(* Theorems about AsyncFile, for any number of callers, any records and    *)
(* any faults of the file system.  Each section has the inductive          *)
(* invariant of its theorem: TypeInv, PlaceInv, OrderInv, for              *)
(* StoredOnClose FileInv, SettledInv, WrittenInv and DiskInv, and          *)
(* AllFiledInv.                                                            *)
(***************************************************************************)
EXTENDS AsyncFile, FiniteSetTheorems, FunctionTheorems, SequenceTheorems, TLAPS

(* A caller has an entry except when it is idle.                           *)
CallInv ==
  \A p \in Producers :
    /\ pc[p] = "idle" <=> held[p] = NoEntry
    /\ held[p] # NoEntry => held[p].src = p /\ held[p].seq = logged[p]
    /\ pc[p] = "writing" <=> owner = p

WorkerInv ==
  /\ workerPC = "writing" <=> owner = Worker
  /\ workerPC \in {"collect", "write", "writing"} <=> taken # <<>>
  /\ taken # <<>> => batchLen # 0
  /\ drainTimer = "off" => workerPC \notin {"drain", "done"}
  /\ drainTimer # "off" =>
       closed /\ workerPC \in {"drain", "write", "writing", "done", "failed"}

(* The write under way is the last of the history.                         *)
WriteInv ==
  /\ env \in [faults : Nat, crashes : Nat, writes : Nat] /\ pending \in Nat
  /\ env.writes = Len(hist.order)
  /\ owner \in Producers \cup {Worker} =>
       /\ step \in {"append"} \cup File!RotateSteps
       /\ pending # 0 /\ hist.order # <<>>
       /\ Last(hist.order) = IF owner = Worker THEN taken ELSE <<held[owner]>>

CloserInv ==
  /\ owner = Closer => step \in File!CloseSteps
  /\ closerPC = "closing" <=> owner = Closer
  /\ closerPC # "idle" <=> closed
  /\ closerPC \in {"closeQueue", "closeFile", "closing", "done"} => WorkerGone
  /\ closing # "no" => closerPC \in {"closing", "done"}
  /\ closing = "succeeded" => closerPC = "done"

TypeInv == TypeOK /\ CallInv /\ WorkerInv /\ WriteInv /\ CloserInv

-----------------------------------------------------------------------------
(* The goroutines other than callers                                       *)
LEMMA Goroutines ==
  /\ Worker # Closer /\ Worker # Nobody /\ Closer # Nobody
  /\ Worker \notin Producers /\ Closer \notin Producers /\ Nobody \notin Producers
<1>1. \A a, b : Cardinality({a, b}) # 3
  <2> SUFFICES ASSUME NEW a, NEW b PROVE Cardinality({a, b}) # 3
    OBVIOUS
  <2>1. Cardinality({a}) = 1 /\ IsFiniteSet({a}) BY FS_Singleton
  <2>2. {a, b} = {a} \cup {b} OBVIOUS
  <2>3. Cardinality({a} \cup {b}) = IF b \in {a} THEN 1 ELSE 2
    BY <2>1, FS_AddElement
  <2> QED BY <2>2, <2>3
<1>2. ASSUME Worker = Closer PROVE FALSE
  <2>1. {Worker, Closer, Nobody} = {Worker, Nobody} BY <1>2
  <2> QED BY <1>1, <2>1, GoroutineAssumption
<1>3. ASSUME Worker = Nobody PROVE FALSE
  <2>1. {Worker, Closer, Nobody} = {Worker, Closer} BY <1>3
  <2> QED BY <1>1, <2>1, GoroutineAssumption
<1>4. ASSUME Closer = Nobody PROVE FALSE
  <2>1. {Worker, Closer, Nobody} = {Worker, Closer} BY <1>4
  <2> QED BY <1>1, <2>1, GoroutineAssumption
<1> QED BY <1>2, <1>3, <1>4, GoroutineAssumption

LEMMA QueueTail ==
  ASSUME NEW S, NEW s \in Seq(S), s # <<>>
  PROVE  /\ Head(s) \in S /\ Tail(s) \in Seq(S) /\ Len(Tail(s)) = Len(s) - 1
         /\ Len(s) \in Nat
<1>1. Head(s) \in S /\ Tail(s) \in Seq(S)
  OBVIOUS
<1>2. Len(s) \in Nat /\ Len(Tail(s)) = Len(s) - 1
  OBVIOUS
<1> QED BY <1>1, <1>2

LEMMA QueueAppend ==
  ASSUME NEW S, NEW s \in Seq(S), NEW x \in S
  PROVE  /\ Append(s, x) \in Seq(S) /\ Len(Append(s, x)) = Len(s) + 1
         /\ Append(s, x) # <<>> /\ Last(Append(s, x)) = x
         /\ Len(s) \in Nat
BY DEF Last

LEMMA EntrySize ==
  ASSUME NEW e \in Entry
  PROVE  e.size \in Nat \ {0} /\ e.src \in Producers /\ e.seq \in Nat /\ e # NoEntry
<1>1. e.size \in Sizes /\ e.src \in Producers /\ e.seq \in 1 .. MaxLogs
  BY DEF Entry
<1>2. e # NoEntry BY NoEntryAssumption
<1>3. MaxLogs \in Nat /\ Sizes \subseteq Nat \ {0}
  BY HandlerAssumption, QueueAssumption
<1>4. \A n \in 1 .. MaxLogs : n \in Nat BY <1>3
<1> QED BY <1>1, <1>2, <1>3, <1>4

(* Steps of a caller that do not log a new record or write.                *)
LEMMA HeldEntry ==
  ASSUME TypeInv, NEW p \in Producers, pc[p] # "idle"
  PROVE  held[p] \in Entry
BY DEF TypeInv, TypeOK, CallInv

LEMMA GotoCall ==
  ASSUME TypeInv, NEW p \in Producers, NEW label, Goto(p, label), UNCHANGED <<owner, logged>>,
         pc[p] \notin {"idle", "writing"}, label \in ProducerPCs \ {"idle", "writing"}
  PROVE  /\ pc' \in [Producers -> ProducerPCs] /\ CallInv'
         /\ held' \in [Producers -> Entry \cup {NoEntry}]
BY DEF TypeInv, TypeOK, CallInv, Goto

LEMMA ReturnCall ==
  ASSUME TypeInv, NEW p \in Producers, Return(p), UNCHANGED <<owner, logged>>,
         pc[p] # "writing"
  PROVE  /\ pc' \in [Producers -> ProducerPCs] /\ CallInv'
         /\ held' \in [Producers -> Entry \cup {NoEntry}]
BY DEF TypeInv, TypeOK, CallInv, Return, ProducerPCs

LEMMA HandleLogTypes ==
  ASSUME TypeInv, NEW p \in Producers, NEW size \in Sizes, HandleLog(p, size)
  PROVE  TypeInv'
<1>1. UNCHANGED <<fileVars, owner, queueVars, workerVars, closerPC, hist>>
  BY DEF HandleLog
<1>2. logged[p] + 1 \in 1 .. MaxLogs /\ logged' = [logged EXCEPT ![p] = logged[p] + 1]
  BY QueueAssumption DEF HandleLog, TypeInv, TypeOK
<1>3. PICK e \in Entry : e = [src |-> p, seq |-> logged[p] + 1, size |-> size]
  BY <1>2 DEF Entry
<1>4. held' = [held EXCEPT ![p] = e] /\ pc' = [pc EXCEPT ![p] = "send"] /\ pc[p] = "idle"
  BY <1>3 DEF HandleLog
<1>5. /\ logged' \in [Producers -> 0 .. MaxLogs]
      /\ pc' \in [Producers -> ProducerPCs]
      /\ held' \in [Producers -> Entry \cup {NoEntry}]
  BY <1>2, <1>3, <1>4, QueueAssumption DEF TypeInv, TypeOK, ProducerPCs
<1>6. e.src = p /\ e.seq = logged[p] + 1 /\ e # NoEntry
  BY <1>3, NoEntryAssumption
<1>7. CallInv'
  BY <1>1, <1>2, <1>4, <1>6 DEF CallInv, TypeInv, TypeOK
<1>8. TypeOK' BY <1>1, <1>5 DEF TypeInv, TypeOK, fileVars, queueVars, workerVars
<1>9. WriteInv'
  <2>1. owner # p BY <1>4 DEF TypeInv, CallInv
  <2> QED BY <1>1, <1>4, <2>1 DEF TypeInv, TypeOK, WriteInv, fileVars, workerVars
<1>10. WorkerInv' /\ CloserInv'
  BY <1>1 DEF TypeInv, WorkerInv, CloserInv, WorkerGone, fileVars, queueVars, workerVars
<1> QED BY <1>7, <1>8, <1>9, <1>10 DEF TypeInv

(* Steps of a caller in between.                                           *)
CallMoves(p) == \/ Send(p) \/ SendPanics(p) \/ Drop(p) \/ FindFull(p)
                \/ Evict(p) \/ StopWaiting(p)

LEMMA MoveFrame ==
  ASSUME NEW p \in Producers, CallMoves(p)
  PROVE  /\ UNCHANGED <<fileVars, owner, queueClosed, closed, batches, logged, workerVars,
                        closerPC>>
         /\ pc[p] \notin {"idle", "writing"}
BY DEF CallMoves, Send, SendPanics, Drop, FindFull, Evict, StopWaiting, CallKeeps

LEMMA MoveQueue ==
  ASSUME TypeInv, NEW p \in Producers, CallMoves(p)
  PROVE  /\ queue' \in Seq(Entry) /\ Len(queue') <= Capacity
         /\ hist'.order = hist.order
         /\ hist' \in Histories
<1>1. held[p] \in Entry BY HeldEntry, MoveFrame
<1>2. /\ queue \in Seq(Entry) /\ Len(queue) <= Capacity /\ Capacity \in Nat
      /\ hist \in Histories
  BY QueueAssumption DEF TypeInv, TypeOK
<1>3. CASE Send(p)
  BY <1>1, <1>2, <1>3, QueueAppend DEF Send, HasRoom, Enqueue, CallKeeps
<1>4. CASE Drop(p)
  BY <1>1, <1>2, <1>4 DEF Drop, CallKeeps, Histories
<1>5. CASE Evict(p)
  <2>1. CASE queue = <<>>
    BY <1>2, <1>5, <2>1 DEF Evict
  <2>2. CASE queue # <<>>
    <3>1. /\ queue' = Tail(queue)
          /\ hist' = [hist EXCEPT !.discarded = @ \cup {Head(queue)}]
      BY <1>5, <2>2 DEF Evict
    <3>2. /\ Head(queue) \in Entry /\ Tail(queue) \in Seq(Entry)
          /\ Len(Tail(queue)) = Len(queue) - 1 /\ Len(queue) \in Nat
      BY <1>2, <2>2, QueueTail
    <3>3. queue' \in Seq(Entry) /\ Len(queue') <= Capacity
      BY <1>2, <3>1, <3>2
    <3>4. Head(queue) \in Entry BY <3>2
    <3> QED BY <1>2, <3>1, <3>3, <3>4 DEF Histories
  <2> QED BY <2>1, <2>2
<1>6. CASE SendPanics(p) \/ FindFull(p) \/ StopWaiting(p)
  BY <1>2, <1>6 DEF SendPanics, FindFull, StopWaiting, CallKeeps
<1> QED BY <1>3, <1>4, <1>5, <1>6 DEF CallMoves

LEMMA MoveTypes ==
  ASSUME TypeInv, NEW p \in Producers, CallMoves(p) PROVE TypeInv'
<1>1. /\ UNCHANGED <<fileVars, owner, queueClosed, closed, batches, logged, workerVars,
                     closerPC>>
      /\ pc[p] \notin {"idle", "writing"}
  BY MoveFrame
<1>2. /\ pc' \in [Producers -> ProducerPCs] /\ CallInv'
      /\ held' \in [Producers -> Entry \cup {NoEntry}]
  <2>1. CASE Return(p) BY <1>1, <2>1, ReturnCall
  <2>2. CASE \E label \in {"panicked", "evict", "wait", "resend", "write"} : Goto(p, label)
    BY <1>1, <2>2, GotoCall DEF ProducerPCs
  <2> QED
    BY <2>1, <2>2 DEF CallMoves, Send, SendPanics, Drop, FindFull, Evict, StopWaiting
<1>3. TypeOK'
  BY <1>1, <1>2, MoveQueue DEF TypeInv, TypeOK, fileVars, workerVars
<1>4. \A q \in Producers \ {p} : held'[q] = held[q]
  BY DEF CallMoves, Send, SendPanics, Drop, FindFull, Evict, StopWaiting, Return, Goto,
         TypeInv, TypeOK
<1>5. owner # p BY <1>1 DEF TypeInv, CallInv
<1>6. WriteInv'
  BY <1>1, <1>4, <1>5, MoveQueue DEF TypeInv, WriteInv, fileVars, workerVars
<1>7. WorkerInv' /\ CloserInv'
  BY <1>1 DEF TypeInv, WorkerInv, CloserInv, WorkerGone, fileVars, workerVars
<1> QED BY <1>2, <1>3, <1>6, <1>7 DEF TypeInv

(* A write begins: it is the last of the history.                          *)
LEMMA BeginEffect ==
  ASSUME TypeInv, NEW who, NEW entries \in Seq(Entry), NEW size \in Nat \ {0},
         NEW direct \in SUBSET Entry, BeginWrite(who, entries, size, direct)
  PROVE  /\ owner = Nobody /\ owner' = who /\ step' \in {"append", "flush"}
         /\ pending' = size /\ closing' = closing
         /\ env' \in [faults : Nat, crashes : Nat, writes : Nat]
         /\ env'.writes = Len(hist'.order)
         /\ hist'.order # <<>> /\ Last(hist'.order) = entries
         /\ hist' \in Histories
<1>1. /\ env \in [faults : Nat, crashes : Nat, writes : Nat]
      /\ env.writes = Len(hist.order)
      /\ hist \in Histories
  BY DEF TypeInv, TypeOK, WriteInv
<1>2. /\ owner = Nobody /\ owner' = who /\ step' \in {"append", "flush"}
      /\ pending' = size /\ closing' = closing /\ env' = [env EXCEPT !.writes = @ + 1]
      /\ hist' = [hist EXCEPT !.order = Append(@, entries), !.bytes = @ \o entries,
                              !.direct = @ \cup direct]
  BY DEF BeginWrite, File!StartWrite
<1>3. PICK o \in Seq(Seq(Entry)) : o = hist.order BY <1>1 DEF Histories
<1>4. PICK b \in Seq(Entry) : b = hist.bytes BY <1>1 DEF Histories
<1>5. /\ Append(o, entries) \in Seq(Seq(Entry)) /\ Append(o, entries) # <<>>
      /\ Len(Append(o, entries)) = Len(o) + 1 /\ Last(Append(o, entries)) = entries
  BY QueueAppend
<1>6. b \o entries \in Seq(Entry) OBVIOUS
<1>7. hist' = [hist EXCEPT !.order = Append(o, entries), !.bytes = b \o entries,
                           !.direct = @ \cup direct]
  BY <1>2, <1>3, <1>4
<1>8. hist'.order = Append(o, entries)
  BY <1>1, <1>7
<1>9. hist' \in Histories
  BY <1>1, <1>5, <1>6, <1>7 DEF Histories
<1>10. /\ env' \in [faults : Nat, crashes : Nat, writes : Nat]
       /\ env'.writes = Len(hist'.order)
  <2>1. PICK n \in Nat : n = env.writes BY <1>1
  <2>2. n + 1 \in Nat /\ env' = [env EXCEPT !.writes = n + 1] BY <1>2, <2>1
  <2>3. env' \in [faults : Nat, crashes : Nat, writes : Nat] /\ env'.writes = n + 1
    BY <1>1, <2>2
  <2>4. Len(hist'.order) = n + 1 BY <1>1, <1>3, <1>5, <1>8, <2>1
  <2> QED BY <2>3, <2>4
<1> QED BY <1>2, <1>5, <1>8, <1>9, <1>10

LEMMA CallerWritesTypes ==
  ASSUME TypeInv, NEW p \in Producers, CallerWrites(p) PROVE TypeInv'
<1>1. /\ pc[p] = "write" /\ BeginWrite(p, <<held[p]>>, held[p].size, {held[p]})
      /\ Goto(p, "writing")
      /\ UNCHANGED <<queue, queueClosed, closed, batches, logged, workerVars, closerPC>>
  BY DEF CallerWrites, CallKeeps
<1>2. PICK e \in Entry : e = held[p] BY <1>1, HeldEntry
<1>3. e.size \in Nat \ {0} /\ <<e>> \in Seq(Entry) /\ {e} \in SUBSET Entry
  BY EntrySize
<1>4. /\ owner = Nobody /\ owner' = p /\ step' \in {"append", "flush"}
      /\ pending' = e.size /\ closing' = closing
      /\ env' \in [faults : Nat, crashes : Nat, writes : Nat]
      /\ env'.writes = Len(hist'.order)
      /\ hist'.order # <<>> /\ Last(hist'.order) = <<e>>
      /\ hist' \in Histories
  BY <1>1, <1>2, <1>3, BeginEffect
<1>5. /\ pc' = [pc EXCEPT ![p] = "writing"] /\ held' = held /\ p # Nobody /\ p # Worker
      /\ p # Closer
  BY <1>1, Goroutines DEF Goto
<1>6. pc' \in [Producers -> ProducerPCs] /\ CallInv'
  <2>1. pc \in [Producers -> ProducerPCs] /\ \A q \in Producers : pc[q] # "writing"
    BY <1>4, Goroutines DEF TypeInv, TypeOK, CallInv
  <2>2. /\ pc' \in [Producers -> ProducerPCs] /\ pc'[p] = "writing"
        /\ \A q \in Producers \ {p} : pc'[q] = pc[q]
    BY <1>5, <2>1 DEF ProducerPCs
  <2> QED BY <1>1, <1>4, <1>5, <2>1, <2>2 DEF TypeInv, CallInv
<1>7. TypeOK'
  BY <1>1, <1>4, <1>5, <1>6 DEF TypeInv, TypeOK, workerVars
<1>8. WorkerInv' /\ CloserInv'
  <2>1. workerPC # "writing" /\ closerPC # "closing"
    BY <1>4, Goroutines DEF TypeInv, WorkerInv, CloserInv
  <2>2. WorkerInv' BY <1>1, <1>4, <1>5, <2>1 DEF TypeInv, WorkerInv, workerVars
  <2>3. CloserInv' BY <1>1, <1>4, <1>5, <2>1 DEF TypeInv, CloserInv, WorkerGone, workerVars
  <2> QED BY <2>2, <2>3
<1>9. WriteInv'
  BY <1>2, <1>3, <1>4, <1>5 DEF WriteInv, File!RotateSteps
<1> QED BY <1>6, <1>7, <1>8, <1>9 DEF TypeInv

LEMMA WorkerWritesTypes ==
  ASSUME TypeInv, WorkerWrites PROVE TypeInv'
<1>1. /\ workerPC = "write" /\ BeginWrite(Worker, taken, batchLen, {}) /\ workerPC' = "writing"
      /\ UNCHANGED <<queue, taken, batchLen, drainTimer, queueClosed, closed, batches,
                     callVars, closerPC>>
  BY DEF WorkerWrites, WorkerKeeps
<1>2. taken \in Seq(Entry) /\ batchLen \in Nat \ {0} /\ taken # <<>>
  BY <1>1 DEF TypeInv, TypeOK, WorkerInv
<1>3. /\ owner = Nobody /\ owner' = Worker /\ step' \in {"append", "flush"}
      /\ pending' = batchLen /\ closing' = closing
      /\ env' \in [faults : Nat, crashes : Nat, writes : Nat]
      /\ env'.writes = Len(hist'.order)
      /\ hist'.order # <<>> /\ Last(hist'.order) = taken
      /\ hist' \in Histories
  BY <1>1, <1>2, BeginEffect
<1>4. CallInv'
  BY <1>1, <1>3, Goroutines DEF TypeInv, CallInv, callVars
<1>5. TypeOK'
  BY <1>1, <1>3, Goroutines DEF TypeInv, TypeOK, callVars, WorkerPCs
<1>6. WorkerInv' /\ CloserInv'
  BY <1>1, <1>3, Goroutines DEF TypeInv, WorkerInv, CloserInv, WorkerGone
<1>7. WriteInv'
  BY <1>1, <1>2, <1>3 DEF WriteInv, File!RotateSteps
<1> QED BY <1>4, <1>5, <1>6, <1>7 DEF TypeInv

-----------------------------------------------------------------------------
(* The steps of a write                                                    *)

(* Each one ends the call, with or without an error, or goes on with it.   *)
LEMMA SinkEffect ==
  ASSUME TypeInv, SinkStep
  PROVE  /\ owner \in Producers \cup {Worker} /\ step # "idle"
         /\ closing' = closing /\ UNCHANGED <<queueVars, closerPC>>
         /\ env' \in [faults : Nat, crashes : Nat, writes : Nat]
         /\ env'.writes = env.writes
         /\ \/ step' = "idle" /\ pending' = 0 /\ \E ok \in BOOLEAN : EndWrite(ok)
            \/ /\ step' \in {"append"} \cup File!RotateSteps /\ pending' = pending
               /\ UNCHANGED <<owner, callVars, workerVars, hist>>
<1>1. /\ owner \in Producers \cup {Worker} /\ UNCHANGED <<queueVars, closerPC>>
      /\ env \in [faults : Nat, crashes : Nat, writes : Nat]
      /\ step # "idle"
  BY Goroutines DEF SinkStep, TypeInv, WriteInv, TypeOK
<1>2. ASSUME NEW kind, File!Fault(kind)
      PROVE  /\ env' \in [faults : Nat, crashes : Nat, writes : Nat]
             /\ env'.writes = env.writes
  BY <1>1, <1>2 DEF File!Fault
<1>3. env' = env \/ \E kind \in File!Kinds : File!Fault(kind)
  BY DEF SinkStep, File!AppendOK, File!AppendFails, File!AppendRefused, File!Rotate,
         File!FlushOK, File!FlushFails, File!Sync, File!CloseCurrent, File!Rename,
         File!RenameFails, File!Reopen, File!Cleanup, File!OpenNew, File!Kinds
<1>4. \/ step' = "idle" /\ pending' = 0 /\ closing' = closing
      \/ /\ step' \in {"append"} \cup File!RotateSteps /\ pending' = pending
         /\ closing' = closing
  <2>1. CASE File!AppendOK \/ File!AppendFails \/ File!AppendRefused
    BY <2>1 DEF File!AppendOK, File!AppendFails, File!AppendRefused, File!Return
  <2>2. CASE File!Rotate
    BY <2>2 DEF File!Rotate, File!FlushOK, File!FlushFails, File!Sync, File!CloseCurrent,
                File!Rename, File!RenameFails, File!Reopen, File!Cleanup, File!OpenNew,
                File!Return, File!Goto, File!RotateSteps
  <2> QED BY <2>1, <2>2 DEF SinkStep
<1>5. \/ step' = "idle" /\ \E ok \in BOOLEAN : EndWrite(ok)
      \/ step' # "idle" /\ UNCHANGED <<owner, callVars, workerVars, hist>>
  <2>1. File!AppendOK => step' = "idle" BY DEF File!AppendOK, File!Return
  <2> QED BY <2>1 DEF SinkStep
<1> QED BY <1>1, <1>2, <1>3, <1>4, <1>5 DEF File!RotateSteps

(* A write that ends leaves its entries among the written or the failed.   *)
LEMMA EndEffect ==
  ASSUME TypeInv, NEW ok \in BOOLEAN, EndWrite(ok), owner \in Producers \cup {Worker}
  PROVE  /\ owner' = Nobody /\ hist'.order = hist.order
         /\ hist' \in Histories
<1>1. /\ hist.order \in Seq(Seq(Entry)) /\ hist.order # <<>>
      /\ hist \in Histories
  BY DEF TypeInv, TypeOK, WriteInv, Histories
<1>2. Last(hist.order) \in Seq(Entry)
  BY <1>1 DEF Last
<1>3. PICK entries \in SUBSET Entry : entries = Range(Last(hist.order))
  <2>1. PICK s \in Seq(Entry) : s = Last(hist.order) BY <1>2
  <2>2. Range(s) \subseteq Entry BY DEF Range
  <2> QED BY <2>1, <2>2
<1>4. /\ owner' = Nobody
      /\ hist' = [hist EXCEPT !.written = IF ok THEN @ \cup entries ELSE @,
                              !.failed = IF ok THEN @ ELSE @ \cup entries]
  BY <1>3 DEF EndWrite
<1>5. CASE ok
  <2>1. hist' = [hist EXCEPT !.written = @ \cup entries, !.failed = @] BY <1>4, <1>5
  <2> QED BY <1>1, <1>4, <2>1 DEF Histories
<1>6. CASE ~ok
  <2>1. hist' = [hist EXCEPT !.written = @, !.failed = @ \cup entries] BY <1>4, <1>6
  <2> QED BY <1>1, <1>4, <2>1 DEF Histories
<1> QED BY <1>5, <1>6

LEMMA EndWriteTypes ==
  ASSUME TypeInv, SinkStep, step' = "idle", NEW ok \in BOOLEAN, EndWrite(ok)
  PROVE  TypeInv'
<1>1. /\ owner \in Producers \cup {Worker} /\ closing' = closing
      /\ UNCHANGED <<queueVars, closerPC>>
      /\ env' \in [faults : Nat, crashes : Nat, writes : Nat]
      /\ env'.writes = env.writes /\ pending' = 0
  BY SinkEffect DEF File!RotateSteps
<1>2. /\ owner' = Nobody /\ hist'.order = hist.order
      /\ hist' \in Histories
  BY <1>1, EndEffect
<1>3. WriteInv'
  BY <1>1, <1>2, Goroutines DEF TypeInv, WriteInv
<1>4. CASE owner = Worker
  <2>1. /\ workerPC' = IF ok THEN ResumeLoop ELSE "failed"
        /\ taken' = <<>> /\ batchLen' = 0 /\ UNCHANGED <<drainTimer, callVars>>
    BY <1>4 DEF EndWrite
  <2>2. workerPC = "writing" BY <1>4 DEF TypeInv, WorkerInv
  <2>3. /\ workerPC' \in {"select", "batch", "drain", "failed"}
        /\ workerPC' = "drain" => drainTimer # "off"
        /\ drainTimer # "off" => workerPC' \in {"drain", "failed"}
    BY <2>1 DEF ResumeLoop
  <2>4. closerPC \notin {"closeQueue", "closeFile", "closing", "done"}
    BY <2>2 DEF TypeInv, CloserInv, WorkerGone
  <2>5. TypeOK'
    BY <1>1, <1>2, <2>1, <2>3, step' = "idle" DEF TypeInv, TypeOK, queueVars, callVars, WorkerPCs
  <2>6. CallInv'
    BY <1>2, <1>4, <2>1, Goroutines DEF TypeInv, CallInv, callVars
  <2>7. drainTimer # "off" => closed BY DEF TypeInv, WorkerInv
  <2>8. WorkerInv'
    BY <1>1, <1>2, <2>1, <2>3, <2>7, Goroutines DEF TypeInv, WorkerInv, queueVars
  <2>9. CloserInv'
    BY <1>1, <1>2, <1>4, <2>4, Goroutines DEF TypeInv, CloserInv, queueVars
  <2> QED BY <1>3, <2>5, <2>6, <2>8, <2>9 DEF TypeInv
<1>5. CASE owner \in Producers
  <2>1. Return(owner) /\ UNCHANGED <<logged, workerVars>>
    BY <1>5, Goroutines DEF EndWrite
  <2>2. PICK p \in Producers : p = owner BY <1>5
  <2>3. /\ pc' = [pc EXCEPT ![p] = "idle"] /\ held' = [held EXCEPT ![p] = NoEntry]
        /\ p # Worker /\ p # Closer /\ p # Nobody
    BY <2>1, <2>2, Goroutines DEF Return
  <2>4. pc' \in [Producers -> ProducerPCs] /\ held' \in [Producers -> Entry \cup {NoEntry}]
    BY <2>3 DEF TypeInv, TypeOK, ProducerPCs
  <2>5. CallInv'
    BY <1>2, <2>1, <2>2, <2>3, Goroutines DEF TypeInv, TypeOK, CallInv
  <2>6. TypeOK'
    BY <1>1, <1>2, <2>1, <2>4, step' = "idle" DEF TypeInv, TypeOK, queueVars, workerVars
  <2>7. WorkerInv' /\ CloserInv'
    BY <1>1, <1>2, <2>1, <2>2, <2>3, Goroutines
       DEF TypeInv, WorkerInv, CloserInv, WorkerGone, queueVars, workerVars
  <2> QED BY <1>3, <2>5, <2>6, <2>7 DEF TypeInv
<1> QED BY <1>1, <1>4, <1>5

LEMMA SinkStepTypes ==
  ASSUME TypeInv, SinkStep PROVE TypeInv'
<1>1. CASE step' = "idle"
  BY <1>1, SinkEffect, EndWriteTypes DEF File!RotateSteps
<1>2. CASE step' # "idle"
  <2>1. /\ owner \in Producers \cup {Worker} /\ step # "idle" /\ closing' = closing
        /\ step' \in {"append"} \cup File!RotateSteps /\ pending' = pending
        /\ UNCHANGED <<queueVars, closerPC, owner, callVars, workerVars, hist>>
        /\ env' \in [faults : Nat, crashes : Nat, writes : Nat]
        /\ env'.writes = env.writes
    BY <1>2, SinkEffect
  <2>2. TypeOK' /\ CallInv'
    BY <1>2, <2>1 DEF TypeInv, TypeOK, CallInv, queueVars, callVars, workerVars
  <2>3. WorkerInv' /\ WriteInv'
    BY <2>1 DEF TypeInv, WorkerInv, WriteInv, queueVars, callVars, workerVars
  <2>4. CloserInv'
    BY <2>1, Goroutines DEF TypeInv, CloserInv, WorkerGone, queueVars, workerVars
  <2> QED BY <2>2, <2>3, <2>4 DEF TypeInv
<1> QED BY <1>1, <1>2

-----------------------------------------------------------------------------
(* The steps of the worker                                                 *)

LEMMA WorkerFrame ==
  ASSUME TypeInv,
         UNCHANGED <<fileVars, owner, queueClosed, closed, batches, callVars, closerPC, hist>>,
         workerPC # "writing" \/ taken' = taken, ~WorkerGone \/ workerPC' = workerPC
  PROVE  CallInv' /\ WriteInv' /\ CloserInv'
<1>1. CallInv' BY DEF TypeInv, CallInv, callVars
<1>2. WriteInv'
  <2>1. owner = Worker => taken' = taken BY DEF TypeInv, WorkerInv
  <2> QED BY <2>1 DEF TypeInv, WriteInv, fileVars, callVars
<1>3. CloserInv' BY DEF TypeInv, CloserInv, WorkerGone, fileVars
<1> QED BY <1>1, <1>2, <1>3

LEMMA ReceiveTypes ==
  ASSUME TypeInv, NEW from \in {"select", "batch", "drain"}, Receive(from) PROVE TypeInv'
<1>1. /\ UNCHANGED <<fileVars, owner, queueClosed, closed, batches, callVars, closerPC,
                     drainTimer, hist>>
      /\ workerPC = from /\ queue # <<>> /\ queue' = Tail(queue)
      /\ taken' = <<Head(queue)>> /\ batchLen' = Head(queue).size
      /\ workerPC' = IF from = "select" /\ batches THEN "collect" ELSE "write"
  BY DEF Receive, WorkerKeeps
<1>2. PICK q \in Seq(Entry) : q = queue BY DEF TypeInv, TypeOK
<1>3. /\ Head(q) \in Entry /\ Tail(q) \in Seq(Entry) /\ Len(Tail(q)) = Len(q) - 1
      /\ Len(q) \in Nat
  BY <1>1, <1>2, QueueTail
<1>4. PICK e \in Entry : e = Head(q) BY <1>3
<1>5. e.size \in Nat \ {0} /\ <<e>> \in Seq(Entry) /\ <<e>> # <<>>
  BY EntrySize
<1>6. taken' = <<e>> /\ batchLen' = e.size /\ queue' \in Seq(Entry) /\ Len(queue') <= Capacity
  BY <1>1, <1>2, <1>3, <1>4, QueueAssumption DEF TypeInv, TypeOK
<1>7. workerPC' \in {"collect", "write"} /\ (drainTimer # "off" => workerPC' = "write")
  BY <1>1 DEF TypeInv, WorkerInv
<1>8. TypeOK'
  BY <1>1, <1>5, <1>6, <1>7 DEF TypeInv, TypeOK, fileVars, callVars, WorkerPCs
<1>9. WorkerInv'
  BY <1>1, <1>5, <1>6, <1>7 DEF TypeInv, WorkerInv
<1>10. CallInv' /\ WriteInv' /\ CloserInv'
  BY <1>1, WorkerFrame DEF WorkerGone
<1> QED BY <1>8, <1>9, <1>10 DEF TypeInv

LEMMA CollectTypes ==
  ASSUME TypeInv, Collect PROVE TypeInv'
<1>1. /\ UNCHANGED <<fileVars, owner, queueClosed, closed, batches, callVars, closerPC,
                     workerPC, drainTimer, hist>>
      /\ workerPC = "collect" /\ queue # <<>> /\ queue' = Tail(queue)
      /\ taken' = Append(taken, Head(queue)) /\ batchLen' = batchLen + Head(queue).size
  BY DEF Collect, WorkerKeeps
<1>2. PICK q \in Seq(Entry) : q = queue BY DEF TypeInv, TypeOK
<1>3. /\ Head(q) \in Entry /\ Tail(q) \in Seq(Entry) /\ Len(Tail(q)) = Len(q) - 1
      /\ Len(q) \in Nat
  BY <1>1, <1>2, QueueTail
<1>4. PICK e \in Entry : e = Head(q) BY <1>3
<1>5. PICK b \in Nat : b = batchLen BY DEF TypeInv, TypeOK
<1>6. e.size \in Nat \ {0} /\ b + e.size \in Nat \ {0}
  BY EntrySize
<1>7. Append(taken, e) \in Seq(Entry) /\ Append(taken, e) # <<>>
  <2>1. PICK t \in Seq(Entry) : t = taken BY DEF TypeInv, TypeOK
  <2> QED BY <2>1, QueueAppend
<1>8. /\ taken' \in Seq(Entry) /\ taken' # <<>> /\ batchLen' \in Nat \ {0}
      /\ queue' \in Seq(Entry) /\ Len(queue') <= Capacity
  BY <1>1, <1>2, <1>3, <1>4, <1>5, <1>6, <1>7, QueueAssumption DEF TypeInv, TypeOK
<1>9. TypeOK'
  BY <1>1, <1>8 DEF TypeInv, TypeOK, fileVars, callVars
<1>10. WorkerInv'
  BY <1>1, <1>8 DEF TypeInv, WorkerInv
<1>11. CallInv' /\ WriteInv' /\ CloserInv'
  BY <1>1, WorkerFrame
<1> QED BY <1>9, <1>10, <1>11 DEF TypeInv

LEMMA QuietTypes ==
  ASSUME TypeInv, QueueEmpty \/ SeeClosed \/ DrainEnds \/ DeadlineExpires PROVE TypeInv'
<1>1. /\ UNCHANGED <<fileVars, owner, queueClosed, closed, batches, callVars, closerPC,
                     queue, taken, batchLen, hist>>
      /\ ~WorkerGone
  BY DEF QueueEmpty, SeeClosed, DrainEnds, DeadlineExpires, WorkerKeeps, WorkerGone
<1>2. /\ workerPC' \in WorkerPCs /\ drainTimer' \in {"off", "running", "expired"}
      /\ WorkerInv'
  <2>1. CASE QueueEmpty
    BY <1>1, <2>1 DEF QueueEmpty, TypeInv, TypeOK, WorkerInv, WorkerKeeps, WorkerPCs
  <2>2. CASE SeeClosed
    BY <1>1, <2>2 DEF SeeClosed, TypeInv, TypeOK, WorkerInv, WorkerKeeps, WorkerPCs
  <2>3. CASE DrainEnds
    BY <1>1, <2>3 DEF DrainEnds, TypeInv, TypeOK, WorkerInv, WorkerKeeps, WorkerPCs
  <2>4. CASE DeadlineExpires
    BY <1>1, <2>4 DEF DeadlineExpires, TypeInv, TypeOK, WorkerInv, WorkerKeeps, WorkerPCs
  <2> QED BY <2>1, <2>2, <2>3, <2>4
<1>3. TypeOK'
  BY <1>1, <1>2 DEF TypeInv, TypeOK, fileVars, callVars
<1>4. CallInv' /\ WriteInv' /\ CloserInv'
  BY <1>1, WorkerFrame
<1> QED BY <1>2, <1>3, <1>4 DEF TypeInv

LEMMA WorkerTypes ==
  ASSUME TypeInv, WorkerStep \/ DeadlineExpires PROVE TypeInv'
BY ReceiveTypes, CollectTypes, QuietTypes, WorkerWritesTypes DEF WorkerStep

-----------------------------------------------------------------------------
(* The steps of Close                                                      *)

LEMMA CloseSignalTypes ==
  ASSUME TypeInv, CloseSignal PROVE TypeInv'
<1>1. /\ UNCHANGED <<fileVars, owner, queueClosed, queue, batches, callVars, workerVars>>
      /\ closed' = TRUE /\ closerPC = "idle" /\ closerPC' = "await"
      /\ hist' = [hist EXCEPT !.atClose = Range(queue) \cup Range(taken)]
  BY DEF CloseSignal, CloseKeeps
<1>2. PICK accepted \in SUBSET Entry : accepted = Range(queue) \cup Range(taken)
  <2>1. PICK q \in Seq(Entry), t \in Seq(Entry) : q = queue /\ t = taken
    BY DEF TypeInv, TypeOK
  <2>2. Range(q) \subseteq Entry /\ Range(t) \subseteq Entry BY DEF Range
  <2> QED BY <2>1, <2>2
<1>3. /\ hist' = [hist EXCEPT !.atClose = accepted]
      /\ hist \in Histories
  BY <1>1, <1>2 DEF TypeInv, TypeOK
<1>4. /\ hist'.order = hist.order
      /\ hist' \in Histories
  BY <1>3 DEF Histories
<1>5. TypeOK'
  BY <1>1, <1>4 DEF TypeInv, TypeOK, fileVars, callVars, workerVars, CloserPCs
<1>6. CallInv' /\ WorkerInv'
  BY <1>1 DEF TypeInv, CallInv, WorkerInv, callVars, workerVars
<1>7. WriteInv' /\ CloserInv'
  BY <1>1, <1>4 DEF TypeInv, WriteInv, CloserInv, WorkerGone, fileVars, callVars, workerVars
<1> QED BY <1>5, <1>6, <1>7 DEF TypeInv

LEMMA CloseWaitTypes ==
  ASSUME TypeInv, CloseAwait \/ CloseQueue PROVE TypeInv'
<1>1. /\ UNCHANGED <<fileVars, owner, queue, batches, callVars, workerVars, closed, hist>>
      /\ queueClosed' \in BOOLEAN /\ closerPC' \in {"closeQueue", "closeFile"}
      /\ closerPC \in {"await", "closeQueue"} /\ WorkerGone
  BY DEF CloseAwait, CloseQueue, CloseKeeps, TypeInv, TypeOK, CloserInv
<1>2. TypeOK'
  BY <1>1 DEF TypeInv, TypeOK, fileVars, callVars, workerVars, CloserPCs
<1>3. CallInv' /\ WorkerInv'
  BY <1>1 DEF TypeInv, CallInv, WorkerInv, callVars, workerVars
<1>4. WriteInv' /\ CloserInv'
  BY <1>1 DEF TypeInv, WriteInv, CloserInv, WorkerGone, fileVars, callVars, workerVars
<1> QED BY <1>2, <1>3, <1>4 DEF TypeInv

LEMMA BeginCloseTypes ==
  ASSUME TypeInv, BeginCloseFile PROVE TypeInv'
<1>1. /\ UNCHANGED <<queue, batches, callVars, workerVars, queueClosed, closed, hist>>
      /\ closerPC = "closeFile" /\ closerPC' = "closing"
      /\ owner = Nobody /\ owner' = Closer
      /\ step' = "finalFlush" /\ UNCHANGED <<pending, env>> /\ closing' = "called"
  BY DEF BeginCloseFile, CloseKeeps, File!StartClose
<1>2. TypeOK'
  BY <1>1, Goroutines DEF TypeInv, TypeOK, callVars, workerVars, CloserPCs
<1>3. CallInv' /\ WorkerInv'
  BY <1>1, Goroutines DEF TypeInv, CallInv, WorkerInv, callVars, workerVars
<1>4. WriteInv' /\ CloserInv'
  BY <1>1, Goroutines
     DEF TypeInv, WriteInv, CloserInv, WorkerGone, callVars, workerVars, File!CloseSteps
<1> QED BY <1>2, <1>3, <1>4 DEF TypeInv

(* closeFile goes on or ends.                                              *)
LEMMA CloseEffect ==
  ASSUME TypeInv, CloseFile
  PROVE  /\ UNCHANGED <<queue, batches, callVars, workerVars, queueClosed, closed, hist>>
         /\ owner = Closer /\ pending' \in Nat /\ closerPC = "closing"
         /\ env' \in [faults : Nat, crashes : Nat, writes : Nat]
         /\ env'.writes = env.writes /\ step \in File!CloseSteps
         /\ \/ step' = "idle" /\ owner' = Nobody /\ closerPC' = "done"
            \/ /\ step' \in File!CloseSteps /\ UNCHANGED <<owner, closerPC>>
               /\ closing' = closing
<1>1. /\ env \in [faults : Nat, crashes : Nat, writes : Nat] /\ pending \in Nat
      /\ UNCHANGED <<queue, batches, callVars, workerVars, queueClosed, closed, hist>>
      /\ owner = Closer /\ closerPC = "closing" /\ step \in File!CloseSteps
  BY DEF CloseFile, TypeInv, WriteInv, CloserInv, CloseKeeps
<1>2. ASSUME NEW kind, File!Fault(kind)
      PROVE  /\ env' \in [faults : Nat, crashes : Nat, writes : Nat]
             /\ env'.writes = env.writes
  BY <1>1, <1>2 DEF File!Fault
<1>3. env' = env \/ \E kind \in File!Kinds : File!Fault(kind)
  BY DEF CloseFile, File!CloseFile, File!FlushOK, File!FlushFails, File!Sync,
         File!FinalClose, File!Kinds
<1>4. /\ pending' \in Nat
      /\ \/ step' = "idle"
         \/ step' \in File!CloseSteps \ {"idle"} /\ closing' = closing
  <2>1. CASE File!FlushOK("finalFlush", "finalSync") \/ File!FlushFails("finalFlush")
    <3>1. File!Goto("finalSync") \/ File!Return BY <2>1 DEF File!FlushOK, File!FlushFails
    <3> QED BY <1>1, <3>1 DEF File!CloseSteps, File!Goto, File!Return
  <2>2. CASE File!Sync("finalSync", "finalClose") \/ File!FinalClose
    BY <1>1, <2>2 DEF File!Sync, File!FinalClose, File!CloseSteps, File!Goto, File!Return
  <2> QED BY <2>1, <2>2 DEF CloseFile, File!CloseFile
<1>5. IF step' = "idle" THEN owner' = Nobody /\ closerPC' = "done"
                        ELSE UNCHANGED <<owner, closerPC>>
  BY DEF CloseFile
<1> QED BY <1>1, <1>2, <1>3, <1>4, <1>5

LEMMA CloseFileTypes ==
  ASSUME TypeInv, CloseFile PROVE TypeInv'
<1>1. /\ UNCHANGED <<queue, batches, callVars, workerVars, queueClosed, closed, hist>>
      /\ owner = Closer /\ pending' \in Nat /\ closerPC = "closing"
      /\ env' \in [faults : Nat, crashes : Nat, writes : Nat]
      /\ env'.writes = env.writes /\ step \in File!CloseSteps
      /\ \/ step' = "idle" /\ owner' = Nobody /\ closerPC' = "done"
         \/ /\ step' \in File!CloseSteps /\ UNCHANGED <<owner, closerPC>>
            /\ closing' = closing
  BY CloseEffect
<1>2. TypeOK'
  BY <1>1, Goroutines
     DEF TypeInv, TypeOK, callVars, workerVars, CloserPCs, File!CloseSteps
<1>3. CallInv' /\ WorkerInv'
  BY <1>1, Goroutines DEF TypeInv, CallInv, WorkerInv, callVars, workerVars
<1>4. WriteInv'
  BY <1>1, Goroutines DEF TypeInv, WriteInv
<1>5. CloserInv'
  BY <1>1, Goroutines DEF TypeInv, CloserInv, WorkerGone, workerVars
<1> QED BY <1>2, <1>3, <1>4, <1>5 DEF TypeInv

LEMMA FrameTypes ==
  ASSUME TypeInv, Tick \/ UNCHANGED vars PROVE TypeInv'
<1>1. UNCHANGED <<step, pending, closing, env, owner, queueVars, callVars, workerVars, closerPC,
                  hist>>
  BY DEF Tick, File!Tick, vars, fileVars
<1> QED
  BY <1>1 DEF TypeInv, TypeOK, CallInv, WorkerInv, WriteInv, CloserInv, WorkerGone,
              queueVars, callVars, workerVars

LEMMA InitTypes == Init => TypeInv
<1> SUFFICES ASSUME Init PROVE TypeInv
  OBVIOUS
<1>1. /\ step = "idle" /\ pending = 0 /\ closing = "no"
      /\ env = [faults |-> 0, crashes |-> 0, writes |-> 0]
  BY DEF Init, File!Init
<1>2. /\ owner = Nobody /\ queue = <<>> /\ queueClosed = FALSE /\ closed = FALSE
      /\ batches \in Batching /\ workerPC = "select" /\ drainTimer = "off"
      /\ taken = <<>> /\ batchLen = 0 /\ closerPC = "idle"
      /\ pc = [p \in Producers |-> "idle"] /\ held = [p \in Producers |-> NoEntry]
      /\ logged = [p \in Producers |-> 0]
      /\ hist = [order |-> <<>>, bytes |-> <<>>, direct |-> {}, written |-> {},
                 failed |-> {}, discarded |-> {}, atClose |-> {}]
  BY DEF Init
<1>3. pc \in [Producers -> ProducerPCs] /\ held \in [Producers -> Entry \cup {NoEntry}]
  BY <1>2 DEF ProducerPCs
<1>4. logged \in [Producers -> 0 .. MaxLogs]
  BY <1>2, QueueAssumption
<1>5. /\ hist \in Histories
      /\ Len(hist.order) = 0
  BY <1>2 DEF Histories
<1>6. batches \in BOOLEAN /\ Len(queue) <= Capacity /\ queue \in Seq(Entry)
  BY <1>2, HandlerAssumption, QueueAssumption
<1>7. TypeOK
  BY <1>1, <1>2, <1>3, <1>4, <1>5, <1>6 DEF TypeOK, WorkerPCs, CloserPCs
<1>8. CallInv /\ WorkerInv
  BY <1>2, Goroutines DEF CallInv, WorkerInv
<1>9. WriteInv /\ CloserInv
  BY <1>1, <1>2, <1>5, Goroutines DEF WriteInv, CloserInv, WorkerGone
<1> QED BY <1>7, <1>8, <1>9 DEF TypeInv

LEMMA NextTypes == TypeInv /\ [Next]_vars => TypeInv'
<1> SUFFICES ASSUME TypeInv, [Next]_vars PROVE TypeInv'
  OBVIOUS
<1>1. CASE \E p \in Producers : \/ \E size \in Sizes : HandleLog(p, size)
                                \/ HandleStep(p)
  BY <1>1, HandleLogTypes, MoveTypes, CallerWritesTypes DEF HandleStep, CallMoves
<1>2. CASE SinkStep BY <1>2, SinkStepTypes
<1>3. CASE WorkerStep \/ DeadlineExpires BY <1>3, WorkerTypes
<1>4. CASE CloseStep
  BY <1>4, CloseSignalTypes, CloseWaitTypes, BeginCloseTypes, CloseFileTypes DEF CloseStep
<1>5. CASE Tick \/ UNCHANGED vars BY <1>5, FrameTypes
<1> QED BY <1>1, <1>2, <1>3, <1>4, <1>5 DEF Next

LEMMA TypeInvAlways == Spec => []TypeInv
BY InitTypes, NextTypes, PTL DEF Spec

(* TypeOK: every variable stays in its type, the queue within its capacity *)
(* and the sink at work exactly while somebody holds the mutex.            *)
THEOREM TypeCorrect == Spec => []TypeOK
<1>1. TypeInv => TypeOK BY DEF TypeInv
<1> QED BY <1>1, TypeInvAlways, PTL

-----------------------------------------------------------------------------
(* Where the entries are                                                   *)

InHand == {held[p] : p \in Producers} \ {NoEntry}

Place == {"held", "queue", "taken", "written", "failed", "discarded"}

At == [held |-> InHand, queue |-> Range(queue), taken |-> Range(taken),
       written |-> hist.written, failed |-> hist.failed,
       discarded |-> hist.discarded]

PlaceMap == [Place -> SUBSET Entry]

(* The entries R are somewhere else; one more entry is with its caller.    *)
Transfer(L, M, R, x, y) ==
  \A z \in Place : M[z] = IF z = x THEN L[z] \ R
                          ELSE IF z = y THEN L[z] \cup R ELSE L[z]
Arrival(L, M, e) ==
  \A z \in Place : M[z] = IF z = "held" THEN L[z] \cup {e} ELSE L[z]

Separate(L) == \A x, y \in Place : x # y => L[x] \cap L[y] = {}

(* An entry is as old as a call that was made, and older than the entry    *)
(* its producer holds.                                                     *)
AgeInv ==
  \A x \in Place : \A e \in At[x] :
    /\ e.seq <= logged[e.src]
    /\ x # "held" /\ held[e.src] # NoEntry => e.seq < logged[e.src]

(* Every call that was made has its entry somewhere.                       *)
BornInv ==
  \A p \in Producers : \A n \in 1 .. logged[p] :
    \E size \in Sizes : \E x \in Place :
      [src |-> p, seq |-> n, size |-> size] \in At[x]

FateInv == Separate(At) /\ AgeInv /\ BornInv

PlaceInv == FateInv /\ IsInjective(queue) /\ IsInjective(taken)

(* The moves of entries, those of a batch together.                        *)
Paths == {<<"held", "queue">>, <<"held", "discarded">>, <<"held", "written">>,
          <<"held", "failed">>, <<"queue", "taken">>, <<"queue", "discarded">>,
          <<"taken", "written">>, <<"taken", "failed">>}

EntriesMove(R, x, y) ==
  /\ R \subseteq At[x] /\ Transfer(At, At', R, x, y)
  /\ logged' = logged
  /\ \A p \in Producers :
       held'[p] = IF x = "held" /\ held[p] \in R THEN NoEntry ELSE held[p]

EntryBorn(p, e) ==
  /\ held[p] = NoEntry
  /\ e.src = p /\ e.seq = logged[p] + 1
  /\ Arrival(At, At', e)
  /\ logged' = [logged EXCEPT ![p] = @ + 1]
  /\ held' = [held EXCEPT ![p] = e]

LEMMA AtType ==
  ASSUME TypeInv
  PROVE  /\ At \in PlaceMap
         /\ At["held"] = InHand /\ At["queue"] = Range(queue) /\ At["taken"] = Range(taken)
         /\ At["written"] = hist.written /\ At["failed"] = hist.failed
         /\ At["discarded"] = hist.discarded
<1>1. InHand \subseteq Entry BY DEF TypeInv, TypeOK, InHand
<1>2. Range(queue) \subseteq Entry /\ Range(taken) \subseteq Entry
  <2>1. PICK q \in Seq(Entry), t \in Seq(Entry) : q = queue /\ t = taken
    BY DEF TypeInv, TypeOK
  <2>2. Range(q) \subseteq Entry /\ Range(t) \subseteq Entry BY DEF Range
  <2> QED BY <2>1, <2>2
<1>3. /\ hist.written \subseteq Entry /\ hist.failed \subseteq Entry
      /\ hist.discarded \subseteq Entry
  BY DEF TypeInv, TypeOK, Histories
<1> QED BY <1>1, <1>2, <1>3 DEF At, Place, PlaceMap

LEMMA AtFields ==
  /\ At["held"] = InHand /\ At["queue"] = Range(queue) /\ At["taken"] = Range(taken)
  /\ At["written"] = hist.written /\ At["failed"] = hist.failed
  /\ At["discarded"] = hist.discarded
  /\ At'["held"] = InHand' /\ At'["queue"] = Range(queue') /\ At'["taken"] = Range(taken')
  /\ At'["written"] = hist'.written /\ At'["failed"] = hist'.failed
  /\ At'["discarded"] = hist'.discarded
BY DEF At

LEMMA MoveWhere ==
  ASSUME NEW L \in PlaceMap, NEW x \in Place, NEW y \in Place,
         x # y, NEW R, R \subseteq L[x], Separate(L),
         NEW M, Transfer(L, M, R, x, y)
  PROVE  /\ Separate(M)
         /\ \A z \in Place : \A r :
              r \in M[z] <=> (r \notin R /\ r \in L[z]) \/ (r \in R /\ z = y)
<1>1. \A z \in Place : z # x => R \cap L[z] = {}
  BY DEF Separate
<1>2. \A z \in Place : M[z] = IF z = x THEN L[z] \ R
                              ELSE IF z = y THEN L[z] \cup R ELSE L[z]
  BY DEF Transfer, PlaceMap
<1>3. \A z \in Place : \A r :
        r \in M[z] <=> (r \notin R /\ r \in L[z]) \/ (r \in R /\ z = y)
  BY <1>1, <1>2
<1>4. ASSUME NEW z \in Place, NEW w \in Place, z # w
      PROVE  M[z] \cap M[w] = {}
  BY <1>3, <1>4 DEF Separate
<1> QED BY <1>3, <1>4 DEF Separate

LEMMA BornWhere ==
  ASSUME NEW L \in PlaceMap, NEW e, Separate(L),
         \A z \in Place : e \notin L[z],
         NEW M, Arrival(L, M, e)
  PROVE  /\ Separate(M)
         /\ \A z \in Place : \A r :
              r \in M[z] <=> r \in L[z] \/ (r = e /\ z = "held")
<1>1. \A z \in Place : M[z] = IF z = "held" THEN L[z] \cup {e} ELSE L[z]
  BY DEF Arrival, PlaceMap
<1>2. \A z \in Place : \A r :
        r \in M[z] <=> r \in L[z] \/ (r = e /\ z = "held")
  BY <1>1
<1>3. ASSUME NEW z \in Place, NEW w \in Place, z # w
      PROVE  M[z] \cap M[w] = {}
  BY <1>2, <1>3 DEF Separate
<1> QED BY <1>2, <1>3 DEF Separate

LEMMA PathPlaces ==
  ASSUME NEW x, NEW y, <<x, y>> \in Paths
  PROVE  x \in Place /\ y \in Place /\ x # y /\ y # "held"
BY DEF Paths, Place

LEMMA MoveKeepsFate ==
  ASSUME TypeInv, FateInv, NEW x, NEW y, <<x, y>> \in Paths,
         NEW R, EntriesMove(R, x, y)
  PROVE  FateInv'
<1>1. x \in Place /\ y \in Place /\ x # y /\ y # "held"
  BY PathPlaces
<1>2. At \in PlaceMap /\ Separate(At)
  BY AtType DEF FateInv
<1>3. /\ Separate(At')
      /\ \A z \in Place : \A r :
           r \in At'[z] <=> (r \notin R /\ r \in At[z]) \/ (r \in R /\ z = y)
  <2>1. R \subseteq At[x] /\ Transfer(At, At', R, x, y)
    BY DEF EntriesMove
  <2>L. PICK L : L = At
    OBVIOUS
  <2>M. PICK M : M = At'
    OBVIOUS
  <2>2. /\ L \in PlaceMap /\ Separate(L) /\ R \subseteq L[x]
        /\ Transfer(L, M, R, x, y)
    BY <1>2, <2>1, <2>L, <2>M
  <2>3. /\ Separate(M)
        /\ \A z \in Place : \A r :
             r \in M[z] <=> (r \notin R /\ r \in L[z]) \/ (r \in R /\ z = y)
    BY <1>1, <2>2, MoveWhere
  <2> QED BY <2>3, <2>L, <2>M
<1>4. /\ logged' = logged
      /\ \A p \in Producers :
           held'[p] = IF x = "held" /\ held[p] \in R THEN NoEntry ELSE held[p]
  BY DEF EntriesMove
<1>5. Separate(At)'
  BY <1>3 DEF Separate
<1>6. \A z \in Place : \A r \in At[z] : r \in Entry /\ r.src \in Producers
  BY <1>2 DEF PlaceMap, Entry
<1>7. AgeInv'
  <2> SUFFICES ASSUME NEW z \in Place, NEW r \in At'[z]
               PROVE  /\ r.seq <= logged[r.src]
                      /\ z # "held" /\ held'[r.src] # NoEntry => r.seq < logged[r.src]
    BY <1>4 DEF AgeInv
  <2>1. CASE r \notin R /\ r \in At[z]
    <3>1. r.src \in Producers BY <1>6, <2>1
    <3> QED BY <1>4, <2>1, <3>1 DEF AgeInv, FateInv
  <2>2. CASE r \in R /\ z = y
    <3>1. r \in At[x] /\ r.src \in Producers
      BY <1>1, <1>6, <2>2 DEF EntriesMove
    <3>2. CASE x = "held"
      <4>1. r \in InHand BY <3>1, <3>2, AtType
      <4>2. held[r.src] = r BY <4>1 DEF InHand, TypeInv, CallInv
      <4>3. held'[r.src] = NoEntry BY <1>4, <2>2, <3>1, <3>2, <4>2
      <4>4. r.seq <= logged[r.src] BY <1>1, <3>1 DEF AgeInv, FateInv
      <4> QED BY <4>3, <4>4
    <3>3. CASE x # "held"
      BY <1>1, <1>4, <3>1, <3>3 DEF AgeInv, FateInv
    <3> QED BY <3>2, <3>3
  <2> QED BY <1>3, <2>1, <2>2
<1>8. BornInv'
  <2> SUFFICES ASSUME NEW p \in Producers, NEW n \in 1 .. logged[p]
               PROVE  \E size \in Sizes : \E z \in Place :
                        [src |-> p, seq |-> n, size |-> size] \in At'[z]
    BY <1>4 DEF BornInv
  <2>1. PICK size \in Sizes : \E z \in Place :
               [src |-> p, seq |-> n, size |-> size] \in At[z]
    BY DEF BornInv, FateInv
  <2>2. \E z \in Place : [src |-> p, seq |-> n, size |-> size] \in At'[z]
    BY <1>1, <1>3, <2>1
  <2> QED BY <2>2
<1> QED BY <1>5, <1>7, <1>8 DEF FateInv

LEMMA BirthKeepsFate ==
  ASSUME TypeInv, FateInv, NEW p \in Producers, NEW e \in Entry, EntryBorn(p, e)
  PROVE  FateInv'
<1>1. At \in PlaceMap /\ Separate(At)
  BY AtType DEF FateInv
<1>2. /\ held \in [Producers -> Entry \cup {NoEntry}]
      /\ logged \in [Producers -> 0 .. MaxLogs] /\ e # NoEntry
      /\ \A q \in Producers : logged[q] \in Nat
  BY NoEntryAssumption, QueueAssumption DEF TypeInv, TypeOK
<1>3. \A z \in Place : e \notin At[z]
  BY <1>2 DEF EntryBorn, FateInv, AgeInv
<1>4. /\ Separate(At')
      /\ \A z \in Place : \A r :
           r \in At'[z] <=> r \in At[z] \/ (r = e /\ z = "held")
  <2>1. Arrival(At, At', e)
    BY DEF EntryBorn
  <2>L. PICK L : L = At
    OBVIOUS
  <2>M. PICK M : M = At'
    OBVIOUS
  <2>2. /\ L \in PlaceMap /\ Separate(L)
        /\ \A z \in Place : e \notin L[z]
        /\ Arrival(L, M, e)
    BY <1>1, <1>3, <2>1, <2>L, <2>M
  <2>3. /\ Separate(M)
        /\ \A z \in Place : \A r :
             r \in M[z] <=> r \in L[z] \/ (r = e /\ z = "held")
    BY <2>2, BornWhere
  <2> QED BY <2>3, <2>L, <2>M
<1>5. \A q \in Producers : /\ held'[q] = IF q = p THEN e ELSE held[q]
                           /\ logged'[q] = IF q = p THEN logged[q] + 1 ELSE logged[q]
  BY <1>2 DEF EntryBorn
<1>6. e.src = p /\ e.seq = logged'[p] /\ held[p] = NoEntry
  BY <1>5 DEF EntryBorn
<1>7. Separate(At)'
  BY <1>4 DEF Separate
<1>8. AgeInv'
  <2> SUFFICES ASSUME NEW z \in Place, NEW r \in At'[z]
               PROVE  /\ r.seq <= logged'[r.src]
                      /\ z # "held" /\ held'[r.src] # NoEntry => r.seq < logged'[r.src]
    BY DEF AgeInv
  <2>1. CASE r \in At[z]
    <3>1. r.src \in Producers /\ r.seq \in Nat
      BY <1>1, <2>1, EntrySize DEF PlaceMap
    <3>2. /\ r.seq <= logged[r.src]
          /\ z # "held" /\ held[r.src] # NoEntry => r.seq < logged[r.src]
      BY <2>1 DEF AgeInv, FateInv
    <3> QED BY <1>2, <1>5, <3>1, <3>2
  <2>2. CASE r = e /\ z = "held"
    BY <1>2, <1>5, <1>6, <2>2
  <2> QED BY <1>4, <2>1, <2>2
<1>9. BornInv'
  <2> SUFFICES ASSUME NEW q \in Producers, NEW n \in 1 .. logged'[q]
               PROVE  \E size \in Sizes : \E z \in Place :
                        [src |-> q, seq |-> n, size |-> size] \in At'[z]
    BY DEF BornInv
  <2>1. CASE q = p /\ n = logged'[p]
    <3>1. e = [src |-> q, seq |-> n, size |-> e.size] /\ e.size \in Sizes
      BY <1>6, <2>1 DEF Entry
    <3>2. e \in At'["held"] /\ "held" \in Place
      BY <1>4 DEF Place
    <3> QED BY <3>1, <3>2
  <2>2. CASE ~(q = p /\ n = logged'[p])
    <3>1. n \in 1 .. logged[q]
      BY <1>2, <1>5, <2>2
    <3>2. PICK size \in Sizes : \E z \in Place :
                 [src |-> q, seq |-> n, size |-> size] \in At[z]
      BY <3>1 DEF BornInv, FateInv
    <3>3. \E z \in Place : [src |-> q, seq |-> n, size |-> size] \in At'[z]
      BY <1>4, <3>2
    <3> QED BY <3>3
  <2> QED BY <2>1, <2>2
<1> QED BY <1>7, <1>8, <1>9 DEF FateInv

-----------------------------------------------------------------------------
(* The steps that move entries                                             *)

LEMMA AppendRange ==
  ASSUME NEW S, NEW q \in Seq(S), NEW e \in S
  PROVE  Range(Append(q, e)) = Range(q) \cup {e}
<1>1. Append(q, e) = q \o <<e>> BY AppendIsConcat
<1>2. Range(<<e>>) = {e} BY DEF Range
<1>3. Range(q \o <<e>>) = Range(q) \cup Range(<<e>>)
  BY RangeConcatenation, <<e>> \in Seq(S)
<1> QED BY <1>1, <1>2, <1>3

LEMMA AppendOnce ==
  ASSUME NEW S, NEW q \in Seq(S), NEW e \in S, IsInjective(q), e \notin Range(q)
  PROVE  IsInjective(Append(q, e))
<1>1. /\ Len(Append(q, e)) = Len(q) + 1 /\ Append(q, e) \in Seq(S)
      /\ \A i \in 1 .. Len(q) : Append(q, e)[i] = q[i] /\ q[i] # e
      /\ Append(q, e)[Len(q) + 1] = e
  BY AppendProperties DEF Range
<1> QED BY <1>1 DEF IsInjective

LEMMA TailRange ==
  ASSUME NEW S, NEW q \in Seq(S), q # <<>>, IsInjective(q)
  PROVE  /\ Head(q) \in Range(q)
         /\ Range(Tail(q)) = Range(q) \ {Head(q)}
         /\ IsInjective(Tail(q))
<1>1. /\ Tail(q) \in Seq(S) /\ Len(Tail(q)) = Len(q) - 1
      /\ \A i \in 1 .. Len(Tail(q)) : Tail(q)[i] = q[i + 1]
      /\ Head(q) = q[1] /\ Len(q) \in Nat \ {0}
  BY HeadTailProperties
<1>2. \A i, j \in 1 .. Len(q) : q[i] = q[j] => i = j
  BY DEF IsInjective
<1>3. Head(q) \in Range(q)
  BY <1>1 DEF Range
<1>4. IsInjective(Tail(q))
  BY <1>1, <1>2 DEF IsInjective
<1>5. ASSUME NEW r \in Range(Tail(q))
      PROVE  r \in Range(q) \ {Head(q)}
  <2>1. PICK i \in 1 .. Len(Tail(q)) : r = Tail(q)[i]
    BY <1>1 DEF Range
  <2>2. r = q[i + 1] /\ i + 1 \in 1 .. Len(q) /\ i + 1 # 1
    BY <1>1, <2>1
  <2> QED BY <1>1, <1>2, <2>2 DEF Range
<1>6. ASSUME NEW r \in Range(q) \ {Head(q)}
      PROVE  r \in Range(Tail(q))
  <2>1. PICK i \in 1 .. Len(q) : r = q[i]
    BY <1>6, RangeEquality
  <2>2. i # 1
    BY <1>1, <1>6, <2>1
  <2>3. i - 1 \in 1 .. Len(Tail(q)) /\ Tail(q)[i - 1] = r
    BY <1>1, <2>1, <2>2
  <2>4. Range(Tail(q)) = {Tail(q)[j] : j \in 1 .. Len(Tail(q))}
    <3>p. PICK rest : rest = Tail(q)
      OBVIOUS
    <3>1. rest \in Seq(S)
      BY <1>1, <3>p
    <3>2. Range(rest) = {rest[j] : j \in 1 .. Len(rest)}
      BY <3>1, RangeEquality
    <3> QED BY <3>p, <3>2
  <2> QED BY <2>3, <2>4
<1> QED BY <1>3, <1>4, <1>5, <1>6

(* A caller that returns gives its entry up.                               *)
LEMMA HandGives ==
  ASSUME TypeInv, Separate(At), NEW p \in Producers, held[p] # NoEntry, Return(p)
  PROVE  /\ held[p] \in Entry /\ InHand' = InHand \ {held[p]}
         /\ {held[p]} \subseteq At["held"]
         /\ \A z \in Place : z # "held" => held[p] \notin At[z]
         /\ \A q \in Producers : held'[q] = IF held[q] \in {held[p]} THEN NoEntry ELSE held[q]
<1>1. held \in [Producers -> Entry \cup {NoEntry}] /\ held' = [held EXCEPT ![p] = NoEntry]
  BY DEF TypeInv, TypeOK, Return
<1>2. \A q \in Producers : held[q] = held[p] => q = p
  BY DEF TypeInv, CallInv
<1>3. \A q \in Producers : held'[q] = IF q = p THEN NoEntry ELSE held[q]
  BY <1>1
<1>4. InHand' = InHand \ {held[p]}
  BY <1>2, <1>3 DEF InHand
<1>5. held[p] \in At["held"] /\ "held" \in Place
  BY AtType DEF InHand, Place
<1>6. \A z \in Place : z # "held" => held[p] \notin At[z]
  BY <1>5 DEF Separate
<1> QED BY <1>1, <1>2, <1>3, <1>4, <1>5, <1>6

LEMMA LogBears ==
  ASSUME TypeInv, PlaceInv, NEW p \in Producers, NEW size \in Sizes, HandleLog(p, size)
  PROVE  \E e \in Entry : EntryBorn(p, e)
<1>1. held[p] = NoEntry /\ held \in [Producers -> Entry \cup {NoEntry}]
  BY DEF HandleLog, TypeInv, TypeOK, CallInv
<1>2. PICK e : e = [src |-> p, seq |-> logged[p] + 1, size |-> size]
  OBVIOUS
<1>3. e \in Entry /\ e # NoEntry
  <2>1. logged[p] + 1 \in 1 .. MaxLogs
    BY QueueAssumption DEF HandleLog, TypeInv, TypeOK
  <2> QED BY <1>2, <2>1, NoEntryAssumption DEF Entry
<1>4. held' = [held EXCEPT ![p] = e] /\ logged' = [logged EXCEPT ![p] = @ + 1]
  BY <1>2 DEF HandleLog
<1>5. InHand' = InHand \cup {e}
  <2>1. \A q \in Producers : held'[q] = IF q = p THEN e ELSE held[q] BY <1>1, <1>4
  <2> QED BY <1>1, <1>3, <2>1 DEF InHand
<1>6. queue' = queue /\ taken' = taken /\ hist' = hist
  BY DEF HandleLog, queueVars, workerVars
<1>7. Arrival(At, At', e)
  BY <1>5, <1>6, AtFields DEF Arrival, Place
<1>8. e.src = p /\ e.seq = logged[p] + 1
  BY <1>2
<1> QED BY <1>1, <1>3, <1>4, <1>7, <1>8 DEF EntryBorn

LEMMA SendMoves ==
  ASSUME TypeInv, PlaceInv, NEW p \in Producers, Send(p)
  PROVE  EntriesMove({held[p]}, "held", "queue") /\ IsInjective(queue')
<1>1. /\ held[p] \in Entry /\ held[p] # NoEntry /\ queue \in Seq(Entry)
      /\ queue' = Append(queue, held[p]) /\ Return(p)
      /\ taken' = taken /\ hist' = hist /\ logged' = logged
  BY HeldEntry, NoEntryAssumption DEF Send, Enqueue, CallKeeps, workerVars, TypeInv, TypeOK
<1>2. /\ InHand' = InHand \ {held[p]} /\ {held[p]} \subseteq At["held"]
      /\ \A z \in Place : z # "held" => held[p] \notin At[z]
      /\ \A q \in Producers : held'[q] = IF held[q] \in {held[p]} THEN NoEntry ELSE held[q]
  BY <1>1, HandGives DEF PlaceInv, FateInv
<1>3. held[p] \notin Range(queue)
  BY <1>2, AtType DEF Place
<1>4. Range(queue') = Range(queue) \cup {held[p]}
  BY <1>1, AppendRange
<1>5. Transfer(At, At', {held[p]}, "held", "queue")
  <2>1. /\ InHand' = InHand \ {held[p]} /\ Range(queue') = Range(queue) \cup {held[p]}
        /\ Range(taken') = Range(taken) /\ hist' = hist
    BY <1>1, <1>2, <1>4
  <2> QED BY <2>1, AtFields DEF Transfer, Place
<1>6. IsInjective(queue')
  BY <1>1, <1>3, AppendOnce DEF PlaceInv
<1> QED BY <1>1, <1>2, <1>5, <1>6 DEF EntriesMove

LEMMA DropMoves ==
  ASSUME TypeInv, PlaceInv, NEW p \in Producers, Drop(p)
  PROVE  EntriesMove({held[p]}, "held", "discarded")
<1>1. /\ held[p] # NoEntry /\ Return(p)
      /\ taken' = taken /\ queue' = queue /\ logged' = logged
  BY HeldEntry, NoEntryAssumption DEF Drop, CallKeeps, workerVars
<1>2. /\ InHand' = InHand \ {held[p]} /\ {held[p]} \subseteq At["held"]
      /\ \A q \in Producers : held'[q] = IF held[q] \in {held[p]} THEN NoEntry ELSE held[q]
  BY <1>1, HandGives DEF PlaceInv, FateInv
<1>3. /\ hist'.discarded = hist.discarded \cup {held[p]}
      /\ hist'.written = hist.written /\ hist'.failed = hist.failed
  BY DEF Drop, TypeInv, TypeOK, Histories
<1>4. Transfer(At, At', {held[p]}, "held", "discarded")
  BY <1>1, <1>2, <1>3, AtFields DEF Transfer, Place
<1> QED BY <1>1, <1>2, <1>4 DEF EntriesMove

(* What leaves the queue is its head.                                      *)
LEMMA QueueGives ==
  ASSUME TypeInv, PlaceInv, queue # <<>>, queue' = Tail(queue)
  PROVE  /\ Head(queue) \in Entry /\ {Head(queue)} \subseteq At["queue"]
         /\ Range(queue') = Range(queue) \ {Head(queue)}
         /\ IsInjective(queue') /\ Head(queue) \notin Range(taken)
<1>1. queue \in Seq(Entry) /\ IsInjective(queue)
  BY DEF TypeInv, TypeOK, PlaceInv
<1>2. /\ Head(queue) \in Range(queue)
      /\ Range(Tail(queue)) = Range(queue) \ {Head(queue)}
      /\ IsInjective(Tail(queue))
  BY <1>1, TailRange
<1>3. Head(queue) \notin Range(taken)
  <2>1. "queue" \in Place /\ "taken" \in Place BY DEF Place
  <2> QED BY <1>2, <2>1, AtType DEF PlaceInv, FateInv, Separate
<1> QED BY <1>1, <1>2, <1>3, AtType, QueueTail

LEMMA EvictMoves ==
  ASSUME TypeInv, PlaceInv, NEW p \in Producers, Evict(p), queue # <<>>
  PROVE  EntriesMove({Head(queue)}, "queue", "discarded") /\ IsInjective(queue')
<1>1. /\ queue' = Tail(queue) /\ held' = held /\ logged' = logged /\ taken' = taken
      /\ hist' = [hist EXCEPT !.discarded = @ \cup {Head(queue)}]
  BY DEF Evict, Goto, CallKeeps, workerVars
<1>2. /\ {Head(queue)} \subseteq At["queue"] /\ IsInjective(queue')
      /\ Range(queue') = Range(queue) \ {Head(queue)}
  BY <1>1, QueueGives
<1>3. /\ hist'.discarded = hist.discarded \cup {Head(queue)}
      /\ hist'.written = hist.written /\ hist'.failed = hist.failed
  BY <1>1 DEF TypeInv, TypeOK, Histories
<1>4. InHand' = InHand BY <1>1 DEF InHand
<1>5. Transfer(At, At', {Head(queue)}, "queue", "discarded")
  <2>1. PICK e : e = Head(queue) OBVIOUS
  <2>2. /\ InHand' = InHand /\ Range(taken') = Range(taken)
        /\ Range(queue') = Range(queue) \ {e}
        /\ hist'.discarded = hist.discarded \cup {e}
        /\ hist'.written = hist.written /\ hist'.failed = hist.failed
    BY <1>1, <1>2, <1>3, <1>4, <2>1
  <2>3. Transfer(At, At', {e}, "queue", "discarded")
    BY <2>2, AtFields DEF Transfer, Place
  <2> QED BY <2>1, <2>3
<1> QED BY <1>1, <1>2, <1>5 DEF EntriesMove

(* The worker adds the head of the queue to what it writes next.           *)
WorkerTakes == /\ queue # <<>> /\ queue' = Tail(queue)
               /\ taken' = Append(taken, Head(queue))
               /\ UNCHANGED <<held, logged, hist>>

LEMMA TakeMoves ==
  ASSUME TypeInv, PlaceInv, WorkerTakes
  PROVE  /\ EntriesMove({Head(queue)}, "queue", "taken")
         /\ IsInjective(queue') /\ IsInjective(taken')
<1>1. /\ Head(queue) \in Entry /\ {Head(queue)} \subseteq At["queue"]
      /\ Range(queue') = Range(queue) \ {Head(queue)}
      /\ IsInjective(queue') /\ Head(queue) \notin Range(taken)
  BY QueueGives DEF WorkerTakes
<1>2. taken \in Seq(Entry) /\ IsInjective(taken)
  BY DEF TypeInv, TypeOK, PlaceInv
<1>3. Range(taken') = Range(taken) \cup {Head(queue)} /\ IsInjective(taken')
  BY <1>1, <1>2, AppendRange, AppendOnce DEF WorkerTakes
<1>4. held' = held /\ logged' = logged /\ hist' = hist /\ InHand' = InHand
  BY DEF WorkerTakes, InHand
<1>5. Transfer(At, At', {Head(queue)}, "queue", "taken")
  BY <1>1, <1>3, <1>4, AtFields DEF Transfer, Place
<1> QED BY <1>1, <1>3, <1>4, <1>5 DEF EntriesMove

LEMMA WorkerReceives ==
  ASSUME TypeInv, (\E from \in {"select", "batch", "drain"} : Receive(from)) \/ Collect
  PROVE  WorkerTakes
<1>1. ASSUME NEW from \in {"select", "batch", "drain"}, Receive(from)
      PROVE  WorkerTakes
  <2>1. taken = <<>> BY <1>1 DEF Receive, TypeInv, WorkerInv
  <2>2. PICK e : e = Head(queue) OBVIOUS
  <2>3. Append(<<>>, e) = <<e>> OBVIOUS
  <2> QED BY <1>1, <2>1, <2>2, <2>3 DEF Receive, WorkerKeeps, callVars, WorkerTakes
<1>2. CASE Collect
  BY <1>2 DEF Collect, WorkerKeeps, callVars, WorkerTakes
<1> QED BY <1>1, <1>2

LEMMA EndMoves ==
  ASSUME TypeInv, PlaceInv, owner \in Producers \cup {Worker}, NEW ok \in BOOLEAN,
         EndWrite(ok), queue' = queue
  PROVE  /\ EntriesMove(Range(Last(hist.order)),
                        IF owner = Worker THEN "taken" ELSE "held",
                        IF ok THEN "written" ELSE "failed")
         /\ IsInjective(taken')
<1> DEFINE R == Range(Last(hist.order))
<1>1. Last(hist.order) = IF owner = Worker THEN taken ELSE <<held[owner]>>
  BY DEF TypeInv, WriteInv
<1>2. /\ hist'.written = IF ok THEN hist.written \cup R ELSE hist.written
      /\ hist'.failed = IF ok THEN hist.failed ELSE hist.failed \cup R
      /\ hist'.discarded = hist.discarded
  BY DEF EndWrite, TypeInv, TypeOK, Histories
<1>3. CASE owner = Worker
  <2>1. taken' = <<>> /\ held' = held /\ logged' = logged
    BY <1>3 DEF EndWrite, callVars
  <2>2. R = Range(taken) BY <1>1, <1>3
  <2>3. Range(taken') = Range(taken) \ R /\ IsInjective(taken') /\ R \subseteq At["taken"]
    BY <2>1, <2>2, AtType DEF Range, IsInjective
  <2>4. InHand' = InHand BY <2>1 DEF InHand
  <2> HIDE DEF R
  <2>5. Transfer(At, At', R, "taken", IF ok THEN "written" ELSE "failed")
    BY <1>2, <2>2, <2>3, <2>4, queue' = queue, AtFields DEF Transfer, Place
  <2>6. EntriesMove(R, "taken", IF ok THEN "written" ELSE "failed")
    BY <2>1, <2>3, <2>5 DEF EntriesMove
  <2> QED BY <1>3, <2>3, <2>6 DEF R
<1>4. CASE owner # Worker
  <2>1. PICK p \in Producers : p = owner BY <1>4
  <2>2. Return(p) /\ taken' = taken /\ logged' = logged
    BY <1>4, <2>1 DEF EndWrite, workerVars
  <2>3. held[p] # NoEntry BY <2>1 DEF TypeInv, CallInv
  <2>4. R = {held[p]} BY <1>1, <1>4, <2>1 DEF Range
  <2>5. /\ InHand' = InHand \ {held[p]} /\ {held[p]} \subseteq At["held"]
        /\ \A q \in Producers : held'[q] = IF held[q] \in {held[p]} THEN NoEntry ELSE held[q]
    BY <2>2, <2>3, HandGives DEF PlaceInv, FateInv
  <2> HIDE DEF R
  <2>6. Transfer(At, At', R, "held", IF ok THEN "written" ELSE "failed")
    BY <1>2, <2>2, <2>4, <2>5, queue' = queue, AtFields DEF Transfer, Place
  <2>7. EntriesMove(R, "held", IF ok THEN "written" ELSE "failed")
    BY <2>2, <2>4, <2>5, <2>6 DEF EntriesMove
  <2>8. IsInjective(taken') BY <2>2 DEF PlaceInv
  <2> QED BY <1>4, <2>7, <2>8 DEF R
<1> QED BY <1>3, <1>4

(* The steps that leave the entries where they are.                        *)
EntriesStay ==
  /\ UNCHANGED <<held, logged, queue, taken>>
  /\ hist'.written = hist.written /\ hist'.failed = hist.failed
  /\ hist'.discarded = hist.discarded

LEMMA StayKeeps ==
  ASSUME PlaceInv, EntriesStay PROVE PlaceInv'
<1>1. At' = At BY DEF EntriesStay, At, InHand
<1>2. FateInv'
  BY <1>1 DEF EntriesStay, PlaceInv, FateInv, Separate, AgeInv, BornInv
<1> QED BY <1>2 DEF EntriesStay, PlaceInv

LEMMA WritersStay ==
  ASSUME TypeInv, NEW who, NEW entries, NEW size, NEW direct,
         BeginWrite(who, entries, size, direct)
  PROVE  /\ hist'.written = hist.written /\ hist'.failed = hist.failed
         /\ hist'.discarded = hist.discarded /\ hist'.atClose = hist.atClose
         /\ hist'.direct = hist.direct \cup direct
         /\ hist'.bytes = hist.bytes \o entries
         /\ hist'.order = Append(hist.order, entries)
BY DEF BeginWrite, TypeInv, TypeOK, Histories

(* What the other steps of a caller, of a write and of Close leave alone.  *)
LEMMA QuietSteps ==
  ASSUME TypeInv,
         \/ \E p \in Producers : \/ SendPanics(p) \/ FindFull(p) \/ StopWaiting(p)
                                 \/ Evict(p) /\ queue = <<>>
                                 \/ CallerWrites(p)
         \/ SinkStep /\ step' # "idle"
         \/ QueueEmpty \/ SeeClosed \/ DrainEnds \/ DeadlineExpires \/ WorkerWrites
         \/ CloseStep \/ Tick \/ UNCHANGED vars
  PROVE  EntriesStay
<1>1. ASSUME NEW p \in Producers,
             \/ SendPanics(p) \/ FindFull(p) \/ StopWaiting(p)
             \/ Evict(p) /\ queue = <<>>
      PROVE  EntriesStay
  BY <1>1 DEF SendPanics, FindFull, StopWaiting, Evict, CallKeeps, Goto, workerVars,
              EntriesStay
<1>2. ASSUME NEW p \in Producers, CallerWrites(p)
      PROVE  EntriesStay
  BY <1>2, WritersStay DEF CallerWrites, CallKeeps, Goto, workerVars, EntriesStay
<1>3. CASE SinkStep /\ step' # "idle"
  <2>1. UNCHANGED <<queueVars, callVars, workerVars, hist>>
    BY <1>3, SinkEffect
  <2> QED BY <2>1 DEF queueVars, callVars, workerVars, EntriesStay
<1>4. CASE QueueEmpty \/ SeeClosed \/ DrainEnds \/ DeadlineExpires
  BY <1>4 DEF QueueEmpty, SeeClosed, DrainEnds, DeadlineExpires, WorkerKeeps, callVars,
              EntriesStay
<1>5. CASE WorkerWrites
  BY <1>5, WritersStay DEF WorkerWrites, WorkerKeeps, callVars, EntriesStay
<1>6. CASE CloseSignal
  BY <1>6 DEF CloseSignal, CloseKeeps, callVars, workerVars, EntriesStay,
              TypeInv, TypeOK, Histories
<1>7. CASE CloseAwait \/ CloseQueue \/ BeginCloseFile \/ CloseFile
  BY <1>7 DEF CloseAwait, CloseQueue, BeginCloseFile, CloseFile, CloseKeeps, callVars,
              workerVars, EntriesStay
<1>8. CASE Tick \/ UNCHANGED vars
  BY <1>8 DEF Tick, vars, queueVars, callVars, workerVars, EntriesStay
<1> QED BY <1>1, <1>2, <1>3, <1>4, <1>5, <1>6, <1>7, <1>8 DEF CloseStep

LEMMA NextPlace == TypeInv /\ PlaceInv /\ [Next]_vars => PlaceInv'
<1> SUFFICES ASSUME TypeInv, PlaceInv, [Next]_vars PROVE PlaceInv'
  OBVIOUS
<1>0. FateInv /\ IsInjective(queue) /\ IsInjective(taken)
  BY DEF PlaceInv
<1>1. ASSUME NEW p \in Producers, NEW size \in Sizes, HandleLog(p, size)
      PROVE  PlaceInv'
  <2>1. queue' = queue /\ taken' = taken
    BY <1>1 DEF HandleLog, queueVars, workerVars
  <2> QED BY <1>0, <1>1, <2>1, LogBears, BirthKeepsFate DEF PlaceInv
<1>2. ASSUME NEW p \in Producers, Send(p)
      PROVE  PlaceInv'
  <2>1. taken' = taken /\ <<"held", "queue">> \in Paths
    BY <1>2 DEF Send, CallKeeps, workerVars, Paths
  <2> QED BY <1>0, <1>2, <2>1, SendMoves, MoveKeepsFate DEF PlaceInv
<1>3. ASSUME NEW p \in Producers, Drop(p)
      PROVE  PlaceInv'
  <2>1. taken' = taken /\ queue' = queue /\ <<"held", "discarded">> \in Paths
    BY <1>3 DEF Drop, CallKeeps, workerVars, Paths
  <2> QED BY <1>0, <1>3, <2>1, DropMoves, MoveKeepsFate DEF PlaceInv
<1>4. ASSUME NEW p \in Producers, Evict(p), queue # <<>>
      PROVE  PlaceInv'
  <2>1. taken' = taken /\ <<"queue", "discarded">> \in Paths
    BY <1>4 DEF Evict, CallKeeps, workerVars, Paths
  <2> QED BY <1>0, <1>4, <2>1, EvictMoves, MoveKeepsFate DEF PlaceInv
<1>5. CASE SinkStep /\ step' = "idle"
  <2>1. PICK ok \in BOOLEAN : EndWrite(ok)
    BY <1>5, SinkEffect DEF File!RotateSteps
  <2>2. owner \in Producers \cup {Worker} /\ queue' = queue
    BY <1>5, SinkEffect DEF queueVars
  <2> DEFINE x == IF owner = Worker THEN "taken" ELSE "held"
             y == IF ok THEN "written" ELSE "failed"
  <2>3. EntriesMove(Range(Last(hist.order)), x, y) /\ IsInjective(taken')
    BY <2>1, <2>2, EndMoves
  <2>4. <<x, y>> \in Paths BY DEF Paths
  <2> HIDE DEF x, y
  <2>5. FateInv' BY <1>0, <2>3, <2>4, MoveKeepsFate
  <2> QED BY <1>0, <2>2, <2>3, <2>5 DEF PlaceInv
<1>6. CASE (\E from \in {"select", "batch", "drain"} : Receive(from)) \/ Collect
  <2>1. WorkerTakes BY <1>6, WorkerReceives
  <2>2. <<"queue", "taken">> \in Paths BY DEF Paths
  <2> QED BY <1>0, <2>1, <2>2, TakeMoves, MoveKeepsFate DEF PlaceInv
<1>7. ASSUME EntriesStay PROVE PlaceInv'
  BY <1>7, StayKeeps
<1> QED
  BY <1>1, <1>2, <1>3, <1>4, <1>5, <1>6, <1>7, QuietSteps DEF Next, HandleStep, WorkerStep

LEMMA InitPlace == Init => PlaceInv
<1> SUFFICES ASSUME Init PROVE PlaceInv
  OBVIOUS
<1>1. /\ queue = <<>> /\ taken = <<>> /\ InHand = {}
      /\ hist.written = {} /\ hist.failed = {} /\ hist.discarded = {}
  BY DEF Init, InHand
<1>2. \A x \in Place : At[x] = {}
  BY <1>1, AtFields DEF Place, Range
<1>3. Separate(At) /\ AgeInv
  BY <1>2 DEF Separate, AgeInv
<1>4. BornInv
  BY DEF Init, BornInv
<1>5. IsInjective(queue) /\ IsInjective(taken)
  BY <1>1 DEF IsInjective
<1> QED BY <1>3, <1>4, <1>5 DEF PlaceInv, FateInv

LEMMA PlaceInvariant == Spec => [](TypeInv /\ PlaceInv)
<1>1. Init => TypeInv /\ PlaceInv
  BY InitTypes, InitPlace
<1>2. TypeInv /\ PlaceInv /\ [Next]_vars => (TypeInv /\ PlaceInv)'
  BY NextTypes, NextPlace
<1> QED BY <1>1, <1>2, PTL DEF Spec

(* Copies counts the places of an entry.                                   *)
LEMMA CopiesIs ==
  ASSUME TypeInv, PlaceInv, NEW e \in Entry
  PROVE  /\ Copies(e) \in {0, 1}
         /\ (\E x \in Place : e \in At[x]) => Copies(e) = 1
<1> DEFINE H == {p \in Producers : held[p] = e}
           Q == {i \in DOMAIN queue : queue[i] = e}
           T == {i \in DOMAIN taken : taken[i] = e}
           S == {s \in {"written", "failed", "discarded"} : e \in hist[s]}
           Is(x) == IF e \in At[x] THEN 1 ELSE 0
<1>0. \A A : (\E a : A = {a}) => Cardinality(A) = 1
  BY FS_Singleton
<1>1. Cardinality({}) = 0
  BY FS_EmptySet
<1>2. Cardinality(H) = Is("held")
  <2>1. \A p, q \in H : p = q BY NoEntryAssumption DEF TypeInv, CallInv
  <2>2. e \in At["held"] <=> H # {}
    BY NoEntryAssumption, AtFields DEF InHand
  <2>3. CASE H # {}
    <3>1. PICK p : p \in H BY <2>3
    <3>2. H = {p} BY <2>1, <3>1
    <3> QED BY <1>0, <2>2, <2>3, <3>2
  <2>4. CASE H = {} BY <1>1, <2>2, <2>4
  <2> QED BY <2>3, <2>4
<1>3. Cardinality(Q) = Is("queue")
  <2>1. \A i, j \in Q : i = j BY DEF PlaceInv, IsInjective
  <2>2. e \in At["queue"] <=> Q # {}
    BY AtFields DEF Range
  <2>3. CASE Q # {}
    <3>1. PICK p : p \in Q BY <2>3
    <3>2. Q = {p} BY <2>1, <3>1
    <3> QED BY <1>0, <2>2, <2>3, <3>2
  <2>4. CASE Q = {} BY <1>1, <2>2, <2>4
  <2> QED BY <2>3, <2>4
<1>4. Cardinality(T) = Is("taken")
  <2>1. \A i, j \in T : i = j BY DEF PlaceInv, IsInjective
  <2>2. e \in At["taken"] <=> T # {}
    BY AtFields DEF Range
  <2>3. CASE T # {}
    <3>1. PICK p : p \in T BY <2>3
    <3>2. T = {p} BY <2>1, <3>1
    <3> QED BY <1>0, <2>2, <2>3, <3>2
  <2>4. CASE T = {} BY <1>1, <2>2, <2>4
  <2> QED BY <2>3, <2>4
<1>5. Cardinality(S) = IF \E x \in {"written", "failed", "discarded"} : e \in At[x]
                       THEN 1 ELSE 0
  <2>0. \A s \in {"written", "failed", "discarded"} : hist[s] = At[s]
    BY AtFields DEF TypeInv, TypeOK, Histories
  <2>1. \A s, r \in S : s = r
    BY <2>0 DEF PlaceInv, FateInv, Separate, Place
  <2>2. (\E x \in {"written", "failed", "discarded"} : e \in At[x]) <=> S # {}
    BY <2>0
  <2>3. CASE S # {}
    <3>1. PICK p : p \in S BY <2>3
    <3>2. S = {p} BY <2>1, <3>1
    <3> QED BY <1>0, <2>2, <2>3, <3>2
  <2>4. CASE S = {} BY <1>1, <2>2, <2>4
  <2> QED BY <2>3, <2>4
<1>6. Copies(e) = Cardinality(H) + Cardinality(Q) + Cardinality(T) + Cardinality(S)
  BY DEF Copies
<1>7. \A x, y \in Place : x # y => ~(e \in At[x] /\ e \in At[y])
  BY DEF PlaceInv, FateInv, Separate
<1> HIDE DEF H, Q, T, S
<1> QED BY <1>2, <1>3, <1>4, <1>5, <1>6, <1>7 DEF Place

(* EntryOnePlace: a record is lost or written twice by no interleaving, no *)
(* failed rotation and no policy (handler/filehandler/file_async.go and    *)
(* handler/file.go, process, Handle and Close).                            *)
THEOREM EntryOnePlaceAlways == Spec => []EntryOnePlace
<1>1. TypeInv /\ PlaceInv => EntryOnePlace
  <2> SUFFICES ASSUME TypeInv, PlaceInv PROVE EntryOnePlace
    OBVIOUS
  <2>1. \A e \in Entry : Copies(e) <= 1
    BY CopiesIs
  <2>2. ASSUME NEW p \in Producers, NEW n \in 1 .. logged[p]
        PROVE  \E size \in Sizes : Copies([src |-> p, seq |-> n, size |-> size]) = 1
    <3>1. PICK size \in Sizes : \E x \in Place :
                 [src |-> p, seq |-> n, size |-> size] \in At[x]
      BY DEF PlaceInv, FateInv, BornInv
    <3>2. [src |-> p, seq |-> n, size |-> size] \in Entry
      BY <3>1, AtType DEF PlaceMap
    <3> QED BY <3>1, <3>2, CopiesIs
  <2> QED BY <2>1, <2>2 DEF EntryOnePlace
<1> QED BY <1>1, PlaceInvariant, PTL

-----------------------------------------------------------------------------
(* The order of the entries of one producer                                *)

Older(e, f) == e.src = f.src => e.seq < f.seq

Sorted(s) == \A i, j \in 1 .. Len(s) : i < j => Older(s[i], s[j])

(* Sorted, up to the entries D.                                            *)
SortedBut(s, D) ==
  \A i, j \in 1 .. Len(s) : i < j /\ s[i] \notin D /\ s[j] \notin D => Older(s[i], s[j])

ThroughQueue == Range(hist.bytes) \ hist.direct

(* What the worker gave to a write, what it has, the queue from its head:  *)
(* the entries of one producer appear in the order of its calls.           *)
OrderInv ==
  /\ SortedBut(hist.bytes, hist.direct) /\ Sorted(queue) /\ Sorted(taken)
  /\ \A e \in Range(taken) : \A f \in Range(queue) : Older(e, f)
  /\ ThroughQueue \subseteq Range(taken) \cup hist.written \cup hist.failed
  /\ \A e \in ThroughQueue : \A f \in Range(queue) : Older(e, f)
  /\ workerPC # "writing" =>
       \A e \in ThroughQueue : \A f \in Range(taken) : Older(e, f)

LEMMA ConcatSorted ==
  ASSUME NEW S, NEW b \in Seq(S), NEW t \in Seq(S), NEW C, NEW D,
         SortedBut(b, C), C \subseteq D, SortedBut(t, D),
         \A e \in Range(b) \ D : \A f \in Range(t) \ D : Older(e, f)
  PROVE  SortedBut(b \o t, D) /\ Range(b \o t) = Range(b) \cup Range(t)
<1>1. Range(b \o t) = Range(b) \cup Range(t) BY RangeConcatenation
<1>2. /\ Len(b \o t) = Len(b) + Len(t) /\ Len(b) \in Nat /\ Len(t) \in Nat
      /\ \A i \in 1 .. Len(b) : (b \o t)[i] = b[i] /\ b[i] \in Range(b)
      /\ \A i \in Len(b) + 1 .. Len(b) + Len(t) : (b \o t)[i] = t[i - Len(b)]
      /\ \A i \in 1 .. Len(t) : t[i] \in Range(t)
  BY DEF Range
<1>3. PICK c : c = b \o t OBVIOUS
<1>4. SortedBut(c, D)
  <2> SUFFICES ASSUME NEW i \in 1 .. Len(c), NEW j \in 1 .. Len(c), i < j,
                      c[i] \notin D, c[j] \notin D
               PROVE  Older(c[i], c[j])
    BY DEF SortedBut
  <2>1. CASE j \in 1 .. Len(b)
    <3>1. i \in 1 .. Len(b) BY <1>2, <2>1
    <3>2. c[i] = b[i] /\ c[j] = b[j] BY <1>2, <1>3, <2>1, <3>1
    <3> QED BY <2>1, <3>1, <3>2 DEF SortedBut
  <2>2. CASE i \in 1 .. Len(b) /\ j \notin 1 .. Len(b)
    <3>1. j \in Len(b) + 1 .. Len(b) + Len(t) /\ j - Len(b) \in 1 .. Len(t)
      BY <1>2, <1>3, <2>2
    <3>2. c[i] = b[i] /\ c[j] = t[j - Len(b)] BY <1>2, <1>3, <2>2, <3>1
    <3>3. c[i] \in Range(b) \ D /\ c[j] \in Range(t) \ D BY <1>2, <2>2, <3>1, <3>2
    <3> QED BY <3>3
  <2>3. CASE i \notin 1 .. Len(b)
    <3>1. /\ i \in Len(b) + 1 .. Len(b) + Len(t) /\ i - Len(b) \in 1 .. Len(t)
          /\ j \in Len(b) + 1 .. Len(b) + Len(t) /\ j - Len(b) \in 1 .. Len(t)
          /\ i - Len(b) < j - Len(b)
      BY <1>2, <1>3, <2>3
    <3>2. c[i] = t[i - Len(b)] /\ c[j] = t[j - Len(b)] BY <1>2, <1>3, <3>1
    <3> QED BY <3>1, <3>2 DEF SortedBut
  <2> QED BY <2>1, <2>2, <2>3
<1> QED BY <1>1, <1>3, <1>4

LEMMA AppendSorted ==
  ASSUME NEW S, NEW q \in Seq(S), NEW e \in S, Sorted(q),
         \A f \in Range(q) : Older(f, e)
  PROVE  Sorted(Append(q, e))
<1>1. /\ Len(Append(q, e)) = Len(q) + 1 /\ Append(q, e)[Len(q) + 1] = e
      /\ \A i \in 1 .. Len(q) : Append(q, e)[i] = q[i] /\ q[i] \in Range(q)
      /\ Len(q) \in Nat
  BY AppendProperties DEF Range
<1> SUFFICES ASSUME NEW i \in 1 .. Len(q) + 1, NEW j \in 1 .. Len(q) + 1, i < j
             PROVE  Older(Append(q, e)[i], Append(q, e)[j])
  BY <1>1 DEF Sorted
<1>2. i \in 1 .. Len(q) BY <1>1
<1>3. CASE j \in 1 .. Len(q) BY <1>1, <1>2, <1>3 DEF Sorted
<1>4. CASE j = Len(q) + 1 BY <1>1, <1>2, <1>4
<1> QED BY <1>1, <1>3, <1>4

LEMMA TailSorted ==
  ASSUME NEW S, NEW q \in Seq(S), q # <<>>, Sorted(q)
  PROVE  /\ Sorted(Tail(q))
         /\ \A f \in Range(Tail(q)) : f \in Range(q) /\ Older(Head(q), f)
         /\ Head(q) \in Range(q)
<1>1. /\ Tail(q) \in Seq(S) /\ Len(Tail(q)) = Len(q) - 1
      /\ \A i \in 1 .. Len(Tail(q)) : Tail(q)[i] = q[i + 1]
      /\ Head(q) = q[1] /\ Len(q) \in Nat \ {0}
  BY HeadTailProperties
<1>2. Sorted(Tail(q))
  <2> SUFFICES ASSUME NEW i \in 1 .. Len(Tail(q)), NEW j \in 1 .. Len(Tail(q)), i < j
               PROVE  Older(Tail(q)[i], Tail(q)[j])
    BY DEF Sorted
  <2>1. i + 1 \in 1 .. Len(q) /\ j + 1 \in 1 .. Len(q) /\ i + 1 < j + 1 BY <1>1
  <2>2. Older(q[i + 1], q[j + 1]) BY <2>1 DEF Sorted
  <2> QED BY <1>1, <2>2
<1>3. ASSUME NEW f \in Range(Tail(q))
      PROVE  f \in Range(q) /\ Older(Head(q), f)
  <2>1. PICK i \in 1 .. Len(Tail(q)) : f = Tail(q)[i] BY <1>1 DEF Range
  <2>2. f = q[i + 1] /\ i + 1 \in 1 .. Len(q) /\ 1 < i + 1 /\ 1 \in 1 .. Len(q)
    BY <1>1, <2>1
  <2>3. f \in Range(q) BY <2>2, RangeEquality
  <2>4. Older(q[1], q[i + 1]) BY <2>2 DEF Sorted
  <2> QED BY <1>1, <2>2, <2>3, <2>4
<1>4. Head(q) \in Range(q) BY <1>1, RangeEquality
<1> QED BY <1>2, <1>3, <1>4

(* The entry a caller holds is younger than all others of its producer.    *)
LEMMA HeldIsYoungest ==
  ASSUME TypeInv, PlaceInv, NEW p \in Producers, held[p] # NoEntry,
         NEW x \in Place \ {"held"}, NEW e \in At[x]
  PROVE  Older(e, held[p])
<1>1. held[p].src = p /\ held[p].seq = logged[p]
  BY DEF TypeInv, CallInv
<1> QED BY <1>1 DEF PlaceInv, FateInv, AgeInv, Older

LEMMA SendOrder ==
  ASSUME TypeInv, PlaceInv, OrderInv, NEW p \in Producers, Send(p)
  PROVE  OrderInv'
<1>1. /\ held[p] \in Entry /\ held[p] # NoEntry /\ queue \in Seq(Entry)
      /\ queue' = Append(queue, held[p])
      /\ taken' = taken /\ hist' = hist /\ workerPC' = workerPC
  BY HeldEntry, NoEntryAssumption DEF Send, Enqueue, CallKeeps, workerVars, TypeInv, TypeOK
<1>2. \A e \in Range(queue) \cup Range(taken) \cup hist.written \cup hist.failed :
        Older(e, held[p])
  BY <1>1, HeldIsYoungest, AtFields DEF Place
<1>3. Range(queue') = Range(queue) \cup {held[p]} BY <1>1, AppendRange
<1>4. Sorted(queue') BY <1>1, <1>2, AppendSorted DEF OrderInv
<1>5. ThroughQueue' = ThroughQueue BY <1>1 DEF ThroughQueue
<1> QED BY <1>1, <1>2, <1>3, <1>4, <1>5 DEF OrderInv

LEMMA EvictOrder ==
  ASSUME TypeInv, PlaceInv, OrderInv, NEW p \in Producers, Evict(p), queue # <<>>
  PROVE  OrderInv'
<1>1. /\ queue \in Seq(Entry) /\ queue' = Tail(queue) /\ taken' = taken
      /\ workerPC' = workerPC
      /\ hist' = [hist EXCEPT !.discarded = @ \cup {Head(queue)}] /\ hist \in Histories
  BY DEF Evict, CallKeeps, workerVars, TypeInv, TypeOK
<1>2. Sorted(queue') /\ Range(queue') \subseteq Range(queue)
  BY <1>1, TailSorted DEF OrderInv
<1>3. /\ hist'.bytes = hist.bytes /\ hist'.direct = hist.direct
      /\ hist'.written = hist.written /\ hist'.failed = hist.failed
  BY <1>1 DEF Histories
<1>4. ThroughQueue' = ThroughQueue BY <1>3 DEF ThroughQueue
<1> QED BY <1>1, <1>2, <1>3, <1>4 DEF OrderInv

LEMMA TakeOrder ==
  ASSUME TypeInv, OrderInv, WorkerTakes, workerPC # "writing"
  PROVE  OrderInv'
<1>1. /\ queue \in Seq(Entry) /\ taken \in Seq(Entry) /\ Head(queue) \in Entry
      /\ queue' = Tail(queue) /\ queue # <<>> /\ taken' = Append(taken, Head(queue))
      /\ hist' = hist
  BY QueueTail DEF WorkerTakes, TypeInv, TypeOK
<1>2. /\ Sorted(queue') /\ Head(queue) \in Range(queue)
      /\ \A f \in Range(queue') : f \in Range(queue) /\ Older(Head(queue), f)
  BY <1>1, TailSorted DEF OrderInv
<1>3. Sorted(taken')
  BY <1>1, <1>2, AppendSorted DEF OrderInv
<1>4. Range(taken') = Range(taken) \cup {Head(queue)} BY <1>1, AppendRange
<1>5. ThroughQueue' = ThroughQueue BY <1>1 DEF ThroughQueue
<1> QED BY <1>1, <1>2, <1>3, <1>4, <1>5 DEF OrderInv

LEMMA CallerOrder ==
  ASSUME TypeInv, OrderInv, NEW p \in Producers, CallerWrites(p)
  PROVE  OrderInv'
<1>1. /\ held[p] \in Entry /\ BeginWrite(p, <<held[p]>>, held[p].size, {held[p]})
      /\ queue' = queue /\ taken' = taken /\ workerPC' = workerPC
  BY HeldEntry DEF CallerWrites, CallKeeps, workerVars
<1>2. PICK e \in Entry : e = held[p] BY <1>1
<1>3. /\ hist'.written = hist.written /\ hist'.failed = hist.failed
      /\ hist'.direct = hist.direct \cup {e} /\ hist'.bytes = hist.bytes \o <<e>>
  BY <1>1, <1>2, WritersStay
<1>4. PICK b \in Seq(Entry) : b = hist.bytes BY DEF TypeInv, TypeOK, Histories
<1>5. PICK C, D : C = hist.direct /\ D = C \cup {e} OBVIOUS
<1>6. /\ SortedBut(b \o <<e>>, D)
      /\ Range(b \o <<e>>) = Range(b) \cup {e}
  <2>0. <<e>> \in Seq(Entry) OBVIOUS
  <2>1. PICK t \in Seq(Entry) : t = <<e>> BY <2>0
  <2>2. Range(t) = {e} /\ SortedBut(t, D) BY <1>5, <2>1 DEF Range, SortedBut
  <2>3. \A f \in Range(b) \ D : \A g \in Range(t) \ D : Older(f, g)
    BY <1>5, <2>2
  <2>4. SortedBut(b, C) /\ C \subseteq D BY <1>4, <1>5 DEF OrderInv
  <2>5. SortedBut(b \o t, D) /\ Range(b \o t) = Range(b) \cup Range(t)
    BY <2>2, <2>3, <2>4, ConcatSorted
  <2> QED BY <2>1, <2>2, <2>5
<1>7. ThroughQueue' \subseteq ThroughQueue
  BY <1>3, <1>4, <1>5, <1>6 DEF ThroughQueue
<1> QED BY <1>1, <1>3, <1>4, <1>5, <1>6, <1>7 DEF OrderInv

LEMMA WorkerOrder ==
  ASSUME TypeInv, OrderInv, WorkerWrites
  PROVE  OrderInv'
<1>1. /\ BeginWrite(Worker, taken, batchLen, {}) /\ workerPC = "write"
      /\ workerPC' = "writing" /\ queue' = queue /\ taken' = taken
  BY DEF WorkerWrites, WorkerKeeps
<1>2. /\ hist'.written = hist.written /\ hist'.failed = hist.failed
      /\ hist'.direct = hist.direct /\ hist'.bytes = hist.bytes \o taken
  <2>1. hist'.direct = hist.direct \cup {} BY <1>1, WritersStay
  <2>2. hist.direct \cup {} = hist.direct OBVIOUS
  <2> QED BY <1>1, <2>1, <2>2, WritersStay
<1>3. PICK b \in Seq(Entry), t \in Seq(Entry) : b = hist.bytes /\ t = taken
  BY DEF TypeInv, TypeOK, Histories
<1>4. /\ SortedBut(b \o t, hist.direct) /\ Range(b \o t) = Range(b) \cup Range(t)
  <2>1. \A f \in Range(b) \ hist.direct : \A g \in Range(t) \ hist.direct : Older(f, g)
    BY <1>1, <1>3 DEF OrderInv, ThroughQueue
  <2>2. SortedBut(b, hist.direct) /\ SortedBut(t, hist.direct)
    BY <1>3 DEF OrderInv, Sorted, SortedBut
  <2> QED BY <2>1, <2>2, ConcatSorted
<1>5. ThroughQueue' \subseteq ThroughQueue \cup Range(taken)
  BY <1>2, <1>3, <1>4 DEF ThroughQueue
<1> QED BY <1>1, <1>2, <1>3, <1>4, <1>5 DEF OrderInv

LEMMA EndOrder ==
  ASSUME TypeInv, OrderInv, owner \in Producers \cup {Worker}, NEW ok \in BOOLEAN,
         EndWrite(ok), queue' = queue
  PROVE  OrderInv'
<1>1. Last(hist.order) = IF owner = Worker THEN taken ELSE <<held[owner]>>
  BY DEF TypeInv, WriteInv
<1>2. PICK R : R = Range(Last(hist.order)) OBVIOUS
<1>3. /\ hist'.written = IF ok THEN hist.written \cup R ELSE hist.written
      /\ hist'.failed = IF ok THEN hist.failed ELSE hist.failed \cup R
      /\ hist'.bytes = hist.bytes /\ hist'.direct = hist.direct
  BY <1>2 DEF EndWrite, TypeInv, TypeOK, Histories
<1>4. ThroughQueue' = ThroughQueue BY <1>3 DEF ThroughQueue
<1>5. CASE owner = Worker
  <2>1. taken' = <<>> /\ R = Range(taken) BY <1>1, <1>2, <1>5 DEF EndWrite
  <2>2. Range(taken') = {} /\ Sorted(taken') BY <2>1 DEF Range, Sorted
  <2>3. ThroughQueue' \subseteq Range(taken') \cup hist'.written \cup hist'.failed
    BY <1>3, <1>4, <2>1, <2>2 DEF OrderInv
  <2> QED BY <1>3, <1>4, <2>2, <2>3, queue' = queue DEF OrderInv
<1>6. CASE owner # Worker
  <2>1. taken' = taken /\ workerPC' = workerPC
    BY <1>6 DEF EndWrite, workerVars
  <2>2. ThroughQueue' \subseteq Range(taken') \cup hist'.written \cup hist'.failed
    BY <1>3, <1>4, <2>1 DEF OrderInv
  <2> QED BY <1>3, <1>4, <2>1, <2>2, queue' = queue DEF OrderInv
<1> QED BY <1>5, <1>6

LEMMA NextOrder == TypeInv /\ PlaceInv /\ OrderInv /\ [Next]_vars => OrderInv'
<1> SUFFICES ASSUME TypeInv, PlaceInv, OrderInv, [Next]_vars PROVE OrderInv'
  OBVIOUS
<1>0. hist \in Histories BY DEF TypeInv, TypeOK
<1>1. ASSUME UNCHANGED <<queue, taken>>, workerPC' = "writing" <=> workerPC = "writing",
             hist'.bytes = hist.bytes, hist'.direct = hist.direct,
             hist'.written = hist.written, hist'.failed = hist.failed
      PROVE  OrderInv'
  <2>1. ThroughQueue' = ThroughQueue BY <1>1 DEF ThroughQueue
  <2> QED BY <1>1, <2>1 DEF OrderInv
<1>2. ASSUME NEW p \in Producers,
             \/ \E size \in Sizes : HandleLog(p, size)
             \/ SendPanics(p) \/ Drop(p) \/ FindFull(p) \/ StopWaiting(p)
             \/ Evict(p) /\ queue = <<>>
      PROVE  OrderInv'
  <2>1. UNCHANGED <<queue, taken, workerPC>>
    BY <1>2 DEF HandleLog, SendPanics, Drop, FindFull, StopWaiting, Evict, CallKeeps,
                queueVars, workerVars
  <2>2. /\ hist'.bytes = hist.bytes /\ hist'.direct = hist.direct
        /\ hist'.written = hist.written /\ hist'.failed = hist.failed
    BY <1>0, <1>2 DEF HandleLog, SendPanics, Drop, FindFull, StopWaiting, Evict, CallKeeps,
                      Histories
  <2> QED BY <1>1, <2>1, <2>2
<1>3. ASSUME NEW p \in Producers, Evict(p), queue # <<>>
      PROVE  OrderInv'
  BY <1>3, EvictOrder
<1>4. CASE SinkStep
  <2>1. queue' = queue /\ owner \in Producers \cup {Worker}
    BY <1>4, SinkEffect DEF queueVars
  <2>2. CASE UNCHANGED <<workerVars, hist>>
    BY <1>1, <2>1, <2>2 DEF workerVars
  <2>3. CASE \E ok \in BOOLEAN : EndWrite(ok)
    BY <2>1, <2>3, EndOrder
  <2> QED BY <1>4, <2>2, <2>3, SinkEffect
<1>5. CASE (\E from \in {"select", "batch", "drain"} : Receive(from)) \/ Collect
  <2>1. WorkerTakes BY <1>5, WorkerReceives
  <2>2. workerPC # "writing" BY <1>5 DEF Receive, Collect
  <2> QED BY <2>1, <2>2, TakeOrder
<1>6. CASE QueueEmpty \/ SeeClosed \/ DrainEnds \/ DeadlineExpires
  <2>1. UNCHANGED <<queue, taken, hist>> /\ (workerPC' = "writing" <=> workerPC = "writing")
    BY <1>6 DEF QueueEmpty, SeeClosed, DrainEnds, DeadlineExpires, WorkerKeeps
  <2> QED BY <1>1, <2>1
<1>7. CASE CloseStep \/ Tick \/ UNCHANGED vars
  <2>1. UNCHANGED <<queue, taken, workerPC>>
    BY <1>7 DEF CloseStep, CloseSignal, CloseAwait, CloseQueue, BeginCloseFile, CloseFile,
                CloseKeeps, Tick, vars, queueVars, workerVars
  <2>2. /\ hist'.bytes = hist.bytes /\ hist'.direct = hist.direct
        /\ hist'.written = hist.written /\ hist'.failed = hist.failed
    BY <1>0, <1>7 DEF CloseStep, CloseSignal, CloseAwait, CloseQueue, BeginCloseFile,
                      CloseFile, CloseKeeps, Tick, vars, Histories
  <2> QED BY <1>1, <2>1, <2>2
<1> QED
  BY <1>2, <1>3, <1>4, <1>5, <1>6, <1>7, SendOrder, CallerOrder, WorkerOrder
     DEF Next, HandleStep, WorkerStep

LEMMA OrderInvariant == Spec => [](TypeInv /\ PlaceInv /\ OrderInv)
<1>1. Init => OrderInv
  BY DEF Init, OrderInv, ThroughQueue, SortedBut, Sorted, Range
<1> QED BY <1>1, NextOrder, PlaceInvariant, PTL DEF Spec

(* QueueOrder: batches, evictions, the drain and the writes of callers     *)
(* leave the entries of a producer that go through the queue in the order  *)
(* of its calls (handler/filehandler/file_async.go and handler/file.go,    *)
(* process and Handle).                                                    *)
THEOREM QueueOrderAlways == Spec => []QueueOrder
<1>1. TypeInv /\ OrderInv => QueueOrder
  <2> SUFFICES ASSUME TypeInv, OrderInv PROVE QueueOrder
    OBVIOUS
  <2>1. DOMAIN hist.bytes = 1 .. Len(hist.bytes)
    BY DEF TypeInv, TypeOK, Histories
  <2> QED BY <2>1 DEF OrderInv, SortedBut, Older, QueueOrder
<1> QED BY <1>1, OrderInvariant, PTL

-----------------------------------------------------------------------------
(* The bytes of the records                                                *)

(* The records whose last byte is in a sequence of bytes.                  *)
Lasts(s) == {s[i].rec : i \in {j \in DOMAIN s : s[j].last}}

Filed == Lasts(past.shelved) \cup Lasts(current)
Buffered == Lasts(h.buffer)

(* The buffer is empty between the flush and the end of a rotation or of   *)
(* Close.                                                                  *)
FlushedSteps == {"sync", "close", "rename", "reopen", "cleanup", "open",
                 "finalSync", "finalClose"}

FileInv ==
  /\ current \in Seq(File!Byte) /\ h \in File!Handlers /\ now \in Nat
  /\ past \in [stream : Seq(File!Byte), shelved : Seq(File!Byte),
               removed : {past.removed}, toFlush : Nat]
  /\ step \in FlushedSteps => h.buffer = <<>> /\ ~h.bufErr

(* No last byte leaves the files, and as long as there is no error none is *)
(* lost; an error is never forgotten.                                      *)
FileKeeps ==
  /\ Filed \subseteq Filed'
  /\ ~h'.bufErr => ~h.bufErr /\ Filed \cup Buffered \subseteq Filed' \cup Buffered'

LEMMA LastsConcat ==
  ASSUME NEW s \in Seq(File!Byte), NEW t \in Seq(File!Byte)
  PROVE  s \o t \in Seq(File!Byte) /\ Lasts(s \o t) = Lasts(s) \cup Lasts(t)
<1>1. /\ s \o t \in Seq(File!Byte) /\ Len(s \o t) = Len(s) + Len(t)
      /\ Len(s) \in Nat /\ Len(t) \in Nat
      /\ \A i \in 1 .. Len(s) : (s \o t)[i] = s[i]
      /\ \A i \in 1 .. Len(t) : (s \o t)[Len(s) + i] = t[i]
  OBVIOUS
<1>2. DOMAIN s = 1 .. Len(s) /\ DOMAIN t = 1 .. Len(t) /\ DOMAIN (s \o t) = 1 .. Len(s \o t)
  BY <1>1
<1>3. PICK u : u = s \o t OBVIOUS
<1>4. ASSUME NEW r \in Lasts(u)
      PROVE  r \in Lasts(s) \cup Lasts(t)
  <2>1. PICK i \in DOMAIN u : u[i].last /\ r = u[i].rec BY DEF Lasts
  <2>2. CASE i \in 1 .. Len(s)
    BY <1>1, <1>2, <1>3, <2>1, <2>2 DEF Lasts
  <2>3. CASE i \notin 1 .. Len(s)
    <3>1. i - Len(s) \in 1 .. Len(t) /\ u[i] = t[i - Len(s)]
      BY <1>1, <1>2, <1>3, <2>3
    <3> QED BY <1>2, <2>1, <3>1 DEF Lasts
  <2> QED BY <2>2, <2>3
<1>5. ASSUME NEW r \in Lasts(s)
      PROVE  r \in Lasts(u)
  <2>1. PICK i \in 1 .. Len(s) : s[i].last /\ r = s[i].rec BY <1>2 DEF Lasts
  <2>2. i \in DOMAIN u /\ u[i] = s[i] BY <1>1, <1>2, <1>3
  <2> QED BY <2>1, <2>2 DEF Lasts
<1>6. ASSUME NEW r \in Lasts(t)
      PROVE  r \in Lasts(u)
  <2>1. PICK i \in 1 .. Len(t) : t[i].last /\ r = t[i].rec BY <1>2 DEF Lasts
  <2>2. Len(s) + i \in DOMAIN u /\ u[Len(s) + i] = t[i] BY <1>1, <1>2, <1>3
  <2> QED BY <2>1, <2>2 DEF Lasts
<1> QED BY <1>1, <1>3, <1>4, <1>5, <1>6

LEMMA Section ==
  ASSUME NEW s \in Seq(File!Byte), NEW i \in Nat, NEW j \in Nat,
         1 <= i, i <= j + 1, j <= Len(s)
  PROVE  SubSeq(s, i, j) \in Seq(File!Byte)
<1>1. \A k \in i .. j : s[k] \in File!Byte
  BY ElementOfSeq, SMT
<1>2. i \in Int /\ j \in Int
  OBVIOUS
<1> QED BY <1>1, <1>2, SubSeqProperties, SMT

(* A sequence cut in two.                                                  *)
LEMMA LastsCut ==
  ASSUME NEW s \in Seq(File!Byte), NEW n \in 0 .. Len(s)
  PROVE  /\ SubSeq(s, 1, n) \in Seq(File!Byte) /\ SubSeq(s, n + 1, Len(s)) \in Seq(File!Byte)
         /\ Lasts(s) = Lasts(SubSeq(s, 1, n)) \cup Lasts(SubSeq(s, n + 1, Len(s)))
<1>1. Len(s) \in Nat /\ n \in Nat /\ n + 1 \in Nat /\ n <= Len(s)
  BY LenProperties
<1>2. /\ SubSeq(s, 1, n) \in Seq(File!Byte) /\ SubSeq(s, n + 1, Len(s)) \in Seq(File!Byte)
  BY <1>1, Section
<1>3. SubSeq(s, 1, n) \o SubSeq(s, n + 1, Len(s)) = s
  <2>1. 1 \in 1 .. Len(s) + 1 /\ n \in 1 - 1 .. Len(s) /\ Len(s) \in n .. Len(s)
    BY <1>1
  <2>2. SubSeq(s, 1, n) \o SubSeq(s, n + 1, Len(s)) = SubSeq(s, 1, Len(s))
    BY <2>1, ConcatAdjacentSubSeq
  <2> QED BY <2>2, SubSeqFull
<1> QED BY <1>2, <1>3, LastsConcat

LEMMA LastsEmpty == <<>> \in Seq(File!Byte) /\ Lasts(<<>>) = {}
BY DEF Lasts

LEMMA RecordBytes ==
  ASSUME pending \in Nat \ {0}, env.writes \in Nat
  PROVE  File!Record \in Seq(File!Byte) /\ env.writes \in Lasts(File!Record)
<1>1. PICK r : r = File!Record OBVIOUS
<1>2. /\ DOMAIN r = 1 .. pending
      /\ \A k \in 1 .. pending : r[k] = [rec |-> env.writes, last |-> k = pending]
  BY <1>1 DEF File!Record
<1>3. File!Record \in Seq(File!Byte)
  <2>1. pending \in Nat OBVIOUS
  <2>2. \A k \in 1 .. pending : [rec |-> env.writes, last |-> k = pending] \in File!Byte
    BY DEF File!Byte
  <2> QED BY <2>1, <2>2 DEF File!Record
<1>4. pending \in DOMAIN r /\ r[pending].last /\ r[pending].rec = env.writes
  <2>1. pending \in 1 .. pending BY pending \in Nat \ {0}
  <2>2. r[pending] = [rec |-> env.writes, last |-> pending = pending] BY <1>2, <2>1
  <2>3. r[pending].last = (pending = pending) BY <2>2
  <2>4. r[pending].rec = env.writes BY <2>2
  <2>5. pending \in DOMAIN r BY <1>2, <2>1
  <2>6. r[pending].last BY <2>3
  <2> QED BY <2>4, <2>5, <2>6
<1>5. env.writes \in Lasts(r) BY <1>4 DEF Lasts
<1> QED BY <1>1, <1>3, <1>5

LEMMA SpilledRange ==
  ASSUME NEW total \in Seq(File!Byte)
  PROVE  /\ File!Spilled(total) \in 0 .. Len(total)
         /\ File!Spilled(total) > 0 => Len(total) > BufSize
<1>1. Len(total) \in Nat /\ BufSize \in Nat \ {0}
  BY LenProperties, FileAssumption
<1> QED BY <1>1, SMT DEF File!Spilled, File!Fits

(* A Write that succeeds: the last byte of the record is in the file or in *)
(* the buffer.                                                             *)
LEMMA AppendOKKeeps ==
  ASSUME FileInv, pending \in Nat \ {0}, env.writes \in Nat, File!AppendOK
  PROVE  FileInv' /\ FileKeeps /\ ~h'.bufErr /\ env.writes \in Filed' \cup Buffered'
<1>1. /\ current \in Seq(File!Byte) /\ h \in File!Handlers /\ h.buffer \in Seq(File!Byte)
      /\ past \in [stream : Seq(File!Byte), shelved : Seq(File!Byte),
                   removed : {past.removed}, toFlush : Nat]
      /\ h.currentSize \in Nat
  BY DEF FileInv, File!Handlers
<1>2. File!Record \in Seq(File!Byte) /\ env.writes \in Lasts(File!Record)
  BY RecordBytes
<1>3. PICK total \in Seq(File!Byte) :
        /\ total = h.buffer \o File!Record
        /\ Lasts(total) = Buffered \cup Lasts(File!Record)
  BY <1>1, <1>2, LastsConcat DEF Buffered
<1>4. PICK n \in 0 .. Len(total) : n = File!Spilled(total)
  BY SpilledRange
<1>5. PICK s, t : s = SubSeq(total, 1, n) /\ t = SubSeq(total, n + 1, Len(total))
  OBVIOUS
<1>6. s \in Seq(File!Byte) /\ t \in Seq(File!Byte) /\ Lasts(total) = Lasts(s) \cup Lasts(t)
  BY <1>5, LastsCut
<1>7. /\ ~h.bufErr /\ current' = current \o s
      /\ h' = [h EXCEPT !.buffer = t, !.currentSize = @ + pending]
      /\ past' = [past EXCEPT !.stream = @ \o File!Record]
      /\ step' = "idle" /\ now' = now
  BY <1>3, <1>4, <1>5 DEF File!AppendOK, File!Return
<1>8. current' \in Seq(File!Byte) /\ Lasts(current') = Lasts(current) \cup Lasts(s)
  BY <1>1, <1>6, <1>7, LastsConcat
<1>9. h' \in File!Handlers /\ h'.buffer = t /\ h'.bufErr = h.bufErr
  <2>1. PICK c \in Nat : c = h.currentSize + pending BY <1>1
  <2>2. h' = [h EXCEPT !.buffer = t, !.currentSize = c] BY <1>7, <2>1
  <2> QED BY <1>1, <1>6, <2>2 DEF File!Handlers
<1>10. /\ past' \in [stream : Seq(File!Byte), shelved : Seq(File!Byte),
                     removed : {past'.removed}, toFlush : Nat]
       /\ past'.shelved = past.shelved
  <2>1. PICK u \in Seq(File!Byte) : u = past.stream \o File!Record
    BY <1>1, <1>2, LastsConcat
  <2>2. past' = [past EXCEPT !.stream = u] BY <1>7, <2>1
  <2> QED BY <1>1, <2>2
<1>11. Filed' = Filed \cup Lasts(s) /\ Buffered' = Lasts(t)
  BY <1>8, <1>9, <1>10 DEF Filed, Buffered
<1>12. FileInv'
  BY <1>7, <1>8, <1>9, <1>10 DEF FileInv, FlushedSteps
<1>13. FileKeeps /\ env.writes \in Filed' \cup Buffered'
  BY <1>2, <1>3, <1>6, <1>7, <1>11 DEF FileKeeps
<1> QED BY <1>7, <1>9, <1>12, <1>13

LEMMA AppendFailsKeeps ==
  ASSUME FileInv, pending \in Nat \ {0}, env.writes \in Nat, File!AppendFails
  PROVE  FileInv' /\ FileKeeps
<1>1. /\ current \in Seq(File!Byte) /\ h \in File!Handlers /\ h.buffer \in Seq(File!Byte)
      /\ past \in [stream : Seq(File!Byte), shelved : Seq(File!Byte),
                   removed : {past.removed}, toFlush : Nat]
  BY DEF FileInv, File!Handlers
<1>2. File!Record \in Seq(File!Byte)
  BY RecordBytes
<1>3. PICK total \in Seq(File!Byte) : total = h.buffer \o File!Record
  BY <1>1, <1>2, LastsConcat
<1>4. PICK j \in 0 .. File!Spilled(total) - 1 :
        /\ current' = current \o SubSeq(total, 1, j)
        /\ h' = [h EXCEPT !.bufErr = TRUE,
                          !.buffer = IF @ = <<>> THEN <<>> ELSE SubSeq(total, j + 1, BufSize)]
  BY <1>3 DEF File!AppendFails
<1>5. /\ j \in 0 .. Len(total) /\ j \in Nat /\ BufSize \in Nat /\ BufSize <= Len(total)
      /\ Len(total) \in Nat
  <2>1. Len(total) \in Nat /\ BufSize \in Nat
    BY LenProperties, FileAssumption
  <2>2. PICK k : k = File!Spilled(total) OBVIOUS
  <2>3. k \in 0 .. Len(total) /\ (k > 0 => Len(total) > BufSize)
    BY <2>2, SpilledRange
  <2> QED BY <2>1, <2>2, <2>3
<1>6. SubSeq(total, 1, j) \in Seq(File!Byte)
  BY <1>5, LastsCut
<1>7. PICK s \in Seq(File!Byte) : s = SubSeq(total, 1, j) BY <1>6
<1>8. PICK t \in Seq(File!Byte) :
        t = IF h.buffer = <<>> THEN <<>> ELSE SubSeq(total, j + 1, BufSize)
  <2>1. CASE j <= BufSize
    <3>1. SubSeq(total, j + 1, BufSize) \in Seq(File!Byte)
      BY <1>5, <2>1, Section
    <3> QED BY <3>1, LastsEmpty
  <2>2. CASE j > BufSize
    <3>1. SubSeq(total, j + 1, BufSize) = <<>>
      BY <1>5, <2>2, SubSeqEmpty
    <3> QED BY <3>1, LastsEmpty
  <2> QED BY <1>5, <2>1, <2>2
<1>9. h' = [h EXCEPT !.bufErr = TRUE, !.buffer = t] BY <1>4, <1>8
<1>10. h' \in File!Handlers /\ h'.bufErr BY <1>1, <1>9 DEF File!Handlers
<1>11. current' \in Seq(File!Byte) /\ Lasts(current') = Lasts(current) \cup Lasts(s)
  BY <1>1, <1>4, <1>7, LastsConcat
<1>12. /\ past' \in [stream : Seq(File!Byte), shelved : Seq(File!Byte),
                     removed : {past'.removed}, toFlush : Nat]
       /\ past'.shelved = past.shelved
  <2>1. PICK u \in Seq(File!Byte) : u = past.stream \o File!Record
    BY <1>1, <1>2, LastsConcat
  <2>2. past' = [past EXCEPT !.stream = u] BY <2>1 DEF File!AppendFails
  <2> QED BY <1>1, <2>2
<1>13. Filed \subseteq Filed' BY <1>11, <1>12 DEF Filed
<1>14. step' = "idle" /\ now' = now BY DEF File!AppendFails, File!Return
<1>15. FileInv'
  BY <1>10, <1>11, <1>12, <1>14 DEF FileInv, FlushedSteps
<1> QED BY <1>10, <1>13, <1>15 DEF FileKeeps

(* A flush: the file has all the bytes, or an error is noted.              *)
LEMMA FlushOKKeeps ==
  ASSUME FileInv, NEW from, NEW next, File!FlushOK(from, next)
  PROVE  /\ FileInv' /\ FileKeeps /\ ~h.bufErr
         /\ Filed \cup Buffered \subseteq Filed'
<1>1. /\ current \in Seq(File!Byte) /\ h \in File!Handlers /\ h.buffer \in Seq(File!Byte)
      /\ past \in [stream : Seq(File!Byte), shelved : Seq(File!Byte),
                   removed : {past.removed}, toFlush : Nat]
  BY DEF FileInv, File!Handlers
<1>2. /\ ~h.bufErr /\ current' = current \o h.buffer /\ h' = [h EXCEPT !.buffer = <<>>]
      /\ past' = past /\ now' = now
  BY DEF File!FlushOK, File!Goto
<1>3. /\ current' \in Seq(File!Byte)
      /\ Lasts(current') = Lasts(current) \cup Lasts(h.buffer)
  BY <1>1, <1>2, LastsConcat
<1>4. h' \in File!Handlers /\ h'.buffer = <<>> /\ ~h'.bufErr
  BY <1>1, <1>2, LastsEmpty DEF File!Handlers
<1>5. Filed \cup Buffered \subseteq Filed'
  BY <1>2, <1>3 DEF Filed, Buffered
<1>6. FileInv' BY <1>2, <1>3, <1>4 DEF FileInv
<1>7. FileKeeps BY <1>2, <1>5 DEF FileKeeps
<1> QED BY <1>2, <1>5, <1>6, <1>7

LEMMA FlushFailsKeeps ==
  ASSUME FileInv, NEW from, File!FlushFails(from)
  PROVE  FileInv' /\ FileKeeps
<1>1. /\ current \in Seq(File!Byte) /\ h \in File!Handlers /\ h.buffer \in Seq(File!Byte)
      /\ past \in [stream : Seq(File!Byte), shelved : Seq(File!Byte),
                   removed : {past.removed}, toFlush : Nat]
  BY DEF FileInv, File!Handlers
<1>2. step' = "idle" /\ now' = now /\ past' = past
  BY DEF File!FlushFails, File!Return
<1>3. CASE h.bufErr /\ h' = File!GiveUp(h) /\ current' = current
  <2>1. h' \in File!Handlers /\ h'.bufErr
    BY <1>1, <1>3 DEF File!GiveUp, File!Handlers
  <2>2. Filed' = Filed BY <1>2, <1>3 DEF Filed
  <2> QED BY <1>1, <1>2, <1>3, <2>1, <2>2 DEF FileInv, FileKeeps, FlushedSteps
<1>4. CASE ~h.bufErr
  <2>1. PICK j \in 0 .. Len(h.buffer) - 1 :
          /\ current' = current \o SubSeq(h.buffer, 1, j)
          /\ h' = File!GiveUp([h EXCEPT !.bufErr = TRUE,
                                        !.buffer = SubSeq(@, j + 1, Len(@))])
    BY <1>4 DEF File!FlushFails
  <2>2. j \in 0 .. Len(h.buffer) BY <1>1, LenProperties
  <2>3. /\ SubSeq(h.buffer, 1, j) \in Seq(File!Byte)
        /\ SubSeq(h.buffer, j + 1, Len(h.buffer)) \in Seq(File!Byte)
    BY <1>1, <2>2, LastsCut
  <2>4. PICK s \in Seq(File!Byte), t \in Seq(File!Byte) :
          s = SubSeq(h.buffer, 1, j) /\ t = SubSeq(h.buffer, j + 1, Len(h.buffer))
    BY <2>3
  <2>5. /\ current' = current \o s
        /\ h' = File!GiveUp([h EXCEPT !.bufErr = TRUE, !.buffer = t])
    BY <2>1, <2>4
  <2>6. h' \in File!Handlers /\ h'.bufErr
    <3>1. PICK g : g = [h EXCEPT !.bufErr = TRUE, !.buffer = t] OBVIOUS
    <3>2. g \in File!Handlers /\ g.bufErr BY <1>1, <3>1 DEF File!Handlers
    <3> QED BY <2>5, <3>1, <3>2 DEF File!GiveUp, File!Handlers
  <2>7. current' \in Seq(File!Byte) /\ Lasts(current') = Lasts(current) \cup Lasts(s)
    BY <1>1, <2>5, LastsConcat
  <2>8. Filed \subseteq Filed' BY <1>2, <2>7 DEF Filed
  <2>9. FileInv' BY <1>1, <1>2, <2>6, <2>7 DEF FileInv, FlushedSteps
  <2> QED BY <2>6, <2>8, <2>9 DEF FileKeeps
<1> QED BY <1>3, <1>4 DEF File!FlushFails

(* Steps that do not touch what was written.                               *)
LEMMA SameBytesKeeps ==
  ASSUME FileInv, current' = current, past'.shelved = past.shelved,
         past' \in [stream : Seq(File!Byte), shelved : Seq(File!Byte),
                    removed : {past'.removed}, toFlush : Nat],
         h' \in File!Handlers, h'.buffer = h.buffer, h'.bufErr = h.bufErr, now' \in Nat,
         step' \in FlushedSteps => step \in FlushedSteps
  PROVE  FileInv' /\ FileKeeps
<1>1. Filed' = Filed /\ Buffered' = Buffered BY DEF Filed, Buffered
<1>2. FileInv' BY DEF FileInv
<1> QED BY <1>1, <1>2 DEF FileKeeps

LEMMA RenameKeeps ==
  ASSUME FileInv, File!Rename
  PROVE  FileInv' /\ FileKeeps
<1>1. /\ current \in Seq(File!Byte) /\ h \in File!Handlers
      /\ past \in [stream : Seq(File!Byte), shelved : Seq(File!Byte),
                   removed : {past.removed}, toFlush : Nat]
      /\ h.buffer = <<>> /\ ~h.bufErr
  BY DEF FileInv, File!Rename, FlushedSteps
<1>2. /\ current' = <<>> /\ h' = h /\ now' = now
      /\ \E y : past' = [past EXCEPT !.shelved = @ \o current, !.removed = y]
  BY DEF File!Rename, File!Goto
<1>3. PICK u \in Seq(File!Byte) :
        u = past.shelved \o current /\ Lasts(u) = Lasts(past.shelved) \cup Lasts(current)
  BY <1>1, LastsConcat
<1>4. /\ past' \in [stream : Seq(File!Byte), shelved : Seq(File!Byte),
                    removed : {past'.removed}, toFlush : Nat]
      /\ past'.shelved = u
  <2>1. PICK y : past' = [past EXCEPT !.shelved = u, !.removed = y] BY <1>2, <1>3
  <2> QED BY <1>1, <2>1
<1>5. Filed' = Filed /\ Buffered' = Buffered
  <2>1. Lasts(current') = {} BY <1>2, LastsEmpty
  <2> QED BY <1>2, <1>3, <1>4, <2>1 DEF Filed, Buffered
<1>6. FileInv'
  BY <1>1, <1>2, <1>4, LastsEmpty DEF FileInv
<1> QED BY <1>2, <1>5, <1>6 DEF FileKeeps

LEMMA RotateKeeps ==
  ASSUME FileInv, File!Rotate
  PROVE  FileInv' /\ FileKeeps
<1>1. CASE File!FlushOK("flush", "sync") \/ File!FlushFails("flush")
  BY <1>1, FlushOKKeeps, FlushFailsKeeps
<1>2. CASE File!Rename BY <1>2, RenameKeeps
<1>3. CASE \/ File!Sync("sync", "close") \/ File!CloseCurrent \/ File!RenameFails
           \/ File!Reopen \/ File!Cleanup
  <2>1. /\ current' = current /\ now' = now
        /\ past' = past \/ \E y : past' = [past EXCEPT !.removed = y]
    BY <1>3 DEF File!Sync, File!CloseCurrent, File!RenameFails, File!Reopen, File!Cleanup,
                File!disk, File!Goto, File!Return
  <2>2. step \in FlushedSteps
    BY <1>3 DEF File!Sync, File!CloseCurrent, File!RenameFails, File!Reopen, File!Cleanup,
                FlushedSteps
  <2>3. h' \in File!Handlers /\ h'.buffer = h.buffer /\ h'.bufErr = h.bufErr
    <3>1. h \in File!Handlers BY DEF FileInv
    <3>2. \/ h' = h \/ h' = [h EXCEPT !.fileOpen = TRUE]
          \/ h' = [h EXCEPT !.fileOpen = FALSE, !.sinkOpen = FALSE]
      BY <1>3 DEF File!Sync, File!CloseCurrent, File!RenameFails, File!Reopen, File!Cleanup,
                  File!GiveUp, File!Reopened
    <3> QED BY <3>1, <3>2 DEF File!Handlers
  <2>4. /\ now' \in Nat /\ past'.shelved = past.shelved
        /\ past' \in [stream : Seq(File!Byte), shelved : Seq(File!Byte),
                      removed : {past'.removed}, toFlush : Nat]
    <3>1. now \in Nat
          /\ past \in [stream : Seq(File!Byte), shelved : Seq(File!Byte),
                       removed : {past.removed}, toFlush : Nat]
      BY DEF FileInv
    <3>2. CASE past' = past
      BY <2>1, <3>1, <3>2
    <3>3. CASE \E y : past' = [past EXCEPT !.removed = y]
      BY <2>1, <3>1, <3>3
    <3> QED BY <2>1, <3>2, <3>3
  <2> QED BY <2>1, <2>2, <2>3, <2>4, SameBytesKeeps
<1>4. CASE File!OpenNew
  <2>1. /\ current' = current /\ past' = past /\ now' = now /\ now \in Nat
        /\ h \in File!Handlers /\ h.buffer = <<>> /\ ~h.bufErr
    BY <1>4 DEF File!OpenNew, File!disk, File!Goto, File!Return, FileInv, FlushedSteps
  <2>2. h' = File!Opened(0, now) \/ h' = h
    BY <1>4 DEF File!OpenNew, File!Rotated
  <2>3. h' \in File!Handlers /\ h'.buffer = <<>> /\ ~h'.bufErr
    <3>1. CASE h' = h BY <2>1, <3>1
    <3>2. CASE h' = File!Opened(0, now)
      <4>1. PICK b \in Seq(File!Byte) : b = <<>> BY LastsEmpty
      <4>2. h' = [fileOpen |-> TRUE, sinkOpen |-> TRUE, buffer |-> b, bufErr |-> FALSE,
                  currentSize |-> 0, lastRotate |-> now]
        BY <3>2, <4>1 DEF File!Opened
      <4>3. h' \in File!Handlers BY <2>1, <4>2 DEF File!Handlers
      <4> QED BY <4>1, <4>2, <4>3
    <3> QED BY <2>2, <3>1, <3>2
  <2>4. h'.buffer = h.buffer /\ h'.bufErr = h.bufErr
    BY <2>1, <2>3 DEF File!Handlers
  <2>5. step \in FlushedSteps BY <1>4 DEF File!OpenNew, FlushedSteps
  <2>6. past \in [stream : Seq(File!Byte), shelved : Seq(File!Byte),
                  removed : {past.removed}, toFlush : Nat]
    BY DEF FileInv
  <2> QED BY <2>1, <2>3, <2>4, <2>5, <2>6, SameBytesKeeps
<1> QED BY <1>1, <1>2, <1>3, <1>4 DEF File!Rotate

LEMMA OtherFileSteps ==
  ASSUME FileInv,
         \/ File!AppendRefused \/ \E size : File!StartWrite(size)
         \/ File!StartClose \/ File!Sync("finalSync", "finalClose") \/ File!FinalClose
         \/ File!Tick \/ UNCHANGED fileVars
  PROVE  FileInv' /\ FileKeeps
<1>0. /\ h \in File!Handlers /\ now \in Nat
      /\ past \in [stream : Seq(File!Byte), shelved : Seq(File!Byte),
                   removed : {past.removed}, toFlush : Nat]
  BY DEF FileInv
<1>1. current' = current /\ now' \in Nat
  BY <1>0 DEF File!AppendRefused, File!StartWrite, File!StartClose, File!Sync, File!FinalClose,
         File!Tick, fileVars, File!disk, File!Goto, File!Return
<1>2. step' \in FlushedSteps => step \in FlushedSteps
  BY DEF File!AppendRefused, File!StartWrite, File!StartClose, File!Sync, File!FinalClose,
         File!Tick, fileVars, File!Return, FlushedSteps
<1>3. /\ past' \in [stream : Seq(File!Byte), shelved : Seq(File!Byte),
                    removed : {past'.removed}, toFlush : Nat]
      /\ past'.shelved = past.shelved
  <2>1. CASE past' = past BY <1>0, <2>1
  <2>2. CASE past' = [past EXCEPT !.toFlush = Len(past.stream)]
    <3>1. Len(past.stream) \in Nat BY <1>0
    <3> QED BY <1>0, <2>2, <3>1
  <2> QED
    BY <2>1, <2>2 DEF File!AppendRefused, File!StartWrite, File!StartClose, File!Sync,
                      File!FinalClose, File!Tick, fileVars
<1>4. h' \in File!Handlers /\ h'.buffer = h.buffer /\ h'.bufErr = h.bufErr
  <2>1. h' = h \/ h' = [h EXCEPT !.fileOpen = FALSE, !.sinkOpen = FALSE]
    BY DEF File!AppendRefused, File!StartWrite, File!StartClose, File!Sync, File!FinalClose,
           File!Tick, fileVars, File!GiveUp
  <2> QED BY <1>0, <2>1 DEF File!Handlers
<1> QED BY <1>1, <1>2, <1>3, <1>4, SameBytesKeeps

LEMMA InitFile == Init => FileInv
<1> SUFFICES ASSUME Init PROVE FileInv
  OBVIOUS
<1>1. /\ current = <<>> /\ h = File!Opened(0, 0) /\ now = 0 /\ step = "idle"
      /\ past = [stream |-> <<>>, shelved |-> <<>>, removed |-> {}, toFlush |-> 0]
  BY DEF Init, File!Init
<1>2. h \in File!Handlers
  BY <1>1, LastsEmpty DEF File!Opened, File!Handlers
<1>3. past \in [stream : Seq(File!Byte), shelved : Seq(File!Byte),
                removed : {past.removed}, toFlush : Nat]
  BY <1>1, LastsEmpty
<1> QED BY <1>1, <1>2, <1>3, LastsEmpty DEF FileInv, FlushedSteps

-----------------------------------------------------------------------------
(* Who wrote an entry, and what Close finds                                *)

(* The entry of a caller that is writing.                                  *)
Writing == IF owner \in Producers THEN {held[owner]} ELSE {}

(* The entries that callers write are apart from those of the worker, whose *)
(* writes fail only once.  What was accepted when Close began is somewhere *)
(* behind it, and not in the queue that a drain has emptied.               *)
SettledInv ==
  /\ hist.direct \subseteq hist.written \cup hist.failed \cup Writing
  /\ Writing \subseteq hist.direct
  /\ workerPC # "failed" => hist.failed \subseteq hist.direct
  /\ hist.atClose \subseteq Range(queue) \cup Range(taken) \cup hist.discarded
                              \cup ((hist.written \cup hist.failed) \ hist.direct)
  /\ workerPC = "done" /\ drainTimer # "expired" => Range(queue) \cap hist.atClose = {}

(* Entries may go from the queue to the worker or be dropped.              *)
SameWriters ==
  /\ Writing' = Writing /\ hist'.direct = hist.direct /\ hist'.written = hist.written
  /\ hist'.failed = hist.failed /\ hist'.atClose = hist.atClose
  /\ workerPC' = "failed" <=> workerPC = "failed"

LEMMA SettledStays ==
  ASSUME SettledInv, SameWriters,
         Range(queue) \cup Range(taken) \cup hist.discarded
           \subseteq Range(queue') \cup Range(taken') \cup hist'.discarded,
         workerPC' = "done" /\ drainTimer' # "expired" =>
           Range(queue') \cap hist.atClose = {}
  PROVE  SettledInv'
BY DEF SettledInv, SameWriters

(* A caller that does not write leaves alone who does.                     *)
LEMMA SameCallers ==
  ASSUME TypeInv, NEW p \in Producers, CallMoves(p) \/ \E size \in Sizes : HandleLog(p, size)
  PROVE  Writing' = Writing /\ UNCHANGED <<owner, workerPC, drainTimer, taken>>
<1>1. UNCHANGED <<owner, workerPC, drainTimer, taken>> /\ pc[p] # "writing"
  BY MoveFrame DEF HandleLog, workerVars
<1>2. owner # p BY <1>1 DEF TypeInv, CallInv
<1>3. \A q \in Producers \ {p} : held'[q] = held[q]
  BY DEF CallMoves, HandleLog, Send, SendPanics, Drop, FindFull, Evict, StopWaiting, Return,
         Goto, TypeInv, TypeOK
<1> QED BY <1>1, <1>2, <1>3 DEF Writing

LEMMA CallSettled ==
  ASSUME TypeInv, PlaceInv, SettledInv, NEW p \in Producers,
         CallMoves(p) \/ \E size \in Sizes : HandleLog(p, size)
  PROVE  SettledInv'
<1>1. Writing' = Writing /\ UNCHANGED <<owner, workerPC, drainTimer, taken>>
  BY SameCallers
<1>2. hist \in Histories /\ queue \in Seq(Entry)
  BY DEF TypeInv, TypeOK
<1>3. SameWriters
  BY <1>1, <1>2 DEF CallMoves, HandleLog, Send, SendPanics, Drop, FindFull, Evict, StopWaiting,
                    CallKeeps, Histories, SameWriters
<1>4. CASE Send(p)
  <2>1. held[p] \in Entry /\ held[p] # NoEntry /\ queue' = Append(queue, held[p]) /\ hist' = hist
    BY <1>4, HeldEntry, NoEntryAssumption DEF Send, Enqueue, CallKeeps
  <2>2. Range(queue') = Range(queue) \cup {held[p]} BY <1>2, <2>1, AppendRange
  <2>3. held[p] \notin hist.atClose
    <3>1. held[p] \in At["held"] BY <2>1, AtFields DEF InHand
    <3>2. \A x \in Place \ {"held"} : held[p] \notin At[x]
      BY <3>1 DEF PlaceInv, FateInv, Separate, Place
    <3>3. /\ held[p] \notin Range(queue) /\ held[p] \notin Range(taken)
          /\ held[p] \notin hist.discarded /\ held[p] \notin hist.written
          /\ held[p] \notin hist.failed
      BY <3>2, AtFields DEF Place
    <3> QED BY <3>3 DEF SettledInv
  <2>4. workerPC' = "done" /\ drainTimer' # "expired" => Range(queue') \cap hist.atClose = {}
    BY <1>1, <2>2, <2>3 DEF SettledInv
  <2> QED BY <1>1, <1>3, <2>1, <2>2, <2>4, SettledStays
<1>5. CASE Evict(p) /\ queue # <<>>
  <2>1. /\ queue' = Tail(queue)
        /\ hist' = [hist EXCEPT !.discarded = @ \cup {Head(queue)}]
    BY <1>5 DEF Evict
  <2>2. Range(queue) = Range(queue') \cup {Head(queue)}
    BY <1>2, <1>5, <2>1, TailRange DEF PlaceInv
  <2>3. hist'.discarded = hist.discarded \cup {Head(queue)}
    BY <1>2, <2>1 DEF Histories
  <2>4. workerPC' = "done" /\ drainTimer' # "expired" => Range(queue') \cap hist.atClose = {}
    BY <1>1, <2>2 DEF SettledInv
  <2> QED BY <1>1, <1>3, <2>2, <2>3, <2>4, SettledStays
<1>6. CASE \/ Drop(p) \/ SendPanics(p) \/ FindFull(p) \/ StopWaiting(p)
           \/ Evict(p) /\ queue = <<>>
           \/ \E size \in Sizes : HandleLog(p, size)
  <2>1. queue' = queue
    BY <1>6 DEF Drop, SendPanics, FindFull, StopWaiting, Evict, HandleLog, CallKeeps, queueVars
  <2>2. hist.discarded \subseteq hist'.discarded
    BY <1>2, <1>6 DEF Drop, SendPanics, FindFull, StopWaiting, Evict, HandleLog, CallKeeps,
                      Histories
  <2>3. workerPC' = "done" /\ drainTimer' # "expired" => Range(queue') \cap hist.atClose = {}
    BY <1>1, <2>1 DEF SettledInv
  <2> QED BY <1>1, <1>3, <2>1, <2>2, <2>3, SettledStays
<1> QED BY <1>4, <1>5, <1>6 DEF CallMoves

LEMMA CallerWritesSettled ==
  ASSUME TypeInv, PlaceInv, SettledInv, NEW p \in Producers, CallerWrites(p)
  PROVE  SettledInv'
<1>1. /\ BeginWrite(p, <<held[p]>>, held[p].size, {held[p]}) /\ held' = held
      /\ queue' = queue /\ taken' = taken /\ workerPC' = workerPC
      /\ drainTimer' = drainTimer /\ owner = Nobody /\ owner' = p
  BY DEF CallerWrites, CallKeeps, Goto, workerVars, BeginWrite
<1>2. PICK e \in Entry : e = held[p] BY HeldEntry DEF CallerWrites
<1>3. /\ hist'.written = hist.written /\ hist'.failed = hist.failed
      /\ hist'.discarded = hist.discarded /\ hist'.atClose = hist.atClose
      /\ hist'.direct = hist.direct \cup {e}
  BY <1>1, <1>2, WritersStay
<1>4. Writing = {} /\ Writing' = {e}
  BY <1>1, <1>2, Goroutines DEF Writing
<1>5. e \notin hist.written /\ e \notin hist.failed
  <2>1. e \in At["held"] BY <1>2, NoEntryAssumption, AtFields DEF InHand
  <2>2. e \notin At["written"] /\ e \notin At["failed"]
    BY <2>1 DEF PlaceInv, FateInv, Separate, Place
  <2> QED BY <2>2, AtFields
<1> QED BY <1>1, <1>3, <1>4, <1>5 DEF SettledInv

LEMMA EndSettled ==
  ASSUME TypeInv, PlaceInv, SettledInv, owner \in Producers \cup {Worker}, NEW ok \in BOOLEAN,
         EndWrite(ok), queue' = queue
  PROVE  SettledInv'
<1>1. Last(hist.order) = IF owner = Worker THEN taken ELSE <<held[owner]>>
  BY DEF TypeInv, WriteInv
<1>2. PICK R : R = Range(Last(hist.order)) OBVIOUS
<1>3. /\ hist'.written = IF ok THEN hist.written \cup R ELSE hist.written
      /\ hist'.failed = IF ok THEN hist.failed ELSE hist.failed \cup R
      /\ hist'.direct = hist.direct /\ hist'.discarded = hist.discarded
      /\ hist'.atClose = hist.atClose
  BY <1>2 DEF EndWrite, TypeInv, TypeOK, Histories
<1>4. Writing' = {} BY Goroutines DEF EndWrite, Writing
<1>5. CASE owner = Worker
  <2>1. /\ taken' = <<>> /\ R = Range(taken) /\ drainTimer' = drainTimer
        /\ workerPC' = IF ok THEN ResumeLoop ELSE "failed"
    BY <1>1, <1>2, <1>5 DEF EndWrite
  <2>2. Writing = {} BY <1>5, Goroutines DEF Writing
  <2>3. R \cap hist.direct = {}
    <3>1. \A x \in {"written", "failed"} : At["taken"] \cap At[x] = {}
      BY DEF PlaceInv, FateInv, Separate, Place
    <3>2. R \cap hist.written = {} /\ R \cap hist.failed = {}
      BY <2>1, <3>1, AtFields
    <3> QED BY <2>2, <3>2 DEF SettledInv
  <2>4. workerPC' # "done" /\ (workerPC' # "failed" => ok)
    BY <2>1 DEF ResumeLoop
  <2>5. workerPC # "failed" BY <1>5 DEF TypeInv, WorkerInv
  <2>6. Range(taken') = {} BY <2>1 DEF Range
  <2> QED BY <1>3, <1>4, <2>1, <2>2, <2>3, <2>4, <2>5, <2>6, queue' = queue DEF SettledInv
<1>6. CASE owner # Worker
  <2>1. taken' = taken /\ workerPC' = workerPC /\ drainTimer' = drainTimer
    BY <1>6 DEF EndWrite, workerVars
  <2>2. R = Writing BY <1>1, <1>2, <1>6 DEF Range, Writing
  <2>3. R \subseteq hist.direct BY <2>2 DEF SettledInv
  <2> QED BY <1>3, <1>4, <2>1, <2>2, <2>3, queue' = queue DEF SettledInv
<1> QED BY <1>5, <1>6

LEMMA NextSettled == TypeInv /\ PlaceInv /\ SettledInv /\ [Next]_vars => SettledInv'
<1> SUFFICES ASSUME TypeInv, PlaceInv, SettledInv, [Next]_vars PROVE SettledInv'
  OBVIOUS
<1>0. hist \in Histories BY DEF TypeInv, TypeOK
<1>1. CASE SinkStep
  <2>1. owner \in Producers \cup {Worker} /\ UNCHANGED queueVars
    BY <1>1, SinkEffect
  <2>2. CASE UNCHANGED <<owner, callVars, workerVars, hist>>
    BY <2>1, <2>2 DEF queueVars, callVars, workerVars, SettledInv, Writing
  <2>3. CASE \E ok \in BOOLEAN : EndWrite(ok)
    BY <2>1, <2>3, EndSettled DEF queueVars
  <2> QED BY <1>1, <2>2, <2>3, SinkEffect
<1>2. CASE (\E from \in {"select", "batch", "drain"} : Receive(from)) \/ Collect
  <2>1. WorkerTakes /\ owner' = owner
    BY <1>2, WorkerReceives DEF Receive, Collect, WorkerKeeps
  <2>2. workerPC \notin {"done", "failed"} /\ workerPC' \notin {"done", "failed"}
    BY <1>2 DEF Receive, Collect, WorkerKeeps
  <2>3. SameWriters BY <2>1, <2>2 DEF WorkerTakes, Writing, SameWriters
  <2>4. /\ Range(queue) \subseteq Range(queue') \cup Range(taken')
        /\ Range(taken) \subseteq Range(taken')
    <3>1. Range(queue') = Range(queue) \ {Head(queue)}
      BY <2>1, TailRange DEF WorkerTakes, TypeInv, TypeOK, PlaceInv
    <3>2. Range(taken') = Range(taken) \cup {Head(queue)}
      BY <2>1, QueueTail, AppendRange DEF WorkerTakes, TypeInv, TypeOK
    <3> QED BY <3>1, <3>2
  <2> QED BY <2>1, <2>2, <2>3, <2>4, SettledStays DEF WorkerTakes
<1>3. CASE QueueEmpty \/ SeeClosed \/ DrainEnds \/ DeadlineExpires
  <2>1. UNCHANGED <<owner, callVars, queue, taken, hist>>
    BY <1>3 DEF QueueEmpty, SeeClosed, DrainEnds, DeadlineExpires, WorkerKeeps
  <2>2. /\ workerPC' = "failed" <=> workerPC = "failed"
        /\ workerPC' = "done" /\ workerPC # "done" /\ drainTimer' # "expired" => queue = <<>>
        /\ workerPC' = "done" /\ workerPC = "done" /\ drainTimer' # "expired" =>
             drainTimer # "expired"
    BY <1>3 DEF QueueEmpty, SeeClosed, DrainEnds, DeadlineExpires, WorkerKeeps
  <2>3. SameWriters BY <2>1, <2>2 DEF callVars, Writing, SameWriters
  <2>4. queue = <<>> => Range(queue) = {} BY DEF Range
  <2>5. workerPC' = "done" /\ drainTimer' # "expired" => Range(queue') \cap hist.atClose = {}
    BY <2>1, <2>2, <2>4 DEF SettledInv
  <2> QED BY <2>1, <2>3, <2>5, SettledStays
<1>4. CASE WorkerWrites
  <2>1. /\ BeginWrite(Worker, taken, batchLen, {}) /\ owner = Nobody /\ owner' = Worker
        /\ queue' = queue /\ taken' = taken /\ workerPC = "write" /\ workerPC' = "writing"
    BY <1>4 DEF WorkerWrites, WorkerKeeps, BeginWrite
  <2>2. /\ hist'.written = hist.written /\ hist'.failed = hist.failed
        /\ hist'.discarded = hist.discarded /\ hist'.atClose = hist.atClose
        /\ hist'.direct = hist.direct \cup {}
    BY <2>1, WritersStay
  <2>3. hist'.direct = hist.direct BY <2>2
  <2>4. Writing = {} /\ Writing' = {} BY <2>1, Goroutines DEF Writing
  <2> QED BY <2>1, <2>2, <2>3, <2>4 DEF SettledInv
<1>5. CASE CloseSignal
  <2>1. UNCHANGED <<owner, callVars, queue, workerVars>> /\ closerPC = "idle"
    BY <1>5 DEF CloseSignal, CloseKeeps
  <2>2. /\ hist'.written = hist.written /\ hist'.failed = hist.failed
        /\ hist'.direct = hist.direct
        /\ hist'.atClose = Range(queue) \cup Range(taken)
    BY <1>0, <1>5 DEF CloseSignal, Histories
  <2>3. workerPC # "done"
    BY <2>1 DEF TypeInv, WorkerInv, CloserInv
  <2>4. Writing' = Writing BY <2>1 DEF callVars, Writing
  <2> QED BY <2>1, <2>2, <2>3, <2>4 DEF workerVars, SettledInv
<1>6. CASE CloseAwait \/ CloseQueue \/ BeginCloseFile \/ CloseFile
  <2>1. UNCHANGED <<callVars, queue, workerVars, hist>> /\ Writing' = Writing
    <3>1. UNCHANGED <<callVars, queue, workerVars, hist>>
      BY <1>6 DEF CloseAwait, CloseQueue, BeginCloseFile, CloseFile, CloseKeeps
    <3>2. CASE CloseAwait \/ CloseQueue
      <4>1. owner' = owner BY <3>2 DEF CloseAwait, CloseQueue, CloseKeeps
      <4> QED BY <3>1, <4>1 DEF callVars, Writing
    <3>3. CASE BeginCloseFile \/ CloseFile
      <4>1. owner \in {Closer, Nobody} /\ owner' \in {Closer, Nobody}
        BY <3>3 DEF BeginCloseFile, CloseFile
      <4> QED BY <3>1, <4>1, Goroutines DEF Writing
    <3> QED BY <1>6, <3>1, <3>2, <3>3
  <2> QED BY <2>1 DEF workerVars, SettledInv
<1>7. CASE Tick \/ UNCHANGED vars
  <2>1. UNCHANGED <<owner, queueVars, callVars, workerVars, hist>>
    BY <1>7 DEF Tick, vars
  <2> QED BY <2>1 DEF queueVars, callVars, workerVars, Writing, SettledInv
<1> QED
  BY <1>1, <1>2, <1>3, <1>4, <1>5, <1>6, <1>7, CallSettled, CallerWritesSettled
     DEF Next, HandleStep, WorkerStep, CloseStep, CallMoves

LEMMA SettledInvariant == Spec => [](TypeInv /\ PlaceInv /\ SettledInv)
<1>1. Init => SettledInv
  <2> SUFFICES ASSUME Init PROVE SettledInv
    OBVIOUS
  <2>1. Writing = {} BY Goroutines DEF Init, Writing
  <2> QED BY <2>1 DEF Init, SettledInv
<1> QED BY <1>1, NextSettled, PlaceInvariant, PTL DEF Spec

(* Every step keeps what the files have and notices what they have lost.   *)
LEMMA FileProgress ==
  ASSUME TypeInv, FileInv, [Next]_vars PROVE FileInv' /\ FileKeeps
<1>1. CASE SinkStep
  <2>1. pending \in Nat \ {0} /\ env.writes \in Nat
    BY <1>1 DEF SinkStep, TypeInv, WriteInv
  <2> QED
    BY <1>1, <2>1, AppendOKKeeps, AppendFailsKeeps, RotateKeeps, OtherFileSteps DEF SinkStep
<1>2. CASE CloseFile
  BY <1>2, FlushOKKeeps, FlushFailsKeeps, OtherFileSteps DEF CloseFile, File!CloseFile
<1>3. CASE (\E p \in Producers : CallerWrites(p)) \/ WorkerWrites \/ BeginCloseFile \/ Tick
  <2>1. File!StartClose \/ File!Tick \/ \E size : File!StartWrite(size)
    BY <1>3 DEF CallerWrites, WorkerWrites, BeginWrite, BeginCloseFile, Tick
  <2> QED BY <2>1, OtherFileSteps
<1>4. CASE UNCHANGED fileVars
  BY <1>4, OtherFileSteps
<1>5. ASSUME NEW p \in Producers, CallMoves(p) \/ \E size \in Sizes : HandleLog(p, size)
      PROVE  UNCHANGED fileVars
  BY <1>5, MoveFrame DEF HandleLog
<1>6. (\E from \in {"select", "batch", "drain"} : Receive(from)) \/ Collect \/ QueueEmpty
        \/ SeeClosed \/ DrainEnds \/ DeadlineExpires => UNCHANGED fileVars
  BY DEF Receive, Collect, QueueEmpty, SeeClosed, DrainEnds, DeadlineExpires, WorkerKeeps
<1>7. CloseSignal \/ CloseAwait \/ CloseQueue \/ UNCHANGED vars => UNCHANGED fileVars
  BY DEF CloseSignal, CloseAwait, CloseQueue, CloseKeeps, vars
<1> QED
  BY <1>1, <1>2, <1>3, <1>4, <1>5, <1>6, <1>7
     DEF Next, HandleStep, WorkerStep, CloseStep, CallMoves

(* The entry was given to one of the writes K.                             *)
InWrite(e, K) == \E k \in DOMAIN hist.order \cap K : e \in Range(hist.order[k])

(* Close has flushed the buffer.                                           *)
Flushed == closing = "succeeded" \/ step \in {"finalSync", "finalClose"}

(* As long as there is no error, what was written is in the files or in    *)
(* the buffer; what the worker wrote is in the files once Close has        *)
(* flushed, for the worker is gone then.                                   *)
WrittenInv ==
  /\ ~h.bufErr => \A e \in hist.written : InWrite(e, Filed \cup Buffered)
  /\ Flushed => \A e \in hist.written \ hist.direct : InWrite(e, Filed)

OrderGrows == \A k \in DOMAIN hist.order :
                k \in DOMAIN hist'.order /\ hist'.order[k] = hist.order[k]

LEMMA StaysInWrite ==
  ASSUME OrderGrows, NEW e, NEW K, NEW L, K \subseteq L,
         \E k \in DOMAIN hist.order \cap K : e \in Range(hist.order[k])
  PROVE  \E k \in DOMAIN hist'.order \cap L : e \in Range(hist'.order[k])
BY DEF OrderGrows

LEMMA WrittenStays ==
  ASSUME WrittenInv, FileKeeps, OrderGrows, hist'.written = hist.written,
         hist.direct \subseteq hist'.direct, Flushed' => Flushed
  PROVE  WrittenInv'
<1>1. ASSUME ~h'.bufErr, NEW e \in hist'.written
      PROVE  \E k \in DOMAIN hist'.order \cap (Filed' \cup Buffered') :
               e \in Range(hist'.order[k])
  <2>1. ~h.bufErr /\ Filed \cup Buffered \subseteq Filed' \cup Buffered'
    BY <1>1 DEF FileKeeps
  <2>2. \E k \in DOMAIN hist.order \cap (Filed \cup Buffered) : e \in Range(hist.order[k])
    BY <1>1, <2>1 DEF WrittenInv, InWrite
  <2> QED BY <2>1, <2>2, StaysInWrite
<1>2. ASSUME Flushed', NEW e \in hist'.written \ hist'.direct
      PROVE  \E k \in DOMAIN hist'.order \cap Filed' : e \in Range(hist'.order[k])
  <2>1. \E k \in DOMAIN hist.order \cap Filed : e \in Range(hist.order[k])
    BY <1>2 DEF WrittenInv, InWrite
  <2>2. Filed \subseteq Filed' BY DEF FileKeeps
  <2> QED BY <2>1, <2>2, StaysInWrite
<1> QED BY <1>1, <1>2 DEF WrittenInv, InWrite

(* The elements of a batch of one.                                         *)
LEMMA RangeOfOne == \A x : Range(<<x>>) = {x}
<1> SUFFICES ASSUME NEW x PROVE Range(<<x>>) = {x}
  OBVIOUS
<1>1. DOMAIN <<x>> = {1} /\ <<x>>[1] = x
  OBVIOUS
<1> QED
  BY <1>1 DEF Range

(* A write that succeeds.                                                  *)
LEMMA WriteStores ==
  ASSUME TypeInv, SettledInv, FileInv, WrittenInv, SinkStep, File!AppendOK, EndWrite(TRUE)
  PROVE  WrittenInv'
<1>1. /\ owner \in Producers \cup {Worker} /\ pending \in Nat \ {0}
      /\ hist.order \in Seq(Seq(Entry)) /\ hist.order # <<>>
      /\ env.writes = Len(hist.order)
      /\ Last(hist.order) = IF owner = Worker THEN taken ELSE <<held[owner]>>
  BY DEF SinkStep, TypeInv, TypeOK, WriteInv, Histories
<1>2. PICK n \in Nat : n = env.writes BY <1>1
<1>3. /\ n \in DOMAIN hist.order /\ Last(hist.order) = hist.order[n]
  BY <1>1, <1>2 DEF Last
<1>4. PICK R : R = Range(hist.order[n]) OBVIOUS
<1>5. /\ hist'.written = hist.written \cup R /\ hist'.direct = hist.direct
      /\ hist'.order = hist.order
  BY <1>3, <1>4 DEF EndWrite, TypeInv, TypeOK, Histories
<1>6. FileKeeps /\ n \in Filed' \cup Buffered'
  BY <1>1, <1>2, AppendOKKeeps
<1>7. OrderGrows BY <1>5 DEF OrderGrows
<1>8. step' = "idle" /\ closing' = closing
  BY DEF File!AppendOK, File!Return
<1>9. ASSUME ~h'.bufErr, NEW e \in hist'.written
      PROVE  \E k \in DOMAIN hist'.order \cap (Filed' \cup Buffered') :
               e \in Range(hist'.order[k])
  <2>1. CASE e \in R
    BY <1>3, <1>4, <1>5, <1>6, <2>1
  <2>2. CASE e \in hist.written
    <3>1. ~h.bufErr /\ Filed \cup Buffered \subseteq Filed' \cup Buffered'
      BY <1>6, <1>9 DEF FileKeeps
    <3>2. \E k \in DOMAIN hist.order \cap (Filed \cup Buffered) : e \in Range(hist.order[k])
      BY <2>2, <3>1 DEF WrittenInv, InWrite
    <3> QED BY <1>7, <3>1, <3>2, StaysInWrite
  <2> QED BY <1>5, <1>9, <2>1, <2>2
<1>10. ASSUME Flushed', NEW e \in hist'.written \ hist'.direct
       PROVE  \E k \in DOMAIN hist'.order \cap Filed' : e \in Range(hist'.order[k])
  <2>1. closing = "succeeded" BY <1>8, <1>10 DEF Flushed
  <2>2. workerPC # "writing" BY <2>1 DEF TypeInv, CloserInv, WorkerGone
  <2>3. owner # Worker BY <2>2 DEF TypeInv, WorkerInv
  <2>4. R = {held[owner]}
    <3>p. PICK x : x = held[owner] OBVIOUS
    <3>1. Last(hist.order) = <<x>> BY <1>1, <2>3, <3>p
    <3>2. hist.order[n] = <<x>> BY <1>3, <3>1
    <3>3. R = Range(<<x>>) BY <1>4, <3>2
    <3>4. R = {x} BY <3>3, RangeOfOne
    <3> QED BY <3>4, <3>p
  <2>5. R \subseteq hist.direct BY <1>1, <2>3, <2>4 DEF SettledInv, Writing
  <2>6. e \in hist.written \ hist.direct BY <1>5, <1>10, <2>5
  <2>7. \E k \in DOMAIN hist.order \cap Filed : e \in Range(hist.order[k])
    BY <2>1, <2>6 DEF Flushed, WrittenInv, InWrite
  <2>8. Filed \subseteq Filed' BY <1>6 DEF FileKeeps
  <2> QED BY <1>7, <2>7, <2>8, StaysInWrite
<1> QED BY <1>9, <1>10 DEF WrittenInv, InWrite

(* The flush of Close.                                                     *)
LEMMA CloseStores ==
  ASSUME TypeInv, FileInv, WrittenInv, CloseFile
  PROVE  WrittenInv'
<1>1. hist' = hist BY CloseEffect
<1>2. OrderGrows /\ hist'.written = hist.written /\ hist'.direct = hist.direct
  BY <1>1 DEF OrderGrows
<1>3. CASE File!FlushOK("finalFlush", "finalSync")
  <2>1. FileKeeps /\ ~h.bufErr /\ Filed \cup Buffered \subseteq Filed'
    BY <1>3, FlushOKKeeps
  <2>2. ASSUME NEW e \in hist'.written
        PROVE  \E k \in DOMAIN hist'.order \cap Filed' : e \in Range(hist'.order[k])
    <3>1. \E k \in DOMAIN hist.order \cap (Filed \cup Buffered) : e \in Range(hist.order[k])
      BY <1>2, <2>1, <2>2 DEF WrittenInv, InWrite
    <3> QED BY <1>2, <2>1, <3>1, StaysInWrite
  <2>3. ASSUME NEW e \in hist'.written
        PROVE  \E k \in DOMAIN hist'.order \cap (Filed' \cup Buffered') :
                 e \in Range(hist'.order[k])
    BY <2>2
  <2> QED BY <2>2, <2>3 DEF WrittenInv, InWrite
<1>4. CASE \/ File!FlushFails("finalFlush") \/ File!Sync("finalSync", "finalClose")
           \/ File!FinalClose
  <2>1. FileKeeps BY <1>4, FlushFailsKeeps, OtherFileSteps
  <2>2. Flushed' => Flushed
    BY <1>4 DEF File!FlushFails, File!Sync, File!FinalClose, File!Return, Flushed
  <2> QED BY <1>2, <2>1, <2>2, WrittenStays
<1> QED BY <1>3, <1>4 DEF CloseFile, File!CloseFile

LEMMA BeginWritten ==
  ASSUME TypeInv, WrittenInv, FileKeeps, NEW who, NEW entries \in Seq(Entry), NEW size,
         NEW direct, BeginWrite(who, entries, size, direct)
  PROVE  WrittenInv'
<1>1. /\ hist'.written = hist.written /\ hist'.direct = hist.direct \cup direct
      /\ hist'.order = Append(hist.order, entries)
  BY WritersStay
<1>2. PICK o \in Seq(Seq(Entry)) : o = hist.order BY DEF TypeInv, TypeOK, Histories
<1>3. OrderGrows
  <2>1. hist'.order = Append(o, entries) BY <1>1, <1>2
  <2>2. \A k \in DOMAIN o : k \in DOMAIN Append(o, entries) /\ Append(o, entries)[k] = o[k]
    OBVIOUS
  <2> QED BY <1>2, <2>1, <2>2 DEF OrderGrows
<1>4. Flushed' => Flushed
  BY DEF BeginWrite, File!StartWrite, Flushed
<1> QED BY <1>1, <1>3, <1>4, WrittenStays

LEMMA NextWritten ==
  TypeInv /\ SettledInv /\ FileInv /\ WrittenInv /\ [Next]_vars => WrittenInv'
<1> SUFFICES ASSUME TypeInv, SettledInv, FileInv, WrittenInv, [Next]_vars PROVE WrittenInv'
  OBVIOUS
<1>0. hist \in Histories /\ FileKeeps
  BY FileProgress DEF TypeInv, TypeOK
<1>1. ASSUME hist'.order = hist.order, hist'.written = hist.written,
             hist'.direct = hist.direct, Flushed' => Flushed
      PROVE  WrittenInv'
  <2>1. OrderGrows BY <1>1 DEF OrderGrows
  <2> QED BY <1>0, <1>1, <2>1, WrittenStays
<1>2. CASE SinkStep
  <2>1. CASE File!AppendOK /\ EndWrite(TRUE)
    BY <1>2, <2>1, WriteStores
  <2>2. CASE IF step' = "idle" THEN EndWrite(FALSE)
             ELSE UNCHANGED <<owner, callVars, workerVars, hist>>
    <3>1. /\ hist'.order = hist.order /\ hist'.written = hist.written
          /\ hist'.direct = hist.direct
      BY <1>0, <2>2 DEF EndWrite, Histories
    <3>2. Flushed' => Flushed
      BY <1>2, SinkEffect DEF File!RotateSteps, Flushed
    <3> QED BY <1>1, <3>1, <3>2
  <2> QED BY <1>2, <2>1, <2>2 DEF SinkStep
<1>3. CASE CloseFile BY <1>3, CloseStores
<1>4. ASSUME NEW p \in Producers, CallerWrites(p)
      PROVE  WrittenInv'
  <2>1. <<held[p]>> \in Seq(Entry) /\ BeginWrite(p, <<held[p]>>, held[p].size, {held[p]})
    BY <1>4, HeldEntry DEF CallerWrites
  <2> QED BY <1>0, <2>1, BeginWritten
<1>5. CASE WorkerWrites
  <2>1. taken \in Seq(Entry) /\ BeginWrite(Worker, taken, batchLen, {})
    BY <1>5 DEF WorkerWrites, TypeInv, TypeOK
  <2> QED BY <1>0, <2>1, BeginWritten
<1>6. ASSUME NEW p \in Producers, CallMoves(p) \/ \E size \in Sizes : HandleLog(p, size)
      PROVE  WrittenInv'
  <2>1. UNCHANGED fileVars BY <1>6, MoveFrame DEF HandleLog
  <2>2. /\ hist'.order = hist.order /\ hist'.written = hist.written
        /\ hist'.direct = hist.direct
    BY <1>0, <1>6 DEF CallMoves, HandleLog, Send, SendPanics, Drop, FindFull, Evict, StopWaiting,
                      CallKeeps, Histories
  <2> QED BY <1>1, <2>1, <2>2 DEF fileVars, Flushed
<1>7. CASE (\E from \in {"select", "batch", "drain"} : Receive(from)) \/ Collect \/ QueueEmpty
             \/ SeeClosed \/ DrainEnds \/ DeadlineExpires
  <2>1. UNCHANGED <<fileVars, hist>>
    BY <1>7 DEF Receive, Collect, QueueEmpty, SeeClosed, DrainEnds, DeadlineExpires, WorkerKeeps
  <2> QED BY <1>1, <2>1 DEF fileVars, Flushed
<1>8. CASE CloseSignal \/ CloseAwait \/ CloseQueue \/ BeginCloseFile
  <2>1. /\ hist'.order = hist.order /\ hist'.written = hist.written
        /\ hist'.direct = hist.direct
    BY <1>0, <1>8 DEF CloseSignal, CloseAwait, CloseQueue, BeginCloseFile, CloseKeeps, Histories
  <2>2. Flushed' => Flushed
    BY <1>8 DEF CloseSignal, CloseAwait, CloseQueue, BeginCloseFile, CloseKeeps,
                File!StartClose, fileVars, Flushed
  <2> QED BY <1>1, <2>1, <2>2
<1>9. CASE Tick \/ UNCHANGED vars
  <2>1. UNCHANGED <<step, closing, hist>> BY <1>9 DEF Tick, File!Tick, vars, fileVars
  <2> QED BY <1>1, <2>1 DEF Flushed
<1> QED
  BY <1>2, <1>3, <1>4, <1>5, <1>6, <1>7, <1>8, <1>9
     DEF Next, HandleStep, WorkerStep, CloseStep, CallMoves

LEMMA WrittenInvariant == Spec => [](TypeInv /\ SettledInv /\ FileInv /\ WrittenInv)
<1>1. Init => WrittenInv
  BY DEF Init, File!Init, WrittenInv, Flushed
<1>2. TypeInv /\ FileInv /\ [Next]_vars => FileInv'
  BY FileProgress
<1> QED BY <1>1, <1>2, InitFile, NextWritten, SettledInvariant, PTL DEF Spec

(* What has been rotated out is in the backups, or it was removed.         *)
InBackup(b) == \E t \in DOMAIN backups : b \in Range(backups[t])

DiskInv == \A b \in Range(past.shelved) : InBackup(b) \/ b \in past.removed

LEMMA BytesOf ==
  ASSUME NEW files, NEW t \in files, NEW b \in Range(backups[t])
  PROVE  b \in File!BytesIn(files)
BY DEF File!BytesIn, File!Range, Range

LEMMA RangeConcat ==
  ASSUME NEW s \in Seq(File!Byte), NEW t \in Seq(File!Byte)
  PROVE  Range(s \o t) = Range(s) \cup Range(t)
<1>1. /\ Len(s \o t) = Len(s) + Len(t)
      /\ Len(s) \in Nat /\ Len(t) \in Nat
      /\ \A i \in 1 .. Len(s) : (s \o t)[i] = s[i]
      /\ \A i \in 1 .. Len(t) : (s \o t)[Len(s) + i] = t[i]
  OBVIOUS
<1>2. DOMAIN s = 1 .. Len(s) /\ DOMAIN t = 1 .. Len(t) /\ DOMAIN (s \o t) = 1 .. Len(s \o t)
  BY <1>1
<1>3. PICK u : u = s \o t OBVIOUS
<1>4. ASSUME NEW i \in DOMAIN u
      PROVE  u[i] \in Range(s) \cup Range(t)
  <2>1. CASE i \in 1 .. Len(s)
    BY <1>1, <1>2, <1>3, <2>1 DEF Range
  <2>2. CASE i \notin 1 .. Len(s)
    <3>1. i - Len(s) \in 1 .. Len(t) /\ u[i] = t[i - Len(s)]
      BY <1>1, <1>2, <1>3, <2>2
    <3> QED BY <1>2, <3>1 DEF Range
  <2> QED BY <2>1, <2>2
<1>5. ASSUME NEW i \in DOMAIN s
      PROVE  s[i] \in Range(u)
  <2>1. i \in DOMAIN u /\ u[i] = s[i] BY <1>1, <1>2, <1>3
  <2> QED BY <2>1 DEF Range
<1>6. ASSUME NEW i \in DOMAIN t
      PROVE  t[i] \in Range(u)
  <2>1. Len(s) + i \in DOMAIN u /\ u[Len(s) + i] = t[i] BY <1>1, <1>2, <1>3
  <2> QED BY <2>1 DEF Range
<1>7. Range(u) \subseteq Range(s) \cup Range(t) BY <1>4 DEF Range
<1>8. Range(s) \subseteq Range(u) BY <1>5 DEF Range
<1>9. Range(t) \subseteq Range(u) BY <1>6 DEF Range
<1> QED BY <1>3, <1>7, <1>8, <1>9

LEMMA RenameOnDisk ==
  ASSUME FileInv, DiskInv, File!Rename
  PROVE  DiskInv'
<1>1. PICK sec, x, y :
        /\ sec = File!Stamp(now) /\ x = past.shelved \o current
        /\ y = File!BytesIn({sec} \cap DOMAIN backups)
  OBVIOUS
<1>2. /\ backups' = [t \in DOMAIN backups \cup {sec} |->
                       IF t = sec THEN current ELSE backups[t]]
      /\ past' = [past EXCEPT !.shelved = x, !.removed = @ \cup y]
  BY <1>1 DEF File!Rename
<1>3. past'.shelved = x /\ past'.removed = past.removed \cup y
  BY <1>2 DEF FileInv
<1>4. Range(x) = Range(past.shelved) \cup Range(current)
  BY <1>1, RangeConcat DEF FileInv
<1>5. ASSUME NEW b \in Range(current) PROVE InBackup(b)'
  <2>1. sec \in DOMAIN backups' /\ backups'[sec] = current BY <1>2
  <2> QED BY <2>1 DEF InBackup
<1>6. ASSUME NEW b, InBackup(b) PROVE InBackup(b)' \/ b \in y
  <2>1. PICK t \in DOMAIN backups : b \in Range(backups[t])
    BY <1>6 DEF InBackup
  <2>2. CASE t = sec
    <3>1. t \in {sec} \cap DOMAIN backups BY <2>2
    <3> QED BY <1>1, <2>1, <3>1, BytesOf
  <2>3. CASE t # sec
    <3>1. t \in DOMAIN backups' /\ backups'[t] = backups[t] BY <1>2, <2>3
    <3> QED BY <2>1, <3>1 DEF InBackup
  <2> QED BY <2>2, <2>3
<1>7. ASSUME NEW b \in Range(past'.shelved)
      PROVE  InBackup(b)' \/ b \in past'.removed
  <2>1. b \in Range(past.shelved) \/ b \in Range(current) BY <1>3, <1>4
  <2> QED BY <1>3, <1>5, <1>6, <2>1 DEF DiskInv
<1> QED BY <1>7 DEF DiskInv

LEMMA CleanupOnDisk ==
  ASSUME FileInv, DiskInv, File!Cleanup
  PROVE  DiskInv'
<1>1. PICK old \in SUBSET DOMAIN backups :
        /\ backups' = File!Restrict(backups, DOMAIN backups \ old)
        /\ past' = [past EXCEPT !.removed = @ \cup File!BytesIn(old)]
  BY DEF File!Cleanup, File!Oldest
<1>2. PICK y : y = File!BytesIn(old) OBVIOUS
<1>3. past'.shelved = past.shelved /\ past'.removed = past.removed \cup y
  BY <1>1, <1>2 DEF FileInv
<1>4. ASSUME NEW b, InBackup(b) PROVE InBackup(b)' \/ b \in y
  <2>1. PICK t \in DOMAIN backups : b \in Range(backups[t])
    BY <1>4 DEF InBackup
  <2>2. CASE t \in old
    BY <1>2, <2>1, <2>2, BytesOf
  <2>3. CASE t \notin old
    <3>1. t \in DOMAIN backups' /\ backups'[t] = backups[t]
      BY <1>1, <2>3 DEF File!Restrict
    <3> QED BY <2>1, <3>1 DEF InBackup
  <2> QED BY <2>2, <2>3
<1>5. ASSUME NEW b \in Range(past'.shelved)
      PROVE  InBackup(b)' \/ b \in past'.removed
  BY <1>3, <1>4 DEF DiskInv
<1> QED BY <1>5 DEF DiskInv

LEMMA OthersOnDisk ==
  ASSUME FileInv, [Next]_vars, ~ File!Rename, ~ File!Cleanup
  PROVE  /\ backups' = backups
         /\ past'.shelved = past.shelved /\ past'.removed = past.removed
<1>1. backups' = backups
  BY DEF Next, HandleLog, HandleStep, Send, SendPanics, Drop, FindFull, Evict, StopWaiting,
         CallerWrites, BeginWrite, SinkStep, WorkerStep, Receive, Collect, QueueEmpty,
         SeeClosed, DrainEnds, WorkerWrites, DeadlineExpires, CloseStep, CloseSignal,
         CloseAwait, CloseQueue, BeginCloseFile, CloseFile, Tick, CallKeeps, WorkerKeeps,
         CloseKeeps, vars, fileVars, File!StartWrite, File!AppendOK, File!AppendFails,
         File!AppendRefused, File!Rotate, File!CloseFile, File!FlushOK, File!FlushFails,
         File!Sync, File!CloseCurrent, File!RenameFails, File!Reopen, File!OpenNew,
         File!StartClose, File!FinalClose, File!Tick, File!disk
<1>2. \/ past' = past
      \/ \E u : past' = [past EXCEPT !.stream = u]
      \/ \E n : past' = [past EXCEPT !.toFlush = n]
  BY DEF Next, HandleLog, HandleStep, Send, SendPanics, Drop, FindFull, Evict, StopWaiting,
         CallerWrites, BeginWrite, SinkStep, WorkerStep, Receive, Collect, QueueEmpty,
         SeeClosed, DrainEnds, WorkerWrites, DeadlineExpires, CloseStep, CloseSignal,
         CloseAwait, CloseQueue, BeginCloseFile, CloseFile, Tick, CallKeeps, WorkerKeeps,
         CloseKeeps, vars, fileVars, File!StartWrite, File!AppendOK, File!AppendFails,
         File!AppendRefused, File!Rotate, File!CloseFile, File!FlushOK, File!FlushFails,
         File!Sync, File!CloseCurrent, File!RenameFails, File!Reopen, File!OpenNew,
         File!StartClose, File!FinalClose, File!Tick
<1> QED BY <1>1, <1>2 DEF FileInv

LEMMA DiskInvariant == Spec => [](FileInv /\ DiskInv)
<1>1. Init => DiskInv
  <2>1. Range(<<>>) = {} BY DEF Range
  <2> QED BY <2>1 DEF Init, File!Init, DiskInv
<1>2. FileInv /\ DiskInv /\ [Next]_vars => DiskInv'
  <2> SUFFICES ASSUME FileInv, DiskInv, [Next]_vars PROVE DiskInv'
    OBVIOUS
  <2>1. CASE ~ File!Rename /\ ~ File!Cleanup
    BY <2>1, OthersOnDisk DEF DiskInv, InBackup
  <2> QED BY <2>1, RenameOnDisk, CleanupOnDisk
<1> QED BY <1>1, <1>2, WrittenInvariant, PTL DEF Spec

(* An entry whose last byte is in a file is stored, or its backup was      *)
(* removed.                                                                *)
LEMMA FiledIsStored ==
  ASSUME FileInv, DiskInv, NEW e, InWrite(e, Filed)
  PROVE  Stored(e) \/ Removed(e)
<1>1. PICK k \in DOMAIN hist.order \cap Filed : e \in Range(hist.order[k])
  BY DEF InWrite
<1>2. PICK b : b = [rec |-> k, last |-> TRUE] OBVIOUS
<1>3. b \in LastBytes(e) BY <1>1, <1>2 DEF LastBytes
<1>4. ASSUME NEW s \in Seq(File!Byte), k \in Lasts(s)
      PROVE  b \in Range(s)
  <2>1. PICK i \in DOMAIN s : s[i].last /\ s[i].rec = k BY <1>4 DEF Lasts
  <2>2. s[i] \in File!Byte BY ElementOfSeq, LenProperties
  <2>3. s[i] = b BY <1>2, <2>1, <2>2 DEF File!Byte
  <2> QED BY <2>1, <2>3 DEF Range
<1>5. CASE k \in Lasts(current)
  <2>1. b \in Range(current) BY <1>4, <1>5 DEF FileInv
  <2> QED BY <1>3, <2>1 DEF Stored
<1>6. CASE k \in Lasts(past.shelved)
  <2>1. b \in Range(past.shelved) BY <1>4, <1>6 DEF FileInv
  <2>2. CASE b \in past.removed BY <1>3, <2>2 DEF Removed
  <2>3. CASE InBackup(b) BY <1>3, <2>3 DEF InBackup, Stored
  <2> QED BY <2>1, <2>2, <2>3 DEF DiskInv
<1> QED BY <1>1, <1>5, <1>6 DEF Filed

(* StoredOnClose: when Close has returned nil and the drain neither met    *)
(* its deadline nor an error, all that was accepted before Close and not   *)
(* dropped is in the log file or in a backup, or it was in a backup that a *)
(* cleanup or a rotation of its second has taken away: process empties the *)
(* queue into bufio.Writer before it ends, Close flushes only then, and    *)
(* nothing else loses what bufio.Writer holds without an error that sticks *)
(* (handler/filehandler/file_async.go, process and Close, and file.go,     *)
(* rotate and closeFile).                                                  *)
THEOREM StoredOnCloseAlways == Spec => []StoredOnClose
<1>1. TypeInv /\ SettledInv /\ FileInv /\ WrittenInv /\ DiskInv => StoredOnClose
  <2> SUFFICES ASSUME TypeInv, SettledInv, FileInv, WrittenInv, DiskInv,
                      closing = "succeeded", workerPC = "done", drainTimer # "expired",
                      NEW e \in hist.atClose, e \notin hist.discarded
               PROVE  Stored(e) \/ Removed(e)
    BY DEF StoredOnClose
  <2>1. taken = <<>> BY DEF TypeInv, WorkerInv
  <2>2. e \notin Range(taken) BY <2>1 DEF Range
  <2>3. e \notin Range(queue) BY DEF SettledInv
  <2>4. e \in hist.written \ hist.direct BY <2>2, <2>3 DEF SettledInv
  <2>5. InWrite(e, Filed) BY <2>4 DEF WrittenInv, Flushed
  <2> QED BY <2>5, FiledIsStored
<1> QED BY <1>1, WrittenInvariant, DiskInvariant, PTL

-----------------------------------------------------------------------------
(* The file below                                                          *)

LEMMA SinkSteps ==
  ASSUME TypeInv, pending' <= MaxRecord, [Next]_vars
  PROVE  [File!Next]_(File!vars)
<1>1. UNCHANGED fileVars => UNCHANGED (File!vars)
  BY DEF fileVars, File!vars, File!disk
<1>2. CASE SinkStep \/ CloseFile \/ BeginCloseFile \/ Tick
  BY <1>2 DEF SinkStep, CloseFile, BeginCloseFile, Tick, File!Next
<1>3. ASSUME NEW size \in Nat \ {0}, File!StartWrite(size)
      PROVE  File!Next
  <2>1. size \in 1 .. MaxRecord
    <3>1. pending' = size /\ MaxRecord \in Nat
      BY <1>3, FileAssumption DEF File!StartWrite
    <3> QED BY <3>1
  <2> QED BY <1>3, <2>1 DEF File!Next
<1>4. ASSUME NEW p \in Producers, CallerWrites(p)
      PROVE  File!Next
  <2>1. held[p] \in Entry /\ File!StartWrite(held[p].size)
    BY <1>4, HeldEntry DEF CallerWrites, BeginWrite
  <2> QED BY <1>3, <2>1, EntrySize
<1>5. CASE WorkerWrites
  <2>1. File!StartWrite(batchLen) /\ batchLen \in Nat \ {0}
    BY <1>5 DEF WorkerWrites, BeginWrite, TypeInv, TypeOK, WorkerInv
  <2> QED BY <1>3, <2>1
<1>6. ASSUME NEW p \in Producers, CallMoves(p) \/ \E size \in Sizes : HandleLog(p, size)
      PROVE  UNCHANGED fileVars
  BY <1>6, MoveFrame DEF HandleLog
<1>7. (\E from \in {"select", "batch", "drain"} : Receive(from)) \/ Collect \/ QueueEmpty
        \/ SeeClosed \/ DrainEnds \/ DeadlineExpires => UNCHANGED fileVars
  BY DEF Receive, Collect, QueueEmpty, SeeClosed, DrainEnds, DeadlineExpires, WorkerKeeps
<1>8. CloseSignal \/ CloseAwait \/ CloseQueue \/ UNCHANGED vars => UNCHANGED fileVars
  BY DEF CloseSignal, CloseAwait, CloseQueue, CloseKeeps, vars
<1> QED
  BY <1>1, <1>2, <1>4, <1>5, <1>6, <1>7, <1>8
     DEF Next, HandleStep, WorkerStep, CloseStep, CallMoves

(* Callers, the worker and Close that compete for fileBase.mu use the file *)
(* as FileSink says, one call after the other, so what is proved there     *)
(* holds here; MaxRecord is the length of the longest write, a batch of    *)
(* the older worker included (handler/filehandler/file_async.go,           *)
(* handler/file.go).                                                       *)
THEOREM ImplementsFileSink == Spec /\ [](pending <= MaxRecord) => File!Spec
<1>1. Init => File!Init BY DEF Init
<1>2. TypeInv /\ (pending <= MaxRecord)' /\ [Next]_vars => [File!Next]_(File!vars)
  BY SinkSteps
<1> QED BY <1>1, <1>2, TypeInvAlways, PTL DEF Spec, File!Spec

-----------------------------------------------------------------------------
(* Writes behind Close                                                     *)

(* When Close has returned nil, no caller is in a write.                   *)
NoLateWriter == closing = "succeeded" => \A p \in Producers : pc[p] # "writing"

(* Behind the flush of Close all writes are in the files, those of callers *)
(* too.                                                                    *)
AllFiledInv == Flushed => \A e \in hist.written : InWrite(e, Filed)

AllStored ==
  closing = "succeeded" => \A e \in hist.written : Stored(e) \/ Removed(e)

LEMMA FiledStays ==
  ASSUME AllFiledInv, FileKeeps, OrderGrows, hist'.written = hist.written,
         Flushed' => Flushed
  PROVE  AllFiledInv'
<1>1. ASSUME Flushed', NEW e \in hist'.written
      PROVE  \E k \in DOMAIN hist'.order \cap Filed' : e \in Range(hist'.order[k])
  <2>1. \E k \in DOMAIN hist.order \cap Filed : e \in Range(hist.order[k])
    BY <1>1 DEF AllFiledInv, InWrite
  <2>2. Filed \subseteq Filed' BY DEF FileKeeps
  <2> QED BY <2>1, <2>2, StaysInWrite
<1> QED BY <1>1 DEF AllFiledInv, InWrite

LEMMA BeginFiled ==
  ASSUME TypeInv, AllFiledInv, FileKeeps, NEW who, NEW entries \in Seq(Entry), NEW size,
         NEW direct, BeginWrite(who, entries, size, direct)
  PROVE  AllFiledInv'
<1>1. hist'.written = hist.written /\ hist'.order = Append(hist.order, entries)
  BY WritersStay
<1>2. PICK o \in Seq(Seq(Entry)) : o = hist.order BY DEF TypeInv, TypeOK, Histories
<1>3. OrderGrows
  <2>1. hist'.order = Append(o, entries) BY <1>1, <1>2
  <2>2. \A k \in DOMAIN o : k \in DOMAIN Append(o, entries) /\ Append(o, entries)[k] = o[k]
    OBVIOUS
  <2> QED BY <1>2, <2>1, <2>2 DEF OrderGrows
<1>4. Flushed' => Flushed
  BY DEF BeginWrite, File!StartWrite, Flushed
<1> QED BY <1>1, <1>3, <1>4, FiledStays

(* The flush of Close takes what callers wrote as well.                    *)
LEMMA CloseFiles ==
  ASSUME TypeInv, FileInv, WrittenInv, AllFiledInv, CloseFile
  PROVE  AllFiledInv'
<1>1. hist' = hist BY CloseEffect
<1>2. OrderGrows /\ hist'.written = hist.written
  BY <1>1 DEF OrderGrows
<1>3. CASE File!FlushOK("finalFlush", "finalSync")
  <2>1. FileKeeps /\ ~h.bufErr /\ Filed \cup Buffered \subseteq Filed'
    BY <1>3, FlushOKKeeps
  <2>2. ASSUME NEW e \in hist'.written
        PROVE  \E k \in DOMAIN hist'.order \cap Filed' : e \in Range(hist'.order[k])
    <3>1. \E k \in DOMAIN hist.order \cap (Filed \cup Buffered) : e \in Range(hist.order[k])
      BY <1>2, <2>1, <2>2 DEF WrittenInv, InWrite
    <3> QED BY <1>2, <2>1, <3>1, StaysInWrite
  <2> QED BY <2>2 DEF AllFiledInv, InWrite
<1>4. CASE \/ File!FlushFails("finalFlush") \/ File!Sync("finalSync", "finalClose")
           \/ File!FinalClose
  <2>1. FileKeeps BY <1>4, FlushFailsKeeps, OtherFileSteps
  <2>2. Flushed' => Flushed
    BY <1>4 DEF File!FlushFails, File!Sync, File!FinalClose, File!Return, Flushed
  <2> QED BY <1>2, <2>1, <2>2, FiledStays
<1> QED BY <1>3, <1>4 DEF CloseFile, File!CloseFile

LEMMA NextFiled ==
  TypeInv /\ SettledInv /\ FileInv /\ WrittenInv /\ AllFiledInv /\ NoLateWriter
    /\ [Next]_vars => AllFiledInv'
<1> SUFFICES ASSUME TypeInv, SettledInv, FileInv, WrittenInv, AllFiledInv, NoLateWriter,
                    [Next]_vars
             PROVE  AllFiledInv'
  OBVIOUS
<1>0. hist \in Histories /\ FileKeeps
  BY FileProgress DEF TypeInv, TypeOK
<1>1. ASSUME hist'.order = hist.order, hist'.written = hist.written, Flushed' => Flushed
      PROVE  AllFiledInv'
  <2>1. OrderGrows BY <1>1 DEF OrderGrows
  <2> QED BY <1>0, <1>1, <2>1, FiledStays
<1>2. CASE SinkStep
  <2>1. CASE File!AppendOK /\ EndWrite(TRUE)
    <3>1. step' = "idle" /\ closing' = closing /\ owner \in Producers \cup {Worker}
      BY <1>2, <2>1 DEF File!AppendOK, File!Return, SinkStep
    <3>2. closing # "succeeded"
      <4> SUFFICES ASSUME closing = "succeeded" PROVE FALSE
        OBVIOUS
      <4>1. workerPC # "writing" BY DEF TypeInv, CloserInv, WorkerGone
      <4>2. owner # Worker BY <4>1 DEF TypeInv, WorkerInv
      <4>3. owner \in Producers /\ pc[owner] = "writing"
        BY <3>1, <4>2 DEF TypeInv, CallInv
      <4> QED BY <4>3 DEF NoLateWriter
    <3> QED BY <3>1, <3>2 DEF Flushed, AllFiledInv
  <2>2. CASE IF step' = "idle" THEN EndWrite(FALSE)
             ELSE UNCHANGED <<owner, callVars, workerVars, hist>>
    <3>1. hist'.order = hist.order /\ hist'.written = hist.written
      BY <1>0, <2>2 DEF EndWrite, Histories
    <3>2. Flushed' => Flushed
      BY <1>2, SinkEffect DEF File!RotateSteps, Flushed
    <3> QED BY <1>1, <3>1, <3>2
  <2> QED BY <1>2, <2>1, <2>2 DEF SinkStep
<1>3. CASE CloseFile BY <1>3, CloseFiles
<1>4. ASSUME NEW p \in Producers, CallerWrites(p)
      PROVE  AllFiledInv'
  <2>1. <<held[p]>> \in Seq(Entry) /\ BeginWrite(p, <<held[p]>>, held[p].size, {held[p]})
    BY <1>4, HeldEntry DEF CallerWrites
  <2> QED BY <1>0, <2>1, BeginFiled
<1>5. CASE WorkerWrites
  <2>1. taken \in Seq(Entry) /\ BeginWrite(Worker, taken, batchLen, {})
    BY <1>5 DEF WorkerWrites, TypeInv, TypeOK
  <2> QED BY <1>0, <2>1, BeginFiled
<1>6. ASSUME NEW p \in Producers, CallMoves(p) \/ \E size \in Sizes : HandleLog(p, size)
      PROVE  AllFiledInv'
  <2>1. UNCHANGED fileVars BY <1>6, MoveFrame DEF HandleLog
  <2>2. hist'.order = hist.order /\ hist'.written = hist.written
    BY <1>0, <1>6 DEF CallMoves, HandleLog, Send, SendPanics, Drop, FindFull, Evict, StopWaiting,
                      CallKeeps, Histories
  <2> QED BY <1>1, <2>1, <2>2 DEF fileVars, Flushed
<1>7. CASE (\E from \in {"select", "batch", "drain"} : Receive(from)) \/ Collect \/ QueueEmpty
             \/ SeeClosed \/ DrainEnds \/ DeadlineExpires
  <2>1. UNCHANGED <<fileVars, hist>>
    BY <1>7 DEF Receive, Collect, QueueEmpty, SeeClosed, DrainEnds, DeadlineExpires, WorkerKeeps
  <2> QED BY <1>1, <2>1 DEF fileVars, Flushed
<1>8. CASE CloseSignal \/ CloseAwait \/ CloseQueue \/ BeginCloseFile
  <2>1. hist'.order = hist.order /\ hist'.written = hist.written
    BY <1>0, <1>8 DEF CloseSignal, CloseAwait, CloseQueue, BeginCloseFile, CloseKeeps, Histories
  <2>2. Flushed' => Flushed
    BY <1>8 DEF CloseSignal, CloseAwait, CloseQueue, BeginCloseFile, CloseKeeps,
                File!StartClose, fileVars, Flushed
  <2> QED BY <1>1, <2>1, <2>2
<1>9. CASE Tick \/ UNCHANGED vars
  <2>1. UNCHANGED <<step, closing, hist>> BY <1>9 DEF Tick, File!Tick, vars, fileVars
  <2> QED BY <1>1, <2>1 DEF Flushed
<1> QED
  BY <1>2, <1>3, <1>4, <1>5, <1>6, <1>7, <1>8, <1>9
     DEF Next, HandleStep, WorkerStep, CloseStep, CallMoves

(* Every record whose write returned nil, by the worker or by a caller     *)
(* whose fallback it was, is in the log file or in a backup when Close has *)
(* returned nil, or was in a backup that a cleanup or a rotation of its    *)
(* second has taken away: as long as no caller writes behind Close.  In    *)
(* particular FallbackIsStored, which only such a caller violates          *)
(* (file_async.go, Handle and Close).                                      *)
THEOREM AllStoredUnlessLate == Spec /\ []NoLateWriter => []AllStored
<1>1. Init => AllFiledInv
  BY DEF Init, File!Init, AllFiledInv, Flushed
<1>2. ASSUME FileInv, DiskInv, AllFiledInv PROVE AllStored
  BY <1>2, FiledIsStored DEF AllFiledInv, AllStored, Flushed
<1> QED BY <1>1, <1>2, NextFiled, WrittenInvariant, DiskInvariant, PTL DEF Spec
==============================================================================
