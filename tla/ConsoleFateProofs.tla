--------------------------- MODULE ConsoleFateProofs ---------------------------
(***************************************************************************)
(* Where the entries of AsyncConsole are, for any number of goroutines and *)
(* entries: every step of the handler leaves the entries alone, creates    *)
(* one, or moves one from a place to the next one.                         *)
(***************************************************************************)
EXTENDS AsyncConsoleProofs, FiniteSetTheorems

Place == {"held", "queued", "taken", "written", "discarded", "failed"}

Located == [held      |-> InHand,
            queued    |-> InQueue,
            taken     |-> InWorker,
            written   |-> Written,
            discarded |-> hist.discarded,
            failed    |-> hist.failed]

PlaceMap == [Place -> SUBSET Entry]

(* One entry is somewhere else; one more entry is with its caller.         *)
Transfer(L, M, e, x, y) == M = [L EXCEPT ![x] = @ \ {e}, ![y] = @ \cup {e}]
Arrival(L, M, e) == M = [L EXCEPT !["held"] = @ \cup {e}]

Separate(L) == \A x, y \in Place : x # y => L[x] \cap L[y] = {}

(* A caller whose entry is on its way holds nothing any more, and the      *)
(* worker nothing when it does not write.                                  *)
IdleInv ==
  /\ \A p \in Producers : pc[p] \in {"idle", "disarmSent"} => held[p] = NoEntry
  /\ workerPC \notin {"lock", "write"} => taken = NoEntry

(* A caller holds the entry of its current call.                           *)
HandInv ==
  \A p \in Producers :
    held[p] # NoEntry => held[p].src = p /\ held[p].seq = logged[p]

(* An entry is as old as a call that was made, and older than the entry    *)
(* its producer holds.                                                     *)
AgeInv ==
  \A x \in Place : \A e \in Located[x] :
    /\ e.seq <= logged[e.src]
    /\ x # "held" /\ held[e.src] # NoEntry => e.seq < logged[e.src]

(* Every call that was made has its entry somewhere.                       *)
BornInv ==
  \A p \in Producers : \A n \in 1 .. logged[p] :
    \E level \in LogLevels : \E x \in Place :
      [src |-> p, seq |-> n, level |-> level] \in Located[x]

OnceInv == IsInjective(queue) /\ IsInjective(hist.out)

FateInv == HandInv /\ Separate(Located) /\ AgeInv /\ BornInv

PlaceInv == IdleInv /\ FateInv /\ OnceInv

-----------------------------------------------------------------------------
(* Sequences of entries                                                    *)

LEMMA InRange ==
  ASSUME NEW S, NEW q \in Seq(S), NEW e
  PROVE  e \in Range(q) <=> \E i \in 1 .. Len(q) : e = q[i]
BY DEF Range

LEMMA AppendRange ==
  ASSUME NEW S, NEW q \in Seq(S), NEW e \in S
  PROVE  Range(Append(q, e)) = Range(q) \cup {e}
<1>1. Append(q, e) = q \o <<e>>
  BY AppendIsConcat
<1>2. Range(<<e>>) = {e}
  BY DEF Range
<1>3. Range(q \o <<e>>) = Range(q) \cup Range(<<e>>)
  BY RangeConcatenation, <<e>> \in Seq(S)
<1> QED BY <1>1, <1>2, <1>3

LEMMA AppendOnce ==
  ASSUME NEW S, NEW q \in Seq(S), NEW e \in S, IsInjective(q), e \notin Range(q)
  PROVE  IsInjective(Append(q, e))
<1>1. /\ Len(Append(q, e)) = Len(q) + 1 /\ Append(q, e) \in Seq(S)
      /\ \A i \in 1 .. Len(q) : Append(q, e)[i] = q[i] /\ q[i] # e
      /\ Append(q, e)[Len(q) + 1] = e
  BY AppendProperties DEF Range
<1> QED BY <1>1 DEF IsInjective

LEMMA TailRange ==
  ASSUME NEW S, NEW q \in Seq(S), q # <<>>, IsInjective(q)
  PROVE  /\ Head(q) \in Range(q)
         /\ Range(Tail(q)) = Range(q) \ {Head(q)}
         /\ IsInjective(Tail(q))
<1>1. /\ Tail(q) \in Seq(S) /\ Len(Tail(q)) = Len(q) - 1
      /\ \A i \in 1 .. Len(Tail(q)) : Tail(q)[i] = q[i + 1]
      /\ Head(q) = q[1] /\ Len(q) \in Nat \ {0}
  BY HeadTailProperties
<1>2. \A i, j \in 1 .. Len(q) : q[i] = q[j] => i = j
  BY DEF IsInjective
<1>3. Head(q) \in Range(q)
  BY <1>1 DEF Range
<1>4. IsInjective(Tail(q))
  BY <1>1, <1>2 DEF IsInjective
<1>5. ASSUME NEW r \in Range(Tail(q))
      PROVE  r \in Range(q) \ {Head(q)}
  <2>1. PICK i \in 1 .. Len(Tail(q)) : r = Tail(q)[i]
    BY <1>1 DEF Range
  <2>2. r = q[i + 1] /\ i + 1 \in 1 .. Len(q) /\ i + 1 # 1
    BY <1>1, <2>1
  <2> QED BY <1>1, <1>2, <2>2 DEF Range
<1>6. ASSUME NEW r \in Range(q) \ {Head(q)}
      PROVE  r \in Range(Tail(q))
  <2>1. PICK i \in 1 .. Len(q) : r = q[i]
    BY <1>6, RangeEquality
  <2>2. i # 1
    BY <1>1, <1>6, <2>1
  <2>3. i - 1 \in 1 .. Len(Tail(q)) /\ Tail(q)[i - 1] = r
    BY <1>1, <2>1, <2>2
  <2>4. Range(Tail(q)) = {Tail(q)[j] : j \in 1 .. Len(Tail(q))}
    <3>p. PICK rest : rest = Tail(q)
      OBVIOUS
    <3>1. rest \in Seq(S)
      BY <1>1, <3>p
    <3>2. Range(rest) = {rest[j] : j \in 1 .. Len(rest)}
      BY <3>1, RangeEquality
    <3> QED BY <3>p, <3>2
  <2> QED BY <2>3, <2>4
<1> QED BY <1>3, <1>4, <1>5, <1>6

-----------------------------------------------------------------------------
(* What a step does to the entries                                         *)

(* The entry e goes from the place x to the place y.                       *)
EntryMoves(e, x, y) ==
  /\ e \in Located[x]
  /\ Transfer(Located, Located', e, x, y)
  /\ logged' = logged
  /\ held' = IF x = "held" THEN [held EXCEPT ![e.src] = NoEntry] ELSE held

(* The next call of the producer p brings an entry into being.             *)
EntryBorn(p, e) ==
  /\ held[p] = NoEntry
  /\ e.src = p /\ e.seq = logged[p] + 1
  /\ Arrival(Located, Located', e)
  /\ logged' = [logged EXCEPT ![p] = @ + 1]
  /\ held' = [held EXCEPT ![p] = e]

EntriesStay == Located' = Located /\ logged' = logged /\ held' = held

(* The moves of entries RecordFate allows.                                 *)
Paths == {<<"held", "queued">>, <<"held", "discarded">>, <<"held", "written">>,
          <<"held", "failed">>, <<"queued", "taken">>,
          <<"queued", "discarded">>, <<"taken", "written">>,
          <<"taken", "failed">>}

LEMMA LocatedType ==
  ASSUME TypeInv
  PROVE  /\ Located \in PlaceMap
         /\ Located["held"] = InHand /\ Located["queued"] = InQueue
         /\ Located["taken"] = InWorker /\ Located["written"] = Written
         /\ Located["discarded"] = hist.discarded
         /\ Located["failed"] = hist.failed
<1>1. InHand \subseteq Entry /\ InWorker \subseteq Entry
  BY DEF TypeInv, CallInv, CallTypeOK, WorkerInv, WorkerTypeOK, InHand, InWorker
<1>2. InQueue \subseteq Entry
  BY RangeOfSeq DEF TypeInv, QueueTypeOK, InQueue
<1>3. Written \subseteq Entry
  BY RangeOfSeq DEF TypeInv, HistoryTypeOK, Written
<1>4. hist.discarded \subseteq Entry /\ hist.failed \subseteq Entry
  BY DEF TypeInv, HistoryTypeOK
<1> QED BY <1>1, <1>2, <1>3, <1>4 DEF Located, Place, PlaceMap

(* What a caller gives up leaves the hands, and nothing else does.         *)
LEMMA HandEmptied ==
  ASSUME TypeInv, HandInv, NEW p \in Producers, held[p] \in Entry,
         held' = [held EXCEPT ![p] = NoEntry]
  PROVE  InHand' = InHand \ {held[p]}
<1>1. held \in [Producers -> Entry \cup {NoEntry}]
  BY DEF TypeInv, CallInv, CallTypeOK
<1>2. \A q \in Producers : held[q] = held[p] => q = p
  BY NoEntryAssumption DEF HandInv
<1>3. held[p] # NoEntry
  BY NoEntryAssumption
<1> QED BY <1>1, <1>2, <1>3 DEF InHand

LEMMA HandFilled ==
  ASSUME TypeInv, NEW p \in Producers, held[p] = NoEntry, NEW e \in Entry,
         held' = [held EXCEPT ![p] = e]
  PROVE  InHand' = InHand \cup {e}
<1>1. held \in [Producers -> Entry \cup {NoEntry}]
  BY DEF TypeInv, CallInv, CallTypeOK
<1>2. e # NoEntry
  BY NoEntryAssumption
<1>3. \A q \in Producers : held'[q] = IF q = p THEN e ELSE held[q]
  BY <1>1
<1> QED BY <1>2, <1>3 DEF InHand
-----------------------------------------------------------------------------
(* The places after a step                                                 *)

LEMMA MoveWhere ==
  ASSUME NEW L \in PlaceMap, NEW x \in Place, NEW y \in Place,
         x # y, NEW e \in L[x], Separate(L),
         NEW M, Transfer(L, M, e, x, y)
  PROVE  /\ Separate(M)
         /\ \A z \in Place : \A r :
              r \in M[z] <=> (r # e /\ r \in L[z]) \/ (r = e /\ z = y)
<1>1. \A z \in Place : z # x => e \notin L[z]
  BY DEF Separate
<1>2. \A z \in Place : M[z] = IF z = x THEN L[z] \ {e}
                              ELSE IF z = y THEN L[z] \cup {e} ELSE L[z]
  BY DEF Transfer, PlaceMap
<1>3. \A z \in Place : \A r :
        r \in M[z] <=> (r # e /\ r \in L[z]) \/ (r = e /\ z = y)
  BY <1>1, <1>2
<1>4. ASSUME NEW z \in Place, NEW w \in Place, z # w
      PROVE  M[z] \cap M[w] = {}
  BY <1>3, <1>4 DEF Separate
<1> QED BY <1>3, <1>4 DEF Separate

LEMMA BornWhere ==
  ASSUME NEW L \in PlaceMap, NEW e, Separate(L),
         \A z \in Place : e \notin L[z],
         NEW M, Arrival(L, M, e)
  PROVE  /\ Separate(M)
         /\ \A z \in Place : \A r :
              r \in M[z] <=> r \in L[z] \/ (r = e /\ z = "held")
<1>1. \A z \in Place : M[z] = IF z = "held" THEN L[z] \cup {e} ELSE L[z]
  BY DEF Arrival, PlaceMap
<1>2. \A z \in Place : \A r :
        r \in M[z] <=> r \in L[z] \/ (r = e /\ z = "held")
  BY <1>1
<1>3. ASSUME NEW z \in Place, NEW w \in Place, z # w
      PROVE  M[z] \cap M[w] = {}
  BY <1>2, <1>3 DEF Separate
<1> QED BY <1>2, <1>3 DEF Separate

LEMMA PathPlaces ==
  ASSUME NEW x, NEW y, <<x, y>> \in Paths
  PROVE  x \in Place /\ y \in Place /\ x # y /\ y # "held"
BY DEF Paths, Place

(* A held entry is the one its producer holds.                             *)
LEMMA HeldBySource ==
  ASSUME TypeInv, HandInv, NEW e \in Located["held"]
  PROVE  e \in Entry /\ e.src \in Producers /\ held[e.src] = e
<1>1. e \in InHand /\ e \in Entry
  BY LocatedType DEF Place, PlaceMap
<1>2. PICK p \in Producers : held[p] = e /\ e # NoEntry
  BY <1>1 DEF InHand
<1> QED BY <1>1, <1>2 DEF HandInv, Entry

LEMMA MoveKeepsFate ==
  ASSUME TypeInv, FateInv, NEW x, NEW y, <<x, y>> \in Paths,
         NEW e, EntryMoves(e, x, y)
  PROVE  FateInv'
<1>1. x \in Place /\ y \in Place /\ x # y /\ y # "held"
  BY PathPlaces
<1>2. Located \in PlaceMap /\ Separate(Located)
  BY LocatedType DEF FateInv
<1>3. /\ Separate(Located')
      /\ \A z \in Place : \A r :
           r \in Located'[z] <=>
             (r # e /\ r \in Located[z]) \/ (r = e /\ z = y)
  <2>1. e \in Located[x] /\ Transfer(Located, Located', e, x, y)
    BY DEF EntryMoves
  <2>L. PICK L : L = Located
    OBVIOUS
  <2>M. PICK M : M = Located'
    OBVIOUS
  <2>2. /\ L \in PlaceMap /\ Separate(L) /\ e \in L[x]
        /\ Transfer(L, M, e, x, y)
    BY <1>2, <2>1, <2>L, <2>M
  <2>3. /\ Separate(M)
        /\ \A z \in Place : \A r :
             r \in M[z] <=> (r # e /\ r \in L[z]) \/ (r = e /\ z = y)
    BY <1>1, <2>2, MoveWhere
  <2> QED BY <2>3, <2>L, <2>M
<1>4. e \in Entry /\ e.src \in Producers
  BY <1>1, <1>2 DEF EntryMoves, Entry, PlaceMap
<1>5. held \in [Producers -> Entry \cup {NoEntry}]
  BY DEF TypeInv, CallInv, CallTypeOK
<1>6. \A q \in Producers :
        held'[q] = IF x = "held" /\ q = e.src THEN NoEntry ELSE held[q]
  BY <1>4, <1>5 DEF EntryMoves
<1>7. logged' = logged
  BY DEF EntryMoves
<1>8. HandInv'
  BY <1>6, <1>7 DEF HandInv, FateInv
<1>9. Separate(Located)'
  BY <1>3 DEF Separate
<1>10. AgeInv'
  <2> SUFFICES ASSUME NEW z \in Place, NEW r \in Located'[z]
               PROVE  /\ r.seq <= logged[r.src]
                      /\ z # "held" /\ held'[r.src] # NoEntry
                           => r.seq < logged[r.src]
    BY <1>7 DEF AgeInv
  <2>1. CASE r # e /\ r \in Located[z]
    <3>1. r.src \in Producers
      BY <1>2, <2>1 DEF Entry, PlaceMap
    <3> QED BY <1>6, <2>1, <3>1 DEF AgeInv, FateInv
  <2>2. CASE r = e /\ z = y
    <3>1. CASE x = "held"
      BY <1>1, <1>4, <1>6, <2>2, <3>1 DEF AgeInv, FateInv, EntryMoves
    <3>2. CASE x # "held"
      BY <1>1, <1>4, <1>6, <2>2, <3>2 DEF AgeInv, FateInv, EntryMoves
    <3> QED BY <3>1, <3>2
  <2> QED BY <1>3, <2>1, <2>2
<1>11. BornInv'
  <2> SUFFICES ASSUME NEW p \in Producers, NEW n \in 1 .. logged[p]
               PROVE  \E level \in LogLevels : \E z \in Place :
                        [src |-> p, seq |-> n, level |-> level] \in Located'[z]
    BY <1>7 DEF BornInv
  <2>1. PICK level \in LogLevels : \E z \in Place :
               [src |-> p, seq |-> n, level |-> level] \in Located[z]
    BY DEF BornInv, FateInv
  <2>2. \E z \in Place :
          [src |-> p, seq |-> n, level |-> level] \in Located'[z]
    BY <1>1, <1>3, <2>1
  <2> QED BY <2>2
<1> QED BY <1>8, <1>9, <1>10, <1>11 DEF FateInv

LEMMA BirthKeepsFate ==
  ASSUME TypeInv, FateInv, NEW p \in Producers, NEW e \in Entry,
         EntryBorn(p, e)
  PROVE  FateInv'
<1>1. Located \in PlaceMap /\ Separate(Located)
  BY LocatedType DEF FateInv
<1>2. /\ held \in [Producers -> Entry \cup {NoEntry}]
      /\ logged \in [Producers -> 0 .. MaxLogs] /\ e # NoEntry
  BY NoEntryAssumption DEF TypeInv, CallInv, CallTypeOK
<1>3. \A z \in Place : e \notin Located[z]
  BY <1>2, BoundAssumption DEF EntryBorn, FateInv, AgeInv
<1>4. /\ Separate(Located')
      /\ \A z \in Place : \A r :
           r \in Located'[z] <=> r \in Located[z] \/ (r = e /\ z = "held")
  <2>1. Arrival(Located, Located', e)
    BY DEF EntryBorn
  <2>L. PICK L : L = Located
    OBVIOUS
  <2>M. PICK M : M = Located'
    OBVIOUS
  <2>2. /\ L \in PlaceMap /\ Separate(L)
        /\ \A z \in Place : e \notin L[z]
        /\ Arrival(L, M, e)
    BY <1>1, <1>3, <2>1, <2>L, <2>M
  <2>3. /\ Separate(M)
        /\ \A z \in Place : \A r :
             r \in M[z] <=> r \in L[z] \/ (r = e /\ z = "held")
    BY <2>2, BornWhere
  <2> QED BY <2>3, <2>L, <2>M
<1>5. \A q \in Producers : /\ held'[q] = IF q = p THEN e ELSE held[q]
                           /\ logged'[q] = IF q = p THEN logged[q] + 1
                                                   ELSE logged[q]
  BY <1>2 DEF EntryBorn
<1>6. e.src = p /\ e.seq = logged'[p] /\ held[p] = NoEntry
  BY <1>5 DEF EntryBorn
<1>7. HandInv'
  BY <1>5, <1>6 DEF HandInv, FateInv
<1>8. Separate(Located)'
  BY <1>4 DEF Separate
<1>9. AgeInv'
  <2> SUFFICES ASSUME NEW z \in Place, NEW r \in Located'[z]
               PROVE  /\ r.seq <= logged'[r.src]
                      /\ z # "held" /\ held'[r.src] # NoEntry
                           => r.seq < logged'[r.src]
    BY DEF AgeInv
  <2>1. CASE r \in Located[z]
    <3>1. r.src \in Producers /\ r.seq \in 1 .. MaxLogs
      BY <1>1, <2>1 DEF Entry, PlaceMap
    <3>2. /\ r.seq <= logged[r.src]
          /\ z # "held" /\ held[r.src] # NoEntry => r.seq < logged[r.src]
      BY <2>1 DEF AgeInv, FateInv
    <3>3. logged[r.src] \in Nat
      BY <1>2, <3>1
    <3> QED BY <1>5, <3>1, <3>2, <3>3, BoundAssumption
  <2>2. CASE r = e /\ z = "held"
    BY <1>2, <1>5, <1>6, <2>2, BoundAssumption
  <2> QED BY <1>4, <2>1, <2>2
<1>10. BornInv'
  <2> SUFFICES ASSUME NEW q \in Producers, NEW n \in 1 .. logged'[q]
               PROVE  \E level \in LogLevels : \E z \in Place :
                        [src |-> q, seq |-> n, level |-> level] \in Located'[z]
    BY DEF BornInv
  <2>1. CASE q = p /\ n = logged'[p]
    <3>1. e = [src |-> q, seq |-> n, level |-> e.level] /\ e.level \in LogLevels
      BY <1>6, <2>1 DEF Entry
    <3>2. e \in Located'["held"] /\ "held" \in Place
      BY <1>4 DEF Place
    <3> QED BY <3>1, <3>2
  <2>2. CASE ~(q = p /\ n = logged'[p])
    <3>1. n \in 1 .. logged[q]
      BY <1>2, <1>5, <2>2, BoundAssumption
    <3>2. PICK level \in LogLevels : \E z \in Place :
                 [src |-> q, seq |-> n, level |-> level] \in Located[z]
      BY <3>1 DEF BornInv, FateInv
    <3>3. \E z \in Place :
            [src |-> q, seq |-> n, level |-> level] \in Located'[z]
      BY <1>4, <3>2
    <3> QED BY <3>3
  <2> QED BY <2>1, <2>2
<1> QED BY <1>7, <1>8, <1>9, <1>10 DEF FateInv

-----------------------------------------------------------------------------
(* The steps of the handler that move an entry                             *)

LEMMA LogBears ==
  ASSUME TypeInv, PlaceInv, NEW p \in Producers, NEW level \in LogLevels,
         HandleLog(p, level)
  PROVE  (\E e \in Entry : EntryBorn(p, e)) /\ OnceInv'
<1> DEFINE e == [src |-> p, seq |-> logged[p] + 1, level |-> level]
<1>1. e \in Entry
  BY BoundAssumption DEF HandleLog, TypeInv, CallInv, CallTypeOK, Entry
<1>2. held[p] = NoEntry
  BY DEF HandleLog, PlaceInv, IdleInv
<1>3. held' = [held EXCEPT ![p] = e]
  BY DEF HandleLog
<1>4. InHand' = InHand \cup {e}
  BY <1>1, <1>2, <1>3, HandFilled
<1>5. /\ InQueue' = InQueue /\ InWorker' = InWorker /\ Written' = Written
      /\ hist' = hist /\ queue' = queue
  BY DEF HandleLog, InQueue, InWorker, Written, workerVars
<1>6. Arrival(Located, Located', e)
  BY <1>4, <1>5 DEF Arrival, Located
<1>7. EntryBorn(p, e)
  BY <1>1, <1>2, <1>3, <1>6 DEF EntryBorn, HandleLog
<1>8. OnceInv'
  BY <1>5 DEF OnceInv, PlaceInv
<1> QED BY <1>1, <1>7, <1>8

(* The entry a caller gives up comes from its hands.                       *)
LEMMA HandGives ==
  ASSUME TypeInv, PlaceInv, NEW p \in Producers, held[p] \in Entry,
         held' = [held EXCEPT ![p] = NoEntry]
  PROVE  /\ held[p] \in Located["held"] /\ held[p].src = p
         /\ \A z \in Place : z # "held" => held[p] \notin Located[z]
         /\ InHand' = InHand \ {held[p]}
<1>1. held[p] # NoEntry
  BY NoEntryAssumption
<1>2. held[p] \in Located["held"]
  BY <1>1, LocatedType DEF InHand
<1>3. \A z \in Place : z # "held" => held[p] \notin Located[z]
  BY <1>2 DEF PlaceInv, FateInv, Separate, Place
<1> QED BY <1>1, <1>2, <1>3, HandEmptied DEF PlaceInv, FateInv, HandInv

LEMMA SendMoves ==
  ASSUME TypeInv, PlaceInv, NEW p \in Producers, Send(p)
  PROVE  EntryMoves(held[p], "held", "queued") /\ held[p] \in Entry /\ OnceInv'
<1>1. /\ held[p] \in Entry /\ queue \in Seq(Entry)
      /\ held' = [held EXCEPT ![p] = NoEntry]
  BY DEF Send, Sending, TypeInv, CallInv, WorksOnEntry, QueueTypeOK
<1>2. queue' = Append(queue, held[p])
  BY DEF Send, Enqueue
<1>3. /\ held[p] \in Located["held"] /\ held[p].src = p
      /\ InHand' = InHand \ {held[p]} /\ held[p] \notin InQueue
  BY <1>1, HandGives, LocatedType DEF Place
<1>4. InQueue' = InQueue \cup {held[p]}
  BY <1>1, <1>2, AppendRange DEF InQueue
<1>5. /\ InWorker' = InWorker /\ Written' = Written
      /\ hist' = hist /\ logged' = logged
  BY DEF Send, CallKeeps, InWorker, Written, workerVars
<1>6. Transfer(Located, Located', held[p], "held", "queued")
  BY <1>3, <1>4, <1>5 DEF Transfer, Located
<1>7. OnceInv'
  <2>1. IsInjective(queue')
    BY <1>1, <1>2, <1>3, AppendOnce DEF PlaceInv, OnceInv, InQueue
  <2> QED BY <1>5, <2>1 DEF PlaceInv, OnceInv
<1> QED BY <1>1, <1>3, <1>5, <1>6, <1>7 DEF EntryMoves

LEMMA DropMoves ==
  ASSUME TypeInv, PlaceInv, NEW p \in Producers, DropIncoming(p)
  PROVE  /\ EntryMoves(held[p], "held", "discarded") /\ held[p] \in Entry
         /\ OnceInv'
<1>1. held[p] \in Entry /\ held' = [held EXCEPT ![p] = NoEntry]
  BY DEF DropIncoming, TypeInv, CallInv, WorksOnEntry
<1>2. /\ held[p] \in Located["held"] /\ held[p].src = p
      /\ InHand' = InHand \ {held[p]}
  BY <1>1, HandGives
<1>3. hist.discarded' = hist.discarded \cup {held[p]}
      /\ hist.out' = hist.out /\ hist.failed' = hist.failed
  BY DEF DropIncoming, TypeInv, HistoryTypeOK
<1>4. /\ InQueue' = InQueue /\ InWorker' = InWorker /\ Written' = Written
      /\ queue' = queue /\ logged' = logged
  BY <1>3 DEF DropIncoming, CallKeeps, InQueue, InWorker, Written, workerVars
<1>5. Transfer(Located, Located', held[p], "held", "discarded")
  BY <1>2, <1>3, <1>4 DEF Transfer, Located
<1>6. OnceInv'
  BY <1>3, <1>4 DEF PlaceInv, OnceInv
<1> QED BY <1>1, <1>2, <1>4, <1>5, <1>6 DEF EntryMoves

(* The head of the queue leaves it.                                        *)
LEMMA QueueGives ==
  ASSUME TypeInv, PlaceInv, queue # <<>>, queue' = Tail(queue)
  PROVE  /\ Head(queue) \in Entry /\ Head(queue) \in Located["queued"]
         /\ InQueue' = InQueue \ {Head(queue)}
         /\ IsInjective(queue')
<1>1. queue \in Seq(Entry) /\ IsInjective(queue)
  BY DEF TypeInv, QueueTypeOK, PlaceInv, OnceInv
<1>2. /\ Head(queue) \in Range(queue)
      /\ Range(Tail(queue)) = Range(queue) \ {Head(queue)}
      /\ IsInjective(Tail(queue))
  BY <1>1, TailRange
<1> QED BY <1>1, <1>2, LocatedType, DequeueType DEF InQueue

LEMMA EvictMoves ==
  ASSUME TypeInv, PlaceInv, NEW p \in Producers, Evict(p)
  PROVE  /\ EntryMoves(Head(queue), "queued", "discarded")
         /\ Head(queue) \in Entry /\ OnceInv'
<1>1. queue # <<>> /\ queue' = Tail(queue)
  BY DEF Evict
<1>2. /\ Head(queue) \in Entry /\ Head(queue) \in Located["queued"]
      /\ InQueue' = InQueue \ {Head(queue)}
      /\ IsInjective(queue')
  BY <1>1, QueueGives
<1>3. hist.discarded' = hist.discarded \cup {Head(queue)}
      /\ hist.out' = hist.out /\ hist.failed' = hist.failed
  BY DEF Evict, Victim, TypeInv, HistoryTypeOK
<1>4. held' = held /\ logged' = logged /\ taken' = taken
  BY DEF Evict, Goto, CallKeeps, workerVars
<1>5. InHand' = InHand /\ InWorker' = InWorker /\ Written' = Written
  BY <1>3, <1>4 DEF InHand, InWorker, Written
<1>6. Transfer(Located, Located', Head(queue), "queued", "discarded")
  BY <1>2, <1>3, <1>5 DEF Transfer, Located
<1>7. OnceInv'
  BY <1>2, <1>3 DEF PlaceInv, OnceInv
<1> QED BY <1>2, <1>4, <1>6, <1>7 DEF EntryMoves

LEMMA ReceiveMoves ==
  ASSUME TypeInv, PlaceInv, NEW from \in {"select", "batch", "drain"},
         Receive(from)
  PROVE  /\ EntryMoves(Head(queue), "queued", "taken")
         /\ Head(queue) \in Entry /\ OnceInv'
<1>1. queue # <<>> /\ queue' = Tail(queue)
  BY DEF Receive
<1>2. /\ Head(queue) \in Entry /\ Head(queue) \in Located["queued"]
      /\ InQueue' = InQueue \ {Head(queue)}
      /\ IsInjective(queue')
  BY <1>1, QueueGives
<1>3. hist' = hist /\ held' = held /\ logged' = logged
  BY DEF Receive, WorkerKeeps, callVars
<1>4. taken = NoEntry /\ taken' = Head(queue)
  BY DEF Receive, PlaceInv, IdleInv
<1>5. InWorker' = InWorker \cup {Head(queue)}
  BY <1>2, <1>4, NoEntryAssumption DEF InWorker
<1>6. InHand' = InHand /\ Written' = Written
  BY <1>3 DEF InHand, Written
<1>7. Transfer(Located, Located', Head(queue), "queued", "taken")
  BY <1>2, <1>3, <1>5, <1>6 DEF Transfer, Located
<1>8. OnceInv'
  BY <1>2, <1>3 DEF PlaceInv, OnceInv
<1> QED BY <1>2, <1>3, <1>7, <1>8 DEF EntryMoves

(* The writer takes an entry that is not written yet.                      *)
LEMMA WriterTakes ==
  ASSUME TypeInv, PlaceInv, NEW e \in Entry, e \notin Written,
         NEW fallback, NEW recycle, WriteOK(e, fallback, recycle)
  PROVE  /\ Written' = Written \cup {e} /\ IsInjective(hist.out')
         /\ hist.discarded' = hist.discarded /\ hist.failed' = hist.failed
<1>1. hist.out \in Seq(Entry) /\ hist.out' = Append(hist.out, e)
  BY DEF WriteOK, TypeInv, HistoryTypeOK
<1>2. hist.discarded' = hist.discarded /\ hist.failed' = hist.failed
  BY DEF WriteOK, TypeInv, HistoryTypeOK
<1>3. Range(hist.out') = Range(hist.out) \cup {e}
  BY <1>1, AppendRange
<1>4. IsInjective(hist.out')
  BY <1>1, AppendOnce DEF PlaceInv, OnceInv, Written
<1> QED BY <1>2, <1>3, <1>4 DEF Written

LEMMA WriterRefuses ==
  ASSUME TypeInv, NEW e \in Entry, WriteError(e)
  PROVE  /\ hist.failed' = hist.failed \cup {e}
         /\ hist.discarded' = hist.discarded /\ hist.out' = hist.out
         /\ Written' = Written
BY DEF WriteError, TypeInv, HistoryTypeOK, Written

LEMMA FallbackMoves ==
  ASSUME TypeInv, PlaceInv, NEW p \in Producers, FallbackWrite(p)
  PROVE  /\ \E y \in {"written", "failed"} : EntryMoves(held[p], "held", y)
         /\ held[p] \in Entry /\ OnceInv'
<1>1. held[p] \in Entry /\ held' = [held EXCEPT ![p] = NoEntry]
  BY DEF FallbackWrite, InFallback, Return, TypeInv, CallInv, WorksOnEntry
<1>2. /\ held[p] \in Located["held"] /\ held[p].src = p
      /\ InHand' = InHand \ {held[p]} /\ held[p] \notin Written
  BY <1>1, HandGives, LocatedType DEF Place
<1>3. /\ InQueue' = InQueue /\ InWorker' = InWorker
      /\ queue' = queue /\ logged' = logged
  BY DEF FallbackWrite, CallKeeps, InQueue, InWorker, workerVars
<1>4. CASE WriteOK(held[p], {held[p]}, {})
  <2>1. /\ Written' = Written \cup {held[p]} /\ IsInjective(hist.out')
        /\ hist.discarded' = hist.discarded /\ hist.failed' = hist.failed
    BY <1>1, <1>2, <1>4, WriterTakes
  <2>2. Transfer(Located, Located', held[p], "held", "written")
    BY <1>2, <1>3, <2>1 DEF Transfer, Located
  <2>3. EntryMoves(held[p], "held", "written")
    BY <1>1, <1>2, <1>3, <2>2 DEF EntryMoves
  <2> QED BY <1>1, <1>3, <2>1, <2>3 DEF PlaceInv, OnceInv
<1>5. CASE WriteError(held[p])
  <2>1. /\ hist.failed' = hist.failed \cup {held[p]}
        /\ hist.discarded' = hist.discarded /\ hist.out' = hist.out
        /\ Written' = Written
    BY <1>1, <1>5, WriterRefuses
  <2>2. Transfer(Located, Located', held[p], "held", "failed")
    BY <1>2, <1>3, <2>1 DEF Transfer, Located
  <2>3. EntryMoves(held[p], "held", "failed")
    BY <1>1, <1>2, <1>3, <2>2 DEF EntryMoves
  <2> QED BY <1>1, <1>3, <2>1, <2>3 DEF PlaceInv, OnceInv
<1> QED BY <1>4, <1>5 DEF FallbackWrite

LEMMA WorkerMoves ==
  ASSUME TypeInv, PlaceInv, WorkerWrite
  PROVE  /\ \E y \in {"written", "failed"} : EntryMoves(taken, "taken", y)
         /\ taken \in Entry /\ OnceInv'
<1>1. taken \in Entry /\ taken' = NoEntry
  BY DEF WorkerWrite, TypeInv, WorkerInv
<1>2. taken \in Located["taken"]
  BY <1>1, NoEntryAssumption, LocatedType DEF InWorker
<1>3. taken \notin Written
  BY <1>2, LocatedType DEF PlaceInv, FateInv, Separate, Place
<1>4. /\ InQueue' = InQueue /\ InHand' = InHand
      /\ queue' = queue /\ logged' = logged /\ held' = held
  BY DEF WorkerWrite, WorkerKeeps, InQueue, InHand, callVars
<1>5. InWorker' = InWorker \ {taken}
  BY <1>1 DEF InWorker
<1>6. CASE WriteOK(taken, {}, {taken})
  <2>1. /\ Written' = Written \cup {taken} /\ IsInjective(hist.out')
        /\ hist.discarded' = hist.discarded /\ hist.failed' = hist.failed
    BY <1>1, <1>3, <1>6, WriterTakes
  <2>2. Transfer(Located, Located', taken, "taken", "written")
    BY <1>4, <1>5, <2>1 DEF Transfer, Located
  <2>3. EntryMoves(taken, "taken", "written")
    BY <1>2, <1>4, <2>2 DEF EntryMoves
  <2> QED BY <1>1, <1>4, <2>1, <2>3 DEF PlaceInv, OnceInv
<1>7. CASE WriteError(taken)
  <2>1. /\ hist.failed' = hist.failed \cup {taken}
        /\ hist.discarded' = hist.discarded /\ hist.out' = hist.out
        /\ Written' = Written
    BY <1>1, <1>7, WriterRefuses
  <2>2. Transfer(Located, Located', taken, "taken", "failed")
    BY <1>4, <1>5, <2>1 DEF Transfer, Located
  <2>3. EntryMoves(taken, "taken", "failed")
    BY <1>2, <1>4, <2>2 DEF EntryMoves
  <2> QED BY <1>1, <1>4, <2>1, <2>3 DEF PlaceInv, OnceInv
<1> QED BY <1>6, <1>7 DEF WorkerWrite

-----------------------------------------------------------------------------
(* Every other step leaves the entries where they are.                     *)

EntriesKept ==
  /\ UNCHANGED <<queue, held, logged, taken>>
  /\ UNCHANGED <<hist.out, hist.direct, hist.discarded, hist.failed,
                 hist.recycled>>

LEMMA KeptStay ==
  ASSUME EntriesKept
  PROVE  EntriesStay /\ (OnceInv => OnceInv')
<1>1. /\ InHand' = InHand /\ InQueue' = InQueue /\ InWorker' = InWorker
      /\ Written' = Written
  BY DEF EntriesKept, InHand, InQueue, InWorker, Written
<1>2. Located' = Located
  BY <1>1 DEF EntriesKept, Located
<1> QED BY <1>2 DEF EntriesKept, EntriesStay, OnceInv

(* The steps of a call that move no entry.                                 *)
CallWaits(p) ==
  \/ SendPanics(p) \/ FindFull(p) \/ EvictNothing(p) \/ ArmTimer(p)
  \/ WaitTimeout(p) \/ WaitClosed(p) \/ Disarm(p) \/ TryLock(p) \/ Lock(p)

WorkerTurns == BatchEmpty \/ SeeClosed \/ DeadlineExpires \/ DrainEnds \/ WorkerLock

LEMMA WaitsKeep ==
  ASSUME NEW p \in Producers, CallWaits(p)
  PROVE  EntriesKept
<1> USE DEF EntriesKept, CallKeeps, workerVars, Goto
<1>1. CASE SendPanics(p)
  BY <1>1 DEF SendPanics
<1>2. CASE FindFull(p)
  BY <1>2 DEF FindFull
<1>3. CASE EvictNothing(p)
  BY <1>3 DEF EvictNothing
<1>4. CASE ArmTimer(p)
  BY <1>4 DEF ArmTimer
<1>5. CASE WaitTimeout(p)
  BY <1>5 DEF WaitTimeout
<1>6. CASE WaitClosed(p)
  BY <1>6 DEF WaitClosed
<1>7. CASE Disarm(p)
  BY <1>7 DEF Disarm
<1>8. CASE TryLock(p)
  BY <1>8 DEF TryLock
<1>9. CASE Lock(p)
  BY <1>9 DEF Lock
<1> QED BY <1>1, <1>2, <1>3, <1>4, <1>5, <1>6, <1>7, <1>8, <1>9 DEF CallWaits

LEMMA TurnsKeep ==
  ASSUME WorkerTurns
  PROVE  EntriesKept
BY DEF WorkerTurns, BatchEmpty, SeeClosed, DeadlineExpires, DrainEnds,
       WorkerLock, EntriesKept, WorkerKeeps, callVars

LEMMA CloseKeepsEntries ==
  ASSUME TypeInv, NEW c \in Closers, CloseCheck(c) \/ CloseStep(c)
  PROVE  EntriesKept
<1> USE DEF EntriesKept, CloseKeeps, workerVars, callVars
<1>1. CASE CloseCheck(c)
  BY <1>1 DEF CloseCheck
<1>2. CASE CloseSignal(c)
  BY <1>2 DEF CloseSignal, TypeInv, HistoryTypeOK
<1>3. CASE CloseAwait(c)
  BY <1>3 DEF CloseAwait
<1>4. CASE CloseQueue(c)
  BY <1>4 DEF CloseQueue
<1> QED BY <1>1, <1>2, <1>3, <1>4 DEF CloseStep

QuietStep ==
  \/ \E p \in Producers : CallWaits(p)
  \/ \E c \in Closers : CloseCheck(c) \/ CloseStep(c)
  \/ WorkerTurns \/ TimerFires \/ UNCHANGED vars

LEMMA QuietKeeps ==
  ASSUME TypeInv, QuietStep
  PROVE  EntriesKept
<1>1. CASE TimerFires \/ UNCHANGED vars
  BY <1>1 DEF TimerFires, vars, callVars, workerVars, EntriesKept
<1> QED BY <1>1, WaitsKeep, CloseKeepsEntries, TurnsKeep DEF QuietStep

(* A step moves an entry, and then in one of these ways, or is quiet.      *)
LEMMA StepKinds ==
  ASSUME [Next]_vars
  PROVE  \/ \E p \in Producers :
              \/ \E level \in LogLevels : HandleLog(p, level)
              \/ Send(p) \/ DropIncoming(p) \/ Evict(p) \/ FallbackWrite(p)
         \/ \E from \in {"select", "batch", "drain"} : Receive(from)
         \/ WorkerWrite
         \/ QuietStep
BY DEF Next, HandleStep, WorkerStep, CallWaits, WorkerTurns, QuietStep

LEMMA IdleKept ==
  ASSUME TypeInv, IdleInv, QuietStep
  PROVE  IdleInv'
<1>0. pc \in [Producers -> ProducerPCs] /\ held' = held /\ taken' = taken
  BY QuietKeeps DEF EntriesKept, TypeInv, CallInv, CallTypeOK
<1> USE DEF IdleInv, CallKeeps, WorkerKeeps, CloseKeeps, callVars, workerVars
<1>1. ASSUME NEW p \in Producers, CallWaits(p)
      PROVE  IdleInv'
  <2>1. CASE Disarm(p)
    <3>1. pc[p] = "disarmSent" \/ pc'[p] = "write"
      BY <1>0, <2>1 DEF Disarm, Goto
    <3>2. workerPC' = workerPC /\ \A q \in Producers : q # p => pc'[q] = pc[q]
      BY <1>0, <2>1 DEF Disarm, Goto
    <3> QED BY <1>0, <3>1, <3>2
  <2>2. CASE ~Disarm(p)
    <3>1. PICK label \in ProducerPCs \ {"idle", "disarmSent"} : Goto(p, label)
      BY <1>1, <2>2
         DEF CallWaits, SendPanics, FindFull, EvictNothing, AfterEvict, ArmTimer,
             WaitTimeout, WaitClosed, TryLock, Lock, ProducerPCs
    <3>2. workerPC' = workerPC
      BY <1>1 DEF CallWaits, SendPanics, FindFull, EvictNothing, ArmTimer,
                  WaitTimeout, WaitClosed, Disarm, TryLock, Lock
    <3> QED BY <1>0, <3>1, <3>2 DEF Goto
  <2> QED BY <2>1, <2>2
<1>2. ASSUME NEW c \in Closers, CloseCheck(c) \/ CloseStep(c)
      PROVE  IdleInv'
  BY <1>2 DEF CloseStep, CloseCheck, CloseSignal, CloseAwait, CloseQueue
<1>3. CASE WorkerTurns
  BY <1>0, <1>3 DEF WorkerTurns, BatchEmpty, SeeClosed, DeadlineExpires,
                    DrainEnds, WorkerLock
<1>4. CASE TimerFires \/ UNCHANGED vars
  BY <1>4 DEF TimerFires, vars
<1> QED BY <1>1, <1>2, <1>3, <1>4 DEF QuietStep

-----------------------------------------------------------------------------
(* A step of the handler, as far as the entries are concerned.             *)
FateStep ==
  \/ EntriesStay
  \/ \E p \in Producers : \E e \in Entry : EntryBorn(p, e)
  \/ \E x, y \in Place : \E e \in Entry : <<x, y>> \in Paths /\ EntryMoves(e, x, y)

LEMMA StepFate ==
  ASSUME TypeInv, PlaceInv, [Next]_vars
  PROVE  FateStep /\ OnceInv' /\ IdleInv'
<1>0. IdleInv /\ OnceInv /\ pc \in [Producers -> ProducerPCs]
      /\ held \in [Producers -> Entry \cup {NoEntry}]
  BY DEF PlaceInv, TypeInv, CallInv, CallTypeOK
<1>1. ASSUME NEW p \in Producers, NEW level \in LogLevels, HandleLog(p, level)
      PROVE  FateStep /\ OnceInv' /\ IdleInv'
  <2>1. IdleInv'
    BY <1>0, <1>1 DEF HandleLog, IdleInv, workerVars
  <2> QED BY <1>1, <2>1, LogBears DEF FateStep
<1>2. ASSUME NEW p \in Producers, Send(p)
      PROVE  FateStep /\ OnceInv' /\ IdleInv'
  <2>1. IdleInv'
    BY <1>0, <1>2 DEF Send, CallKeeps, IdleInv, workerVars
  <2>2. <<"held", "queued">> \in Paths /\ {"held", "queued"} \subseteq Place
    BY DEF Paths, Place
  <2> QED BY <1>2, <2>1, <2>2, SendMoves DEF FateStep
<1>3. ASSUME NEW p \in Producers, DropIncoming(p)
      PROVE  FateStep /\ OnceInv' /\ IdleInv'
  <2>1. IdleInv'
    BY <1>0, <1>3 DEF DropIncoming, CallKeeps, IdleInv, workerVars
  <2>2. <<"held", "discarded">> \in Paths /\ {"held", "discarded"} \subseteq Place
    BY DEF Paths, Place
  <2> QED BY <1>3, <2>1, <2>2, DropMoves DEF FateStep
<1>4. ASSUME NEW p \in Producers, Evict(p)
      PROVE  FateStep /\ OnceInv' /\ IdleInv'
  <2>1. IdleInv'
    BY <1>0, <1>4 DEF Evict, AfterEvict, Goto, CallKeeps, IdleInv, workerVars
  <2>2. <<"queued", "discarded">> \in Paths /\ {"queued", "discarded"} \subseteq Place
    BY DEF Paths, Place
  <2> QED BY <1>4, <2>1, <2>2, EvictMoves DEF FateStep
<1>5. ASSUME NEW p \in Producers, FallbackWrite(p)
      PROVE  FateStep /\ OnceInv' /\ IdleInv'
  <2>1. IdleInv'
    BY <1>0, <1>5 DEF FallbackWrite, Return, CallKeeps, IdleInv, workerVars
  <2>2. PICK y \in {"written", "failed"} : EntryMoves(held[p], "held", y)
    BY <1>5, FallbackMoves
  <2>3. <<"held", y>> \in Paths /\ "held" \in Place /\ y \in Place
    BY DEF Paths, Place
  <2> QED BY <1>5, <2>1, <2>2, <2>3, FallbackMoves DEF FateStep
<1>6. ASSUME NEW from \in {"select", "batch", "drain"}, Receive(from)
      PROVE  FateStep /\ OnceInv' /\ IdleInv'
  <2>1. IdleInv'
    BY <1>0, <1>6 DEF Receive, WorkerKeeps, IdleInv, callVars
  <2>2. <<"queued", "taken">> \in Paths /\ {"queued", "taken"} \subseteq Place
    BY DEF Paths, Place
  <2> QED BY <1>6, <2>1, <2>2, ReceiveMoves DEF FateStep
<1>7. CASE WorkerWrite
  <2>1. IdleInv'
    BY <1>0, <1>7 DEF WorkerWrite, WorkerKeeps, IdleInv, callVars
  <2>2. PICK y \in {"written", "failed"} : EntryMoves(taken, "taken", y)
    BY <1>7, WorkerMoves
  <2>3. <<"taken", y>> \in Paths /\ "taken" \in Place /\ y \in Place
    BY DEF Paths, Place
  <2> QED BY <1>7, <2>1, <2>2, <2>3, WorkerMoves DEF FateStep
<1>8. CASE QuietStep
  BY <1>0, <1>8, QuietKeeps, IdleKept, KeptStay DEF FateStep
<1> QED
  BY <1>1, <1>2, <1>3, <1>4, <1>5, <1>6, <1>7, <1>8, StepKinds

LEMMA InitPlace == Init => PlaceInv
<1> SUFFICES ASSUME Init PROVE PlaceInv
  OBVIOUS
<1>1. /\ InHand = {} /\ InQueue = {} /\ InWorker = {} /\ Written = {}
      /\ hist.discarded = {} /\ hist.failed = {}
  BY DEF Init, NoHistory, InHand, InQueue, InWorker, Written, Range
<1>2. \A x \in Place : Located[x] = {}
  BY <1>1 DEF Located, Place
<1>3. IdleInv /\ HandInv
  BY DEF Init, IdleInv, HandInv
<1>4. Separate(Located) /\ AgeInv
  BY <1>2 DEF Separate, AgeInv
<1>5. BornInv
  BY DEF Init, BornInv
<1>6. OnceInv
  BY DEF Init, NoHistory, OnceInv, IsInjective
<1> QED BY <1>3, <1>4, <1>5, <1>6 DEF PlaceInv, FateInv

LEMMA NextPlace == TypeInv /\ PlaceInv /\ [Next]_vars => PlaceInv'
<1> SUFFICES ASSUME TypeInv, PlaceInv, [Next]_vars PROVE PlaceInv'
  OBVIOUS
<1>1. FateStep /\ OnceInv' /\ IdleInv'
  BY StepFate
<1>2. FateInv
  BY DEF PlaceInv
<1>3. ASSUME EntriesStay
      PROVE  FateInv'
  BY <1>2, <1>3 DEF EntriesStay, FateInv, HandInv, Separate, AgeInv, BornInv
<1>4. ASSUME NEW p \in Producers, NEW e \in Entry, EntryBorn(p, e)
      PROVE  FateInv'
  BY <1>2, <1>4, BirthKeepsFate
<1>5. ASSUME NEW x \in Place, NEW y \in Place, NEW e \in Entry,
             <<x, y>> \in Paths, EntryMoves(e, x, y)
      PROVE  FateInv'
  BY <1>2, <1>5, MoveKeepsFate
<1> QED BY <1>1, <1>3, <1>4, <1>5 DEF FateStep, PlaceInv

LEMMA PlaceInvariant == Spec => [](TypeInv /\ PlaceInv)
<1>1. Init => TypeInv /\ PlaceInv
  BY InitType, InitPlace
<1>2. TypeInv /\ PlaceInv /\ [Next]_vars => (TypeInv /\ PlaceInv)'
  BY NextType, NextPlace
<1> QED BY <1>1, <1>2, PTL DEF Spec

-----------------------------------------------------------------------------
(* Each entry in one place                                                 *)

LEMMA PlacesLocated ==
  ASSUME NEW e
  PROVE  Places(e) = {x \in Place : e \in Located[x]}
<1>1. Places(e) \subseteq Place
  BY DEF Places, Place
<1>2. /\ "held" \in Places(e) <=> e \in InHand
      /\ "queued" \in Places(e) <=> e \in InQueue
      /\ "taken" \in Places(e) <=> e \in InWorker
      /\ "written" \in Places(e) <=> e \in Written
      /\ "discarded" \in Places(e) <=> e \in hist.discarded
      /\ "failed" \in Places(e) <=> e \in hist.failed
  BY DEF Places
<1> QED BY <1>1, <1>2 DEF Located, Place

LEMMA OnePlaceAtMost ==
  ASSUME Separate(Located), NEW e
  PROVE  Cardinality(Places(e)) <= 1
<1>1. CASE Places(e) = {}
  BY <1>1, FS_EmptySet
<1>2. ASSUME NEW x \in Places(e)
      PROVE  Cardinality(Places(e)) <= 1
  <2>1. Places(e) = {x}
    BY PlacesLocated DEF Separate
  <2>2. Cardinality({x}) = 1
    BY FS_Singleton
  <2> QED BY <2>1, <2>2
<1> QED BY <1>1, <1>2

(* No entry is lost, duplicated or written twice, whatever the number of   *)
(* goroutines, the capacity and the policies (console_async.go, Handle,    *)
(* process and Close; console.go, write and processWrite).                 *)
THEOREM EachEntryOnePlaceAlways == Spec => []EachEntryOnePlace
<1>1. TypeInv /\ PlaceInv => EachEntryOnePlace
  <2> SUFFICES ASSUME TypeInv, PlaceInv PROVE EachEntryOnePlace
    OBVIOUS
  <2>1. \A e \in Entry : Cardinality(Places(e)) <= 1
    BY OnePlaceAtMost DEF PlaceInv, FateInv
  <2>2. ASSUME NEW p \in Producers, NEW n \in 1 .. logged[p]
        PROVE  \E level \in LogLevels :
                 Places([src |-> p, seq |-> n, level |-> level]) # {}
    <3>1. PICK level \in LogLevels : \E x \in Place :
                 [src |-> p, seq |-> n, level |-> level] \in Located[x]
      BY DEF PlaceInv, FateInv, BornInv
    <3> QED BY <3>1, PlacesLocated
  <2> QED BY <2>1, <2>2 DEF EachEntryOnePlace, PlaceInv, OnceInv
<1> QED BY <1>1, PlaceInvariant, PTL

-----------------------------------------------------------------------------
(* Entries given back to the pool                                          *)

RecycledInv == hist.recycled \subseteq Written

(* What is written, dropped or refused stays so.                           *)
LEMMA FinalStays ==
  ASSUME TypeInv, PlaceInv, [Next]_vars
  PROVE  /\ Written \subseteq Written'
         /\ hist.discarded \subseteq hist.discarded'
<1>1. ASSUME NEW p \in Producers,
             (\E level \in LogLevels : HandleLog(p, level)) \/ Send(p)
      PROVE  hist' = hist
  BY <1>1 DEF HandleLog, Send, CallKeeps
<1>2. ASSUME NEW p \in Producers, DropIncoming(p) \/ Evict(p)
      PROVE  /\ hist.out' = hist.out
             /\ hist.discarded \subseteq hist.discarded'
  BY <1>2 DEF DropIncoming, Evict, TypeInv, HistoryTypeOK
<1>3. ASSUME NEW e \in Entry, NEW fallback, NEW recycle,
             WriteOK(e, fallback, recycle)
      PROVE  Written \subseteq Written' /\ hist.discarded' = hist.discarded
  <2>1. hist.out \in Seq(Entry) /\ hist.out' = Append(hist.out, e)
    BY <1>3 DEF WriteOK, TypeInv, HistoryTypeOK
  <2> QED BY <1>3, <2>1, AppendRange DEF WriteOK, TypeInv, HistoryTypeOK, Written
<1>4. ASSUME NEW e \in Entry, WriteError(e)
      PROVE  Written \subseteq Written' /\ hist.discarded' = hist.discarded
  BY <1>4, WriterRefuses
<1>5. ASSUME NEW p \in Producers, FallbackWrite(p)
      PROVE  Written \subseteq Written' /\ hist.discarded' = hist.discarded
  BY <1>3, <1>4, <1>5, FallbackMoves DEF FallbackWrite
<1>6. ASSUME NEW from \in {"select", "batch", "drain"}, Receive(from)
      PROVE  hist' = hist
  BY <1>6 DEF Receive, WorkerKeeps
<1>7. ASSUME WorkerWrite
      PROVE  Written \subseteq Written' /\ hist.discarded' = hist.discarded
  BY <1>3, <1>4, <1>7, WorkerMoves DEF WorkerWrite
<1>8. ASSUME QuietStep
      PROVE  hist.out' = hist.out /\ hist.discarded' = hist.discarded
  BY <1>8, QuietKeeps DEF EntriesKept
<1> QED BY <1>1, <1>2, <1>5, <1>6, <1>7, <1>8, StepKinds DEF Written

LEMMA NextRecycled ==
  TypeInv /\ PlaceInv /\ RecycledInv /\ [Next]_vars => RecycledInv'
<1> SUFFICES ASSUME TypeInv, PlaceInv, RecycledInv, [Next]_vars
             PROVE  RecycledInv'
  OBVIOUS
<1>1. CASE WorkerWrite
  <2>1. (taken \in Entry /\ taken \in Written') \/ hist.recycled' = hist.recycled
    <3>1. CASE WriteOK(taken, {}, {taken})
      <4>1. hist.out \in Seq(Entry) /\ hist.out' = Append(hist.out, taken)
        BY <3>1 DEF WriteOK, TypeInv, HistoryTypeOK
      <4> QED BY <1>1, <4>1, AppendRange, WorkerMoves DEF Written
    <3>2. CASE WriteError(taken)
      BY <3>2 DEF WriteError, TypeInv, HistoryTypeOK
    <3> QED BY <1>1, <3>1, <3>2 DEF WorkerWrite
  <2>2. hist.recycled' \subseteq hist.recycled \cup {taken}
    BY <1>1 DEF WorkerWrite, WriteOK, WriteError, TypeInv, HistoryTypeOK
  <2> QED BY <2>1, <2>2, FinalStays DEF RecycledInv
<1>2. CASE ~WorkerWrite
  <2>1. hist.recycled' = hist.recycled
    <3>1. ASSUME NEW p \in Producers,
                 \/ \E level \in LogLevels : HandleLog(p, level)
                 \/ Send(p) \/ DropIncoming(p) \/ Evict(p)
          PROVE  hist.recycled' = hist.recycled
      BY <3>1 DEF HandleLog, Send, DropIncoming, Evict, CallKeeps,
                  TypeInv, HistoryTypeOK
    <3>2. ASSUME NEW p \in Producers, FallbackWrite(p)
          PROVE  hist.recycled' = hist.recycled
      <4>1. CASE WriteOK(held[p], {held[p]}, {})
        BY <4>1 DEF WriteOK, TypeInv, HistoryTypeOK
      <4>2. CASE WriteError(held[p])
        BY <4>2 DEF WriteError, TypeInv, HistoryTypeOK
      <4> QED BY <3>2, <4>1, <4>2 DEF FallbackWrite
    <3>3. ASSUME NEW from \in {"select", "batch", "drain"}, Receive(from)
          PROVE  hist.recycled' = hist.recycled
      BY <3>3 DEF Receive, WorkerKeeps
    <3>4. CASE QuietStep
      BY <3>4, QuietKeeps DEF EntriesKept
    <3> QED BY <1>2, <3>1, <3>2, <3>3, <3>4, StepKinds
  <2> QED BY <2>1, FinalStays DEF RecycledInv
<1> QED BY <1>1, <1>2

(* PutEntry is called on written entries only, and nobody reaches an entry *)
(* afterwards: the pool may hand it out again (console.go, processWrite).  *)
THEOREM RecycleSafeAlways == Spec => []RecycleSafe
<1>1. Init => RecycledInv
  BY DEF Init, NoHistory, RecycledInv
<1>2. TypeInv /\ PlaceInv /\ RecycledInv /\ [Next]_vars => RecycledInv'
  BY NextRecycled
<1>3. TypeInv /\ PlaceInv /\ RecycledInv => RecycleSafe
  <2> SUFFICES ASSUME TypeInv, PlaceInv, RecycledInv PROVE RecycleSafe
    OBVIOUS
  <2>1. Written \cap (InHand \cup InQueue \cup InWorker) = {}
    BY LocatedType DEF PlaceInv, FateInv, Separate, Place
  <2> QED BY <2>1 DEF RecycledInv, RecycleSafe
<1> QED BY <1>1, <1>2, <1>3, PlaceInvariant, PTL DEF Spec

-----------------------------------------------------------------------------
(* The fates of RecordFate                                                 *)

(* The fate of an entry names the place it is in.                          *)
FateNamed ==
  \A e \in Entry : /\ \A x \in Place : e \in Located[x] => Fate[e] = x
                   /\ (\A x \in Place : e \notin Located[x]) => Fate[e] = "unborn"

LEMMA FateIsPlace == TypeInv /\ PlaceInv => FateNamed
<1> SUFFICES ASSUME TypeInv, PlaceInv, NEW e \in Entry
             PROVE  /\ \A x \in Place : e \in Located[x] => Fate[e] = x
                    /\ (\A x \in Place : e \notin Located[x]) => Fate[e] = "unborn"
  BY DEF FateNamed
<1>1. e = taken <=> e \in Located["taken"]
  BY LocatedType, NoEntryAssumption DEF InWorker
<1>2. Fate[e] = CASE e \in Located["held"]      -> "held"
                  [] e \in Located["queued"]    -> "queued"
                  [] e \in Located["taken"]     -> "taken"
                  [] e \in Located["written"]   -> "written"
                  [] e \in Located["discarded"] -> "discarded"
                  [] e \in Located["failed"]    -> "failed"
                  [] OTHER                      -> "unborn"
  BY <1>1, LocatedType DEF Fate
<1>3. \A x, y \in Place : x # y /\ e \in Located[x] => e \notin Located[y]
  BY DEF PlaceInv, FateInv, Separate
<1> QED BY <1>2, <1>3 DEF Place

LEMMA MoveIsMove ==
  ASSUME TypeInv, PlaceInv, FateNamed, FateNamed', NEW x, NEW y,
         <<x, y>> \in Paths, NEW e \in Entry, EntryMoves(e, x, y)
  PROVE  Abstract!Move(e)
<1>1. x \in Place /\ y \in Place /\ x # y /\ y # "held"
  BY PathPlaces
<1>2. \A z \in Place : \A r :
        r \in Located'[z] <=> (r # e /\ r \in Located[z]) \/ (r = e /\ z = y)
  <2>1. /\ Located \in PlaceMap /\ Separate(Located) /\ e \in Located[x]
        /\ Transfer(Located, Located', e, x, y)
    BY LocatedType DEF EntryMoves, PlaceInv, FateInv
  <2> QED BY <1>1, <2>1, MoveWhere
<1>3. Fate[e] = x /\ Fate'[e] = y
  BY <1>1, <1>2 DEF FateNamed, EntryMoves
<1>4. \A r \in Entry : r # e => Fate'[r] = Fate[r]
  <2> SUFFICES ASSUME NEW r \in Entry, r # e PROVE Fate'[r] = Fate[r]
    OBVIOUS
  <2>1. \A z \in Place : r \in Located'[z] <=> r \in Located[z]
    BY <1>2
  <2> QED BY <2>1 DEF FateNamed
<1>5. Fate' = [Fate EXCEPT ![e] = y]
  <2>1. Fate = [r \in Entry |-> Fate[r]] /\ Fate' = [r \in Entry |-> Fate'[r]]
    BY DEF Fate
  <2> QED BY <1>3, <1>4, <2>1
<1>6. y \in Abstract!Moves[x]
  BY DEF Paths, Abstract!Moves
<1> QED BY <1>3, <1>5, <1>6 DEF Abstract!Move

LEMMA BirthIsMove ==
  ASSUME TypeInv, PlaceInv, FateNamed, FateNamed', NEW p \in Producers,
         NEW e \in Entry, EntryBorn(p, e)
  PROVE  Abstract!Move(e)
<1>1. \A z \in Place : e \notin Located[z]
  <2>1. Located \in PlaceMap /\ logged[p] \in Nat
    BY LocatedType, BoundAssumption DEF TypeInv, CallInv, CallTypeOK
  <2> QED BY <2>1 DEF EntryBorn, PlaceInv, FateInv, AgeInv
<1>2. \A z \in Place : \A r :
        r \in Located'[z] <=> r \in Located[z] \/ (r = e /\ z = "held")
  <2>1. /\ Located \in PlaceMap /\ Separate(Located)
        /\ Arrival(Located, Located', e)
    BY LocatedType DEF EntryBorn, PlaceInv, FateInv
  <2> QED BY <1>1, <2>1, BornWhere
<1>3. Fate[e] = "unborn" /\ Fate'[e] = "held"
  BY <1>1, <1>2 DEF FateNamed, Place
<1>4. \A r \in Entry : r # e => Fate'[r] = Fate[r]
  <2> SUFFICES ASSUME NEW r \in Entry, r # e PROVE Fate'[r] = Fate[r]
    OBVIOUS
  <2>1. \A z \in Place : r \in Located'[z] <=> r \in Located[z]
    BY <1>2
  <2> QED BY <2>1 DEF FateNamed
<1>5. Fate' = [Fate EXCEPT ![e] = "held"]
  <2>1. Fate = [r \in Entry |-> Fate[r]] /\ Fate' = [r \in Entry |-> Fate'[r]]
    BY DEF Fate
  <2> QED BY <1>3, <1>4, <2>1
<1>6. "held" \in Abstract!Moves["unborn"]
  BY DEF Abstract!Moves
<1> QED BY <1>3, <1>5, <1>6 DEF Abstract!Move

(* The handler implements RecordFate: a record is in one place at a time,  *)
(* moves along the paths of RecordFate only, and one record moves at a     *)
(* time (console_async.go and console.go).                                 *)
THEOREM ImplementsRecordFateAlways == Spec => ImplementsRecordFate
<1>1. Init => Abstract!Init
  <2> SUFFICES ASSUME Init PROVE Fate = [e \in Entry |-> "unborn"]
    BY DEF Abstract!Init
  <2>1. /\ InHand = {} /\ InQueue = {} /\ taken = NoEntry /\ Written = {}
        /\ hist.discarded = {} /\ hist.failed = {}
    BY DEF Init, NoHistory, InHand, InQueue, Written, Range
  <2>2. \A e \in Entry : Fate[e] = "unborn"
    BY <2>1, NoEntryAssumption DEF Fate
  <2>3. Fate = [e \in Entry |-> Fate[e]]
    BY DEF Fate
  <2> QED BY <2>2, <2>3
<1>2. TypeInv /\ PlaceInv => FateNamed
  BY FateIsPlace
<1>3. TypeInv /\ PlaceInv /\ FateNamed /\ FateNamed' /\ [Next]_vars
        => [Abstract!Next]_Fate
  <2> SUFFICES ASSUME TypeInv, PlaceInv, FateNamed, FateNamed', [Next]_vars
               PROVE  [Abstract!Next]_Fate
    OBVIOUS
  <2>1. FateStep
    BY StepFate
  <2>2. CASE EntriesStay
    <3>1. \A e \in Entry : Fate'[e] = Fate[e]
      BY <2>2 DEF EntriesStay, FateNamed
    <3>2. Fate = [r \in Entry |-> Fate[r]] /\ Fate' = [r \in Entry |-> Fate'[r]]
      BY DEF Fate
    <3> QED BY <3>1, <3>2
  <2>3. ASSUME NEW p \in Producers, NEW e \in Entry, EntryBorn(p, e)
        PROVE  Abstract!Next
    BY <2>3, BirthIsMove DEF Abstract!Next
  <2>4. ASSUME NEW x \in Place, NEW y \in Place, NEW e \in Entry,
               <<x, y>> \in Paths, EntryMoves(e, x, y)
        PROVE  Abstract!Next
    BY <2>4, MoveIsMove DEF Abstract!Next
  <2> QED BY <2>1, <2>2, <2>3, <2>4 DEF FateStep
<1> QED
  BY <1>1, <1>2, <1>3, PlaceInvariant, PTL
     DEF Spec, ImplementsRecordFate, Abstract!Spec

-----------------------------------------------------------------------------
(* Draining on Close                                                       *)

(* Entries the worker has or will get, has written or lost to DropOldest.  *)
Accepted == InQueue \cup InWorker \cup Written \cup hist.discarded

DrainInv ==
  /\ workerPC \in {"drain", "done"} \/ drainTimer # "off" => closed
  /\ workerPC # "failed" => hist.atClose \subseteq Accepted
  /\ DrainedOnClose

(* Only a write error of the worker loses an accepted entry.               *)
LEMMA AcceptedStays ==
  ASSUME TypeInv, PlaceInv, [Next]_vars
  PROVE  Accepted \subseteq Accepted' \/ workerPC' = "failed"
<1>1. ASSUME NEW p \in Producers, \E level \in LogLevels : HandleLog(p, level)
      PROVE  Accepted \subseteq Accepted'
  BY <1>1 DEF HandleLog, Accepted, InQueue, InWorker, Written, workerVars
<1>2. ASSUME NEW p \in Producers, Send(p) \/ DropIncoming(p) \/ FallbackWrite(p)
      PROVE  Accepted \subseteq Accepted'
  <2>1. taken' = taken
    BY <1>2 DEF Send, DropIncoming, FallbackWrite, CallKeeps, workerVars
  <2>2. InQueue \subseteq InQueue'
    <3>1. CASE Send(p)
      <4>1. queue \in Seq(Entry) /\ queue' = Append(queue, held[p])
        BY <3>1 DEF Send, Enqueue, TypeInv, QueueTypeOK
      <4> QED BY <3>1, <4>1, AppendRange, SendMoves DEF InQueue
    <3>2. CASE DropIncoming(p) \/ FallbackWrite(p)
      BY <3>2 DEF DropIncoming, FallbackWrite, CallKeeps, InQueue
    <3> QED BY <1>2, <3>1, <3>2
  <2> QED BY <2>1, <2>2, FinalStays DEF Accepted, InWorker
<1>3. ASSUME NEW p \in Producers, Evict(p)
      PROVE  Accepted \subseteq Accepted'
  <2>1. InQueue' = InQueue \ {Head(queue)}
    BY <1>3, QueueGives DEF Evict
  <2>2. Head(queue) \in hist.discarded' /\ taken' = taken
    BY <1>3 DEF Evict, Victim, CallKeeps, workerVars, TypeInv, HistoryTypeOK
  <2> QED BY <2>1, <2>2, FinalStays DEF Accepted, InWorker
<1>4. ASSUME NEW from \in {"select", "batch", "drain"}, Receive(from)
      PROVE  Accepted \subseteq Accepted'
  <2>1. InQueue' = InQueue \ {Head(queue)} /\ Head(queue) \in Entry
    BY <1>4, QueueGives DEF Receive
  <2>2. InWorker = {} /\ Head(queue) \in InWorker'
    BY <1>4, <2>1, NoEntryAssumption
       DEF Receive, InWorker, PlaceInv, IdleInv
  <2> QED BY <2>1, <2>2, FinalStays DEF Accepted
<1>5. ASSUME WorkerWrite
      PROVE  Accepted \subseteq Accepted' \/ workerPC' = "failed"
  <2>1. CASE WriteOK(taken, {}, {taken})
    <3>1. hist.out \in Seq(Entry) /\ hist.out' = Append(hist.out, taken)
      BY <2>1 DEF WriteOK, TypeInv, HistoryTypeOK
    <3>2. taken \in Written' /\ InQueue' = InQueue
      BY <1>5, <3>1, AppendRange, WorkerMoves
         DEF Written, InQueue, WorkerWrite, WorkerKeeps
    <3> QED BY <3>2, FinalStays DEF Accepted, InWorker
  <2>2. CASE workerPC' = "failed"
    BY <2>2
  <2> QED BY <1>5, <2>1, <2>2 DEF WorkerWrite
<1>6. ASSUME QuietStep
      PROVE  Accepted \subseteq Accepted'
  BY <1>6, QuietKeeps DEF EntriesKept, Accepted, InQueue, InWorker, Written
<1> QED BY <1>1, <1>2, <1>3, <1>4, <1>5, <1>6, StepKinds

(* A step of a producer or of the timer is none of the worker's business.  *)
LEMMA CallsLeaveWorker ==
  ASSUME TypeInv,
         \/ \E p \in Producers : \/ \E level \in LogLevels : HandleLog(p, level)
                                 \/ HandleStep(p)
         \/ TimerFires \/ UNCHANGED vars
  PROVE  UNCHANGED <<workerPC, drainTimer, closed, hist.atClose>>
<1> USE DEF CallKeeps, callVars, workerVars
<1>1. ASSUME NEW p \in Producers,
             (\E level \in LogLevels : HandleLog(p, level)) \/ HandleStep(p)
      PROVE  UNCHANGED <<workerPC, drainTimer, closed>>
  BY <1>1 DEF HandleStep, HandleLog, Send, SendPanics, DropIncoming, FindFull,
              Evict, EvictNothing, ArmTimer, WaitTimeout, WaitClosed, Disarm,
              TryLock, Lock, FallbackWrite
<1>2. ASSUME NEW p \in Producers,
             \/ \E level \in LogLevels : HandleLog(p, level)
             \/ HandleStep(p) /\ ~DropIncoming(p) /\ ~Evict(p) /\ ~FallbackWrite(p)
      PROVE  hist' = hist
  BY <1>2 DEF HandleStep, HandleLog, Send, SendPanics, FindFull,
              EvictNothing, ArmTimer, WaitTimeout, WaitClosed, Disarm,
              TryLock, Lock
<1>3. ASSUME NEW p \in Producers,
             DropIncoming(p) \/ Evict(p) \/ FallbackWrite(p)
      PROVE  hist.atClose' = hist.atClose
  BY <1>3 DEF DropIncoming, Evict, FallbackWrite, WriteOK, WriteError,
              TypeInv, HistoryTypeOK
<1>4. CASE TimerFires \/ UNCHANGED vars
  BY <1>4 DEF TimerFires, vars
<1> QED BY <1>1, <1>2, <1>3, <1>4

LEMMA NextDrain == TypeInv /\ PlaceInv /\ DrainInv /\ [Next]_vars => DrainInv'
<1> SUFFICES ASSUME TypeInv, PlaceInv, DrainInv, [Next]_vars PROVE DrainInv'
  OBVIOUS
<1>a. /\ Accepted \subseteq Accepted' \/ workerPC' = "failed"
      /\ Written \subseteq Written' /\ hist.discarded \subseteq hist.discarded'
  BY AcceptedStays, FinalStays
<1>1. ASSUME UNCHANGED <<workerPC, drainTimer, closed, hist.atClose>>
      PROVE  DrainInv'
  BY <1>a, <1>1 DEF DrainInv, DrainedOnClose
<1>2. ASSUME NEW c \in Closers, CloseSignal(c)
      PROVE  DrainInv'
  <2>1. UNCHANGED <<workerPC, drainTimer, queue, taken>>
    BY <1>2 DEF CloseSignal, CloseKeeps, workerVars
  <2>2. CASE closed
    BY <1>1, <1>2, <2>1, <2>2 DEF CloseSignal
  <2>3. CASE ~closed
    <3>1. closed' /\ hist.atClose' = InQueue \cup InWorker
      BY <1>2, <2>3 DEF CloseSignal, InQueue, InWorker, TypeInv, HistoryTypeOK
    <3>2. InQueue' = InQueue /\ InWorker' = InWorker
      BY <2>1 DEF InQueue, InWorker
    <3>3. workerPC' # "done"
      BY <2>1, <2>3 DEF DrainInv
    <3> QED BY <2>1, <3>1, <3>2, <3>3 DEF DrainInv, DrainedOnClose, Accepted
  <2> QED BY <2>2, <2>3
<1>3. ASSUME NEW c \in Closers,
             CloseCheck(c) \/ CloseAwait(c) \/ CloseQueue(c)
      PROVE  DrainInv'
  BY <1>1, <1>3 DEF CloseCheck, CloseAwait, CloseQueue, CloseKeeps, workerVars
<1>4. ASSUME NEW from \in {"select", "batch", "drain"}, Receive(from)
      PROVE  DrainInv'
  BY <1>a, <1>4 DEF Receive, WorkerKeeps, DrainInv, DrainedOnClose
<1>5. CASE BatchEmpty \/ SeeClosed \/ WorkerLock
  BY <1>a, <1>5 DEF BatchEmpty, SeeClosed, WorkerLock, WorkerKeeps, DrainInv,
                    DrainedOnClose
<1>6. CASE DeadlineExpires
  BY <1>a, <1>6 DEF DeadlineExpires, WorkerKeeps, DrainInv, DrainedOnClose
<1>7. CASE DrainEnds
  <2>1. workerPC = "drain" /\ workerPC' = "done" /\ closed /\ closed' = closed
        /\ drainTimer' = drainTimer /\ hist' = hist
    BY <1>7 DEF DrainEnds, WorkerKeeps, DrainInv
  <2>2. hist.atClose \subseteq Accepted /\ InWorker = {}
    BY <2>1 DEF DrainInv, PlaceInv, IdleInv, InWorker
  <2>3. drainTimer # "expired" => InQueue = {}
    BY <1>7 DEF DrainEnds, InQueue, Range
  <2> QED BY <1>a, <2>1, <2>2, <2>3 DEF DrainInv, DrainedOnClose, Accepted
<1>8. CASE WorkerWrite
  <2>1. /\ workerPC = "write" /\ workerPC' \in {"batch", "drain", "failed"}
        /\ drainTimer' = drainTimer /\ closed' = closed
        /\ workerPC' = "drain" => drainTimer # "off"
        /\ hist.atClose' = hist.atClose
    BY <1>8 DEF WorkerWrite, WorkerKeeps, ResumeLoop, WriteOK, WriteError,
                TypeInv, HistoryTypeOK
  <2> QED BY <1>a, <2>1 DEF DrainInv, DrainedOnClose
<1> QED
  BY <1>1, <1>2, <1>3, <1>4, <1>5, <1>6, <1>7, <1>8, CallsLeaveWorker
     DEF Next, CloseStep, WorkerStep

(* When process() has returned before its deadline and without a write     *)
(* error, what was accepted before Close is written or was evicted         *)
(* (console_async.go, process and Close).                                  *)
THEOREM DrainedOnCloseAlways == Spec => []DrainedOnClose
<1>1. Init => DrainInv
  BY DEF Init, NoHistory, DrainInv, DrainedOnClose
<1>2. TypeInv /\ PlaceInv /\ DrainInv /\ [Next]_vars => DrainInv'
  BY NextDrain
<1>3. DrainInv => DrainedOnClose
  BY DEF DrainInv
<1> QED BY <1>1, <1>2, <1>3, PlaceInvariant, PTL DEF Spec

-----------------------------------------------------------------------------
(* The order of the entries of one producer                                *)

Older(e, f) == e.src = f.src => e.seq < f.seq

(* The writer's entries, the worker's entry, the queue from its head: the  *)
(* entries of one producer appear in the order of its calls.               *)
OrderInv ==
  /\ WorkerFIFO
  /\ \A e \in Written \ hist.direct : \A f \in InWorker \cup InQueue : Older(e, f)
  /\ \A e \in InWorker : \A f \in InQueue : Older(e, f)
  /\ \A i, j \in 1 .. Len(queue) : i < j => Older(queue[i], queue[j])

(* The entry a caller holds is younger than all others of its producer.    *)
LEMMA HeldIsYoungest ==
  ASSUME TypeInv, PlaceInv, NEW p \in Producers, held[p] \in Entry,
         NEW e \in Written \cup InWorker \cup InQueue
  PROVE  Older(e, held[p])
<1>1. /\ held[p] # NoEntry /\ held[p].src = p /\ held[p].seq = logged[p]
  BY NoEntryAssumption DEF PlaceInv, FateInv, HandInv
<1>2. PICK x \in Place \ {"held"} : e \in Located[x]
  BY LocatedType DEF Place
<1> QED BY <1>1, <1>2 DEF PlaceInv, FateInv, AgeInv, Older

(* The writer accepts an entry that is younger than the ones before it, or *)
(* is written by its producer.                                             *)
LEMMA WriterOrder ==
  ASSUME TypeInv, WorkerFIFO, NEW e \in Entry,
         hist.out' = Append(hist.out, e),
         hist.direct \subseteq hist.direct',
         e \notin hist.direct' =>
           \A f \in Written \ hist.direct : Older(f, e)
  PROVE  /\ WorkerFIFO'
         /\ Written' = Written \cup {e}
<1>1. /\ hist.out \in Seq(Entry) /\ Len(hist.out') = Len(hist.out) + 1
      /\ \A i \in 1 .. Len(hist.out) : hist.out'[i] = hist.out[i]
      /\ hist.out'[Len(hist.out) + 1] = e
  BY AppendProperties DEF TypeInv, HistoryTypeOK
<1>2. Written' = Written \cup {e}
  BY <1>1, AppendRange DEF Written
<1>3. \A i \in 1 .. Len(hist.out) : hist.out[i] \in Written
  BY <1>1, RangeEquality DEF Written
<1>4. WorkerFIFO'
  <2> SUFFICES ASSUME NEW i \in 1 .. Len(hist.out'), NEW j \in 1 .. Len(hist.out'),
                      i < j, hist.out'[i].src = hist.out'[j].src,
                      hist.out'[i] \notin hist.direct',
                      hist.out'[j] \notin hist.direct'
               PROVE  hist.out'[i].seq < hist.out'[j].seq
    BY DEF WorkerFIFO
  <2>1. i \in 1 .. Len(hist.out) /\ hist.out'[i] = hist.out[i]
    BY <1>1
  <2>2. CASE j \in 1 .. Len(hist.out)
    BY <1>1, <2>1, <2>2 DEF WorkerFIFO
  <2>3. CASE j = Len(hist.out) + 1
    BY <1>1, <1>3, <2>1, <2>3 DEF Older
  <2> QED BY <1>1, <2>2, <2>3
<1> QED BY <1>2, <1>4

LEMMA SendOrder ==
  ASSUME TypeInv, PlaceInv, OrderInv, NEW p \in Producers, Send(p)
  PROVE  OrderInv'
<1>1. /\ held[p] \in Entry /\ queue \in Seq(Entry)
      /\ queue' = Append(queue, held[p])
  BY SendMoves DEF Send, Enqueue, TypeInv, QueueTypeOK
<1>2. hist' = hist /\ taken' = taken
  BY DEF Send, CallKeeps, workerVars
<1>3. Written' = Written /\ InWorker' = InWorker /\ WorkerFIFO'
  BY <1>2 DEF Written, InWorker, WorkerFIFO, OrderInv
<1>4. InQueue' = InQueue \cup {held[p]}
  BY <1>1, AppendRange DEF InQueue
<1>5. \A e \in Written \cup InWorker \cup InQueue : Older(e, held[p])
  BY <1>1, HeldIsYoungest
<1>6. /\ Len(queue') = Len(queue) + 1 /\ queue'[Len(queue) + 1] = held[p]
      /\ \A i \in 1 .. Len(queue) : queue'[i] = queue[i] /\ queue[i] \in InQueue
      /\ Len(queue) \in Nat
  BY <1>1, AppendProperties, RangeEquality DEF InQueue
<1>7. \A i, j \in 1 .. Len(queue') : i < j => Older(queue'[i], queue'[j])
  <2> SUFFICES ASSUME NEW i \in 1 .. Len(queue'), NEW j \in 1 .. Len(queue'), i < j
               PROVE  Older(queue'[i], queue'[j])
    OBVIOUS
  <2>1. i \in 1 .. Len(queue)
    BY <1>6
  <2>2. CASE j \in 1 .. Len(queue)
    BY <1>6, <2>1, <2>2 DEF OrderInv
  <2>3. CASE j = Len(queue) + 1
    BY <1>5, <1>6, <2>1, <2>3
  <2> QED BY <1>6, <2>2, <2>3
<1>8. \A e \in Written' \ hist.direct' : \A f \in InWorker' \cup InQueue' : Older(e, f)
  BY <1>2, <1>3, <1>4, <1>5 DEF OrderInv
<1>9. \A e \in InWorker' : \A f \in InQueue' : Older(e, f)
  BY <1>3, <1>4, <1>5 DEF OrderInv
<1> QED BY <1>3, <1>7, <1>8, <1>9 DEF OrderInv

(* Taking the head leaves the rest in order, and younger than the head.    *)
LEMMA TailOrder ==
  ASSUME TypeInv, PlaceInv, OrderInv, queue # <<>>, queue' = Tail(queue)
  PROVE  /\ \A i, j \in 1 .. Len(queue') : i < j => Older(queue'[i], queue'[j])
         /\ \A f \in InQueue' : f \in InQueue /\ Older(Head(queue), f)
         /\ Head(queue) \in InQueue
<1>1. queue \in Seq(Entry)
  BY DEF TypeInv, QueueTypeOK
<1>2. /\ queue' \in Seq(Entry) /\ Len(queue') = Len(queue) - 1
      /\ \A i \in 1 .. Len(queue') : queue'[i] = queue[i + 1]
      /\ Head(queue) = queue[1] /\ Len(queue) \in Nat \ {0}
  BY <1>1, HeadTailProperties
<1>3. \A i, j \in 1 .. Len(queue') : i < j => Older(queue'[i], queue'[j])
  <2> SUFFICES ASSUME NEW i \in 1 .. Len(queue'), NEW j \in 1 .. Len(queue'), i < j
               PROVE  Older(queue'[i], queue'[j])
    OBVIOUS
  <2>1. i + 1 \in 1 .. Len(queue) /\ j + 1 \in 1 .. Len(queue) /\ i + 1 < j + 1
    BY <1>2
  <2>2. Older(queue[i + 1], queue[j + 1])
    BY <2>1 DEF OrderInv
  <2> QED BY <1>2, <2>2
<1>4. ASSUME NEW f \in InQueue'
      PROVE  f \in InQueue /\ Older(Head(queue), f)
  <2>p. PICK q : q = queue'
    OBVIOUS
  <2>q. q \in Seq(Entry) /\ f \in Range(q)
    BY <1>2, <1>4, <2>p DEF InQueue
  <2>r. PICK i \in 1 .. Len(q) : f = q[i]
    BY <2>q, InRange
  <2>1. i \in 1 .. Len(queue') /\ f = queue'[i]
    BY <2>p, <2>r
  <2>2. f = queue[i + 1] /\ i + 1 \in 1 .. Len(queue) /\ 1 < i + 1
        /\ 1 \in 1 .. Len(queue)
    BY <1>2, <2>1
  <2>3. f \in InQueue
    BY <1>1, <2>2, RangeEquality DEF InQueue
  <2>4. Older(queue[1], queue[i + 1])
    BY <2>2 DEF OrderInv
  <2> QED BY <1>2, <2>2, <2>3, <2>4
<1>5. Head(queue) \in InQueue
  BY <1>1, <1>2, RangeEquality DEF InQueue
<1> QED BY <1>3, <1>4, <1>5

LEMMA WriteOrder ==
  ASSUME TypeInv, PlaceInv, OrderInv, WorkerWrite
  PROVE  OrderInv'
<1>1. /\ taken \in Entry /\ taken' = NoEntry /\ queue' = queue
  BY WorkerMoves DEF WorkerWrite, WorkerKeeps
<1>2. InWorker = {taken} /\ InWorker' = {} /\ InQueue' = InQueue
  BY <1>1, NoEntryAssumption DEF InWorker, InQueue
<1>3. CASE WriteOK(taken, {}, {taken})
  <2>1. hist.out' = Append(hist.out, taken) /\ hist.direct' = hist.direct
    BY <1>3 DEF WriteOK, TypeInv, HistoryTypeOK
  <2>2. WorkerFIFO' /\ Written' = Written \cup {taken}
    BY <1>1, <1>2, <2>1, WriterOrder DEF OrderInv
  <2> QED BY <1>1, <1>2, <2>1, <2>2 DEF OrderInv
<1>4. CASE WriteError(taken)
  <2>1. hist.out' = hist.out /\ hist.direct' = hist.direct
    BY <1>4 DEF WriteError, TypeInv, HistoryTypeOK
  <2>2. WorkerFIFO' /\ Written' = Written
    BY <2>1 DEF OrderInv, WorkerFIFO, Written
  <2> QED BY <1>1, <1>2, <2>1, <2>2 DEF OrderInv
<1> QED BY <1>3, <1>4 DEF WorkerWrite

LEMMA FallbackOrder ==
  ASSUME TypeInv, PlaceInv, OrderInv, NEW p \in Producers, FallbackWrite(p)
  PROVE  OrderInv'
<1>1. held[p] \in Entry /\ queue' = queue /\ taken' = taken
  BY FallbackMoves DEF FallbackWrite, CallKeeps, workerVars
<1>2. InWorker' = InWorker /\ InQueue' = InQueue
  BY <1>1 DEF InWorker, InQueue
<1>3. CASE WriteOK(held[p], {held[p]}, {})
  <2>1. /\ hist.out' = Append(hist.out, held[p])
        /\ hist.direct' = hist.direct \cup {held[p]}
    BY <1>3 DEF WriteOK, TypeInv, HistoryTypeOK
  <2>2. WorkerFIFO' /\ Written' = Written \cup {held[p]}
    BY <1>1, <2>1, WriterOrder DEF OrderInv
  <2> QED BY <1>1, <1>2, <2>1, <2>2 DEF OrderInv
<1>4. CASE WriteError(held[p])
  <2>1. hist.out' = hist.out /\ hist.direct' = hist.direct
    BY <1>4 DEF WriteError, TypeInv, HistoryTypeOK
  <2>2. WorkerFIFO' /\ Written' = Written
    BY <2>1 DEF OrderInv, WorkerFIFO, Written
  <2> QED BY <1>1, <1>2, <2>1, <2>2 DEF OrderInv
<1> QED BY <1>3, <1>4 DEF FallbackWrite

LEMMA NextOrder == TypeInv /\ PlaceInv /\ OrderInv /\ [Next]_vars => OrderInv'
<1> SUFFICES ASSUME TypeInv, PlaceInv, OrderInv, [Next]_vars PROVE OrderInv'
  OBVIOUS
<1>1. ASSUME UNCHANGED <<queue, taken, hist.out, hist.direct>>
      PROVE  OrderInv'
  <2>1. /\ Written' = Written /\ InWorker' = InWorker /\ InQueue' = InQueue
        /\ WorkerFIFO'
    BY <1>1 DEF Written, InWorker, InQueue, WorkerFIFO, OrderInv
  <2> QED BY <1>1, <2>1 DEF OrderInv
<1>2. ASSUME NEW p \in Producers,
             (\E level \in LogLevels : HandleLog(p, level)) \/ DropIncoming(p)
      PROVE  OrderInv'
  BY <1>1, <1>2 DEF HandleLog, DropIncoming, CallKeeps, workerVars,
                    TypeInv, HistoryTypeOK
<1>3. ASSUME NEW p \in Producers, Evict(p)
      PROVE  OrderInv'
  <2>1. /\ queue # <<>> /\ queue' = Tail(queue) /\ taken' = taken
        /\ hist.out' = hist.out /\ hist.direct' = hist.direct
    BY <1>3 DEF Evict, CallKeeps, workerVars, TypeInv, HistoryTypeOK
  <2>2. Written' = Written /\ InWorker' = InWorker /\ WorkerFIFO'
    BY <2>1 DEF Written, InWorker, WorkerFIFO, OrderInv
  <2>3. /\ \A i, j \in 1 .. Len(queue') : i < j => Older(queue'[i], queue'[j])
        /\ InQueue' \subseteq InQueue
    BY <2>1, TailOrder
  <2> QED BY <2>1, <2>2, <2>3 DEF OrderInv
<1>4. ASSUME NEW from \in {"select", "batch", "drain"}, Receive(from)
      PROVE  OrderInv'
  <2>1. /\ queue # <<>> /\ queue' = Tail(queue) /\ taken' = Head(queue)
        /\ hist' = hist
    BY <1>4 DEF Receive, WorkerKeeps
  <2>2. Written' = Written /\ InWorker' \subseteq {Head(queue)} /\ WorkerFIFO'
    BY <2>1 DEF Written, InWorker, WorkerFIFO, OrderInv
  <2>3. /\ \A i, j \in 1 .. Len(queue') : i < j => Older(queue'[i], queue'[j])
        /\ \A f \in InQueue' : f \in InQueue /\ Older(Head(queue), f)
        /\ Head(queue) \in InQueue
    BY <2>1, TailOrder
  <2> QED BY <2>1, <2>2, <2>3 DEF OrderInv
<1>5. CASE QuietStep
  BY <1>1, <1>5, QuietKeeps DEF EntriesKept
<1> QED BY <1>2, <1>3, <1>4, <1>5, StepKinds, SendOrder, WriteOrder, FallbackOrder

(* The worker writes the entries of one producer in the order they were    *)
(* logged in, whatever is dropped or evicted in between (console_async.go, *)
(* process).                                                               *)
THEOREM WorkerFIFOAlways == Spec => []WorkerFIFO
<1>1. Init => OrderInv
  BY DEF Init, NoHistory, OrderInv, WorkerFIFO, Written, InWorker, InQueue, Range
<1>2. TypeInv /\ PlaceInv /\ OrderInv /\ [Next]_vars => OrderInv'
  BY NextOrder
<1>3. OrderInv => WorkerFIFO
  BY DEF OrderInv
<1> QED BY <1>1, <1>2, <1>3, PlaceInvariant, PTL DEF Spec

-----------------------------------------------------------------------------
(* The counters of Stats()                                                 *)

Calls     == Cardinality(CallsMade)
Processed == stats.processed
Dropped   == GetTotalDropped(stats.dropped)
Failed    == Cardinality(hist.failed)
Waiting   == Len(queue)
WithCalls == Cardinality(InHand)
WithWorker == Cardinality(InWorker)

Balance == Calls = Processed + Dropped + Failed + Waiting + WithCalls + WithWorker

(* Only finitely many calls are under way, however many goroutines there   *)
(* are.                                                                    *)
CountInv ==
  /\ IsFiniteSet(CallsMade) /\ IsFiniteSet(InHand) /\ IsFiniteSet(hist.failed)
  /\ ~queueClosed /\ LogLevels \subseteq CountedLevels => Balance

LEMMA CountType ==
  ASSUME TypeInv, CountInv
  PROVE  /\ Calls \in Nat /\ Processed \in Nat /\ Dropped \in Nat
         /\ Failed \in Nat /\ Waiting \in Nat /\ WithCalls \in Nat
         /\ WithWorker \in Nat
<1>1. Processed \in Nat /\ Dropped \in Nat /\ Waiting \in Nat
  BY DEF TypeInv, StatsTypeOK, QueueTypeOK, Processed, Dropped, Waiting,
         GetTotalDropped, CountedLevels, DebugLevel, InfoLevel, WarnLevel,
         ErrorLevel
<1>2. IsFiniteSet({taken})
  BY FS_Singleton
<1>3. IsFiniteSet(InWorker)
  BY <1>2, FS_RemoveElement DEF InWorker
<1>4. Calls \in Nat /\ Failed \in Nat /\ WithCalls \in Nat /\ WithWorker \in Nat
  BY <1>3, FS_CardinalityType DEF CountInv, Calls, Failed, WithCalls, WithWorker
<1> QED BY <1>1, <1>4

LEMMA DroppedOne ==
  ASSUME TypeInv, NEW level \in CountedLevels, CountDrop(level)
  PROVE  Dropped' = Dropped + 1 /\ Processed' = Processed
<1>1. /\ stats.dropped \in [CountedLevels -> Nat]
      /\ stats'.dropped = [stats.dropped EXCEPT ![level] = @ + 1]
      /\ stats'.processed = stats.processed
  BY DEF TypeInv, StatsTypeOK, CountDrop, IncrementDropped
<1>2. level \in {DebugLevel, InfoLevel, WarnLevel, ErrorLevel}
  BY DEF CountedLevels, DebugLevel, InfoLevel, WarnLevel, ErrorLevel
<1> QED
  BY <1>1, <1>2 DEF Dropped, Processed, GetTotalDropped, CountedLevels,
                    DebugLevel, InfoLevel, WarnLevel, ErrorLevel

LEMMA SameCalls ==
  ASSUME logged' = logged, CountInv
  PROVE  Calls' = Calls /\ IsFiniteSet(CallsMade')
<1>1. CallsMade' = CallsMade
  BY DEF CallsMade
<1> QED BY <1>1 DEF Calls, CountInv

(* What a call has logged is held by its caller before anything else.      *)
LEMMA LogCounts ==
  ASSUME TypeInv, PlaceInv, CountInv, NEW p \in Producers,
         NEW level \in LogLevels, HandleLog(p, level)
  PROVE  CountInv'
<1>1. PICK e \in Entry : EntryBorn(p, e)
  BY LogBears
<1>2. e \notin InHand /\ InHand' = InHand \cup {e}
  <2>1. held[p] = NoEntry /\ held' = [held EXCEPT ![p] = e] /\ e.src = p
    BY <1>1 DEF EntryBorn
  <2>2. e \notin InHand
    BY <2>1 DEF InHand, PlaceInv, FateInv, HandInv
  <2> QED BY <2>1, <2>2, HandFilled
<1>3. logged \in [Producers -> 0 .. MaxLogs] /\ logged[p] < MaxLogs
      /\ logged' = [logged EXCEPT ![p] = @ + 1]
  BY DEF TypeInv, CallInv, CallTypeOK, HandleLog
<1>4. /\ <<p, logged[p] + 1>> \notin CallsMade
      /\ CallsMade' = CallsMade \cup {<<p, logged[p] + 1>>}
  <2>1. <<p, logged[p] + 1>> \notin CallsMade
    BY <1>3, BoundAssumption DEF CallsMade
  <2>2. ASSUME NEW q \in Producers, NEW n \in 1 .. MaxLogs
        PROVE  n <= logged'[q] <=> n <= logged[q] \/ (q = p /\ n = logged[p] + 1)
    BY <1>3, BoundAssumption
  <2>3. <<p, logged[p] + 1>> \in Producers \X (1 .. MaxLogs)
    BY <1>3, BoundAssumption
  <2> QED BY <2>1, <2>2, <2>3 DEF CallsMade
<1>5. IsFiniteSet(InHand') /\ WithCalls' = WithCalls + 1
  BY <1>2, FS_AddElement DEF CountInv, WithCalls
<1>6. IsFiniteSet(CallsMade') /\ Calls' = Calls + 1
  BY <1>4, FS_AddElement DEF CountInv, Calls
<1>7. UNCHANGED <<queue, queueClosed, stats, hist, taken>>
  BY DEF HandleLog, workerVars
<1>8. UNCHANGED <<queueClosed, Processed, Dropped, Failed, Waiting, WithWorker>>
  BY <1>7 DEF Processed, Dropped, Failed, Waiting, WithWorker, InWorker
<1>9. IsFiniteSet(hist'.failed)
  BY <1>7 DEF CountInv
<1> QED
  BY <1>5, <1>6, <1>8, <1>9, CountType DEF CountInv, Balance

(* A caller gives up its entry.                                            *)
LEMMA HandCounts ==
  ASSUME TypeInv, PlaceInv, CountInv, NEW p \in Producers, held[p] \in Entry,
         held' = [held EXCEPT ![p] = NoEntry]
  PROVE  IsFiniteSet(InHand') /\ WithCalls' = WithCalls - 1
<1>1. held[p] \in InHand
  BY HandGives, LocatedType
<1>2. InHand' = InHand \ {held[p]}
  BY HandGives
<1> QED BY <1>1, <1>2, FS_RemoveElement DEF CountInv, WithCalls

LEMMA SendCounts ==
  ASSUME TypeInv, PlaceInv, CountInv, NEW p \in Producers, Send(p)
  PROVE  CountInv'
<1>1. /\ held[p] \in Entry /\ held' = [held EXCEPT ![p] = NoEntry]
      /\ queue' = Append(queue, held[p]) /\ queue \in Seq(Entry)
  BY SendMoves DEF Send, Enqueue, TypeInv, QueueTypeOK
<1>2. IsFiniteSet(InHand') /\ WithCalls' = WithCalls - 1
  BY <1>1, HandCounts
<1>3. Waiting' = Waiting + 1
  BY <1>1, AppendProperties DEF Waiting
<1>4. UNCHANGED <<queueClosed, stats, hist, taken, logged>>
  BY DEF Send, CallKeeps, workerVars
<1>5. UNCHANGED <<Processed, Dropped, Failed, WithWorker>>
  BY <1>4 DEF Processed, Dropped, Failed, WithWorker, InWorker
<1>6. IsFiniteSet(hist'.failed)
  BY <1>4 DEF CountInv
<1> QED
  BY <1>2, <1>3, <1>4, <1>5, <1>6, CountType, SameCalls DEF CountInv, Balance

LEMMA DropCounts ==
  ASSUME TypeInv, PlaceInv, CountInv, NEW p \in Producers, DropIncoming(p)
  PROVE  CountInv'
<1>1. held[p] \in Entry /\ held' = [held EXCEPT ![p] = NoEntry]
  BY DropMoves DEF DropIncoming
<1>2. IsFiniteSet(InHand') /\ WithCalls' = WithCalls - 1
  BY <1>1, HandCounts
<1>3. UNCHANGED <<queueClosed, queue, taken, logged>>
      /\ hist'.failed = hist.failed
  BY DEF DropIncoming, CallKeeps, workerVars, TypeInv, HistoryTypeOK
<1>4. UNCHANGED <<Failed, Waiting, WithWorker>> /\ IsFiniteSet(hist'.failed)
  BY <1>3 DEF Failed, Waiting, WithWorker, InWorker, CountInv
<1>5. LogLevels \subseteq CountedLevels =>
        Dropped' = Dropped + 1 /\ Processed' = Processed
  BY <1>1, DroppedOne DEF DropIncoming, Entry
<1> QED
  BY <1>2, <1>3, <1>4, <1>5, CountType, SameCalls DEF CountInv, Balance

LEMMA EvictCounts ==
  ASSUME TypeInv, PlaceInv, CountInv, NEW p \in Producers, Evict(p)
  PROVE  CountInv'
<1>1. queue # <<>> /\ queue' = Tail(queue) /\ queue \in Seq(Entry)
  BY DEF Evict, TypeInv, QueueTypeOK
<1>2. Waiting' = Waiting - 1
  BY <1>1, HeadTailProperties DEF Waiting
<1>3. UNCHANGED <<queueClosed, held, taken, logged>>
      /\ hist'.failed = hist.failed
  BY DEF Evict, Goto, CallKeeps, workerVars, TypeInv, HistoryTypeOK
<1>4. InHand' = InHand
  BY <1>3 DEF InHand
<1>5. /\ UNCHANGED <<Failed, WithCalls, WithWorker>> /\ IsFiniteSet(hist'.failed)
      /\ IsFiniteSet(InHand')
  BY <1>3, <1>4 DEF Failed, WithCalls, WithWorker, InWorker, CountInv
<1>6. LogLevels \subseteq CountedLevels =>
        Dropped' = Dropped + 1 /\ Processed' = Processed
  <2>1. held[p].level \in LogLevels
    BY DEF Evict, TypeInv, CallInv, WorksOnEntry, Entry
  <2> QED BY <2>1, DroppedOne DEF Evict
<1> QED
  BY <1>2, <1>3, <1>5, <1>6, CountType, SameCalls DEF CountInv, Balance

LEMMA ReceiveCounts ==
  ASSUME TypeInv, PlaceInv, CountInv,
         NEW from \in {"select", "batch", "drain"}, Receive(from)
  PROVE  CountInv'
<1>1. /\ queue # <<>> /\ queue' = Tail(queue) /\ queue \in Seq(Entry)
      /\ taken = NoEntry /\ taken' = Head(queue)
  BY DEF Receive, TypeInv, QueueTypeOK, PlaceInv, IdleInv
<1>2. Waiting' = Waiting - 1
  BY <1>1, HeadTailProperties DEF Waiting
<1>3. InWorker = {} /\ InWorker' = {Head(queue)}
  BY <1>1, QueueGives, NoEntryAssumption DEF InWorker
<1>4. WithWorker = 0 /\ WithWorker' = 1
  BY <1>3, FS_EmptySet, FS_Singleton DEF WithWorker
<1>5. UNCHANGED <<queueClosed, held, hist, stats, logged>>
  BY DEF Receive, WorkerKeeps, callVars
<1>6. InHand' = InHand
  BY <1>5 DEF InHand
<1>7. /\ UNCHANGED <<Processed, Dropped, Failed, WithCalls>>
      /\ IsFiniteSet(hist'.failed) /\ IsFiniteSet(InHand')
  BY <1>5, <1>6 DEF Processed, Dropped, Failed, WithCalls, CountInv
<1> QED
  BY <1>2, <1>4, <1>5, <1>7, CountType, SameCalls DEF CountInv, Balance

(* A call of Write is counted as processed or as failed.                   *)
LEMMA WriterCounts ==
  ASSUME TypeInv, CountInv, NEW e \in Entry, e \notin hist.failed,
         NEW fallback, NEW recycle,
         WriteOK(e, fallback, recycle) \/ WriteError(e)
  PROVE  /\ Processed' + Failed' = Processed + Failed + 1 /\ Dropped' = Dropped
         /\ IsFiniteSet(hist'.failed)
         /\ Processed' \in Nat /\ Failed' \in Nat
<1>0. Processed \in Nat /\ Failed \in Nat
  BY CountType
<1>1. CASE WriteOK(e, fallback, recycle)
  <2>1. hist'.failed = hist.failed
    BY <1>1 DEF WriteOK, TypeInv, HistoryTypeOK
  <2>2. Processed' = Processed + 1 /\ Dropped' = Dropped
    BY <1>1 DEF WriteOK, Processed, Dropped, TypeInv, StatsTypeOK
  <2>3. Failed' = Failed /\ IsFiniteSet(hist'.failed)
    BY <2>1 DEF Failed, CountInv
  <2> QED BY <1>0, <2>2, <2>3
<1>2. CASE WriteError(e)
  <2>1. hist'.failed = hist.failed \cup {e} /\ stats' = stats
    BY <1>2 DEF WriteError, TypeInv, HistoryTypeOK
  <2>2. Failed' = Failed + 1 /\ IsFiniteSet(hist'.failed)
    BY <2>1, FS_AddElement DEF Failed, CountInv
  <2>3. Processed' = Processed /\ Dropped' = Dropped
    BY <2>1 DEF Processed, Dropped
  <2> QED BY <1>0, <2>2, <2>3
<1> QED BY <1>1, <1>2

LEMMA FallbackCounts ==
  ASSUME TypeInv, PlaceInv, CountInv, NEW p \in Producers, FallbackWrite(p)
  PROVE  CountInv'
<1>1. /\ held[p] \in Entry /\ held' = [held EXCEPT ![p] = NoEntry]
      /\ WriteOK(held[p], {held[p]}, {}) \/ WriteError(held[p])
  BY FallbackMoves DEF FallbackWrite, Return
<1>2. IsFiniteSet(InHand') /\ WithCalls' = WithCalls - 1
  BY <1>1, HandCounts
<1>3. held[p] \notin hist.failed
  BY <1>1, HandGives, LocatedType DEF Place
<1>4. /\ Processed' + Failed' = Processed + Failed + 1 /\ Dropped' = Dropped
      /\ IsFiniteSet(hist'.failed)
      /\ Processed' \in Nat /\ Failed' \in Nat
  BY <1>1, <1>3, WriterCounts
<1>5. UNCHANGED <<queueClosed, queue, taken, logged>>
  BY DEF FallbackWrite, CallKeeps, workerVars
<1>6. UNCHANGED <<Waiting, WithWorker>>
  BY <1>5 DEF Waiting, WithWorker, InWorker
<1> QED
  BY <1>2, <1>4, <1>5, <1>6, CountType, SameCalls DEF CountInv, Balance

LEMMA WorkerCounts ==
  ASSUME TypeInv, PlaceInv, CountInv, WorkerWrite
  PROVE  CountInv'
<1>1. /\ taken \in Entry /\ taken' = NoEntry
      /\ WriteOK(taken, {}, {taken}) \/ WriteError(taken)
  BY WorkerMoves DEF WorkerWrite
<1>2. InWorker = {taken} /\ InWorker' = {}
  BY <1>1, NoEntryAssumption DEF InWorker
<1>3. WithWorker = 1 /\ WithWorker' = 0
  BY <1>2, FS_EmptySet, FS_Singleton DEF WithWorker
<1>4. taken \notin hist.failed
  BY <1>2, LocatedType DEF PlaceInv, FateInv, Separate, Place
<1>5. /\ Processed' + Failed' = Processed + Failed + 1 /\ Dropped' = Dropped
      /\ IsFiniteSet(hist'.failed)
      /\ Processed' \in Nat /\ Failed' \in Nat
  BY <1>1, <1>4, WriterCounts
<1>6. UNCHANGED <<queueClosed, queue, held, logged>>
  BY DEF WorkerWrite, WorkerKeeps, callVars
<1>7. InHand' = InHand
  BY <1>6 DEF InHand
<1>8. UNCHANGED <<Waiting, WithCalls>> /\ IsFiniteSet(InHand')
  BY <1>6, <1>7 DEF Waiting, WithCalls, CountInv
<1> QED
  BY <1>3, <1>5, <1>6, <1>8, CountType, SameCalls DEF CountInv, Balance

(* The steps that move no entry count nothing, until the queue is closed.  *)
LEMMA QuietCounts ==
  ASSUME TypeInv, CountInv, QuietStep
  PROVE  CountInv'
<1>1. EntriesKept
  BY QuietKeeps
<1>2. InHand' = InHand /\ InWorker' = InWorker
  BY <1>1 DEF EntriesKept, InHand, InWorker
<1>3. /\ UNCHANGED <<Failed, Waiting, WithCalls, WithWorker, logged>>
      /\ IsFiniteSet(InHand') /\ IsFiniteSet(hist'.failed)
  BY <1>1, <1>2 DEF EntriesKept, Failed, Waiting, WithCalls, WithWorker, CountInv
<1>4. ~queueClosed' => ~queueClosed /\ UNCHANGED <<stats.dropped, stats.processed>>
  <2> USE DEF CallKeeps, WorkerKeeps, CloseKeeps, callVars, workerVars
  <2>1. ASSUME NEW p \in Producers, CallWaits(p), ~WaitTimeout(p)
        PROVE  ~queueClosed' => ~queueClosed /\ stats' = stats
    BY <2>1 DEF CallWaits, SendPanics, FindFull, EvictNothing, ArmTimer,
                WaitClosed, Disarm, TryLock, Lock
  <2>2. ASSUME NEW p \in Producers, WaitTimeout(p)
        PROVE  /\ queueClosed' = queueClosed
               /\ stats.dropped' = stats.dropped
               /\ stats.processed' = stats.processed
    BY <2>2 DEF WaitTimeout, TypeInv, StatsTypeOK
  <2>3. ASSUME NEW c \in Closers, CloseCheck(c) \/ CloseStep(c)
        PROVE  ~queueClosed' => ~queueClosed /\ stats' = stats
    BY <2>3 DEF CloseStep, CloseCheck, CloseSignal, CloseAwait, CloseQueue,
                TypeInv, SignalTypeOK
  <2>4. ASSUME WorkerTurns \/ TimerFires \/ UNCHANGED vars
        PROVE  queueClosed' = queueClosed /\ stats' = stats
    BY <2>4 DEF WorkerTurns, BatchEmpty, SeeClosed, DeadlineExpires, DrainEnds,
                WorkerLock, TimerFires, vars
  <2> QED BY <2>1, <2>2, <2>3, <2>4 DEF QuietStep
<1>5. ~queueClosed' => ~queueClosed /\ UNCHANGED <<Processed, Dropped>>
  BY <1>4 DEF Processed, Dropped
<1> QED
  BY <1>3, <1>5, SameCalls DEF CountInv, Balance

(* The counters of Stats() account for every call, however many there are, *)
(* until the queue is closed (console_async.go, console.go, policy.go).    *)
THEOREM StatsAccountAlways == Spec => []StatsAccount
<1>1. Init => CountInv
  <2> SUFFICES ASSUME Init PROVE CountInv
    OBVIOUS
  <2>1. /\ CallsMade = {} /\ InHand = {} /\ hist.failed = {} /\ InWorker = {}
        /\ Waiting = 0 /\ Processed = 0
    BY DEF Init, NoHistory, CallsMade, InHand, InWorker, Waiting, Processed
  <2>2. Dropped = 0
    BY DEF Init, ZeroDropped, Dropped, GetTotalDropped, CountedLevels,
           DebugLevel, InfoLevel, WarnLevel, ErrorLevel
  <2>3. Calls = 0 /\ Failed = 0 /\ WithCalls = 0 /\ WithWorker = 0
    BY <2>1, FS_EmptySet DEF Calls, Failed, WithCalls, WithWorker
  <2> QED BY <2>1, <2>2, <2>3, FS_EmptySet DEF CountInv, Balance
<1>2. TypeInv /\ PlaceInv /\ CountInv /\ [Next]_vars => CountInv'
  BY StepKinds, LogCounts, SendCounts, DropCounts, EvictCounts, ReceiveCounts,
     FallbackCounts, WorkerCounts, QuietCounts
<1>3. CountInv => StatsAccount
  BY DEF CountInv, Balance, StatsAccount, Calls, Processed, Dropped, Failed,
         Waiting, WithCalls, WithWorker
<1> QED BY <1>1, <1>2, <1>3, PlaceInvariant, PTL DEF Spec

=============================================================================
