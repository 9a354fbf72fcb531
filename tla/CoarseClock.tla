----------------------------- MODULE CoarseClock -----------------------------
(***************************************************************************)
(* The cached clock of core/coarse_clock.go: the first StartCoarseClock    *)
(* stores the time and starts a goroutine that goes on storing it; a       *)
(* logger built with it dereferences the stored pointer in every call.     *)
(***************************************************************************)
EXTENDS Integers

CONSTANTS Goroutines,  \* those that call StartCoarseClock
          NoTime,      \* the nil pointer
          MaxTime      \* bound: the clock stops there

ASSUME TimeAssumption == MaxTime \in Nat /\ NoTime \notin 0 .. MaxTime

VARIABLES
  now,        \* what time.Now() returns
  once,       \* coarseClockOnce: new, running or done
  coarseNow,  \* the cached time
  call,       \* where each goroutine's StartCoarseClock is
  sample,     \* the t the function under the Once has read
  tickers,    \* background goroutines, by the goroutine that started them
  tick        \* the t each of them has read and not stored

clockVars == <<now, once, coarseNow, call, sample, tickers, tick>>

Time == 0 .. MaxTime

ClockInit ==
  /\ now = 0 /\ once = "new" /\ coarseNow = NoTime
  /\ call = [g \in Goroutines |-> "none"]
  /\ sample = [g \in Goroutines |-> NoTime]
  /\ tickers = {}
  /\ tick = [g \in Goroutines |-> NoTime]

StartCoarseClock(g) ==
  /\ call[g] = "none"
  /\ call' = [call EXCEPT ![g] = "once"]
  /\ UNCHANGED <<now, once, coarseNow, sample, tickers, tick>>

(* Once.Do: one caller runs the function ...                               *)
OnceRun_Always(g) ==
  /\ call[g] = "once"
  /\ once' = "running" /\ sample' = [sample EXCEPT ![g] = now]
  /\ call' = [call EXCEPT ![g] = "store"]
  /\ UNCHANGED <<now, coarseNow, tickers, tick>>
OnceRun(g) ==
  /\ call[g] = "once" /\ once = "new"
  /\ once' = "running" /\ sample' = [sample EXCEPT ![g] = now]
  /\ call' = [call EXCEPT ![g] = "store"]
  /\ UNCHANGED <<now, coarseNow, tickers, tick>>

(* ... which stores the time it has read and starts the ticker ...         *)
OnceStore(g) ==
  /\ call[g] = "store"
  /\ coarseNow' = sample[g] /\ sample' = [sample EXCEPT ![g] = NoTime]
  /\ tickers' = tickers \cup {g} /\ once' = "done"
  /\ call' = [call EXCEPT ![g] = "returned"]
  /\ UNCHANGED <<now, tick>>

(* ... and the others wait until it has returned.                          *)
OnceReturn_NoWait(g) ==
  /\ call[g] = "once" /\ once # "new"
  /\ call' = [call EXCEPT ![g] = "returned"]
  /\ UNCHANGED <<now, once, coarseNow, sample, tickers, tick>>
OnceReturn(g) ==
  /\ call[g] = "once" /\ once = "done"
  /\ call' = [call EXCEPT ![g] = "returned"]
  /\ UNCHANGED <<now, once, coarseNow, sample, tickers, tick>>

(* The background goroutine reads the time, and stores it.                 *)
TickRead(g) ==
  /\ g \in tickers /\ tick[g] = NoTime
  /\ tick' = [tick EXCEPT ![g] = now]
  /\ UNCHANGED <<now, once, coarseNow, call, sample, tickers>>

TickStore(g) ==
  /\ tick[g] # NoTime
  /\ coarseNow' = tick[g] /\ tick' = [tick EXCEPT ![g] = NoTime]
  /\ UNCHANGED <<now, once, call, sample, tickers>>

TimePasses ==
  /\ now < MaxTime /\ now' = now + 1
  /\ UNCHANGED <<once, coarseNow, call, sample, tickers, tick>>

ClockStep ==
  \/ \E g \in Goroutines : \/ OnceRun(g) \/ OnceStore(g) \/ OnceReturn(g)
                           \/ TickRead(g) \/ TickStore(g)
  \/ TimePasses
-----------------------------------------------------------------------------
ClockTypeOK ==
  /\ now \in Time
  /\ once \in {"new", "running", "done"}
  /\ coarseNow \in Time \cup {NoTime}
  /\ call \in [Goroutines -> {"none", "once", "store", "returned"}]
  /\ sample \in [Goroutines -> Time \cup {NoTime}]
  /\ tickers \in SUBSET Goroutines
  /\ tick \in [Goroutines -> Time \cup {NoTime}]

(* The cached time never goes back: there is one goroutine that stores it, *)
(* and the store of the first caller comes before it starts (coarse_clock  *)
(* .go, StartCoarseClock).                                                 *)
ClockMonotone ==
  [][coarseNow # NoTime => coarseNow' # NoTime /\ coarseNow' >= coarseNow]_clockVars
==============================================================================
