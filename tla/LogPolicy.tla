------------------------------ MODULE LogPolicy ------------------------------
(***************************************************************************)
(* Log levels (core/entry.go) and overflow policies (handler/policy.go):   *)
(* the vocabulary every handler of the library shares.                     *)
(***************************************************************************)
EXTENDS Integers

DebugLevel == 0
InfoLevel  == 1
WarnLevel  == 2
ErrorLevel == 3
FatalLevel == 4
PanicLevel == 5

Levels == DebugLevel .. PanicLevel

DropNewest == "DropNewest"
DropOldest == "DropOldest"
Block      == "Block"

Policies == {DropNewest, DropOldest, Block}

(* A configuration gives a policy to some of the levels only.              *)
PolicyMaps == UNION {[S -> Policies] : S \in SUBSET Levels}

DefaultLevelPolicy ==
  [level \in DebugLevel .. ErrorLevel |->
     IF level = ErrorLevel THEN Block ELSE DropNewest]

(* What a handler does with an entry of a level: DropNewest when the       *)
(* configuration does not mention the level.                               *)
PolicyFor(config, level) ==
  IF level \in DOMAIN config THEN config[level] ELSE DropNewest

(* IncrementDropped has a counter for these levels and panics for the      *)
(* others.                                                                 *)
CountedLevels == DebugLevel .. ErrorLevel

ZeroDropped == [level \in CountedLevels |-> 0]

IncrementDropped(counters, level) ==
  IF level \in CountedLevels
  THEN [counters EXCEPT ![level] = @ + 1]
  ELSE counters

GetTotalDropped(counters) ==
  counters[DebugLevel] + counters[InfoLevel]
    + counters[WarnLevel] + counters[ErrorLevel]
==============================================================================
