------------------------------ MODULE EntryPool ------------------------------
(***************************************************************************)
(* The pool of entries (core/entry.go): one sync.Pool for all loggers and  *)
(* handlers of the process.  Time and Level of an entry are left out: who  *)
(* gets an entry sets them together with its Message.                      *)
(***************************************************************************)
EXTENDS Naturals, Sequences

CONSTANTS Cell,      \* the addresses of entries
          Record,    \* what is logged; a message, a field or a caller is
                     \* known by the record it belongs to
          NoRecord   \* an empty message, a CallerInfo that is not Defined

Entry == [message : Record \cup {NoRecord}, fields : Seq(Record),
          caller : Record \cup {NoRecord}]

VARIABLES made,   \* the entries allocated so far
          pool,   \* how many times sync.Pool holds each of them
          entry   \* the memory: what each entry contains

Zero == [message |-> NoRecord, fields |-> <<>>, caller |-> NoRecord]

PoolInit ==
  /\ made = {} /\ pool = [e \in Cell |-> 0] /\ entry = [e \in Cell |-> Zero]

PoolTypeOK ==
  /\ made \in SUBSET Cell /\ pool \in [Cell -> Nat]
  /\ entry \in [Cell -> Entry]

(* Get returns any entry of the pool, or a new one: a pool is per P, and   *)
(* the garbage collector may empty it at any time.                         *)
Take(e) ==
  \/ pool[e] > 0 /\ pool' = [pool EXCEPT ![e] = @ - 1] /\ UNCHANGED made
  \/ e \notin made /\ made' = made \cup {e} /\ UNCHANGED pool

(* GetEntry clears message and fields, which the goroutine sets at once:   *)
(* nobody else can look at the entry before it is passed on.  It trusts    *)
(* PutEntry to have cleared the caller.                                    *)
GetEntry(e, content) == Take(e) /\ entry' = [entry EXCEPT ![e] = content]

PutEntry_KeepsCaller(e) ==
  /\ pool' = [pool EXCEPT ![e] = @ + 1]
  /\ entry' = [entry EXCEPT ![e].fields = <<>>]
  /\ UNCHANGED made
PutEntry(e) ==
  /\ pool' = [pool EXCEPT ![e] = @ + 1]
  /\ entry' = [entry EXCEPT ![e].fields = <<>>, ![e].caller = NoRecord]
  /\ UNCHANGED made
==============================================================================
