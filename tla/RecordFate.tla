------------------------------ MODULE RecordFate ------------------------------
(***************************************************************************)
(* What an asynchronous handler promises about one log record, whatever    *)
(* goroutines do: a record is in one place at a time, it moves forward     *)
(* only, and once it has been written, discarded or refused by the writer  *)
(* it never comes back.  Nothing is promised about when.                   *)
(***************************************************************************)
CONSTANT Record

(* A caller holds a record until the record is queued, dropped, or written *)
(* by the caller itself; the worker takes records out of the queue, unless *)
(* an overflow policy evicts them first.                                   *)
Moves == [unborn    |-> {"held"},
          held      |-> {"queued", "discarded", "written", "failed"},
          queued    |-> {"taken", "discarded"},
          taken     |-> {"written", "failed"},
          written   |-> {},
          discarded |-> {},
          failed    |-> {}]

VARIABLE fate

Init == fate = [r \in Record |-> "unborn"]

(* One record moves at a time.                                             *)
Move(r) == \E f \in Moves[fate[r]] : fate' = [fate EXCEPT ![r] = f]

Next == \E r \in Record : Move(r)

Spec == Init /\ [][Next]_fate
=============================================================================
