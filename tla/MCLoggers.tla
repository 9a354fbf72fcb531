------------------------------ MODULE MCLoggers ------------------------------
(* An instance of Loggers for TLC.                                         *)
EXTENDS Loggers, FiniteSets, TLC

CONSTANTS g1, g2

(* A key and a value that need escapes, a number and a time.               *)
ThreeFields == <<[key |-> <<"a", Quote>>, type |-> "string", value |-> <<Newline, "n">>],
                 [key |-> <<"b">>, type |-> "number", value |-> "1"],
                 [key |-> <<"c">>, type |-> "time", value |-> <<"t">>]>>

Clocks == [t \in Time \cup {NoTime} |-> <<ToString(t)>>]

OneAndNoGroup == {<<"g">>, <<>>}

(* All messages of up to three characters: each kind of character next to  *)
(* each other, first and last.                                             *)
Characters  == {"n", Quote, Backslash, Newline, Tab, "0x1f"}
ShortTexts  == UNION {[1 .. n -> Characters] : n \in 0 .. 3}

(* Many objects and fields; all messages; the coarse clock.  The three do  *)
(* not influence each other but for the time and the fields of a record.   *)
ThreeBounds ==
  {[objects |-> 3, fields |-> 3, messages |-> {<<Backslash>>}, clock |-> FALSE],
   [objects |-> 1, fields |-> 1, messages |-> ShortTexts, clock |-> FALSE],
   [objects |-> 2, fields |-> 0, messages |-> {<<>>}, clock |-> TRUE]}

Symmetry == Permutations(Goroutines)
==============================================================================
