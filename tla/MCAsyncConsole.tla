---------------------------- MODULE MCAsyncConsole ----------------------------
(* Instances of AsyncConsole for TLC.                                      *)
EXTENDS AsyncConsole, TLC

CONSTANTS p1, p2, p3, c1, c2

OneProducer    == {p1}
TwoProducers   == {p1, p2}
NoCloser       == {}
OneCloser      == {c1}
TwoClosers     == {c1, c2}

Symmetry == Permutations(Producers) \cup Permutations(Closers)

OnlyInfo     == {InfoLevel}
OnlyError    == {ErrorLevel}
InfoAndError == {InfoLevel, ErrorLevel}
InfoAndFatal == {InfoLevel, FatalLevel}

(* Besides the DefaultLevelPolicy: configurations with DropOldest.         *)
EvictInfo  == (InfoLevel :> DropOldest) @@ (ErrorLevel :> Block)
BlockInfo  == (InfoLevel :> Block) @@ (FatalLevel :> DropOldest)
==============================================================================
