------------------------------ MODULE MCFileSink ------------------------------
(* Instances of FileSink for TLC.                                          *)
EXTENDS FileSink

EveryKind == Kinds
OneForeign == {-1}
==============================================================================
