------------------------------ MODULE MCFlags ------------------------------
(* Words of all the enumerations of flags.  Two statements, which overlap  *)
(* in a mask of several bits, only where the enumeration is short.         *)
EXTENDS Flags, EnumTables

WideOperand == {0, 15, 40}
Bound == [t \in DOMAIN FlagTables |-> IF Len(FlagTables[t].entries) <= 12 THEN 2 ELSE 1]
=============================================================================
