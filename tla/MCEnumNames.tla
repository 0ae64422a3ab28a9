---------------------------- MODULE MCEnumNames ----------------------------
(* The searches of EnumNames in all the tables of the library. *)
EXTENDS EnumNames, EnumTables

AllTables == NumberTables @@ FlagTables

(* What EnumNamesProofs!CrashNeedsPaddingCorrect supposes of the tables. *)
ASSUME PaddingAssumption == PaddingIsLast
=============================================================================
