----------------------------- MODULE EnumNames -----------------------------
(***************************************************************************)
(* enum_name and enum_value (include/utility.hh), the two searches that    *)
(* turn a value of an enumeration into a name and back, entry by entry.  A *)
(* client asks for the name of a value, as the operators << do, and then   *)
(* for the value of the name it got.                                       *)
(*                                                                         *)
(* A table is [entries, zero, stray]: the entries in order, each with a    *)
(* value and a name; what static_cast makes of 0; a value of no entry.     *)
(***************************************************************************)
EXTENDS Integers, Sequences

CONSTANTS Tables,   \* the tables, by their names
          NoName,   \* the null name of an entry without an initialiser
          Unknown   \* "UNKNOWN", which is the name of no entry

Indices(t) == DOMAIN Tables[t].entries
Values(t) == {Tables[t].entries[i].value : i \in Indices(t)}
Names(t) == {Tables[t].entries[i].name : i \in Indices(t)}

ASSUME TablesAssumption ==
    \A t \in DOMAIN Tables : /\ Tables[t].entries \in Seq([value : Values(t), name : Names(t)])
                             /\ Tables[t].stray \notin Values(t)
                             /\ Unknown \notin Names(t)
ASSUME UnknownAssumption == Unknown # NoName

(* An array that is longer than its list of initialisers has entries       *)
(* without a name at its end, and their value, 0, has a name of its own.   *)
PaddingIsLast ==
    \A t \in DOMAIN Tables : \A i \in Indices(t) :
        Tables[t].entries[i].name = NoName =>
            /\ \A j \in i..Len(Tables[t].entries) : Tables[t].entries[j].name = NoName
            /\ \E j \in 1..(i - 1) : Tables[t].entries[j].value = Tables[t].entries[i].value

VARIABLES
    tbl,     \* the table
    asked,   \* the value that the client has
    pc,      \* the search that runs, or how it ended
    pos,     \* the entry that it looks at
    name,    \* what enum_name answered
    value    \* what enum_value answered

vars == <<tbl, asked, pc, pos, name, value>>

entries == Tables[tbl].entries

Init == /\ tbl \in DOMAIN Tables
        /\ asked \in Values(tbl) \cup {Tables[tbl].stray}
        /\ pc = "name"
        /\ pos = 1
        /\ name = Unknown
        /\ value = Tables[tbl].zero

-----------------------------------------------------------------------------
(* enum_name *)

(* Faulty: the step is not checked against the end. *)
NameSkipsTwo == /\ pc = "name"
                /\ pos <= Len(entries)
                /\ entries[pos].value # asked
                /\ pos' = pos + 2
                /\ UNCHANGED <<tbl, asked, pc, name, value>>

NameSkips == /\ pc = "name"
             /\ pos <= Len(entries)
             /\ entries[pos].value # asked
             /\ pos' = pos + 1
             /\ UNCHANGED <<tbl, asked, pc, name, value>>

(* A std::string made of a null pointer throws, in a noexcept function. *)
NameFinds == /\ pc = "name"
             /\ pos <= Len(entries)
             /\ entries[pos].value = asked
             /\ IF entries[pos].name = NoName
                THEN pc' = "crash" /\ UNCHANGED <<pos, name>>
                ELSE pc' = "value" /\ pos' = 1 /\ name' = entries[pos].name
             /\ UNCHANGED <<tbl, asked, value>>

(* Faulty: the last entry is not looked at. *)
NameEndsEarly == /\ pc = "name"
                 /\ pos >= Len(entries)
                 /\ pc' = "value"
                 /\ pos' = 1
                 /\ UNCHANGED <<tbl, asked, name, value>>

NameEnds == /\ pc = "name"
            /\ pos > Len(entries)
            /\ pc' = "value"
            /\ pos' = 1
            /\ UNCHANGED <<tbl, asked, name, value>>

(* enum_value *)

(* Faulty: takes the entry after a match. *)
ValueFindsNext ==
    /\ pc = "value"
    /\ pos <= Len(entries)
    /\ entries[pos].name = name
    /\ pc' = "done"
    /\ value' = entries[IF pos < Len(entries) THEN pos + 1 ELSE pos].value
    /\ UNCHANGED <<tbl, asked, pos, name>>

(* The name is compared with a std::string: reading a null pointer. *)
ValueSkips == /\ pc = "value"
              /\ pos <= Len(entries)
              /\ entries[pos].name # name
              /\ IF entries[pos].name = NoName
                 THEN pc' = "crash" /\ UNCHANGED pos
                 ELSE pos' = pos + 1 /\ UNCHANGED pc
              /\ UNCHANGED <<tbl, asked, name, value>>

ValueFinds == /\ pc = "value"
              /\ pos <= Len(entries)
              /\ entries[pos].name = name
              /\ pc' = "done"
              /\ value' = entries[pos].value
              /\ UNCHANGED <<tbl, asked, pos, name>>

ValueEnds == /\ pc = "value"
             /\ pos > Len(entries)
             /\ pc' = "done"
             /\ value' = Tables[tbl].zero
             /\ UNCHANGED <<tbl, asked, pos, name>>

Next == NameSkips \/ NameFinds \/ NameEnds \/ ValueSkips \/ ValueFinds \/ ValueEnds

Spec == Init /\ [][Next]_vars
-----------------------------------------------------------------------------
(* Correctness.                                                            *)

TypeOK == /\ tbl \in DOMAIN Tables
          /\ asked \in Values(tbl) \cup {Tables[tbl].stray}
          /\ pc \in {"name", "value", "done", "crash"}
          /\ pos \in 1..(Len(entries) + 1)
          /\ name \in Names(tbl) \cup {Unknown}
          /\ value \in Values(tbl) \cup {Tables[tbl].zero}

(* The name of a value is that of its first entry: an alias does not hide  *)
(* it, and "UNKNOWN" is said only of a value that is in no entry.          *)
First(i) == /\ entries[i].value = asked
            /\ \A j \in 1..(i - 1) : entries[j].value # asked
NameIsTheFirst ==
    pc \in {"value", "done"} =>
        IF asked \in Values(tbl)
        THEN \E i \in Indices(tbl) : First(i) /\ name = entries[i].name
        ELSE name = Unknown

(* A name read back gives the value that it was printed for, if no entry   *)
(* of another value has the same name; and a name that is not in the       *)
(* table, "UNKNOWN" among them, gives 0.                                   *)
OwnName == \A i \in Indices(tbl) : entries[i].name = name => entries[i].value = asked
ReadBack ==
    pc = "done" => /\ asked \in Values(tbl) /\ OwnName => value = asked
                   /\ asked \notin Values(tbl) => value = Tables[tbl].zero

(* Printing never meets a null name.  Reading back meets one only when the *)
(* name is "UNKNOWN", and only in a table whose array is longer than its   *)
(* list of initialisers.                                                   *)
CrashNeedsPadding ==
    pc = "crash" => /\ NoName \in Names(tbl)
                    /\ asked \notin Values(tbl)
                    /\ name = Unknown

(* "ELF enum <-> string mappings": a value that is printed is read back as *)
(* itself.                                                                 *)
Mapping == pc = "done" /\ asked \in Values(tbl) => value = asked
=============================================================================
