-------------------------- MODULE EnumNamesProofs --------------------------
(* Theorems about enum_name and enum_value, for every table.               *)
EXTENDS EnumNames, TLAPS

LEMMA TableType ==
    ASSUME TypeOK
    PROVE  /\ Len(entries) \in Nat
           /\ Indices(tbl) = 1..Len(entries)
           /\ Values(tbl) = {entries[i].value : i \in 1..Len(entries)}
           /\ Names(tbl) = {entries[i].name : i \in 1..Len(entries)}
           /\ Unknown \notin Names(tbl)
<1> DEFINE es == entries
<1>1. es \in Seq([value : Values(tbl), name : Names(tbl)]) /\ Unknown \notin Names(tbl)
  BY TablesAssumption DEF TypeOK, entries
<1>2. Len(es) \in Nat /\ DOMAIN es = 1..Len(es)
  BY <1>1
<1> QED
  BY <1>1, <1>2 DEF entries, Indices, Values, Names

(* Only the searches' own variables change. *)
LEMMA TableStays ==
    ASSUME [Next]_vars
    PROVE  /\ tbl' = tbl /\ asked' = asked /\ entries' = entries
           /\ Values(tbl)' = Values(tbl) /\ Names(tbl)' = Names(tbl)
           /\ Indices(tbl)' = Indices(tbl)
<1>1. tbl' = tbl /\ asked' = asked
  BY DEF Next, vars, NameSkips, NameFinds, NameEnds, ValueSkips, ValueFinds, ValueEnds
<1> QED
  BY <1>1 DEF entries, Values, Names, Indices

LEMMA TypeInit == Init => TypeOK
<1> SUFFICES ASSUME Init PROVE TypeOK
  OBVIOUS
<1>1. Len(entries) \in Nat
  BY TablesAssumption DEF Init, entries
<1> QED
  BY <1>1 DEF Init, TypeOK

LEMMA TypeNext == TypeOK /\ [Next]_vars => TypeOK'
<1> SUFFICES ASSUME TypeOK, [Next]_vars PROVE TypeOK'
  OBVIOUS
<1>1. /\ pos' \in 1..(Len(entries) + 1)
      /\ pc' \in {"name", "value", "done", "crash"}
  BY TableType DEF TypeOK, Next, vars, NameSkips, NameFinds, NameEnds, ValueSkips, ValueFinds, ValueEnds
<1>2. name' \in Names(tbl) \cup {Unknown}
  BY TableType DEF TypeOK, Next, vars, NameSkips, NameFinds, NameEnds, ValueSkips, ValueFinds, ValueEnds
<1>3. value' \in Values(tbl) \cup {Tables[tbl].zero}
  BY TableType DEF TypeOK, Next, vars, NameSkips, NameFinds, NameEnds, ValueSkips, ValueFinds, ValueEnds
<1> QED
  BY <1>1, <1>2, <1>3, TableStays DEF TypeOK

(* The searches stay in the table, and answer with what is in it.          *)
THEOREM TypeCorrect == Spec => []TypeOK
<1>1. Init => TypeOK
  BY TypeInit
<1>2. TypeOK /\ [Next]_vars => TypeOK'
  BY TypeNext
<1> QED
  BY <1>1, <1>2, PTL DEF Spec

-----------------------------------------------------------------------------
(* What a search knows of the entries it has passed.                       *)

SearchInv == /\ pc = "name" => /\ name = Unknown
                               /\ \A j \in 1..(pos - 1) : entries[j].value # asked
             /\ pc = "value" => \A j \in 1..(pos - 1) : entries[j].name # name
             /\ NameIsTheFirst
             /\ ReadBack

LEMMA SearchInit == Init => SearchInv
BY DEF Init, SearchInv, NameIsTheFirst, ReadBack

LEMMA SearchNext == TypeOK /\ SearchInv /\ [Next]_vars => SearchInv'
<1> SUFFICES ASSUME TypeOK, SearchInv, [Next]_vars PROVE SearchInv'
  OBVIOUS
<1> USE TableType, TableStays
<1>1. CASE NameSkips
  <2>1. 1..(pos' - 1) = 1..(pos - 1) \cup {pos}
    BY <1>1 DEF NameSkips, TypeOK
  <2> QED
    BY <1>1, <2>1 DEF NameSkips, SearchInv, NameIsTheFirst, ReadBack
<1>2. CASE NameFinds
  <2>1. pos \in 1..Len(entries) /\ First(pos) /\ asked \in Values(tbl)
    BY <1>2 DEF NameFinds, TypeOK, SearchInv, First
  <2>2. CASE entries[pos].name = NoName
    BY <1>2, <2>2 DEF NameFinds, SearchInv, NameIsTheFirst, ReadBack
  <2>3. CASE entries[pos].name # NoName
    <3>1. pc' = "value" /\ pos' = 1 /\ name' = entries[pos].name
      BY <1>2, <2>3 DEF NameFinds
    <3>2. NameIsTheFirst'
      BY <2>1, <3>1 DEF NameIsTheFirst, First
    <3> QED
      BY <3>1, <3>2 DEF SearchInv, ReadBack
  <2> QED
    BY <2>2, <2>3
<1>3. CASE NameEnds
  <2>1. pos - 1 = Len(entries)
    BY <1>3 DEF NameEnds, TypeOK
  <2>2. asked \notin Values(tbl) /\ name' = Unknown
    BY <1>3, <2>1 DEF NameEnds, SearchInv
  <2>3. NameIsTheFirst'
    BY <2>2 DEF NameIsTheFirst
  <2> QED
    BY <1>3, <2>3 DEF NameEnds, SearchInv, ReadBack
<1>4. CASE ValueSkips
  <2>1. 1..pos = 1..(pos - 1) \cup {pos}
    BY DEF TypeOK
  <2>2. NameIsTheFirst'
    BY <1>4 DEF ValueSkips, SearchInv, NameIsTheFirst, First
  <2>3. pc' = "value" => \A j \in 1..(pos' - 1) : entries[j].name # name
    BY <1>4, <2>1 DEF ValueSkips, SearchInv, TypeOK
  <2> QED
    BY <1>4, <2>2, <2>3 DEF ValueSkips, SearchInv, ReadBack
<1>5. CASE ValueFinds
  <2>1. pos \in 1..Len(entries) /\ name = entries[pos].name /\ value' = entries[pos].value
    BY <1>5 DEF ValueFinds, TypeOK
  <2>2. NameIsTheFirst'
    BY <1>5 DEF ValueFinds, SearchInv, NameIsTheFirst, First
  <2>3. asked \in Values(tbl)
    BY <1>5, <2>1 DEF ValueFinds, SearchInv, NameIsTheFirst
  <2>4. OwnName' => value' = asked
    BY <1>5, <2>1 DEF ValueFinds, OwnName
  <2> QED
    BY <1>5, <2>2, <2>3, <2>4 DEF ValueFinds, SearchInv, ReadBack
<1>6. CASE ValueEnds
  <2>1. pos - 1 = Len(entries)
    BY <1>6 DEF ValueEnds, TypeOK
  <2>2. name \notin Names(tbl)
    BY <1>6, <2>1 DEF ValueEnds, SearchInv
  <2>3. asked \notin Values(tbl)
    BY <1>6, <2>2 DEF ValueEnds, SearchInv, NameIsTheFirst, First
  <2>4. NameIsTheFirst'
    BY <1>6 DEF ValueEnds, SearchInv, NameIsTheFirst, First
  <2> QED
    BY <1>6, <2>3, <2>4 DEF ValueEnds, SearchInv, ReadBack
<1>7. CASE UNCHANGED vars
  BY <1>7 DEF vars, SearchInv, NameIsTheFirst, First, ReadBack, OwnName
<1> QED
  BY <1>1, <1>2, <1>3, <1>4, <1>5, <1>6, <1>7 DEF Next

LEMMA SearchCorrect == Spec => [](TypeOK /\ SearchInv)
<1>1. Init => TypeOK /\ SearchInv
  BY TypeInit, SearchInit
<1>2. (TypeOK /\ SearchInv) /\ [Next]_vars => (TypeOK /\ SearchInv)'
  BY TypeNext, SearchNext
<1> QED
  BY <1>1, <1>2, PTL DEF Spec

(* A value is printed by the name of its first entry, and as "UNKNOWN"     *)
(* only if it has none.                                                    *)
THEOREM NameIsTheFirstCorrect == Spec => []NameIsTheFirst
<1>1. TypeOK /\ SearchInv => NameIsTheFirst
  BY DEF SearchInv
<1> QED
  BY <1>1, SearchCorrect, PTL

(* What was printed is read back, but for names that values share.         *)
THEOREM ReadBackCorrect == Spec => []ReadBack
<1>1. TypeOK /\ SearchInv => ReadBack
  BY DEF SearchInv
<1> QED
  BY <1>1, SearchCorrect, PTL

(* Where no two values share a name the table is the mapping that elf.cc   *)
(* calls it (line 18), for any table: shared names are all there is to the *)
(* finding.                                                                *)
Unshared(t) ==
    \A i, j \in Indices(t) : Tables[t].entries[i].name = Tables[t].entries[j].name
                            => Tables[t].entries[i].value = Tables[t].entries[j].value

THEOREM UnsharedIsMapping == Spec => [](Unshared(tbl) => Mapping)
<1>1. NameIsTheFirst /\ ReadBack => (Unshared(tbl) => Mapping)
  <2> SUFFICES ASSUME NameIsTheFirst, ReadBack, Unshared(tbl), pc = "done", asked \in Values(tbl)
               PROVE  value = asked
    BY DEF Mapping
  <2>1. PICK i \in Indices(tbl) : entries[i].value = asked /\ name = entries[i].name
    BY DEF NameIsTheFirst, First
  <2>2. OwnName
    BY <2>1 DEF OwnName, Unshared, entries
  <2> QED
    BY <2>2 DEF ReadBack
<1> QED
  BY <1>1, NameIsTheFirstCorrect, ReadBackCorrect, PTL

-----------------------------------------------------------------------------
(* In a table whose array is longer than its list of initialisers the      *)
(* entries without a name are at the end, and their value, 0, has an entry *)
(* of its own before them: a search that goes by it never meets them       *)
(* unless its name is in no entry.                                         *)

CrashInv == /\ CrashNeedsPadding
            /\ pc = "value" /\ asked \in Values(tbl) => name # NoName

LEMMA CrashInit == Init => CrashInv
BY DEF Init, CrashInv, CrashNeedsPadding

LEMMA CrashNext ==
    ASSUME PaddingIsLast
    PROVE  TypeOK /\ SearchInv /\ CrashInv /\ [Next]_vars => CrashInv'
<1> SUFFICES ASSUME TypeOK, SearchInv, CrashInv, [Next]_vars PROVE CrashInv'
  OBVIOUS
<1> USE TableType, TableStays
<1>0. \A i \in 1..Len(entries) :
         entries[i].name = NoName =>
             /\ \A j \in i..Len(entries) : entries[j].name = NoName
             /\ \E j \in 1..(i - 1) : entries[j].value = entries[i].value
  BY DEF PaddingIsLast, TypeOK, entries
<1>1. CASE NameFinds
  <2>1. pos \in 1..Len(entries) /\ entries[pos].name # NoName
    BY <1>0, <1>1 DEF NameFinds, TypeOK, SearchInv
  <2> QED
    BY <1>1, <2>1 DEF NameFinds, CrashInv, CrashNeedsPadding
<1>2. CASE ValueSkips
  <2>1. pos \in 1..Len(entries)
    BY <1>2 DEF ValueSkips, TypeOK
  <2>2. CASE entries[pos].name = NoName
    <3>1. \A j \in pos..Len(entries) : entries[j].name = NoName
      BY <1>0, <2>1, <2>2
    <3>2. asked \notin Values(tbl)
      <4>1. SUFFICES ASSUME asked \in Values(tbl) PROVE FALSE
        OBVIOUS
      <4>2. name # NoName
        BY <1>2, <4>1 DEF ValueSkips, CrashInv
      <4>3. PICK i \in 1..Len(entries) : name = entries[i].name
        BY <1>2, <4>1 DEF ValueSkips, SearchInv, NameIsTheFirst
      <4>4. i \notin 1..(pos - 1)
        BY <1>2, <4>3 DEF ValueSkips, SearchInv
      <4>5. i \in pos..Len(entries)
        BY <4>3, <4>4, <2>1
      <4> QED
        BY <3>1, <4>2, <4>3, <4>5
    <3>3. name = Unknown
      BY <1>2, <3>2 DEF ValueSkips, SearchInv, NameIsTheFirst
    <3>4. NoName \in Names(tbl)
      BY <2>1, <2>2
    <3> QED
      BY <1>2, <2>2, <3>2, <3>3, <3>4 DEF ValueSkips, CrashInv, CrashNeedsPadding
  <2>3. CASE entries[pos].name # NoName
    BY <1>2, <2>3 DEF ValueSkips, CrashInv, CrashNeedsPadding
  <2> QED
    BY <2>2, <2>3
<1>3. CASE NameEnds
  <2>1. asked \notin Values(tbl)
    BY <1>3 DEF NameEnds, SearchInv, TypeOK
  <2> QED
    BY <1>3, <2>1 DEF NameEnds, CrashInv, CrashNeedsPadding
<1>4. CASE NameSkips \/ ValueFinds \/ ValueEnds
  BY <1>4 DEF NameSkips, ValueFinds, ValueEnds, CrashInv, CrashNeedsPadding
<1>5. CASE UNCHANGED vars
  BY <1>5 DEF vars, CrashInv, CrashNeedsPadding
<1> QED
  BY <1>1, <1>2, <1>3, <1>4, <1>5 DEF Next

(* Printing never meets a null name, nor does reading back what was        *)
(* printed, except for "UNKNOWN".                                          *)
THEOREM CrashNeedsPaddingCorrect ==
    ASSUME PaddingIsLast
    PROVE  Spec => []CrashNeedsPadding
<1>1. Init => CrashInv
  BY CrashInit
<1>2. TypeOK /\ SearchInv /\ CrashInv /\ [Next]_vars => CrashInv'
  BY CrashNext
<1>3. CrashInv => CrashNeedsPadding
  BY DEF CrashInv
<1> QED
  BY <1>1, <1>2, <1>3, SearchCorrect, PTL DEF Spec
=============================================================================
