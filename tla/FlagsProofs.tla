---------------------------- MODULE FlagsProofs ----------------------------
(* Theorems about Flags, for enumerations of any width and any table that  *)
(* begins with the flag that is 0.                                         *)
EXTENDS Flags, TLAPS

(* Everything in a table is a flag of its enumeration. *)
LEMMA TableType ==
    ASSUME TypeOK
    PROVE  /\ Len(entries) \in Nat \ {0}
           /\ DOMAIN entries = 1..Len(entries)
           /\ \A i \in 1..Len(entries) : entries[i] \in Entries(tbl)
           /\ Values(tbl) \subseteq SUBSET WordBits(tbl)
           /\ {} \in Values(tbl)
           /\ entries[1].value = {}
           /\ Tables[tbl].stray \subseteq WordBits(tbl)
<1> DEFINE es == entries
<1>1. /\ es \in Seq(Entries(tbl))
      /\ es # <<>>
      /\ es[1].value = {}
      /\ Tables[tbl].stray \subseteq WordBits(tbl)
  BY TablesAssumption DEF TypeOK, entries
<1>2. Len(es) \in Nat \ {0} /\ DOMAIN es = 1..Len(es)
  BY <1>1
<1>3. \A i \in 1..Len(es) : es[i] \in Entries(tbl)
  BY <1>1, <1>2
<1>4. Values(tbl) = {es[i].value : i \in 1..Len(es)}
  BY <1>2 DEF Values, entries
<1>5. Values(tbl) \subseteq SUBSET WordBits(tbl)
  BY <1>3, <1>4 DEF Entries
<1>6. {} \in Values(tbl)
  BY <1>1, <1>2, <1>4
<1> QED
  BY <1>1, <1>2, <1>3, <1>5, <1>6 DEF entries

(* The operators stay within the word. *)
LEMMA WordsStay ==
    ASSUME word \subseteq WordBits(tbl), NEW f
    PROVE  /\ Or(word, f) \subseteq WordBits(tbl)
           /\ And(word, f) \subseteq WordBits(tbl)
           /\ And(word, Not(f)) \subseteq WordBits(tbl)
           /\ Xor(word, f) \subseteq WordBits(tbl)
BY DEF Or, And, Not, Xor

LEMMA TypeInit == Init => TypeOK
<1> SUFFICES ASSUME Init PROVE TypeOK
  OBVIOUS
<1>1. /\ entries \in Seq(Entries(tbl)) \ {<<>>}
      /\ Tables[tbl].stray \subseteq WordBits(tbl)
      /\ Statements[tbl] \in Nat
  BY TablesAssumption, StatementsAssumption DEF Init, entries
<1>2. Len(entries) \in Nat /\ 1 \in 1..(Len(entries) + 1)
  BY <1>1
<1>3. word \subseteq WordBits(tbl)
  BY <1>1 DEF Init
<1>4. found \in Seq(Entries(tbl))
  BY DEF Init
<1> QED
  BY <1>1, <1>2, <1>3, <1>4 DEF Init, TypeOK, Ops

LEMMA TypeNext == TypeOK /\ [Next]_vars => TypeOK'
<1> SUFFICES ASSUME TypeOK, [Next]_vars PROVE TypeOK'
  OBVIOUS
<1>0. Statements[tbl] \in Nat
  BY StatementsAssumption DEF TypeOK
<1>1. ASSUME NEW f \in Values(tbl) \cup {Wide}, OrInto(f) \/ AndInto(f) \/ Clear(f) \/ XorInto(f)
      PROVE  TypeOK'
  <2>1. word' \subseteq WordBits(tbl)
    BY <1>1, WordsStay DEF TypeOK, OrInto, AndInto, Clear, XorInto
  <2>2. composed' \in BOOLEAN
    BY <1>1 DEF TypeOK, OrInto, AndInto, Clear, XorInto
  <2>3. \E op \in Ops : Statement(op, f)
    BY <1>1 DEF OrInto, AndInto, Clear, XorInto, Ops
  <2> QED
    BY <1>0, <1>1, <2>1, <2>2, <2>3 DEF TypeOK, Statement, WordBits, Values, Entries, Names, entries
<1>2. ASSUME NEW call \in Calls, Call(call) PROVE TypeOK'
  BY <1>2 DEF TypeOK, Call, WordBits, Values, Entries, Names, entries
<1>3. ASSUME Take PROVE TypeOK'
  <2>1. pos \in 1..Len(entries) /\ pos' \in 1..(Len(entries) + 1)
    BY <1>3, TableType DEF TypeOK, Take
  <2>2. Kept(entries[pos]) \in Entries(tbl)
    BY <2>1, TableType DEF Kept, Entries
  <2>3. found' \in Seq(Entries(tbl))
    BY <1>3, <2>2 DEF TypeOK, Take
  <2> QED
    BY <1>3, <2>1, <2>3 DEF TypeOK, Take, WordBits, Values, Entries, Names, entries
<1>4. ASSUME Skip PROVE TypeOK'
  <2>1. pos' \in 1..(Len(entries) + 1)
    BY <1>4, TableType DEF TypeOK, Skip
  <2> QED
    BY <1>4, <2>1 DEF TypeOK, Skip, WordBits, Values, Entries, Names, entries
<1>5. ASSUME Return PROVE TypeOK'
  <2>1. /\ entries[1] \in Entries(tbl)
        /\ [value |-> {}, name |-> NoName] \in Entries(tbl)
    BY TableType DEF Entries
  <2>2. found' \in Seq(Entries(tbl))
    BY <1>5, <2>1 DEF TypeOK, Return
  <2> QED
    BY <1>5, <2>2 DEF TypeOK, Return, WordBits, Values, Entries, Names, entries
<1>6. CASE UNCHANGED vars
  BY <1>6 DEF TypeOK, vars, WordBits, Values, Entries, Names, entries
<1> QED
  BY <1>1, <1>2, <1>3, <1>4, <1>5, <1>6 DEF Next

(* A word never has a bit beyond its type, and the loops of extract_flags  *)
(* and extract_flag_pairs stay in the table.                               *)
THEOREM TypeCorrect == Spec => []TypeOK
<1>1. Init => TypeOK
  BY TypeInit
<1>2. TypeOK /\ [Next]_vars => TypeOK'
  BY TypeNext
<1> QED
  BY <1>1, <1>2, PTL DEF Spec

-----------------------------------------------------------------------------
(* The loop: found has the flags of the entries that were looked at and    *)
(* are in the word.                                                        *)

PresentIn(n) == {v \in Values(tbl) : /\ v # {} /\ v \subseteq word
                                     /\ \E i \in 1..n : v = entries[i].value}

LoopInv == /\ pc = "client" => pos = 1 /\ found = <<>>
           /\ pc \in Calls => FoundValues = PresentIn(pos - 1)
           /\ FoundExactly

LEMMA AllEntries == TypeOK => PresentIn(Len(entries)) = Present
BY TableType DEF PresentIn, Present, Values, entries

(* What one more entry adds. *)
LEMMA OneMore ==
    ASSUME TypeOK, NEW i \in 1..Len(entries)
    PROVE  PresentIn(i) = IF IsSet(entries[i])
                          THEN PresentIn(i - 1) \cup {entries[i].value}
                          ELSE PresentIn(i - 1)
<1>1. Len(entries) \in Nat /\ 1..i = 1..(i - 1) \cup {i}
  BY TableType
<1>2. entries[i].value \in Values(tbl)
  BY TableType DEF Values, entries
<1> QED
  BY <1>1, <1>2 DEF PresentIn, IsSet

LEMMA AppendValues ==
    ASSUME TypeOK, NEW e \in Entries(tbl), found' = Append(found, e)
    PROVE  FoundValues' = FoundValues \cup {e.value}
<1>1. /\ found \in Seq(Entries(tbl))
      /\ Len(found) \in Nat
      /\ DOMAIN found = 1..Len(found)
      /\ DOMAIN found' = 1..(Len(found) + 1)
  BY DEF TypeOK
<1>2. /\ \A k \in 1..Len(found) : found'[k] = found[k]
      /\ found'[Len(found) + 1] = e
  BY <1>1
<1>3. DOMAIN found' = DOMAIN found \cup {Len(found) + 1}
  BY <1>1
<1> QED
  BY <1>1, <1>2, <1>3 DEF FoundValues

LEMMA EmptyFound ==
    ASSUME TypeOK PROVE found = <<>> <=> FoundValues = {}
<1>1. /\ found \in Seq(Entries(tbl))
      /\ Len(found) \in Nat
      /\ DOMAIN found = 1..Len(found)
  BY DEF TypeOK
<1>2. found = <<>> <=> Len(found) = 0
  BY <1>1
<1>3. ASSUME found # <<>> PROVE found[1].value \in FoundValues
  BY <1>1, <1>2, <1>3 DEF FoundValues
<1>4. ASSUME found = <<>> PROVE FoundValues = {}
  BY <1>1, <1>2, <1>4 DEF FoundValues
<1> QED
  BY <1>3, <1>4

LEMMA LoopInit == Init => LoopInv
BY DEF Init, LoopInv, FoundExactly, Calls

LEMMA LoopNext == TypeOK /\ LoopInv /\ [Next]_vars => LoopInv'
<1> SUFFICES ASSUME TypeOK, LoopInv, [Next]_vars PROVE LoopInv'
  OBVIOUS
<1>1. ASSUME NEW f \in Values(tbl) \cup {Wide}, OrInto(f) \/ AndInto(f) \/ Clear(f) \/ XorInto(f)
      PROVE  LoopInv'
  <2>1. \E op \in Ops : Statement(op, f)
    BY <1>1 DEF OrInto, AndInto, Clear, XorInto, Ops
  <2> QED
    BY <2>1 DEF LoopInv, FoundExactly, Statement, Calls
<1>2. ASSUME NEW call \in Calls, Call(call) PROVE LoopInv'
  <2>1. FoundValues' = {} /\ pos' = 1 /\ pc' \in Calls
    BY <1>2 DEF LoopInv, Call, FoundValues
  <2>2. PresentIn(0) = {}
    BY DEF PresentIn
  <2>3. PresentIn(pos - 1)' = {}
    BY <1>2, <2>1, <2>2 DEF Call, PresentIn, Values, entries
  <2> QED
    BY <2>1, <2>3 DEF LoopInv, FoundExactly, Calls
<1>3. ASSUME Take PROVE LoopInv'
  <2>1. pos \in 1..Len(entries) /\ IsSet(entries[pos]) /\ pos' - 1 = pos
    BY <1>3, TableType DEF TypeOK, Take
  <2>2. /\ Kept(entries[pos]) \in Entries(tbl)
        /\ Kept(entries[pos]).value = entries[pos].value
    BY <2>1, TableType DEF Kept, Entries
  <2>3. FoundValues' = FoundValues \cup {entries[pos].value}
    BY <1>3, <2>2, AppendValues DEF Take
  <2>4. FoundValues' = PresentIn(pos)
    BY <1>3, <2>1, <2>3, OneMore DEF LoopInv, Take
  <2>5. PresentIn(pos - 1)' = PresentIn(pos)
    <3>1. pos' - 1 = pos /\ word' = word /\ tbl' = tbl
      BY <1>3, <2>1 DEF Take
    <3> QED
      BY <3>1 DEF PresentIn, Values, entries
  <2> QED
    BY <1>3, <2>4, <2>5 DEF LoopInv, FoundExactly, Take, Calls
<1>4. ASSUME Skip PROVE LoopInv'
  <2>1. pos \in 1..Len(entries) /\ ~IsSet(entries[pos]) /\ pos' - 1 = pos
    BY <1>4, TableType DEF TypeOK, Skip
  <2>2. FoundValues' = PresentIn(pos)
    BY <1>4, <2>1, OneMore DEF LoopInv, Skip, FoundValues
  <2>3. PresentIn(pos - 1)' = PresentIn(pos)
    <3>1. pos' - 1 = pos /\ word' = word /\ tbl' = tbl
      BY <1>4, <2>1 DEF Skip
    <3> QED
      BY <3>1 DEF PresentIn, Values, entries
  <2> QED
    BY <1>4, <2>2, <2>3 DEF LoopInv, FoundExactly, Skip, Calls
<1>5. ASSUME Return PROVE LoopInv'
  <2>1. pos - 1 = Len(entries)
    BY <1>5, TableType DEF TypeOK, Return
  <2>2. FoundValues = Present
    BY <1>5, <2>1, AllEntries DEF LoopInv, Return
  <2>3. FoundValues' = IF Present = {} THEN {{}} ELSE Present
    <3>1. CASE found = <<>>
      <4>1. Present = {}
        BY <3>1, <2>2, EmptyFound
      <4>2. /\ DOMAIN found' = {1}
            /\ found'[1].value = {}
        BY <1>5, <3>1, TableType DEF Return
      <4> QED
        BY <4>1, <4>2 DEF FoundValues
    <3>2. CASE found # <<>>
      BY <1>5, <2>2, <3>2, EmptyFound DEF Return, FoundValues
    <3> QED
      BY <3>1, <3>2
  <2>4. Present' = Present
    BY <1>5 DEF Return, Present, Values
  <2> QED
    BY <1>5, <2>3, <2>4 DEF LoopInv, FoundExactly, Return, Calls
<1>6. CASE UNCHANGED vars
  <2>1. UNCHANGED <<tbl, word, pc, pos, found>>
    BY <1>6 DEF vars
  <2>2. FoundValues' = FoundValues /\ Present' = Present
    BY <2>1 DEF FoundValues, Present, Values
  <2>3. PresentIn(pos - 1)' = PresentIn(pos - 1)
    BY <2>1 DEF PresentIn, Values, entries
  <2> QED
    BY <2>1, <2>2, <2>3 DEF LoopInv, FoundExactly
<1> QED
  BY <1>1, <1>2, <1>3, <1>4, <1>5, <1>6 DEF Next

LEMMA LoopCorrect == Spec => [](TypeOK /\ LoopInv)
<1>1. Init => TypeOK /\ LoopInv
  BY TypeInit, LoopInit
<1>2. (TypeOK /\ LoopInv) /\ [Next]_vars => (TypeOK /\ LoopInv)'
  BY TypeNext, LoopNext
<1> QED
  BY <1>1, <1>2, PTL DEF Spec

(* The answer of extract_flags and extract_flag_pairs is the set of the    *)
(* flags that are in the word, or the flag 0 if there are none.            *)
THEOREM FoundExactlyCorrect == Spec => []FoundExactly
<1>1. TypeOK /\ LoopInv => FoundExactly
  BY DEF LoopInv
<1> QED
  BY <1>1, LoopCorrect, PTL

-----------------------------------------------------------------------------
(* The statements.                                                         *)

WordInv == /\ composed => word = UNION Present
           /\ last.op = "|" /\ last.flag \in Values(tbl) => last.flag \subseteq word
           /\ last.op = "&~" => word \cap last.flag = {}
           /\ last.op = "&" => word \subseteq last.flag

LEMMA WordInit == Init => WordInv
<1> SUFFICES ASSUME Init PROVE WordInv
  OBVIOUS
<1>1. last.op = "none"
  BY DEF Init
<1>2. ASSUME composed PROVE word = UNION Present
  <2>1. word = {}
    BY <1>2 DEF Init
  <2> QED
    BY <2>1 DEF Present
<1> QED
  BY <1>1, <1>2 DEF WordInv

LEMMA WordNext == TypeOK /\ WordInv /\ [Next]_vars => WordInv'
<1> SUFFICES ASSUME TypeOK, WordInv, [Next]_vars PROVE WordInv'
  OBVIOUS
<1>1. ASSUME NEW f \in Values(tbl) \cup {Wide}, OrInto(f) PROVE WordInv'
  <2>1. /\ tbl' = tbl
        /\ last' = [op |-> "|", flag |-> f]
        /\ word' = (word \cup f) \cap WordBits(tbl)
        /\ composed' = (composed /\ f \in Values(tbl))
    BY <1>1 DEF OrInto, Statement, Or
  <2>2. Values(tbl)' = Values(tbl)
    BY <2>1 DEF Values
  <2>3. ASSUME f \in Values(tbl) PROVE word' = word \cup f
    BY <2>1, <2>3, TableType DEF TypeOK
  <2>4. ASSUME composed' PROVE word' = UNION Present'
    <3>1. word' = word \cup f /\ word = UNION Present
      BY <2>1, <2>3, <2>4 DEF WordInv
    <3>2. Present \subseteq Present'
      BY <2>2, <3>1 DEF Present
    <3>3. f # {} => f \in Present'
      BY <2>1, <2>2, <2>4, <3>1 DEF Present
    <3>4. UNION Present' \subseteq word'
      BY DEF Present
    <3> QED
      BY <3>1, <3>2, <3>3, <3>4
  <2> QED
    BY <2>1, <2>2, <2>3, <2>4 DEF WordInv
<1>2. ASSUME NEW f \in Values(tbl) \cup {Wide}, AndInto(f) \/ Clear(f) \/ XorInto(f)
      PROVE  WordInv'
  BY <1>2 DEF WordInv, AndInto, Clear, XorInto, Statement, And, Not
<1>3. ASSUME \/ \E call \in Calls : Call(call)
             \/ Take \/ Skip \/ Return \/ UNCHANGED vars
      PROVE  WordInv'
  <2>1. UNCHANGED <<tbl, word, last, composed>>
    BY <1>3 DEF Call, Take, Skip, Return, vars
  <2> QED
    BY <2>1 DEF WordInv, Present, Values
<1> QED
  BY <1>1, <1>2, <1>3 DEF Next

LEMMA WordCorrect == Spec => [](TypeOK /\ LoopInv /\ WordInv)
<1>1. Init => WordInv
  BY WordInit
<1>2. TypeOK /\ WordInv /\ [Next]_vars => WordInv'
  BY WordNext
<1> QED
  BY <1>1, <1>2, LoopCorrect, PTL DEF Spec

(* A word that was composed of flags of a table is taken apart completely. *)
THEOREM ReassemblesCorrect == Spec => []Reassembles
<1>1. TypeOK /\ LoopInv /\ WordInv => Reassembles
  <2> SUFFICES ASSUME LoopInv, WordInv, pc = "returned", composed PROVE word = UNION FoundValues
    BY DEF Reassembles
  <2>1. /\ word = UNION Present
        /\ FoundValues = IF Present = {} THEN {{}} ELSE Present
    BY DEF LoopInv, WordInv, FoundExactly
  <2> QED
    BY <2>1
<1> QED
  BY <1>1, WordCorrect, PTL

(* A flag that was added last is found, one that was cleared or masked out *)
(* last is not.                                                            *)
THEOREM StatementsShowCorrect == Spec => []StatementsShow
<1>1. TypeOK /\ LoopInv /\ WordInv => StatementsShow
  <2> SUFFICES ASSUME LoopInv, WordInv, pc = "returned" PROVE StatementsShow
    BY DEF StatementsShow
  <2>1. FoundValues = IF Present = {} THEN {{}} ELSE Present
    BY DEF LoopInv, FoundExactly
  <2>2. \A v \in FoundValues : v \subseteq word
    BY <2>1 DEF Present
  <2>3. ASSUME last.op = "|", last.flag \in Values(tbl) \ {{}}
        PROVE  last.flag \in FoundValues
    BY <2>1, <2>3 DEF WordInv, Present
  <2>4. ASSUME last.op = "&~" PROVE \A v \in FoundValues : v \cap last.flag = {}
    BY <2>2, <2>4 DEF WordInv
  <2>5. ASSUME last.op = "&" PROVE \A v \in FoundValues : v \subseteq last.flag
    BY <2>2, <2>5 DEF WordInv
  <2> QED
    BY <2>3, <2>4, <2>5 DEF StatementsShow
<1> QED
  BY <1>1, WordCorrect, PTL
=============================================================================
