------------------------------- MODULE Flags -------------------------------
(***************************************************************************)
(* Words of flags: the operators that EnableBitmask gives an enumeration,  *)
(* and extract_flags and extract_flag_pairs (include/utility.hh), which    *)
(* list the flags of a table that are in a word.                           *)
(*                                                                         *)
(* A word and a flag are sets of bits.  A client takes a word, of a file   *)
(* or empty, changes it by statements such as w |= f or w &= ~f, and then  *)
(* asks for its flags.                                                     *)
(***************************************************************************)
EXTENDS Integers, Sequences

CONSTANTS Tables,      \* the tables, by their names
          Wide,        \* an integer operand that may be wider than the word
          Statements,  \* bound: changes of a word, for each table
          NoName       \* the name of an entry that is kept as a value alone

WordBits(t) == 0..(Tables[t].width - 1)
Values(t) == {Tables[t].entries[i].value : i \in DOMAIN Tables[t].entries}
Names(t) == {Tables[t].entries[i].name : i \in DOMAIN Tables[t].entries}
Entries(t) == [value : SUBSET WordBits(t), name : Names(t) \cup {NoName}]

(* Every table begins with the flag that is 0. *)
ASSUME TablesAssumption ==
    \A t \in DOMAIN Tables : /\ Tables[t].entries \in Seq(Entries(t)) \ {<<>>}
                             /\ Tables[t].entries[1].value = {}
                             /\ Tables[t].stray \subseteq WordBits(t)
ASSUME StatementsAssumption == \A t \in DOMAIN Tables : Statements[t] \in Nat

VARIABLES
    tbl,        \* the table of the enumeration
    word,       \* the client's word
    statements, \* how many statements have run
    pc,         \* "client", the call that runs, or "returned"
    pos,        \* the entry that the loop is at
    found,      \* _found_flags
    last,       \* history: the last statement
    composed    \* history: the word was empty and had flags added only

vars == <<tbl, word, statements, pc, pos, found, last, composed>>

entries == Tables[tbl].entries

Init == /\ tbl \in DOMAIN Tables
        /\ word \in {{}, Tables[tbl].stray, WordBits(tbl)}
        /\ statements = 0
        /\ pc = "client"
        /\ pos = 1
        /\ found = <<>>
        /\ last = [op |-> "none", flag |-> {}]
        /\ composed = (word = {})

-----------------------------------------------------------------------------
(* The operators; static_cast cuts a wider result to the underlying type.  *)

(* Faulty: the sign bit is lost. *)
OrSigned(lh, rh) == (lh \cup rh) \ {Tables[tbl].width - 1}

Or(lh, rh) == (lh \cup rh) \cap WordBits(tbl)
And(lh, rh) == lh \cap rh \cap WordBits(tbl)
Not(en) == WordBits(tbl) \ en
Xor(lh, rh) == ((lh \cup rh) \ (lh \cap rh)) \cap WordBits(tbl)

(* The client's statements, each an assigning operator.                    *)

Statement(op, flag) == /\ pc = "client"
                       /\ statements < Statements[tbl]
                       /\ statements' = statements + 1
                       /\ last' = [op |-> op, flag |-> flag]
                       /\ UNCHANGED <<tbl, pc, pos, found>>

OrInto(f) == /\ Statement("|", f)
             /\ word' = Or(word, f)
             /\ composed' = (composed /\ f \in Values(tbl))

AndInto(f) == /\ Statement("&", f)
              /\ word' = And(word, f)
              /\ composed' = FALSE

(* w &= ~f *)
Clear(f) == /\ Statement("&~", f)
            /\ word' = And(word, Not(f))
            /\ composed' = FALSE

XorInto(f) == /\ Statement("^", f)
              /\ word' = Xor(word, f)
              /\ composed' = FALSE

-----------------------------------------------------------------------------
(* extract_flags and extract_flag_pairs                                    *)

Calls == {"extract_flags", "extract_flag_pairs"}

(* What the call keeps of an entry. *)
Kept(e) == IF pc = "extract_flags" THEN [value |-> e.value, name |-> NoName] ELSE e

Call(call) == /\ pc = "client"
              /\ pc' = call
              /\ UNCHANGED <<tbl, word, statements, pos, found, last, composed>>

(* Faulty: one bit of a mask is enough. *)
IsSetPartly(e) == word \cap e.value # {}

IsSet(e) == word \cap e.value = e.value /\ e.value # {}

Take == /\ pc \in Calls
        /\ pos <= Len(entries)
        /\ IsSet(entries[pos])
        /\ found' = Append(found, Kept(entries[pos]))
        /\ pos' = pos + 1
        /\ UNCHANGED <<tbl, word, statements, pc, last, composed>>

Skip == /\ pc \in Calls
        /\ pos <= Len(entries)
        /\ ~IsSet(entries[pos])
        /\ pos' = pos + 1
        /\ UNCHANGED <<tbl, word, statements, pc, found, last, composed>>

(* Faulty: the first flag is the answer. *)
ReturnFirst == /\ pc \in Calls
               /\ pos > Len(entries) \/ found # <<>>
               /\ found' = IF found = <<>> THEN <<Kept(entries[1])>> ELSE found
               /\ pc' = "returned"
               /\ UNCHANGED <<tbl, word, statements, pos, last, composed>>

(* T{} and enum_table[0] are both the flag that is 0. *)
Return == /\ pc \in Calls
          /\ pos > Len(entries)
          /\ found' = IF found # <<>> THEN found
                      ELSE IF pc = "extract_flags" THEN <<[value |-> {}, name |-> NoName]>>
                      ELSE <<entries[1]>>
          /\ pc' = "returned"
          /\ UNCHANGED <<tbl, word, statements, pos, last, composed>>

Next == \/ \E f \in Values(tbl) \cup {Wide} : OrInto(f) \/ AndInto(f) \/ Clear(f) \/ XorInto(f)
        \/ \E call \in Calls : Call(call)
        \/ Take \/ Skip \/ Return

Spec == Init /\ [][Next]_vars
-----------------------------------------------------------------------------
(* Correctness.                                                            *)

Ops == {"none", "|", "&", "&~", "^"}

TypeOK == /\ tbl \in DOMAIN Tables
          /\ word \subseteq WordBits(tbl)
          /\ statements \in 0..Statements[tbl]
          /\ pc \in Calls \cup {"client", "returned"}
          /\ pos \in 1..(Len(entries) + 1)
          /\ found \in Seq(Entries(tbl))
          /\ last \in [op : Ops, flag : Values(tbl) \cup {Wide, {}}]
          /\ composed \in BOOLEAN

FoundValues == {found[k].value : k \in DOMAIN found}
Present == {v \in Values(tbl) : v # {} /\ v \subseteq word}

(* The answer has each flag of the table whose bits are all in the word,   *)
(* whatever masks and aliases the table has, and no other; only a word     *)
(* with no flag is answered by the flag that is 0.                         *)
FoundExactly ==
    pc = "returned" => FoundValues = IF Present = {} THEN {{}} ELSE Present

(* A word that was composed of flags is taken apart completely.            *)
Reassembles == pc = "returned" /\ composed => word = UNION FoundValues

(* The answer shows what the last statement did: a flag added is found, no *)
(* flag that shares a bit with one cleared is, nor one beyond a mask.      *)
StatementsShow ==
    pc = "returned" =>
        /\ last.op = "|" /\ last.flag \in Values(tbl) \ {{}} => last.flag \in FoundValues
        /\ last.op = "&~" => \A v \in FoundValues : v \cap last.flag = {}
        /\ last.op = "&" => \A v \in FoundValues : v \subseteq last.flag
=============================================================================
