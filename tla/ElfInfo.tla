------------------------------ MODULE ElfInfo ------------------------------
(***************************************************************************)
(* The words in which the structs of elf.hh pack two fields: the info of a *)
(* symbol, of a relocation and of a move record.  A client makes a word    *)
(* with make_info, and later makes it again with one field changed and the *)
(* other read back.  All shifts and masks of the code are of whole         *)
(* nibbles: they are powers of B, which is 2^4 there.                      *)
(***************************************************************************)
EXTENDS Integers

CONSTANTS B,       \* the base, 16 in the code
          Syms,    \* bound: the symbols, indices or bindings the client uses
          Types    \* bound: the types or sizes it uses, of any width

ASSUME BaseAssumption == B \in Nat /\ B > 1
ASSUME FieldsAssumption == Syms \subseteq Nat /\ Types \subseteq Nat

B2 == B * B
B8 == B2 * B2 * B2 * B2
B16 == B8 * B8

(* For each struct: 2 to the shift of the upper field, the mask of the     *)
(* lower one and the largest word, both plus one.  size() and the argument *)
(* of make_info are uint8_t in a move record, which masks them; the mask   *)
(* of a relocation is 32 bits in both classes.                             *)
Format == [symbol |-> [shift |-> B,  mask |-> B,  word |-> B2],
           rela32 |-> [shift |-> B2, mask |-> B8, word |-> B8],
           rela64 |-> [shift |-> B8, mask |-> B8, word |-> B16],
           move32 |-> [shift |-> B2, mask |-> B2, word |-> B8],
           move64 |-> [shift |-> B2, mask |-> B2, word |-> B16]]
Kinds == {"symbol", "rela32", "rela64", "move32", "move64"}

VARIABLES
    kind,        \* which struct
    info,        \* its member _info
    sym, type,   \* history: the fields the client means it to hold
    carry        \* history: what the types given to make_info since the symbol
                 \* was last given had above the bits below the shift
vars == <<kind, info, sym, type, carry>>

Narrowed(k, t) == t % Format[k].shift
Fits(k, s) == s * Format[k].shift < Format[k].word

(* What the mask lets through of a type above the bits below the shift,    *)
(* and the number of symbols that these upper bits tell apart.             *)
Above(k, t) == (t % Format[k].mask) \div Format[k].shift
Slots(k) == Format[k].word \div Format[k].shift

TypeOK == /\ kind \in Kinds
          /\ info \in 0..(Format[kind].word - 1)
          /\ sym \in Nat /\ Fits(kind, sym)
          /\ type \in 0..(Format[kind].shift - 1)
          /\ carry \in 0..(Slots(kind) - 1)

-----------------------------------------------------------------------------
(* Faulty: the lower field is not masked. *)
make_infoUnmasked(k, s, t) == (s * Format[k].shift + t) % Format[k].word
make_info(k, s, t) == (s * Format[k].shift + (t % Format[k].mask)) % Format[k].word

(* sym(), or bind() of a symbol; type(), or size() of a move record.       *)
SymOf(k, i) == i \div Format[k].shift
TypeOf(k, i) == i % Format[k].mask

-----------------------------------------------------------------------------
Init == /\ kind \in Kinds
        /\ info = 0 /\ sym = 0 /\ type = 0
        /\ carry = 0

Make(k, s, t) == /\ Fits(k, s)
                 /\ kind' = k
                 /\ info' = make_info(k, s, t)
                 /\ sym' = s
                 /\ type' = Narrowed(k, t)
                 /\ carry' = Above(k, t)

ChangeSym(s) == LET t == TypeOf(kind, info) IN
                /\ Fits(kind, s)
                /\ info' = make_info(kind, s, t)
                /\ sym' = s
                /\ carry' = Above(kind, t)
                /\ UNCHANGED <<kind, type>>

ChangeType(t) == /\ info' = make_info(kind, SymOf(kind, info), t)
                 /\ type' = Narrowed(kind, t)
                 /\ carry' = (carry + Above(kind, t)) % Slots(kind)
                 /\ UNCHANGED <<kind, sym>>

Next == \/ \E k \in Kinds, s \in Syms, t \in Types : Make(k, s, t)
        \/ \E s \in Syms : ChangeSym(s)
        \/ \E t \in Types : ChangeType(t)

Spec == Init /\ [][Next]_vars

-----------------------------------------------------------------------------
(* However often the word was made again from its own fields, the lower    *)
(* one is what the client means, and so is the upper one where the mask is *)
(* no wider than the shift.  In a 32 bit relocation it is: type() has the  *)
(* symbol above its 8 bits and make_info adds it, so that the symbol read  *)
(* is the one meant and what was carried into it, modulo 2^24, and no      *)
(* other (make_info, sym, type, bind, size).                               *)
FieldsStand ==
    /\ Narrowed(kind, TypeOf(kind, info)) = type
    /\ SymOf(kind, info) = (sym + carry) % Slots(kind)
    /\ kind # "rela32" => SymOf(kind, info) = sym /\ TypeOf(kind, info) = type
=============================================================================
