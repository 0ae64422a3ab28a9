------------------------------ MODULE ElfHash ------------------------------
(***************************************************************************)
(* elf_hash (elf.cc): calls on names of bytes, one turn of its loop per    *)
(* step, in words of 32 bits.  hash is below 2^28 at the head of the loop, *)
(* so the word after the shift and the addition is kept as its top nibble  *)
(* and the 28 bits under it, and no number leaves TLC's range.             *)
(***************************************************************************)
EXTENDS Integers

CONSTANTS Bytes,     \* what names are made of
          MaxName    \* bound: the length of a name

ASSUME BytesAssumption == Bytes \subseteq 1..255
ASSUME MaxNameAssumption == MaxName \in Nat

VARIABLES
    hash,    \* the local of that name
    read,    \* how many bytes name has gone
    value     \* history: the name as a numeral of base 16, until that is too
             \* large for the register

hashVars == <<hash, read, value>>

Top == 268435456    \* 2^28, the first bit of the mask 0xF0000000
Over == 16777216    \* 2^24, the first bit shifted into that mask

HashTypeOK == /\ hash \in 0..(Top - 1)
              /\ read \in 0..MaxName
              /\ value \in 0..Top

(* The exclusive or of two nibbles, bit by bit.                            *)
Bit(n, b) == (n \div b) % 2
Xor(m, n) == LET bit(b) == IF Bit(m, b) = Bit(n, b) THEN 0 ELSE b
             IN  bit(1) + bit(2) + bit(4) + bit(8)

(* hash << 4 in 32 bits, plus a byte: the sum of all but the top nibble,   *)
(* then the nibble g >> 28 and the bits under the mask.  What a carry out  *)
(* of the word would be is lost.                                           *)

(* Faulty: `|' for `+'. *)
BelowOr(h, c) == (h % Over) * 16 + (c % 16)
                 + 16 * ((c \div 16) - ((c \div 16) + (h % 16) - Xor(c \div 16, h % 16)) \div 2)
Below(h, c) == (h % Over) * 16 + c
Under(h, c) == Below(h, c) % Top

(* Faulty: a carry into the top nibble is not counted. *)
PushedOutNoCarry(h, c) == h \div Over
PushedOut(h, c) == (h \div Over + Below(h, c) \div Top) % 16

(* hash ^= g >> 24, of the bits under the mask.                            *)
Fold(w, g) == LET n == (w \div 16) % 16 IN w + 16 * (Xor(n, g) - n)

(* Faulty: the bytes are signed. *)
TurnSigned(h, c) == IF c < 128 THEN Fold(Under(h, c), PushedOut(h, c))
                    ELSE Fold(Under(h, c - 256 + Top), PushedOut(h, c))
Turn(h, c) == Fold(Under(h, c), PushedOut(h, c))

HashInit == hash = 0 /\ read = 0 /\ value = 0

HashByte(c) == /\ read < MaxName
               /\ hash' = Turn(hash, c)
               /\ read' = read + 1
               /\ value' = IF value < Over /\ value * 16 + c < Top THEN value * 16 + c ELSE Top

(* The terminating 0: the call returns, and another one begins.            *)
HashReturn == /\ read > 0
              /\ hash' = 0 /\ read' = 0 /\ value' = 0

HashNext == HashReturn \/ \E c \in Bytes : HashByte(c)

HashSpec == HashInit /\ [][HashNext]_hashVars

-----------------------------------------------------------------------------
(* As long as nothing was pushed out the hash is the numeral of the name:  *)
(* short names that differ have hashes that differ as they should.         *)
ShortIsNumeral == value < Top => hash = value

(* Names that differ in their last byte only have different hashes: no     *)
(* fold hides the byte that was just added.                                *)
LastByteTells ==
    \A c \in Bytes, d \in Bytes : Turn(hash, c) = Turn(hash, d) => c = d

(* The arithmetic on words is the shift register of the ELF symbol tables. *)
Weight == [i \in 0..6 |-> CASE i = 0 -> 1 [] i = 1 -> 16 [] i = 2 -> 256 [] i = 3 -> 4096
                            [] i = 4 -> 65536 [] i = 5 -> 1048576 [] i = 6 -> Over]
Nibbles(h) == [i \in 0..6 |-> (h \div Weight[i]) % 16]

Register == INSTANCE NibbleRegister WITH reg <- Nibbles(hash)
ImplementsRegister == Register!RSpec
=============================================================================
