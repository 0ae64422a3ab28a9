--------------------------- MODULE NibbleRegister ---------------------------
(***************************************************************************)
(* The hash of the ELF symbol tables as a shift register of seven nibbles, *)
(* the lowest at 0: a byte is added below, with carries, and what is       *)
(* pushed out above comes back in by exclusive or at nibble 1.             *)
(***************************************************************************)
EXTENDS Integers

CONSTANT Bytes
VARIABLE reg

Places == 0..6

(* What comes in at each place, 7 being above the register, before carries *)
(* are added; and the carry into each place.                               *)
Shifted(r, c, i) ==
    IF i = 0 THEN c % 16 ELSE r[i - 1] + (IF i = 1 THEN c \div 16 ELSE 0)

Carry(r, c) ==
    LET carry[i \in 0..7] ==
          IF i = 0 THEN 0 ELSE (Shifted(r, c, i - 1) + carry[i - 1]) \div 16
    IN  carry

Sum(r, c) == [i \in 0..7 |-> (Shifted(r, c, i) + Carry(r, c)[i]) % 16]

Bit(n, b) == (n \div b) % 2
Differ(m, n) == {b \in {1, 2, 4, 8} : Bit(m, b) # Bit(n, b)}

Pushed(r, c, s) ==
    [i \in Places |->
       IF i = 1 THEN CHOOSE n \in 0..15 : Differ(n, s[1]) = {b \in {1, 2, 4, 8} : Bit(s[7], b) = 1}
                ELSE s[i]]

RInit == reg = [i \in Places |-> 0]
Push(c) == reg' = Pushed(reg, c, Sum(reg, c))
Clear == reg' = [i \in Places |-> 0]

RSpec == RInit /\ [][Clear \/ \E c \in Bytes : Push(c)]_reg
=============================================================================
