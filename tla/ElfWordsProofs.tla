--------------------------- MODULE ElfWordsProofs ---------------------------
(***************************************************************************)
(* Theorems about ElfInfo, for any base, symbols and types, ElfHash, for   *)
(* names of any bytes and any length, and ElfLayout, for every struct.     *)
(***************************************************************************)
EXTENDS ElfInfo, ElfHash, ElfLayout, TLAPS

-----------------------------------------------------------------------------
(* Division.                                                               *)

LEMMA Division ==
    ASSUME NEW n \in Nat, NEW d \in Nat, d > 0
    PROVE  n = d * (n \div d) + (n % d) /\ n \div d \in Nat /\ n % d \in 0..(d - 1)
<1>1. n \div d \in Nat /\ n % d \in 0..(d - 1)
  OBVIOUS
<1>2. n = d * (n \div d) + (n % d)
  BY Z3
<1> QED
  BY <1>1, <1>2

(* The quotient and the remainder are the only ones.                       *)
LEMMA DivisionUnique ==
    ASSUME NEW q \in Nat, NEW d \in Nat, NEW r \in 0..(d - 1), d > 0
    PROVE  (q * d + r) \div d = q /\ (q * d + r) % d = r
<1> DEFINE n == q * d + r
           p == n \div d
           t == n % d
<1>1. n \in Nat
  OBVIOUS
<1>2. n = d * p + t /\ p \in Nat /\ t \in 0..(d - 1)
  BY <1>1, Division
<1> HIDE DEF p, t
<1>3. d * p + t = q * d + r
  BY <1>2
<1>4. p = q
  <2>1. CASE p < q
    <3>1. q - p - 1 \in Nat /\ d * (q - p - 1) \in Nat
      BY <1>2, <2>1
    <3>2. d * q = d * p + d + d * (q - p - 1)
      BY <1>2, <2>1
    <3> QED
      BY <1>2, <1>3, <3>1, <3>2
  <2>2. CASE q < p
    <3>1. p - q - 1 \in Nat /\ d * (p - q - 1) \in Nat
      BY <1>2, <2>2
    <3>2. d * p = d * q + d + d * (p - q - 1)
      BY <1>2, <2>2
    <3> QED
      BY <1>2, <1>3, <3>1, <3>2
  <2> QED
    BY <1>2, <2>1, <2>2
<1>5. t = r
  BY <1>2, <1>3, <1>4
<1> QED
  BY <1>4, <1>5 DEF p, t

(* Two remainders taken one after the other.                               *)
LEMMA RemainderOfSum ==
    ASSUME NEW x \in Nat, NEW y \in Nat, NEW m \in Nat, m > 0
    PROVE  ((x % m) + y) % m = (x + y) % m
<1> DEFINE c == x % m
           p == x \div m
           n == c + y
<1>1. x = m * p + c /\ p \in Nat /\ c \in Nat
  BY Division
<1> HIDE DEF c, p
<1>2. n \in Nat /\ n = m * (n \div m) + (n % m) /\ n \div m \in Nat /\ n % m \in 0..(m - 1)
  BY <1>1, Division
<1> DEFINE q == n \div m
           r == n % m
<1>3. q \in Nat /\ r \in 0..(m - 1) /\ c + y = m * q + r
  BY <1>2
<1> HIDE DEF q, r, n
<1> DEFINE v == p + q
<1>4. x + y = v * m + r /\ v \in Nat
  BY <1>1, <1>3
<1> HIDE DEF v
<1>5. (v * m + r) % m = r
  BY <1>3, <1>4, DivisionUnique
<1>6. (x + y) % m = r
  BY <1>4, <1>5
<1> QED
  BY <1>6 DEF r, n, c

(* A remainder by a product keeps the remainder by one of the factors.     *)
LEMMA RemainderByProduct ==
    ASSUME NEW a \in Nat, NEW m \in Nat, NEW d \in Nat, NEW r \in 0..(d - 1), m > 0, d > 0
    PROVE  (a * d + r) % (m * d) = (a % m) * d + r
<1> DEFINE c == a % m
           p == a \div m
           f == c * d + r
<1>1. a = m * p + c /\ p \in Nat /\ c \in 0..(m - 1)
  BY Division
<1> HIDE DEF c, p
<1>2. m * d \in Nat /\ m * d > 0
  OBVIOUS
<1>3. f \in 0..(m * d - 1)
  <2>1. m * d = c * d + d + (m - c - 1) * d /\ (m - c - 1) * d \in Nat /\ c * d \in Nat
    BY <1>1
  <2> QED
    BY <1>1, <2>1
<1>4. a * d + r = p * (m * d) + f
  BY <1>1
<1> HIDE DEF f
<1>5. (p * (m * d) + f) % (m * d) = f
  BY <1>1, <1>2, <1>3, DivisionUnique
<1> QED
  BY <1>4, <1>5 DEF f, c

-----------------------------------------------------------------------------
(* The formats: what the proofs use of them.                               *)

LEMMA Formats ==
    ASSUME NEW k \in Kinds
    PROVE  /\ Format[k].shift \in Nat /\ Format[k].shift > 0
           /\ Format[k].mask \in Nat /\ Format[k].mask >= Format[k].shift
           /\ Format[k].word \in Nat /\ Format[k].word >= Format[k].mask
           /\ \E m \in Nat : Format[k].word = m * Format[k].shift
           /\ Format[k].mask = IF k = "rela32" THEN Format[k].word ELSE Format[k].shift
<1>1. B \in Nat /\ B > 1
  BY BaseAssumption
<1>2. \A x, y \in Nat : x > 0 /\ y > 0 => x * y \in Nat /\ x * y > 0 /\ x * y >= x
  OBVIOUS
<1> DEFINE B4 == B2 * B2
           B6 == B4 * B2
<1>3. B2 \in Nat /\ B2 > 0 /\ B2 >= B
  BY <1>1, <1>2 DEF B2
<1>4. B4 \in Nat /\ B4 > 0 /\ B4 >= B2
  BY <1>2, <1>3
<1> HIDE DEF B4
<1>5. B6 \in Nat /\ B6 > 0 /\ B6 >= B4
  BY <1>2, <1>3, <1>4
<1>6. B8 = B6 * B2
  BY DEF B8, B4
<1> HIDE DEF B6
<1>7. B8 \in Nat /\ B8 > 0 /\ B8 >= B6
  BY <1>2, <1>3, <1>5, <1>6
<1>8. B16 = B8 * B8 /\ B16 \in Nat /\ B16 >= B8
  BY <1>2, <1>7 DEF B16
<1>9. B16 = (B8 * B6) * B2 /\ B8 * B6 \in Nat
  BY <1>3, <1>5, <1>6, <1>7, <1>8
<1>10. B2 = B * B /\ B8 >= B2 /\ B16 >= B2
  BY <1>3, <1>4, <1>5, <1>7, <1>8 DEF B2
<1> HIDE DEF B2, B8, B16
<1>11. CASE k = "symbol"
  BY <1>1, <1>3, <1>10, <1>11 DEF Format
<1>12. CASE k = "rela32"
  BY <1>3, <1>5, <1>6, <1>7, <1>10, <1>12 DEF Format
<1>13. CASE k = "rela64"
  BY <1>7, <1>8, <1>13 DEF Format
<1>14. CASE k = "move32"
  BY <1>3, <1>5, <1>6, <1>7, <1>10, <1>14 DEF Format
<1>15. CASE k = "move64"
  BY <1>3, <1>9, <1>8, <1>10, <1>15 DEF Format
<1> QED
  BY <1>11, <1>12, <1>13, <1>14, <1>15 DEF Kinds

(* A word has room for its symbols and its lower field, and the mask is as *)
(* wide as the word or lets nothing through above the shift.               *)
LEMMA Sizes ==
    ASSUME NEW k \in Kinds
    PROVE  /\ Slots(k) \in Nat /\ Slots(k) > 0
           /\ Format[k].word = Slots(k) * Format[k].shift
           /\ \E m \in Nat : /\ m > 0
                             /\ Format[k].mask = m * Format[k].shift
                             /\ m = IF k = "rela32" THEN Slots(k) ELSE 1
<1> DEFINE d == Format[k].shift
           w == Format[k].word
<1>1. d \in Nat /\ d > 0 /\ w \in Nat /\ w >= d /\ Format[k].mask = IF k = "rela32" THEN w ELSE d
  BY Formats
<1>2. PICK m \in Nat : w = m * d
  BY Formats
<1> HIDE DEF d, w
<1>3. (m * d + 0) \div d = m
  BY <1>1, DivisionUnique
<1>4. w \div d = m /\ m > 0
  BY <1>1, <1>2, <1>3
<1>5. Slots(k) = m
  BY <1>4 DEF Slots, d, w
<1>6. w = m * d /\ d = 1 * d
  BY <1>1, <1>2
<1> QED
  BY <1>1, <1>4, <1>5, <1>6 DEF d, w

(* A symbol that fits is told apart.                                       *)
LEMMA Room ==
    ASSUME NEW k \in Kinds, NEW s \in Nat, Fits(k, s)
    PROVE  s < Slots(k)
<1> DEFINE d == Format[k].shift
           m == Slots(k)
<1>1. d \in Nat /\ d > 0 /\ m \in Nat
  BY Formats, Sizes
<1>2. s * d < m * d
  BY Sizes DEF Fits
<1> HIDE DEF d, m
<1>3. ASSUME m <= s PROVE FALSE
  <2>1. s - m \in Nat /\ (s - m) * d \in Nat /\ s * d = m * d + (s - m) * d
    BY <1>1, <1>3
  <2> QED
    BY <1>1, <1>2, <2>1
<1> QED
  BY <1>1, <1>3 DEF m

(* What the mask leaves of a type.                                         *)
LEMMA Masked ==
    ASSUME NEW k \in Kinds, NEW t \in Nat
    PROVE  /\ t % Format[k].mask = Above(k, t) * Format[k].shift + Narrowed(k, t)
           /\ Above(k, t) \in 0..(Slots(k) - 1)
           /\ Narrowed(k, t) \in 0..(Format[k].shift - 1)
           /\ k # "rela32" => Above(k, t) = 0
<1> DEFINE d == Format[k].shift
           a == t \div d
           r == t % d
<1>1. d \in Nat /\ d > 0
  BY Formats
<1>2. PICK m \in Nat : m > 0 /\ Format[k].mask = m * d /\ m = IF k = "rela32" THEN Slots(k) ELSE 1
  BY Sizes
<1> HIDE DEF d
<1>3. t = d * a + r /\ a \in Nat /\ r \in 0..(d - 1)
  BY <1>1, Division
<1> HIDE DEF a, r
<1>4. t = a * d + r
  BY <1>1, <1>3
<1>5. t % (m * d) = (a % m) * d + r
  <2>1. (a * d + r) % (m * d) = (a % m) * d + r
    <3>1. m > 0 /\ d \in Nat /\ d > 0 /\ a \in Nat /\ r \in 0..(d - 1)
      BY <1>1, <1>2, <1>3
    <3> QED
      BY <3>1, RemainderByProduct
  <2> QED
    BY <1>4, <2>1
<1>6. a % m \in 0..(m - 1)
  BY <1>2, <1>3, Division
<1>7. ((a % m) * d + r) \div d = a % m
  BY <1>1, <1>3, <1>6, DivisionUnique
<1>8. Above(k, t) = a % m
  BY <1>2, <1>5, <1>7 DEF Above, d
<1>9. Narrowed(k, t) = r
  BY DEF Narrowed, d, r
<1>10. Slots(k) \in Nat /\ Slots(k) > 0
  BY Sizes
<1>11. a % m \in 0..(Slots(k) - 1) /\ (k # "rela32" => a % m = 0)
  BY <1>2, <1>6, <1>10
<1> QED
  BY <1>2, <1>3, <1>5, <1>8, <1>9, <1>11 DEF d

(* The word that make_info makes.                                          *)
LEMMA Packs ==
    ASSUME NEW k \in Kinds, NEW s \in Nat, NEW t \in Nat
    PROVE  make_info(k, s, t) = ((s + Above(k, t)) % Slots(k)) * Format[k].shift + Narrowed(k, t)
<1> DEFINE d == Format[k].shift
           m == Slots(k)
           a == Above(k, t)
           r == Narrowed(k, t)
<1>1. d \in Nat /\ d > 0 /\ m \in Nat /\ m > 0 /\ Format[k].word = m * d
  BY Formats, Sizes
<1>2. t % Format[k].mask = a * d + r /\ a \in Nat /\ r \in 0..(d - 1)
  BY Masked, Sizes
<1>3. make_info(k, s, t) = (s * d + (a * d + r)) % (m * d)
  BY <1>1, <1>2 DEF make_info
<1> HIDE DEF d, m, a, r
<1>4. s * d + (a * d + r) = (s + a) * d + r /\ s + a \in Nat
  BY <1>1, <1>2
<1>5. ((s + a) * d + r) % (m * d) = ((s + a) % m) * d + r
  BY <1>1, <1>2, <1>4, RemainderByProduct
<1> QED
  BY <1>3, <1>4, <1>5 DEF d, m, a, r

(* Its two fields.                                                         *)
LEMMA Unpacks ==
    ASSUME NEW k \in Kinds, NEW s \in 0..(Slots(k) - 1), NEW t \in 0..(Format[k].shift - 1),
           NEW i, i = s * Format[k].shift + t
    PROVE  /\ SymOf(k, i) = s
           /\ TypeOf(k, i) \in Nat
           /\ Narrowed(k, TypeOf(k, i)) = t
           /\ k # "rela32" => TypeOf(k, i) = t
<1>1. /\ Format[k].shift \in Nat /\ Format[k].shift > 0
      /\ Format[k].mask \in Nat /\ Format[k].mask > 0
      /\ k # "rela32" => Format[k].mask = Format[k].shift
      /\ s \in Nat
  BY Formats, Sizes
<1> DEFINE d == Format[k].shift
<1>2. i \div d = s /\ i % d = t /\ i \in Nat
  <2>1. t \in 0..(d - 1) /\ d \in Nat /\ d > 0
    BY <1>1
  <2> HIDE DEF d
  <2>2. (s * d + t) \div d = s /\ (s * d + t) % d = t /\ s * d + t \in Nat
    BY <1>1, <2>1, DivisionUnique
  <2> QED
    BY <2>2 DEF d
<1>3. TypeOf(k, i) \in Nat
  <2> DEFINE m == Format[k].mask
  <2>1. m \in Nat /\ m > 0
    BY <1>1
  <2> HIDE DEF m
  <2>2. i % m \in Nat
    BY <1>2, <2>1, Division
  <2> QED
    BY <2>2 DEF TypeOf, m
<1>4. TypeOf(k, i) = Above(k, i) * Format[k].shift + t /\ Above(k, i) \in Nat
  BY <1>2, Masked, Sizes DEF TypeOf, Narrowed
<1>5. TypeOf(k, i) % d = t
  <2> DEFINE a == Above(k, i)
  <2>1. t \in 0..(d - 1) /\ d \in Nat /\ d > 0 /\ a \in Nat /\ TypeOf(k, i) = a * d + t
    BY <1>1, <1>4
  <2> HIDE DEF d, a
  <2>2. (a * d + t) % d = t
    BY <2>1, DivisionUnique
  <2> QED
    BY <2>1, <2>2
<1> QED
  BY <1>1, <1>2, <1>3, <1>5 DEF SymOf, TypeOf, Narrowed

-----------------------------------------------------------------------------
(* ElfInfo.                                                                *)

(* What a word is.                                                         *)
Packed == /\ info = ((sym + carry) % Slots(kind)) * Format[kind].shift + type
          /\ kind # "rela32" => carry = 0

InfoInv == TypeOK /\ Packed

(* A word of a symbol and a lower field is in range.                       *)
LEMMA WordRange ==
    ASSUME NEW k \in Kinds, NEW s \in 0..(Slots(k) - 1), NEW t \in 0..(Format[k].shift - 1)
    PROVE  s * Format[k].shift + t \in 0..(Format[k].word - 1)
<1> DEFINE d == Format[k].shift
           m == Slots(k)
<1>1. d \in Nat /\ d > 0 /\ m \in Nat /\ Format[k].word = m * d
  BY Formats, Sizes
<1>2. s \in 0..(m - 1) /\ t \in 0..(d - 1)
  OBVIOUS
<1> HIDE DEF d, m
<1>3. m * d = s * d + d + (m - s - 1) * d /\ (m - s - 1) * d \in Nat /\ s * d \in Nat
  BY <1>1, <1>2
<1> QED
  BY <1>1, <1>2, <1>3 DEF d

(* The step's word is packed again when its parts are.                     *)
LEMMA MadeWord ==
    ASSUME NEW k \in Kinds, NEW s \in Nat, Fits(k, s), NEW c \in 0..(Slots(k) - 1),
           NEW t \in 0..(Format[k].shift - 1), k # "rela32" => c = 0,
           kind' = k, sym' = s, carry' = c, type' = t,
           info' = ((s + c) % Slots(k)) * Format[k].shift + t
    PROVE  InfoInv'
<1>1. Slots(k) \in Nat /\ Slots(k) > 0
  BY Sizes
<1>2. (s + c) % Slots(k) \in 0..(Slots(k) - 1)
  <2> DEFINE m == Slots(k)
             n == s + c
  <2>1. n \in Nat /\ m \in Nat /\ m > 0
    BY <1>1
  <2> HIDE DEF m, n
  <2>2. n % m \in 0..(m - 1)
    BY <2>1, Division
  <2> QED
    BY <2>2 DEF m, n
<1>3. info' \in 0..(Format[k].word - 1)
  BY <1>2, WordRange
<1>4. Fits(kind, sym)' /\ Slots(kind)' = Slots(k)
  BY DEF Fits, Slots
<1>5. TypeOK'
  BY <1>3, <1>4 DEF TypeOK
<1>6. Packed'
  BY <1>4 DEF Packed
<1> QED
  BY <1>5, <1>6 DEF InfoInv

(* A word made of a symbol that fits and a type of any width is packed.    *)
LEMMA MadeInfo ==
    ASSUME NEW k \in Kinds, NEW s \in Nat, Fits(k, s), NEW t \in Nat,
           kind' = k, sym' = s, carry' = Above(k, t), type' = Narrowed(k, t),
           info' = make_info(k, s, t)
    PROVE  InfoInv'
<1> DEFINE c == Above(k, t)
           r == Narrowed(k, t)
<1>1. c \in 0..(Slots(k) - 1) /\ r \in 0..(Format[k].shift - 1) /\ (k # "rela32" => c = 0)
  BY Masked
<1>2. info' = ((s + c) % Slots(k)) * Format[k].shift + r
  BY Packs
<1>3. carry' = c /\ type' = r
  OBVIOUS
<1> HIDE DEF c, r
<1> QED
  BY <1>1, <1>2, <1>3, MadeWord

LEMMA InfoInit == Init => InfoInv
<1> SUFFICES ASSUME Init PROVE InfoInv
  OBVIOUS
<1>1. /\ kind \in Kinds /\ Format[kind].shift \in Nat /\ Format[kind].shift > 0
      /\ Format[kind].word \in Nat /\ Format[kind].word > 0
      /\ Slots(kind) \in Nat /\ Slots(kind) > 0
  BY Formats, Sizes DEF Init
<1>2. 0 % Slots(kind) = 0
  BY <1>1, Division
<1>3. TypeOK
  BY <1>1 DEF Init, TypeOK, Fits
<1>4. Packed
  BY <1>1, <1>2 DEF Init, Packed
<1> QED
  BY <1>3, <1>4 DEF InfoInv

(* What the client reads from a packed word.                               *)
LEMMA ReadBack ==
    ASSUME InfoInv
    PROVE  /\ SymOf(kind, info) = (sym + carry) % Slots(kind)
           /\ TypeOf(kind, info) \in Nat
           /\ Narrowed(kind, TypeOf(kind, info)) = type
           /\ kind # "rela32" => SymOf(kind, info) = sym /\ TypeOf(kind, info) = type
<1>1. /\ kind \in Kinds /\ sym \in Nat /\ carry \in Nat
      /\ type \in 0..(Format[kind].shift - 1)
      /\ Slots(kind) \in Nat /\ Slots(kind) > 0 /\ sym < Slots(kind)
  BY Sizes, Room DEF InfoInv, TypeOK
<1>2. (sym + carry) % Slots(kind) \in 0..(Slots(kind) - 1)
  BY <1>1, Division
<1>3. info = ((sym + carry) % Slots(kind)) * Format[kind].shift + type
  BY DEF InfoInv, Packed
<1>4. kind # "rela32" => (sym + carry) % Slots(kind) = sym
  <2>1. \A d \in Nat : \A n \in 0..(d - 1) : n % d = n
    BY Z3
  <2>2. kind # "rela32" => sym + carry = sym /\ sym \in 0..(Slots(kind) - 1)
    BY <1>1 DEF InfoInv, Packed
  <2> QED
    BY <1>1, <2>1, <2>2
<1> QED
  BY <1>1, <1>2, <1>3, <1>4, Unpacks

LEMMA InfoStep == InfoInv /\ [Next]_vars => InfoInv'
<1> SUFFICES ASSUME InfoInv, [Next]_vars PROVE InfoInv'
  OBVIOUS
<1>1. /\ kind \in Kinds /\ sym \in Nat /\ Fits(kind, sym)
      /\ carry \in 0..(Slots(kind) - 1) /\ (kind # "rela32" => carry = 0)
      /\ Slots(kind) \in Nat /\ Slots(kind) > 0
  BY Sizes DEF InfoInv, TypeOK, Packed
<1>2. ASSUME NEW k \in Kinds, NEW s \in Syms, NEW t \in Types, Make(k, s, t) PROVE InfoInv'
  <2>1. s \in Nat /\ t \in Nat
    BY FieldsAssumption
  <2>2. /\ kind' = k /\ sym' = s /\ type' = Narrowed(k, t) /\ carry' = Above(k, t)
        /\ info' = make_info(k, s, t) /\ Fits(k, s)
    BY <1>2 DEF Make
  <2> QED
    BY <2>1, <2>2, MadeInfo
<1>3. ASSUME NEW s \in Syms, ChangeSym(s) PROVE InfoInv'
  <2> DEFINE t == TypeOf(kind, info)
  <2>1. s \in Nat /\ t \in Nat /\ Narrowed(kind, t) = type
    BY FieldsAssumption, ReadBack
  <2>2. /\ kind' = kind /\ info' = make_info(kind, s, t) /\ sym' = s
        /\ type' = Narrowed(kind, t) /\ carry' = Above(kind, t) /\ Fits(kind, s)
    BY <1>3, <2>1 DEF ChangeSym
  <2> HIDE DEF t
  <2> QED
    BY <1>1, <2>1, <2>2, MadeInfo
<1>4. ASSUME NEW t \in Types, ChangeType(t) PROVE InfoInv'
  <2> DEFINE m == Slots(kind)
             a == Above(kind, t)
             c == (carry + a) % m
  <2>1. t \in Nat
    BY FieldsAssumption
  <2>2. a \in 0..(m - 1) /\ (kind # "rela32" => a = 0) /\ m \in Nat /\ m > 0 /\ carry \in Nat
        /\ Narrowed(kind, t) \in 0..(Format[kind].shift - 1)
    BY <1>1, <2>1, Masked
  <2>3. c \in 0..(m - 1) /\ (kind # "rela32" => c = 0)
    <3>1. c \in 0..(m - 1)
      BY <2>2, Division
    <3>2. \A d \in Nat : d > 0 => 0 % d = 0
      BY Z3
    <3> QED
      BY <1>1, <2>2, <3>1, <3>2
  <2>4. /\ kind' = kind /\ sym' = sym /\ type' = Narrowed(kind, t) /\ carry' = c
        /\ info' = make_info(kind, (sym + carry) % m, t)
    BY <1>4, ReadBack DEF ChangeType
  <2>5. (sym + carry) % m \in Nat
    BY <1>1, <2>2, Division
  <2>6. info' = ((((sym + carry) % m) + a) % m) * Format[kind].shift + Narrowed(kind, t)
    BY <1>1, <2>1, <2>4, <2>5, Packs
  <2> HIDE DEF m, a
  <2>7. (((sym + carry) % m) + a) % m = (sym + c) % m
    <3>1. (((sym + carry) % m) + a) % m = ((sym + carry) + a) % m
      <4>1. a \in Nat /\ sym + carry \in Nat
        BY <1>1, <2>2
      <4> QED
        BY <2>2, <4>1, RemainderOfSum
    <3>2. (((carry + a) % m) + sym) % m = ((carry + a) + sym) % m
      <4>1. carry + a \in Nat /\ sym \in Nat
        BY <1>1, <2>2
      <4> QED
        BY <2>2, <4>1, RemainderOfSum
    <3>3. (sym + carry) + a = (carry + a) + sym
      BY <1>1, <2>2
    <3>4. ((carry + a) % m) + sym = sym + c
      BY <1>1, <2>2, <2>3
    <3> QED
      BY <3>1, <3>2, <3>3, <3>4
  <2>8. info' = ((sym + c) % m) * Format[kind].shift + Narrowed(kind, t)
    BY <2>6, <2>7
  <2> HIDE DEF c
  <2> QED
    BY <1>1, <2>2, <2>3, <2>4, <2>8, MadeWord DEF m
<1>5. ASSUME UNCHANGED vars PROVE InfoInv'
  BY <1>5 DEF vars, InfoInv, TypeOK, Packed, Fits, Slots
<1> QED
  BY <1>2, <1>3, <1>4, <1>5 DEF Next

(* Info words are words of their struct, and a symbol that fitted fits.    *)
THEOREM TypeCorrect == Spec => []TypeOK
<1>1. InfoInv => TypeOK
  BY DEF InfoInv
<1> QED
  BY <1>1, InfoInit, InfoStep, PTL DEF Spec

(* For any base, symbols and types of any width, after any number of       *)
(* changes: the lower field is the one meant in every struct, the upper    *)
(* one too in all but a 32 bit relocation, whose symbol is the one meant   *)
(* and what type() and make_info carried into it (make_info, sym, type,    *)
(* bind, size).                                                            *)
THEOREM FieldsStandCorrect == Spec => []FieldsStand
<1>1. InfoInv => FieldsStand
  BY ReadBack DEF FieldsStand
<1> QED
  BY <1>1, InfoInit, InfoStep, PTL DEF Spec

-----------------------------------------------------------------------------
(* ElfHash: the exclusive or of nibbles.                                   *)

(* A nibble is its bits.                                                   *)
LEMMA NibbleBits ==
    ASSUME NEW n \in 0..15
    PROVE  /\ \A b \in {1, 2, 4, 8} : Bit(n, b) \in {0, 1}
           /\ n = Bit(n, 1) + 2 * Bit(n, 2) + 4 * Bit(n, 4) + 8 * Bit(n, 8)
  BY DEF Bit

LEMMA XorNibble ==
    ASSUME NEW m \in 0..15, NEW n \in 0..15
    PROVE  Xor(m, n) \in 0..15
  BY NibbleBits DEF Xor

(* The nibble 0 changes nothing.                                           *)
LEMMA XorZero ==
    ASSUME NEW m \in 0..15
    PROVE  Xor(m, 0) = m
<1>1. \A b \in {1, 2, 4, 8} : Bit(0, b) = 0
  BY DEF Bit
<1> QED
  BY <1>1, NibbleBits DEF Xor

(* It takes nothing away.                                                  *)
LEMMA XorInjective ==
    ASSUME NEW m \in 0..15, NEW n \in 0..15, NEW g \in 0..15, Xor(m, g) = Xor(n, g)
    PROVE  m = n
<1> DEFINE x(a, b) == IF Bit(a, b) = Bit(g, b) THEN 0 ELSE 1
<1>1. \A a : \A b \in {1, 2, 4, 8} : x(a, b) \in {0, 1}
  OBVIOUS
<1>2. \A a : Xor(a, g) = x(a, 1) + 2 * x(a, 2) + 4 * x(a, 4) + 8 * x(a, 8)
  BY DEF Xor
<1>3. ASSUME NEW b \in {1, 2, 4, 8}, x(m, b) = x(n, b) PROVE Bit(m, b) = Bit(n, b)
  BY <1>3, NibbleBits
<1> HIDE DEF x
<1>4. \A b \in {1, 2, 4, 8} : x(m, b) = x(n, b)
  BY <1>1, <1>2
<1>5. \A b \in {1, 2, 4, 8} : Bit(m, b) = Bit(n, b)
  BY <1>3, <1>4
<1> QED
  BY <1>5, NibbleBits

-----------------------------------------------------------------------------
(* One turn of the loop.                                                   *)

(* The three parts that a fold tells apart.                                *)
LEMMA Split ==
    ASSUME NEW w \in Nat
    PROVE  /\ w = 256 * (w \div 256) + 16 * ((w \div 16) % 16) + (w % 16)
           /\ w \div 256 \in Nat /\ (w \div 16) % 16 \in 0..15 /\ w % 16 \in 0..15
  BY Z3

(* The masks' first bits.                                                  *)
LEMMA Masks == Over \in Nat /\ Over > 256 /\ Top = 16 * Over /\ \E k \in Nat : Over = 16 * k
<1>1. Over \in Nat /\ Over > 256 /\ Top = 16 * Over /\ Over = 16 * 1048576
  BY SMT DEF Top, Over
<1>2. 1048576 \in Nat
  BY SMT
<1> QED
  BY <1>1, <1>2, SMT

LEMMA FoldRange ==
    ASSUME NEW w \in 0..(Top - 1), NEW g \in 0..15
    PROVE  Fold(w, g) \in 0..(Top - 1)
<1> DEFINE n == (w \div 16) % 16
<1>1. Top \in Nat /\ w \in Nat /\ \E k \in Nat : Top = 256 * k
  BY Masks, SMT
<1>2. /\ w = 256 * (w \div 256) + 16 * n + (w % 16)
      /\ w \div 256 \in Nat /\ n \in 0..15 /\ w % 16 \in 0..15
  BY <1>1, Split, SMT
<1>3. Xor(n, g) \in 0..15
  BY <1>2, XorNibble, SMT
<1>4. Fold(w, g) = w + 16 * (Xor(n, g) - n)
  BY DEF Fold
<1> DEFINE high == w \div 256
           low == w % 16
<1>5. /\ w = 256 * high + 16 * n + low
      /\ high \in Nat /\ n \in 0..15 /\ low \in 0..15
  BY <1>2
<1> HIDE DEF n, high, low
<1>6. Fold(w, g) = 256 * high + 16 * Xor(n, g) + low
  BY <1>1, <1>3, <1>4, <1>5, SMT
<1>7. 256 * high + 255 < Top
  BY <1>1, <1>5, SMT
<1> QED
  BY <1>1, <1>3, <1>5, <1>6, <1>7, SMT

LEMMA Parts ==
    ASSUME NEW h \in 0..(Top - 1), NEW c \in 0..255
    PROVE  /\ Below(h, c) \in Nat /\ Below(h, c) < Top + 240
           /\ Under(h, c) \in 0..(Top - 1)
           /\ Under(h, c) = IF Below(h, c) < Top THEN Below(h, c) ELSE Below(h, c) - Top
           /\ PushedOut(h, c) \in 0..15
<1>1. Over \in Nat /\ Over > 256 /\ Top = 16 * Over /\ h \in Nat
  BY Masks, SMT
<1>2. h % Over \in 0..(Over - 1) /\ h \div Over \in Nat
  BY <1>1, Division, SMT
<1>3. Below(h, c) \in Nat /\ Below(h, c) < Top + 240
  BY <1>1, <1>2, SMT DEF Below
<1>4. Below(h, c) % Top \in 0..(Top - 1) /\ Below(h, c) \div Top \in Nat
  BY <1>1, <1>3, Division, SMT
<1>5. Under(h, c) = IF Below(h, c) < Top THEN Below(h, c) ELSE Below(h, c) - Top
  <2>1. \A n \in Nat : n < Top => n % Top = n
    BY <1>1, Z3
  <2>2. \A n \in 0..(Top - 1) : (1 * Top + n) % Top = n
    <3>1. 1 \in Nat /\ Top \in Nat /\ Top > 0
      BY <1>1, SMT
    <3> QED
      BY <3>1, DivisionUnique, SMT
  <2>3. CASE Below(h, c) < Top
    BY <1>3, <2>1, <2>3, SMT DEF Under
  <2>4. CASE ~(Below(h, c) < Top)
    <3>1. Below(h, c) - Top \in 0..(Top - 1) /\ Below(h, c) = 1 * Top + (Below(h, c) - Top)
      BY <1>1, <1>3, <2>4, SMT
    <3> QED
      BY <2>2, <2>4, <3>1, SMT DEF Under
  <2> QED
    BY <2>3, <2>4
<1>6. PushedOut(h, c) \in 0..15
  <2> DEFINE n == h \div Over + Below(h, c) \div Top
  <2>1. n \in Nat
    BY <1>2, <1>4, SMT
  <2> HIDE DEF n
  <2>2. n % 16 \in 0..15
    BY <2>1, SMT
  <2> QED
    BY <2>2 DEF PushedOut, n
<1> QED
  BY <1>3, <1>4, <1>5, <1>6, SMT DEF Under

LEMMA TurnRange ==
    ASSUME NEW h \in 0..(Top - 1), NEW c \in 0..255
    PROVE  Turn(h, c) \in 0..(Top - 1)
  BY Parts, FoldRange DEF Turn

(* As long as it fits a turn appends a digit to the numeral.               *)
LEMMA TurnAppends ==
    ASSUME NEW h \in 0..(Over - 1), NEW c \in 0..255, h * 16 + c < Top
    PROVE  Turn(h, c) = h * 16 + c
<1>1. Over \in Nat /\ Over > 256 /\ Top = 16 * Over /\ h \in Nat /\ h \in 0..(Top - 1)
  BY Masks, SMT
<1>2. h % Over = h /\ h \div Over = 0
  <2>1. h = 0 * Over + h
    BY <1>1, SMT
  <2> QED
    BY <1>1, <2>1, DivisionUnique, SMT
<1> DEFINE w == h * 16 + c
           n == (w \div 16) % 16
<1>3. w \in Nat
  BY <1>1, SMT
<1>4. Below(h, c) = w
  BY <1>2 DEF Below
<1>5. Under(h, c) = w
  <2>1. Under(h, c) = IF Below(h, c) < Top THEN Below(h, c) ELSE Below(h, c) - Top
    BY <1>1, Parts
  <2> QED
    BY <1>4, <2>1
<1>6. PushedOut(h, c) = 0
  <2>1. w \div Top = 0
    <3>1. w = 0 * Top + w /\ w \in 0..(Top - 1) /\ Top \in Nat /\ Top > 0
      BY <1>1, <1>3, SMT
    <3> HIDE DEF w
    <3> QED
      BY <3>1, DivisionUnique, SMT
  <2>2. (0 + 0) % 16 = 0
    BY SMT
  <2> QED
    BY <1>2, <1>4, <2>1, <2>2 DEF PushedOut
<1>7. n \in 0..15
  BY <1>3, Split, SMT
<1> HIDE DEF w
<1>8. Xor(n, 0) = n
  BY <1>7, XorZero, SMT
<1> HIDE DEF n
<1>9. w + 16 * (n - n) = w
  BY <1>3, <1>7, SMT
<1> QED
  BY <1>5, <1>6, <1>8, <1>9 DEF Turn, Fold, n, w

(* Two bytes after the same hash do not give the same one.                 *)
LEMMA TurnInjective ==
    ASSUME NEW h \in 0..(Top - 1), NEW c \in 0..255, NEW d \in 0..255,
           Turn(h, c) = Turn(h, d)
    PROVE  c = d
<1>1. Over \in Nat /\ Over > 256 /\ Top = 16 * Over /\ h \in Nat
  BY Masks, SMT
<1>2. PICK k \in Nat : Top = 256 * k
  BY Masks, SMT
<1> DEFINE v == Under(h, c)
           w == Under(h, d)
           f == PushedOut(h, c)
           g == PushedOut(h, d)
           m == (v \div 16) % 16
           n == (w \div 16) % 16
<1>3. v \in 0..(Top - 1) /\ w \in 0..(Top - 1) /\ f \in 0..15 /\ g \in 0..15
  BY Parts
<1>4. /\ v = 256 * (v \div 256) + 16 * m + (v % 16)
      /\ v \div 256 \in Nat /\ m \in 0..15 /\ v % 16 \in 0..15
      /\ w = 256 * (w \div 256) + 16 * n + (w % 16)
      /\ w \div 256 \in Nat /\ n \in 0..15 /\ w % 16 \in 0..15
  <2>1. v \in Nat /\ w \in Nat
    BY <1>1, <1>3, SMT
  <2> HIDE DEF v, w
  <2>2. /\ v = 256 * (v \div 256) + 16 * m + (v % 16)
        /\ v \div 256 \in Nat /\ m \in 0..15 /\ v % 16 \in 0..15
    BY <2>1, Split
  <2>3. /\ w = 256 * (w \div 256) + 16 * n + (w % 16)
        /\ w \div 256 \in Nat /\ n \in 0..15 /\ w % 16 \in 0..15
    BY <2>1, Split
  <2> QED
    BY <2>2, <2>3
<1> DEFINE vh == v \div 256
           vl == v % 16
           wh == w \div 256
           wl == w % 16
<1>5. v + 16 * (Xor(m, f) - m) = w + 16 * (Xor(n, g) - n)
  BY DEF Turn, Fold
<1>6. /\ v = 256 * vh + 16 * m + vl /\ vh \in Nat /\ m \in 0..15 /\ vl \in 0..15
      /\ w = 256 * wh + 16 * n + wl /\ wh \in Nat /\ n \in 0..15 /\ wl \in 0..15
  BY <1>4
<1>7. Xor(m, f) \in 0..15 /\ Xor(n, g) \in 0..15
  BY <1>3, <1>6, XorNibble
<1>8. \E s \in Nat : /\ Below(h, c) = 16 * s + c /\ Below(h, d) = 16 * s + d
  <2>1. h % Over \in Nat
    BY <1>1, Division, SMT
  <2> QED
    BY <2>1, SMT DEF Below
<1>9. /\ v = IF Below(h, c) < Top THEN Below(h, c) ELSE Below(h, c) - Top
      /\ w = IF Below(h, d) < Top THEN Below(h, d) ELSE Below(h, d) - Top
      /\ Below(h, c) \in Nat /\ Below(h, d) \in Nat
      /\ Below(h, c) < Top + 240 /\ Below(h, d) < Top + 240
  BY Parts
<1>10. Below(h, c) < Top /\ Below(h, d) < Top => f = g
  <2> SUFFICES ASSUME Below(h, c) < Top, Below(h, d) < Top PROVE f = g
    OBVIOUS
  <2>1. \A b \in Nat : b < Top => b \div Top = 0
    <3>1. Top \in Nat /\ Top > 0 /\ 0 \in Nat
      BY <1>1, SMT
    <3>2. \A b \in 0..(Top - 1) : (0 * Top + b) \div Top = 0
      BY <3>1, DivisionUnique, SMT
    <3> QED
      BY <3>1, <3>2, SMT
  <2>2. Below(h, c) \div Top = 0 /\ Below(h, d) \div Top = 0
    BY <1>9, <2>1, SMT
  <2> QED
    BY <2>2 DEF PushedOut
<1>11. ~(Below(h, c) < Top) /\ ~(Below(h, d) < Top) => f = g
  <2> SUFFICES ASSUME ~(Below(h, c) < Top), ~(Below(h, d) < Top) PROVE f = g
    OBVIOUS
  <2>1. \A b \in 0..(Top - 1) : (1 * Top + b) \div Top = 1
    <3>1. Top \in Nat /\ Top > 0 /\ 1 \in Nat
      BY <1>1, SMT
    <3> QED
      BY <3>1, DivisionUnique, SMT
  <2>2. /\ Below(h, c) = 1 * Top + (Below(h, c) - Top) /\ Below(h, c) - Top \in 0..(Top - 1)
        /\ Below(h, d) = 1 * Top + (Below(h, d) - Top) /\ Below(h, d) - Top \in 0..(Top - 1)
    BY <1>1, <1>9, <2>1, SMT
  <2>3. Below(h, c) \div Top = 1 /\ Below(h, d) \div Top = 1
    BY <2>1, <2>2, SMT
  <2> QED
    BY <2>3 DEF PushedOut
<1> HIDE DEF v, w, f, g, m, n, vh, vl, wh, wl
<1>12. vh = wh /\ vl = wl /\ Xor(m, f) = Xor(n, g)
  <2>1. 256 * vh + 16 * Xor(m, f) + vl = 256 * wh + 16 * Xor(n, g) + wl
    <3>1. /\ v + 16 * (Xor(m, f) - m) = 256 * vh + 16 * Xor(m, f) + vl
          /\ w + 16 * (Xor(n, g) - n) = 256 * wh + 16 * Xor(n, g) + wl
      BY <1>6, <1>7, SMT
    <3> QED
      BY <1>5, <3>1
  <2> QED
    BY <1>6, <1>7, <2>1, SMT
<1>13. (Below(h, c) < Top) = (Below(h, d) < Top)
  BY <1>1, <1>2, <1>6, <1>8, <1>9, <1>12, SMT
<1>14. f = g
  BY <1>10, <1>11, <1>13
<1>15. m = n
  BY <1>3, <1>6, <1>12, <1>14, XorInjective, SMT
<1>16. v = w
  BY <1>6, <1>12, <1>15, SMT
<1> QED
  BY <1>1, <1>8, <1>9, <1>13, <1>16, SMT

-----------------------------------------------------------------------------
HashInv == HashTypeOK /\ ShortIsNumeral

LEMMA HashInitial == HashInit => HashInv
<1>1. Top > 0 /\ Top \in Nat
  BY Masks, SMT
<1> QED
  BY <1>1, MaxNameAssumption, SMT DEF HashInit, HashInv, HashTypeOK, ShortIsNumeral

LEMMA HashStep == HashInv /\ [HashNext]_hashVars => HashInv'
<1> SUFFICES ASSUME HashInv, [HashNext]_hashVars PROVE HashInv'
  OBVIOUS
<1>1. /\ Top \in Nat /\ Over \in Nat /\ Top > 0 /\ Top > Over /\ MaxName \in Nat
      /\ hash \in 0..(Top - 1) /\ read \in 0..MaxName /\ value \in 0..Top
      /\ value < Top => hash = value
  BY Masks, MaxNameAssumption, SMT DEF HashInv, HashTypeOK, ShortIsNumeral
<1>2. ASSUME NEW c \in Bytes, HashByte(c) PROVE HashInv'
  <2>1. c \in 0..255
    BY BytesAssumption, SMT
  <2>2. hash' \in 0..(Top - 1)
    BY <1>1, <1>2, <2>1, TurnRange DEF HashByte
  <2>3. read' \in 0..MaxName
    BY <1>1, <1>2, SMT DEF HashByte
  <2>4. CASE value < Over /\ value * 16 + c < Top
    <3>1. value \in 0..(Over - 1) /\ hash = value
      BY <1>1, <2>4, SMT
    <3>2. hash' = value * 16 + c
      BY <1>2, <2>1, <2>4, <3>1, TurnAppends DEF HashByte
    <3>3. value' = value * 16 + c
      BY <1>2, <2>4 DEF HashByte
    <3> QED
      BY <1>1, <2>1, <2>2, <2>3, <2>4, <3>2, <3>3, SMT DEF HashInv, HashTypeOK, ShortIsNumeral
  <2>5. CASE ~(value < Over /\ value * 16 + c < Top)
    <3>1. value' = Top
      BY <1>2, <2>5 DEF HashByte
    <3> QED
      BY <1>1, <2>2, <2>3, <3>1, SMT DEF HashInv, HashTypeOK, ShortIsNumeral
  <2> QED
    BY <2>4, <2>5
<1>3. ASSUME HashReturn PROVE HashInv'
  BY <1>1, <1>3, SMT DEF HashReturn, HashInv, HashTypeOK, ShortIsNumeral
<1>4. ASSUME UNCHANGED hashVars PROVE HashInv'
  BY <1>4 DEF hashVars, HashInv, HashTypeOK, ShortIsNumeral
<1> QED
  BY <1>2, <1>3, <1>4 DEF HashNext

(* The hash has 28 bits, whatever the name (elf_hash).                     *)
THEOREM HashTypeCorrect == HashSpec => []HashTypeOK
<1>1. HashInv => HashTypeOK
  BY DEF HashInv
<1> QED
  BY <1>1, HashInitial, HashStep, PTL DEF HashSpec

(* The hash of a short name is its numeral, whatever the bytes.            *)
THEOREM ShortIsNumeralCorrect == HashSpec => []ShortIsNumeral
<1>1. HashInv => ShortIsNumeral
  BY DEF HashInv
<1> QED
  BY <1>1, HashInitial, HashStep, PTL DEF HashSpec

(* No name has the hash of one that differs in the last byte.              *)
THEOREM LastByteTellsCorrect == HashSpec => []LastByteTells
<1>1. HashInv => LastByteTells
  <2>1. Bytes \subseteq 0..255
    BY BytesAssumption, SMT
  <2> QED
    BY <2>1, TurnInjective DEF HashInv, HashTypeOK, LastByteTells
<1> QED
  BY <1>1, HashInitial, HashStep, PTL DEF HashSpec
-----------------------------------------------------------------------------
(* The word as the register of nibbles.                                    *)

(* The carries of an addition, as equations.                               *)
Carries(r, c, k) ==
    k = [i \in 0..7 |-> IF i = 0 THEN 0 ELSE (Register!Shifted(r, c, i - 1) + k[i - 1]) \div 16]

(* There are such carries: the recursion stops at the lowest nibble.       *)
LEMMA CarriesExist ==
    ASSUME NEW r, NEW c
    PROVE  \E k : Carries(r, c, k)
<1> DEFINE next(i, k) == (Register!Shifted(r, c, i) + k) \div 16
           k1 == next(0, 0)
           k2 == next(1, k1)
           k3 == next(2, k2)
           k4 == next(3, k3)
           k5 == next(4, k4)
           k6 == next(5, k5)
           k7 == next(6, k6)
           K == [i \in 0..7 |-> CASE i = 0 -> 0 [] i = 1 -> k1 [] i = 2 -> k2 [] i = 3 -> k3
                                  [] i = 4 -> k4 [] i = 5 -> k5 [] i = 6 -> k6 [] i = 7 -> k7]
<1>1. /\ K[0] = 0 /\ K[1] = k1 /\ K[2] = k2 /\ K[3] = k3
      /\ K[4] = k4 /\ K[5] = k5 /\ K[6] = k6 /\ K[7] = k7
  <2> HIDE DEF k1, k2, k3, k4, k5, k6, k7
  <2> QED
    BY SMT
<1>2. /\ k1 = next(1 - 1, K[1 - 1]) /\ k2 = next(2 - 1, K[2 - 1]) /\ k3 = next(3 - 1, K[3 - 1])
      /\ k4 = next(4 - 1, K[4 - 1]) /\ k5 = next(5 - 1, K[5 - 1]) /\ k6 = next(6 - 1, K[6 - 1])
      /\ k7 = next(7 - 1, K[7 - 1])
  <2>1. /\ 1 - 1 = 0 /\ 2 - 1 = 1 /\ 3 - 1 = 2 /\ 4 - 1 = 3 /\ 5 - 1 = 4 /\ 6 - 1 = 5 /\ 7 - 1 = 6
    BY SMT
  <2> HIDE DEF K, next
  <2> QED
    BY <1>1, <2>1
<1>3. DOMAIN K = 0..7 /\ K = [i \in 0..7 |-> K[i]]
  OBVIOUS
<1> HIDE DEF next, k1, k2, k3, k4, k5, k6, k7, K
<1>4. \A i \in 0..7 : K[i] = IF i = 0 THEN 0 ELSE next(i - 1, K[i - 1])
  BY <1>1, <1>2, SMT
<1>5. K = [i \in 0..7 |-> IF i = 0 THEN 0 ELSE next(i - 1, K[i - 1])]
  BY <1>3, <1>4
<1>6. Carries(r, c, K)
  BY <1>5 DEF next, Carries
<1> QED
  BY <1>6

LEMMA CarryEquations ==
    ASSUME NEW r, NEW c
    PROVE  Carries(r, c, Register!Carry(r, c))
<1>1. Carries(r, c, CHOOSE k : Carries(r, c, k))
  BY CarriesExist
<1> QED
  BY <1>1 DEF Register!Carry, Carries

(* What comes in at a place is the nibble there and a carry out of it.     *)
LEMMA PlaceSum ==
    ASSUME NEW t \in 0..30, NEW k \in {0, 1}
    PROVE  /\ (t + k) % 16 \in 0..15 /\ (t + k) \div 16 \in {0, 1}
           /\ t + k = ((t + k) % 16) + 16 * ((t + k) \div 16)
BY SMT

LEMMA ByteNibbles ==
    ASSUME NEW c \in 0..255
    PROVE  /\ c % 16 \in 0..15 /\ c \div 16 \in 0..15 /\ c = (c % 16) + 16 * (c \div 16)
           /\ (c % 16) % 16 = c % 16 /\ (c % 16) \div 16 = 0
BY SMT

(* The addition, place by place.                                           *)
LEMMA RegisterSum ==
    ASSUME NEW r \in [0..6 -> 0..15], NEW c \in 0..255
    PROVE  LET s == Register!Sum(r, c)
               k == Register!Carry(r, c)
           IN  /\ \A i \in 0..7 : s[i] \in 0..15
               /\ \A i \in 2..7 : k[i] \in {0, 1}
               /\ s[0] = c % 16
               /\ r[0] + (c \div 16) = s[1] + 16 * k[2]
               /\ \A i \in 2..6 : r[i - 1] + k[i] = s[i] + 16 * k[i + 1]
               /\ s[7] = (r[6] + k[7]) % 16
<1> DEFINE s == Register!Sum(r, c)
           k == Register!Carry(r, c)
           t(i) == Register!Shifted(r, c, i)
<1>1. /\ t(0) = c % 16 /\ t(1) = r[0] + (c \div 16)
      /\ \A i \in 2..7 : t(i) = r[i - 1]
  BY SMT DEF Register!Shifted
<1>2. k = [i \in 0..7 |-> IF i = 0 THEN 0 ELSE (t(i - 1) + k[i - 1]) \div 16]
  BY CarryEquations DEF Carries
<1>3. s = [i \in 0..7 |-> (t(i) + k[i]) % 16]
  BY DEF Register!Sum
<1>4. /\ c % 16 \in 0..15 /\ c \div 16 \in 0..15
      /\ (c % 16) % 16 = c % 16 /\ (c % 16) \div 16 = 0
  BY ByteNibbles
<1> HIDE DEF s, k, t
<1>5. k[0] = 0 /\ \A i \in 0..6 : k[i + 1] = (t(i) + k[i]) \div 16
  BY <1>2, SMT
<1>6. \A i \in 0..7 : s[i] = (t(i) + k[i]) % 16
  BY <1>3, SMT
<1>7. \A i \in 0..6 : r[i] \in 0..15
  OBVIOUS
<1>8. k[1] = 0 /\ s[0] = c % 16
  <2>1. t(0) + k[0] = c % 16
    BY <1>1, <1>4, <1>5, SMT
  <2> QED
    BY <2>1, <1>4, <1>5, <1>6, SMT
<1>9. \A i \in 1..7 : t(i) \in 0..30
  BY <1>1, <1>4, <1>7, SMT
<1>10. ASSUME NEW i \in 1..6, k[i] \in {0, 1}
       PROVE  k[i + 1] \in {0, 1} /\ t(i) + k[i] = s[i] + 16 * k[i + 1] /\ s[i] \in 0..15
  <2>1. /\ t(i) \in 0..30 /\ k[i + 1] = (t(i) + k[i]) \div 16
        /\ s[i] = (t(i) + k[i]) % 16
    BY <1>5, <1>6, <1>9, SMT
  <2> QED
    BY <1>10, <2>1, PlaceSum
<1>11. \A i \in 1..7 : k[i] \in {0, 1}
  <2>1. k[1] \in {0, 1} /\ (k[1] \in {0, 1} => k[2] \in {0, 1})
        /\ (k[2] \in {0, 1} => k[3] \in {0, 1}) /\ (k[3] \in {0, 1} => k[4] \in {0, 1})
        /\ (k[4] \in {0, 1} => k[5] \in {0, 1}) /\ (k[5] \in {0, 1} => k[6] \in {0, 1})
        /\ (k[6] \in {0, 1} => k[7] \in {0, 1})
    BY <1>8, <1>10, SMT
  <2> QED
    BY <2>1, SMT
<1>12. \A i \in 0..7 : s[i] \in 0..15
  <2>1. s[7] = (t(7) + k[7]) % 16 /\ s[7] \in 0..15
    BY <1>6, <1>9, <1>11, PlaceSum
  <2> QED
    BY <1>4, <1>8, <1>10, <1>11, <2>1, SMT
<1>13. t(1) + k[1] = t(1)
  BY <1>8, <1>9, SMT
<1>14. t(7) = r[6]
  BY <1>1, SMT
<1>15. r[0] + (c \div 16) = s[1] + 16 * k[2]
  <2>1. t(1) + k[1] = s[1] + 16 * k[1 + 1] /\ 1 + 1 = 2
    BY <1>8, <1>10, SMT
  <2> QED
    BY <2>1, <1>1, <1>13
<1>16. ASSUME NEW i \in 2..6 PROVE r[i - 1] + k[i] = s[i] + 16 * k[i + 1]
  <2>1. i \in 1..6 /\ i \in 1..7 /\ i \in 2..7
    BY SMT
  <2> QED
    BY <2>1, <1>1, <1>10, <1>11
<1>17. s[7] = (r[6] + k[7]) % 16
  <2>1. s[7] = (t(7) + k[7]) % 16
    BY <1>6, SMT
  <2> QED
    BY <2>1, <1>14
<1>18. \A i \in 2..7 : k[i] \in {0, 1}
  BY <1>11, SMT
<1> QED
  BY <1>8, <1>12, <1>15, <1>16, <1>17, <1>18 DEF s, k

(* A number of 28 bits is its seven nibbles.                               *)
LEMMA NibbleChain ==
    ASSUME NEW h \in Nat, h < 268435456
    PROVE  /\ h = ((h \div 1) % 16) + 16 * ((h \div 16) % 16) + 256 * (h \div 256)
           /\ h \div 256 = ((h \div 256) % 16) + 16 * (h \div 4096)
           /\ h \div 4096 = ((h \div 4096) % 16) + 16 * (h \div 65536)
           /\ h \div 65536 = ((h \div 65536) % 16) + 16 * (h \div 1048576)
           /\ h \div 1048576 = ((h \div 1048576) % 16) + 16 * (h \div 16777216)
           /\ h \div 16777216 = (h \div 16777216) % 16
BY SMT

(* The number that nibbles make.                                           *)
Made(a, b, c, d, e, f, g) == a + 16 * b + 256 * (c + 16 * (d + 16 * (e + 16 * (f + 16 * g))))
Number(f) == Made(f[0], f[1], f[2], f[3], f[4], f[5], f[6])

LEMMA Weights ==
    /\ Weight[0] = 1 /\ Weight[1] = 16 /\ Weight[2] = 256 /\ Weight[3] = 4096
    /\ Weight[4] = 65536 /\ Weight[5] = 1048576 /\ Weight[6] = 16777216
    /\ Over = 16777216 /\ Top = 268435456
BY SMT DEF Weight, Over, Top

LEMMA NibblesAt ==
    ASSUME NEW h
    PROVE  /\ Nibbles(h)[0] = (h \div 1) % 16 /\ Nibbles(h)[1] = (h \div 16) % 16
           /\ Nibbles(h)[2] = (h \div 256) % 16 /\ Nibbles(h)[3] = (h \div 4096) % 16
           /\ Nibbles(h)[4] = (h \div 65536) % 16 /\ Nibbles(h)[5] = (h \div 1048576) % 16
           /\ Nibbles(h)[6] = (h \div 16777216) % 16
           /\ Nibbles(h) = [i \in 0..6 |-> Nibbles(h)[i]]
BY Weights, SMT DEF Nibbles

LEMMA NumberNibbles ==
    ASSUME NEW h \in Nat, h < Top
    PROVE  /\ Nibbles(h) \in [0..6 -> 0..15]
           /\ h = Number(Nibbles(h))
           /\ Nibbles(h)[6] = h \div Over
<1> DEFINE f == Nibbles(h)
<1>1. h < 268435456
  BY Weights, SMT
<1>2. /\ f[0] = (h \div 1) % 16 /\ f[1] = (h \div 16) % 16 /\ f[2] = (h \div 256) % 16
      /\ f[3] = (h \div 4096) % 16 /\ f[4] = (h \div 65536) % 16
      /\ f[5] = (h \div 1048576) % 16 /\ f[6] = (h \div 16777216) % 16
      /\ f = [i \in 0..6 |-> f[i]]
  BY NibblesAt
<1> HIDE DEF f
<1>3. /\ f[0] \in 0..15 /\ f[1] \in 0..15 /\ f[2] \in 0..15 /\ f[3] \in 0..15
      /\ f[4] \in 0..15 /\ f[5] \in 0..15 /\ f[6] \in 0..15
  <2>1. /\ h \div 1 \in Nat /\ h \div 16 \in Nat /\ h \div 256 \in Nat /\ h \div 4096 \in Nat
        /\ h \div 65536 \in Nat /\ h \div 1048576 \in Nat /\ h \div 16777216 \in Nat
    BY SMT
  <2>2. \A n \in Nat : n % 16 \in 0..15
    BY SMT
  <2> QED
    BY <1>2, <2>1, <2>2, SMT
<1>4. f \in [0..6 -> 0..15]
  BY <1>2, <1>3, SMT
<1>5. /\ h = f[0] + 16 * f[1] + 256 * (h \div 256)
      /\ h \div 256 = f[2] + 16 * (f[3] + 16 * (f[4] + 16 * (f[5] + 16 * f[6])))
      /\ h \div 16777216 = f[6]
  BY <1>1, <1>2, NibbleChain
<1>6. h \div 16777216 = h \div Over
  BY Weights
<1> QED
  BY <1>4, <1>5, <1>6 DEF f, Number, Made

(* Seven nibbles are those of the number they make.                        *)
LEMMA NibblesNumber ==
    ASSUME NEW r \in [0..6 -> 0..15]
    PROVE  Nibbles(Number(r)) = r /\ Number(r) \in Nat /\ Number(r) < Top
<1> DEFINE a == r[0]
           b == r[1]
           c == r[2]
           d == r[3]
           e == r[4]
           f == r[5]
           g == r[6]
           n == Number(r)
<1>0. /\ a \in 0..15 /\ b \in 0..15 /\ c \in 0..15 /\ d \in 0..15
      /\ e \in 0..15 /\ f \in 0..15 /\ g \in 0..15
  BY SMT
<1>1. n = Made(a, b, c, d, e, f, g)
  BY DEF Number
<1>2. r = [i \in 0..6 |-> r[i]]
  OBVIOUS
<1> HIDE DEF a, b, c, d, e, f, g, n
<1>3. n \in Nat /\ n < 268435456
  BY <1>0, <1>1, SMT DEF Made
<1>4. (n \div 1) % 16 = a /\ (n \div 16) % 16 = b
  BY <1>0, <1>1, SMT DEF Made
<1>5. n \div 256 = c + 16 * (d + 16 * (e + 16 * (f + 16 * g)))
  BY <1>0, <1>1, SMT DEF Made
<1>6. (n \div 256) % 16 = c /\ n \div 4096 = d + 16 * (e + 16 * (f + 16 * g))
  BY <1>0, <1>3, <1>5, SMT
<1>7. (n \div 4096) % 16 = d /\ n \div 65536 = e + 16 * (f + 16 * g)
  BY <1>0, <1>3, <1>6, SMT
<1>8. (n \div 65536) % 16 = e /\ n \div 1048576 = f + 16 * g
  BY <1>0, <1>3, <1>7, SMT
<1>9. (n \div 1048576) % 16 = f /\ (n \div 16777216) % 16 = g
  BY <1>0, <1>3, <1>8, SMT
<1> DEFINE h == Nibbles(n)
<1>10. /\ h[0] = a /\ h[1] = b /\ h[2] = c /\ h[3] = d /\ h[4] = e /\ h[5] = f /\ h[6] = g
       /\ h = [i \in 0..6 |-> h[i]]
  BY <1>4, <1>6, <1>7, <1>8, <1>9, NibblesAt
<1> HIDE DEF h
<1>11. \A i \in 0..6 : h[i] = r[i]
  BY <1>10, SMT DEF a, b, c, d, e, f, g
<1>12. h = r
  BY <1>2, <1>10, <1>11
<1>13. n < Top
  BY <1>3, Weights
<1> QED
  BY <1>3, <1>12, <1>13 DEF n, h

(* The sum of the word and a byte is the register's, place by place.       *)
LEMMA AddedBelow ==
    ASSUME NEW h \in Nat, h < Top, NEW c \in 0..255
    PROVE  LET s == Register!Sum(Nibbles(h), c)
           IN  Under(h, c) = Number(s) /\ PushedOut(h, c) = s[7]
<1> DEFINE r == Nibbles(h)
           s == Register!Sum(r, c)
           k == Register!Carry(r, c)
           low == r[0] + 16 * (r[1] + 16 * (r[2] + 16 * (r[3] + 16 * (r[4] + 16 * r[5]))))
           ch == c \div 16
           m == Number(s)
<1>1. r \in [0..6 -> 0..15] /\ h = Number(r) /\ r[6] = h \div Over
  BY NumberNibbles
<1>2. /\ \A i \in 0..7 : s[i] \in 0..15
      /\ \A i \in 2..7 : k[i] \in {0, 1}
      /\ s[0] = c % 16
      /\ r[0] + ch = s[1] + 16 * k[2]
      /\ \A i \in 2..6 : r[i - 1] + k[i] = s[i] + 16 * k[i + 1]
      /\ s[7] = (r[6] + k[7]) % 16
  BY <1>1, RegisterSum
<1>3. c = s[0] + 16 * ch /\ ch \in 0..15
  BY <1>2, ByteNibbles
<1>4. h = Made(r[0], r[1], r[2], r[3], r[4], r[5], r[6])
  BY <1>1 DEF Number
<1>5. m = Made(s[0], s[1], s[2], s[3], s[4], s[5], s[6])
  BY DEF Number
<1> HIDE DEF r, s, k, m, ch
<1>6. /\ r[0] \in 0..15 /\ r[1] \in 0..15 /\ r[2] \in 0..15 /\ r[3] \in 0..15
      /\ r[4] \in 0..15 /\ r[5] \in 0..15 /\ r[6] \in 0..15
  BY <1>1, SMT
<1>7. /\ s[0] \in 0..15 /\ s[1] \in 0..15 /\ s[2] \in 0..15 /\ s[3] \in 0..15
      /\ s[4] \in 0..15 /\ s[5] \in 0..15 /\ s[6] \in 0..15
  BY <1>2, SMT
<1>8. /\ r[1] + k[2] = s[2] + 16 * k[3] /\ r[2] + k[3] = s[3] + 16 * k[4]
      /\ r[3] + k[4] = s[4] + 16 * k[5] /\ r[4] + k[5] = s[5] + 16 * k[6]
      /\ r[5] + k[6] = s[6] + 16 * k[7]
  <2>1. \A i \in 2..6 : r[i - 1] + k[i] = s[i] + 16 * k[i + 1]
    BY <1>2
  <2>2. r[1] + k[2] = s[2] + 16 * k[3]
    BY <2>1, SMT
  <2>3. r[2] + k[3] = s[3] + 16 * k[4]
    BY <2>1, SMT
  <2>4. r[3] + k[4] = s[4] + 16 * k[5]
    BY <2>1, SMT
  <2>5. r[4] + k[5] = s[5] + 16 * k[6]
    BY <2>1, SMT
  <2>6. r[5] + k[6] = s[6] + 16 * k[7]
    BY <2>1, SMT
  <2> QED
    BY <2>2, <2>3, <2>4, <2>5, <2>6
<1>9. /\ k[2] \in {0, 1} /\ k[3] \in {0, 1} /\ k[4] \in {0, 1} /\ k[5] \in {0, 1}
      /\ k[6] \in {0, 1} /\ k[7] \in {0, 1}
  BY <1>2, SMT
<1> DEFINE r0 == r[0]
           r1 == r[1]
           r2 == r[2]
           r3 == r[3]
           r4 == r[4]
           r5 == r[5]
           r6 == r[6]
           s0 == s[0]
           s1 == s[1]
           s2 == s[2]
           s3 == s[3]
           s4 == s[4]
           s5 == s[5]
           s6 == s[6]
           k2 == k[2]
           k3 == k[3]
           k4 == k[4]
           k5 == k[5]
           k6 == k[6]
           k7 == k[7]
<1>10. /\ r0 \in 0..15 /\ r1 \in 0..15 /\ r2 \in 0..15 /\ r3 \in 0..15
       /\ r4 \in 0..15 /\ r5 \in 0..15 /\ r6 \in 0..15
       /\ s0 \in 0..15 /\ s1 \in 0..15 /\ s2 \in 0..15 /\ s3 \in 0..15
       /\ s4 \in 0..15 /\ s5 \in 0..15 /\ s6 \in 0..15
       /\ k2 \in {0, 1} /\ k3 \in {0, 1} /\ k4 \in {0, 1} /\ k5 \in {0, 1}
       /\ k6 \in {0, 1} /\ k7 \in {0, 1}
  BY <1>6, <1>7, <1>9
<1>11. /\ r0 + ch = s1 + 16 * k2 /\ r1 + k2 = s2 + 16 * k3 /\ r2 + k3 = s3 + 16 * k4
       /\ r3 + k4 = s4 + 16 * k5 /\ r4 + k5 = s5 + 16 * k6 /\ r5 + k6 = s6 + 16 * k7
       /\ c = s0 + 16 * ch
  BY <1>2, <1>3, <1>8
<1>12. /\ h = Made(r0, r1, r2, r3, r4, r5, r6) /\ m = Made(s0, s1, s2, s3, s4, s5, s6)
       /\ low = r0 + 16 * (r1 + 16 * (r2 + 16 * (r3 + 16 * (r4 + 16 * r5))))
  BY <1>4, <1>5
<1> HIDE DEF r0, r1, r2, r3, r4, r5, r6, s0, s1, s2, s3, s4, s5, s6,
             k2, k3, k4, k5, k6, k7, low
<1>13. low \in Nat /\ low < 16777216 /\ h = low + 16777216 * r6
  BY <1>10, <1>12, SMT DEF Made
<1>14. low * 16 + c = m + 268435456 * k7
  BY <1>3, <1>10, <1>11, <1>12, SMT DEF Made
<1>15. m \in Nat /\ m < 268435456
  BY <1>10, <1>12, SMT DEF Made
<1>16. h % 16777216 = low
  BY <1>10, <1>13, SMT
<1>17. Below(h, c) = m + 268435456 * k7
  BY <1>14, <1>16, Weights DEF Below
<1>18. Below(h, c) % 268435456 = m /\ Below(h, c) \div 268435456 = k7
  BY <1>10, <1>15, <1>17, SMT
<1>19. Below(h, c) % Top = m /\ Below(h, c) \div Top = k7
  BY <1>18, Weights
<1>20. PushedOut(h, c) = s[7]
  BY <1>1, <1>2, <1>19 DEF PushedOut, k7
<1> QED
  BY <1>19, <1>20 DEF Under, m, s, r

(* The bits of an exclusive or are those in which the nibbles differ.      *)
LEMMA XorBits ==
    ASSUME NEW m \in 0..15, NEW n \in 0..15
    PROVE  \A b \in {1, 2, 4, 8} : Bit(Xor(m, n), b) = IF Bit(m, b) = Bit(n, b) THEN 0 ELSE 1
<1> DEFINE d(b) == IF Bit(m, b) = Bit(n, b) THEN 0 ELSE 1
           d1 == d(1)
           d2 == d(2)
           d4 == d(4)
           d8 == d(8)
           x == Xor(m, n)
<1>1. x = d1 + 2 * d2 + 4 * d4 + 8 * d8
  BY DEF Xor
<1>2. d1 \in {0, 1} /\ d2 \in {0, 1} /\ d4 \in {0, 1} /\ d8 \in {0, 1}
  OBVIOUS
<1> HIDE DEF d1, d2, d4, d8, x
<1>3. (x \div 1) % 2 = d1 /\ (x \div 2) % 2 = d2
  BY <1>1, <1>2, SMT
<1>4. (x \div 4) % 2 = d4 /\ (x \div 8) % 2 = d8
  BY <1>1, <1>2, SMT
<1>5. \A b \in {1, 2, 4, 8} : Bit(x, b) = d(b)
  BY <1>3, <1>4 DEF Bit, d1, d2, d4, d8
<1> QED
  BY <1>5 DEF x

(* So it is the one nibble that the register is folded to.                 *)
LEMMA XorIsFold ==
    ASSUME NEW m \in 0..15, NEW g \in 0..15
    PROVE  Xor(m, g) = CHOOSE n \in 0..15 :
               Register!Differ(n, m) = {b \in {1, 2, 4, 8} : Register!Bit(g, b) = 1}
<1> DEFINE Set == {b \in {1, 2, 4, 8} : Register!Bit(g, b) = 1}
<1>0. \A n, b : Register!Bit(n, b) = Bit(n, b)
  BY DEF Bit, Register!Bit
<1>1. Xor(m, g) \in 0..15 /\ Register!Differ(Xor(m, g), m) = Set
  <2>1. Xor(m, g) \in 0..15
    BY XorNibble
  <2>2. ASSUME NEW b \in {1, 2, 4, 8}
        PROVE  Bit(Xor(m, g), b) # Bit(m, b) <=> Bit(g, b) = 1
    <3>1. Bit(m, b) \in {0, 1} /\ Bit(g, b) \in {0, 1}
      BY NibbleBits
    <3>2. Bit(Xor(m, g), b) = IF Bit(m, b) = Bit(g, b) THEN 0 ELSE 1
      BY XorBits
    <3> QED
      BY <3>1, <3>2
  <2> QED
    BY <1>0, <2>1, <2>2 DEF Register!Differ
<1>2. ASSUME NEW n \in 0..15, Register!Differ(n, m) = Set
      PROVE  n = Xor(m, g)
  <2> DEFINE x == Xor(m, g)
  <2>1. x \in 0..15 /\ Register!Differ(n, m) = Register!Differ(x, m)
    BY <1>1, <1>2
  <2> HIDE DEF x
  <2>2. ASSUME NEW b \in {1, 2, 4, 8} PROVE Bit(n, b) = Bit(x, b)
    <3>1. Bit(n, b) # Bit(m, b) <=> Bit(x, b) # Bit(m, b)
      <4>1. b \in Register!Differ(n, m) <=> b \in Register!Differ(x, m)
        BY <2>1
      <4> QED
        BY <1>0, <4>1 DEF Register!Differ
    <3>2. Bit(n, b) \in {0, 1} /\ Bit(x, b) \in {0, 1} /\ Bit(m, b) \in {0, 1}
      BY <2>1, NibbleBits
    <3> QED
      BY <3>1, <3>2
  <2>3. n = x
    BY <2>1, <2>2, NibbleBits
  <2> QED
    BY <2>3 DEF x
<1> HIDE DEF Set
<1>3. (CHOOSE n \in 0..15 : Register!Differ(n, m) = Set) = Xor(m, g)
  BY <1>1, <1>2, Zenon
<1> QED
  BY <1>3 DEF Set

(* A turn of the loop pushes the byte into the register.                   *)
LEMMA TurnPushes ==
    ASSUME NEW h \in Nat, h < Top, NEW c \in 0..255
    PROVE  Nibbles(Turn(h, c))
               = Register!Pushed(Nibbles(h), c, Register!Sum(Nibbles(h), c))
<1> DEFINE s == Register!Sum(Nibbles(h), c)
           g == s[7]
           x == Xor(s[1], g)
           r == [i \in 0..6 |-> s[i]]
           p == [i \in 0..6 |-> IF i = 1 THEN x ELSE s[i]]
           m == Number(s)
<1>1. Under(h, c) = m /\ PushedOut(h, c) = g
  BY AddedBelow
<1>2. \A i \in 0..7 : s[i] \in 0..15
  BY NumberNibbles, RegisterSum
<1> HIDE DEF s
<1>3. s[1] \in 0..15 /\ g \in 0..15
  BY <1>2, SMT
<1>4. x \in 0..15
  BY <1>3, XorNibble
<1> HIDE DEF g, x
<1>5. r \in [0..6 -> 0..15] /\ p \in [0..6 -> 0..15]
  BY <1>2, <1>4, SMT
<1>6. m = Number(r)
  <2>1. /\ r[0] = s[0] /\ r[1] = s[1] /\ r[2] = s[2] /\ r[3] = s[3] /\ r[4] = s[4]
        /\ r[5] = s[5] /\ r[6] = s[6]
    BY SMT
  <2> HIDE DEF r
  <2> QED
    BY <2>1 DEF Number
<1>7. (m \div 16) % 16 = s[1] /\ m \in Nat
  <2>1. Nibbles(m) = r /\ m \in Nat
    BY <1>5, <1>6, NibblesNumber
  <2>2. Nibbles(m)[1] = s[1]
    BY <2>1, SMT
  <2> HIDE DEF m
  <2> QED
    BY <2>1, <2>2, NibblesAt
<1>8. Number(p) = m + 16 * (x - s[1])
  <2>1. /\ p[0] = s[0] /\ p[1] = x /\ p[2] = s[2] /\ p[3] = s[3] /\ p[4] = s[4]
        /\ p[5] = s[5] /\ p[6] = s[6]
    BY SMT
  <2> DEFINE up == s[2] + 16 * (s[3] + 16 * (s[4] + 16 * (s[5] + 16 * s[6])))
  <2> HIDE DEF p
  <2>2. Number(p) = s[0] + 16 * x + 256 * up /\ m = s[0] + 16 * s[1] + 256 * up
    BY <2>1 DEF Number, Made
  <2>3. up \in Nat /\ s[0] \in Nat /\ s[1] \in Nat /\ x \in Nat
    <3>1. /\ s[0] \in Nat /\ s[1] \in Nat /\ s[2] \in Nat /\ s[3] \in Nat /\ s[4] \in Nat
          /\ s[5] \in Nat /\ s[6] \in Nat
      BY <1>2, SMT
    <3> QED
      BY <1>4, <3>1, SMT
  <2> HIDE DEF up, m
  <2> QED
    BY <2>2, <2>3, SMT
<1>9. Turn(h, c) = Number(p)
  <2>1. Turn(h, c) = Fold(m, g)
    BY <1>1 DEF Turn
  <2> HIDE DEF m
  <2>2. Fold(m, g) = m + 16 * (Xor(s[1], g) - s[1])
    BY <1>7 DEF Fold
  <2> QED
    BY <1>8, <2>1, <2>2 DEF x
<1>10. Nibbles(Turn(h, c)) = p
  BY <1>5, <1>9, NibblesNumber
<1>11. Register!Pushed(Nibbles(h), c, s) = p
  <2>1. x = CHOOSE n \in 0..15 :
              Register!Differ(n, s[1]) = {b \in {1, 2, 4, 8} : Register!Bit(s[7], b) = 1}
    BY <1>3, XorIsFold DEF g, x
  <2> QED
    BY <2>1 DEF Register!Pushed, Register!Places
<1> QED
  BY <1>10, <1>11 DEF s

(* elf_hash is the shift register of the ELF symbol tables.                *)
THEOREM ImplementsRegisterCorrect == HashSpec => ImplementsRegister
<1>1. Nibbles(0) = [i \in 0..6 |-> 0]
  BY SMT DEF Nibbles, Weight, Over
<1>2. HashInit => Register!RInit
  BY <1>1 DEF HashInit, Register!RInit, Register!Places
<1>3. HashInv /\ [HashNext]_hashVars
      => [Register!Clear \/ \E c \in Bytes : Register!Push(c)]_(Nibbles(hash))
  <2> SUFFICES ASSUME HashInv, [HashNext]_hashVars
               PROVE  \/ Register!Clear \/ \E c \in Bytes : Register!Push(c)
                      \/ UNCHANGED Nibbles(hash)
    OBVIOUS
  <2>1. ASSUME NEW c \in Bytes, HashByte(c) PROVE Register!Push(c)
    <3>1. hash \in Nat /\ hash < Top
      BY Masks, SMT DEF HashInv, HashTypeOK
    <3>2. c \in 0..255
      BY BytesAssumption, SMT
    <3>3. Nibbles(Turn(hash, c))
            = Register!Pushed(Nibbles(hash), c, Register!Sum(Nibbles(hash), c))
      BY <3>1, <3>2, TurnPushes
    <3>4. hash' = Turn(hash, c)
      BY <2>1 DEF HashByte
    <3> QED
      BY <3>3, <3>4 DEF Register!Push
  <2>2. ASSUME HashReturn PROVE Register!Clear
    BY <1>1, <2>2 DEF HashReturn, Register!Clear, Register!Places
  <2>3. ASSUME UNCHANGED hashVars PROVE UNCHANGED Nibbles(hash)
    BY <2>3 DEF hashVars
  <2> QED
    BY <2>1, <2>2, <2>3 DEF HashNext
<1> QED
  BY <1>2, <1>3, HashInitial, HashStep, PTL DEF HashSpec, ImplementsRegister, Register!RSpec

-----------------------------------------------------------------------------
(* ElfLayout.                                                              *)

(* What is on a multiple of its alignment stays where it is.               *)
LEMMA AlignedStays ==
    ASSUME NEW n \in Nat, NEW a \in {1, 2, 4, 8}, n % a = 0
    PROVE  Aligned(n, a) = n
<1>1. CASE a = 1
  BY <1>1, SMT DEF Aligned
<1>2. CASE a = 2
  BY <1>2, SMT DEF Aligned
<1>3. CASE a = 4
  BY <1>3, SMT DEF Aligned
<1>4. CASE a = 8
  BY <1>4, SMT DEF Aligned
<1> QED
  BY <1>1, <1>2, <1>3, <1>4

(* Of the alignments one divides another that is not smaller.              *)
LEMMA AlignmentsDivide ==
    ASSUME NEW n \in Nat, NEW a \in {1, 2, 4, 8}, NEW big \in {1, 2, 4, 8},
           big % a = 0, n % big = 0
    PROVE  n % a = 0
<1>1. CASE a = 1
  BY <1>1, SMT
<1>2. CASE a = 2
  BY <1>2, SMT
<1>3. CASE a = 4
  BY <1>3, SMT
<1>4. CASE a = 8
  BY <1>4, SMT
<1> QED
  BY <1>1, <1>2, <1>3, <1>4

(* Where the fields of the format begin, with n bytes to an address.       *)
Starts(s, c) ==
    LET n == c \div 8 IN
    CASE s = "ident" -> <<0, 4, 5, 6, 7, 8, 9>>
      [] s = "ehdr" -> <<0, 16, 18, 20, 24, 24 + n, 24 + 2 * n, 24 + 3 * n, 28 + 3 * n, 30 + 3 * n,
                         32 + 3 * n, 34 + 3 * n, 36 + 3 * n, 38 + 3 * n>>
      [] s = "shdr" -> <<0, 4, 8, 8 + n, 8 + 2 * n, 8 + 3 * n, 8 + 4 * n, 12 + 4 * n,
                         16 + 4 * n, 16 + 5 * n>>
      [] s = "symbol" -> IF c = 32 THEN <<0, 4, 8, 12, 13, 14>> ELSE <<0, 4, 5, 6, 8, 16>>
      [] s = "syminfo" -> <<0, 2>>
      [] s = "rel" -> <<0, n>>
      [] s = "rela" -> <<0, n, 2 * n>>
      [] s = "phdr" -> IF c = 32 THEN <<0, 4, 8, 12, 16, 20, 24, 28>>
                       ELSE <<0, 4, 8, 16, 24, 32, 40, 48>>
      [] s = "dyn" -> <<0, n>>
      [] s = "chdr" -> IF c = 32 THEN <<0, 4, 8>> ELSE <<0, 4, 8, 16>>
      [] s = "verdef" -> <<0, 2, 4, 6, 8, 12, 16>>
      [] s = "verdaux" -> <<0, 4>>
      [] s = "verneed" -> <<0, 2, 4, 8, 12>>
      [] s = "vernaux" -> <<0, 4, 6, 8, 12>>
      [] s = "auxv" -> <<0, n>>
      [] s = "nhdr" -> <<0, 4, 8>>
      [] s = "move" -> <<0, 8, 8 + n, 8 + 2 * n, 10 + 2 * n>>

(* The largest alignment of a member.                                      *)
Biggest(s, c) ==
    CASE s \in {"ident"} -> 1
      [] s \in {"syminfo"} -> 2
      [] s \in {"verdef", "verdaux", "verneed", "vernaux", "nhdr"} -> 4
      [] s \in {"ehdr", "shdr", "symbol", "rel", "rela", "phdr", "dyn", "chdr", "auxv"} -> c \div 8
      [] s = "move" -> 8

(* Member k of a struct is of its field's size, but for the addend, and    *)
(* its field lies on a multiple of its alignment.                          *)
Fitting(s, c, k) ==
    LET m == Members(s, c)[k]
        start == Starts(s, c)[k]
        width == Fields(s, c)[k]
        last == k = Len(Members(s, c))
    IN  /\ m.align \in {1, 2, 4, 8} /\ Biggest(s, c) % m.align = 0
        /\ m.size \in Nat /\ start \in Nat /\ width \in Nat
        /\ start % m.align = 0
        /\ ~last => Starts(s, c)[k + 1] = start + width
        /\ (last /\ s # "move") => (start + width) % Biggest(s, c) = 0
        /\ ~(s = "rela" /\ c = 64 /\ k = 3) => m.size = width

AllFitting(s, c) ==
    /\ Len(Members(s, c)) \in Nat
    /\ Starts(s, c)[1] = 0
    /\ Biggest(s, c) \in {1, 2, 4, 8}
    /\ \A k \in 1..Len(Members(s, c)) : Fitting(s, c, k)

(* Two halves of two bytes.                                                *)
LEMMA SyminfoFits ==
    ASSUME NEW c \in Classes
    PROVE  AllFitting("syminfo", c)
<1>1. Members("syminfo", c) = <<half, half>> /\ Starts("syminfo", c) = <<0, 2>>
      /\ Fields("syminfo", c) = <<2, 2>> /\ Biggest("syminfo", c) = 2
  BY SMT DEF Members, Starts, Fields, Biggest, syminfo
<1>2. half.align = 2 /\ half.size = 2
  BY DEF half, Whole
<1>3. /\ Members("syminfo", c)[1] = half /\ Members("syminfo", c)[2] = half
      /\ Len(Members("syminfo", c)) = 2
  BY <1>1
<1>4. /\ Starts("syminfo", c)[1] = 0 /\ Starts("syminfo", c)[2] = 2
      /\ Fields("syminfo", c)[1] = 2 /\ Fields("syminfo", c)[2] = 2
  BY <1>1
<1>5. 2 % 2 = 0 /\ 0 % 2 = 0 /\ (2 + 2) % 2 = 0
  BY SMT
<1>6. Fitting("syminfo", c, 1)
  BY <1>1, <1>2, <1>3, <1>4, <1>5 DEF Fitting
<1>7. Fitting("syminfo", c, 2)
  BY <1>1, <1>2, <1>3, <1>4, <1>5 DEF Fitting
<1>8. \A k \in 1..Len(Members("syminfo", c)) : k = 1 \/ k = 2
  <2>1. \A k \in 1..2 : k = 1 \/ k = 2
    BY SMT
  <2> QED
    BY <1>3, <2>1
<1> QED
  BY <1>1, <1>3, <1>4, <1>6, <1>7, <1>8 DEF AllFitting

(* Ten words.                                                              *)
LEMMA ShdrFits == AllFitting("shdr", 32)
<1>1. Members("shdr", 32) = <<word, word, word, word, word, word, word, word, word, word>>
  BY SMT DEF Members, shdr, shdrOf, shflags, addr, offset, xword, word, Whole
<1>2. /\ Starts("shdr", 32) = <<0, 4, 8, 12, 16, 20, 24, 28, 32, 36>>
      /\ Fields("shdr", 32) = <<4, 4, 4, 4, 4, 4, 4, 4, 4, 4>> /\ Biggest("shdr", 32) = 4
  BY SMT DEF Starts, Fields, Biggest
<1>3. word.align = 4 /\ word.size = 4
  BY DEF word, Whole
<1>4. Len(Members("shdr", 32)) = 10
  BY <1>1
<1>5. ASSUME NEW k \in 1..10
      PROVE  /\ Members("shdr", 32)[k] = word /\ Fields("shdr", 32)[k] = 4
             /\ Starts("shdr", 32)[k] = 4 * (k - 1)
  BY <1>1, <1>2
<1>6. ASSUME NEW k \in 1..10 PROVE Fitting("shdr", 32, k)
  <2> DEFINE start == 4 * (k - 1)
  <2>1. start \in Nat /\ start % 4 = 0 /\ (start + 4) % 4 = 0 /\ 4 % 4 = 0
    BY SMT
  <2>2. k # 10 => Starts("shdr", 32)[k + 1] = start + 4
    <3>1. k # 10 => k + 1 \in 1..10 /\ 4 * ((k + 1) - 1) = start + 4
      BY SMT
    <3> QED
      BY <1>5, <3>1
  <2>3. Starts("shdr", 32)[k] = start
    BY <1>5
  <2> HIDE DEF start
  <2>4. Members("shdr", 32)[k].align = 4 /\ Members("shdr", 32)[k].size = 4 /\ Fields("shdr", 32)[k] = 4
    BY <1>3, <1>5
  <2>5. 4 \in {1, 2, 4, 8} /\ 4 \in Nat /\ Biggest("shdr", 32) = 4
    BY <1>2, SMT
  <2> QED
    BY <1>4, <2>1, <2>2, <2>3, <2>4, <2>5, Zenon DEF Fitting
<1>7. Starts("shdr", 32)[1] = 0
  BY <1>2
<1>8. \A k \in 1..Len(Members("shdr", 32)) : Fitting("shdr", 32, k)
  BY <1>4, <1>6
<1>9. 10 \in Nat /\ Biggest("shdr", 32) \in {1, 2, 4, 8}
  BY <1>2, SMT
<1> QED
  BY <1>4, <1>7, <1>8, <1>9, Zenon DEF AllFitting

(* Every struct fits, but for the section headers of 64 bit files.         *)
LEMMA Fits32 ==
    ASSUME NEW s \in Names
    PROVE  AllFitting(s, 32)
<1> USE DEF AllFitting, Fitting, Members, Starts, Fields, Biggest, Chars, Whole, half, word,
            addr, offset, xword, sword, shflags, dyn_tag
<1>1. CASE s = "ident"
  BY <1>1, SMT DEF ident
<1>2. CASE s = "ehdr"
  BY <1>2, SMT DEF ehdr
<1>3. CASE s = "shdr"
  BY <1>3, ShdrFits
<1>4. CASE s = "symbol"
  BY <1>4, SMT DEF symbol32
<1>5. CASE s = "syminfo"
  BY <1>5, SyminfoFits DEF Classes
<1>6. CASE s = "rel"
  BY <1>6, SMT DEF rel
<1>7. CASE s = "rela"
  BY <1>7, SMT DEF rela
<1>8. CASE s = "phdr"
  BY <1>8, SMT DEF phdr32
<1>9. CASE s = "dyn"
  BY <1>9, SMT DEF dyn
<1>10. CASE s = "chdr"
  BY <1>10, SMT DEF chdr32
<1>11. CASE s = "verdef"
  BY <1>11, SMT DEF verdef
<1>12. CASE s = "verdaux"
  BY <1>12, SMT DEF verdaux
<1>13. CASE s = "verneed"
  BY <1>13, SMT DEF verneed
<1>14. CASE s = "vernaux"
  BY <1>14, SMT DEF vernaux
<1>15. CASE s = "auxv"
  BY <1>15, SMT DEF auxv
<1>16. CASE s = "nhdr"
  BY <1>16, SMT DEF nhdr
<1>17. CASE s = "move"
  BY <1>17, SMT DEF move32
<1> HIDE DEF AllFitting
<1> QED
  BY <1>1, <1>2, <1>3, <1>4, <1>5, <1>6, <1>7, <1>8, <1>9, <1>10, <1>11, <1>12, <1>13,
     <1>14, <1>15, <1>16, <1>17 DEF Names

LEMMA Fits64 ==
    ASSUME NEW s \in Names \ {"shdr"}
    PROVE  AllFitting(s, 64)
<1> USE DEF AllFitting, Fitting, Members, Starts, Fields, Biggest, Chars, Whole, half, word,
            addr, offset, xword, sword, shflags, dyn_tag
<1>1. CASE s = "ident"
  BY <1>1, SMT DEF ident
<1>2. CASE s = "ehdr"
  BY <1>2, SMT DEF ehdr
<1>4. CASE s = "symbol"
  BY <1>4, SMT DEF symbol64
<1>5. CASE s = "syminfo"
  BY <1>5, SyminfoFits DEF Classes
<1>6. CASE s = "rel"
  BY <1>6, SMT DEF rel
<1>7. CASE s = "rela"
  BY <1>7, SMT DEF rela
<1>8. CASE s = "phdr"
  BY <1>8, SMT DEF phdr64
<1>9. CASE s = "dyn"
  BY <1>9, SMT DEF dyn
<1>10. CASE s = "chdr"
  BY <1>10, SMT DEF chdr64
<1>11. CASE s = "verdef"
  BY <1>11, SMT DEF verdef
<1>12. CASE s = "verdaux"
  BY <1>12, SMT DEF verdaux
<1>13. CASE s = "verneed"
  BY <1>13, SMT DEF verneed
<1>14. CASE s = "vernaux"
  BY <1>14, SMT DEF vernaux
<1>15. CASE s = "auxv"
  BY <1>15, SMT DEF auxv
<1>16. CASE s = "nhdr"
  BY <1>16, SMT DEF nhdr
<1>17. CASE s = "move"
  BY <1>17, SMT DEF move64
<1> HIDE DEF AllFitting
<1> QED
  BY <1>1, <1>2, <1>4, <1>5, <1>6, <1>7, <1>8, <1>9, <1>10, <1>11, <1>12, <1>13,
     <1>14, <1>15, <1>16, <1>17 DEF Names

LEMMA StructFits ==
    ASSUME NEW s \in Names, NEW c \in Classes, ~(c = 64 /\ s = "shdr")
    PROVE  AllFitting(s, c)
<1>1. CASE c = 32
  BY <1>1, Fits32
<1>2. CASE c = 64
  BY <1>2, Fits64
<1> QED
  BY <1>1, <1>2 DEF Classes

(* What the members that have a place leave behind: they lie on their      *)
(* fields, and the widest of them so far divides the largest alignment.    *)
LayoutInv ==
    /\ struct \in Names /\ class \in Classes
    /\ placed \in 0..Len(Members(struct, class))
    /\ ~Headers64 =>
          /\ laid.widest \in {1, 2, 4, 8} /\ Biggest(struct, class) % laid.widest = 0
          /\ placed = 0 => laid = Nothing /\ field = 0
          /\ placed > 0 =>
                /\ field = Starts(struct, class)[placed]
                /\ laid.at = field
                /\ laid.end = field + Members(struct, class)[placed].size
          /\ (struct = "rela" /\ placed > 0) => laid.widest = class \div 8

(* The next member is put on its field, where the one before it ended.     *)
LEMMA PlacedOnField ==
    ASSUME NEW s \in Names, NEW c \in Classes, AllFitting(s, c),
           NEW k \in Nat, k < Len(Members(s, c)), NEW l,
           l.end = Starts(s, c)[k + 1],
           l.widest \in {1, 2, 4, 8}, Biggest(s, c) % l.widest = 0
    PROVE  LET m == Members(s, c)[k + 1]
               next == With(l, m)
           IN  /\ next.at = Starts(s, c)[k + 1]
               /\ next.end = Starts(s, c)[k + 1] + m.size
               /\ next.widest \in {1, 2, 4, 8} /\ Biggest(s, c) % next.widest = 0
               /\ next.widest = IF l.widest < m.align THEN m.align ELSE l.widest
<1> DEFINE m == Members(s, c)[k + 1]
           start == Starts(s, c)[k + 1]
<1>1. k + 1 \in 1..Len(Members(s, c))
  BY SMT DEF AllFitting
<1>2. Fitting(s, c, k + 1)
  BY <1>1 DEF AllFitting
<1>3. /\ m.align \in {1, 2, 4, 8} /\ Biggest(s, c) % m.align = 0
      /\ start \in Nat /\ start % m.align = 0
  BY <1>2 DEF Fitting
<1> HIDE DEF m, start
<1>4. Aligned(start, m.align) = start
  BY <1>3, AlignedStays
<1>5. /\ With(l, m).at = start /\ With(l, m).end = start + m.size
      /\ With(l, m).widest = IF l.widest < m.align THEN m.align ELSE l.widest
  BY <1>4 DEF With, start
<1>6. With(l, m).widest \in {1, 2, 4, 8} /\ Biggest(s, c) % With(l, m).widest = 0
  BY <1>3, <1>5
<1> QED
  BY <1>5, <1>6 DEF m, start

LEMMA LayoutInit_Inv == LayoutInit => LayoutInv
<1> SUFFICES ASSUME LayoutInit PROVE LayoutInv
  OBVIOUS
<1>1. struct \in Names /\ class \in Classes /\ placed = 0 /\ laid = Nothing /\ field = 0
  BY DEF LayoutInit
<1>2. Len(Members(struct, class)) \in Nat
  <2>1. CASE ~Headers64
    BY <1>1, <2>1, StructFits DEF AllFitting, Headers64
  <2>2. CASE Headers64
    BY <2>2, ShdrFits DEF Headers64, AllFitting, Members, shdr
  <2> QED
    BY <2>1, <2>2
<1>3. ASSUME ~Headers64 PROVE Biggest(struct, class) % 1 = 0
  <2>1. Biggest(struct, class) \in {1, 2, 4, 8}
    BY <1>1, <1>3, StructFits DEF AllFitting, Headers64
  <2> QED
    BY <2>1, SMT
<1>4. laid.widest = 1
  BY <1>1 DEF Nothing
<1> QED
  BY <1>1, <1>2, <1>3, <1>4 DEF LayoutInv

LEMMA Place_Inv == LayoutInv /\ Place => LayoutInv'
<1> SUFFICES ASSUME LayoutInv, Place PROVE LayoutInv'
  OBVIOUS
<1>1. /\ struct' = struct /\ class' = class /\ placed' = placed + 1
      /\ placed < Len(Members(struct, class)) /\ Headers64' = Headers64
  BY DEF Place, Headers64
<1>2. struct \in Names /\ class \in Classes /\ placed \in 0..Len(Members(struct, class))
  BY DEF LayoutInv
<1> DEFINE count == Len(Members(struct, class))
<1>3. placed' \in 0..count /\ placed \in Nat /\ placed' > 0
  <2>1. count \in Nat
    BY <1>2, StructFits, ShdrFits DEF Headers64, AllFitting, Members, shdr
  <2> HIDE DEF count
  <2> QED
    BY <1>1, <1>2, <2>1, SMT DEF count
<1>4. ASSUME ~Headers64
      PROVE  /\ laid'.widest \in {1, 2, 4, 8} /\ Biggest(struct, class) % laid'.widest = 0
             /\ field' = Starts(struct, class)[placed + 1]
             /\ laid'.at = field'
             /\ laid'.end = field' + Members(struct, class)[placed + 1].size
             /\ struct = "rela" => laid'.widest = class \div 8
  <2>1. AllFitting(struct, class)
    BY <1>2, <1>4, StructFits DEF Headers64
  <2>2. laid.widest \in {1, 2, 4, 8} /\ Biggest(struct, class) % laid.widest = 0
    BY <1>4 DEF LayoutInv
  <2>3. laid.end = Starts(struct, class)[placed + 1] /\ field' = Starts(struct, class)[placed + 1]
    <3>1. CASE placed = 0
      BY <3>1, <1>4, <2>1 DEF LayoutInv, Nothing, Place, AllFitting
    <3>2. CASE placed > 0
      <4>1. placed \in 1..count /\ placed # count
        BY <1>1, <1>2, <1>3, <3>2, SMT
      <4>2. Fitting(struct, class, placed)
        BY <2>1, <4>1 DEF AllFitting
      <4>3. Starts(struct, class)[placed + 1] =
               Starts(struct, class)[placed] + Fields(struct, class)[placed]
        BY <4>1, <4>2 DEF Fitting
      <4>4. Members(struct, class)[placed].size = Fields(struct, class)[placed]
        <5>1. ~(struct = "rela" /\ class = 64 /\ placed = 3)
          BY <1>1 DEF Members, rela
        <5> QED
          BY <4>2, <5>1 DEF Fitting
      <4>5. field' = field + Fields(struct, class)[placed] /\ field = Starts(struct, class)[placed]
            /\ laid.end = field + Members(struct, class)[placed].size
        BY <1>4, <3>2 DEF Place, LayoutInv
      <4> QED
        BY <4>3, <4>4, <4>5
    <3> QED
      BY <1>3, <3>1, <3>2, SMT
  <2>4. laid' = With(laid, Members(struct, class)[placed + 1])
    BY DEF Place
  <2>5. ASSUME struct = "rela"
        PROVE  (IF laid.widest < Members(struct, class)[placed + 1].align
                  THEN Members(struct, class)[placed + 1].align ELSE laid.widest) = class \div 8
    <3>1. CASE placed = 0
      <4>1. laid.widest = 1 /\ Members(struct, class)[placed + 1].align = class \div 8
        BY <1>4, <2>5, <3>1 DEF LayoutInv, Nothing, Members, rela, addr, Whole
      <4> QED
        BY <1>2, <4>1, SMT DEF Classes
    <3>2. CASE placed > 0
      <4>1. laid.widest = class \div 8
        BY <1>4, <2>5, <3>2 DEF LayoutInv
      <4>2. Fitting(struct, class, placed + 1)
        BY <1>1, <1>3, <2>1 DEF AllFitting
      <4>3. Members(struct, class)[placed + 1].align \in {1, 2, 4, 8}
            /\ Biggest(struct, class) % Members(struct, class)[placed + 1].align = 0
        BY <4>2 DEF Fitting
      <4>4. Biggest(struct, class) = class \div 8
        BY <2>5 DEF Biggest
      <4> QED
        BY <1>2, <4>1, <4>3, <4>4, SMT DEF Classes
    <3> QED
      BY <1>3, <3>1, <3>2, SMT
  <2> QED
    BY <1>1, <1>2, <1>3, <2>1, <2>2, <2>3, <2>4, <2>5, PlacedOnField
<1> QED
  BY <1>1, <1>2, <1>3, <1>4 DEF LayoutInv

(* A struct ends on a multiple of its widest alignment, where the last     *)
(* field ends; in a 64 bit relocation what the addend lacks is padding.    *)
LEMMA LayoutInv_Laid == LayoutInv => LaidOverTheFile
<1> SUFFICES ASSUME LayoutInv, placed > 0, ~Headers64
             PROVE  /\ ~Addend64 => OnFields
                    /\ (Complete /\ struct # "move") => Strides
  BY DEF LaidOverTheFile
<1> DEFINE start == Starts(struct, class)[placed]
           width == Fields(struct, class)[placed]
           size == Members(struct, class)[placed].size
           biggest == Biggest(struct, class)
<1>1. struct \in Names /\ class \in Classes /\ AllFitting(struct, class)
  BY StructFits DEF LayoutInv, Headers64
<1>2. placed \in 1..Len(Members(struct, class))
  BY <1>1, SMT DEF LayoutInv, AllFitting
<1>3. Fitting(struct, class, placed)
  BY <1>1, <1>2 DEF AllFitting
<1>4. /\ size \in Nat /\ start \in Nat /\ width \in Nat
      /\ ~Addend64 => size = width
      /\ (Complete /\ struct # "move") => (start + width) % biggest = 0
  BY <1>3 DEF Fitting, Addend64, Complete
<1>5. field = start /\ laid.at = field /\ laid.end = field + size
      /\ laid.widest \in {1, 2, 4, 8} /\ biggest % laid.widest = 0
  BY DEF LayoutInv
<1>6. biggest \in {1, 2, 4, 8}
  BY <1>1 DEF AllFitting
<1>7. Addend64 => start = 16 /\ size = 4 /\ width = 8 /\ laid.widest = 8
  BY SMT DEF Addend64, Starts, Members, Fields, rela, sword, word, Whole, LayoutInv
<1>8. ~Addend64 => OnFields
  <2> HIDE DEF start, width, size, biggest
  <2>1. ~Addend64 => laid.end - laid.at = width
    BY <1>4, <1>5, SMT
  <2> QED
    BY <1>5, <2>1 DEF OnFields, width
<1>9. ASSUME Complete, struct # "move" PROVE Strides
  <2> HIDE DEF start, width, size, biggest
  <2>1. CASE ~Addend64
    <3>1. laid.end = start + width /\ start + width \in Nat
      BY <1>4, <1>5, <2>1, SMT
    <3>2. (start + width) % laid.widest = 0
      BY <1>4, <1>5, <1>6, <1>9, <3>1, AlignmentsDivide
    <3>3. Aligned(laid.end, laid.widest) = start + width
      BY <1>5, <3>1, <3>2, AlignedStays
    <3> QED
      BY <1>5, <3>3 DEF Strides, Size, width
  <2>2. CASE Addend64
    <3>1. laid.end = 20 /\ field + width = 24 /\ laid.widest = 8
      BY <1>5, <1>7, <2>2, SMT
    <3>2. Aligned(20, 8) = 24
      BY SMT DEF Aligned
    <3> QED
      BY <3>1, <3>2 DEF Strides, Size, width
  <2> QED
    BY <2>1, <2>2
<1> QED
  BY <1>8, <1>9

(* Every struct of elf.hh lies member by member on the fields of the file, *)
(* and its size is the stride of the file's table, whatever the class.     *)
THEOREM LaidOverTheFileCorrect == LayoutSpec => []LaidOverTheFile
<1>1. LayoutInit => LayoutInv
  BY LayoutInit_Inv
<1>2. LayoutInv /\ [Place]_layoutVars => LayoutInv'
  <2>1. CASE Place
    BY <2>1, Place_Inv
  <2>2. CASE UNCHANGED layoutVars
    BY <2>2 DEF layoutVars, LayoutInv, Headers64
  <2> QED
    BY <2>1, <2>2
<1>3. LayoutInv => LaidOverTheFile
  BY LayoutInv_Laid
<1> QED
  BY <1>1, <1>2, <1>3, PTL DEF LayoutSpec
=============================================================================
