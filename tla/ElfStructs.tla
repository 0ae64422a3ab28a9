----------------------------- MODULE ElfStructs -----------------------------
(***************************************************************************)
(* The structs that elf.hh lays over a mapped file: the sizes and          *)
(* alignments of their members, in order, for the two classes of files,    *)
(* and where a compiler places them: one after the other, each at the next *)
(* multiple of its alignment.                                              *)
(***************************************************************************)
EXTENDS Integers, Sequences

Classes == {32, 64}

(* A member of n bytes that is aligned to its size, and n of one byte.     *)
Whole(n) == [size |-> n, align |-> n]
Chars(n) == [size |-> n, align |-> 1]

half == Whole(2)
word == Whole(4)

(* elf_types_32_t and elf_types_64_t.                                      *)
addr(c) == Whole(c \div 8)
offset(c) == Whole(c \div 8)
xword(c) == Whole(c \div 8)
sword(c) == word
shflags(c) == Whole(c \div 8)
dyn_tag(c) == Whole(c \div 8)

ident(c) == <<Chars(4), Chars(1), Chars(1), Chars(1), Chars(1), Chars(1), Chars(7)>>

ehdr(c) == <<Chars(16), half, half, word, addr(c), offset(c), offset(c), word,
             half, half, half, half, half, half>>

shdrOf(c) == <<word, word, shflags(c), addr(c), offset(c), xword(c), word, word,
               xword(c), xword(c)>>
(* elf32_shdr_t and elf64_shdr_t: both are of elf_types_32_t.              *)
shdr(c) == shdrOf(32)

symbol32 == <<word, addr(32), word, Chars(1), Chars(1), half>>
symbol64 == <<word, Chars(1), Chars(1), half, addr(64), xword(64)>>

syminfo(c) == <<half, half>>
rel(c) == <<addr(c), xword(c)>>
rela(c) == <<addr(c), xword(c), sword(c)>>

phdr32 == <<word, offset(32), addr(32), addr(32), word, word, word, word>>
(* Faulty: the flags where the other class has them. *)
phdr64Same == <<word, offset(64), addr(64), addr(64), xword(64), xword(64), word, xword(64)>>
phdr64 == <<word, word, offset(64), addr(64), addr(64), xword(64), xword(64), xword(64)>>

dyn(c) == <<dyn_tag(c), xword(c)>>
chdr32 == <<word, word, word>>
chdr64 == <<word, word, xword(64), xword(64)>>
verdef(c) == <<half, half, half, half, word, word, word>>
verdaux(c) == <<word, word>>
verneed(c) == <<half, half, word, word, word>>
vernaux(c) == <<word, half, half, word, word>>
auxv(c) == <<xword(c), xword(c)>>
nhdr(c) == <<word, word, word>>
move32 == <<Whole(8), word, offset(32), half, half>>
move64 == <<xword(64), xword(64), offset(64), half, half>>

Members(s, c) ==
    CASE s = "ident" -> ident(c)     [] s = "ehdr" -> ehdr(c)
      [] s = "shdr" -> shdr(c)       [] s = "syminfo" -> syminfo(c)
      [] s = "rel" -> rel(c)         [] s = "rela" -> rela(c)
      [] s = "dyn" -> dyn(c)         [] s = "verdef" -> verdef(c)
      [] s = "verdaux" -> verdaux(c) [] s = "verneed" -> verneed(c)
      [] s = "vernaux" -> vernaux(c) [] s = "auxv" -> auxv(c)
      [] s = "nhdr" -> nhdr(c)
      [] s = "symbol" -> IF c = 32 THEN symbol32 ELSE symbol64
      [] s = "phdr" -> IF c = 32 THEN phdr32 ELSE phdr64
      [] s = "chdr" -> IF c = 32 THEN chdr32 ELSE chdr64
      [] s = "move" -> IF c = 32 THEN move32 ELSE move64

Names == {"ident", "ehdr", "shdr", "symbol", "syminfo", "rel", "rela", "phdr", "dyn",
          "chdr", "verdef", "verdaux", "verneed", "vernaux", "auxv", "nhdr", "move"}

-----------------------------------------------------------------------------
(* The layout so far: where the last member begins, the first byte after   *)
(* it, and the largest alignment; and the layout with one member more.     *)
Aligned(n, a) == ((n + a - 1) \div a) * a
Nothing == [at |-> 0, end |-> 0, widest |-> 1]
With(laid, m) ==
    LET at == Aligned(laid.end, m.align)
    IN  [at |-> at, end |-> at + m.size,
         widest |-> IF laid.widest < m.align THEN m.align ELSE laid.widest]

Size(laid) == Aligned(laid.end, laid.widest)

Laid(members) ==
    LET laid[n \in 0..Len(members)] ==
          IF n = 0 THEN Nothing ELSE With(laid[n - 1], members[n])
    IN  laid

sizeof(s, c) == Size(Laid(Members(s, c))[Len(Members(s, c))])
offsetof(s, c, n) == Laid(Members(s, c))[n].at
=============================================================================
