----------------------------- MODULE MCElfLoad -----------------------------
(* ElfLoad on files that are well formed, on files that are not in each of *)
(* the ways the loader tells apart, and on edits from one to the other.    *)
EXTENDS ElfLoad

(* The sizes and offsets that ElfLoad is written with are those of the     *)
(* structs as they are laid out.                                           *)
Structs == INSTANCE ElfStructs
FieldNumber == [phoff |-> 6, shoff |-> 7, phnum |-> 11, shnum |-> 13, shstrndx |-> 14]
ASSUME SizesAreLaidOut ==
    /\ EhdrSize = Structs!sizeof("ehdr", Class)
    /\ PhdrSize = Structs!sizeof("phdr", Class)
    /\ ShdrSize = Structs!sizeof("shdr", Class)
    /\ ShdrOffsetField = Structs!offsetof("shdr", Class, 5)
    /\ \A f \in DOMAIN FieldNumber :
         FieldEnd[f] = Structs!offsetof("ehdr", Class, FieldNumber[f])
                       + Structs!Members("ehdr", Class)[FieldNumber[f]].size

(* A header in front of a program header table, a string table and a       *)
(* section header table with as many entries as secoff has.                *)
File(size, phoff, phnum, shoff, shnum, shstrndx, secoff) ==
    [size |-> size, phoff |-> phoff, phnum |-> phnum, shoff |-> shoff, shnum |-> shnum,
     shstrndx |-> shstrndx, secoff |-> [j \in 0..(shnum - 1) |-> secoff]]

Names(v, offset) == [v EXCEPT !.secoff[v.shstrndx] = offset]

Small == Names(File(320, 64, 1, 128, 3, 2, 64), 120)
Large == Names(File(5120, 64, 2, 4800, 4, 1, 256), 4736)
Wide == Names(File(960, 64, 1, 480, 12, 11, 64), 120)
Moved == Names(Small, 100)
Grown == [Small EXCEPT !.size = 4500]
GrownNames == Names(Grown, 4400)
NoTables == File(64, 0, 0, 0, 0, 0, 0)
Stripped == [Small EXCEPT !.shnum = 0, !.shstrndx = 0, !.secoff = <<>>]

Empty == File(0, 0, 0, 0, 0, 0, 0)
Short == [NoTables EXCEPT !.size = 40, !.phnum = 1]
BadIndex == [Small EXCEPT !.shstrndx = 3]
HugeIndex == [Small EXCEPT !.shstrndx = 320]
TablesOutside == [Small EXCEPT !.phoff = 320, !.shoff = 4096]
NamesOutside == Names(Small, 320)
LongTable == [Small EXCEPT !.phnum = 200, !.shnum = 200, !.shstrndx = 150]

WellFormedFiles == {Small, Large, Wide, Moved, Grown, GrownNames, NoTables, Stripped}
Files == WellFormedFiles \cup {Empty, Short, BadIndex, HugeIndex, TablesOutside,
                               NamesOutside, LongTable}
=============================================================================
