------------------------------ MODULE ElfLayout ------------------------------
(***************************************************************************)
(* The members of each struct of elf.hh, placed one by one as a compiler   *)
(* does, beside the fields of the file's format (external), which has them *)
(* one after the other without gaps.                                       *)
(***************************************************************************)
EXTENDS ElfStructs

(* The sizes of the fields of the format.                                  *)
Fields(s, c) ==
    LET n == c \div 8 IN
    CASE s = "ident" -> <<4, 1, 1, 1, 1, 1, 7>>
      [] s = "ehdr" -> <<16, 2, 2, 4, n, n, n, 4, 2, 2, 2, 2, 2, 2>>
      [] s = "shdr" -> <<4, 4, n, n, n, n, 4, 4, n, n>>
      [] s = "symbol" -> IF c = 32 THEN <<4, 4, 4, 1, 1, 2>> ELSE <<4, 1, 1, 2, 8, 8>>
      [] s = "syminfo" -> <<2, 2>>
      [] s = "rel" -> <<n, n>>
      [] s = "rela" -> <<n, n, n>>
      [] s = "phdr" -> IF c = 32 THEN <<4, 4, 4, 4, 4, 4, 4, 4>> ELSE <<4, 4, 8, 8, 8, 8, 8, 8>>
      [] s = "dyn" -> <<n, n>>
      [] s = "chdr" -> IF c = 32 THEN <<4, 4, 4>> ELSE <<4, 4, 8, 8>>
      [] s = "verdef" -> <<2, 2, 2, 2, 4, 4, 4>>
      [] s = "verdaux" -> <<4, 4>>
      [] s = "verneed" -> <<2, 2, 4, 4, 4>>
      [] s = "vernaux" -> <<4, 2, 2, 4, 4>>
      [] s = "auxv" -> <<n, n>>
      [] s = "nhdr" -> <<4, 4, 4>>
      [] s = "move" -> <<8, n, n, 2, 2>>

-----------------------------------------------------------------------------
VARIABLES
    struct, class,    \* what is laid out
    placed,           \* how many of its members have a place
    laid,             \* the layout of those
    field             \* in the file: where the last one's field begins
layoutVars == <<struct, class, placed, laid, field>>

LayoutInit == /\ struct \in Names /\ class \in Classes
              /\ placed = 0 /\ laid = Nothing /\ field = 0

Place == /\ placed < Len(Members(struct, class))
         /\ placed' = placed + 1
         /\ laid' = With(laid, Members(struct, class)[placed + 1])
         /\ field' = IF placed = 0 THEN 0 ELSE field + Fields(struct, class)[placed]
         /\ UNCHANGED <<struct, class>>

LayoutSpec == LayoutInit /\ [][Place]_layoutVars

-----------------------------------------------------------------------------
(* What the code does not lay out as the format: the section headers and   *)
(* the addend of relocations, of 64 bit files.                             *)
Headers64 == class = 64 /\ struct = "shdr"
Addend64 == class = 64 /\ struct = "rela" /\ placed = 3

(* Every member lies on its field of the file, and an array of the struct  *)
(* steps from entry to entry of the file's table: a struct ends where its  *)
(* last field does, with no padding but in a move record (all structs of   *)
(* elf.hh).                                                                *)
OnFields == /\ laid.at = field
            /\ laid.end - laid.at = Fields(struct, class)[placed]
Strides == Size(laid) = field + Fields(struct, class)[placed]
Complete == placed = Len(Members(struct, class))

LaidOverTheFile ==
    (placed > 0 /\ ~Headers64) =>
        /\ ~Addend64 => OnFields
        /\ (Complete /\ struct # "move") => Strides
=============================================================================
