----------------------------- MODULE MCElfWords -----------------------------
(* The hash, the info words and the structs of elf.hh and elf.cc: one      *)
(* client that is busy with one of the three.                              *)
EXTENDS ElfInfo, ElfHash, ElfLayout

VARIABLE busy

(* The edges of a nibble and of a byte.                                    *)
SomeBytes == {15, 16, 240, 255}

WordsInit ==
    /\ busy \in {"hash", "info", "layout"}
    /\ HashInit
    /\ Init /\ (busy # "info" => kind = "symbol")
    /\ LayoutInit /\ (busy # "layout" => struct = "ident" /\ class = 32)

WordsNext ==
    /\ UNCHANGED busy
    /\ \/ busy = "hash" /\ HashNext /\ UNCHANGED <<vars, layoutVars>>
       \/ busy = "info" /\ Next /\ UNCHANGED <<hashVars, layoutVars>>
       \/ busy = "layout" /\ Place /\ UNCHANGED <<vars, hashVars>>

WordsSpec == WordsInit /\ [][WordsNext]_<<busy, vars, hashVars, layoutVars>>
=============================================================================
