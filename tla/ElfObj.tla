------------------------------- MODULE ElfObj -------------------------------
(***************************************************************************)
(* elf_t objects (include/elf.hh) from construction to destruction.        *)
(*                                                                         *)
(* The class declares no move operations, so it has the implicit ones:     *)
(* each member is moved on its own.  The mapping changes hands (mmap_t     *)
(* swaps), the header is copied, and the two spans and the string table    *)
(* pointer, which point into the mapping, are copied as pointers.  That    *)
(* these pointers end up in the object that has the mapping they point     *)
(* into is nowhere written down in the code.                               *)
(*                                                                         *)
(* What the loading constructor does in detail is the subject of ElfLoad,  *)
(* which implements Load, and what the members _file_fd and _file_map do   *)
(* that of Handles.  Here a loaded file is a member of Files, and a member *)
(* of the object is known by the file that its content came from.          *)
(***************************************************************************)
CONSTANTS Objs,      \* places for an elf_t
          Files,     \* descriptors of opened files, with the mapping of each
          None,      \* no file
          Settable   \* the members that clients change with a setter

Parts == {"header", "pheaders", "sheaders", "strtbl"}

ASSUME NoneAssumption == None \notin Files \cup Objs
ASSUME SettableAssumption == Settable \subseteq Parts \ {"strtbl"}

VARIABLES
    held,         \* kernel: the files whose descriptor is open
    mapped,       \* kernel: the files that are mapped
    alive,        \* the places that hold a constructed object
    map,          \* what _file_map of each object holds
    from,         \* the file that each other member came from
    constructed,  \* _constructed
    disturbed     \* history: objects that were moved from, or that a setter
                  \* changed, and that nothing was assigned to since

kernel == <<held, mapped>>
members == <<map, from, constructed>>
vars == <<held, mapped, alive, map, from, constructed, disturbed>>

Blank == [part \in Parts |-> None]

TypeOK == /\ held \subseteq Files
          /\ mapped \subseteq held
          /\ alive \subseteq Objs
          /\ map \in [Objs -> Files \cup {None}]
          /\ from \in [Objs -> [Parts -> Files \cup {None}]]
          /\ constructed \in [Objs -> BOOLEAN]
          /\ disturbed \subseteq alive

Init == /\ held = {}
        /\ mapped = {}
        /\ alive = {}
        /\ map = [o \in Objs |-> None]
        /\ from = [o \in Objs |-> Blank]
        /\ constructed = [o \in Objs |-> FALSE]
        /\ disturbed = {}

-----------------------------------------------------------------------------
Construct(o) == /\ o \notin alive
                /\ alive' = alive \cup {o}

(* elf_t(): valid(), though it has no file. *)
Default(o) ==
    /\ Construct(o)
    /\ from' = [from EXCEPT ![o] = Blank]
    /\ constructed' = [constructed EXCEPT ![o] = TRUE]
    /\ UNCHANGED <<kernel, map, disturbed>>

(* What elf_t(path) leaves in the members for a file that is mapped: the   *)
(* program headers, the section headers and then the string table may      *)
(* each be missing.                                                        *)
Loaded(f) == {parts \in [Parts -> {f, None}] :
                /\ parts["header"] = f
                /\ parts["sheaders"] = None => parts["strtbl"] = None}

(* Faulty: _constructed stays true for a mapping that failed. *)
LoadUnchecked(o) ==
    /\ Construct(o)
    /\ \/ UNCHANGED <<kernel, map>>
       \/ \E f \in Files \ held :
             /\ map' = [map EXCEPT ![o] = f]
             /\ held' = held \cup {f}
             /\ mapped' \in {mapped, mapped \cup {f}}
    /\ from' = [from EXCEPT ![o] = Blank]
    /\ constructed' = [constructed EXCEPT ![o] = TRUE]
    /\ UNCHANGED disturbed

(* elf_t(path): open fails, or mmap does and _file_map keeps only the      *)
(* descriptor, or the file is mapped and read.                             *)
Load(o) ==
    /\ Construct(o)
    /\ \/ /\ from' = [from EXCEPT ![o] = Blank]
          /\ constructed' = [constructed EXCEPT ![o] = FALSE]
          /\ UNCHANGED <<kernel, map>>
       \/ \E f \in Files \ held :
             /\ map' = [map EXCEPT ![o] = f]
             /\ held' = held \cup {f}
             /\ \/ /\ from' = [from EXCEPT ![o] = Blank]
                   /\ constructed' = [constructed EXCEPT ![o] = FALSE]
                   /\ UNCHANGED mapped
                \/ /\ \E parts \in Loaded(f) : from' = [from EXCEPT ![o] = parts]
                   /\ constructed' = [constructed EXCEPT ![o] = TRUE]
                   /\ mapped' = mapped \cup {f}
    /\ UNCHANGED disturbed

(* Of the two objects of a move, o has what p had, and p has been moved from. *)
Disturb(o, p) == disturbed' = (disturbed \ {o}) \cup {p} \cup
                              (IF p \in disturbed THEN {o} ELSE {})

(* Faulty: the mapping is copied like the pointers. *)
MoveConstructCopies(o, p) ==
    /\ Construct(o)
    /\ p \in alive
    /\ map' = [map EXCEPT ![o] = map[p]]
    /\ from' = [from EXCEPT ![o] = from[p]]
    /\ constructed' = [constructed EXCEPT ![o] = constructed[p]]
    /\ Disturb(o, p)
    /\ UNCHANGED kernel

(* elf_t(elf_t &&), implicit. *)
MoveConstruct(o, p) ==
    /\ Construct(o)
    /\ p \in alive
    /\ map' = [map EXCEPT ![o] = map[p], ![p] = None]
    /\ from' = [from EXCEPT ![o] = from[p]]
    /\ constructed' = [constructed EXCEPT ![o] = constructed[p]]
    /\ Disturb(o, p)
    /\ UNCHANGED kernel

(* Faulty: a member is left out. *)
MoveAssignForgetsStrtbl(o, p) ==
    /\ {o, p} \subseteq alive
    /\ o # p
    /\ map' = [map EXCEPT ![o] = map[p], ![p] = map[o]]
    /\ from' = [from EXCEPT ![o] = [from[p] EXCEPT !["strtbl"] = from[o]["strtbl"]]]
    /\ constructed' = [constructed EXCEPT ![o] = constructed[p]]
    /\ Disturb(o, p)
    /\ UNCHANGED <<kernel, alive>>

(* Faulty: the target's mapping is replaced, and in nobody's hands then. *)
MoveAssignOverwrites(o, p) ==
    /\ {o, p} \subseteq alive
    /\ o # p
    /\ map' = [map EXCEPT ![o] = map[p], ![p] = None]
    /\ from' = [from EXCEPT ![o] = from[p]]
    /\ constructed' = [constructed EXCEPT ![o] = constructed[p]]
    /\ Disturb(o, p)
    /\ UNCHANGED <<kernel, alive>>

(* Faulty: the target's mapping is unmapped at once. *)
MoveAssignUnmaps(o, p) ==
    /\ {o, p} \subseteq alive
    /\ o # p
    /\ held' = held \ {map[o]}
    /\ mapped' = mapped \ {map[o]}
    /\ map' = [map EXCEPT ![o] = map[p], ![p] = None]
    /\ from' = [from EXCEPT ![o] = from[p]]
    /\ constructed' = [constructed EXCEPT ![o] = constructed[p]]
    /\ Disturb(o, p)
    /\ UNCHANGED alive

(* operator =(elf_t &&), implicit.  p is left with the mapping that o had  *)
(* and with its own pointers.  A self-assignment changes nothing.          *)
MoveAssign(o, p) ==
    /\ {o, p} \subseteq alive
    /\ o # p
    /\ map' = [map EXCEPT ![o] = map[p], ![p] = map[o]]
    /\ from' = [from EXCEPT ![o] = from[p]]
    /\ constructed' = [constructed EXCEPT ![o] = constructed[p]]
    /\ Disturb(o, p)
    /\ UNCHANGED <<kernel, alive>>

(* header(h), pheaders(s), sheaders(s), with what an accessor of some      *)
(* object gave.                                                            *)
Set(o, part, p) ==
    /\ {o, p} \subseteq alive
    /\ from' = [from EXCEPT ![o][part] = from[p][part]]
    /\ disturbed' = disturbed \cup ({o} \ {p})
    /\ UNCHANGED <<kernel, alive, map, constructed>>

(* Only _file_map has something to give back. *)
Destroy(o) ==
    /\ o \in alive
    /\ alive' = alive \ {o}
    /\ held' = held \ {map[o]}
    /\ mapped' = mapped \ {map[o]}
    /\ map' = [map EXCEPT ![o] = None]
    /\ from' = [from EXCEPT ![o] = Blank]
    /\ constructed' = [constructed EXCEPT ![o] = FALSE]
    /\ disturbed' = disturbed \ {o}

Next == \/ \E o \in Objs : Default(o) \/ Load(o) \/ Destroy(o)
        \/ \E o, p \in Objs : MoveConstruct(o, p) \/ MoveAssign(o, p)
        \/ \E o, p \in Objs, part \in Settable : Set(o, part, p)

Spec == Init /\ [][Next]_vars
-----------------------------------------------------------------------------
(* Correctness.                                                            *)

(* The members of an object that was not disturbed are of one file: the    *)
(* header, the tables and the string table come from the object's own      *)
(* mapping, which is there, whatever chain of moves (a std::swap is three) *)
(* brought them together.  So no accessor of such an object leads to       *)
(* unmapped memory or to another file's.                                   *)
OneFile ==
    \A o \in alive \ disturbed, part \in Parts :
        from[o][part] # None => from[o][part] = map[o] /\ map[o] \in mapped

(* An open descriptor or a mapping is in exactly one object, and that one  *)
(* is alive, whether or not it was disturbed: nothing leaks and nothing is *)
(* given back twice.                                                       *)
HeldOnce ==
    /\ held = {map[o] : o \in alive} \ {None}
    /\ \A o, p \in alive : o # p /\ map[o] # None => map[o] # map[p]

(* What valid() says of an object that was not disturbed travels with its  *)
(* mapping: false means that every member is blank, true that a file, if   *)
(* there is one, is mapped.                                                *)
ValidIsHonest ==
    \A o \in alive \ disturbed :
        IF constructed[o] THEN map[o] \in mapped \cup {None}
                          ELSE from[o] = Blank /\ map[o] \notin mapped

(* Only a destruction unmaps anything: a span taken from an object outlives *)
(* an assignment to it, as the mapping it points into then lives in the    *)
(* object that was assigned from.                                          *)
MovesUnmapNothing == [][alive \subseteq alive' => mapped \subseteq mapped']_vars

(* The objects implement unique ownership of their files.                  *)
holder == [f \in Files |->
             IF \E o \in Objs : map[o] = f THEN CHOOSE o \in Objs : map[o] = f ELSE None]
Ownership == INSTANCE UniqueOwnership WITH
                 Resources <- Files, Wrappers <- Objs,
                 Outside <- "outside", Nobody <- None
ImplementsOwnership == Ownership!Spec
=============================================================================
