------------------------------ MODULE Handles ------------------------------
(***************************************************************************)
(* The two RAII wrappers of the library, fd_t (include/fd_t.hh) and mmap_t *)
(* (include/mmap_t.hh), over the part of the kernel they use: the process' *)
(* table of open descriptors and its mapped pages.                         *)
(*                                                                         *)
(* FdObjs and MapObjs are the places (variables, members, temporaries) in  *)
(* which the program constructs an fd_t or an mmap_t; `alive' is the set   *)
(* of those that hold a constructed object.  A program is any sequence of  *)
(* constructions, moves, reads, calls of map() and destructions.  The one  *)
(* thing a client must not do is give a wrapper a descriptor that          *)
(* something else already owns.                                            *)
(***************************************************************************)
EXTENDS Integers

CONSTANTS FdObjs,    \* places for an fd_t
          MapObjs,   \* places for an mmap_t
          Desc,      \* descriptor numbers the kernel can hand out
          MaxLen,    \* bound: the longest mapping, in pages
          LowPage,   \* the lowest page the kernel hands out
          MaxPage,   \* bound: the highest page of the address space
          Image      \* pages in use before any wrapper maps one

ASSUME ObjsAssumption == FdObjs \cap MapObjs = {}
(* Names for the rest of the program and for no owner, see holder below. *)
ASSUME NamesAssumption == {"outside", "nobody"} \cap (FdObjs \cup MapObjs) = {}
ASSUME DescAssumption == Desc \subseteq Nat
ASSUME LenAssumption == MaxLen \in Nat
(* Nothing is placed at address 0.  A mapping may be asked for that is     *)
(* longer than the hole below LowPage, or than the address space.          *)
ASSUME PagesAssumption == /\ LowPage \in Nat /\ MaxPage \in Nat
                          /\ 0 < LowPage
                          /\ Image \subseteq LowPage..MaxPage

NoFd == -1
Null == 0
Objs == FdObjs \cup MapObjs

VARIABLES
    open,       \* kernel: the open descriptors
    mapped,     \* kernel: the mapped pages
    foreign,    \* open descriptors that are the rest of the program's
    alive,      \* the places that hold a constructed object
    fd,         \* member fd of each object
    eof,        \* member eof of each fd_t
    addr, len,  \* members addr and len of each mmap_t
    sawEnd,     \* history: descriptors on which a read() returned 0
    swept,      \* history: how far from address 0 failed mappings were unmapped
    unwinding   \* the program only leaves scopes

kernel == <<open, mapped>>
fdMembers == <<fd, eof>>
mapMembers == <<addr, len>>
vars == <<open, mapped, foreign, alive, fd, eof, addr, len, sawEnd, swept,
          unwinding>>

Extent(a, n) == a..(a + n - 1)

TypeOK == /\ open \subseteq Desc
          /\ mapped \subseteq LowPage..MaxPage
          /\ foreign \subseteq Desc
          /\ alive \subseteq Objs
          /\ fd \in [Objs -> Desc \cup {NoFd}]
          /\ eof \in [FdObjs -> BOOLEAN]
          /\ addr \in [MapObjs -> {Null} \cup (LowPage..MaxPage)]
          /\ len \in [MapObjs -> 0..MaxLen]
          /\ sawEnd \subseteq Desc
          /\ swept \in 0..MaxLen
          /\ unwinding \in BOOLEAN

Init == /\ open = {}
        /\ mapped = Image
        /\ foreign = {}
        /\ alive = {}
        /\ fd = [x \in Objs |-> NoFd]
        /\ eof = [o \in FdObjs |-> FALSE]
        /\ addr = [m \in MapObjs |-> Null]
        /\ len = [m \in MapObjs |-> 0]
        /\ sawEnd = {}
        /\ swept = 0
        /\ unwinding = FALSE

-----------------------------------------------------------------------------
(* The kernel's answers.                                                   *)

(* open(): a descriptor that is not in use, or -1. *)
OpenResults == (Desc \ open) \cup {NoFd}

(* close() *)
CloseDescriptor(d) == /\ open' = open \ {d}
                      /\ sawEnd' = sawEnd \ {d}

(* mmap(nullptr, n, ..., d, 0): the address of free pages for a descriptor *)
(* that is open; Null where it failed, always so for an empty length.      *)
MmapResults(d, n) ==
    {Null} \cup
    {a \in LowPage..MaxPage : /\ d \in open
                              /\ n > 0
                              /\ Extent(a, n) \subseteq (LowPage..MaxPage) \ mapped}

(* munmap(a, n), whether or not these pages are mapped; refused if they    *)
(* are not all in the address space.                                       *)
Munmap(a, n) ==
    mapped' = mapped \ (IF a + n <= MaxPage + 1 THEN Extent(a, n) ELSE {})

-----------------------------------------------------------------------------
(* fd_t                                                                    *)

Construct(x) == /\ ~unwinding
                /\ x \notin alive
                /\ alive' = alive \cup {x}

FdDefault(o) ==
    /\ Construct(o)
    /\ fd' = [fd EXCEPT ![o] = NoFd]
    /\ eof' = [eof EXCEPT ![o] = FALSE]
    /\ UNCHANGED <<kernel, foreign, mapMembers, sawEnd, swept, unwinding>>

(* fd_t(int32_t): the object takes over a descriptor of the client's. *)
FdAdopt(o, d) ==
    /\ Construct(o)
    /\ d \in foreign
    /\ foreign' = foreign \ {d}
    /\ fd' = [fd EXCEPT ![o] = d]
    /\ eof' = [eof EXCEPT ![o] = FALSE]
    /\ UNCHANGED <<kernel, mapMembers, sawEnd, swept, unwinding>>

(* fd_t(file, flags, mode) *)
FdOpen(o) ==
    /\ Construct(o)
    /\ \E d \in OpenResults : /\ open' = open \cup ({d} \ {NoFd})
                              /\ fd' = [fd EXCEPT ![o] = d]
    /\ eof' = [eof EXCEPT ![o] = FALSE]
    /\ UNCHANGED <<mapped, foreign, mapMembers, sawEnd, swept, unwinding>>

(* Faulty: the descriptor is copied. *)
FdMoveConstructCopies(o, p) ==
    /\ Construct(o)
    /\ p \in alive
    /\ fd' = [fd EXCEPT ![o] = fd[p]]
    /\ eof' = [eof EXCEPT ![o] = eof[p]]
    /\ UNCHANGED <<kernel, foreign, mapMembers, sawEnd, swept, unwinding>>

(* fd_t(fd_t &&): a default object, then swap. *)
FdMoveConstruct(o, p) ==
    /\ Construct(o)
    /\ p \in alive
    /\ fd' = [fd EXCEPT ![o] = fd[p], ![p] = NoFd]
    /\ eof' = [eof EXCEPT ![o] = eof[p], ![p] = FALSE]
    /\ UNCHANGED <<kernel, foreign, mapMembers, sawEnd, swept, unwinding>>

(* Faulty: the descriptor of the target is forgotten. *)
FdMoveAssignForgets(o, p) ==
    /\ ~unwinding
    /\ {o, p} \subseteq alive
    /\ fd' = [fd EXCEPT ![p] = NoFd, ![o] = fd[p]]
    /\ eof' = [eof EXCEPT ![p] = FALSE, ![o] = eof[p]]
    /\ UNCHANGED <<kernel, foreign, alive, mapMembers, sawEnd, swept, unwinding>>

(* Faulty: the descriptor of the target is closed at once. *)
FdMoveAssignCloses(o, p) ==
    /\ ~unwinding
    /\ {o, p} \subseteq alive
    /\ IF fd[o] # NoFd THEN CloseDescriptor(fd[o]) ELSE UNCHANGED <<open, sawEnd>>
    /\ fd' = [fd EXCEPT ![p] = NoFd, ![o] = fd[p]]
    /\ eof' = [eof EXCEPT ![p] = FALSE, ![o] = eof[p]]
    /\ UNCHANGED <<mapped, foreign, alive, mapMembers, swept, unwinding>>

(* Faulty: swap leaves eof where it is. *)
FdMoveAssignLeavesEof(o, p) ==
    /\ ~unwinding
    /\ {o, p} \subseteq alive
    /\ fd' = [fd EXCEPT ![o] = fd[p], ![p] = fd[o]]
    /\ UNCHANGED <<kernel, foreign, alive, eof, mapMembers, sawEnd, swept, unwinding>>

(* operator =(fd_t &&) and swap() *)
FdMoveAssign(o, p) ==
    /\ ~unwinding
    /\ {o, p} \subseteq alive
    /\ fd' = [fd EXCEPT ![o] = fd[p], ![p] = fd[o]]
    /\ eof' = [eof EXCEPT ![o] = eof[p], ![p] = eof[o]]
    /\ UNCHANGED <<kernel, foreign, alive, mapMembers, sawEnd, swept, unwinding>>

(* A read() of some bytes that the kernel answers with 0.  With eof set    *)
(* the kernel is not asked; its other answers change nothing here.         *)
FdReadEnd(o) ==
    /\ ~unwinding
    /\ o \in alive
    /\ ~eof[o]
    /\ fd[o] \in open
    /\ eof' = [eof EXCEPT ![o] = TRUE]
    /\ sawEnd' = sawEnd \cup {fd[o]}
    /\ UNCHANGED <<kernel, foreign, alive, fd, mapMembers, swept, unwinding>>

FdDestroy(o) ==
    /\ o \in alive
    /\ alive' = alive \ {o}
    /\ IF fd[o] # NoFd THEN CloseDescriptor(fd[o]) ELSE UNCHANGED <<open, sawEnd>>
    /\ fd' = [fd EXCEPT ![o] = NoFd]
    /\ eof' = [eof EXCEPT ![o] = FALSE]
    /\ UNCHANGED <<mapped, foreign, mapMembers, swept, unwinding>>

-----------------------------------------------------------------------------
(* mmap_t                                                                  *)

(* The mmap_t(file, length, prot) constructor on the place m. *)
MapPages(m, d, n) ==
    /\ len' = [len EXCEPT ![m] = n]
    /\ \E a \in MmapResults(d, n) :
          /\ addr' = [addr EXCEPT ![m] = a]
          /\ mapped' = mapped \cup (IF a = Null THEN {} ELSE Extent(a, n))

(* Faulty: the fd_t keeps its descriptor. *)
FdMapKeeps(o, m) ==
    /\ Construct(m)
    /\ o \in alive
    /\ fd[o] # NoFd
    /\ fd' = [fd EXCEPT ![m] = fd[o]]
    /\ \E n \in 0..MaxLen : MapPages(m, fd[o], n)
    /\ UNCHANGED <<open, foreign, eof, sawEnd, swept, unwinding>>

(* fd_t::map(prot, n), and map(prot), where n is what fstat said before. *)
FdMap(o, m) ==
    /\ Construct(m)
    /\ o \in alive
    /\ IF fd[o] = NoFd
       THEN /\ fd' = [fd EXCEPT ![m] = NoFd]
            /\ addr' = [addr EXCEPT ![m] = Null]
            /\ len' = [len EXCEPT ![m] = 0]
            /\ UNCHANGED mapped
       ELSE /\ fd' = [fd EXCEPT ![o] = NoFd, ![m] = fd[o]]
            /\ \E n \in 0..MaxLen : MapPages(m, fd[o], n)
    /\ UNCHANGED <<open, foreign, eof, sawEnd, swept, unwinding>>

MapDefault(m) ==
    /\ Construct(m)
    /\ fd' = [fd EXCEPT ![m] = NoFd]
    /\ addr' = [addr EXCEPT ![m] = Null]
    /\ len' = [len EXCEPT ![m] = 0]
    /\ UNCHANGED <<kernel, foreign, eof, sawEnd, swept, unwinding>>

(* The public constructor, on a descriptor of the client's or on -1. *)
MapAdopt(m, d) ==
    /\ Construct(m)
    /\ d \in foreign \cup {NoFd}
    /\ foreign' = foreign \ {d}
    /\ fd' = [fd EXCEPT ![m] = d]
    /\ \E n \in 0..MaxLen : MapPages(m, d, n)
    /\ UNCHANGED <<open, eof, sawEnd, swept, unwinding>>

MapMoveConstruct(m, n) ==
    /\ Construct(m)
    /\ n \in alive
    /\ fd' = [fd EXCEPT ![m] = fd[n], ![n] = NoFd]
    /\ addr' = [addr EXCEPT ![m] = addr[n], ![n] = Null]
    /\ len' = [len EXCEPT ![m] = len[n], ![n] = 0]
    /\ UNCHANGED <<kernel, foreign, eof, sawEnd, swept, unwinding>>

(* Faulty: swap leaves len where it is. *)
MapMoveAssignLeavesLen(m, n) ==
    /\ ~unwinding
    /\ {m, n} \subseteq alive
    /\ fd' = [fd EXCEPT ![m] = fd[n], ![n] = fd[m]]
    /\ addr' = [addr EXCEPT ![m] = addr[n], ![n] = addr[m]]
    /\ UNCHANGED <<kernel, foreign, alive, len, eof, sawEnd, swept, unwinding>>

(* Faulty: the mapping of the target is unmapped at once. *)
MapMoveAssignUnmaps(m, n) ==
    /\ ~unwinding
    /\ {m, n} \subseteq alive
    /\ Munmap(addr[m], len[m])
    /\ fd' = [fd EXCEPT ![m] = fd[n], ![n] = fd[m]]
    /\ addr' = [addr EXCEPT ![n] = Null, ![m] = addr[n]]
    /\ len' = [len EXCEPT ![n] = 0, ![m] = len[n]]
    /\ UNCHANGED <<open, foreign, alive, eof, sawEnd, swept, unwinding>>

MapMoveAssign(m, n) ==
    /\ ~unwinding
    /\ {m, n} \subseteq alive
    /\ fd' = [fd EXCEPT ![m] = fd[n], ![n] = fd[m]]
    /\ addr' = [addr EXCEPT ![m] = addr[n], ![n] = addr[m]]
    /\ len' = [len EXCEPT ![m] = len[n], ![n] = len[m]]
    /\ UNCHANGED <<kernel, foreign, alive, eof, sawEnd, swept, unwinding>>

(* Faulty: only a valid() object closes its descriptor. *)
MapDestroyIfValid(m) ==
    /\ m \in alive
    /\ alive' = alive \ {m}
    /\ IF fd[m] # NoFd /\ addr[m] # Null
       THEN CloseDescriptor(fd[m]) ELSE UNCHANGED <<open, sawEnd>>
    /\ Munmap(addr[m], len[m])
    /\ fd' = [fd EXCEPT ![m] = NoFd]
    /\ addr' = [addr EXCEPT ![m] = Null]
    /\ len' = [len EXCEPT ![m] = 0]
    /\ swept' = IF addr[m] = Null /\ len[m] \in swept..(MaxPage + 1) THEN len[m] ELSE swept
    /\ UNCHANGED <<foreign, eof, unwinding>>

(* close, if there is a descriptor, and munmap(addr, len) in any case: of  *)
(* a mapping that failed, the first len bytes of the address space.        *)
MapDestroy(m) ==
    /\ m \in alive
    /\ alive' = alive \ {m}
    /\ IF fd[m] # NoFd THEN CloseDescriptor(fd[m]) ELSE UNCHANGED <<open, sawEnd>>
    /\ Munmap(addr[m], len[m])
    /\ fd' = [fd EXCEPT ![m] = NoFd]
    /\ addr' = [addr EXCEPT ![m] = Null]
    /\ len' = [len EXCEPT ![m] = 0]
    /\ swept' = IF addr[m] = Null /\ len[m] \in swept..(MaxPage + 1) THEN len[m] ELSE swept
    /\ UNCHANGED <<foreign, eof, unwinding>>

-----------------------------------------------------------------------------
(* The rest of the program.                                                *)

RawOpen(d) ==
    /\ ~unwinding
    /\ d \in Desc \ open
    /\ open' = open \cup {d}
    /\ foreign' = foreign \cup {d}
    /\ UNCHANGED <<mapped, alive, fdMembers, mapMembers, sawEnd, swept, unwinding>>

RawClose(d) ==
    /\ d \in foreign
    /\ foreign' = foreign \ {d}
    /\ CloseDescriptor(d)
    /\ UNCHANGED <<mapped, alive, fdMembers, mapMembers, swept, unwinding>>

(* A return or an exception: from now on the program only runs the         *)
(* destructors of what it constructed.                                     *)
Unwind ==
    /\ ~unwinding
    /\ alive # {}
    /\ unwinding' = TRUE
    /\ UNCHANGED <<kernel, foreign, alive, fdMembers, mapMembers, sawEnd, swept>>

Resume ==
    /\ unwinding
    /\ alive = {}
    /\ unwinding' = FALSE
    /\ UNCHANGED <<kernel, foreign, alive, fdMembers, mapMembers, sawEnd, swept>>

Destroy == \/ \E o \in FdObjs : FdDestroy(o)
           \/ \E m \in MapObjs : MapDestroy(m)

Next == \/ \E o \in FdObjs : FdDefault(o) \/ FdOpen(o) \/ FdReadEnd(o)
        \/ \E o \in FdObjs, d \in Desc : FdAdopt(o, d)
        \/ \E o, p \in FdObjs : FdMoveConstruct(o, p) \/ FdMoveAssign(o, p)
        \/ \E o \in FdObjs, m \in MapObjs : FdMap(o, m)
        \/ \E m \in MapObjs : MapDefault(m)
        \/ \E m \in MapObjs, d \in Desc \cup {NoFd} : MapAdopt(m, d)
        \/ \E m, n \in MapObjs : MapMoveConstruct(m, n) \/ MapMoveAssign(m, n)
        \/ Destroy
        \/ \E d \in Desc : RawOpen(d) \/ RawClose(d)
        \/ Unwind
        \/ Resume

(* Leaving a scope runs its destructors: the language sees to that. *)
Spec == Init /\ [][Next]_vars
FairSpec == Spec /\ WF_vars(Destroy)
-----------------------------------------------------------------------------
(* Correctness.                                                            *)

Owned == {fd[x] : x \in alive} \ {NoFd}
LiveMaps == {m \in MapObjs : addr[m] # Null}
PagesOf(m) == Extent(addr[m], len[m])

(* No two wrappers, and no wrapper and the rest of the program, own the    *)
(* same descriptor, across every move and every reuse of its number: so    *)
(* no destructor closes what another object still uses.                    *)
UniqueOwner ==
    /\ \A x, y \in Objs : x # y /\ fd[x] # NoFd => fd[x] # fd[y]
    /\ \A x \in Objs : fd[x] \notin foreign

(* Every open descriptor is owned by a live wrapper or is the rest of the  *)
(* program's, and what they own is open: nothing leaks through a move, a   *)
(* failed mmap or map(), and close() never fails in a destructor.          *)
NothingLeaks == open = foreign \cup Owned

(* The pages that no failed mapping was long enough to reach. *)
OutOfReach(pages) == {p \in pages : p >= swept}

(* The mapped pages are the image and the pages of the live mappings, and  *)
(* these are disjoint, but for what a failed mapping's munmap(nullptr,     *)
(* len) took: that is at most the first len bytes of the address space,    *)
(* whoever has them, and nothing if nobody has pages so low.               *)
PagesAccounted ==
    /\ LiveMaps \subseteq alive
    /\ LET pages == Image \cup UNION {PagesOf(m) : m \in LiveMaps}
       IN  mapped \subseteq pages /\ OutOfReach(pages) \subseteq mapped
    /\ \A m \in LiveMaps : OutOfReach(PagesOf(m)) \cap Image = {}
    /\ \A m, n \in LiveMaps : m # n => OutOfReach(PagesOf(m)) \cap PagesOf(n) = {}

(* The end-of-file flag is a fact about the open file, kept in the object: *)
(* it travels with the descriptor through moves and swaps, is not left     *)
(* behind for the next descriptor and is not inherited by a reused number. *)
EofFollowsDescriptor ==
    \A o \in alive \cap FdObjs :
        fd[o] # NoFd => (eof[o] <=> fd[o] \in sawEnd)

(* A descriptor is closed by the destructor of its owner or by the rest of *)
(* the program, never by a move, a map() or a failed step.                 *)
ClosedByOwner ==
    \A d \in open \ open' :
        \/ d \in foreign
        \/ \E x \in alive \ alive' : fd[x] = d
ClosesAreDestructions == [][ClosedByOwner]_vars

(* As long as it is not destroyed, a mapping stays where it is, with its   *)
(* descriptor, in a live object, and is unmapped by nobody unless a failed *)
(* mapping reaches it: a pointer into it obtained from address() or at()   *)
(* survives every move of the mmap_t.                                      *)
MappingStays(m) ==
    m \in alive' => /\ \E n \in alive' : /\ n \in MapObjs
                                        /\ addr'[n] = addr[m]
                                        /\ len'[n] = len[m]
                                        /\ fd'[n] = fd[m]
                    /\ \A p \in PagesOf(m) : p >= swept' => p \in mapped'
MappingsAreStable == [][\A m \in LiveMaps : MappingStays(m)]_vars

(* Once the program does nothing but leave scopes, it gives back every     *)
(* descriptor and every page that the wrappers took, and no page of the    *)
(* image that is out of the reach of failed mappings.                      *)
AllReleased == open = foreign /\ mapped \subseteq Image /\ OutOfReach(Image) \subseteq mapped
UnwindingReleases == unwinding ~> AllReleased

(* The wrappers implement unique ownership.                                *)
holder == [d \in Desc |->
             IF d \in foreign THEN "outside"
             ELSE IF \E x \in Objs : fd[x] = d THEN CHOOSE x \in Objs : fd[x] = d
             ELSE "nobody"]
Ownership == INSTANCE UniqueOwnership WITH
                 Resources <- Desc, Wrappers <- Objs,
                 Outside <- "outside", Nobody <- "nobody"
ImplementsOwnership == Ownership!Spec
=============================================================================
