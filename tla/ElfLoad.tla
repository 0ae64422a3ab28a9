------------------------------ MODULE ElfLoad ------------------------------
(***************************************************************************)
(* elf_t(path): the constructor that loads an ELF file (include/elf.hh),   *)
(* call by call, with the file_fd and file_map members it goes through,    *)
(* and the accesses that a client later makes through the views it left.   *)
(*                                                                         *)
(* The file is mapped MAP_SHARED and nothing locks it: while the           *)
(* constructor runs, and afterwards, another process may replace the       *)
(* content in place, extend it or truncate it.  The header is copied field *)
(* by field, in whatever order the compiler chose, and an edit can fall    *)
(* between any two of them; the tables are read in place.  One field, like *)
(* any aligned word, is taken to be read and written whole.                *)
(* A version of the file is what the loader can tell about its content:    *)
(* its size, the header's fields and the sections' sh_offset.              *)
(***************************************************************************)
EXTENDS Integers, FiniteSets

CONSTANTS Class,      \* 32 for elf32_t, 64 for elf64_t
          PageSize,
          Versions,   \* the versions of the file there can be
          Strays,     \* words found where no sh_offset is
          MaxEdits    \* bound: edits of the file while it is in use

ASSUME ClassAssumption == Class \in {32, 64}
ASSUME PageAssumption == PageSize \in Nat /\ PageSize >= 64
ASSUME VersionsAssumption ==
    \A v \in Versions :
       /\ v.size \in Nat
       /\ v.phoff \in Nat /\ v.shoff \in Nat
       /\ v.phnum \in Nat /\ v.shnum \in Nat /\ v.shstrndx \in Nat
       /\ \A j \in DOMAIN v.secoff : v.secoff[j] \in Nat
ASSUME StraysAssumption == Strays \subseteq Nat
ASSUME EditsAssumption == MaxEdits \in Nat

(* Sizes and offsets, in bytes, of the structs. *)
EhdrSize == IF Class = 32 THEN 52 ELSE 64
PhdrSize == IF Class = 32 THEN 32 ELSE 56
(* A program header in a file of this class. *)
FilePhdrSize == IF Class = 32 THEN 32 ELSE 56
(* Where each header field ends. *)
FieldEnd == IF Class = 32
            THEN [phoff |-> 32, shoff |-> 36, phnum |-> 46, shnum |-> 50, shstrndx |-> 52]
            ELSE [phoff |-> 40, shoff |-> 48, phnum |-> 58, shnum |-> 62, shstrndx |-> 64]
(* The section headers of a file of this class, and those the code reads:  *)
(* both elf32_shdr_t and elf64_shdr_t are the 32 bit struct.               *)
FileShdrSize == IF Class = 32 THEN 40 ELSE 64
FileOffsetField == IF Class = 32 THEN 16 ELSE 24
ShdrSize == 40
ShdrOffsetField == 16

ZeroHeader == [phoff |-> 0, shoff |-> 0, phnum |-> 0, shnum |-> 0, shstrndx |-> 0]
HeaderFields == DOMAIN ZeroHeader
NoView == [off |-> 0, n |-> 0]
NoTable == -1

VARIABLES
    disk,         \* the version of the file now
    edits,        \* edits so far
    since,        \* history: versions the file has had since its length was read
    pc,           \* the next step of the constructor, or how it ended
    owner,        \* the member that owns the descriptor: file_fd, file_map, none
    length,       \* what fstat said; file_map's len
    mapped,       \* file_map has an address
    header,       \* _header
    copied,       \* the fields of _header that the copy of it has reached
    pheaders,     \* _pheaders, as an offset into the map and a number of entries
    sheaders,     \* _sheaders
    strtbl,       \* _strtbl, as an offset into the map
    constructed   \* _constructed

world == <<disk, edits, since>>
views == <<pheaders, sheaders, strtbl>>
object == <<owner, length, mapped, header, copied, pheaders, sheaders, strtbl, constructed>>
vars == <<disk, edits, since, pc, owner, length, mapped, header, copied, pheaders,
          sheaders, strtbl, constructed>>

Init == /\ disk \in Versions
        /\ edits = 0
        /\ since = {}
        /\ pc = "open"
        /\ owner = "none"
        /\ length = 0
        /\ mapped = FALSE
        /\ header = ZeroHeader
        /\ copied = {}
        /\ pheaders = NoView
        /\ sheaders = NoView
        /\ strtbl = NoTable
        /\ constructed = TRUE

-----------------------------------------------------------------------------
(* Reading the mapped file.                                                *)

RoundUp(n) == ((n + PageSize - 1) \div PageSize) * PageSize

(* An access to w bytes at offset off may fault beyond the mapping and does *)
(* fault on a page beyond the end of the file.                             *)
MayFault(off, w) == off + w > RoundUp(length) \/ off + w > RoundUp(disk.size)
MustFault(off, w) == off + w <= RoundUp(length) /\ off + w > RoundUp(disk.size)

(* Behind the end of the file its last page is zero. *)
Field(name) == IF FieldEnd[name] <= disk.size THEN disk[name] ELSE 0

(* What a word of the mapped file can be read as. *)
Words(off) ==
    IF off + 4 > RoundUp(length) THEN Strays
    ELSE IF off + 4 > disk.size THEN {0}
    ELSE LET Here == {j \in DOMAIN disk.secoff :
                        off = disk.shoff + FileShdrSize * j + FileOffsetField}
         IN  IF Here # {} THEN {disk.secoff[j] : j \in Here} ELSE Strays

-----------------------------------------------------------------------------
(* The constructor.                                                        *)

(* _file_fd{_file.c_str(), O_RDONLY} *)
Open == /\ pc = "open"
        /\ pc' = "fstat"
        /\ owner' \in {"none", "file_fd"}
        /\ UNCHANGED <<world, length, mapped, header, copied, views, constructed>>

(* _file_fd.map(PROT_READ) asks for the length first, ... *)
Fstat == /\ pc = "fstat"
         /\ pc' = "mmap"
         /\ length' \in (IF owner = "file_fd" THEN {disk.size, 0} ELSE {0})
         /\ since' = {disk}
         /\ UNCHANGED <<disk, edits, owner, mapped, header, copied, views, constructed>>

(* Faulty: the constructor goes on with a mapping that is not valid. *)
MmapUnchecked ==
        /\ pc = "mmap"
        /\ owner' = IF owner = "file_fd" THEN "file_map" ELSE "none"
        /\ mapped' \in (IF owner = "file_fd" /\ length > 0 THEN BOOLEAN ELSE {FALSE})
        /\ pc' = IF mapped' THEN "copy" ELSE "done"
        /\ UNCHANGED <<world, length, header, copied, views, constructed>>

(* Faulty: when the mapping fails its descriptor is given back at once. *)
MmapCloses ==
        /\ pc = "mmap"
        /\ mapped' \in (IF owner = "file_fd" /\ length > 0 THEN BOOLEAN ELSE {FALSE})
        /\ owner' = IF mapped' THEN "file_map" ELSE "none"
        /\ constructed' = mapped'
        /\ pc' = IF mapped' THEN "copy" ELSE "done"
        /\ UNCHANGED <<world, length, header, copied, views>>

(* Faulty: an empty file is not handed on to be mapped. *)
MmapSkipsEmpty ==
        /\ pc = "mmap"
        /\ owner' = IF owner = "file_fd" /\ length > 0 THEN "file_map" ELSE owner
        /\ mapped' \in (IF owner = "file_fd" /\ length > 0 THEN BOOLEAN ELSE {FALSE})
        /\ constructed' = mapped'
        /\ pc' = IF mapped' THEN "copy" ELSE "done"
        /\ UNCHANGED <<world, length, header, copied, views>>

(* ... then moves the descriptor, if there is one, into a mapping; the     *)
(* constructor gives up unless that is valid.                              *)
Mmap == /\ pc = "mmap"
        /\ owner' = IF owner = "file_fd" THEN "file_map" ELSE "none"
        /\ mapped' \in (IF owner = "file_fd" /\ length > 0 THEN BOOLEAN ELSE {FALSE})
        /\ constructed' = mapped'
        /\ pc' = IF mapped' THEN "copy" ELSE "done"
        /\ UNCHANGED <<world, length, header, copied, views>>

(* _header = _file_map.at<ehdr_t>(0): each field at a moment of its own. *)
CopyField(name) ==
    /\ pc = "copy"
    /\ name \notin copied
    /\ IF MayFault(0, FieldEnd[name])
       THEN /\ pc' = "fault"
            /\ UNCHANGED <<header, copied>>
       ELSE /\ header' = [header EXCEPT ![name] = Field(name)]
            /\ copied' = copied \cup {name}
            /\ pc' = IF copied' = HeaderFields THEN "pheaders" ELSE "copy"
    /\ UNCHANGED <<world, owner, length, mapped, views, constructed>>

CopyHeader == \E name \in HeaderFields : CopyField(name)

Pheaders ==
    /\ pc = "pheaders"
    /\ pc' = "sheaders"
    /\ pheaders' = IF header.phnum > 0 /\ header.phoff < length
                   THEN [off |-> header.phoff, n |-> header.phnum] ELSE NoView
    /\ UNCHANGED <<world, owner, length, mapped, header, copied, sheaders, strtbl, constructed>>

(* Faulty: the last entry is left out. *)
SheadersOneShort ==
    /\ pc = "sheaders"
    /\ IF header.shnum > 0 /\ header.shoff < length
       THEN /\ sheaders' = [off |-> header.shoff, n |-> header.shnum - 1]
            /\ pc' = "strtbl"
       ELSE /\ UNCHANGED sheaders
            /\ pc' = "done"
    /\ UNCHANGED <<world, owner, length, mapped, header, copied, pheaders, strtbl, constructed>>

(* Faulty: the offset is not checked, so that at() throws. *)
SheadersUnchecked ==
    /\ pc = "sheaders"
    /\ IF header.shnum > 0
       THEN /\ sheaders' = [off |-> header.shoff, n |-> header.shnum]
            /\ pc' = IF header.shoff < length THEN "strtbl" ELSE "terminate"
       ELSE /\ UNCHANGED sheaders
            /\ pc' = "done"
    /\ UNCHANGED <<world, owner, length, mapped, header, copied, pheaders, strtbl, constructed>>

Sheaders ==
    /\ pc = "sheaders"
    /\ IF header.shnum > 0 /\ header.shoff < length
       THEN /\ sheaders' = [off |-> header.shoff, n |-> header.shnum]
            /\ pc' = "strtbl"
       ELSE /\ UNCHANGED sheaders
            /\ pc' = "done"
    /\ UNCHANGED <<world, owner, length, mapped, header, copied, pheaders, strtbl, constructed>>

(* Faulty: the entry before it. *)
StrtblFieldBefore == sheaders.off + ShdrSize * (header.shstrndx - 1) + ShdrOffsetField

(* Where _sheaders[_header.shstrndx()].offset() is read. *)
StrtblField == sheaders.off + ShdrSize * header.shstrndx + ShdrOffsetField

(* Faulty: the index is compared with the other table's size. *)
StrtblWrongCount ==
    /\ pc = "strtbl"
    /\ \/ /\ header.shstrndx >= header.phnum
          /\ pc' = "done"
          /\ UNCHANGED strtbl
       \/ /\ header.shstrndx < header.phnum
          /\ ~MustFault(StrtblField, 4)
          /\ \E word \in Words(StrtblField) :
                strtbl' = IF word < length THEN word ELSE NoTable
          /\ pc' = "done"
    /\ UNCHANGED <<world, owner, length, mapped, header, copied, pheaders, sheaders, constructed>>

(* The index is compared with the length of the file.  The span's own      *)
(* check throws, and the constructor is noexcept.                          *)
Strtbl ==
    /\ pc = "strtbl"
    /\ \/ /\ header.shstrndx >= length
          /\ pc' = "done"
          /\ UNCHANGED strtbl
       \/ /\ header.shstrndx < length
          /\ header.shstrndx >= sheaders.n
          /\ pc' = "terminate"
          /\ UNCHANGED strtbl
       \/ /\ header.shstrndx < length
          /\ header.shstrndx < sheaders.n
          /\ MayFault(StrtblField, 4)
          /\ pc' = "fault"
          /\ UNCHANGED strtbl
       \/ /\ header.shstrndx < length
          /\ header.shstrndx < sheaders.n
          /\ ~MustFault(StrtblField, 4)
          /\ \E word \in Words(StrtblField) :
                strtbl' = IF word < length THEN word ELSE NoTable
          /\ pc' = "done"
    /\ UNCHANGED <<world, owner, length, mapped, header, copied, pheaders, sheaders, constructed>>

Load == Open \/ Fstat \/ Mmap \/ CopyHeader \/ Pheaders \/ Sheaders \/ Strtbl

-----------------------------------------------------------------------------
(* The rest of the world.                                                  *)

Edit == /\ edits < MaxEdits
        /\ edits' = edits + 1
        /\ \E v \in Versions \ {disk} : /\ disk' = v
                                        /\ since' = since \cup {v}
        /\ UNCHANGED <<pc, object>>

(* A client reads an entry of pheaders() or sheaders(), or asks for a       *)
(* section_name(); only an access that faults changes anything.           *)
ClientReads(off, w) ==
    /\ pc = "done"
    /\ MayFault(off, w)
    /\ pc' = "fault"
    /\ UNCHANGED <<world, object>>

ReadPheader == \E i \in 0..(pheaders.n - 1) : ClientReads(pheaders.off + PhdrSize * i, PhdrSize)
ReadSheader == \E i \in 0..(sheaders.n - 1) : ClientReads(sheaders.off + ShdrSize * i, ShdrSize)
(* A name within the map: its bytes are between these two. *)
SectionName == /\ strtbl # NoTable
               /\ \E off \in {strtbl, length - 1} : ClientReads(off, 1)

(* A client that has a section header asks for its name, and _strtbl is     *)
(* null: the code adds to it and reads.                                    *)
NullName == /\ pc = "done"
            /\ sheaders.n > 0
            /\ strtbl = NoTable
            /\ pc' = "null name"
            /\ UNCHANGED <<world, object>>

Next == Load \/ Edit \/ ReadPheader \/ ReadSheader \/ SectionName \/ NullName

Spec == Init /\ [][Next]_vars
-----------------------------------------------------------------------------
(* Correctness.                                                            *)

Phases == {"open", "fstat", "mmap", "copy", "pheaders",
           "sheaders", "strtbl", "done", "terminate", "fault", "null name"}

TypeOK == /\ disk \in Versions
          /\ edits \in 0..MaxEdits
          /\ since \subseteq Versions
          /\ pc \in Phases
          /\ owner \in {"none", "file_fd", "file_map"}
          /\ length \in {v.size : v \in Versions} \cup {0}
          /\ mapped \in BOOLEAN
          /\ header \in [phoff : Nat, shoff : Nat, phnum : Nat, shnum : Nat, shstrndx : Nat]
          /\ copied \subseteq HeaderFields
          /\ pheaders \in [off : Nat, n : Nat]
          /\ sheaders \in [off : Nat, n : Nat]
          /\ strtbl = NoTable \/ strtbl \in Nat
          /\ constructed \in BOOLEAN

(* The tables lie in the file, and so does every section. *)
WellFormed(v) ==
    /\ EhdrSize <= v.size
    /\ v.phnum > 0 => v.phoff + PhdrSize * v.phnum <= v.size
    /\ v.shnum > 0 => /\ v.shoff + FileShdrSize * v.shnum <= v.size
                      /\ v.shstrndx < v.shnum
    /\ DOMAIN v.secoff = 0..(v.shnum - 1)
    /\ \A j \in DOMAIN v.secoff : v.secoff[j] < v.size

SameHeader(v, w) == \A name \in HeaderFields : v[name] = w[name]

(* A well-formed file that at most grows or has its sections moved while   *)
(* it is in use is loaded without a throw in the noexcept constructor, and *)
(* no access of the constructor or of a client through the views faults:   *)
(* what was checked against the length at the start still holds when used. *)
Steady ==
    /\ \A v \in since : WellFormed(v) /\ v.size >= length
    /\ \A v, w \in since : SameHeader(v, w)

WellFormedNeverFails == Steady => pc \notin {"fault", "terminate"}

(* In such a file every section has a name that can be asked for, as long  *)
(* as the name table is not moved behind the end that the file had when it *)
(* was mapped: nobody is led through a null pointer.                       *)
NamesOfSections ==
    Steady /\ (\A v \in since : v.shnum > 0 => v.secoff[v.shstrndx] < length)
    => pc # "null name"

(* std::terminate is reached only when the section name index of a version *)
(* that was there is not in the section table of a version that was there: *)
(* the checks before each at() keep that from throwing whatever the file   *)
(* says, or comes to say.  If nobody edits the file the two are one; if    *)
(* somebody does, each of them can be a good file.                         *)
TerminateNeedsBadIndex ==
    pc = "terminate" =>
        \E v, w \in since :
            0 < v.shnum /\ v.shnum <= w.shstrndx /\ w.shstrndx < length

(* A file that is refused leaves a blank object, whose only resource is    *)
(* the descriptor of a mapping that failed; one that is not refused has a  *)
(* live mapping under its views.                                           *)
RefusedIsBlank ==
    pc = "done" =>
        /\ constructed = mapped
        /\ owner # "file_fd"
        /\ ~constructed => /\ header = ZeroHeader
                           /\ pheaders = NoView /\ sheaders = NoView /\ strtbl = NoTable
        /\ constructed => owner = "file_map" /\ length > 0

(* Of a well-formed file that nobody edits the loader has exactly the two  *)
(* tables and the section name string table.                               *)
Undisturbed(v) == pc = "done" /\ mapped /\ since = {v} /\ WellFormed(v)

SectionNameTable ==
    \A v \in since :
        Undisturbed(v) =>
            strtbl = IF v.shnum > 0 THEN v.secoff[v.shstrndx] ELSE NoTable

(* Each entry of a view is where the file has that entry. *)
ProgramHeaders ==
    \A v \in since :
        Undisturbed(v) =>
            /\ pheaders.n = v.phnum
            /\ \A i \in 0..(v.phnum - 1) :
                  pheaders.off + PhdrSize * i = v.phoff + FilePhdrSize * i

SectionHeaders ==
    \A v \in since :
        Undisturbed(v) =>
            /\ sheaders.n = v.shnum
            /\ \A i \in 0..(v.shnum - 1) :
                  sheaders.off + ShdrSize * i = v.shoff + FileShdrSize * i

ViewsAreTables == ProgramHeaders /\ SectionHeaders /\ SectionNameTable

-----------------------------------------------------------------------------
(* For the rest of the program the constructor is one step.  There is an   *)
(* object once it is done: what it keeps of the file is then one of the    *)
(* outcomes that ElfObj has for a load, however the file was edited        *)
(* meanwhile.  A fault ends the process, and the kernel takes back what    *)
(* the object had.                                                         *)
there == pc = "done"
file(kept) == IF there /\ kept THEN "file" ELSE "none"
from == [header   |-> file(mapped),
         pheaders |-> file(pheaders.n > 0),
         sheaders |-> file(sheaders.n > 0),
         strtbl   |-> file(strtbl # NoTable)]
Objects == INSTANCE ElfObj WITH
               Objs <- {"elf"}, Files <- {"file"}, None <- "none", Settable <- {},
               held <- {"file"} \cap {file(owner # "none")},
               mapped <- {"file"} \cap {file(mapped)},
               alive <- IF there THEN {"elf"} ELSE {},
               map <- [o \in {"elf"} |-> file(owner = "file_map")],
               from <- [o \in {"elf"} |-> from],
               constructed <- [o \in {"elf"} |-> there /\ constructed],
               disturbed <- {}
ImplementsObjects == Objects!Spec

(* Its members _file_fd and _file_map are wrappers as Handles has them: it *)
(* opens, and maps at most once, with what fstat said.  The file is one    *)
(* page here, if it has a length, and descriptor 3.                        *)
Mapping == pc \notin {"open", "fstat", "mmap"}
Wrappers == INSTANCE Handles WITH
                FdObjs <- {"file_fd"}, MapObjs <- {"file_map"}, Desc <- {3},
                MaxLen <- 1, LowPage <- 1, MaxPage <- 1, Image <- {},
                open <- IF owner = "none" THEN {} ELSE {3},
                mapped <- IF mapped THEN {1} ELSE {},
                foreign <- {},
                alive <- IF pc = "open" THEN {}
                         ELSE IF Mapping THEN {"file_fd", "file_map"} ELSE {"file_fd"},
                fd <- [x \in {"file_fd", "file_map"} |-> IF owner = x THEN 3 ELSE -1],
                eof <- [o \in {"file_fd"} |-> FALSE],
                addr <- [m \in {"file_map"} |-> IF mapped THEN 1 ELSE 0],
                len <- [m \in {"file_map"} |->
                          IF owner = "file_map" /\ length > 0 THEN 1 ELSE 0],
                sawEnd <- {}, swept <- 0, unwinding <- FALSE
ImplementsWrappers == Wrappers!Spec
=============================================================================
