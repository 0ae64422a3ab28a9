--------------------------- MODULE ElfLoadProofs ---------------------------
(* Theorems about ElfLoad, for any set of versions that a file can have,   *)
(* any number of edits and any page size.                                  *)
EXTENDS ElfLoad, TLAPS

-----------------------------------------------------------------------------
(* Facts about the operators the loader is built from.                     *)

LEMMA Division ==
    ASSUME NEW k \in Nat, NEW p \in Nat, p > 0
    PROVE  /\ k \div p \in Nat
           /\ p * (k \div p) <= k
           /\ k < p * (k \div p) + p
<1>1. k \div p \in Nat /\ k % p \in 0..(p - 1)
  OBVIOUS
<1>2. k = p * (k \div p) + (k % p)
  BY Z3
<1> QED BY <1>1, <1>2

LEMMA RoundUpFact ==
    ASSUME NEW n \in Nat
    PROVE  RoundUp(n) \in Nat /\ RoundUp(n) >= n
<1>1. PageSize \in Nat /\ PageSize > 0 /\ n + PageSize - 1 \in Nat
  BY PageAssumption
<1> DEFINE q == (n + PageSize - 1) \div PageSize
<1>2. q \in Nat /\ n + PageSize - 1 < PageSize * q + PageSize
  BY <1>1, Division
<1>3. RoundUp(n) = q * PageSize
  BY DEF RoundUp
<1> HIDE DEF q
<1>4. q * PageSize = PageSize * q /\ q * PageSize \in Nat
  BY <1>1, <1>2
<1> QED BY <1>1, <1>2, <1>3, <1>4

(* What lies in the file as it was mapped, and still is there, is read     *)
(* without a fault.                                                        *)
LEMMA InsideIsSafe ==
    ASSUME length \in Nat, disk.size \in Nat, length <= disk.size,
           NEW off \in Nat, NEW w \in Nat, off + w <= length
    PROVE  ~MayFault(off, w)
BY RoundUpFact DEF MayFault

LEMMA SizesFact ==
    /\ HeaderFields = {"phoff", "shoff", "phnum", "shnum", "shstrndx"}
    /\ EhdrSize \in Nat /\ PhdrSize \in Nat /\ FileShdrSize \in Nat
    /\ \A name \in DOMAIN FieldEnd : FieldEnd[name] \in Nat /\ FieldEnd[name] <= EhdrSize
    /\ DOMAIN FieldEnd = {"phoff", "shoff", "phnum", "shnum", "shstrndx"}
    /\ ShdrSize = 40 /\ ShdrOffsetField = 16
    /\ PhdrSize \in {32, 56} /\ FileShdrSize \in {40, 64}
    /\ Class = 32 => FileShdrSize = 40 /\ FileOffsetField = 16
    /\ FilePhdrSize = PhdrSize
BY ClassAssumption DEF EhdrSize, PhdrSize, FilePhdrSize, FileShdrSize, FileOffsetField, FieldEnd,
                       ShdrSize, ShdrOffsetField, HeaderFields, ZeroHeader

(* Entry i of a table of n entries lies in the table. *)
LEMMA EntryInside ==
    ASSUME NEW s \in {32, 40, 56}, NEW f \in {32, 40, 56, 64}, s <= f,
           NEW n \in Nat, NEW i \in 0..(n - 1)
    PROVE  s * i + s <= f * n /\ s * i \in Nat
<1>1. s * i + s <= s * n /\ s * n <= f * n /\ s * i \in Nat
  <2>1. CASE s = 32
    BY <2>1
  <2>2. CASE s = 40
    BY <2>2
  <2>3. CASE s = 56
    BY <2>3
  <2> QED BY <2>1, <2>2, <2>3
<1>2. s * i \in Int /\ s * n \in Int /\ f * n \in Int
  OBVIOUS
<1> QED BY <1>1, <1>2

-----------------------------------------------------------------------------
(* The members and the phases of the constructor have the types TypeOK     *)
(* gives them, whatever the file says.                                     *)
LEMMA FieldType ==
    ASSUME TypeOK, NEW name \in HeaderFields
    PROVE  Field(name) \in Nat
BY VersionsAssumption, SizesFact DEF Field, TypeOK

LEMMA WordType ==
    ASSUME TypeOK, NEW off, NEW word \in Words(off)
    PROVE  word \in Nat
<1>1. disk \in Versions
  BY DEF TypeOK
<1>2. \A j \in DOMAIN disk.secoff : disk.secoff[j] \in Nat
  BY <1>1, VersionsAssumption
<1>3. word \in Strays \/ word = 0 \/ \E j \in DOMAIN disk.secoff : word = disk.secoff[j]
  BY DEF Words
<1>4. CASE word \in Strays
  BY <1>4, StraysAssumption
<1>5. CASE word = 0
  BY <1>5
<1>6. CASE \E j \in DOMAIN disk.secoff : word = disk.secoff[j]
  BY <1>2, <1>6, Zenon
<1> QED BY <1>3, <1>4, <1>5, <1>6

(* The section name index of a well-formed file is in its section table. *)
LEMMA NameSection ==
    ASSUME NEW v \in Versions, WellFormed(v), v.shnum > 0
    PROVE  v.shstrndx \in DOMAIN v.secoff /\ v.secoff[v.shstrndx] \in Nat
<1>1. /\ DOMAIN v.secoff = 0..(v.shnum - 1) /\ v.shstrndx < v.shnum
      /\ v.shstrndx \in Nat /\ v.shnum \in Nat
  BY VersionsAssumption DEF WellFormed
<1>2. v.shstrndx \in DOMAIN v.secoff
  BY <1>1
<1> QED BY <1>2, VersionsAssumption

LEMMA LengthType ==
    ASSUME TypeOK PROVE length \in Nat
BY VersionsAssumption DEF TypeOK

THEOREM TypeCorrect == Spec => []TypeOK
<1>1. Init => TypeOK
  <2> SUFFICES ASSUME Init PROVE TypeOK
    OBVIOUS
  <2>1. header \in [phoff : Nat, shoff : Nat, phnum : Nat, shnum : Nat, shstrndx : Nat]
    BY DEF Init, ZeroHeader
  <2>2. pheaders \in [off : Nat, n : Nat] /\ sheaders \in [off : Nat, n : Nat]
    BY DEF Init, NoView
  <2>3. /\ disk \in Versions /\ since \subseteq Versions /\ edits \in 0..MaxEdits
        /\ length \in {v.size : v \in Versions} \cup {0}
    BY EditsAssumption DEF Init
  <2>5. copied \subseteq HeaderFields
    BY DEF Init
  <2>4. /\ pc \in Phases /\ owner \in {"none", "file_fd", "file_map"}
        /\ mapped \in BOOLEAN /\ constructed \in BOOLEAN /\ strtbl = NoTable
    BY DEF Init, Phases
  <2> QED BY <2>1, <2>2, <2>3, <2>4, <2>5 DEF TypeOK
<1>2. TypeOK /\ [Next]_vars => TypeOK'
  <2> SUFFICES ASSUME TypeOK, [Next]_vars PROVE TypeOK'
    OBVIOUS
  <2> USE DEF world, views, object
  <2>h. /\ header.phoff \in Nat /\ header.shoff \in Nat /\ header.phnum \in Nat
        /\ header.shnum \in Nat /\ header.shstrndx \in Nat
    BY DEF TypeOK
  <2>1. ASSUME Open PROVE TypeOK'
    BY <2>1 DEF Open, TypeOK, Phases
  <2>2. ASSUME Fstat PROVE TypeOK'
    BY <2>2 DEF Fstat, TypeOK, Phases
  <2>3. ASSUME Mmap PROVE TypeOK'
    BY <2>3 DEF Mmap, TypeOK, Phases
  <2>4. ASSUME NEW name \in HeaderFields, CopyField(name) PROVE TypeOK'
    <3>1. Field(name) \in Nat
      BY FieldType
    <3>2. header' \in [phoff : Nat, shoff : Nat, phnum : Nat, shnum : Nat, shstrndx : Nat]
      BY <2>4, <3>1, SizesFact DEF CopyField, TypeOK
    <3> QED BY <2>4, <3>2 DEF CopyField, TypeOK, Phases
  <2>6. ASSUME Pheaders PROVE TypeOK'
    <3>1. pheaders' \in [off : Nat, n : Nat]
      BY <2>6, <2>h DEF Pheaders, NoView
    <3> QED BY <2>6, <3>1 DEF Pheaders, TypeOK, Phases
  <2>7. ASSUME Sheaders PROVE TypeOK'
    <3>1. sheaders' \in [off : Nat, n : Nat]
      BY <2>7, <2>h DEF Sheaders, TypeOK
    <3> QED BY <2>7, <3>1 DEF Sheaders, TypeOK, Phases
  <2>8. ASSUME Strtbl PROVE TypeOK'
    <3>1. strtbl' = NoTable \/ strtbl' \in Nat
      BY <2>8, WordType DEF Strtbl, TypeOK
    <3>2. pc' \in Phases
      BY <2>8 DEF Strtbl, Phases
    <3> QED BY <2>8, <3>1, <3>2 DEF Strtbl, TypeOK
  <2>9. ASSUME Edit PROVE TypeOK'
    BY <2>9, EditsAssumption DEF Edit, TypeOK
  <2>10. ASSUME NEW off, NEW w, ClientReads(off, w) PROVE TypeOK'
    BY <2>10 DEF ClientReads, TypeOK, Phases
  <2>11. ASSUME ReadPheader \/ ReadSheader \/ SectionName PROVE TypeOK'
    BY <2>10, <2>11 DEF ReadPheader, ReadSheader, SectionName
  <2>12. ASSUME NullName PROVE TypeOK'
    BY <2>12 DEF NullName, TypeOK, Phases
  <2>13. ASSUME UNCHANGED vars PROVE TypeOK'
    BY <2>13 DEF vars, TypeOK
  <2> QED BY <2>1, <2>2, <2>3, <2>4, <2>6, <2>7, <2>8, <2>9, <2>11, <2>12, <2>13
          DEF Next, Load, CopyHeader
<1> QED BY <1>1, <1>2, PTL DEF Spec

-----------------------------------------------------------------------------
(* How far the object is at each step of the constructor, and what of the  *)
(* file's history is known of it.                                          *)
Loading == {"copy", "pheaders", "sheaders", "strtbl"}

Blank == /\ header = ZeroHeader /\ copied = {}
         /\ pheaders = NoView /\ sheaders = NoView /\ strtbl = NoTable

Progress ==
    /\ pc \in {"open", "fstat"} => length = 0
    /\ pc \notin {"open", "fstat"} => disk \in since
    /\ length > 0 => \E v \in since : v.size = length
    /\ pc = "open" => owner = "none"
    /\ pc \in {"open", "fstat", "mmap"} => ~mapped /\ constructed
    /\ pc \in Loading \cup {"fault", "terminate", "null name"} => mapped
    /\ mapped => length > 0 /\ owner = "file_map" /\ constructed
    /\ ~mapped => Blank
    /\ pc = "done" /\ ~mapped => ~constructed /\ owner # "file_fd"
    /\ pc \in Loading => strtbl = NoTable
    /\ pc \in Loading \ {"sheaders", "strtbl"} => pheaders = NoView
    /\ pc \in Loading \ {"strtbl"} => sheaders = NoView

(* Without a mapping there is nothing to look at. *)
LEMMA NothingToRead ==
    ASSUME Progress, ~mapped
    PROVE  pheaders.n = 0 /\ sheaders.n = 0 /\ strtbl = NoTable
<1>1. pheaders = NoView /\ sheaders = NoView /\ strtbl = NoTable
  BY DEF Progress, Blank
<1> QED BY <1>1 DEF NoView

LEMMA ProgressStep ==
    ASSUME TypeOK, TypeOK', Progress, [Next]_vars
    PROVE  Progress'
<1> USE DEF world, views, object, Loading, Blank
<1>l. length \in Nat
  BY LengthType
<1>1. ASSUME Open PROVE Progress'
  BY <1>1 DEF Open, Progress
<1>2. ASSUME Fstat PROVE Progress'
  BY <1>2 DEF Fstat, Progress
<1>3. ASSUME Mmap PROVE Progress'
  BY <1>3 DEF Mmap, Progress, TypeOK
<1>4. ASSUME NEW name \in HeaderFields, CopyField(name) PROVE Progress'
  BY <1>4 DEF CopyField, Progress
<1>6. ASSUME Pheaders PROVE Progress'
  BY <1>6 DEF Pheaders, Progress
<1>7. ASSUME Sheaders PROVE Progress'
  BY <1>7 DEF Sheaders, Progress
<1>8. ASSUME Strtbl PROVE Progress'
  BY <1>8 DEF Strtbl, Progress
<1>9. ASSUME Edit PROVE Progress'
  BY <1>9 DEF Edit, Progress
<1>10. ASSUME NEW off, NEW w, ClientReads(off, w), mapped PROVE Progress'
  BY <1>10 DEF ClientReads, Progress
<1>11. ASSUME ReadPheader \/ ReadSheader \/ SectionName PROVE Progress'
  <2>1. ASSUME ~mapped PROVE FALSE
    <3>1. pheaders.n = 0 /\ sheaders.n = 0 /\ strtbl = NoTable
      BY <2>1, NothingToRead
    <3> QED BY <3>1, <1>11 DEF ReadPheader, ReadSheader, SectionName
  <2> QED BY <2>1, <1>10, <1>11 DEF ReadPheader, ReadSheader, SectionName
<1>12. ASSUME NullName PROVE Progress'
  <2>1. ASSUME ~mapped PROVE FALSE
    <3>1. sheaders.n = 0
      BY <2>1, NothingToRead
    <3>2. sheaders.n > 0
      BY <1>12 DEF NullName
    <3> QED BY <3>1, <3>2
  <2> QED BY <2>1, <1>12 DEF NullName, Progress
<1>13. ASSUME UNCHANGED vars PROVE Progress'
  BY <1>13 DEF vars, Progress
<1> QED BY <1>1, <1>2, <1>3, <1>4, <1>6, <1>7, <1>8, <1>9, <1>11, <1>12, <1>13
        DEF Next, Load, CopyHeader

LEMMA ProgressCorrect == Spec => [](TypeOK /\ Progress)
<1>1. Init => Progress
  BY DEF Init, Progress, Loading, Blank
<1>2. TypeOK /\ TypeOK' /\ Progress /\ [Next]_vars => Progress'
  BY ProgressStep
<1> QED BY <1>1, <1>2, TypeCorrect, PTL DEF Spec

(* A refused file leaves nothing behind but, at most, the descriptor of a  *)
(* failed mapping; whatever the file is and however it is edited.          *)
THEOREM RefusedIsBlankCorrect == Spec => []RefusedIsBlank
<1>1. TypeOK /\ Progress => RefusedIsBlank
  BY DEF TypeOK, Progress, RefusedIsBlank, Blank
<1> QED BY <1>1, ProgressCorrect, PTL

-----------------------------------------------------------------------------
(* Each field of the header is that of some version the file has had, not  *)
(* all of the same one, or 0: not yet copied, or not there to be copied.   *)
Torn ==
    /\ \A name \in HeaderFields :
          header[name] = 0 \/ \E v \in since : header[name] = v[name]
    /\ pc = "strtbl" => sheaders.n = header.shnum /\ header.shnum > 0
    /\ TerminateNeedsBadIndex

LEMMA TornStep ==
    ASSUME TypeOK, Progress, Torn, [Next]_vars
    PROVE  Torn'
<1> USE DEF world, views, object, TerminateNeedsBadIndex
<1>h. /\ header.shnum \in Nat /\ header.shstrndx \in Nat
      /\ \A v \in since : v.shnum \in Nat /\ v.shstrndx \in Nat
  BY VersionsAssumption DEF TypeOK
<1>1. ASSUME Open \/ Mmap PROVE Torn'
  BY <1>1 DEF Open, Mmap, Torn
<1>0. ASSUME Fstat PROVE Torn'
  <2>1. header = ZeroHeader /\ header' = header /\ pc' = "mmap"
    BY <1>0 DEF Fstat, Progress, Blank
  <2> QED BY <2>1 DEF Torn, ZeroHeader, HeaderFields
<1>2. ASSUME NEW name \in HeaderFields, CopyField(name) PROVE Torn'
  <2>1. CASE pc' = "fault"
    BY <2>1, <1>2 DEF CopyField, Torn
  <2>2. CASE pc' # "fault"
    <3>1. /\ header' = [header EXCEPT ![name] = Field(name)]
          /\ pc' \in {"copy", "pheaders"} /\ since' = since
      BY <2>2, <1>2 DEF CopyField
    <3>2. disk \in since
      BY <1>2 DEF CopyField, Progress
    <3>3. Field(name) = 0 \/ Field(name) = disk[name]
      BY DEF Field
    <3>4. \A other \in HeaderFields :
             header'[other] = IF other = name THEN Field(name) ELSE header[other]
      BY <3>1, SizesFact DEF TypeOK
    <3> QED BY <3>1, <3>2, <3>3, <3>4 DEF Torn
  <2> QED BY <2>1, <2>2
<1>3. ASSUME Pheaders PROVE Torn'
  BY <1>3 DEF Pheaders, Torn
<1>4. ASSUME Sheaders PROVE Torn'
  BY <1>4 DEF Sheaders, Torn
<1>5. ASSUME Strtbl PROVE Torn'
  <2>1. /\ header.shnum = 0 \/ \E v \in since : header.shnum = v.shnum
        /\ header.shstrndx = 0 \/ \E w \in since : header.shstrndx = w.shstrndx
    BY SizesFact DEF Torn
  <2>2. sheaders.n = header.shnum /\ header.shnum > 0
    BY <1>5 DEF Strtbl, Torn
  <2>3. pc' = "terminate" => header.shstrndx >= sheaders.n /\ header.shstrndx < length
    BY <1>5 DEF Strtbl
  <2>4. /\ since' = since /\ length' = length /\ header' = header
        /\ pc' \in {"done", "terminate", "fault"}
    BY <1>5 DEF Strtbl
  <2>5. TerminateNeedsBadIndex'
    <3> SUFFICES ASSUME pc' = "terminate"
                 PROVE  \E v, w \in since :
                           0 < v.shnum /\ v.shnum <= w.shstrndx /\ w.shstrndx < length
      BY <2>4
    <3>1. PICK v \in since : header.shnum = v.shnum
      BY <2>1, <2>2
    <3>2. PICK w \in since : header.shstrndx = w.shstrndx
      BY <2>1, <2>2, <2>3, <1>h
    <3> QED BY <3>1, <3>2, <2>2, <2>3
  <2> QED BY <2>4, <2>5 DEF Torn
<1>6. ASSUME Edit PROVE Torn'
  <2>1. /\ since \subseteq since' /\ pc' = pc /\ header' = header /\ sheaders' = sheaders
        /\ length' = length
    BY <1>6 DEF Edit
  <2> QED BY <2>1 DEF Torn
<1>7. ASSUME ReadPheader \/ ReadSheader \/ SectionName \/ NullName PROVE Torn'
  BY <1>7 DEF ReadPheader, ReadSheader, SectionName, NullName, ClientReads, Torn
<1>8. ASSUME UNCHANGED vars PROVE Torn'
  BY <1>8 DEF vars, Torn
<1> QED BY <1>0, <1>1, <1>2, <1>3, <1>4, <1>5, <1>6, <1>7, <1>8 DEF Next, Load, CopyHeader

(* The noexcept constructor ends the program only where one version of the *)
(* file had a section name index that is outside the section table of      *)
(* another or of its own, wherever an edit cut the copy of the header.     *)
THEOREM TerminateNeedsBadIndexCorrect == Spec => []TerminateNeedsBadIndex
<1>1. Init => Torn
  BY DEF Init, Torn, TerminateNeedsBadIndex, ZeroHeader, HeaderFields
<1>2. TypeOK /\ Progress /\ Torn /\ [Next]_vars => Torn'
  BY TornStep
<1>3. Torn => TerminateNeedsBadIndex
  BY DEF Torn
<1> QED BY <1>1, <1>2, <1>3, ProgressCorrect, PTL DEF Spec

-----------------------------------------------------------------------------
(* A file that stays well formed and at least as long as it was.           *)
NameOffset(v) == IF v.secoff[v.shstrndx] < length THEN v.secoff[v.shstrndx] ELSE NoTable
HasNames == \E v \in since : strtbl = NameOffset(v)
BehindEnd == \E v \in since : v.shnum > 0 /\ ~(v.secoff[v.shstrndx] < length)

SteadyInv ==
    Steady /\ mapped =>
       /\ pc \notin {"fault", "terminate"}
       /\ pc = "copy" => \A name \in copied : \A v \in since : header[name] = v[name]
       /\ pc # "copy" =>
             \A v \in since : /\ header.phoff = v.phoff /\ header.shoff = v.shoff
                              /\ header.phnum = v.phnum /\ header.shnum = v.shnum
                              /\ header.shstrndx = v.shstrndx
       /\ pc \notin {"copy", "pheaders"} =>
             pheaders = IF header.phnum > 0
                        THEN [off |-> header.phoff, n |-> header.phnum] ELSE NoView
       /\ pc \notin {"copy", "pheaders", "sheaders"} =>
             sheaders = IF header.shnum > 0
                        THEN [off |-> header.shoff, n |-> header.shnum] ELSE NoView
       /\ pc = "strtbl" => header.shnum > 0
       /\ strtbl # NoTable => strtbl < length
       /\ header.shnum = 0 /\ pc = "done" => strtbl = NoTable
       /\ Class = 32 /\ header.shnum > 0 /\ pc = "done" => HasNames
       /\ Class = 32 /\ pc = "null name" => BehindEnd

(* The bounds that the loader relies on hold of the length it has read.    *)
LEMMA SteadyFacts ==
    ASSUME TypeOK, Progress, Steady, mapped
    PROVE  /\ disk \in since /\ disk \in Versions /\ disk.size \in Nat /\ length <= disk.size
           /\ length \in Nat /\ length > 0 /\ EhdrSize <= length
           /\ \A v \in since :
                 /\ v.phnum > 0 => v.phoff + PhdrSize * v.phnum <= length
                 /\ v.shnum > 0 => /\ v.shoff + FileShdrSize * v.shnum <= length
                                   /\ v.shstrndx < v.shnum
<1>1. length > 0 /\ length \in Nat /\ pc \notin {"open", "fstat"} /\ disk \in since
  BY LengthType DEF Progress
<1>2. PICK w \in since : w.size = length
  BY <1>1 DEF Progress
<1>3. WellFormed(w) /\ disk \in Versions /\ length <= disk.size /\ disk.size \in Nat
  BY <1>1, VersionsAssumption DEF Steady, TypeOK
<1>4. ASSUME NEW v \in since
      PROVE  /\ v.phnum = w.phnum /\ v.phoff = w.phoff /\ v.shnum = w.shnum
             /\ v.shoff = w.shoff /\ v.shstrndx = w.shstrndx
  <2>1. SameHeader(v, w)
    BY <1>2 DEF Steady
  <2>2. HeaderFields = {"phoff", "shoff", "phnum", "shnum", "shstrndx"}
    BY SizesFact
  <2> QED BY <2>1, <2>2 DEF SameHeader
<1>5. /\ EhdrSize <= length
      /\ w.phnum > 0 => w.phoff + PhdrSize * w.phnum <= length
      /\ w.shnum > 0 => /\ w.shoff + FileShdrSize * w.shnum <= length
                        /\ w.shstrndx < w.shnum
  BY <1>2, <1>3 DEF WellFormed
<1> QED BY <1>1, <1>3, <1>4, <1>5

LEMMA FieldsThere ==
    ASSUME TypeOK, Progress, Steady, mapped,
           NEW name \in HeaderFields
    PROVE  Field(name) = disk[name] /\ \A v \in since : v[name] = disk[name]
<1>1. FieldEnd[name] \in Nat /\ FieldEnd[name] <= EhdrSize /\ EhdrSize \in Nat
  BY SizesFact
<1>2. disk \in since /\ disk.size \in Nat /\ EhdrSize <= disk.size
  BY SteadyFacts, <1>1
<1>3. FieldEnd[name] <= disk.size
  BY <1>1, <1>2
<1>4. \A v \in since : v[name] = disk[name]
  BY <1>2 DEF Steady, SameHeader
<1> QED BY <1>3, <1>4 DEF Field

(* The views of such a file, entry by entry, are inside what was mapped. *)
LEMMA EntriesSafe ==
    ASSUME TypeOK, Progress, SteadyInv, Steady, mapped, pc = "done"
    PROVE  /\ \A i \in 0..(pheaders.n - 1) : ~MayFault(pheaders.off + PhdrSize * i, PhdrSize)
           /\ \A i \in 0..(sheaders.n - 1) : ~MayFault(sheaders.off + ShdrSize * i, ShdrSize)
           /\ strtbl # NoTable =>
                 \A off \in {strtbl, length - 1} : ~MayFault(off, 1)
<1>1. /\ length \in Nat /\ length > 0 /\ disk.size \in Nat /\ length <= disk.size
      /\ disk \in since
      /\ disk.phnum \in Nat /\ disk.phoff \in Nat /\ disk.shnum \in Nat /\ disk.shoff \in Nat
      /\ disk.phnum > 0 => disk.phoff + PhdrSize * disk.phnum <= length
      /\ disk.shnum > 0 => disk.shoff + FileShdrSize * disk.shnum <= length
  BY SteadyFacts, VersionsAssumption
<1>2. /\ header.phoff = disk.phoff /\ header.phnum = disk.phnum
      /\ header.shoff = disk.shoff /\ header.shnum = disk.shnum
  BY <1>1 DEF SteadyInv
<1>3. ASSUME NEW i \in 0..(pheaders.n - 1)
      PROVE  ~MayFault(pheaders.off + PhdrSize * i, PhdrSize)
  <2>1. disk.phnum > 0 /\ pheaders.off = disk.phoff /\ pheaders.n = disk.phnum
    BY <1>1, <1>2 DEF SteadyInv, NoView
  <2>2. PhdrSize * i + PhdrSize <= PhdrSize * disk.phnum /\ PhdrSize * i \in Nat
    BY <2>1, <1>1, EntryInside, SizesFact
  <2>3. PhdrSize * disk.phnum \in Nat /\ PhdrSize \in Nat
    BY <1>1, SizesFact
  <2>4. disk.phoff + PhdrSize * i \in Nat /\ disk.phoff + PhdrSize * i + PhdrSize <= length
    BY <1>1, <2>1, <2>2, <2>3
  <2> QED BY <2>1, <2>3, <2>4, <1>1, InsideIsSafe
<1>4. ASSUME NEW i \in 0..(sheaders.n - 1)
      PROVE  ~MayFault(sheaders.off + ShdrSize * i, ShdrSize)
  <2>1. disk.shnum > 0 /\ sheaders.off = disk.shoff /\ sheaders.n = disk.shnum
    BY <1>1, <1>2 DEF SteadyInv, NoView
  <2>2. ShdrSize * i + ShdrSize <= FileShdrSize * disk.shnum /\ ShdrSize * i \in Nat
    BY <2>1, <1>1, EntryInside, SizesFact
  <2>3. FileShdrSize * disk.shnum \in Nat /\ ShdrSize \in Nat
    BY <1>1, SizesFact
  <2>4. disk.shoff + ShdrSize * i \in Nat /\ disk.shoff + ShdrSize * i + ShdrSize <= length
    BY <1>1, <2>1, <2>2, <2>3
  <2> QED BY <2>1, <2>3, <2>4, <1>1, InsideIsSafe
<1>5. ASSUME strtbl # NoTable, NEW off \in {strtbl, length - 1} PROVE ~MayFault(off, 1)
  <2>1. strtbl \in Nat /\ strtbl < length
    BY <1>5 DEF SteadyInv, TypeOK
  <2>2. off \in Nat /\ off + 1 <= length
    BY <1>1, <1>5, <2>1
  <2> QED BY <2>2, <1>1, InsideIsSafe
<1> QED BY <1>3, <1>4, <1>5

(* The last step of the constructor neither throws nor faults on such a    *)
(* file, and as elf32_t it finds the name table.                           *)
LEMMA StrtblSteady ==
    ASSUME TypeOK, Progress, Torn, SteadyInv, Steady, mapped, Strtbl
    PROVE  /\ pc' = "done"
           /\ strtbl' # NoTable => strtbl' < length
           /\ Class = 32 => \E v \in since : strtbl' = NameOffset(v)
<1>1. /\ length \in Nat /\ length > 0 /\ disk.size \in Nat /\ length <= disk.size
      /\ disk \in since /\ disk \in Versions
      /\ disk.shnum \in Nat /\ disk.shoff \in Nat /\ disk.shstrndx \in Nat
      /\ disk.shnum > 0 => /\ disk.shoff + FileShdrSize * disk.shnum <= length
                           /\ disk.shstrndx < disk.shnum
  BY SteadyFacts, VersionsAssumption
<1>2. pc = "strtbl"
  BY DEF Strtbl
<1>3. /\ header.shoff = disk.shoff /\ header.shnum = disk.shnum
      /\ header.shstrndx = disk.shstrndx /\ disk.shnum > 0
      /\ sheaders = [off |-> disk.shoff, n |-> disk.shnum]
  BY <1>1, <1>2 DEF SteadyInv
<1>4. header.shstrndx < disk.shnum /\ header.shstrndx < sheaders.n
  BY <1>1, <1>3
<1> DEFINE at == disk.shoff + 40 * disk.shstrndx + 16
<1>5. StrtblField = at
  BY <1>3, SizesFact DEF StrtblField
<1>6. 40 * disk.shstrndx + 40 <= FileShdrSize * disk.shnum /\ 40 * disk.shstrndx \in Nat
  <2>1. disk.shstrndx \in 0..(disk.shnum - 1)
    BY <1>1, <1>3
  <2> QED BY <2>1, <1>1, EntryInside, SizesFact
<1>7. at \in Nat /\ at + 4 <= length
  <2>1. FileShdrSize * disk.shnum \in Nat
    BY <1>1, SizesFact
  <2> QED BY <2>1, <1>1, <1>3, <1>6
<1> HIDE DEF at
<1>8. ~MayFault(StrtblField, 4)
  BY <1>1, <1>5, <1>7, InsideIsSafe
<1>9. /\ pc' \in {"done"} \/ header.shstrndx >= sheaders.n
      /\ pc' = "done" =>
            \/ header.shstrndx >= length /\ UNCHANGED strtbl
            \/ \E word \in Words(StrtblField) :
                  strtbl' = IF word < length THEN word ELSE NoTable
  BY <1>8 DEF Strtbl
<1>10. pc' = "done"
  BY <1>3, <1>4, <1>9, <1>1
<1>11. ~(header.shstrndx >= length)
  <2>1. disk.shnum <= FileShdrSize * disk.shnum /\ FileShdrSize * disk.shnum \in Nat
    <3>1. CASE FileShdrSize = 40
      BY <1>1, <3>1
    <3>2. CASE FileShdrSize = 64
      BY <1>1, <3>2
    <3> QED BY <3>1, <3>2, SizesFact
  <2> QED BY <2>1, <1>1, <1>3
<1>12. PICK word \in Words(StrtblField) : strtbl' = IF word < length THEN word ELSE NoTable
  BY <1>9, <1>10, <1>11
<1>13. strtbl' # NoTable => strtbl' < length
  BY <1>12
<1>14. ASSUME Class = 32 PROVE word = disk.secoff[disk.shstrndx]
  <2> DEFINE Here == {j \in DOMAIN disk.secoff :
                        at = disk.shoff + FileShdrSize * j + FileOffsetField}
  <2>1. ~(at + 4 > RoundUp(length)) /\ ~(at + 4 > disk.size)
    BY <1>1, <1>7, RoundUpFact
  <2>2. Words(at) = IF Here # {} THEN {disk.secoff[j] : j \in Here} ELSE Strays
    BY <2>1 DEF Words
  <2>3. DOMAIN disk.secoff = 0..(disk.shnum - 1)
    BY <1>1 DEF Steady, WellFormed
  <2>4. FileShdrSize = 40 /\ FileOffsetField = 16
    BY <1>14, SizesFact
  <2>5. Here = {disk.shstrndx}
    <3>1. disk.shstrndx \in Here
      BY <1>1, <1>3, <2>3, <2>4 DEF at
    <3>2. ASSUME NEW j \in Here PROVE j = disk.shstrndx
      <4>1. j \in Nat /\ at = disk.shoff + 40 * j + 16
        BY <3>2, <2>3, <2>4, <1>1
      <4> QED BY <4>1, <1>1 DEF at
    <3> HIDE DEF Here
    <3> QED BY <3>1, <3>2
  <2> HIDE DEF Here
  <2>6. word \in {disk.secoff[j] : j \in {disk.shstrndx}}
    BY <1>5, <1>12, <2>2, <2>5
  <2> QED BY <2>6
<1>15. Class = 32 => strtbl' = NameOffset(disk)
  BY <1>12, <1>14 DEF NameOffset
<1> QED BY <1>1, <1>10, <1>13, <1>15

(* Steadiness can only be lost, once the length has been read.             *)
LEMMA SteadyBefore ==
    ASSUME since \subseteq since', length' = length, Steady'
    PROVE  Steady
BY DEF Steady, WellFormed, SameHeader

LEMMA SteadyStep ==
    ASSUME TypeOK, Progress, Torn, SteadyInv, [Next]_vars, Steady', mapped'
    PROVE  SteadyInv'
<1> USE DEF world, views, object
<1>1. ASSUME Open \/ Fstat PROVE FALSE
  BY <1>1 DEF Open, Fstat, Progress
<1>2. ASSUME Mmap PROVE SteadyInv'
  <2>1. ~mapped
    BY <1>2 DEF Mmap, Progress
  <2>2. strtbl = NoTable
    BY <2>1, NothingToRead
  <2>3. pc' = "copy" /\ strtbl' = NoTable /\ copied' = {}
    BY <1>2, <2>1, <2>2 DEF Mmap, Progress, Blank
  <2> QED BY <2>3 DEF SteadyInv
<1>3. ASSUME NEW name \in HeaderFields, CopyField(name) PROVE SteadyInv'
  <2>1. Steady /\ mapped
    BY <1>3, SteadyBefore DEF CopyField
  <2>2. FieldEnd[name] \in Nat /\ 0 + FieldEnd[name] <= length /\ ~MayFault(0, FieldEnd[name])
    <3>1. FieldEnd[name] \in Nat /\ FieldEnd[name] <= EhdrSize /\ EhdrSize \in Nat
      BY SizesFact
    <3>2. /\ EhdrSize <= length /\ length \in Nat /\ disk.size \in Nat
          /\ length <= disk.size
      BY <2>1, SteadyFacts
    <3> QED BY <3>1, <3>2, InsideIsSafe
  <2>3. /\ pc = "copy" /\ pc' = IF copied' = HeaderFields THEN "pheaders" ELSE "copy"
        /\ since' = since /\ strtbl' = strtbl /\ strtbl = NoTable
        /\ copied' = copied \cup {name} /\ copied \subseteq HeaderFields
        /\ header' = [header EXCEPT ![name] = Field(name)]
    BY <1>3, <2>2 DEF CopyField, TypeOK, Progress, Loading
  <2>4. \A v \in since : v[name] = Field(name)
    BY <2>1, FieldsThere
  <2>5. \A other \in HeaderFields :
           header'[other] = IF other = name THEN Field(name) ELSE header[other]
    BY <2>3, SizesFact DEF TypeOK
  <2>6. \A other \in copied' : \A v \in since : header'[other] = v[other]
    BY <2>1, <2>3, <2>4, <2>5 DEF SteadyInv
  <2>7. CASE copied' # HeaderFields
    BY <2>3, <2>6, <2>7 DEF SteadyInv
  <2>8. CASE copied' = HeaderFields
    <3>1. \A v \in since :
             /\ header'.phoff = v.phoff /\ header'.shoff = v.shoff
             /\ header'.phnum = v.phnum /\ header'.shnum = v.shnum
             /\ header'.shstrndx = v.shstrndx
      BY <2>6, <2>8, SizesFact
    <3> QED BY <2>3, <2>8, <3>1 DEF SteadyInv
  <2> QED BY <2>7, <2>8
<1>f. ASSUME Pheaders \/ Sheaders
      PROVE  /\ Steady /\ mapped /\ strtbl = NoTable /\ strtbl' = NoTable
             /\ since' = since /\ header' = header /\ length' = length
             /\ \A v \in since :
                   /\ header.phoff = v.phoff /\ header.shoff = v.shoff
                   /\ header.phnum = v.phnum /\ header.shnum = v.shnum
                   /\ header.shstrndx = v.shstrndx
             /\ header.phnum > 0 => header.phoff < length
             /\ header.shnum > 0 => header.shoff < length
  <2>1. /\ Steady /\ mapped /\ strtbl = NoTable /\ strtbl' = NoTable
        /\ since' = since /\ header' = header /\ length' = length
    BY <1>f, SteadyBefore DEF Pheaders, Sheaders, Progress, Loading
  <2>2. pc # "copy"
    BY <1>f DEF Pheaders, Sheaders
  <2>3. \A v \in since : /\ header.phoff = v.phoff /\ header.shoff = v.shoff
                         /\ header.phnum = v.phnum /\ header.shnum = v.shnum
                         /\ header.shstrndx = v.shstrndx
    BY <2>1, <2>2 DEF SteadyInv
  <2>4. /\ disk \in since /\ length \in Nat
        /\ disk.phnum > 0 => disk.phoff + PhdrSize * disk.phnum <= length
        /\ disk.shnum > 0 => disk.shoff + FileShdrSize * disk.shnum <= length
        /\ disk.phnum \in Nat /\ disk.phoff \in Nat /\ disk.shnum \in Nat /\ disk.shoff \in Nat
    BY <2>1, SteadyFacts, VersionsAssumption
  <2>5. ASSUME NEW n \in Nat, n > 0
        PROVE  /\ PhdrSize * n \in Nat /\ PhdrSize * n > 0
               /\ FileShdrSize * n \in Nat /\ FileShdrSize * n > 0
    <3>1. PhdrSize * n \in Nat /\ PhdrSize * n > 0
      <4>1. CASE PhdrSize = 32
        BY <2>5, <4>1
      <4>2. CASE PhdrSize = 56
        BY <2>5, <4>2
      <4> QED BY <4>1, <4>2, SizesFact
    <3>2. FileShdrSize * n \in Nat /\ FileShdrSize * n > 0
      <4>1. CASE FileShdrSize = 40
        BY <2>5, <4>1
      <4>2. CASE FileShdrSize = 64
        BY <2>5, <4>2
      <4> QED BY <4>1, <4>2, SizesFact
    <3> QED BY <3>1, <3>2
  <2>6. header.phnum > 0 => header.phoff < length
    BY <2>3, <2>4, <2>5
  <2>7. header.shnum > 0 => header.shoff < length
    BY <2>3, <2>4, <2>5
  <2> QED BY <2>1, <2>3, <2>6, <2>7
<1>5. ASSUME Pheaders PROVE SteadyInv'
  <2>1. /\ pc = "pheaders" /\ pc' = "sheaders"
        /\ pheaders' = IF header.phnum > 0
                       THEN [off |-> header.phoff, n |-> header.phnum] ELSE NoView
    BY <1>5, <1>f DEF Pheaders
  <2> QED BY <2>1, <1>5, <1>f DEF SteadyInv
<1>6. ASSUME Sheaders PROVE SteadyInv'
  <2>1. pc = "sheaders" /\ header.shnum \in Nat
    BY <1>6 DEF Sheaders, TypeOK
  <2>2. /\ pheaders' = pheaders
        /\ pheaders = IF header.phnum > 0
                      THEN [off |-> header.phoff, n |-> header.phnum] ELSE NoView
    BY <2>1, <1>6, <1>f DEF Sheaders, SteadyInv
  <2>3. CASE header.shnum > 0
    <3>1. pc' = "strtbl" /\ sheaders' = [off |-> header.shoff, n |-> header.shnum]
      BY <1>6, <1>f, <2>3 DEF Sheaders
    <3> QED BY <3>1, <2>2, <2>3, <1>6, <1>f DEF SteadyInv
  <2>4. CASE ~(header.shnum > 0)
    <3>1. pc' = "done" /\ sheaders' = NoView
      BY <1>6, <2>1, <2>4 DEF Sheaders, Progress, Loading
    <3> QED BY <3>1, <2>2, <2>4, <1>6, <1>f DEF SteadyInv
  <2> QED BY <2>3, <2>4
<1>7. ASSUME Strtbl PROVE SteadyInv'
  <2>1. Steady /\ mapped /\ pc = "strtbl"
    BY <1>7, SteadyBefore DEF Strtbl
  <2>2. /\ pc' = "done"
        /\ strtbl' # NoTable => strtbl' < length
        /\ Class = 32 => \E v \in since : strtbl' = NameOffset(v)
    BY <1>7, <2>1, StrtblSteady
  <2>3. /\ since' = since /\ header' = header /\ length' = length
        /\ pheaders' = pheaders /\ sheaders' = sheaders
    BY <1>7 DEF Strtbl
  <2>4. header.shnum > 0 /\ header.shnum \in Nat
    BY <2>1 DEF SteadyInv, TypeOK
  <2>5. Class = 32 => HasNames'
    BY <2>2, <2>3 DEF HasNames, NameOffset
  <2> QED BY <2>1, <2>2, <2>3, <2>4, <2>5 DEF SteadyInv
<1>8. ASSUME Edit PROVE SteadyInv'
  <2>1. /\ since \subseteq since' /\ pc' = pc /\ header' = header /\ length' = length
        /\ copied' = copied
        /\ pheaders' = pheaders /\ sheaders' = sheaders /\ strtbl' = strtbl
        /\ mapped' = mapped
    BY <1>8 DEF Edit
  <2>2. Steady /\ mapped
    BY <2>1, SteadyBefore
  <2>3. PICK v \in Versions : since' = since \cup {v}
    BY <1>8 DEF Edit
  <2>4. disk \in since
    BY <2>2, SteadyFacts
  <2>5. /\ v.phoff = disk.phoff /\ v.shoff = disk.shoff /\ v.phnum = disk.phnum
        /\ v.shnum = disk.shnum /\ v.shstrndx = disk.shstrndx
    <3>1. SameHeader(v, disk)
      BY <2>3, <2>4 DEF Steady
    <3> QED BY <3>1, SizesFact DEF SameHeader
  <2>8. \A name \in HeaderFields : v[name] = disk[name]
    BY <2>3, <2>4 DEF Steady, SameHeader
  <2>9. pc = "copy" => \A name \in copied : \A w \in since' : header[name] = w[name]
    BY <2>2, <2>3, <2>4, <2>8 DEF SteadyInv, TypeOK
  <2>6. HasNames => HasNames'
    BY <2>1 DEF HasNames, NameOffset
  <2>7. BehindEnd => BehindEnd'
    BY <2>1 DEF BehindEnd
  <2> QED BY <2>1, <2>2, <2>3, <2>4, <2>5, <2>6, <2>7, <2>9 DEF SteadyInv
<1>9. ASSUME ReadPheader \/ ReadSheader \/ SectionName PROVE FALSE
  <2>1. Steady /\ mapped /\ pc = "done"
    BY <1>9, SteadyBefore DEF ReadPheader, ReadSheader, SectionName, ClientReads
  <2> QED BY <1>9, <2>1, EntriesSafe DEF ReadPheader, ReadSheader, SectionName, ClientReads
<1>10. ASSUME NullName PROVE SteadyInv'
  <2>1. /\ Steady /\ mapped /\ pc = "done" /\ pc' = "null name" /\ strtbl = NoTable
        /\ strtbl' = strtbl /\ since' = since /\ header' = header /\ length' = length
        /\ pheaders' = pheaders /\ sheaders' = sheaders /\ sheaders.n > 0
    BY <1>10, SteadyBefore DEF NullName
  <2>2. header.shnum > 0
    <3>1. sheaders = IF header.shnum > 0
                     THEN [off |-> header.shoff, n |-> header.shnum] ELSE NoView
      BY <2>1 DEF SteadyInv
    <3>2. ASSUME ~(header.shnum > 0) PROVE FALSE
      <4>1. sheaders.n = 0
        BY <3>1, <3>2 DEF NoView
      <4>2. sheaders.n > 0
        BY <2>1
      <4> QED BY <4>1, <4>2
    <3> QED BY <3>2
  <2>3. ASSUME Class = 32 PROVE BehindEnd
    <3>1. PICK v \in since : strtbl = NameOffset(v)
      BY <2>1, <2>2, <2>3 DEF SteadyInv, HasNames
    <3>2. v \in Versions /\ v.shnum = header.shnum /\ v.shstrndx < v.shnum
      BY <2>1, <2>2, SteadyFacts DEF SteadyInv, TypeOK
    <3>4. v.secoff[v.shstrndx] \in Nat /\ length \in Nat
      BY <2>1, <2>2, <3>2, NameSection, LengthType DEF Steady
    <3>5. ~(v.secoff[v.shstrndx] < length)
      <4>1. NoTable \notin Nat
        BY DEF NoTable
      <4> QED BY <2>1, <3>1, <3>4, <4>1 DEF NameOffset
    <3> QED BY <2>2, <3>2, <3>4, <3>5 DEF BehindEnd
  <2>4. BehindEnd => BehindEnd'
    BY <2>1 DEF BehindEnd
  <2> QED BY <2>1, <2>3, <2>4 DEF SteadyInv
<1>11. ASSUME UNCHANGED vars PROVE SteadyInv'
  BY <1>11 DEF vars, SteadyInv, Steady, WellFormed, SameHeader, HasNames, NameOffset, BehindEnd
<1> QED BY <1>1, <1>2, <1>3, <1>5, <1>6, <1>7, <1>8, <1>9, <1>10, <1>11
        DEF Next, Load, CopyHeader

LEMMA SteadyCorrect == Spec => [](TypeOK /\ Progress /\ Torn /\ SteadyInv)
<1>1. Init => Torn /\ SteadyInv
  BY DEF Init, Torn, TerminateNeedsBadIndex, SteadyInv, ZeroHeader, HeaderFields
<1>2. TypeOK /\ Progress /\ Torn /\ [Next]_vars => Torn'
  BY TornStep
<1>3. TypeOK /\ Progress /\ Torn /\ SteadyInv /\ [Next]_vars => SteadyInv'
  <2>1. ASSUME TypeOK, Progress, Torn, SteadyInv, [Next]_vars, ~(Steady' /\ mapped')
        PROVE  SteadyInv'
    BY <2>1 DEF SteadyInv
  <2> QED BY <2>1, SteadyStep
<1> QED BY <1>1, <1>2, <1>3, ProgressCorrect, PTL DEF Spec

(* A well-formed file that keeps its tables and at least its length while  *)
(* it is in use never ends the program, neither in the constructor nor in  *)
(* an access through the views.                                            *)
THEOREM WellFormedNeverFailsCorrect == Spec => []WellFormedNeverFails
<1>1. Progress /\ SteadyInv => WellFormedNeverFails
  BY DEF Progress, SteadyInv, WellFormedNeverFails
<1> QED BY <1>1, SteadyCorrect, PTL

(* As elf32_t such a file has a name table for whoever has a section.      *)
THEOREM NamesOfSectionsCorrect ==
    ASSUME Class = 32
    PROVE  Spec => []NamesOfSections
<1>1. TypeOK /\ Progress /\ SteadyInv => NamesOfSections
  <2> SUFFICES ASSUME TypeOK, Progress, SteadyInv, Steady, pc = "null name"
               PROVE  \E v \in since : v.shnum > 0 /\ ~(v.secoff[v.shstrndx] < length)
    BY Zenon DEF NamesOfSections
  <2>1. mapped
    BY DEF Progress
  <2> QED BY <2>1 DEF SteadyInv, BehindEnd
<1> QED BY <1>1, SteadyCorrect, PTL

(* What is known of an undisturbed load is known of a steady file. *)
LEMMA UndisturbedFacts ==
    ASSUME TypeOK, Progress, SteadyInv, NEW v \in since, Undisturbed(v)
    PROVE  /\ Steady /\ mapped /\ pc = "done" /\ since = {v} /\ v \in Versions
           /\ WellFormed(v) /\ v.size = length
           /\ header.phoff = v.phoff /\ header.shoff = v.shoff /\ header.phnum = v.phnum
           /\ header.shnum = v.shnum /\ header.shstrndx = v.shstrndx
<1>1. pc = "done" /\ mapped /\ since = {v} /\ WellFormed(v) /\ v \in Versions
  BY DEF Undisturbed, TypeOK
<1>2. v.size = length
  BY <1>1 DEF Progress
<1>3. Steady
  <2>1. length \in Nat
    BY LengthType
  <2> QED BY <1>1, <1>2, <2>1 DEF Steady, SameHeader
<1>4. /\ header.phoff = v.phoff /\ header.shoff = v.shoff /\ header.phnum = v.phnum
      /\ header.shnum = v.shnum /\ header.shstrndx = v.shstrndx
  BY <1>1, <1>3 DEF SteadyInv
<1> QED BY <1>1, <1>2, <1>3, <1>4

(* In either class every entry of pheaders() is the one that the file has  *)
(* there, if it is well formed and nobody edits it.                        *)
THEOREM ProgramHeadersCorrect == Spec => []ProgramHeaders
<1>1. TypeOK /\ Progress /\ SteadyInv => ProgramHeaders
  <2> SUFFICES ASSUME TypeOK, Progress, SteadyInv, NEW v \in since, Undisturbed(v)
               PROVE  /\ pheaders.n = v.phnum
                      /\ \A i \in 0..(v.phnum - 1) :
                            pheaders.off + PhdrSize * i = v.phoff + FilePhdrSize * i
    BY DEF ProgramHeaders
  <2>1. v.phnum \in Nat
    BY UndisturbedFacts, VersionsAssumption
  <2>2. pheaders = IF v.phnum > 0 THEN [off |-> v.phoff, n |-> v.phnum] ELSE NoView
    BY UndisturbedFacts DEF SteadyInv
  <2>3. FilePhdrSize = PhdrSize
    BY SizesFact
  <2> QED BY <2>1, <2>2, <2>3 DEF NoView
<1> QED BY <1>1, SteadyCorrect, PTL

(* As elf32_t the same is true of sheaders().                              *)
LEMMA SectionHeadersCorrect ==
    ASSUME Class = 32
    PROVE  Spec => []SectionHeaders
<1>1. TypeOK /\ Progress /\ SteadyInv => SectionHeaders
  <2> SUFFICES ASSUME TypeOK, Progress, SteadyInv, NEW v \in since, Undisturbed(v)
               PROVE  /\ sheaders.n = v.shnum
                      /\ \A i \in 0..(v.shnum - 1) :
                            sheaders.off + ShdrSize * i = v.shoff + FileShdrSize * i
    BY DEF SectionHeaders
  <2>1. v.shnum \in Nat
    BY UndisturbedFacts, VersionsAssumption
  <2>2. sheaders = IF v.shnum > 0 THEN [off |-> v.shoff, n |-> v.shnum] ELSE NoView
    BY UndisturbedFacts DEF SteadyInv
  <2>3. FileShdrSize = ShdrSize
    BY SizesFact
  <2> QED BY <2>1, <2>2, <2>3 DEF NoView
<1> QED BY <1>1, SteadyCorrect, PTL

(* As elf32_t, what the loader leaves for a well-formed file that nobody   *)
(* edits are the file's own tables, entry by entry, and its section name   *)
(* string table.                                                           *)
THEOREM ViewsAreTablesCorrect ==
    ASSUME Class = 32
    PROVE  Spec => []ViewsAreTables
<1>1. TypeOK /\ Progress /\ SteadyInv => SectionNameTable
  <2> SUFFICES ASSUME TypeOK, Progress, SteadyInv, NEW v \in since, Undisturbed(v)
               PROVE  strtbl = IF v.shnum > 0 THEN v.secoff[v.shstrndx] ELSE NoTable
    BY DEF SectionNameTable
  <2>1. CASE v.shnum > 0
    <3>1. strtbl = NameOffset(v)
      BY <2>1, UndisturbedFacts DEF SteadyInv, HasNames
    <3>2. v.shstrndx \in DOMAIN v.secoff /\ WellFormed(v) /\ v.size = length
      BY <2>1, UndisturbedFacts, NameSection
    <3>3. v.secoff[v.shstrndx] < length
      BY <3>2 DEF WellFormed
    <3> QED BY <2>1, <3>1, <3>3 DEF NameOffset
  <2>2. CASE ~(v.shnum > 0)
    <3>1. v.shnum = 0 /\ header.shnum = 0 /\ Steady /\ mapped /\ pc = "done"
      BY <2>2, UndisturbedFacts, VersionsAssumption
    <3> QED BY <3>1 DEF SteadyInv
  <2> QED BY <2>1, <2>2
<1> QED
  BY <1>1, ProgramHeadersCorrect, SectionHeadersCorrect, SteadyCorrect, PTL DEF ViewsAreTables

-----------------------------------------------------------------------------
(* The constructor as the one step that ElfObj takes it for.               *)

(* A string table is only looked for in the section headers.               *)
StrtblHasSections == strtbl # NoTable => sheaders.n > 0

LEMMA StrtblHasSectionsCorrect == Spec => []StrtblHasSections
<1>1. Init => StrtblHasSections
  BY DEF Init, StrtblHasSections
<1>2. Progress /\ Torn /\ StrtblHasSections /\ [Next]_vars => StrtblHasSections'
  <2> SUFFICES ASSUME Progress, Torn, StrtblHasSections, [Next]_vars
               PROVE  StrtblHasSections'
    OBVIOUS
  <2>1. CASE Sheaders
    BY <2>1 DEF Sheaders, Progress, Loading, StrtblHasSections
  <2>2. CASE Strtbl
    <3>1. sheaders' = sheaders /\ sheaders.n > 0
      BY <2>2 DEF Strtbl, Torn
    <3> QED BY <3>1 DEF StrtblHasSections
  <2>3. CASE ~Sheaders /\ ~Strtbl
    <3>1. sheaders' = sheaders /\ strtbl' = strtbl
      BY <2>3 DEF Next, Load, Open, Fstat, Mmap, CopyHeader, CopyField, Pheaders, Edit,
                  ReadPheader, ReadSheader, SectionName, ClientReads, NullName,
                  views, object, vars
    <3> QED BY <3>1 DEF StrtblHasSections
  <2> QED BY <2>1, <2>2, <2>3
<1> QED BY <1>1, <1>2, SteadyCorrect, PTL DEF Spec

(* What the object is for ElfObj, before and after it is there, and while  *)
(* it is there.                                                            *)
Absent == /\ {"file"} \cap {file(owner # "none")} = {}
          /\ {"file"} \cap {file(mapped)} = {}
          /\ [o \in {"elf"} |-> file(owner = "file_map")] = [o \in {"elf"} |-> "none"]
          /\ [o \in {"elf"} |-> from] = [o \in {"elf"} |-> Objects!Blank]
          /\ [o \in {"elf"} |-> there /\ constructed] = [o \in {"elf"} |-> FALSE]

LEMMA AbsentBefore == pc # "done" => Absent
BY DEF Absent, file, from, there, Objects!Blank, Objects!Parts

LEMMA AbsentAfter == (pc # "done" => Absent)'
BY AbsentBefore, PTL

(* ElfObj starts with no object, and so does the constructor.              *)
LEMMA ObjectsInit == Init => Objects!Init
<1> SUFFICES ASSUME Init PROVE Objects!Init
  OBVIOUS
<1>1. pc # "done" /\ ~there
  BY DEF Init, there
<1> QED BY <1>1, AbsentBefore DEF Absent, Objects!Init

(* What can be there when the constructor is done is an outcome of a load. *)
LEMMA ObjectsLoad ==
    ASSUME TypeOK', Progress', StrtblHasSections', Absent, pc # "done", pc' = "done"
    PROVE  Objects!Load("elf")
<1>0. ~there /\ there'
  BY DEF there
<1>1. Objects!Construct("elf")
  BY <1>0 DEF Objects!Construct
<1>2. CASE owner' = "none"
  <2>1. ~mapped' /\ ~constructed'
    BY <1>2 DEF Progress
  <2>2. /\ pheaders'.n = 0 /\ sheaders'.n = 0 /\ strtbl' = NoTable
    BY <2>1 DEF Progress, Blank, NoView
  <2>3. [o \in {"elf"} |-> from'] = [o \in {"elf"} |-> Objects!Blank]
    BY <2>1, <2>2 DEF from, file, Objects!Blank, Objects!Parts
  <2>4. /\ {"file"} \cap {file(owner # "none")'} = {}
        /\ {"file"} \cap {file(mapped)'} = {}
        /\ [o \in {"elf"} |-> file(owner = "file_map")'] = [o \in {"elf"} |-> "none"]
        /\ [o \in {"elf"} |-> there' /\ constructed'] = [o \in {"elf"} |-> FALSE]
    BY <1>2, <2>1 DEF file
  <2> QED BY <1>1, <2>3, <2>4 DEF Absent, Objects!Load, Objects!kernel
<1>3. CASE owner' = "file_map"
  <2>1. /\ {"file"} \cap {file(owner # "none")'} = {"file"}
        /\ [o \in {"elf"} |-> file(owner = "file_map")'] = [o \in {"elf"} |-> "file"]
    BY <1>0, <1>3 DEF file
  <2>2. CASE ~mapped'
    <3>1. /\ pheaders'.n = 0 /\ sheaders'.n = 0 /\ strtbl' = NoTable /\ ~constructed'
      BY <2>2 DEF Progress, Blank, NoView
    <3>2. [o \in {"elf"} |-> from'] = [o \in {"elf"} |-> Objects!Blank]
      BY <2>2, <3>1 DEF from, file, Objects!Blank, Objects!Parts
    <3>3. /\ {"file"} \cap {file(mapped)'} = {}
          /\ [o \in {"elf"} |-> there' /\ constructed'] = [o \in {"elf"} |-> FALSE]
      BY <2>2, <3>1 DEF file
    <3> QED BY <1>1, <2>1, <3>2, <3>3 DEF Absent, Objects!Load
  <2>3. CASE mapped'
    <3>1. from' \in Objects!Loaded("file")
      <4>1. from' \in [Objects!Parts -> {"file", "none"}]
        BY DEF from, file, Objects!Parts
      <4>2. from'["header"] = "file"
        BY <1>0, <2>3 DEF from, file
      <4>3. from'["sheaders"] = "none" => from'["strtbl"] = "none"
        BY <1>0 DEF from, file, StrtblHasSections
      <4> QED BY <4>1, <4>2, <4>3 DEF Objects!Loaded
    <3>2. [o \in {"elf"} |-> there' /\ constructed'] = [o \in {"elf"} |-> TRUE]
      BY <1>0, <2>3 DEF Progress
    <3>3. {"file"} \cap {file(mapped)'} = {"file"}
      BY <1>0, <2>3 DEF file
    <3> QED BY <1>1, <2>1, <3>1, <3>2, <3>3 DEF Absent, Objects!Load
  <2> QED BY <2>2, <2>3
<1>4. owner' \in {"none", "file_map"}
  BY DEF TypeOK, Progress
<1> QED BY <1>2, <1>3, <1>4

(* When the process ends, whatever the object held is given back. *)
LEMMA ObjectsDestroy ==
    ASSUME TypeOK, Progress, Absent', pc = "done", pc' # "done"
    PROVE  Objects!Destroy("elf")
<1>0. there /\ ~there'
  BY DEF there
<1>1. [o \in {"elf"} |-> file(owner = "file_map")]["elf"] = file(owner = "file_map")
  OBVIOUS
<1>2. ({"file"} \cap {file(owner # "none")}) \ {file(owner = "file_map")} = {}
  BY <1>0 DEF TypeOK, Progress, file
<1>3. ({"file"} \cap {file(mapped)}) \ {file(owner = "file_map")} = {}
  BY <1>0 DEF Progress, file
<1>4. /\ [[o \in {"elf"} |-> file(owner = "file_map")] EXCEPT !["elf"] = "none"]
            = [o \in {"elf"} |-> "none"]
      /\ [[o \in {"elf"} |-> from] EXCEPT !["elf"] = Objects!Blank]
            = [o \in {"elf"} |-> Objects!Blank]
      /\ [[o \in {"elf"} |-> there /\ constructed] EXCEPT !["elf"] = FALSE]
            = [o \in {"elf"} |-> FALSE]
  OBVIOUS
<1> QED BY <1>0, <1>1, <1>2, <1>3, <1>4 DEF Absent, Objects!Destroy

LEMMA ObjectsStep ==
    ASSUME TypeOK, TypeOK', Progress, Progress', StrtblHasSections', [Next]_vars
    PROVE  [Objects!Next]_(Objects!vars)
<1>1. CASE pc # "done" /\ pc' # "done"
  <2>1. Absent /\ Absent' /\ ~there /\ ~there'
    BY <1>1, AbsentBefore, AbsentAfter DEF there
  <2> QED BY <2>1 DEF Absent, Objects!vars
<1>2. CASE pc # "done" /\ pc' = "done"
  <2>1. Objects!Load("elf")
    BY <1>2, AbsentBefore, ObjectsLoad
  <2> QED BY <2>1 DEF Objects!Next
<1>3. CASE pc = "done" /\ pc' # "done"
  <2>1. Objects!Destroy("elf")
    BY <1>3, AbsentAfter, ObjectsDestroy
  <2> QED BY <2>1 DEF Objects!Next
<1>4. CASE pc = "done" /\ pc' = "done"
  <2>1. UNCHANGED <<pc, object>>
    BY <1>4 DEF Next, Load, Open, Fstat, Mmap, CopyHeader, CopyField, Pheaders, Sheaders,
                Strtbl, Edit, ReadPheader, ReadSheader, SectionName, ClientReads, NullName,
                object, vars
  <2> QED BY <2>1 DEF Objects!vars, there, file, from, object
<1> QED BY <1>1, <1>2, <1>3, <1>4

(* The loading constructor is what ElfObj takes it for: whatever the file  *)
(* says and however it is edited meanwhile, the object it leaves is one of *)
(* the outcomes of Load, and nothing of a client's reading changes it.     *)
THEOREM ImplementsObjectsCorrect == Spec => ImplementsObjects
<1>1. Spec => [](TypeOK /\ Progress /\ StrtblHasSections)
  BY ProgressCorrect, StrtblHasSectionsCorrect, PTL
<1>2. /\ TypeOK /\ Progress /\ StrtblHasSections
      /\ TypeOK' /\ Progress' /\ StrtblHasSections' /\ [Next]_vars
      => [Objects!Next]_(Objects!vars)
  BY ObjectsStep
<1> QED BY <1>1, <1>2, ObjectsInit, PTL DEF Spec, ImplementsObjects, Objects!Spec
-----------------------------------------------------------------------------
(* The members _file_fd and _file_map.                                     *)

(* The descriptor is in the mapping only after map().                      *)
BeforeMap == ~Mapping => owner # "file_map" /\ ~mapped

LEMMA BeforeMapCorrect == Spec => []BeforeMap
<1>1. Init => BeforeMap
  BY DEF Init, BeforeMap
<1>2. BeforeMap /\ [Next]_vars => BeforeMap'
  <2> SUFFICES ASSUME BeforeMap, [Next]_vars, ~Mapping' PROVE owner' # "file_map" /\ ~mapped'
    BY DEF BeforeMap
  <2>1. CASE Open \/ Fstat
    BY <2>1 DEF BeforeMap, Mapping, Open, Fstat
  <2>2. CASE ~Open /\ ~Fstat
    <3>1. pc' = pc /\ owner' = owner /\ mapped' = mapped
      BY <2>2 DEF Mapping, Next, Load, Mmap, CopyHeader, CopyField, Pheaders, Sheaders, Strtbl,
                  Edit, ReadPheader, ReadSheader, SectionName, ClientReads, NullName, object, vars
    <3> QED BY <3>1 DEF BeforeMap, Mapping
  <2> QED BY <2>1, <2>2
<1> QED BY <1>1, <1>2, PTL DEF Spec

LEMMA WrappersInit == Init => Wrappers!Init
BY DEF Init, Wrappers!Init, Wrappers!Objs, Wrappers!NoFd, Wrappers!Null

(* open() gives a descriptor or -1. *)
LEMMA WrappersOpen ==
    ASSUME Open, BeforeMap, pc = "open" => owner = "none"
    PROVE  Wrappers!FdOpen("file_fd")
<1>1. /\ pc = "open" /\ pc' = "fstat" /\ owner = "none" /\ owner' \in {"none", "file_fd"}
      /\ mapped' = mapped /\ length' = length /\ ~Mapping /\ ~Mapping' /\ ~mapped
  BY DEF Open, Mapping, BeforeMap
<1> DEFINE member(who) == [x \in {"file_fd", "file_map"} |-> IF who = x THEN 3 ELSE -1]
           d == IF owner' = "none" THEN -1 ELSE 3
<1>2. d \in ({3} \ {}) \cup {-1} /\ (IF owner' = "none" THEN {} ELSE {3}) = {} \cup ({d} \ {-1})
  BY <1>1
<1>3. member(owner') = [member("none") EXCEPT !["file_fd"] = d]
  BY <1>1
<1>4. [[o \in {"file_fd"} |-> FALSE] EXCEPT !["file_fd"] = FALSE] = [o \in {"file_fd"} |-> FALSE]
  OBVIOUS
<1>5. Wrappers!Construct("file_fd")
  BY <1>1 DEF Wrappers!Construct
<1> QED
  BY <1>1, <1>2, <1>3, <1>4, <1>5
     DEF Wrappers!FdOpen, Wrappers!OpenResults, Wrappers!NoFd, Wrappers!mapMembers

(* map() on that descriptor gives it away, or makes an empty mapping.      *)
LEMMA WrappersMap ==
    ASSUME Mmap, BeforeMap, TypeOK
    PROVE  Wrappers!FdMap("file_fd", "file_map")
<1>1. /\ pc = "mmap" /\ ~Mapping /\ Mapping' /\ length' = length
      /\ ~mapped /\ owner \in {"none", "file_fd"}
  BY DEF Mmap, Mapping, BeforeMap, TypeOK
<1>2. Wrappers!Construct("file_map")
  BY <1>1 DEF Wrappers!Construct, Mmap
<1> DEFINE member(who) == [x \in {"file_fd", "file_map"} |-> IF who = x THEN 3 ELSE -1]
           one(n) == [m \in {"file_map"} |-> n]
           n == IF length > 0 THEN 1 ELSE 0
           a == IF mapped' THEN 1 ELSE 0
<1>3. /\ \A k, l : [one(k) EXCEPT !["file_map"] = l] = one(l)
      /\ [member("none") EXCEPT !["file_map"] = -1] = member("none")
      /\ [member("file_fd") EXCEPT !["file_fd"] = -1, !["file_map"] = 3] = member("file_map")
      /\ member("none")["file_fd"] = -1 /\ member("file_fd")["file_fd"] = 3
  OBVIOUS
<1>4. CASE owner = "none"
  <2>1. owner' = "none" /\ mapped' = FALSE
    BY <1>4 DEF Mmap
  <2> QED
    BY <1>1, <1>2, <1>3, <1>4, <2>1
       DEF Wrappers!FdMap, Wrappers!NoFd, Wrappers!Null
<1>5. CASE owner = "file_fd"
  <2>1. owner' = "file_map" /\ mapped' \in BOOLEAN /\ (mapped' => length > 0)
    BY <1>5 DEF Mmap
  <2>2. n \in 0..1 /\ (mapped' => n = 1) /\ (a = 0 <=> ~mapped') /\ a \in {0, 1}
    BY <2>1
  <2>3. a \in Wrappers!MmapResults(3, n)
    BY <1>1, <1>5, <2>2 DEF Wrappers!MmapResults, Wrappers!Null, Wrappers!Extent
  <2>4. (IF mapped' THEN {1} ELSE {})
          = {} \cup (IF a = 0 THEN {} ELSE Wrappers!Extent(a, n))
    <3>1. 1..(1 + 1 - 1) = {1}
      OBVIOUS
    <3>2. CASE mapped'
      BY <2>2, <3>1, <3>2 DEF Wrappers!Extent
    <3>3. CASE ~mapped'
      BY <3>3
    <3> QED BY <3>2, <3>3
  <2>5. Wrappers!MapPages("file_map", 3, n)
    BY <1>1, <1>3, <2>1, <2>3, <2>4 DEF Wrappers!MapPages, Wrappers!Null
  <2> QED
    BY <1>1, <1>2, <1>3, <1>5, <2>1, <2>2, <2>5
       DEF Wrappers!FdMap, Wrappers!NoFd
<1> QED BY <1>1, <1>4, <1>5

LEMMA WrappersStep ==
    ASSUME TypeOK, Progress, BeforeMap, [Next]_vars
    PROVE  [Wrappers!Next]_(Wrappers!vars)
<1>1. CASE Open
  <2>1. Wrappers!FdOpen("file_fd")
    BY <1>1, WrappersOpen DEF Progress
  <2> QED BY <2>1 DEF Wrappers!Next
<1>2. CASE Mmap
  <2>1. Wrappers!FdMap("file_fd", "file_map")
    BY <1>2, WrappersMap
  <2> QED BY <2>1 DEF Wrappers!Next
<1>3. CASE Fstat
  <2>1. /\ pc # "open" /\ pc' # "open" /\ ~Mapping /\ ~Mapping' /\ owner' = owner
        /\ mapped' = mapped /\ owner # "file_map"
    BY <1>3 DEF Fstat, Mapping, BeforeMap
  <2> QED BY <2>1 DEF Wrappers!vars
<1>4. CASE ~Open /\ ~Mmap /\ ~Fstat
  <2>1. /\ owner' = owner /\ mapped' = mapped /\ length' = length
        /\ (pc = "open" <=> pc' = "open") /\ (Mapping <=> Mapping')
    BY <1>4 DEF Next, Load, CopyHeader, CopyField, Pheaders, Sheaders, Strtbl, Edit,
                ReadPheader, ReadSheader, SectionName, ClientReads, NullName, Mapping,
                object, vars
  <2> QED BY <2>1 DEF Wrappers!vars
<1> QED BY <1>1, <1>2, <1>3, <1>4

(* The members _file_fd and _file_map of the object that is loaded are     *)
(* wrappers as Handles has them, call by call, whether open and mmap       *)
(* succeed or not.                                                         *)
THEOREM ImplementsWrappersCorrect == Spec => ImplementsWrappers
<1>1. TypeOK /\ Progress /\ BeforeMap /\ [Next]_vars => [Wrappers!Next]_(Wrappers!vars)
  BY WrappersStep
<1> QED
  BY <1>1, WrappersInit, ProgressCorrect, BeforeMapCorrect, PTL
     DEF Spec, ImplementsWrappers, Wrappers!Spec
=============================================================================
