--------------------------- MODULE HandlesProofs ---------------------------
(* Theorems about Handles for every set of objects and descriptors and     *)
(* every size of the address space.                                        *)
EXTENDS Handles, TLAPS

-----------------------------------------------------------------------------
(* The members of the wrappers and the kernel's tables keep their types,   *)
(* through every constructor, move, map() and destructor.                  *)
THEOREM TypeCorrect == Spec => []TypeOK
<1>1. Init => TypeOK
  <2> SUFFICES ASSUME Init PROVE TypeOK
    OBVIOUS
  <2>1. 0 \in 0..MaxLen
    BY LenAssumption
  <2> QED BY <2>1, PagesAssumption DEF Init, TypeOK
<1>2. TypeOK /\ [Next]_vars => TypeOK'
  <2> SUFFICES ASSUME TypeOK, [Next]_vars PROVE TypeOK'
    OBVIOUS
  <2> USE LenAssumption DEF TypeOK, Construct, Objs, kernel, fdMembers, mapMembers
  <2>p. ASSUME NEW m \in MapObjs, NEW d, NEW n \in 0..MaxLen, MapPages(m, d, n)
        PROVE  /\ addr' \in [MapObjs -> {Null} \cup (LowPage..MaxPage)]
               /\ len' \in [MapObjs -> 0..MaxLen]
               /\ mapped' \subseteq LowPage..MaxPage
    BY <2>p DEF MapPages, MmapResults
  <2>1. ASSUME NEW o \in FdObjs, FdDefault(o) PROVE TypeOK'
    BY <2>1 DEF FdDefault
  <2>2. ASSUME NEW o \in FdObjs, FdOpen(o) PROVE TypeOK'
    BY <2>2 DEF FdOpen, OpenResults
  <2>3. ASSUME NEW o \in FdObjs, FdReadEnd(o) PROVE TypeOK'
    BY <2>3 DEF FdReadEnd
  <2>4. ASSUME NEW o \in FdObjs, NEW d \in Desc, FdAdopt(o, d) PROVE TypeOK'
    BY <2>4 DEF FdAdopt
  <2>5. ASSUME NEW o \in FdObjs, NEW p \in FdObjs, FdMoveConstruct(o, p) PROVE TypeOK'
    BY <2>5 DEF FdMoveConstruct
  <2>6. ASSUME NEW o \in FdObjs, NEW p \in FdObjs, FdMoveAssign(o, p) PROVE TypeOK'
    BY <2>6 DEF FdMoveAssign
  <2>7. ASSUME NEW o \in FdObjs, NEW m \in MapObjs, FdMap(o, m) PROVE TypeOK'
    <3>1. CASE fd[o] = NoFd
      <4>1. 0 \in 0..MaxLen
        OBVIOUS
      <4> QED BY <2>7, <3>1, <4>1 DEF FdMap
    <3>2. CASE fd[o] # NoFd
      BY <2>7, <3>2, <2>p DEF FdMap
    <3> QED BY <3>1, <3>2
  <2>z. 0 \in 0..MaxLen
    OBVIOUS
  <2>8. ASSUME NEW m \in MapObjs, MapDefault(m) PROVE TypeOK'
    BY <2>8, <2>z DEF MapDefault
  <2>9. ASSUME NEW m \in MapObjs, NEW d \in Desc \cup {NoFd}, MapAdopt(m, d) PROVE TypeOK'
    BY <2>9, <2>p DEF MapAdopt
  <2>10. ASSUME NEW m \in MapObjs, NEW n \in MapObjs, MapMoveConstruct(m, n) PROVE TypeOK'
    BY <2>10, <2>z DEF MapMoveConstruct
  <2>11. ASSUME NEW m \in MapObjs, NEW n \in MapObjs, MapMoveAssign(m, n) PROVE TypeOK'
    BY <2>11 DEF MapMoveAssign
  <2>12. ASSUME NEW o \in FdObjs, FdDestroy(o) PROVE TypeOK'
    BY <2>12 DEF FdDestroy, CloseDescriptor
  <2>13. ASSUME NEW m \in MapObjs, MapDestroy(m) PROVE TypeOK'
    <3>1. mapped' \subseteq mapped /\ swept' \in 0..MaxLen
      BY <2>13 DEF MapDestroy, Munmap
    <3> QED BY <2>13, <2>z, <3>1 DEF MapDestroy, CloseDescriptor
  <2>14. ASSUME NEW d \in Desc, RawOpen(d) PROVE TypeOK'
    BY <2>14 DEF RawOpen
  <2>15. ASSUME NEW d \in Desc, RawClose(d) PROVE TypeOK'
    BY <2>15 DEF RawClose, CloseDescriptor
  <2>16. ASSUME Unwind PROVE TypeOK'
    BY <2>16 DEF Unwind
  <2>17. ASSUME Resume PROVE TypeOK'
    BY <2>17 DEF Resume
  <2>18. ASSUME UNCHANGED vars PROVE TypeOK'
    BY <2>18 DEF vars
  <2> HIDE DEF TypeOK, Construct, Objs, kernel, fdMembers, mapMembers
  <2> QED
    BY <2>1, <2>2, <2>3, <2>4, <2>5, <2>6, <2>7, <2>8, <2>9, <2>10, <2>11,
       <2>12, <2>13, <2>14, <2>15, <2>16, <2>17, <2>18
    DEF Next, Destroy
<1> QED BY <1>1, <1>2, PTL DEF Spec
-----------------------------------------------------------------------------
(* Who owns which descriptor.                                              *)

DeadHoldNothing == \A x \in Objs \ alive : fd[x] = NoFd

OpenIffOwned ==
    \A d \in Desc : d \in open <=> d \in foreign \/ \E x \in Objs : fd[x] = d

SawEndOwned == \A d \in sawEnd : \E x \in Objs : fd[x] = d

EofIffSawEnd == \A o \in FdObjs : fd[o] # NoFd => (eof[o] <=> fd[o] \in sawEnd)

DescInv == /\ DeadHoldNothing
           /\ UniqueOwner
           /\ OpenIffOwned
           /\ SawEndOwned
           /\ EofIffSawEnd

(* Every step keeps DescInv, the inductive form of UniqueOwner,            *)
(* NothingLeaks and EofFollowsDescriptor: it says in addition that a place *)
(* without an object holds nothing, so that constructing there loses no    *)
(* descriptor, and that only owned descriptors have seen their end.        *)
LEMMA DescInvStep == TypeOK /\ DescInv /\ [Next]_vars => DescInv'
<1> SUFFICES ASSUME TypeOK, DescInv, [Next]_vars PROVE DescInv'
  OBVIOUS
<1> USE DescAssumption DEF TypeOK, DescInv, DeadHoldNothing, UniqueOwner, OpenIffOwned,
        SawEndOwned, EofIffSawEnd, Construct, Objs, NoFd, kernel, fdMembers, mapMembers
<1>1. ASSUME NEW o \in FdObjs, FdDefault(o) PROVE DescInv'
  BY <1>1, ObjsAssumption DEF FdDefault
<1>2. ASSUME NEW o \in FdObjs, FdOpen(o) PROVE DescInv'
  BY <1>2, ObjsAssumption DEF FdOpen, OpenResults
<1>3. ASSUME NEW o \in FdObjs, FdReadEnd(o) PROVE DescInv'
  BY <1>3, ObjsAssumption DEF FdReadEnd
<1>4. ASSUME NEW o \in FdObjs, NEW d \in Desc, FdAdopt(o, d) PROVE DescInv'
  BY <1>4, ObjsAssumption DEF FdAdopt
<1>5. ASSUME NEW o \in FdObjs, NEW p \in FdObjs, FdMoveConstruct(o, p) PROVE DescInv'
  BY <1>5, ObjsAssumption DEF FdMoveConstruct
<1>6. ASSUME NEW o \in FdObjs, NEW p \in FdObjs, FdMoveAssign(o, p) PROVE DescInv'
  BY <1>6, ObjsAssumption DEF FdMoveAssign
<1>7. ASSUME NEW o \in FdObjs, NEW m \in MapObjs, FdMap(o, m) PROVE DescInv'
  BY <1>7, ObjsAssumption DEF FdMap, MapPages
<1>8. ASSUME NEW m \in MapObjs, MapDefault(m) PROVE DescInv'
  BY <1>8, ObjsAssumption DEF MapDefault
<1>9. ASSUME NEW m \in MapObjs, NEW d \in Desc \cup {NoFd}, MapAdopt(m, d) PROVE DescInv'
  BY <1>9, ObjsAssumption DEF MapAdopt, MapPages
<1>10. ASSUME NEW m \in MapObjs, NEW n \in MapObjs, MapMoveConstruct(m, n) PROVE DescInv'
  BY <1>10, ObjsAssumption DEF MapMoveConstruct
<1>11. ASSUME NEW m \in MapObjs, NEW n \in MapObjs, MapMoveAssign(m, n) PROVE DescInv'
  BY <1>11, ObjsAssumption DEF MapMoveAssign
<1>12. ASSUME NEW o \in FdObjs, FdDestroy(o) PROVE DescInv'
  <2>1. CASE fd[o] # NoFd
    <3>1. /\ alive' = alive \ {o} /\ open' = open \ {fd[o]} /\ foreign' = foreign
          /\ sawEnd' = sawEnd \ {fd[o]} /\ fd' = [fd EXCEPT ![o] = NoFd]
      BY <1>12, <2>1 DEF FdDestroy, CloseDescriptor
    <3>2. DeadHoldNothing' /\ UniqueOwner' /\ OpenIffOwned' /\ SawEndOwned'
      BY <3>1, <2>1
    <3>3. EofIffSawEnd'
      BY <3>1, <2>1, <1>12 DEF FdDestroy
    <3> QED BY <3>2, <3>3
  <2>2. CASE fd[o] = NoFd
    <3>1. /\ alive' = alive \ {o} /\ open' = open /\ foreign' = foreign
          /\ sawEnd' = sawEnd /\ \A y \in Objs : fd'[y] = fd[y]
      BY <1>12, <2>2 DEF FdDestroy
    <3>2. DeadHoldNothing' /\ UniqueOwner' /\ OpenIffOwned' /\ SawEndOwned'
      BY <3>1, <2>2
    <3>3. EofIffSawEnd'
      BY <3>1, <2>2, <1>12 DEF FdDestroy
    <3> QED BY <3>2, <3>3
  <2> QED BY <2>1, <2>2
<1>13. ASSUME NEW m \in MapObjs, MapDestroy(m) PROVE DescInv'
  <2>1. CASE fd[m] # NoFd
    <3>1. /\ alive' = alive \ {m} /\ open' = open \ {fd[m]} /\ foreign' = foreign
          /\ sawEnd' = sawEnd \ {fd[m]} /\ fd' = [fd EXCEPT ![m] = NoFd]
      BY <1>13, <2>1 DEF MapDestroy, CloseDescriptor
    <3>2. DeadHoldNothing' /\ UniqueOwner' /\ OpenIffOwned' /\ SawEndOwned'
      BY <3>1, <2>1
    <3>3. EofIffSawEnd'
      BY <3>1, <2>1, <1>13 DEF MapDestroy
    <3> QED BY <3>2, <3>3
  <2>2. CASE fd[m] = NoFd
    <3>1. /\ alive' = alive \ {m} /\ open' = open /\ foreign' = foreign
          /\ sawEnd' = sawEnd /\ \A y \in Objs : fd'[y] = fd[y]
      BY <1>13, <2>2 DEF MapDestroy
    <3>2. DeadHoldNothing' /\ UniqueOwner' /\ OpenIffOwned' /\ SawEndOwned'
      BY <3>1, <2>2
    <3>3. EofIffSawEnd'
      BY <3>1, <2>2, <1>13 DEF MapDestroy
    <3> QED BY <3>2, <3>3
  <2> QED BY <2>1, <2>2
<1>14. ASSUME NEW d \in Desc, RawOpen(d) PROVE DescInv'
  BY <1>14, ObjsAssumption DEF RawOpen
<1>15. ASSUME NEW d \in Desc, RawClose(d) PROVE DescInv'
  BY <1>15, ObjsAssumption DEF RawClose, CloseDescriptor
<1>16. ASSUME Unwind PROVE DescInv'
  BY <1>16, ObjsAssumption DEF Unwind
<1>17. ASSUME Resume PROVE DescInv'
  BY <1>17, ObjsAssumption DEF Resume
<1>18. ASSUME UNCHANGED vars PROVE DescInv'
  BY <1>18, ObjsAssumption DEF vars
<1> HIDE DEF TypeOK, DescInv, Construct, Objs, kernel, fdMembers, mapMembers
<1> QED
  BY <1>1, <1>2, <1>3, <1>4, <1>5, <1>6, <1>7, <1>8, <1>9, <1>10, <1>11, <1>12, <1>13, <1>14, <1>15, <1>16, <1>17, <1>18
  DEF Next, Destroy
(* It holds before anything is constructed. *)
LEMMA DescInvInit == Init => DescInv
  BY DescAssumption
  DEF Init, NoFd, DescInv, DeadHoldNothing, UniqueOwner, OpenIffOwned, SawEndOwned, EofIffSawEnd

(* So it is an invariant. *)
LEMMA DescInvCorrect == Spec => [](TypeOK /\ DescInv)
  BY TypeCorrect, DescInvInit, DescInvStep, PTL DEF Spec

(* No descriptor has two owners, so no destructor closes what is not its   *)
(* object's own.                                                           *)
THEOREM UniqueOwnerCorrect == Spec => []UniqueOwner
<1>1. TypeOK /\ DescInv => UniqueOwner
  BY DEF DescInv
<1> QED BY <1>1, DescInvCorrect, PTL

(* The open descriptors are those of live wrappers and of the rest of the  *)
(* program: moves, map() and failed mappings leak none.                    *)
THEOREM NothingLeaksCorrect == Spec => []NothingLeaks
<1>1. TypeOK /\ DescInv => NothingLeaks
  <2> SUFFICES ASSUME TypeOK, DescInv PROVE open = foreign \cup Owned
    BY DEF NothingLeaks
  <2>1. \A d \in Desc : d \in Owned <=> \E x \in Objs : fd[x] = d
    BY DescAssumption DEF TypeOK, DescInv, DeadHoldNothing, Owned, NoFd
  <2>2. Owned \subseteq Desc
    BY DEF Owned, TypeOK
  <2> QED BY <2>1, <2>2 DEF DescInv, OpenIffOwned, TypeOK
<1> QED BY <1>1, DescInvCorrect, PTL

(* The end-of-file flag of an fd_t is that of the descriptor it holds,     *)
(* after any sequence of moves and swaps.                                  *)
THEOREM EofFollowsDescriptorCorrect == Spec => []EofFollowsDescriptor
<1>1. TypeOK /\ DescInv => EofFollowsDescriptor
  BY DEF DescInv, EofIffSawEnd, EofFollowsDescriptor
<1> QED BY <1>1, DescInvCorrect, PTL

-----------------------------------------------------------------------------
(* Who owns which page.                                                    *)

(* Page by page: what is mapped belongs to the image or to a mapping, and  *)
(* beyond the reach of failed mappings to one of them only, for as long as *)
(* it is not unmapped there.                                               *)
InPages(m, p) == addr[m] # Null /\ addr[m] <= p /\ p < addr[m] + len[m]

PageInv ==
    /\ \A m \in MapObjs : addr[m] # Null => m \in alive /\ addr[m] + len[m] <= MaxPage + 1
    /\ \A p \in mapped : p \in Image \/ \E m \in MapObjs : InPages(m, p)
    /\ \A p \in Image : p >= swept => p \in mapped
    /\ \A m \in MapObjs, p \in Int : p >= swept /\ InPages(m, p) => p \in mapped
    /\ \A m \in MapObjs, p \in Image : p >= swept => ~InPages(m, p)
    /\ \A m, n \in MapObjs, p \in Int :
          p >= swept /\ InPages(m, p) /\ InPages(n, p) => m = n

(* Every step keeps PageInv, the inductive form of PagesAccounted.  Where  *)
(* a failed mapping took pages away, later mappings may overlap what was   *)
(* there; so nothing is said of the pages below swept.                     *)
LEMMA PageInvStep == TypeOK /\ PageInv /\ [Next]_vars => PageInv'
<1> SUFFICES ASSUME TypeOK, PageInv, [Next]_vars PROVE PageInv'
  OBVIOUS
<1> USE LenAssumption, PagesAssumption DEF TypeOK, PageInv, InPages, Null, Construct,
        kernel, fdMembers, mapMembers
<1>p. ASSUME NEW m \in MapObjs, NEW d, NEW n \in 0..MaxLen,
             MapPages(m, d, n), m \notin alive, alive' = alive \cup {m},
             swept' = swept
      PROVE  PageInv'
  <2>1. PICK a \in MmapResults(d, n) :
          /\ addr' = [addr EXCEPT ![m] = a]
          /\ mapped' = mapped \cup (IF a = Null THEN {} ELSE Extent(a, n))
    BY <1>p DEF MapPages
  <2>2. addr[m] = Null /\ len' = [len EXCEPT ![m] = n]
    BY <1>p DEF MapPages
  <2>3. CASE a = Null
    BY <2>1, <2>2, <2>3, <1>p
  <2>4. CASE a # Null
    <3>1. /\ a \in LowPage..MaxPage
          /\ Extent(a, n) \subseteq (LowPage..MaxPage) \ mapped
      BY <2>1, <2>4 DEF MmapResults
    <3>2. \A p \in Int : p \in Extent(a, n) <=> a <= p /\ p < a + n
      BY <3>1 DEF Extent
    <3>3. mapped' = mapped \cup Extent(a, n)
      BY <2>1, <2>4
    <3>4. \A k \in MapObjs, p \in Int :
            InPages(k, p)' <=> IF k = m THEN p \in Extent(a, n) ELSE InPages(k, p)
      BY <2>1, <2>2, <3>1, <3>2, <2>4
    <3>5. /\ \A k \in MapObjs, p \in Int : InPages(k, p) => k # m
          /\ \A k \in MapObjs, p \in Int : p >= swept /\ InPages(k, p) => p \in mapped
          /\ mapped \subseteq Int /\ Image \subseteq Int
      BY <2>2
    <3>6. \A k \in MapObjs : addr'[k] # Null => k \in alive'
      BY <2>1, <1>p
    <3>7. a + n <= MaxPage + 1
      <4>1. n > 0
        BY <2>1, <2>4 DEF MmapResults
      <4>2. a + n - 1 \in Extent(a, n)
        BY <4>1, <3>1, <3>2
      <4> QED BY <4>2, <3>1
    <3>8. \A k \in MapObjs : addr'[k] # Null => addr'[k] + len'[k] <= MaxPage + 1
      BY <2>1, <2>2, <3>7
    <3> HIDE DEF InPages
    <3>9. \A p \in mapped' : p \in Image \/ \E k \in MapObjs : InPages(k, p)'
      <4>1. ASSUME NEW p \in Extent(a, n) PROVE \E k \in MapObjs : InPages(k, p)'
        BY <3>1, <3>4
      <4>2. ASSUME NEW p \in mapped PROVE p \in Image \/ \E k \in MapObjs : InPages(k, p)'
        BY <3>4, <3>5
      <4> QED BY <3>3, <4>1, <4>2
    <3>10. \A p \in Image : p >= swept' => p \in mapped'
      BY <1>p, <3>3
    <3>11. \A k \in MapObjs, p \in Int : p >= swept' /\ InPages(k, p)' => p \in mapped'
      BY <1>p, <3>3, <3>4, <3>5
    <3>12. \A p \in Int : p \in Extent(a, n) => p \notin mapped
      BY <3>1
    <3>13. \A k \in MapObjs, p \in Image : p >= swept' => ~InPages(k, p)'
      BY <1>p, <3>4, <3>5, <3>12
    <3>14. \A k, l \in MapObjs, p \in Int :
              p >= swept' /\ InPages(k, p)' /\ InPages(l, p)' => k = l
      BY <1>p, <3>4, <3>5, <3>12
    <3> QED BY <3>6, <3>8, <3>9, <3>10, <3>11, <3>13, <3>14, Zenon
  <2> QED BY <2>3, <2>4
<1>1. ASSUME NEW o \in FdObjs, FdDefault(o) PROVE PageInv'
  BY <1>1 DEF FdDefault
<1>2. ASSUME NEW o \in FdObjs, FdOpen(o) PROVE PageInv'
  BY <1>2 DEF FdOpen, OpenResults
<1>3. ASSUME NEW o \in FdObjs, FdReadEnd(o) PROVE PageInv'
  BY <1>3 DEF FdReadEnd
<1>4. ASSUME NEW o \in FdObjs, NEW d \in Desc, FdAdopt(o, d) PROVE PageInv'
  BY <1>4 DEF FdAdopt
<1>5. ASSUME NEW o \in FdObjs, NEW p \in FdObjs, FdMoveConstruct(o, p) PROVE PageInv'
  BY <1>5 DEF FdMoveConstruct
<1>6. ASSUME NEW o \in FdObjs, NEW p \in FdObjs, FdMoveAssign(o, p) PROVE PageInv'
  BY <1>6 DEF FdMoveAssign
<1>7. ASSUME NEW o \in FdObjs, NEW m \in MapObjs, FdMap(o, m) PROVE PageInv'
  <2>1. CASE fd[o] = NoFd
    <3>1. /\ m \notin alive /\ alive' = alive \cup {m} /\ mapped' = mapped /\ swept' = swept
          /\ addr' = [addr EXCEPT ![m] = Null] /\ len' = [len EXCEPT ![m] = 0]
      BY ONLY <1>7, <2>1 DEF FdMap, Construct
    <3> QED BY <3>1
  <2>2. CASE fd[o] # NoFd
    BY <1>7, <2>2, <1>p DEF FdMap
  <2> QED BY <2>1, <2>2
<1>8. ASSUME NEW m \in MapObjs, MapDefault(m) PROVE PageInv'
  BY <1>8 DEF MapDefault
<1>9. ASSUME NEW m \in MapObjs, NEW d \in Desc \cup {NoFd}, MapAdopt(m, d) PROVE PageInv'
  BY <1>9, <1>p DEF MapAdopt
<1>10. ASSUME NEW m \in MapObjs, NEW n \in MapObjs, MapMoveConstruct(m, n) PROVE PageInv'
  BY <1>10 DEF MapMoveConstruct
<1>11. ASSUME NEW m \in MapObjs, NEW n \in MapObjs, MapMoveAssign(m, n) PROVE PageInv'
  BY <1>11 DEF MapMoveAssign
<1>12. ASSUME NEW o \in FdObjs, FdDestroy(o) PROVE PageInv'
  BY <1>12, ObjsAssumption DEF FdDestroy
<1>13. ASSUME NEW m \in MapObjs, MapDestroy(m) PROVE PageInv'
  <2>1. /\ alive' = alive \ {m} /\ addr' = [addr EXCEPT ![m] = Null]
        /\ len' = [len EXCEPT ![m] = 0]
    BY <1>13 DEF MapDestroy
  <2>2. \A k \in MapObjs, p \in Int : InPages(k, p)' <=> k # m /\ InPages(k, p)
    BY <2>1
  <2>3. \A k \in MapObjs :
          addr'[k] # Null => k \in alive' /\ addr'[k] + len'[k] <= MaxPage + 1
    BY <2>1
  <2>4. CASE addr[m] = Null
    <3>1. /\ swept' \in Nat /\ swept <= swept'
          /\ \A p \in mapped : p >= swept' => p \in mapped'
          /\ mapped' \subseteq mapped
      BY <1>13, <2>4 DEF MapDestroy, Munmap, Extent
    <3>2. \A p \in Int : ~InPages(m, p)
      BY <2>4
    <3> HIDE DEF InPages
    <3> QED BY <2>2, <2>3, <3>1, <3>2
  <2>5. CASE addr[m] # Null
    <3>1. swept' = swept /\ mapped' = mapped \ Extent(addr[m], len[m])
      BY <1>13, <2>5 DEF MapDestroy, Munmap
    <3>2. \A p \in Int : p \in Extent(addr[m], len[m]) <=> InPages(m, p)
      BY <2>5 DEF Extent
    <3>3. mapped \subseteq Int /\ Image \subseteq Int
      OBVIOUS
    <3> HIDE DEF InPages
    <3> QED BY <2>2, <2>3, <3>1, <3>2, <3>3
  <2> QED BY <2>4, <2>5
<1>14. ASSUME NEW d \in Desc, RawOpen(d) PROVE PageInv'
  BY <1>14 DEF RawOpen
<1>15. ASSUME NEW d \in Desc, RawClose(d) PROVE PageInv'
  BY <1>15 DEF RawClose
<1>16. ASSUME Unwind PROVE PageInv'
  BY <1>16 DEF Unwind
<1>17. ASSUME Resume PROVE PageInv'
  BY <1>17 DEF Resume
<1>18. ASSUME UNCHANGED vars PROVE PageInv'
  BY <1>18 DEF vars
<1> HIDE DEF TypeOK, PageInv, Construct, kernel, fdMembers, mapMembers
<1> QED
  BY <1>1, <1>2, <1>3, <1>4, <1>5, <1>6, <1>7, <1>8, <1>9, <1>10, <1>11, <1>12, <1>13, <1>14, <1>15, <1>16, <1>17, <1>18
  DEF Next, Destroy

(* So it is an invariant. *)
LEMMA PageInvCorrect == Spec => [](TypeOK /\ PageInv)
<1>1. Init => PageInv
  BY PagesAssumption DEF Init, PageInv, InPages
<1> QED BY <1>1, TypeCorrect, PageInvStep, PTL DEF Spec

(* InPages is PagesOf, without the interval. *)
LEMMA InPagesOf ==
    ASSUME TypeOK, NEW m \in LiveMaps, NEW p
    PROVE  p \in PagesOf(m) <=> p \in Int /\ InPages(m, p)
  BY PagesAssumption, LenAssumption DEF TypeOK, LiveMaps, PagesOf, Extent, InPages, Null

(* The mapped pages are the image and the live mappings, all disjoint, but *)
(* for the first pages of the address space, as far as a failed mapping's  *)
(* munmap(nullptr, len) has reached: every other munmap takes its own      *)
(* pages and nothing else.                                                 *)
THEOREM PagesAccountedCorrect == Spec => []PagesAccounted
<1>1. TypeOK /\ PageInv => PagesAccounted
  <2> SUFFICES ASSUME TypeOK, PageInv PROVE PagesAccounted
    OBVIOUS
  <2> DEFINE pages == Image \cup UNION {PagesOf(m) : m \in LiveMaps}
  <2>1. \A m \in MapObjs : \A p : InPages(m, p) => m \in LiveMaps
    BY DEF InPages, LiveMaps
  <2>2. LiveMaps \subseteq alive
    BY DEF PageInv, LiveMaps
  <2>3. mapped \subseteq Int /\ Image \subseteq Int
    BY PagesAssumption DEF TypeOK
  <2>4. mapped \subseteq pages
    BY <2>1, <2>3, InPagesOf DEF PageInv
  <2>5. OutOfReach(pages) \subseteq mapped
    BY InPagesOf DEF PageInv, LiveMaps, OutOfReach
  <2>6. \A m \in LiveMaps : OutOfReach(PagesOf(m)) \cap Image = {}
    BY InPagesOf DEF PageInv, LiveMaps, OutOfReach
  <2>7. \A m, n \in LiveMaps : m # n => OutOfReach(PagesOf(m)) \cap PagesOf(n) = {}
    BY InPagesOf DEF PageInv, LiveMaps, OutOfReach
  <2> QED BY <2>2, <2>4, <2>5, <2>6, <2>7 DEF PagesAccounted
<1> QED BY <1>1, PageInvCorrect, PTL

-----------------------------------------------------------------------------
(* What a step may do to a descriptor and to a mapping.                    *)

(* Only three actions close: the two destructors and the client's close(). *)
LEMMA ClosesStep == TypeOK /\ DescInv /\ [Next]_vars => ClosedByOwner
<1> SUFFICES ASSUME TypeOK, DescInv, [Next]_vars PROVE ClosedByOwner
  OBVIOUS
<1>1. CASE open \subseteq open'
  BY <1>1 DEF ClosedByOwner
<1>2. ASSUME NEW o \in FdObjs, FdDestroy(o) PROVE ClosedByOwner
  BY <1>2 DEF FdDestroy, CloseDescriptor, ClosedByOwner
<1>3. ASSUME NEW m \in MapObjs, MapDestroy(m) PROVE ClosedByOwner
  BY <1>3 DEF MapDestroy, CloseDescriptor, ClosedByOwner
<1>4. ASSUME NEW d \in Desc, RawClose(d) PROVE ClosedByOwner
  BY <1>4 DEF RawClose, CloseDescriptor, ClosedByOwner
<1>5. ASSUME ~Destroy, ~\E d \in Desc : RawClose(d) PROVE open \subseteq open'
  BY <1>5 DEF Next, vars, kernel, FdDefault, FdOpen, FdReadEnd, FdAdopt, FdMoveConstruct,
              FdMoveAssign, FdMap, MapDefault, MapAdopt, MapMoveConstruct, MapMoveAssign,
              RawOpen, Unwind, Resume
<1> QED BY <1>1, <1>2, <1>3, <1>4, <1>5 DEF Destroy

(* A wrapper's descriptor is closed only by the destructor of its owner,   *)
(* never by a move or by map().                                            *)
THEOREM ClosesAreDestructionsCorrect == Spec => ClosesAreDestructions
<1>1. TypeOK /\ DescInv /\ [Next]_vars => [ClosedByOwner]_vars
  BY ClosesStep
<1> QED BY <1>1, DescInvCorrect, PTL DEF Spec, ClosesAreDestructions

(* Where each action leaves a mapping that it does not destroy: in m, or   *)
(* in the object it is moved to.                                           *)
LEMMA StableStep ==
    TypeOK /\ PageInv /\ [Next]_vars => \A m \in LiveMaps : MappingStays(m)
<1> SUFFICES ASSUME TypeOK, PageInv, [Next]_vars, NEW m \in LiveMaps, m \in alive'
             PROVE  /\ \E n \in alive' : /\ n \in MapObjs
                                         /\ addr'[n] = addr[m]
                                         /\ len'[n] = len[m]
                                         /\ fd'[n] = fd[m]
                    /\ \A p \in PagesOf(m) : p >= swept' => p \in mapped'
  BY DEF MappingStays
<1>m. m \in MapObjs /\ m \in alive /\ addr[m] # Null /\ PagesOf(m) \subseteq Int
      /\ \A p \in PagesOf(m) : p >= swept => p \in mapped
  BY InPagesOf DEF LiveMaps, PageInv
<1> DEFINE At(n) == n \in alive' /\ n \in MapObjs /\ addr'[n] = addr[m]
                    /\ len'[n] = len[m] /\ fd'[n] = fd[m]
           Stay == \A p \in PagesOf(m) : p >= swept' => p \in mapped'
           Goal == Stay /\ \E n \in MapObjs : At(n)
<1> USE ObjsAssumption, <1>m DEF TypeOK, Construct, Objs, kernel, fdMembers, mapMembers
<1>1. ASSUME NEW o \in FdObjs, FdDefault(o) PROVE Goal
  BY <1>1 DEF FdDefault
<1>2. ASSUME NEW o \in FdObjs, FdOpen(o) PROVE Goal
  BY <1>2 DEF FdOpen
<1>3. ASSUME NEW o \in FdObjs, FdReadEnd(o) PROVE Goal
  BY <1>3 DEF FdReadEnd
<1>4. ASSUME NEW o \in FdObjs, NEW d \in Desc, FdAdopt(o, d) PROVE Goal
  BY <1>4 DEF FdAdopt
<1>5. ASSUME NEW o \in FdObjs, NEW p \in FdObjs, FdMoveConstruct(o, p) PROVE Goal
  BY <1>5 DEF FdMoveConstruct
<1>6. ASSUME NEW o \in FdObjs, NEW p \in FdObjs, FdMoveAssign(o, p) PROVE Goal
  BY <1>6 DEF FdMoveAssign
<1>7. ASSUME NEW o \in FdObjs, NEW k \in MapObjs, FdMap(o, k) PROVE Goal
  <2>1. At(m)
    BY <1>7 DEF FdMap, MapPages
  <2>2. mapped \subseteq mapped' /\ swept' = swept
    BY <1>7 DEF FdMap, MapPages
  <2> QED BY <2>1, <2>2
<1>8. ASSUME NEW k \in MapObjs, MapDefault(k) PROVE Goal
  <2>1. At(m)
    BY <1>8 DEF MapDefault
  <2> QED BY <2>1, <1>8 DEF MapDefault
<1>9. ASSUME NEW k \in MapObjs, NEW d \in Desc \cup {NoFd}, MapAdopt(k, d) PROVE Goal
  <2>1. At(m)
    BY <1>9 DEF MapAdopt, MapPages
  <2>2. mapped \subseteq mapped' /\ swept' = swept
    BY <1>9 DEF MapAdopt, MapPages
  <2> QED BY <2>1, <2>2
<1>10. ASSUME NEW k \in MapObjs, NEW n \in MapObjs, MapMoveConstruct(k, n) PROVE Goal
  <2>1. At(IF m = n THEN k ELSE m)
    BY <1>10 DEF MapMoveConstruct
  <2> QED BY <2>1, <1>10 DEF MapMoveConstruct
<1>11. ASSUME NEW k \in MapObjs, NEW n \in MapObjs, MapMoveAssign(k, n) PROVE Goal
  <2>1. At(IF m = n THEN k ELSE IF m = k THEN n ELSE m)
    BY <1>11 DEF MapMoveAssign
  <2> QED BY <2>1, <1>11 DEF MapMoveAssign
<1>12. ASSUME NEW o \in FdObjs, FdDestroy(o) PROVE Goal
  <2>1. At(m)
    BY <1>12 DEF FdDestroy
  <2> QED BY <2>1, <1>12 DEF FdDestroy
<1>13. ASSUME NEW k \in MapObjs, MapDestroy(k) PROVE Goal
  <2>1. k # m
    BY <1>13 DEF MapDestroy
  <2>2. At(m)
    BY <1>13, <2>1 DEF MapDestroy
  <2>3. CASE addr[k] = Null
    <3>1. \A p \in mapped : p >= swept' => p \in mapped' /\ p >= swept
      BY <1>13, <2>3, PagesAssumption, LenAssumption DEF MapDestroy, Munmap, Extent, Null
    <3>2. swept <= swept' /\ swept \in Int /\ swept' \in Int
      BY <1>13, <2>3, PagesAssumption, LenAssumption DEF MapDestroy
    <3> QED BY <2>2, <3>1, <3>2
  <2>4. CASE addr[k] # Null
    <3>1. k \in LiveMaps /\ swept' = swept
      BY <1>13, <2>4 DEF LiveMaps, MapDestroy
    <3>2. mapped \ PagesOf(k) \subseteq mapped'
      BY <1>13 DEF MapDestroy, Munmap, PagesOf
    <3>3. \A p \in PagesOf(m) : p >= swept => p \notin PagesOf(k)
      BY <2>1, <3>1, InPagesOf DEF PageInv
    <3> QED BY <2>2, <3>1, <3>2, <3>3
  <2> QED BY <2>3, <2>4
<1>14. ASSUME NEW d \in Desc, RawOpen(d) PROVE Goal
  BY <1>14 DEF RawOpen
<1>15. ASSUME NEW d \in Desc, RawClose(d) PROVE Goal
  BY <1>15 DEF RawClose
<1>16. ASSUME Unwind PROVE Goal
  BY <1>16 DEF Unwind
<1>17. ASSUME Resume PROVE Goal
  BY <1>17 DEF Resume
<1>18. ASSUME UNCHANGED vars PROVE Goal
  BY <1>18 DEF vars
<1> HIDE DEF Goal, TypeOK, Construct, Objs, kernel, fdMembers, mapMembers
<1>19. Goal
  BY <1>1, <1>2, <1>3, <1>4, <1>5, <1>6, <1>7, <1>8, <1>9, <1>10, <1>11, <1>12,
     <1>13, <1>14, <1>15, <1>16, <1>17, <1>18
  DEF Next, Destroy
<1> QED BY <1>19 DEF Goal

(* A mapping keeps its address, length and descriptor, and its pages, in   *)
(* some live object, through every move, until it is destroyed.            *)
THEOREM MappingsAreStableCorrect == Spec => MappingsAreStable
<1>1. TypeOK /\ PageInv /\ [Next]_vars => [\A m \in LiveMaps : MappingStays(m)]_vars
  BY StableStep
<1> QED BY <1>1, PageInvCorrect, PTL DEF Spec, MappingsAreStable

-----------------------------------------------------------------------------
(* Handles implements UniqueOwnership.                                     *)

HolderChar ==
    /\ holder \in [Desc -> Objs \cup {"outside", "nobody"}]
    /\ \A d \in Desc : /\ holder[d] = "outside" <=> d \in foreign
                       /\ \A x \in Objs : holder[d] = x <=> fd[x] = d
                       /\ holder[d] = "nobody" <=> d \notin open

(* With unique owners, the mapping to the abstract module is what it       *)
(* should be.                                                              *)
LEMMA HolderIs == TypeOK /\ DescInv => HolderChar
<1> SUFFICES ASSUME TypeOK, DescInv PROVE HolderChar
  OBVIOUS
<1>1. ASSUME NEW d \in Desc, d \in foreign PROVE holder[d] = "outside" /\ d \in open
  BY <1>1 DEF holder, DescInv, OpenIffOwned
<1>2. ASSUME NEW d \in Desc, NEW x \in Objs, fd[x] = d
      PROVE  holder[d] = x /\ d \in open /\ d \notin foreign
  <2>1. d \notin foreign /\ d \in open
    BY <1>2 DEF DescInv, UniqueOwner, OpenIffOwned
  <2>2. \A y \in Objs : fd[y] = d => y = x
    BY <1>2, DescAssumption DEF DescInv, UniqueOwner, NoFd
  <2>3. (CHOOSE y \in Objs : fd[y] = d) = x
    BY <1>2, <2>2
  <2> QED BY <2>1, <2>3, <1>2 DEF holder
<1>3. ASSUME NEW d \in Desc, d \notin foreign, \A x \in Objs : fd[x] # d
      PROVE  holder[d] = "nobody" /\ d \notin open
  BY <1>3 DEF holder, DescInv, OpenIffOwned
<1>4. \A x \in Objs : x # "outside" /\ x # "nobody"
  BY NamesAssumption DEF Objs
<1>5. \A d \in Desc : holder[d] \in Objs \cup {"outside", "nobody"}
  BY <1>1, <1>2, <1>3
<1>6. holder \in [Desc -> Objs \cup {"outside", "nobody"}]
  <2>1. holder = [d \in Desc |-> holder[d]]
    BY DEF holder
  <2> QED BY <2>1, <1>5
<1>7. ASSUME NEW d \in Desc
      PROVE  /\ holder[d] = "outside" <=> d \in foreign
             /\ \A x \in Objs : holder[d] = x <=> fd[x] = d
             /\ holder[d] = "nobody" <=> d \notin open
  <2>1. CASE d \in foreign
    BY <2>1, <1>1, <1>2, <1>4
  <2>2. CASE \E x \in Objs : fd[x] = d
    BY <2>2, <1>2, <1>4
  <2>3. CASE d \notin foreign /\ \A x \in Objs : fd[x] # d
    BY <2>3, <1>3, <1>4
  <2> QED BY <2>1, <2>2, <2>3
<1> QED BY <1>6, <1>7 DEF HolderChar

(* Enough of a step for the abstract one: what becomes of each descriptor, *)
(* in terms of fd, foreign and open.                                       *)
Keeps(d) == /\ d \in open' <=> d \in open
            /\ d \in foreign' <=> d \in foreign
            /\ \A x \in Objs : fd'[x] = d <=> fd[x] = d

(* A descriptor for which nothing changes keeps its holder. *)
LEMMA KeepsHolder ==
    ASSUME HolderChar, HolderChar', NEW d \in Desc, Keeps(d)
    PROVE  holder'[d] = holder[d]
  BY DEF HolderChar, Keeps

(* Steps that leave every descriptor alone are steps of neither. *)
LEMMA StutterStep ==
    ASSUME HolderChar, HolderChar', \A d \in Desc : Keeps(d)
    PROVE  holder' = holder
  BY KeepsHolder DEF HolderChar

(* fd -1: the wrapper holds nothing. *)
LEMMA HoldsNothing ==
    ASSUME HolderChar, NEW w \in Objs, fd[w] = NoFd
    PROVE  Ownership!Holds(w) = {}
<1>1. NoFd \notin Desc
  BY DescAssumption DEF NoFd
<1>2. \A r \in Desc : holder[r] # w
  BY <1>1 DEF HolderChar
<1> QED BY <1>2 DEF Ownership!Holds

(* The holder of an object's descriptor is that object. *)
LEMMA HolderOf ==
    ASSUME HolderChar, NEW w \in Objs, fd[w] \in Desc
    PROVE  holder[fd[w]] = w
  BY DEF HolderChar

(* What an object holds is open. *)
LEMMA HoldsIt ==
    ASSUME HolderChar, NEW w \in Objs, fd[w] \in Desc
    PROVE  fd[w] \in open /\ Ownership!Holds(w) # {}
<1>1. holder[fd[w]] = w
  BY HolderOf
<1>2. w # "nobody"
  BY NamesAssumption DEF Objs
<1>3. fd[w] \in Ownership!Holds(w)
  BY <1>1 DEF Ownership!Holds
<1> QED BY <1>1, <1>2, <1>3 DEF HolderChar

(* open(): by a wrapper or by the rest of the program. *)
LEMMA AcquireStep ==
    ASSUME HolderChar, HolderChar', NEW d \in Desc, d \notin open,
           NEW h \in Objs \cup {"outside"},
           h \in Objs => fd[h] = NoFd /\ fd'[h] = d,
           h = "outside" => d \in foreign',
           \A e \in Desc \ {d} : Keeps(e)
    PROVE  Ownership!Next
<1>1. holder[d] = "nobody" /\ holder'[d] = h
  BY DEF HolderChar
<1>2. \A e \in Desc \ {d} : holder'[e] = holder[e]
  BY KeepsHolder
<1>3. holder' = [holder EXCEPT ![d] = h]
  BY <1>1, <1>2 DEF HolderChar
<1>4. h \in Objs => Ownership!Holds(h) = {}
  BY HoldsNothing
<1>5. Ownership!Acquire(d, h)
  BY <1>1, <1>3, <1>4 DEF Ownership!Acquire
<1> QED BY <1>5 DEF Ownership!Next, Ownership!Holders

(* A move to an empty object, an adoption, or map(). *)
LEMMA HandOverStep ==
    ASSUME HolderChar, HolderChar', NEW d \in Desc, d \in open,
           NEW w \in Objs, fd[w] = NoFd, fd'[w] = d,
           \A e \in Desc \ {d} : Keeps(e)
    PROVE  Ownership!Next
<1>1. holder[d] \in Objs \cup {"outside"} /\ holder'[d] = w
  BY DEF HolderChar
<1>2. \A e \in Desc \ {d} : holder'[e] = holder[e]
  BY KeepsHolder
<1>3. holder' = [holder EXCEPT ![d] = w]
  BY <1>1, <1>2 DEF HolderChar
<1>4. Ownership!Holds(w) = {}
  BY HoldsNothing
<1>5. Ownership!HandOver(d, w)
  BY <1>1, <1>3, <1>4 DEF Ownership!HandOver, Ownership!Holders
<1> QED BY <1>5 DEF Ownership!Next

(* close() *)
LEMMA ReleaseStep ==
    ASSUME HolderChar, HolderChar', NEW d \in Desc, d \in open, d \notin open',
           \A e \in Desc \ {d} : Keeps(e)
    PROVE  Ownership!Next
<1>1. holder[d] \in Objs \cup {"outside"} /\ holder'[d] = "nobody"
  BY DEF HolderChar
<1>2. \A e \in Desc \ {d} : holder'[e] = holder[e]
  BY KeepsHolder
<1>3. holder' = [holder EXCEPT ![d] = "nobody"]
  BY <1>1, <1>2 DEF HolderChar
<1>4. Ownership!Release(d)
  BY <1>1, <1>3 DEF Ownership!Release, Ownership!Holders
<1> QED BY <1>4 DEF Ownership!Next

(* swap(), of two fd_t or of two mmap_t *)
LEMMA SwapStep ==
    ASSUME TypeOK, HolderChar, HolderChar', NEW v \in Objs, NEW w \in Objs,
           open' = open, foreign' = foreign,
           fd' = [fd EXCEPT ![v] = fd[w], ![w] = fd[v]]
    PROVE  Ownership!Next \/ holder' = holder
<1> USE DescAssumption DEF TypeOK, NoFd
<1>0. \A x \in Objs : /\ fd[x] \in Desc \cup {NoFd}
                      /\ fd'[x] = (IF x = v THEN fd[w] ELSE IF x = w THEN fd[v] ELSE fd[x])
  OBVIOUS
<1>u. \A x, y \in Objs : x # y /\ fd[x] \in Desc => fd[x] # fd[y]
  <2>1. ASSUME NEW x \in Objs, NEW y \in Objs, fd[x] \in Desc, fd[x] = fd[y] PROVE x = y
    <3>1. holder[fd[x]] = x /\ holder[fd[y]] = y
      BY <2>1, HolderOf
    <3> QED BY <3>1, <2>1
  <2> QED BY <2>1
<1>1. CASE fd[v] = fd[w]
  BY <1>1, <1>0, StutterStep DEF Keeps
<1>2. CASE fd[v] # fd[w] /\ fd[v] = NoFd
  <2>1. fd[w] \in Desc /\ fd'[v] = fd[w]
    BY <1>2, <1>0
  <2>2. fd[w] \in open
    BY <2>1, HoldsIt
  <2>3. \A e \in Desc \ {fd[w]} : Keeps(e)
    BY <1>2, <1>0, <1>u DEF Keeps
  <2> QED BY <2>1, <2>2, <2>3, <1>2, HandOverStep
<1>3. CASE fd[v] # fd[w] /\ fd[w] = NoFd
  <2>1. fd[v] \in Desc /\ fd'[w] = fd[v]
    BY <1>3, <1>0
  <2>2. fd[v] \in open
    BY <2>1, HoldsIt
  <2>3. \A e \in Desc \ {fd[v]} : Keeps(e)
    BY <1>3, <1>0, <1>u DEF Keeps
  <2> QED BY <2>1, <2>2, <2>3, <1>3, HandOverStep
<1>4. CASE fd[v] # fd[w] /\ fd[v] # NoFd /\ fd[w] # NoFd
  <2>1. \A e \in Desc : holder'[e] = CASE holder[e] = v -> w
                                       [] holder[e] = w -> v
                                       [] OTHER -> holder[e]
    BY <1>4, <1>0 DEF HolderChar
  <2>2. holder' = [e \in Desc |-> CASE holder[e] = v -> w
                                    [] holder[e] = w -> v
                                    [] OTHER -> holder[e]]
    BY <2>1 DEF HolderChar
  <2>3. Ownership!Holds(v) # {} /\ Ownership!Holds(w) # {}
    BY <1>4, <1>0, HoldsIt
  <2>4. Ownership!Exchange(v, w)
    BY <2>2, <2>3 DEF Ownership!Exchange
  <2> QED BY <2>4 DEF Ownership!Next
<1> QED BY <1>1, <1>2, <1>3, <1>4

(* Every step of the wrappers is one of unique ownership, or a stutter. *)
LEMMA RefinementStep ==
    TypeOK /\ DescInv /\ TypeOK' /\ DescInv' /\ [Next]_vars => [Ownership!Next]_holder
<1> SUFFICES ASSUME TypeOK, DescInv, TypeOK', DescInv', [Next]_vars
             PROVE  Ownership!Next \/ holder' = holder
  OBVIOUS
<1> DEFINE Step == Ownership!Next \/ holder' = holder
<1>a. HolderChar /\ HolderChar'
  BY HolderIs, PTL
<1>b. \A x \in Objs \ alive : fd[x] = NoFd
  BY DEF DescInv, DeadHoldNothing
<1> USE <1>a, <1>b, DescAssumption, ObjsAssumption
    DEF TypeOK, Construct, Objs, NoFd, kernel, fdMembers, mapMembers
<1>1. ASSUME NEW o \in FdObjs, FdDefault(o) PROVE Step
  BY <1>1, StutterStep DEF FdDefault, Keeps
<1>2. ASSUME NEW o \in FdObjs, FdOpen(o) PROVE Step
  <2>1. PICK d \in OpenResults : open' = open \cup ({d} \ {NoFd}) /\ fd' = [fd EXCEPT ![o] = d]
    BY <1>2 DEF FdOpen
  <2>2. CASE d = NoFd
    BY <2>1, <2>2, <1>2, StutterStep DEF FdOpen, Keeps
  <2>3. CASE d # NoFd
    <3>1. d \in Desc /\ d \notin open /\ fd[o] = NoFd /\ fd'[o] = d
      BY <2>1, <2>3, <1>2 DEF OpenResults, FdOpen
    <3>2. \A e \in Desc \ {d} : Keeps(e)
      BY <2>1, <2>3, <3>1, <1>2 DEF FdOpen, Keeps
    <3>3. o \in Objs /\ o # "outside"
      BY NamesAssumption
    <3> QED BY <3>1, <3>2, <3>3, AcquireStep
  <2> QED BY <2>2, <2>3
<1>3. ASSUME NEW o \in FdObjs, FdReadEnd(o) PROVE Step
  BY <1>3, StutterStep DEF FdReadEnd, Keeps
<1>4. ASSUME NEW o \in FdObjs, NEW d \in Desc, FdAdopt(o, d) PROVE Step
  <2>1. d \in open /\ fd[o] = NoFd /\ fd'[o] = d
    BY <1>4 DEF FdAdopt, DescInv, OpenIffOwned
  <2>2. \A e \in Desc \ {d} : Keeps(e)
    BY <1>4, <2>1 DEF FdAdopt, Keeps
  <2> QED BY <2>1, <2>2, HandOverStep
<1>5. ASSUME NEW o \in FdObjs, NEW p \in FdObjs, FdMoveConstruct(o, p) PROVE Step
  <2>1. /\ open' = open /\ foreign' = foreign /\ fd[o] = NoFd
        /\ fd' = [fd EXCEPT ![o] = fd[p], ![p] = fd[o]]
    BY <1>5 DEF FdMoveConstruct
  <2> QED BY <2>1, SwapStep
<1>6. ASSUME NEW o \in FdObjs, NEW p \in FdObjs, FdMoveAssign(o, p) PROVE Step
  BY <1>6, SwapStep DEF FdMoveAssign
<1>7. ASSUME NEW o \in FdObjs, NEW m \in MapObjs, FdMap(o, m) PROVE Step
  <2>1. fd[m] = NoFd /\ open' = open /\ foreign' = foreign /\ m # o
    BY <1>7 DEF FdMap
  <2>2. fd' = [fd EXCEPT ![o] = fd[m], ![m] = fd[o]]
    BY <1>7, <2>1 DEF FdMap
  <2> QED BY <2>1, <2>2, SwapStep
<1>8. ASSUME NEW m \in MapObjs, MapDefault(m) PROVE Step
  BY <1>8, StutterStep DEF MapDefault, Keeps
<1>9. ASSUME NEW m \in MapObjs, NEW d \in Desc \cup {NoFd}, MapAdopt(m, d) PROVE Step
  <2>1. fd[m] = NoFd /\ open' = open /\ foreign' = foreign \ {d} /\ fd' = [fd EXCEPT ![m] = d]
    BY <1>9 DEF MapAdopt
  <2>2. CASE d = NoFd
    BY <2>1, <2>2, StutterStep DEF Keeps
  <2>3. CASE d \in Desc
    <3>1. d \in open /\ fd'[m] = d
      BY <2>1, <2>3, <1>9 DEF MapAdopt, DescInv, OpenIffOwned
    <3>2. \A e \in Desc \ {d} : Keeps(e)
      BY <2>1, <2>3 DEF Keeps
    <3> QED BY <2>1, <2>3, <3>1, <3>2, HandOverStep
  <2> QED BY <2>2, <2>3
<1>10. ASSUME NEW m \in MapObjs, NEW n \in MapObjs, MapMoveConstruct(m, n) PROVE Step
  <2>1. /\ open' = open /\ foreign' = foreign /\ fd[m] = NoFd
        /\ fd' = [fd EXCEPT ![m] = fd[n], ![n] = fd[m]]
    BY <1>10 DEF MapMoveConstruct
  <2> QED BY <2>1, SwapStep
<1>11. ASSUME NEW m \in MapObjs, NEW n \in MapObjs, MapMoveAssign(m, n) PROVE Step
  BY <1>11, SwapStep DEF MapMoveAssign
<1>d. ASSUME NEW x \in Objs, foreign' = foreign, fd' = [fd EXCEPT ![x] = NoFd],
             IF fd[x] # NoFd THEN CloseDescriptor(fd[x]) ELSE UNCHANGED <<open, sawEnd>>
      PROVE  Step
  <2>1. CASE fd[x] = NoFd
    BY <2>1, <1>d, StutterStep DEF Keeps
  <2>2. CASE fd[x] # NoFd
    <3>1. fd[x] \in Desc /\ open' = open \ {fd[x]}
      BY <2>2, <1>d DEF CloseDescriptor
    <3>2. fd[x] \in open
      BY <3>1, HoldsIt
    <3>3. \A e \in Desc \ {fd[x]} : Keeps(e)
      BY <3>1, <1>d DEF Keeps
    <3> QED BY <3>1, <3>2, <3>3, ReleaseStep
  <2> QED BY <2>1, <2>2
<1>12. ASSUME NEW o \in FdObjs, FdDestroy(o) PROVE Step
  BY <1>12, <1>d DEF FdDestroy
<1>13. ASSUME NEW m \in MapObjs, MapDestroy(m) PROVE Step
  BY <1>13, <1>d DEF MapDestroy
<1>14. ASSUME NEW d \in Desc, RawOpen(d) PROVE Step
  <2>1. /\ d \notin open /\ open' = open \cup {d} /\ foreign' = foreign \cup {d}
        /\ fd' = fd
    BY <1>14 DEF RawOpen
  <2>2. \A e \in Desc \ {d} : Keeps(e)
    BY <2>1 DEF Keeps
  <2>3. "outside" \notin Objs
    BY NamesAssumption
  <2> QED BY <2>1, <2>2, <2>3, AcquireStep
<1>15. ASSUME NEW d \in Desc, RawClose(d) PROVE Step
  <2>1. /\ d \in open /\ open' = open \ {d} /\ foreign' = foreign \ {d} /\ fd' = fd
    BY <1>15 DEF RawClose, CloseDescriptor, DescInv, OpenIffOwned
  <2>2. \A e \in Desc \ {d} : Keeps(e)
    BY <2>1 DEF Keeps
  <2> QED BY <2>1, <2>2, ReleaseStep
<1>16. ASSUME Unwind PROVE Step
  BY <1>16, StutterStep DEF Unwind, Keeps
<1>17. ASSUME Resume PROVE Step
  BY <1>17, StutterStep DEF Resume, Keeps
<1>18. ASSUME UNCHANGED vars PROVE Step
  BY <1>18, StutterStep DEF vars, Keeps
<1> HIDE DEF Step, TypeOK, Construct, Objs, NoFd, kernel, fdMembers, mapMembers
<1>19. Step
  BY <1>1, <1>2, <1>3, <1>4, <1>5, <1>6, <1>7, <1>8, <1>9, <1>10, <1>11, <1>12,
     <1>13, <1>14, <1>15, <1>16, <1>17, <1>18
  DEF Next, Destroy
<1> QED BY <1>19 DEF Step

(* fd_t and mmap_t implement unique ownership of file descriptors: each is *)
(* acquired, handed over, exchanged and released as UniqueOwnership says.  *)
THEOREM ImplementsOwnershipCorrect == Spec => ImplementsOwnership
<1>1. Init => Ownership!Init
  BY DescAssumption DEF Init, holder, Ownership!Init, NoFd
<1>2. [](TypeOK /\ DescInv) /\ [][Next]_vars => [][Ownership!Next]_holder
  BY RefinementStep, PTL
<1> QED BY <1>1, <1>2, DescInvCorrect, PTL DEF Spec, ImplementsOwnership, Ownership!Spec

-----------------------------------------------------------------------------
(* Leaving scopes: the steps of UnwindingReleases, without its fairness.   *)

(* Where no object is left the wrappers have given back every descriptor   *)
(* and every page, whatever was done before, and of the image at most what *)
(* failed mappings reach is gone (~fd_t, ~mmap_t).                         *)
THEOREM NoneLeftReleased == Spec => [](alive = {} => AllReleased)
<1>1. NothingLeaks /\ PagesAccounted => (alive = {} => AllReleased)
  <2> SUFFICES ASSUME NothingLeaks, PagesAccounted, alive = {} PROVE AllReleased
    OBVIOUS
  <2>1. Owned = {} /\ LiveMaps = {}
    BY DEF Owned, PagesAccounted
  <2>2. Image \cup UNION {PagesOf(m) : m \in LiveMaps} = Image
    BY <2>1
  <2>3. open = foreign
    BY <2>1 DEF NothingLeaks
  <2> QED BY <2>2, <2>3 DEF PagesAccounted, AllReleased
<1> QED BY <1>1, NothingLeaksCorrect, PagesAccountedCorrect, PTL

(* A program that leaves scopes makes no object, goes on until there is    *)
(* none, and each destructor takes one away.                               *)
Shrinks == /\ unwinding => alive' \subseteq alive
           /\ unwinding /\ ~unwinding' => alive = {}
           /\ Destroy => alive' \subseteq alive /\ alive' # alive

THEOREM UnwindingShrinks == Spec => [][Shrinks]_vars
<1>1. [Next]_vars => [Shrinks]_vars
  <2> SUFFICES ASSUME Next PROVE Shrinks
    OBVIOUS
  <2>1. ASSUME Destroy PROVE Shrinks
    BY <2>1 DEF Destroy, FdDestroy, MapDestroy, Shrinks
  <2>2. ASSUME ~unwinding, ~Destroy PROVE Shrinks
    BY <2>2 DEF Shrinks
  <2>3. ASSUME NEW d \in Desc, RawClose(d), ~Destroy PROVE Shrinks
    BY <2>3 DEF RawClose, Shrinks
  <2>4. ASSUME Resume, ~Destroy PROVE Shrinks
    BY <2>4 DEF Resume, Shrinks
  <2>5. ASSUME unwinding, ~Destroy PROVE Resume \/ \E d \in Desc : RawClose(d)
    BY <2>5 DEF Next, Construct, FdDefault, FdOpen, FdReadEnd, FdAdopt, FdMoveConstruct,
         FdMoveAssign, FdMap, MapDefault, MapAdopt, MapMoveConstruct, MapMoveAssign, RawOpen,
         Unwind
  <2> QED BY <2>1, <2>2, <2>3, <2>4, <2>5
<1> QED BY <1>1, PTL DEF Spec
=============================================================================
