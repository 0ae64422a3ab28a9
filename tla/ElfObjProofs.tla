---------------------------- MODULE ElfObjProofs ----------------------------
(* Theorems about ElfObj for every set of objects and files.               *)
EXTENDS ElfObj, TLAPS

-----------------------------------------------------------------------------
(* The members keep their types through every constructor, implicit move,  *)
(* setter and destructor, and nothing is mapped without its descriptor.    *)
THEOREM TypeCorrect == Spec => []TypeOK
<1>1. Init => TypeOK
  BY DEF Init, TypeOK, Blank
<1>2. TypeOK /\ [Next]_vars => TypeOK'
  <2> SUFFICES ASSUME TypeOK, [Next]_vars PROVE TypeOK'
    OBVIOUS
  <2> USE DEF TypeOK, Construct, kernel
  <2>b. Blank \in [Parts -> Files \cup {None}]
    BY DEF Blank
  <2>1. ASSUME NEW o \in Objs, Default(o) PROVE TypeOK'
    BY <2>1, <2>b DEF Default
  <2>2. ASSUME NEW o \in Objs, Load(o) PROVE TypeOK'
    <3>1. \A f \in Files : Loaded(f) \subseteq [Parts -> Files \cup {None}]
      BY DEF Loaded
    <3>2. from' \in [Objs -> [Parts -> Files \cup {None}]]
      BY <2>2, <2>b, <3>1 DEF Load
    <3>3. map' \in [Objs -> Files \cup {None}]
      BY <2>2 DEF Load
    <3>4. constructed' \in [Objs -> BOOLEAN]
      BY <2>2 DEF Load
    <3>5. mapped' \subseteq held' /\ held' \subseteq Files
      BY <2>2 DEF Load
    <3>6. alive' \subseteq Objs /\ disturbed' \subseteq alive'
      BY <2>2 DEF Load
    <3> QED BY <3>2, <3>3, <3>4, <3>5, <3>6
  <2>3. ASSUME NEW o \in Objs, Destroy(o) PROVE TypeOK'
    BY <2>3, <2>b DEF Destroy
  <2>4. ASSUME NEW o \in Objs, NEW p \in Objs, MoveConstruct(o, p) PROVE TypeOK'
    BY <2>4 DEF MoveConstruct, Disturb
  <2>5. ASSUME NEW o \in Objs, NEW p \in Objs, MoveAssign(o, p) PROVE TypeOK'
    BY <2>5 DEF MoveAssign, Disturb
  <2>6. ASSUME NEW o \in Objs, NEW p \in Objs, NEW part \in Settable, Set(o, part, p)
        PROVE TypeOK'
    <3>1. part \in Parts
      BY SettableAssumption
    <3> QED BY <2>6, <3>1 DEF Set
  <2>7. CASE UNCHANGED vars
    BY <2>7 DEF vars
  <2> HIDE DEF TypeOK
  <2> QED BY <2>1, <2>2, <2>3, <2>4, <2>5, <2>6, <2>7 DEF Next
<1> QED BY <1>1, <1>2, PTL DEF Spec

-----------------------------------------------------------------------------
(* A place without an object has nothing in its map member.  With this,    *)
(* HeldOnce is inductive: a construction overwrites the member.            *)
DeadIsEmpty == \A o \in Objs \ alive : map[o] = None

HeldInv == TypeOK /\ DeadIsEmpty /\ HeldOnce

(* Every construction, move and destruction keeps what is open in exactly  *)
(* one live object.                                                        *)
LEMMA HeldInvStep == HeldInv /\ [Next]_vars /\ TypeOK' => HeldInv'
<1> SUFFICES ASSUME HeldInv, [Next]_vars, TypeOK' PROVE HeldInv'
  OBVIOUS
<1> USE NoneAssumption DEF HeldInv, TypeOK, DeadIsEmpty, HeldOnce, Construct, kernel
<1>1. ASSUME NEW o \in Objs, Default(o) PROVE HeldInv'
  BY <1>1 DEF Default
<1>2. ASSUME NEW o \in Objs, Load(o) PROVE HeldInv'
  <2>1. CASE UNCHANGED <<held, map>>
    BY <1>2, <2>1 DEF Load
  <2>2. ASSUME NEW f \in Files \ held,
               map' = [map EXCEPT ![o] = f], held' = held \cup {f}
        PROVE  HeldInv'
    <3>1. o \notin alive /\ alive' = alive \cup {o}
      BY <1>2 DEF Load
    <3>2. map'[o] = f /\ \A p \in Objs : p # o => map'[p] = map[p]
      BY <2>2
    <3>3. \A p \in alive : map[p] # f
      BY <2>2, NoneAssumption
    <3>4. held' = {map'[p] : p \in alive'} \ {None}
      BY <2>2, <3>1, <3>2
    <3> QED BY <3>1, <3>2, <3>3, <3>4
  <2> QED BY <1>2, <2>1, <2>2 DEF Load
<1>3. ASSUME NEW o \in Objs, Destroy(o) PROVE HeldInv'
  BY <1>3 DEF Destroy
<1>4. ASSUME NEW o \in Objs, NEW p \in Objs, MoveConstruct(o, p) PROVE HeldInv'
  BY <1>4 DEF MoveConstruct
<1>5. ASSUME NEW o \in Objs, NEW p \in Objs, MoveAssign(o, p) PROVE HeldInv'
  BY <1>5 DEF MoveAssign
<1>6. ASSUME NEW o \in Objs, NEW p \in Objs, NEW part \in Settable, Set(o, part, p)
      PROVE HeldInv'
  BY <1>6 DEF Set
<1>7. CASE UNCHANGED vars
  BY <1>7 DEF vars
<1> HIDE DEF HeldInv
<1> QED BY <1>1, <1>2, <1>3, <1>4, <1>5, <1>6, <1>7 DEF Next

LEMMA HeldInvCorrect == Spec => []HeldInv
<1>1. Init => HeldInv
  BY DEF Init, HeldInv, TypeOK, Blank, DeadIsEmpty, HeldOnce
<1> QED BY <1>1, HeldInvStep, TypeCorrect, PTL DEF Spec

(* An open descriptor or a mapping is in exactly one live object.          *)
THEOREM HeldOnceCorrect == Spec => []HeldOnce
<1>1. HeldInv => HeldOnce
  BY DEF HeldInv
<1> QED BY <1>1, HeldInvCorrect, PTL

-----------------------------------------------------------------------------
(* The members of an undisturbed object are of its own mapped file.  A     *)
(* move keeps this because everything, the mapping and the pointers, comes *)
(* from one object, which is itself disturbed from then on.                *)
THEOREM OneFileCorrect == Spec => []OneFile
<1>1. Init => OneFile
  BY DEF Init, OneFile
<1>2. HeldInv /\ OneFile /\ [Next]_vars => OneFile'
  <2> SUFFICES ASSUME HeldInv, OneFile, [Next]_vars PROVE OneFile'
    OBVIOUS
  <2> USE DEF HeldInv, TypeOK, DeadIsEmpty, OneFile, Construct, kernel
  <2>1. ASSUME NEW o \in Objs, Default(o) PROVE OneFile'
    BY <2>1 DEF Default, Blank
  <2>2. ASSUME NEW o \in Objs, Load(o) PROVE OneFile'
    <3>1. ASSUME from' = [from EXCEPT ![o] = Blank], alive' = alive \cup {o},
                 disturbed' = disturbed, mapped' = mapped,
                 \A p \in Objs : p # o => map'[p] = map[p]
          PROVE  OneFile'
      BY <3>1 DEF Blank
    <3>2. ASSUME NEW f \in Files, NEW parts \in Loaded(f),
                 from' = [from EXCEPT ![o] = parts], alive' = alive \cup {o},
                 map' = [map EXCEPT ![o] = f], mapped' = mapped \cup {f},
                 disturbed' = disturbed
          PROVE  OneFile'
      BY <3>2 DEF Loaded
    <3> QED BY <2>2, <3>1, <3>2 DEF Load
  <2>3. ASSUME NEW o \in Objs, Destroy(o) PROVE OneFile'
    BY <2>3, NoneAssumption DEF Destroy, HeldOnce
  <2>4. ASSUME NEW o \in Objs, NEW p \in Objs, MoveConstruct(o, p) PROVE OneFile'
    BY <2>4 DEF MoveConstruct, Disturb
  <2>5. ASSUME NEW o \in Objs, NEW p \in Objs, MoveAssign(o, p) PROVE OneFile'
    BY <2>5 DEF MoveAssign, Disturb
  <2>6. ASSUME NEW o \in Objs, NEW p \in Objs, NEW part \in Settable, Set(o, part, p)
        PROVE OneFile'
    BY <2>6 DEF Set
  <2>7. CASE UNCHANGED vars
    BY <2>7 DEF vars
  <2> HIDE DEF HeldInv, OneFile
  <2> QED BY <2>1, <2>2, <2>3, <2>4, <2>5, <2>6, <2>7 DEF Next
<1> QED BY <1>1, <1>2, HeldInvCorrect, PTL DEF Spec

(* What valid() says stays true of the object it is asked of: the flag     *)
(* travels with the mapping and the pointers.                              *)
THEOREM ValidIsHonestCorrect == Spec => []ValidIsHonest
<1>1. Init => ValidIsHonest
  BY DEF Init, ValidIsHonest
<1>2. HeldInv /\ ValidIsHonest /\ [Next]_vars => ValidIsHonest'
  <2> SUFFICES ASSUME HeldInv, ValidIsHonest, [Next]_vars PROVE ValidIsHonest'
    OBVIOUS
  <2> USE NoneAssumption DEF HeldInv, TypeOK, DeadIsEmpty, ValidIsHonest, Construct, kernel
  <2>1. ASSUME NEW o \in Objs, Default(o) PROVE ValidIsHonest'
    BY <2>1 DEF Default
  <2>2. ASSUME NEW o \in Objs, Load(o) PROVE ValidIsHonest'
    BY <2>2 DEF Load, HeldOnce
  <2>3. ASSUME NEW o \in Objs, Destroy(o) PROVE ValidIsHonest'
    BY <2>3 DEF Destroy, HeldOnce
  <2>4. ASSUME NEW o \in Objs, NEW p \in Objs, MoveConstruct(o, p) PROVE ValidIsHonest'
    BY <2>4 DEF MoveConstruct, Disturb
  <2>5. ASSUME NEW o \in Objs, NEW p \in Objs, MoveAssign(o, p) PROVE ValidIsHonest'
    BY <2>5 DEF MoveAssign, Disturb
  <2>6. ASSUME NEW o \in Objs, NEW p \in Objs, NEW part \in Settable, Set(o, part, p)
        PROVE ValidIsHonest'
    <3>1. CASE o = p
      <4>1. part \in Parts /\ from' = from
        BY <2>6, <3>1, SettableAssumption DEF Set
      <4> QED BY <2>6, <3>1, <4>1 DEF Set
    <3>2. CASE o # p
      BY <2>6, <3>2 DEF Set
    <3> QED BY <3>1, <3>2
  <2>7. CASE UNCHANGED vars
    BY <2>7 DEF vars
  <2> HIDE DEF HeldInv, ValidIsHonest
  <2> QED BY <2>1, <2>2, <2>3, <2>4, <2>5, <2>6, <2>7 DEF Next
<1> QED BY <1>1, <1>2, HeldInvCorrect, PTL DEF Spec

(* No move, assignment, setter or construction unmaps anything.            *)
THEOREM MovesUnmapNothingCorrect == Spec => MovesUnmapNothing
<1> DEFINE Keeps == alive \subseteq alive' => mapped \subseteq mapped'
<1>1. TypeOK /\ [Next]_vars => [Keeps]_vars
  <2> SUFFICES ASSUME TypeOK, Next PROVE Keeps
    OBVIOUS
  <2> QED BY DEF Next, Default, Load, Destroy, MoveConstruct, MoveAssign, Set, kernel
<1> QED BY <1>1, TypeCorrect, PTL DEF Spec, MovesUnmapNothing

-----------------------------------------------------------------------------
(* What the refinement mapping says, without its CHOOSE. *)
HolderIs == /\ holder \in [Files -> Objs \cup {None}]
            /\ \A f \in Files, o \in Objs : holder[f] = o <=> map[o] = f

LEMMA HolderIsWhoMaps == HeldInv => HolderIs
<1> SUFFICES ASSUME HeldInv PROVE HolderIs
  OBVIOUS
<1> USE NoneAssumption DEF HeldInv, TypeOK, DeadIsEmpty, HeldOnce
<1>1. ASSUME NEW f \in Files, NEW o \in Objs, map[o] = f
      PROVE  \A p \in Objs : map[p] = f => p = o
  BY <1>1
<1>2. ASSUME NEW f \in Files PROVE holder[f] \in Objs \cup {None}
  BY DEF holder
<1>3. ASSUME NEW f \in Files, NEW o \in Objs PROVE holder[f] = o <=> map[o] = f
  <2>1. CASE \E p \in Objs : map[p] = f
    <3>1. holder[f] \in Objs /\ map[holder[f]] = f
      BY <2>1 DEF holder
    <3> QED BY <3>1, <1>1
  <2>2. CASE ~ \E p \in Objs : map[p] = f
    BY <2>2 DEF holder
  <2> QED BY <2>1, <2>2
<1>4. holder = [f \in Files |-> holder[f]]
  BY DEF holder
<1> QED BY <1>2, <1>3, <1>4 DEF HolderIs

(* Who holds a file is a matter of the map members alone. *)
LEMMA SameMapSameHolder ==
    ASSUME HolderIs, HolderIs', map' = map PROVE holder' = holder
<1>1. ASSUME NEW f \in Files PROVE holder'[f] = holder[f]
  BY DEF HolderIs
<1> QED BY <1>1 DEF HolderIs

LEMMA HoldsNothing ==
    ASSUME HolderIs, NEW o \in Objs, map[o] = None PROVE Ownership!Holds(o) = {}
BY NoneAssumption DEF HolderIs, Ownership!Holds

(* The swap of two map members, to which a move construction amounts too. *)
LEMMA SwapStep ==
    ASSUME TypeOK, HolderIs, HolderIs', NEW o \in Objs, NEW p \in Objs, o # p,
           map' = [map EXCEPT ![o] = map[p], ![p] = map[o]]
    PROVE  Ownership!Next \/ holder' = holder
<1> USE NoneAssumption DEF TypeOK, HolderIs
<1>0. \A q \in Objs :
        map'[q] = IF q = o THEN map[p] ELSE IF q = p THEN map[o] ELSE map[q]
  OBVIOUS
<1>1. CASE map[o] = None /\ map[p] = None
  <2>1. map' = map
    BY <1>1
  <2> QED BY <2>1, SameMapSameHolder
<1>2. ASSUME NEW v \in {o, p}, NEW w \in {o, p}, v # w, map[v] \in Files, map[w] = None
      PROVE  Ownership!Next
  <2>1. holder[map[v]] = v /\ holder'[map[v]] = w
    BY <1>2, <1>0
  <2>2. \A f \in Files \ {map[v]} : holder'[f] = holder[f]
    BY <1>2, <1>0
  <2>3. holder' = [holder EXCEPT ![map[v]] = w]
    BY <1>2, <2>1, <2>2
  <2>4. Ownership!HandOver(map[v], w)
    BY <1>2, <2>1, <2>3, HoldsNothing DEF Ownership!HandOver, Ownership!Holders
  <2> QED BY <1>2, <2>4 DEF Ownership!Next
<1>3. CASE map[o] \in Files /\ map[p] \in Files
  <2>1. \A f \in Files : holder'[f] = CASE holder[f] = o -> p
                                       [] holder[f] = p -> o
                                       [] OTHER -> holder[f]
    BY <1>3, <1>0
  <2>2. holder' = [f \in Files |-> CASE holder[f] = o -> p
                                    [] holder[f] = p -> o
                                    [] OTHER -> holder[f]]
    BY <2>1
  <2>3. Ownership!Holds(o) # {} /\ Ownership!Holds(p) # {}
    BY <1>3 DEF Ownership!Holds
  <2>4. Ownership!Exchange(o, p)
    BY <2>2, <2>3 DEF Ownership!Exchange
  <2> QED BY <2>4 DEF Ownership!Next
<1> QED BY <1>1, <1>2, <1>3

(* Every step of the objects is one of unique ownership, or a stutter. *)
LEMMA RefinementStep == HeldInv /\ HeldInv' /\ [Next]_vars => [Ownership!Next]_holder
<1> SUFFICES ASSUME HeldInv, HeldInv', [Next]_vars
             PROVE  Ownership!Next \/ holder' = holder
  OBVIOUS
<1> DEFINE Step == Ownership!Next \/ holder' = holder
<1>h. HolderIs /\ HolderIs'
  BY HolderIsWhoMaps, PTL
<1> USE NoneAssumption DEF HeldInv, TypeOK, DeadIsEmpty, Construct
<1>s. ASSUME map' = map PROVE Step
  BY <1>h, <1>s, SameMapSameHolder
<1>1. ASSUME NEW o \in Objs, Default(o) PROVE Step
  BY <1>1, <1>s DEF Default
<1>2. ASSUME NEW o \in Objs, Load(o) PROVE Step
  <2>1. ASSUME NEW f \in Files \ held, map' = [map EXCEPT ![o] = f] PROVE Step
    <3>1. map[o] = None
      BY <1>2 DEF Load
    <3>2. \A p \in Objs : map[p] # f
      BY <2>1 DEF HeldOnce
    <3>3. holder[f] = None /\ holder'[f] = o
      BY <1>h, <2>1, <3>2 DEF HolderIs
    <3>4. \A g \in Files \ {f} : holder'[g] = holder[g]
      BY <1>h, <2>1, <3>1 DEF HolderIs
    <3>5. holder' = [holder EXCEPT ![f] = o]
      BY <1>h, <3>3, <3>4 DEF HolderIs
    <3>6. Ownership!Acquire(f, o)
      BY <1>h, <3>1, <3>3, <3>5, HoldsNothing DEF Ownership!Acquire
    <3> QED BY <3>6 DEF Ownership!Next, Ownership!Holders
  <2> QED BY <1>2, <1>s, <2>1 DEF Load
<1>3. ASSUME NEW o \in Objs, Destroy(o) PROVE Step
  <2>1. map' = [map EXCEPT ![o] = None]
    BY <1>3 DEF Destroy
  <2>2. CASE map[o] = None
    <3>1. map' = map
      BY <2>1, <2>2
    <3> QED BY <3>1, <1>s
  <2>3. CASE map[o] \in Files
    <3>1. holder[map[o]] = o /\ holder'[map[o]] = None
      BY <1>h, <2>1, <2>3 DEF HolderIs
    <3>2. \A f \in Files \ {map[o]} : holder'[f] = holder[f]
      BY <1>h, <2>1, <2>3 DEF HolderIs
    <3>3. holder' = [holder EXCEPT ![map[o]] = None]
      BY <1>h, <3>1, <3>2 DEF HolderIs
    <3>4. Ownership!Release(map[o])
      BY <3>1, <3>3 DEF Ownership!Release, Ownership!Holders
    <3> QED BY <2>3, <3>4 DEF Ownership!Next
  <2> QED BY <2>2, <2>3
<1>4. ASSUME NEW o \in Objs, NEW p \in Objs, MoveConstruct(o, p) PROVE Step
  <2>1. o # p /\ map[o] = None
    BY <1>4 DEF MoveConstruct
  <2>2. map' = [map EXCEPT ![o] = map[p], ![p] = map[o]]
    BY <1>4, <2>1 DEF MoveConstruct
  <2> QED BY <1>h, <2>1, <2>2, SwapStep
<1>5. ASSUME NEW o \in Objs, NEW p \in Objs, MoveAssign(o, p) PROVE Step
  BY <1>5, <1>h, SwapStep DEF MoveAssign
<1>6. ASSUME NEW o \in Objs, NEW p \in Objs, NEW part \in Settable, Set(o, part, p)
      PROVE Step
  BY <1>6, <1>s DEF Set
<1>7. ASSUME UNCHANGED vars PROVE Step
  BY <1>7, <1>s DEF vars
<1> HIDE DEF Step, HeldInv, TypeOK, DeadIsEmpty, Construct
<1>8. Step
  BY <1>1, <1>2, <1>3, <1>4, <1>5, <1>6, <1>7 DEF Next
<1> QED BY <1>8 DEF Step

(* elf_t implements unique ownership of the files it loads.                *)
THEOREM ImplementsOwnershipCorrect == Spec => ImplementsOwnership
<1>1. Init => Ownership!Init
  BY NoneAssumption DEF Init, holder, Ownership!Init
<1> QED BY <1>1, RefinementStep, HeldInvCorrect, PTL
        DEF Spec, ImplementsOwnership, Ownership!Spec
=============================================================================
