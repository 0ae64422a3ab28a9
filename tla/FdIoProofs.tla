---------------------------- MODULE FdIoProofs ----------------------------
(* Theorems about FdIo for every size of element, array and file.          *)
EXTENDS FdIo, TLAPS

(* What a read of an element does, in the terms of its loop. *)
LEMMA ReadBytesFacts ==
    ASSUME TypeOK, NEW r \in -1..ElemSize, ReadBytes(ElemSize, r)
    PROVE  /\ pos' = pos + (IF r > 0 THEN r ELSE 0)
           /\ pos' \in Nat
           /\ eof' \in BOOLEAN
           /\ eof => r = 0
<1>1. CASE eof
  BY <1>1, SizeAssumption DEF ReadBytes, TypeOK
<1>2. CASE ~eof
  BY <1>2, SizeAssumption DEF ReadBytes, ReadEffect, TypeOK
<1> QED BY <1>1, <1>2

(* FdIo's variables keep their types: in particular an array read or write *)
(* never goes beyond the array, whatever count it is called with.          *)
THEOREM TypeCorrect == Spec => []TypeOK
<1>0. NoPart \in [at : Nat, said : -1..ElemSize]
  BY SizeAssumption DEF NoPart
<1>1. Init => TypeOK
  <2> SUFFICES ASSUME Init PROVE TypeOK
    OBVIOUS
  <2>1. parts \in [Indices -> [at : Nat, said : -1..ElemSize]]
    BY <1>0 DEF Init
  <2>2. size \in 0..MaxSize /\ index \in 0..N /\ count \in 0..N
    BY SizeAssumption DEF Init
  <2>3. /\ pos \in Nat /\ start \in Nat
        /\ eof \in BOOLEAN /\ result \in BOOLEAN /\ doing \in {"nothing", "read", "write"}
    BY DEF Init
  <2> QED BY <2>1, <2>2, <2>3 DEF TypeOK
<1>2. TypeOK /\ [Next]_vars => TypeOK'
  <2> SUFFICES ASSUME TypeOK, [Next]_vars PROVE TypeOK'
    OBVIOUS
  <2> USE SizeAssumption DEF file, call
  <2>w. ASSUME NEW r \in WriteResults(ElemSize), WriteBytes(r)
        PROVE  r \in -1..ElemSize /\ pos' \in Nat /\ size' \in 0..MaxSize
    BY <2>w DEF TypeOK, WriteResults, WriteBytes, Smaller
  <2>1. ASSUME NEW n \in 0..ElemSize, Read(n) PROVE TypeOK'
    <3>1. PICK r \in -1..n : ReadBytes(n, r) /\ result' = Complete(n, r)
      BY <2>1 DEF Read
    <3>2. pos' \in Nat /\ eof' \in BOOLEAN
      <4>1. CASE eof
        BY <3>1, <4>1 DEF ReadBytes, TypeOK
      <4>2. CASE ~eof
        BY <3>1, <4>2 DEF ReadBytes, ReadEffect, TypeOK
      <4> QED BY <4>1, <4>2
    <3> QED BY <2>1, <3>1, <3>2 DEF Read, Complete, TypeOK
  <2>2. ASSUME Write PROVE TypeOK'
    BY <2>2, <2>w DEF Write, AsBool, TypeOK
  <2>3. ASSUME NEW to \in 0..MaxSize, Seek(to) PROVE TypeOK'
    BY <2>3 DEF Seek, TypeOK
  <2>4. ASSUME NEW what \in {"read", "write"}, NEW n \in 0..(N + 1), Begin(what, n)
        PROVE  TypeOK'
    BY <2>4, <1>0 DEF Begin, Smaller, TypeOK
  <2>5. ASSUME ReadElement PROVE TypeOK'
    <3>1. PICK r \in -1..ElemSize :
             /\ ReadBytes(ElemSize, r)
             /\ parts' = [parts EXCEPT ![index] = [at |-> pos, said |-> r]]
             /\ result' = (result /\ Complete(ElemSize, r))
      BY <2>5 DEF ReadElement
    <3>2. pos' \in Nat /\ eof' \in BOOLEAN
      BY <3>1, ReadBytesFacts
    <3>3. result' \in BOOLEAN
      BY <3>1
    <3>4. parts' \in [Indices -> [at : Nat, said : -1..ElemSize]]
      BY <3>1 DEF TypeOK
    <3> QED BY <2>5, <3>2, <3>3, <3>4 DEF ReadElement, TypeOK
  <2>6. ASSUME WriteElement PROVE TypeOK'
    <3>1. PICK r \in WriteResults(ElemSize) :
             /\ WriteBytes(r)
             /\ parts' = [parts EXCEPT ![index] = [at |-> pos, said |-> r]]
             /\ result' = (result /\ AsBool(r))
      BY <2>6 DEF WriteElement
    <3>2. r \in -1..ElemSize /\ pos' \in Nat /\ size' \in 0..MaxSize
      BY <3>1, <2>w
    <3>3. result' \in BOOLEAN
      BY <3>1
    <3>4. parts' \in [Indices -> [at : Nat, said : -1..ElemSize]]
      BY <3>1, <3>2 DEF TypeOK
    <3> QED BY <2>6, <3>2, <3>3, <3>4 DEF WriteElement, TypeOK
  <2>7. ASSUME Return PROVE TypeOK'
    BY <2>7 DEF Return, TypeOK
  <2>8. ASSUME NEW n \in 0..MaxSize, Resize(n) PROVE TypeOK'
    BY <2>8 DEF Resize, TypeOK
  <2>9. ASSUME UNCHANGED vars PROVE TypeOK'
    BY <2>9 DEF vars, TypeOK
  <2> QED BY <2>1, <2>2, <2>3, <2>4, <2>5, <2>6, <2>7, <2>8, <2>9 DEF Next
<1> QED BY <1>1, <1>2, PTL DEF Spec

(* An array read that returns true has filled the elements with            *)
(* consecutive whole pieces of the file, for an array of any length.       *)
THEOREM WholeSoFarCorrect == Spec => []WholeSoFar
<1>1. Init => WholeSoFar
  BY DEF Init, WholeSoFar
<1>2. TypeOK /\ WholeSoFar /\ [Next]_vars => WholeSoFar'
  <2> SUFFICES ASSUME TypeOK, WholeSoFar, [Next]_vars PROVE WholeSoFar'
    OBVIOUS
  <2> USE DEF file, call
  <2>1. ASSUME NEW n \in 0..ElemSize, Read(n) PROVE WholeSoFar'
    BY <2>1 DEF Read, WholeSoFar
  <2>2. ASSUME Write PROVE WholeSoFar'
    BY <2>2 DEF Write, WholeSoFar
  <2>3. ASSUME NEW to \in 0..MaxSize, Seek(to) PROVE WholeSoFar'
    BY <2>3 DEF Seek, WholeSoFar
  <2>4. ASSUME NEW what \in {"read", "write"}, NEW n \in 0..(N + 1), Begin(what, n)
        PROVE  WholeSoFar'
    <3>1. index' = 0 /\ start' = pos /\ pos' = pos
      BY <2>4 DEF Begin
    <3> QED BY <3>1, SizeAssumption DEF WholeSoFar, TypeOK
  <2>5. ASSUME ReadElement PROVE WholeSoFar'
    <3>1. PICK r \in -1..ElemSize :
             /\ ReadBytes(ElemSize, r)
             /\ parts' = [parts EXCEPT ![index] = [at |-> pos, said |-> r]]
             /\ result' = (result /\ Complete(ElemSize, r))
      BY <2>5 DEF ReadElement
    <3>2. /\ doing = "read" /\ doing' = "read" /\ start' = start
          /\ index' = index + 1 /\ index < count
      BY <2>5 DEF ReadElement
    <3> SUFFICES ASSUME result' PROVE
             /\ pos' = start + (index + 1) * ElemSize
             /\ \A i \in 0..index :
                   parts'[i] = [at |-> start + i * ElemSize, said |-> ElemSize]
      BY <3>2 DEF WholeSoFar, TypeOK
    <3>3. result /\ r = ElemSize
      BY <3>1, SizeAssumption DEF Complete
    <3>4. /\ pos = start + index * ElemSize
          /\ \A i \in 0..(index - 1) :
                parts[i] = [at |-> start + i * ElemSize, said |-> ElemSize]
      BY <3>2, <3>3 DEF WholeSoFar
    <3>5. pos' = pos + ElemSize
      BY <3>1, <3>3, ReadBytesFacts, SizeAssumption
    <3>6. (index + 1) * ElemSize = index * ElemSize + ElemSize
      BY SizeAssumption DEF TypeOK
    <3>7. pos' = start + (index + 1) * ElemSize
      <4>1. index * ElemSize \in Int /\ start \in Int
        BY SizeAssumption DEF TypeOK
      <4> QED BY <3>4, <3>5, <3>6, <4>1, SizeAssumption
    <3>8. ASSUME NEW i \in 0..index
          PROVE  parts'[i] = [at |-> start + i * ElemSize, said |-> ElemSize]
      <4>1. i \in Indices /\ index \in Indices
        BY <3>2, SizeAssumption DEF TypeOK, Indices
      <4>2. CASE i = index
        BY <4>1, <4>2, <3>1, <3>3, <3>4 DEF TypeOK
      <4>3. CASE i # index
        <5>1. i \in 0..(index - 1) /\ parts'[i] = parts[i]
          BY <4>1, <4>3, <3>1 DEF TypeOK
        <5> QED BY <5>1, <3>4
      <4> QED BY <4>2, <4>3
    <3> QED BY <3>7, <3>8
  <2>6. ASSUME WriteElement PROVE WholeSoFar'
    BY <2>6 DEF WriteElement, WholeSoFar
  <2>7. ASSUME Return PROVE WholeSoFar'
    BY <2>7 DEF Return, WholeSoFar
  <2>8. ASSUME NEW n \in 0..MaxSize, Resize(n) PROVE WholeSoFar'
    BY <2>8 DEF Resize, WholeSoFar
  <2>9. ASSUME UNCHANGED vars PROVE WholeSoFar'
    BY <2>9 DEF vars, WholeSoFar
  <2> QED BY <2>1, <2>2, <2>3, <2>4, <2>5, <2>6, <2>7, <2>8, <2>9 DEF Next
<1> QED BY <1>1, <1>2, TypeCorrect, PTL DEF Spec

(* For every element size and array the offset tells whether an array is   *)
(* written, and false is answered only where it is not.                    *)
THEOREM OffsetTellsWholeCorrect == Spec => []OffsetTellsWhole
<1>1. Init => OffsetTellsWhole
  BY DEF Init, OffsetTellsWhole
<1>2. TypeOK /\ OffsetTellsWhole /\ [Next]_vars => OffsetTellsWhole'
  <2> SUFFICES ASSUME TypeOK, OffsetTellsWhole, [Next]_vars PROVE OffsetTellsWhole'
    OBVIOUS
  <2> USE DEF file, call
  <2>1. ASSUME NEW n \in 0..ElemSize, Read(n) PROVE OffsetTellsWhole'
    BY <2>1 DEF Read, OffsetTellsWhole
  <2>2. ASSUME Write PROVE OffsetTellsWhole'
    BY <2>2 DEF Write, OffsetTellsWhole
  <2>3. ASSUME NEW to \in 0..MaxSize, Seek(to) PROVE OffsetTellsWhole'
    BY <2>3 DEF Seek, OffsetTellsWhole
  <2>4. ASSUME NEW what \in {"read", "write"}, NEW n \in 0..(N + 1), Begin(what, n)
        PROVE  OffsetTellsWhole'
    <3>1. index' = 0 /\ result' = TRUE /\ start' = pos /\ pos' = pos
      BY <2>4 DEF Begin
    <3> QED BY <3>1, SizeAssumption DEF OffsetTellsWhole, TypeOK
  <2>5. ASSUME ReadElement PROVE OffsetTellsWhole'
    BY <2>5 DEF ReadElement, OffsetTellsWhole
  <2>6. ASSUME WriteElement PROVE OffsetTellsWhole'
    <3>1. PICK r \in WriteResults(ElemSize) :
             /\ WriteBytes(r)
             /\ parts' = [parts EXCEPT ![index] = [at |-> pos, said |-> r]]
             /\ result' = (result /\ AsBool(r))
      BY <2>6 DEF WriteElement
    <3>2. /\ doing = "write" /\ index' = index + 1 /\ start' = start
          /\ index \in Indices /\ parts \in [Indices -> [at : Nat, said : -1..ElemSize]]
      BY <2>6, SizeAssumption DEF WriteElement, TypeOK, Indices
    <3>3. r \in Int /\ r <= ElemSize
      BY SizeAssumption DEF WriteResults, Smaller, TypeOK
    <3> DEFINE here == start + index * ElemSize
               step == IF r > 0 THEN r ELSE 0
    <3>4. here \in Int /\ start' + index' * ElemSize = here + ElemSize
      <4>1. (index + 1) * ElemSize = index * ElemSize + ElemSize
        BY SizeAssumption DEF TypeOK
      <4>2. index * ElemSize \in Int /\ start \in Int /\ ElemSize \in Int
        BY SizeAssumption DEF TypeOK
      <4> QED BY <3>2, <4>1, <4>2
    <3>5. /\ pos <= here
          /\ pos = here <=> \A i \in 0..(index - 1) : parts[i].said = ElemSize
          /\ ~result => pos # here
      BY <3>2 DEF OffsetTellsWhole
    <3>6. pos' = pos + step /\ pos \in Int
      BY <3>1 DEF WriteBytes, TypeOK
    <3>7. /\ step \in Int /\ step <= ElemSize /\ (step = ElemSize <=> r = ElemSize)
          /\ (~AsBool(r) => step = 0) /\ ElemSize \in Int /\ ElemSize > 0
      BY <3>3, SizeAssumption DEF AsBool
    <3> HIDE DEF here, step
    <3>8. /\ pos' <= here + ElemSize
          /\ pos' = here + ElemSize <=> (pos = here /\ r = ElemSize)
      BY <3>4, <3>5, <3>6, <3>7
    <3>9. ~result' => pos' # here + ElemSize
      <4>1. ~result' => ~result \/ ~AsBool(r)
        BY <3>1
      <4>2. ASSUME ~AsBool(r) PROVE r # ElemSize
        BY <4>2, <3>7
      <4>3. ASSUME ~(pos = here /\ r = ElemSize) PROVE pos' # here + ElemSize
        BY <4>3, <3>8
      <4>4. ~result => ~(pos = here /\ r = ElemSize)
        BY <3>5, Zenon
      <4> QED BY <4>1, <4>2, <4>3, <4>4, Zenon
    <3>10. parts'[index].said = r
      BY <3>1, <3>2
    <3>11. \A i \in 0..(index - 1) : parts'[i] = parts[i]
      <4> SUFFICES ASSUME NEW i \in 0..(index - 1) PROVE parts'[i] = parts[i]
        OBVIOUS
      <4>1. i \in Indices /\ i # index
        BY <3>2, SizeAssumption DEF Indices
      <4> QED BY <3>1, <3>2, <4>1
    <3>12. \A i : i \in 0..(index' - 1) <=> (i \in 0..(index - 1) \/ i = index)
      BY <3>2, SizeAssumption DEF Indices
    <3>13. (\A i \in 0..(index' - 1) : parts'[i].said = ElemSize)
             <=> (\A i \in 0..(index - 1) : parts[i].said = ElemSize) /\ r = ElemSize
      BY <3>10, <3>11, <3>12
    <3> QED BY <3>4, <3>5, <3>8, <3>9, <3>13 DEF OffsetTellsWhole
  <2>7. ASSUME Return PROVE OffsetTellsWhole'
    BY <2>7 DEF Return, OffsetTellsWhole
  <2>8. ASSUME NEW n \in 0..MaxSize, Resize(n) PROVE OffsetTellsWhole'
    BY <2>8 DEF Resize, OffsetTellsWhole
  <2>9. ASSUME UNCHANGED vars PROVE OffsetTellsWhole'
    BY <2>9 DEF vars, OffsetTellsWhole
  <2> QED BY <2>1, <2>2, <2>3, <2>4, <2>5, <2>6, <2>7, <2>8, <2>9 DEF Next
<1> QED BY <1>1, <1>2, TypeCorrect, PTL DEF Spec

(* A read that raises the flag met the end of the file. *)
LEMMA RaisedAtEnd ==
    ASSUME TypeOK, NEW n \in Nat, NEW r, ReadBytes(n, r), ~eof, eof'
    PROVE  pos >= size
<1>1. r \in ReadResults(n) /\ r = 0 /\ n # 0
  BY DEF ReadBytes, ReadEffect
<1>2. ASSUME ~(pos >= size) PROVE FALSE
  <2>1. 0 \in {-1} \cup (1..Smaller(n, size - pos))
    BY <1>1, <1>2 DEF ReadResults
  <2> QED BY <2>1
<1> QED BY <1>2

(* A read with the flag set does nothing. *)
LEMMA NoReadAtEof ==
    ASSUME NEW n, NEW r, ReadBytes(n, r), eof
    PROVE  eof' = eof /\ pos' = pos
BY DEF ReadBytes

(* Only a read of at least one byte at or beyond the end of the file       *)
(* raises the flag, in every step of every behaviour.                      *)
THEOREM EofRaisedAtEndCorrect == Spec => EofRaisedAtEnd
<1>1. TypeOK /\ [Next]_vars => [~eof /\ eof' => pos >= size]_vars
  <2> SUFFICES ASSUME TypeOK, Next, ~eof, eof' PROVE pos >= size
    BY DEF vars
  <2> USE DEF file, call
  <2>1. ASSUME NEW n \in 0..ElemSize, Read(n) PROVE pos >= size
    BY <2>1, RaisedAtEnd, SizeAssumption DEF Read
  <2>2. ASSUME ReadElement PROVE pos >= size
    BY <2>2, RaisedAtEnd, SizeAssumption DEF ReadElement
  <2>3. ASSUME \/ Write \/ WriteElement \/ Return
               \/ \E to \in 0..MaxSize : Seek(to)
               \/ \E what \in {"read", "write"}, n \in 0..(N + 1) : Begin(what, n)
               \/ \E n \in 0..MaxSize : Resize(n)
        PROVE  eof' = eof
    BY <2>3 DEF Write, WriteElement, Return, Seek, Begin, Resize
  <2> QED BY <2>1, <2>2, <2>3 DEF Next
<1> QED BY <1>1, TypeCorrect, PTL DEF Spec, EofRaisedAtEnd

(* Once raised the flag stays, and no read of any kind moves the offset or *)
(* succeeds any more, whatever is sought, written or resized in between.   *)
THEOREM EofIsFinalCorrect == Spec => EofIsFinal
<1>1. [Next]_vars => [eof => eof' /\ ReadsNothing]_vars
  <2> SUFFICES ASSUME Next, eof PROVE eof' /\ ReadsNothing
    BY DEF vars
  <2> USE DEF file, call
  <2>1. ASSUME NEW n \in 0..ElemSize, Read(n) PROVE eof' /\ pos' = pos /\ ~result'
    <3>1. PICK r \in -1..n : ReadBytes(n, r) /\ result' = Complete(n, r)
      BY <2>1 DEF Read
    <3>2. ~Complete(n, r)
      BY DEF Complete
    <3> QED BY <3>1, <3>2, NoReadAtEof
  <2>2. ASSUME ReadElement PROVE eof' /\ pos' = pos /\ ~result'
    <3>1. PICK r \in -1..ElemSize :
             ReadBytes(ElemSize, r) /\ result' = (result /\ Complete(ElemSize, r))
      BY <2>2 DEF ReadElement
    <3>2. ~Complete(ElemSize, r)
      BY DEF Complete
    <3> QED BY <3>1, <3>2, NoReadAtEof
  <2>3. ReadsNothing
    BY <2>1, <2>2 DEF ReadsNothing
  <2>4. ASSUME \/ Write \/ Return \/ WriteElement
               \/ \E to \in 0..MaxSize : Seek(to)
               \/ \E n \in 0..MaxSize : Resize(n)
               \/ \E what \in {"read", "write"}, n \in 0..(N + 1) : Begin(what, n)
        PROVE  eof'
    BY <2>4 DEF Write, Return, WriteElement, Seek, Resize, Begin
  <2> QED BY <2>1, <2>2, <2>3, <2>4 DEF Next
<1> QED BY <1>1, PTL DEF Spec, EofIsFinal

-----------------------------------------------------------------------------
(* The steps of CallsReturn, without its fairness.                         *)

(* A call that is running has one element less to go after each of its     *)
(* system calls, whatever they answer, and returns after the last: a file  *)
(* that is resized meanwhile changes neither the loop nor its end.         *)
Advances ==
    doing # "nothing" =>
        /\ count' = count
        /\ \/ index' = index /\ doing' = doing /\ pos' = pos
           \/ index < count /\ index' = index + 1 /\ doing' = doing
           \/ index = count /\ index' = index /\ doing' = "nothing"

THEOREM LoopAdvances == Spec => [](index <= count) /\ [][Advances]_vars
<1>1. Init => index <= count
  BY DEF Init
<1>2. TypeOK /\ index <= count /\ [Next]_vars => (index <= count)'
  <2> SUFFICES ASSUME TypeOK, index <= count, [Next]_vars PROVE (index <= count)'
    OBVIOUS
  <2>1. index \in 0..N /\ count \in 0..N /\ N \in Nat
    BY SizeAssumption DEF TypeOK
  <2>2. ASSUME UNCHANGED <<index, count>> PROVE (index <= count)'
    BY <2>2
  <2>3. ASSUME ReadElement \/ WriteElement PROVE (index <= count)'
    <3>1. index < count /\ index' = index + 1 /\ count' = count
      BY <2>3 DEF ReadElement, WriteElement
    <3> QED BY <2>1, <3>1
  <2>4. ASSUME NEW what \in {"read", "write"}, NEW n \in 0..(N + 1), Begin(what, n)
        PROVE  (index <= count)'
    <3>1. index' = 0 /\ count' = Smaller(n, N)
      BY <2>4 DEF Begin
    <3> QED BY <2>1, <3>1 DEF Smaller
  <2> QED BY <2>2, <2>3, <2>4 DEF Next, Read, Write, Seek, Return, Resize, call, vars
<1>3. [Next]_vars => [Advances]_vars
  <2> SUFFICES ASSUME Next, doing # "nothing" PROVE Advances
    BY DEF Advances
  <2>1. ReadElement \/ WriteElement \/ Return \/ \E n \in 0..MaxSize : Resize(n)
    BY DEF Next, Read, Write, Seek, Begin
  <2> QED BY <2>1 DEF ReadElement, WriteElement, Return, Resize, Advances, file, call
<1> QED BY <1>1, <1>2, <1>3, TypeCorrect, PTL DEF Spec
=============================================================================
