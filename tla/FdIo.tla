-------------------------------- MODULE FdIo --------------------------------
(***************************************************************************)
(* Reading, writing and seeking through one fd_t (include/fd_t.hh), on a   *)
(* regular file that another process may extend or truncate at any time.   *)
(* What a buffer holds is told by where in the file it was filled from:    *)
(* a part of the file is a record of a position and a number of bytes.     *)
(* The reads and writes of a std::array make one system call per element.  *)
(***************************************************************************)
EXTENDS Integers

CONSTANTS ElemSize,  \* sizeof(T), of an array's elements and of a value
          N,         \* length of the array
          MaxSize    \* bound: size of the file, and offsets sought

ASSUME SizeAssumption == /\ ElemSize \in Nat \ {0}
                         /\ N \in Nat \ {0}
                         /\ MaxSize \in Nat

VARIABLES
    size, pos,      \* kernel: the file's size, the descriptor's offset
    eof,            \* member eof
    doing,          \* the call that is running: none, an array read or write
    index, count,   \* its loop
    result,         \* what it returns, what the last one did return
    start,          \* history: the offset when it began
    parts           \* history: for each element, the bytes that were moved and
                    \* what the system call said

file == <<size, pos>>
call == <<doing, index, count, result, start, parts>>
vars == <<size, pos, eof, doing, index, count, result, start, parts>>

Indices == 0..(N - 1)
NoPart == [at |-> 0, said |-> 0]

TypeOK == /\ size \in 0..MaxSize
          /\ pos \in Nat
          /\ eof \in BOOLEAN
          /\ doing \in {"nothing", "read", "write"}
          /\ index \in 0..N /\ count \in 0..N
          /\ result \in BOOLEAN
          /\ start \in Nat
          /\ parts \in [Indices -> [at : Nat, said : -1..ElemSize]]

Init == /\ size \in 0..MaxSize
        /\ pos = 0
        /\ eof = FALSE
        /\ doing = "nothing"
        /\ index = 0 /\ count = 0
        /\ result = TRUE
        /\ start = 0
        /\ parts = [i \in Indices |-> NoPart]

-----------------------------------------------------------------------------
(* The kernel's answers: an error, or a number of bytes, which may be less *)
(* than there are.                                                         *)

Smaller(a, b) == IF a < b THEN a ELSE b

ReadResults(n) ==
    {-1} \cup (IF n = 0 \/ pos >= size THEN {0} ELSE 1..Smaller(n, size - pos))

WriteResults(n) == {-1} \cup 0..Smaller(n, IF pos < MaxSize THEN MaxSize - pos ELSE 0)

-----------------------------------------------------------------------------
(* Faulty: a read of nothing ends the file. *)
ReadEffectAnyLength(n, r) ==
    /\ eof' = (r = 0)
    /\ pos' = pos + (IF r > 0 THEN r ELSE 0)

(* read(value, n, actualLen), as its effect on the offset and the flag for *)
(* the answer r of the system call.                                        *)
ReadEffect(n, r) ==
    /\ eof' = (r = 0 /\ n # 0)
    /\ pos' = pos + (IF r > 0 THEN r ELSE 0)

(* Faulty: the flag is not consulted. *)
ReadBytesAlways(n, r) ==
    /\ r \in ReadResults(n)
    /\ ReadEffect(n, r)

(* One read of n bytes: with eof set it fails without a system call.       *)
ReadBytes(n, r) ==
    IF eof THEN /\ r = 0
                /\ UNCHANGED <<pos, eof>>
           ELSE /\ r \in ReadResults(n)
                /\ ReadEffect(n, r)

(* return actualLen == valueLen *)
Complete(n, r) == ~eof /\ (IF r > 0 THEN r ELSE 0) = n

(* read(void *, size_t) and what is built on it *)
Read(n) ==
    /\ doing = "nothing"
    /\ \E r \in -1..n : ReadBytes(n, r) /\ result' = Complete(n, r)
    /\ UNCHANGED <<size, doing, index, count, start, parts>>

(* write(const void *, size_t) *)
WriteBytes(r) ==
    /\ pos' = pos + (IF r > 0 THEN r ELSE 0)
    /\ size' = IF r > 0 /\ pos + r > size THEN pos + r ELSE size

(* Faulty: the answer is taken for a status, 0 for success. *)
AsBoolStatus(r) == r = 0

(* write(T &) makes a bool of the system call's ssize_t. *)
AsBool(r) == r # 0

Write ==
    /\ doing = "nothing"
    /\ \E r \in WriteResults(ElemSize) : WriteBytes(r) /\ result' = AsBool(r)
    /\ UNCHANGED <<eof, doing, index, count, start, parts>>

(* lseek does not touch the flag. *)
Seek(to) ==
    /\ doing = "nothing"
    /\ pos' = to
    /\ UNCHANGED <<size, eof, call>>

-----------------------------------------------------------------------------
(* read(array, n) and write(array, n)                                      *)

(* Faulty: the count is not clamped. *)
BeginUnclamped(what, n) ==
    /\ doing = "nothing"
    /\ doing' = what
    /\ index' = 0
    /\ count' = n
    /\ result' = TRUE
    /\ start' = pos
    /\ parts' = [i \in Indices |-> NoPart]
    /\ UNCHANGED <<file, eof>>

Begin(what, n) ==
    /\ doing = "nothing"
    /\ doing' = what
    /\ index' = 0
    /\ count' = Smaller(n, N)
    /\ result' = TRUE
    /\ start' = pos
    /\ parts' = [i \in Indices |-> NoPart]
    /\ UNCHANGED <<file, eof>>

(* Faulty: the result is that of the last element. *)
ReadElementLast ==
    /\ doing = "read"
    /\ index < count
    /\ \E r \in -1..ElemSize :
          /\ ReadBytes(ElemSize, r)
          /\ parts' = [parts EXCEPT ![index] = [at |-> pos, said |-> r]]
          /\ result' = Complete(ElemSize, r)
    /\ index' = index + 1
    /\ UNCHANGED <<size, doing, count, start>>

(* Faulty: an element that could not be read is tried again. *)
ReadElementRetries ==
    /\ doing = "read"
    /\ index < count
    /\ \E r \in -1..ElemSize :
          /\ ReadBytes(ElemSize, r)
          /\ parts' = [parts EXCEPT ![index] = [at |-> pos, said |-> r]]
          /\ result' = (result /\ Complete(ElemSize, r))
          /\ index' = IF Complete(ElemSize, r) THEN index + 1 ELSE index
    /\ UNCHANGED <<size, doing, count, start>>

(* result &= read(value[i]), also after one has failed *)
ReadElement ==
    /\ doing = "read"
    /\ index < count
    /\ \E r \in -1..ElemSize :
          /\ ReadBytes(ElemSize, r)
          /\ parts' = [parts EXCEPT ![index] = [at |-> pos, said |-> r]]
          /\ result' = (result /\ Complete(ElemSize, r))
    /\ index' = index + 1
    /\ UNCHANGED <<size, doing, count, start>>

WriteElement ==
    /\ doing = "write"
    /\ index < count
    /\ \E r \in WriteResults(ElemSize) :
          /\ WriteBytes(r)
          /\ parts' = [parts EXCEPT ![index] = [at |-> pos, said |-> r]]
          /\ result' = (result /\ AsBool(r))
    /\ index' = index + 1
    /\ UNCHANGED <<eof, doing, count, start>>

Return ==
    /\ doing # "nothing"
    /\ index = count
    /\ doing' = "nothing"
    /\ UNCHANGED <<file, eof, index, count, result, start, parts>>

(* The other process. *)
Resize(n) ==
    /\ size' = n
    /\ UNCHANGED <<pos, eof, call>>

Next == \/ \E n \in 0..ElemSize : Read(n)
        \/ Write
        \/ \E to \in 0..MaxSize : Seek(to)
        \/ \E what \in {"read", "write"}, n \in 0..(N + 1) : Begin(what, n)
        \/ ReadElement
        \/ WriteElement
        \/ Return
        \/ \E n \in 0..MaxSize : Resize(n)

Spec == Init /\ [][Next]_vars

(* A call that is running goes on: nothing else runs in its thread, and a  *)
(* system call on a regular file returns.                                  *)
FairSpec == Spec /\ WF_vars(ReadElement \/ WriteElement \/ Return)

-----------------------------------------------------------------------------
(* Correctness.                                                            *)

(* While an array read has not failed, the elements so far are whole and   *)
(* come from consecutive places in the file, whatever short answers, ends  *)
(* of file and changes of its size came before or in between.              *)
WholeSoFar ==
    doing = "read" /\ result =>
        /\ pos = start + index * ElemSize
        /\ \A i \in 0..(index - 1) :
              parts[i] = [at |-> start + i * ElemSize, said |-> ElemSize]

(* The flag is raised only where the file has no further byte: neither an  *)
(* error nor a short read nor a read of no bytes counts as its end.        *)
EofRaisedAtEnd == [][~eof /\ eof' => pos >= size]_vars

(* The end, once reported, is final: seeking back or a file that has grown *)
(* since do not make the object read again: no read from then on, of a     *)
(* value, of no bytes or of an element of an array, moves the offset or    *)
(* succeeds.                                                               *)
ReadsNothing ==
    (\E n \in 0..ElemSize : Read(n)) \/ ReadElement => pos' = pos /\ ~result'
EofIsFinal == [][eof => eof' /\ ReadsNothing]_vars

(* Whether an array is in the file is told by the offset, which is behind  *)
(* it exactly if every element was written whole.  The answer tells less:  *)
(* an error and a short write both pass for success, but false is never    *)
(* said of an array that is there.                                         *)
OffsetTellsWhole ==
    doing = "write" =>
        /\ pos <= start + index * ElemSize
        /\ pos = start + index * ElemSize
              <=> \A i \in 0..(index - 1) : parts[i].said = ElemSize
        /\ ~result => pos # start + index * ElemSize

(* An array read or write comes to its end whatever its system calls       *)
(* answer: it does not insist on elements that fail, come short or are     *)
(* beyond the end of the file.                                             *)
CallsReturn == doing # "nothing" ~> doing = "nothing"
=============================================================================
