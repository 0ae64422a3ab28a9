----------------------------- MODULE SpanProofs -----------------------------
(***************************************************************************)
(* Theorems about Span, for a size_t of any width and any arrays.          *)
(***************************************************************************)
EXTENDS Span, TLAPS

-----------------------------------------------------------------------------
(* What the iterator's operators return.                                   *)

(* ++, --, += and -= keep an iterator an iterator of its view, between its *)
(* ends.                                                                   *)
LEMMA OperatorsStay ==
    ASSUME NEW i \in Iterators, Between(i), NEW off \in size_t
    PROVE  \A j \in {Increment(i), Decrement(i), Advance(i, off), Retreat(i, off)} :
             j \in Iterators /\ Between(j) /\ j.data = i.data /\ j.len = i.len
<1> USE MaxAssumption DEF size_t
<1> DEFINE To(n) == [i EXCEPT !.index = n]
<1>1. ASSUME NEW n \in 0..i.len
      PROVE  /\ To(n) \in Iterators /\ Between(To(n))
             /\ To(n).data = i.data /\ To(n).len = i.len
  BY DEF Iterators, Between
<1>2. i \in Iterators /\ Between(i) /\ i.index \in 0..Max /\ i.len \in 0..Max /\ i.index <= i.len
  BY DEF Iterators, Between
<1>3. \E n \in 0..i.len : Increment(i) = To(n)
  <2>1. CASE i.index < i.len
    <3>1. i.index + 1 \in 0..i.len /\ Increment(i) = To(i.index + 1)
      BY <1>2, <2>1 DEF Increment
    <3> QED
      BY <3>1
  <2>2. CASE ~(i.index < i.len)
    <3>1. i.index \in 0..i.len /\ Increment(i) = To(i.index)
      BY <1>2, <2>2 DEF Increment, Iterators
    <3> QED
      BY <3>1
  <2> QED
    BY <2>1, <2>2
<1>4. \E n \in 0..i.len : Decrement(i) = To(n)
  <2>1. CASE i.index > 0
    <3>1. i.index - 1 \in 0..i.len /\ Decrement(i) = To(i.index - 1)
      BY <1>2, <2>1 DEF Decrement
    <3> QED
      BY <3>1
  <2>2. CASE ~(i.index > 0)
    <3>1. i.index \in 0..i.len /\ Decrement(i) = To(i.index)
      BY <1>2, <2>2 DEF Decrement, Iterators
    <3> QED
      BY <3>1
  <2> QED
    BY <2>1, <2>2
<1>5. \E n \in 0..i.len : Advance(i, off) = To(n)
  <2> DEFINE sum == Wrapped(i.index + off)
             n == IF sum < i.len /\ sum >= i.index THEN sum ELSE i.len
  <2>1. sum \in Nat
    BY <1>2 DEF Wrapped
  <2>2. n \in 0..i.len
    BY <1>2, <2>1
  <2>3. Advance(i, off) = To(n)
    BY DEF Advance
  <2> QED
    BY <2>2, <2>3
<1>6. \E n \in 0..i.len : Retreat(i, off) = To(n)
  <2> DEFINE n == IF off < i.index THEN i.index - off ELSE 0
  <2>1. n \in 0..i.len
    BY <1>2
  <2>2. Retreat(i, off) = To(n)
    BY DEF Retreat
  <2> QED
    BY <2>1, <2>2
<1>7. ASSUME NEW j, \E n \in 0..i.len : j = To(n)
      PROVE  j \in Iterators /\ Between(j) /\ j.data = i.data /\ j.len = i.len
  BY <1>1, <1>7
<1> QED
  BY <1>3, <1>4, <1>5, <1>6, <1>7

(* A sum of two words wraps exactly if it comes out smaller than one of    *)
(* them: then it would be beyond the largest word, and so beyond any view. *)
LEMMA WrapShows ==
    ASSUME NEW a \in size_t, NEW b \in size_t
    PROVE  /\ a + b <= Max => Wrapped(a + b) = a + b
           /\ a + b > Max => Wrapped(a + b) < a
<1>1. Max \in Nat /\ a \in 0..Max /\ b \in 0..Max
  BY MaxAssumption DEF size_t
<1>2. CASE a + b <= Max
  <2>1. a + b \in 0..Max
    BY <1>1, <1>2
  <2>2. (a + b) % (Max + 1) = a + b
    BY <1>1, <2>1, Z3
  <2> QED
    BY <1>1, <1>2, <2>2 DEF Wrapped
<1>3. CASE a + b > Max
  <2>1. (a + b) % (Max + 1) = a + b - (Max + 1)
    BY <1>1, <1>3, Z3
  <2> QED
    BY <1>1, <1>3, <2>1 DEF Wrapped
<1> QED
  BY <1>1, <1>2, <1>3

(* += saturates at the end and -= at the beginning, as numbers that do not *)
(* wrap would.                                                             *)
LEMMA Saturates ==
    ASSUME NEW i \in Iterators, Between(i), NEW off \in size_t
    PROVE  /\ Advance(i, off).index = IF i.index + off > i.len THEN i.len ELSE i.index + off
           /\ Retreat(i, off).index = IF i.index - off < 0 THEN 0 ELSE i.index - off
<1>1. /\ Max \in Nat /\ i.index \in 0..Max /\ i.len \in 0..Max /\ i.index <= i.len
      /\ off \in 0..Max /\ i.index \in size_t
  BY MaxAssumption DEF Iterators, Between, size_t
<1>2. \A n : [i EXCEPT !.index = n].index = n
  BY DEF Iterators
<1>3. Advance(i, off).index = IF i.index + off > i.len THEN i.len ELSE i.index + off
  <2> DEFINE sum == Wrapped(i.index + off)
  <2>1. Advance(i, off).index = IF sum < i.len /\ sum >= i.index THEN sum ELSE i.len
    BY <1>2 DEF Advance
  <2>2. CASE i.index + off <= Max
    BY <1>1, <2>1, <2>2, WrapShows
  <2>3. CASE i.index + off > Max
    <3>1. sum \in Int
      BY <1>1 DEF Wrapped
    <3>2. sum < i.index
      BY <1>1, <2>3, WrapShows
    <3> HIDE DEF sum
    <3>3. Advance(i, off).index = i.len
      BY <1>1, <2>1, <3>1, <3>2
    <3> QED
      BY <1>1, <2>3, <3>3
  <2> QED
    BY <1>1, <2>2, <2>3
<1>4. Retreat(i, off).index = IF i.index - off < 0 THEN 0 ELSE i.index - off
  BY <1>1, <1>2 DEF Retreat
<1> QED
  BY <1>3, <1>4

(* The index check of the span, whose bound wraps when the span is empty.  *)
LEMMA OutsideIsOutside ==
    ASSUME NEW v \in Views, NEW idx \in size_t
    PROVE  Outside(v, idx) <=> idx >= v.len
<1>1. Max \in Nat /\ v.len \in 0..Max /\ idx \in 0..Max
  BY MaxAssumption DEF Views, size_t
<1>2. v.len # 0 => Wrapped(v.len - 1) = v.len - 1
  <2> SUFFICES ASSUME v.len # 0 PROVE Wrapped(v.len - 1) = v.len - 1
    OBVIOUS
  <2>1. v.len - 1 \in 0..Max
    BY <1>1
  <2> QED
    BY <1>1, <2>1, Z3 DEF Wrapped
<1> QED
  BY <1>1, <1>2 DEF Outside

(* begin() and end() are the two ends.                                     *)
LEMMA Ends ==
    ASSUME NEW v \in Views
    PROVE  /\ begin(v) \in Iterators /\ Between(begin(v)) /\ begin(v).index = 0
           /\ begin(v).data = v.data /\ begin(v).len = v.len
           /\ end(v) \in Iterators /\ Between(end(v)) /\ end(v).index = v.len
           /\ end(v).data = v.data /\ end(v).len = v.len
<1>1. Max \in Nat /\ v.len \in 0..Max /\ v.len \in size_t /\ v.data \in Pointers
  BY MaxAssumption DEF Views, size_t
<1>2. /\ begin(v) \in Iterators /\ Between(begin(v)) /\ begin(v).index = 0
      /\ begin(v).data = v.data /\ begin(v).len = v.len
  BY <1>1 DEF begin, Iterators, Between, size_t
<1>3. end(v).index = v.len
  BY <1>1, <1>2, Saturates DEF end
<1> QED
  BY <1>1, <1>2, <1>3, OperatorsStay DEF end

-----------------------------------------------------------------------------
(* Types, and iterators between the ends of their views.                   *)

LEMMA TypeInit == Init => TypeOK
<1> SUFFICES ASSUME Init PROVE TypeOK
  OBVIOUS
<1>1. view \in Views
  BY MaxAssumption DEF Init, Views, Pointers, size_t
<1>2. it \in Iterators /\ Between(it) /\ at = it /\ stop = it
  BY <1>1, Ends DEF Init
<1>3. visited \in Seq(Refs) /\ answer \in Refs
  BY MaxAssumption DEF Init, Throws, Ref, Refs, Pointers, size_t
<1>4. asked \in [of : {"view", "position", "go"}, by : Int]
  BY DEF Init
<1>5. running \in BOOLEAN
  BY DEF Init
<1> QED
  BY <1>1, <1>2, <1>3, <1>4, <1>5 DEF TypeOK

LEMMA TypeStep == TypeOK /\ [Next]_vars => TypeOK'
<1> SUFFICES ASSUME TypeOK, [Next]_vars PROVE TypeOK'
  OBVIOUS
<1> USE MaxAssumption
<1> DEFINE ViewsType == /\ view \in Views /\ it \in Iterators /\ Between(it)
                        /\ at \in Iterators /\ Between(at)
                        /\ stop \in Iterators /\ Between(stop)
<1>0. ViewsType /\ running \in BOOLEAN /\ visited \in Seq(Refs)
      /\ asked \in [of : {"view", "position", "go"}, by : Int] /\ answer \in Refs
  BY DEF TypeOK
<1>1. Throws \in Refs /\ \A d \in Pointers, n \in size_t : Ref(d, n) \in Refs
  BY DEF Throws, Ref, Refs, Pointers, size_t
<1>2. ASSUME NEW data \in Arrays, NEW len \in size_t, Make(data, len) PROVE TypeOK'
  BY <1>0, <1>2 DEF Make, TypeOK, Views, Pointers, client, loop, Between
<1>3. ASSUME NEW i \in Iterators, Between(i), Take(i) PROVE TypeOK'
  BY <1>0, <1>3 DEF Take, TypeOK, loop, Between
<1>4. ASSUME NEW off \in size_t, Move(off) PROVE TypeOK'
  <2>1. PICK i \in {Increment(it), Decrement(it), Advance(it, off), Retreat(it, off)}, by \in Int :
          Go(i, by)
    BY <1>4 DEF Move, size_t
  <2>2. i \in Iterators /\ Between(i)
    BY <1>0, <2>1, OperatorsStay
  <2> QED
    BY <1>0, <2>1, <2>2 DEF Go, TypeOK, loop, Between
<1>5. ASSUME NEW of \in {"view", "position"}, NEW idx \in size_t, NEW ref \in Refs,
             Access(of, idx, ref)
      PROVE  TypeOK'
  BY <1>0, <1>5 DEF Access, TypeOK, loop, Between, size_t
<1>6. ASSUME ForBegin PROVE TypeOK'
  <2>1. at' = begin(view) /\ stop' = end(view)
    BY <1>6 DEF ForBegin
  <2> QED
    BY <1>0, <1>6, <2>1, Ends DEF ForBegin, TypeOK, client, Between
<1>7. ASSUME ForBody PROVE TypeOK'
  <2>1. at' = Increment(at) /\ at' \in Iterators /\ Between(at)'
    <3>1. 0 \in size_t
      BY DEF size_t
    <3>2. at' = Increment(at)
      BY <1>7 DEF ForBody
    <3>3. Increment(at) \in Iterators /\ Between(Increment(at))
      BY <1>0, <3>1, OperatorsStay
    <3> QED
      BY <3>2, <3>3
  <2>2. visited' \in Seq(Refs)
    <3>1. Ref(at.data, at.index) \in Refs
      BY <1>0, <1>1 DEF Iterators
    <3> QED
      BY <1>0, <1>7, <3>1 DEF ForBody, Noted
  <2> QED
    BY <1>0, <1>7, <2>1, <2>2 DEF ForBody, TypeOK, client, Between
<1>8. ASSUME ForEnd PROVE TypeOK'
  BY <1>0, <1>8 DEF ForEnd, TypeOK, client, Between
<1>9. ASSUME NEW n \in size_t, At(n) PROVE TypeOK'
  <2>1. (IF Outside(view, n) THEN Throws ELSE Ref(view.data, n)) \in Refs
    BY <1>0, <1>1 DEF Views
  <2> QED
    BY <1>5, <1>9, <2>1 DEF At
<1>10. ASSUME NEW n \in size_t, ItAt(n) PROVE TypeOK'
  <2>1. (IF n >= it.len THEN Throws ELSE Ref(it.data, n)) \in Refs
    BY <1>0, <1>1 DEF Iterators
  <2> QED
    BY <1>5, <1>10, <2>1 DEF ItAt
<1>11. ASSUME Front PROVE TypeOK'
  <2>1. 0 \in size_t
    BY DEF size_t
  <2>2. (IF view.len = 0 THEN Throws ELSE Ref(view.data, 0)) \in Refs
    BY <1>0, <1>1, <2>1 DEF Views
  <2> QED
    BY <1>5, <1>11, <2>1, <2>2 DEF Front
<1>12. ASSUME UNCHANGED vars PROVE TypeOK'
  BY <1>0, <1>12 DEF vars, TypeOK, Between
<1>13. Take(begin(view)) \/ Take(end(view)) => TypeOK'
  BY <1>0, <1>3, Ends
<1> QED
  BY <1>2, <1>4, <1>6, <1>7, <1>8, <1>9, <1>10, <1>11, <1>12, <1>13 DEF Next

(* Every iterator stays between the ends of its view, for every step and   *)
(* every width of size_t (contiguous_iterator).                            *)
THEOREM TypeCorrect == Spec => []TypeOK
  BY TypeInit, TypeStep, PTL DEF Spec

-----------------------------------------------------------------------------
(* The range-for: its iterators are of one view, the second is its end,    *)
(* and what was visited is what lies before the first.                     *)

LoopInv == /\ at.data = stop.data /\ at.len = stop.len /\ stop.index = stop.len
           /\ Len(visited) = at.index
           /\ \A k \in DOMAIN visited : visited[k] = Ref(stop.data, k - 1)
           /\ ~running => at.index = stop.len

LEMMA LoopInit == Init => LoopInv
<1> SUFFICES ASSUME Init PROVE LoopInv
  OBVIOUS
<1>1. view \in Views /\ view.len = 0
  BY MaxAssumption DEF Init, Views, Pointers, size_t
<1> QED
  BY <1>1, Ends DEF Init, LoopInv

LEMMA LoopStep == TypeOK /\ LoopInv /\ [Next]_vars => LoopInv'
<1> SUFFICES ASSUME TypeOK, LoopInv, [Next]_vars PROVE LoopInv'
  OBVIOUS
<1>1. /\ view \in Views /\ at \in Iterators /\ stop \in Iterators /\ Between(at)
      /\ visited \in Seq(Refs)
  BY DEF TypeOK
<1>2. ASSUME UNCHANGED loop PROVE LoopInv'
  BY <1>2 DEF loop, LoopInv
<1>3. ASSUME ForBegin PROVE LoopInv'
  <2>1. at' = begin(view) /\ stop' = end(view) /\ running' = TRUE /\ visited' = << >>
    BY <1>3 DEF ForBegin
  <2> QED
    BY <1>1, <2>1, Ends DEF LoopInv
<1>4. ASSUME ForBody PROVE LoopInv'
  <2>1. /\ at.index \in Nat /\ at.len \in 0..Max /\ Max \in Nat /\ at.index <= at.len
        /\ Len(visited) = at.index
    BY <1>1, MaxAssumption DEF Iterators, Between, size_t, LoopInv
  <2>2. at.index < at.len
    <3>1. at.index # stop.index
      BY <1>4 DEF ForBody, Same, LoopInv
    <3> QED
      BY <2>1, <3>1 DEF LoopInv
  <2>3. at' = [at EXCEPT !.index = at.index + 1]
    BY <1>4, <2>2 DEF ForBody, Increment
  <2>4. at'.data = at.data /\ at'.len = at.len /\ at'.index = at.index + 1
    BY <1>1, <2>3 DEF Iterators
  <2>5. visited' = Append(visited, Ref(at.data, at.index))
    BY <1>4, <2>1, <2>2 DEF ForBody, Noted
  <2>6. Len(visited') = at.index + 1
    BY <1>1, <2>1, <2>5
  <2>7. ASSUME NEW k \in DOMAIN visited' PROVE visited'[k] = Ref(stop.data, k - 1)
    <3>1. k \in 1..(at.index + 1) /\ DOMAIN visited = 1..at.index
      BY <1>1, <2>1, <2>5, <2>6
    <3>2. CASE k \in 1..at.index
      BY <1>1, <2>5, <3>1, <3>2 DEF LoopInv
    <3>3. CASE k = at.index + 1
      <4>1. visited'[k] = Ref(at.data, at.index)
        BY <1>1, <2>1, <2>5, <3>3
      <4>2. k - 1 = at.index
        BY <2>1, <3>3
      <4> QED
        BY <4>1, <4>2 DEF LoopInv
    <3> QED
      BY <2>1, <3>1, <3>2, <3>3
  <2>8. stop' = stop /\ running' = running /\ running
    BY <1>4 DEF ForBody
  <2> QED
    BY <2>4, <2>6, <2>7, <2>8 DEF LoopInv
<1>5. ASSUME ForEnd PROVE LoopInv'
  BY <1>5 DEF ForEnd, Same, LoopInv
<1> QED
  BY <1>2, <1>3, <1>4, <1>5
     DEF Next, Make, Take, Move, Go, At, ItAt, Front, Access, vars, loop

(* A range-for visits each element of the view it began with, in order and *)
(* once, for views of any length (begin, end, ++, !=).                     *)
THEOREM VisitsEachOnceCorrect == Spec => []VisitsEachOnce
<1>1. TypeOK /\ LoopInv => VisitsEachOnce
  BY DEF LoopInv, VisitsEachOnce
<1> QED
  BY <1>1, TypeInit, TypeStep, LoopInit, LoopStep, PTL DEF Spec

(* The steps of LoopEnds, without its fairness: a range-for that runs comes *)
(* one element nearer to the end it began with at each turn, also when the *)
(* span is assigned to meanwhile, and ends there.                          *)
Advances ==
    running =>
        /\ stop' = stop
        /\ \/ running' /\ at' = at
           \/ running' /\ at.index < stop.index /\ at'.index = at.index + 1
           \/ ~running' /\ at.index = stop.index /\ at' = at

THEOREM LoopAdvances == Spec => [][Advances]_vars
<1>1. TypeOK /\ LoopInv /\ [Next]_vars => [Advances]_vars
  <2> SUFFICES ASSUME TypeOK, LoopInv, Next, running PROVE Advances
    BY DEF Advances
  <2>1. CASE ForBody
    <3>1. /\ at.index \in Nat /\ at.len \in Nat /\ at.index <= at.len /\ at \in Iterators
      BY MaxAssumption DEF TypeOK, Iterators, Between, size_t
    <3>2. at.index # stop.index /\ stop.index = at.len
      BY <2>1 DEF ForBody, Same, LoopInv
    <3>3. at.index < at.len
      BY <3>1, <3>2
    <3>4. at' = [at EXCEPT !.index = at.index + 1] /\ stop' = stop /\ running' = running
      BY <2>1, <3>3 DEF ForBody, Increment
    <3>5. at'.index = at.index + 1
      BY <3>1, <3>4 DEF Iterators
    <3> QED
      BY <3>2, <3>3, <3>4, <3>5 DEF Advances
  <2>2. CASE ForEnd
    BY <2>2 DEF ForEnd, Same, Advances
  <2>3. CASE UNCHANGED loop
    BY <2>3 DEF loop, Advances
  <2> QED
    BY <2>1, <2>2, <2>3 DEF Next, Make, Take, Move, Go, At, ItAt, Front, Access, ForBegin
<1> QED
  BY <1>1, TypeInit, TypeStep, LoopInit, LoopStep, PTL DEF Spec

-----------------------------------------------------------------------------
(* The refinement.                                                         *)

(* Only a view without elements has no array.                              *)
NullIsEmpty == /\ view.data = Null => view.len = 0
               /\ it.data = Null => it.len = 0

LEMMA NullInit == Init => NullIsEmpty
<1> SUFFICES ASSUME Init PROVE NullIsEmpty
  OBVIOUS
<1>1. view \in Views /\ view.len = 0
  BY MaxAssumption DEF Init, Views, Pointers, size_t
<1> QED
  BY <1>1, Ends DEF Init, NullIsEmpty

LEMMA NullStep == TypeOK /\ NullIsEmpty /\ [Next]_vars => NullIsEmpty'
<1> SUFFICES ASSUME TypeOK, NullIsEmpty, [Next]_vars PROVE NullIsEmpty'
  OBVIOUS
<1>1. view \in Views /\ it \in Iterators /\ Between(it)
  BY DEF TypeOK
<1>2. ASSUME UNCHANGED <<view, it>> PROVE NullIsEmpty'
  BY <1>2 DEF NullIsEmpty
<1>3. ASSUME NEW data \in Arrays, NEW len \in size_t, Make(data, len) PROVE NullIsEmpty'
  BY <1>3, ArraysAssumption DEF Make, client, NullIsEmpty
<1>4. ASSUME Take(begin(view)) \/ Take(end(view)) PROVE NullIsEmpty'
  BY <1>1, <1>4, Ends DEF Take, NullIsEmpty
<1>5. ASSUME NEW off \in size_t, Move(off) PROVE NullIsEmpty'
  <2>1. PICK i \in {Increment(it), Decrement(it), Advance(it, off), Retreat(it, off)}, by \in Int :
          Go(i, by)
    BY <1>5, MaxAssumption DEF Move, size_t
  <2>2. i.data = it.data /\ i.len = it.len
    BY <1>1, <2>1, OperatorsStay
  <2> QED
    BY <2>1, <2>2 DEF Go, NullIsEmpty
<1> QED
  BY <1>2, <1>3, <1>4, <1>5
     DEF Next, At, ItAt, Front, Access, ForBegin, ForBody, ForEnd, client, vars

(* ++, --, += and -= go where a clamped sum of integers says.              *)
LEMMA MoveIsGo ==
    ASSUME TypeOK, NEW off \in size_t, Move(off)
    PROVE  Promise!Go
<1>1. /\ it \in Iterators /\ Between(it) /\ Max \in Nat /\ it.index \in 0..Max
      /\ it.len \in 0..Max /\ it.index <= it.len /\ off \in 0..Max
  BY MaxAssumption DEF TypeOK, Iterators, Between, size_t
<1>2. ASSUME NEW i, NEW by \in Int, Go(i, by), i \in Iterators, i.len = it.len,
             i.index = Promise!Clamped(it.index + by)
      PROVE  Promise!Go
  BY <1>2 DEF Go, Promise!Go
<1>3. ASSUME NEW i, NEW by, i \in {Increment(it), Decrement(it), Advance(it, off), Retreat(it, off)}
      PROVE  i \in Iterators /\ i.len = it.len
  BY <1>1, <1>3, OperatorsStay
<1>4. Increment(it).index = Promise!Clamped(it.index + 1)
  BY <1>1 DEF Increment, Promise!Clamped, Iterators
<1>5. Decrement(it).index = Promise!Clamped(it.index + (-1))
  BY <1>1 DEF Decrement, Promise!Clamped, Iterators
<1>6. Advance(it, off).index = Promise!Clamped(it.index + off)
  BY <1>1, Saturates DEF Promise!Clamped
<1>7. Retreat(it, off).index = Promise!Clamped(it.index + (-off))
  BY <1>1, Saturates DEF Promise!Clamped
<1>8. off \in Int /\ -off \in Int
  BY <1>1
<1> QED
  BY <1>2, <1>3, <1>4, <1>5, <1>6, <1>7, <1>8 DEF Move

(* An access is answered exactly if its index is inside.                   *)
LEMMA AccessIsAccess ==
    ASSUME NEW of \in {"view", "position"}, NEW idx \in Nat, NEW ref,
           Access(of, idx, ref),
           (ref # Throws) <=> idx < IF of = "view" THEN view.len ELSE it.len
    PROVE  Promise!Access
<1>1. /\ asked'.of = of /\ asked'.by = idx /\ answer' = ref
      /\ UNCHANGED <<view, it>>
  BY DEF Access
<1> QED
  BY <1>1 DEF Promise!Access

(* span and its iterator implement CheckedView: positions saturate, and    *)
(* checked accesses answer exactly inside, for a size_t of any width.      *)
THEOREM ImplementsCheckedViewCorrect == Spec => ImplementsCheckedView
<1>1. Init => Promise!AInit
  <2> SUFFICES ASSUME Init PROVE Promise!AInit
    OBVIOUS
  <2>1. view \in Views /\ view.len = 0
    BY MaxAssumption DEF Init, Views, Pointers, size_t
  <2> QED
    BY <2>1, Ends DEF Init, Promise!AInit
<1>2. TypeOK /\ NullIsEmpty /\ [Next]_vars => [Promise!ANext]_Promise!avars
  <2> SUFFICES ASSUME TypeOK, NullIsEmpty, [Next]_vars
               PROVE  Promise!ANext \/ UNCHANGED Promise!avars
    OBVIOUS
  <2>1. /\ view \in Views /\ it \in Iterators /\ Max \in Nat
        /\ view.len \in 0..Max /\ it.len \in 0..Max
    BY MaxAssumption DEF TypeOK, Views, Iterators, size_t
  <2>2. ASSUME NEW data \in Arrays, NEW len \in size_t, Make(data, len) PROVE Promise!NewView
    BY <2>2, MaxAssumption DEF Make, client, Promise!NewView, size_t
  <2>3. ASSUME Take(begin(view)) \/ Take(end(view)) PROVE Promise!Take
    BY <2>1, <2>3, Ends DEF Take, Promise!Take
  <2>4. \A off \in size_t : Move(off) => Promise!Go
    BY MoveIsGo
  <2>5. ASSUME NEW n \in size_t, At(n) PROVE Promise!Access
    <3>1. n \in Nat /\ (Outside(view, n) <=> ~(n < view.len))
      BY <2>1, OutsideIsOutside DEF size_t
    <3> DEFINE ref == IF Outside(view, n) THEN Throws ELSE Ref(view.data, n)
    <3>2. (ref # Throws) <=> n < view.len
      BY <2>1, <3>1 DEF NullIsEmpty, Throws, Ref
    <3>3. Access("view", n, ref)
      BY <2>5 DEF At
    <3> QED
      BY <3>1, <3>2, <3>3, AccessIsAccess
  <2>6. ASSUME NEW n \in size_t, ItAt(n) PROVE Promise!Access
    <3> DEFINE ref == IF n >= it.len THEN Throws ELSE Ref(it.data, n)
    <3>1. n \in Nat
      BY <2>1 DEF size_t
    <3>2. (ref # Throws) <=> n < it.len
      BY <2>1, <3>1 DEF NullIsEmpty, Throws, Ref
    <3>3. Access("position", n, ref)
      BY <2>6 DEF ItAt
    <3> QED
      BY <3>1, <3>2, <3>3, AccessIsAccess
  <2>7. ASSUME Front PROVE Promise!Access
    <3> DEFINE ref == IF view.len = 0 THEN Throws ELSE Ref(view.data, 0)
    <3>1. (ref # Throws) <=> 0 < view.len
      BY <2>1 DEF NullIsEmpty, Throws, Ref
    <3>2. Access("view", 0, ref)
      BY <2>7 DEF Front
    <3> QED
      BY <3>1, <3>2, AccessIsAccess
  <2>8. ASSUME ForBegin \/ ForBody \/ ForEnd \/ UNCHANGED vars PROVE UNCHANGED Promise!avars
    BY <2>8 DEF ForBegin, ForBody, ForEnd, client, vars, Promise!avars
  <2> QED
    BY <2>2, <2>3, <2>4, <2>5, <2>6, <2>7, <2>8 DEF Next, Promise!ANext
<1> QED
  BY <1>1, <1>2, TypeInit, TypeStep, NullInit, NullStep, PTL
     DEF Spec, ImplementsCheckedView, Promise!ASpec
=============================================================================
