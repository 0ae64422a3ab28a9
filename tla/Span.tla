-------------------------------- MODULE Span --------------------------------
(***************************************************************************)
(* span and its contiguous_iterator (include/span.hh): a client that makes *)
(* views, takes an iterator of one, moves it by any step and reads through *)
(* both, and a range-for over the view.  A size_t is a natural number up   *)
(* to Max, and what is computed with it wraps around.  A reference is the  *)
(* array that is viewed and the number of the element.                     *)
(***************************************************************************)
EXTENDS Integers, Sequences

CONSTANTS Max,      \* the largest size_t
          Arrays,   \* what views are made of
          Null      \* nullptr, and no reference: the call has thrown

ASSUME MaxAssumption == Max \in Nat
ASSUME ArraysAssumption == Null \notin Arrays

VARIABLES
    view,       \* a span: _data, _len
    it,         \* an iterator of the client: _data, _index, _len
    at, stop,   \* the two iterators of a range-for
    running,    \* the range-for is
    visited,    \* history: the references its body was given, in order, up to
                \* one more than there can be
    asked,      \* history: the last request, in numbers that do not wrap
    answer      \* the reference that the last access gave

client == <<it, asked, answer>>
loop == <<at, stop, running, visited>>
vars == <<view, it, at, stop, running, visited, asked, answer>>

size_t == 0..Max
Wrapped(n) == n % (Max + 1)

Ref(data, index) == [data |-> data, index |-> index]
Throws == Ref(Null, 0)

Pointers == Arrays \cup {Null}
Views == [data : Pointers, len : size_t]
Iterators == [data : Pointers, index : size_t, len : size_t]
Refs == [data : Pointers, index : size_t]

-----------------------------------------------------------------------------
(* The iterator: its position after ++, --, += and -=.                     *)

Increment(i) == IF i.index < i.len THEN [i EXCEPT !.index = i.index + 1] ELSE i

Decrement(i) == IF i.index > 0 THEN [i EXCEPT !.index = i.index - 1] ELSE i

(* Faulty: no look at whether the sum has wrapped. *)
AdvanceWraps(i, off) ==
    LET sum == Wrapped(i.index + off)
    IN  [i EXCEPT !.index = IF sum < i.len THEN sum ELSE i.len]
Advance(i, off) ==
    LET sum == Wrapped(i.index + off)
    IN  [i EXCEPT !.index = IF sum < i.len /\ sum >= i.index THEN sum ELSE i.len]

Retreat(i, off) == [i EXCEPT !.index = IF off < i.index THEN i.index - off ELSE 0]

begin(v) == [data |-> v.data, index |-> 0, len |-> v.len]

(* Faulty: the last element is not the end. *)
endLast(v) == Advance(begin(v), Wrapped(v.len - 1))
end(v) == Advance(begin(v), v.len)

Outside(v, idx) == idx > Wrapped(v.len - 1) \/ v.len = 0

-----------------------------------------------------------------------------
(* A span is made, or assigned to as elf_t::pheaders does: iterators of    *)
(* the old one go on in the old one.                                       *)
Make(data, len) == /\ view' = [data |-> data, len |-> len]
                   /\ UNCHANGED <<client, loop>>

Take(i) == /\ it' = i
           /\ UNCHANGED <<view, loop, asked, answer>>

(* The client goes on with the iterator itself or with the copy that was   *)
(* moved: the operators that make one are the others, on a copy.           *)
Go(i, by) == /\ it' = i
             /\ asked' = [of |-> "go", by |-> by]
             /\ UNCHANGED <<view, loop, answer>>

Move(off) == \/ Go(Increment(it), 1)
             \/ Go(Decrement(it), -1)
             \/ Go(Advance(it, off), off)
             \/ Go(Retreat(it, off), -off)

Access(of, idx, ref) == /\ asked' = [of |-> of, by |-> idx]
                        /\ answer' = ref
                        /\ UNCHANGED <<view, it, loop>>

(* span [] and front().                                                    *)
At(idx) == Access("view", idx, IF Outside(view, idx) THEN Throws ELSE Ref(view.data, idx))
Front == Access("view", 0, IF view.len = 0 THEN Throws ELSE Ref(view.data, 0))

(* The iterator's [], which does not look at where the iterator is.        *)
ItAt(idx) ==
    Access("position", idx, IF idx >= it.len THEN Throws ELSE Ref(it.data, idx))

(* for(auto& x : view): begin() and end() are called once.                 *)
ForBegin == /\ ~running
            /\ at' = begin(view)
            /\ stop' = end(view)
            /\ running' = TRUE
            /\ visited' = << >>
            /\ UNCHANGED <<view, client>>

(* Faulty: by the position alone, against the end of the span as it is now. *)
SameAsNow(i, j) == i.index = end(view).index
Same(i, j) == i.data = j.data /\ i.index = j.index /\ i.len = j.len

Noted(ref) == IF Len(visited) > Max THEN visited ELSE Append(visited, ref)

ForBody == /\ running /\ ~Same(at, stop)
           /\ visited' = Noted(Ref(at.data, at.index))
           /\ at' = Increment(at)
           /\ UNCHANGED <<view, stop, running, client>>

ForEnd == /\ running /\ Same(at, stop)
          /\ running' = FALSE
          /\ UNCHANGED <<view, at, stop, visited, client>>

Init == /\ view = [data |-> Null, len |-> 0]
        /\ it = begin(view) /\ at = it /\ stop = it
        /\ running = FALSE
        /\ visited = << >>
        /\ asked = [of |-> "view", by |-> 0]
        /\ answer = Throws

Next == \/ \E data \in Arrays, len \in size_t : Make(data, len)
        \/ Take(begin(view)) \/ Take(end(view))
        \/ \E n \in size_t : Move(n) \/ At(n) \/ ItAt(n)
        \/ Front
        \/ ForBegin \/ ForBody \/ ForEnd

Spec == Init /\ [][Next]_vars

(* A loop that runs goes on.                                               *)
FairSpec == Spec /\ WF_vars(ForBody \/ ForEnd)

-----------------------------------------------------------------------------
(* Every iterator is between the beginning and the end of its view; the    *)
(* index of one never wraps (contiguous_iterator, all operators).          *)
Between(i) == i.index <= i.len

TypeOK == /\ view \in Views
          /\ {it, at, stop} \subseteq Iterators
          /\ Between(it) /\ Between(at) /\ Between(stop)
          /\ running \in BOOLEAN
          /\ visited \in Seq(Refs)
          /\ asked \in [of : {"view", "position", "go"}, by : Int]
          /\ answer \in Refs

(* A range-for gives its body every element of the view it began with, in  *)
(* order and once, and no reference beyond it, also when the span is       *)
(* assigned to meanwhile (begin(), end(), ++, !=).                         *)
VisitsEachOnce ==
    /\ Len(visited) = at.index
    /\ \A k \in DOMAIN visited : visited[k] = Ref(stop.data, k - 1)
    /\ ~running => Len(visited) = stop.len

(* A range-for ends (++ reaches end() and != tells).                       *)
LoopEnds == running ~> ~running

(* The iterator saturates and the checked accesses of span and iterator    *)
(* answer exactly inside, as with numbers that do not wrap.                *)
Promise == INSTANCE CheckedView WITH
    size <- view.len, length <- it.len, position <- it.index,
    answered <- (answer # Throws)
ImplementsCheckedView == Promise!ASpec
=============================================================================
