-------------------------- MODULE UniqueOwnership --------------------------
(***************************************************************************)
(* What the RAII wrappers of the library promise about file descriptors,  *)
(* with neither the wrappers' members nor the kernel's tables in sight:    *)
(* a descriptor that has been acquired has one holder until it is          *)
(* released, a wrapper holds at most one descriptor, and descriptors       *)
(* change hands only by a hand-over to a wrapper that holds nothing or by  *)
(* an exchange between two wrappers.  Handles.tla is shown to implement    *)
(* this module.                                                            *)
(***************************************************************************)
CONSTANTS Resources,  \* the file descriptors a process can have
          Wrappers,   \* the objects that can hold one
          Outside,    \* the rest of the program, which holds any number
          Nobody      \* the holder of a descriptor that is not open

VARIABLE holder

Holders == Wrappers \cup {Outside}
Holds(h) == {r \in Resources : holder[r] = h}

TypeOK == holder \in [Resources -> Holders \cup {Nobody}]

Init == holder = [r \in Resources |-> Nobody]

(* A closed descriptor is opened for h. *)
Acquire(r, h) == /\ holder[r] = Nobody
                 /\ h \in Wrappers => Holds(h) = {}
                 /\ holder' = [holder EXCEPT ![r] = h]

(* r passes from its holder to the wrapper w, which holds nothing. *)
HandOver(r, w) == /\ holder[r] \in Holders
                  /\ Holds(w) = {}
                  /\ holder' = [holder EXCEPT ![r] = w]

(* v and w, which both hold a descriptor, swap them. *)
Exchange(v, w) == /\ Holds(v) # {}
                  /\ Holds(w) # {}
                  /\ holder' = [r \in Resources |->
                                  CASE holder[r] = v -> w
                                    [] holder[r] = w -> v
                                    [] OTHER -> holder[r]]

Release(r) == /\ holder[r] \in Holders
              /\ holder' = [holder EXCEPT ![r] = Nobody]

Next == \/ \E r \in Resources, h \in Holders : Acquire(r, h)
        \/ \E r \in Resources, w \in Wrappers : HandOver(r, w)
        \/ \E v, w \in Wrappers : Exchange(v, w)
        \/ \E r \in Resources : Release(r)

Spec == Init /\ [][Next]_holder

(* A wrapper holds at most one descriptor. *)
AtMostOne == \A w \in Wrappers : \A r, s \in Holds(w) : r = s
=============================================================================
