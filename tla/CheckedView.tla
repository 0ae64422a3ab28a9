----------------------------- MODULE CheckedView -----------------------------
(***************************************************************************)
(* What span and its iterator (include/span.hh) promise, with numbers that *)
(* have no largest one: a position stops at either end of the view it was  *)
(* taken from, however far it is asked to go, and an indexed access is     *)
(* answered exactly inside the view.                                       *)
(***************************************************************************)
EXTENDS Integers

VARIABLES size,       \* elements in the view
          length,     \* elements in the view that the position was taken from
          position,
          asked,      \* the last request: of the view or of the position, or
                      \* to go there; and a number
          answered    \* the last access: was it answered

avars == <<size, length, position, asked, answered>>

Clamped(k) == IF k < 0 THEN 0 ELSE IF k > length THEN length ELSE k

AInit == /\ size = 0 /\ length = 0 /\ position = 0
         /\ asked = [of |-> "view", by |-> 0]
         /\ answered = FALSE

NewView == /\ size' \in Nat
           /\ UNCHANGED <<length, position, asked, answered>>

(* The position is taken at the beginning or at the end of the view.       *)
Take == /\ length' = size
        /\ position' \in {0, size}
        /\ UNCHANGED <<size, asked, answered>>

Go == /\ asked'.of = "go" /\ asked'.by \in Int
      /\ position' = Clamped(position + asked'.by)
      /\ UNCHANGED <<size, length, answered>>

Access == /\ asked'.of \in {"view", "position"} /\ asked'.by \in Nat
          /\ answered' = (asked'.by < IF asked'.of = "view" THEN size ELSE length)
          /\ UNCHANGED <<size, length, position>>

ANext == NewView \/ Take \/ Go \/ Access

ASpec == AInit /\ [][ANext]_avars
=============================================================================
