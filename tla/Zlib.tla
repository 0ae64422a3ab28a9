-------------------------------- MODULE Zlib --------------------------------
(***************************************************************************)
(* The life of zlib_t objects (include/zlib.hh): each has a deflating and  *)
(* an inflating context with a z_stream, which the constructor initialises *)
(* and nothing ends.  The class declares neither a destructor nor a copy,  *)
(* so both are implicit, member by member.  What zlib keeps for a stream   *)
(* is a state, named by the z_stream; transform() does nothing yet.        *)
(***************************************************************************)
CONSTANTS Objects,   \* places where a zlib_t lives
          States,    \* bound: what zlib has memory for
          NoState    \* the pointer of a z_stream that is not initialised

Modes == {"Deflate", "Inflate"}

VARIABLES
    alive,      \* places with a constructed object
    stream,     \* for each and each mode, the state its _stream points to
    eos,        \* for each and each mode, its _eos
    allocated   \* zlib: the states that were initialised and not ended

vars == <<alive, stream, eos, allocated>>

Blank == [m \in Modes |-> NoState]

Init == /\ alive = {}
        /\ stream = [o \in Objects |-> Blank]
        /\ eos = [o \in Objects |-> [m \in Modes |-> FALSE]]
        /\ allocated = {}

-----------------------------------------------------------------------------
(* deflateInit and inflateInit: a state of its own for each that succeeds. *)
InitResults == {s \in [Modes -> (States \ allocated) \cup {NoState}] :
                  s["Deflate"] = s["Inflate"] => s["Deflate"] = NoState}

Construct(o) == /\ o \notin alive
                /\ alive' = alive \cup {o}
                /\ \E s \in InitResults :
                     /\ stream' = [stream EXCEPT ![o] = s]
                     /\ eos' = [eos EXCEPT ![o] = [m \in Modes |-> s[m] = NoState]]
                     /\ allocated' = allocated \cup ({s[m] : m \in Modes} \ {NoState})

(* Copy construction and copy assignment, moves being copies as well.      *)
Copy(o, from) == /\ from \in alive /\ o # from
                 /\ alive' = alive \cup {o}
                 /\ stream' = [stream EXCEPT ![o] = stream[from]]
                 /\ eos' = [eos EXCEPT ![o] = eos[from]]
                 /\ UNCHANGED allocated

(* The implicit destructor: no inflateEnd, no deflateEnd.                  *)
Destroy(o) == /\ o \in alive
              /\ alive' = alive \ {o}
              /\ UNCHANGED <<stream, eos, allocated>>

Next == \E o \in Objects : \/ Construct(o)
                           \/ Destroy(o)
                           \/ \E from \in Objects : Copy(o, from)

Spec == Init /\ [][Next]_vars

-----------------------------------------------------------------------------
(* What `RAII wrapper' says: what zlib keeps is kept for a live object     *)
(* (zlib.hh:1).                                                            *)
StatesAreOwned == allocated \subseteq {stream[o][m] : o \in alive, m \in Modes}
=============================================================================
