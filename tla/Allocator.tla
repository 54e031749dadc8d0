------------------------------ MODULE Allocator ------------------------------
(***************************************************************************)
(* What capy::Pool promises (src/broker_impl/pool.h), without its mutex,   *)
(* condition variable or order: an object is in the pool or with one of    *)
(* the threads, threads take objects out and bring them back, and a pool   *)
(* that is whole can be retired.                                           *)
(***************************************************************************)
CONSTANTS Objects, Threads

VARIABLES
  free,   \* the objects in the pool
  holds   \* the objects each thread has taken

Init ==
  /\ free = Objects
  /\ holds = [t \in Threads |-> {}]

Take(t) ==
  \E o \in free : /\ free' = free \ {o}
                  /\ holds' = [holds EXCEPT ![t] = @ \cup {o}]

Return(t) ==
  \E o \in holds[t] : /\ free' = free \cup {o}
                      /\ holds' = [holds EXCEPT ![t] = @ \ {o}]

Retire ==
  /\ free = Objects
  /\ free' = {}
  /\ UNCHANGED holds

Next == Retire \/ \E t \in Threads : Take(t) \/ Return(t)

Spec == Init /\ [][Next]_<<free, holds>>
=============================================================================
