-------------------------------- MODULE Pool --------------------------------
(***************************************************************************)
(* capy::Pool (src/broker_impl/pool.h): a fixed number of objects behind a *)
(* mutex, with a condition variable for the threads that find it empty.    *)
(* What a thread does between taking and giving up the mutex is one step;  *)
(* wait() gives it up, so a woken thread tests the pool again in a step of *)
(* its own, and other threads may come in between.                         *)
(***************************************************************************)
EXTENDS Naturals, Sequences, FiniteSets, Functions

CONSTANTS
  size_,     \* number of objects
  Threads,   \* the threads that use the pool
  MaxHold    \* bound on the objects one thread holds at a time

ASSUME PoolAssumption == size_ \in Nat /\ MaxHold \in Nat

(* The factory makes object i for index i.                                 *)
Objects == 1..size_

VARIABLES
  available_objects_,  \* the vector, first to last
  holds,               \* the objects each thread has acquired
  pc,                  \* where a thread is with respect to acquire()
  alive,               \* the pool has not been destroyed
  deleted              \* the objects the destructor deleted

vars == <<available_objects_, holds, pc, alive, deleted>>

TypeOK ==
  /\ available_objects_ \in Seq(Objects)
  /\ holds \in [Threads -> SUBSET Objects]
  /\ pc \in [Threads -> {"out", "asleep", "woken"}]
  /\ alive \in BOOLEAN
  /\ deleted \subseteq Objects

(* The constructor: fill().                                                *)
Init ==
  /\ available_objects_ = [i \in 1..size_ |-> i]
  /\ holds = [t \in Threads |-> {}]
  /\ pc = [t \in Threads |-> "out"]
  /\ alive = TRUE
  /\ deleted = {}

(* Mutant of PopBack: the object is read and not removed.                  *)
ReadBack(t) ==
  /\ holds' = [holds EXCEPT
                 ![t] = @ \cup {available_objects_[Len(available_objects_)]}]
  /\ UNCHANGED available_objects_

(* Mutant of PopBack: the index is one past the end of the vector.         *)
PopBeyond(t) ==
  LET last == Len(available_objects_)
  IN /\ holds' = [holds EXCEPT ![t] = @ \cup {last + 1}]
     /\ available_objects_' = SubSeq(available_objects_, 1, last - 1)

(* The end of the vector goes to thread t.                                 *)
PopBack(t) ==
  LET last == Len(available_objects_)
  IN /\ holds' = [holds EXCEPT ![t] = @ \cup {available_objects_[last]}]
     /\ available_objects_' = SubSeq(available_objects_, 1, last - 1)

(* acquire(), entered or resumed: the head of its loop.                    *)
TryAcquire(t) ==
  \/ /\ available_objects_ # <<>>
     /\ PopBack(t)
     /\ pc' = [pc EXCEPT ![t] = "out"]
     /\ UNCHANGED <<alive, deleted>>
  \/ /\ available_objects_ = <<>>
     /\ pc' = [pc EXCEPT ![t] = "asleep"]
     /\ UNCHANGED <<available_objects_, holds, alive, deleted>>

(* A thread calls acquire().                                               *)
acquire(t) ==
  /\ alive
  /\ pc[t] = "out"
  /\ Cardinality(holds[t]) < MaxHold
  /\ TryAcquire(t)

(* A notified thread has the mutex again.                                  *)
resume(t) ==
  /\ pc[t] = "woken"
  /\ TryAcquire(t)

(* wait() returns without a notification, as the standard allows.          *)
SpuriousWakeup(t) ==
  /\ pc[t] = "asleep"
  /\ pc' = [pc EXCEPT ![t] = "woken"]
  /\ UNCHANGED <<available_objects_, holds, alive, deleted>>

(* Mutant of release: nobody is notified.                                  *)
ReleaseSilently(t, o) ==
  /\ alive
  /\ pc[t] = "out"
  /\ o \in holds[t]
  /\ holds' = [holds EXCEPT ![t] = @ \ {o}]
  /\ available_objects_' = <<o>> \o available_objects_
  /\ UNCHANGED <<pc, alive, deleted>>

(* Mutant of release: the begin of the vector is overwritten.              *)
ReleaseOverwrites(t, o) ==
  /\ alive
  /\ pc[t] = "out"
  /\ o \in holds[t]
  /\ holds' = [holds EXCEPT ![t] = @ \ {o}]
  /\ available_objects_' = IF available_objects_ = <<>> THEN <<o>>
                            ELSE [available_objects_ EXCEPT ![1] = o]
  /\ pc' = [u \in Threads |-> IF pc[u] = "asleep" THEN "woken" ELSE pc[u]]
  /\ UNCHANGED <<alive, deleted>>

(* release(): object o goes in at the beginning and notify_all wakes every *)
(* sleeper.                                                                *)
release(t, o) ==
  /\ alive
  /\ pc[t] = "out"
  /\ o \in holds[t]
  /\ holds' = [holds EXCEPT ![t] = @ \ {o}]
  /\ available_objects_' = <<o>> \o available_objects_
  /\ pc' = [u \in Threads |-> IF pc[u] = "asleep" THEN "woken" ELSE pc[u]]
  /\ UNCHANGED <<alive, deleted>>

(* ~Pool, when no thread uses the pool any more.                           *)
Destroy ==
  /\ alive
  /\ \A t \in Threads : pc[t] = "out" /\ holds[t] = {}
  /\ alive' = FALSE
  /\ deleted' = Range(available_objects_)
  /\ available_objects_' = <<>>
  /\ UNCHANGED <<holds, pc>>

-----------------------------------------------------------------------------
ThreadStep(t) ==
  \/ acquire(t) \/ resume(t) \/ SpuriousWakeup(t)
  \/ \E o \in Objects : release(t, o)

Next == Destroy \/ \E t \in Threads : ThreadStep(t)

(* A notified thread gets the mutex in the end, and the users give back    *)
(* what they acquire.  Nothing is said about which of several threads gets *)
(* the mutex first, nor about spurious wakeups.                            *)
Fairness ==
  \A t \in Threads : /\ WF_vars(resume(t))
                     /\ WF_vars(\E o \in Objects : release(t, o))

Spec == Init /\ [][Next]_vars
FairSpec == Spec /\ Fairness
-----------------------------------------------------------------------------
(* Properties                                                              *)

(* No object is handed to two threads at once, and none is in the pool     *)
(* while a thread has it.                                                  *)
Exclusive ==
  /\ \A t, u \in Threads : t # u => holds[t] \cap holds[u] = {}
  /\ \A t \in Threads : holds[t] \cap Range(available_objects_) = {}

(* acquire and release never lose an object nor put one in twice: what the *)
(* threads do not hold is in the vector, once.                             *)
Conserved ==
  /\ alive => Objects = Range(available_objects_) \cup UNION {holds[t] : t \in Threads}
  /\ IsInjective(available_objects_)

(* The destructor deletes every object the factory made.                   *)
AllDeleted == ~alive => deleted = Objects

(* No lost wakeup: a thread sleeps in wait() only while the pool is empty. *)
SleepersOnlyWhenEmpty ==
  (\E t \in Threads : pc[t] = "asleep") => available_objects_ = <<>>

(* Every sleeping thread is woken again, as long as the threads that hold  *)
(* objects are not themselves waiting for more.                            *)
SleepersWoken == \A t \in Threads : pc[t] = "asleep" ~> pc[t] # "asleep"

(* The pool, its locking and its order included, is an Allocator.          *)
Promise == INSTANCE Allocator WITH free <- Range(available_objects_)

PoolImplementsAllocator == Promise!Spec
=============================================================================
