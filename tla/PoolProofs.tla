----------------------------- MODULE PoolProofs -----------------------------
(* Theorems about Pool, for any number of objects and threads.             *)
EXTENDS Pool, SequenceTheorems, TLAPS

(* The parts of the inductive invariant support one another: the vector is *)
(* without repetition because what a thread returns is not in it, and no   *)
(* object is in two hands because what a thread takes is in it.            *)
PoolInv ==
  /\ TypeOK /\ Exclusive /\ Conserved /\ AllDeleted /\ SleepersOnlyWhenEmpty
  /\ ~alive => \A t \in Threads : holds[t] = {} /\ pc[t] = "out"

-----------------------------------------------------------------------------
(* What taking the last and putting in a first element do to a vector      *)
(* without repetition.                                                     *)
LEMMA PopFacts ==
  ASSUME NEW S, NEW s \in Seq(S), s # <<>>, IsInjective(s)
  PROVE  LET last == s[Len(s)]
             rest == SubSeq(s, 1, Len(s) - 1)
         IN  /\ last \in Range(s)
             /\ rest \in Seq(S)
             /\ IsInjective(rest)
             /\ Range(rest) = Range(s) \ {last}
<1> DEFINE last == s[Len(s)]
           rest == SubSeq(s, 1, Len(s) - 1)
<1>1. Len(s) \in Nat /\ Len(s) >= 1 /\ DOMAIN s = 1..Len(s)
  BY EmptySeq, LenProperties
<1>2. \A i \in 1..(Len(s) - 1) : s[i] \in S
  BY <1>1, ElementOfSeq
<1>3. /\ rest \in Seq(S)
      /\ Len(rest) = Len(s) - 1
      /\ \A i \in 1..(Len(s) - 1) : rest[i] = s[i]
  <2>1. Len(s) - 1 \in Int
    BY <1>1
  <2>2. /\ rest \in Seq(S)
        /\ Len(rest) = IF 1 <= Len(s) - 1 THEN (Len(s) - 1) - 1 + 1 ELSE 0
        /\ \A i \in 1..((Len(s) - 1) - 1 + 1) : rest[i] = s[1 + i - 1]
    BY <1>2, <2>1, SubSeqProperties
  <2> QED
    BY <1>1, <2>2
<1>4. DOMAIN rest = 1..(Len(s) - 1)
  BY <1>3, LenProperties
<1> HIDE DEF rest
<1>5. last \in Range(s)
  BY <1>1 DEF Range
<1>6. IsInjective(rest)
  BY <1>1, <1>3, <1>4, SMTT(30) DEF IsInjective
<1>7. Range(rest) \subseteq Range(s) \ {last}
  <2> SUFFICES ASSUME NEW i \in 1..(Len(s) - 1) PROVE rest[i] \in Range(s) \ {last}
    BY <1>4 DEF Range
  <2>0. rest[i] = s[i]
    BY <1>3
  <2>1. i \in DOMAIN s /\ Len(s) \in DOMAIN s /\ i # Len(s)
    <3>1. i \in 1..Len(s) /\ Len(s) \in 1..Len(s)
      BY <1>1
    <3>2. \A n \in Nat : \A j \in 1..(n - 1) : j # n
      OBVIOUS
    <3> QED
      BY <1>1, <3>1, <3>2
  <2>2. s[i] # s[Len(s)]
    BY <2>1 DEF IsInjective
  <2>3. s[i] \in Range(s)
    BY <2>1 DEF Range
  <2> QED
    BY <2>0, <2>2, <2>3
<1>8. Range(s) \ {last} \subseteq Range(rest)
  <2> SUFFICES ASSUME NEW i \in 1..Len(s), s[i] # last PROVE s[i] \in Range(rest)
    BY <1>1 DEF Range
  <2>1. i \in 1..(Len(s) - 1)
    BY <1>1
  <2> QED
    BY <1>3, <1>4, <2>1 DEF Range
<1> QED
  BY <1>3, <1>5, <1>6, <1>7, <1>8 DEF rest

LEMMA PushFacts ==
  ASSUME NEW S, NEW s \in Seq(S), NEW o \in S, o \notin Range(s), IsInjective(s)
  PROVE  LET full == <<o>> \o s
         IN  /\ full \in Seq(S)
             /\ IsInjective(full)
             /\ Range(full) = Range(s) \cup {o}
<1> DEFINE full == <<o>> \o s
<1>1. <<o>> \in Seq(S) /\ Len(<<o>>) = 1 /\ <<o>>[1] = o
  OBVIOUS
<1>2. Len(s) \in Nat /\ DOMAIN s = 1..Len(s)
  BY LenProperties
<1>3. /\ full \in Seq(S)
      /\ Len(full) = Len(s) + 1
      /\ \A i \in 1..(Len(s) + 1) : full[i] = IF i <= 1 THEN <<o>>[i] ELSE s[i - 1]
  BY <1>1, <1>2, ConcatProperties
<1>4. DOMAIN full = 1..(Len(s) + 1)
  BY <1>3, LenProperties
<1>5. /\ full[1] = o
      /\ \A i \in 2..(Len(s) + 1) : full[i] = s[i - 1] /\ i - 1 \in DOMAIN s
  BY <1>1, <1>2, <1>3
<1> HIDE DEF full
<1>6. IsInjective(full)
  <2> SUFFICES ASSUME NEW i \in 1..(Len(s) + 1), NEW j \in 1..(Len(s) + 1),
                      full[i] = full[j]
               PROVE  i = j
    BY <1>4 DEF IsInjective
  <2>1. CASE i = 1 /\ j = 1
    BY <2>1
  <2>2. CASE i # 1 /\ j # 1
    <3>1. i - 1 \in DOMAIN s /\ j - 1 \in DOMAIN s /\ s[i - 1] = s[j - 1]
      BY <1>2, <1>5, <2>2
    <3>2. i - 1 = j - 1
      BY <3>1 DEF IsInjective
    <3> QED
      BY <1>2, <3>2
  <2>3. CASE i = 1 /\ j # 1
    <3>1. s[j - 1] = o /\ j - 1 \in DOMAIN s
      BY <1>2, <1>5, <2>3
    <3> QED
      BY <3>1 DEF Range
  <2>4. CASE i # 1 /\ j = 1
    <3>1. s[i - 1] = o /\ i - 1 \in DOMAIN s
      BY <1>2, <1>5, <2>4
    <3> QED
      BY <3>1 DEF Range
  <2> QED
    BY <2>1, <2>2, <2>3, <2>4
<1>7. Range(full) = Range(s) \cup {o}
  <2>1. Range(<<o>> \o s) = Range(<<o>>) \cup Range(s)
    BY <1>1, RangeConcatenation, ZenonT(60)
  <2>2. Range(<<o>>) = {o}
    BY DEF Range
  <2> QED
    BY <2>1, <2>2 DEF full
<1> QED
  BY <1>3, <1>6, <1>7 DEF full

(* The constructor makes every object once.                                *)
LEMMA FillFacts ==
  LET full == [i \in 1..size_ |-> i]
  IN  full \in Seq(Objects) /\ IsInjective(full) /\ Range(full) = Objects
<1> DEFINE full == [i \in 1..size_ |-> i]
<1>1. full \in Seq(Objects)
  <2>1. size_ \in Nat /\ full \in [1..size_ -> Objects]
    BY PoolAssumption DEF Objects
  <2> QED
    BY <2>1, SeqDef
<1>2. IsInjective(full)
  BY DEF IsInjective
<1>3. Range(full) = Objects
  BY DEF Range, Objects
<1> QED
  BY <1>1, <1>2, <1>3

-----------------------------------------------------------------------------
(* The steps of the inductive argument.                                    *)
LEMMA InitPool == Init => PoolInv
<1> SUFFICES ASSUME Init PROVE PoolInv
  OBVIOUS
<1>1. /\ available_objects_ \in Seq(Objects)
      /\ IsInjective(available_objects_)
      /\ Range(available_objects_) = Objects
  BY FillFacts DEF Init
<1>2. TypeOK
  BY <1>1 DEF Init, TypeOK
<1>3. Exclusive
  BY DEF Init, Exclusive
<1>4. Conserved
  BY <1>1 DEF Init, Conserved
<1>5. AllDeleted /\ SleepersOnlyWhenEmpty
  BY DEF Init, AllDeleted, SleepersOnlyWhenEmpty
<1> QED
  BY <1>2, <1>3, <1>4, <1>5 DEF Init, PoolInv

(* acquire and resume, when they find an object: what the thread gets was  *)
(* in the vector, so with nobody.                                          *)
LEMMA TakeStep ==
  ASSUME PoolInv, alive, NEW t \in Threads,
         available_objects_ # <<>>, PopBack(t),
         pc' = [pc EXCEPT ![t] = "out"], UNCHANGED <<alive, deleted>>
  PROVE  PoolInv' /\ Promise!Take(t)
<1> USE DEF PoolInv
<1> DEFINE o == available_objects_[Len(available_objects_)]
           rest == SubSeq(available_objects_, 1, Len(available_objects_) - 1)
<1>1. /\ available_objects_' = rest
      /\ holds' = [holds EXCEPT ![t] = @ \cup {o}]
  BY DEF PopBack
<1>2. /\ o \in Range(available_objects_)
      /\ rest \in Seq(Objects)
      /\ IsInjective(rest)
      /\ Range(rest) = Range(available_objects_) \ {o}
  BY PopFacts DEF TypeOK, Conserved
<1>3. o \in Objects
  BY <1>2 DEF Conserved
<1> HIDE DEF o, rest
<1>4. /\ holds \in [Threads -> SUBSET Objects]
      /\ pc \in [Threads -> {"out", "asleep", "woken"}]
  BY DEF TypeOK
<1>5. TypeOK'
  BY <1>1, <1>2, <1>3, <1>4 DEF TypeOK
<1>6. \A u \in Threads : holds'[u] = IF u = t THEN holds[t] \cup {o} ELSE holds[u]
  BY <1>1, <1>4
<1>7. \A u \in Threads : o \notin holds[u]
  BY <1>2 DEF Exclusive
<1>8. Exclusive'
  <2>1. \A u, v \in Threads : u # v => holds'[u] \cap holds'[v] = {}
    BY <1>6, <1>7 DEF Exclusive
  <2>2. \A u \in Threads : holds'[u] \cap Range(rest) = {}
    BY <1>2, <1>6 DEF Exclusive
  <2> QED
    BY <1>1, <2>1, <2>2 DEF Exclusive
<1>9. Conserved'
  <2>1. UNION {holds'[u] : u \in Threads} = (UNION {holds[u] : u \in Threads}) \cup {o}
    BY <1>6
  <2>2. Objects = Range(rest) \cup UNION {holds'[u] : u \in Threads}
    BY <1>2, <2>1 DEF Conserved
  <2> QED
    BY <1>1, <1>2, <2>2 DEF Conserved
<1>10. AllDeleted' /\ alive'
  BY DEF AllDeleted
<1>11. SleepersOnlyWhenEmpty'
  <2>1. \A u \in Threads : pc'[u] # "asleep"
    BY <1>4 DEF SleepersOnlyWhenEmpty
  <2> QED
    BY <2>1 DEF SleepersOnlyWhenEmpty
<1>12. Promise!Take(t)
  BY <1>1, <1>2 DEF Promise!Take
<1> QED
  BY <1>5, <1>8, <1>9, <1>10, <1>11, <1>12

(* A thread falls asleep on an empty vector, or is woken for nothing.      *)
LEMMA WaitStep ==
  ASSUME PoolInv, NEW t \in Threads, alive,
         \/ available_objects_ = <<>> /\ pc' = [pc EXCEPT ![t] = "asleep"]
         \/ pc' = [pc EXCEPT ![t] = "woken"],
         UNCHANGED <<available_objects_, holds, alive, deleted>>
  PROVE  PoolInv'
<1> USE DEF PoolInv
<1>1. TypeOK'
  BY DEF TypeOK
<1>2. Exclusive' /\ Conserved' /\ AllDeleted' /\ alive'
  BY DEF Exclusive, Conserved, AllDeleted
<1>3. SleepersOnlyWhenEmpty'
  BY DEF SleepersOnlyWhenEmpty, TypeOK
<1> QED
  BY <1>1, <1>2, <1>3

(* release: what the thread gives back was not in the vector, and after    *)
(* notify_all nobody sleeps.                                               *)
LEMMA ReleaseStep ==
  ASSUME PoolInv, NEW t \in Threads, NEW o \in Objects, release(t, o)
  PROVE  PoolInv' /\ Promise!Return(t)
<1> USE DEF PoolInv
<1> DEFINE full == <<o>> \o available_objects_
<1>1. /\ available_objects_' = full
      /\ holds' = [holds EXCEPT ![t] = @ \ {o}]
      /\ o \in holds[t]
      /\ alive /\ UNCHANGED <<alive, deleted>>
  BY DEF release
<1>2. o \notin Range(available_objects_)
  BY <1>1 DEF Exclusive
<1>3. /\ full \in Seq(Objects)
      /\ IsInjective(full)
      /\ Range(full) = Range(available_objects_) \cup {o}
  BY <1>2, PushFacts DEF TypeOK, Conserved
<1> HIDE DEF full
<1>4. /\ holds \in [Threads -> SUBSET Objects]
      /\ pc \in [Threads -> {"out", "asleep", "woken"}]
  BY DEF TypeOK
<1>5. /\ pc' \in [Threads -> {"out", "asleep", "woken"}]
      /\ \A u \in Threads : pc'[u] # "asleep"
  BY <1>4 DEF release
<1>6. TypeOK'
  BY <1>1, <1>3, <1>4, <1>5 DEF TypeOK
<1>7. \A u \in Threads : holds'[u] = IF u = t THEN holds[t] \ {o} ELSE holds[u]
  BY <1>1, <1>4
<1>8. \A u \in Threads : o \notin holds'[u]
  BY <1>1, <1>7 DEF Exclusive
<1>9. Exclusive'
  <2>1. \A u, v \in Threads : u # v => holds'[u] \cap holds'[v] = {}
    BY <1>7 DEF Exclusive
  <2>2. \A u \in Threads : holds'[u] \cap Range(full) = {}
    BY <1>3, <1>7, <1>8 DEF Exclusive
  <2> QED
    BY <1>1, <2>1, <2>2 DEF Exclusive
<1>10. Conserved'
  <2>1. \A x \in UNION {holds[u] : u \in Threads} :
          x = o \/ x \in UNION {holds'[u] : u \in Threads}
    BY <1>7
  <2>2. UNION {holds'[u] : u \in Threads} \subseteq UNION {holds[u] : u \in Threads}
    BY <1>7
  <2>3. Objects = Range(full) \cup UNION {holds'[u] : u \in Threads}
    BY <1>1, <1>3, <2>1, <2>2 DEF Conserved
  <2> QED
    BY <1>1, <1>3, <2>3 DEF Conserved
<1>11. AllDeleted' /\ alive'
  BY <1>1 DEF AllDeleted
<1>12. SleepersOnlyWhenEmpty'
  BY <1>5 DEF SleepersOnlyWhenEmpty
<1>13. Promise!Return(t)
  BY <1>1, <1>3 DEF Promise!Return
<1> QED
  BY <1>6, <1>9, <1>10, <1>11, <1>12, <1>13

(* ~Pool: nobody holds anything, so the vector is the whole pool.          *)
LEMMA DestroyStep == PoolInv /\ Destroy => PoolInv' /\ Promise!Retire
<1> SUFFICES ASSUME PoolInv, Destroy PROVE PoolInv' /\ Promise!Retire
  OBVIOUS
<1> USE DEF PoolInv
<1>1. UNION {holds[t] : t \in Threads} = {}
  BY DEF Destroy
<1>2. Range(available_objects_) = Objects
  BY <1>1 DEF Conserved, Destroy
<1>3. /\ available_objects_' \in Seq(Objects)
      /\ IsInjective(available_objects_')
      /\ Range(available_objects_') = {}
  BY DEF Destroy, IsInjective, Range
<1>4. TypeOK'
  BY <1>2, <1>3 DEF TypeOK, Destroy
<1>5. Exclusive'
  BY DEF Exclusive, Destroy
<1>6. Conserved' /\ AllDeleted'
  BY <1>2, <1>3 DEF Conserved, AllDeleted, Destroy
<1>7. SleepersOnlyWhenEmpty'
  BY DEF SleepersOnlyWhenEmpty, Destroy
<1>8. \A t \in Threads : holds'[t] = {} /\ pc'[t] = "out"
  BY DEF Destroy
<1>9. Promise!Retire
  BY <1>2, <1>3 DEF Promise!Retire, Destroy
<1> QED
  BY <1>4, <1>5, <1>6, <1>7, <1>8, <1>9

(* Every step of the pool keeps PoolInv and is a step, or no step, of the  *)
(* Allocator.                                                              *)
LEMMA StepPool ==
  PoolInv /\ [Next]_vars
    => PoolInv' /\ [Promise!Next]_<<Range(available_objects_), holds>>
<1> SUFFICES ASSUME PoolInv, [Next]_vars
             PROVE  PoolInv' /\ [Promise!Next]_<<Range(available_objects_), holds>>
  OBVIOUS
<1> DEFINE Goal == PoolInv' /\ [Promise!Next]_<<Range(available_objects_), holds>>
<1>1. ASSUME NEW t \in Threads, TryAcquire(t), alive PROVE Goal
  <2>1. CASE available_objects_ # <<>>
    BY <1>1, <2>1, TakeStep DEF TryAcquire, Promise!Next
  <2>2. CASE available_objects_ = <<>>
    BY <1>1, <2>2, WaitStep DEF TryAcquire
  <2> QED
    BY <2>1, <2>2
<1>2. ASSUME NEW t \in Threads, acquire(t) PROVE Goal
  BY <1>1, <1>2 DEF acquire
<1>3. ASSUME NEW t \in Threads, resume(t) PROVE Goal
  <2>1. alive
    BY <1>3 DEF resume, PoolInv, TypeOK
  <2> QED
    BY <1>1, <1>3, <2>1 DEF resume
<1>4. ASSUME NEW t \in Threads, SpuriousWakeup(t) PROVE Goal
  <2>1. alive
    BY <1>4 DEF SpuriousWakeup, PoolInv, TypeOK
  <2> QED
    BY <1>4, <2>1, WaitStep DEF SpuriousWakeup
<1>5. ASSUME NEW t \in Threads, NEW o \in Objects, release(t, o) PROVE Goal
  BY <1>5, ReleaseStep DEF Promise!Next
<1>6. CASE Destroy
  BY <1>6, DestroyStep DEF Promise!Next
<1>7. CASE UNCHANGED vars
  BY <1>7 DEF vars, PoolInv, TypeOK, Exclusive, Conserved, AllDeleted,
              SleepersOnlyWhenEmpty
<1> QED
  BY <1>2, <1>3, <1>4, <1>5, <1>6, <1>7 DEF Next, ThreadStep

-----------------------------------------------------------------------------
(* The variables of Pool keep their types, whoever calls acquire and       *)
(* release: the vector holds objects of the pool only.                     *)
THEOREM TypeCorrect == Spec => []TypeOK
<1>1. PoolInv /\ [Next]_vars => PoolInv'
  BY StepPool
<1>2. PoolInv => TypeOK
  BY DEF PoolInv
<1> QED
  BY InitPool, <1>1, <1>2, PTL DEF Spec

(* For any number of objects and threads, acquire and release hand every   *)
(* object to one thread at a time, lose none, leave no thread asleep while *)
(* the pool has an object, and ~Pool deletes all of them.                  *)
THEOREM PoolSafe ==
  Spec => [](Exclusive /\ Conserved /\ AllDeleted /\ SleepersOnlyWhenEmpty)
<1>1. PoolInv /\ [Next]_vars => PoolInv'
  BY StepPool
<1>2. PoolInv => Exclusive /\ Conserved /\ AllDeleted /\ SleepersOnlyWhenEmpty
  BY DEF PoolInv
<1> QED
  BY InitPool, <1>1, <1>2, PTL DEF Spec

(* Pool, with its mutex, its condition variable and its order, implements  *)
(* Allocator: acquire takes one free object, release returns one, ~Pool    *)
(* retires a pool that is whole.                                           *)
THEOREM PoolRefinesAllocator == Spec => PoolImplementsAllocator
<1>1. Init => Promise!Init
  BY FillFacts DEF Init, Promise!Init
<1>2. PoolInv /\ [Next]_vars => PoolInv'
  BY StepPool
<1>3. PoolInv /\ [Next]_vars => [Promise!Next]_<<Range(available_objects_), holds>>
  BY StepPool
<1> QED
  BY InitPool, <1>1, <1>2, <1>3, PTL DEF Spec, PoolImplementsAllocator, Promise!Spec
=============================================================================
