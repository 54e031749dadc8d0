----------------------------- MODULE CacheProofs -----------------------------
(* Theorems about Cache, for any keys, shards, items and sweeping threads. *)
EXTENDS Cache, FiniteSetTheorems, TLAPS

(* The map holds items and the clock is a number.                          *)
MapTyped == map \in [Keys -> Items \cup {Null}] /\ now \in Nat

(* Items are records with a number for their expiration, and none is Null. *)
LEMMA ItemFacts ==
  /\ \A item \in Items : item.expiration \in Nat
  /\ Null \notin Items
  /\ \A item \in Items : item.data # Null
BY CacheAssumption

LEMMA InitMap == Init => MapTyped /\ Promise!Init
<1> SUFFICES ASSUME Init PROVE MapTyped /\ Promise!Init
  OBVIOUS
<1>1. MapTyped
  BY DEF Init, MapTyped
<1>2. Visible = [k \in Keys |-> Null]
  BY DEF Init, Visible
<1> QED
  BY <1>1, <1>2 DEF Init, Promise!Init, Promise!Call

(* What get, has and the curator may make of an item.                      *)
KeptOrCulled(new, old) == new = old \/ (new = Null /\ old # Null /\ expired(old))

(* Erasing an expired item is not seen.                                    *)
LEMMA ErasingUnseen ==
  ASSUME MapTyped, UNCHANGED now,
         map' \in [Keys -> Items \cup {Null}],
         \A k \in Keys : KeptOrCulled(map'[k], map[k])
  PROVE  Visible' = Visible
<1> SUFFICES ASSUME NEW k \in Keys
             PROVE  Visible'[k] = Visible[k] /\ Visible' = [j \in Keys |-> Visible'[j]]
                      /\ Visible = [j \in Keys |-> Visible[j]]
  BY DEF Visible
<1>1. CASE map'[k] = map[k]
  BY <1>1 DEF Visible
<1>2. CASE map'[k] = Null /\ map[k] # Null /\ expired(map[k])
  <2>1. map[k] \in Items /\ map[k].expiration \in Nat /\ now \in Nat
    BY <1>2, ItemFacts DEF MapTyped
  <2>2. ~(map[k].expiration = 0 \/ now <= map[k].expiration)
    BY <1>2, <2>1 DEF expired
  <2> QED
    BY <1>2, <2>2 DEF Visible
<1> QED
  BY <1>1, <1>2 DEF Visible, KeptOrCulled

(* get and has see the entry of the map of ExpiringMap.                    *)
LEMMA FoundFacts ==
  ASSUME MapTyped, NEW k \in Keys
  PROVE  /\ Found(k) = IF Visible[k] = Null THEN Null ELSE Visible[k].data
         /\ Looked(k) \in [Keys -> Items \cup {Null}]
         /\ \A j \in Keys : KeptOrCulled(Looked(k)[j], map[j])
         /\ (Found(k) = Null) = (Visible[k] = Null)
<1>1. CASE map[k] = Null
  <2>1. Visible[k] = Null /\ Found(k) = Null
    BY <1>1 DEF Visible, Found
  <2>2. Looked(k) = map
    BY <1>1, <2>1 DEF Looked, MapTyped
  <2> QED
    BY <2>1, <2>2 DEF MapTyped, KeptOrCulled
<1>2. CASE map[k] # Null
  <2>1. map[k] \in Items /\ map[k].expiration \in Nat /\ now \in Nat /\ map[k].data # Null
    BY <1>2, ItemFacts DEF MapTyped
  <2>2. expired(map[k]) = ~(map[k].expiration = 0 \/ now <= map[k].expiration)
    BY <2>1 DEF expired
  <2>3. Visible[k] = IF expired(map[k]) THEN Null ELSE map[k]
    BY <1>2, <2>2 DEF Visible
  <2>4. Found(k) = IF expired(map[k]) THEN Null ELSE map[k].data
    BY <1>2 DEF Found
  <2>5. Looked(k) = IF expired(map[k]) THEN [map EXCEPT ![k] = Null] ELSE map
    BY <2>1, <2>4 DEF Looked
  <2>6. CASE expired(map[k])
    <3>1. Visible[k] = Null /\ Found(k) = Null
      BY <2>3, <2>4, <2>6
    <3>2. Looked(k) = [map EXCEPT ![k] = Null]
      BY <2>5, <2>6
    <3>3. Looked(k) \in [Keys -> Items \cup {Null}]
      BY <3>2 DEF MapTyped
    <3>4. \A j \in Keys : KeptOrCulled(Looked(k)[j], map[j])
      BY <1>2, <2>6, <3>2 DEF MapTyped, KeptOrCulled
    <3> QED
      BY <3>1, <3>3, <3>4
  <2>7. CASE ~expired(map[k])
    <3>1. Visible[k] = map[k] /\ Found(k) = map[k].data /\ Looked(k) = map
      BY <2>3, <2>4, <2>5, <2>7
    <3> QED
      BY <1>2, <2>1, <3>1 DEF MapTyped, KeptOrCulled
  <2> QED
    BY <2>6, <2>7
<1> QED
  BY <1>1, <1>2

(* Every step of the cache is a step of ExpiringMap, or none.              *)
LEMMA StepMap == MapTyped /\ [Next]_vars => MapTyped' /\ [Promise!Next]_(Promise!vars)
<1> SUFFICES ASSUME MapTyped, [Next]_vars
             PROVE  MapTyped' /\ [Promise!Next]_(Promise!vars)
  OBVIOUS
<1> DEFINE Goal == MapTyped' /\ [Promise!Next]_(Promise!vars)
<1>1. ASSUME NEW k \in Keys, NEW item \in Items, NEW mode \in WriteModes,
             set(k, item, mode)
      PROVE  Goal
  <2>1. CASE Writes(k, mode)
    <3>1. map' = [map EXCEPT ![k] = item] /\ now' = now
            /\ last' = [op |-> mode, key |-> k, result |-> 1]
      BY <1>1, <2>1 DEF set, MapBecomes, Returns
    <3>2. MapTyped'
      BY <3>1 DEF MapTyped
    <3>3. Visible' = [Visible EXCEPT
                        ![k] = IF Promise!Unexpired(item, now) THEN item ELSE Null]
      BY <3>1, ItemFacts DEF MapTyped, Visible, Promise!Unexpired
    <3>4. Visible[k] # Null => mode # "ONLY_WRITE_IF_NOT_SET"
      BY <2>1 DEF Visible, Writes
    <3>5. Promise!Set(k, item, mode)
      BY <3>1, <3>3, <3>4 DEF Promise!Set, Promise!Call
    <3> QED
      BY <3>2, <3>5 DEF Promise!Next
  <2>2. CASE ~Writes(k, mode)
    <3>1. map' = map /\ now' = now
            /\ last' = [op |-> mode, key |-> k, result |-> 0]
      BY <1>1, <2>2 DEF set, Returns
    <3>2. MapTyped' /\ Visible' = Visible
      BY <3>1 DEF MapTyped, Visible
    <3>3. /\ mode # "WRITE_ALWAYS"
          /\ Visible[k] # Null => mode = "ONLY_WRITE_IF_NOT_SET"
      BY <2>2 DEF Visible, Writes, WriteModes
    <3>4. Promise!Set(k, item, mode)
      BY <3>1, <3>2, <3>3 DEF Promise!Set, Promise!Call
    <3> QED
      BY <3>2, <3>4 DEF Promise!Next
  <2> QED
    BY <2>1, <2>2
<1>2. ASSUME NEW k \in Keys, get(k) PROVE Goal
  <2>1. map' = Looked(k) /\ now' = now
          /\ last' = [op |-> "get", key |-> k, result |-> Found(k)]
    BY <1>2 DEF get, MapBecomes, Returns
  <2>2. MapTyped' /\ Visible' = Visible
    BY <2>1, FoundFacts, ErasingUnseen DEF MapTyped
  <2>3. Promise!Get(k)
    BY <2>1, <2>2, FoundFacts DEF Promise!Get, Promise!Call
  <2> QED
    BY <2>2, <2>3 DEF Promise!Next
<1>3. ASSUME NEW k \in Keys, has(k) PROVE Goal
  <2>1. map' = Looked(k) /\ now' = now
          /\ last' = [op |-> "has", key |-> k, result |-> IF Found(k) = Null THEN 0 ELSE 1]
    BY <1>3 DEF has, MapBecomes, Returns
  <2>2. MapTyped' /\ Visible' = Visible
    BY <2>1, FoundFacts, ErasingUnseen DEF MapTyped
  <2>3. Promise!Has(k)
    BY <2>1, <2>2, FoundFacts DEF Promise!Has, Promise!Call
  <2> QED
    BY <2>2, <2>3 DEF Promise!Next
<1>4. ASSUME NEW k \in Keys, del(k) PROVE Goal
  <2>1. map' = [map EXCEPT ![k] = Null] /\ now' = now
          /\ last' = [op |-> "del", key |-> k, result |-> IF map[k] = Null THEN 0 ELSE 1]
    BY <1>4 DEF del, MapBecomes, Returns
  <2>2. MapTyped'
    BY <2>1 DEF MapTyped
  <2>3. Visible' = [Visible EXCEPT ![k] = Null] /\ (Visible[k] # Null => map[k] # Null)
    BY <2>1 DEF MapTyped, Visible
  <2>4. Promise!Del(k)
    BY <2>1, <2>3 DEF Promise!Del, Promise!Call
  <2> QED
    BY <2>2, <2>4 DEF Promise!Next
<1>5. ASSUME NEW t \in Sweepers, flush(t) PROVE Goal
  <2> DEFINE S == Shard(sweep[t].at)
  <2>1. map' = [k \in Keys |-> IF k \in S THEN Null ELSE map[k]] /\ now' = now
          /\ last' = [op |-> "flush", key |-> Null, result |-> 0]
    BY <1>5 DEF flush, Returns
  <2>2. S \in SUBSET Keys
    BY DEF Shard
  <2> HIDE DEF S
  <2>3. MapTyped'
    BY <2>1 DEF MapTyped
  <2>4. Visible' = [k \in Keys |-> IF k \in S THEN Null ELSE Visible[k]]
    BY <2>1 DEF Visible
  <2>5. Promise!Forget
    BY <2>1, <2>2, <2>4 DEF Promise!Forget, Promise!Call
  <2> QED
    BY <2>3, <2>5 DEF Promise!Next
<1>6. CASE cull_expired_keys
  <2>1. map' = [k \in Keys |-> IF k \in Shard(shard) /\ map[k] # Null /\ expired(map[k])
                               THEN Null ELSE map[k]]
          /\ now' = now /\ last' = last
    BY <1>6 DEF cull_expired_keys, MapBecomes
  <2>2. map' \in [Keys -> Items \cup {Null}]
    BY <2>1 DEF MapTyped
  <2>3. \A k \in Keys : KeptOrCulled(map'[k], map[k])
    BY <2>1 DEF KeptOrCulled
  <2>4. Visible' = Visible
    BY <2>1, <2>2, <2>3, ErasingUnseen
  <2> QED
    BY <2>1, <2>2, <2>4 DEF MapTyped, Promise!vars
<1>7. CASE Tick
  <2>1. map' = map /\ now' = now + 1 /\ last' = last
    BY <1>7 DEF Tick
  <2>2. MapTyped'
    BY <2>1 DEF MapTyped
  <2>3. \A k \in Keys : Visible'[k] = IF Visible[k] # Null
                                         /\ Promise!Unexpired(Visible[k], now')
                                      THEN Visible[k] ELSE Null
    <3> SUFFICES ASSUME NEW k \in Keys
                 PROVE  Visible'[k] = IF Visible[k] # Null
                                           /\ Promise!Unexpired(Visible[k], now')
                                      THEN Visible[k] ELSE Null
      OBVIOUS
    <3>1. CASE map[k] = Null
      BY <2>1, <3>1 DEF Visible
    <3>2. CASE map[k] # Null
      <4>1. map[k].expiration \in Nat /\ now \in Nat
        BY <3>2, ItemFacts DEF MapTyped
      <4> QED
        BY <2>1, <3>2, <4>1 DEF Visible, Promise!Unexpired
    <3> QED
      BY <3>1, <3>2
  <2>4. Visible' = [k \in Keys |-> IF Visible[k] # Null
                                       /\ Promise!Unexpired(Visible[k], now')
                                    THEN Visible[k] ELSE Null]
    BY <2>3 DEF Visible
  <2>5. Promise!Tick
    BY <2>1, <2>4 DEF Promise!Tick
  <2> QED
    BY <2>2, <2>5 DEF Promise!Next
<1>8. ASSUME UNCHANGED <<map, now, last>> PROVE Goal
  BY <1>8 DEF MapTyped, Visible, Promise!vars
<1>9. ASSUME NEW t \in Sweepers, NEW op \in {"flush", "metrics"},
             SweepBegins(t, op) \/ metrics(t) \/ SweepEnds(t)
      PROVE  Goal
  BY <1>8, <1>9 DEF SweepBegins, metrics, SweepEnds
<1>10. CASE curate \/ CuratorWakes \/ CuratorLoops \/ Retire \/ Join \/ UNCHANGED vars
  BY <1>8, <1>10 DEF curate, CuratorWakes, CuratorLoops, Retire, Join, vars
<1> QED
  BY <1>1, <1>2, <1>3, <1>4, <1>5, <1>6, <1>7, <1>9, <1>10
     DEF Next, Call, SweepStep, CuratorStep

-----------------------------------------------------------------------------
(* The cache implements ExpiringMap for any number of keys, shards and     *)
(* threads: the shards, the lazy erasing in get and has and the curator    *)
(* are never seen by a caller.                                             *)
THEOREM CacheRefinesMap == Spec => CacheImplementsMap
<1>1. Init => MapTyped
  BY InitMap
<1>2. Init => Promise!Init
  BY InitMap
<1>3. MapTyped /\ [Next]_vars => MapTyped'
  BY StepMap
<1>4. MapTyped /\ [Next]_vars => [Promise!Next]_(Promise!vars)
  BY StepMap
<1> QED
  BY <1>1, <1>2, <1>3, <1>4, PTL DEF Spec, CacheImplementsMap, Promise!Spec

-----------------------------------------------------------------------------
(* flush and metrics                                                       *)

(* The keys of the shards below i.                                         *)
Passed(i) == {k \in Keys : calc_index[k] < i}

(* What holds of a call s of flush or metrics while the map is m: what has *)
(* been there all along is there, what is there has been seen, and the     *)
(* shards passed are forgotten or counted between the two.                 *)
SweepSound(s, m) ==
  /\ s \in Sweep
  /\ s.op # "none" => /\ s.kept \subseteq Present(m)
                      /\ Present(m) \subseteq s.ever
                      /\ IsFiniteSet(s.ever)
  /\ s.op = "flush" => \A k \in s.kept : calc_index[k] >= s.at
  /\ s.op = "metrics" => /\ Cardinality(s.kept \cap Passed(s.at)) <= s.count
                         /\ s.count <= Cardinality(s.ever \cap Passed(s.at))

(* The inductive invariant.  The number of items is finite, whatever Keys  *)
(* is: without that a sum of cardinalities is no number.                   *)
SweepInv ==
  /\ TypeOK
  /\ IsFiniteSet(Present(map))
  /\ \A t \in Sweepers : SweepSound(sweep[t], map)

LEMMA InitSweep == Init => SweepInv
<1> SUFFICES ASSUME Init PROVE SweepInv
  OBVIOUS
<1>1. NoSweep \in Sweep
  BY CacheAssumption DEF NoSweep, Sweep
<1>2. TypeOK
  BY <1>1, CacheAssumption DEF Init, TypeOK, WriteModes
<1>3. Present(map) = {}
  BY DEF Init, Present
<1>4. SweepSound(NoSweep, map)
  BY <1>1 DEF SweepSound, NoSweep
<1> QED
  BY <1>2, <1>3, <1>4, FS_EmptySet DEF Init, SweepInv

(* A write adds at most one key to those present.                          *)
LEMMA WriteFinite ==
  ASSUME map \in [Keys -> Items \cup {Null}], IsFiniteSet(Present(map)),
         NEW k \in Keys, NEW item \in Items \cup {Null}
  PROVE  /\ [map EXCEPT ![k] = item] \in [Keys -> Items \cup {Null}]
         /\ IsFiniteSet(Present([map EXCEPT ![k] = item]))
<1> DEFINE m == [map EXCEPT ![k] = item]
<1>1. Present(m) \subseteq Present(map) \cup {k}
  BY DEF Present
<1>2. IsFiniteSet(Present(map) \cup {k})
  BY FS_AddElement
<1>3. IsFiniteSet(Present(m))
  BY <1>1, <1>2, FS_Subset
<1> QED
  BY <1>3

(* Erasing adds none.                                                      *)
LEMMA EraseFinite ==
  ASSUME IsFiniteSet(Present(map)), NEW m,
         \A k \in Keys : m[k] = map[k] \/ m[k] = Null
  PROVE  IsFiniteSet(Present(m))
<1>1. Present(m) \subseteq Present(map)
  BY DEF Present
<1> QED
  BY <1>1, FS_Subset

(* What a running call observes of a map that becomes m.                   *)
Watched(s, m) ==
  [s EXCEPT !.kept = {k \in @ : m[k] = map[k]}, !.ever = @ \cup Present(m)]

LEMMA WatchedFields ==
  ASSUME NEW s \in Sweep, NEW m
  PROVE  /\ Watched(s, m) \in Sweep
         /\ Watched(s, m).op = s.op
         /\ Watched(s, m).at = s.at
         /\ Watched(s, m).count = s.count
         /\ Watched(s, m).kept = {k \in s.kept : m[k] = map[k]}
         /\ Watched(s, m).ever = s.ever \cup Present(m)
BY DEF Watched, Sweep, Present

(* A call stays sound when another one changes the map.                    *)
LEMMA WatchedSound ==
  ASSUME NEW s, SweepSound(s, map), s.op # "none",
         NEW m, IsFiniteSet(Present(m))
  PROVE  SweepSound(Watched(s, m), m)
<1> DEFINE w == Watched(s, m)
<1>1. s \in Sweep
  BY DEF SweepSound
<1>2. /\ w \in Sweep /\ w.op = s.op /\ w.at = s.at /\ w.count = s.count
      /\ w.kept = {k \in s.kept : m[k] = map[k]}
      /\ w.ever = s.ever \cup Present(m)
  BY <1>1, WatchedFields
<1> HIDE DEF w
<1>3. /\ s.kept \subseteq Present(map)
      /\ IsFiniteSet(s.ever)
      /\ Present(map) \subseteq s.ever
  BY DEF SweepSound
<1>4. w.kept \subseteq Present(m)
  BY <1>2, <1>3 DEF Present
<1>5. Present(m) \subseteq w.ever /\ IsFiniteSet(w.ever)
  <2>1. IsFiniteSet(s.ever \cup Present(m))
    BY <1>3, FS_Union
  <2> QED
    BY <1>2, <2>1
<1>6. w.op = "flush" => \A k \in w.kept : calc_index[k] >= w.at
  BY <1>2 DEF SweepSound
<1>7. ASSUME w.op = "metrics"
      PROVE  /\ Cardinality(w.kept \cap Passed(w.at)) <= w.count
             /\ w.count <= Cardinality(w.ever \cap Passed(w.at))
  <2> DEFINE P == Passed(s.at)
  <2>1. /\ Cardinality(s.kept \cap P) <= s.count
        /\ s.count <= Cardinality(s.ever \cap P)
        /\ s.count \in Nat
    BY <1>1, <1>2, <1>7 DEF SweepSound, Sweep
  <2> HIDE DEF P
  <2>2. IsFiniteSet(s.kept)
    BY <1>3, FS_Subset
  <2>3. IsFiniteSet(s.kept \cap P) /\ IsFiniteSet(w.ever \cap P)
    BY <1>5, <2>2, FS_Subset
  <2>4. Cardinality(w.kept \cap P) <= Cardinality(s.kept \cap P)
    BY <1>2, <2>3, FS_Subset
  <2>5. Cardinality(s.ever \cap P) <= Cardinality(w.ever \cap P)
    BY <1>2, <2>3, FS_Subset
  <2>6. IsFiniteSet(w.kept \cap P) /\ IsFiniteSet(s.ever \cap P)
    BY <1>2, <1>3, <2>3, FS_Subset
  <2>7. /\ Cardinality(w.kept \cap P) \in Nat /\ Cardinality(s.kept \cap P) \in Nat
        /\ Cardinality(w.ever \cap P) \in Nat /\ Cardinality(s.ever \cap P) \in Nat
    BY <2>3, <2>6, FS_CardinalityType
  <2>8. w.at = s.at /\ w.count = s.count
    BY <1>2
  <2> QED
    BY <2>1, <2>4, <2>5, <2>7, <2>8 DEF P
<1> QED
  BY <1>2, <1>4, <1>5, <1>6, <1>7 DEF SweepSound, w

(* Every call stays sound when the map becomes m.                          *)
LEMMA ObservedSound ==
  ASSUME SweepInv, NEW m, IsFiniteSet(Present(m))
  PROVE  /\ Observed(m) \in [Sweepers -> Sweep]
         /\ \A t \in Sweepers : SweepSound(Observed(m)[t], m)
         /\ \A t \in Sweepers :
              Observed(m)[t] = IF sweep[t].op = "none" THEN sweep[t]
                               ELSE Watched(sweep[t], m)
<1>1. \A t \in Sweepers :
        Observed(m)[t] = IF sweep[t].op = "none" THEN sweep[t]
                         ELSE Watched(sweep[t], m)
  BY DEF Observed, Watched
<1>2. ASSUME NEW t \in Sweepers PROVE SweepSound(Observed(m)[t], m)
  <2>1. SweepSound(sweep[t], map)
    BY DEF SweepInv
  <2>2. CASE sweep[t].op = "none"
    <3>1. SweepSound(sweep[t], m)
      BY <2>1, <2>2 DEF SweepSound
    <3> QED
      BY <1>1, <2>2, <3>1
  <2>3. CASE sweep[t].op # "none"
    BY <1>1, <2>1, <2>3, WatchedSound
  <2> QED
    BY <2>2, <2>3
<1>3. Observed(m) \in [Sweepers -> Sweep]
  <2>1. \A t \in Sweepers : Observed(m)[t] \in Sweep
    BY <1>2 DEF SweepSound
  <2> QED
    BY <2>1 DEF Observed
<1> QED
  BY <1>1, <1>2, <1>3

(* The shard that a call passes is disjoint from those it has passed.      *)
LEMMA PassedNext ==
  ASSUME NEW i \in 1..FASTCACHE_SHARDSIZE
  PROVE  /\ Passed(i + 1) = Passed(i) \cup Shard(i)
         /\ Passed(i) \cap Shard(i) = {}
<1>1. \A k \in Keys : calc_index[k] \in Nat
  BY CacheAssumption
<1> QED
  BY <1>1, CacheAssumption DEF Passed, Shard

LEMMA AdvancedFields ==
  ASSUME NEW s \in Sweep, s.at <= FASTCACHE_SHARDSIZE, IsFiniteSet(Present(map))
  PROVE  LET n == Cardinality(Shard(s.at) \cap Present(map))
         IN  /\ n \in Nat
             /\ Advanced(s) \in Sweep
             /\ Advanced(s).op = s.op
             /\ Advanced(s).at = s.at + 1
             /\ Advanced(s).count = s.count + n
             /\ Advanced(s).kept = s.kept
             /\ Advanced(s).ever = s.ever
<1> DEFINE n == Cardinality(Shard(s.at) \cap Present(map))
<1>1. n \in Nat
  BY FS_Subset, FS_CardinalityType
<1>2. Advanced(s) = [s EXCEPT !.at = @ + 1, !.count = @ + n]
  BY DEF Advanced
<1> HIDE DEF n
<1>3. s.at + 1 \in 1..(FASTCACHE_SHARDSIZE + 1) /\ s.count + n \in Nat
  BY <1>1, CacheAssumption DEF Sweep
<1>4. /\ Advanced(s) \in Sweep
      /\ Advanced(s).op = s.op
      /\ Advanced(s).at = s.at + 1
      /\ Advanced(s).count = s.count + n
      /\ Advanced(s).kept = s.kept
      /\ Advanced(s).ever = s.ever
  BY <1>2, <1>3 DEF Sweep
<1> QED
  BY <1>1, <1>4 DEF n

(* metrics adds to its count as many keys as the shard holds: at least     *)
(* those that stayed, at most those that were ever there.                  *)
LEMMA CountSound ==
  ASSUME NEW s, SweepSound(s, map), s.op = "metrics", s.at <= FASTCACHE_SHARDSIZE,
         IsFiniteSet(Present(map))
  PROVE  SweepSound(Advanced(s), map)
<1> DEFINE n == Cardinality(Shard(s.at) \cap Present(map))
           a == Advanced(s)
           P == Passed(s.at)
           S == Shard(s.at)
<1>1. s \in Sweep /\ s.at \in 1..FASTCACHE_SHARDSIZE
  BY CacheAssumption DEF SweepSound, Sweep
<1>2. /\ n \in Nat /\ a \in Sweep /\ a.op = s.op /\ a.at = s.at + 1
      /\ a.count = s.count + n /\ a.kept = s.kept /\ a.ever = s.ever
  BY <1>1, AdvancedFields
<1>3. /\ s.kept \subseteq Present(map) /\ Present(map) \subseteq s.ever
      /\ IsFiniteSet(s.ever) /\ s.count \in Nat
      /\ Cardinality(s.kept \cap P) <= s.count
      /\ s.count <= Cardinality(s.ever \cap P)
  BY <1>1 DEF SweepSound, Sweep
<1>4. Passed(a.at) = P \cup S /\ P \cap S = {}
  BY <1>1, <1>2, PassedNext
<1> HIDE DEF a, P, S
<1>5. ASSUME NEW K, IsFiniteSet(K)
      PROVE  /\ Cardinality(K \cap (P \cup S)) = Cardinality(K \cap P) + Cardinality(K \cap S)
             /\ Cardinality(K \cap P) \in Nat /\ Cardinality(K \cap S) \in Nat
  <2>1. IsFiniteSet(K \cap P) /\ IsFiniteSet(K \cap S)
    BY <1>5, FS_Subset
  <2>2. (K \cap P) \cup (K \cap S) = K \cap (P \cup S) /\ (K \cap P) \cap (K \cap S) = {}
    BY <1>4
  <2>3. Cardinality(K \cap (P \cup S)) = Cardinality(K \cap P) + Cardinality(K \cap S)
                                           - Cardinality((K \cap P) \cap (K \cap S))
    BY <2>1, <2>2, FS_Union
  <2>4. Cardinality(K \cap P) \in Nat /\ Cardinality(K \cap S) \in Nat
    BY <2>1, FS_CardinalityType
  <2>5. Cardinality((K \cap P) \cap (K \cap S)) = 0
    BY <2>2, FS_EmptySet
  <2> QED
    BY <2>3, <2>4, <2>5
<1>6. IsFiniteSet(s.kept)
  BY <1>3, FS_Subset
<1>7. /\ Cardinality(s.kept \cap S) <= Cardinality(S \cap Present(map))
      /\ Cardinality(S \cap Present(map)) <= Cardinality(s.ever \cap S)
  <2>1. IsFiniteSet(S \cap Present(map)) /\ IsFiniteSet(s.ever \cap S)
    BY <1>3, FS_Subset
  <2>2. s.kept \cap S \in SUBSET (S \cap Present(map))
          /\ S \cap Present(map) \in SUBSET (s.ever \cap S)
    BY <1>3
  <2> QED
    BY <2>1, <2>2, FS_Subset
<1>8. /\ Cardinality(s.kept \cap (P \cup S)) <= s.count + n
      /\ s.count + n <= Cardinality(s.ever \cap (P \cup S))
  <2>1. n = Cardinality(S \cap Present(map)) /\ n \in Nat
    BY <1>2 DEF S
  <2> HIDE DEF n
  <2>2. /\ Cardinality(s.kept \cap (P \cup S))
             = Cardinality(s.kept \cap P) + Cardinality(s.kept \cap S)
        /\ Cardinality(s.kept \cap P) \in Nat /\ Cardinality(s.kept \cap S) \in Nat
    BY <1>5, <1>6
  <2>3. /\ Cardinality(s.ever \cap (P \cup S))
             = Cardinality(s.ever \cap P) + Cardinality(s.ever \cap S)
        /\ Cardinality(s.ever \cap P) \in Nat /\ Cardinality(s.ever \cap S) \in Nat
    BY <1>3, <1>5
  <2> QED
    BY <1>3, <1>7, <2>1, <2>2, <2>3
<1>9. SweepSound(a, map)
  BY <1>2, <1>3, <1>4, <1>8 DEF SweepSound
<1> QED
  BY <1>9 DEF a

(* flush leaves nothing that stayed in the shard it clears.                *)
LEMMA ClearSound ==
  ASSUME NEW s, SweepSound(s, map), s.op = "flush", s.at <= FASTCACHE_SHARDSIZE,
         IsFiniteSet(Present(map)), NEW m, IsFiniteSet(Present(m)),
         \A k \in Keys : m[k] = IF k \in Shard(s.at) THEN Null ELSE map[k]
  PROVE  SweepSound(Advanced(Watched(s, m)), m)
<1> DEFINE w == Watched(s, m)
           a == Advanced(w)
<1>1. s \in Sweep
  BY DEF SweepSound
<1>2. /\ w \in Sweep /\ w.op = s.op /\ w.at = s.at
      /\ w.kept = {k \in s.kept : m[k] = map[k]}
  BY <1>1, WatchedFields
<1>3. SweepSound(w, m)
  BY WatchedSound
<1> HIDE DEF w
<1>4. /\ a \in Sweep /\ a.op = w.op /\ a.at = w.at + 1
      /\ a.kept = w.kept /\ a.ever = w.ever
  BY <1>2, AdvancedFields
<1> HIDE DEF a
<1>5. ASSUME NEW k \in a.kept PROVE calc_index[k] >= a.at
  <2>1. k \in s.kept /\ m[k] = map[k] /\ k \in Keys /\ map[k] # Null
    BY <1>2, <1>4 DEF SweepSound, Present, Sweep
  <2>2. k \notin Shard(s.at)
    BY <2>1
  <2>3. calc_index[k] # s.at /\ calc_index[k] >= s.at
    BY <2>1, <2>2 DEF Shard, SweepSound
  <2>4. calc_index[k] \in Nat /\ s.at \in Nat
    BY <1>1, <2>1, CacheAssumption DEF Sweep
  <2> QED
    BY <1>2, <1>4, <2>3, <2>4
<1>6. SweepSound(a, m)
  BY <1>2, <1>3, <1>4, <1>5 DEF SweepSound
<1> QED
  BY <1>6 DEF a, w

(* A call of flush or metrics that begins when the keys of K are present.  *)
Begun(name, K) == [NoSweep EXCEPT !.op = name, !.kept = K, !.ever = K]

LEMMA SweepBegun ==
  ASSUME NEW name \in {"flush", "metrics"}, NEW K \in SUBSET Keys
  PROVE  LET s == Begun(name, K)
         IN  /\ s \in Sweep /\ s.op = name /\ s.at = 1 /\ s.count = 0
             /\ s.kept = K /\ s.ever = K
<1>1. 1 \in 1..(FASTCACHE_SHARDSIZE + 1) /\ {} \in SUBSET Keys
  BY CacheAssumption
<1>2. NoSweep \in Sweep
  BY <1>1 DEF NoSweep, Sweep
<1> DEFINE s == Begun(name, K)
<1>3. s \in Sweep
  BY <1>2 DEF Sweep, Begun
<1>4. s.op = name /\ s.kept = K /\ s.ever = K
  BY <1>2 DEF Sweep, Begun
<1>5. s.at = 1 /\ s.count = 0
  BY DEF NoSweep, Begun
<1> QED
  BY <1>3, <1>4, <1>5

-----------------------------------------------------------------------------
(* A call that returns and leaves the map m behind keeps the invariant.    *)
LEMMA MapStep ==
  ASSUME SweepInv, NEW m \in [Keys -> Items \cup {Null}], IsFiniteSet(Present(m)),
         MapBecomes(m), UNCHANGED <<now, curator, curator_run, life>>,
         shard' \in 1..(FASTCACHE_SHARDSIZE + 1),
         last' \in [op : WriteModes \cup {"none", "get", "has", "del", "flush"},
                    key : Keys \cup {Null},
                    result : {item.data : item \in Items} \cup {0, 1, Null}]
  PROVE  SweepInv'
<1>1. map' = m /\ sweep' = Observed(m)
  BY DEF MapBecomes
<1>2. TypeOK'
  BY <1>1, ObservedSound DEF SweepInv, TypeOK
<1>3. \A t \in Sweepers : SweepSound(sweep'[t], map')
  BY <1>1, ObservedSound
<1>4. IsFiniteSet(Present(map'))
  BY <1>1
<1> QED
  BY <1>2, <1>3, <1>4 DEF SweepInv, SweepSound, Present

(* What get and has leave, and what get returns.                           *)
LEMMA LookedFinite ==
  ASSUME SweepInv, NEW k \in Keys
  PROVE  /\ Looked(k) \in [Keys -> Items \cup {Null}]
         /\ IsFiniteSet(Present(Looked(k)))
         /\ Found(k) \in {item.data : item \in Items} \cup {Null}
<1>1. map \in [Keys -> Items \cup {Null}] /\ IsFiniteSet(Present(map))
  BY DEF SweepInv, TypeOK
<1>2. Looked(k) = [map EXCEPT ![k] = Null] \/ Looked(k) = map
  BY DEF Looked
<1>3. Found(k) \in {item.data : item \in Items} \cup {Null}
  BY <1>1 DEF Found
<1> QED
  BY <1>1, <1>2, <1>3, WriteFinite

(* Every step keeps the invariant.                                         *)
LEMMA StepSweep == SweepInv /\ [Next]_vars => SweepInv'
<1> SUFFICES ASSUME SweepInv, [Next]_vars PROVE SweepInv'
  OBVIOUS
<1> DEFINE Last == [op : WriteModes \cup {"none", "get", "has", "del", "flush"},
                    key : Keys \cup {Null},
                    result : {item.data : item \in Items} \cup {0, 1, Null}]
<1>0. /\ map \in [Keys -> Items \cup {Null}] /\ IsFiniteSet(Present(map))
      /\ shard \in 1..(FASTCACHE_SHARDSIZE + 1) /\ last \in Last
      /\ sweep \in [Sweepers -> Sweep]
      /\ \A t \in Sweepers : SweepSound(sweep[t], map)
  BY DEF SweepInv, TypeOK
<1>1. ASSUME NEW k \in Keys, NEW item \in Items, NEW mode \in WriteModes,
             set(k, item, mode)
      PROVE  SweepInv'
  <2>1. CASE Writes(k, mode)
    <3>1. MapBecomes([map EXCEPT ![k] = item])
            /\ UNCHANGED <<now, curator, shard, curator_run, life>>
            /\ last' = [op |-> mode, key |-> k, result |-> 1]
      BY <1>1, <2>1 DEF set, Returns
    <3>2. last' \in Last
      BY <3>1
    <3>3. [map EXCEPT ![k] = item] \in [Keys -> Items \cup {Null}]
            /\ IsFiniteSet(Present([map EXCEPT ![k] = item]))
      BY <1>0, WriteFinite
    <3> QED
      BY <1>0, <3>1, <3>2, <3>3, MapStep
  <2>2. CASE ~Writes(k, mode)
    <3>1. UNCHANGED <<map, sweep, now, curator, shard, curator_run, life>>
            /\ last' = [op |-> mode, key |-> k, result |-> 0]
      BY <1>1, <2>2 DEF set, Returns
    <3>2. last' \in Last
      BY <3>1
    <3>3. TypeOK'
      BY <3>1, <3>2 DEF SweepInv, TypeOK
    <3> QED
      BY <1>0, <3>1, <3>3 DEF SweepInv, SweepSound, Present
  <2> QED
    BY <2>1, <2>2
<1>2. ASSUME NEW k \in Keys, get(k) \/ has(k) PROVE SweepInv'
  <2>1. MapBecomes(Looked(k)) /\ UNCHANGED <<now, curator, shard, curator_run, life>>
    BY <1>2 DEF get, has
  <2>2. last' \in Last
    BY <1>2, LookedFinite DEF get, has, Returns
  <2> QED
    BY <1>0, <2>1, <2>2, LookedFinite, MapStep
<1>3. ASSUME NEW k \in Keys, del(k) PROVE SweepInv'
  <2>1. MapBecomes([map EXCEPT ![k] = Null])
          /\ UNCHANGED <<now, curator, shard, curator_run, life>>
          /\ last' \in Last
    BY <1>3 DEF del, Returns
  <2>2. [map EXCEPT ![k] = Null] \in [Keys -> Items \cup {Null}]
          /\ IsFiniteSet(Present([map EXCEPT ![k] = Null]))
    BY <1>0, WriteFinite
  <2> QED
    BY <1>0, <2>1, <2>2, MapStep
<1>4. CASE cull_expired_keys
  <2> DEFINE m == [k \in Keys |-> IF k \in Shard(shard) /\ map[k] # Null
                                       /\ expired(map[k])
                                  THEN Null ELSE map[k]]
  <2>1. MapBecomes(m) /\ shard <= FASTCACHE_SHARDSIZE /\ shard' = shard + 1
          /\ UNCHANGED <<now, last, curator, curator_run, life>>
    BY <1>4 DEF cull_expired_keys
  <2>2. m \in [Keys -> Items \cup {Null}] /\ \A k \in Keys : m[k] = map[k] \/ m[k] = Null
    BY <1>0
  <2> HIDE DEF m
  <2>3. IsFiniteSet(Present(m))
    BY <1>0, <2>2, EraseFinite
  <2>4. shard' \in 1..(FASTCACHE_SHARDSIZE + 1) /\ last' \in Last
    BY <1>0, <2>1, CacheAssumption
  <2> QED
    BY <2>1, <2>2, <2>3, <2>4, MapStep
<1>5. ASSUME NEW t \in Sweepers, flush(t) PROVE SweepInv'
  <2> DEFINE m == [k \in Keys |-> IF k \in Shard(sweep[t].at) THEN Null ELSE map[k]]
  <2>1. /\ sweep[t].op = "flush" /\ sweep[t].at <= FASTCACHE_SHARDSIZE
        /\ map' = m /\ sweep' = [Observed(m) EXCEPT ![t] = Advanced(@)]
        /\ last' \in Last
        /\ UNCHANGED <<now, curator, shard, curator_run, life>>
    BY <1>5 DEF flush, Returns
  <2>2. m \in [Keys -> Items \cup {Null}] /\ \A k \in Keys : m[k] = map[k] \/ m[k] = Null
    BY <1>0
  <2>3. \A k \in Keys : m[k] = IF k \in Shard(sweep[t].at) THEN Null ELSE map[k]
    OBVIOUS
  <2> HIDE DEF m
  <2>4. IsFiniteSet(Present(m))
    BY <1>0, <2>2, EraseFinite
  <2>5. /\ Observed(m) \in [Sweepers -> Sweep]
        /\ \A u \in Sweepers : SweepSound(Observed(m)[u], m)
        /\ Observed(m)[t] = Watched(sweep[t], m)
    BY <2>1, <2>4, ObservedSound
  <2>6. SweepSound(Advanced(Observed(m)[t]), m)
    BY <1>0, <2>1, <2>3, <2>4, <2>5, ClearSound
  <2>7. \A u \in Sweepers : SweepSound(sweep'[u], map')
    BY <2>1, <2>5, <2>6
  <2>8. sweep' \in [Sweepers -> Sweep]
    BY <2>1, <2>5, <2>6 DEF SweepSound
  <2>9. TypeOK'
    BY <2>1, <2>2, <2>8 DEF SweepInv, TypeOK
  <2> QED
    BY <2>1, <2>4, <2>7, <2>9 DEF SweepInv, SweepSound, Present
<1>6. ASSUME UNCHANGED <<map, now, last, curator, shard, curator_run, life>>,
             NEW t \in Sweepers, NEW s, sweep' = [sweep EXCEPT ![t] = s],
             SweepSound(s, map)
      PROVE  SweepInv'
  <2>1. sweep' \in [Sweepers -> Sweep] /\ \A u \in Sweepers : SweepSound(sweep'[u], map)
    BY <1>0, <1>6 DEF SweepSound
  <2>2. TypeOK'
    BY <1>6, <2>1 DEF SweepInv, TypeOK
  <2> QED
    BY <1>0, <1>6, <2>1, <2>2 DEF SweepInv, SweepSound, Present
<1>7. ASSUME NEW t \in Sweepers, metrics(t) PROVE SweepInv'
  <2>1. SweepSound(Advanced(sweep[t]), map)
    BY <1>0, <1>7, CountSound DEF metrics
  <2>2. sweep' = [sweep EXCEPT ![t] = Advanced(sweep[t])]
    BY <1>7 DEF metrics
  <2> QED
    BY <1>6, <1>7, <2>1, <2>2 DEF metrics
<1>8. ASSUME NEW t \in Sweepers, NEW op \in {"flush", "metrics"}, SweepBegins(t, op)
      PROVE  SweepInv'
  <2> DEFINE s == Begun(op, Present(map))
  <2>1. /\ s \in Sweep /\ s.op = op /\ s.at = 1 /\ s.count = 0
        /\ s.kept = Present(map) /\ s.ever = Present(map)
    <3>1. Present(map) \in SUBSET Keys
      BY DEF Present
    <3> QED
      BY <3>1, SweepBegun
  <2>2. sweep' = [sweep EXCEPT ![t] = s]
    BY <1>8 DEF SweepBegins, Begun
  <2> HIDE DEF s
  <2>3. Passed(1) = {}
    BY CacheAssumption DEF Passed
  <2>4. \A k \in s.kept : calc_index[k] >= s.at
    BY <2>1, CacheAssumption DEF Present
  <2>5. Cardinality(s.kept \cap Passed(s.at)) = 0 /\ Cardinality(s.ever \cap Passed(s.at)) = 0
    BY <2>1, <2>3, FS_EmptySet
  <2>6. SweepSound(s, map)
    BY <1>0, <2>1, <2>4, <2>5 DEF SweepSound
  <2> QED
    BY <1>6, <1>8, <2>2, <2>6 DEF SweepBegins
<1>9. ASSUME NEW t \in Sweepers, SweepEnds(t) PROVE SweepInv'
  <2>1. SweepSound(NoSweep, map)
    BY CacheAssumption DEF SweepSound, NoSweep, Sweep
  <2> QED
    BY <1>6, <1>9, <2>1 DEF SweepEnds
<1>10. ASSUME UNCHANGED <<map, sweep, last>>, TypeOK' PROVE SweepInv'
  BY <1>0, <1>10 DEF SweepInv, SweepSound, Present
<1>11. CASE Tick
  <2>1. TypeOK'
    BY <1>11, CacheAssumption DEF Tick, SweepInv, TypeOK
  <2> QED
    BY <1>10, <1>11, <2>1 DEF Tick
<1>12. CASE curate \/ CuratorWakes \/ CuratorLoops \/ Retire \/ Join \/ UNCHANGED vars
  <2>1. UNCHANGED <<map, sweep, last, now>>
    BY <1>12 DEF curate, CuratorWakes, CuratorLoops, Retire, Join, vars
  <2>2. curator' \in {"head", "asleep", "sweeping", "gone"}
    BY <1>12 DEF curate, CuratorWakes, CuratorLoops, Retire, Join, vars, SweepInv, TypeOK
  <2>3. shard' \in 1..(FASTCACHE_SHARDSIZE + 1)
    BY <1>12, CacheAssumption
       DEF curate, CuratorWakes, CuratorLoops, Retire, Join, vars, SweepInv, TypeOK
  <2>4. curator_run' \in {0, 1} /\ life' \in {"live", "joining", "destroyed"}
    BY <1>12 DEF curate, CuratorWakes, CuratorLoops, Retire, Join, vars, SweepInv, TypeOK
  <2>5. TypeOK'
    BY <2>1, <2>2, <2>3, <2>4 DEF SweepInv, TypeOK
  <2> QED
    BY <1>10, <2>1, <2>5
<1> QED
  BY <1>1, <1>2, <1>3, <1>4, <1>5, <1>7, <1>8, <1>9, <1>11, <1>12
     DEF Next, Call, SweepStep, CuratorStep

-----------------------------------------------------------------------------
(* The variables of Cache keep their types: the shard indices of flush,    *)
(* metrics and the curator stay within the array, and curator_run, which   *)
(* ~Cache decrements, never goes below zero.                               *)
THEOREM TypeCorrect == Spec => []TypeOK
<1>1. SweepInv => TypeOK
  BY DEF SweepInv
<1> QED
  BY InitSweep, StepSweep, <1>1, PTL DEF Spec

(* However calls of other threads interleave with flush, which locks one   *)
(* shard at a time, nothing that was there when it began and stayed is     *)
(* left in a shard it has passed.                                          *)
THEOREM FlushSound == Spec => []FlushForgets
<1>1. SweepInv => FlushForgets
  BY DEF SweepInv, SweepSound, FlushForgets
<1> QED
  BY InitSweep, StepSweep, <1>1, PTL DEF Spec

(* However calls of other threads interleave with metrics, its count lies  *)
(* between the keys that stayed throughout and those that were ever there. *)
THEOREM MetricsSound == Spec => []MetricsBetween
<1>1. SweepInv => MetricsBetween
  BY DEF SweepInv, SweepSound, MetricsBetween, Passed
<1> QED
  BY InitSweep, StepSweep, <1>1, PTL DEF Spec
=============================================================================
