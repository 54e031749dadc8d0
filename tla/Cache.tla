-------------------------------- MODULE Cache --------------------------------
(***************************************************************************)
(* capy::Cache (include/capy/amqp_cache.h): a map in shards, each behind a *)
(* mutex of its own, whose entries may expire, and the optional curator    *)
(* thread that erases the expired ones.  set, get, has and del lock the    *)
(* one shard of their key and are a step each; flush, metrics and the      *)
(* curator lock one shard after the other, so other calls come in between. *)
(***************************************************************************)
EXTENDS Naturals, FiniteSets

CONSTANTS
  Keys,
  Items,                \* what callers store: the data and its expiration
  FASTCACHE_SHARDSIZE,  \* number of shards
  calc_index,           \* calc_index[k] is the shard of key k, from 1
  Sweepers,             \* the threads that call flush and metrics
  MaxTime,              \* bound on the clock
  Null

(* A CacheItem; an expiration of 0 is never.                               *)
CacheItem(data, expiration) == [data |-> data, expiration |-> expiration]

ASSUME CacheAssumption ==
  /\ FASTCACHE_SHARDSIZE \in Nat \ {0}
  /\ calc_index \in [Keys -> 1..FASTCACHE_SHARDSIZE]
  /\ \A item \in Items : item = CacheItem(item.data, item.expiration)
                           /\ item.expiration \in Nat
  /\ MaxTime \in Nat
  /\ Null \notin Items \cup Keys \cup {item.data : item \in Items}

WriteModes == {"WRITE_ALWAYS", "ONLY_WRITE_IF_SET", "ONLY_WRITE_IF_NOT_SET"}

VARIABLES
  map,          \* map[k], the item of key k in the map of its shard
  now,          \* the clock, in seconds
  last,         \* the last call, or shard of a flush, and its result
  sweep,        \* where the call of flush or metrics of a thread stands
  curator,      \* where the curator thread is
  shard,        \* the shard it locks next
  curator_run,  \* asks it to go on
  life          \* of the cache

vars == <<map, now, last, sweep, curator, shard, curator_run, life>>

(* A call of flush or metrics: the next shard, the count so far, and two   *)
(* observations, the keys whose item has been there all along and those    *)
(* that have had one at any time since the call began.                     *)
Sweep == [op : {"none", "flush", "metrics"}, at : 1..(FASTCACHE_SHARDSIZE + 1),
          count : Nat, kept : SUBSET Keys, ever : SUBSET Keys]

TypeOK ==
  /\ map \in [Keys -> Items \cup {Null}]
  /\ now \in 0..MaxTime
  /\ last \in [op : WriteModes \cup {"none", "get", "has", "del", "flush"},
               key : Keys \cup {Null},
               result : {item.data : item \in Items} \cup {0, 1, Null}]
  /\ sweep \in [Sweepers -> Sweep]
  /\ curator \in {"head", "asleep", "sweeping", "gone"}
  /\ shard \in 1..(FASTCACHE_SHARDSIZE + 1)
  /\ curator_run \in {0, 1}
  /\ life \in {"live", "joining", "destroyed"}

NoSweep == [op |-> "none", at |-> 1, count |-> 0, kept |-> {}, ever |-> {}]

Init ==
  /\ map = [k \in Keys |-> Null]
  /\ now = 0
  /\ last = [op |-> "none", key |-> Null, result |-> 0]
  /\ sweep = [t \in Sweepers |-> NoSweep]
  /\ \/ curator = "head" /\ curator_run = 1   \* enable_curator
     \/ curator = "gone" /\ curator_run = 0
  /\ shard = 1
  /\ life = "live"

-----------------------------------------------------------------------------
Present(m) == {k \in Keys : m[k] # Null}

Shard(i) == {k \in Keys : calc_index[k] = i}

(* Mutant of expired: the last second of an item is cut off.               *)
ExpiredEarly(item) == item.expiration # 0 /\ now >= item.expiration

(* CacheItem::expired                                                      *)
expired(item) == item.expiration # 0 /\ now > item.expiration

(* The observations of running sweeps when the map becomes m.              *)
Observed(m) ==
  [t \in Sweepers |->
     IF sweep[t].op = "none" THEN sweep[t]
     ELSE [sweep[t] EXCEPT !.kept = {k \in @ : m[k] = map[k]},
                           !.ever = @ \cup Present(m)]]

MapBecomes(m) == map' = m /\ sweep' = Observed(m)

Returns(op, k, result) == last' = [op |-> op, key |-> k, result |-> result]

(* Does set write?  The item found in the map counts, expired or not.      *)
Writes(k, mode) ==
  /\ mode = "ONLY_WRITE_IF_SET" => map[k] # Null
  /\ mode = "ONLY_WRITE_IF_NOT_SET" => map[k] = Null

set(k, item, mode) ==
  /\ life = "live"
  /\ IF Writes(k, mode)
     THEN /\ MapBecomes([map EXCEPT ![k] = item])
          /\ Returns(mode, k, 1)
     ELSE Returns(mode, k, 0) /\ UNCHANGED <<map, sweep>>
  /\ UNCHANGED <<now, curator, shard, curator_run, life>>

(* What get finds, and what it leaves of the map: an expired item is       *)
(* erased on the way.                                                      *)
Found(k) == IF map[k] = Null \/ expired(map[k]) THEN Null ELSE map[k].data

Looked(k) == IF Found(k) = Null THEN [map EXCEPT ![k] = Null] ELSE map

get(k) ==
  /\ life = "live"
  /\ MapBecomes(Looked(k))
  /\ Returns("get", k, Found(k))
  /\ UNCHANGED <<now, curator, shard, curator_run, life>>

has(k) ==
  /\ life = "live"
  /\ MapBecomes(Looked(k))
  /\ Returns("has", k, IF Found(k) = Null THEN 0 ELSE 1)
  /\ UNCHANGED <<now, curator, shard, curator_run, life>>

del(k) ==
  /\ life = "live"
  /\ MapBecomes([map EXCEPT ![k] = Null])
  /\ Returns("del", k, IF map[k] = Null THEN 0 ELSE 1)
  /\ UNCHANGED <<now, curator, shard, curator_run, life>>

-----------------------------------------------------------------------------
(* flush and metrics                                                       *)

(* Thread t calls op.                                                      *)
SweepBegins(t, op) ==
  /\ life = "live"
  /\ sweep[t].op = "none"
  /\ sweep' = [sweep EXCEPT ![t] = [NoSweep EXCEPT !.op = op,
                                      !.kept = Present(map), !.ever = Present(map)]]
  /\ UNCHANGED <<map, now, last, curator, shard, curator_run, life>>

(* Mutant of Advanced: the loop passes over every other shard.             *)
AdvancedSkips(s) ==
  [s EXCEPT !.at = @ + 2,
            !.count = @ + Cardinality(Shard(s.at) \cap Present(map))]

(* Mutant of Advanced: the whole cache is counted for every shard.         *)
AdvancedCountsAll(s) ==
  [s EXCEPT !.at = @ + 1, !.count = @ + Cardinality(Present(map))]

(* Sweep s, advanced past the shard it has locked.                         *)
Advanced(s) ==
  [s EXCEPT !.at = @ + 1,
            !.count = @ + Cardinality(Shard(s.at) \cap Present(map))]

(* flush clears the next shard.                                            *)
flush(t) ==
  /\ sweep[t].op = "flush" /\ sweep[t].at <= FASTCACHE_SHARDSIZE
  /\ LET cleared == [k \in Keys |-> IF k \in Shard(sweep[t].at) THEN Null ELSE map[k]]
     IN /\ map' = cleared
        /\ sweep' = [Observed(cleared) EXCEPT ![t] = Advanced(@)]
  /\ Returns("flush", Null, 0)
  /\ UNCHANGED <<now, curator, shard, curator_run, life>>

(* metrics counts the next shard.                                          *)
metrics(t) ==
  /\ sweep[t].op = "metrics" /\ sweep[t].at <= FASTCACHE_SHARDSIZE
  /\ sweep' = [sweep EXCEPT ![t] = Advanced(@)]
  /\ UNCHANGED <<map, now, last, curator, shard, curator_run, life>>

SweepEnds(t) ==
  /\ sweep[t].at > FASTCACHE_SHARDSIZE
  /\ sweep' = [sweep EXCEPT ![t] = NoSweep]
  /\ UNCHANGED <<map, now, last, curator, shard, curator_run, life>>

-----------------------------------------------------------------------------
(* The curator                                                             *)

(* The test of curator_run at the head of the loop.                        *)
curate ==
  /\ curator = "head"
  /\ curator' = IF curator_run = 0 THEN "gone" ELSE "asleep"
  /\ UNCHANGED <<map, now, last, sweep, shard, curator_run, life>>

(* The nap is over.                                                        *)
CuratorWakes ==
  /\ curator = "asleep" /\ curator' = "sweeping"
  /\ UNCHANGED <<map, now, last, sweep, shard, curator_run, life>>

(* Mutant of cull_expired_keys: nothing is erased.                         *)
CullNothing ==
  /\ curator = "sweeping" /\ shard <= FASTCACHE_SHARDSIZE
  /\ shard' = shard + 1
  /\ UNCHANGED <<map, now, last, sweep, curator, curator_run, life>>

(* The next shard is locked and its expired items are erased.              *)
cull_expired_keys ==
  /\ curator = "sweeping" /\ shard <= FASTCACHE_SHARDSIZE
  /\ MapBecomes([k \in Keys |-> IF k \in Shard(shard) /\ map[k] # Null
                                     /\ expired(map[k])
                                THEN Null ELSE map[k]])
  /\ shard' = shard + 1
  /\ UNCHANGED <<now, last, curator, curator_run, life>>

(* The end of the pass.                                                    *)
CuratorLoops ==
  /\ curator = "sweeping" /\ shard > FASTCACHE_SHARDSIZE
  /\ shard' = 1
  /\ curator' = "head"
  /\ UNCHANGED <<map, now, last, sweep, curator_run, life>>

(* Mutant of Retire: curator_run is left alone.                            *)
RetireUnasked ==
  /\ life = "live"
  /\ \A t \in Sweepers : sweep[t].op = "none"
  /\ life' = "joining"
  /\ UNCHANGED <<map, now, last, sweep, curator, shard, curator_run>>

(* Mutant of Retire: enable_curator_ is not tested.                        *)
RetireUnguarded ==
  /\ life = "live"
  /\ \A t \in Sweepers : sweep[t].op = "none"
  /\ curator_run' = curator_run - 1
  /\ life' = "joining"
  /\ UNCHANGED <<map, now, last, sweep, curator, shard>>

(* ~Cache, once no thread is in a call: the curator is asked to leave ...  *)
Retire ==
  /\ life = "live"
  /\ \A t \in Sweepers : sweep[t].op = "none"
  /\ curator_run' = IF curator_run = 1 THEN curator_run - 1 ELSE curator_run
  /\ life' = "joining"
  /\ UNCHANGED <<map, now, last, sweep, curator, shard>>

(* ... and joined.                                                         *)
Join ==
  /\ life = "joining" /\ curator = "gone"
  /\ life' = "destroyed"
  /\ UNCHANGED <<map, now, last, sweep, curator, shard, curator_run>>

(* The clock.                                                              *)
Tick ==
  /\ now < MaxTime
  /\ now' = now + 1
  /\ UNCHANGED <<map, last, sweep, curator, shard, curator_run, life>>

-----------------------------------------------------------------------------
Call(k) ==
  \/ \E item \in Items, mode \in WriteModes : set(k, item, mode)
  \/ get(k) \/ has(k) \/ del(k)

SweepStep(t) ==
  \/ \E op \in {"flush", "metrics"} : SweepBegins(t, op)
  \/ flush(t) \/ metrics(t) \/ SweepEnds(t)

CuratorStep == curate \/ CuratorWakes \/ cull_expired_keys \/ CuratorLoops

Next ==
  \/ \E k \in Keys : Call(k)
  \/ \E t \in Sweepers : SweepStep(t)
  \/ CuratorStep
  \/ Retire \/ Join
  \/ Tick

(* The curator thread is scheduled, and so is the thread that joins it.    *)
Fairness == WF_vars(CuratorStep) /\ WF_vars(Join)

Spec == Init /\ [][Next]_vars
FairSpec == Spec /\ Fairness
-----------------------------------------------------------------------------
(* Properties                                                              *)

(* What get can find: the items that are not expired.                      *)
Visible == [k \in Keys |-> IF map[k] # Null /\ (map[k].expiration = 0
                                                  \/ now <= map[k].expiration)
                           THEN map[k] ELSE Null]

(* Callers see one map in which an entry is gone the moment it expires:    *)
(* the erasing done by get, has and the curator is never observable, and   *)
(* shards, locks and modes never make a call return a wrong result.        *)
Promise == INSTANCE ExpiringMap WITH store <- Visible

CacheImplementsMap == Promise!Spec

(* Nothing that was in the cache when flush began, and stayed, is left in  *)
(* a shard that flush has passed; what is there was set behind its back.   *)
FlushForgets ==
  \A t \in Sweepers : sweep[t].op = "flush" =>
    \A k \in sweep[t].kept : calc_index[k] >= sweep[t].at

(* The sum metrics returns may not be the size the cache had at any one    *)
(* time, but it lies between the number of keys that had the same item     *)
(* throughout the call and the number that had one at some time.           *)
MetricsBetween ==
  \A t \in Sweepers :
    LET passed == {k \in Keys : calc_index[k] < sweep[t].at}
    IN  sweep[t].op = "metrics" =>
          /\ Cardinality(sweep[t].kept \cap passed) <= sweep[t].count
          /\ sweep[t].count <= Cardinality(sweep[t].ever \cap passed)

(* An expired item does not stay in the map while the curator works.       *)
ExpiredCulled ==
  \A k \in Keys : (map[k] # Null /\ now > map[k].expiration /\ map[k].expiration # 0)
                    ~> (\/ map[k] = Null
                        \/ map[k].expiration = 0 \/ now <= map[k].expiration
                        \/ curator = "gone")

(* The destructor does not wait for the curator for ever.                  *)
CuratorJoined == life = "joining" ~> life = "destroyed"
=============================================================================
