----------------------------- MODULE ExpiringMap -----------------------------
(***************************************************************************)
(* What the callers of capy::Cache may rely on                             *)
(* (include/capy/amqp_cache.h): one map, without shards, locks or curator, *)
(* from which an entry is gone the moment it has expired.  `last' is the   *)
(* call that returned last, with its key and its result; a call that finds *)
(* an entry expired but not yet erased may count it or not, so the results *)
(* of set and del are left open where the map has no entry.                *)
(***************************************************************************)
EXTENDS Naturals

CONSTANTS Keys, Items, WriteModes, Null

VARIABLES store, now, last

vars == <<store, now, last>>

Unexpired(item, time) == item.expiration = 0 \/ time <= item.expiration

Call(op, k, result) == [op |-> op, key |-> k, result |-> result]

Init ==
  /\ store = [k \in Keys |-> Null]
  /\ now = 0
  /\ last = Call("none", Null, 0)

(* A write in each mode.  Where the map has an entry the mode decides;     *)
(* where it has none, the conditional modes may write or not.  An entry    *)
(* that is expired as it is written is never there.                        *)
Set(k, item, mode) ==
  /\ \E written \in {0, 1} :
       /\ last' = Call(mode, k, written)
       /\ mode = "WRITE_ALWAYS" => written = 1
       /\ store[k] # Null => (written = 0) = (mode = "ONLY_WRITE_IF_NOT_SET")
       /\ store' = IF written = 0 THEN store
                   ELSE [store EXCEPT
                           ![k] = IF Unexpired(item, now) THEN item ELSE Null]
  /\ UNCHANGED now

(* Only a call of get or has reads, and it changes nothing.                *)
Get(k) ==
  /\ last' = Call("get", k, IF store[k] = Null THEN Null ELSE store[k].data)
  /\ UNCHANGED <<store, now>>

Has(k) ==
  /\ last' = Call("has", k, IF store[k] = Null THEN 0 ELSE 1)
  /\ UNCHANGED <<store, now>>

Del(k) ==
  /\ \E erased \in {0, 1} : /\ last' = Call("del", k, erased)
                            /\ store[k] # Null => erased = 1
  /\ store' = [store EXCEPT ![k] = Null]
  /\ UNCHANGED now

(* flush forgets the entries of some keys at a time.                       *)
Forget ==
  /\ last' = Call("flush", Null, 0)
  /\ \E S \in SUBSET Keys :
       store' = [k \in Keys |-> IF k \in S THEN Null ELSE store[k]]
  /\ UNCHANGED now

Tick ==
  /\ now' = now + 1
  /\ store' = [k \in Keys |-> IF store[k] # Null /\ Unexpired(store[k], now')
                              THEN store[k] ELSE Null]
  /\ UNCHANGED last

Next ==
  \/ \E k \in Keys, item \in Items, mode \in WriteModes : Set(k, item, mode)
  \/ \E k \in Keys : Get(k) \/ Has(k) \/ Del(k)
  \/ Forget
  \/ Tick

Spec == Init /\ [][Next]_vars
=============================================================================
