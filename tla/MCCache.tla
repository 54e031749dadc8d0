------------------------------- MODULE MCCache -------------------------------
(* A small instance of Cache: two keys in two shards, one value that never *)
(* expires and one that does.                                              *)
EXTENDS Cache, TLC

CONSTANTS k1, k2, o1, o2

TwoShards == (k1 :> 1) @@ (k2 :> 2)
TwoItems  == {CacheItem(o1, 0), CacheItem(o2, 1)}
=============================================================================
