------------------------------ MODULE MCBroker ------------------------------
(* Two publishes from a worker, one after the other, and one from a        *)
(* callback of the loop; or a single one from any thread.                  *)
EXTENDS Broker, TLC

CONSTANTS p1, p2, p3, main, worker, callback

MCCaller == p1 :> worker @@ p2 :> worker @@ p3 :> callback

ByMain     == p1 :> main
ByWorker   == p1 :> worker
ByCallback == p1 :> callback
=============================================================================
