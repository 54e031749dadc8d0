------------------------------ MODULE MCListen ------------------------------
(* Small instances of Listen: t1 and t2 call listen, lp runs the loop, w   *)
(* is a worker of the user.                                                *)
EXTENDS Listen, TLC

CONSTANTS l1, l2, t1, t2, lp, w

OwnThreads  == (l1 :> t1) @@ (l2 :> t2)
SameThread  == [l \in {l1, l2} |-> t1]
OneThread   == [l \in {l1} |-> t1]
AloneInLoop == [l \in {l1} |-> lp]
DataAndError == {"data", "error"}
AnyFailure   == {"channel", "connection", "reply", "throw"}
=============================================================================
