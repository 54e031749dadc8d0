------------------------------- MODULE MCFetch -------------------------------
(* Small instances of Fetch: two calls, made by one thread or by two.      *)
EXTENDS Fetch, TLC

CONSTANTS r1, r2, t1, t2

Alone      == [r \in {r1} |-> t1]
OneCaller  == [r \in {r1, r2} |-> t1]
TwoCallers == (r1 :> t1) @@ (r2 :> t2)
DataAndError == {"data", "error"}
AnyFailure   == {"channel", "connection"}
=============================================================================
