------------------------------- MODULE Outcome -------------------------------
(***************************************************************************)
(* What expected<T,E> promises its user: a variable that holds either a    *)
(* value or an error.  There is no storage, no flag and no temporary; an   *)
(* operation happens as a whole or, when a copy throws, not at all.        *)
(***************************************************************************)
CONSTANTS Objects, Unexpecteds, Data, Default, Husk

VARIABLES
  res,   \* res[v], <<"value", d>>, <<"error", d>> or <<"none">> out of scope
  err,   \* err[u], the error in an unexpected_type, or <<"none">>
  last   \* what the last operation gave its caller

vars == <<res, err, last>>

None == <<"none">>
Live == {v \in Objects : res[v] # None}

Init ==
  /\ res = [v \in Objects |-> None]
  /\ err = [u \in Unexpecteds |-> None]
  /\ last = <<"done">>

(* The variable v, in scope or just declared, holds r.                     *)
Set(v, r) ==
  /\ res' = [res EXCEPT ![v] = r]
  /\ last' = <<"done">>
  /\ UNCHANGED err

Place(v, d) ==
  \/ Set(v, <<"value", d>>)
  \/ Set(v, <<"error", d>>)

Emplace(v, d) ==
  /\ v \in Live
  /\ res' = [res EXCEPT ![v] = <<"value", d>>]
  /\ last' = <<"returned", d>>
  /\ UNCHANGED err

CopyFrom(v, w) == w \in Live /\ Set(v, res[w])

(* What v is given leaves w, which keeps its kind; v may be w.             *)
MoveFrom(v, w) ==
  /\ w \in Live
  /\ res' = [[res EXCEPT ![w] = <<@[1], Husk>>] EXCEPT ![v] = res[w]]
  /\ last' = <<"done">>
  /\ UNCHANGED err

Exchange(v, w) ==
  /\ v \in Live /\ w \in Live
  /\ res' = [res EXCEPT ![v] = res[w], ![w] = res[v]]
  /\ last' = <<"done">>
  /\ UNCHANGED err

Drop(v) == v \in Live /\ Set(v, None)

Take(v) ==
  /\ v \in Live /\ res[v][1] = "value"
  /\ res' = [res EXCEPT ![v] = <<"value", Husk>>]
  /\ last' = <<"returned", res[v][2]>>
  /\ UNCHANGED err

Write(v, d) == v \in Live /\ Set(v, <<res[v][1], d>>)

(* Errors travel between the variable and an unexpected_type.              *)
FromError(v, u) == err[u] # None /\ Set(v, <<"error", err[u][2]>>)

MoveError(v, u) ==
  /\ err[u] # None
  /\ res' = [res EXCEPT ![v] = <<"error", err[u][2]>>]
  /\ err' = [err EXCEPT ![u] = <<"error", Husk>>]
  /\ last' = <<"done">>

SetError(u) ==
  /\ \/ \E d \in Data : err' = [err EXCEPT ![u] = <<"error", d>>]
     \/ \E v \in Live : res[v][1] = "error" /\ err' = [err EXCEPT ![u] = res[v]]
  /\ last' = <<"done">>
  /\ UNCHANGED res

(* A value is only ever seen of a variable that holds one, an error only   *)
(* of one that holds an error, and a copy may throw.                       *)
Look(v, d) ==
  /\ last' \in {<<"bad_alloc">>} \cup
       (IF v \notin Live THEN {}
        ELSE {<<"is", res[v][1]>>} \cup
             (IF res[v][1] = "value"
              THEN {<<"returned", res[v][2]>>, <<"assert", "error">>}
              ELSE {<<"threw", res[v][2]>>, <<"error", res[v][2]>>,
                    <<"returned", d>>, <<"assert", "value">>}))
  /\ UNCHANGED <<res, err>>

Next ==
  /\ last[1] # "assert"
  /\ \/ \E v, w \in Objects : CopyFrom(v, w) \/ MoveFrom(v, w) \/ Exchange(v, w)
     \/ \E v \in Objects, d \in Data : Place(v, d) \/ Emplace(v, d) \/ Write(v, d)
     \/ \E v \in Objects : Drop(v) \/ Take(v)
     \/ \E v \in Objects, u \in Unexpecteds : FromError(v, u) \/ MoveError(v, u)
     \/ \E u \in Unexpecteds : SetError(u)
     \/ \E v \in Objects, d \in Data : Look(v, d)

Spec == Init /\ [][Next]_vars
=============================================================================
