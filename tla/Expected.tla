------------------------------- MODULE Expected -------------------------------
(***************************************************************************)
(* expected<T,E> (include/capy/amqp_expected.h), the type of every Result  *)
(* of the broker: a flag has_value_ beside a union whose alternatives are  *)
(* constructed and destroyed by hand.  The model follows the life of each  *)
(* alternative through the constructors, the destructor, the assignments,  *)
(* which are all `expected( ... ).swap( *this )' on a temporary, and swap. *)
(*                                                                         *)
(* Copying a value or an error may throw std::bad_alloc; moving does not,  *)
(* as for json, Address and Error.  A moved-from object lives on with some *)
(* content, here Husk.  A failed assert ends the program.                  *)
(***************************************************************************)
CONSTANTS
  Objects,      \* the variables of type expected
  Unexpecteds,  \* the variables of type unexpected_type
  Data,         \* contents of values and errors
  Default,      \* the content of value_type()
  Husk          \* the content of a moved-from object

ASSUME ExpectedAssumption == Default \in Data /\ Husk \notin Data

VARIABLES
  born,  \* the Objects in scope
  cell,  \* cell[v], the members of v and the state of its storage
  unex,  \* unex[u], the m_error of u; <<>> when u is out of scope
  last   \* what the last operation gave its caller

vars == <<born, cell, unex, last>>

Content == Data \cup {Husk}

(* The union: alive is the alternative whose lifetime has begun; health is *)
(* broken by an alternative constructed over a living one, or destroyed or *)
(* moved from while it was not alive.                                      *)
Storage == [alive : {"none", "value", "error"}, data : Content,
            health : {"good", "broken"}]

Cell == [has_value : BOOLEAN, contained : Storage]

TypeOK ==
  /\ born \subseteq Objects
  /\ cell \in [Objects -> Cell]
  /\ unex \in [Unexpecteds -> {<<>>} \cup {<<d>> : d \in Content}]
  /\ last \in {<<"done">>, <<"bad_alloc">>}
                \cup ({"returned", "threw", "error"} \X Content)
                \cup ({"is", "assert"} \X {"value", "error"})

-----------------------------------------------------------------------------
(* storage_t                                                               *)

(* construct_value, construct_error and their emplace forms                *)
Construct(s, alt, d) ==
  [alive |-> alt, data |-> d,
   health |-> IF s.alive = "none" THEN s.health ELSE "broken"]

(* destruct_value, destruct_error                                          *)
Destruct(s, alt) ==
  [alive |-> "none", data |-> s.data,
   health |-> IF s.alive = alt THEN s.health ELSE "broken"]

(* std::move( contained.value() ) or .error(), and a constructor taking it *)
MoveOut(s, alt) ==
  [alive |-> s.alive, data |-> Husk,
   health |-> IF s.alive = alt THEN s.health ELSE "broken"]

-----------------------------------------------------------------------------
(* expected                                                                *)

Raw == [alive |-> "none", data |-> Husk, health |-> "good"]
OutOfScope == [has_value |-> FALSE, contained |-> Raw]

Alternative(has) == IF has THEN "value" ELSE "error"

(* Every constructor sets has_value_ and constructs that alternative.      *)
New(has, d) ==
  [has_value |-> has, contained |-> Construct(Raw, Alternative(has), d)]

(* The copy constructor                                                    *)
Copied(c) == New(c.has_value, c.contained.data)

(* What the move constructor leaves behind                                 *)
Moved(c) ==
  [c EXCEPT !.contained = MoveOut(@, Alternative(c.has_value))]

(* Mutant of Destroyed: the test of the flag is inverted.                  *)
DestroyedInverted(c) == Destruct(c.contained, Alternative(~c.has_value))

(* The storage after ~expected                                             *)
Destroyed(c) == Destruct(c.contained, Alternative(c.has_value))

(* Mutant of SwapMixed: the flags are not exchanged.                       *)
SwapMixedKeepsFlags(x, y) ==
  LET ys == Construct(Destruct(MoveOut(y.contained, "error"), "error"),
                      "value", x.contained.data)
      xs == Construct(Destruct(MoveOut(x.contained, "value"), "value"),
                      "error", y.contained.data)
  IN <<[x EXCEPT !.contained = xs], [y EXCEPT !.contained = ys]>>

(* x holds a value and y an error: the error waits in a local variable     *)
(* while the value is moved over, then the flags are exchanged.            *)
SwapMixed(x, y) ==
  LET ys == Construct(Destruct(MoveOut(y.contained, "error"), "error"),
                      "value", x.contained.data)
      xs == Construct(Destruct(MoveOut(x.contained, "value"), "value"),
                      "error", y.contained.data)
  IN <<[has_value |-> y.has_value, contained |-> xs],
       [has_value |-> x.has_value, contained |-> ys]>>

(* x.swap( y ), as the pair of what x and y become                         *)
Swap(x, y) ==
  IF x.has_value = y.has_value
  THEN <<[x EXCEPT !.contained.data = y.contained.data],
         [y EXCEPT !.contained.data = x.contained.data]>>
  ELSE IF x.has_value THEN SwapMixed(x, y)
  ELSE <<SwapMixed(y, x)[2], SwapMixed(y, x)[1]>>

(* expected( ... ).swap( *this ): the temporary dies with the old content. *)
Assigned(c, temp) ==
  LET p == Swap(temp, c)
  IN [p[2] EXCEPT !.contained.health =
        IF Destroyed(p[1]).health = "good" THEN @ ELSE "broken"]

-----------------------------------------------------------------------------
Init ==
  /\ born = {}
  /\ cell = [v \in Objects |-> OutOfScope]
  /\ unex = [u \in Unexpecteds |-> <<>>]
  /\ last = <<"done">>

(* The copy that the construction or the assignment of v begins with       *)
(* throws, before anything has changed.                                    *)
BadAlloc(v) ==
  /\ last' = <<"bad_alloc">>
  /\ UNCHANGED <<born, cell, unex>>

(* A constructor of v runs and leaves c in it.                             *)
Declare(v, c) ==
  /\ v \notin born
  /\ born' = born \cup {v}
  /\ last' = <<"done">>
  /\ cell' = [cell EXCEPT ![v] = c]

(* expected(), expected( value ), expected( unexpect, args... )            *)
ConstructDefault(v) == Declare(v, New(TRUE, Default)) /\ UNCHANGED unex
ConstructValue(v, d) == Declare(v, New(TRUE, d)) /\ UNCHANGED unex
ConstructError(v, d) == Declare(v, New(FALSE, d)) /\ UNCHANGED unex

(* The copy and move constructors, and those from another expected<U,G>    *)
ConstructCopy(v, w) ==
  /\ w \in born
  /\ Declare(v, Copied(cell[w]))
  /\ UNCHANGED unex

ConstructMove(v, w) ==
  /\ v \notin born /\ w \in born
  /\ born' = born \cup {v}
  /\ cell' = [cell EXCEPT ![v] = Copied(cell[w]),
                          ![w] = Moved(@)]
  /\ last' = <<"done">>
  /\ UNCHANGED unex

(* From an unexpected_type, copied or moved                                *)
ConstructUnexpected(v, u, moved) ==
  /\ unex[u] # <<>>
  /\ Declare(v, New(FALSE, unex[u][1]))
  /\ unex' = IF moved THEN [unex EXCEPT ![u] = <<Husk>>] ELSE unex

(* ~expected, at the end of the scope of v                                 *)
Destroy(v) ==
  /\ v \in born
  /\ born' = born \ {v}
  /\ cell' = [cell EXCEPT ![v] =
                [has_value |-> FALSE,
                 contained |-> [Destroyed(cell[v]) EXCEPT !.data = Husk]]]
  /\ last' = <<"done">>
  /\ UNCHANGED unex

(* v = temp, a temporary made from a value, an error or an unexpected_type *)
Assign(v, temp) ==
  /\ v \in born
  /\ cell' = [cell EXCEPT ![v] = Assigned(@, temp)]
  /\ last' = <<"done">>
  /\ UNCHANGED born

AssignValue(v, d) == Assign(v, New(TRUE, d)) /\ UNCHANGED unex

AssignUnexpected(v, u, moved) ==
  /\ unex[u] # <<>>
  /\ Assign(v, New(FALSE, unex[u][1]))
  /\ unex' = IF moved THEN [unex EXCEPT ![u] = <<Husk>>] ELSE unex

(* v = w, where the copy may throw                                         *)
AssignCopy(v, w) ==
  /\ v \in born /\ w \in born
  /\ \/ /\ cell' = [cell EXCEPT ![v] = Assigned(@, Copied(cell[w]))]
        /\ last' = <<"done">>
     \/ /\ UNCHANGED cell
        /\ last' = <<"bad_alloc">>
  /\ UNCHANGED <<born, unex>>

(* v = std::move( w ); v and w may be the same variable.                   *)
AssignMove(v, w) ==
  /\ v \in born /\ w \in born
  /\ LET temp  == Copied(cell[w])
         after == [cell EXCEPT ![w] = Moved(@)]
     IN cell' = [after EXCEPT ![v] = Assigned(@, temp)]
  /\ last' = <<"done">>
  /\ UNCHANGED <<born, unex>>

(* emplace returns value(), a reference to what it made.                   *)
Emplace(v, d) ==
  /\ v \in born
  /\ cell' = [cell EXCEPT ![v] = Assigned(@, New(TRUE, d))]
  /\ last' = <<"returned", cell'[v].contained.data>>
  /\ UNCHANGED <<born, unex>>

(* v.swap( w )                                                             *)
Exchange(v, w) ==
  /\ v \in born /\ w \in born /\ v # w
  /\ cell' = [cell EXCEPT ![v] = Swap(cell[v], cell[w])[1],
                          ![w] = Swap(cell[v], cell[w])[2]]
  /\ last' = <<"done">>
  /\ UNCHANGED <<born, unex>>

-----------------------------------------------------------------------------
(* Observers                                                               *)

Observe(v, result) ==
  /\ v \in born
  /\ last' = result
  /\ UNCHANGED <<born, cell, unex>>

(* operator bool, has_value                                                *)
HasValue(v) == Observe(v, <<"is", Alternative(cell[v].has_value)>>)

(* value(): error_traits::rethrow throws bad_expected_access.              *)
Value(v) ==
  Observe(v, <<IF cell[v].has_value THEN "returned" ELSE "threw",
               cell[v].contained.data>>)

(* operator * and operator -> assert what value() tests.                   *)
Dereference(v) ==
  Observe(v, IF cell[v].has_value THEN <<"returned", cell[v].contained.data>>
             ELSE <<"assert", "value">>)

Error(v) ==
  Observe(v, IF cell[v].has_value THEN <<"assert", "error">>
             ELSE <<"error", cell[v].contained.data>>)

ValueOr(v, d) ==
  Observe(v, <<"returned",
               IF cell[v].has_value THEN cell[v].contained.data ELSE d>>)

(* std::move( v ).value() and its like: the caller moves the value out.    *)
TakeValue(v) ==
  /\ v \in born /\ cell[v].has_value
  /\ cell' = [cell EXCEPT ![v] = Moved(@)]
  /\ last' = <<"returned", cell[v].contained.data>>
  /\ UNCHANGED <<born, unex>>

(* v.value() = d or v.error() = d, through the reference                   *)
Write(v, d) ==
  /\ v \in born
  /\ cell' = [cell EXCEPT ![v].contained.data = d]
  /\ last' = <<"done">>
  /\ UNCHANGED <<born, unex>>

(* Mutant of MakeUnexpected: an unexpected_type is wrapped once more, as   *)
(* the constructor from any E2 would but for its requirements.             *)
MakeUnexpectedNested(u, d) ==
  /\ unex' = [unex EXCEPT ![u] = <<<<d>>>>]
  /\ last' = <<"done">>
  /\ UNCHANGED <<born, cell>>

(* make_unexpected( d )                                                    *)
MakeUnexpected(u, d) ==
  /\ unex' = [unex EXCEPT ![u] = <<d>>]
  /\ last' = <<"done">>
  /\ UNCHANGED <<born, cell>>

(* get_unexpected, which tests nothing: its caller has asked has_value.    *)
GetUnexpected(v, u) ==
  /\ v \in born /\ ~cell[v].has_value
  /\ unex' = [unex EXCEPT ![u] = <<cell[v].contained.data>>]
  /\ last' = <<"done">>
  /\ UNCHANGED <<born, cell>>

-----------------------------------------------------------------------------
OfOne(v) ==
  \/ ConstructDefault(v) \/ Destroy(v) \/ BadAlloc(v)
  \/ HasValue(v) \/ Value(v) \/ Dereference(v) \/ Error(v) \/ TakeValue(v)

WithData(v, d) ==
  \/ ConstructValue(v, d) \/ ConstructError(v, d)
  \/ AssignValue(v, d) \/ Emplace(v, d) \/ Write(v, d) \/ ValueOr(v, d)

OfTwo(v, w) ==
  \/ ConstructCopy(v, w) \/ ConstructMove(v, w)
  \/ AssignCopy(v, w) \/ AssignMove(v, w) \/ Exchange(v, w)

WithUnexpected(v, u) ==
  \/ \E moved \in BOOLEAN :
       ConstructUnexpected(v, u, moved) \/ AssignUnexpected(v, u, moved)
  \/ GetUnexpected(v, u)

Next ==
  /\ last[1] # "assert"
  /\ \/ \E v \in Objects : OfOne(v)
     \/ \E v \in Objects, d \in Data : WithData(v, d)
     \/ \E v, w \in Objects : OfTwo(v, w)
     \/ \E v \in Objects, u \in Unexpecteds : WithUnexpected(v, u)
     \/ \E u \in Unexpecteds, d \in Data : MakeUnexpected(u, d)

Spec == Init /\ [][Next]_vars

-----------------------------------------------------------------------------
(* Properties                                                              *)

(* In every variable in scope exactly the alternative that has_value_      *)
(* names is alive, so that ~expected destroys what was constructed; out of *)
(* scope nothing is.  On the way, through the temporaries of the           *)
(* assignments and the crossing of swap, nothing was constructed over a    *)
(* living object, destroyed twice or left behind.                          *)
Wellformed ==
  \A v \in Objects :
    /\ cell[v].contained.health = "good"
    /\ cell[v].contained.alive =
         IF v \in born THEN Alternative(cell[v].has_value) ELSE "none"

(* What the users of the variables see                                     *)
View ==
  [v \in Objects |->
     IF v \in born THEN <<Alternative(cell[v].has_value), cell[v].contained.data>>
     ELSE <<"none">>]

Errors ==
  [u \in Unexpecteds |->
     IF unex[u] = <<>> THEN <<"none">> ELSE <<"error", unex[u][1]>>]

Promise == INSTANCE Outcome WITH res <- View, err <- Errors

(* The user of an expected sees a variable that is a value or an error,    *)
(* whose assignments happen whole or not at all, self-assignment and       *)
(* exceptions included.                                                    *)
ExpectedImplementsOutcome == Promise!Spec
=============================================================================
