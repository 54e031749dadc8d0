---------------------------- MODULE ExpectedProofs ----------------------------
(***************************************************************************)
(* expected is well formed at every step and implements Outcome, for any   *)
(* variables and contents.  The lemmas say what the operations on storage  *)
(* come to when the variables they start from are well formed: swap        *)
(* exchanges the two cells and an assignment leaves what the temporary     *)
(* held, with nothing left of the hand-made lifetimes in between.          *)
(***************************************************************************)
EXTENDS Expected, TLAPS

(* A variable in scope whose storage agrees with its flag.                 *)
Sound(c) ==
  /\ c \in Cell
  /\ c.contained.health = "good"
  /\ c.contained.alive = Alternative(c.has_value)

ExpectedInv == TypeOK /\ Wellformed

-----------------------------------------------------------------------------
(* A constructor makes a sound cell with the flag and the content given.   *)
LEMMA NewFacts ==
  ASSUME NEW has \in BOOLEAN, NEW d \in Content
  PROVE  /\ Sound(New(has, d))
         /\ New(has, d).has_value = has
         /\ New(has, d).contained.data = d
BY DEF Sound, New, Construct, Raw, Cell, Storage, Alternative, Content

(* A sound cell is what a constructor makes of its flag and content.       *)
LEMMA SoundIsNew ==
  ASSUME NEW c, Sound(c)
  PROVE  /\ c.has_value \in BOOLEAN /\ c.contained.data \in Content
         /\ c = New(c.has_value, c.contained.data)
<1>1. c.has_value \in BOOLEAN /\ c.contained.data \in Content
  BY DEF Sound, Cell, Storage
<1>2. c.contained = Construct(Raw, Alternative(c.has_value), c.contained.data)
  BY DEF Sound, Cell, Storage, Construct, Raw
<1>3. c = [has_value |-> c.has_value, contained |-> c.contained]
  BY DEF Sound, Cell
<1> QED
  BY <1>1, <1>2, <1>3 DEF New

(* Overwriting storage that was emptied in order is a fresh construction.  *)
LEMMA Rebuilt ==
  ASSUME NEW s \in Storage, NEW alt \in {"value", "error"}, NEW new, NEW d,
         s.alive = alt, s.health = "good"
  PROVE  Construct(Destruct(MoveOut(s, alt), alt), new, d)
           = Construct(Raw, new, d)
BY DEF Construct, Destruct, MoveOut, Raw, Storage

(* The crossing of swap exchanges the cells, flags and lifetimes included. *)
LEMMA SwapMixedFacts ==
  ASSUME NEW x, NEW y, Sound(x), Sound(y),
         x.has_value = TRUE, y.has_value = FALSE
  PROVE  SwapMixed(x, y) = <<y, x>>
<1>1. /\ x.contained \in Storage /\ x.contained.alive = "value"
      /\ x.contained.health = "good"
  BY DEF Sound, Cell, Alternative
<1>2. /\ y.contained \in Storage /\ y.contained.alive = "error"
      /\ y.contained.health = "good"
  BY DEF Sound, Cell, Alternative
<1>3. Construct(Destruct(MoveOut(y.contained, "error"), "error"),
                "value", x.contained.data)
        = Construct(Raw, "value", x.contained.data)
  BY <1>2, Rebuilt
<1>4. Construct(Destruct(MoveOut(x.contained, "value"), "value"),
                "error", y.contained.data)
        = Construct(Raw, "error", y.contained.data)
  BY <1>1, Rebuilt
<1>5. [has_value |-> y.has_value,
       contained |-> Construct(Raw, "error", y.contained.data)] = y
  BY SoundIsNew DEF New, Alternative
<1>6. [has_value |-> x.has_value,
       contained |-> Construct(Raw, "value", x.contained.data)] = x
  BY SoundIsNew DEF New, Alternative
<1> QED
  BY <1>3, <1>4, <1>5, <1>6 DEF SwapMixed

LEMMA SwapFacts ==
  ASSUME NEW x, NEW y, Sound(x), Sound(y)
  PROVE  Swap(x, y) = <<y, x>>
<1>1. x.has_value \in BOOLEAN /\ y.has_value \in BOOLEAN
  BY DEF Sound, Cell
<1>2. CASE x.has_value = y.has_value
  <2>1. [x EXCEPT !.contained.data = y.contained.data] = y
    BY <1>2 DEF Sound, Cell, Storage
  <2>2. [y EXCEPT !.contained.data = x.contained.data] = x
    BY <1>2 DEF Sound, Cell, Storage
  <2> QED
    BY <1>2, <2>1, <2>2 DEF Swap
<1>3. CASE x.has_value = TRUE /\ y.has_value = FALSE
  BY <1>3, SwapMixedFacts DEF Swap
<1>4. CASE x.has_value = FALSE /\ y.has_value = TRUE
  <2>1. SwapMixed(y, x) = <<x, y>>
    BY <1>4, SwapMixedFacts
  <2> QED
    BY <1>4, <2>1 DEF Swap
<1> QED
  BY <1>1, <1>2, <1>3, <1>4

(* An assignment leaves what the temporary held.                           *)
LEMMA AssignedFacts ==
  ASSUME NEW c, NEW temp, Sound(c), Sound(temp)
  PROVE  Assigned(c, temp) = temp
<1>1. Swap(temp, c) = <<c, temp>>
  BY SwapFacts
<1>2. Destroyed(c).health = "good"
  BY DEF Destroyed, Destruct, Sound, Cell
<1>3. [temp EXCEPT !.contained.health = temp.contained.health] = temp
  BY DEF Sound, Cell, Storage
<1> QED
  BY <1>1, <1>2, <1>3 DEF Assigned

(* Moving out of a variable changes its content alone.                     *)
LEMMA MovedFacts ==
  ASSUME NEW c, Sound(c)
  PROVE  /\ Sound(Moved(c))
         /\ Moved(c).has_value = c.has_value
         /\ Moved(c).contained.data = Husk
BY DEF Moved, MoveOut, Sound, Cell, Storage, Content

(* Writing through a reference changes the content alone.                  *)
LEMMA WriteFacts ==
  ASSUME NEW c, Sound(c), NEW d \in Content
  PROVE  /\ Sound([c EXCEPT !.contained.data = d])
         /\ [c EXCEPT !.contained.data = d].has_value = c.has_value
         /\ [c EXCEPT !.contained.data = d].contained.data = d
BY DEF Sound, Cell, Storage

(* What ~expected leaves is raw storage.                                   *)
LEMMA DestroyedFacts ==
  ASSUME NEW c, Sound(c)
  PROVE  [has_value |-> FALSE,
          contained |-> [Destroyed(c) EXCEPT !.data = Husk]] = OutOfScope
<1>1. [Destroyed(c) EXCEPT !.data = Husk] = Raw
  BY DEF Destroyed, Destruct, Sound, Cell, Storage, Raw
<1> QED
  BY <1>1 DEF OutOfScope

(* The variables in scope are sound.                                       *)
LEMMA InvMeaning ==
  ASSUME ExpectedInv
  PROVE  /\ born \subseteq Objects
         /\ \A v \in born : Sound(cell[v])
BY DEF ExpectedInv, TypeOK, Wellformed, Sound

-----------------------------------------------------------------------------
(* A step that leaves the sound cell c in v, in scope before or not.       *)
LEMMA PutFacts ==
  ASSUME ExpectedInv, NEW v \in Objects, NEW c, Sound(c),
         cell' = [cell EXCEPT ![v] = c], born' = born \cup {v}
  PROVE  /\ born' \subseteq Objects /\ cell' \in [Objects -> Cell]
         /\ Wellformed'
         /\ View' = [View EXCEPT ![v] = <<Alternative(c.has_value), c.contained.data>>]
<1>1. born \subseteq Objects /\ cell \in [Objects -> Cell] /\ c \in Cell
  BY DEF ExpectedInv, TypeOK, Sound
<1>2. \A w \in Objects : cell'[w] = IF w = v THEN c ELSE cell[w]
  BY <1>1
<1>3. Wellformed'
  BY <1>1, <1>2 DEF ExpectedInv, Wellformed, Sound
<1>4. View' = [View EXCEPT ![v] = <<Alternative(c.has_value), c.contained.data>>]
  BY <1>1, <1>2 DEF View
<1> QED
  BY <1>1, <1>3, <1>4

(* What the view of a variable in scope is.                                *)
LEMMA ViewFacts ==
  ASSUME ExpectedInv, NEW v \in born
  PROVE  /\ View[v] = <<Alternative(cell[v].has_value), cell[v].contained.data>>
         /\ v \in Promise!Live
         /\ cell[v].has_value \in BOOLEAN
         /\ cell[v].contained.data \in Content
         /\ Sound(cell[v])
<1>1. v \in Objects /\ Sound(cell[v])
  BY InvMeaning
<1>2. View[v] = <<Alternative(cell[v].has_value), cell[v].contained.data>>
  BY <1>1 DEF View
<1>3. View[v] # <<"none">>
  BY <1>2 DEF Alternative
<1> QED
  BY <1>1, <1>2, <1>3, SoundIsNew DEF Promise!Live, Promise!None

(* The unexpected_type variables keep their type and their view.           *)
LEMMA UnexFacts ==
  ASSUME ExpectedInv, NEW u \in Unexpecteds, NEW d \in Content,
         unex' = [unex EXCEPT ![u] = <<d>>]
  PROVE  /\ unex' \in [Unexpecteds -> {<<>>} \cup {<<e>> : e \in Content}]
         /\ Errors' = [Errors EXCEPT ![u] = <<"error", d>>]
<1>1. unex \in [Unexpecteds -> {<<>>} \cup {<<e>> : e \in Content}]
  BY DEF ExpectedInv, TypeOK
<1>2. <<d>> # <<>> /\ <<d>>[1] = d
  OBVIOUS
<1>3. \A w \in Unexpecteds : unex'[w] = IF w = u THEN <<d>> ELSE unex[w]
  BY <1>1
<1>4. Errors'[u] = <<"error", d>>
  BY <1>2, <1>3 DEF Errors
<1>5. \A w \in Unexpecteds \ {u} : Errors'[w] = Errors[w]
  BY <1>3 DEF Errors
<1>6. Errors' = [Errors EXCEPT ![u] = <<"error", d>>]
  <2>1. Errors' = [w \in Unexpecteds |-> Errors'[w]]
    BY DEF Errors
  <2>2. Errors = [w \in Unexpecteds |-> Errors[w]]
    BY Zenon DEF Errors
  <2> QED
    BY <1>4, <1>5, <2>1, <2>2
<1> QED
  BY <1>1, <1>6

(* The error a living unexpected_type holds.                               *)
LEMMA ErrorFacts ==
  ASSUME ExpectedInv, NEW u \in Unexpecteds, unex[u] # <<>>
  PROVE  /\ unex[u][1] \in Content
         /\ Errors[u] = <<"error", unex[u][1]>>
         /\ Errors[u] # Promise!None
BY DEF ExpectedInv, TypeOK, Errors, Promise!None

-----------------------------------------------------------------------------
LEMMA InitFacts ==
  ASSUME Init
  PROVE  ExpectedInv /\ Promise!Init
<1>1. Raw \in Storage /\ OutOfScope \in Cell
  BY DEF Raw, OutOfScope, Storage, Cell, Content
<1>2. TypeOK
  BY <1>1 DEF Init, TypeOK
<1>3. Wellformed
  BY DEF Init, Wellformed, OutOfScope, Raw
<1>4. View = [v \in Objects |-> <<"none">>]
  BY DEF Init, View
<1>5. Errors = [u \in Unexpecteds |-> <<"none">>]
  BY DEF Init, Errors
<1> QED
  BY <1>2, <1>3, <1>4, <1>5 DEF ExpectedInv, Init, Promise!Init, Promise!None

(* Construction and assignment from a value, an error or nothing.          *)
LEMMA FreshStep ==
  ASSUME ExpectedInv, NEW v \in Objects, NEW has \in BOOLEAN, NEW d \in Content,
         Declare(v, New(has, d)) \/ Assign(v, New(has, d))
  PROVE  /\ born' \subseteq Objects /\ cell' \in [Objects -> Cell]
         /\ Wellformed' /\ last' = <<"done">>
         /\ View' = [View EXCEPT ![v] = <<Alternative(has), d>>]
<1> DEFINE c == New(has, d)
<1>1. Sound(c) /\ c.has_value = has /\ c.contained.data = d
  BY NewFacts
<1>2. /\ born' = born \cup {v} /\ cell' = [cell EXCEPT ![v] = c]
      /\ last' = <<"done">>
  <2>1. CASE Declare(v, c)
    BY <2>1 DEF Declare
  <2>2. CASE Assign(v, c)
    <3>1. v \in born /\ Sound(cell[v])
      BY <2>2, InvMeaning DEF Assign
    <3>2. Assigned(cell[v], c) = c
      BY <1>1, <3>1, AssignedFacts
    <3> QED
      BY <2>2, <3>1, <3>2 DEF Assign
  <2> QED
    BY <2>1, <2>2
<1> HIDE DEF c
<1> QED
  BY <1>1, <1>2, PutFacts

(* Construction or copy assignment from another variable.                  *)
LEMMA CopyStep ==
  ASSUME ExpectedInv, NEW v \in Objects, NEW w \in Objects,
         ConstructCopy(v, w) \/ AssignCopy(v, w)
  PROVE  ExpectedInv' /\ (Promise!CopyFrom(v, w) \/ BadAlloc(v))
<1>1. /\ w \in born /\ Sound(cell[w]) /\ w \in Promise!Live
      /\ View[w] = <<Alternative(cell[w].has_value), cell[w].contained.data>>
  BY ViewFacts DEF ConstructCopy, AssignCopy
<1>2. Copied(cell[w]) = cell[w]
  BY <1>1, SoundIsNew DEF Copied
<1>3. CASE UNCHANGED cell /\ AssignCopy(v, w) /\ last' = <<"bad_alloc">>
  BY <1>3 DEF AssignCopy, BadAlloc, ExpectedInv, TypeOK, Wellformed
<1>4. CASE /\ born' = born \cup {v} /\ cell' = [cell EXCEPT ![v] = cell[w]]
           /\ last' = <<"done">> /\ UNCHANGED unex
  <2>1. /\ born' \subseteq Objects /\ cell' \in [Objects -> Cell] /\ Wellformed'
        /\ View' = [View EXCEPT ![v] = View[w]]
    BY <1>1, <1>4, PutFacts
  <2>2. Errors' = Errors
    BY <1>4 DEF Errors
  <2> QED
    BY <1>1, <1>4, <2>1, <2>2 DEF ExpectedInv, TypeOK, Promise!CopyFrom, Promise!Set
<1>5. CASE ConstructCopy(v, w)
  BY <1>4, <1>5, <1>2 DEF ConstructCopy, Declare
<1>6. CASE AssignCopy(v, w) /\ ~(UNCHANGED cell /\ last' = <<"bad_alloc">>)
  <2>1. v \in born /\ Sound(cell[v])
    BY <1>6, InvMeaning DEF AssignCopy
  <2>2. Assigned(cell[v], Copied(cell[w])) = cell[w]
    BY <2>1, <1>1, <1>2, AssignedFacts
  <2> QED
    BY <1>4, <1>6, <2>1, <2>2 DEF AssignCopy
<1> QED
  BY <1>3, <1>5, <1>6

(* Move construction or move assignment, self-assignment included.         *)
LEMMA MoveStep ==
  ASSUME ExpectedInv, NEW v \in Objects, NEW w \in Objects,
         ConstructMove(v, w) \/ AssignMove(v, w)
  PROVE  ExpectedInv' /\ Promise!MoveFrom(v, w)
<1>1. /\ w \in born /\ Sound(cell[w]) /\ w \in Promise!Live
      /\ View[w] = <<Alternative(cell[w].has_value), cell[w].contained.data>>
  BY ViewFacts DEF ConstructMove, AssignMove
<1>2. Copied(cell[w]) = cell[w]
  BY <1>1, SoundIsNew DEF Copied
<1>3. /\ Sound(Moved(cell[w]))
      /\ Moved(cell[w]).has_value = cell[w].has_value
      /\ Moved(cell[w]).contained.data = Husk
  BY <1>1, MovedFacts
<1>4. born \subseteq Objects /\ cell \in [Objects -> Cell]
  BY DEF ExpectedInv, TypeOK
<1>5. /\ born' = born \cup {v} /\ last' = <<"done">> /\ UNCHANGED unex
      /\ cell' = [x \in Objects |-> IF x = v THEN cell[w]
                                    ELSE IF x = w THEN Moved(cell[w])
                                    ELSE cell[x]]
  <2>1. CASE ConstructMove(v, w)
    BY <1>1, <1>2, <1>4, <2>1 DEF ConstructMove
  <2>2. CASE AssignMove(v, w)
    <3> DEFINE after == [cell EXCEPT ![w] = Moved(cell[w])]
    <3>1. v \in born /\ Sound(cell[v])
      BY <2>2, InvMeaning DEF AssignMove
    <3>2. Sound(after[v])
      BY <1>3, <1>4, <3>1
    <3>3. Assigned(after[v], cell[w]) = cell[w]
      BY <1>1, <3>2, AssignedFacts
    <3>4. cell' = [after EXCEPT ![v] = cell[w]]
      BY <1>2, <2>2, <3>3 DEF AssignMove
    <3> QED
      BY <1>4, <2>2, <3>1, <3>4 DEF AssignMove
  <2> QED
    BY <2>1, <2>2
<1>6. \A x \in Objects : cell'[x] = IF x = v THEN cell[w]
                                    ELSE IF x = w THEN Moved(cell[w])
                                    ELSE cell[x]
  BY <1>5
<1>7. born' \subseteq Objects /\ cell' \in [Objects -> Cell]
  BY <1>1, <1>3, <1>4, <1>5 DEF Sound
<1>8. Wellformed'
  BY <1>1, <1>3, <1>4, <1>5, <1>6 DEF ExpectedInv, Wellformed, Sound
<1>9. View' = [[View EXCEPT ![w] = <<View[w][1], Husk>>] EXCEPT ![v] = View[w]]
  <2>1. View[w][1] = Alternative(cell[w].has_value)
    BY <1>1
  <2>2. View' = [x \in Objects |->
                   IF x = v THEN View[w]
                   ELSE IF x = w THEN <<View[w][1], Husk>> ELSE View[x]]
    BY <1>1, <1>3, <1>5, <1>6, <2>1 DEF View
  <2>3. View = [x \in Objects |-> View[x]]
    BY Zenon DEF View
  <2> QED
    BY <2>2, <2>3
<1>10. Errors' = Errors
  BY <1>5 DEF Errors
<1> QED
  BY <1>1, <1>5, <1>7, <1>8, <1>9, <1>10 DEF ExpectedInv, TypeOK, Promise!MoveFrom

(* The variables in scope stay, so does the view of the errors.            *)
LEMMA ExchangeStep ==
  ASSUME ExpectedInv, NEW v \in Objects, NEW w \in Objects, Exchange(v, w)
  PROVE  ExpectedInv' /\ Promise!Exchange(v, w)
<1>1. /\ v \in born /\ w \in born /\ v # w
      /\ Sound(cell[v]) /\ Sound(cell[w])
      /\ v \in Promise!Live /\ w \in Promise!Live
      /\ View[v] = <<Alternative(cell[v].has_value), cell[v].contained.data>>
      /\ View[w] = <<Alternative(cell[w].has_value), cell[w].contained.data>>
  BY ViewFacts DEF Exchange
<1>2. Swap(cell[v], cell[w]) = <<cell[w], cell[v]>>
  BY <1>1, SwapFacts
<1>3. born \subseteq Objects /\ cell \in [Objects -> Cell]
  BY DEF ExpectedInv, TypeOK
<1>4. cell' = [cell EXCEPT ![v] = cell[w], ![w] = cell[v]]
  BY <1>2 DEF Exchange
<1>5. UNCHANGED <<born, unex>> /\ last' = <<"done">>
  BY DEF Exchange
<1>6. \A x \in Objects : cell'[x] = IF x = w THEN cell[v]
                                    ELSE IF x = v THEN cell[w] ELSE cell[x]
  BY <1>3, <1>4
<1>7. cell' \in [Objects -> Cell]
  BY <1>3, <1>4
<1>8. Wellformed'
  BY <1>1, <1>5, <1>6 DEF ExpectedInv, Wellformed, Sound
<1>9. View' = [View EXCEPT ![v] = View[w], ![w] = View[v]]
  <2>1. View' = [x \in Objects |-> IF x = w THEN View[v]
                                   ELSE IF x = v THEN View[w] ELSE View[x]]
    BY <1>1, <1>5, <1>6 DEF View
  <2>2. View = [x \in Objects |-> View[x]]
    BY Zenon DEF View
  <2> QED
    BY <1>1, <2>1, <2>2
<1>10. Errors' = Errors
  BY <1>5 DEF Errors
<1> QED
  BY <1>1, <1>3, <1>5, <1>7, <1>8, <1>9, <1>10
  DEF ExpectedInv, TypeOK, Promise!Exchange

LEMMA DestroyStep ==
  ASSUME ExpectedInv, NEW v \in Objects, Destroy(v)
  PROVE  ExpectedInv' /\ Promise!Drop(v)
<1>1. v \in born /\ Sound(cell[v]) /\ v \in Promise!Live
  BY ViewFacts DEF Destroy
<1>2. cell' = [cell EXCEPT ![v] = OutOfScope]
  BY <1>1, DestroyedFacts DEF Destroy
<1>3. born' = born \ {v} /\ UNCHANGED unex /\ last' = <<"done">>
  BY DEF Destroy
<1>4. born \subseteq Objects /\ cell \in [Objects -> Cell] /\ OutOfScope \in Cell
  BY DEF ExpectedInv, TypeOK, OutOfScope, Raw, Cell, Storage, Content
<1>5. \A x \in Objects : cell'[x] = IF x = v THEN OutOfScope ELSE cell[x]
  BY <1>2, <1>4
<1>6. Wellformed'
  BY <1>3, <1>5 DEF ExpectedInv, Wellformed, OutOfScope, Raw
<1>7. View' = [View EXCEPT ![v] = <<"none">>]
  BY <1>3, <1>5 DEF View
<1>8. Errors' = Errors
  BY <1>3 DEF Errors
<1> QED
  BY <1>1, <1>2, <1>3, <1>4, <1>6, <1>7, <1>8
  DEF ExpectedInv, TypeOK, Promise!Drop, Promise!Set, Promise!None

(* emplace, moving the value out and writing through a reference: a sound  *)
(* cell is put in the place of a sound cell.                               *)
LEMMA ContentStep ==
  ASSUME ExpectedInv, NEW v \in Objects, NEW d \in Data,
         Emplace(v, d) \/ TakeValue(v) \/ Write(v, d)
  PROVE  /\ ExpectedInv'
         /\ Promise!Emplace(v, d) \/ Promise!Take(v) \/ Promise!Write(v, d)
<1>1. /\ v \in born /\ Sound(cell[v]) /\ v \in Promise!Live
      /\ View[v] = <<Alternative(cell[v].has_value), cell[v].contained.data>>
      /\ cell[v].contained.data \in Content
  BY ViewFacts DEF Emplace, TakeValue, Write
<1>2. d \in Content /\ cell \in [Objects -> Cell]
  BY DEF Content, ExpectedInv, TypeOK
<1>3. /\ born' = born /\ unex' = unex /\ Errors' = Errors
      /\ born' = born \cup {v}
  BY <1>1 DEF Emplace, TakeValue, Write, Errors
<1>4. CASE Emplace(v, d)
  <2>1. /\ Sound(New(TRUE, d)) /\ New(TRUE, d).has_value = TRUE
        /\ New(TRUE, d).contained.data = d
    BY <1>2, NewFacts
  <2>2. cell' = [cell EXCEPT ![v] = New(TRUE, d)]
    BY <1>1, <1>4, <2>1, AssignedFacts DEF Emplace
  <2>3. last' = <<"returned", d>>
    BY <1>2, <1>4, <2>1, <2>2 DEF Emplace
  <2>4. /\ cell' \in [Objects -> Cell] /\ Wellformed'
        /\ View' = [View EXCEPT ![v] = <<"value", d>>]
    BY <1>1, <1>3, <2>1, <2>2, PutFacts DEF Alternative
  <2> QED
    BY <1>1, <1>2, <1>3, <2>3, <2>4 DEF ExpectedInv, TypeOK, Promise!Emplace
<1>5. CASE TakeValue(v)
  <2>1. /\ Sound(Moved(cell[v])) /\ Moved(cell[v]).has_value = cell[v].has_value
        /\ Moved(cell[v]).contained.data = Husk
    BY <1>1, MovedFacts
  <2>2. /\ cell' = [cell EXCEPT ![v] = Moved(cell[v])]
        /\ last' = <<"returned", cell[v].contained.data>>
        /\ Alternative(cell[v].has_value) = "value"
    BY <1>5 DEF TakeValue, Alternative
  <2>3. /\ cell' \in [Objects -> Cell] /\ Wellformed'
        /\ View' = [View EXCEPT ![v] = <<"value", Husk>>]
    BY <1>1, <1>3, <2>1, <2>2, PutFacts
  <2>4. View[v][1] = "value" /\ View[v][2] = cell[v].contained.data
    BY <1>1, <2>2
  <2> QED
    BY <1>1, <1>3, <2>2, <2>3, <2>4 DEF ExpectedInv, TypeOK, Promise!Take
<1>6. CASE Write(v, d)
  <2> DEFINE c == [cell[v] EXCEPT !.contained.data = d]
  <2>1. Sound(c) /\ c.has_value = cell[v].has_value /\ c.contained.data = d
    BY <1>1, <1>2, WriteFacts
  <2>2. cell' = [cell EXCEPT ![v] = c] /\ last' = <<"done">>
    BY <1>6 DEF Write
  <2> HIDE DEF c
  <2>3. /\ cell' \in [Objects -> Cell] /\ Wellformed'
        /\ View' = [View EXCEPT ![v] = <<Alternative(cell[v].has_value), d>>]
    BY <1>1, <1>3, <2>1, <2>2, PutFacts
  <2>4. View[v][1] = Alternative(cell[v].has_value)
    BY <1>1
  <2> QED
    BY <1>1, <1>3, <2>2, <2>3, <2>4
    DEF ExpectedInv, TypeOK, Promise!Write, Promise!Set
<1> QED
  BY <1>4, <1>5, <1>6

(* A failed copy, and every observer that only looks.                      *)
LEMMA LookStep ==
  ASSUME ExpectedInv, NEW v \in Objects, NEW d \in Data,
         BadAlloc(v) \/ HasValue(v) \/ Value(v) \/ Dereference(v) \/ Error(v)
           \/ ValueOr(v, d)
  PROVE  ExpectedInv' /\ Promise!Look(v, d)
<1>1. UNCHANGED <<born, cell, unex>>
  BY DEF BadAlloc, HasValue, Value, Dereference, Error, ValueOr, Observe
<1>2. View' = View /\ Errors' = Errors
  BY <1>1 DEF View, Errors
<1>3. CASE BadAlloc(v)
  BY <1>1, <1>2, <1>3
  DEF BadAlloc, ExpectedInv, TypeOK, Wellformed, Promise!Look
<1>4. CASE HasValue(v) \/ Value(v) \/ Dereference(v) \/ Error(v) \/ ValueOr(v, d)
  <2>1. v \in born
    BY <1>4 DEF HasValue, Value, Dereference, Error, ValueOr, Observe
  <2>2. /\ View[v] = <<Alternative(cell[v].has_value), cell[v].contained.data>>
        /\ v \in Promise!Live
        /\ cell[v].has_value \in BOOLEAN
        /\ cell[v].contained.data \in Content
    BY <2>1, ViewFacts
  <2>3. d \in Content
    BY DEF Content
  <2>4. View[v][2] = cell[v].contained.data
    BY <2>2
  <2>5. CASE cell[v].has_value = TRUE
    <3>1. View[v][1] = "value"
      BY <2>2, <2>5 DEF Alternative
    <3>2. last' \in {<<"is", "value">>, <<"returned", cell[v].contained.data>>,
                     <<"assert", "error">>}
      BY <1>4, <2>5
      DEF HasValue, Value, Dereference, Error, ValueOr, Observe, Alternative
    <3>3. ExpectedInv'
      BY <1>1, <2>2, <3>2 DEF ExpectedInv, TypeOK, Wellformed
    <3> QED
      BY <1>2, <2>2, <2>4, <3>1, <3>2, <3>3 DEF Promise!Look
  <2>6. CASE cell[v].has_value = FALSE
    <3>1. View[v][1] = "error"
      BY <2>2, <2>6 DEF Alternative
    <3>2. last' \in {<<"is", "error">>, <<"threw", cell[v].contained.data>>,
                     <<"error", cell[v].contained.data>>, <<"returned", d>>,
                     <<"assert", "value">>}
      BY <1>4, <2>6
      DEF HasValue, Value, Dereference, Error, ValueOr, Observe, Alternative
    <3>3. ExpectedInv'
      BY <1>1, <2>2, <2>3, <3>2 DEF ExpectedInv, TypeOK, Wellformed
    <3>4. "error" # "value"
      OBVIOUS
    <3> QED
      BY <1>2, <2>2, <2>4, <3>1, <3>2, <3>3, <3>4 DEF Promise!Look
  <2> QED
    BY <2>2, <2>5, <2>6
<1> QED
  BY <1>3, <1>4

(* An error goes from an unexpected_type to a variable.                    *)
LEMMA FromUnexpectedStep ==
  ASSUME ExpectedInv, NEW v \in Objects, NEW u \in Unexpecteds,
         NEW moved \in BOOLEAN,
         ConstructUnexpected(v, u, moved) \/ AssignUnexpected(v, u, moved)
  PROVE  ExpectedInv' /\ (Promise!FromError(v, u) \/ Promise!MoveError(v, u))
<1>1. unex[u] # <<>>
  BY DEF ConstructUnexpected, AssignUnexpected
<1>2. /\ unex[u][1] \in Content /\ Errors[u] = <<"error", unex[u][1]>>
      /\ Errors[u] # Promise!None
  BY <1>1, ErrorFacts
<1>3. /\ born' \subseteq Objects /\ cell' \in [Objects -> Cell]
      /\ Wellformed' /\ last' = <<"done">>
      /\ View' = [View EXCEPT ![v] = <<"error", unex[u][1]>>]
  BY <1>2, FreshStep DEF ConstructUnexpected, AssignUnexpected, Alternative
<1>4. Errors[u][2] = unex[u][1]
  BY <1>2
<1>5. CASE moved = TRUE
  <2>1. unex' = [unex EXCEPT ![u] = <<Husk>>]
    BY <1>5 DEF ConstructUnexpected, AssignUnexpected
  <2>2. /\ unex' \in [Unexpecteds -> {<<>>} \cup {<<e>> : e \in Content}]
        /\ Errors' = [Errors EXCEPT ![u] = <<"error", Husk>>]
    BY <2>1, UnexFacts DEF Content
  <2> QED
    BY <1>2, <1>3, <1>4, <2>2 DEF ExpectedInv, TypeOK, Promise!MoveError
<1>6. CASE moved = FALSE
  <2>1. unex' = unex /\ Errors' = Errors
    BY <1>6 DEF ConstructUnexpected, AssignUnexpected, Errors
  <2> QED
    BY <1>2, <1>3, <1>4, <2>1
    DEF ExpectedInv, TypeOK, Promise!FromError, Promise!Set
<1> QED
  BY <1>5, <1>6

(* make_unexpected and get_unexpected                                      *)
LEMMA ToUnexpectedStep ==
  ASSUME ExpectedInv, NEW u \in Unexpecteds,
         \/ \E d \in Data : MakeUnexpected(u, d)
         \/ \E v \in Objects : GetUnexpected(v, u)
  PROVE  ExpectedInv' /\ Promise!SetError(u)
<1>1. /\ UNCHANGED <<born, cell>> /\ last' = <<"done">>
      /\ View' = View
  BY DEF MakeUnexpected, GetUnexpected, View
<1>2. ASSUME NEW d \in Data, MakeUnexpected(u, d)
      PROVE  ExpectedInv' /\ Promise!SetError(u)
  <2>1. /\ unex' \in [Unexpecteds -> {<<>>} \cup {<<e>> : e \in Content}]
        /\ Errors' = [Errors EXCEPT ![u] = <<"error", d>>]
    BY <1>2, UnexFacts DEF MakeUnexpected, Content
  <2> QED
    BY <1>1, <2>1 DEF ExpectedInv, TypeOK, Wellformed, Promise!SetError
<1>3. ASSUME NEW v \in Objects, GetUnexpected(v, u)
      PROVE  ExpectedInv' /\ Promise!SetError(u)
  <2>1. v \in born /\ Alternative(cell[v].has_value) = "error"
    BY <1>3 DEF GetUnexpected, Alternative
  <2>2. /\ View[v] = <<"error", cell[v].contained.data>>
        /\ v \in Promise!Live /\ cell[v].contained.data \in Content
    BY <2>1, ViewFacts
  <2>3. /\ unex' \in [Unexpecteds -> {<<>>} \cup {<<e>> : e \in Content}]
        /\ Errors' = [Errors EXCEPT ![u] = <<"error", cell[v].contained.data>>]
    BY <1>3, <2>2, UnexFacts DEF GetUnexpected
  <2>4. View[v][1] = "error"
    BY <2>2
  <2> QED
    BY <1>1, <2>2, <2>3, <2>4 DEF ExpectedInv, TypeOK, Wellformed, Promise!SetError
<1> QED
  BY <1>2, <1>3

-----------------------------------------------------------------------------
(* Every step keeps the variables well formed and is a step of Outcome or  *)
(* no step of it.                                                          *)
LEMMA NextFacts ==
  ASSUME ExpectedInv, Next
  PROVE  ExpectedInv' /\ Promise!Next
<1>1. last[1] # "assert"
  BY DEF Next
<1>2. ASSUME NEW v \in Objects, BadAlloc(v)
      PROVE  ExpectedInv' /\ Promise!Next
  <2>1. Default \in Data
    BY ExpectedAssumption
  <2>2. ExpectedInv' /\ Promise!Look(v, Default)
    BY <1>2, <2>1, LookStep
  <2> QED
    BY <1>1, <2>1, <2>2 DEF Promise!Next
<1>3. ASSUME NEW v \in Objects, OfOne(v)
      PROVE  ExpectedInv' /\ Promise!Next
  <2>1. CASE ConstructDefault(v)
    <3>1. Default \in Data /\ Default \in Content
      BY ExpectedAssumption DEF Content
    <3>2. /\ born' \subseteq Objects /\ cell' \in [Objects -> Cell]
          /\ Wellformed' /\ last' = <<"done">>
          /\ View' = [View EXCEPT ![v] = <<"value", Default>>]
      BY <2>1, <3>1, FreshStep DEF ConstructDefault, Alternative
    <3>3. unex' = unex /\ Errors' = Errors
      BY <2>1 DEF ConstructDefault, Errors
    <3>4. ExpectedInv' /\ Promise!Place(v, Default)
      BY <3>2, <3>3 DEF ExpectedInv, TypeOK, Promise!Place, Promise!Set
    <3> QED
      BY <1>1, <3>1, <3>4 DEF Promise!Next
  <2>2. CASE Destroy(v)
    BY <1>1, <2>2, DestroyStep DEF Promise!Next
  <2>3. CASE HasValue(v) \/ Value(v) \/ Dereference(v) \/ Error(v)
    <3>1. Default \in Data
      BY ExpectedAssumption
    <3>2. ExpectedInv' /\ Promise!Look(v, Default)
      BY <2>3, <3>1, LookStep
    <3> QED
      BY <1>1, <3>1, <3>2 DEF Promise!Next
  <2>4. CASE TakeValue(v)
    <3>1. Default \in Data
      BY ExpectedAssumption
    <3>2. /\ ExpectedInv'
          /\ Promise!Emplace(v, Default) \/ Promise!Take(v) \/ Promise!Write(v, Default)
      BY <2>4, <3>1, ContentStep
    <3> QED
      BY <1>1, <3>1, <3>2 DEF Promise!Next
  <2> QED
    BY <1>3, <1>2, <2>1, <2>2, <2>3, <2>4 DEF OfOne
<1>4. ASSUME NEW v \in Objects, NEW d \in Data, WithData(v, d)
      PROVE  ExpectedInv' /\ Promise!Next
  <2>1. d \in Content
    BY DEF Content
  <2>2. CASE ConstructValue(v, d) \/ ConstructError(v, d) \/ AssignValue(v, d)
    <3>1. /\ born' \subseteq Objects /\ cell' \in [Objects -> Cell]
          /\ Wellformed' /\ last' = <<"done">>
          /\ \/ View' = [View EXCEPT ![v] = <<"value", d>>]
             \/ View' = [View EXCEPT ![v] = <<"error", d>>]
      BY <2>1, <2>2, FreshStep
      DEF ConstructValue, ConstructError, AssignValue, Alternative
    <3>2. unex' = unex /\ Errors' = Errors
      BY <2>2 DEF ConstructValue, ConstructError, AssignValue, Errors
    <3>3. ExpectedInv' /\ Promise!Place(v, d)
      BY <3>1, <3>2 DEF ExpectedInv, TypeOK, Promise!Place, Promise!Set
    <3> QED
      BY <1>1, <3>3 DEF Promise!Next
  <2>3. CASE Emplace(v, d) \/ Write(v, d)
    <3>1. /\ ExpectedInv'
          /\ Promise!Emplace(v, d) \/ Promise!Take(v) \/ Promise!Write(v, d)
      BY <2>3, ContentStep
    <3> QED
      BY <1>1, <3>1 DEF Promise!Next
  <2>4. CASE ValueOr(v, d)
    <3>1. ExpectedInv' /\ Promise!Look(v, d)
      BY <2>4, LookStep
    <3> QED
      BY <1>1, <3>1 DEF Promise!Next
  <2> QED
    BY <1>4, <2>2, <2>3, <2>4 DEF WithData
<1>5. ASSUME NEW v \in Objects, NEW w \in Objects, OfTwo(v, w)
      PROVE  ExpectedInv' /\ Promise!Next
  <2>1. CASE ConstructCopy(v, w) \/ AssignCopy(v, w)
    <3>1. ExpectedInv' /\ (Promise!CopyFrom(v, w) \/ BadAlloc(v))
      BY <2>1, CopyStep
    <3> QED
      BY <1>1, <1>2, <3>1 DEF Promise!Next
  <2>2. CASE ConstructMove(v, w) \/ AssignMove(v, w)
    BY <1>1, <2>2, MoveStep DEF Promise!Next
  <2>3. CASE Exchange(v, w)
    BY <1>1, <2>3, ExchangeStep DEF Promise!Next
  <2> QED
    BY <1>5, <2>1, <2>2, <2>3 DEF OfTwo
<1>6. ASSUME NEW v \in Objects, NEW u \in Unexpecteds, WithUnexpected(v, u)
      PROVE  ExpectedInv' /\ Promise!Next
  <2>1. ASSUME NEW moved \in BOOLEAN,
               ConstructUnexpected(v, u, moved) \/ AssignUnexpected(v, u, moved)
        PROVE  ExpectedInv' /\ Promise!Next
    BY <1>1, <2>1, FromUnexpectedStep DEF Promise!Next
  <2>2. CASE GetUnexpected(v, u)
    BY <1>1, <2>2, ToUnexpectedStep DEF Promise!Next
  <2> QED
    BY <1>6, <2>1, <2>2 DEF WithUnexpected
<1>7. ASSUME NEW u \in Unexpecteds, NEW d \in Data, MakeUnexpected(u, d)
      PROVE  ExpectedInv' /\ Promise!Next
  BY <1>1, <1>7, ToUnexpectedStep DEF Promise!Next
<1> QED
  BY <1>3, <1>4, <1>5, <1>6, <1>7 DEF Next

(* A step that changes nothing.                                            *)
LEMMA StutterFacts ==
  ASSUME ExpectedInv, UNCHANGED vars
  PROVE  ExpectedInv' /\ UNCHANGED Promise!vars
<1>1. UNCHANGED <<born, cell, unex, last>>
  BY DEF vars
<1>2. View' = View /\ Errors' = Errors
  BY <1>1 DEF View, Errors
<1> QED
  BY <1>1, <1>2 DEF ExpectedInv, TypeOK, Wellformed, Promise!vars

(* For any variables and contents: at every step exactly the alternative   *)
(* that has_value_ names is alive, and no operation constructs over a      *)
(* living object, destroys one twice or leaks one, exceptions and          *)
(* self-assignment included.                                               *)
THEOREM ExpectedSafe == Spec => [](TypeOK /\ Wellformed)
<1>1. Init => ExpectedInv
  BY InitFacts
<1>2. ExpectedInv /\ [Next]_vars => ExpectedInv'
  BY NextFacts, StutterFacts
<1> QED
  BY <1>1, <1>2, PTL DEF Spec, ExpectedInv

(* For any variables and contents: the flag and the union with its         *)
(* temporaries implement a variable that is a value or an error and whose  *)
(* operations happen as a whole or not at all.                             *)
THEOREM ExpectedRefinesOutcome == Spec => ExpectedImplementsOutcome
<1>1. Init => ExpectedInv /\ Promise!Init
  BY InitFacts
<1>2. ExpectedInv /\ [Next]_vars => ExpectedInv' /\ [Promise!Next]_(Promise!vars)
  BY NextFacts, StutterFacts
<1> QED
  BY <1>1, <1>2, PTL DEF Spec, ExpectedImplementsOutcome, Promise!Spec
=============================================================================
