---------------------------- MODULE ListenProofs ----------------------------
(* Theorems about Listen, for any number of listeners, threads, routing    *)
(* keys, requests and failures.                                            *)
EXTENDS Listen, DeferredProofs, SequenceTheorems

-----------------------------------------------------------------------------
(* Facts about the helpers of Listen                                       *)

Operations == {"declare", "bind", "consume"}

(* The one consume is the last operation of a call.                        *)
LEMMA SetupFacts ==
  /\ Setup \in Seq(Operations)
  /\ Len(Setup) = Keys + 2
  /\ \A i \in 1..(Keys + 2) : Setup[i] \in Operations
  /\ \A i \in 1..(Keys + 2) : Setup[i] = "consume" <=> i = Keys + 2
<1> DEFINE binds == [k \in 1..Keys |-> "bind"]
           front == <<"declare">> \o binds
<1>0. Keys \in Nat
  BY ListenAssumption
<1>1. binds \in Seq(Operations) /\ Len(binds) = Keys
  <2>1. binds \in [1..Keys -> Operations]
    BY DEF Operations
  <2>2. binds \in Seq(Operations)
    BY <1>0, <2>1, SeqDef
  <2> QED
    BY <1>0, <2>2, LenProperties
<1>2. \A i \in 1..Keys : binds[i] = "bind"
  OBVIOUS
<1> HIDE DEF binds
<1>3. /\ <<"declare">> \in Seq(Operations) /\ Len(<<"declare">>) = 1
      /\ <<"consume">> \in Seq(Operations) /\ Len(<<"consume">>) = 1
      /\ <<"declare">>[1] = "declare" /\ <<"consume">>[1] = "consume"
  BY DEF Operations
<1>4. /\ front \in Seq(Operations) /\ Len(front) = Keys + 1
      /\ \A i \in 1..(Keys + 1) : front[i] = IF i <= 1 THEN <<"declare">>[i] ELSE binds[i - 1]
  <2>1. /\ front \in Seq(Operations)
        /\ Len(front) = Len(<<"declare">>) + Len(binds)
        /\ \A i \in 1..(Len(<<"declare">>) + Len(binds)) :
             front[i] = IF i <= Len(<<"declare">>) THEN <<"declare">>[i]
                        ELSE binds[i - Len(<<"declare">>)]
    BY <1>1, <1>3, ConcatProperties
  <2> QED
    BY <1>0, <1>1, <1>3, <2>1
<1>5. \A i \in 1..(Keys + 1) : front[i] # "consume"
  <2> SUFFICES ASSUME NEW i \in 1..(Keys + 1) PROVE front[i] # "consume"
    OBVIOUS
  <2>1. CASE i <= 1
    <3>1. i = 1
      BY <1>0, <2>1
    <3> QED
      BY <1>3, <1>4, <2>1, <3>1
  <2>2. CASE ~(i <= 1)
    <3>1. i - 1 \in 1..Keys
      BY <1>0, <2>2
    <3> QED
      BY <1>2, <1>4, <2>2, <3>1
  <2> QED
    BY <2>1, <2>2
<1>6. Setup = front \o <<"consume">>
  BY DEF Setup, binds
<1> HIDE DEF front
<1>7. /\ Setup \in Seq(Operations)
      /\ Len(Setup) = Len(front) + Len(<<"consume">>)
      /\ \A i \in 1..(Len(front) + Len(<<"consume">>)) :
           Setup[i] = IF i <= Len(front) THEN front[i] ELSE <<"consume">>[i - Len(front)]
  BY <1>3, <1>4, <1>6, ConcatProperties
<1>8. Len(Setup) = Keys + 2
  BY <1>0, <1>3, <1>4, <1>7
<1>9. \A i \in 1..(Keys + 2) : Setup[i] \in Operations
  BY <1>7, <1>8, ElementOfSeq
<1>10. ASSUME NEW i \in 1..(Keys + 2), Setup[i] = "consume" PROVE i = Keys + 2
  <2> SUFFICES ASSUME i # Keys + 2 PROVE FALSE
    OBVIOUS
  <2>1. i \in 1..(Keys + 1) /\ i <= Len(front) /\ i \in 1..(Len(front) + Len(<<"consume">>))
    BY <1>0, <1>3, <1>4
  <2> QED
    BY <1>5, <1>7, <1>10, <2>1
<1>11. Setup[Keys + 2] = "consume"
  <2>1. /\ Keys + 2 \in 1..(Len(front) + Len(<<"consume">>)) /\ ~(Keys + 2 <= Len(front))
        /\ Keys + 2 - Len(front) = 1
    BY <1>0, <1>3, <1>4
  <2> QED
    BY <1>3, <1>7, <2>1
<1> QED
  BY <1>7, <1>8, <1>9, <1>10, <1>11


ObjectType == [Listeners -> DeferredType(Listeners)]

ChannelStates == {"none", "open", "closing", "failing", "refusing", "closed"}

(* What Collect makes of the objects and the channels.                     *)
LEMMA CollectFacts ==
  ASSUME NEW objects \in ObjectType, NEW channels, Collect(objects, channels)
  PROVE  /\ obj' \in ObjectType
         /\ \A o \in Listeners : obj'[o] \in {objects[o], Destroy(objects[o])}
         /\ \A o \in Listeners :
              Kept(o)' => obj'[o] = objects[o] /\ chan'[o] = channels[o]
         /\ \A o \in Listeners :
              obj'[o].life = "live" => obj'[o] = objects[o] /\ chan'[o] = channels[o]
         /\ \A o \in Listeners :
              \/ chan'[o] = channels[o]
              \/ channels[o] = "open" /\ chan'[o] = "closing"
         /\ channels \in [Listeners -> ChannelStates] =>
              chan' \in [Listeners -> ChannelStates]
<1>1. \A o \in Listeners : /\ objects[o] \in DeferredType(Listeners)
                           /\ Destroy(objects[o]) \in DeferredType(Listeners)
                           /\ Destroy(objects[o]).life = "freed"
  BY DestroyType, DestroyFacts DEF ObjectType
<1>2. /\ \A o \in Listeners :
           obj'[o] = IF objects[o].life = "live" /\ ~Kept(o)'
                     THEN Destroy(objects[o]) ELSE objects[o]
      /\ obj' = [o \in Listeners |-> obj'[o]]
  BY DEF Collect
<1>3. /\ \A o \in Listeners :
           chan'[o] = IF objects[o].life = "live" /\ ~Kept(o)' /\ channels[o] = "open"
                      THEN "closing" ELSE channels[o]
      /\ chan' = [o \in Listeners |-> chan'[o]]
  BY DEF Collect
<1>4. obj' \in ObjectType
  BY <1>1, <1>2 DEF ObjectType
<1>5. \A o \in Listeners : obj'[o] \in {objects[o], Destroy(objects[o])}
  BY <1>2
<1>6. \A o \in Listeners : Kept(o)' => obj'[o] = objects[o] /\ chan'[o] = channels[o]
  BY <1>2, <1>3
<1>7. \A o \in Listeners :
        obj'[o].life = "live" => obj'[o] = objects[o] /\ chan'[o] = channels[o]
  BY <1>1, <1>2, <1>3
<1>8. \A o \in Listeners :
        chan'[o] = channels[o] \/ (channels[o] = "open" /\ chan'[o] = "closing")
  BY <1>3
<1>9. ASSUME channels \in [Listeners -> ChannelStates]
      PROVE  chan' \in [Listeners -> ChannelStates]
  BY <1>3, <1>8, <1>9 DEF ChannelStates
<1> QED
  BY <1>4, <1>5, <1>6, <1>7, <1>8, <1>9

(* on_error was called.                                                    *)
Told(d) == \E e \in BrokerError : d.heard[e] > 0

(* What a callback may make of a listener's object: errors told stay told, *)
(* no handler of a living object is lost, and it is marked failed only     *)
(* with its on_error told.                                                 *)
Evolves(new, old) ==
  /\ \A e \in BrokerError : new.heard[e] >= old.heard[e]
  /\ new.life = "live" =>
       /\ old.life = "live"
       /\ new.on = old.on
       /\ new.failed = TRUE /\ old.on["error"] # Nobody => old.failed = TRUE \/ Told(new)

LEMMA ToldKept ==
  ASSUME NEW new \in DeferredType(Listeners), NEW old \in DeferredType(Listeners),
         Evolves(new, old), Told(old)
  PROVE  Told(new)
<1>1. PICK e \in BrokerError : old.heard[e] > 0
  BY DEF Told
<1>2. e \in Events
  BY DEF Events
<1>3. new.heard[e] \in Nat /\ old.heard[e] \in Nat
  BY <1>2 DEF DeferredType
<1>4. new.heard[e] > 0
  BY <1>1, <1>3 DEF Evolves
<1> QED
  BY <1>4 DEF Told

LEMMA ReportsEvolve ==
  ASSUME NEW d \in DeferredType(Listeners)
  PROVE  /\ Evolves(d, d)
         /\ Evolves(report_success(d), d)
         /\ Evolves(report_data(d), d)
         /\ \A code \in BrokerError : Evolves(report_error(d, code), d)
<1>1. \A e \in BrokerError : d.heard[e] \in Nat
  BY DEF DeferredType, Events
<1>2. Evolves(d, d)
  BY <1>1 DEF Evolves
<1>3. Evolves(report_success(d), d)
  <2>1. \A e \in BrokerError : report_success(d).heard[e] >= d.heard[e]
    BY <1>1, ErrorCounts
  <2> QED
    BY <2>1, ReportSuccessFacts, ReportSuccessOn DEF Evolves
<1>4. Evolves(report_data(d), d)
  <2>1. \A e \in BrokerError : report_data(d).heard[e] >= d.heard[e]
    BY <1>1, ErrorCounts
  <2> QED
    BY <2>1, ReportDataFacts DEF Evolves
<1>5. ASSUME NEW code \in BrokerError PROVE Evolves(report_error(d, code), d)
  <2>1. /\ report_error(d, code).life = d.life
        /\ report_error(d, code).on = d.on
        /\ \A f \in BrokerError : report_error(d, code).heard[f] >= d.heard[f]
        /\ d.on["error"] # Nobody => report_error(d, code).heard[code] > 0
    BY ReportErrorFacts
  <2> QED
    BY <2>1 DEF Evolves, Told
<1> QED
  BY <1>2, <1>3, <1>4, <1>5

LEMMA DestroyEvolves ==
  ASSUME NEW d \in DeferredType(Listeners), NEW old, Evolves(d, old)
  PROVE  Evolves(Destroy(d), old)
BY ErrorCounts, DestroyFacts DEF Evolves

LEMMA CollectEvolves ==
  ASSUME NEW objects \in ObjectType, NEW channels, Collect(objects, channels),
         \A o \in Listeners : Evolves(objects[o], obj[o])
  PROVE  \A o \in Listeners : Evolves(obj'[o], obj[o])
<1>1. \A o \in Listeners : obj'[o] \in {objects[o], Destroy(objects[o])}
  BY CollectFacts
<1>2. \A o \in Listeners : objects[o] \in DeferredType(Listeners)
  BY DEF ObjectType
<1>3. \A o \in Listeners : Evolves(Destroy(objects[o]), obj[o])
  BY <1>2, DestroyEvolves
<1> QED
  BY <1>1, <1>3

(* What the reports make of the object of a listener.                      *)
LEMMA ReportedFacts ==
  ASSUME TypeOK, NEW o \in Listeners
  PROVE  /\ obj[o] \in DeferredType(Listeners) /\ Evolves(obj[o], obj[o])
         /\ report_success(obj[o]) \in DeferredType(Listeners)
         /\ Evolves(report_success(obj[o]), obj[o])
         /\ report_success(obj[o]).life = obj[o].life
         /\ report_success(obj[o]).failed = FALSE
         /\ report_data(obj[o]) \in DeferredType(Listeners)
         /\ Evolves(report_data(obj[o]), obj[o])
         /\ report_data(obj[o]).life = obj[o].life
         /\ \A code \in BrokerError :
              /\ report_error(obj[o], code) \in DeferredType(Listeners)
              /\ Evolves(report_error(obj[o], code), obj[o])
              /\ report_error(obj[o], code).life = obj[o].life
<1>1. obj[o] \in DeferredType(Listeners)
  BY DEF TypeOK
<1>2. \A code \in BrokerError :
        /\ report_error(obj[o], code) \in DeferredType(Listeners)
        /\ Evolves(report_error(obj[o], code), obj[o])
        /\ report_error(obj[o], code).life = obj[o].life
  BY <1>1, ReportErrorType, ReportErrorFacts, ReportsEvolve
<1> QED
  BY <1>1, <1>2, ReportSuccessType, ReportSuccessFacts, ReportDataType, ReportDataFacts,
     ReportsEvolve

LEMMA TargetFacts ==
  ASSUME TypeOK, NEW l
  PROVE  /\ Target(l) \in Listeners \cup {Nobody}
         /\ Target(l) # Nobody => Target(l) \in listeners /\ id[Target(l)] = id[l]
BY ListenAssumption DEF Target, Get, TypeOK

LEMMA DerefFacts ==
  ASSUME TypeOK, NEW l, NEW d, Deref(l, d), fault = "none",
         Target(l) # Nobody => d \in DeferredType(Listeners)
  PROVE  /\ obj' \in ObjectType
         /\ fault' \in {"none", "null"}
         /\ fault' = "null" <=> Target(l) = Nobody
         /\ Target(l) # Nobody => obj' = [obj EXCEPT ![Target(l)] = d]
         /\ Target(l) = Nobody => obj' = obj
<1>1. obj \in ObjectType
  BY DEF TypeOK, ObjectType
<1>2. CASE Target(l) = Nobody
  BY <1>1, <1>2 DEF Deref
<1>3. CASE Target(l) # Nobody
  <2>1. Target(l) \in Listeners /\ obj' = [obj EXCEPT ![Target(l)] = d] /\ fault' = "none"
    BY <1>3, TargetFacts DEF Deref
  <2> QED
    BY <1>1, <1>3, <2>1 DEF ObjectType
<1> QED
  BY <1>2, <1>3

LEMMA ReportFacts ==
  ASSUME TypeOK, NEW l, NEW code \in BrokerError, Report(l, code), fault = "none"
  PROVE  /\ obj' \in ObjectType
         /\ fault' \in {"none", "null"}
         /\ fault' = "null" <=> Target(l) = Nobody
         /\ Target(l) # Nobody =>
              obj' = [obj EXCEPT ![Target(l)] = report_error(obj[Target(l)], code)]
         /\ Target(l) = Nobody => obj' = obj
         /\ \A o \in Listeners : Evolves(obj'[o], obj[o])
<1>1. Target(l) # Nobody => report_error(obj[Target(l)], code) \in DeferredType(Listeners)
  BY TargetFacts, ReportErrorType DEF TypeOK
<1>2. /\ obj' \in ObjectType
      /\ fault' \in {"none", "null"}
      /\ fault' = "null" <=> Target(l) = Nobody
      /\ Target(l) # Nobody =>
           obj' = [obj EXCEPT ![Target(l)] = report_error(obj[Target(l)], code)]
      /\ Target(l) = Nobody => obj' = obj
  BY <1>1, DerefFacts DEF Report
<1>3. ASSUME NEW o \in Listeners PROVE Evolves(obj'[o], obj[o])
  <2>1. obj[o] \in DeferredType(Listeners) /\ obj \in ObjectType
    BY DEF TypeOK, ObjectType
  <2>2. obj'[o] = obj[o] \/ obj'[o] = report_error(obj[o], code)
    BY <1>2, <2>1 DEF ObjectType
  <2> QED
    BY <2>1, <2>2, ReportsEvolve
<1> QED
  BY <1>2, <1>3

(* The codes the callbacks report.                                         *)
LEMMA Codes ==
  {"QUEUE_DECLARATION", "QUEUE_BINDING", "QUEUE_CONSUMING", "CHANNEL_MESSAGE",
   "PUBLISH", "CONNECTION", "CONNECTION_LOST"} \subseteq BrokerError
BY DEF BrokerError

LEMMA ResetFacts ==
  ASSUME TypeOK, NEW t \in Threads
  PROVE  /\ ResetDeferred(t) \in [Threads -> Listeners \cup {Nobody}]
         /\ Connected(t) \subseteq Threads
BY DEF ResetDeferred, Connected, TypeOK

(* What the onError of an operation leaves behind.                         *)
LEMMA OnErrorFacts ==
  ASSUME TypeOK, NEW l, NEW op \in Operations, NEW t \in Threads, OnError(l, op, t),
         fault = "none"
  PROVE  /\ obj' \in ObjectType
         /\ chan' \in [Listeners -> ChannelStates]
         /\ slot' \in [Threads -> Listeners \cup {Nobody}]
         /\ connections' \subseteq Threads
         /\ op # "consume" => listeners' = listeners /\ slot' = slot /\ chan' = chan
         /\ op = "consume" => listeners' = listeners \ {Target(l)}
         /\ fault' \in {"none", "null"}
         /\ fault' = "null" <=> Target(l) = Nobody
         /\ \A o \in Listeners : Evolves(obj'[o], obj[o])
         /\ \A o \in Listeners : o \in listeners' /\ obj[o].life = "live" => obj'[o].life = "live"
         /\ \A o \in Listeners : chan'[o] = chan[o] \/ chan'[o] = "closing"
<1>0. /\ Nobody \notin listeners /\ obj \in ObjectType /\ chan \in [Listeners -> ChannelStates]
      /\ slot \in [Threads -> Listeners \cup {Nobody}] /\ connections \subseteq Threads
      /\ listeners \subseteq Listeners
      /\ \A o \in Listeners : obj[o] \in DeferredType(Listeners)
  BY ListenAssumption DEF TypeOK, ObjectType, ChannelStates
<1>1. CASE op # "consume"
  <2>1. PICK code \in BrokerError :
          Report(l, code) /\ UNCHANGED <<listeners, connections, slot, chan>>
    BY <1>1, Codes DEF OnError, Operations
  <2>2. /\ obj' \in ObjectType /\ fault' \in {"none", "null"}
        /\ fault' = "null" <=> Target(l) = Nobody
        /\ \A o \in Listeners : Evolves(obj'[o], obj[o])
        /\ \/ obj' = obj
           \/ obj' = [obj EXCEPT ![Target(l)] = report_error(obj[Target(l)], code)]
    BY <2>1, ReportFacts
  <2>3. \A o \in Listeners : obj'[o].life = obj[o].life
    BY <1>0, <2>2, ReportErrorFacts DEF ObjectType
  <2> QED
    BY <1>0, <1>1, <2>1, <2>2, <2>3
<1>2. CASE op = "consume"
  <2>1. ConsumeOnError(l, t)
    BY <1>2 DEF OnError
  <2>2. /\ slot' \in [Threads -> Listeners \cup {Nobody}] /\ connections' \subseteq Threads
    BY <2>1, ResetFacts DEF ConsumeOnError
  <2>3. CASE Target(l) = Nobody
    <3>1. fault' = "null" /\ UNCHANGED <<listeners, obj, chan>>
      BY <2>1, <2>3 DEF ConsumeOnError
    <3>2. \A o \in Listeners : Evolves(obj'[o], obj[o])
      BY <1>0, <3>1, ReportsEvolve
    <3> QED
      BY <1>0, <1>2, <2>2, <2>3, <3>1, <3>2
  <2>4. CASE Target(l) # Nobody
    <3> DEFINE objects == [obj EXCEPT ![Target(l)] = report_error(@, "QUEUE_CONSUMING")]
    <3>1. /\ listeners' = listeners \ {Target(l)}
          /\ Collect(objects, chan) /\ fault' = "none"
      BY <2>1, <2>4 DEF ConsumeOnError
    <3>2. Target(l) \in Listeners
      BY <2>4, TargetFacts
    <3>3. \A o \in Listeners :
            objects[o] \in {obj[o], report_error(obj[o], "QUEUE_CONSUMING")}
      BY <1>0, <3>2 DEF ObjectType
    <3>4. \A o \in Listeners : /\ objects[o] \in DeferredType(Listeners)
                               /\ Evolves(objects[o], obj[o])
                               /\ objects[o].life = obj[o].life
      BY <3>3, ReportedFacts, Codes
    <3>5. objects \in ObjectType
      BY <1>0, <3>4 DEF ObjectType
    <3> HIDE DEF objects
    <3>6. /\ obj' \in ObjectType /\ chan' \in [Listeners -> ChannelStates]
          /\ \A o \in Listeners : Kept(o)' => obj'[o] = objects[o]
          /\ \A o \in Listeners : chan'[o] = chan[o] \/ chan'[o] = "closing"
      BY <1>0, <3>1, <3>5, CollectFacts
    <3>7. \A o \in Listeners : Evolves(obj'[o], obj[o])
      BY <3>1, <3>4, <3>5, CollectEvolves
    <3>8. \A o \in Listeners : o \in listeners' => Kept(o)'
      BY DEF Kept
    <3> QED
      BY <1>2, <2>2, <2>4, <3>1, <3>4, <3>6, <3>7, <3>8
  <2> QED
    BY <2>3, <2>4
<1> QED
  BY <1>1, <1>2

-----------------------------------------------------------------------------
(* Types                                                                   *)

(* A call issues its operations in state "issue", on an object it has got. *)
CallsInRange ==
  \A l \in Listeners :
    /\ pc[l] \in {"idle", "incr", "set", "get"} => issued[l] = 0
    /\ pc[l] = "issue" => issued[l] < Keys + 2
    /\ pc[l] \in {"issue", "chain", "done"} => ref[l] \in Listeners

TypeInv == TypeOK /\ CallsInRange

LEMMA InitType == Init => TypeInv
<1> SUFFICES ASSUME Init PROVE TypeInv
  OBVIOUS
<1> USE ListenAssumption
<1>1. obj \in [Listeners -> DeferredType(Listeners)]
  BY UnbornType DEF Init
<1>2. pending \in [Listeners -> Seq(Operation)]
  BY EmptySeq DEF Init
<1>3. issued \in [Listeners -> 0..(Keys + 2)] /\ CallsInRange
  BY DEF Init, CallsInRange
<1>4. n \in Nat \ {0} /\ id \in [Listeners -> Nat]
  BY DEF Init
<1> QED
  BY <1>1, <1>2, <1>3, <1>4 DEF Init, TypeOK, TypeInv

(* The oldest operation of a channel, and what is left when it is gone.    *)
LEMMA HeadOperation ==
  ASSUME TypeOK, NEW o \in Listeners, pending[o] # <<>>
  PROVE  /\ Head(pending[o]) \in Operation
         /\ Head(pending[o]).op \in Operations /\ Head(pending[o]).req \in Listeners
         /\ Tail(pending[o]) \in Seq(Operation)
<1>1. pending[o] \in Seq(Operation)
  BY DEF TypeOK
<1>2. Head(pending[o]) \in Operation /\ Tail(pending[o]) \in Seq(Operation)
  BY <1>1, HeadTailProperties
<1> QED
  BY <1>2 DEF Operation, Operations

(* The last operation issued by a call.                                    *)
LEMMA IssuedOperation ==
  ASSUME TypeInv, NEW l \in Listeners, IssueNext(l)
  PROVE  /\ pc[l] = "issue" /\ ref[l] \in Listeners
         /\ issued[l] + 1 \in 1..(Keys + 2) /\ issued'[l] = issued[l] + 1
         /\ issued' \in [Listeners -> 0..(Keys + 2)]
         /\ Setup[issued'[l]] \in Operations
         /\ Setup[issued'[l]] = "consume" <=> issued'[l] = Keys + 2
         /\ pc'[l] = IF issued'[l] = Keys + 2 THEN "chain" ELSE "issue"
         /\ \A k \in Listeners : k # l => pc'[k] = pc[k] /\ issued'[k] = issued[k]
<1>0. TypeOK /\ CallsInRange /\ Keys \in Nat
  BY ListenAssumption DEF TypeInv
<1>1. /\ pc[l] = "issue" /\ ref[l] \in Listeners
      /\ issued[l] \in 0..(Keys + 2) /\ issued[l] < Keys + 2
  BY <1>0 DEF IssueNext, CallsInRange, TypeOK
<1>2. issued' = [issued EXCEPT ![l] = issued[l] + 1]
  BY DEF IssueNext
<1>3. issued[l] + 1 \in 1..(Keys + 2) /\ issued[l] + 1 \in 0..(Keys + 2)
  BY <1>0, <1>1
<1>4. issued'[l] = issued[l] + 1 /\ issued' \in [Listeners -> 0..(Keys + 2)]
  BY <1>0, <1>2, <1>3 DEF TypeOK
<1>5. /\ Setup[issued'[l]] \in Operations
      /\ Setup[issued'[l]] = "consume" <=> issued'[l] = Keys + 2
  BY <1>3, <1>4, SetupFacts
<1>6. pc'[l] = IF issued'[l] = Keys + 2 THEN "chain" ELSE "issue"
  BY <1>0, <1>1, SetupFacts DEF IssueNext, TypeOK
<1>7. \A k \in Listeners : k # l => pc'[k] = pc[k] /\ issued'[k] = issued[k]
  BY <1>0, <1>2 DEF IssueNext, TypeOK
<1> QED
  BY <1>1, <1>3, <1>4, <1>5, <1>6, <1>7

LEMMA ReplayTypes ==
  ASSUME TypeOK, NEW m \in Messages, DeleteReplay(m)
  PROVE  /\ replay' \in [Messages ->
                   {"none", "leaked", "held", "committed", "failing", "freed"}]
         /\ complete' \in [Messages -> {"unset", "set", "cleared", "called"}]
BY DEF DeleteReplay, TypeOK

(* Every action keeps the types.                                           *)
LEMMA StepType == TypeInv /\ [Next]_vars => TypeInv'
<1> SUFFICES ASSUME TypeInv, [Next]_vars PROVE TypeInv'
  OBVIOUS
<1> USE ListenAssumption
<1>0. TypeOK /\ CallsInRange
  BY DEF TypeInv
<1>a. CASE UNCHANGED vars
  BY <1>0, <1>a DEF vars, brokerVars, callerVars, libraryVars, replayVars, TypeInv, TypeOK,
     CallsInRange
<1>b. SUFFICES ASSUME fault = "none", Next PROVE TypeInv'
  BY <1>a DEF Next
<1> USE DEF brokerVars, callerVars, libraryVars, replayVars
<1>1. ASSUME NEW l \in Listeners, ReadId(l) PROVE TypeInv'
  <2>1. TypeOK'
    BY <1>0, <1>1 DEF ReadId, TypeOK
  <2>2. CallsInRange'
    BY <1>0, <1>1 DEF ReadId, TypeOK, CallsInRange
  <2> QED
    BY <2>1, <2>2 DEF TypeInv
<1>2. ASSUME NEW l \in Listeners, WriteId(l) PROVE TypeInv'
  <2>1. n' \in Nat \ {0}
    BY <1>0, <1>2 DEF WriteId, TypeOK
  <2>2. TypeOK'
    BY <1>0, <1>2, <2>1 DEF WriteId, TypeOK
  <2>3. CallsInRange'
    BY <1>0, <1>2 DEF WriteId, TypeOK, CallsInRange
  <2> QED
    BY <2>2, <2>3 DEF TypeInv
<1>3. ASSUME NEW l \in Listeners, SetListener(l) PROVE TypeInv'
  <2>1. PICK garbage \in BOOLEAN :
          Collect([obj EXCEPT ![l] = Construct(garbage)],
                  [chan EXCEPT ![l] = NewChannel(Caller[l])])
    BY <1>3 DEF SetListener
  <2>2. /\ [obj EXCEPT ![l] = Construct(garbage)] \in ObjectType
        /\ [chan EXCEPT ![l] = NewChannel(Caller[l])] \in [Listeners -> ChannelStates]
    BY <1>0, ConstructType DEF TypeOK, ObjectType, NewChannel, ChannelStates
  <2>3. obj' \in ObjectType /\ chan' \in [Listeners -> ChannelStates]
    BY <2>1, <2>2, CollectFacts
  <2>4. /\ listeners' \subseteq Listeners /\ connections' \subseteq Threads
        /\ pc' = [pc EXCEPT ![l] = "get"] /\ pc[l] = "set"
        /\ UNCHANGED <<n, slot, id, ref, issued, chained, running, pending, consuming,
                       strayed, lost, losing, msg, by, replayVars, fault>>
    BY <1>0, <1>3 DEF SetListener, Connected, TypeOK
  <2>5. TypeOK'
    BY <1>0, <2>3, <2>4 DEF TypeOK, ObjectType, ChannelStates
  <2>6. CallsInRange'
    BY <1>0, <2>4 DEF TypeOK, CallsInRange
  <2> QED
    BY <2>5, <2>6 DEF TypeInv
<1>4. ASSUME NEW l \in Listeners, GetListener(l) PROVE TypeInv'
  <2>1. UNCHANGED <<n, listeners, connections, id, issued, chained, running, pending,
                    consuming, strayed, lost, losing, msg, by, replayVars>>
          /\ pc[l] = "get"
    BY <1>4 DEF GetListener
  <2>2. CASE Target(l) = Nobody
    <3>1. fault' = "null" /\ UNCHANGED <<obj, slot, pc, ref, chan>>
      BY <1>4, <2>2 DEF GetListener
    <3> QED
      BY <1>0, <2>1, <3>1 DEF TypeInv, TypeOK, CallsInRange
  <2>3. CASE Target(l) # Nobody
    <3> DEFINE d == Target(l)
               objects == IF chan[d] = "open" THEN obj
                          ELSE [obj EXCEPT ![d] = report_error(@, "CHANNEL_MESSAGE")]
    <3>1. /\ ref' = [ref EXCEPT ![l] = d] /\ slot' = [slot EXCEPT ![Caller[l]] = d]
          /\ pc' = [pc EXCEPT ![l] = "issue"] /\ UNCHANGED fault
          /\ Collect(objects, chan)
      BY <1>4, <2>3 DEF GetListener
    <3>2. d \in Listeners
      BY <1>0, <2>3, TargetFacts
    <3>3. objects \in ObjectType
      BY <1>0, <3>2, ReportedFacts, Codes DEF TypeOK, ObjectType
    <3>4. obj' \in ObjectType /\ chan' \in [Listeners -> ChannelStates]
      BY <1>0, <3>1, <3>3, CollectFacts DEF TypeOK, ChannelStates
    <3> HIDE DEF objects, d
    <3>5. TypeOK'
      BY <1>0, <2>1, <3>1, <3>2, <3>4 DEF TypeOK, ObjectType, ChannelStates
    <3>6. CallsInRange'
      BY <1>0, <2>1, <3>1, <3>2 DEF TypeOK, CallsInRange
    <3> QED
      BY <3>5, <3>6 DEF TypeInv
  <2> QED
    BY <2>2, <2>3
<1>5. ASSUME NEW l \in Listeners, IssueNext(l) PROVE TypeInv'
  <2>1. /\ pc[l] = "issue" /\ ref[l] \in Listeners /\ Keys \in Nat
        /\ issued'[l] \in 1..(Keys + 2) /\ issued' \in [Listeners -> 0..(Keys + 2)]
        /\ Setup[issued'[l]] \in Operations
        /\ pc'[l] = IF issued'[l] = Keys + 2 THEN "chain" ELSE "issue"
        /\ \A k \in Listeners : k # l => pc'[k] = pc[k] /\ issued'[k] = issued[k]
    BY <1>5, IssuedOperation
  <2>2. UNCHANGED <<n, id, ref, chained, running, consuming, strayed, lost, losing, msg, by,
                    replayVars>>
    BY <1>5 DEF IssueNext
  <2>3. pc' \in [Listeners -> {"idle", "incr", "set", "get", "issue", "chain", "done"}]
    BY <1>0, <1>5 DEF IssueNext, TypeOK
  <2>4. /\ obj' \in ObjectType /\ chan' \in [Listeners -> ChannelStates]
        /\ slot' \in [Threads -> Listeners \cup {Nobody}] /\ connections' \subseteq Threads
        /\ listeners' \subseteq Listeners /\ fault' \in {"none", "null"}
        /\ pending' \in [Listeners -> Seq(Operation)]
    <3>1. CASE chan[ref[l]] = "open"
      <4> DEFINE new == [op |-> Setup[issued'[l]], req |-> l]
      <4>1. /\ pending' = [pending EXCEPT ![ref[l]] = Append(@, new)]
            /\ UNCHANGED <<listeners, connections, slot, fault>>
            /\ Collect(obj, chan)
        BY <1>5, <3>1 DEF IssueNext
      <4>2. new \in Operation
        BY <2>1 DEF Operation, Operations
      <4> HIDE DEF new
      <4>3. Append(pending[ref[l]], new) \in Seq(Operation)
        BY <1>0, <2>1, <4>2, AppendProperties DEF TypeOK
      <4>4. pending' \in [Listeners -> Seq(Operation)]
        BY <1>0, <4>1, <4>3 DEF TypeOK
      <4>5. obj \in ObjectType /\ chan \in [Listeners -> ChannelStates]
        BY <1>0 DEF TypeOK, ObjectType, ChannelStates
      <4>6. obj' \in ObjectType /\ chan' \in [Listeners -> ChannelStates]
        BY <4>1, <4>5, CollectFacts
      <4> QED
        BY <1>0, <1>b, <4>1, <4>4, <4>6 DEF TypeOK
    <3>2. CASE chan[ref[l]] # "open"
      <4>1. UNCHANGED pending /\ OnError(l, Setup[issued'[l]], Caller[l]) /\ Caller[l] \in Threads
        BY <1>5, <3>2 DEF IssueNext
      <4> DEFINE op == Setup[issued'[l]]
      <4>2. op \in Operations /\ OnError(l, op, Caller[l])
        BY <2>1, <4>1
      <4> HIDE DEF op
      <4>3. /\ obj' \in ObjectType /\ chan' \in [Listeners -> ChannelStates]
            /\ slot' \in [Threads -> Listeners \cup {Nobody}] /\ connections' \subseteq Threads
            /\ (listeners' = listeners \/ listeners' = listeners \ {Target(l)})
            /\ fault' \in {"none", "null"}
        BY <1>0, <1>b, <4>1, <4>2, OnErrorFacts
      <4> QED
        BY <1>0, <4>1, <4>3 DEF TypeOK
    <3> QED
      BY <3>1, <3>2
  <2>5. TypeOK'
    BY <1>0, <2>1, <2>2, <2>3, <2>4 DEF TypeOK, ObjectType, ChannelStates
  <2>6. CallsInRange'
    <3> SUFFICES ASSUME NEW k \in Listeners
                 PROVE /\ pc'[k] \in {"idle", "incr", "set", "get"} => issued'[k] = 0
                       /\ pc'[k] = "issue" => issued'[k] < Keys + 2
                       /\ pc'[k] \in {"issue", "chain", "done"} => ref'[k] \in Listeners
      BY DEF CallsInRange
    <3>1. CASE k = l
      BY <2>1, <2>2, <3>1
    <3>2. CASE k # l
      BY <1>0, <2>1, <2>2, <3>2 DEF CallsInRange
    <3> QED
      BY <3>1, <3>2
  <2> QED
    BY <2>5, <2>6 DEF TypeInv
<1>6. ASSUME NEW l \in Listeners, NEW h \in Chain, ChainHandler(l, h) PROVE TypeInv'
  <2>1. h \in Handlers /\ pc[l] = "chain" /\ ref[l] \in Listeners
    BY <1>0, <1>6 DEF ChainHandler, CallsInRange
  <2>2. obj' \in ObjectType /\ fault' \in {"none", "uaf"}
    <3> DEFINE d == SetHandler(obj[ref[l]], h, l)
    <3>1. d \in DeferredType(Listeners) /\ obj \in ObjectType
      BY <1>0, <2>1, SetHandlerType DEF TypeOK, ObjectType
    <3>2. obj' = obj \/ obj' = [obj EXCEPT ![ref[l]] = d]
      BY <1>6 DEF ChainHandler
    <3>3. fault' \in {"none", "uaf"}
      BY <1>6, <1>b DEF ChainHandler
    <3> HIDE DEF d
    <3> QED
      BY <2>1, <3>1, <3>2, <3>3 DEF ObjectType
  <2>3. /\ pc' \in [Listeners -> {"idle", "incr", "set", "get", "issue", "chain", "done"}]
        /\ pc'[l] \in {"chain", "done"} /\ \A k \in Listeners : k # l => pc'[k] = pc[k]
        /\ chained' \in [Listeners -> SUBSET Handlers]
    BY <1>0, <1>6, <2>1 DEF ChainHandler, TypeOK
  <2>4. UNCHANGED <<n, listeners, connections, slot, id, ref, issued, libraryVars, msg, by,
                    replayVars>>
    BY <1>6 DEF ChainHandler
  <2>5. TypeOK'
    BY <1>0, <2>2, <2>3, <2>4 DEF TypeOK, ObjectType
  <2>6. CallsInRange'
    BY <1>0, <2>1, <2>3, <2>4 DEF CallsInRange
  <2> QED
    BY <2>5, <2>6 DEF TypeInv
(* The steps of the loop leave the calls alone. *)
<1>7. ASSUME TypeOK', UNCHANGED <<pc, issued, ref>> PROVE TypeInv'
  BY <1>0, <1>7 DEF TypeInv, CallsInRange
<1>8. ASSUME Run PROVE TypeInv'
  BY <1>0, <1>7, <1>8 DEF Run, TypeOK
<1>9. ASSUME NEW o \in Listeners, NEW op, Accepted(o, op)
      PROVE  pending' \in [Listeners -> Seq(Operation)] /\ Head(pending[o]).req \in Listeners
  <2>1. pending' = [pending EXCEPT ![o] = Tail(@)] /\ pending[o] # <<>>
    BY <1>9 DEF Accepted
  <2> QED
    BY <1>0, <2>1, HeadOperation DEF TypeOK
<1>10. ASSUME NEW o \in Listeners, SetupOk(o) PROVE TypeInv'
  <2>1. pending' \in [Listeners -> Seq(Operation)]
    BY <1>9, <1>10 DEF SetupOk
  <2>2. TypeOK'
    BY <1>0, <1>10, <2>1 DEF SetupOk, TypeOK
  <2> QED
    BY <1>7, <1>10, <2>2 DEF SetupOk
<1>11. ASSUME NEW o \in Listeners, ConsumeOk(o) PROVE TypeInv'
  <2> DEFINE l == Head(pending[o]).req
  <2>1. pending' \in [Listeners -> Seq(Operation)] /\ l \in Listeners
    BY <1>9, <1>11 DEF ConsumeOk
  <2>2. /\ consuming' = [consuming EXCEPT ![o] = @ \cup {l}]
        /\ Deref(l, report_success(obj[Target(l)]))
    BY <1>11 DEF ConsumeOk
  <2>3. Target(l) # Nobody => report_success(obj[Target(l)]) \in DeferredType(Listeners)
    BY <1>0, TargetFacts, ReportedFacts
  <2> HIDE DEF l
  <2>4. obj' \in ObjectType /\ fault' \in {"none", "null"}
    BY <1>0, <1>b, <2>2, <2>3, DerefFacts
  <2>5. consuming' \in [Listeners -> SUBSET Listeners]
    BY <1>0, <2>1, <2>2 DEF TypeOK
  <2>6. TypeOK'
    BY <1>0, <1>11, <2>1, <2>4, <2>5 DEF ConsumeOk, TypeOK, ObjectType
  <2> QED
    BY <1>7, <1>11, <2>6 DEF ConsumeOk
<1>12. ASSUME NEW o \in Listeners, NEW op \in Operations, Rejected(o, op) PROVE TypeInv'
  <2> DEFINE l == Head(pending[o]).req
  <2>1. pending' = [pending EXCEPT ![o] = Tail(@)] /\ pending[o] # <<>>
          /\ OnError(l, op, LoopThread) /\ LoopThread \in Threads
    BY <1>12 DEF Rejected
  <2>2. pending' \in [Listeners -> Seq(Operation)]
    BY <1>0, <2>1, HeadOperation DEF TypeOK
  <2> HIDE DEF l
  <2>3. /\ obj' \in ObjectType /\ chan' \in [Listeners -> ChannelStates]
        /\ slot' \in [Threads -> Listeners \cup {Nobody}] /\ connections' \subseteq Threads
        /\ (listeners' = listeners \/ listeners' = listeners \ {Target(l)})
        /\ fault' \in {"none", "null"}
    BY <1>0, <1>b, <2>1, OnErrorFacts
  <2>4. TypeOK'
    BY <1>0, <1>12, <2>2, <2>3 DEF Rejected, TypeOK, ObjectType, ChannelStates
  <2> QED
    BY <1>7, <1>12, <2>4 DEF Rejected
<1>13. ASSUME NEW o \in Listeners, ChannelOnError(o) PROVE TypeInv'
  <2>1. obj' \in ObjectType /\ fault' \in {"none", "null"}
    <3>1. CASE obj[o].life = "live"
      BY <1>0, <1>b, <1>13, <3>1, ReportFacts, Codes DEF ChannelOnError
    <3>2. CASE obj[o].life # "live"
      BY <1>0, <1>b, <1>13, <3>2 DEF ChannelOnError, TypeOK, ObjectType
    <3> QED
      BY <3>1, <3>2
  <2>2. TypeOK'
    BY <1>0, <1>13, <2>1 DEF ChannelOnError, TypeOK, ObjectType
  <2> QED
    BY <1>7, <1>13, <2>2 DEF ChannelOnError
<1>14. ASSUME NEW o \in Listeners, ChannelClosed(o) \/ ChannelError(o) PROVE TypeInv'
  <2>1. /\ chan' = [chan EXCEPT ![o] = "closed"] \/ chan' = [chan EXCEPT ![o] = "failing"]
        /\ UNCHANGED <<brokerVars, callerVars, running, pending, consuming, strayed,
                       lost, losing, msg, by, replayVars, fault>>
    BY <1>14 DEF ChannelClosed, ChannelError
  <2>2. chan' \in [Listeners -> {"none", "open", "closing", "failing", "refusing", "closed"}]
    BY <1>0, <2>1 DEF TypeOK
  <2>3. TypeOK'
    BY <1>0, <2>1, <2>2 DEF TypeOK
  <2> QED
    BY <1>7, <2>1, <2>3
<1>15. ASSUME NEW o \in Listeners, NEW l \in Listeners, NEW m \in Messages, Arrives(o, l, m)
       PROVE  /\ by' \in [Messages -> Listeners \cup {Nobody}] /\ strayed' \subseteq Listeners
              /\ UNCHANGED <<n, callerVars, running, pending, consuming, lost, losing, committer>>
  BY <1>0, <1>15, TargetFacts DEF Arrives, TypeOK
<1>16. ASSUME NEW o \in Listeners, NEW l \in Listeners, NEW m \in Messages,
              ReceiveUndecodable(o, l, m)
       PROVE  TypeInv'
  <2>1. obj' \in ObjectType /\ fault' \in {"none", "null"}
    BY <1>0, <1>b, <1>16, ReportFacts, Codes DEF ReceiveUndecodable
  <2>2. /\ by' \in [Messages -> Listeners \cup {Nobody}] /\ strayed' \subseteq Listeners
        /\ UNCHANGED <<n, callerVars, running, pending, consuming, lost, losing, committer>>
    BY <1>15, <1>16 DEF ReceiveUndecodable
  <2>3. /\ msg' = [msg EXCEPT ![m] = "undecodable"]
        /\ UNCHANGED <<listeners, connections, slot, chan, replay, complete>>
    BY <1>16 DEF ReceiveUndecodable
  <2>4. TypeOK'
    BY <1>0, <2>1, <2>2, <2>3 DEF TypeOK, ObjectType
  <2> QED
    BY <1>7, <2>2, <2>4
<1>17. /\ ResetDeferred(LoopThread) \in [Threads -> Listeners \cup {Nobody}]
       /\ Connected(LoopThread) \subseteq Threads
  BY <1>0, ResetFacts
<1>18. ASSUME NEW d \in Listeners, Collect([obj EXCEPT ![d] = report_data(@)], chan)
       PROVE  obj' \in ObjectType /\ chan' \in [Listeners -> ChannelStates]
  <2> DEFINE objects == [obj EXCEPT ![d] = report_data(@)]
  <2>1. objects \in ObjectType /\ chan \in [Listeners -> ChannelStates]
    BY <1>0, ReportedFacts DEF TypeOK, ObjectType, ChannelStates
  <2>2. Collect(objects, chan)
    BY <1>18
  <2> HIDE DEF objects
  <2> QED
    BY <2>1, <2>2, CollectFacts
<1>19. ASSUME NEW o \in Listeners, NEW l \in Listeners, NEW m \in Messages,
              NEW watched \in BOOLEAN, Receive(o, l, m, watched)
       PROVE  TypeInv'
  <2>1. /\ by' \in [Messages -> Listeners \cup {Nobody}] /\ strayed' \subseteq Listeners
        /\ UNCHANGED <<n, callerVars, running, pending, consuming, lost, losing, committer>>
    BY <1>15, <1>19 DEF Receive
  <2>2. /\ slot' \in [Threads -> Listeners \cup {Nobody}] /\ connections' \subseteq Threads
        /\ UNCHANGED listeners
    BY <1>17, <1>19 DEF Receive
  <2>3. CASE Target(l) = Nobody
    <3>1. fault' = "null" /\ UNCHANGED <<obj, chan, msg, replay, complete>>
      BY <1>19, <2>3 DEF Receive
    <3>2. TypeOK'
      BY <1>0, <2>1, <2>2, <3>1 DEF TypeOK
    <3> QED
      BY <1>7, <2>1, <3>2
  <2>4. CASE Target(l) # Nobody
    <3>1. /\ Collect([obj EXCEPT ![Target(l)] = report_data(@)], chan)
          /\ msg' = [msg EXCEPT ![m] = IF Hears(Target(l)) THEN "handed" ELSE "dropped"]
          /\ replay' = [replay EXCEPT ![m] = IF Hears(Target(l)) THEN "held" ELSE "leaked"]
          /\ complete' = [complete EXCEPT
                            ![m] = IF Hears(Target(l)) /\ watched THEN "set" ELSE @]
          /\ UNCHANGED fault
      BY <1>19, <2>4 DEF Receive
    <3>2. obj' \in ObjectType /\ chan' \in [Listeners -> ChannelStates]
      BY <1>0, <1>18, <2>4, <3>1, TargetFacts
    <3>3. /\ msg' \in [Messages -> {"queued", "undecodable", "dropped", "handed"}]
          /\ replay' \in [Messages ->
                   {"none", "leaked", "held", "committed", "failing", "freed"}]
          /\ complete' \in [Messages -> {"unset", "set", "cleared", "called"}]
      BY <1>0, <3>1 DEF TypeOK
    <3>4. TypeOK'
      BY <1>0, <2>1, <2>2, <3>1, <3>2, <3>3 DEF TypeOK, ObjectType, ChannelStates
    <3> QED
      BY <1>7, <2>1, <3>4
  <2> QED
    BY <2>3, <2>4
<1>20. ASSUME NEW o \in Listeners, NEW l \in Listeners, NEW m \in Messages,
              ReceiveThrows(o, l, m)
       PROVE  TypeInv'
  <2>1. /\ by' \in [Messages -> Listeners \cup {Nobody}] /\ strayed' \subseteq Listeners
        /\ UNCHANGED <<n, callerVars, running, pending, consuming, lost, losing, committer>>
    BY <1>15, <1>20 DEF ReceiveThrows
  <2>2. /\ slot' \in [Threads -> Listeners \cup {Nobody}] /\ connections' \subseteq Threads
        /\ listeners' = listeners \ {Target(l)} /\ fault' = "abort" /\ UNCHANGED complete
        /\ msg' = [msg EXCEPT ![m] = "handed"] /\ replay' = [replay EXCEPT ![m] = "leaked"]
    BY <1>17, <1>20 DEF ReceiveThrows
  <2>3. obj' \in ObjectType /\ chan' \in [Listeners -> ChannelStates]
    BY <1>0, <1>18, <1>20, TargetFacts DEF ReceiveThrows
  <2>4. TypeOK'
    BY <1>0, <2>1, <2>2, <2>3 DEF TypeOK, ObjectType, ChannelStates
  <2> QED
    BY <1>7, <2>1, <2>4
<1>21. ASSUME NEW m \in Messages, NEW t \in Committers, Commit(m, t) PROVE TypeInv'
  <2>1. t \in Threads
    OBVIOUS
  <2>2. complete' \in [Messages -> {"unset", "set", "cleared", "called"}]
    BY <1>0, <1>21 DEF Commit, TypeOK
  <2>3. TypeOK'
    BY <1>0, <1>21, <2>1, <2>2 DEF Commit, Connected, TypeOK
  <2> QED
    BY <1>7, <1>21, <2>3 DEF Commit
<1>22. ASSUME NEW m \in Messages, NEW t \in Committers, CommitRefused(m, t) PROVE TypeInv'
  <2>1. t \in Threads
    OBVIOUS
  <2>2. /\ committer' = [committer EXCEPT ![m] = t]
        /\ UNCHANGED <<n, listeners, connections, slot, callerVars, libraryVars, msg, by>>
    BY <1>22 DEF CommitRefused
  <2>3. /\ obj' \in ObjectType /\ fault' \in {"null", "uaf"}
        /\ replay' \in [Messages ->
                   {"none", "leaked", "held", "committed", "failing", "freed"}]
        /\ complete' \in [Messages -> {"unset", "set", "cleared", "called"}]
    <3>1. CASE Target(by[m]) = Nobody
      BY <1>0, <1>22, <3>1 DEF CommitRefused, TypeOK, ObjectType
    <3>2. CASE Target(by[m]) # Nobody
      <4>1. /\ obj' = [obj EXCEPT ![Target(by[m])] =
                         report_error(obj[Target(by[m])], "PUBLISH")]
            /\ DeleteReplay(m) /\ fault' = "uaf"
        BY <1>22, <3>2 DEF CommitRefused
      <4>2. report_error(obj[Target(by[m])], "PUBLISH") \in DeferredType(Listeners)
        BY <1>0, <3>2, TargetFacts, ReportedFacts, Codes
      <4>3. obj' \in ObjectType
        BY <1>0, <4>1, <4>2 DEF TypeOK, ObjectType
      <4> QED
        BY <1>0, <4>1, <4>3, ReplayTypes
    <3> QED
      BY <3>1, <3>2
  <2>4. TypeOK'
    BY <1>0, <2>1, <2>2, <2>3 DEF TypeOK, ObjectType
  <2> QED
    BY <1>7, <2>2, <2>4
<1>23. ASSUME NEW m \in Messages, ClearComplete(m) \/ ReplyChannelError(m) PROVE TypeInv'
  <2>1. TypeOK'
    BY ZenonT(60), <1>0, <1>23 DEF ClearComplete, ReplyChannelError, TypeOK
  <2> QED
    BY <1>7, <1>23, <2>1 DEF ClearComplete, ReplyChannelError
<1>24. ASSUME NEW m \in Messages, TxOk(m) PROVE TypeInv'
  <2>1. TypeOK'
    BY <1>0, <1>24, ReplayTypes DEF TxOk, TypeOK
  <2> QED
    BY <1>7, <1>24, <2>1 DEF TxOk
<1>25. ASSUME NEW m \in Messages, TxError(m) PROVE TypeInv'
  <2>1. obj' \in ObjectType /\ fault' \in {"none", "null"}
    BY <1>0, <1>b, <1>25, ReportFacts, Codes DEF TxError
  <2>2. TypeOK'
    BY <1>0, <1>25, <2>1, ReplayTypes DEF TxError, TypeOK, ObjectType
  <2> QED
    BY <1>7, <1>25, <2>2 DEF TxError
<1>26. ASSUME NEW t \in Threads, ConnectionLost(t) PROVE TypeInv'
  <2>1. /\ lost' = lost \cup {t} /\ losing' = {t}
        /\ UNCHANGED <<brokerVars, callerVars, running, pending, consuming, strayed, msg, by,
                       committer, complete, fault>>
    BY <1>26 DEF ConnectionLost
  <2>2. chan' \in [Listeners -> {"none", "open", "closing", "failing", "refusing", "closed"}]
    BY <1>0, <1>26 DEF ConnectionLost, TypeOK
  <2>3. replay' \in [Messages -> {"none", "leaked", "held", "committed", "failing", "freed"}]
    BY <1>0, <1>26 DEF ConnectionLost, TypeOK
  <2>4. TypeOK'
    BY <1>0, <2>1, <2>2, <2>3 DEF TypeOK
  <2> QED
    BY <1>7, <2>1, <2>4
<1>27. ASSUME NEW t \in Threads, LossStep(t) PROVE TypeInv'
  <2>1. PICK code \in {"CONNECTION", "CONNECTION_LOST"} : OnLost(t, code)
    BY <1>27 DEF LossStep
  <2>2. obj' \in ObjectType
    <3>1. CASE slot[t] = Nobody
      BY <1>0, <2>1, <3>1 DEF OnLost, TypeOK, ObjectType
    <3>2. CASE slot[t] # Nobody
      <4>1. slot[t] \in Listeners
        BY <1>0, <3>2 DEF TypeOK
      <4>2. report_error(obj[slot[t]], code) \in DeferredType(Listeners)
        BY <1>0, <4>1, ReportedFacts, Codes
      <4> QED
        BY <1>0, <2>1, <3>2, <4>1, <4>2 DEF OnLost, TypeOK, ObjectType
    <3> QED
      BY <3>1, <3>2
  <2>3. TypeOK'
    BY <1>0, <2>1, <2>2 DEF OnLost, TypeOK, ObjectType
  <2> QED
    BY <1>7, <2>1, <2>3 DEF OnLost
<1> QED
  BY <1>1, <1>2, <1>3, <1>4, <1>5, <1>6, <1>8, <1>10, <1>11, <1>12, <1>13, <1>14, <1>16,
     <1>19, <1>20, <1>21, <1>22, <1>23, <1>24, <1>25, <1>26, <1>27, <1>b
  DEF Next, CallerStep, SetupStep, Delivery, ReplyStep, Operations

(* Every variable keeps its type, whatever fails and whoever calls.        *)
THEOREM TypeCorrect == Spec => []TypeOK
<1>1. TypeInv => TypeOK
  BY DEF TypeInv
<1> QED
  BY InitType, StepType, <1>1, PTL DEF Spec

-----------------------------------------------------------------------------
(* One calling thread                                                      *)

(* create_unique_id draws from one counter, so the theorems of this part   *)
(* ask that one thread makes all the calls that draw from it, those of     *)
(* fetch included.                                                         *)
OneCallerThread == \A k, l \in Listeners : Caller[k] = Caller[l]

(* The id a call has drawn is the counter's value until the increment is   *)
(* written, and smaller from then on.                                      *)
IdsDrawn ==
  \A l \in Listeners : /\ pc[l] = "incr" => id[l] = n
                       /\ pc[l] \notin {"idle", "incr"} => id[l] < n

OneBusy ==
  \A k, l \in Listeners :
    pc[k] \notin {"idle", "done"} /\ pc[l] \notin {"idle", "done"} => k = l

IdsUnique ==
  \A k, l \in Listeners :
    pc[k] # "idle" /\ pc[l] # "idle" /\ id[k] = id[l] => k = l

CachedBegun == \A l \in listeners : pc[l] \in {"get", "issue", "chain", "done"}

OwnReference ==
  \A l \in Listeners : pc[l] \in {"issue", "chain", "done"} => ref[l] = l

CallInv == IdsDrawn /\ OneBusy /\ IdsUnique /\ CachedBegun /\ OwnReference

(* A callback finds the object of its own call or none.                    *)
LEMMA OwnTarget ==
  ASSUME TypeOK, CallInv, NEW l \in Listeners, pc[l] # "idle"
  PROVE  /\ l \in listeners => Target(l) = l
         /\ l \notin listeners => Target(l) = Nobody
<1>1. \A o \in listeners : id[o] = id[l] => o = l
  BY DEF TypeOK, CallInv, CachedBegun, IdsUnique
<1>2. CASE l \in listeners
  BY <1>1, <1>2 DEF Target, Get
<1>3. CASE l \notin listeners
  <2>1. ~ \E o \in listeners : id[o] = id[l]
    BY <1>1, <1>3
  <2> QED
    BY <1>3, <2>1 DEF Target, Get
<1> QED
  BY <1>2, <1>3

(* What is not a step of a caller leaves the calls as they are, and adds   *)
(* nothing to the cache.                                                   *)
LEMMA LoopFrame ==
  ASSUME TypeInv, fault = "none", Next
  PROVE  \/ \E l \in Listeners : CallerStep(l)
         \/ UNCHANGED <<n, pc, id, ref, issued, chained>> /\ listeners' \subseteq listeners
<1>0. TypeOK
  BY DEF TypeInv
<1> USE DEF brokerVars, callerVars, libraryVars, replayVars
<1> DEFINE Frame == UNCHANGED <<n, pc, id, ref, issued, chained>> /\ listeners' \subseteq listeners
<1>1. CASE Run
  BY <1>1 DEF Run
<1>2. ASSUME NEW o \in Listeners, SetupStep(o) \/ ChannelError(o) PROVE Frame
  <2>1. ASSUME NEW op \in {"declare", "bind", "consume"}, Rejected(o, op) PROVE Frame
    <3>1. /\ UNCHANGED <<n, callerVars>> /\ OnError(Head(pending[o]).req, op, LoopThread)
          /\ LoopThread \in Threads /\ op \in Operations
      BY <2>1, ListenAssumption DEF Rejected, Operations
    <3>2. listeners' = listeners \/ listeners' = listeners \ {Target(Head(pending[o]).req)}
      BY <1>0, <3>1, OnErrorFacts
    <3> QED
      BY <3>1, <3>2
  <2> QED
    BY <1>2, <2>1 DEF SetupStep, SetupOk, ConsumeOk, ChannelOnError, ChannelClosed, ChannelError
<1>3. ASSUME NEW m \in Messages, Delivery(m) PROVE Frame
  BY <1>3 DEF Delivery, ReceiveUndecodable, Receive, Arrives
<1>4. ASSUME NEW m \in Messages, ReplyStep(m) \/ ReplyChannelError(m) PROVE Frame
  BY <1>4 DEF ReplyStep, ClearComplete, TxOk, TxError, ReplyChannelError
<1>5. ASSUME NEW o \in Listeners, NEW l \in Listeners, NEW m \in Messages, ReceiveThrows(o, l, m)
      PROVE  Frame
  BY <1>5 DEF ReceiveThrows, Arrives
<1>6. ASSUME NEW m \in Messages, NEW t \in Committers, Commit(m, t) \/ CommitRefused(m, t)
      PROVE  Frame
  BY <1>6 DEF Commit, CommitRefused
<1>7. ASSUME NEW t \in Threads, ConnectionLost(t) \/ LossStep(t) PROVE Frame
  BY <1>7 DEF ConnectionLost, LossStep, OnLost
<1> HIDE DEF Frame
<1>8. Frame => UNCHANGED <<n, pc, id, ref, issued, chained>> /\ listeners' \subseteq listeners
  BY DEF Frame
<1>9. Run => Frame
  BY <1>1 DEF Frame, Run
<1> QED
  BY <1>2, <1>3, <1>4, <1>5, <1>6, <1>7, <1>8, <1>9 DEF Next

LEMMA InitCall == Init => CallInv
BY ListenAssumption
   DEF Init, CallInv, IdsDrawn, OneBusy, IdsUnique, CachedBegun, OwnReference

(* What the cache holds after a step of a caller.                          *)
LEMMA IssueListeners ==
  ASSUME TypeInv, fault = "none", NEW l \in Listeners, IssueNext(l)
  PROVE  /\ chan[ref[l]] = "open" \/ Setup[issued'[l]] # "consume" => listeners' = listeners
         /\ chan[ref[l]] # "open" /\ Setup[issued'[l]] = "consume" =>
              listeners' = listeners \ {Target(l)}
<1>1. CASE chan[ref[l]] = "open"
  BY <1>1 DEF IssueNext
<1>2. CASE chan[ref[l]] # "open"
  <2> DEFINE op == Setup[issued'[l]]
  <2>1. op \in Operations
    BY IssuedOperation
  <2>2. OnError(l, op, Caller[l]) /\ Caller[l] \in Threads
    BY <1>2, ListenAssumption DEF IssueNext
  <2> HIDE DEF op
  <2>3. /\ op # "consume" => listeners' = listeners
        /\ op = "consume" => listeners' = listeners \ {Target(l)}
    BY <2>1, <2>2, OnErrorFacts DEF TypeInv
  <2> QED
    BY <1>2, <2>3 DEF op
<1> QED
  BY <1>1, <1>2

LEMMA StepCall ==
  ASSUME OneCallerThread, TypeInv, CallInv, fault = "none", Next
  PROVE  CallInv'
<1> USE ListenAssumption
<1>0. TypeOK
  BY DEF TypeInv
<1>1. n \in Nat /\ \A l \in Listeners : id[l] \in Nat
  BY <1>0 DEF TypeOK
<1>2. CASE UNCHANGED <<n, pc, id, ref, issued, chained>> /\ listeners' \subseteq listeners
  BY <1>0, <1>2 DEF CallInv, IdsDrawn, OneBusy, IdsUnique, CachedBegun, OwnReference
<1> USE DEF brokerVars, callerVars, libraryVars, replayVars
<1>3. ASSUME NEW l \in Listeners, ReadId(l) PROVE CallInv'
  <2>1. /\ pc[l] = "idle" /\ \A k \in Listeners : pc[k] \in {"idle", "done"}
        /\ id' = [id EXCEPT ![l] = n] /\ pc' = [pc EXCEPT ![l] = "incr"]
        /\ UNCHANGED <<n, listeners, ref>>
    BY <1>3 DEF ReadId, OneCallerThread
  <2>2. /\ pc'[l] = "incr" /\ id'[l] = n
        /\ \A k \in Listeners : k # l => pc'[k] = pc[k] /\ id'[k] = id[k]
    BY <1>0, <2>1 DEF TypeOK
  <2>3. \A k \in Listeners : k # l /\ pc[k] # "idle" => id[k] < n
    BY <2>1 DEF CallInv, IdsDrawn
  <2>4. IdsDrawn' /\ OneBusy'
    BY <2>1, <2>2 DEF CallInv, IdsDrawn, OneBusy
  <2>5. IdsUnique'
    <3> SUFFICES ASSUME NEW j \in Listeners, NEW k \in Listeners, pc'[j] # "idle",
                        pc'[k] # "idle", id'[j] = id'[k]
                 PROVE  j = k
      BY DEF IdsUnique
    <3>1. \A i \in Listeners : i # l /\ pc'[i] # "idle" => id'[i] < n
      BY <2>2, <2>3
    <3> QED
      BY <1>1, <2>2, <3>1 DEF CallInv, IdsUnique
  <2>6. CachedBegun' /\ OwnReference'
    BY <1>0, <2>1, <2>2 DEF CallInv, CachedBegun, OwnReference, TypeOK
  <2> QED
    BY <2>4, <2>5, <2>6 DEF CallInv
<1>4. ASSUME NEW l \in Listeners, WriteId(l) PROVE CallInv'
  <2>1. /\ pc[l] = "incr" /\ n' = id[l] + 1 /\ id[l] = n
        /\ pc' = [pc EXCEPT ![l] = "set"] /\ UNCHANGED <<listeners, id, ref>>
    BY <1>4 DEF WriteId, CallInv, IdsDrawn
  <2>2. pc'[l] = "set" /\ \A k \in Listeners : k # l => pc'[k] = pc[k]
    BY <1>0, <2>1 DEF TypeOK
  <2>3. \A k \in Listeners : k # l => pc[k] \in {"idle", "done"}
    BY <1>0, <2>1 DEF CallInv, OneBusy, TypeOK
  <2>4. IdsDrawn'
    BY <1>1, <2>1, <2>2, <2>3 DEF CallInv, IdsDrawn
  <2>5. OneBusy' /\ IdsUnique'
    BY <2>1, <2>2, <2>3 DEF CallInv, OneBusy, IdsUnique
  <2>6. CachedBegun' /\ OwnReference'
    BY <1>0, <2>1, <2>2 DEF CallInv, CachedBegun, OwnReference, TypeOK
  <2> QED
    BY <2>4, <2>5, <2>6 DEF CallInv
(* From then on a call advances with its id. *)
<1>5. ASSUME NEW l \in Listeners, pc[l] \in {"set", "get", "issue", "chain"},
             pc'[l] \in {"get", "issue", "chain", "done"},
             \A k \in Listeners : k # l => pc'[k] = pc[k],
             UNCHANGED <<n, id>>, listeners' \subseteq listeners \cup {l},
             \A k \in Listeners : k # l => ref'[k] = ref[k],
             pc'[l] \in {"issue", "chain", "done"} => ref'[l] = l
      PROVE  CallInv'
  <2>1. IdsDrawn' /\ IdsUnique' /\ OneBusy'
    BY <1>5 DEF CallInv, IdsDrawn, OneBusy, IdsUnique
  <2>2. CachedBegun' /\ OwnReference'
    BY <1>0, <1>5 DEF CallInv, CachedBegun, OwnReference, TypeOK
  <2> QED
    BY <2>1, <2>2 DEF CallInv
<1>6. ASSUME NEW l \in Listeners, SetListener(l) PROVE CallInv'
  <2>1. /\ pc[l] = "set" /\ pc' = [pc EXCEPT ![l] = "get"] /\ UNCHANGED <<n, id, ref>>
        /\ listeners' = (listeners \ {Target(l)}) \cup {l}
    BY <1>6 DEF SetListener
  <2>2. pc'[l] = "get" /\ \A k \in Listeners : k # l => pc'[k] = pc[k]
    BY <1>0, <2>1 DEF TypeOK
  <2> QED
    BY <1>5, <2>1, <2>2
<1>7. ASSUME NEW l \in Listeners, GetListener(l) PROVE CallInv'
  <2>1. pc[l] = "get" /\ UNCHANGED <<n, id, listeners>>
    BY <1>7 DEF GetListener
  <2>2. CASE Target(l) = Nobody
    BY <1>0, <1>7, <2>1, <2>2
    DEF GetListener, CallInv, IdsDrawn, OneBusy, IdsUnique, CachedBegun, OwnReference
  <2>3. CASE Target(l) # Nobody
    <3>1. Target(l) = l
      BY <1>0, <2>1, <2>3, OwnTarget
    <3>2. ref' = [ref EXCEPT ![l] = l] /\ pc' = [pc EXCEPT ![l] = "issue"]
      BY <1>7, <2>3, <3>1 DEF GetListener
    <3>3. /\ pc'[l] = "issue" /\ ref'[l] = l
          /\ \A k \in Listeners : k # l => pc'[k] = pc[k] /\ ref'[k] = ref[k]
      BY <1>0, <3>2 DEF TypeOK
    <3> QED
      BY <1>5, <2>1, <3>3
  <2> QED
    BY <2>2, <2>3
<1>8. ASSUME NEW l \in Listeners, IssueNext(l) PROVE CallInv'
  <2>1. /\ pc[l] = "issue" /\ pc'[l] \in {"issue", "chain"}
        /\ \A k \in Listeners : k # l => pc'[k] = pc[k]
    BY <1>8, IssuedOperation
  <2>2. UNCHANGED <<n, id, ref>> /\ listeners' \subseteq listeners
    BY <1>8, IssueListeners DEF IssueNext
  <2>3. ref[l] = l
    BY <2>1 DEF CallInv, OwnReference
  <2> QED
    BY <1>5, <2>1, <2>2, <2>3
<1>9. ASSUME NEW l \in Listeners, NEW h \in Chain, ChainHandler(l, h) PROVE CallInv'
  <2>1. /\ pc[l] = "chain" /\ UNCHANGED <<n, id, ref, listeners>>
        /\ pc'[l] \in {"chain", "done"} /\ \A k \in Listeners : k # l => pc'[k] = pc[k]
    BY <1>0, <1>9 DEF ChainHandler, TypeOK
  <2>2. ref[l] = l
    BY <2>1 DEF CallInv, OwnReference
  <2> QED
    BY <1>5, <2>1, <2>2
<1> QED
  BY <1>2, <1>3, <1>4, <1>6, <1>7, <1>8, <1>9, LoopFrame DEF CallerStep

-----------------------------------------------------------------------------
(* The setup of a listener                                                 *)

(* Call o is still to issue its consume, or to hear of it.                 *)
Awaits(o) ==
  \/ pc[o] \in {"get", "issue"}
  \/ \E i \in 1..Len(pending[o]) : pending[o][i].op = "consume"

(* A channel carries the operations of its own call, the consume last; the *)
(* object is in the cache until the consume is answered, and stays there   *)
(* if it was confirmed.                                                    *)
Line(o) ==
  /\ \A i \in 1..Len(pending[o]) :
       /\ pending[o][i].req = o
       /\ pending[o][i].op = "consume" =>
            i = Len(pending[o]) /\ pc[o] \in {"chain", "done"}
  /\ consuming[o] \subseteq {o}
  /\ pc[o] \in {"idle", "incr", "set", "get"} => pending[o] = <<>> /\ consuming[o] = {}
  /\ Awaits(o) => o \in listeners /\ consuming[o] = {}
  /\ o \in consuming[o] => o \in listeners /\ pc[o] \in {"chain", "done"}

(* A replay belongs to a listener that was confirmed.                      *)
ReplayConfirmed ==
  \A m \in Messages : replay[m] # "none" =>
    by[m] \in Listeners /\ by[m] \in consuming[by[m]]

Established == (\A o \in Listeners : Line(o)) /\ ReplayConfirmed

SetupInv == TypeInv /\ CallInv /\ (fault = "abort" \/ Established)

LEMMA InitSetup == Init => SetupInv
<1> SUFFICES ASSUME Init PROVE SetupInv
  OBVIOUS
<1>1. ASSUME NEW o \in Listeners PROVE Line(o)
  <2>1. pending[o] = <<>> /\ Len(pending[o]) = 0 /\ consuming[o] = {} /\ pc[o] = "idle"
    BY DEF Init
  <2> QED
    BY <2>1 DEF Line, Awaits
<1>2. ReplayConfirmed
  BY DEF Init, ReplayConfirmed
<1> QED
  BY <1>1, <1>2, InitType, InitCall DEF SetupInv, Established

(* A step that touches nothing of a listener.                              *)
LEMMA LineFrame ==
  ASSUME NEW o \in Listeners, Line(o), pending'[o] = pending[o], pc'[o] = pc[o],
         consuming'[o] = consuming[o], o \in listeners' <=> o \in listeners
  PROVE  Line(o)'
BY DEF Line, Awaits

(* The oldest operation of a channel is answered.                          *)
LEMMA HeadLine ==
  ASSUME TypeOK, NEW o \in Listeners, Line(o), pending[o] # <<>>
  PROVE  /\ Head(pending[o]).req = o
         /\ Head(pending[o]).op = "consume" => Awaits(o) /\ Tail(pending[o]) = <<>>
         /\ pc[o] \in {"issue", "chain", "done"}
         /\ \A i \in 1..Len(Tail(pending[o])) :
              /\ Tail(pending[o])[i].req = o
              /\ Tail(pending[o])[i].op = "consume" =>
                   i = Len(Tail(pending[o])) /\ pc[o] \in {"chain", "done"} /\ Awaits(o)
<1> DEFINE s == pending[o]
           t == Tail(s)
<1>1. s \in Seq(Operation) /\ s # <<>>
  BY DEF TypeOK
<1>2. /\ t \in Seq(Operation) /\ Len(s) \in Nat \ {0} /\ Len(t) = Len(s) - 1
      /\ Head(s) = s[1] /\ \A i \in 1..Len(t) : t[i] = s[i + 1]
  BY <1>1, HeadTailProperties, LenProperties, EmptySeq
<1>3. \A i \in 1..Len(s) :
        /\ s[i].req = o
        /\ s[i].op = "consume" => i = Len(s) /\ pc[o] \in {"chain", "done"} /\ Awaits(o)
  BY DEF Line, Awaits
<1>4. pc[o] \in {"issue", "chain", "done"}
  BY DEF Line, TypeOK
<1> HIDE DEF s, t
<1>5. 1 \in 1..Len(s) /\ \A i \in 1..Len(t) : i + 1 \in 1..Len(s)
  BY <1>2
<1>6. Head(s).req = o
  BY <1>2, <1>3, <1>5
<1>7. ASSUME Head(s).op = "consume" PROVE Awaits(o) /\ t = <<>>
  <2>1. Len(s) = 1 /\ Awaits(o)
    BY <1>2, <1>3, <1>5, <1>7
  <2>2. Len(t) = 0
    BY <1>2, <2>1
  <2> QED
    BY <1>2, <2>1, <2>2, EmptySeq
<1>8. ASSUME NEW i \in 1..Len(t)
      PROVE  /\ t[i].req = o
             /\ t[i].op = "consume" => i = Len(t) /\ pc[o] \in {"chain", "done"} /\ Awaits(o)
  <2>1. t[i] = s[i + 1] /\ i + 1 \in 1..Len(s)
    BY <1>2, <1>5
  <2>2. i + 1 = Len(s) => i = Len(t)
    BY <1>2
  <2> QED
    BY <1>3, <2>1, <2>2
<1> QED
  BY <1>4, <1>6, <1>7, <1>8 DEF s, t

LEMMA AnsweredLine ==
  ASSUME TypeOK, NEW o \in Listeners, Line(o), pending[o] # <<>>,
         pending' = [pending EXCEPT ![o] = Tail(@)], UNCHANGED pc,
         \/ consuming'[o] = consuming[o] /\ (o \in listeners' <=> o \in listeners)
         \/ Head(pending[o]).op = "consume" /\ consuming'[o] = {o} /\ o \in listeners'
         \/ Head(pending[o]).op = "consume" /\ consuming'[o] = consuming[o]
  PROVE  Line(o)'
<1> DEFINE t == Tail(pending[o])
<1>1. pending'[o] = t
  BY DEF TypeOK
<1>2. /\ Head(pending[o]).op = "consume" => Awaits(o) /\ t = <<>>
      /\ pc[o] \in {"issue", "chain", "done"}
      /\ \A i \in 1..Len(t) :
           /\ t[i].req = o
           /\ t[i].op = "consume" => i = Len(t) /\ pc[o] \in {"chain", "done"} /\ Awaits(o)
  BY HeadLine
<1>3. CASE Head(pending[o]).op # "consume"
  <2>1. consuming'[o] = consuming[o] /\ (o \in listeners' <=> o \in listeners)
    BY <1>3
  <2>2. Awaits(o)' => Awaits(o)
    BY <1>1, <1>2 DEF Awaits
  <2> HIDE DEF t
  <2> QED
    BY <1>1, <1>2, <2>1, <2>2 DEF Line
<1>4. CASE Head(pending[o]).op = "consume"
  <2>1. t = <<>> /\ Len(t) = 0 /\ Awaits(o) /\ o \in listeners /\ consuming[o] = {}
    BY <1>2, <1>4 DEF Line
  <2>2. \E i \in 1..Len(pending[o]) : pending[o][i].op = "consume"
    <3>1. pending[o] \in Seq(Operation)
      BY DEF TypeOK
    <3>2. Len(pending[o]) \in Nat \ {0} /\ Head(pending[o]) = pending[o][1]
      BY <3>1, HeadTailProperties, LenProperties, EmptySeq
    <3>3. 1 \in 1..Len(pending[o])
      BY <3>2
    <3> QED
      BY <1>4, <3>2, <3>3
  <2>3. pc[o] \in {"chain", "done"}
    BY <2>2 DEF Line
  <2> HIDE DEF t
  <2> QED
    BY <1>1, <2>1, <2>3 DEF Line, Awaits
<1> QED
  BY <1>3, <1>4

(* An operation joins the channel of its call.                             *)
LEMMA AppendLine ==
  ASSUME TypeOK, NEW o \in Listeners, Line(o), NEW e \in Operation, e.req = o,
         pending' = [pending EXCEPT ![o] = Append(@, e)], pc[o] = "issue",
         pc'[o] = IF e.op = "consume" THEN "chain" ELSE "issue",
         consuming'[o] = consuming[o], o \in listeners' <=> o \in listeners
  PROVE  Line(o)'
<1> DEFINE s == pending[o]
           t == Append(s, e)
<1>1. s \in Seq(Operation) /\ pending'[o] = t
  BY DEF TypeOK
<1>2. /\ t \in Seq(Operation) /\ Len(s) \in Nat /\ Len(t) = Len(s) + 1 /\ t[Len(s) + 1] = e
      /\ \A i \in 1..Len(s) : t[i] = s[i]
  BY <1>1, AppendProperties, LenProperties
<1>3. \A i \in 1..Len(s) : s[i].req = o /\ s[i].op # "consume"
  BY DEF Line
<1>4. o \in listeners' /\ consuming'[o] = {}
  BY DEF Line, Awaits
<1> HIDE DEF s, t
<1>5. \A i \in 1..Len(t) : i \in 1..Len(s) \/ i = Len(t)
  BY <1>2
<1>6. ASSUME NEW i \in 1..Len(t)
      PROVE  t[i].req = o /\ (t[i].op = "consume" => i = Len(t) /\ e.op = "consume")
  <2>1. CASE i \in 1..Len(s)
    BY <1>2, <1>3, <2>1
  <2>2. CASE i = Len(t)
    BY <1>2, <2>2
  <2> QED
    BY <1>5, <2>1, <2>2
<1>7. pc'[o] \in {"issue", "chain"} /\ (e.op = "consume" => pc'[o] = "chain")
  OBVIOUS
<1> QED
  BY <1>1, <1>4, <1>6, <1>7 DEF Line

LEMMA StepSetup ==
  ASSUME OneCallerThread, SetupInv, [Next]_vars
  PROVE  SetupInv'
<1> USE ListenAssumption
<1>0. TypeInv /\ TypeOK /\ CallInv /\ TypeInv' /\ TypeOK'
  BY StepType DEF SetupInv, TypeInv
<1>a. CASE UNCHANGED vars
  <2>1. UNCHANGED <<n, listeners, pc, id, ref, pending, consuming, by, replay, fault>>
    BY <1>a DEF vars, brokerVars, callerVars, libraryVars, replayVars
  <2>2. CallInv'
    BY <1>0, <2>1 DEF CallInv, IdsDrawn, OneBusy, IdsUnique, CachedBegun, OwnReference
  <2>3. Established => Established'
    BY <2>1 DEF Established, Line, Awaits, ReplayConfirmed
  <2> QED
    BY <1>0, <2>1, <2>2, <2>3 DEF SetupInv
<1>b. SUFFICES ASSUME fault = "none", Next PROVE SetupInv'
  BY <1>a DEF Next
<1>c. /\ \A o \in Listeners : Line(o)
      /\ ReplayConfirmed
  BY <1>b DEF SetupInv, Established
<1>d. CallInv'
  BY <1>0, <1>b, StepCall
<1>e. SUFFICES fault' = "abort" \/ Established'
  BY <1>0, <1>d DEF SetupInv
<1> USE DEF brokerVars, callerVars, libraryVars, replayVars
(* A replay keeps its listener while no request arrives. *)
<1>1. ASSUME UNCHANGED by, \A m \in Messages : replay'[m] # "none" => replay[m] # "none",
             \A o \in Listeners : consuming[o] \subseteq consuming'[o]
      PROVE  ReplayConfirmed'
  BY <1>1, <1>c DEF ReplayConfirmed
(* A step of call l. *)
<1>2. ASSUME NEW l \in Listeners, Line(l)', UNCHANGED <<by, replay, consuming>>,
             \A k \in Listeners : k # l =>
               /\ pending'[k] = pending[k] /\ pc'[k] = pc[k]
               /\ (k \in listeners' <=> k \in listeners)
      PROVE  Established'
  <2>1. ASSUME NEW k \in Listeners, k # l PROVE Line(k)'
    BY <1>2, <1>c, <2>1, LineFrame
  <2> QED
    BY <1>1, <1>2, <2>1 DEF Established
<1>3. ASSUME NEW l \in Listeners, ReadId(l) \/ WriteId(l) PROVE Established'
  <2>1. /\ pc[l] \in {"idle", "incr"} /\ pc'[l] \in {"incr", "set"}
        /\ \A k \in Listeners : k # l => pc'[k] = pc[k]
        /\ UNCHANGED <<listeners, pending, consuming, by, replay>>
    BY <1>0, <1>3 DEF ReadId, WriteId, TypeOK
  <2>2. Line(l)'
    BY <1>c, <2>1 DEF Line, Awaits
  <2> QED
    BY <1>2, <2>1, <2>2
<1>4. ASSUME NEW l \in Listeners, SetListener(l) PROVE Established'
  <2>1. /\ pc[l] = "set" /\ pc' = [pc EXCEPT ![l] = "get"]
        /\ listeners' = (listeners \ {Target(l)}) \cup {l}
        /\ UNCHANGED <<pending, consuming, by, replay>>
    BY <1>4 DEF SetListener
  <2>2. pc'[l] = "get" /\ \A k \in Listeners : k # l => pc'[k] = pc[k]
    BY <1>0, <2>1 DEF TypeOK
  <2>3. Target(l) = Nobody /\ Nobody \notin Listeners
    BY <1>0, <2>1, OwnTarget DEF CallInv, CachedBegun
  <2>4. l \in listeners' /\ \A k \in Listeners : k # l => (k \in listeners' <=> k \in listeners)
    BY <2>1, <2>3
  <2>5. Line(l)'
    BY <1>c, <2>1, <2>2, <2>4 DEF Line, Awaits
  <2> QED
    BY <1>2, <2>1, <2>2, <2>4, <2>5
<1>5. ASSUME NEW l \in Listeners, GetListener(l) PROVE Established'
  <2>1. pc[l] = "get" /\ UNCHANGED <<listeners, pending, consuming, by, replay>>
    BY <1>5 DEF GetListener
  <2>2. l \in listeners
    BY <1>c, <2>1 DEF Line, Awaits
  <2>3. pc' = [pc EXCEPT ![l] = "issue"]
    BY <1>0, <1>5, <2>1, <2>2, OwnTarget DEF GetListener
  <2>4. pc'[l] = "issue" /\ \A k \in Listeners : k # l => pc'[k] = pc[k]
    BY <1>0, <2>3 DEF TypeOK
  <2>5. Line(l)'
    BY <1>c, <2>1, <2>4 DEF Line, Awaits
  <2> QED
    BY <1>2, <2>1, <2>4, <2>5
<1>6. ASSUME NEW l \in Listeners, IssueNext(l) PROVE Established'
  <2> DEFINE op == Setup[issued'[l]]
  <2>1. /\ pc[l] = "issue" /\ op \in Operations
        /\ pc'[l] = IF op = "consume" THEN "chain" ELSE "issue"
        /\ \A k \in Listeners : k # l => pc'[k] = pc[k]
    BY <1>0, <1>6, IssuedOperation
  <2>2. ref[l] = l /\ l \in listeners /\ Target(l) = l
    BY <1>0, <1>c, <2>1, OwnTarget DEF CallInv, OwnReference, Line, Awaits
  <2>3. UNCHANGED <<consuming, by, replay>>
    BY <1>6 DEF IssueNext
  <2>4. CASE chan[ref[l]] = "open"
    <3> DEFINE e == [op |-> op, req |-> l]
    <3>1. pending' = [pending EXCEPT ![l] = Append(@, e)] /\ UNCHANGED listeners
      BY <1>6, <2>2, <2>4 DEF IssueNext
    <3>2. e \in Operation /\ e.req = l /\ e.op = op
      BY <2>1 DEF Operation, Operations
    <3> HIDE DEF e, op
    <3>3. Line(l)'
      BY <1>0, <1>c, <2>1, <2>3, <3>1, <3>2, AppendLine
    <3>4. \A k \in Listeners : k # l => pending'[k] = pending[k]
      BY <1>0, <3>1 DEF TypeOK
    <3> QED
      BY <1>2, <2>1, <2>3, <3>1, <3>3, <3>4
  <2>5. CASE chan[ref[l]] # "open"
    <3>1. UNCHANGED pending
      BY <1>6, <2>5 DEF IssueNext
    <3>2. /\ op # "consume" => listeners' = listeners
          /\ op = "consume" => listeners' = listeners \ {l}
      BY <1>0, <1>6, <1>b, <2>2, <2>5, IssueListeners
    <3> HIDE DEF op
    <3>3. /\ \A i \in 1..Len(pending[l]) : pending[l][i].req = l /\ pending[l][i].op # "consume"
          /\ consuming[l] = {} /\ l \in listeners
      BY <1>c, <2>1 DEF Line, Awaits
    <3>4. Line(l)'
      BY <2>1, <2>3, <3>1, <3>2, <3>3 DEF Line, Awaits
    <3> QED
      BY <1>2, <2>1, <2>3, <3>1, <3>2, <3>4
  <2> QED
    BY <2>4, <2>5
<1>7. ASSUME NEW l \in Listeners, NEW h \in Chain, ChainHandler(l, h) PROVE Established'
  <2>1. /\ pc[l] = "chain" /\ pc'[l] \in {"chain", "done"}
        /\ \A k \in Listeners : k # l => pc'[k] = pc[k]
        /\ UNCHANGED <<listeners, pending, consuming, by, replay>>
    BY <1>0, <1>7 DEF ChainHandler, TypeOK
  <2>2. Line(l)'
    BY <1>c, <2>1 DEF Line, Awaits
  <2> QED
    BY <1>2, <2>1, <2>2
(* Steps that answer no operation and erase nothing. *)
<1>8. ASSUME UNCHANGED <<pc, pending, consuming, listeners>>, ReplayConfirmed' PROVE Established'
  BY <1>8, <1>c, LineFrame DEF Established
<1>9. ASSUME UNCHANGED <<pc, pending, consuming, listeners, by>>,
             \A m \in Messages : replay'[m] # "none" => replay[m] # "none"
      PROVE  Established'
  BY <1>1, <1>8, <1>9
<1>10. ASSUME Run PROVE Established'
  BY <1>9, <1>10 DEF Run
(* An operation of channel o is answered. *)
<1>11. ASSUME NEW o \in Listeners, Line(o)', pending' = [pending EXCEPT ![o] = Tail(@)],
              UNCHANGED <<pc, by, replay>>,
              \A k \in Listeners : consuming[k] \subseteq consuming'[k],
              \A k \in Listeners : k # o =>
                consuming'[k] = consuming[k] /\ (k \in listeners' <=> k \in listeners)
       PROVE  Established'
  <2>1. ASSUME NEW k \in Listeners, k # o PROVE Line(k)'
    <3>1. pending'[k] = pending[k]
      BY <1>0, <1>11, <2>1 DEF TypeOK
    <3> QED
      BY <1>11, <1>c, <2>1, <3>1, LineFrame
  <2> QED
    BY <1>1, <1>11, <2>1 DEF Established
<1>12. ASSUME NEW o \in Listeners, SetupOk(o) PROVE Established'
  <2>1. /\ pending[o] # <<>> /\ pending' = [pending EXCEPT ![o] = Tail(@)]
        /\ UNCHANGED <<pc, by, replay, consuming, listeners>>
    BY <1>12 DEF SetupOk, Accepted
  <2>2. Line(o)'
    BY <1>0, <1>c, <2>1, AnsweredLine
  <2> QED
    BY <1>11, <2>1, <2>2
<1>13. ASSUME NEW o \in Listeners, ConsumeOk(o) PROVE Established'
  <2>1. /\ pending[o] # <<>> /\ pending' = [pending EXCEPT ![o] = Tail(@)]
        /\ Head(pending[o]).op = "consume"
        /\ consuming' = [consuming EXCEPT ![o] = @ \cup {Head(pending[o]).req}]
        /\ UNCHANGED <<pc, by, replay, listeners>>
    BY <1>13 DEF ConsumeOk, Accepted
  <2>2. Head(pending[o]).req = o /\ Awaits(o)
    BY <1>0, <1>c, <2>1, HeadLine
  <2>3. o \in listeners /\ consuming[o] = {}
    BY <1>c, <2>2 DEF Line
  <2>4. consuming'[o] = {o} /\ \A k \in Listeners : k # o => consuming'[k] = consuming[k]
    BY <1>0, <2>1, <2>2, <2>3 DEF TypeOK
  <2>5. Line(o)'
    BY <1>0, <1>c, <2>1, <2>3, <2>4, AnsweredLine
  <2>6. \A k \in Listeners : consuming[k] \subseteq consuming'[k]
    BY <2>3, <2>4
  <2> QED
    BY <1>11, <2>1, <2>4, <2>5, <2>6
<1>14. ASSUME NEW o \in Listeners, NEW op \in Operations, Rejected(o, op) PROVE Established'
  <2>1. /\ pending[o] # <<>> /\ pending' = [pending EXCEPT ![o] = Tail(@)]
        /\ Head(pending[o]).op = op /\ UNCHANGED <<pc, by, replay, consuming>>
        /\ OnError(Head(pending[o]).req, op, LoopThread)
    BY <1>14 DEF Rejected
  <2>2. Head(pending[o]).req = o
    BY <1>0, <1>c, <2>1, HeadLine
  <2>3. /\ op # "consume" => listeners' = listeners
        /\ op = "consume" => listeners' = listeners \ {Target(o)}
    BY <1>0, <1>b, <2>1, <2>2, OnErrorFacts
  <2>4. Target(o) \in {o, Nobody} /\ Nobody \notin Listeners
    BY <1>0, <1>c, <2>1, HeadLine, OwnTarget
  <2>5. \A k \in Listeners : k # o => (k \in listeners' <=> k \in listeners)
    BY <2>3, <2>4
  <2>6. Line(o)'
    BY <1>0, <1>c, <2>1, <2>3, AnsweredLine
  <2> QED
    BY <1>11, <2>1, <2>5, <2>6
<1>15. ASSUME NEW o \in Listeners, ChannelOnError(o) \/ ChannelClosed(o) \/ ChannelError(o)
       PROVE  Established'
  BY <1>9, <1>15 DEF ChannelOnError, ChannelClosed, ChannelError
(* A request arrives for a confirmed listener. *)
<1>16. ASSUME NEW o \in Listeners, NEW l \in Listeners, NEW m \in Messages, Arrives(o, l, m),
              \A k \in Messages : k # m => replay'[k] = replay[k]
       PROVE  ReplayConfirmed'
  <2>1. l \in consuming[o] /\ UNCHANGED consuming /\ by' = [by EXCEPT ![m] = l]
    BY <1>16 DEF Arrives
  <2>2. l \in consuming[l]
    BY <1>c, <2>1 DEF Line
  <2>3. by'[m] = l /\ \A k \in Messages : k # m => by'[k] = by[k]
    BY <1>0, <2>1 DEF TypeOK
  <2> QED
    BY <1>16, <1>c, <2>1, <2>2, <2>3 DEF ReplayConfirmed
<1>17. ASSUME NEW o \in Listeners, NEW l \in Listeners, NEW m \in Messages,
              ReceiveUndecodable(o, l, m)
       PROVE  Established'
  <2>1. UNCHANGED <<pc, pending, consuming, listeners, replay>>
    BY <1>17 DEF ReceiveUndecodable, Arrives
  <2>2. ReplayConfirmed'
    BY <1>16, <1>17, <2>1 DEF ReceiveUndecodable
  <2> QED
    BY <1>8, <2>1, <2>2
<1>18. ASSUME NEW o \in Listeners, NEW l \in Listeners, NEW m \in Messages,
              NEW watched \in BOOLEAN, Receive(o, l, m, watched)
       PROVE  Established'
  <2>1. UNCHANGED <<pc, pending, consuming, listeners>> /\ Arrives(o, l, m)
    BY <1>18 DEF Receive, Arrives
  <2>2. \A k \in Messages : k # m => replay'[k] = replay[k]
    <3>1. \/ UNCHANGED replay
          \/ \E v \in {"held", "leaked"} : replay' = [replay EXCEPT ![m] = v]
      BY <1>18 DEF Receive
    <3> QED
      BY <1>0, <3>1 DEF TypeOK
  <2>3. ReplayConfirmed'
    BY <1>16, <2>1, <2>2
  <2> QED
    BY <1>8, <2>1, <2>3
<1>19. ASSUME NEW m \in Messages, ReplyStep(m) \/ ReplyChannelError(m) PROVE Established'
  <2>1. UNCHANGED <<pc, pending, consuming, listeners, by>>
    BY <1>19 DEF ReplyStep, ClearComplete, TxOk, TxError, ReplyChannelError
  <2>2. ASSUME NEW k \in Messages PROVE replay'[k] # "none" => replay[k] # "none"
    BY <1>0, <1>19
    DEF ReplyStep, ClearComplete, TxOk, TxError, ReplyChannelError, DeleteReplay, TypeOK
  <2> QED
    BY <1>9, <2>1, <2>2
<1>20. ASSUME NEW m \in Messages, NEW t \in Committers, Commit(m, t) \/ CommitRefused(m, t)
       PROVE  Established'
  <2>1. UNCHANGED <<pc, pending, consuming, listeners, by>> /\ replay[m] = "held"
    BY <1>20 DEF Commit, CommitRefused
  <2>2. ASSUME NEW k \in Messages PROVE replay'[k] # "none" => replay[k] # "none"
    BY <1>0, <1>20, <2>1 DEF Commit, CommitRefused, DeleteReplay, TypeOK
  <2> QED
    BY <1>9, <2>1, <2>2
<1>21. ASSUME NEW t \in Threads, ConnectionLost(t) PROVE Established'
  <2>1. UNCHANGED <<pc, pending, consuming, listeners, by>>
    BY <1>21 DEF ConnectionLost
  <2>2. ASSUME NEW k \in Messages PROVE replay'[k] # "none" => replay[k] # "none"
    BY <1>21 DEF ConnectionLost
  <2> QED
    BY <1>9, <2>1, <2>2
<1>22. ASSUME NEW t \in Threads, LossStep(t) PROVE Established'
  BY <1>9, <1>22 DEF LossStep, OnLost
<1>23. ASSUME NEW o \in Listeners, NEW l \in Listeners, NEW m \in Messages,
              ReceiveThrows(o, l, m)
       PROVE  fault' = "abort"
  BY <1>23 DEF ReceiveThrows
<1> QED
  BY <1>3, <1>4, <1>5, <1>6, <1>7, <1>10, <1>12, <1>13, <1>14, <1>15, <1>17, <1>18, <1>19,
     <1>20, <1>21, <1>22, <1>23, <1>b
  DEF Next, CallerStep, SetupStep, Delivery, Operations

(* When one thread makes the calls, the callbacks of a listener whose      *)
(* consume was confirmed find the object of their own call for ever: no    *)
(* reply that fails, no lost connection and no later call erases or        *)
(* replaces it.                                                            *)
THEOREM ConfirmedStays ==
  ASSUME OneCallerThread
  PROVE  Spec => []EstablishedKept
<1>1. SetupInv => EstablishedKept
  <2> SUFFICES ASSUME SetupInv, fault # "abort", NEW o \in Listeners, NEW l \in consuming[o]
               PROVE  Target(l) = l
    BY DEF EstablishedKept
  <2>1. TypeOK /\ CallInv /\ Line(o)
    BY DEF SetupInv, TypeInv, Established
  <2>2. l = o /\ l \in listeners /\ pc[l] # "idle"
    BY <2>1 DEF Line
  <2> QED
    BY <2>1, <2>2, OwnTarget
<1>2. SetupInv /\ [Next]_vars => SetupInv'
  BY StepSetup
<1> QED
  BY InitSetup, <1>1, <1>2, PTL DEF Spec

-----------------------------------------------------------------------------
(* Null pointers                                                           *)

(* The operations of a channel that does not fail are answered up to the   *)
(* consume, so that whoever looks the listener up still finds it.          *)
NullInv ==
  /\ SetupInv
  /\ running => \A l \in Listeners : pc[l] = "done"
  /\ ~running => /\ lost = {}
                 /\ \A l \in Listeners : pc[l] \in {"get", "issue", "chain", "done"} =>
                      l \in listeners /\ chan[l] = "open"
  /\ strayed = {}
  /\ \A o \in Listeners : chan[o] # "failing"
  /\ \A o \in Listeners : pending[o] # <<>> => Awaits(o)
  /\ NoNullListener

(* After the answer to its oldest operation a channel with operations left *)
(* still awaits its consume.                                               *)
LEMMA AnsweredAwaits ==
  ASSUME TypeOK, NEW o \in Listeners, Line(o), Awaits(o), pc[o] = "done",
         pending[o] # <<>>, Tail(pending[o]) # <<>>
  PROVE  \E i \in 1..Len(Tail(pending[o])) : Tail(pending[o])[i].op = "consume"
<1> DEFINE s == pending[o]
           t == Tail(s)
<1>1. s \in Seq(Operation) /\ s # <<>>
  BY DEF TypeOK
<1>2. /\ t \in Seq(Operation) /\ Len(s) \in Nat \ {0} /\ Len(t) = Len(s) - 1
      /\ \A i \in 1..Len(t) : t[i] = s[i + 1]
  BY <1>1, HeadTailProperties, LenProperties, EmptySeq
<1>3. s[Len(s)].op = "consume"
  BY DEF Awaits, Line
<1>4. t # <<>>
  OBVIOUS
<1> HIDE DEF s, t
<1>5. Len(t) # 0
  BY <1>2, <1>4, EmptySeq
<1>6. Len(t) \in 1..Len(t) /\ Len(t) + 1 = Len(s)
  BY <1>2, <1>5
<1>7. t[Len(t)].op = "consume"
  BY <1>2, <1>3, <1>6
<1> QED
  BY <1>6, <1>7 DEF s, t

LEMMA StepNull ==
  ASSUME OneCallerThread, ~RunFirst, "channel" \notin Failures, NullInv, [Next]_vars
  PROVE  NullInv'
<1> USE ListenAssumption
<1>0. SetupInv /\ SetupInv' /\ TypeInv /\ TypeOK /\ CallInv
  BY StepSetup DEF NullInv, SetupInv, TypeInv
<1>a. CASE UNCHANGED vars
  <2>1. UNCHANGED <<running, pc, lost, listeners, chan, strayed, pending, fault>>
    BY <1>a DEF vars, brokerVars, callerVars, libraryVars, replayVars
  <2> QED
    BY <1>0, <2>1 DEF NullInv, Awaits, NoNullListener
<1>b. SUFFICES ASSUME fault = "none", Next PROVE NullInv'
  BY <1>a DEF Next
<1>c. \A o \in Listeners : Line(o)
  BY <1>0, <1>b DEF SetupInv, Established
<1>d. /\ ReplayConfirmed
      /\ strayed = {} /\ \A o \in Listeners : chan[o] # "failing"
      /\ \A o \in Listeners : pending[o] # <<>> => Awaits(o)
      /\ running => \A l \in Listeners : pc[l] = "done"
      /\ ~running => /\ lost = {}
                     /\ \A l \in Listeners : pc[l] \in {"get", "issue", "chain", "done"} =>
                          l \in listeners /\ chan[l] = "open"
  BY <1>0, <1>b DEF NullInv, SetupInv, Established
(* Who awaits a consume, or was confirmed, is found. *)
<1>e. ASSUME NEW o \in Listeners, Awaits(o) \/ o \in consuming[o] \/ pending[o] # <<>>
      PROVE  Target(o) = o /\ o \in listeners
  <2>1. Awaits(o) \/ o \in consuming[o]
    BY <1>d, <1>e
  <2>2. o \in listeners
    BY <1>c, <2>1 DEF Line
  <2>3. pc[o] # "idle"
    BY <1>0, <2>2 DEF CallInv, CachedBegun
  <2> QED
    BY <1>0, <2>2, <2>3, OwnTarget
<1> USE DEF brokerVars, callerVars, libraryVars, replayVars
(* A step of call l, before the loop runs. *)
<1>1. ASSUME NEW l \in Listeners, pc[l] # "done", UNCHANGED <<running, lost, strayed>>,
             \A k \in Listeners : k # l => pc'[k] = pc[k] /\ pending'[k] = pending[k],
             \A k \in Listeners : pc'[k] \in {"get", "issue", "chain", "done"} =>
               k \in listeners' /\ chan'[k] = "open",
             \A o \in Listeners : chan'[o] # "failing",
             pending'[l] # <<>> => Awaits(l)', fault' # "null"
      PROVE  NullInv'
  <2>1. ~running /\ lost = {}
    BY <1>1, <1>d
  <2>2. \A o \in Listeners : pending'[o] # <<>> => Awaits(o)'
    BY <1>1, <1>d DEF Awaits
  <2> QED
    BY <1>0, <1>1, <1>d, <2>1, <2>2 DEF NullInv, NoNullListener
<1>2. ASSUME NEW l \in Listeners, pc[l] # "done" PROVE ~running /\ lost = {}
  BY <1>2, <1>d
<1>3. ASSUME NEW l \in Listeners, ReadId(l) \/ WriteId(l) PROVE NullInv'
  <2>1. /\ pc[l] \in {"idle", "incr"} /\ pc'[l] \in {"incr", "set"}
        /\ \A k \in Listeners : k # l => pc'[k] = pc[k]
        /\ UNCHANGED <<listeners, chan, pending, running, lost, strayed, fault>>
    BY <1>0, <1>3 DEF ReadId, WriteId, TypeOK
  <2>2. pending'[l] = <<>>
    BY <1>c, <2>1 DEF Line
  <2>3. \A k \in Listeners : pc'[k] \in {"get", "issue", "chain", "done"} =>
          k \in listeners' /\ chan'[k] = "open"
    BY <1>2, <1>d, <2>1
  <2> QED
    BY <1>1, <1>b, <1>d, <2>1, <2>2, <2>3
(* What Collect leaves of the channels of the cached objects. *)
<1>4. ASSUME NEW objects \in ObjectType, NEW channels, Collect(objects, channels),
             \A k \in Listeners : channels[k] # "failing",
             \A k \in listeners' : channels[k] = "open"
      PROVE  /\ \A k \in Listeners : chan'[k] # "failing"
             /\ \A k \in Listeners \cap listeners' : chan'[k] = "open"
  <2>1. \A k \in Listeners : chan'[k] = channels[k] \/ chan'[k] = "closing"
    BY <1>4, CollectFacts
  <2>2. \A k \in Listeners : Kept(k)' => chan'[k] = channels[k]
    BY <1>4, CollectFacts
  <2>3. \A k \in Listeners \cap listeners' : Kept(k)'
    BY DEF Kept
  <2> QED
    BY <1>4, <2>1, <2>2, <2>3
<1>5. ASSUME NEW l \in Listeners, SetListener(l) PROVE NullInv'
  <2>1. /\ pc[l] = "set" /\ pc' = [pc EXCEPT ![l] = "get"]
        /\ listeners' = (listeners \ {Target(l)}) \cup {l}
        /\ UNCHANGED <<pending, running, lost, strayed, fault>>
    BY <1>5 DEF SetListener
  <2>2. pc'[l] = "get" /\ \A k \in Listeners : k # l => pc'[k] = pc[k]
    BY <1>0, <2>1 DEF TypeOK
  <2>3. Target(l) = Nobody /\ Nobody \notin Listeners
    BY <1>0, <2>1, OwnTarget DEF CallInv, CachedBegun
  <2>4. listeners' = listeners \cup {l} /\ listeners \subseteq Listeners
    BY <1>0, <2>1, <2>3 DEF TypeOK
  <2>5. ~running /\ lost = {} /\ pending[l] = <<>>
    BY <1>2, <1>c, <2>1 DEF Line
  <2> DEFINE channels == [chan EXCEPT ![l] = NewChannel(Caller[l])]
  <2>6. PICK garbage \in BOOLEAN : Collect([obj EXCEPT ![l] = Construct(garbage)], channels)
    BY <1>5 DEF SetListener
  <2>7. [obj EXCEPT ![l] = Construct(garbage)] \in ObjectType
    BY <1>0, ConstructType DEF TypeOK, ObjectType
  <2>8. channels[l] = "open" /\ \A k \in Listeners : k # l => channels[k] = chan[k]
    BY <1>0, <2>5 DEF TypeOK, NewChannel
  <2> HIDE DEF channels
  <2>9. \A k \in listeners : chan[k] = "open"
    BY <1>0, <1>d, <2>5 DEF CallInv, CachedBegun, TypeOK
  <2>10. /\ \A k \in Listeners : channels[k] # "failing"
         /\ \A k \in listeners' : channels[k] = "open"
    BY <1>d, <2>4, <2>8, <2>9
  <2>11. /\ \A k \in Listeners : chan'[k] # "failing"
         /\ \A k \in Listeners \cap listeners' : chan'[k] = "open"
    BY <1>4, <2>6, <2>7, <2>10
  <2>12. \A k \in Listeners : pc'[k] \in {"get", "issue", "chain", "done"} =>
           k \in listeners' /\ chan'[k] = "open"
    BY <1>d, <2>2, <2>4, <2>5, <2>11
  <2> QED
    BY <1>1, <1>b, <2>1, <2>2, <2>5, <2>11, <2>12
<1>6. ASSUME NEW l \in Listeners, GetListener(l) PROVE NullInv'
  <2>1. pc[l] = "get" /\ UNCHANGED <<listeners, pending, running, lost, strayed>>
    BY <1>6 DEF GetListener
  <2>2. Target(l) = l /\ ~running /\ l \in listeners /\ chan[l] = "open"
    BY <1>2, <1>d, <1>e, <2>1 DEF Awaits
  <2>3. Target(l) # Nobody
    BY <2>2
  <2>4. /\ pc' = [pc EXCEPT ![l] = "issue"] /\ fault' = "none" /\ Collect(obj, chan)
    BY <1>6, <1>b, <2>2, <2>3 DEF GetListener
  <2>5. pc'[l] = "issue" /\ \A k \in Listeners : k # l => pc'[k] = pc[k]
    BY <1>0, <2>4 DEF TypeOK
  <2>6. obj \in ObjectType /\ \A k \in listeners' : chan[k] = "open"
    BY <1>0, <1>d, <2>1, <2>2 DEF CallInv, CachedBegun, TypeOK, ObjectType
  <2>7. /\ \A k \in Listeners : chan'[k] # "failing"
        /\ \A k \in Listeners \cap listeners' : chan'[k] = "open"
    BY <1>4, <1>d, <2>4, <2>6
  <2>8. \A k \in Listeners : pc'[k] \in {"get", "issue", "chain", "done"} =>
          k \in listeners' /\ chan'[k] = "open"
    BY <1>d, <2>1, <2>2, <2>5, <2>7
  <2>9. pending'[l] = <<>>
    BY <1>c, <2>1 DEF Line
  <2> QED
    BY <1>1, <2>1, <2>4, <2>5, <2>7, <2>8, <2>9
<1>7. ASSUME NEW l \in Listeners, IssueNext(l) PROVE NullInv'
  <2> DEFINE op == Setup[issued'[l]]
             e == [op |-> op, req |-> l]
  <2>1. /\ pc[l] = "issue" /\ op \in Operations
        /\ pc'[l] = IF op = "consume" THEN "chain" ELSE "issue"
        /\ \A k \in Listeners : k # l => pc'[k] = pc[k]
    BY <1>0, <1>7, IssuedOperation
  <2>2. ref[l] = l /\ ~running /\ chan[l] = "open"
    BY <1>0, <1>2, <1>d, <2>1 DEF CallInv, OwnReference
  <2>3. /\ pending' = [pending EXCEPT ![l] = Append(@, e)]
        /\ UNCHANGED <<listeners, fault, running, lost, strayed>> /\ Collect(obj, chan)
    BY <1>7, <2>2 DEF IssueNext
  <2>4. obj \in ObjectType /\ \A k \in listeners' : chan[k] = "open"
    BY <1>0, <1>d, <2>2, <2>3 DEF CallInv, CachedBegun, TypeOK, ObjectType
  <2>5. /\ \A k \in Listeners : chan'[k] # "failing"
        /\ \A k \in Listeners \cap listeners' : chan'[k] = "open"
    BY <1>4, <1>d, <2>3, <2>4
  <2>6. e \in Operation /\ e.op = op
    BY <2>1 DEF Operation, Operations
  <2> HIDE DEF e, op
  <2>7. Awaits(l)'
    <3>1. pending[l] \in Seq(Operation) /\ pending'[l] = Append(pending[l], e)
      BY <1>0, <2>3 DEF TypeOK
    <3>2. /\ Len(pending[l]) \in Nat /\ Len(pending'[l]) = Len(pending[l]) + 1
          /\ pending'[l][Len(pending[l]) + 1] = e
      BY <2>6, <3>1, AppendProperties, LenProperties
    <3>3. Len(pending'[l]) \in 1..Len(pending'[l]) /\ pending'[l][Len(pending'[l])] = e
      BY <3>2
    <3> QED
      BY <2>1, <2>6, <3>3 DEF Awaits
  <2>8. \A k \in Listeners : pc'[k] \in {"get", "issue", "chain", "done"} =>
          k \in listeners' /\ chan'[k] = "open"
    BY <1>d, <2>1, <2>2, <2>3, <2>5
  <2>9. \A k \in Listeners : k # l => pending'[k] = pending[k]
    BY <1>0, <2>3 DEF TypeOK
  <2> QED
    BY <1>1, <1>b, <2>1, <2>3, <2>5, <2>7, <2>8, <2>9
<1>8. ASSUME NEW l \in Listeners, NEW h \in Chain, ChainHandler(l, h) PROVE NullInv'
  <2>1. /\ pc[l] = "chain" /\ pc'[l] \in {"chain", "done"}
        /\ \A k \in Listeners : k # l => pc'[k] = pc[k]
        /\ UNCHANGED <<listeners, chan, pending, running, lost, strayed>>
    BY <1>0, <1>8 DEF ChainHandler, TypeOK
  <2>2. fault' # "null"
    BY <1>8, <1>b DEF ChainHandler
  <2>3. ~running
    BY <1>2, <2>1
  <2>4. \A k \in Listeners : pc'[k] \in {"get", "issue", "chain", "done"} =>
          k \in listeners' /\ chan'[k] = "open"
    BY <1>d, <2>1, <2>3
  <2>5. pending'[l] # <<>> => Awaits(l)'
    BY <1>d, <2>1 DEF Awaits
  <2> QED
    BY <1>1, <1>d, <2>1, <2>2, <2>4, <2>5
(* A step of the loop. *)
<1>9. ASSUME running, UNCHANGED <<running, pc>>, strayed' = {},
             \A o \in Listeners : chan'[o] # "failing",
             \A o \in Listeners : pending'[o] # <<>> => Awaits(o)', fault' # "null"
      PROVE  NullInv'
  BY <1>0, <1>9, <1>d DEF NullInv, NoNullListener
<1>10. ASSUME UNCHANGED <<pc, pending>>
       PROVE  \A o \in Listeners : pending'[o] # <<>> => Awaits(o)'
  BY <1>10, <1>d DEF Awaits
<1>11. ASSUME Run PROVE NullInv'
  <2>1. /\ UNCHANGED <<pc, pending, chan, strayed, fault>> /\ running'
        /\ \A l \in Listeners : pc[l] = "done"
    BY <1>11 DEF Run
  <2>2. \A o \in Listeners : pending'[o] # <<>> => Awaits(o)'
    BY <1>10, <2>1
  <2> QED
    BY <1>0, <1>b, <1>d, <2>1, <2>2 DEF NullInv, NoNullListener
<1>12. ASSUME NEW o \in Listeners, running, UNCHANGED pc, pending[o] # <<>>,
              pending' = [pending EXCEPT ![o] = Tail(@)]
       PROVE  \A k \in Listeners : pending'[k] # <<>> => Awaits(k)'
  <2>1. /\ pending'[o] = Tail(pending[o])
        /\ \A k \in Listeners : k # o => pending'[k] = pending[k]
    BY <1>0, <1>12 DEF TypeOK
  <2>2. ASSUME pending'[o] # <<>> PROVE Awaits(o)'
    <3>1. Tail(pending[o]) # <<>> /\ pc[o] = "done" /\ Awaits(o) /\ Line(o)
      BY <1>12, <1>c, <1>d, <2>1, <2>2
    <3>2. \E i \in 1..Len(Tail(pending[o])) : Tail(pending[o])[i].op = "consume"
      BY <1>0, <1>12, <3>1, AnsweredAwaits
    <3> QED
      BY <2>1, <3>2 DEF Awaits
  <2>3. ASSUME NEW k \in Listeners, k # o, pending'[k] # <<>> PROVE Awaits(k)'
    <3>1. Awaits(k) /\ pending'[k] = pending[k] /\ pc'[k] = pc[k]
      BY <1>12, <1>d, <2>1, <2>3
    <3> QED
      BY <3>1 DEF Awaits
  <2> QED
    BY <2>2, <2>3
<1>13. ASSUME NEW o \in Listeners, SetupOk(o) PROVE NullInv'
  <2>1. /\ running /\ UNCHANGED <<running, pc, chan, strayed, fault>> /\ pending[o] # <<>>
        /\ pending' = [pending EXCEPT ![o] = Tail(@)]
    BY <1>13 DEF SetupOk, Accepted
  <2> QED
    BY <1>9, <1>12, <1>b, <1>d, <2>1
<1>14. ASSUME NEW o \in Listeners, ConsumeOk(o) PROVE NullInv'
  <2>1. /\ running /\ UNCHANGED <<running, pc, chan, strayed>> /\ pending[o] # <<>>
        /\ pending' = [pending EXCEPT ![o] = Tail(@)]
        /\ Deref(Head(pending[o]).req, report_success(obj[Target(Head(pending[o]).req)]))
    BY <1>14 DEF ConsumeOk, Accepted
  <2>2. Head(pending[o]).req = o /\ Target(o) = o
    BY <1>0, <1>c, <1>e, <2>1, HeadLine
  <2>3. fault' = "none"
    BY <1>b, <2>1, <2>2 DEF Deref
  <2> QED
    BY <1>9, <1>12, <1>d, <2>1, <2>3
<1>15. ASSUME NEW o \in Listeners, NEW op \in Operations, Rejected(o, op) PROVE NullInv'
  <2>1. /\ running /\ UNCHANGED <<running, pc, strayed>> /\ pending[o] # <<>>
        /\ pending' = [pending EXCEPT ![o] = Tail(@)]
        /\ OnError(Head(pending[o]).req, op, LoopThread)
    BY <1>15 DEF Rejected
  <2>2. Head(pending[o]).req = o /\ Target(o) # Nobody
    BY <1>0, <1>c, <1>e, <2>1, HeadLine
  <2>3. fault' # "null" /\ \A k \in Listeners : chan'[k] = chan[k] \/ chan'[k] = "closing"
    BY <1>0, <1>b, <2>1, <2>2, OnErrorFacts
  <2>4. \A k \in Listeners : chan'[k] # "failing"
    BY <1>d, <2>3
  <2> QED
    BY <1>9, <1>12, <1>d, <2>1, <2>3, <2>4
<1>16. ASSUME NEW o \in Listeners, ChannelOnError(o) \/ ChannelError(o) PROVE FALSE
  BY <1>16, <1>d DEF ChannelOnError, ChannelError
<1>17. ASSUME NEW o \in Listeners, ChannelClosed(o) PROVE NullInv'
  <2>1. /\ running /\ UNCHANGED <<running, pc, pending, strayed, fault>>
        /\ chan' = [chan EXCEPT ![o] = "closed"]
    BY <1>17 DEF ChannelClosed
  <2>2. \A k \in Listeners : chan'[k] # "failing"
    BY <1>0, <1>d, <2>1 DEF TypeOK
  <2> QED
    BY <1>9, <1>10, <1>b, <1>d, <2>1, <2>2
<1>18. ASSUME NEW o \in Listeners, NEW l \in Listeners, NEW m \in Messages, Arrives(o, l, m)
       PROVE  /\ running /\ UNCHANGED <<running, pc, pending>> /\ strayed' = {}
              /\ Target(l) = l
  <2>1. l \in consuming[o]
    BY <1>18 DEF Arrives
  <2>2. l = o
    BY <1>c, <2>1 DEF Line
  <2>3. Target(l) = l
    BY <1>e, <2>1, <2>2
  <2> QED
    BY <1>18, <1>d, <2>2, <2>3 DEF Arrives
<1>19. ASSUME NEW o \in Listeners, NEW l \in Listeners, NEW m \in Messages,
              ReceiveUndecodable(o, l, m)
       PROVE  NullInv'
  <2>1. Arrives(o, l, m) /\ Report(l, "CHANNEL_MESSAGE") /\ UNCHANGED chan
    BY <1>19 DEF ReceiveUndecodable
  <2>2. fault' # "null"
    BY <1>18, <1>b, <2>1 DEF Report, Deref
  <2> QED
    BY <1>9, <1>10, <1>18, <1>d, <2>1, <2>2
<1>20. ASSUME NEW l \in Listeners, Collect([obj EXCEPT ![l] = report_data(@)], chan)
       PROVE  \A k \in Listeners : chan'[k] # "failing"
  <2> DEFINE objects == [obj EXCEPT ![l] = report_data(@)]
  <2>1. objects \in ObjectType /\ Collect(objects, chan)
    BY <1>0, <1>20, ReportedFacts DEF TypeOK, ObjectType
  <2> HIDE DEF objects
  <2> QED
    BY <1>d, <2>1, CollectFacts
<1>21. ASSUME NEW o \in Listeners, NEW l \in Listeners, NEW m \in Messages,
              NEW watched \in BOOLEAN, Receive(o, l, m, watched)
       PROVE  NullInv'
  <2>1. Arrives(o, l, m) /\ Target(l) = l /\ Target(l) # Nobody
    BY <1>18, <1>21 DEF Receive
  <2>2. Collect([obj EXCEPT ![l] = report_data(@)], chan) /\ UNCHANGED fault
    BY <1>21, <2>1 DEF Receive
  <2> QED
    BY <1>9, <1>10, <1>18, <1>20, <1>b, <2>1, <2>2
<1>22. ASSUME NEW o \in Listeners, NEW l \in Listeners, NEW m \in Messages,
              ReceiveThrows(o, l, m)
       PROVE  NullInv'
  <2>1. Arrives(o, l, m) /\ fault' = "abort"
    BY <1>22 DEF ReceiveThrows
  <2>2. Collect([obj EXCEPT ![l] = report_data(@)], chan)
    BY <1>18, <1>22, <2>1 DEF ReceiveThrows
  <2> QED
    BY <1>9, <1>10, <1>18, <1>20, <2>1, <2>2
(* A replay's listener is found. *)
<1>23. ASSUME NEW m \in Messages, replay[m] # "none" PROVE Target(by[m]) # Nobody
  BY <1>23, <1>d, <1>e DEF ReplayConfirmed
<1>24. ASSUME UNCHANGED <<running, pc, lost, listeners, chan, strayed, pending>>, fault' # "null"
       PROVE  NullInv'
  BY <1>0, <1>10, <1>24, <1>d DEF NullInv, NoNullListener
<1>25. ASSUME NEW m \in Messages, NEW t \in Committers, Commit(m, t) \/ CommitRefused(m, t)
       PROVE  NullInv'
  <2>1. replay[m] = "held" /\ UNCHANGED <<pc, listeners, libraryVars>>
    BY <1>25 DEF Commit, CommitRefused
  <2>2. fault' # "null"
    BY <1>23, <1>25, <1>b, <2>1 DEF Commit, CommitRefused
  <2> QED
    BY <1>24, <2>1, <2>2
<1>26. ASSUME NEW m \in Messages, ReplyStep(m) \/ ReplyChannelError(m) PROVE NullInv'
  <2>1. UNCHANGED <<pc, listeners, libraryVars>>
    BY <1>26 DEF ReplyStep, ClearComplete, TxOk, TxError, ReplyChannelError
  <2>2. CASE TxError(m)
    <3>1. fault' # "null"
      BY <1>23, <1>b, <2>2 DEF TxError, Report, Deref
    <3> QED
      BY <1>24, <2>1, <3>1
  <2>3. CASE ~TxError(m)
    <3>1. fault' # "null"
      BY <1>26, <1>b, <2>3 DEF ReplyStep, ClearComplete, TxOk, ReplyChannelError
    <3> QED
      BY <1>24, <2>1, <3>1
  <2> QED
    BY <2>2, <2>3
<1>27. ASSUME NEW t \in Threads, ConnectionLost(t) PROVE NullInv'
  <2>1. /\ running /\ UNCHANGED <<running, pc, pending, strayed, fault>>
        /\ \A o \in Listeners : chan'[o] \in {chan[o], "refusing"}
    BY <1>27 DEF ConnectionLost
  <2>2. \A o \in Listeners : chan'[o] # "failing"
    BY <1>d, <2>1
  <2> QED
    BY <1>9, <1>10, <1>b, <1>d, <2>1, <2>2
<1>28. ASSUME NEW t \in Threads, LossStep(t) PROVE NullInv'
  BY <1>24, <1>28, <1>b DEF LossStep, OnLost
<1> QED
  BY <1>3, <1>5, <1>6, <1>7, <1>8, <1>11, <1>13, <1>14, <1>15, <1>16, <1>17, <1>19, <1>21,
     <1>22, <1>25, <1>26, <1>27, <1>28, <1>b
  DEF Next, CallerStep, SetupStep, Delivery, Operations

(* When one thread makes the calls before the loop starts, a null listener *)
(* is dereferenced only if the server closes a listener's channel: neither *)
(* a lost connection nor a reply that fails nor an undecodable request     *)
(* gets there.                                                             *)
THEOREM OnlyChannelErrors ==
  ASSUME OneCallerThread, ~RunFirst, "channel" \notin Failures
  PROVE  Spec => []NoNullListener
<1>1. Init => NullInv
  <2> SUFFICES ASSUME Init PROVE NullInv
    OBVIOUS
  <2>1. /\ ~running /\ lost = {} /\ strayed = {} /\ fault = "none"
        /\ \A l \in Listeners : pc[l] = "idle" /\ chan[l] = "none" /\ pending[l] = <<>>
    BY DEF Init
  <2> QED
    BY <2>1, InitSetup DEF NullInv, NoNullListener
<1>2. NullInv /\ [Next]_vars => NullInv'
  BY StepNull
<1>3. NullInv => NoNullListener
  BY DEF NullInv
<1> QED
  BY <1>1, <1>2, <1>3, PTL DEF Spec

-----------------------------------------------------------------------------
(* The reference listen returns                                            *)

OneCallEach ==
  \A k, l \in Listeners :
    Caller[k] = Caller[l] /\ pc[k] \notin {"idle", "done"} /\ pc[l] \notin {"idle", "done"}
      => k = l

(* Before the loop runs: what is in the cache lives, what lives has an     *)
(* open channel, and the slot of the calling thread keeps the object whose *)
(* reference the call works with.                                          *)
Referenced ==
  /\ \A o \in listeners : obj[o].life = "live"
  /\ \A o \in Listeners : obj[o].life = "live" => chan[o] = "open"
  /\ \A l \in Listeners : pc[l] \in {"issue", "chain"} =>
       slot[Caller[l]] = ref[l] /\ obj[ref[l]].life = "live"

HeldInv ==
  /\ TypeInv
  /\ lost = {}
  /\ \A m \in Messages : committer[m] \in {Nobody, LoopThread}
  /\ OneCallEach
  /\ running => \A l \in Listeners : pc[l] = "done"
  /\ ~running => Referenced
  /\ NoUseAfterFree

(* A step of a call that collects leaves references alive.                 *)
LEMMA CollectReferenced ==
  ASSUME TypeInv, NEW objects \in ObjectType, NEW channels, Collect(objects, channels),
         TypeInv', listeners' \subseteq Listeners,
         \A o \in listeners' : objects[o].life = "live",
         \A o \in Listeners : objects[o].life = "live" => channels[o] = "open",
         \A l \in Listeners : pc'[l] \in {"issue", "chain"} =>
           slot'[Caller[l]] = ref'[l] /\ objects[ref'[l]].life = "live"
  PROVE  Referenced'
<1>1. /\ \A o \in Listeners : Kept(o)' => obj'[o] = objects[o]
      /\ \A o \in Listeners :
           obj'[o].life = "live" => obj'[o] = objects[o] /\ chan'[o] = channels[o]
  BY CollectFacts
<1>2. \A o \in listeners' : obj'[o].life = "live"
  <2>1. \A o \in listeners' : Kept(o)'
    BY DEF Kept
  <2> QED
    BY <1>1, <2>1
<1>3. \A o \in Listeners : obj'[o].life = "live" => chan'[o] = "open"
  BY <1>1
<1>4. ASSUME NEW l \in Listeners, pc'[l] \in {"issue", "chain"}
      PROVE  slot'[Caller[l]] = ref'[l] /\ obj'[ref'[l]].life = "live"
  <2>1. ref'[l] \in Listeners /\ Caller[l] \in Threads /\ slot'[Caller[l]] = ref'[l]
    BY <1>4, ListenAssumption DEF TypeInv, CallsInRange
  <2>2. \A o \in Listeners : (\E t \in Threads : slot'[t] = o) => Kept(o)'
    BY DEF Kept
  <2>3. ASSUME NEW o \in Listeners, o = ref'[l] PROVE obj'[o] = objects[o]
    BY <1>1, <2>1, <2>2, <2>3
  <2> QED
    BY <1>4, <2>1, <2>3
<1> QED
  BY <1>2, <1>3, <1>4 DEF Referenced

LEMMA StepHeld ==
  ASSUME ~RunFirst, Committers \subseteq {LoopThread}, "connection" \notin Failures,
         HeldInv, [Next]_vars
  PROVE  HeldInv'
<1> USE ListenAssumption
<1>0. TypeInv /\ TypeInv' /\ TypeOK /\ TypeOK'
  BY StepType DEF HeldInv, TypeInv
<1>a. CASE UNCHANGED vars
  <2>1. UNCHANGED <<running, pc, lost, committer, listeners, obj, chan, slot, ref, fault>>
    BY <1>a DEF vars, brokerVars, callerVars, libraryVars, replayVars
  <2> QED
    BY <1>0, <2>1 DEF HeldInv, OneCallEach, Referenced, NoUseAfterFree
<1>b. SUFFICES ASSUME fault = "none", Next PROVE HeldInv'
  BY <1>a DEF Next
<1>c. /\ lost = {} /\ \A m \in Messages : committer[m] \in {Nobody, LoopThread}
      /\ OneCallEach
      /\ running => \A l \in Listeners : pc[l] = "done"
      /\ ~running => Referenced
  BY DEF HeldInv
<1> USE DEF brokerVars, callerVars, libraryVars, replayVars
(* A step of call l, before the loop runs. *)
<1>1. ASSUME NEW l \in Listeners, pc[l] # "done", pc[l] # "idle" \/ OneCallEach',
             \A k \in Listeners : k # l => pc'[k] = pc[k],
             UNCHANGED <<running, lost, committer>>, Referenced', fault' # "uaf"
      PROVE  HeldInv'
  <2>1. ~running
    BY <1>1, <1>c
  <2>2. OneCallEach'
    BY <1>1, <1>c DEF OneCallEach
  <2> QED
    BY <1>0, <1>1, <1>c, <2>1, <2>2 DEF HeldInv, NoUseAfterFree
<1>2. ASSUME NEW l \in Listeners, pc[l] # "done" PROVE ~running /\ Referenced
  BY <1>2, <1>c
<1>3. ASSUME NEW l \in Listeners, ReadId(l) \/ WriteId(l) PROVE HeldInv'
  <2>1. /\ pc[l] \in {"idle", "incr"} /\ pc'[l] \in {"incr", "set"}
        /\ \A k \in Listeners : k # l => pc'[k] = pc[k]
        /\ UNCHANGED <<listeners, obj, slot, chan, ref, running, lost, committer, fault>>
    BY <1>0, <1>3 DEF ReadId, WriteId, TypeOK
  <2>2. pc[l] # "idle" \/ OneCallEach'
    <3> SUFFICES ASSUME pc[l] = "idle" PROVE OneCallEach'
      OBVIOUS
    <3>1. \A k \in Listeners : Caller[k] = Caller[l] => pc[k] \in {"idle", "done"}
      BY <1>3 DEF ReadId, WriteId
    <3> QED
      BY <1>c, <2>1, <3>1 DEF OneCallEach
  <2>3. Referenced'
    BY <1>2, <2>1 DEF Referenced
  <2> QED
    BY <1>1, <1>b, <2>1, <2>2, <2>3
<1>4. obj \in ObjectType /\ listeners \subseteq Listeners
  BY <1>0 DEF TypeOK, ObjectType
<1>5. ASSUME NEW l \in Listeners, SetListener(l) PROVE HeldInv'
  <2>1. /\ pc[l] = "set" /\ pc' = [pc EXCEPT ![l] = "get"]
        /\ listeners' = (listeners \ {Target(l)}) \cup {l}
        /\ UNCHANGED <<slot, ref, running, lost, committer, fault>>
    BY <1>5 DEF SetListener
  <2>2. pc'[l] = "get" /\ \A k \in Listeners : k # l => pc'[k] = pc[k]
    BY <1>0, <2>1 DEF TypeOK
  <2>3. Referenced
    BY <1>2, <2>1
  <2> DEFINE channels == [chan EXCEPT ![l] = NewChannel(Caller[l])]
  <2>4. PICK garbage \in BOOLEAN : Collect([obj EXCEPT ![l] = Construct(garbage)], channels)
    BY <1>5 DEF SetListener
  <2> DEFINE objects == [obj EXCEPT ![l] = Construct(garbage)]
  <2>5. /\ objects \in ObjectType /\ objects[l].life = "live"
        /\ \A k \in Listeners : k # l => objects[k] = obj[k]
    BY <1>4, ConstructType, ConstructFacts DEF ObjectType
  <2>6. channels[l] = "open" /\ \A k \in Listeners : k # l => channels[k] = chan[k]
    BY <1>0, <1>c DEF TypeOK, NewChannel
  <2>7. Collect(objects, channels)
    BY <2>4
  <2> HIDE DEF channels, objects
  <2>8. \A o \in listeners' : o \in Listeners /\ objects[o].life = "live"
    BY <1>4, <2>1, <2>3, <2>5 DEF Referenced
  <2>9. \A o \in Listeners : objects[o].life = "live" => channels[o] = "open"
    BY <2>3, <2>5, <2>6 DEF Referenced
  <2>10. ASSUME NEW k \in Listeners, pc'[k] \in {"issue", "chain"}
         PROVE  slot'[Caller[k]] = ref'[k] /\ objects[ref'[k]].life = "live"
    <3>1. k # l /\ pc[k] \in {"issue", "chain"}
      BY <2>2, <2>10
    <3>2. slot[Caller[k]] = ref[k] /\ obj[ref[k]].life = "live" /\ ref[k] \in Listeners
      BY <1>0, <2>3, <3>1 DEF Referenced, TypeInv, CallsInRange
    <3> QED
      BY <2>1, <2>5, <3>2
  <2>11. Referenced'
    BY <1>0, <2>5, <2>7, <2>8, <2>9, <2>10, CollectReferenced
  <2> QED
    BY <1>1, <1>b, <2>1, <2>2, <2>11
<1>6. ASSUME NEW l \in Listeners, GetListener(l) PROVE HeldInv'
  <2>1. pc[l] = "get" /\ UNCHANGED <<listeners, running, lost, committer>>
    BY <1>6 DEF GetListener
  <2>2. Referenced
    BY <1>2, <2>1
  <2>3. CASE Target(l) = Nobody
    <3>1. fault' = "null" /\ UNCHANGED <<obj, slot, pc, ref, chan>>
      BY <1>6, <2>3 DEF GetListener
    <3>2. Referenced'
      BY <2>1, <2>2, <3>1 DEF Referenced
    <3> QED
      BY <1>1, <2>1, <3>1, <3>2
  <2>4. CASE Target(l) # Nobody
    <3> DEFINE d == Target(l)
    <3>1. d \in listeners /\ d \in Listeners
      BY <1>0, <1>4, <2>4, TargetFacts
    <3>2. obj[d].life = "live" /\ chan[d] = "open"
      BY <2>2, <3>1 DEF Referenced
    <3>3. /\ ref' = [ref EXCEPT ![l] = d] /\ slot' = [slot EXCEPT ![Caller[l]] = d]
          /\ pc' = [pc EXCEPT ![l] = "issue"] /\ UNCHANGED fault /\ Collect(obj, chan)
      BY <1>6, <2>4, <3>2 DEF GetListener
    <3> HIDE DEF d
    <3>4. /\ pc'[l] = "issue" /\ ref'[l] = d /\ slot'[Caller[l]] = d
          /\ \A k \in Listeners : k # l => pc'[k] = pc[k] /\ ref'[k] = ref[k]
          /\ \A t \in Threads : t # Caller[l] => slot'[t] = slot[t]
      BY <1>0, <3>3 DEF TypeOK
    <3>5. ASSUME NEW k \in Listeners, pc'[k] \in {"issue", "chain"}
          PROVE  slot'[Caller[k]] = ref'[k] /\ obj[ref'[k]].life = "live"
      <4>1. CASE k = l
        BY <3>2, <3>4, <4>1
      <4>2. CASE k # l
        <5>1. pc[k] \in {"issue", "chain"} /\ Caller[k] # Caller[l]
          BY <1>c, <2>1, <3>4, <3>5, <4>2 DEF OneCallEach
        <5> QED
          BY <2>2, <3>4, <4>2, <5>1 DEF Referenced
      <4> QED
        BY <4>1, <4>2
    <3>6. Referenced'
      BY <1>0, <1>4, <2>1, <2>2, <3>3, <3>5, CollectReferenced DEF Referenced
    <3> QED
      BY <1>1, <1>b, <2>1, <3>3, <3>4, <3>6
  <2> QED
    BY <2>3, <2>4
<1>7. ASSUME NEW l \in Listeners, IssueNext(l) PROVE HeldInv'
  <2>1. /\ pc[l] = "issue" /\ ref[l] \in Listeners /\ pc'[l] \in {"issue", "chain"}
        /\ \A k \in Listeners : k # l => pc'[k] = pc[k]
    BY <1>0, <1>7, IssuedOperation
  <2>2. Referenced
    BY <1>2, <2>1
  <2>3. chan[ref[l]] = "open"
    BY <2>1, <2>2 DEF Referenced
  <2>4. UNCHANGED <<listeners, slot, ref, running, lost, committer, fault>> /\ Collect(obj, chan)
    BY <1>7, <2>3 DEF IssueNext
  <2>5. \A k \in Listeners : pc'[k] \in {"issue", "chain"} =>
          slot'[Caller[k]] = ref'[k] /\ obj[ref'[k]].life = "live"
    BY <2>1, <2>2, <2>4 DEF Referenced
  <2>6. Referenced'
    BY <1>0, <1>4, <2>2, <2>4, <2>5, CollectReferenced DEF Referenced
  <2> QED
    BY <1>1, <1>b, <2>1, <2>4, <2>6
<1>8. ASSUME NEW l \in Listeners, NEW h \in Chain, ChainHandler(l, h) PROVE HeldInv'
  <2>1. /\ pc[l] = "chain" /\ pc'[l] \in {"chain", "done"} /\ ref[l] \in Listeners
        /\ \A k \in Listeners : k # l => pc'[k] = pc[k]
        /\ UNCHANGED <<listeners, chan, slot, ref, running, lost, committer>>
    BY <1>0, <1>8 DEF ChainHandler, TypeOK, TypeInv, CallsInRange
  <2>2. Referenced
    BY <1>2, <2>1
  <2>3. obj[ref[l]].life = "live"
    BY <2>1, <2>2 DEF Referenced
  <2> DEFINE d == SetHandler(obj[ref[l]], h, l)
  <2>4. obj' = [obj EXCEPT ![ref[l]] = d] /\ UNCHANGED fault
    BY <1>8, <2>3 DEF ChainHandler
  <2>5. d.life = "live"
    <3>1. obj[ref[l]] \in DeferredType(Listeners) /\ h \in Handlers
      BY <1>4, <2>1 DEF ObjectType
    <3>2. /\ SetHandler(obj[ref[l]], h, l).life = obj[ref[l]].life
          /\ SetHandler(obj[ref[l]], h, l).on = [obj[ref[l]].on EXCEPT ![h] = l]
      BY <3>1, SetHandlerFacts
    <3> QED
      BY <2>3, <3>2
  <2> HIDE DEF d
  <2>6. \A o \in Listeners : obj'[o].life = obj[o].life
    BY <1>4, <2>1, <2>3, <2>4, <2>5 DEF ObjectType
  <2>7. Referenced'
    BY <1>0, <1>4, <2>1, <2>2, <2>6 DEF Referenced, TypeInv, CallsInRange
  <2> QED
    BY <1>1, <1>b, <2>1, <2>4, <2>7
(* A step of the loop. *)
<1>9. ASSUME running', \A l \in Listeners : pc[l] = "done", UNCHANGED <<pc, lost>>,
             \A m \in Messages : committer'[m] \in {Nobody, LoopThread}, fault' # "uaf"
      PROVE  HeldInv'
  BY <1>0, <1>9, <1>c DEF HeldInv, OneCallEach, NoUseAfterFree
<1>10. ASSUME Run PROVE HeldInv'
  BY <1>9, <1>10, <1>b, <1>c DEF Run
<1>11. ASSUME running, UNCHANGED <<running, pc, lost, committer>>, fault' # "uaf" PROVE HeldInv'
  BY <1>9, <1>11, <1>c
<1>12. ASSUME NEW o \in Listeners, SetupOk(o) \/ ChannelClosed(o) \/ ChannelError(o)
       PROVE  HeldInv'
  BY <1>11, <1>12, <1>b DEF SetupOk, Accepted, ChannelClosed, ChannelError
<1>13. ASSUME NEW o \in Listeners, ConsumeOk(o) PROVE HeldInv'
  <2>1. running /\ UNCHANGED <<running, pc, lost, committer>> /\ fault' # "uaf"
    BY <1>13, <1>b DEF ConsumeOk, Accepted, Deref
  <2> QED
    BY <1>11, <2>1
<1>14. ASSUME NEW o \in Listeners, NEW op \in Operations, Rejected(o, op) PROVE HeldInv'
  <2>1. /\ running /\ UNCHANGED <<running, pc, lost, committer>>
        /\ OnError(Head(pending[o]).req, op, LoopThread)
    BY <1>14 DEF Rejected
  <2>2. fault' # "uaf"
    BY <1>0, <1>b, <2>1, OnErrorFacts
  <2> QED
    BY <1>11, <2>1, <2>2
<1>15. ASSUME NEW o \in Listeners, ChannelOnError(o) PROVE HeldInv'
  <2>1. running /\ UNCHANGED <<running, pc, lost, committer>> /\ fault' # "uaf"
    BY <1>15, <1>b DEF ChannelOnError, Report, Deref
  <2> QED
    BY <1>11, <2>1
<1>16. ASSUME NEW o \in Listeners, NEW l \in Listeners, NEW m \in Messages, Arrives(o, l, m),
              fault' # "uaf"
       PROVE  HeldInv'
  <2>1. running /\ UNCHANGED <<running, pc, lost, committer>>
    BY <1>16 DEF Arrives
  <2> QED
    BY <1>11, <1>16, <2>1
<1>17. ASSUME NEW o \in Listeners, NEW l \in Listeners, NEW m \in Messages,
              \/ ReceiveUndecodable(o, l, m) \/ ReceiveThrows(o, l, m)
              \/ \E watched \in BOOLEAN : Receive(o, l, m, watched)
       PROVE  HeldInv'
  <2>1. Arrives(o, l, m)
    BY <1>17 DEF ReceiveUndecodable, ReceiveThrows, Receive
  <2>2. fault' # "uaf"
    BY <1>17, <1>b DEF ReceiveUndecodable, ReceiveThrows, Receive, Report, Deref
  <2> QED
    BY <1>16, <2>1, <2>2
<1>18. ASSUME NEW m \in Messages, NEW t \in Committers, Commit(m, t) PROVE HeldInv'
  <2>1. /\ t = LoopThread /\ committer' = [committer EXCEPT ![m] = t]
        /\ UNCHANGED <<running, pc, lost, listeners, obj, chan, slot, ref, fault>>
    BY <1>18 DEF Commit
  <2>2. \A k \in Messages : committer'[k] \in {Nobody, LoopThread}
    BY <1>0, <1>c, <2>1 DEF TypeOK
  <2> QED
    BY <1>0, <1>b, <1>c, <2>1, <2>2 DEF HeldInv, OneCallEach, Referenced, NoUseAfterFree
<1>19. ASSUME NEW m \in Messages, NEW t \in Committers, CommitRefused(m, t) PROVE FALSE
  BY <1>19, <1>c DEF CommitRefused
<1>20. ASSUME NEW m \in Messages, ClearComplete(m) PROVE FALSE
  BY <1>20, <1>c DEF ClearComplete
<1>21. ASSUME NEW m \in Messages, TxOk(m) \/ TxError(m) \/ ReplyChannelError(m) PROVE HeldInv'
  <2>1. running /\ UNCHANGED <<running, pc, lost, committer>> /\ fault' # "uaf"
    BY <1>21, <1>b DEF TxOk, TxError, ReplyChannelError, Report, Deref
  <2> QED
    BY <1>11, <2>1
<1>22. ASSUME NEW t \in Threads, ConnectionLost(t) PROVE FALSE
  BY <1>22 DEF ConnectionLost
<1>23. ASSUME NEW t \in Threads, LossStep(t) PROVE HeldInv'
  BY <1>11, <1>23, <1>b DEF LossStep, OnLost
<1> QED
  BY <1>3, <1>5, <1>6, <1>7, <1>8, <1>10, <1>12, <1>13, <1>14, <1>15, <1>17, <1>18, <1>19,
     <1>20, <1>21, <1>22, <1>23, <1>b
  DEF Next, CallerStep, SetupStep, Delivery, ReplyStep, Operations

(* When the calls are made before the loop starts, on any threads and with *)
(* any collision of ids, replays are committed on the loop thread and no   *)
(* connection is lost, no caller chains on a destroyed object and no       *)
(* commit() writes to a deleted replay: the slot of the calling thread     *)
(* keeps the object alive, also when another call's set throws it out of   *)
(* the cache.                                                              *)
THEOREM ReferenceAlive ==
  ASSUME ~RunFirst, Committers \subseteq {LoopThread}, "connection" \notin Failures
  PROVE  Spec => []NoUseAfterFree
<1>1. Init => HeldInv
  <2> SUFFICES ASSUME Init PROVE HeldInv
    OBVIOUS
  <2>1. /\ ~running /\ lost = {} /\ fault = "none" /\ listeners = {}
        /\ \A l \in Listeners : pc[l] = "idle" /\ obj[l].life = "unborn"
        /\ \A m \in Messages : committer[m] = Nobody
    BY DEF Init, Unborn
  <2> QED
    BY <2>1, InitType DEF HeldInv, OneCallEach, Referenced, NoUseAfterFree
<1>2. HeldInv /\ [Next]_vars => HeldInv'
  BY StepHeld
<1>3. HeldInv => NoUseAfterFree
  BY DEF HeldInv
<1> QED
  BY <1>1, <1>2, <1>3, PTL DEF Spec

-----------------------------------------------------------------------------
(* The loop thread and the reference                                       *)

(* A call that has not put its object into the cache yet.                  *)
Early == {"idle", "incr", "set"}

(* What the cache holds belongs to calls that have come that far, under    *)
(* ids of their own: set throws out what was stored under the id before.   *)
CachedApart ==
  /\ \A o \in listeners : pc[o] \notin Early
  /\ \A k, o \in listeners : id[k] = id[o] => k = o

(* The object a call holds has its id; once the slot of the call is        *)
(* cleared, the cache has forgotten the object as well.                    *)
ReferencesHeld ==
  \A l \in Listeners :
    /\ ref[l] # Nobody => pc[ref[l]] \notin Early
    /\ pc[l] \in {"issue", "chain"} =>
         id[ref[l]] = id[l] /\ (slot[Caller[l]] = ref[l] \/ ref[l] \notin listeners)

LivingKept == fault = "none" => \A o \in Listeners : obj[o].life = "live" => Kept(o)

KeptInv ==
  /\ TypeInv
  /\ OneCallEach
  /\ CachedApart
  /\ ReferencesHeld
  /\ slot[LoopThread] = Nobody
  /\ LivingKept

(* A step that destroys only what has lost its last holder.                *)
Collects ==
  /\ \A o \in Listeners : obj'[o].life = "live" => fault' # "none" \/ Kept(o)'
  /\ \A o \in Listeners : obj[o].life = "live" /\ Kept(o)' => obj'[o].life = "live"

(* A step of the loop takes objects out of the cache and clears the slot   *)
(* of the loop's own connection.                                           *)
LoopEffect ==
  /\ listeners' \subseteq listeners
  /\ \A t \in Threads : slot'[t] = slot[t] \/ (t = LoopThread /\ slot'[t] = Nobody)
  /\ Collects

LEMMA CollectCollects ==
  ASSUME NEW objects \in ObjectType, NEW channels, Collect(objects, channels),
         \A o \in Listeners : obj[o].life = "live" => objects[o].life = "live"
  PROVE  Collects
<1>1. /\ \A o \in Listeners : Kept(o)' => obj'[o] = objects[o]
      /\ \A o \in Listeners : objects[o] \in DeferredType(Listeners)
  BY CollectFacts DEF ObjectType
<1>2. ASSUME NEW o \in Listeners, obj'[o].life = "live" PROVE Kept(o)'
  <2> SUFFICES ASSUME ~Kept(o)' PROVE FALSE
    OBVIOUS
  <2>1. obj'[o] = IF objects[o].life = "live" THEN Destroy(objects[o]) ELSE objects[o]
    BY DEF Collect
  <2>2. Destroy(objects[o]).life = "freed"
    BY <1>1, DestroyFacts
  <2> QED
    BY <1>2, <2>1, <2>2
<1> QED
  BY <1>1, <1>2 DEF Collects

(* A step that leaves the holders and the lives of the objects alone, or   *)
(* ends in a fault.                                                        *)
LEMMA StillCollects ==
  ASSUME TypeOK, LivingKept, fault = "none",
         \A o \in Listeners : obj'[o].life = obj[o].life,
         \/ fault' # "none"
         \/ /\ listeners \subseteq listeners'
            /\ \A t \in Threads : slot'[t] = slot[t]
            /\ \A l \in Listeners : pc[l] = "issue" => pc'[l] = "issue" /\ ref'[l] = ref[l]
  PROVE  Collects
<1>1. CASE fault' # "none"
  BY <1>1 DEF Collects
<1>2. CASE /\ listeners \subseteq listeners'
           /\ \A t \in Threads : slot'[t] = slot[t]
           /\ \A l \in Listeners : pc[l] = "issue" => pc'[l] = "issue" /\ ref'[l] = ref[l]
  <2>1. \A o \in Listeners : Kept(o) => Kept(o)'
    BY <1>2 DEF Kept
  <2> QED
    BY <2>1 DEF Collects, LivingKept
<1> QED
  BY <1>1, <1>2

(* A report leaves every object as alive as it was.                        *)
LEMMA ReportLives ==
  ASSUME TypeOK, NEW l, NEW code \in BrokerError, Report(l, code), fault = "none"
  PROVE  \A o \in Listeners : obj'[o].life = obj[o].life
<1>1. obj \in ObjectType /\ \A o \in Listeners : obj[o] \in DeferredType(Listeners)
  BY DEF TypeOK, ObjectType
<1>2. \/ obj' = obj
      \/ obj' = [obj EXCEPT ![Target(l)] = report_error(obj[Target(l)], code)]
  BY ReportFacts
<1> QED
  BY <1>1, <1>2, ReportErrorFacts DEF ObjectType

LEMMA OnErrorCollects ==
  ASSUME TypeOK, LivingKept, fault = "none", NEW l, NEW op \in Operations,
         NEW t \in Threads, OnError(l, op, t),
         op # "consume" =>
           \A k \in Listeners : pc[k] = "issue" => pc'[k] = "issue" /\ ref'[k] = ref[k]
  PROVE  /\ Collects
         /\ \A u \in Threads : slot'[u] = slot[u] \/ (u = t /\ slot'[u] = Nobody)
<1>1. CASE op # "consume"
  <2>1. PICK code \in BrokerError :
          Report(l, code) /\ UNCHANGED <<listeners, connections, slot, chan>>
    BY <1>1, Codes DEF OnError, Operations
  <2>2. \A o \in Listeners : obj'[o].life = obj[o].life
    BY <2>1, ReportLives
  <2>3. Collects
    BY <1>1, <2>1, <2>2, StillCollects
  <2> QED
    BY <2>1, <2>3
<1>2. CASE op = "consume"
  <2>1. ConsumeOnError(l, t)
    BY <1>2 DEF OnError
  <2>2. \A u \in Threads : slot'[u] = slot[u] \/ (u = t /\ slot'[u] = Nobody)
    BY <2>1 DEF ConsumeOnError, ResetDeferred, TypeOK
  <2>3. CASE Target(l) = Nobody
    <3>1. fault' = "null" /\ obj' = obj
      BY <2>1, <2>3 DEF ConsumeOnError
    <3>2. Collects
      BY <3>1, StillCollects
    <3> QED
      BY <2>2, <3>2
  <2>4. CASE Target(l) # Nobody
    <3> DEFINE objects == [obj EXCEPT ![Target(l)] = report_error(@, "QUEUE_CONSUMING")]
    <3>1. Collect(objects, chan)
      BY <2>1, <2>4 DEF ConsumeOnError
    <3>2. obj \in ObjectType /\ Target(l) \in Listeners
      BY <2>4, TargetFacts DEF TypeOK, ObjectType
    <3>3. \A o \in Listeners :
            objects[o] \in {obj[o], report_error(obj[o], "QUEUE_CONSUMING")}
      BY <3>2 DEF ObjectType
    <3>4. \A o \in Listeners : /\ objects[o] \in DeferredType(Listeners)
                               /\ objects[o].life = obj[o].life
      BY <3>3, ReportedFacts, Codes
    <3>5. objects \in ObjectType
      BY <3>2, <3>4 DEF ObjectType
    <3> HIDE DEF objects
    <3>6. Collects
      BY <3>1, <3>4, <3>5, CollectCollects
    <3> QED
      BY <2>2, <3>6
  <2> QED
    BY <2>3, <2>4
<1> QED
  BY <1>1, <1>2

(* Every callback of the loop, and whatever the server, the network and    *)
(* the committers do, is such a step.                                      *)
LEMMA LoopCollects ==
  ASSUME TypeInv, LivingKept, fault = "none", Next
  PROVE  \/ \E l \in Listeners : CallerStep(l)
         \/ UNCHANGED callerVars /\ LoopEffect
<1> USE ListenAssumption
<1>0. TypeOK /\ obj \in ObjectType /\ \A o \in Listeners : obj[o] \in DeferredType(Listeners)
  BY DEF TypeInv, TypeOK, ObjectType
<1> USE DEF brokerVars, callerVars, libraryVars, replayVars
<1> DEFINE Frame == UNCHANGED callerVars /\ LoopEffect
<1>1. ASSUME UNCHANGED <<callerVars, listeners, slot>>,
             \A o \in Listeners : obj'[o].life = obj[o].life
      PROVE  Frame
  <2>1. Collects
    BY <1>0, <1>1, StillCollects
  <2> QED
    BY <1>1, <2>1 DEF LoopEffect
<1>2. ASSUME UNCHANGED <<callerVars, listeners, slot, obj>> PROVE Frame
  BY <1>1, <1>2
<1>3. ASSUME UNCHANGED <<callerVars, listeners, slot>>, NEW l, NEW code \in BrokerError,
             Report(l, code)
      PROVE  Frame
  BY <1>0, <1>1, <1>3, ReportLives
<1>4. ASSUME NEW o \in Listeners, SetupOk(o) \/ ChannelClosed(o) \/ ChannelError(o) PROVE Frame
  BY <1>2, <1>4 DEF SetupOk, ChannelClosed, ChannelError
<1>5. ASSUME NEW o \in Listeners, ConsumeOk(o) PROVE Frame
  <2> DEFINE l == Head(pending[o]).req
  <2>1. UNCHANGED <<callerVars, listeners, slot>> /\ Deref(l, report_success(obj[Target(l)]))
    BY <1>5 DEF ConsumeOk
  <2>2. obj' = obj \/ obj' = [obj EXCEPT ![Target(l)] = report_success(obj[Target(l)])]
    BY <2>1 DEF Deref
  <2> HIDE DEF l
  <2>3. \A j \in Listeners : obj'[j].life = obj[j].life
    BY <1>0, <2>2, ReportedFacts DEF ObjectType
  <2> QED
    BY <1>1, <2>1, <2>3
<1>6. ASSUME NEW o \in Listeners, NEW op \in Operations, Rejected(o, op) PROVE Frame
  <2> DEFINE l == Head(pending[o]).req
  <2>1. UNCHANGED callerVars /\ OnError(l, op, LoopThread)
    BY <1>6 DEF Rejected
  <2> HIDE DEF l
  <2>2. listeners' \subseteq listeners
    BY <1>0, <2>1, OnErrorFacts
  <2>3. /\ Collects
        /\ \A u \in Threads : slot'[u] = slot[u] \/ (u = LoopThread /\ slot'[u] = Nobody)
    BY <1>0, <2>1, OnErrorCollects
  <2> QED
    BY <2>1, <2>2, <2>3 DEF LoopEffect
<1>7. ASSUME NEW o \in Listeners, ChannelOnError(o) PROVE Frame
  <2>1. /\ UNCHANGED <<callerVars, listeners, slot>>
        /\ Report(o, "CHANNEL_MESSAGE") \/ UNCHANGED obj
    BY <1>7 DEF ChannelOnError
  <2> QED
    BY <1>2, <1>3, <2>1, Codes
<1>8. ASSUME NEW m \in Messages, NEW o \in Listeners, NEW l \in Listeners,
             ReceiveUndecodable(o, l, m)
      PROVE  Frame
  <2>1. UNCHANGED <<callerVars, listeners, slot>> /\ Report(l, "CHANNEL_MESSAGE")
    BY <1>8 DEF ReceiveUndecodable, Arrives
  <2> QED
    BY <1>3, <2>1, Codes
(* The slot of the loop is cleared, and the data handler called. *)
<1>9. ASSUME UNCHANGED callerVars, listeners' \subseteq listeners,
             slot' = ResetDeferred(LoopThread), NEW l \in Listeners,
             IF Target(l) = Nobody THEN fault' = "null" /\ UNCHANGED obj
             ELSE Collect([obj EXCEPT ![Target(l)] = report_data(@)], chan)
      PROVE  Frame
  <2>1. \A u \in Threads : slot'[u] = slot[u] \/ (u = LoopThread /\ slot'[u] = Nobody)
    BY <1>0, <1>9 DEF ResetDeferred, TypeOK
  <2>2. CASE Target(l) = Nobody
    <3>1. Collects
      BY <1>0, <1>9, <2>2, StillCollects
    <3> QED
      BY <1>9, <2>1, <3>1 DEF LoopEffect
  <2>3. CASE Target(l) # Nobody
    <3> DEFINE objects == [obj EXCEPT ![Target(l)] = report_data(@)]
    <3>1. Target(l) \in Listeners
      BY <1>0, <2>3, TargetFacts
    <3>2. Collect(objects, chan)
      BY <1>9, <2>3
    <3>3. \A o \in Listeners : objects[o] \in {obj[o], report_data(obj[o])}
      BY <1>0, <3>1 DEF ObjectType
    <3>4. \A o \in Listeners : /\ objects[o] \in DeferredType(Listeners)
                               /\ objects[o].life = obj[o].life
      BY <1>0, <3>3, ReportedFacts
    <3>5. objects \in ObjectType
      BY <1>0, <3>4 DEF ObjectType
    <3> HIDE DEF objects
    <3>6. Collects
      BY <3>2, <3>4, <3>5, CollectCollects
    <3> QED
      BY <1>9, <2>1, <3>6 DEF LoopEffect
  <2> QED
    BY <2>2, <2>3
<1>10. ASSUME NEW m \in Messages, NEW o \in Listeners, NEW l \in Listeners,
              (\E watched \in BOOLEAN : Receive(o, l, m, watched)) \/ ReceiveThrows(o, l, m)
       PROVE  Frame
  <2>1. /\ UNCHANGED callerVars /\ listeners' \subseteq listeners
        /\ slot' = ResetDeferred(LoopThread)
        /\ IF Target(l) = Nobody THEN fault' = "null" /\ UNCHANGED obj
           ELSE Collect([obj EXCEPT ![Target(l)] = report_data(@)], chan)
    BY <1>10 DEF Receive, ReceiveThrows, Arrives
  <2> QED
    BY <1>9, <2>1
<1>11. ASSUME NEW m \in Messages, ClearComplete(m) \/ TxOk(m) \/ ReplyChannelError(m) PROVE Frame
  BY <1>2, <1>11 DEF ClearComplete, TxOk, ReplyChannelError
<1>12. ASSUME NEW m \in Messages, TxError(m) PROVE Frame
  <2>1. UNCHANGED <<callerVars, listeners, slot>> /\ Report(by[m], "PUBLISH")
    BY <1>12 DEF TxError
  <2> QED
    BY <1>3, <2>1, Codes
<1>13. ASSUME NEW m \in Messages, NEW t \in Committers, Commit(m, t) PROVE Frame
  BY <1>2, <1>13 DEF Commit
<1>14. ASSUME NEW m \in Messages, NEW t \in Committers, CommitRefused(m, t) PROVE Frame
  <2>1. UNCHANGED <<callerVars, listeners, slot>>
    BY <1>14 DEF CommitRefused
  <2>2. \/ obj' = obj
        \/ obj' = [obj EXCEPT ![Target(by[m])] = report_error(obj[Target(by[m])], "PUBLISH")]
    BY <1>14 DEF CommitRefused
  <2>3. ASSUME NEW o \in Listeners PROVE obj'[o].life = obj[o].life
    <3>1. obj'[o] = obj[o] \/ obj'[o] = report_error(obj[o], "PUBLISH")
      BY <1>0, <2>2 DEF ObjectType
    <3> QED
      BY <1>0, <3>1, ReportedFacts, Codes
  <2> QED
    BY <1>1, <2>1, <2>3
<1>15. ASSUME NEW t \in Threads, ConnectionLost(t) PROVE Frame
  BY <1>2, <1>15 DEF ConnectionLost
<1>16. ASSUME NEW t \in Threads, LossStep(t) PROVE Frame
  <2>1. PICK code \in {"CONNECTION", "CONNECTION_LOST"} : OnLost(t, code)
    BY <1>16 DEF LossStep
  <2>2. /\ UNCHANGED <<callerVars, listeners, slot>>
        /\ obj' = obj \/ obj' = [obj EXCEPT ![slot[t]] = report_error(obj[slot[t]], code)]
    BY <2>1 DEF OnLost
  <2>3. ASSUME NEW o \in Listeners PROVE obj'[o].life = obj[o].life
    <3>1. obj'[o] = obj[o] \/ obj'[o] = report_error(obj[o], code)
      BY <1>0, <2>2 DEF ObjectType
    <3>2. code \in BrokerError
      BY Codes
    <3> QED
      BY <1>0, <3>1, <3>2, ReportedFacts
  <2> QED
    BY <1>1, <2>2, <2>3
<1>17. Run => Frame
  BY <1>2 DEF Run
<1> HIDE DEF Frame
<1>18. Frame => UNCHANGED callerVars /\ LoopEffect
  BY DEF Frame
<1> QED
  BY <1>4, <1>5, <1>6, <1>7, <1>8, <1>10, <1>11, <1>12, <1>13, <1>14, <1>15, <1>16, <1>17, <1>18
  DEF Next, SetupStep, Delivery, ReplyStep, Operations

(* A step of the loop, where no call is made by the loop's own thread.     *)
LEMMA LoopKeeps ==
  ASSUME \A l \in Listeners : Caller[l] # LoopThread,
         KeptInv, TypeInv', fault = "none", UNCHANGED callerVars, LoopEffect
  PROVE  KeptInv'
<1> USE ListenAssumption
<1>1. OneCallEach' /\ CachedApart'
  BY DEF KeptInv, OneCallEach, CachedApart, LoopEffect, callerVars
<1>2. \A l \in Listeners : slot'[Caller[l]] = slot[Caller[l]]
  BY DEF LoopEffect
<1>3. ReferencesHeld'
  BY <1>2 DEF KeptInv, ReferencesHeld, LoopEffect, callerVars
<1>4. slot'[LoopThread] = Nobody
  BY DEF KeptInv, LoopEffect
<1>5. LivingKept'
  BY DEF LoopEffect, Collects, LivingKept
<1> QED
  BY <1>1, <1>3, <1>4, <1>5 DEF KeptInv

(* What a call has a reference to survives such a step.                    *)
LEMMA LoopSpares ==
  ASSUME KeptInv, fault = "none", UNCHANGED callerVars, LoopEffect,
         NEW l \in Listeners, pc[l] \in {"issue", "chain"}, Caller[l] # LoopThread,
         obj[ref[l]].life = "live"
  PROVE  obj'[ref[l]].life = "live"
<1> USE ListenAssumption
<1>1. ref[l] \in Listeners /\ pc'[l] = pc[l] /\ ref'[l] = ref[l]
  BY DEF KeptInv, TypeInv, CallsInRange, callerVars
<1>2. Kept(ref[l])
  BY <1>1 DEF KeptInv, LivingKept
<1>3. CASE slot[Caller[l]] = ref[l]
  <2>1. slot'[Caller[l]] = ref[l]
    BY <1>3 DEF LoopEffect
  <2>2. Kept(ref[l])'
    BY <1>1, <2>1 DEF Kept
  <2> QED
    BY <1>1, <2>2 DEF LoopEffect, Collects
<1>4. CASE slot[Caller[l]] # ref[l]
  <2>1. ref[l] \notin listeners
    BY <1>4 DEF KeptInv, ReferencesHeld
  <2>2. \/ \E t \in Threads : slot[t] = ref[l]
        \/ \E k \in Listeners : pc[k] = "issue" /\ ref[k] = ref[l]
    BY <1>2, <2>1 DEF Kept
  <2>3. \/ \E t \in Threads : slot'[t] = ref[l]
        \/ \E k \in Listeners : pc'[k] = "issue" /\ ref'[k] = ref[l]
    BY <1>1, <2>2 DEF KeptInv, LoopEffect, callerVars
  <2>4. Kept(ref[l])'
    BY <1>1, <2>3 DEF Kept
  <2> QED
    BY <1>1, <2>4 DEF LoopEffect, Collects
<1> QED
  BY <1>3, <1>4

(* A step of a call changes the call, unless it ends in a null reference.  *)
LEMMA CallerMoves ==
  ASSUME TypeInv, fault = "none", NEW l \in Listeners, CallerStep(l)
  PROVE  ~UNCHANGED callerVars \/ UNCHANGED obj
<1> USE DEF callerVars
<1>0. TypeOK
  BY DEF TypeInv
<1>1. CASE ReadId(l)
  BY <1>0, <1>1 DEF ReadId, TypeOK
<1>2. CASE WriteId(l)
  BY <1>0, <1>2 DEF WriteId, TypeOK
<1>3. CASE SetListener(l)
  BY <1>0, <1>3 DEF SetListener, TypeOK
<1>4. CASE GetListener(l)
  <2>1. CASE Target(l) = Nobody
    BY <1>4, <2>1 DEF GetListener
  <2>2. CASE Target(l) # Nobody
    <3>1. pc[l] = "get" /\ pc' = [pc EXCEPT ![l] = "issue"]
      BY <1>4, <2>2 DEF GetListener
    <3> QED
      BY <1>0, <3>1 DEF TypeOK
  <2> QED
    BY <2>1, <2>2
<1>5. CASE IssueNext(l)
  <2>1. issued'[l] = issued[l] + 1 /\ issued[l] \in Nat
    BY <1>0, <1>5, IssuedOperation, ListenAssumption DEF TypeOK
  <2>2. issued' # issued
    BY <2>1
  <2> QED
    BY <2>2
<1>6. ASSUME NEW h \in Chain, ChainHandler(l, h) PROVE ~UNCHANGED callerVars
  <2>1. h \notin chained[l] /\ chained' = [chained EXCEPT ![l] = chained[l] \cup {h}]
    BY <1>6 DEF ChainHandler
  <2>2. h \in chained'[l]
    BY <1>0, <2>1 DEF TypeOK
  <2> QED
    BY <2>1, <2>2
<1> QED
  BY <1>1, <1>2, <1>3, <1>4, <1>5, <1>6 DEF CallerStep

(* A step of a call.                                                       *)
LEMMA CallerKeeps ==
  ASSUME \A l \in Listeners : Caller[l] # LoopThread,
         KeptInv, TypeInv', fault = "none", NEW l \in Listeners, CallerStep(l)
  PROVE  KeptInv'
<1> USE ListenAssumption
<1>0. /\ TypeInv /\ TypeOK /\ TypeOK' /\ CallsInRange
      /\ OneCallEach /\ CachedApart /\ ReferencesHeld /\ slot[LoopThread] = Nobody /\ LivingKept
      /\ listeners \subseteq Listeners /\ obj \in ObjectType
      /\ \A o \in Listeners : obj[o] \in DeferredType(Listeners)
  BY DEF KeptInv, TypeInv, TypeOK, ObjectType
<1> USE DEF brokerVars, callerVars, libraryVars, replayVars
(* A call that goes on remains the only one of its thread. *)
<1>1. ASSUME pc[l] # "idle" \/ (\A k \in Listeners : Caller[k] = Caller[l] => pc[k] \in {"idle", "done"}),
             pc[l] # "done", \A k \in Listeners : k # l => pc'[k] = pc[k]
      PROVE  OneCallEach'
  BY <1>0, <1>1 DEF OneCallEach
<1>2. CASE ReadId(l)
  <2>1. /\ pc[l] = "idle" /\ pc' = [pc EXCEPT ![l] = "incr"] /\ id' = [id EXCEPT ![l] = n]
        /\ \A k \in Listeners : Caller[k] = Caller[l] => pc[k] \in {"idle", "done"}
        /\ UNCHANGED <<listeners, obj, slot, ref, fault>>
    BY <1>2 DEF ReadId
  <2>2. /\ pc'[l] = "incr" /\ \A k \in Listeners : k # l => pc'[k] = pc[k] /\ id'[k] = id[k]
    BY <1>0, <2>1 DEF TypeOK
  <2>3. OneCallEach'
    BY <1>1, <2>1, <2>2
  <2>4. l \notin listeners /\ \A k \in Listeners : ref[k] # l
    BY <1>0, <2>1 DEF CachedApart, ReferencesHeld, Early
  <2>5. CachedApart'
    BY <1>0, <2>1, <2>2, <2>4 DEF CachedApart
  <2>6. \A k \in Listeners : ref[k] \in Listeners \cup {Nobody}
    BY <1>0 DEF TypeOK
  <2>7. \A k \in Listeners : pc[k] \in {"issue", "chain"} => ref[k] \in Listeners
    BY <1>0 DEF CallsInRange
  <2>8. ReferencesHeld'
    BY <1>0, <2>1, <2>2, <2>4, <2>6, <2>7 DEF ReferencesHeld
  <2>9. LivingKept'
    <3>1. \A o \in Listeners : Kept(o) => Kept(o)'
      BY <2>1, <2>2 DEF Kept
    <3> QED
      BY <1>0, <2>1, <3>1 DEF LivingKept
  <2> QED
    BY <1>0, <2>1, <2>3, <2>5, <2>8, <2>9 DEF KeptInv
<1>3. CASE WriteId(l)
  <2>1. /\ pc[l] = "incr" /\ pc' = [pc EXCEPT ![l] = "set"]
        /\ UNCHANGED <<listeners, obj, slot, id, ref, fault>>
    BY <1>3 DEF WriteId
  <2>2. /\ pc'[l] = "set" /\ \A k \in Listeners : k # l => pc'[k] = pc[k]
    BY <1>0, <2>1 DEF TypeOK
  <2>3. OneCallEach'
    BY <1>1, <2>1, <2>2
  <2>4. l \notin listeners /\ \A k \in Listeners : ref[k] # l
    BY <1>0, <2>1 DEF CachedApart, ReferencesHeld, Early
  <2>5. CachedApart'
    BY <1>0, <2>1, <2>2, <2>4 DEF CachedApart
  <2>6. \A k \in Listeners : ref[k] \in Listeners \cup {Nobody}
    BY <1>0 DEF TypeOK
  <2>7. ReferencesHeld'
    BY <1>0, <2>1, <2>2, <2>4, <2>6 DEF ReferencesHeld
  <2>8. LivingKept'
    <3>1. \A o \in Listeners : Kept(o) => Kept(o)'
      BY <2>1, <2>2 DEF Kept
    <3> QED
      BY <1>0, <2>1, <3>1 DEF LivingKept
  <2> QED
    BY <1>0, <2>1, <2>3, <2>5, <2>7, <2>8 DEF KeptInv
<1>4. CASE SetListener(l)
  <2>1. /\ pc[l] = "set" /\ pc' = [pc EXCEPT ![l] = "get"]
        /\ listeners' = (listeners \ {Target(l)}) \cup {l}
        /\ UNCHANGED <<slot, id, ref, fault>>
    BY <1>4 DEF SetListener
  <2>2. /\ pc'[l] = "get" /\ \A k \in Listeners : k # l => pc'[k] = pc[k]
    BY <1>0, <2>1 DEF TypeOK
  <2>3. OneCallEach'
    BY <1>1, <2>1, <2>2
  <2>4. \A k \in Listeners : ref[k] # l
    BY <1>0, <2>1 DEF ReferencesHeld, Early
  <2>5. \A o \in listeners : id[o] = id[l] => o = Target(l)
    <3>1. ASSUME NEW o \in listeners, id[o] = id[l] PROVE o = Target(l)
      <4>1. Target(l) \in listeners /\ id[Target(l)] = id[l]
        BY <3>1 DEF Target, Get
      <4> QED
        BY <1>0, <3>1, <4>1 DEF CachedApart
    <3> QED
      BY <3>1
  <2>6. CachedApart'
    BY <1>0, <2>1, <2>2, <2>5 DEF CachedApart, Early
  <2>7. ReferencesHeld'
    BY <1>0, <2>1, <2>2, <2>4 DEF ReferencesHeld, Early, TypeOK
  <2> DEFINE channels == [chan EXCEPT ![l] = NewChannel(Caller[l])]
  <2>8. PICK garbage \in BOOLEAN : Collect([obj EXCEPT ![l] = Construct(garbage)], channels)
    BY <1>4 DEF SetListener
  <2> DEFINE objects == [obj EXCEPT ![l] = Construct(garbage)]
  <2>9. /\ objects \in ObjectType /\ objects[l].life = "live"
        /\ \A k \in Listeners : k # l => objects[k] = obj[k]
    BY <1>0, ConstructType, ConstructFacts DEF ObjectType
  <2> HIDE DEF objects
  <2>10. Collects
    BY <2>8, <2>9, CollectCollects DEF objects
  <2>11. LivingKept'
    BY <2>10 DEF Collects, LivingKept
  <2> QED
    BY <1>0, <2>1, <2>3, <2>6, <2>7, <2>11 DEF KeptInv
<1>5. CASE GetListener(l)
  <2>1. pc[l] = "get" /\ UNCHANGED <<listeners, id>>
    BY <1>5 DEF GetListener
  <2>2. CASE Target(l) = Nobody
    <3>1. fault' = "null" /\ UNCHANGED <<obj, slot, pc, ref>>
      BY <1>5, <2>2 DEF GetListener
    <3> QED
      BY <1>0, <2>1, <3>1
      DEF KeptInv, OneCallEach, CachedApart, ReferencesHeld, LivingKept
  <2>3. CASE Target(l) # Nobody
    <3> DEFINE d == Target(l)
               objects == IF chan[d] = "open" THEN obj
                          ELSE [obj EXCEPT ![d] = report_error(@, "CHANNEL_MESSAGE")]
    <3>1. d \in listeners /\ d \in Listeners /\ id[d] = id[l]
      BY <1>0, <2>3, TargetFacts
    <3>2. /\ ref' = [ref EXCEPT ![l] = d] /\ slot' = [slot EXCEPT ![Caller[l]] = d]
          /\ pc' = [pc EXCEPT ![l] = "issue"] /\ UNCHANGED fault /\ Collect(objects, chan)
      BY <1>5, <2>3 DEF GetListener
    <3>3. \A o \in Listeners : objects[o] \in {obj[o], report_error(obj[o], "CHANNEL_MESSAGE")}
      BY <1>0, <3>1 DEF ObjectType
    <3>4. ASSUME NEW o \in Listeners
          PROVE  objects[o] \in DeferredType(Listeners) /\ objects[o].life = obj[o].life
      <4>1. "CHANNEL_MESSAGE" \in BrokerError
        BY Codes
      <4>2. objects[o] \in {obj[o], report_error(obj[o], "CHANNEL_MESSAGE")}
        BY <3>3
      <4> HIDE DEF objects
      <4> QED
        BY <1>0, <4>1, <4>2, ReportedFacts
    <3>5. objects \in ObjectType
      <4>1. objects = [o \in Listeners |-> objects[o]]
        BY <1>0 DEF ObjectType
      <4> HIDE DEF objects
      <4> QED
        BY <3>4, <4>1 DEF ObjectType
    <3> HIDE DEF objects, d
    <3>6. LivingKept'
      BY <3>2, <3>4, <3>5, CollectCollects DEF Collects, LivingKept
    <3>7. /\ pc'[l] = "issue" /\ ref'[l] = d /\ slot'[Caller[l]] = d
          /\ \A k \in Listeners : k # l => pc'[k] = pc[k] /\ ref'[k] = ref[k]
          /\ \A t \in Threads : t # Caller[l] => slot'[t] = slot[t]
      BY <1>0, <3>2 DEF TypeOK
    <3>8. OneCallEach'
      BY <1>1, <2>1, <3>7
    <3>9. CachedApart'
      BY <1>0, <2>1, <3>7 DEF CachedApart, Early
    <3>10. ASSUME NEW k \in Listeners, ref'[k] # Nobody PROVE pc'[ref'[k]] \notin Early
      <4>1. ref'[k] \in Listeners
        BY <1>0, <3>10 DEF TypeOK
      <4>2. pc[ref'[k]] \notin Early
        <5>1. CASE k = l
          BY <1>0, <3>1, <3>7, <5>1 DEF CachedApart
        <5>2. CASE k # l
          BY <1>0, <3>7, <3>10, <5>2 DEF ReferencesHeld
        <5> QED
          BY <5>1, <5>2
      <4> QED
        BY <3>7, <4>1, <4>2 DEF Early
    <3>11. ASSUME NEW k \in Listeners, pc'[k] \in {"issue", "chain"}
           PROVE  id[ref'[k]] = id[k] /\ (slot'[Caller[k]] = ref'[k] \/ ref'[k] \notin listeners)
      <4>1. CASE k = l
        BY <3>1, <3>7, <4>1
      <4>2. CASE k # l
        <5>1. pc[k] \in {"issue", "chain"} /\ Caller[k] # Caller[l]
          BY <1>0, <2>1, <3>7, <3>11, <4>2 DEF OneCallEach
        <5> QED
          BY <1>0, <3>7, <4>2, <5>1 DEF ReferencesHeld
      <4> QED
        BY <4>1, <4>2
    <3>12. ReferencesHeld'
      BY <2>1, <3>10, <3>11 DEF ReferencesHeld
    <3>13. slot'[LoopThread] = Nobody
      BY <1>0, <3>7
    <3> QED
      BY <1>0, <3>6, <3>8, <3>9, <3>12, <3>13 DEF KeptInv
  <2> QED
    BY <2>2, <2>3
<1>6. CASE IssueNext(l)
  <2> DEFINE op == Setup[issued'[l]]
  <2>1. /\ pc[l] = "issue" /\ ref[l] \in Listeners /\ pc'[l] \in {"issue", "chain"}
        /\ \A k \in Listeners : k # l => pc'[k] = pc[k]
        /\ op \in Operations /\ (op # "consume" => pc'[l] = "issue")
        /\ UNCHANGED <<id, ref>>
    <3>1. /\ pc[l] = "issue" /\ ref[l] \in Listeners
          /\ op \in Operations /\ (op = "consume" <=> issued'[l] = Keys + 2)
          /\ pc'[l] = IF issued'[l] = Keys + 2 THEN "chain" ELSE "issue"
          /\ \A k \in Listeners : k # l => pc'[k] = pc[k]
      BY <1>0, <1>6, IssuedOperation
    <3> HIDE DEF op
    <3>2. UNCHANGED <<id, ref>>
      BY <1>6 DEF IssueNext
    <3> QED
      BY <3>1, <3>2
  <2>2. OneCallEach'
    BY <1>1, <2>1
  (* Either nothing is taken from the cache and no slot cleared, or both. *)
  <2>3. /\ Collects
        /\ \/ listeners' = listeners /\ \A t \in Threads : slot'[t] = slot[t]
           \/ /\ listeners' = listeners \ {Target(l)}
              /\ \A t \in Threads : slot'[t] = slot[t] \/ (t = Caller[l] /\ slot'[t] = Nobody)
    <3>1. CASE chan[ref[l]] = "open"
      <4>1. Collect(obj, chan) /\ UNCHANGED <<listeners, slot>>
        BY <1>6, <3>1 DEF IssueNext
      <4>2. Collects
        BY <1>0, <4>1, CollectCollects
      <4> QED
        BY <4>1, <4>2
    <3>2. CASE chan[ref[l]] # "open"
      <4>1. OnError(l, op, Caller[l]) /\ Caller[l] \in Threads
        BY <1>6, <3>2 DEF IssueNext
      <4> HIDE DEF op
      <4>2. op # "consume" =>
              \A k \in Listeners : pc[k] = "issue" => pc'[k] = "issue" /\ ref'[k] = ref[k]
        BY <2>1
      <4>3. /\ Collects
            /\ \A t \in Threads : slot'[t] = slot[t] \/ (t = Caller[l] /\ slot'[t] = Nobody)
        BY <1>0, <2>1, <4>1, <4>2, OnErrorCollects
      <4>4. /\ op # "consume" => listeners' = listeners /\ slot' = slot
            /\ op = "consume" => listeners' = listeners \ {Target(l)}
        BY <1>0, <2>1, <4>1, OnErrorFacts
      <4> QED
        BY <4>3, <4>4
    <3> QED
      BY <3>1, <3>2
  <2> HIDE DEF op
  <2>4. LivingKept'
    BY <2>3 DEF Collects, LivingKept
  <2>5. CachedApart'
    BY <1>0, <2>1, <2>3 DEF CachedApart, Early
  <2>6. ASSUME NEW k \in Listeners, ref'[k] # Nobody PROVE pc'[ref'[k]] \notin Early
    <3>1. ref[k] # Nobody /\ pc[ref[k]] \notin Early /\ ref[k] \in Listeners
      BY <1>0, <2>1, <2>6 DEF ReferencesHeld, TypeOK
    <3> QED
      BY <2>1, <3>1 DEF Early
  (* What a call holds under an id is what the cache has under it. *)
  <2>7. ref[l] \in listeners => ref[l] = Target(l)
    <3>1. id[ref[l]] = id[l]
      BY <1>0, <2>1 DEF ReferencesHeld
    <3>2. ref[l] \in listeners => Target(l) \in listeners /\ id[Target(l)] = id[l]
      BY <3>1 DEF Target, Get
    <3> QED
      BY <1>0, <3>1, <3>2 DEF CachedApart
  <2>8. ASSUME NEW k \in Listeners, pc'[k] \in {"issue", "chain"}
        PROVE  id[ref[k]] = id[k] /\ (slot'[Caller[k]] = ref[k] \/ ref[k] \notin listeners')
    <3>1. /\ pc[k] \in {"issue", "chain"} /\ id[ref[k]] = id[k]
          /\ slot[Caller[k]] = ref[k] \/ ref[k] \notin listeners
      BY <1>0, <2>1, <2>8 DEF ReferencesHeld
    <3>2. CASE k = l
      BY <2>3, <2>7, <3>1, <3>2
    <3>3. CASE k # l
      <4>1. Caller[k] # Caller[l]
        BY <1>0, <2>1, <3>1, <3>3 DEF OneCallEach
      <4> QED
        BY <2>3, <3>1, <4>1
    <3> QED
      BY <3>2, <3>3
  <2>9. ReferencesHeld'
    BY <2>1, <2>6, <2>8 DEF ReferencesHeld
  <2>10. slot'[LoopThread] = Nobody
    BY <1>0, <2>3
  <2> QED
    BY <1>0, <2>2, <2>4, <2>5, <2>9, <2>10 DEF KeptInv
<1>7. ASSUME NEW h \in Chain, ChainHandler(l, h) PROVE KeptInv'
  <2>1. /\ pc[l] = "chain" /\ pc'[l] \in {"chain", "done"} /\ ref[l] \in Listeners
        /\ \A k \in Listeners : k # l => pc'[k] = pc[k]
        /\ UNCHANGED <<listeners, slot, id, ref>>
        /\ \/ fault' = "uaf" /\ UNCHANGED obj
           \/ obj' = [obj EXCEPT ![ref[l]] = SetHandler(@, h, l)] /\ UNCHANGED fault
    BY <1>0, <1>7 DEF ChainHandler, TypeOK, CallsInRange
  <2>2. OneCallEach'
    BY <1>1, <2>1
  <2>3. CachedApart' /\ slot'[LoopThread] = Nobody
    BY <1>0, <2>1 DEF CachedApart, Early
  <2>4. ASSUME NEW k \in Listeners, ref'[k] # Nobody PROVE pc'[ref'[k]] \notin Early
    <3>1. ref[k] # Nobody /\ pc[ref[k]] \notin Early /\ ref[k] \in Listeners
      BY <1>0, <2>1, <2>4 DEF ReferencesHeld, TypeOK
    <3> QED
      BY <2>1, <3>1 DEF Early
  <2>5. ReferencesHeld'
    BY <1>0, <2>1, <2>4 DEF ReferencesHeld
  <2>6. ASSUME NEW o \in Listeners PROVE obj'[o].life = obj[o].life
    <3>1. obj'[o] = obj[o] \/ obj'[o] = SetHandler(obj[o], h, l)
      BY <1>0, <2>1 DEF ObjectType
    <3>2. h \in Handlers /\ obj[o] \in DeferredType(Listeners)
      BY <1>0, ListenAssumption
    <3>3. /\ SetHandler(obj[o], h, l).life = obj[o].life
          /\ SetHandler(obj[o], h, l).on = [obj[o].on EXCEPT ![h] = l]
          /\ SetHandler(obj[o], h, l).failed = obj[o].failed
      BY <3>2, SetHandlerFacts
    <3> QED
      BY <3>1, <3>3
  <2>7. \A k \in Listeners : pc[k] = "issue" => pc'[k] = "issue" /\ ref'[k] = ref[k]
    BY <2>1
  <2>8. LivingKept'
    BY <1>0, <2>1, <2>6, <2>7, StillCollects DEF Collects, LivingKept
  <2> QED
    BY <1>0, <2>2, <2>3, <2>5, <2>8 DEF KeptInv
<1> QED
  BY <1>2, <1>3, <1>4, <1>5, <1>6, <1>7 DEF CallerStep

(* When no call of listen is made by the thread that runs the loop, the    *)
(* loop never destroys the object that a call works with or has returned   *)
(* and whose handlers are still being chained: with any number of calling  *)
(* threads, ids that collide, and every failure.  What does destroy it is  *)
(* an operation that is refused on the caller's own thread.                *)
THEOREM LoopSparesReferences ==
  ASSUME \A l \in Listeners : Caller[l] # LoopThread
  PROVE  Spec => ReferenceKept
<1> USE ListenAssumption
<1>1. Init => KeptInv
  <2> SUFFICES ASSUME Init PROVE KeptInv
    OBVIOUS
  <2>1. /\ listeners = {} /\ slot[LoopThread] = Nobody
        /\ \A l \in Listeners : pc[l] = "idle" /\ ref[l] = Nobody /\ obj[l].life = "unborn"
    BY DEF Init, Unborn
  <2> QED
    BY <2>1, InitType DEF KeptInv, OneCallEach, CachedApart, ReferencesHeld, LivingKept
<1>2. ASSUME KeptInv, [Next]_vars
      PROVE  KeptInv' /\ [UNCHANGED callerVars =>
                            \A l \in Listeners :
                              (/\ pc[l] \in {"issue", "chain"} /\ Caller[l] # LoopThread
                               /\ obj[ref[l]].life = "live") => obj'[ref[l]].life = "live"]_vars
  <2>1. TypeInv /\ TypeInv'
    BY <1>2, StepType DEF KeptInv
  <2>2. CASE UNCHANGED vars
    <3>1. UNCHANGED <<pc, id, ref, listeners, obj, slot, fault>>
      BY <2>2 DEF vars, brokerVars, callerVars
    <3>2. \A o \in Listeners : Kept(o) <=> Kept(o)'
      BY <3>1 DEF Kept
    <3> QED
      BY <1>2, <2>1, <2>2, <3>1, <3>2
      DEF KeptInv, OneCallEach, CachedApart, ReferencesHeld, LivingKept
  <2>3. CASE fault = "none" /\ Next
    <3>1. CASE UNCHANGED callerVars /\ LoopEffect
      BY <1>2, <2>1, <2>3, <3>1, LoopKeeps, LoopSpares
    <3>2. ASSUME NEW l \in Listeners, CallerStep(l)
          PROVE  KeptInv' /\ (UNCHANGED callerVars => UNCHANGED obj)
      BY <1>2, <2>1, <2>3, <3>2, CallerKeeps, CallerMoves
    <3> QED
      BY <1>2, <2>1, <2>3, <3>1, <3>2, LoopCollects DEF KeptInv
  <2> QED
    BY <1>2, <2>2, <2>3 DEF Next
<1> QED
  BY <1>1, <1>2, PTL DEF Spec, ReferenceKept

-----------------------------------------------------------------------------
(* Dropped requests                                                        *)

(* Every handler is chained before the loop runs, cached objects live, and *)
(* neither failing nor dropping goes without a report to on_error.         *)
ReadyInv ==
  /\ SetupInv
  /\ running => \A l \in Listeners : pc[l] = "done"
  /\ ~running => /\ \A l \in Listeners : consuming[l] = {}
                 /\ \A m \in Messages : msg[m] = "queued"
  /\ \A l \in Listeners : /\ pc[l] \in {"idle", "incr", "set"} => chained[l] = {}
                          /\ pc[l] \in {"get", "issue"} => chained[l] = {}
                          /\ pc[l] = "done" => chained[l] = Chain
  /\ \A l \in Listeners :
       obj[l].life = "live" => \A h \in chained[l] : obj[l].on[h] # Nobody
  /\ \A l \in listeners : obj[l].life = "live"
  /\ fault # "abort" =>
       \A l \in Listeners : l \in consuming[l] /\ obj[l].failed = TRUE => Told(obj[l])
  /\ \A m \in Messages : msg[m] = "dropped" => by[m] \in Listeners /\ Told(obj[by[m]])

LEMMA InitReady == Init => ReadyInv
<1> SUFFICES ASSUME Init PROVE ReadyInv
  OBVIOUS
<1>1. \A l \in Listeners : obj[l].life = "unborn"
  BY DEF Init, Unborn
<1> QED
  BY <1>1, InitSetup DEF Init, ReadyInv

(* A callback of the loop. *)
LEMMA LoopReady ==
  ASSUME {"data", "error"} \subseteq Chain,
         ReadyInv, SetupInv', fault = "none",
         running, UNCHANGED <<running, pc, chained>>,
         \A l \in Listeners : Evolves(obj'[l], obj[l]),
         \A l \in listeners' : obj'[l].life = "live",
         fault' # "abort" =>
           \A l \in Listeners : l \in consuming'[l] => l \in consuming[l] \/ obj'[l].failed = FALSE,
         \A m \in Messages : msg'[m] = "dropped" =>
           \/ msg[m] = "dropped" /\ by'[m] = by[m]
           \/ by'[m] \in Listeners /\ Told(obj'[by'[m]])
  PROVE  ReadyInv'
<1> USE ListenAssumption
<1>0. TypeOK /\ TypeOK'
  BY DEF ReadyInv, SetupInv, TypeInv
<1>1. \A l \in Listeners : pc[l] = "done" /\ chained[l] = Chain
  BY DEF ReadyInv
<1>2. \A l \in Listeners : obj'[l].life = "live" => \A h \in chained[l] : obj'[l].on[h] # Nobody
  BY DEF ReadyInv, Evolves
<1>3. ASSUME fault' # "abort", NEW l \in Listeners, l \in consuming'[l], obj'[l].failed = TRUE
      PROVE  Told(obj'[l])
  <2>1. l \in consuming[l]
    BY <1>3
  <2>2. l \in listeners'
    BY <1>3 DEF SetupInv, Established, Line
  <2>3. obj'[l].life = "live" /\ obj[l].life = "live"
    BY <2>1, <2>2 DEF Evolves
  <2>4. obj[l].on["error"] # Nobody
    BY <1>1, <2>1, <2>3 DEF ReadyInv
  <2>5. obj[l].failed = TRUE \/ Told(obj'[l])
    BY <1>3, <2>1, <2>3, <2>4 DEF Evolves
  <2>6. obj[l].failed = TRUE => Told(obj[l])
    BY <2>1 DEF ReadyInv
  <2> QED
    BY <1>0, <2>1, <2>5, <2>6, ToldKept DEF TypeOK
<1>4. ASSUME NEW m \in Messages, msg'[m] = "dropped"
      PROVE  by'[m] \in Listeners /\ Told(obj'[by'[m]])
  <2>1. CASE msg[m] = "dropped" /\ by'[m] = by[m]
    <3>1. by[m] \in Listeners /\ Told(obj[by[m]])
      BY <2>1 DEF ReadyInv
    <3>2. Told(obj'[by[m]])
      BY <1>0, <3>1, ToldKept DEF TypeOK
    <3> QED
      BY <2>1, <3>1, <3>2
  <2> QED
    BY <1>4, <2>1
<1> QED
  BY <1>1, <1>2, <1>3, <1>4 DEF ReadyInv

(* A step of a caller, before the loop runs. *)
LEMMA CallReady ==
  ASSUME ReadyInv, SetupInv', NEW l \in Listeners, pc[l] # "done",
         UNCHANGED <<running, consuming, msg>>,
         \A k \in Listeners : k # l => pc'[k] = pc[k] /\ chained'[k] = chained[k],
         \A k \in Listeners : k # l => Evolves(obj'[k], obj[k]),
         pc'[l] \in {"idle", "incr", "set", "get", "issue"} => chained'[l] = {},
         pc'[l] = "done" => chained'[l] = Chain,
         obj'[l].life = "live" => \A h \in chained'[l] : obj'[l].on[h] # Nobody,
         \A k \in listeners' : obj'[k].life = "live"
  PROVE  ReadyInv'
<1>1. ~running
  BY DEF ReadyInv
<1>2. /\ \A k \in Listeners : consuming'[k] = {}
      /\ \A m \in Messages : msg'[m] = "queued"
  BY <1>1 DEF ReadyInv
<1>3. \A k \in Listeners : /\ pc'[k] \in {"idle", "incr", "set"} => chained'[k] = {}
                           /\ pc'[k] \in {"get", "issue"} => chained'[k] = {}
                           /\ pc'[k] = "done" => chained'[k] = Chain
  BY DEF ReadyInv
<1>4. \A k \in Listeners :
        obj'[k].life = "live" => \A h \in chained'[k] : obj'[k].on[h] # Nobody
  BY DEF ReadyInv, Evolves
<1> QED
  BY <1>1, <1>2, <1>3, <1>4 DEF ReadyInv

LEMMA CallerReady ==
  ASSUME OneCallerThread, ReadyInv, SetupInv', fault = "none", NEW l \in Listeners, CallerStep(l)
  PROVE  ReadyInv'
<1> USE ListenAssumption
<1>0. TypeInv /\ TypeOK /\ CallInv /\ (\A o \in Listeners : Line(o)) /\ TypeOK'
  BY DEF ReadyInv, SetupInv, TypeInv, Established
<1>1. /\ obj \in ObjectType /\ listeners \subseteq Listeners
      /\ \A k \in Listeners : obj[k] \in DeferredType(Listeners) /\ Evolves(obj[k], obj[k])
      /\ \A k \in listeners : obj[k].life = "live"
  BY <1>0, ReportedFacts DEF TypeOK, ObjectType, ReadyInv
<1> USE DEF brokerVars, callerVars, libraryVars, replayVars
(* A step that chains nothing and makes no object. *)
<1>2. ASSUME pc[l] \in {"idle", "incr", "get", "issue"},
             pc'[l] \in {"incr", "set", "get", "issue", "chain"},
             UNCHANGED <<running, consuming, msg, chained>>,
             \A k \in Listeners : k # l => pc'[k] = pc[k],
             \A k \in Listeners : Evolves(obj'[k], obj[k]),
             \A k \in listeners' : obj'[k].life = "live"
      PROVE  ReadyInv'
  <2>1. chained'[l] = {}
    BY <1>2 DEF ReadyInv
  <2>2. \A k \in Listeners : k # l => pc'[k] = pc[k] /\ chained'[k] = chained[k]
    BY <1>2
  <2>3. pc[l] # "done" /\ pc'[l] # "done"
    BY <1>2
  <2> QED
    BY <1>2, <2>1, <2>2, <2>3, CallReady
<1>3. ASSUME ReadId(l) \/ WriteId(l) PROVE ReadyInv'
  <2>1. /\ pc[l] \in {"idle", "incr"} /\ pc'[l] \in {"incr", "set"}
        /\ \A k \in Listeners : k # l => pc'[k] = pc[k]
        /\ UNCHANGED <<listeners, obj, running, consuming, msg, chained>>
    BY <1>0, <1>3 DEF ReadId, WriteId, TypeOK
  <2> QED
    BY <1>1, <1>2, <2>1
<1>4. ASSUME SetListener(l) PROVE ReadyInv'
  <2>1. PICK garbage \in BOOLEAN :
          Collect([obj EXCEPT ![l] = Construct(garbage)],
                  [chan EXCEPT ![l] = NewChannel(Caller[l])])
    BY <1>4 DEF SetListener
  <2> DEFINE objects == [obj EXCEPT ![l] = Construct(garbage)]
             channels == [chan EXCEPT ![l] = NewChannel(Caller[l])]
  <2>2. /\ objects \in ObjectType /\ objects[l].life = "live"
        /\ \A k \in Listeners : k # l => objects[k] = obj[k]
    BY <1>1, ConstructType, ConstructFacts DEF ObjectType
  <2>3. Collect(objects, channels)
    BY <2>1
  <2> HIDE DEF objects, channels
  <2>4. /\ \A k \in Listeners : obj'[k] \in {objects[k], Destroy(objects[k])}
        /\ \A k \in Listeners : Kept(k)' => obj'[k] = objects[k]
    BY <2>2, <2>3, CollectFacts
  <2>5. /\ pc[l] = "set" /\ pc' = [pc EXCEPT ![l] = "get"]
        /\ listeners' = (listeners \ {Target(l)}) \cup {l}
        /\ UNCHANGED <<running, consuming, msg, chained>>
    BY <1>4 DEF SetListener
  <2>6. pc'[l] = "get" /\ \A k \in Listeners : k # l => pc'[k] = pc[k] /\ chained'[k] = chained[k]
    BY <1>0, <2>5 DEF TypeOK
  <2>7. \A k \in Listeners : k # l => Evolves(obj'[k], obj[k])
    BY <1>1, <2>2, <2>4, DestroyEvolves
  <2>8. ASSUME NEW k \in listeners' PROVE obj'[k].life = "live"
    <3>1. k \in Listeners /\ (k = l \/ k \in listeners)
      BY <1>1, <2>5, <2>8
    <3>2. \A o \in Listeners : o \in listeners' => Kept(o)'
      BY DEF Kept
    <3>3. objects[k].life = "live"
      BY <1>1, <2>2, <3>1
    <3> QED
      BY <2>4, <2>8, <3>1, <3>2, <3>3
  <2>9. chained'[l] = {} /\ pc[l] # "done" /\ pc'[l] # "done"
    BY <2>5, <2>6 DEF ReadyInv
  <2> QED
    BY <2>5, <2>6, <2>7, <2>8, <2>9, CallReady
<1>5. ASSUME GetListener(l) PROVE ReadyInv'
  <2>1. pc[l] = "get" /\ UNCHANGED <<listeners, running, consuming, msg, chained>>
    BY <1>5 DEF GetListener
  <2>2. l \in listeners /\ Target(l) = l /\ l # Nobody
    BY <1>0, <2>1, OwnTarget DEF Line, Awaits
  <2> DEFINE objects == IF chan[l] = "open" THEN obj
                        ELSE [obj EXCEPT ![l] = report_error(@, "CHANNEL_MESSAGE")]
  <2>3. pc' = [pc EXCEPT ![l] = "issue"] /\ Collect(objects, chan)
    BY <1>5, <2>2 DEF GetListener
  <2>4. pc'[l] = "issue" /\ \A k \in Listeners : k # l => pc'[k] = pc[k]
    BY <1>0, <2>3 DEF TypeOK
  <2>5. \A k \in Listeners : objects[k] \in {obj[k], report_error(obj[k], "CHANNEL_MESSAGE")}
    BY <1>1 DEF ObjectType
  <2>6. \A k \in Listeners : /\ objects[k] \in DeferredType(Listeners)
                             /\ Evolves(objects[k], obj[k]) /\ objects[k].life = obj[k].life
    BY ZenonT(60), <1>0, <2>5, ReportedFacts, Codes
  <2>7. objects \in ObjectType
    BY <1>1, <2>6 DEF ObjectType
  <2> HIDE DEF objects
  <2>8. /\ \A k \in Listeners : Evolves(obj'[k], obj[k])
        /\ \A k \in Listeners : Kept(k)' => obj'[k] = objects[k]
    BY <2>3, <2>6, <2>7, CollectFacts, CollectEvolves
  <2>9. \A k \in listeners' : obj'[k].life = "live"
    <3>1. \A k \in Listeners : k \in listeners' => Kept(k)'
      BY DEF Kept
    <3> QED
      BY <1>1, <2>1, <2>6, <2>8, <3>1
  <2> QED
    BY <1>2, <2>1, <2>4, <2>8, <2>9
<1>6. ASSUME IssueNext(l) PROVE ReadyInv'
  <2>1. /\ pc[l] = "issue" /\ pc'[l] \in {"issue", "chain"}
        /\ \A k \in Listeners : k # l => pc'[k] = pc[k]
    BY <1>0, <1>6, IssuedOperation
  <2>2. UNCHANGED <<running, consuming, msg, chained>>
    BY <1>6 DEF IssueNext
  <2>3. /\ \A k \in Listeners : Evolves(obj'[k], obj[k])
        /\ \A k \in listeners' : obj'[k].life = "live"
    <3>1. CASE chan[ref[l]] = "open"
      <4>1. UNCHANGED listeners /\ Collect(obj, chan)
        BY <1>6, <3>1 DEF IssueNext
      <4>2. /\ \A k \in Listeners : Evolves(obj'[k], obj[k])
            /\ \A k \in Listeners : Kept(k)' => obj'[k] = obj[k]
        BY <1>1, <4>1, CollectFacts, CollectEvolves
      <4>3. \A k \in Listeners : k \in listeners' => Kept(k)'
        BY DEF Kept
      <4> QED
        BY <1>1, <4>1, <4>2, <4>3
    <3>2. CASE chan[ref[l]] # "open"
      <4> DEFINE op == Setup[issued'[l]]
      <4>1. op \in Operations
        BY <1>0, <1>6, IssuedOperation
      <4>2. OnError(l, op, Caller[l]) /\ Caller[l] \in Threads
        BY <1>6, <3>2 DEF IssueNext
      <4> HIDE DEF op
      <4>3. /\ \A k \in Listeners : Evolves(obj'[k], obj[k])
            /\ \A k \in Listeners : k \in listeners' /\ obj[k].life = "live" => obj'[k].life = "live"
            /\ listeners' \subseteq listeners
        BY <1>0, <4>1, <4>2, OnErrorFacts
      <4> QED
        BY <1>1, <4>3
    <3> QED
      BY <3>1, <3>2
  <2> QED
    BY <1>2, <2>1, <2>2, <2>3
<1>7. ASSUME NEW h \in Chain, ChainHandler(l, h) PROVE ReadyInv'
  <2>1. /\ pc[l] = "chain" /\ UNCHANGED <<listeners, running, consuming, msg>>
        /\ \A k \in Listeners : k # l => pc'[k] = pc[k] /\ chained'[k] = chained[k]
        /\ chained'[l] = chained[l] \cup {h}
    BY <1>0, <1>7 DEF ChainHandler, TypeOK
  <2>2. pc'[l] \in {"chain", "done"} /\ (pc'[l] = "done" => chained'[l] = Chain)
    BY <1>0, <1>7 DEF ChainHandler, TypeOK
  <2>3. ref[l] = l /\ h \in Handlers /\ chained[l] \subseteq Handlers
    BY <1>0, <2>1 DEF CallInv, OwnReference, TypeOK
  <2> DEFINE d == SetHandler(obj[l], h, l)
  <2>4. d.life = obj[l].life /\ d.on = [obj[l].on EXCEPT ![h] = l]
    BY <1>1, <2>3, SetHandlerFacts
  <2>5. obj[l].on \in [Handlers -> Listeners \cup {Nobody}]
    BY <1>1 DEF DeferredType
  <2>6. \/ obj' = obj /\ obj[l].life = "freed"
        \/ obj' = [obj EXCEPT ![l] = d]
    BY <1>7, <2>3 DEF ChainHandler
  <2> HIDE DEF d
  <2>7. /\ obj'[l].life = obj[l].life /\ \A k \in Listeners : k # l => obj'[k] = obj[k]
        /\ obj'[l].life = "live" => obj'[l] = d
    BY <1>1, <2>4, <2>6 DEF ObjectType
  <2>8. ASSUME obj'[l].life = "live", NEW g \in chained'[l] PROVE obj'[l].on[g] # Nobody
    <3>1. obj'[l] = d /\ g \in Handlers
      BY <2>1, <2>3, <2>7, <2>8
    <3>2. CASE g = h
      BY <2>4, <2>5, <3>1, <3>2
    <3>3. CASE g # h
      <4>1. obj[l].on[g] # Nobody
        BY <2>1, <2>7, <2>8, <3>3 DEF ReadyInv
      <4> QED
        BY <2>4, <2>5, <3>1, <3>3, <4>1
    <3> QED
      BY <3>2, <3>3
  <2>9. \A k \in listeners' : obj'[k].life = "live"
    BY <1>1, <2>1, <2>7
  <2>10. \A k \in Listeners : k # l => Evolves(obj'[k], obj[k])
    BY <1>1, <2>7
  <2>11. pc[l] # "done" /\ pc'[l] \notin {"idle", "incr", "set", "get", "issue"}
    BY <2>1, <2>2
  <2> QED
    BY <2>1, <2>2, <2>8, <2>9, <2>10, <2>11, CallReady
<1> QED
  BY <1>3, <1>4, <1>5, <1>6, <1>7 DEF CallerStep

LEMMA StepReady ==
  ASSUME OneCallerThread, ~RunFirst, {"data", "error"} \subseteq Chain, ReadyInv, [Next]_vars
  PROVE  ReadyInv'
<1> USE ListenAssumption
<1>0. SetupInv /\ SetupInv' /\ TypeInv /\ TypeOK /\ TypeOK' /\ CallInv
  BY StepSetup DEF ReadyInv, SetupInv, TypeInv
<1>a. CASE UNCHANGED vars
  <2>1. UNCHANGED <<running, pc, chained, obj, listeners, consuming, msg, by, fault>>
    BY <1>a DEF vars, brokerVars, callerVars, libraryVars, replayVars
  <2> QED
    BY <1>0, <2>1 DEF ReadyInv, Told
<1>b. SUFFICES ASSUME fault = "none", Next PROVE ReadyInv'
  BY <1>a DEF Next
<1>c. (\A o \in Listeners : Line(o)) /\ ReplayConfirmed
  BY <1>0, <1>b DEF SetupInv, Established
<1> USE DEF brokerVars, callerVars, libraryVars, replayVars
<1>1. /\ obj \in ObjectType /\ listeners \subseteq Listeners
      /\ \A k \in Listeners : obj[k] \in DeferredType(Listeners) /\ Evolves(obj[k], obj[k])
      /\ \A k \in listeners : obj[k].life = "live"
  BY <1>0, ReportedFacts DEF TypeOK, ObjectType, ReadyInv
<1>2. ASSUME NEW l \in Listeners, CallerStep(l) PROVE ReadyInv'
  BY <1>0, <1>2, <1>b, CallerReady
<1>3. ASSUME Run PROVE ReadyInv'
  <2>1. /\ UNCHANGED <<listeners, obj, pc, chained, consuming, msg, by, fault>>
        /\ running' /\ \A l \in Listeners : pc[l] = "done"
    BY <1>3 DEF Run
  <2> QED
    BY <1>0, <2>1 DEF ReadyInv, Told
(* Steps that tell no listener anything. *)
<1>4. ASSUME UNCHANGED <<running, pc, chained, obj, listeners, consuming, msg, by>>
      PROVE  ReadyInv'
  BY <1>0, <1>4, <1>b DEF ReadyInv, Told
(* Callbacks of the loop that confirm no listener and drop no request. *)
<1>5. ASSUME running, UNCHANGED <<running, pc, chained, consuming>>,
             \A k \in Listeners : Evolves(obj'[k], obj[k]),
             \A k \in listeners' : obj'[k].life = "live",
             \A k \in Messages : msg'[k] = "dropped" => msg[k] = "dropped" /\ by'[k] = by[k]
      PROVE  ReadyInv'
  BY <1>0, <1>5, <1>b, LoopReady
<1>6. ASSUME NEW l, NEW code \in BrokerError, Report(l, code), running,
             UNCHANGED <<running, pc, chained, consuming>>, listeners' \subseteq listeners,
             \A k \in Messages : msg'[k] = "dropped" => msg[k] = "dropped" /\ by'[k] = by[k]
      PROVE  ReadyInv'
  <2>1. /\ \A k \in Listeners : Evolves(obj'[k], obj[k])
        /\ \/ obj' = obj
           \/ obj' = [obj EXCEPT ![Target(l)] = report_error(obj[Target(l)], code)]
    BY <1>0, <1>6, <1>b, ReportFacts
  <2>2. \A k \in Listeners : obj'[k].life = obj[k].life
    BY <1>1, <2>1, ReportErrorFacts DEF ObjectType
  <2>3. \A k \in listeners' : obj'[k].life = "live"
    BY <1>1, <1>6, <2>2
  <2> QED
    BY <1>5, <1>6, <2>1, <2>3
<1>7. ASSUME NEW o \in Listeners, SetupOk(o) \/ ChannelClosed(o) \/ ChannelError(o)
      PROVE  ReadyInv'
  BY <1>4, <1>7 DEF SetupOk, ChannelClosed, ChannelError
<1>8. ASSUME NEW o \in Listeners, ConsumeOk(o) PROVE ReadyInv'
  <2>1. /\ running /\ pending[o] # <<>> /\ Head(pending[o]).op = "consume"
        /\ UNCHANGED <<running, pc, chained, listeners, msg, by>>
    BY <1>8 DEF ConsumeOk, Accepted
  <2>2. Head(pending[o]).req = o /\ o \in listeners /\ pc[o] # "idle"
    BY <1>0, <1>c, <2>1, HeadLine DEF Line, Awaits
  <2>3. Target(o) = o /\ o # Nobody
    BY <1>0, <2>2, OwnTarget
  <2>4. /\ consuming' = [consuming EXCEPT ![o] = @ \cup {o}]
        /\ obj' = [obj EXCEPT ![o] = report_success(obj[o])]
    BY <1>8, <2>2, <2>3 DEF ConsumeOk, Deref
  <2>5. /\ obj'[o] = report_success(obj[o])
        /\ \A k \in Listeners : k # o => obj'[k] = obj[k] /\ consuming'[k] = consuming[k]
    BY <1>0, <1>1, <2>4 DEF ObjectType, TypeOK
  <2>6. /\ Evolves(obj'[o], obj[o]) /\ obj'[o].life = obj[o].life /\ obj'[o].failed = FALSE
    BY <1>0, <2>5, ReportedFacts
  <2>7. \A k \in Listeners : Evolves(obj'[k], obj[k])
    BY <1>1, <2>5, <2>6
  <2>8. \A k \in listeners' : obj'[k].life = "live"
    BY <1>1, <2>1, <2>5, <2>6
  <2>9. \A k \in Listeners : k \in consuming'[k] => k \in consuming[k] \/ obj'[k].failed = FALSE
    BY <2>5, <2>6
  <2> QED
    BY <1>0, <1>b, <2>1, <2>7, <2>8, <2>9, LoopReady
<1>9. ASSUME NEW o \in Listeners, NEW op \in Operations, Rejected(o, op) PROVE ReadyInv'
  <2>1. /\ running /\ UNCHANGED <<running, pc, chained, consuming, msg, by>>
        /\ OnError(Head(pending[o]).req, op, LoopThread)
    BY <1>9 DEF Rejected
  <2>2. /\ \A k \in Listeners : Evolves(obj'[k], obj[k])
        /\ \A k \in Listeners : k \in listeners' /\ obj[k].life = "live" => obj'[k].life = "live"
        /\ listeners' \subseteq listeners
    BY <1>0, <1>b, <2>1, OnErrorFacts
  <2> QED
    BY <1>1, <1>5, <2>1, <2>2
<1>10. ASSUME NEW o \in Listeners, ChannelOnError(o) PROVE ReadyInv'
  <2>1. running /\ UNCHANGED <<running, pc, chained, listeners, consuming, msg, by>>
    BY <1>10 DEF ChannelOnError
  <2>2. CASE obj[o].life = "live"
    <3>1. Report(o, "CHANNEL_MESSAGE")
      BY <1>10, <2>2 DEF ChannelOnError
    <3> QED
      BY <1>6, <2>1, <3>1, Codes
  <2>3. CASE obj[o].life # "live"
    BY <1>4, <1>10, <2>1, <2>3 DEF ChannelOnError
  <2> QED
    BY <2>2, <2>3
(* A request finds the confirmed listener of its own call. *)
<1>11. ASSUME NEW o \in Listeners, NEW l \in Listeners, NEW m \in Messages, Arrives(o, l, m)
       PROVE  /\ running /\ UNCHANGED <<running, pc, chained, consuming>>
              /\ by' = [by EXCEPT ![m] = l]
              /\ l \in consuming[l] /\ l \in listeners /\ Target(l) = l /\ l # Nobody
  <2>1. /\ running /\ UNCHANGED <<running, pc, chained, consuming>>
        /\ by' = [by EXCEPT ![m] = l] /\ l \in consuming[o]
    BY <1>11 DEF Arrives
  <2>2. l = o /\ l \in consuming[l] /\ l \in listeners /\ pc[l] # "idle"
    BY <1>c, <2>1 DEF Line
  <2> QED
    BY <1>0, <2>1, <2>2, OwnTarget
<1>12. ASSUME NEW o \in Listeners, NEW l \in Listeners, NEW m \in Messages,
              ReceiveUndecodable(o, l, m)
       PROVE  ReadyInv'
  <2>1. /\ Arrives(o, l, m) /\ UNCHANGED listeners
        /\ msg' = [msg EXCEPT ![m] = "undecodable"] /\ Report(l, "CHANNEL_MESSAGE")
    BY <1>12 DEF ReceiveUndecodable
  <2>2. \A k \in Messages : msg'[k] = "dropped" => msg[k] = "dropped" /\ by'[k] = by[k]
    BY <1>0, <1>11, <2>1 DEF TypeOK
  <2> QED
    BY <1>6, <1>11, <2>1, <2>2, Codes
(* The data handler of listener l is called, if it is. *)
<1>13. ASSUME NEW l \in Listeners, l \in listeners, listeners' \subseteq listeners,
              Collect([obj EXCEPT ![l] = report_data(@)], chan)
       PROVE  /\ \A k \in Listeners : Evolves(obj'[k], obj[k])
              /\ \A k \in listeners' : obj'[k].life = "live"
  <2> DEFINE objects == [obj EXCEPT ![l] = report_data(@)]
  <2>1. /\ objects[l] = report_data(obj[l])
        /\ \A k \in Listeners : k # l => objects[k] = obj[k]
    BY <1>1 DEF ObjectType
  <2>2. \A k \in Listeners : /\ objects[k] \in DeferredType(Listeners)
                             /\ Evolves(objects[k], obj[k]) /\ objects[k].life = obj[k].life
    BY <1>0, <1>1, <2>1, ReportedFacts
  <2>3. objects \in ObjectType /\ Collect(objects, chan)
    BY <1>1, <1>13, <2>2 DEF ObjectType
  <2> HIDE DEF objects
  <2>4. /\ \A k \in Listeners : Evolves(obj'[k], obj[k])
        /\ \A k \in Listeners : Kept(k)' => obj'[k] = objects[k]
    BY <2>2, <2>3, CollectFacts, CollectEvolves
  <2>5. \A k \in Listeners : k \in listeners' => Kept(k)'
    BY DEF Kept
  <2> QED
    BY <1>1, <1>13, <2>2, <2>4, <2>5
<1>14. ASSUME NEW o \in Listeners, NEW l \in Listeners, NEW m \in Messages,
              NEW watched \in BOOLEAN, Receive(o, l, m, watched)
       PROVE  ReadyInv'
  <2>1. Arrives(o, l, m) /\ UNCHANGED listeners
    BY <1>14 DEF Receive
  <2>2. /\ running /\ UNCHANGED <<running, pc, chained, consuming>>
        /\ by' = [by EXCEPT ![m] = l]
        /\ l \in consuming[l] /\ l \in listeners /\ Target(l) = l /\ l # Nobody
    BY <1>11, <2>1
  <2>3. /\ Collect([obj EXCEPT ![l] = report_data(@)], chan)
        /\ msg' = [msg EXCEPT ![m] = IF Hears(l) THEN "handed" ELSE "dropped"]
    BY <1>14, <2>2 DEF Receive
  <2>4. /\ \A k \in Listeners : Evolves(obj'[k], obj[k])
        /\ \A k \in listeners' : obj'[k].life = "live"
    BY <1>13, <2>1, <2>2, <2>3
  <2>5. ASSUME ~Hears(l) PROVE Told(obj'[l])
    <3>1. obj[l].life = "live" /\ "data" \in chained[l]
      BY <1>1, <2>2 DEF ReadyInv
    <3>2. obj[l].on["data"] # Nobody
      BY <3>1 DEF ReadyInv
    <3>3. obj[l].failed \in BOOLEAN /\ ~(~obj[l].failed)
      BY <1>1, <2>5, <3>2 DEF Hears, Good, DeferredType
    <3>4. obj[l].failed = TRUE
      BY <3>3
    <3>5. Told(obj[l])
      BY <1>b, <2>2, <3>4 DEF ReadyInv
    <3>6. obj'[l] \in DeferredType(Listeners)
      BY <1>0 DEF TypeOK
    <3> QED
      BY <1>1, <2>4, <3>5, <3>6, ToldKept
  <2>6. ASSUME NEW k \in Messages, msg'[k] = "dropped"
        PROVE  \/ msg[k] = "dropped" /\ by'[k] = by[k]
               \/ by'[k] \in Listeners /\ Told(obj'[by'[k]])
    <3>1. CASE k = m
      <4>1. by'[m] = l /\ ~Hears(l)
        BY <1>0, <2>2, <2>3, <2>6, <3>1 DEF TypeOK
      <4> QED
        BY <2>5, <3>1, <4>1
    <3>2. CASE k # m
      BY <1>0, <2>2, <2>3, <2>6, <3>2 DEF TypeOK
    <3> QED
      BY <3>1, <3>2
  <2> QED
    BY <1>0, <1>b, <2>2, <2>4, <2>6, LoopReady
<1>15. ASSUME NEW o \in Listeners, NEW l \in Listeners, NEW m \in Messages,
              ReceiveThrows(o, l, m)
       PROVE  ReadyInv'
  <2>1. /\ Arrives(o, l, m) /\ listeners' = listeners \ {Target(l)}
        /\ msg' = [msg EXCEPT ![m] = "handed"]
        /\ Collect([obj EXCEPT ![Target(l)] = report_data(@)], chan)
    BY <1>15 DEF ReceiveThrows
  <2>2. /\ running /\ UNCHANGED <<running, pc, chained, consuming>>
        /\ by' = [by EXCEPT ![m] = l] /\ l \in listeners /\ Target(l) = l
    BY <1>11, <2>1
  <2>3. Collect([obj EXCEPT ![l] = report_data(@)], chan)
    BY <2>1, <2>2
  <2>4. /\ \A k \in Listeners : Evolves(obj'[k], obj[k])
        /\ \A k \in listeners' : obj'[k].life = "live"
    BY <1>13, <2>1, <2>2, <2>3
  <2>5. \A k \in Messages : msg'[k] = "dropped" => msg[k] = "dropped" /\ by'[k] = by[k]
    BY <1>0, <2>1, <2>2 DEF TypeOK
  <2> QED
    BY <1>5, <2>2, <2>4, <2>5
<1>16. ASSUME NEW m \in Messages, NEW t \in Committers, Commit(m, t) PROVE ReadyInv'
  BY <1>4, <1>16 DEF Commit
<1>17. ASSUME NEW m \in Messages, NEW t \in Committers, CommitRefused(m, t) PROVE ReadyInv'
  <2>1. /\ replay[m] # "none"
        /\ UNCHANGED <<listeners, running, pc, chained, consuming, msg, by>>
    BY <1>17 DEF CommitRefused
  <2>2. running
    BY <1>c, <2>1 DEF ReplayConfirmed, ReadyInv
  <2>3. CASE Target(by[m]) = Nobody
    <3>1. UNCHANGED obj
      BY <1>17, <2>3 DEF CommitRefused
    <3> QED
      BY <1>4, <2>1, <3>1
  <2>4. CASE Target(by[m]) # Nobody
    <3>1. obj' = [obj EXCEPT ![Target(by[m])] = report_error(obj[Target(by[m])], "PUBLISH")]
      BY <1>17, <2>4 DEF CommitRefused
    <3>2. \A k \in Listeners : obj'[k] \in {obj[k], report_error(obj[k], "PUBLISH")}
      BY <1>1, <3>1 DEF ObjectType
    <3>3. \A k \in Listeners : Evolves(obj'[k], obj[k]) /\ obj'[k].life = obj[k].life
      BY <1>0, <1>1, <3>2, ReportedFacts, Codes
    <3>4. \A k \in listeners' : obj'[k].life = "live"
      BY <1>1, <2>1, <3>3
    <3> QED
      BY <1>5, <2>1, <2>2, <3>3, <3>4
  <2> QED
    BY <2>3, <2>4
<1>18. ASSUME NEW m \in Messages, ClearComplete(m) \/ TxOk(m) \/ ReplyChannelError(m)
       PROVE  ReadyInv'
  BY <1>4, <1>18 DEF ClearComplete, TxOk, ReplyChannelError
<1>19. ASSUME NEW m \in Messages, TxError(m) PROVE ReadyInv'
  BY <1>6, <1>19, Codes DEF TxError
<1>20. ASSUME NEW t \in Threads, ConnectionLost(t) PROVE ReadyInv'
  BY <1>4, <1>20 DEF ConnectionLost
<1>21. ASSUME NEW t \in Threads, LossStep(t) PROVE ReadyInv'
  <2>1. PICK code \in {"CONNECTION", "CONNECTION_LOST"} : OnLost(t, code)
    BY <1>21 DEF LossStep
  <2>2. /\ running /\ UNCHANGED <<running, pc, chained, listeners, consuming, msg, by>>
        /\ code \in BrokerError
    BY <2>1, Codes DEF OnLost
  <2>3. \A k \in Listeners : obj'[k] \in {obj[k], report_error(obj[k], code)}
    BY <1>1, <2>1 DEF OnLost, ObjectType
  <2>4. \A k \in Listeners : Evolves(obj'[k], obj[k]) /\ obj'[k].life = obj[k].life
    BY <1>0, <1>1, <2>2, <2>3, ReportedFacts
  <2>5. \A k \in listeners' : obj'[k].life = "live"
    BY <1>1, <2>2, <2>4
  <2> QED
    BY <1>5, <2>2, <2>4, <2>5
<1> QED
  BY <1>2, <1>3, <1>7, <1>8, <1>9, <1>10, <1>12, <1>14, <1>15, <1>16, <1>17, <1>18, <1>19,
     <1>20, <1>21, <1>b DEF Next, SetupStep, Delivery, ReplyStep, Operations

(* When one thread makes the calls, chains on_data and on_error and starts *)
(* the loop after the last of them, a request is acknowledged without      *)
(* reaching on_data only if its listener's on_error has been called,       *)
(* whatever fails and however many listeners share the thread.             *)
THEOREM DropsReported ==
  ASSUME OneCallerThread, ~RunFirst, {"data", "error"} \subseteq Chain
  PROVE  Spec => []DroppedAfterError
<1>1. ReadyInv /\ [Next]_vars => ReadyInv'
  BY StepReady
<1>2. ReadyInv => DroppedAfterError
  BY DEF ReadyInv, DroppedAfterError, Told
<1> QED
  BY InitReady, <1>1, <1>2, PTL DEF Spec
=============================================================================
