---------------------------- MODULE BrokerProofs ----------------------------
(* Theorems about Broker, for any number of publishes and worker threads   *)
(* and any failures.                                                       *)
EXTENDS Broker, SequenceTheorems, TLAPS

-----------------------------------------------------------------------------
(* What the channel of a publish can have outstanding: the library answers *)
(* in order, so the commit is never in front of the select.                *)
Queues == {<<>>, <<"declare">>, <<"select">>, <<"commit">>, <<"select", "commit">>}

CommitQueues == {<<"commit">>, <<"select", "commit">>}

QueuesKnown == pending \in [Calls -> Queues]

(* An unanswered commit has its caller waiting for it, or about to, with   *)
(* the promise unset.                                                      *)
CommitAwaited ==
  \A p \in Publishes : pending[p] \in CommitQueues =>
    /\ pc[p] \in {"success", "error", "wait"}
    /\ barrier[p] = "unset"
    /\ p \notin refused

(* The promise of a refused commit is unset until onError is attached.     *)
RefusedUnset ==
  \A p \in Publishes :
    /\ p \in refused /\ pc[p] \in {"success", "error"} => barrier[p] = "unset"
    /\ pc[p] \in {"idle", "commit"} => barrier[p] = "unset" /\ p \notin refused

(* Before its commit is issued a publish has at most a select outstanding. *)
UncommittedQueue ==
  \A p \in Publishes :
    /\ pc[p] = "idle" => pending[p] = <<>>
    /\ pc[p] = "commit" => pending[p] \in {<<>>, <<"select">>}

PublishInv == UncommittedQueue /\ CommitAwaited /\ RefusedUnset /\ PromiseSound

PromiseInv == TypeOK /\ QueuesKnown /\ PublishInv

(* The promise is set to the empty text only for a committed message.      *)
EmptyCommitted == \A p \in Publishes : barrier[p] = "empty" => p \in committed

OkInv == EmptyCommitted /\ OkCommitted

(* The connection that call p uses was lost, or the broker is gone.        *)
Lost(p) == conn[Caller[p]] = "lost" \/ broker = "freed"

(* Call p has an error to report, or is going to have one.                 *)
Failed(p) ==
  \/ chan[p] = "failing" \/ p \in refused
  \/ barrier[p] \in Texts \/ result[p] = "PUBLISH"

(* Nothing happens before Bind.                                            *)
Unbound ==
  broker = "none" => /\ holders = {} /\ ~looping
                     /\ \A t \in Threads : conn[t] = "none"

(* What the server has committed was published by a thread outside the     *)
(* loop, to an exchange, and fails only with its connection.               *)
CommittedFails(p) ==
  p \in committed => /\ Caller[p] # Callback
                     /\ pc[p] \notin {"idle", "commit"}
                     /\ exchange
                     /\ Failed(p) => Lost(p)

Unanswered == \A p \in Publishes : pc[p] # "done" => result[p] = "none"

LossInv ==
  /\ Unbound /\ Unanswered
  /\ \A p \in Publishes : CommittedFails(p)

-----------------------------------------------------------------------------
LEMMA QueueFacts ==
  ASSUME NEW q \in Queues
  PROVE  /\ q # <<>> => Tail(q) \in Queues
         /\ q # <<>> => Head(q) \in {"declare", "select", "commit"}
         /\ q # <<>> /\ Head(q) = "commit" => Tail(q) = <<>> /\ q \in CommitQueues
         /\ q # <<>> /\ Tail(q) \in CommitQueues => q \in CommitQueues
         /\ q = <<"select">> => Tail(q) = <<>>
         /\ q \in {<<>>, <<"select">>} => Append(q, "commit") \in CommitQueues
<1>1. /\ Head(<<"declare">>) = "declare" /\ Tail(<<"declare">>) = <<>>
      /\ Head(<<"select">>) = "select" /\ Tail(<<"select">>) = <<>>
      /\ Head(<<"commit">>) = "commit" /\ Tail(<<"commit">>) = <<>>
  OBVIOUS
<1>2. Head(<<"select", "commit">>) = "select"
  OBVIOUS
<1>3. Tail(<<"select", "commit">>) = <<"commit">>
  OBVIOUS
<1>4. Append(<<>>, "commit") = <<"commit">>
  OBVIOUS
<1>5. Append(<<"select">>, "commit") = <<"select", "commit">>
  <2> DEFINE ops == {"select", "commit"}
  <2>1. /\ <<"select">> \in Seq(ops) /\ "commit" \in ops
        /\ <<"select", "commit">> \in Seq(ops)
    OBVIOUS
  <2>2. /\ Append(<<"select">>, "commit") \in Seq(ops)
        /\ Len(Append(<<"select">>, "commit")) = 2
        /\ Append(<<"select">>, "commit")[1] = "select"
        /\ Append(<<"select">>, "commit")[2] = "commit"
    BY <2>1, AppendProperties
  <2> DEFINE s == Append(<<"select">>, "commit")
             t == <<"select", "commit">>
  <2>3. Len(t) = 2 /\ t[1] = "select" /\ t[2] = "commit"
    OBVIOUS
  <2>4. s \in Seq(ops) /\ t \in Seq(ops) /\ Len(s) = 2
        /\ s[1] = t[1] /\ s[2] = t[2]
    BY <2>1, <2>2, <2>3
  <2> HIDE DEF s, t, ops
  <2>5. Len(s) = Len(t) /\ \A i \in 1 .. Len(s) : s[i] = t[i]
    BY <2>3, <2>4
  <2>6. s = t
    BY <2>4, <2>5, SeqEqual
  <2> QED
    BY <2>6 DEF s, t
<1>6. /\ <<"declare">> # <<>> /\ <<"select">> # <<>> /\ <<"commit">> # <<>>
      /\ <<"select", "commit">> # <<>>
  OBVIOUS
<1>7. <<"commit">> # <<"select">> /\ <<"commit">> # <<"declare">>
  OBVIOUS
<1> QED
  BY <1>1, <1>2, <1>3, <1>4, <1>5, <1>6, <1>7, Zenon DEF Queues, CommitQueues

LEMMA QueuesAreSequences == Queues \subseteq Seq({"declare", "select", "commit"})
BY DEF Queues

LEMMA SetValueType ==
  ASSUME TypeOK, NEW p \in Publishes, NEW text \in Texts \cup {"empty"}, SetValue(p, text)
  PROVE  /\ barrier' \in [Publishes -> Texts \cup {"unset", "empty"}]
         /\ fault' \in {"none", "promise", "loop"}
BY ZenonT(60) DEF SetValue, TypeOK

(* Every action keeps the types and the shape of the queues.               *)
LEMMA StepTypeOK ==
  TypeOK /\ QueuesKnown /\ UncommittedQueue /\ [Next]_vars
    => (TypeOK /\ QueuesKnown)'
<1> SUFFICES ASSUME TypeOK, QueuesKnown, UncommittedQueue, [Next]_vars
             PROVE  (TypeOK /\ QueuesKnown)'
  OBVIOUS
<1>1. ASSUME BindBroker PROVE (TypeOK /\ QueuesKnown)'
  <2>1. <<"declare">> \in Queues
    BY DEF Queues
  <2>2. pending' \in [Calls -> Queues]
    BY <1>1, <2>1 DEF BindBroker, QueuesKnown
  <2> QED
    BY <1>1, <2>2, QueuesAreSequences DEF BindBroker, Threads, TypeOK,
       QueuesKnown, Calls, brokerVars, callVars,
     libraryVars
<1>2. ASSUME BindThrows PROVE (TypeOK /\ QueuesKnown)'
  BY <1>2 DEF BindThrows, TypeOK, QueuesKnown, Calls, brokerVars, callVars,
     libraryVars
<1>3. ASSUME NEW w \in Workers, Share(w) PROVE (TypeOK /\ QueuesKnown)'
  BY <1>3 DEF Share, Threads, TypeOK, QueuesKnown, Calls, brokerVars, callVars,
     libraryVars
<1>4. ASSUME NEW t \in Threads, Drop(t) PROVE (TypeOK /\ QueuesKnown)'
  <2>1. <<>> \in Queues
    BY DEF Queues
  <2>2. pending' \in [Calls -> Queues]
    BY <1>4, <2>1 DEF Drop, QueuesKnown
  <2> QED
    BY <1>4, <2>2, QueuesAreSequences DEF Drop, TypeOK, QueuesKnown,
       Calls, brokerVars, callVars,
     libraryVars
<1>5. ASSUME NEW t \in Threads, ConnectionLost(t) PROVE (TypeOK /\ QueuesKnown)'
  BY <1>5 DEF ConnectionLost, TypeOK, QueuesKnown, Calls, brokerVars, callVars,
     libraryVars
<1>6. ASSUME NEW mode \in {"sync", "async"}, Run(mode) PROVE (TypeOK /\ QueuesKnown)'
  BY <1>6 DEF Run, TypeOK, QueuesKnown, Calls, brokerVars, callVars,
     libraryVars
<1>7. ASSUME UvRunReturns PROVE (TypeOK /\ QueuesKnown)'
  BY <1>7 DEF UvRunReturns, TypeOK, QueuesKnown, Calls, brokerVars, callVars,
     libraryVars
<1>8. ASSUME NEW p \in Publishes, Publish(p) PROVE (TypeOK /\ QueuesKnown)'
  <2>1. <<>> \in Queues /\ <<"select">> \in Queues
    BY DEF Queues
  <2>2. pending' \in [Calls -> Queues]
    BY <1>8, <2>1 DEF Publish, QueuesKnown
  <2> QED
    BY <1>8, <2>2, QueuesAreSequences, ZenonT(60) DEF Publish, NewChannel, TypeOK,
       QueuesKnown, Calls, brokerVars, callVars,
     libraryVars
<1>9. ASSUME NEW p \in Publishes, CommitTransaction(p) PROVE (TypeOK /\ QueuesKnown)'
  <2>1. p \in Calls /\ pending[p] \in {<<>>, <<"select">>}
    BY <1>9 DEF CommitTransaction, UncommittedQueue, Calls
  <2>2. Append(pending[p], "commit") \in Queues
    BY <2>1, QueueFacts DEF Queues, CommitQueues
  <2>3. pending' \in [Calls -> Queues]
    BY <1>9, <2>1, <2>2 DEF CommitTransaction, QueuesKnown
  <2> QED
    BY <1>9, <2>3, QueuesAreSequences, ZenonT(60) DEF CommitTransaction, TypeOK,
       QueuesKnown, Calls, brokerVars, callVars,
     libraryVars
<1>10. ASSUME NEW p \in Publishes, OnSuccess(p) PROVE (TypeOK /\ QueuesKnown)'
  BY <1>10 DEF OnSuccess, TypeOK, QueuesKnown, Calls, brokerVars, callVars,
     libraryVars
<1>11. ASSUME NEW p \in Publishes, OnError(p) PROVE (TypeOK /\ QueuesKnown)'
  BY <1>11, ZenonT(60) DEF OnError, SetValue, TypeOK, QueuesKnown, Calls, brokerVars, callVars,
     libraryVars
<1>12. ASSUME NEW p \in Publishes, Return(p) PROVE (TypeOK /\ QueuesKnown)'
  BY <1>12 DEF Return, TypeOK, QueuesKnown, Calls, brokerVars, callVars,
     libraryVars
<1>13. ASSUME DeclareOk PROVE (TypeOK /\ QueuesKnown)'
  <2>1. /\ pending[Bind] \in Queues /\ pending[Bind] # <<>>
        /\ pending' = [pending EXCEPT ![Bind] = Tail(@)]
    BY <1>13 DEF DeclareOk, Answers, Answered, QueuesKnown, Calls
  <2>2. pending' \in [Calls -> Queues]
    BY <2>1, QueueFacts DEF QueuesKnown
  <2> QED
    BY <1>13, <2>2, QueuesAreSequences DEF DeclareOk, Answers, Answered,
       TypeOK, QueuesKnown, Calls, brokerVars, callVars,
     libraryVars
<1>14. ASSUME DeclareError PROVE (TypeOK /\ QueuesKnown)'
  <2>1. /\ pending[Bind] \in Queues /\ pending[Bind] # <<>>
        /\ pending' = [pending EXCEPT ![Bind] = Tail(@)]
    BY <1>14 DEF DeclareError, Fails, Answered, QueuesKnown, Calls
  <2>2. pending' \in [Calls -> Queues]
    BY <2>1, QueueFacts DEF QueuesKnown
  <2> QED
    BY <1>14, <2>2, QueuesAreSequences DEF DeclareError, Fails, Answered,
       TypeOK, QueuesKnown, Calls, brokerVars, callVars,
     libraryVars
<1>15. ASSUME CallbackReturns PROVE (TypeOK /\ QueuesKnown)'
  BY <1>15 DEF CallbackReturns, TypeOK, QueuesKnown, Calls, brokerVars, callVars,
     libraryVars
<1>16. ASSUME NEW p \in Publishes, SelectOk(p) PROVE (TypeOK /\ QueuesKnown)'
  <2>1. /\ pending[p] \in Queues /\ pending[p] # <<>>
        /\ pending' = [pending EXCEPT ![p] = Tail(@)]
    BY <1>16 DEF SelectOk, Answers, Answered, QueuesKnown, Calls
  <2>2. pending' \in [Calls -> Queues]
    BY <2>1, QueueFacts DEF QueuesKnown
  <2> QED
    BY <1>16, <2>2, QueuesAreSequences DEF SelectOk, Answers, Answered,
       TypeOK, QueuesKnown, Calls, brokerVars, callVars,
     libraryVars
<1>17. ASSUME NEW p \in Publishes, ServerCommits(p) PROVE (TypeOK /\ QueuesKnown)'
  BY <1>17 DEF ServerCommits, Answers, TypeOK, QueuesKnown, Calls,
     brokerVars, callVars,
     libraryVars
<1>18. ASSUME NEW p \in Publishes, CommitOk(p) PROVE (TypeOK /\ QueuesKnown)'
  <2>1. /\ pending[p] \in Queues /\ pending[p] # <<>>
        /\ pending' = [pending EXCEPT ![p] = Tail(@)]
    BY <1>18 DEF CommitOk, Answers, Answered, SetValue, QueuesKnown, Calls
  <2>2. pending' \in [Calls -> Queues]
    BY <2>1, QueueFacts DEF QueuesKnown
  <2>3. /\ barrier' \in [Publishes -> Texts \cup {"unset", "empty"}]
        /\ fault' \in {"none", "promise", "loop"}
    BY <1>18, SetValueType DEF CommitOk, TypeOK
  <2>4. busy' \in Calls /\ missed' \subseteq Publishes /\ refused' \subseteq Publishes
    BY <1>18 DEF CommitOk, TypeOK, Calls
  <2> QED
    BY <1>18, <2>2, <2>3, <2>4, QueuesAreSequences
    DEF CommitOk, TypeOK, QueuesKnown, Calls, brokerVars, callVars,
     libraryVars
<1>19. ASSUME NEW p \in Publishes, SelectError(p) PROVE (TypeOK /\ QueuesKnown)'
  <2>1. /\ pending[p] \in Queues /\ pending[p] # <<>>
        /\ pending' = [pending EXCEPT ![p] = Tail(@)]
    BY <1>19 DEF SelectError, Fails, Answered, QueuesKnown, Calls
  <2>2. pending' \in [Calls -> Queues]
    BY <2>1, QueueFacts DEF QueuesKnown
  <2> QED
    BY <1>19, <2>2, QueuesAreSequences DEF SelectError, Fails, Answered,
       TypeOK, QueuesKnown, Calls, brokerVars, callVars,
     libraryVars
<1>20. ASSUME NEW p \in Publishes, CommitError(p) PROVE (TypeOK /\ QueuesKnown)'
  <2>1. /\ pending[p] \in Queues /\ pending[p] # <<>>
        /\ pending' = [pending EXCEPT ![p] = Tail(@)]
    BY <1>20 DEF CommitError, Fails, Answered, SetValue, QueuesKnown, Calls
  <2>2. pending' \in [Calls -> Queues]
    BY <2>1, QueueFacts DEF QueuesKnown
  <2>3. /\ barrier' \in [Publishes -> Texts \cup {"unset", "empty"}]
        /\ fault' \in {"none", "promise", "loop"}
    BY <1>20, SetValueType DEF CommitError, TypeOK
  <2>4. busy' \in Calls /\ missed' \subseteq Publishes /\ refused' \subseteq Publishes
    BY <1>20 DEF CommitError, TypeOK, Calls
  <2> QED
    BY <1>20, <2>2, <2>3, <2>4, QueuesAreSequences
    DEF CommitError, TypeOK, QueuesKnown, Calls, brokerVars, callVars,
     libraryVars
<1>21. ASSUME NEW p \in Publishes, NoExchange(p) PROVE (TypeOK /\ QueuesKnown)'
  BY <1>21 DEF NoExchange, Answers, TypeOK, QueuesKnown, Calls, brokerVars,
     callVars,
     libraryVars
<1>22. ASSUME NEW c \in Calls, ChannelClosed(c) PROVE (TypeOK /\ QueuesKnown)'
  BY <1>22 DEF ChannelClosed, TypeOK, QueuesKnown, Calls, brokerVars, callVars,
     libraryVars
<1>23. ASSUME NEW c \in Calls, ChannelError(c) PROVE (TypeOK /\ QueuesKnown)'
  BY <1>23 DEF ChannelError, TypeOK, QueuesKnown, Calls, brokerVars, callVars,
     libraryVars
<1>24. CASE UNCHANGED vars
  BY <1>24 DEF vars, TypeOK, QueuesKnown, Calls, brokerVars, callVars,
     libraryVars
<1> QED
  BY <1>1, <1>2, <1>3, <1>4, <1>5, <1>6, <1>7, <1>8, <1>9, <1>10, <1>11, <1>12,
     <1>13, <1>14, <1>15, <1>16, <1>17, <1>18, <1>19, <1>20, <1>21, <1>22, <1>23, <1>24
  DEF Next, InCall, LoopStep


LEMMA NoCommitYet == <<>> \notin CommitQueues /\ <<"select">> \notin CommitQueues
BY DEF CommitQueues

(* Every action keeps the promise of every publish set at most once and    *)
(* while the call waits for it.                                            *)
LEMMA StepPromise == PromiseInv /\ [Next]_vars => PublishInv'
<1> SUFFICES ASSUME PromiseInv, [Next]_vars
             PROVE  PublishInv'
  OBVIOUS
<1>1. ASSUME BindBroker PROVE PublishInv'
  BY <1>1, BrokerAssumption DEF BindBroker, PromiseInv, PublishInv, TypeOK,
     UncommittedQueue, CommitAwaited,
     RefusedUnset, PromiseSound, Calls, brokerVars, callVars,
     libraryVars
<1>2. ASSUME BindThrows PROVE PublishInv'
  BY <1>2 DEF BindThrows, PromiseInv, PublishInv, TypeOK, UncommittedQueue,
     CommitAwaited,
     RefusedUnset, PromiseSound, Calls, brokerVars, callVars,
     libraryVars
<1>3. ASSUME NEW w \in Workers, Share(w) PROVE PublishInv'
  BY <1>3 DEF Share, PromiseInv, PublishInv, TypeOK, UncommittedQueue,
     CommitAwaited,
     RefusedUnset, PromiseSound, Calls, brokerVars, callVars,
     libraryVars
<1>4. ASSUME NEW t \in Threads, Drop(t) PROVE PublishInv'
  <2>1. /\ \A p \in Publishes : pending'[p] \in {pending[p], <<>>}
        /\ pc' = pc /\ barrier' = barrier /\ refused' = refused
        /\ fault' \in {"none", "loop", fault}
    BY <1>4 DEF Drop, callVars, Calls
  <2> QED
    BY <2>1, NoCommitYet
    DEF PromiseInv, PublishInv, UncommittedQueue, CommitAwaited,
       RefusedUnset, PromiseSound
<1>5. ASSUME NEW t \in Threads, ConnectionLost(t) PROVE PublishInv'
  BY <1>5 DEF ConnectionLost, PromiseInv, PublishInv, TypeOK,
     UncommittedQueue, CommitAwaited,
     RefusedUnset, PromiseSound, Calls, brokerVars, callVars,
     libraryVars
<1>6. ASSUME NEW mode \in {"sync", "async"}, Run(mode) PROVE PublishInv'
  BY <1>6 DEF Run, PromiseInv, PublishInv, TypeOK, UncommittedQueue, CommitAwaited,
     RefusedUnset, PromiseSound, Calls, brokerVars, callVars,
     libraryVars
<1>7. ASSUME UvRunReturns PROVE PublishInv'
  BY <1>7 DEF UvRunReturns, PromiseInv, PublishInv, TypeOK,
     UncommittedQueue, CommitAwaited,
     RefusedUnset, PromiseSound, Calls, brokerVars, callVars,
     libraryVars
<1>8. ASSUME NEW p \in Publishes, Publish(p) PROVE PublishInv'
  BY <1>8, NoCommitYet DEF Publish, NewChannel, PromiseInv, PublishInv,
     TypeOK, UncommittedQueue, CommitAwaited,
     RefusedUnset, PromiseSound, Calls, brokerVars, callVars,
     libraryVars
<1>9. ASSUME NEW p \in Publishes, CommitTransaction(p) PROVE PublishInv'
  <2>1. pending[p] \in {<<>>, <<"select">>} /\ pending[p] \notin CommitQueues
    BY <1>9, NoCommitYet DEF CommitTransaction, PromiseInv, PublishInv,
       UncommittedQueue
  <2>2. p \notin refused /\ barrier[p] = "unset"
    BY <1>9 DEF CommitTransaction, PromiseInv, PublishInv, RefusedUnset
  <2>3. /\ pc'[p] = "success" /\ barrier' = barrier /\ fault' = fault
        /\ pending'[p] \in CommitQueues => p \notin refused'
    BY <1>9, <2>1, <2>2 DEF CommitTransaction, PromiseInv, PublishInv, TypeOK
  <2>4. \A q \in Publishes \ {p} :
          /\ pending'[q] = pending[q] /\ pc'[q] = pc[q]
          /\ (q \in refused') <=> (q \in refused)
    BY <1>9 DEF CommitTransaction, PromiseInv, PublishInv, TypeOK, Calls
  <2>5. UncommittedQueue'
    BY <2>2, <2>3, <2>4 DEF PromiseInv, PublishInv, UncommittedQueue
  <2>6. CommitAwaited'
    BY <2>2, <2>3, <2>4 DEF PromiseInv, PublishInv, CommitAwaited
  <2>7. RefusedUnset'
    BY <2>2, <2>3, <2>4 DEF PromiseInv, PublishInv, RefusedUnset
  <2> QED
    BY <2>3, <2>5, <2>6, <2>7 DEF PromiseInv, PublishInv, PromiseSound
<1>10. ASSUME NEW p \in Publishes, OnSuccess(p) PROVE PublishInv'
  BY <1>10 DEF OnSuccess, PromiseInv, PublishInv, TypeOK, UncommittedQueue,
     CommitAwaited,
     RefusedUnset, PromiseSound, Calls, brokerVars, callVars,
     libraryVars
<1>11. ASSUME NEW p \in Publishes, OnError(p) PROVE PublishInv'
  BY <1>11 DEF OnError, SetValue, PromiseInv, PublishInv, TypeOK,
     UncommittedQueue, CommitAwaited,
     RefusedUnset, PromiseSound, Calls, brokerVars, callVars,
     libraryVars
<1>12. ASSUME NEW p \in Publishes, Return(p) PROVE PublishInv'
  BY <1>12 DEF Return, PromiseInv, PublishInv, TypeOK, UncommittedQueue,
     CommitAwaited,
     RefusedUnset, PromiseSound, Calls, brokerVars, callVars,
     libraryVars
<1>13. ASSUME DeclareOk PROVE PublishInv'
  BY <1>13, BrokerAssumption DEF DeclareOk, Answers, Answered, PromiseInv,
     PublishInv, TypeOK, UncommittedQueue, CommitAwaited,
     RefusedUnset, PromiseSound, Calls, brokerVars, callVars,
     libraryVars
<1>14. ASSUME DeclareError PROVE PublishInv'
  BY <1>14, BrokerAssumption DEF DeclareError, Fails, Answered, PromiseInv,
     PublishInv, TypeOK, UncommittedQueue, CommitAwaited,
     RefusedUnset, PromiseSound, Calls, brokerVars, callVars,
     libraryVars
<1>15. ASSUME CallbackReturns PROVE PublishInv'
  BY <1>15 DEF CallbackReturns, PromiseInv, PublishInv, TypeOK,
     UncommittedQueue, CommitAwaited,
     RefusedUnset, PromiseSound, Calls, brokerVars, callVars,
     libraryVars
<1>16. ASSUME NEW p \in Publishes, SelectOk(p) PROVE PublishInv'
  <2>1. p \in Calls /\ pending[p] \in Queues /\ pending[p] # <<>>
    BY <1>16 DEF SelectOk, Answers, Answered, PromiseInv, PublishInv,
       QueuesKnown, Calls
  <2>2. /\ Tail(pending[p]) \in CommitQueues => pending[p] \in CommitQueues
        /\ pending[p] = <<"select">> => Tail(pending[p]) = <<>>
    BY <2>1, QueueFacts
  <2> QED
    BY <1>16, <2>1, <2>2, NoCommitYet
    DEF SelectOk, Answers, Answered, PromiseInv, PublishInv, TypeOK,
       UncommittedQueue, CommitAwaited,
     RefusedUnset, PromiseSound, Calls, brokerVars, callVars,
     libraryVars
<1>17. ASSUME NEW p \in Publishes, ServerCommits(p) PROVE PublishInv'
  BY <1>17 DEF ServerCommits, Answers, PromiseInv, PublishInv, TypeOK,
     UncommittedQueue, CommitAwaited,
     RefusedUnset, PromiseSound, Calls, brokerVars, callVars,
     libraryVars
<1>18. ASSUME NEW p \in Publishes, CommitOk(p) PROVE PublishInv'
  <2>1. p \in Calls /\ pending[p] \in CommitQueues /\ Tail(pending[p]) = <<>>
    BY <1>18, QueueFacts DEF CommitOk, Answers, Answered, SetValue,
       PromiseInv, PublishInv, QueuesKnown, Calls
  <2>2. /\ pc[p] \in {"success", "error", "wait"} /\ barrier[p] = "unset"
        /\ p \notin refused
    BY <2>1 DEF PromiseInv, PublishInv, CommitAwaited
  <2>3. /\ pc' = pc /\ fault' = fault
        /\ p \in refused' => barrier'[p] = "unset"
    BY <1>18, <2>2 DEF CommitOk, SetValue, callVars
  <2>4. /\ pending'[p] = <<>>
        /\ \A q \in Publishes \ {p} :
             /\ pending'[q] = pending[q] /\ barrier'[q] = barrier[q]
             /\ (q \in refused') <=> (q \in refused)
    BY <1>18, <2>1, <2>2 DEF CommitOk, Answers, Answered, SetValue,
       PromiseInv, PublishInv, TypeOK, Calls
  <2>5. UncommittedQueue'
    BY <2>2, <2>3, <2>4 DEF PromiseInv, PublishInv, UncommittedQueue
  <2>6. CommitAwaited'
    BY <2>2, <2>3, <2>4, NoCommitYet DEF PromiseInv, PublishInv, CommitAwaited
  <2>7. RefusedUnset'
    BY <2>2, <2>3, <2>4 DEF PromiseInv, PublishInv, RefusedUnset
  <2> QED
    BY <2>3, <2>5, <2>6, <2>7 DEF PromiseInv, PublishInv, PromiseSound
<1>19. ASSUME NEW p \in Publishes, SelectError(p) PROVE PublishInv'
  <2>1. p \in Calls /\ pending[p] \in Queues /\ pending[p] # <<>>
    BY <1>19 DEF SelectError, Fails, Answered, PromiseInv, PublishInv,
       QueuesKnown, Calls
  <2>2. /\ Tail(pending[p]) \in CommitQueues => pending[p] \in CommitQueues
        /\ pending[p] = <<"select">> => Tail(pending[p]) = <<>>
    BY <2>1, QueueFacts
  <2> QED
    BY <1>19, <2>1, <2>2, NoCommitYet
    DEF SelectError, Fails, Answered, PromiseInv, PublishInv, TypeOK,
       UncommittedQueue, CommitAwaited,
     RefusedUnset, PromiseSound, Calls, brokerVars, callVars,
     libraryVars
<1>20. ASSUME NEW p \in Publishes, CommitError(p) PROVE PublishInv'
  <2>1. p \in Calls /\ pending[p] \in CommitQueues /\ Tail(pending[p]) = <<>>
    BY <1>20, QueueFacts DEF CommitError, Fails, Answered, SetValue,
       PromiseInv, PublishInv, QueuesKnown, Calls
  <2>2. /\ pc[p] \in {"success", "error", "wait"} /\ barrier[p] = "unset"
        /\ p \notin refused
    BY <2>1 DEF PromiseInv, PublishInv, CommitAwaited
  <2>3. /\ pc' = pc /\ fault' = fault
        /\ p \in refused' => barrier'[p] = "unset"
    BY <1>20, <2>2 DEF CommitError, SetValue, callVars
  <2>4. /\ pending'[p] = <<>>
        /\ \A q \in Publishes \ {p} :
             /\ pending'[q] = pending[q] /\ barrier'[q] = barrier[q]
             /\ (q \in refused') <=> (q \in refused)
    BY <1>20, <2>1, <2>2 DEF CommitError, Fails, Answered, SetValue,
       PromiseInv, PublishInv, TypeOK, Calls
  <2>5. UncommittedQueue'
    BY <2>2, <2>3, <2>4 DEF PromiseInv, PublishInv, UncommittedQueue
  <2>6. CommitAwaited'
    BY <2>2, <2>3, <2>4, NoCommitYet DEF PromiseInv, PublishInv, CommitAwaited
  <2>7. RefusedUnset'
    BY <2>2, <2>3, <2>4 DEF PromiseInv, PublishInv, RefusedUnset
  <2> QED
    BY <2>3, <2>5, <2>6, <2>7 DEF PromiseInv, PublishInv, PromiseSound
<1>21. ASSUME NEW p \in Publishes, NoExchange(p) PROVE PublishInv'
  BY <1>21 DEF NoExchange, Answers, PromiseInv, PublishInv, TypeOK,
     UncommittedQueue, CommitAwaited,
     RefusedUnset, PromiseSound, Calls, brokerVars, callVars,
     libraryVars
<1>22. ASSUME NEW c \in Calls, ChannelClosed(c) PROVE PublishInv'
  BY <1>22 DEF ChannelClosed, PromiseInv, PublishInv, TypeOK,
     UncommittedQueue, CommitAwaited,
     RefusedUnset, PromiseSound, Calls, brokerVars, callVars,
     libraryVars
<1>23. ASSUME NEW c \in Calls, ChannelError(c) PROVE PublishInv'
  BY <1>23 DEF ChannelError, PromiseInv, PublishInv, TypeOK,
     UncommittedQueue, CommitAwaited,
     RefusedUnset, PromiseSound, Calls, brokerVars, callVars,
     libraryVars
<1>24. CASE UNCHANGED vars
  BY <1>24 DEF vars, PromiseInv, PublishInv, TypeOK, UncommittedQueue,
     CommitAwaited,
     RefusedUnset, PromiseSound, Calls, brokerVars, callVars,
     libraryVars
<1> QED
  BY <1>1, <1>2, <1>3, <1>4, <1>5, <1>6, <1>7, <1>8, <1>9, <1>10, <1>11, <1>12,
     <1>13, <1>14, <1>15, <1>16, <1>17, <1>18, <1>19, <1>20, <1>21, <1>22, <1>23, <1>24
  DEF Next, InCall, LoopStep


(* Every action keeps OK for committed messages alone.                     *)
LEMMA StepOk == TypeOK /\ OkInv /\ [Next]_vars => OkInv'
<1> SUFFICES ASSUME TypeOK, OkInv, [Next]_vars
             PROVE  OkInv'
  OBVIOUS
<1>1. ASSUME BindBroker PROVE OkInv'
  BY <1>1 DEF BindBroker, OkInv, EmptyCommitted,
     OkCommitted, TypeOK, brokerVars, callVars,
     libraryVars
<1>2. ASSUME BindThrows PROVE OkInv'
  BY <1>2 DEF BindThrows, OkInv, EmptyCommitted,
     OkCommitted, TypeOK, brokerVars, callVars,
     libraryVars
<1>3. ASSUME NEW w \in Workers, Share(w) PROVE OkInv'
  BY <1>3 DEF Share, OkInv, EmptyCommitted,
     OkCommitted, TypeOK, brokerVars, callVars,
     libraryVars
<1>4. ASSUME NEW t \in Threads, Drop(t) PROVE OkInv'
  BY <1>4 DEF Drop, OkInv, EmptyCommitted,
     OkCommitted, TypeOK, brokerVars, callVars,
     libraryVars
<1>5. ASSUME NEW t \in Threads, ConnectionLost(t) PROVE OkInv'
  BY <1>5 DEF ConnectionLost, OkInv, EmptyCommitted,
     OkCommitted, TypeOK, brokerVars, callVars,
     libraryVars
<1>6. ASSUME NEW mode \in {"sync", "async"}, Run(mode) PROVE OkInv'
  BY <1>6 DEF Run, OkInv, EmptyCommitted,
     OkCommitted, TypeOK, brokerVars, callVars,
     libraryVars
<1>7. ASSUME UvRunReturns PROVE OkInv'
  BY <1>7 DEF UvRunReturns, OkInv, EmptyCommitted,
     OkCommitted, TypeOK, brokerVars, callVars,
     libraryVars
<1>8. ASSUME NEW p \in Publishes, Publish(p) PROVE OkInv'
  BY <1>8 DEF Publish, NewChannel, OkInv, EmptyCommitted,
     OkCommitted, TypeOK, brokerVars, callVars,
     libraryVars
<1>9. ASSUME NEW p \in Publishes, CommitTransaction(p) PROVE OkInv'
  BY <1>9 DEF CommitTransaction, OkInv, EmptyCommitted,
     OkCommitted, TypeOK, brokerVars, callVars,
     libraryVars
<1>10. ASSUME NEW p \in Publishes, OnSuccess(p) PROVE OkInv'
  BY <1>10 DEF OnSuccess, OkInv, EmptyCommitted,
     OkCommitted, TypeOK, brokerVars, callVars,
     libraryVars
<1>11. ASSUME NEW p \in Publishes, OnError(p) PROVE OkInv'
  BY <1>11, BrokerAssumption DEF OnError, SetValue, OkInv, EmptyCommitted,
     OkCommitted, TypeOK, brokerVars, callVars,
     libraryVars
<1>12. ASSUME NEW p \in Publishes, Return(p) PROVE OkInv'
  BY <1>12 DEF Return, OkInv, EmptyCommitted,
     OkCommitted, TypeOK, brokerVars, callVars,
     libraryVars
<1>13. ASSUME DeclareOk PROVE OkInv'
  BY <1>13 DEF DeclareOk, Answers, Answered, OkInv, EmptyCommitted,
     OkCommitted, TypeOK, brokerVars, callVars,
     libraryVars
<1>14. ASSUME DeclareError PROVE OkInv'
  BY <1>14 DEF DeclareError, Fails, Answered, OkInv, EmptyCommitted,
     OkCommitted, TypeOK, brokerVars, callVars,
     libraryVars
<1>15. ASSUME CallbackReturns PROVE OkInv'
  BY <1>15 DEF CallbackReturns, OkInv, EmptyCommitted,
     OkCommitted, TypeOK, brokerVars, callVars,
     libraryVars
<1>16. ASSUME NEW p \in Publishes, SelectOk(p) PROVE OkInv'
  BY <1>16 DEF SelectOk, Answers, Answered, OkInv, EmptyCommitted,
     OkCommitted, TypeOK, brokerVars, callVars,
     libraryVars
<1>17. ASSUME NEW p \in Publishes, ServerCommits(p) PROVE OkInv'
  BY <1>17 DEF ServerCommits, Answers, OkInv, EmptyCommitted,
     OkCommitted, TypeOK, brokerVars, callVars,
     libraryVars
<1>18. ASSUME NEW p \in Publishes, CommitOk(p) PROVE OkInv'
  BY <1>18 DEF CommitOk, Answers, Answered, SetValue, OkInv, EmptyCommitted,
     OkCommitted, TypeOK, brokerVars, callVars,
     libraryVars
<1>19. ASSUME NEW p \in Publishes, SelectError(p) PROVE OkInv'
  BY <1>19 DEF SelectError, Fails, Answered, OkInv, EmptyCommitted,
     OkCommitted, TypeOK, brokerVars, callVars,
     libraryVars
<1>20. ASSUME NEW p \in Publishes, CommitError(p) PROVE OkInv'
  <2>1. /\ result' = result /\ committed' = committed
        /\ barrier' = barrier \/ \E text \in Texts :
                                 barrier' = [barrier EXCEPT ![p] = text]
    BY <1>20 DEF CommitError, SetValue
  <2>2. \A q \in Publishes : barrier'[q] = "empty" => barrier[q] = "empty"
    BY <2>1, BrokerAssumption DEF TypeOK
  <2> QED
    BY <2>1, <2>2 DEF OkInv, EmptyCommitted, OkCommitted
<1>21. ASSUME NEW p \in Publishes, NoExchange(p) PROVE OkInv'
  BY <1>21 DEF NoExchange, Answers, OkInv, EmptyCommitted,
     OkCommitted, TypeOK, brokerVars, callVars,
     libraryVars
<1>22. ASSUME NEW c \in Calls, ChannelClosed(c) PROVE OkInv'
  BY <1>22 DEF ChannelClosed, OkInv, EmptyCommitted,
     OkCommitted, TypeOK, brokerVars, callVars,
     libraryVars
<1>23. ASSUME NEW c \in Calls, ChannelError(c) PROVE OkInv'
  BY <1>23 DEF ChannelError, OkInv, EmptyCommitted,
     OkCommitted, TypeOK, brokerVars, callVars,
     libraryVars
<1>24. CASE UNCHANGED vars
  BY <1>24 DEF vars, OkInv, EmptyCommitted,
     OkCommitted, TypeOK, brokerVars, callVars,
     libraryVars
<1> QED
  BY <1>1, <1>2, <1>3, <1>4, <1>5, <1>6, <1>7, <1>8, <1>9, <1>10, <1>11, <1>12,
     <1>13, <1>14, <1>15, <1>16, <1>17, <1>18, <1>19, <1>20, <1>21, <1>22, <1>23, <1>24
  DEF Next, InCall, LoopStep

(* Every action keeps what a committed call knows of its connection.       *)
LEMMA StepLoss == PromiseInv /\ LossInv /\ [Next]_vars => LossInv'
<1> SUFFICES ASSUME PromiseInv, LossInv, [Next]_vars
             PROVE  LossInv'
  OBVIOUS
<1>0. TypeOK /\ Bind \notin Publishes
  BY BrokerAssumption DEF PromiseInv
<1> USE DEF LossInv, Unbound, Unanswered, CommittedFails, Failed, Lost
<1>1. ASSUME BindBroker PROVE LossInv'
  BY <1>0, <1>1 DEF BindBroker, TypeOK, Calls, brokerVars, callVars, libraryVars
<1>2. ASSUME BindThrows PROVE LossInv'
  BY <1>0, <1>2 DEF BindThrows, TypeOK, Calls, brokerVars, callVars, libraryVars
<1>3. ASSUME NEW w \in Workers, Share(w) PROVE LossInv'
  BY <1>0, <1>3 DEF Share, TypeOK, Calls, brokerVars, callVars, libraryVars
<1>4. ASSUME NEW t \in Threads, Drop(t) PROVE LossInv'
  BY <1>0, <1>4 DEF Drop, TypeOK, Calls, brokerVars, callVars, libraryVars
<1>5. ASSUME NEW t \in Threads, ConnectionLost(t) PROVE LossInv'
  <2>1. ASSUME NEW p \in Publishes, p \in committed
        PROVE  /\ ThreadOf(p) = Caller[p] /\ Caller[p] \in Threads
               /\ conn[Caller[p]] = "lost" => Caller[p] # t
    BY <1>0, <1>5, <2>1, BrokerAssumption DEF ConnectionLost, ThreadOf, Threads
  <2>2. /\ conn' = [conn EXCEPT ![t] = "lost"]
        /\ \A c \in Calls : chan'[c] = "failing" =>
                             ThreadOf(c) = t \/ chan[c] = "failing"
    BY <1>5 DEF ConnectionLost
  <2>3. /\ pc' = pc /\ refused' = refused /\ barrier' = barrier
        /\ result' = result /\ committed' = committed /\ exchange' = exchange
        /\ broker' = broker /\ holders' = holders /\ looping' = looping
    BY <1>5 DEF ConnectionLost, brokerVars, callVars
  <2>4. ASSUME NEW p \in Publishes PROVE CommittedFails(p)'
    <3>1. CASE p \in committed
      <4>1. Failed(p)' => ThreadOf(p) = t \/ Failed(p)
        BY <2>2, <2>3 DEF Calls
      <4>2. Failed(p)' => Lost(p)'
        BY <1>0, <2>1, <2>2, <2>3, <3>1, <4>1 DEF TypeOK
      <4> QED
        BY <2>3, <3>1, <4>2
    <3>2. CASE p \notin committed
      BY <2>3, <3>2
    <3> QED
      BY <3>1, <3>2
  <2>5. broker # "none"
    BY <1>5 DEF ConnectionLost
  <2> QED
    BY <2>3, <2>4, <2>5
<1>6. ASSUME NEW mode \in {"sync", "async"}, Run(mode) PROVE LossInv'
  BY <1>0, <1>6 DEF Run, TypeOK, Calls, brokerVars, callVars, libraryVars
<1>7. ASSUME UvRunReturns PROVE LossInv'
  BY <1>0, <1>7 DEF UvRunReturns, TypeOK, Calls, brokerVars, callVars, libraryVars
<1>8. ASSUME NEW p \in Publishes, Publish(p) PROVE LossInv'
  <2>1. broker # "none"
    BY <1>8 DEF Publish, LoopFree, LoopReady
  <2>2. \A t \in Threads : conn[t] = "lost" => conn'[t] = "lost"
    BY <1>0, <1>8 DEF Publish, NewChannel, TypeOK
  <2>3. /\ pc[p] = "idle" /\ pc' = [pc EXCEPT ![p] = "commit"]
        /\ refused' = refused /\ barrier' = barrier
        /\ result' = result /\ committed' = committed /\ exchange' = exchange
        /\ broker' = broker
    BY <1>8 DEF Publish, brokerVars
  <2>4. \A q \in Publishes \ {p} : chan'[q] = chan[q]
    BY <1>0, <1>8 DEF Publish, NewChannel, TypeOK, Calls
  <2>5. ASSUME NEW q \in Publishes PROVE CommittedFails(q)'
    <3>1. CASE q \in committed
      <4>1. q # p /\ Caller[q] \in Threads
        BY <2>3, <3>1, BrokerAssumption DEF Threads
      <4>2. /\ Failed(q)' => Failed(q)
            /\ Lost(q) => Lost(q)'
        BY <2>2, <2>3, <2>4, <4>1
      <4> QED
        BY <1>0, <2>3, <3>1, <4>1, <4>2 DEF TypeOK
    <3>2. CASE q \notin committed
      BY <2>3, <3>2
    <3> QED
      BY <3>1, <3>2
  <2>6. Unanswered'
    BY <1>0, <2>3 DEF TypeOK
  <2> QED
    BY <2>1, <2>3, <2>5, <2>6
<1>9. ASSUME NEW p \in Publishes, CommitTransaction(p) PROVE LossInv'
  BY <1>0, <1>9 DEF CommitTransaction, TypeOK, Calls, brokerVars, callVars, libraryVars
<1>10. ASSUME NEW p \in Publishes, OnSuccess(p) PROVE LossInv'
  BY <1>0, <1>10 DEF OnSuccess, TypeOK, Calls, brokerVars, callVars, libraryVars
<1>11. ASSUME NEW p \in Publishes, OnError(p) PROVE LossInv'
  <2>1. /\ chan' = chan /\ conn' = conn /\ broker' = broker /\ holders' = holders
        /\ looping' = looping /\ exchange' = exchange /\ committed' = committed
        /\ refused' = refused /\ result' = result
        /\ pc[p] = "error" /\ pc' = [pc EXCEPT ![p] = "wait"]
    BY <1>11 DEF OnError, brokerVars, libraryVars
  <2>2. /\ p \notin refused => barrier' = barrier
        /\ \A q \in Publishes \ {p} : barrier'[q] = barrier[q]
    BY <1>0, <1>11 DEF OnError, SetValue, TypeOK
  <2>3. ASSUME NEW q \in Publishes PROVE CommittedFails(q)'
    <3>1. Failed(q)' => Failed(q)
      BY <2>1, <2>2
    <3>2. Lost(q)' <=> Lost(q)
      BY <2>1
    <3>3. pc'[q] \in {"idle", "commit"} => pc'[q] = pc[q]
      BY <1>0, <2>1 DEF TypeOK
    <3> QED
      BY <2>1, <3>1, <3>2, <3>3
  <2>4. Unanswered'
    BY <1>0, <2>1 DEF TypeOK
  <2> QED
    BY <2>1, <2>3, <2>4
<1>12. ASSUME NEW p \in Publishes, Return(p) PROVE LossInv'
  BY <1>0, <1>12 DEF Return, TypeOK, Calls, brokerVars, callVars, libraryVars
<1>13. ASSUME DeclareOk PROVE LossInv'
  BY <1>0, <1>13 DEF DeclareOk, TypeOK, Calls, brokerVars, callVars, libraryVars
<1>14. ASSUME DeclareError PROVE LossInv'
  BY <1>0, <1>14 DEF DeclareError, TypeOK, Calls, brokerVars, callVars, libraryVars
<1>15. ASSUME CallbackReturns PROVE LossInv'
  BY <1>0, <1>15 DEF CallbackReturns, TypeOK, Calls, brokerVars, callVars, libraryVars
<1>16. ASSUME NEW p \in Publishes, SelectOk(p) PROVE LossInv'
  BY <1>0, <1>16 DEF SelectOk, TypeOK, Calls, brokerVars, callVars, libraryVars
<1>17. ASSUME NEW p \in Publishes, ServerCommits(p) PROVE LossInv'
  <2>1. /\ committed' = committed \cup {p} /\ exchange /\ exchange' = exchange
        /\ chan[p] # "failing" /\ chan' = chan /\ conn' = conn /\ broker' = broker
        /\ holders' = holders /\ looping' = looping /\ refused' = refused
        /\ pc' = pc /\ barrier' = barrier /\ result' = result /\ ~LoopBlocked
    BY <1>17 DEF ServerCommits, Answers, LoopFree, LoopReady, brokerVars, callVars
  <2>2. pending[p] \in CommitQueues
    BY <1>17, QueueFacts DEF ServerCommits, Answers, PromiseInv, QueuesKnown, Calls
  <2>3. /\ pc[p] \in {"success", "error", "wait"} /\ barrier[p] = "unset"
        /\ p \notin refused
    BY <2>2 DEF PromiseInv, PublishInv, CommitAwaited
  <2>4. Caller[p] # Callback
    BY <2>1, <2>3 DEF LoopBlocked, InPublish
  <2>5. ~Failed(p)
    BY <2>1, <2>3, BrokerAssumption
  <2>6. ASSUME NEW q \in Publishes PROVE CommittedFails(q)'
    <3>1. CASE q = p
      BY <2>1, <2>3, <2>4, <2>5, <3>1
    <3>2. CASE q # p
      BY <2>1, <3>2
    <3> QED
      BY <3>1, <3>2
  <2> QED
    BY <2>1, <2>6
<1>18. ASSUME NEW p \in Publishes, CommitOk(p) PROVE LossInv'
  <2>1. /\ chan' = chan /\ conn' = conn /\ broker' = broker /\ holders' = holders
        /\ looping' = looping /\ exchange' = exchange /\ committed' = committed
        /\ refused' = refused /\ result' = result /\ pc' = pc
    BY <1>18 DEF CommitOk, brokerVars
  <2>2. barrier' = barrier \/ barrier' = [barrier EXCEPT ![p] = "empty"]
    BY <1>18 DEF CommitOk, SetValue
  <2>3. \A q \in Publishes : barrier'[q] \in Texts => barrier[q] \in Texts
    BY ZenonT(60), <1>0, <2>2, BrokerAssumption DEF TypeOK
  <2>4. ASSUME NEW q \in Publishes PROVE CommittedFails(q)'
    <3>1. (Failed(q)' => Failed(q)) /\ (Lost(q)' <=> Lost(q))
      BY <2>1, <2>3
    <3> QED
      BY <2>1, <3>1
  <2> QED
    BY <2>1, <2>4
<1>19. ASSUME NEW p \in Publishes, SelectError(p) PROVE LossInv'
  BY <1>0, <1>19 DEF SelectError, TypeOK, Calls, brokerVars, callVars, libraryVars
<1>20. ASSUME NEW p \in Publishes, CommitError(p) PROVE LossInv'
  <2>1. /\ chan' = chan /\ conn' = conn /\ broker' = broker /\ holders' = holders
        /\ looping' = looping /\ exchange' = exchange /\ committed' = committed
        /\ result' = result /\ pc' = pc /\ chan[p] = "failing"
    BY <1>20 DEF CommitError, Fails, brokerVars
  <2>2. \A q \in Publishes \ {p} :
          (q \in refused' <=> q \in refused) /\ barrier'[q] = barrier[q]
    BY <1>0, <1>20 DEF CommitError, SetValue, TypeOK
  <2>3. ASSUME NEW q \in Publishes PROVE CommittedFails(q)'
    <3>1. Failed(q)' => Failed(q)
      BY <2>1, <2>2
    <3>2. Lost(q)' <=> Lost(q)
      BY <2>1
    <3> QED
      BY <2>1, <3>1, <3>2
  <2> QED
    BY <2>1, <2>3
<1>21. ASSUME NEW p \in Publishes, NoExchange(p) PROVE LossInv'
  BY <1>0, <1>21 DEF NoExchange, TypeOK, Calls, brokerVars, callVars, libraryVars
<1>22. ASSUME NEW c \in Calls, ChannelClosed(c) PROVE LossInv'
  BY <1>0, <1>22 DEF ChannelClosed, TypeOK, Calls, brokerVars, callVars, libraryVars
<1>23. ASSUME NEW c \in Calls, ChannelError(c) PROVE LossInv'
  BY <1>0, <1>23 DEF ChannelError, TypeOK, Calls, brokerVars, callVars, libraryVars
<1>24. CASE UNCHANGED vars
  BY <1>24 DEF vars, brokerVars, callVars, libraryVars
<1> QED
  BY <1>1, <1>2, <1>3, <1>4, <1>5, <1>6, <1>7, <1>8, <1>9, <1>10, <1>11, <1>12, <1>13, <1>14, <1>15, <1>16, <1>17, <1>18, <1>19, <1>20, <1>21, <1>22, <1>23, <1>24
  DEF Next, InCall, LoopStep

-----------------------------------------------------------------------------
LEMMA InitInv == Init => PromiseInv /\ OkInv /\ LossInv
<1> SUFFICES ASSUME Init PROVE PromiseInv /\ OkInv /\ LossInv
  OBVIOUS
<1>1. <<>> \in Queues
  BY DEF Queues
<1>2. pending \in [Calls -> Queues]
  BY <1>1 DEF Init
<1>3. TypeOK
  BY <1>2, QueuesAreSequences DEF Init, TypeOK, Calls
<1> QED
  BY <1>2, <1>3, NoCommitYet, BrokerAssumption
  DEF Init, PromiseInv, PublishInv, QueuesKnown, UncommittedQueue, CommitAwaited,
      RefusedUnset, PromiseSound, OkInv, EmptyCommitted, OkCommitted,
      LossInv, Unbound, Unanswered, CommittedFails, Calls

(* The state of the broker and of every publish has its type.              *)
THEOREM TypeCorrect == Spec => []TypeOK
<1>1. Init => PromiseInv
  BY InitInv
<1>2. PromiseInv /\ [Next]_vars => PromiseInv'
  BY StepTypeOK, StepPromise DEF PromiseInv, PublishInv
<1>3. PromiseInv => TypeOK
  BY DEF PromiseInv, PublishInv
<1> QED
  BY <1>1, <1>2, <1>3, PTL DEF Spec

(* For any number of publishes on any threads, and whatever breaks: the    *)
(* callbacks of commitTransaction never touch a publish_barrier whose call *)
(* has returned, and never set one twice.                                  *)
THEOREM BarrierSound == Spec => []PromiseSound
<1>1. Init => PromiseInv
  BY InitInv
<1>2. PromiseInv /\ [Next]_vars => PromiseInv'
  BY StepTypeOK, StepPromise DEF PromiseInv, PublishInv
<1>3. PromiseInv => PromiseSound
  BY DEF PromiseInv, PublishInv
<1> QED
  BY <1>1, <1>2, <1>3, PTL DEF Spec

(* For any number of publishes on any threads, and whatever breaks: a      *)
(* publish_message that returns OK has had its message committed.          *)
THEOREM OkMeansCommitted == Spec => []OkCommitted
<1>1. Init => OkInv
  BY InitInv
<1>2. TypeOK /\ OkInv /\ [Next]_vars => OkInv'
  BY StepOk
<1>3. OkInv => OkCommitted
  BY DEF OkInv
<1> QED
  BY <1>1, <1>2, <1>3, TypeCorrect, PTL DEF Spec

(* For any number of publishes on any threads, and whatever breaks: a      *)
(* publish_message that returns an error has not had its message committed *)
(* unless the connection of its thread was lost.                           *)
THEOREM ErrorsUndelivered == Spec => []ErrorMeansUndelivered
<1>1. Init => PromiseInv /\ LossInv
  BY InitInv
<1>2. (PromiseInv /\ LossInv) /\ [Next]_vars => (PromiseInv /\ LossInv)'
  BY StepTypeOK, StepPromise, StepLoss DEF PromiseInv, PublishInv
<1>3. LossInv => ErrorMeansUndelivered
  <2> SUFFICES ASSUME LossInv, NEW p \in Publishes, result[p] = "PUBLISH", p \in committed
               PROVE  conn[ThreadOf(p)] = "lost" \/ broker = "freed"
    BY DEF ErrorMeansUndelivered
  <2>1. Caller[p] # Callback /\ Lost(p)
    BY DEF LossInv, CommittedFails, Failed
  <2>2. ThreadOf(p) = Caller[p]
    BY <2>1, BrokerAssumption DEF ThreadOf
  <2> QED
    BY <2>1, <2>2 DEF Lost
<1> QED
  BY <1>1, <1>2, <1>3, PTL DEF Spec
=============================================================================
