------------------------------- MODULE Broker -------------------------------
(***************************************************************************)
(* The life of a BrokerImpl (src/broker_impl/broker.cc, broker.h) behind   *)
(* its Broker handles (src/amqp_broker.cc): Bind, run, publish, and the    *)
(* destructor that the last handle triggers.                               *)
(*                                                                         *)
(* The thread Main binds the broker, hands copies of the handle to the     *)
(* Workers and calls run; every thread may publish, and so may a callback  *)
(* of the user, on whichever thread is in uv_run.  A channel belongs to    *)
(* one call, a connection to one thread.  The AMQP library and the server  *)
(* are external: a channel answers its operations in order; the server may *)
(* have committed a transaction whose answer never comes; an operation on  *)
(* a broken channel is refused at once, and onError on a refused operation *)
(* calls its argument then and there.                                      *)
(***************************************************************************)
EXTENDS Naturals, Sequences

CONSTANTS
  Publishes,  \* the calls of Broker::publish
  Caller,     \* Caller[p] is the thread of call p, or Callback
  Main, Looper, Workers, Callback,  \* threads; Looper is the one run starts
  Bind,       \* the call of Broker::Bind
  Texts,      \* the error messages the library passes to onError
  Failures    \* which of "channel" and "connection" may break

(* No error comes with an empty text, which is "empty" here: the caller    *)
(* tells success and failure apart by error.empty().                       *)
ASSUME BrokerAssumption ==
  /\ Bind \notin Publishes
  /\ Caller \in [Publishes -> Workers \cup {Main, Callback}]
  /\ "empty" \notin Texts /\ "unset" \notin Texts

Calls   == Publishes \cup {Bind}
Threads == Workers \cup {Main, Looper}

VARIABLES
  (* the broker *)
  broker,     \* "none", "bound", "failed" (Bind returned an error), "freed"
  holders,    \* threads with a copy of the Broker handle
  conn,       \* conn[t], the connection cached for thread t
  launch,     \* how run was last called
  looping,    \* some thread is in uv_run
  told,       \* the on_error of Bind was called
  (* the calls of publish *)
  pc,
  attached,   \* the handlers attached to commitTransaction
  barrier,    \* publish_barrier
  result,     \* what publish returned
  (* the AMQP library and the server *)
  chan,       \* the channel of a call
  pending,    \* its operations without an answer, oldest first
  refused,    \* calls whose commit the library knows to have failed
  exchange,   \* the exchange exists
  committed,  \* calls whose transaction the server has committed
  (* observations *)
  busy,       \* the call whose callback has not returned yet, or Bind
  missed,     \* calls whose commit was answered before the handler was there
  fault       \* undefined behaviour; nothing happens after it

brokerVars  == <<broker, holders, launch, looping, told>>
callVars    == <<pc, attached, barrier, result>>
libraryVars == <<conn, chan, pending, refused, exchange, committed>>
vars == <<brokerVars, callVars, libraryVars, busy, missed, fault>>

TypeOK ==
  /\ broker \in {"none", "bound", "failed", "freed"}
  /\ holders \subseteq Threads
  /\ conn \in [Threads -> {"none", "up", "lost"}]
  /\ launch \in {"none", "sync", "async"}
  /\ looping \in BOOLEAN /\ told \in BOOLEAN /\ exchange \in BOOLEAN
  /\ pc \in [Publishes ->
                {"idle", "commit", "success", "error", "wait", "done"}]
  /\ attached \in [Publishes -> SUBSET {"success", "error"}]
  /\ barrier \in [Publishes -> Texts \cup {"unset", "empty"}]
  /\ result \in [Publishes -> {"none", "OK", "PUBLISH"}]
  /\ chan \in [Calls -> {"closed", "open", "closing", "failing"}]
  /\ pending \in [Calls -> Seq({"declare", "select", "commit"})]
  /\ refused \subseteq Publishes /\ committed \subseteq Publishes
  /\ missed \subseteq Publishes
  /\ busy \in Calls
  /\ fault \in {"none", "promise", "loop"}

(* A durable exchange may exist from an earlier run.                       *)
Init ==
  /\ broker = "none" /\ holders = {} /\ launch = "none"
  /\ looping = FALSE /\ told = FALSE /\ exchange \in BOOLEAN
  /\ conn = [t \in Threads |-> "none"]
  /\ pc = [p \in Publishes |-> "idle"]
  /\ attached = [p \in Publishes |-> {}]
  /\ barrier = [p \in Publishes |-> "unset"]
  /\ result = [p \in Publishes |-> "none"]
  /\ chan = [c \in Calls |-> "closed"]
  /\ pending = [c \in Calls |-> <<>>]
  /\ refused = {} /\ committed = {} /\ missed = {}
  /\ busy = Bind /\ fault = "none"

-----------------------------------------------------------------------------
(* The thread in uv_run, and the thread a call runs on.                    *)
LoopThread == IF launch = "sync" THEN Main ELSE Looper

ThreadOf(c) ==
  CASE c = Bind               -> Main
    [] Caller[c] = Callback   -> LoopThread
    [] OTHER                  -> Caller[c]

InPublish(p) == pc[p] \notin {"idle", "done"}

(* A callback of the user sits in publish: the loop thread is not in the   *)
(* loop.                                                                   *)
LoopBlocked == \E p \in Publishes : Caller[p] = Callback /\ InPublish(p)

(* Thread t is in no call on the broker.                                   *)
Free(t) ==
  /\ \A p \in Publishes : InPublish(p) => ThreadOf(p) # t
  /\ ~(t = Main /\ looping /\ launch = "sync")

(* The loop thread can take up the next event.                             *)
LoopReady ==
  /\ looping /\ ~LoopBlocked /\ busy = Bind

LoopFree == LoopReady /\ \A c \in Calls : chan[c] # "failing"

(* ConnectionCache::new_channel for call c: a connection is made once per  *)
(* thread and stays in the cache when it is lost.                          *)
NewChannel(c) ==
  LET t == ThreadOf(c) IN
    /\ conn' = [conn EXCEPT ![t] = IF @ = "none" THEN "up" ELSE @]
    /\ chan' = [chan EXCEPT ![c] = IF conn[t] = "lost" THEN "closed" ELSE "open"]

-----------------------------------------------------------------------------
(* Broker::Bind                                                            *)

(* Mutant of BindBroker: deleting the channel drops its operations.        *)
BindBrokerForgets ==
  /\ broker = "none"
  /\ broker' = "bound" /\ holders' = {Main}
  /\ conn' = [conn EXCEPT ![Main] = "up"]
  /\ chan' = [chan EXCEPT ![Bind] = "closing"]
  /\ UNCHANGED <<launch, looping, told, callVars, pending, refused, exchange,
                 committed, busy, missed, fault>>

(* The exchange is declared on a channel that is deleted at once: the      *)
(* channel is closing with its declaration outstanding when Bind returns.  *)
BindBroker ==
  /\ broker = "none"
  /\ broker' = "bound" /\ holders' = {Main}
  /\ conn' = [conn EXCEPT ![Main] = "up"]
  /\ chan' = [chan EXCEPT ![Bind] = "closing"]
  /\ pending' = [pending EXCEPT ![Bind] = <<"declare">>]
  /\ UNCHANGED <<launch, looping, told, callVars, refused, exchange,
                 committed, busy, missed, fault>>

(* Something throws: a CONNECTION error is returned, the impl is gone.     *)
BindThrows ==
  /\ broker = "none"
  /\ broker' = "failed"
  /\ UNCHANGED <<holders, launch, looping, told, callVars, libraryVars,
                 busy, missed, fault>>

-----------------------------------------------------------------------------
(* The handles                                                             *)

(* Main passes a copy of its handle to worker w.                           *)
Share(w) ==
  /\ Main \in holders /\ Free(Main) /\ w \notin holders
  /\ \E p \in Publishes : Caller[p] = w /\ pc[p] = "idle"
  /\ holders' = holders \cup {w}
  /\ UNCHANGED <<broker, launch, looping, told, callVars, libraryVars, busy,
                 missed, fault>>

(* Thread t drops its handle; a thread in run(sync) does so in a callback  *)
(* of the user's.  With the last handle goes the BrokerImpl: its           *)
(* connections are flushed and the loop is stopped, closed and freed,      *)
(* whether or not a thread, detached or not, is still in uv_run.           *)
Drop(t) ==
  /\ t \in holders
  /\ \A p \in Publishes : InPublish(p) => ThreadOf(p) # t
  /\ (t = Main /\ looping /\ launch = "sync") => LoopReady
  /\ holders' = holders \ {t}
  /\ IF holders' = {}
     THEN /\ broker' = "freed"
          /\ fault' = IF looping THEN "loop" ELSE "none"
          /\ conn' = [u \in Threads |-> "none"]
          /\ chan' = [c \in Calls |-> "closed"]
          /\ pending' = [c \in Calls |-> <<>>]
     ELSE UNCHANGED <<broker, fault, conn, chan, pending>>
  /\ UNCHANGED <<launch, looping, told, callVars, refused, exchange,
                 committed, busy, missed>>

(* Broker::run                                                             *)
Run(mode) ==
  /\ Main \in holders /\ Free(Main) /\ ~looping
  /\ looping' = TRUE /\ launch' = mode
  /\ UNCHANGED <<broker, holders, told, callVars, libraryVars, busy, missed,
                 fault>>

(* uv_run returns when no connection is left to wait for.                  *)
UvRunReturns ==
  /\ LoopFree
  /\ \A t \in Threads : conn[t] # "up"
  /\ looping' = FALSE
  /\ UNCHANGED <<broker, holders, launch, told, callVars, libraryVars, busy,
                 missed, fault>>

-----------------------------------------------------------------------------
(* BrokerImpl::publish_message, on the calling thread                      *)

(* The call is made, takes a channel and starts a transaction on it.       *)
Publish(p) ==
  /\ pc[p] = "idle"
  /\ IF Caller[p] = Callback THEN LoopFree
                             ELSE Caller[p] \in holders /\ Free(Caller[p])
  /\ NewChannel(p)
  /\ pending' = [pending EXCEPT
                   ![p] = IF chan'[p] = "open" THEN <<"select">> ELSE <<>>]
  /\ pc' = [pc EXCEPT ![p] = "commit"]
  /\ UNCHANGED <<brokerVars, attached, barrier, result, refused, exchange,
                 committed, busy, missed, fault>>

(* The message, which has no answer, and the commit go out; on a broken    *)
(* channel the commit is refused.                                          *)
CommitTransaction(p) ==
  /\ pc[p] = "commit"
  /\ IF chan[p] = "open"
     THEN pending' = [pending EXCEPT ![p] = Append(@, "commit")] /\ UNCHANGED refused
     ELSE refused' = refused \cup {p} /\ UNCHANGED pending
  /\ pc' = [pc EXCEPT ![p] = "success"]
  /\ UNCHANGED <<brokerVars, attached, barrier, result, conn, chan, exchange,
                 committed, busy, missed, fault>>

(* publish_barrier.set_value: the promise lives in the frame of the call,  *)
(* and may be set once.                                                    *)
SetValue(p, text) ==
  IF pc[p] = "done" \/ barrier[p] # "unset"
  THEN fault' = "promise" /\ UNCHANGED barrier
  ELSE barrier' = [barrier EXCEPT ![p] = text] /\ UNCHANGED fault

OnSuccess(p) ==
  /\ pc[p] = "success"
  /\ attached' = [attached EXCEPT ![p] = @ \cup {"success"}]
  /\ pc' = [pc EXCEPT ![p] = "error"]
  /\ UNCHANGED <<brokerVars, barrier, result, libraryVars, busy, missed, fault>>

OnError(p) ==
  /\ pc[p] = "error"
  /\ attached' = [attached EXCEPT ![p] = @ \cup {"error"}]
  /\ pc' = [pc EXCEPT ![p] = "wait"]
  /\ IF p \in refused
     THEN \E text \in Texts : SetValue(p, text)
     ELSE UNCHANGED <<barrier, fault>>
  /\ UNCHANGED <<brokerVars, result, libraryVars, busy, missed>>

(* Mutant of Return: the wait is given up, the answer may still come.      *)
ReturnUnanswered(p) ==
  /\ pc[p] = "wait"
  /\ chan' = [chan EXCEPT ![p] = IF @ = "open" THEN "closing" ELSE @]
  /\ result' = [result EXCEPT ![p] = IF barrier[p] = "empty" THEN "OK" ELSE "PUBLISH"]
  /\ pc' = [pc EXCEPT ![p] = "done"]
  /\ UNCHANGED <<brokerVars, attached, barrier, conn, pending, refused,
                 exchange, committed, busy, missed, fault>>

(* Mutant of Return: the code of the error is taken from its text.         *)
ReturnText(p) ==
  /\ pc[p] = "wait"
  /\ barrier[p] # "unset"
  /\ chan' = [chan EXCEPT ![p] = IF @ = "open" THEN "closing" ELSE @]
  /\ result' = [result EXCEPT ![p] = barrier[p]]
  /\ pc' = [pc EXCEPT ![p] = "done"]
  /\ UNCHANGED <<brokerVars, attached, barrier, conn, pending, refused,
                 exchange, committed, busy, missed, fault>>

(* Mutant of Return: the test of error.empty() is the wrong way round.     *)
ReturnInverted(p) ==
  /\ pc[p] = "wait"
  /\ barrier[p] # "unset"
  /\ chan' = [chan EXCEPT ![p] = IF @ = "open" THEN "closing" ELSE @]
  /\ result' = [result EXCEPT ![p] = IF barrier[p] = "empty" THEN "PUBLISH" ELSE "OK"]
  /\ pc' = [pc EXCEPT ![p] = "done"]
  /\ UNCHANGED <<brokerVars, attached, barrier, conn, pending, refused,
                 exchange, committed, busy, missed, fault>>

(* get_future().get() comes back, maybe before the callback that set the   *)
(* promise has returned; the channel is deleted and the text decides.      *)
Return(p) ==
  /\ pc[p] = "wait"
  /\ barrier[p] # "unset"
  /\ chan' = [chan EXCEPT ![p] = IF @ = "open" THEN "closing" ELSE @]
  /\ result' = [result EXCEPT ![p] = IF barrier[p] = "empty" THEN "OK" ELSE "PUBLISH"]
  /\ pc' = [pc EXCEPT ![p] = "done"]
  /\ UNCHANGED <<brokerVars, attached, barrier, conn, pending, refused,
                 exchange, committed, busy, missed, fault>>

-----------------------------------------------------------------------------
(* The server and the callbacks of the loop thread                         *)

(* The server can answer op, the oldest operation of channel c.            *)
Answers(c, op) ==
  /\ LoopFree
  /\ chan[c] \in {"open", "closing"}
  /\ pending[c] # <<>> /\ Head(pending[c]) = op

Answered(c) == pending' = [pending EXCEPT ![c] = Tail(@)]

DeclareOk ==
  /\ Answers(Bind, "declare") /\ Answered(Bind)
  /\ exchange' = TRUE
  /\ UNCHANGED <<brokerVars, callVars, conn, chan, refused, committed, busy,
                 missed, fault>>

(* Mutant of SelectOk: the success handler is chained to startTransaction. *)
SelectOkReports(p) ==
  /\ Answers(p, "select") /\ Answered(p)
  /\ IF "success" \in attached[p] THEN SetValue(p, "empty")
                                  ELSE UNCHANGED <<barrier, fault>>
  /\ UNCHANGED <<brokerVars, pc, attached, result, conn, chan, refused,
                 exchange, committed, busy, missed>>

SelectOk(p) ==
  /\ Answers(p, "select") /\ Answered(p)
  /\ UNCHANGED <<brokerVars, callVars, conn, chan, refused, exchange,
                 committed, busy, missed, fault>>

(* The server commits; its answer is on the way.                           *)
ServerCommits(p) ==
  /\ Answers(p, "commit")
  /\ exchange /\ p \notin committed
  /\ committed' = committed \cup {p}
  /\ UNCHANGED <<brokerVars, callVars, conn, chan, pending, refused, exchange,
                 busy, missed, fault>>

(* Mutant of CommitOk: it calls nobody.                                    *)
CommitOkSilent(p) ==
  /\ Answers(p, "commit") /\ p \in committed /\ Answered(p)
  /\ UNCHANGED <<brokerVars, callVars, conn, chan, refused, exchange,
                 committed, busy, missed, fault>>

(* commitTransaction().onSuccess                                           *)
CommitOk(p) ==
  /\ Answers(p, "commit") /\ p \in committed /\ Answered(p)
  /\ IF "success" \in attached[p]
     THEN SetValue(p, "empty") /\ busy' = p /\ UNCHANGED missed
     ELSE missed' = missed \cup {p} /\ UNCHANGED <<barrier, fault, busy>>
  /\ UNCHANGED <<brokerVars, pc, attached, result, conn, chan, refused,
                 exchange, committed>>

CallbackReturns ==
  /\ busy # Bind
  /\ busy' = Bind
  /\ UNCHANGED <<brokerVars, callVars, libraryVars, missed, fault>>

(* Channel c is in error and its oldest operation op fails.                *)
Fails(c, op) ==
  /\ LoopReady /\ chan[c] = "failing"
  /\ pending[c] # <<>> /\ Head(pending[c]) = op
  /\ Answered(c)

(* declareExchange().onError                                               *)
DeclareError ==
  /\ Fails(Bind, "declare")
  /\ told' = TRUE
  /\ UNCHANGED <<broker, holders, launch, looping, callVars, conn, chan,
                 refused, exchange, committed, busy, missed, fault>>

SelectError(p) ==
  /\ Fails(p, "select")
  /\ UNCHANGED <<brokerVars, callVars, conn, chan, refused, exchange,
                 committed, busy, missed, fault>>

(* commitTransaction().onError.  If the handler is not there yet, it is    *)
(* called when it comes or never: the caller then holds a reference to an  *)
(* operation the library has done away with.                               *)
CommitError(p) ==
  /\ Fails(p, "commit")
  /\ IF "error" \in attached[p]
     THEN /\ \E text \in Texts : SetValue(p, text)
          /\ busy' = p
          /\ UNCHANGED <<refused, missed>>
     ELSE /\ \/ refused' = refused \cup {p} /\ UNCHANGED missed
             \/ missed' = missed \cup {p} /\ UNCHANGED refused
          /\ UNCHANGED <<barrier, fault, busy>>
  /\ UNCHANGED <<brokerVars, pc, attached, result, conn, chan, exchange,
                 committed>>

(* A message to an exchange that does not exist closes its channel.        *)
NoExchange(p) ==
  /\ Answers(p, "commit") /\ ~exchange
  /\ chan' = [chan EXCEPT ![p] = "failing"]
  /\ UNCHANGED <<brokerVars, callVars, conn, pending, refused, exchange,
                 committed, busy, missed, fault>>

(* The server closes channel c for reasons of its own.                     *)
ChannelError(c) ==
  /\ "channel" \in Failures
  /\ LoopFree /\ c \notin committed
  /\ chan[c] = "open" \/ (chan[c] = "closing" /\ pending[c] # <<>>)
  /\ chan' = [chan EXCEPT ![c] = "failing"]
  /\ UNCHANGED <<brokerVars, callVars, conn, pending, refused, exchange,
                 committed, busy, missed, fault>>

ConnectionLost(t) ==
  /\ "connection" \in Failures
  /\ LoopFree /\ conn[t] = "up"
  /\ conn' = [conn EXCEPT ![t] = "lost"]
  /\ chan' = [c \in Calls |->
                IF ThreadOf(c) = t /\ chan[c] # "closed" THEN "failing" ELSE chan[c]]
  /\ UNCHANGED <<brokerVars, callVars, pending, refused, exchange, committed,
                 busy, missed, fault>>

(* The close of channel c is complete.                                     *)
ChannelClosed(c) ==
  /\ chan[c] \in {"failing", "closing"} /\ pending[c] = <<>>
  /\ IF chan[c] = "failing" THEN LoopReady ELSE LoopFree
  /\ chan' = [chan EXCEPT ![c] = "closed"]
  /\ UNCHANGED <<brokerVars, callVars, conn, pending, refused, exchange,
                 committed, busy, missed, fault>>

-----------------------------------------------------------------------------
InCall(p) ==
  \/ CommitTransaction(p) \/ OnSuccess(p) \/ OnError(p) \/ Return(p)

LoopStep ==
  \/ DeclareOk \/ DeclareError \/ CallbackReturns
  \/ \E p \in Publishes : \/ SelectOk(p) \/ ServerCommits(p) \/ CommitOk(p)
                          \/ SelectError(p) \/ CommitError(p) \/ NoExchange(p)
  \/ \E c \in Calls : ChannelClosed(c)

Next ==
  /\ fault = "none"
  /\ \/ BindBroker \/ BindThrows
     \/ \E w \in Workers : Share(w)
     \/ \E t \in Threads : Drop(t) \/ ConnectionLost(t)
     \/ \E mode \in {"sync", "async"} : Run(mode)
     \/ UvRunReturns
     \/ \E p \in Publishes : Publish(p) \/ InCall(p)
     \/ LoopStep
     \/ \E c \in Calls : ChannelError(c)

Spec == Init /\ [][Next]_vars

(* A thread goes on with the call it is in, and the thread in uv_run takes *)
(* up what the server sends, which answers every operation.                *)
Fairness ==
  /\ \A p \in Publishes : WF_vars(fault = "none" /\ InCall(p))
  /\ WF_vars(fault = "none" /\ LoopStep)

FairSpec == Spec /\ Fairness

-----------------------------------------------------------------------------
(* Properties                                                              *)

(* publish returns OK only for a message that the server has committed:    *)
(* the promise is set to the empty text by the answer to the commit alone, *)
(* and whatever broke before leaves a text behind.                         *)
OkCommitted == \A p \in Publishes : result[p] = "OK" => p \in committed

(* The promise that the callbacks of commitTransaction capture by          *)
(* reference is alive when one runs and is set once, even though the       *)
(* caller races the loop thread from the moment the promise is set.        *)
PromiseSound == fault # "promise"

(* An error means that the message was not delivered, so that it may be    *)
(* published again, unless the connection of the call was lost, maybe      *)
(* between the server's commit and its answer.                             *)
ErrorMeansUndelivered ==
  \A p \in Publishes :
    result[p] = "PUBLISH" /\ p \in committed
      => conn[ThreadOf(p)] = "lost" \/ broker = "freed"

(* Why publish may not come back: nobody is in uv_run, or the thread that  *)
(* is sits in a publish of its own.                                        *)
LoopStuck == ~looping \/ LoopBlocked

(* While the loop runs a publish comes back, whatever breaks, unless the   *)
(* answer overtook the attaching of its handler.                           *)
PublishReturns ==
  \A p \in Publishes :
    pc[p] = "wait"
      ~> (pc[p] = "done" \/ p \in missed \/ LoopStuck \/ fault # "none")

(* The same without the exception for an answer that came too early.       *)
PublishAnswered ==
  \A p \in Publishes :
    pc[p] = "wait" ~> (pc[p] = "done" \/ LoopStuck \/ fault # "none")

(* "Publish message with routing key and exit", as amqp_broker.h has it:   *)
(* publish comes back.                                                     *)
PublishExits == \A p \in Publishes : pc[p] = "wait" ~> pc[p] = "done"

(* Bind returns before its exchange exists and deletes the channel that    *)
(* declares it; still, once the loop runs, the exchange comes into being   *)
(* or the on_error passed to Bind is called.                               *)
ExchangeSettled ==
  (broker = "bound" /\ looping)
    ~> (exchange \/ told \/ LoopStuck \/ broker = "freed" \/ fault # "none")
=============================================================================
