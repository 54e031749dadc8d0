-------------------------------- MODULE Fetch --------------------------------
(***************************************************************************)
(* The client half of an RPC: BrokerImpl::fetch_message                    *)
(* (src/broker_impl/broker.cc), the static counter behind                  *)
(* create_unique_id, the cache fetchers_ and the DeferredFetching objects  *)
(* in it.  Caller threads run fetch_message and then chain handlers on the *)
(* reference it returns; one loop thread runs every AMQP callback.         *)
(*                                                                         *)
(* Request r builds the object r and the channel r; a callback of          *)
(* request r captures its correlation id, never the object, and looks the  *)
(* object up in fetchers_ when it runs.  The AMQP library and the server   *)
(* are external: a channel answers its operations in the order they were   *)
(* issued, consume-ok precedes the first delivery, and an error of the     *)
(* channel fails every operation still outstanding, oldest first.          *)
(***************************************************************************)
EXTENDS Deferred, Integers, Sequences

CONSTANTS
  Requests,    \* the calls of Broker::fetch
  Threads,     \* the threads that make them
  Caller,      \* Caller[r] is the thread that makes call r
  Chain,       \* the handlers a caller chains on the returned reference
  MaxReplies,  \* bound on the messages the server puts in one reply queue
  Failures,    \* which of "channel" and "connection" may break
  RunFirst     \* is Broker::run called before the first fetch?

ASSUME FetchAssumption ==
  /\ Nobody \notin Requests
  /\ Caller \in [Requests -> Threads]
  /\ Chain \subseteq Handlers /\ Chain # {}
  /\ MaxReplies \in Nat
  /\ RunFirst \in BOOLEAN

VARIABLES
  (* the broker *)
  n,          \* the static int of create_unique_id
  fetchers,   \* the objects in fetchers_; object o is stored under id[o]
  obj,        \* obj[o], the DeferredFetching that call o constructs
  (* the callers *)
  pc,         \* how far each call has come
  id,         \* the correlation id a call has drawn
  ref,        \* the object behind the reference a call returns
  chained,    \* the handlers a caller has chained so far
  (* the AMQP library and the server *)
  running,    \* uv_run is executing
  chan,       \* state of the channel owned by object o
  pending,    \* operations issued on channel o and not answered, in order
  consuming,  \* the reply queues channel o consumes from
  published,  \* requests whose message a transaction has published
  delivered,  \* replies delivered so far from the queue of a request
  lost,       \* threads whose connection is gone
  (* observations *)
  got,        \* <<u, r>>: the data handler of u was called with a reply to r
  fault       \* undefined behaviour or abort(); nothing happens after it

vars == <<n, fetchers, obj, pc, id, ref, chained, running, chan, pending,
          consuming, published, delivered, lost, got, fault>>

(* An operation, the request whose callbacks it carries and the channel    *)
(* that request's reply queue was declared on.                             *)
Operation ==
  [op : {"declare", "commit", "consume"}, req : Requests, at : Requests]

TypeOK ==
  /\ n \in Nat
  /\ fetchers \subseteq Requests
  /\ obj \in [Requests -> DeferredType(Requests)]
  /\ pc \in [Requests -> {"idle", "incr", "set", "declare", "chain", "done"}]
  /\ id \in [Requests -> Nat]
  /\ ref \in [Requests -> Requests \cup {Nobody}]
  /\ chained \in [Requests -> SUBSET Handlers]
  /\ running \in BOOLEAN
  /\ chan \in [Requests -> {"open", "failing", "closing", "closed"}]
  /\ pending \in [Requests -> Seq(Operation)]
  /\ consuming \in [Requests -> SUBSET Requests]
  /\ published \subseteq Requests
  /\ delivered \in [Requests -> Nat]
  /\ lost \subseteq Threads
  /\ got \subseteq Requests \X Requests
  /\ fault \in {"none", "null", "uaf", "abort"}

Init ==
  /\ n = 1
  /\ fetchers = {}
  /\ obj = [r \in Requests |-> Unborn]
  /\ pc = [r \in Requests |-> "idle"]
  /\ id = [r \in Requests |-> 0]
  /\ ref = [r \in Requests |-> Nobody]
  /\ chained = [r \in Requests |-> {}]
  /\ running = FALSE
  /\ chan = [r \in Requests |-> "closed"]
  /\ pending = [r \in Requests |-> <<>>]
  /\ consuming = [r \in Requests |-> {}]
  /\ published = {}
  /\ delivered = [r \in Requests |-> 0]
  /\ lost = {}
  /\ got = {}
  /\ fault = "none"

-----------------------------------------------------------------------------
(* fetchers_.get(key): the object stored under the key, or null.           *)
Get(key) ==
  IF \E o \in fetchers : id[o] = key
  THEN CHOOSE o \in fetchers : id[o] = key
  ELSE Nobody

(* The object a callback of request r finds.                               *)
Target(r) == Get(id[r])

(* Object t becomes d; nothing changes when t is null.                     *)
With(t, d) == [o \in Requests |-> IF o = t THEN d ELSE obj[o]]

(* ~Channel closes the channel of an object that is destroyed.             *)
CloseChannel(t) ==
  [o \in Requests |-> IF o = t /\ chan[o] = "open" THEN "closing" ELSE chan[o]]

(* ConnectionCache::new_channel on thread t: the connection of t stays in  *)
(* the cache after it is lost, and a channel on it is closed from the      *)
(* start.                                                                  *)
NewChannel(t) == IF t \in lost THEN "closed" ELSE "open"

(* An operation the loop issues on a closed channel fails at once; the     *)
(* loop runs the callbacks before anything else.                           *)
IssueOn(t) ==
  [o \in Requests |-> IF o = t /\ chan[o] = "closed" THEN "failing" ELSE chan[o]]

(* The outstanding operations once the oldest of channel o is answered and *)
(* ops are issued on channel t.                                            *)
Answered(o, t, ops) ==
  [c \in Requests |-> (IF c = o THEN Tail(pending[c]) ELSE pending[c])
                         \o (IF c = t THEN ops ELSE <<>>)]

LoopFree == \A o \in Requests : chan[o] # "failing"

-----------------------------------------------------------------------------
(* Caller threads                                                          *)

(* create_unique_id, `n++' on an unguarded static int: the read ...        *)
ReadId(r) ==
  /\ pc[r] = "idle"
  /\ \A q \in Requests : Caller[q] = Caller[r] => pc[q] \in {"idle", "done"}
  /\ id' = [id EXCEPT ![r] = n]
  /\ pc' = [pc EXCEPT ![r] = "incr"]
  /\ UNCHANGED <<n, fetchers, obj, ref, chained, running, chan, pending,
                 consuming, published, delivered, lost, got, fault>>

(* Mutant of WriteId: the id is drawn, the counter stays.                  *)
WriteIdNoIncrement(r) ==
  /\ pc[r] = "incr"
  /\ n' = id[r]
  /\ pc' = [pc EXCEPT ![r] = "set"]
  /\ UNCHANGED <<fetchers, obj, id, ref, chained, running, chan, pending,
                 consuming, published, delivered, lost, got, fault>>

(* Mutant of WriteId: the counter runs down.                               *)
WriteIdDecrement(r) ==
  /\ pc[r] = "incr"
  /\ n' = id[r] - 1
  /\ pc' = [pc EXCEPT ![r] = "set"]
  /\ UNCHANGED <<fetchers, obj, id, ref, chained, running, chan, pending,
                 consuming, published, delivered, lost, got, fault>>

(* ... and the write of the successor.                                     *)
WriteId(r) ==
  /\ pc[r] = "incr"
  /\ n' = id[r] + 1
  /\ pc' = [pc EXCEPT ![r] = "set"]
  /\ UNCHANGED <<fetchers, obj, id, ref, chained, running, chan, pending,
                 consuming, published, delivered, lost, got, fault>>

(* A new DeferredFetching with its channel is put in the cache; an object  *)
(* already stored under the id is erased and thereby destroyed.            *)
SetFetcher(r) ==
  /\ pc[r] = "set"
  /\ \E garbage \in BOOLEAN :
       obj' = [With(Target(r), Destroy(obj[Target(r)]))
                 EXCEPT ![r] = Construct(garbage)]
  /\ fetchers' = (fetchers \ {Target(r)}) \cup {r}
  /\ chan' = [CloseChannel(Target(r)) EXCEPT
                ![r] = NewChannel(Caller[r])]
  /\ pc' = [pc EXCEPT ![r] = "declare"]
  /\ UNCHANGED <<n, id, ref, chained, running, pending, consuming, published,
                 delivered, lost, got, fault>>

(* The object is looked up again for its address and its channel, where    *)
(* the reply queue is declared, and the call returns.                      *)
DeclareQueue(r) ==
  /\ pc[r] = "declare"
  /\ LET t == Target(r) IN
       \/ /\ t = Nobody
          /\ fault' = "null"
          /\ UNCHANGED <<pc, ref, pending>>
       \/ /\ t # Nobody /\ chan[t] = "open"
          /\ ref' = [ref EXCEPT ![r] = t]
          /\ pending' = [pending EXCEPT
                           ![t] = Append(@, [op |-> "declare", req |-> r, at |-> t])]
          /\ pc' = [pc EXCEPT ![r] = "chain"]
          /\ UNCHANGED fault
  /\ UNCHANGED <<n, fetchers, obj, id, chained, running, chan, consuming,
                 published, delivered, lost, got>>

(* On a channel that is broken already the declaration is refused: onError *)
(* calls its argument on the spot, which reports and erases the object     *)
(* that the call is about to return.                                       *)
DeclareRefused(r) ==
  /\ pc[r] = "declare"
  /\ LET t == Target(r) IN
       /\ t # Nobody /\ chan[t] # "open"
       /\ ref' = [ref EXCEPT ![r] = t]
       /\ obj' = With(t, Destroy(report_error(obj[t], "QUEUE_DECLARATION")))
       /\ fetchers' = fetchers \ {t}
  /\ pc' = [pc EXCEPT ![r] = "chain"]
  /\ UNCHANGED <<n, id, chained, running, chan, pending, consuming, published,
                 delivered, lost, got, fault>>

(* The caller chains handler h on the reference it was given.              *)
ChainHandler(r, h) ==
  /\ pc[r] = "chain"
  /\ h \notin chained[r]
  /\ chained' = [chained EXCEPT ![r] = @ \cup {h}]
  /\ pc' = [pc EXCEPT ![r] = IF chained'[r] = Chain THEN "done" ELSE "chain"]
  /\ IF obj[ref[r]].life = "freed"
     THEN fault' = "uaf" /\ UNCHANGED obj
     ELSE obj' = With(ref[r], SetHandler(obj[ref[r]], h, r)) /\ UNCHANGED fault
  /\ UNCHANGED <<n, fetchers, id, ref, running, chan, pending, consuming,
                 published, delivered, lost, got>>

(* Broker::run                                                             *)
Run ==
  /\ ~running
  /\ RunFirst \/ \A r \in Requests : pc[r] = "done"
  /\ running' = TRUE
  /\ UNCHANGED <<n, fetchers, obj, pc, id, ref, chained, chan, pending,
                 consuming, published, delivered, lost, got, fault>>

-----------------------------------------------------------------------------
(* Callbacks of the loop thread                                            *)

(* The oldest operation of channel o is op and the server accepts it.      *)
Accepted(o, op) ==
  /\ running /\ LoopFree
  /\ chan[o] \in {"open", "closing"}
  /\ pending[o] # <<>> /\ Head(pending[o]).op = op

(* declareQueue().onSuccess: publish in a transaction, then consume.       *)
DeclareOk(o) ==
  /\ Accepted(o, "declare")
  /\ LET r == Head(pending[o]).req
         t == Target(r)
     IN /\ pending' = Answered(o, t, <<[op |-> "commit", req |-> r, at |-> o],
                                       [op |-> "consume", req |-> r, at |-> o]>>)
        /\ chan' = IssueOn(t)
  /\ UNCHANGED <<n, fetchers, obj, pc, id, ref, chained, running, consuming,
                 published, delivered, lost, got, fault>>

(* The transaction is committed; the client has no onSuccess for it.       *)
CommitOk(o) ==
  /\ Accepted(o, "commit")
  /\ published' = published \cup {Head(pending[o]).req}
  /\ pending' = Answered(o, Nobody, <<>>)
  /\ UNCHANGED <<n, fetchers, obj, pc, id, ref, chained, running, chan,
                 consuming, delivered, lost, got, fault>>

(* A reply queue is exclusive: only the connection that declared it may    *)
(* consume from it.                                                        *)
ForeignQueue(o) ==
  /\ pending[o] # <<>> /\ Head(pending[o]).op = "consume"
  /\ Caller[Head(pending[o]).at] # Caller[o]

(* consume().onSuccess                                                     *)
ConsumeOk(o) ==
  /\ Accepted(o, "consume") /\ ~ForeignQueue(o)
  /\ LET r == Head(pending[o]).req
         t == Target(r)
     IN /\ consuming' = [consuming EXCEPT ![o] = @ \cup {r}]
        /\ obj' = With(t, report_success(obj[t]))
  /\ pending' = Answered(o, Nobody, <<>>)
  /\ UNCHANGED <<n, fetchers, pc, id, ref, chained, running, chan, published,
                 delivered, lost, got, fault>>

(* Channel o is in error and its oldest operation is op.                   *)
Rejected(o, op) ==
  /\ running
  /\ chan[o] = "failing"
  /\ pending[o] # <<>> /\ Head(pending[o]).op = op
  /\ pending' = Answered(o, Nobody, <<>>)
  /\ UNCHANGED <<n, pc, id, ref, chained, running, consuming, published,
                 delivered, lost, got, fault>>

(* commitTransaction().onError                                             *)
CommitError(o) ==
  /\ Rejected(o, "commit")
  /\ LET t == Target(Head(pending[o]).req)
     IN obj' = With(t, report_error(obj[t], "PUBLISH"))
  /\ UNCHANGED <<fetchers, chan>>

(* Mutant of ReportAndErase: the error is reported, nothing is erased.     *)
ReportOnly(o, code) ==
  LET t == Target(Head(pending[o]).req)
  IN /\ obj' = With(t, report_error(obj[t], code))
     /\ UNCHANGED <<fetchers, chan>>

(* The onError that reports code and then erases the object.               *)
ReportAndErase(o, code) ==
  LET t == Target(Head(pending[o]).req)
  IN /\ obj' = With(t, Destroy(report_error(obj[t], code)))
     /\ fetchers' = fetchers \ {t}
     /\ chan' = CloseChannel(t)

(* declareQueue().onError                                                  *)
DeclareError(o) ==
  Rejected(o, "declare") /\ ReportAndErase(o, "QUEUE_DECLARATION")

(* consume().onError                                                       *)
ConsumeError(o) ==
  Rejected(o, "consume") /\ ReportAndErase(o, "DATA_RESPONSE")

(* A message from the reply queue of request r arrives on channel o.       *)
Arrives(o, r) ==
  /\ running /\ LoopFree
  /\ chan[o] \in {"open", "closing"}
  /\ r \in consuming[o] /\ r \in published
  /\ delivered[r] < MaxReplies
  /\ delivered' = [delivered EXCEPT ![r] = @ + 1]

(* What reporting the data does to the object: a body that does not decode *)
(* is reported as an error first, report_data is called in either case.    *)
Reported(d, decodes) ==
  report_data(IF decodes THEN d ELSE report_error(d, "DATA_RESPONSE"))

DataCalled(d, decodes) ==
  Good(IF decodes THEN d ELSE report_error(d, "DATA_RESPONSE"))
    /\ d.on["data"] # Nobody

(* Mutant of Receive: the del at the end is missing.                       *)
ReceiveKeeps(o, r, decodes) ==
  /\ Arrives(o, r)
  /\ LET t == Target(r)
     IN /\ obj' = With(t, Reported(obj[t], decodes))
        /\ got' = IF t # Nobody /\ DataCalled(obj[t], decodes)
                  THEN got \cup {<<obj[t].on["data"], r>>} ELSE got
  /\ UNCHANGED <<n, fetchers, pc, id, ref, chained, running, chan, pending,
                 consuming, published, lost, fault>>

(* consume().onReceived: report, then erase the object if it is there.     *)
Receive(o, r, decodes) ==
  /\ Arrives(o, r)
  /\ LET t == Target(r)
     IN /\ obj' = With(t, Destroy(Reported(obj[t], decodes)))
        /\ got' = IF t # Nobody /\ DataCalled(obj[t], decodes)
                  THEN got \cup {<<obj[t].on["data"], r>>} ELSE got
        /\ fetchers' = fetchers \ {t}
        /\ chan' = CloseChannel(t)
  /\ UNCHANGED <<n, pc, id, ref, chained, running, pending, consuming,
                 published, lost, fault>>

(* The user's data handler throws: throw_abort ends the process.           *)
ReceiveThrows(o, r) ==
  /\ Arrives(o, r)
  /\ Target(r) # Nobody
  /\ DataCalled(obj[Target(r)], TRUE)
  /\ fault' = "abort"
  /\ UNCHANGED <<n, fetchers, obj, pc, id, ref, chained, running, chan,
                 pending, consuming, published, lost, got>>

-----------------------------------------------------------------------------
(* The server and the network                                              *)

(* The states in which the server may close channel o with an error: on    *)
(* its own account, or to refuse a queue exclusive to another connection.  *)
ErrorIn(o) ==
  IF ForeignQueue(o) THEN {"open", "closing"}
  ELSE IF "channel" \in Failures THEN {"open"} ELSE {}

ChannelError(o) ==
  /\ running /\ LoopFree
  /\ chan[o] \in ErrorIn(o)
  /\ chan' = [chan EXCEPT ![o] = "failing"]
  /\ UNCHANGED <<n, fetchers, obj, pc, id, ref, chained, running, pending,
                 consuming, published, delivered, lost, got, fault>>

(* The connection of thread t breaks; fetch_message leaves the handler's   *)
(* deferred null, so onLost itself reports nothing.                        *)
ConnectionLost(t) ==
  /\ "connection" \in Failures
  /\ running /\ LoopFree
  /\ t \notin lost
  /\ lost' = lost \cup {t}
  /\ chan' = [o \in Requests |->
                IF Caller[o] = t /\ chan[o] \in {"open", "closing"}
                THEN "failing" ELSE chan[o]]
  /\ UNCHANGED <<n, fetchers, obj, pc, id, ref, chained, running, pending,
                 consuming, published, delivered, got, fault>>

(* The last operation of a channel in error has been failed, or the server *)
(* has confirmed the close of a destroyed channel.                         *)
ChannelClosed(o) ==
  /\ running
  /\ pending[o] = <<>>
  /\ \/ chan[o] = "failing"
     \/ chan[o] = "closing" /\ LoopFree
  /\ chan' = [chan EXCEPT ![o] = "closed"]
  /\ UNCHANGED <<n, fetchers, obj, pc, id, ref, chained, running, pending,
                 consuming, published, delivered, lost, got, fault>>

-----------------------------------------------------------------------------
CallerStep(r) ==
  \/ ReadId(r) \/ WriteId(r) \/ SetFetcher(r)
  \/ DeclareQueue(r) \/ DeclareRefused(r)
  \/ \E h \in Chain : ChainHandler(r, h)

LoopStep(o) ==
  \/ DeclareOk(o) \/ CommitOk(o) \/ ConsumeOk(o)
  \/ DeclareError(o) \/ CommitError(o) \/ ConsumeError(o)
  \/ ChannelClosed(o)

Next ==
  /\ fault = "none"
  /\ \/ \E r \in Requests : CallerStep(r)
     \/ Run
     \/ \E o \in Requests : LoopStep(o)
     \/ \E o, r \in Requests, decodes \in BOOLEAN : Receive(o, r, decodes)
     \/ \E o, r \in Requests : ReceiveThrows(o, r)
     \/ \E o \in Requests : ChannelError(o)
     \/ \E t \in Threads : ConnectionLost(t)

(* The loop thread runs every callback that is due, a caller finishes the  *)
(* call and the chain it has begun, and a server that accepted a request   *)
(* answers it, which is to say that a listener is bound to its key.        *)
Fairness ==
  /\ WF_vars(fault = "none" /\ Run)
  /\ \A r \in Requests :
       /\ WF_vars(fault = "none" /\ CallerStep(r))
       /\ WF_vars(fault = "none" /\ LoopStep(r))
       /\ WF_vars(fault = "none"
                    /\ \E o \in Requests, decodes \in BOOLEAN :
                         Receive(o, r, decodes))

Spec == Init /\ [][Next]_vars
FairSpec == Spec /\ Fairness
-----------------------------------------------------------------------------
(* Properties                                                              *)

(* A reply reaches the data handler of the fetch it answers and no other:  *)
(* the lambdas of fetch_message find the object by correlation id alone,   *)
(* so everything rests on create_unique_id being unique.                   *)
OwnReply == \A p \in got : p[1] = p[2]

(* However many messages reach a reply queue, on_data is called at most    *)
(* once, and so is on_finalize: the first onReceived erases the object,    *)
(* and later callbacks on the closing channel find fetchers_ without it.   *)
AnsweredOnce ==
  \A o \in Requests : /\ obj[o].heard["data"] <= 1
                      /\ obj[o].heard["finalize"] <= 1

(* A fetch that was given data was told of no error, before or after, even *)
(* though onReceived goes on to report_data after a decoding error.        *)
DataXorError ==
  \A o \in Requests : obj[o].heard["data"] > 0 =>
     \A e \in BrokerError : obj[o].heard[e] = 0

(* failed_ is never read uninitialised: when a message can arrive for a    *)
(* cached object, report_success or report_error has assigned failed_.     *)
SettledBeforeRead ==
  \A o, r \in Requests :
    (r \in consuming[o] /\ Target(r) # Nobody) => obj[Target(r)].settled

(* fetch_message dereferences fetchers_.get(correlation_id) unchecked; it  *)
(* is never null, because nothing can erase an object before its first     *)
(* AMQP operation is issued.                                               *)
NoNullFetcher == fault # "null"

(* The reference fetch returns is alive while the caller chains on it.     *)
NoUseAfterFree == fault # "uaf"

(* The fetch of r is over: its object has been destroyed.                  *)
Ended(r) == ref[r] # Nobody /\ obj[ref[r]].life = "freed"

(* A channel that breaks while operations of the fetch are outstanding     *)
(* always ends the fetch: some onError erases the object.                  *)
BrokenSetupEnds ==
  \A o \in Requests :
    (obj[o].life = "live" /\ chan[o] = "failing" /\ pending[o] # <<>>)
      ~> (obj[o].life = "freed" \/ fault # "none")

(* The call of r has returned and its reply is awaited.                    *)
Waiting(r) ==
  /\ pc[r] = "done" /\ ref[r] # Nobody
  /\ obj[ref[r]].life = "live" /\ r \in consuming[ref[r]]

(* on_error of the fetch of r has been called.                             *)
ToldError(r) ==
  ref[r] # Nobody /\ \E e \in BrokerError : obj[ref[r]].heard[e] > 0

(* A fetch that waits for its reply when its connection is lost is told of *)
(* an error.                                                               *)
LossReported ==
  \A r \in Requests :
    (Waiting(r) /\ Caller[r] \in lost) ~> (ToldError(r) \/ fault # "none")

(* The channel of the fetch of r is gone.                                  *)
Broken(r) == ref[r] # Nobody /\ chan[ref[r]] \in {"failing", "closed"}

=============================================================================
