------------------------------- MODULE Listen -------------------------------
(***************************************************************************)
(* The server half of an RPC: BrokerImpl::listen_messages                  *)
(* (src/broker_impl/broker.cc), the static counter behind                  *)
(* create_unique_id, the cache listeners_, the one `deferred' slot in each *)
(* connection's ConnectionHandler (handler.h), and the ReplayImpl objects  *)
(* through which the user answers.                                         *)
(*                                                                         *)
(* Call l builds the object l and the channel l; its callbacks capture the *)
(* correlation id of the call and look the object up in listeners_ when    *)
(* they run.  A connection belongs to the thread that first asks for it    *)
(* (ConnectionCache), so reset_deferred acts on the connection of whichever*)
(* thread runs it.  Broker::run(sync) makes the caller itself the loop     *)
(* thread.                                                                 *)
(*                                                                         *)
(* The AMQP library and the server are external: a channel answers its     *)
(* operations in order, and an error of the channel or its connection      *)
(* fails those outstanding, oldest first, on the loop thread.  An          *)
(* operation on a channel that is broken already is refused, and onError   *)
(* on it, or on the channel, calls its argument then and there.            *)
(***************************************************************************)
EXTENDS Deferred, Integers, Sequences

CONSTANTS
  Listeners,   \* the calls of Broker::listen
  Threads,     \* callers, the loop thread, and the user's workers
  Caller,      \* Caller[l] is the thread that makes call l
  LoopThread,  \* the thread in uv_run
  Committers,  \* the threads from which the user commits replays
  Chain,       \* the handlers a caller chains on the returned reference
  Keys,        \* number of routing keys to bind
  Messages,    \* the requests waiting in the queue the listeners consume
  Failures,    \* which of "channel", "connection", "reply", "throw" happen
  RunFirst     \* is the loop started before the first listen?

ASSUME ListenAssumption ==
  /\ Nobody \notin Listeners
  /\ Caller \in [Listeners -> Threads]
  /\ LoopThread \in Threads /\ Committers \subseteq Threads
  /\ Chain \subseteq Handlers /\ Chain # {}
  /\ Keys \in Nat
  /\ RunFirst \in BOOLEAN

VARIABLES
  (* the broker *)
  n,            \* the static int of create_unique_id
  listeners,    \* the objects in listeners_; object o is stored under id[o]
  obj,          \* obj[o], the DeferredListening that call o constructs
  connections,  \* the threads that have a connection in the ConnectionCache
  slot,         \* slot[t], the `deferred' of the handler of t's connection
  (* the callers *)
  pc,           \* how far each call has come
  id,           \* the correlation id a call has drawn
  ref,          \* the object the call has got from the cache and returns
  issued,       \* operations the call has issued on its channel
  chained,      \* the handlers a caller has chained so far
  (* the AMQP library and the server *)
  running,      \* uv_run is executing
  chan,         \* state of the channel of object o
  pending,      \* operations issued on channel o and not answered, in order
  consuming,    \* the calls whose consume was confirmed on channel o
  strayed,      \* channels told to acknowledge what another one delivered
  lost,         \* threads whose connection is gone
  losing,       \* those whose onLost or onError is still to be called
  (* requests and replays *)
  msg,          \* where request m is; an acknowledged one has left the queue
  by,           \* the call whose onReceived got request m
  replay,       \* the ReplayImpl made for request m
  committer,    \* the thread that commits it
  complete,     \* its complete_handler_
  fault         \* undefined behaviour or abort(); nothing happens after it

brokerVars  == <<n, listeners, obj, connections, slot>>
callerVars  == <<pc, id, ref, issued, chained>>
libraryVars == <<running, chan, pending, consuming, strayed, lost, losing>>
replayVars  == <<replay, committer, complete>>
vars == <<brokerVars, callerVars, libraryVars, msg, by, replayVars, fault>>

(* The operations of one call of listen, in the order they are issued.     *)
Setup == <<"declare">> \o [k \in 1..Keys |-> "bind"] \o <<"consume">>

(* An operation and the call whose callbacks it carries.                   *)
Operation == [op : {"declare", "bind", "consume"}, req : Listeners]

TypeOK ==
  /\ n \in Nat \ {0}
  /\ listeners \subseteq Listeners
  /\ obj \in [Listeners -> DeferredType(Listeners)]
  /\ connections \subseteq Threads
  /\ slot \in [Threads -> Listeners \cup {Nobody}]
  /\ pc \in [Listeners ->
               {"idle", "incr", "set", "get", "issue", "chain", "done"}]
  /\ id \in [Listeners -> Nat]
  /\ ref \in [Listeners -> Listeners \cup {Nobody}]
  /\ issued \in [Listeners -> 0..(Keys + 2)]
  /\ chained \in [Listeners -> SUBSET Handlers]
  /\ running \in BOOLEAN
  /\ chan \in [Listeners ->
                 {"none", "open", "closing", "failing", "refusing", "closed"}]
  /\ pending \in [Listeners -> Seq(Operation)]
  /\ consuming \in [Listeners -> SUBSET Listeners]
  /\ strayed \subseteq Listeners
  /\ lost \subseteq Threads /\ losing \subseteq lost
  /\ msg \in [Messages -> {"queued", "undecodable", "dropped", "handed"}]
  /\ by \in [Messages -> Listeners \cup {Nobody}]
  /\ replay \in [Messages ->
                   {"none", "leaked", "held", "committed", "failing", "freed"}]
  /\ committer \in [Messages -> Threads \cup {Nobody}]
  /\ complete \in [Messages -> {"unset", "set", "cleared", "called"}]
  /\ fault \in {"none", "null", "uaf", "abort"}

Init ==
  /\ n = 1
  /\ listeners = {}
  /\ obj = [l \in Listeners |-> Unborn]
  /\ connections = {}
  /\ slot = [t \in Threads |-> Nobody]
  /\ pc = [l \in Listeners |-> "idle"]
  /\ id = [l \in Listeners |-> 0]
  /\ ref = [l \in Listeners |-> Nobody]
  /\ issued = [l \in Listeners |-> 0]
  /\ chained = [l \in Listeners |-> {}]
  /\ running = FALSE
  /\ chan = [l \in Listeners |-> "none"]
  /\ pending = [l \in Listeners |-> <<>>]
  /\ consuming = [l \in Listeners |-> {}]
  /\ strayed = {}
  /\ lost = {} /\ losing = {}
  /\ msg = [m \in Messages |-> "queued"]
  /\ by = [m \in Messages |-> Nobody]
  /\ replay = [m \in Messages |-> "none"]
  /\ committer = [m \in Messages |-> Nobody]
  /\ complete = [m \in Messages |-> "unset"]
  /\ fault = "none"

-----------------------------------------------------------------------------
(* listeners_.get(key): the object stored under the key, or null.          *)
Get(key) ==
  IF \E o \in listeners : id[o] = key
  THEN CHOOSE o \in listeners : id[o] = key
  ELSE Nobody

(* The object a callback of call l finds.                                  *)
Target(l) == Get(id[l])

(* An object is shared by the cache, the slots and, while a call runs, its *)
(* local shared_ptr.                                                       *)
Kept(o) ==
  \/ o \in listeners
  \/ \E t \in Threads : slot[t] = o
  \/ \E l \in Listeners : pc[l] = "issue" /\ ref[l] = o

(* The objects and channels after a step, given what the step has made of  *)
(* them: an object that lost its last holder is destroyed, and ~Channel    *)
(* closes its channel.                                                     *)
Collect(objects, channels) ==
  /\ obj' = [o \in Listeners |->
               IF objects[o].life = "live" /\ ~Kept(o)'
               THEN Destroy(objects[o]) ELSE objects[o]]
  /\ chan' = [o \in Listeners |->
                IF objects[o].life = "live" /\ ~Kept(o)' /\ channels[o] = "open"
                THEN "closing" ELSE channels[o]]

(* listeners_.get(id of l)-> ... makes the object it finds into d; the     *)
(* pointer is used unchecked.                                              *)
Deref(l, d) ==
  IF Target(l) = Nobody
  THEN fault' = "null" /\ UNCHANGED obj
  ELSE obj' = [obj EXCEPT ![Target(l)] = d] /\ UNCHANGED fault

(* listeners_.get(id of l)->report_error(code)                             *)
Report(l, code) == Deref(l, report_error(obj[Target(l)], code))

(* ConnectionCache::get_conection on thread t makes the connection of t if *)
(* there is none; one that was lost stays in the cache.                    *)
Connected(t) == connections \cup {t}

(* ConnectionCache::new_channel: a channel on a lost connection is closed  *)
(* from the start.                                                         *)
NewChannel(t) == IF t \in lost THEN "closed" ELSE "open"

(* Mutant of ResetDeferred: the slots of all connections are reset.        *)
ResetAll(t) == [u \in Threads |-> Nobody]

(* ConnectionCache::reset_deferred on thread t, which also opens a         *)
(* connection if t has none.                                               *)
ResetDeferred(t) == [slot EXCEPT ![t] = Nobody]

(* The loop thread has no failure to hand out.                             *)
LoopFree ==
  /\ \A o \in Listeners : chan[o] \notin {"failing", "refusing"}
  /\ \A m \in Messages : replay[m] # "failing"
  /\ losing = {}

-----------------------------------------------------------------------------
(* The onError callbacks of the operations, on whichever thread runs them  *)

(* consume().onError on thread t: the slot is reset, the error reported,   *)
(* the object erased from the cache.                                       *)
ConsumeOnError(l, t) ==
  /\ slot' = ResetDeferred(t)
  /\ connections' = Connected(t)
  /\ IF Target(l) = Nobody
     THEN fault' = "null" /\ UNCHANGED <<listeners, obj, chan>>
     ELSE /\ listeners' = listeners \ {Target(l)}
          /\ Collect([obj EXCEPT ![Target(l)] = report_error(@, "QUEUE_CONSUMING")],
                     chan)
          /\ UNCHANGED fault

(* declareQueue().onError, bindQueue().onError or consume().onError        *)
OnError(l, op, t) ==
  \/ /\ op = "declare"
     /\ Report(l, "QUEUE_DECLARATION")
     /\ UNCHANGED <<listeners, connections, slot, chan>>
  \/ /\ op = "bind"
     /\ Report(l, "QUEUE_BINDING")
     /\ UNCHANGED <<listeners, connections, slot, chan>>
  \/ /\ op = "consume"
     /\ ConsumeOnError(l, t)

-----------------------------------------------------------------------------
(* Caller threads                                                          *)

(* create_unique_id, `n++' on an unguarded static int: the read ...        *)
ReadId(l) ==
  /\ pc[l] = "idle"
  /\ \A k \in Listeners : Caller[k] = Caller[l] => pc[k] \in {"idle", "done"}
  /\ Caller[l] = LoopThread => ~running
  /\ id' = [id EXCEPT ![l] = n]
  /\ pc' = [pc EXCEPT ![l] = "incr"]
  /\ UNCHANGED <<brokerVars, ref, issued, chained, libraryVars, msg, by,
                 replayVars, fault>>

(* Mutant of WriteId: the counter runs down.                               *)
WriteIdDecrement(l) ==
  /\ pc[l] = "incr"
  /\ n' = id[l] - 1
  /\ pc' = [pc EXCEPT ![l] = "set"]
  /\ UNCHANGED <<listeners, obj, connections, slot, id, ref, issued, chained,
                 libraryVars, msg, by, replayVars, fault>>

(* ... and the write of the successor.                                     *)
WriteId(l) ==
  /\ pc[l] = "incr"
  /\ n' = id[l] + 1
  /\ pc' = [pc EXCEPT ![l] = "set"]
  /\ UNCHANGED <<listeners, obj, connections, slot, id, ref, issued, chained,
                 libraryVars, msg, by, replayVars, fault>>

(* The object and its channel are created on the connection of the calling *)
(* thread and put in the cache; an object stored under the id already is   *)
(* erased from it.                                                         *)
SetListener(l) ==
  /\ pc[l] = "set"
  /\ listeners' = (listeners \ {Target(l)}) \cup {l}
  /\ connections' = Connected(Caller[l])
  /\ pc' = [pc EXCEPT ![l] = "get"]
  /\ UNCHANGED <<n, slot, id, ref, issued, chained>>
  /\ \E garbage \in BOOLEAN :
       Collect([obj EXCEPT ![l] = Construct(garbage)],
               [chan EXCEPT ![l] = NewChannel(Caller[l])])
  /\ UNCHANGED <<running, pending, consuming, strayed, lost, losing, msg, by,
                 replayVars, fault>>

(* Mutant of GetListener: the call of set_deferred is missing.             *)
GetListenerNoSlot(l) ==
  /\ pc[l] = "get"
  /\ Target(l) # Nobody
  /\ ref' = [ref EXCEPT ![l] = Target(l)]
  /\ pc' = [pc EXCEPT ![l] = "issue"]
  /\ UNCHANGED <<brokerVars, id, issued, chained, libraryVars, msg, by,
                 replayVars, fault>>

(* The call gets the object back from the cache, puts it in the slot of    *)
(* its own connection and attaches the onError of the channel, which is    *)
(* called at once if the channel is broken.                                *)
GetListener(l) ==
  /\ pc[l] = "get"
  /\ UNCHANGED <<n, listeners, connections, id, issued, chained, running,
                 pending, consuming, strayed, lost, losing, msg, by, replayVars>>
  /\ LET d == Target(l) IN
       IF d = Nobody
       THEN fault' = "null" /\ UNCHANGED <<obj, slot, pc, ref, chan>>
       ELSE /\ ref' = [ref EXCEPT ![l] = d]
            /\ slot' = [slot EXCEPT ![Caller[l]] = d]
            /\ pc' = [pc EXCEPT ![l] = "issue"]
            /\ UNCHANGED fault
            /\ Collect(IF chan[d] = "open" THEN obj
                       ELSE [obj EXCEPT ![d] = report_error(@, "CHANNEL_MESSAGE")],
                       chan)

(* The next of declareQueue, bindQueue for each key, and consume is issued *)
(* on the channel; on a broken one it is refused, and its onError runs in  *)
(* the calling thread.  After the last one the call returns and its        *)
(* shared_ptr is gone.                                                     *)
IssueNext(l) ==
  /\ pc[l] = "issue"
  /\ issued' = [issued EXCEPT ![l] = @ + 1]
  /\ pc' = [pc EXCEPT ![l] = IF issued'[l] = Len(Setup) THEN "chain" ELSE @]
  /\ UNCHANGED <<n, id, ref, chained>>
  /\ IF chan[ref[l]] = "open"
     THEN /\ pending' = [pending EXCEPT
                ![ref[l]] = Append(@, [op |-> Setup[issued'[l]], req |-> l])]
          /\ UNCHANGED <<listeners, connections, slot, fault>>
          /\ Collect(obj, chan)
     ELSE /\ UNCHANGED pending
          /\ OnError(l, Setup[issued'[l]], Caller[l])
  /\ UNCHANGED <<running, consuming, strayed, lost, losing, msg, by, replayVars>>

(* The caller chains handler h on the reference it was given.              *)
ChainHandler(l, h) ==
  /\ pc[l] = "chain"
  /\ h \notin chained[l]
  /\ chained' = [chained EXCEPT ![l] = @ \cup {h}]
  /\ pc' = [pc EXCEPT ![l] = IF chained'[l] = Chain THEN "done" ELSE @]
  /\ IF obj[ref[l]].life = "freed"
     THEN fault' = "uaf" /\ UNCHANGED obj
     ELSE obj' = [obj EXCEPT ![ref[l]] = SetHandler(@, h, l)] /\ UNCHANGED fault
  /\ UNCHANGED <<n, listeners, connections, slot, id, ref, issued, libraryVars,
                 msg, by, replayVars>>

(* Broker::run; the caller of run(sync) has finished its calls of listen.  *)
Run ==
  /\ ~running
  /\ RunFirst \/ \A l \in Listeners : pc[l] = "done"
  /\ running' = TRUE
  /\ UNCHANGED <<brokerVars, callerVars, chan, pending, consuming, strayed,
                 lost, losing, msg, by, replayVars, fault>>

-----------------------------------------------------------------------------
(* Callbacks of channel o while it is set up                               *)

(* The oldest operation of channel o is op and the server accepts it.      *)
Accepted(o, op) ==
  /\ running /\ LoopFree
  /\ chan[o] \in {"open", "closing"}
  /\ pending[o] # <<>> /\ Head(pending[o]).op = op
  /\ pending' = [pending EXCEPT ![o] = Tail(@)]

(* Declare-ok and bind-ok, which the code does not ask to hear of.         *)
SetupOk(o) ==
  /\ Accepted(o, "declare") \/ Accepted(o, "bind")
  /\ UNCHANGED <<brokerVars, callerVars, running, chan, consuming, strayed,
                 lost, losing, msg, by, replayVars, fault>>

(* consume().onSuccess                                                     *)
ConsumeOk(o) ==
  /\ Accepted(o, "consume")
  /\ LET l == Head(pending[o]).req
     IN /\ consuming' = [consuming EXCEPT ![o] = @ \cup {l}]
        /\ Deref(l, report_success(obj[Target(l)]))
  /\ UNCHANGED <<n, listeners, connections, slot, callerVars, running, chan,
                 strayed, lost, losing, msg, by, replayVars>>

(* Channel o is in error and its oldest operation, op, fails.              *)
Rejected(o, op) ==
  /\ running
  /\ chan[o] \in {"failing", "refusing"}
  /\ pending[o] # <<>> /\ Head(pending[o]).op = op
  /\ pending' = [pending EXCEPT ![o] = Tail(@)]
  /\ UNCHANGED <<n, callerVars, running, consuming, strayed, lost, losing,
                 msg, by, replayVars>>
  /\ OnError(Head(pending[o]).req, op, LoopThread)

(* channel.onError, called by a channel that still exists after every      *)
(* outstanding operation has been failed.                                  *)
ChannelOnError(o) ==
  /\ running
  /\ chan[o] = "failing" /\ pending[o] = <<>>
  /\ chan' = [chan EXCEPT ![o] = "closed"]
  /\ IF obj[o].life = "live"
     THEN Report(o, "CHANNEL_MESSAGE")
     ELSE UNCHANGED <<obj, fault>>
  /\ UNCHANGED <<n, listeners, connections, slot, callerVars, running, pending,
                 consuming, strayed, lost, losing, msg, by, replayVars>>

(* A channel that lost its connection has no error of its own to report,   *)
(* nor has one that is closed because its object is gone.                  *)
ChannelClosed(o) ==
  /\ running
  /\ pending[o] = <<>>
  /\ \/ chan[o] = "refusing"
     \/ chan[o] = "closing" /\ LoopFree
  /\ chan' = [chan EXCEPT ![o] = "closed"]
  /\ UNCHANGED <<brokerVars, callerVars, running, pending, consuming, strayed,
                 lost, losing, msg, by, replayVars, fault>>

-----------------------------------------------------------------------------
(* consume().onReceived                                                    *)

(* Request m is delivered over channel o to the consumer of call l.  The   *)
(* channel of the object that listeners_.get finds acknowledges it, before *)
(* anything else; a tag of another channel is unknown to it.               *)
Arrives(o, l, m) ==
  /\ running /\ LoopFree
  /\ chan[o] \in {"open", "closing"} /\ l \in consuming[o]
  /\ msg[m] = "queued"
  /\ by' = [by EXCEPT ![m] = l]
  /\ strayed' = strayed \cup ({Target(l)} \ {o, Nobody})
  /\ UNCHANGED <<n, callerVars, running, pending, consuming, lost, losing,
                 committer>>

(* The body does not decode: an error is reported and the callback ends.   *)
ReceiveUndecodable(o, l, m) ==
  /\ Arrives(o, l, m)
  /\ msg' = [msg EXCEPT ![m] = "undecodable"]
  /\ Report(l, "CHANNEL_MESSAGE")
  /\ UNCHANGED <<listeners, connections, slot, chan, replay, complete>>

(* Does report_data of object d call a handler?                            *)
Hears(d) == Good(obj[d]) /\ obj[d].on["data"] # Nobody

(* The body decodes: the slot of the loop thread's connection is reset, a  *)
(* ReplayImpl is made, and the data handler gets both, if report_data      *)
(* calls one; watched tells whether that handler calls on_complete.        *)
Receive(o, l, m, watched) ==
  /\ Arrives(o, l, m)
  /\ slot' = ResetDeferred(LoopThread)
  /\ connections' = Connected(LoopThread)
  /\ UNCHANGED listeners
  /\ LET d == Target(l) IN
       IF d = Nobody
       THEN fault' = "null" /\ UNCHANGED <<obj, chan, msg, replay, complete>>
       ELSE /\ Collect([obj EXCEPT ![d] = report_data(@)], chan)
            /\ msg' = [msg EXCEPT ![m] = IF Hears(d) THEN "handed" ELSE "dropped"]
            /\ replay' = [replay EXCEPT ![m] = IF Hears(d) THEN "held" ELSE "leaked"]
            /\ complete' = [complete EXCEPT
                              ![m] = IF Hears(d) /\ watched THEN "set" ELSE @]
            /\ UNCHANGED fault

(* The user's data handler throws: the object is erased, then throw_abort  *)
(* ends the process.                                                       *)
ReceiveThrows(o, l, m) ==
  /\ "throw" \in Failures
  /\ Arrives(o, l, m)
  /\ Target(l) # Nobody /\ Hears(Target(l))
  /\ slot' = ResetDeferred(LoopThread)
  /\ connections' = Connected(LoopThread)
  /\ listeners' = listeners \ {Target(l)}
  /\ Collect([obj EXCEPT ![Target(l)] = report_data(@)], chan)
  /\ msg' = [msg EXCEPT ![m] = "handed"]
  /\ replay' = [replay EXCEPT ![m] = "leaked"]
  /\ fault' = "abort"
  /\ UNCHANGED complete

-----------------------------------------------------------------------------
(* Replays                                                                 *)

(* ~ReplayImpl calls a complete_handler_ that is still set.                *)
DeleteReplay(m) ==
  /\ replay' = [replay EXCEPT ![m] = "freed"]
  /\ complete' = [complete EXCEPT ![m] = IF @ = "set" THEN "called" ELSE @]

(* ReplayImpl::commit by thread t: the commit handler sends the reply in a *)
(* transaction on a new channel of t's connection; a replay error or an    *)
(* empty message is sent as an error reply.  On the loop thread nothing    *)
(* comes between it and the reset of complete_handler_.                    *)
Commit(m, t) ==
  /\ replay[m] = "held" /\ t \notin lost
  /\ committer' = [committer EXCEPT ![m] = t]
  /\ connections' = Connected(t)
  /\ replay' = [replay EXCEPT ![m] = "committed"]
  /\ complete' = [complete EXCEPT ![m] = IF t = LoopThread THEN "cleared" ELSE @]
  /\ UNCHANGED <<n, listeners, obj, slot, callerVars, libraryVars, msg, by, fault>>

(* The connection of t is lost: the transaction is refused, its onError    *)
(* reports and deletes the replay inside commit(), which then assigns the  *)
(* complete_handler_ of what it has deleted.                               *)
CommitRefused(m, t) ==
  /\ replay[m] = "held" /\ t \in lost
  /\ committer' = [committer EXCEPT ![m] = t]
  /\ IF Target(by[m]) = Nobody
     THEN fault' = "null" /\ UNCHANGED <<obj, replay, complete>>
     ELSE /\ obj' = [obj EXCEPT ![Target(by[m])] = report_error(@, "PUBLISH")]
          /\ DeleteReplay(m)
          /\ fault' = "uaf"
  /\ UNCHANGED <<n, listeners, connections, slot, callerVars, libraryVars,
                 msg, by>>

(* `complete_handler_ = std::nullopt' by a thread other than the loop's.   *)
ClearComplete(m) ==
  /\ committer[m] \notin {Nobody, LoopThread}
  /\ complete[m] \in {"unset", "set", "called"}
  /\ IF replay[m] = "freed"
     THEN fault' = "uaf" /\ UNCHANGED complete
     ELSE complete' = [complete EXCEPT ![m] = "cleared"] /\ UNCHANGED fault
  /\ UNCHANGED <<brokerVars, callerVars, libraryVars, msg, by, replay, committer>>

(* commitTransaction().onSuccess                                           *)
TxOk(m) ==
  /\ running /\ LoopFree
  /\ replay[m] = "committed"
  /\ DeleteReplay(m)
  /\ UNCHANGED <<brokerVars, callerVars, libraryVars, msg, by, committer, fault>>

(* Mutant of TxError: the listener is erased, as the other onErrors do.    *)
TxErrorErases(m) ==
  /\ running
  /\ replay[m] = "failing"
  /\ Report(by[m], "PUBLISH")
  /\ listeners' = listeners \ {Target(by[m])}
  /\ DeleteReplay(m)
  /\ UNCHANGED <<n, connections, slot, callerVars, libraryVars, msg, by, committer>>


(* commitTransaction().onError                                             *)
TxError(m) ==
  /\ running
  /\ replay[m] = "failing"
  /\ Report(by[m], "PUBLISH")
  /\ DeleteReplay(m)
  /\ UNCHANGED <<n, listeners, connections, slot, callerVars, libraryVars, msg,
                 by, committer>>

-----------------------------------------------------------------------------
(* The server and the network                                              *)

(* The server closes channel o with an error, on its own account or for an *)
(* acknowledgement it cannot place.                                        *)
ChannelError(o) ==
  /\ "channel" \in Failures \/ o \in strayed
  /\ running /\ LoopFree
  /\ chan[o] = "open"
  /\ chan' = [chan EXCEPT ![o] = "failing"]
  /\ UNCHANGED <<brokerVars, callerVars, running, pending, consuming, strayed,
                 lost, losing, msg, by, replayVars, fault>>

(* The server closes the channel of a reply.                               *)
ReplyChannelError(m) ==
  /\ "reply" \in Failures
  /\ running /\ LoopFree
  /\ replay[m] = "committed"
  /\ replay' = [replay EXCEPT ![m] = "failing"]
  /\ UNCHANGED <<brokerVars, callerVars, libraryVars, msg, by, committer,
                 complete, fault>>

(* The connection of thread t breaks and everything on it with it.         *)
ConnectionLost(t) ==
  /\ "connection" \in Failures
  /\ running /\ LoopFree
  /\ t \in connections \ lost
  /\ lost' = lost \cup {t} /\ losing' = {t}
  /\ chan' = [o \in Listeners |->
                IF Caller[o] = t /\ chan[o] \in {"open", "closing"}
                THEN "refusing" ELSE chan[o]]
  /\ replay' = [m \in Messages |->
                  IF committer[m] = t /\ replay[m] = "committed"
                  THEN "failing" ELSE replay[m]]
  /\ UNCHANGED <<brokerVars, callerVars, running, pending, consuming, strayed,
                 msg, by, committer, complete, fault>>

(* ConnectionHandler::onLost or onError, once the channels have been told. *)
OnLost(t, code) ==
  /\ running
  /\ t \in losing
  /\ \A o \in Listeners : Caller[o] = t => chan[o] # "refusing"
  /\ \A m \in Messages : committer[m] = t => replay[m] # "failing"
  /\ losing' = losing \ {t}
  /\ obj' = IF slot[t] = Nobody THEN obj
            ELSE [obj EXCEPT ![slot[t]] = report_error(@, code)]
  /\ UNCHANGED <<n, listeners, connections, slot, callerVars, running, chan,
                 pending, consuming, strayed, lost, msg, by, replayVars, fault>>

-----------------------------------------------------------------------------
CallerStep(l) ==
  \/ ReadId(l) \/ WriteId(l) \/ SetListener(l) \/ GetListener(l) \/ IssueNext(l)
  \/ \E h \in Chain : ChainHandler(l, h)

SetupStep(o) ==
  \/ SetupOk(o) \/ ConsumeOk(o)
  \/ \E op \in {"declare", "bind", "consume"} : Rejected(o, op)
  \/ ChannelOnError(o) \/ ChannelClosed(o)

Delivery(m) ==
  \E o, l \in Listeners :
    \/ ReceiveUndecodable(o, l, m)
    \/ \E watched \in BOOLEAN : Receive(o, l, m, watched)

ReplyStep(m) == ClearComplete(m) \/ TxOk(m) \/ TxError(m)

LossStep(t) ==
  \E code \in {"CONNECTION", "CONNECTION_LOST"} : OnLost(t, code)

Next ==
  /\ fault = "none"
  /\ \/ Run
     \/ \E l \in Listeners : CallerStep(l) \/ SetupStep(l) \/ ChannelError(l)
     \/ \E m \in Messages : Delivery(m) \/ ReplyStep(m) \/ ReplyChannelError(m)
     \/ \E o, l \in Listeners, m \in Messages : ReceiveThrows(o, l, m)
     \/ \E m \in Messages, t \in Committers : Commit(m, t) \/ CommitRefused(m, t)
     \/ \E t \in Threads : ConnectionLost(t) \/ LossStep(t)

(* Callers finish what they began and the loop thread runs every callback  *)
(* that is due.  Nothing obliges the user to commit a replay, nor the      *)
(* server to keep a channel or a connection.                               *)
Fairness ==
  /\ WF_vars(fault = "none" /\ Run)
  /\ \A l \in Listeners : /\ WF_vars(fault = "none" /\ CallerStep(l))
                          /\ WF_vars(fault = "none" /\ SetupStep(l))
  /\ \A m \in Messages : WF_vars(fault = "none" /\ ReplyStep(m))
  /\ \A t \in Threads : WF_vars(fault = "none" /\ LossStep(t))

Spec == Init /\ [][Next]_vars
FairSpec == Spec /\ Fairness
-----------------------------------------------------------------------------
(* Properties                                                              *)

(* The callbacks of a listener whose consume was confirmed find the object *)
(* of their own call in listeners_ for as long as the process runs:        *)
(* onReceived and the error handler of a reply dereference                 *)
(* listeners_.get(correlation_id) without a test, long after listen        *)
(* returned.                                                               *)
EstablishedKept ==
  fault = "abort" \/ \A o \in Listeners : \A l \in consuming[o] : Target(l) = l

(* A request that decodes is acknowledged without reaching on_data only    *)
(* after on_error was told that the listener failed.                       *)
DroppedAfterError ==
  \A m \in Messages : msg[m] = "dropped" =>
     \E e \in BrokerError : obj[by[m]].heard[e] > 0

(* What the loop thread does never destroys the object a call of listen on *)
(* another thread works with or has returned, before the caller has        *)
(* chained its handlers: the erasing onError of consume clears the slot of *)
(* the loop's own connection.                                              *)
ReferenceKept ==
  [][UNCHANGED callerVars =>
       \A l \in Listeners :
         (/\ pc[l] \in {"issue", "chain"} /\ Caller[l] # LoopThread
          /\ obj[ref[l]].life = "live") => obj'[ref[l]].life = "live"]_vars

(* The reference listen returns is alive while the caller chains on it,    *)
(* and a replay while its commit() runs.                                   *)
NoUseAfterFree == fault # "uaf"

(* Has the on_error of listener l been told that the connection failed?    *)
(* A connection is lost once.                                              *)
ToldLoss(l) ==
  \E e \in {"CONNECTION", "CONNECTION_LOST"} : obj[l].heard[e] > 0

(* A listener whose handlers are chained hears of the loss of its          *)
(* connection, with the code that handler.h gives it.                      *)
LossReported ==
  \A l \in Listeners :
    (pc[l] = "done" /\ Caller[l] \in lost) ~> (ToldLoss(l) \/ fault # "none")


(* No callback dereferences a null listeners_.get(correlation_id).         *)
NoNullListener == fault # "null"
=============================================================================
