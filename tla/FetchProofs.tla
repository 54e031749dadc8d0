----------------------------- MODULE FetchProofs -----------------------------
(* Theorems about Fetch, for any number of requests, threads, replies and  *)
(* failures.                                                               *)
EXTENDS Fetch, DeferredProofs, SequenceTheorems

-----------------------------------------------------------------------------
(* Facts about the helpers of Fetch                                        *)

LEMMA ReportedType ==
  ASSUME NEW U, NEW d \in DeferredType(U), NEW decodes \in BOOLEAN
  PROVE  Reported(d, decodes) \in DeferredType(U)
<1> DEFINE dd == IF decodes THEN d ELSE report_error(d, "DATA_RESPONSE")
<1>1. dd \in DeferredType(U)
  BY ReportErrorType DEF BrokerError
<1>2. "data" \in Handlers /\ "data" \in Events
  BY DEF Handlers, Events
<1> QED
  BY <1>1, <1>2, InvokeType DEF Reported, report_data

LEMMA TargetFacts ==
  ASSUME TypeOK, NEW r \in Requests
  PROVE  /\ Target(r) \in Requests \cup {Nobody}
         /\ Target(r) # Nobody => Target(r) \in fetchers /\ id[Target(r)] = id[r]
BY FetchAssumption DEF Target, Get, TypeOK

LEMMA WithType ==
  ASSUME TypeOK, NEW t, NEW d,
         t \in Requests => d \in DeferredType(Requests)
  PROVE  With(t, d) \in [Requests -> DeferredType(Requests)]
BY DEF With, TypeOK

LEMMA AnsweredType ==
  ASSUME TypeOK, NEW o \in Requests, pending[o] # <<>>,
         NEW t, NEW ops \in Seq(Operation)
  PROVE  Answered(o, t, ops) \in [Requests -> Seq(Operation)]
<1> SUFFICES ASSUME NEW c \in Requests
             PROVE  Answered(o, t, ops)[c] \in Seq(Operation)
  BY DEF Answered
<1> DEFINE front == IF c = o THEN Tail(pending[c]) ELSE pending[c]
           back  == IF c = t THEN ops ELSE <<>>
<1>1. front \in Seq(Operation)
  BY HeadTailProperties DEF TypeOK
<1>2. back \in Seq(Operation)
  BY EmptySeq
<1>3. front \o back \in Seq(Operation)
  BY <1>1, <1>2, ConcatProperties
<1> QED
  BY <1>3 DEF Answered

(* An operation outstanding after an answer was so before, or is one of    *)
(* those the callback has issued.                                          *)
LEMMA AnsweredElements ==
  ASSUME TypeOK, NEW o \in Requests, pending[o] # <<>>,
         NEW t, NEW ops \in Seq(Operation), NEW c \in Requests,
         NEW i \in 1..Len(Answered(o, t, ops)[c])
  PROVE  \/ \E j \in 1..Len(pending[c]) : Answered(o, t, ops)[c][i] = pending[c][j]
         \/ c = t /\ \E j \in 1..Len(ops) : Answered(o, t, ops)[c][i] = ops[j]
<1> DEFINE front == IF c = o THEN Tail(pending[c]) ELSE pending[c]
           back  == IF c = t THEN ops ELSE <<>>
<1>1. /\ front \in Seq(Operation)
      /\ \A j \in 1..Len(front) : \E k \in 1..Len(pending[c]) : front[j] = pending[c][k]
  <2>1. CASE c = o
    <3>1. /\ Tail(pending[c]) \in Seq(Operation)
          /\ Len(Tail(pending[c])) = Len(pending[c]) - 1
          /\ \A j \in 1..Len(Tail(pending[c])) : Tail(pending[c])[j] = pending[c][j + 1]
      BY <2>1, HeadTailProperties DEF TypeOK
    <3>2. Len(pending[c]) \in Nat
      BY LenProperties DEF TypeOK
    <3>3. \A j \in 1..Len(Tail(pending[c])) : j + 1 \in 1..Len(pending[c])
      BY <3>1, <3>2
    <3> QED
      BY <2>1, <3>1, <3>3
  <2>2. CASE c # o
    BY <2>2 DEF TypeOK
  <2> QED
    BY <2>1, <2>2
<1>2. back \in Seq(Operation)
  BY EmptySeq
<1>3. Answered(o, t, ops)[c] = front \o back
  BY DEF Answered
<1>4. c # t => Len(back) = 0
  BY EmptySeq
<1>5. c = t => back = ops
  OBVIOUS
<1> HIDE DEF front, back
<1>6. /\ Len(front \o back) = Len(front) + Len(back)
      /\ Len(front) \in Nat /\ Len(back) \in Nat
      /\ (front \o back)[i] = IF i <= Len(front) THEN front[i] ELSE back[i - Len(front)]
  BY <1>1, <1>2, <1>3, ConcatProperties, LenProperties
<1>7. CASE i <= Len(front)
  <2>1. i \in 1..Len(front) /\ Answered(o, t, ops)[c][i] = front[i]
    BY <1>3, <1>6, <1>7
  <2> QED
    BY <1>1, <2>1
<1>8. CASE ~(i <= Len(front))
  <2>1. i - Len(front) \in 1..Len(back)
    BY <1>3, <1>6, <1>8
  <2>2. Answered(o, t, ops)[c][i] = back[i - Len(front)]
    BY <1>3, <1>6, <1>8
  <2>3. c = t
    BY <1>4, <2>1
  <2> QED
    BY <1>5, <2>1, <2>2, <2>3
<1> QED
  BY <1>7, <1>8

LEMMA HeadOperation ==
  ASSUME TypeOK, NEW o \in Requests, pending[o] # <<>>
  PROVE  Head(pending[o]) \in Operation
BY HeadTailProperties DEF TypeOK

-----------------------------------------------------------------------------
LEMMA InitTypeOK == Init => TypeOK
<1> SUFFICES ASSUME Init PROVE TypeOK
  OBVIOUS
<1>1. obj \in [Requests -> DeferredType(Requests)]
  BY UnbornType DEF Init
<1>2. pending \in [Requests -> Seq(Operation)]
  BY EmptySeq DEF Init
<1> QED
  BY <1>1, <1>2 DEF Init, TypeOK

(* Every action keeps the types.                                           *)
LEMMA StepTypeOK == TypeOK /\ [Next]_vars => TypeOK'
<1> SUFFICES ASSUME TypeOK, [Next]_vars PROVE TypeOK'
  OBVIOUS
<1> USE FetchAssumption
<1>1. ASSUME NEW r \in Requests, ReadId(r) PROVE TypeOK'
  BY <1>1 DEF ReadId, TypeOK
<1>2. ASSUME NEW r \in Requests, WriteId(r) PROVE TypeOK'
  BY <1>2 DEF WriteId, TypeOK
<1>3. ASSUME NEW r \in Requests, SetFetcher(r) PROVE TypeOK'
  <2>1. obj' \in [Requests -> DeferredType(Requests)]
    <3>1. PICK garbage \in BOOLEAN :
            obj' = [With(Target(r), Destroy(obj[Target(r)])) EXCEPT
                      ![r] = Construct(garbage)]
      BY <1>3 DEF SetFetcher
    <3>2. Construct(garbage) \in DeferredType(Requests)
      BY ConstructType
    <3>3. Target(r) \in Requests =>
            Destroy(obj[Target(r)]) \in DeferredType(Requests)
      BY DestroyType DEF TypeOK
    <3>4. With(Target(r), Destroy(obj[Target(r)]))
            \in [Requests -> DeferredType(Requests)]
      BY <3>3, WithType
    <3> QED
      BY <3>1, <3>2, <3>4
  <2> QED
    BY <1>3, <2>1 DEF SetFetcher, CloseChannel, NewChannel, TypeOK
<1>4. ASSUME NEW r \in Requests, DeclareQueue(r) PROVE TypeOK'
  <2>1. CASE Target(r) = Nobody
    BY <1>4, <2>1 DEF DeclareQueue, TypeOK
  <2>2. CASE Target(r) # Nobody
    <3>1. Target(r) \in Requests
      BY <2>2, TargetFacts
    <3> DEFINE t == Target(r)
               op == [op |-> "declare", req |-> r, at |-> t]
    <3>2. op \in Operation
      BY <3>1 DEF Operation
    <3>3. /\ pending' = [pending EXCEPT ![t] = Append(@, op)]
          /\ ref' = [ref EXCEPT ![r] = t]
          /\ pc' = [pc EXCEPT ![r] = "chain"]
          /\ UNCHANGED <<n, fetchers, obj, id, chained, running, chan, consuming,
                         published, delivered, lost, got, fault>>
      BY <1>4, <2>2 DEF DeclareQueue
    <3> HIDE DEF t, op
    <3>4. pending' \in [Requests -> Seq(Operation)]
      BY <3>1, <3>2, <3>3, AppendProperties DEF TypeOK, t
    <3> QED
      BY <3>1, <3>3, <3>4 DEF TypeOK, t
  <2> QED
    BY <2>1, <2>2
<1>4a. ASSUME NEW r \in Requests, DeclareRefused(r) PROVE TypeOK'
  <2>1. Target(r) \in Requests
    BY <1>4a, TargetFacts DEF DeclareRefused
  <2>2. Destroy(report_error(obj[Target(r)], "QUEUE_DECLARATION")) \in DeferredType(Requests)
    BY <2>1, ReportErrorType, DestroyType DEF TypeOK, BrokerError
  <2>3. obj' \in [Requests -> DeferredType(Requests)]
    BY <1>4a, <2>2, WithType DEF DeclareRefused
  <2> QED
    BY <1>4a, <2>1, <2>3 DEF DeclareRefused, TypeOK
<1>5. ASSUME NEW r \in Requests, NEW h \in Chain, ChainHandler(r, h) PROVE TypeOK'
  <2>1. h \in Handlers
    OBVIOUS
  <2>2. obj' \in [Requests -> DeferredType(Requests)]
    <3>1. ref[r] \in Requests =>
            SetHandler(obj[ref[r]], h, r) \in DeferredType(Requests)
      BY <2>1, SetHandlerType DEF TypeOK
    <3>2. With(ref[r], SetHandler(obj[ref[r]], h, r))
            \in [Requests -> DeferredType(Requests)]
      BY <3>1, WithType
    <3> QED
      BY <1>5, <3>2 DEF ChainHandler, TypeOK
  <2> QED
    BY <1>5, <2>1, <2>2 DEF ChainHandler, TypeOK
<1>6. ASSUME Run PROVE TypeOK'
  BY <1>6 DEF Run, TypeOK
<1>7. ASSUME NEW o \in Requests, DeclareOk(o) PROVE TypeOK'
  <2> DEFINE r == Head(pending[o]).req
             ops == <<[op |-> "commit", req |-> r, at |-> o],
                      [op |-> "consume", req |-> r, at |-> o]>>
  <2>1. pending[o] # <<>>
    BY <1>7 DEF DeclareOk, Accepted
  <2>2. r \in Requests
    BY <2>1, HeadOperation DEF Operation
  <2>3. ops \in Seq(Operation)
    BY <2>2 DEF Operation
  <2>4. pending' = Answered(o, Target(r), ops)
    BY <1>7 DEF DeclareOk
  <2>5. pending' \in [Requests -> Seq(Operation)]
    BY <2>1, <2>3, <2>4, AnsweredType
  <2> QED
    BY <1>7, <2>5 DEF DeclareOk, IssueOn, TypeOK
<1>8. ASSUME NEW o \in Requests, CommitOk(o) PROVE TypeOK'
  <2>1. pending[o] # <<>>
    BY <1>8 DEF CommitOk, Accepted
  <2>2. Head(pending[o]).req \in Requests
    BY <2>1, HeadOperation DEF Operation
  <2>3. pending' \in [Requests -> Seq(Operation)]
    BY <1>8, <2>1, AnsweredType, EmptySeq DEF CommitOk
  <2> QED
    BY <1>8, <2>2, <2>3 DEF CommitOk, TypeOK
<1>9. ASSUME NEW o \in Requests, ConsumeOk(o) PROVE TypeOK'
  <2> DEFINE r == Head(pending[o]).req
             t == Target(r)
  <2>1. pending[o] # <<>>
    BY <1>9 DEF ConsumeOk, Accepted
  <2>2. r \in Requests
    BY <2>1, HeadOperation DEF Operation
  <2>3. pending' \in [Requests -> Seq(Operation)]
    BY <1>9, <2>1, AnsweredType, EmptySeq DEF ConsumeOk
  <2>4. t \in Requests => report_success(obj[t]) \in DeferredType(Requests)
    BY ReportSuccessType DEF TypeOK
  <2>5. obj' \in [Requests -> DeferredType(Requests)]
    BY <1>9, <2>4, WithType DEF ConsumeOk
  <2> QED
    BY <1>9, <2>2, <2>3, <2>5 DEF ConsumeOk, TypeOK
<1>10. ASSUME NEW o \in Requests, CommitError(o) PROVE TypeOK'
  <2> DEFINE t == Target(Head(pending[o]).req)
  <2>1. pending' \in [Requests -> Seq(Operation)]
    BY <1>10, AnsweredType, EmptySeq DEF CommitError, Rejected
  <2>2. t \in Requests => report_error(obj[t], "PUBLISH") \in DeferredType(Requests)
    BY ReportErrorType DEF TypeOK, BrokerError
  <2>3. obj' \in [Requests -> DeferredType(Requests)]
    BY <1>10, <2>2, WithType DEF CommitError
  <2> QED
    BY <1>10, <2>1, <2>3 DEF CommitError, Rejected, TypeOK
<1>11. ASSUME NEW o \in Requests, NEW op, NEW code \in BrokerError,
              Rejected(o, op), ReportAndErase(o, code)
       PROVE  TypeOK'
  <2> DEFINE t == Target(Head(pending[o]).req)
  <2>1. pending' \in [Requests -> Seq(Operation)]
    BY <1>11, AnsweredType, EmptySeq DEF Rejected
  <2>2. t \in Requests => Destroy(report_error(obj[t], code)) \in DeferredType(Requests)
    BY ReportErrorType, DestroyType DEF TypeOK
  <2>3. obj' \in [Requests -> DeferredType(Requests)]
    BY <1>11, <2>2, WithType DEF ReportAndErase
  <2> QED
    BY <1>11, <2>1, <2>3 DEF Rejected, ReportAndErase, CloseChannel, TypeOK
<1>12. ASSUME NEW o \in Requests, DeclareError(o) \/ ConsumeError(o) PROVE TypeOK'
  BY <1>11, <1>12 DEF DeclareError, ConsumeError, BrokerError
<1>13. ASSUME NEW o \in Requests, NEW r \in Requests, NEW decodes \in BOOLEAN,
              Receive(o, r, decodes)
       PROVE  TypeOK'
  <2> DEFINE t == Target(r)
  <2>1. t \in Requests => Destroy(Reported(obj[t], decodes)) \in DeferredType(Requests)
    BY ReportedType, DestroyType DEF TypeOK
  <2>2. obj' \in [Requests -> DeferredType(Requests)]
    BY <1>13, <2>1, WithType DEF Receive
  <2>3. got' \subseteq Requests \X Requests
    <3>1. CASE t # Nobody /\ DataCalled(obj[t], decodes)
      <4>1. obj[t].on["data"] \in Requests
        BY <3>1, TargetFacts, SMTT(30) DEF DataCalled, TypeOK, DeferredType, Handlers
      <4> QED
        BY <1>13, <3>1, <4>1, SMTT(30) DEF Receive, TypeOK
    <3>2. CASE ~(t # Nobody /\ DataCalled(obj[t], decodes))
      BY <1>13, <3>2 DEF Receive, TypeOK
    <3> QED
      BY <3>1, <3>2
  <2> QED
    BY <1>13, <2>2, <2>3, SMTT(30) DEF Receive, Arrives, CloseChannel, TypeOK
<1>14. ASSUME NEW o \in Requests, NEW r \in Requests, ReceiveThrows(o, r) PROVE TypeOK'
  <2>1. /\ delivered' = [delivered EXCEPT ![r] = @ + 1]
        /\ fault' = "abort"
        /\ UNCHANGED <<n, fetchers, obj, pc, id, ref, chained, running, chan,
                       pending, consuming, published, lost, got>>
    BY <1>14 DEF ReceiveThrows, Arrives
  <2>2. delivered' \in [Requests -> Nat]
    BY <2>1 DEF TypeOK
  <2> QED
    BY <2>1, <2>2 DEF TypeOK
<1>15. ASSUME NEW o \in Requests, ChannelError(o) PROVE TypeOK'
  BY <1>15 DEF ChannelError, TypeOK
<1>16. ASSUME NEW t \in Threads, ConnectionLost(t) PROVE TypeOK'
  BY <1>16 DEF ConnectionLost, TypeOK
<1>17. ASSUME NEW o \in Requests, ChannelClosed(o) PROVE TypeOK'
  BY <1>17 DEF ChannelClosed, TypeOK
<1>18. CASE UNCHANGED vars
  BY <1>18 DEF vars, TypeOK
<1> QED
  BY <1>1, <1>2, <1>3, <1>4, <1>4a, <1>5, <1>6, <1>7, <1>8, <1>9, <1>10, <1>12, <1>13,
     <1>14, <1>15, <1>16, <1>17, <1>18 DEF Next, CallerStep, LoopStep

(* fetchers_, the objects, the channels and the callers keep the shapes    *)
(* the code gives them, whatever interleaves.                              *)
THEOREM TypeCorrect == Spec => []TypeOK
<1>1. Init => TypeOK
  BY InitTypeOK
<1>2. TypeOK /\ [Next]_vars => TypeOK'
  BY StepTypeOK
<1> QED
  BY <1>1, <1>2, PTL DEF Spec

-----------------------------------------------------------------------------
(* At most one answer, for any number of threads                           *)

(* An object that can still be found has told its user neither data nor    *)
(* the end; one that cannot be found is never told anything again.         *)
Untold(d) == d.heard["data"] = 0 /\ d.heard["finalize"] = 0

CachedUntold == \A o \in fetchers : Untold(obj[o])

AnswerInv == TypeOK /\ CachedUntold /\ AnsweredOnce

LEMMA ReportedCounts ==
  ASSUME NEW U, NEW d \in DeferredType(U), NEW decodes \in BOOLEAN
  PROVE  /\ Reported(d, decodes).heard["data"] <= d.heard["data"] + 1
         /\ Reported(d, decodes).heard["finalize"] = d.heard["finalize"]
<1> DEFINE dd == IF decodes THEN d ELSE report_error(d, "DATA_RESPONSE")
<1>1. /\ dd \in DeferredType(U)
      /\ dd.heard["data"] = d.heard["data"]
      /\ dd.heard["finalize"] = d.heard["finalize"]
  BY ReportErrorType, ReportErrorCounts DEF BrokerError
<1>2. Reported(d, decodes) = report_data(dd)
  BY DEF Reported
<1> HIDE DEF dd
<1>3. /\ report_data(dd).heard["data"] <= dd.heard["data"] + 1
      /\ report_data(dd).heard["finalize"] = dd.heard["finalize"]
  BY <1>1 DEF report_data, Invoke, DeferredType, Events, BrokerError
<1> QED
  BY <1>1, <1>2, <1>3

LEMMA ConstructCounts == \A garbage \in BOOLEAN : Untold(Construct(garbage))
BY DEF Untold, Construct, Unborn, Events

(* The step that ends an object: it leaves the cache with at most one call *)
(* of on_data and one of on_finalize.                                      *)
LEMMA EndingStep ==
  ASSUME AnswerInv, TypeOK', NEW t, NEW d,
         t \in Requests \cup {Nobody},
         t # Nobody => t \in fetchers,
         t \in Requests => /\ d.heard["data"] <= 1
                           /\ d.heard["finalize"] <= 1,
         obj' = With(t, d), fetchers' = fetchers \ {t}
  PROVE  AnswerInv'
BY DEF AnswerInv, CachedUntold, AnsweredOnce, Untold, With, TypeOK

(* The step that only reports something other than data.                   *)
LEMMA ReportingStep ==
  ASSUME AnswerInv, TypeOK', NEW t, NEW d,
         t \in Requests => /\ d.heard["data"] = obj[t].heard["data"]
                           /\ d.heard["finalize"] = obj[t].heard["finalize"],
         obj' = With(t, d), fetchers' = fetchers
  PROVE  AnswerInv'
BY DEF AnswerInv, CachedUntold, AnsweredOnce, Untold, With, TypeOK

LEMMA StepAnswer == AnswerInv /\ [Next]_vars => AnswerInv'
<1> SUFFICES ASSUME AnswerInv, [Next]_vars PROVE AnswerInv'
  OBVIOUS
<1> USE FetchAssumption
<1>0. TypeOK /\ TypeOK'
  BY StepTypeOK DEF AnswerInv
<1>1. ASSUME NEW r \in Requests, SetFetcher(r) PROVE AnswerInv'
  <2> DEFINE t == Target(r)
             old == With(t, Destroy(obj[t]))
  <2>1. PICK garbage \in BOOLEAN : obj' = [old EXCEPT ![r] = Construct(garbage)]
    BY <1>1 DEF SetFetcher
  <2>2. t \in Requests \cup {Nobody} /\ (t # Nobody => t \in fetchers)
    BY <1>0, TargetFacts
  <2>3. t \in fetchers => /\ Destroy(obj[t]).heard["data"] <= 1
                          /\ Destroy(obj[t]).heard["finalize"] <= 1
    <3> SUFFICES ASSUME t \in fetchers
                 PROVE  /\ Destroy(obj[t]).heard["data"] <= 1
                        /\ Destroy(obj[t]).heard["finalize"] <= 1
      OBVIOUS
    <3>1. obj[t] \in DeferredType(Requests) /\ Untold(obj[t])
      BY <1>0 DEF AnswerInv, CachedUntold, TypeOK
    <3> QED
      BY <3>1, DestroyCounts DEF Untold
  <2>4. Untold(Construct(garbage))
    BY ConstructCounts
  <2>5. fetchers' = (fetchers \ {t}) \cup {r}
    BY <1>1 DEF SetFetcher
  <2> HIDE DEF t
  <2>6. CachedUntold'
    BY <1>0, <2>1, <2>4, <2>5 DEF AnswerInv, CachedUntold, With, TypeOK
  <2>7. AnsweredOnce'
    <3> SUFFICES ASSUME NEW o \in Requests
                 PROVE  /\ obj'[o].heard["data"] <= 1
                        /\ obj'[o].heard["finalize"] <= 1
      BY DEF AnsweredOnce
    <3>1. CASE o = r
      BY <2>1, <2>4, <3>1 DEF Untold, With
    <3>2. CASE o # r /\ o = t
      <4>1. obj'[o] = Destroy(obj[t]) /\ t \in fetchers
        BY <2>1, <2>2, <3>2 DEF With
      <4> QED
        BY <2>3, <4>1
    <3>3. CASE o # r /\ o # t
      <4>1. obj'[o] = obj[o]
        BY <2>1, <3>3 DEF With
      <4> QED
        BY <4>1 DEF AnswerInv, AnsweredOnce
    <3> QED
      BY <3>1, <3>2, <3>3
  <2> QED
    BY <1>0, <2>6, <2>7 DEF AnswerInv
<1>2. ASSUME NEW r \in Requests, NEW h \in Chain, ChainHandler(r, h) PROVE AnswerInv'
  <2> DEFINE t == ref[r]
  <2>1. CASE obj[t].life = "freed"
    BY <1>0, <1>2, <2>1 DEF ChainHandler, AnswerInv, CachedUntold, AnsweredOnce
  <2>2. CASE obj[t].life # "freed"
    <3>1. h \in Handlers
      OBVIOUS
    <3>2. t \in Requests => SetHandler(obj[t], h, r).heard = obj[t].heard
      BY <1>0, <3>1, SetHandlerCounts DEF TypeOK
    <3>3. obj' = With(t, SetHandler(obj[t], h, r)) /\ fetchers' = fetchers
      BY <1>2, <2>2 DEF ChainHandler
    <3> QED
      BY <1>0, <3>2, <3>3, ReportingStep
  <2> QED
    BY <2>1, <2>2
<1>3. ASSUME NEW o \in Requests, ConsumeOk(o) PROVE AnswerInv'
  <2> DEFINE t == Target(Head(pending[o]).req)
  <2>1. obj' = With(t, report_success(obj[t])) /\ fetchers' = fetchers
    BY <1>3 DEF ConsumeOk
  <2> HIDE DEF t
  <2> QED
    BY <1>0, <2>1, ReportSuccessCounts, ReportingStep, ZenonT(60) DEF TypeOK
<1>4. ASSUME NEW o \in Requests, CommitError(o) PROVE AnswerInv'
  <2> DEFINE t == Target(Head(pending[o]).req)
  <2>1. obj' = With(t, report_error(obj[t], "PUBLISH")) /\ fetchers' = fetchers
    BY <1>4 DEF CommitError
  <2>2. "PUBLISH" \in BrokerError
    BY DEF BrokerError
  <2> HIDE DEF t
  <2> QED
    BY <1>0, <2>1, <2>2, ReportErrorCounts, ReportingStep, ZenonT(60) DEF TypeOK
<1>5. ASSUME NEW o \in Requests, NEW op, NEW code \in BrokerError,
             Rejected(o, op), ReportAndErase(o, code)
      PROVE  AnswerInv'
  <2> DEFINE t == Target(Head(pending[o]).req)
             d == Destroy(report_error(obj[t], code))
  <2>1. obj' = With(t, d) /\ fetchers' = fetchers \ {t}
    BY <1>5 DEF ReportAndErase
  <2>2. t \in Requests \cup {Nobody} /\ (t # Nobody => t \in fetchers)
    BY <1>0, <1>5, HeadOperation, TargetFacts DEF Rejected, Operation
  <2>3. t \in Requests => d.heard["data"] <= 1 /\ d.heard["finalize"] <= 1
    <3> SUFFICES ASSUME t \in Requests
                 PROVE  d.heard["data"] <= 1 /\ d.heard["finalize"] <= 1
      OBVIOUS
    <3> DEFINE e == report_error(obj[t], code)
    <3>1. obj[t] \in DeferredType(Requests) /\ Untold(obj[t])
      BY <1>0, <2>2 DEF AnswerInv, CachedUntold, TypeOK
    <3>2. e \in DeferredType(Requests) /\ Untold(e)
      BY <1>5, <3>1, ReportErrorType, ReportErrorCounts DEF Untold
    <3> QED
      BY <3>2, DestroyCounts DEF Untold
  <2> QED
    BY <1>0, <2>1, <2>2, <2>3, EndingStep
<1>6. ASSUME NEW o \in Requests, DeclareError(o) \/ ConsumeError(o) PROVE AnswerInv'
  BY <1>5, <1>6 DEF DeclareError, ConsumeError, BrokerError
<1>7. ASSUME NEW o \in Requests, NEW r \in Requests, NEW decodes \in BOOLEAN,
             Receive(o, r, decodes)
      PROVE  AnswerInv'
  <2> DEFINE t == Target(r)
             d == Destroy(Reported(obj[t], decodes))
  <2>1. obj' = With(t, d) /\ fetchers' = fetchers \ {t}
    BY <1>7 DEF Receive
  <2>2. t \in Requests \cup {Nobody} /\ (t # Nobody => t \in fetchers)
    BY <1>0, TargetFacts
  <2>3. t \in Requests => d.heard["data"] <= 1 /\ d.heard["finalize"] <= 1
    <3> SUFFICES ASSUME t \in Requests
                 PROVE  d.heard["data"] <= 1 /\ d.heard["finalize"] <= 1
      OBVIOUS
    <3> DEFINE e == Reported(obj[t], decodes)
    <3>1. obj[t] \in DeferredType(Requests) /\ Untold(obj[t])
      BY <1>0, <2>2 DEF AnswerInv, CachedUntold, TypeOK
    <3>2. e \in DeferredType(Requests) /\ e.heard["data"] <= 1 /\ e.heard["finalize"] = 0
      BY <3>1, ReportedType, ReportedCounts DEF Untold
    <3> QED
      BY <3>2, DestroyCounts
  <2> QED
    BY <1>0, <2>1, <2>2, <2>3, EndingStep
<1>8. ASSUME UNCHANGED <<obj, fetchers>> PROVE AnswerInv'
  BY <1>0, <1>8 DEF AnswerInv, CachedUntold, AnsweredOnce
<1>9. ASSUME NEW r \in Requests, ReadId(r) \/ WriteId(r) \/ DeclareQueue(r)
      PROVE  AnswerInv'
  BY <1>8, <1>9 DEF ReadId, WriteId, DeclareQueue
<1>9a. ASSUME NEW r \in Requests, DeclareRefused(r) PROVE AnswerInv'
  <2> DEFINE t == Target(r)
             e == report_error(obj[t], "QUEUE_DECLARATION")
  <2>1. obj' = With(t, Destroy(e)) /\ fetchers' = fetchers \ {t}
    BY <1>9a DEF DeclareRefused
  <2>2. t \in Requests \cup {Nobody} /\ (t # Nobody => t \in fetchers)
    BY <1>0, TargetFacts
  <2>3. t \in Requests => Destroy(e).heard["data"] <= 1 /\ Destroy(e).heard["finalize"] <= 1
    <3> SUFFICES ASSUME t \in Requests
                 PROVE  Destroy(e).heard["data"] <= 1 /\ Destroy(e).heard["finalize"] <= 1
      OBVIOUS
    <3>1. obj[t] \in DeferredType(Requests) /\ Untold(obj[t])
      BY <1>0, <2>2 DEF AnswerInv, CachedUntold, TypeOK
    <3>2. e \in DeferredType(Requests) /\ Untold(e)
      BY <3>1, ReportErrorType, ReportErrorCounts DEF Untold, BrokerError
    <3> QED
      BY <3>2, DestroyCounts DEF Untold
  <2> QED
    BY <1>0, <2>1, <2>2, <2>3, EndingStep
<1>10. ASSUME NEW o \in Requests,
              DeclareOk(o) \/ CommitOk(o) \/ ChannelError(o) \/ ChannelClosed(o)
       PROVE  AnswerInv'
  BY <1>8, <1>10 DEF DeclareOk, CommitOk, ChannelError, ChannelClosed
<1>11. ASSUME NEW o \in Requests, NEW r \in Requests, ReceiveThrows(o, r)
       PROVE  AnswerInv'
  BY <1>8, <1>11 DEF ReceiveThrows
<1>12. ASSUME Run \/ (\E t \in Threads : ConnectionLost(t)) \/ UNCHANGED vars
       PROVE  AnswerInv'
  BY <1>8, <1>12 DEF Run, ConnectionLost, vars
<1> QED
  BY <1>1, <1>2, <1>3, <1>4, <1>6, <1>7, <1>9, <1>9a, <1>10, <1>11, <1>12
     DEF Next, CallerStep, LoopStep

LEMMA InitAnswer == Init => AnswerInv
<1> SUFFICES ASSUME Init PROVE AnswerInv
  OBVIOUS
<1>1. TypeOK
  BY InitTypeOK
<1>2. \A o \in Requests : Untold(obj[o])
  BY DEF Init, Untold, Unborn, Events
<1> QED
  BY <1>1, <1>2 DEF Init, AnswerInv, CachedUntold, AnsweredOnce, Untold

(* However replies, duplicates, errors and callers interleave, no fetch    *)
(* calls its on_data or its on_finalize a second time.                     *)
THEOREM AtMostOneAnswer == Spec => []AnsweredOnce
<1>1. Init => AnswerInv
  BY InitAnswer
<1>2. AnswerInv /\ [Next]_vars => AnswerInv'
  BY StepAnswer
<1>3. AnswerInv => AnsweredOnce
  BY DEF AnswerInv
<1> QED
  BY <1>1, <1>2, <1>3, PTL DEF Spec

-----------------------------------------------------------------------------
(* Replies reach their own fetch, when one thread makes all the calls      *)

OneCallerThread == \A q, r \in Requests : Caller[q] = Caller[r]

Busy == {"incr", "set", "declare", "chain"}
Returned == {"chain", "done"}

(* An id is drawn before it is used and the counter is past every drawn id.*)
IdsDrawn ==
  /\ n >= 1
  /\ \A r \in Requests : /\ pc[r] = "idle" => id[r] = 0
                         /\ pc[r] = "incr" => id[r] = n
                         /\ pc[r] # "idle" => id[r] >= 1
                         /\ pc[r] \notin {"idle", "incr"} => id[r] < n

OneBusy == \A q, r \in Requests : pc[q] \in Busy /\ pc[r] \in Busy => q = r

IdsUnique ==
  \A q, r \in Requests :
    pc[q] # "idle" /\ pc[r] # "idle" /\ id[q] = id[r] => q = r

(* An object is in the cache from the call's set until it is erased; while *)
(* the call is still running nothing can have erased it.                   *)
CachedBegun ==
  /\ \A o \in fetchers : pc[o] \in {"declare", "chain", "done"}
  /\ \A r \in Requests : pc[r] = "declare" => r \in fetchers

(* Only a call that has returned has operations or messages under way.     *)
CallbacksReturned ==
  /\ \A o \in Requests : \A i \in 1..Len(pending[o]) :
        pc[pending[o][i].req] \in Returned
  /\ \A o \in Requests : \A r \in consuming[o] : pc[r] \in Returned

OwnReference == \A r \in Requests : pc[r] \in Returned => ref[r] = r

OwnHandlers ==
  \A o \in Requests : \A h \in Handlers : obj[o].on[h] \in {o, Nobody}

IdInv == IdsDrawn /\ OneBusy /\ IdsUnique

ReplyInv ==
  /\ TypeOK /\ IdInv /\ CachedBegun /\ CallbacksReturned /\ OwnReference
  /\ OwnHandlers /\ OwnReply /\ NoNullFetcher

(* The lambdas of call r find the object of call r, or nothing.            *)
LEMMA OwnTarget ==
  ASSUME TypeOK, IdInv, CachedBegun, NEW r \in Requests
  PROVE  /\ Target(r) \in {r, Nobody}
         /\ r \in fetchers => Target(r) = r
<1>1. Target(r) # Nobody => Target(r) = r
  <2> SUFFICES ASSUME Target(r) # Nobody PROVE Target(r) = r
    OBVIOUS
  <2> DEFINE t == Target(r)
  <2>1. t \in Requests /\ t \in fetchers /\ id[t] = id[r]
    BY TargetFacts
  <2>2. pc[t] # "idle" /\ id[t] >= 1
    BY <2>1 DEF CachedBegun, IdInv, IdsDrawn
  <2> HIDE DEF t
  <2>3. pc[r] # "idle"
    BY <2>1, <2>2 DEF IdInv, IdsDrawn
  <2>4. t = r
    BY <2>1, <2>2, <2>3 DEF IdInv, IdsUnique
  <2> QED
    BY <2>4 DEF t
<1>2. ASSUME r \in fetchers PROVE Target(r) # Nobody
  BY <1>2, FetchAssumption DEF Target, Get, TypeOK
<1> QED
  BY <1>1, <1>2

LEMMA AnsweredReturned ==
  ASSUME TypeOK, CallbacksReturned, NEW o \in Requests, pending[o] # <<>>,
         NEW t, NEW ops \in Seq(Operation),
         \A i \in 1..Len(ops) : pc[ops[i].req] \in Returned,
         pending' = Answered(o, t, ops), pc' = pc
  PROVE  \A c \in Requests : \A i \in 1..Len(pending'[c]) :
           pc'[pending'[c][i].req] \in Returned
<1> SUFFICES ASSUME NEW c \in Requests, NEW i \in 1..Len(pending'[c])
             PROVE  pc[pending'[c][i].req] \in Returned
  OBVIOUS
<1>0. i \in 1..Len(Answered(o, t, ops)[c])
  OBVIOUS
<1>1. \/ \E j \in 1..Len(pending[c]) : Answered(o, t, ops)[c][i] = pending[c][j]
      \/ c = t /\ \E j \in 1..Len(ops) : Answered(o, t, ops)[c][i] = ops[j]
  BY <1>0, AnsweredElements
<1>2. \A j \in 1..Len(pending[c]) : pc[pending[c][j].req] \in Returned
  BY DEF CallbacksReturned
<1> QED
  BY <1>1, <1>2

(* Answering an operation without issuing another.                         *)
LEMMA DrainReturned ==
  ASSUME TypeOK, CallbacksReturned, NEW o \in Requests, pending[o] # <<>>,
         pending' = Answered(o, Nobody, <<>>), pc' = pc
  PROVE  \A c \in Requests : \A i \in 1..Len(pending'[c]) :
           pc'[pending'[c][i].req] \in Returned
<1>1. <<>> \in Seq(Operation) /\ Len(<<>>) = 0
  BY EmptySeq
<1>2. \A i \in 1..Len(<<>>) : pc[(<<>>)[i].req] \in Returned
  BY <1>1
<1> QED
  BY <1>1, <1>2, AnsweredReturned

LEMMA HeadReturned ==
  ASSUME TypeOK, CallbacksReturned, NEW o \in Requests, pending[o] # <<>>
  PROVE  /\ Head(pending[o]).req \in Requests
         /\ pc[Head(pending[o]).req] \in Returned
<1>1. Head(pending[o]) \in Operation
  BY HeadOperation
<1>2. pending[o] \in Seq(Operation)
  BY DEF TypeOK
<1>3. 1 \in 1..Len(pending[o]) /\ Head(pending[o]) = pending[o][1]
  BY <1>2
<1> QED
  BY <1>1, <1>3 DEF CallbacksReturned, Operation

(* A callback leaves the callers alone; what remains to be shown of it.    *)
LEMMA CallbackStep ==
  ASSUME ReplyInv, TypeOK', UNCHANGED <<n, pc, id, ref>>,
         CallbacksReturned',
         fetchers' \subseteq fetchers,
         \A r \in Requests : pc[r] = "declare" => r \in fetchers',
         OwnHandlers', OwnReply', fault' # "null"
  PROVE  ReplyInv'
<1>1. IdInv'
  BY DEF ReplyInv, IdInv, IdsDrawn, OneBusy, IdsUnique
<1>2. CachedBegun' /\ OwnReference'
  BY DEF ReplyInv, CachedBegun, OwnReference
<1> QED
  BY <1>1, <1>2 DEF ReplyInv, NoNullFetcher

(* A step that changes object t alone, and gives it no foreign handler.    *)
LEMMA HandlersStep ==
  ASSUME TypeOK, OwnHandlers, NEW t, NEW d, obj' = With(t, d),
         t \in Requests => \A h \in Handlers : d.on[h] \in {t, Nobody}
  PROVE  OwnHandlers'
BY DEF OwnHandlers, With, TypeOK

LEMMA StepReply == OneCallerThread /\ ReplyInv /\ [Next]_vars => ReplyInv'
<1> SUFFICES ASSUME OneCallerThread, ReplyInv, [Next]_vars PROVE ReplyInv'
  OBVIOUS
<1> USE FetchAssumption
<1>0. TypeOK /\ TypeOK'
  BY StepTypeOK DEF ReplyInv
<1>a. IdInv /\ CachedBegun /\ CallbacksReturned /\ OwnReference /\ OwnHandlers
        /\ OwnReply /\ NoNullFetcher
  BY DEF ReplyInv
<1>1. ASSUME NEW r \in Requests, ReadId(r) PROVE ReplyInv'
  <2>1. /\ pc[r] = "idle"
        /\ id' = [id EXCEPT ![r] = n]
        /\ pc' = [pc EXCEPT ![r] = "incr"]
        /\ \A q \in Requests : pc[q] \in {"idle", "done"}
        /\ UNCHANGED <<n, fetchers, obj, ref, pending, consuming, got, fault>>
    BY <1>1 DEF ReadId, OneCallerThread
  <2>2. IdInv'
    <3>1. IdsDrawn'
      BY <1>0, <1>a, <2>1 DEF IdInv, IdsDrawn, TypeOK
    <3>2. OneBusy'
      BY <1>0, <2>1 DEF OneBusy, Busy, TypeOK
    <3>3. \A q \in Requests : pc[q] # "idle" => id[q] # n
      <4> SUFFICES ASSUME NEW q \in Requests, pc[q] # "idle" PROVE id[q] # n
        OBVIOUS
      <4>1. pc[q] = "done"
        BY <2>1
      <4>2. id[q] < n /\ id[q] \in Nat /\ n \in Nat
        BY <1>0, <1>a, <4>1 DEF IdInv, IdsDrawn, TypeOK
      <4> QED
        BY <4>2
    <3>4. IdsUnique'
      BY <1>0, <1>a, <2>1, <3>3 DEF IdInv, IdsUnique, TypeOK
    <3> QED
      BY <3>1, <3>2, <3>4 DEF IdInv
  <2>3. CachedBegun'
    BY <1>0, <1>a, <2>1 DEF CachedBegun, TypeOK
  <2>4. OwnReference' /\ OwnHandlers' /\ OwnReply' /\ NoNullFetcher'
    BY <1>0, <1>a, <2>1
       DEF OwnReference, OwnHandlers, OwnReply, NoNullFetcher, TypeOK, Returned
  <2>5. CallbacksReturned'
    BY <1>0, <1>a, <2>1 DEF CallbacksReturned, TypeOK, Returned
  <2> QED
    BY <1>0, <2>2, <2>3, <2>4, <2>5 DEF ReplyInv
<1>2. ASSUME NEW r \in Requests, WriteId(r) PROVE ReplyInv'
  <2>1. /\ pc[r] = "incr"
        /\ n' = id[r] + 1
        /\ pc' = [pc EXCEPT ![r] = "set"]
        /\ UNCHANGED <<id, fetchers, obj, ref, pending, consuming, got, fault>>
    BY <1>2 DEF WriteId
  <2>2. n' = n + 1 /\ n \in Nat
    BY <1>0, <1>a, <2>1 DEF IdInv, IdsDrawn, TypeOK
  <2>3. IdsDrawn'
    <3>1. \A q \in Requests : pc[q] = "incr" => q = r
      BY <1>a, <2>1 DEF IdInv, OneBusy, Busy
    <3> QED
      BY <1>0, <1>a, <2>1, <2>2, <3>1 DEF IdInv, IdsDrawn, TypeOK
  <2>4. OneBusy' /\ IdsUnique'
    BY <1>0, <1>a, <2>1, SMTT(30) DEF IdInv, OneBusy, IdsUnique, Busy, TypeOK
  <2>5. CachedBegun'
    BY <1>0, <1>a, <2>1 DEF CachedBegun, TypeOK
  <2>6. OwnReference' /\ OwnHandlers' /\ OwnReply' /\ NoNullFetcher'
    BY <1>0, <1>a, <2>1
       DEF OwnReference, OwnHandlers, OwnReply, NoNullFetcher, TypeOK, Returned
  <2>7. CallbacksReturned'
    BY <1>0, <1>a, <2>1 DEF CallbacksReturned, TypeOK, Returned
  <2> QED
    BY <1>0, <2>3, <2>4, <2>5, <2>6, <2>7 DEF ReplyInv, IdInv
<1>3. ASSUME NEW r \in Requests, SetFetcher(r) PROVE ReplyInv'
  <2>1. /\ pc[r] = "set"
        /\ pc' = [pc EXCEPT ![r] = "declare"]
        /\ fetchers' = (fetchers \ {Target(r)}) \cup {r}
        /\ UNCHANGED <<n, id, ref, pending, consuming, got, fault>>
    BY <1>3 DEF SetFetcher
  <2>2. r \notin fetchers
    BY <1>a, <2>1 DEF CachedBegun
  <2>3. Target(r) = Nobody
    BY <1>0, <1>a, <2>2, OwnTarget, TargetFacts
  <2>4. IdInv'
    BY <1>0, <1>a, <2>1 DEF IdInv, IdsDrawn, OneBusy, IdsUnique, Busy, TypeOK
  <2>5. CachedBegun'
    BY <1>0, <1>a, <2>1, <2>3 DEF CachedBegun, TypeOK
  <2>6. OwnHandlers'
    <3>1. PICK garbage \in BOOLEAN :
            obj' = [With(Nobody, Destroy(obj[Nobody])) EXCEPT ![r] = Construct(garbage)]
      BY <1>3, <2>3 DEF SetFetcher
    <3>2. With(Nobody, Destroy(obj[Nobody])) = obj
      BY <1>0 DEF With, TypeOK
    <3>3. \A h \in Handlers : Construct(garbage).on[h] = Nobody
      BY DEF Construct, Unborn, NoHandlers
    <3> QED
      BY <1>0, <1>a, <3>1, <3>2, <3>3 DEF OwnHandlers, TypeOK
  <2>7. OwnReference' /\ OwnReply' /\ NoNullFetcher'
    BY <1>0, <1>a, <2>1 DEF OwnReference, OwnReply, NoNullFetcher, TypeOK, Returned
  <2>8. CallbacksReturned'
    BY <1>0, <1>a, <2>1 DEF CallbacksReturned, TypeOK, Returned
  <2> QED
    BY <1>0, <2>4, <2>5, <2>6, <2>7, <2>8 DEF ReplyInv
<1>4. ASSUME NEW r \in Requests, DeclareQueue(r) PROVE ReplyInv'
  <2>1. Target(r) = r
    BY <1>0, <1>4, <1>a, OwnTarget DEF DeclareQueue, CachedBegun
  <2> DEFINE op == [op |-> "declare", req |-> r, at |-> r]
  <2>2. /\ pc[r] = "declare"
        /\ ref' = [ref EXCEPT ![r] = r]
        /\ pending' = [pending EXCEPT ![r] = Append(@, op)]
        /\ pc' = [pc EXCEPT ![r] = "chain"]
        /\ UNCHANGED <<n, fetchers, obj, id, consuming, got, fault>>
    BY <1>4, <2>1 DEF DeclareQueue
  <2>3. op \in Operation /\ op.req = r
    BY DEF Operation
  <2> HIDE DEF op
  <2>4. IdInv'
    BY <1>0, <1>a, <2>2 DEF IdInv, IdsDrawn, OneBusy, IdsUnique, Busy, TypeOK
  <2>5. CachedBegun'
    BY <1>0, <1>a, <2>2 DEF CachedBegun, TypeOK
  <2>6. OwnReference' /\ OwnHandlers' /\ OwnReply' /\ NoNullFetcher'
    BY <1>0, <1>a, <2>2
       DEF OwnReference, OwnHandlers, OwnReply, NoNullFetcher, TypeOK, Returned
  <2>7. ASSUME NEW c \in Requests, NEW i \in 1..Len(pending'[c])
        PROVE  pc'[pending'[c][i].req] \in Returned
    <3>1. /\ Len(Append(pending[r], op)) = Len(pending[r]) + 1
          /\ \A j \in 1..Len(pending[r]) : Append(pending[r], op)[j] = pending[r][j]
          /\ Append(pending[r], op)[Len(pending[r]) + 1] = op
          /\ Len(pending[r]) \in Nat
      BY <1>0, <2>3, AppendProperties, LenProperties DEF TypeOK
    <3>2. CASE c = r
      <4>1. pending'[c] = Append(pending[r], op)
        BY <1>0, <2>2, <3>2 DEF TypeOK
      <4>2. CASE i = Len(pending[r]) + 1
        BY <1>0, <2>2, <2>3, <3>1, <4>1, <4>2 DEF TypeOK, Returned
      <4>3. CASE i # Len(pending[r]) + 1
        <5>1. i \in 1..Len(pending[r])
          BY <3>1, <4>1, <4>3
        <5>2. pending'[c][i] = pending[r][i] /\ pending[r][i] \in Operation
          BY <1>0, <3>1, <4>1, <5>1, ElementOfSeq DEF TypeOK
        <5>3. pending[r][i].req \in Requests /\ pc[pending[r][i].req] \in Returned
          BY <1>a, <5>1, <5>2 DEF CallbacksReturned, Operation
        <5> QED
          BY <1>0, <2>2, <5>2, <5>3 DEF TypeOK, Returned
      <4> QED
        BY <4>2, <4>3
    <3>3. CASE c # r
      <4>1. pending'[c] = pending[c]
        BY <1>0, <2>2, <3>3 DEF TypeOK
      <4>2. pending[c][i] \in Operation
        BY <1>0, <4>1, ElementOfSeq DEF TypeOK
      <4>3. pending[c][i].req \in Requests /\ pc[pending[c][i].req] \in Returned
        BY <1>a, <4>1, <4>2 DEF CallbacksReturned, Operation
      <4> QED
        BY <1>0, <2>2, <4>1, <4>3 DEF TypeOK, Returned
    <3> QED
      BY <3>2, <3>3
  <2>8. CallbacksReturned'
    BY <1>0, <1>a, <2>2, <2>7 DEF CallbacksReturned, TypeOK, Returned
  <2> QED
    BY <1>0, <2>4, <2>5, <2>6, <2>8 DEF ReplyInv
<1>4a. ASSUME NEW r \in Requests, DeclareRefused(r) PROVE ReplyInv'
  <2>1. Target(r) = r
    BY <1>0, <1>4a, <1>a, OwnTarget DEF DeclareRefused, CachedBegun
  <2> DEFINE d == Destroy(report_error(obj[r], "QUEUE_DECLARATION"))
  <2>2. /\ pc[r] = "declare"
        /\ ref' = [ref EXCEPT ![r] = r]
        /\ obj' = With(r, d)
        /\ fetchers' = fetchers \ {r}
        /\ pc' = [pc EXCEPT ![r] = "chain"]
        /\ UNCHANGED <<n, id, pending, consuming, got, fault>>
    BY <1>4a, <2>1 DEF DeclareRefused
  <2>3. \A h \in Handlers : d.on[h] \in {r, Nobody}
    <3>1. obj[r] \in DeferredType(Requests) /\ "QUEUE_DECLARATION" \in BrokerError
      BY <1>0 DEF TypeOK, BrokerError
    <3>2. \A h \in Handlers : obj[r].on[h] \in {r, Nobody}
      BY <1>a DEF OwnHandlers
    <3> QED
      BY <3>1, <3>2, ReportErrorType, ReportErrorOn, DestroyOn
  <2> HIDE DEF d
  <2>4. OwnHandlers'
    BY <1>0, <1>a, <2>2, <2>3, HandlersStep
  <2>5. IdInv'
    BY <1>0, <1>a, <2>2 DEF IdInv, IdsDrawn, OneBusy, IdsUnique, Busy, TypeOK
  <2>6. CachedBegun'
    BY <1>0, <1>a, <2>2 DEF CachedBegun, TypeOK
  <2>7. OwnReference' /\ OwnReply' /\ NoNullFetcher'
    BY <1>0, <1>a, <2>2 DEF OwnReference, OwnReply, NoNullFetcher, TypeOK, Returned
  <2>8. \A q \in Requests : pc[q] \in Returned => pc'[q] \in Returned
    BY <1>0, <2>2 DEF TypeOK, Returned
  <2>9. CallbacksReturned'
    <3>1. \A c \in Requests : \A i \in 1..Len(pending[c]) : pending[c][i].req \in Requests
      <4>1. ASSUME NEW c \in Requests, NEW i \in 1..Len(pending[c])
            PROVE  pending[c][i] \in Operation
        BY <1>0, ElementOfSeq DEF TypeOK
      <4> QED
        BY <4>1 DEF Operation
    <3>2. \A c \in Requests : consuming[c] \subseteq Requests
      BY <1>0 DEF TypeOK
    <3> QED
      BY <1>a, <2>2, <2>8, <3>1, <3>2 DEF CallbacksReturned
  <2> QED
    BY <1>0, <2>4, <2>5, <2>6, <2>7, <2>9 DEF ReplyInv
<1>5. ASSUME NEW r \in Requests, NEW h \in Chain, ChainHandler(r, h) PROVE ReplyInv'
  <2>1. /\ pc[r] = "chain"
        /\ pc' = [pc EXCEPT ![r] = IF chained'[r] = Chain THEN "done" ELSE "chain"]
        /\ UNCHANGED <<n, fetchers, id, ref, pending, consuming, got>>
        /\ fault' \in {fault, "uaf"}
    BY <1>5 DEF ChainHandler
  <2>2. ref[r] = r
    BY <1>a, <2>1 DEF OwnReference, Returned
  <2>3. OwnHandlers'
    <3>1. \A g \in Handlers : SetHandler(obj[r], h, r).on[g] \in {r, Nobody}
      BY <1>0, <1>a DEF SetHandler, OwnHandlers, TypeOK, DeferredType
    <3>2. CASE obj' = obj
      BY <1>a, <3>2 DEF OwnHandlers
    <3>3. CASE obj' = With(r, SetHandler(obj[r], h, r))
      BY <1>0, <1>a, <3>1, <3>3, HandlersStep
    <3> QED
      BY <1>5, <2>2, <3>2, <3>3 DEF ChainHandler
  <2>4. IdInv'
    BY <1>0, <1>a, <2>1 DEF IdInv, IdsDrawn, OneBusy, IdsUnique, Busy, TypeOK
  <2>5. CachedBegun'
    BY <1>0, <1>a, <2>1 DEF CachedBegun, TypeOK
  <2>6. OwnReference' /\ OwnReply' /\ NoNullFetcher'
    BY <1>0, <1>a, <2>1, <2>2 DEF OwnReference, OwnReply, NoNullFetcher, TypeOK, Returned
  <2>7. CallbacksReturned'
    BY <1>0, <1>a, <2>1 DEF CallbacksReturned, TypeOK, Returned
  <2> QED
    BY <1>0, <2>3, <2>4, <2>5, <2>6, <2>7 DEF ReplyInv
<1>6. ASSUME NEW o \in Requests, DeclareOk(o) PROVE ReplyInv'
  <2> DEFINE r == Head(pending[o]).req
             ops == <<[op |-> "commit", req |-> r, at |-> o],
                      [op |-> "consume", req |-> r, at |-> o]>>
  <2>1. /\ pending[o] # <<>>
        /\ pending' = Answered(o, Target(r), ops)
        /\ UNCHANGED <<n, pc, id, ref, fetchers, obj, consuming, got, fault>>
    BY <1>6 DEF DeclareOk, Accepted
  <2>2. r \in Requests /\ pc[r] \in Returned
    BY <1>0, <1>a, <2>1, HeadReturned
  <2>3. /\ ops \in Seq(Operation)
        /\ \A i \in 1..Len(ops) : pc[ops[i].req] \in Returned
    BY <2>2 DEF Operation
  <2> HIDE DEF ops
  <2>4. CallbacksReturned'
    BY <1>0, <1>a, <2>1, <2>3, AnsweredReturned DEF CallbacksReturned
  <2>5. OwnHandlers' /\ OwnReply' /\ fault' # "null"
    BY <1>a, <2>1 DEF OwnHandlers, OwnReply, NoNullFetcher
  <2> QED
    BY <1>0, <1>a, <2>1, <2>4, <2>5, CallbackStep DEF CachedBegun
<1>7. ASSUME NEW o \in Requests, CommitOk(o) PROVE ReplyInv'
  <2>1. /\ pending[o] # <<>>
        /\ pending' = Answered(o, Nobody, <<>>)
        /\ UNCHANGED <<n, pc, id, ref, fetchers, obj, consuming, got, fault>>
    BY <1>7 DEF CommitOk, Accepted
  <2>2. CallbacksReturned'
    BY <1>0, <1>a, <2>1, DrainReturned DEF CallbacksReturned
  <2>3. OwnHandlers' /\ OwnReply' /\ fault' # "null"
    BY <1>a, <2>1 DEF OwnHandlers, OwnReply, NoNullFetcher
  <2> QED
    BY <1>0, <1>a, <2>1, <2>2, <2>3, CallbackStep DEF CachedBegun
<1>8. ASSUME NEW o \in Requests, ConsumeOk(o) PROVE ReplyInv'
  <2> DEFINE r == Head(pending[o]).req
             t == Target(r)
  <2>1. /\ pending[o] # <<>>
        /\ pending' = Answered(o, Nobody, <<>>)
        /\ consuming' = [consuming EXCEPT ![o] = @ \cup {r}]
        /\ obj' = With(t, report_success(obj[t]))
        /\ UNCHANGED <<n, pc, id, ref, fetchers, got, fault>>
    BY <1>8 DEF ConsumeOk, Accepted
  <2>2. r \in Requests /\ pc[r] \in Returned
    BY <1>0, <1>a, <2>1, HeadReturned
  <2> HIDE DEF r, t
  <2>3. CallbacksReturned'
    <3>1. \A c \in Requests : \A q \in consuming'[c] : pc[q] \in Returned
      BY <1>0, <1>a, <2>1, <2>2 DEF CallbacksReturned, TypeOK
    <3> QED
      BY <1>0, <1>a, <2>1, <3>1, DrainReturned DEF CallbacksReturned
  <2>4. OwnHandlers'
    <3>1. t \in Requests => report_success(obj[t]).on = obj[t].on
      BY <1>0, ReportSuccessOn DEF TypeOK
    <3> QED
      BY <1>0, <1>a, <2>1, <3>1, HandlersStep DEF OwnHandlers
  <2>5. OwnReply' /\ fault' # "null"
    BY <1>a, <2>1 DEF OwnReply, NoNullFetcher
  <2> QED
    BY <1>0, <1>a, <2>1, <2>3, <2>4, <2>5, CallbackStep DEF CachedBegun
<1>9. ASSUME NEW o \in Requests, CommitError(o) PROVE ReplyInv'
  <2> DEFINE t == Target(Head(pending[o]).req)
  <2>1. /\ pending[o] # <<>>
        /\ pending' = Answered(o, Nobody, <<>>)
        /\ obj' = With(t, report_error(obj[t], "PUBLISH"))
        /\ UNCHANGED <<n, pc, id, ref, fetchers, consuming, got, fault>>
    BY <1>9 DEF CommitError, Rejected
  <2> HIDE DEF t
  <2>2. CallbacksReturned'
    BY <1>0, <1>a, <2>1, DrainReturned DEF CallbacksReturned
  <2>3. OwnHandlers'
    <3>1. t \in Requests => report_error(obj[t], "PUBLISH").on = obj[t].on
      BY <1>0, ReportErrorOn DEF TypeOK
    <3> QED
      BY <1>0, <1>a, <2>1, <3>1, HandlersStep DEF OwnHandlers
  <2>4. OwnReply' /\ fault' # "null"
    BY <1>a, <2>1 DEF OwnReply, NoNullFetcher
  <2> QED
    BY <1>0, <1>a, <2>1, <2>2, <2>3, <2>4, CallbackStep DEF CachedBegun
<1>10. ASSUME NEW o \in Requests, NEW op, NEW code \in BrokerError,
              Rejected(o, op), ReportAndErase(o, code)
       PROVE  ReplyInv'
  <2> DEFINE r == Head(pending[o]).req
             t == Target(r)
             d == Destroy(report_error(obj[t], code))
  <2>1. /\ pending[o] # <<>>
        /\ pending' = Answered(o, Nobody, <<>>)
        /\ obj' = With(t, d)
        /\ fetchers' = fetchers \ {t}
        /\ UNCHANGED <<n, pc, id, ref, consuming, got, fault>>
    BY <1>10 DEF ReportAndErase, Rejected
  <2>2. r \in Requests /\ pc[r] \in Returned
    BY <1>0, <1>a, <2>1, HeadReturned
  <2>3. t \in {r, Nobody}
    BY <1>0, <1>a, <2>2, OwnTarget
  <2>4. \A q \in Requests : pc[q] = "declare" => q \in fetchers'
    BY <1>a, <2>1, <2>2, <2>3 DEF CachedBegun, Returned
  <2>5. CallbacksReturned'
    BY <1>0, <1>a, <2>1, DrainReturned DEF CallbacksReturned
  <2>6. OwnHandlers'
    <3>1. t \in Requests => \A h \in Handlers : d.on[h] = Nobody
      BY <1>0, ReportErrorType, DestroyOn DEF TypeOK
    <3> QED
      BY <1>0, <1>a, <2>1, <3>1, HandlersStep
  <2>7. OwnReply' /\ fault' # "null"
    BY <1>a, <2>1 DEF OwnReply, NoNullFetcher
  <2> QED
    BY <1>0, <2>1, <2>4, <2>5, <2>6, <2>7, CallbackStep
<1>11. ASSUME NEW o \in Requests, DeclareError(o) \/ ConsumeError(o) PROVE ReplyInv'
  BY <1>10, <1>11 DEF DeclareError, ConsumeError, BrokerError
<1>12. ASSUME NEW o \in Requests, NEW r \in Requests, NEW decodes \in BOOLEAN,
              Receive(o, r, decodes)
       PROVE  ReplyInv'
  <2> DEFINE t == Target(r)
             d == Destroy(Reported(obj[t], decodes))
  <2>1. /\ r \in consuming[o]
        /\ obj' = With(t, d)
        /\ fetchers' = fetchers \ {t}
        /\ got' = IF t # Nobody /\ DataCalled(obj[t], decodes)
                  THEN got \cup {<<obj[t].on["data"], r>>} ELSE got
        /\ UNCHANGED <<n, pc, id, ref, pending, consuming, fault>>
    BY <1>12 DEF Receive, Arrives
  <2>2. pc[r] \in Returned
    BY <1>a, <2>1 DEF CallbacksReturned
  <2>3. t \in {r, Nobody}
    BY <1>0, <1>a, OwnTarget
  <2>4. \A q \in Requests : pc[q] = "declare" => q \in fetchers'
    BY <1>a, <2>1, <2>2, <2>3 DEF CachedBegun, Returned
  <2>5. CallbacksReturned'
    BY <1>a, <2>1 DEF CallbacksReturned
  <2>6. OwnHandlers'
    <3>1. t \in Requests => \A h \in Handlers : d.on[h] = Nobody
      BY <1>0, ReportedType, DestroyOn, SMTT(30) DEF TypeOK
    <3> QED
      BY <1>0, <1>a, <2>1, <3>1, HandlersStep
  <2>7. OwnReply'
    <3>1. CASE t # Nobody /\ DataCalled(obj[t], decodes)
      <4>1. t = r /\ obj[r].on["data"] # Nobody
        BY <2>3, <3>1 DEF DataCalled
      <4>2. obj[r].on["data"] = r
        BY <1>a, <4>1 DEF OwnHandlers, Handlers
      <4>3. got' = got \cup {<<r, r>>}
        BY <2>1, <3>1, <4>1, <4>2
      <4> QED
        BY <1>a, <4>3 DEF OwnReply
    <3>2. CASE ~(t # Nobody /\ DataCalled(obj[t], decodes))
      BY <1>a, <2>1, <3>2 DEF OwnReply
    <3> QED
      BY <3>1, <3>2
  <2>8. fault' # "null"
    BY <1>a, <2>1 DEF NoNullFetcher
  <2> QED
    BY <1>0, <2>1, <2>4, <2>5, <2>6, <2>7, <2>8, CallbackStep
<1>13. ASSUME UNCHANGED <<n, pc, id, ref, fetchers, obj, pending, consuming, got>>,
              fault' # "null"
       PROVE  ReplyInv'
  <2>1. CallbacksReturned' /\ OwnHandlers' /\ OwnReply'
    BY <1>a, <1>13 DEF CallbacksReturned, OwnHandlers, OwnReply
  <2> QED
    BY <1>0, <1>a, <1>13, <2>1, CallbackStep DEF CachedBegun
<1>14. ASSUME NEW o \in Requests, NEW r \in Requests, ReceiveThrows(o, r)
       PROVE  ReplyInv'
  BY <1>13, <1>14 DEF ReceiveThrows
<1>15. ASSUME NEW o \in Requests, ChannelError(o) \/ ChannelClosed(o) PROVE ReplyInv'
  BY <1>13, <1>15, <1>a DEF ChannelError, ChannelClosed, NoNullFetcher
<1>16. ASSUME Run \/ (\E t \in Threads : ConnectionLost(t)) \/ UNCHANGED vars
       PROVE  ReplyInv'
  BY <1>13, <1>16, <1>a DEF Run, ConnectionLost, vars, NoNullFetcher
<1> QED
  BY <1>1, <1>2, <1>3, <1>4, <1>4a, <1>5, <1>6, <1>7, <1>8, <1>9, <1>11, <1>12, <1>14,
     <1>15, <1>16 DEF Next, CallerStep, LoopStep

LEMMA InitReply == Init => ReplyInv
<1> SUFFICES ASSUME Init PROVE ReplyInv
  OBVIOUS
<1>1. TypeOK
  BY InitTypeOK
<1>2. IdInv
  BY DEF Init, IdInv, IdsDrawn, OneBusy, IdsUnique, Busy
<1>3. CachedBegun /\ OwnReference /\ OwnReply /\ NoNullFetcher
  BY DEF Init, CachedBegun, OwnReference, OwnReply, NoNullFetcher, Returned
<1>4. CallbacksReturned
  BY EmptySeq DEF Init, CallbacksReturned
<1>5. OwnHandlers
  BY DEF Init, OwnHandlers, Unborn, NoHandlers
<1> QED
  BY <1>1, <1>2, <1>3, <1>4, <1>5 DEF ReplyInv

(* When one thread makes every call of fetch, correlation ids are unique,  *)
(* so a reply is handed to the caller that asked for it and to no other,   *)
(* and fetch never dereferences an erased entry of fetchers_, however the  *)
(* callbacks, duplicates and failures interleave.                          *)
THEOREM OwnReplies ==
  ASSUME OneCallerThread
  PROVE  Spec => [](OwnReply /\ NoNullFetcher)
<1>1. Init => ReplyInv
  BY InitReply
<1>2. ReplyInv /\ [Next]_vars => ReplyInv'
  BY StepReply
<1>3. ReplyInv => OwnReply /\ NoNullFetcher
  BY DEF ReplyInv
<1> QED
  BY <1>1, <1>2, <1>3, PTL DEF Spec

-----------------------------------------------------------------------------
(* Data or an error, never both, when one thread makes all the calls       *)

(* Every operation and every consumer of a channel belongs to the call     *)
(* that opened the channel.                                                *)
OwnOperations ==
  \A c \in Requests : /\ \A i \in 1..Len(pending[c]) : pending[c][i].req = c
                      /\ consuming[c] \subseteq {c}

(* The user has been told of an error.                                     *)
Told(d) == \E e \in BrokerError : d.heard[e] # 0

(* An object that is told of an error and stays in the cache, which        *)
(* commitTransaction().onError does, has a channel that brings no message  *)
(* any more.                                                               *)
BrokenWhenTold ==
  \A o \in fetchers : Told(obj[o]) => chan[o] \in {"failing", "closed"}

(* consume().onSuccess has assigned failed_ before a message can arrive.   *)
SettledConsumers ==
  \A o \in fetchers : o \in consuming[o] => obj[o].settled = TRUE

ErrorInv ==
  /\ ReplyInv /\ AnswerInv /\ OwnOperations /\ BrokenWhenTold
  /\ SettledConsumers /\ DataXorError

LEMMA SettledFollows == ErrorInv => SettledBeforeRead
<1> SUFFICES ASSUME ErrorInv, NEW o \in Requests, NEW r \in Requests,
                    r \in consuming[o], Target(r) # Nobody
             PROVE  obj[Target(r)].settled
  BY DEF SettledBeforeRead
<1>1. r = o
  BY DEF ErrorInv, OwnOperations
<1>2. Target(r) = r /\ r \in fetchers
  BY OwnTarget, TargetFacts DEF ErrorInv, ReplyInv
<1>3. obj[r].settled = TRUE
  BY <1>1, <1>2 DEF ErrorInv, SettledConsumers
<1> QED
  BY <1>2, <1>3

(* A step that changes object t alone: what is to be shown of it.          *)
LEMMA XorStep ==
  ASSUME TypeOK, DataXorError, NEW t, NEW d, obj' = With(t, d),
         t \in Requests => d.heard["data"] = 0 \/ ~Told(d)
  PROVE  DataXorError'
<1> SUFFICES ASSUME NEW o \in Requests, obj'[o].heard["data"] > 0,
                    NEW e \in BrokerError
             PROVE  obj'[o].heard[e] = 0
  BY DEF DataXorError
<1>1. CASE o = t
  <2>1. obj'[o] = d
    BY <1>1 DEF With
  <2> QED
    BY <1>1, <2>1 DEF Told
<1>2. CASE o # t
  <2>1. obj'[o] = obj[o]
    BY <1>2 DEF With
  <2> QED
    BY <2>1 DEF DataXorError
<1> QED
  BY <1>1, <1>2

(* The operations after an answer, when the callback issues ops on the     *)
(* channel of its own call.                                                *)
LEMMA OwnAnswered ==
  ASSUME TypeOK, OwnOperations, NEW o \in Requests, pending[o] # <<>>,
         NEW t, NEW ops \in Seq(Operation), \A i \in 1..Len(ops) : ops[i].req = t,
         pending' = Answered(o, t, ops)
  PROVE  \A c \in Requests : \A i \in 1..Len(pending'[c]) : pending'[c][i].req = c
BY AnsweredElements DEF OwnOperations

LEMMA OwnDrained ==
  ASSUME TypeOK, OwnOperations, NEW o \in Requests, pending[o] # <<>>,
         pending' = Answered(o, Nobody, <<>>)
  PROVE  \A c \in Requests : \A i \in 1..Len(pending'[c]) : pending'[c][i].req = c
<1>1. <<>> \in Seq(Operation) /\ Len(<<>>) = 0
  BY EmptySeq
<1>2. \A i \in 1..Len(<<>>) : (<<>>)[i].req = Nobody
  BY <1>1
<1> QED
  BY <1>1, <1>2, OwnAnswered

LEMMA OwnHead ==
  ASSUME TypeOK, OwnOperations, NEW o \in Requests, pending[o] # <<>>
  PROVE  Head(pending[o]).req = o
<1>1. pending[o] \in Seq(Operation)
  BY DEF TypeOK
<1>2. 1 \in 1..Len(pending[o]) /\ Head(pending[o]) = pending[o][1]
  BY <1>1
<1> QED
  BY <1>2 DEF OwnOperations

(* What a message does to an object that has been told of no error yet.    *)
LEMMA ReportedXor ==
  ASSUME NEW U, NEW d \in DeferredType(U), NEW decodes \in BOOLEAN,
         d.heard["data"] = 0, ~Told(d)
  PROVE  LET dd == Destroy(Reported(d, decodes))
         IN  dd.heard["data"] = 0 \/ ~Told(dd)
<1> DEFINE dd == Destroy(Reported(d, decodes))
<1>0. Reported(d, decodes) \in DeferredType(U)
  BY ReportedType
<1>1. CASE decodes
  <2>1. Reported(d, decodes) = report_data(d)
    BY <1>1 DEF Reported
  <2>2. \A e \in BrokerError : dd.heard[e] = d.heard[e]
    BY <1>0, <2>1, ErrorCounts
  <2> QED
    BY <2>2 DEF Told
<1>2. CASE ~decodes
  <2> DEFINE f == report_error(d, "DATA_RESPONSE")
  <2>1. f \in DeferredType(U) /\ f.heard["data"] = 0
    BY ReportErrorType, ReportErrorCounts DEF BrokerError
  <2>2. f.failed = TRUE
    BY DEF report_error, Invoke, DeferredType
  <2>3. Reported(d, decodes) = f
    BY <1>2, <2>2 DEF Reported, report_data, Good
  <2> HIDE DEF f
  <2> QED
    BY <2>1, <2>3, DestroyCounts
<1> QED
  BY <1>1, <1>2

LEMMA StepError == OneCallerThread /\ ErrorInv /\ [Next]_vars => ErrorInv'
<1> SUFFICES ASSUME OneCallerThread, ErrorInv, [Next]_vars PROVE ErrorInv'
  OBVIOUS
<1> USE FetchAssumption
<1>0. TypeOK /\ ReplyInv' /\ AnswerInv'
  BY StepReply, StepAnswer DEF ErrorInv, ReplyInv
<1>a. /\ ReplyInv /\ OwnOperations /\ BrokenWhenTold
      /\ SettledConsumers /\ DataXorError /\ CachedUntold
  BY DEF ErrorInv, AnswerInv
<1>b. IdInv /\ CachedBegun /\ CallbacksReturned
  BY <1>a DEF ReplyInv
<1>c. fetchers \subseteq Requests
  BY <1>0 DEF TypeOK
<1>1. ASSUME UNCHANGED <<fetchers, obj, pending, consuming>>,
             \A o \in Requests : chan[o] \in {"failing", "closed"}
                                    => chan'[o] \in {"failing", "closed"}
      PROVE  ErrorInv'
  <2>1. OwnOperations' /\ SettledConsumers' /\ DataXorError'
    BY <1>1, <1>a DEF OwnOperations, SettledConsumers, DataXorError
  <2>2. BrokenWhenTold'
    BY <1>1, <1>a, <1>c DEF BrokenWhenTold, Told
  <2> QED
    BY <1>0, <2>1, <2>2 DEF ErrorInv
<1>2. ASSUME NEW r \in Requests, ReadId(r) \/ WriteId(r) PROVE ErrorInv'
  BY <1>1, <1>2 DEF ReadId, WriteId
<1>3. ASSUME NEW o \in Requests, NEW r \in Requests, ReceiveThrows(o, r)
      PROVE  ErrorInv'
  BY <1>1, <1>3 DEF ReceiveThrows
<1>4. ASSUME NEW o \in Requests, ChannelError(o) \/ ChannelClosed(o) PROVE ErrorInv'
  <2>1. \A c \in Requests : chan[c] \in {"failing", "closed"}
                               => chan'[c] \in {"failing", "closed"}
    BY <1>0, <1>4 DEF ChannelError, ChannelClosed, TypeOK
  <2> QED
    BY <1>1, <1>4, <2>1 DEF ChannelError, ChannelClosed
<1>5. ASSUME NEW t \in Threads, ConnectionLost(t) PROVE ErrorInv'
  BY <1>1, <1>5 DEF ConnectionLost
<1>6. CASE Run \/ UNCHANGED vars
  BY <1>1, <1>6 DEF Run, vars
<1>7. ASSUME NEW r \in Requests, SetFetcher(r) PROVE ErrorInv'
  <2>1. /\ pc[r] = "set"
        /\ fetchers' = (fetchers \ {Target(r)}) \cup {r}
        /\ chan' = [CloseChannel(Target(r)) EXCEPT ![r] = NewChannel(Caller[r])]
        /\ UNCHANGED <<pending, consuming>>
    BY <1>7 DEF SetFetcher
  <2>2. Target(r) = Nobody
    BY <1>0, <1>b, <2>1, OwnTarget, TargetFacts DEF CachedBegun
  <2>3. PICK garbage \in BOOLEAN :
          obj' = [With(Nobody, Destroy(obj[Nobody])) EXCEPT ![r] = Construct(garbage)]
    BY <1>7, <2>2 DEF SetFetcher
  <2>4. With(Nobody, Destroy(obj[Nobody])) = obj
    BY <1>0 DEF With, TypeOK
  <2>5. /\ obj'[r] = Construct(garbage)
        /\ \A o \in Requests : o # r => obj'[o] = obj[o]
    BY <1>0, <2>3, <2>4 DEF TypeOK
  <2>6. \A e \in Events : Construct(garbage).heard[e] = 0
    BY DEF Construct, Unborn
  <2>7. ~Told(Construct(garbage))
    BY <2>6 DEF Told, Events
  <2>8. r \notin consuming[r]
    BY <1>b, <2>1 DEF CallbacksReturned, Returned
  <2>9. OwnOperations'
    BY <1>a, <2>1 DEF OwnOperations
  <2>10. SettledConsumers'
    BY <1>a, <1>c, <2>1, <2>2, <2>5, <2>8 DEF SettledConsumers
  <2>11. BrokenWhenTold'
    <3>1. \A o \in Requests : o # r => chan'[o] = chan[o]
      BY <1>0, <2>1, <2>2 DEF CloseChannel, TypeOK
    <3> QED
      BY <1>a, <1>c, <2>1, <2>2, <2>5, <2>7, <3>1 DEF BrokenWhenTold
  <2>12. DataXorError'
    BY <1>a, <2>5, <2>6 DEF DataXorError, Events
  <2> QED
    BY <1>0, <2>9, <2>10, <2>11, <2>12 DEF ErrorInv
<1>8. ASSUME NEW r \in Requests, DeclareQueue(r) PROVE ErrorInv'
  <2>1. Target(r) = r
    BY <1>0, <1>8, <1>b, OwnTarget DEF DeclareQueue, CachedBegun
  <2> DEFINE op == [op |-> "declare", req |-> r, at |-> r]
  <2>2. /\ pending' = [pending EXCEPT ![r] = Append(@, op)]
        /\ UNCHANGED <<fetchers, obj, consuming, chan>>
    BY <1>8, <2>1 DEF DeclareQueue
  <2>3. op \in Operation /\ op.req = r
    BY DEF Operation
  <2> HIDE DEF op
  <2>4. ASSUME NEW c \in Requests, NEW i \in 1..Len(pending'[c])
        PROVE  pending'[c][i].req = c
    <3>1. /\ Len(Append(pending[r], op)) = Len(pending[r]) + 1
          /\ \A j \in 1..Len(pending[r]) : Append(pending[r], op)[j] = pending[r][j]
          /\ Append(pending[r], op)[Len(pending[r]) + 1] = op
          /\ Len(pending[r]) \in Nat
      BY <1>0, <2>3, AppendProperties, LenProperties DEF TypeOK
    <3>2. CASE c = r
      <4>1. pending'[c] = Append(pending[r], op)
        BY <1>0, <2>2, <3>2 DEF TypeOK
      <4>2. CASE i = Len(pending[r]) + 1
        BY <2>3, <3>1, <3>2, <4>1, <4>2
      <4>3. CASE i # Len(pending[r]) + 1
        <5>1. i \in 1..Len(pending[r])
          BY <3>1, <4>1, <4>3
        <5> QED
          BY <1>a, <3>1, <3>2, <4>1, <5>1 DEF OwnOperations
      <4> QED
        BY <4>2, <4>3
    <3>3. CASE c # r
      BY <1>0, <1>a, <2>2, <3>3 DEF TypeOK, OwnOperations
    <3> QED
      BY <3>2, <3>3
  <2>5. OwnOperations'
    BY <1>a, <2>2, <2>4 DEF OwnOperations
  <2>6. BrokenWhenTold'
    BY <1>a, <1>c, <2>2 DEF BrokenWhenTold
  <2>7. SettledConsumers' /\ DataXorError'
    BY <1>a, <2>2 DEF SettledConsumers, DataXorError
  <2> QED
    BY <1>0, <2>5, <2>6, <2>7 DEF ErrorInv
<1>9. ASSUME NEW r \in Requests, NEW h \in Chain, ChainHandler(r, h) PROVE ErrorInv'
  <2>1. CASE UNCHANGED obj
    BY <1>1, <1>9, <2>1 DEF ChainHandler
  <2>2. CASE obj' = With(ref[r], SetHandler(obj[ref[r]], h, r))
    <3>1. UNCHANGED <<fetchers, chan, pending, consuming>>
      BY <1>9 DEF ChainHandler
    <3>2. \A o \in Requests : /\ obj'[o].heard = obj[o].heard
                              /\ obj'[o].settled = obj[o].settled
      <4> SUFFICES ASSUME NEW o \in Requests
                   PROVE  /\ obj'[o].heard = obj[o].heard
                          /\ obj'[o].settled = obj[o].settled
        OBVIOUS
      <4>1. CASE o = ref[r]
        <5>1. obj'[o] = SetHandler(obj[o], h, r) /\ obj[o] \in DeferredType(Requests)
                /\ h \in Handlers
          BY <1>0, <2>2, <4>1 DEF With, TypeOK
        <5>2. SetHandler(obj[o], h, r).heard = obj[o].heard
          BY <5>1, SetHandlerCounts
        <5>3. SetHandler(obj[o], h, r).settled = obj[o].settled
          BY <5>1 DEF SetHandler, DeferredType
        <5> QED
          BY <5>1, <5>2, <5>3, Zenon
      <4>2. CASE o # ref[r]
        BY <2>2, <4>2 DEF With
      <4> QED
        BY <4>1, <4>2
    <3>3. OwnOperations'
      BY <1>a, <3>1 DEF OwnOperations
    <3>4. BrokenWhenTold'
      BY <1>a, <1>c, <3>1, <3>2 DEF BrokenWhenTold, Told
    <3>5. SettledConsumers'
      BY <1>a, <1>c, <3>1, <3>2 DEF SettledConsumers
    <3>6. DataXorError'
      BY <1>a, <3>2 DEF DataXorError
    <3> QED
      BY <1>0, <3>3, <3>4, <3>5, <3>6 DEF ErrorInv
  <2> QED
    BY <1>9, <2>1, <2>2 DEF ChainHandler
<1>10. ASSUME NEW o \in Requests, DeclareOk(o) PROVE ErrorInv'
  <2> DEFINE ops == <<[op |-> "commit", req |-> o, at |-> o],
                      [op |-> "consume", req |-> o, at |-> o]>>
  <2>1. pending[o] # <<>>
    BY <1>10 DEF DeclareOk, Accepted
  <2>2. Head(pending[o]).req = o
    BY <1>0, <1>a, <2>1, OwnHead
  <2>3. /\ pending' = Answered(o, Target(o), ops)
        /\ chan' = IssueOn(Target(o))
        /\ UNCHANGED <<fetchers, obj, consuming>>
    BY <1>10, <2>2 DEF DeclareOk
  <2>4. /\ ops \in Seq(Operation)
        /\ \A i \in 1..Len(ops) : ops[i].req = o
    BY DEF Operation
  <2> HIDE DEF ops
  <2>5. \A c \in Requests : \A i \in 1..Len(pending'[c]) : pending'[c][i].req = c
    <3>1. CASE Target(o) = o
      BY <1>0, <1>a, <2>1, <2>3, <2>4, <3>1, OwnAnswered
    <3>2. CASE Target(o) = Nobody
      BY <1>0, <1>a, <2>1, <2>3, <2>4, <3>2, AnsweredElements DEF OwnOperations
    <3> QED
      BY <1>0, <1>b, <3>1, <3>2, OwnTarget
  <2>6. OwnOperations'
    BY <1>a, <2>3, <2>5 DEF OwnOperations
  <2>7. BrokenWhenTold'
    BY <1>a, <1>c, <2>3 DEF BrokenWhenTold, IssueOn
  <2>8. SettledConsumers' /\ DataXorError'
    BY <1>a, <2>3 DEF SettledConsumers, DataXorError
  <2> QED
    BY <1>0, <2>6, <2>7, <2>8 DEF ErrorInv
<1>11. ASSUME NEW o \in Requests, CommitOk(o) PROVE ErrorInv'
  <2>1. /\ pending[o] # <<>>
        /\ pending' = Answered(o, Nobody, <<>>)
        /\ UNCHANGED <<fetchers, obj, chan, consuming>>
    BY <1>11 DEF CommitOk, Accepted
  <2>2. OwnOperations'
    BY <1>0, <1>a, <2>1, OwnDrained DEF OwnOperations
  <2>3. BrokenWhenTold' /\ SettledConsumers' /\ DataXorError'
    BY <1>a, <2>1 DEF BrokenWhenTold, SettledConsumers, DataXorError
  <2> QED
    BY <1>0, <2>2, <2>3 DEF ErrorInv
<1>12. ASSUME NEW o \in Requests, ConsumeOk(o) PROVE ErrorInv'
  <2> DEFINE t == Target(o)
             d == report_success(obj[t])
  <2>1. pending[o] # <<>>
    BY <1>12 DEF ConsumeOk, Accepted
  <2>2. Head(pending[o]).req = o
    BY <1>0, <1>a, <2>1, OwnHead
  <2>3. /\ pending' = Answered(o, Nobody, <<>>)
        /\ consuming' = [consuming EXCEPT ![o] = @ \cup {o}]
        /\ obj' = With(t, d)
        /\ UNCHANGED <<fetchers, chan>>
    BY <1>12, <2>2 DEF ConsumeOk
  <2>4. t \in {o, Nobody} /\ (o \in fetchers => t = o) /\ (t # Nobody => t \in fetchers)
    BY <1>0, <1>b, OwnTarget, TargetFacts
  <2>5. t \in Requests => /\ d.heard["data"] = 0
                          /\ d.settled = TRUE
                          /\ \A e \in BrokerError : d.heard[e] = obj[t].heard[e]
    <3> SUFFICES ASSUME t \in Requests
                 PROVE  /\ d.heard["data"] = 0
                        /\ d.settled = TRUE
                        /\ \A e \in BrokerError : d.heard[e] = obj[t].heard[e]
      OBVIOUS
    <3>1. obj[t] \in DeferredType(Requests) /\ obj[t].heard["data"] = 0
      BY <1>0, <1>a, <2>4 DEF TypeOK, CachedUntold, Untold
    <3> HIDE DEF t
    <3> QED
      BY <3>1, ReportSuccessCounts, SettledKept, ErrorCounts
  <2> HIDE DEF t, d
  <2>6. OwnOperations'
    <3>1. \A c \in Requests : consuming'[c] \subseteq {c}
      BY <1>0, <1>a, <2>3 DEF OwnOperations, TypeOK
    <3> QED
      BY <1>0, <1>a, <2>1, <2>3, <3>1, OwnDrained DEF OwnOperations
  <2>7. BrokenWhenTold'
    BY <1>a, <1>c, <2>3, <2>5 DEF BrokenWhenTold, Told, With
  <2>8. SettledConsumers'
    <3> SUFFICES ASSUME NEW c \in fetchers, c \in consuming'[c]
                 PROVE  obj'[c].settled = TRUE
      BY <2>3 DEF SettledConsumers
    <3>1. CASE c = t
      BY <1>c, <2>3, <2>5, <3>1 DEF With
    <3>2. CASE c # t
      <4>1. c # o /\ c \in Requests
        BY <1>c, <2>4, <3>2
      <4>2. obj'[c] = obj[c] /\ consuming'[c] = consuming[c]
        BY <1>0, <2>3, <3>2, <4>1 DEF With, TypeOK
      <4> QED
        BY <1>a, <4>2 DEF SettledConsumers
    <3> QED
      BY <3>1, <3>2
  <2>9. DataXorError'
    BY <1>0, <1>a, <2>3, <2>5, XorStep
  <2> QED
    BY <1>0, <2>6, <2>7, <2>8, <2>9 DEF ErrorInv
<1>13. ASSUME NEW o \in Requests, CommitError(o) PROVE ErrorInv'
  <2> DEFINE t == Target(o)
             d == report_error(obj[t], "PUBLISH")
  <2>1. pending[o] # <<>> /\ chan[o] = "failing"
    BY <1>13 DEF CommitError, Rejected
  <2>2. Head(pending[o]).req = o
    BY <1>0, <1>a, <2>1, OwnHead
  <2>3. /\ pending' = Answered(o, Nobody, <<>>)
        /\ obj' = With(t, d)
        /\ UNCHANGED <<fetchers, chan, consuming>>
    BY <1>13, <2>2 DEF CommitError, Rejected
  <2>4. t \in {o, Nobody} /\ (t # Nobody => t \in fetchers)
    BY <1>0, <1>b, OwnTarget, TargetFacts
  <2>5. t \in Requests => d.heard["data"] = 0 /\ d.settled = TRUE
    <3> SUFFICES ASSUME t \in Requests PROVE d.heard["data"] = 0 /\ d.settled = TRUE
      OBVIOUS
    <3>1. obj[t] \in DeferredType(Requests) /\ obj[t].heard["data"] = 0
      BY <1>0, <1>a, <2>4 DEF TypeOK, CachedUntold, Untold
    <3>2. "PUBLISH" \in BrokerError
      BY DEF BrokerError
    <3> HIDE DEF t
    <3> QED
      BY <3>1, <3>2, ReportErrorCounts, SettledKept
  <2> HIDE DEF t, d
  <2>6. OwnOperations'
    BY <1>0, <1>a, <2>1, <2>3, OwnDrained DEF OwnOperations
  <2>7. BrokenWhenTold'
    BY <1>a, <1>c, <2>1, <2>3, <2>4 DEF BrokenWhenTold, With
  <2>8. SettledConsumers'
    BY <1>a, <1>c, <2>3, <2>5 DEF SettledConsumers, With
  <2>9. DataXorError'
    BY <1>0, <1>a, <2>3, <2>5, XorStep
  <2> QED
    BY <1>0, <2>6, <2>7, <2>8, <2>9 DEF ErrorInv
<1>14. ASSUME NEW t, NEW d, obj' = With(t, d), fetchers' = fetchers \ {t},
              chan' = CloseChannel(t), UNCHANGED consuming,
              t \in Requests => d.heard["data"] = 0 \/ ~Told(d),
              \A c \in Requests : \A i \in 1..Len(pending'[c]) : pending'[c][i].req = c
       PROVE  ErrorInv'
  <2>1. OwnOperations'
    BY <1>14, <1>a DEF OwnOperations
  <2>2. BrokenWhenTold'
    BY <1>14, <1>a, <1>c DEF BrokenWhenTold, With, CloseChannel
  <2>3. SettledConsumers'
    BY <1>14, <1>a, <1>c DEF SettledConsumers, With
  <2>4. DataXorError'
    BY <1>0, <1>14, <1>a, XorStep
  <2> QED
    BY <1>0, <2>1, <2>2, <2>3, <2>4 DEF ErrorInv
<1>14a. ASSUME NEW r \in Requests, DeclareRefused(r) PROVE ErrorInv'
  <2> DEFINE t == Target(r)
             d == Destroy(report_error(obj[t], "QUEUE_DECLARATION"))
  <2>1. /\ obj' = With(t, d) /\ fetchers' = fetchers \ {t}
        /\ t # Nobody /\ chan[t] # "open"
        /\ UNCHANGED <<chan, pending, consuming>>
    BY <1>14a DEF DeclareRefused
  <2>2. chan' = CloseChannel(t)
    BY <1>0, <2>1 DEF CloseChannel, TypeOK
  <2>3. t \in Requests => d.heard["data"] = 0
    <3> SUFFICES ASSUME t \in Requests PROVE d.heard["data"] = 0
      OBVIOUS
    <3>1. obj[t] \in DeferredType(Requests) /\ obj[t].heard["data"] = 0
      BY <1>0, <1>a, <2>1, TargetFacts DEF TypeOK, CachedUntold, Untold
    <3>2. "QUEUE_DECLARATION" \in BrokerError
      BY DEF BrokerError
    <3> HIDE DEF t
    <3> QED
      BY <3>1, <3>2, ReportErrorType, ReportErrorCounts, DestroyCounts
  <2> HIDE DEF t, d
  <2>4. \A c \in Requests : \A i \in 1..Len(pending'[c]) : pending'[c][i].req = c
    BY <1>a, <2>1 DEF OwnOperations
  <2> QED
    BY <1>14, <2>1, <2>2, <2>3, <2>4
<1>15. ASSUME NEW o \in Requests, NEW op, NEW code \in BrokerError,
              Rejected(o, op), ReportAndErase(o, code)
       PROVE  ErrorInv'
  <2> DEFINE t == Target(Head(pending[o]).req)
             d == Destroy(report_error(obj[t], code))
  <2>1. /\ pending[o] # <<>>
        /\ pending' = Answered(o, Nobody, <<>>)
        /\ obj' = With(t, d) /\ fetchers' = fetchers \ {t} /\ chan' = CloseChannel(t)
        /\ UNCHANGED consuming
    BY <1>15 DEF ReportAndErase, Rejected
  <2>2. t # Nobody => t \in fetchers
    BY <1>0, <2>1, HeadOperation, TargetFacts DEF Operation
  <2>3. t \in Requests => d.heard["data"] = 0
    <3> SUFFICES ASSUME t \in Requests PROVE d.heard["data"] = 0
      OBVIOUS
    <3>1. obj[t] \in DeferredType(Requests) /\ obj[t].heard["data"] = 0
      BY <1>0, <1>a, <2>2 DEF TypeOK, CachedUntold, Untold
    <3> HIDE DEF t
    <3>2. /\ report_error(obj[t], code) \in DeferredType(Requests)
          /\ report_error(obj[t], code).heard["data"] = 0
      BY <1>15, <3>1, ReportErrorType, ReportErrorCounts
    <3> QED
      BY <3>2, DestroyCounts
  <2> HIDE DEF t, d
  <2> QED
    BY <1>0, <1>14, <1>a, <2>1, <2>3, OwnDrained
<1>16. ASSUME NEW o \in Requests, DeclareError(o) \/ ConsumeError(o) PROVE ErrorInv'
  BY <1>15, <1>16 DEF DeclareError, ConsumeError, BrokerError
<1>17. ASSUME NEW o \in Requests, NEW r \in Requests, NEW decodes \in BOOLEAN,
              Receive(o, r, decodes)
       PROVE  ErrorInv'
  <2> DEFINE t == Target(r)
             d == Destroy(Reported(obj[t], decodes))
  <2>1. /\ r \in consuming[o] /\ chan[o] \in {"open", "closing"}
        /\ obj' = With(t, d) /\ fetchers' = fetchers \ {t} /\ chan' = CloseChannel(t)
        /\ UNCHANGED <<pending, consuming>>
    BY <1>17 DEF Receive, Arrives
  <2>2. r = o
    BY <1>a, <2>1 DEF OwnOperations
  <2>3. t \in {o, Nobody} /\ (t # Nobody => t \in fetchers)
    BY <1>0, <1>b, <2>2, OwnTarget, TargetFacts
  <2>4. t \in Requests => d.heard["data"] = 0 \/ ~Told(d)
    <3> SUFFICES ASSUME t \in Requests PROVE d.heard["data"] = 0 \/ ~Told(d)
      OBVIOUS
    <3>1. /\ obj[t] \in DeferredType(Requests) /\ obj[t].heard["data"] = 0
          /\ t = o /\ t \in fetchers
      BY <1>0, <1>a, <2>3 DEF TypeOK, CachedUntold, Untold
    <3>2. ~Told(obj[t])
      BY <1>a, <2>1, <3>1 DEF BrokenWhenTold
    <3> HIDE DEF t
    <3> QED
      BY <3>1, <3>2, ReportedXor
  <2>5. \A c \in Requests : \A i \in 1..Len(pending'[c]) : pending'[c][i].req = c
    BY <1>a, <2>1 DEF OwnOperations
  <2> HIDE DEF t, d
  <2> QED
    BY <1>14, <2>1, <2>4, <2>5
<1> QED
  BY <1>2, <1>3, <1>4, <1>5, <1>6, <1>7, <1>8, <1>9, <1>10, <1>11, <1>12, <1>13,
     <1>14a, <1>16, <1>17 DEF Next, CallerStep, LoopStep

LEMMA InitError == Init => ErrorInv
<1> SUFFICES ASSUME Init PROVE ErrorInv
  OBVIOUS
<1>1. ReplyInv /\ AnswerInv
  BY InitReply, InitAnswer
<1>2. OwnOperations
  BY EmptySeq DEF Init, OwnOperations
<1>3. BrokenWhenTold /\ SettledConsumers
  BY DEF Init, BrokenWhenTold, SettledConsumers
<1>4. DataXorError
  BY DEF Init, DataXorError, Unborn, Events
<1> QED
  BY <1>1, <1>2, <1>3, <1>4 DEF ErrorInv

(* When one thread makes every call of fetch, a fetch that is given data   *)
(* is told of no error, before or after: onReceived calls report_data even *)
(* after a body that does not decode, and a failed publish leaves the      *)
(* object in fetchers_, but neither path can lead to data.                 *)
THEOREM DataOrError ==
  ASSUME OneCallerThread
  PROVE  Spec => []DataXorError
<1>1. ErrorInv /\ [Next]_vars => ErrorInv'
  BY StepError
<1>2. ErrorInv => DataXorError
  BY DEF ErrorInv
<1> QED
  BY InitError, <1>1, <1>2, PTL DEF Spec

(* When one thread makes every call of fetch, report_data never reads the  *)
(* failed_ that no constructor has initialised: whatever can be delivered  *)
(* to a cached object comes after consume().onSuccess has assigned it.     *)
THEOREM FailedInitialised ==
  ASSUME OneCallerThread
  PROVE  Spec => []SettledBeforeRead
<1>1. ErrorInv /\ [Next]_vars => ErrorInv'
  BY StepError
<1> QED
  BY InitError, <1>1, SettledFollows, PTL DEF Spec

-----------------------------------------------------------------------------
(* When the reference fetch returns may be chained on                      *)

(* The loop runs only when every caller has chained its handlers, and the  *)
(* object of a call that is not over lives.                                *)
ChainInv ==
  /\ ReplyInv
  /\ running => \A r \in Requests : pc[r] = "done"
  /\ ~running => /\ lost = {}
                 /\ \A r \in Requests : pc[r] = "declare" => chan[r] = "open"
  /\ \A r \in Requests : pc[r] \in {"declare", "chain"} => obj[r].life = "live"
  /\ NoUseAfterFree

LEMMA InitChain == Init => ChainInv
<1>1. Init => ReplyInv
  BY InitReply
<1> QED
  BY <1>1 DEF Init, ChainInv, NoUseAfterFree

LEMMA StepChain == OneCallerThread /\ ~RunFirst /\ ChainInv /\ [Next]_vars => ChainInv'
<1> SUFFICES ASSUME OneCallerThread, ~RunFirst, ChainInv, [Next]_vars PROVE ChainInv'
  OBVIOUS
<1> USE FetchAssumption
<1>0. TypeOK /\ IdInv /\ CachedBegun /\ OwnReference /\ ReplyInv' /\ fault # "uaf"
  BY StepReply DEF ChainInv, ReplyInv, NoUseAfterFree
<1>1. ASSUME UNCHANGED <<running, pc, obj, lost, chan>>, fault' # "uaf" PROVE ChainInv'
  BY <1>0, <1>1 DEF ChainInv, NoUseAfterFree
(* A callback of the loop finds every call over.                           *)
<1>2. ASSUME running, UNCHANGED <<running, pc>>, fault' # "uaf" PROVE ChainInv'
  BY <1>0, <1>2 DEF ChainInv, NoUseAfterFree
<1>3. ASSUME NEW r \in Requests, ReadId(r) \/ WriteId(r) PROVE ChainInv'
  <2>1. /\ pc[r] \in {"idle", "incr"}
        /\ \E q \in {"incr", "set"} : pc' = [pc EXCEPT ![r] = q]
        /\ UNCHANGED <<running, obj, fault, lost, chan>>
    BY <1>3 DEF ReadId, WriteId
  <2>2. ~running
    BY <2>1 DEF ChainInv
  <2> QED
    BY <1>0, <2>1, <2>2 DEF ChainInv, NoUseAfterFree, TypeOK
<1>4. ASSUME NEW r \in Requests, SetFetcher(r) PROVE ChainInv'
  <2>1. /\ pc[r] = "set" /\ pc' = [pc EXCEPT ![r] = "declare"]
        /\ \E garbage \in BOOLEAN :
             obj' = [With(Target(r), Destroy(obj[Target(r)])) EXCEPT ![r] = Construct(garbage)]
        /\ chan' = [CloseChannel(Target(r)) EXCEPT ![r] = NewChannel(Caller[r])]
        /\ UNCHANGED <<running, fault, lost>>
    BY <1>4 DEF SetFetcher
  <2>2. ~running /\ r \notin fetchers
    BY <1>0, <2>1 DEF ChainInv, CachedBegun
  <2>3. Target(r) \in {r, Nobody}
    BY <1>0, OwnTarget
  <2>4. \A q \in Requests \ {r} : obj'[q] = obj[q] /\ pc'[q] = pc[q]
    BY <1>0, <2>1, <2>3 DEF With, TypeOK
  <2>4a. /\ \A q \in Requests \ {r} : chan'[q] = chan[q]
         /\ chan'[r] = "open"
    BY <1>0, <2>1, <2>2, <2>3 DEF CloseChannel, NewChannel, TypeOK, ChainInv
  <2>5. obj'[r].life = "live"
    <3>1. \A g \in BOOLEAN : Construct(g).life = "live"
      BY DEF Construct, Unborn
    <3> QED
      BY <2>1, <3>1 DEF With
  <2> QED
    BY <1>0, <2>1, <2>2, <2>4, <2>4a, <2>5 DEF ChainInv, NoUseAfterFree
<1>5. ASSUME NEW r \in Requests, DeclareQueue(r) PROVE ChainInv'
  <2>1. /\ pc[r] = "declare" /\ pc' \in {pc, [pc EXCEPT ![r] = "chain"]}
        /\ fault' # "uaf"
        /\ UNCHANGED <<running, obj, lost, chan>>
    BY <1>0, <1>5 DEF DeclareQueue
  <2>2. ~running
    BY <2>1 DEF ChainInv
  <2> QED
    BY <1>0, <2>1, <2>2 DEF ChainInv, NoUseAfterFree, TypeOK
<1>5a. ASSUME NEW r \in Requests, DeclareRefused(r) PROVE FALSE
  <2>1. pc[r] = "declare" /\ chan[Target(r)] # "open"
    BY <1>5a DEF DeclareRefused
  <2>2. ~running /\ Target(r) = r
    BY <1>0, <2>1, OwnTarget DEF ChainInv, CachedBegun
  <2> QED
    BY <2>1, <2>2 DEF ChainInv
<1>6. ASSUME NEW r \in Requests, NEW h \in Chain, ChainHandler(r, h) PROVE ChainInv'
  <2>1. /\ pc[r] = "chain" /\ ref[r] = r
        /\ \E q \in {"chain", "done"} : pc' = [pc EXCEPT ![r] = q]
        /\ UNCHANGED <<running, lost, chan>>
    BY <1>0, <1>6 DEF ChainHandler, OwnReference, Returned
  <2>2. ~running /\ obj[r].life = "live"
    BY <2>1 DEF ChainInv
  <2>3. obj' = With(r, SetHandler(obj[r], h, r)) /\ fault' = fault
    BY <1>6, <2>1, <2>2 DEF ChainHandler
  <2>4. SetHandler(obj[r], h, r).life = "live"
    BY <1>0, <2>2 DEF SetHandler, TypeOK, DeferredType
  <2>5. \A q \in Requests : obj[q].life = "live" => obj'[q].life = "live"
    BY <2>3, <2>4 DEF With
  <2> QED
    BY <1>0, <2>1, <2>2, <2>3, <2>5 DEF ChainInv, NoUseAfterFree, TypeOK
<1>7. ASSUME Run PROVE ChainInv'
  BY <1>0, <1>7 DEF Run, ChainInv, NoUseAfterFree
<1>8. ASSUME NEW o \in Requests, LoopStep(o) PROVE ChainInv'
  <2>1. running /\ UNCHANGED <<running, pc, fault>>
    BY <1>8 DEF LoopStep, DeclareOk, CommitOk, ConsumeOk, DeclareError, CommitError,
                ConsumeError, ChannelClosed, Accepted, Rejected
  <2> QED
    BY <1>0, <1>2, <2>1
<1>9. ASSUME NEW o \in Requests, NEW r \in Requests,
             ReceiveThrows(o, r) \/ \E decodes \in BOOLEAN : Receive(o, r, decodes)
      PROVE  ChainInv'
  <2>1. running /\ UNCHANGED <<running, pc>> /\ fault' # "uaf"
    BY <1>0, <1>9 DEF Receive, ReceiveThrows, Arrives
  <2> QED
    BY <1>2, <2>1
<1>10. ASSUME \/ \E o \in Requests : ChannelError(o)
              \/ \E t \in Threads : ConnectionLost(t)
       PROVE  ChainInv'
  BY <1>0, <1>2, <1>10 DEF ChannelError, ConnectionLost
<1>11. CASE UNCHANGED vars
  BY <1>0, <1>1, <1>11 DEF vars
<1> QED
  BY <1>3, <1>4, <1>5, <1>5a, <1>6, <1>7, <1>8, <1>9, <1>10, <1>11 DEF Next, CallerStep

(* Where one thread makes the calls and runs the broker after them, the    *)
(* reference fetch returns is alive as long as handlers are chained on it, *)
(* however many calls it makes; the run fetch_chain shows that it is not   *)
(* when the loop runs already.                                             *)
THEOREM ReferenceAlive ==
  ASSUME OneCallerThread, ~RunFirst
  PROVE  Spec => []NoUseAfterFree
<1>1. ChainInv /\ [Next]_vars => ChainInv'
  BY StepChain
<1>2. ChainInv => NoUseAfterFree
  BY DEF ChainInv
<1> QED
  BY InitChain, <1>1, <1>2, PTL DEF Spec
=============================================================================
