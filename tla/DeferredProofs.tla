--------------------------- MODULE DeferredProofs ---------------------------
(* Lemmas about the member functions of Deferred, for any set of users.    *)
EXTENDS Deferred, TLAPS

-----------------------------------------------------------------------------
(* Every member function makes a Deferred of a Deferred.                   *)

LEMMA UnbornType == \A U : Unborn \in DeferredType(U)
BY DEF Unborn, DeferredType, NoHandlers, Handlers, Events, BrokerError

LEMMA ConstructType ==
  ASSUME NEW U, NEW garbage \in BOOLEAN
  PROVE  Construct(garbage) \in DeferredType(U)
BY UnbornType DEF Construct, DeferredType, Unborn

LEMMA InvokeType ==
  ASSUME NEW U, NEW d \in DeferredType(U), NEW h \in Handlers, NEW e \in Events
  PROVE  Invoke(d, h, e) \in DeferredType(U)
BY DEF Invoke, DeferredType

LEMMA ReportErrorType ==
  ASSUME NEW U, NEW d \in DeferredType(U), NEW code \in BrokerError
  PROVE  report_error(d, code) \in DeferredType(U)
<1> DEFINE dd == [d EXCEPT !.failed = TRUE, !.settled = TRUE]
<1>1. dd \in DeferredType(U)
  BY DEF DeferredType
<1>2. "error" \in Handlers /\ code \in Events
  BY DEF Handlers, Events
<1> QED
  BY <1>1, <1>2, InvokeType DEF report_error

LEMMA ReportSuccessType ==
  ASSUME NEW U, NEW d \in DeferredType(U)
  PROVE  report_success(d) \in DeferredType(U)
<1> DEFINE dd == [d EXCEPT !.failed = FALSE, !.settled = TRUE]
<1>1. dd \in DeferredType(U)
  BY DEF DeferredType
<1>2. "success" \in Handlers /\ "success" \in Events
  BY DEF Handlers, Events
<1> QED
  BY <1>1, <1>2, InvokeType DEF report_success

LEMMA SetHandlerType ==
  ASSUME NEW U, NEW d \in DeferredType(U), NEW h \in Handlers, NEW u \in U
  PROVE  SetHandler(d, h, u) \in DeferredType(U)
BY DEF SetHandler, DeferredType

LEMMA DestroyType ==
  ASSUME NEW U, NEW d \in DeferredType(U)
  PROVE  Destroy(d) \in DeferredType(U)
<1>1. "finalize" \in Handlers /\ "finalize" \in Events
  BY DEF Handlers, Events
<1>2. Invoke(d, "finalize", "finalize") \in DeferredType(U)
  BY <1>1, InvokeType
<1> QED
  BY <1>2 DEF Destroy, DeferredType, NoHandlers

-----------------------------------------------------------------------------
(* What a member function tells the user.                                  *)

LEMMA ReportErrorCounts ==
  ASSUME NEW U, NEW d \in DeferredType(U), NEW code \in BrokerError
  PROVE  /\ report_error(d, code).heard["data"] = d.heard["data"]
         /\ report_error(d, code).heard["finalize"] = d.heard["finalize"]
BY DEF report_error, Invoke, DeferredType, Events, BrokerError

LEMMA ReportSuccessCounts ==
  ASSUME NEW U, NEW d \in DeferredType(U)
  PROVE  /\ report_success(d).heard["data"] = d.heard["data"]
         /\ report_success(d).heard["finalize"] = d.heard["finalize"]
BY DEF report_success, Invoke, DeferredType, Events, BrokerError

LEMMA DestroyCounts ==
  ASSUME NEW U, NEW d \in DeferredType(U)
  PROVE  /\ Destroy(d).heard["data"] = d.heard["data"]
         /\ d.heard["finalize"] = 0 => Destroy(d).heard["finalize"] <= 1
BY DEF Destroy, Invoke, DeferredType, Events, BrokerError

LEMMA SetHandlerCounts ==
  ASSUME NEW U, NEW d \in DeferredType(U), NEW h \in Handlers, NEW u \in U
  PROVE  SetHandler(d, h, u).heard = d.heard
BY DEF SetHandler, DeferredType

LEMMA InvokeCounts ==
  ASSUME NEW U, NEW d \in DeferredType(U), NEW h \in Handlers, NEW e \in Events,
         NEW f \in Events, f # e
  PROVE  Invoke(d, h, e).heard[f] = d.heard[f]
BY DEF Invoke, DeferredType

(* A report of success, the destructor and a handler being set tell nobody *)
(* of an error; a report of an error tells nobody of data.                 *)
LEMMA ErrorCounts ==
  ASSUME NEW U, NEW d \in DeferredType(U), NEW e \in BrokerError
  PROVE  /\ report_success(d).heard[e] = d.heard[e]
         /\ report_data(d).heard[e] = d.heard[e]
         /\ Destroy(d).heard[e] = d.heard[e]
<1>1. e \in Events /\ e \notin {"data", "success", "finalize"}
  BY DEF Events, BrokerError
<1>2. {"data", "success", "finalize"} \subseteq Handlers \cap Events
  BY DEF Handlers, Events
<1>3. report_success(d).heard[e] = d.heard[e]
  <2> DEFINE dd == [d EXCEPT !.failed = FALSE, !.settled = TRUE]
  <2>1. dd \in DeferredType(U) /\ dd.heard = d.heard
    BY DEF DeferredType
  <2>2. report_success(d) = Invoke(dd, "success", "success")
    BY DEF report_success
  <2> HIDE DEF dd
  <2> QED
    BY <1>1, <1>2, <2>1, <2>2, InvokeCounts
<1>4. report_data(d).heard[e] = d.heard[e]
  BY <1>1, <1>2, InvokeCounts DEF report_data
<1>5. Destroy(d).heard[e] = d.heard[e]
  <2> DEFINE dd == Invoke(d, "finalize", "finalize")
  <2>1. dd \in DeferredType(U) /\ dd.heard[e] = d.heard[e]
    BY <1>1, <1>2, InvokeType, InvokeCounts
  <2>2. Destroy(d) = [dd EXCEPT !.life = "freed", !.on = NoHandlers]
    BY DEF Destroy
  <2> HIDE DEF dd
  <2>3. Destroy(d).heard = dd.heard
    BY <2>1, <2>2 DEF DeferredType
  <2> QED
    BY <2>1, <2>3
<1> QED
  BY <1>3, <1>4, <1>5

(* Every report settles failed_, and nothing unsettles it.                 *)
LEMMA SettledKept ==
  ASSUME NEW U, NEW d \in DeferredType(U)
  PROVE  /\ report_success(d).settled = TRUE
         /\ \A code \in BrokerError : report_error(d, code).settled = TRUE
         /\ \A h \in Handlers : \A u \in U : SetHandler(d, h, u).settled = d.settled
BY DEF report_success, report_error, SetHandler, Invoke, DeferredType

(* Reports and the destructor install no handler.                          *)
LEMMA ReportErrorOn ==
  ASSUME NEW U, NEW d \in DeferredType(U), NEW code
  PROVE  report_error(d, code).on = d.on
BY DEF report_error, Invoke, DeferredType

LEMMA ReportSuccessOn ==
  ASSUME NEW U, NEW d \in DeferredType(U)
  PROVE  report_success(d).on = d.on
BY DEF report_success, Invoke, DeferredType

LEMMA DestroyOn ==
  ASSUME NEW U, NEW d \in DeferredType(U), NEW h \in Handlers
  PROVE  Destroy(d).on[h] = Nobody
<1> DEFINE dd == Invoke(d, "finalize", "finalize")
<1>1. dd \in DeferredType(U)
  BY InvokeType DEF Handlers, Events
<1>2. Destroy(d) = [dd EXCEPT !.life = "freed", !.on = NoHandlers]
  BY DEF Destroy
<1> HIDE DEF dd
<1>3. Destroy(d).on = NoHandlers
  BY <1>1, <1>2 DEF DeferredType
<1> QED
  BY <1>3 DEF NoHandlers

-----------------------------------------------------------------------------
(* What the reports and the destructor do to a living object.              *)

LEMMA ReportErrorFacts ==
  ASSUME NEW U, NEW d \in DeferredType(U), NEW code \in BrokerError
  PROVE  LET e == report_error(d, code)
         IN  /\ e.life = d.life
             /\ e.on = d.on
             /\ \A f \in BrokerError : e.heard[f] >= d.heard[f]
             /\ d.on["error"] # Nobody => e.heard[code] > 0
<1> DEFINE dd == [d EXCEPT !.failed = TRUE, !.settled = TRUE]
<1>1. dd \in DeferredType(U) /\ dd.life = d.life /\ dd.on = d.on /\ dd.heard = d.heard
  BY DEF DeferredType
<1>2. report_error(d, code) = Invoke(dd, "error", code)
  BY DEF report_error
<1>3. BrokerError \subseteq Events
  BY DEF Events
<1> HIDE DEF dd
<1> QED
  BY <1>1, <1>2, <1>3 DEF Invoke, DeferredType

LEMMA ReportSuccessFacts ==
  ASSUME NEW U, NEW d \in DeferredType(U)
  PROVE  /\ report_success(d).life = d.life
         /\ report_success(d).failed = FALSE
BY DEF report_success, Invoke, DeferredType

LEMMA ReportDataFacts ==
  ASSUME NEW U, NEW d \in DeferredType(U)
  PROVE  /\ report_data(d).life = d.life
         /\ report_data(d).on = d.on
         /\ report_data(d).failed = d.failed
BY DEF report_data, Invoke, DeferredType

LEMMA ReportDataType ==
  ASSUME NEW U, NEW d \in DeferredType(U)
  PROVE  report_data(d) \in DeferredType(U)
<1>1. "data" \in Handlers /\ "data" \in Events
  BY DEF Handlers, Events
<1> QED
  BY <1>1, InvokeType DEF report_data

LEMMA DestroyFacts ==
  ASSUME NEW U, NEW d \in DeferredType(U)
  PROVE  Destroy(d).life = "freed"
<1> DEFINE dd == Invoke(d, "finalize", "finalize")
<1>1. dd \in DeferredType(U)
  BY InvokeType DEF Handlers, Events
<1>2. Destroy(d) = [dd EXCEPT !.life = "freed", !.on = NoHandlers]
  BY DEF Destroy
<1> HIDE DEF dd
<1> QED
  BY <1>1, <1>2 DEF DeferredType

LEMMA SetHandlerFacts ==
  ASSUME NEW U, NEW d \in DeferredType(U), NEW h \in Handlers, NEW u \in U
  PROVE  /\ SetHandler(d, h, u).life = d.life
         /\ SetHandler(d, h, u).on = [d.on EXCEPT ![h] = u]
         /\ SetHandler(d, h, u).failed = d.failed
BY DEF SetHandler, DeferredType

LEMMA ConstructFacts ==
  ASSUME NEW garbage \in BOOLEAN
  PROVE  Construct(garbage).life = "live"
BY DEF Construct, Unborn
=============================================================================
