------------------------------ MODULE Deferred ------------------------------
(***************************************************************************)
(* The handler object that Broker::fetch and Broker::listen hand back      *)
(* (include/capy/amqp_deferred.h).  A Deferred is a record and each of its *)
(* member functions an operator from the record before to the record after *)
(* the call, so that the broker's callbacks compose them the way they call *)
(* the members one after the other.                                        *)
(*                                                                         *)
(* failed_ has no initialiser: a new object holds an arbitrary value, and  *)
(* `settled' remembers whether a report has assigned it since.  error_ is  *)
(* set and cleared inside one report_error, so it is OK whenever a member  *)
(* is entered and the destructor's own error report never fires; it needs  *)
(* no field.  `heard' counts the calls of the user's handlers.             *)
(***************************************************************************)
EXTENDS Naturals

CONSTANT Nobody   \* the owner of a handler that is not set, the null pointer

Handlers == {"data", "success", "error", "finalize"}

(* The BrokerError codes the broker reports; all of them differ from OK.   *)
BrokerError == {"CONNECTION", "CONNECTION_LOST", "CHANNEL_MESSAGE", "PUBLISH",
                "QUEUE_DECLARATION", "QUEUE_BINDING", "QUEUE_CONSUMING",
                "DATA_RESPONSE"}

(* What a user's handlers can be told.                                     *)
Events == {"data", "success", "finalize"} \cup BrokerError

DeferredType(Users) ==
  [life    : {"unborn", "live", "freed"},
   failed  : BOOLEAN,
   settled : BOOLEAN,
   on      : [Handlers -> Users \cup {Nobody}],
   heard   : [Events -> Nat]]

NoHandlers == [h \in Handlers |-> Nobody]

(* Storage no Deferred has been constructed in yet.                        *)
Unborn ==
  [life |-> "unborn", failed |-> FALSE, settled |-> FALSE,
   on |-> NoHandlers, heard |-> [e \in Events |-> 0]]

(* The constructor; `garbage' is what the storage of failed_ holds.        *)
Construct(garbage) == [Unborn EXCEPT !.life = "live", !.failed = garbage]

Invoke(d, h, e) ==
  IF d.on[h] = Nobody THEN d ELSE [d EXCEPT !.heard[e] = @ + 1]

(* operator bool                                                           *)
Good(d) == ~d.failed

(* Mutant of report_data: the test of *this is dropped.                    *)
ReportDataUnchecked(d) == Invoke(d, "data", "data")

report_data(d) == IF Good(d) THEN Invoke(d, "data", "data") ELSE d

(* Mutant of report_success: failed_ is not assigned.                      *)
ReportSuccessUnassigned(d) == Invoke(d, "success", "success")

report_success(d) ==
  Invoke([d EXCEPT !.failed = FALSE, !.settled = TRUE], "success", "success")

report_error(d, code) ==
  Invoke([d EXCEPT !.failed = TRUE, !.settled = TRUE], "error", code)

(* on_data, on_success, on_error and on_finalize, called by user u.        *)
SetHandler(d, h, u) == [d EXCEPT !.on[h] = u]

(* The destructor: the finalizer runs, then every handler is reset.        *)
Destroy(d) ==
  [Invoke(d, "finalize", "finalize") EXCEPT !.life = "freed", !.on = NoHandlers]
=============================================================================
