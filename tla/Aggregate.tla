----------------------------- MODULE Aggregate -----------------------------
(***************************************************************************)
(* Aggregates: AggregateRoute.ServeHTTP around the handler that the        *)
(* comment of Aggregate and the cookbook of the README prescribe.  The     *)
(* handler starts one goroutine per gRPC call in an errgroup, waits for    *)
(* all of them and assembles their results, or returns the error of the    *)
(* group.  A failing call cancels the context of the group, which is the   *)
(* context the other calls were given; an optional call swallows its       *)
(* error and leaves its destination nil.                                   *)
(*                                                                         *)
(* The interleaving is that of the goroutines: a call returns, then its    *)
(* closure hands the error to the group, and any other call may return or  *)
(* be cancelled in between.  The package-level settings are those of       *)
(* module Route; here they have the value startup left them with.          *)
(***************************************************************************)
EXTENDS Responses

CONSTANTS
  Requests,       \* slots for requests in flight; a slot is used again
  Calls,          \* the gRPC calls the handler makes
  Optional,       \* those whose failure it swallows
  Failures,       \* how a call may fail by itself
  Canceled,       \* how it fails once its context is cancelled
  Results,        \* what the handler may assemble: see Success
  Settings,       \* the package-level settings startup may leave behind
  StatusChoices, MapperChoices, OptionChoices   \* arguments of the options

ASSUME AggregateAssumption ==
  /\ Optional \subseteq Calls
  /\ Failures \subseteq Failure /\ Canceled \in Failure /\ Canceled \notin Failures
  /\ None \notin Failures /\ Canceled # None
  /\ None \notin [ok : {FALSE}, err : Failures \cup {Canceled}]
  /\ None \notin [ok : {TRUE}, value : Results, of : SUBSET Calls]
  /\ None \notin [ok : {TRUE}, of : SUBSET Calls]
  /\ Results \subseteq Success
  /\ Settings \subseteq [errorMapper : Mappers, marshal : Options]
  /\ StatusChoices \subseteq Int /\ OptionChoices \subseteq Options
  /\ MapperChoices \subseteq Mappers \cup {"nil"}

VARIABLES
  phase,     \* "boot" or "serving"
  defaults,  \* defaultErrorMapper and defaultMarshalOptions
  route,     \* the fields of AggregateRoute that its options assign
  pc,        \* [Requests -> where its handler goroutine is]
  call,      \* [Requests -> [Calls -> where the goroutine of the call is]]
  err,       \* [Requests -> [Calls -> the local err of its closure, or None]]
  dest,      \* [Requests -> the calls whose destination variable is set]
  groupErr,  \* [Requests -> the err of the errgroup, or None]
  body,      \* [Requests -> what the handler returned: see Returned]
  mapper,    \* [Requests -> the error mapper in charge, or "nil"]
  response,  \* [Requests -> the response written, or None]
  gone       \* [Requests -> the client went away]

config == <<phase, defaults, route>>
group  == <<call, err, dest, groupErr>>
vars   == <<phase, defaults, route, pc, call, err, dest, groupErr, body, mapper, response, gone>>

RouteFields == [successStatus : Int, errorMapper : Mappers \cup {"nil"},
                marshal : Options \cup {None}]

\* What fn returned: an error, or a value made of the results of some calls.
Returned == [ok : {FALSE}, err : Failures \cup {Canceled}]
            \cup [ok : {TRUE}, value : Results, of : SUBSET Calls]

Active  == {"waiting", "mapping", "responding"}
Settled == {"done", "aborted"}

Init ==
  /\ phase = "boot"
  /\ defaults \in Settings
  /\ route = [successStatus |-> 200, errorMapper |-> "nil", marshal |-> None]
  /\ pc = [q \in Requests |-> "idle"]
  /\ call = [q \in Requests |-> [c \in Calls |-> "none"]]
  /\ err = [q \in Requests |-> [c \in Calls |-> None]]
  /\ dest = [q \in Requests |-> {}]
  /\ groupErr = [q \in Requests |-> None]
  /\ body = [q \in Requests |-> None]
  /\ mapper = [q \in Requests |-> "nil"]
  /\ response = [q \in Requests |-> None]
  /\ gone = [q \in Requests |-> FALSE]

-----------------------------------------------------------------------------
(* Startup: the options of the aggregate.                                  *)

Booting == phase = "boot" /\ UNCHANGED <<phase, defaults, pc, group, body, mapper, response, gone>>

OnSuccess(status)     == Booting /\ route' = [route EXCEPT !.successStatus = status]
WithErrorMapper(fn)   == Booting /\ route' = [route EXCEPT !.errorMapper = fn]
WithMarshalOptions(o) == Booting /\ route' = [route EXCEPT !.marshal = o]

Serve ==
  /\ phase = "boot"
  /\ phase' = "serving"
  /\ UNCHANGED <<defaults, route, pc, group, body, mapper, response, gone>>

Boot ==
  \/ \E status \in StatusChoices : OnSuccess(status)
  \/ \E fn \in MapperChoices : WithErrorMapper(fn)
  \/ \E o \in OptionChoices : WithMarshalOptions(o)
  \/ Serve

-----------------------------------------------------------------------------
(* The handler's goroutines                                                *)

Goto(q, label)       == pc' = [pc EXCEPT ![q] = label]
CallGoto(q, c, label) == call' = [call EXCEPT ![q][c] = label]

\* fn is called: a new group, one goroutine per call, nothing set yet.
Arrive(q) ==
  /\ phase = "serving" /\ pc[q] = "idle"
  /\ Goto(q, "waiting")
  /\ call' = [call EXCEPT ![q] = [c \in Calls |-> "running"]]
  /\ UNCHANGED <<config, err, dest, groupErr, body, mapper, response, gone>>

Succeed(q, c) ==
  /\ call[q][c] = "running"
  /\ CallGoto(q, c, "done")
  /\ dest' = [dest EXCEPT ![q] = @ \cup {c}]
  /\ UNCHANGED <<config, pc, err, groupErr, body, mapper, response, gone>>

\* A plausible variant: the calls are given ctx, the context of the request.
ctxDone(q) == gone[q]

\* gctx, the context of the group, is cancelled with ctx or by a failed call.
gctxDone(q) == gone[q] \/ groupErr[q] # None

\* A plausible variant, a pitfall of the cookbook: the closure of an optional
\* call returns its error.
FailOptional(q, c, o) ==
  /\ call[q][c] = "running"
  /\ o \in Failures \/ (gctxDone(q) /\ o = Canceled)
  /\ CallGoto(q, c, "failing") /\ err' = [err EXCEPT ![q][c] = o]
  /\ UNCHANGED <<config, pc, dest, groupErr, body, mapper, response, gone>>

Fail(q, c, o) ==
  /\ call[q][c] = "running"
  /\ o \in Failures \/ (gctxDone(q) /\ o = Canceled)
  /\ IF c \in Optional
     THEN CallGoto(q, c, "done") /\ UNCHANGED err
     ELSE CallGoto(q, c, "failing") /\ err' = [err EXCEPT ![q][c] = o]
  /\ UNCHANGED <<config, pc, dest, groupErr, body, mapper, response, gone>>

\* A plausible variant: the group keeps the last error.
RecordLast(q, c) ==
  /\ call[q][c] = "failing"
  /\ CallGoto(q, c, "done")
  /\ groupErr' = [groupErr EXCEPT ![q] = err[q][c]]
  /\ UNCHANGED <<config, pc, err, dest, body, mapper, response, gone>>

\* errOnce: the first error is kept, and cancels the context of the group.
Record(q, c) ==
  /\ call[q][c] = "failing"
  /\ CallGoto(q, c, "done")
  /\ groupErr' = [groupErr EXCEPT ![q] = IF @ = None THEN err[q][c] ELSE @]
  /\ UNCHANGED <<config, pc, err, dest, body, mapper, response, gone>>

\* A plausible variant: the error is there before the group has finished.
JoinedOrFailed(q) == groupErr[q] # None \/ \A c \in Calls : call[q][c] = "done"

Joined(q) == \A c \in Calls : call[q][c] = "done"

\* A plausible variant, a pitfall of the cookbook: the error of g.Wait is
\* not looked at.
WaitUnchecked(q) ==
  /\ pc[q] = "waiting" /\ Joined(q)
  /\ \E value \in Results :
       body' = [body EXCEPT ![q] = [ok |-> TRUE, value |-> value, of |-> dest[q]]]
  /\ Goto(q, "responding")
  /\ UNCHANGED <<config, group, mapper, response, gone>>

\* g.Wait returns, and with it fn.
Wait(q) ==
  /\ pc[q] = "waiting" /\ Joined(q)
  /\ IF groupErr[q] # None
     THEN /\ body' = [body EXCEPT ![q] = [ok |-> FALSE, err |-> groupErr[q]]]
          /\ mapper' = [mapper EXCEPT ![q] = IF route.errorMapper = "nil"
                                             THEN "DefaultErrorMapper"
                                             ELSE route.errorMapper]
          /\ Goto(q, "mapping")
     ELSE /\ \E value \in Results :
               body' = [body EXCEPT ![q] = [ok |-> TRUE, value |-> value, of |-> dest[q]]]
          /\ Goto(q, "responding")
          /\ UNCHANGED mapper
  /\ UNCHANGED <<config, group, response, gone>>

-----------------------------------------------------------------------------
(* AggregateRoute.ServeHTTP                                                *)

Write(q, resp) ==
  IF ValidStatus(resp.status)
  THEN Goto(q, "done") /\ response' = [response EXCEPT ![q] = OnWire(resp)]
  ELSE Goto(q, "aborted") /\ UNCHANGED response

Descend(q) ==
  /\ pc[q] = "mapping" /\ ~Answers(mapper[q], body[q].err)
  /\ mapper' = [mapper EXCEPT ![q] = Delegate(@, body[q].err, defaults.errorMapper)]
  /\ UNCHANGED <<config, pc, group, body, response, gone>>

WriteError(q) ==
  /\ pc[q] = "mapping" /\ Answers(mapper[q], body[q].err)
  /\ Write(q, writeError(Mapped(mapper[q], body[q].err)))
  /\ UNCHANGED <<config, group, body, mapper, gone>>

\* A plausible variant that forgets the options of the aggregate.
defaultMarshalOptions == defaults.marshal

marshalOptions == IF route.marshal # None THEN route.marshal ELSE defaults.marshal

WriteSuccess(q) ==
  /\ pc[q] = "responding"
  /\ Write(q, writeResponse(route.successStatus, body[q].value.marshals,
                            body[q].value.encodes, marshalOptions))
  /\ UNCHANGED <<config, group, body, mapper, gone>>

Disconnect(q) ==
  /\ pc[q] \in Active /\ ~gone[q]
  /\ gone' = [gone EXCEPT ![q] = TRUE]
  /\ UNCHANGED <<config, pc, group, body, mapper, response>>

\* ServeHTTP has returned: the slot is free.
Finish(q) ==
  /\ pc[q] \in Settled
  /\ Goto(q, "idle")
  /\ call' = [call EXCEPT ![q] = [c \in Calls |-> "none"]]
  /\ err' = [err EXCEPT ![q] = [c \in Calls |-> None]]
  /\ dest' = [dest EXCEPT ![q] = {}]
  /\ groupErr' = [groupErr EXCEPT ![q] = None]
  /\ body' = [body EXCEPT ![q] = None]
  /\ mapper' = [mapper EXCEPT ![q] = "nil"]
  /\ response' = [response EXCEPT ![q] = None]
  /\ gone' = [gone EXCEPT ![q] = FALSE]
  /\ UNCHANGED config

Handler(q) == Wait(q) \/ Descend(q) \/ WriteError(q) \/ WriteSuccess(q)

Next ==
  \/ Boot
  \/ \E q \in Requests :
       \/ Arrive(q)
       \/ \E c \in Calls :
            \/ Succeed(q, c)
            \/ \E o \in Failures \cup {Canceled} : Fail(q, c, o)
            \/ Record(q, c)
       \/ Handler(q)
       \/ Disconnect(q)
       \/ Finish(q)

Spec == Init /\ [][Next]_vars

\* Goroutines keep running.  A call owes an answer only once its context is
\* cancelled: nothing else bounds it.
Fairness ==
  \A q \in Requests :
    /\ WF_vars(Handler(q))
    /\ \A c \in Calls :
         /\ WF_vars(Record(q, c))
         /\ WF_vars(gctxDone(q) /\ (Succeed(q, c) \/
                      \E o \in Failures \cup {Canceled} : Fail(q, c, o)))

FairSpec == Spec /\ Fairness

-----------------------------------------------------------------------------
(* Properties                                                              *)

Mandatory == Calls \ Optional

\* Every variable has its type.
TypeOK ==
  /\ phase \in {"boot", "serving"}
  /\ defaults \in Settings
  /\ route \in RouteFields
  /\ pc \in [Requests -> Active \cup Settled \cup {"idle"}]
  /\ call \in [Requests -> [Calls -> {"none", "running", "failing", "done"}]]
  /\ err \in [Requests -> [Calls -> Failures \cup {Canceled, None}]]
  /\ dest \in [Requests -> SUBSET Calls]
  /\ groupErr \in [Requests -> Failures \cup {Canceled, None}]
  /\ body \in [Requests -> Returned \cup {None}]
  /\ mapper \in [Requests -> Mappers \cup {"nil"}]
  /\ response \in [Requests -> HTTPResponse \cup {None}]
  /\ gone \in [Requests -> BOOLEAN]

\* No partial aggregate: a value the handler returns contains the result of
\* every mandatory call, and only an optional call may be missing.
NothingMissing ==
  \A q \in Requests : body[q] # None /\ body[q].ok => Mandatory \subseteq body[q].of

\* The client is told of a failure, never of its consequence: the error the
\* handler returns is a cancellation only if the client itself went away,
\* although a failing call cancels all the others.
NoCollateral ==
  \A q \in Requests : body[q] # None /\ ~body[q].ok =>
    \/ body[q].err \in Failures
    \/ gone[q]

\* ServeHTTP leaves nothing behind: no goroutine of the group is running once
\* fn has returned, so none writes to a destination the response was made of.
NoneLeft ==
  \A q \in Requests : body[q] # None => \A c \in Calls : call[q][c] = "done"

\* The goroutines, the error of the group and the contexts together look like
\* a feed: parts arrive until it is closed, and it is closed for the reasons
\* module Feed gives.  What a call reports after its context was cancelled is
\* no failure of its own.
Promise == INSTANCE Feed WITH
  Parts   <- Calls,
  open    <- {q \in Requests : pc[q] = "waiting"},
  arrived <- dest,
  failed  <- [q \in Requests |-> [c \in Mandatory |->
                IF err[q][c] \in Failures THEN err[q][c] ELSE None]],
  left    <- gone,
  verdict <- [q \in Requests |->
                IF body[q] = None THEN None
                ELSE IF body[q].ok THEN [ok |-> TRUE, of |-> body[q].of]
                ELSE [ok |-> FALSE, err |-> body[q].err]]

KeepsPromise == Promise!Spec

\* The mapper an aggregate starts from: its own, or the package-level one.
FirstMapper == IF route.errorMapper = "nil" THEN defaults.errorMapper ELSE route.errorMapper

Answer(q) ==
  IF body[q].ok
  THEN writeResponse(route.successStatus, body[q].value.marshals, body[q].value.encodes,
                     IF route.marshal = None THEN defaults.marshal ELSE route.marshal)
  ELSE writeError(Mapped(InCharge(FirstMapper, body[q].err, defaults.errorMapper), body[q].err))

\* The answer of an aggregate is the one its options and the package-level
\* settings prescribe for what fn returned.
AnsweredAsConfigured ==
  \A q \in Requests : pc[q] \in Settled =>
    IF ValidStatus(Answer(q).status)
    THEN pc[q] = "done" /\ response[q] = OnWire(Answer(q))
    ELSE pc[q] = "aborted" /\ response[q] = None

\* Under FairSpec: the first mandatory failure and the departure of the client
\* both end the request, however long the other calls would take.
FailsFast ==
  \A q \in Requests : pc[q] = "waiting" /\ (gone[q] \/ groupErr[q] # None)
                      ~> pc[q] \in Settled

=============================================================================
