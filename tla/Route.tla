------------------------------- MODULE Route -------------------------------
(***************************************************************************)
(* Proxied routes: the package-level settings, the options of a Route and  *)
(* Route.ServeHTTP, run by one goroutine per request.                      *)
(*                                                                         *)
(* The program has two phases.  While it boots it calls the setters and    *)
(* the route options, each documented as "intended to be called once at    *)
(* program startup; not safe for concurrent writes during request          *)
(* handling".  Then it serves, and the configuration no longer changes.    *)
(*                                                                         *)
(* A handler goroutine binds (one binder per step), calls the gRPC method, *)
(* and either descends the chain of error mappers or writes the result.    *)
(* The method and the client are the environment: the method returns any   *)
(* outcome whenever it likes, the client may go away at any time, which    *)
(* cancels the context the method was given.                               *)
(***************************************************************************)
EXTENDS Binding, Responses

CONSTANTS
  Requests,       \* slots for requests in flight; a slot is used again
  Routes,
  RouteBinders,   \* [Routes -> Seq(Binder)]
  Inputs,         \* the HTTP requests clients send
  Outcomes,       \* what the method may return
  Canceled,       \* what it may also return once its context is cancelled
  PlainOptions,   \* the zero value of protojson.MarshalOptions
  DefaultLimit,   \* the initial value of maxBodyBytes
  \* What the program passes to the setters and to the route options.
  MapperChoices, OptionChoices, ExtractorChoices, LimitChoices,
  RouteMapperChoices, StatusChoices, MapChoices

ASSUME RouteAssumption ==
  /\ RouteBinders \in [Routes -> Seq(Binder)]
  /\ Inputs \subseteq Input
  /\ Outcomes \subseteq Outcome /\ Canceled \in Failure
  /\ PlainOptions \in Options /\ OptionChoices \subseteq Options
  /\ DefaultLimit \in Int /\ LimitChoices \subseteq Int
  /\ ExtractorChoices \subseteq Extractors \cup {"nil"}
  /\ MapperChoices \cup RouteMapperChoices \subseteq Mappers \cup {"nil"}
  /\ StatusChoices \subseteq Int /\ MapChoices \subseteq BOOLEAN
  /\ None \notin [route : Routes, input : Inputs]

VARIABLES
  phase,     \* "boot" or "serving"
  defaults,  \* defaultErrorMapper, defaultMarshalOptions, defaultPathExtractor, maxBodyBytes
  route,     \* [Routes -> the fields of Route that its options assign]
  request,   \* [Requests -> the route and the input of the request, or None]
  pc,        \* [Requests -> where its handler goroutine is]
  next,      \* [Requests -> the index of the binder to apply]
  msg,       \* [Requests -> the local variable req]
  unread,    \* [Requests -> the bytes of the body not yet read]
  calls,     \* [Requests -> the messages its method was called with]
  outcome,   \* [Requests -> what the method returned, or None]
  mapper,    \* [Requests -> the error mapper in charge, or "nil"]
  response,  \* [Requests -> the response written, or None]
  gone       \* [Requests -> the client went away]

config == <<phase, defaults, route>>
binding == <<next, msg, unread>>
vars == <<phase, defaults, route, request, pc, next, msg, unread, calls,
          outcome, mapper, response, gone>>

Defaults == [errorMapper : Mappers, marshal : Options,
             extractor : Extractors, maxBody : Int]

RouteFields == [mapped : BOOLEAN, successStatus : Int,
                errorMapper : Mappers \cup {"nil"}, marshal : Options \cup {None}]

Active  == {"binding", "calling", "mapping", "responding"}
Settled == {"done", "aborted"}

binders(q) == RouteBinders[request[q].route]
options(q)  == route[request[q].route]

Init ==
  /\ phase = "boot"
  /\ defaults = [errorMapper |-> "rfc7807", marshal |-> PlainOptions,
                 extractor |-> "stdlib", maxBody |-> DefaultLimit]
  /\ route = [rt \in Routes |-> [mapped |-> FALSE, successStatus |-> 200,
                                 errorMapper |-> "nil", marshal |-> None]]
  /\ request = [q \in Requests |-> None]
  /\ pc = [q \in Requests |-> "idle"]
  /\ next = [q \in Requests |-> 1]
  /\ msg = [q \in Requests |-> EmptyMessage]
  /\ unread = [q \in Requests |-> 0]
  /\ calls = [q \in Requests |-> <<>>]
  /\ outcome = [q \in Requests |-> None]
  /\ mapper = [q \in Requests |-> "nil"]
  /\ response = [q \in Requests |-> None]
  /\ gone = [q \in Requests |-> FALSE]

-----------------------------------------------------------------------------
(* Startup: the package-level setters ...                                  *)

Booting == phase = "boot" /\ UNCHANGED <<phase, request, pc, binding, calls,
                                         outcome, mapper, response, gone>>

SetDefaultErrorMapper(fn) ==
  /\ Booting
  /\ defaults' = [defaults EXCEPT !.errorMapper = IF fn = "nil" THEN "rfc7807" ELSE fn]
  /\ UNCHANGED route

SetDefaultMarshalOptions(o) ==
  /\ Booting
  /\ defaults' = [defaults EXCEPT !.marshal = o]
  /\ UNCHANGED route

SetDefaultPathExtractor(e) ==
  /\ Booting
  /\ defaults' = [defaults EXCEPT !.extractor = IF e = "nil" THEN "stdlib" ELSE e]
  /\ UNCHANGED route

SetDefaultMaxBodyBytes(n) ==
  /\ Booting
  /\ defaults' = [defaults EXCEPT !.maxBody = n]
  /\ UNCHANGED route

(* ... and the options of a route.                                         *)

Map(rt, isFunction) ==
  /\ Booting
  /\ route' = [route EXCEPT ![rt].mapped = isFunction]
  /\ UNCHANGED defaults

OnSuccess(rt, status) ==
  /\ Booting
  /\ route' = [route EXCEPT ![rt].successStatus = status]
  /\ UNCHANGED defaults

\* toErrorMapper: a nil mapper stays nil.
WithErrorMapper(rt, fn) ==
  /\ Booting
  /\ route' = [route EXCEPT ![rt].errorMapper = fn]
  /\ UNCHANGED defaults

WithMarshalOptions(rt, o) ==
  /\ Booting
  /\ route' = [route EXCEPT ![rt].marshal = o]
  /\ UNCHANGED defaults

Serve ==
  /\ phase = "boot"
  /\ phase' = "serving"
  /\ UNCHANGED <<defaults, route, request, pc, binding, calls, outcome,
                 mapper, response, gone>>

Boot ==
  \/ \E fn \in MapperChoices : SetDefaultErrorMapper(fn)
  \/ \E o \in OptionChoices : SetDefaultMarshalOptions(o)
  \/ \E e \in ExtractorChoices : SetDefaultPathExtractor(e)
  \/ \E n \in LimitChoices : SetDefaultMaxBodyBytes(n)
  \/ \E rt \in Routes :
       \/ \E isFunction \in MapChoices : Map(rt, isFunction)
       \/ \E status \in StatusChoices : OnSuccess(rt, status)
       \/ \E fn \in RouteMapperChoices : WithErrorMapper(rt, fn)
       \/ \E o \in OptionChoices : WithMarshalOptions(rt, o)
  \/ Serve

-----------------------------------------------------------------------------
(* Route.ServeHTTP                                                         *)

Goto(q, label) == pc' = [pc EXCEPT ![q] = label]

\* WriteHeader panics on a status outside 100..999; net/http recovers, and
\* the connection is aborted without a response.
Write(q, resp) ==
  IF ValidStatus(resp.status)
  THEN Goto(q, "done") /\ response' = [response EXCEPT ![q] = OnWire(resp)]
  ELSE Goto(q, "aborted") /\ UNCHANGED response

\* A plausible variant: req is pooled, and not reset.
ArriveReusing(q, rt, in) ==
  /\ phase = "serving"
  /\ pc[q] = "idle"
  /\ Goto(q, "binding")
  /\ request' = [request EXCEPT ![q] = [route |-> rt, input |-> in]]
  /\ next' = [next EXCEPT ![q] = 1]
  /\ unread' = [unread EXCEPT ![q] = in.body.size]
  /\ UNCHANGED <<config, msg, calls, outcome, mapper, response, gone>>

\* A request reaches a route; ServeHTTP declares its own req.
Arrive(q, rt, in) ==
  /\ phase = "serving"
  /\ pc[q] = "idle"
  /\ Goto(q, "binding")
  /\ request' = [request EXCEPT ![q] = [route |-> rt, input |-> in]]
  /\ next' = [next EXCEPT ![q] = 1]
  /\ msg' = [msg EXCEPT ![q] = EmptyMessage]
  /\ unread' = [unread EXCEPT ![q] = in.body.size]
  /\ UNCHANGED <<config, calls, outcome, mapper, response, gone>>

\* The result of the binder in turn.
Step(q) == Bind(binders(q)[next[q]], request[q].input, defaults.extractor,
                defaults.maxBody, msg[q], unread[q])

HasNext(q) == next[q] <= Len(binders(q))

BindNext(q) ==
  /\ pc[q] = "binding" /\ HasNext(q)
  /\ Step(q).err = "none"
  /\ next' = [next EXCEPT ![q] = @ + 1]
  /\ msg' = [msg EXCEPT ![q] = Step(q).msg]
  /\ unread' = [unread EXCEPT ![q] = Step(q).unread]
  /\ UNCHANGED <<config, request, pc, calls, outcome, mapper, response, gone>>

\* A plausible variant: a failed binding is tried again from the start.
RetryBinding(q) ==
  /\ pc[q] = "binding" /\ HasNext(q)
  /\ Step(q).err # "none"
  /\ next' = [next EXCEPT ![q] = 1]
  /\ msg' = [msg EXCEPT ![q] = EmptyMessage]
  /\ unread' = [unread EXCEPT ![q] = request[q].input.body.size]
  /\ UNCHANGED <<config, request, pc, calls, outcome, mapper, response, gone>>

RejectBinding(q) ==
  /\ pc[q] = "binding" /\ HasNext(q)
  /\ Step(q).err # "none"
  /\ unread' = [unread EXCEPT ![q] = Step(q).unread]
  /\ Write(q, writeError(BareProblem(bindErrorStatus(Step(q).err), "bind")))
  /\ UNCHANGED <<config, request, next, msg, calls, outcome, mapper, gone>>

Invoke(q) ==
  /\ pc[q] = "binding" /\ ~HasNext(q)
  /\ Goto(q, "calling")
  /\ calls' = [calls EXCEPT ![q] = Append(@, msg[q])]
  /\ UNCHANGED <<config, request, binding, outcome, mapper, response, gone>>

\* A plausible variant: the method is given context.Background().
ctxNeverDone(q) == FALSE

\* The context rt.method was given, r.Context(), is cancelled.
ctxDone(q) == gone[q]

\* rt.method returns; a nil errorMapper stands for DefaultErrorMapper.
Return(q, o) ==
  /\ pc[q] = "calling"
  /\ o \in Outcomes \/ (ctxDone(q) /\ o = Canceled)
  /\ outcome' = [outcome EXCEPT ![q] = o]
  /\ Goto(q, IF o.ok THEN "responding" ELSE "mapping")
  /\ mapper' = [mapper EXCEPT ![q] = IF o.ok THEN "nil"
                                     ELSE IF options(q).errorMapper = "nil"
                                          THEN "DefaultErrorMapper"
                                          ELSE options(q).errorMapper]
  /\ UNCHANGED <<config, request, binding, calls, response, gone>>

\* A mapper that has no answer of its own calls the next one.
Descend(q) ==
  /\ pc[q] = "mapping"
  /\ ~Answers(mapper[q], outcome[q])
  /\ mapper' = [mapper EXCEPT ![q] = Delegate(@, outcome[q], defaults.errorMapper)]
  /\ UNCHANGED <<config, request, pc, binding, calls, outcome, response, gone>>

WriteError(q) ==
  /\ pc[q] = "mapping"
  /\ Answers(mapper[q], outcome[q])
  /\ Write(q, writeError(Mapped(mapper[q], outcome[q])))
  /\ UNCHANGED <<config, request, binding, calls, outcome, mapper, gone>>

\* A plausible variant: a package-level choice overrides the route's.
packageOptionsFirst(q) ==
  IF defaults.marshal # PlainOptions \/ options(q).marshal = None
  THEN defaults.marshal ELSE options(q).marshal

marshalOptions(q) ==
  IF options(q).marshal # None THEN options(q).marshal ELSE defaults.marshal

WriteSuccess(q) ==
  /\ pc[q] = "responding"
  /\ Write(q, IF options(q).mapped
              THEN writeJSON(options(q).successStatus, outcome[q].encodes)
              ELSE writeResponse(options(q).successStatus, outcome[q].marshals,
                                 outcome[q].encodes, marshalOptions(q)))
  /\ UNCHANGED <<config, request, binding, calls, outcome, mapper, gone>>

\* net/http cancels r.Context(), the context of the method's call.
Disconnect(q) ==
  /\ pc[q] \in Active /\ ~gone[q]
  /\ gone' = [gone EXCEPT ![q] = TRUE]
  /\ UNCHANGED <<config, request, pc, binding, calls, outcome, mapper, response>>

\* ServeHTTP has returned: net/http ends the request and the slot is free.
\* What the goroutine's locals held stays behind as garbage.
Finish(q) ==
  /\ pc[q] \in {"done", "aborted"}
  /\ Goto(q, "idle")
  /\ request' = [request EXCEPT ![q] = None]
  /\ unread' = [unread EXCEPT ![q] = 0]
  /\ calls' = [calls EXCEPT ![q] = <<>>]
  /\ outcome' = [outcome EXCEPT ![q] = None]
  /\ mapper' = [mapper EXCEPT ![q] = "nil"]
  /\ response' = [response EXCEPT ![q] = None]
  /\ gone' = [gone EXCEPT ![q] = FALSE]
  /\ UNCHANGED <<config, next, msg>>

Handler(q) == \/ BindNext(q) \/ RejectBinding(q) \/ Invoke(q)
              \/ Descend(q) \/ WriteError(q) \/ WriteSuccess(q)

Next ==
  \/ Boot
  \/ \E q \in Requests :
       \/ \E rt \in Routes, in \in Inputs : Arrive(q, rt, in)
       \/ Handler(q)
       \/ \E o \in Outcomes \cup {Canceled} : Return(q, o)
       \/ Disconnect(q)
       \/ Finish(q)

Spec == Init /\ [][Next]_vars

\* A handler goroutine keeps running.  The method owes an answer only once
\* its context is cancelled: the framework sets no deadline of its own.
Fairness ==
  \A q \in Requests :
    /\ WF_vars(Handler(q))
    /\ WF_vars(ctxDone(q) /\ \E o \in Outcomes \cup {Canceled} : Return(q, o))

FairSpec == Spec /\ Fairness

-----------------------------------------------------------------------------
(* Properties                                                              *)

\* Every variable has its type; in particular every status that reaches the
\* wire is one net/http accepts, and the body has one of the known shapes.
TypeOK ==
  /\ phase \in {"boot", "serving"}
  /\ defaults \in Defaults
  /\ route \in [Routes -> RouteFields]
  /\ request \in [Requests -> [route : Routes, input : Inputs] \cup {None}]
  /\ pc \in [Requests -> Active \cup Settled \cup {"idle"}]
  /\ next \in [Requests -> Nat \ {0}]
  /\ msg \in [Requests -> Message]
  /\ unread \in [Requests -> Nat]
  /\ calls \in [Requests -> Seq(Message)]
  /\ outcome \in [Requests -> Outcomes \cup {Canceled, None}]
  /\ mapper \in [Requests -> Mappers \cup {"nil"}]
  /\ response \in [Requests -> HTTPResponse \cup {None}]
  /\ gone \in [Requests -> BOOLEAN]

\* The binder loop of ServeHTTP never shows a partial or a foreign message:
\* at every turn req is exactly what the binders applied so far describe for
\* this request, whatever an earlier request in the slot or a concurrent one
\* did, and the method only ever hears what all of them describe.
BoundAsDeclared ==
  \A q \in Requests :
    /\ pc[q] = "binding" =>
         msg[q] = DeclaredBy(binders(q), request[q].input, defaults.extractor, next[q] - 1)
    /\ \A i \in DOMAIN calls[q] :
         calls[q][i] = Declared(binders(q), request[q].input, defaults.extractor)

\* The size limit of readBody bounds what one request makes the server read,
\* however many body binders the route has: one byte beyond the limit.
ReadIsBounded ==
  \A q \in Requests :
    request[q] # None /\ defaults.maxBody > 0 =>
      request[q].input.body.size - unread[q] <= defaults.maxBody + 1

\* The mapper a route starts from: its own, or the package-level one.
FirstMapper(q) ==
  IF options(q).errorMapper # "nil" THEN options(q).errorMapper ELSE defaults.errorMapper

Answer(q) ==
  IF ~outcome[q].ok
  THEN writeError(Mapped(InCharge(FirstMapper(q), outcome[q], defaults.errorMapper), outcome[q]))
  ELSE IF options(q).mapped
       THEN writeJSON(options(q).successStatus, outcome[q].encodes)
       ELSE writeResponse(options(q).successStatus, outcome[q].marshals,
                          outcome[q].encodes,
                          IF options(q).marshal = None THEN defaults.marshal
                                                       ELSE options(q).marshal)

\* What a called method leads to is decided by the outcome and by the
\* configuration alone: the route's own mapper, status and options come
\* before the package-level ones, and a configured status that net/http
\* refuses is the only way to leave the client without an answer.
AnsweredAsConfigured ==
  \A q \in Requests : outcome[q] # None /\ pc[q] \in Settled =>
    IF ValidStatus(Answer(q).status)
    THEN pc[q] = "done" /\ response[q] = OnWire(Answer(q))
    ELSE pc[q] = "aborted" /\ response[q] = None

\* Server-side state does not leak (rfc7807Mapper, MapReasons): on a 5xx the
\* free text of the status is withheld, and structured members are only
\* there when some reason table claims the error for that status.
Withholds(resp, err) ==
  resp.status >= 500 /\ resp.body.kind = "problem" =>
    /\ resp.body.detail # "upstream"
    /\ \/ resp.body = BareProblem(resp.status, resp.body.detail)
       \/ \E v \in Vocabs :
            Hit(v, err) /\ Table[v][errorInfoOf(err.details)].status = resp.status

Redacted ==
  \A q \in Requests : response[q] # None => Withholds(response[q], outcome[q])

\* The route keeps the promise of module Exchange: 400 or 413 without a call,
\* or exactly one call with the declared message.
Stage == [q \in Requests |->
            CASE pc[q] = "idle"    -> "idle"
              [] pc[q] = "binding" -> "accepted"
              [] pc[q] \in Settled /\ calls[q] = <<>> -> "refused"
              [] pc[q] \in Settled /\ calls[q] # <<>> -> "ended"
              [] OTHER             -> "called"]

Promise == INSTANCE Exchange WITH
  settings <- [extractor |-> defaults.extractor, maxBody |-> defaults.maxBody],
  stage    <- Stage,
  heard    <- calls,
  refused  <- [q \in Requests |-> IF Stage[q] = "refused" THEN response[q].status ELSE 0],
  Settings <- [extractor : Extractors, maxBody : Int],
  NoRequest <- None,
  Refusal  <- LAMBDA s, rt, in : Verdict(RouteBinders[rt], in, s.extractor, s.maxBody),
  RefusalStatus <- LAMBDA why : IF why = "tooLarge" THEN 413 ELSE 400,
  Meaning  <- LAMBDA s, rt, in : Declared(RouteBinders[rt], in, s.extractor)

KeepsPromise == Promise!Safety

\* Under FairSpec: no binder loop runs forever, ...
Decides == Promise!Progress

\* Where the mapper m may go on to, by configuration, and what that leads to.
Successor(m) == CASE m = "DefaultErrorMapper" -> defaults.errorMapper
                  [] m \in Vocabs            -> Fallback[m]
                  [] OTHER                   -> m

Ahead(m) ==
  {x \in Mappers : \A S \in SUBSET Mappers :
     m \in S /\ (\A y \in S : Successor(y) \in S) => x \in S}

\* SetDefaultErrorMapper has installed a table that falls back on
\* DefaultErrorMapper, and so on itself.
IsCircular == Ahead("DefaultErrorMapper") \cap {"rfc7807", "custom"} = {}

\* ... a method that returned leads to an answer: the chain of mappers ends
\* unless the package-level mapper leads back to itself, ...
MapsToAnAnswer ==
  \A q \in Requests :
    pc[q] \in {"mapping", "responding"} /\ ~IsCircular ~> pc[q] \in Settled

\* ... and a handler whose client went away is released, because the method
\* was given the context of the request.
Released ==
  \A q \in Requests : gone[q] /\ pc[q] \in Active /\ ~IsCircular ~> pc[q] \in Settled

=============================================================================
