-------------------------------- MODULE App --------------------------------
(***************************************************************************)
(* App: its router, its list of operations and the routes it hands out.    *)
(*                                                                         *)
(* A verb method runs in three steps.  It validates the path binders,      *)
(* which may panic; it constructs a Route and gives it to the mux, which   *)
(* may panic; and it appends the route to the list behind Operations.  The *)
(* caller may recover from a panic and go on.  It chains options onto the  *)
(* Route it got back, to which the mux and the list point already.         *)
(*                                                                         *)
(* Registration is done by one goroutine: neither the list nor the fields  *)
(* of a Route are synchronised.  The mux has a lock of its own, and a      *)
(* server may dispatch requests while routes are still being registered.   *)
(***************************************************************************)
EXTENDS Binders, ServeMux, SequencesExt

CONSTANTS
  Endpoints,       \* what the program passes to the verb methods
  OpaquePatterns,  \* the patterns it passes to App.Handle
  Opaque,          \* the handlers of those patterns
  Programs,        \* the programs: which of these they register
  None,
  \* What it passes to the options of a route and to the package setter.
  DocChoices, NoDoc, DTOChoices, StatusChoices, MarshalChoices,
  PlainOptions     \* the zero value of protojson.MarshalOptions

\* The verb methods.
Verbs == {"GET", "POST", "PUT", "PATCH", "DELETE"}

Segment == [kind : SegmentKinds, text : STRING \cup Names]

\* The arguments of a verb method; isMessage: the response type of the gRPC
\* method is a proto.Message.
Endpoint == [method : Verbs, path : Seq(Segment), binders : Seq(Binder), isMessage : BOOLEAN]

\* A program chains options onto the routes of some of its endpoints.  One
\* that does also sets the package-level ones and reads Operations.
Program == [endpoints : SUBSET Endpoints, patterns : SUBSET OpaquePatterns,
            configured : SUBSET Endpoints]

\* RequestPaths has a path for every pattern that the mux takes.
ASSUME AppAssumption ==
  /\ Endpoints \subseteq Endpoint
  /\ OpaquePatterns \subseteq [method : Verbs \cup {NoMethod}, path : Seq(Segment)]
  /\ Programs \subseteq Program
  /\ \A e \in Endpoints : WellFormed(e.path) => Covers(e) # {}
  /\ Opaque \notin Endpoints /\ None \notin Endpoints
  /\ NoDoc \in DocChoices /\ PlainOptions \in MarshalChoices
  /\ None \notin MarshalChoices /\ None \notin DTOChoices

VARIABLES
  program,     \* the program, which does not change
  mux,         \* the patterns registered on the mux, with their handlers
  operations,  \* App.operations
  route,       \* [Endpoints -> the fields of the Route registered for it, or None]
  pc,          \* where the registering goroutine is
  call,        \* the arguments of the verb method it is in, or None
  defaultMarshal,  \* defaultMarshalOptions
  snapshot     \* what App.Operations returned last, or None

vars == <<program, mux, operations, route, pc, call, defaultMarshal, snapshot>>

\* The fields of Route that its options assign and documentation shows.
RouteFields == [doc : DocChoices, successStatus : StatusChoices \cup {200},
                mapOut : DTOChoices \cup {None}, marshal : MarshalChoices \cup {None}]

ASSUME NoneAssumption == None \notin RouteFields

\* A plausible variant that leaves the status unset.
ZeroRoute == [doc |-> NoDoc, successStatus |-> 0, mapOut |-> None, marshal |-> None]

\* Proxy: a new Route.
NewRoute == [doc |-> NoDoc, successStatus |-> 200, mapOut |-> None, marshal |-> None]

Registered == {e \in Endpoints : route[e] # None}

Init ==
  /\ program \in Programs
  /\ mux = {}
  /\ operations = <<>>
  /\ route = [e \in Endpoints |-> None]
  /\ pc = "idle"
  /\ call = None
  /\ defaultMarshal = PlainOptions
  /\ snapshot = None

-----------------------------------------------------------------------------
(* Registration *)

\* A plausible variant that knows no multi-segment wildcards.
SingleSegmentParams(path) == {path[i].text : i \in {j \in DOMAIN path : path[j].kind = "wildcard"}}

\* The {name} and {name...} segments of a pattern.
patternPathParams(path) == {path[i].text : i \in {j \in DOMAIN path : IsNamed(path[j])}}

IsPathParam(b) == b.kind = "param" /\ b.in = "path"

\* A plausible variant that stops at the first path binder.
ValidatesFirstOnly(e) ==
  LET i == SelectInSeq(e.binders, IsPathParam)
  IN  i # 0 => e.binders[i].name \in patternPathParams(e.path)

\* validatePathBinders accepts the endpoint.
validatePathBinders(e) ==
  \A i \in DOMAIN e.binders :
    IsPathParam(e.binders[i]) => e.binders[i].name \in patternPathParams(e.path)

EntryOf(e) == [method |-> e.method, path |-> e.path, handler |-> e]

\* A plausible variant that validates after it has mounted.
MountsFirst(e) ==
  /\ pc = "idle"
  /\ call' = e
  /\ IF Panics(mux, EntryOf(e))
     THEN pc' = "panicked" /\ UNCHANGED <<mux, route>>
     ELSE /\ pc' = IF validatePathBinders(e) THEN "mounted" ELSE "panicked"
          /\ mux' = mux \cup {EntryOf(e)}
          /\ route' = [route EXCEPT ![e] = NewRoute]
  /\ UNCHANGED <<operations, defaultMarshal, snapshot>>

\* A verb method is called: it validates, and panics if that fails.
handleVerb(e) ==
  /\ pc = "idle"
  /\ call' = e
  /\ pc' = IF validatePathBinders(e) THEN "validated" ELSE "panicked"
  /\ UNCHANGED <<mux, operations, route, defaultMarshal, snapshot>>

OperationOf(e) == [method |-> e.method, path |-> e.path, route |-> e]

\* A plausible variant that lists before it mounts.
ListThenMount ==
  /\ pc = "validated"
  /\ operations' = Append(operations, OperationOf(call))
  /\ IF Panics(mux, EntryOf(call))
     THEN pc' = "panicked" /\ UNCHANGED <<mux, route, call>>
     ELSE /\ pc' = "idle" /\ call' = None
          /\ mux' = mux \cup {EntryOf(call)}
          /\ route' = [route EXCEPT ![call] = NewRoute]
  /\ UNCHANGED <<defaultMarshal, snapshot>>

\* Proxy, and mux.Handle with the new Route.
Mount ==
  /\ pc = "validated"
  /\ IF Panics(mux, EntryOf(call))
     THEN pc' = "panicked" /\ UNCHANGED <<mux, route>>
     ELSE /\ pc' = "mounted"
          /\ mux' = mux \cup {EntryOf(call)}
          /\ route' = [route EXCEPT ![call] = NewRoute]
  /\ UNCHANGED <<operations, call, defaultMarshal, snapshot>>

\* The append, after which the verb method returns the Route.
List ==
  /\ pc = "mounted"
  /\ operations' = Append(operations, OperationOf(call))
  /\ pc' = "idle"
  /\ call' = None
  /\ UNCHANGED <<mux, route, defaultMarshal, snapshot>>

\* The caller recovers from a panic.
Recover ==
  /\ pc = "panicked"
  /\ pc' = "idle"
  /\ call' = None
  /\ UNCHANGED <<mux, operations, route, defaultMarshal, snapshot>>

\* App.Handle.
Handle(p) ==
  /\ pc = "idle"
  /\ IF Panics(mux, p)
     THEN pc' = "panicked" /\ UNCHANGED mux
     ELSE pc' = "idle" /\ mux' = mux \cup {[method |-> p.method, path |-> p.path, handler |-> Opaque]}
  /\ UNCHANGED <<operations, route, call, defaultMarshal, snapshot>>

-----------------------------------------------------------------------------
(* The options a caller chains onto the Route of a verb method, and the    *)
(* package-level marshal options.                                          *)

Configuring(e) ==
  /\ pc = "idle" /\ e \in Registered
  /\ UNCHANGED <<mux, operations, pc, call, defaultMarshal, snapshot>>

Map(e, dto)              == Configuring(e) /\ route' = [route EXCEPT ![e].mapOut = dto]
OnSuccess(e, status)     == Configuring(e) /\ route' = [route EXCEPT ![e].successStatus = status]
WithMarshalOptions(e, o) == Configuring(e) /\ route' = [route EXCEPT ![e].marshal = o]
Doc(e, d)                == Configuring(e) /\ route' = [route EXCEPT ![e].doc = d]

SetDefaultMarshalOptions(o) ==
  /\ pc = "idle"
  /\ defaultMarshal' = o
  /\ UNCHANGED <<mux, operations, route, pc, call, snapshot>>

-----------------------------------------------------------------------------
(* Operations *)

\* The parameters that binders document: those of Ctx and of hand-written
\* binders are no ParamDocumenter.
IsParamDocumenter(b) == b.kind = "param" /\ b.in # "ctx"

ParamSpec(b) == [in |-> b.in, name |-> b.name, type |-> b.type, required |-> b.in = "path"]

\* What a body binder documents: a message, a DTO, or nothing but a body.
BodySpec(b) == CASE b.kind = "BodyJSON" -> "Proto"
                 [] b.kind \in {"BodyJSONInto", "BodyJSONMap"} -> "DTO"
                 [] b.kind = "Body" -> "unknown"

Params(bs) == LET documented == SelectSeq(bs, IsParamDocumenter)
              IN  [i \in DOMAIN documented |-> ParamSpec(documented[i])]

\* The last body binder wins.
BodyOf(bs) == LET i == SelectLastInSeq(bs, LAMBDA b : b.kind \in BodyKinds)
              IN  IF i = 0 THEN None ELSE BodySpec(bs[i])

\* Route.operationInfo, for an endpoint, the fields of its Route and the
\* package-level marshal options.
operationInfo(e, rt, default) ==
  [method        |-> e.method,
   path          |-> e.path,
   doc           |-> rt.doc,
   successStatus |-> rt.successStatus,
   params        |-> Params(e.binders),
   body          |-> BodyOf(e.binders),
   response      |-> IF rt.mapOut # None THEN rt.mapOut
                     ELSE IF e.isMessage THEN "message" ELSE None,
   marshal       |-> IF rt.marshal # None THEN rt.marshal ELSE default]

\* A plausible variant that reports routes as they were registered.
StaleOperations ==
  /\ pc = "idle"
  /\ snapshot' = [i \in DOMAIN operations |->
                    operationInfo(operations[i].route, NewRoute, defaultMarshal)]
  /\ UNCHANGED <<mux, operations, route, pc, call, defaultMarshal>>

Operations ==
  /\ pc = "idle"
  /\ snapshot' = [i \in DOMAIN operations |->
                    [operationInfo(operations[i].route, route[operations[i].route], defaultMarshal)
                       EXCEPT !.method = operations[i].method, !.path = operations[i].path]]
  /\ UNCHANGED <<mux, operations, route, pc, call, defaultMarshal>>

-----------------------------------------------------------------------------

Register == (\E e \in program.endpoints : handleVerb(e)) \/ Mount \/ List \/ Recover

Chain(e) ==
  \/ \E dto \in DTOChoices \cup {None} : Map(e, dto)
  \/ \E status \in StatusChoices : OnSuccess(e, status)
  \/ \E o \in MarshalChoices : WithMarshalOptions(e, o)
  \/ \E d \in DocChoices : Doc(e, d)

Documenting ==
  \/ \E e \in program.configured : Chain(e)
  \/ \E o \in MarshalChoices : SetDefaultMarshalOptions(o)
  \/ Operations

Next ==
  /\ \/ Register
     \/ \E p \in program.patterns : Handle(p)
     \/ program.configured # {} /\ Documenting
  /\ UNCHANGED program

Spec == Init /\ [][Next]_vars

-----------------------------------------------------------------------------
(* Properties *)

TypeOK ==
  /\ program \in Programs
  /\ mux \subseteq [method : Verbs \cup {NoMethod}, path : Seq(Segment),
                    handler : Endpoints \cup {Opaque}]
  /\ operations \in Seq([method : Verbs, path : Seq(Segment), route : Endpoints])
  /\ route \in [Endpoints -> RouteFields \cup {None}]
  /\ pc \in {"idle", "validated", "mounted", "panicked"}
  /\ call \in Endpoints \cup {None}
  /\ defaultMarshal \in MarshalChoices

\* handleVerb mounts before it lists, so a panic of the mux between the two
\* leaves no operation behind: what Operations shows is served, by the very
\* Route the caller configures.
ListedIsRouted ==
  \A i \in DOMAIN operations :
    /\ EntryOf(operations[i].route) \in mux
    /\ operations[i].route \in Registered
    /\ operations[i] = OperationOf(operations[i].route)

\* Once a verb method has returned or panicked, every route on the mux that
\* came from one is listed, once.
RoutedIsListed ==
  pc # "mounted" =>
    \A entry \in mux : entry.handler # Opaque =>
      \E i \in DOMAIN operations :
        /\ operations[i].route = entry.handler
        /\ \A j \in DOMAIN operations : operations[j].route = entry.handler => j = i

\* What a path binder reads on a request that the endpoint's pattern
\* matches: a text, which is only empty where the pattern lets a rest be
\* empty.
FindsText(path, texts, name) ==
  LET v == PathValue(path, texts, name)
  IN  v # <<>> /\ (v = <<"">> => path[Len(path)].kind = "rest")

PathNames(e) == {e.binders[i].name : i \in {j \in DOMAIN e.binders : IsPathParam(e.binders[j])}}

\* Validation at registration and the matching of the mux together spare a
\* path binder the absent parameter, on every request that is dispatched to
\* a route of a verb method.
PathParametersArePresent ==
  \A r \in HTTPRequests : Candidates(mux, r) # {} =>
    LET entry == Dispatch(mux, r) IN
    entry.handler # Opaque =>
      \A name \in PathNames(entry.handler) : FindsText(entry.path, r.path, name)

\* A verb method panics for a reason only: a path binder would miss its
\* parameter on a request that the pattern matches, or the mux refuses the
\* pattern.  The syntactic scan of patternPathParams refuses no endpoint
\* that would work.
PanicsForAReason ==
  pc = "panicked" /\ call # None =>
    \/ Panics(mux, EntryOf(call))
    \/ \E r \in Covers(EntryOf(call)), name \in PathNames(call) :
         ~FindsText(call.path, r.path, name)

\* The three steps of handleVerb, the panics between them and the options
\* chained afterwards look like a catalog to which endpoints are added in
\* one step or not at all, and reports show it as it is.
Listed == [i \in DOMAIN operations |->
             [endpoint |-> operations[i].route, options |-> route[operations[i].route]]]

Contract == INSTANCE Catalog WITH
  served   <- {[method |-> entry.method, path |-> entry.path] : entry \in mux},
  catalog  <- IF pc = "mounted"
              THEN Append(Listed, [endpoint |-> call, options |-> NewRoute]) ELSE Listed,
  settings <- defaultMarshal,
  report   <- snapshot,
  Patterns <- OpaquePatterns,
  Options  <- RouteFields,
  Initial  <- NewRoute,
  Settings <- MarshalChoices,
  PatternOf  <- LAMBDA e : [method |-> e.method, path |-> e.path],
  Admissible <- LAMBDA e : validatePathBinders(e),
  Compatible <- LAMBDA S, p : ~Panics(S, p),
  Describe   <- LAMBDA e, rt, default : operationInfo(e, rt, default),
  NoReport   <- None

KeepsCatalog == Contract!Spec

=============================================================================
