# Verification of grpc-composition

`grpc-composition` puts an HTTP API in front of gRPC services: a route binds
pieces of an HTTP request to a protobuf message, calls a unary method with it,
and turns the result or the error into an HTTP response. This directory holds
TLA+ models of that code, the TLC configurations that check them on small
instances, and TLAPS proofs of their most important properties for all values
of the parameters.

## The system

| component | source | state | operations |
|---|---|---|---|
| Proxied routes | `composition.go` | package variables `defaultPathExtractor`, `defaultMarshalOptions`; the fields of each `Route`; per request the local `req` and its `http.Request` | `Proxy`, `Map`, `OnSuccess`, `WithErrorMapper`, `WithMarshalOptions`, the `SetDefault*` functions, `Route.ServeHTTP` |
| Binders | `bind/` | package variable `maxBodyBytes`; the unread rest of the request body | the constructors, `Bind`, `readBody`, `lookupEnum`, `SetDefaultMaxBodyBytes` |
| Errors and responses | `errors.go`, `composition.go` | package variable `defaultErrorMapper`; the tables `MapReasons` copies | `DefaultErrorMapper`, `rfc7807Mapper`, `MapReasons`, `populateDetails`, `writeError`, `writeResponse`, `writeJSON` |
| Aggregates | `aggregate.go` | the fields of `AggregateRoute`; per request what the handler function keeps | options, `AggregateRoute.ServeHTTP`, the handler its documentation prescribes |
| App | `app.go` | the mux, `operations`, `metadataForward` (set by `New`) | verb methods, `Handle`, `Handler`, `ServeHTTP`, `Operations`, `forwardMetadata` |
| Documentation metadata | `spec.go`, `composition.go` | none of its own: a view of routes and binders | `operationInfo`, `ParamSpec`, `BodySpec`, `Doc` |
| OpenAPI generator | `openapi/` | `generator.schemas` during a run | `Generate`, `normalizePath`, the schema walks |
| Example | `examples/basic/main.go` | `userServer.users` | `GetUser`, `ListUsers`, `CreateUser`, `newApp` |
| Generated code | `examples/basic/userpb` | — | — |

How they interact. `App.ServeHTTP` adds outgoing metadata to the context of a
request and hands it to the mux, which calls `Route.ServeHTTP` or
`AggregateRoute.ServeHTTP` in the goroutine net/http started for the request.
A route calls its binders, which read the request (path parameters through the
package-level extractor, the body through the package-level limit), then the
gRPC method with `r.Context()`, then an error mapper, which may call further
mappers, or one of the writers. Nothing is shared between requests but the
configuration: the routes and the package variables, which are read without
synchronisation and documented as written at startup only. The OpenAPI
generator reads the same routes through `App.Operations`.

What is hard. The meaning of a list of binders is not that of its members: the
body is a stream one binder consumes, `BodyJSON` resets what others have set,
the last writer of a field wins, and the first failure decides the refusal.
Error mappers form chains through a mutable package variable, with a redaction
boundary that is written twice. The framework sets no deadline, so a hanging
method is only released by the context it was given. In an aggregate several
calls succeed, fail and cancel each other concurrently. Sizes and numerals have
boundaries (`limit + 1`, `int` to `int32`). The `hazards` of `PROJECT.json`
list each of these at its line, with the properties that watch it.

What makes each component correct:

* routes: the method is called at most once, with the declared message or not
  at all; every request is decided; handlers are released; requests do not see
  each other's data;
* binders: only declared fields change, in order; at most `limit + 1` bytes are
  read; nothing oversized, truncated or ill-typed reaches the method;
* errors and responses: the configured mapper answers, 5xx answers do not leak
  upstream text, every status can be written;
* aggregates: all mandatory results or the first cause, no goroutine left;
* App: an operation is listed if and only if it is routed; only allowlisted
  headers become metadata;
* OpenAPI: the walk ends, every reference is defined, no operation is lost.

## Modules

| module | what it is |
|---|---|
| `Binders` | package `bind` as operators: parsers, constructors, `readBody`, `Bind`. A raw parameter is empty, a word, or the integer its numeral denotes; 32- and 64-bit wrap-around is kept, with the word sizes as parameters. |
| `Binding` | what a list of binders *means*, without executing it: first obstacle (`Verdict`), last writer (`Declared`). The reference for `Route`; nothing in it is translated from the loop. |
| `Responses` | `errors.go` and the writers as operators, down to what net/http does with a status (1xx, 101, 204, 304, out of range); and who answers at the end of a chain of mappers (`Chain`, `InCharge`), without the steps along it. |
| `Route` | the state machine: startup (setters and options), then `ServeHTTP` in one goroutine per request, against an arbitrary method and client. |
| `Exchange` | the abstract promise of an endpoint: refused with 400/413 and never called, or called exactly once with the declared message, under settings that do not change meanwhile. |
| `Aggregate` | the state machine of an aggregate: the goroutines of the errgroup, `g.Wait`, then the same mapping and writing. |
| `Feed` | the abstract promise of an aggregate: parts arrive or fail while it is open, and it is closed once, with all it must have or with a cause. |
| `ServeMux` | `net/http.ServeMux` as far as App relies on it, as sets of requests that patterns match: conflicts, precedence, path values. External. |
| `App` | the state machine of registration: the three steps of a verb method with the panics between them, `Handle`, the options chained onto a route, `Operations`. |
| `Catalog` | the abstract promise of an App: endpoints are served and listed in one step or not at all, and reports show them as they are. |
| `Forwarding` | `WithMetadataForward`, the nesting of Apps and handlers, and requests on their way through `forwardMetadata`. |
| `Schemas` | the graph of types and the schemas of package `openapi`. |
| `OpenAPI` | `Generate` as a stack machine: one action per call, turn of a field loop, return and assignment. |
| `Serialization` | what protojson and encoding/json make of a type; the reference for `OpenAPI`, without its walk. What refers to itself is a recursive function on the number of levels, and there are no more levels than types. |
| `Document` | the abstract promise of a document: it grows by whole operations with everything they need. |
| `Users` | the example's `userServer` down to the words of its slice header, with concurrent callers: as it is (`Spec`) and with the header guarded (`GuardedSpec`). |
| `Directory` | the abstract promise of the service: every call takes effect at one instant. |
| `MCRoute`, `MCAggregate`, `MCApp`, `MCForwarding`, `MCOpenAPI`, `MCUsers` | instances for TLC. |
| `Claims` | statements of comments and of the README about routes that the code does not keep. |
| `Lemmas`, `Responses_proofs`, `Route_proofs`, `Aggregate_proofs`, `App_proofs`, `Forwarding_proofs`, `OpenAPI_proofs`, `Users_proofs` | the proofs. |

`Route` extends `Binding` (which extends `Binders`) and `Responses`;
`Aggregate` extends `Responses`, `App` extends `Binders` and `ServeMux`, and
`OpenAPI` extends `Schemas` by way of `Serialization`. Each state machine but
`Forwarding` instantiates an abstract one under a refinement mapping:

| detailed | abstract | property | mapping |
|---|---|---|---|
| `Route` | `Exchange` | `KeepsPromise`, `Decides` | `Stage` |
| `Aggregate` | `Feed` | `KeepsPromise` | destinations are what has arrived, errors in closures what has failed, what `fn` returned is the verdict |
| `App` | `Catalog` | `KeepsCatalog` | a mounted route counts as listed before it is |
| `OpenAPI` | `Document` | `KeepsDocument` | components that an unfinished operation adds are left out |
| `Users` | `Directory` | `KeepsDirectory` | a reader takes effect when it loads the header, `CreateUser` when it appends: the directory is the slice of the header that is being stored, if there is one, and an answer is there from that instant on |

`map` in `PROJECT.json` names the lines every
definition stands for; abstract and reference modules are translated from
nothing and have no entries. Operators introduced by "A plausible variant" are not
part of the model: each is a bug this code could have, and puts one property to
the test.

### State and actions

`Route` keeps `defaults` (the package variables), `route` (the fields of each
`Route` that options assign) and, per request slot, the handler's position
`pc`, its loop index `next`, its local `msg` (`req`), the `unread` bytes of the
body, the `calls` its method has received, the `outcome` of the call, the error
`mapper` in charge, the `response` and whether the client is `gone`. A slot is
used again after `Finish`, with `next` and `msg` left as garbage, so that an
invariant about a message is also one about what a previous request left.

| action | code |
|---|---|
| `SetDefault*`, `Map`, `OnSuccess`, `WithErrorMapper`, `WithMarshalOptions` | the functions of these names, nil arguments included |
| `Serve` | the program starts to listen |
| `Arrive` | entry of `Route.ServeHTTP`, `var req Req` |
| `BindNext`, `RejectBinding` | one turn of the binder loop |
| `Invoke`, `Return` | `rt.method(r.Context(), &req)` is called, returns |
| `Descend`, `WriteError` | the mapper delegates, answers |
| `WriteSuccess` | `writeJSON` or `writeResponse` |
| `Disconnect`, `Finish` | net/http: the client leaves, the handler has returned |

`Aggregate` has one goroutine per call: `Succeed` and `Fail` are the closure
after its method returned, `Record` is errgroup's `errOnce`, a step later, so
that other calls fail or are cancelled in between; `Wait` is `g.Wait` and what
the handler returns.

`App` keeps the `mux` as a set of entries, the list `operations`, per endpoint
the fields of its `route`, and where the registering goroutine is: `handleVerb`
validates (`validatePathBinders`) or panics, `Mount` is `Proxy` and
`mux.Handle` or a panic, `List` the append, `Recover` the caller who goes on.
`Handle` registers an opaque handler. `Map`, `OnSuccess`, `WithMarshalOptions`
and `Doc` write the route that mux and list point to already, and `Operations`
stores its `snapshot`. `program` never changes: it says what a run registers.

`Forwarding` builds the `chain` of handlers at startup (`WithMetadataForward`,
`Handler`, `Handle`, `Use`); a request is at one `hop` of it, with its headers
and the `outgoing` metadata of its context (`Arrive`, `Forward`,
`SetMetadata`, `Finish`).

| action of `OpenAPI` | code |
|---|---|
| `Root`, `assign`, `Finish` | `Generate`, `operation`, `bodySchema`, `responseSchema`, `assign` |
| `Describe`, `Wrap`, `Nest`, `Known`, `Enter` | a call of `messageRef`, `fieldSchema`, `dtoSchema` or `structRef` for a leaf, a wrapper, an anonymous struct, a registered name, a new one (with its placeholder) |
| `Skip`, `Flatten`, `Descend` | one turn of the loop in `messageSchema` or `addStructFields` |
| `Complete`, `Inlined`, `Flattened` | the loop ends |
| `ToRoot`, `ToWrapper`, `ToField` | a schema is returned to its caller |

`Users` has an action for every access to the slice: `Load` and `Scan` of the
readers; `Refuse`, `Number` (the length for the id), `AppendUser` (which loads
the header again and writes in place or to a larger array, with as much room as
the Go runtime likes to give: any member of `Rooms`), `StoreWord` for each word
of the header, in any order, and `Created`. In `Spec` the goroutines of all
callers interleave at these accesses without any restraint, as in the code.

A step of the binder loop is one action: a binder works on the request's own
message and body, which nobody else sees. The same holds for `WriteError` and
`WriteSuccess`: writing is the handler's last effect.

### Assumptions

* Two phases. Setters and options are called before requests are served, as
  their comments demand ("not safe for concurrent writes during request
  handling"). A setter during serving is a data race in Go and out of the
  model; the hazard list keeps it.
* Binders, transformers and mappers supplied by adopters are total and return:
  a user-supplied parser accepts some texts, a custom mapper answers with one
  status. Any other function is arbitrary code.
* A table that falls back on `DefaultErrorMapper` and is itself installed as the
  default recurses without end on an unknown reason. The program goes down when
  the stack is exhausted; in the model the request stays in `mapping`. The
  liveness properties of `Route` exclude it by name (`IsCircular`).
* A successful method returns a message, never nil.
* Routes are registered and configured by one goroutine, which nothing in the
  code synchronises with another.
* Hosts in patterns, percent-encoding and the redirects of an uncleaned path are
  left to net/http.
* No struct embeds `time.Time`, and the Go types of DTOs are of finite number.

## Runs

| run | instance | shows |
|---|---|---|
| `route_binding` | 1 request; 102 routes: every ordered pair of 10 binders, the empty list and a triple; 28 stdlib requests with boundary numerals (0, 3, 4, 9, 16) and 14 foreign ones with every kind of body; limit 2 or none; both extractors. 134 000 states | `BoundAsDeclared`: at each turn the message is the one the binders so far describe, and so is the one that is called. `ReadIsBounded`: at most limit + 1 bytes are read, by all binders of a route together. `KeepsPromise`: `Route` implements `Exchange`. |
| `route_errors` | 1 request, 3 tables with fallbacks, all 16 error codes × 6 lists of details, results that cannot be encoded, statuses 200, 204, 103, 0, two options, 3 × 4 mappers. 341 000 states | `TypeOK`, `AnsweredAsConfigured`: the answer is the one the configuration prescribes, computed without the chain of steps. `Redacted`: a 5xx withholds. |
| `route_serving` | 2 slots, 2 routes, 2 inputs, a chain of 4 mappers that ends or circles, disconnects, fairness. 37 000 states | `BoundAsDeclared` across concurrent and successive requests; liveness: `Decides`, `MapsToAnAnswer` (the mapping ends unless the installed mapper leads back to itself), `Released`. |
| `aggregate_fanout` | 1 request, 2 mandatory calls and 1 optional, 3 kinds of failure, cancellation, every kind of result, all options, 4 settings, fairness. 103 000 states | `TypeOK`, `NothingMissing`, `NoCollateral`, `NoneLeft`; `AnsweredAsConfigured` for aggregates; `KeepsPromise`: `Aggregate` implements `Feed`; `FailsFast`: one failure or the client's departure ends the request although the other calls would hang. |
| `app` | one program with 6 endpoints and 2 opaque patterns that conflict, repeat a name, miss a parameter or fit, in every order; one with 2 endpoints, all options of one of them, settings and reports in every order; all requests with up to 3 segments. 18 000 states | `TypeOK`, `ListedIsRouted`, `RoutedIsListed`, also between two steps and after a panic; `PathParametersArePresent`: what is validated at registration holds for every request the router dispatches; `PanicsForAReason`: nothing that would work is refused; `KeepsCatalog`: `App` implements `Catalog`. |
| `forwarding` | 2 Apps and a handler that sets metadata, nested up to 3 deep, allowlists of up to 3 names with repetitions and capitals, headers with up to 2 values, slot used again. 348 000 states | `TypeOK`; `OnlyAllowlisted`: no header outside the allowlist of an App that was passed; `DeliveredAsConfigured`: the innermost handler with something to say decides alone what the method gets. |
| `openapi` | 20 types with every kind of field and cycle; all lists of 2 out of 6 operations, and 72 with each cyclic type as a body and a response; stack of 12. 5 400 states | `TypeOK`; `PlaceholdersAreOpen`: no reference to an empty component when the document is done; `OverflowsOnEndlessTypes`: an exhausted stack shows a cycle without a named type in it; `Finishes`; `KeepsDocument`: `OpenAPI` implements `Document`. |
| `users_guarded` | 2 callers at once under `GuardedSpec`, 2 users at first and up to 5, arrays that grow by one or two, pages of every kind; symmetric callers. 683 000 states | `TypeOK`; `KeepsDirectory`: `Users` implements `Directory` although readers scan the array an append writes to, and calls answer in any order. |
| `claim_*` | one or two requests, four operations | each refutes sentences of the documentation, see below. |

Why these bounds. A pair of binders is enough for every interaction of two
(order, reset, second read of the body); the proof of `BindingHolds` covers
lists of any length. Body sizes 0 to 4 around a limit of 2 are below, at, one
over and two over the limit, so that the extra byte of `readBody` is both just
enough and exceeded. Int32 has 8 and int64 32 values in the instances, so that
3 and 4, 15 and 16 are on the two sides of the boundaries and 9 wraps to 1. Two
slots show isolation, as requests share configuration only. Three calls are
the least with a failing, a cancelled and an optional one at the same time.
Registrations interact in pairs (conflicts) and in their order, so each endpoint
occurs once. Three hops are the least with an App around a handler around an
App. Two operations are enough for one to reuse or to lose what another has put
into the document; types are shared by both. A stack of 12 is deeper than any
path of the instance that a placeholder ends. Two callers are the least that
overlap, one of them at work on an array or a header that the other has a copy
of; the proofs have any number. With up to five users and a room of 0 or 1
behind a new array, appends move, write in place and move again, in any order.
All constants of the configurations are bounds of this kind. Four of them are
guards: `MaxHops` and `MaxAllowed` of `Forwarding` end its startup, `MaxUsers`
of `Users` the calls that create users (a call begins only below it), and `MaxDepth` of `OpenAPI` is the stack, whose
end the program meets, too. Elsewhere slots make the state space finite. Symmetry
is used in `users_guarded` only, a run without liveness: callers are told apart
by nothing but what they are doing.

Fairness. `FairSpec` of `Route` is weakly fair to each handler goroutine (the
Go scheduler runs every runnable goroutine; the bytes of a body are assumed to
arrive, as the framework sets no read timeout), and to the return of a method
*only once its context is cancelled*: gRPC returns on cancellation, and nothing
else in this code bounds a call. Clients and startup have no fairness.
`FairSpec` of `Aggregate` does the same for each goroutine of the group with
the context of the group. `FairSpec` of `OpenAPI` is weakly fair to `Next`:
`Generate` runs in one goroutine and waits for nothing.

### Where documentation and code disagree

Shown by a run:

* `BoundAsDocumented` (`claim_binding`) — one call contradicts three sentences.
  `lookupEnum` converts to `int32` before it looks up, so `4294967298` is
  accepted as `2` (`README.md:205`, `bind/typed.go:272`); a limit of
  `math.MaxInt64` overflows in `limit + 1`, and every body is taken for an empty
  one (`bind/body.go:38`); `PathString` accepts an absent parameter
  (`README.md:184`).
* `ReasonIsDeclared` (`claim_reason`) — with two `ErrorInfo` details the first
  selects the row and the second is shown, undeclared, even on a 5xx
  (`errors.go:177`).
* `IsFaithful` (`claim_document`) — routes that normalise to one path and verb
  share an entry, and the last wins (`README.md:423`); a field of an embedded
  struct overrides an outer one before it, and the exported fields of an
  unexported embedded struct are missing (`reflectschema.go:68`); a message and
  a struct of one qualified name share a component (`openapi.go:4`).
* `IsGuarded` (`claim_guarded`) — the example shares a slice between goroutines
  without a lock, a mistake according to `README.md:616`.

Stated as the code has it by a property of a passing run:

* `AnsweredAsConfigured` — a message protojson cannot marshal is answered by
  encoding/json with the success status (`composition.go:307`).
* `MapsToAnAnswer` — a circular chain of mappers (`errors.go:173` recommends
  to install a table as the default, and any mapper may be its fallback).
* `DeliveredAsConfigured` — an App nested in another one that forwards anything
  drops what the outer one has forwarded (`README.md:397`).
* `OverflowsOnEndlessTypes` — `type List []List` and a struct that embeds a
  pointer to itself exhaust the stack (`reflectschema.go:56`).

## Proofs

All theorems hold for every value of the constants that satisfies the named
assumptions `BindersAssumption`, `ResponsesAssumption`, `RouteAssumption`,
`AggregateAssumption`, `AppAssumption`, `NoneAssumption`, `ServeMuxAssumption`,
`ForwardingAssumption`, `SchemasAssumption`, `OpenAPIAssumption` and
`UsersAssumption`: unless the table says otherwise, sets may be infinite, lists of binders, details and allowlists of any length, tables and
settings arbitrary, graphs of types of any shape. A graph of types is finite, as
a program has finitely many; the reference of `Serialization` counts on it. The one condition on the
world outside is in `AppAssumption`: a well-formed pattern matches some
request, so that the mux notices when an endpoint is registered twice. The
conditions about `None` (the value for what is absent) say that it is not also a
value that is present.

| theorem | states |
|---|---|
| `Route_proofs!TypeCorrect` | `Spec => []TypeOK` |
| `Route_proofs!RedactionHolds` | `Spec => []Redacted` |
| `Route_proofs!BindingHolds` | `Spec => []BoundAsDeclared`, assuming `HonestConfig` |
| `Route_proofs!ReadIsBoundedHolds` | `Spec => []ReadIsBounded` |
| `Route_proofs!KeepsThePromise` | `Spec => KeepsPromise` (`Route` implements `Exchange`), assuming `HonestConfig` |
| `Route_proofs!AnswerIsConfigured` | `Spec => []AnsweredAsConfigured` |
| `Aggregate_proofs!NeverPartial` | `Spec => []NothingMissing` |
| `Aggregate_proofs!BlamesTheCause` | `Spec => []NoCollateral` |
| `Aggregate_proofs!NoGoroutineLeft` | `Spec => []NoneLeft` |
| `Aggregate_proofs!AggregateTypeCorrect` | `Spec => []TypeOK` |
| `Aggregate_proofs!AggregateAnswer` | `Spec => []AnsweredAsConfigured` |
| `Aggregate_proofs!AggregateKeepsPromise` | `Spec => KeepsPromise` (`Aggregate` implements `Feed`) |
| `App_proofs!AppTypeCorrect` | `Spec => []TypeOK` |
| `App_proofs!ListedAreRouted` | `Spec => []ListedIsRouted` |
| `App_proofs!RoutedAreListed` | `Spec => []RoutedIsListed` |
| `App_proofs!PathParametersPresent` | `Spec => []PathParametersArePresent`, assuming that `HTTPRequests` is finite |
| `App_proofs!PanicsHaveAReason` | `Spec => []PanicsForAReason` |
| `App_proofs!AppKeepsCatalog` | `Spec => KeepsCatalog` (`App` implements `Catalog`) |
| `Forwarding_proofs!ForwardingTypeCorrect` | `Spec => []TypeOK` |
| `Forwarding_proofs!NothingElseIsForwarded` | `Spec => []OnlyAllowlisted` |
| `Forwarding_proofs!ConfiguredIsDelivered` | `Spec => []DeliveredAsConfigured` |
| `OpenAPI_proofs!PlaceholdersHold` | `Spec => []PlaceholdersAreOpen` |
| `OpenAPI_proofs!OpenAPITypeCorrect` | `Spec => []TypeOK` |
| `OpenAPI_proofs!OverflowsOnCycles` | `Spec => []OverflowsOnEndlessTypes`, assuming finitely many keys and `MaxDepth > (Cardinality(Keys) + 1) * Cardinality(Types)` |
| `OpenAPI_proofs!DocumentIsKept` | `Spec => KeepsDocument` (`OpenAPI` implements `Document`), assuming that all types the operations ask for, and the one of problem details, are in a set that is `Orderly` |
| `OpenAPI_proofs!OrderlyTypesFit` | `Spec => [](control # Overflow)`, under the assumptions of the last two |
| `Users_proofs!UsersTypeCorrect` | `Spec => []TypeOK`, for any number of callers and all their races, assuming that no answer is `None` (`AnswersTold`) |
| `Users_proofs!ServiceIsDirectory` | `GuardedSpec => KeepsDirectory` (`Users` with its header guarded implements `Directory`), for any number of overlapping calls, under the same assumption |

*Types.* `TypeOK` is not inductive: an action that maps an error needs an
error to be there. `IInv` adds `AtWork`, which ties the position of a handler
to what it holds. The first sections of `Route_proofs`, and `Responses_proofs`,
show that each operator returns what its caller expects; `Lemmas` has the facts
about minima, maxima and last indices on which `SelectInSeq` and
`SelectLastInSeq` rest, and those about sequences used as stacks and heaps.

*Redaction.* `MappedIsRedacted` covers the three kinds of mappers. The chain of
delegations does not matter: only the mapper that answers writes, and
`OnWireType` shows that net/http leaves a server error as it is.

*Binding.* `BoundAsDeclared` speaks of the message only. The invariant `BInv`
adds that the unread rest of the body is what `Binding` says is available for
the binder in turn (`AvailableIsRemaining`), without which the next read could
not be predicted. `BindIsDeclared` is the induction step: if the message is the
one the first n - 1 binders describe, then binding the n-th gives the one the
first n describe, by the case of the last writer. `HonestConfig` says that no
limit is the largest int64: `BodyIsRead` shows what happens there.

*Reading.* `ReadIsBounded` needs no such condition. `RInv` adds that a binder
finds the whole body or nothing (`ReadSoFar`): the first one that reads leaves
an empty rest, so that what several of them read does not add up (`BindReads`).

*The exchange.* `Route` keeps no verdict before it refuses, so the refinement
needs in `EInv` what the loop has behind it: no call, and no obstacle among the
first `next - 1` binders (`Heard`). When binding fails, its binder is then the
first obstacle (`BindObstacle`, `FirstObstacle`), which decides between 400 and
413; when the loop ends there is none, and `BInv` has the declared message. The
setters and options map to stuttering, as the exchange only sees settings once
the program serves.

*The answer.* `AnsweredAsConfigured` compares the response with the mapper at
the end of the chain, which the handler reaches one `Descend` at a time. `CInv`
of `Route` and of `Aggregate` says that the set of possible ends of the chain
(`Ends`) is at every step that of the first mapper; `DelegateEnds` is the step,
and `AnswersInCharge` the end.

*Aggregates.* `GInv` adds to the three properties where the goroutines are
(`InStep`), that a call which is over in a group without an error has left its
result (`Gathered`), and that an error in a closure that is a cancellation has
an earlier error in the group or a departed client (`Caused`). The last is what
makes `NoCollateral` inductive: when such an error is recorded first, the
client has left. The types of what a handler maps and writes are a second
invariant on top, `TInv`, as the group does not depend on them. For the
refinement of `Feed`, `FInv` adds that a running call has left neither result
nor error, and that the error of the group is that of one of its mandatory
calls (`Tracked`): the first to record an error closes the feed, and whatever
still succeeds or fails afterwards has to be a stutter.

*Registration.* Neither half of "listed if and only if routed" is inductive:
between the mux and the list an endpoint is in the one and not in the other.
`AInv` adds what the goroutine has behind it (`AtWork`), that no two entries of
the mux conflict (`ConflictFree`), that endpoints in the mux are validated ones
(`Validated`), and `Listings`: the endpoint being registered, and it alone, is
not listed. A second registration of an endpoint would break the last; it
panics, because a well-formed pattern conflicts with itself
(`ConflictsWithItself`). For `PathParametersPresent`, `DispatchIsCandidate`
shows that the router picks an entry that matches the request: of the entries
that do, the one that covers the fewest requests is the most specific, hence
the finite set of requests. What `validatePathBinders` has checked of its
pattern then holds for the request. `PanicsHaveAReason` needs an invariant of
its own, `Refused`, that a panicking verb method was refused by one of the two.
The catalog changes when the mux does, one step before the list: `Fresh` says
that the route mounted in between is as `Proxy` made it, because options can
only be chained onto what the verb method returns.

*Forwarding.* `FInv` adds `Idle`: no request is under way before the program
serves, so that no step of the startup changes what a request has passed.
`ForwardedMetadata` is the lemma about `forwardMetadata`: it leaves the
metadata as they are, or replaces them by values of the request's headers under
names of the list. Every other step keeps what explains the metadata, as a
request only passes more handlers. `ForwardedInFull` says it the other way
round: a name in the list arrives with all its values, once for each time it is
listed. That is a statement about slices of a sequence built with `%`
(`RepeatedSlices`). `DInv` attributes the metadata to the innermost handler
passed that contributes (`Decided`).

*Documents.* That a placeholder belongs to an activation at work on it
(`Covered`), and an activation has its own (`Marked`), depends on the stack:
every activation but the innermost waits for the schema of a field or an
element, and a flattened struct is right above the object it is flattened into
(`IsStack`), whose loop goes on where the struct's ends. `Turn` ties what
the generator does next to what is innermost. The proof corrected the property:
a stack that is exhausted just when a component is entered leaves a placeholder
without an activation, which the run, whose endless types never reach that
point, does not contain. `WInv` holds in all states of the run, also
with a stack of 3, where it does happen.

*What the document owes.* `Orderly` collects what goes wrong otherwise, and
`claim_document` shows that it does: a field that an embedded struct overwrites
though encoding/json prefers the outer one, an embedded struct that is not
exported, two types with one qualified name; and cycles without a name, which
exhaust the stack. TLC confirms (`OthersAreOrderly`) that all types of run
`openapi`, recursive as they are, are orderly together, but for the three that
are endless.

`KInv` says that there is a set of types that are done, such that, in the world
of the operation in work (`World`: its options, the root in turn, the types that
are due because a root leads there):

* the stack is a chain (`Chain`): every activation is for what the one below it
  waits for (`Link`), and a loop has merged into its properties, in order, what
  the fields before the one it is at show (`Merged`, `Seen`), on top of what an
  embedding loop had before;
* the table has what was documented before, and beyond it only components of due
  types, which are either open or described as the reference says (`TableOf`);
* of what is done, all that it leads to is done, unless it has a component that
  is still open (`DoneOf`). This exception is the memo's: `Known` returns a
  reference to a component whose activation is further down. It is why "done" is
  a set that only closes when the stack is empty, and not a property of a type.

When an operation has all of its schemas the stack is empty, nothing is open,
and what is done is closed under "leads to": it includes all that is due
(`TableAtEnd`), so that the components are those that `Document` adds. Between
assignments nothing that was documented is touched, as a new component has a
fresh key and the one that is completed was open (`Untouched`).

The induction along the graph of types is made by hand: `CountingUp` for the
levels (`Recursion`), and a rank (`Ranked`) that falls wherever one type follows
another without a placeholder, from which `MembersOf`, `SchemaOf` and `PartsAre`
have the equations of the reference without its levels. `NextIsForemost` and
`MergedAll` are the heart of it: writing to one map in the order of the fields
gives what the rule of depths gives, if the last one to be written is always the
least deep.

*Endless types.* `LInv` adds that an activation without a component was called
by one of a type that has its type among its fields, elements or embedded
structs (`Edges`). A placeholder is entered once, so that between two
activations of a component there is another component: an exhausted stack of
the assumed depth has, by the pigeonhole principle, two activations of one type
with the same component next above them, hence none between them, and all
steps from one to the other are edges. The bound is a sufficient one; the run
shows that 12 is enough for its types.

*Users.* `UInv` holds whatever races: the header in memory may be a mixture of
several, but each of its words is one that some append has computed (`Typed`),
arrays are never given up, and what a caller holds fits where it is (`Holds`).
No more can be said of the code as it is: `claim_guarded` shows two calls at the
header, one of them to store, and Go gives such an execution no meaning.

*The directory.* `README.md:616` tells the reader to guard a shared slice with a
mutex. `GuardedSpec` is the service under the weakest guard that does so: no
call begins to access the header between the first access of a `CreateUser` and
its last. Calls still overlap, a refused one and a scan need no guard, and a
reader goes on with its copy while others append. `GInv` says why this is
enough. At most one caller is creating. The header that counts, the one in
memory or the one that is being stored (`Current`), describes its array (`Whole`),
and the one in memory differs from it in the pending words only. A reader's
copy can be read (`Readable`), and if it is of the current array it ends no
later than the current slice does (`Orderly`). Hence an append writes behind
every copy of that array, or to an array that nobody has (`AppendSpares`), and
what a scan finds is what there was at its load. Filtering in place, into
`users[:0]` instead of `users[:0:0]` (`main.go:62`), breaks that; it is the
mutant of the property.

The loop of `ListUsers` is a recursive function, about which the library's
induction theorems cannot be used; a least turn that has no value, or breaks
what is claimed, serves in their stead (`CountingUp`, `FilterRuns`): after n
turns the loop has kept as many users as have the role among the first n, each
behind those before it. The page is then a question of counting (`PageIsCut`).

Only model-checked, and why:

* the liveness properties `Decides`, `MapsToAnAnswer`, `Released`, `FailsFast`
  and `Finishes`: the prover has no fairness;
* `KeepsDocument` where an operation asks for an endless type, which the run
  has as well: what was documented before has to stay as it was;
* the four claims, which are refuted: among them that the example's accesses are
  guarded, without which the service keeps no promise to its callers.

## Not modelled

* The generated code of `examples/basic/userpb`: descriptors, accessors and
  stubs made by protoc. `Route` has a gRPC method as what its callers rely on.
* `newInProcessClient`, `newApp` and `main` of the example: a fixed sequence of
  library calls without state of its own. Its routes are of the kinds that the
  instances of `Route`, `App` and `Aggregate` contain.
* Setters called while requests are served: a data race, documented as
  forbidden. Any outcome would be possible.
* Within the modelled components: the wording of messages, JSON syntax, header
  values other than `Content-Type`, the formats of leaf schemas, the texts of
  documentation, and what user-supplied functions do.

## Plan

1. Done: `Binders`, `Binding`, `Responses`, `Route` with `Exchange`; `Aggregate`
   with `Feed`; `App` with `Catalog`; `Forwarding`; `OpenAPI` with `Document`;
   `Users` with `Directory`.
2. Done: the safety properties of `Route`, `Aggregate`, `App` and `Forwarding`,
   with their refinements; `PlaceholdersAreOpen` and `OverflowsOnEndlessTypes`;
   `Users`, its types whatever races, and its refinement with the header guarded.
3. Done: `KeepsDocument` for orderly types, `TypeOK` of `OpenAPI`, and that
   orderly types fit the stack.
