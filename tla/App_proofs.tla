----------------------------- MODULE App_proofs -----------------------------
(***************************************************************************)
(* Theorems about module App, for every set of endpoints and opaque        *)
(* patterns, every vocabulary of paths, and every order of registrations,  *)
(* panics, options and reports.                                            *)
(***************************************************************************)
EXTENDS App, Lemmas, FiniteSetTheorems

-----------------------------------------------------------------------------
(* The inductive invariant: its types, ...                                 *)

Entry == [method : Verbs \cup {NoMethod}, path : Seq(Segment), handler : Endpoints \cup {Opaque}]
Operation == [method : Verbs, path : Seq(Segment), route : Endpoints]

\* ... what the goroutine that registers has behind it, ...
AtWork ==
  /\ pc \in {"validated", "mounted"} => call \in Endpoints /\ validatePathBinders(call)
  /\ pc = "mounted" => EntryOf(call) \in mux /\ route[call] # None

\* ... what the mux has accepted, ...
ConflictFree ==
  /\ \A entry \in mux : WellFormed(entry.path)
  /\ \A d, e \in mux : d # e => ~Conflicts(d, e)

\* ... from the verb methods only what they have validated, ...
Validated ==
  \A entry \in mux : entry.handler # Opaque =>
    entry = EntryOf(entry.handler) /\ validatePathBinders(entry.handler)

\* ... and which of it is listed: all but the one that is being registered.
ListedOnce(e) ==
  \E i \in DOMAIN operations :
    operations[i].route = e /\ \A j \in DOMAIN operations : operations[j].route = e => j = i

Pending(e) == pc = "mounted" /\ e = call

Listings ==
  /\ \A entry \in mux : entry.handler # Opaque /\ ~Pending(entry.handler) => ListedOnce(entry.handler)
  /\ \A i \in DOMAIN operations : ~Pending(operations[i].route)

AInv == TypeOK /\ AtWork /\ ConflictFree /\ Validated /\ ListedIsRouted /\ Listings

-----------------------------------------------------------------------------
(* Facts about operators                                                   *)

\* An endpoint is an entry of the mux and an operation of the list.
LEMMA EndpointType ==
  ASSUME NEW e \in Endpoints
  PROVE  /\ EntryOf(e) \in Entry /\ EntryOf(e).handler = e /\ EntryOf(e).handler # Opaque
         /\ OperationOf(e) \in Operation /\ OperationOf(e).route = e
<1>1. e \in Endpoint
  BY AppAssumption
<1>2. e.method \in Verbs /\ e.path \in Seq(Segment)
  BY <1>1 DEF Endpoint
<1>3. Opaque # e
  BY AppAssumption
<1> QED BY <1>2, <1>3 DEF EntryOf, OperationOf, Entry, Operation

\* The same pattern twice is a conflict, as some request has its path.
LEMMA ConflictsWithItself ==
  ASSUME NEW e \in Endpoints, WellFormed(e.path)
  PROVE  Conflicts(EntryOf(e), EntryOf(e))
<1>1. Covers(e) # {}
  BY AppAssumption
<1>2. Covers(EntryOf(e)) = Covers(e)
  BY DEF Covers, Matches, EntryOf
<1> QED BY <1>1, <1>2 DEF Conflicts

\* Conflicts depends on methods and paths, and not on their order.
LEMMA ConflictsIsSymmetric ==
  ASSUME NEW d, NEW e, Conflicts(d, e)
  PROVE  Conflicts(e, d)
BY DEF Conflicts

\* A new Route has the fields of one.
LEMMA NewRouteType == NewRoute \in RouteFields /\ NewRoute # None
<1>1. NewRoute \in RouteFields
  BY AppAssumption DEF NewRoute, RouteFields
<1> QED BY <1>1, NoneAssumption

-----------------------------------------------------------------------------
(* The steps                                                               *)

\* The program starts in the invariant.
LEMMA InitAInv == Init => AInv
<1> SUFFICES ASSUME Init PROVE AInv
  OBVIOUS
<1>1. TypeOK
  BY AppAssumption DEF Init, TypeOK
<1>2. AtWork /\ ConflictFree /\ Validated /\ ListedIsRouted /\ Listings
  BY DEF Init, AtWork, ConflictFree, Validated, ListedIsRouted, Listings, Pending
<1> QED BY <1>1, <1>2 DEF AInv

\* What a step of the caller outside of handleVerb keeps: it is neither in
\* one nor touches mux and list.
LEMMA OutsideStep ==
  ASSUME AInv, TypeOK', UNCHANGED <<mux, operations>>,
         pc' \notin {"validated", "mounted"}, pc # "mounted",
         \A e \in Endpoints : route[e] # None => route'[e] # None
  PROVE  AInv'
<1> USE DEF AInv
<1>1. AtWork'
  BY DEF AtWork
<1>2. ConflictFree' /\ Validated'
  BY DEF ConflictFree, Validated
<1>3. ListedIsRouted'
  BY DEF ListedIsRouted, Registered
<1>4. Listings'
  BY DEF Listings, Pending, ListedOnce
<1> QED BY <1>1, <1>2, <1>3, <1>4

\* handleVerb validates or panics.
LEMMA handleVerbStep ==
  ASSUME AInv, NEW e \in Endpoints, handleVerb(e), UNCHANGED program
  PROVE  AInv'
<1> USE DEF AInv
<1>1. TypeOK'
  BY DEF TypeOK, handleVerb
<1>2. AtWork'
  BY DEF AtWork, handleVerb
<1>3. ConflictFree' /\ Validated'
  BY DEF ConflictFree, Validated, handleVerb
<1>4. ListedIsRouted'
  BY DEF ListedIsRouted, Registered, handleVerb
<1>5. Listings'
  BY DEF Listings, Pending, ListedOnce, handleVerb
<1> QED BY <1>1, <1>2, <1>3, <1>4, <1>5

\* The mux takes the entry of a new Route, which no other has, or panics.
LEMMA MountStep ==
  ASSUME AInv, Mount, UNCHANGED program
  PROVE  AInv'
<1> USE DEF AInv
<1>0. call \in Endpoints /\ validatePathBinders(call) /\ pc = "validated"
  BY DEF AtWork, Mount
<1>1. CASE Panics(mux, EntryOf(call))
  <2>1. pc' = "panicked" /\ UNCHANGED <<mux, route, operations, call, defaultMarshal>>
    BY <1>1 DEF Mount
  <2>2. TypeOK'
    BY <2>1 DEF TypeOK
  <2> QED BY <1>0, <2>1, <2>2, OutsideStep
<1>2. CASE ~Panics(mux, EntryOf(call))
  <2>1. /\ pc' = "mounted" /\ mux' = mux \cup {EntryOf(call)}
        /\ route' = [route EXCEPT ![call] = NewRoute]
        /\ UNCHANGED <<operations, call, defaultMarshal>>
    BY <1>2 DEF Mount
  <2>2. WellFormed(call.path) /\ \A e \in mux : ~Conflicts(e, EntryOf(call))
    BY <1>2 DEF Panics, EntryOf
  <2>3. EntryOf(call) \notin mux
    BY <1>0, <2>2, ConflictsWithItself
  <2>4. EntryOf(call) \in Entry /\ EntryOf(call).handler = call /\ EntryOf(call).path = call.path
    BY <1>0, EndpointType DEF EntryOf
  <2>5. TypeOK'
    BY <1>0, <2>1, <2>4, NewRouteType DEF TypeOK, Entry
  <2>6. AtWork'
    BY <1>0, <2>1, NewRouteType DEF AtWork, TypeOK
  <2>7. ConflictFree'
    <3>1. \A entry \in mux' : WellFormed(entry.path)
      BY <2>1, <2>2, <2>4 DEF ConflictFree
    <3>2. ASSUME NEW d \in mux', NEW e \in mux', d # e, Conflicts(d, e)
          PROVE  FALSE
      BY <2>1, <2>2, <3>2, ConflictsIsSymmetric DEF ConflictFree
    <3> QED BY <3>1, <3>2 DEF ConflictFree
  <2>8. Validated'
    BY <1>0, <2>1, <2>4 DEF Validated
  <2>9. ListedIsRouted'
    BY <1>0, <2>1, NewRouteType DEF ListedIsRouted, Registered, TypeOK
  <2>10. Listings'
    <3>1. ASSUME NEW entry \in mux', entry.handler # Opaque, ~Pending(entry.handler)'
          PROVE  ListedOnce(entry.handler)'
      <4>1. entry \in mux
        BY <2>1, <2>4, <3>1 DEF Pending
      <4>2. ListedOnce(entry.handler)
        BY <1>0, <3>1, <4>1 DEF Listings, Pending
      <4> QED BY <2>1, <4>2 DEF ListedOnce
    <3>2. ASSUME NEW i \in DOMAIN operations', Pending(operations[i].route)'
          PROVE  FALSE
      <4>1. operations[i].route = call /\ EntryOf(operations[i].route) \in mux
        BY <2>1, <3>2 DEF Pending, ListedIsRouted
      <4> QED BY <2>3, <4>1
    <3> QED BY <2>1, <3>1, <3>2 DEF Listings
  <2> QED BY <2>5, <2>6, <2>7, <2>8, <2>9, <2>10
<1> QED BY <1>1, <1>2

\* The list gets the entry that was pending, and nothing else was.
LEMMA ListStep ==
  ASSUME AInv, List, UNCHANGED program
  PROVE  AInv'
<1> USE DEF AInv
<1>0. /\ pc = "mounted" /\ call \in Endpoints /\ EntryOf(call) \in mux /\ route[call] # None
      /\ pc' = "idle" /\ call' = None /\ operations' = Append(operations, OperationOf(call))
      /\ UNCHANGED <<mux, route, defaultMarshal>>
  BY DEF AtWork, List
<1>1. OperationOf(call) \in Operation /\ OperationOf(call).route = call
  BY <1>0, EndpointType
<1>2. operations \in Seq(Operation)
  BY DEF TypeOK, Operation
<1> DEFINE n == Len(operations)
<1>3. /\ n \in Nat /\ DOMAIN operations = 1 .. n /\ DOMAIN operations' = 1 .. n + 1
      /\ \A i \in 1 .. n : operations'[i] = operations[i]
      /\ operations'[n + 1] = OperationOf(call)
      /\ operations' \in Seq(Operation)
  BY <1>0, <1>1, <1>2
<1>4. TypeOK'
  BY <1>0, <1>3 DEF TypeOK, Operation
<1>5. AtWork'
  BY <1>0 DEF AtWork
<1>6. ConflictFree' /\ Validated'
  BY <1>0 DEF ConflictFree, Validated
<1>7. \A i \in 1 .. n : operations[i].route # call
  BY <1>0, <1>3 DEF Listings, Pending
<1>8. ListedIsRouted'
  <2> SUFFICES ASSUME NEW i \in DOMAIN operations'
               PROVE  /\ EntryOf(operations'[i].route) \in mux'
                      /\ operations'[i].route \in Registered'
                      /\ operations'[i] = OperationOf(operations'[i].route)
    BY DEF ListedIsRouted
  <2>1. CASE i = n + 1
    BY <1>0, <1>1, <1>3, <2>1 DEF Registered
  <2>2. CASE i # n + 1
    <3>1. i \in 1 .. n
      BY <1>3, <2>2
    <3> QED BY <1>0, <1>3, <3>1 DEF ListedIsRouted, Registered
  <2> QED BY <2>1, <2>2
<1>9. Listings'
  <2> SUFFICES ASSUME NEW entry \in mux', entry.handler # Opaque
               PROVE  ListedOnce(entry.handler)'
    BY <1>0 DEF Listings, Pending
  <2> DEFINE h == entry.handler
  <2>1. CASE h = call
    <3>1. operations'[n + 1].route = h
      BY <1>1, <1>3, <2>1
    <3>2. \A j \in DOMAIN operations' : operations'[j].route = h => j = n + 1
      BY <1>3, <1>7, <2>1
    <3> QED BY <1>3, <3>1, <3>2 DEF ListedOnce
  <2>2. CASE h # call
    <3>1. ListedOnce(h)
      BY <1>0, <2>2 DEF Listings, Pending
    <3>2. PICK i \in 1 .. n : operations[i].route = h
                              /\ \A j \in 1 .. n : operations[j].route = h => j = i
      BY <1>3, <3>1 DEF ListedOnce
    <3>3. operations'[n + 1].route # h
      BY <1>1, <1>3, <2>2
    <3>4. \A j \in DOMAIN operations' : operations'[j].route = h => j = i
      BY <1>3, <3>2, <3>3
    <3>5. i \in DOMAIN operations' /\ operations'[i].route = h
      BY <1>3, <3>2
    <3> QED BY <3>4, <3>5 DEF ListedOnce
  <2> QED BY <2>1, <2>2
<1> QED BY <1>4, <1>5, <1>6, <1>8, <1>9

\* An opaque handler is no endpoint, and conflicts with none.
LEMMA HandleStep ==
  ASSUME AInv, NEW p \in OpaquePatterns, Handle(p), UNCHANGED program
  PROVE  AInv'
<1> USE DEF AInv
<1>0. pc = "idle"
  BY DEF Handle
<1>1. CASE Panics(mux, p)
  <2>1. pc' = "panicked" /\ UNCHANGED <<mux, route, operations, call, defaultMarshal>>
    BY <1>1 DEF Handle
  <2>2. TypeOK'
    BY <2>1 DEF TypeOK
  <2> QED BY <1>0, <2>1, <2>2, OutsideStep
<1>2. CASE ~Panics(mux, p)
  <2> DEFINE new == [method |-> p.method, path |-> p.path, handler |-> Opaque]
  <2>1. pc' = "idle" /\ mux' = mux \cup {new} /\ UNCHANGED <<route, operations, call, defaultMarshal>>
    BY <1>2 DEF Handle
  <2>2. new \in Entry /\ new.handler = Opaque /\ new.path = p.path
    BY AppAssumption DEF Entry
  <2>3. WellFormed(new.path) /\ \A e \in mux : ~Conflicts(e, p)
    BY <1>2 DEF Panics
  <2>4. Covers(new) = Covers(p)
    BY DEF Covers, Matches
  <2>5. \A e \in mux : ~Conflicts(e, new)
    BY <2>3, <2>4 DEF Conflicts
  <2> HIDE DEF new
  <2>6. TypeOK'
    BY <2>1, <2>2 DEF TypeOK, Entry
  <2>7. AtWork'
    BY <2>1 DEF AtWork
  <2>8. ConflictFree'
    <3>1. \A entry \in mux' : WellFormed(entry.path)
      BY <2>1, <2>3 DEF ConflictFree
    <3>2. ASSUME NEW d \in mux', NEW e \in mux', d # e, Conflicts(d, e)
          PROVE  FALSE
      BY <2>1, <2>5, <3>2, ConflictsIsSymmetric DEF ConflictFree
    <3> QED BY <3>1, <3>2 DEF ConflictFree
  <2>9. Validated'
    BY <2>1, <2>2 DEF Validated
  <2>10. ListedIsRouted'
    BY <2>1 DEF ListedIsRouted, Registered
  <2>11. Listings'
    BY <1>0, <2>1, <2>2 DEF Listings, Pending, ListedOnce
  <2> QED BY <2>6, <2>7, <2>8, <2>9, <2>10, <2>11
<1> QED BY <1>1, <1>2

\* An option assigns a field of the Route of the endpoint.
LEMMA ChainSets ==
  ASSUME NEW e \in Endpoints, route[e] \in RouteFields, Chain(e)
  PROVE  \E rt \in RouteFields : route' = [route EXCEPT ![e] = rt]
<1>1. CASE \E dto \in DTOChoices \cup {None} : Map(e, dto)
  <2>1. PICK dto \in DTOChoices \cup {None} : route' = [route EXCEPT ![e].mapOut = dto]
    BY <1>1 DEF Map
  <2>2. [route[e] EXCEPT !.mapOut = dto] \in RouteFields
    BY DEF RouteFields
  <2> QED BY <2>1, <2>2
<1>2. CASE \E status \in StatusChoices : OnSuccess(e, status)
  <2>1. PICK status \in StatusChoices : route' = [route EXCEPT ![e].successStatus = status]
    BY <1>2 DEF OnSuccess
  <2>2. [route[e] EXCEPT !.successStatus = status] \in RouteFields
    BY DEF RouteFields
  <2> QED BY <2>1, <2>2
<1>3. CASE \E o \in MarshalChoices : WithMarshalOptions(e, o)
  <2>1. PICK o \in MarshalChoices : route' = [route EXCEPT ![e].marshal = o]
    BY <1>3 DEF WithMarshalOptions
  <2>2. [route[e] EXCEPT !.marshal = o] \in RouteFields
    BY DEF RouteFields
  <2> QED BY <2>1, <2>2
<1>4. CASE \E d \in DocChoices : Doc(e, d)
  <2>1. PICK d \in DocChoices : route' = [route EXCEPT ![e].doc = d]
    BY <1>4 DEF Doc
  <2>2. [route[e] EXCEPT !.doc = d] \in RouteFields
    BY DEF RouteFields
  <2> QED BY <2>1, <2>2
<1> QED BY <1>1, <1>2, <1>3, <1>4 DEF Chain

\* An option changes a Route that is there.
LEMMA ChainStep ==
  ASSUME AInv, NEW e \in Endpoints, Chain(e), UNCHANGED program
  PROVE  AInv'
<1> USE DEF AInv
<1>1. /\ pc = "idle" /\ route[e] # None /\ route[e] \in RouteFields
      /\ UNCHANGED <<mux, operations, pc, call, defaultMarshal>>
  BY DEF Chain, Map, OnSuccess, WithMarshalOptions, Doc, Configuring, Registered, TypeOK
<1>2. PICK rt \in RouteFields : route' = [route EXCEPT ![e] = rt]
  BY <1>1, ChainSets
<1>3. route \in [Endpoints -> RouteFields \cup {None}]
  BY DEF TypeOK
<1>4. TypeOK'
  BY <1>1, <1>2, <1>3 DEF TypeOK
<1>5. \A d \in Endpoints : route[d] # None => route'[d] # None
  BY <1>2, <1>3, NoneAssumption
<1> QED BY <1>1, <1>4, <1>5, OutsideStep

\* Every step keeps the invariant.
LEMMA NextAInv == AInv /\ [Next]_vars => AInv'
<1> SUFFICES ASSUME AInv, [Next]_vars PROVE AInv'
  OBVIOUS
<1>1. program.endpoints \subseteq Endpoints /\ program.patterns \subseteq OpaquePatterns
      /\ program.configured \subseteq Endpoints
  BY AppAssumption DEF AInv, TypeOK, Program
<1>2. CASE UNCHANGED vars
  BY <1>2 DEF vars, AInv, TypeOK, AtWork, ConflictFree, Validated, ListedIsRouted, Registered,
              Listings, Pending, ListedOnce
<1>3. CASE Next
  <2>0. UNCHANGED program
    BY <1>3 DEF Next
  <2>1. CASE \E e \in program.endpoints : handleVerb(e)
    BY <1>1, <2>0, <2>1, handleVerbStep
  <2>2. CASE Mount
    BY <2>0, <2>2, MountStep
  <2>3. CASE List
    BY <2>0, <2>3, ListStep
  <2>4. CASE Recover
    <3>1. /\ pc = "panicked" /\ pc' = "idle" /\ call' = None
          /\ UNCHANGED <<mux, operations, route, defaultMarshal>>
      BY <2>4 DEF Recover
    <3>2. TypeOK'
      BY <2>0, <3>1 DEF AInv, TypeOK
    <3> QED BY <3>1, <3>2, OutsideStep
  <2>5. CASE \E p \in program.patterns : Handle(p)
    BY <1>1, <2>0, <2>5, HandleStep
  <2>6. CASE \E e \in program.configured : Chain(e)
    BY <1>1, <2>0, <2>6, ChainStep
  <2>7. CASE \E o \in MarshalChoices : SetDefaultMarshalOptions(o)
    <3>1. /\ pc = "idle" /\ defaultMarshal' \in MarshalChoices
          /\ UNCHANGED <<mux, operations, route, pc, call>>
      BY <2>7 DEF SetDefaultMarshalOptions
    <3>2. TypeOK'
      BY <2>0, <3>1 DEF AInv, TypeOK
    <3> QED BY <3>1, <3>2, OutsideStep
  <2>8. CASE Operations
    <3>1. pc = "idle" /\ UNCHANGED <<mux, operations, route, pc, call, defaultMarshal>>
      BY <2>8 DEF Operations
    <3>2. TypeOK'
      BY <2>0, <3>1 DEF AInv, TypeOK
    <3> QED BY <3>1, <3>2, OutsideStep
  <2> QED BY <1>3, <2>1, <2>2, <2>3, <2>4, <2>5, <2>6, <2>7, <2>8 DEF Next, Register, Documenting
<1> QED BY <1>2, <1>3

\* It holds in every reachable state.
LEMMA AInvHolds == Spec => []AInv
BY InitAInv, NextAInv, PTL DEF Spec

-----------------------------------------------------------------------------
(* The theorems                                                            *)

\* Every reachable state of an App is well typed.
THEOREM AppTypeCorrect == Spec => []TypeOK
<1>1. AInv => TypeOK
  BY DEF AInv
<1> QED BY <1>1, AInvHolds, PTL

\* What Operations shows is served, by the Route the caller configures,
\* whatever panics in between.
THEOREM ListedAreRouted == Spec => []ListedIsRouted
<1>1. AInv => ListedIsRouted
  BY DEF AInv
<1> QED BY <1>1, AInvHolds, PTL

\* What the verb methods have mounted is listed, once.
THEOREM RoutedAreListed == Spec => []RoutedIsListed
<1>1. AInv => RoutedIsListed
  <2> SUFFICES ASSUME AInv, pc # "mounted", NEW entry \in mux, entry.handler # Opaque
               PROVE  \E i \in DOMAIN operations :
                        /\ operations[i].route = entry.handler
                        /\ \A j \in DOMAIN operations : operations[j].route = entry.handler => j = i
    BY DEF RoutedIsListed
  <2>1. ListedOnce(entry.handler)
    BY DEF AInv, Listings, Pending
  <2> QED BY <2>1 DEF ListedOnce
<1> QED BY <1>1, AInvHolds, PTL

-----------------------------------------------------------------------------
(* Dispatching                                                             *)

\* Some entry answers each request that one matches: the one with the fewest
\* requests of its own is the most specific, as entries that overlap contain
\* one another.
LEMMA DispatchIsCandidate ==
  ASSUME AInv, IsFiniteSet(HTTPRequests),
         NEW r \in HTTPRequests, Candidates(mux, r) # {}
  PROVE  Dispatch(mux, r) \in Candidates(mux, r)
<1> DEFINE C == Candidates(mux, r)
           size(e) == Cardinality(Covers(e))
           Sizes == {size(e) : e \in C}
<1>1. \A e \in C : e \in mux /\ r \in Covers(e)
  BY DEF Candidates, Covers
<1>2. \A e \in C : IsFiniteSet(Covers(e)) /\ size(e) \in Nat
  <2> TAKE e \in C
  <2>1. Covers(e) \subseteq HTTPRequests
    BY DEF Covers
  <2>2. IsFiniteSet(Covers(e))
    BY <2>1, FS_Subset
  <2> QED BY <2>2, FS_CardinalityType
<1>3. Sizes \in SUBSET Nat /\ Sizes # {}
  BY <1>2
<1>4. PICK n \in Sizes : \A m \in Sizes : n <= m
  BY <1>3, SmallestInNat
<1>5. PICK e \in C : size(e) = n
  BY <1>4
<1>6. ASSUME NEW d \in C, d # e
      PROVE  Covers(e) \subseteq Covers(d)
  <2>1. ~Conflicts(e, d) /\ Covers(e) \cap Covers(d) # {}
    BY <1>1, <1>6 DEF AInv, ConflictFree
  <2>2. CASE Covers(d) \subseteq Covers(e) /\ Covers(d) # Covers(e)
    <3>1. size(d) < size(e)
      BY <1>2, <2>2, FS_Subset
    <3>2. size(d) \in Sizes /\ size(d) \in Nat /\ size(e) \in Nat
      BY <1>2
    <3> QED BY <1>4, <1>5, <3>1, <3>2
  <2> QED BY <2>1, <2>2 DEF Conflicts
<1>7. \E x \in C : \A d \in C : x = d \/ Covers(x) \subseteq Covers(d)
  BY <1>6
<1> QED BY <1>7 DEF Dispatch

\* A name that the pattern declares has a text in every request it matches.
LEMMA NameIsFound ==
  ASSUME NEW path \in Seq(Segment), NEW texts \in Seq(STRING), NEW name,
         WellFormed(path), MatchesPath(path, texts), name \in patternPathParams(path)
  PROVE  FindsText(path, texts, name)
<1> DEFINE i == CHOOSE i \in DOMAIN path : IsNamed(path[i]) /\ path[i].text = name
           v == PathValue(path, texts, name)
<1>1. i \in DOMAIN path /\ IsNamed(path[i]) /\ path[i].text = name
  BY DEF patternPathParams
<1>2. i \in 1 .. Len(path) /\ Len(path) \in Nat /\ Len(texts) \in Nat
  BY <1>1
<1>3. v = IF path[i].kind = "rest" THEN SubSeq(texts, i, Len(texts)) ELSE <<texts[i]>>
  BY <1>1 DEF PathValue
<1> HIDE DEF i, v
<1>4. CASE path[i].kind = "rest"
  <2>1. i = Len(path) /\ Len(texts) >= i
    BY <1>1, <1>4 DEF WellFormed, MatchesPath
  <2>2. v = SubSeq(texts, i, Len(texts)) /\ Len(SubSeq(texts, i, Len(texts))) # 0
    BY <1>2, <1>3, <1>4, <2>1
  <2>3. v # <<>>
    <3>1. Len(<<>>) = 0
      OBVIOUS
    <3> QED BY <2>2, <3>1
  <2> QED BY <1>4, <2>1, <2>3 DEF FindsText, v
<1>5. CASE path[i].kind # "rest"
  <2>1. path[i].kind = "wildcard"
    BY <1>1, <1>5 DEF IsNamed
  <2>2. texts[i] # ""
    BY <1>1, <2>1 DEF MatchesPath, MatchesSegment
  <2>3. v # <<>> /\ v # <<"">>
    BY <1>3, <1>5, <2>2
  <2> QED BY <2>3 DEF FindsText, v
<1> QED BY <1>4, <1>5

\* No path binder of a route misses its parameter on a request that the
\* router gives to this route, however many routes overlap.
THEOREM PathParametersPresent ==
  ASSUME IsFiniteSet(HTTPRequests)
  PROVE  Spec => []PathParametersArePresent
<1>1. AInv => PathParametersArePresent
  <2> SUFFICES ASSUME AInv, NEW r \in HTTPRequests, Candidates(mux, r) # {},
                      Dispatch(mux, r).handler # Opaque,
                      NEW name \in PathNames(Dispatch(mux, r).handler)
               PROVE  FindsText(Dispatch(mux, r).path, r.path, name)
    BY DEF PathParametersArePresent
  <2> DEFINE entry == Dispatch(mux, r)
             e == entry.handler
  <2>1. entry \in mux /\ Matches(entry, r)
    BY DispatchIsCandidate DEF Candidates
  <2>2. entry = EntryOf(e) /\ validatePathBinders(e) /\ WellFormed(entry.path)
    BY <2>1 DEF AInv, Validated, ConflictFree
  <2>3. entry.path = e.path /\ entry.path \in Seq(Segment)
    BY <2>1, <2>2 DEF EntryOf, AInv, TypeOK
  <2>4. r.path \in Seq(STRING)
    BY ServeMuxAssumption DEF HTTPRequests
  <2>5. name \in patternPathParams(entry.path)
    BY <2>2, <2>3 DEF PathNames, validatePathBinders
  <2>6. MatchesPath(entry.path, r.path)
    BY <2>1 DEF Matches
  <2> QED BY <2>2, <2>3, <2>4, <2>5, <2>6, NameIsFound
<1> QED BY <1>1, AInvHolds, PTL

-----------------------------------------------------------------------------
(* Panics                                                                  *)

\* The goroutine is in no verb method when it is idle, and in one that was
\* refused when it panics, unless App.Handle has panicked.
Refused ==
  /\ pc = "idle" => call = None
  /\ pc = "panicked" /\ call # None =>
       call \in Endpoints /\ (Panics(mux, EntryOf(call)) \/ ~validatePathBinders(call))

\* Every step keeps the reason of a panic.
LEMMA NextRefused == AInv /\ Refused /\ [Next]_vars => Refused'
<1> SUFFICES ASSUME AInv, Refused, [Next]_vars PROVE Refused'
  OBVIOUS
<1>1. program.endpoints \subseteq Endpoints
  BY AppAssumption DEF AInv, TypeOK, Program
<1>2. CASE UNCHANGED vars
  BY <1>2 DEF vars, Refused, Panics
<1>3. CASE \E e \in program.endpoints : handleVerb(e)
  BY <1>1, <1>3 DEF handleVerb, Refused
<1>4. CASE Mount
  BY <1>4 DEF Mount, Refused, AInv, AtWork
<1>5. CASE List
  BY <1>5 DEF List, Refused
<1>6. CASE Recover
  BY <1>6 DEF Recover, Refused
<1>7. CASE \E p \in program.patterns : Handle(p)
  BY <1>7 DEF Handle, Refused
<1>8. CASE \E e \in program.configured : Chain(e)
  BY <1>8 DEF Chain, Map, OnSuccess, WithMarshalOptions, Doc, Configuring, Refused
<1>9. CASE (\E o \in MarshalChoices : SetDefaultMarshalOptions(o)) \/ Operations
  <2>1. pc = "idle" /\ UNCHANGED <<pc, call>>
    BY <1>9 DEF SetDefaultMarshalOptions, Operations
  <2> QED BY <2>1 DEF Refused
<1> QED BY <1>2, <1>3, <1>4, <1>5, <1>6, <1>7, <1>8, <1>9 DEF Next, Register, Documenting

\* A verb method panics only when a path binder would miss its parameter on
\* some request that the pattern matches, or the router refuses the pattern.
THEOREM PanicsHaveAReason == Spec => []PanicsForAReason
<1>1. Init => Refused
  BY DEF Init, Refused
<1>2. Refused => PanicsForAReason
  <2> SUFFICES ASSUME Refused, pc = "panicked", call # None, ~Panics(mux, EntryOf(call))
               PROVE  \E r \in Covers(EntryOf(call)), name \in PathNames(call) :
                        ~FindsText(call.path, r.path, name)
    BY DEF PanicsForAReason
  <2>1. call \in Endpoints /\ ~validatePathBinders(call)
    BY DEF Refused
  <2>2. PICK i \in DOMAIN call.binders :
          IsPathParam(call.binders[i]) /\ call.binders[i].name \notin patternPathParams(call.path)
    BY <2>1 DEF validatePathBinders
  <2> DEFINE name == call.binders[i].name
  <2>3. name \in PathNames(call)
    BY <2>2 DEF PathNames
  <2>4. WellFormed(call.path)
    BY DEF Panics, EntryOf
  <2>5. Covers(EntryOf(call)) = Covers(call)
    BY DEF Covers, Matches, EntryOf
  <2>6. PICK r \in Covers(EntryOf(call)) : TRUE
    BY <2>1, <2>4, <2>5, AppAssumption
  <2>7. PathValue(call.path, r.path, name) = <<>>
    BY <2>2 DEF PathValue, patternPathParams
  <2> QED BY <2>3, <2>6, <2>7 DEF FindsText
<1> QED BY <1>1, <1>2, NextRefused, AInvHolds, PTL DEF Spec

-----------------------------------------------------------------------------
(* The promise of module Catalog.  An endpoint that has a Route is on the  *)
(* mux, and nothing is chained onto a Route before its verb method has     *)
(* returned it.                                                            *)

Fresh ==
  /\ pc = "mounted" => route[call] = NewRoute
  /\ \A e \in Registered : EntryOf(e) \in mux

\* Every step keeps that.
LEMMA NextFresh == AInv /\ Fresh /\ [Next]_vars => Fresh'
<1> SUFFICES ASSUME AInv, Fresh, [Next]_vars PROVE Fresh'
  OBVIOUS
<1>1. route \in [Endpoints -> RouteFields \cup {None}]
  BY DEF AInv, TypeOK
<1>2. CASE UNCHANGED vars
  BY <1>2 DEF vars, Fresh, Registered
<1>3. CASE \E e \in program.endpoints : handleVerb(e)
  BY <1>3 DEF handleVerb, Fresh, Registered
<1>4. CASE Mount
  <2>1. pc = "validated" /\ call \in Endpoints
    BY <1>4 DEF Mount, AInv, AtWork
  <2>2. CASE Panics(mux, EntryOf(call))
    BY <1>4, <2>2 DEF Mount, Fresh, Registered
  <2>3. CASE ~Panics(mux, EntryOf(call))
    <3>1. /\ route' = [route EXCEPT ![call] = NewRoute] /\ mux' = mux \cup {EntryOf(call)}
          /\ call' = call
      BY <1>4, <2>3 DEF Mount
    <3>2. route'[call'] = NewRoute
      BY <1>1, <2>1, <3>1
    <3>3. \A e \in Registered' : e = call \/ e \in Registered
      BY <1>1, <3>1 DEF Registered
    <3> QED BY <3>1, <3>2, <3>3 DEF Fresh
  <2> QED BY <2>2, <2>3
<1>5. CASE List \/ Recover
  BY <1>5 DEF List, Recover, Fresh, Registered
<1>6. CASE \E p \in program.patterns : Handle(p)
  BY <1>6 DEF Handle, Fresh, Registered
<1>7. CASE \E e \in program.configured : Chain(e)
  <2>1. PICK e \in program.configured : Chain(e)
    BY <1>7
  <2>2. pc = "idle" /\ e \in Registered /\ UNCHANGED <<mux, pc, call>>
    BY <2>1 DEF Chain, Map, OnSuccess, WithMarshalOptions, Doc, Configuring
  <2>3. \A d \in Endpoints \ {e} : route'[d] = route[d]
    BY <1>1, <2>1 DEF Chain, Map, OnSuccess, WithMarshalOptions, Doc
  <2>4. Registered' \subseteq Registered
    BY <2>2, <2>3 DEF Registered
  <2> QED BY <2>2, <2>4 DEF Fresh
<1>8. CASE (\E o \in MarshalChoices : SetDefaultMarshalOptions(o)) \/ Operations
  BY <1>8 DEF SetDefaultMarshalOptions, Operations, Fresh, Registered
<1> QED BY <1>2, <1>3, <1>4, <1>5, <1>6, <1>7, <1>8 DEF Next, Register, Documenting

\* It holds throughout.
LEMMA FreshHolds == Spec => []Fresh
<1>1. Init => Fresh
  BY DEF Init, Fresh, Registered
<1> QED BY <1>1, NextFresh, AInvHolds, PTL DEF Spec

\* The abstract state: the patterns of the mux, and the list with what has
\* been chained onto each Route, in which an endpoint is as soon as it is
\* mounted.
PatternBar(e) == [method |-> e.method, path |-> e.path]

ServedBar == {PatternBar(entry) : entry \in mux}

New(e) == [endpoint |-> e, options |-> NewRoute]

CatalogBar == IF pc = "mounted" THEN Append(Listed, New(call)) ELSE Listed

\* Where the abstract state does not change.
LEMMA CatalogStutters ==
  ASSUME UNCHANGED <<mux, defaultMarshal, snapshot>>, CatalogBar' = CatalogBar
  PROVE  UNCHANGED Contract!vars
BY DEF Contract!vars, ServedBar, PatternBar, CatalogBar, New

\* Whether the mux takes a pattern depends on the patterns it has, and on no
\* handler.
LEMMA PanicsOnPatterns ==
  ASSUME NEW e
  PROVE  Panics(ServedBar, PatternBar(e)) <=> Panics(mux, e)
<1>1. PatternBar(e).path = e.path
  BY DEF PatternBar
<1>2. \A d : Covers(PatternBar(d)) = Covers(d)
  BY DEF Covers, Matches, PatternBar
<1>3. \A d : Conflicts(PatternBar(d), PatternBar(e)) <=> Conflicts(d, e)
  BY <1>2 DEF Conflicts
<1>4. (\E s \in ServedBar : Conflicts(s, PatternBar(e))) <=> \E d \in mux : Conflicts(d, e)
  BY <1>3 DEF ServedBar
<1> QED BY <1>1, <1>4 DEF Panics

\* The list of the catalog, entry by entry.
LEMMA ListedEntries ==
  ASSUME AInv
  PROVE  /\ Len(operations) \in Nat /\ DOMAIN operations = 1 .. Len(operations)
         /\ \A i \in DOMAIN operations : operations[i].route \in Endpoints
         /\ Listed \in Seq([endpoint : Endpoints, options : RouteFields])
         /\ Len(Listed) = Len(operations)
<1>1. operations \in Seq(Operation) /\ route \in [Endpoints -> RouteFields \cup {None}]
  BY DEF AInv, TypeOK, Operation
<1>2. Len(operations) \in Nat /\ DOMAIN operations = 1 .. Len(operations)
  BY <1>1
<1>3. \A i \in DOMAIN operations : operations[i] \in Operation
  BY <1>1
<1>4. \A i \in DOMAIN operations : operations[i].route \in Endpoints
  BY <1>3 DEF Operation
<1>5. \A i \in DOMAIN operations : route[operations[i].route] \in RouteFields
  BY <1>1, <1>4 DEF AInv, ListedIsRouted, Registered
<1>6. \A i \in DOMAIN operations :
        [endpoint |-> operations[i].route, options |-> route[operations[i].route]]
          \in [endpoint : Endpoints, options : RouteFields]
  BY <1>4, <1>5
<1> DEFINE T == [endpoint : Endpoints, options : RouteFields]
<1>7. Listed \in Seq(T) /\ Len(Listed) = Len(operations)
  <2> DEFINE f(i) == [endpoint |-> operations[i].route, options |-> route[operations[i].route]]
  <2>1. Listed = [i \in 1 .. Len(operations) |-> f(i)]
    BY <1>2 DEF Listed
  <2>2. \A i \in 1 .. Len(operations) : f(i) \in T
    BY <1>2, <1>6
  <2> HIDE DEF f, T
  <2> QED BY <1>2, <2>1, <2>2
<1> QED BY <1>2, <1>4, <1>7

\* Mounting adds the endpoint to the catalog, where it stays when it is
\* appended to the list.
LEMMA MountAdds ==
  ASSUME AInv, Mount, ~Panics(mux, EntryOf(call))
  PROVE  \E e \in Endpoints : Contract!Add(e)
<1>1. call \in Endpoints /\ validatePathBinders(call) /\ pc = "validated"
  BY DEF AInv, AtWork, Mount
<1>2. /\ pc' = "mounted" /\ mux' = mux \cup {EntryOf(call)}
      /\ route' = [route EXCEPT ![call] = NewRoute]
      /\ UNCHANGED <<operations, call, defaultMarshal, snapshot>>
  BY DEF Mount
<1>3. PatternBar(EntryOf(call)) = PatternBar(call)
  BY DEF EntryOf, PatternBar
<1>4. ~Panics(ServedBar, PatternBar(call))
  BY <1>3, PanicsOnPatterns
<1>5. ServedBar' = ServedBar \cup {PatternBar(call)}
  BY <1>2, <1>3 DEF ServedBar
<1>6. EntryOf(call) \notin mux
  <2>1. WellFormed(call.path) /\ \A e \in mux : ~Conflicts(e, EntryOf(call))
    BY DEF Panics, EntryOf
  <2> QED BY <1>1, <2>1, ConflictsWithItself
<1>7. \A i \in DOMAIN operations : operations[i].route \in Endpoints /\ operations[i].route # call
  BY <1>6, ListedEntries DEF AInv, ListedIsRouted
<1>8. route \in [Endpoints -> RouteFields \cup {None}]
  BY DEF AInv, TypeOK
<1>9. Listed' = Listed
  <2>1. \A i \in DOMAIN operations : route'[operations[i].route] = route[operations[i].route]
    BY <1>2, <1>7, <1>8
  <2> QED BY <1>2, <2>1 DEF Listed
<1>10. CatalogBar' = Append(CatalogBar, New(call))
  BY <1>1, <1>2, <1>9 DEF CatalogBar, New
<1>11. PICK e \in Endpoints : e = call
  BY <1>1
<1>12. Contract!Add(e)
  BY <1>1, <1>2, <1>4, <1>5, <1>10, <1>11
     DEF Contract!Add, ServedBar, PatternBar, CatalogBar, New
<1> QED BY <1>12

\* The append behind Operations is no step of the catalog.
LEMMA ListStutters ==
  ASSUME AInv, Fresh, List
  PROVE  UNCHANGED Contract!vars
<1>1. /\ pc = "mounted" /\ call \in Endpoints /\ pc' = "idle"
      /\ operations' = Append(operations, OperationOf(call))
      /\ route[call] = NewRoute
      /\ UNCHANGED <<mux, route, defaultMarshal, snapshot>>
  BY DEF AInv, AtWork, List, Fresh
<1> DEFINE n == Len(operations)
           T == [endpoint : Endpoints, options : RouteFields]
<1>2. /\ operations \in Seq(Operation) /\ OperationOf(call) \in Operation
      /\ OperationOf(call).route = call
  BY <1>1, EndpointType DEF AInv, TypeOK, Operation
<1>3. /\ n \in Nat /\ DOMAIN operations' = 1 .. n + 1
      /\ \A i \in 1 .. n : operations'[i] = operations[i]
      /\ operations'[n + 1] = OperationOf(call)
  BY <1>1, <1>2
<1>4. Listed \in Seq(T) /\ Len(Listed) = n
      /\ \A i \in 1 .. n : Listed[i] = [endpoint |-> operations[i].route,
                                        options |-> route[operations[i].route]]
  BY <1>2, ListedEntries DEF Listed
<1>5. New(call) \in T
  BY <1>1, NewRouteType DEF New
<1>6. Listed' = [i \in 1 .. n + 1 |-> IF i = n + 1 THEN New(call) ELSE Listed[i]]
  BY <1>1, <1>2, <1>3, <1>4 DEF Listed, New
<1> HIDE DEF T, n
<1>7. Append(Listed, New(call)) = [i \in 1 .. n + 1 |-> IF i = n + 1 THEN New(call) ELSE Listed[i]]
  <2> DEFINE longer == Append(Listed, New(call))
  <2>1. /\ longer \in Seq(T) /\ Len(longer) = n + 1 /\ longer[n + 1] = New(call)
        /\ \A i \in 1 .. n : longer[i] = Listed[i]
    BY <1>3, <1>4, <1>5
  <2> HIDE DEF longer
  <2>2. longer = [i \in 1 .. n + 1 |-> longer[i]]
    BY <1>3, <2>1
  <2>3. \A i \in 1 .. n + 1 : i = n + 1 \/ i \in 1 .. n
    BY <1>3
  <2>4. longer = [i \in 1 .. n + 1 |-> IF i = n + 1 THEN New(call) ELSE Listed[i]]
    BY <2>1, <2>2, <2>3
  <2> QED BY <2>4 DEF longer
<1>8. CatalogBar' = CatalogBar
  BY <1>1, <1>6, <1>7 DEF CatalogBar
<1> QED BY <1>1, <1>8, CatalogStutters

\* An opaque handler is served and not listed.
LEMMA HandleServes ==
  ASSUME AInv, NEW p \in OpaquePatterns, Handle(p), ~Panics(mux, p)
  PROVE  Contract!Serve(p)
<1> DEFINE new == [method |-> p.method, path |-> p.path, handler |-> Opaque]
<1>1. /\ pc = "idle" /\ pc' = "idle" /\ mux' = mux \cup {new}
      /\ UNCHANGED <<operations, route, defaultMarshal, snapshot>>
  BY DEF Handle
<1>2. PatternBar(p) = p /\ PatternBar(new) = p
  BY AppAssumption DEF PatternBar
<1>3. ~Panics(ServedBar, p)
  BY <1>2, PanicsOnPatterns
<1> HIDE DEF new
<1>4. ServedBar' = ServedBar \cup {p}
  BY <1>1, <1>2 DEF ServedBar
<1>5. CatalogBar' = CatalogBar
  BY <1>1 DEF CatalogBar, Listed
<1> QED BY <1>1, <1>3, <1>4, <1>5 DEF Contract!Serve, ServedBar, PatternBar, CatalogBar, New

\* What is chained onto the Route of an endpoint changes its options in the
\* catalog, and no other's.
LEMMA ChainConfigures ==
  ASSUME AInv, Fresh, NEW e \in Endpoints, Chain(e)
  PROVE  \E i \in DOMAIN CatalogBar : Contract!Configure(i)
<1>1. /\ pc = "idle" /\ route[e] # None /\ route[e] \in RouteFields
      /\ UNCHANGED <<mux, operations, pc, defaultMarshal, snapshot>>
  BY DEF Chain, Map, OnSuccess, WithMarshalOptions, Doc, Configuring, Registered, AInv, TypeOK
<1>2. PICK rt \in RouteFields : route' = [route EXCEPT ![e] = rt]
  BY <1>1, ChainSets
<1>3. ListedOnce(e)
  <2>1. EntryOf(e) \in mux
    BY <1>1 DEF Fresh, Registered
  <2>2. EntryOf(e).handler = e /\ e # Opaque
    BY EndpointType
  <2> QED BY <1>1, <2>1, <2>2 DEF AInv, Listings, Pending
<1>4. PICK i \in DOMAIN operations :
        operations[i].route = e /\ \A j \in DOMAIN operations : operations[j].route = e => j = i
  BY <1>3 DEF ListedOnce
<1>5. route \in [Endpoints -> RouteFields \cup {None}]
  BY DEF AInv, TypeOK
<1>6. /\ DOMAIN Listed = DOMAIN operations /\ DOMAIN Listed' = DOMAIN operations
      /\ CatalogBar = Listed /\ CatalogBar' = Listed'
  BY <1>1 DEF Listed, CatalogBar
<1>7. Listed'[i] = [Listed[i] EXCEPT !.options = rt] /\ Listed'[i].options = rt
  BY <1>1, <1>2, <1>4, <1>5 DEF Listed
<1>8. \A j \in DOMAIN operations \ {i} : Listed'[j] = Listed[j]
  <2> TAKE j \in DOMAIN operations \ {i}
  <2>1. operations[j].route \in Endpoints \ {e}
    BY <1>4, ListedEntries
  <2>2. route'[operations[j].route] = route[operations[j].route]
    BY <1>2, <1>5, <2>1
  <2> QED BY <1>1, <2>2 DEF Listed
<1>9. Listed' = [Listed EXCEPT ![i] = [Listed[i] EXCEPT !.options = rt]]
  BY <1>6, <1>7, <1>8 DEF Listed
<1>10. CatalogBar' = [CatalogBar EXCEPT ![i].options = CatalogBar'[i].options]
  BY <1>6, <1>7, <1>9
<1>11. CatalogBar'[i].options \in RouteFields /\ i \in DOMAIN CatalogBar
  BY <1>6, <1>7
<1>12. ServedBar' = ServedBar
  BY <1>1 DEF ServedBar
<1>13. Contract!Configure(i)
  BY <1>1, <1>10, <1>11, <1>12 DEF Contract!Configure, ServedBar, PatternBar, CatalogBar, New
<1> QED BY <1>11, <1>13

\* Method and path of an operation are those of its Route.
LEMMA SameMethodAndPath ==
  ASSUME NEW e, NEW rt, NEW default
  PROVE  [operationInfo(e, rt, default) EXCEPT !.method = e.method, !.path = e.path]
           = operationInfo(e, rt, default)
<1> DEFINE params == Params(e.binders)
           body == BodyOf(e.binders)
           response == IF rt.mapOut # None THEN rt.mapOut
                       ELSE IF e.isMessage THEN "message" ELSE None
           marshal == IF rt.marshal # None THEN rt.marshal ELSE default
           info == operationInfo(e, rt, default)
<1>1. info = [method |-> e.method, path |-> e.path, doc |-> rt.doc,
              successStatus |-> rt.successStatus, params |-> params, body |-> body,
              response |-> response, marshal |-> marshal]
  BY DEF operationInfo
<1> HIDE DEF params, body, response, marshal, info
<1>2. [info EXCEPT !.method = e.method] = info
  BY <1>1
<1>3. [info EXCEPT !.path = e.path] = info
  BY <1>1
<1>4. [info EXCEPT !.method = e.method, !.path = e.path] = info
  BY <1>2, <1>3
<1> QED BY <1>4 DEF info

\* Operations reports the catalog as it is.
LEMMA OperationsReports ==
  ASSUME AInv, Operations
  PROVE  Contract!Report
<1> DEFINE info(i) == operationInfo(operations[i].route, route[operations[i].route], defaultMarshal)
<1>1. /\ pc = "idle" /\ UNCHANGED <<mux, operations, route, pc, defaultMarshal>>
      /\ snapshot' = [i \in DOMAIN operations |->
                        [info(i) EXCEPT !.method = operations[i].method, !.path = operations[i].path]]
  BY DEF Operations
<1>2. ASSUME NEW i \in DOMAIN operations
      PROVE  [info(i) EXCEPT !.method = operations[i].method, !.path = operations[i].path] = info(i)
  <2>1. operations[i].method = operations[i].route.method
        /\ operations[i].path = operations[i].route.path
    <3>1. operations[i] = OperationOf(operations[i].route)
      BY <1>2 DEF AInv, ListedIsRouted
    <3> QED BY <3>1 DEF OperationOf
  <2> DEFINE e == operations[i].route
             rt == route[e]
  <2>2. [operationInfo(e, rt, defaultMarshal) EXCEPT !.method = e.method, !.path = e.path]
          = operationInfo(e, rt, defaultMarshal)
    BY SameMethodAndPath
  <2>3. operations[i].method = e.method /\ operations[i].path = e.path
    BY <2>1
  <2> QED BY <2>2, <2>3, Zenon
<1>3. DOMAIN CatalogBar = DOMAIN operations
      /\ \A i \in DOMAIN operations : /\ CatalogBar[i].endpoint = operations[i].route
                                      /\ CatalogBar[i].options = route[operations[i].route]
  BY <1>1 DEF CatalogBar, Listed
<1>4. snapshot' = [i \in DOMAIN CatalogBar |->
        operationInfo(CatalogBar[i].endpoint, CatalogBar[i].options, defaultMarshal)]
  BY <1>1, <1>2, <1>3
<1>5. ServedBar' = ServedBar /\ CatalogBar' = CatalogBar
  BY <1>1 DEF ServedBar, CatalogBar, Listed
<1> QED BY <1>1, <1>4, <1>5 DEF Contract!Report, ServedBar, PatternBar, CatalogBar, New

\* Every step is one of the catalog, or none.
LEMMA NextCatalog ==
  ASSUME AInv, Fresh, [Next]_vars
  PROVE  [Contract!Next]_(Contract!vars)
<1>1. program.endpoints \subseteq Endpoints /\ program.patterns \subseteq OpaquePatterns
      /\ program.configured \subseteq Endpoints
  BY AppAssumption DEF AInv, TypeOK, Program
<1>2. ASSUME UNCHANGED <<mux, operations, route, defaultMarshal, snapshot>>,
             pc # "mounted", pc' # "mounted"
      PROVE  UNCHANGED Contract!vars
  BY <1>2, CatalogStutters DEF CatalogBar, Listed
<1>3. CASE UNCHANGED vars
  BY <1>3, CatalogStutters DEF vars, CatalogBar, Listed
<1>4. CASE \E e \in program.endpoints : handleVerb(e)
  BY <1>2, <1>4 DEF handleVerb
<1>5. CASE Mount
  <2>1. CASE Panics(mux, EntryOf(call))
    BY <1>2, <1>5, <2>1 DEF Mount
  <2>2. CASE ~Panics(mux, EntryOf(call))
    <3>1. \E e \in Endpoints : Contract!Add(e)
      BY <1>5, <2>2, MountAdds
    <3>2. Contract!Next
      BY <3>1 DEF Contract!Next
    <3> QED BY <3>2
  <2> QED BY <2>1, <2>2
<1>6. CASE List
  BY <1>6, ListStutters
<1>7. CASE Recover
  BY <1>2, <1>7 DEF Recover
<1>8. CASE \E p \in program.patterns : Handle(p)
  <2>1. PICK p \in OpaquePatterns : Handle(p)
    BY <1>1, <1>8
  <2>2. CASE Panics(mux, p)
    BY <1>2, <2>1, <2>2 DEF Handle
  <2>3. CASE ~Panics(mux, p)
    BY <2>1, <2>3, HandleServes DEF Contract!Next
  <2> QED BY <2>2, <2>3
<1>9. CASE \E e \in program.configured : Chain(e)
  <2>1. \E i \in DOMAIN CatalogBar : Contract!Configure(i)
    BY <1>1, <1>9, ChainConfigures
  <2> QED BY <2>1 DEF Contract!Next, CatalogBar, New
<1>10. CASE \E o \in MarshalChoices : SetDefaultMarshalOptions(o)
  <2>1. /\ pc = "idle" /\ defaultMarshal' \in MarshalChoices
        /\ UNCHANGED <<mux, operations, route, pc, snapshot>>
    BY <1>10 DEF SetDefaultMarshalOptions
  <2>2. ServedBar' = ServedBar /\ CatalogBar' = CatalogBar
    BY <2>1 DEF ServedBar, CatalogBar, Listed
  <2>3. Contract!Set
    BY <2>1, <2>2 DEF Contract!Set, ServedBar, PatternBar, CatalogBar, New
  <2> QED BY <2>3 DEF Contract!Next
<1>11. CASE Operations
  BY <1>11, OperationsReports DEF Contract!Next
<1> QED BY <1>3, <1>4, <1>5, <1>6, <1>7, <1>8, <1>9, <1>10, <1>11 DEF Next, Register, Documenting

\* An App implements module Catalog: an endpoint is added as a whole or not at
\* all, whatever panics on the way, what is chained onto one changes no other,
\* and Operations reports the catalog as it is.
THEOREM AppKeepsCatalog == Spec => KeepsCatalog
<1>1. Init => Contract!Init
  <2> SUFFICES ASSUME Init PROVE Contract!Init
    OBVIOUS
  <2>1. ServedBar = {}
    BY DEF Init, ServedBar
  <2>2. CatalogBar = <<>>
    BY DEF Init, CatalogBar, Listed
  <2>3. defaultMarshal \in MarshalChoices /\ snapshot = None
    BY AppAssumption DEF Init
  <2> QED BY <2>1, <2>2, <2>3 DEF Contract!Init, ServedBar, PatternBar, CatalogBar, New
<1>2. AInv /\ Fresh /\ [Next]_vars => [Contract!Next]_(Contract!vars)
  BY NextCatalog
<1> QED BY <1>1, <1>2, AInvHolds, FreshHolds, PTL DEF Spec, KeepsCatalog, Contract!Spec

=============================================================================
