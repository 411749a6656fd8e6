------------------------------ MODULE MCRoute ------------------------------
(***************************************************************************)
(* Instances of module Route for TLC: a small vocabulary of parameters,    *)
(* bodies, outcomes and mappers in which every branch of the code is met.  *)
(***************************************************************************)
EXTENDS Route

CONSTANTS
  q1, q2,              \* request slots
  id, tag,             \* parameter names
  f, g,                \* fields of the request message
  word, active,        \* words; active is the name of an enum value
  ReasonA, ReasonB, Domain, Meta, Violation,
  plain, unpopulated   \* marshal options

MCFields == {f, g}
MCNames  == {id, tag}
MCWords  == {word, active}
MCEnumNumber == active :> 1
MCAccepted   == {word}
MCInt32Span  == 8      \* -4 .. 3
MCInt64Span  == 32     \* -16 .. 15

-----------------------------------------------------------------------------
(* HTTP requests                                                           *)

MCBody(size, fault, decodes, x, y) ==
  [size |-> size, fault |-> fault, decodes |-> decodes,
   doc |-> (f :> x @@ g :> y)]

GoodBody      == MCBody(2, "none", BodyKinds, word, Zero)
LargeBody     == MCBody(3, "none", BodyKinds, word, Zero)
HugeBody      == MCBody(4, "none", BodyKinds, Zero, word)
EmptyBody     == MCBody(0, "none", {}, Zero, Zero)
GarbledBody   == MCBody(2, "none", {}, Zero, Zero)
BrokenBody    == MCBody(1, "io", BodyKinds, Zero, Zero)
CutBody       == MCBody(1, "tooLarge", BodyKinds, Zero, Zero)

Request(router, raw, other, body) ==
  [router |-> router, body |-> body,
   param |-> [in \in Locations |->
                [n \in MCNames |-> IF in = "path" THEN (IF n = id THEN raw ELSE Zero)
                                   ELSE IF n = tag THEN other ELSE Zero]]]

-----------------------------------------------------------------------------
(* Run route_binding: every list of two of these binders, on inputs that   *)
(* combine absent, ill-typed and boundary parameters with every body.  The *)
(* default limit is 2 bytes: GoodBody reaches it, LargeBody exceeds it.    *)

BindingBinders ==
  {PathString(id, f), PathInt32(id, g), PathEnum(id, f), QueryInt64(tag, f),
   QueryEnum(tag, g), HeaderAs(tag, f), Ctx(tag, g),
   BodyJSON({f}), BodyJSONInto({g}), RawBody({f})}

BindingRoutes  == {<<b, c>> : b, c \in BindingBinders}
                  \cup {<<>>, <<PathInt64(id, f), BodyJSON({f}), PathString(id, f)>>}
IdentityRoutes == [rt \in Routes |-> rt]

BindingInputs ==
  {Request("stdlib", raw, other, GoodBody) : raw \in {Zero, word, active, 3, 4, 9, 0},
                                             other \in {Zero, word, 1, 16}}
  \cup {Request("foreign", active, other, body) :
          other \in {Zero, word},
          body \in {GoodBody, LargeBody, HugeBody, EmptyBody, GarbledBody, BrokenBody, CutBody}}

OneOutcome == {[ok |-> TRUE, marshals |-> TRUE, encodes |-> TRUE]}

MCCanceled == [ok |-> FALSE, isStatus |-> TRUE, code |-> "Canceled", details |-> <<>>]

NoTable    == [v \in Vocabs |-> <<>>]
NoFallback == [v \in Vocabs |-> "rfc7807"]

-----------------------------------------------------------------------------
(* Run route_errors: one route without binders, every code and every shape *)
(* of details, under every configuration of mappers, statuses and options. *)

OneRoute   == {<<>>}
PlainInput == {Request("stdlib", word, Zero, EmptyBody)}

ErrorInfo(reason, domain, metadata) ==
  [kind |-> "ErrorInfo", reason |-> reason, domain |-> domain,
   metadata |-> metadata, violations |-> {}]

BadRequest == [kind |-> "BadRequest", reason |-> None, domain |-> None,
               metadata |-> None, violations |-> {Violation}]

RetryInfo == [kind |-> "other", reason |-> None, domain |-> None,
              metadata |-> None, violations |-> {}]

DetailLists ==
  {<<>>, <<BadRequest>>, <<RetryInfo, ErrorInfo(ReasonA, Domain, Meta)>>,
   <<ErrorInfo(ReasonB, None, None), BadRequest>>,
   <<ErrorInfo(None, Domain, Meta)>>,
   <<ErrorInfo(ReasonA, Domain, None), ErrorInfo(ReasonB, Domain, Meta)>>}

StatusOutcome(code, details) ==
  [ok |-> FALSE, isStatus |-> TRUE, code |-> code, details |-> details]

ErrorOutcomes ==
  {StatusOutcome(code, details) : code \in Codes \ {"OK"}, details \in DetailLists}
  \cup {[ok |-> FALSE, isStatus |-> FALSE, code |-> "Unknown", details |-> <<>>]}
  \cup [ok : {TRUE}, marshals : BOOLEAN, encodes : BOOLEAN]

\* "public" knows ReasonA as a client error, "internal" knows both reasons
\* as server errors, one with a detail of its own, and has the package-level
\* mapper as its fallback; "broken" declares a status nobody can write.
ErrorTable ==
  "public" :> (ReasonA :> [status |-> 409, declared |-> FALSE])
  @@ "internal" :> (ReasonA :> [status |-> 503, declared |-> TRUE]
                    @@ ReasonB :> [status |-> 500, declared |-> FALSE])
  @@ "broken" :> (ReasonB :> [status |-> 0, declared |-> FALSE])

ErrorFallback == "public" :> "rfc7807" @@ "internal" :> "DefaultErrorMapper"
                 @@ "broken" :> "public"

-----------------------------------------------------------------------------
(* Run route_serving: two requests at a time on two routes, which differ   *)
(* in how they bind, with a chain of four mappers behind a failing call    *)
(* that ends, or one that does not.                                        *)

ServingBinders == "create" :> <<BodyJSON({f}), PathString(id, f)>>
                  @@ "list" :> <<PathInt32(id, g), QueryEnum(tag, f)>>

ServingInputs == {Request("stdlib", 1, active, GoodBody), Request("stdlib", word, 4, HugeBody)}

ServingOutcomes ==
  OneOutcome \cup {StatusOutcome("NotFound", <<ErrorInfo(ReasonB, Domain, None)>>)}

ServingTable ==
  "public" :> (ReasonA :> [status |-> 409, declared |-> FALSE]) @@ "internal" :> <<>>

ServingFallback == "public" :> "rfc7807" @@ "internal" :> "DefaultErrorMapper"

=============================================================================
