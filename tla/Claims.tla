------------------------------- MODULE Claims -------------------------------
(***************************************************************************)
(* What the comments and the README say of a proxied route, where the code *)
(* does something else.  The runs that refute them are instances with one  *)
(* route and one request.                                                  *)
(***************************************************************************)
EXTENDS MCRoute

Called(q) == calls[q] # <<>>

\* README.md:205: "PathEnum / QueryEnum accept the canonical proto name
\* (ROLE_ADMIN) or its numeric value (2). Matching is strict".
\* A numeral that reaches the method as an enum value is the number of one.
EnumIsStrict(q) ==
  \A i \in DOMAIN binders(q) :
    LET raw == RawParam(binders(q)[i], request[q].input, defaults.extractor) IN
    (binders(q)[i].type = "enum" /\ raw \in Int) => raw \in EnumNumbers

\* bind/body.go:38: "readBody reads the request body honoring the configured
\* size limit".  A request that was not refused as oversized was read.
BodyIsRead(q) == (\E i \in DOMAIN binders(q) : IsBody(binders(q)[i])) => unread[q] = 0

\* README.md:184: "Path* treats the parameter as required (an empty value
\* yields a 400)".
PathIsRequired(q) ==
  \A i \in DOMAIN binders(q) :
    binders(q)[i].in = "path" =>
      RawParam(binders(q)[i], request[q].input, defaults.extractor) # Zero

\* What reaches the method was bound as these three say, also in a program
\* that sets the largest limit there is.
BoundAsDocumented ==
  \A q \in Requests :
    Called(q) /\ defaults.maxBody = Int64Span \div 2 - 1 =>
      EnumIsStrict(q) /\ BodyIsRead(q) /\ PathIsRequired(q)

\* errors.go:177: "the reason is part of the declared API vocabulary, so
\* structured members are not redacted even on 5xx".
ReasonIsDeclared ==
  \A q \in Requests : pc[q] = "done" /\ mapper[q] \in Vocabs =>
    response[q].body.reason \in DOMAIN Table[mapper[q]]

-----------------------------------------------------------------------------
(* Instances                                                               *)

StringRoute == {<<PathString(id, f)>>}
BodyInput   == {Request("stdlib", word, Zero, GoodBody)}

\* A path parameter that is absent, the numeral 9, which wraps to 1, and a
\* body under a limit of the largest int64.
ThreeBinders == {<<PathString(id, f), QueryEnum(tag, g), RawBody({f})>>}
AbsentInput  == {Request("stdlib", Zero, 9, GoodBody)}

TwoReasons ==
  {StatusOutcome("NotFound", <<ErrorInfo(ReasonA, Domain, None), ErrorInfo(ReasonB, Domain, Meta)>>)}

DeclaredTable == "internal" :> (ReasonA :> [status |-> 503, declared |-> TRUE])
RFCFallback   == "internal" :> "rfc7807"

=============================================================================
