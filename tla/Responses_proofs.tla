-------------------------- MODULE Responses_proofs --------------------------
(***************************************************************************)
(* What the error mappers and the response writers of module Responses     *)
(* return, for every value of its constants.                               *)
(***************************************************************************)
EXTENDS Responses, Lemmas

\* Every gRPC code has an HTTP status.
LEMMA codeToHTTPType ==
  \A c : codeToHTTP(c) \in {200, 499, 400, 504, 404, 409, 403, 401, 429, 422, 503, 501, 500}
<1> DEFINE S == {200, 499, 400, 504, 404, 409, 403, 401, 429, 422, 503, 501, 500}
<1>1. /\ 200 \in S /\ 499 \in S /\ 400 \in S /\ 504 \in S /\ 404 \in S /\ 409 \in S
      /\ 403 \in S /\ 401 \in S /\ 429 \in S /\ 422 \in S /\ 503 \in S /\ 501 \in S
      /\ 500 \in S
  OBVIOUS
<1> HIDE DEF S
<1>2. \A c : codeToHTTP(c) \in S
  BY <1>1, ZenonT(60) DEF codeToHTTP
<1> QED BY <1>2 DEF S

\* populateDetails builds a problem from any list of details.
LEMMA populateDetailsType ==
  ASSUME NEW status \in Int, NEW detail \in {"internal", "upstream", "declared", "bind"},
         NEW details \in Seq(Detail)
  PROVE  populateDetails(status, detail, details) \in ProblemDetails
<1> DEFINE I == {i \in 1..Len(details) : IsErrorInfo(details[i])}
           T == {i \in 1..Len(details) : HasType(details[i])}
           M == {i \in 1..Len(details) : HasMetadata(details[i])}
           info == IF I # {} THEN Max(I) ELSE 0
           typ  == IF T # {} THEN Max(T) ELSE 0
           meta == IF M # {} THEN Max(M) ELSE 0
           reason == IF info = 0 THEN None ELSE details[info].reason
           type   == IF typ = 0 THEN <<None, None>>
                                ELSE <<details[typ].domain, details[typ].reason>>
           metadata == IF meta = 0 THEN None ELSE details[meta].metadata
           errors == UNION {details[i].violations :
                              i \in {j \in DOMAIN details : details[j].kind = "BadRequest"}}
<1>1. Len(details) \in Nat /\ DOMAIN details = 1..Len(details)
      /\ \A i \in 1..Len(details) : details[i] \in Detail
  OBVIOUS
<1>2. info \in 0..Len(details) /\ typ \in 0..Len(details) /\ meta \in 0..Len(details)
  <2>1. I \in SUBSET (1..Len(details)) /\ T \in SUBSET (1..Len(details))
        /\ M \in SUBSET (1..Len(details))
    OBVIOUS
  <2> HIDE DEF I, T, M
  <2> QED BY <1>1, <2>1, LastIndexType
<1>3. populateDetails(status, detail, details)
        = Problem(status, detail, reason, type, metadata, errors)
  BY DEF populateDetails, SelectLastInSeq
<1> HIDE DEF info, typ, meta
<1>4. reason \in Reasons \cup {None}
  BY <1>1, <1>2 DEF Detail
<1>5. type \in (Domains \cup {None}) \X (Reasons \cup {None})
  BY <1>1, <1>2 DEF Detail
<1>6. metadata \in Metadata \cup {None}
  BY <1>1, <1>2 DEF Detail
<1>7. errors \in SUBSET Violations
  BY <1>1 DEF Detail
<1> HIDE DEF reason, type, metadata, errors
<1> QED BY <1>3, <1>4, <1>5, <1>6, <1>7 DEF Problem, ProblemDetails

\* A bare problem is a problem.
LEMMA BareProblemType ==
  ASSUME NEW status \in Int, NEW detail \in {"internal", "upstream", "declared", "bind"}
  PROVE  BareProblem(status, detail) \in ProblemDetails
BY DEF BareProblem, Problem, ProblemDetails

\* Handing an error on stays among the mappers.
LEMMA DelegateType ==
  ASSUME NEW m \in Mappers, NEW err, NEW default \in Mappers
  PROVE  Delegate(m, err, default) \in Mappers
<1>1. CASE m = "DefaultErrorMapper"
  <2>1. m \notin Vocabs
    BY <1>1, ResponsesAssumption
  <2> QED BY <1>1, <2>1, Zenon DEF Delegate
<1>2. CASE m \in Vocabs
  <2>1. m # "DefaultErrorMapper" /\ Fallback[m] \in Mappers
    BY <1>2, ResponsesAssumption
  <2> QED BY <1>2, <2>1, Zenon DEF Delegate
<1>3. CASE m # "DefaultErrorMapper" /\ m \notin Vocabs
  BY <1>3, Zenon DEF Delegate
<1> QED BY <1>1, <1>2, <1>3

-----------------------------------------------------------------------------
(* The three kinds of mappers that answer.                                 *)

CustomBodies == [kind : {"custom"}, status : Int]

\* The built-in mapper answers every failure with a problem.
LEMMA rfc7807MapperType ==
  ASSUME NEW err \in Failure
  PROVE  rfc7807Mapper(err) \in ProblemDetails
<1>1. codeToHTTP(err.code) \in Int
  BY codeToHTTPType
<1>2. err.details \in Seq(Detail)
  BY DEF Failure
<1> QED BY <1>1, <1>2, BareProblemType, populateDetailsType DEF rfc7807Mapper

\* The row of the table that answers is one of the table.
LEMMA HitType ==
  ASSUME NEW v \in Vocabs, NEW err, Hit(v, err)
  PROVE  Table[v][errorInfoOf(err.details)] \in ReasonMapping
BY ResponsesAssumption DEF Hit

\* So does the row of a reason table.
LEMMA MatchedReasonType ==
  ASSUME NEW err \in Failure, NEW v \in Vocabs, Hit(v, err)
  PROVE  MatchedReason(v, err) \in ProblemDetails
<1> DEFINE m == Table[v][errorInfoOf(err.details)]
<1>1. m.status \in Int
  BY HitType DEF ReasonMapping
<1>2. err.details \in Seq(Detail)
  BY DEF Failure
<1> QED BY <1>1, <1>2, populateDetailsType DEF MatchedReason

\* Which of them answers.
LEMMA MappedCases ==
  ASSUME NEW m \in Mappers, NEW err, Answers(m, err)
  PROVE  \/ m = "rfc7807" /\ Mapped(m, err) = rfc7807Mapper(err)
         \/ m = "custom" /\ Mapped(m, err) = [kind |-> "custom", status |-> CustomStatus]
         \/ m \in Vocabs /\ Hit(m, err) /\ Mapped(m, err) = MatchedReason(m, err)
<1>1. CASE m = "rfc7807"
  BY <1>1, Zenon DEF Mapped
<1>2. CASE m = "custom"
  BY <1>2, Zenon DEF Mapped
<1>3. CASE m \in Vocabs /\ Hit(m, err)
  <2>1. m # "rfc7807" /\ m # "custom"
    BY <1>3, ResponsesAssumption
  <2> QED BY <1>3, <2>1, Zenon DEF Mapped
<1> QED BY <1>1, <1>2, <1>3 DEF Answers

\* The mapper that answers returns a body.
LEMMA MappedType ==
  ASSUME NEW m \in Mappers, NEW err \in Failure, Answers(m, err)
  PROVE  Mapped(m, err) \in ProblemDetails \cup CustomBodies
<1>1. CASE m = "rfc7807" /\ Mapped(m, err) = rfc7807Mapper(err)
  BY <1>1, rfc7807MapperType
<1>2. CASE m = "custom" /\ Mapped(m, err) = [kind |-> "custom", status |-> CustomStatus]
  BY <1>2, ResponsesAssumption DEF CustomBodies
<1>3. CASE m \in Vocabs /\ Hit(m, err) /\ Mapped(m, err) = MatchedReason(m, err)
  BY <1>3, MatchedReasonType
<1> QED BY <1>1, <1>2, <1>3, MappedCases

-----------------------------------------------------------------------------
(* Writing.                                                                *)

Draft == [status : Int,
          contentType : {"application/json", "application/problem+json"}, body : Bodies]

\* The error response carries the status of its body.
LEMMA writeErrorType ==
  ASSUME NEW body \in ProblemDetails \cup CustomBodies
  PROVE  writeError(body) \in Draft /\ writeError(body).status = body.status
         /\ writeError(body).body = body
BY DEF writeError, Response, Draft, Bodies, ProblemDetails, CustomBodies

\* A Map transformer's DTO makes a response.
LEMMA writeJSONType ==
  ASSUME NEW status \in Int, NEW encodes \in BOOLEAN
  PROVE  writeJSON(status, encodes) \in Draft
BY DEF writeJSON, Response, Draft, Bodies

\* So does the message of the method.
LEMMA writeResponseType ==
  ASSUME NEW status \in Int, NEW marshals \in BOOLEAN, NEW encodes \in BOOLEAN,
         NEW options \in Options
  PROVE  writeResponse(status, marshals, encodes, options) \in Draft
BY DEF writeResponse, Response, Draft, Bodies

\* What net/http lets through is a response; a server error passes untouched.
LEMMA OnWireType ==
  ASSUME NEW resp \in Draft, ValidStatus(resp.status)
  PROVE  /\ OnWire(resp) \in HTTPResponse
         /\ OnWire(resp).status >= 500 => OnWire(resp) = resp
<1>1. [kind |-> "empty"] \in Bodies
  BY DEF Bodies
<1>2. CASE IsInformational(resp.status)
  <2>1. OnWire(resp) = [resp EXCEPT !.status = 200] /\ 200 \in 100..999
    BY <1>2 DEF OnWire
  <2>2. OnWire(resp) \in HTTPResponse /\ OnWire(resp).status = 200
    BY <2>1 DEF HTTPResponse, Draft
  <2> QED BY <2>2
<1>3. CASE ~IsInformational(resp.status) /\ HasNoBody(resp.status)
  <2> DEFINE empty == [kind |-> "empty"]
             type  == IF resp.status = 304 THEN "none" ELSE resp.contentType
  <2>1. OnWire(resp) = [resp EXCEPT !.body = empty, !.contentType = type]
    BY <1>3 DEF OnWire, Draft
  <2>2. empty \in Bodies
    BY <1>1
  <2> HIDE DEF empty
  <2>3. type \in {"application/json", "application/problem+json", "none"}
    BY DEF Draft
  <2> HIDE DEF type
  <2>4. OnWire(resp) \in HTTPResponse /\ OnWire(resp).status = resp.status
    <3>1. resp.status \in 100..999
      BY DEF ValidStatus
    <3>2. OnWire(resp) = [status |-> resp.status, contentType |-> type, body |-> empty]
      BY <2>1 DEF Draft
    <3> QED BY <2>2, <2>3, <3>1, <3>2 DEF HTTPResponse
  <2> QED BY <1>3, <2>4 DEF HasNoBody
<1>4. CASE ~IsInformational(resp.status) /\ ~HasNoBody(resp.status)
  BY <1>4 DEF OnWire, HTTPResponse, Draft, ValidStatus
<1> QED BY <1>2, <1>3, <1>4

-----------------------------------------------------------------------------
(* Redaction.                                                              *)

\* A problem that says nothing of the upstream error but its status.
Bare(body) == body = BareProblem(body.status, body.detail)

\* On a server error the mapper that answers withholds the upstream message,
\* and shows structured members only for a reason its table maps to it.
LEMMA MappedIsRedacted ==
  ASSUME NEW m \in Mappers, NEW err \in Failure, Answers(m, err),
         Mapped(m, err).kind = "problem", Mapped(m, err).status >= 500
  PROVE  /\ Mapped(m, err).detail # "upstream"
         /\ \/ Bare(Mapped(m, err))
            \/ /\ m \in Vocabs /\ Hit(m, err)
               /\ Table[m][errorInfoOf(err.details)].status = Mapped(m, err).status
<1>1. CASE m = "rfc7807" /\ Mapped(m, err) = rfc7807Mapper(err)
  <2>1. codeToHTTP(err.code) \in Int
    BY codeToHTTPType
  <2>2. CASE ~err.isStatus \/ redacts(codeToHTTP(err.code))
    BY <1>1, <2>1, <2>2 DEF rfc7807Mapper, BareProblem, Problem, Bare
  <2>3. CASE err.isStatus /\ ~redacts(codeToHTTP(err.code))
    BY <1>1, <2>1, <2>3 DEF rfc7807Mapper, populateDetails, Problem, redacts
  <2> QED BY <2>2, <2>3
<1>2. CASE m = "custom" /\ Mapped(m, err) = [kind |-> "custom", status |-> CustomStatus]
  BY <1>2
<1>3. CASE m \in Vocabs /\ Hit(m, err) /\ Mapped(m, err) = MatchedReason(m, err)
  <2>1. Table[m][errorInfoOf(err.details)].status \in Int
    BY <1>3, HitType DEF ReasonMapping
  <2> QED BY <1>3, <2>1 DEF MatchedReason, populateDetails, Problem, redactsDetail
<1> QED BY <1>1, <1>2, <1>3, MappedCases

-----------------------------------------------------------------------------
(* The mapper in charge.  Descending from a mapper to the one it hands the *)
(* error on to does not change where the chain may end.                    *)

Ends(m, err, default) == {x \in Chain(m, err, default) : Answers(x, err)}

\* A mapper that answers is the whole of its chain.
LEMMA AnswersInCharge ==
  ASSUME NEW m \in Mappers, NEW err, NEW default, Answers(m, err)
  PROVE  Ends(m, err, default) = {m}
<1>1. Delegate(m, err, default) = m
  <2>1. m # "DefaultErrorMapper" /\ ~(m \in Vocabs /\ ~Hit(m, err))
    BY ResponsesAssumption DEF Answers
  <2> QED BY <2>1, Zenon DEF Delegate
<1>2. {m} \in SUBSET Mappers /\ \A y \in {m} : Delegate(y, err, default) \in {m}
  BY <1>1
<1>3. Chain(m, err, default) \subseteq {m}
  BY <1>2 DEF Chain
<1>4. m \in Chain(m, err, default)
  BY DEF Chain
<1> QED BY <1>3, <1>4 DEF Ends

\* One that does not answer leaves the end of its chain to the next.
LEMMA DelegateEnds ==
  ASSUME NEW m \in Mappers, NEW err, NEW default, ~Answers(m, err)
  PROVE  Ends(m, err, default) = Ends(Delegate(m, err, default), err, default)
<1> DEFINE succ == Delegate(m, err, default)
           Closed(S) == S \in SUBSET Mappers /\ \A y \in S : Delegate(y, err, default) \in S
<1>1. \A k, x : x \in Chain(k, err, default) <=>
                  x \in Mappers /\ \A S \in SUBSET Mappers : k \in S /\ Closed(S) => x \in S
  BY DEF Chain
<1>2. ASSUME NEW x \in Chain(m, err, default), x # m PROVE x \in Chain(succ, err, default)
  <2>1. ASSUME NEW S \in SUBSET Mappers, succ \in S, Closed(S) PROVE x \in S
    <3>1. Closed(S \cup {m})
      BY <2>1
    <3>2. S \cup {m} \in SUBSET Mappers /\ m \in S \cup {m}
      OBVIOUS
    <3> HIDE DEF Closed
    <3>3. x \in S \cup {m}
      BY <1>1, <1>2, <3>1, <3>2
    <3> QED BY <1>2, <3>3
  <2>2. x \in Mappers
    BY <1>1, <1>2
  <2> HIDE DEF Closed, succ
  <2> QED BY <1>1, <2>1, <2>2
<1>3. ASSUME NEW x \in Chain(succ, err, default) PROVE x \in Chain(m, err, default)
  <2>1. \A S \in SUBSET Mappers : m \in S /\ Closed(S) => succ \in S
    OBVIOUS
  <2> HIDE DEF Closed, succ
  <2> QED BY <1>1, <1>3, <2>1
<1> HIDE DEF succ
<1>4. Ends(m, err, default) = Ends(succ, err, default)
  BY <1>2, <1>3 DEF Ends
<1> QED BY <1>4 DEF succ

\* If the chain that starts at m may end like that of a mapper that answers,
\* that mapper is in charge.
LEMMA InChargeOf ==
  ASSUME NEW start, NEW m \in Mappers, NEW err, NEW default, Answers(m, err),
         Ends(start, err, default) = Ends(m, err, default)
  PROVE  InCharge(start, err, default) = m
<1>1. \A x : x \in Chain(start, err, default) /\ Answers(x, err) <=> x = m
  BY AnswersInCharge DEF Ends
<1> QED BY <1>1 DEF InCharge

=============================================================================
