----------------------------- MODULE Responses -----------------------------
(***************************************************************************)
(* How the outcome of a gRPC call becomes an HTTP response: codeToHTTP,    *)
(* the built-in RFC 7807 mapper, the reason tables of MapReasons, and the  *)
(* bodies that writeError, writeResponse and writeJSON put on the wire.    *)
(*                                                                         *)
(* An error value is what status.FromError makes of it: no status at all,  *)
(* or a code and a sequence of details.  Free text is abstracted to its    *)
(* origin: "internal" (the constant "internal error"), "upstream" (the     *)
(* message of the gRPC status), "declared" (ReasonMapping.Detail) and      *)
(* "bind" (the text of a binder's error).                                  *)
(***************************************************************************)
EXTENDS Integers, Sequences, SequencesExt

CONSTANTS
  Reasons, Domains, Metadata,  \* members of google.rpc.ErrorInfo
  Violations,                  \* field violations of google.rpc.BadRequest
  None,                        \* the empty string, the empty map, nil
  Vocabs,                      \* the mappers built with MapReasons
  Table,        \* [Vocabs -> a function from reasons to ReasonMapping]
  Fallback,     \* [Vocabs -> Mappers]
  CustomStatus, \* the status a hand-written ErrorMapper answers
  Options       \* the protojson.MarshalOptions values in use

Mappers == {"rfc7807", "DefaultErrorMapper", "custom"} \cup Vocabs

Codes == {"OK", "Canceled", "Unknown", "InvalidArgument", "DeadlineExceeded",
          "NotFound", "AlreadyExists", "PermissionDenied", "ResourceExhausted",
          "FailedPrecondition", "Aborted", "OutOfRange", "Unimplemented",
          "Internal", "Unavailable", "DataLoss", "Unauthenticated"}

\* declared: the table replaces the free-text detail.
ReasonMapping == [status : Int, declared : BOOLEAN]

Detail == [kind : {"BadRequest", "ErrorInfo", "other"},
           reason : Reasons \cup {None}, domain : Domains \cup {None},
           metadata : Metadata \cup {None}, violations : SUBSET Violations]

\* What the method returned.  On success: can protojson marshal it, and can
\* encoding/json encode it, or the DTO a Map transformer makes of it?
Failure == [ok : {FALSE}, isStatus : BOOLEAN, code : Codes, details : Seq(Detail)]
Success == [ok : {TRUE}, marshals : BOOLEAN, encodes : BOOLEAN]
Outcome == Success \cup Failure

ASSUME ResponsesAssumption ==
  /\ None \notin Reasons \cup Domains \cup Metadata
  /\ Vocabs \cap {"rfc7807", "DefaultErrorMapper", "custom", "nil"} = {}
  /\ \A v \in Vocabs : \A r \in DOMAIN Table[v] : r \in Reasons /\ Table[v][r] \in ReasonMapping
  /\ Fallback \in [Vocabs -> Mappers]
  /\ CustomStatus \in Int

\* A plausible variant that only refuses negative numbers.
PositiveStatus(s) == s >= 0

\* net/http: WriteHeader panics on any other status, an informational one is
\* not final (the body that follows is sent with 200), and some have no body.
ValidStatus(s)     == s \in 100..999
IsInformational(s) == s \in 100..199 /\ s # 101
HasNoBody(s)       == s \in {101, 204, 304}

-----------------------------------------------------------------------------
(* codeToHTTP *)

codeToHTTP(c) ==
  CASE c = "OK"                                 -> 200
    [] c = "Canceled"                           -> 499
    [] c \in {"InvalidArgument", "OutOfRange"}  -> 400
    [] c = "DeadlineExceeded"                   -> 504
    [] c = "NotFound"                           -> 404
    [] c \in {"AlreadyExists", "Aborted"}       -> 409
    [] c = "PermissionDenied"                   -> 403
    [] c = "Unauthenticated"                    -> 401
    [] c = "ResourceExhausted"                  -> 429
    [] c = "FailedPrecondition"                 -> 422
    [] c = "Unavailable"                        -> 503
    [] c = "Unimplemented"                      -> 501
    [] OTHER                                    -> 500

-----------------------------------------------------------------------------
(* Problem details.  populateDetails walks the details in order, so the    *)
(* last ErrorInfo that has something to say about a member wins, while     *)
(* field violations accumulate.                                            *)

Problem(status, detail, reason, type, metadata, errors) ==
  [kind |-> "problem", status |-> status, detail |-> detail, reason |-> reason,
   type |-> type, metadata |-> metadata, errors |-> errors]

BareProblem(status, detail) == Problem(status, detail, None, <<None, None>>, None, {})

IsErrorInfo(d) == d.kind = "ErrorInfo"
HasType(d)     == IsErrorInfo(d) /\ d.domain # None /\ d.reason # None
HasMetadata(d) == IsErrorInfo(d) /\ d.metadata # None

populateDetails(status, detail, details) ==
  LET info == SelectLastInSeq(details, IsErrorInfo)
      typ  == SelectLastInSeq(details, HasType)
      meta == SelectLastInSeq(details, HasMetadata)
  IN  Problem(status, detail,
              IF info = 0 THEN None ELSE details[info].reason,
              IF typ  = 0 THEN <<None, None>> ELSE <<details[typ].domain, details[typ].reason>>,
              IF meta = 0 THEN None ELSE details[meta].metadata,
              UNION {details[i].violations :
                       i \in {j \in DOMAIN details : details[j].kind = "BadRequest"}})

\* errorInfoOf: the reason of the FIRST ErrorInfo, None without one.
errorInfoOf(details) ==
  LET info == SelectInSeq(details, IsErrorInfo)
  IN  IF info = 0 THEN None ELSE details[info].reason

-----------------------------------------------------------------------------
(* The mappers *)

\* A plausible variant: an off-by-one at the first server error.
RedactsAbove500(status) == status > 500

redacts(status) == status >= 500

\* The same boundary, written once more for the reason tables.
redactsDetail(status) == status >= 500

rfc7807Mapper(err) ==
  LET status == codeToHTTP(err.code) IN
  IF ~err.isStatus THEN BareProblem(500, "internal")
  ELSE IF redacts(status) THEN BareProblem(status, "internal")
  ELSE populateDetails(status, "upstream", err.details)

\* MapReasons: does the table of v answer err?
Hit(v, err) == err.isStatus /\ errorInfoOf(err.details) \in DOMAIN Table[v]

MatchedReason(v, err) ==
  LET m == Table[v][errorInfoOf(err.details)]
  IN  populateDetails(m.status,
                      IF m.declared THEN "declared"
                      ELSE IF redactsDetail(m.status) THEN "internal" ELSE "upstream",
                      err.details)

\* A plausible variant: a reason table without a fallback of its own goes
\* to DefaultErrorMapper, which may be the table itself.
DelegateToDefault(m, err, default) ==
  CASE m = "DefaultErrorMapper"     -> default
    [] m \in Vocabs /\ ~Hit(m, err) -> "DefaultErrorMapper"
    [] OTHER                        -> m

\* The mapper m hands err on to: itself when it answers err.
Delegate(m, err, default) ==
  CASE m = "DefaultErrorMapper"          -> default
    [] m \in Vocabs /\ ~Hit(m, err)      -> Fallback[m]
    [] OTHER                             -> m

Answers(m, err) == m \in {"rfc7807", "custom"} \/ (m \in Vocabs /\ Hit(m, err))

Mapped(m, err) ==
  CASE m = "rfc7807" -> rfc7807Mapper(err)
    [] m = "custom"  -> [kind |-> "custom", status |-> CustomStatus]
    [] OTHER         -> MatchedReason(m, err)

-----------------------------------------------------------------------------
(* Who answers an error, stated without descending from mapper to mapper:  *)
(* the one that answers among those an error may be handed on to, which    *)
(* WithErrorMapper, SetDefaultErrorMapper and the fallbacks of MapReasons  *)
(* have put in charge.                                                     *)

Chain(m, err, default) ==
  {x \in Mappers : \A S \in SUBSET Mappers :
     m \in S /\ (\A y \in S : Delegate(y, err, default) \in S) => x \in S}

InCharge(m, err, default) == CHOOSE x \in Chain(m, err, default) : Answers(x, err)

-----------------------------------------------------------------------------
(* Writing.  The Content-Type follows the type of the body.                *)

ProblemDetails ==
  [kind : {"problem"}, status : Int,
   detail : {"internal", "upstream", "declared", "bind"},
   reason : Reasons \cup {None},
   type : (Domains \cup {None}) \X (Reasons \cup {None}),
   metadata : Metadata \cup {None}, errors : SUBSET Violations]

Bodies == ProblemDetails \cup [kind : {"custom"}, status : Int]
          \cup [kind : {"dto", "empty", "json"}]
          \cup [kind : {"protojson"}, options : Options]

HTTPResponse ==
  [status : 100..999,
   contentType : {"application/json", "application/problem+json", "none"},
   body : Bodies]

Response(status, contentType, body) ==
  [status |-> status, contentType |-> contentType, body |-> body]

\* What the client sees of a response.
OnWire(resp) ==
  IF IsInformational(resp.status) THEN [resp EXCEPT !.status = 200]
  ELSE IF HasNoBody(resp.status) THEN [resp EXCEPT !.body = [kind |-> "empty"],
                      !.contentType = IF resp.status = 304 THEN "none" ELSE @]
  ELSE resp

writeError(body) ==
  Response(body.status,
           IF body.kind = "problem" THEN "application/problem+json"
                                    ELSE "application/json",
           body)

\* A failing encoder leaves the body empty: the status is already written.
writeJSON(status, encodes) ==
  Response(status, "application/json",
           [kind |-> IF encodes THEN "dto" ELSE "empty"])

\* What is no message, or one that protojson cannot marshal, falls through to
\* encoding/json.
writeResponse(status, marshals, encodes, options) ==
  Response(status, "application/json",
           IF marshals THEN [kind |-> "protojson", options |-> options]
                       ELSE [kind |-> IF encodes THEN "json" ELSE "empty"])

=============================================================================
