------------------------------ MODULE Binders ------------------------------
(***************************************************************************)
(* The binder constructors of package bind and the package-level settings  *)
(* they read: how one binder turns a piece of an HTTP request into fields  *)
(* of the protobuf request message, or into a binding error.               *)
(*                                                                         *)
(* Texts.  A raw parameter is the empty string (Zero: the parameter is     *)
(* absent), a word (one of Words) or a decimal numeral, represented by the *)
(* integer it denotes.  Zero is also the proto3 zero value of a field.     *)
(*                                                                         *)
(* Machine integers.  Int32Span and Int64Span stand for 2^32 and 2^64;     *)
(* small instances scale them down and keep the wrap-around.               *)
(***************************************************************************)
EXTENDS Integers

CONSTANTS
  Fields,       \* the fields of the request messages
  Names,        \* the names of path, query and header parameters
  Words,        \* the non-numeric texts
  Zero,         \* the empty string, and the zero value of a field
  EnumNumber,   \* the protobuf enum: canonical value name -> number
  Accepted,     \* texts accepted by user-supplied setters and parsers
  Int32Span,
  Int64Span

ASSUME BindersAssumption ==
  /\ Zero \notin Words /\ Zero \notin Int
  /\ Words \cap Int = {}
  /\ DOMAIN EnumNumber \subseteq Words
  /\ \A w \in DOMAIN EnumNumber : EnumNumber[w] \in Int
  /\ Accepted \subseteq Words \cup Int \cup {Zero}
  /\ Int32Span \in Nat \ {0}
  /\ Int64Span \in Nat \ {0}

Text    == {Zero} \cup Words \cup Int
Message == [Fields -> Text]
EmptyMessage == [f \in Fields |-> Zero]

NoText == [ok |-> FALSE, text |-> Zero]     \* a parse error
Parsed(t) == [ok |-> TRUE, text |-> t]

-----------------------------------------------------------------------------
(* Machine integers *)

Fits(n, span) == -(span \div 2) <= n /\ n < span \div 2
Wrap(n, span) == ((n + span \div 2) % span) - span \div 2

-----------------------------------------------------------------------------
(* Parsing a raw text: parseInt32, parseInt64, lookupEnum, and the setters *)
(* and parsers that adopters supply (Path, Query, Header, *As; ParseBool   *)
(* and ParseFloat behave the same way: they accept some texts).            *)

\* The number 0 is the zero value of a numeric field.
Number(n) == Parsed(IF n = 0 THEN Zero ELSE n)

EnumNumbers == {EnumNumber[w] : w \in DOMAIN EnumNumber}

parseInt(raw, span) ==
  IF raw \in Int /\ Fits(raw, span) THEN Number(raw) ELSE NoText

\* strconv.Atoi yields a 64-bit int; protoreflect.EnumNumber is an int32.
EnumNumberOf(n) == Wrap(n, Int32Span)

lookupEnum(raw) ==
  IF raw \in DOMAIN EnumNumber THEN Number(EnumNumber[raw])
  ELSE IF raw \in Int /\ Fits(raw, Int64Span) /\ EnumNumberOf(raw) \in EnumNumbers
       THEN Number(EnumNumberOf(raw))
       ELSE NoText

Parse(type, raw) ==
  CASE type = "string" -> Parsed(raw)
    [] type = "int32"  -> parseInt(raw, Int32Span)
    [] type = "int64"  -> parseInt(raw, Int64Span)
    [] type = "enum"   -> lookupEnum(raw)
    [] type = "custom" -> IF raw \in Accepted THEN Parsed(raw) ELSE NoText

-----------------------------------------------------------------------------
(* Requests and binders *)

Locations  == {"path", "query", "header", "ctx"}
Types      == {"string", "int32", "int64", "enum", "custom"}
BodyKinds  == {"BodyJSON", "BodyJSONInto", "BodyJSONMap", "Body"}
Extractors == {"stdlib", "foreign"}    \* where a router keeps path parameters

\* The request body: its length, the error met at its end (none, an I/O
\* error, or the http.MaxBytesError of an upstream http.MaxBytesReader), the
\* decoders that accept its whole content and the fields it decodes to.
Body == [size : Nat, fault : {"none", "io", "tooLarge"},
         decodes : SUBSET BodyKinds, doc : Message]

Input == [router : Extractors,
          param  : [Locations -> [Names -> Text]],
          body   : Body]

\* A parameter binder reads one named value; skipEmpty is the optional
\* semantics of queryAs, headerAs, QueryEnum and HeaderEnum.  A Ctx binder
\* reads location "ctx" (the getter is a "custom" parser: it may fail).
\* A body binder assigns the fields in writes; for BodyJSON, whose callers
\* name no field, these are the fields that a document mentions.
Binder == [kind : {"param"} \cup BodyKinds, in : Locations, name : Names,
           type : Types, skipEmpty : BOOLEAN, writes : SUBSET Fields]

-----------------------------------------------------------------------------
(* The constructors of package bind.  Path* binders read an absent         *)
(* parameter as the empty text; the typed query and header binders skip    *)
(* it, the others do not.  A setter assigns one field.                     *)

paramBinder(in, name, type, skipEmpty, field) ==
  [kind |-> "param", in |-> in, name |-> name, type |-> type,
   skipEmpty |-> skipEmpty, writes |-> {field}]

pathAs(name, type, field)   == paramBinder("path", name, type, FALSE, field)
queryAs(name, type, field)  == paramBinder("query", name, type, TRUE, field)
headerAs(name, type, field) == paramBinder("header", name, type, TRUE, field)

Path(name, field)         == paramBinder("path", name, "custom", FALSE, field)
Query(name, field)        == paramBinder("query", name, "custom", FALSE, field)
Header(name, field)       == paramBinder("header", name, "custom", FALSE, field)
PathString(name, field)   == paramBinder("path", name, "string", FALSE, field)
QueryString(name, field)  == paramBinder("query", name, "string", FALSE, field)
HeaderString(name, field) == paramBinder("header", name, "string", FALSE, field)
PathAs(name, field)       == pathAs(name, "custom", field)
QueryAs(name, field)      == queryAs(name, "custom", field)
HeaderAs(name, field)     == headerAs(name, "custom", field)
PathInt32(name, field)    == pathAs(name, "int32", field)
PathInt64(name, field)    == pathAs(name, "int64", field)
QueryInt64(name, field)   == queryAs(name, "int64", field)
HeaderInt32(name, field)  == headerAs(name, "int32", field)
PathEnum(name, field)     == paramBinder("path", name, "enum", FALSE, field)
QueryEnum(name, field)    == paramBinder("query", name, "enum", TRUE, field)
HeaderEnum(name, field)   == paramBinder("header", name, "enum", TRUE, field)
Ctx(name, field)          == paramBinder("ctx", name, "custom", FALSE, field)

\* A body binder reads no parameter; its location, name and type mean
\* nothing.
bodyBinder(kind, fields) ==
  [kind |-> kind, in |-> "ctx", name |-> CHOOSE n \in Names : TRUE, type |-> "string",
   skipEmpty |-> FALSE, writes |-> fields]

BodyJSON(fields)     == bodyBinder("BodyJSON", fields)
BodyJSONInto(fields) == bodyBinder("BodyJSONInto", fields)
BodyJSONMap(fields)  == bodyBinder("BodyJSONMap", fields)
RawBody(fields)      == bodyBinder("Body", fields)

-----------------------------------------------------------------------------
\* PathParam: the configured extractor finds nothing where another router
\* keeps its parameters.
PathParam(in, name, extractor) ==
  IF in.router = extractor THEN in.param["path"][name] ELSE Zero

RawParam(b, in, extractor) ==
  IF b.in = "path" THEN PathParam(in, b.name, extractor)
                   ELSE in.param[b.in][b.name]

-----------------------------------------------------------------------------
(* readBody: the body is a stream of which `unread' bytes are left.        *)

ReadResult(err, got, unread) == [err |-> err, got |-> got, unread |-> unread]

\* A plausible variant without the extra byte that detects an oversized body.
TruncatingReadBody(body, unread, limit) ==
  IF limit <= 0 \/ unread < limit
  THEN ReadResult(body.fault, unread, 0)
  ELSE ReadResult("none", limit, unread - limit)

\* A plausible variant that measures the body after reading all of it.
UnboundedReadBody(body, unread, limit) ==
  ReadResult(IF limit > 0 /\ unread > limit THEN "tooLarge" ELSE body.fault, unread, 0)

readBody(body, unread, limit) ==
  IF limit <= 0
  THEN ReadResult(body.fault, unread, 0)                  \* io.ReadAll
  ELSE LET cap == Wrap(limit + 1, Int64Span) IN           \* io.LimitReader
       IF cap <= 0 THEN ReadResult("none", 0, unread)     \* reads nothing
       ELSE IF unread >= cap
            THEN ReadResult("tooLarge", cap, unread - cap)
            ELSE ReadResult(body.fault, unread, 0)

\* Unmarshalling what was read.  No JSON decoder accepts an empty document;
\* the parse function handed to Body may.
Decodes(kind, body, got) ==
  IF got = 0 THEN kind = "Body" ELSE kind \in body.decodes

Document(body, got) == IF got = 0 THEN EmptyMessage ELSE body.doc

-----------------------------------------------------------------------------
(* Bind: one binder applied to the message under construction.             *)

Bound(msg, unread)    == [err |-> "none", msg |-> msg, unread |-> unread]
BindFailure(err, msg, unread) == [err |-> err, msg |-> msg, unread |-> unread]

BindParam(b, in, extractor, msg, unread) ==
  LET raw == RawParam(b, in, extractor)
      v   == Parse(b.type, raw)
  IN  IF b.skipEmpty /\ raw = Zero THEN Bound(msg, unread)
      ELSE IF ~v.ok THEN BindFailure("bad", msg, unread)
      ELSE Bound([f \in Fields |-> IF f \in b.writes THEN v.text ELSE msg[f]], unread)

\* A plausible variant: unmarshalling that merges instead of resetting.
MergeAssigned(b) == b.writes

\* protojson.Unmarshal resets the message before it decodes; the other body
\* binders assign the fields their callback names.
Assigned(b) == IF b.kind = "BodyJSON" THEN Fields ELSE b.writes

BindBody(b, in, limit, msg, unread) ==
  LET read == readBody(in.body, unread, limit) IN
  IF read.err = "tooLarge" THEN BindFailure("tooLarge", msg, read.unread)
  ELSE IF read.err # "none" \/ ~Decodes(b.kind, in.body, read.got)
       THEN BindFailure("bad", msg, read.unread)
       ELSE Bound([f \in Fields |-> IF f \in Assigned(b)
                                    THEN Document(in.body, read.got)[f]
                                    ELSE msg[f]], read.unread)

Bind(b, in, extractor, limit, msg, unread) ==
  IF b.kind \in BodyKinds THEN BindBody(b, in, limit, msg, unread)
                          ELSE BindParam(b, in, extractor, msg, unread)

\* bindErrorStatus: http.MaxBytesError is 413, every other failure 400.
bindErrorStatus(err) == IF err = "tooLarge" THEN 413 ELSE 400

=============================================================================
