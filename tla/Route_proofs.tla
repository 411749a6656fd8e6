---------------------------- MODULE Route_proofs ----------------------------
(***************************************************************************)
(* Theorems about module Route, for every set of requests, routes, inputs, *)
(* outcomes, mappers and settings.                                         *)
(*                                                                         *)
(* The first two sections show that executing binders one after another    *)
(* produces what module Binding says the list means.  What rests on it     *)
(* assumes that the size limit plus one is an int64 (HonestConfig).        *)
(* Without it readBody reads nothing: run claim_binding.                   *)
(***************************************************************************)
EXTENDS Route, Responses_proofs

-----------------------------------------------------------------------------
(* What the operators of module Binders return.                            *)

\* Parsing yields a text.
LEMMA ParseType ==
  ASSUME NEW type \in Types, NEW raw \in Text
  PROVE  Parse(type, raw) \in [ok : BOOLEAN, text : Text]
<1>1. \A n \in Int : EnumNumberOf(n) \in Int
  BY BindersAssumption DEF EnumNumberOf, Wrap
<1>2. lookupEnum(raw) \in [ok : BOOLEAN, text : Text]
  <2>1. CASE raw \in DOMAIN EnumNumber
    BY <2>1, BindersAssumption DEF lookupEnum, Number, Parsed, Text
  <2>2. CASE raw \notin DOMAIN EnumNumber
    BY <2>2, <1>1 DEF lookupEnum, Number, Parsed, NoText, Text
  <2> QED BY <2>1, <2>2
<1>3. \A span : parseInt(raw, span) \in [ok : BOOLEAN, text : Text]
  BY DEF parseInt, Number, Parsed, NoText, Text
<1>4. Parsed(raw) \in [ok : BOOLEAN, text : Text] /\ NoText \in [ok : BOOLEAN, text : Text]
  BY DEF Parsed, NoText, Text
<1>5. CASE type = "string"
  BY <1>4, <1>5, Zenon DEF Parse
<1>6. CASE type \in {"int32", "int64"}
  BY <1>3, <1>6, Zenon DEF Parse
<1>7. CASE type = "enum"
  BY <1>2, <1>7, Zenon DEF Parse
<1>8. CASE type = "custom"
  BY <1>4, <1>8, Zenon DEF Parse
<1> QED BY <1>5, <1>6, <1>7, <1>8 DEF Types

BindResult == [err : {"none", "bad", "tooLarge"}, msg : Message, unread : Nat]

\* Reading the body consumes no more than is there.
LEMMA readBodyType ==
  ASSUME NEW body \in Body, NEW unread_ \in Nat, NEW limit \in Int
  PROVE  readBody(body, unread_, limit) \in
           [err : {"none", "io", "tooLarge"}, got : Nat, unread : Nat]
<1> DEFINE cap == Wrap(limit + 1, Int64Span)
<1>1. cap \in Int
  BY BindersAssumption DEF Wrap
<1>2. body.fault \in {"none", "io", "tooLarge"}
  BY DEF Body
<1> HIDE DEF cap
<1>3. readBody(body, unread_, limit) =
        IF limit <= 0 THEN ReadResult(body.fault, unread_, 0)
        ELSE IF cap <= 0 THEN ReadResult("none", 0, unread_)
        ELSE IF unread_ >= cap THEN ReadResult("tooLarge", cap, unread_ - cap)
                               ELSE ReadResult(body.fault, unread_, 0)
  BY DEF readBody, cap
<1> QED BY <1>1, <1>2, <1>3 DEF ReadResult

\* A binder leaves a message behind, whatever the request.
LEMMA BindType ==
  ASSUME NEW b \in Binder, NEW in \in Input, NEW extractor \in Extractors,
         NEW limit \in Int, NEW m \in Message, NEW u \in Nat
  PROVE  Bind(b, in, extractor, limit, m, u) \in BindResult
<1>1. CASE b.kind \in BodyKinds
  <2> DEFINE read == readBody(in.body, u, limit)
  <2>1. read \in [err : {"none", "io", "tooLarge"}, got : Nat, unread : Nat]
    BY readBodyType DEF Input
  <2>2. Document(in.body, read.got) \in Message
    <3>1. Zero \in Text
      BY DEF Text
    <3> QED BY <3>1 DEF Document, EmptyMessage, Message, Input, Body
  <2> HIDE DEF read
  <2>3. [f \in Fields |-> IF f \in Assigned(b) THEN Document(in.body, read.got)[f]
                                              ELSE m[f]] \in Message
    BY <2>2 DEF Message
  <2>4. BindBody(b, in, limit, m, u) \in BindResult
    BY <2>1, <2>3 DEF BindBody, BindResult, Bound, BindFailure, read
  <2> QED BY <1>1, <2>4 DEF Bind
<1>2. CASE b.kind \notin BodyKinds
  <2>1. RawParam(b, in, extractor) \in Text
    <3>1. Zero \in Text
      BY DEF Text
    <3> QED BY <3>1 DEF RawParam, PathParam, Input, Binder, Locations
  <2> DEFINE v == Parse(b.type, RawParam(b, in, extractor))
  <2>2. v \in [ok : BOOLEAN, text : Text]
    BY <2>1, ParseType DEF Binder
  <2> HIDE DEF v
  <2>3. [f \in Fields |-> IF f \in b.writes THEN v.text ELSE m[f]] \in Message
    BY <2>2 DEF Message
  <2>4. BindParam(b, in, extractor, m, u) \in BindResult
    BY <2>3 DEF BindParam, BindResult, Bound, BindFailure, v
  <2> QED BY <1>2, <2>4 DEF Bind
<1> QED BY <1>1, <1>2

-----------------------------------------------------------------------------
(* The binders of a list, one after another.                               *)

HonestLimit(limit) == limit \in Int /\ Fits(limit + 1, Int64Span)

\* A number that fits is not changed by the machine.
LEMMA WrapFits ==
  ASSUME NEW n \in Int, Fits(n, Int64Span)
  PROVE  Wrap(n, Int64Span) = n
<1> DEFINE half == Int64Span \div 2
<1>1. half \in Nat /\ 2 * half <= Int64Span /\ Int64Span \in Nat \ {0}
  BY BindersAssumption
<1>2. 0 <= n + half /\ n + half < Int64Span
  BY <1>1 DEF Fits
<1> HIDE DEF half
<1>3. (n + half) % Int64Span = n + half
  BY <1>1, <1>2
<1>4. Wrap(n, Int64Span) = ((n + half) % Int64Span) - half
  BY DEF Wrap, half
<1> QED BY <1>1, <1>3, <1>4

\* readBody takes the whole body, or refuses it after one byte too many.
LEMMA readBodyEffect ==
  ASSUME NEW body \in Body, NEW u \in Nat, NEW limit, HonestLimit(limit)
  PROVE  LET read == readBody(body, u, limit) IN
         /\ read.err = "none" =>
              read.got = u /\ read.unread = 0 /\ (limit > 0 => u <= limit)
         /\ read.unread <= u /\ (limit > 0 => u - read.unread <= limit + 1)
<1>1. limit \in Int /\ Wrap(limit + 1, Int64Span) = limit + 1
  BY WrapFits DEF HonestLimit
<1>2. readBody(body, u, limit) =
        IF limit <= 0 \/ u < limit + 1 THEN ReadResult(body.fault, u, 0)
        ELSE ReadResult("tooLarge", limit + 1, u - (limit + 1))
  BY <1>1 DEF readBody
<1> QED BY <1>1, <1>2 DEF ReadResult

\* What the first n binders leave of the body.
Remaining(bs, in, n) == IF FirstBody(bs) \in 1..n THEN 0 ELSE in.body.size

\* The n-th binder finds what is available to it.
LEMMA AvailableIsRemaining ==
  ASSUME NEW bs \in Seq(Binder), NEW in, NEW n \in 1..Len(bs)
  PROVE  /\ IsBody(bs[n]) => /\ Remaining(bs, in, n - 1) = Available(bs, in, n)
                             /\ Remaining(bs, in, n) = 0
         /\ ~IsBody(bs[n]) => Remaining(bs, in, n) = Remaining(bs, in, n - 1)
<1> DEFINE I == {i \in 1..Len(bs) : IsBody(bs[i])}
<1>1. FirstBody(bs) = IF I # {} THEN Min(I) ELSE 0
  BY DEF FirstBody, SelectInSeq
<1>2. I \in SUBSET Nat /\ \A i \in I : i \in 1..Len(bs)
  OBVIOUS
<1>3. n \in I <=> IsBody(bs[n])
  OBVIOUS
<1> HIDE DEF I
<1>4. I # {} => Min(I) \in I /\ \A i \in I : Min(I) <= i
  BY <1>2, MinType
<1>5. CASE IsBody(bs[n])
  <2>1. I # {} /\ Min(I) \in I /\ Min(I) <= n
    BY <1>3, <1>4, <1>5
  <2>2. FirstBody(bs) = Min(I) /\ Min(I) \in 1..Len(bs)
    BY <1>1, <1>2, <2>1
  <2>3. FirstBody(bs) \in 1..n
    BY <2>1, <2>2
  <2> QED BY <1>5, <2>3 DEF Remaining, Available
<1>6. CASE ~IsBody(bs[n])
  <2>1. FirstBody(bs) # n
    BY <1>1, <1>3, <1>4, <1>6
  <2>2. FirstBody(bs) \in 1..n <=> FirstBody(bs) \in 1..(n - 1)
    BY <1>1, <1>2, <1>4, <2>1
  <2> QED BY <1>6, <2>2 DEF Remaining
<1> QED BY <1>5, <1>6

\* The last writer of a field: the n-th binder if it assigns it, and else
\* the last one before.
LEMMA DeclaredStep ==
  ASSUME NEW bs \in Seq(Binder), NEW in, NEW extractor, NEW n \in 1..Len(bs)
  PROVE  DeclaredBy(bs, in, extractor, n) =
           [f \in Fields |-> IF f \in Assigns(bs[n], in, extractor)
                             THEN Value(bs, in, extractor, n, f)
                             ELSE DeclaredBy(bs, in, extractor, n - 1)[f]]
<1> DEFINE W(f, k) == {i \in 1..k : f \in Assigns(bs[i], in, extractor)}
           D(f, k) == IF W(f, k) = {} THEN Zero
                      ELSE Value(bs, in, extractor, Max(W(f, k)), f)
<1>1. \A k : DeclaredBy(bs, in, extractor, k) = [f \in Fields |-> D(f, k)]
  BY DEF DeclaredBy
<1>2. ASSUME NEW f \in Fields, f \in Assigns(bs[n], in, extractor)
      PROVE  D(f, n) = Value(bs, in, extractor, n, f)
  <2>1. n \in W(f, n) /\ W(f, n) \in SUBSET (1..n) /\ n \in Nat
    BY <1>2
  <2>2. Max(W(f, n)) = n
    <3> HIDE DEF W
    <3>1. Max(W(f, n)) \in W(f, n) /\ Max(W(f, n)) >= n
      BY <2>1, MaxType
    <3> QED BY <2>1, <3>1
  <2> HIDE DEF W
  <2> QED BY <2>1, <2>2
<1>3. ASSUME NEW f \in Fields, f \notin Assigns(bs[n], in, extractor)
      PROVE  D(f, n) = D(f, n - 1)
  <2>1. W(f, n) = W(f, n - 1)
    BY <1>3
  <2> HIDE DEF W
  <2> QED BY <2>1
<1> HIDE DEF D
<1> QED BY <1>1, <1>2, <1>3

\* The binder in turn, applied to what the ones before it describe, yields
\* what they describe together with it, and reads what is there for it.
LEMMA BindIsDeclared ==
  ASSUME NEW bs \in Seq(Binder), NEW in \in Input, NEW extractor \in Extractors,
         NEW limit, HonestLimit(limit), NEW n \in 1..Len(bs),
         NEW m, m = DeclaredBy(bs, in, extractor, n - 1),
         NEW u, u = Remaining(bs, in, n - 1),
         Bind(bs[n], in, extractor, limit, m, u).err = "none"
  PROVE  /\ Bind(bs[n], in, extractor, limit, m, u).msg = DeclaredBy(bs, in, extractor, n)
         /\ Bind(bs[n], in, extractor, limit, m, u).unread = Remaining(bs, in, n)
<1> DEFINE b == bs[n]
           r == Bind(b, in, extractor, limit, m, u)
<1>1. u \in Nat /\ in.body \in Body
  BY DEF Remaining, Input, Body
<1>2. CASE IsBody(b)
  <2> DEFINE read == readBody(in.body, u, limit)
  <2>1. read.err \notin {"tooLarge"} /\ read.err = "none" /\ r.unread = read.unread
        /\ r.msg = [f \in Fields |-> IF f \in Assigned(b)
                                     THEN Document(in.body, read.got)[f] ELSE m[f]]
    BY <1>2 DEF Bind, BindBody, IsBody, Bound, BindFailure
  <2>2. read.got = u /\ read.unread = 0
    BY <1>1, <2>1, readBodyEffect
  <2>3. u = Available(bs, in, n) /\ Remaining(bs, in, n) = 0
    BY <1>2, AvailableIsRemaining
  <2>4. Assigned(b) = Assigns(b, in, extractor)
    BY <1>2 DEF Assigned, Assigns
  <2>5. \A f : Value(bs, in, extractor, n, f) = Document(in.body, u)[f]
    BY <1>2, <2>3 DEF Value
  <2> HIDE DEF read, r
  <2>6. r.msg = DeclaredBy(bs, in, extractor, n)
    BY <2>1, <2>2, <2>4, <2>5, DeclaredStep
  <2> QED BY <2>1, <2>2, <2>3, <2>6 DEF r
<1>3. CASE ~IsBody(b)
  <2> DEFINE raw == RawParam(b, in, extractor)
             v == Parse(b.type, raw)
  <2>1. Remaining(bs, in, n) = u
    BY <1>3, AvailableIsRemaining
  <2>2. r = BindParam(b, in, extractor, m, u)
    BY <1>3 DEF Bind, IsBody
  <2>3. b.kind # "BodyJSON"
    BY <1>3 DEF IsBody, BodyKinds
  <2>4. CASE Skipped(b, in, extractor)
    <3>1. r.msg = m /\ r.unread = u
      BY <2>2, <2>4 DEF BindParam, Skipped, Bound
    <3>2. Assigns(b, in, extractor) = {}
      BY <1>3, <2>3, <2>4 DEF Assigns
    <3>3. m = [f \in Fields |-> m[f]]
      BY DEF DeclaredBy
    <3>4. m = DeclaredBy(bs, in, extractor, n)
      BY <3>2, <3>3, DeclaredStep
    <3> HIDE DEF r
    <3> QED BY <2>1, <3>1, <3>4 DEF r
  <2>5. CASE ~Skipped(b, in, extractor)
    <3>1. r.unread = u
          /\ r.msg = [f \in Fields |-> IF f \in b.writes THEN v.text ELSE m[f]]
      BY <2>2, <2>5 DEF BindParam, Skipped, Bound, BindFailure
    <3>2. Assigns(b, in, extractor) = b.writes
      BY <1>3, <2>3, <2>5 DEF Assigns
    <3>3. \A f : Value(bs, in, extractor, n, f) = v.text
      BY <1>3 DEF Value
    <3> HIDE DEF r, v
    <3>4. r.msg = DeclaredBy(bs, in, extractor, n)
      BY <3>1, <3>2, <3>3, DeclaredStep
    <3> QED BY <2>1, <3>1, <3>4 DEF r
  <2> QED BY <2>4, <2>5
<1> QED BY <1>2, <1>3

\* The machine does not make a natural number larger.
LEMMA WrapBelow ==
  ASSUME NEW n \in Nat
  PROVE  Wrap(n, Int64Span) \in Int /\ Wrap(n, Int64Span) <= n
<1> DEFINE half == Int64Span \div 2
<1>1. half \in Nat /\ Int64Span \in Nat \ {0}
  BY BindersAssumption
<1>2. Wrap(n, Int64Span) = ((n + half) % Int64Span) - half
  BY DEF Wrap
<1> HIDE DEF half
<1>3. (n + half) % Int64Span \in Nat /\ (n + half) % Int64Span <= n + half
  <2>1. CASE n + half < Int64Span
    BY <1>1, <2>1
  <2>2. CASE n + half >= Int64Span
    BY <1>1, <2>2
  <2> QED BY <1>1, <2>1, <2>2
<1> QED BY <1>1, <1>2, <1>3

\* Under any limit, a limit that overflows included, readBody reads at most
\* one byte beyond it, and reads all or nothing of a body it does not refuse.
LEMMA readBodyReads ==
  ASSUME NEW body \in Body, NEW u \in Nat, NEW limit \in Int
  PROVE  LET read == readBody(body, u, limit) IN
         /\ read.unread \in Nat
         /\ read.err = "none" => read.unread \in {0, u}
         /\ limit > 0 => u - read.unread <= limit + 1
<1> DEFINE cap == Wrap(limit + 1, Int64Span)
<1>1. cap \in Int /\ (limit > 0 => cap <= limit + 1)
  <2>1. cap \in Int
    BY BindersAssumption DEF Wrap
  <2>2. limit > 0 => limit + 1 \in Nat
    OBVIOUS
  <2> QED BY <2>1, <2>2, WrapBelow
<1>2. readBody(body, u, limit) =
        IF limit <= 0 THEN ReadResult(body.fault, u, 0)
        ELSE IF cap <= 0 THEN ReadResult("none", 0, u)
        ELSE IF u >= cap THEN ReadResult("tooLarge", cap, u - cap)
                         ELSE ReadResult(body.fault, u, 0)
  BY DEF readBody
<1> HIDE DEF cap
<1> QED BY <1>1, <1>2 DEF ReadResult

\* So does a binder: it leaves the body alone, or reads it like that.
LEMMA BindReads ==
  ASSUME NEW b, NEW in \in Input, NEW extractor,
         NEW limit \in Int, NEW m, NEW u \in Nat
  PROVE  LET r == Bind(b, in, extractor, limit, m, u) IN
         /\ r.unread \in Nat
         /\ r.err = "none" => r.unread \in {0, u}
         /\ limit > 0 => u - r.unread <= limit + 1
<1> DEFINE read == readBody(in.body, u, limit)
           r == Bind(b, in, extractor, limit, m, u)
<1>1. CASE b.kind \in BodyKinds
  <2>1. r.unread = read.unread /\ (r.err = "none" => read.err = "none")
    BY <1>1 DEF Bind, BindBody, Bound, BindFailure
  <2>2. in.body \in Body
    BY DEF Input
  <2> HIDE DEF r, read
  <2>3. /\ read.unread \in Nat
        /\ read.err = "none" => read.unread \in {0, u}
        /\ limit > 0 => u - read.unread <= limit + 1
    BY <2>2, readBodyReads DEF read
  <2> QED BY <2>1, <2>3 DEF r
<1>2. CASE b.kind \notin BodyKinds
  <2>1. r.unread = u
    BY <1>2 DEF Bind, BindParam, Bound, BindFailure
  <2> HIDE DEF r
  <2> QED BY <2>1 DEF r
<1> QED BY <1>1, <1>2

\* A binder that finds what the ones before it left of the body fails exactly
\* for the reason that module Binding gives.
LEMMA BindObstacle ==
  ASSUME NEW bs \in Seq(Binder), NEW in \in Input, NEW extractor,
         NEW limit, HonestLimit(limit), NEW n \in 1..Len(bs), NEW m,
         NEW u, u = Remaining(bs, in, n - 1)
  PROVE  Bind(bs[n], in, extractor, limit, m, u).err = Obstacle(bs, in, extractor, limit, n)
<1> DEFINE b == bs[n]
<1>1. CASE IsBody(b)
  <2> DEFINE read == readBody(in.body, u, limit)
  <2>1. u = Available(bs, in, n) /\ u \in Nat
    BY <1>1, AvailableIsRemaining DEF Remaining, Input, Body
  <2>2. limit \in Int /\ Wrap(limit + 1, Int64Span) = limit + 1
    BY WrapFits DEF HonestLimit
  <2>3. read = IF limit > 0 /\ u > limit
               THEN ReadResult("tooLarge", limit + 1, u - (limit + 1))
               ELSE ReadResult(in.body.fault, u, 0)
    BY <2>1, <2>2 DEF readBody
  <2>4. /\ Oversized(bs, in, limit, n) <=> read.err = "tooLarge"
        /\ read.err # "tooLarge" => read.err = in.body.fault /\ read.got = u
    BY <2>1, <2>3 DEF Oversized, ReadResult
  <2>5. Bind(b, in, extractor, limit, m, u).err =
          IF read.err = "tooLarge" THEN "tooLarge"
          ELSE IF read.err # "none" \/ ~Decodes(b.kind, in.body, read.got) THEN "bad"
          ELSE "none"
    BY <1>1 DEF Bind, BindBody, IsBody, Bound, BindFailure
  <2> HIDE DEF read
  <2> QED BY <1>1, <2>1, <2>4, <2>5 DEF Obstacle
<1>2. CASE ~IsBody(b)
  BY <1>2 DEF Bind, BindParam, IsBody, Bound, BindFailure, Obstacle, Skipped
<1> QED BY <1>1, <1>2

\* The verdict on a list is the obstacle of its first binder that has one.
LEMMA FirstObstacle ==
  ASSUME NEW bs \in Seq(Binder), NEW in, NEW extractor, NEW limit,
         NEW n \in 1..(Len(bs) + 1),
         \A i \in 1..(n - 1) : Obstacle(bs, in, extractor, limit, i) = "none"
  PROVE  /\ n = Len(bs) + 1 => Verdict(bs, in, extractor, limit) = "none"
         /\ n <= Len(bs) /\ Obstacle(bs, in, extractor, limit, n) # "none" =>
              Verdict(bs, in, extractor, limit) = Obstacle(bs, in, extractor, limit, n)
<1> DEFINE O(i) == Obstacle(bs, in, extractor, limit, i)
           blocked == {i \in DOMAIN bs : O(i) # "none"}
<1>1. DOMAIN bs = 1..Len(bs) /\ Len(bs) \in Nat
  OBVIOUS
<1>2. Verdict(bs, in, extractor, limit) = IF blocked = {} THEN "none" ELSE O(Min(blocked))
  BY DEF Verdict
<1>3. \A i \in blocked : i \in Nat /\ i >= n
  BY <1>1
<1>4. CASE n = Len(bs) + 1
  <2>1. blocked = {}
    BY <1>1, <1>3, <1>4
  <2> QED BY <1>2, <1>4, <2>1
<1>5. CASE n <= Len(bs) /\ O(n) # "none"
  <2>1. n \in blocked
    BY <1>1, <1>5
  <2>2. blocked \in SUBSET Nat
    BY <1>3
  <2> HIDE DEF blocked, O
  <2>3. Min(blocked) \in blocked /\ Min(blocked) <= n
    BY <2>1, <2>2, MinType
  <2>4. Min(blocked) = n
    BY <1>3, <2>3
  <2> QED BY <1>2, <1>5, <2>1, <2>4 DEF O
<1> QED BY <1>4, <1>5

-----------------------------------------------------------------------------
(* Types.  The type of a variable depends on where the handler is: a       *)
(* handler at work has a request, one that maps an error has an error and  *)
(* a mapper, and nothing has been written before it is done.               *)

Arrivals == [route : Routes, input : Inputs]

AtWork(q) ==
  /\ pc[q] \in Active => request[q] \in Arrivals
  /\ pc[q] = "mapping" => outcome[q] \in Failure /\ mapper[q] \in Mappers
  /\ pc[q] = "responding" => outcome[q] \in Success
  /\ pc[q] \notin Settled => response[q] = None

IInv == TypeOK /\ \A q \in Requests : AtWork(q)

\* The program starts in the invariant.
LEMMA InitIInv == Init => IInv
<1> SUFFICES ASSUME Init PROVE IInv
  OBVIOUS
<1>1. EmptyMessage \in Message
  BY DEF EmptyMessage, Message, Text
<1>2. "rfc7807" \in Mappers /\ "stdlib" \in Extractors
  BY DEF Mappers, Extractors
<1>3. TypeOK
  BY <1>1, <1>2, RouteAssumption DEF Init, TypeOK, Defaults, RouteFields
<1>4. \A q \in Requests : AtWork(q)
  BY DEF Init, AtWork, Active
<1> QED BY <1>3, <1>4 DEF IInv

\* Startup touches the configuration only.
LEMMA BootIInv ==
  ASSUME IInv, Boot
  PROVE  IInv'
<1> USE DEF IInv, TypeOK
<1>1. ASSUME UNCHANGED <<request, pc, binding, calls, outcome, mapper, response, gone>>,
             phase' \in {"boot", "serving"}, defaults' \in Defaults,
             route' \in [Routes -> RouteFields]
      PROVE  IInv'
  BY <1>1 DEF binding, AtWork
<1>2. ASSUME NEW fn \in MapperChoices, SetDefaultErrorMapper(fn) PROVE IInv'
  <2>1. (IF fn = "nil" THEN "rfc7807" ELSE fn) \in Mappers
    BY RouteAssumption DEF Mappers
  <2> QED BY <1>1, <1>2, <2>1 DEF SetDefaultErrorMapper, Booting, Defaults
<1>3. ASSUME NEW o \in OptionChoices, SetDefaultMarshalOptions(o) PROVE IInv'
  BY <1>1, <1>3, RouteAssumption DEF SetDefaultMarshalOptions, Booting, Defaults
<1>4. ASSUME NEW e \in ExtractorChoices, SetDefaultPathExtractor(e) PROVE IInv'
  <2>1. (IF e = "nil" THEN "stdlib" ELSE e) \in Extractors
    BY RouteAssumption DEF Extractors
  <2> QED BY <1>1, <1>4, <2>1 DEF SetDefaultPathExtractor, Booting, Defaults
<1>5. ASSUME NEW n \in LimitChoices, SetDefaultMaxBodyBytes(n) PROVE IInv'
  BY <1>1, <1>5, RouteAssumption DEF SetDefaultMaxBodyBytes, Booting, Defaults
<1>6. ASSUME NEW rt \in Routes, NEW b \in MapChoices, Map(rt, b) PROVE IInv'
  <2>1. [route[rt] EXCEPT !.mapped = b] \in RouteFields
    <3>1. route[rt] \in RouteFields
      OBVIOUS
    <3>2. b \in BOOLEAN
      BY RouteAssumption DEF Mappers
    <3> QED BY <3>1, <3>2 DEF RouteFields
  <2>2. route' = [route EXCEPT ![rt] = [route[rt] EXCEPT !.mapped = b]]
    BY <1>6 DEF Map
  <2> QED BY <1>1, <1>6, <2>1, <2>2 DEF Map, Booting
<1>7. ASSUME NEW rt \in Routes, NEW status \in StatusChoices, OnSuccess(rt, status) PROVE IInv'
  <2>1. [route[rt] EXCEPT !.successStatus = status] \in RouteFields
    <3>1. route[rt] \in RouteFields
      OBVIOUS
    <3>2. status \in Int
      BY RouteAssumption DEF Mappers
    <3> QED BY <3>1, <3>2 DEF RouteFields
  <2>2. route' = [route EXCEPT ![rt] = [route[rt] EXCEPT !.successStatus = status]]
    BY <1>7 DEF OnSuccess
  <2> QED BY <1>1, <1>7, <2>1, <2>2 DEF OnSuccess, Booting
<1>8. ASSUME NEW rt \in Routes, NEW fn \in RouteMapperChoices, WithErrorMapper(rt, fn) PROVE IInv'
  <2>1. [route[rt] EXCEPT !.errorMapper = fn] \in RouteFields
    <3>1. route[rt] \in RouteFields
      OBVIOUS
    <3>2. fn \in Mappers \cup {"nil"}
      BY RouteAssumption DEF Mappers
    <3> QED BY <3>1, <3>2 DEF RouteFields
  <2>2. route' = [route EXCEPT ![rt] = [route[rt] EXCEPT !.errorMapper = fn]]
    BY <1>8 DEF WithErrorMapper
  <2> QED BY <1>1, <1>8, <2>1, <2>2 DEF WithErrorMapper, Booting
<1>9. ASSUME NEW rt \in Routes, NEW o \in OptionChoices, WithMarshalOptions(rt, o) PROVE IInv'
  <2>1. [route[rt] EXCEPT !.marshal = o] \in RouteFields
    <3>1. route[rt] \in RouteFields
      OBVIOUS
    <3>2. o \in Options
      BY RouteAssumption DEF Mappers
    <3> QED BY <3>1, <3>2 DEF RouteFields
  <2>2. route' = [route EXCEPT ![rt] = [route[rt] EXCEPT !.marshal = o]]
    BY <1>9 DEF WithMarshalOptions
  <2> QED BY <1>1, <1>9, <2>1, <2>2 DEF WithMarshalOptions, Booting
<1>10. CASE Serve
  BY <1>1, <1>10 DEF Serve
<1> QED BY <1>2, <1>3, <1>4, <1>5, <1>6, <1>7, <1>8, <1>9, <1>10 DEF Boot

\* What Write does to the goroutine and to the wire.
LEMMA WriteEffect ==
  ASSUME IInv, NEW q \in Requests, NEW resp \in Draft, Write(q, resp), pc[q] \in Active
  PROVE  /\ pc' \in [Requests -> Active \cup Settled \cup {"idle"}]
         /\ response' \in [Requests -> HTTPResponse \cup {None}]
         /\ pc'[q] \in Settled
         /\ \/ response'[q] = None
            \/ ValidStatus(resp.status) /\ response'[q] = OnWire(resp)
         /\ \A p \in Requests \ {q} : pc'[p] = pc[p] /\ response'[p] = response[p]
<1>1. response[q] = None
  BY DEF IInv, AtWork, Active, Settled
<1>2. CASE ValidStatus(resp.status)
  <2>1. OnWire(resp) \in HTTPResponse
    BY <1>2, OnWireType
  <2>2. pc' = [pc EXCEPT ![q] = "done"] /\ response' = [response EXCEPT ![q] = OnWire(resp)]
    BY <1>2 DEF Write, Goto
  <2> QED BY <1>2, <2>1, <2>2 DEF IInv, TypeOK, Settled
<1>3. CASE ~ValidStatus(resp.status)
  BY <1>1, <1>3 DEF Write, Goto, IInv, TypeOK, Settled
<1> QED BY <1>2, <1>3

\* One binder applied in a state of the program.
LEMMA StepType ==
  ASSUME IInv, NEW q \in Requests, pc[q] = "binding", HasNext(q)
  PROVE  Step(q) \in BindResult
<1>1. request[q].route \in Routes /\ request[q].input \in Input
  BY RouteAssumption DEF IInv, AtWork, Active, Arrivals
<1>2. binders(q)[next[q]] \in Binder
  <2>1. binders(q) \in Seq(Binder)
    BY <1>1, RouteAssumption DEF binders
  <2>2. next[q] \in 1..Len(binders(q))
    BY <2>1 DEF HasNext, IInv, TypeOK
  <2> QED BY <2>1, <2>2
<1>3. /\ defaults.extractor \in Extractors /\ defaults.maxBody \in Int
      /\ msg[q] \in Message /\ unread[q] \in Nat
  BY DEF IInv, TypeOK, Defaults
<1> QED BY <1>1, <1>2, <1>3, BindType DEF Step

\* A binder's error becomes a body.
LEMMA bindErrorType ==
  \A err : /\ writeError(BareProblem(bindErrorStatus(err), "bind")) \in Draft
           /\ writeError(BareProblem(bindErrorStatus(err), "bind")).status \in {400, 413}
<1> TAKE err
<1> DEFINE body == BareProblem(bindErrorStatus(err), "bind")
<1>1. bindErrorStatus(err) \in {400, 413}
  BY DEF bindErrorStatus
<1>2. body \in ProblemDetails /\ body.status = bindErrorStatus(err)
  <2>1. body \in ProblemDetails
    BY <1>1, BareProblemType
  <2>2. body.status = bindErrorStatus(err)
    BY DEF BareProblem, Problem
  <2> QED BY <2>1, <2>2
<1> HIDE DEF body
<1>3. writeError(body) \in Draft /\ writeError(body).status = body.status
  BY <1>2, writeErrorType
<1> QED BY <1>1, <1>2, <1>3 DEF body

\* The handler of a request preserves the invariant.
LEMMA HandlerIInv ==
  ASSUME IInv, NEW q \in Requests, Handler(q)
  PROVE  IInv'
<1> USE DEF IInv
<1>1. CASE BindNext(q)
  <2>1. Step(q).msg \in Message /\ Step(q).unread \in Nat
    BY <1>1, StepType DEF BindNext, BindResult
  <2>2. TypeOK'
    BY <1>1, <2>1 DEF BindNext, TypeOK, config
  <2>3. \A p \in Requests : AtWork(p)'
    BY <1>1 DEF BindNext, AtWork, config
  <2> QED BY <2>2, <2>3
<1>2. CASE RejectBinding(q)
  <2> DEFINE resp == writeError(BareProblem(bindErrorStatus(Step(q).err), "bind"))
  <2>1. resp \in Draft
    BY bindErrorType
  <2>2. Step(q).unread \in Nat
    BY <1>2, StepType DEF RejectBinding, BindResult
  <2>3. pc[q] \in Active /\ Write(q, resp)
    BY <1>2 DEF RejectBinding, Active
  <2> HIDE DEF resp
  <2>4. TypeOK'
    BY <1>2, <2>1, <2>2, <2>3, WriteEffect DEF RejectBinding, TypeOK, config
  <2>5. \A p \in Requests : AtWork(p)'
    BY <1>2, <2>1, <2>3, WriteEffect DEF RejectBinding, AtWork, config, Active, Settled
  <2> QED BY <2>4, <2>5
<1>3. CASE Invoke(q)
  <2>1. TypeOK'
    BY <1>3 DEF Invoke, Goto, TypeOK, config, binding, Active
  <2>2. \A p \in Requests : AtWork(p)'
    BY <1>3 DEF Invoke, Goto, AtWork, TypeOK, config, binding, Active, Settled
  <2> QED BY <2>1, <2>2
<1>4. CASE Descend(q)
  <2>1. Delegate(mapper[q], outcome[q], defaults.errorMapper) \in Mappers
    BY <1>4, DelegateType DEF Descend, TypeOK, Defaults, AtWork
  <2>2. TypeOK'
    BY <1>4, <2>1 DEF Descend, TypeOK, config, binding
  <2>3. \A p \in Requests : AtWork(p)'
    BY <1>4, <2>1 DEF Descend, TypeOK, AtWork, config, binding
  <2> QED BY <2>2, <2>3
<1>5. CASE WriteError(q)
  <2> DEFINE resp == writeError(Mapped(mapper[q], outcome[q]))
  <2>1. resp \in Draft
    BY <1>5, MappedType, writeErrorType DEF WriteError, AtWork
  <2>2. pc[q] \in Active /\ Write(q, resp)
    BY <1>5 DEF WriteError, Active
  <2> HIDE DEF resp
  <2>3. TypeOK'
    BY <1>5, <2>1, <2>2, WriteEffect DEF WriteError, TypeOK, config, binding
  <2>4. \A p \in Requests : AtWork(p)'
    BY <1>5, <2>1, <2>2, WriteEffect DEF WriteError, AtWork, config, binding, Active, Settled
  <2> QED BY <2>3, <2>4
<1>6. CASE WriteSuccess(q)
  <2> DEFINE resp == IF options(q).mapped
                     THEN writeJSON(options(q).successStatus, outcome[q].encodes)
                     ELSE writeResponse(options(q).successStatus, outcome[q].marshals,
                                        outcome[q].encodes, marshalOptions(q))
  <2>1. options(q) \in RouteFields
    BY <1>6 DEF WriteSuccess, AtWork, Active, Arrivals, TypeOK, options
  <2>2. outcome[q].encodes \in BOOLEAN /\ outcome[q].marshals \in BOOLEAN
    BY <1>6 DEF WriteSuccess, AtWork, Success
  <2>3. marshalOptions(q) \in Options
    BY <2>1 DEF marshalOptions, RouteFields, TypeOK, Defaults
  <2>4. resp \in Draft
    BY <2>1, <2>2, <2>3, writeJSONType, writeResponseType DEF RouteFields
  <2>5. pc[q] \in Active /\ Write(q, resp)
    BY <1>6 DEF WriteSuccess, Active
  <2> HIDE DEF resp
  <2>6. TypeOK'
    BY <1>6, <2>4, <2>5, WriteEffect DEF WriteSuccess, TypeOK, config, binding
  <2>7. \A p \in Requests : AtWork(p)'
    BY <1>6, <2>4, <2>5, WriteEffect DEF WriteSuccess, AtWork, config, binding, Active, Settled
  <2> QED BY <2>6, <2>7
<1> QED BY <1>1, <1>2, <1>3, <1>4, <1>5, <1>6 DEF Handler

\* So do the client, the method and the HTTP server.
LEMMA EnvironmentIInv ==
  ASSUME IInv, NEW q \in Requests
  PROVE  /\ \A rt \in Routes, in \in Inputs : Arrive(q, rt, in) => IInv'
         /\ \A o \in Outcomes \cup {Canceled} : Return(q, o) => IInv'
         /\ Disconnect(q) => IInv'
         /\ Finish(q) => IInv'
<1> USE DEF IInv
<1>1. ASSUME NEW rt \in Routes, NEW in \in Inputs, Arrive(q, rt, in) PROVE IInv'
  <2>1. EmptyMessage \in Message /\ in.body.size \in Nat
    BY RouteAssumption DEF EmptyMessage, Message, Text, Input, Body
  <2>2. [route |-> rt, input |-> in] \in Arrivals
    BY DEF Arrivals
  <2>3. TypeOK'
    BY <1>1, <2>1, <2>2 DEF Arrive, Goto, TypeOK, config, Active, Arrivals
  <2>4. \A p \in Requests : AtWork(p)'
    BY <1>1, <2>2 DEF Arrive, Goto, TypeOK, AtWork, config, Active, Settled
  <2> QED BY <2>3, <2>4
<1>2. ASSUME NEW o \in Outcomes \cup {Canceled}, Return(q, o) PROVE IInv'
  <2>1. o \in Success \cup Failure /\ (o.ok => o \in Success) /\ (~o.ok => o \in Failure)
    BY RouteAssumption DEF Outcome, Success, Failure
  <2> DEFINE m == IF o.ok THEN "nil" ELSE IF options(q).errorMapper = "nil"
                  THEN "DefaultErrorMapper" ELSE options(q).errorMapper
             label == IF o.ok THEN "responding" ELSE "mapping"
  <2>2. options(q) \in RouteFields
    BY <1>2 DEF Return, AtWork, Active, Arrivals, TypeOK, options
  <2>3. m \in Mappers \cup {"nil"} /\ (~o.ok => m \in Mappers)
    BY <2>2 DEF RouteFields, Mappers
  <2>4. /\ pc[q] = "calling" /\ outcome' = [outcome EXCEPT ![q] = o]
        /\ pc' = [pc EXCEPT ![q] = label] /\ mapper' = [mapper EXCEPT ![q] = m]
        /\ UNCHANGED <<config, request, binding, calls, response, gone>>
    BY <1>2 DEF Return, Goto
  <2> HIDE DEF m
  <2>5. TypeOK'
    BY <2>3, <2>4 DEF TypeOK, config, binding, Active
  <2>6. \A p \in Requests : AtWork(p)'
    BY <2>1, <2>3, <2>4 DEF TypeOK, AtWork, config, binding, Active, Settled
  <2> QED BY <2>5, <2>6
<1>3. ASSUME Disconnect(q) PROVE IInv'
  BY <1>3 DEF Disconnect, TypeOK, AtWork, config, binding
<1>4. ASSUME Finish(q) PROVE IInv'
  <2>1. TypeOK'
    BY <1>4 DEF Finish, Goto, TypeOK, config, Active, Settled
  <2>2. \A p \in Requests : AtWork(p)'
    BY <1>4 DEF Finish, Goto, TypeOK, AtWork, config, Active, Settled
  <2> QED BY <2>1, <2>2
<1> QED BY <1>1, <1>2, <1>3, <1>4

\* Every action keeps the inductive invariant.
LEMMA NextIInv ==
  ASSUME IInv, [Next]_vars
  PROVE  IInv'
<1>1. CASE Boot
  BY <1>1, BootIInv
<1>2. ASSUME NEW q \in Requests, NEW rt \in Routes, NEW in \in Inputs, Arrive(q, rt, in)
      PROVE  IInv'
  BY <1>2, EnvironmentIInv
<1>3. ASSUME NEW q \in Requests, Handler(q) PROVE IInv'
  BY <1>3, HandlerIInv
<1>4. ASSUME NEW q \in Requests, NEW o \in Outcomes \cup {Canceled}, Return(q, o)
      PROVE  IInv'
  BY <1>4, EnvironmentIInv
<1>5. ASSUME NEW q \in Requests, Disconnect(q) PROVE IInv'
  BY <1>5, EnvironmentIInv
<1>6. ASSUME NEW q \in Requests, Finish(q) PROVE IInv'
  BY <1>6, EnvironmentIInv
<1>7. CASE UNCHANGED vars
  BY <1>7 DEF vars, IInv, TypeOK, AtWork
<1> QED BY <1>1, <1>2, <1>3, <1>4, <1>5, <1>6, <1>7 DEF Next

\* The inductive invariant is an invariant of the specification.
LEMMA IInvHolds == Spec => []IInv
<1>1. Init => IInv
  BY InitIInv
<1>2. IInv /\ [Next]_vars => IInv'
  BY NextIInv
<1> QED BY <1>1, <1>2, PTL DEF Spec

\* Type correctness: whatever is configured, sent and returned, the program
\* only writes statuses that net/http accepts and bodies of a known shape.
THEOREM TypeCorrect == Spec => []TypeOK
<1>1. IInv => TypeOK
  BY DEF IInv
<1> QED BY <1>1, IInvHolds, PTL

-----------------------------------------------------------------------------
(* Redaction.  Nothing is written before the handler is done, and then the *)
(* outcome no longer changes: it is enough to look at the three writers.   *)

\* A step that leaves what was written alone, or clears it.
LEMMA RedactedUnlessWritten ==
  ASSUME Redacted,
         \A p \in Requests : \/ response'[p] = response[p] /\ outcome'[p] = outcome[p]
                             \/ response'[p] = None
  PROVE  Redacted'
BY DEF Redacted

\* A write in the slot q.
LEMMA RedactedWrite ==
  ASSUME IInv, Redacted, NEW q \in Requests, NEW resp \in Draft, Write(q, resp),
         pc[q] \in Active, UNCHANGED outcome, Withholds(resp, outcome[q])
  PROVE  Redacted'
<1> SUFFICES ASSUME NEW p \in Requests, response'[p] # None
             PROVE  Withholds(response'[p], outcome[p])
  BY DEF Redacted, Withholds
<1>1. CASE p # q
  BY <1>1, WriteEffect DEF Redacted
<1>2. CASE p = q
  <2>1. ValidStatus(resp.status) /\ response'[q] = OnWire(resp)
    BY <1>2, WriteEffect
  <2>2. OnWire(resp).status >= 500 => OnWire(resp) = resp
    BY <2>1, OnWireType
  <2> QED BY <1>2, <2>1, <2>2 DEF Withholds
<1> QED BY <1>1, <1>2

\* Every action keeps the responses redacted.
LEMMA NextRedacted ==
  ASSUME IInv, Redacted, [Next]_vars
  PROVE  Redacted'
<1>1. CASE Boot \/ UNCHANGED vars
  BY <1>1, RedactedUnlessWritten
     DEF Boot, SetDefaultErrorMapper, SetDefaultMarshalOptions, SetDefaultPathExtractor,
         SetDefaultMaxBodyBytes, Map, OnSuccess, WithErrorMapper, WithMarshalOptions,
         Serve, Booting, vars
<1>2. ASSUME NEW q \in Requests, NEW rt \in Routes, NEW in \in Inputs, Arrive(q, rt, in)
      PROVE  Redacted'
  BY <1>2, RedactedUnlessWritten DEF Arrive
<1>3. ASSUME NEW q \in Requests, BindNext(q) \/ Invoke(q) \/ Descend(q) PROVE Redacted'
  BY <1>3, RedactedUnlessWritten DEF BindNext, Invoke, Descend
<1>4. ASSUME NEW q \in Requests, RejectBinding(q) PROVE Redacted'
  <2> DEFINE resp == writeError(BareProblem(bindErrorStatus(Step(q).err), "bind"))
  <2>1. resp \in Draft /\ resp.status \in {400, 413}
    BY bindErrorType
  <2>2. Write(q, resp) /\ pc[q] \in Active /\ UNCHANGED outcome
    BY <1>4 DEF RejectBinding, Active
  <2> HIDE DEF resp
  <2>3. Withholds(resp, outcome[q])
    BY <2>1 DEF Withholds
  <2> QED BY <2>1, <2>2, <2>3, RedactedWrite
<1>5. ASSUME NEW q \in Requests, WriteError(q) PROVE Redacted'
  <2> DEFINE body == Mapped(mapper[q], outcome[q])
             resp == writeError(body)
  <2>1. mapper[q] \in Mappers /\ outcome[q] \in Failure /\ Answers(mapper[q], outcome[q])
    BY <1>5 DEF WriteError, IInv, AtWork
  <2>2. resp \in Draft /\ resp.status = body.status /\ resp.body = body
    BY <2>1, MappedType, writeErrorType
  <2>3. Write(q, resp) /\ pc[q] \in Active /\ UNCHANGED outcome
    BY <1>5 DEF WriteError, Active
  <2>4. body.kind = "problem" /\ body.status >= 500 =>
          /\ body.detail # "upstream"
          /\ \/ body = BareProblem(body.status, body.detail)
             \/ \E v \in Vocabs :
                  Hit(v, outcome[q]) /\ Table[v][errorInfoOf(outcome[q].details)].status = body.status
    BY <2>1, MappedIsRedacted DEF Bare
  <2> HIDE DEF body, resp
  <2>5. Withholds(resp, outcome[q])
    BY <2>2, <2>4 DEF Withholds
  <2> QED BY <2>2, <2>3, <2>5, RedactedWrite
<1>6. ASSUME NEW q \in Requests, WriteSuccess(q) PROVE Redacted'
  <2> DEFINE resp == IF options(q).mapped
                     THEN writeJSON(options(q).successStatus, outcome[q].encodes)
                     ELSE writeResponse(options(q).successStatus, outcome[q].marshals,
                                        outcome[q].encodes, marshalOptions(q))
  <2>1. options(q) \in RouteFields
    BY <1>6 DEF WriteSuccess, IInv, AtWork, Active, Arrivals, TypeOK, options
  <2>2. outcome[q].encodes \in BOOLEAN /\ outcome[q].marshals \in BOOLEAN
    BY <1>6 DEF WriteSuccess, IInv, AtWork, Success
  <2>3. marshalOptions(q) \in Options
    BY <2>1 DEF marshalOptions, RouteFields, IInv, TypeOK, Defaults
  <2>4. resp \in Draft
    BY <2>1, <2>2, <2>3, writeJSONType, writeResponseType DEF RouteFields
  <2>5. resp.body.kind # "problem"
    BY DEF writeJSON, writeResponse, Response
  <2>6. Write(q, resp) /\ pc[q] \in Active /\ UNCHANGED outcome
    BY <1>6 DEF WriteSuccess, Active
  <2> HIDE DEF resp
  <2>7. Withholds(resp, outcome[q])
    BY <2>5 DEF Withholds
  <2> QED BY <2>4, <2>6, <2>7, RedactedWrite
<1>7. ASSUME NEW q \in Requests, NEW o \in Outcomes \cup {Canceled}, Return(q, o)
      PROVE  Redacted'
  <2>1. response[q] = None /\ response' = response
    BY <1>7 DEF Return, IInv, AtWork, Settled
  <2>2. \A p \in Requests \ {q} : outcome'[p] = outcome[p]
    BY <1>7 DEF Return, IInv, TypeOK
  <2> QED BY <2>1, <2>2, RedactedUnlessWritten
<1>8. ASSUME NEW q \in Requests, Disconnect(q) PROVE Redacted'
  BY <1>8, RedactedUnlessWritten DEF Disconnect
<1>9. ASSUME NEW q \in Requests, Finish(q) PROVE Redacted'
  <2>1. \A p \in Requests : \/ response'[p] = response[p] /\ outcome'[p] = outcome[p]
                            \/ response'[p] = None
    BY <1>9 DEF Finish, IInv, TypeOK
  <2> QED BY <2>1, RedactedUnlessWritten
<1> QED BY <1>1, <1>2, <1>3, <1>4, <1>5, <1>6, <1>7, <1>8, <1>9 DEF Next, Handler

\* No server error carries the text of the upstream status, nor structured
\* members of an error that no reason table claims.
THEOREM RedactionHolds == Spec => []Redacted
<1>1. Init => Redacted
  BY DEF Init, Redacted
<1>2. IInv /\ Redacted /\ [Next]_vars => Redacted'
  BY NextRedacted
<1> QED BY <1>1, <1>2, IInvHolds, PTL DEF Spec

-----------------------------------------------------------------------------
(* The binder loop.  BoundAsDeclared is not inductive: a binder also needs *)
(* the body to be as the earlier ones left it, and the extractor must not  *)
(* change under a request, which it does not because nothing is in flight  *)
(* while the program boots.                                                *)

HonestConfig == \A n \in LimitChoices \cup {DefaultLimit} : HonestLimit(n)

BoundSoFar(q) ==
  /\ phase = "boot" => pc[q] = "idle"
  /\ pc[q] = "idle" => calls[q] = <<>>
  /\ pc[q] = "binding" =>
       /\ next[q] - 1 <= Len(binders(q))
       /\ unread[q] = Remaining(binders(q), request[q].input, next[q] - 1)
       /\ msg[q] = DeclaredBy(binders(q), request[q].input, defaults.extractor, next[q] - 1)
  /\ \A i \in DOMAIN calls[q] :
       calls[q][i] = Declared(binders(q), request[q].input, defaults.extractor)

BInv ==
  /\ defaults.maxBody \in LimitChoices \cup {DefaultLimit}
  /\ \A q \in Requests : BoundSoFar(q)

\* A step in which the slot q does not bind, call or change hands.
LEMMA BoundUnchanged ==
  ASSUME BInv, NEW q \in Requests,
         pc'[q] = "idle" <=> pc[q] = "idle", pc'[q] = "binding" => pc[q] = "binding",
         UNCHANGED <<phase, defaults, request[q], next[q], msg[q], calls[q]>>,
         pc'[q] = "binding" => unread'[q] = unread[q]
  PROVE  BoundSoFar(q)'
BY DEF BInv, BoundSoFar, binders

\* Nothing has been bound before the first binder.
LEMMA NothingDeclared ==
  \A bs, in, extractor :
    /\ DeclaredBy(bs, in, extractor, 0) = EmptyMessage
    /\ Remaining(bs, in, 0) = in.body.size
BY DEF DeclaredBy, EmptyMessage, Remaining

\* The handler of the request p, and the other slots q.
LEMMA HandlerBInv ==
  ASSUME HonestConfig, IInv, BInv, NEW p \in Requests, Handler(p)
  PROVE  BInv'
<1> USE DEF IInv
<1>1. SUFFICES ASSUME NEW q \in Requests PROVE BoundSoFar(q)'
  BY DEF BInv, Handler, BindNext, RejectBinding, Invoke, Descend, WriteError,
         WriteSuccess, config
<1>2. phase' = phase /\ defaults' = defaults /\ request' = request
  BY DEF Handler, BindNext, RejectBinding, Invoke, Descend, WriteError, WriteSuccess, config
<1>3. CASE q # p
  <2>1. pc'[q] = pc[q] /\ next'[q] = next[q] /\ msg'[q] = msg[q] /\ calls'[q] = calls[q]
        /\ unread'[q] = unread[q]
    BY <1>3 DEF Handler, BindNext, RejectBinding, Invoke, Descend, WriteError, WriteSuccess,
                config, binding, Write, Goto, TypeOK
  <2> QED BY <1>2, <2>1, BoundUnchanged
<1>4. CASE q = p /\ BindNext(p)
  <2> DEFINE bs == binders(q)
             in == request[q].input
             n == next[q]
  <2>1. bs \in Seq(Binder) /\ in \in Input
    BY <1>4, RouteAssumption DEF BindNext, AtWork, Active, Arrivals, binders
  <2>2. n \in 1..Len(bs) /\ n - 1 \in Nat
    BY <1>4, <2>1 DEF BindNext, HasNext, TypeOK
  <2>3. msg[q] = DeclaredBy(bs, in, defaults.extractor, n - 1)
        /\ unread[q] = Remaining(bs, in, n - 1)
    BY <1>4 DEF BindNext, BInv, BoundSoFar
  <2>4. defaults.extractor \in Extractors /\ HonestLimit(defaults.maxBody)
    BY DEF TypeOK, Defaults, BInv, HonestConfig
  <2>5. Step(q).err = "none" /\ Step(q) = Bind(bs[n], in, defaults.extractor,
                                              defaults.maxBody, msg[q], unread[q])
    BY <1>4 DEF BindNext, Step
  <2>6. Step(q).msg = DeclaredBy(bs, in, defaults.extractor, n)
        /\ Step(q).unread = Remaining(bs, in, n)
    BY <2>1, <2>2, <2>3, <2>4, <2>5, BindIsDeclared
  <2>7. next'[q] = n + 1 /\ msg'[q] = Step(q).msg /\ unread'[q] = Step(q).unread
        /\ calls'[q] = calls[q] /\ pc'[q] = pc[q] /\ binders(q)' = bs
    BY <1>2, <1>4 DEF BindNext, TypeOK, binders
  <2>8. (n + 1) - 1 = n
    BY <2>2
  <2> HIDE DEF bs, in, n
  <2>9. next'[q] - 1 = n /\ n <= Len(bs)
    BY <2>2, <2>7, <2>8
  <2> QED BY <1>2, <1>4, <2>6, <2>7, <2>9 DEF BInv, BoundSoFar, BindNext, bs, in
<1>5. CASE q = p /\ Invoke(p)
  <2>1. binders(q) \in Seq(Binder) /\ next[q] \in Nat
    BY <1>5, RouteAssumption DEF Invoke, AtWork, Active, Arrivals, binders, TypeOK
  <2>2. next[q] - 1 = Len(binders(q))
    BY <1>5, <2>1 DEF Invoke, HasNext, BInv, BoundSoFar
  <2>3. msg[q] = Declared(binders(q), request[q].input, defaults.extractor)
    BY <1>5, <2>2 DEF Invoke, BInv, BoundSoFar, Declared
  <2>4. calls'[q] = Append(calls[q], msg[q]) /\ calls[q] \in Seq(Message) /\ pc'[q] = "calling"
    BY <1>5 DEF Invoke, Goto, TypeOK
  <2>5. \A i \in DOMAIN calls'[q] : calls'[q][i] = msg[q] \/ (i \in DOMAIN calls[q] /\ calls'[q][i] = calls[q][i])
    BY <2>4
  <2>6. phase # "boot"
    BY <1>5 DEF Invoke, BInv, BoundSoFar
  <2> QED BY <1>2, <2>3, <2>4, <2>5, <2>6 DEF BInv, BoundSoFar, binders
<1>6. CASE q = p /\ (RejectBinding(p) \/ Descend(p) \/ WriteError(p) \/ WriteSuccess(p))
  <2>1. pc'[q] \notin {"idle", "binding"} /\ pc[q] # "idle"
    BY <1>6 DEF RejectBinding, Descend, WriteError, WriteSuccess, Write, Goto, TypeOK
  <2>2. next'[q] = next[q] /\ msg'[q] = msg[q] /\ calls'[q] = calls[q]
    BY <1>6 DEF RejectBinding, Descend, WriteError, WriteSuccess, binding
  <2> QED BY <1>2, <2>1, <2>2, BoundUnchanged
<1> QED BY <1>3, <1>4, <1>5, <1>6 DEF Handler

\* Every action keeps the request as its binders declare it so far.
LEMMA NextBInv ==
  ASSUME HonestConfig, IInv, BInv, [Next]_vars
  PROVE  BInv'
<1> USE DEF IInv
<1>1. CASE Boot
  <2>1. phase = "boot" /\ UNCHANGED <<request, pc, next, msg, unread, calls>>
    BY <1>1 DEF Boot, SetDefaultErrorMapper, SetDefaultMarshalOptions, SetDefaultPathExtractor,
         SetDefaultMaxBodyBytes, Map, OnSuccess, WithErrorMapper, WithMarshalOptions,
         Serve, Booting, binding
  <2>2. defaults'.maxBody \in LimitChoices \cup {DefaultLimit}
    BY <1>1 DEF Boot, SetDefaultErrorMapper, SetDefaultMarshalOptions, SetDefaultPathExtractor,
         SetDefaultMaxBodyBytes, Map, OnSuccess, WithErrorMapper, WithMarshalOptions,
         Serve, Booting, BInv, TypeOK, Defaults
  <2>3. \A q \in Requests : pc[q] = "idle" /\ calls[q] = <<>>
    BY <2>1 DEF BInv, BoundSoFar
  <2> QED BY <2>1, <2>2, <2>3 DEF BInv, BoundSoFar
<1>2. ASSUME NEW p \in Requests, NEW rt \in Routes, NEW in \in Inputs, Arrive(p, rt, in)
      PROVE  BInv'
  <2>1. phase' = phase /\ phase # "boot" /\ defaults' = defaults /\ calls' = calls
    BY <1>2 DEF Arrive, config
  <2>2. ASSUME NEW q \in Requests, q # p PROVE BoundSoFar(q)'
    <3>1. pc'[q] = pc[q] /\ next'[q] = next[q] /\ msg'[q] = msg[q]
          /\ unread'[q] = unread[q] /\ request'[q] = request[q]
      BY <1>2, <2>2 DEF Arrive, Goto, TypeOK
    <3> QED BY <2>1, <3>1, BoundUnchanged
  <2>3. BoundSoFar(p)'
    <3>1. /\ pc'[p] = "binding" /\ next'[p] = 1 /\ msg'[p] = EmptyMessage
          /\ unread'[p] = in.body.size
          /\ request'[p] = [route |-> rt, input |-> in]
      BY <1>2 DEF Arrive, Goto, TypeOK
    <3>2. calls[p] = <<>>
      BY <1>2 DEF Arrive, BInv, BoundSoFar
    <3>3. RouteBinders[rt] \in Seq(Binder)
      BY RouteAssumption
    <3> QED BY <2>1, <3>1, <3>2, <3>3, NothingDeclared DEF BoundSoFar, binders
  <2> QED BY <2>1, <2>2, <2>3 DEF BInv
<1>3. ASSUME NEW p \in Requests, Handler(p) PROVE BInv'
  BY <1>3, HandlerBInv
<1>4. ASSUME NEW p \in Requests, NEW o \in Outcomes \cup {Canceled}, Return(p, o)
      PROVE  BInv'
  <2>1. UNCHANGED <<phase, defaults, request, next, msg, unread, calls>>
    BY <1>4 DEF Return, config, binding
  <2>2. ASSUME NEW q \in Requests PROVE BoundSoFar(q)'
    <3>1. (pc'[q] = "idle" <=> pc[q] = "idle") /\ (pc'[q] = "binding" => pc[q] = "binding")
      BY <1>4 DEF Return, Goto, TypeOK
    <3> QED BY <2>1, <3>1, BoundUnchanged
  <2> QED BY <2>1, <2>2 DEF BInv
<1>5. ASSUME NEW p \in Requests, Disconnect(p) PROVE BInv'
  <2>1. UNCHANGED <<phase, defaults, request, pc, next, msg, unread, calls>>
    BY <1>5 DEF Disconnect, config, binding
  <2>2. ASSUME NEW q \in Requests PROVE BoundSoFar(q)'
    BY <2>1, BoundUnchanged
  <2> QED BY <2>1, <2>2 DEF BInv
<1>6. ASSUME NEW p \in Requests, Finish(p) PROVE BInv'
  <2>1. phase' = phase /\ defaults' = defaults /\ next' = next /\ msg' = msg
    BY <1>6 DEF Finish, config
  <2>2. ASSUME NEW q \in Requests, q # p PROVE BoundSoFar(q)'
    <3>1. pc'[q] = pc[q] /\ unread'[q] = unread[q] /\ request'[q] = request[q]
          /\ calls'[q] = calls[q]
      BY <1>6, <2>2 DEF Finish, Goto, TypeOK
    <3> QED BY <2>1, <3>1, BoundUnchanged
  <2>3. pc'[p] = "idle" /\ calls'[p] = <<>>
    BY <1>6 DEF Finish, Goto, TypeOK
  <2> QED BY <2>1, <2>2, <2>3 DEF BInv, BoundSoFar
<1>7. CASE UNCHANGED vars
  BY <1>7 DEF vars, BInv, BoundSoFar, binders
<1> QED BY <1>1, <1>2, <1>3, <1>4, <1>5, <1>6, <1>7 DEF Next

\* What the method hears is what the binders of the route declare for the
\* request, however many requests are served at a time, and at every turn of
\* the loop req is what the binders so far declare.
THEOREM BindingHolds ==
  ASSUME HonestConfig
  PROVE  Spec => []BoundAsDeclared
<1>1. Init => BInv
  BY DEF Init, BInv, BoundSoFar
<1>2. IInv /\ BInv /\ [Next]_vars => BInv'
  BY NextBInv
<1>3. BInv => BoundAsDeclared
  BY DEF BInv, BoundSoFar, BoundAsDeclared
<1> QED BY <1>1, <1>2, <1>3, IInvHolds, PTL DEF Spec

-----------------------------------------------------------------------------
(* The size limit.  What a request has read is bounded at every turn       *)
(* because a binder finds either the whole body or nothing of it.          *)

ReadSoFar(q) ==
  /\ phase = "boot" => request[q] = None
  /\ pc[q] = "binding" => unread[q] \in {0, request[q].input.body.size}

RInv == ReadIsBounded /\ \A q \in Requests : ReadSoFar(q)

\* A step in which the slot q reads nothing, or is cleared.
LEMMA ReadUnchanged ==
  ASSUME RInv, NEW q \in Requests, UNCHANGED <<phase, defaults>>,
         \/ request'[q] = None /\ pc'[q] # "binding"
         \/ /\ UNCHANGED <<request[q], unread[q]>>
            /\ pc'[q] = "binding" => pc[q] = "binding"
  PROVE  /\ ReadSoFar(q)'
         /\ request'[q] # None /\ defaults'.maxBody > 0 =>
              request'[q].input.body.size - unread'[q] <= defaults'.maxBody + 1
BY DEF RInv, ReadSoFar, ReadIsBounded

\* Every action keeps what has been read within the limit.
LEMMA NextRInv ==
  ASSUME IInv, RInv, [Next]_vars
  PROVE  RInv'
<1> DEFINE Within(q) ==
      request[q] # None /\ defaults.maxBody > 0 =>
        request[q].input.body.size - unread[q] <= defaults.maxBody + 1
<1>1. SUFFICES ASSUME NEW q \in Requests PROVE ReadSoFar(q)' /\ Within(q)'
  BY DEF RInv, ReadIsBounded
<1>2. CASE Boot
  <2>1. phase = "boot" /\ UNCHANGED <<request, pc, unread>>
    BY <1>2 DEF Boot, SetDefaultErrorMapper, SetDefaultMarshalOptions, SetDefaultPathExtractor,
         SetDefaultMaxBodyBytes, Map, OnSuccess, WithErrorMapper, WithMarshalOptions,
         Serve, Booting, binding
  <2> QED BY <2>1 DEF RInv, ReadSoFar
<1>3. ASSUME NEW p \in Requests, NEW rt \in Routes, NEW in \in Inputs, Arrive(p, rt, in)
      PROVE  ReadSoFar(q)' /\ Within(q)'
  <2>1. phase' = phase /\ phase # "boot" /\ defaults' = defaults
    BY <1>3 DEF Arrive, config
  <2>2. CASE q # p
    BY <1>3, <2>1, <2>2, ReadUnchanged DEF Arrive, Goto, IInv, TypeOK
  <2>3. CASE q = p
    <3>1. request'[q] = [route |-> rt, input |-> in] /\ unread'[q] = in.body.size
      BY <1>3, <2>3 DEF Arrive, IInv, TypeOK
    <3>2. in.body.size \in Nat /\ defaults.maxBody \in Int
      BY RouteAssumption DEF Input, Body, IInv, TypeOK, Defaults
    <3> QED BY <2>1, <3>1, <3>2 DEF ReadSoFar
  <2> QED BY <2>2, <2>3
<1>4. ASSUME NEW p \in Requests, BindNext(p) \/ RejectBinding(p)
      PROVE  ReadSoFar(q)' /\ Within(q)'
  <2>1. UNCHANGED <<phase, defaults, request>> /\ pc[p] = "binding" /\ HasNext(p)
    BY <1>4 DEF BindNext, RejectBinding, config
  <2>2. unread' = [unread EXCEPT ![p] = Step(p).unread]
    BY <1>4 DEF BindNext, RejectBinding
  <2>3. CASE q # p
    <3>1. pc'[q] = pc[q] /\ unread'[q] = unread[q]
      BY <1>4, <2>2, <2>3 DEF BindNext, RejectBinding, Write, Goto, IInv, TypeOK
    <3> QED BY <2>1, <3>1, ReadUnchanged
  <2>4. CASE q = p
    <3> DEFINE size == request[q].input.body.size
               r == Step(q)
    <3>1. /\ request[q] \in Arrivals /\ request[q].input \in Input
          /\ unread[q] \in Nat /\ defaults.maxBody \in Int
      BY <2>1, <2>4, RouteAssumption DEF IInv, AtWork, Active, Arrivals, TypeOK, Defaults
    <3>2. size \in Nat /\ request[q] # None
      BY <3>1, RouteAssumption DEF Input, Body, Arrivals
    <3>3. /\ r.unread \in Nat
          /\ r.err = "none" => r.unread \in {0, unread[q]}
          /\ defaults.maxBody > 0 => unread[q] - r.unread <= defaults.maxBody + 1
      BY <3>1, BindReads DEF Step
    <3>4. pc'[q] = "binding" => r.err = "none"
      BY <1>4, <2>4 DEF BindNext, RejectBinding, Write, Goto, IInv, TypeOK
    <3>5. unread[q] \in {0, size} /\ phase # "boot"
      BY <2>1, <2>4, <3>2 DEF RInv, ReadSoFar
    <3>6. defaults.maxBody > 0 => size - unread[q] <= defaults.maxBody + 1
      BY <3>2 DEF RInv, ReadIsBounded
    <3>7. unread'[q] = r.unread
      BY <2>2, <2>4 DEF IInv, TypeOK
    <3> HIDE DEF r
    <3>8. defaults.maxBody > 0 => size - r.unread <= defaults.maxBody + 1
      BY <3>1, <3>2, <3>3, <3>5, <3>6
    <3> QED BY <2>1, <3>3, <3>4, <3>5, <3>7, <3>8 DEF ReadSoFar
  <2> QED BY <2>3, <2>4
<1>5. ASSUME NEW p \in Requests, \/ Invoke(p) \/ Descend(p) \/ WriteError(p) \/ WriteSuccess(p)
                                 \/ \E o \in Outcomes \cup {Canceled} : Return(p, o)
                                 \/ Disconnect(p)
      PROVE  ReadSoFar(q)' /\ Within(q)'
  <2>1. UNCHANGED <<phase, defaults, request, unread>>
    BY <1>5 DEF Invoke, Descend, WriteError, WriteSuccess, Return, Disconnect, config, binding
  <2>2. pc'[q] = "binding" => pc[q] = "binding"
    BY <1>5 DEF Invoke, Descend, WriteError, WriteSuccess, Return, Disconnect, Write, Goto,
                IInv, TypeOK
  <2> QED BY <2>1, <2>2, ReadUnchanged
<1>6. ASSUME NEW p \in Requests, Finish(p) PROVE ReadSoFar(q)' /\ Within(q)'
  <2>1. UNCHANGED <<phase, defaults>>
    BY <1>6 DEF Finish, config
  <2>2. \/ request'[q] = None /\ pc'[q] # "binding"
        \/ UNCHANGED <<request[q], unread[q], pc[q]>>
    BY <1>6 DEF Finish, Goto, IInv, TypeOK
  <2> QED BY <2>1, <2>2, ReadUnchanged
<1>7. CASE UNCHANGED vars
  BY <1>7, ReadUnchanged DEF vars
<1> QED BY <1>2, <1>3, <1>4, <1>5, <1>6, <1>7 DEF Next, Handler

\* Whatever the limit, one that overflows included, and however many body
\* binders a route has, a request makes the server read one byte more than
\* the limit at most.
THEOREM ReadIsBoundedHolds == Spec => []ReadIsBounded
<1>1. Init => RInv
  BY DEF Init, RInv, ReadSoFar, ReadIsBounded
<1>2. IInv /\ RInv /\ [Next]_vars => RInv'
  BY NextRInv
<1>3. RInv => ReadIsBounded
  BY DEF RInv
<1> QED BY <1>1, <1>2, <1>3, IInvHolds, PTL DEF Spec

-----------------------------------------------------------------------------
(* The promise of module Exchange.  Besides BInv, which says what a        *)
(* binding handler has bound, the mapping of the steps needs that every    *)
(* binder applied so far was satisfied, and where the method has been      *)
(* called.                                                                 *)

Heard(q) ==
  /\ pc[q] = "binding" =>
       /\ calls[q] = <<>>
       /\ \A i \in 1..(next[q] - 1) :
            Obstacle(binders(q), request[q].input, defaults.extractor, defaults.maxBody, i)
              = "none"
  /\ pc[q] \in {"calling", "mapping", "responding"} => calls[q] # <<>>

EInv == \A q \in Requests : Heard(q)

\* In every state of the loop the binder in turn fails for its obstacle.
LEMMA StepObstacle ==
  ASSUME HonestConfig, IInv, BInv, NEW q \in Requests, pc[q] = "binding", HasNext(q)
  PROVE  /\ binders(q) \in Seq(Binder)
         /\ next[q] \in 1..Len(binders(q))
         /\ Step(q).err = Obstacle(binders(q), request[q].input, defaults.extractor,
                                   defaults.maxBody, next[q])
<1>1. binders(q) \in Seq(Binder) /\ request[q].input \in Input
  BY RouteAssumption DEF IInv, AtWork, Active, Arrivals, binders
<1>2. next[q] \in 1..Len(binders(q))
  BY <1>1 DEF HasNext, IInv, TypeOK
<1>3. HonestLimit(defaults.maxBody)
  BY DEF BInv, HonestConfig
<1>4. unread[q] = Remaining(binders(q), request[q].input, next[q] - 1)
  BY DEF BInv, BoundSoFar
<1>5. \A m, x : Bind(binders(q)[next[q]], request[q].input, x, defaults.maxBody, m, unread[q]).err
               = Obstacle(binders(q), request[q].input, x, defaults.maxBody, next[q])
  <2> TAKE m, x
  <2> DEFINE bs == binders(q)
             in == request[q].input
             n == next[q]
             limit == defaults.maxBody
             u == unread[q]
  <2>1. bs \in Seq(Binder) /\ in \in Input
    BY <1>1
  <2>2. HonestLimit(limit) /\ n \in 1..Len(bs)
    BY <1>2, <1>3
  <2>3. u = Remaining(bs, in, n - 1)
    BY <1>4
  <2> HIDE DEF bs, in, n, limit, u
  <2>4. Bind(bs[n], in, x, limit, m, u).err = Obstacle(bs, in, x, limit, n)
    BY ONLY <2>1, <2>2, <2>3, BindObstacle, ZenonT(60)
  <2> QED BY <2>4 DEF bs, in, n, limit, u
<1> QED BY <1>1, <1>2, <1>5 DEF Step

\* A step that neither binds nor calls in the slot q.
LEMMA HeardUnchanged ==
  ASSUME IInv, EInv, NEW q \in Requests,
         UNCHANGED <<defaults, request[q], next[q], calls[q]>>,
         pc'[q] = "binding" => pc[q] = "binding",
         pc'[q] \in {"calling", "mapping", "responding"} =>
           pc[q] \in {"calling", "mapping", "responding"}
  PROVE  Heard(q)'
BY DEF EInv, Heard, binders

\* Every action keeps it so.
LEMMA NextEInv ==
  ASSUME HonestConfig, IInv, BInv, EInv, [Next]_vars
  PROVE  EInv'
<1> USE DEF IInv
<1>1. SUFFICES ASSUME NEW q \in Requests PROVE Heard(q)'
  BY DEF EInv
<1>2. CASE Boot
  <2>1. phase = "boot" /\ UNCHANGED pc
    BY <1>2 DEF Boot, SetDefaultErrorMapper, SetDefaultMarshalOptions, SetDefaultPathExtractor,
         SetDefaultMaxBodyBytes, Map, OnSuccess, WithErrorMapper, WithMarshalOptions,
         Serve, Booting, binding
  <2> QED BY <2>1 DEF Heard, BInv, BoundSoFar
<1>3. ASSUME NEW p \in Requests, NEW rt \in Routes, NEW in \in Inputs, Arrive(p, rt, in)
      PROVE  Heard(q)'
  <2>1. CASE q # p
    <3>1. UNCHANGED <<defaults, request[q], next[q], calls[q], pc[q]>>
      BY <1>3, <2>1 DEF Arrive, Goto, TypeOK, config
    <3> QED BY <3>1, HeardUnchanged
  <2>2. CASE q = p
    <3>1. pc'[q] = "binding" /\ next'[q] = 1 /\ calls'[q] = calls[q] /\ pc[q] = "idle"
      BY <1>3, <2>2 DEF Arrive, Goto, TypeOK
    <3>2. calls'[q] = <<>>
      BY <3>1 DEF BInv, BoundSoFar
    <3>3. 1..(next'[q] - 1) = {}
      BY <3>1
    <3> QED BY <3>1, <3>2, <3>3 DEF Heard
  <2> QED BY <2>1, <2>2
<1>4. ASSUME NEW p \in Requests, BindNext(p) PROVE Heard(q)'
  <2>1. UNCHANGED <<defaults, request, pc, calls>>
    BY <1>4 DEF BindNext, config
  <2>2. CASE q # p
    <3>1. next'[q] = next[q]
      BY <1>4, <2>2 DEF BindNext, TypeOK
    <3> QED BY <2>1, <3>1, HeardUnchanged
  <2>3. CASE q = p
    <3>1. pc[q] = "binding" /\ HasNext(q) /\ Step(q).err = "none" /\ next'[q] = next[q] + 1
      BY <1>4, <2>3 DEF BindNext, TypeOK
    <3>2. Obstacle(binders(q), request[q].input, defaults.extractor, defaults.maxBody, next[q])
            = "none"
      BY <3>1, StepObstacle
    <3>3. next[q] \in Nat /\ next'[q] - 1 = next[q]
      BY <3>1 DEF TypeOK
    <3>4. \A i \in 1..next[q] : i \in 1..(next[q] - 1) \/ i = next[q]
      BY <3>3
    <3> QED BY <2>1, <3>1, <3>2, <3>3, <3>4 DEF EInv, Heard, binders
  <2> QED BY <2>2, <2>3
<1>5. ASSUME NEW p \in Requests, Invoke(p) PROVE Heard(q)'
  <2>1. UNCHANGED <<defaults, request, next>>
    BY <1>5 DEF Invoke, config, binding
  <2>2. CASE q # p
    <3>1. UNCHANGED <<pc[q], calls[q]>>
      BY <1>5, <2>2 DEF Invoke, Goto, TypeOK
    <3> QED BY <2>1, <3>1, HeardUnchanged
  <2>3. CASE q = p
    <3>1. pc'[q] = "calling" /\ calls'[q] = Append(calls[q], msg[q]) /\ calls[q] \in Seq(Message)
      BY <1>5, <2>3 DEF Invoke, Goto, TypeOK
    <3>2. calls'[q] # <<>>
      BY <3>1
    <3> QED BY <3>1, <3>2 DEF Heard
  <2> QED BY <2>2, <2>3
<1>6. ASSUME NEW p \in Requests, \/ RejectBinding(p) \/ Descend(p) \/ WriteError(p)
                                 \/ WriteSuccess(p) \/ Disconnect(p)
                                 \/ \E o \in Outcomes \cup {Canceled} : Return(p, o)
      PROVE  Heard(q)'
  <2>1. UNCHANGED <<defaults, request, next, calls>>
    BY <1>6 DEF RejectBinding, Descend, WriteError, WriteSuccess, Return, Disconnect, config, binding
  <2>2. /\ pc'[q] = "binding" => pc[q] = "binding"
        /\ pc'[q] \in {"calling", "mapping", "responding"} =>
             pc[q] \in {"calling", "mapping", "responding"}
    BY <1>6 DEF RejectBinding, Descend, WriteError, WriteSuccess, Return, Disconnect, Write,
                Goto, TypeOK
  <2> QED BY <2>1, <2>2, HeardUnchanged
<1>7. ASSUME NEW p \in Requests, Finish(p) PROVE Heard(q)'
  <2>1. UNCHANGED <<defaults, next>>
    BY <1>7 DEF Finish, config
  <2>2. pc'[q] = "idle" \/ UNCHANGED <<request[q], pc[q], calls[q]>>
    BY <1>7 DEF Finish, Goto, TypeOK
  <2>3. CASE pc'[q] = "idle"
    BY <2>3 DEF Heard
  <2> QED BY <2>1, <2>2, <2>3, HeardUnchanged
<1>8. CASE UNCHANGED vars
  BY <1>8, HeardUnchanged DEF vars
<1> QED BY <1>2, <1>3, <1>4, <1>5, <1>6, <1>7, <1>8 DEF Next, Handler

\* What the mapping rests on holds throughout.
LEMMA ExchangeInvariants ==
  ASSUME HonestConfig
  PROVE  Spec => [](IInv /\ BInv /\ EInv)
<1>1. Init => BInv /\ EInv
  BY DEF Init, BInv, BoundSoFar, EInv, Heard
<1>2. IInv /\ BInv /\ [Next]_vars => BInv'
  BY NextBInv
<1>3. IInv /\ BInv /\ EInv /\ [Next]_vars => EInv'
  BY NextEInv
<1> QED BY <1>1, <1>2, <1>3, IInvHolds, PTL DEF Spec

\* The stage of a handler, and the status of its refusal.
StageOf(label, heard) ==
  CASE label = "idle"    -> "idle"
    [] label = "binding" -> "accepted"
    [] label \in Settled /\ heard = <<>> -> "refused"
    [] label \in Settled /\ heard # <<>> -> "ended"
    [] OTHER             -> "called"

RefusedOf(label, heard, resp) ==
  IF StageOf(label, heard) = "refused" THEN resp.status ELSE 0

RefusedBar == [q \in Requests |-> RefusedOf(pc[q], calls[q], response[q])]

\* What the stages are.
LEMMA StageCases ==
  ASSUME NEW label, NEW heard
  PROVE  /\ label = "idle" => StageOf(label, heard) = "idle"
         /\ label = "binding" => StageOf(label, heard) = "accepted"
         /\ label \in Settled /\ heard = <<>> => StageOf(label, heard) = "refused"
         /\ label \in Settled /\ heard # <<>> => StageOf(label, heard) = "ended"
         /\ label \in {"calling", "mapping", "responding"} =>
              StageOf(label, heard) = "called"
<1>1. CASE label = "idle"
  BY <1>1, Zenon DEF StageOf, Settled
<1>2. CASE label = "binding"
  <2>1. label # "idle"
    BY <1>2
  <2> QED BY <1>2, <2>1 DEF StageOf, Settled
<1>3. CASE label \in Settled
  <2>1. label # "idle" /\ label # "binding" /\ label \notin {"calling", "mapping", "responding"}
    BY <1>3 DEF Settled
  <2>2. CASE heard = <<>>
    BY <1>3, <2>1, <2>2, Zenon DEF StageOf
  <2>3. CASE heard # <<>>
    BY <1>3, <2>1, <2>3, Zenon DEF StageOf
  <2> QED BY <2>1, <2>2, <2>3
<1>4. CASE label \in {"calling", "mapping", "responding"}
  <2>1. label # "idle" /\ label # "binding" /\ label \notin Settled
    BY <1>4 DEF Settled
  <2> QED BY <1>4, <2>1, Zenon DEF StageOf
<1> QED BY <1>1, <1>2, <1>3, <1>4

\* The variables of the abstract specification, slot by slot.
LEMMA Bars ==
  /\ Stage = [q \in Requests |-> StageOf(pc[q], calls[q])]
  /\ Stage' = [q \in Requests |-> StageOf(pc'[q], calls'[q])]
  /\ [q \in Requests |-> IF Stage[q] = "refused" THEN response[q].status ELSE 0] = RefusedBar
  /\ [q \in Requests |-> IF Stage[q] = "refused" THEN response[q].status ELSE 0]' = RefusedBar'
<1>1. Stage = [q \in Requests |-> StageOf(pc[q], calls[q])]
  BY Zenon DEF Stage, StageOf
<1>2. Stage' = [q \in Requests |-> StageOf(pc'[q], calls'[q])]
  BY Zenon DEF Stage, StageOf
<1>3. [q \in Requests |-> IF Stage[q] = "refused" THEN response[q].status ELSE 0] = RefusedBar
  BY <1>1 DEF RefusedBar, RefusedOf
<1>4. [q \in Requests |-> IF Stage[q] = "refused" THEN response[q].status ELSE 0]' = RefusedBar'
  BY <1>2 DEF RefusedBar, RefusedOf
<1> QED BY <1>1, <1>2, <1>3, <1>4

\* A step in one slot changes the abstract state of that slot.
LEMMA SlotStep ==
  ASSUME NEW p \in Requests,
         \A q \in Requests \ {p} : UNCHANGED <<pc[q], calls[q], response[q]>>
  PROVE  /\ Stage' = [Stage EXCEPT ![p] = StageOf(pc'[p], calls'[p])]
         /\ RefusedBar' = [RefusedBar EXCEPT ![p] = RefusedOf(pc'[p], calls'[p], response'[p])]
<1>1. Stage' = [Stage EXCEPT ![p] = StageOf(pc'[p], calls'[p])]
  BY Bars
<1>2. RefusedBar' = [RefusedBar EXCEPT ![p] = RefusedOf(pc'[p], calls'[p], response'[p])]
  BY DEF RefusedBar
<1> QED BY <1>1, <1>2

\* A step that keeps the stages is none of the promise.
LEMMA PromiseStutters ==
  ASSUME UNCHANGED <<defaults, request, calls>>, Stage' = Stage, RefusedBar' = RefusedBar
  PROVE  UNCHANGED Promise!vars
BY Bars DEF Promise!vars

verdict(q) == Verdict(binders(q), request[q].input, defaults.extractor, defaults.maxBody)

\* The actions of the promise, in terms of the route.
LEMMA PromiseAccept ==
  ASSUME NEW q \in Requests, Stage[q] = "idle", request'[q] \in Arrivals,
         Stage' = [Stage EXCEPT ![q] = "accepted"],
         request' = [request EXCEPT ![q] = request'[q]],
         UNCHANGED <<defaults, calls>>, RefusedBar' = RefusedBar
  PROVE  Promise!Accept(q)
BY Bars DEF Promise!Accept, Arrivals

\* A refusal has the status of the reason why.
LEMMA PromiseRefuse ==
  ASSUME NEW q \in Requests, Stage[q] = "accepted", verdict(q) # "none",
         Stage' = [Stage EXCEPT ![q] = "refused"],
         RefusedBar' = [RefusedBar EXCEPT ![q] = bindErrorStatus(verdict(q))],
         UNCHANGED <<defaults, request, calls>>
  PROVE  Promise!Refuse(q)
BY Bars DEF Promise!Refuse, binders, verdict, bindErrorStatus

\* A call passes on what the binders declare.
LEMMA PromiseCall ==
  ASSUME NEW q \in Requests, Stage[q] = "accepted", verdict(q) = "none",
         Stage' = [Stage EXCEPT ![q] = "called"],
         calls' = [calls EXCEPT ![q] = <<Declared(binders(q), request[q].input,
                                                  defaults.extractor)>>],
         UNCHANGED <<defaults, request>>, RefusedBar' = RefusedBar
  PROVE  Promise!Call(q)
BY Bars DEF Promise!Call, binders, verdict

\* An answer to a call ends the exchange.
LEMMA PromiseEnd ==
  ASSUME NEW q \in Requests, Stage[q] = "called",
         Stage' = [Stage EXCEPT ![q] = "ended"],
         UNCHANGED <<defaults, request, calls>>, RefusedBar' = RefusedBar
  PROVE  Promise!End(q)
BY Bars DEF Promise!End

\* The slot is free again.
LEMMA PromiseRelease ==
  ASSUME NEW q \in Requests, Stage[q] \in {"refused", "ended"},
         Stage' = [Stage EXCEPT ![q] = "idle"],
         request' = [request EXCEPT ![q] = None],
         calls' = [calls EXCEPT ![q] = <<>>],
         RefusedBar' = [RefusedBar EXCEPT ![q] = 0],
         UNCHANGED defaults
  PROVE  Promise!Release(q)
BY Bars DEF Promise!Release

\* What the abstract state is in a slot of the route.
LEMMA SlotValue ==
  ASSUME NEW q \in Requests
  PROVE  /\ Stage[q] = StageOf(pc[q], calls[q])
         /\ RefusedBar[q] = RefusedOf(pc[q], calls[q], response[q])
         /\ Stage[q] # "refused" => RefusedBar[q] = 0
         /\ Stage \in [Requests -> {StageOf(pc[p], calls[p]) : p \in Requests}]
         /\ RefusedBar = [p \in Requests |-> RefusedBar[p]]
BY Bars DEF RefusedBar, RefusedOf

\* A step between two stages other than a refusal refuses nobody.
LEMMA NobodyRefused ==
  ASSUME NEW p \in Requests,
         \A q \in Requests \ {p} : UNCHANGED <<pc[q], calls[q], response[q]>>,
         Stage[p] # "refused", StageOf(pc'[p], calls'[p]) # "refused"
  PROVE  RefusedBar' = RefusedBar
<1>1. RefusedBar' = [RefusedBar EXCEPT ![p] = 0]
  BY SlotStep DEF RefusedOf
<1>2. RefusedBar[p] = 0 /\ RefusedBar = [q \in Requests |-> RefusedBar[q]]
  BY SlotValue
<1> QED BY <1>1, <1>2

\* Every step of the handler of a route is a step of the promise, or none.
LEMMA HandlerPromise ==
  ASSUME HonestConfig, IInv, BInv, EInv, NEW p \in Requests, Handler(p)
  PROVE  (\E q \in Requests : Promise!Refuse(q) \/ Promise!Call(q) \/ Promise!End(q))
         \/ UNCHANGED Promise!vars
<1>0. /\ \A q \in Requests \ {p} : UNCHANGED <<pc[q], calls[q], response[q]>>
      /\ UNCHANGED <<defaults, request>>
  BY DEF Handler, BindNext, RejectBinding, Invoke, Descend, WriteError, WriteSuccess,
         Write, Goto, config, binding, IInv, TypeOK
<1>1. CASE BindNext(p) \/ Descend(p)
  <2>1. UNCHANGED <<pc, calls, response>>
    BY <1>1 DEF BindNext, Descend, binding
  <2>2. Stage' = Stage /\ RefusedBar' = RefusedBar
    BY <2>1, Bars DEF RefusedBar
  <2> QED BY <1>0, <2>1, <2>2, PromiseStutters
<1>2. CASE RejectBinding(p)
  <2> DEFINE err == Step(p).err
             resp == writeError(BareProblem(bindErrorStatus(err), "bind"))
  <2>1. pc[p] = "binding" /\ HasNext(p) /\ err # "none" /\ calls[p] = <<>> /\ UNCHANGED calls
    BY <1>2 DEF RejectBinding, EInv, Heard
  <2>2. verdict(p) = err
    <3>1. /\ binders(p) \in Seq(Binder) /\ next[p] \in 1..Len(binders(p))
          /\ err = Obstacle(binders(p), request[p].input, defaults.extractor,
                            defaults.maxBody, next[p])
      BY <2>1, StepObstacle
    <3>2. \A i \in 1..(next[p] - 1) : Obstacle(binders(p), request[p].input,
             defaults.extractor, defaults.maxBody, i) = "none"
      BY <2>1 DEF EInv, Heard
    <3>3. next[p] \in 1..(Len(binders(p)) + 1) /\ next[p] <= Len(binders(p))
      BY <3>1
    <3> QED BY <2>1, <3>1, <3>2, <3>3, FirstObstacle DEF verdict
  <2>3. resp.status = bindErrorStatus(err) /\ resp.status \in {400, 413}
    BY bindErrorType DEF writeError, Response, BareProblem, Problem
  <2>4. Write(p, resp)
    BY <1>2 DEF RejectBinding
  <2> HIDE DEF resp
  <2>5. pc'[p] = "done" /\ response'[p] = resp
    <3>1. ValidStatus(resp.status) /\ OnWire(resp) = resp
      BY <2>3 DEF ValidStatus, OnWire, IsInformational, HasNoBody
    <3>2. pc' = [pc EXCEPT ![p] = "done"] /\ response' = [response EXCEPT ![p] = resp]
      BY <2>4, <3>1 DEF Write, Goto
    <3> QED BY <3>2 DEF IInv, TypeOK
  <2>6. Stage[p] = "accepted" /\ StageOf(pc'[p], calls'[p]) = "refused"
    BY <2>1, <2>5, SlotValue, StageCases DEF Settled
  <2>7. /\ Stage' = [Stage EXCEPT ![p] = "refused"]
        /\ RefusedBar' = [RefusedBar EXCEPT ![p] = bindErrorStatus(verdict(p))]
    BY <1>0, <2>2, <2>3, <2>5, <2>6, SlotStep DEF RefusedOf
  <2> HIDE DEF err
  <2> QED BY <1>0, <2>1, <2>2, <2>6, <2>7, PromiseRefuse
<1>3. CASE Invoke(p)
  <2>1. /\ pc[p] = "binding" /\ ~HasNext(p) /\ calls[p] = <<>> /\ pc'[p] = "calling"
        /\ calls' = [calls EXCEPT ![p] = Append(calls[p], msg[p])]
    BY <1>3 DEF Invoke, Goto, EInv, Heard, IInv, TypeOK
  <2>2. binders(p) \in Seq(Binder) /\ next[p] \in Nat \ {0}
    BY <2>1, RouteAssumption DEF IInv, AtWork, Active, Arrivals, binders, TypeOK
  <2>3. next[p] - 1 = Len(binders(p)) /\ next[p] = Len(binders(p)) + 1
    BY <2>1, <2>2 DEF HasNext, BInv, BoundSoFar
  <2>4. msg[p] = Declared(binders(p), request[p].input, defaults.extractor)
    BY <2>1, <2>3 DEF BInv, BoundSoFar, Declared
  <2>5. verdict(p) = "none"
    <3>1. \A i \in 1..(next[p] - 1) : Obstacle(binders(p), request[p].input,
             defaults.extractor, defaults.maxBody, i) = "none"
      BY <2>1 DEF EInv, Heard
    <3>2. next[p] \in 1..(Len(binders(p)) + 1)
      BY <2>2, <2>3
    <3> QED BY <2>2, <2>3, <3>1, <3>2, FirstObstacle DEF verdict
  <2>6. Append(calls[p], msg[p]) = <<msg[p]>>
    BY <2>1
  <2>7. Stage[p] = "accepted" /\ StageOf(pc'[p], calls'[p]) = "called"
    BY <2>1, SlotValue, StageCases
  <2>8. Stage' = [Stage EXCEPT ![p] = "called"] /\ RefusedBar' = RefusedBar
    BY <1>0, <2>7, SlotStep, NobodyRefused
  <2> QED BY <1>0, <2>1, <2>4, <2>5, <2>6, <2>7, <2>8, PromiseCall
<1>4. CASE WriteError(p) \/ WriteSuccess(p)
  <2>1. pc[p] \in {"mapping", "responding"} /\ pc'[p] \in Settled /\ UNCHANGED calls
    BY <1>4 DEF WriteError, WriteSuccess, Write, Goto, Settled, IInv, TypeOK
  <2>2. calls[p] # <<>> /\ calls'[p] # <<>>
    BY <2>1 DEF EInv, Heard
  <2>3. Stage[p] = "called" /\ StageOf(pc'[p], calls'[p]) = "ended"
    BY <2>1, <2>2, SlotValue, StageCases
  <2>4. Stage' = [Stage EXCEPT ![p] = "ended"] /\ RefusedBar' = RefusedBar
    BY <1>0, <2>3, SlotStep, NobodyRefused
  <2> QED BY <1>0, <2>1, <2>3, <2>4, PromiseEnd
<1> QED BY <1>1, <1>2, <1>3, <1>4 DEF Handler
\* So is every other step.
LEMMA NextPromise ==
  ASSUME HonestConfig, IInv, BInv, EInv, [Next]_vars
  PROVE  [Promise!Next]_(Promise!vars)
<1>1. CASE Boot
  <2>1. phase = "boot" /\ UNCHANGED <<request, pc, calls, response>>
    BY <1>1 DEF Boot, SetDefaultErrorMapper, SetDefaultMarshalOptions, SetDefaultPathExtractor,
         SetDefaultMaxBodyBytes, Map, OnSuccess, WithErrorMapper, WithMarshalOptions,
         Serve, Booting
  <2>2. Stage' = Stage /\ RefusedBar' = RefusedBar
    BY <2>1, Bars DEF RefusedBar
  <2>3. \A q \in Requests : Stage[q] = "idle"
    BY <2>1, SlotValue, StageCases DEF BInv, BoundSoFar
  <2>4. defaults' \in Defaults
    BY <1>1, BootIInv DEF IInv, TypeOK
  <2>5. Promise!Configure
    BY <2>1, <2>2, <2>3, <2>4, Bars DEF Promise!Configure, Defaults
  <2> QED BY <2>5 DEF Promise!Next
<1>2. ASSUME NEW p \in Requests, NEW rt \in Routes, NEW in \in Inputs, Arrive(p, rt, in)
      PROVE  Promise!Next
  <2>1. /\ \A q \in Requests \ {p} : UNCHANGED <<pc[q], calls[q], response[q]>>
        /\ UNCHANGED <<defaults, calls>> /\ pc[p] = "idle" /\ pc'[p] = "binding"
    BY <1>2 DEF Arrive, Goto, config, IInv, TypeOK
  <2>2. /\ request'[p] \in Arrivals
        /\ request' = [request EXCEPT ![p] = request'[p]]
    BY <1>2 DEF Arrive, Arrivals, IInv, TypeOK
  <2>3. Stage[p] = "idle" /\ StageOf(pc'[p], calls'[p]) = "accepted"
    BY <2>1, SlotValue, StageCases
  <2>4. Stage' = [Stage EXCEPT ![p] = "accepted"] /\ RefusedBar' = RefusedBar
    BY <2>1, <2>3, SlotStep, NobodyRefused
  <2> QED BY <2>1, <2>2, <2>3, <2>4, PromiseAccept DEF Promise!Next
<1>3. ASSUME NEW p \in Requests, Handler(p) PROVE [Promise!Next]_(Promise!vars)
  BY <1>3, HandlerPromise DEF Promise!Next
<1>4. ASSUME NEW p \in Requests, NEW o \in Outcomes \cup {Canceled}, Return(p, o)
      PROVE  UNCHANGED Promise!vars
  <2>1. /\ UNCHANGED <<defaults, request, calls, response>>
        /\ pc[p] = "calling" /\ pc'[p] \in {"mapping", "responding"}
        /\ \A q \in Requests \ {p} : UNCHANGED <<pc[q], calls[q], response[q]>>
    BY <1>4 DEF Return, Goto, config, binding, IInv, TypeOK
  <2>2. Stage[p] = "called" /\ StageOf(pc'[p], calls'[p]) = "called"
    BY <2>1, SlotValue, StageCases
  <2>3. Stage' = Stage /\ RefusedBar' = RefusedBar
    BY <2>1, <2>2, SlotStep, NobodyRefused, SlotValue
  <2> QED BY <2>1, <2>3, PromiseStutters
<1>5. ASSUME NEW p \in Requests, Disconnect(p) PROVE UNCHANGED Promise!vars
  <2>1. UNCHANGED <<defaults, request, pc, calls, response>>
    BY <1>5 DEF Disconnect, config
  <2>2. Stage' = Stage /\ RefusedBar' = RefusedBar
    BY <2>1, Bars DEF RefusedBar
  <2> QED BY <2>1, <2>2, PromiseStutters
<1>6. ASSUME NEW p \in Requests, Finish(p) PROVE Promise!Next
  <2>1. /\ \A q \in Requests \ {p} : UNCHANGED <<pc[q], calls[q], response[q]>>
        /\ UNCHANGED defaults /\ pc[p] \in Settled /\ pc'[p] = "idle"
        /\ request' = [request EXCEPT ![p] = None]
        /\ calls' = [calls EXCEPT ![p] = <<>>]
    BY <1>6 DEF Finish, Goto, config, Settled, IInv, TypeOK
  <2>2. Stage[p] \in {"refused", "ended"} /\ StageOf(pc'[p], calls'[p]) = "idle"
    BY <2>1, SlotValue, StageCases
  <2>3. Stage' = [Stage EXCEPT ![p] = "idle"] /\ RefusedBar' = [RefusedBar EXCEPT ![p] = 0]
    BY <2>1, <2>2, SlotStep DEF RefusedOf
  <2> QED BY <2>1, <2>2, <2>3, PromiseRelease DEF Promise!Next
<1>7. CASE UNCHANGED vars
  <2>1. UNCHANGED <<defaults, request, pc, calls, response>>
    BY <1>7 DEF vars
  <2>2. Stage' = Stage /\ RefusedBar' = RefusedBar
    BY <2>1, Bars DEF RefusedBar
  <2> QED BY <2>1, <2>2, PromiseStutters
<1> QED BY <1>1, <1>2, <1>3, <1>4, <1>5, <1>6, <1>7 DEF Next

\* The program starts without requests.
LEMMA InitPromise == Init => Promise!Init
<1> SUFFICES ASSUME Init PROVE Promise!Init
  OBVIOUS
<1>1. [extractor |-> defaults.extractor, maxBody |-> defaults.maxBody]
        \in [extractor : Extractors, maxBody : Int]
  BY RouteAssumption DEF Init, Extractors
<1>2. \A q \in Requests : pc[q] = "idle" /\ calls[q] = <<>>
  BY DEF Init
<1>3. \A q \in Requests : StageOf(pc[q], calls[q]) = "idle"
  BY <1>2, StageCases
<1>4. Stage = [q \in Requests |-> "idle"]
  BY <1>3, Bars
<1>5. RefusedBar = [q \in Requests |-> 0]
  BY <1>3 DEF RefusedBar, RefusedOf
<1> QED BY <1>1, <1>4, <1>5, Bars DEF Promise!Init, Init

\* The route implements module Exchange: a request is refused with 400 or
\* 413 for the first binder that cannot be satisfied and without a call, or
\* its method is called exactly once, with what the binders declare.
THEOREM KeepsThePromise ==
  ASSUME HonestConfig
  PROVE  Spec => KeepsPromise
<1>1. Init => Promise!Init
  BY InitPromise
<1>2. IInv /\ BInv /\ EInv /\ [Next]_vars => [Promise!Next]_(Promise!vars)
  BY NextPromise
<1>3. Spec => [](IInv /\ BInv /\ EInv)
  BY ExchangeInvariants
<1> QED BY <1>1, <1>2, <1>3, PTL DEF Spec, KeepsPromise, Promise!Safety

-----------------------------------------------------------------------------
(* The answer.  The configuration does not change under a request, and the *)
(* end of the chain of mappers does not while a handler descends it.       *)

AnsweredSoFar(q) ==
  /\ phase = "boot" => pc[q] = "idle"
  /\ pc[q] \in {"idle", "binding", "calling"} => outcome[q] = None
  /\ pc[q] = "mapping" =>
       Ends(FirstMapper(q), outcome[q], defaults.errorMapper)
         = Ends(mapper[q], outcome[q], defaults.errorMapper)
  /\ outcome[q] # None /\ pc[q] \in Settled =>
       IF ValidStatus(Answer(q).status)
       THEN pc[q] = "done" /\ response[q] = OnWire(Answer(q))
       ELSE pc[q] = "aborted" /\ response[q] = None

CInv == \A q \in Requests : AnsweredSoFar(q)

\* A step that leaves the answer of the slot q alone.
LEMMA AnswerUnchanged ==
  ASSUME CInv, NEW q \in Requests,
         UNCHANGED <<phase, defaults, route, request[q], outcome[q], mapper[q], response[q]>>,
         \/ pc'[q] = pc[q]
         \/ {pc[q], pc'[q]} \subseteq {"idle", "binding", "calling"} /\ phase # "boot"
  PROVE  AnsweredSoFar(q)'
<1>1. (Answer(q))' = Answer(q)
  BY DEF Answer, FirstMapper, options
<1>2. (FirstMapper(q))' = FirstMapper(q)
  BY DEF FirstMapper, options
<1>3. AnsweredSoFar(q)
  BY DEF CInv
<1> HIDE DEF Answer, FirstMapper
<1> QED BY <1>1, <1>2, <1>3 DEF AnsweredSoFar, Settled

\* What a writer of the handler writes is the answer.
LEMMA WriteAnswers ==
  ASSUME IInv, CInv, NEW q \in Requests, NEW resp, Write(q, resp), resp = Answer(q),
         pc[q] \in Active, UNCHANGED <<phase, defaults, route, request, outcome>>
  PROVE  AnsweredSoFar(q)'
<1>1. (Answer(q))' = Answer(q)
  BY DEF Answer, FirstMapper, options
<1>2. response[q] = None /\ phase # "boot"
  BY DEF IInv, AtWork, Active, Settled, CInv, AnsweredSoFar
<1>3. CASE ValidStatus(resp.status)
  <2>1. pc'[q] = "done" /\ response'[q] = OnWire(resp)
    BY <1>3 DEF Write, Goto, IInv, TypeOK
  <2> HIDE DEF Answer
  <2> QED BY <1>1, <1>2, <1>3, <2>1 DEF AnsweredSoFar
<1>4. CASE ~ValidStatus(resp.status)
  <2>1. pc'[q] = "aborted" /\ response'[q] = None
    BY <1>2, <1>4 DEF Write, Goto, IInv, TypeOK
  <2> HIDE DEF Answer
  <2> QED BY <1>1, <1>2, <1>4, <2>1 DEF AnsweredSoFar
<1> QED BY <1>3, <1>4

\* The handler of a slot.
LEMMA HandlerCInv ==
  ASSUME IInv, CInv, NEW q \in Requests, Handler(q)
  PROVE  AnsweredSoFar(q)'
<1>1. UNCHANGED <<phase, defaults, route, request, outcome>> /\ pc[q] \in Active /\ phase # "boot"
  BY DEF Handler, BindNext, RejectBinding, Invoke, Descend, WriteError, WriteSuccess,
         config, Active, CInv, AnsweredSoFar
<1>2. CASE BindNext(q)
  BY <1>1, <1>2, AnswerUnchanged DEF BindNext
<1>3. CASE Invoke(q)
  <2>1. pc[q] = "binding" /\ pc'[q] = "calling" /\ UNCHANGED <<mapper, response>>
    BY <1>3 DEF Invoke, Goto, IInv, TypeOK
  <2> QED BY <1>1, <2>1, AnswerUnchanged
<1>4. CASE RejectBinding(q)
  <2>1. outcome[q] = None /\ pc'[q] \in Settled
    BY <1>4 DEF RejectBinding, CInv, AnsweredSoFar, Write, Goto, Settled, IInv, TypeOK
  <2> QED BY <1>1, <2>1 DEF AnsweredSoFar, Settled
<1>5. CASE Descend(q)
  <2>1. /\ pc[q] = "mapping" /\ pc'[q] = "mapping" /\ mapper[q] \in Mappers
        /\ ~Answers(mapper[q], outcome[q])
        /\ mapper'[q] = Delegate(mapper[q], outcome[q], defaults.errorMapper)
    BY <1>5 DEF Descend, IInv, AtWork, TypeOK
  <2>2. (FirstMapper(q))' = FirstMapper(q)
    BY <1>1 DEF FirstMapper, options
  <2>3. Ends(FirstMapper(q), outcome[q], defaults.errorMapper)
          = Ends(mapper[q], outcome[q], defaults.errorMapper)
    BY <2>1 DEF CInv, AnsweredSoFar
  <2> HIDE DEF FirstMapper
  <2>4. Ends(FirstMapper(q), outcome[q], defaults.errorMapper)
          = Ends(mapper'[q], outcome[q], defaults.errorMapper)
    BY <2>1, <2>3, DelegateEnds
  <2> QED BY <1>1, <2>1, <2>2, <2>4 DEF AnsweredSoFar, Settled
<1>6. CASE WriteError(q)
  <2>1. /\ pc[q] = "mapping" /\ mapper[q] \in Mappers /\ Answers(mapper[q], outcome[q])
        /\ ~outcome[q].ok
    BY <1>6 DEF WriteError, IInv, AtWork, Failure
  <2>2. InCharge(FirstMapper(q), outcome[q], defaults.errorMapper) = mapper[q]
    BY <2>1, InChargeOf DEF CInv, AnsweredSoFar
  <2>3. Answer(q) = writeError(Mapped(mapper[q], outcome[q]))
    BY <2>1, <2>2 DEF Answer
  <2> QED BY <1>1, <1>6, <2>3, WriteAnswers DEF WriteError
<1>7. CASE WriteSuccess(q)
  <2>1. outcome[q].ok
    BY <1>7 DEF WriteSuccess, IInv, AtWork, Success
  <2>2. Answer(q) = IF options(q).mapped
              THEN writeJSON(options(q).successStatus, outcome[q].encodes)
              ELSE writeResponse(options(q).successStatus, outcome[q].marshals,
                                 outcome[q].encodes, marshalOptions(q))
    BY <2>1 DEF Answer, marshalOptions
  <2> QED BY <1>1, <1>7, <2>2, WriteAnswers DEF WriteSuccess
<1> QED BY <1>2, <1>3, <1>4, <1>5, <1>6, <1>7 DEF Handler

\* Every action keeps it so.
LEMMA NextCInv ==
  ASSUME IInv, CInv, [Next]_vars
  PROVE  CInv'
<1>1. SUFFICES ASSUME NEW q \in Requests PROVE AnsweredSoFar(q)'
  BY DEF CInv
<1>2. CASE Boot
  <2>1. phase = "boot" /\ UNCHANGED <<pc, outcome>>
    BY <1>2 DEF Boot, SetDefaultErrorMapper, SetDefaultMarshalOptions, SetDefaultPathExtractor,
         SetDefaultMaxBodyBytes, Map, OnSuccess, WithErrorMapper, WithMarshalOptions,
         Serve, Booting
  <2> QED BY <2>1 DEF CInv, AnsweredSoFar, Settled
<1>3. ASSUME NEW p \in Requests, NEW rt \in Routes, NEW in \in Inputs, Arrive(p, rt, in)
      PROVE  AnsweredSoFar(q)'
  <2>1. UNCHANGED <<phase, defaults, route, outcome, mapper, response>> /\ phase # "boot"
    BY <1>3 DEF Arrive, config
  <2>2. CASE q = p
    BY <1>3, <2>1, <2>2 DEF Arrive, Goto, IInv, TypeOK, CInv, AnsweredSoFar, Settled
  <2>3. CASE q # p
    BY <1>3, <2>1, <2>3, AnswerUnchanged DEF Arrive, Goto, IInv, TypeOK
  <2> QED BY <2>2, <2>3
<1>4. ASSUME NEW p \in Requests, Handler(p) PROVE AnsweredSoFar(q)'
  <2>1. CASE q = p
    BY <1>4, <2>1, HandlerCInv
  <2>2. CASE q # p
    <3>1. UNCHANGED <<phase, defaults, route, request, outcome>>
      BY <1>4 DEF Handler, BindNext, RejectBinding, Invoke, Descend, WriteError, WriteSuccess, config
    <3>2. UNCHANGED <<mapper[q], response[q], pc[q]>>
      BY <1>4, <2>2 DEF Handler, BindNext, RejectBinding, Invoke, Descend, WriteError,
                        WriteSuccess, Write, Goto, IInv, TypeOK
    <3> QED BY <3>1, <3>2, AnswerUnchanged
  <2> QED BY <2>1, <2>2
<1>5. ASSUME NEW p \in Requests, NEW o \in Outcomes \cup {Canceled}, Return(p, o)
      PROVE  AnsweredSoFar(q)'
  <2>1. UNCHANGED <<phase, defaults, route, request, response>> /\ pc[p] = "calling"
    BY <1>5 DEF Return, config
  <2>2. CASE q # p
    BY <1>5, <2>1, <2>2, AnswerUnchanged DEF Return, Goto, IInv, TypeOK
  <2>3. CASE q = p
    <3>1. phase # "boot"
      BY <2>1, <2>3 DEF CInv, AnsweredSoFar
    <3>2. /\ outcome'[q] = o
          /\ pc'[q] = IF o.ok THEN "responding" ELSE "mapping"
          /\ ~o.ok => mapper'[q] = IF options(q).errorMapper = "nil" THEN "DefaultErrorMapper"
                                   ELSE options(q).errorMapper
      BY <1>5, <2>3 DEF Return, Goto, IInv, TypeOK
    <3>3. (FirstMapper(q))' = FirstMapper(q)
      BY <2>1 DEF FirstMapper, options
    <3>4. ~o.ok => Ends(FirstMapper(q), o, defaults.errorMapper)
                     = Ends(mapper'[q], o, defaults.errorMapper)
      <4>1. CASE options(q).errorMapper # "nil"
        BY <3>2, <4>1 DEF FirstMapper
      <4>2. CASE options(q).errorMapper = "nil"
        <5> DEFINE d == "DefaultErrorMapper"
        <5>1. d = "DefaultErrorMapper" /\ d \in Mappers /\ d \notin Vocabs /\ ~Answers(d, o)
          BY ResponsesAssumption DEF Mappers, Answers
        <5> HIDE DEF d
        <5>2. Delegate(d, o, defaults.errorMapper) = defaults.errorMapper
          BY <5>1, Zenon DEF Delegate
        <5>3. Ends(d, o, defaults.errorMapper)
                = Ends(defaults.errorMapper, o, defaults.errorMapper)
          BY <5>1, <5>2, DelegateEnds
        <5> QED BY <3>2, <4>2, <5>1, <5>3 DEF FirstMapper
      <4> QED BY <4>1, <4>2
    <3> HIDE DEF FirstMapper
    <3> QED BY <2>1, <3>1, <3>2, <3>3, <3>4 DEF AnsweredSoFar, Settled
  <2> QED BY <2>2, <2>3
<1>6. ASSUME NEW p \in Requests, Disconnect(p) PROVE AnsweredSoFar(q)'
  BY <1>6, AnswerUnchanged DEF Disconnect, config
<1>7. ASSUME NEW p \in Requests, Finish(p) PROVE AnsweredSoFar(q)'
  <2>1. UNCHANGED <<phase, defaults, route>> /\ pc[p] # "idle"
    BY <1>7 DEF Finish, config
  <2>2. CASE q = p
    <3>1. pc'[q] = "idle" /\ outcome'[q] = None
      BY <1>7, <2>2 DEF Finish, Goto, IInv, TypeOK
    <3> QED BY <3>1 DEF AnsweredSoFar, Settled
  <2>3. CASE q # p
    BY <1>7, <2>1, <2>3, AnswerUnchanged DEF Finish, Goto, IInv, TypeOK
  <2> QED BY <2>2, <2>3
<1>8. CASE UNCHANGED vars
  BY <1>8, AnswerUnchanged DEF vars
<1> QED BY <1>2, <1>3, <1>4, <1>5, <1>6, <1>7, <1>8 DEF Next

\* For every configuration and every outcome, and along any chain of reason
\* tables and fallbacks: the answer to a called method is the one of the
\* mapper in charge, or the configured success.
THEOREM AnswerIsConfigured == Spec => []AnsweredAsConfigured
<1>1. Init => CInv
  BY DEF Init, CInv, AnsweredSoFar, Settled
<1>2. IInv /\ CInv /\ [Next]_vars => CInv'
  BY NextCInv
<1>3. CInv => AnsweredAsConfigured
  BY DEF CInv, AnsweredSoFar, AnsweredAsConfigured
<1> QED BY <1>1, <1>2, <1>3, IInvHolds, PTL DEF Spec

=============================================================================
