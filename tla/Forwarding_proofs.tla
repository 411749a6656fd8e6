------------------------- MODULE Forwarding_proofs -------------------------
(***************************************************************************)
(* Theorems about module Forwarding, for every set of headers, values,     *)
(* Apps and concurrent requests, every allowlist and every nesting.        *)
(***************************************************************************)
EXTENDS Forwarding, FiniteSetTheorems, SequenceTheorems, TLAPS

\* The inductive invariant: no request is under way before the program
\* serves, so that no request sees its handlers or allowlists change.
Idle == ~serving => \A q \in Requests : hop[q] = 0

FInv == TypeOK /\ Idle /\ OnlyAllowlisted

-----------------------------------------------------------------------------
(* Facts about operators                                                   *)

\* How often a name is listed is a number.
LEMMA OccurrencesType ==
  ASSUME NEW names \in Seq(Headers), NEW h
  PROVE  Occurrences(names, h) \in Nat
<1>1. IsFiniteSet(1 .. Len(names))
  BY FS_Interval
<1>2. {i \in DOMAIN names : names[i] = h} \subseteq 1 .. Len(names)
  OBVIOUS
<1>3. IsFiniteSet({i \in DOMAIN names : names[i] = h})
  BY <1>1, <1>2, FS_Subset
<1> QED BY <1>3, FS_CardinalityType DEF Occurrences

\* Every value of a repetition is one of the values.
LEMMA RepeatedValues ==
  ASSUME NEW S, NEW values \in Seq(S), NEW n \in Nat
  PROVE  /\ Repeated(values, n) \in Seq(S)
         /\ \A i \in DOMAIN Repeated(values, n) :
              \E m \in DOMAIN values : Repeated(values, n)[i] = values[m]
<1> DEFINE L == Len(values)
           Position(i) == ((i - 1) % L) + 1
<1>1. L \in Nat /\ DOMAIN values = 1 .. L
  OBVIOUS
<1>2. n * L \in Nat
  BY <1>1
<1>3. ASSUME NEW i \in 1 .. n * L
      PROVE  Position(i) \in 1 .. L
  <2>1. L # 0
    <3>1. L = 0 => n * L = 0
      BY <1>1
    <3> QED BY <1>2, <3>1
  <2>2. L \in Nat /\ L > 0 /\ i - 1 \in Int
    BY <1>1, <1>2, <2>1
  <2> HIDE DEF L
  <2>3. (i - 1) % L \in 0 .. L - 1
    BY <2>2
  <2> QED BY <2>2, <2>3
<1>4. Repeated(values, n) = [i \in 1 .. n * L |-> values[Position(i)]]
  BY DEF Repeated
<1> HIDE DEF L, Position
<1>5. \A i \in 1 .. n * L : values[Position(i)] \in S
  BY <1>1, <1>3
<1>6. Repeated(values, n) \in Seq(S)
  BY <1>2, <1>4, <1>5
<1> QED BY <1>1, <1>3, <1>4, <1>6

\* forwardMetadata leaves the metadata alone or replaces it, with values of
\* the headers it is given under names of the list.
LEMMA ForwardedMetadata ==
  ASSUME NEW names \in Seq(Headers), NEW headers \in [Headers -> Seq(Values)], NEW md,
         forwardMetadata(names, headers, md) # md
  PROVE  LET sent == forwardMetadata(names, headers, md)
         IN  /\ IsMetadata(sent)
             /\ \A h \in DOMAIN sent :
                  /\ h \in Headers /\ Occurrences(names, h) > 0
                  /\ \A n \in DOMAIN sent[h] : \E m \in DOMAIN headers[h] : sent[h][n] = headers[h][m]
<1> DEFINE sent == forwardMetadata(names, headers, md)
           carried == {h \in Headers : Occurrences(names, h) > 0 /\ headers[h] # <<>>}
<1>1. sent = [h \in carried |-> Repeated(headers[h], Occurrences(names, h))]
  BY DEF forwardMetadata
<1> HIDE DEF sent
<1>2. ASSUME NEW h \in carried
      PROVE  /\ sent[h] \in Seq(Values)
             /\ \A n \in DOMAIN sent[h] : \E m \in DOMAIN headers[h] : sent[h][n] = headers[h][m]
  <2>1. headers[h] \in Seq(Values) /\ Occurrences(names, h) \in Nat
    BY OccurrencesType
  <2>2. sent[h] = Repeated(headers[h], Occurrences(names, h))
    BY <1>1
  <2> HIDE DEF carried
  <2>3. /\ Repeated(headers[h], Occurrences(names, h)) \in Seq(Values)
        /\ \A i \in DOMAIN Repeated(headers[h], Occurrences(names, h)) :
             \E m \in DOMAIN headers[h] : Repeated(headers[h], Occurrences(names, h))[i] = headers[h][m]
    BY <2>1, RepeatedValues
  <2> QED BY <2>2, <2>3
<1>3. DOMAIN sent = carried
  BY <1>1
<1>4. IsMetadata(sent)
  <2>1. sent = [h \in carried |-> sent[h]]
    BY <1>1
  <2> QED BY <1>2, <1>3, <2>1 DEF IsMetadata
<1>5. \A h \in DOMAIN sent : /\ h \in Headers /\ Occurrences(names, h) > 0
                             /\ \A n \in DOMAIN sent[h] : \E m \in DOMAIN headers[h] : sent[h][n] = headers[h][m]
  BY <1>2, <1>3
<1> QED BY <1>4, <1>5 DEF sent

-----------------------------------------------------------------------------
(* The invariant                                                           *)

\* Nothing is under way when the program starts.
LEMMA InitFInv == Init => FInv
<1> SUFFICES ASSUME Init PROVE FInv
  OBVIOUS
<1>1. <<>> \in Seq(Headers) /\ <<>> \in Seq(Apps \cup {Upstream}) /\ Len(<<>>) = 0
  OBVIOUS
<1>2. chain \in Seq(Apps \cup {Upstream}) /\ Endpoint = 1
  BY <1>1 DEF Init, Endpoint
<1>3. metadataForward \in [Apps -> Seq(Headers)]
  BY <1>1 DEF Init
<1>4. hop \in [Requests -> 0 .. Endpoint]
  BY <1>2 DEF Init
<1>5. TypeOK
  BY <1>2, <1>3, <1>4 DEF Init, TypeOK
<1> QED BY <1>5 DEF Init, FInv, Idle, OnlyAllowlisted

\* At startup nothing is under way, and nothing begins.
LEMMA StartStep ==
  ASSUME FInv, Start
  PROVE  FInv'
<1>1. TypeOK /\ Idle
  BY DEF FInv
<1>2. ~serving /\ UNCHANGED <<hop, header, outgoing>>
  BY DEF Start, WithMetadataForward, Handler, Handle, Use, Nest, Starting, Serve
<1>3. \A q \in Requests : hop'[q] = 0
  BY <1>1, <1>2 DEF Idle
<1>4. serving' \in BOOLEAN
  BY <1>1 DEF Start, WithMetadataForward, Handler, Handle, Use, Nest, Starting, Serve, TypeOK
<1>5. metadataForward' \in [Apps -> Seq(Headers)] /\ chain' \in Seq(Apps \cup {Upstream})
  <2>1. CASE \E a \in Apps, names \in AllowLists : WithMetadataForward(a, names)
    <3>1. PICK a \in Apps, names \in AllowLists : WithMetadataForward(a, names)
      BY <2>1
    <3>2. names \in Seq(Spellings) /\ Lower \in [Spellings -> Headers]
      BY ForwardingAssumption
    <3>3. [i \in DOMAIN names |-> Lower[names[i]]] \in Seq(Headers)
      BY <3>2
    <3>4. metadataForward[a] \o [i \in DOMAIN names |-> Lower[names[i]]] \in Seq(Headers)
      BY <1>1, <3>3 DEF TypeOK
    <3> QED BY <1>1, <3>1, <3>4 DEF WithMetadataForward, TypeOK
  <2>2. ASSUME NEW h \in Apps \cup {Upstream}, Nest(h)
        PROVE  <1>5!1 /\ <1>5!2
    <3>1. <<h>> \o chain \in Seq(Apps \cup {Upstream})
      BY <1>1 DEF TypeOK
    <3> QED BY <1>1, <2>2, <3>1 DEF Nest, TypeOK
  <2>3. CASE \E a \in Apps : Handler(a) \/ Handle(a)
    BY <2>2, <2>3 DEF Handler, Handle
  <2>4. CASE Use
    BY <2>2, <2>4 DEF Use
  <2>5. CASE Serve
    BY <1>1, <2>5 DEF Serve, TypeOK
  <2> QED BY <2>1, <2>3, <2>4, <2>5 DEF Start
<1>6. hop' \in [Requests -> 0 .. Endpoint']
  <2>1. Endpoint' \in Nat
    BY <1>5 DEF Endpoint
  <2>2. hop' \in [Requests -> 0 .. Endpoint]
    BY <1>1, <1>2 DEF TypeOK
  <2> QED BY <1>3, <2>1, <2>2
<1>7. TypeOK'
  BY <1>1, <1>2, <1>4, <1>5, <1>6 DEF TypeOK, IsMetadata
<1> QED BY <1>3, <1>7 DEF FInv, Idle, OnlyAllowlisted

\* What OnlyAllowlisted says of one request.
Explained(q) ==
  hop[q] # 0 /\ outgoing[q] # None =>
    \/ outgoing[q] \in Metadatas /\ \E i \in Passed(q) : chain[i] = Upstream
    \/ \E i \in Passed(q) : \A h \in DOMAIN outgoing[q] :
         /\ h \in Allowed(i)
         /\ \A n \in DOMAIN outgoing[q][h] :
              \E m \in DOMAIN header[q][h] : outgoing[q][h][n] = header[q][h][m]

\* The property is about each request by itself.
LEMMA ExplainedOnly == OnlyAllowlisted <=> \A q \in Requests : Explained(q)
BY DEF OnlyAllowlisted, Explained

\* A step of one request is none of another, and keeps the invariant if the
\* request stays typed and explained.
LEMMA RequestStep ==
  ASSUME FInv, NEW q \in Requests, UNCHANGED startup, serving,
         NEW place \in 0 .. Endpoint, hop' = [hop EXCEPT ![q] = place],
         NEW headers \in HeaderSets, header' = [header EXCEPT ![q] = headers],
         NEW md, md = None \/ IsMetadata(md), DOMAIN outgoing' = Requests,
         \A p \in Requests : outgoing'[p] = IF p = q THEN md ELSE outgoing[p],
         Explained(q)'
  PROVE  FInv'
<1>1. TypeOK /\ \A p \in Requests : Explained(p)
  BY ExplainedOnly DEF FInv
<1>2. TypeOK'
  <2>1. hop' \in [Requests -> 0 .. Endpoint'] /\ header' \in [Requests -> HeaderSets]
    BY <1>1 DEF TypeOK, Endpoint, startup
  <2>2. \A p \in Requests : outgoing'[p] = None \/ IsMetadata(outgoing'[p])
    BY <1>1 DEF TypeOK
  <2> QED BY <1>1, <2>1, <2>2 DEF TypeOK, startup, IsMetadata
<1>3. ASSUME NEW p \in Requests
      PROVE  Explained(p)'
  <2>1. CASE p = q
    BY <2>1
  <2>2. CASE p # q
    <3>1. hop'[p] = hop[p] /\ header'[p] = header[p] /\ outgoing'[p] = outgoing[p]
      BY <1>1, <2>2 DEF TypeOK
    <3>2. Explained(p)
      BY <1>1
    <3>3. UNCHANGED <<metadataForward, chain, serving>>
      BY DEF startup
    <3>4. Passed(p)' = Passed(p) /\ \A i : Allowed(i)' = Allowed(i)
      BY <3>1, <3>3 DEF Passed, Allowed, Occurrences
    <3> QED BY <3>1, <3>2, <3>3, <3>4, SMTT(20) DEF Explained
  <2> QED BY <2>1, <2>2
<1>4. OnlyAllowlisted'
  BY <1>3 DEF OnlyAllowlisted, Explained
<1> QED BY <1>2, <1>4 DEF FInv, Idle, startup

\* Every step preserves the invariant.
LEMMA NextFInv == FInv /\ [Next]_vars => FInv'
<1> SUFFICES ASSUME FInv, [Next]_vars PROVE FInv'
  OBVIOUS
<1>1. TypeOK /\ Idle /\ \A q \in Requests : Explained(q)
  BY ExplainedOnly DEF FInv
<1>2. Endpoint \in Nat /\ DOMAIN chain = 1 .. Endpoint - 1
  BY <1>1 DEF TypeOK, Endpoint
<1>3. CASE Start
  BY <1>3, StartStep
<1>4. ASSUME NEW q \in Requests, Arrive(q) PROVE FInv'
  <2>1. PICK headers \in HeaderSets : header' = [header EXCEPT ![q] = headers]
    BY <1>4 DEF Arrive
  <2>2. 1 \in 0 .. Endpoint
    BY <1>2, <1>1 DEF TypeOK, Endpoint
  <2>3. outgoing'[q] = None
    BY <1>1, <1>4 DEF Arrive, TypeOK
  <2>4. Explained(q)'
    BY <2>3 DEF Explained
  <2>5. /\ DOMAIN outgoing' = Requests
        /\ \A p \in Requests : outgoing'[p] = IF p = q THEN None ELSE outgoing[p]
    BY <1>1, <1>4 DEF Arrive, TypeOK
  <2> QED BY <1>4, <2>1, <2>2, <2>4, <2>5, RequestStep DEF Arrive
<1>5. ASSUME NEW q \in Requests, At(q, Apps \cup {Upstream}), UNCHANGED <<startup, header>>,
             hop' = [hop EXCEPT ![q] = @ + 1],
             NEW md, md = None \/ IsMetadata(md), outgoing' = [outgoing EXCEPT ![q] = md],
             Explained(q)'
      PROVE  FInv'
  <2>1. hop[q] \in 1 .. Endpoint - 1 /\ serving
    BY <1>1, <1>2, <1>5 DEF At, Idle, TypeOK
  <2>2. hop[q] + 1 \in 0 .. Endpoint
    BY <1>2, <2>1
  <2>3. header[q] \in HeaderSets /\ header' = [header EXCEPT ![q] = header[q]]
    BY <1>1, <1>5 DEF TypeOK
  <2>4. hop' = [hop EXCEPT ![q] = hop[q] + 1]
    BY <1>5
  <2>5. /\ DOMAIN outgoing' = Requests
        /\ \A p \in Requests : outgoing'[p] = IF p = q THEN md ELSE outgoing[p]
    BY <1>1, <1>5 DEF TypeOK
  <2> QED BY <1>5, <2>1, <2>2, <2>3, <2>4, <2>5, RequestStep
<1>6. ASSUME NEW q \in Requests, At(q, Apps \cup {Upstream}), UNCHANGED <<startup, header>>,
             hop' = [hop EXCEPT ![q] = @ + 1]
      PROVE  hop[q] \in Passed(q)' /\ Passed(q) \subseteq Passed(q)' /\ hop[q] # 0
  <2>1. hop[q] \in 1 .. Endpoint - 1 /\ hop'[q] = hop[q] + 1 /\ chain' = chain
    BY <1>1, <1>2, <1>6 DEF At, TypeOK, startup
  <2> QED BY <1>2, <2>1 DEF Passed
<1>7. ASSUME NEW q \in Requests, Forward(q) PROVE FInv'
  <2> DEFINE names == metadataForward[chain[hop[q]]]
             md == forwardMetadata(names, header[q], outgoing[q])
  <2>1. At(q, Apps \cup {Upstream}) /\ chain[hop[q]] \in Apps
    BY <1>7 DEF Forward, At
  <2>2. names \in Seq(Headers) /\ header[q] \in [Headers -> Seq(Values)]
    BY <1>1, <2>1, ForwardingAssumption DEF TypeOK
  <2>3. outgoing' = [outgoing EXCEPT ![q] = md] /\ UNCHANGED <<startup, header>>
        /\ hop' = [hop EXCEPT ![q] = @ + 1]
    BY <1>7 DEF Forward
  <2>4. outgoing'[q] = md
    BY <1>1, <2>3 DEF TypeOK
  <2>5. hop[q] \in Passed(q)' /\ Passed(q) \subseteq Passed(q)' /\ hop[q] # 0
    BY <1>6, <2>1, <2>3
  <2>6. chain' = chain /\ header' = header /\ \A i : Allowed(i)' = Allowed(i)
    BY <2>3 DEF Allowed, Occurrences, startup
  <2>7. CASE md = outgoing[q]
    <3> HIDE DEF md
    <3>1. Explained(q)'
      BY <1>1, <2>4, <2>5, <2>6, <2>7 DEF Explained
    <3> QED BY <1>1, <1>5, <2>1, <2>3, <2>7, <3>1 DEF TypeOK
  <2>8. CASE md # outgoing[q]
    <3>1. /\ IsMetadata(md)
          /\ \A h \in DOMAIN md :
               /\ h \in Headers /\ Occurrences(names, h) > 0
               /\ \A n \in DOMAIN md[h] : \E m \in DOMAIN header[q][h] : md[h][n] = header[q][h][m]
      <4> HIDE DEF names
      <4> QED BY <2>2, <2>8, ForwardedMetadata
    <3> HIDE DEF md
    <3>2. \A i : i = hop[q] => \A h \in DOMAIN md : h \in Allowed(i)'
      BY <2>1, <2>6, <3>1 DEF Allowed
    <3>3. Explained(q)'
      BY <2>4, <2>5, <2>6, <3>1, <3>2 DEF Explained
    <3> QED BY <1>5, <2>1, <2>3, <3>1, <3>3
  <2> QED BY <2>7, <2>8
<1>8. ASSUME NEW q \in Requests, SetMetadata(q) PROVE FInv'
  <2>1. PICK md \in Metadatas : outgoing' = [outgoing EXCEPT ![q] = md]
    BY <1>8 DEF SetMetadata
  <2>2. /\ At(q, Apps \cup {Upstream}) /\ chain[hop[q]] = Upstream
        /\ UNCHANGED <<startup, header>> /\ hop' = [hop EXCEPT ![q] = @ + 1]
    BY <1>8 DEF SetMetadata, At
  <2>3. outgoing'[q] = md /\ IsMetadata(md)
    BY <1>1, <2>1, ForwardingAssumption DEF TypeOK
  <2>4. hop[q] \in Passed(q)'
    BY <1>6, <2>2
  <2>5. Explained(q)'
    BY <2>2, <2>3, <2>4 DEF Explained, startup
  <2> QED BY <1>5, <2>1, <2>2, <2>3, <2>5
<1>9. ASSUME NEW q \in Requests, Finish(q) PROVE FInv'
  <2>1. hop' = [hop EXCEPT ![q] = 0] /\ UNCHANGED <<startup, header, outgoing>> /\ hop[q] = Endpoint
    BY <1>9 DEF Finish
  <2>2. 0 \in 0 .. Endpoint /\ serving
    BY <1>1, <1>2, <2>1 DEF Idle, Endpoint, TypeOK
  <2>3. header[q] \in HeaderSets /\ header' = [header EXCEPT ![q] = header[q]]
    BY <1>1, <2>1 DEF TypeOK
  <2>4. outgoing[q] = None \/ IsMetadata(outgoing[q])
    BY <1>1 DEF TypeOK
  <2>5. /\ DOMAIN outgoing' = Requests
        /\ \A p \in Requests : outgoing'[p] = IF p = q THEN outgoing[q] ELSE outgoing[p]
    BY <1>1, <2>1 DEF TypeOK
  <2>6. hop'[q] = 0
    BY <1>1, <2>1 DEF TypeOK
  <2>7. Explained(q)'
    BY <2>6 DEF Explained
  <2>8. UNCHANGED startup
    BY <2>1
  <2> QED BY <2>1, <2>2, <2>3, <2>4, <2>5, <2>7, <2>8, RequestStep
<1>10. CASE UNCHANGED vars
  <2>1. UNCHANGED <<metadataForward, chain, serving, hop, header, outgoing>>
    BY <1>10 DEF vars
  <2>2. TypeOK'
    BY <1>1, <2>1 DEF TypeOK, Endpoint, IsMetadata
  <2>3. \A q : Passed(q)' = Passed(q) /\ Allowed(q)' = Allowed(q)
    BY <2>1 DEF Passed, Allowed, Occurrences
  <2>4. OnlyAllowlisted'
    BY <2>1, <2>3 DEF FInv, OnlyAllowlisted
  <2> QED BY <1>1, <2>1, <2>2, <2>4 DEF FInv, Idle
<1> QED BY <1>3, <1>4, <1>7, <1>8, <1>9, <1>10 DEF Next

\* It holds in every reachable state.
LEMMA FInvHolds == Spec => []FInv
BY InitFInv, NextFInv, PTL DEF Spec

-----------------------------------------------------------------------------
(* Theorems                                                                *)

\* Every reachable state is well typed: whatever handlers a request passes,
\* its outgoing metadata maps lower-case names to lists of values.
THEOREM ForwardingTypeCorrect == Spec => []TypeOK
<1>1. FInv => TypeOK
  BY DEF FInv
<1> QED BY <1>1, FInvHolds, PTL

\* WithMetadataForward and forwardMetadata: a header reaches the metadata of
\* a call only under a name that an App it passed allows, with values of its
\* own request, for any nesting of Apps and any number of requests at once.
THEOREM NothingElseIsForwarded == Spec => []OnlyAllowlisted
<1>1. FInv => OnlyAllowlisted
  BY DEF FInv
<1> QED BY <1>1, FInvHolds, PTL

-----------------------------------------------------------------------------
(* What is delivered.  A repetition of values is, slice by slice, the      *)
(* values.                                                                 *)

\* Counting from a multiple of L on, the remainder by L is what is counted.
LEMMA RemainderOfSum ==
  ASSUME NEW L \in Nat \ {0}, NEW t \in Nat, NEW r \in 0 .. L - 1
  PROVE  (t * L + r) % L = r
<1> DEFINE a == t * L + r
           d == a \div L
           m == a % L
<1>0. t * L \in Nat
  OBVIOUS
<1>1. a \in Nat
  BY <1>0
<1>2. d \in Int /\ m \in 0 .. L - 1 /\ a = L * d + m
  <2> HIDE DEF a
  <2> QED BY <1>1
<1>3. L * d + m = t * L + r
  BY <1>2
<1> HIDE DEF a, d, m
<1>4. ASSUME NEW k \in Int, L * k \in -(L - 1) .. L - 1
      PROVE  k = 0
  <2>1. ASSUME k >= 1 PROVE L * k >= L
    BY <2>1
  <2>2. ASSUME k <= -1 PROVE L * k <= -L
    BY <2>2
  <2>3. L * k \in Int /\ L * k < L /\ L * k > -L
    BY <1>4
  <2> QED BY <2>1, <2>2, <2>3
<1>5. L * (d - t) = r - m
  BY <1>2, <1>3
<1>6. d - t = 0
  <2>1. L * (d - t) \in -(L - 1) .. L - 1
    BY <1>2, <1>5
  <2> QED BY <1>2, <1>4, <2>1
<1>7. m = r
  BY <1>2, <1>5, <1>6
<1> QED BY <1>7 DEF m, a

\* The first n multiples of L, and the room behind each.
LEMMA Slices ==
  ASSUME NEW L \in Nat, NEW n \in Nat, NEW t \in 0 .. n - 1
  PROVE  t * L \in Nat /\ (t + 1) * L = t * L + L /\ t * L + L <= n * L
<1>1. t * L \in Nat /\ (t + 1) * L = t * L + L
  OBVIOUS
<1> DEFINE k == n - (t + 1)
<1>2. k \in Nat /\ n = t + 1 + k
  OBVIOUS
<1> HIDE DEF k
<1>3. k * L \in Nat /\ (t + 1 + k) * L = t * L + L + k * L
  BY <1>2
<1>4. t * L + L <= t * L + L + k * L
  BY <1>1, <1>3
<1> QED BY <1>1, <1>2, <1>3, <1>4

\* A repetition of values is as long as they are together, and each of its
\* slices is the values.
LEMMA RepeatedSlices ==
  ASSUME NEW S, NEW values \in Seq(S), values # <<>>, NEW n \in Nat
  PROVE  /\ Len(Repeated(values, n)) = n * Len(values)
         /\ \A t \in 0 .. n - 1 :
              SubSeq(Repeated(values, n), t * Len(values) + 1, (t + 1) * Len(values)) = values
<1> DEFINE L == Len(values)
           R == Repeated(values, n)
<1>1. L \in Nat \ {0} /\ values = [i \in 1 .. L |-> values[i]]
  OBVIOUS
<1>2. n * L \in Nat
  BY <1>1
<1>3. R \in Seq(S) /\ R = [i \in 1 .. n * L |-> values[((i - 1) % L) + 1]]
  BY RepeatedValues DEF Repeated
<1> HIDE DEF L, R
<1>4. Len(R) = n * L
  BY <1>2, <1>3
<1>5. ASSUME NEW t \in 0 .. n - 1
      PROVE  SubSeq(R, t * L + 1, (t + 1) * L) = values
  <2> DEFINE from == t * L
             total == n * L
  <2>1. from \in Nat /\ total \in Nat /\ (t + 1) * L = from + L /\ from + L <= total
    BY <1>1, <1>2, Slices
  <2>2. ASSUME NEW i \in 1 .. L
        PROVE  R[from + i] = values[i]
    <3>1. i - 1 \in 0 .. L - 1 /\ t \in Nat
      BY <1>1
    <3>2. (t * L + (i - 1)) % L = i - 1
      BY <1>1, <3>1, RemainderOfSum
    <3> HIDE DEF from, total
    <3>3. from + i \in 1 .. total /\ (from + i) - 1 = from + (i - 1)
      BY <1>1, <2>1
    <3>4. R = [j \in 1 .. total |-> values[((j - 1) % L) + 1]]
      BY <1>3 DEF total
    <3>5. R[from + i] = values[(((from + i) - 1) % L) + 1]
      BY <3>3, <3>4
    <3>6. (from + (i - 1)) % L = i - 1
      BY <3>2 DEF from
    <3>7. (i - 1) + 1 = i
      BY <1>1
    <3> QED BY <3>3, <3>5, <3>6, <3>7
  <2>3. Len(R) = total
    BY <1>4
  <2> HIDE DEF from, total
  <2>4. SubSeq(R, from + 1, from + L) = [i \in 1 .. L |-> R[from + i]]
    <3> DEFINE slice == SubSeq(R, from + 1, from + L)
    <3>1. /\ slice \in Seq(S) /\ Len(slice) = L
          /\ \A i \in 1 .. L : slice[i] = R[(from + 1) + i - 1]
      <4>1. /\ from + 1 \in Int /\ from + L \in Int
            /\ \A i \in from + 1 .. from + L : R[i] \in S
        <5>1. from + 1 .. from + L \subseteq 1 .. Len(R)
          BY <1>1, <2>1, <2>3
        <5>2. \A i \in 1 .. Len(R) : R[i] \in S
          <6>1. R \in Seq(S)
            BY <1>3
          <6> QED BY <6>1
        <5> QED BY <1>1, <2>1, <5>1, <5>2
      <4>2. L \in Nat /\ L >= 1 /\ from \in Nat
        BY <1>1, <2>1
      <4> HIDE DEF slice
      <4>3. /\ slice \in Seq(S)
            /\ Len(slice) = IF from + 1 <= from + L THEN (from + L) - (from + 1) + 1 ELSE 0
            /\ \A i \in 1 .. (from + L) - (from + 1) + 1 : slice[i] = R[(from + 1) + i - 1]
        BY <4>1, SubSeqProperties DEF slice
      <4>4. from + 1 <= from + L /\ (from + L) - (from + 1) + 1 = L
        BY <4>2
      <4> QED BY <4>3, <4>4
    <3>2. \A i \in 1 .. L : (from + 1) + i - 1 = from + i
      BY <1>1, <2>1
    <3> HIDE DEF slice
    <3>3. slice = [i \in 1 .. L |-> slice[i]]
      BY <1>1, <3>1
    <3>4. slice = [i \in 1 .. L |-> R[from + i]]
      BY <3>1, <3>2, <3>3
    <3> QED BY <3>4 DEF slice
  <2>5. SubSeq(R, from + 1, from + L) = values
    BY <1>1, <2>2, <2>4
  <2> QED BY <2>1, <2>5 DEF from
<1> QED BY <1>4, <1>5 DEF L, R

\* forwardMetadata leaves the metadata alone if the request has none of the
\* names, and otherwise replaces it with all values of those it has, once for
\* each time a name is listed.
LEMMA ForwardedInFull ==
  ASSUME NEW names \in Seq(Headers), NEW headers \in [Headers -> Seq(Values)], NEW md
  PROVE  LET sent    == forwardMetadata(names, headers, md)
             carried == {h \in Headers : Occurrences(names, h) > 0 /\ headers[h] # <<>>}
         IN  /\ carried = {} => sent = md
             /\ carried # {} =>
                  /\ DOMAIN sent = carried
                  /\ \A h \in carried :
                       LET times == Occurrences(names, h)
                           count == Len(headers[h])
                       IN  /\ Len(sent[h]) = times * count
                           /\ \A t \in 0 .. times - 1 :
                                SubSeq(sent[h], t * count + 1, (t + 1) * count) = headers[h]
<1> DEFINE sent == forwardMetadata(names, headers, md)
           carried == {h \in Headers : Occurrences(names, h) > 0 /\ headers[h] # <<>>}
<1>1. carried = {} => sent = md
  BY DEF forwardMetadata
<1>2. carried # {} =>
        sent = [h \in carried |-> Repeated(headers[h], Occurrences(names, h))]
  BY DEF forwardMetadata
<1>3. ASSUME NEW h \in carried
      PROVE  LET times == Occurrences(names, h)
                 count == Len(headers[h])
                 all   == Repeated(headers[h], times)
             IN  /\ Len(all) = times * count
                 /\ \A t \in 0 .. times - 1 :
                      SubSeq(all, t * count + 1, (t + 1) * count) = headers[h]
  <2>1. headers[h] \in Seq(Values) /\ headers[h] # <<>> /\ Occurrences(names, h) \in Nat
    BY OccurrencesType
  <2> QED BY <2>1, RepeatedSlices
<1> HIDE DEF sent, carried
<1>4. ASSUME carried # {}, NEW h \in carried
      PROVE  LET times == Occurrences(names, h)
                 count == Len(headers[h])
             IN  /\ Len(sent[h]) = times * count
                 /\ \A t \in 0 .. times - 1 :
                      SubSeq(sent[h], t * count + 1, (t + 1) * count) = headers[h]
  <2>1. sent[h] = Repeated(headers[h], Occurrences(names, h))
    BY <1>2, <1>4
  <2> QED BY <1>3, <2>1
<1>5. carried # {} => DOMAIN sent = carried
  BY <1>2
<1> QED BY <1>1, <1>4, <1>5 DEF sent, carried

\* The metadata is what the handler at place i sends.
Sends(q, i) ==
  \/ chain[i] = Upstream /\ outgoing[q] \in Metadatas
  \/ /\ chain[i] # Upstream
     /\ DOMAIN outgoing[q] = {h \in Allowed(i) : header[q][h] # <<>>}
     /\ \A h \in DOMAIN outgoing[q] :
          LET times == Occurrences(metadataForward[chain[i]], h)
              count == Len(header[q][h])
          IN  /\ Len(outgoing[q][h]) = times * count
              /\ \A t \in 0 .. times - 1 :
                   SubSeq(outgoing[q][h], t * count + 1, (t + 1) * count) = header[q][h]

\* Of the handlers a request has passed, the innermost that contributes has
\* decided: what DeliveredAsConfigured says of all of them.
Decided(q) ==
  hop[q] # 0 =>
    \/ outgoing[q] = None /\ \A i \in Passed(q) : ~Contributes(q, i)
    \/ \E i \in Passed(q) :
         /\ Sends(q, i)
         /\ \A j \in Passed(q) : Contributes(q, j) => j <= i
         /\ Contributes(q, i)

DInv == \A q \in Requests : Decided(q)

\* A step that is none of the request, or none at all.
LEMMA DecidedUnchanged ==
  ASSUME DInv, NEW q \in Requests, UNCHANGED <<startup, hop[q], header[q], outgoing[q]>>
  PROVE  Decided(q)'
<1>1. Decided(q)
  BY DEF DInv
<1>2. UNCHANGED <<metadataForward, chain>>
  BY DEF startup
<1>3. Passed(q)' = Passed(q) /\ \A i : Allowed(i)' = Allowed(i)
  BY <1>2 DEF Passed, Allowed, Occurrences
<1>4. \A i : Contributes(q, i)' = Contributes(q, i)
  BY <1>2, <1>3 DEF Contributes
<1>5. \A i : Sends(q, i)' = Sends(q, i)
  BY <1>2, <1>3 DEF Sends, Occurrences
<1> QED BY <1>1, <1>3, <1>4, <1>5 DEF Decided

\* A step past the handler at one place, which contributes or leaves the
\* metadata alone.
LEMMA PassStep ==
  ASSUME FInv, DInv, NEW q \in Requests, At(q, Apps \cup {Upstream}),
         UNCHANGED <<startup, header>>, hop' = [hop EXCEPT ![q] = @ + 1],
         NEW i, i = hop[q],
         \/ ~Contributes(q, i) /\ outgoing'[q] = outgoing[q]
         \/ Contributes(q, i) /\ Sends(q, i)'
  PROVE  Decided(q)'
<1>1. TypeOK /\ Decided(q)
  BY DEF FInv, DInv
<1>2. i \in DOMAIN chain /\ i \in Nat /\ i # 0 /\ hop'[q] = i + 1 /\ DOMAIN chain \subseteq Nat
  BY <1>1 DEF At, TypeOK
<1>3. UNCHANGED <<metadataForward, chain, header>>
  BY DEF startup
<1>4. Passed(q)' = Passed(q) \cup {i} /\ \A j \in Passed(q) : j < i
  BY <1>2, <1>3 DEF Passed
<1>5. \A j : Allowed(j)' = Allowed(j)
  BY <1>3 DEF Allowed, Occurrences
<1>6. \A j : Contributes(q, j)' = Contributes(q, j)
  BY <1>3, <1>5 DEF Contributes
<1>7. CASE ~Contributes(q, i) /\ outgoing'[q] = outgoing[q]
  <2>1. \A j : Sends(q, j)' = Sends(q, j)
    BY <1>3, <1>5, <1>7 DEF Sends, Occurrences
  <2> QED BY <1>1, <1>2, <1>4, <1>6, <1>7, <2>1 DEF Decided
<1>8. CASE Contributes(q, i) /\ Sends(q, i)'
  <2>1. \A j \in Passed(q)' : j <= i
    BY <1>2, <1>4 DEF Passed
  <2>2. i \in Passed(q)' /\ Contributes(q, i)'
    BY <1>4, <1>6, <1>8
  <2> QED BY <1>8, <2>1, <2>2 DEF Decided
<1> QED BY <1>7, <1>8

\* Every step keeps the decision.
LEMMA NextDInv == FInv /\ DInv /\ [Next]_vars => DInv'
<1> SUFFICES ASSUME FInv, DInv, [Next]_vars, NEW p \in Requests PROVE Decided(p)'
  BY DEF DInv
<1>1. TypeOK
  BY DEF FInv
<1>2. CASE Start
  <2>1. ~serving /\ UNCHANGED hop
    BY <1>2 DEF Start, WithMetadataForward, Handler, Handle, Use, Nest, Starting, Serve
  <2>2. hop'[p] = 0
    BY <2>1 DEF FInv, Idle
  <2> QED BY <2>2 DEF Decided
<1>3. CASE UNCHANGED vars
  BY <1>3, DecidedUnchanged DEF vars, startup
<1>4. ASSUME NEW q \in Requests, Arrive(q) \/ Forward(q) \/ SetMetadata(q) \/ Finish(q), p # q
      PROVE  Decided(p)'
  <2>1. UNCHANGED <<startup, hop[p], header[p], outgoing[p]>>
    BY <1>1, <1>4 DEF Arrive, Forward, SetMetadata, Finish, TypeOK
  <2> QED BY <2>1, DecidedUnchanged
<1>5. CASE Arrive(p)
  <2>1. hop'[p] = 1 /\ outgoing'[p] = None /\ chain' = chain
    BY <1>1, <1>5 DEF Arrive, TypeOK, startup
  <2>2. DOMAIN chain = 1 .. Len(chain)
    BY <1>1 DEF TypeOK
  <2>3. Passed(p)' = {}
    BY <2>1, <2>2 DEF Passed
  <2> QED BY <2>1, <2>3 DEF Decided
<1>6. CASE Forward(p)
  <2> DEFINE i == hop[p]
             names == metadataForward[chain[i]]
             md == forwardMetadata(names, header[p], outgoing[p])
             carried == {h \in Headers : Occurrences(names, h) > 0 /\ header[p][h] # <<>>}
  <2>1. /\ At(p, Apps \cup {Upstream}) /\ chain[i] \in Apps /\ chain[i] # Upstream
        /\ UNCHANGED <<startup, header>> /\ hop' = [hop EXCEPT ![p] = @ + 1]
        /\ outgoing'[p] = md
    BY <1>1, <1>6, ForwardingAssumption DEF Forward, At, TypeOK
  <2>2. names \in Seq(Headers) /\ header[p] \in [Headers -> Seq(Values)]
    BY <1>1, <2>1, ForwardingAssumption DEF TypeOK
  <2>3. /\ carried = {} => md = outgoing[p]
        /\ carried # {} =>
             /\ DOMAIN md = carried
             /\ \A h \in carried :
                  LET times == Occurrences(names, h)
                      count == Len(header[p][h])
                  IN  /\ Len(md[h]) = times * count
                      /\ \A t \in 0 .. times - 1 :
                           SubSeq(md[h], t * count + 1, (t + 1) * count) = header[p][h]
    <3> HIDE DEF names
    <3> QED BY <2>2, ForwardedInFull, ZenonT(60)
  <2>4. carried = {h \in Allowed(i) : header[p][h] # <<>>}
    BY <2>1 DEF Allowed
  <2>5. Contributes(p, i) <=> carried # {}
    BY <2>1, <2>4 DEF Contributes
  <2>6. UNCHANGED <<metadataForward, chain, header>> /\ \A j : Allowed(j)' = Allowed(j)
    BY <2>1 DEF startup, Allowed, Occurrences
  <2>7. CASE carried = {}
    BY <2>1, <2>3, <2>5, <2>7, PassStep
  <2>8. CASE carried # {}
    <3>1. PICK j : j = hop[p]
      OBVIOUS
    <3> HIDE DEF md, carried
    <3>2. DOMAIN outgoing'[p] = {h \in Allowed(j)' : header'[p][h] # <<>>}
      BY <2>1, <2>3, <2>4, <2>6, <2>8, <3>1
    <3>3. names = metadataForward'[chain'[j]]
      BY <2>6, <3>1
    <3> HIDE DEF names
    <3>4. \A h \in DOMAIN outgoing'[p] :
            LET times == Occurrences(metadataForward'[chain'[j]], h)
                count == Len(header'[p][h])
            IN  /\ Len(outgoing'[p][h]) = times * count
                /\ \A t \in 0 .. times - 1 :
                     SubSeq(outgoing'[p][h], t * count + 1, (t + 1) * count) = header'[p][h]
      BY <2>1, <2>3, <2>6, <2>8, <3>3
    <3>5. Sends(p, j)'
      BY <2>1, <2>6, <3>1, <3>2, <3>4 DEF Sends, Occurrences
    <3> QED BY <2>1, <2>5, <2>8, <3>1, <3>5, PassStep
  <2> QED BY <2>7, <2>8
<1>7. CASE SetMetadata(p)
  <2>1. PICK md \in Metadatas : outgoing' = [outgoing EXCEPT ![p] = md]
    BY <1>7 DEF SetMetadata
  <2>2. /\ At(p, Apps \cup {Upstream}) /\ chain[hop[p]] = Upstream
        /\ UNCHANGED <<startup, header>> /\ hop' = [hop EXCEPT ![p] = @ + 1]
    BY <1>7 DEF SetMetadata, At
  <2>3. outgoing'[p] = md /\ chain' = chain
    BY <1>1, <2>1, <2>2 DEF TypeOK, startup
  <2>4. PICK i : i = hop[p]
    OBVIOUS
  <2>5. Contributes(p, i) /\ Sends(p, i)'
    BY <2>2, <2>3, <2>4 DEF Contributes, Sends
  <2> QED BY <2>2, <2>4, <2>5, PassStep
<1>8. CASE Finish(p)
  <2>1. hop'[p] = 0
    BY <1>1, <1>8 DEF Finish, TypeOK
  <2> QED BY <2>1 DEF Decided
<1> QED BY <1>2, <1>3, <1>4, <1>5, <1>6, <1>7, <1>8 DEF Next

\* The innermost handler with something to say decides alone what the method
\* sees, for any nesting and any number of requests at once: an App all values
\* of each of its names that the request has, in their order.
THEOREM ConfiguredIsDelivered == Spec => []DeliveredAsConfigured
<1>1. Init => DInv
  BY DEF Init, DInv, Decided
<1>2. FInv /\ DInv => DeliveredAsConfigured
  <2> SUFFICES ASSUME FInv, DInv, NEW q \in Requests, hop[q] = Endpoint
               PROVE  LET last == {i \in DOMAIN chain :
                                     /\ Contributes(q, i)
                                     /\ \A j \in DOMAIN chain : Contributes(q, j) => j <= i}
                      IN  /\ last = {} => outgoing[q] = None
                          /\ \A i \in last : Sends(q, i)
    BY DEF DeliveredAsConfigured, Sends
  <2>1. DOMAIN chain = 1 .. Endpoint - 1 /\ Endpoint \in Nat \ {0}
    BY DEF FInv, TypeOK, Endpoint
  <2>2. Passed(q) = DOMAIN chain /\ hop[q] # 0
    BY <2>1 DEF Passed
  <2>3. Decided(q)
    BY DEF DInv
  <2>4. CASE outgoing[q] = None /\ \A i \in DOMAIN chain : ~Contributes(q, i)
    BY <2>4
  <2>5. CASE \E i \in DOMAIN chain :
               /\ Sends(q, i)
               /\ \A j \in DOMAIN chain : Contributes(q, j) => j <= i
               /\ Contributes(q, i)
    <3>1. PICK i \in DOMAIN chain :
                 /\ Sends(q, i)
                 /\ \A j \in DOMAIN chain : Contributes(q, j) => j <= i
                 /\ Contributes(q, i)
      BY <2>5
    <3>2. \A k \in DOMAIN chain :
            Contributes(q, k) /\ (\A j \in DOMAIN chain : Contributes(q, j) => j <= k) => k = i
      BY <2>1, <3>1
    <3> QED BY <3>1, <3>2
  <2> QED BY <2>2, <2>3, <2>4, <2>5 DEF Decided
<1> QED BY <1>1, <1>2, NextDInv, FInvHolds, PTL DEF Spec

=============================================================================
