----------------------------- MODULE Forwarding -----------------------------
(***************************************************************************)
(* App: forwarding of HTTP headers into outgoing gRPC metadata.            *)
(*                                                                         *)
(* At startup the program creates its Apps and nests handlers around the   *)
(* endpoint: an App around what is mounted on it, App.Handler around       *)
(* another router, and handlers of its own that put metadata into the      *)
(* context.  A request passes them from the outermost to the innermost,    *)
(* and the method is called with the context it has then.                  *)
(*                                                                         *)
(* Header names are those of the wire in lower case; a program may spell   *)
(* them otherwise.                                                         *)
(***************************************************************************)
EXTENDS Naturals, Sequences, FiniteSets

CONSTANTS
  Headers,      \* header names, in lower case
  Lower,        \* strings.ToLower, of the spellings a program uses
  Values,       \* header values
  Apps,
  Upstream,     \* a handler of the program that sets outgoing metadata
  Metadatas,    \* ... to one of these
  AllowLists,   \* what it passes to WithMetadataForward
  Requests,     \* requests that are served at the same time
  HeaderSets,   \* the headers of requests
  None,
  MaxHops, MaxAllowed   \* bounds: nesting, length of an allowlist

\* Outgoing metadata: values for some of the names.
IsMetadata(md) == DOMAIN md \subseteq Headers /\ md \in [DOMAIN md -> Seq(Values)]

Spellings == DOMAIN Lower

ASSUME ForwardingAssumption ==
  /\ Lower \in [Spellings -> Headers]
  /\ AllowLists \subseteq Seq(Spellings)
  /\ HeaderSets \subseteq [Headers -> Seq(Values)]
  /\ \A md \in Metadatas : IsMetadata(md)
  /\ Upstream \notin Apps
  /\ MaxHops \in Nat /\ MaxAllowed \in Nat

VARIABLES
  metadataForward,  \* App.metadataForward
  chain,            \* the handlers around the endpoint, the outermost first
  serving,
  hop,              \* the handler a request is at, 0 if there is no request
  header,           \* the headers of the request
  outgoing          \* the outgoing metadata of its context, or None

vars == <<metadataForward, chain, serving, hop, header, outgoing>>
startup == <<metadataForward, chain, serving>>

Endpoint == Len(chain) + 1

Init ==
  /\ metadataForward = [a \in Apps |-> <<>>]
  /\ chain = <<>>
  /\ serving = FALSE
  /\ hop = [q \in Requests |-> 0]
  /\ header \in [Requests -> HeaderSets]
  /\ outgoing = [q \in Requests |-> None]

-----------------------------------------------------------------------------
(* Startup *)

Starting == ~serving /\ UNCHANGED <<serving, hop, header, outgoing>>

\* A plausible variant that keeps the spelling.
KeepSpelling(a, names) ==
  /\ Starting /\ chain = <<>>
  /\ Len(metadataForward[a]) + Len(names) <= MaxAllowed
  /\ metadataForward' = [metadataForward EXCEPT ![a] = @ \o names]
  /\ UNCHANGED chain

\* New runs this option before the App is put to any use.
WithMetadataForward(a, names) ==
  /\ Starting /\ chain = <<>>
  /\ Len(metadataForward[a]) + Len(names) <= MaxAllowed
  /\ metadataForward' = [metadataForward EXCEPT ![a] = @ \o [i \in DOMAIN names |-> Lower[names[i]]]]
  /\ UNCHANGED chain

Nest(h) ==
  /\ Starting
  /\ Len(chain) < MaxHops
  /\ chain' = <<h>> \o chain
  /\ UNCHANGED metadataForward

\* App.Handler: without an allowlist it returns what it is given.
Handler(a) == metadataForward[a] # <<>> /\ Nest(a)

\* The endpoint, or another handler, is registered on the App's own router.
Handle(a) == Nest(a)

Use == Nest(Upstream)

Serve ==
  /\ ~serving /\ serving' = TRUE
  /\ UNCHANGED <<metadataForward, chain, hop, header, outgoing>>

-----------------------------------------------------------------------------
(* Requests *)

Occurrences(names, h) == Cardinality({i \in DOMAIN names : names[i] = h})

\* The values, n times over.
Repeated(values, n) == [i \in 1 .. n * Len(values) |-> values[((i - 1) % Len(values)) + 1]]

\* A plausible variant that forwards every header once there is an allowlist.
ForwardAll(names, headers, md) ==
  LET carried == {h \in Headers : headers[h] # <<>>}
  IN  IF carried = {} \/ names = <<>> THEN md ELSE [h \in carried |-> headers[h]]

\* A plausible variant that merges with the metadata it finds.
ForwardMerged(names, headers, md) ==
  LET carried == {h \in Headers : Occurrences(names, h) > 0 /\ headers[h] # <<>>}
      found   == IF md = None THEN {} ELSE DOMAIN md
  IN  IF carried = {} THEN md
      ELSE [h \in carried \cup found |-> IF h \in found THEN md[h] ELSE headers[h]]

\* forwardMetadata: the metadata of the context, after the loop over the
\* allowlist, given the metadata before.  A name the list repeats is read
\* as often; without a value for any name the context stays as it is.
forwardMetadata(names, headers, md) ==
  LET carried == {h \in Headers : Occurrences(names, h) > 0 /\ headers[h] # <<>>}
  IN  IF carried = {} THEN md
      ELSE [h \in carried |-> Repeated(headers[h], Occurrences(names, h))]

Arrive(q) ==
  /\ serving /\ hop[q] = 0
  /\ hop' = [hop EXCEPT ![q] = 1]
  /\ \E headers \in HeaderSets : header' = [header EXCEPT ![q] = headers]
  /\ outgoing' = [outgoing EXCEPT ![q] = None]
  /\ UNCHANGED startup

At(q, handlers) == hop[q] \in DOMAIN chain /\ chain[hop[q]] \in handlers

\* App.ServeHTTP, or the handler that App.Handler returned.
Forward(q) ==
  /\ At(q, Apps)
  /\ outgoing' = [outgoing EXCEPT ![q] =
                    forwardMetadata(metadataForward[chain[hop[q]]], header[q], @)]
  /\ hop' = [hop EXCEPT ![q] = @ + 1]
  /\ UNCHANGED <<startup, header>>

SetMetadata(q) ==
  /\ At(q, {Upstream})
  /\ \E md \in Metadatas : outgoing' = [outgoing EXCEPT ![q] = md]
  /\ hop' = [hop EXCEPT ![q] = @ + 1]
  /\ UNCHANGED <<startup, header>>

\* The endpoint has called its method and returned.
Finish(q) ==
  /\ hop[q] = Endpoint
  /\ hop' = [hop EXCEPT ![q] = 0]
  /\ UNCHANGED <<startup, header, outgoing>>

-----------------------------------------------------------------------------

Start ==
  \/ \E a \in Apps, names \in AllowLists : WithMetadataForward(a, names)
  \/ \E a \in Apps : Handler(a) \/ Handle(a)
  \/ Use
  \/ Serve

Next == Start \/ \E q \in Requests : Arrive(q) \/ Forward(q) \/ SetMetadata(q) \/ Finish(q)

Spec == Init /\ [][Next]_vars

-----------------------------------------------------------------------------
(* Properties *)

TypeOK ==
  /\ metadataForward \in [Apps -> Seq(Headers)]
  /\ chain \in Seq(Apps \cup {Upstream})
  /\ serving \in BOOLEAN
  /\ hop \in [Requests -> 0 .. Endpoint]
  /\ header \in [Requests -> HeaderSets]
  /\ DOMAIN outgoing = Requests
  /\ \A q \in Requests : outgoing[q] = None \/ IsMetadata(outgoing[q])

\* The handlers a request has passed, innermost last.
Passed(q) == {i \in DOMAIN chain : i < hop[q]}

Allowed(i) == {h \in Headers : chain[i] \in Apps /\ Occurrences(metadataForward[chain[i]], h) > 0}

\* The allowlist is the only way of a header into the metadata of a call:
\* what a request carries is what a handler of the program has set, or
\* values of its own headers, under names that an App it passed allows.
OnlyAllowlisted ==
  \A q \in Requests : hop[q] # 0 /\ outgoing[q] # None =>
    \/ outgoing[q] \in Metadatas /\ \E i \in Passed(q) : chain[i] = Upstream
    \/ \E i \in Passed(q) : \A h \in DOMAIN outgoing[q] :
         /\ h \in Allowed(i)
         /\ \A n \in DOMAIN outgoing[q][h] :
              \E m \in DOMAIN header[q][h] : outgoing[q][h][n] = header[q][h][m]

\* The innermost handler with something to say decides alone what the
\* method sees: an App all values of each of its names that the request has,
\* in their order and once for each time the name is listed, a handler of
\* the program what it has set.
Contributes(q, i) == chain[i] = Upstream \/ \E h \in Allowed(i) : header[q][h] # <<>>

DeliveredAsConfigured ==
  \A q \in Requests : hop[q] = Endpoint =>
    LET last == {i \in DOMAIN chain : /\ Contributes(q, i)
                                      /\ \A j \in DOMAIN chain : Contributes(q, j) => j <= i}
    IN  /\ last = {} => outgoing[q] = None
        /\ \A i \in last :
             \/ chain[i] = Upstream /\ outgoing[q] \in Metadatas
             \/ /\ chain[i] # Upstream
                /\ DOMAIN outgoing[q] = {h \in Allowed(i) : header[q][h] # <<>>}
                /\ \A h \in DOMAIN outgoing[q] :
                     LET times == Occurrences(metadataForward[chain[i]], h)
                         count == Len(header[q][h])
                     IN  /\ Len(outgoing[q][h]) = times * count
                         /\ \A t \in 0 .. times - 1 :
                              SubSeq(outgoing[q][h], t * count + 1, (t + 1) * count) = header[q][h]

=============================================================================
