------------------------------ MODULE ServeMux ------------------------------
(***************************************************************************)
(* net/http.ServeMux, as App relies on it: which requests a pattern        *)
(* matches, when Handle panics, and which of the patterns that match a     *)
(* request answers it.  The library is not part of the repository; this is *)
(* its documented behaviour, stated with the sets of requests that         *)
(* patterns match instead of with its routing tree.                        *)
(*                                                                         *)
(* The path of a pattern is a sequence of segments: a literal text, {name} *)
(* (wildcard), {name...} (rest) or {$} (end).  A pattern that ends in a    *)
(* slash ends in a rest without a name.  The path of a request is a        *)
(* sequence of texts; it ends in "" if it ends in a slash.                 *)
(***************************************************************************)
EXTENDS Naturals, Sequences

CONSTANTS
  Methods,      \* the methods of requests
  RequestPaths  \* the paths of requests

ASSUME ServeMuxAssumption == RequestPaths \subseteq Seq(STRING)

SegmentKinds == {"literal", "wildcard", "rest", "end"}
Anonymous == ""    \* the name of the rest a trailing slash stands for

\* A pattern without a method matches all of them: NoMethod.
NoMethod == ""

HTTPRequests == [method : Methods, path : RequestPaths]

IsNamed(seg) == seg.kind \in {"wildcard", "rest"} /\ seg.text # Anonymous

\* {name...} and {$} end a pattern, and no name occurs twice.
WellFormed(path) ==
  /\ path # <<>>
  /\ \A i \in DOMAIN path : path[i].kind \in {"rest", "end"} => i = Len(path)
  /\ \A i, j \in DOMAIN path :
       IsNamed(path[i]) /\ IsNamed(path[j]) /\ path[i].text = path[j].text => i = j

\* {name} stands for one segment that is not empty.
MatchesSegment(seg, text) ==
  \/ seg.kind = "literal" /\ text = seg.text
  \/ seg.kind = "wildcard" /\ text # ""
  \/ seg.kind = "end" /\ text = ""
  \/ seg.kind = "rest"

MatchesPath(path, texts) ==
  /\ IF path[Len(path)].kind = "rest" THEN Len(texts) >= Len(path) ELSE Len(texts) = Len(path)
  /\ \A i \in DOMAIN path : MatchesSegment(path[i], texts[i])

MatchesMethod(m, method) == m \in {NoMethod, method} \/ (m = "GET" /\ method = "HEAD")

Matches(pattern, r) ==
  MatchesMethod(pattern.method, r.method) /\ MatchesPath(pattern.path, r.path)

\* The requests that the pattern matches.
Covers(pattern) == {r \in HTTPRequests : Matches(pattern, r)}

\* Two patterns conflict when they overlap and neither is more specific.
Conflicts(p, q) ==
  /\ Covers(p) \cap Covers(q) # {}
  /\ Covers(p) \subseteq Covers(q) <=> Covers(q) \subseteq Covers(p)

\* Handle panics on a malformed pattern and on one that conflicts with a
\* registered one; entries are [method, path, handler] records.
Panics(entries, pattern) ==
  \/ ~WellFormed(pattern.path)
  \/ \E e \in entries : Conflicts(e, pattern)

\* The most specific of the entries that match a request answers it.
Candidates(entries, r) == {e \in entries : Matches(e, r)}

Dispatch(entries, r) ==
  CHOOSE e \in Candidates(entries, r) :
    \A d \in Candidates(entries, r) : e = d \/ Covers(e) \subseteq Covers(d)

\* Request.PathValue: what a matched pattern captured under a name, as a
\* sequence of texts; nothing for a name it does not have.
PathValue(path, texts, name) ==
  IF \E i \in DOMAIN path : IsNamed(path[i]) /\ path[i].text = name
  THEN LET i == CHOOSE i \in DOMAIN path : IsNamed(path[i]) /\ path[i].text = name
       IN  IF path[i].kind = "rest" THEN SubSeq(texts, i, Len(texts)) ELSE <<texts[i]>>
  ELSE <<>>

=============================================================================
