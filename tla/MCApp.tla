------------------------------- MODULE MCApp -------------------------------
(***************************************************************************)
(* Instances of module App for TLC: endpoints that fit together, that miss *)
(* a parameter, that are malformed and that conflict.                      *)
(***************************************************************************)
EXTENDS App

CONSTANTS
  f, g,             \* fields of the request messages
  plain, unpopulated   \* marshal options

MCFields == {f, g}
MCNames  == {"id", "key", "p"}
MCEnumNumber == [w \in {} |-> 0]

-----------------------------------------------------------------------------
(* Patterns *)

Lit(text) == [kind |-> "literal", text |-> text]
Wild(name) == [kind |-> "wildcard", text |-> name]
Rest(name) == [kind |-> "rest", text |-> name]
End == [kind |-> "end", text |-> ""]

Pattern(method, path) == [method |-> method, path |-> path]
MCEndpoint(method, path, binders) ==
  [method |-> method, path |-> path, binders |-> binders, isMessage |-> TRUE]

\* Every path of up to three segments out of a few texts; only the last
\* segment may be empty, as the mux cleans paths first.
MCRequestPaths ==
  LET T == {"users", "me"}
  IN  {<<t>> : t \in T \cup {""}} \cup {<<a, t>> : a \in T, t \in T \cup {""}}
      \cup {<<a, b, t>> : a, b \in T, t \in T \cup {""}}

MCMethods == {"GET", "HEAD", "POST"}

-----------------------------------------------------------------------------
(* Run app *)

GetUser    == MCEndpoint("GET", <<Lit("users"), Wild("id")>>, <<PathString("id", f)>>)
GetTypo    == MCEndpoint("GET", <<Lit("users"), Wild("key")>>,
                         <<PathString("key", f), QueryInt64("p", g), PathEnum("id", f)>>)
GetMe      == MCEndpoint("GET", <<Lit("users"), Lit("me")>>, <<HeaderString("id", g)>>)
GetFiles   == MCEndpoint("GET", <<Wild("key"), Rest("p")>>, <<PathString("p", f), PathInt32("key", g)>>)
GetOther   == MCEndpoint("GET", <<Wild("id"), Lit("me")>>, <<PathString("id", f)>>)
GetTwice   == MCEndpoint("GET", <<Wild("id"), Lit("me"), Wild("id")>>, <<PathString("id", f)>>)

PostUsers  == [MCEndpoint("POST", <<Lit("users"), End>>,
                          <<BodyJSON({f}), Ctx("id", g), BodyJSONInto({g})>>)
               EXCEPT !.isMessage = FALSE]

GetUnderUsers == Pattern("GET", <<Lit("users"), Rest("")>>)
AnyMe         == Pattern("", <<Lit("users"), Lit("me")>>)

MCPrograms ==
  {[endpoints  |-> {GetUser, GetTypo, GetMe, GetFiles, GetOther, GetTwice},
    patterns   |-> {GetUnderUsers, AnyMe},
    configured |-> {}],
   [endpoints  |-> {GetUser, PostUsers},
    patterns   |-> {},
    configured |-> {PostUsers}]}

MCEndpoints == UNION {p.endpoints : p \in MCPrograms}
MCPatterns  == UNION {p.patterns : p \in MCPrograms}

=============================================================================
