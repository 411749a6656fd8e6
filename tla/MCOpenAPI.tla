----------------------------- MODULE MCOpenAPI -----------------------------
(***************************************************************************)
(* Instances of module OpenAPI for TLC: small type graphs with the cycles, *)
(* embeddings and name clashes that a schema generator can meet.           *)
(***************************************************************************)
EXTENDS OpenAPI, TLC

Scalar == [kind |-> "scalar"]
Enum   == [kind |-> "enum"]
Pointer(t) == [kind |-> "pointer", elem |-> t]
ArrayOf(t) == [kind |-> "array", elem |-> t]
MapOf(t)   == [kind |-> "map", elem |-> t]
Msg(key, fields)       == [kind |-> "message", key |-> key, fields |-> fields]
StructOf(key, fields)  == [kind |-> "struct", key |-> key, fields |-> fields]

MCField(name, type) ==
  [name |-> name, text |-> name, type |-> type, embedded |-> FALSE, exported |-> TRUE, omitted |-> FALSE]
Renamed(name, text, type) == [MCField(name, type) EXCEPT !.text = text]
Embedded(name, type)      == [MCField(name, type) EXCEPT !.embedded = TRUE]
Unexported(f) == [f EXCEPT !.exported = FALSE]
Omitted(f)    == [f EXCEPT !.omitted = TRUE]

MCTypes == DOMAIN Shape
MCPropertyNames == {"id", "user_id", "Name", "Kind", "Base"}
MCSegments == {"users", "{id}"}
MCMethods  == {"GET", "POST"}
MCKeys == {"pb.User", "pb.Group", "dto.User", "dto.Base", "dto.Account", "dto.Tree", "dto.Node",
           "dto.Twin", "Problem"}

Plain   == [protoNames |-> FALSE, enumNumbers |-> FALSE]
AsProto == [protoNames |-> TRUE, enumNumbers |-> TRUE]

MCProblem == StructOf("Problem", <<MCField("Name", "string"), Omitted(MCField("id", "string"))>>)

Lit(text)  == [kind |-> "plain", text |-> text]
Rest(text) == [kind |-> "rest", text |-> text]
End        == [kind |-> "end", text |-> "users"]

MCOperation(method, path, tag, opts, body, response) ==
  [method |-> method, path |-> path, tag |-> tag, marshal |-> opts, body |-> body, response |-> response]

-----------------------------------------------------------------------------
(* Run openapi: messages that refer to each other and to themselves        *)
(* through every kind of field, structs that embed others, in all          *)
(* sequences of two of six operations; and cycles with and without a name  *)
(* that can hold a placeholder, each type of them as the body and as the   *)
(* response of an operation.                                               *)

DocumentShape ==
  "string" :> Scalar @@ "role" :> Enum @@ "problem" :> MCProblem
  @@ "User"   :> Msg("pb.User", <<Renamed("id", "user_id", "string"), MCField("Kind", "role"),
                                  MCField("Name", "groups")>>)
  @@ "groups" :> ArrayOf("Group")
  @@ "Group"  :> Msg("pb.Group", <<MCField("Name", "members"), MCField("Base", "Group")>>)
  @@ "members" :> MapOf("User")
  @@ "UserDTO" :> StructOf("dto.User", <<MCField("Kind", "children"), Embedded("Base", "*base"),
                                         MCField("id", "extra"), Unexported(MCField("Name", "role"))>>)
  @@ "*base"  :> Pointer("base")
  @@ "base"   :> StructOf("dto.Base", <<MCField("id", "string"), MCField("Name", "string"),
                                        Omitted(MCField("user_id", "string"))>>)
  @@ "children" :> ArrayOf("*child")
  @@ "*child"   :> Pointer("UserDTO")
  @@ "extra"    :> StructOf(Inline, <<MCField("Base", "UserDTO")>>)

DocumentOperations ==
  {MCOperation("GET", <<Lit("users"), Lit("{id}")>>, "get", Plain, None, "User"),
   MCOperation("GET", <<Lit("users"), Rest("{id}")>>, "files", AsProto, None, "Group"),
   MCOperation("POST", <<Lit("users"), End>>, "create", AsProto, "User", "UserDTO"),
   MCOperation("POST", <<Lit("users")>>, "import", Plain, "children", Unknown),
   MCOperation("POST", <<Lit("{id}")>>, "raw", Plain, Unknown, "role"),
   MCOperation("GET", <<>>, "all", AsProto, None, "groups")}

CyclesShape ==
  "list" :> ArrayOf("list")
  @@ "Tree" :> StructOf("dto.Tree", <<Embedded("Base", "*Tree"), MCField("id", "string")>>)
  @@ "*Tree" :> Pointer("Tree")
  @@ "Node" :> StructOf("dto.Node", <<MCField("Kind", "nodes"), MCField("Name", "anonymous")>>)
  @@ "nodes" :> ArrayOf("Node")
  @@ "anonymous" :> StructOf(Inline, <<MCField("Base", "nodes"), MCField("Kind", "Twin")>>)
  @@ "Twin" :> StructOf("dto.Twin", <<Embedded("Base", "Node"), MCField("id", "*Twin")>>)
  @@ "*Twin" :> Pointer("Twin")

MCShape == DocumentShape @@ CyclesShape

\* Of these types, those that are not endless are such as KeepsDocument is
\* proved for.
Endless == {"list", "Tree", "*Tree"}

ASSUME OthersAreOrderly ==
  DOMAIN MCShape \subseteq Types => Orderly(DOMAIN MCShape \ Endless) /\ ProblemDetails \notin Endless

MCLists ==
  {<<>>} \cup {<<o, p>> : o, p \in DocumentOperations}
  \cup {<<MCOperation("POST", <<Lit("users")>>, "create", Plain, body, response)>> :
          body \in DOMAIN CyclesShape \cup {None}, response \in DOMAIN CyclesShape}

-----------------------------------------------------------------------------
(* Run claim_document: two routes that differ in their last slash only,    *)
(* and the responses                                                       *)
(*                                                                         *)
(*   type Outer struct { Name Role; Base }, type Base struct { Name string }*)
(*   type Account struct { base }, with the exported field Name in base    *)
(*   a message pb.User and a struct User of a Go package called pb, too    *)

ClaimShape ==
  "string" :> Scalar @@ "role" :> Enum @@ "problem" :> MCProblem
  @@ "Outer"   :> StructOf("dto.User", <<MCField("Name", "role"), Embedded("Base", "base")>>)
  @@ "Account" :> StructOf("dto.Account", <<Unexported(Embedded("Base", "base"))>>)
  @@ "base"    :> StructOf("dto.Base", <<MCField("Name", "string")>>)
  @@ "User"    :> Msg("pb.User", <<MCField("id", "string")>>)
  @@ "UserDTO" :> StructOf("pb.User", <<MCField("Name", "string")>>)

ClaimLists ==
  {<<MCOperation("GET", <<Lit("users")>>, "list", Plain, None, "Outer"),
     MCOperation("GET", <<Lit("users"), End>>, "exact", Plain, None, "Account"),
     MCOperation("GET", <<>>, "all", Plain, None, "User"),
     MCOperation("POST", <<>>, "create", Plain, None, "UserDTO")>>}

=============================================================================
