------------------------------ MODULE OpenAPI ------------------------------
(***************************************************************************)
(* Generate: the document of an App, built operation by operation.         *)
(*                                                                         *)
(* The schema of a type is computed by mutually recursive functions over a *)
(* graph of types that may have cycles, and they share one table of        *)
(* component schemas.  Here their activations are a stack.  What the       *)
(* innermost one is about to do is control:                                *)
(*                                                                         *)
(*   call     messageRef, dtoSchema, structRef for a type                  *)
(*   return   one of them returns a schema                                 *)
(*   fields   the loop of messageSchema or addStructFields                 *)
(*                                                                         *)
(* A goroutine whose stack is exhausted takes the program down (overflow). *)
(***************************************************************************)
EXTENDS Serialization

CONSTANTS
  OperationLists,  \* what App.Operations may return
  MaxDepth         \* how deep the stack can get

ASSUME OpenAPIAssumption == OperationLists \subseteq Seq(OperationInfo) /\ MaxDepth \in Nat

VARIABLES
  operations,  \* what App.Operations has returned
  next,        \* the operation in work
  described,   \* the schemas of its body and responses so far
  control,
  stack,       \* activations, the innermost first
  schemas,     \* generator.schemas
  items        \* Document.Paths, by path and verb

vars == <<operations, next, described, control, stack, schemas, items>>

Call(t)   == [do |-> "call", type |-> t]
Return(s) == [do |-> "return", schema |-> s]
Fields    == [do |-> "fields"]
Idle      == [do |-> "idle"]
Done      == [do |-> "done"]
Overflow  == [do |-> "overflow"]

op == operations[next]
top == stack[1]

Init ==
  /\ operations \in OperationLists
  /\ next = 1 /\ described = <<>> /\ control = Idle
  /\ stack = <<>> /\ schemas = EmptyMap /\ items = EmptyMap

-----------------------------------------------------------------------------
(* Generate and operation *)

\* {name...} becomes {name}, and {$} is dropped.
normalizePath(path) ==
  LET out[n \in 0 .. Len(path)] ==
        IF n = 0 THEN <<>>
        ELSE IF path[n].kind = "end" THEN out[n - 1] ELSE Append(out[n - 1], path[n].text)
  IN  out[Len(path)]

\* The schemas an operation needs, in the order it asks for them.
Roots(o) == <<o.body, o.response, ProblemDetails>>

\* bodySchema, responseSchema, and the default response.
Root ==
  /\ control = Idle /\ next <= Len(operations) /\ Len(described) < 3
  /\ LET r == Roots(op)[Len(described) + 1] IN
     IF r \in Types
     THEN control' = Call(r) /\ UNCHANGED described
     ELSE /\ described' = Append(described, IF r = None THEN None ELSE AnySchema)
          /\ UNCHANGED control
  /\ UNCHANGED <<operations, next, stack, schemas, items>>

Content(o, schema) ==
  [tag |-> o.tag, body |-> schema[1], response |-> schema[2], default |-> schema[3]]

assign ==
  /\ control = Idle /\ Len(described) = 3
  /\ items' = Put(items, <<normalizePath(op.path), op.method>>, Content(op, described))
  /\ next' = next + 1
  /\ described' = <<>>
  /\ UNCHANGED <<operations, control, stack, schemas>>

Finish ==
  /\ control = Idle /\ next > Len(operations)
  /\ control' = Done
  /\ UNCHANGED <<operations, next, described, stack, schemas, items>>

-----------------------------------------------------------------------------
(* protoSchema and dtoSchema *)

walk == <<operations, next, described, items>>

Calling(t) == control = Call(t) /\ UNCHANGED walk

\* An activation: of a field loop that fills a component schema, an inline
\* one or that of an embedding struct, or one that waits for its elem.
Frame(t, role, props) == [type |-> t, role |-> role, at |-> 1, props |-> props]

Push(frame, do) ==
  IF Len(stack) < MaxDepth
  THEN stack' = <<frame>> \o stack /\ control' = do
  ELSE control' = Overflow /\ UNCHANGED stack

Describe(t) ==
  /\ Calling(t) /\ IsLeaf(t)
  /\ control' = Return(LeafSchema(t, op.marshal))
  /\ UNCHANGED <<stack, schemas>>

Wrap(t) ==
  /\ Calling(t) /\ IsWrapper(t)
  /\ Push(Frame(t, "wrap", EmptyMap), Call(Shape[t].elem))
  /\ UNCHANGED schemas

Nest(t) ==
  /\ Calling(t) /\ IsObject(t) /\ ~IsNamed(t)
  /\ Push(Frame(t, "inline", EmptyMap), Fields)
  /\ UNCHANGED schemas

\* The name is registered already: a schema, or the placeholder of an
\* activation that is under way.
Known(t) ==
  /\ Calling(t) /\ IsNamed(t) /\ Shape[t].key \in DOMAIN schemas
  /\ control' = Return(Ref(Shape[t].key))
  /\ UNCHANGED <<stack, schemas>>

\* A plausible variant without a placeholder.
EnterUnmarked(t) ==
  /\ Calling(t) /\ IsNamed(t) /\ Shape[t].key \notin DOMAIN schemas
  /\ Push(Frame(t, "component", EmptyMap), Fields)
  /\ UNCHANGED schemas

\* A plausible variant that gives anonymous structs a component, too.
EnterAnonymous(t) ==
  /\ Calling(t) /\ IsObject(t) /\ Shape[t].key \notin DOMAIN schemas
  /\ schemas' = Put(schemas, Shape[t].key, Placeholder)
  /\ Push(Frame(t, "component", EmptyMap), Fields)

Enter(t) ==
  /\ Calling(t) /\ IsNamed(t) /\ Shape[t].key \notin DOMAIN schemas
  /\ schemas' = Put(schemas, Shape[t].key, Placeholder)
  /\ Push(Frame(t, "component", EmptyMap), Fields)

\* The field that the innermost loop is at.
field == Shape[top.type].fields[top.at]

Looping(more) ==
  /\ control = Fields /\ UNCHANGED walk
  /\ more <=> top.at <= Len(Shape[top.type].fields)

Advance(frame, props) == [frame EXCEPT !.at = @ + 1, !.props = props]

\* A plausible variant that continues without the next field.
SkipInPlace ==
  /\ Looping(TRUE) /\ Hidden(field)
  /\ UNCHANGED <<control, stack, schemas>>

Skip ==
  /\ Looping(TRUE) /\ Hidden(field)
  /\ stack' = [stack EXCEPT ![1] = Advance(top, top.props)]
  /\ UNCHANGED <<control, schemas>>

\* A plausible variant that starts anew for an embedded struct.
FlattenAlone ==
  /\ Looping(TRUE) /\ ~Hidden(field) /\ Flattens(field)
  /\ Push(Frame(Deref(field.type), "embed", EmptyMap), Fields)
  /\ UNCHANGED schemas

Flatten ==
  /\ Looping(TRUE) /\ ~Hidden(field) /\ Flattens(field)
  /\ Push(Frame(Deref(field.type), "embed", top.props), Fields)
  /\ UNCHANGED schemas

Descend ==
  /\ Looping(TRUE) /\ ~Hidden(field) /\ ~Flattens(field)
  /\ control' = Call(field.type)
  /\ UNCHANGED <<stack, schemas>>

\* The loop ends, and with it the activation.
Complete ==
  /\ Looping(FALSE) /\ top.role = "component"
  /\ schemas' = Put(schemas, Shape[top.type].key, ObjectOf(top.props))
  /\ control' = Return(Ref(Shape[top.type].key))
  /\ stack' = Tail(stack)

Inlined ==
  /\ Looping(FALSE) /\ top.role = "inline"
  /\ control' = Return(ObjectOf(top.props))
  /\ stack' = Tail(stack)
  /\ UNCHANGED schemas

Flattened ==
  /\ Looping(FALSE) /\ top.role = "embed"
  /\ stack' = <<Advance(stack[2], top.props)>> \o Tail(Tail(stack))
  /\ UNCHANGED <<control, schemas>>

\* A schema is returned to the activation that waits for it.
ToRoot ==
  /\ control.do = "return" /\ stack = <<>>
  /\ described' = Append(described, control.schema)
  /\ control' = Idle
  /\ UNCHANGED <<operations, next, stack, schemas, items>>

ToWrapper ==
  /\ control.do = "return" /\ stack # <<>> /\ top.role = "wrap"
  /\ control' = Return(Wrapped(top.type, control.schema))
  /\ stack' = Tail(stack)
  /\ UNCHANGED <<walk, schemas>>

ToField ==
  /\ control.do = "return" /\ stack # <<>> /\ top.role # "wrap"
  /\ stack' = [stack EXCEPT ![1] =
       Advance(top, Put(top.props, PropertyName(top.type, field, op.marshal), control.schema))]
  /\ control' = Fields
  /\ UNCHANGED <<walk, schemas>>

-----------------------------------------------------------------------------

Next ==
  \/ Root \/ assign \/ Finish
  \/ \E t \in Types : Describe(t) \/ Wrap(t) \/ Nest(t) \/ Known(t) \/ Enter(t)
  \/ Skip \/ Flatten \/ Descend
  \/ Complete \/ Inlined \/ Flattened
  \/ ToRoot \/ ToWrapper \/ ToField

Spec == Init /\ [][Next]_vars

\* Generate runs in one goroutine and waits for nothing.
FairSpec == Spec /\ WF_vars(Next)

-----------------------------------------------------------------------------
(* Properties *)

\* What the walk over the types works on has its type.
WalkTypeOK ==
  /\ next \in 1 .. Len(operations) + 1
  /\ Len(described) <= 3
  /\ control.do \in {"call", "return", "fields", "idle", "done", "overflow"}
  /\ control.do = "call" => control.type \in Types
  /\ Len(stack) <= MaxDepth
  /\ \A i \in DOMAIN stack :
       /\ IsWrapper(stack[i].type) <=> stack[i].role = "wrap"
       /\ IsObject(stack[i].type) => stack[i].at \in 1 .. Len(Shape[stack[i].type].fields) + 1
       /\ DOMAIN stack[i].props \subseteq PropertyNames
  /\ DOMAIN schemas \subseteq Keys

\* And so has the document.
TypeOK == WalkTypeOK /\ DOMAIN items \subseteq Seq(Segments) \X Methods

\* A component is the empty placeholder exactly while the activation that
\* describes it is under way, and never are two at work on the same one.
\* When the document is done no reference in it leads to a placeholder; only
\* a stack that is exhausted on the way into a component leaves one behind.
PlaceholdersAreOpen ==
  \A k \in DOMAIN schemas \cup {Shape[t].key : t \in {u \in Types : IsNamed(u)}} :
    LET open == {i \in DOMAIN stack : stack[i].role = "component" /\ Shape[stack[i].type].key = k}
    IN  /\ open # {} => k \in DOMAIN schemas /\ schemas[k] = Placeholder
        /\ k \in DOMAIN schemas /\ schemas[k] = Placeholder => open # {} \/ control = Overflow
        /\ Cardinality(open) <= 1

\* The types whose activation follows one of this type with no placeholder
\* in between.
Unguarded(t) ==
  IF ~IsObject(t) THEN {Shape[u].elem : u \in {t} \cap {w \in Types : IsWrapper(w) /\ ~IsNamed(Shape[w].elem)}}
  ELSE LET visible == {Shape[t].fields[i] : i \in {j \in DOMAIN Shape[t].fields : ~Hidden(Shape[t].fields[j])}}
       IN  {Deref(f.type) : f \in {g \in visible : Flattens(g)}}
           \cup {f.type : f \in {g \in visible : ~Flattens(g) /\ ~IsNamed(g.type)}}

\* Only types that lead back to themselves without a placeholder, through
\* wrappers and embedded structs, exhaust the stack: cycles through a message
\* or a named struct do not.  A stack that is exhausted shows such a cycle.
OverflowsOnEndlessTypes ==
  control = Overflow =>
    \E i, j \in DOMAIN stack :
      /\ i < j /\ stack[i].type = stack[j].type
      /\ \A k \in i .. j - 1 : stack[k].type \in Unguarded(stack[k + 1].type)

\* Generate comes to an end; with OverflowsOnEndlessTypes, to a document
\* whenever the types lead nowhere endlessly, whatever their cycles.
Finishes == <>(control \in {Done, Overflow})

\* Between two operations the document is complete for those it has: all
\* schemas, as protojson and encoding/json would have them, with the options
\* of the first operation that needs them (README.md:436).
Working == control \notin {Idle, Done} \/ described # <<>>

Documented == {Shape[t].key : t \in UNION {Needed(operations[i]) : i \in 1 .. next - 1}}

Contract == INSTANCE Document WITH
  components <- [k \in {k \in DOMAIN schemas : Working => k \in Documented} |-> schemas[k]]

KeepsDocument == Contract!Spec

\* KeepsDocument is not to be had for all types (EveryRouteIsDocumented and
\* FollowsRules show some).  Those of an orderly set refer to each other only,
\* and to have no end they go by a name; names are told apart; embedded structs
\* are exported; of two fields with a name, the last to be visited is the one
\* that encoding/json shows, and the other one has no part that is named.
References(t) == IF IsWrapper(t) THEN {Shape[t].elem}
                 ELSE IF IsLeaf(t) THEN {} ELSE {f.type : f \in Range(Shape[t].fields)}

SameName(t, f, g) == f.name = g.name \/ (Shape[t].kind = "message" /\ f.text = g.text)

LastIsForemost(t) ==
  \A i, j \in DOMAIN Shape[t].fields :
    LET f == Shape[t].fields[i]
        g == Shape[t].fields[j]
    IN  i < j /\ ~Hidden(f) /\ ~Hidden(g) =>
          \A p \in Shown(f, Members), q \in Shown(g, Members) :
            SameName(t, p.field, q.field) => p.field.name = q.field.name /\ q.depth < p.depth

Orderly(types) ==
  /\ \A t \in types : References(t) \subseteq types
  /\ \A S \in SUBSET types : S # {} => \E t \in S : Unguarded(t) \cap S = {}
  /\ \A t, u \in types : IsNamed(t) /\ IsNamed(u) /\ Shape[t].key = Shape[u].key => t = u
  /\ \A t \in types : IsObject(t) =>
       /\ \A f \in Range(Shape[t].fields) : IsVisible(f) <=> ~Hidden(f)
       /\ LastIsForemost(t)
       /\ \A p \in Members[t] : p.field.type \in MemberTypes(t) \/ IsLeaf(p.field.type)

-----------------------------------------------------------------------------
(* What comments and the README say, and the code does not keep.           *)

\* README.md:423: the document has "every route registered via the App verb
\* methods".
EveryRouteIsDocumented ==
  \A i \in DOMAIN operations :
    \E at \in DOMAIN items : at[2] = operations[i].method /\ items[at].tag = operations[i].tag

\* openapi.go:4: "proto descriptors / Map DTO types become response schemas
\* following protojson / encoding/json serialization rules"; and
\* reflectschema.go:68: "addStructFields fills properties following
\* encoding/json field rules".
FollowsRules(o) ==
  LET t == o.response
  IN  t \in Types /\ IsNamed(t) => schemas[Shape[t].key] = Described(t, o.marshal, Schema[o.marshal])

\* The finished document shows every route, with responses as they are
\* serialized.
IsFaithful ==
  control = Done =>
    EveryRouteIsDocumented /\ \A i \in DOMAIN operations : FollowsRules(operations[i])

=============================================================================
