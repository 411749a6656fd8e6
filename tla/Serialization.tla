--------------------------- MODULE Serialization ---------------------------
(***************************************************************************)
(* What protojson and encoding/json make of a type: the reference for the  *)
(* schemas that package openapi generates.  Nothing here follows the walk  *)
(* of the generator.                                                       *)
(***************************************************************************)
EXTENDS Schemas

\* A field shows itself or, if it embeds a struct, exported or not, what that
\* struct has been found to show, one level deeper.
IsVisible(f) == ~f.omitted /\ (f.exported \/ Flattens(f))

Deeper(found) == {[field |-> p.field, depth |-> p.depth + 1] : p \in found}

Shown(f, found) == IF Flattens(f) THEN Deeper(found[Deref(f.type)])
                                  ELSE {[field |-> f, depth |-> 0]}

\* What the types show on the first n levels.
Promoted[n \in 0 .. Cardinality(Types)] ==
  [t \in Types |->
     IF n = 0 \/ ~IsObject(t) THEN {}
     ELSE LET fields == {f \in Range(Shape[t].fields) : IsVisible(f)}
          IN  UNION {Shown(f, Promoted[n - 1]) : f \in fields}]

\* Deeper than there are types, an embedded struct has been met before.
Members == Promoted[Cardinality(Types)]

\* The least deep field of a name hides the others.
Dominant ==
  [t \in {u \in Types : IsObject(u)} |->
     {p \in Members[t] :
        \A q \in Members[t] : q.field.name = p.field.name => p.depth <= q.depth}]

MemberTypes(t) == IF IsWrapper(t) THEN {Shape[t].elem}
                  ELSE IF IsLeaf(t) THEN {}
                  ELSE {p.field.type : p \in Dominant[t]}

\* The types that a value of the type is made of.
PartsOf(t) ==
  LET reached[n \in 0 .. Cardinality(Types)] ==
        IF n = 0 THEN {t}
        ELSE LET us == reached[n - 1] IN us \cup UNION {MemberTypes(u) : u \in us}
  IN  reached[Cardinality(Types)]

Parts == [t \in Types |-> PartsOf(t)]

\* The named types that are needed to describe an operation.
Needed(o) ==
  {t \in UNION {Parts[r] : r \in {o.body, o.response, ProblemDetails} \cap Types} : IsNamed(t)}

\* The schema of an object, given those of its members.
Described(t, opts, schema) ==
  LET name(p) == PropertyName(t, p.field, opts)
  IN  ObjectOf([n \in {name(p) : p \in Dominant[t]} |->
                  schema[(CHOOSE p \in Dominant[t] : name(p) = n).field.type]])

\* The schema that stands where a value of the type occurs, in n levels.
SchemaWithin[n \in 0 .. Cardinality(Types)] ==
  [opts \in MarshalOptions |-> [t \in Types |->
     IF IsNamed(t) THEN Ref(Shape[t].key)
     ELSE IF n = 0 THEN AnySchema
     ELSE CASE IsLeaf(t)    -> LeafSchema(t, opts)
            [] IsWrapper(t) -> Wrapped(t, SchemaWithin[n - 1][opts][Shape[t].elem])
            [] OTHER        -> Described(t, opts, SchemaWithin[n - 1][opts])]]

Schema == SchemaWithin[Cardinality(Types)]

\* The same for what may lack a type.
SchemaFor(t, opts) == CASE t = None    -> None
                        [] t = Unknown -> AnySchema
                        [] OTHER       -> Schema[opts][t]

=============================================================================
