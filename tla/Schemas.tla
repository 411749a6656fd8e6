------------------------------ MODULE Schemas ------------------------------
(***************************************************************************)
(* What package openapi works on: the types that bodies and responses are  *)
(* made of, and the schemas that describe them.                            *)
(*                                                                         *)
(* Shape gives every type its structure as the protobuf descriptor or the  *)
(* reflect package shows it.  A repeated field has an array type and a map *)
(* field a map type; well-known messages and time.Time are scalars, as the *)
(* generator looks no further into them.  No struct embeds time.Time.      *)
(***************************************************************************)
EXTENDS Naturals, Sequences, FiniteSets, SequencesExt

CONSTANTS
  Types,
  Shape,           \* [Types -> the records below]
  ProblemDetails,  \* the type of the default error response
  Unknown,         \* in place of a body or response without a schema
  Keys,            \* names of component schemas
  Inline,          \* in place of a key: an anonymous struct
  PropertyNames,
  Methods, Segments,  \* verbs; texts of pattern segments
  Tags,            \* what else an operation shows: documentation, parameters, status
  None

\* name and text: the JSON name of a field and its name in the .proto file.
\* embedded: without a tag, never in a message; omitted: tagged "-".
Field == [name : PropertyNames, text : PropertyNames, type : Types,
          embedded : BOOLEAN, exported : BOOLEAN, omitted : BOOLEAN]

Object  == [kind : {"message", "struct"}, key : Keys \cup {Inline}, fields : Seq(Field)]
Wrapper == [kind : {"pointer", "array", "map"}, elem : Types]
Leaf    == [kind : {"scalar", "enum"}]

\* protojson.MarshalOptions, as far as schemas follow them.
MarshalOptions == [protoNames : BOOLEAN, enumNumbers : BOOLEAN]

\* A segment of a pattern: a literal or {name}, {name...}, or {$}; the text
\* is without the dots.
Segment == [kind : {"plain", "rest", "end"}, text : Segments]

\* OperationInfo: body is None if no binder consumes the body.
OperationInfo == [method : Methods, path : Seq(Segment), tag : Tags, marshal : MarshalOptions,
                  body : Types \cup {Unknown, None}, response : Types \cup {Unknown}]

ASSUME SchemasAssumption ==
  /\ IsFiniteSet(Types)
  /\ Shape \in [Types -> Object \cup Wrapper \cup Leaf]
  /\ \A t \in Types : Shape[t].kind = "message" =>
       \A i \in DOMAIN Shape[t].fields : ~Shape[t].fields[i].embedded
  /\ ProblemDetails \in Types
  /\ Unknown \notin Types /\ None \notin Types /\ Unknown # None
  /\ Inline \notin Keys

IsObject(t)  == Shape[t].kind \in {"message", "struct"}
IsWrapper(t) == Shape[t].kind \in {"pointer", "array", "map"}

\* The object has a component of its own.
IsNamed(t) == IsObject(t) /\ Shape[t].key # Inline

IsLeaf(t) == Shape[t].kind \in {"scalar", "enum"}

Deref(t) == IF Shape[t].kind = "pointer" THEN Shape[t].elem ELSE t

\* addStructFields leaves this field out, or flattens it.
Hidden(f)   == ~f.exported \/ f.omitted
Flattens(f) == f.embedded /\ Shape[Deref(f.type)].kind = "struct"

-----------------------------------------------------------------------------
(* Schemas *)

AnySchema      == [kind |-> "any"]
Placeholder    == AnySchema      \* &Schema{}
Ref(key)       == [kind |-> "ref", key |-> key]
ObjectOf(props) == [kind |-> "object", properties |-> props]

\* Pointers leave no trace.
Wrapped(t, schema) == IF Shape[t].kind = "pointer" THEN schema
                      ELSE [kind |-> Shape[t].kind, of |-> schema]

\* What singularSchema, wellKnownSchema and dtoSchema give a leaf: a format
\* of its own, and to an enum one that depends on the options.
LeafSchema(t, opts) ==
  [kind |-> Shape[t].kind, type |-> t,
   number |-> Shape[t].kind = "enum" /\ opts.enumNumbers]

PropertyName(t, f, opts) ==
  IF Shape[t].kind = "message" /\ opts.protoNames THEN f.text ELSE f.name

EmptyMap == [x \in {} |-> x]
Put(map, x, y) == [z \in DOMAIN map \cup {x} |-> IF z = x THEN y ELSE map[z]]

=============================================================================
