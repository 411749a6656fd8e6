------------------------------ MODULE Document ------------------------------
(***************************************************************************)
(* What an OpenAPI document owes its readers, without a walk.              *)
(*                                                                         *)
(* The document grows by one operation at a time, completely: its content, *)
(* and a component for every named type that can be reached from it and is *)
(* not there yet, described by what protojson or encoding/json make of it  *)
(* with the options of this operation.                                     *)
(***************************************************************************)
EXTENDS Serialization

CONSTANT OperationLists

VARIABLES operations, next, components, items

vars == <<operations, next, components, items>>

-----------------------------------------------------------------------------

\* The path template that requests for a pattern have: one part for each
\* segment that stands for something.
IsPathOf(parts, path) ==
  \E at \in [DOMAIN parts -> DOMAIN path] :
    /\ \A i \in DOMAIN parts : parts[i] = path[at[i]].text
    /\ \A i, j \in DOMAIN parts : i < j => at[i] < at[j]
    /\ {at[i] : i \in DOMAIN parts} = {i \in DOMAIN path : path[i].kind # "end"}

Init ==
  /\ operations \in OperationLists
  /\ next = 1 /\ components = EmptyMap /\ items = EmptyMap

Document ==
  /\ next <= Len(operations)
  /\ next' = next + 1
  /\ UNCHANGED operations
  /\ LET o     == operations[next]
         fresh == {t \in Needed(o) : Shape[t].key \notin DOMAIN components}
     IN  /\ components' = [k \in DOMAIN components \cup {Shape[t].key : t \in fresh} |->
                             IF k \in DOMAIN components THEN components[k]
                             ELSE Described(CHOOSE t \in fresh : Shape[t].key = k, o.marshal, Schema[o.marshal])]
         /\ \E at \in DOMAIN items' :
              /\ IsPathOf(at[1], o.path) /\ at[2] = o.method
              /\ items' = Put(items, at, [tag |-> o.tag,
                                         body |-> SchemaFor(o.body, o.marshal),
                                         response |-> SchemaFor(o.response, o.marshal),
                                         default |-> SchemaFor(ProblemDetails, o.marshal)])

Spec == Init /\ [][Document]_vars

=============================================================================
