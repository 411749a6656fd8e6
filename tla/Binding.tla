------------------------------ MODULE Binding ------------------------------
(***************************************************************************)
(* What a list of binders means, stated without executing it.              *)
(*                                                                         *)
(* The comment of Proxy says that binders are "applied in order".  Applied *)
(* to the request message this means: the first binder that cannot be      *)
(* satisfied decides how the request is refused, and otherwise every field *)
(* has the value given to it by the last binder that assigns it.  Two      *)
(* things make the reading of a list non-local.  The body is a stream, so  *)
(* the first body binder consumes it and later ones find it empty; and     *)
(* BodyJSON assigns every field, the absent ones included.                 *)
(*                                                                         *)
(* Module Route executes the binders one at a time; its invariants and the *)
(* specification it refines speak in the terms of this module.             *)
(***************************************************************************)
EXTENDS Binders, Sequences, SequencesExt

IsBody(b) == b.kind \in BodyKinds

FirstBody(bs) == SelectInSeq(bs, IsBody)

\* What is left of the body for the i-th binder.
Available(bs, in, i) == IF i = FirstBody(bs) THEN in.body.size ELSE 0

Oversized(bs, in, limit, i) ==
  \/ in.body.fault = "tooLarge"
  \/ limit > 0 /\ Available(bs, in, i) > limit

Skipped(b, in, extractor) == b.skipEmpty /\ RawParam(b, in, extractor) = Zero

\* Why the i-th binder cannot be satisfied.
Obstacle(bs, in, extractor, limit, i) ==
  IF IsBody(bs[i])
  THEN IF Oversized(bs, in, limit, i) THEN "tooLarge"
       ELSE IF in.body.fault = "none" /\ Decodes(bs[i].kind, in.body, Available(bs, in, i))
            THEN "none"
            ELSE "bad"
  ELSE IF Skipped(bs[i], in, extractor) \/ Parse(bs[i].type, RawParam(bs[i], in, extractor)).ok
       THEN "none"
       ELSE "bad"

Verdict(bs, in, extractor, limit) ==
  LET blocked == {i \in DOMAIN bs : Obstacle(bs, in, extractor, limit, i) # "none"}
  IN  IF blocked = {} THEN "none" ELSE Obstacle(bs, in, extractor, limit, Min(blocked))

\* The fields the binder b assigns, and what the i-th binder assigns to them.
Assigns(b, in, extractor) ==
  IF b.kind = "BodyJSON" THEN Fields
  ELSE IF ~IsBody(b) /\ Skipped(b, in, extractor) THEN {}
  ELSE b.writes

Value(bs, in, extractor, i, f) ==
  IF IsBody(bs[i])
  THEN Document(in.body, Available(bs, in, i))[f]
  ELSE Parse(bs[i].type, RawParam(bs[i], in, extractor)).text

\* The message the first n binders describe, and the one all of them do.
DeclaredBy(bs, in, extractor, n) ==
  [f \in Fields |->
     LET writers == {i \in 1..n : f \in Assigns(bs[i], in, extractor)}
     IN  IF writers = {} THEN Zero ELSE Value(bs, in, extractor, Max(writers), f)]

Declared(bs, in, extractor) == DeclaredBy(bs, in, extractor, Len(bs))

=============================================================================
