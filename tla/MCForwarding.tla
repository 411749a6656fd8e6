---------------------------- MODULE MCForwarding ----------------------------
(***************************************************************************)
(* Instances of module Forwarding for TLC: two Apps whose allowlists       *)
(* overlap, with repeated and differently spelled names.                   *)
(***************************************************************************)
EXTENDS Forwarding, TLC

CONSTANTS v, w   \* header values

MCHeaders == {"authorization", "x-id"}
MCLower == "Authorization" :> "authorization" @@ "authorization" :> "authorization" @@ "x-id" :> "x-id"

MCAllowLists == {<<"Authorization">>, <<"x-id">>, <<"authorization", "x-id">>}

MCHeaderSets ==
  {"authorization" :> a @@ "x-id" :> x : a \in {<<>>, <<v>>, <<v, w>>}, x \in {<<>>, <<w>>}}

MCMetadatas == {"x-id" :> <<v>>}

=============================================================================
