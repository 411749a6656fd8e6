------------------------------ MODULE Exchange ------------------------------
(***************************************************************************)
(* What a proxied endpoint promises to its HTTP client and to the service  *)
(* behind it, without saying how requests are bound or errors mapped.      *)
(*                                                                         *)
(* An accepted request is either refused, with 400 or 413 and without the  *)
(* service hearing of it, or handed to the service exactly once, as the    *)
(* message the route declares for it; and it ends after that.  The         *)
(* settings that decide the meaning of a request do not change while one   *)
(* is in flight.                                                           *)
(***************************************************************************)
EXTENDS Sequences

CONSTANTS
  Requests,         \* the requests in flight
  Routes, Inputs,   \* what a request is: an endpoint, and what is sent to it
  NoRequest,        \* a slot that has not been used
  Settings,         \* what the operator can configure
  Refusal(_, _, _), \* settings, route, input: "none", or why it is refused
  RefusalStatus(_), \* the status of a refusal
  Meaning(_, _, _)  \* settings, route, input: the message the route declares

VARIABLES
  settings,   \* the configuration
  stage,      \* [Requests -> Stages]
  request,    \* [Requests -> the route and the input of the request]
  heard,      \* [Requests -> the messages the service received for it]
  refused     \* [Requests -> the status of the refusal, 0 without one]

vars == <<settings, stage, request, heard, refused>>

Stages == {"idle", "accepted", "refused", "called", "ended"}

Init ==
  /\ settings \in Settings
  /\ stage = [q \in Requests |-> "idle"]
  /\ request = [q \in Requests |-> NoRequest]
  /\ heard = [q \in Requests |-> <<>>]
  /\ refused = [q \in Requests |-> 0]

Configure ==
  /\ \A q \in Requests : stage[q] = "idle"
  /\ settings' \in Settings
  /\ UNCHANGED <<stage, request, heard, refused>>

Accept(q) ==
  /\ stage[q] = "idle"
  /\ stage' = [stage EXCEPT ![q] = "accepted"]
  /\ request'[q] \in [route : Routes, input : Inputs]
  /\ request' = [request EXCEPT ![q] = request'[q]]
  /\ UNCHANGED <<settings, heard, refused>>

Refuse(q) ==
  LET why == Refusal(settings, request[q].route, request[q].input) IN
  /\ stage[q] = "accepted"
  /\ why # "none"
  /\ stage' = [stage EXCEPT ![q] = "refused"]
  /\ refused' = [refused EXCEPT ![q] = RefusalStatus(why)]
  /\ UNCHANGED <<settings, request, heard>>

Call(q) ==
  /\ stage[q] = "accepted"
  /\ Refusal(settings, request[q].route, request[q].input) = "none"
  /\ stage' = [stage EXCEPT ![q] = "called"]
  /\ heard' = [heard EXCEPT ![q] = <<Meaning(settings, request[q].route, request[q].input)>>]
  /\ UNCHANGED <<settings, request, refused>>

End(q) ==
  /\ stage[q] = "called"
  /\ stage' = [stage EXCEPT ![q] = "ended"]
  /\ UNCHANGED <<settings, request, heard, refused>>

Release(q) ==
  /\ stage[q] \in {"refused", "ended"}
  /\ stage' = [stage EXCEPT ![q] = "idle"]
  /\ request' = [request EXCEPT ![q] = NoRequest]
  /\ heard' = [heard EXCEPT ![q] = <<>>]
  /\ refused' = [refused EXCEPT ![q] = 0]
  /\ UNCHANGED settings

Next ==
  \/ Configure
  \/ \E q \in Requests : Accept(q) \/ Refuse(q) \/ Call(q) \/ End(q) \/ Release(q)

Safety == Init /\ [][Next]_vars

\* Every accepted request is refused or reaches the service.
Progress == \A q \in Requests : stage[q] = "accepted" ~> stage[q] # "accepted"

Spec == Safety /\ Progress

=============================================================================
