------------------------------ MODULE Catalog ------------------------------
(***************************************************************************)
(* What an App promises to those who register routes on it and to those    *)
(* who read its documentation: a catalog of endpoints.                     *)
(*                                                                         *)
(* An endpoint is added as a whole or not at all: from one step to the     *)
(* next it is served and listed, after the ones added before it.  What is  *)
(* later chained onto one endpoint changes that endpoint alone, and a      *)
(* report shows each listed endpoint with what has been chained so far.    *)
(***************************************************************************)
EXTENDS Sequences, Naturals

CONSTANTS
  Endpoints, Patterns,  \* what can be added: endpoints, and opaque patterns
  Options,              \* what can be chained onto an endpoint
  Initial,              \* the options of a new endpoint
  Settings,             \* package-level settings that a report shows
  PatternOf(_),         \* the pattern of an endpoint
  Admissible(_),        \* an endpoint that can be added at all
  Compatible(_, _),     \* a set of patterns, and one more
  Describe(_, _, _),    \* endpoint, its options, the settings
  NoReport

VARIABLES
  served,    \* the patterns that are served
  catalog,   \* the endpoints, in the order they were added
  settings,
  report     \* the last report

vars == <<served, catalog, settings, report>>

Init ==
  /\ served = {}
  /\ catalog = <<>>
  /\ settings \in Settings
  /\ report = NoReport

Add(e) ==
  /\ Admissible(e) /\ Compatible(served, PatternOf(e))
  /\ served' = served \cup {PatternOf(e)}
  /\ catalog' = Append(catalog, [endpoint |-> e, options |-> Initial])
  /\ UNCHANGED <<settings, report>>

Serve(p) ==
  /\ Compatible(served, p)
  /\ served' = served \cup {p}
  /\ UNCHANGED <<catalog, settings, report>>

Configure(i) ==
  /\ catalog'[i].options \in Options
  /\ catalog' = [catalog EXCEPT ![i].options = catalog'[i].options]
  /\ UNCHANGED <<served, settings, report>>

Set ==
  /\ settings' \in Settings
  /\ UNCHANGED <<served, catalog, report>>

Report ==
  /\ report' = [i \in DOMAIN catalog |->
                  Describe(catalog[i].endpoint, catalog[i].options, settings)]
  /\ UNCHANGED <<served, catalog, settings>>

Next ==
  \/ \E e \in Endpoints : Add(e)
  \/ \E p \in Patterns : Serve(p)
  \/ \E i \in DOMAIN catalog : Configure(i)
  \/ Set
  \/ Report

Spec == Init /\ [][Next]_vars

=============================================================================
