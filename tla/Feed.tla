-------------------------------- MODULE Feed --------------------------------
(***************************************************************************)
(* What an aggregate promises, without its goroutines, its errgroup and    *)
(* its contexts.  Parts of a feed arrive while it is open, or a mandatory  *)
(* part fails.  The feed is closed once: with everything that has arrived  *)
(* if nothing mandatory is missing or has failed, with one of the          *)
(* failures, or with a cancellation if the client has left.  After that    *)
(* nothing moves.                                                          *)
(***************************************************************************)
CONSTANTS Requests, Parts, Mandatory, Failures, Canceled, None

VARIABLES
  open,     \* the requests that wait for parts
  arrived,  \* [Requests -> the parts that are there]
  failed,   \* [Requests -> [the mandatory parts -> their failure, or None]]
  left,     \* [Requests -> the client has left]
  verdict   \* [Requests -> how the feed was closed, or None]

vars == <<open, arrived, failed, left, verdict>>

Complete(parts) == [ok |-> TRUE, of |-> parts]
Failed(reason)  == [ok |-> FALSE, err |-> reason]

Init ==
  /\ open = {}
  /\ arrived = [q \in Requests |-> {}]
  /\ failed = [q \in Requests |-> [c \in Mandatory |-> None]]
  /\ left = [q \in Requests |-> FALSE]
  /\ verdict = [q \in Requests |-> None]

Open(q) ==
  /\ q \notin open /\ verdict[q] = None
  /\ open' = open \cup {q}
  /\ UNCHANGED <<arrived, failed, left, verdict>>

Arrived(q, c) ==
  /\ q \in open /\ c \notin arrived[q]
  /\ c \in Mandatory => failed[q][c] = None
  /\ arrived' = [arrived EXCEPT ![q] = @ \cup {c}]
  /\ UNCHANGED <<open, failed, left, verdict>>

Fails(q, c, e) ==
  /\ q \in open /\ c \notin arrived[q] /\ failed[q][c] = None
  /\ failed' = [failed EXCEPT ![q][c] = e]
  /\ UNCHANGED <<open, arrived, left, verdict>>

Leave(q) ==
  /\ left' = [left EXCEPT ![q] = TRUE]
  /\ UNCHANGED <<open, arrived, failed, verdict>>

Close(q) ==
  /\ q \in open
  /\ open' = open \ {q}
  /\ \E v \in {Complete(arrived[q])} \cup {Failed(e) : e \in Failures \cup {Canceled}} :
       /\ verdict' = [verdict EXCEPT ![q] = v]
       /\ IF v.ok THEN Mandatory \subseteq arrived[q]
          ELSE \/ v.err \in Failures /\ \E c \in Mandatory : failed[q][c] = v.err
               \/ v.err = Canceled /\ left[q]
  /\ UNCHANGED <<arrived, failed, left>>

\* The answer is written; the next request starts afresh.
Forget(q) ==
  /\ q \notin open /\ verdict[q] # None
  /\ arrived' = [arrived EXCEPT ![q] = {}]
  /\ failed' = [failed EXCEPT ![q] = [c \in Mandatory |-> None]]
  /\ left' = [left EXCEPT ![q] = FALSE]
  /\ verdict' = [verdict EXCEPT ![q] = None]
  /\ UNCHANGED open

Next ==
  \E q \in Requests :
    \/ Open(q) \/ Leave(q) \/ Close(q) \/ Forget(q)
    \/ \E c \in Parts : Arrived(q, c)
    \/ \E c \in Mandatory, e \in Failures : Fails(q, c, e)

Spec == Init /\ [][Next]_vars

=============================================================================
