---------------------------- MODULE MCAggregate ----------------------------
(***************************************************************************)
(* Instances of module Aggregate for TLC: the feed of the cookbook, which  *)
(* needs a user and posts and has preferences as an optional third call.   *)
(***************************************************************************)
EXTENDS Aggregate, TLC

CONSTANTS
  q1,                  \* a request slot
  user, posts, prefs,  \* calls
  Reason, Domain, Violation,
  plain, unpopulated   \* marshal options

StatusError(code, details) ==
  [ok |-> FALSE, isStatus |-> TRUE, code |-> code, details |-> details]

ErrorInfo == [kind |-> "ErrorInfo", reason |-> Reason, domain |-> Domain,
              metadata |-> None, violations |-> {}]

NotFound    == StatusError("NotFound", <<ErrorInfo>>)
Unavailable == StatusError("Unavailable", <<>>)
NoStatus    == [ok |-> FALSE, isStatus |-> FALSE, code |-> "Unknown", details |-> <<>>]

AnyFailure  == {NotFound, Unavailable, NoStatus}
MCCanceled  == StatusError("Canceled", <<>>)

OneTable    == "vocab" :> (Reason :> [status |-> 409, declared |-> TRUE])
RFCFallback == "vocab" :> "rfc7807"

AnyResult == [ok : {TRUE}, marshals : BOOLEAN, encodes : BOOLEAN]

AnySettings   == [errorMapper : {"rfc7807", "vocab"}, marshal : {plain, unpopulated}]

=============================================================================
