-------------------------- MODULE Aggregate_proofs --------------------------
(***************************************************************************)
(* Theorems about module Aggregate, for every set of calls, mandatory and  *)
(* optional, every kind of failure and every interleaving.                 *)
(***************************************************************************)
EXTENDS Aggregate, Responses_proofs

-----------------------------------------------------------------------------
(* The inductive invariant.  Before the group has joined nothing has been  *)
(* returned; an error waits in a closure or in the group; and a call that  *)
(* is over without an error in the group has left its result.              *)

Errors == Failures \cup {Canceled}

GroupTypes ==
  /\ pc \in [Requests -> Active \cup Settled \cup {"idle"}]
  /\ call \in [Requests -> [Calls -> {"none", "running", "failing", "done"}]]
  /\ err \in [Requests -> [Calls -> Errors \cup {None}]]
  /\ dest \in [Requests -> SUBSET Calls]
  /\ groupErr \in [Requests -> Errors \cup {None}]
  /\ body \in [Requests -> Returned \cup {None}]
  /\ gone \in [Requests -> BOOLEAN]

\* Where the handler is, its goroutines are.
InStep(q) ==
  /\ pc[q] = "idle" => /\ dest[q] = {} /\ groupErr[q] = None
                       /\ \A c \in Calls : call[q][c] = "none"
  /\ pc[q] \in {"idle", "waiting"} => body[q] = None
  /\ pc[q] \notin {"idle", "waiting"} => Joined(q)

\* A cancellation has a cause outside of the call it ends, and the first
\* error of the group is no consequence of another.
Caused(q) ==
  /\ \A c \in Calls : call[q][c] = "failing" =>
       /\ err[q][c] \in Errors
       /\ err[q][c] = Canceled => gone[q] \/ groupErr[q] # None
  /\ groupErr[q] = Canceled => gone[q]

\* Results are only missing from a group that has failed.
Gathered(q) ==
  \A c \in Mandatory : call[q][c] = "done" /\ groupErr[q] = None => c \in dest[q]

\* What fn returned.
Honest(q) ==
  body[q] # None =>
    IF body[q].ok THEN Mandatory \subseteq body[q].of
                  ELSE body[q].err \in Failures \/ gone[q]

Sound(q) == InStep(q) /\ Caused(q) /\ Gathered(q) /\ Honest(q)

GInv == GroupTypes /\ \A q \in Requests : Sound(q)

\* The program starts in the invariant.
LEMMA InitGInv == Init => GInv
<1> SUFFICES ASSUME Init PROVE GInv
  OBVIOUS
<1>1. GroupTypes
  BY DEF Init, GroupTypes, Errors
<1>2. \A q \in Requests : Sound(q)
  BY AggregateAssumption DEF Init, Sound, InStep, Caused, Gathered, Honest, Mandatory, Joined
<1> QED BY <1>1, <1>2 DEF GInv

\* A step that leaves the handler and the group of a request alone.
LEMMA SoundUnchanged ==
  ASSUME NEW q \in Requests, Sound(q),
         pc'[q] = pc[q], call'[q] = call[q], err'[q] = err[q], dest'[q] = dest[q],
         groupErr'[q] = groupErr[q], body'[q] = body[q], gone'[q] = gone[q]
  PROVE  Sound(q)'
BY DEF Sound, InStep, Caused, Gathered, Honest, Joined

\* A call of the group returns, or hands its error to it.
LEMMA CallGInv ==
  ASSUME GInv, NEW q \in Requests, NEW c \in Calls,
         \/ Succeed(q, c)
         \/ \E o \in Failures \cup {Canceled} : Fail(q, c, o)
         \/ Record(q, c)
  PROVE  GInv'
<1>1. Sound(q) /\ GroupTypes
  BY DEF GInv
<1>2. call[q] \in [Calls -> {"none", "running", "failing", "done"}]
      /\ err[q] \in [Calls -> Errors \cup {None}] /\ dest[q] \subseteq Calls
  BY <1>1 DEF GroupTypes
<1>3. call[q][c] \in {"running", "failing"}
  BY DEF Succeed, Fail, Record
<1>4. pc[q] = "waiting" /\ body[q] = None
  BY <1>1, <1>3 DEF Sound, InStep, Joined
<1>5. ASSUME GroupTypes', Sound(q)', UNCHANGED <<pc, body, gone>>,
             \A r \in Requests \ {q} : /\ call'[r] = call[r] /\ err'[r] = err[r]
                                       /\ dest'[r] = dest[r] /\ groupErr'[r] = groupErr[r]
      PROVE  GInv'
  <2>1. ASSUME NEW r \in Requests, r # q PROVE Sound(r)'
    BY <1>5, <2>1, SoundUnchanged DEF GInv
  <2> QED BY <1>5, <2>1 DEF GInv
<1>6. CASE Succeed(q, c)
  <2>1. /\ call' = [call EXCEPT ![q] = [call[q] EXCEPT ![c] = "done"]]
        /\ dest' = [dest EXCEPT ![q] = dest[q] \cup {c}]
        /\ UNCHANGED <<pc, err, groupErr, body, gone>>
    BY <1>6 DEF Succeed, CallGoto
  <2>2. GroupTypes'
    <3>1. [call[q] EXCEPT ![c] = "done"] \in [Calls -> {"none", "running", "failing", "done"}]
      BY <1>2
    <3> QED BY <1>1, <2>1, <3>1 DEF GroupTypes
  <2>3. call'[q] = [call[q] EXCEPT ![c] = "done"] /\ dest'[q] = dest[q] \cup {c}
    BY <1>1, <2>1 DEF GroupTypes
  <2>4. Sound(q)'
    BY <1>1, <1>2, <1>4, <2>1, <2>3 DEF Sound, InStep, Caused, Gathered, Honest, Mandatory
  <2> QED BY <1>1, <1>5, <2>1, <2>2, <2>4 DEF GroupTypes
<1>7. ASSUME NEW o \in Failures \cup {Canceled}, Fail(q, c, o) PROVE GInv'
  <2>1. UNCHANGED <<pc, dest, groupErr, body, gone>>
    BY <1>7 DEF Fail
  <2>2. CASE c \in Optional
    <3>1. call' = [call EXCEPT ![q] = [call[q] EXCEPT ![c] = "done"]] /\ err' = err
      BY <1>7, <2>2 DEF Fail, CallGoto
    <3>2. GroupTypes'
      <4>1. [call[q] EXCEPT ![c] = "done"] \in [Calls -> {"none", "running", "failing", "done"}]
        BY <1>2
      <4> QED BY <1>1, <2>1, <3>1, <4>1 DEF GroupTypes
    <3>3. call'[q] = [call[q] EXCEPT ![c] = "done"]
      BY <1>1, <3>1 DEF GroupTypes
    <3>4. Sound(q)'
      BY <1>1, <1>2, <1>4, <2>1, <2>2, <3>1, <3>3
         DEF Sound, InStep, Caused, Gathered, Honest, Mandatory
    <3> QED BY <1>1, <1>5, <2>1, <3>1, <3>2, <3>4 DEF GroupTypes
  <2>3. CASE c \notin Optional
    <3>1. /\ call' = [call EXCEPT ![q] = [call[q] EXCEPT ![c] = "failing"]]
          /\ err' = [err EXCEPT ![q] = [err[q] EXCEPT ![c] = o]]
      BY <1>7, <2>3 DEF Fail, CallGoto
    <3>2. GroupTypes'
      <4>1. /\ [call[q] EXCEPT ![c] = "failing"] \in [Calls -> {"none", "running", "failing", "done"}]
            /\ [err[q] EXCEPT ![c] = o] \in [Calls -> Errors \cup {None}]
        BY <1>2 DEF Errors
      <4> QED BY <1>1, <2>1, <3>1, <4>1 DEF GroupTypes
    <3>3. call'[q] = [call[q] EXCEPT ![c] = "failing"] /\ err'[q] = [err[q] EXCEPT ![c] = o]
      BY <1>1, <3>1 DEF GroupTypes
    <3>4. o \in Errors /\ (o = Canceled => gone[q] \/ groupErr[q] # None)
      BY <1>7, AggregateAssumption DEF Fail, gctxDone, Errors
    <3>5. Caused(q)'
      BY <1>1, <1>2, <2>1, <3>3, <3>4 DEF Sound, Caused
    <3>6. InStep(q)' /\ Gathered(q)' /\ Honest(q)'
      BY <1>1, <1>2, <1>4, <2>1, <3>3 DEF Sound, InStep, Gathered, Honest, Mandatory
    <3> QED BY <1>1, <1>5, <2>1, <3>1, <3>2, <3>5, <3>6 DEF GroupTypes, Sound
  <2> QED BY <2>2, <2>3
<1>8. CASE Record(q, c)
  <2> DEFINE first == IF groupErr[q] = None THEN err[q][c] ELSE groupErr[q]
  <2>1. /\ call' = [call EXCEPT ![q] = [call[q] EXCEPT ![c] = "done"]]
        /\ groupErr' = [groupErr EXCEPT ![q] = first]
        /\ UNCHANGED <<pc, err, dest, body, gone>>
    BY <1>8 DEF Record, CallGoto
  <2>2. err[q][c] \in Errors /\ (err[q][c] = Canceled => gone[q] \/ groupErr[q] # None)
    BY <1>1, <1>8 DEF Record, Sound, Caused
  <2>3. first \in Errors /\ first # None /\ (first = Canceled => gone[q])
    <3>1. groupErr[q] \in Errors \cup {None} /\ (groupErr[q] = Canceled => gone[q])
      BY <1>1 DEF GroupTypes, Sound, Caused
    <3>2. None \notin Errors
      BY AggregateAssumption DEF Errors
    <3> QED BY <2>2, <3>1, <3>2
  <2> HIDE DEF first
  <2>4. GroupTypes'
    <3>1. [call[q] EXCEPT ![c] = "done"] \in [Calls -> {"none", "running", "failing", "done"}]
      BY <1>2
    <3> QED BY <1>1, <2>1, <2>3, <3>1 DEF GroupTypes
  <2>5. call'[q] = [call[q] EXCEPT ![c] = "done"] /\ groupErr'[q] = first
    BY <1>1, <2>1 DEF GroupTypes
  <2>6. Caused(q)'
    BY <1>1, <1>2, <2>1, <2>3, <2>5 DEF Sound, Caused
  <2>7. InStep(q)' /\ Gathered(q)' /\ Honest(q)'
    BY <1>1, <1>2, <1>4, <2>1, <2>3, <2>5 DEF Sound, InStep, Gathered, Honest
  <2> QED BY <1>1, <1>5, <2>1, <2>4, <2>6, <2>7 DEF GroupTypes, Sound
<1> QED BY <1>6, <1>7, <1>8

\* fn starts, or returns what the joined group has left.
LEMMA FnGInv ==
  ASSUME GInv, NEW q \in Requests, Arrive(q) \/ Wait(q)
  PROVE  GInv'
<1>1. Sound(q) /\ GroupTypes
  BY DEF GInv
<1>2. ASSUME GroupTypes', Sound(q)', UNCHANGED <<err, dest, groupErr, gone>>,
             \A r \in Requests \ {q} : pc'[r] = pc[r] /\ call'[r] = call[r] /\ body'[r] = body[r]
      PROVE  GInv'
  <2>1. ASSUME NEW r \in Requests, r # q PROVE Sound(r)'
    BY <1>2, <2>1, SoundUnchanged DEF GInv
  <2> QED BY <1>2, <2>1 DEF GInv
<1>3. CASE Arrive(q)
  <2>1. /\ pc[q] = "idle"
        /\ pc' = [pc EXCEPT ![q] = "waiting"]
        /\ call' = [call EXCEPT ![q] = [c \in Calls |-> "running"]]
        /\ UNCHANGED <<err, dest, groupErr, body, gone>>
    BY <1>3 DEF Arrive, Goto
  <2>2. GroupTypes'
    BY <1>1, <2>1 DEF GroupTypes, Active
  <2>3. pc'[q] = "waiting" /\ call'[q] = [c \in Calls |-> "running"]
    BY <1>1, <2>1 DEF GroupTypes
  <2>4. groupErr[q] = None /\ body[q] = None
    BY <1>1, <2>1 DEF Sound, InStep
  <2>5. Sound(q)'
    BY <2>1, <2>3, <2>4, AggregateAssumption
       DEF Sound, InStep, Caused, Gathered, Honest, Mandatory
  <2> QED BY <1>1, <1>2, <2>1, <2>2, <2>5 DEF GroupTypes
<1>4. CASE Wait(q)
  <2>1. Joined(q) /\ pc[q] = "waiting" /\ UNCHANGED <<call, err, dest, groupErr, gone>>
    BY <1>4 DEF Wait, group
  <2>2. CASE groupErr[q] # None
    <3> DEFINE ret == [ok |-> FALSE, err |-> groupErr[q]]
    <3>1. body' = [body EXCEPT ![q] = ret] /\ pc' = [pc EXCEPT ![q] = "mapping"]
      BY <1>4, <2>2 DEF Wait, Goto
    <3>2. groupErr[q] \in Errors /\ (groupErr[q] \in Failures \/ gone[q])
      BY <1>1, <2>2 DEF GroupTypes, Sound, Caused, Errors
    <3>3. ret \in Returned
      BY <3>2 DEF Returned, Errors
    <3>4. GroupTypes'
      BY <1>1, <2>1, <3>1, <3>3 DEF GroupTypes, Active
    <3>5. body'[q] = ret /\ pc'[q] = "mapping"
      BY <1>1, <3>1 DEF GroupTypes
    <3>6. Honest(q)'
      BY <2>1, <3>2, <3>5 DEF Honest
    <3>7. InStep(q)' /\ Caused(q)' /\ Gathered(q)'
      BY <1>1, <2>1, <3>5 DEF Sound, InStep, Caused, Gathered, Joined
    <3> QED BY <1>1, <1>2, <2>1, <3>1, <3>4, <3>6, <3>7 DEF GroupTypes, Sound
  <2>3. CASE groupErr[q] = None
    <3>1. PICK value \in Results :
            body' = [body EXCEPT ![q] = [ok |-> TRUE, value |-> value, of |-> dest[q]]]
      BY <1>4, <2>3 DEF Wait
    <3> DEFINE ret == [ok |-> TRUE, value |-> value, of |-> dest[q]]
    <3>2. pc' = [pc EXCEPT ![q] = "responding"]
      BY <1>4, <2>3 DEF Wait, Goto
    <3>3. ret \in Returned
      BY <1>1 DEF Returned, GroupTypes
    <3>4. GroupTypes'
      BY <1>1, <2>1, <3>1, <3>2, <3>3 DEF GroupTypes, Active
    <3>5. body'[q] = ret /\ pc'[q] = "responding"
      BY <1>1, <3>1, <3>2 DEF GroupTypes
    <3>6. Mandatory \subseteq dest[q]
      BY <1>1, <2>1, <2>3 DEF Sound, Gathered, Joined, Mandatory
    <3>7. Honest(q)'
      BY <3>5, <3>6 DEF Honest
    <3>8. InStep(q)' /\ Caused(q)' /\ Gathered(q)'
      BY <1>1, <2>1, <3>5 DEF Sound, InStep, Caused, Gathered, Joined
    <3> QED BY <1>1, <1>2, <2>1, <3>1, <3>2, <3>4, <3>7, <3>8 DEF GroupTypes, Sound
  <2> QED BY <2>2, <2>3
<1> QED BY <1>3, <1>4

\* What follows fn leaves the group alone; Finish clears the slot.
LEMMA AfterGInv ==
  ASSUME GInv, NEW q \in Requests,
         Descend(q) \/ WriteError(q) \/ WriteSuccess(q) \/ Disconnect(q) \/ Finish(q)
  PROVE  GInv'
<1>1. Sound(q) /\ GroupTypes
  BY DEF GInv
<1>2. ASSUME UNCHANGED <<call, err, dest, groupErr, body, gone>>,
             \/ UNCHANGED pc
             \/ /\ pc[q] \in {"mapping", "responding"}
                /\ \E label \in Settled : pc' = [pc EXCEPT ![q] = label]
      PROVE  GInv'
  <2>1. GroupTypes'
    BY <1>1, <1>2 DEF GroupTypes
  <2>2. ASSUME NEW r \in Requests PROVE Sound(r)'
    BY <1>2, <2>2 DEF GInv, GroupTypes, Sound, InStep, Caused, Gathered, Honest, Joined, Settled
  <2> QED BY <2>1, <2>2 DEF GInv
<1>3. CASE Descend(q)
  BY <1>2, <1>3 DEF Descend, group
<1>4. CASE WriteError(q)
  BY <1>2, <1>4 DEF WriteError, Write, Goto, Settled, group
<1>5. CASE WriteSuccess(q)
  BY <1>2, <1>5 DEF WriteSuccess, Write, Goto, Settled, group
<1>6. CASE Disconnect(q)
  <2>1. gone' = [gone EXCEPT ![q] = TRUE] /\ UNCHANGED <<pc, call, err, dest, groupErr, body>>
    BY <1>6 DEF Disconnect, group
  <2>2. GroupTypes'
    BY <1>1, <2>1 DEF GroupTypes
  <2>3. ASSUME NEW r \in Requests PROVE Sound(r)'
    <3>1. gone[r] => gone'[r]
      BY <2>1, <1>1 DEF GroupTypes
    <3> QED BY <2>1, <3>1 DEF GInv, Sound, InStep, Caused, Gathered, Honest, Joined
  <2> QED BY <2>2, <2>3 DEF GInv
<1>7. CASE Finish(q)
  <2>1. /\ pc' = [pc EXCEPT ![q] = "idle"]
        /\ call' = [call EXCEPT ![q] = [c \in Calls |-> "none"]]
        /\ err' = [err EXCEPT ![q] = [c \in Calls |-> None]]
        /\ dest' = [dest EXCEPT ![q] = {}]
        /\ groupErr' = [groupErr EXCEPT ![q] = None]
        /\ body' = [body EXCEPT ![q] = None]
        /\ gone' = [gone EXCEPT ![q] = FALSE]
    BY <1>7 DEF Finish, Goto
  <2>2. GroupTypes'
    BY <1>1, <2>1 DEF GroupTypes
  <2>3. Sound(q)'
    <3>1. /\ pc'[q] = "idle" /\ call'[q] = [c \in Calls |-> "none"] /\ dest'[q] = {}
          /\ groupErr'[q] = None /\ body'[q] = None
      BY <1>1, <2>1 DEF GroupTypes
    <3> QED BY <3>1, AggregateAssumption
            DEF Sound, InStep, Caused, Gathered, Honest, Mandatory
  <2>4. ASSUME NEW r \in Requests, r # q PROVE Sound(r)'
    <3>1. Sound(r)
      BY DEF GInv
    <3> QED BY <1>1, <2>1, <2>4, <3>1, SoundUnchanged DEF GroupTypes
  <2> QED BY <2>2, <2>3, <2>4 DEF GInv
<1> QED BY <1>3, <1>4, <1>5, <1>6, <1>7

\* Every step keeps the invariant.
LEMMA NextGInv == GInv /\ [Next]_vars => GInv'
<1> SUFFICES ASSUME GInv, [Next]_vars PROVE GInv'
  OBVIOUS
<1>1. ASSUME UNCHANGED <<pc, call, err, dest, groupErr, body, gone>> PROVE GInv'
  <2>1. GroupTypes'
    BY <1>1 DEF GInv, GroupTypes
  <2>2. ASSUME NEW q \in Requests PROVE Sound(q)'
    BY <1>1, SoundUnchanged DEF GInv
  <2> QED BY <2>1, <2>2 DEF GInv
<1>2. CASE Boot
  BY <1>1, <1>2 DEF Boot, OnSuccess, WithErrorMapper, WithMarshalOptions, Serve, Booting, group
<1>3. CASE UNCHANGED vars
  BY <1>1, <1>3 DEF vars
<1>4. ASSUME NEW q \in Requests, NEW c \in Calls,
             \/ Succeed(q, c)
             \/ \E o \in Failures \cup {Canceled} : Fail(q, c, o)
             \/ Record(q, c)
      PROVE  GInv'
  BY <1>4, CallGInv
<1>5. ASSUME NEW q \in Requests, Arrive(q) \/ Handler(q) \/ Disconnect(q) \/ Finish(q)
      PROVE  GInv'
  BY <1>5, FnGInv, AfterGInv DEF Handler
<1> QED BY <1>2, <1>3, <1>4, <1>5 DEF Next

\* The inductive invariant is an invariant of the specification.
LEMMA GInvHolds == Spec => []GInv
BY InitGInv, NextGInv, PTL DEF Spec

\* For any number of concurrent calls: a value that the handler returns has
\* the result of every mandatory one.
THEOREM NeverPartial == Spec => []NothingMissing
<1>1. GInv => NothingMissing
  BY DEF GInv, Sound, Honest, NothingMissing
<1> QED BY <1>1, GInvHolds, PTL

\* For any number of concurrent calls and any order in which they fail: the
\* error that the handler returns is a failure of its own, or the client left.
THEOREM BlamesTheCause == Spec => []NoCollateral
<1>1. GInv => NoCollateral
  BY DEF GInv, Sound, Honest, NoCollateral
<1> QED BY <1>1, GInvHolds, PTL

\* No goroutine of the group outlives the handler that started it.
THEOREM NoGoroutineLeft == Spec => []NoneLeft
<1>1. GInv => NoneLeft
  BY DEF GInv, Sound, InStep, Joined, NoneLeft
<1> QED BY <1>1, GInvHolds, PTL

-----------------------------------------------------------------------------
(* Types.  GroupTypes covers the group; the rest of TypeOK needs to know   *)
(* what a handler at work has in its hands.                                *)

\* A handler that maps an error has one, and a mapper; one that responds has
\* a value.
AtWork(q) ==
  /\ pc[q] = "mapping" => body[q] \in [ok : {FALSE}, err : Errors] /\ mapper[q] \in Mappers
  /\ pc[q] = "responding" => body[q] \in [ok : {TRUE}, value : Results, of : SUBSET Calls]

WriterTypes ==
  /\ phase \in {"boot", "serving"}
  /\ defaults \in Settings
  /\ route \in RouteFields
  /\ mapper \in [Requests -> Mappers \cup {"nil"}]
  /\ response \in [Requests -> HTTPResponse \cup {None}]

TInv == WriterTypes /\ \A q \in Requests : AtWork(q)

\* The program starts in the invariant.
LEMMA InitTInv == Init => TInv
<1> SUFFICES ASSUME Init PROVE TInv
  OBVIOUS
<1>1. WriterTypes
  BY DEF Init, WriterTypes, RouteFields
<1>2. \A q \in Requests : AtWork(q)
  BY DEF Init, AtWork
<1> QED BY <1>1, <1>2 DEF TInv

\* A step that leaves what a handler at work holds alone, or takes it out of
\* work, keeps the invariant.
LEMMA TInvUnchanged ==
  ASSUME TInv, WriterTypes',
         \A q \in Requests : \/ pc'[q] \notin {"mapping", "responding"}
                             \/ pc'[q] = pc[q] /\ body'[q] = body[q] /\ mapper'[q] = mapper[q]
  PROVE  TInv'
BY DEF TInv, AtWork

\* The options of the aggregate take values of their types.
LEMMA BootTInv ==
  ASSUME TInv, Boot
  PROVE  TInv'
<1>1. WriterTypes
  BY DEF TInv
<1>2. ASSUME Booting, route' \in RouteFields PROVE TInv'
  <2>1. UNCHANGED <<phase, defaults, pc, body, mapper, response>>
    BY <1>2 DEF Booting
  <2>2. WriterTypes'
    BY <1>1, <1>2, <2>1 DEF WriterTypes
  <2> QED BY <2>1, <2>2, TInvUnchanged
<1>3. route \in RouteFields
  BY <1>1 DEF WriterTypes
<1>4. ASSUME NEW status \in StatusChoices, OnSuccess(status) PROVE TInv'
  <2>1. status \in Int
    BY AggregateAssumption
  <2>2. [route EXCEPT !.successStatus = status] \in RouteFields
    BY <1>3, <2>1 DEF RouteFields
  <2> QED BY <1>2, <1>4, <2>2 DEF OnSuccess
<1>5. ASSUME NEW fn \in MapperChoices, WithErrorMapper(fn) PROVE TInv'
  <2>1. fn \in Mappers \cup {"nil"}
    BY AggregateAssumption
  <2>2. [route EXCEPT !.errorMapper = fn] \in RouteFields
    BY <1>3, <2>1 DEF RouteFields
  <2> QED BY <1>2, <1>5, <2>2 DEF WithErrorMapper
<1>6. ASSUME NEW o \in OptionChoices, WithMarshalOptions(o) PROVE TInv'
  <2>1. o \in Options \cup {None}
    BY AggregateAssumption
  <2>2. [route EXCEPT !.marshal = o] \in RouteFields
    BY <1>3, <2>1 DEF RouteFields
  <2> QED BY <1>2, <1>6, <2>2 DEF WithMarshalOptions
<1>7. CASE Serve
  <2>1. UNCHANGED <<defaults, route, pc, body, mapper, response>> /\ phase' = "serving"
    BY <1>7 DEF Serve
  <2>2. WriterTypes'
    BY <1>1, <2>1 DEF WriterTypes
  <2> QED BY <2>1, <2>2, TInvUnchanged
<1> QED BY <1>4, <1>5, <1>6, <1>7 DEF Boot

\* A response that net/http lets through is one.
LEMMA WriteTInv ==
  ASSUME TInv, GroupTypes, NEW q \in Requests, NEW resp \in Draft, Write(q, resp),
         UNCHANGED <<config, body, mapper>>
  PROVE  TInv'
<1>1. response' \in [Requests -> HTTPResponse \cup {None}]
  <2>1. response \in [Requests -> HTTPResponse \cup {None}]
    BY DEF TInv, WriterTypes
  <2>2. CASE ValidStatus(resp.status)
    <3>1. OnWire(resp) \in HTTPResponse
      BY <2>2, OnWireType
    <3>2. response' = [response EXCEPT ![q] = OnWire(resp)]
      BY <2>2 DEF Write
    <3> QED BY <2>1, <3>1, <3>2
  <2>3. CASE ~ValidStatus(resp.status)
    BY <2>1, <2>3 DEF Write
  <2> QED BY <2>2, <2>3
<1>2. \A p \in Requests : \/ pc'[p] \notin {"mapping", "responding"}
                          \/ pc'[p] = pc[p]
  BY DEF Write, Goto, GroupTypes
<1>3. WriterTypes'
  BY <1>1 DEF TInv, WriterTypes, config
<1> QED BY <1>2, <1>3, TInvUnchanged

\* The steps of the handler after the group.
LEMMA HandlerTInv ==
  ASSUME TInv, GroupTypes, NEW q \in Requests, Handler(q)
  PROVE  TInv'
<1>1. WriterTypes /\ AtWork(q)
  BY DEF TInv
<1>2. CASE Wait(q)
  <2>1. route.errorMapper \in Mappers \cup {"nil"} /\ "DefaultErrorMapper" \in Mappers
    BY <1>1 DEF WriterTypes, RouteFields, Mappers
  <2>2. mapper \in [Requests -> Mappers \cup {"nil"}] /\ UNCHANGED <<phase, defaults, route, response>>
    BY <1>1, <1>2 DEF Wait, WriterTypes, config
  <2>3. CASE groupErr[q] # None
    <3> DEFINE m == IF route.errorMapper = "nil" THEN "DefaultErrorMapper" ELSE route.errorMapper
    <3>1. /\ body' = [body EXCEPT ![q] = [ok |-> FALSE, err |-> groupErr[q]]]
          /\ mapper' = [mapper EXCEPT ![q] = m] /\ pc' = [pc EXCEPT ![q] = "mapping"]
      BY <1>2, <2>3 DEF Wait, Goto
    <3>2. m \in Mappers /\ groupErr[q] \in Errors
      BY <2>1, <2>3 DEF GroupTypes
    <3> HIDE DEF m
    <3>3. body'[q] = [ok |-> FALSE, err |-> groupErr[q]] /\ mapper'[q] = m /\ pc'[q] = "mapping"
      BY <2>2, <3>1 DEF GroupTypes
    <3>4. AtWork(q)'
      BY <3>2, <3>3 DEF AtWork
    <3>5. WriterTypes'
      BY <1>1, <2>2, <3>1, <3>2 DEF WriterTypes
    <3>6. \A p \in Requests \ {q} : pc'[p] = pc[p] /\ body'[p] = body[p] /\ mapper'[p] = mapper[p]
      BY <2>2, <3>1 DEF GroupTypes
    <3>7. \A p \in Requests \ {q} : AtWork(p)'
      BY <3>6 DEF TInv, AtWork
    <3> QED BY <3>4, <3>5, <3>7 DEF TInv
  <2>4. CASE groupErr[q] = None
    <3>1. PICK value \in Results :
            body' = [body EXCEPT ![q] = [ok |-> TRUE, value |-> value, of |-> dest[q]]]
      BY <1>2, <2>4 DEF Wait
    <3>2. pc' = [pc EXCEPT ![q] = "responding"] /\ UNCHANGED mapper
      BY <1>2, <2>4 DEF Wait, Goto
    <3>3. /\ body'[q] = [ok |-> TRUE, value |-> value, of |-> dest[q]] /\ pc'[q] = "responding"
          /\ dest[q] \in SUBSET Calls
      BY <3>1, <3>2 DEF GroupTypes
    <3>4. AtWork(q)'
      BY <3>3 DEF AtWork
    <3>5. WriterTypes'
      BY <1>1, <2>2, <3>2 DEF WriterTypes
    <3>6. \A p \in Requests \ {q} : pc'[p] = pc[p] /\ body'[p] = body[p] /\ mapper'[p] = mapper[p]
      BY <3>1, <3>2 DEF GroupTypes
    <3>7. \A p \in Requests \ {q} : AtWork(p)'
      BY <3>6 DEF TInv, AtWork
    <3> QED BY <3>4, <3>5, <3>7 DEF TInv
  <2> QED BY <2>3, <2>4
<1>3. CASE Descend(q)
  <2>1. mapper[q] \in Mappers /\ defaults.errorMapper \in Mappers
    BY <1>1, <1>3, AggregateAssumption DEF Descend, AtWork, WriterTypes
  <2> DEFINE m == Delegate(mapper[q], body[q].err, defaults.errorMapper)
  <2>2. m \in Mappers
    BY <2>1, DelegateType
  <2>3. /\ mapper' = [mapper EXCEPT ![q] = m]
        /\ UNCHANGED <<phase, defaults, route, pc, body, response>>
    BY <1>3 DEF Descend, config
  <2> HIDE DEF m
  <2>4. WriterTypes' /\ mapper'[q] = m /\ \A p \in Requests \ {q} : mapper'[p] = mapper[p]
    BY <1>1, <2>2, <2>3 DEF WriterTypes
  <2>5. \A p \in Requests : AtWork(p)'
    BY <2>2, <2>3, <2>4 DEF TInv, AtWork
  <2> QED BY <2>4, <2>5 DEF TInv
<1>4. CASE WriteError(q)
  <2>1. body[q].err \in Failure /\ mapper[q] \in Mappers /\ Answers(mapper[q], body[q].err)
    BY <1>1, <1>4, AggregateAssumption DEF WriteError, AtWork, Errors
  <2>2. writeError(Mapped(mapper[q], body[q].err)) \in Draft
    BY <2>1, MappedType, writeErrorType
  <2> QED BY <1>4, <2>2, WriteTInv DEF WriteError
<1>5. CASE WriteSuccess(q)
  <2>1. body[q].value \in Success
    BY <1>1, <1>5, AggregateAssumption DEF WriteSuccess, AtWork
  <2>2. body[q].value.marshals \in BOOLEAN /\ body[q].value.encodes \in BOOLEAN
    BY <2>1 DEF Success
  <2>3. route.successStatus \in Int /\ route.marshal \in Options \cup {None} /\ defaults.marshal \in Options
    BY <1>1, AggregateAssumption DEF WriterTypes, RouteFields
  <2>4. marshalOptions \in Options
    BY <2>3 DEF marshalOptions
  <2>5. writeResponse(route.successStatus, body[q].value.marshals, body[q].value.encodes, marshalOptions) \in Draft
    BY <2>2, <2>3, <2>4, writeResponseType
  <2> QED BY <1>5, <2>5, WriteTInv DEF WriteSuccess
<1> QED BY <1>2, <1>3, <1>4, <1>5 DEF Handler

\* Every step keeps the types.
LEMMA NextTInv == GInv /\ TInv /\ [Next]_vars => TInv'
<1> SUFFICES ASSUME GInv, TInv, [Next]_vars PROVE TInv'
  OBVIOUS
<1>1. WriterTypes /\ GroupTypes
  BY DEF GInv, TInv
<1>2. CASE Boot
  BY <1>2, BootTInv
<1>3. ASSUME UNCHANGED <<config, body, mapper, response>>, pc' = pc PROVE TInv'
  <2>1. WriterTypes'
    BY <1>1, <1>3 DEF WriterTypes, config
  <2> QED BY <1>3, <2>1, TInvUnchanged
<1>4. ASSUME NEW q \in Requests, Arrive(q) PROVE TInv'
  <2>1. WriterTypes' /\ UNCHANGED <<body, mapper>>
    BY <1>1, <1>4 DEF Arrive, WriterTypes, config
  <2>2. \A p \in Requests : pc'[p] \notin {"mapping", "responding"} \/ pc'[p] = pc[p]
    BY <1>1, <1>4 DEF Arrive, Goto, GroupTypes
  <2> QED BY <2>1, <2>2, TInvUnchanged
<1>5. ASSUME NEW q \in Requests, NEW c \in Calls,
             \/ Succeed(q, c)
             \/ \E o \in Failures \cup {Canceled} : Fail(q, c, o)
             \/ Record(q, c)
      PROVE  TInv'
  BY <1>3, <1>5 DEF Succeed, Fail, Record
<1>6. ASSUME NEW q \in Requests, Handler(q) PROVE TInv'
  BY <1>1, <1>6, HandlerTInv
<1>7. ASSUME NEW q \in Requests, Disconnect(q) PROVE TInv'
  BY <1>3, <1>7 DEF Disconnect
<1>8. ASSUME NEW q \in Requests, Finish(q) PROVE TInv'
  <2>1. /\ pc' = [pc EXCEPT ![q] = "idle"] /\ body' = [body EXCEPT ![q] = None]
        /\ mapper' = [mapper EXCEPT ![q] = "nil"] /\ response' = [response EXCEPT ![q] = None]
        /\ UNCHANGED <<phase, defaults, route>>
    BY <1>8 DEF Finish, Goto, config
  <2>2. WriterTypes'
    BY <1>1, <2>1 DEF WriterTypes
  <2>3. \A p \in Requests : \/ pc'[p] \notin {"mapping", "responding"}
                            \/ pc'[p] = pc[p] /\ body'[p] = body[p] /\ mapper'[p] = mapper[p]
    BY <1>1, <2>1 DEF WriterTypes, GroupTypes
  <2> QED BY <2>2, <2>3, TInvUnchanged
<1>9. CASE UNCHANGED vars
  BY <1>3, <1>9 DEF vars, config
<1> QED BY <1>2, <1>4, <1>5, <1>6, <1>7, <1>8, <1>9 DEF Next

\* The types are an invariant of the specification.
LEMMA TInvHolds == Spec => []TInv
BY InitTInv, NextTInv, GInvHolds, PTL DEF Spec

\* Every reachable state of an aggregate is well typed: a handler that maps an
\* error has one, and what is written is a response net/http accepts.
THEOREM AggregateTypeCorrect == Spec => []TypeOK
<1>1. GInv /\ TInv => TypeOK
  BY DEF GInv, TInv, GroupTypes, WriterTypes, Errors, TypeOK
<1> QED BY <1>1, GInvHolds, TInvHolds, PTL

-----------------------------------------------------------------------------
(* The answer.  The options do not change under a request, and the end of  *)
(* the chain of mappers does not while a handler descends it.              *)

AnsweredSoFar(q) ==
  /\ phase = "boot" => pc[q] = "idle"
  /\ pc[q] \notin Settled => response[q] = None
  /\ pc[q] = "mapping" =>
       Ends(FirstMapper, body[q].err, defaults.errorMapper)
         = Ends(mapper[q], body[q].err, defaults.errorMapper)
  /\ pc[q] \in Settled =>
       IF ValidStatus(Answer(q).status)
       THEN pc[q] = "done" /\ response[q] = OnWire(Answer(q))
       ELSE pc[q] = "aborted" /\ response[q] = None

CInv == \A q \in Requests : AnsweredSoFar(q)

\* A step that leaves the answer of the slot q alone.
LEMMA AnswerUnchanged ==
  ASSUME CInv, NEW q \in Requests, UNCHANGED config,
         \/ UNCHANGED <<pc[q], body[q], mapper[q], response[q]>>
         \/ /\ pc'[q] \in {"idle", "waiting", "responding"} /\ response'[q] = None
            /\ phase # "boot"
  PROVE  AnsweredSoFar(q)'
<1>1. CASE UNCHANGED <<pc[q], body[q], mapper[q], response[q]>>
  <2>1. (Answer(q))' = Answer(q) /\ FirstMapper' = FirstMapper /\ UNCHANGED <<phase, defaults>>
    BY <1>1 DEF Answer, FirstMapper, config
  <2>2. AnsweredSoFar(q)
    BY DEF CInv
  <2> HIDE DEF Answer, FirstMapper
  <2> QED BY <1>1, <2>1, <2>2 DEF AnsweredSoFar
<1>2. CASE /\ pc'[q] \in {"idle", "waiting", "responding"} /\ response'[q] = None
           /\ phase # "boot"
  BY <1>2 DEF AnsweredSoFar, Settled, config
<1> QED BY <1>1, <1>2

\* What a writer of the handler writes is the answer.
LEMMA WriteAnswers ==
  ASSUME GroupTypes, WriterTypes, CInv, NEW q \in Requests, NEW resp, Write(q, resp),
         resp = Answer(q), pc[q] \in {"mapping", "responding"}, UNCHANGED <<config, body>>
  PROVE  AnsweredSoFar(q)'
<1>1. (Answer(q))' = Answer(q) /\ UNCHANGED phase
  BY DEF Answer, FirstMapper, config
<1>2. response[q] = None /\ phase # "boot"
  BY DEF Settled, CInv, AnsweredSoFar
<1>3. CASE ValidStatus(resp.status)
  <2>1. pc'[q] = "done" /\ response'[q] = OnWire(resp)
    BY <1>3 DEF Write, Goto, GroupTypes, WriterTypes
  <2> HIDE DEF Answer
  <2> QED BY <1>1, <1>2, <1>3, <2>1 DEF AnsweredSoFar, Settled
<1>4. CASE ~ValidStatus(resp.status)
  <2>1. pc'[q] = "aborted" /\ response'[q] = None
    BY <1>2, <1>4 DEF Write, Goto, GroupTypes, WriterTypes
  <2> HIDE DEF Answer
  <2> QED BY <1>1, <1>2, <1>4, <2>1 DEF AnsweredSoFar, Settled
<1> QED BY <1>3, <1>4

\* The handler of a slot.
LEMMA HandlerCInv ==
  ASSUME GroupTypes, TInv, CInv, NEW q \in Requests, Handler(q)
  PROVE  AnsweredSoFar(q)'
<1>1. UNCHANGED config /\ pc[q] \in Active /\ phase # "boot" /\ response[q] = None
  BY DEF Handler, Wait, Descend, WriteError, WriteSuccess, Active, Settled, CInv, AnsweredSoFar
<1>2. WriterTypes /\ AtWork(q)
  BY DEF TInv
<1>3. CASE Wait(q) /\ groupErr[q] = None
  <2>1. pc'[q] = "responding" /\ UNCHANGED response
    BY <1>3 DEF Wait, Goto, GroupTypes
  <2> QED BY <1>1, <2>1, AnswerUnchanged
<1>4. CASE Wait(q) /\ groupErr[q] # None
  <2> DEFINE d == "DefaultErrorMapper"
             e == groupErr[q]
  <2>1. /\ body'[q].err = e /\ pc'[q] = "mapping" /\ UNCHANGED response
        /\ mapper'[q] = IF route.errorMapper = "nil" THEN d ELSE route.errorMapper
    BY <1>2, <1>4 DEF Wait, Goto, GroupTypes, WriterTypes
  <2>2. FirstMapper' = FirstMapper /\ UNCHANGED <<phase, defaults>>
    BY <1>1 DEF FirstMapper, config
  <2>3. Ends(d, e, defaults.errorMapper) = Ends(defaults.errorMapper, e, defaults.errorMapper)
    <3>1. d = "DefaultErrorMapper" /\ d \in Mappers /\ d \notin Vocabs /\ ~Answers(d, e)
      BY ResponsesAssumption DEF Mappers, Answers
    <3> HIDE DEF d
    <3>2. Delegate(d, e, defaults.errorMapper) = defaults.errorMapper
      BY <3>1, Zenon DEF Delegate
    <3> QED BY <3>1, <3>2, DelegateEnds
  <2> HIDE DEF d, e
  <2>4. Ends(FirstMapper, e, defaults.errorMapper) = Ends(mapper'[q], e, defaults.errorMapper)
    BY <2>1, <2>3 DEF FirstMapper
  <2> HIDE DEF FirstMapper
  <2> QED BY <1>1, <2>1, <2>2, <2>4 DEF AnsweredSoFar, Settled
<1>5. CASE Descend(q)
  <2>1. /\ pc[q] = "mapping" /\ UNCHANGED <<pc, body, response>> /\ mapper[q] \in Mappers
        /\ ~Answers(mapper[q], body[q].err)
        /\ mapper'[q] = Delegate(mapper[q], body[q].err, defaults.errorMapper)
    BY <1>2, <1>5 DEF Descend, AtWork, WriterTypes
  <2>2. FirstMapper' = FirstMapper /\ UNCHANGED <<phase, defaults>>
    BY <1>1 DEF FirstMapper, config
  <2>3. Ends(FirstMapper, body[q].err, defaults.errorMapper)
          = Ends(mapper[q], body[q].err, defaults.errorMapper)
    BY <2>1 DEF CInv, AnsweredSoFar
  <2> HIDE DEF FirstMapper
  <2>4. Ends(FirstMapper, body[q].err, defaults.errorMapper)
          = Ends(mapper'[q], body[q].err, defaults.errorMapper)
    BY <2>1, <2>3, DelegateEnds
  <2> QED BY <1>1, <2>1, <2>2, <2>4 DEF AnsweredSoFar, Settled
<1>6. CASE WriteError(q)
  <2>1. /\ pc[q] = "mapping" /\ mapper[q] \in Mappers /\ Answers(mapper[q], body[q].err)
        /\ ~body[q].ok
    BY <1>2, <1>6 DEF WriteError, AtWork
  <2>2. InCharge(FirstMapper, body[q].err, defaults.errorMapper) = mapper[q]
    BY <2>1, InChargeOf DEF CInv, AnsweredSoFar
  <2>3. Answer(q) = writeError(Mapped(mapper[q], body[q].err))
    BY <2>1, <2>2 DEF Answer
  <2> QED BY <1>1, <1>2, <1>6, <2>1, <2>3, WriteAnswers DEF WriteError
<1>7. CASE WriteSuccess(q)
  <2>1. body[q].ok /\ pc[q] = "responding"
    BY <1>2, <1>7 DEF WriteSuccess, AtWork
  <2>2. Answer(q) = writeResponse(route.successStatus, body[q].value.marshals,
                                  body[q].value.encodes, marshalOptions)
    BY <2>1 DEF Answer, marshalOptions
  <2> QED BY <1>1, <1>2, <1>7, <2>1, <2>2, WriteAnswers DEF WriteSuccess
<1> QED BY <1>3, <1>4, <1>5, <1>6, <1>7 DEF Handler

\* Every action keeps it so.
LEMMA NextCInv ==
  ASSUME GroupTypes, TInv, CInv, [Next]_vars
  PROVE  CInv'
<1>1. SUFFICES ASSUME NEW q \in Requests PROVE AnsweredSoFar(q)'
  BY DEF CInv
<1>2. WriterTypes
  BY DEF TInv
<1>3. CASE Boot
  <2>1. phase = "boot" /\ UNCHANGED <<pc, response>>
    BY <1>3 DEF Boot, OnSuccess, WithErrorMapper, WithMarshalOptions, Serve, Booting
  <2> QED BY <2>1 DEF CInv, AnsweredSoFar, Settled
<1>4. ASSUME NEW p \in Requests, Arrive(p) PROVE AnsweredSoFar(q)'
  <2>1. UNCHANGED <<config, body, mapper, response>> /\ phase # "boot"
    BY <1>4 DEF Arrive
  <2>2. UNCHANGED pc[q] \/ (pc'[q] = "waiting" /\ response[q] = None)
    BY <1>4 DEF Arrive, Goto, GroupTypes, CInv, AnsweredSoFar, Settled
  <2> QED BY <2>1, <2>2, AnswerUnchanged
<1>5. ASSUME NEW p \in Requests, NEW c \in Calls,
             \/ Succeed(p, c)
             \/ \E o \in Failures \cup {Canceled} : Fail(p, c, o)
             \/ Record(p, c)
      PROVE  AnsweredSoFar(q)'
  BY <1>5, AnswerUnchanged DEF Succeed, Fail, Record
<1>6. ASSUME NEW p \in Requests, Handler(p) PROVE AnsweredSoFar(q)'
  <2>1. CASE q = p
    BY <1>6, <2>1, HandlerCInv
  <2>2. CASE q # p
    <3>1. UNCHANGED config
      BY <1>6 DEF Handler, Wait, Descend, WriteError, WriteSuccess
    <3>2. UNCHANGED <<pc[q], body[q], mapper[q], response[q]>>
      BY <1>2, <1>6, <2>2 DEF Handler, Wait, Descend, WriteError, WriteSuccess, Write, Goto,
                              GroupTypes, WriterTypes
    <3> QED BY <3>1, <3>2, AnswerUnchanged
  <2> QED BY <2>1, <2>2
<1>7. ASSUME NEW p \in Requests, Disconnect(p) PROVE AnsweredSoFar(q)'
  BY <1>7, AnswerUnchanged DEF Disconnect
<1>8. ASSUME NEW p \in Requests, Finish(p) PROVE AnsweredSoFar(q)'
  <2>1. UNCHANGED config /\ phase # "boot"
    BY <1>8 DEF Finish, CInv, AnsweredSoFar, Settled
  <2>2. \/ UNCHANGED <<pc[q], body[q], mapper[q], response[q]>>
        \/ pc'[q] = "idle" /\ response'[q] = None
    BY <1>2, <1>8 DEF Finish, Goto, GroupTypes, WriterTypes
  <2> QED BY <2>1, <2>2, AnswerUnchanged
<1>9. CASE UNCHANGED vars
  BY <1>9, AnswerUnchanged DEF vars, config
<1> QED BY <1>3, <1>4, <1>5, <1>6, <1>7, <1>8, <1>9 DEF Next

\* Whatever fn returned and however the aggregate and the package are
\* configured, the answer is the one of the mapper in charge, or the
\* configured success.
THEOREM AggregateAnswer == Spec => []AnsweredAsConfigured
<1>1. Init => CInv
  BY DEF Init, CInv, AnsweredSoFar, Settled
<1>2. GInv /\ TInv /\ CInv /\ [Next]_vars => CInv'
  BY NextCInv DEF GInv
<1>3. CInv => AnsweredAsConfigured
  BY DEF CInv, AnsweredSoFar, AnsweredAsConfigured
<1> QED BY <1>1, <1>2, <1>3, GInvHolds, TInvHolds, PTL DEF Spec

-----------------------------------------------------------------------------
(* The promise of module Feed.  The mapping of the steps needs to know     *)
(* that a running call has left nothing yet, and where the error of the    *)
(* group comes from.                                                       *)

Tracked(q) ==
  /\ \A c \in Calls : call[q][c] \in {"none", "running"} => err[q][c] = None /\ c \notin dest[q]
  /\ \A c \in Calls : call[q][c] = "failing" => c \in Mandatory
  /\ groupErr[q] \in Failures => \E c \in Mandatory : err[q][c] = groupErr[q]
  /\ pc[q] \notin {"idle", "waiting"} => body[q] # None

FInv == \A q \in Requests : Tracked(q)

\* The records fn returns, and the verdicts, are told from None.
LEMMA RecordsAreSomething ==
  /\ \A e \in Errors : [ok |-> FALSE, err |-> e] # None
  /\ \A v \in Results, s \in SUBSET Calls : [ok |-> TRUE, value |-> v, of |-> s] # None
  /\ \A s \in SUBSET Calls : [ok |-> TRUE, of |-> s] # None
<1>1. ASSUME NEW e \in Errors PROVE [ok |-> FALSE, err |-> e] # None
  <2>1. [ok |-> FALSE, err |-> e] \in [ok : {FALSE}, err : Failures \cup {Canceled}]
    BY DEF Errors
  <2> QED BY <2>1, AggregateAssumption
<1>2. ASSUME NEW v \in Results, NEW s \in SUBSET Calls
      PROVE  [ok |-> TRUE, value |-> v, of |-> s] # None
  <2>1. [ok |-> TRUE, value |-> v, of |-> s] \in [ok : {TRUE}, value : Results, of : SUBSET Calls]
    OBVIOUS
  <2> QED BY <2>1, AggregateAssumption
<1>3. ASSUME NEW s \in SUBSET Calls PROVE [ok |-> TRUE, of |-> s] # None
  <2>1. [ok |-> TRUE, of |-> s] \in [ok : {TRUE}, of : SUBSET Calls]
    OBVIOUS
  <2> QED BY <2>1, AggregateAssumption
<1> QED BY <1>1, <1>2, <1>3

\* A step that leaves the calls and what fn returned alone.
LEMMA TrackedUnchanged ==
  ASSUME FInv, NEW q \in Requests,
         UNCHANGED <<call[q], err[q], dest[q], groupErr[q], body[q]>>,
         pc'[q] \notin {"idle", "waiting"} => pc[q] \notin {"idle", "waiting"}
  PROVE  Tracked(q)'
BY DEF FInv, Tracked

\* A call of the group returns, or hands its error to it.
LEMMA CallTracked ==
  ASSUME GInv, FInv, NEW q \in Requests, NEW c \in Calls,
         \/ Succeed(q, c)
         \/ \E o \in Failures \cup {Canceled} : Fail(q, c, o)
         \/ Record(q, c)
  PROVE  Tracked(q)'
<1>1. /\ call \in [Requests -> [Calls -> {"none", "running", "failing", "done"}]]
      /\ err \in [Requests -> [Calls -> Errors \cup {None}]]
      /\ dest \in [Requests -> SUBSET Calls] /\ groupErr \in [Requests -> Errors \cup {None}]
      /\ Tracked(q)
  BY DEF GInv, GroupTypes, FInv
<1>2. UNCHANGED <<pc, body>>
  BY DEF Succeed, Fail, Record
<1>3. CASE Succeed(q, c)
  <2>1. /\ call'[q] = [call[q] EXCEPT ![c] = "done"] /\ dest'[q] = dest[q] \cup {c}
        /\ err'[q] = err[q] /\ groupErr'[q] = groupErr[q]
    BY <1>1, <1>3 DEF Succeed, CallGoto
  <2> QED BY <1>1, <1>2, <2>1 DEF Tracked
<1>4. ASSUME NEW o \in Failures \cup {Canceled}, Fail(q, c, o) PROVE Tracked(q)'
  <2>1. dest'[q] = dest[q] /\ groupErr'[q] = groupErr[q] /\ call[q][c] = "running"
    BY <1>4 DEF Fail
  <2>2. CASE c \in Optional
    <3>1. call'[q] = [call[q] EXCEPT ![c] = "done"] /\ err'[q] = err[q]
      BY <1>1, <1>4, <2>2 DEF Fail, CallGoto
    <3> QED BY <1>1, <1>2, <2>1, <3>1 DEF Tracked
  <2>3. CASE c \notin Optional
    <3>1. call'[q] = [call[q] EXCEPT ![c] = "failing"] /\ err'[q] = [err[q] EXCEPT ![c] = o]
      BY <1>1, <1>4, <2>3 DEF Fail, CallGoto
    <3>2. groupErr[q] \in Failures => \E k \in Mandatory : k # c /\ err[q][k] = groupErr[q]
      BY <1>1, <2>1, AggregateAssumption DEF Tracked
    <3>3. groupErr'[q] \in Failures => \E k \in Mandatory : err'[q][k] = groupErr'[q]
      BY <1>1, <2>1, <3>1, <3>2 DEF Mandatory
    <3>4. \A k \in Calls : /\ call'[q][k] \in {"none", "running"} =>
                                err'[q][k] = None /\ k \notin dest'[q]
                           /\ call'[q][k] = "failing" => k \in Mandatory
      BY <1>1, <2>1, <2>3, <3>1 DEF Tracked, Mandatory
    <3> QED BY <1>1, <1>2, <3>3, <3>4 DEF Tracked
  <2> QED BY <2>2, <2>3
<1>5. CASE Record(q, c)
  <2>1. /\ call'[q] = [call[q] EXCEPT ![c] = "done"] /\ dest'[q] = dest[q] /\ err'[q] = err[q]
        /\ groupErr'[q] = IF groupErr[q] = None THEN err[q][c] ELSE groupErr[q]
        /\ call[q][c] = "failing"
    BY <1>1, <1>5 DEF Record, CallGoto
  <2>2. c \in Mandatory
    BY <1>1, <2>1 DEF Tracked
  <2>3. groupErr'[q] \in Failures => \E k \in Mandatory : err'[q][k] = groupErr'[q]
    BY <1>1, <2>1, <2>2 DEF Tracked
  <2>4. \A k \in Calls : /\ call'[q][k] \in {"none", "running"} =>
                              err'[q][k] = None /\ k \notin dest'[q]
                         /\ call'[q][k] = "failing" => k \in Mandatory
    BY <1>1, <2>1 DEF Tracked
  <2> QED BY <1>1, <1>2, <2>3, <2>4 DEF Tracked
<1> QED BY <1>3, <1>4, <1>5

\* Every action keeps track.
LEMMA NextFInv ==
  ASSUME GInv, FInv, [Next]_vars
  PROVE  FInv'
<1>1. SUFFICES ASSUME NEW q \in Requests PROVE Tracked(q)'
  BY DEF FInv
<1>2. GroupTypes
  BY DEF GInv
<1>3. CASE Boot \/ UNCHANGED vars
  BY <1>3, TrackedUnchanged DEF Boot, OnSuccess, WithErrorMapper, WithMarshalOptions, Serve,
                                Booting, group, vars
<1>4. ASSUME NEW p \in Requests, Arrive(p) PROVE Tracked(q)'
  <2>1. UNCHANGED <<err, dest, groupErr, body>> /\ pc[p] = "idle"
    BY <1>4 DEF Arrive
  <2>2. CASE q # p
    <3>1. UNCHANGED <<call[q], pc[q]>>
      BY <1>2, <1>4, <2>2 DEF Arrive, Goto, GroupTypes
    <3> QED BY <2>1, <3>1, TrackedUnchanged
  <2>3. CASE q = p
    <3>1. pc'[q] = "waiting" /\ call'[q] = [c \in Calls |-> "running"]
      BY <1>2, <1>4, <2>3 DEF Arrive, Goto, GroupTypes
    <3>2. groupErr[q] = None /\ \A c \in Calls : call[q][c] = "none"
      BY <2>1, <2>3 DEF GInv, Sound, InStep
    <3>3. \A c \in Calls : err[q][c] = None /\ c \notin dest[q]
      BY <3>2 DEF FInv, Tracked
    <3> QED BY <2>1, <3>1, <3>2, <3>3, AggregateAssumption DEF Tracked
  <2> QED BY <2>2, <2>3
<1>5. ASSUME NEW p \in Requests, NEW c \in Calls,
             \/ Succeed(p, c)
             \/ \E o \in Failures \cup {Canceled} : Fail(p, c, o)
             \/ Record(p, c)
      PROVE  Tracked(q)'
  <2>1. CASE q = p
    BY <1>5, <2>1, CallTracked
  <2>2. CASE q # p
    <3>1. UNCHANGED <<call[q], err[q], dest[q], groupErr[q], body[q], pc[q]>>
      BY <1>2, <1>5, <2>2 DEF Succeed, Fail, Record, CallGoto, GroupTypes
    <3> QED BY <3>1, TrackedUnchanged
  <2> QED BY <2>1, <2>2
<1>6. ASSUME NEW p \in Requests, Wait(p) PROVE Tracked(q)'
  <2>1. UNCHANGED <<call, err, dest, groupErr>>
    BY <1>6 DEF Wait, group
  <2>2. CASE q # p
    <3>1. UNCHANGED <<pc[q], body[q]>>
      BY <1>2, <1>6, <2>2 DEF Wait, Goto, GroupTypes
    <3> QED BY <2>1, <3>1, TrackedUnchanged
  <2>3. CASE q = p
    <3>1. body'[q] # None
      <4>1. CASE groupErr[q] # None
        <5>1. body'[q] = [ok |-> FALSE, err |-> groupErr[q]] /\ groupErr[q] \in Errors
          BY <1>2, <1>6, <2>3, <4>1 DEF Wait, GroupTypes
        <5> QED BY <5>1, RecordsAreSomething
      <4>2. CASE groupErr[q] = None
        <5>1. PICK value \in Results :
                body' = [body EXCEPT ![p] = [ok |-> TRUE, value |-> value, of |-> dest[p]]]
          BY <1>6, <2>3, <4>2 DEF Wait
        <5>2. body'[q] = [ok |-> TRUE, value |-> value, of |-> dest[q]] /\ dest[q] \in SUBSET Calls
          BY <1>2, <2>3, <5>1 DEF GroupTypes
        <5> QED BY <5>2, RecordsAreSomething
      <4> QED BY <4>1, <4>2
    <3>2. Tracked(q)
      BY DEF FInv
    <3> QED BY <2>1, <3>1, <3>2 DEF Tracked
  <2> QED BY <2>2, <2>3
<1>7. ASSUME NEW p \in Requests,
             Descend(p) \/ WriteError(p) \/ WriteSuccess(p) \/ Disconnect(p)
      PROVE  Tracked(q)'
  <2>1. UNCHANGED <<call, err, dest, groupErr, body>>
    BY <1>7 DEF Descend, WriteError, WriteSuccess, Disconnect, group
  <2>2. pc'[q] \notin {"idle", "waiting"} => pc[q] \notin {"idle", "waiting"}
    BY <1>2, <1>7 DEF Descend, WriteError, WriteSuccess, Disconnect, Write, Goto, GroupTypes
  <2> QED BY <2>1, <2>2, TrackedUnchanged
<1>8. ASSUME NEW p \in Requests, Finish(p) PROVE Tracked(q)'
  <2>1. CASE q # p
    <3>1. UNCHANGED <<call[q], err[q], dest[q], groupErr[q], body[q], pc[q]>>
      BY <1>2, <1>8, <2>1 DEF Finish, Goto, GroupTypes
    <3> QED BY <3>1, TrackedUnchanged
  <2>2. CASE q = p
    <3>1. /\ pc'[q] = "idle" /\ call'[q] = [c \in Calls |-> "none"] /\ dest'[q] = {}
          /\ err'[q] = [c \in Calls |-> None] /\ groupErr'[q] = None
      BY <1>2, <1>8, <2>2 DEF Finish, Goto, GroupTypes
    <3> QED BY <3>1, AggregateAssumption DEF Tracked
  <2> QED BY <2>1, <2>2
<1> QED BY <1>3, <1>4, <1>5, <1>6, <1>7, <1>8 DEF Next, Handler

\* What the mapping rests on holds throughout.
LEMMA FInvHolds == Spec => []FInv
<1>1. Init => FInv
  BY AggregateAssumption DEF Init, FInv, Tracked
<1>2. GInv /\ FInv /\ [Next]_vars => FInv'
  BY NextFInv
<1> QED BY <1>1, <1>2, GInvHolds, PTL DEF Spec

\* The abstract state: who waits, what has failed by itself, how it ended.
OpenBar == {q \in Requests : pc[q] = "waiting"}

Own(e) == IF e \in Failures THEN e ELSE None

FailedBar == [q \in Requests |-> [c \in Mandatory |-> Own(err[q][c])]]

VerdictOf(b) == IF b = None THEN None
                ELSE IF b.ok THEN [ok |-> TRUE, of |-> b.of]
                ELSE [ok |-> FALSE, err |-> b.err]

VerdictBar == [q \in Requests |-> VerdictOf(body[q])]

\* They are what Promise substitutes for the variables of module Feed.
LEMMA Bars ==
  /\ [q \in Requests |-> [c \in Mandatory |->
         IF err[q][c] \in Failures THEN err[q][c] ELSE None]] = FailedBar
  /\ [q \in Requests |-> [c \in Mandatory |->
         IF err[q][c] \in Failures THEN err[q][c] ELSE None]]' = FailedBar'
  /\ [q \in Requests |->
         IF body[q] = None THEN None
         ELSE IF body[q].ok THEN [ok |-> TRUE, of |-> body[q].of]
         ELSE [ok |-> FALSE, err |-> body[q].err]] = VerdictBar
  /\ [q \in Requests |->
         IF body[q] = None THEN None
         ELSE IF body[q].ok THEN [ok |-> TRUE, of |-> body[q].of]
         ELSE [ok |-> FALSE, err |-> body[q].err]]' = VerdictBar'
BY DEF FailedBar, Own, VerdictBar, VerdictOf

\* A step in one slot changes the abstract state of that slot.
LEMMA SlotStep ==
  ASSUME NEW p \in Requests,
         \A q \in Requests \ {p} : UNCHANGED <<pc[q], err[q], body[q]>>
  PROVE  /\ OpenBar' = IF pc'[p] = "waiting" THEN OpenBar \cup {p} ELSE OpenBar \ {p}
         /\ FailedBar' = [FailedBar EXCEPT ![p] = [c \in Mandatory |-> Own(err'[p][c])]]
         /\ VerdictBar' = [VerdictBar EXCEPT ![p] = VerdictOf(body'[p])]
<1>1. OpenBar' = IF pc'[p] = "waiting" THEN OpenBar \cup {p} ELSE OpenBar \ {p}
  BY DEF OpenBar
<1>2. FailedBar' = [FailedBar EXCEPT ![p] = [c \in Mandatory |-> Own(err'[p][c])]]
  BY DEF FailedBar
<1>3. VerdictBar' = [VerdictBar EXCEPT ![p] = VerdictOf(body'[p])]
  BY DEF VerdictBar
<1> QED BY <1>1, <1>2, <1>3

\* Where the abstract state does not change.
LEMMA Stutters ==
  /\ UNCHANGED err => FailedBar' = FailedBar
  /\ UNCHANGED body => VerdictBar' = VerdictBar
  /\ UNCHANGED <<dest, gone>> /\ OpenBar' = OpenBar /\ FailedBar' = FailedBar
       /\ VerdictBar' = VerdictBar => UNCHANGED Promise!vars
<1>1. UNCHANGED err => FailedBar' = FailedBar
  BY DEF FailedBar
<1>2. UNCHANGED body => VerdictBar' = VerdictBar
  BY DEF VerdictBar
<1>3. UNCHANGED <<dest, gone>> /\ OpenBar' = OpenBar /\ FailedBar' = FailedBar
       /\ VerdictBar' = VerdictBar => UNCHANGED Promise!vars
  BY Bars DEF Promise!vars, OpenBar
<1> QED BY <1>1, <1>2, <1>3

\* A call of an aggregate is a part of the feed.
LEMMA CallPromise ==
  ASSUME GInv, FInv, NEW q \in Requests, NEW c \in Calls,
         \/ Succeed(q, c)
         \/ \E o \in Failures \cup {Canceled} : Fail(q, c, o)
         \/ Record(q, c)
  PROVE  [Promise!Next]_(Promise!vars)
<1>1. /\ err \in [Requests -> [Calls -> Errors \cup {None}]]
      /\ dest \in [Requests -> SUBSET Calls]
      /\ InStep(q) /\ Tracked(q)
  BY DEF GInv, Sound, GroupTypes, FInv
<1>2. q \in OpenBar
  <2>1. call[q][c] \in {"running", "failing"}
    BY DEF Succeed, Fail, Record
  <2>2. ASSUME pc[q] # "waiting" PROVE FALSE
    BY <1>1, <2>1, <2>2 DEF InStep, Joined
  <2> QED BY <2>2 DEF OpenBar
<1>3. UNCHANGED <<pc, body, gone>> /\ OpenBar' = OpenBar /\ VerdictBar' = VerdictBar
  <2>1. UNCHANGED <<pc, body, gone>>
    BY DEF Succeed, Fail, Record
  <2> QED BY <2>1, Stutters DEF OpenBar
<1>4. CASE Succeed(q, c)
  <2>1. dest' = [dest EXCEPT ![q] = dest[q] \cup {c}] /\ UNCHANGED err /\ call[q][c] = "running"
    BY <1>4 DEF Succeed
  <2>2. c \notin dest[q] /\ err[q][c] = None
    BY <1>1, <2>1 DEF Tracked
  <2>3. c \in Mandatory => FailedBar[q][c] = None
    BY <2>2, AggregateAssumption DEF FailedBar, Own
  <2>4. FailedBar' = FailedBar
    BY <2>1, Stutters
  <2>5. Promise!Arrived(q, c)
    BY <1>2, <1>3, <2>1, <2>2, <2>3, <2>4, Bars DEF Promise!Arrived, OpenBar
  <2> QED BY <2>5 DEF Promise!Next
<1>5. ASSUME NEW o \in Failures \cup {Canceled}, Fail(q, c, o)
      PROVE  [Promise!Next]_(Promise!vars)
  <2>1. UNCHANGED dest /\ call[q][c] = "running"
    BY <1>5 DEF Fail
  <2>2. c \notin dest[q] /\ err[q][c] = None
    BY <1>1, <2>1 DEF Tracked
  <2>3. CASE c \in Optional
    <3>1. FailedBar' = FailedBar
      BY <1>5, <2>3, Stutters DEF Fail
    <3> QED BY <1>3, <2>1, <3>1, Stutters
  <2>4. CASE c \notin Optional
    <3>1. err' = [err EXCEPT ![q] = [err[q] EXCEPT ![c] = o]] /\ c \in Mandatory
      BY <1>5, <2>4 DEF Fail, Mandatory
    <3>2. FailedBar' = [FailedBar EXCEPT ![q] = [FailedBar[q] EXCEPT ![c] = Own(o)]]
      <4>1. \A k \in Mandatory : err'[q][k] = IF k = c THEN o ELSE err[q][k]
        BY <1>1, <3>1 DEF Mandatory
      <4>2. \A p \in Requests \ {q} : err'[p] = err[p]
        BY <1>1, <3>1
      <4>3. [k \in Mandatory |-> Own(err'[q][k])] = [FailedBar[q] EXCEPT ![c] = Own(o)]
        BY <4>1 DEF FailedBar
      <4> QED BY <1>3, <4>2, <4>3, SlotStep
    <3>3. FailedBar[q][c] = None
      BY <2>2, <3>1, AggregateAssumption DEF FailedBar, Own
    <3>4. CASE o \in Failures
      <4>1. Promise!Fails(q, c, o)
        BY <1>2, <1>3, <2>1, <2>2, <3>2, <3>3, <3>4, Bars DEF Promise!Fails, OpenBar, Own
      <4> QED BY <3>1, <3>4, <4>1 DEF Promise!Next
    <3>5. CASE o \notin Failures
      <4>1. FailedBar' = FailedBar
        <5>1. FailedBar[q] = [k \in Mandatory |-> FailedBar[q][k]]
              /\ FailedBar = [p \in Requests |-> FailedBar[p]]
          BY DEF FailedBar
        <5> QED BY <3>2, <3>3, <3>5, <5>1 DEF Own
      <4> QED BY <1>3, <2>1, <4>1, Stutters
    <3> QED BY <3>4, <3>5
  <2> QED BY <2>3, <2>4
<1>6. CASE Record(q, c)
  BY <1>3, <1>6, Stutters DEF Record
<1> QED BY <1>4, <1>5, <1>6

\* When fn returns, the feed is closed for a reason.
LEMMA WaitPromise ==
  ASSUME GInv, FInv, NEW q \in Requests, Wait(q)
  PROVE  Promise!Close(q)
<1>1. GroupTypes /\ Sound(q) /\ Tracked(q)
  BY DEF GInv, FInv
<1>2. pc[q] = "waiting" /\ Joined(q) /\ UNCHANGED <<call, err, dest, groupErr, gone>>
  BY DEF Wait, group
<1>3. q \in OpenBar /\ FailedBar' = FailedBar
  BY <1>2, Stutters DEF OpenBar
<1>4. pc' \in [Requests -> Active \cup Settled \cup {"idle"}] /\ pc'[q] # "waiting"
      /\ \A p \in Requests \ {q} : UNCHANGED <<pc[p], body[p]>>
  BY <1>1 DEF Wait, Goto, GroupTypes, Active
<1>5. OpenBar' = OpenBar \ {q} /\ VerdictBar' = [VerdictBar EXCEPT ![q] = VerdictOf(body'[q])]
  BY <1>2, <1>4, SlotStep
<1>6. CASE groupErr[q] # None
  <2> DEFINE e == groupErr[q]
             v == [ok |-> FALSE, err |-> e]
  <2>1. body'[q] = v /\ e \in Errors
    BY <1>1, <1>6 DEF Wait, GroupTypes
  <2>2. VerdictOf(body'[q]) = v
    <3>1. body'[q] # None
      BY <2>1, RecordsAreSomething
    <3> QED BY <2>1, <3>1 DEF VerdictOf
  <2>3. \/ e \in Failures /\ \E c \in Mandatory : FailedBar[q][c] = e
        \/ e = Canceled /\ gone[q]
    BY <1>1, <2>1 DEF Sound, Caused, Tracked, Errors, FailedBar, Own
  <2> HIDE DEF e
  <2>4. v \in {[ok |-> FALSE, err |-> x] : x \in Failures \cup {Canceled}} /\ ~v.ok /\ v.err = e
    BY <2>1 DEF Errors
  <2> HIDE DEF v
  <2> QED BY <1>2, <1>3, <1>5, <2>2, <2>3, <2>4, Bars DEF Promise!Close, Promise!Failed,
          Promise!Complete, OpenBar
<1>7. CASE groupErr[q] = None
  <2> DEFINE v == [ok |-> TRUE, of |-> dest[q]]
  <2>1. PICK value \in Results :
          body' = [body EXCEPT ![q] = [ok |-> TRUE, value |-> value, of |-> dest[q]]]
    BY <1>7 DEF Wait
  <2>2. body'[q] = [ok |-> TRUE, value |-> value, of |-> dest[q]] /\ dest[q] \in SUBSET Calls
    BY <1>1, <2>1 DEF GroupTypes
  <2>3. VerdictOf(body'[q]) = v
    <3>1. body'[q] # None
      BY <2>2, RecordsAreSomething
    <3> QED BY <2>2, <3>1 DEF VerdictOf
  <2>4. Mandatory \subseteq dest[q]
    BY <1>1, <1>2, <1>7 DEF Sound, Gathered, Joined, Mandatory
  <2>5. v = Promise!Complete(dest[q]) /\ v.ok
    BY DEF Promise!Complete
  <2> HIDE DEF v
  <2> QED BY <1>2, <1>3, <1>5, <2>3, <2>4, <2>5, Bars DEF Promise!Close, OpenBar
<1> QED BY <1>6, <1>7

\* Every step is one of the feed, or none.
LEMMA NextPromise ==
  ASSUME GInv, TInv, FInv, [Next]_vars
  PROVE  [Promise!Next]_(Promise!vars)
<1>1. GroupTypes
  BY DEF GInv
<1>2. ASSUME UNCHANGED <<pc, err, dest, body, gone>> PROVE UNCHANGED Promise!vars
  BY <1>2, Stutters DEF OpenBar
<1>3. CASE Boot \/ UNCHANGED vars
  BY <1>2, <1>3 DEF Boot, OnSuccess, WithErrorMapper, WithMarshalOptions, Serve, Booting,
                    group, vars
<1>4. ASSUME NEW q \in Requests, Arrive(q) PROVE Promise!Next
  <2>1. /\ pc[q] = "idle" /\ pc'[q] = "waiting" /\ UNCHANGED <<err, dest, body, gone>>
        /\ \A p \in Requests \ {q} : UNCHANGED pc[p]
    BY <1>1, <1>4 DEF Arrive, Goto, GroupTypes
  <2>2. q \notin OpenBar /\ VerdictBar[q] = None
    BY <2>1 DEF OpenBar, VerdictBar, VerdictOf, GInv, Sound, InStep
  <2>3. OpenBar' = OpenBar \cup {q} /\ FailedBar' = FailedBar /\ VerdictBar' = VerdictBar
    BY <2>1, SlotStep, Stutters
  <2>4. Promise!Open(q)
    BY <2>1, <2>2, <2>3, Bars DEF Promise!Open, OpenBar
  <2> QED BY <2>4 DEF Promise!Next
<1>5. ASSUME NEW q \in Requests, NEW c \in Calls,
             \/ Succeed(q, c)
             \/ \E o \in Failures \cup {Canceled} : Fail(q, c, o)
             \/ Record(q, c)
      PROVE  [Promise!Next]_(Promise!vars)
  BY <1>5, CallPromise
<1>6. ASSUME NEW q \in Requests, Wait(q) PROVE Promise!Next
  BY <1>6, WaitPromise DEF Promise!Next
<1>7. ASSUME NEW q \in Requests, Descend(q) \/ WriteError(q) \/ WriteSuccess(q)
      PROVE  UNCHANGED Promise!vars
  <2>1. UNCHANGED <<err, dest, body, gone>>
    BY <1>7 DEF Descend, WriteError, WriteSuccess, group
  <2>2. \A p \in Requests : pc'[p] = "waiting" <=> pc[p] = "waiting"
    BY <1>1, <1>7 DEF Descend, WriteError, WriteSuccess, Write, Goto, GroupTypes
  <2>3. OpenBar' = OpenBar
    BY <2>2 DEF OpenBar
  <2> QED BY <2>1, <2>3, Stutters
<1>8. ASSUME NEW q \in Requests, Disconnect(q) PROVE Promise!Next
  <2>1. gone' = [gone EXCEPT ![q] = TRUE] /\ UNCHANGED <<pc, err, dest, body>>
    BY <1>8 DEF Disconnect, group
  <2>2. OpenBar' = OpenBar /\ FailedBar' = FailedBar /\ VerdictBar' = VerdictBar
    BY <2>1, Stutters DEF OpenBar
  <2>3. Promise!Leave(q)
    BY <2>1, <2>2, Bars DEF Promise!Leave, OpenBar
  <2> QED BY <2>3 DEF Promise!Next
<1>9. ASSUME NEW q \in Requests, Finish(q) PROVE Promise!Next
  <2>1. /\ pc[q] \in Settled /\ pc'[q] = "idle"
        /\ \A p \in Requests \ {q} : UNCHANGED <<pc[p], err[p], body[p]>>
        /\ err'[q] = [c \in Calls |-> None] /\ body'[q] = None
        /\ dest' = [dest EXCEPT ![q] = {}] /\ gone' = [gone EXCEPT ![q] = FALSE]
    BY <1>1, <1>9 DEF Finish, Goto, GroupTypes
  <2>2. OpenBar' = OpenBar /\ q \notin OpenBar
    BY <2>1, SlotStep DEF OpenBar, Settled
  <2>3. FailedBar' = [FailedBar EXCEPT ![q] = [c \in Mandatory |-> None]]
    <3>1. [c \in Mandatory |-> Own(err'[q][c])] = [c \in Mandatory |-> None]
      BY <2>1 DEF Own, Mandatory
    <3> QED BY <2>1, <3>1, SlotStep
  <2>4. VerdictBar' = [VerdictBar EXCEPT ![q] = None]
    BY <2>1, SlotStep DEF VerdictOf
  <2>5. VerdictBar[q] # None
    <3>1. body[q] # None /\ body[q] \in Returned
      BY <1>1, <2>1 DEF FInv, Tracked, Settled, GroupTypes
    <3>2. CASE body[q] \in [ok : {FALSE}, err : Failures \cup {Canceled}]
      <4>1. VerdictBar[q] = [ok |-> FALSE, err |-> body[q].err] /\ body[q].err \in Errors
        BY <3>1, <3>2 DEF VerdictBar, VerdictOf, Errors
      <4> QED BY <4>1, RecordsAreSomething
    <3>3. CASE body[q] \in [ok : {TRUE}, value : Results, of : SUBSET Calls]
      <4>1. VerdictBar[q] = [ok |-> TRUE, of |-> body[q].of] /\ body[q].of \in SUBSET Calls
        BY <3>1, <3>3 DEF VerdictBar, VerdictOf
      <4> QED BY <4>1, RecordsAreSomething
    <3> QED BY <3>1, <3>2, <3>3 DEF Returned
  <2>6. Promise!Forget(q)
    BY <2>1, <2>2, <2>3, <2>4, <2>5, Bars DEF Promise!Forget, OpenBar
  <2> QED BY <2>6 DEF Promise!Next
<1> QED BY <1>3, <1>4, <1>5, <1>6, <1>7, <1>8, <1>9 DEF Next, Handler

\* The aggregate implements module Feed: parts arrive while it is open, and it
\* is closed once, with everything mandatory or for one of the failures or
\* because the client has left.
THEOREM AggregateKeepsPromise == Spec => KeepsPromise
<1>1. Init => Promise!Init
  <2> SUFFICES ASSUME Init PROVE Promise!Init
    OBVIOUS
  <2>1. OpenBar = {}
    BY DEF Init, OpenBar
  <2>2. FailedBar = [q \in Requests |-> [c \in Mandatory |-> None]]
    BY DEF Init, FailedBar, Own, Mandatory
  <2>3. VerdictBar = [q \in Requests |-> None]
    BY DEF Init, VerdictBar, VerdictOf
  <2> QED BY <2>1, <2>2, <2>3, Bars DEF Promise!Init, Init, OpenBar
<1>2. GInv /\ TInv /\ FInv /\ [Next]_vars => [Promise!Next]_(Promise!vars)
  BY NextPromise
<1> QED BY <1>1, <1>2, GInvHolds, TInvHolds, FInvHolds, PTL DEF Spec, KeepsPromise, Promise!Spec

=============================================================================
