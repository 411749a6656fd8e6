------------------------------- MODULE Users -------------------------------
(***************************************************************************)
(* The user service of examples/basic: userServer, whose methods gRPC runs *)
(* in one goroutine per call, on a slice that no lock protects.            *)
(*                                                                         *)
(* A slice is a header of three words, array, length and capacity, and     *)
(* append either writes behind the last element or moves to a new array.   *)
(* The words of a header are stored one after the other, in any order, and *)
(* what a goroutine loads meanwhile is a mixture.                          *)
(***************************************************************************)
EXTENDS Integers, Sequences, SequencesExt

CONSTANTS
  Callers,
  Requests,      \* of the three methods
  InitialUsers,  \* newUserServer
  AnyRole,       \* ROLE_UNSPECIFIED
  NoName,        \* the empty string
  Garbage,       \* memory that belongs to something else
  None,
  Rooms,         \* what a new array may have behind the elements it is made for
  MaxUsers       \* bound: no call that creates a user begins beyond it

\* The users that can be created.
Names    == {r.name : r \in {q \in Requests : q.op = "CreateUser"}}
NewUsers == [id : Nat, name : Names, role : {AnyRole}]

\* The service starts with users, what is not one is told from them, and
\* offsets and limits are numbers.
ASSUME UsersAssumption ==
  /\ MaxUsers \in Nat /\ InitialUsers \in Seq(Range(InitialUsers)) \ {<<>>}
  /\ Len(InitialUsers) <= MaxUsers
  /\ None \notin Range(InitialUsers) \cup NewUsers \cup Requests
  /\ Garbage \notin Range(InitialUsers) \cup NewUsers \cup {None}
  /\ Rooms \subseteq Nat /\ Rooms # {}
  /\ \A r \in Requests : r.op = "ListUsers" => r.offset \in Int /\ r.limit \in Int

Words == {"array", "length", "capacity"}

VARIABLES
  heap,     \* the arrays, as sequences of users, or None where there is none
  users,    \* userServer.users: the header
  step,     \* where each caller is
  request,
  header,   \* its copy of the header: loaded, or about to be stored
  number,   \* the length it took the id from
  pending,  \* the words it has not stored yet
  answer

vars == <<heap, users, step, request, header, number, pending, answer>>
local == <<header, number>>

Init ==
  /\ heap = <<InitialUsers>>
  /\ users = [array |-> 1, length |-> Len(InitialUsers), capacity |-> Len(InitialUsers)]
  /\ step = [c \in Callers |-> "idle"]
  /\ request = [c \in Callers |-> None]
  /\ header = [c \in Callers |-> users]
  /\ number = [c \in Callers |-> 0]
  /\ pending = [c \in Callers |-> {}]
  /\ answer = [c \in Callers |-> None]

-----------------------------------------------------------------------------

\* The elements of a slice; a length beyond its array shows other memory.
Elements(h) ==
  [i \in 1 .. h.length |-> IF i \in DOMAIN heap[h.array] THEN heap[h.array][i] ELSE Garbage]

NotFound        == [code |-> "NotFound"]
InvalidArgument == [code |-> "InvalidArgument"]
Crash           == [code |-> "crash"]
Success(value)  == [code |-> "OK", value |-> value]

Goto(c, from, to) == step[c] = from /\ step' = [step EXCEPT ![c] = to]

Answer(c, reply) == answer' = [answer EXCEPT ![c] = reply]

Call(c) ==
  /\ Goto(c, "idle", "called")
  /\ \E r \in Requests : /\ r.op = "CreateUser" => users.length < MaxUsers
                         /\ request' = [request EXCEPT ![c] = r]
  /\ UNCHANGED <<heap, users, pending, answer, local>>

Return(c) ==
  /\ Goto(c, "answered", "idle")
  /\ request' = [request EXCEPT ![c] = None]
  /\ Answer(c, None)
  /\ UNCHANGED <<heap, users, pending, local>>

\* Readers load the header first.
Load(c) ==
  /\ Goto(c, "called", "loaded") /\ request[c].op \in {"GetUser", "ListUsers"}
  /\ header' = [header EXCEPT ![c] = users]
  /\ UNCHANGED <<heap, users, request, number, pending, answer>>

\* The scan of GetUser over the slice.
GetUser(id, slice) ==
  LET i == SelectInSeq(slice, LAMBDA u : u \in {Garbage, None} \/ u.id = id)
  IN  IF i = 0 THEN NotFound ELSE IF slice[i] \in {Garbage, None} THEN Crash ELSE Success(slice[i])

From(s, offset) == IF offset > 0 /\ offset < Len(s) THEN SubSeq(s, offset + 1, Len(s)) ELSE s
UpTo(s, limit)  == IF limit > 0 /\ limit < Len(s) THEN SubSeq(s, 1, limit) ELSE s

\* The users with a role, appended to the result one by one.
WithRole(role, slice) ==
  LET filtered[n \in 0 .. Len(slice)] ==
        IF n = 0 THEN <<>>
        ELSE IF role \in {AnyRole, slice[n].role} THEN Append(filtered[n - 1], slice[n])
                                                  ELSE filtered[n - 1]
  IN  filtered[Len(slice)]

\* ListUsers on the slice: filter, offset, limit.
ListUsers(r, slice) ==
  IF \E i \in DOMAIN slice : slice[i] \in {Garbage, None} THEN Crash
  ELSE Success(UpTo(From(WithRole(r.role, slice), r.offset), r.limit))

\* What a reader answers from its copy of the header.
Reply(c) ==
  LET slice == Elements(header[c])
  IN  IF request[c].op = "GetUser" THEN GetUser(request[c].id, slice) ELSE ListUsers(request[c], slice)

\* A plausible variant that filters into users[:0], which is the shared array.
ScanInPlace(c) ==
  /\ Goto(c, "loaded", "answered")
  /\ Answer(c, Reply(c))
  /\ LET r == request[c]
         filtered == WithRole(r.role, Elements(header[c]))
     IN  heap' = IF r.op = "GetUser" THEN heap
                 ELSE [heap EXCEPT ![header[c].array] =
                         [i \in DOMAIN @ |-> IF i \in DOMAIN filtered THEN filtered[i] ELSE @[i]]]
  /\ UNCHANGED <<users, request, pending, local>>

Scan(c) ==
  /\ Goto(c, "loaded", "answered")
  /\ Answer(c, Reply(c))
  /\ UNCHANGED <<heap, users, request, pending, local>>

\* CreateUser: the check of the name, and the length for the id.
Refuse(c) ==
  /\ Goto(c, "called", "answered") /\ request[c].op = "CreateUser" /\ request[c].name = NoName
  /\ Answer(c, InvalidArgument)
  /\ UNCHANGED <<heap, users, request, pending, local>>

Number(c) ==
  /\ Goto(c, "called", "numbered") /\ request[c].op = "CreateUser" /\ request[c].name # NoName
  /\ number' = [number EXCEPT ![c] = users.length]
  /\ UNCHANGED <<heap, users, request, header, pending, answer>>

\* The new user; its role is not taken from the request.
NewUser(c) == [id |-> number[c] + 1, name |-> request[c].name, role |-> AnyRole]

\* append: the header is loaded once more, and the user written behind the
\* last element or to a new array, which has as much room as the runtime gives.
InPlace(c, length) ==
  /\ heap' = [heap EXCEPT ![users.array] =
                IF length \in DOMAIN @ THEN [@ EXCEPT ![length] = NewUser(c)] ELSE @]
  /\ header' = [header EXCEPT ![c] = [users EXCEPT !.length = length]]
  /\ pending' = [pending EXCEPT ![c] = {"length"}]

Moved(c, slice, capacity) ==
  /\ heap' = Append(heap, [i \in 1 .. capacity |-> IF i \in DOMAIN slice THEN slice[i] ELSE None])
  /\ header' = [header EXCEPT ![c] =
                  [array |-> Len(heap) + 1, length |-> Len(slice), capacity |-> capacity]]
  /\ pending' = [pending EXCEPT ![c] = Words]

AppendUser(c) ==
  /\ Goto(c, "numbered", "stores")
  /\ LET slice == Append(Elements(users), NewUser(c))
     IN  IF Len(slice) <= users.capacity THEN InPlace(c, Len(slice))
         ELSE \E room \in Rooms : Moved(c, slice, Len(slice) + room)
  /\ UNCHANGED <<users, request, number, answer>>

StoreWord(c) ==
  /\ step[c] = "stores" /\ pending[c] # {}
  /\ \E w \in pending[c] :
       /\ users' = [users EXCEPT ![w] = header[c][w]]
       /\ pending' = [pending EXCEPT ![c] = @ \ {w}]
  /\ UNCHANGED <<heap, step, request, answer, local>>

\* A plausible variant that answers before the header is stored.
CreatedEarly(c) ==
  /\ Goto(c, "stores", "answered")
  /\ Answer(c, Success(NewUser(c)))
  /\ UNCHANGED <<heap, users, request, pending, local>>

Created(c) ==
  /\ Goto(c, "stores", "answered") /\ pending[c] = {}
  /\ Answer(c, Success(NewUser(c)))
  /\ UNCHANGED <<heap, users, request, pending, local>>

Step(c) ==
  \/ Call(c) \/ Load(c) \/ Scan(c)
  \/ Refuse(c) \/ Number(c) \/ AppendUser(c) \/ StoreWord(c) \/ Created(c)
  \/ Return(c)

Next == \E c \in Callers : Step(c)

Spec == Init /\ [][Next]_vars

\* README.md:616 has "Sharing a map / slice without lock across goroutines"
\* as a mistake and "guard with sync.Mutex" as its fix.  These are the
\* executions of the methods that such a guard of the header leaves: none
\* begins to access it between the first access of a CreateUser and its last.
\* The calls still overlap, and what follows a load needs no guard.
Storing   == {c \in Callers : step[c] = "stores" /\ pending[c] # {}}
Creating  == {c \in Callers : step[c] = "numbered"} \cup Storing
Enters(c) == step[c] = "called" /\ ~(request[c].op = "CreateUser" /\ request[c].name = NoName)

GuardedNext == \E c \in Callers : (Enters(c) => Creating = {}) /\ Step(c)

GuardedSpec == Init /\ [][GuardedNext]_vars

-----------------------------------------------------------------------------
(* Properties *)

\* The types, whatever races: a header has an array, a caller without a call
\* has no request, one that is answered has an answer and no word left to store.
TypeOK ==
  /\ users.array \in DOMAIN heap
  /\ users.length \in Nat /\ users.capacity \in Nat
  /\ step \in [Callers -> {"idle", "called", "loaded", "numbered", "stores", "answered"}]
  /\ \A c \in Callers : /\ request[c] = None <=> step[c] = "idle"
                        /\ answer[c] # None <=> step[c] = "answered"
                        /\ pending[c] # {} => step[c] = "stores"

\* With the header guarded, the service is a directory, however many calls
\* overlap: a call that reads takes effect when it loads the header, although
\* it scans the array while others append to it, and one that creates a user
\* when it appends, although its answer and the stores come later.
Current == IF Storing = {} THEN users ELSE header[CHOOSE c \in Storing : TRUE]

Outcome(c) == IF step[c] = "loaded" THEN Reply(c)
              ELSE IF step[c] = "stores" THEN Success(NewUser(c)) ELSE answer[c]

Visible  == Elements(Current)
Outcomes == [c \in Callers |-> Outcome(c)]

Contract == INSTANCE Directory WITH directory <- Visible, answer <- Outcomes

KeepsDirectory == Contract!Spec

\* README.md:616, as above.  In the repository's own example two calls can be
\* about to access the header, one to store.
IsGuarded ==
  \A c, d \in Callers : c # d /\ step[c] = "stores" /\ pending[c] # {} =>
    /\ step[d] \notin {"numbered", "stores"}
    /\ step[d] = "called" => request[d].op = "CreateUser" /\ request[d].name = NoName

=============================================================================
