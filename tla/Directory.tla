----------------------------- MODULE Directory -----------------------------
(***************************************************************************)
(* The user service as its clients may think of it: a directory on which   *)
(* every call takes effect at one instant between its start and its end.   *)
(***************************************************************************)
EXTENDS Integers, Sequences, FiniteSets

CONSTANTS Callers, Requests, InitialUsers, AnyRole, NoName, None

VARIABLES
  directory,  \* the users, in the order of their creation
  request,    \* what each caller has asked, or None
  answer      \* what it is going to hear, or None

vars == <<directory, request, answer>>

NotFound        == [code |-> "NotFound"]
InvalidArgument == [code |-> "InvalidArgument"]
Success(value)  == [code |-> "OK", value |-> value]

\* The first user with the id.
Found(id) ==
  LET matching == {i \in DOMAIN directory : directory[i].id = id}
  IN  IF matching = {} THEN NotFound
      ELSE Success(directory[CHOOSE i \in matching : \A j \in matching : i <= j])

\* The users with the role, in order, from an offset if it lies within them,
\* and at most as many as the limit if there is one.
IsPage(page, role, offset, limit) ==
  LET matching == {i \in DOMAIN directory : role \in {AnyRole, directory[i].role}}
      before(i) == Cardinality({j \in matching : j < i})
      start   == IF offset \in 1 .. Cardinality(matching) - 1 THEN offset ELSE 0
      shown   == {i \in matching : /\ before(i) >= start
                                   /\ limit > 0 => before(i) < start + limit}
  IN  /\ Len(page) = Cardinality(shown)
      /\ \A i \in shown : page[before(i) - start + 1] = directory[i]

Init ==
  /\ directory = InitialUsers
  /\ request = [c \in Callers |-> None]
  /\ answer = [c \in Callers |-> None]

Invoke(c) ==
  /\ request[c] = None
  /\ \E r \in Requests : request' = [request EXCEPT ![c] = r]
  /\ UNCHANGED <<directory, answer>>

Answer(c, reply) == answer' = [answer EXCEPT ![c] = reply] /\ UNCHANGED request

\* The instant at which the call takes effect.
Perform(c) ==
  /\ request[c] # None /\ answer[c] = None /\ answer'[c] # None
  /\ LET r == request[c] IN
     \/ r.op = "GetUser" /\ Answer(c, Found(r.id)) /\ UNCHANGED directory
     \/ /\ r.op = "ListUsers"
        /\ Answer(c, answer'[c]) /\ answer'[c].code = "OK"
        /\ IsPage(answer'[c].value, r.role, r.offset, r.limit)
        /\ UNCHANGED directory
     \/ /\ r.op = "CreateUser" /\ r.name = NoName
        /\ Answer(c, InvalidArgument) /\ UNCHANGED directory
     \/ /\ r.op = "CreateUser" /\ r.name # NoName
        /\ LET user == [id |-> Len(directory) + 1, name |-> r.name, role |-> AnyRole]
           IN  directory' = Append(directory, user) /\ Answer(c, Success(user))

Return(c) ==
  /\ answer[c] # None
  /\ request' = [request EXCEPT ![c] = None]
  /\ answer' = [answer EXCEPT ![c] = None]
  /\ UNCHANGED directory

Next == \E c \in Callers : Invoke(c) \/ Perform(c) \/ Return(c)

Spec == Init /\ [][Next]_vars

=============================================================================
