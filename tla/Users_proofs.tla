---------------------------- MODULE Users_proofs ----------------------------
(***************************************************************************)
(* Theorems about module Users, for any number of callers at work at once, *)
(* every request and any number of users: its types whatever races, and    *)
(* the directory it is to its clients when the header is guarded.          *)
(***************************************************************************)
EXTENDS Users, Lemmas, FiniteSetTheorems

-----------------------------------------------------------------------------
(* The inductive invariant behind the types                                *)

\* A header of an array of the heap.
Typed(h) ==
  /\ h = [array |-> h.array, length |-> h.length, capacity |-> h.capacity]
  /\ h.array \in 1 .. Len(heap) /\ h.length \in Nat /\ h.capacity \in Nat

\* What a caller holds.
Holds(c) ==
  /\ step[c] # "idle" => request[c] \in Requests
  /\ step[c] = "idle" => request[c] = None
  /\ step[c] = "answered" <=> answer[c] # None
  /\ Typed(header[c]) /\ number[c] \in Nat
  /\ pending[c] \subseteq Words /\ (pending[c] # {} => step[c] = "stores")

Positions == {"idle", "called", "loaded", "numbered", "stores", "answered"}

\* Everything that a caller has is a function of it.
AreFunctions ==
  /\ step \in [Callers -> Positions]
  /\ request = [c \in Callers |-> request[c]] /\ answer = [c \in Callers |-> answer[c]]
  /\ header = [c \in Callers |-> header[c]] /\ number = [c \in Callers |-> number[c]]
  /\ pending = [c \in Callers |-> pending[c]]

UInv ==
  /\ IsSeq(heap) /\ Typed(users)
  /\ AreFunctions
  /\ \A c \in Callers : Holds(c)

\* Answers are told from None.
AnswersTold == \A v : None \notin {NotFound, InvalidArgument, Crash, Success(v)}

\* What a caller has does not change while it rests.
Rests(d) == UNCHANGED <<step[d], request[d], header[d], number[d], pending[d], answer[d]>>

\* A change of its position moves one caller.
LEMMA Moves ==
  ASSUME UInv, NEW c \in Callers, NEW from, NEW to \in Positions, Goto(c, from, to)
  PROVE  /\ step[c] = from /\ step'[c] = to /\ step' \in [Callers -> Positions]
         /\ \A d \in Callers \ {c} : step'[d] = step[d]
         /\ Holds(c)
BY DEF UInv, AreFunctions, Goto

\* What each step does to the caller that takes it.
LEMMA CallDoes ==
  ASSUME UInv, NEW c \in Callers, Call(c)
  PROVE  /\ step[c] = "idle" /\ step'[c] = "called" /\ request'[c] \in Requests
         /\ UNCHANGED <<heap, users, header, number, pending, answer>>
         /\ request' = [request EXCEPT ![c] = request'[c]]
         /\ AreFunctions' /\ \A d \in Callers \ {c} : Rests(d)
<1>1. PICK r \in Requests : request' = [request EXCEPT ![c] = r]
  BY DEF Call
<1>2. UNCHANGED <<heap, users, header, number, pending, answer>>
  BY DEF Call, local
<1>3. /\ step[c] = "idle" /\ step'[c] = "called" /\ step' \in [Callers -> Positions]
      /\ \A d \in Callers \ {c} : step'[d] = step[d]
  BY Moves DEF Call, Positions
<1> QED BY <1>1, <1>2, <1>3 DEF UInv, AreFunctions, Rests

LEMMA ReturnDoes ==
  ASSUME UInv, NEW c \in Callers, Return(c)
  PROVE  /\ step[c] = "answered" /\ step'[c] = "idle" /\ request'[c] = None /\ answer'[c] = None
         /\ UNCHANGED <<heap, users, header, number, pending>>
         /\ request' = [request EXCEPT ![c] = None]
         /\ AreFunctions' /\ \A d \in Callers \ {c} : Rests(d)
<1>1. /\ request' = [request EXCEPT ![c] = None] /\ answer' = [answer EXCEPT ![c] = None]
      /\ UNCHANGED <<heap, users, header, number, pending>>
  BY DEF Return, Answer, local
<1>2. /\ step[c] = "answered" /\ step'[c] = "idle" /\ step' \in [Callers -> Positions]
      /\ \A d \in Callers \ {c} : step'[d] = step[d]
  BY Moves DEF Return, Positions
<1> QED BY <1>1, <1>2 DEF UInv, AreFunctions, Rests

LEMMA LoadDoes ==
  ASSUME UInv, NEW c \in Callers, Load(c)
  PROVE  /\ step[c] = "called" /\ step'[c] = "loaded" /\ header'[c] = users
         /\ request[c].op \in {"GetUser", "ListUsers"}
         /\ UNCHANGED <<heap, users, request, number, pending, answer>>
         /\ AreFunctions' /\ \A d \in Callers \ {c} : Rests(d)
<1>1. /\ header' = [header EXCEPT ![c] = users] /\ request[c].op \in {"GetUser", "ListUsers"}
      /\ UNCHANGED <<heap, users, request, number, pending, answer>>
  BY DEF Load
<1>2. /\ step[c] = "called" /\ step'[c] = "loaded" /\ step' \in [Callers -> Positions]
      /\ \A d \in Callers \ {c} : step'[d] = step[d]
  BY Moves DEF Load, Positions
<1> QED BY <1>1, <1>2 DEF UInv, AreFunctions, Rests

LEMMA NumberDoes ==
  ASSUME UInv, NEW c \in Callers, Number(c)
  PROVE  /\ step[c] = "called" /\ step'[c] = "numbered" /\ number'[c] = users.length
         /\ request[c].op = "CreateUser" /\ request[c].name # NoName
         /\ UNCHANGED <<heap, users, request, header, pending, answer>>
         /\ AreFunctions' /\ \A d \in Callers \ {c} : Rests(d)
<1>1. /\ number' = [number EXCEPT ![c] = users.length]
      /\ request[c].op = "CreateUser" /\ request[c].name # NoName
      /\ UNCHANGED <<heap, users, request, header, pending, answer>>
  BY DEF Number
<1>2. /\ step[c] = "called" /\ step'[c] = "numbered" /\ step' \in [Callers -> Positions]
      /\ \A d \in Callers \ {c} : step'[d] = step[d]
  BY Moves DEF Number, Positions
<1> QED BY <1>1, <1>2 DEF UInv, AreFunctions, Rests

\* An answer, whatever it is.
LEMMA AnswerDoes ==
  ASSUME UInv, NEW c \in Callers, NEW from, Goto(c, from, "answered"),
         NEW reply, Answer(c, reply),
         UNCHANGED <<heap, users, request, header, number, pending>>
  PROVE  /\ step[c] = from /\ step'[c] = "answered" /\ answer'[c] = reply
         /\ AreFunctions' /\ \A d \in Callers \ {c} : Rests(d)
<1>1. /\ step[c] = from /\ step'[c] = "answered" /\ step' \in [Callers -> Positions]
      /\ \A d \in Callers \ {c} : step'[d] = step[d]
  BY Moves DEF Positions
<1>2. answer' = [answer EXCEPT ![c] = reply]
  BY DEF Answer
<1> QED BY <1>1, <1>2 DEF UInv, AreFunctions, Rests

\* A reader answers from its copy, and its answer is one.
LEMMA ReplyTold ==
  ASSUME AnswersTold, NEW c
  PROVE  Reply(c) # None
<1> DEFINE slice == Elements(header[c])
<1> HIDE DEF slice
<1>1. GetUser(request[c].id, slice) # None
  BY DEF GetUser, AnswersTold
<1>2. ListUsers(request[c], slice) # None
  BY DEF ListUsers, AnswersTold
<1> QED BY <1>1, <1>2 DEF Reply, slice

LEMMA ScanDoes ==
  ASSUME UInv, NEW c \in Callers, Scan(c)
  PROVE  /\ step[c] = "loaded" /\ step'[c] = "answered" /\ answer'[c] = Reply(c)
         /\ UNCHANGED <<heap, users, request, header, number, pending>>
         /\ AreFunctions' /\ \A d \in Callers \ {c} : Rests(d)
<1>1. /\ Goto(c, "loaded", "answered") /\ Answer(c, Reply(c))
      /\ UNCHANGED <<heap, users, request, header, number, pending>>
  BY DEF Scan, local
<1>2. PICK reply : reply = Reply(c)
  OBVIOUS
<1> QED BY <1>1, <1>2, AnswerDoes

LEMMA RefuseDoes ==
  ASSUME UInv, NEW c \in Callers, Refuse(c)
  PROVE  /\ step[c] = "called" /\ step'[c] = "answered" /\ answer'[c] = InvalidArgument
         /\ request[c].op = "CreateUser" /\ request[c].name = NoName
         /\ UNCHANGED <<heap, users, request, header, number, pending>>
         /\ AreFunctions' /\ \A d \in Callers \ {c} : Rests(d)
<1>1. /\ Goto(c, "called", "answered") /\ Answer(c, InvalidArgument)
      /\ request[c].op = "CreateUser" /\ request[c].name = NoName
      /\ UNCHANGED <<heap, users, request, header, number, pending>>
  BY DEF Refuse, local
<1>2. PICK reply : reply = InvalidArgument
  OBVIOUS
<1> QED BY <1>1, <1>2, AnswerDoes

LEMMA CreatedDoes ==
  ASSUME UInv, NEW c \in Callers, Created(c)
  PROVE  /\ step[c] = "stores" /\ step'[c] = "answered" /\ answer'[c] = Success(NewUser(c))
         /\ pending[c] = {}
         /\ UNCHANGED <<heap, users, request, header, number, pending>>
         /\ AreFunctions' /\ \A d \in Callers \ {c} : Rests(d)
<1>1. /\ Goto(c, "stores", "answered") /\ Answer(c, Success(NewUser(c))) /\ pending[c] = {}
      /\ UNCHANGED <<heap, users, request, header, number, pending>>
  BY DEF Created, local
<1>2. PICK reply : reply = Success(NewUser(c))
  OBVIOUS
<1> QED BY <1>1, <1>2, AnswerDoes

\* One word of the header is stored, the others are as they were.
LEMMA StoreWordDoes ==
  ASSUME UInv, NEW c \in Callers, StoreWord(c)
  PROVE  \E w \in pending[c] :
         /\ step[c] = "stores" /\ pending'[c] = pending[c] \ {w}
         /\ users' = [array |-> IF w = "array" THEN header[c].array ELSE users.array,
                      length |-> IF w = "length" THEN header[c].length ELSE users.length,
                      capacity |-> IF w = "capacity" THEN header[c].capacity ELSE users.capacity]
         /\ UNCHANGED <<heap, step, request, answer, header, number>>
         /\ AreFunctions' /\ \A d \in Callers \ {c} : Rests(d)
<1>1. PICK w \in pending[c] : /\ users' = [users EXCEPT ![w] = header[c][w]]
                              /\ pending' = [pending EXCEPT ![c] = @ \ {w}]
  BY DEF StoreWord
<1>2. step[c] = "stores" /\ UNCHANGED <<heap, step, request, answer, header, number>>
  BY DEF StoreWord, local
<1>3. w \in Words /\ users = [array |-> users.array, length |-> users.length,
                              capacity |-> users.capacity]
  BY <1>1 DEF UInv, Holds, Typed
<1>4. users' = [array |-> IF w = "array" THEN header[c].array ELSE users.array,
                length |-> IF w = "length" THEN header[c].length ELSE users.length,
                capacity |-> IF w = "capacity" THEN header[c].capacity ELSE users.capacity]
  <2> DEFINE u == [array |-> users.array, length |-> users.length, capacity |-> users.capacity]
  <2>1. users' = [u EXCEPT ![w] = header[c][w]]
    BY <1>1, <1>3
  <2>2. w = "array" \/ w = "length" \/ w = "capacity"
    BY <1>3 DEF Words
  <2> QED BY <2>1, <2>2
<1>5. pending' = [d \in Callers |-> pending'[d]] /\ pending'[c] = pending[c] \ {w}
      /\ \A d \in Callers \ {c} : pending'[d] = pending[d]
  BY <1>1 DEF UInv, AreFunctions
<1>6. AreFunctions' /\ \A d \in Callers \ {c} : Rests(d)
  BY <1>2, <1>5 DEF UInv, AreFunctions, Rests
<1> QED BY <1>1, <1>2, <1>4, <1>5, <1>6

\* The slice of a header is a sequence as long as its length.
LEMMA ElementsOfTyped ==
  ASSUME NEW h, h.length \in Nat
  PROVE  IsSeq(Elements(h)) /\ Len(Elements(h)) = h.length
<1> DEFINE s == Elements(h)
           S == {s[i] : i \in 1 .. h.length}
<1>1. s \in [1 .. h.length -> S]
  BY DEF Elements
<1> HIDE DEF s, S
<1>2. s \in Seq(S) /\ Len(s) = h.length
  BY <1>1
<1> QED BY <1>2, SeqIsSeq DEF s

\* Append keeps every array there is at its place, and makes a header for one
\* more user than there are in users, of the same array or of a new one.
LEMMA AppendDoes ==
  ASSUME UInv, NEW c \in Callers, AppendUser(c)
  PROVE  LET l == users.length
             slice == Append(Elements(users), NewUser(c))
         IN
         /\ step[c] = "numbered" /\ step'[c] = "stores" /\ UNCHANGED <<users, request, number, answer>>
         /\ AreFunctions' /\ \A d \in Callers \ {c} : Rests(d)
         /\ l \in Nat /\ Len(heap) \in Nat \ {0} /\ IsSeq(heap') /\ Len(slice) = l + 1
         /\ \/ /\ l + 1 <= users.capacity
               /\ heap' = [heap EXCEPT ![users.array] =
                             IF l + 1 \in DOMAIN @ THEN [@ EXCEPT ![l + 1] = NewUser(c)] ELSE @]
               /\ header'[c] = [array |-> users.array, length |-> l + 1, capacity |-> users.capacity]
               /\ pending'[c] = {"length"} /\ Len(heap') = Len(heap)
            \/ \E room \in Nat :
               /\ heap' = Append(heap, [i \in 1 .. l + 1 + room |->
                                          IF i \in DOMAIN slice THEN slice[i] ELSE None])
               /\ header'[c] = [array |-> Len(heap) + 1, length |-> l + 1, capacity |-> l + 1 + room]
               /\ pending'[c] = Words /\ Len(heap') = Len(heap) + 1
<1> DEFINE l == users.length
           m == users.capacity
           a == users.array
           e == NewUser(c)
           slice == Append(Elements(users), e)
<1>1. /\ l \in Nat /\ a \in 1 .. Len(heap) /\ m \in Nat /\ IsSeq(heap)
      /\ users = [array |-> a, length |-> l, capacity |-> m]
  BY DEF UInv, Typed
<1>2. Len(heap) \in Nat \ {0}
  BY <1>1 DEF IsSeq
<1>3. Len(slice) = l + 1
  BY <1>1, ElementsOfTyped, Appended
<1>4. /\ step[c] = "numbered" /\ step'[c] = "stores" /\ step' \in [Callers -> Positions]
      /\ \A d \in Callers \ {c} : step'[d] = step[d]
  BY Moves DEF AppendUser, Positions
<1>5. UNCHANGED <<users, request, number, answer>>
  BY DEF AppendUser
<1>6. IF Len(slice) <= m THEN InPlace(c, Len(slice))
      ELSE \E room \in Rooms : Moved(c, slice, Len(slice) + room)
  BY DEF AppendUser
<1> HIDE DEF slice, e
<1>7. CASE l + 1 <= m
  <2>1. InPlace(c, l + 1)
    BY <1>3, <1>6, <1>7
  <2>2. /\ heap' = [heap EXCEPT ![a] = IF l + 1 \in DOMAIN @ THEN [@ EXCEPT ![l + 1] = e] ELSE @]
        /\ header' = [header EXCEPT ![c] = [users EXCEPT !.length = l + 1]]
        /\ pending' = [pending EXCEPT ![c] = {"length"}]
    BY <2>1 DEF InPlace, e
  <2>3. [users EXCEPT !.length = l + 1] = [array |-> a, length |-> l + 1, capacity |-> m]
    BY <1>1
  <2>4. /\ header'[c] = [array |-> a, length |-> l + 1, capacity |-> m] /\ pending'[c] = {"length"}
        /\ AreFunctions' /\ \A d \in Callers \ {c} : Rests(d)
    BY <1>4, <1>5, <2>2, <2>3 DEF UInv, AreFunctions, Rests
  <2> DEFINE x == IF l + 1 \in DOMAIN heap[a] THEN [heap[a] EXCEPT ![l + 1] = e] ELSE heap[a]
             S == {heap[i] : i \in 1 .. Len(heap)} \cup {x}
  <2>5. heap' = [heap EXCEPT ![a] = x]
    BY <2>2
  <2> HIDE DEF x
  <2>6. heap \in Seq(S) /\ x \in S
    BY <1>1, SeqOfElements
  <2> HIDE DEF S
  <2>7. heap' \in Seq(S) /\ Len(heap') = Len(heap)
    BY <1>1, <2>5, <2>6
  <2>8. IsSeq(heap')
    BY <2>7, SeqIsSeq
  <2> QED BY <1>1, <1>2, <1>3, <1>4, <1>5, <1>7, <2>2, <2>4, <2>7, <2>8 DEF slice, e
<1>8. CASE ~(l + 1 <= m)
  <2>1. PICK room \in Nat : Moved(c, slice, l + 1 + room)
    BY <1>3, <1>6, <1>8, UsersAssumption
  <2> DEFINE new == [i \in 1 .. l + 1 + room |-> IF i \in DOMAIN slice THEN slice[i] ELSE None]
  <2>2. /\ heap' = Append(heap, new)
        /\ header' = [header EXCEPT ![c] =
             [array |-> Len(heap) + 1, length |-> l + 1, capacity |-> l + 1 + room]]
        /\ pending' = [pending EXCEPT ![c] = Words]
    BY <1>3, <2>1 DEF Moved
  <2>3. /\ header'[c] = [array |-> Len(heap) + 1, length |-> l + 1, capacity |-> l + 1 + room]
        /\ pending'[c] = Words
        /\ AreFunctions' /\ \A d \in Callers \ {c} : Rests(d)
    <3> HIDE DEF new
    <3> QED BY <1>4, <1>5, <2>2 DEF UInv, AreFunctions, Rests
  <2>4. IsSeq(heap') /\ Len(heap') = Len(heap) + 1
    <3> HIDE DEF new
    <3> QED BY <1>1, <2>2, Appended
  <2> QED BY <1>1, <1>2, <1>3, <1>4, <1>5, <2>2, <2>3, <2>4 DEF slice, e
<1> QED BY <1>7, <1>8

\* What rests keeps what it holds, for arrays do not go away.
LEMMA OthersHold ==
  ASSUME UInv, NEW c \in Callers, \A d \in Callers \ {c} : Rests(d),
         Len(heap') \in Nat, Len(heap) <= Len(heap')
  PROVE  \A d \in Callers \ {c} : Holds(d)'
<1> SUFFICES ASSUME NEW d \in Callers \ {c} PROVE Holds(d)'
  OBVIOUS
<1>1. Rests(d) /\ Holds(d) /\ Len(heap) \in Nat
  BY DEF UInv, IsSeq
<1>2. Typed(header[d])'
  BY <1>1 DEF Rests, Holds, Typed
<1> QED BY <1>1, <1>2 DEF Rests, Holds

\* The service starts in the invariant.
LEMMA InitUInv == ASSUME AnswersTold PROVE Init => UInv
<1> SUFFICES ASSUME Init PROVE UInv
  OBVIOUS
<1>1. heap = <<InitialUsers>> /\ IsSeq(heap) /\ Len(heap) = 1
  <2>1. <<InitialUsers>> \in Seq({InitialUsers}) /\ Len(<<InitialUsers>>) = 1
    OBVIOUS
  <2>2. IsSeq(<<InitialUsers>>)
    BY <2>1, SeqIsSeq
  <2> QED BY <2>1, <2>2 DEF Init
<1>2. Len(InitialUsers) \in Nat
  BY UsersAssumption
<1>3. Typed(users)
  BY <1>1, <1>2 DEF Init, Typed
<1>4. AreFunctions
  BY DEF Init, AreFunctions, Positions
<1>5. ASSUME NEW c \in Callers PROVE Holds(c)
  <2>1. step[c] = "idle" /\ request[c] = None /\ header[c] = users /\ number[c] = 0
        /\ pending[c] = {} /\ answer[c] = None
    BY DEF Init
  <2> QED BY <1>3, <2>1 DEF Holds
<1> QED BY <1>1, <1>3, <1>4, <1>5 DEF UInv

\* A step that leaves the heap and users alone needs to keep what its caller
\* holds only.
LEMMA KeepsUInv ==
  ASSUME UInv, NEW c \in Callers, UNCHANGED <<heap, users>>,
         AreFunctions', \A d \in Callers \ {c} : Rests(d), Holds(c)'
  PROVE  UInv'
<1>1. Len(heap') \in Nat /\ Len(heap) <= Len(heap')
  BY DEF UInv, IsSeq
<1>2. Typed(users)'
  BY DEF UInv, Typed
<1> QED BY <1>1, <1>2, OthersHold DEF UInv

\* Whatever steps race, the invariant is kept: the header that is stored and
\* the header that is loaded may not belong together, but each of their words
\* is one of a header, and arrays do not go away.
LEMMA StepUInv ==
  ASSUME AnswersTold, UInv, NEW c \in Callers, Step(c)
  PROVE  UInv'
<1>0. Holds(c) /\ Typed(users) /\ c \in Callers
  BY DEF UInv
<1>1. CASE Call(c)
  <2>1. Holds(c)'
    BY <1>0, <1>1, CallDoes DEF Holds, Typed
  <2> QED BY <1>1, <2>1, CallDoes, KeepsUInv
<1>2. CASE Load(c)
  <2>1. Holds(c)'
    BY <1>0, <1>2, LoadDoes DEF Holds, Typed
  <2> QED BY <1>2, <2>1, LoadDoes, KeepsUInv
<1>3. CASE Scan(c)
  <2>1. Holds(c)'
    BY <1>0, <1>3, ScanDoes, ReplyTold DEF Holds, Typed
  <2> QED BY <1>3, <2>1, ScanDoes, KeepsUInv
<1>4. CASE Refuse(c)
  <2>1. InvalidArgument # None
    BY DEF AnswersTold
  <2>2. Holds(c)'
    BY <1>0, <1>4, <2>1, RefuseDoes DEF Holds, Typed
  <2> QED BY <1>4, <2>2, RefuseDoes, KeepsUInv
<1>5. CASE Number(c)
  <2>1. users.length \in Nat
    BY <1>0 DEF Typed
  <2>2. Holds(c)'
    BY <1>0, <1>5, <2>1, NumberDoes DEF Holds, Typed
  <2> QED BY <1>5, <2>2, NumberDoes, KeepsUInv
<1>6. CASE AppendUser(c)
  <2>1. /\ step[c] = "numbered" /\ step'[c] = "stores" /\ UNCHANGED <<users, request, number, answer>>
        /\ AreFunctions' /\ \A d \in Callers \ {c} : Rests(d)
        /\ Len(heap) \in Nat \ {0} /\ IsSeq(heap') /\ users.length \in Nat
    BY <1>6, AppendDoes
  <2>2. /\ Len(heap') \in Nat /\ Len(heap) <= Len(heap') /\ pending'[c] \subseteq Words
        /\ Typed(header[c])'
    <3>1. \/ /\ header'[c] = [array |-> users.array, length |-> users.length + 1, capacity |-> users.capacity]
             /\ pending'[c] = {"length"} /\ Len(heap') = Len(heap)
          \/ \E room \in Nat :
             /\ header'[c] = [array |-> Len(heap) + 1, length |-> users.length + 1,
                              capacity |-> users.length + 1 + room]
             /\ pending'[c] = Words /\ Len(heap') = Len(heap) + 1
      BY <1>6, AppendDoes
    <3>2. CASE /\ header'[c] = [array |-> users.array, length |-> users.length + 1, capacity |-> users.capacity]
               /\ pending'[c] = {"length"} /\ Len(heap') = Len(heap)
      BY <1>0, <2>1, <3>2 DEF Typed, Words
    <3>3. ASSUME NEW room \in Nat,
                 header'[c] = [array |-> Len(heap) + 1, length |-> users.length + 1,
                               capacity |-> users.length + 1 + room],
                 pending'[c] = Words, Len(heap') = Len(heap) + 1
          PROVE  /\ Len(heap') \in Nat /\ Len(heap) <= Len(heap') /\ pending'[c] \subseteq Words
                 /\ Typed(header[c])'
      BY <2>1, <3>3 DEF Typed
    <3> QED BY <3>1, <3>2, <3>3
  <2>3. Holds(c)'
    BY <1>0, <2>1, <2>2 DEF Holds
  <2>4. Typed(users)'
    BY <1>0, <2>1, <2>2 DEF Typed
  <2> QED BY <2>1, <2>2, <2>3, <2>4, OthersHold DEF UInv
<1>7. CASE StoreWord(c)
  <2>1. PICK w \in pending[c] :
         /\ step[c] = "stores" /\ pending'[c] = pending[c] \ {w}
         /\ users' = [array |-> IF w = "array" THEN header[c].array ELSE users.array,
                      length |-> IF w = "length" THEN header[c].length ELSE users.length,
                      capacity |-> IF w = "capacity" THEN header[c].capacity ELSE users.capacity]
         /\ UNCHANGED <<heap, step, request, answer, header, number>>
         /\ AreFunctions' /\ \A d \in Callers \ {c} : Rests(d)
    BY <1>7, StoreWordDoes
  <2>2. Typed(users)'
    BY <1>0, <2>1 DEF Holds, Typed
  <2>3. Holds(c)'
    BY <1>0, <2>1 DEF Holds, Typed
  <2>4. Len(heap') \in Nat /\ Len(heap) <= Len(heap') /\ IsSeq(heap')
    BY <2>1 DEF UInv, IsSeq
  <2> QED BY <2>1, <2>2, <2>3, <2>4, OthersHold DEF UInv
<1>8. CASE Created(c)
  <2>1. Success(NewUser(c)) # None
    BY DEF AnswersTold
  <2>2. Holds(c)'
    BY <1>0, <1>8, <2>1, CreatedDoes DEF Holds, Typed
  <2> QED BY <1>8, <2>2, CreatedDoes, KeepsUInv
<1>9. CASE Return(c)
  <2>1. Holds(c)'
    BY <1>0, <1>9, ReturnDoes DEF Holds, Typed
  <2> QED BY <1>9, <2>1, ReturnDoes, KeepsUInv
<1> QED BY <1>1, <1>2, <1>3, <1>4, <1>5, <1>6, <1>7, <1>8, <1>9 DEF Step

LEMMA NextUInv == ASSUME AnswersTold PROVE UInv /\ [Next]_vars => UInv'
<1> SUFFICES ASSUME UInv, [Next]_vars PROVE UInv'
  OBVIOUS
<1>1. CASE UNCHANGED vars
  BY <1>1 DEF vars, local, UInv, AreFunctions, Holds, Typed
<1>2. CASE Next
  BY <1>2, StepUInv DEF Next
<1> QED BY <1>1, <1>2

\* Every reachable state of the service is well typed, whatever the callers
\* are, however many they are, and however their accesses to the header race.
THEOREM UsersTypeCorrect ==
  ASSUME AnswersTold
  PROVE  Spec => []TypeOK
<1>1. UInv => TypeOK
  <2> SUFFICES ASSUME UInv PROVE TypeOK
    OBVIOUS
  <2>1. users.array \in DOMAIN heap /\ users.length \in Nat /\ users.capacity \in Nat
    BY DEF UInv, IsSeq, Typed
  <2>2. ASSUME NEW c \in Callers
        PROVE  /\ request[c] = None <=> step[c] = "idle"
               /\ answer[c] # None <=> step[c] = "answered"
               /\ pending[c] # {} => step[c] = "stores"
    BY UsersAssumption DEF UInv, Holds
  <2> QED BY <2>1, <2>2 DEF TypeOK, UInv, AreFunctions, Positions
<1> QED BY <1>1, InitUInv, NextUInv, PTL DEF Spec

-----------------------------------------------------------------------------
(* ListUsers.  The loop that keeps the users with a role is a recursive    *)
(* function: it has a value because each turn has one, and what it keeps   *)
(* is known by counting the turns.                                         *)

\* One turn of the loop of ListUsers, on what the turns before have kept.
Turned(role, slice, kept, n) ==
  IF n = 0 THEN <<>>
  ELSE IF role \in {AnyRole, slice[n].role} THEN Append(kept[n - 1], slice[n])
                                            ELSE kept[n - 1]

\* The loop has a result after every turn.
LEMMA FilterRuns ==
  ASSUME NEW role, NEW slice, IsSeq(slice)
  PROVE  \E kept : /\ kept = [n \in 0 .. Len(slice) |-> Turned(role, slice, kept, n)]
                   /\ WithRole(role, slice) = kept[Len(slice)]
<1> DEFINE N == Len(slice)
           Runs(n) == \E kept : kept = [k \in 0 .. n |-> Turned(role, slice, kept, k)]
           P == {n \in 0 .. N : Runs(n)}
<1>1. N \in Nat
  BY DEF IsSeq
<1>2. 0 \in P
  <2> DEFINE kept == [k \in 0 .. 0 |-> <<>>]
  <2>1. kept = [k \in 0 .. 0 |-> Turned(role, slice, kept, k)]
    BY DEF Turned
  <2> HIDE DEF kept
  <2>2. Runs(0)
    BY <2>1
  <2> HIDE DEF Runs
  <2> QED BY <1>1, <2>2
<1>3. ASSUME NEW n \in 1 .. N, n - 1 \in P
      PROVE  n \in P
  <2>1. PICK kept : kept = [k \in 0 .. n - 1 |-> Turned(role, slice, kept, k)]
    BY <1>3
  <2> DEFINE more == [k \in 0 .. n |-> IF k = n THEN Turned(role, slice, kept, n) ELSE kept[k]]
  <2>2. ASSUME NEW k \in 0 .. n
        PROVE  more[k] = Turned(role, slice, more, k)
    <3>1. CASE k = 0
      <4>1. 0 \in 0 .. n - 1 /\ k # n
        BY <1>1, <3>1
      <4>2. kept[0] = Turned(role, slice, kept, 0)
        BY <2>1, <4>1
      <4> QED BY <3>1, <4>1, <4>2 DEF Turned
    <3>2. CASE k # 0
      <4>1. k - 1 \in 0 .. n /\ k - 1 # n /\ (k # n => k \in 0 .. n - 1)
        BY <1>1, <3>2
      <4>2. more[k - 1] = kept[k - 1]
        BY <4>1
      <4>3. Turned(role, slice, more, k) = Turned(role, slice, kept, k)
        BY <4>2 DEF Turned
      <4>4. CASE k = n
        BY <4>3, <4>4
      <4>5. CASE k # n
        <5>1. more[k] = kept[k]
          BY <4>5
        <5>2. kept[k] = Turned(role, slice, kept, k)
          BY <2>1, <4>1, <4>5
        <5> QED BY <4>3, <5>1, <5>2
      <4> QED BY <4>4, <4>5
    <3> QED BY <3>1, <3>2
  <2>3. more = [k \in 0 .. n |-> more[k]]
    OBVIOUS
  <2> HIDE DEF more
  <2>4. more = [k \in 0 .. n |-> Turned(role, slice, more, k)]
    BY <2>2, <2>3
  <2>5. n \in 0 .. N
    BY <1>1
  <2> QED BY <2>4, <2>5
<1>4. Runs(N)
  <2> HIDE DEF Runs
  <2>1. \A n \in 1 .. N : n - 1 \in P => n \in P
    BY <1>3
  <2>2. N \in 0 .. N
    BY <1>1
  <2> HIDE DEF P
  <2>3. N \in P
    BY <1>1, <1>2, <2>1, <2>2, CountingUp
  <2> QED BY <2>3 DEF P
<1> DEFINE filtered == CHOOSE kept : kept = [n \in 0 .. N |-> Turned(role, slice, kept, n)]
<1>5. filtered = [n \in 0 .. N |-> Turned(role, slice, filtered, n)]
  BY <1>4
<1>6. WithRole(role, slice) = filtered[N]
  BY DEF WithRole, Turned
<1> QED BY <1>5, <1>6

\* The users with the role among the first n, and how many they are.
Having(role, slice, n) == {i \in 1 .. n : role \in {AnyRole, slice[i].role}}
Count(role, slice, n)  == Cardinality(Having(role, slice, n))

\* They are finitely many.
LEMMA CountType ==
  ASSUME NEW role, NEW slice, NEW n \in Nat
  PROVE  /\ IsFiniteSet(Having(role, slice, n)) /\ Count(role, slice, n) \in Nat
         /\ n = 0 => Having(role, slice, n) = {} /\ Count(role, slice, n) = 0
<1> DEFINE H == Having(role, slice, n)
<1>1. IsFiniteSet(1 .. n) /\ H \in SUBSET (1 .. n)
  BY FS_Interval DEF Having
<1>2. n = 0 => H = {}
  BY DEF Having
<1> HIDE DEF H
<1>3. IsFiniteSet(H) /\ Cardinality(H) \in Nat
  BY <1>1, FS_Subset, FS_CardinalityType
<1>4. n = 0 => Cardinality(H) = 0
  BY <1>2, FS_EmptySet
<1> QED BY <1>2, <1>3, <1>4 DEF Count, H

\* One more counts if it has the role.
LEMMA CountStep ==
  ASSUME NEW role, NEW slice, NEW n \in Nat \ {0}
  PROVE  /\ role \in {AnyRole, slice[n].role} =>
              /\ Having(role, slice, n) = Having(role, slice, n - 1) \cup {n}
              /\ Count(role, slice, n) = Count(role, slice, n - 1) + 1
         /\ role \notin {AnyRole, slice[n].role} =>
              /\ Having(role, slice, n) = Having(role, slice, n - 1)
              /\ Count(role, slice, n) = Count(role, slice, n - 1)
<1> DEFINE G == Having(role, slice, n - 1)
           H == Having(role, slice, n)
<1>1. \A i \in 1 .. n : i = n \/ i \in 1 .. n - 1
  OBVIOUS
<1>2. n \in 1 .. n /\ n \notin 1 .. n - 1 /\ 1 .. n - 1 \subseteq 1 .. n /\ n - 1 \in Nat
  OBVIOUS
<1>3. IsFiniteSet(G)
  BY <1>2, CountType
<1>4. CASE role \in {AnyRole, slice[n].role}
  <2>1. H = G \cup {n} /\ n \notin G
    BY <1>1, <1>2, <1>4 DEF Having
  <2> HIDE DEF G, H
  <2>2. Cardinality(H) = Cardinality(G) + 1
    BY <1>3, <2>1, FS_AddElement
  <2> QED BY <1>4, <2>1, <2>2 DEF Count, G, H
<1>5. CASE role \notin {AnyRole, slice[n].role}
  <2>1. H = G
    BY <1>1, <1>2, <1>5 DEF Having
  <2> QED BY <1>5, <2>1 DEF Count
<1> QED BY <1>4, <1>5

\* There are fewer before a user with the role than there are with it.
LEMMA CountsGrow ==
  ASSUME NEW role, NEW slice, NEW n \in Nat, NEW i \in Having(role, slice, n)
  PROVE  Count(role, slice, i - 1) \in Nat /\ Count(role, slice, i - 1) < Count(role, slice, n)
<1> DEFINE G == Having(role, slice, i - 1)
           H == Having(role, slice, n)
<1>1. i \in 1 .. n /\ i - 1 \in Nat
  BY DEF Having
<1>2. IsFiniteSet(H) /\ Cardinality(H) \in Nat /\ Cardinality(G) \in Nat
  BY <1>1, CountType DEF Count
<1>3. G \in SUBSET H /\ i \notin G /\ i \in H
  BY <1>1 DEF Having
<1> HIDE DEF G, H
<1>4. Cardinality(G) <= Cardinality(H) /\ Cardinality(G) # Cardinality(H)
  BY <1>2, <1>3, FS_Subset
<1>5. Cardinality(G) < Cardinality(H)
  BY <1>2, <1>4
<1> QED BY <1>2, <1>5 DEF Count, G, H

\* What the loop has kept after n turns: the users with the role among the
\* first n, in their order, each behind as many as there are before it.
Kept(role, slice, n, kept) ==
  /\ IsSeq(kept) /\ Len(kept) = Count(role, slice, n)
  /\ \A i \in Having(role, slice, n) : kept[Count(role, slice, i - 1) + 1] = slice[i]
  /\ \A x \in 0 .. Count(role, slice, n) - 1 :
       \E i \in Having(role, slice, n) : Count(role, slice, i - 1) = x

\* That is so after every turn, hence at the end.
LEMMA FilterKeeps ==
  ASSUME NEW role, NEW slice, IsSeq(slice)
  PROVE  Kept(role, slice, Len(slice), WithRole(role, slice))
<1> DEFINE N == Len(slice)
           C(n) == Count(role, slice, n)
           H(n) == Having(role, slice, n)
<1>1. N \in Nat
  BY DEF IsSeq
<1>2. PICK kept : /\ kept = [n \in 0 .. N |-> Turned(role, slice, kept, n)]
                  /\ WithRole(role, slice) = kept[N]
  BY FilterRuns
<1> DEFINE P == {n \in 0 .. N : Kept(role, slice, n, kept[n])}
<1>3. 0 \in P
  <2>1. kept[0] = <<>> /\ 0 \in 0 .. N
    <3>1. 0 \in 0 .. N
      BY <1>1
    <3>2. kept[0] = Turned(role, slice, kept, 0)
      BY <1>2, <3>1
    <3> QED BY <3>1, <3>2 DEF Turned
  <2>2. IsSeq(<<>>) /\ Len(<<>>) = 0
    BY DEF IsSeq
  <2>3. C(0) = 0 /\ H(0) = {}
    BY CountType
  <2> QED BY <2>1, <2>2, <2>3 DEF Kept
<1>4. ASSUME NEW n \in 1 .. N, n - 1 \in P
      PROVE  n \in P
  <2>1. n \in Nat \ {0} /\ n - 1 \in 0 .. N /\ n - 1 \in Nat /\ n \in 0 .. N
    BY <1>1
  <2>2. C(n) \in Nat /\ C(n - 1) \in Nat
    BY <2>1, CountType
  <2>3. kept[n] = IF role \in {AnyRole, slice[n].role} THEN Append(kept[n - 1], slice[n])
                                                       ELSE kept[n - 1]
    <3>1. kept[n] = Turned(role, slice, kept, n)
      BY <1>2, <2>1
    <3> QED BY <2>1, <3>1 DEF Turned
  <2> DEFINE old == kept[n - 1]
  <2>4. Kept(role, slice, n - 1, old)
    BY <1>4
  <2>5. CASE role \in {AnyRole, slice[n].role}
    <3> DEFINE new == Append(old, slice[n])
    <3>1. H(n) = H(n - 1) \cup {n} /\ C(n) = C(n - 1) + 1
      BY <2>1, <2>5, CountStep
    <3>2. /\ IsSeq(new) /\ Len(new) = C(n) /\ new[C(n)] = slice[n]
          /\ \A k \in 1 .. C(n - 1) : new[k] = old[k]
      <4>1. IsSeq(old) /\ Len(old) = C(n - 1)
        BY <2>4 DEF Kept
      <4> HIDE DEF new, old
      <4>2. /\ IsSeq(Append(old, slice[n])) /\ Len(Append(old, slice[n])) = Len(old) + 1
            /\ Append(old, slice[n])[Len(old) + 1] = slice[n]
            /\ \A k \in 1 .. Len(old) : Append(old, slice[n])[k] = old[k]
        BY <4>1, Appended
      <4> QED BY <3>1, <4>1, <4>2 DEF new
    <3> HIDE DEF new, old
    <3>3. ASSUME NEW i \in H(n)
          PROVE  new[C(i - 1) + 1] = slice[i]
      <4>1. CASE i = n
        BY <2>2, <3>1, <3>2, <4>1
      <4>2. CASE i # n
        <5>1. i \in H(n - 1) /\ i - 1 \in Nat
          BY <3>1, <3>3, <4>2 DEF Having
        <5>2. C(i - 1) \in Nat /\ C(i - 1) < C(n - 1)
          BY <2>1, <5>1, CountsGrow
        <5>3. old[C(i - 1) + 1] = slice[i]
          BY <2>4, <5>1 DEF Kept
        <5> HIDE DEF C
        <5>4. C(i - 1) + 1 \in 1 .. C(n - 1)
          BY <2>2, <5>2
        <5> QED BY <3>2, <5>3, <5>4
      <4> QED BY <4>1, <4>2
    <3>4. ASSUME NEW x \in 0 .. C(n) - 1
          PROVE  \E i \in H(n) : C(i - 1) = x
      <4>1. CASE x = C(n - 1)
        BY <3>1, <4>1
      <4>2. CASE x # C(n - 1)
        <5>1. x \in 0 .. C(n - 1) - 1
          BY <2>2, <3>1, <4>2
        <5> QED BY <2>4, <3>1, <5>1 DEF Kept
      <4> QED BY <4>1, <4>2
    <3>5. kept[n] = new
      BY <2>3, <2>5 DEF new, old
    <3>6. Kept(role, slice, n, new)
      BY <3>2, <3>3, <3>4 DEF Kept
    <3> QED BY <2>1, <3>5, <3>6
  <2>6. CASE role \notin {AnyRole, slice[n].role}
    <3>1. H(n) = H(n - 1) /\ C(n) = C(n - 1)
      BY <2>1, <2>6, CountStep
    <3>2. kept[n] = old
      BY <2>3, <2>6
    <3> QED BY <2>1, <2>4, <3>1, <3>2 DEF Kept
  <2> QED BY <2>5, <2>6
<1>5. N \in P
  <2>1. \A n \in 1 .. N : n - 1 \in P => n \in P
    BY <1>4
  <2>2. N \in 0 .. N
    BY <1>1
  <2> HIDE DEF P
  <2> QED BY <1>1, <1>3, <2>1, <2>2, CountingUp
<1> QED BY <1>2, <1>5

\* Where a page begins, and the users on it.
PageStart(role, slice, offset) ==
  IF offset \in 1 .. Count(role, slice, Len(slice)) - 1 THEN offset ELSE 0

OnPage(role, slice, offset, limit) ==
  {i \in Having(role, slice, Len(slice)) :
     /\ Count(role, slice, i - 1) >= PageStart(role, slice, offset)
     /\ limit > 0 => Count(role, slice, i - 1) < PageStart(role, slice, offset) + limit}

Page(role, slice, offset, limit) == UpTo(From(WithRole(role, slice), offset), limit)

\* ListUsers cuts the page out of the users with the role: from the offset if
\* it lies within them, and at most as many as the limit if there is one.
LEMMA PageIsCut ==
  ASSUME NEW role, NEW slice, IsSeq(slice), NEW offset \in Int, NEW limit \in Int
  PROVE  /\ Len(Page(role, slice, offset, limit)) = Cardinality(OnPage(role, slice, offset, limit))
         /\ \A i \in OnPage(role, slice, offset, limit) :
              Page(role, slice, offset, limit)[Count(role, slice, i - 1)
                                               - PageStart(role, slice, offset) + 1] = slice[i]
<1> DEFINE N == Len(slice)
           K == Count(role, slice, N)
           B(i) == Count(role, slice, i - 1)
           M == Having(role, slice, N)
           start == IF offset \in 1 .. K - 1 THEN offset ELSE 0
           shown == {i \in M : B(i) >= start /\ (limit > 0 => B(i) < start + limit)}
           kept == WithRole(role, slice)
           rest == From(kept, offset)
           page == UpTo(rest, limit)
           size == IF limit > 0 /\ limit < K - start THEN limit ELSE K - start
<1>1. N \in Nat /\ K \in Nat /\ IsFiniteSet(M)
  BY CountType DEF IsSeq
<1>2. Kept(role, slice, N, kept)
  BY FilterKeeps
<1>3. /\ IsSeq(kept) /\ Len(kept) = K
      /\ \A i \in M : kept[B(i) + 1] = slice[i]
      /\ \A x \in 0 .. K - 1 : \E i \in M : B(i) = x
  BY <1>2 DEF Kept
<1>4. \A i \in M : B(i) \in 0 .. K - 1
  <2> TAKE i \in M
  <2>1. B(i) \in Nat /\ B(i) < K
    BY <1>1, CountsGrow
  <2> HIDE DEF B, K
  <2> QED BY <1>1, <2>1
<1>5. \A i, k \in M : B(i) = B(k) => i = k
  <2> SUFFICES ASSUME NEW i \in M, NEW k \in M, i < k PROVE B(i) < B(k)
    <3>1. \A i \in M : i \in Nat
      BY DEF Having
    <3>2. \A i, k \in M : i # k => i < k \/ k < i
      BY <3>1
    <3> HIDE DEF B, M
    <3>3. \A i \in M : ~(B(i) < B(i))
      BY <1>4
    <3> QED BY <1>4, <3>2
  <2>1. k - 1 \in Nat /\ i \in Having(role, slice, k - 1)
    BY DEF Having
  <2> QED BY <2>1, CountsGrow
<1>6. start \in Nat /\ K - start \in Nat /\ size \in Nat /\ size <= K - start
      /\ (limit > 0 => size <= limit) /\ (size < K - start => size = limit)
  <2> HIDE DEF K
  <2> QED BY <1>1
<1>7. /\ IsSeq(rest) /\ Len(rest) = K - start
      /\ \A x \in 1 .. K - start : rest[x] = kept[start + x]
  <2> HIDE DEF K, kept
  <2>1. CASE offset > 0 /\ offset < K
    <3>1. rest = SubSeq(kept, offset + 1, K) /\ start = offset
      BY <1>1, <1>3, <2>1 DEF From
    <3>2. offset + 1 \in 1 .. Len(kept) /\ K \in 1 .. Len(kept) /\ offset + 1 <= K
          /\ K - (offset + 1) + 1 = K - offset /\ offset + 1 - 1 = offset
      BY <1>1, <1>3, <2>1
    <3>3. /\ IsSeq(SubSeq(kept, offset + 1, K)) /\ Len(SubSeq(kept, offset + 1, K)) = K - (offset + 1) + 1
          /\ \A x \in 1 .. K - (offset + 1) + 1 :
               SubSeq(kept, offset + 1, K)[x] = kept[offset + 1 - 1 + x]
      BY <1>3, <3>2, Cut
    <3> HIDE DEF rest, start
    <3> QED BY <3>1, <3>2, <3>3
  <2>2. CASE ~(offset > 0 /\ offset < K)
    <3>1. rest = kept /\ start = 0
      BY <1>1, <1>3, <2>2 DEF From
    <3> HIDE DEF rest, start
    <3> QED BY <1>1, <1>3, <3>1
  <2> QED BY <2>1, <2>2
<1>8. Len(page) = size /\ \A x \in 1 .. size : page[x] = rest[x]
  <2> HIDE DEF K, rest, start
  <2>1. CASE limit > 0 /\ limit < K - start
    <3>1. page = SubSeq(rest, 1, limit) /\ size = limit
      BY <1>7, <2>1 DEF UpTo
    <3>2. 1 \in 1 .. Len(rest) /\ limit \in 1 .. Len(rest) /\ 1 <= limit
          /\ limit - 1 + 1 = limit /\ \A x \in Int : 1 - 1 + x = x
      BY <1>6, <1>7, <2>1
    <3>3. /\ Len(SubSeq(rest, 1, limit)) = limit - 1 + 1
          /\ \A x \in 1 .. limit - 1 + 1 : SubSeq(rest, 1, limit)[x] = rest[1 - 1 + x]
      BY <1>7, <3>2, Cut
    <3> HIDE DEF page, size
    <3> QED BY <3>1, <3>2, <3>3
  <2>2. CASE ~(limit > 0 /\ limit < K - start)
    BY <1>7, <2>2 DEF UpTo
  <2> QED BY <2>1, <2>2
<1>9. \A i \in M : i \in shown <=> B(i) \in start .. start + size - 1
  <2> TAKE i \in M
  <2>1. i \in shown <=> B(i) >= start /\ (limit > 0 => B(i) < start + limit)
    OBVIOUS
  <2>2. B(i) \in Int /\ B(i) <= K - 1 /\ K \in Nat
    BY <1>1, <1>4
  <2>3. size = IF limit > 0 /\ limit < K - start THEN limit ELSE K - start
    OBVIOUS
  <2> HIDE DEF shown, B, size, start, K
  <2> QED BY <1>6, <2>1, <2>2, <2>3
<1>10. Cardinality(shown) = size
  <2> DEFINE T == start .. start + size - 1
             g == [i \in shown |-> B(i)]
  <2>1. shown \in SUBSET M
    OBVIOUS
  <2>2. IsFiniteSet(shown)
    <3> HIDE DEF shown, M
    <3> QED BY <1>1, <2>1, FS_Subset
  <2>3. Cardinality(T) = size
    <3> HIDE DEF start, size
    <3>1. Cardinality(T) = IF start > start + size - 1 THEN 0 ELSE start + size - 1 - start + 1
      BY <1>6, FS_Interval
    <3> HIDE DEF T
    <3> QED BY <1>6, <3>1
  <2>4. \A x \in T : x \in 0 .. K - 1
    <3> HIDE DEF start, size, K
    <3> QED BY <1>1, <1>6
  <2> HIDE DEF shown, M, B, T, K
  <2>5. g \in [shown -> T]
    BY <1>9, <2>1 DEF T
  <2>6. \A i, k \in shown : g[i] = g[k] => i = k
    BY <1>5, <2>1
  <2>7. \A x \in T : \E i \in shown : g[i] = x
    <3> TAKE x \in T
    <3>1. PICK i \in M : B(i) = x
      BY <1>3, <2>4
    <3>2. i \in shown
      BY <1>9, <3>1 DEF T
    <3> QED BY <3>1, <3>2
  <2> HIDE DEF g
  <2>8. g \in Bijection(shown, T)
    <3>1. g \in Injection(shown, T)
      BY <2>5, <2>6 DEF Injection, IsInjective
    <3>2. g \in Surjection(shown, T)
      BY <2>5, <2>7 DEF Surjection
    <3> QED BY <3>1, <3>2 DEF Bijection
  <2>9. ExistsBijection(shown, T)
    BY <2>8 DEF ExistsBijection
  <2> QED BY <2>2, <2>3, <2>9, FS_Bijection
<1>11. ASSUME NEW i \in shown
       PROVE  page[B(i) - start + 1] = slice[i]
  <2>1. i \in M
    OBVIOUS
  <2>2. B(i) \in start .. start + size - 1
    BY <1>9, <2>1
  <2> HIDE DEF shown, M, B, K, start, size, page, rest, kept
  <2>3. B(i) - start + 1 \in 1 .. size /\ B(i) - start + 1 \in 1 .. K - start
        /\ start + (B(i) - start + 1) = B(i) + 1
    BY <1>6, <2>2
  <2>4. page[B(i) - start + 1] = rest[B(i) - start + 1]
    BY <1>8, <2>3
  <2>5. rest[B(i) - start + 1] = kept[start + (B(i) - start + 1)]
    BY <1>7, <2>3
  <2> QED BY <1>3, <2>1, <2>3, <2>4, <2>5
<1>12. /\ start = PageStart(role, slice, offset) /\ page = Page(role, slice, offset, limit)
       /\ shown = OnPage(role, slice, offset, limit)
  BY DEF PageStart, OnPage, Page
<1> HIDE DEF start, page, shown
<1> QED BY <1>8, <1>10, <1>11, <1>12

-----------------------------------------------------------------------------
(* The directory.  With the header guarded, one CreateUser at a time is    *)
(* between its first access and its last: the header that it stores, or    *)
(* users when there is none, is whole, and what readers have loaded of the *)
(* same array ends where append may write, or before.                      *)

\* The array of a header that may be scanned: as long as it has to be, with
\* users only.
Readable(h) ==
  /\ Typed(h) /\ h.length # 0
  /\ IsSeq(heap[h.array]) /\ h.length <= Len(heap[h.array])
  /\ \A i \in 1 .. h.length : heap[h.array][i] \notin {Garbage, None}

Whole(h) == Readable(h) /\ h.capacity = Len(heap[h.array])

\* What a caller knows while others work.
Orderly(c) ==
  /\ step[c] = "loaded" => /\ request[c].op \in {"GetUser", "ListUsers"}
                           /\ Readable(header[c])
                           /\ header[c].array = Current.array => header[c].length <= Current.length
  /\ step[c] \in {"numbered", "stores"} => request[c].op = "CreateUser" /\ request[c].name # NoName
  /\ step[c] = "numbered" => number[c] = users.length
  /\ c \in Storing =>
       /\ "array" \notin pending[c] => users.array = header[c].array
       /\ "length" \notin pending[c] => users.length = header[c].length
       /\ "capacity" \notin pending[c] => users.capacity = header[c].capacity

GInv ==
  /\ \A c, d \in Creating : c = d
  /\ Whole(Current)
  /\ \A c \in Callers : Orderly(c)

\* The slice of a readable header is what its array begins with.
LEMMA ElementsOfReadable ==
  ASSUME UInv, NEW h, Readable(h)
  PROVE  /\ h.length \in Nat \ {0} /\ IsSeq(Elements(h)) /\ Len(Elements(h)) = h.length
         /\ Elements(h) = [i \in 1 .. h.length |-> heap[h.array][i]]
         /\ \A i \in 1 .. Len(Elements(h)) : Elements(h)[i] \notin {Garbage, None}
<1>1. /\ h.length \in Nat \ {0} /\ IsSeq(heap[h.array]) /\ h.length <= Len(heap[h.array])
      /\ \A i \in 1 .. h.length : heap[h.array][i] \notin {Garbage, None}
  BY DEF Readable, Typed
<1>2. \A i \in 1 .. h.length : i \in DOMAIN heap[h.array]
  BY <1>1 DEF IsSeq
<1>3. Elements(h) = [i \in 1 .. h.length |-> heap[h.array][i]]
  BY <1>2 DEF Elements
<1>4. IsSeq(Elements(h)) /\ Len(Elements(h)) = h.length
  BY <1>1, ElementsOfTyped
<1> QED BY <1>1, <1>3, <1>4

\* One CreateUser at a time.
LEMMA OneCreates ==
  ASSUME GInv, NEW c \in Callers
  PROVE  /\ c \in Storing => Storing = {c} /\ Creating = {c} /\ Current = header[c]
         /\ step[c] = "numbered" => Storing = {} /\ Creating = {c} /\ Current = users
         /\ Creating = {} => Storing = {} /\ Current = users
<1>1. \A x, y \in Creating : x = y
  BY DEF GInv
<1>2. CASE c \in Storing
  <2>1. Storing = {c} /\ Creating = {c}
    BY <1>1, <1>2 DEF Creating
  <2>2. (CHOOSE d \in Storing : TRUE) = c
    BY <2>1
  <2>3. step[c] = "stores"
    BY <1>2 DEF Storing
  <2> QED BY <1>2, <2>1, <2>2, <2>3 DEF Current
<1>3. CASE step[c] = "numbered"
  <2>1. c \in Creating /\ c \notin Storing
    BY <1>3 DEF Creating, Storing
  <2>2. Creating = {c} /\ Storing = {}
    BY <1>1, <2>1 DEF Creating
  <2> QED BY <2>1, <2>2 DEF Current
<1>4. Creating = {} => Storing = {} /\ Current = users
  BY DEF Creating, Current
<1> QED BY <1>2, <1>3, <1>4

\* A step of a caller that stores nothing, before or after it, shows the same
\* users if it leaves the heap and users alone.
LEMMA QuietSame ==
  ASSUME NEW c \in Callers, UNCHANGED <<heap, users>>, \A d \in Callers \ {c} : Rests(d),
         c \notin Storing, c \notin Storing'
  PROVE  Storing' = Storing /\ Current' = Current /\ Visible' = Visible
<1>1. \A d \in Callers \ {c} : d \in Storing' <=> d \in Storing
  BY DEF Storing, Rests
<1>2. Storing' = Storing
  <2>1. Storing \subseteq Callers /\ Storing' \subseteq Callers
    BY DEF Storing
  <2> QED BY <1>1, <2>1
<1>3. Current' = Current
  <2>1. CASE Storing = {}
    BY <1>2, <2>1 DEF Current
  <2>2. CASE Storing # {}
    <3>1. PICK d : d = CHOOSE x \in Storing : TRUE
      OBVIOUS
    <3>2. d \in Storing /\ d \in Callers \ {c}
      BY <2>2, <3>1 DEF Storing
    <3>3. Current = header[d] /\ Current' = header'[d]
      BY <1>2, <2>2, <3>1 DEF Current
    <3> QED BY <3>2, <3>3 DEF Rests
  <2> QED BY <2>1, <2>2
<1>4. Visible' = Visible
  BY <1>3 DEF Visible, Elements
<1> QED BY <1>2, <1>3, <1>4

\* What rests knows what it knew, and is told what it was to be told.
LEMMA RestsOrderly ==
  ASSUME UInv, GInv, heap' = heap, Current' = Current, NEW d \in Callers, Rests(d),
         d \in Creating => users' = users
  PROVE  Orderly(d)' /\ Outcome(d)' = Outcome(d)
<1>1. /\ Orderly(d) /\ step'[d] = step[d] /\ request'[d] = request[d] /\ header'[d] = header[d]
      /\ number'[d] = number[d] /\ pending'[d] = pending[d] /\ answer'[d] = answer[d]
  BY DEF GInv, Rests
<1>2. d \in Storing' <=> d \in Storing
  BY <1>1 DEF Storing
<1>3. step[d] = "numbered" \/ d \in Storing => users' = users
  BY DEF Creating
<1>4. Readable(header[d]) => Readable(header[d])'
  BY <1>1 DEF Readable, Typed
<1>5. Orderly(d)'
  BY <1>1, <1>2, <1>3, <1>4 DEF Orderly
<1>6. Outcome(d)' = Outcome(d)
  BY <1>1 DEF Outcome, Reply, Elements, NewUser
<1> QED BY <1>5, <1>6

\* Such a step keeps the invariant when its caller does, and begins to create
\* only while no other is creating.
LEMMA Quiet ==
  ASSUME UInv, GInv, NEW c \in Callers, UNCHANGED <<heap, users>>,
         \A d \in Callers \ {c} : Rests(d),
         c \notin Storing, c \notin Storing', step'[c] = "numbered" => Creating = {}, Orderly(c)'
  PROVE  GInv' /\ \A d \in Callers \ {c} : Outcome(d)' = Outcome(d)
<1>1. Storing' = Storing /\ Current' = Current
  BY QuietSame
<1>2. \A d \in Callers \ {c} : Orderly(d)' /\ Outcome(d)' = Outcome(d)
  BY <1>1, RestsOrderly
<1>3. \A x, y \in Creating' : x = y
  <2>1. \A d \in Callers \ {c} : d \in Creating' => d \in Creating
    BY <1>1 DEF Creating, Rests
  <2>2. c \in Creating' => Creating = {}
    BY DEF Creating
  <2>3. Creating' \subseteq Callers
    BY DEF Creating, Storing
  <2> QED BY <2>1, <2>2, <2>3 DEF GInv
<1>4. Whole(Current)'
  BY <1>1 DEF GInv, Whole, Readable, Typed
<1>5. \A d \in Callers : Orderly(d)'
  BY <1>2
<1> QED BY <1>2, <1>3, <1>4, <1>5 DEF GInv

-----------------------------------------------------------------------------
(* How the outcomes of the callers change the answers of the directory     *)

\* Nothing is seen of a step that keeps users, requests and outcomes.
LEMMA Unseen ==
  ASSUME Visible' = Visible, request' = request, \A d \in Callers : Outcome(d)' = Outcome(d)
  PROVE  UNCHANGED Contract!vars
<1>1. Outcomes' = Outcomes
  BY DEF Outcomes
<1> QED BY <1>1 DEF Contract!vars

\* The outcome of one caller.
LEMMA Told ==
  ASSUME NEW c \in Callers, NEW reply, Outcome(c)' = reply,
         \A d \in Callers \ {c} : Outcome(d)' = Outcome(d)
  PROVE  /\ Outcomes' = [Outcomes EXCEPT ![c] = reply]
         /\ Outcomes[c] = Outcome(c) /\ Outcomes'[c] = reply
BY DEF Outcomes

\* The service starts as the directory does.
LEMMA InitDirectory ==
  ASSUME AnswersTold
  PROVE  Init => GInv /\ Contract!Init
<1> SUFFICES ASSUME Init PROVE GInv /\ Contract!Init
  OBVIOUS
<1>1. UInv
  BY InitUInv
<1> DEFINE R == Range(InitialUsers)
           n == Len(InitialUsers)
<1>2. InitialUsers \in Seq(R) /\ InitialUsers # <<>> /\ None \notin R /\ Garbage \notin R
  BY UsersAssumption
<1> HIDE DEF R
<1>3. /\ IsSeq(InitialUsers) /\ n \in Nat \ {0}
      /\ \A i \in 1 .. n : InitialUsers[i] \notin {Garbage, None}
  BY <1>2, SeqIsSeq
<1>4. users = [array |-> 1, length |-> n, capacity |-> n] /\ heap[1] = InitialUsers
  BY DEF Init
<1>5. Whole(users)
  BY <1>1, <1>3, <1>4 DEF Whole, Readable, UInv
<1>6. Storing = {} /\ Creating = {} /\ Current = users
  BY DEF Init, Storing, Creating, Current
<1>7. \A c \in Callers : Orderly(c)
  BY <1>6 DEF Init, Orderly
<1>8. Elements(users) = InitialUsers
  <2>1. Elements(users) = [i \in 1 .. n |-> InitialUsers[i]]
    BY <1>1, <1>4, <1>5, ElementsOfReadable DEF Whole
  <2> QED BY <1>3, <2>1 DEF IsSeq
<1>9. Outcomes = [c \in Callers |-> None]
  <2>1. ASSUME NEW c \in Callers PROVE Outcome(c) = None
    <3>1. step[c] = "idle" /\ answer[c] = None
      BY DEF Init
    <3> QED BY <3>1 DEF Outcome
  <2> QED BY <2>1 DEF Outcomes
<1>10. Contract!Init
  BY <1>6, <1>8, <1>9 DEF Contract!Init, Init, Visible
<1> QED BY <1>5, <1>6, <1>7, <1>10 DEF GInv

-----------------------------------------------------------------------------
(* The steps                                                               *)

\* A call is heard.
LEMMA CallIsInvoke ==
  ASSUME AnswersTold, UInv, GInv, NEW c \in Callers, Call(c)
  PROVE  GInv' /\ [Contract!Next]_(Contract!vars)
<1>1. /\ step[c] = "idle" /\ step'[c] = "called"
      /\ UNCHANGED <<heap, users, header, number, pending, answer>>
      /\ \A d \in Callers \ {c} : Rests(d)
  BY CallDoes
<1>2. c \notin Storing /\ c \notin Storing'
  BY <1>1 DEF Storing
<1>3. Orderly(c)'
  BY <1>1, <1>2 DEF Orderly
<1>4. Visible' = Visible
  BY <1>1, <1>2, QuietSame
<1>5. GInv' /\ \A d \in Callers \ {c} : Outcome(d)' = Outcome(d)
  BY <1>1, <1>2, <1>3, Quiet
<1>6. Outcome(c)' = Outcome(c)
  <2>1. Outcome(c) = answer[c] /\ Outcome(c)' = answer'[c]
    BY <1>1 DEF Outcome
  <2> QED BY <1>1, <2>1
<1>7. Outcomes' = Outcomes
  BY <1>5, <1>6 DEF Outcomes
<1>8. PICK r \in Requests : request' = [request EXCEPT ![c] = r]
  BY DEF Call
<1>9. request[c] = None
  BY <1>1 DEF UInv, Holds
<1>10. Contract!Invoke(c)
  BY <1>4, <1>7, <1>8, <1>9 DEF Contract!Invoke
<1> QED BY <1>5, <1>10 DEF Contract!Next

\* An answer is taken.
LEMMA ReturnIsReturn ==
  ASSUME AnswersTold, UInv, GInv, NEW c \in Callers, Return(c)
  PROVE  GInv' /\ [Contract!Next]_(Contract!vars)
<1>1. /\ step[c] = "answered" /\ step'[c] = "idle" /\ answer'[c] = None
      /\ UNCHANGED <<heap, users>> /\ request' = [request EXCEPT ![c] = None]
      /\ \A d \in Callers \ {c} : Rests(d)
  BY ReturnDoes
<1>2. c \notin Storing /\ c \notin Storing'
  BY <1>1 DEF Storing
<1>3. Orderly(c)'
  BY <1>1, <1>2 DEF Orderly
<1>4. Visible' = Visible
  BY <1>1, <1>2, QuietSame
<1>5. GInv' /\ \A d \in Callers \ {c} : Outcome(d)' = Outcome(d)
  BY <1>1, <1>2, <1>3, Quiet
<1>6. Outcome(c) = answer[c] /\ Outcome(c)' = None
  BY <1>1 DEF Outcome
<1>7. Outcomes' = [Outcomes EXCEPT ![c] = None] /\ Outcomes[c] # None
  <2>1. answer[c] # None
    BY <1>1 DEF UInv, Holds
  <2> QED BY <1>5, <1>6, <2>1, Told
<1>8. Contract!Return(c)
  BY <1>1, <1>4, <1>7 DEF Contract!Return
<1> QED BY <1>5, <1>8 DEF Contract!Next

\* A scan answers what was to be told since the load.
LEMMA ScanIsUnseen ==
  ASSUME AnswersTold, UInv, GInv, NEW c \in Callers, Scan(c)
  PROVE  GInv' /\ [Contract!Next]_(Contract!vars)
<1>1. /\ step[c] = "loaded" /\ step'[c] = "answered" /\ answer'[c] = Reply(c)
      /\ UNCHANGED <<heap, users, request>>
      /\ \A d \in Callers \ {c} : Rests(d)
  BY ScanDoes
<1>2. c \notin Storing /\ c \notin Storing'
  BY <1>1 DEF Storing
<1>3. Orderly(c)'
  BY <1>1, <1>2 DEF Orderly
<1>4. Visible' = Visible
  BY <1>1, <1>2, QuietSame
<1>5. GInv' /\ \A d \in Callers \ {c} : Outcome(d)' = Outcome(d)
  BY <1>1, <1>2, <1>3, Quiet
<1>6. Outcome(c)' = Outcome(c)
  <2>1. Outcome(c) = Reply(c)
    BY <1>1 DEF Outcome
  <2>2. Outcome(c)' = answer'[c]
    BY <1>1 DEF Outcome
  <2> QED BY <1>1, <2>1, <2>2
<1>7. \A d \in Callers : Outcome(d)' = Outcome(d)
  BY <1>5, <1>6
<1> QED BY <1>1, <1>4, <1>5, <1>7, Unseen

\* So does the answer of CreateUser, once the header is stored.
LEMMA CreatedIsUnseen ==
  ASSUME AnswersTold, UInv, GInv, NEW c \in Callers, Created(c)
  PROVE  GInv' /\ [Contract!Next]_(Contract!vars)
<1>1. /\ step[c] = "stores" /\ step'[c] = "answered" /\ answer'[c] = Success(NewUser(c))
      /\ pending[c] = {} /\ UNCHANGED <<heap, users, request>>
      /\ \A d \in Callers \ {c} : Rests(d)
  BY CreatedDoes
<1>2. c \notin Storing /\ c \notin Storing'
  BY <1>1 DEF Storing
<1>3. Orderly(c)'
  BY <1>1, <1>2 DEF Orderly
<1>4. Visible' = Visible
  BY <1>1, <1>2, QuietSame
<1>5. GInv' /\ \A d \in Callers \ {c} : Outcome(d)' = Outcome(d)
  BY <1>1, <1>2, <1>3, Quiet
<1>6. Outcome(c)' = Outcome(c)
  <2>1. Outcome(c) = Success(NewUser(c))
    BY <1>1 DEF Outcome
  <2>2. Outcome(c)' = answer'[c]
    BY <1>1 DEF Outcome
  <2> QED BY <1>1, <2>1, <2>2
<1>7. \A d \in Callers : Outcome(d)' = Outcome(d)
  BY <1>5, <1>6
<1> QED BY <1>1, <1>4, <1>5, <1>7, Unseen

\* Reading the length for an id shows nothing.
LEMMA NumberIsUnseen ==
  ASSUME AnswersTold, UInv, GInv, NEW c \in Callers, Creating = {}, Number(c)
  PROVE  GInv' /\ [Contract!Next]_(Contract!vars)
<1>1. /\ step[c] = "called" /\ step'[c] = "numbered" /\ number'[c] = users.length
      /\ request[c].op = "CreateUser" /\ request[c].name # NoName
      /\ UNCHANGED <<heap, users, request, header, pending, answer>>
      /\ \A d \in Callers \ {c} : Rests(d)
  BY NumberDoes
<1>2. c \notin Storing /\ c \notin Storing'
  BY <1>1 DEF Storing
<1>3. Orderly(c)'
  BY <1>1, <1>2 DEF Orderly
<1>4. Visible' = Visible
  BY <1>1, <1>2, QuietSame
<1>5. GInv' /\ \A d \in Callers \ {c} : Outcome(d)' = Outcome(d)
  BY <1>1, <1>2, <1>3, Quiet
<1>6. Outcome(c) = answer[c] /\ Outcome(c)' = answer'[c]
  BY <1>1 DEF Outcome
<1>7. \A d \in Callers : Outcome(d)' = Outcome(d)
  BY <1>1, <1>5, <1>6
<1> QED BY <1>1, <1>4, <1>5, <1>7, Unseen

\* A refusal is the directory's.
LEMMA RefuseIsPerform ==
  ASSUME AnswersTold, UInv, GInv, NEW c \in Callers, Refuse(c)
  PROVE  GInv' /\ [Contract!Next]_(Contract!vars)
<1>1. /\ step[c] = "called" /\ step'[c] = "answered" /\ answer'[c] = InvalidArgument
      /\ request[c].op = "CreateUser" /\ request[c].name = NoName
      /\ UNCHANGED <<heap, users, request>>
      /\ \A d \in Callers \ {c} : Rests(d)
  BY RefuseDoes
<1>2. c \notin Storing /\ c \notin Storing'
  BY <1>1 DEF Storing
<1>3. Orderly(c)'
  BY <1>1, <1>2 DEF Orderly
<1>4. Visible' = Visible
  BY <1>1, <1>2, QuietSame
<1>5. GInv' /\ \A d \in Callers \ {c} : Outcome(d)' = Outcome(d)
  BY <1>1, <1>2, <1>3, Quiet
<1>6. Outcome(c) = answer[c] /\ Outcome(c)' = answer'[c]
  BY <1>1 DEF Outcome
<1>7. PICK y : y = InvalidArgument
  OBVIOUS
<1>8. /\ Outcomes' = [Outcomes EXCEPT ![c] = y] /\ Outcomes[c] = answer[c] /\ Outcomes'[c] = y
  BY <1>1, <1>5, <1>6, <1>7, Told
<1>9. request[c] # None /\ answer[c] = None /\ y # None /\ y = Contract!InvalidArgument
  <2>1. request[c] \in Requests /\ answer[c] = None
    BY <1>1 DEF UInv, Holds
  <2> QED BY <1>7, <2>1, UsersAssumption DEF AnswersTold, InvalidArgument, Contract!InvalidArgument
<1>10. Contract!Perform(c)
  BY <1>1, <1>4, <1>8, <1>9 DEF Contract!Perform, Contract!Answer
<1> QED BY <1>5, <1>10 DEF Contract!Next

\* The stores of the words are not seen either: what was current when append
\* made the header still is.
LEMMA StoreWordIsUnseen ==
  ASSUME AnswersTold, UInv, GInv, NEW c \in Callers, StoreWord(c)
  PROVE  GInv' /\ [Contract!Next]_(Contract!vars)
<1>1. PICK w \in pending[c] :
         /\ step[c] = "stores" /\ pending'[c] = pending[c] \ {w}
         /\ users' = [array |-> IF w = "array" THEN header[c].array ELSE users.array,
                      length |-> IF w = "length" THEN header[c].length ELSE users.length,
                      capacity |-> IF w = "capacity" THEN header[c].capacity ELSE users.capacity]
         /\ UNCHANGED <<heap, step, request, answer, header, number>>
         /\ \A d \in Callers \ {c} : Rests(d)
  BY StoreWordDoes
<1>2. c \in Storing
  BY <1>1 DEF Storing
<1>3. Storing = {c} /\ Creating = {c} /\ Current = header[c]
  BY <1>2, OneCreates
<1>4. Holds(c) /\ Orderly(c) /\ Typed(users)
  BY DEF UInv, GInv
<1>5. \A d \in Callers \ {c} : d \notin Creating /\ d \notin Creating' /\ d \notin Storing'
  <2>1. \A d \in Callers \ {c} : d \notin Creating
    BY <1>3
  <2> QED BY <1>1, <2>1 DEF Creating, Storing, Rests
<1>6. /\ "array" \notin pending'[c] => users'.array = header[c].array
      /\ "length" \notin pending'[c] => users'.length = header[c].length
      /\ "capacity" \notin pending'[c] => users'.capacity = header[c].capacity
  BY <1>1, <1>2, <1>4 DEF Orderly
<1>7. Current' = Current
  <2>1. CASE c \in Storing'
    <3>1. Storing' = {c}
      BY <1>5, <2>1 DEF Storing
    <3>2. (CHOOSE d \in Storing' : TRUE) = c
      BY <3>1
    <3>3. Current' = header'[c]
      BY <3>1, <3>2 DEF Current
    <3> QED BY <1>1, <1>3, <3>3
  <2>2. CASE c \notin Storing'
    <3>1. Storing' = {}
      BY <1>5, <2>2 DEF Storing
    <3>2. pending'[c] = {}
      BY <1>1, <2>2 DEF Storing
    <3>3. users' = [array |-> header[c].array, length |-> header[c].length,
                    capacity |-> header[c].capacity]
      BY <1>1, <1>6, <3>2
    <3>4. users' = header[c]
      BY <1>4, <3>3 DEF Holds, Typed
    <3> QED BY <1>3, <3>1, <3>4 DEF Current
  <2> QED BY <2>1, <2>2
<1>8. Visible' = Visible
  BY <1>1, <1>7 DEF Visible, Elements
<1>9. \A d \in Callers \ {c} : Orderly(d)' /\ Outcome(d)' = Outcome(d)
  BY <1>1, <1>5, <1>7, RestsOrderly
<1>10. Orderly(c)'
  BY <1>1, <1>4, <1>6 DEF Orderly
<1>11. Outcome(c)' = Outcome(c)
  <2>1. Outcome(c) = Success(NewUser(c))
    BY <1>1 DEF Outcome
  <2>2. Outcome(c)' = Success(NewUser(c)')
    BY <1>1 DEF Outcome, Success
  <2>3. NewUser(c)' = NewUser(c)
    BY <1>1 DEF NewUser
  <2> QED BY <2>1, <2>2, <2>3
<1>12. Whole(Current)'
  BY <1>1, <1>7 DEF GInv, Whole, Readable, Typed
<1>13. \A x, y \in Creating' : x = y
  <2>1. Creating' \subseteq Callers
    BY DEF Creating, Storing
  <2> QED BY <1>5, <2>1
<1>14. GInv' /\ \A d \in Callers : Outcome(d)' = Outcome(d)
  BY <1>9, <1>10, <1>11, <1>12, <1>13 DEF GInv
<1> QED BY <1>1, <1>8, <1>14, Unseen

\* A scan of users only finds what the directory has under the id.
LEMMA ScanFinds ==
  ASSUME NEW id, NEW slice, slice = Visible, IsSeq(slice),
         \A i \in 1 .. Len(slice) : slice[i] \notin {Garbage, None}
  PROVE  GetUser(id, slice) = Contract!Found(id)
<1> DEFINE I == {i \in 1 .. Len(slice) : slice[i] \in {Garbage, None} \/ slice[i].id = id}
           J == {i \in DOMAIN slice : slice[i].id = id}
           n == SelectInSeq(slice, LAMBDA u : u \in {Garbage, None} \/ u.id = id)
<1>1. I = J /\ I \in SUBSET Nat /\ \A i \in I : i \in 1 .. Len(slice)
  BY DEF IsSeq
<1>2. n = IF I # {} THEN Min(I) ELSE 0
  BY DEF SelectInSeq
<1>3. Contract!Found(id) = IF J = {} THEN Contract!NotFound
                           ELSE Contract!Success(slice[CHOOSE i \in J : \A j \in J : i <= j])
  BY DEF Contract!Found
<1>4. GetUser(id, slice) = IF n = 0 THEN NotFound
                           ELSE IF slice[n] \in {Garbage, None} THEN Crash ELSE Success(slice[n])
  BY DEF GetUser
<1> HIDE DEF I, J, n
<1>5. CASE I = {}
  BY <1>1, <1>2, <1>3, <1>4, <1>5 DEF NotFound, Contract!NotFound
<1>6. CASE I # {}
  <2>1. Min(I) \in I /\ Min(I) \in 1 .. Len(slice) /\ Min(I) # 0
    <3>1. Min(I) \in I
      BY <1>1, <1>6, MinType
    <3>2. \A k : k \in 1 .. Len(slice) => k # 0
      OBVIOUS
    <3> QED BY <1>1, <3>1, <3>2, Zenon
  <2>2. n = Min(I)
    BY <1>2, <1>6
  <2>3. Min(I) = CHOOSE i \in J : \A j \in J : i <= j
    BY <1>1 DEF Min
  <2>4. GetUser(id, slice) = Success(slice[n])
    BY <1>4, <2>1, <2>2
  <2> QED BY <1>1, <1>3, <1>6, <2>2, <2>3, <2>4 DEF Success, Contract!Success
<1> QED BY <1>5, <1>6

\* Both modules count with the same Cardinality.
LEMMA SameCardinality == \A S : Contract!Cardinality(S) = Cardinality(S)
BY DEF Contract!Cardinality, Cardinality, Contract!IsFiniteSet, IsFiniteSet

\* What ListUsers answers is a page of the directory.
LEMMA ListIsPage ==
  ASSUME NEW role, NEW offset \in Int, NEW limit \in Int,
         NEW slice, slice = Visible, IsSeq(slice)
  PROVE  Contract!IsPage(Page(role, slice, offset, limit), role, offset, limit)
<1> DEFINE N == Len(slice)
           K == Count(role, slice, N)
           B(i) == Count(role, slice, i - 1)
           M == Having(role, slice, N)
           start == PageStart(role, slice, offset)
           shown == OnPage(role, slice, offset, limit)
           page == Page(role, slice, offset, limit)
           matching == {i \in DOMAIN Visible : role \in {AnyRole, Visible[i].role}}
           before(i) == Contract!Cardinality({j \in matching : j < i})
           first == IF offset \in 1 .. Contract!Cardinality(matching) - 1 THEN offset ELSE 0
           visible == {i \in matching : /\ before(i) >= first
                                        /\ limit > 0 => before(i) < first + limit}
<1>1. DOMAIN slice = 1 .. N /\ N \in Nat
  BY DEF IsSeq
<1>2. Len(page) = Cardinality(shown)
  BY PageIsCut
<1>3. Len(page) = Cardinality(shown) /\ \A i \in shown : page[B(i) - start + 1] = slice[i]
  <2>1. \A i \in shown : page[Count(role, slice, i - 1) - start + 1] = slice[i]
    BY PageIsCut
  <2> QED BY <1>2, <2>1
<1>4. Contract!IsPage(page, role, offset, limit) <=>
        /\ Len(page) = Contract!Cardinality(visible)
        /\ \A i \in visible : page[before(i) - first + 1] = Visible[i]
  BY Zenon DEF Contract!IsPage
<1>5. matching = M
  BY <1>1 DEF Having
<1>6. ASSUME NEW i \in M
      PROVE  before(i) = B(i)
  <2>1. i \in 1 .. N
    BY DEF Having
  <2>2. \A j \in 1 .. N : j < i <=> j \in 1 .. i - 1
    BY <1>1, <2>1
  <2>3. 1 .. i - 1 \subseteq 1 .. N
    BY <1>1, <2>1
  <2>4. {j \in M : j < i} = Having(role, slice, i - 1)
    BY <2>2, <2>3 DEF Having
  <2> HIDE DEF matching, M
  <2>5. {j \in matching : j < i} = Having(role, slice, i - 1)
    BY <1>5, <2>4
  <2> QED BY <2>5, SameCardinality DEF Count
<1>7. first = start
  <2>1. Contract!Cardinality(matching) = K
    <3> HIDE DEF matching
    <3> QED BY <1>5, SameCardinality DEF Count
  <2> HIDE DEF matching
  <2> QED BY <2>1 DEF PageStart
<1>8. visible = shown
  <2>1. shown = {i \in M : B(i) >= start /\ (limit > 0 => B(i) < start + limit)}
    BY DEF OnPage
  <2> HIDE DEF before, B, M, matching, start, first, shown
  <2> QED BY <1>5, <1>6, <1>7, <2>1
<1>9. \A i \in visible : page[before(i) - first + 1] = Visible[i]
  <2> SUFFICES ASSUME NEW i \in shown
               PROVE  page[before(i) - first + 1] = Visible[i]
    <3> HIDE DEF visible, shown, page, before, first
    <3> QED BY <1>8
  <2>1. i \in M
    BY DEF OnPage
  <2> HIDE DEF before, B, M, start, shown, page, first
  <2> QED BY <1>3, <1>6, <1>7, <2>1
<1>10. Contract!IsPage(page, role, offset, limit)
  <2> HIDE DEF page, visible, shown, before, first
  <2> QED BY <1>3, <1>4, <1>8, <1>9, SameCardinality
<1> QED BY <1>10

\* A reader's call takes effect when it loads the header: what it is going to
\* answer is what the directory holds.
LEMMA LoadIsPerform ==
  ASSUME AnswersTold, UInv, GInv, NEW c \in Callers, Creating = {}, Load(c)
  PROVE  GInv' /\ [Contract!Next]_(Contract!vars)
<1> DEFINE slice == Elements(users)
           r == request[c]
           reply == IF r.op = "GetUser" THEN GetUser(r.id, slice) ELSE ListUsers(r, slice)
<1>1. /\ step[c] = "called" /\ step'[c] = "loaded" /\ header'[c] = users
      /\ r.op \in {"GetUser", "ListUsers"}
      /\ UNCHANGED <<heap, users, request, number, pending, answer>>
      /\ \A d \in Callers \ {c} : Rests(d)
  BY LoadDoes
<1>2. c \notin Storing /\ c \notin Storing'
  BY <1>1 DEF Storing
<1>3. Storing = {} /\ Current = users /\ Readable(users)
  BY OneCreates DEF GInv, Whole
<1>4. Current' = users /\ Visible' = Visible
  BY <1>1, <1>2, <1>3, QuietSame
<1>5. Orderly(c)'
  <2>1. Readable(header[c])'
    BY <1>1, <1>3 DEF Readable, Typed
  <2>2. header'[c].length <= Current'.length
    BY <1>1, <1>3, <1>4 DEF Readable, Typed
  <2> QED BY <1>1, <1>2, <2>1, <2>2 DEF Orderly
<1>6. GInv' /\ \A d \in Callers \ {c} : Outcome(d)' = Outcome(d)
  BY <1>1, <1>2, <1>5, Quiet
<1>7. slice = Visible
  BY <1>3 DEF Visible
<1>8. IsSeq(slice) /\ \A i \in 1 .. Len(slice) : slice[i] \notin {Garbage, None}
  BY <1>3, ElementsOfReadable
<1>9. r \in Requests /\ r # None /\ answer[c] = None
  <2>1. Holds(c)
    BY DEF UInv
  <2> QED BY <1>1, <2>1, UsersAssumption DEF Holds
<1>10. reply # None
  <2> HIDE DEF slice
  <2>1. GetUser(r.id, slice) # None
    BY DEF GetUser, AnswersTold
  <2>2. ListUsers(r, slice) # None
    BY DEF ListUsers, AnswersTold
  <2> QED BY <2>1, <2>2
<1>11. PICK y : y = reply
  OBVIOUS
<1>12. Outcome(c) = answer[c]
  BY <1>1 DEF Outcome
<1>13. Outcome(c)' = y
  <2>1. header'[c] = users /\ heap' = heap /\ request'[c] = r /\ step'[c] = "loaded"
    BY <1>1
  <2>2. Elements(header[c])' = slice
    BY <2>1 DEF Elements
  <2> HIDE DEF slice
  <2>3. Outcome(c)' = reply
    BY <2>1, <2>2 DEF Outcome, Reply
  <2> QED BY <1>11, <2>3
<1>14. /\ Outcomes' = [Outcomes EXCEPT ![c] = y] /\ Outcomes[c] = None /\ Outcomes'[c] = y
       /\ y # None
  BY <1>6, <1>9, <1>10, <1>11, <1>12, <1>13, Told
<1>15. PICK s : s = slice
  OBVIOUS
<1>16. CASE r.op = "GetUser"
  <2>1. y = Contract!Found(r.id)
    BY <1>7, <1>8, <1>11, <1>15, <1>16, ScanFinds
  <2>2. Contract!Perform(c)
    BY <1>1, <1>4, <1>9, <1>14, <1>16, <2>1 DEF Contract!Perform, Contract!Answer
  <2> QED BY <1>6, <2>2 DEF Contract!Next
<1>17. CASE r.op = "ListUsers"
  <2>1. r.offset \in Int /\ r.limit \in Int
    BY <1>9, <1>17, UsersAssumption
  <2>2. PICK page : /\ ListUsers(r, slice) = Contract!Success(page)
                    /\ Contract!IsPage(page, r.role, r.offset, r.limit)
    <3>1. PICK q : q = r
      OBVIOUS
    <3>2. PICK role : role = q.role
      OBVIOUS
    <3>3. PICK offset \in Int : offset = q.offset
      BY <2>1, <3>1
    <3>4. PICK limit \in Int : limit = q.limit
      BY <2>1, <3>1
    <3>5. IsSeq(s) /\ s = Visible
      BY <1>7, <1>8, <1>15
    <3>6. Contract!IsPage(Page(role, s, offset, limit), role, offset, limit)
      BY <3>5, ListIsPage
    <3>7. ListUsers(q, s) = Contract!Success(Page(role, s, offset, limit))
      <4>1. \A i \in DOMAIN s : s[i] \notin {Garbage, None}
        BY <1>8, <1>15 DEF IsSeq
      <4> QED BY <3>2, <3>3, <3>4, <4>1 DEF ListUsers, Page, Success, Contract!Success
    <3> QED BY <1>15, <3>1, <3>2, <3>3, <3>4, <3>6, <3>7
  <2>3. y = Contract!Success(page)
    BY <1>11, <1>17, <2>2
  <2>4. y.code = "OK" /\ y.value = page
    BY <2>3 DEF Contract!Success
  <2>5. Contract!Perform(c)
    BY <1>1, <1>4, <1>9, <1>14, <1>17, <2>2, <2>4 DEF Contract!Perform, Contract!Answer
  <2> QED BY <1>6, <2>5 DEF Contract!Next
<1> QED BY <1>1, <1>16, <1>17

\* The elements of a sequence and one more.
LEMMA AppendedElements ==
  ASSUME NEW s, IsSeq(s), NEW e
  PROVE  Append(s, e) = [i \in 1 .. Len(s) + 1 |-> IF i = Len(s) + 1 THEN e ELSE s[i]]
<1> DEFINE n == Len(s)
           S == {s[i] : i \in 1 .. n} \cup {e}
           t == Append(s, e)
<1>1. s \in Seq(S) /\ e \in S /\ n \in Nat
  BY SeqOfElements DEF IsSeq
<1> HIDE DEF S, n
<1>2. t \in Seq(S) /\ Len(t) = n + 1
  BY <1>1 DEF n
<1>3. t[n + 1] = e /\ \A i \in 1 .. n : t[i] = s[i]
  BY <1>1 DEF n
<1> HIDE DEF t
<1>4. t = [i \in 1 .. n + 1 |-> t[i]]
  BY <1>1, <1>2
<1>5. \A i \in 1 .. n + 1 : t[i] = IF i = n + 1 THEN e ELSE s[i]
  <2>1. \A i \in 1 .. n + 1 : i = n + 1 \/ i \in 1 .. n
    BY <1>1
  <2> QED BY <1>3, <2>1
<1> QED BY <1>4, <1>5 DEF t, n

\* What append writes, when no other header is being stored: the users there
\* are and the new one; and it changes no array but the one it writes behind
\* them.
LEMMA AppendArrays ==
  ASSUME UInv, GInv, NEW c \in Callers, AppendUser(c)
  PROVE  LET l == users.length
             a == users.array
             b == header'[c].array
         IN
         /\ IsSeq(heap'[b]) /\ l + 1 <= Len(heap'[b]) /\ header'[c].capacity = Len(heap'[b])
         /\ \A i \in 1 .. l + 1 : heap'[b][i] = IF i = l + 1 THEN NewUser(c) ELSE heap[a][i]
         /\ \A x \in 1 .. Len(heap) :
              heap'[x] = heap[x] \/ (x = a /\ x = b /\ Len(heap'[x]) = Len(heap[x]))
         /\ b = a \/ b \notin 1 .. Len(heap)
<1> DEFINE l == users.length
           m == users.capacity
           a == users.array
           b == header'[c].array
           e == NewUser(c)
           slice == Append(Elements(users), e)
           old == heap[a]
<1>1. /\ step[c] = "numbered" /\ l \in Nat /\ Len(heap) \in Nat \ {0} /\ Len(slice) = l + 1
  BY AppendDoes
<1>2. \/ /\ l + 1 <= m
         /\ heap' = [heap EXCEPT ![a] = IF l + 1 \in DOMAIN @ THEN [@ EXCEPT ![l + 1] = e] ELSE @]
         /\ header'[c] = [array |-> a, length |-> l + 1, capacity |-> m]
      \/ \E room \in Nat :
         /\ heap' = Append(heap, [i \in 1 .. l + 1 + room |->
                                    IF i \in DOMAIN slice THEN slice[i] ELSE None])
         /\ header'[c] = [array |-> Len(heap) + 1, length |-> l + 1, capacity |-> l + 1 + room]
  BY AppendDoes
<1>3. Whole(users) /\ Readable(users) /\ IsSeq(heap) /\ a \in 1 .. Len(heap)
  BY <1>1, OneCreates DEF GInv, Whole, UInv, Typed
<1>4. IsSeq(old) /\ l <= Len(old) /\ m = Len(old) /\ m \in Nat
  BY <1>3 DEF Whole, Readable, IsSeq
<1>5. DOMAIN slice = 1 .. l + 1 /\ \A i \in 1 .. l + 1 : slice[i] = IF i = l + 1 THEN e ELSE old[i]
  <2> DEFINE s == Elements(users)
  <2>1. /\ IsSeq(s) /\ Len(s) = l /\ \A i \in 1 .. l : s[i] = old[i]
    BY <1>3, ElementsOfReadable
  <2>2. slice = [i \in 1 .. l + 1 |-> IF i = l + 1 THEN e ELSE s[i]]
    <3> HIDE DEF s, e, l
    <3> QED BY <2>1, AppendedElements DEF s, e, l
  <2>3. \A i \in 1 .. l + 1 : i # l + 1 => i \in 1 .. l
    BY <1>1
  <2> HIDE DEF s, e, slice
  <2> QED BY <2>1, <2>2, <2>3
<1> HIDE DEF slice, e
<1>6. CASE /\ l + 1 <= m
           /\ heap' = [heap EXCEPT ![a] = IF l + 1 \in DOMAIN @ THEN [@ EXCEPT ![l + 1] = e] ELSE @]
           /\ header'[c] = [array |-> a, length |-> l + 1, capacity |-> m]
  <2> DEFINE longer == [old EXCEPT ![l + 1] = e]
             S == {old[i] : i \in 1 .. m} \cup {e}
  <2>1. l + 1 \in 1 .. m /\ DOMAIN old = 1 .. m
    BY <1>1, <1>4, <1>6 DEF IsSeq
  <2>2. heap' = [heap EXCEPT ![a] = longer] /\ b = a
    BY <1>6, <2>1
  <2> HIDE DEF longer
  <2>3. old \in Seq(S) /\ e \in S
    BY <1>4, SeqOfElements
  <2> HIDE DEF S
  <2>4. longer \in Seq(S) /\ Len(longer) = m
    BY <1>4, <2>1, <2>3 DEF longer
  <2>5. IsSeq(longer)
    BY <2>4, SeqIsSeq
  <2>6. \A i \in 1 .. l + 1 : longer[i] = IF i = l + 1 THEN e ELSE old[i]
    <3>1. \A i \in 1 .. l + 1 : i \in 1 .. m
      BY <1>1, <1>4, <2>1
    <3> QED BY <2>1, <3>1 DEF longer
  <2>7. heap'[a] = longer /\ \A x \in 1 .. Len(heap) : x # a => heap'[x] = heap[x]
    BY <1>3, <2>2 DEF IsSeq
  <2> QED BY <1>4, <1>6, <2>2, <2>4, <2>5, <2>6, <2>7 DEF e
<1>7. ASSUME NEW room \in Nat,
             heap' = Append(heap, [i \in 1 .. l + 1 + room |->
                                     IF i \in DOMAIN slice THEN slice[i] ELSE None]),
             header'[c] = [array |-> Len(heap) + 1, length |-> l + 1, capacity |-> l + 1 + room]
      PROVE  /\ IsSeq(heap'[b]) /\ l + 1 <= Len(heap'[b]) /\ header'[c].capacity = Len(heap'[b])
             /\ \A i \in 1 .. l + 1 : heap'[b][i] = IF i = l + 1 THEN e ELSE old[i]
             /\ \A x \in 1 .. Len(heap) : heap'[x] = heap[x]
             /\ b \notin 1 .. Len(heap)
  <2> DEFINE k == l + 1 + room
             new == [i \in 1 .. k |-> IF i \in DOMAIN slice THEN slice[i] ELSE None]
             S == {new[i] : i \in 1 .. k}
             T == {heap[x] : x \in 1 .. Len(heap)} \cup {new}
  <2>1. k \in Nat /\ l + 1 <= k /\ heap' = Append(heap, new)
    BY <1>1, <1>7
  <2>2. new \in [1 .. k -> S]
    OBVIOUS
  <2>3. \A i \in 1 .. l + 1 : new[i] = IF i = l + 1 THEN e ELSE old[i]
    <3>1. \A i \in 1 .. l + 1 : i \in 1 .. k
      BY <1>1, <2>1
    <3> QED BY <1>5, <3>1
  <2> HIDE DEF new, S, k
  <2>4. new \in Seq(S) /\ Len(new) = k
    BY <2>1, <2>2
  <2>5. IsSeq(new)
    BY <2>4, SeqIsSeq
  <2>6. heap \in Seq(T) /\ new \in T
    BY <1>3, SeqOfElements
  <2> HIDE DEF T
  <2>7. heap'[Len(heap) + 1] = new /\ \A x \in 1 .. Len(heap) : heap'[x] = heap[x]
    BY <2>1, <2>6
  <2>8. b = Len(heap) + 1 /\ header'[c].capacity = k
    BY <1>7 DEF k
  <2>9. b \notin 1 .. Len(heap)
    BY <1>1, <2>8
  <2> QED BY <2>1, <2>3, <2>4, <2>5, <2>7, <2>8, <2>9
<1> QED BY <1>2, <1>6, <1>7 DEF e

\* What others have loaded is not written over.
LEMMA AppendSpares ==
  ASSUME UInv, GInv, NEW c \in Callers, AppendUser(c),
         NEW h, Readable(h), h.array = users.array => h.length <= users.length
  PROVE  Readable(h)' /\ Elements(h)' = Elements(h)
<1>1. /\ Typed(h) /\ h.length # 0 /\ IsSeq(heap[h.array]) /\ h.length <= Len(heap[h.array])
      /\ \A i \in 1 .. h.length : heap[h.array][i] \notin {Garbage, None}
      /\ h.array \in 1 .. Len(heap) /\ h.length \in Nat
  BY DEF Readable, Typed
<1>2. users.length \in Nat /\ Len(heap) \in Nat /\ Len(heap') \in Nat /\ Len(heap) <= Len(heap')
  <2>1. \/ Len(heap') = Len(heap)
        \/ \E room \in Nat : Len(heap') = Len(heap) + 1
    BY AppendDoes
  <2>2. users.length \in Nat /\ Len(heap) \in Nat \ {0}
    BY AppendDoes
  <2> QED BY <2>1, <2>2
<1>3. IsSeq(heap'[h.array]) /\ Len(heap'[h.array]) = Len(heap[h.array])
      /\ \A i \in 1 .. h.length : heap'[h.array][i] = heap[h.array][i]
  <2>1. CASE heap'[h.array] = heap[h.array]
    BY <1>1, <2>1
  <2>2. CASE /\ h.array = users.array /\ h.array = header'[c].array
             /\ Len(heap'[h.array]) = Len(heap[h.array])
    <3>1. IsSeq(heap'[h.array])
          /\ \A i \in 1 .. users.length + 1 :
               heap'[h.array][i] = IF i = users.length + 1 THEN NewUser(c) ELSE heap[h.array][i]
      BY <2>2, AppendArrays
    <3>2. \A i \in 1 .. h.length : i \in 1 .. users.length + 1 /\ i # users.length + 1
      BY <1>1, <1>2, <2>2
    <3> QED BY <2>2, <3>1, <3>2
  <2> QED BY <1>1, <2>1, <2>2, AppendArrays
<1>4. Readable(h)'
  <2>1. Typed(h)'
    BY <1>1, <1>2 DEF Typed
  <2> QED BY <1>1, <1>3, <2>1 DEF Readable
<1>5. Elements(h)' = Elements(h)
  <2>1. \A i \in 1 .. h.length : i \in DOMAIN heap[h.array] /\ i \in DOMAIN heap'[h.array]
    BY <1>1, <1>3 DEF IsSeq
  <2> QED BY <1>3, <2>1 DEF Elements
<1> QED BY <1>4, <1>5

\* CreateUser takes effect when it appends: whoever loads the header next
\* finds the user.
LEMMA AppendIsPerform ==
  ASSUME AnswersTold, UInv, GInv, NEW c \in Callers, AppendUser(c)
  PROVE  GInv' /\ [Contract!Next]_(Contract!vars)
<1> DEFINE l == users.length
           a == users.array
           h == header'[c]
           e == NewUser(c)
           s == Elements(users)
           t == Elements(header[c])'
<1>1. /\ step[c] = "numbered" /\ step'[c] = "stores" /\ UNCHANGED <<users, request, number, answer>>
      /\ \A d \in Callers \ {c} : Rests(d)
      /\ l \in Nat /\ Len(heap) \in Nat \ {0} /\ IsSeq(heap')
  BY AppendDoes
<1>2. /\ h = [array |-> h.array, length |-> l + 1, capacity |-> h.capacity]
      /\ h.length = l + 1 /\ "length" \in pending'[c] /\ h.capacity \in Nat
      /\ "array" \notin pending'[c] => a = h.array
      /\ "capacity" \notin pending'[c] => users.capacity = h.capacity
      /\ h.array \in 1 .. Len(heap') /\ a \in 1 .. Len(heap)
  <2>1. Typed(users)
    BY DEF UInv
  <2>2. \/ /\ h = [array |-> a, length |-> l + 1, capacity |-> users.capacity]
           /\ pending'[c] = {"length"} /\ Len(heap') = Len(heap)
        \/ \E room \in Nat :
           /\ h = [array |-> Len(heap) + 1, length |-> l + 1, capacity |-> l + 1 + room]
           /\ pending'[c] = Words /\ Len(heap') = Len(heap) + 1
    BY AppendDoes
  <2>3. CASE /\ h = [array |-> a, length |-> l + 1, capacity |-> users.capacity]
             /\ pending'[c] = {"length"} /\ Len(heap') = Len(heap)
    BY <2>1, <2>3 DEF Typed
  <2>4. ASSUME NEW room \in Nat,
               h = [array |-> Len(heap) + 1, length |-> l + 1, capacity |-> l + 1 + room],
               pending'[c] = Words, Len(heap') = Len(heap) + 1
        PROVE  /\ h = [array |-> h.array, length |-> l + 1, capacity |-> h.capacity]
               /\ h.length = l + 1 /\ "length" \in pending'[c] /\ h.capacity \in Nat
               /\ "array" \notin pending'[c] => a = h.array
               /\ "capacity" \notin pending'[c] => users.capacity = h.capacity
               /\ h.array \in 1 .. Len(heap') /\ a \in 1 .. Len(heap)
    BY <1>1, <2>1, <2>4 DEF Typed, Words
  <2> QED BY <2>2, <2>3, <2>4
<1>3. /\ IsSeq(heap'[h.array]) /\ l + 1 <= Len(heap'[h.array]) /\ h.capacity = Len(heap'[h.array])
      /\ \A i \in 1 .. l + 1 : heap'[h.array][i] = IF i = l + 1 THEN e ELSE heap[a][i]
      /\ h.array = a \/ h.array \notin 1 .. Len(heap)
  BY AppendArrays
<1>4. Storing = {} /\ Creating = {c} /\ Current = users
  BY <1>1, OneCreates
<1>5. \A d \in Callers \ {c} : d \notin Creating /\ d \notin Creating' /\ d \notin Storing'
  <2>1. \A d \in Callers \ {c} : d \notin Creating
    BY <1>4
  <2> QED BY <1>1, <2>1 DEF Creating, Storing, Rests
<1>6. Storing' = {c} /\ Current' = h
  <2>1. c \in Storing'
    BY <1>1, <1>2 DEF Storing
  <2>2. Storing' = {c}
    BY <1>5, <2>1 DEF Storing
  <2>3. (CHOOSE d \in Storing' : TRUE) = c
    BY <2>2
  <2> QED BY <2>2, <2>3 DEF Current
<1>7. /\ Orderly(c) /\ Holds(c) /\ Whole(users) /\ Readable(users)
      /\ request[c].op = "CreateUser" /\ request[c].name # NoName /\ number[c] = l
      /\ request[c] \in Requests /\ request[c] # None /\ answer[c] = None
  <2>1. Orderly(c) /\ Holds(c) /\ Whole(users) /\ Readable(users)
    BY <1>4 DEF GInv, UInv, Whole
  <2> QED BY <1>1, <2>1, UsersAssumption DEF Orderly, Holds
<1>8. e \notin {Garbage, None}
  <2>1. request[c].name \in Names /\ number[c] + 1 \in Nat
    BY <1>1, <1>7 DEF Names
  <2>2. e \in NewUsers
    BY <2>1 DEF NewUsers, NewUser
  <2> HIDE DEF e
  <2> QED BY <2>2, UsersAssumption
<1>9. \A i \in 1 .. l : heap[a][i] \notin {Garbage, None}
  BY <1>7 DEF Readable
<1>10. Readable(header[c])' /\ Whole(Current)'
  <2>1. ASSUME NEW i \in 1 .. l + 1 PROVE heap'[h.array][i] \notin {Garbage, None}
    <3>1. i = l + 1 \/ i \in 1 .. l
      BY <1>1
    <3>2. CASE i = l + 1
      <4> HIDE DEF e
      <4> QED BY <1>3, <1>8, <3>2
    <3>3. CASE i # l + 1
      BY <1>3, <1>9, <3>1, <3>3
    <3> QED BY <3>2, <3>3
  <2>2. Typed(header[c])' /\ l + 1 # 0 /\ l + 1 \in Nat
    BY <1>1, <1>2 DEF Typed
  <2> HIDE DEF h, l, e
  <2>3. Readable(header[c])'
    BY <1>2, <1>3, <2>1, <2>2 DEF Readable, h
  <2> QED BY <1>3, <1>6, <2>3 DEF Whole, Readable, Typed, h
<1>11. ASSUME NEW d \in Callers \ {c}
       PROVE  Orderly(d)' /\ Outcome(d)' = Outcome(d)
  <2>1. Rests(d) /\ Orderly(d) /\ Holds(d) /\ step'[d] = step[d] /\ header'[d] = header[d]
        /\ request'[d] = request[d] /\ number'[d] = number[d] /\ answer'[d] = answer[d]
    BY <1>1 DEF GInv, UInv, Rests
  <2>2. step[d] # "numbered"
    BY <1>5 DEF Creating
  <2>3. CASE step[d] = "loaded"
    <3>1. PICK g : g = header[d]
      OBVIOUS
    <3>2. Readable(g) /\ (g.array = a => g.length <= l)
      BY <1>4, <2>1, <2>3, <3>1 DEF Orderly
    <3>3. Readable(g)' /\ Elements(g)' = Elements(g)
      BY <3>2, AppendSpares
    <3>4. Readable(header[d])' /\ Elements(header[d])' = Elements(header[d])
      <4>1. header'[d] = g
        BY <2>1, <3>1
      <4>2. Readable(header[d])'
        BY <3>3, <4>1 DEF Readable, Typed
      <4>3. Elements(header[d])' = Elements(header[d])
        BY <3>1, <3>3, <4>1 DEF Elements
      <4> QED BY <4>2, <4>3
    <3>5. g.array = h.array => g.length <= l + 1
      <4>1. g.array \in 1 .. Len(heap) /\ g.length \in Nat
        BY <3>2 DEF Readable, Typed
      <4> QED BY <1>1, <1>3, <3>2, <4>1
    <3>6. Orderly(d)'
      BY <1>2, <1>5, <1>6, <2>1, <2>3, <3>1, <3>4, <3>5 DEF Orderly
    <3>7. Outcome(d) = IF request[d].op = "GetUser" THEN GetUser(request[d].id, Elements(header[d]))
                       ELSE ListUsers(request[d], Elements(header[d]))
      BY <2>3 DEF Outcome, Reply
    <3>8. PICK slice : slice = Elements(header[d])
      OBVIOUS
    <3>9. Elements(header[d])' = slice
      BY <3>4, <3>8
    <3>10. PICK q : q = request[d]
      OBVIOUS
    <3>11. Outcome(d)' = IF q.op = "GetUser" THEN GetUser(q.id, slice) ELSE ListUsers(q, slice)
      BY <2>1, <2>3, <3>9, <3>10 DEF Outcome, Reply
    <3> QED BY <3>6, <3>7, <3>8, <3>10, <3>11
  <2>4. CASE step[d] # "loaded"
    <3>1. Orderly(d)'
      BY <1>5, <2>1, <2>2, <2>4 DEF Orderly
    <3>2. NewUser(d)' = NewUser(d)
      BY <2>1 DEF NewUser
    <3>3. CASE step[d] = "stores"
      <4>1. Outcome(d) = Success(NewUser(d))
        BY <3>3 DEF Outcome
      <4>2. Outcome(d)' = Success(NewUser(d)')
        BY <2>1, <3>3 DEF Outcome, Success
      <4> QED BY <3>1, <3>2, <4>1, <4>2
    <3>4. CASE step[d] # "stores"
      <4>1. Outcome(d) = answer[d]
        BY <2>4, <3>4 DEF Outcome
      <4>2. Outcome(d)' = answer'[d]
        BY <2>1, <2>4, <3>4 DEF Outcome
      <4> QED BY <2>1, <3>1, <4>1, <4>2
    <3> QED BY <3>3, <3>4
  <2> QED BY <2>3, <2>4
<1>12. Orderly(c)'
  BY <1>1, <1>2, <1>7 DEF Orderly
<1>13. GInv'
  <2>1. Creating' \subseteq Callers
    BY DEF Creating, Storing
  <2>2. \A x, y \in Creating' : x = y
    BY <1>5, <2>1
  <2> QED BY <1>10, <1>11, <1>12, <2>2 DEF GInv
<1>14. Visible = s /\ Visible' = t
  <2>1. Visible' = t
    BY <1>6 DEF Visible, Elements
  <2> QED BY <1>4, <2>1 DEF Visible
<1>15. t = Append(s, e) /\ Len(s) = l
  <2>1. /\ s = [i \in 1 .. l |-> heap[a][i]] /\ IsSeq(s) /\ Len(s) = l
    BY <1>7, ElementsOfReadable
  <2>2. t = [i \in 1 .. l + 1 |-> IF i = l + 1 THEN e ELSE heap[a][i]]
    <3>1. \A i \in 1 .. l + 1 : i \in DOMAIN heap'[h.array]
      BY <1>1, <1>3 DEF IsSeq
    <3>2. t = [i \in 1 .. h.length |->
                 IF i \in DOMAIN heap'[h.array] THEN heap'[h.array][i] ELSE Garbage]
      BY DEF Elements
    <3> HIDE DEF e, h, t, l, a
    <3> QED BY <1>2, <1>3, <3>1, <3>2
  <2>3. Append(s, e) = [i \in 1 .. l + 1 |-> IF i = l + 1 THEN e ELSE s[i]]
    <3> HIDE DEF s, e, l
    <3>1. IsSeq(s) /\ Len(s) = l
      BY <2>1
    <3>2. Append(s, e) = [i \in 1 .. Len(s) + 1 |-> IF i = Len(s) + 1 THEN e ELSE s[i]]
      BY <3>1, AppendedElements
    <3> QED BY <3>1, <3>2
  <2>4. \A i \in 1 .. l + 1 : i # l + 1 => s[i] = heap[a][i]
    <3>1. \A i \in 1 .. l + 1 : i # l + 1 => i \in 1 .. l
      BY <1>1
    <3> HIDE DEF s, l, a
    <3> QED BY <2>1, <3>1
  <2> HIDE DEF s, t, e, l, a
  <2> QED BY <2>1, <2>2, <2>3, <2>4
<1>16. PICK y : y = Contract!Success(e)
  OBVIOUS
<1>17. Outcome(c) = answer[c]
  BY <1>1 DEF Outcome
<1>18. Outcome(c)' = y /\ y # None
  <2>1. Outcome(c)' = Success(NewUser(c)')
    BY <1>1 DEF Outcome, Success
  <2>2. NewUser(c)' = e
    BY <1>1 DEF NewUser
  <2> QED BY <1>16, <2>1, <2>2 DEF Success, Contract!Success, AnswersTold
<1>19. /\ Outcomes' = [Outcomes EXCEPT ![c] = y] /\ Outcomes[c] = None /\ Outcomes'[c] = y
  BY <1>7, <1>11, <1>17, <1>18, Told
<1>20. e = [id |-> Len(Visible) + 1, name |-> request[c].name, role |-> AnyRole]
  BY <1>7, <1>14, <1>15 DEF NewUser
<1>21. Contract!Perform(c)
  <2> DEFINE u == [id |-> Len(Visible) + 1, name |-> request[c].name, role |-> AnyRole]
  <2>1. u = e
    BY <1>20
  <2> HIDE DEF e, u, s, t
  <2>2. Visible' = Append(Visible, u) /\ y = Contract!Success(u)
    BY <1>14, <1>15, <1>16, <2>1
  <2> QED BY <1>1, <1>7, <1>18, <1>19, <2>2 DEF Contract!Perform, Contract!Answer, u
<1> QED BY <1>13, <1>21 DEF Contract!Next

\* Every step of the service is one of the directory, or none.
LEMMA NextDirectory ==
  ASSUME AnswersTold
  PROVE  UInv /\ GInv /\ [GuardedNext]_vars => UInv' /\ GInv' /\ [Contract!Next]_(Contract!vars)
<1> SUFFICES ASSUME UInv, GInv, [GuardedNext]_vars
             PROVE  UInv' /\ GInv' /\ [Contract!Next]_(Contract!vars)
  OBVIOUS
<1>1. UInv'
  BY NextUInv DEF GuardedNext, Next
<1>2. CASE UNCHANGED vars
  <2>1. Storing' = Storing /\ Creating' = Creating /\ Current' = Current
    BY <1>2 DEF vars, local, Storing, Creating, Current
  <2>2. Visible' = Visible
    BY <1>2, <2>1 DEF vars, local, Visible, Elements
  <2>3. \A c \in Callers : Rests(c)
    BY <1>2 DEF vars, local, Rests
  <2>4. heap' = heap /\ users' = users /\ request' = request
    BY <1>2 DEF vars
  <2>5. \A c \in Callers : Orderly(c)' /\ Outcome(c)' = Outcome(c)
    BY <2>1, <2>3, <2>4, RestsOrderly
  <2>6. Whole(Current)'
    BY <2>1, <2>4 DEF GInv, Whole, Readable, Typed
  <2>7. GInv'
    BY <2>1, <2>5, <2>6 DEF GInv
  <2> QED BY <1>1, <2>2, <2>4, <2>5, <2>7, Unseen
<1>3. CASE GuardedNext
  <2>1. PICK c \in Callers : (Enters(c) => Creating = {}) /\ Step(c)
    BY <1>3 DEF GuardedNext
  <2>2. Load(c) \/ Number(c) => Creating = {}
    <3>1. Load(c) => Enters(c)
      BY LoadDoes DEF Enters
    <3>2. Number(c) => Enters(c)
      BY NumberDoes DEF Enters
    <3> QED BY <2>1, <3>1, <3>2
  <2>3. \/ Call(c) \/ Load(c) \/ Scan(c) \/ Refuse(c) \/ Number(c)
        \/ AppendUser(c) \/ StoreWord(c) \/ Created(c) \/ Return(c)
    BY <2>1 DEF Step
  <2> QED BY <1>1, <2>2, <2>3, CallIsInvoke, LoadIsPerform, ScanIsUnseen, RefuseIsPerform,
             NumberIsUnseen, AppendIsPerform, StoreWordIsUnseen, CreatedIsUnseen, ReturnIsReturn
<1> QED BY <1>2, <1>3

\* With the header guarded, and however many calls overlap, the service is a
\* directory: every call takes effect at one instant between its start and its
\* end.  A user is there for whoever loads the header after the append, under
\* the next number, and GetUser and ListUsers answer from all the users there
\* were at one instant, while others append to the array they scan.
THEOREM ServiceIsDirectory ==
  ASSUME AnswersTold
  PROVE  GuardedSpec => KeepsDirectory
<1>1. Init => UInv /\ GInv /\ Contract!Init
  BY InitDirectory, InitUInv
<1>2. UInv /\ GInv /\ [GuardedNext]_vars => UInv' /\ GInv' /\ [Contract!Next]_(Contract!vars)
  BY NextDirectory
<1> QED BY <1>1, <1>2, PTL DEF GuardedSpec, KeepsDirectory, Contract!Spec

=============================================================================
