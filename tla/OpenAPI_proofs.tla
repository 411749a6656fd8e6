--------------------------- MODULE OpenAPI_proofs ---------------------------
(***************************************************************************)
(* Theorems about module OpenAPI, for every graph of types, every list of  *)
(* operations and every depth of the stack.                                *)
(***************************************************************************)
EXTENDS OpenAPI, Lemmas, FiniteSetTheorems

-----------------------------------------------------------------------------
(* The stack                                                               *)

FieldsOf(t) == Shape[t].fields

\* An activation, at one of the fields of its type or behind the last.
Activation(f) ==
  /\ f = [type |-> f.type, role |-> f.role, at |-> f.at, props |-> f.props]
  /\ f.type \in Types /\ DOMAIN f.props \subseteq PropertyNames
  /\ \/ f.role = "wrap" /\ IsWrapper(f.type)
     \/ /\ f.role \in {"component", "inline", "embed"} /\ IsObject(f.type)
        /\ f.at \in 1 .. Len(FieldsOf(f.type)) + 1
        /\ f.role = "component" => IsNamed(f.type)

\* One that waits for the schema of its element or of one of its fields.
Waits(f) == f.role = "wrap" \/ f.at <= Len(FieldsOf(f.type))

\* All but the innermost wait, and an embedded struct is in an object.
IsStack(s) ==
  /\ IsSeq(s)
  /\ \A i \in 1 .. Len(s) : Activation(s[i])
  /\ \A i \in 2 .. Len(s) : Waits(s[i])
  /\ \A i \in 1 .. Len(s) : s[i].role = "embed" => i < Len(s) /\ s[i + 1].role # "wrap"

\* The fields of an object.
LEMMA FieldsType ==
  ASSUME NEW t \in Types, IsObject(t)
  PROVE  /\ FieldsOf(t) \in Seq(Field) /\ Len(FieldsOf(t)) \in Nat
         /\ ~IsWrapper(t) /\ ~IsLeaf(t)
         /\ IsNamed(t) => Shape[t].key \in Keys
<1>1. Shape[t] \in Object \cup Wrapper \cup Leaf
  BY SchemasAssumption
<1>2. Shape[t] \in Object
  BY <1>1 DEF IsObject, Wrapper, Leaf
<1>3. FieldsOf(t) \in Seq(Field)
  BY <1>2 DEF Object, FieldsOf
<1>4. Shape[t].key \in Keys \cup {Inline}
  BY <1>2 DEF Object
<1> QED BY <1>3, <1>4 DEF IsObject, IsWrapper, IsLeaf, IsNamed

\* A new activation may go on the stack if the innermost waits for it.
LEMMA PushStack ==
  ASSUME NEW s, IsStack(s), NEW f, Activation(f),
         s # <<>> => Waits(s[1]),
         f.role = "embed" => s # <<>> /\ s[1].role # "wrap"
  PROVE  IsStack(<<f>> \o s)
<1> DEFINE t == <<f>> \o s
           n == Len(s)
<1>1. n \in Nat /\ IsSeq(s) /\ (s # <<>> => n # 0)
  BY DEF IsStack, IsSeq
<1>2. IsSeq(t) /\ Len(t) = n + 1 /\ t[1] = f /\ \A i \in 1 .. n : t[i + 1] = s[i]
  BY <1>1, Pushed
<1> HIDE DEF t
<1>3. \A i \in 2 .. n + 1 : i - 1 \in 1 .. n /\ t[i] = s[i - 1]
  <2> TAKE i \in 2 .. n + 1
  <2>1. i - 1 \in 1 .. n /\ (i - 1) + 1 = i
    BY <1>1
  <2> QED BY <1>2, <2>1
<1>4. \A i \in 1 .. n + 1 : i = 1 \/ i \in 2 .. n + 1
  BY <1>1
<1>5. \A i \in 1 .. Len(t) : Activation(t[i])
  BY <1>1, <1>2, <1>3, <1>4 DEF IsStack
<1>6. \A i \in 2 .. Len(t) : Waits(t[i])
  <2> TAKE i \in 2 .. Len(t)
  <2>1. CASE i = 2
    <3>1. n # 0 /\ t[i] = s[1]
      BY <1>1, <1>2, <1>3, <2>1
    <3>2. s # <<>>
      BY <3>1
    <3> QED BY <3>1, <3>2
  <2>2. CASE i # 2
    <3>1. i - 1 \in 2 .. n /\ t[i] = s[i - 1]
      BY <1>1, <1>2, <1>3, <2>2
    <3> QED BY <3>1 DEF IsStack
  <2> QED BY <2>1, <2>2
<1>7. ASSUME NEW i \in 1 .. Len(t), t[i].role = "embed"
      PROVE  i < Len(t) /\ t[i + 1].role # "wrap"
  <2>1. CASE i = 1
    BY <1>1, <1>2, <1>7, <2>1
  <2>2. CASE i # 1
    <3>1. i - 1 \in 1 .. n /\ t[i] = s[i - 1]
      BY <1>2, <1>3, <1>4, <2>2
    <3>2. i - 1 < n /\ s[(i - 1) + 1].role # "wrap"
      BY <1>7, <3>1 DEF IsStack
    <3>3. i \in 1 .. n /\ (i - 1) + 1 = i
      BY <1>1, <3>1, <3>2
    <3> QED BY <1>1, <1>2, <3>2, <3>3
  <2> QED BY <2>1, <2>2
<1> QED BY <1>2, <1>5, <1>6, <1>7 DEF IsStack, t

\* The innermost activation may leave it.
LEMMA PopStack ==
  ASSUME NEW s, IsStack(s), s # <<>>
  PROVE  /\ IsStack(Tail(s)) /\ Len(Tail(s)) = Len(s) - 1 /\ Len(s) \in Nat \ {0}
         /\ Tail(s) # <<>> => Tail(s)[1] = s[2] /\ Waits(s[2])
         /\ s[1].role = "embed" => Tail(s) # <<>> /\ s[2].role # "wrap"
<1> DEFINE t == Tail(s)
           n == Len(s)
<1>1. /\ n \in Nat \ {0} /\ IsSeq(t) /\ Len(t) = n - 1
      /\ \A i \in 1 .. n - 1 : t[i] = s[i + 1]
  BY Popped DEF IsStack
<1> HIDE DEF t
<1>2. \A i \in 1 .. n - 1 : i \in 1 .. n /\ i + 1 \in 2 .. n
  BY <1>1
<1>3. \A i \in 1 .. n - 1 : Activation(t[i]) /\ Waits(t[i])
  <2> TAKE i \in 1 .. n - 1
  <2>1. i + 1 \in 1 .. n /\ i + 1 \in 2 .. n /\ t[i] = s[i + 1]
    BY <1>1, <1>2
  <2>2. Activation(s[i + 1]) /\ Waits(s[i + 1])
    BY <2>1 DEF IsStack
  <2> QED BY <2>1, <2>2
<1>4. \A i \in 2 .. n - 1 : i \in 1 .. n - 1
  BY <1>1
<1>5. ASSUME NEW i \in 1 .. Len(t), t[i].role = "embed"
      PROVE  i < Len(t) /\ t[i + 1].role # "wrap"
  <2>1. i + 1 \in 1 .. n /\ t[i] = s[i + 1]
    BY <1>1, <1>2
  <2>2. i + 1 < n /\ s[(i + 1) + 1].role # "wrap"
    BY <1>5, <2>1 DEF IsStack
  <2>3. i + 1 \in 1 .. n - 1
    BY <1>1, <2>2
  <2> QED BY <1>1, <2>2, <2>3
<1>6. IsStack(t)
  BY <1>1, <1>3, <1>4, <1>5 DEF IsStack
<1>7. t # <<>> => t[1] = s[2] /\ Waits(s[2])
  <2> SUFFICES ASSUME t # <<>> PROVE t[1] = s[2] /\ Waits(s[2])
    OBVIOUS
  <2>1. n - 1 # 0
    BY <1>1 DEF IsSeq
  <2>2. 1 \in 1 .. n - 1
    BY <1>1, <2>1
  <2> QED BY <1>1, <1>3, <2>2
<1>8. s[1].role = "embed" => t # <<>> /\ s[2].role # "wrap"
  <2> SUFFICES ASSUME s[1].role = "embed" PROVE t # <<>> /\ s[2].role # "wrap"
    OBVIOUS
  <2>1. 1 \in 1 .. n
    BY <1>1
  <2>2. 1 < n /\ s[1 + 1].role # "wrap"
    BY <2>1 DEF IsStack
  <2>3. Len(t) # 0
    BY <1>1, <2>2
  <2> QED BY <2>2, <2>3
<1> QED BY <1>1, <1>6, <1>7, <1>8 DEF t

\* The innermost activation may move to another field.
LEMMA ReplaceStack ==
  ASSUME NEW s, IsStack(s), s # <<>>, NEW f, Activation(f), f.role = s[1].role
  PROVE  /\ IsStack([s EXCEPT ![1] = f]) /\ [s EXCEPT ![1] = f][1] = f
         /\ [s EXCEPT ![1] = f] # <<>>
<1> DEFINE t == [s EXCEPT ![1] = f]
           n == Len(s)
<1>1. /\ IsSeq(t) /\ Len(t) = n /\ n \in Nat \ {0}
      /\ t[1] = f /\ \A i \in 2 .. n : t[i] = s[i]
  BY Replaced DEF IsStack
<1> HIDE DEF t
<1>2. \A i \in 1 .. n : i = 1 \/ i \in 2 .. n
  BY <1>1
<1>3. \A i \in 1 .. n : Activation(t[i]) /\ t[i].role = s[i].role
  BY <1>1, <1>2 DEF IsStack
<1>4. \A i \in 2 .. n : Waits(t[i])
  BY <1>1 DEF IsStack
<1>5. ASSUME NEW i \in 1 .. n, t[i].role = "embed"
      PROVE  i < n /\ t[i + 1].role # "wrap"
  <2>1. i < n /\ s[i + 1].role # "wrap"
    BY <1>3, <1>5 DEF IsStack
  <2>2. i + 1 \in 1 .. n
    BY <1>1, <2>1
  <2> QED BY <1>3, <2>1, <2>2
<1>6. t # <<>>
  BY <1>1
<1> QED BY <1>1, <1>3, <1>4, <1>5, <1>6 DEF IsStack, t

-----------------------------------------------------------------------------
(* The placeholders                                                        *)

Opens(f, k) == f.role = "component" /\ Shape[f.type].key = k

\* An activation that describes a component has its placeholder for itself.
Marked(s, m) ==
  /\ \A i \in 1 .. Len(s), k \in Keys : Opens(s[i], k) => k \in DOMAIN m /\ m[k] = Placeholder
  /\ \A i, j \in 1 .. Len(s), k \in Keys : Opens(s[i], k) /\ Opens(s[j], k) => i = j

\* Behind every placeholder there is one.
Covered(s, m) == \A k \in DOMAIN m : m[k] = Placeholder => \E i \in 1 .. Len(s) : Opens(s[i], k)

\* What is not the activation of a component comes and goes freely, ...
LEMMA PushMarked ==
  ASSUME NEW s, IsSeq(s), NEW m, NEW f, f.role # "component", Marked(s, m)
  PROVE  Marked(<<f>> \o s, m) /\ (Covered(s, m) => Covered(<<f>> \o s, m))
<1> DEFINE t == <<f>> \o s
           n == Len(s)
<1>1. n \in Nat /\ Len(t) = n + 1 /\ t[1] = f /\ \A i \in 1 .. n : t[i + 1] = s[i]
  BY Pushed DEF IsSeq
<1> HIDE DEF t
<1>2. \A i \in 1 .. n + 1, k \in Keys : Opens(t[i], k) => i - 1 \in 1 .. n /\ Opens(s[i - 1], k)
  <2> TAKE i \in 1 .. n + 1, k \in Keys
  <2> HAVE Opens(t[i], k)
  <2>1. i # 1
    BY <1>1 DEF Opens
  <2>2. i - 1 \in 1 .. n /\ (i - 1) + 1 = i
    BY <1>1, <2>1
  <2> QED BY <1>1, <2>2
<1>3. Marked(t, m)
  <2>1. \A i \in 1 .. n + 1, k \in Keys : Opens(t[i], k) => k \in DOMAIN m /\ m[k] = Placeholder
    BY <1>2 DEF Marked
  <2>2. \A i, j \in 1 .. n + 1, k \in Keys : Opens(t[i], k) /\ Opens(t[j], k) => i - 1 = j - 1
    BY <1>2 DEF Marked
  <2> QED BY <1>1, <2>1, <2>2 DEF Marked
<1>4. Covered(s, m) => Covered(t, m)
  <2> SUFFICES ASSUME Covered(s, m), NEW k \in DOMAIN m, m[k] = Placeholder
               PROVE  \E i \in 1 .. Len(t) : Opens(t[i], k)
    BY DEF Covered
  <2>1. PICK i \in 1 .. n : Opens(s[i], k)
    BY DEF Covered
  <2>2. i + 1 \in 1 .. Len(t) /\ Opens(t[i + 1], k)
    BY <1>1, <2>1
  <2> QED BY <2>2
<1> QED BY <1>3, <1>4 DEF t

\* ... be it pushed or popped, ...
LEMMA PopMarked ==
  ASSUME NEW s, IsSeq(s), s # <<>>, NEW m, s[1].role # "component", Marked(s, m)
  PROVE  Marked(Tail(s), m) /\ (Covered(s, m) => Covered(Tail(s), m))
<1> DEFINE t == Tail(s)
           n == Len(s)
<1>1. n \in Nat \ {0} /\ Len(t) = n - 1 /\ \A i \in 1 .. n - 1 : t[i] = s[i + 1]
  BY Popped
<1> HIDE DEF t
<1>2. \A i \in 1 .. n - 1 : i + 1 \in 1 .. n
  BY <1>1
<1>3. Marked(t, m)
  <2>1. \A i \in 1 .. n - 1, k \in Keys : Opens(t[i], k) => k \in DOMAIN m /\ m[k] = Placeholder
    BY <1>1, <1>2 DEF Marked
  <2>2. \A i, j \in 1 .. n - 1, k \in Keys : Opens(t[i], k) /\ Opens(t[j], k) => i + 1 = j + 1
    BY <1>1, <1>2 DEF Marked
  <2> QED BY <1>1, <2>1, <2>2 DEF Marked
<1>4. Covered(s, m) => Covered(t, m)
  <2> SUFFICES ASSUME Covered(s, m), NEW k \in DOMAIN m, m[k] = Placeholder
               PROVE  \E i \in 1 .. Len(t) : Opens(t[i], k)
    BY DEF Covered
  <2>1. PICK i \in 1 .. n : Opens(s[i], k)
    BY DEF Covered
  <2>2. i # 1
    BY <2>1 DEF Opens
  <2>3. i - 1 \in 1 .. n - 1 /\ (i - 1) + 1 = i
    BY <1>1, <2>2
  <2> QED BY <1>1, <2>1, <2>3
<1> QED BY <1>3, <1>4 DEF t

\* ... and one may move on.
LEMMA ReplaceMarked ==
  ASSUME NEW s, IsSeq(s), s # <<>>, NEW m, NEW f,
         f.role = s[1].role, f.type = s[1].type, Marked(s, m)
  PROVE  LET t == [s EXCEPT ![1] = f] IN Marked(t, m) /\ (Covered(s, m) => Covered(t, m))
<1> DEFINE t == [s EXCEPT ![1] = f]
           n == Len(s)
<1>1. n \in Nat \ {0} /\ Len(t) = n /\ t[1] = f /\ \A i \in 2 .. n : t[i] = s[i]
  BY Replaced
<1> HIDE DEF t
<1>2. \A i \in 1 .. n : i = 1 \/ i \in 2 .. n
  BY <1>1
<1>3. \A k : \A i \in 1 .. n : Opens(t[i], k) <=> Opens(s[i], k)
  BY <1>1, <1>2 DEF Opens
<1>4. Marked(t, m)
  BY <1>1, <1>3 DEF Marked
<1>5. Covered(s, m) => Covered(t, m)
  BY <1>1, <1>3 DEF Covered
<1> QED BY <1>4, <1>5 DEF t

\* A component comes with its placeholder, ...
LEMMA EnterMarked ==
  ASSUME NEW s, IsSeq(s), NEW m, NEW f, NEW x, x \notin DOMAIN m,
         f.role = "component", Shape[f.type].key = x, Marked(s, m)
  PROVE  /\ Marked(s, Put(m, x, Placeholder))
         /\ Marked(<<f>> \o s, Put(m, x, Placeholder))
         /\ Covered(s, m) => Covered(<<f>> \o s, Put(m, x, Placeholder))
<1> DEFINE t == <<f>> \o s
           n == Len(s)
           p == Put(m, x, Placeholder)
<1>1. n \in Nat /\ Len(t) = n + 1 /\ t[1] = f /\ \A i \in 1 .. n : t[i + 1] = s[i]
  BY Pushed DEF IsSeq
<1>2. DOMAIN p = DOMAIN m \cup {x} /\ p[x] = Placeholder /\ \A k \in DOMAIN m : p[k] = m[k]
  BY DEF Put
<1> HIDE DEF t, p
<1>3. \A i \in 1 .. n, k \in Keys : Opens(s[i], k) => k # x /\ k \in DOMAIN p /\ p[k] = Placeholder
  BY <1>2 DEF Marked
<1>4. \A k : Opens(f, k) <=> k = x
  BY DEF Opens
<1>5. \A i \in 1 .. n + 1, k \in Keys :
        Opens(t[i], k) => \/ i = 1 /\ k = x
                          \/ k # x /\ i - 1 \in 1 .. n /\ Opens(s[i - 1], k)
  <2> TAKE i \in 1 .. n + 1, k \in Keys
  <2> HAVE Opens(t[i], k)
  <2>1. CASE i = 1
    BY <1>1, <1>4, <2>1
  <2>2. CASE i # 1
    <3>1. i - 1 \in 1 .. n /\ (i - 1) + 1 = i
      BY <1>1, <2>2
    <3>2. Opens(s[i - 1], k)
      BY <1>1, <3>1
    <3> QED BY <1>3, <3>1, <3>2
  <2> QED BY <2>1, <2>2
<1>6. Marked(s, p)
  BY <1>3 DEF Marked
<1>7. Marked(t, p)
  <2>1. \A i \in 1 .. n + 1, k \in Keys : Opens(t[i], k) => k \in DOMAIN p /\ p[k] = Placeholder
    BY <1>2, <1>3, <1>5
  <2>2. ASSUME NEW i \in 1 .. n + 1, NEW j \in 1 .. n + 1, NEW k \in Keys,
               Opens(t[i], k), Opens(t[j], k)
        PROVE  i = j
    <3>1. CASE k = x
      BY <1>5, <2>2, <3>1
    <3>2. CASE k # x
      <4>1. i - 1 \in 1 .. n /\ Opens(s[i - 1], k) /\ j - 1 \in 1 .. n /\ Opens(s[j - 1], k)
        BY <1>5, <2>2, <3>2
      <4>2. i - 1 = j - 1
        BY <4>1 DEF Marked
      <4> QED BY <1>1, <4>2
    <3> QED BY <3>1, <3>2
  <2> QED BY <1>1, <2>1, <2>2 DEF Marked
<1>8. Covered(s, m) => Covered(t, p)
  <2> SUFFICES ASSUME Covered(s, m), NEW k \in DOMAIN p, p[k] = Placeholder
               PROVE  \E i \in 1 .. Len(t) : Opens(t[i], k)
    BY DEF Covered
  <2>1. CASE k = x
    <3>1. 1 \in 1 .. Len(t) /\ Opens(t[1], k)
      BY <1>1, <1>4, <2>1
    <3> QED BY <3>1
  <2>2. CASE k # x
    <3>1. PICK i \in 1 .. n : Opens(s[i], k)
      BY <1>2, <2>2 DEF Covered
    <3>2. i + 1 \in 1 .. Len(t) /\ Opens(t[i + 1], k)
      BY <1>1, <3>1
    <3> QED BY <3>2
  <2> QED BY <2>1, <2>2
<1> QED BY <1>6, <1>7, <1>8 DEF t, p

\* ... and replaces it by its schema when it leaves.
LEMMA CompleteMarked ==
  ASSUME NEW s, IsSeq(s), s # <<>>, NEW m, Marked(s, m), Covered(s, m),
         NEW x \in Keys, s[1].role = "component", Shape[s[1].type].key = x,
         NEW y, y # Placeholder
  PROVE  Marked(Tail(s), Put(m, x, y)) /\ Covered(Tail(s), Put(m, x, y))
<1> DEFINE t == Tail(s)
           n == Len(s)
           p == Put(m, x, y)
<1>1. n \in Nat \ {0} /\ Len(t) = n - 1 /\ \A i \in 1 .. n - 1 : t[i] = s[i + 1]
  BY Popped
<1>2. DOMAIN p = DOMAIN m \cup {x} /\ p[x] = y /\ \A k \in DOMAIN m : k # x => p[k] = m[k]
  BY DEF Put
<1> HIDE DEF t, p
<1>3. 1 \in 1 .. n /\ \A k : Opens(s[1], k) <=> k = x
  BY <1>1 DEF Opens
<1>4. ASSUME NEW i \in 1 .. n - 1, NEW k \in Keys, Opens(t[i], k)
      PROVE  k # x /\ i + 1 \in 1 .. n /\ Opens(s[i + 1], k)
  <2>1. i + 1 \in 1 .. n /\ i + 1 # 1 /\ Opens(s[i + 1], k)
    BY <1>1, <1>4
  <2>2. k # x
    BY <1>3, <2>1 DEF Marked
  <2> QED BY <2>1, <2>2
<1>5. Marked(t, p)
  <2>1. \A i \in 1 .. n - 1, k \in Keys : Opens(t[i], k) => k \in DOMAIN p /\ p[k] = Placeholder
    BY <1>2, <1>4 DEF Marked
  <2>2. \A i, j \in 1 .. n - 1, k \in Keys : Opens(t[i], k) /\ Opens(t[j], k) => i + 1 = j + 1
    BY <1>4 DEF Marked
  <2>3. \A i, j \in 1 .. n - 1 : i + 1 = j + 1 => i = j
    BY <1>1
  <2> QED BY <1>1, <2>1, <2>2, <2>3 DEF Marked
<1>6. Covered(t, p)
  <2> SUFFICES ASSUME NEW k \in DOMAIN p, p[k] = Placeholder
               PROVE  \E i \in 1 .. Len(t) : Opens(t[i], k)
    BY DEF Covered
  <2>1. k # x /\ k \in DOMAIN m /\ m[k] = Placeholder
    BY <1>2
  <2>2. PICK i \in 1 .. n : Opens(s[i], k)
    BY <2>1 DEF Covered
  <2>3. i # 1
    BY <1>3, <2>1, <2>2
  <2>4. i - 1 \in 1 .. n - 1 /\ (i - 1) + 1 = i
    BY <1>1, <2>3
  <2>5. Opens(t[i - 1], k)
    BY <1>1, <2>2, <2>4
  <2> QED BY <1>1, <2>4, <2>5
<1> QED BY <1>5, <1>6 DEF t, p

-----------------------------------------------------------------------------
(* The inductive invariant                                                 *)

\* Where the generator is among the operations and their schemas.
Place ==
  /\ operations \in OperationLists /\ next \in 1 .. Len(operations) + 1
  /\ IsSeq(described) /\ Len(described) <= 3
  /\ Working => next <= Len(operations)
  /\ control \notin {Idle, Done, Overflow} => Len(described) < 3

\* What comes next, and what is innermost when it comes.
Turn ==
  \/ control \in {Idle, Done} /\ stack = <<>>
  \/ control = Overflow
  \/ control = Fields /\ stack # <<>> /\ top.role # "wrap"
  \/ control = Call(control.type) /\ control.type \in Types /\ (stack # <<>> => Waits(top))
  \/ control = Return(control.schema) /\ (stack # <<>> => Waits(top))

\* The component schemas, and who is at work on them.
Table ==
  /\ DOMAIN schemas \subseteq Keys
  /\ Marked(stack, schemas)
  /\ control # Overflow => Covered(stack, schemas)

Activations == IsStack(stack) /\ Len(stack) <= MaxDepth /\ Table

WInv == Place /\ Turn /\ Activations

\* The constants that stand for control are different.
LEMMA Controls ==
  /\ Idle.do = "idle" /\ Done.do = "done" /\ Overflow.do = "overflow" /\ Fields.do = "fields"
  /\ \A t : Call(t).do = "call" /\ Call(t).type = t
  /\ \A s : Return(s).do = "return" /\ Return(s).schema = s
BY DEF Idle, Done, Overflow, Fields, Call, Return

\* While the walk is under way its place stays.
LEMMA SamePlace ==
  ASSUME Place, control \notin {Idle, Done, Overflow}, UNCHANGED walk
  PROVE  Place'
BY DEF Place, Working, walk

\* The invariant explains the type of what the walk works on ...
LEMMA WalkTypes ==
  ASSUME WInv
  PROVE  WalkTypeOK
<1>1. next \in 1 .. Len(operations) + 1 /\ Len(described) <= 3
  BY DEF WInv, Place
<1>2. /\ control.do \in {"call", "return", "fields", "idle", "done", "overflow"}
      /\ control.do = "call" => control.type \in Types
  BY Controls DEF WInv, Turn
<1>3. Len(stack) <= MaxDepth /\ DOMAIN stack = 1 .. Len(stack) /\ DOMAIN schemas \subseteq Keys
  BY DEF WInv, Activations, Table, IsStack, IsSeq
<1>4. ASSUME NEW i \in 1 .. Len(stack)
      PROVE  /\ IsWrapper(stack[i].type) <=> stack[i].role = "wrap"
             /\ IsObject(stack[i].type) =>
                  stack[i].at \in 1 .. Len(Shape[stack[i].type].fields) + 1
             /\ DOMAIN stack[i].props \subseteq PropertyNames
  <2>1. Activation(stack[i])
    BY DEF WInv, Activations, IsStack
  <2>2. ~(IsWrapper(stack[i].type) /\ IsObject(stack[i].type))
    BY DEF IsWrapper, IsObject
  <2> QED BY <2>1, <2>2 DEF Activation, FieldsOf
<1> QED BY <1>1, <1>2, <1>3, <1>4 DEF WalkTypeOK

\* ... and who is behind a placeholder.
LEMMA Placeholders ==
  ASSUME WInv
  PROVE  PlaceholdersAreOpen
<1> SUFFICES ASSUME NEW k \in DOMAIN schemas \cup {Shape[t].key : t \in {u \in Types : IsNamed(u)}}
    PROVE  LET open == {i \in DOMAIN stack : stack[i].role = "component" /\ Shape[stack[i].type].key = k}
           IN  /\ open # {} => k \in DOMAIN schemas /\ schemas[k] = Placeholder
               /\ k \in DOMAIN schemas /\ schemas[k] = Placeholder => open # {} \/ control = Overflow
               /\ Cardinality(open) <= 1
  BY DEF PlaceholdersAreOpen
<1> DEFINE open == {i \in DOMAIN stack : stack[i].role = "component" /\ Shape[stack[i].type].key = k}
<1>1. k \in Keys
  <2>1. CASE k \in DOMAIN schemas
    BY <2>1 DEF WInv, Activations, Table
  <2>2. CASE k \notin DOMAIN schemas
    <3>1. PICK t \in Types : IsNamed(t) /\ k = Shape[t].key
      BY <2>2
    <3> QED BY <3>1, FieldsType DEF IsNamed
  <2> QED BY <2>1, <2>2
<1>2. open = {i \in 1 .. Len(stack) : Opens(stack[i], k)}
  BY DEF Opens, WInv, Activations, IsStack, IsSeq
<1> HIDE DEF open
<1>3. open # {} => k \in DOMAIN schemas /\ schemas[k] = Placeholder
  BY <1>1, <1>2 DEF WInv, Activations, Table, Marked
<1>4. k \in DOMAIN schemas /\ schemas[k] = Placeholder => open # {} \/ control = Overflow
  BY <1>2 DEF WInv, Activations, Table, Covered
<1>5. Cardinality(open) <= 1
  <2>1. CASE open = {}
    BY <2>1, FS_EmptySet
  <2>2. CASE open # {}
    <3>1. PICK i : i \in open
      BY <2>2
    <3>2. open = {i}
      BY <1>1, <1>2, <3>1 DEF WInv, Activations, Table, Marked
    <3>3. Cardinality({i}) = 1
      BY FS_Singleton
    <3> QED BY <3>2, <3>3
  <2> QED BY <2>1, <2>2
<1> QED BY <1>3, <1>4, <1>5 DEF open

-----------------------------------------------------------------------------
(* What is pushed and what moves on                                        *)

\* The field that a loop is at.
LEMMA AtField ==
  ASSUME NEW f, Activation(f), f.role # "wrap", Waits(f)
  PROVE  LET g == Shape[f.type].fields[f.at]
         IN  /\ g \in Field /\ g.type \in Types /\ g.name \in PropertyNames /\ g.text \in PropertyNames
             /\ Deref(g.type) \in Types
<1>1. f.type \in Types /\ FieldsOf(f.type) \in Seq(Field) /\ f.at \in 1 .. Len(FieldsOf(f.type))
  BY FieldsType DEF Activation, Waits
<1> DEFINE fs == FieldsOf(f.type)
           g == fs[f.at]
<1> HIDE DEF fs
<1>2. g \in Field
  BY <1>1 DEF fs
<1> HIDE DEF g
<1>3. g.type \in Types /\ g.name \in PropertyNames /\ g.text \in PropertyNames
  BY <1>2 DEF Field
<1>4. Deref(g.type) \in Types
  <2>1. Shape[g.type] \in Object \cup Wrapper \cup Leaf
    BY <1>3, SchemasAssumption
  <2>2. Shape[g.type].kind = "pointer" => Shape[g.type] \in Wrapper
    BY <2>1 DEF Object, Leaf
  <2> QED BY <1>3, <2>2 DEF Deref, Wrapper
<1> QED BY <1>2, <1>3, <1>4 DEF g, fs, FieldsOf

\* A loop moves on to its next field.
LEMMA Advanced ==
  ASSUME NEW f, Activation(f), f.role # "wrap", Waits(f),
         NEW props, DOMAIN props \subseteq PropertyNames
  PROVE  /\ Activation(Advance(f, props))
         /\ Advance(f, props).role = f.role /\ Advance(f, props).type = f.type
<1> DEFINE g == [type |-> f.type, role |-> f.role, at |-> f.at + 1, props |-> props]
<1>1. f = [type |-> f.type, role |-> f.role, at |-> f.at, props |-> f.props]
  BY DEF Activation
<1>2. [f EXCEPT !.at = @ + 1, !.props = props] = g
  <2>1. f \in [type : {f.type}, role : {f.role}, at : {f.at}, props : {f.props}]
    BY <1>1
  <2> DEFINE h == [f EXCEPT !.at = @ + 1, !.props = props]
  <2>2. h \in [type : {f.type}, role : {f.role}, at : {f.at + 1}, props : {props}]
    BY <2>1
  <2> HIDE DEF h
  <2>3. h = [type |-> h.type, role |-> h.role, at |-> h.at, props |-> h.props]
        /\ h.type = f.type /\ h.role = f.role /\ h.at = f.at + 1 /\ h.props = props
    BY <2>2
  <2>4. h = g
    BY <2>3
  <2> QED BY <2>4 DEF h
<1>3. g.type = f.type /\ g.role = f.role /\ g.at = f.at + 1 /\ g.props = props
      /\ g = [type |-> g.type, role |-> g.role, at |-> g.at, props |-> g.props]
  OBVIOUS
<1> HIDE DEF g
<1>4. f.at + 1 \in 1 .. Len(FieldsOf(f.type)) + 1
  BY FieldsType DEF Activation, Waits
<1>5. Activation(g)
  BY <1>3, <1>4 DEF Activation
<1> QED BY <1>2, <1>3, <1>5 DEF Advance

\* A new loop is at its first field.
LEMMA Framed ==
  ASSUME NEW t \in Types, NEW role, NEW props, DOMAIN props \subseteq PropertyNames,
         \/ role = "wrap" /\ IsWrapper(t)
         \/ role \in {"component", "inline", "embed"} /\ IsObject(t) /\ (role = "component" => IsNamed(t))
  PROVE  /\ Activation(Frame(t, role, props))
         /\ Frame(t, role, props).role = role /\ Frame(t, role, props).type = t
<1>1. IsObject(t) => 1 \in 1 .. Len(FieldsOf(t)) + 1
  BY FieldsType
<1> QED BY <1>1 DEF Frame, Activation

\* Another innermost activation in place of this one.
LEMMA Exchanged ==
  ASSUME NEW s, IsSeq(s), s # <<>>, NEW f
  PROVE  <<f>> \o Tail(s) = [s EXCEPT ![1] = f]
<1> DEFINE t == Tail(s)
           u == <<f>> \o t
           v == [s EXCEPT ![1] = f]
           n == Len(s)
<1>1. n \in Nat \ {0} /\ IsSeq(t) /\ Len(t) = n - 1 /\ \A i \in 1 .. n - 1 : t[i] = s[i + 1]
  BY Popped
<1>2. IsSeq(v) /\ Len(v) = n /\ v[1] = f /\ \A i \in 2 .. n : v[i] = s[i]
  BY Replaced
<1> HIDE DEF t, v
<1>3. IsSeq(u) /\ Len(u) = n - 1 + 1 /\ u[1] = f /\ \A i \in 1 .. n - 1 : u[i + 1] = t[i]
  BY <1>1, Pushed
<1> HIDE DEF u
<1>4. ASSUME NEW i \in 1 .. n
      PROVE  u[i] = v[i]
  <2>1. CASE i = 1
    BY <1>2, <1>3, <2>1
  <2>2. CASE i # 1
    <3>1. i - 1 \in 1 .. n - 1 /\ (i - 1) + 1 = i /\ i \in 2 .. n
      BY <1>1, <2>2
    <3>2. u[i] = t[i - 1] /\ t[i - 1] = s[i]
      BY <1>1, <1>3, <3>1
    <3> QED BY <1>2, <3>1, <3>2
  <2> QED BY <2>1, <2>2
<1>5. Len(u) = n
  BY <1>1, <1>3
<1>6. u = [i \in 1 .. n |-> u[i]] /\ v = [i \in 1 .. n |-> v[i]]
  BY <1>2, <1>3, <1>5 DEF IsSeq
<1>7. [i \in 1 .. n |-> u[i]] = [i \in 1 .. n |-> v[i]]
  BY <1>4
<1>8. u = v
  BY <1>6, <1>7
<1> QED BY <1>8 DEF u, v, t

\* The innermost activation is one.
LEMMA Innermost ==
  ASSUME WInv, stack # <<>>
  PROVE  IsSeq(stack) /\ Activation(top) /\ top.type \in Types /\ DOMAIN top.props \subseteq PropertyNames
<1>1. IsSeq(stack) /\ Len(stack) \in Nat \ {0}
  BY Popped DEF WInv, Activations, IsStack
<1>2. 1 \in 1 .. Len(stack)
  BY <1>1
<1>3. Activation(top)
  BY <1>2 DEF WInv, Activations, IsStack, top
<1> QED BY <1>1, <1>3 DEF Activation

\* A function that was called, and its caller.
LEMMA Called ==
  ASSUME WInv, NEW t, Calling(t)
  PROVE  control \notin {Idle, Done, Overflow} /\ (stack # <<>> => Waits(top))
BY Controls DEF WInv, Turn, Calling

\* A loop, and what it is at.
LEMMA Looped ==
  ASSUME WInv, NEW more, Looping(more)
  PROVE  /\ control = Fields /\ control \notin {Idle, Done, Overflow}
         /\ stack # <<>> /\ top.role # "wrap" /\ (more => Waits(top))
BY Controls DEF WInv, Turn, Looping, Waits, FieldsOf

\* A schema that was returned, and who gets it.
LEMMA Returned ==
  ASSUME WInv, control.do = "return"
  PROVE  control \notin {Idle, Done, Overflow} /\ (stack # <<>> => Waits(top))
BY Controls DEF WInv, Turn

\* An activation that is not of a component is pushed, or nothing fits.
LEMMA Pushing ==
  ASSUME WInv, control # Overflow, NEW frame, NEW do, Push(frame, do), UNCHANGED schemas,
         Activation(frame), frame.role # "component",
         stack # <<>> => Waits(top),
         frame.role = "embed" => stack # <<>> /\ top.role # "wrap"
  PROVE  /\ Activations'
         /\ \/ control' = Overflow
            \/ control' = do /\ stack' # <<>> /\ top' = frame
<1>1. /\ IsStack(stack) /\ IsSeq(stack) /\ Len(stack) \in Nat /\ Len(stack) <= MaxDepth
      /\ DOMAIN schemas \subseteq Keys /\ Marked(stack, schemas) /\ Covered(stack, schemas)
  BY DEF WInv, Activations, Table, IsStack, IsSeq
<1>2. CASE Len(stack) < MaxDepth
  <2>1. stack' = <<frame>> \o stack /\ control' = do /\ schemas' = schemas
    BY <1>2 DEF Push
  <2>2. Len(stack') = Len(stack) + 1 /\ stack'[1] = frame
    BY <1>1, <2>1, Pushed
  <2>3. IsStack(stack')
    BY <1>1, <2>1, PushStack DEF top
  <2>4. Marked(stack', schemas') /\ Covered(stack', schemas')
    BY <1>1, <2>1, PushMarked
  <2>5. Len(stack') <= MaxDepth /\ Len(stack') # 0
    BY <1>1, <1>2, <2>2, OpenAPIAssumption
  <2> QED BY <1>1, <2>1, <2>2, <2>3, <2>4, <2>5 DEF Activations, Table, top
<1>3. CASE ~(Len(stack) < MaxDepth)
  <2>1. control' = Overflow /\ stack' = stack /\ schemas' = schemas
    BY <1>3 DEF Push
  <2> QED BY <1>1, <2>1 DEF Activations, Table
<1> QED BY <1>2, <1>3

\* The innermost activation of a stack moves on.
LEMMA MoveStack ==
  ASSUME NEW s, IsStack(s), s # <<>>, s[1].role # "wrap", Waits(s[1]),
         NEW m, Marked(s, m), Covered(s, m),
         NEW props, DOMAIN props \subseteq PropertyNames
  PROVE  LET t == [s EXCEPT ![1] = Advance(s[1], props)]
         IN  /\ IsStack(t) /\ Len(t) = Len(s) /\ t # <<>> /\ t[1].role # "wrap"
             /\ Marked(t, m) /\ Covered(t, m)
<1> DEFINE f == Advance(s[1], props)
           t == [s EXCEPT ![1] = f]
<1>1. IsSeq(s) /\ 1 \in 1 .. Len(s)
  BY Popped DEF IsStack
<1>2. Activation(s[1])
  BY <1>1 DEF IsStack
<1>3. Activation(f) /\ f.role = s[1].role /\ f.type = s[1].type
  BY <1>2, Advanced
<1> HIDE DEF f
<1>4. IsStack(t) /\ t[1] = f /\ t # <<>>
  BY <1>3, ReplaceStack
<1>5. Marked(t, m) /\ Covered(t, m) /\ Len(t) = Len(s)
  BY <1>1, <1>3, ReplaceMarked, Replaced
<1> HIDE DEF t
<1>6. t[1].role # "wrap"
  BY <1>3, <1>4
<1> QED BY <1>4, <1>5, <1>6 DEF t, f

\* The innermost activation moves on.
LEMMA Moving ==
  ASSUME WInv, control # Overflow, stack # <<>>, top.role # "wrap", Waits(top),
         NEW props, DOMAIN props \subseteq PropertyNames,
         stack' = [stack EXCEPT ![1] = Advance(top, props)], UNCHANGED schemas
  PROVE  Activations' /\ stack' # <<>> /\ top'.role # "wrap"
<1> DEFINE t == [stack EXCEPT ![1] = Advance(stack[1], props)]
<1>1. /\ IsStack(stack) /\ Len(stack) <= MaxDepth
      /\ DOMAIN schemas \subseteq Keys /\ Marked(stack, schemas) /\ Covered(stack, schemas)
  BY DEF WInv, Activations, Table
<1>2. stack[1].role # "wrap" /\ Waits(stack[1])
  BY DEF top
<1>3. /\ IsStack(t) /\ Len(t) = Len(stack) /\ t # <<>> /\ t[1].role # "wrap"
      /\ Marked(t, schemas) /\ Covered(t, schemas)
  BY <1>1, <1>2, MoveStack
<1>4. stack' = t /\ schemas' = schemas
  BY DEF top
<1> HIDE DEF t
<1>5. Activations'
  BY <1>1, <1>3, <1>4 DEF Activations, Table
<1> QED BY <1>3, <1>4, <1>5 DEF top

\* The innermost activation, not that of a component, leaves.
LEMMA Leaving ==
  ASSUME WInv, control # Overflow, stack # <<>>, top.role # "component",
         stack' = Tail(stack), UNCHANGED schemas
  PROVE  Activations' /\ (stack' # <<>> => Waits(top'))
<1>1. /\ IsStack(stack) /\ IsSeq(stack) /\ Len(stack) <= MaxDepth
      /\ DOMAIN schemas \subseteq Keys /\ Marked(stack, schemas) /\ Covered(stack, schemas)
  BY DEF WInv, Activations, Table, IsStack
<1>2. /\ IsStack(stack') /\ Len(stack') = Len(stack) - 1 /\ Len(stack) \in Nat
      /\ stack' # <<>> => stack'[1] = stack[2] /\ Waits(stack[2])
  BY <1>1, PopStack
<1>3. Marked(stack', schemas') /\ Covered(stack', schemas')
  BY <1>1, PopMarked DEF top
<1>4. Len(stack') <= MaxDepth
  BY <1>1, <1>2, OpenAPIAssumption
<1> QED BY <1>1, <1>2, <1>3, <1>4 DEF Activations, Table, top

\* Nobody comes or leaves.
LEMMA Staying ==
  ASSUME WInv, control # Overflow, UNCHANGED <<stack, schemas>>
  PROVE  Activations'
BY DEF WInv, Activations, Table

-----------------------------------------------------------------------------
(* The steps                                                               *)

\* Nothing is on the stack, nothing in the document.
LEMMA InitWInv == Init => WInv
<1> SUFFICES ASSUME Init PROVE WInv
  OBVIOUS
<1>1. IsSeq(<<>>) /\ Len(<<>>) = 0
  BY DEF IsSeq
<1>2. operations \in Seq(OperationInfo)
  BY OpenAPIAssumption DEF Init
<1>3. Place
  BY <1>1, <1>2, Controls DEF Init, Place, Working
<1>4. Turn
  BY DEF Init, Turn
<1>5. IsStack(stack) /\ Len(stack) <= MaxDepth
  BY <1>1, OpenAPIAssumption DEF Init, IsStack
<1>6. DOMAIN schemas = {}
  BY DEF Init, EmptyMap
<1>7. Table
  BY <1>1, <1>6 DEF Init, Table, Marked, Covered
<1> QED BY <1>3, <1>4, <1>5, <1>7 DEF WInv, Activations

\* A root schema is called for with an empty stack.
LEMMA RootStep == WInv /\ Root => WInv'
<1> SUFFICES ASSUME WInv, Root PROVE WInv'
  OBVIOUS
<1> DEFINE r == Roots(op)[Len(described) + 1]
<1>1. control = Idle /\ stack = <<>> /\ control # Overflow /\ stack' = stack /\ schemas' = schemas
  BY Controls DEF WInv, Turn, Root
<1>2. Activations'
  BY <1>1, Staying
<1>3. /\ IsSeq(described) /\ Len(described) < 3 /\ Len(described) \in Nat
      /\ operations' = operations /\ next' = next
      /\ operations \in OperationLists /\ next \in 1 .. Len(operations) + 1 /\ next <= Len(operations)
  BY DEF WInv, Place, IsSeq, Root
<1>4. CASE r \in Types
  <2>1. control' = Call(r) /\ described' = described
    BY <1>4 DEF Root
  <2>2. Place'
    BY <1>3, <2>1 DEF Place
  <2>3. control' = Call(control'.type) /\ control'.type \in Types
    BY <1>4, <2>1, Controls
  <2> QED BY <1>1, <1>2, <2>2, <2>3 DEF WInv, Turn
<1>5. CASE r \notin Types
  <2> DEFINE e == IF r = None THEN None ELSE AnySchema
  <2>1. described' = Append(described, e) /\ control' = Idle
    BY <1>1, <1>5 DEF Root
  <2> HIDE DEF e
  <2>2. IsSeq(described') /\ Len(described') = Len(described) + 1
    BY <1>3, <2>1, Appended
  <2>3. Place'
    BY <1>3, <2>1, <2>2 DEF Place
  <2> QED BY <1>1, <1>2, <2>1, <2>3 DEF WInv, Turn
<1> QED BY <1>4, <1>5

\* assign writes the document only.
LEMMA AssignStep == WInv /\ assign => WInv'
<1> SUFFICES ASSUME WInv, assign PROVE WInv'
  OBVIOUS
<1>1. /\ control = Idle /\ stack = <<>> /\ control # Overflow
      /\ stack' = stack /\ schemas' = schemas /\ control' = control
  BY Controls DEF WInv, Turn, assign
<1>2. Activations'
  BY <1>1, Staying
<1>3. IsSeq(<<>>) /\ Len(<<>>) = 0
  BY DEF IsSeq
<1>4. described # <<>>
  BY <1>3 DEF assign
<1>5. operations \in OperationLists /\ next \in 1 .. Len(operations) + 1 /\ next <= Len(operations)
  BY <1>4 DEF WInv, Place, Working
<1>6. operations' = operations /\ next' = next + 1 /\ described' = <<>>
  BY DEF assign
<1>7. Len(operations) \in Nat
  BY <1>5, OpenAPIAssumption
<1>8. next' \in 1 .. Len(operations') + 1
  BY <1>5, <1>6, <1>7
<1>9. Place'
  BY <1>1, <1>3, <1>5, <1>6, <1>8 DEF Place, Working
<1> QED BY <1>1, <1>2, <1>9 DEF WInv, Turn

\* So does the end of an operation.
LEMMA FinishStep == WInv /\ Finish => WInv'
<1> SUFFICES ASSUME WInv, Finish PROVE WInv'
  OBVIOUS
<1>1. /\ control = Idle /\ stack = <<>> /\ control # Overflow
      /\ stack' = stack /\ schemas' = schemas /\ control' = Done
  BY Controls DEF WInv, Turn, Finish
<1>2. Activations'
  BY <1>1, Staying
<1>3. operations \in Seq(OperationInfo)
  BY OpenAPIAssumption DEF WInv, Place
<1>4. described = <<>>
  BY <1>3 DEF WInv, Place, Working, Finish
<1>5. Place'
  BY <1>1, <1>4 DEF WInv, Place, Working, Finish
<1> QED BY <1>1, <1>2, <1>5 DEF WInv, Turn

\* A leaf is described without an activation of its own.
LEMMA DescribeStep == ASSUME NEW t \in Types PROVE WInv /\ Describe(t) => WInv'
<1> SUFFICES ASSUME WInv, Describe(t) PROVE WInv'
  OBVIOUS
<1>1. Calling(t) /\ control \notin {Idle, Done, Overflow} /\ (stack # <<>> => Waits(top))
  BY Called DEF Describe
<1>2. stack' = stack /\ schemas' = schemas /\ control' = Return(LeafSchema(t, op.marshal))
  BY DEF Describe
<1>3. Place' /\ Activations'
  BY <1>1, <1>2, SamePlace, Staying DEF WInv, Calling
<1>4. Turn'
  BY <1>1, <1>2, Controls DEF Turn, top
<1> QED BY <1>3, <1>4 DEF WInv

\* A registered name is referred to, whether its component is complete or has
\* an activation at work on it.
LEMMA KnownStep == ASSUME NEW t \in Types PROVE WInv /\ Known(t) => WInv'
<1> SUFFICES ASSUME WInv, Known(t) PROVE WInv'
  OBVIOUS
<1>1. Calling(t) /\ control \notin {Idle, Done, Overflow} /\ (stack # <<>> => Waits(top))
  BY Called DEF Known
<1>2. stack' = stack /\ schemas' = schemas /\ control' = Return(Ref(Shape[t].key))
  BY DEF Known
<1>3. Place' /\ Activations'
  BY <1>1, <1>2, SamePlace, Staying DEF WInv, Calling
<1>4. Turn'
  BY <1>1, <1>2, Controls DEF Turn, top
<1> QED BY <1>3, <1>4 DEF WInv

\* A wrapper waits for the schema of its element.
LEMMA WrapStep == ASSUME NEW t \in Types PROVE WInv /\ Wrap(t) => WInv'
<1> SUFFICES ASSUME WInv, Wrap(t) PROVE WInv'
  OBVIOUS
<1> DEFINE f == Frame(t, "wrap", EmptyMap)
<1>1. Calling(t) /\ control \notin {Idle, Done, Overflow} /\ (stack # <<>> => Waits(top))
  BY Called DEF Wrap
<1>2. DOMAIN EmptyMap \subseteq PropertyNames
  BY DEF EmptyMap
<1>3. Activation(f) /\ f.role = "wrap"
  BY <1>2, Framed DEF Wrap
<1>4. Shape[t].elem \in Types
  <2>1. Shape[t] \in Object \cup Wrapper \cup Leaf
    BY SchemasAssumption
  <2>2. Shape[t] \in Wrapper
    BY <2>1 DEF Wrap, IsWrapper, Object, Leaf
  <2> QED BY <2>2 DEF Wrapper
<1>5. Push(f, Call(Shape[t].elem)) /\ UNCHANGED schemas
  BY DEF Wrap
<1> HIDE DEF f
<1>6. /\ Activations'
      /\ control' = Overflow \/ (control' = Call(Shape[t].elem) /\ stack' # <<>> /\ top' = f)
  BY <1>1, <1>3, <1>5, Pushing
<1>7. Turn'
  BY <1>3, <1>4, <1>6, Controls DEF Turn, Waits
<1>8. Place'
  BY <1>1, SamePlace DEF WInv, Calling
<1> QED BY <1>6, <1>7, <1>8 DEF WInv

\* An anonymous struct has an activation and no component.
LEMMA NestStep == ASSUME NEW t \in Types PROVE WInv /\ Nest(t) => WInv'
<1> SUFFICES ASSUME WInv, Nest(t) PROVE WInv'
  OBVIOUS
<1> DEFINE f == Frame(t, "inline", EmptyMap)
<1>1. Calling(t) /\ control \notin {Idle, Done, Overflow} /\ (stack # <<>> => Waits(top))
  BY Called DEF Nest
<1>2. DOMAIN EmptyMap \subseteq PropertyNames
  BY DEF EmptyMap
<1>3. Activation(f) /\ f.role = "inline"
  BY <1>2, Framed DEF Nest
<1>4. Push(f, Fields) /\ UNCHANGED schemas
  BY DEF Nest
<1> HIDE DEF f
<1>5. Activations' /\ (control' = Overflow \/ (control' = Fields /\ stack' # <<>> /\ top' = f))
  BY <1>1, <1>3, <1>4, Pushing
<1>6. Turn'
  BY <1>3, <1>5 DEF Turn
<1>7. Place'
  BY <1>1, SamePlace DEF WInv, Calling
<1> QED BY <1>5, <1>6, <1>7 DEF WInv

\* A new name gets its placeholder together with the activation that is to
\* replace it; an exhausted stack leaves the placeholder alone.
LEMMA EnterStep == ASSUME NEW t \in Types PROVE WInv /\ Enter(t) => WInv'
<1> SUFFICES ASSUME WInv, Enter(t) PROVE WInv'
  OBVIOUS
<1> DEFINE f == Frame(t, "component", EmptyMap)
           x == Shape[t].key
<1>1. Calling(t) /\ control \notin {Idle, Done, Overflow} /\ (stack # <<>> => Waits(top))
  BY Called DEF Enter
<1>2. DOMAIN EmptyMap \subseteq PropertyNames
  BY DEF EmptyMap
<1>3. IsNamed(t) /\ IsObject(t) /\ x \in Keys /\ x \notin DOMAIN schemas
  BY FieldsType DEF Enter, IsNamed
<1>4. Activation(f) /\ f.role = "component" /\ Shape[f.type].key = x
  BY <1>2, <1>3, Framed
<1>5. Push(f, Fields) /\ schemas' = Put(schemas, x, Placeholder)
  BY DEF Enter
<1> HIDE DEF f, x
<1>6. /\ IsStack(stack) /\ IsSeq(stack) /\ Len(stack) \in Nat /\ Len(stack) <= MaxDepth
      /\ DOMAIN schemas \subseteq Keys /\ Marked(stack, schemas) /\ Covered(stack, schemas)
  BY <1>1 DEF WInv, Activations, Table, IsStack, IsSeq
<1>7. DOMAIN schemas' \subseteq Keys
  BY <1>3, <1>5, <1>6 DEF Put
<1>8. /\ Marked(stack, schemas') /\ Marked(<<f>> \o stack, schemas')
      /\ Covered(<<f>> \o stack, schemas')
  BY <1>3, <1>4, <1>5, <1>6, EnterMarked
<1>9. Place'
  BY <1>1, SamePlace DEF WInv, Calling
<1>10. CASE Len(stack) < MaxDepth
  <2>1. stack' = <<f>> \o stack /\ control' = Fields
    BY <1>5, <1>10 DEF Push
  <2>2. IsStack(stack') /\ Len(stack') = Len(stack) + 1 /\ stack'[1] = f
    BY <1>1, <1>4, <1>6, <2>1, PushStack, Pushed DEF top
  <2>3. Len(stack') <= MaxDepth /\ Len(stack') # 0
    BY <1>6, <1>10, <2>2, OpenAPIAssumption
  <2>4. Activations'
    BY <1>7, <1>8, <2>1, <2>2, <2>3 DEF Activations, Table
  <2>5. Turn'
    BY <1>4, <2>1, <2>2, <2>3 DEF Turn, top
  <2> QED BY <1>9, <2>4, <2>5 DEF WInv
<1>11. CASE ~(Len(stack) < MaxDepth)
  <2>1. control' = Overflow /\ stack' = stack
    BY <1>5, <1>11 DEF Push
  <2> QED BY <1>6, <1>7, <1>8, <1>9, <2>1 DEF WInv, Activations, Table, Turn
<1> QED BY <1>10, <1>11

\* A skipped field moves the loop on.
LEMMA SkipStep == WInv /\ Skip => WInv'
<1> SUFFICES ASSUME WInv, Skip PROVE WInv'
  OBVIOUS
<1>1. /\ Looping(TRUE) /\ control = Fields /\ control \notin {Idle, Done, Overflow}
      /\ stack # <<>> /\ top.role # "wrap" /\ Waits(top)
  BY Looped DEF Skip
<1>2. stack' = [stack EXCEPT ![1] = Advance(top, top.props)] /\ UNCHANGED <<control, schemas>>
  BY DEF Skip
<1>3. Activations' /\ stack' # <<>> /\ top'.role # "wrap"
  BY <1>1, <1>2, Innermost, Moving
<1>4. Place'
  BY <1>1, SamePlace DEF WInv, Looping
<1> QED BY <1>1, <1>2, <1>3, <1>4 DEF WInv, Turn

\* A flattened struct takes over the properties of the object below it.
LEMMA FlattenStep == WInv /\ Flatten => WInv'
<1> SUFFICES ASSUME WInv, Flatten PROVE WInv'
  OBVIOUS
<1> DEFINE t == Deref(field.type)
           f == Frame(t, "embed", top.props)
<1>1. /\ Looping(TRUE) /\ control = Fields /\ control \notin {Idle, Done, Overflow}
      /\ stack # <<>> /\ top.role # "wrap" /\ Waits(top)
  BY Looped DEF Flatten
<1>2. t \in Types /\ DOMAIN top.props \subseteq PropertyNames
  BY <1>1, Innermost, AtField DEF field
<1>3. IsObject(t)
  BY DEF Flatten, Flattens, IsObject
<1>4. Push(f, Fields) /\ UNCHANGED schemas
  BY DEF Flatten
<1> HIDE DEF t
<1>5. Activation(f) /\ f.role = "embed"
  BY <1>2, <1>3, Framed
<1> HIDE DEF f
<1>6. \A g : g = f => Activations' /\ (control' = Overflow \/ (control' = Fields /\ stack' # <<>> /\ top' = g))
  BY <1>1, <1>4, <1>5, Pushing
<1>7. PICK g : g = f
  OBVIOUS
<1>8. Turn'
  BY <1>5, <1>6, <1>7 DEF Turn
<1>9. Place'
  BY <1>1, SamePlace DEF WInv, Looping
<1> QED BY <1>6, <1>7, <1>8, <1>9 DEF WInv

\* The loop waits for the schema of its field.
LEMMA DescendStep == WInv /\ Descend => WInv'
<1> SUFFICES ASSUME WInv, Descend PROVE WInv'
  OBVIOUS
<1>1. /\ Looping(TRUE) /\ control \notin {Idle, Done, Overflow}
      /\ stack # <<>> /\ top.role # "wrap" /\ Waits(top)
  BY Looped DEF Descend
<1>2. field.type \in Types
  BY <1>1, Innermost, AtField DEF field
<1>3. control' = Call(field.type) /\ stack' = stack /\ schemas' = schemas
  BY DEF Descend
<1>4. Place' /\ Activations'
  BY <1>1, <1>3, SamePlace, Staying DEF WInv, Looping
<1>5. control' = Call(control'.type) /\ control'.type \in Types
  BY <1>2, <1>3, Controls
<1>6. Turn'
  BY <1>1, <1>3, <1>5 DEF Turn, top
<1> QED BY <1>4, <1>6 DEF WInv

\* The placeholder goes with its activation.
LEMMA CompleteStep == WInv /\ Complete => WInv'
<1> SUFFICES ASSUME WInv, Complete PROVE WInv'
  OBVIOUS
<1> DEFINE x == Shape[top.type].key
           y == ObjectOf(top.props)
<1>1. Looping(FALSE) /\ control \notin {Idle, Done, Overflow} /\ stack # <<>>
  BY Looped DEF Complete
<1>2. top.role = "component" /\ Activation(top) /\ top.type \in Types
  BY <1>1, Innermost DEF Complete
<1>3. x \in Keys
  BY <1>2, FieldsType DEF Activation
<1>4. y # Placeholder
  <2>1. y.kind = "object" /\ Placeholder.kind = "any"
    BY DEF ObjectOf, Placeholder, AnySchema
  <2> QED BY <2>1
<1>5. schemas' = Put(schemas, x, y) /\ control' = Return(Ref(x)) /\ stack' = Tail(stack)
  BY DEF Complete
<1>6. /\ IsStack(stack) /\ IsSeq(stack) /\ Len(stack) <= MaxDepth
      /\ DOMAIN schemas \subseteq Keys /\ Marked(stack, schemas) /\ Covered(stack, schemas)
  BY <1>1 DEF WInv, Activations, Table, IsStack
<1>7. stack[1].role = "component" /\ Shape[stack[1].type].key = x
  BY <1>2 DEF top
<1> HIDE DEF x, y
<1>8. Marked(stack', schemas') /\ Covered(stack', schemas')
  <2>1. PICK k, z : k \in Keys /\ k = x /\ z = y
    BY <1>3
  <2>2. Marked(Tail(stack), Put(schemas, k, z)) /\ Covered(Tail(stack), Put(schemas, k, z))
    BY <1>1, <1>4, <1>6, <1>7, <2>1, CompleteMarked
  <2> QED BY <1>5, <2>1, <2>2
<1>9. DOMAIN schemas' \subseteq Keys
  BY <1>3, <1>5, <1>6 DEF Put
<1>10. /\ IsStack(stack') /\ Len(stack') = Len(stack) - 1 /\ Len(stack) \in Nat
       /\ stack' # <<>> => stack'[1] = stack[2] /\ Waits(stack[2])
  BY <1>1, <1>5, <1>6, PopStack
<1>11. Len(stack') <= MaxDepth
  BY <1>6, <1>10, OpenAPIAssumption
<1>12. Activations'
  BY <1>8, <1>9, <1>10, <1>11 DEF Activations, Table
<1>13. Place'
  BY <1>1, SamePlace DEF WInv, Looping
<1>14. control' = Return(control'.schema)
  BY <1>5, Controls
<1>15. Turn'
  BY <1>10, <1>14 DEF Turn, top
<1> QED BY <1>12, <1>13, <1>15 DEF WInv

\* An activation without a component goes alone.
LEMMA InlinedStep == WInv /\ Inlined => WInv'
<1> SUFFICES ASSUME WInv, Inlined PROVE WInv'
  OBVIOUS
<1>1. Looping(FALSE) /\ control \notin {Idle, Done, Overflow} /\ stack # <<>>
  BY Looped DEF Inlined
<1>2. /\ top.role # "component" /\ stack' = Tail(stack) /\ schemas' = schemas
      /\ control' = Return(ObjectOf(top.props))
  BY DEF Inlined
<1>3. Activations' /\ (stack' # <<>> => Waits(top'))
  BY <1>1, <1>2, Leaving
<1>4. Place'
  BY <1>1, SamePlace DEF WInv, Looping
<1>5. control' = Return(control'.schema)
  BY <1>2, Controls
<1>6. Turn'
  BY <1>3, <1>5 DEF Turn
<1> QED BY <1>3, <1>4, <1>6 DEF WInv

\* The loop below goes on with the properties that the flattened struct has
\* left.
LEMMA FlattenedStep == WInv /\ Flattened => WInv'
<1> SUFFICES ASSUME WInv, Flattened PROVE WInv'
  OBVIOUS
<1> DEFINE s == Tail(stack)
           f == Advance(s[1], top.props)
           t == [s EXCEPT ![1] = f]
<1>1. /\ Looping(FALSE) /\ control = Fields /\ control \notin {Idle, Done, Overflow}
      /\ stack # <<>>
  BY Looped DEF Flattened
<1>2. top.role = "embed" /\ IsSeq(stack) /\ DOMAIN top.props \subseteq PropertyNames
  BY <1>1, Innermost DEF Flattened
<1>3. /\ IsStack(stack) /\ Len(stack) <= MaxDepth
      /\ DOMAIN schemas \subseteq Keys /\ Marked(stack, schemas) /\ Covered(stack, schemas)
  BY <1>1 DEF WInv, Activations, Table
<1>4. stack[1].role = "embed"
  BY <1>2 DEF top
<1>5. /\ IsStack(s) /\ Len(s) = Len(stack) - 1 /\ Len(stack) \in Nat
      /\ s # <<>> /\ s[1] = stack[2] /\ Waits(s[1]) /\ s[1].role # "wrap"
  BY <1>1, <1>3, <1>4, PopStack
<1>6. Marked(s, schemas) /\ Covered(s, schemas)
  BY <1>1, <1>2, <1>3, <1>4, PopMarked
<1>7. stack' = <<f>> \o Tail(s) /\ schemas' = schemas /\ control' = control
  BY <1>5 DEF Flattened
<1> HIDE DEF s
<1>8. /\ IsStack(t) /\ Len(t) = Len(s) /\ t # <<>> /\ t[1].role # "wrap"
      /\ Marked(t, schemas) /\ Covered(t, schemas)
  BY <1>2, <1>5, <1>6, MoveStack
<1> HIDE DEF f
<1>9. stack' = t
  BY <1>5, <1>7, Exchanged DEF IsStack
<1> HIDE DEF t
<1>10. Len(t) <= MaxDepth
  BY <1>3, <1>5, <1>8, OpenAPIAssumption
<1>11. Activations'
  BY <1>3, <1>7, <1>8, <1>9, <1>10 DEF Activations, Table
<1>12. Turn'
  BY <1>1, <1>7, <1>8, <1>9 DEF Turn, top
<1>13. Place'
  BY <1>1, SamePlace DEF WInv, Looping
<1> QED BY <1>11, <1>12, <1>13 DEF WInv

\* A schema nobody on the stack waits for is that of the root.
LEMMA ToRootStep == WInv /\ ToRoot => WInv'
<1> SUFFICES ASSUME WInv, ToRoot PROVE WInv'
  OBVIOUS
<1>1. control \notin {Idle, Done, Overflow}
  BY Returned DEF ToRoot
<1>2. /\ stack = <<>> /\ stack' = stack /\ schemas' = schemas /\ control' = Idle
      /\ operations' = operations /\ next' = next /\ described' = Append(described, control.schema)
  BY DEF ToRoot
<1>3. Activations'
  BY <1>1, <1>2, Staying
<1>4. /\ IsSeq(described) /\ Len(described) < 3 /\ Len(described) \in Nat
      /\ operations \in OperationLists /\ next \in 1 .. Len(operations) + 1 /\ next <= Len(operations)
  BY <1>1 DEF WInv, Place, Working, IsSeq
<1>5. IsSeq(described') /\ Len(described') = Len(described) + 1
  BY <1>2, <1>4, Appended
<1>6. Place'
  BY <1>2, <1>4, <1>5 DEF Place
<1> QED BY <1>2, <1>3, <1>6 DEF WInv, Turn

\* A wrapper returns as soon as it has the schema of its element.
LEMMA ToWrapperStep == WInv /\ ToWrapper => WInv'
<1> SUFFICES ASSUME WInv, ToWrapper PROVE WInv'
  OBVIOUS
<1>1. control \notin {Idle, Done, Overflow}
  BY Returned DEF ToWrapper
<1>2. /\ stack # <<>> /\ top.role # "component" /\ stack' = Tail(stack) /\ schemas' = schemas
      /\ control' = Return(Wrapped(top.type, control.schema))
  BY DEF ToWrapper
<1>3. Activations' /\ (stack' # <<>> => Waits(top'))
  BY <1>1, <1>2, Leaving
<1>4. Place'
  BY <1>1, SamePlace DEF WInv, ToWrapper
<1>5. control' = Return(control'.schema)
  BY <1>2, Controls
<1>6. Turn'
  BY <1>3, <1>5 DEF Turn
<1> QED BY <1>3, <1>4, <1>6 DEF WInv

\* The loop puts the schema under the name of its field, and moves on.
LEMMA ToFieldStep == WInv /\ ToField => WInv'
<1> SUFFICES ASSUME WInv, ToField PROVE WInv'
  OBVIOUS
<1> DEFINE name  == PropertyName(top.type, field, op.marshal)
           props == Put(top.props, name, control.schema)
<1>1. control \notin {Idle, Done, Overflow} /\ stack # <<>> /\ top.role # "wrap" /\ Waits(top)
  BY Returned DEF ToField
<1>2. Activation(top) /\ DOMAIN top.props \subseteq PropertyNames
  BY <1>1, Innermost
<1>3. name \in PropertyNames
  BY <1>1, <1>2, AtField DEF PropertyName, field
<1>4. DOMAIN props \subseteq PropertyNames
  BY <1>2, <1>3 DEF Put
<1>5. /\ stack' = [stack EXCEPT ![1] = Advance(top, props)] /\ schemas' = schemas
      /\ control' = Fields
  BY DEF ToField
<1> HIDE DEF props
<1>6. Activations' /\ stack' # <<>> /\ top'.role # "wrap"
  <2>1. PICK ps : ps = props
    OBVIOUS
  <2>2. DOMAIN ps \subseteq PropertyNames /\ stack' = [stack EXCEPT ![1] = Advance(top, ps)]
    BY <1>4, <1>5, <2>1
  <2> QED BY <1>1, <1>5, <2>2, Moving
<1>7. Place'
  BY <1>1, SamePlace DEF WInv, ToField
<1> QED BY <1>5, <1>6, <1>7 DEF WInv, Turn

\* Every step preserves the invariant.
LEMMA NextWInv == WInv /\ [Next]_vars => WInv'
<1> SUFFICES ASSUME WInv, [Next]_vars PROVE WInv'
  OBVIOUS
<1>1. ASSUME NEW t \in Types, Describe(t) \/ Wrap(t) \/ Nest(t) \/ Known(t) \/ Enter(t)
      PROVE  WInv'
  BY <1>1, DescribeStep, WrapStep, NestStep, KnownStep, EnterStep
<1>2. CASE Root \/ assign \/ Finish
  BY <1>2, RootStep, AssignStep, FinishStep
<1>3. CASE Skip \/ Flatten \/ Descend
  BY <1>3, SkipStep, FlattenStep, DescendStep
<1>4. CASE Complete \/ Inlined \/ Flattened
  BY <1>4, CompleteStep, InlinedStep, FlattenedStep
<1>5. CASE ToRoot \/ ToWrapper \/ ToField
  BY <1>5, ToRootStep, ToWrapperStep, ToFieldStep
<1>6. CASE UNCHANGED vars
  BY <1>6 DEF vars, WInv, Place, Working, Turn, Activations, Table, top
<1> QED BY <1>1, <1>2, <1>3, <1>4, <1>5, <1>6 DEF Next

-----------------------------------------------------------------------------
(* The theorems                                                            *)

\* Whatever the types and however they refer to each other, the walk never
\* leaves the fields of a type, the types of the graph, the keys of the
\* components and the depth of the stack.
THEOREM WalkTypeCorrect == Spec => []WalkTypeOK
<1>1. Spec => []WInv
  BY InitWInv, NextWInv, PTL DEF Spec
<1> QED BY <1>1, WalkTypes, PTL

\* Component schemas are placeholders exactly while the activation that
\* describes them is under way, one at most: recursive types meet their own
\* placeholder, and the finished document has none.
THEOREM PlaceholdersHold == Spec => []PlaceholdersAreOpen
<1>1. Spec => []WInv
  BY InitWInv, NextWInv, PTL DEF Spec
<1> QED BY <1>1, Placeholders, PTL

-----------------------------------------------------------------------------
(* The end of the stack.  An activation that is not of a component is of a *)
(* type that follows, unguarded, the type of the one below it.             *)

Edges(s) ==
  \A k \in 1 .. Len(s) - 1 : s[k].role # "component" => s[k].type \in Unguarded(s[k + 1].type)

LInv ==
  /\ Edges(stack)
  /\ control.do = "call" /\ stack # <<>> /\ ~IsNamed(control.type)
       => control.type \in Unguarded(top.type)
  /\ control = Overflow => Len(stack) = MaxDepth

\* What follows the type of a wrapper, ...
LEMMA WrapperIsFollowed ==
  ASSUME NEW t \in Types, IsWrapper(t), ~IsNamed(Shape[t].elem)
  PROVE  Shape[t].elem \in Unguarded(t)
<1>1. ~IsObject(t)
  BY DEF IsObject, IsWrapper
<1> QED BY <1>1 DEF Unguarded

\* ... and that of an activation with a field that is neither hidden nor of a
\* type with a component.
LEMMA FieldIsFollowed ==
  ASSUME NEW f, Activation(f), f.role # "wrap", Waits(f),
         ~Hidden(Shape[f.type].fields[f.at])
  PROVE  LET g == Shape[f.type].fields[f.at]
         IN  /\ Flattens(g) => Deref(g.type) \in Unguarded(f.type)
             /\ ~Flattens(g) /\ ~IsNamed(g.type) => g.type \in Unguarded(f.type)
<1> DEFINE t == f.type
           visible == {Shape[t].fields[i] : i \in {j \in DOMAIN Shape[t].fields : ~Hidden(Shape[t].fields[j])}}
           g == Shape[t].fields[f.at]
<1>1. IsObject(t) /\ FieldsOf(t) \in Seq(Field) /\ f.at \in 1 .. Len(FieldsOf(t))
  BY FieldsType DEF Activation, Waits
<1>2. f.at \in DOMAIN Shape[t].fields
  BY <1>1 DEF FieldsOf
<1>3. g \in visible
  BY <1>2
<1>4. Unguarded(t) = {Deref(h.type) : h \in {h \in visible : Flattens(h)}}
                     \cup {h.type : h \in {h \in visible : ~Flattens(h) /\ ~IsNamed(h.type)}}
  BY <1>1 DEF Unguarded
<1> HIDE DEF visible, g, t
<1> QED BY <1>3, <1>4 DEF g, t

\* A push, a return and a move keep the edges.
LEMMA PushEdges ==
  ASSUME NEW s, IsSeq(s), Edges(s), NEW f,
         f.role # "component" /\ s # <<>> => f.type \in Unguarded(s[1].type)
  PROVE  Edges(<<f>> \o s)
<1> DEFINE t == <<f>> \o s
           n == Len(s)
<1>1. n \in Nat /\ Len(t) = n + 1 /\ t[1] = f /\ \A i \in 1 .. n : t[i + 1] = s[i]
  BY Pushed DEF IsSeq
<1> HIDE DEF t
<1> SUFFICES ASSUME NEW k \in 1 .. n, t[k].role # "component"
             PROVE  t[k].type \in Unguarded(t[k + 1].type)
  BY <1>1 DEF Edges, t
<1>2. CASE k = 1
  <2>1. s # <<>> /\ 1 \in 1 .. n
    BY <1>1, <1>2
  <2> QED BY <1>1, <1>2, <2>1
<1>3. CASE k # 1
  <2>1. k - 1 \in 1 .. n - 1 /\ (k - 1) + 1 = k /\ k - 1 \in 1 .. n
    BY <1>1, <1>3
  <2>2. t[k] = s[k - 1] /\ t[k + 1] = s[k]
    BY <1>1, <2>1
  <2> QED BY <2>1, <2>2 DEF Edges
<1> QED BY <1>2, <1>3

\* What an activation was called by is below it when the innermost is gone.
LEMMA PopEdges ==
  ASSUME NEW s, IsSeq(s), s # <<>>, Edges(s)
  PROVE  Edges(Tail(s))
<1> DEFINE t == Tail(s)
           n == Len(s)
<1>1. n \in Nat \ {0} /\ Len(t) = n - 1 /\ \A i \in 1 .. n - 1 : t[i] = s[i + 1]
  BY Popped
<1> HIDE DEF t
<1> SUFFICES ASSUME NEW k \in 1 .. n - 2, t[k].role # "component"
             PROVE  t[k].type \in Unguarded(t[k + 1].type)
  BY <1>1 DEF Edges, t
<1>2. k \in 1 .. n - 1 /\ k + 1 \in 1 .. n - 1
  BY <1>1
<1>3. t[k] = s[k + 1] /\ t[k + 1] = s[(k + 1) + 1]
  BY <1>1, <1>2
<1> QED BY <1>2, <1>3 DEF Edges

\* Edges are between types: properties and loop index may change.
LEMMA ReplaceEdges ==
  ASSUME NEW s, IsSeq(s), s # <<>>, Edges(s), NEW f, f.role = s[1].role, f.type = s[1].type
  PROVE  Edges([s EXCEPT ![1] = f])
<1> DEFINE t == [s EXCEPT ![1] = f]
           n == Len(s)
<1>1. n \in Nat \ {0} /\ Len(t) = n /\ t[1] = f /\ \A i \in 2 .. n : t[i] = s[i]
  BY Replaced
<1> HIDE DEF t
<1>2. \A i \in 1 .. n : i = 1 \/ i \in 2 .. n
  BY <1>1
<1>3. \A i \in 1 .. n : t[i].role = s[i].role /\ t[i].type = s[i].type
  BY <1>1, <1>2
<1>4. \A k \in 1 .. n - 1 : k \in 1 .. n /\ k + 1 \in 1 .. n
  BY <1>1
<1>5. \A k \in 1 .. n - 1 : t[k].role # "component" => t[k].type \in Unguarded(t[k + 1].type)
  <2> SUFFICES ASSUME NEW k \in 1 .. n - 1, t[k].role # "component"
               PROVE  t[k].type \in Unguarded(t[k + 1].type)
    OBVIOUS
  <2>1. t[k].role = s[k].role /\ t[k].type = s[k].type /\ t[k + 1].type = s[k + 1].type
    BY <1>3, <1>4
  <2> QED BY <2>1 DEF Edges
<1> QED BY <1>1, <1>5 DEF Edges, t

\* The three for the stack of the generator.
LEMMA PushingEdges ==
  ASSUME WInv, LInv, NEW frame, NEW do, Push(frame, do), do # Overflow,
         frame.role # "component" /\ stack # <<>> => frame.type \in Unguarded(top.type),
         do.do = "call" /\ ~IsNamed(do.type) => do.type \in Unguarded(frame.type)
  PROVE  LInv'
<1>1. IsSeq(stack) /\ Len(stack) \in Nat /\ Len(stack) <= MaxDepth
  BY DEF WInv, Activations, IsStack, IsSeq
<1>2. CASE Len(stack) < MaxDepth
  <2>1. stack' = <<frame>> \o stack /\ control' = do
    BY <1>2 DEF Push
  <2>2. stack'[1] = frame
    BY <1>1, <2>1, Pushed
  <2>3. Edges(stack')
    BY <1>1, <2>1, PushEdges DEF LInv, top
  <2> QED BY <2>1, <2>2, <2>3 DEF LInv, top
<1>3. CASE ~(Len(stack) < MaxDepth)
  <2>1. control' = Overflow /\ stack' = stack
    BY <1>3 DEF Push
  <2>2. Len(stack) = MaxDepth
    BY <1>1, <1>3, OpenAPIAssumption
  <2> QED BY <2>1, <2>2, Controls DEF LInv
<1> QED BY <1>2, <1>3

\* An activation that returns leaves the edges below it.
LEMMA LeavingEdges ==
  ASSUME WInv, LInv, stack # <<>>, stack' = Tail(stack), control'.do = "return"
  PROVE  LInv'
<1>1. Edges(stack')
  BY PopEdges DEF LInv, WInv, Activations, IsStack
<1> QED BY <1>1, Controls DEF LInv

\* The turn of a loop leaves all of them.
LEMMA MovingEdges ==
  ASSUME WInv, LInv, stack # <<>>, top.role # "wrap", Waits(top),
         NEW props, DOMAIN props \subseteq PropertyNames,
         stack' = [stack EXCEPT ![1] = Advance(top, props)], control' = Fields
  PROVE  LInv'
<1> DEFINE f == Advance(top, props)
<1>1. f.role = top.role /\ f.type = top.type
  BY Innermost, Advanced
<1> HIDE DEF f
<1> DEFINE t == [stack EXCEPT ![1] = f]
<1>2. stack' = t /\ f.role = stack[1].role /\ f.type = stack[1].type
  BY <1>1 DEF f, top
<1>3. IsSeq(stack) /\ Edges(stack)
  BY DEF LInv, WInv, Activations, IsStack
<1>4. Edges(t)
  BY <1>2, <1>3, ReplaceEdges
<1> HIDE DEF t
<1>5. Edges(stack')
  BY <1>2, <1>4
<1> QED BY <1>5, Controls DEF LInv

\* An empty stack has no edges.
LEMMA InitLInv == Init => LInv
<1> SUFFICES ASSUME Init PROVE LInv
  OBVIOUS
<1>1. Len(<<>>) = 0
  OBVIOUS
<1> QED BY <1>1, Controls DEF Init, LInv, Edges

\* A call changes the stack by an activation of the type that is called.
LEMMA CallKeepsLInv ==
  ASSUME WInv, LInv, NEW t \in Types, Describe(t) \/ Wrap(t) \/ Nest(t) \/ Known(t) \/ Enter(t)
  PROVE  LInv'
<1>1. Calling(t) /\ control = Call(t)
  BY DEF Describe, Wrap, Nest, Known, Enter, Calling
<1>2. stack # <<>> /\ ~IsNamed(t) => t \in Unguarded(top.type)
  BY <1>1, Controls DEF LInv
<1>3. CASE Describe(t) \/ Known(t)
  <2>1. stack' = stack /\ control'.do = "return"
    BY <1>3, Controls DEF Describe, Known
  <2> QED BY <2>1, Controls DEF LInv
<1>4. CASE Wrap(t)
  <2> DEFINE f  == Frame(t, "wrap", EmptyMap)
             do == Call(Shape[t].elem)
  <2>1. f.role = "wrap" /\ f.type = t /\ do # Overflow /\ do.type = Shape[t].elem
    BY Controls DEF Frame
  <2>2. Push(f, do) /\ IsWrapper(t)
    BY <1>4 DEF Wrap
  <2>3. ~IsNamed(t)
    BY <2>2 DEF IsNamed, IsObject, IsWrapper
  <2>4. ~IsNamed(do.type) => do.type \in Unguarded(f.type)
    BY <2>1, <2>2, WrapperIsFollowed
  <2> HIDE DEF f, do
  <2> QED BY <1>2, <2>1, <2>2, <2>3, <2>4, PushingEdges
<1>5. CASE Nest(t)
  <2> DEFINE f == Frame(t, "inline", EmptyMap)
  <2>1. f.role = "inline" /\ f.type = t
    BY DEF Frame
  <2>2. Push(f, Fields) /\ ~IsNamed(t)
    BY <1>5 DEF Nest
  <2> HIDE DEF f
  <2> QED BY <1>2, <2>1, <2>2, Controls, PushingEdges
<1>6. CASE Enter(t)
  <2> DEFINE f == Frame(t, "component", EmptyMap)
  <2>1. f.role = "component"
    BY DEF Frame
  <2>2. Push(f, Fields)
    BY <1>6 DEF Enter
  <2> HIDE DEF f
  <2> QED BY <2>1, <2>2, Controls, PushingEdges
<1> QED BY <1>3, <1>4, <1>5, <1>6

\* So does the turn of a loop, ...
LEMMA TurnKeepsLInv ==
  ASSUME WInv, LInv, Skip \/ Flatten \/ Descend
  PROVE  LInv'
<1>1. /\ Looping(TRUE) /\ control = Fields /\ stack # <<>> /\ top.role # "wrap" /\ Waits(top)
      /\ Activation(top) /\ DOMAIN top.props \subseteq PropertyNames
  BY Looped, Innermost DEF Skip, Flatten, Descend
<1>2. CASE Skip
  <2>1. stack' = [stack EXCEPT ![1] = Advance(top, top.props)] /\ control' = Fields
    BY <1>1, <1>2 DEF Skip
  <2> QED BY <1>1, <2>1, MovingEdges
<1>3. ~Hidden(field) =>
        /\ Flattens(field) => Deref(field.type) \in Unguarded(top.type)
        /\ ~Flattens(field) /\ ~IsNamed(field.type) => field.type \in Unguarded(top.type)
  BY <1>1, FieldIsFollowed DEF field
<1>4. CASE Flatten
  <2> DEFINE f == Frame(Deref(field.type), "embed", top.props)
  <2>1. f.type = Deref(field.type)
    BY DEF Frame
  <2>2. Push(f, Fields) /\ ~Hidden(field) /\ Flattens(field)
    BY <1>4 DEF Flatten
  <2>3. f.type \in Unguarded(top.type)
    BY <1>3, <2>1, <2>2
  <2> HIDE DEF f
  <2>4. PICK g : g = f
    OBVIOUS
  <2> QED BY <2>2, <2>3, <2>4, Controls, PushingEdges
<1>5. CASE Descend
  <2>1. stack' = stack /\ control' = Call(field.type) /\ ~Hidden(field) /\ ~Flattens(field)
    BY <1>5 DEF Descend
  <2>2. control'.type = field.type /\ control' # Overflow
    BY <2>1, Controls
  <2> QED BY <1>3, <2>1, <2>2 DEF LInv, top
<1> QED BY <1>2, <1>4, <1>5

\* ... its end and the return of a schema.
LEMMA EndKeepsLInv ==
  ASSUME WInv, LInv, Complete \/ Inlined \/ Flattened \/ ToRoot \/ ToWrapper \/ ToField
  PROVE  LInv'
<1>1. CASE Complete \/ Inlined
  <2>1. stack # <<>>
    BY <1>1, Looped DEF Complete, Inlined
  <2>2. stack' = Tail(stack) /\ control'.do = "return"
    BY <1>1, Controls DEF Complete, Inlined
  <2> QED BY <2>1, <2>2, LeavingEdges
<1>2. CASE Flattened
  <2> DEFINE s == Tail(stack)
             f == Advance(s[1], top.props)
             t == [s EXCEPT ![1] = f]
  <2>1. stack # <<>> /\ control = Fields /\ top.role = "embed"
    BY <1>2, Looped DEF Flattened
  <2>2. IsStack(stack) /\ IsSeq(stack) /\ Edges(stack) /\ DOMAIN top.props \subseteq PropertyNames
    BY <2>1, Innermost DEF LInv, WInv, Activations
  <2>3. stack[1].role = "embed"
    BY <2>1 DEF top
  <2>4. IsStack(s) /\ IsSeq(s) /\ s # <<>> /\ s[1] = stack[2] /\ Waits(s[1]) /\ s[1].role # "wrap"
    BY <2>1, <2>2, <2>3, PopStack DEF IsStack
  <2>5. Edges(s)
    BY <2>1, <2>2, PopEdges
  <2>6. stack' = <<f>> \o Tail(s) /\ control' = control
    BY <1>2, <2>4 DEF Flattened
  <2> HIDE DEF s
  <2>7. Activation(s[1])
    <3>1. 1 \in 1 .. Len(s)
      BY <2>4, Popped
    <3> QED BY <2>4, <3>1 DEF IsStack
  <2>8. f.role = s[1].role /\ f.type = s[1].type
    BY <2>2, <2>4, <2>7, Advanced
  <2> HIDE DEF f
  <2>9. Edges(t) /\ stack' = t
    BY <2>4, <2>5, <2>6, <2>8, ReplaceEdges, Exchanged
  <2> HIDE DEF t
  <2> QED BY <2>1, <2>6, <2>9, Controls DEF LInv
<1>3. CASE ToRoot
  BY <1>3, Controls DEF ToRoot, LInv
<1>4. CASE ToWrapper
  <2>1. stack # <<>> /\ stack' = Tail(stack) /\ control'.do = "return"
    BY <1>4, Controls DEF ToWrapper
  <2> QED BY <2>1, LeavingEdges
<1>5. CASE ToField
  <2> DEFINE name  == PropertyName(top.type, field, op.marshal)
             props == Put(top.props, name, control.schema)
  <2>1. stack # <<>> /\ top.role # "wrap" /\ Waits(top)
    BY <1>5, Returned DEF ToField
  <2>2. Activation(top) /\ DOMAIN top.props \subseteq PropertyNames
    BY <2>1, Innermost
  <2>3. name \in PropertyNames
    BY <2>1, <2>2, AtField DEF PropertyName, field
  <2>4. DOMAIN props \subseteq PropertyNames
    BY <2>2, <2>3 DEF Put
  <2>5. stack' = [stack EXCEPT ![1] = Advance(top, props)] /\ control' = Fields
    BY <1>5 DEF ToField
  <2> HIDE DEF props
  <2>6. PICK ps : ps = props
    OBVIOUS
  <2>7. DOMAIN ps \subseteq PropertyNames /\ stack' = [stack EXCEPT ![1] = Advance(top, ps)]
    BY <2>4, <2>5, <2>6
  <2> QED BY <2>1, <2>5, <2>7, MovingEdges
<1> QED BY <1>1, <1>2, <1>3, <1>4, <1>5

\* Every step preserves the edges.
LEMMA NextLInv == WInv /\ LInv /\ [Next]_vars => LInv'
<1> SUFFICES ASSUME WInv, LInv, [Next]_vars PROVE LInv'
  OBVIOUS
<1>1. CASE Root \/ assign \/ Finish
  <2>1. control = Idle /\ stack = <<>> /\ stack' = stack /\ control' # Overflow
    BY <1>1, Controls DEF Root, assign, Finish, WInv, Turn
  <2> QED BY <2>1 DEF LInv
<1>2. CASE UNCHANGED vars
  BY <1>2 DEF vars, LInv, top
<1> QED BY <1>1, <1>2, CallKeepsLInv, TurnKeepsLInv, EndKeepsLInv DEF Next

\* A stack with room for an activation of each type above each component, and
\* without one, shows a cycle when it is full.
LEMMA FullStack ==
  ASSUME WInv, LInv, IsFiniteSet(Types), IsFiniteSet(Keys),
         MaxDepth > (Cardinality(Keys) + 1) * Cardinality(Types)
  PROVE  OverflowsOnEndlessTypes
<1> SUFFICES ASSUME control = Overflow
             PROVE  \E i, j \in DOMAIN stack :
                      /\ i < j /\ stack[i].type = stack[j].type
                      /\ \A k \in i .. j - 1 : stack[k].type \in Unguarded(stack[k + 1].type)
  BY DEF OverflowsOnEndlessTypes
<1> DEFINE n == Len(stack)
           Beyond(i) == {c \in i .. n : stack[c].role = "component"}
           KeyAt(i) == IF Beyond(i) = {} THEN Inline ELSE Shape[stack[Min(Beyond(i))].type].key
           f == [i \in 1 .. n |-> <<KeyAt(i), stack[i].type>>]
           T == (Keys \cup {Inline}) \X Types
<1>1. n = MaxDepth /\ n \in Nat /\ DOMAIN stack = 1 .. n /\ Edges(stack) /\ Marked(stack, schemas)
  BY DEF LInv, WInv, Activations, Table, IsStack, IsSeq
<1>2. \A i \in 1 .. n : Activation(stack[i])
  BY DEF WInv, Activations, IsStack
<1> HIDE DEF n
<1>3. ASSUME NEW i \in 1 .. n, Beyond(i) # {}
      PROVE  /\ Min(Beyond(i)) \in Beyond(i) /\ \A c \in Beyond(i) : Min(Beyond(i)) <= c
             /\ Min(Beyond(i)) \in 1 .. n /\ KeyAt(i) \in Keys /\ Opens(stack[Min(Beyond(i))], KeyAt(i))
  <2>1. Beyond(i) \in SUBSET Nat /\ Beyond(i) \in SUBSET (1 .. n)
    BY <1>1
  <2> DEFINE m == Min(Beyond(i))
  <2>2. m \in Beyond(i) /\ \A c \in Beyond(i) : m <= c
    BY <1>3, <2>1, MinType
  <2> HIDE DEF m
  <2>3. m \in 1 .. n /\ stack[m].role = "component"
    BY <2>1, <2>2
  <2>4. Shape[stack[m].type].key \in Keys
    BY <1>2, <2>3, FieldsType DEF Activation
  <2>5. KeyAt(i) = Shape[stack[m].type].key
    BY <1>3 DEF m
  <2>6. Opens(stack[m], KeyAt(i))
    BY <2>3, <2>5 DEF Opens
  <2> HIDE DEF Beyond, KeyAt
  <2> QED BY <2>2, <2>3, <2>4, <2>5, <2>6 DEF m
<1>4. f \in [1 .. n -> T]
  <2> SUFFICES ASSUME NEW i \in 1 .. n PROVE KeyAt(i) \in Keys \cup {Inline} /\ stack[i].type \in Types
    OBVIOUS
  <2>1. stack[i].type \in Types
    BY <1>2 DEF Activation
  <2>2. CASE Beyond(i) = {}
    BY <2>1, <2>2
  <2>3. CASE Beyond(i) # {}
    <3>1. KeyAt(i) \in Keys
      BY <1>3, <2>3
    <3> HIDE DEF KeyAt
    <3> QED BY <2>1, <3>1
  <2> QED BY <2>2, <2>3
<1>5. PICK i, j \in 1 .. n : i < j /\ f[i] = f[j]
  <2>1. IsFiniteSet(Keys \cup {Inline}) /\ Cardinality(Keys \cup {Inline}) = Cardinality(Keys) + 1
    BY FS_AddElement, SchemasAssumption
  <2>2. IsFiniteSet(T) /\ Cardinality(T) = (Cardinality(Keys) + 1) * Cardinality(Types)
    BY <2>1, FS_Product
  <2>3. IsFiniteSet(1 .. n) /\ Cardinality(1 .. n) = n
    <3>1. Cardinality(1 .. n) = IF 1 > n THEN 0 ELSE n - 1 + 1
      BY <1>1, FS_Interval
    <3> QED BY <1>1, <3>1, FS_Interval
  <2>4. Cardinality(T) < Cardinality(1 .. n)
    BY <1>1, <2>2, <2>3
  <2> HIDE DEF f, T
  <2>5. PICK x, y \in 1 .. n : x # y /\ f[x] = f[y]
    BY <1>4, <2>2, <2>3, <2>4, FS_PigeonHole
  <2>6. x < y \/ y < x
    BY <1>1, <2>5
  <2> QED BY <2>5, <2>6
<1>6. KeyAt(i) = KeyAt(j) /\ stack[i].type = stack[j].type
  <2> HIDE DEF KeyAt
  <2> QED BY <1>5
<1> HIDE DEF f, T
<1>7. ASSUME NEW k \in i .. j - 1
      PROVE  stack[k].role # "component"
  <2> SUFFICES ASSUME stack[k].role = "component" PROVE FALSE
    OBVIOUS
  <2>1. k \in Beyond(i) /\ Beyond(i) # {}
    <3> HIDE DEF Beyond, KeyAt
    <3>1. k \in i .. n
      BY <1>1, <1>5
    <3>2. k \in Beyond(i)
      BY <3>1 DEF Beyond
    <3> QED BY <3>2
  <2>2. KeyAt(i) \in Keys /\ Opens(stack[Min(Beyond(i))], KeyAt(i))
        /\ Min(Beyond(i)) \in 1 .. n /\ Min(Beyond(i)) <= k
    BY <1>3, <2>1
  <2>3. Beyond(j) # {}
    <3> SUFFICES ASSUME Beyond(j) = {} PROVE FALSE
      OBVIOUS
    <3>1. KeyAt(j) = Inline
      OBVIOUS
    <3> HIDE DEF KeyAt, Beyond
    <3> QED BY <1>6, <2>2, <3>1, SchemasAssumption
  <2>4. KeyAt(j) \in Keys /\ Opens(stack[Min(Beyond(j))], KeyAt(j))
        /\ Min(Beyond(j)) \in 1 .. n /\ Min(Beyond(j)) \in Beyond(j)
    BY <1>3, <2>3
  <2>5. Min(Beyond(j)) \in j .. n
    BY <2>4
  <2> HIDE DEF KeyAt, Beyond
  <2>6. Min(Beyond(i)) = Min(Beyond(j))
    BY <1>1, <1>6, <2>2, <2>4 DEF Marked, n
  <2> QED BY <1>1, <2>2, <2>5, <2>6
<1>8. \A k \in i .. j - 1 : stack[k].type \in Unguarded(stack[k + 1].type)
  <2> TAKE k \in i .. j - 1
  <2>1. k \in 1 .. n - 1
    BY <1>1
  <2> QED BY <1>1, <1>7, <2>1 DEF Edges, n
<1> QED BY <1>1, <1>5, <1>6, <1>8

\* On a stack that is deep enough for all paths without one, only a cycle of
\* types with no named type in it does not end: a graph of types without such
\* cycles always gives a document, however recursive its messages are.
THEOREM OverflowsOnCycles ==
  ASSUME IsFiniteSet(Keys), MaxDepth > (Cardinality(Keys) + 1) * Cardinality(Types)
  PROVE  Spec => []OverflowsOnEndlessTypes
<1>0. IsFiniteSet(Types)
  BY SchemasAssumption
<1>1. Spec => []WInv
  BY InitWInv, NextWInv, PTL DEF Spec
<1>2. WInv /\ LInv => OverflowsOnEndlessTypes
  BY <1>0, FullStack
<1> QED BY <1>1, <1>2, InitLInv, NextLInv, PTL DEF Spec

\* The values of a recursive function on the numbers up to N, in S.
Iterates(f, N, S, b, G) ==
  f \in [0 .. N -> S] /\ f[0] = b /\ \A n \in 1 .. N : f[n] = G[n][f[n - 1]]

\* There is such a function if its steps stay in S.
LEMMA Recursion ==
  ASSUME NEW N \in Nat, NEW S, NEW b \in S, NEW G, G \in [1 .. N -> [S -> S]]
  PROVE  \E f : Iterates(f, N, S, b, G)
<1> DEFINE Body(f, n) == IF n = 0 THEN b ELSE G[n][f[n - 1]]
           Runs(n) == \E f \in [0 .. n -> S] : \A k \in 0 .. n : f[k] = Body(f, k)
           P == {n \in 0 .. N : Runs(n)}
<1>1. 0 \in P
  <2> DEFINE f == [k \in 0 .. 0 |-> b]
  <2>1. f \in [0 .. 0 -> S] /\ \A k \in 0 .. 0 : f[k] = Body(f, k)
    OBVIOUS
  <2> HIDE DEF f, Body
  <2>2. Runs(0)
    BY <2>1
  <2> HIDE DEF Runs
  <2> QED BY <2>2
<1>2. ASSUME NEW n \in 1 .. N, n - 1 \in P
      PROVE  n \in P
  <2>1. PICK f \in [0 .. n - 1 -> S] : \A k \in 0 .. n - 1 : f[k] = Body(f, k)
    BY <1>2
  <2> DEFINE g == [k \in 0 .. n |-> IF k = n THEN G[n][f[n - 1]] ELSE f[k]]
  <2>2. g \in [0 .. n -> S]
    OBVIOUS
  <2>3. ASSUME NEW k \in 0 .. n
        PROVE  g[k] = Body(g, k)
    <3>1. CASE k = 0
      BY <2>1, <3>1
    <3>2. CASE k # 0
      <4>1. k - 1 \in 0 .. n - 1 /\ g[k - 1] = f[k - 1] /\ (k # n => k \in 0 .. n - 1)
        BY <3>2
      <4> QED BY <2>1, <3>2, <4>1
    <3> QED BY <3>1, <3>2
  <2> HIDE DEF g, Body
  <2>4. Runs(n)
    BY <2>2, <2>3
  <2> HIDE DEF Runs
  <2>5. n \in 0 .. N
    OBVIOUS
  <2> QED BY <2>4, <2>5
<1>3. Runs(N)
  <2> HIDE DEF Runs
  <2>1. \A n \in 1 .. N : n - 1 \in P => n \in P
    BY <1>2
  <2> HIDE DEF P
  <2>2. \A n \in 0 .. N : n \in P
    BY <1>1, <2>1, CountingUp, Zenon
  <2>3. N \in P
    BY <2>2
  <2> QED BY <2>3 DEF P
<1>4. PICK f \in [0 .. N -> S] : \A k \in 0 .. N : f[k] = Body(f, k)
  BY <1>3
<1>5. f[0] = b /\ \A n \in 1 .. N : f[n] = G[n][f[n - 1]]
  BY <1>4
<1> QED BY <1>4, <1>5 DEF Iterates

-----------------------------------------------------------------------------
(* The paths                                                               *)

\* One turn of the loop of normalizePath, on what it has kept so far.
Kept(out, segment) == IF segment.kind = "end" THEN out ELSE Append(out, segment.text)

\* The loop of normalizePath has a result after every segment.
LEMMA PathRuns ==
  ASSUME NEW path \in Seq(Segment)
  PROVE  \E out \in [0 .. Len(path) -> Seq(Segments)] :
           /\ out[0] = <<>> /\ normalizePath(path) = out[Len(path)]
           /\ \A n \in 1 .. Len(path) : out[n] = Kept(out[n - 1], path[n])
<1> DEFINE N == Len(path)
           S == Seq(Segments)
           G == [n \in 1 .. N |-> [s \in S |-> Kept(s, path[n])]]
           Body(f, n) == IF n = 0 THEN <<>> ELSE Kept(f[n - 1], path[n])
           out == CHOOSE f : f = [n \in 0 .. N |-> Body(f, n)]
<1>0. <<>> \in S
  OBVIOUS
<1>1. N \in Nat
  OBVIOUS
<1>2. \A n \in 1 .. N, s \in S : Kept(s, path[n]) \in S
  <2> TAKE n \in 1 .. N, s \in S
  <2>1. path[n] \in Segment
    OBVIOUS
  <2>2. path[n].text \in Segments
    BY <2>1 DEF Segment
  <2> QED BY <2>2 DEF Kept
<1>3. normalizePath(path) = out[N]
  BY DEF normalizePath, Kept
<1> HIDE DEF N, S
<1>4. G \in [1 .. N -> [S -> S]]
  BY <1>2
<1>5. PICK f : Iterates(f, N, S, <<>>, G)
  <2> HIDE DEF G
  <2> QED BY <1>0, <1>1, <1>4, Recursion
<1>6. f = [n \in 0 .. N |-> Body(f, n)]
  <2> HIDE DEF G
  <2>1. \A n \in 0 .. N : f[n] = Body(f, n)
    <3> TAKE n \in 0 .. N
    <3>1. n # 0 => f[n] = G[n][f[n - 1]] /\ n \in 1 .. N /\ f[n - 1] \in S
      BY <1>1, <1>5 DEF Iterates
    <3>2. n # 0 => G[n][f[n - 1]] = Kept(f[n - 1], path[n])
      BY <3>1 DEF G
    <3> QED BY <1>5, <3>1, <3>2 DEF Iterates
  <2>2. f = [n \in 0 .. N |-> f[n]]
    BY <1>5 DEF Iterates
  <2> HIDE DEF Body
  <2> QED BY <2>1, <2>2
<1>7. \E g : g = [n \in 0 .. N |-> Body(g, n)]
  <2> HIDE DEF Body
  <2> QED BY <1>6
<1>8. out = [n \in 0 .. N |-> Body(out, n)]
  <2> HIDE DEF Body
  <2> QED BY <1>7
<1> HIDE DEF out
<1> DEFINE Claim == {n \in 0 .. N : out[n] \in S}
<1>9. \A n \in 0 .. N : n \in Claim
  <2>1. 0 \in Claim
    BY <1>0, <1>1, <1>8
  <2>2. ASSUME NEW n \in 1 .. N, n - 1 \in Claim
        PROVE  n \in Claim
    <3>1. n \in 0 .. N /\ out[n] = Kept(out[n - 1], path[n])
      BY <1>1, <1>8
    <3> QED BY <1>2, <2>2, <3>1
  <2> HIDE DEF Claim
  <2> QED BY <1>1, <2>1, <2>2, CountingUp, Zenon
<1>10. out \in [0 .. N -> S]
  BY <1>8, <1>9
<1>11. out[0] = <<>> /\ \A n \in 1 .. N : out[n] = Kept(out[n - 1], path[n])
  BY <1>1, <1>8
<1> QED BY <1>3, <1>10, <1>11 DEF N, S

\* What is kept are the texts of the segments that stand for something.
LEMMA PathIsNormal ==
  ASSUME NEW path \in Seq(Segment)
  PROVE  /\ normalizePath(path) \in Seq(Segments)
         /\ Contract!IsPathOf(normalizePath(path), path)
<1> DEFINE N == Len(path)
           Standing(n) == {i \in 1 .. n : path[i].kind # "end"}
           Follows(s, at, n) == /\ at \in [1 .. Len(s) -> 1 .. n]
                                /\ \A i \in 1 .. Len(s) : s[i] = path[at[i]].text
                                /\ \A i, j \in 1 .. Len(s) : i < j => at[i] < at[j]
                                /\ {at[i] : i \in 1 .. Len(s)} = Standing(n)
<1>1. N \in Nat
  OBVIOUS
<1>2. PICK out \in [0 .. N -> Seq(Segments)] :
           /\ out[0] = <<>> /\ normalizePath(path) = out[N]
           /\ \A n \in 1 .. N : out[n] = Kept(out[n - 1], path[n])
  BY PathRuns
<1> DEFINE Claim == {n \in 0 .. N : \E at : Follows(out[n], at, n)}
<1>3. 0 \in Claim
  <2>1. out[0] = <<>> /\ Len(<<>>) = 0
    BY <1>2
  <2> DEFINE at == [i \in 1 .. 0 |-> 0]
  <2>2. Follows(out[0], at, 0)
    BY <2>1
  <2> HIDE DEF at, Follows
  <2> QED BY <1>1, <2>2
<1>4. ASSUME NEW n \in 1 .. N, n - 1 \in Claim
      PROVE  n \in Claim
  <2> DEFINE s == out[n - 1]
             t == out[n]
             m == Len(s)
  <2>1. n \in 0 .. N /\ n - 1 \in 0 .. N /\ s \in Seq(Segments) /\ m \in Nat
        /\ t = Kept(s, path[n]) /\ path[n] \in Segment
    BY <1>1, <1>2
  <2>2. PICK at : Follows(s, at, n - 1)
    <3> HIDE DEF Follows
    <3> QED BY <1>4
  <2>3. CASE path[n].kind = "end"
    <3>1. t = s
      BY <2>1, <2>3 DEF Kept
    <3>2. Standing(n) = Standing(n - 1)
      BY <2>1, <2>3
    <3>3. at \in [1 .. m -> 1 .. n]
      BY <2>1, <2>2
    <3> HIDE DEF s, t, m, Standing
    <3>4. Follows(s, at, n)
      BY <2>2, <3>2, <3>3 DEF m
    <3> HIDE DEF Follows
    <3>5. \E a : Follows(t, a, n)
      BY <3>1, <3>4
    <3> QED BY <2>1, <3>5 DEF t
  <2>4. CASE path[n].kind # "end"
    <3> DEFINE a == [i \in 1 .. m + 1 |-> IF i = m + 1 THEN n ELSE at[i]]
    <3>1. t = Append(s, path[n].text) /\ path[n].text \in Segments
      BY <2>1, <2>4 DEF Kept, Segment
    <3>2. Len(t) = m + 1 /\ t[m + 1] = path[n].text /\ \A i \in 1 .. m : t[i] = s[i]
      BY <2>1, <3>1
    <3>3. /\ at \in [1 .. m -> 1 .. n - 1]
          /\ \A i \in 1 .. m : s[i] = path[at[i]].text
          /\ \A i, j \in 1 .. m : i < j => at[i] < at[j]
          /\ {at[i] : i \in 1 .. m} = Standing(n - 1)
      BY <2>2
    <3>4. Standing(n) = Standing(n - 1) \cup {n}
      BY <2>1, <2>4
    <3> HIDE DEF s, t, m, Standing
    <3>5. a \in [1 .. m + 1 -> 1 .. n]
      BY <2>1, <3>3
    <3>6. \A i \in 1 .. m + 1 : t[i] = path[a[i]].text
      BY <2>1, <3>2, <3>3
    <3>7. \A i, j \in 1 .. m + 1 : i < j => a[i] < a[j]
      BY <2>1, <3>3
    <3>8. {a[i] : i \in 1 .. m + 1} = Standing(n)
      <4>1. \A i \in 1 .. m : a[i] = at[i]
        BY <2>1
      <4>2. a[m + 1] = n
        BY <2>1
      <4>3. \A i \in 1 .. m + 1 : i = m + 1 \/ i \in 1 .. m
        BY <2>1
      <4>4. m + 1 \in 1 .. m + 1 /\ 1 .. m \subseteq 1 .. m + 1
        BY <2>1
      <4> HIDE DEF a
      <4>5. ASSUME NEW i \in 1 .. m + 1 PROVE a[i] \in Standing(n)
        <5>1. i \in 1 .. m => at[i] \in Standing(n - 1)
          BY <3>3
        <5> QED BY <3>4, <4>1, <4>2, <4>3, <5>1
      <4>6. ASSUME NEW k \in Standing(n) PROVE \E i \in 1 .. m + 1 : a[i] = k
        <5>1. k \in Standing(n - 1) => \E i \in 1 .. m : at[i] = k
          BY <3>3
        <5> QED BY <3>4, <4>1, <4>2, <4>4, <5>1
      <4> QED BY <4>5, <4>6
    <3> HIDE DEF a
    <3>9. Follows(t, a, n)
      BY <3>2, <3>5, <3>6, <3>7, <3>8
    <3> HIDE DEF Follows
    <3>10. \E b : Follows(t, b, n)
      BY <3>9
    <3> QED BY <2>1, <3>10 DEF t
  <2> QED BY <2>3, <2>4
<1>5. N \in Claim
  <2> HIDE DEF Claim, N
  <2>1. \A n \in 0 .. N : n \in Claim
    BY <1>1, <1>3, <1>4, CountingUp, Zenon
  <2> QED BY <1>1, <2>1
<1> DEFINE parts == normalizePath(path)
<1>6. PICK at : Follows(parts, at, N)
  <2> HIDE DEF Follows
  <2> QED BY <1>2, <1>5
<1>7. parts \in Seq(Segments)
  BY <1>1, <1>2
<1>8. DOMAIN parts = 1 .. Len(parts) /\ DOMAIN path = 1 .. N
  BY <1>7
<1> HIDE DEF parts, N
<1>9. /\ at \in [DOMAIN parts -> DOMAIN path]
      /\ \A i \in DOMAIN parts : parts[i] = path[at[i]].text
      /\ \A i, j \in DOMAIN parts : i < j => at[i] < at[j]
      /\ {at[i] : i \in DOMAIN parts} = {i \in DOMAIN path : path[i].kind # "end"}
  BY <1>6, <1>8
<1>10. Contract!IsPathOf(parts, path)
  BY <1>9 DEF Contract!IsPathOf
<1> QED BY <1>7, <1>10 DEF parts

\* The operation in work.
LEMMA OperationType ==
  ASSUME Place, next <= Len(operations)
  PROVE  op \in OperationInfo
<1>1. operations \in Seq(OperationInfo) /\ next \in 1 .. Len(operations) + 1
  BY OpenAPIAssumption DEF Place
<1>2. next \in 1 .. Len(operations)
  BY <1>1
<1> QED BY <1>1, <1>2 DEF op

PathsTyped == DOMAIN items \subseteq Seq(Segments) \X Methods

\* A path and a verb are what an operation adds.
LEMMA NextPathsTyped ==
  ASSUME WInv, PathsTyped, [Next]_vars
  PROVE  PathsTyped'
<1>1. CASE assign
  <2>1. op \in OperationInfo
    <3>1. Working
      <4>1. Len(<<>>) = 0
        OBVIOUS
      <4> QED BY <1>1, <4>1 DEF assign, Working
    <3> QED BY <3>1, OperationType DEF WInv, Place
  <2>2. op.path \in Seq(Segment) /\ op.method \in Methods
    BY <2>1 DEF OperationInfo
  <2>3. normalizePath(op.path) \in Seq(Segments)
    BY <2>2, PathIsNormal
  <2>4. DOMAIN items' = DOMAIN items \cup {<<normalizePath(op.path), op.method>>}
    BY <1>1 DEF assign, Put
  <2> QED BY <2>2, <2>3, <2>4 DEF PathsTyped
<1>2. CASE UNCHANGED items
  BY <1>2 DEF PathsTyped
<1>3. assign \/ UNCHANGED items
  <2>1. ASSUME NEW t \in Types, Describe(t) \/ Wrap(t) \/ Nest(t) \/ Known(t) \/ Enter(t)
        PROVE  UNCHANGED items
    BY <2>1 DEF Describe, Wrap, Nest, Known, Enter, Calling, walk
  <2>2. CASE Root \/ Finish \/ Skip \/ Flatten \/ Descend \/ Complete \/ Inlined \/ Flattened
             \/ ToRoot \/ ToWrapper \/ ToField
    BY <2>2 DEF Root, Finish, Skip, Flatten, Descend, Complete, Inlined, Flattened,
                ToRoot, ToWrapper, ToField, Looping, walk
  <2> QED BY <2>1, <2>2 DEF Next, vars
<1> QED BY <1>1, <1>2, <1>3

\* What Generate works on has its type, and so have the paths and verbs of the
\* document: no operation adds a path that is not made of segments, whatever
\* its pattern.
THEOREM OpenAPITypeCorrect == Spec => []TypeOK
<1>1. Init => PathsTyped
  BY DEF Init, PathsTyped, EmptyMap
<1>2. WInv /\ PathsTyped => TypeOK
  BY WalkTypes DEF TypeOK, PathsTyped
<1>3. WInv /\ PathsTyped /\ [Next]_vars => PathsTyped'
  BY NextPathsTyped
<1> QED BY <1>1, <1>2, <1>3, InitWInv, NextWInv, PTL DEF Spec

-----------------------------------------------------------------------------
(* The types                                                               *)

LevelsOfTypes == Cardinality(Types)

\* A growing sequence of subsets of a finite set, long enough, gets stuck.
LEMMA Growth ==
  ASSUME NEW T, IsFiniteSet(T), NEW N \in Nat, Cardinality(T) <= N,
         NEW A \in [0 .. N -> SUBSET T], \A n \in 1 .. N : A[n - 1] \subseteq A[n],
         NEW Q, \A n \in 1 .. N : (n - 1 \in Q => n \in Q) /\ (n - 1 \notin Q => A[n] # A[n - 1])
  PROVE  N \in Q \/ A[N] = T
<1> DEFINE P == {n \in 0 .. N : n \in Q \/ Cardinality(A[n]) >= n}
<1>1. \A n \in 0 .. N : IsFiniteSet(A[n]) /\ Cardinality(A[n]) \in Nat
  <2> TAKE n \in 0 .. N
  <2>1. A[n] \in SUBSET T
    OBVIOUS
  <2> QED BY <2>1, FS_Subset, FS_CardinalityType
<1>2. 0 \in P
  BY <1>1
<1>3. ASSUME NEW n \in 1 .. N, n - 1 \in P
      PROVE  n \in P
  <2>1. n - 1 \in 0 .. N /\ n \in 0 .. N
    OBVIOUS
  <2>2. CASE n - 1 \in Q
    BY <2>1, <2>2
  <2>3. CASE n - 1 \notin Q
    <3>1. A[n - 1] \subseteq A[n] /\ A[n] # A[n - 1] /\ IsFiniteSet(A[n])
      BY <1>1, <2>1, <2>3
    <3>2. Cardinality(A[n - 1]) <= Cardinality(A[n]) /\ Cardinality(A[n - 1]) # Cardinality(A[n])
      BY <3>1, FS_Subset
    <3>3. Cardinality(A[n - 1]) \in Nat /\ Cardinality(A[n]) \in Nat /\ Cardinality(A[n - 1]) >= n - 1
      BY <1>1, <1>3, <2>1, <2>3
    <3> QED BY <2>1, <3>2, <3>3
  <2> QED BY <2>2, <2>3
<1>4. N \in P
  <2> HIDE DEF P
  <2>1. \A n \in 0 .. N : n \in P
    BY <1>2, <1>3, CountingUp, Zenon
  <2> QED BY <2>1
<1>5. ASSUME Cardinality(A[N]) >= N PROVE A[N] = T
  <2>1. A[N] \in SUBSET T /\ Cardinality(A[N]) \in Nat /\ Cardinality(T) \in Nat
    BY <1>1, FS_CardinalityType
  <2>2. Cardinality(A[N]) <= Cardinality(T) /\ (Cardinality(A[N]) = Cardinality(T) => A[N] = T)
    BY <2>1, FS_Subset
  <2> QED BY <1>5, <2>1, <2>2
<1> QED BY <1>4, <1>5

\* Orderly types have a rank: what follows one without a placeholder is lower.
IsRank(rank, T) ==
  /\ rank \in [T -> 0 .. LevelsOfTypes - 1]
  /\ \A t, u \in T : u \in Unguarded(t) => rank[u] < rank[t]

\* There is a number of levels.
LEMMA Levels == LevelsOfTypes \in Nat
BY SchemasAssumption, FS_CardinalityType DEF LevelsOfTypes

\* Where nothing leads back to itself without a placeholder there is a rank.
LEMMA Ranked ==
  ASSUME NEW T \in SUBSET Types, Orderly(T)
  PROVE  \E rank : IsRank(rank, T)
<1> DEFINE C == LevelsOfTypes
           S == SUBSET T
           After(s) == {t \in T : Unguarded(t) \cap T \subseteq s}
           G == [n \in 1 .. C |-> [s \in S |-> After(s)]]
<1>1. C \in Nat /\ IsFiniteSet(T) /\ Cardinality(T) <= C
  BY Levels, SchemasAssumption, FS_Subset DEF LevelsOfTypes
<1> HIDE DEF C
<1>2. G \in [1 .. C -> [S -> S]] /\ {} \in S
  OBVIOUS
<1>3. PICK L : Iterates(L, C, S, {}, G)
  <2> HIDE DEF G, S
  <2> QED BY <1>1, <1>2, Recursion
<1>4. L \in [0 .. C -> S] /\ L[0] = {} /\ \A n \in 1 .. C : L[n] = After(L[n - 1])
  <2>1. L \in [0 .. C -> S] /\ L[0] = {} /\ \A n \in 1 .. C : L[n] = G[n][L[n - 1]]
    BY <1>3 DEF Iterates
  <2>2. ASSUME NEW n \in 1 .. C PROVE L[n] = After(L[n - 1])
    <3>1. n - 1 \in 0 .. C
      BY <1>1
    <3>2. L[n - 1] \in S
      BY <2>1, <3>1
    <3>3. L[n] = G[n][L[n - 1]]
      BY <2>1
    <3> HIDE DEF S, After
    <3> QED BY <3>2, <3>3
  <2> QED BY <2>1, <2>2
<1> HIDE DEF G
<1>5. \A n \in 1 .. C : L[n - 1] \subseteq L[n]
  <2> DEFINE P == {n \in 0 .. C : n = 0 \/ L[n - 1] \subseteq L[n]}
  <2>1. 0 \in P
    BY <1>1
  <2>2. ASSUME NEW n \in 1 .. C, n - 1 \in P PROVE n \in P
    <3>1. CASE n = 1
      BY <1>1, <1>4, <3>1
    <3>2. CASE n # 1
      <4>1. n - 1 \in 1 .. C /\ L[(n - 1) - 1] \subseteq L[n - 1]
        BY <1>1, <2>2, <3>2
      <4>2. L[n] = After(L[n - 1]) /\ L[n - 1] = After(L[(n - 1) - 1])
        BY <1>4, <4>1
      <4>3. L[n - 1] \subseteq L[n]
        BY <4>1, <4>2
      <4> QED BY <1>1, <4>3
    <3> QED BY <3>1, <3>2
  <2> HIDE DEF P
  <2>3. \A n \in 0 .. C : n \in P
    BY <1>1, <2>1, <2>2, CountingUp, Zenon
  <2> QED BY <1>1, <2>3 DEF P
<1>6. L[C] = T
  <2> DEFINE Q == {n \in 0 .. C : L[n] = T}
  <2>1. ASSUME NEW n \in 1 .. C, n - 1 \in Q PROVE n \in Q
    <3>1. n \in 0 .. C /\ L[n] \in S /\ L[n - 1] = T /\ L[n - 1] \subseteq L[n]
      BY <1>1, <1>4, <1>5, <2>1
    <3> QED BY <3>1
  <2>2. ASSUME NEW n \in 1 .. C, n - 1 \notin Q PROVE L[n] # L[n - 1]
    <3>1. n - 1 \in 0 .. C /\ L[n - 1] \in S /\ L[n - 1] # T
      BY <1>1, <1>4, <2>2
    <3> DEFINE R == T \ L[n - 1]
    <3>2. R \in SUBSET T /\ R # {}
      BY <3>1
    <3>3. PICK t \in R : Unguarded(t) \cap R = {}
      BY <3>2 DEF Orderly
    <3>4. t \in After(L[n - 1])
      BY <3>3
    <3> QED BY <1>4, <3>3, <3>4
  <2> HIDE DEF Q
  <2>3. \A n \in 1 .. C : (n - 1 \in Q => n \in Q) /\ (n - 1 \notin Q => L[n] # L[n - 1])
    BY <2>1, <2>2
  <2>4. C \in Q \/ L[C] = T
    BY <1>1, <1>4, <1>5, <2>3, Growth
  <2> QED BY <2>4 DEF Q
<1> DEFINE In(t) == {n \in 0 .. C : t \in L[n]}
           rank == [t \in T |-> Min(In(t)) - 1]
<1>7. ASSUME NEW t \in T
      PROVE  Min(In(t)) \in 1 .. C /\ t \in L[Min(In(t))] /\ \A n \in 0 .. C : t \in L[n] => Min(In(t)) <= n
  <2>1. In(t) \in SUBSET Nat /\ In(t) # {}
    <3>1. C \in In(t)
      BY <1>1, <1>6
    <3> QED BY <1>1, <3>1
  <2> DEFINE m == Min(In(t))
  <2>2. m \in In(t) /\ \A n \in In(t) : m <= n
    BY <2>1, MinType
  <2> HIDE DEF m
  <2>3. m \in 1 .. C
    BY <1>1, <1>4, <2>2
  <2> QED BY <2>2, <2>3 DEF m
<1> HIDE DEF In
<1>8. rank \in [T -> 0 .. C - 1]
  <2> SUFFICES ASSUME NEW t \in T PROVE Min(In(t)) - 1 \in 0 .. C - 1
    OBVIOUS
  <2>1. Min(In(t)) \in 1 .. C
    BY <1>7
  <2> QED BY <1>1, <2>1
<1>9. ASSUME NEW t \in T, NEW u \in T, u \in Unguarded(t)
      PROVE  rank[u] < rank[t]
  <2> DEFINE m == Min(In(t))
             k == Min(In(u))
  <2>1. m \in 1 .. C /\ t \in L[m] /\ k \in 1 .. C /\ \A n \in 0 .. C : u \in L[n] => k <= n
    BY <1>7
  <2>2. rank[t] = m - 1 /\ rank[u] = k - 1
    OBVIOUS
  <2> HIDE DEF m, k, rank
  <2>3. m - 1 \in 0 .. C /\ t \in After(L[m - 1])
    BY <1>1, <1>4, <2>1
  <2>4. u \in L[m - 1]
    BY <1>9, <2>3
  <2>5. k <= m - 1
    BY <2>1, <2>3, <2>4
  <2> QED BY <1>1, <2>1, <2>2, <2>5
<1> HIDE DEF rank
<1>10. IsRank(rank, T)
  BY <1>8, <1>9 DEF IsRank, C
<1> QED BY <1>10

-----------------------------------------------------------------------------
(* What the types show                                                     *)

\* What is found of a type: fields, and how deep they are.
Found == SUBSET [field : Field, depth : Nat]

\* An object, given what the structs that it embeds show.
FromFields(t, found) ==
  IF ~IsObject(t) THEN {}
  ELSE UNION {Shown(f, found) : f \in {g \in Range(Shape[t].fields) : IsVisible(g)}}

\* A type and what it leads to.
LEMMA ShapeOf ==
  ASSUME NEW t \in Types
  PROVE  /\ IsWrapper(t) => Shape[t].elem \in Types /\ ~IsObject(t) /\ ~IsLeaf(t) /\ ~IsNamed(t)
         /\ IsLeaf(t) => ~IsObject(t) /\ ~IsWrapper(t) /\ ~IsNamed(t)
         /\ IsObject(t) \/ IsWrapper(t) \/ IsLeaf(t)
         /\ Deref(t) \in Types
<1>1. Shape[t] \in Object \cup Wrapper \cup Leaf
  BY SchemasAssumption
<1>2. IsWrapper(t) => Shape[t] \in Wrapper
  BY <1>1 DEF IsWrapper, Object, Leaf
<1>3. IsWrapper(t) => Shape[t].elem \in Types
  BY <1>2 DEF Wrapper
<1>4. Shape[t].kind \in {"message", "struct", "pointer", "array", "map", "scalar", "enum"}
  BY <1>1 DEF Object, Wrapper, Leaf
<1>5. Deref(t) \in Types
  BY <1>3 DEF Deref, IsWrapper
<1> QED BY <1>3, <1>4, <1>5 DEF IsWrapper, IsObject, IsLeaf, IsNamed

\* The fields of an object, one by one.
LEMMA RangeOfFields ==
  ASSUME NEW t \in Types, IsObject(t)
  PROVE  /\ Range(Shape[t].fields) = {Shape[t].fields[i] : i \in 1 .. Len(Shape[t].fields)}
         /\ \A i \in 1 .. Len(Shape[t].fields) : Shape[t].fields[i] \in Field
         /\ DOMAIN Shape[t].fields = 1 .. Len(Shape[t].fields) /\ Len(Shape[t].fields) \in Nat
         /\ \A f \in Range(Shape[t].fields) : f \in Field
<1>1. FieldsOf(t) \in Seq(Field)
  BY FieldsType
<1>2. DOMAIN FieldsOf(t) = 1 .. Len(FieldsOf(t)) /\ Len(FieldsOf(t)) \in Nat
      /\ \A i \in 1 .. Len(FieldsOf(t)) : FieldsOf(t)[i] \in Field
  BY <1>1
<1>3. Range(FieldsOf(t)) = {FieldsOf(t)[i] : i \in 1 .. Len(FieldsOf(t))}
  BY <1>2 DEF Range
<1>4. \A f \in Range(FieldsOf(t)) : f \in Field
  BY <1>2, <1>3
<1> QED BY <1>2, <1>3, <1>4 DEF FieldsOf

\* What a field shows are fields.
LEMMA ShownType ==
  ASSUME NEW f \in Field, NEW found \in [Types -> Found]
  PROVE  Shown(f, found) \in Found
<1>1. f.type \in Types
  BY DEF Field
<1>2. Deref(f.type) \in Types
  BY <1>1, ShapeOf
<1>3. found[Deref(f.type)] \in Found
  BY <1>2
<1>4. \A p \in found[Deref(f.type)] : p.field \in Field /\ p.depth + 1 \in Nat
  BY <1>3 DEF Found
<1>5. Deeper(found[Deref(f.type)]) \in Found
  BY <1>4 DEF Deeper, Found
<1>6. {[field |-> f, depth |-> 0]} \in Found
  BY DEF Found
<1> QED BY <1>5, <1>6 DEF Shown

\* What the fields of a type show are fields, with depths.
LEMMA FromFieldsType ==
  ASSUME NEW t \in Types, NEW found \in [Types -> Found]
  PROVE  FromFields(t, found) \in Found
<1>1. CASE IsObject(t)
  <2>1. \A f \in Range(Shape[t].fields) : f \in Field
    BY <1>1, RangeOfFields
  <2>2. \A f \in Range(Shape[t].fields) : Shown(f, found) \in Found
    BY <2>1, ShownType
  <2> QED BY <1>1, <2>2 DEF FromFields, Found
<1>2. CASE ~IsObject(t)
  BY <1>2 DEF FromFields, Found
<1> QED BY <1>1, <1>2

\* Promoted, level by level.
LEMMA PromotedRuns ==
  /\ Promoted \in [0 .. LevelsOfTypes -> [Types -> Found]]
  /\ \A n \in 1 .. LevelsOfTypes, t \in Types : Promoted[n][t] = FromFields(t, Promoted[n - 1])
<1> DEFINE C == LevelsOfTypes
           S == [Types -> Found]
           b == [t \in Types |-> {}]
           G == [n \in 1 .. C |-> [found \in S |-> [t \in Types |-> FromFields(t, found)]]]
           Whole(t, found) == UNION {Shown(g, found) : g \in {h \in Range(Shape[t].fields) : IsVisible(h)}}
           Body(f, n) == [t \in Types |-> IF n = 0 \/ ~IsObject(t) THEN {} ELSE Whole(t, f[n - 1])]
           pro == CHOOSE f : f = [n \in 0 .. C |-> Body(f, n)]
<1>1. C \in Nat
  BY Levels
<1>2. Promoted = pro
  BY DEF Promoted, LevelsOfTypes
<1>0. \A t, found : IsObject(t) => Whole(t, found) = FromFields(t, found)
  BY DEF FromFields
<1> HIDE DEF C, Whole
<1>3. b \in S
  BY DEF Found
<1>4. G \in [1 .. C -> [S -> S]]
  BY FromFieldsType
<1>5. PICK f : Iterates(f, C, S, b, G)
  <2> HIDE DEF G, b, S
  <2> QED BY <1>1, <1>3, <1>4, Recursion
<1>6. f = [n \in 0 .. C |-> Body(f, n)]
  <2>1. f \in [0 .. C -> S] /\ f[0] = b /\ \A n \in 1 .. C : f[n] = G[n][f[n - 1]]
    BY <1>5 DEF Iterates
  <2>2. \A n \in 0 .. C : f[n] = Body(f, n)
    <3> TAKE n \in 0 .. C
    <3>1. CASE n = 0
      <4>1. f[n] = b
        BY <2>1, <3>1
      <4>2. Body(f, n) = b
        BY <3>1
      <4> QED BY <4>1, <4>2
    <3>2. CASE n # 0
      <4>1. n \in 1 .. C /\ n - 1 \in 0 .. C
        BY <1>1, <3>2
      <4>2. f[n - 1] \in S
        BY <2>1, <4>1
      <4>3. f[n] = [t \in Types |-> FromFields(t, f[n - 1])]
        BY <2>1, <4>1, <4>2
      <4>4. \A t \in Types : (IF n = 0 \/ ~IsObject(t) THEN {} ELSE Whole(t, f[n - 1])) = FromFields(t, f[n - 1])
        BY <1>0, <3>2 DEF FromFields
      <4> QED BY <4>3, <4>4
    <3> QED BY <3>1, <3>2
  <2>3. f = [n \in 0 .. C |-> f[n]]
    BY <2>1
  <2> HIDE DEF Body
  <2> QED BY <2>2, <2>3
<1>7. pro = [n \in 0 .. C |-> Body(pro, n)]
  <2>1. \E g : g = [n \in 0 .. C |-> Body(g, n)]
    BY <1>6
  <2> HIDE DEF Body
  <2> QED BY <2>1
<1> HIDE DEF pro
<1>8. \A n \in 1 .. C, t \in Types : pro[n][t] = FromFields(t, pro[n - 1])
  <2> TAKE n \in 1 .. C, t \in Types
  <2>1. n \in 0 .. C /\ n # 0
    BY <1>1
  <2>2. pro[n] = Body(pro, n)
    BY <1>7, <2>1
  <2>3. pro[n][t] = IF n = 0 \/ ~IsObject(t) THEN {} ELSE Whole(t, pro[n - 1])
    BY <2>2
  <2> QED BY <1>0, <2>1, <2>3 DEF FromFields
<1> DEFINE P == {n \in 0 .. C : pro[n] \in S}
<1>9. 0 \in P
  <2>1. 0 \in 0 .. C
    BY <1>1
  <2>2. pro[0] = Body(pro, 0)
    BY <1>7, <2>1
  <2>3. Body(pro, 0) = b
    OBVIOUS
  <2> HIDE DEF b, S, Body
  <2> QED BY <1>3, <2>1, <2>2, <2>3
<1>10. ASSUME NEW n \in 1 .. C, n - 1 \in P PROVE n \in P
  <2>1. n \in 0 .. C
    BY <1>1
  <2>2. pro[n] = Body(pro, n) /\ pro[n - 1] \in S
    BY <1>7, <1>10, <2>1
  <2>3. \A t \in Types : pro[n][t] \in Found
    BY <1>8, <2>2, FromFieldsType
  <2>4. pro[n] = [t \in Types |-> pro[n][t]]
    BY <2>2
  <2>5. pro[n] \in S
    BY <2>3, <2>4
  <2> QED BY <2>1, <2>5
<1>11. \A n \in 0 .. C : n \in P
  <2> HIDE DEF P
  <2> QED BY <1>1, <1>9, <1>10, CountingUp, Zenon
<1>12. pro \in [0 .. C -> S]
  <2>1. pro = [n \in 0 .. C |-> pro[n]]
    <3> HIDE DEF Body
    <3> QED BY <1>7
  <2> HIDE DEF S
  <2>2. \A n \in 0 .. C : pro[n] \in S
    BY <1>11
  <2> QED BY <2>1, <2>2
<1> QED BY <1>2, <1>8, <1>12 DEF C

\* The fields of an orderly object lead to types that are orderly, too.
LEMMA OrderlyFields ==
  ASSUME NEW T \in SUBSET Types, Orderly(T), NEW t \in T, IsObject(t), NEW f \in Range(Shape[t].fields)
  PROVE  /\ f \in Field /\ f.type \in T /\ Deref(f.type) \in T /\ (IsVisible(f) <=> ~Hidden(f))
         /\ ~Hidden(f) /\ Flattens(f) => Deref(f.type) \in Unguarded(t)
         /\ ~Hidden(f) /\ ~Flattens(f) /\ ~IsNamed(f.type) => f.type \in Unguarded(t)
         /\ Flattens(f) => IsObject(Deref(f.type)) /\ Shape[Deref(f.type)].kind = "struct"
                           /\ Shape[t].kind = "struct"
<1>1. f \in Field /\ t \in Types /\ ~IsWrapper(t) /\ ~IsLeaf(t)
  BY RangeOfFields, FieldsType
<1>2. f.type \in T /\ (IsVisible(f) <=> ~Hidden(f))
  <2>1. f.type \in References(t)
    BY <1>1 DEF References
  <2> QED BY <2>1 DEF Orderly
<1>3. Deref(f.type) \in T
  <2>1. CASE Shape[f.type].kind = "pointer"
    <3>1. IsWrapper(f.type)
      BY <2>1 DEF IsWrapper
    <3>2. Shape[f.type].elem \in References(f.type)
      BY <3>1 DEF References
    <3> QED BY <1>2, <2>1, <3>2 DEF Orderly, Deref
  <2>2. CASE Shape[f.type].kind # "pointer"
    BY <1>2, <2>2 DEF Deref
  <2> QED BY <2>1, <2>2
<1>4. PICK i \in 1 .. Len(Shape[t].fields) : f = Shape[t].fields[i]
  BY <1>1, RangeOfFields
<1>5. i \in DOMAIN Shape[t].fields
  BY <1>1, RangeOfFields
<1> DEFINE visible == {Shape[t].fields[j] : j \in {k \in DOMAIN Shape[t].fields : ~Hidden(Shape[t].fields[k])}}
<1>6. ~Hidden(f) => f \in visible
  BY <1>4, <1>5
<1>7. Unguarded(t) = {Deref(h.type) : h \in {h \in visible : Flattens(h)}}
                     \cup {h.type : h \in {h \in visible : ~Flattens(h) /\ ~IsNamed(h.type)}}
  BY DEF Unguarded
<1> HIDE DEF visible
<1>8. /\ ~Hidden(f) /\ Flattens(f) => Deref(f.type) \in Unguarded(t)
      /\ ~Hidden(f) /\ ~Flattens(f) /\ ~IsNamed(f.type) => f.type \in Unguarded(t)
  BY <1>6, <1>7
<1>9. Flattens(f) => Shape[t].kind = "struct"
  BY <1>1, <1>4, <1>5, SchemasAssumption DEF Flattens, IsObject
<1> QED BY <1>1, <1>2, <1>3, <1>8, <1>9 DEF Flattens, IsObject

\* What an object shows follows from what the types that follow it show.
LEMMA SameFound ==
  ASSUME NEW T \in SUBSET Types, Orderly(T), NEW t \in T, NEW a, NEW b,
         \A u \in T : u \in Unguarded(t) => a[u] = b[u]
  PROVE  FromFields(t, a) = FromFields(t, b)
<1>1. CASE ~IsObject(t)
  BY <1>1 DEF FromFields
<1>2. CASE IsObject(t)
  <2> DEFINE fs == {g \in Range(Shape[t].fields) : IsVisible(g)}
  <2>1. \A f \in fs : Shown(f, a) = Shown(f, b)
    <3> TAKE f \in fs
    <3>1. Flattens(f) => Deref(f.type) \in T /\ Deref(f.type) \in Unguarded(t)
      BY <1>2, OrderlyFields
    <3>2. Flattens(f) => a[Deref(f.type)] = b[Deref(f.type)]
      BY <3>1
    <3> QED BY <3>2 DEF Shown
  <2>2. FromFields(t, a) = UNION {Shown(f, a) : f \in fs} /\ FromFields(t, b) = UNION {Shown(f, b) : f \in fs}
    BY <1>2 DEF FromFields
  <2> HIDE DEF fs
  <2>3. {Shown(f, a) : f \in fs} = {Shown(f, b) : f \in fs}
    BY <2>1
  <2> QED BY <2>2, <2>3
<1> QED BY <1>1, <1>2

\* So are the members.
LEMMA MembersType ==
  Members \in [Types -> Found] /\ \A t \in Types : Members[t] \in Found
<1>1. LevelsOfTypes \in 0 .. LevelsOfTypes
  BY Levels
<1> QED BY <1>1, PromotedRuns DEF Members, LevelsOfTypes

\* Deep enough, they show what follows from what they show.
LEMMA MembersOf ==
  ASSUME NEW T \in SUBSET Types, Orderly(T)
  PROVE  \A t \in T : Members[t] = FromFields(t, Members)
<1> DEFINE C == LevelsOfTypes
           Stable(t, n) == /\ \A m \in n .. C : Promoted[m][t] = Promoted[C][t]
                           /\ Promoted[C][t] = FromFields(t, Promoted[C])
<1>1. PICK rank : IsRank(rank, T)
  BY Ranked
<1> DEFINE R == {n \in 0 .. C : \A t \in T : rank[t] < n => Stable(t, n)}
<1>2. C \in Nat /\ rank \in [T -> 0 .. C - 1]
  BY <1>1, Levels DEF IsRank
<1>3. \A n \in 1 .. C, t \in T : Promoted[n][t] = FromFields(t, Promoted[n - 1])
  BY PromotedRuns
<1> HIDE DEF C
<1>4. 0 \in R
  <2>1. \A t \in T : ~(rank[t] < 0)
    BY <1>2
  <2> QED BY <1>2, <2>1
<1>5. ASSUME NEW n \in 1 .. C, n - 1 \in R PROVE n \in R
  <2> SUFFICES ASSUME NEW t \in T, rank[t] < n PROVE Stable(t, n)
    BY <1>2
  <2>1. ASSUME NEW m \in n .. C
        PROVE  Promoted[m][t] = FromFields(t, Promoted[C])
    <3>1. m \in 1 .. C /\ m - 1 \in (n - 1) .. C
      BY <1>2
    <3>2. ASSUME NEW u \in T, u \in Unguarded(t)
          PROVE  Promoted[m - 1][u] = Promoted[C][u]
      <4>1. rank[u] < rank[t] /\ rank[u] \in 0 .. C - 1 /\ rank[t] \in 0 .. C - 1
        BY <1>1, <1>2, <3>2 DEF IsRank
      <4>2. rank[u] < n - 1
        BY <1>2, <4>1
      <4>3. Stable(u, n - 1)
        BY <1>5, <4>2
      <4> QED BY <3>1, <4>3
    <3>3. FromFields(t, Promoted[m - 1]) = FromFields(t, Promoted[C])
      BY <3>2, SameFound
    <3> QED BY <1>3, <3>1, <3>3
  <2>2. C \in n .. C
    BY <1>2
  <2> QED BY <2>1, <2>2
<1>6. C \in R
  <2> HIDE DEF R
  <2>1. \A n \in 0 .. C : n \in R
    BY <1>2, <1>4, <1>5, CountingUp, Zenon
  <2> QED BY <1>2, <2>1
<1>7. \A t \in T : rank[t] < C
  BY <1>2
<1>8. \A t \in T : Promoted[C][t] = FromFields(t, Promoted[C])
  BY <1>6, <1>7
<1> QED BY <1>8 DEF C, LevelsOfTypes, Members

\* The members of an orderly object are of orderly types, and of lower ones
\* unless they have a component of their own.
LEMMA MembersIn ==
  ASSUME NEW T \in SUBSET Types, Orderly(T), NEW rank, IsRank(rank, T), NEW t \in T, NEW p \in Members[t]
  PROVE  /\ p.field \in Field /\ p.depth \in Nat /\ p.field.type \in T /\ IsObject(t)
         /\ ~IsNamed(p.field.type) => rank[p.field.type] < rank[t]
<1> DEFINE C == LevelsOfTypes
           Good(u) == \A q \in Members[u] :
                        /\ q.field.type \in T
                        /\ ~IsNamed(q.field.type) => rank[q.field.type] < rank[u]
           P == {n \in 0 .. C : \A u \in T : rank[u] < n => Good(u)}
<1>1. C \in Nat /\ rank \in [T -> 0 .. C - 1]
  BY Levels DEF IsRank
<1> HIDE DEF C
<1>2. 0 \in P
  <2>1. \A u \in T : ~(rank[u] < 0)
    BY <1>1
  <2> QED BY <1>1, <2>1
<1>3. ASSUME NEW n \in 1 .. C, n - 1 \in P PROVE n \in P
  <2> SUFFICES ASSUME NEW u \in T, rank[u] < n PROVE Good(u)
    BY <1>1
  <2> SUFFICES ASSUME NEW q \in Members[u]
               PROVE  q.field.type \in T /\ (~IsNamed(q.field.type) => rank[q.field.type] < rank[u])
    OBVIOUS
  <2>1. q \in FromFields(u, Members)
    BY MembersOf
  <2>2. IsObject(u) /\ q \in UNION {Shown(g, Members) : g \in {h \in Range(Shape[u].fields) : IsVisible(h)}}
    BY <2>1 DEF FromFields
  <2>3. PICK f \in Range(Shape[u].fields) : IsVisible(f) /\ q \in Shown(f, Members)
    BY <2>2
  <2>4. /\ f.type \in T /\ Deref(f.type) \in T
        /\ Flattens(f) => Deref(f.type) \in Unguarded(u)
        /\ ~Flattens(f) /\ ~IsNamed(f.type) => f.type \in Unguarded(u)
    BY <2>2, <2>3, OrderlyFields
  <2>5. CASE Flattens(f)
    <3> DEFINE v == Deref(f.type)
    <3>1. PICK r \in Members[v] : q = [field |-> r.field, depth |-> r.depth + 1]
      BY <2>3, <2>5 DEF Shown, Deeper
    <3>2. v \in T /\ rank[v] < rank[u]
      BY <2>4, <2>5 DEF IsRank
    <3> HIDE DEF v
    <3>3. rank[v] < n - 1 /\ rank[v] \in Int /\ rank[u] \in Int
      BY <1>1, <3>2
    <3>4. Good(v)
      BY <1>3, <3>2, <3>3
    <3>5. q.field = r.field /\ r.field.type \in T /\ (~IsNamed(r.field.type) => rank[r.field.type] < rank[v])
      BY <3>1, <3>4
    <3>6. rank[r.field.type] \in Int
      BY <1>1, <3>5
    <3> QED BY <3>2, <3>3, <3>5, <3>6
  <2>6. CASE ~Flattens(f)
    <3>1. q.field = f
      BY <2>3, <2>6 DEF Shown
    <3> QED BY <2>4, <2>6, <3>1 DEF IsRank
  <2> QED BY <2>5, <2>6
<1>4. C \in P
  <2> HIDE DEF P
  <2>1. \A n \in 0 .. C : n \in P
    BY <1>1, <1>2, <1>3, CountingUp, Zenon
  <2> QED BY <1>1, <2>1
<1>5. Good(t)
  BY <1>1, <1>4
<1>6. p.field \in Field /\ p.depth \in Nat
  BY MembersType DEF Found
<1>7. IsObject(t)
  BY MembersOf DEF FromFields
<1> QED BY <1>5, <1>6, <1>7

-----------------------------------------------------------------------------
(* What the schema of a type is, and what a type is made of                *)

\* The members that are shown are members.
LEMMA DominantIn ==
  ASSUME NEW t \in Types, IsObject(t)
  PROVE  /\ Dominant[t] = {p \in Members[t] : \A q \in Members[t] :
                             q.field.name = p.field.name => p.depth <= q.depth}
         /\ Dominant[t] \subseteq Members[t]
         /\ MemberTypes(t) = {p.field.type : p \in Dominant[t]}
<1>1. t \in {u \in Types : IsObject(u)} /\ ~IsWrapper(t) /\ ~IsLeaf(t)
  BY FieldsType
<1>2. Dominant[t] = {p \in Members[t] : \A q \in Members[t] :
                       q.field.name = p.field.name => p.depth <= q.depth}
  BY <1>1 DEF Dominant
<1> QED BY <1>1, <1>2 DEF MemberTypes

\* A schema that has no name, given those one level below.
OneLevel(t, opts, below) ==
  CASE IsLeaf(t)    -> LeafSchema(t, opts)
    [] IsWrapper(t) -> Wrapped(t, below[opts][Shape[t].elem])
    [] OTHER        -> Described(t, opts, below[opts])

SchemaStep(n, below) ==
  [opts \in MarshalOptions |-> [t \in Types |->
     IF IsNamed(t) THEN Ref(Shape[t].key)
     ELSE IF n = 0 THEN AnySchema
     ELSE CASE IsLeaf(t)    -> LeafSchema(t, opts)
            [] IsWrapper(t) -> Wrapped(t, below[opts][Shape[t].elem])
            [] OTHER        -> Described(t, opts, below[opts])]]

\* Schemas, level by level.
LEMMA SchemaRuns ==
  \A n \in 0 .. LevelsOfTypes, opts \in MarshalOptions, t \in Types :
    SchemaWithin[n][opts][t] = IF IsNamed(t) THEN Ref(Shape[t].key)
                               ELSE IF n = 0 THEN AnySchema
                               ELSE OneLevel(t, opts, SchemaWithin[n - 1])
<1> DEFINE N == LevelsOfTypes
           IsRun(f, n) == f = [k \in 0 .. n |-> SchemaStep(k, f[k - 1])]
           run == CHOOSE f : IsRun(f, N)
           P == {n \in 0 .. N : \E f : IsRun(f, n)}
<1>1. N \in Nat
  BY Levels
<1>2. SchemaWithin = run
  BY DEF SchemaWithin, SchemaStep, LevelsOfTypes
<1> HIDE DEF N
<1>3. \A a, b : SchemaStep(0, a) = SchemaStep(0, b)
  BY DEF SchemaStep
<1>4. 0 \in P
  <2> DEFINE f == [k \in 0 .. 0 |-> SchemaStep(0, 0)]
  <2>1. \A k \in 0 .. 0 : SchemaStep(k, f[k - 1]) = SchemaStep(0, 0)
    BY <1>3
  <2>2. f = [k \in 0 .. 0 |-> SchemaStep(k, f[k - 1])]
    BY <2>1
  <2> HIDE DEF f
  <2> QED BY <1>1, <2>2
<1>5. ASSUME NEW n \in 1 .. N, n - 1 \in P PROVE n \in P
  <2>1. PICK f : f = [k \in 0 .. n - 1 |-> SchemaStep(k, f[k - 1])]
    BY <1>5
  <2> DEFINE g == [k \in 0 .. n |-> IF k = n THEN SchemaStep(n, f[n - 1]) ELSE f[k]]
  <2>2. ASSUME NEW k \in 0 .. n PROVE g[k] = SchemaStep(k, g[k - 1])
    <3>1. CASE k = 0
      BY <1>3, <2>1, <3>1
    <3>2. CASE k # 0
      <4>1. k - 1 \in 0 .. n - 1 /\ k - 1 \in 0 .. n /\ k - 1 # n
        BY <3>2
      <4>2. g[k - 1] = f[k - 1]
        BY <4>1
      <4>3. k # n => f[k] = SchemaStep(k, f[k - 1]) /\ g[k] = f[k]
        BY <2>1
      <4>4. k = n => g[k] = SchemaStep(k, f[k - 1])
        OBVIOUS
      <4> HIDE DEF g
      <4> QED BY <4>2, <4>3, <4>4
    <3> QED BY <3>1, <3>2
  <2>3. g = [k \in 0 .. n |-> g[k]]
    OBVIOUS
  <2> HIDE DEF g
  <2>4. g = [k \in 0 .. n |-> SchemaStep(k, g[k - 1])]
    BY <2>2, <2>3
  <2>5. n \in 0 .. N
    BY <1>1
  <2> QED BY <2>4, <2>5
<1>6. N \in P
  <2> HIDE DEF P
  <2>1. \A n \in 0 .. N : n \in P
    BY <1>1, <1>4, <1>5, CountingUp, Zenon
  <2> QED BY <1>1, <2>1
<1>7. IsRun(run, N)
  <2> HIDE DEF IsRun
  <2> QED BY <1>6
<1> HIDE DEF run
<1>8. ASSUME NEW n \in 0 .. N, NEW opts \in MarshalOptions, NEW t \in Types
      PROVE  run[n][opts][t] = IF IsNamed(t) THEN Ref(Shape[t].key)
                               ELSE IF n = 0 THEN AnySchema
                               ELSE OneLevel(t, opts, run[n - 1])
  <2>1. run[n] = SchemaStep(n, run[n - 1])
    BY <1>7
  <2>2. \A below : SchemaStep(n, below)[opts][t] = IF IsNamed(t) THEN Ref(Shape[t].key)
                                                  ELSE IF n = 0 THEN AnySchema
                                                  ELSE OneLevel(t, opts, below)
    BY DEF SchemaStep, OneLevel
  <2> QED BY <2>1, <2>2
<1> QED BY <1>2, <1>8 DEF N

\* A schema follows from those of the types with a name and of lower ones.
LEMMA SameBelow ==
  ASSUME NEW T \in SUBSET Types, Orderly(T), NEW rank, IsRank(rank, T), NEW t \in T, ~IsNamed(t),
         NEW opts, NEW a, NEW b,
         \A u \in T : IsNamed(u) \/ rank[u] < rank[t] => a[opts][u] = b[opts][u]
  PROVE  OneLevel(t, opts, a) = OneLevel(t, opts, b)
<1>1. CASE IsLeaf(t)
  <2>1. ~IsWrapper(t)
    BY <1>1 DEF IsLeaf, IsWrapper
  <2> QED BY <1>1, <2>1 DEF OneLevel
<1>2. CASE IsWrapper(t)
  <2> DEFINE u == Shape[t].elem
  <2>1. ~IsLeaf(t) /\ ~IsObject(t)
    BY <1>2 DEF IsLeaf, IsWrapper, IsObject
  <2>2. u \in References(t)
    BY <1>2 DEF References
  <2>3. u \in T
    BY <2>2 DEF Orderly
  <2>4. ~IsNamed(u) => u \in Unguarded(t)
    BY <1>2, WrapperIsFollowed
  <2>5. a[opts][u] = b[opts][u]
    BY <2>3, <2>4 DEF IsRank
  <2> HIDE DEF u
  <2>6. OneLevel(t, opts, a) = Wrapped(t, a[opts][u]) /\ OneLevel(t, opts, b) = Wrapped(t, b[opts][u])
    BY <1>2, <2>1 DEF OneLevel, u
  <2> QED BY <2>5, <2>6
<1>3. CASE ~IsLeaf(t) /\ ~IsWrapper(t)
  <2> DEFINE D == Dominant[t]
             name(p) == PropertyName(t, p.field, opts)
             chosen(n) == CHOOSE p \in D : name(p) = n
             names == {name(p) : p \in D}
  <2>1. IsObject(t)
    BY <1>3, ShapeOf
  <2>2. D \subseteq Members[t]
    BY <2>1, DominantIn
  <2>3. ASSUME NEW n \in names
        PROVE  a[opts][chosen(n).field.type] = b[opts][chosen(n).field.type]
    <3>1. chosen(n) \in D
      <4> HIDE DEF D, name
      <4> QED OBVIOUS
    <3> HIDE DEF chosen
    <3>2. chosen(n) \in Members[t]
      BY <2>2, <3>1
    <3>3. chosen(n).field.type \in T /\ (~IsNamed(chosen(n).field.type) => rank[chosen(n).field.type] < rank[t])
      BY <3>2, MembersIn
    <3> QED BY <3>3
  <2>4. /\ Described(t, opts, a[opts]) = ObjectOf([n \in names |-> a[opts][chosen(n).field.type]])
        /\ Described(t, opts, b[opts]) = ObjectOf([n \in names |-> b[opts][chosen(n).field.type]])
    BY DEF Described
  <2> HIDE DEF names, chosen
  <2>5. [n \in names |-> a[opts][chosen(n).field.type]] = [n \in names |-> b[opts][chosen(n).field.type]]
    BY <2>3
  <2>6. Described(t, opts, a[opts]) = Described(t, opts, b[opts])
    BY <2>4, <2>5
  <2> QED BY <1>3, <2>6 DEF OneLevel
<1> QED BY <1>1, <1>2, <1>3

\* Deep enough, the schemas follow from each other.
LEMMA SchemaOf ==
  ASSUME NEW T \in SUBSET Types, Orderly(T), NEW opts \in MarshalOptions, NEW t \in T
  PROVE  Schema[opts][t] = IF IsNamed(t) THEN Ref(Shape[t].key) ELSE OneLevel(t, opts, Schema)
<1> DEFINE C == LevelsOfTypes
           Value(n, u) == SchemaWithin[n][opts][u]
           Stable(u, n) == /\ \A m \in n .. C : Value(m, u) = Value(C, u)
                           /\ Value(C, u) = OneLevel(u, opts, SchemaWithin[C])
<1>1. PICK rank : IsRank(rank, T)
  BY Ranked
<1> DEFINE R == {n \in 0 .. C : \A u \in T : ~IsNamed(u) /\ rank[u] < n => Stable(u, n)}
<1>2. C \in Nat /\ rank \in [T -> 0 .. C - 1]
  BY <1>1, Levels DEF IsRank
<1>3. \A n \in 0 .. C, u \in T :
        Value(n, u) = IF IsNamed(u) THEN Ref(Shape[u].key)
                      ELSE IF n = 0 THEN AnySchema
                      ELSE OneLevel(u, opts, SchemaWithin[n - 1])
  BY SchemaRuns
<1> HIDE DEF C
<1>4. 0 \in R
  <2>1. \A u \in T : ~(rank[u] < 0)
    BY <1>2
  <2> QED BY <1>2, <2>1
<1>5. ASSUME NEW n \in 1 .. C, n - 1 \in R PROVE n \in R
  <2> SUFFICES ASSUME NEW u \in T, ~IsNamed(u), rank[u] < n PROVE Stable(u, n)
    BY <1>2
  <2>1. ASSUME NEW m \in n .. C
        PROVE  Value(m, u) = OneLevel(u, opts, SchemaWithin[C])
    <3>1. m \in 0 .. C /\ m # 0 /\ m - 1 \in (n - 1) .. C /\ m - 1 \in 0 .. C /\ C \in 0 .. C
      BY <1>2
    <3>2. ASSUME NEW v \in T, IsNamed(v) \/ rank[v] < rank[u]
          PROVE  SchemaWithin[m - 1][opts][v] = SchemaWithin[C][opts][v]
      <4>1. CASE IsNamed(v)
        BY <1>3, <3>1, <4>1
      <4>2. CASE ~IsNamed(v)
        <5>1. rank[v] < rank[u] /\ rank[v] \in 0 .. C - 1 /\ rank[u] \in 0 .. C - 1
          BY <1>2, <3>2, <4>2
        <5>2. rank[v] < n - 1
          BY <1>2, <5>1
        <5>3. Stable(v, n - 1)
          BY <1>5, <4>2, <5>2
        <5> QED BY <3>1, <5>3
      <4> QED BY <4>1, <4>2
    <3>3. OneLevel(u, opts, SchemaWithin[m - 1]) = OneLevel(u, opts, SchemaWithin[C])
      BY <1>1, <3>2, SameBelow
    <3>4. Value(m, u) = OneLevel(u, opts, SchemaWithin[m - 1])
      BY <1>3, <3>1
    <3> HIDE DEF Value
    <3> QED BY <3>3, <3>4
  <2>2. C \in n .. C
    BY <1>2
  <2> HIDE DEF Value
  <2> QED BY <2>1, <2>2
<1>6. C \in R
  <2> HIDE DEF R
  <2>1. \A n \in 0 .. C : n \in R
    BY <1>2, <1>4, <1>5, CountingUp, Zenon
  <2> QED BY <1>2, <2>1
<1>7. C \in 0 .. C /\ rank[t] < C
  BY <1>2
<1>8. ~IsNamed(t) => Value(C, t) = OneLevel(t, opts, SchemaWithin[C])
  BY <1>6, <1>7
<1>9. IsNamed(t) => Value(C, t) = Ref(Shape[t].key)
  BY <1>3, <1>7
<1> QED BY <1>8, <1>9 DEF Schema, C, LevelsOfTypes

\* The members of an orderly type are orderly.
LEMMA OrderlyMembers ==
  ASSUME NEW T \in SUBSET Types, Orderly(T), NEW t \in T
  PROVE  MemberTypes(t) \subseteq T
<1>1. CASE IsWrapper(t)
  <2>1. MemberTypes(t) = References(t)
    BY <1>1 DEF MemberTypes, References
  <2> QED BY <2>1 DEF Orderly
<1>2. CASE IsLeaf(t)
  <2>1. ~IsWrapper(t)
    BY <1>2 DEF IsLeaf, IsWrapper
  <2> QED BY <1>2, <2>1 DEF MemberTypes
<1>3. CASE IsObject(t)
  <2>1. PICK rank : IsRank(rank, T)
    BY Ranked
  <2>2. \A p \in Members[t] : p.field.type \in T
    BY <2>1, MembersIn
  <2> QED BY <1>3, <2>2, DominantIn
<1> QED BY <1>1, <1>2, <1>3, ShapeOf

IsClosed(us) == \A u \in us : MemberTypes(u) \subseteq us

\* The parts of a type are itself, the parts of its members, and no more.
LEMMA PartsAre ==
  ASSUME NEW T \in SUBSET Types, Orderly(T), NEW t \in T
  PROVE  /\ Parts[t] \subseteq T /\ t \in Parts[t] /\ IsClosed(Parts[t])
         /\ \A us \in SUBSET T : t \in us /\ IsClosed(us) => Parts[t] \subseteq us
<1> DEFINE N == LevelsOfTypes
           S == SUBSET T
           With(us) == us \cup UNION {MemberTypes(u) : u \in us}
           G == [n \in 1 .. N |-> [us \in S |-> With(us)]]
           IsRun(f) == f = [n \in 0 .. N |-> IF n = 0 THEN {t}
                                             ELSE LET us == f[n - 1]
                                                  IN  us \cup UNION {MemberTypes(u) : u \in us}]
           run == CHOOSE f : IsRun(f)
<1>1. N \in Nat /\ IsFiniteSet(T) /\ Cardinality(T) <= N
  BY Levels, SchemasAssumption, FS_Subset DEF LevelsOfTypes
<1>2. Parts[t] = run[N]
  <2>1. PartsOf(t) = run[N]
    BY DEF PartsOf, LevelsOfTypes
  <2>2. Parts[t] = PartsOf(t)
    BY DEF Parts
  <2> QED BY <2>1, <2>2
<1> HIDE DEF N
<1>3. \A us \in S : With(us) \in S
  BY OrderlyMembers
<1>4. G \in [1 .. N -> [S -> S]] /\ {t} \in S
  BY <1>3
<1>5. PICK f : Iterates(f, N, S, {t}, G)
  <2> HIDE DEF G, S
  <2> QED BY <1>1, <1>4, Recursion
<1>6. f \in [0 .. N -> S] /\ f[0] = {t} /\ \A n \in 1 .. N : f[n] = With(f[n - 1])
  <2>1. f \in [0 .. N -> S] /\ f[0] = {t} /\ \A n \in 1 .. N : f[n] = G[n][f[n - 1]]
    BY <1>5 DEF Iterates
  <2>2. ASSUME NEW n \in 1 .. N PROVE f[n] = With(f[n - 1])
    <3>1. n - 1 \in 0 .. N
      BY <1>1
    <3>2. f[n - 1] \in S /\ f[n] = G[n][f[n - 1]]
      BY <2>1, <3>1
    <3> HIDE DEF S, With
    <3> QED BY <3>2
  <2> QED BY <2>1, <2>2
<1> HIDE DEF G
<1>7. IsRun(f)
  <2>1. \A n \in 0 .. N : f[n] = IF n = 0 THEN {t} ELSE With(f[n - 1])
    BY <1>1, <1>6
  <2>2. f = [n \in 0 .. N |-> f[n]]
    BY <1>6
  <2>3. f = [n \in 0 .. N |-> IF n = 0 THEN {t} ELSE With(f[n - 1])]
    <3> HIDE DEF With
    <3> QED BY <2>1, <2>2
  <2> QED BY <2>3
<1>8. IsRun(run)
  <2> HIDE DEF IsRun
  <2> QED BY <1>7
<1> HIDE DEF run
<1>9. run[0] = {t} /\ \A n \in 1 .. N : run[n] = With(run[n - 1])
  BY <1>1, <1>8
<1>10. \A n \in 0 .. N : run[n] \in S
  <2> DEFINE P == {n \in 0 .. N : run[n] \in S}
  <2>1. 0 \in P
    BY <1>1, <1>9
  <2>2. ASSUME NEW n \in 1 .. N, n - 1 \in P PROVE n \in P
    <3>1. n \in 0 .. N /\ run[n - 1] \in S /\ run[n] = With(run[n - 1])
      BY <1>1, <1>9, <2>2
    <3> HIDE DEF With, S
    <3> QED BY <1>3, <3>1
  <2> HIDE DEF P
  <2>3. \A n \in 0 .. N : n \in P
    BY <1>1, <2>1, <2>2, CountingUp, Zenon
  <2> QED BY <2>3 DEF P
<1>11. run = [n \in 0 .. N |-> run[n]]
  BY <1>8
<1>12. run \in [0 .. N -> S]
  <2> HIDE DEF S
  <2> QED BY <1>10, <1>11
<1>13. \A n \in 1 .. N : run[n - 1] \subseteq run[n]
  BY <1>9
<1>14. IsClosed(run[N])
  <2> DEFINE Q == {n \in 0 .. N : IsClosed(run[n])}
  <2>1. ASSUME NEW n \in 1 .. N
        PROVE  (n - 1 \in Q => n \in Q) /\ (n - 1 \notin Q => run[n] # run[n - 1])
    <3>1. n \in 0 .. N /\ n - 1 \in 0 .. N /\ run[n] = With(run[n - 1])
      BY <1>1, <1>9
    <3>2. IsClosed(run[n - 1]) <=> With(run[n - 1]) = run[n - 1]
      BY DEF IsClosed
    <3> HIDE DEF With
    <3> QED BY <3>1, <3>2
  <2> HIDE DEF Q
  <2>2. N \in Q \/ run[N] = T
    BY <1>1, <1>12, <1>13, <2>1, Growth
  <2>3. IsClosed(T)
    BY OrderlyMembers DEF IsClosed
  <2> QED BY <2>2, <2>3 DEF Q
<1>15. t \in run[N]
  <2> DEFINE P == {n \in 0 .. N : t \in run[n]}
  <2>1. 0 \in P
    BY <1>1, <1>9
  <2>2. ASSUME NEW n \in 1 .. N, n - 1 \in P PROVE n \in P
    BY <1>1, <1>13, <2>2
  <2> HIDE DEF P
  <2>3. \A n \in 0 .. N : n \in P
    BY <1>1, <2>1, <2>2, CountingUp, Zenon
  <2> QED BY <1>1, <2>3 DEF P
<1>16. ASSUME NEW us \in SUBSET T, t \in us, IsClosed(us) PROVE run[N] \subseteq us
  <2> DEFINE P == {n \in 0 .. N : run[n] \subseteq us}
  <2>1. 0 \in P
    BY <1>1, <1>9, <1>16
  <2>2. ASSUME NEW n \in 1 .. N, n - 1 \in P PROVE n \in P
    <3>1. n \in 0 .. N /\ run[n - 1] \subseteq us /\ run[n] = With(run[n - 1])
      BY <1>1, <1>9, <2>2
    <3>2. run[n] \subseteq us
      BY <1>16, <3>1 DEF IsClosed
    <3> QED BY <3>1, <3>2
  <2> HIDE DEF P
  <2>3. \A n \in 0 .. N : n \in P
    BY <1>1, <2>1, <2>2, CountingUp, Zenon
  <2> QED BY <1>1, <2>3 DEF P
<1>17. run[N] \in S
  BY <1>1, <1>10
<1> QED BY <1>2, <1>14, <1>15, <1>16, <1>17

-----------------------------------------------------------------------------
(* What a loop has seen and made of it                                     *)

\* What the fields before the n-th show.
Seen(t, n) ==
  UNION {Shown(Shape[t].fields[j], Members) :
           j \in {k \in 1 .. Len(Shape[t].fields) : k < n /\ ~Hidden(Shape[t].fields[k])}}

\* A loop has seen nothing at first, at the end what its type shows, and
\* with every field that it does not leave out what that shows.
LEMMA SeenSoFar ==
  ASSUME NEW T \in SUBSET Types, Orderly(T), NEW t \in T, IsObject(t)
  PROVE  /\ Seen(t, 1) = {}
         /\ Seen(t, Len(Shape[t].fields) + 1) = Members[t]
         /\ \A n \in 1 .. Len(Shape[t].fields) :
              LET g == Shape[t].fields[n]
              IN  /\ Hidden(g) => Seen(t, n + 1) = Seen(t, n)
                  /\ ~Hidden(g) => Seen(t, n + 1) = Seen(t, n) \cup Shown(g, Members)
<1> DEFINE N == Len(Shape[t].fields)
           g(k) == Shape[t].fields[k]
           J(n) == {k \in 1 .. N : k < n /\ ~Hidden(g(k))}
<1>1. /\ N \in Nat /\ Range(Shape[t].fields) = {g(k) : k \in 1 .. N}
      /\ \A f \in Range(Shape[t].fields) : IsVisible(f) <=> ~Hidden(f)
  BY RangeOfFields, OrderlyFields
<1>2. \A n : Seen(t, n) = UNION {Shown(g(k), Members) : k \in J(n)}
  BY DEF Seen
<1>3. Seen(t, 1) = {}
  <2>1. J(1) = {}
    BY <1>1
  <2> HIDE DEF J
  <2> QED BY <1>2, <2>1
<1>4. Seen(t, N + 1) = Members[t]
  <2>1. Members[t] = UNION {Shown(f, Members) : f \in {h \in Range(Shape[t].fields) : IsVisible(h)}}
    BY MembersOf DEF FromFields
  <2>2. J(N + 1) = {k \in 1 .. N : ~Hidden(g(k))}
    BY <1>1
  <2>3. {h \in Range(Shape[t].fields) : IsVisible(h)} = {g(k) : k \in J(N + 1)}
    <3> HIDE DEF g, J, N
    <3> QED BY <1>1, <2>2
  <2> HIDE DEF J, g, N
  <2>4. {Shown(f, Members) : f \in {g(k) : k \in J(N + 1)}} = {Shown(g(k), Members) : k \in J(N + 1)}
    OBVIOUS
  <2> QED BY <1>2, <2>1, <2>3, <2>4
<1>5. ASSUME NEW n \in 1 .. N
      PROVE  /\ Hidden(g(n)) => Seen(t, n + 1) = Seen(t, n)
             /\ ~Hidden(g(n)) => Seen(t, n + 1) = Seen(t, n) \cup Shown(g(n), Members)
  <2> HIDE DEF g, N
  <2>1. J(n + 1) = J(n) \cup (IF Hidden(g(n)) THEN {} ELSE {n})
    BY <1>1
  <2> HIDE DEF J
  <2>2. CASE Hidden(g(n))
    BY <1>2, <2>1, <2>2
  <2>3. CASE ~Hidden(g(n))
    <3>1. J(n + 1) = J(n) \cup {n}
      BY <2>1, <2>3
    <3>2. {Shown(g(k), Members) : k \in J(n + 1)} = {Shown(g(k), Members) : k \in J(n)} \cup {Shown(g(n), Members)}
      BY <3>1
    <3> QED BY <1>2, <2>3, <3>2
  <2> QED BY <2>2, <2>3
<1> QED BY <1>3, <1>4, <1>5

\* What it has seen has its type; what the next field shows under a name that
\* it has seen is less deep.
LEMMA NextIsForemost ==
  ASSUME NEW T \in SUBSET Types, Orderly(T), NEW t \in T, IsObject(t),
         NEW n \in 1 .. Len(Shape[t].fields), ~Hidden(Shape[t].fields[n]), NEW opts
  PROVE  /\ Seen(t, n) \in Found /\ Shown(Shape[t].fields[n], Members) \in Found
         /\ \A p \in Seen(t, n), q \in Shown(Shape[t].fields[n], Members) :
              PropertyName(t, p.field, opts) = PropertyName(t, q.field, opts) => q.depth < p.depth
<1> DEFINE N == Len(Shape[t].fields)
           g(k) == Shape[t].fields[k]
<1>1. N \in Nat /\ \A k \in 1 .. N : g(k) \in Field /\ DOMAIN Shape[t].fields = 1 .. N
  BY RangeOfFields
<1>2. \A k \in 1 .. N : Shown(g(k), Members) \in Found
  BY <1>1, MembersType, ShownType
<1>3. Seen(t, n) \in Found
  BY <1>2 DEF Seen, Found
<1>4. ASSUME NEW p \in Seen(t, n), NEW q \in Shown(g(n), Members),
             PropertyName(t, p.field, opts) = PropertyName(t, q.field, opts)
      PROVE  q.depth < p.depth
  <2>1. PICK k \in 1 .. N : k < n /\ ~Hidden(g(k)) /\ p \in Shown(g(k), Members)
    BY DEF Seen
  <2>2. SameName(t, p.field, q.field)
    BY <1>4 DEF SameName, PropertyName
  <2>3. LastIsForemost(t)
    BY DEF Orderly
  <2> QED BY <1>1, <2>1, <2>2, <2>3 DEF LastIsForemost
<1> QED BY <1>1, <1>2, <1>3, <1>4

\* The properties are those there were, with what has been seen put over them.
Merged(props, base, t, seen, opts) ==
  LET name(p) == PropertyName(t, p.field, opts)
  IN  /\ props = [n \in DOMAIN props |-> props[n]]
      /\ DOMAIN props = DOMAIN base \cup {name(p) : p \in seen}
      /\ \A n \in DOMAIN base : (\A p \in seen : name(p) # n) => props[n] = base[n]
      /\ \A p \in seen : (\A q \in seen : name(q) = name(p) => p.depth <= q.depth)
                           => props[name(p)] = Schema[opts][p.field.type]

\* In a struct the names are those of the fields.
MergedNames(props, base, seen, opts) ==
  /\ props = [n \in DOMAIN props |-> props[n]]
  /\ DOMAIN props = DOMAIN base \cup {p.field.name : p \in seen}
  /\ \A n \in DOMAIN base : (\A p \in seen : p.field.name # n) => props[n] = base[n]
  /\ \A p \in seen : (\A q \in seen : q.field.name = p.field.name => p.depth <= q.depth)
                       => props[p.field.name] = Schema[opts][p.field.type]

\* This is how properties are merged, unless proto names are in use.
LEMMA ByName ==
  ASSUME NEW t, NEW opts, \A f : PropertyName(t, f, opts) = f.name, NEW props, NEW base, NEW seen
  PROVE  Merged(props, base, t, seen, opts) <=> MergedNames(props, base, seen, opts)
<1>1. {PropertyName(t, p.field, opts) : p \in seen} = {p.field.name : p \in seen}
  OBVIOUS
<1> DEFINE A1 == props = [n \in DOMAIN props |-> props[n]]
           A2 == DOMAIN props = DOMAIN base \cup {PropertyName(t, p.field, opts) : p \in seen}
           A3 == \A n \in DOMAIN base : (\A p \in seen : PropertyName(t, p.field, opts) # n) => props[n] = base[n]
           A4 == \A p \in seen :
                   (\A q \in seen : PropertyName(t, q.field, opts) = PropertyName(t, p.field, opts) => p.depth <= q.depth)
                     => props[PropertyName(t, p.field, opts)] = Schema[opts][p.field.type]
           B2 == DOMAIN props = DOMAIN base \cup {p.field.name : p \in seen}
           B3 == \A n \in DOMAIN base : (\A p \in seen : p.field.name # n) => props[n] = base[n]
           B4 == \A p \in seen :
                   (\A q \in seen : q.field.name = p.field.name => p.depth <= q.depth)
                     => props[p.field.name] = Schema[opts][p.field.type]
<1>2. (A2 <=> B2) /\ (A3 <=> B3) /\ (A4 <=> B4)
  <2>1. A2 <=> B2
    BY <1>1
  <2>2. A3 <=> B3
    OBVIOUS
  <2>3. A4 <=> B4
    OBVIOUS
  <2> QED BY <2>1, <2>2, <2>3
<1>3. Merged(props, base, t, seen, opts) <=> A1 /\ A2 /\ A3 /\ A4
  BY DEF Merged
<1>4. MergedNames(props, base, seen, opts) <=> A1 /\ B2 /\ B3 /\ B4
  BY DEF MergedNames
<1> HIDE DEF A1, A2, A3, A4, B2, B3, B4
<1> QED BY <1>2, <1>3, <1>4

\* Nothing at first, ...
LEMMA MergedFirst ==
  ASSUME NEW t, NEW base, base = [n \in DOMAIN base |-> base[n]], NEW opts
  PROVE  Merged(base, base, t, {}, opts)
BY DEF Merged

\* ... and then more, if it goes over what there was.
LEMMA MergedMore ==
  ASSUME NEW t, NEW opts, NEW base, NEW props, NEW more,
         NEW seen \in Found, NEW shown \in Found,
         Merged(props, base, t, seen, opts), Merged(more, props, t, shown, opts),
         \A p \in seen, q \in shown :
           PropertyName(t, p.field, opts) = PropertyName(t, q.field, opts) => q.depth < p.depth
  PROVE  Merged(more, base, t, seen \cup shown, opts)
<1> DEFINE name(p) == PropertyName(t, p.field, opts)
<1>1. /\ props = [n \in DOMAIN props |-> props[n]]
      /\ DOMAIN props = DOMAIN base \cup {name(p) : p \in seen}
      /\ \A n \in DOMAIN base : (\A p \in seen : name(p) # n) => props[n] = base[n]
      /\ \A p \in seen : (\A q \in seen : name(q) = name(p) => p.depth <= q.depth)
                           => props[name(p)] = Schema[opts][p.field.type]
  BY DEF Merged
<1>2. /\ more = [n \in DOMAIN more |-> more[n]]
      /\ DOMAIN more = DOMAIN props \cup {name(p) : p \in shown}
      /\ \A n \in DOMAIN props : (\A p \in shown : name(p) # n) => more[n] = props[n]
      /\ \A p \in shown : (\A q \in shown : name(q) = name(p) => p.depth <= q.depth)
                           => more[name(p)] = Schema[opts][p.field.type]
  BY DEF Merged
<1>3. \A p \in seen, q \in shown : name(p) = name(q) => q.depth < p.depth
  OBVIOUS
<1>4. \A p \in seen \cup shown : p.depth \in Nat
  BY DEF Found
<1> HIDE DEF name
<1> DEFINE all == seen \cup shown
<1>5. DOMAIN more = DOMAIN base \cup {name(p) : p \in all}
  BY <1>1, <1>2
<1>6. \A n \in DOMAIN base : (\A p \in all : name(p) # n) => more[n] = base[n]
  BY <1>1, <1>2
<1>7. ASSUME NEW p \in all, \A q \in all : name(q) = name(p) => p.depth <= q.depth
      PROVE  more[name(p)] = Schema[opts][p.field.type]
  <2>1. CASE p \in shown
    BY <1>2, <1>7, <2>1
  <2>2. CASE p \in seen /\ p \notin shown
    <3>1. \A q \in shown : name(q) # name(p)
      <4> SUFFICES ASSUME NEW q \in shown, name(q) = name(p) PROVE FALSE
        OBVIOUS
      <4>1. q \in all /\ p.depth <= q.depth /\ q.depth < p.depth
        BY <1>3, <1>7, <2>2
      <4> QED BY <1>4, <4>1
    <3>2. name(p) \in DOMAIN props
      BY <1>1, <2>2
    <3>3. more[name(p)] = props[name(p)]
      BY <1>2, <3>1, <3>2
    <3>4. props[name(p)] = Schema[opts][p.field.type]
      BY <1>1, <1>7, <2>2
    <3> QED BY <3>3, <3>4
  <2> QED BY <2>1, <2>2
<1> HIDE DEF all
<1>8. /\ more = [n \in DOMAIN more |-> more[n]]
      /\ DOMAIN more = DOMAIN base \cup {name(p) : p \in all}
      /\ \A n \in DOMAIN base : (\A p \in all : name(p) # n) => more[n] = base[n]
      /\ \A p \in all : (\A q \in all : name(q) = name(p) => p.depth <= q.depth)
                           => more[name(p)] = Schema[opts][p.field.type]
  BY <1>2, <1>5, <1>6, <1>7
<1> QED BY <1>8 DEF Merged, name, all

\* A field of its own is put over what there was, ...
LEMMA MergedField ==
  ASSUME NEW T \in SUBSET Types, Orderly(T), NEW t \in T, IsObject(t),
         NEW n \in 1 .. Len(Shape[t].fields), NEW opts, NEW base, NEW props,
         ~Hidden(Shape[t].fields[n]), ~Flattens(Shape[t].fields[n]),
         Merged(props, base, t, Seen(t, n), opts)
  PROVE  LET g == Shape[t].fields[n]
         IN  Merged(Put(props, PropertyName(t, g, opts), Schema[opts][g.type]), base, t, Seen(t, n + 1), opts)
<1> DEFINE g == Shape[t].fields[n]
           shown == Shown(g, Members)
           x == PropertyName(t, g, opts)
           y == Schema[opts][g.type]
           more == Put(props, x, y)
           it == [field |-> g, depth |-> 0]
<1>1. shown = {it}
  BY DEF Shown
<1>2. Seen(t, n) \in Found /\ shown \in Found /\ Seen(t, n + 1) = Seen(t, n) \cup shown
      /\ \A p \in Seen(t, n), q \in shown :
           PropertyName(t, p.field, opts) = PropertyName(t, q.field, opts) => q.depth < p.depth
  BY NextIsForemost, SeenSoFar
<1> HIDE DEF shown
<1>3. Merged(more, props, t, shown, opts)
  <2>1. it.field = g /\ it.depth = 0
    OBVIOUS
  <2> HIDE DEF g
  <2>2. /\ more = [z \in DOMAIN more |-> more[z]]
        /\ DOMAIN more = DOMAIN props \cup {x} /\ more[x] = y
        /\ \A z \in DOMAIN props : z # x => more[z] = props[z]
    BY DEF Put
  <2> HIDE DEF more, it, y
  <2>3. PropertyName(t, it.field, opts) = x
    BY <2>1
  <2> HIDE DEF x
  <2>4. {PropertyName(t, p.field, opts) : p \in shown} = {x}
    BY <1>1, <2>3
  <2>5. \A p \in shown : PropertyName(t, p.field, opts) = x /\ Schema[opts][p.field.type] = y
    BY <1>1, <2>1, <2>3 DEF y
  <2>6. it \in shown
    BY <1>1
  <2>7. \A z \in DOMAIN props : (\A p \in shown : PropertyName(t, p.field, opts) # z) => more[z] = props[z]
    BY <2>2, <2>3, <2>6
  <2>8. \A p \in shown : more[PropertyName(t, p.field, opts)] = Schema[opts][p.field.type]
    BY <2>2, <2>5
  <2> QED BY <2>2, <2>4, <2>7, <2>8 DEF Merged
<1> HIDE DEF more
<1>4. Merged(more, base, t, Seen(t, n) \cup shown, opts)
  BY <1>2, <1>3, MergedMore
<1> QED BY <1>2, <1>4 DEF more

\* ... and so is all that an embedded struct shows.
LEMMA MergedStruct ==
  ASSUME NEW T \in SUBSET Types, Orderly(T), NEW t \in T, IsObject(t),
         NEW n \in 1 .. Len(Shape[t].fields), NEW opts, NEW base, NEW props, NEW more,
         ~Hidden(Shape[t].fields[n]), Flattens(Shape[t].fields[n]),
         Merged(props, base, t, Seen(t, n), opts),
         LET u == Deref(Shape[t].fields[n].type) IN Merged(more, props, u, Members[u], opts)
  PROVE  Merged(more, base, t, Seen(t, n + 1), opts)
<1> DEFINE g == Shape[t].fields[n]
           u == Deref(g.type)
           shown == Shown(g, Members)
<1>1. Seen(t, n) \in Found /\ shown \in Found /\ Seen(t, n + 1) = Seen(t, n) \cup shown
      /\ \A p \in Seen(t, n), q \in shown :
           PropertyName(t, p.field, opts) = PropertyName(t, q.field, opts) => q.depth < p.depth
  BY NextIsForemost, SeenSoFar
<1>2. g \in Range(Shape[t].fields)
  BY RangeOfFields
<1>3. Shape[t].kind = "struct" /\ Shape[u].kind = "struct" /\ u \in T
  BY <1>2, OrderlyFields
<1>4. \A f : PropertyName(t, f, opts) = f.name /\ PropertyName(u, f, opts) = f.name
  BY <1>3 DEF PropertyName
<1>5. shown = Deeper(Members[u])
  BY DEF Shown
<1>6. Members[u] \in Found
  BY <1>3, MembersType
<1>7. Merged(more, props, u, Members[u], opts)
  OBVIOUS
<1> HIDE DEF shown, u, g
<1>8. Merged(more, props, t, shown, opts)
  <2> DEFINE M == Members[u]
             Names(m, b, s) == MergedNames(m, b, s, opts)
  <2>1. Names(more, props, M)
    BY <1>4, <1>7, ByName
  <2> USE DEF MergedNames
  <2>2. \A p \in M : p.depth \in Nat
    BY <1>6 DEF Found
  <2>3. \A q \in shown : \E p \in M : q.field = p.field /\ q.depth = p.depth + 1
    BY <1>5 DEF Deeper
  <2>4. \A p \in M : \E q \in shown : q.field = p.field /\ q.depth = p.depth + 1
    <3> TAKE p \in M
    <3>1. [field |-> p.field, depth |-> p.depth + 1] \in shown
      BY <1>5 DEF Deeper
    <3> QED BY <3>1
  <2> HIDE DEF M
  <2>5. {p.field.name : p \in M} = {q.field.name : q \in shown}
    BY <2>3, <2>4
  <2>6. \A z \in DOMAIN props : (\A q \in shown : q.field.name # z) => more[z] = props[z]
    BY <2>1, <2>4
  <2>7. ASSUME NEW q \in shown, \A r \in shown : r.field.name = q.field.name => q.depth <= r.depth
        PROVE  more[q.field.name] = Schema[opts][q.field.type]
    <3>1. PICK p \in M : q.field = p.field /\ q.depth = p.depth + 1
      BY <2>3
    <3>2. ASSUME NEW r \in M, r.field.name = p.field.name PROVE p.depth <= r.depth
      <4>1. PICK s \in shown : s.field = r.field /\ s.depth = r.depth + 1
        BY <2>4
      <4>2. q.depth <= s.depth
        BY <2>7, <3>1, <3>2, <4>1
      <4> QED BY <2>2, <3>1, <4>1, <4>2
    <3>3. more[p.field.name] = Schema[opts][p.field.type]
      BY <2>1, <3>2
    <3> QED BY <3>1, <3>3
  <2>8. Names(more, props, shown)
    BY <2>1, <2>5, <2>6, <2>7
  <2> HIDE DEF MergedNames
  <2> QED BY <1>4, <2>8, ByName
<1>9. Merged(more, base, t, Seen(t, n) \cup shown, opts)
  BY <1>1, <1>8, MergedMore
<1> QED BY <1>1, <1>9

\* The members of a message are its fields.
LEMMA MessageMembers ==
  ASSUME NEW T \in SUBSET Types, Orderly(T), NEW t \in T, Shape[t].kind = "message"
  PROVE  \A p \in Members[t] : p.depth = 0
<1> SUFFICES ASSUME NEW p \in Members[t] PROVE p.depth = 0
  OBVIOUS
<1>1. IsObject(t)
  BY DEF IsObject
<1>2. p \in UNION {Shown(g, Members) : g \in {h \in Range(Shape[t].fields) : IsVisible(h)}}
  BY <1>1, MembersOf DEF FromFields
<1>3. PICK f \in Range(Shape[t].fields) : p \in Shown(f, Members)
  BY <1>2
<1>4. ~Flattens(f)
  BY <1>1, <1>3, OrderlyFields
<1> QED BY <1>3, <1>4 DEF Shown

\* Of the members that have the name of one, one is shown.
LEMMA ShownForEach ==
  ASSUME NEW t \in Types, IsObject(t), NEW p \in Members[t]
  PROVE  \E q \in Dominant[t] : q.field.name = p.field.name
<1> DEFINE Named == {q \in Members[t] : q.field.name = p.field.name}
           I == {q.depth : q \in Named}
<1>1. \A q \in Members[t] : q.depth \in Nat
  BY MembersType DEF Found
<1>2. I \in SUBSET Nat /\ I # {}
  BY <1>1
<1>3. PICK n \in I : \A m \in I : n <= m
  <2> HIDE DEF I
  <2> QED BY <1>2, SmallestInNat
<1>4. PICK q \in Named : n = q.depth
  BY <1>3
<1>5. \A r \in Members[t] : r.field.name = q.field.name => q.depth <= r.depth
  BY <1>3, <1>4
<1>6. q \in Dominant[t]
  BY <1>4, <1>5, DominantIn
<1> QED BY <1>4, <1>6

\* A loop that has seen all members has described the object.
LEMMA MergedAll ==
  ASSUME NEW T \in SUBSET Types, Orderly(T), NEW t \in T, IsObject(t), NEW opts, NEW props,
         Merged(props, EmptyMap, t, Members[t], opts)
  PROVE  ObjectOf(props) = Described(t, opts, Schema[opts])
<1> DEFINE name(p) == PropertyName(t, p.field, opts)
           M == Members[t]
           D == Dominant[t]
           names == {name(p) : p \in D}
           chosen(n) == CHOOSE p \in D : name(p) = n
<1>1. /\ props = [n \in DOMAIN props |-> props[n]]
      /\ DOMAIN props = {name(p) : p \in M}
      /\ \A p \in M : (\A q \in M : name(q) = name(p) => p.depth <= q.depth)
                           => props[name(p)] = Schema[opts][p.field.type]
  BY DEF Merged, EmptyMap
<1>2. D \subseteq M /\ D = {p \in M : \A q \in M : q.field.name = p.field.name => p.depth <= q.depth}
  BY DominantIn
<1>3. /\ \A p \in M : \E q \in D : name(q) = name(p)
      /\ \A p \in D, q \in M : name(q) = name(p) => p.depth <= q.depth
  <2>1. CASE Shape[t].kind = "message"
    <3>1. \A p \in M : p.depth = 0
      BY <2>1, MessageMembers
    <3> HIDE DEF M, D
    <3>2. D = M
      BY <1>2, <3>1
    <3> HIDE DEF name
    <3>3. \A p, q \in M : p.depth <= q.depth
      BY <3>1
    <3> QED BY <3>2, <3>3
  <2>2. CASE Shape[t].kind # "message"
    <3>1. \A p : name(p) = p.field.name
      BY <2>2 DEF PropertyName
    <3>2. \A p \in M : \E q \in D : q.field.name = p.field.name
      BY ShownForEach
    <3> HIDE DEF name, M, D
    <3> QED BY <1>2, <3>1, <3>2
  <2> QED BY <2>1, <2>2
<1>4. Described(t, opts, Schema[opts]) = ObjectOf([n \in names |-> Schema[opts][chosen(n).field.type]])
  BY DEF Described
<1> HIDE DEF name, M, D
<1>5. DOMAIN props = names
  BY <1>1, <1>2, <1>3
<1>6. \A n \in names : props[n] = Schema[opts][chosen(n).field.type]
  <2> TAKE n \in names
  <2>1. chosen(n) \in D /\ name(chosen(n)) = n
    OBVIOUS
  <2> HIDE DEF chosen
  <2> QED BY <1>1, <1>2, <1>3, <2>1
<1> HIDE DEF names, chosen
<1>7. props = [n \in names |-> Schema[opts][chosen(n).field.type]]
  BY <1>1, <1>5, <1>6
<1> QED BY <1>4, <1>7

-----------------------------------------------------------------------------
(* What the activations have to do with each other.  A world tells what    *)
(* they work for: the options, the root that is being described, the types *)
(* that are due, and those that are done: a schema for them is there, and  *)
(* the walk has been wherever they lead.                                   *)

FieldAt(f) == Shape[f.type].fields[f.at]

\* Below the first activation is what asks for the root.
Base(w) == [type |-> w.root, role |-> "root", at |-> 1, props |-> EmptyMap]
Below(s, i, w) == IF i < Len(s) THEN s[i + 1] ELSE Base(w)

Loops(f) == f.role \in {"component", "inline", "embed"}

\* The type that an activation wants a schema of, if it wants one; otherwise
\* it waits for an embedded struct.
Wanted(f) == IF f.role = "root" THEN f.type
             ELSE IF f.role = "wrap" THEN Shape[f.type].elem ELSE FieldAt(f).type

AtVisible(f) == Loops(f) /\ f.at \in 1 .. Len(Shape[f.type].fields) /\ ~Hidden(FieldAt(f))
Wants(f)  == f.role \in {"root", "wrap"} \/ (AtVisible(f) /\ ~Flattens(FieldAt(f)))
Embeds(f) == AtVisible(f) /\ Flattens(FieldAt(f))

IsDue(t, w) == t \in w.due \/ IsLeaf(t)

IsWorld(w, T) == /\ w.opts \in MarshalOptions
                 /\ w.due \subseteq T /\ IsClosed(w.due) /\ w.done \subseteq T

\* A loop over what the one below asks for, or over a struct that it embeds.
Loop(f, base, w) ==
  /\ Merged(f.props, base, f.type, Seen(f.type, f.at), w.opts)
  /\ \A p \in Seen(f.type, f.at) : p.field.type \in w.done
  /\ \A p \in Members[f.type] : IsDue(p.field.type, w)

Link(f, b, T, w) ==
  \/ /\ f.role = "wrap" /\ Wants(b) /\ f.type = Wanted(b)
     /\ f.type \in T \cap w.due /\ IsWrapper(f.type)
  \/ /\ f.role \in {"inline", "component"} /\ Wants(b) /\ f.type = Wanted(b)
     /\ f.type \in T \cap w.due /\ IsObject(f.type) /\ (f.role = "component" <=> IsNamed(f.type))
     /\ Loop(f, EmptyMap, w)
  \/ /\ f.role = "embed" /\ Embeds(b) /\ f.type = Deref(FieldAt(b).type)
     /\ f.type \in T /\ IsObject(f.type)
     /\ Loop(f, b.props, w)

Chain(s, T, w) == \A i \in 1 .. Len(s) : Link(s[i], Below(s, i, w), T, w)

\* A chain grows and shrinks at its end, ...
LEMMA ChainPushed ==
  ASSUME NEW T, NEW w, NEW s, IsSeq(s), Chain(s, T, w), NEW f, Link(f, Below(s, 0, w), T, w)
  PROVE  Chain(<<f>> \o s, T, w) /\ Below(<<f>> \o s, 0, w) = f
<1> DEFINE t == <<f>> \o s
           n == Len(s)
<1>1. n \in Nat /\ Len(t) = n + 1 /\ t[1] = f /\ \A i \in 1 .. n : t[i + 1] = s[i]
  BY Pushed DEF IsSeq
<1> HIDE DEF t
<1>2. Below(t, 0, w) = f
  BY <1>1 DEF Below
<1>3. Below(t, 1, w) = Below(s, 0, w)
  <2>1. n > 0 => 1 \in 1 .. n /\ t[1 + 1] = s[1]
    BY <1>1
  <2> QED BY <1>1, <2>1 DEF Below
<1>4. ASSUME NEW i \in 1 .. n + 1 PROVE Link(t[i], Below(t, i, w), T, w)
  <2>1. CASE i = 1
    BY <1>1, <1>3, <2>1
  <2>2. CASE i # 1
    <3>1. i - 1 \in 1 .. n /\ (i - 1) + 1 = i
      BY <1>1, <2>2
    <3>2. t[i] = s[i - 1]
      BY <1>1, <3>1
    <3>3. Below(t, i, w) = Below(s, i - 1, w)
      <4>1. i < n + 1 => i \in 1 .. n /\ t[i + 1] = s[i]
        BY <1>1
      <4> QED BY <1>1, <3>1, <4>1 DEF Below
    <3>4. Link(s[i - 1], Below(s, i - 1, w), T, w)
      BY <3>1 DEF Chain
    <3> QED BY <3>2, <3>3, <3>4
  <2> QED BY <2>1, <2>2
<1>5. Chain(t, T, w)
  BY <1>1, <1>4 DEF Chain
<1> QED BY <1>2, <1>5 DEF t

\* ... is still one without its innermost activation, ...
LEMMA ChainPopped ==
  ASSUME NEW T, NEW w, NEW s, IsSeq(s), s # <<>>, Chain(s, T, w)
  PROVE  /\ Link(s[1], Below(s, 1, w), T, w) /\ Below(s, 0, w) = s[1]
         /\ Chain(Tail(s), T, w) /\ Below(Tail(s), 0, w) = Below(s, 1, w)
<1> DEFINE t == Tail(s)
           n == Len(s)
<1>1. n \in Nat \ {0} /\ Len(t) = n - 1 /\ \A i \in 1 .. n - 1 : t[i] = s[i + 1]
  BY Popped
<1> HIDE DEF t
<1>2. Link(s[1], Below(s, 1, w), T, w)
  <2>1. 1 \in 1 .. n
    BY <1>1
  <2> QED BY <2>1 DEF Chain
<1>3. \A i \in 0 .. n - 1 : Below(t, i, w) = Below(s, i + 1, w)
  <2> TAKE i \in 0 .. n - 1
  <2>1. i < n - 1 => i + 1 \in 1 .. n - 1 /\ t[i + 1] = s[(i + 1) + 1]
    BY <1>1
  <2> QED BY <1>1, <2>1 DEF Below
<1>4. ASSUME NEW i \in 1 .. n - 1 PROVE Link(t[i], Below(t, i, w), T, w)
  <2>1. i + 1 \in 1 .. n /\ i \in 0 .. n - 1 /\ t[i] = s[i + 1]
    BY <1>1
  <2>2. Link(s[i + 1], Below(s, i + 1, w), T, w)
    BY <2>1 DEF Chain
  <2> QED BY <1>3, <2>1, <2>2
<1>5. Chain(t, T, w)
  BY <1>1, <1>4 DEF Chain
<1>6. Below(t, 0, w) = Below(s, 1, w)
  <2>1. 0 \in 0 .. n - 1 /\ 0 + 1 = 1
    BY <1>1
  <2> QED BY <1>3, <2>1
<1>7. Below(s, 0, w) = s[1]
  BY <1>1 DEF Below
<1> QED BY <1>2, <1>5, <1>6, <1>7 DEF t

\* ... and its last element changes as far as the link to the one below allows.
LEMMA ChainReplaced ==
  ASSUME NEW T, NEW w, NEW s, IsSeq(s), s # <<>>, Chain(s, T, w),
         NEW f, Link(f, Below(s, 1, w), T, w)
  PROVE  Chain([s EXCEPT ![1] = f], T, w) /\ Below([s EXCEPT ![1] = f], 0, w) = f
<1> DEFINE t == [s EXCEPT ![1] = f]
           n == Len(s)
<1>1. n \in Nat \ {0} /\ Len(t) = n /\ t[1] = f /\ \A i \in 2 .. n : t[i] = s[i]
  BY Replaced
<1> HIDE DEF t
<1>2. Below(t, 0, w) = f
  BY <1>1 DEF Below
<1>3. \A i \in 1 .. n : Below(t, i, w) = Below(s, i, w)
  <2> TAKE i \in 1 .. n
  <2>1. i < n => i + 1 \in 2 .. n /\ t[i + 1] = s[i + 1]
    BY <1>1
  <2> QED BY <1>1, <2>1 DEF Below
<1>4. ASSUME NEW i \in 1 .. n PROVE Link(t[i], Below(t, i, w), T, w)
  <2>1. CASE i = 1
    BY <1>1, <1>3, <2>1
  <2>2. CASE i # 1
    <3>1. t[i] = s[i]
      BY <1>1, <2>2
    <3>2. Link(s[i], Below(s, i, w), T, w)
      BY DEF Chain
    <3> QED BY <1>3, <3>1, <3>2
  <2> QED BY <2>1, <2>2
<1>5. Chain(t, T, w)
  BY <1>1, <1>4 DEF Chain
<1> QED BY <1>2, <1>5 DEF t

\* Another world for the same, in which more is done.
Further(v, w) == v.opts = w.opts /\ v.root = w.root /\ v.due = w.due /\ w.done \subseteq v.done

\* There a chain is one, too.
LEMMA ChainFurther ==
  ASSUME NEW T, NEW w, NEW v, Further(v, w), NEW s, Chain(s, T, w)
  PROVE  Chain(s, T, v) /\ \A i : Below(s, i, v) = Below(s, i, w)
<1>1. \A i : Below(s, i, v) = Below(s, i, w)
  BY DEF Below, Base, Further
<1>2. \A f, base : Loop(f, base, w) => Loop(f, base, v)
  BY DEF Loop, IsDue, Further
<1>3. \A f, b : Link(f, b, T, w) => Link(f, b, T, v)
  BY <1>2 DEF Link, Further
<1> QED BY <1>1, <1>3 DEF Chain

\* What an object that is due shows is due, ...
LEMMA DueMembers ==
  ASSUME NEW T \in SUBSET Types, Orderly(T), NEW w, IsWorld(w, T), NEW t \in T \cap w.due, IsObject(t)
  PROVE  \A p \in Members[t] : IsDue(p.field.type, w)
<1>1. \A p \in Members[t] : p.field.type \in MemberTypes(t) \/ IsLeaf(p.field.type)
  BY DEF Orderly
<1>2. MemberTypes(t) \subseteq w.due
  BY DEF IsWorld, IsClosed
<1> QED BY <1>1, <1>2 DEF IsDue

\* ... and so is what a struct in it shows.
LEMMA StructMembers ==
  ASSUME NEW T \in SUBSET Types, Orderly(T), NEW t \in T, IsObject(t),
         NEW g \in Range(Shape[t].fields), ~Hidden(g), Flattens(g)
  PROVE  /\ \A q \in Members[Deref(g.type)] : \E p \in Members[t] : p.field = q.field
         /\ \A p \in Shown(g, Members) : \E q \in Members[Deref(g.type)] : p.field = q.field
<1>1. Members[t] = UNION {Shown(f, Members) : f \in {h \in Range(Shape[t].fields) : IsVisible(h)}}
  BY MembersOf DEF FromFields
<1>2. IsVisible(g)
  BY OrderlyFields
<1>3. Shown(g, Members) \subseteq Members[t]
  BY <1>1, <1>2
<1>4. Shown(g, Members) = {[field |-> q.field, depth |-> q.depth + 1] : q \in Members[Deref(g.type)]}
  BY DEF Shown, Deeper
<1>5. ASSUME NEW q \in Members[Deref(g.type)] PROVE \E p \in Members[t] : p.field = q.field
  <2> DEFINE p == [field |-> q.field, depth |-> q.depth + 1]
  <2>1. p \in Members[t] /\ p.field = q.field
    BY <1>3, <1>4
  <2> HIDE DEF p
  <2> QED BY <2>1
<1> QED BY <1>4, <1>5

\* A loop that begins.
LEMMA LoopBegins ==
  ASSUME NEW T \in SUBSET Types, Orderly(T), NEW w, NEW t \in T, IsObject(t), NEW role,
         NEW base, base = [n \in DOMAIN base |-> base[n]],
         \A p \in Members[t] : IsDue(p.field.type, w)
  PROVE  Loop(Frame(t, role, base), base, w)
<1> DEFINE f == Frame(t, role, base)
<1>1. f.type = t /\ f.at = 1 /\ f.props = base
  BY DEF Frame
<1> HIDE DEF f
<1>2. Seen(t, 1) = {}
  BY SeenSoFar
<1>3. Merged(base, base, t, {}, w.opts)
  BY MergedFirst
<1> QED BY <1>1, <1>2, <1>3 DEF Loop, f

\* A wrapper asks for its element, ...
LEMMA WrapLink ==
  ASSUME NEW T \in SUBSET Types, Orderly(T), NEW w, IsWorld(w, T), NEW t \in T, IsWrapper(t), IsDue(t, w),
         NEW b, Wants(b), t = Wanted(b)
  PROVE  LET f == Frame(t, "wrap", EmptyMap)
         IN  /\ Link(f, b, T, w) /\ Wants(f) /\ Wanted(f) = Shape[t].elem
             /\ Shape[t].elem \in T /\ IsDue(Shape[t].elem, w)
<1> DEFINE f == Frame(t, "wrap", EmptyMap)
<1>1. f.type = t /\ f.role = "wrap"
  BY DEF Frame
<1> HIDE DEF f
<1>2. t \in w.due
  <2>1. ~IsLeaf(t)
    BY DEF IsLeaf, IsWrapper
  <2> QED BY <2>1 DEF IsDue
<1>3. MemberTypes(t) = {Shape[t].elem} /\ References(t) = {Shape[t].elem}
  BY DEF MemberTypes, References
<1>4. Shape[t].elem \in T /\ Shape[t].elem \in w.due
  <2>1. References(t) \subseteq T
    BY DEF Orderly
  <2>2. MemberTypes(t) \subseteq w.due
    BY <1>2 DEF IsWorld, IsClosed
  <2> QED BY <1>3, <2>1, <2>2
<1> QED BY <1>1, <1>2, <1>4 DEF f, Link, Wants, Wanted, IsDue

\* ... an object describes itself, ...
LEMMA ObjectLink ==
  ASSUME NEW T \in SUBSET Types, Orderly(T), NEW w, IsWorld(w, T), NEW t \in T, IsObject(t), IsDue(t, w),
         NEW b, Wants(b), t = Wanted(b), NEW role \in {"inline", "component"}, role = "component" <=> IsNamed(t)
  PROVE  Link(Frame(t, role, EmptyMap), b, T, w)
<1> DEFINE f == Frame(t, role, EmptyMap)
<1>1. f.type = t /\ f.role = role
  BY DEF Frame
<1>2. t \in w.due
  <2>1. ~IsLeaf(t)
    BY DEF IsLeaf, IsObject
  <2> QED BY <2>1 DEF IsDue
<1>3. EmptyMap = [n \in DOMAIN EmptyMap |-> EmptyMap[n]]
  BY DEF EmptyMap
<1>4. \A p \in Members[t] : IsDue(p.field.type, w)
  BY <1>2, DueMembers
<1>5. Loop(f, EmptyMap, w)
  BY <1>3, <1>4, LoopBegins
<1> HIDE DEF f
<1> QED BY <1>1, <1>2, <1>5 DEF f, Link

\* ... and an embedded struct is described in the object below.
LEMMA LinkedLoop ==
  ASSUME NEW T \in SUBSET Types, Orderly(T), NEW w, NEW f, NEW b, Link(f, b, T, w), Loops(f)
  PROVE  /\ f.type \in T /\ IsObject(f.type) /\ (AtVisible(f) => FieldAt(f) \in Range(Shape[f.type].fields))
         /\ \E base : Loop(f, base, w)
         /\ f.props = [n \in DOMAIN f.props |-> f.props[n]]
         /\ \A p \in Members[f.type] : IsDue(p.field.type, w)
<1>1. f.type \in T /\ IsObject(f.type)
  BY DEF Link, Loops
<1>2. PICK base : Loop(f, base, w)
  BY DEF Link, Loops
<1>3. f.props = [n \in DOMAIN f.props |-> f.props[n]]
  BY <1>2 DEF Loop, Merged
<1>4. AtVisible(f) => FieldAt(f) \in Range(Shape[f.type].fields)
  BY <1>1, RangeOfFields DEF AtVisible, FieldAt
<1> QED BY <1>1, <1>2, <1>3, <1>4 DEF Loop

\* A struct that is embedded is linked to the loop that embeds it.
LEMMA StructLink ==
  ASSUME NEW T \in SUBSET Types, Orderly(T), NEW w, NEW b, NEW c, Link(b, c, T, w), Embeds(b)
  PROVE  Link(Frame(Deref(FieldAt(b).type), "embed", b.props), b, T, w)
<1> DEFINE g == FieldAt(b)
           u == Deref(g.type)
           f == Frame(u, "embed", b.props)
<1>1. Loops(b) /\ AtVisible(b) /\ ~Hidden(g) /\ Flattens(g)
  BY DEF Embeds, AtVisible
<1>2. /\ b.type \in T /\ IsObject(b.type) /\ g \in Range(Shape[b.type].fields)
      /\ b.props = [n \in DOMAIN b.props |-> b.props[n]]
      /\ \A p \in Members[b.type] : IsDue(p.field.type, w)
  BY <1>1, LinkedLoop
<1> HIDE DEF g
<1>3. u \in T /\ IsObject(u)
  BY <1>1, <1>2, OrderlyFields
<1>4. \A q \in Members[u] : \E p \in Members[b.type] : p.field = q.field
  BY <1>1, <1>2, StructMembers
<1> HIDE DEF u
<1>5. \A q \in Members[u] : IsDue(q.field.type, w)
  BY <1>2, <1>4
<1>6. PICK base : base = b.props
  OBVIOUS
<1>7. Loop(Frame(u, "embed", base), base, w)
  BY <1>2, <1>3, <1>5, <1>6, LoopBegins
<1>8. Loop(f, b.props, w)
  BY <1>6, <1>7
<1>9. f.type = u /\ f.role = "embed"
  BY DEF Frame
<1> HIDE DEF f
<1> QED BY <1>3, <1>8, <1>9 DEF Link, f, g, u

\* A loop that moves on is linked as it was.
MovesTo(b, g, props) == g.type = b.type /\ g.role = b.role /\ g.at = b.at + 1 /\ g.props = props

\* What links an activation to the one below is its type, its role and its
\* loop.
LEMMA LinkMoves ==
  ASSUME NEW T, NEW w, NEW b, NEW c, Link(b, c, T, w), Loops(b), NEW g, g.type = b.type, g.role = b.role,
         \A base : Loop(b, base, w) => Loop(g, base, w)
  PROVE  Link(g, c, T, w)
BY DEF Link, Loops

\* Past a field that is left out, ...
LEMMA HiddenMoves ==
  ASSUME NEW T \in SUBSET Types, Orderly(T), NEW w, NEW b, NEW c, Link(b, c, T, w), Loops(b),
         b.at \in 1 .. Len(Shape[b.type].fields), Hidden(FieldAt(b)), NEW g, MovesTo(b, g, b.props)
  PROVE  Link(g, c, T, w)
<1>1. b.type \in T /\ IsObject(b.type)
  BY LinkedLoop
<1>2. Seen(b.type, b.at + 1) = Seen(b.type, b.at)
  BY <1>1, SeenSoFar DEF FieldAt
<1>3. \A base : Loop(b, base, w) => Loop(g, base, w)
  BY <1>2 DEF Loop, MovesTo
<1> QED BY <1>3, LinkMoves DEF MovesTo

\* ... past one that has its schema, ...
LEMMA FieldMoves ==
  ASSUME NEW T \in SUBSET Types, Orderly(T), NEW w, NEW b, NEW c, Link(b, c, T, w), Loops(b), Wants(b),
         Wanted(b) \in w.done, NEW g,
         MovesTo(b, g, Put(b.props, PropertyName(b.type, FieldAt(b), w.opts), Schema[w.opts][Wanted(b)]))
  PROVE  Link(g, c, T, w)
<1> DEFINE f == FieldAt(b)
           t == b.type
           n == b.at
           more == Put(b.props, PropertyName(t, f, w.opts), Schema[w.opts][f.type])
<1>1. t \in T /\ IsObject(t)
  BY LinkedLoop
<1>2. n \in 1 .. Len(Shape[t].fields) /\ ~Hidden(f) /\ ~Flattens(f) /\ Wanted(b) = f.type
  BY DEF Wants, Wanted, AtVisible, Loops
<1>3. f = Shape[t].fields[n]
  BY DEF FieldAt
<1>4. Shown(f, Members) = {[field |-> f, depth |-> 0]} /\ Seen(t, n + 1) = Seen(t, n) \cup Shown(f, Members)
  <2> HIDE DEF f, t, n
  <2>1. Shown(f, Members) = {[field |-> f, depth |-> 0]}
    BY <1>2 DEF Shown
  <2>2. ~Hidden(Shape[t].fields[n])
    BY <1>2, <1>3
  <2>3. Seen(t, n + 1) = Seen(t, n) \cup Shown(Shape[t].fields[n], Members)
    BY <1>1, <1>2, <2>2, SeenSoFar
  <2> QED BY <1>3, <2>1, <2>3
<1>5. \A p \in Seen(t, n + 1) : p \in Seen(t, n) \/ p.field = f
  BY <1>4
<1>6. g.type = t /\ g.role = b.role /\ g.at = n + 1 /\ g.props = more
  BY <1>2 DEF MovesTo
<1>7. ASSUME NEW base, Loop(b, base, w) PROVE Loop(g, base, w)
  <2>1. Merged(b.props, base, t, Seen(t, n), w.opts)
    BY <1>7 DEF Loop
  <2> HIDE DEF f
  <2>2. PICK props, opts : props = b.props /\ opts = w.opts
    OBVIOUS
  <2>3. Merged(props, base, t, Seen(t, n), opts)
    BY <2>1, <2>2
  <2>4. Merged(Put(props, PropertyName(t, f, opts), Schema[opts][f.type]), base, t, Seen(t, n + 1), opts)
    BY <1>1, <1>2, <1>3, <2>3, MergedField
  <2>5. Merged(g.props, base, t, Seen(t, n + 1), w.opts)
    BY <1>6, <2>2, <2>4
  <2>6. \A p \in Seen(t, n + 1) : p.field.type \in w.done
    BY <1>2, <1>5, <1>7 DEF Loop
  <2> HIDE DEF more
  <2> QED BY <1>6, <1>7, <2>5, <2>6 DEF Loop
<1> HIDE DEF t, n, more, f
<1> QED BY <1>6, <1>7, LinkMoves DEF t

\* ... and past an embedded struct that has been seen completely.
LEMMA StructMoves ==
  ASSUME NEW T \in SUBSET Types, Orderly(T), NEW w, NEW b, NEW c, Link(b, c, T, w),
         NEW f, f.role = "embed", Link(f, b, T, w), f.at = Len(Shape[f.type].fields) + 1,
         NEW g, MovesTo(b, g, f.props)
  PROVE  Link(g, c, T, w)
<1> DEFINE h == FieldAt(b)
           t == b.type
           n == b.at
           u == f.type
<1>1. Embeds(b) /\ u = Deref(h.type) /\ Loop(f, b.props, w) /\ u \in T /\ IsObject(u)
  BY DEF Link
<1>2. Loops(b) /\ n \in 1 .. Len(Shape[t].fields) /\ ~Hidden(h) /\ Flattens(h)
  BY <1>1 DEF Embeds, AtVisible
<1>3. t \in T /\ IsObject(t) /\ h = Shape[t].fields[n] /\ h \in Range(Shape[t].fields)
  BY <1>1, <1>2, LinkedLoop DEF FieldAt, Embeds
<1>4. Seen(u, f.at) = Members[u]
  BY <1>1, SeenSoFar
<1>5. Seen(t, n + 1) = Seen(t, n) \cup Shown(h, Members)
  BY <1>2, <1>3, SeenSoFar
<1>6. \A p \in Shown(h, Members) : \E q \in Members[u] : p.field = q.field
  <2> HIDE DEF h, t, n, u
  <2> QED BY <1>1, <1>2, <1>3, StructMembers
<1>7. \A p \in Shown(h, Members) : p.field.type \in w.done
  BY <1>1, <1>4, <1>6 DEF Loop
<1>8. Merged(f.props, b.props, u, Members[u], w.opts)
  BY <1>1, <1>4 DEF Loop
<1>9. g.type = t /\ g.role = b.role /\ g.at = n + 1 /\ g.props = f.props
  BY DEF MovesTo
<1>10. ASSUME NEW base, Loop(b, base, w) PROVE Loop(g, base, w)
  <2>1. Merged(b.props, base, t, Seen(t, n), w.opts) /\ \A p \in Seen(t, n) : p.field.type \in w.done
    BY <1>10 DEF Loop
  <2> HIDE DEF h, u
  <2>2. PICK props, opts, more : props = b.props /\ opts = w.opts /\ more = f.props
    OBVIOUS
  <2>3. Merged(props, base, t, Seen(t, n), opts) /\ Merged(more, props, u, Members[u], opts)
    BY <1>8, <2>1, <2>2
  <2>4. Merged(more, base, t, Seen(t, n + 1), opts)
    BY <1>1, <1>2, <1>3, <2>3, MergedStruct
  <2>5. Merged(g.props, base, t, Seen(t, n + 1), w.opts)
    BY <1>9, <2>2, <2>4
  <2>6. \A p \in Seen(t, n + 1) : p.field.type \in w.done
    BY <1>5, <1>7, <2>1
  <2> QED BY <1>9, <1>10, <2>5, <2>6 DEF Loop
<1> HIDE DEF t, n, u, h
<1> QED BY <1>2, <1>9, <1>10, LinkMoves DEF t

\* An activation that moves on moves to its next field.
LEMMA AdvancesTo ==
  ASSUME NEW f, Activation(f), NEW props
  PROVE  MovesTo(f, Advance(f, props), props)
<1>1. f = [type |-> f.type, role |-> f.role, at |-> f.at, props |-> f.props]
  BY DEF Activation
<1>2. f \in [type : {f.type}, role : {f.role}, at : {f.at}, props : {f.props}]
  BY <1>1
<1> QED BY <1>2 DEF Advance, MovesTo

-----------------------------------------------------------------------------
(* The component schemas, and what is done                                 *)

\* An activation is at work on the component.
OpenIn(s, k) == \E i \in 1 .. Len(s) : Opens(s[i], k)

\* Components of earlier operations are closed, and those of this operation
\* are either open or described.
TableOf(s, m, doc, w) ==
  /\ doc \subseteq DOMAIN m
  /\ \A k \in doc : ~OpenIn(s, k)
  /\ \A k \in DOMAIN m \ doc : \E t \in w.due :
       /\ IsNamed(t) /\ Shape[t].key = k
       /\ OpenIn(s, k) \/ m[k] = Described(t, w.opts, Schema[w.opts])

\* What is done has its component and is closed but for the open ones; and of
\* the types with a component, those are done that are not open.
DoneOf(s, m, T, w) ==
  /\ w.done \subseteq T
  /\ \A u \in w.done : IsNamed(u) => Shape[u].key \in DOMAIN m
  /\ \A u \in w.done : (IsNamed(u) /\ OpenIn(s, Shape[u].key)) \/ MemberTypes(u) \subseteq w.done
  /\ \A u \in T : IsNamed(u) /\ Shape[u].key \in DOMAIN m => OpenIn(s, Shape[u].key) \/ u \in w.done

Sound(s, m, doc, T, w) == Chain(s, T, w) /\ TableOf(s, m, doc, w) /\ DoneOf(s, m, T, w)

\* What control says has to do with the activation that waits for it.
Asked(c, s, T, w) ==
  LET b == Below(s, 0, w)
  IN  /\ c.do = "call" => /\ Wants(b) /\ c.type = Wanted(b)
                          /\ c.type \in T /\ IsDue(c.type, w)
      /\ c.do = "return" => Wants(b) /\ Wanted(b) \in w.done /\ c.schema = Schema[w.opts][Wanted(b)]

Due == UNION {Parts[r] : r \in {op.body, op.response, ProblemDetails} \cap Types}

World(Q) == [opts |-> op.marshal, root |-> Roots(op)[Len(described) + 1], due |-> Due, done |-> Q]

\* What has been described so far is what had to be.
Answered(Q) ==
  \A i \in 1 .. Len(described) :
    /\ described[i] = SchemaFor(Roots(op)[i], op.marshal)
    /\ Roots(op)[i] \in Types => Roots(op)[i] \in Q

KeptWith(T, Q) ==
  /\ Sound(stack, schemas, Documented, T, World(Q))
  /\ Asked(control, stack, T, World(Q))
  /\ Answered(Q)
  /\ Working \/ DOMAIN schemas \subseteq Documented

\* The inductive invariant.
KInv(T) == control = Overflow \/ \E Q \in SUBSET T : KeptWith(T, Q)

\* What is open after a push, a pop, and when one moves on.
LEMMA OpenPushed ==
  ASSUME NEW s, IsSeq(s), NEW f
  PROVE  \A k : OpenIn(<<f>> \o s, k) <=> Opens(f, k) \/ OpenIn(s, k)
<1> DEFINE t == <<f>> \o s
           n == Len(s)
<1>1. n \in Nat /\ Len(t) = n + 1 /\ t[1] = f /\ \A i \in 1 .. n : t[i + 1] = s[i]
  BY Pushed DEF IsSeq
<1> HIDE DEF t
<1> TAKE k
<1>2. ASSUME OpenIn(t, k) PROVE Opens(f, k) \/ OpenIn(s, k)
  <2>1. PICK i \in 1 .. n + 1 : Opens(t[i], k)
    BY <1>1, <1>2 DEF OpenIn
  <2>2. i # 1 => i - 1 \in 1 .. n /\ (i - 1) + 1 = i
    BY <1>1
  <2> QED BY <1>1, <2>1, <2>2 DEF OpenIn
<1>3. ASSUME Opens(f, k) PROVE OpenIn(t, k)
  <2>1. 1 \in 1 .. Len(t)
    BY <1>1
  <2> QED BY <1>1, <1>3, <2>1 DEF OpenIn
<1>4. ASSUME OpenIn(s, k) PROVE OpenIn(t, k)
  <2>1. PICK i \in 1 .. n : Opens(s[i], k)
    BY <1>4 DEF OpenIn
  <2>2. i + 1 \in 1 .. Len(t) /\ Opens(t[i + 1], k)
    BY <1>1, <2>1
  <2> QED BY <2>2 DEF OpenIn
<1> QED BY <1>2, <1>3, <1>4 DEF t

\* What was open is open after a pop, unless it was the innermost one.
LEMMA OpenPopped ==
  ASSUME NEW s, IsSeq(s), s # <<>>
  PROVE  \A k : OpenIn(s, k) <=> Opens(s[1], k) \/ OpenIn(Tail(s), k)
<1> DEFINE t == Tail(s)
           n == Len(s)
<1>1. n \in Nat \ {0} /\ Len(t) = n - 1 /\ \A i \in 1 .. n - 1 : t[i] = s[i + 1]
  BY Popped
<1> HIDE DEF t
<1> TAKE k
<1>2. ASSUME OpenIn(s, k) PROVE Opens(s[1], k) \/ OpenIn(t, k)
  <2>1. PICK i \in 1 .. n : Opens(s[i], k)
    BY <1>2 DEF OpenIn
  <2>2. i # 1 => i - 1 \in 1 .. n - 1 /\ (i - 1) + 1 = i
    BY <1>1
  <2>3. i # 1 => Opens(t[i - 1], k)
    BY <1>1, <2>1, <2>2
  <2> QED BY <1>1, <2>1, <2>2, <2>3 DEF OpenIn
<1>3. ASSUME Opens(s[1], k) PROVE OpenIn(s, k)
  <2>1. 1 \in 1 .. n
    BY <1>1
  <2> QED BY <1>3, <2>1 DEF OpenIn
<1>4. ASSUME OpenIn(t, k) PROVE OpenIn(s, k)
  <2>1. PICK i \in 1 .. n - 1 : Opens(t[i], k)
    BY <1>1, <1>4 DEF OpenIn
  <2>2. i + 1 \in 1 .. n /\ Opens(s[i + 1], k)
    BY <1>1, <2>1
  <2> QED BY <2>2 DEF OpenIn
<1> QED BY <1>2, <1>3, <1>4 DEF t

\* An activation that moves on keeps its component open.
LEMMA OpenReplaced ==
  ASSUME NEW s, IsSeq(s), s # <<>>, NEW f, f.type = s[1].type, f.role = s[1].role
  PROVE  \A k : OpenIn([s EXCEPT ![1] = f], k) <=> OpenIn(s, k)
<1> DEFINE t == [s EXCEPT ![1] = f]
           n == Len(s)
<1>1. n \in Nat \ {0} /\ Len(t) = n /\ t[1] = f /\ \A i \in 2 .. n : t[i] = s[i]
  BY Replaced
<1> HIDE DEF t
<1>2. \A i \in 1 .. n : i = 1 \/ i \in 2 .. n
  BY <1>1
<1>3. \A k : \A i \in 1 .. n : Opens(t[i], k) <=> Opens(s[i], k)
  BY <1>1, <1>2 DEF Opens
<1> QED BY <1>1, <1>3 DEF OpenIn, t

\* While nothing opens or closes, neither the table nor what is done changes.
LEMMA SameOpen ==
  ASSUME NEW T, NEW w, NEW m, NEW doc, NEW s, NEW t, \A k : OpenIn(t, k) <=> OpenIn(s, k),
         TableOf(s, m, doc, w), DoneOf(s, m, T, w)
  PROVE  TableOf(t, m, doc, w) /\ DoneOf(t, m, T, w)
<1>1. TableOf(t, m, doc, w)
  BY DEF TableOf
<1>2. DoneOf(t, m, T, w)
  <2>1. \A u \in w.done : (IsNamed(u) /\ OpenIn(t, Shape[u].key)) \/ MemberTypes(u) \subseteq w.done
    BY DEF DoneOf
  <2>2. \A u \in T : IsNamed(u) /\ Shape[u].key \in DOMAIN m => OpenIn(t, Shape[u].key) \/ u \in w.done
    BY DEF DoneOf
  <2> QED BY <2>1, <2>2 DEF DoneOf
<1> QED BY <1>1, <1>2

\* A world in which one type more is done.
Adds(v, w, t) == v.opts = w.opts /\ v.root = w.root /\ v.due = w.due /\ v.done = w.done \cup {t}

\* A type is done when its component is there and its members are done, or
\* still being worked on.
LEMMA DoneMore ==
  ASSUME NEW T, NEW w, NEW v, NEW m, NEW doc, NEW s, NEW t \in T, Adds(v, w, t),
         Sound(s, m, doc, T, w),
         IsNamed(t) => Shape[t].key \in DOMAIN m,
         (IsNamed(t) /\ OpenIn(s, Shape[t].key)) \/ MemberTypes(t) \subseteq w.done \cup {t}
  PROVE  Sound(s, m, doc, T, v) /\ \A i : Below(s, i, v) = Below(s, i, w)
<1>1. Further(v, w)
  BY DEF Further, Adds
<1>2. Chain(s, T, v) /\ \A i : Below(s, i, v) = Below(s, i, w)
  BY <1>1, ChainFurther DEF Sound
<1>3. TableOf(s, m, doc, v)
  BY DEF TableOf, Adds, Sound
<1>4. v.done = w.done \cup {t}
  BY DEF Adds
<1>5. DoneOf(s, m, T, w)
  BY DEF Sound
<1>6. DoneOf(s, m, T, v)
  <2>1. v.done \subseteq T
    BY <1>4, <1>5 DEF DoneOf
  <2>2. \A u \in v.done : IsNamed(u) => Shape[u].key \in DOMAIN m
    BY <1>4, <1>5 DEF DoneOf
  <2>3. \A u \in v.done : (IsNamed(u) /\ OpenIn(s, Shape[u].key)) \/ MemberTypes(u) \subseteq v.done
    <3> TAKE u \in v.done
    <3>1. CASE u = t
      BY <1>4, <3>1
    <3>2. CASE u \in w.done
      BY <1>4, <1>5, <3>2 DEF DoneOf
    <3> QED BY <1>4, <3>1, <3>2
  <2>4. \A u \in T : IsNamed(u) /\ Shape[u].key \in DOMAIN m => OpenIn(s, Shape[u].key) \/ u \in v.done
    BY <1>4, <1>5 DEF DoneOf
  <2> QED BY <2>1, <2>2, <2>3, <2>4 DEF DoneOf
<1> QED BY <1>2, <1>3, <1>6 DEF Sound

\* A placeholder comes with the activation that opens it.
LEMMA EnterTable ==
  ASSUME NEW T \in SUBSET Types, NEW w, NEW s, IsSeq(s), NEW m, NEW doc, Sound(s, m, doc, T, w),
         NEW t \in T, t \in w.due, IsNamed(t), Shape[t].key \notin DOMAIN m,
         NEW f, f.role = "component", f.type = t, Link(f, Below(s, 0, w), T, w)
  PROVE  Sound(<<f>> \o s, Put(m, Shape[t].key, Placeholder), doc, T, w)
<1> DEFINE x == Shape[t].key
           z == <<f>> \o s
           p == Put(m, x, Placeholder)
<1>1. DOMAIN p = DOMAIN m \cup {x} /\ \A k \in DOMAIN m : p[k] = m[k]
  BY DEF Put
<1>2. \A k : OpenIn(z, k) <=> k = x \/ OpenIn(s, k)
  <2>1. \A k : Opens(f, k) <=> k = x
    BY DEF Opens
  <2>2. \A k : OpenIn(z, k) <=> Opens(f, k) \/ OpenIn(s, k)
    BY OpenPushed
  <2> HIDE DEF z, x
  <2> QED BY <2>1, <2>2
<1>3. Chain(z, T, w)
  BY ChainPushed DEF Sound
<1> HIDE DEF z, p
<1>4. TableOf(s, m, doc, w) /\ DoneOf(s, m, T, w)
  BY DEF Sound
<1>5. TableOf(z, p, doc, w)
  <2>1. doc \subseteq DOMAIN p /\ \A k \in doc : k # x
    BY <1>1, <1>4 DEF TableOf
  <2>2. \A k \in doc : ~OpenIn(z, k)
    BY <1>2, <1>4, <2>1 DEF TableOf
  <2>3. \A k \in DOMAIN p \ doc : \E u \in w.due :
          /\ IsNamed(u) /\ Shape[u].key = k
          /\ OpenIn(z, k) \/ p[k] = Described(u, w.opts, Schema[w.opts])
    <3> TAKE k \in DOMAIN p \ doc
    <3>1. CASE k = x
      BY <1>2, <3>1
    <3>2. CASE k # x
      <4>1. k \in DOMAIN m \ doc /\ p[k] = m[k]
        BY <1>1, <3>2
      <4> QED BY <1>2, <1>4, <4>1 DEF TableOf
    <3> QED BY <3>1, <3>2
  <2> QED BY <2>1, <2>2, <2>3 DEF TableOf
<1>6. DoneOf(z, p, T, w)
  <2>1. w.done \subseteq T /\ \A u \in w.done : IsNamed(u) => Shape[u].key \in DOMAIN p
    BY <1>1, <1>4 DEF DoneOf
  <2>2. \A u \in w.done : (IsNamed(u) /\ OpenIn(z, Shape[u].key)) \/ MemberTypes(u) \subseteq w.done
    BY <1>2, <1>4 DEF DoneOf
  <2>3. \A u \in T : IsNamed(u) /\ Shape[u].key \in DOMAIN p => OpenIn(z, Shape[u].key) \/ u \in w.done
    BY <1>1, <1>2, <1>4 DEF DoneOf
  <2> QED BY <2>1, <2>2, <2>3 DEF DoneOf
<1> QED BY <1>3, <1>5, <1>6 DEF Sound, z, p

\* The activation that leaves has described its component.
LEMMA CompleteTable ==
  ASSUME NEW T \in SUBSET Types, Orderly(T), NEW w, NEW v, NEW s, IsSeq(s), s # <<>>, NEW m, NEW doc,
         Marked(s, m), Sound(s, m, doc, T, w),
         NEW t \in T, t \in w.due, IsNamed(t), Shape[t].key \in Keys, s[1].role = "component", s[1].type = t,
         MemberTypes(t) \subseteq w.done, Adds(v, w, t),
         NEW y, y = Described(t, w.opts, Schema[w.opts])
  PROVE  /\ Sound(Tail(s), Put(m, Shape[t].key, y), doc, T, v)
         /\ \A i : Below(Tail(s), i, v) = Below(Tail(s), i, w)
<1> DEFINE x == Shape[t].key
           z == Tail(s)
           p == Put(m, x, y)
<1>1. DOMAIN p = DOMAIN m \cup {x} /\ p[x] = y /\ \A k \in DOMAIN m : k # x => p[k] = m[k]
  BY DEF Put
<1>2. \A k : Opens(s[1], k) <=> k = x
  BY DEF Opens
<1>3. \A k : OpenIn(s, k) <=> k = x \/ OpenIn(z, k)
  <2>1. \A k : OpenIn(s, k) <=> Opens(s[1], k) \/ OpenIn(z, k)
    BY OpenPopped
  <2> HIDE DEF z, x
  <2> QED BY <1>2, <2>1
<1>4. x \in DOMAIN m /\ ~OpenIn(z, x)
  <2>1. Len(s) \in Nat \ {0} /\ Len(z) = Len(s) - 1 /\ \A i \in 1 .. Len(s) - 1 : z[i] = s[i + 1]
    BY Popped
  <2> HIDE DEF z
  <2>2. 1 \in 1 .. Len(s) /\ Opens(s[1], x)
    BY <1>2, <2>1
  <2>3. x \in DOMAIN m
    BY <2>2 DEF Marked
  <2>4. ASSUME NEW i \in 1 .. Len(z), Opens(z[i], x) PROVE FALSE
    <3>1. i + 1 \in 1 .. Len(s) /\ i + 1 # 1 /\ Opens(s[i + 1], x)
      BY <2>1, <2>4
    <3> QED BY <2>2, <3>1 DEF Marked
  <2> QED BY <2>3, <2>4 DEF OpenIn
<1>5. Further(v, w) /\ v.done = w.done \cup {t} /\ v.due = w.due /\ v.opts = w.opts
  BY DEF Further, Adds
<1>6. Chain(z, T, v) /\ \A i : Below(z, i, v) = Below(z, i, w)
  <2>1. Chain(z, T, w)
    BY ChainPopped DEF Sound
  <2> QED BY <1>5, <2>1, ChainFurther
<1>7. \A u \in T : IsNamed(u) /\ Shape[u].key = x => u = t
  BY DEF Orderly
<1> HIDE DEF z, p
<1>8. TableOf(s, m, doc, w) /\ DoneOf(s, m, T, w)
  BY DEF Sound
<1>9. TableOf(z, p, doc, v)
  <2>1. doc \subseteq DOMAIN p /\ \A k \in doc : ~OpenIn(z, k)
    BY <1>1, <1>3, <1>8 DEF TableOf
  <2>2. \A k \in DOMAIN p \ doc : \E u \in v.due :
          /\ IsNamed(u) /\ Shape[u].key = k
          /\ OpenIn(z, k) \/ p[k] = Described(u, v.opts, Schema[v.opts])
    <3> TAKE k \in DOMAIN p \ doc
    <3>1. CASE k = x
      BY <1>1, <1>5, <3>1
    <3>2. CASE k # x
      <4>1. k \in DOMAIN m \ doc /\ p[k] = m[k] /\ (OpenIn(s, k) <=> OpenIn(z, k))
        BY <1>1, <1>3, <3>2
      <4>2. PICK u \in w.due : /\ IsNamed(u) /\ Shape[u].key = k
                               /\ OpenIn(s, k) \/ m[k] = Described(u, w.opts, Schema[w.opts])
        BY <1>8, <4>1 DEF TableOf
      <4>3. u \in v.due /\ (OpenIn(z, k) \/ p[k] = Described(u, v.opts, Schema[v.opts]))
        BY <1>5, <4>1, <4>2
      <4> QED BY <4>2, <4>3
    <3> QED BY <3>1, <3>2
  <2> QED BY <2>1, <2>2 DEF TableOf
<1>10. DoneOf(z, p, T, v)
  <2>1. v.done \subseteq T /\ \A u \in v.done : IsNamed(u) => Shape[u].key \in DOMAIN p
    BY <1>1, <1>5, <1>8 DEF DoneOf
  <2>2. \A u \in v.done : (IsNamed(u) /\ OpenIn(z, Shape[u].key)) \/ MemberTypes(u) \subseteq v.done
    <3> TAKE u \in v.done
    <3>1. CASE u = t
      BY <1>5, <3>1
    <3>2. CASE u # t
      <4>1. u \in w.done /\ u \in T
        BY <1>5, <1>8, <3>2 DEF DoneOf
      <4>2. (IsNamed(u) /\ OpenIn(s, Shape[u].key)) \/ MemberTypes(u) \subseteq w.done
        BY <1>8, <4>1 DEF DoneOf
      <4>3. IsNamed(u) => Shape[u].key # x
        BY <1>7, <3>2, <4>1
      <4> QED BY <1>3, <1>5, <4>2, <4>3
    <3> QED BY <3>1, <3>2
  <2>3. \A u \in T : IsNamed(u) /\ Shape[u].key \in DOMAIN p => OpenIn(z, Shape[u].key) \/ u \in v.done
    <3> TAKE u \in T
    <3> HAVE IsNamed(u) /\ Shape[u].key \in DOMAIN p
    <3>1. CASE Shape[u].key = x
      BY <1>5, <1>7, <3>1
    <3>2. CASE Shape[u].key # x
      <4>1. Shape[u].key \in DOMAIN m
        BY <1>1, <3>2
      <4>2. OpenIn(s, Shape[u].key) \/ u \in w.done
        BY <1>8, <4>1 DEF DoneOf
      <4> QED BY <1>3, <1>5, <3>2, <4>2
    <3> QED BY <3>1, <3>2
  <2> QED BY <2>1, <2>2, <2>3 DEF DoneOf
<1> QED BY <1>6, <1>9, <1>10 DEF Sound, z, p

\* The types in question: they are orderly, and all that is asked for.
Setting(T) ==
  /\ T \in SUBSET Types /\ Orderly(T) /\ ProblemDetails \in T
  /\ \A list \in OperationLists : \A i \in DOMAIN list : {list[i].body, list[i].response} \cap Types \subseteq T

\* The types that an operation asks for.
RootsOf(o) == {o.body, o.response, ProblemDetails} \cap Types

\* An operation asks for types in question only.
LEMMA SettingOf ==
  ASSUME NEW T, Setting(T), Place, NEW i \in 1 .. Len(operations)
  PROVE  operations[i] \in OperationInfo /\ RootsOf(operations[i]) \subseteq T
<1>1. operations \in OperationLists /\ operations \in Seq(OperationInfo)
  BY OpenAPIAssumption DEF Place
<1>2. DOMAIN operations = 1 .. Len(operations) /\ operations[i] \in OperationInfo
  BY <1>1
<1>3. {operations[i].body, operations[i].response} \cap Types \subseteq T
  BY <1>1, <1>2 DEF Setting
<1> QED BY <1>2, <1>3 DEF Setting, RootsOf

\* The parts of several types.
LEMMA PartsOfAll ==
  ASSUME NEW T, Setting(T), NEW R \in SUBSET T
  PROVE  /\ UNION {Parts[r] : r \in R} \subseteq T /\ IsClosed(UNION {Parts[r] : r \in R})
         /\ R \subseteq UNION {Parts[r] : r \in R}
         /\ \A us \in SUBSET T : R \subseteq us /\ IsClosed(us) => UNION {Parts[r] : r \in R} \subseteq us
<1>1. \A r \in R : /\ Parts[r] \subseteq T /\ r \in Parts[r] /\ IsClosed(Parts[r])
                   /\ \A us \in SUBSET T : r \in us /\ IsClosed(us) => Parts[r] \subseteq us
  BY PartsAre DEF Setting
<1>2. IsClosed(UNION {Parts[r] : r \in R})
  BY <1>1 DEF IsClosed
<1> QED BY <1>1, <1>2

\* The world of the operation in work.
LEMMA WorldType ==
  ASSUME NEW T, Setting(T), Place, next <= Len(operations), NEW Q \in SUBSET T
  PROVE  /\ IsWorld(World(Q), T) /\ op \in OperationInfo /\ RootsOf(op) \subseteq T
         /\ World(Q).opts = op.marshal /\ World(Q).root = Roots(op)[Len(described) + 1]
         /\ World(Q).due = Due /\ World(Q).done = Q
         /\ \A t \in RootsOf(op) : t \in Due
<1>1. next \in 1 .. Len(operations)
  <2>1. operations \in Seq(OperationInfo) /\ next \in 1 .. Len(operations) + 1
    BY OpenAPIAssumption DEF Place
  <2> QED BY <2>1
<1>2. op \in OperationInfo /\ RootsOf(op) \subseteq T
  BY <1>1, SettingOf DEF op
<1>3. op.marshal \in MarshalOptions
  BY <1>2 DEF OperationInfo
<1>4. Due = UNION {Parts[r] : r \in RootsOf(op)}
  BY DEF Due, RootsOf
<1>5. Due \subseteq T /\ IsClosed(Due) /\ RootsOf(op) \subseteq Due
  BY <1>2, <1>4, PartsOfAll
<1>6. /\ World(Q).opts = op.marshal /\ World(Q).root = Roots(op)[Len(described) + 1]
      /\ World(Q).due = Due /\ World(Q).done = Q
  BY DEF World
<1>7. IsWorld(World(Q), T)
  BY <1>3, <1>5, <1>6 DEF IsWorld
<1> QED BY <1>2, <1>5, <1>6, <1>7

\* The world stays while the walk is under way, and what is done with it.
LEMMA WalkKeeps ==
  ASSUME NEW T, NEW Q, NEW R, KeptWith(T, Q), UNCHANGED walk, Q \subseteq R,
         NEW v, v = World(R), Sound(stack', schemas', Documented, T, v), Asked(control', stack', T, v),
         control' \notin {Idle, Done}
  PROVE  KeptWith(T, R)'
<1>1. /\ operations' = operations /\ next' = next /\ described' = described
      /\ op' = op /\ Due' = Due /\ Documented' = Documented
  BY DEF walk, op, Due, Documented
<1>2. World(R)' = v
  BY <1>1 DEF World
<1>3. Sound(stack, schemas, Documented, T, World(R))'
  BY <1>1, <1>2
<1>4. Asked(control, stack, T, World(R))'
  BY <1>2
<1>5. Answered(R)'
  BY <1>1 DEF Answered, KeptWith
<1>6. Working'
  BY DEF Working
<1> QED BY <1>3, <1>4, <1>5, <1>6 DEF KeptWith

\* The walk in its world.
InWorld(T, Q, w) ==
  /\ w = World(Q) /\ IsWorld(w, T) /\ w.done = Q /\ w.opts = op.marshal
  /\ Sound(stack, schemas, Documented, T, w) /\ Asked(control, stack, T, w)
  /\ IsSeq(stack) /\ T \in SUBSET Types /\ Orderly(T)

\* A walk that is under way is in a world.
LEMMA WorldAt ==
  ASSUME NEW T, Setting(T), WInv, NEW Q \in SUBSET T, KeptWith(T, Q), control \notin {Idle, Done, Overflow}
  PROVE  \E w : InWorld(T, Q, w)
<1>1. Place /\ next <= Len(operations) /\ IsSeq(stack)
  BY DEF WInv, Place, Working, Activations, IsStack
<1>2. IsWorld(World(Q), T) /\ World(Q).opts = op.marshal /\ World(Q).done = Q
  BY <1>1, WorldType
<1>3. InWorld(T, Q, World(Q))
  <2> HIDE DEF World
  <2> QED BY <1>1, <1>2 DEF InWorld, KeptWith, Setting
<1> QED BY <1>3

\* An activation that fits goes on the stack; ...
LEMMA PushKeeps ==
  ASSUME NEW T, NEW Q \in SUBSET T, KeptWith(T, Q), NEW w, InWorld(T, Q, w), UNCHANGED walk, UNCHANGED schemas,
         NEW f, NEW do, Push(f, do), f.role # "component", Link(f, Below(stack, 0, w), T, w),
         Asked(do, <<f>> \o stack, T, w), do \notin {Idle, Done}
  PROVE  KInv(T)'
<1>1. CASE Len(stack) < MaxDepth
  <2> DEFINE s == <<f>> \o stack
  <2>1. stack' = s /\ control' = do /\ schemas' = schemas
    BY <1>1 DEF Push
  <2>2. Chain(s, T, w)
    BY ChainPushed DEF InWorld, Sound
  <2>3. \A k : OpenIn(s, k) <=> OpenIn(stack, k)
    <3>1. \A k : ~Opens(f, k)
      BY DEF Opens
    <3>2. \A k : OpenIn(s, k) <=> Opens(f, k) \/ OpenIn(stack, k)
      BY OpenPushed DEF InWorld
    <3> HIDE DEF s
    <3> QED BY <3>1, <3>2
  <2> HIDE DEF s
  <2>4. TableOf(s, schemas, Documented, w) /\ DoneOf(s, schemas, T, w)
    BY <2>3, SameOpen DEF InWorld, Sound
  <2>5. Sound(stack', schemas', Documented, T, w)
    BY <2>1, <2>2, <2>4 DEF Sound
  <2>6. Asked(control', stack', T, w)
    BY <2>1 DEF s
  <2>7. KeptWith(T, Q)'
    BY <2>1, <2>5, <2>6, WalkKeeps DEF InWorld
  <2> QED BY <2>7 DEF KInv
<1>2. CASE ~(Len(stack) < MaxDepth)
  BY <1>2 DEF Push, KInv
<1> QED BY <1>1, <1>2

\* ... the innermost one moves on; ...
LEMMA MoveKeeps ==
  ASSUME NEW T, NEW Q \in SUBSET T, KeptWith(T, Q), NEW w, InWorld(T, Q, w), UNCHANGED walk, UNCHANGED schemas,
         stack # <<>>, NEW g, g.type = stack[1].type, g.role = stack[1].role, Link(g, Below(stack, 1, w), T, w),
         stack' = [stack EXCEPT ![1] = g], control' = Fields
  PROVE  KInv(T)'
<1> DEFINE s == [stack EXCEPT ![1] = g]
<1>1. Chain(s, T, w)
  BY ChainReplaced DEF InWorld, Sound
<1>2. \A k : OpenIn(s, k) <=> OpenIn(stack, k)
  BY OpenReplaced DEF InWorld
<1>3. stack' = s /\ schemas' = schemas
  OBVIOUS
<1> HIDE DEF s
<1>4. TableOf(s, schemas, Documented, w) /\ DoneOf(s, schemas, T, w)
  BY <1>2, SameOpen DEF InWorld, Sound
<1>5. Sound(stack', schemas', Documented, T, w)
  BY <1>1, <1>3, <1>4 DEF Sound
<1>6. control'.do = "fields" /\ control' \notin {Idle, Done}
  BY Controls
<1>7. Asked(control', stack', T, w)
  BY <1>6 DEF Asked
<1>8. KeptWith(T, Q)'
  BY <1>5, <1>6, <1>7, WalkKeeps DEF InWorld
<1> QED BY <1>8 DEF KInv

\* ... or it returns a schema, and what it is of is done.
LEMMA ReturnKeeps ==
  ASSUME NEW T, NEW Q \in SUBSET T, KeptWith(T, Q), NEW w, InWorld(T, Q, w), UNCHANGED walk,
         NEW t \in T, NEW R, R = Q \cup {t}, NEW v, v = World(R), Sound(stack', schemas', Documented, T, v),
         Wants(Below(stack', 0, v)), t = Wanted(Below(stack', 0, v)), control' = Return(Schema[w.opts][t])
  PROVE  KInv(T)'
<1>1. R \in SUBSET T /\ Q \subseteq R /\ t \in R
  OBVIOUS
<1>2. v.opts = w.opts /\ v.done = R
  BY DEF InWorld, World
<1>3. control'.do = "return" /\ control'.schema = Schema[w.opts][t] /\ control' \notin {Idle, Done}
  BY Controls
<1>4. Asked(control', stack', T, v)
  BY <1>1, <1>2, <1>3 DEF Asked
<1>5. KeptWith(T, R)'
  BY <1>1, <1>3, <1>4, WalkKeeps
<1> QED BY <1>1, <1>5 DEF KInv

\* With one type more done it is in the next.
LEMMA WorldAdds ==
  ASSUME NEW T, NEW Q, NEW w, InWorld(T, Q, w), NEW t
  PROVE  Adds(World(Q \cup {t}), w, t)
BY DEF InWorld, World, Adds

-----------------------------------------------------------------------------
(* The steps of the walk                                                   *)

\* What is called for, by whom.
LEMMA CallAt ==
  ASSUME NEW T, NEW Q, NEW w, InWorld(T, Q, w), NEW t, Calling(t)
  PROVE  /\ t \in T /\ IsDue(t, w) /\ Wants(Below(stack, 0, w)) /\ t = Wanted(Below(stack, 0, w))
         /\ UNCHANGED walk
<1>1. control.do = "call" /\ control.type = t
  BY Controls DEF Calling
<1> QED BY <1>1 DEF InWorld, Asked, Calling

\* Nothing more belongs to a leaf.
LEMMA DescribeKeeps ==
  ASSUME NEW T, Setting(T), WInv, NEW Q \in SUBSET T, KeptWith(T, Q), NEW t \in Types, Describe(t)
  PROVE  KInv(T)'
<1>1. control \notin {Idle, Done, Overflow} /\ Calling(t)
  BY Called DEF Describe
<1>2. PICK w : InWorld(T, Q, w)
  BY <1>1, WorldAt
<1>3. /\ t \in T /\ Wants(Below(stack, 0, w)) /\ t = Wanted(Below(stack, 0, w)) /\ UNCHANGED walk
      /\ IsLeaf(t) /\ ~IsNamed(t) /\ ~IsWrapper(t)
      /\ stack' = stack /\ schemas' = schemas /\ control' = Return(LeafSchema(t, op.marshal))
  BY <1>1, <1>2, CallAt, ShapeOf DEF Describe
<1>4. PICK R, v : R = Q \cup {t} /\ v = World(R)
  OBVIOUS
<1>5. Adds(v, w, t)
  BY <1>2, <1>4, WorldAdds
<1>6. MemberTypes(t) = {}
  BY <1>3 DEF MemberTypes
<1>7. /\ Sound(stack, schemas, Documented, T, v)
      /\ \A i : Below(stack, i, v) = Below(stack, i, w)
  BY <1>2, <1>3, <1>5, <1>6, DoneMore DEF InWorld
<1>8. Schema[w.opts][t] = LeafSchema(t, op.marshal)
  <2>1. w.opts \in MarshalOptions /\ w.opts = op.marshal /\ Orderly(T) /\ T \in SUBSET Types
    BY <1>2 DEF InWorld, IsWorld
  <2>2. Schema[w.opts][t] = OneLevel(t, w.opts, Schema)
    BY <1>3, <2>1, SchemaOf
  <2> QED BY <1>3, <2>1, <2>2 DEF OneLevel
<1> QED BY <1>2, <1>3, <1>4, <1>7, <1>8, ReturnKeeps

\* A name that is known has been looked into, or that is under way.
LEMMA KnownKeeps ==
  ASSUME NEW T, Setting(T), WInv, NEW Q \in SUBSET T, KeptWith(T, Q), NEW t \in Types, Known(t)
  PROVE  KInv(T)'
<1>1. control \notin {Idle, Done, Overflow} /\ Calling(t)
  BY Called DEF Known
<1>2. PICK w : InWorld(T, Q, w)
  BY <1>1, WorldAt
<1>3. /\ t \in T /\ Wants(Below(stack, 0, w)) /\ t = Wanted(Below(stack, 0, w)) /\ UNCHANGED walk
      /\ IsNamed(t) /\ Shape[t].key \in DOMAIN schemas
      /\ stack' = stack /\ schemas' = schemas /\ control' = Return(Ref(Shape[t].key))
  BY <1>1, <1>2, CallAt DEF Known
<1>4. PICK R, v : R = Q \cup {t} /\ v = World(R)
  OBVIOUS
<1>5. Adds(v, w, t)
  BY <1>2, <1>4, WorldAdds
<1>6. (IsNamed(t) /\ OpenIn(stack, Shape[t].key)) \/ MemberTypes(t) \subseteq w.done \cup {t}
  <2>1. DoneOf(stack, schemas, T, w)
    BY <1>2 DEF InWorld, Sound
  <2>2. OpenIn(stack, Shape[t].key) \/ t \in w.done
    BY <1>3, <2>1 DEF DoneOf
  <2> QED BY <1>3, <2>1, <2>2 DEF DoneOf
<1>7. /\ Sound(stack, schemas, Documented, T, v)
      /\ \A i : Below(stack, i, v) = Below(stack, i, w)
  BY <1>2, <1>3, <1>5, <1>6, DoneMore DEF InWorld
<1>8. Schema[w.opts][t] = Ref(Shape[t].key)
  <2>1. w.opts \in MarshalOptions /\ Orderly(T) /\ T \in SUBSET Types
    BY <1>2 DEF InWorld, IsWorld
  <2> QED BY <1>3, <2>1, SchemaOf
<1> QED BY <1>2, <1>3, <1>4, <1>7, <1>8, ReturnKeeps

\* A wrapper asks for its element.
LEMMA WrapKeeps ==
  ASSUME NEW T, Setting(T), WInv, NEW Q \in SUBSET T, KeptWith(T, Q), NEW t \in Types, Wrap(t)
  PROVE  KInv(T)'
<1> DEFINE f == Frame(t, "wrap", EmptyMap)
           u == Shape[t].elem
<1>1. control \notin {Idle, Done, Overflow} /\ Calling(t)
  BY Called DEF Wrap
<1>2. PICK w : InWorld(T, Q, w)
  BY <1>1, WorldAt
<1>3. /\ t \in T /\ IsDue(t, w) /\ Wants(Below(stack, 0, w)) /\ t = Wanted(Below(stack, 0, w)) /\ UNCHANGED walk
      /\ IsWrapper(t) /\ Push(f, Call(u)) /\ UNCHANGED schemas
  BY <1>1, <1>2, CallAt DEF Wrap
<1>4. IsWorld(w, T) /\ Orderly(T) /\ T \in SUBSET Types /\ IsSeq(stack) /\ Chain(stack, T, w)
  BY <1>2 DEF InWorld, Sound
<1>5. Link(f, Below(stack, 0, w), T, w) /\ Wants(f) /\ Wanted(f) = u /\ u \in T /\ IsDue(u, w)
  BY <1>3, <1>4, WrapLink
<1>6. f.role # "component"
  BY DEF Frame
<1> HIDE DEF f, u
<1>7. Below(<<f>> \o stack, 0, w) = f
  BY <1>4, <1>5, ChainPushed
<1>8. Call(u).do = "call" /\ Call(u).type = u /\ Call(u) \notin {Idle, Done}
  BY Controls
<1>9. Asked(Call(u), <<f>> \o stack, T, w)
  BY <1>5, <1>7, <1>8 DEF Asked
<1>10. PICK do : do = Call(u)
  OBVIOUS
<1> QED BY <1>2, <1>3, <1>5, <1>6, <1>8, <1>9, <1>10, PushKeeps

\* An anonymous struct describes itself.
LEMMA NestKeeps ==
  ASSUME NEW T, Setting(T), WInv, NEW Q \in SUBSET T, KeptWith(T, Q), NEW t \in Types, Nest(t)
  PROVE  KInv(T)'
<1> DEFINE f == Frame(t, "inline", EmptyMap)
<1>1. control \notin {Idle, Done, Overflow} /\ Calling(t)
  BY Called DEF Nest
<1>2. PICK w : InWorld(T, Q, w)
  BY <1>1, WorldAt
<1>3. /\ t \in T /\ IsDue(t, w) /\ Wants(Below(stack, 0, w)) /\ t = Wanted(Below(stack, 0, w)) /\ UNCHANGED walk
      /\ IsObject(t) /\ ~IsNamed(t) /\ Push(f, Fields) /\ UNCHANGED schemas
  BY <1>1, <1>2, CallAt DEF Nest
<1>4. IsWorld(w, T) /\ Orderly(T) /\ T \in SUBSET Types
  BY <1>2 DEF InWorld
<1>5. Link(f, Below(stack, 0, w), T, w)
  BY <1>3, <1>4, ObjectLink
<1>6. f.role # "component"
  BY DEF Frame
<1> HIDE DEF f
<1>7. Fields.do = "fields" /\ Fields \notin {Idle, Done}
  BY Controls
<1>8. Asked(Fields, <<f>> \o stack, T, w)
  BY <1>7 DEF Asked
<1> QED BY <1>2, <1>3, <1>5, <1>6, <1>7, <1>8, PushKeeps

\* So does a named object, and its name is known from then on.
LEMMA EnterKeeps ==
  ASSUME NEW T, Setting(T), WInv, NEW Q \in SUBSET T, KeptWith(T, Q), NEW t \in Types, Enter(t)
  PROVE  KInv(T)'
<1> DEFINE f == Frame(t, "component", EmptyMap)
<1>1. control \notin {Idle, Done, Overflow} /\ Calling(t)
  BY Called DEF Enter
<1>2. PICK w : InWorld(T, Q, w)
  BY <1>1, WorldAt
<1>3. /\ t \in T /\ IsDue(t, w) /\ Wants(Below(stack, 0, w)) /\ t = Wanted(Below(stack, 0, w)) /\ UNCHANGED walk
      /\ IsNamed(t) /\ IsObject(t) /\ Shape[t].key \notin DOMAIN schemas
      /\ Push(f, Fields) /\ schemas' = Put(schemas, Shape[t].key, Placeholder)
  BY <1>1, <1>2, CallAt DEF Enter, IsNamed
<1>4. IsWorld(w, T) /\ Orderly(T) /\ T \in SUBSET Types /\ IsSeq(stack) /\ Sound(stack, schemas, Documented, T, w)
  BY <1>2 DEF InWorld
<1>5. Link(f, Below(stack, 0, w), T, w)
  BY <1>3, <1>4, ObjectLink
<1>6. f.role = "component" /\ f.type = t /\ t \in w.due
  <2>1. ~IsLeaf(t)
    BY <1>3 DEF IsLeaf, IsObject
  <2> QED BY <1>3, <2>1 DEF Frame, IsDue
<1> HIDE DEF f
<1>7. Sound(<<f>> \o stack, schemas', Documented, T, w)
  BY <1>3, <1>4, <1>5, <1>6, EnterTable
<1>8. CASE Len(stack) < MaxDepth
  <2>1. stack' = <<f>> \o stack /\ control' = Fields
    BY <1>3, <1>8 DEF Push
  <2>2. Fields.do = "fields" /\ Fields \notin {Idle, Done}
    BY Controls
  <2>3. Asked(control', stack', T, w)
    BY <2>1, <2>2 DEF Asked
  <2>4. w = World(Q)
    BY <1>2 DEF InWorld
  <2>5. KeptWith(T, Q)'
    BY <1>3, <1>7, <2>1, <2>2, <2>3, <2>4, WalkKeeps
  <2> QED BY <2>5 DEF KInv
<1>9. CASE ~(Len(stack) < MaxDepth)
  BY <1>3, <1>9 DEF Push, KInv
<1> QED BY <1>8, <1>9

\* A field that is left out is passed.
LEMMA SkipKeeps ==
  ASSUME NEW T, Setting(T), WInv, NEW Q \in SUBSET T, KeptWith(T, Q), Skip
  PROVE  KInv(T)'
<1> DEFINE g == Advance(top, top.props)
<1>1. /\ control = Fields /\ control \notin {Idle, Done, Overflow} /\ Looping(TRUE)
      /\ stack # <<>> /\ top.role # "wrap" /\ Waits(top)
  BY Looped DEF Skip
<1>2. PICK w : InWorld(T, Q, w)
  BY <1>1, WorldAt
<1>3. Activation(top) /\ top = stack[1]
  BY <1>1, Innermost DEF top
<1>4. MovesTo(top, g, top.props)
  BY <1>3, AdvancesTo
<1>5. Chain(stack, T, w) /\ IsSeq(stack) /\ T \in SUBSET Types /\ Orderly(T)
  BY <1>2 DEF InWorld, Sound
<1>6. Link(top, Below(stack, 1, w), T, w)
  BY <1>1, <1>3, <1>5, ChainPopped
<1>7. Loops(top) /\ top.at \in 1 .. Len(Shape[top.type].fields) /\ Hidden(FieldAt(top))
  BY <1>1, <1>3, FieldsType DEF Activation, Waits, FieldsOf, Loops, Skip, field, FieldAt
<1>8. stack' = [stack EXCEPT ![1] = g] /\ control' = Fields /\ UNCHANGED walk /\ UNCHANGED schemas
  BY <1>1 DEF Skip, Looping
<1> HIDE DEF g
<1>9. Link(g, Below(stack, 1, w), T, w)
  BY <1>4, <1>5, <1>6, <1>7, HiddenMoves
<1>10. g.type = stack[1].type /\ g.role = stack[1].role
  BY <1>3, <1>4 DEF MovesTo
<1> QED BY <1>1, <1>2, <1>8, <1>9, <1>10, MoveKeeps

\* The loop that waits for a schema, and what of.
LEMMA AtVisibleField ==
  ASSUME NEW T, NEW w, WInv, control = Fields, stack # <<>>, top.role # "wrap", Waits(top), ~Hidden(field),
         Orderly(T), T \in SUBSET Types, IsSeq(stack), Chain(stack, T, w)
  PROVE  /\ Below(stack, 0, w) = top /\ Link(top, Below(stack, 1, w), T, w)
         /\ AtVisible(top) /\ FieldAt(top) = field /\ field \in Range(Shape[top.type].fields)
         /\ top.type \in T /\ IsObject(top.type)
         /\ \A p \in Members[top.type] : IsDue(p.field.type, w)
<1>1. Activation(top) /\ top = stack[1]
  BY Innermost DEF top
<1>2. Below(stack, 0, w) = top /\ Link(top, Below(stack, 1, w), T, w)
  BY <1>1, ChainPopped
<1>3. FieldAt(top) = field
  BY DEF field, FieldAt
<1>4. Loops(top) /\ top.at \in 1 .. Len(Shape[top.type].fields)
  BY <1>1, FieldsType DEF Activation, Waits, FieldsOf, Loops
<1>5. AtVisible(top)
  BY <1>3, <1>4 DEF AtVisible
<1> QED BY <1>2, <1>3, <1>4, <1>5, LinkedLoop

\* An embedded struct is described in what there is already.
LEMMA FlattenKeeps ==
  ASSUME NEW T, Setting(T), WInv, NEW Q \in SUBSET T, KeptWith(T, Q), Flatten
  PROVE  KInv(T)'
<1> DEFINE f == Frame(Deref(field.type), "embed", top.props)
<1>1. /\ control = Fields /\ control \notin {Idle, Done, Overflow} /\ UNCHANGED walk
      /\ stack # <<>> /\ top.role # "wrap" /\ Waits(top) /\ ~Hidden(field) /\ Flattens(field)
      /\ Push(f, Fields) /\ UNCHANGED schemas
  BY Looped DEF Flatten, Looping
<1>2. PICK w : InWorld(T, Q, w)
  BY <1>1, WorldAt
<1>3. Chain(stack, T, w) /\ IsSeq(stack) /\ T \in SUBSET Types /\ Orderly(T)
  BY <1>2 DEF InWorld, Sound
<1>4. /\ Below(stack, 0, w) = top /\ Link(top, Below(stack, 1, w), T, w)
      /\ AtVisible(top) /\ FieldAt(top) = field
  BY <1>1, <1>3, AtVisibleField
<1>5. Embeds(top)
  BY <1>1, <1>4 DEF Embeds
<1>6. Link(Frame(Deref(FieldAt(top).type), "embed", top.props), top, T, w)
  BY <1>3, <1>4, <1>5, StructLink
<1>7. Link(f, Below(stack, 0, w), T, w) /\ f.role # "component"
  BY <1>4, <1>6 DEF Frame
<1> HIDE DEF f
<1>8. Fields.do = "fields" /\ Fields \notin {Idle, Done}
  BY Controls
<1>9. Asked(Fields, <<f>> \o stack, T, w)
  BY <1>8 DEF Asked
<1>10. PICK g, do : g = f /\ do = Fields
  OBVIOUS
<1> QED BY <1>1, <1>2, <1>7, <1>8, <1>9, <1>10, PushKeeps

\* The schema of another field is asked for.
LEMMA DescendKeeps ==
  ASSUME NEW T, Setting(T), WInv, NEW Q \in SUBSET T, KeptWith(T, Q), Descend
  PROVE  KInv(T)'
<1>1. /\ control = Fields /\ control \notin {Idle, Done, Overflow} /\ UNCHANGED walk
      /\ stack # <<>> /\ top.role # "wrap" /\ Waits(top) /\ ~Hidden(field) /\ ~Flattens(field)
      /\ control' = Call(field.type) /\ stack' = stack /\ schemas' = schemas
  BY Looped DEF Descend, Looping
<1>2. PICK w : InWorld(T, Q, w)
  BY <1>1, WorldAt
<1>3. Chain(stack, T, w) /\ IsSeq(stack) /\ T \in SUBSET Types /\ Orderly(T)
      /\ Sound(stack, schemas, Documented, T, w) /\ w = World(Q)
  BY <1>2 DEF InWorld, Sound
<1>4. /\ Below(stack, 0, w) = top /\ AtVisible(top) /\ FieldAt(top) = field
      /\ field \in Range(Shape[top.type].fields) /\ top.type \in T /\ IsObject(top.type)
      /\ \A p \in Members[top.type] : IsDue(p.field.type, w)
  BY <1>1, <1>3, AtVisibleField
<1> DEFINE u == field.type
           p == [field |-> field, depth |-> 0]
<1>5. IsVisible(field) /\ u \in T
  BY <1>1, <1>3, <1>4, OrderlyFields
<1>6. p \in Members[top.type]
  <2>1. Members[top.type] = UNION {Shown(g, Members) : g \in {h \in Range(Shape[top.type].fields) : IsVisible(h)}}
    BY <1>3, <1>4, MembersOf DEF FromFields
  <2>2. p \in Shown(field, Members)
    BY <1>1 DEF Shown
  <2> HIDE DEF p
  <2> QED BY <1>4, <1>5, <2>1, <2>2
<1>7. IsDue(u, w)
  <2>1. p.field = field
    OBVIOUS
  <2> HIDE DEF p
  <2> QED BY <1>4, <1>6, <2>1
<1>8. Wants(top) /\ Wanted(top) = u
  BY <1>1, <1>4 DEF Wants, Wanted, AtVisible, Loops
<1> HIDE DEF u
<1>9. control'.do = "call" /\ control'.type = u /\ control' \notin {Idle, Done}
  BY <1>1, Controls DEF u
<1>10. Asked(control', stack', T, w)
  BY <1>1, <1>4, <1>5, <1>7, <1>8, <1>9 DEF Asked
<1>11. KeptWith(T, Q)'
  BY <1>1, <1>3, <1>9, <1>10, WalkKeeps
<1> QED BY <1>11 DEF KInv

\* A loop over an object that is over has described it, and all that it leads
\* to is done.
LEMMA LoopEnds ==
  ASSUME NEW T, NEW w, T \in SUBSET Types, Orderly(T), NEW f, NEW b, Link(f, b, T, w),
         f.role \in {"inline", "component"}, f.at = Len(Shape[f.type].fields) + 1
  PROVE  /\ f.type \in T /\ f.type \in w.due /\ IsObject(f.type) /\ (f.role = "component" <=> IsNamed(f.type))
         /\ Wants(b) /\ f.type = Wanted(b)
         /\ MemberTypes(f.type) \subseteq w.done
         /\ ObjectOf(f.props) = Described(f.type, w.opts, Schema[w.opts])
<1> DEFINE t == f.type
<1>1. /\ t \in T /\ t \in w.due /\ IsObject(t) /\ (f.role = "component" <=> IsNamed(t))
      /\ Wants(b) /\ t = Wanted(b) /\ Loop(f, EmptyMap, w)
  BY DEF Link
<1>2. Seen(t, f.at) = Members[t]
  BY <1>1, SeenSoFar
<1>3. /\ Merged(f.props, EmptyMap, t, Members[t], w.opts)
      /\ \A p \in Members[t] : p.field.type \in w.done
  BY <1>1, <1>2 DEF Loop
<1>4. MemberTypes(t) \subseteq w.done
  BY <1>1, <1>3, DominantIn
<1> HIDE DEF t
<1>5. PICK props, opts : props = f.props /\ opts = w.opts
  OBVIOUS
<1>6. ObjectOf(props) = Described(t, opts, Schema[opts])
  BY <1>1, <1>3, <1>5, MergedAll
<1> QED BY <1>1, <1>4, <1>5, <1>6 DEF t

\* The innermost loop is over.
LEMMA AtEnd ==
  ASSUME WInv, Looping(FALSE)
  PROVE  /\ control = Fields /\ control \notin {Idle, Done, Overflow} /\ UNCHANGED walk
         /\ stack # <<>> /\ top = stack[1] /\ top.role # "wrap" /\ Activation(top)
         /\ top.at = Len(Shape[top.type].fields) + 1
<1>1. control = Fields /\ control \notin {Idle, Done, Overflow} /\ stack # <<>> /\ top.role # "wrap" /\ UNCHANGED walk
  BY Looped DEF Looping
<1>2. Activation(top) /\ top = stack[1]
  BY <1>1, Innermost DEF top
<1>3. ~(top.at <= Len(Shape[top.type].fields))
  BY DEF Looping
<1>4. top.at \in 1 .. Len(Shape[top.type].fields) + 1 /\ Len(Shape[top.type].fields) \in Nat
  BY <1>1, <1>2, FieldsType DEF Activation, FieldsOf
<1> QED BY <1>1, <1>2, <1>3, <1>4

\* A component gets its schema when all that it leads to is done.
LEMMA CompleteKeeps ==
  ASSUME NEW T, Setting(T), WInv, NEW Q \in SUBSET T, KeptWith(T, Q), Complete
  PROVE  KInv(T)'
<1> DEFINE t == top.type
           y == ObjectOf(top.props)
<1>1. /\ control \notin {Idle, Done, Overflow} /\ UNCHANGED walk /\ stack # <<>> /\ top = stack[1]
      /\ top.role = "component" /\ top.at = Len(Shape[top.type].fields) + 1
  BY AtEnd DEF Complete
<1>2. PICK w : InWorld(T, Q, w)
  BY <1>1, WorldAt
<1>3. IsSeq(stack) /\ T \in SUBSET Types /\ Orderly(T) /\ Sound(stack, schemas, Documented, T, w) /\ Chain(stack, T, w)
  BY <1>2 DEF InWorld, Sound
<1>4. Link(top, Below(stack, 1, w), T, w) /\ Below(Tail(stack), 0, w) = Below(stack, 1, w)
  BY <1>1, <1>3, ChainPopped
<1>5. /\ t \in T /\ t \in w.due /\ IsObject(t) /\ IsNamed(t)
      /\ Wants(Below(stack, 1, w)) /\ t = Wanted(Below(stack, 1, w))
      /\ MemberTypes(t) \subseteq w.done /\ y = Described(t, w.opts, Schema[w.opts])
  <2>1. PICK f : f = top
    OBVIOUS
  <2>2. Link(f, Below(stack, 1, w), T, w) /\ f.role = "component" /\ f.at = Len(Shape[f.type].fields) + 1
    BY <1>1, <1>4, <2>1
  <2>3. /\ f.type \in T /\ f.type \in w.due /\ IsObject(f.type) /\ IsNamed(f.type)
        /\ Wants(Below(stack, 1, w)) /\ f.type = Wanted(Below(stack, 1, w))
        /\ MemberTypes(f.type) \subseteq w.done
        /\ ObjectOf(f.props) = Described(f.type, w.opts, Schema[w.opts])
    BY <1>3, <2>2, LoopEnds
  <2> QED BY <2>1, <2>3
<1>6. Shape[t].key \in Keys /\ Marked(stack, schemas)
  BY <1>3, <1>5, FieldsType DEF WInv, Activations, Table
<1>7. schemas' = Put(schemas, Shape[t].key, y) /\ control' = Return(Ref(Shape[t].key)) /\ stack' = Tail(stack)
  BY DEF Complete
<1>8. stack[1].role = "component" /\ stack[1].type = t
  BY <1>1
<1> HIDE DEF t, y
<1>9. PICK u, z : u = t /\ z = y
  OBVIOUS
<1>10. PICK R, v : R = Q \cup {u} /\ v = World(R)
  OBVIOUS
<1>11. Adds(v, w, u)
  BY <1>2, <1>10, WorldAdds
<1>12. /\ Sound(Tail(stack), Put(schemas, Shape[u].key, z), Documented, T, v)
       /\ \A i : Below(Tail(stack), i, v) = Below(Tail(stack), i, w)
  <2>1. u \in T /\ u \in w.due /\ IsNamed(u) /\ Shape[u].key \in Keys /\ MemberTypes(u) \subseteq w.done
        /\ z = Described(u, w.opts, Schema[w.opts]) /\ stack[1].type = u
    BY <1>5, <1>6, <1>8, <1>9
  <2>2. PICK s, m, doc : s = stack /\ m = schemas /\ doc = Documented
    OBVIOUS
  <2>3. /\ T \in SUBSET Types /\ Orderly(T) /\ IsSeq(s) /\ s # <<>> /\ Marked(s, m) /\ Sound(s, m, doc, T, w)
        /\ s[1].role = "component" /\ s[1].type = u
    BY <1>1, <1>3, <1>6, <1>8, <2>1, <2>2
  <2>4. /\ Sound(Tail(s), Put(m, Shape[u].key, z), doc, T, v)
        /\ \A i : Below(Tail(s), i, v) = Below(Tail(s), i, w)
    BY <1>11, <2>1, <2>3, CompleteTable
  <2> QED BY <2>2, <2>4
<1>13. /\ Sound(stack', schemas', Documented, T, v)
       /\ Wants(Below(stack', 0, v)) /\ u = Wanted(Below(stack', 0, v))
  BY <1>4, <1>5, <1>7, <1>9, <1>12
<1>14. Schema[w.opts][u] = Ref(Shape[u].key)
  <2>1. w.opts \in MarshalOptions
    BY <1>2 DEF InWorld, IsWorld
  <2> QED BY <1>3, <1>5, <1>9, <2>1, SchemaOf
<1>15. control' = Return(Schema[w.opts][u]) /\ u \in T
  BY <1>5, <1>7, <1>9, <1>14
<1> QED BY <1>1, <1>2, <1>10, <1>13, <1>15, ReturnKeeps

\* What an activation that is not of a component leaves behind.
LEMMA LeaveKeeps ==
  ASSUME NEW T, NEW Q \in SUBSET T, KeptWith(T, Q), NEW w, InWorld(T, Q, w), UNCHANGED walk,
         stack # <<>>, NEW f, f = stack[1], f.role # "component", stack' = Tail(stack), schemas' = schemas,
         NEW t \in T, f.type = t, ~IsNamed(t), MemberTypes(t) \subseteq w.done,
         Wants(Below(stack, 1, w)), t = Wanted(Below(stack, 1, w)), control' = Return(Schema[w.opts][t])
  PROVE  KInv(T)'
<1> DEFINE s == Tail(stack)
<1>1. IsSeq(stack) /\ Sound(stack, schemas, Documented, T, w) /\ Chain(stack, T, w)
  BY DEF InWorld, Sound
<1>2. Chain(s, T, w) /\ Below(s, 0, w) = Below(stack, 1, w)
  BY <1>1, ChainPopped
<1>3. \A k : OpenIn(s, k) <=> OpenIn(stack, k)
  <2>1. \A k : ~Opens(stack[1], k)
    BY DEF Opens
  <2>2. \A k : OpenIn(stack, k) <=> Opens(stack[1], k) \/ OpenIn(s, k)
    BY <1>1, OpenPopped
  <2> HIDE DEF s
  <2> QED BY <2>1, <2>2
<1>4. stack' = s
  OBVIOUS
<1> HIDE DEF s
<1>5. TableOf(s, schemas, Documented, w) /\ DoneOf(s, schemas, T, w)
  BY <1>1, <1>3, SameOpen DEF Sound
<1>6. Sound(s, schemas, Documented, T, w)
  BY <1>2, <1>5 DEF Sound
<1>7. PICK R, v : R = Q \cup {t} /\ v = World(R)
  OBVIOUS
<1>8. Adds(v, w, t)
  BY <1>7, WorldAdds
<1>9. Sound(s, schemas, Documented, T, v) /\ \A i : Below(s, i, v) = Below(s, i, w)
  BY <1>6, <1>8, DoneMore
<1>10. Sound(stack', schemas', Documented, T, v) /\ Wants(Below(stack', 0, v)) /\ t = Wanted(Below(stack', 0, v))
  BY <1>2, <1>4, <1>9
<1> QED BY <1>7, <1>10, ReturnKeeps

\* An anonymous struct is described when its loop ends.
LEMMA InlinedKeeps ==
  ASSUME NEW T, Setting(T), WInv, NEW Q \in SUBSET T, KeptWith(T, Q), Inlined
  PROVE  KInv(T)'
<1>1. /\ control \notin {Idle, Done, Overflow} /\ UNCHANGED walk /\ stack # <<>> /\ top = stack[1]
      /\ top.role = "inline" /\ top.at = Len(Shape[top.type].fields) + 1
      /\ control' = Return(ObjectOf(top.props)) /\ stack' = Tail(stack) /\ schemas' = schemas
  BY AtEnd DEF Inlined
<1>2. PICK w : InWorld(T, Q, w)
  BY <1>1, WorldAt
<1>3. IsSeq(stack) /\ T \in SUBSET Types /\ Orderly(T) /\ Chain(stack, T, w) /\ w.opts \in MarshalOptions
  BY <1>2 DEF InWorld, Sound, IsWorld
<1>4. Link(top, Below(stack, 1, w), T, w)
  BY <1>1, <1>3, ChainPopped
<1>5. PICK t : t = top.type
  OBVIOUS
<1>6. /\ t \in T /\ IsObject(t) /\ ~IsNamed(t)
      /\ Wants(Below(stack, 1, w)) /\ t = Wanted(Below(stack, 1, w))
      /\ MemberTypes(t) \subseteq w.done /\ ObjectOf(top.props) = Described(t, w.opts, Schema[w.opts])
  BY <1>1, <1>3, <1>4, <1>5, LoopEnds
<1>7. Schema[w.opts][t] = Described(t, w.opts, Schema[w.opts])
  <2>1. Schema[w.opts][t] = OneLevel(t, w.opts, Schema)
    BY <1>3, <1>6, SchemaOf
  <2>2. ~IsLeaf(t) /\ ~IsWrapper(t)
    BY <1>6 DEF IsObject, IsLeaf, IsWrapper
  <2> QED BY <2>1, <2>2 DEF OneLevel
<1>8. PICK f : f = top
  OBVIOUS
<1>9. f = stack[1] /\ f.role # "component" /\ f.type = t /\ control' = Return(Schema[w.opts][t])
  BY <1>1, <1>5, <1>6, <1>7, <1>8
<1> QED BY <1>1, <1>2, <1>6, <1>9, LeaveKeeps

\* What a wrapper gets is of its element.
LEMMA ToWrapperKeeps ==
  ASSUME NEW T, Setting(T), WInv, NEW Q \in SUBSET T, KeptWith(T, Q), ToWrapper
  PROVE  KInv(T)'
<1>1. /\ control.do = "return" /\ control \notin {Idle, Done, Overflow} /\ UNCHANGED walk /\ stack # <<>>
      /\ top = stack[1] /\ top.role = "wrap"
      /\ control' = Return(Wrapped(top.type, control.schema)) /\ stack' = Tail(stack) /\ schemas' = schemas
  BY Returned DEF ToWrapper, top
<1>2. PICK w : InWorld(T, Q, w)
  BY <1>1, WorldAt
<1>3. IsSeq(stack) /\ T \in SUBSET Types /\ Orderly(T) /\ Chain(stack, T, w) /\ w.opts \in MarshalOptions
  BY <1>2 DEF InWorld, Sound, IsWorld
<1>4. Link(top, Below(stack, 1, w), T, w) /\ Below(stack, 0, w) = top
  BY <1>1, <1>3, ChainPopped
<1>5. PICK t : t = top.type
  OBVIOUS
<1>6. /\ t \in T /\ IsWrapper(t) /\ ~IsNamed(t) /\ ~IsLeaf(t)
      /\ Wants(Below(stack, 1, w)) /\ t = Wanted(Below(stack, 1, w))
  BY <1>1, <1>4, <1>5 DEF Link, IsWrapper, IsNamed, IsObject, IsLeaf
<1>7. Wanted(top) = Shape[t].elem
  BY <1>1, <1>5 DEF Wanted
<1>8. Shape[t].elem \in w.done /\ control.schema = Schema[w.opts][Shape[t].elem]
  BY <1>1, <1>2, <1>4, <1>7 DEF InWorld, Asked
<1>9. MemberTypes(t) \subseteq w.done
  BY <1>6, <1>8 DEF MemberTypes
<1>10. Schema[w.opts][t] = Wrapped(t, control.schema)
  <2>1. Schema[w.opts][t] = OneLevel(t, w.opts, Schema)
    BY <1>3, <1>6, SchemaOf
  <2> QED BY <1>6, <1>8, <2>1 DEF OneLevel
<1>11. PICK f : f = top
  OBVIOUS
<1>12. f = stack[1] /\ f.role # "component" /\ f.type = t /\ control' = Return(Schema[w.opts][t])
  BY <1>1, <1>5, <1>10, <1>11
<1> QED BY <1>1, <1>2, <1>6, <1>9, <1>12, LeaveKeeps

\* What a loop gets is of the field that it is at.
LEMMA ToFieldKeeps ==
  ASSUME NEW T, Setting(T), WInv, NEW Q \in SUBSET T, KeptWith(T, Q), ToField
  PROVE  KInv(T)'
<1> DEFINE props == Put(top.props, PropertyName(top.type, field, op.marshal), control.schema)
           g == Advance(top, props)
<1>1. /\ control.do = "return" /\ control \notin {Idle, Done, Overflow} /\ UNCHANGED walk /\ stack # <<>>
      /\ top.role # "wrap" /\ stack' = [stack EXCEPT ![1] = g] /\ control' = Fields /\ schemas' = schemas
  BY Returned DEF ToField
<1>2. PICK w : InWorld(T, Q, w)
  BY <1>1, WorldAt
<1>3. IsSeq(stack) /\ T \in SUBSET Types /\ Orderly(T) /\ Chain(stack, T, w) /\ w.opts = op.marshal
  BY <1>2 DEF InWorld, Sound
<1>4. Activation(top) /\ top = stack[1]
  BY <1>1, Innermost DEF top
<1>5. Link(top, Below(stack, 1, w), T, w) /\ Below(stack, 0, w) = top
  BY <1>1, <1>3, <1>4, ChainPopped
<1>6. Loops(top)
  BY <1>1, <1>4 DEF Activation, Loops
<1>7. Wants(top) /\ Wanted(top) \in w.done /\ control.schema = Schema[w.opts][Wanted(top)]
  BY <1>1, <1>2, <1>5 DEF InWorld, Asked
<1>8. FieldAt(top) = field
  BY DEF field, FieldAt
<1>9. MovesTo(top, g, props)
  <2> HIDE DEF props
  <2> QED BY <1>4, AdvancesTo
<1>10. MovesTo(top, g, Put(top.props, PropertyName(top.type, FieldAt(top), w.opts), Schema[w.opts][Wanted(top)]))
  BY <1>3, <1>7, <1>8, <1>9
<1> HIDE DEF g, props
<1>11. PICK h : h = g
  OBVIOUS
<1>12. MovesTo(top, h, Put(top.props, PropertyName(top.type, FieldAt(top), w.opts), Schema[w.opts][Wanted(top)]))
  BY <1>10, <1>11
<1>13. Link(h, Below(stack, 1, w), T, w)
  BY <1>3, <1>5, <1>6, <1>7, <1>12, FieldMoves
<1>14. h.type = stack[1].type /\ h.role = stack[1].role
  BY <1>4, <1>12 DEF MovesTo
<1> QED BY <1>1, <1>2, <1>11, <1>13, <1>14, MoveKeeps

\* The loop below goes on behind the embedded struct.
LEMMA FlattenedKeeps ==
  ASSUME NEW T, Setting(T), WInv, NEW Q \in SUBSET T, KeptWith(T, Q), Flattened
  PROVE  KInv(T)'
<1> DEFINE s == Tail(stack)
           b == stack[2]
           g == Advance(b, top.props)
<1>1. /\ control = Fields /\ control \notin {Idle, Done, Overflow} /\ UNCHANGED walk /\ stack # <<>>
      /\ top = stack[1] /\ top.role = "embed" /\ top.at = Len(Shape[top.type].fields) + 1
      /\ stack' = <<g>> \o Tail(s) /\ control' = control /\ schemas' = schemas
  BY AtEnd DEF Flattened
<1>2. PICK w : InWorld(T, Q, w)
  BY <1>1, WorldAt
<1>3. IsSeq(stack) /\ T \in SUBSET Types /\ Orderly(T) /\ Sound(stack, schemas, Documented, T, w)
      /\ Chain(stack, T, w) /\ w = World(Q)
  BY <1>2 DEF InWorld, Sound
<1>4. /\ Link(top, Below(stack, 1, w), T, w) /\ Chain(s, T, w) /\ Below(s, 0, w) = Below(stack, 1, w)
  BY <1>1, <1>3, ChainPopped
<1>5. IsStack(s) /\ IsSeq(s) /\ s # <<>> /\ s[1] = b
  BY <1>1, PopStack DEF WInv, Activations, IsStack
<1>6. \A k : OpenIn(s, k) <=> OpenIn(stack, k)
  <2>1. \A k : ~Opens(stack[1], k)
    BY <1>1 DEF Opens
  <2>2. \A k : OpenIn(stack, k) <=> Opens(stack[1], k) \/ OpenIn(s, k)
    BY <1>1, <1>3, OpenPopped
  <2> HIDE DEF s
  <2> QED BY <2>1, <2>2
<1> HIDE DEF s, b
<1>7. Below(s, 0, w) = b /\ Link(b, Below(s, 1, w), T, w)
  BY <1>4, <1>5, ChainPopped
<1>8. Activation(b)
  <2>1. 1 \in 1 .. Len(s)
    BY <1>5, Popped
  <2> QED BY <1>5, <2>1 DEF IsStack
<1>9. MovesTo(b, g, top.props)
  BY <1>8, AdvancesTo
<1> HIDE DEF g
<1>10. PICK h, f : h = g /\ f = top
  OBVIOUS
<1>11. MovesTo(b, h, f.props) /\ f.role = "embed" /\ Link(f, b, T, w) /\ f.at = Len(Shape[f.type].fields) + 1
  BY <1>1, <1>4, <1>7, <1>9, <1>10
<1>12. Link(h, Below(s, 1, w), T, w)
  BY <1>3, <1>7, <1>11, StructMoves
<1> DEFINE z == [s EXCEPT ![1] = h]
<1>13. Chain(z, T, w)
  BY <1>4, <1>5, <1>12, ChainReplaced
<1>14. \A k : OpenIn(z, k) <=> OpenIn(s, k)
  BY <1>5, <1>11, OpenReplaced DEF MovesTo
<1>15. stack' = z
  <2>1. <<h>> \o Tail(s) = z
    BY <1>5, Exchanged
  <2> HIDE DEF z
  <2> QED BY <1>1, <1>10, <2>1
<1> HIDE DEF z
<1>16. \A k : OpenIn(z, k) <=> OpenIn(stack, k)
  BY <1>6, <1>14
<1>17. TableOf(z, schemas, Documented, w) /\ DoneOf(z, schemas, T, w)
  BY <1>3, <1>16, SameOpen DEF Sound
<1>18. Sound(stack', schemas', Documented, T, w)
  BY <1>1, <1>13, <1>15, <1>17 DEF Sound
<1>19. control'.do = "fields" /\ control' \notin {Idle, Done}
  BY <1>1, Controls
<1>20. Asked(control', stack', T, w)
  BY <1>19 DEF Asked
<1>21. KeptWith(T, Q)'
  BY <1>1, <1>3, <1>18, <1>19, <1>20, WalkKeeps
<1> QED BY <1>21 DEF KInv

-----------------------------------------------------------------------------
(* The steps between two schemas                                           *)

\* With nothing on the stack the world matters for the table only.
LEMMA SoundAlone ==
  ASSUME NEW T, NEW m, NEW doc, NEW w, NEW v, Sound(<<>>, m, doc, T, w),
         v.opts = w.opts, v.due = w.due, v.done = w.done
  PROVE  Sound(<<>>, m, doc, T, v)
<1>1. Chain(<<>>, T, v)
  BY DEF Chain
<1>2. TableOf(<<>>, m, doc, v)
  BY DEF Sound, TableOf
<1>3. DoneOf(<<>>, m, T, v)
  BY DEF Sound, DoneOf
<1> QED BY <1>1, <1>2, <1>3 DEF Sound

\* One schema more has been described.
LEMMA AnswerKeeps ==
  ASSUME NEW T, Setting(T), WInv, NEW Q \in SUBSET T, KeptWith(T, Q), next <= Len(operations), Len(described) < 3,
         stack = <<>>, stack' = stack, schemas' = schemas, operations' = operations, next' = next, control' = Idle,
         NEW r, r = Roots(op)[Len(described) + 1], r \in Types => r \in Q,
         NEW e, e = SchemaFor(r, op.marshal), described' = Append(described, e)
  PROVE  KInv(T)'
<1> DEFINE n == Len(described)
<1>1. IsSeq(described)
  BY DEF WInv, Place
<1>2. n \in Nat /\ Len(described') = n + 1 /\ described'[n + 1] = e /\ \A i \in 1 .. n : described'[i] = described[i]
  BY <1>1, Appended DEF IsSeq
<1>3. op' = op /\ Due' = Due /\ Documented' = Documented
  BY DEF op, Due, Documented
<1>4. Sound(stack, schemas, Documented, T, World(Q))'
  <2> DEFINE w == World(Q)
             v == World(Q)'
  <2>1. v.opts = w.opts /\ v.due = w.due /\ v.done = w.done
    BY <1>3 DEF World
  <2>2. Sound(<<>>, schemas, Documented, T, w)
    BY DEF KeptWith
  <2> HIDE DEF w, v
  <2>3. Sound(<<>>, schemas, Documented, T, v)
    BY <2>1, <2>2, SoundAlone
  <2> QED BY <1>3, <2>3 DEF v
<1>5. Asked(control, stack, T, World(Q))'
  <2>1. control'.do = "idle"
    BY Controls
  <2> QED BY <2>1 DEF Asked
<1>6. Answered(Q)'
  <2>1. \A i \in 1 .. n : /\ described[i] = SchemaFor(Roots(op)[i], op.marshal)
                          /\ Roots(op)[i] \in Types => Roots(op)[i] \in Q
    BY DEF KeptWith, Answered
  <2> HIDE DEF n
  <2>2. ASSUME NEW i \in 1 .. n + 1
        PROVE  /\ described'[i] = SchemaFor(Roots(op)[i], op.marshal)
               /\ Roots(op)[i] \in Types => Roots(op)[i] \in Q
    <3>1. CASE i = n + 1
      BY <1>2, <3>1 DEF n
    <3>2. CASE i # n + 1
      <4>1. i \in 1 .. n
        BY <1>2, <3>2
      <4> QED BY <1>2, <2>1, <4>1
    <3> QED BY <3>1, <3>2
  <2> QED BY <1>2, <1>3, <2>2 DEF Answered
<1>7. Working'
  <2>1. Len(described') # 0
    BY <1>2
  <2>2. described' # <<>>
    BY <2>1
  <2> QED BY <2>2 DEF Working
<1>8. KeptWith(T, Q)'
  BY <1>4, <1>5, <1>6, <1>7 DEF KeptWith
<1> QED BY <1>8 DEF KInv

\* The roots are what the operation asks for.
LEMMA RootTypes ==
  ASSUME NEW o \in OperationInfo
  PROVE  /\ \A i \in 1 .. 3 : /\ Roots(o)[i] \in Types => Roots(o)[i] \in RootsOf(o)
                              /\ Roots(o)[i] \in Types \cup {Unknown, None}
         /\ \A t \in RootsOf(o) : \E i \in 1 .. 3 : t = Roots(o)[i]
<1>1. Roots(o)[1] = o.body /\ Roots(o)[2] = o.response /\ Roots(o)[3] = ProblemDetails
  BY DEF Roots
<1>2. o.body \in Types \cup {Unknown, None} /\ o.response \in Types \cup {Unknown}
  BY DEF OperationInfo
<1>3. ProblemDetails \in Types
  BY SchemasAssumption
<1>4. \A i \in 1 .. 3 : i = 1 \/ i = 2 \/ i = 3
  OBVIOUS
<1> QED BY <1>1, <1>2, <1>3, <1>4 DEF RootsOf

\* The first one is called for.
LEMMA RootKeeps ==
  ASSUME NEW T, Setting(T), WInv, NEW Q \in SUBSET T, KeptWith(T, Q), Root
  PROVE  KInv(T)'
<1>1. /\ control = Idle /\ stack = <<>> /\ next <= Len(operations) /\ Len(described) < 3 /\ Place /\ IsSeq(described)
      /\ operations' = operations /\ next' = next /\ stack' = stack /\ schemas' = schemas /\ items' = items
  BY Controls DEF WInv, Turn, Root, Place
<1>2. Len(described) \in Nat /\ Len(described) + 1 \in 1 .. 3
  BY <1>1 DEF IsSeq
<1>3. PICK r : r = Roots(op)[Len(described) + 1]
  OBVIOUS
<1>4. /\ IsWorld(World(Q), T) /\ op \in OperationInfo /\ RootsOf(op) \subseteq T
      /\ World(Q).root = r /\ World(Q).due = Due /\ \A t \in RootsOf(op) : t \in Due
  BY <1>1, <1>3, WorldType
<1>5. (r \in Types => r \in RootsOf(op)) /\ r \in Types \cup {Unknown, None}
  BY <1>2, <1>3, <1>4, RootTypes
<1>6. CASE r \in Types
  <2>1. control' = Call(r) /\ UNCHANGED walk
    BY <1>1, <1>3, <1>6 DEF Root, walk
  <2>2. PICK w : w = World(Q)
    OBVIOUS
  <2>3. Sound(stack', schemas', Documented, T, w)
    BY <1>1, <2>2 DEF KeptWith
  <2>4. Below(stack', 0, w) = Base(w)
    <3>1. ~(0 < Len(stack'))
      BY <1>1
    <3> QED BY <3>1 DEF Below
  <2>5. Wants(Base(w)) /\ Wanted(Base(w)) = r
    BY <1>4, <2>2 DEF Wants, Wanted, Base
  <2>6. r \in T /\ IsDue(r, w)
    BY <1>4, <1>5, <1>6, <2>2 DEF IsDue
  <2>7. control'.do = "call" /\ control'.type = r /\ control' \notin {Idle, Done}
    BY <2>1, Controls
  <2>8. Asked(control', stack', T, w)
    BY <2>4, <2>5, <2>6, <2>7 DEF Asked
  <2>9. KeptWith(T, Q)'
    BY <2>1, <2>2, <2>3, <2>7, <2>8, WalkKeeps
  <2> QED BY <2>9 DEF KInv
<1>7. CASE r \notin Types
  <2> DEFINE e == IF r = None THEN None ELSE AnySchema
  <2>1. described' = Append(described, e) /\ control' = Idle
    BY <1>1, <1>3, <1>7 DEF Root
  <2>2. e = SchemaFor(r, op.marshal)
    <3>1. r = None \/ r = Unknown
      BY <1>5, <1>7
    <3> QED BY <3>1, SchemasAssumption DEF SchemaFor
  <2> HIDE DEF e
  <2> QED BY <1>1, <1>3, <1>7, <2>1, <2>2, AnswerKeeps
<1> QED BY <1>6, <1>7

\* And it is what is returned.
LEMMA ToRootKeeps ==
  ASSUME NEW T, Setting(T), WInv, NEW Q \in SUBSET T, KeptWith(T, Q), ToRoot
  PROVE  KInv(T)'
<1>1. /\ control.do = "return" /\ stack = <<>> /\ control \notin {Idle, Done, Overflow} /\ control' = Idle
      /\ operations' = operations /\ next' = next /\ stack' = stack /\ schemas' = schemas
      /\ described' = Append(described, control.schema)
  BY Returned DEF ToRoot
<1>2. next <= Len(operations) /\ Len(described) < 3 /\ Place
  BY <1>1 DEF WInv, Place, Working
<1>3. PICK w : InWorld(T, Q, w)
  BY <1>1, WorldAt
<1>4. w = World(Q) /\ w.done = Q /\ w.opts = op.marshal /\ Asked(control, stack, T, w) /\ T \in SUBSET Types
  BY <1>3 DEF InWorld
<1>5. w.root = Roots(op)[Len(described) + 1]
  BY <1>4 DEF World
<1>6. Below(stack, 0, w) = Base(w)
  <2>1. ~(0 < Len(stack))
    BY <1>1
  <2> QED BY <2>1 DEF Below
<1>7. PICK r : r = Roots(op)[Len(described) + 1]
  OBVIOUS
<1>8. Wanted(Base(w)) = r
  BY <1>5, <1>7 DEF Wanted, Base
<1>9. r \in Q /\ control.schema = Schema[op.marshal][r]
  BY <1>1, <1>4, <1>6, <1>8 DEF Asked
<1>10. SchemaFor(r, op.marshal) = control.schema
  <2>1. r \in Types /\ r # None /\ r # Unknown
    BY <1>4, <1>9, SchemasAssumption
  <2> QED BY <1>9, <2>1 DEF SchemaFor
<1>11. PICK e : e = control.schema
  OBVIOUS
<1> QED BY <1>1, <1>2, <1>7, <1>9, <1>10, <1>11, AnswerKeeps

\* When all that an operation asks for has been described, the table has the
\* components that it needs, and no other new one.
LEMMA TableAtEnd ==
  ASSUME NEW T, Setting(T), WInv, NEW Q \in SUBSET T, KeptWith(T, Q),
         control = Idle, Len(described) = 3
  PROVE  /\ stack = <<>> /\ next \in 1 .. Len(operations) /\ op \in OperationInfo
         /\ Needed(op) \subseteq T /\ \A t \in Needed(op) : IsNamed(t)
         /\ DOMAIN schemas = Documented \cup {Shape[t].key : t \in Needed(op)}
         /\ \A t \in Needed(op) : Shape[t].key \notin Documented
              => schemas[Shape[t].key] = Described(t, op.marshal, Schema[op.marshal])
<1>1. stack = <<>> /\ Place /\ Working /\ next <= Len(operations)
  <2>1. Len(<<>>) = 0
    OBVIOUS
  <2>2. Working
    BY <2>1 DEF Working
  <2> QED BY <2>2, Controls DEF WInv, Turn, Place
<1>2. next \in 1 .. Len(operations)
  <2>1. operations \in Seq(OperationInfo) /\ next \in 1 .. Len(operations) + 1
    BY <1>1, OpenAPIAssumption DEF Place
  <2> QED BY <1>1, <2>1
<1>3. PICK w : w = World(Q)
  OBVIOUS
<1>4. /\ op \in OperationInfo /\ RootsOf(op) \subseteq T
      /\ w.opts = op.marshal /\ w.due = Due /\ w.done = Q
  BY <1>1, <1>3, WorldType
<1>5. Due = UNION {Parts[r] : r \in RootsOf(op)}
  BY DEF Due, RootsOf
<1>6. Needed(op) = {t \in Due : IsNamed(t)} /\ Due \subseteq T
  <2>1. Needed(op) = {t \in Due : IsNamed(t)}
    BY DEF Due, Needed
  <2>2. PICK R \in SUBSET T : R = RootsOf(op)
    BY <1>4
  <2>3. UNION {Parts[r] : r \in R} \subseteq T
    BY PartsOfAll
  <2> QED BY <1>5, <2>1, <2>2, <2>3
<1>7. TableOf(<<>>, schemas, Documented, w) /\ DoneOf(<<>>, schemas, T, w)
  BY <1>1, <1>3 DEF KeptWith, Sound
<1>8. \A k : ~OpenIn(<<>>, k)
  BY DEF OpenIn
<1>9. RootsOf(op) \subseteq Q
  <2> SUFFICES ASSUME NEW t \in RootsOf(op) PROVE t \in Q
    OBVIOUS
  <2>1. t \in {Roots(op)[1], Roots(op)[2], Roots(op)[3]} /\ t \in Types
    BY DEF RootsOf, Roots
  <2>2. PICK i \in 1 .. 3 : t = Roots(op)[i]
    BY <2>1
  <2>3. \A j \in 1 .. Len(described) : Roots(op)[j] \in Types => Roots(op)[j] \in Q
    BY DEF KeptWith, Answered
  <2> QED BY <2>1, <2>2, <2>3
<1>10. Due \subseteq Q
  <2>1. IsClosed(Q)
    BY <1>4, <1>7, <1>8 DEF DoneOf, IsClosed
  <2>2. PICK R \in SUBSET T : R = RootsOf(op)
    BY <1>4
  <2>3. \A us \in SUBSET T : R \subseteq us /\ IsClosed(us) => UNION {Parts[r] : r \in R} \subseteq us
    BY PartsOfAll
  <2>4. UNION {Parts[r] : r \in R} \subseteq Q
    BY <1>9, <2>1, <2>2, <2>3
  <2> QED BY <1>5, <2>2, <2>4
<1>11. \A t \in Needed(op) : Shape[t].key \in DOMAIN schemas
  BY <1>4, <1>6, <1>7, <1>10 DEF DoneOf
<1>12. \A k \in DOMAIN schemas \ Documented : \E t \in Needed(op) :
         Shape[t].key = k /\ schemas[k] = Described(t, op.marshal, Schema[op.marshal])
  BY <1>4, <1>6, <1>7, <1>8 DEF TableOf
<1>13. DOMAIN schemas = Documented \cup {Shape[t].key : t \in Needed(op)}
  <2>1. Documented \subseteq DOMAIN schemas
    BY <1>7 DEF TableOf
  <2>2. {Shape[t].key : t \in Needed(op)} \subseteq DOMAIN schemas
    BY <1>11
  <2>3. DOMAIN schemas \ Documented \subseteq {Shape[t].key : t \in Needed(op)}
    BY <1>12
  <2> QED BY <2>1, <2>2, <2>3
<1>14. ASSUME NEW t \in Needed(op), Shape[t].key \notin Documented
       PROVE  schemas[Shape[t].key] = Described(t, op.marshal, Schema[op.marshal])
  <2>1. Shape[t].key \in DOMAIN schemas \ Documented
    BY <1>11, <1>14
  <2>2. PICK u \in Needed(op) : Shape[u].key = Shape[t].key
                                /\ schemas[Shape[t].key] = Described(u, op.marshal, Schema[op.marshal])
    BY <1>12, <2>1
  <2>3. u = t
    BY <1>6, <2>2 DEF Setting, Orderly
  <2> QED BY <2>2, <2>3
<1> QED BY <1>1, <1>2, <1>4, <1>6, <1>13, <1>14

\* What an operation adds to what is documented.
LEMMA DocumentedMore ==
  ASSUME operations' = operations, next' = next + 1, next \in Nat \ {0}
  PROVE  Documented' = Documented \cup {Shape[t].key : t \in Needed(op)}
<1> DEFINE U(n) == UNION {Needed(operations[i]) : i \in 1 .. n}
<1>1. 1 .. next' - 1 = (1 .. next - 1) \cup {next}
  OBVIOUS
<1>2. {Needed(operations[i]) : i \in 1 .. next' - 1} = {Needed(operations[i]) : i \in 1 .. next - 1} \cup {Needed(op)}
  BY <1>1 DEF op
<1>3. U(next' - 1) = U(next - 1) \cup Needed(op)
  BY <1>2
<1>4. Documented' = {Shape[t].key : t \in U(next' - 1)} /\ Documented = {Shape[t].key : t \in U(next - 1)}
  BY DEF Documented
<1> HIDE DEF U
<1> QED BY <1>3, <1>4

\* An operation is done, and the table is as it should be.
LEMMA AssignKeeps ==
  ASSUME NEW T, Setting(T), WInv, NEW Q \in SUBSET T, KeptWith(T, Q), assign
  PROVE  KInv(T)'
<1>1. /\ control = Idle /\ Len(described) = 3 /\ operations' = operations /\ next' = next + 1
      /\ described' = <<>> /\ control' = control /\ stack' = stack /\ schemas' = schemas
  BY DEF assign
<1>2. /\ stack = <<>> /\ next \in 1 .. Len(operations)
      /\ DOMAIN schemas = Documented \cup {Shape[t].key : t \in Needed(op)}
  BY <1>1, TableAtEnd
<1>3. operations \in Seq(OperationInfo)
  BY OpenAPIAssumption DEF WInv, Place
<1>4. next \in Nat \ {0}
  BY <1>2, <1>3
<1>5. Documented' = DOMAIN schemas
  BY <1>1, <1>2, <1>4, DocumentedMore
<1>6. World(Q).done = Q /\ World(Q)'.done = Q
  BY DEF World
<1>7. Sound(stack, schemas, Documented, T, World(Q))'
  <2> DEFINE w == World(Q)
             v == World(Q)'
  <2>1. v.done = w.done
    BY <1>6
  <2>2. DoneOf(<<>>, schemas, T, w)
    BY <1>2 DEF KeptWith, Sound
  <2> HIDE DEF w, v
  <2>3. DoneOf(<<>>, schemas, T, v)
    BY <2>1, <2>2 DEF DoneOf
  <2>4. Chain(<<>>, T, v)
    BY DEF Chain
  <2>5. TableOf(<<>>, schemas, DOMAIN schemas, v)
    BY DEF TableOf, OpenIn
  <2>6. Sound(<<>>, schemas, DOMAIN schemas, T, v)
    BY <2>3, <2>4, <2>5 DEF Sound
  <2> QED BY <1>1, <1>2, <1>5, <2>6 DEF v
<1>8. Asked(control, stack, T, World(Q))'
  <2>1. control'.do = "idle"
    BY <1>1, Controls
  <2> QED BY <2>1 DEF Asked
<1>9. Answered(Q)'
  <2>1. Len(described') = 0
    BY <1>1
  <2> QED BY <2>1 DEF Answered
<1>10. DOMAIN schemas' \subseteq Documented'
  BY <1>1, <1>5
<1>11. KeptWith(T, Q)'
  BY <1>7, <1>8, <1>9, <1>10 DEF KeptWith
<1> QED BY <1>11 DEF KInv

\* With the last operation the table is final.
LEMMA FinishKeeps ==
  ASSUME NEW T, Setting(T), WInv, NEW Q \in SUBSET T, KeptWith(T, Q), Finish
  PROVE  KInv(T)'
<1>1. /\ control = Idle /\ next > Len(operations) /\ control' = Done /\ UNCHANGED walk
      /\ stack' = stack /\ schemas' = schemas
  BY DEF Finish, walk
<1>2. ~Working
  <2>1. operations \in Seq(OperationInfo) /\ next \in 1 .. Len(operations) + 1
    BY OpenAPIAssumption DEF WInv, Place
  <2> QED BY <1>1, <2>1 DEF WInv, Place
<1>3. Documented' = Documented /\ World(Q)' = World(Q)
  BY <1>1 DEF Documented, World, Due, op, walk
<1>4. Sound(stack, schemas, Documented, T, World(Q))'
  <2>1. Sound(stack, schemas, Documented, T, World(Q))
    BY DEF KeptWith
  <2> QED BY <1>1, <1>3, <2>1
<1>5. Asked(control, stack, T, World(Q))'
  <2>1. control'.do = "done"
    BY <1>1, Controls
  <2> QED BY <2>1 DEF Asked
<1>6. Answered(Q)'
  BY <1>1 DEF KeptWith, Answered, walk, op
<1>7. DOMAIN schemas' \subseteq Documented'
  BY <1>1, <1>2, <1>3 DEF KeptWith
<1>8. KeptWith(T, Q)'
  BY <1>4, <1>5, <1>6, <1>7 DEF KeptWith
<1> QED BY <1>8 DEF KInv

\* At first nothing is done.
LEMMA InitKInv ==
  ASSUME NEW T, Setting(T)
  PROVE  Init => KInv(T)
<1> SUFFICES ASSUME Init PROVE KInv(T)
  OBVIOUS
<1>1. next = 1 /\ described = <<>> /\ control = Idle /\ stack = <<>> /\ schemas = EmptyMap
  BY DEF Init
<1>2. DOMAIN EmptyMap = {} /\ Len(<<>>) = 0
  BY DEF EmptyMap
<1>3. Documented = {}
  BY <1>1 DEF Documented
<1>4. World({}).done = {}
  BY DEF World
<1>5. PICK w : w = World({})
  OBVIOUS
<1>6. DoneOf(<<>>, EmptyMap, T, w)
  BY <1>2, <1>4, <1>5 DEF DoneOf
<1>7. Chain(<<>>, T, w)
  BY DEF Chain
<1>8. TableOf(<<>>, EmptyMap, {}, w)
  BY <1>2 DEF TableOf
<1>9. Sound(stack, schemas, Documented, T, w)
  BY <1>1, <1>3, <1>6, <1>7, <1>8 DEF Sound
<1>10. Asked(control, stack, T, w)
  BY <1>1, Controls DEF Asked
<1>11. Answered({})
  BY <1>1, <1>2 DEF Answered
<1>12. DOMAIN schemas \subseteq Documented
  BY <1>1, <1>2, <1>3
<1>13. KeptWith(T, {})
  BY <1>5, <1>9, <1>10, <1>11, <1>12 DEF KeptWith
<1> QED BY <1>13 DEF KInv

\* An exhausted stack is the end.
LEMMA Stuck ==
  ASSUME control = Overflow, [Next]_vars
  PROVE  UNCHANGED vars
<1>1. ~(Root \/ assign \/ Finish \/ ToRoot \/ ToWrapper \/ ToField)
  BY Controls DEF Root, assign, Finish, ToRoot, ToWrapper, ToField
<1>2. ~(Skip \/ Flatten \/ Descend \/ Complete \/ Inlined \/ Flattened)
  BY Controls DEF Skip, Flatten, Descend, Complete, Inlined, Flattened, Looping
<1>3. \A t \in Types : ~(Describe(t) \/ Wrap(t) \/ Nest(t) \/ Known(t) \/ Enter(t))
  BY Controls DEF Describe, Wrap, Nest, Known, Enter, Calling
<1> QED BY <1>1, <1>2, <1>3 DEF Next

\* It says nothing of the items.
LEMMA SameKept ==
  ASSUME NEW T, NEW Q, KeptWith(T, Q), UNCHANGED <<operations, next, described, control, stack, schemas>>
  PROVE  KeptWith(T, Q)'
<1>1. op' = op /\ Documented' = Documented /\ Due' = Due
  BY DEF op, Documented, Due
<1>2. World(Q)' = World(Q)
  BY <1>1 DEF World
<1>3. Sound(stack, schemas, Documented, T, World(Q)) /\ Asked(control, stack, T, World(Q)) /\ Answered(Q)
  BY DEF KeptWith
<1>4. Working \/ DOMAIN schemas \subseteq Documented
  BY DEF KeptWith
<1>5. Sound(stack, schemas, Documented, T, World(Q))'
  BY <1>1, <1>2, <1>3
<1>6. Asked(control, stack, T, World(Q))'
  BY <1>1, <1>2, <1>3
<1>7. Answered(Q)'
  BY <1>1, <1>3 DEF Answered
<1>8. Working' <=> Working
  BY DEF Working
<1>9. Working' \/ DOMAIN schemas' \subseteq Documented'
  BY <1>1, <1>4, <1>8
<1> QED BY <1>5, <1>6, <1>7, <1>9 DEF KeptWith

\* Every step keeps the invariant.
LEMMA NextKInv ==
  ASSUME NEW T, Setting(T)
  PROVE  WInv /\ KInv(T) /\ [Next]_vars => KInv(T)'
<1> SUFFICES ASSUME WInv, KInv(T), [Next]_vars PROVE KInv(T)'
  OBVIOUS
<1>1. CASE UNCHANGED vars
  <2>1. /\ operations' = operations /\ next' = next /\ described' = described
        /\ control' = control /\ stack' = stack /\ schemas' = schemas
    BY <1>1 DEF vars
  <2>2. CASE control = Overflow
    BY <2>1, <2>2 DEF KInv
  <2>3. CASE control # Overflow
    <3>1. PICK Q \in SUBSET T : KeptWith(T, Q)
      BY <2>3 DEF KInv
    <3>2. KeptWith(T, Q)'
      BY <2>1, <3>1, SameKept
    <3> QED BY <3>2 DEF KInv
  <2> QED BY <2>2, <2>3
<1>2. CASE control = Overflow
  BY <1>1, <1>2, Stuck
<1>3. CASE control # Overflow /\ Next
  <2>1. PICK Q \in SUBSET T : KeptWith(T, Q)
    BY <1>3 DEF KInv
  <2>2. CASE Root \/ assign \/ Finish
    BY <2>1, <2>2, RootKeeps, AssignKeeps, FinishKeeps
  <2>3. ASSUME NEW t \in Types, Describe(t) \/ Wrap(t) \/ Nest(t) \/ Known(t) \/ Enter(t)
        PROVE  KInv(T)'
    BY <2>1, <2>3, DescribeKeeps, WrapKeeps, NestKeeps, KnownKeeps, EnterKeeps
  <2>4. CASE Skip \/ Flatten \/ Descend
    BY <2>1, <2>4, SkipKeeps, FlattenKeeps, DescendKeeps
  <2>5. CASE Complete \/ Inlined \/ Flattened
    BY <2>1, <2>5, CompleteKeeps, InlinedKeeps, FlattenedKeeps
  <2>6. CASE ToRoot \/ ToWrapper \/ ToField
    BY <2>1, <2>6, ToRootKeeps, ToWrapperKeeps, ToFieldKeeps
  <2> QED BY <1>3, <2>2, <2>3, <2>4, <2>5, <2>6 DEF Next
<1> QED BY <1>1, <1>2, <1>3

-----------------------------------------------------------------------------
(* The document is kept                                                    *)

\* The reference is the same from both sides: what it says a type shows, ...
LEMMA SameMembers == Contract!Members = Members
BY DEF Contract!Members, Members, Contract!Promoted, Promoted, Contract!Shown, Shown, Contract!Deeper, Deeper,
       Contract!IsVisible, IsVisible, Contract!Flattens, Flattens, Contract!Deref, Deref,
       Contract!IsObject, IsObject, Contract!Range, Range, Contract!Cardinality, Cardinality

\* ... the fields that it lets show, ...
LEMMA SameDominant == Contract!Dominant = Dominant
BY SameMembers DEF Contract!Dominant, Dominant, Contract!IsObject, IsObject

\* ... the types that it reaches, ...
LEMMA SameParts == ASSUME NEW t PROVE Contract!PartsOf(t) = PartsOf(t)
BY SameDominant DEF Contract!PartsOf, PartsOf, Contract!Cardinality, Cardinality,
       Contract!MemberTypes, MemberTypes, Contract!IsWrapper, IsWrapper, Contract!IsLeaf, IsLeaf

\* ... those that it names, ...
LEMMA SameNeeded == ASSUME NEW o PROVE Contract!Needed(o) = Needed(o)
BY SameParts DEF Contract!Needed, Needed, Contract!Parts, Parts, Contract!IsNamed, IsNamed,
       Contract!IsObject, IsObject

\* ... the schema of an object, ...
LEMMA SameDescribed == ASSUME NEW t, NEW o, NEW s PROVE Contract!Described(t, o, s) = Described(t, o, s)
BY SameDominant DEF Contract!Described, Described, Contract!ObjectOf, ObjectOf,
       Contract!PropertyName, PropertyName

\* ... that of any type, ...
LEMMA SameSchema == Contract!Schema = Schema
BY SameDominant DEF Contract!Schema, Schema, Contract!SchemaWithin, SchemaWithin,
       Contract!Described, Described, Contract!ObjectOf, ObjectOf, Contract!PropertyName, PropertyName,
       Contract!LeafSchema, LeafSchema, Contract!IsLeaf, IsLeaf, Contract!IsWrapper, IsWrapper,
       Contract!Wrapped, Wrapped, Contract!IsNamed, IsNamed, Contract!IsObject, IsObject,
       Contract!Ref, Ref, Contract!AnySchema, AnySchema, Contract!MarshalOptions, MarshalOptions,
       Contract!Cardinality, Cardinality

\* ... or of what lacks one, ...
LEMMA SameSchemaFor == ASSUME NEW t, NEW o PROVE Contract!SchemaFor(t, o) = SchemaFor(t, o)
BY SameSchema DEF Contract!SchemaFor, SchemaFor, Contract!AnySchema, AnySchema

\* ... and a map with one entry more.
LEMMA SamePut == ASSUME NEW m, NEW x, NEW y PROVE Contract!Put(m, x, y) = Put(m, x, y)
BY DEF Contract!Put, Put

\* What the document shows of the table.
Components == [k \in {k \in DOMAIN schemas : Working => k \in Documented} |-> schemas[k]]

\* It is what the operations so far need.
LEMMA ComponentsAre ==
  ASSUME NEW T, KInv(T), Documented \subseteq DOMAIN schemas
  PROVE  Components = [k \in Documented |-> schemas[k]]
<1>1. Working \/ DOMAIN schemas \subseteq Documented
  <2>1. control = Overflow => Working
    BY Controls DEF Working
  <2>2. control # Overflow => Working \/ DOMAIN schemas \subseteq Documented
    BY DEF KInv, KeptWith
  <2> QED BY <2>1, <2>2
<1>2. {k \in DOMAIN schemas : Working => k \in Documented} = Documented
  BY <1>1
<1> QED BY <1>2 DEF Components

\* At first it is empty.
LEMMA InitContract == Init => Contract!Init
<1> SUFFICES ASSUME Init PROVE Contract!Init
  OBVIOUS
<1>1. /\ operations \in OperationLists /\ next = 1 /\ schemas = EmptyMap /\ items = EmptyMap
  BY DEF Init
<1>2. {k \in DOMAIN schemas : Working => k \in Documented} = {}
  BY <1>1 DEF EmptyMap
<1>3. Components = Contract!EmptyMap
  BY <1>2 DEF Components, Contract!EmptyMap
<1>4. items = Contract!EmptyMap
  BY <1>1 DEF EmptyMap, Contract!EmptyMap
<1> QED BY <1>1, <1>3, <1>4 DEF Contract!Init, Components

\* A step within an operation leaves what is documented as it is.
LEMMA Untouched ==
  ASSUME NEW T, WInv, NEW Q, KeptWith(T, Q), Next, ~assign
  PROVE  /\ UNCHANGED <<operations, next, items>>
         /\ \A k \in Documented : k \in DOMAIN schemas' /\ schemas'[k] = schemas[k]
<1>1. Documented \subseteq DOMAIN schemas /\ \A k \in Documented : ~OpenIn(stack, k)
  BY DEF KeptWith, Sound, TableOf
<1>2. CASE UNCHANGED <<operations, next, items, schemas>>
  BY <1>1, <1>2
<1>3. ASSUME NEW t \in Types, Enter(t)
      PROVE  /\ UNCHANGED <<operations, next, items>>
             /\ \A k \in Documented : k \in DOMAIN schemas' /\ schemas'[k] = schemas[k]
  <2>1. /\ UNCHANGED <<operations, next, items>> /\ Shape[t].key \notin DOMAIN schemas
        /\ schemas' = Put(schemas, Shape[t].key, Placeholder)
    BY <1>3 DEF Enter, Calling, walk
  <2> QED BY <1>1, <2>1 DEF Put
<1>4. CASE Complete
  <2>1. /\ UNCHANGED <<operations, next, items>> /\ top.role = "component"
        /\ schemas' = Put(schemas, Shape[top.type].key, ObjectOf(top.props))
    BY <1>4 DEF Complete, Looping, walk
  <2>2. Shape[top.type].key \notin Documented
    <3>1. stack # <<>> /\ top = stack[1]
      BY <1>4, AtEnd DEF Complete
    <3>2. 1 \in 1 .. Len(stack)
      BY <3>1, Innermost
    <3>3. Opens(stack[1], Shape[top.type].key)
      BY <2>1, <3>1 DEF Opens
    <3>4. OpenIn(stack, Shape[top.type].key)
      BY <3>2, <3>3 DEF OpenIn
    <3> QED BY <1>1, <3>4
  <2> QED BY <1>1, <2>1, <2>2 DEF Put
<1>5. CASE Root \/ Finish
  BY <1>2, <1>5 DEF Root, Finish
<1>6. ASSUME NEW t \in Types, Describe(t) \/ Wrap(t) \/ Nest(t) \/ Known(t)
      PROVE  UNCHANGED <<operations, next, items, schemas>>
  BY <1>6 DEF Describe, Wrap, Nest, Known, Calling, walk
<1>7. CASE Skip \/ Flatten \/ Descend \/ Inlined \/ Flattened
  BY <1>2, <1>7 DEF Skip, Flatten, Descend, Inlined, Flattened, Looping, walk
<1>8. CASE ToRoot \/ ToWrapper \/ ToField
  BY <1>2, <1>8 DEF ToRoot, ToWrapper, ToField, walk
<1> QED BY <1>2, <1>3, <1>4, <1>5, <1>6, <1>7, <1>8 DEF Next

\* So it is for the document.
LEMMA WithinOperation ==
  ASSUME NEW T, Setting(T), WInv, KInv(T), KInv(T)', Next, ~assign, control # Overflow
  PROVE  UNCHANGED <<operations, next, items, Components>>
<1>1. PICK Q \in SUBSET T : KeptWith(T, Q)
  BY DEF KInv
<1>2. /\ UNCHANGED <<operations, next, items>>
      /\ \A k \in Documented : k \in DOMAIN schemas' /\ schemas'[k] = schemas[k]
  BY <1>1, Untouched
<1>3. Documented' = Documented
  BY <1>2 DEF Documented
<1>4. Documented \subseteq DOMAIN schemas
  BY <1>1 DEF KeptWith, Sound, TableOf
<1>5. Components = [k \in Documented |-> schemas[k]]
  BY <1>4, ComponentsAre
<1>6. Working' \/ DOMAIN schemas' \subseteq Documented'
  <2>1. control' = Overflow => Working'
    BY Controls DEF Working
  <2>2. control' # Overflow => Working' \/ DOMAIN schemas' \subseteq Documented'
    BY DEF KInv, KeptWith
  <2> QED BY <2>1, <2>2
<1>7. {k \in DOMAIN schemas' : Working' => k \in Documented'} = Documented
  BY <1>2, <1>3, <1>6
<1>8. Components' = [k \in Documented |-> schemas'[k]]
  BY <1>7 DEF Components
<1> QED BY <1>2, <1>5, <1>8

\* The content of an operation is what it has been described with.
LEMMA ContentIs ==
  ASSUME NEW Q, Answered(Q), Len(described) = 3
  PROVE  Content(op, described) = [tag |-> op.tag, body |-> Contract!SchemaFor(op.body, op.marshal),
                                   response |-> Contract!SchemaFor(op.response, op.marshal),
                                   default |-> Contract!SchemaFor(ProblemDetails, op.marshal)]
<1>1. \A i \in 1 .. 3 : described[i] = SchemaFor(Roots(op)[i], op.marshal)
  BY DEF Answered
<1>2. /\ described[1] = SchemaFor(op.body, op.marshal)
      /\ described[2] = SchemaFor(op.response, op.marshal)
      /\ described[3] = SchemaFor(ProblemDetails, op.marshal)
  <2>1. 1 \in 1 .. 3 /\ 2 \in 1 .. 3 /\ 3 \in 1 .. 3
    OBVIOUS
  <2>2. Roots(op)[1] = op.body /\ Roots(op)[2] = op.response /\ Roots(op)[3] = ProblemDetails
    BY DEF Roots
  <2> QED BY <1>1, <2>1, <2>2
<1> QED BY <1>2, SameSchemaFor DEF Content

\* The types that an operation needs and that have no component so far, and
\* the components with theirs.
Fresh(c, o) == {t \in Contract!Needed(o) : Shape[t].key \notin DOMAIN c}

Grown(c, fresh, o) ==
  [k \in DOMAIN c \cup {Shape[t].key : t \in fresh} |->
     IF k \in DOMAIN c THEN c[k]
     ELSE Contract!Described(CHOOSE t \in fresh : Shape[t].key = k, o.marshal, Contract!Schema[o.marshal])]

\* The components grow by those that the operation needs.
LEMMA ComponentsGrow ==
  ASSUME NEW T, Setting(T), WInv, KInv(T)', NEW Q \in SUBSET T, KeptWith(T, Q), assign,
         NEW fresh, fresh = Fresh(Components, op)
  PROVE  Components' = Grown(Components, fresh, op)
<1>1. /\ control = Idle /\ Len(described) = 3 /\ operations' = operations /\ next' = next + 1
      /\ schemas' = schemas
  BY DEF assign
<1>2. /\ next \in 1 .. Len(operations)
      /\ Needed(op) \subseteq T /\ \A t \in Needed(op) : IsNamed(t)
      /\ DOMAIN schemas = Documented \cup {Shape[t].key : t \in Needed(op)}
      /\ \A t \in Needed(op) : Shape[t].key \notin Documented
           => schemas[Shape[t].key] = Described(t, op.marshal, Schema[op.marshal])
  BY <1>1, TableAtEnd
<1>3. Documented \subseteq DOMAIN schemas
  BY <1>2
<1>4. Components = [k \in Documented |-> schemas[k]]
  <2>1. KInv(T)
    BY DEF KInv
  <2> QED BY <1>3, <2>1, ComponentsAre
<1>5. next \in Nat \ {0}
  <2>1. operations \in Seq(OperationInfo)
    BY OpenAPIAssumption DEF WInv, Place
  <2> QED BY <1>2, <2>1
<1>6. Documented' = DOMAIN schemas
  BY <1>1, <1>2, <1>5, DocumentedMore
<1>7. {k \in DOMAIN schemas' : Working' => k \in Documented'} = DOMAIN schemas
  BY <1>1, <1>6
<1>8. Components' = [k \in DOMAIN schemas |-> schemas[k]]
  BY <1>1, <1>7 DEF Components
<1>9. fresh = {t \in Needed(op) : Shape[t].key \notin Documented}
  BY <1>4, SameNeeded DEF Fresh
<1>10. DOMAIN schemas = DOMAIN Components \cup {Shape[t].key : t \in fresh}
  BY <1>2, <1>4, <1>9
<1>11. ASSUME NEW k \in DOMAIN schemas, k \notin Documented
       PROVE  schemas[k] = Contract!Described(CHOOSE t \in fresh : Shape[t].key = k, op.marshal, Contract!Schema[op.marshal])
  <2>1. PICK u \in fresh : Shape[u].key = k
    BY <1>2, <1>9, <1>11
  <2>2. PICK v : v = CHOOSE t \in fresh : Shape[t].key = k
    OBVIOUS
  <2>3. v \in fresh /\ Shape[v].key = k
    BY <2>1, <2>2
  <2>4. schemas[k] = Described(v, op.marshal, Schema[op.marshal])
    BY <1>2, <1>9, <2>3
  <2> QED BY <2>2, <2>4, SameDescribed, SameSchema
<1>12. \A k \in DOMAIN schemas : k \in Documented => schemas[k] = Components[k]
  BY <1>4
<1>13. DOMAIN Components = Documented
  BY <1>4
<1> QED BY <1>8, <1>10, <1>11, <1>12, <1>13 DEF Grown

\* This is what the document asks of a step.
LEMMA IsDocumented ==
  ASSUME next <= Len(operations), next' = next + 1, UNCHANGED operations,
         Components' = Grown(Components, Fresh(Components, operations[next]), operations[next]),
         \E at \in DOMAIN items' :
           /\ Contract!IsPathOf(at[1], operations[next].path) /\ at[2] = operations[next].method
           /\ items' = Contract!Put(items, at,
                [tag |-> operations[next].tag,
                 body |-> Contract!SchemaFor(operations[next].body, operations[next].marshal),
                 response |-> Contract!SchemaFor(operations[next].response, operations[next].marshal),
                 default |-> Contract!SchemaFor(ProblemDetails, operations[next].marshal)])
  PROVE  Contract!Document
BY Zenon DEF Contract!Document, Components, Grown, Fresh

\* An operation is documented.
LEMMA AssignDocuments ==
  ASSUME NEW T, Setting(T), WInv, KInv(T)', NEW Q \in SUBSET T, KeptWith(T, Q), assign
  PROVE  Contract!Document
<1>1. /\ control = Idle /\ Len(described) = 3 /\ operations' = operations /\ next' = next + 1
      /\ items' = Put(items, <<normalizePath(op.path), op.method>>, Content(op, described))
  BY DEF assign
<1>2. next \in 1 .. Len(operations) /\ op \in OperationInfo
  BY <1>1, TableAtEnd
<1>3. next <= Len(operations)
  <2>1. operations \in Seq(OperationInfo)
    BY OpenAPIAssumption DEF WInv, Place
  <2> QED BY <1>2, <2>1
<1>4. PICK at : at = <<normalizePath(op.path), op.method>>
  OBVIOUS
<1>5. Contract!IsPathOf(at[1], op.path) /\ at[2] = op.method
  BY <1>2, <1>4, PathIsNormal DEF OperationInfo
<1>6. items' = Contract!Put(items, at, [tag |-> op.tag, body |-> Contract!SchemaFor(op.body, op.marshal),
                                        response |-> Contract!SchemaFor(op.response, op.marshal),
                                        default |-> Contract!SchemaFor(ProblemDetails, op.marshal)])
  <2>1. Answered(Q)
    BY DEF KeptWith
  <2> QED BY <1>1, <1>4, <2>1, ContentIs, SamePut
<1>7. at \in DOMAIN items'
  BY <1>6 DEF Contract!Put
<1>8. Components' = Grown(Components, Fresh(Components, op), op)
  BY ComponentsGrow
<1> QED BY <1>1, <1>3, <1>5, <1>6, <1>7, <1>8, IsDocumented DEF op

\* So every step documents one operation, or none.
LEMMA NextContract ==
  ASSUME NEW T, Setting(T), WInv, KInv(T), KInv(T)', [Next]_vars
  PROVE  [Contract!Document]_(Contract!vars)
<1>1. CASE UNCHANGED vars
  <2>1. /\ operations' = operations /\ next' = next /\ described' = described /\ control' = control
        /\ schemas' = schemas /\ items' = items
    BY <1>1 DEF vars
  <2>2. (Working' <=> Working) /\ Documented' = Documented
    BY <2>1 DEF Working, Documented
  <2>3. Components' = Components
    BY <2>1, <2>2 DEF Components
  <2> QED BY <2>1, <2>3 DEF Contract!vars, Components
<1>2. CASE control = Overflow
  BY <1>1, <1>2, Stuck
<1>3. CASE control # Overflow /\ Next /\ ~assign
  BY <1>3, WithinOperation DEF Contract!vars, Components
<1>4. CASE control # Overflow /\ assign
  <2>1. PICK Q \in SUBSET T : KeptWith(T, Q)
    BY <1>4 DEF KInv
  <2> QED BY <1>4, <2>1, AssignDocuments
<1> QED BY <1>1, <1>2, <1>3, <1>4

\* Generate implements the abstract document: when all that its operations ask
\* for lies within orderly types, every step documents one operation, all of it
\* and with nothing changed that was there, or leaves the document alone.  In
\* particular no schema differs from what protojson or encoding/json make of
\* its type, whatever the cycles among the messages and named structs, and in
\* whatever order they are met (the memo of messageRef and structRef).
THEOREM DocumentIsKept ==
  ASSUME NEW T \in SUBSET Types, Orderly(T), ProblemDetails \in T,
         \A list \in OperationLists : \A i \in DOMAIN list : {list[i].body, list[i].response} \cap Types \subseteq T
  PROVE  Spec => KeepsDocument
<1>1. Setting(T)
  BY DEF Setting
<1>2. Init => WInv /\ KInv(T) /\ Contract!Init
  BY <1>1, InitWInv, InitKInv, InitContract
<1>3. WInv /\ KInv(T) /\ [Next]_vars => WInv' /\ KInv(T)' /\ [Contract!Document]_(Contract!vars)
  BY <1>1, NextWInv, NextKInv, NextContract
<1> QED BY <1>2, <1>3, PTL DEF Spec, KeepsDocument, Contract!Spec

-----------------------------------------------------------------------------
(* Orderly types need no more than a deep stack                            *)

\* The activations are of the types in question.
Within(T) == \A i \in 1 .. Len(stack) : stack[i].type \in T

\* A stack that is exhausted stays as it is.
LEMMA Exhausts ==
  ASSUME Next, control # Overflow, control' = Overflow
  PROVE  stack' = stack
<1>1. ASSUME NEW f, NEW do, Push(f, do), do # Overflow
      PROVE  stack' = stack
  BY <1>1 DEF Push
<1>2. Fields # Overflow /\ Idle # Overflow /\ Done # Overflow
      /\ (\A t : Call(t) # Overflow) /\ (\A s : Return(s) # Overflow)
  BY Controls
<1>3. CASE Root \/ assign \/ Finish
  BY <1>3 DEF Root, assign, Finish
<1>4. ASSUME NEW t \in Types, Describe(t) \/ Known(t)
      PROVE  stack' = stack
  BY <1>4 DEF Describe, Known
<1>5. ASSUME NEW t \in Types, Wrap(t) \/ Nest(t) \/ Enter(t)
      PROVE  stack' = stack
  BY <1>1, <1>2, <1>5 DEF Wrap, Nest, Enter
<1>6. CASE Skip \/ Flatten
  BY <1>1, <1>2, <1>6 DEF Skip, Flatten
<1>7. CASE Descend \/ Complete \/ Inlined
  BY <1>2, <1>7 DEF Descend, Complete, Inlined
<1>8. CASE Flattened
  BY <1>8 DEF Flattened
<1>9. CASE ToRoot \/ ToWrapper \/ ToField
  BY <1>2, <1>9 DEF ToRoot, ToWrapper, ToField
<1> QED BY <1>3, <1>4, <1>5, <1>6, <1>7, <1>8, <1>9 DEF Next

\* A chain is of them.
LEMMA ChainWithin ==
  ASSUME NEW T, NEW s, NEW w, Chain(s, T, w)
  PROVE  \A i \in 1 .. Len(s) : s[i].type \in T
<1>1. ASSUME NEW f, NEW b, Link(f, b, T, w)
      PROVE  f.type \in T
  BY <1>1 DEF Link
<1> QED BY <1>1 DEF Chain

\* A step keeps the activations within these types.
LEMMA NextWithin ==
  ASSUME NEW T, KInv(T)', Within(T), [Next]_vars
  PROVE  Within(T)'
<1>1. CASE control' # Overflow
  <2>1. PICK Q \in SUBSET T : KeptWith(T, Q)'
    BY <1>1 DEF KInv
  <2>2. PICK w : Chain(stack', T, w)
    BY <2>1 DEF KeptWith, Sound
  <2> QED BY <2>2, ChainWithin DEF Within
<1>2. CASE UNCHANGED vars
  BY <1>2 DEF vars, Within
<1>3. CASE control = Overflow
  BY <1>2, <1>3, Stuck
<1>4. CASE control' = Overflow /\ control # Overflow /\ Next
  BY <1>4, Exhausts DEF Within
<1> QED BY <1>1, <1>2, <1>3, <1>4

\* Among orderly types nothing is endless.
LEMMA NothingEndless ==
  ASSUME NEW T, Orderly(T), WInv, Within(T), OverflowsOnEndlessTypes
  PROVE  control # Overflow
<1> SUFFICES ASSUME control = Overflow PROVE FALSE
  OBVIOUS
<1>1. DOMAIN stack = 1 .. Len(stack) /\ Len(stack) \in Nat
  BY DEF WInv, Activations, IsStack, IsSeq
<1>2. PICK i, j \in 1 .. Len(stack) :
        /\ i < j /\ stack[i].type = stack[j].type
        /\ \A k \in i .. j - 1 : stack[k].type \in Unguarded(stack[k + 1].type)
  BY <1>1 DEF OverflowsOnEndlessTypes
<1> DEFINE S == {stack[k].type : k \in i .. j - 1}
<1>3. S \in SUBSET T /\ stack[i].type \in S
  BY <1>1, <1>2 DEF Within
<1>4. PICK t \in S : Unguarded(t) \cap S = {}
  BY <1>3 DEF Orderly
<1>5. PICK k \in i .. j - 1 : t = stack[k + 1].type
  <2>1. PICK k \in i .. j - 1 : t = stack[k].type
    OBVIOUS
  <2>2. CASE k = i
    <3>1. j - 1 \in i .. j - 1 /\ (j - 1) + 1 = j
      BY <1>1, <1>2
    <3>2. t = stack[j].type
      BY <1>2, <2>1, <2>2
    <3> HIDE DEF S
    <3> QED BY <3>1, <3>2
  <2>3. CASE k # i
    <3>1. k - 1 \in i .. j - 1 /\ (k - 1) + 1 = k
      BY <1>1, <1>2, <2>3
    <3> QED BY <2>1, <3>1
  <2> QED BY <2>2, <2>3
<1>6. stack[k].type \in Unguarded(t) \cap S
  BY <1>2, <1>5
<1> QED BY <1>4, <1>6

\* A deep stack is never exhausted by them: the recursion of messageSchema and
\* structSchema stops at the placeholders that they leave in generator.schemas.
THEOREM OrderlyTypesFit ==
  ASSUME NEW T \in SUBSET Types, Orderly(T), ProblemDetails \in T,
         \A list \in OperationLists : \A i \in DOMAIN list : {list[i].body, list[i].response} \cap Types \subseteq T,
         IsFiniteSet(Keys), MaxDepth > (Cardinality(Keys) + 1) * Cardinality(Types)
  PROVE  Spec => [](control # Overflow)
<1>1. Setting(T) /\ IsFiniteSet(Types)
  BY SchemasAssumption DEF Setting
<1>2. Init => WInv /\ KInv(T)
  BY <1>1, InitWInv, InitKInv
<1>3. WInv /\ KInv(T) /\ [Next]_vars => WInv' /\ KInv(T)'
  BY <1>1, NextWInv, NextKInv
<1>4. Init => Within(T)
  BY DEF Init, Within
<1>5. KInv(T)' /\ Within(T) /\ [Next]_vars => Within(T)'
  BY NextWithin
<1>6. WInv /\ Within(T) /\ OverflowsOnEndlessTypes => control # Overflow
  BY NothingEndless
<1>7. Spec => []OverflowsOnEndlessTypes
  BY <1>1, OverflowsOnCycles
<1> QED BY <1>2, <1>3, <1>4, <1>5, <1>6, <1>7, PTL DEF Spec

=============================================================================
