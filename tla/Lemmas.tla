------------------------------- MODULE Lemmas -------------------------------
(***************************************************************************)
(* Facts about Min and Max of module FiniteSetsExt, and about sequences    *)
(* whose elements are of no particular set.  Min and Max are defined by    *)
(* CHOOSE: that they return an element of the set needs that there is a    *)
(* least and a greatest one.                                               *)
(***************************************************************************)
EXTENDS Integers, Sequences, FiniteSetsExt, WellFoundedInduction, TLAPS

\* Every non-empty set of naturals has a least element.
LEMMA SmallestInNat ==
  ASSUME NEW I \in SUBSET Nat, I # {}
  PROVE  \E n \in I : \A m \in I : n <= m
<1>1. PICK R : /\ IsWellFoundedOn(R, Nat)
               /\ \A i, j \in Nat : i < j => <<i, j>> \in R
  <2>1. IsWellFoundedOn(OpToRel(<, Nat), Nat)
    BY NatLessThanWellFounded
  <2>2. \A i, j \in Nat : i < j => <<i, j>> \in OpToRel(<, Nat)
    BY DEF OpToRel
  <2> QED BY <2>1, <2>2
<1>2. PICK x \in I : \A y \in I : ~(<<y, x>> \in R)
  <2>1. IsWellFoundedOn(R, Nat) /\ I \subseteq Nat /\ I # {}
    BY <1>1
  <2> QED BY <2>1, WFMin, Zenon
<1>3. \A y \in I : ~(y < x)
  BY <1>1, <1>2
<1> QED BY <1>3

\* What holds of 0, and of each number up to N if of the one before, holds of
\* all of them.
LEMMA CountingUp ==
  ASSUME NEW N \in Nat, NEW P, 0 \in P, \A n \in 1 .. N : n - 1 \in P => n \in P
  PROVE  \A n \in 0 .. N : n \in P
<1> DEFINE I == (0 .. N) \ P
<1> SUFFICES ASSUME I # {} PROVE FALSE
  OBVIOUS
<1>1. I \in SUBSET Nat
  OBVIOUS
<1>2. PICK n \in I : \A m \in I : n <= m
  <2> HIDE DEF I
  <2> QED BY <1>1, SmallestInNat
<1>3. n \in 1 .. N /\ n - 1 \in 0 .. N /\ ~(n <= n - 1)
  OBVIOUS
<1>4. n - 1 \in P
  BY <1>2, <1>3
<1> QED BY <1>2, <1>3, <1>4

\* Min of a non-empty set of naturals is its least element.
LEMMA MinType ==
  ASSUME NEW I \in SUBSET Nat, I # {}
  PROVE  Min(I) \in I /\ \A y \in I : Min(I) <= y
<1>1. PICK n \in I : \A m \in I : n <= m
  BY SmallestInNat
<1> QED BY <1>1 DEF Min

\* Max of a non-empty set of indices is its greatest element.
LEMMA MaxType ==
  ASSUME NEW n \in Nat, NEW I \in SUBSET (1..n), I # {}
  PROVE  Max(I) \in I /\ \A y \in I : Max(I) >= y
<1> DEFINE J == {n - i : i \in I}
<1>1. \A i \in I : i \in 1..n /\ n - i \in Nat
  OBVIOUS
<1>2. J \in SUBSET Nat /\ J # {}
  BY <1>1
<1>3. PICK m \in J : \A j \in J : m <= j
  BY <1>2, SmallestInNat
<1>4. PICK i \in I : m = n - i
  BY <1>3
<1>5. \A y \in I : i >= y
  <2> TAKE y \in I
  <2>1. n - i <= n - y
    BY <1>3, <1>4
  <2> QED BY <2>1, <1>1
<1> QED BY <1>5 DEF Max

\* The last index of a test on a sequence of n elements, 0 without one.
LEMMA LastIndexType ==
  ASSUME NEW n \in Nat, NEW I \in SUBSET (1..n)
  PROVE  (IF I # {} THEN Max(I) ELSE 0) \in 0..n
<1>1. CASE I = {}
  BY <1>1
<1>2. CASE I # {}
  <2>1. Max(I) \in 1..n
    BY <1>2, MaxType
  <2> QED BY <1>2, <2>1
<1> QED BY <1>1, <1>2

-----------------------------------------------------------------------------
(* Sequences of anything                                                   *)

IsSeq(s) == Len(s) \in Nat /\ s = [i \in 1 .. Len(s) |-> s[i]]

\* Such a sequence has its elements in any set that contains them.
LEMMA SeqOfElements ==
  ASSUME NEW s, IsSeq(s), NEW S, \A i \in 1 .. Len(s) : s[i] \in S
  PROVE  s \in Seq(S)
<1> DEFINE n == Len(s)
<1>1. n \in Nat /\ s = [i \in 1 .. n |-> s[i]]
  BY DEF IsSeq
<1> HIDE DEF n
<1>2. s \in [1 .. n -> S]
  BY <1>1 DEF n
<1> QED BY <1>1, <1>2

\* The members of Seq(S) are such sequences.
LEMMA SeqIsSeq ==
  ASSUME NEW S, NEW s \in Seq(S)
  PROVE  IsSeq(s)
BY DEF IsSeq

\* One element in front.
LEMMA Pushed ==
  ASSUME NEW s, IsSeq(s), NEW f
  PROVE  /\ IsSeq(<<f>> \o s) /\ Len(<<f>> \o s) = Len(s) + 1 /\ (<<f>> \o s)[1] = f
         /\ \A i \in 1 .. Len(s) : (<<f>> \o s)[i + 1] = s[i]
<1> DEFINE S == {s[i] : i \in 1 .. Len(s)} \cup {f}
<1>1. s \in Seq(S) /\ <<f>> \in Seq(S) /\ Len(<<f>>) = 1 /\ <<f>>[1] = f
  BY SeqOfElements
<1> HIDE DEF S
<1>2. <<f>> \o s \in Seq(S)
  BY <1>1
<1>3. /\ Len(<<f>> \o s) = Len(s) + 1 /\ (<<f>> \o s)[1] = f
      /\ \A i \in 1 .. Len(s) : (<<f>> \o s)[i + 1] = s[i]
  BY <1>1
<1> QED BY <1>2, <1>3, SeqIsSeq

\* All but the first.
LEMMA Popped ==
  ASSUME NEW s, IsSeq(s), s # <<>>
  PROVE  /\ Len(s) \in Nat \ {0}
         /\ IsSeq(Tail(s)) /\ Len(Tail(s)) = Len(s) - 1
         /\ \A i \in 1 .. Len(s) - 1 : Tail(s)[i] = s[i + 1]
<1> DEFINE S == {s[i] : i \in 1 .. Len(s)}
<1>1. s \in Seq(S)
  BY SeqOfElements
<1> HIDE DEF S
<1>2. Tail(s) \in Seq(S) /\ Len(Tail(s)) = Len(s) - 1 /\ Len(s) \in Nat \ {0}
      /\ \A i \in 1 .. Len(s) - 1 : Tail(s)[i] = s[i + 1]
  BY <1>1
<1> QED BY <1>2, SeqIsSeq

\* Another first one.
LEMMA Replaced ==
  ASSUME NEW s, IsSeq(s), s # <<>>, NEW f
  PROVE  LET t == [s EXCEPT ![1] = f]
         IN  /\ IsSeq(t) /\ Len(t) = Len(s) /\ Len(s) \in Nat \ {0}
             /\ t[1] = f /\ \A i \in 2 .. Len(s) : t[i] = s[i]
<1> DEFINE S == {s[i] : i \in 1 .. Len(s)} \cup {f}
           t == [s EXCEPT ![1] = f]
<1>1. s \in Seq(S) /\ f \in S
  BY SeqOfElements
<1> HIDE DEF S
<1>2. Len(s) \in Nat \ {0} /\ DOMAIN s = 1 .. Len(s)
  BY <1>1
<1>3. t \in Seq(S) /\ Len(t) = Len(s) /\ t[1] = f /\ \A i \in 2 .. Len(s) : t[i] = s[i]
  BY <1>1, <1>2
<1> HIDE DEF t
<1>4. IsSeq(t)
  BY <1>3, SeqIsSeq
<1> QED BY <1>2, <1>3, <1>4 DEF t

\* One more at the end of a sequence.
LEMMA Appended ==
  ASSUME NEW s, IsSeq(s), NEW e
  PROVE  IsSeq(Append(s, e)) /\ Len(Append(s, e)) = Len(s) + 1 /\ Append(s, e) # <<>>
<1> DEFINE S == {s[i] : i \in 1 .. Len(s)} \cup {e}
           t == Append(s, e)
<1>1. s \in Seq(S) /\ e \in S
  BY SeqOfElements
<1> HIDE DEF S
<1>2. t \in Seq(S) /\ Len(t) = Len(s) + 1 /\ Len(s) \in Nat
  BY <1>1
<1> HIDE DEF t
<1>3. IsSeq(t) /\ t # <<>>
  BY <1>2, SeqIsSeq
<1> QED BY <1>2, <1>3 DEF t

\* A part of a sequence.
LEMMA Cut ==
  ASSUME NEW s, IsSeq(s), NEW m \in 1 .. Len(s), NEW n \in 1 .. Len(s), m <= n
  PROVE  /\ IsSeq(SubSeq(s, m, n)) /\ Len(SubSeq(s, m, n)) = n - m + 1
         /\ \A x \in 1 .. n - m + 1 : SubSeq(s, m, n)[x] = s[m - 1 + x]
<1> DEFINE S == {s[i] : i \in 1 .. Len(s)}
           t == SubSeq(s, m, n)
<1>1. s \in Seq(S) /\ Len(s) \in Nat
  BY SeqOfElements DEF IsSeq
<1> HIDE DEF S
<1>2. t \in Seq(S) /\ Len(t) = n - m + 1
  BY <1>1
<1>3. \A x \in 1 .. n - m + 1 : t[x] = s[m - 1 + x]
  <2> TAKE x \in 1 .. n - m + 1
  <2>1. m - 1 + x = m + x - 1
    BY <1>1
  <2> QED BY <1>1, <2>1
<1> HIDE DEF t
<1>4. IsSeq(t)
  BY <1>2, SeqIsSeq
<1> QED BY <1>2, <1>3, <1>4 DEF t

=============================================================================
