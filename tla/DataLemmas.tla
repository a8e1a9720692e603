------------------------------ MODULE DataLemmas ------------------------------
(***************************************************************************)
(* Facts about sequences, least elements and folds that the proofs of      *)
(* several components rest on.                                             *)
(***************************************************************************)
EXTENDS Integers, SequencesExt, FiniteSetTheorems, WellFoundedInduction, TLAPS

-------------------------------------------------------------------------------
(* Taking an element out of a sequence.                                    *)

\* Taking one place out of a sequence: what is left, and where it was.
LEMMA RemoveAtParts ==
  ASSUME NEW S, NEW s \in Seq(S), NEW i \in DOMAIN s
  PROVE  /\ RemoveAt(s, i) \in Seq(S)
         /\ Len(RemoveAt(s, i)) = Len(s) - 1
         /\ \A j \in 1..Len(s) - 1 : RemoveAt(s, i)[j] = IF j < i THEN s[j] ELSE s[j + 1]
<1> DEFINE front == SubSeq(s, 1, i - 1)
           rear == SubSeq(s, i + 1, Len(s))
<1>1. i \in 1..Len(s) /\ Len(s) \in Nat
  OBVIOUS
<1>2. /\ front \in Seq(S) /\ Len(front) = i - 1
      /\ \A j \in 1..i - 1 : front[j] = s[j]
  BY <1>1
<1>3. /\ rear \in Seq(S) /\ Len(rear) = Len(s) - i
      /\ \A j \in 1..Len(s) - i : rear[j] = s[i + j]
  BY <1>1
<1>4. RemoveAt(s, i) = front \o rear
  BY DEF RemoveAt
<1> HIDE DEF front, rear
<1> QED
  BY <1>1, <1>2, <1>3, <1>4, SMTT(30)

\* In a sequence without repetitions the first place of an element is its only one.
LEMMA RemoveFirstAt ==
  ASSUME NEW S, NEW s \in Seq(S), IsInjective(s), NEW i \in DOMAIN s
  PROVE  RemoveFirst(s, s[i]) = RemoveAt(s, i)
<1>1. \E j \in 1..Len(s) : s[j] = s[i]
  BY DEF IsInjective
<1>2. {j \in 1..Len(s) : s[j] = s[i]} = {i}
  BY DEF IsInjective
<1>3. SelectInSeq(s, LAMBDA x : x = s[i]) = i
  BY <1>2 DEF SelectInSeq, Min
<1> QED
  BY <1>1, <1>3 DEF RemoveFirst

\* What is left when an element is taken out: the others, each once, and whoever
\* stood before one of them still does if anybody else is.
LEMMA RemoveFirstParts ==
  ASSUME NEW S, NEW s \in Seq(S), IsInjective(s), NEW e
  PROVE  LET r == RemoveFirst(s, e)
         IN  /\ r \in Seq(S) /\ IsInjective(r)
             /\ ToSet(r) = ToSet(s) \ {e}
             /\ \A j \in DOMAIN s : s[j] # e =>
                  \E k \in DOMAIN r : /\ r[k] = s[j] /\ k <= j
                                      /\ \A m \in 1..k - 1 : \E n \in 1..j - 1 : r[m] = s[n]
<1> DEFINE r == RemoveFirst(s, e)
<1>0. Len(s) \in Nat /\ DOMAIN s = 1..Len(s)
  OBVIOUS
<1>1. CASE e \notin ToSet(s)
  <2>1. r = s
    BY <1>0, <1>1 DEF RemoveFirst, ToSet
  <2> HIDE DEF r
  <2>2. \A j \in DOMAIN s : \A m \in 1..j - 1 : \E n \in 1..j - 1 : r[m] = s[n]
    BY <2>1
  <2> QED
    BY <1>0, <1>1, <2>1, <2>2 DEF r
<1>2. CASE e \in ToSet(s)
  <2>1. PICK i \in DOMAIN s : s[i] = e
    BY <1>2 DEF ToSet
  <2>2. r = RemoveAt(s, i)
    BY <2>1, RemoveFirstAt
  <2>3. /\ r \in Seq(S) /\ Len(r) = Len(s) - 1 /\ DOMAIN r = 1..Len(s) - 1
        /\ \A j \in 1..Len(s) - 1 : r[j] = IF j < i THEN s[j] ELSE s[j + 1]
    <3> HIDE DEF r
    <3>1. /\ r \in Seq(S) /\ Len(r) = Len(s) - 1
          /\ \A j \in 1..Len(s) - 1 : r[j] = IF j < i THEN s[j] ELSE s[j + 1]
      BY <2>1, <2>2, RemoveAtParts, Zenon
    <3> QED
      BY <3>1
  <2>4. \A a, b \in 1..Len(s) : s[a] = s[b] => a = b
    BY <1>0 DEF IsInjective
  <2> HIDE DEF r
  <2>5. \A a, b \in DOMAIN r : r[a] = r[b] => a = b
    BY <1>0, <2>1, <2>3, <2>4
  <2>6. ASSUME NEW j \in DOMAIN s, s[j] # e
        PROVE  \E k \in DOMAIN r : /\ r[k] = s[j] /\ k <= j
                                   /\ \A m \in 1..k - 1 : \E n \in 1..j - 1 : r[m] = s[n]
    <3>1. CASE j < i
      <4>1. j \in DOMAIN r /\ r[j] = s[j]
        BY <1>0, <2>1, <2>3, <3>1
      <4>2. \A m \in 1..j - 1 : r[m] = s[m]
        BY <1>0, <2>1, <2>3, <3>1
      <4> QED
        BY <4>1, <4>2, <1>0
    <3>2. CASE j > i
      <4>1. j - 1 \in DOMAIN r /\ r[j - 1] = s[j]
        BY <1>0, <2>1, <2>3, <3>2
      <4>2. ASSUME NEW m \in 1..j - 1 - 1 PROVE \E n \in 1..j - 1 : r[m] = s[n]
        <5>1. /\ m \in 1..Len(s) - 1 /\ m \in 1..j - 1 /\ m + 1 \in 1..j - 1
              /\ r[m] = s[m] \/ r[m] = s[m + 1]
          BY <1>0, <2>1, <2>3, <3>2, <4>2
        <5> QED
          BY <5>1
      <4> QED
        BY <4>1, <4>2, <1>0
    <3> QED
      BY <1>0, <2>1, <2>6, <3>1, <3>2
  <2>7. ToSet(r) = ToSet(s) \ {e}
    <3>1. \A k \in DOMAIN r : r[k] \in ToSet(s) /\ r[k] # e
      BY <1>0, <2>1, <2>3, <2>4 DEF ToSet
    <3>2. \A j \in DOMAIN s : s[j] # e => s[j] \in ToSet(r)
      BY <2>6 DEF ToSet
    <3> QED
      BY <3>1, <3>2 DEF ToSet
  <2> QED
    BY <2>3, <2>5, <2>6, <2>7 DEF r, IsInjective
<1> QED
  BY <1>1, <1>2

LEMMA RemoveFirstSet ==
  ASSUME NEW S, NEW s \in Seq(S), IsInjective(s), NEW e
  PROVE  /\ RemoveFirst(s, e) \in Seq(S) /\ IsInjective(RemoveFirst(s, e))
         /\ ToSet(RemoveFirst(s, e)) = ToSet(s) \ {e}
<1> DEFINE r == RemoveFirst(s, e)
<1>1. /\ r \in Seq(S) /\ IsInjective(r)
      /\ ToSet(r) = ToSet(s) \ {e}
      /\ \A j \in DOMAIN s : s[j] # e =>
           \E k \in DOMAIN r : /\ r[k] = s[j] /\ k <= j
                               /\ \A m \in 1..k - 1 : \E n \in 1..j - 1 : r[m] = s[n]
  BY RemoveFirstParts
<1> QED
  BY <1>1

\* Putting an element at the end, taking one from the end, taking one from the front.
LEMMA AppendParts ==
  ASSUME NEW S, NEW s \in Seq(S), NEW e \in S
  PROVE  /\ Append(s, e) \in Seq(S) /\ Len(Append(s, e)) = Len(s) + 1
         /\ ToSet(Append(s, e)) = ToSet(s) \cup {e}
         /\ IsInjective(s) /\ e \notin ToSet(s) => IsInjective(Append(s, e))
<1> DEFINE r == Append(s, e)
<1>1. /\ r \in Seq(S) /\ Len(r) = Len(s) + 1 /\ Len(s) \in Nat /\ DOMAIN s = 1..Len(s)
      /\ DOMAIN r = 1..Len(s) + 1 /\ r[Len(s) + 1] = e /\ \A i \in 1..Len(s) : r[i] = s[i]
  OBVIOUS
<1> HIDE DEF r
<1>2. ToSet(r) = ToSet(s) \cup {e}
  <2>1. ToSet(r) \subseteq ToSet(s) \cup {e}
    BY <1>1 DEF ToSet
  <2>2. Len(s) + 1 \in DOMAIN r /\ DOMAIN s \subseteq DOMAIN r
    BY <1>1
  <2>3. ToSet(s) \cup {e} \subseteq ToSet(r)
    BY <1>1, <2>2 DEF ToSet
  <2> QED
    BY <2>1, <2>3
<1>3. ASSUME IsInjective(s), e \notin ToSet(s) PROVE IsInjective(r)
  BY <1>1, <1>3 DEF IsInjective, ToSet
<1> QED
  BY <1>1, <1>2, <1>3 DEF r

LEMMA AppendNew ==
  ASSUME NEW S, NEW s \in Seq(S), IsInjective(s), NEW e \in S, e \notin ToSet(s)
  PROVE  /\ Append(s, e) \in Seq(S) /\ IsInjective(Append(s, e))
         /\ ToSet(Append(s, e)) = ToSet(s) \cup {e}
<1> DEFINE r == Append(s, e)
<1>1. /\ r \in Seq(S) /\ ToSet(r) = ToSet(s) \cup {e}
      /\ IsInjective(s) /\ e \notin ToSet(s) => IsInjective(r)
  BY AppendParts
<1> QED
  BY <1>1

LEMMA FrontParts ==
  ASSUME NEW S, NEW s \in Seq(S), s # <<>>, IsInjective(s)
  PROVE  /\ Front(s) \in Seq(S) /\ Len(Front(s)) = Len(s) - 1
         /\ IsInjective(Front(s)) /\ Last(s) \in ToSet(s)
         /\ ToSet(Front(s)) = ToSet(s) \ {Last(s)}
<1> DEFINE r == Front(s)
<1>1. /\ Len(s) \in Nat \ {0} /\ DOMAIN s = 1..Len(s) /\ Last(s) = s[Len(s)]
      /\ r \in Seq(S) /\ Len(r) = Len(s) - 1 /\ DOMAIN r = 1..Len(s) - 1
      /\ \A i \in 1..Len(s) - 1 : r[i] = s[i]
  <2>1. Len(s) \in Nat \ {0} /\ DOMAIN s = 1..Len(s) /\ Last(s) = s[Len(s)]
    BY DEF Last
  <2> DEFINE k == Len(s) - 1
  <2>2. k \in 0..Len(s)
    BY <2>1
  <2>3. r = SubSeq(s, 1, k)
    BY DEF Front
  <2> HIDE DEF k, r
  <2>4. r \in Seq(S) /\ Len(r) = k /\ DOMAIN r = 1..k /\ \A i \in 1..k : r[i] = s[i]
    BY <2>1, <2>2, <2>3
  <2> QED
    BY <2>1, <2>4 DEF k
<1> HIDE DEF r
<1>2. \A i, j \in 1..Len(s) : s[i] = s[j] => i = j
  BY <1>1 DEF IsInjective
<1>3. ToSet(r) = ToSet(s) \ {Last(s)}
  BY <1>1, <1>2 DEF ToSet
<1>4. IsInjective(r) /\ Last(s) \in ToSet(s)
  BY <1>1, <1>2 DEF IsInjective, ToSet
<1> QED
  BY <1>1, <1>3, <1>4 DEF r

LEMMA TailParts ==
  ASSUME NEW S, NEW s \in Seq(S), s # <<>>, IsInjective(s)
  PROVE  /\ Tail(s) \in Seq(S) /\ Len(Tail(s)) = Len(s) - 1
         /\ IsInjective(Tail(s)) /\ Head(s) \in ToSet(s)
         /\ ToSet(Tail(s)) = ToSet(s) \ {Head(s)}
<1> DEFINE r == Tail(s)
<1>1. /\ Len(s) \in Nat \ {0} /\ DOMAIN s = 1..Len(s) /\ Head(s) = s[1]
      /\ r \in Seq(S) /\ Len(r) = Len(s) - 1 /\ DOMAIN r = 1..Len(s) - 1
      /\ \A i \in 1..Len(s) - 1 : r[i] = s[i + 1]
  OBVIOUS
<1> HIDE DEF r
<1>2. \A i, j \in 1..Len(s) : s[i] = s[j] => i = j
  BY <1>1 DEF IsInjective
<1>3. ToSet(r) = ToSet(s) \ {Head(s)}
  <2>1. \A i \in 2..Len(s) : i - 1 \in DOMAIN r /\ r[i - 1] = s[i]
    BY <1>1
  <2>2. ToSet(s) \ {Head(s)} \subseteq ToSet(r)
    <3>1. \A e \in ToSet(s) \ {Head(s)} : \E i \in 2..Len(s) : e = s[i]
      BY <1>1 DEF ToSet
    <3> QED
      BY <2>1, <3>1 DEF ToSet
  <2>3. ToSet(r) \subseteq ToSet(s) \ {Head(s)}
    BY <1>1, <1>2 DEF ToSet
  <2> QED
    BY <2>2, <2>3
<1>4. IsInjective(r) /\ Head(s) \in ToSet(s)
  BY <1>1, <1>2 DEF IsInjective, ToSet
<1> QED
  BY <1>1, <1>3, <1>4 DEF r

\* Putting a place last: where the places of the result come from.
LEMMA ToBackParts ==
  ASSUME NEW S, NEW s \in Seq(S), NEW i \in DOMAIN s
  PROVE  /\ Append(RemoveAt(s, i), s[i]) \in Seq(S)
         /\ Len(Append(RemoveAt(s, i), s[i])) = Len(s)
         /\ \A j \in 1..Len(s) :
              Append(RemoveAt(s, i), s[i])[j] = s[IF j = Len(s) THEN i ELSE IF j < i THEN j ELSE j + 1]
<1> DEFINE r == RemoveAt(s, i)
           n == Len(s)
<1>1. n \in Nat /\ DOMAIN s = 1..n /\ i \in 1..n /\ s[i] \in S
  OBVIOUS
<1>2. r \in Seq(S) /\ Len(r) = n - 1 /\ \A j \in 1..n - 1 : r[j] = IF j < i THEN s[j] ELSE s[j + 1]
  BY RemoveAtParts
<1> HIDE DEF r, n
<1>3. Append(r, s[i]) \in Seq(S) /\ Len(Append(r, s[i])) = n
  BY <1>1, <1>2
<1>4. \A j \in 1..n : Append(r, s[i])[j] = IF j = n THEN s[i] ELSE r[j]
  BY <1>1, <1>2
<1>5. \A j \in 1..n : j # n => j \in 1..n - 1
  BY <1>1
<1>6. \A j \in 1..n : Append(r, s[i])[j] = s[IF j = n THEN i ELSE IF j < i THEN j ELSE j + 1]
  BY <1>2, <1>4, <1>5
<1> QED
  BY <1>3, <1>6 DEF r, n

\* The ends of a sequence: the whole, and the next one.
LEMMA Ends ==
  ASSUME NEW S, NEW s \in Seq(S)
  PROVE  /\ SubSeq(s, 1, Len(s)) = s
         /\ \A a \in 1..Len(s) + 1 : /\ SubSeq(s, a, Len(s)) \in Seq(S)
                                     /\ Len(SubSeq(s, a, Len(s))) = (Len(s) - a) + 1
         /\ \A a \in 1..Len(s) : Tail(SubSeq(s, a, Len(s))) = SubSeq(s, a + 1, Len(s))
<1> DEFINE n == Len(s)
<1>1. n \in Nat /\ DOMAIN s = 1..n /\ \A i \in 1..n : s[i] \in S
  OBVIOUS
<1>2. s = [i \in 1..n |-> s[i]]
  OBVIOUS
<1>3. \A a \in 1..n + 1 : SubSeq(s, a, n) = [i \in 1..(n - a) + 1 |-> s[(i + a) - 1]]
  <2> HIDE DEF n
  <2> TAKE a \in 1..n + 1
  <2> QED
    BY <1>1
<1> HIDE DEF n
<1>4. SubSeq(s, 1, n) = s
  <2>1. (n - 1) + 1 = n /\ \A i \in 1..n : (i + 1) - 1 = i
    BY <1>1
  <2>2. SubSeq(s, 1, n) = [i \in 1..n |-> s[i]]
    BY <1>1, <1>3, <2>1
  <2> QED
    BY <1>2, <2>2
<1>5. \A a \in 1..n + 1 : SubSeq(s, a, n) \in Seq(S) /\ Len(SubSeq(s, a, n)) = (n - a) + 1
  <2> TAKE a \in 1..n + 1
  <2>1. (n - a) + 1 \in Nat /\ \A i \in 1..(n - a) + 1 : s[(i + a) - 1] \in S
    BY <1>1
  <2>2. SubSeq(s, a, n) = [i \in 1..(n - a) + 1 |-> s[(i + a) - 1]]
    BY <1>3
  <2> QED
    BY <2>1, <2>2
<1>6. \A a \in 1..n : Tail(SubSeq(s, a, n)) = SubSeq(s, a + 1, n)
  <2> TAKE a \in 1..n
  <2> DEFINE t == SubSeq(s, a, n)
             m == (n - a) + 1
  <2>1. a \in 1..n + 1 /\ a + 1 \in 1..n + 1 /\ m \in Nat /\ m >= 1 /\ (n - (a + 1)) + 1 = m - 1
    BY <1>1
  <2>2. t \in Seq(S) /\ Len(t) = m
    BY <1>5, <2>1
  <2>3. t = [i \in 1..m |-> s[(i + a) - 1]]
    BY <1>3, <2>1
  <2>4. SubSeq(s, a + 1, n) = [i \in 1..m - 1 |-> s[(i + (a + 1)) - 1]]
    BY <1>3, <2>1
  <2> HIDE DEF t, m
  <2>5. Tail(t) = [i \in 1..m - 1 |-> t[i + 1]]
    <3>1. t # <<>>
      BY <2>1, <2>2
    <3>2. /\ Tail(t) \in Seq(S) /\ Len(Tail(t)) = m - 1
          /\ \A i \in 1..m - 1 : Tail(t)[i] = t[i + 1]
      BY <2>2, <3>1
    <3>3. \A u \in Seq(S) : u = [i \in 1..Len(u) |-> u[i]]
      OBVIOUS
    <3>4. Tail(t) = [i \in 1..m - 1 |-> Tail(t)[i]]
      BY <3>2, <3>3
    <3> QED
      BY <3>2, <3>4
  <2>6. \A i \in 1..m - 1 : t[i + 1] = s[(i + (a + 1)) - 1]
    <3> TAKE i \in 1..m - 1
    <3>1. i + 1 \in 1..m /\ ((i + 1) + a) - 1 = (i + (a + 1)) - 1
      BY <1>1, <2>1
    <3> QED
      BY <2>3, <3>1
  <2> QED
    BY <2>4, <2>5, <2>6 DEF t
<1> QED
  BY <1>4, <1>5, <1>6 DEF n

\* A prefix agrees place by place, and is what the front of the longer one is.
LEMMA PrefixParts ==
  ASSUME NEW S, NEW s \in Seq(S), NEW t \in Seq(S)
  PROVE  /\ IsPrefix(s, t) <=> Len(s) <= Len(t) /\ \A i \in 1..Len(s) : s[i] = t[i]
         /\ IsPrefix(s, t) => SubSeq(t, 1, Len(s)) = s
<1>1. SubSeq(s, 1, Len(s)) = s
  BY Ends
<1>2. Len(s) \in Nat /\ Len(t) \in Nat /\ s = [i \in 1..Len(s) |-> s[i]]
  OBVIOUS
<1>3. Len(s) <= Len(t) => SubSeq(t, 1, Len(s)) = [i \in 1..Len(s) |-> t[i]]
  <2> DEFINE n == Len(s)
  <2> HIDE DEF n
  <2> SUFFICES ASSUME n \in Nat, n <= Len(t) PROVE SubSeq(t, 1, n) = [i \in 1..n |-> t[i]]
    BY <1>2 DEF n
  <2>1. SubSeq(t, 1, n) = [i \in 1..(n - 1) + 1 |-> t[(i + 1) - 1]]
    BY <1>2
  <2>2. (n - 1) + 1 = n /\ \A i \in 1..n : (i + 1) - 1 = i
    OBVIOUS
  <2> QED
    BY <2>1, <2>2
<1>4. IsPrefix(s, t) <=> Len(s) <= Len(t) /\ s = SubSeq(t, 1, Len(s))
  BY <1>1 DEF IsPrefix
<1>5. Len(s) <= Len(t) => (s = SubSeq(t, 1, Len(s)) <=> \A i \in 1..Len(s) : s[i] = t[i])
  BY <1>2, <1>3
<1> QED
  BY <1>4, <1>5

\* A sequence without repetitions is no longer than the numbers it is made of.
LEMMA InjectiveBound ==
  ASSUME NEW n \in Nat, NEW s \in Seq(1..n), IsInjective(s)
  PROVE  Len(s) <= n
<1>1. Len(s) \in Nat /\ s \in [1..Len(s) -> 1..n]
  OBVIOUS
<1>2. \A i, j \in 1..Len(s) : s[i] = s[j] => i = j
  BY <1>1 DEF IsInjective
<1> SUFFICES ASSUME Len(s) > n PROVE FALSE
  BY <1>1
<1>3. /\ IsFiniteSet(1..n) /\ Cardinality(1..n) = n
      /\ IsFiniteSet(1..Len(s)) /\ Cardinality(1..Len(s)) = Len(s)
  <2>1. \A k \in Nat : IsFiniteSet(1..k) /\ Cardinality(1..k) = k
    <3> TAKE k \in Nat
    <3>0. 1 \in Int /\ k \in Int
      OBVIOUS
    <3>1. IsFiniteSet(1..k) /\ Cardinality(1..k) = IF 1 > k THEN 0 ELSE k - 1 + 1
      BY <3>0, FS_Interval, Zenon
    <3> QED
      BY <3>1
  <2> QED
    BY <1>1, <2>1
<1> DEFINE A == 1..Len(s)
           B == 1..n
<1>4. IsFiniteSet(A) /\ IsFiniteSet(B) /\ Cardinality(B) < Cardinality(A) /\ s \in [A -> B]
  BY <1>1, <1>3
<1>5. \A i, j \in A : s[i] = s[j] => i = j
  BY <1>2
<1> HIDE DEF A, B
<1>6. \E i, j \in A : i # j /\ s[i] = s[j]
  BY <1>4, FS_PigeonHole
<1> QED
  BY <1>5, <1>6

-------------------------------------------------------------------------------
(* Least elements: what stands for induction here.                         *)

LEMMA NatLeast ==
  ASSUME NEW B \in SUBSET Nat, B # {}
  PROVE  \E m \in B : \A n \in B : m <= n
<1>1. \E m \in B : \A n \in B : <<n, m>> \notin OpToRel(<, Nat)
  BY NatLessThanWellFounded, WFMin
<1>2. \A m, n \in Nat : <<n, m>> \notin OpToRel(<, Nat) => m <= n
  BY DEF OpToRel
<1> QED
  BY <1>1, <1>2

LEMMA SubsetLeast ==
  ASSUME NEW S, IsFiniteSet(S), NEW B \in SUBSET (SUBSET S), B # {}
  PROVE  \E m \in B : \A n \in B : n \subseteq m => n = m
<1>1. B \subseteq FiniteSubsetsOf(S)
  BY FS_Subset DEF FiniteSubsetsOf
<1>2. \E m \in B : \A n \in B : <<n, m>> \notin StrictSubsetOrdering(S)
  BY <1>1, FS_StrictSubsetOrderingWellFounded, WFMin
<1> QED
  BY <1>2 DEF StrictSubsetOrdering

\* What holds of 0 and is handed on from each number below n holds up to n.
LEMMA UpTo ==
  ASSUME NEW n \in Nat, NEW B, 0 \in B, \A k \in 0..n - 1 : k \in B => k + 1 \in B
  PROVE  0..n \subseteq B
<1> SUFFICES ASSUME ~(0..n \subseteq B) PROVE FALSE
  OBVIOUS
<1> DEFINE Bad == {k \in 0..n : k \notin B}
<1>1. Bad \in SUBSET Nat /\ Bad # {}
  OBVIOUS
<1> HIDE DEF Bad
<1>2. PICK m \in Bad : \A k \in Bad : m <= k
  BY <1>1, NatLeast
<1>3. m # 0 /\ m - 1 \in 0..n - 1 /\ m - 1 \in B
  BY <1>2 DEF Bad
<1> QED
  BY <1>2, <1>3 DEF Bad

-------------------------------------------------------------------------------
(* Folds over finite sets.  An operation is a function here, for a theorem *)
(* about an operator could not be instantiated.                            *)

\* f is the fold of every subset of S: base for the empty one, and else the
\* operation on what is picked and the fold of the rest.
IsFold(f, S, base, pick, op) ==
  f = [T \in SUBSET S |-> IF T = {} THEN base ELSE op[<<pick[T], f[T \ {pick[T]}]>>]]

Picks(S) == {pick \in [(SUBSET S) \ {{}} -> S] : \A T \in (SUBSET S) \ {{}} : pick[T] \in T}

\* A fold stays in the set its operation stays in.
LEMMA FoldType ==
  ASSUME NEW S, IsFiniteSet(S), NEW V, NEW base \in V, NEW pick \in Picks(S),
         NEW op \in [S \X V -> V], NEW f, IsFold(f, S, base, pick, op)
  PROVE  f \in [SUBSET S -> V]
<1> DEFINE Bad == {T \in SUBSET S : f[T] \notin V}
<1> SUFFICES ASSUME Bad # {} PROVE FALSE
  BY DEF IsFold
<1>0. Bad \in SUBSET (SUBSET S)
  OBVIOUS
<1> HIDE DEF Bad
<1>1. PICK T \in Bad : \A U \in Bad : U \subseteq T => U = T
  BY <1>0, SubsetLeast
<1> USE DEF Bad
<1>2. T # {}
  BY <1>1 DEF IsFold
<1>3. pick[T] \in T
  BY <1>1, <1>2 DEF Picks
<1>4. T \ {pick[T]} \notin Bad
  BY <1>1, <1>3
<1>5. f[T] = op[<<pick[T], f[T \ {pick[T]}]>>]
  BY <1>1, <1>2 DEF IsFold
<1> QED
  BY <1>1, <1>3, <1>4, <1>5

\* Two folds agree on what both are about.
LEMMA FoldUnique ==
  ASSUME NEW S, IsFiniteSet(S), NEW T \in SUBSET S, NEW U \in SUBSET S, NEW base, NEW pick \in Picks(S),
         NEW op, NEW f, NEW g, IsFold(f, T, base, pick, op), IsFold(g, U, base, pick, op)
  PROVE  \A W \in SUBSET (T \cap U) : f[W] = g[W]
<1> DEFINE Bad == {W \in SUBSET (T \cap U) : f[W] # g[W]}
<1> SUFFICES ASSUME Bad # {} PROVE FALSE
  OBVIOUS
<1>0. Bad \in SUBSET (SUBSET S)
  OBVIOUS
<1> HIDE DEF Bad
<1>1. PICK W \in Bad : \A X \in Bad : X \subseteq W => X = W
  BY <1>0, SubsetLeast
<1> USE DEF Bad
<1>2. W # {}
  BY <1>1 DEF IsFold
<1>3. pick[W] \in W
  BY <1>1, <1>2 DEF Picks
<1>4. f[W \ {pick[W]}] = g[W \ {pick[W]}]
  BY <1>1, <1>3
<1>5. f[W] = op[<<pick[W], f[W \ {pick[W]}]>>]
  BY <1>1, <1>2 DEF IsFold
<1>6. g[W] = op[<<pick[W], g[W \ {pick[W]}]>>]
  BY <1>1, <1>2 DEF IsFold
<1> QED
  BY <1>1, <1>4, <1>5, <1>6

\* Every finite set has a fold.
LEMMA FoldExists ==
  ASSUME NEW S, IsFiniteSet(S), NEW base, NEW pick \in Picks(S), NEW op
  PROVE  \E f : IsFold(f, S, base, pick, op)
<1> DEFINE Has(T) == \E f : IsFold(f, T, base, pick, op)
           Bad == {T \in SUBSET S : ~Has(T)}
           of(T) == CHOOSE f : IsFold(f, T, base, pick, op)
<1> SUFFICES ASSUME Bad # {} PROVE FALSE
  OBVIOUS
<1>0. Bad \in SUBSET (SUBSET S)
  OBVIOUS
<1> HIDE DEF Bad
<1>1. PICK T \in Bad : \A U \in Bad : U \subseteq T => U = T
  BY <1>0, SubsetLeast
<1> USE DEF Bad
<1>2. \A U \in (SUBSET T) \ {T} : IsFold(of(U), U, base, pick, op)
  BY <1>1
<1> DEFINE f == [U \in SUBSET T |-> IF U = {} THEN base
                                    ELSE op[<<pick[U], of(U \ {pick[U]})[U \ {pick[U]}]>>]]
<1> HIDE DEF of
<1>3. \A U \in (SUBSET T) \ {{}} : pick[U] \in U
  BY DEF Picks
<1>4. ASSUME NEW U \in (SUBSET T) \ {T} PROVE f[U] = of(U)[U]
  <2>1. CASE U = {}
    BY <1>2, <2>1 DEF IsFold
  <2>2. CASE U # {}
    <3> DEFINE W == U \ {pick[U]}
    <3>1. W \in SUBSET U /\ W \in (SUBSET T) \ {T}
      BY <1>3, <2>2
    <3>2. of(U)[W] = of(W)[W]
      BY <1>2, <3>1, FoldUnique, FS_Subset
    <3>3. of(U)[U] = op[<<pick[U], of(U)[W]>>]
      BY <1>2, <2>2, Zenon DEF IsFold
    <3>4. f[U] = op[<<pick[U], of(W)[W]>>]
      BY <2>2
    <3> QED
      BY <3>2, <3>3, <3>4
  <2> QED
    BY <2>1, <2>2
<1>5. ASSUME NEW U \in SUBSET T, U # {} PROVE f[U \ {pick[U]}] = of(U \ {pick[U]})[U \ {pick[U]}]
  BY <1>3, <1>4, <1>5
<1>6. IsFold(f, T, base, pick, op)
  BY <1>5 DEF IsFold
<1> QED
  BY <1>1, <1>6

-------------------------------------------------------------------------------
(* Sums: SumFunction adds up the values of a function with finite domain.  *)

\* f gives the sum of g over every subset of S.
IsSum(f, g, S) ==
  f = [T \in SUBSET S |-> IF T = {} THEN 0
                          ELSE g[CHOOSE x \in T : TRUE] + f[T \ {CHOOSE x \in T : TRUE}]]

LEMMA SumTyped ==
  ASSUME NEW S, IsFiniteSet(S), NEW g \in [S -> Int], NEW f, IsSum(f, g, S)
  PROVE  f \in [SUBSET S -> Int]
<1> DEFINE Bad == {T \in SUBSET S : f[T] \notin Int}
<1> SUFFICES ASSUME Bad # {} PROVE FALSE
  BY DEF IsSum
<1>0. Bad \in SUBSET (SUBSET S)
  OBVIOUS
<1> HIDE DEF Bad
<1>1. PICK T \in Bad : \A U \in Bad : U \subseteq T => U = T
  BY <1>0, SubsetLeast
<1> USE DEF Bad
<1>2. T # {}
  BY <1>1 DEF IsSum
<1> DEFINE x == CHOOSE y \in T : TRUE
<1>3. x \in T
  BY <1>2
<1>4. f[T] = g[x] + f[T \ {x}]
  BY <1>2 DEF IsSum
<1> HIDE DEF x
<1>5. f[T \ {x}] \in Int
  BY <1>1, <1>3
<1> QED
  BY <1>1, <1>3, <1>4, <1>5

LEMMA SumExists ==
  ASSUME NEW S, IsFiniteSet(S), NEW g \in [S -> Int]
  PROVE  \E f : IsSum(f, g, S)
<1> DEFINE pick == [T \in (SUBSET S) \ {{}} |-> CHOOSE x \in T : TRUE]
           op == [p \in S \X Int |-> g[p[1]] + p[2]]
<1>1. pick \in Picks(S)
  BY DEF Picks
<1>2. op \in [S \X Int -> Int]
  OBVIOUS
<1>3. \A x \in S, n \in Int : op[<<x, n>>] = g[x] + n
  OBVIOUS
<1>4. \A T \in (SUBSET S) \ {{}} : pick[T] = (CHOOSE x \in T : TRUE) /\ pick[T] \in T
  OBVIOUS
<1> HIDE DEF pick, op
<1>5. PICK f : IsFold(f, S, 0, pick, op)
  BY <1>1, FoldExists
<1>6. f \in [SUBSET S -> Int]
  <2>1. 0 \in Int
    OBVIOUS
  <2> QED
    BY <2>1, <1>1, <1>2, <1>5, FoldType, Zenon
<1>7. \A T \in SUBSET S : f[T] = IF T = {} THEN 0
                                 ELSE g[CHOOSE x \in T : TRUE] + f[T \ {CHOOSE x \in T : TRUE}]
  <2> TAKE T \in SUBSET S
  <2>1. CASE T = {}
    BY <1>5, <2>1 DEF IsFold
  <2>2. CASE T # {}
    <3>1. f[T] = op[<<pick[T], f[T \ {pick[T]}]>>]
      BY <1>5, <2>2 DEF IsFold
    <3>2. pick[T] \in S /\ f[T \ {pick[T]}] \in Int
      BY <1>4, <1>6, <2>2
    <3> QED
      BY <1>3, <1>4, <2>2, <3>1, <3>2
  <2> QED
    BY <2>1, <2>2
<1> QED
  BY <1>6, <1>7 DEF IsSum

LEMMA SumFold ==
  ASSUME NEW S, IsFiniteSet(S), NEW g \in [S -> Int]
  PROVE  \E f : IsSum(f, g, S) /\ f \in [SUBSET S -> Int] /\ SumFunction(g) = f[S]
<1> DEFINE f == CHOOSE h : IsSum(h, g, S)
<1>1. IsSum(f, g, S)
  BY SumExists
<1>2. SumFunction(g) = f[S]
  BY DEF SumFunction, SumFunctionOnSet, FoldFunctionOnSet, MapThenFoldSet, IsSum
<1> QED
  BY <1>1, <1>2, SumTyped

\* Any element may be added last.
LEMMA SumSplit ==
  ASSUME NEW S, IsFiniteSet(S), NEW g \in [S -> Int], NEW f, IsSum(f, g, S),
         NEW T \in SUBSET S, NEW x \in T
  PROVE  f[T] = g[x] + f[T \ {x}]
<1> DEFINE Split(U) == \A y \in U : f[U] = g[y] + f[U \ {y}]
           Bad == {U \in SUBSET S : ~Split(U)}
<1> SUFFICES ASSUME Bad # {} PROVE FALSE
  OBVIOUS
<1>0. Bad \in SUBSET (SUBSET S)
  OBVIOUS
<1> HIDE DEF Bad
<1>1. PICK U \in Bad : \A W \in Bad : W \subseteq U => W = U
  BY <1>0, SubsetLeast
<1>2. U \in SUBSET S /\ ~Split(U)
  BY <1>1 DEF Bad
<1>3. \A W \in SUBSET U : W # U => Split(W)
  BY <1>1, <1>2 DEF Bad
<1> DEFINE z == CHOOSE y \in U : TRUE
<1>4. PICK y \in U : f[U] # g[y] + f[U \ {y}]
  BY <1>2
<1>5. z \in U /\ f[U] = g[z] + f[U \ {z}]
  BY <1>2, <1>4 DEF IsSum
<1> HIDE DEF z
<1>6. y # z
  BY <1>4, <1>5
<1>7. f[U \ {z}] = g[y] + f[(U \ {z}) \ {y}]
  BY <1>3, <1>4, <1>5, <1>6
<1>8. f[U \ {y}] = g[z] + f[(U \ {y}) \ {z}]
  BY <1>3, <1>4, <1>5, <1>6
<1> DEFINE rest == (U \ {z}) \ {y}
<1>9. (U \ {y}) \ {z} = rest /\ rest \in SUBSET S /\ U \ {y} \in SUBSET S
  BY <1>2
<1> HIDE DEF rest
<1>10. f[U \ {z}] = g[y] + f[rest] /\ f[U \ {y}] = g[z] + f[rest]
  BY <1>7, <1>8, <1>9 DEF rest
<1>11. g[y] \in Int /\ g[z] \in Int
  BY <1>2, <1>4, <1>5
<1>12. f[rest] \in Int
  <2>1. f \in [SUBSET S -> Int]
    BY SumTyped
  <2> QED
    BY <1>9, <2>1
<1>13. f[U] = g[z] + (g[y] + f[rest]) /\ f[U] # g[y] + (g[z] + f[rest])
  BY <1>4, <1>5, <1>10, Zenon
<1> QED
  BY <1>11, <1>12, <1>13

\* Two sums over what their functions agree on are the same.
LEMMA SumAgree ==
  ASSUME NEW S, NEW R, IsFiniteSet(S), NEW g \in [S -> Int], NEW h \in [R -> Int],
         NEW f, NEW k, IsSum(f, g, S), IsSum(k, h, R),
         NEW T \in SUBSET (S \cap R), \A x \in T : g[x] = h[x]
  PROVE  f[T] = k[T]
<1> DEFINE Bad == {U \in SUBSET T : f[U] # k[U]}
<1> SUFFICES ASSUME Bad # {} PROVE FALSE
  OBVIOUS
<1>0. Bad \in SUBSET (SUBSET S)
  OBVIOUS
<1> HIDE DEF Bad
<1>1. PICK U \in Bad : \A W \in Bad : W \subseteq U => W = U
  BY <1>0, SubsetLeast
<1> USE DEF Bad
<1>2. U # {}
  BY <1>1 DEF IsSum
<1> DEFINE z == CHOOSE y \in U : TRUE
<1>3. z \in U /\ f[U] = g[z] + f[U \ {z}] /\ k[U] = h[z] + k[U \ {z}]
  BY <1>1, <1>2 DEF IsSum
<1> HIDE DEF z
<1>4. f[U \ {z}] = k[U \ {z}]
  BY <1>1, <1>3
<1> QED
  BY <1>1, <1>3, <1>4

LEMMA SumInt ==
  ASSUME NEW S, IsFiniteSet(S), NEW g \in [S -> Int]
  PROVE  SumFunction(g) \in Int
<1>1. PICK f : IsSum(f, g, S) /\ f \in [SUBSET S -> Int] /\ SumFunction(g) = f[S]
  BY SumFold
<1> QED
  BY <1>1

LEMMA SumZero ==
  ASSUME NEW S, IsFiniteSet(S), NEW g \in [S -> Int], \A x \in S : g[x] = 0
  PROVE  SumFunction(g) = 0
<1>1. PICK f : IsSum(f, g, S) /\ f \in [SUBSET S -> Int] /\ SumFunction(g) = f[S]
  BY SumFold
<1> DEFINE Bad == {U \in SUBSET S : f[U] # 0}
<1> SUFFICES ASSUME Bad # {} PROVE FALSE
  BY <1>1
<1>0. Bad \in SUBSET (SUBSET S)
  OBVIOUS
<1> HIDE DEF Bad
<1>2. PICK U \in Bad : \A W \in Bad : W \subseteq U => W = U
  BY <1>0, SubsetLeast
<1> USE DEF Bad
<1>3. U # {}
  BY <1>1, <1>2 DEF IsSum
<1> DEFINE z == CHOOSE y \in U : TRUE
<1>4. z \in U /\ f[U] = g[z] + f[U \ {z}]
  BY <1>1, <1>2, <1>3 DEF IsSum
<1> HIDE DEF z
<1>5. f[U \ {z}] = 0
  BY <1>2, <1>4
<1> QED
  BY <1>2, <1>4, <1>5

\* Overwriting one value changes the sum by the difference.
LEMMA SumExcept ==
  ASSUME NEW S, IsFiniteSet(S), NEW g \in [S -> Int], NEW x \in S, NEW v \in Int
  PROVE  SumFunction([g EXCEPT ![x] = v]) = (SumFunction(g) - g[x]) + v
<1> DEFINE h == [g EXCEPT ![x] = v]
<1>1. h \in [S -> Int] /\ h[x] = v /\ \A y \in S \ {x} : g[y] = h[y]
  OBVIOUS
<1> HIDE DEF h
<1>2. PICK f : IsSum(f, g, S) /\ f \in [SUBSET S -> Int] /\ SumFunction(g) = f[S]
  BY SumFold
<1>3. PICK k : IsSum(k, h, S) /\ k \in [SUBSET S -> Int] /\ SumFunction(h) = k[S]
  BY <1>1, SumFold
<1>4. f[S] = g[x] + f[S \ {x}]
  BY <1>2, SumSplit
<1>5. k[S] = h[x] + k[S \ {x}]
  BY <1>1, <1>3, SumSplit
<1>6. f[S \ {x}] = k[S \ {x}]
  BY <1>1, <1>2, <1>3, SumAgree
<1> QED
  BY <1>1, <1>2, <1>3, <1>4, <1>5, <1>6 DEF h

\* A function of one more place sums up to what the place holds more.
LEMMA SumExtend ==
  ASSUME NEW S, IsFiniteSet(S), NEW g \in [S -> Int], NEW x, x \notin S,
         NEW h \in [S \cup {x} -> Int], \A y \in S : h[y] = g[y]
  PROVE  SumFunction(h) = SumFunction(g) + h[x]
<1> DEFINE R == S \cup {x}
<1>0. IsFiniteSet(R) /\ R \ {x} = S /\ x \in R
  BY FS_AddElement
<1> HIDE DEF R
<1>1. h \in [R -> Int]
  BY DEF R
<1>2. PICK f : IsSum(f, g, S) /\ f \in [SUBSET S -> Int] /\ SumFunction(g) = f[S]
  BY SumFold
<1>3. PICK k : IsSum(k, h, R) /\ k \in [SUBSET R -> Int] /\ SumFunction(h) = k[R]
  BY <1>0, <1>1, SumFold
<1>4. k[R] = h[x] + k[R \ {x}]
  BY <1>0, <1>1, <1>3, SumSplit
<1>5. f[S] = k[S]
  <2>1. S \in SUBSET (S \cap R)
    BY DEF R
  <2> QED
    BY <2>1, <1>1, <1>2, <1>3, SumAgree
<1>6. h[x] \in Int /\ f[S] \in Int
  BY <1>0, <1>2
<1>7. SumFunction(h) = h[x] + f[S]
  BY <1>0, <1>3, <1>4, <1>5, Zenon
<1> QED
  BY <1>2, <1>6, <1>7

\* Sums of natural numbers, and a value among the others.
LEMMA SumNat ==
  ASSUME NEW S, IsFiniteSet(S), NEW g \in [S -> Nat]
  PROVE  /\ SumFunction(g) \in Nat
         /\ \A x \in S : g[x] <= SumFunction(g)
<1>1. g \in [S -> Int]
  OBVIOUS
<1>2. PICK f : IsSum(f, g, S) /\ f \in [SUBSET S -> Int] /\ SumFunction(g) = f[S]
  BY <1>1, SumFold
<1>3. \A T \in SUBSET S : f[T] >= 0
  <2> DEFINE Bad == {U \in SUBSET S : ~(f[U] >= 0)}
  <2> SUFFICES ASSUME Bad # {} PROVE FALSE
    OBVIOUS
  <2>0. Bad \in SUBSET (SUBSET S)
    OBVIOUS
  <2> HIDE DEF Bad
  <2>1. PICK U \in Bad : \A W \in Bad : W \subseteq U => W = U
    BY <2>0, SubsetLeast
  <2> USE DEF Bad
  <2>2. U # {}
    BY <1>2, <2>1 DEF IsSum
  <2> DEFINE z == CHOOSE y \in U : TRUE
  <2>3. z \in U /\ f[U] = g[z] + f[U \ {z}]
    BY <1>2, <2>1, <2>2 DEF IsSum
  <2> HIDE DEF z
  <2>4. f[U \ {z}] >= 0
    BY <2>1, <2>3
  <2>5. g[z] >= 0 /\ g[z] \in Int /\ f[U \ {z}] \in Int
    BY <1>2, <2>1, <2>3
  <2> QED
    BY <2>1, <2>3, <2>4, <2>5
<1>4. ASSUME NEW x \in S PROVE g[x] <= f[S]
  <2>1. f[S] = g[x] + f[S \ {x}]
    BY <1>1, <1>2, SumSplit
  <2>2. f[S \ {x}] >= 0 /\ f[S \ {x}] \in Int /\ g[x] \in Int
    BY <1>2, <1>3
  <2> QED
    BY <2>1, <2>2
<1> QED
  BY <1>2, <1>3, <1>4

\* A sum does not change when the places are renamed, or when zeros are added.
LEMMA SumImage ==
  ASSUME NEW S, IsFiniteSet(S), NEW g \in [S -> Int], NEW R, IsFiniteSet(R), NEW h \in [R -> Int],
         NEW b \in [S -> R], \A x, y \in S : b[x] = b[y] => x = y,
         \A x \in S : h[b[x]] = g[x], \A y \in R : (\A x \in S : b[x] # y) => h[y] = 0
  PROVE  SumFunction(g) = SumFunction(h)
<1> DEFINE Image(T) == {b[x] : x \in T}
<1>1. PICK f : IsSum(f, g, S) /\ f \in [SUBSET S -> Int] /\ SumFunction(g) = f[S]
  BY SumFold
<1>2. PICK k : IsSum(k, h, R) /\ k \in [SUBSET R -> Int] /\ SumFunction(h) = k[R]
  BY SumFold
<1>3. f[S] = k[Image(S)]
  <2> DEFINE Bad == {T \in SUBSET S : f[T] # k[Image(T)]}
  <2> SUFFICES ASSUME Bad # {} PROVE FALSE
    BY DEF Bad
  <2>0. Bad \in SUBSET (SUBSET S)
    OBVIOUS
  <2> HIDE DEF Bad
  <2>1. PICK T \in Bad : \A U \in Bad : U \subseteq T => U = T
    BY <2>0, SubsetLeast
  <2>2. T \in SUBSET S /\ f[T] # k[Image(T)]
    BY <2>1 DEF Bad
  <2>3. CASE T = {}
    <3>1. f[{}] = 0 /\ k[{}] = 0
      BY <1>1, <1>2 DEF IsSum
    <3>2. Image(T) = {}
      BY <2>3
    <3> QED
      BY <2>2, <2>3, <3>1, <3>2
  <2>4. CASE T # {}
    <3>1. PICK x \in T : TRUE
      BY <2>4
    <3>2. f[T] = g[x] + f[T \ {x}]
      BY <1>1, <2>2, <3>1, SumSplit
    <3>3. Image(T) \in SUBSET R /\ b[x] \in Image(T)
      BY <2>2, <3>1
    <3>4. k[Image(T)] = h[b[x]] + k[Image(T) \ {b[x]}]
      <4> HIDE DEF Image
      <4> QED
        BY <1>2, <3>3, SumSplit
    <3>5. Image(T) \ {b[x]} = Image(T \ {x})
      BY <2>2, <3>1
    <3>6. f[T \ {x}] = k[Image(T \ {x})]
      <4>1. T \ {x} \in SUBSET S /\ T \ {x} \notin Bad
        BY <2>1, <2>2, <3>1
      <4> HIDE DEF Image
      <4> QED
        BY <4>1 DEF Bad
    <3> HIDE DEF Image
    <3> QED
      BY <2>2, <3>1, <3>2, <3>4, <3>5, <3>6
  <2> QED
    BY <2>3, <2>4
<1>4. k[Image(S)] = k[R]
  <2> DEFINE M == Image(S)
             Bad == {T \in SUBSET R : M \subseteq T /\ k[T] # k[M]}
  <2>0. M \in SUBSET R /\ \A y \in R : y \notin M => h[y] = 0
    OBVIOUS
  <2> HIDE DEF M
  <2> SUFFICES ASSUME Bad # {} PROVE FALSE
    BY <2>0 DEF Bad, M
  <2>1. Bad \in SUBSET (SUBSET R)
    OBVIOUS
  <2> HIDE DEF Bad
  <2>2. PICK T \in Bad : \A U \in Bad : U \subseteq T => U = T
    BY <2>1, SubsetLeast
  <2>3. T \in SUBSET R /\ M \subseteq T /\ k[T] # k[M]
    BY <2>2 DEF Bad
  <2>4. PICK y \in T : y \notin M
    BY <2>3
  <2>5. k[T] = h[y] + k[T \ {y}]
    BY <1>2, <2>3, <2>4, SumSplit
  <2>6. k[T \ {y}] = k[M]
    BY <2>2, <2>3, <2>4 DEF Bad
  <2>7. h[y] = 0 /\ k[M] \in Int
    BY <1>2, <2>0, <2>3, <2>4
  <2> QED
    BY <2>3, <2>5, <2>6, <2>7
<1> QED
  BY <1>1, <1>2, <1>3, <1>4

\* Adding up the fields of a sequence from the left.
LEMMA SumLeft ==
  ASSUME NEW n \in Nat, NEW s, DOMAIN s = 1..n, \A i \in 1..n : s[i].len \in Int
  PROVE  FoldLeft(LAMBDA sum, e : sum + e.len, 0, s) = SumFunction([i \in 1..n |-> s[i].len])
<1> DEFINE S == 1..n
           g == [i \in S |-> s[i].len]
           IsLeft(f) == f = [T \in SUBSET S |-> IF T = {} THEN 0 ELSE f[T \ {Max(T)}] + s[Max(T)].len]
           left == CHOOSE f : IsLeft(f)
<1>0. IsFiniteSet(S) /\ g \in [S -> Int]
  <2>1. IsFiniteSet(1..n)
    BY FS_Interval
  <2> QED
    BY <2>1
<1>1. FoldLeft(LAMBDA sum, e : sum + e.len, 0, s) = left[S]
  BY DEF FoldLeft, MapThenFoldSet
<1>2. \A T \in SUBSET S : T # {} => Max(T) \in T
  <2> TAKE T \in SUBSET S
  <2> HAVE T # {}
  <2> DEFINE B == {n - x : x \in T}
  <2>1. B \in SUBSET Nat /\ B # {}
    <3>1. \A x \in T : x \in Int /\ x <= n
      OBVIOUS
    <3> HIDE DEF S
    <3>2. \A x \in T : n - x \in Nat
      BY <3>1
    <3> QED
      BY <3>2
  <2> HIDE DEF B
  <2>2. PICK m \in B : \A k \in B : m <= k
    BY <2>1, NatLeast
  <2>3. \E x \in T : \A y \in T : x >= y
    <3>1. PICK x \in T : m = n - x
      BY <2>2 DEF B
    <3>2. \A y \in T : m <= n - y
      BY <2>2 DEF B
    <3>3. \A y \in T : y \in Int
      OBVIOUS
    <3> HIDE DEF S, B
    <3> QED
      BY <3>1, <3>2, <3>3
  <2> QED
    BY <2>3 DEF Max
<1> HIDE DEF g
<1>3. PICK f : IsSum(f, g, S) /\ f \in [SUBSET S -> Int] /\ SumFunction(g) = f[S]
  BY <1>0, SumFold
<1>4. IsLeft(f)
  <2>1. \A T \in SUBSET S : f[T] = IF T = {} THEN 0 ELSE f[T \ {Max(T)}] + s[Max(T)].len
    <3> TAKE T \in SUBSET S
    <3>1. CASE T = {}
      BY <1>3, <3>1 DEF IsSum
    <3>2. CASE T # {}
      <4> DEFINE x == Max(T)
      <4>1. x \in T
        BY <1>2, <3>2
      <4> HIDE DEF x
      <4> HIDE DEF S
      <4>2. f[T] = g[x] + f[T \ {x}]
        BY <1>0, <1>3, <4>1, SumSplit
      <4>3. g[x] = s[x].len /\ g[x] \in Int /\ f[T \ {x}] \in Int
        BY <1>0, <1>3, <4>1 DEF g
      <4>4. f[T] = f[T \ {x}] + s[x].len
        BY <4>2, <4>3
      <4> QED
        BY <3>2, <4>4 DEF x
    <3> QED
      BY <3>1, <3>2
  <2>2. f = [T \in SUBSET S |-> f[T]]
    BY <1>3
  <2> HIDE DEF S
  <2> QED
    BY <2>1, <2>2
<1>5. IsLeft(left)
  BY <1>4
<1>6. left[S] = f[S]
  <2> DEFINE Bad == {T \in SUBSET S : left[T] # f[T]}
  <2> SUFFICES ASSUME Bad # {} PROVE FALSE
    BY DEF Bad
  <2>0. Bad \in SUBSET (SUBSET S)
    OBVIOUS
  <2> HIDE DEF Bad, left, S
  <2>1. PICK T \in Bad : \A U \in Bad : U \subseteq T => U = T
    BY <1>0, <2>0, SubsetLeast
  <2>2. T \in SUBSET S /\ left[T] # f[T]
    BY <2>1 DEF Bad
  <2>3. T # {}
    BY <1>4, <1>5, <2>2
  <2> DEFINE x == Max(T)
  <2>4. x \in T
    BY <1>2, <2>2, <2>3
  <2>5. left[T] = left[T \ {x}] + s[x].len /\ f[T] = f[T \ {x}] + s[x].len
    BY <1>4, <1>5, <2>2, <2>3
  <2> HIDE DEF x
  <2>6. left[T \ {x}] = f[T \ {x}]
    BY <2>1, <2>2, <2>4 DEF Bad
  <2> QED
    BY <2>2, <2>5, <2>6
<1> QED
  BY <1>1, <1>3, <1>6 DEF g
===============================================================================
