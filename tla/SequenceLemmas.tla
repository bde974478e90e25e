--------------------------- MODULE SequenceLemmas ---------------------------
(***************************************************************************)
(* What the operators on sequences that stand for the code's queues and     *)
(* lists do: elements taken out, put first and put last; induction over     *)
(* finite sets, numbers and sequences; and what a sum over a set is.        *)
(***************************************************************************)
EXTENDS Integers, SequencesExt, FiniteSetTheorems, SequenceTheorems, WellFoundedInduction,
        TLAPS

LEMMA RemoveAtFacts ==
  ASSUME NEW S, NEW q \in Seq(S), NEW k \in 1..Len(q)
  PROVE  /\ RemoveAt(q, k) \in Seq(S)
         /\ Len(RemoveAt(q, k)) = Len(q) - 1
         /\ DOMAIN RemoveAt(q, k) = 1..(Len(q) - 1)
         /\ \A i \in 1..(Len(q) - 1) : RemoveAt(q, k)[i] = IF i < k THEN q[i] ELSE q[i + 1]
<1> DEFINE a == SubSeq(q, 1, k - 1)
           z == SubSeq(q, k + 1, Len(q))
<1>1. Len(q) \in Nat /\ k \in Int /\ \A i \in 1..Len(q) : q[i] \in S
  OBVIOUS
<1>2. /\ a \in Seq(S) /\ Len(a) = k - 1
      /\ \A i \in 1..(k - 1) : a[i] = q[i]
  <2>1. \A i \in 1..(k - 1) : q[i] \in S
    BY <1>1
  <2>2. /\ a \in Seq(S) /\ Len(a) = IF 1 <= k - 1 THEN (k - 1) - 1 + 1 ELSE 0
        /\ \A i \in 1..((k - 1) - 1 + 1) : a[i] = q[1 + i - 1]
    BY <1>1, <2>1, SubSeqProperties
  <2> QED
    BY <1>1, <2>2
<1>3. /\ z \in Seq(S) /\ Len(z) = Len(q) - k
      /\ \A i \in 1..(Len(q) - k) : z[i] = q[k + i]
  <2>1. \A i \in (k + 1)..Len(q) : q[i] \in S
    BY <1>1
  <2>2. /\ z \in Seq(S) /\ Len(z) = IF k + 1 <= Len(q) THEN Len(q) - (k + 1) + 1 ELSE 0
        /\ \A i \in 1..(Len(q) - (k + 1) + 1) : z[i] = q[(k + 1) + i - 1]
    BY <1>1, <2>1, SubSeqProperties
  <2> QED
    BY <1>1, <2>2
<1> HIDE DEF a, z
<1>4. /\ a \o z \in Seq(S) /\ Len(a \o z) = Len(a) + Len(z)
      /\ \A i \in 1..(Len(a) + Len(z)) : (a \o z)[i] = IF i <= Len(a) THEN a[i] ELSE z[i - Len(a)]
  BY <1>2, <1>3, ConcatProperties
<1>5. RemoveAt(q, k) = a \o z
  BY DEF RemoveAt, a, z
<1>6. Len(a) + Len(z) = Len(q) - 1
  BY <1>1, <1>2, <1>3
<1>7. ASSUME NEW i \in 1..(Len(q) - 1)
      PROVE  (a \o z)[i] = IF i < k THEN q[i] ELSE q[i + 1]
  <2>1. CASE i < k
    <3>1. i \in 1..(k - 1) /\ i \in 1..(Len(a) + Len(z)) /\ i <= Len(a)
      BY <1>1, <1>2, <1>6, <2>1
    <3> QED
      BY <1>2, <1>4, <2>1, <3>1
  <2>2. CASE i >= k
    <3>1. i - Len(a) \in 1..(Len(q) - k) /\ k + (i - Len(a)) = i + 1
      BY <1>1, <1>2, <2>2
    <3>2. i \in 1..(Len(a) + Len(z)) /\ ~(i <= Len(a))
      BY <1>1, <1>2, <1>6, <2>2
    <3>3. (a \o z)[i] = z[i - Len(a)]
      BY <1>4, <3>2
    <3>4. z[i - Len(a)] = q[k + (i - Len(a))]
      BY <1>3, <3>1
    <3> QED
      BY <1>1, <2>2, <3>1, <3>3, <3>4
  <2>3. i < k \/ i >= k
    BY <1>1
  <2> QED
    BY <2>1, <2>2, <2>3, Zenon
<1> QED
  BY <1>4, <1>5, <1>6, <1>7

(* The elements that are left, in terms of the positions they had.          *)
LEMMA RemoveAtPositions ==
  ASSUME NEW S, NEW q \in Seq(S), NEW k \in 1..Len(q)
  PROVE  /\ \A i \in DOMAIN RemoveAt(q, k) : \E j \in DOMAIN q \ {k} :
              j = (IF i < k THEN i ELSE i + 1) /\ RemoveAt(q, k)[i] = q[j]
         /\ \A j \in DOMAIN q \ {k} : \E i \in DOMAIN RemoveAt(q, k) :
              RemoveAt(q, k)[i] = q[j]
<1>1. DOMAIN q = 1..Len(q) /\ Len(q) \in Nat
  OBVIOUS
<1>2. ASSUME NEW i \in DOMAIN RemoveAt(q, k)
      PROVE  \E j \in DOMAIN q \ {k} :
               j = (IF i < k THEN i ELSE i + 1) /\ RemoveAt(q, k)[i] = q[j]
  <2>1. i \in 1..(Len(q) - 1)
    BY RemoveAtFacts
  <2>2. CASE i < k
    <3>1. i \in DOMAIN q \ {k}
      BY <1>1, <2>1, <2>2
    <3>2. RemoveAt(q, k)[i] = q[i]
      BY <2>1, <2>2, RemoveAtFacts
    <3> QED
      BY <2>2, <3>1, <3>2
  <2>3. CASE ~(i < k)
    <3>1. i + 1 \in DOMAIN q \ {k}
      BY <1>1, <2>1, <2>3
    <3>2. RemoveAt(q, k)[i] = q[i + 1]
      BY <2>1, <2>3, RemoveAtFacts
    <3> QED
      BY <2>3, <3>1, <3>2
  <2> QED
    BY <2>2, <2>3
<1>3. ASSUME NEW j \in DOMAIN q \ {k}
      PROVE  \E i \in DOMAIN RemoveAt(q, k) : RemoveAt(q, k)[i] = q[j]
  <2>1. CASE j < k
    <3>1. j \in 1..(Len(q) - 1)
      BY <1>1, <2>1
    <3>2. j \in DOMAIN RemoveAt(q, k) /\ RemoveAt(q, k)[j] = q[j]
      BY <2>1, <3>1, RemoveAtFacts
    <3> QED
      BY <3>2
  <2>2. CASE ~(j < k)
    <3>1. j - 1 \in 1..(Len(q) - 1) /\ ~(j - 1 < k) /\ (j - 1) + 1 = j
      BY <1>1, <2>2
    <3>2. j - 1 \in DOMAIN RemoveAt(q, k) /\ RemoveAt(q, k)[j - 1] = q[j]
      BY <3>1, RemoveAtFacts
    <3> QED
      BY <3>2
  <2> QED
    BY <2>1, <2>2
<1> QED
  BY <1>2, <1>3

LEMMA RemoveFirstAt ==
  ASSUME NEW S, NEW q \in Seq(S), IsInjective(q), NEW k \in 1..Len(q), NEW x, q[k] = x
  PROVE  RemoveFirst(q, x) = RemoveAt(q, k)
<1> DEFINE I == {i \in 1..Len(q) : q[i] = x}
<1>1. I = {k}
  BY DEF IsInjective
<1>2. Min(I) = k
  BY <1>1 DEF Min
<1>3. SelectInSeq(q, LAMBDA v : v = x) = k
  BY <1>1, <1>2 DEF SelectInSeq
<1> QED
  BY <1>3 DEF RemoveFirst

(* ngx_queue_remove of a connection that is in the queue once, or not.      *)
LEMMA RemoveFirstFacts ==
  ASSUME NEW S, NEW q \in Seq(S), IsInjective(q), NEW x
  PROVE  /\ RemoveFirst(q, x) \in Seq(S)
         /\ IsInjective(RemoveFirst(q, x))
         /\ ToSet(RemoveFirst(q, x)) = ToSet(q) \ {x}
<1>1. DOMAIN q = 1..Len(q) /\ Len(q) \in Nat
  OBVIOUS
<1>2. CASE ~ \E i \in 1..Len(q) : q[i] = x
  BY <1>1, <1>2 DEF RemoveFirst, ToSet
<1>3. CASE \E i \in 1..Len(q) : q[i] = x
  <2> PICK k \in 1..Len(q) : q[k] = x
    BY <1>3
  <2>1. RemoveFirst(q, x) = RemoveAt(q, k)
    BY RemoveFirstAt
  <2> DEFINE r == RemoveAt(q, k)
  <2>2. r \in Seq(S) /\ DOMAIN r = 1..(Len(q) - 1)
    BY RemoveAtFacts
  <2>3. /\ \A i \in DOMAIN r : \E j \in DOMAIN q \ {k} :
             j = (IF i < k THEN i ELSE i + 1) /\ r[i] = q[j]
        /\ \A j \in DOMAIN q \ {k} : \E i \in DOMAIN r : r[i] = q[j]
    BY RemoveAtPositions
  <2> HIDE DEF r
  <2>4. IsInjective(r)
    <3> SUFFICES ASSUME NEW a \in DOMAIN r, NEW b \in DOMAIN r, r[a] = r[b]
                 PROVE  a = b
      BY DEF IsInjective
    <3>1. (IF a < k THEN a ELSE a + 1) = (IF b < k THEN b ELSE b + 1)
      BY <2>3 DEF IsInjective
    <3> QED
      BY <1>1, <2>2, <3>1
  <2>5. ToSet(r) = ToSet(q) \ {x}
    BY <1>1, <2>3 DEF ToSet, IsInjective
  <2> QED
    BY <2>1, <2>2, <2>4, <2>5 DEF r
<1> QED
  BY <1>2, <1>3

(* The others keep their order.                                             *)
LEMMA RemoveFirstOrder ==
  ASSUME NEW S, NEW q \in Seq(S), IsInjective(q), NEW x,
         NEW i \in DOMAIN RemoveFirst(q, x), NEW j \in DOMAIN RemoveFirst(q, x), i < j
  PROVE  \E a, b \in DOMAIN q : /\ a < b /\ RemoveFirst(q, x)[i] = q[a]
                                /\ RemoveFirst(q, x)[j] = q[b]
<1>1. DOMAIN q = 1..Len(q) /\ Len(q) \in Nat
  OBVIOUS
<1>2. CASE ~ \E k \in 1..Len(q) : q[k] = x
  <2>1. RemoveFirst(q, x) = q
    BY <1>2 DEF RemoveFirst
  <2> QED
    BY <2>1
<1>3. CASE \E k \in 1..Len(q) : q[k] = x
  <2> PICK k \in 1..Len(q) : q[k] = x
    BY <1>3
  <2>1. RemoveFirst(q, x) = RemoveAt(q, k)
    BY RemoveFirstAt
  <2> DEFINE r == RemoveAt(q, k)
             a == IF i < k THEN i ELSE i + 1
             b == IF j < k THEN j ELSE j + 1
  <2>2. DOMAIN r = 1..(Len(q) - 1)
        /\ \A n \in 1..(Len(q) - 1) : r[n] = IF n < k THEN q[n] ELSE q[n + 1]
    BY RemoveAtFacts
  <2>3. i \in 1..(Len(q) - 1) /\ j \in 1..(Len(q) - 1)
    BY <2>1, <2>2
  <2> HIDE DEF r
  <2>4. r[i] = q[a] /\ r[j] = q[b]
    BY <2>2, <2>3
  <2>5. a \in DOMAIN q /\ b \in DOMAIN q /\ a < b
    BY <1>1, <2>3
  <2> HIDE DEF a, b
  <2> QED
    BY <2>1, <2>4, <2>5 DEF r
<1> QED
  BY <1>2, <1>3

LEMMA ConsFacts ==
  ASSUME NEW S, NEW q \in Seq(S), NEW x \in S
  PROVE  /\ <<x>> \o q \in Seq(S)
         /\ ToSet(<<x>> \o q) = {x} \cup ToSet(q)
         /\ IsInjective(q) /\ x \notin ToSet(q) => IsInjective(<<x>> \o q)
<1> DEFINE r == <<x>> \o q
<1>1. DOMAIN q = 1..Len(q) /\ Len(q) \in Nat /\ <<x>> \in Seq(S) /\ Len(<<x>>) = 1
  OBVIOUS
<1>2. /\ r \in Seq(S) /\ Len(r) = 1 + Len(q)
      /\ \A i \in 1..(1 + Len(q)) : r[i] = IF i <= 1 THEN <<x>>[i] ELSE q[i - 1]
  BY <1>1, ConcatProperties
<1> HIDE DEF r
<1>3. DOMAIN r = 1..(1 + Len(q))
  BY <1>2
<1>4. r[1] = x
  BY <1>1, <1>2
<1>5. \A i \in 1..Len(q) : r[i + 1] = q[i]
  BY <1>1, <1>2
<1>6. \A i \in DOMAIN r : i = 1 \/ (i - 1 \in DOMAIN q /\ r[i] = q[i - 1])
  BY <1>1, <1>2, <1>3
<1>7. ToSet(r) = {x} \cup ToSet(q)
  <2>1. ASSUME NEW i \in DOMAIN r PROVE r[i] \in {x} \cup ToSet(q)
    BY <1>4, <1>6 DEF ToSet
  <2>2. x \in ToSet(r)
    BY <1>1, <1>3, <1>4 DEF ToSet
  <2>3. ASSUME NEW i \in DOMAIN q PROVE q[i] \in ToSet(r)
    <3>1. i + 1 \in DOMAIN r /\ r[i + 1] = q[i]
      BY <1>1, <1>3, <1>5
    <3> QED
      BY <3>1 DEF ToSet
  <2> QED
    BY <2>1, <2>2, <2>3 DEF ToSet
<1>8. ASSUME IsInjective(q), x \notin ToSet(q) PROVE IsInjective(r)
  <2> SUFFICES ASSUME NEW i \in DOMAIN r, NEW j \in DOMAIN r, r[i] = r[j] PROVE i = j
    BY DEF IsInjective
  <2>1. \A k \in DOMAIN q : q[k] # x
    BY <1>8 DEF ToSet
  <2>2. CASE i = 1 \/ j = 1
    BY <1>4, <1>6, <2>1, <2>2
  <2>3. CASE i # 1 /\ j # 1
    <3>1. i - 1 = j - 1
      BY <1>6, <1>8, <2>3 DEF IsInjective
    <3> QED
      BY <1>1, <1>3, <3>1
  <2> QED
    BY <2>2, <2>3
<1> QED
  BY <1>2, <1>7, <1>8 DEF r

LEMMA TailFacts ==
  ASSUME NEW S, NEW q \in Seq(S), q # <<>>
  PROVE  /\ Tail(q) \in Seq(S) /\ Head(q) \in S /\ Head(q) = q[1]
         /\ 1 \in DOMAIN q /\ Head(q) \in ToSet(q)
         /\ DOMAIN Tail(q) = 1..(Len(q) - 1)
         /\ \A i \in DOMAIN Tail(q) : i + 1 \in DOMAIN q /\ Tail(q)[i] = q[i + 1]
         /\ ToSet(q) = {Head(q)} \cup ToSet(Tail(q))
<1>1. /\ Tail(q) \in Seq(S) /\ Head(q) \in S /\ Head(q) = q[1]
      /\ Len(q) \in Nat \ {0} /\ DOMAIN q = 1..Len(q)
      /\ DOMAIN Tail(q) = 1..(Len(q) - 1)
      /\ \A i \in 1..(Len(q) - 1) : Tail(q)[i] = q[i + 1]
  OBVIOUS
<1>2. \A i \in DOMAIN Tail(q) : i + 1 \in DOMAIN q /\ Tail(q)[i] = q[i + 1]
  BY <1>1
<1>3. \A i \in DOMAIN q \ {1} : i - 1 \in DOMAIN Tail(q) /\ Tail(q)[i - 1] = q[i]
  BY <1>1
<1>4. 1 \in DOMAIN q
  BY <1>1
<1>5. ToSet(q) = {q[1]} \cup ToSet(Tail(q))
  <2>1. ASSUME NEW i \in DOMAIN q PROVE q[i] \in {q[1]} \cup ToSet(Tail(q))
    <3>1. CASE i # 1
      <4>1. i - 1 \in DOMAIN Tail(q) /\ Tail(q)[i - 1] = q[i]
        BY <1>3, <3>1
      <4> QED
        BY <4>1, Zenon DEF ToSet
    <3> QED
      BY <3>1
  <2>2. ASSUME NEW i \in DOMAIN Tail(q) PROVE Tail(q)[i] \in ToSet(q)
    <3>1. i + 1 \in DOMAIN q /\ Tail(q)[i] = q[i + 1]
      BY <1>2
    <3> QED
      BY <3>1, Zenon DEF ToSet
  <2>3. q[1] \in ToSet(q)
    BY <1>4 DEF ToSet
  <2> QED
    BY <2>1, <2>2, <2>3 DEF ToSet
<1> QED
  BY <1>1, <1>2, <1>4, <1>5 DEF ToSet

LEMMA TailInjective ==
  ASSUME NEW S, NEW q \in Seq(S), q # <<>>, IsInjective(q)
  PROVE  IsInjective(Tail(q)) /\ ToSet(Tail(q)) = ToSet(q) \ {q[1]}
<1>1. /\ Head(q) = q[1] /\ 1 \in DOMAIN q /\ DOMAIN Tail(q) = 1..(Len(q) - 1)
      /\ \A i \in DOMAIN Tail(q) : i + 1 \in DOMAIN q /\ Tail(q)[i] = q[i + 1]
      /\ ToSet(q) = {Head(q)} \cup ToSet(Tail(q))
  BY TailFacts
<1>2. Len(q) \in Nat
  OBVIOUS
<1>3. IsInjective(Tail(q))
  <2> SUFFICES ASSUME NEW i \in DOMAIN Tail(q), NEW j \in DOMAIN Tail(q), Tail(q)[i] = Tail(q)[j]
               PROVE  i = j
    BY DEF IsInjective
  <2>1. i + 1 = j + 1
    BY <1>1 DEF IsInjective
  <2> QED
    BY <1>1, <1>2, <2>1
<1>4. ASSUME NEW i \in DOMAIN Tail(q) PROVE Tail(q)[i] # q[1]
  <2>1. i + 1 # 1
    BY <1>1, <1>2
  <2> QED
    BY <1>1, <2>1 DEF IsInjective
<1>5. q[1] \notin ToSet(Tail(q))
  BY <1>4 DEF ToSet
<1> QED
  BY <1>1, <1>3, <1>5

LEMMA AppendFacts ==
  ASSUME NEW S, NEW q \in Seq(S), NEW x \in S
  PROVE  /\ Append(q, x) \in Seq(S)
         /\ DOMAIN Append(q, x) = 1..(Len(q) + 1)
         /\ Append(q, x)[Len(q) + 1] = x
         /\ \A i \in DOMAIN q : Append(q, x)[i] = q[i]
         /\ ToSet(Append(q, x)) = ToSet(q) \cup {x}
<1>1. /\ Append(q, x) \in Seq(S) /\ DOMAIN Append(q, x) = 1..(Len(q) + 1)
      /\ Append(q, x)[Len(q) + 1] = x /\ DOMAIN q = 1..Len(q) /\ Len(q) \in Nat
      /\ \A i \in DOMAIN q : Append(q, x)[i] = q[i]
  OBVIOUS
<1>2. DOMAIN Append(q, x) = DOMAIN q \cup {Len(q) + 1}
  BY <1>1
<1>3. ToSet(Append(q, x)) = ToSet(q) \cup {x}
  BY <1>1, <1>2 DEF ToSet
<1> QED
  BY <1>1, <1>3

(* A sequence of the elements of a finite set.                              *)
LEMMA SetToSeqFacts ==
  ASSUME NEW S, IsFiniteSet(S)
  PROVE  /\ SetToSeq(S) \in Seq(S) /\ IsInjective(SetToSeq(S))
         /\ ToSet(SetToSeq(S)) = S
<1> DEFINE n == Cardinality(S)
           F == {f \in [1..n -> S] : IsInjective(f)}
           s == SetToSeq(S)
<1>1. n \in Nat /\ \E f : f \in Bijection(1..n, S)
  <2>1. n \in Nat /\ ExistsBijection(1..n, S)
    BY FS_CardinalityType
  <2> QED
    BY <2>1 DEF ExistsBijection
<1>2. \E f \in [1..n -> S] : IsInjective(f)
  BY <1>1 DEF Bijection, Injection
<1>3. s \in [1..n -> S] /\ IsInjective(s)
  BY <1>2 DEF SetToSeq
<1> HIDE DEF s
<1>4. s \in Injection(1..n, S)
  BY <1>3 DEF Injection
<1>5. IsFiniteSet(1..n) /\ Cardinality(1..n) = n
  BY <1>1, FS_Interval
<1>6. s \in Surjection(1..n, S)
  BY <1>4, <1>5, FS_Injection
<1>7. ToSet(s) = S
  BY <1>3, <1>6 DEF ToSet, Surjection
<1>8. s \in Seq(S)
  BY <1>1, <1>3
<1> QED
  BY <1>3, <1>7, <1>8 DEF s
-----------------------------------------------------------------------------
(* Sums over finite sets: what MapThenSumSet returns, by induction over the *)
(* subsets.  There is no operator to do it with: the set of the subsets for *)
(* which a fact holds is a set like another, and the library's theorem that *)
(* the natural numbers are well founded gives the smallest one outside it.  *)

(* A set of natural numbers has a smallest one.                             *)
LEMMA LeastNat ==
  ASSUME NEW T, T \subseteq Nat, T # {}
  PROVE  \E n \in T : \A m \in T : n <= m
<1>1. PICK n \in T : \A m \in T : ~ (<<m, n>> \in OpToRel(<, Nat))
  BY NatLessThanWellFounded, WFMin
<1>2. ASSUME NEW m \in T PROVE n <= m
  <2>1. m \in Nat /\ n \in Nat OBVIOUS
  <2>2. m < n => <<m, n>> \in OpToRel(<, Nat)
    BY <2>1 DEF OpToRel
  <2>3. ~ (m < n)
    BY <2>2, <1>1
  <2> QED BY <2>1, <2>3
<1> QED BY <1>2

(* A set Q of subsets of a finite set that holds the empty one, and with a  *)
(* subset every one that has an element more, holds the whole set.          *)
LEMMA FiniteInduction ==
  ASSUME NEW S, IsFiniteSet(S), NEW Q, {} \in Q,
         \A T \in SUBSET S : \A x \in S \ T : T \in Q => T \cup {x} \in Q
  PROVE  S \in Q
<1> DEFINE Counts == {Cardinality(T) : T \in {U \in SUBSET S : U \notin Q}}
<1>1. SUFFICES ASSUME S \notin Q PROVE FALSE
  OBVIOUS
<1>2. \A T \in SUBSET S : IsFiniteSet(T) /\ Cardinality(T) \in Nat
  BY FS_Subset, FS_CardinalityType
<1>3. Counts \subseteq Nat /\ Counts # {}
  BY <1>1, <1>2
<1>4. PICK n \in Counts : \A m \in Counts : n <= m
  <2> HIDE DEF Counts
  <2> QED BY <1>3, LeastNat
<1>5. PICK T \in SUBSET S : T \notin Q /\ Cardinality(T) = n
  OBVIOUS
<1>6. PICK x : x \in T
  BY <1>5
<1>7. Cardinality(T \ {x}) = n - 1 /\ T \ {x} \in SUBSET S /\ n \in Nat
  BY <1>2, <1>5, <1>6, FS_RemoveElement
<1>8. T \ {x} \in Q
  <2>1. T \ {x} \notin Q => n - 1 \in Counts
    BY <1>7
  <2> QED BY <2>1, <1>4, <1>7
<1>9. (T \ {x}) \cup {x} = T /\ x \in S \ (T \ {x})
  BY <1>6
<1> QED BY <1>5, <1>7, <1>8, <1>9

(* The function that MapThenSumSet defines on the subsets of S.             *)
IsSum(g, f, S) ==
  g = [T \in SUBSET S |-> IF T = {} THEN 0
                          ELSE f[CHOOSE x \in T : TRUE] + g[T \ {CHOOSE x \in T : TRUE}]]

Pick(T) == CHOOSE x \in T : TRUE

(* Each subset's sum is that of the subset without the element CHOOSE picks,*)
(* and that element.                                                        *)
LEMMA PickIn == ASSUME NEW T, T # {} PROVE Pick(T) \in T
  BY DEF Pick

LEMMA IsSumPick ==
  ASSUME NEW g, NEW f, NEW S
  PROVE  IsSum(g, f, S) <=>
           g = [T \in SUBSET S |-> IF T = {} THEN 0 ELSE f[Pick(T)] + g[T \ {Pick(T)}]]
  BY DEF IsSum, Pick

(* There is such a function: a smallest size of subsets up to which there is*)
(* none cannot be.                                                          *)
LEMMA SumDefined ==
  ASSUME NEW f, NEW S, IsFiniteSet(S)
  PROVE  \E g : IsSum(g, f, S)
<1> DEFINE Small(n) == {T \in SUBSET S : Cardinality(T) <= n}
           R(g, n) == g = [T \in Small(n) |->
                            IF T = {} THEN 0 ELSE f[Pick(T)] + g[T \ {Pick(T)}]]
           Bad == {n \in Nat : ~ \E g : R(g, n)}
<1>1. \A T \in SUBSET S : IsFiniteSet(T) /\ Cardinality(T) \in Nat
                          /\ Cardinality(T) <= Cardinality(S)
  BY FS_Subset, FS_CardinalityType
<1>2. \A T \in SUBSET S : T # {} => /\ T \ {Pick(T)} \in SUBSET S
                                    /\ Cardinality(T \ {Pick(T)}) = Cardinality(T) - 1
  BY <1>1, PickIn, FS_RemoveElement
<1>3. {} \in SUBSET S /\ Cardinality({}) = 0 /\ \A T \in SUBSET S : Cardinality(T) = 0 => T = {}
  BY <1>1, FS_EmptySet
<1>4. Small(0) = {{}}
  BY <1>1, <1>3
<1>5. Bad = {}
  <2>1. SUFFICES ASSUME Bad # {} PROVE FALSE
    OBVIOUS
  <2>2. Bad \subseteq Nat
    OBVIOUS
  <2>3. PICK n \in Bad : \A m \in Bad : n <= m
    <3> HIDE DEF Bad
    <3> QED BY <2>1, <2>2, LeastNat
  <2>4. R([T \in Small(0) |-> 0], 0)
    BY <1>4
  <2>5. n \in Nat /\ n # 0
    BY <2>4
  <2>6. n - 1 \in Nat /\ n - 1 \notin Bad
    <3> HIDE DEF Bad
    <3> QED BY <2>3, <2>5
  <2>7. PICK g : R(g, n - 1)
    BY <2>6
  <2> DEFINE h == [T \in Small(n) |-> IF T \in Small(n - 1) THEN g[T]
                                      ELSE f[Pick(T)] + g[T \ {Pick(T)}]]
  <2>8. ASSUME NEW T \in Small(n)
        PROVE  h[T] = IF T = {} THEN 0 ELSE f[Pick(T)] + h[T \ {Pick(T)}]
    <3>1. T \in SUBSET S /\ Cardinality(T) \in Nat /\ Cardinality(T) <= n
      BY <1>1
    <3>2. CASE T = {}
      <4>1. T \in Small(n - 1)
        BY <3>2, <1>3, <2>5
      <4> QED BY <4>1, <3>2, <2>7
    <3>3. CASE T # {}
      <4>1. T \ {Pick(T)} \in Small(n - 1) /\ T \ {Pick(T)} \in Small(n)
        BY <3>1, <3>3, <1>2, <2>5
      <4>2. h[T \ {Pick(T)}] = g[T \ {Pick(T)}]
        BY <4>1
      <4>3. T \in Small(n - 1) => g[T] = f[Pick(T)] + g[T \ {Pick(T)}]
        BY <2>7, <3>3
      <4> QED BY <4>2, <4>3, <3>3
    <3> QED BY <3>2, <3>3
  <2>9. R(h, n)
    <3> HIDE DEF Small
    <3> QED BY <2>8
  <2>10. n \notin Bad
    <3> HIDE DEF Small, h
    <3> QED BY <2>9
  <2> QED BY <2>10
<1>6. Cardinality(S) \in Nat
  BY <1>1
<1>7. PICK g : R(g, Cardinality(S))
  BY <1>5, <1>6
<1>8. Small(Cardinality(S)) = SUBSET S
  BY <1>1
<1> QED BY <1>7, <1>8, IsSumPick

(* Two such functions agree where the summands do.                          *)
LEMMA SumUnique ==
  ASSUME NEW f, NEW e, NEW S, NEW R, NEW g, NEW h, IsSum(g, f, S), IsSum(h, e, R),
         NEW U, U \subseteq S, U \subseteq R, IsFiniteSet(U), \A x \in U : f[x] = e[x]
  PROVE  g[U] = h[U]
<1> DEFINE Bad == {T \in SUBSET U : g[T] # h[T]}
           Counts == {Cardinality(T) : T \in Bad}
<1>1. SUFFICES ASSUME Bad # {} PROVE FALSE
  OBVIOUS
<1>2. \A T \in SUBSET U : IsFiniteSet(T) /\ Cardinality(T) \in Nat
  BY FS_Subset, FS_CardinalityType
<1>3. Counts \subseteq Nat /\ Counts # {}
  BY <1>1, <1>2
<1>4. PICK n \in Counts : \A m \in Counts : n <= m
  <2> HIDE DEF Counts
  <2> QED BY <1>3, LeastNat
<1>5. PICK T \in Bad : Cardinality(T) = n
  OBVIOUS
<1>6. T \in SUBSET U /\ T \in SUBSET S /\ T \in SUBSET R /\ g[T] # h[T]
  BY <1>5
<1>7. /\ g[T] = IF T = {} THEN 0 ELSE f[Pick(T)] + g[T \ {Pick(T)}]
      /\ h[T] = IF T = {} THEN 0 ELSE e[Pick(T)] + h[T \ {Pick(T)}]
  BY <1>6, IsSumPick
<1>8. T # {} /\ Pick(T) \in T
  BY <1>6, <1>7, PickIn
<1>9. Cardinality(T \ {Pick(T)}) = n - 1 /\ n \in Nat /\ T \ {Pick(T)} \in SUBSET U
  BY <1>2, <1>5, <1>6, <1>8, FS_RemoveElement
<1>10. T \ {Pick(T)} \notin Bad
  <2>1. T \ {Pick(T)} \in Bad => n - 1 \in Counts
    BY <1>9
  <2> HIDE DEF Counts
  <2> QED BY <2>1, <1>4, <1>9
<1>11. g[T \ {Pick(T)}] = h[T \ {Pick(T)}] /\ f[Pick(T)] = e[Pick(T)]
  BY <1>9, <1>10, <1>8, <1>6
<1> QED BY <1>11, <1>7, <1>8, <1>6

IntOn(f, S) == \A x \in S : f[x] \in Int

(* The summands may be taken in any order.                                  *)
AnyOrder(g, f, S) ==
  \A T \in SUBSET S : g[T] \in Int /\ \A x \in T : g[T] = f[x] + g[T \ {x}]

LEMMA SumAnyOrder ==
  ASSUME NEW f, NEW S, IsFiniteSet(S), IntOn(f, S), NEW g, IsSum(g, f, S)
  PROVE  AnyOrder(g, f, S)
<1> DEFINE P(T) == g[T] \in Int /\ \A x \in T : g[T] = f[x] + g[T \ {x}]
           Bad == {T \in SUBSET S : ~P(T)}
           Counts == {Cardinality(T) : T \in Bad}
<1>1. SUFFICES ASSUME Bad # {} PROVE FALSE
  BY DEF AnyOrder
<1>2. \A T \in SUBSET S : IsFiniteSet(T) /\ Cardinality(T) \in Nat
  BY FS_Subset, FS_CardinalityType
<1>3. Counts \subseteq Nat /\ Counts # {}
  BY <1>1, <1>2
<1>4. PICK n \in Counts : \A m \in Counts : n <= m
  <2> HIDE DEF Counts
  <2> QED BY <1>3, LeastNat
<1>5. PICK T \in Bad : Cardinality(T) = n
  OBVIOUS
<1>6. T \in SUBSET S /\ ~P(T)
  BY <1>5
<1>m. \A V \in SUBSET S : Cardinality(V) < n => P(V)
  <2>1. \A V \in SUBSET S : ~P(V) => Cardinality(V) \in Counts
    OBVIOUS
  <2>2. n \in Nat
    BY <1>3
  <2> HIDE DEF Counts, P
  <2> QED BY <2>1, <2>2, <1>2, <1>4
<1>7. \A V \in SUBSET S : g[V] = IF V = {} THEN 0 ELSE f[Pick(V)] + g[V \ {Pick(V)}]
  BY IsSumPick
<1>8. T # {} /\ Pick(T) \in T
  <2>1. T = {} => g[T] = 0
    BY <1>6, <1>7
  <2>2. T # {}
    BY <2>1, <1>6
  <2> QED BY <2>2, PickIn
<1>9. ASSUME NEW x \in T
      PROVE  P(T \ {x})
  <2>1. Cardinality(T \ {x}) = n - 1 /\ n \in Nat /\ T \ {x} \in SUBSET S
    BY <1>2, <1>5, <1>6, FS_RemoveElement
  <2> HIDE DEF P, Counts
  <2> QED BY <2>1, <1>m
<1> DEFINE y == Pick(T)
<1>10. g[T] = f[y] + g[T \ {y}] /\ g[T] \in Int
  <2>1. g[T \ {y}] \in Int /\ f[y] \in Int
    BY <1>8, <1>9, <1>6 DEF IntOn
  <2> QED BY <2>1, <1>7, <1>8, <1>6
<1>11. ASSUME NEW x \in T PROVE g[T] = f[x] + g[T \ {x}]
  <2>1. CASE x = y
    BY <2>1, <1>10
  <2>2. CASE x # y
    <3>1. x \in T \ {y} /\ y \in T \ {x}
      BY <2>2, <1>8
    <3>2. g[T \ {y}] = f[x] + g[(T \ {y}) \ {x}] /\ g[T \ {x}] = f[y] + g[(T \ {x}) \ {y}]
      BY <3>1, <1>8, <1>9
    <3>3. (T \ {y}) \ {x} = (T \ {x}) \ {y}
      OBVIOUS
    <3>4. f[x] \in Int /\ f[y] \in Int
      BY <1>6, <1>8 DEF IntOn
    <3>5. g[(T \ {x}) \ {y}] \in Int
      <4>2. (T \ {x}) \ {y} \in SUBSET S
        BY <1>6
      <4>3. Cardinality(T \ {x}) = n - 1 /\ n \in Nat /\ IsFiniteSet(T \ {x})
        BY <1>2, <1>5, <1>6, FS_RemoveElement
      <4>4. Cardinality((T \ {x}) \ {y}) = n - 2
        <5> DEFINE V == T \ {x}
        <5>1. IsFiniteSet(V) /\ y \in V /\ Cardinality(V) = n - 1 /\ n \in Nat
          BY <4>3, <3>1
        <5> HIDE DEF V, y, Counts, Bad
        <5>2. Cardinality(V \ {y}) = Cardinality(V) - 1
          BY <5>1, FS_RemoveElement
        <5>3. Cardinality(V \ {y}) = n - 2
          BY <5>1, <5>2
        <5> QED BY <5>3 DEF V
      <4>5. P((T \ {x}) \ {y})
        <5> HIDE DEF P, Counts
        <5> QED BY <4>2, <4>3, <4>4, <1>m
      <4> QED BY <4>5
    <3> DEFINE gx == g[T \ {x}]
               gy == g[T \ {y}]
               gxy == g[(T \ {x}) \ {y}]
               fx == f[x]
               fy == f[y]
    <3>6. g[T] = fy + gy /\ gy = fx + gxy /\ gx = fy + gxy /\ fx \in Int /\ fy \in Int /\ gxy \in Int
      BY <1>10, <3>2, <3>3, <3>4, <3>5
    <3>7. g[T] = fx + gx
      <4> HIDE DEF gx, gy, gxy, fx, fy
      <4> QED BY <3>6
    <3> QED BY <3>7
  <2> QED BY <2>1, <2>2
<1> QED BY <1>10, <1>11, <1>6

-----------------------------------------------------------------------------
(* Induction, for facts that hold of the members of a set.                  *)
LEMMA AllNat ==
  ASSUME NEW Q, 0 \in Q, \A n \in Nat : n \in Q => n + 1 \in Q
  PROVE  Nat \subseteq Q
<1>1. SUFFICES ASSUME Nat \ Q # {} PROVE FALSE
  OBVIOUS
<1>2. PICK n \in Nat \ Q : \A m \in Nat \ Q : n <= m
  BY <1>1, LeastNat
<1>3. n # 0 /\ n - 1 \in Nat /\ (n - 1) + 1 = n
  BY <1>2
<1>4. n - 1 \in Q
  BY <1>2, <1>3
<1> QED BY <1>2, <1>3, <1>4

(* Sequences, by what is put last.                                          *)
LEMMA AllSequences ==
  ASSUME NEW S, NEW Q, <<>> \in Q,
         \A q \in Seq(S) : \A x \in S : q \in Q => Append(q, x) \in Q
  PROVE  Seq(S) \subseteq Q
<1> DEFINE R == {n \in Nat : \A q \in Seq(S) : Len(q) = n => q \in Q}
<1>1. 0 \in R
  OBVIOUS
<1>2. ASSUME NEW n \in Nat, n \in R PROVE n + 1 \in R
  <2> SUFFICES ASSUME NEW q \in Seq(S), Len(q) = n + 1 PROVE q \in Q
    OBVIOUS
  <2>1. PICK p \in Seq(S), x \in S : q = Append(p, x) /\ Len(p) = n
    <3>1. q # <<>>
      OBVIOUS
    <3> QED BY <3>1, SequenceEmptyOrAppend, AppendProperties
  <2>2. p \in Q
    BY <1>2, <2>1
  <2> QED BY <2>1, <2>2
<1>3. Nat \subseteq R
  <2> HIDE DEF R
  <2> QED BY <1>1, <1>2, AllNat
<1> QED BY <1>3
=============================================================================
