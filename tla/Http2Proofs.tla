----------------------------- MODULE Http2Proofs -----------------------------
(***************************************************************************)
(* Proofs about the output side of an HTTP/2 connection (Http2), for any    *)
(* streams, priorities, responses, windows and sizes of frames, and any     *)
(* number of frames of the client: what is chosen from a queue and what its *)
(* frames sum to, the invariant, then the operators of the model from the   *)
(* inside out, the actions, and the theorems.                               *)
(***************************************************************************)
EXTENDS Http2, SequenceLemmas

-----------------------------------------------------------------------------
(* What Chosen returns, by induction over the sequence.                     *)
IsKept(F, q, A) ==
  F = [i \in 0..Len(q) |->
         IF i = 0 THEN <<>>
         ELSE IF q[i] \in A THEN Append(F[i - 1], q[i]) ELSE F[i - 1]]

KeptRule(F, q, A) ==
  /\ F[0] = <<>>
  /\ \A i \in 1..Len(q) : F[i] = IF q[i] \in A THEN Append(F[i - 1], q[i]) ELSE F[i - 1]

LEMMA KeptIs ==
  ASSUME NEW S, NEW q \in Seq(S), NEW A, NEW F
  PROVE  IsKept(F, q, A) => KeptRule(F, q, A)
<1>1. Len(q) \in Nat /\ 0 \in 0..Len(q) /\ \A i \in 1..Len(q) : i \in 0..Len(q) /\ i # 0
  OBVIOUS
<1> QED BY <1>1 DEF IsKept, KeptRule

(* There is such a function: from one for the sequence without its last     *)
(* element.                                                                 *)
LEMMA KeptDefined ==
  ASSUME NEW S, NEW A, NEW q \in Seq(S)
  PROVE  \E F : IsKept(F, q, A)
<1> DEFINE Q == {p \in Seq(S) : \E F : IsKept(F, p, A)}
<1>1. <<>> \in Q
  <2>1. IsKept([i \in 0..0 |-> <<>>], <<>>, A)
    BY DEF IsKept
  <2> QED BY <2>1
<1>2. ASSUME NEW p \in Seq(S), NEW x \in S, p \in Q PROVE Append(p, x) \in Q
  <2>1. PICK F : IsKept(F, p, A)
    BY <1>2
  <2> DEFINE n == Len(p)
             r == Append(p, x)
             G == [i \in 0..(n + 1) |->
                     IF i <= n THEN F[i] ELSE IF x \in A THEN Append(F[n], x) ELSE F[n]]
  <2>2. n \in Nat /\ Len(r) = n + 1 /\ r \in Seq(S) /\ r[n + 1] = x
        /\ \A i \in 1..n : r[i] = p[i]
    BY AppendProperties
  <2>3. KeptRule(F, p, A)
    BY <2>1, KeptIs
  <2>4. ASSUME NEW i \in 0..(n + 1)
        PROVE  G[i] = IF i = 0 THEN <<>>
                      ELSE IF r[i] \in A THEN Append(G[i - 1], r[i]) ELSE G[i - 1]
    <3>1. CASE i = 0
      BY <3>1, <2>2, <2>3 DEF KeptRule
    <3>2. CASE i # 0 /\ i <= n
      <4>1. i \in 1..n /\ i - 1 \in 0..(n + 1) /\ i - 1 <= n
        BY <3>2, <2>2
      <4>2. G[i] = F[i] /\ G[i - 1] = F[i - 1]
        BY <4>1
      <4> HIDE DEF r, n, G
      <4> QED BY <4>1, <4>2, <2>2, <2>3, <3>2 DEF KeptRule, n
    <3>3. CASE i = n + 1
      <4>1. n \in 0..(n + 1) /\ ~ (n + 1 <= n) /\ n + 1 \in 0..(n + 1) /\ (n + 1) - 1 = n
        BY <2>2
      <4>2. G[n + 1] = (IF x \in A THEN Append(F[n], x) ELSE F[n]) /\ G[n] = F[n]
        BY <4>1
      <4>3. i # 0
        BY <3>3, <2>2
      <4> HIDE DEF r, n, G
      <4> QED BY <4>1, <4>2, <4>3, <3>3, <2>2
    <3> QED BY <3>1, <3>2, <3>3, <2>2
  <2>5. IsKept(G, r, A)
    <3>1. G = [i \in 0..Len(r) |-> G[i]]
      BY <2>2
    <3> HIDE DEF G
    <3> QED BY <2>2, <2>4, <3>1 DEF IsKept
  <2> HIDE DEF G
  <2> QED BY <2>2, <2>5
<1>3. Seq(S) \subseteq Q
  <2> HIDE DEF Q
  <2> QED BY <1>1, <1>2, AllSequences
<1> QED BY <1>3

(* Two of them agree on a common beginning.                                 *)
LEMMA KeptUnique ==
  ASSUME NEW S, NEW A, NEW q \in Seq(S), NEW p \in Seq(S),
         Len(p) <= Len(q), \A i \in 1..Len(p) : p[i] = q[i],
         NEW F, NEW G, KeptRule(F, q, A), KeptRule(G, p, A)
  PROVE  G[Len(p)] = F[Len(p)]
<1> DEFINE Q == {n \in Nat : n <= Len(p) => G[n] = F[n]}
<1>0. Len(p) \in Nat /\ Len(q) \in Nat
  OBVIOUS
<1>1. 0 \in Q
  BY <1>0 DEF KeptRule
<1>2. ASSUME NEW n \in Nat, n \in Q PROVE n + 1 \in Q
  <2> SUFFICES ASSUME n + 1 <= Len(p) PROVE G[n + 1] = F[n + 1]
    OBVIOUS
  <2>1. n + 1 \in 1..Len(p) /\ n + 1 \in 1..Len(q) /\ n <= Len(p) /\ (n + 1) - 1 = n
    BY <1>0
  <2>2. G[n] = F[n] /\ p[n + 1] = q[n + 1]
    BY <1>2, <2>1
  <2> QED BY <2>1, <2>2 DEF KeptRule
<1>3. Nat \subseteq Q
  <2> HIDE DEF Q
  <2> QED BY <1>1, <1>2, AllNat
<1> QED BY <1>0, <1>3

LEMMA ChosenIs ==
  ASSUME NEW S, NEW A, NEW q \in Seq(S)
  PROVE  \E F : KeptRule(F, q, A) /\ Chosen(q, A) = F[Len(q)]
<1>1. Chosen(q, A) = (CHOOSE F : IsKept(F, q, A))[Len(q)]
  BY DEF Chosen, IsKept
<1>2. IsKept(CHOOSE F : IsKept(F, q, A), q, A)
  BY KeptDefined
<1> QED BY <1>1, <1>2, KeptIs

LEMMA ChosenOfNone == ASSUME NEW A PROVE Chosen(<<>>, A) = <<>>
<1>1. <<>> \in Seq({}) /\ Len(<<>>) = 0
  OBVIOUS
<1>2. PICK F : KeptRule(F, <<>>, A) /\ Chosen(<<>>, A) = F[0]
  BY <1>1, ChosenIs
<1> QED BY <1>2 DEF KeptRule

LEMMA ChosenOfMore ==
  ASSUME NEW S, NEW A, NEW q \in Seq(S), NEW x \in S
  PROVE  Chosen(Append(q, x), A) = IF x \in A THEN Append(Chosen(q, A), x) ELSE Chosen(q, A)
<1> DEFINE r == Append(q, x)
           n == Len(q)
<1>1. r \in Seq(S) /\ Len(r) = n + 1 /\ n \in Nat /\ r[n + 1] = x /\ \A i \in 1..n : r[i] = q[i]
  BY AppendProperties
<1> HIDE DEF r
<1>2. PICK F : KeptRule(F, r, A) /\ Chosen(r, A) = F[n + 1]
  BY <1>1, ChosenIs
<1>3. PICK G : KeptRule(G, q, A) /\ Chosen(q, A) = G[n]
  BY ChosenIs
<1>4. G[n] = F[n]
  BY <1>1, <1>2, <1>3, KeptUnique
<1>5. n + 1 \in 1..Len(r) /\ (n + 1) - 1 = n
  BY <1>1
<1>6. F[n + 1] = IF x \in A THEN Append(F[n], x) ELSE F[n]
  BY <1>1, <1>2, <1>5 DEF KeptRule
<1> QED BY <1>2, <1>3, <1>4, <1>6 DEF r

(* The elements of Chosen(q, A): those of q that are in A, in their order.  *)
Selected(S, q, A) ==
  LET c == Chosen(q, A)
  IN /\ c \in Seq(S) /\ Len(c) <= Len(q)
     /\ ToSet(c) = ToSet(q) \cap A
     /\ \A i, j \in DOMAIN c : i < j =>
          \E a, b \in DOMAIN q : a < b /\ c[i] = q[a] /\ c[j] = q[b]

LEMMA ToSetOfNone == ToSet(<<>>) = {}
  BY DEF ToSet

LEMMA ChosenFacts ==
  ASSUME NEW S, NEW A, NEW q \in Seq(S)
  PROVE  Selected(S, q, A)
<1> DEFINE Q == {p \in Seq(S) : Selected(S, p, A)}
<1>1. <<>> \in Q
  <2>1. Chosen(<<>>, A) = <<>> /\ <<>> \in Seq(S) /\ ToSet(<<>>) = {} /\ DOMAIN <<>> = {}
    BY ChosenOfNone, ToSetOfNone
  <2>2. Len(<<>>) <= Len(<<>>)
    OBVIOUS
  <2> QED BY <2>1, <2>2 DEF Selected
<1>2. ASSUME NEW p \in Seq(S), NEW x \in S, p \in Q PROVE Append(p, x) \in Q
  <2> DEFINE r == Append(p, x)
             c == Chosen(p, A)
             d == Chosen(r, A)
             n == Len(p)
  <2>1. r \in Seq(S) /\ Len(r) = n + 1 /\ n \in Nat /\ DOMAIN r = 1..(n + 1) /\ r[n + 1] = x
        /\ (\A i \in DOMAIN p : r[i] = p[i]) /\ DOMAIN p = 1..n /\ ToSet(r) = ToSet(p) \cup {x}
    BY AppendProperties, AppendFacts
  <2>2. /\ c \in Seq(S) /\ Len(c) <= n
        /\ ToSet(c) = ToSet(p) \cap A
        /\ \A i, j \in DOMAIN c : i < j =>
             \E a, b \in DOMAIN p : a < b /\ c[i] = p[a] /\ c[j] = p[b]
    BY <1>2 DEF Selected
  <2>3. d = IF x \in A THEN Append(c, x) ELSE c
    BY ChosenOfMore
  <2> HIDE DEF r, c, d, n
  <2>4. ASSUME NEW i \in DOMAIN c
        PROVE  \E a \in DOMAIN p : c[i] = p[a]
    <3>1. c[i] \in ToSet(c)
      BY DEF ToSet
    <3> QED BY <3>1, <2>2 DEF ToSet
  <2>5. CASE x \notin A
    <3>1. d = c
      BY <2>3, <2>5
    <3>2. ASSUME NEW i \in DOMAIN d, NEW j \in DOMAIN d, i < j
          PROVE  \E a, b \in DOMAIN r : a < b /\ d[i] = r[a] /\ d[j] = r[b]
      <4>1. PICK a \in DOMAIN p, b \in DOMAIN p : a < b /\ c[i] = p[a] /\ c[j] = p[b]
        BY <3>1, <3>2, <2>2
      <4>2. a \in DOMAIN r /\ b \in DOMAIN r
        BY <2>1
      <4> QED BY <3>1, <4>1, <4>2, <2>1
    <3>3. ToSet(d) = ToSet(r) \cap A
      BY <3>1, <2>1, <2>2, <2>5
    <3>4. Len(d) <= Len(r)
      BY <3>1, <2>1, <2>2
    <3> QED BY <2>1, <3>1, <2>2, <3>2, <3>3, <3>4 DEF Selected, d, r
  <2>6. CASE x \in A
    <3>1. d = Append(c, x)
      BY <2>3, <2>6
    <3>2. d \in Seq(S) /\ DOMAIN d = 1..(Len(c) + 1) /\ d[Len(c) + 1] = x
          /\ (\A i \in DOMAIN c : d[i] = c[i]) /\ ToSet(d) = ToSet(c) \cup {x}
          /\ Len(d) = Len(c) + 1 /\ Len(c) \in Nat /\ DOMAIN c = 1..Len(c)
      BY <3>1, <2>2, AppendFacts, AppendProperties
    <3>3. ASSUME NEW i \in DOMAIN d, NEW j \in DOMAIN d, i < j
          PROVE  \E a, b \in DOMAIN r : a < b /\ d[i] = r[a] /\ d[j] = r[b]
      <4>1. i \in DOMAIN c
        BY <3>2, <3>3
      <4>2. CASE j \in DOMAIN c
        <5>1. PICK a \in DOMAIN p, b \in DOMAIN p : a < b /\ c[i] = p[a] /\ c[j] = p[b]
          BY <4>1, <4>2, <3>3, <2>2
        <5>2. a \in DOMAIN r /\ b \in DOMAIN r
          BY <2>1
        <5> QED BY <5>1, <5>2, <2>1, <3>2, <4>1, <4>2
      <4>3. CASE j \notin DOMAIN c
        <5>1. j = Len(c) + 1
          BY <3>2, <4>3
        <5>2. PICK a \in DOMAIN p : c[i] = p[a]
          BY <2>4, <4>1
        <5>3. a \in DOMAIN r /\ n + 1 \in DOMAIN r /\ a < n + 1
          BY <2>1
        <5> QED BY <5>1, <5>2, <5>3, <2>1, <3>2, <4>1
      <4> QED BY <4>2, <4>3
    <3>4. ToSet(d) = ToSet(r) \cap A
      BY <3>2, <2>1, <2>2, <2>6
    <3>5. Len(d) <= Len(r)
      BY <3>2, <2>1, <2>2
    <3> QED BY <2>1, <3>2, <3>3, <3>4, <3>5 DEF Selected, d, r
  <2> QED BY <2>5, <2>6
<1>3. Seq(S) \subseteq Q
  <2> HIDE DEF Q
  <2> QED BY <1>1, <1>2, AllSequences
<1> QED BY <1>3

(* All of a sequence, or none of it.                                        *)
LEMMA ChosenAll ==
  ASSUME NEW S, NEW A, NEW q \in Seq(S), ToSet(q) \subseteq A
  PROVE  Chosen(q, A) = q
<1> DEFINE Q == {p \in Seq(S) : ToSet(p) \subseteq A => Chosen(p, A) = p}
<1>1. <<>> \in Q
  BY ChosenOfNone
<1>2. ASSUME NEW p \in Seq(S), NEW x \in S, p \in Q PROVE Append(p, x) \in Q
  <2>1. Append(p, x) \in Seq(S) /\ ToSet(Append(p, x)) = ToSet(p) \cup {x}
    BY AppendFacts
  <2> QED BY <2>1, <1>2, ChosenOfMore
<1>3. Seq(S) \subseteq Q
  <2> HIDE DEF Q
  <2> QED BY <1>1, <1>2, AllSequences
<1> QED BY <1>3

LEMMA ChosenNothing ==
  ASSUME NEW S, NEW A, NEW q \in Seq(S), ToSet(q) \cap A = {}
  PROVE  Chosen(q, A) = <<>>
<1> DEFINE Q == {p \in Seq(S) : ToSet(p) \cap A = {} => Chosen(p, A) = <<>>}
<1>1. <<>> \in Q
  BY ChosenOfNone
<1>2. ASSUME NEW p \in Seq(S), NEW x \in S, p \in Q PROVE Append(p, x) \in Q
  <2>1. Append(p, x) \in Seq(S) /\ ToSet(Append(p, x)) = ToSet(p) \cup {x}
    BY AppendFacts
  <2>2. Chosen(Append(p, x), A) = IF x \in A THEN Append(Chosen(p, A), x) ELSE Chosen(p, A)
    BY ChosenOfMore
  <2> QED BY <2>1, <2>2, <1>2
<1>3. Seq(S) \subseteq Q
  <2> HIDE DEF Q
  <2> QED BY <1>1, <1>2, AllSequences
<1> QED BY <1>3

(* What is chosen from a part and from the rest.                            *)
LEMMA ConcatAppend ==
  ASSUME NEW S, NEW p \in Seq(S), NEW q \in Seq(S), NEW x \in S
  PROVE  p \o Append(q, x) = Append(p \o q, x)
  BY AppendIsConcat, ConcatAssociative, ConcatProperties

LEMMA ChosenOfBoth ==
  ASSUME NEW S, NEW A, NEW p \in Seq(S), NEW q \in Seq(S)
  PROVE  Chosen(p \o q, A) = Chosen(p, A) \o Chosen(q, A)
<1>0. Chosen(p, A) \in Seq(S)
  BY ChosenFacts DEF Selected
<1> DEFINE Q == {r \in Seq(S) : Chosen(p \o r, A) = Chosen(p, A) \o Chosen(r, A)}
<1>1. <<>> \in Q
  BY <1>0, ChosenOfNone, ConcatEmptySeq
<1>2. ASSUME NEW r \in Seq(S), NEW x \in S, r \in Q PROVE Append(r, x) \in Q
  <2>1. p \o Append(r, x) = Append(p \o r, x) /\ p \o r \in Seq(S) /\ Append(r, x) \in Seq(S)
    BY ConcatAppend, ConcatProperties, AppendProperties
  <2>2. Chosen(Append(r, x), A) = IF x \in A THEN Append(Chosen(r, A), x) ELSE Chosen(r, A)
    BY ChosenOfMore
  <2>3. Chosen(Append(p \o r, x), A)
          = IF x \in A THEN Append(Chosen(p \o r, A), x) ELSE Chosen(p \o r, A)
    <3> DEFINE z == p \o r
    <3>1. z \in Seq(S)
      BY <2>1
    <3> HIDE DEF z
    <3>2. Chosen(Append(z, x), A) = IF x \in A THEN Append(Chosen(z, A), x) ELSE Chosen(z, A)
      BY <3>1, ChosenOfMore
    <3> QED BY <3>2 DEF z
  <2>4. Chosen(p, A) \o Append(Chosen(r, A), x) = Append(Chosen(p, A) \o Chosen(r, A), x)
    <3>1. Chosen(r, A) \in Seq(S)
      BY ChosenFacts DEF Selected
    <3> QED BY <1>0, <3>1, ConcatAppend
  <2> QED BY <2>1, <2>2, <2>3, <2>4, <1>2
<1>3. Seq(S) \subseteq Q
  <2> HIDE DEF Q
  <2> QED BY <1>1, <1>2, AllSequences
<1> QED BY <1>3

(* A choice among what was chosen, and the two parts of a choice.           *)
LEMMA ChosenTwice ==
  ASSUME NEW S, NEW A, NEW B, NEW q \in Seq(S)
  PROVE  Chosen(Chosen(q, B), A) = Chosen(q, A \cap B)
<1> DEFINE Q == {r \in Seq(S) : Chosen(Chosen(r, B), A) = Chosen(r, A \cap B)}
<1>1. <<>> \in Q
  BY ChosenOfNone
<1>2. ASSUME NEW r \in Seq(S), NEW x \in S, r \in Q PROVE Append(r, x) \in Q
  <2>1. Append(r, x) \in Seq(S) /\ Chosen(r, B) \in Seq(S)
    BY AppendProperties, ChosenFacts DEF Selected
  <2>2. /\ Chosen(Append(r, x), B) = IF x \in B THEN Append(Chosen(r, B), x) ELSE Chosen(r, B)
        /\ Chosen(Append(r, x), A \cap B)
             = IF x \in A \cap B THEN Append(Chosen(r, A \cap B), x) ELSE Chosen(r, A \cap B)
    BY ChosenOfMore
  <2>3. Chosen(Append(Chosen(r, B), x), A)
          = IF x \in A THEN Append(Chosen(Chosen(r, B), A), x) ELSE Chosen(Chosen(r, B), A)
    <3> DEFINE z == Chosen(r, B)
    <3>1. z \in Seq(S)
      BY <2>1
    <3> HIDE DEF z
    <3>2. Chosen(Append(z, x), A) = IF x \in A THEN Append(Chosen(z, A), x) ELSE Chosen(z, A)
      BY <3>1, ChosenOfMore
    <3> QED BY <3>2 DEF z
  <2>4. Chosen(Chosen(r, B), A) = Chosen(r, A \cap B)
    BY <1>2
  <2>5. Chosen(Chosen(Append(r, x), B), A) = Chosen(Append(r, x), A \cap B)
    <3>1. CASE x \in B
      <4>1. Chosen(Append(r, x), B) = Append(Chosen(r, B), x)
        BY <3>1, <2>2
      <4>2. x \in A \cap B <=> x \in A
        BY <3>1
      <4> QED BY <4>1, <4>2, <2>2, <2>3, <2>4
    <3>2. CASE x \notin B
      <4>1. Chosen(Append(r, x), B) = Chosen(r, B)
        BY <3>2, <2>2
      <4>2. x \notin A \cap B
        BY <3>2
      <4> QED BY <4>1, <4>2, <2>2, <2>4
    <3> QED BY <3>1, <3>2
  <2> QED BY <2>1, <2>5
<1>3. Seq(S) \subseteq Q
  <2> HIDE DEF Q
  <2> QED BY <1>1, <1>2, AllSequences
<1> QED BY <1>3

LEMMA ChosenParts ==
  ASSUME NEW S, NEW A, NEW B, NEW q \in Seq(S)
  PROVE  Len(Chosen(q, A)) = Len(Chosen(q, A \cap B)) + Len(Chosen(q, A \ B))
<1> DEFINE Q == {r \in Seq(S) :
                   Len(Chosen(r, A)) = Len(Chosen(r, A \cap B)) + Len(Chosen(r, A \ B))}
<1>1. <<>> \in Q
  BY ChosenOfNone
<1>2. ASSUME NEW r \in Seq(S), NEW x \in S, r \in Q PROVE Append(r, x) \in Q
  <2>1. ASSUME NEW C
        PROVE  /\ Len(Chosen(r, C)) \in Nat
               /\ Len(Chosen(Append(r, x), C)) = Len(Chosen(r, C)) + (IF x \in C THEN 1 ELSE 0)
    <3>1. Chosen(r, C) \in Seq(S)
      BY ChosenFacts DEF Selected
    <3>2. Chosen(Append(r, x), C) = IF x \in C THEN Append(Chosen(r, C), x) ELSE Chosen(r, C)
      BY ChosenOfMore
    <3> QED BY <3>1, <3>2, AppendProperties
  <2>2. Append(r, x) \in Seq(S)
    BY AppendProperties
  <2>3. CASE x \in A /\ x \in B
    BY <2>1, <2>2, <2>3, <1>2
  <2>4. CASE x \in A /\ x \notin B
    BY <2>1, <2>2, <2>4, <1>2
  <2>5. CASE x \notin A
    BY <2>1, <2>2, <2>5, <1>2
  <2> QED BY <2>3, <2>4, <2>5
<1>3. Seq(S) \subseteq Q
  <2> HIDE DEF Q
  <2> QED BY <1>1, <1>2, AllSequences
<1> QED BY <1>3
-----------------------------------------------------------------------------
(* Lens adds up the lengths of the frames, a sum over their positions.      *)
IsLens(g, q) ==
  g = [T \in SUBSET DOMAIN q |->
         IF T = {} THEN 0
         ELSE q[CHOOSE x \in T : TRUE].len + g[T \ {CHOOSE x \in T : TRUE}]]

LenAt(q) == [i \in DOMAIN q |-> q[i].len]

LEMMA IsLensIsSum ==
  ASSUME NEW q, NEW g
  PROVE  IsLens(g, q) <=> IsSum(g, LenAt(q), DOMAIN q)
<1> DEFINE p(T) == CHOOSE x \in T : TRUE
<1>1. \A T \in SUBSET DOMAIN q : T # {} => p(T) \in DOMAIN q
  <2> SUFFICES ASSUME NEW T \in SUBSET DOMAIN q, T # {} PROVE p(T) \in DOMAIN q
    OBVIOUS
  <2>1. p(T) \in T
    OBVIOUS
  <2> QED BY <2>1
<1>2. \A T \in SUBSET DOMAIN q : T # {} => LenAt(q)[p(T)] = q[p(T)].len
  BY <1>1 DEF LenAt
<1> HIDE DEF p
<1> DEFINE ByLens == [T \in SUBSET DOMAIN q |-> IF T = {} THEN 0 ELSE q[p(T)].len + g[T \ {p(T)}]]
           BySum == [T \in SUBSET DOMAIN q |->
                       IF T = {} THEN 0 ELSE LenAt(q)[p(T)] + g[T \ {p(T)}]]
<1>3. ByLens = BySum
  BY <1>2
<1>4. IsLens(g, q) <=> g = ByLens
  BY DEF IsLens, p
<1>5. IsSum(g, LenAt(q), DOMAIN q) <=> g = BySum
  BY DEF IsSum, p
<1> QED BY <1>3, <1>4, <1>5

LEMMA LensIs ==
  ASSUME NEW q \in Seq(Frames)
  PROVE  \E g : IsSum(g, LenAt(q), DOMAIN q) /\ Lens(q) = g[DOMAIN q]
<1>1. Lens(q) = (CHOOSE g : IsLens(g, q))[DOMAIN q]
  BY DEF Lens, FoldSeq, FoldFunction, FoldFunctionOnSet, MapThenFoldSet, IsLens
<1>2. \E g : IsLens(g, q)
  <2>1. IsFiniteSet(DOMAIN q)
    BY FS_Interval
  <2> QED BY <2>1, SumDefined, IsLensIsSum
<1>3. IsLens(CHOOSE g : IsLens(g, q), q)
  BY <1>2
<1> QED BY <1>1, <1>3, IsLensIsSum

LEMMA LensOfNone == Lens(<<>>) = 0
<1>1. <<>> \in Seq(Frames) /\ DOMAIN <<>> = {}
  OBVIOUS
<1>2. PICK g : IsSum(g, LenAt(<<>>), DOMAIN <<>>) /\ Lens(<<>>) = g[DOMAIN <<>>]
  BY <1>1, LensIs
<1> QED BY <1>1, <1>2, IsSumPick

LEMMA FrameLen == ASSUME NEW f \in Frames PROVE f.len \in Nat
  BY DEF Frames

LEMMA LensOfMore ==
  ASSUME NEW q \in Seq(Frames), NEW x \in Frames
  PROVE  Lens(Append(q, x)) = Lens(q) + x.len
<1> DEFINE r == Append(q, x)
           n == Len(q)
<1>1. r \in Seq(Frames) /\ DOMAIN r = 1..(n + 1) /\ r[n + 1] = x /\ n \in Nat
      /\ DOMAIN q = 1..n /\ \A i \in 1..n : r[i] = q[i]
  BY AppendFacts
<1> HIDE DEF r, n
<1>2. PICK g : IsSum(g, LenAt(q), DOMAIN q) /\ Lens(q) = g[DOMAIN q]
  BY LensIs
<1>3. PICK h : IsSum(h, LenAt(r), DOMAIN r) /\ Lens(r) = h[DOMAIN r]
  BY <1>1, LensIs
<1>4. IsFiniteSet(DOMAIN q) /\ IsFiniteSet(DOMAIN r) /\ DOMAIN q \subseteq DOMAIN r
  BY <1>1, FS_Interval
<1>5. IntOn(LenAt(r), DOMAIN r)
  <2>1. \A i \in DOMAIN r : r[i] \in Frames /\ r[i].len \in Int
    BY <1>1, FrameLen
  <2> QED BY <2>1 DEF IntOn, LenAt
<1>6. h[DOMAIN r] = LenAt(r)[n + 1] + h[DOMAIN r \ {n + 1}] /\ h[DOMAIN r \ {n + 1}] \in Int
  <2>1. AnyOrder(h, LenAt(r), DOMAIN r)
    BY <1>3, <1>4, <1>5, SumAnyOrder
  <2>2. n + 1 \in DOMAIN r /\ DOMAIN r \in SUBSET DOMAIN r /\ DOMAIN r \ {n + 1} \in SUBSET DOMAIN r
    BY <1>1
  <2> QED BY <2>1, <2>2 DEF AnyOrder
<1>7. DOMAIN r \ {n + 1} = DOMAIN q
  BY <1>1
<1>8. g[DOMAIN q] = h[DOMAIN q]
  <2>1. \A i \in DOMAIN q : LenAt(q)[i] = LenAt(r)[i]
    BY <1>1, <1>4 DEF LenAt
  <2> QED BY <1>2, <1>3, <1>4, <2>1, SumUnique
<1>9. LenAt(r)[n + 1] = x.len /\ x.len \in Nat
  BY <1>1, FrameLen DEF LenAt
<1> QED BY <1>2, <1>3, <1>6, <1>7, <1>8, <1>9 DEF r

LEMMA LensNat ==
  ASSUME NEW q \in Seq(Frames)
  PROVE  Lens(q) \in Nat
<1> DEFINE Q == {p \in Seq(Frames) : Lens(p) \in Nat}
<1>1. <<>> \in Q
  BY LensOfNone
<1>2. ASSUME NEW p \in Seq(Frames), NEW x \in Frames, p \in Q PROVE Append(p, x) \in Q
  BY <1>2, LensOfMore, FrameLen, AppendProperties
<1>3. Seq(Frames) \subseteq Q
  <2> HIDE DEF Q
  <2> QED BY <1>1, <1>2, AllSequences
<1> QED BY <1>3

LEMMA LensOfBoth ==
  ASSUME NEW p \in Seq(Frames), NEW q \in Seq(Frames)
  PROVE  Lens(p \o q) = Lens(p) + Lens(q)
<1> DEFINE Q == {r \in Seq(Frames) : Lens(p \o r) = Lens(p) + Lens(r)}
<1>1. <<>> \in Q
  BY LensOfNone, LensNat, ConcatEmptySeq
<1>2. ASSUME NEW r \in Seq(Frames), NEW x \in Frames, r \in Q PROVE Append(r, x) \in Q
  <2>1. p \o Append(r, x) = Append(p \o r, x) /\ p \o r \in Seq(Frames)
        /\ Append(r, x) \in Seq(Frames)
    BY ConcatAppend, ConcatProperties, AppendProperties
  <2> DEFINE z == p \o r
  <2>2. z \in Seq(Frames) /\ Lens(z) = Lens(p) + Lens(r)
    BY <2>1, <1>2
  <2>3. p \o Append(r, x) = Append(z, x)
    BY <2>1
  <2> HIDE DEF z
  <2>4. Lens(Append(z, x)) = Lens(z) + x.len /\ Lens(Append(r, x)) = Lens(r) + x.len
    BY <2>2, LensOfMore
  <2>5. Lens(p) \in Nat /\ Lens(r) \in Nat /\ x.len \in Nat
    BY LensNat, FrameLen
  <2>6. Lens(Append(z, x)) = Lens(p) + Lens(Append(r, x))
    BY <2>2, <2>4, <2>5
  <2>7. Lens(p \o Append(r, x)) = Lens(p) + Lens(Append(r, x))
    BY <2>3, <2>6
  <2> QED BY <2>1, <2>7
<1>3. Seq(Frames) \subseteq Q
  <2> HIDE DEF Q
  <2> QED BY <1>1, <1>2, AllSequences
<1> QED BY <1>3

(* The lengths of what is dropped and of what is kept.                      *)
LEMMA LensOfParts ==
  ASSUME NEW A, NEW q \in Seq(Frames)
  PROVE  Lens(q) = Lens(Chosen(q, A)) + Lens(Chosen(q, Frames \ A))
<1> DEFINE Q == {r \in Seq(Frames) :
                   Lens(r) = Lens(Chosen(r, A)) + Lens(Chosen(r, Frames \ A))}
<1>1. <<>> \in Q
  BY ChosenOfNone, LensOfNone
<1>2. ASSUME NEW r \in Seq(Frames), NEW x \in Frames, r \in Q PROVE Append(r, x) \in Q
  <2>1. ASSUME NEW C
        PROVE  /\ Lens(Chosen(r, C)) \in Nat
               /\ Lens(Chosen(Append(r, x), C))
                    = Lens(Chosen(r, C)) + (IF x \in C THEN x.len ELSE 0)
    <3> DEFINE c == Chosen(r, C)
    <3>1. c \in Seq(Frames)
      BY ChosenFacts DEF Selected
    <3>2. Chosen(Append(r, x), C) = IF x \in C THEN Append(c, x) ELSE c
      BY ChosenOfMore
    <3> HIDE DEF c
    <3>3. Lens(c) \in Nat /\ Lens(Append(c, x)) = Lens(c) + x.len
      BY <3>1, LensNat, LensOfMore
    <3> QED BY <3>2, <3>3 DEF c
  <2>2. Append(r, x) \in Seq(Frames) /\ Lens(Append(r, x)) = Lens(r) + x.len /\ x.len \in Nat
    BY AppendProperties, LensOfMore, FrameLen
  <2> DEFINE a == Lens(Chosen(r, A))
             b == Lens(Chosen(r, Frames \ A))
  <2>3. /\ a \in Nat /\ Lens(Chosen(Append(r, x), A)) = a + (IF x \in A THEN x.len ELSE 0)
        /\ b \in Nat /\ Lens(Chosen(Append(r, x), Frames \ A))
                          = b + (IF x \in A THEN 0 ELSE x.len)
    BY <2>1
  <2>4. Lens(r) = a + b
    BY <1>2
  <2>5. Lens(Append(r, x))
          = Lens(Chosen(Append(r, x), A)) + Lens(Chosen(Append(r, x), Frames \ A))
    <3> HIDE DEF a, b
    <3> QED BY <2>2, <2>3, <2>4
  <2> QED BY <2>2, <2>5
<1>3. Seq(Frames) \subseteq Q
  <2> HIDE DEF Q
  <2> QED BY <1>1, <1>2, AllSequences
<1> QED BY <1>3
-----------------------------------------------------------------------------
(* Positions.                                                               *)
LEMMA MaxIn ==
  ASSUME NEW n \in Nat, NEW I, I \subseteq 1..n, I # {}
  PROVE  Max(I) \in I /\ \A x \in I : x <= Max(I)
<1> DEFINE J == {n - x : x \in I}
<1>0. \A x \in I : x \in Int /\ 1 <= x /\ x <= n
  <2>1. \A x \in I : x \in 1..n
    OBVIOUS
  <2> QED BY <2>1
<1>1. J \subseteq Nat /\ J # {}
  <2>1. \A x \in I : n - x \in Nat
    BY <1>0
  <2> QED BY <2>1
<1>2. PICK m \in J : \A k \in J : m <= k
  <2> HIDE DEF J
  <2> QED BY <1>1, LeastNat
<1>3. PICK x \in I : m = n - x
  BY <1>2
<1>4. \A y \in I : x >= y
  <2> SUFFICES ASSUME NEW y \in I PROVE x >= y
    OBVIOUS
  <2>1. n - y \in J
    OBVIOUS
  <2>2. n - x <= n - y /\ x \in Int /\ y \in Int
    BY <2>1, <1>0, <1>2, <1>3
  <2> QED BY <2>2
<1>5. Max(I) \in I /\ \A y \in I : Max(I) >= y
  BY <1>3, <1>4 DEF Max
<1> HIDE DEF J
<1> QED BY <1>5, <1>0

(* k is the last position in I, or 0.                                       *)
LastOf(I, n, k) == k \in 0..n /\ (k # 0 => k \in I) /\ \A i \in I : i <= k

LEMMA LastIs ==
  ASSUME NEW n \in Nat, NEW I, I \subseteq 1..n
  PROVE  LastOf(I, n, IF I # {} THEN Max(I) ELSE 0)
<1>1. CASE I = {}
  BY <1>1 DEF LastOf
<1>2. CASE I # {}
  <2>1. Max(I) \in I /\ \A x \in I : x <= Max(I)
    BY <1>2, MaxIn
  <2>2. Max(I) \in 1..n
    BY <2>1
  <2>3. Max(I) \in 0..n
    BY <2>2
  <2> QED BY <1>2, <2>1, <2>3 DEF LastOf
<1> QED BY <1>1, <1>2

(* A sequence and what follows it.                                          *)
LEMMA ToSetOfBoth ==
  ASSUME NEW S, NEW p \in Seq(S), NEW q \in Seq(S)
  PROVE  ToSet(p \o q) = ToSet(p) \cup ToSet(q)
<1> DEFINE r == p \o q
<1>1. /\ r \in Seq(S) /\ Len(r) = Len(p) + Len(q)
      /\ \A i \in 1..Len(p) + Len(q) : r[i] = IF i <= Len(p) THEN p[i] ELSE q[i - Len(p)]
  BY ConcatProperties
<1>2. Len(p) \in Nat /\ Len(q) \in Nat /\ DOMAIN p = 1..Len(p) /\ DOMAIN q = 1..Len(q)
      /\ DOMAIN r = 1..Len(p) + Len(q)
  BY <1>1
<1> HIDE DEF r
<1>3. \A i \in DOMAIN p : i \in DOMAIN r /\ r[i] = p[i]
  BY <1>1, <1>2
<1>4. ASSUME NEW i \in DOMAIN q
      PROVE  i + Len(p) \in DOMAIN r /\ r[i + Len(p)] = q[i]
  <2>1. i + Len(p) \in 1..Len(p) + Len(q) /\ ~ (i + Len(p) <= Len(p)) /\ (i + Len(p)) - Len(p) = i
    BY <1>2
  <2> QED BY <2>1, <1>1, <1>2
<1>5. ASSUME NEW i \in DOMAIN r
      PROVE  (\E j \in DOMAIN p : r[i] = p[j]) \/ (\E j \in DOMAIN q : r[i] = q[j])
  <2>1. CASE i <= Len(p)
    <3>1. i \in DOMAIN p /\ r[i] = p[i]
      BY <2>1, <1>1, <1>2
    <3> QED BY <3>1
  <2>2. CASE ~ (i <= Len(p))
    <3>1. i - Len(p) \in DOMAIN q /\ r[i] = q[i - Len(p)]
      BY <2>2, <1>1, <1>2
    <3> QED BY <3>1
  <2> QED BY <2>1, <2>2
<1>6. ToSet(p) \cup ToSet(q) \subseteq ToSet(r)
  BY <1>3, <1>4 DEF ToSet
<1>7. ToSet(r) \subseteq ToSet(p) \cup ToSet(q)
  BY <1>5 DEF ToSet
<1> QED BY <1>6, <1>7 DEF r

(* Two elements of it, one before the other.                                *)
PairIn(q, e, f) == \E a, b \in DOMAIN q : a < b /\ e = q[a] /\ f = q[b]

LEMMA PairsOfBoth ==
  ASSUME NEW S, NEW p \in Seq(S), NEW q \in Seq(S),
         NEW x \in DOMAIN (p \o q), NEW y \in DOMAIN (p \o q), x < y
  PROVE  \/ PairIn(p, (p \o q)[x], (p \o q)[y])
         \/ PairIn(q, (p \o q)[x], (p \o q)[y])
         \/ (p \o q)[x] \in ToSet(p) /\ (p \o q)[y] \in ToSet(q)
<1> DEFINE r == p \o q
<1>1. /\ r \in Seq(S) /\ Len(r) = Len(p) + Len(q)
      /\ \A i \in 1..Len(p) + Len(q) : r[i] = IF i <= Len(p) THEN p[i] ELSE q[i - Len(p)]
  BY ConcatProperties
<1>2. Len(p) \in Nat /\ Len(q) \in Nat /\ DOMAIN p = 1..Len(p) /\ DOMAIN q = 1..Len(q)
      /\ DOMAIN r = 1..Len(p) + Len(q)
  BY <1>1
<1>3. x \in DOMAIN r /\ y \in DOMAIN r
  OBVIOUS
<1> HIDE DEF r
<1>4. CASE y <= Len(p)
  <2>1. x \in DOMAIN p /\ y \in DOMAIN p /\ r[x] = p[x] /\ r[y] = p[y]
    BY <1>1, <1>2, <1>3, <1>4
  <2>2. PairIn(p, r[x], r[y])
    BY <2>1 DEF PairIn
  <2> QED BY <2>2 DEF r
<1>5. CASE x <= Len(p) /\ ~ (y <= Len(p))
  <2>1. x \in DOMAIN p /\ y - Len(p) \in DOMAIN q /\ r[x] = p[x] /\ r[y] = q[y - Len(p)]
    BY <1>1, <1>2, <1>3, <1>5
  <2>2. r[x] \in ToSet(p) /\ r[y] \in ToSet(q)
    BY <2>1 DEF ToSet
  <2> QED BY <2>2 DEF r
<1>6. CASE ~ (x <= Len(p))
  <2>1. x - Len(p) \in DOMAIN q /\ y - Len(p) \in DOMAIN q /\ x - Len(p) < y - Len(p)
        /\ r[x] = q[x - Len(p)] /\ r[y] = q[y - Len(p)]
    BY <1>1, <1>2, <1>3, <1>6
  <2>2. PairIn(q, r[x], r[y])
    BY <2>1 DEF PairIn
  <2> QED BY <2>2 DEF r
<1> QED BY <1>2, <1>3, <1>4, <1>5, <1>6

(* A sequence cut in two.                                                   *)
LEMMA CutFacts ==
  ASSUME NEW S, NEW q \in Seq(S), NEW k \in 0..Len(q)
  PROVE  /\ SubSeq(q, 1, k) \in Seq(S) /\ SubSeq(q, k + 1, Len(q)) \in Seq(S)
         /\ Len(SubSeq(q, 1, k)) = k /\ Len(SubSeq(q, k + 1, Len(q))) = Len(q) - k
         /\ q = SubSeq(q, 1, k) \o SubSeq(q, k + 1, Len(q))
         /\ \A i \in 1..k : SubSeq(q, 1, k)[i] = q[i]
         /\ \A i \in 1..Len(q) - k : SubSeq(q, k + 1, Len(q))[i] = q[i + k]
<1>1. Len(q) \in Nat /\ k \in Nat /\ k <= Len(q) /\ SubSeq(q, 1, Len(q)) = q
  OBVIOUS
<1>2. /\ SubSeq(q, 1, k) \in Seq(S) /\ Len(SubSeq(q, 1, k)) = k
      /\ \A i \in 1..k : SubSeq(q, 1, k)[i] = q[i]
  BY <1>1
<1>5. /\ SubSeq(q, k + 1, Len(q)) \in Seq(S) /\ Len(SubSeq(q, k + 1, Len(q))) = Len(q) - k
      /\ \A i \in 1..Len(q) - k : SubSeq(q, k + 1, Len(q))[i] = q[i + k]
  BY <1>1
<1>3. 1 \in 1..Len(q) + 1 /\ k \in (1 - 1)..Len(q) /\ Len(q) \in k..Len(q)
  BY <1>1
<1>4. SubSeq(q, 1, k) \o SubSeq(q, k + 1, Len(q)) = SubSeq(q, 1, Len(q))
  BY <1>3, ConcatAdjacentSubSeq
<1> QED BY <1>1, <1>2, <1>4, <1>5

LEMMA PairOfElements ==
  ASSUME NEW q, NEW e, NEW f, PairIn(q, e, f)
  PROVE  e \in ToSet(q) /\ f \in ToSet(q)
  BY DEF PairIn, ToSet

LEMMA PairsOfBothAre ==
  ASSUME NEW S, NEW p \in Seq(S), NEW q \in Seq(S), NEW e, NEW f, PairIn(p \o q, e, f)
  PROVE  \/ PairIn(p, e, f)
         \/ PairIn(q, e, f)
         \/ e \in ToSet(p) /\ f \in ToSet(q)
<1>1. PICK x \in DOMAIN (p \o q), y \in DOMAIN (p \o q) :
        x < y /\ e = (p \o q)[x] /\ f = (p \o q)[y]
  BY DEF PairIn
<1> QED BY <1>1, PairsOfBoth

(* InsertAfter puts all of new behind the position k.                       *)
Inserted(S, q, k, new) ==
  LET r == InsertAfter(q, k, new)
  IN /\ r \in Seq(S)
     /\ ToSet(r) = ToSet(q) \cup ToSet(new)
     /\ \A A : Len(Chosen(r, A)) = Len(Chosen(q, A)) + Len(Chosen(new, A))
     /\ \A e, f : PairIn(r, e, f) =>
          \/ PairIn(q, e, f)
          \/ PairIn(new, e, f)
          \/ e \in ToSet(q) /\ f \in ToSet(new)
          \/ e \in ToSet(new) /\ \E b \in DOMAIN q : b > k /\ f = q[b]

LEMMA InsertFacts ==
  ASSUME NEW S, NEW q \in Seq(S), NEW new \in Seq(S), NEW k \in 0..Len(q)
  PROVE  Inserted(S, q, k, new)
<1> DEFINE a == SubSeq(q, 1, k)
           b == SubSeq(q, k + 1, Len(q))
           an == a \o new
           r == an \o b
<1>1. /\ a \in Seq(S) /\ b \in Seq(S) /\ Len(a) = k /\ Len(b) = Len(q) - k
      /\ q = a \o b
      /\ \A i \in 1..k : a[i] = q[i]
      /\ \A i \in 1..Len(q) - k : b[i] = q[i + k]
  BY CutFacts
<1>2. InsertAfter(q, k, new) = r
  BY DEF InsertAfter
<1>k. k \in Nat /\ Len(q) \in Nat /\ k <= Len(q) /\ DOMAIN q = 1..Len(q)
  OBVIOUS
<1> HIDE DEF a, b
<1>d. DOMAIN a = 1..k /\ DOMAIN b = 1..Len(q) - k
  <2>1. DOMAIN a = 1..Len(a) /\ DOMAIN b = 1..Len(b)
    BY <1>1
  <2> QED BY <2>1, <1>1
<1>3. an \in Seq(S) /\ ToSet(an) = ToSet(a) \cup ToSet(new)
  BY <1>1, ConcatProperties, ToSetOfBoth
<1>4. ToSet(q) = ToSet(a) \cup ToSet(b)
  BY <1>1, ToSetOfBoth
<1>6. ASSUME NEW A PROVE Len(Chosen(r, A)) = Len(Chosen(q, A)) + Len(Chosen(new, A))
  <2>1. Chosen(an, A) = Chosen(a, A) \o Chosen(new, A)
    BY <1>1, ChosenOfBoth
  <2>2. Chosen(q, A) = Chosen(a, A) \o Chosen(b, A)
    BY <1>1, ChosenOfBoth
  <2>3. Chosen(a, A) \in Seq(S) /\ Chosen(b, A) \in Seq(S) /\ Chosen(new, A) \in Seq(S)
    BY <1>1, ChosenFacts DEF Selected
  <2> HIDE DEF an
  <2>4. Chosen(r, A) = Chosen(an, A) \o Chosen(b, A)
    BY <1>1, <1>3, ChosenOfBoth
  <2>5. Len(Chosen(r, A)) = Len(Chosen(a, A)) + Len(Chosen(new, A)) + Len(Chosen(b, A))
    BY <2>1, <2>3, <2>4, ConcatProperties
  <2>6. Len(Chosen(q, A)) = Len(Chosen(a, A)) + Len(Chosen(b, A))
    BY <2>2, <2>3, ConcatProperties
  <2>7. Len(Chosen(a, A)) \in Nat /\ Len(Chosen(b, A)) \in Nat /\ Len(Chosen(new, A)) \in Nat
    BY <2>3
  <2> HIDE DEF r
  <2> QED BY <2>5, <2>6, <2>7
<1>7. r \in Seq(S) /\ ToSet(r) = ToSet(q) \cup ToSet(new)
  <2>1. r \in Seq(S) /\ ToSet(r) = ToSet(an) \cup ToSet(b)
    <3> HIDE DEF an
    <3> QED BY <1>1, <1>3, ConcatProperties, ToSetOfBoth
  <2> HIDE DEF r, an
  <2> QED BY <2>1, <1>3, <1>4
<1>8. ASSUME NEW e, NEW f, PairIn(a, e, f) PROVE PairIn(q, e, f)
  <2>1. PICK i \in DOMAIN a, j \in DOMAIN a : i < j /\ e = a[i] /\ f = a[j]
    BY <1>8 DEF PairIn
  <2>2. i \in DOMAIN q /\ j \in DOMAIN q /\ e = q[i] /\ f = q[j]
    BY <2>1, <1>1, <1>d, <1>k
  <2> QED BY <2>1, <2>2 DEF PairIn
<1>9. ASSUME NEW i \in DOMAIN b PROVE i + k \in DOMAIN q /\ i + k > k /\ b[i] = q[i + k]
  BY <1>1, <1>d, <1>k
<1>10. ASSUME NEW e, NEW f, PairIn(b, e, f) PROVE PairIn(q, e, f)
  <2>1. PICK i \in DOMAIN b, j \in DOMAIN b : i < j /\ e = b[i] /\ f = b[j]
    BY <1>10 DEF PairIn
  <2>2. i + k \in DOMAIN q /\ j + k \in DOMAIN q /\ i + k < j + k /\ e = q[i + k] /\ f = q[j + k]
    BY <2>1, <1>9, <1>d, <1>k
  <2> QED BY <2>2 DEF PairIn
<1>11. ASSUME NEW e \in ToSet(a), NEW f \in ToSet(b) PROVE PairIn(q, e, f)
  <2>1. PICK i \in DOMAIN a, j \in DOMAIN b : e = a[i] /\ f = b[j]
    BY DEF ToSet
  <2>2. i \in DOMAIN q /\ j + k \in DOMAIN q /\ i < j + k /\ e = q[i] /\ f = q[j + k]
    BY <2>1, <1>1, <1>9, <1>d, <1>k
  <2> QED BY <2>2 DEF PairIn
<1>12. ASSUME NEW f \in ToSet(b) PROVE \E i \in DOMAIN q : i > k /\ f = q[i]
  BY <1>9 DEF ToSet
<1>13. ASSUME NEW e, NEW f, PairIn(r, e, f)
       PROVE  \/ PairIn(q, e, f)
              \/ PairIn(new, e, f)
              \/ e \in ToSet(q) /\ f \in ToSet(new)
              \/ e \in ToSet(new) /\ \E i \in DOMAIN q : i > k /\ f = q[i]
  <2>1. PairIn(an, e, f) \/ PairIn(b, e, f) \/ (e \in ToSet(an) /\ f \in ToSet(b))
    <3> HIDE DEF an
    <3> QED BY <1>1, <1>3, <1>13, PairsOfBothAre
  <2>2. CASE PairIn(an, e, f)
    <3>1. PairIn(a, e, f) \/ PairIn(new, e, f) \/ (e \in ToSet(a) /\ f \in ToSet(new))
      BY <1>1, <2>2, PairsOfBothAre
    <3> QED BY <3>1, <1>4, <1>8
  <2>3. CASE PairIn(b, e, f)
    BY <2>3, <1>10
  <2>4. CASE e \in ToSet(an) /\ f \in ToSet(b)
    BY <2>4, <1>3, <1>11, <1>12
  <2> HIDE DEF an, r
  <2> QED BY <2>1, <2>2, <2>3, <2>4
<1> HIDE DEF r
<1> QED BY <1>2, <1>6, <1>7, <1>13 DEF Inserted

LEMMA LensOfInserted ==
  ASSUME NEW q \in Seq(Frames), NEW new \in Seq(Frames), NEW k \in 0..Len(q)
  PROVE  Lens(InsertAfter(q, k, new)) = Lens(q) + Lens(new)
<1> DEFINE a == SubSeq(q, 1, k)
           b == SubSeq(q, k + 1, Len(q))
<1>1. a \in Seq(Frames) /\ b \in Seq(Frames) /\ q = a \o b
  BY CutFacts
<1>2. InsertAfter(q, k, new) = (a \o new) \o b
  BY DEF InsertAfter
<1> HIDE DEF a, b
<1>3. a \o new \in Seq(Frames) /\ Lens(a \o new) = Lens(a) + Lens(new)
  BY <1>1, ConcatProperties, LensOfBoth
<1>4. Lens((a \o new) \o b) = Lens(a \o new) + Lens(b)
  BY <1>1, <1>3, LensOfBoth
<1>5. Lens(q) = Lens(a) + Lens(b)
  BY <1>1, LensOfBoth
<1>6. Lens(a) \in Nat /\ Lens(b) \in Nat /\ Lens(new) \in Nat
  BY <1>1, LensNat
<1> QED BY <1>2, <1>3, <1>4, <1>5, <1>6
-----------------------------------------------------------------------------
(* The shape of a connection and of its streams.                            *)
StreamRecs ==
  [st : {"none", "open", "sent", "writing", "closing", "closed"},
   left : Nat, more : BOOLEAN, trailers : BOOLEAN, win : Int, queued : Int,
   exhausted : BOOLEAN, inClosed : BOOLEAN, outClosed : BOOLEAN, rst : BOOLEAN,
   err : BOOLEAN, posted : BOOLEAN]

ConnRecs ==
  [st : {"open", "idle", "ending", "closed"}, win : Nat, init : Nat,
   ready : BOOLEAN, error : BOOLEAN, goaway : BOOLEAN,
   out : Seq(Frames), wait : Seq(Streams), str : [Streams -> StreamRecs],
   phase : {"", "reading", "waking", "adjusting", "writing", "final"},
   todo : SUBSET Streams, delta : Int, rev : BOOLEAN, wev : BOOLEAN,
   credit : Nat, frames : Nat]

(* The frames and the windows are accounted for.                            *)
Accounted(out, str, win, credit) ==
  /\ win + Lens(out) = credit
  /\ \A s \in Streams : Len(Chosen(out, OfStream(s))) = str[s].queued

(* The states of a stream: only one whose answer has begun has frames.      *)
StreamOk(x) ==
  /\ x.st \in {"none", "open", "closed"} => x.queued = 0 /\ ~x.more
  /\ x.st = "none" => ~x.exhausted /\ ~x.err /\ ~x.outClosed
  /\ x.st = "open" /\ x.outClosed => x.err
  /\ x.exhausted => x.win <= 0
  /\ x.outClosed /\ x.more => x.err

(* A frame in the queue: its stream has nothing left when it is the last,   *)
(* and what a stream that is being closed has there cannot be dropped; a    *)
(* stream that is reset has an error.                                       *)
FrameOk(str, f) ==
  /\ f.begun => f.blocked
  /\ f.fin => f.stream \in Streams /\ ~str[f.stream].more
  /\ f.stream \in Streams /\ str[f.stream].st = "closing" => f.blocked
  /\ f.resets \in Streams => str[f.resets].st = "closed" \/ str[f.resets].err

(* Two frames, e somewhere before f.  What follows the reset of a stream is *)
(* dropped by the handler of that stream, cur, which has not run yet, or    *)
(* when its request ends.                                                   *)
Before(str, cur, e, f) ==
  /\ ~f.begun
  /\ f.stream \in Streams /\ f.stream = e.stream => ~e.fin /\ (f.kind = "headers" => f.fin)
  /\ f.stream \in Streams /\ f.stream = e.resets =>
       /\ ~f.blocked
       /\ f.stream = cur \/ str[f.stream].st \in {"open", "sent"}

QueueOk(out, str, cur) ==
  /\ \A f \in ToSet(out) : FrameOk(str, f)
  /\ \A e, f \in Frames : PairIn(out, e, f) => Before(str, cur, e, f)

(* Streams wait for the window of the connection while it is closed or when *)
(* the loop that wakes them is at work.                                     *)
WaitOk(wait, str, win, phase, cur) ==
  /\ wait # <<>> /\ phase # "waking" => win = 0
  /\ \A s \in ToSet(wait) : s = cur \/ str[s].st = "writing"

(* What is to wake a stream.                                                *)
Woken(wait, x, s) ==
  \/ x.st \notin {"writing", "closing"}
  \/ x.posted
  \/ x.queued > 0
  \/ x.exhausted
  \/ x.st = "writing" /\ s \in ToSet(wait)

(* All of it, but for the order of the frames of cur and its place among    *)
(* the waiting streams, and for what is to wake lazy.                       *)
Kept(h, cur, lazy) ==
  /\ Accounted(h.out, h.str, h.win, h.credit)
  /\ QueueOk(h.out, h.str, cur)
  /\ WaitOk(h.wait, h.str, h.win, h.phase, cur)
  /\ \A s \in Streams : StreamOk(h.str[s])
  /\ \A s \in Streams \ {lazy} : Woken(h.wait, h.str[s], s)

Sound(h, cur, lazy) == h \in ConnRecs /\ (~h.error => Kept(h, cur, lazy))

(* The inductive invariant.  The loops over the streams have those before   *)
(* them that were there when they began, the one that wakes streams has     *)
(* one, and the one that ends the connection runs on one that has failed.   *)
HtInv(h) ==
  /\ Sound(h, NoStream, NoStream)
  /\ h.phase = "final" => h.error
  /\ h.phase \in {"adjusting", "final"} => h.todo \subseteq Processing(h)
  /\ h.phase = "waking" => h.wait # <<>>

LEMMA SeqSet == ASSUME NEW S, NEW q \in Seq(S) PROVE ToSet(q) \subseteq S
<1>1. \A i \in DOMAIN q : q[i] \in S
  OBVIOUS
<1> QED BY <1>1 DEF ToSet

LEMMA FrameFields ==
  ASSUME NEW f \in Frames
  PROVE  /\ f.stream \in Streams \cup {NoStream} /\ f.resets \in Streams \cup {NoStream}
         /\ f.len \in Nat /\ f.blocked \in BOOLEAN /\ f.begun \in BOOLEAN /\ f.fin \in BOOLEAN
  BY DEF Frames

LEMMA ConnFields ==
  ASSUME NEW h \in ConnRecs
  PROVE  /\ h.win \in Nat /\ h.credit \in Nat /\ h.out \in Seq(Frames) /\ h.wait \in Seq(Streams)
         /\ h.str \in [Streams -> StreamRecs] /\ h.todo \in SUBSET Streams
         /\ h.error \in BOOLEAN /\ h.init \in Nat /\ h.delta \in Int /\ h.frames \in Nat
         /\ ToSet(h.wait) \subseteq Streams /\ ToSet(h.out) \subseteq Frames
<1>1. /\ h.win \in Nat /\ h.credit \in Nat /\ h.out \in Seq(Frames) /\ h.wait \in Seq(Streams)
      /\ h.str \in [Streams -> StreamRecs] /\ h.todo \in SUBSET Streams
      /\ h.error \in BOOLEAN /\ h.init \in Nat /\ h.delta \in Int /\ h.frames \in Nat
  BY DEF ConnRecs
<1> QED BY <1>1, SeqSet

LEMMA SoundWeaker ==
  ASSUME NEW h, NEW s \in Streams, NEW cur \in {s, NoStream}, NEW lazy \in {s, NoStream},
         Sound(h, cur, lazy)
  PROVE  Sound(h, s, s) /\ Sound(h, cur, s) /\ Sound(h, s, lazy)
<1>0. NoStream \notin Streams
  BY Http2Assumption
<1>1. ASSUME QueueOk(h.out, h.str, NoStream) PROVE QueueOk(h.out, h.str, s)
  BY <1>0, <1>1 DEF QueueOk, Before
<1>2. ASSUME WaitOk(h.wait, h.str, h.win, h.phase, NoStream), h \in ConnRecs
      PROVE  WaitOk(h.wait, h.str, h.win, h.phase, s)
  <2>1. ToSet(h.wait) \subseteq Streams
    BY <1>2, ConnFields
  <2> QED BY <2>1, <1>0, <1>2 DEF WaitOk
<1>3. ASSUME \A t \in Streams \ {lazy} : Woken(h.wait, h.str[t], t)
      PROVE  \A t \in Streams \ {s} : Woken(h.wait, h.str[t], t)
  BY <1>0, <1>3
<1> QED BY <1>1, <1>2, <1>3 DEF Sound, Kept

LEMMA StreamFields ==
  ASSUME NEW x \in StreamRecs
  PROVE  /\ x.left \in Nat /\ x.win \in Int /\ x.queued \in Int
         /\ x.more \in BOOLEAN /\ x.exhausted \in BOOLEAN /\ x.err \in BOOLEAN
         /\ x.posted \in BOOLEAN /\ x.outClosed \in BOOLEAN
         /\ x.st \in {"none", "open", "sent", "writing", "closing", "closed"}
  BY DEF StreamRecs

(* The operators that put a frame in: the position has no blocked frame and *)
(* none of the connection behind it.                                        *)
LEMMA QueuesBlocked ==
  ASSUME NEW h \in ConnRecs, NEW f \in Frames
  PROVE  \E k \in 0..Len(h.out) :
           /\ ngx_http_v2_queue_blocked_frame(h, f) = [h EXCEPT !.out = InsertAfter(h.out, k, <<f>>)]
           /\ \A b \in DOMAIN h.out : b > k => ~h.out[b].blocked /\ h.out[b].stream \in Streams
<1> DEFINE I == {i \in 1..Len(h.out) : h.out[i].blocked \/ h.out[i].stream = NoStream}
           k == IF I # {} THEN Max(I) ELSE 0
<1>1. h.out \in Seq(Frames) /\ Len(h.out) \in Nat /\ DOMAIN h.out = 1..Len(h.out)
  BY ConnFields
<1>2. LastOf(I, Len(h.out), k)
  BY <1>1, LastIs
<1>3. ngx_http_v2_queue_blocked_frame(h, f) = [h EXCEPT !.out = InsertAfter(h.out, k, <<f>>)]
  BY DEF ngx_http_v2_queue_blocked_frame, SelectLastInSeq
<1> HIDE DEF k
<1>4. ASSUME NEW b \in DOMAIN h.out, b > k
      PROVE  ~h.out[b].blocked /\ h.out[b].stream \in Streams
  <2>1. b \notin I
    <3> HIDE DEF I
    <3>1. k \in Int /\ b \in Int
      BY <1>1, <1>2 DEF LastOf
    <3> QED BY <1>2, <1>4, <3>1 DEF LastOf
  <2>2. h.out[b].stream \in Streams \cup {NoStream}
    <3>1. h.out[b] \in Frames
      BY <1>1
    <3> QED BY <3>1, FrameFields
  <2> QED BY <2>1, <2>2, <1>1
<1> QED BY <1>2, <1>3, <1>4 DEF LastOf

LEMMA QueuesFrames ==
  ASSUME NEW h \in ConnRecs, NEW s \in Streams, NEW new \in Seq(Frames)
  PROVE  \E k \in 0..Len(h.out) :
           /\ ngx_http_v2_queue_frame(h, s, new)
                = [h EXCEPT !.out = InsertAfter(h.out, k, new), !.str[s].queued = @ + Len(new)]
           /\ \A b \in DOMAIN h.out : b > k =>
                /\ ~h.out[b].blocked
                /\ h.out[b].stream \in Streams \ {s}
<1> DEFINE I == {i \in 1..Len(h.out) : \/ h.out[i].blocked
                                       \/ h.out[i].stream = NoStream
                                       \/ Prio[h.out[i].stream] <= Prio[s]}
           k == IF I # {} THEN Max(I) ELSE 0
<1>1. h.out \in Seq(Frames) /\ Len(h.out) \in Nat /\ DOMAIN h.out = 1..Len(h.out)
  BY ConnFields
<1>2. LastOf(I, Len(h.out), k)
  BY <1>1, LastIs
<1>3. ngx_http_v2_queue_frame(h, s, new)
        = [h EXCEPT !.out = InsertAfter(h.out, k, new), !.str[s].queued = @ + Len(new)]
  BY DEF ngx_http_v2_queue_frame, SelectLastInSeq
<1> HIDE DEF k
<1>4. ASSUME NEW b \in DOMAIN h.out, b > k
      PROVE  ~h.out[b].blocked /\ h.out[b].stream \in Streams \ {s}
  <2>1. b \notin I
    <3> HIDE DEF I
    <3>1. k \in Int /\ b \in Int
      BY <1>1, <1>2 DEF LastOf
    <3> QED BY <1>2, <1>4, <3>1 DEF LastOf
  <2>2. h.out[b].stream \in Streams \cup {NoStream}
    <3>1. h.out[b] \in Frames
      BY <1>1
    <3> QED BY <3>1, FrameFields
  <2>3. Prio[s] <= Prio[s]
    BY Http2Assumption
  <2> QED BY <2>1, <2>2, <2>3, <1>1
<1> QED BY <1>2, <1>3, <1>4 DEF LastOf

(* Putting frames in keeps the queue in order, if they go with each other,  *)
(* with all that is there and with what comes to lie behind them.           *)
LEMMA QueueInsert ==
  ASSUME NEW out \in Seq(Frames), NEW new \in Seq(Frames), NEW k \in 0..Len(out),
         NEW str, NEW cur, QueueOk(out, str, cur),
         \A f \in ToSet(new) : FrameOk(str, f),
         \A e, f \in Frames : PairIn(new, e, f) => Before(str, cur, e, f),
         \A e \in ToSet(out), f \in ToSet(new) : Before(str, cur, e, f),
         \A e \in ToSet(new), b \in DOMAIN out : b > k => Before(str, cur, e, out[b])
  PROVE  QueueOk(InsertAfter(out, k, new), str, cur)
<1> DEFINE r == InsertAfter(out, k, new)
<1>1. Inserted(Frames, out, k, new)
  BY InsertFacts
<1>2. /\ ToSet(r) = ToSet(out) \cup ToSet(new)
      /\ \A e, f : PairIn(r, e, f) =>
          \/ PairIn(out, e, f)
          \/ PairIn(new, e, f)
          \/ e \in ToSet(out) /\ f \in ToSet(new)
          \/ e \in ToSet(new) /\ \E b \in DOMAIN out : b > k /\ f = out[b]
  BY <1>1 DEF Inserted
<1> HIDE DEF r
<1>3. \A f \in ToSet(r) : FrameOk(str, f)
  BY <1>2 DEF QueueOk
<1>4. ASSUME NEW e \in Frames, NEW f \in Frames, PairIn(r, e, f) PROVE Before(str, cur, e, f)
  BY <1>2, <1>4 DEF QueueOk
<1> QED BY <1>3, <1>4 DEF QueueOk, r

LEMMA OneFrame ==
  ASSUME NEW f
  PROVE  ToSet(<<f>>) = {f} /\ \A a, b : ~PairIn(<<f>>, a, b)
<1>1. DOMAIN <<f>> = 1..1 /\ <<f>>[1] = f
  OBVIOUS
<1> QED BY <1>1 DEF ToSet, PairIn

LEMMA OneChosen ==
  ASSUME NEW S, NEW f \in S
  PROVE  <<f>> \in Seq(S) /\ \A A : Chosen(<<f>>, A) = IF f \in A THEN <<f>> ELSE <<>>
<1>1. <<f>> \in Seq(S) /\ ToSet(<<f>>) = {f}
  BY OneFrame
<1>2. ASSUME NEW A PROVE Chosen(<<f>>, A) = IF f \in A THEN <<f>> ELSE <<>>
  <2>1. CASE f \in A
    <3>1. ToSet(<<f>>) \subseteq A
      BY <1>1, <2>1
    <3> QED BY <1>1, <2>1, <3>1, ChosenAll
  <2>2. CASE f \notin A
    <3>1. ToSet(<<f>>) \cap A = {}
      BY <1>1, <2>2
    <3> QED BY <1>1, <2>2, <3>1, ChosenNothing
  <2> QED BY <2>1, <2>2
<1> QED BY <1>1, <1>2

LEMMA LensOfOne ==
  ASSUME NEW f \in Frames
  PROVE  Lens(<<f>>) = f.len
<1>1. <<f>> = Append(<<>>, f) /\ <<>> \in Seq(Frames)
  OBVIOUS
<1>2. Lens(Append(<<>>, f)) = Lens(<<>>) + f.len
  BY <1>1, LensOfMore
<1> QED BY <1>1, <1>2, LensOfNone, FrameFields

(* The queue depends on what the streams have left, on their errors and on  *)
(* how far they are.                                                        *)
LEMMA QueueSame ==
  ASSUME NEW out \in Seq(Frames), NEW str, NEW new, NEW cur, QueueOk(out, str, cur),
         \A s \in Streams : /\ new[s].st = str[s].st
                            /\ str[s].err => new[s].err
                            /\ new[s].more => str[s].more
  PROVE  QueueOk(out, new, cur)
<1>1. ASSUME NEW f \in ToSet(out), FrameOk(str, f) PROVE FrameOk(new, f)
  BY <1>1 DEF FrameOk
<1>2. ASSUME NEW e, NEW f, Before(str, cur, e, f) PROVE Before(new, cur, e, f)
  BY <1>2 DEF Before
<1> QED BY <1>1, <1>2 DEF QueueOk

(* The frames of the connection, of a stream's reset and of its header.     *)
LEMMA ControlFrame ==
  /\ Control \in Frames /\ Control.stream = NoStream /\ Control.resets = NoStream
  /\ ~Control.begun /\ ~Control.fin /\ Control.len = 0
  BY DEF Control, Frames

LEMMA ResetFrame ==
  ASSUME NEW s \in Streams
  PROVE  /\ Reset(s) \in Frames /\ Reset(s).stream = NoStream /\ Reset(s).resets = s
         /\ ~Reset(s).begun /\ ~Reset(s).fin /\ Reset(s).len = 0
  BY DEF Control, Reset, Frames

LEMMA HeaderFrame ==
  ASSUME NEW s \in Streams, NEW fin \in BOOLEAN
  PROVE  /\ HeadersFrame(s, fin) \in Frames /\ HeadersFrame(s, fin).stream = s
         /\ HeadersFrame(s, fin).resets = NoStream /\ ~HeadersFrame(s, fin).begun
         /\ HeadersFrame(s, fin).blocked /\ HeadersFrame(s, fin).fin = fin
         /\ HeadersFrame(s, fin).len = 0 /\ HeadersFrame(s, fin).kind = "headers"
  BY DEF Control, HeadersFrame, Frames

(* The frames that are of a stream.                                         *)
LEMMA OfStreamOnly ==
  ASSUME NEW f \in Frames, NEW s
  PROVE  f \in OfStream(s) <=> f.stream = s
  BY DEF OfStream

(* Frames put in take from the window and count for their streams.          *)
LEMMA AccountedInsert ==
  ASSUME NEW out \in Seq(Frames), NEW new \in Seq(Frames), NEW k \in 0..Len(out),
         NEW str, NEW win \in Nat, NEW credit, NEW str2, NEW win2 \in Nat,
         Accounted(out, str, win, credit),
         win = win2 + Lens(new),
         \A s \in Streams : str[s].queued \in Int /\
           str2[s].queued = str[s].queued + Len(Chosen(new, OfStream(s)))
  PROVE  Accounted(InsertAfter(out, k, new), str2, win2, credit)
<1> DEFINE r == InsertAfter(out, k, new)
<1>1. Lens(r) = Lens(out) + Lens(new) /\ Lens(out) \in Nat /\ Lens(new) \in Nat
  BY LensOfInserted, LensNat
<1>2. \A A : Len(Chosen(r, A)) = Len(Chosen(out, A)) + Len(Chosen(new, A))
  BY InsertFacts DEF Inserted
<1> HIDE DEF r
<1>3. win2 + Lens(r) = credit
  BY <1>1 DEF Accounted
<1>4. \A s \in Streams : Len(Chosen(r, OfStream(s))) = str2[s].queued
  BY <1>2 DEF Accounted
<1> QED BY <1>3, <1>4 DEF Accounted, r

(* A frame of the connection behind all that is blocked: it counts for no   *)
(* stream, and is in order if it resets no stream or one whose frames       *)
(* behind it are to be dropped.                                             *)
LEMMA OtherFrame ==
  ASSUME NEW out \in Seq(Frames), NEW f \in Frames, NEW k \in 0..Len(out),
         NEW str \in [Streams -> StreamRecs], NEW win \in Nat, NEW credit, NEW cur,
         Accounted(out, str, win, credit), QueueOk(out, str, cur),
         f.stream = NoStream, ~f.begun, ~f.fin, f.len = 0, FrameOk(str, f),
         \A b \in DOMAIN out : b > k =>
           /\ ~out[b].blocked
           /\ out[b].stream \in Streams /\ out[b].stream = f.resets =>
                out[b].stream = cur \/ str[out[b].stream].st \in {"open", "sent"}
  PROVE  /\ InsertAfter(out, k, <<f>>) \in Seq(Frames)
         /\ Accounted(InsertAfter(out, k, <<f>>), str, win, credit)
         /\ QueueOk(InsertAfter(out, k, <<f>>), str, cur)
<1> DEFINE new == <<f>>
           o == InsertAfter(out, k, new)
<1>n. NoStream \notin Streams
  BY Http2Assumption
<1>2. new \in Seq(Frames) /\ ToSet(new) = {f} /\ \A a, b : ~PairIn(new, a, b)
  BY OneFrame, OneChosen
<1>3. Lens(new) = 0 /\ \A s \in Streams : Len(Chosen(new, OfStream(s))) = 0
  <2>1. \A s \in Streams : Chosen(new, OfStream(s)) = <<>>
    BY <1>n, OneChosen, OfStreamOnly
  <2>2. Lens(new) = 0
    BY LensOfOne
  <2> QED BY <2>1, <2>2
<1> HIDE DEF new
<1>4. o \in Seq(Frames)
  BY <1>2, InsertFacts DEF Inserted
<1>5. Accounted(o, str, win, credit)
  <2>1. \A s \in Streams : str[s].queued \in Int
                           /\ str[s].queued = str[s].queued + Len(Chosen(new, OfStream(s)))
    <3>1. \A s \in Streams : str[s].queued \in Int
      BY StreamFields
    <3> QED BY <3>1, <1>3
  <2>2. win = win + Lens(new)
    BY <1>3
  <2> QED BY <1>2, <2>1, <2>2, AccountedInsert
<1>6. QueueOk(o, str, cur)
  <2>1. \A g \in ToSet(new) : FrameOk(str, g)
    BY <1>2
  <2>2. \A e \in ToSet(out), g \in ToSet(new) : Before(str, cur, e, g)
    BY <1>2, <1>n DEF Before
  <2>3. \A e \in ToSet(new), b \in DOMAIN out : b > k => Before(str, cur, e, out[b])
    <3>1. \A b \in DOMAIN out : b > k => ~out[b].begun
      <4>1. \A b \in DOMAIN out : FrameOk(str, out[b])
        BY DEF QueueOk, ToSet
      <4> QED BY <4>1 DEF FrameOk
    <3> QED BY <3>1, <1>2, <1>n DEF Before
  <2> QED BY <1>2, <2>1, <2>2, <2>3, QueueInsert
<1> QED BY <1>4, <1>5, <1>6 DEF new

LEMMA QueueControl ==
  ASSUME NEW h, NEW cur, NEW lazy, Sound(h, cur, lazy)
  PROVE  /\ Sound(ngx_http_v2_queue_blocked_frame(h, Control), cur, lazy)
         /\ \E o \in Seq(Frames) :
              ngx_http_v2_queue_blocked_frame(h, Control) = [h EXCEPT !.out = o]
<1>h. h \in ConnRecs
  BY DEF Sound
<1>c. /\ Control \in Frames /\ Control.stream = NoStream /\ Control.resets = NoStream
      /\ ~Control.begun /\ ~Control.fin /\ Control.len = 0
  BY ControlFrame
<1>n. NoStream \notin Streams
  BY Http2Assumption
<1>1. PICK k \in 0..Len(h.out) :
        /\ ngx_http_v2_queue_blocked_frame(h, Control)
             = [h EXCEPT !.out = InsertAfter(h.out, k, <<Control>>)]
        /\ \A b \in DOMAIN h.out : b > k => ~h.out[b].blocked /\ h.out[b].stream \in Streams
  BY <1>h, <1>c, QueuesBlocked
<1> DEFINE o == InsertAfter(h.out, k, <<Control>>)
<1>4. h.out \in Seq(Frames) /\ o \in Seq(Frames)
  BY <1>h, <1>c, OneChosen, ConnFields, InsertFacts DEF Inserted
<1>5. [h EXCEPT !.out = o] \in ConnRecs
  <2> HIDE DEF o
  <2> QED BY <1>h, <1>4 DEF ConnRecs
<1>6. ASSUME Kept(h, cur, lazy) PROVE Kept([h EXCEPT !.out = o], cur, lazy)
  <2>1. Accounted(o, h.str, h.win, h.credit) /\ QueueOk(o, h.str, cur)
    <3>1. Accounted(h.out, h.str, h.win, h.credit) /\ QueueOk(h.out, h.str, cur)
      BY <1>6 DEF Kept
    <3>2. FrameOk(h.str, Control)
      BY <1>c, <1>n DEF FrameOk
    <3>3. h.str \in [Streams -> StreamRecs] /\ h.win \in Nat
      BY <1>h, ConnFields
    <3>4. \A b \in DOMAIN h.out : b > k =>
            /\ ~h.out[b].blocked
            /\ h.out[b].stream \in Streams /\ h.out[b].stream = Control.resets =>
                 h.out[b].stream = cur \/ h.str[h.out[b].stream].st \in {"open", "sent"}
      BY <1>c, <1>n, <1>1
    <3> QED BY <1>c, <1>4, <3>1, <3>2, <3>3, <3>4, OtherFrame
  <2>3. /\ [h EXCEPT !.out = o].out = o /\ [h EXCEPT !.out = o].str = h.str
        /\ [h EXCEPT !.out = o].win = h.win /\ [h EXCEPT !.out = o].credit = h.credit
        /\ [h EXCEPT !.out = o].wait = h.wait /\ [h EXCEPT !.out = o].phase = h.phase
    BY <1>h DEF ConnRecs
  <2> HIDE DEF o
  <2> QED BY <1>6, <2>1, <2>3 DEF Kept
<1>7. [h EXCEPT !.out = o].error = h.error
  BY <1>h DEF ConnRecs
<1>8. Sound([h EXCEPT !.out = o], cur, lazy)
  <2> HIDE DEF o
  <2> QED BY <1>5, <1>6, <1>7 DEF Sound
<1>9. ngx_http_v2_queue_blocked_frame(h, Control) = [h EXCEPT !.out = o]
  BY <1>1
<1> HIDE DEF o
<1> QED BY <1>4, <1>8, <1>9
-----------------------------------------------------------------------------
(* A stream changes, but not in how far it is nor in its frames.            *)
LEMMA StreamChange ==
  ASSUME NEW h \in ConnRecs, NEW s \in Streams, NEW y \in StreamRecs,
         NEW cur, NEW lazy \in {s, NoStream}, NEW lazy2,
         Kept(h, cur, lazy),
         y.st = h.str[s].st, y.queued = h.str[s].queued,
         h.str[s].err => y.err, y.more => h.str[s].more, StreamOk(y),
         lazy2 = s \/ (lazy2 = lazy /\ Woken(h.wait, y, s))
  PROVE  Kept([h EXCEPT !.str[s] = y], cur, lazy2)
<1> DEFINE str == [h.str EXCEPT ![s] = y]
           g == [h EXCEPT !.str[s] = y]
<1>1. h.str \in [Streams -> StreamRecs] /\ h.out \in Seq(Frames) /\ ToSet(h.wait) \subseteq Streams
  BY ConnFields
<1>2. str[s] = y /\ \A t \in Streams \ {s} : str[t] = h.str[t]
  BY <1>1
<1>3. /\ g.str = str /\ g.out = h.out /\ g.wait = h.wait /\ g.win = h.win
      /\ g.credit = h.credit /\ g.phase = h.phase
  BY DEF ConnRecs
<1> HIDE DEF str, g
<1>4. Accounted(h.out, str, h.win, h.credit)
  BY <1>2 DEF Accounted, Kept
<1>5. QueueOk(h.out, str, cur)
  <2>1. \A t \in Streams : /\ str[t].st = h.str[t].st
                           /\ h.str[t].err => str[t].err
                           /\ str[t].more => h.str[t].more
    BY <1>2
  <2> QED BY <1>1, <2>1, QueueSame DEF Kept
<1>6. WaitOk(h.wait, str, h.win, h.phase, cur)
  BY <1>1, <1>2 DEF WaitOk, Kept
<1>7. \A t \in Streams : StreamOk(str[t])
  BY <1>2 DEF Kept
<1>8. \A t \in Streams \ {lazy2} : Woken(h.wait, str[t], t)
  <2> SUFFICES ASSUME NEW t \in Streams \ {lazy2} PROVE Woken(h.wait, str[t], t)
    OBVIOUS
  <2>1. CASE t = s
    BY <2>1, <1>2
  <2>2. CASE t # s
    <3>1. NoStream \notin Streams
      BY Http2Assumption
    <3> QED BY <2>2, <3>1, <1>2 DEF Kept
  <2> QED BY <2>1, <2>2
<1> QED BY <1>3, <1>4, <1>5, <1>6, <1>7, <1>8 DEF Kept, g

LEMMA StreamChangeSound ==
  ASSUME NEW h, NEW s \in Streams, NEW y \in StreamRecs,
         NEW cur, NEW lazy \in {s, NoStream}, NEW lazy2,
         Sound(h, cur, lazy),
         ~h.error =>
           /\ y.st = h.str[s].st /\ y.queued = h.str[s].queued
           /\ h.str[s].err => y.err
           /\ y.more => h.str[s].more
           /\ StreamOk(y)
           /\ lazy2 = s \/ (lazy2 = lazy /\ Woken(h.wait, y, s))
  PROVE  Sound([h EXCEPT !.str[s] = y], cur, lazy2)
<1>1. h \in ConnRecs /\ [h EXCEPT !.str[s] = y] \in ConnRecs
  BY DEF Sound, ConnRecs
<1>2. [h EXCEPT !.str[s] = y].error = h.error
  BY <1>1 DEF ConnRecs
<1> QED BY <1>1, <1>2, StreamChange DEF Sound

(* Fields that none of the parts looks at may change, and the phase if the  *)
(* loop that wakes streams is not left early.                               *)
LEMMA SoundSame ==
  ASSUME NEW h, NEW g \in ConnRecs, NEW cur, NEW lazy, Sound(h, cur, lazy),
         g.error = h.error, g.out = h.out, g.wait = h.wait, g.str = h.str, g.win = h.win,
         g.credit = h.credit,
         g.phase # "waking" => h.phase # "waking" \/ h.wait = <<>> \/ h.win = 0
  PROVE  Sound(g, cur, lazy)
<1>1. ASSUME WaitOk(h.wait, h.str, h.win, h.phase, cur)
      PROVE  WaitOk(g.wait, g.str, g.win, g.phase, cur)
  BY <1>1 DEF WaitOk
<1> QED BY <1>1 DEF Sound, Kept

(* What a handler for stream s leaves alone.                                *)
Others(h, g, s) ==
  /\ g.phase = h.phase /\ g.todo = h.todo
  /\ \A t \in Streams \ {s} : g.str[t].st = h.str[t].st

(* ngx_http_v2_terminate_stream, before the handler of the stream runs.     *)
Erred(h, s) ==
  [ngx_http_v2_queue_blocked_frame(h, Reset(s)) EXCEPT !.str[s].rst = TRUE, !.str[s].err = TRUE]

LEMMA ErredSound ==
  ASSUME NEW h, NEW s \in Streams, Sound(h, NoStream, NoStream),
         h.str[s].st \notin {"none", "closed"}
  PROVE  /\ Sound(Erred(h, s), IF h.str[s].st = "writing" THEN s ELSE NoStream, NoStream)
         /\ Others(h, Erred(h, s), s) /\ Erred(h, s).str[s].st = h.str[s].st
<1> DEFINE y == [h.str[s] EXCEPT !.rst = TRUE, !.err = TRUE]
           m == [h EXCEPT !.str[s] = y]
           cur == IF h.str[s].st = "writing" THEN s ELSE NoStream
<1>h. h \in ConnRecs /\ h.str[s] \in StreamRecs /\ h.str \in [Streams -> StreamRecs]
  BY ConnFields DEF Sound
<1>n. NoStream \notin Streams
  BY Http2Assumption
<1>1. /\ y \in StreamRecs /\ y.st = h.str[s].st /\ y.queued = h.str[s].queued /\ y.err
      /\ y.more = h.str[s].more /\ y.posted = h.str[s].posted /\ y.exhausted = h.str[s].exhausted
      /\ y.win = h.str[s].win /\ y.outClosed = h.str[s].outClosed
  BY <1>h DEF StreamRecs
<1> HIDE DEF y
<1>2. Sound(m, NoStream, NoStream)
  <2>1. ~h.error => StreamOk(h.str[s]) /\ Woken(h.wait, h.str[s], s)
    BY <1>n DEF Sound, Kept
  <2>2. ~h.error => StreamOk(y) /\ Woken(h.wait, y, s)
    BY <2>1, <1>1 DEF StreamOk, Woken
  <2> QED BY <1>1, <2>2, StreamChangeSound
<1>3. /\ m.str[s] = y /\ m.out = h.out /\ m.phase = h.phase /\ m.todo = h.todo /\ m.error = h.error
      /\ m.str = [h.str EXCEPT ![s] = y] /\ m.win = h.win /\ m.credit = h.credit /\ m.wait = h.wait
  BY <1>h DEF ConnRecs
<1>4. Sound(m, cur, NoStream)
  <2> HIDE DEF m
  <2> QED BY <1>2, SoundWeaker
<1>5. PICK k \in 0..Len(h.out) :
        /\ ngx_http_v2_queue_blocked_frame(h, Reset(s))
             = [h EXCEPT !.out = InsertAfter(h.out, k, <<Reset(s)>>)]
        /\ \A b \in DOMAIN h.out : b > k => ~h.out[b].blocked /\ h.out[b].stream \in Streams
  <2>1. Reset(s) \in Frames
    BY ResetFrame
  <2> QED BY <1>h, <2>1, QueuesBlocked
<1> DEFINE o == InsertAfter(h.out, k, <<Reset(s)>>)
           g == [m EXCEPT !.out = o]
<1>6. Erred(h, s) = g
  <2>1. [[h EXCEPT !.out = o] EXCEPT !.str[s].rst = TRUE, !.str[s].err = TRUE] = g
    <3> HIDE DEF o
    <3> QED BY <1>h DEF y, ConnRecs
  <2> QED BY <1>5, <2>1 DEF Erred
<1>7. h.out \in Seq(Frames) /\ o \in Seq(Frames)
  BY <1>h, ResetFrame, OneChosen, ConnFields, InsertFacts DEF Inserted
<1>8. m \in ConnRecs
  BY <1>2 DEF Sound
<1>9. ASSUME Kept(m, cur, NoStream)
      PROVE  Accounted(o, m.str, m.win, m.credit) /\ QueueOk(o, m.str, cur)
  <2>1. Accounted(m.out, m.str, m.win, m.credit) /\ QueueOk(m.out, m.str, cur)
    BY <1>9 DEF Kept
  <2>2. FrameOk(m.str, Reset(s))
    <3>1. /\ ~Reset(s).begun /\ ~Reset(s).fin /\ Reset(s).stream = NoStream /\ Reset(s).resets = s
          /\ m.str[s].err
      BY <1>1, <1>3, ResetFrame
    <3> HIDE DEF m
    <3> QED BY <1>n, <3>1 DEF FrameOk
  <2>3. m.str \in [Streams -> StreamRecs] /\ m.win \in Nat
    BY <1>8, ConnFields
  <2>4. \A b \in DOMAIN m.out : b > k =>
          /\ ~m.out[b].blocked
          /\ m.out[b].stream \in Streams /\ m.out[b].stream = Reset(s).resets =>
               m.out[b].stream = cur \/ m.str[m.out[b].stream].st \in {"open", "sent"}
    <3> SUFFICES ASSUME NEW b \in DOMAIN h.out, b > k, h.out[b].stream = s
                 PROVE  cur = s \/ h.str[s].st \in {"open", "sent"}
      <4>1. Reset(s).resets = s /\ m.str[s].st = h.str[s].st /\ m.out = h.out
        BY <1>1, <1>3, ResetFrame
      <4> HIDE DEF m, cur
      <4> QED BY <4>1, <1>5
    <3>1. FrameOk(m.str, h.out[b])
      BY <2>1, <1>3 DEF QueueOk, ToSet
    <3>2. ~h.out[b].blocked
      BY <1>5
    <3>3. h.str[s].st # "closing"
      BY <3>1, <3>2, <1>1, <1>3 DEF FrameOk
    <3> QED BY <3>3, <1>h, StreamFields
  <2>5. /\ Reset(s) \in Frames /\ Reset(s).stream = NoStream
        /\ ~Reset(s).begun /\ ~Reset(s).fin /\ Reset(s).len = 0
    BY ResetFrame
  <2>6. o = InsertAfter(m.out, k, <<Reset(s)>>) /\ m.out \in Seq(Frames) /\ k \in 0..Len(m.out)
    BY <1>3, <1>7
  <2> HIDE DEF m, cur, o
  <2> QED BY <2>1, <2>2, <2>3, <2>4, <2>5, <2>6, OtherFrame
<1>10. g \in ConnRecs /\ g.error = m.error /\ g.out = o /\ g.wait = m.wait /\ g.str = m.str
       /\ g.win = m.win /\ g.credit = m.credit /\ g.phase = m.phase /\ g.todo = m.todo
  <2> HIDE DEF o, m
  <2> QED BY <1>7, <1>8 DEF ConnRecs
<1> HIDE DEF m, o, g
<1>11. Sound(g, cur, NoStream)
  BY <1>4, <1>9, <1>10 DEF Sound, Kept
<1>12. Others(h, g, s) /\ g.str[s].st = h.str[s].st
  BY <1>h, <1>1, <1>3, <1>10 DEF Others
<1> QED BY <1>6, <1>11, <1>12
-----------------------------------------------------------------------------
(* Closing.                                                                 *)
LEMMA FramesAre ==
  ASSUME NEW out \in Seq(Frames), NEW s \in Streams, NEW A, A = OfStream(s)
  PROVE  /\ Len(Chosen(out, A)) \in Nat
         /\ Len(Chosen(out, A)) = 0 => \A f \in ToSet(out) : f.stream # s
<1> DEFINE c == Chosen(out, A)
<1>1. c \in Seq(Frames) /\ ToSet(c) = ToSet(out) \cap A /\ ToSet(out) \subseteq Frames
  BY ChosenFacts, SeqSet DEF Selected
<1> HIDE DEF c
<1>2. Len(c) = 0 => ToSet(c) = {}
  <2>1. Len(c) = 0 => c = <<>>
    BY <1>1
  <2> QED BY <2>1, ToSetOfNone
<1>3. Len(c) \in Nat
  BY <1>1
<1> QED BY <1>1, <1>2, <1>3, OfStreamOnly DEF c

(* A stream that has frames and is to be closed waits for nothing else.     *)
Removable(h, s) ==
  h.str[s].queued > 0 =>
    s \notin ToSet(h.wait) /\ \A f \in ToSet(h.out) : f.stream = s => f.blocked

Closed0 == [Stream0 EXCEPT !.st = "closed"]

LEMMA ClosedStream ==
  /\ Closed0 \in StreamRecs /\ StreamOk(Closed0) /\ Closed0.st = "closed" /\ Closed0.queued = 0
  /\ ~Closed0.more
<1>1. /\ Stream0 \in StreamRecs /\ Stream0.queued = 0 /\ ~Stream0.more /\ ~Stream0.exhausted
      /\ ~Stream0.outClosed
  BY DEF Stream0, StreamRecs
<1>2. /\ Closed0 \in StreamRecs /\ Closed0.st = "closed" /\ Closed0.queued = 0 /\ ~Closed0.more
      /\ ~Closed0.exhausted /\ ~Closed0.outClosed
  BY <1>1 DEF Closed0, StreamRecs
<1> QED BY <1>2 DEF StreamOk

LEMMA WithoutOne ==
  ASSUME NEW wait \in Seq(Streams), NEW s
  PROVE  /\ Chosen(wait, Streams \ {s}) \in Seq(Streams)
         /\ ToSet(Chosen(wait, Streams \ {s})) = ToSet(wait) \ {s}
         /\ Chosen(wait, Streams \ {s}) # <<>> => wait # <<>>
<1>1. ToSet(wait) \subseteq Streams
  BY SeqSet
<1> QED BY <1>1, ChosenFacts, ChosenOfNone DEF Selected

LEMMA ClosedKept ==
  ASSUME NEW h \in ConnRecs, NEW s \in Streams, Kept(h, s, s), ~(h.str[s].queued > 0),
         NEW str, str = [h.str EXCEPT ![s] = Closed0]
  PROVE  /\ Accounted(h.out, str, h.win, h.credit)
         /\ QueueOk(h.out, str, NoStream)
         /\ \A f \in ToSet(h.out) : f.stream # s
         /\ WaitOk(Chosen(h.wait, Streams \ {s}), str, h.win, h.phase, NoStream)
         /\ \A t \in Streams : StreamOk(str[t]) /\ Woken(Chosen(h.wait, Streams \ {s}), str[t], t)
<1>1. /\ h.str \in [Streams -> StreamRecs] /\ h.out \in Seq(Frames) /\ h.wait \in Seq(Streams)
      /\ ToSet(h.out) \subseteq Frames
  BY ConnFields
<1>2. str[s] = Closed0 /\ \A t \in Streams \ {s} : str[t] = h.str[t]
  BY <1>1
<1>3. Len(Chosen(h.out, OfStream(s))) = 0 /\ \A f \in ToSet(h.out) : f.stream # s
  <2>1. Len(Chosen(h.out, OfStream(s))) = h.str[s].queued /\ h.str[s].queued \in Int
    BY <1>1, StreamFields DEF Kept, Accounted
  <2> QED BY <1>1, <2>1, FramesAre
<1>4. Accounted(h.out, str, h.win, h.credit)
  BY <1>2, <1>3, ClosedStream DEF Accounted, Kept
<1>5. QueueOk(h.out, str, NoStream)
  <2>1. ASSUME NEW f \in ToSet(h.out) PROVE FrameOk(str, f)
    <3>1. FrameOk(h.str, f) /\ f.stream # s
      BY <1>3 DEF Kept, QueueOk
    <3> QED BY <3>1, <1>2, ClosedStream DEF FrameOk
  <2>2. ASSUME NEW e \in Frames, NEW f \in Frames, PairIn(h.out, e, f)
        PROVE  Before(str, NoStream, e, f)
    <3>1. Before(h.str, s, e, f) /\ f.stream # s
      BY <1>3, <2>2, PairOfElements DEF Kept, QueueOk
    <3> QED BY <3>1, <1>2 DEF Before
  <2> QED BY <2>1, <2>2 DEF QueueOk
<1> DEFINE w == Chosen(h.wait, Streams \ {s})
<1>6. w \in Seq(Streams) /\ ToSet(w) = ToSet(h.wait) \ {s} /\ (w # <<>> => h.wait # <<>>)
      /\ ToSet(h.wait) \subseteq Streams
  BY <1>1, WithoutOne, SeqSet
<1> HIDE DEF w
<1>7. WaitOk(w, str, h.win, h.phase, NoStream)
  BY <1>2, <1>6 DEF WaitOk, Kept
<1>8. ASSUME NEW t \in Streams PROVE StreamOk(str[t]) /\ Woken(w, str[t], t)
  <2>1. CASE t = s
    BY <2>1, <1>2, ClosedStream DEF Woken
  <2>2. CASE t # s
    <3>1. StreamOk(h.str[t]) /\ Woken(h.wait, h.str[t], t)
      BY <2>2 DEF Kept
    <3>2. t \in ToSet(h.wait) => t \in ToSet(w)
      BY <2>2, <1>6
    <3> QED BY <2>2, <3>1, <3>2, <1>2 DEF Woken
  <2> QED BY <2>1, <2>2
<1> QED BY <1>3, <1>4, <1>5, <1>7, <1>8 DEF w

LEMMA CloseSound ==
  ASSUME NEW h, NEW s \in Streams, Sound(h, s, s), ~h.error => Removable(h, s)
  PROVE  /\ Sound(ngx_http_v2_close_stream(h, s), NoStream, NoStream)
         /\ Others(h, ngx_http_v2_close_stream(h, s), s)
         /\ ngx_http_v2_close_stream(h, s).error = h.error
<1> DEFINE x == h.str[s]
<1>h. h \in ConnRecs /\ x \in StreamRecs /\ h.str \in [Streams -> StreamRecs]
  BY ConnFields DEF Sound
<1>n. NoStream \notin Streams
  BY Http2Assumption
<1>1. CASE x.queued > 0
  <2> DEFINE y == [x EXCEPT !.st = "closing"]
             str == [h.str EXCEPT ![s] = y]
             g == [h EXCEPT !.str[s].st = "closing"]
  <2>1. ngx_http_v2_close_stream(h, s) = g
    BY <1>1 DEF ngx_http_v2_close_stream
  <2>2. /\ y \in StreamRecs /\ y.st = "closing" /\ y.queued = x.queued /\ y.more = x.more
        /\ y.exhausted = x.exhausted /\ y.err = x.err /\ y.win = x.win
        /\ y.outClosed = x.outClosed
    BY <1>h DEF StreamRecs
  <2>3. /\ g \in ConnRecs /\ g.error = h.error /\ g.out = h.out /\ g.wait = h.wait
        /\ g.str = str /\ g.win = h.win /\ g.credit = h.credit /\ g.phase = h.phase
        /\ g.todo = h.todo
    BY <1>h, <2>2 DEF ConnRecs
  <2>4. str[s] = y /\ \A t \in Streams \ {s} : str[t] = h.str[t]
    BY <1>h
  <2> HIDE DEF y, str, g
  <2>5. ASSUME ~h.error PROVE Kept(g, NoStream, NoStream)
    <3>1. Kept(h, s, s) /\ s \notin ToSet(h.wait) /\ \A f \in ToSet(h.out) : f.stream = s => f.blocked
      BY <2>5, <1>1 DEF Sound, Removable
    <3>2. StreamOk(x) /\ x.st \notin {"none", "open", "closed"}
      <4>1. StreamOk(x)
        BY <3>1 DEF Kept
      <4> QED BY <4>1, <1>1 DEF StreamOk
    <3>3. Accounted(h.out, str, h.win, h.credit)
      BY <3>1, <2>2, <2>4 DEF Kept, Accounted
    <3>4. QueueOk(h.out, str, NoStream)
      <4>1. ASSUME NEW f \in ToSet(h.out) PROVE FrameOk(str, f)
        <5>1. FrameOk(h.str, f)
          BY <3>1 DEF Kept, QueueOk
        <5> QED BY <5>1, <3>1, <3>2, <2>2, <2>4 DEF FrameOk
      <4>2. ASSUME NEW e \in Frames, NEW f \in Frames, PairIn(h.out, e, f)
            PROVE  Before(str, NoStream, e, f)
        <5>1. Before(h.str, s, e, f) /\ (f.stream = s => f.blocked)
          BY <3>1, <4>2, PairOfElements DEF Kept, QueueOk
        <5> QED BY <5>1, <2>4, <1>n DEF Before
      <4> QED BY <4>1, <4>2 DEF QueueOk
    <3>5. WaitOk(h.wait, str, h.win, h.phase, NoStream)
      <4>1. ToSet(h.wait) \subseteq Streams
        BY <1>h, ConnFields
      <4> QED BY <4>1, <3>1, <2>4 DEF Kept, WaitOk
    <3>6. \A t \in Streams : StreamOk(str[t])
      <4>1. StreamOk(y)
        BY <3>2, <2>2 DEF StreamOk
      <4> QED BY <4>1, <3>1, <2>4 DEF Kept
    <3>7. \A t \in Streams : Woken(h.wait, str[t], t)
      <4>1. Woken(h.wait, y, s)
        BY <1>1, <2>2 DEF Woken
      <4> QED BY <4>1, <3>1, <2>4 DEF Kept
    <3> QED BY <2>3, <3>3, <3>4, <3>5, <3>6, <3>7 DEF Kept
  <2> QED BY <2>1, <2>3, <2>4, <2>5 DEF Sound, Others
<1>2. CASE ~(x.queued > 0)
  <2> DEFINE str == [h.str EXCEPT ![s] = Closed0]
             w == Chosen(h.wait, Streams \ {s})
             first == IF x.outClosed THEN Control ELSE Reset(s)
             quiet == x.rst \/ h.error \/ (x.outClosed /\ x.inClosed)
             told == IF quiet THEN h ELSE ngx_http_v2_queue_blocked_frame(h, first)
             g == [told EXCEPT !.str[s] = Closed0, !.wait = w]
             end == [g EXCEPT !.rev = @ \/ (Processing(g) = {} /\ h.phase = "")]
  <2>f. /\ first \in Frames /\ first.stream = NoStream /\ first.resets \in {s, NoStream}
        /\ ~first.begun /\ ~first.fin /\ first.len = 0
    BY ControlFrame, ResetFrame
  <2> HIDE DEF first
  <2>1. PICK k \in 0..Len(h.out) :
          ngx_http_v2_queue_blocked_frame(h, first)
            = [h EXCEPT !.out = InsertAfter(h.out, k, <<first>>)]
          /\ \A b \in DOMAIN h.out : b > k => ~h.out[b].blocked /\ h.out[b].stream \in Streams
    BY <1>h, <2>f, QueuesBlocked
  <2> DEFINE o == IF quiet THEN h.out ELSE InsertAfter(h.out, k, <<first>>)
  <2>2. h.out \in Seq(Frames) /\ o \in Seq(Frames)
    <3>1. h.out \in Seq(Frames) /\ <<first>> \in Seq(Frames)
      BY <1>h, <2>f, OneChosen, ConnFields
    <3>2. InsertAfter(h.out, k, <<first>>) \in Seq(Frames)
      BY <3>1, InsertFacts DEF Inserted
    <3> QED BY <3>1, <3>2
  <2>3. told = [h EXCEPT !.out = o]
    <3>1. h = [h EXCEPT !.out = h.out]
      BY <1>h DEF ConnRecs
    <3> QED BY <2>1, <3>1
  <2>4. w \in Seq(Streams)
    BY <1>h, ConnFields, WithoutOne
  <2>5. ngx_http_v2_close_stream(h, s) = end
    <3>1. told.wait = h.wait
      <4> HIDE DEF o
      <4> QED BY <1>h, <2>3 DEF ConnRecs
    <3>2. [told EXCEPT !.str[s] = [Stream0 EXCEPT !.st = "closed"],
                       !.wait = Chosen(@, Streams \ {s})] = g
      <4> HIDE DEF told
      <4> QED BY <3>1 DEF Closed0
    <3> QED BY <1>2, <3>2 DEF ngx_http_v2_close_stream, first
  <2> HIDE DEF o, w, told
  <2>6. /\ end \in ConnRecs /\ end.error = h.error /\ end.out = o /\ end.wait = w /\ end.str = str
        /\ end.win = h.win /\ end.credit = h.credit /\ end.phase = h.phase /\ end.todo = h.todo
    <3>1. /\ g \in ConnRecs /\ g.error = h.error /\ g.out = o /\ g.wait = w /\ g.str = str
          /\ g.win = h.win /\ g.credit = h.credit /\ g.phase = h.phase /\ g.todo = h.todo
      <4>1. str \in [Streams -> StreamRecs]
        BY <1>h, ClosedStream
      <4> HIDE DEF str
      <4>2. /\ told \in ConnRecs /\ told.error = h.error /\ told.out = o /\ told.str = h.str
            /\ told.win = h.win /\ told.credit = h.credit /\ told.phase = h.phase
            /\ told.todo = h.todo
        BY <1>h, <2>2, <2>3 DEF ConnRecs
      <4>3. g = [told EXCEPT !.str = str, !.wait = w]
        BY <4>2 DEF str, ConnRecs
      <4> HIDE DEF g
      <4> QED BY <4>1, <4>2, <4>3, <2>4 DEF ConnRecs
    <3> HIDE DEF g, str
    <3> QED BY <3>1 DEF ConnRecs
  <2> HIDE DEF end, g
  <2>7. ASSUME ~h.error PROVE Kept(end, NoStream, NoStream)
    <3>1. Kept(h, s, s)
      BY <2>7 DEF Sound
    <3>2. /\ Accounted(h.out, str, h.win, h.credit)
          /\ QueueOk(h.out, str, NoStream)
          /\ \A f \in ToSet(h.out) : f.stream # s
          /\ WaitOk(w, str, h.win, h.phase, NoStream)
          /\ \A t \in Streams : StreamOk(str[t]) /\ Woken(w, str[t], t)
      BY <1>h, <1>2, <3>1, ClosedKept DEF w
    <3>3. Accounted(o, str, h.win, h.credit) /\ QueueOk(o, str, NoStream)
      <4>1. CASE quiet
        BY <3>2, <4>1 DEF o
      <4>2. CASE ~quiet
        <5>1. str \in [Streams -> StreamRecs] /\ h.win \in Nat /\ str[s] = Closed0
          BY <1>h, ClosedStream, ConnFields
        <5>2. FrameOk(str, first)
          BY <2>f, <5>1, <1>n, ClosedStream DEF FrameOk
        <5>3. \A b \in DOMAIN h.out : b > k =>
                /\ ~h.out[b].blocked
                /\ h.out[b].stream \in Streams /\ h.out[b].stream = first.resets =>
                     h.out[b].stream = NoStream \/ str[h.out[b].stream].st \in {"open", "sent"}
          <6>1. \A b \in DOMAIN h.out : h.out[b].stream # s
            BY <3>2 DEF ToSet
          <6> QED BY <6>1, <2>1, <2>f
        <5> HIDE DEF str, quiet
        <5>4. Accounted(InsertAfter(h.out, k, <<first>>), str, h.win, h.credit)
              /\ QueueOk(InsertAfter(h.out, k, <<first>>), str, NoStream)
          BY <2>f, <2>2, <3>2, <5>1, <5>2, <5>3, OtherFrame
        <5> QED BY <5>4, <4>2 DEF o
      <4> QED BY <4>1, <4>2
    <3> HIDE DEF str
    <3> QED BY <2>6, <3>2, <3>3 DEF Kept
  <2>8. Others(h, end, s)
    BY <1>h, <2>6 DEF Others
  <2> QED BY <2>5, <2>6, <2>7, <2>8 DEF Sound
<1> QED BY <1>1, <1>2

LEMMA ChosenPairs ==
  ASSUME NEW S, NEW A, NEW q \in Seq(S), NEW e, NEW f, PairIn(Chosen(q, A), e, f)
  PROVE  PairIn(q, e, f)
  BY ChosenFacts DEF Selected, PairIn

(* A part of the queue is in order when the whole is.                       *)
LEMMA QueuePart ==
  ASSUME NEW out \in Seq(Frames), NEW part, NEW str, NEW cur, QueueOk(out, str, cur),
         ToSet(part) \subseteq ToSet(out),
         \A e, f : PairIn(part, e, f) => PairIn(out, e, f)
  PROVE  QueueOk(part, str, cur)
  BY DEF QueueOk

(* What is dropped gives its window back, and what is left of the stream    *)
(* cannot be dropped.                                                       *)
LEMMA DroppedParts ==
  ASSUME NEW out \in Seq(Frames), NEW s \in Streams,
         NEW dropped, dropped = Chosen(out, Droppable(s)),
         NEW rest, rest = Chosen(out, Frames \ Droppable(s))
  PROVE  /\ dropped \in Seq(Frames) /\ rest \in Seq(Frames)
         /\ Lens(dropped) \in Nat /\ Lens(out) = Lens(dropped) + Lens(rest)
         /\ Len(Chosen(out, OfStream(s))) = Len(dropped) + Len(Chosen(rest, OfStream(s)))
         /\ \A t \in Streams \ {s} : Chosen(rest, OfStream(t)) = Chosen(out, OfStream(t))
         /\ ToSet(rest) \subseteq ToSet(out)
         /\ \A f \in ToSet(rest) : f.stream = s => f.blocked
         /\ \A e, f : PairIn(rest, e, f) => PairIn(out, e, f)
<1>1. /\ dropped \in Seq(Frames) /\ rest \in Seq(Frames)
      /\ ToSet(rest) = ToSet(out) \cap (Frames \ Droppable(s))
  BY ChosenFacts DEF Selected
<1>2. Lens(dropped) \in Nat /\ Lens(rest) \in Nat
  BY <1>1, LensNat
<1>3. Lens(out) = Lens(dropped) + Lens(rest)
  BY LensOfParts
<1>4. Len(Chosen(out, OfStream(s))) = Len(dropped) + Len(Chosen(rest, OfStream(s)))
  <2>1. Chosen(rest, OfStream(s)) = Chosen(out, OfStream(s) \cap (Frames \ Droppable(s)))
    BY ChosenTwice
  <2>2. Len(Chosen(out, OfStream(s)))
          = Len(Chosen(out, OfStream(s) \cap Droppable(s)))
            + Len(Chosen(out, OfStream(s) \ Droppable(s)))
    <3>1. \A A, B : \A q \in Seq(Frames) :
            Len(Chosen(q, A)) = Len(Chosen(q, A \cap B)) + Len(Chosen(q, A \ B))
      BY ChosenParts, Zenon
    <3> QED BY <3>1, Zenon
  <2>3. /\ OfStream(s) \cap Droppable(s) = Droppable(s)
        /\ OfStream(s) \cap (Frames \ Droppable(s)) = OfStream(s) \ Droppable(s)
    BY DEF Droppable, OfStream
  <2> QED BY <2>1, <2>2, <2>3
<1>5. ASSUME NEW t \in Streams \ {s} PROVE Chosen(rest, OfStream(t)) = Chosen(out, OfStream(t))
  <2>1. Chosen(rest, OfStream(t)) = Chosen(out, OfStream(t) \cap (Frames \ Droppable(s)))
    BY ChosenTwice
  <2>2. OfStream(t) \cap (Frames \ Droppable(s)) = OfStream(t)
    BY DEF Droppable, OfStream
  <2> QED BY <2>1, <2>2
<1>6. ASSUME NEW f \in ToSet(rest), f.stream = s PROVE f.blocked
  BY <1>1, <1>6 DEF Droppable, OfStream
<1> QED BY <1>1, <1>2, <1>3, <1>4, <1>5, <1>6, ChosenPairs

LEMMA CleanupSound ==
  ASSUME NEW h, NEW s \in Streams, Sound(h, s, s)
  PROVE  /\ Sound(ngx_http_v2_filter_cleanup(h, s), s, s)
         /\ ~h.error => Removable(ngx_http_v2_filter_cleanup(h, s), s)
         /\ Others(h, ngx_http_v2_filter_cleanup(h, s), s)
         /\ ngx_http_v2_filter_cleanup(h, s).error = h.error
<1> DEFINE dropped == Chosen(h.out, Droppable(s))
           rest == Chosen(h.out, Frames \ Droppable(s))
           waiting == Chosen(h.wait, Streams \ {s})
           wake == h.win = 0 /\ Lens(dropped) > 0
           wait == IF wake THEN <<>> ELSE waiting
           win == h.win + Lens(dropped)
           queued(t) == IF t = s THEN h.str[t].queued - Len(dropped) ELSE h.str[t].queued
           posted(t) == h.str[t].posted \/ (wake /\ t \in ToSet(waiting))
           str == [t \in Streams |-> [h.str[t] EXCEPT !.queued = queued(t), !.posted = posted(t)]]
           g == [h EXCEPT !.out = rest, !.win = win, !.wait = wait, !.str = str]
<1>h. /\ h \in ConnRecs /\ h.str \in [Streams -> StreamRecs] /\ h.out \in Seq(Frames)
      /\ h.wait \in Seq(Streams) /\ h.win \in Nat /\ ToSet(h.wait) \subseteq Streams
  BY ConnFields DEF Sound
<1>1. ngx_http_v2_filter_cleanup(h, s) = g
  BY DEF ngx_http_v2_filter_cleanup
<1>2. /\ dropped \in Seq(Frames) /\ rest \in Seq(Frames)
      /\ Lens(dropped) \in Nat /\ Lens(h.out) = Lens(dropped) + Lens(rest)
      /\ Len(Chosen(h.out, OfStream(s))) = Len(dropped) + Len(Chosen(rest, OfStream(s)))
      /\ \A t \in Streams \ {s} : Chosen(rest, OfStream(t)) = Chosen(h.out, OfStream(t))
      /\ ToSet(rest) \subseteq ToSet(h.out)
      /\ \A f \in ToSet(rest) : f.stream = s => f.blocked
      /\ \A e, f : PairIn(rest, e, f) => PairIn(h.out, e, f)
  <2>1. h.out \in Seq(Frames)
    BY <1>h
  <2> HIDE DEF dropped, rest
  <2> QED BY <2>1, DroppedParts DEF dropped, rest
<1>3. /\ waiting \in Seq(Streams) /\ ToSet(waiting) = ToSet(h.wait) \ {s}
      /\ waiting # <<>> => h.wait # <<>>
  BY <1>h, WithoutOne
<1> HIDE DEF dropped, rest, waiting
<1>4. win \in Nat /\ wait \in Seq(Streams) /\ ToSet(wait) \subseteq ToSet(h.wait) \ {s}
  BY <1>h, <1>2, <1>3, ToSetOfNone
<1>5. ASSUME NEW t \in Streams
      PROVE  /\ str[t] \in StreamRecs /\ str[t].queued = queued(t) /\ str[t].posted = posted(t)
             /\ str[t].st = h.str[t].st /\ str[t].more = h.str[t].more
             /\ str[t].exhausted = h.str[t].exhausted /\ str[t].err = h.str[t].err
             /\ str[t].outClosed = h.str[t].outClosed /\ str[t].win = h.str[t].win
  <2>1. h.str[t] \in StreamRecs
    BY <1>h
  <2>2. queued(t) \in Int /\ posted(t) \in BOOLEAN
    <3>1. h.str[t].queued \in Int /\ h.str[t].posted \in BOOLEAN
      BY <2>1, StreamFields
    <3>2. Len(dropped) \in Int
      BY <1>2
    <3> QED BY <3>1, <3>2
  <2>3. str[t] = [h.str[t] EXCEPT !.queued = queued(t), !.posted = posted(t)]
    OBVIOUS
  <2> HIDE DEF queued, posted, str
  <2> QED BY <2>1, <2>2, <2>3 DEF StreamRecs
<1>6. str \in [Streams -> StreamRecs]
  <2>1. str = [t \in Streams |-> str[t]]
    OBVIOUS
  <2> HIDE DEF str
  <2> QED BY <2>1, <1>5
<1> HIDE DEF str, wait, win
<1>7. /\ g \in ConnRecs /\ g.error = h.error /\ g.out = rest /\ g.wait = wait /\ g.str = str
      /\ g.win = win /\ g.credit = h.credit /\ g.phase = h.phase /\ g.todo = h.todo
  BY <1>h, <1>2, <1>4, <1>6 DEF ConnRecs
<1> HIDE DEF g
<1>8. Removable(g, s)
  BY <1>2, <1>4, <1>7 DEF Removable
<1>9. Others(h, g, s)
  BY <1>5, <1>7 DEF Others
<1>10. ASSUME ~h.error PROVE Kept(g, s, s)
  <2>k. Kept(h, s, s)
    BY <1>10 DEF Sound
  <2>1. Accounted(rest, str, win, h.credit)
    <3>1. win + Lens(rest) = h.credit
      <4>1. h.win + Lens(h.out) = h.credit /\ Lens(rest) \in Nat
        BY <2>k, <1>2, LensNat DEF Kept, Accounted
      <4> QED BY <4>1, <1>h, <1>2 DEF win
    <3>2. ASSUME NEW t \in Streams PROVE Len(Chosen(rest, OfStream(t))) = str[t].queued
      <4>1. Len(Chosen(h.out, OfStream(t))) = h.str[t].queued
        BY <2>k DEF Kept, Accounted
      <4>2. Chosen(rest, OfStream(t)) \in Seq(Frames)
        BY <1>2, ChosenFacts DEF Selected
      <4>3. Len(Chosen(rest, OfStream(t))) \in Nat /\ Len(dropped) \in Nat
        BY <4>2, <1>2
      <4> QED BY <4>1, <4>3, <1>2, <1>5
    <3> QED BY <3>1, <3>2 DEF Accounted
  <2>2. QueueOk(rest, str, s)
    <3>1. QueueOk(rest, h.str, s)
      BY <2>k, <1>h, <1>2, QueuePart DEF Kept
    <3> QED BY <3>1, <1>2, <1>5, QueueSame
  <2>3. WaitOk(wait, str, win, h.phase, s)
    <3>1. ASSUME wait # <<>>, h.phase # "waking" PROVE win = 0
      BY <3>1, <2>k, <1>2, <1>3, <1>h DEF wait, win, Kept, WaitOk
    <3>2. ASSUME NEW t \in ToSet(wait) PROVE t = s \/ str[t].st = "writing"
      <4>1. t \in Streams /\ h.str[t].st = "writing"
        BY <1>4, <1>h, <2>k DEF Kept, WaitOk
      <4> QED BY <4>1, <1>5
    <3> QED BY <3>1, <3>2 DEF WaitOk
  <2>4. ASSUME NEW t \in Streams PROVE StreamOk(str[t])
    <3>1. StreamOk(h.str[t])
      BY <2>k DEF Kept
    <3>2. h.str[t].queued = 0 => str[t].queued = 0
      <4>1. CASE t = s
        <5>1. str[s].queued = Len(Chosen(rest, OfStream(s)))
          BY <2>1 DEF Accounted
        <5>2. h.str[s].queued = Len(Chosen(h.out, OfStream(s)))
          BY <2>k DEF Kept, Accounted
        <5>3. Chosen(rest, OfStream(s)) \in Seq(Frames)
          BY <1>2, ChosenFacts DEF Selected
        <5>4. Len(Chosen(rest, OfStream(s))) \in Nat /\ Len(dropped) \in Nat
          BY <5>3, <1>2
        <5> QED BY <4>1, <5>1, <5>2, <5>4, <1>2
      <4>2. CASE t # s
        BY <4>2, <1>5
      <4> QED BY <4>1, <4>2
    <3> QED BY <3>1, <3>2, <1>5 DEF StreamOk
  <2>5. ASSUME NEW t \in Streams \ {s} PROVE Woken(wait, str[t], t)
    <3>1. Woken(h.wait, h.str[t], t)
      BY <2>k DEF Kept
    <3>2. t \in ToSet(h.wait) => str[t].posted \/ t \in ToSet(wait)
      BY <1>3, <1>5 DEF wait
    <3>3. /\ str[t].queued = h.str[t].queued /\ str[t].st = h.str[t].st
          /\ str[t].exhausted = h.str[t].exhausted /\ (h.str[t].posted => str[t].posted)
      BY <1>5
    <3> QED BY <3>1, <3>2, <3>3 DEF Woken
  <2> QED BY <2>1, <2>2, <2>3, <2>4, <2>5, <1>7 DEF Kept
<1> QED BY <1>1, <1>7, <1>8, <1>9, <1>10 DEF Sound

LEMMA TerminateSound ==
  ASSUME NEW h, NEW s \in Streams, Sound(h, s, s)
  PROVE  /\ Sound(Terminate(h, s), NoStream, NoStream) /\ Others(h, Terminate(h, s), s)
         /\ Terminate(h, s).error = h.error
<1> DEFINE g == ngx_http_v2_filter_cleanup(h, s)
<1>1. Sound(g, s, s) /\ (~h.error => Removable(g, s)) /\ Others(h, g, s) /\ g.error = h.error
  BY CleanupSound
<1>2. Terminate(h, s) = ngx_http_v2_close_stream(g, s)
  BY DEF Terminate
<1> HIDE DEF g
<1>3. /\ Sound(ngx_http_v2_close_stream(g, s), NoStream, NoStream)
      /\ Others(g, ngx_http_v2_close_stream(g, s), s)
      /\ ngx_http_v2_close_stream(g, s).error = g.error
  BY <1>1, CloseSound
<1> QED BY <1>1, <1>2, <1>3 DEF Others

(* The read handler of a stream with an error, and what resets a stream.    *)
LEMMA NoticedSound ==
  ASSUME NEW h, NEW s \in Streams, Sound(h, s, s),
         h.str[s].st # "writing" => Sound(h, NoStream, NoStream),
         h.str[s].st \notin {"none", "closed"},
         NEW g \in Noticed(h, s)
  PROVE  Sound(g, NoStream, NoStream) /\ Others(h, g, s) /\ g.error = h.error
<1>1. h.str[s].st \in {"open", "sent", "writing", "closing"}
  BY ConnFields, StreamFields DEF Sound
<1>2. g = Terminate(h, s) \/ (g = h /\ h.str[s].st # "writing")
  BY <1>1 DEF Noticed
<1> QED BY <1>2, TerminateSound DEF Others

LEMMA TerminateStreamSound ==
  ASSUME NEW h, NEW s \in Streams, Sound(h, NoStream, NoStream),
         h.str[s].st \notin {"none", "closed"},
         NEW g \in ngx_http_v2_terminate_stream(h, s)
  PROVE  Sound(g, NoStream, NoStream) /\ Others(h, g, s)
<1>1. CASE h.str[s].rst
  BY <1>1 DEF ngx_http_v2_terminate_stream, Others
<1>2. CASE ~h.str[s].rst
  <2> DEFINE e == Erred(h, s)
  <2>1. g \in Noticed(e, s)
    BY <1>2 DEF ngx_http_v2_terminate_stream, Erred
  <2>2. /\ Sound(e, IF h.str[s].st = "writing" THEN s ELSE NoStream, NoStream)
        /\ Others(h, e, s) /\ e.str[s].st = h.str[s].st
    BY ErredSound
  <2> HIDE DEF e
  <2>3. Sound(e, s, s)
    BY <2>2, SoundWeaker
  <2>4. Sound(g, NoStream, NoStream) /\ Others(e, g, s)
    BY <2>1, <2>2, <2>3, NoticedSound
  <2> QED BY <2>2, <2>4 DEF Others
<1> QED BY <1>1, <1>2
-----------------------------------------------------------------------------
(* Sending.                                                                 *)
LEMMA PairsOfMore ==
  ASSUME NEW S, NEW p \in Seq(S), NEW q \in Seq(S), NEW e, NEW f,
         \/ PairIn(q, e, f)
         \/ (e \in ToSet(p) /\ f \in ToSet(q))
  PROVE  PairIn(p \o q, e, f)
<1> DEFINE r == p \o q
<1>1. /\ r \in Seq(S) /\ Len(r) = Len(p) + Len(q)
      /\ \A i \in 1..Len(p) + Len(q) : r[i] = IF i <= Len(p) THEN p[i] ELSE q[i - Len(p)]
  BY ConcatProperties
<1>2. Len(p) \in Nat /\ Len(q) \in Nat /\ DOMAIN p = 1..Len(p) /\ DOMAIN q = 1..Len(q)
      /\ DOMAIN r = 1..Len(p) + Len(q)
  BY <1>1
<1> HIDE DEF r
<1>3. ASSUME NEW i \in DOMAIN p PROVE i \in DOMAIN r /\ r[i] = p[i]
  BY <1>1, <1>2
<1>4. ASSUME NEW i \in DOMAIN q PROVE i + Len(p) \in DOMAIN r /\ r[i + Len(p)] = q[i]
  BY <1>1, <1>2
<1>5. CASE PairIn(q, e, f)
  <2>1. PICK a \in DOMAIN q, b \in DOMAIN q : a < b /\ e = q[a] /\ f = q[b]
    BY <1>5 DEF PairIn
  <2>2. a + Len(p) < b + Len(p)
    BY <2>1, <1>2
  <2> QED BY <2>1, <2>2, <1>4 DEF PairIn, r
<1>6. CASE e \in ToSet(p) /\ f \in ToSet(q)
  <2>1. PICK a \in DOMAIN p, b \in DOMAIN q : e = p[a] /\ f = q[b]
    BY <1>6 DEF ToSet
  <2>2. a < b + Len(p)
    BY <1>2
  <2> QED BY <2>1, <2>2, <1>3, <1>4 DEF PairIn, r
<1> QED BY <1>5, <1>6

(* The first frame of what is left is another, of the same stream and       *)
(* length.                                                                  *)
OtherHead(rest, x, r) ==
  /\ r \in Seq(Frames) /\ Lens(r) = Lens(rest) /\ Head(rest) \in ToSet(rest)
  /\ \A s : Len(Chosen(r, OfStream(s))) = Len(Chosen(rest, OfStream(s)))
  /\ \A f \in ToSet(r) : f = x \/ f \in ToSet(rest)
  /\ \A e, f : PairIn(r, e, f) =>
       PairIn(rest, e, f) \/ (e = x /\ PairIn(rest, Head(rest), f))

LEMMA HeadChanged ==
  ASSUME NEW rest \in Seq(Frames), rest # <<>>, NEW x \in Frames,
         x.stream = Head(rest).stream, x.len = Head(rest).len,
         NEW r, r = <<x>> \o Tail(rest)
  PROVE  OtherHead(rest, x, r)
<1> DEFINE h == Head(rest)
           t == Tail(rest)
           u == <<x>>
           v == <<h>>
<1>1. h \in Frames /\ t \in Seq(Frames) /\ rest = v \o t
  OBVIOUS
<1> HIDE DEF h, t, u, v
<1>2. /\ u \in Seq(Frames) /\ v \in Seq(Frames)
      /\ ToSet(u) = {x} /\ ToSet(v) = {h}
      /\ \A a, b : ~PairIn(u, a, b)
  BY <1>1, OneChosen, OneFrame DEF u, v
<1>3. r = u \o t /\ x.stream = h.stream /\ x.len = h.len
  BY DEF h, t, u
<1>4. r \in Seq(Frames) /\ ToSet(r) = {x} \cup ToSet(t) /\ ToSet(rest) = {h} \cup ToSet(t)
  <2>1. u \o t \in Seq(Frames) /\ ToSet(u \o t) = ToSet(u) \cup ToSet(t)
    BY <1>1, <1>2, ToSetOfBoth, ConcatProperties
  <2>2. ToSet(v \o t) = ToSet(v) \cup ToSet(t)
    BY <1>1, <1>2, ToSetOfBoth
  <2> QED BY <2>1, <2>2, <1>1, <1>2, <1>3
<1>5. Lens(r) = Lens(rest)
  <2>1. Lens(r) = Lens(u) + Lens(t) /\ Lens(rest) = Lens(v) + Lens(t)
    BY <1>1, <1>2, <1>3, LensOfBoth
  <2>2. Lens(u) = x.len /\ Lens(v) = h.len
    BY <1>1, LensOfOne DEF u, v
  <2> QED BY <2>1, <2>2, <1>3
<1>6. ASSUME NEW s PROVE Len(Chosen(r, OfStream(s))) = Len(Chosen(rest, OfStream(s)))
  <2>1. /\ Chosen(r, OfStream(s)) = Chosen(u, OfStream(s)) \o Chosen(t, OfStream(s))
        /\ Chosen(rest, OfStream(s)) = Chosen(v, OfStream(s)) \o Chosen(t, OfStream(s))
    BY <1>1, <1>2, <1>3, ChosenOfBoth
  <2>2. /\ Chosen(u, OfStream(s)) \in Seq(Frames) /\ Chosen(v, OfStream(s)) \in Seq(Frames)
        /\ Chosen(t, OfStream(s)) \in Seq(Frames)
    BY <1>1, <1>2, ChosenFacts DEF Selected
  <2>3. Len(Chosen(u, OfStream(s))) = Len(Chosen(v, OfStream(s)))
    <3>1. x \in OfStream(s) <=> h \in OfStream(s)
      BY <1>1, <1>3, OfStreamOnly
    <3>2. /\ Chosen(u, OfStream(s)) = IF x \in OfStream(s) THEN <<x>> ELSE <<>>
          /\ Chosen(v, OfStream(s)) = IF h \in OfStream(s) THEN <<h>> ELSE <<>>
      BY <1>1, OneChosen DEF u, v
    <3> QED BY <3>1, <3>2
  <2> QED BY <2>1, <2>2, <2>3, ConcatProperties
<1>7. ASSUME NEW e, NEW f, PairIn(r, e, f)
      PROVE  PairIn(rest, e, f) \/ (e = x /\ PairIn(rest, h, f))
  <2>1. PairIn(t, e, f) \/ (e = x /\ f \in ToSet(t))
    <3>1. PairIn(u \o t, e, f)
      BY <1>3, <1>7
    <3>2. PairIn(u, e, f) \/ PairIn(t, e, f) \/ (e \in ToSet(u) /\ f \in ToSet(t))
      BY <1>1, <1>2, <3>1, PairsOfBothAre
    <3> QED BY <3>2, <1>2
  <2> QED BY <2>1, <1>1, <1>2, PairsOfMore
<1>8. h \in ToSet(rest)
  BY <1>4
<1> QED BY <1>4, <1>5, <1>6, <1>7, <1>8 DEF h, OtherHead

(* What sending does: frames go from the front, those left are what they    *)
(* were but for the first, which nothing may pass any more, and the streams *)
(* that lose frames are woken unless they are the sender's or wait.         *)
Alike(e, f) ==
  e.stream = f.stream /\ e.resets = f.resets /\ e.kind = f.kind /\ e.fin = f.fin

SameStage(x, y) ==
  /\ y.st = x.st /\ y.left = x.left /\ y.more = x.more /\ y.win = x.win
  /\ y.exhausted = x.exhausted /\ y.err = x.err
  /\ x.posted => y.posted

StreamWent(h, r, cur, t) ==
  /\ SameStage(h.str[t], r.str[t])
  /\ 0 <= r.str[t].queued /\ r.str[t].queued <= h.str[t].queued
  /\ r.str[t].queued # h.str[t].queued =>
       t = cur \/ r.str[t].posted \/ t \in ToSet(h.wait) \/ h.str[t].exhausted
  /\ r.str[t].outClosed =>
       h.str[t].outClosed \/ \E f \in ToSet(h.out) : f.stream = t /\ f.fin

Went(h, r, cur) ==
  /\ Accounted(r.out, r.str, r.win, r.credit)
  /\ r.win = h.win /\ r.wait = h.wait
  /\ \A t \in Streams : StreamWent(h, r, cur, t)
  /\ \A f \in ToSet(r.out) : \E g \in ToSet(h.out) : Alike(f, g) /\ (f = g \/ f.blocked)
  /\ \A e, f : PairIn(r.out, e, f) => \E d \in Frames : PairIn(h.out, d, f) /\ Alike(e, d)

LEMMA TakenSound ==
  ASSUME NEW h \in ConnRecs, Accounted(h.out, h.str, h.win, h.credit), NEW cur,
         NEW k \in 0..Len(h.out), NEW begun \in BOOLEAN,
         NEW r, r = FramesTaken(h, cur, k, begun)
  PROVE  /\ r \in ConnRecs /\ r.phase = h.phase /\ r.todo = h.todo /\ r.error = h.error
         /\ Went(h, r, cur)
<1> DEFINE gone == SubSeq(h.out, 1, k)
           rest == SubSeq(h.out, k + 1, Len(h.out))
           x == [Head(rest) EXCEPT !.blocked = TRUE, !.begun = @ \/ begun]
           out == IF rest = <<>> THEN <<>> ELSE <<x>> \o Tail(rest)
           Gone(t) == Chosen(gone, OfStream(t))
           touched(t) == Gone(t) # <<>> \/ (begun /\ h.out[k + 1].stream = t)
           queued(t) == h.str[t].queued - Len(Gone(t))
           outClosed(t) == h.str[t].outClosed \/ \E f \in ToSet(Gone(t)) : f.fin
           posted(t) == h.str[t].posted \/ (touched(t) /\ ~Unwoken(h, cur, t))
           after(t) == [h.str[t] EXCEPT !.queued = queued(t), !.outClosed = outClosed(t),
                                        !.posted = posted(t)]
           str == [t \in Streams |-> after(t)]
           credit == h.credit - Lens(gone)
<1>h. /\ h.str \in [Streams -> StreamRecs] /\ h.out \in Seq(Frames)
      /\ h.win \in Nat /\ h.credit \in Nat /\ ToSet(h.out) \subseteq Frames
  BY ConnFields
<1>1. r = [h EXCEPT !.out = out, !.ready = (rest = <<>>), !.credit = credit, !.str = str]
  BY DEF FramesTaken
<1>2. gone \in Seq(Frames) /\ rest \in Seq(Frames) /\ h.out = gone \o rest
  BY <1>h, CutFacts
<1>3. Lens(gone) \in Nat /\ Lens(rest) \in Nat /\ Lens(h.out) = Lens(gone) + Lens(rest)
  BY <1>2, LensNat, LensOfBoth
<1> HIDE DEF gone, rest
<1>4. ASSUME NEW t
      PROVE  /\ Gone(t) \in Seq(Frames) /\ Len(Gone(t)) \in Nat
             /\ Len(Chosen(rest, OfStream(t))) \in Nat
             /\ Len(Chosen(h.out, OfStream(t))) = Len(Gone(t)) + Len(Chosen(rest, OfStream(t)))
             /\ ToSet(Gone(t)) \subseteq {f \in ToSet(h.out) : f.stream = t}
  <2>1. /\ Gone(t) \in Seq(Frames) /\ Chosen(rest, OfStream(t)) \in Seq(Frames)
        /\ ToSet(Gone(t)) = ToSet(gone) \cap OfStream(t)
    BY <1>2, ChosenFacts DEF Selected
  <2>2. Chosen(h.out, OfStream(t)) = Gone(t) \o Chosen(rest, OfStream(t))
    BY <1>2, ChosenOfBoth
  <2>3. ToSet(gone) \subseteq ToSet(h.out)
    BY <1>2, ToSetOfBoth
  <2>4. ToSet(Gone(t)) \subseteq {f \in ToSet(h.out) : f.stream = t}
    BY <2>1, <2>3 DEF OfStream
  <2> HIDE DEF Gone
  <2> QED BY <2>1, <2>2, <2>4, ConcatProperties
<1> HIDE DEF Gone
<1>5. /\ out \in Seq(Frames) /\ Lens(out) = Lens(rest)
      /\ \A t : Len(Chosen(out, OfStream(t))) = Len(Chosen(rest, OfStream(t)))
      /\ \A f \in ToSet(out) : \E g \in ToSet(h.out) : Alike(f, g) /\ (f = g \/ f.blocked)
      /\ \A e, f : PairIn(out, e, f) => \E d \in Frames : PairIn(h.out, d, f) /\ Alike(e, d)
  <2>1. CASE rest = <<>>
    <3>1. out = <<>>
      BY <2>1
    <3>2. ToSet(<<>>) = {} /\ \A e, f : ~PairIn(<<>>, e, f)
      BY ToSetOfNone DEF PairIn
    <3> QED BY <2>1, <3>1, <3>2
  <2>2. CASE rest # <<>>
    <3>1. out = <<x>> \o Tail(rest)
      BY <2>2
    <3>2. Head(rest) \in Frames
      BY <2>2, <1>2
    <3>3. /\ x \in Frames /\ x.stream = Head(rest).stream /\ x.len = Head(rest).len
          /\ Alike(x, Head(rest)) /\ x.blocked
      <4> HIDE DEF rest
      <4> DEFINE y == Head(rest)
      <4>1. y \in Frames
        BY <3>2
      <4> HIDE DEF y
      <4>2. [y EXCEPT !.blocked = TRUE, !.begun = @ \/ begun] \in Frames
        BY <4>1 DEF Frames
      <4> QED BY <4>1, <4>2 DEF y, Frames, Alike
    <3> HIDE DEF x, out
    <3>4. /\ out \in Seq(Frames) /\ Lens(out) = Lens(rest) /\ Head(rest) \in ToSet(rest)
          /\ \A t : Len(Chosen(out, OfStream(t))) = Len(Chosen(rest, OfStream(t)))
          /\ \A f \in ToSet(out) : f = x \/ f \in ToSet(rest)
          /\ \A e, f : PairIn(out, e, f) =>
               PairIn(rest, e, f) \/ (e = x /\ PairIn(rest, Head(rest), f))
      <4>1. rest \in Seq(Frames) /\ rest # <<>>
        BY <1>2, <2>2
      <4>2. x \in Frames /\ x.stream = Head(rest).stream /\ x.len = Head(rest).len
        BY <3>3
      <4>3. OtherHead(rest, x, out)
        BY <4>1, <4>2, <3>1, HeadChanged
      <4> QED BY <4>3 DEF OtherHead
    <3>5. ToSet(rest) \subseteq ToSet(h.out)
      BY <1>2, ToSetOfBoth
    <3>6. ASSUME NEW f \in ToSet(out)
          PROVE  \E g \in ToSet(h.out) : Alike(f, g) /\ (f = g \/ f.blocked)
      <4>1. CASE f = x
        BY <4>1, <3>3, <3>4, <3>5
      <4>2. CASE f \in ToSet(rest)
        BY <4>2, <3>5 DEF Alike
      <4> QED BY <4>1, <4>2, <3>4
    <3>7. ASSUME NEW e, NEW f, PairIn(out, e, f)
          PROVE  \E d \in Frames : PairIn(h.out, d, f) /\ Alike(e, d)
      <4>1. \A d : PairIn(rest, d, f) => PairIn(h.out, d, f)
        BY <1>2, PairsOfMore
      <4>2. CASE PairIn(rest, e, f)
        <5>1. e \in Frames
          BY <4>2, <3>5, <1>h, PairOfElements
        <5> QED BY <4>1, <4>2, <5>1 DEF Alike
      <4>3. CASE e = x /\ PairIn(rest, Head(rest), f)
        BY <4>1, <4>3, <3>2, <3>3
      <4> QED BY <4>2, <4>3, <3>4, <3>7
    <3> QED BY <3>4, <3>6, <3>7
  <2> QED BY <2>1, <2>2
<1> HIDE DEF out
<1>6. ASSUME NEW t \in Streams
      PROVE  /\ str[t] \in StreamRecs /\ str[t].queued = queued(t)
             /\ str[t].outClosed = outClosed(t) /\ str[t].posted = posted(t)
             /\ SameStage(h.str[t], str[t])
  <2>1. h.str[t] \in StreamRecs
    BY <1>h
  <2>2. queued(t) \in Int /\ outClosed(t) \in BOOLEAN /\ posted(t) \in BOOLEAN
    <3>1. h.str[t].queued \in Int /\ h.str[t].posted \in BOOLEAN /\ h.str[t].outClosed \in BOOLEAN
      BY <2>1, StreamFields
    <3> QED BY <3>1, <1>4
  <2>3. str[t] = [h.str[t] EXCEPT !.queued = queued(t), !.outClosed = outClosed(t),
                                  !.posted = posted(t)]
    OBVIOUS
  <2>4. h.str[t].posted => posted(t)
    OBVIOUS
  <2> HIDE DEF queued, outClosed, posted, str
  <2>5. /\ str[t] \in StreamRecs /\ str[t].queued = queued(t)
        /\ str[t].outClosed = outClosed(t) /\ str[t].posted = posted(t)
    BY <2>1, <2>2, <2>3 DEF StreamRecs
  <2>6. SameStage(h.str[t], str[t])
    BY <2>1, <2>3, <2>4, <2>5 DEF StreamRecs, SameStage
  <2> QED BY <2>5, <2>6
<1>7. str \in [Streams -> StreamRecs]
  <2>1. str = [t \in Streams |-> str[t]]
    OBVIOUS
  <2> HIDE DEF str
  <2> QED BY <2>1, <1>6
<1> HIDE DEF str
<1>8. credit \in Nat /\ h.win + Lens(out) = credit
  BY <1>3, <1>5, <1>h DEF Accounted
<1> HIDE DEF credit
<1>9. /\ r \in ConnRecs /\ r.phase = h.phase /\ r.todo = h.todo /\ r.error = h.error
      /\ r.out = out /\ r.str = str /\ r.win = h.win /\ r.credit = credit /\ r.wait = h.wait
  BY <1>1, <1>5, <1>7, <1>8 DEF ConnRecs
<1>10. Accounted(out, str, h.win, credit)
  <2>1. ASSUME NEW t \in Streams PROVE Len(Chosen(out, OfStream(t))) = str[t].queued
    BY <1>4, <1>5, <1>6 DEF Accounted
  <2> QED BY <2>1, <1>8 DEF Accounted
<1>11. ASSUME NEW t \in Streams PROVE StreamWent(h, r, cur, t)
  <2>1. SameStage(h.str[t], str[t])
    BY <1>6
  <2>2. 0 <= str[t].queued /\ str[t].queued <= h.str[t].queued
    <3>1. h.str[t].queued = Len(Chosen(h.out, OfStream(t)))
      BY DEF Accounted
    <3> QED BY <3>1, <1>4, <1>6
  <2>3. ASSUME str[t].queued # h.str[t].queued
        PROVE  t = cur \/ str[t].posted \/ t \in ToSet(h.wait) \/ h.str[t].exhausted
    <3>1. Gone(t) # <<>>
      <4>1. h.str[t].queued \in Int
        BY <1>h, StreamFields
      <4> QED BY <4>1, <2>3, <1>6
    <3> QED BY <3>1, <1>6 DEF Unwoken
  <2>4. ASSUME str[t].outClosed
        PROVE  h.str[t].outClosed \/ \E f \in ToSet(h.out) : f.stream = t /\ f.fin
    <3>1. \A f \in ToSet(Gone(t)) : f \in ToSet(h.out) /\ f.stream = t
      BY <1>4
    <3> QED BY <2>4, <3>1, <1>6
  <2> QED BY <2>1, <2>2, <2>3, <2>4, <1>9 DEF StreamWent
<1> QED BY <1>5, <1>9, <1>10, <1>11 DEF Went

LEMMA WentNothing ==
  ASSUME NEW h \in ConnRecs, NEW cur, Accounted(h.out, h.str, h.win, h.credit)
  PROVE  Went(h, h, cur)
<1>h. h.str \in [Streams -> StreamRecs] /\ h.out \in Seq(Frames) /\ ToSet(h.out) \subseteq Frames
  BY ConnFields
<1>1. ASSUME NEW t \in Streams PROVE StreamWent(h, h, cur, t)
  <2>1. h.str[t].queued \in Nat
    <3>1. Chosen(h.out, OfStream(t)) \in Seq(Frames)
      BY <1>h, ChosenFacts DEF Selected
    <3>2. Len(Chosen(h.out, OfStream(t))) \in Nat
      BY <3>1
    <3> QED BY <3>2 DEF Accounted
  <2> QED BY <2>1 DEF StreamWent, SameStage
<1>2. ASSUME NEW e, NEW f, PairIn(h.out, e, f)
      PROVE  \E d \in Frames : PairIn(h.out, d, f) /\ Alike(e, d)
  <2>1. e \in Frames
    BY <1>2, <1>h, PairOfElements
  <2> QED BY <2>1, <1>2 DEF Alike
<1> QED BY <1>1, <1>2 DEF Went, Alike

(* ngx_http_v2_send_output_queue: it fails, or frames went, or none did.    *)
LEMMA SendFacts ==
  ASSUME NEW h \in ConnRecs, ~h.error => Accounted(h.out, h.str, h.win, h.credit), NEW cur,
         NEW r \in ngx_http_v2_send_output_queue(h, cur)
  PROVE  /\ r \in ConnRecs /\ r.phase = h.phase /\ r.todo = h.todo
         /\ \A t \in Streams : SameStage(h.str[t], r.str[t])
         /\ ~r.error => ~h.error /\ Went(h, r, cur)
<1>0. \A t \in Streams : SameStage(h.str[t], h.str[t])
  BY DEF SameStage
<1>1. CASE h.error \/ ~h.ready \/ h.out = <<>>
  <2>1. r = h
    BY <1>1 DEF ngx_http_v2_send_output_queue
  <2> QED BY <2>1, <1>0, WentNothing
<1>2. CASE ~(h.error \/ ~h.ready \/ h.out = <<>>)
  <2>h. h.out \in Seq(Frames) /\ h.out # <<>> /\ Len(h.out) \in Nat
    BY <1>2, ConnFields
  <2>1. \/ \E k \in 0..Len(h.out), begun \in BOOLEAN : r = FramesTaken(h, cur, k, begun)
        \/ r = SendFailed(h)
    <3>1. \A k \in 0..(Len(h.out) - 1) : k \in 0..Len(h.out)
      BY <2>h
    <3> QED BY <3>1, <1>2 DEF ngx_http_v2_send_output_queue
  <2>2. CASE \E k \in 0..Len(h.out), begun \in BOOLEAN : r = FramesTaken(h, cur, k, begun)
    <3>1. /\ r \in ConnRecs /\ r.phase = h.phase /\ r.todo = h.todo /\ r.error = h.error
          /\ Went(h, r, cur)
      BY <2>2, <1>2, TakenSound
    <3> QED BY <3>1 DEF Went, StreamWent
  <2>3. CASE r = SendFailed(h)
    <3>1. Last(h.out) \in Frames
      BY <2>h DEF Last
    <3> DEFINE o == <<Last(h.out)>>
               wev == h.wev \/ h.phase = ""
    <3>2. o \in Seq(Frames)
      BY <3>1
    <3>3. wev \in BOOLEAN
      BY DEF ConnRecs
    <3>4. r = [h EXCEPT !.error = TRUE, !.out = o, !.wev = wev]
      BY <2>3 DEF SendFailed
    <3> HIDE DEF o, wev
    <3>5. r \in ConnRecs /\ r.phase = h.phase /\ r.todo = h.todo /\ r.error /\ r.str = h.str
      BY <3>2, <3>3, <3>4 DEF ConnRecs
    <3> QED BY <3>5, <1>0
  <2> QED BY <2>1, <2>2, <2>3
<1> QED BY <1>1, <1>2

(* What is kept is kept by sending, but for what is to wake the sender.     *)
LEMMA WentKept ==
  ASSUME NEW h \in ConnRecs, NEW r \in ConnRecs, NEW cur, NEW lazy, NEW c,
         cur \in {lazy, NoStream}, c \in Streams => c = lazy,
         Kept(h, cur, lazy), Went(h, r, c), r.phase = h.phase
  PROVE  Kept(r, cur, lazy)
<1>0. NoStream \notin Streams
  BY Http2Assumption
<1>h. /\ h.str \in [Streams -> StreamRecs] /\ h.out \in Seq(Frames) /\ ToSet(h.out) \subseteq Frames
      /\ ToSet(h.wait) \subseteq Streams /\ ToSet(r.out) \subseteq Frames
  BY ConnFields
<1>1. ASSUME NEW t \in Streams PROVE StreamWent(h, r, c, t) /\ SameStage(h.str[t], r.str[t])
  BY DEF Went, StreamWent
<1>2. \A t \in Streams : r.str[t].st = h.str[t].st /\ r.str[t].more = h.str[t].more
                         /\ r.str[t].err = h.str[t].err
  BY <1>1 DEF SameStage
<1>3. QueueOk(r.out, r.str, cur)
  <2>1. ASSUME NEW f \in ToSet(r.out) PROVE FrameOk(r.str, f)
    <3>1. PICK g \in ToSet(h.out) : Alike(f, g) /\ (f = g \/ f.blocked)
      BY DEF Went
    <3>2. FrameOk(h.str, g)
      BY DEF Kept, QueueOk
    <3> QED BY <3>1, <3>2, <1>2 DEF FrameOk, Alike
  <2>2. ASSUME NEW e \in Frames, NEW f \in Frames, PairIn(r.out, e, f)
        PROVE  Before(r.str, cur, e, f)
    <3>1. PICK d \in Frames : PairIn(h.out, d, f) /\ Alike(e, d)
      BY <2>2 DEF Went
    <3>2. Before(h.str, cur, d, f)
      BY <3>1 DEF Kept, QueueOk
    <3> QED BY <3>1, <3>2, <1>2 DEF Before, Alike
  <2> QED BY <2>1, <2>2 DEF QueueOk
<1>4. WaitOk(r.wait, r.str, r.win, r.phase, cur)
  BY <1>2, <1>h DEF Kept, WaitOk, Went
<1>5. ASSUME NEW t \in Streams PROVE StreamOk(r.str[t])
  <2>1. StreamOk(h.str[t])
    BY DEF Kept
  <2>2. h.str[t].queued = 0 => r.str[t].queued = 0 /\ \A f \in ToSet(h.out) : f.stream # t
    <3>1. h.str[t].queued = Len(Chosen(h.out, OfStream(t)))
      BY DEF Kept, Accounted
    <3>2. h.str[t].queued = 0 => \A f \in ToSet(h.out) : f.stream # t
      BY <3>1, <1>h, FramesAre
    <3>3. r.str[t].queued \in Int
      BY ConnFields, StreamFields
    <3> QED BY <3>2, <3>3, <1>1 DEF StreamWent
  <2>3. \A f \in ToSet(h.out) : f.stream = t /\ f.fin => ~h.str[t].more
    BY DEF Kept, QueueOk, FrameOk
  <2>4. r.str[t].outClosed => h.str[t].outClosed \/ (h.str[t].queued # 0 /\ ~h.str[t].more)
    BY <2>2, <2>3, <1>1 DEF StreamWent
  <2>5. /\ r.str[t].st = h.str[t].st /\ r.str[t].more = h.str[t].more
        /\ r.str[t].err = h.str[t].err /\ r.str[t].exhausted = h.str[t].exhausted
        /\ r.str[t].win = h.str[t].win
    BY <1>1 DEF SameStage
  <2> QED BY <2>1, <2>2, <2>4, <2>5 DEF StreamOk
<1>6. ASSUME NEW t \in Streams \ {lazy} PROVE Woken(r.wait, r.str[t], t)
  <2>1. Woken(h.wait, h.str[t], t)
    BY DEF Kept
  <2>2. /\ r.str[t].st = h.str[t].st /\ (h.str[t].posted => r.str[t].posted)
        /\ r.str[t].exhausted = h.str[t].exhausted /\ r.wait = h.wait
    BY <1>1 DEF SameStage, Went
  <2>3. \/ r.str[t].queued = h.str[t].queued
        \/ r.str[t].posted \/ t \in ToSet(h.wait) \/ h.str[t].exhausted
    BY <1>1 DEF StreamWent
  <2>4. t \in ToSet(h.wait) => h.str[t].st = "writing"
    BY <1>0 DEF Kept, WaitOk
  <2> QED BY <2>1, <2>2, <2>3, <2>4 DEF Woken
<1> QED BY <1>3, <1>4, <1>5, <1>6 DEF Kept, Went
-----------------------------------------------------------------------------
(* The frames of a part of the body: they carry n units, are of the stream  *)
(* and only the last of them ends it.                                       *)
LEMMA SameFrames ==
  ASSUME NEW f \in Frames, NEW j \in Nat
  PROVE  [i \in 1..j |-> f] \in Seq(Frames) /\ Lens([i \in 1..j |-> f]) = j * f.len
<1> DEFINE q(m) == [i \in 1..m |-> f]
           Q == {m \in Nat : Lens(q(m)) = m * f.len}
<1>0. \A m \in Nat : q(m) \in Seq(Frames) /\ Len(q(m)) = m
  OBVIOUS
<1>1. 0 \in Q
  <2>1. q(0) = <<>>
    OBVIOUS
  <2> HIDE DEF q
  <2>2. Lens(q(0)) = 0
    BY <2>1, LensOfNone
  <2> QED BY <2>2, FrameLen
<1>2. ASSUME NEW m \in Q PROVE m + 1 \in Q
  <2>1. m \in Nat /\ Lens(q(m)) = m * f.len
    OBVIOUS
  <2>2. q(m + 1) = Append(q(m), f)
    BY <2>1
  <2>3. q(m) \in Seq(Frames) /\ f.len \in Nat
    BY <1>0, <2>1, FrameLen
  <2> HIDE DEF q
  <2>4. Lens(q(m + 1)) = Lens(q(m)) + f.len
    BY <2>2, <2>3, LensOfMore
  <2>5. Lens(q(m + 1)) = (m + 1) * f.len
    BY <2>1, <2>3, <2>4
  <2> QED BY <2>1, <2>5
<1>3. Nat \subseteq Q
  <2>1. Q \subseteq Nat
    OBVIOUS
  <2> HIDE DEF Q
  <2> QED BY <1>1, <1>2, <2>1, AllNat
<1> QED BY <1>0, <1>3

LEMMA DataFrameIs ==
  ASSUME NEW s \in Streams, NEW n \in Nat, NEW fin \in BOOLEAN
  PROVE  /\ DataFrame(s, n, fin) \in Frames /\ DataFrame(s, n, fin).stream = s
         /\ DataFrame(s, n, fin).resets = NoStream /\ ~DataFrame(s, n, fin).begun
         /\ DataFrame(s, n, fin).fin = fin /\ DataFrame(s, n, fin).len = n
         /\ DataFrame(s, n, fin).kind = "data"
  BY DEF Control, DataFrame, Frames

(* How many frames: the last one is not larger than the others.             *)
Frags(n) == IF n = 0 THEN 1 ELSE (n + FrameSize - 1) \div FrameSize

LEMMA FragsAre ==
  ASSUME NEW n \in Nat
  PROVE  Frags(n) \in Nat /\ 1 <= Frags(n) /\ n - (Frags(n) - 1) * FrameSize \in Nat
<1>0. FrameSize \in Nat /\ FrameSize >= 1
  BY Http2Assumption
<1>1. CASE n = 0
  BY <1>0, <1>1 DEF Frags
<1>2. CASE n > 0
  <2> DEFINE m == n + FrameSize - 1
             k == m \div FrameSize
             e == m % FrameSize
  <2>1. m \in Nat /\ m >= FrameSize
    BY <1>0, <1>2
  <2> HIDE DEF m
  <2>2. k \in Int /\ e \in Int /\ 0 <= e /\ e < FrameSize /\ m = FrameSize * k + e
    BY <1>0, <2>1
  <2> HIDE DEF k, e
  <2>3. k >= 1
    <3>0. SUFFICES ASSUME k <= 0 PROVE FALSE
      BY <2>2
    <3>1. FrameSize * k <= 0
      BY <3>0, <1>0, <2>2
    <3> QED BY <3>1, <1>0, <2>1, <2>2
  <2>4. n - (k - 1) * FrameSize \in Nat
    <3>1. (k - 1) * FrameSize = FrameSize * k - FrameSize
      BY <1>0, <2>2
    <3>2. FrameSize * k \in Int
      BY <1>0, <2>2
    <3> DEFINE p == FrameSize * k
    <3> HIDE DEF p
    <3>3. n - (p - FrameSize) \in Nat
      BY <3>2, <1>0, <2>2 DEF m, p
    <3> QED BY <3>1, <3>3 DEF p
  <2>5. Frags(n) = k
    BY <1>2 DEF Frags, k, m
  <2> QED BY <2>2, <2>3, <2>4, <2>5
<1> QED BY <1>1, <1>2

(* What is put in for a stream, the last of it perhaps to end it.           *)
IsBody(new, s, n, all) ==
  /\ new \in Seq(Frames) /\ Lens(new) = n
  /\ \A f \in ToSet(new) :
       /\ f.stream = s /\ f.resets = NoStream /\ ~f.begun
       /\ f.fin => all
       /\ f.kind = "headers" => f.fin
  /\ \A e, f : PairIn(new, e, f) => ~e.fin

LEMMA BodyMore ==
  ASSUME NEW s \in Streams, NEW n \in Nat, NEW new, NEW all \in BOOLEAN, IsBody(new, s, n, FALSE),
         NEW f \in Frames, f.stream = s, f.resets = NoStream, ~f.begun, f.fin => all,
         f.kind = "headers" => f.fin
  PROVE  IsBody(Append(new, f), s, n + f.len, all)
<1>1. new \in Seq(Frames) /\ <<f>> \in Seq(Frames) /\ ToSet(<<f>>) = {f}
      /\ \A a, b : ~PairIn(<<f>>, a, b)
  BY OneChosen, OneFrame DEF IsBody
<1>2. /\ Append(new, f) \in Seq(Frames) /\ ToSet(Append(new, f)) = ToSet(new) \cup {f}
      /\ Append(new, f) = new \o <<f>>
  BY <1>1, AppendFacts, AppendIsConcat
<1>3. Lens(Append(new, f)) = n + f.len
  BY <1>1, LensOfMore DEF IsBody
<1>4. ASSUME NEW a, NEW b, PairIn(Append(new, f), a, b) PROVE ~a.fin
  <2>1. PairIn(new \o <<f>>, a, b)
    BY <1>2, <1>4
  <2>2. PairIn(new, a, b) \/ PairIn(<<f>>, a, b) \/ (a \in ToSet(new) /\ b \in ToSet(<<f>>))
    BY <1>1, <2>1, PairsOfBothAre
  <2> QED BY <1>1, <2>2 DEF IsBody
<1> QED BY <1>2, <1>3, <1>4 DEF IsBody

LEMMA DataFramesAre ==
  ASSUME NEW s \in Streams, NEW n \in Nat, NEW all \in BOOLEAN, NEW trailers \in BOOLEAN
  PROVE  IsBody(DataFrames(s, n, all, trailers), s, n, all)
<1> DEFINE k == Frags(n)
           full == DataFrame(s, FrameSize, FALSE)
           rest == n - (k - 1) * FrameSize
           end == all /\ ~trailers
           last == DataFrame(s, rest, end)
           a == [i \in 1..(k - 1) |-> full]
           data == [i \in 1..k |-> DataFrame(s, IF i < k THEN FrameSize
                                                ELSE n - (k - 1) * FrameSize,
                                             all /\ i = k /\ ~trailers)]
<1>0. FrameSize \in Nat
  BY Http2Assumption
<1>1. k \in Nat /\ 1 <= k /\ rest \in Nat
  BY FragsAre
<1>2. /\ full \in Frames /\ full.stream = s /\ full.resets = NoStream /\ ~full.begun
      /\ ~full.fin /\ full.len = FrameSize /\ full.kind = "data"
  BY <1>0, DataFrameIs
<1>3. /\ last \in Frames /\ last.stream = s /\ last.resets = NoStream /\ ~last.begun
      /\ last.fin = end /\ last.len = rest /\ last.kind = "data"
  <2>1. end \in BOOLEAN
    OBVIOUS
  <2> HIDE DEF end, rest
  <2> QED BY <1>1, <2>1, DataFrameIs
<1>a. a \in Seq(Frames) /\ Lens(a) = (k - 1) * full.len
  <2>1. k - 1 \in Nat
    BY <1>1
  <2>2. \A j \in Nat : [i \in 1..j |-> full] \in Seq(Frames)
                      /\ Lens([i \in 1..j |-> full]) = j * full.len
    <3> HIDE DEF full
    <3> QED BY <1>2, SameFrames
  <2> HIDE DEF full, k
  <2> QED BY <2>1, <2>2
<1>4. data = Append(a, last)
  <2>1. ASSUME NEW i \in 1..k PROVE data[i] = IF i < k THEN full ELSE last
    <3>1. CASE i < k
      <4>1. (all /\ i = k /\ ~trailers) = FALSE
        BY <3>1
      <4> QED BY <3>1, <4>1
    <3>2. CASE ~(i < k)
      <4>1. i = k
        BY <3>2, <1>1
      <4>2. (all /\ i = k /\ ~trailers) = end
        BY <4>1
      <4> QED BY <3>2, <4>1, <4>2
    <3> QED BY <3>1, <3>2
  <2>2. Len(a) = k - 1 /\ Len(data) = k /\ DOMAIN data = 1..k
    BY <1>1
  <2>3. a \in Seq(Frames)
    BY <1>a
  <2>4. /\ Append(a, last) \in Seq(Frames) /\ DOMAIN Append(a, last) = 1..((k - 1) + 1)
        /\ Append(a, last)[(k - 1) + 1] = last
        /\ \A i \in 1..(k - 1) : Append(a, last)[i] = a[i]
    <3> HIDE DEF a, k, last
    <3> QED BY <1>1, <1>3, <2>2, <2>3, AppendFacts
  <2>5. (k - 1) + 1 = k /\ \A i \in 1..k : (i < k /\ i \in 1..(k - 1)) \/ i = k
    BY <1>1
  <2>6. \A i \in 1..(k - 1) : a[i] = full
    OBVIOUS
  <2>7. data \in Seq(Frames)
    <3>1. \A i \in 1..k : data[i] \in Frames
      <4> HIDE DEF data, k, full, last
      <4> QED BY <2>1, <1>2, <1>3
    <3>2. data = [i \in 1..k |-> data[i]]
      OBVIOUS
    <3> HIDE DEF data, k, full, last
    <3> QED BY <3>1, <3>2, <1>1
  <2>8. ASSUME NEW i \in 1..k PROVE data[i] = Append(a, last)[i]
    <3>1. data[i] = IF i < k THEN full ELSE last
      BY <2>1
    <3>2. (i < k /\ i \in 1..(k - 1)) \/ i = k
      BY <2>5
    <3> HIDE DEF a, k, last, data, full
    <3>3. CASE i < k /\ i \in 1..(k - 1)
      BY <3>1, <3>3, <2>4, <2>6
    <3>4. CASE i = k
      BY <3>1, <3>4, <2>4, <2>5, <1>1
    <3> QED BY <3>2, <3>3, <3>4
  <2>9. Len(Append(a, last)) = k
    <3> HIDE DEF a, k, last, data, full
    <3> QED BY <2>2, <2>3, <2>5, <1>3, AppendProperties
  <2> HIDE DEF a, k, last, data, full
  <2> QED BY <2>2, <2>4, <2>7, <2>8, <2>9, SeqEqual
<1>5. IsBody(a, s, (k - 1) * FrameSize, FALSE)
  <2>1. a \in Seq(Frames) /\ Lens(a) = (k - 1) * FrameSize
    BY <1>a, <1>2
  <2>2. \A f \in ToSet(a) : f = full
    BY DEF ToSet
  <2>3. \A e, f : PairIn(a, e, f) => e = full
    BY DEF PairIn
  <2> HIDE DEF a, full
  <2> QED BY <2>1, <2>2, <2>3, <1>2 DEF IsBody
<1>6. (k - 1) * FrameSize \in Nat /\ (k - 1) * FrameSize + rest = n
  <2>1. k - 1 \in Nat
    BY <1>1
  <2>2. (k - 1) * FrameSize \in Nat
    BY <2>1, <1>0
  <2> DEFINE p == (k - 1) * FrameSize
  <2> HIDE DEF p
  <2>3. p + (n - p) = n
    BY <2>2 DEF p
  <2> QED BY <2>2, <2>3 DEF p
<1>7. IsBody(data, s, n, end)
  <2> HIDE DEF a, last, data, rest
  <2> QED BY <1>3, <1>4, <1>5, <1>6, BodyMore
<1>8. DataFrames(s, n, all, trailers)
        = data \o IF all /\ trailers THEN <<HeadersFrame(s, TRUE)>> ELSE <<>>
  BY DEF DataFrames, Frags
<1> HIDE DEF data
<1>9. CASE all /\ trailers
  <2> DEFINE f == HeadersFrame(s, TRUE)
  <2>1. /\ f \in Frames /\ f.stream = s /\ f.resets = NoStream /\ ~f.begun /\ f.fin /\ f.len = 0
    BY HeaderFrame
  <2>2. DataFrames(s, n, all, trailers) = data \o <<f>>
    BY <1>8, <1>9
  <2> HIDE DEF f
  <2>3. IsBody(data, s, n, FALSE)
    <3>1. end = FALSE
      BY <1>9
    <3> QED BY <3>1, <1>7
  <2>4. data \o <<f>> = Append(data, f)
    BY <2>1, <2>3, AppendIsConcat DEF IsBody
  <2>5. IsBody(Append(data, f), s, n + f.len, all)
    BY <2>1, <2>3, <1>9, BodyMore
  <2>6. n + f.len = n
    BY <2>1
  <2> QED BY <2>2, <2>4, <2>5, <2>6
<1>10. CASE ~(all /\ trailers)
  <2>1. DataFrames(s, n, all, trailers) = data
    <3>1. data \in Seq(Frames)
      BY <1>7 DEF IsBody
    <3> QED BY <3>1, <1>8, <1>10, ConcatEmptySeq
  <2>2. IsBody(data, s, n, all)
    <3>1. end => all
      OBVIOUS
    <3> HIDE DEF end
    <3> QED BY <3>1, <1>7 DEF IsBody
  <2> QED BY <2>1, <2>2
<1> QED BY <1>9, <1>10

(* All the frames of a body are of its stream.                              *)
LEMMA BodyFrames ==
  ASSUME NEW s \in Streams, NEW n, NEW all, NEW new, IsBody(new, s, n, all)
  PROVE  /\ Len(Chosen(new, OfStream(s))) = Len(new)
         /\ \A t \in Streams \ {s} : Len(Chosen(new, OfStream(t))) = 0
<1>1. new \in Seq(Frames) /\ ToSet(new) \subseteq Frames
  BY SeqSet DEF IsBody
<1>2. ToSet(new) \subseteq OfStream(s)
  BY <1>1 DEF IsBody, OfStream
<1>3. \A t \in Streams \ {s} : ToSet(new) \cap OfStream(t) = {}
  BY <1>2 DEF OfStream
<1>4. Chosen(new, OfStream(s)) = new
  BY <1>1, <1>2, ChosenAll
<1>5. \A t \in Streams \ {s} : Chosen(new, OfStream(t)) = <<>>
  BY <1>1, <1>3, ChosenNothing
<1> QED BY <1>4, <1>5
-----------------------------------------------------------------------------
(* ngx_http_v2_flow_control: what declines leaves the stream waiting.       *)
LEMMA FlowSound ==
  ASSUME NEW h, NEW s \in Streams, Sound(h, s, s), h.str[s].st # "none",
         NEW g, g = ngx_http_v2_flow_control(h, s)
  PROVE  /\ Sound(g, s, s) /\ Others(h, g, s) /\ g.error = h.error
         /\ g.str[s].st = h.str[s].st /\ g.str[s].err = h.str[s].err
         /\ Declined(h, s) => g.str[s].exhausted \/ s \in ToSet(g.wait)
<1>h. /\ h \in ConnRecs /\ h.str \in [Streams -> StreamRecs] /\ h.wait \in Seq(Streams)
      /\ h.str[s] \in StreamRecs /\ Len(h.wait) \in Nat
  BY ConnFields DEF Sound
<1>1. CASE h.str[s].win <= 0
  <2> DEFINE y == [h.str[s] EXCEPT !.exhausted = TRUE]
  <2>1. g = [h EXCEPT !.str[s] = y]
    BY <1>1 DEF ngx_http_v2_flow_control
  <2>2. /\ y \in StreamRecs /\ y.st = h.str[s].st /\ y.queued = h.str[s].queued
        /\ y.err = h.str[s].err /\ y.more = h.str[s].more /\ y.exhausted
        /\ y.outClosed = h.str[s].outClosed /\ y.win = h.str[s].win
    BY <1>h DEF StreamRecs
  <2> HIDE DEF y
  <2>3. ~h.error => StreamOk(y)
    <3>1. ~h.error => StreamOk(h.str[s])
      BY DEF Sound, Kept
    <3> QED BY <3>1, <2>2, <1>1 DEF StreamOk
  <2>4. Sound(g, s, s)
    BY <2>1, <2>2, <2>3, StreamChangeSound
  <2>5. g.str[s] = y /\ g.error = h.error /\ Others(h, g, s)
    BY <1>h, <2>1 DEF ConnRecs, Others
  <2> QED BY <2>2, <2>4, <2>5
<1>2. CASE ~(h.str[s].win <= 0) /\ h.win = 0 /\ s \notin ToSet(h.wait)
  <2> DEFINE I == {i \in 1..Len(h.wait) : Prio[h.wait[i]] <= Prio[s]}
             k == IF I # {} THEN Max(I) ELSE 0
             w == InsertAfter(h.wait, k, <<s>>)
  <2>1. g = [h EXCEPT !.wait = w]
    BY <1>2 DEF ngx_http_v2_flow_control, SelectLastInSeq
  <2>2. k \in 0..Len(h.wait)
    <3>1. LastOf(I, Len(h.wait), k)
      BY <1>h, LastIs
    <3> QED BY <3>1 DEF LastOf
  <2>3. w \in Seq(Streams) /\ ToSet(w) = ToSet(h.wait) \cup {s}
    <3>1. <<s>> \in Seq(Streams) /\ ToSet(<<s>>) = {s}
      BY OneChosen, OneFrame
    <3> HIDE DEF k
    <3> QED BY <1>h, <2>2, <3>1, InsertFacts DEF Inserted
  <2> HIDE DEF w
  <2>4. /\ g \in ConnRecs /\ g.error = h.error /\ g.out = h.out /\ g.wait = w /\ g.str = h.str
        /\ g.win = h.win /\ g.credit = h.credit /\ g.phase = h.phase /\ g.todo = h.todo
    BY <1>h, <2>1, <2>3 DEF ConnRecs
  <2>5. ASSUME Kept(h, s, s) PROVE Kept(g, s, s)
    <3>1. WaitOk(w, h.str, h.win, h.phase, s)
      BY <2>3, <2>5, <1>2 DEF Kept, WaitOk
    <3>2. \A t \in Streams \ {s} : Woken(w, h.str[t], t)
      BY <2>3, <2>5 DEF Kept, Woken
    <3> QED BY <3>1, <3>2, <2>4, <2>5 DEF Kept
  <2> QED BY <2>3, <2>4, <2>5 DEF Sound, Others
<1>3. CASE ~(h.str[s].win <= 0) /\ ~(h.win = 0 /\ s \notin ToSet(h.wait))
  <2>1. g = h
    BY <1>3 DEF ngx_http_v2_flow_control
  <2> QED BY <2>1, <1>3 DEF Others, Declined
<1> QED BY <1>1, <1>2, <1>3

LEMMA MinOfThree ==
  ASSUME NEW a \in Int, NEW b \in Int, NEW c \in Int
  PROVE  /\ Min({a, b, c}) \in {a, b, c}
         /\ Min({a, b, c}) <= a /\ Min({a, b, c}) <= b /\ Min({a, b, c}) <= c
<1>1. \E x \in {a, b, c} : \A y \in {a, b, c} : x <= y
  <2>1. CASE a <= b /\ a <= c
    BY <2>1
  <2>2. CASE b <= a /\ b <= c
    BY <2>2
  <2>3. CASE c <= a /\ c <= b
    BY <2>3
  <2> QED BY <2>1, <2>2, <2>3
<1>2. Min({a, b, c}) \in {a, b, c} /\ \A y \in {a, b, c} : Min({a, b, c}) <= y
  BY <1>1 DEF Min
<1> QED BY <1>2

LEMMA MaxOfTwo ==
  ASSUME NEW a \in Int
  PROVE  Max({a, 0}) \in Nat /\ (Max({a, 0}) = a \/ (Max({a, 0}) = 0 /\ a <= 0))
<1>1. \E x \in {a, 0} : \A y \in {a, 0} : x >= y
  <2>1. CASE a >= 0
    BY <2>1
  <2>2. CASE 0 >= a
    BY <2>2
  <2> QED BY <2>1, <2>2
<1>2. Max({a, 0}) \in {a, 0} /\ \A y \in {a, 0} : Max({a, 0}) >= y
  BY <1>1 DEF Max
<1> QED BY <1>2

(* A part of the body goes into the queue.                                  *)
Sendable(h, s) == Min({h.str[s].left, h.win, Max({h.str[s].win, 0})})

LEMMA SendableIs ==
  ASSUME NEW h \in ConnRecs, NEW s \in Streams
  PROVE  /\ Sendable(h, s) \in Nat /\ Sendable(h, s) <= h.str[s].left /\ Sendable(h, s) <= h.win
         /\ Sendable(h, s) # h.str[s].left =>
              h.win - Sendable(h, s) = 0 \/ h.str[s].win - Sendable(h, s) <= 0
<1>1. h.str[s].left \in Nat /\ h.win \in Nat /\ h.str[s].win \in Int
  BY ConnFields, StreamFields
<1> DEFINE m == Max({h.str[s].win, 0})
<1>2. m \in Nat /\ (m = h.str[s].win \/ (m = 0 /\ h.str[s].win <= 0))
  BY <1>1, MaxOfTwo
<1>3. /\ Sendable(h, s) \in {h.str[s].left, h.win, m}
      /\ Sendable(h, s) <= h.str[s].left /\ Sendable(h, s) <= h.win
  <2>1. Sendable(h, s) = Min({h.str[s].left, h.win, m})
    BY DEF Sendable
  <2> HIDE DEF m
  <2>2. h.str[s].left \in Int /\ h.win \in Int /\ m \in Int
    BY <1>1, <1>2
  <2>3. \A a, b, c \in Int : /\ Min({a, b, c}) \in {a, b, c}
                             /\ Min({a, b, c}) <= a /\ Min({a, b, c}) <= b
    BY MinOfThree
  <2>4. LET a == h.str[s].left
            b == h.win
        IN /\ Min({a, b, m}) \in {a, b, m}
           /\ Min({a, b, m}) <= a /\ Min({a, b, m}) <= b
    BY <2>2, <2>3, Zenon
  <2> QED BY <2>1, <2>4
<1> HIDE DEF m
<1> QED BY <1>1, <1>2, <1>3

BodyQueued(h, s) ==
  LET x == h.str[s]
      n == Sendable(h, s)
      q == ngx_http_v2_queue_frame(h, s, DataFrames(s, n, n = x.left, x.trailers))
      rest == [q.str[s] EXCEPT !.win = @ - n, !.left = @ - n, !.more = n < x.left]
  IN [q EXCEPT !.win = @ - n, !.str[s] = rest]

LEMMA BodyInOrder ==
  ASSUME NEW h \in ConnRecs, NEW s \in Streams, Kept(h, s, s),
         h.str[s].st \in {"sent", "writing"}, ~h.str[s].err, h.str[s].more,
         NEW n, NEW all \in BOOLEAN, NEW new, IsBody(new, s, n, all),
         NEW str, \A t \in Streams \ {s} : str[t] = h.str[t],
         str[s].st = h.str[s].st, str[s].err = h.str[s].err, all => ~str[s].more,
         NEW k \in 0..Len(h.out),
         \A b \in DOMAIN h.out : b > k => ~h.out[b].blocked /\ h.out[b].stream \in Streams \ {s}
  PROVE  QueueOk(InsertAfter(h.out, k, new), str, s)
<1>0. NoStream \notin Streams
  BY Http2Assumption
<1>h. h.out \in Seq(Frames) /\ ToSet(h.out) \subseteq Frames /\ new \in Seq(Frames)
  BY ConnFields DEF IsBody
<1>1. QueueOk(h.out, h.str, s)
  BY DEF Kept
<1>2. \A e \in ToSet(h.out) : FrameOk(h.str, e)
  BY <1>1 DEF QueueOk
<1>3. ASSUME NEW e \in ToSet(h.out) PROVE (e.stream = s => ~e.fin) /\ e.resets # s
  BY <1>2, <1>3 DEF FrameOk
<1>4. QueueOk(h.out, str, s)
  <2>1. \A t \in Streams : /\ str[t].st = h.str[t].st
                           /\ h.str[t].err => str[t].err
                           /\ str[t].more => h.str[t].more
    OBVIOUS
  <2> QED BY <2>1, <1>1, <1>h, QueueSame
<1>5. \A f \in ToSet(new) : /\ f.stream = s /\ f.resets = NoStream /\ ~f.begun
                            /\ f.fin => all
                            /\ f.kind = "headers" => f.fin
  BY DEF IsBody
<1>6. \A f \in ToSet(new) : FrameOk(str, f)
  BY <1>5, <1>0 DEF FrameOk
<1>7. \A e, f \in Frames : PairIn(new, e, f) => Before(str, s, e, f)
  <2> SUFFICES ASSUME NEW e \in Frames, NEW f \in Frames, PairIn(new, e, f)
               PROVE  Before(str, s, e, f)
    OBVIOUS
  <2>1. e \in ToSet(new) /\ f \in ToSet(new) /\ ~e.fin
    BY PairOfElements DEF IsBody
  <2> QED BY <2>1, <1>0, <1>5 DEF Before
<1>8. \A e \in ToSet(h.out), f \in ToSet(new) : Before(str, s, e, f)
  BY <1>3, <1>5, <1>0 DEF Before
<1>9. \A e \in ToSet(new), b \in DOMAIN h.out : b > k => Before(str, s, e, h.out[b])
  <2>1. \A b \in DOMAIN h.out : b > k => ~h.out[b].begun
    BY <1>2 DEF ToSet, FrameOk
  <2> QED BY <2>1, <1>5, <1>0 DEF Before
<1> QED BY <1>h, <1>4, <1>6, <1>7, <1>8, <1>9, QueueInsert

LEMMA BodyQueuedSound ==
  ASSUME NEW h, NEW s \in Streams, Sound(h, s, s),
         h.str[s].st \in {"sent", "writing"}, ~h.str[s].err, h.str[s].more, ~h.str[s].outClosed,
         NEW g, g = BodyQueued(h, s)
  PROVE  /\ Sound(g, s, s) /\ Others(h, g, s) /\ g.error = h.error
         /\ g.str[s].st = h.str[s].st /\ ~g.str[s].err
         /\ g.str[s].more = (Sendable(h, s) < h.str[s].left)
         /\ Sendable(h, s) < h.str[s].left => Declined(g, s)
<1> DEFINE x == h.str[s]
           n == Sendable(h, s)
           all == (n = x.left)
           new == DataFrames(s, n, all, x.trailers)
           y == [x EXCEPT !.queued = @ + Len(new), !.win = @ - n, !.left = @ - n,
                          !.more = n < x.left]
           str == [h.str EXCEPT ![s] = y]
<1>h. /\ h \in ConnRecs /\ h.str \in [Streams -> StreamRecs] /\ h.out \in Seq(Frames)
      /\ x \in StreamRecs /\ h.win \in Nat /\ x.trailers \in BOOLEAN
  BY ConnFields DEF Sound, StreamRecs
<1>1. /\ n \in Nat /\ n <= x.left /\ n <= h.win
      /\ n # x.left => h.win - n = 0 \/ x.win - n <= 0
  BY <1>h, SendableIs
<1> HIDE DEF n
<1>2. IsBody(new, s, n, all)
  <2>1. all \in BOOLEAN
    OBVIOUS
  <2> HIDE DEF all
  <2> QED BY <1>1, <1>h, <2>1, DataFramesAre
<1>3. new \in Seq(Frames) /\ Lens(new) = n /\ Len(new) \in Nat
  BY <1>2 DEF IsBody
<1>4. PICK k \in 0..Len(h.out) :
        /\ ngx_http_v2_queue_frame(h, s, new)
             = [h EXCEPT !.out = InsertAfter(h.out, k, new), !.str[s].queued = @ + Len(new)]
        /\ \A b \in DOMAIN h.out : b > k =>
             ~h.out[b].blocked /\ h.out[b].stream \in Streams \ {s}
  <2> HIDE DEF new
  <2> QED BY <1>3, <1>h, QueuesFrames
<1> DEFINE out == InsertAfter(h.out, k, new)
           q == [h EXCEPT !.out = out, !.str[s].queued = @ + Len(new)]
           left(z) == [z EXCEPT !.win = z.win - n, !.left = z.left - n, !.more = n < x.left]
<1>5. g = [q EXCEPT !.win = q.win - n, !.str[s] = left(q.str[s])]
  BY <1>4 DEF BodyQueued, n
<1> HIDE DEF left
<1> HIDE DEF new
<1>6. out \in Seq(Frames)
  BY <1>3, <1>h, InsertFacts DEF Inserted
<1>7. /\ y \in StreamRecs /\ y.queued = x.queued + Len(new) /\ y.win = x.win - n
      /\ y.left = x.left - n /\ y.more = (n < x.left) /\ y.st = x.st /\ y.err = x.err
      /\ y.exhausted = x.exhausted /\ y.outClosed = x.outClosed
  <2>1. x.queued + Len(new) \in Int /\ x.win - n \in Int /\ x.left - n \in Nat
    BY <1>h, <1>1, <1>3, StreamFields
  <2>2. (n < x.left) \in BOOLEAN
    OBVIOUS
  <2> HIDE DEF x
  <2> QED BY <1>h, <2>1, <2>2 DEF StreamRecs
<1> HIDE DEF out
<1> DEFINE z == [x EXCEPT !.queued = @ + Len(new)]
<1>z. /\ q \in ConnRecs /\ q.win = h.win /\ q.str = [h.str EXCEPT ![s] = z] /\ q.str[s] = z
      /\ q.out = out /\ q.error = h.error /\ q.wait = h.wait /\ q.credit = h.credit
      /\ q.phase = h.phase /\ q.todo = h.todo
  <2>1. z \in StreamRecs
    <3>1. x.queued + Len(new) \in Int
      BY <1>h, <1>3, StreamFields
    <3> HIDE DEF x
    <3> QED BY <1>h, <3>1 DEF StreamRecs
  <2>2. q = [h EXCEPT !.out = out, !.str[s] = z]
    BY <1>h DEF ConnRecs
  <2> HIDE DEF z, q
  <2> QED BY <1>6, <1>h, <2>1, <2>2 DEF ConnRecs
<1>8. g = [q EXCEPT !.win = h.win - n, !.str = str]
  <2>1. left(q.str[s]) = y
    <3>1. left(z) = y
      <4> HIDE DEF x
      <4> QED BY <1>h DEF StreamRecs, left
    <3> HIDE DEF z, y, q
    <3> QED BY <3>1, <1>z
  <2>2. [q.str EXCEPT ![s] = y] = str
    <3> HIDE DEF z, y, q
    <3> QED BY <1>z, <1>h
  <2> HIDE DEF z, y, q
  <2>3. g = [q EXCEPT !.win = q.win - n, !.str[s] = y]
    BY <1>5, <2>1
  <2>4. \A w : [q EXCEPT !.win = w, !.str[s] = y] = [q EXCEPT !.win = w, !.str = str]
    BY <1>z, <2>2 DEF ConnRecs
  <2> QED BY <1>z, <2>3, <2>4
<1> HIDE DEF z, q
<1> HIDE DEF y
<1>9. str[s] = y /\ (\A t \in Streams \ {s} : str[t] = h.str[t]) /\ str \in [Streams -> StreamRecs]
  BY <1>h, <1>7
<1> HIDE DEF str
<1>10. h.win - n \in Nat
  BY <1>h, <1>1
<1>11. /\ g \in ConnRecs /\ g.error = h.error /\ g.out = out /\ g.wait = h.wait /\ g.str = str
       /\ g.win = h.win - n /\ g.credit = h.credit /\ g.phase = h.phase /\ g.todo = h.todo
  BY <1>z, <1>8, <1>9, <1>10 DEF ConnRecs
<1> HIDE DEF x
<1>12. ASSUME ~h.error PROVE Kept(g, s, s)
  <2>k. Kept(h, s, s)
    BY <1>12 DEF Sound
  <2>1. Accounted(out, str, h.win - n, h.credit)
    <3>1. ASSUME NEW t \in Streams
          PROVE  h.str[t].queued \in Int
                 /\ str[t].queued = h.str[t].queued + Len(Chosen(new, OfStream(t)))
      <4>1. h.str[t].queued \in Int
        BY <1>h, StreamFields
      <4>2. /\ Len(Chosen(new, OfStream(s))) = Len(new)
            /\ \A u \in Streams \ {s} : Len(Chosen(new, OfStream(u))) = 0
        BY <1>2, BodyFrames
      <4>3. CASE t = s
        BY <4>1, <4>2, <4>3, <1>7, <1>9 DEF x
      <4>4. CASE t # s
        BY <4>1, <4>2, <4>4, <1>9
      <4> QED BY <4>3, <4>4
    <3>2. h.win = (h.win - n) + Lens(new)
      BY <1>1, <1>3, <1>h
    <3>3. Accounted(h.out, h.str, h.win, h.credit)
      BY <2>k DEF Kept
    <3> QED BY <3>1, <3>2, <3>3, <1>3, <1>10, <1>h, AccountedInsert DEF out
  <2>2. QueueOk(out, str, s)
    <3>1. str[s].st = h.str[s].st /\ str[s].err = h.str[s].err
      BY <1>7, <1>9 DEF x
    <3>2. all => ~str[s].more
      <4>1. n \in Int /\ x.left \in Int
        BY <1>1, <1>h, StreamFields
      <4>2. n = x.left => ~(n < x.left)
        BY <4>1
      <4>3. str[s].more = (n < x.left)
        BY <1>7, <1>9
      <4> QED BY <4>2, <4>3
    <3>3. all \in BOOLEAN
      OBVIOUS
    <3> HIDE DEF all
    <3> QED BY <2>k, <3>1, <3>2, <3>3, <1>2, <1>4, <1>9, <1>h, BodyInOrder DEF out
  <2>3. WaitOk(h.wait, str, h.win - n, h.phase, s)
    <3>1. ASSUME h.wait # <<>>, h.phase # "waking" PROVE h.win - n = 0
      BY <3>1, <2>k, <1>1 DEF Kept, WaitOk
    <3>2. ToSet(h.wait) \subseteq Streams
      BY <1>h, ConnFields
    <3> QED BY <3>1, <3>2, <2>k, <1>9 DEF Kept, WaitOk
  <2>4. ASSUME NEW t \in Streams PROVE StreamOk(str[t])
    <3>1. StreamOk(h.str[t])
      BY <2>k DEF Kept
    <3>2. CASE t = s
      <4>1. y.exhausted => y.win <= 0
        <5>1. x.exhausted => x.win <= 0
          BY <3>1, <3>2 DEF StreamOk, x
        <5>2. x.win \in Int
          BY <1>h, StreamFields
        <5> QED BY <5>1, <5>2, <1>1, <1>7
      <4>2. y.st \in {"sent", "writing"} /\ ~y.outClosed
        BY <1>7 DEF x
      <4>3. StreamOk(y)
        BY <4>1, <4>2 DEF StreamOk
      <4> QED BY <4>3, <3>2, <1>9
    <3>3. CASE t # s
      BY <3>1, <3>3, <1>9
    <3> QED BY <3>2, <3>3
  <2>5. \A t \in Streams \ {s} : Woken(h.wait, str[t], t)
    BY <2>k, <1>9 DEF Kept
  <2> QED BY <2>1, <2>2, <2>3, <2>4, <2>5, <1>11 DEF Kept
<1>13. Others(h, g, s)
  BY <1>9, <1>11 DEF Others
<1>14. n < x.left => Declined(g, s)
  <2>1. n < x.left => h.win - n = 0 \/ x.win - n <= 0
    BY <1>1, <1>h, StreamFields
  <2> QED BY <2>1, <1>7, <1>9, <1>11 DEF Declined
<1> QED BY <1>7, <1>9, <1>11, <1>12, <1>13, <1>14 DEF Sound, x, n

(* ngx_http_v2_send_chain, for a stream whose request answers.              *)
LEMMA SendChainSound ==
  ASSUME NEW h, NEW s \in Streams, Sound(h, s, s),
         h.str[s].st \in {"sent", "writing"}, ~h.str[s].err,
         NEW r \in ngx_http_v2_send_chain(h, s)
  PROVE  /\ Sound(r, s, s) /\ Others(h, r, s) /\ r.str[s].st = h.str[s].st
         /\ ~r.error =>
              ~r.str[s].err /\ (r.str[s].more => r.str[s].exhausted \/ s \in ToSet(r.wait))
<1> DEFINE x == h.str[s]
           n == Sendable(h, s)
           g == BodyQueued(h, s)
<1>h. h \in ConnRecs
  BY DEF Sound
<1>1. CASE ~x.more \/ x.outClosed
  <2>1. r = h
    BY <1>1 DEF ngx_http_v2_send_chain
  <2>2. ~h.error => ~x.more
    <3>1. ~h.error => StreamOk(x)
      BY DEF Sound, Kept
    <3> QED BY <3>1, <1>1 DEF StreamOk
  <2> QED BY <2>1, <2>2 DEF Others
<1>2. CASE ~(~x.more \/ x.outClosed) /\ x.left > 0 /\ Declined(h, s)
  <2>1. r = ngx_http_v2_flow_control(h, s)
    BY <1>2 DEF ngx_http_v2_send_chain
  <2>2. /\ Sound(r, s, s) /\ Others(h, r, s) /\ r.error = h.error
        /\ r.str[s].st = h.str[s].st /\ r.str[s].err = h.str[s].err
        /\ r.str[s].exhausted \/ s \in ToSet(r.wait)
    BY <1>2, <2>1, FlowSound
  <2> QED BY <2>2
<1>3. CASE ~(~x.more \/ x.outClosed) /\ ~(x.left > 0 /\ Declined(h, s))
  <2>1. PICK m \in ngx_http_v2_send_output_queue(g, s) :
          r = IF m.error THEN [m EXCEPT !.str[s].err = TRUE]
              ELSE IF n < x.left THEN ngx_http_v2_flow_control(m, s) ELSE m
    BY <1>3 DEF ngx_http_v2_send_chain, BodyQueued, Sendable
  <2>2. /\ Sound(g, s, s) /\ Others(h, g, s) /\ g.error = h.error
        /\ g.str[s].st = x.st /\ ~g.str[s].err
        /\ g.str[s].more = (n < x.left)
        /\ n < x.left => Declined(g, s)
    BY <1>3, BodyQueuedSound
  <2> HIDE DEF g, n
  <2>3. /\ m \in ConnRecs /\ m.phase = g.phase /\ m.todo = g.todo
        /\ \A t \in Streams : SameStage(g.str[t], m.str[t])
        /\ ~m.error => ~g.error /\ Went(g, m, s)
    <3>1. g \in ConnRecs /\ (~g.error => Accounted(g.out, g.str, g.win, g.credit))
      BY <2>2 DEF Sound, Kept
    <3> QED BY <3>1, <2>1, SendFacts
  <2>4. Others(h, m, s) /\ m.str[s].st = x.st
    BY <2>2, <2>3 DEF Others, SameStage
  <2>5. CASE m.error
    <3>1. r = [m EXCEPT !.str[s].err = TRUE]
      BY <2>1, <2>5
    <3>2. m.str \in [Streams -> StreamRecs] /\ m.str[s] \in StreamRecs
      BY <2>3, ConnFields
    <3> DEFINE y == [m.str[s] EXCEPT !.err = TRUE]
    <3>3. y \in StreamRecs /\ y.st = m.str[s].st
      BY <3>2 DEF StreamRecs
    <3>4. r = [m EXCEPT !.str[s] = y]
      BY <3>1
    <3> HIDE DEF y
    <3>5. /\ r \in ConnRecs /\ r.error = m.error /\ r.phase = m.phase /\ r.todo = m.todo
          /\ r.str = [m.str EXCEPT ![s] = y]
      BY <2>3, <3>3, <3>4 DEF ConnRecs
    <3>6. r.str[s] = y /\ \A t \in Streams \ {s} : r.str[t] = m.str[t]
      BY <3>2, <3>5
    <3> QED BY <2>4, <2>5, <3>3, <3>5, <3>6 DEF Sound, Others
  <2>6. CASE ~m.error
    <3>1. Kept(g, s, s) /\ Went(g, m, s) /\ g \in ConnRecs
      BY <2>2, <2>3, <2>6 DEF Sound
    <3>2. Sound(m, s, s)
      <4>1. Kept(m, s, s)
        BY <3>1, <2>3, WentKept
      <4> QED BY <4>1, <2>3 DEF Sound
    <3>3. /\ ~m.str[s].err /\ m.str[s].more = (n < x.left)
          /\ n < x.left => Declined(m, s)
      <4>1. SameStage(g.str[s], m.str[s]) /\ m.win = g.win
        BY <2>3, <3>1 DEF Went
      <4> QED BY <4>1, <2>2 DEF SameStage, Declined
    <3>4. CASE n < x.left
      <4>1. r = ngx_http_v2_flow_control(m, s) /\ m.str[s].st # "none"
        BY <2>1, <2>4, <2>6, <3>4
      <4>2. /\ Sound(r, s, s) /\ Others(m, r, s) /\ r.error = m.error
            /\ r.str[s].st = m.str[s].st /\ r.str[s].err = m.str[s].err
            /\ r.str[s].exhausted \/ s \in ToSet(r.wait)
        BY <4>1, <3>2, <3>3, <3>4, FlowSound
      <4> QED BY <4>2, <2>4, <3>3 DEF Others
    <3>5. CASE ~(n < x.left)
      BY <2>1, <2>4, <2>6, <3>2, <3>3, <3>5
    <3> QED BY <3>4, <3>5
  <2> QED BY <2>5, <2>6
<1> QED BY <1>1, <1>2, <1>3

(* It goes on in ngx_http_writer, when something is to wake it.             *)
LEMMA WritingSound ==
  ASSUME NEW h, NEW s \in Streams, Sound(h, s, s),
         h.str[s].st \in {"sent", "writing"},
         ~h.error => /\ ~h.str[s].err
                     /\ h.str[s].queued > 0 \/ h.str[s].exhausted \/ s \in ToSet(h.wait),
         NEW g, g = [h EXCEPT !.str[s].st = "writing"]
  PROVE  Sound(g, NoStream, NoStream) /\ Others(h, g, s)
<1> DEFINE y == [h.str[s] EXCEPT !.st = "writing"]
           str == [h.str EXCEPT ![s] = y]
<1>0. NoStream \notin Streams
  BY Http2Assumption
<1>h. /\ h \in ConnRecs /\ h.str \in [Streams -> StreamRecs] /\ h.out \in Seq(Frames)
      /\ h.str[s] \in StreamRecs /\ ToSet(h.wait) \subseteq Streams
  BY ConnFields DEF Sound
<1>1. /\ y \in StreamRecs /\ y.st = "writing" /\ y.queued = h.str[s].queued
      /\ y.more = h.str[s].more /\ y.exhausted = h.str[s].exhausted /\ y.err = h.str[s].err
      /\ y.win = h.str[s].win /\ y.outClosed = h.str[s].outClosed
  BY <1>h DEF StreamRecs
<1>2. g = [h EXCEPT !.str = str]
  BY <1>h DEF ConnRecs
<1> HIDE DEF y
<1>3. str[s] = y /\ (\A t \in Streams \ {s} : str[t] = h.str[t]) /\ str \in [Streams -> StreamRecs]
  BY <1>h, <1>1
<1> HIDE DEF str
<1>4. /\ g \in ConnRecs /\ g.error = h.error /\ g.out = h.out /\ g.wait = h.wait /\ g.str = str
      /\ g.win = h.win /\ g.credit = h.credit /\ g.phase = h.phase /\ g.todo = h.todo
  BY <1>h, <1>2, <1>3 DEF ConnRecs
<1>5. ASSUME ~h.error PROVE Kept(g, NoStream, NoStream)
  <2>k. Kept(h, s, s) /\ ~h.str[s].err
        /\ (h.str[s].queued > 0 \/ h.str[s].exhausted \/ s \in ToSet(h.wait))
    BY <1>5 DEF Sound
  <2>1. Accounted(h.out, str, h.win, h.credit)
    BY <2>k, <1>1, <1>3 DEF Kept, Accounted
  <2>2. QueueOk(h.out, str, NoStream)
    <3>1. ASSUME NEW f \in ToSet(h.out) PROVE FrameOk(str, f) /\ f.resets # s
      <4>1. FrameOk(h.str, f)
        BY <2>k DEF Kept, QueueOk
      <4> QED BY <4>1, <2>k, <1>1, <1>3 DEF FrameOk
    <3>2. ASSUME NEW e \in Frames, NEW f \in Frames, PairIn(h.out, e, f)
          PROVE  Before(str, NoStream, e, f)
      <4>1. Before(h.str, s, e, f) /\ e.resets # s
        BY <2>k, <3>1, <3>2, PairOfElements DEF Kept, QueueOk
      <4> QED BY <4>1, <1>3 DEF Before
    <3> QED BY <3>1, <3>2 DEF QueueOk
  <2>3. WaitOk(h.wait, str, h.win, h.phase, NoStream)
    BY <2>k, <1>h, <1>1, <1>3 DEF Kept, WaitOk
  <2>4. \A t \in Streams : StreamOk(str[t])
    <3>1. StreamOk(h.str[s])
      BY <2>k DEF Kept
    <3>2. StreamOk(y)
      BY <3>1, <1>1 DEF StreamOk
    <3> QED BY <3>2, <2>k, <1>3 DEF Kept
  <2>5. \A t \in Streams : Woken(h.wait, str[t], t)
    <3>1. Woken(h.wait, y, s)
      BY <2>k, <1>1 DEF Woken
    <3> QED BY <3>1, <2>k, <1>3 DEF Kept
  <2> QED BY <2>1, <2>2, <2>3, <2>4, <2>5, <1>4 DEF Kept
<1>6. Others(h, g, s)
  BY <1>3, <1>4 DEF Others
<1> QED BY <1>4, <1>5, <1>6 DEF Sound

LEMMA StreamWriterSound ==
  ASSUME NEW h, NEW s \in Streams, Sound(h, s, s), h.str[s].st \in {"sent", "writing"},
         NEW g \in StreamWriter(h, s)
  PROVE  Sound(g, NoStream, NoStream) /\ Others(h, g, s)
<1>1. CASE h.str[s].err
  BY <1>1, TerminateSound DEF StreamWriter
<1>2. CASE ~h.str[s].err
  <2>1. PICK r \in ngx_http_v2_send_chain(h, s) :
          g = IF r.str[s].err THEN Terminate(r, s)
              ELSE IF r.str[s].more \/ r.str[s].queued > 0
              THEN [r EXCEPT !.str[s].st = "writing"]
              ELSE ngx_http_v2_close_stream(r, s)
    BY <1>2 DEF StreamWriter
  <2>2. /\ Sound(r, s, s) /\ Others(h, r, s) /\ r.str[s].st = h.str[s].st
        /\ ~r.error =>
             ~r.str[s].err /\ (r.str[s].more => r.str[s].exhausted \/ s \in ToSet(r.wait))
    BY <1>2, SendChainSound
  <2>3. Sound(g, NoStream, NoStream) /\ Others(r, g, s)
    <3>1. CASE r.str[s].err
      BY <3>1, <2>1, <2>2, TerminateSound
    <3>2. CASE ~r.str[s].err /\ (r.str[s].more \/ r.str[s].queued > 0)
      <4>1. g = [r EXCEPT !.str[s].st = "writing"]
        BY <3>2, <2>1
      <4> QED BY <4>1, <3>2, <2>2, WritingSound
    <3>3. CASE ~r.str[s].err /\ ~(r.str[s].more \/ r.str[s].queued > 0)
      <4>1. g = ngx_http_v2_close_stream(r, s)
        BY <3>3, <2>1
      <4>2. Removable(r, s)
        BY <3>3 DEF Removable
      <4> QED BY <4>1, <4>2, <2>2, CloseSound
    <3> QED BY <3>1, <3>2, <3>3
  <2> QED BY <2>2, <2>3 DEF Others
<1> QED BY <1>1, <1>2

(* The write handler of a stream, which needs nothing else to wake it.      *)
LEMMA WriteHandlerSound ==
  ASSUME NEW h, NEW s \in Streams, Sound(h, NoStream, s), NEW g \in WriteHandler(h, s)
  PROVE  Sound(g, NoStream, NoStream) /\ Others(h, g, s)
<1>0. NoStream \notin Streams
  BY Http2Assumption
<1>1. CASE h.str[s].st = "writing"
  <2>1. g \in StreamWriter(h, s)
    BY <1>1 DEF WriteHandler
  <2>2. Sound(h, s, s)
    BY SoundWeaker
  <2> QED BY <1>1, <2>1, <2>2, StreamWriterSound
<1>2. CASE h.str[s].st = "closing"
  <2>1. g = ngx_http_v2_close_stream(h, s)
    BY <1>2 DEF WriteHandler
  <2>2. ~h.error => Removable(h, s)
    BY <1>0, <1>2 DEF Sound, Kept, QueueOk, FrameOk, WaitOk, Removable
  <2>3. Sound(h, s, s)
    BY SoundWeaker
  <2> QED BY <2>1, <2>2, <2>3, CloseSound
<1>3. CASE h.str[s].st \notin {"writing", "closing"}
  <2>1. g = h
    BY <1>3 DEF WriteHandler
  <2>2. Sound(h, NoStream, NoStream)
    BY <1>0, <1>3 DEF Sound, Kept, Woken
  <2> QED BY <2>1, <2>2 DEF Others
<1> QED BY <1>1, <1>2, <1>3
-----------------------------------------------------------------------------
(* The handlers of the connection.                                          *)
LEMMA SendSound ==
  ASSUME NEW h, Sound(h, NoStream, NoStream),
         NEW r \in ngx_http_v2_send_output_queue(h, NoStream)
  PROVE  Sound(r, NoStream, NoStream) /\ r.phase = h.phase
<1>0. NoStream \notin Streams
  BY Http2Assumption
<1>1. /\ h \in ConnRecs /\ (~h.error => Accounted(h.out, h.str, h.win, h.credit))
  BY DEF Sound, Kept
<1>2. /\ r \in ConnRecs /\ r.phase = h.phase
      /\ ~r.error => ~h.error /\ Went(h, r, NoStream)
  BY <1>1, SendFacts
<1>3. ASSUME ~r.error PROVE Kept(r, NoStream, NoStream)
  <2>1. Kept(h, NoStream, NoStream) /\ Went(h, r, NoStream)
    BY <1>2, <1>3 DEF Sound
  <2> QED BY <2>1, <1>0, <1>1, <1>2, WentKept
<1> QED BY <1>2, <1>3 DEF Sound

(* What a handler for a stream leaves is the invariant, when no loop runs.  *)
LEMMA HandlerInv ==
  ASSUME NEW h, NEW s, NEW g, Others(h, g, s), Sound(g, NoStream, NoStream),
         h.phase = "" \/ h.phase = "reading"
  PROVE  HtInv(g)
  BY DEF HtInv, Others

LEMMA ClosedInv ==
  ASSUME NEW h \in ConnRecs
  PROVE  HtInv(H2Closed(h))
<1> DEFINE g == H2Closed(h)
<1>1. <<>> \in Seq(Frames)
  OBVIOUS
<1>2. g \in ConnRecs /\ g.error /\ g.phase = ""
  BY <1>1 DEF H2Closed, ConnRecs
<1> QED BY <1>2 DEF HtInv, Sound

LEMMA FinalizeInv ==
  ASSUME NEW h, Sound(h, NoStream, NoStream), h.phase # "waking",
         NEW r \in ngx_http_v2_finalize_connection(h)
  PROVE  HtInv(r)
<1> DEFINE c == ngx_http_v2_queue_blocked_frame(h, Control)
           d == [c EXCEPT !.phase = "final"]
<1>1. PICK g \in (IF h.error \/ h.goaway THEN {h}
                  ELSE ngx_http_v2_send_output_queue(d, NoStream)) :
        r = IF Processing(g) = {} THEN H2Closed(g)
            ELSE [g EXCEPT !.st = "ending", !.error = TRUE, !.out = <<>>, !.wait = <<>>,
                           !.rev = FALSE, !.wev = FALSE,
                           !.phase = "final", !.todo = Processing(g)]
  BY DEF ngx_http_v2_finalize_connection
<1>2. Sound(c, NoStream, NoStream) /\ c.phase = h.phase
  <2>1. Sound(c, NoStream, NoStream) /\ \E o \in Seq(Frames) : c = [h EXCEPT !.out = o]
    BY QueueControl
  <2> HIDE DEF c
  <2> QED BY <2>1 DEF Sound, ConnRecs
<1>3. Sound(d, NoStream, NoStream)
  <2> HIDE DEF c
  <2>1. /\ d \in ConnRecs /\ d.error = c.error /\ d.out = c.out /\ d.wait = c.wait
        /\ d.str = c.str /\ d.win = c.win /\ d.credit = c.credit
    BY <1>2 DEF Sound, ConnRecs
  <2> HIDE DEF d
  <2> QED BY <1>2, <2>1, SoundSame
<1> HIDE DEF c, d
<1>4. g \in ConnRecs
  <2>1. Sound(g, NoStream, NoStream)
    BY <1>1, <1>3, SendSound
  <2> QED BY <2>1 DEF Sound
<1>5. CASE Processing(g) = {}
  BY <1>1, <1>4, <1>5, ClosedInv
<1>6. CASE Processing(g) # {}
  <2>1. r = [g EXCEPT !.st = "ending", !.error = TRUE, !.out = <<>>, !.wait = <<>>,
                      !.rev = FALSE, !.wev = FALSE, !.phase = "final", !.todo = Processing(g)]
    BY <1>1, <1>6
  <2>2. Processing(g) \in SUBSET Streams /\ <<>> \in Seq(Frames) /\ <<>> \in Seq(Streams)
    BY DEF Processing
  <2>3. r \in ConnRecs /\ r.error /\ r.phase = "final" /\ r.todo = Processing(g) /\ r.str = g.str
    BY <1>4, <2>1, <2>2 DEF ConnRecs
  <2> QED BY <2>3 DEF HtInv, Sound, Processing
<1> QED BY <1>5, <1>6

LEMMA ConnectionInv ==
  ASSUME NEW h, Sound(h, NoStream, NoStream), h.phase = ""
  PROVE  HtInv(ngx_http_v2_handle_connection(h))
<1>h. h \in ConnRecs
  BY DEF Sound
<1>1. HtInv(h)
  BY DEF HtInv
<1>2. HtInv(H2Closed(h))
  BY <1>h, ClosedInv
<1> DEFINE g == [h EXCEPT !.st = "idle"]
<1>3. HtInv(g)
  <2>1. /\ g \in ConnRecs /\ g.error = h.error /\ g.out = h.out /\ g.wait = h.wait
        /\ g.str = h.str /\ g.win = h.win /\ g.credit = h.credit /\ g.phase = h.phase
    BY <1>h DEF ConnRecs
  <2> HIDE DEF g
  <2>2. Sound(g, NoStream, NoStream)
    BY <2>1, SoundSame
  <2> QED BY <2>1, <2>2 DEF HtInv
<1> QED BY <1>1, <1>2, <1>3 DEF ngx_http_v2_handle_connection

(* The phase is left, or another begins.                                    *)
LEMMA PhaseSound ==
  ASSUME NEW h, Sound(h, NoStream, NoStream), h.phase # "waking",
         NEW p \in {"", "reading", "writing"}
  PROVE  Sound([h EXCEPT !.phase = p], NoStream, NoStream) /\ [h EXCEPT !.phase = p].phase = p
         /\ [h EXCEPT !.phase = p].error = h.error /\ [h EXCEPT !.phase = p].out = h.out
         /\ [h EXCEPT !.phase = p].ready = h.ready
<1> DEFINE g == [h EXCEPT !.phase = p]
<1>1. /\ g \in ConnRecs /\ g.error = h.error /\ g.out = h.out /\ g.wait = h.wait
      /\ g.str = h.str /\ g.win = h.win /\ g.credit = h.credit /\ g.phase = p
      /\ g.ready = h.ready
  BY DEF Sound, ConnRecs
<1> HIDE DEF g
<1>2. Sound(g, NoStream, NoStream)
  BY <1>1, SoundSame
<1> QED BY <1>1, <1>2 DEF g

LEMMA OneMore == \A k \in Nat : k + 1 \in Nat
  OBVIOUS

LEMMA ReadIs ==
  ASSUME NEW h, HtInv(h), h.phase \in {"", "reading"}, NEW g \in {Read(h), Again(h)}
  PROVE  /\ Sound(g, NoStream, NoStream) /\ g.phase = "reading" /\ g.str = h.str /\ g.win = h.win
         /\ g.out = h.out /\ g.wait = h.wait /\ g.init = h.init /\ g.error = h.error
         /\ HtInv(g)
<1>1. Sound(h, NoStream, NoStream) /\ h \in ConnRecs
  BY DEF HtInv, Sound
<1>2. /\ g \in ConnRecs /\ g.error = h.error /\ g.out = h.out /\ g.wait = h.wait /\ g.str = h.str
      /\ g.win = h.win /\ g.credit = h.credit /\ g.phase = "reading" /\ g.init = h.init
  <2>1. CASE g = Read(h)
    BY <1>1, <2>1 DEF Read, ConnRecs
  <2>2. CASE g = Again(h)
    <3>1. h.frames + 1 \in Nat
      <4>1. h.frames \in Nat
        BY <1>1, ConnFields
      <4> QED BY <4>1, OneMore, Zenon
    <3>2. g = [h EXCEPT !.st = "open", !.phase = "reading", !.frames = h.frames + 1]
      BY <1>1, <2>2 DEF Again, Read, ConnRecs
    <3> QED BY <1>1, <3>1, <3>2 DEF ConnRecs
  <2> QED BY <2>1, <2>2
<1>3. Sound(g, NoStream, NoStream)
  BY <1>1, <1>2, SoundSame
<1> QED BY <1>2, <1>3 DEF HtInv
-----------------------------------------------------------------------------
(* The steps of a stream.                                                   *)
Quiet(h) == HtInv(h) /\ h.phase = ""

LEMMA BodyInv ==
  ASSUME NEW s \in Streams, Quiet(h2), Body(s)
  PROVE  HtInv(h2')
<1>1. Sound(h2, s, s)
  BY SoundWeaker DEF Quiet, HtInv
<1>2. Sound(h2', NoStream, NoStream) /\ Others(h2, h2', s)
  BY <1>1, StreamWriterSound DEF Body
<1> QED BY <1>2, HandlerInv DEF Quiet

LEMMA EndInv ==
  ASSUME NEW s \in Streams, Quiet(h2), h2' = Terminate(h2, s)
  PROVE  HtInv(h2')
<1>1. Sound(h2, s, s)
  BY SoundWeaker DEF Quiet, HtInv
<1>2. Sound(h2', NoStream, NoStream) /\ Others(h2, h2', s)
  BY <1>1, TerminateSound
<1> QED BY <1>2, HandlerInv DEF Quiet

LEMMA PostedWriteInv ==
  ASSUME NEW s \in Streams, Quiet(h2), PostedWrite(s)
  PROVE  HtInv(h2')
<1> DEFINE y == [h2.str[s] EXCEPT !.posted = FALSE]
           h == [h2 EXCEPT !.str[s] = y]
<1>h. h2 \in ConnRecs /\ Sound(h2, NoStream, NoStream) /\ h2.str[s] \in StreamRecs
      /\ h2.str \in [Streams -> StreamRecs]
  BY ConnFields DEF Quiet, HtInv, Sound
<1>1. h2' \in WriteHandler(h, s)
  BY DEF PostedWrite
<1>2. /\ y \in StreamRecs /\ y.st = h2.str[s].st /\ y.queued = h2.str[s].queued
      /\ y.err = h2.str[s].err /\ y.more = h2.str[s].more /\ y.exhausted = h2.str[s].exhausted
      /\ y.outClosed = h2.str[s].outClosed /\ y.win = h2.str[s].win
  BY <1>h DEF StreamRecs
<1> HIDE DEF y
<1>3. Sound(h, NoStream, s)
  <2>1. ~h2.error => StreamOk(h2.str[s])
    BY <1>h DEF Sound, Kept
  <2>2. ~h2.error => StreamOk(y)
    BY <2>1, <1>2 DEF StreamOk
  <2> QED BY <1>h, <1>2, <2>2, StreamChangeSound
<1>4. h.phase = h2.phase /\ h.todo = h2.todo /\ \A t \in Streams \ {s} : h.str[t] = h2.str[t]
  BY <1>h DEF ConnRecs
<1> HIDE DEF h
<1>5. Sound(h2', NoStream, NoStream) /\ Others(h, h2', s)
  BY <1>1, <1>3, WriteHandlerSound
<1>6. Others(h2, h2', s)
  BY <1>4, <1>5 DEF Others
<1> QED BY <1>5, <1>6, HandlerInv DEF Quiet

(* HEADERS of a new stream.                                                 *)
LEMMA CreateInv ==
  ASSUME NEW s \in Streams, HtInv(h2), ngx_http_v2_create_stream(s)
  PROVE  HtInv(h2')
<1> DEFINE h == Read(h2)
           y == [h.str[s] EXCEPT !.st = "open", !.win = h2.init, !.inClosed = s \notin Uploads]
           str == [h.str EXCEPT ![s] = y]
<1>0. NoStream \notin Streams
  BY Http2Assumption
<1>1. /\ Sound(h, NoStream, NoStream) /\ h.phase = "reading" /\ h.str = h2.str
  BY ReadIs DEF ngx_http_v2_create_stream, CanRead
<1>h. /\ h \in ConnRecs /\ h.str \in [Streams -> StreamRecs] /\ h.out \in Seq(Frames)
      /\ h.str[s] \in StreamRecs /\ h2.init \in Nat /\ ToSet(h.wait) \subseteq Streams
  BY <1>1, ConnFields DEF Sound, HtInv
<1>2. h.str[s].st = "none"
  BY <1>1 DEF ngx_http_v2_create_stream
<1>3. h2' = [h EXCEPT !.str[s].st = "open", !.str[s].win = h2.init,
                      !.str[s].inClosed = s \notin Uploads]
  BY DEF ngx_http_v2_create_stream
<1> HIDE DEF h
<1>4. /\ y \in StreamRecs /\ y.st = "open" /\ y.queued = h.str[s].queued
      /\ y.err = h.str[s].err /\ y.more = h.str[s].more /\ y.exhausted = h.str[s].exhausted
      /\ y.outClosed = h.str[s].outClosed
  <2>1. h2.init \in Int /\ (s \notin Uploads) \in BOOLEAN
    BY <1>h
  <2> QED BY <1>h, <2>1 DEF StreamRecs
<1>5. h2' = [h EXCEPT !.str = str]
  BY <1>h, <1>3 DEF ConnRecs
<1> HIDE DEF y
<1>6. str[s] = y /\ (\A t \in Streams \ {s} : str[t] = h.str[t]) /\ str \in [Streams -> StreamRecs]
  BY <1>h, <1>4
<1> HIDE DEF str
<1>7. /\ h2' \in ConnRecs /\ h2'.error = h.error /\ h2'.out = h.out /\ h2'.wait = h.wait
      /\ h2'.str = str /\ h2'.win = h.win /\ h2'.credit = h.credit /\ h2'.phase = h.phase
  BY <1>h, <1>5, <1>6 DEF ConnRecs
<1>8. ASSUME ~h.error PROVE Kept(h2', NoStream, NoStream)
  <2>k. Kept(h, NoStream, NoStream)
    BY <1>1, <1>8 DEF Sound
  <2>0. StreamOk(h.str[s])
    BY <2>k DEF Kept
  <2>1. Accounted(h.out, str, h.win, h.credit)
    BY <2>k, <1>4, <1>6 DEF Kept, Accounted
  <2>2. QueueOk(h.out, str, NoStream)
    <3>1. \A f \in ToSet(h.out) : f.stream # s
      <4>1. h.str[s].queued = 0
        BY <2>0, <1>2 DEF StreamOk
      <4>2. Len(Chosen(h.out, OfStream(s))) = 0
        BY <2>k, <4>1 DEF Kept, Accounted
      <4> QED BY <4>2, <1>h, FramesAre
    <3>2. ASSUME NEW f \in ToSet(h.out) PROVE FrameOk(str, f)
      <4>1. FrameOk(h.str, f) /\ f.stream # s
        BY <2>k, <3>1 DEF Kept, QueueOk
      <4>2. ~h.str[s].err
        BY <2>0, <1>2 DEF StreamOk
      <4> QED BY <4>1, <4>2, <1>2, <1>6 DEF FrameOk
    <3>3. ASSUME NEW e \in Frames, NEW f \in Frames, PairIn(h.out, e, f)
          PROVE  Before(str, NoStream, e, f)
      <4>1. Before(h.str, NoStream, e, f) /\ f.stream # s
        BY <2>k, <3>1, <3>3, PairOfElements DEF Kept, QueueOk
      <4> QED BY <4>1, <1>6 DEF Before
    <3> QED BY <3>2, <3>3 DEF QueueOk
  <2>3. WaitOk(h.wait, str, h.win, h.phase, NoStream)
    BY <2>k, <1>0, <1>h, <1>2, <1>6 DEF Kept, WaitOk
  <2>4. \A t \in Streams : StreamOk(str[t])
    <3>1. StreamOk(y)
      BY <2>0, <1>2, <1>4 DEF StreamOk
    <3> QED BY <3>1, <2>k, <1>6 DEF Kept
  <2>5. \A t \in Streams : Woken(h.wait, str[t], t)
    <3>1. Woken(h.wait, y, s)
      BY <1>4 DEF Woken
    <3> QED BY <3>1, <2>k, <1>0, <1>6 DEF Kept
  <2> QED BY <2>1, <2>2, <2>3, <2>4, <2>5, <1>7 DEF Kept
<1> QED BY <1>1, <1>7, <1>8 DEF HtInv, Sound

(* RST_STREAM.                                                              *)
LEMMA RstInv ==
  ASSUME NEW s \in Streams, HtInv(h2), ngx_http_v2_state_rst_stream(s)
  PROVE  HtInv(h2')
<1> DEFINE h == Again(h2)
           y == [h.str[s] EXCEPT !.inClosed = TRUE, !.outClosed = TRUE, !.err = TRUE]
           g == [h EXCEPT !.str[s] = y]
<1>0. NoStream \notin Streams
  BY Http2Assumption
<1>1. /\ Sound(h, NoStream, NoStream) /\ h.phase = "reading" /\ h.str = h2.str
  BY ReadIs DEF ngx_http_v2_state_rst_stream, CanRead
<1>h. h \in ConnRecs /\ h.str \in [Streams -> StreamRecs] /\ h.str[s] \in StreamRecs
  BY <1>1, ConnFields DEF Sound
<1>2. h.str[s].st \notin {"none", "closed"}
  BY <1>1 DEF ngx_http_v2_state_rst_stream, Processing
<1>3. h2' \in Noticed([h EXCEPT !.str[s].inClosed = TRUE, !.str[s].outClosed = TRUE,
                                !.str[s].err = TRUE], s)
  BY DEF ngx_http_v2_state_rst_stream
<1> HIDE DEF h
<1>4. [h EXCEPT !.str[s].inClosed = TRUE, !.str[s].outClosed = TRUE, !.str[s].err = TRUE] = g
  BY <1>h DEF ConnRecs
<1>5. /\ y \in StreamRecs /\ y.st = h.str[s].st /\ y.queued = h.str[s].queued
      /\ y.err /\ y.more = h.str[s].more /\ y.exhausted = h.str[s].exhausted
      /\ y.posted = h.str[s].posted /\ y.win = h.str[s].win
  BY <1>h DEF StreamRecs
<1> HIDE DEF y
<1>6. Sound(g, NoStream, NoStream)
  <2>1. ~h.error => StreamOk(h.str[s]) /\ Woken(h.wait, h.str[s], s)
    BY <1>0, <1>1 DEF Sound, Kept
  <2>2. ~h.error => StreamOk(y) /\ Woken(h.wait, y, s)
    BY <2>1, <1>2, <1>5 DEF StreamOk, Woken
  <2> QED BY <1>1, <1>5, <2>2, StreamChangeSound
<1>7. /\ g.phase = h.phase /\ g.todo = h.todo /\ g.str[s].st = h.str[s].st
      /\ \A t \in Streams \ {s} : g.str[t] = h.str[t]
  BY <1>h, <1>5 DEF ConnRecs
<1> HIDE DEF g
<1>8. Sound(g, s, s)
  BY <1>6, SoundWeaker
<1>9. Sound(h2', NoStream, NoStream) /\ Others(g, h2', s)
  BY <1>2, <1>3, <1>4, <1>6, <1>7, <1>8, NoticedSound
<1> QED BY <1>1, <1>7, <1>9, HandlerInv

(* WINDOW_UPDATE of a stream.                                               *)
LEMMA StreamWindowInv ==
  ASSUME NEW s \in Streams, HtInv(h2), StreamWindow(s)
  PROVE  HtInv(h2')
<1> DEFINE h == Again(h2)
           x == h.str[s]
           y(n) == [x EXCEPT !.win = @ + n, !.exhausted = FALSE]
           g(n) == [h EXCEPT !.str[s] = y(n)]
<1>0. NoStream \notin Streams
  BY Http2Assumption
<1>1. Sound(h, NoStream, NoStream) /\ h.phase = "reading" /\ h.str = h2.str
  BY ReadIs DEF StreamWindow, CanRead
<1>h. h \in ConnRecs /\ h.str \in [Streams -> StreamRecs] /\ x \in StreamRecs
  BY <1>1, ConnFields DEF Sound
<1>2. x.st \notin {"none", "closed"}
  BY <1>1 DEF StreamWindow, Processing
<1>3. PICK n \in 0..MaxWindow :
        h2' \in IF n = 0 \/ n > MaxWindow - x.win THEN ngx_http_v2_terminate_stream(h, s)
                ELSE IF x.exhausted
                THEN WriteHandler([h EXCEPT !.str[s].win = @ + n, !.str[s].exhausted = FALSE], s)
                ELSE {[h EXCEPT !.str[s].win = @ + n, !.str[s].exhausted = FALSE]}
  BY DEF StreamWindow
<1> HIDE DEF h
<1>4. [h EXCEPT !.str[s].win = @ + n, !.str[s].exhausted = FALSE] = g(n)
  BY <1>h DEF ConnRecs
<1>5. /\ y(n) \in StreamRecs /\ y(n).st = x.st /\ y(n).queued = x.queued
      /\ y(n).err = x.err /\ y(n).more = x.more /\ y(n).exhausted = FALSE
      /\ y(n).posted = x.posted /\ y(n).outClosed = x.outClosed
  <2>1. x.win + n \in Int
    <3>1. x.win \in Int /\ n \in Int
      BY <1>h, StreamFields
    <3> QED BY <3>1
  <2> HIDE DEF x
  <2> QED BY <1>h, <2>1 DEF StreamRecs
<1>6. g(n).phase = h.phase /\ g(n).todo = h.todo /\ \A t \in Streams \ {s} : g(n).str[t] = h.str[t]
  BY <1>h DEF ConnRecs
<1> HIDE DEF y
<1>7. ~h.error => StreamOk(x) /\ Woken(h.wait, x, s)
  BY <1>0, <1>1 DEF Sound, Kept
<1>8. ~h.error => StreamOk(y(n)) /\ (~x.exhausted => Woken(h.wait, y(n), s))
  BY <1>2, <1>5, <1>7 DEF StreamOk, Woken
<1>9. Sound(g(n), NoStream, s) /\ (~x.exhausted => Sound(g(n), NoStream, NoStream))
  BY <1>1, <1>5, <1>8, StreamChangeSound
<1> HIDE DEF g
<1>10. CASE n = 0 \/ n > MaxWindow - x.win
  <2>1. Sound(h2', NoStream, NoStream) /\ Others(h, h2', s)
    BY <1>1, <1>2, <1>3, <1>10, TerminateStreamSound
  <2> QED BY <2>1, <1>1, HandlerInv
<1>11. CASE ~(n = 0 \/ n > MaxWindow - x.win) /\ x.exhausted
  <2>1. h2' \in WriteHandler(g(n), s)
    BY <1>3, <1>4, <1>11
  <2>2. Sound(h2', NoStream, NoStream) /\ Others(g(n), h2', s)
    BY <2>1, <1>9, WriteHandlerSound
  <2> QED BY <2>2, <1>1, <1>6, HandlerInv
<1>12. CASE ~(n = 0 \/ n > MaxWindow - x.win) /\ ~x.exhausted
  <2>1. h2' = g(n)
    BY <1>3, <1>4, <1>12
  <2> QED BY <2>1, <1>1, <1>6, <1>9, <1>12 DEF HtInv
<1> QED BY <1>10, <1>11, <1>12

(* ngx_http_v2_header_filter.  The header is queued for a stream that is    *)
(* open; what is kept is so for the stream as it is when the header has     *)
(* gone to the queue, h.                                                    *)
LEMMA HeaderKept ==
  ASSUME NEW c \in ConnRecs, NEW s \in Streams, Kept(c, NoStream, NoStream),
         c.str[s].st = "open", ~c.str[s].err,
         NEW only \in BOOLEAN, NEW y \in StreamRecs,
         y.st = "sent", y.more = ~only, y.queued = c.str[s].queued + 1,
         y.exhausted = c.str[s].exhausted, y.win = c.str[s].win,
         y.outClosed = c.str[s].outClosed, y.err = c.str[s].err,
         NEW k \in 0..Len(c.out), NEW out, out = InsertAfter(c.out, k, <<HeadersFrame(s, only)>>),
         \A b \in DOMAIN c.out : b > k => ~c.out[b].blocked /\ c.out[b].stream \in Streams
  PROVE  Kept([c EXCEPT !.out = out, !.str[s] = y], NoStream, NoStream)
<1> DEFINE f == HeadersFrame(s, only)
           str == [c.str EXCEPT ![s] = y]
           new == <<f>>
           h == [c EXCEPT !.out = out, !.str[s] = y]
<1>0. NoStream \notin Streams
  BY Http2Assumption
<1>h. /\ c.str \in [Streams -> StreamRecs] /\ c.out \in Seq(Frames) /\ c.win \in Nat
      /\ ToSet(c.wait) \subseteq Streams /\ ToSet(c.out) \subseteq Frames
  BY ConnFields
<1>1. /\ f \in Frames /\ f.stream = s /\ f.resets = NoStream /\ ~f.begun
      /\ f.blocked /\ f.fin = only /\ f.len = 0 /\ f.kind = "headers"
  BY HeaderFrame
<1> HIDE DEF f
<1>2. /\ new \in Seq(Frames) /\ ToSet(new) = {f} /\ Lens(new) = 0
      /\ \A a, b : ~PairIn(new, a, b)
  BY <1>1, OneFrame, OneChosen, LensOfOne
<1>3. \A t \in Streams : Len(Chosen(new, OfStream(t))) = IF t = s THEN 1 ELSE 0
  <2>1. \A t \in Streams : Chosen(new, OfStream(t)) = IF t = s THEN new ELSE <<>>
    BY <1>1, OneChosen, OfStreamOnly
  <2>2. Len(new) = 1
    OBVIOUS
  <2> HIDE DEF new
  <2> QED BY <2>1, <2>2
<1> HIDE DEF new
<1>4. out = InsertAfter(c.out, k, new) /\ out \in Seq(Frames)
  <2>1. out = InsertAfter(c.out, k, new)
    BY DEF new, f
  <2> QED BY <2>1, <1>2, <1>h, InsertFacts DEF Inserted
<1>5. /\ h.error = c.error /\ h.out = out /\ h.wait = c.wait /\ h.str = str
      /\ h.win = c.win /\ h.credit = c.credit /\ h.phase = c.phase
  BY DEF ConnRecs
<1> HIDE DEF h
<1>6. str[s] = y /\ (\A t \in Streams \ {s} : str[t] = c.str[t]) /\ str \in [Streams -> StreamRecs]
  BY <1>h
<1> HIDE DEF str
<1>7. StreamOk(c.str[s]) /\ c.str[s].queued = 0 /\ ~c.str[s].outClosed
  BY DEF Kept, StreamOk
<1>8. \A e \in ToSet(c.out) : FrameOk(c.str, e) /\ e.stream # s /\ e.resets # s
  <2>1. Len(Chosen(c.out, OfStream(s))) = 0
    BY <1>7 DEF Kept, Accounted
  <2>2. \A e \in ToSet(c.out) : e.stream # s
    BY <2>1, <1>h, FramesAre
  <2>3. \A e \in ToSet(c.out) : FrameOk(c.str, e)
    BY DEF Kept, QueueOk
  <2> QED BY <2>2, <2>3 DEF FrameOk
<1>9. Accounted(out, str, c.win, c.credit)
  <2>1. \A t \in Streams :
          c.str[t].queued \in Int
          /\ str[t].queued = c.str[t].queued + Len(Chosen(new, OfStream(t)))
    <3>1. \A t \in Streams : c.str[t].queued \in Int
      BY <1>h, StreamFields
    <3>2. str[s].queued = c.str[s].queued + 1 /\ Len(Chosen(new, OfStream(s))) = 1
      BY <1>3, <1>6
    <3>3. ASSUME NEW t \in Streams \ {s}
          PROVE  str[t].queued = c.str[t].queued + Len(Chosen(new, OfStream(t)))
      <4>1. str[t].queued = c.str[t].queued /\ Len(Chosen(new, OfStream(t))) = 0
        BY <1>3, <1>6
      <4> QED BY <3>1, <4>1
    <3> QED BY <3>1, <3>2, <3>3
  <2>2. c.win = c.win + Lens(new)
    BY <1>2, <1>h
  <2>3. Accounted(c.out, c.str, c.win, c.credit)
    BY DEF Kept
  <2>4. Accounted(InsertAfter(c.out, k, new), str, c.win, c.credit)
    BY <2>1, <2>2, <2>3, <1>2, <1>h, AccountedInsert
  <2> QED BY <2>4, <1>4
<1>10. QueueOk(out, str, NoStream)
  <2>1. QueueOk(c.out, str, NoStream)
    <3>1. \A e \in ToSet(c.out) : FrameOk(str, e)
      BY <1>6, <1>8 DEF FrameOk
    <3>2. ASSUME NEW e \in Frames, NEW g \in Frames, PairIn(c.out, e, g)
          PROVE  Before(str, NoStream, e, g)
      <4>1. Before(c.str, NoStream, e, g) /\ g.stream # s
        BY <1>8, <3>2, PairOfElements DEF Kept, QueueOk
      <4> QED BY <4>1, <1>6 DEF Before
    <3> QED BY <3>1, <3>2 DEF QueueOk
  <2>2. \A g \in ToSet(new) : FrameOk(str, g)
    BY <1>0, <1>1, <1>2, <1>6 DEF FrameOk
  <2>3. \A e, g \in Frames : PairIn(new, e, g) => Before(str, NoStream, e, g)
    BY <1>2
  <2>4. \A e \in ToSet(c.out), g \in ToSet(new) : Before(str, NoStream, e, g)
    BY <1>1, <1>2, <1>8 DEF Before
  <2>5. \A e \in ToSet(new), b \in DOMAIN c.out : b > k => Before(str, NoStream, e, c.out[b])
    <3>1. \A b \in DOMAIN c.out : c.out[b] \in ToSet(c.out)
      BY DEF ToSet
    <3>2. \A b \in DOMAIN c.out : b > k => ~c.out[b].begun /\ c.out[b].stream # s
      BY <3>1, <1>8 DEF FrameOk
    <3> QED BY <3>2, <1>0, <1>1, <1>2 DEF Before
  <2> QED BY <2>1, <2>2, <2>3, <2>4, <2>5, <1>2, <1>4, <1>h, QueueInsert
<1>11. WaitOk(c.wait, str, c.win, c.phase, NoStream)
  BY <1>0, <1>h, <1>6 DEF Kept, WaitOk
<1>12. \A t \in Streams : StreamOk(str[t])
  <2>1. StreamOk(y)
    BY <1>7 DEF StreamOk
  <2> QED BY <2>1, <1>6 DEF Kept
<1>13. \A t \in Streams : Woken(c.wait, str[t], t)
  <2>1. Woken(c.wait, y, s)
    BY DEF Woken
  <2> QED BY <2>1, <1>0, <1>6 DEF Kept
<1>14. Kept(h, NoStream, NoStream)
  BY <1>0, <1>5, <1>9, <1>10, <1>11, <1>12, <1>13 DEF Kept
<1> QED BY <1>14 DEF h

LEMMA HeaderInv ==
  ASSUME NEW s \in Streams, Quiet(h2), ngx_http_v2_header_filter(s)
  PROVE  HtInv(h2')
<1> DEFINE x == h2.str[s]
<1>0. NoStream \notin Streams
  BY Http2Assumption
<1>h. /\ h2 \in ConnRecs /\ Sound(h2, NoStream, NoStream) /\ x \in StreamRecs
      /\ h2.str \in [Streams -> StreamRecs] /\ h2.out \in Seq(Frames) /\ x.queued \in Int
  BY ConnFields, StreamFields DEF Quiet, HtInv, Sound
<1>1. CASE x.err
  BY <1>1, EndInv DEF ngx_http_v2_header_filter
<1>2. CASE ~x.err
  <2>0. PICK a \in Answers[s] :
          \E g \in ngx_http_v2_send_output_queue(
                     [ngx_http_v2_queue_blocked_frame(h2, HeadersFrame(s, a.only)) EXCEPT
                        !.str[s].queued = @ + 1], s) :
            h2' = IF g.error THEN Terminate([g EXCEPT !.str[s].err = TRUE], s)
                  ELSE [g EXCEPT !.str[s].st = "sent", !.str[s].left = a.units,
                                 !.str[s].more = ~a.only, !.str[s].trailers = a.trailers]
    BY <1>2 DEF ngx_http_v2_header_filter
  <2>1. PICK g \in ngx_http_v2_send_output_queue(
                     [ngx_http_v2_queue_blocked_frame(h2, HeadersFrame(s, a.only)) EXCEPT
                        !.str[s].queued = @ + 1], s) :
          h2' = IF g.error THEN Terminate([g EXCEPT !.str[s].err = TRUE], s)
                ELSE [g EXCEPT !.str[s].st = "sent", !.str[s].left = a.units,
                               !.str[s].more = ~a.only, !.str[s].trailers = a.trailers]
    BY <2>0
  <2>a. a.units \in Nat /\ a.only \in BOOLEAN /\ a.trailers \in BOOLEAN
    BY Http2Assumption
  <2> DEFINE f == HeadersFrame(s, a.only)
  <2>2. f \in Frames
    BY <2>a, HeaderFrame
  <2>3. PICK k \in 0..Len(h2.out) :
          /\ ngx_http_v2_queue_blocked_frame(h2, f)
               = [h2 EXCEPT !.out = InsertAfter(h2.out, k, <<f>>)]
          /\ \A b \in DOMAIN h2.out : b > k => ~h2.out[b].blocked /\ h2.out[b].stream \in Streams
    <3> HIDE DEF f
    <3> QED BY <1>h, <2>2, QueuesBlocked
  <2> DEFINE out == InsertAfter(h2.out, k, <<f>>)
             z == [x EXCEPT !.queued = @ + 1]
             c == [h2 EXCEPT !.out = out, !.str[s] = z]
             sent(u) == [u EXCEPT !.st = "sent", !.left = a.units, !.more = ~a.only,
                                  !.trailers = a.trailers]
             h == [h2 EXCEPT !.out = out, !.str[s] = sent(z)]
  <2>o. out \in Seq(Frames)
    <3> HIDE DEF f
    <3> QED BY <1>h, <2>2, OneChosen, InsertFacts DEF Inserted
  <2>4. z \in StreamRecs /\ z.queued = x.queued + 1 /\ z.st = x.st
    <3>1. x.queued + 1 \in Int
      BY <1>h
    <3> HIDE DEF x
    <3> QED BY <1>h, <3>1 DEF StreamRecs
  <2>5. g \in ngx_http_v2_send_output_queue(c, s)
    <3> HIDE DEF out
    <3>1. [[h2 EXCEPT !.out = out] EXCEPT !.str[s].queued = @ + 1] = c
      BY <1>h DEF ConnRecs
    <3> QED BY <2>1, <2>3, <3>1 DEF out
  <2>6. ASSUME NEW u \in StreamRecs
        PROVE  /\ sent(u) \in StreamRecs /\ sent(u).st = "sent" /\ sent(u).more = ~a.only
               /\ sent(u).queued = u.queued /\ sent(u).exhausted = u.exhausted
               /\ sent(u).win = u.win /\ sent(u).outClosed = u.outClosed /\ sent(u).err = u.err
               /\ sent(u).posted = u.posted /\ sent(u).left = a.units
    BY <2>a DEF StreamRecs
  <2>7. /\ z.exhausted = x.exhausted /\ z.win = x.win /\ z.outClosed = x.outClosed
        /\ z.err = x.err
    <3> HIDE DEF x
    <3> QED BY <1>h DEF StreamRecs
  <2> HIDE DEF sent, z, f
  <2>8. /\ c \in ConnRecs /\ c.error = h2.error /\ c.out = out /\ c.wait = h2.wait
        /\ c.str = [h2.str EXCEPT ![s] = z]
        /\ c.win = h2.win /\ c.credit = h2.credit /\ c.phase = h2.phase /\ c.todo = h2.todo
    <3> HIDE DEF out
    <3> QED BY <1>h, <2>o, <2>4 DEF ConnRecs
  <2>9. /\ h \in ConnRecs /\ h.error = h2.error /\ h.out = out /\ h.wait = h2.wait
        /\ h.str = [h2.str EXCEPT ![s] = sent(z)]
        /\ h.win = h2.win /\ h.credit = h2.credit /\ h.phase = h2.phase /\ h.todo = h2.todo
    <3> HIDE DEF out
    <3>1. sent(z) \in StreamRecs
      BY <2>4, <2>6
    <3> QED BY <1>h, <2>o, <3>1 DEF ConnRecs
  <2>10. ASSUME ~h2.error PROVE Kept(h, NoStream, NoStream)
    <3>1. Kept(h2, NoStream, NoStream) /\ x.st = "open"
      BY <1>h, <2>10 DEF Sound, ngx_http_v2_header_filter
    <3> DEFINE y == sent(z)
    <3>2. /\ y \in StreamRecs /\ y.st = "sent" /\ y.more = ~a.only /\ y.queued = x.queued + 1
          /\ y.exhausted = x.exhausted /\ y.win = x.win /\ y.outClosed = x.outClosed
          /\ y.err = x.err
      BY <2>4, <2>6, <2>7
    <3> HIDE DEF y
    <3>3. out = InsertAfter(h2.out, k, <<HeadersFrame(s, a.only)>>)
      BY DEF f
    <3> HIDE DEF out
    <3>4. Kept([h2 EXCEPT !.out = out, !.str[s] = y], NoStream, NoStream)
      BY <1>h, <1>2, <2>a, <2>3, <3>1, <3>2, <3>3, HeaderKept
    <3> QED BY <3>4 DEF y
  <2> HIDE DEF c, h, out
  <2>11. /\ g \in ConnRecs /\ g.phase = c.phase /\ g.todo = c.todo
         /\ \A t \in Streams : SameStage(c.str[t], g.str[t])
         /\ ~g.error => ~c.error /\ Went(c, g, s)
    <3>1. ~c.error => Accounted(c.out, c.str, c.win, c.credit)
      <4>1. ~c.error => Accounted(h.out, h.str, h.win, h.credit)
        BY <2>8, <2>10 DEF Kept
      <4>2. \A t \in Streams : c.str[t].queued = h.str[t].queued
        BY <1>h, <2>4, <2>6, <2>8, <2>9
      <4> QED BY <4>1, <4>2, <2>8, <2>9 DEF Accounted
    <3> QED BY <2>5, <2>8, <3>1, SendFacts
  <2>12. g.str \in [Streams -> StreamRecs] /\ g.str[s] \in StreamRecs
    BY <2>11, ConnFields
  <2>13. CASE g.error
    <3> DEFINE e == [g.str[s] EXCEPT !.err = TRUE]
               r == [g EXCEPT !.str[s] = e]
    <3>1. e \in StreamRecs
      BY <2>12 DEF StreamRecs
    <3>2. h2' = Terminate(r, s)
      BY <2>1, <2>13
    <3> HIDE DEF e
    <3>3. r \in ConnRecs /\ r.error /\ r.phase = g.phase
      BY <2>11, <2>13, <3>1 DEF ConnRecs
    <3> HIDE DEF r
    <3>4. Sound(h2', NoStream, NoStream) /\ Others(r, h2', s)
      BY <3>2, <3>3, TerminateSound DEF Sound
    <3> QED BY <3>3, <3>4, <2>8, <2>11, HandlerInv DEF Quiet
  <2>14. CASE ~g.error
    <3> DEFINE e == sent(g.str[s])
               r == [g EXCEPT !.str[s] = e]
    <3>1. h2' = r
      <4>1. h2' = [g EXCEPT !.str[s].st = "sent", !.str[s].left = a.units,
                            !.str[s].more = ~a.only, !.str[s].trailers = a.trailers]
        BY <2>1, <2>14
      <4>2. [g EXCEPT !.str[s].st = "sent", !.str[s].left = a.units,
                      !.str[s].more = ~a.only, !.str[s].trailers = a.trailers]
              = [g EXCEPT !.str[s] =
                   [g.str[s] EXCEPT !.st = "sent", !.left = a.units, !.more = ~a.only,
                                    !.trailers = a.trailers]]
        <5> DEFINE u == a.units
                   m == ~a.only
                   w == a.trailers
        <5> HIDE DEF u, m, w
        <5>1. [g EXCEPT !.str[s].st = "sent", !.str[s].left = u,
                        !.str[s].more = m, !.str[s].trailers = w]
                = [g EXCEPT !.str[s] =
                     [g.str[s] EXCEPT !.st = "sent", !.left = u, !.more = m, !.trailers = w]]
          BY <2>11, <2>12 DEF ConnRecs
        <5> QED BY <5>1 DEF u, m, w
      <4> QED BY <4>1, <4>2 DEF sent
    <3>2. /\ e \in StreamRecs /\ e.st = "sent" /\ e.more = ~a.only
          /\ e.queued = g.str[s].queued /\ e.exhausted = g.str[s].exhausted
          /\ e.win = g.str[s].win /\ e.outClosed = g.str[s].outClosed /\ e.err = g.str[s].err
          /\ e.posted = g.str[s].posted /\ e.left = a.units
      BY <2>12, <2>6
    <3> HIDE DEF e
    <3>3. /\ r \in ConnRecs /\ r.error = g.error /\ r.out = g.out /\ r.wait = g.wait
          /\ r.str = [g.str EXCEPT ![s] = e]
          /\ r.win = g.win /\ r.credit = g.credit /\ r.phase = g.phase
      BY <2>11, <3>2 DEF ConnRecs
    <3> HIDE DEF r
    <3>4. /\ r.str[s] = e /\ h.str[s] = sent(z) /\ c.str[s] = z
          /\ \A t \in Streams \ {s} : r.str[t] = g.str[t] /\ h.str[t] = c.str[t]
      BY <1>h, <2>8, <2>9, <2>12, <3>3
    <3>5. Went(c, g, s)
      BY <2>11, <2>14
    <3>6. Went(h, r, s)
      <4>1. \A t \in Streams : r.str[t].queued = g.str[t].queued
        BY <3>2, <3>4
      <4>2. Accounted(r.out, r.str, r.win, r.credit)
        BY <4>1, <3>3, <3>5 DEF Went, Accounted
      <4>3. r.win = h.win /\ r.wait = h.wait
        BY <2>8, <2>9, <3>3, <3>5 DEF Went
      <4>4. ASSUME NEW t \in Streams PROVE StreamWent(h, r, s, t)
        <5>1. StreamWent(c, g, s, t)
          BY <3>5 DEF Went
        <5>2. h.out = c.out /\ h.wait = c.wait
          BY <2>8, <2>9
        <5>3. CASE t = s
          <6>1. /\ sent(z).st = "sent" /\ sent(z).more = ~a.only /\ sent(z).queued = z.queued
                /\ sent(z).exhausted = z.exhausted /\ sent(z).win = z.win
                /\ sent(z).outClosed = z.outClosed /\ sent(z).err = z.err
                /\ sent(z).posted = z.posted /\ sent(z).left = a.units
            BY <2>4, <2>6
          <6>2. StreamWent(c, g, s, s)
            BY <5>1, <5>3
          <6> DEFINE w == sent(z)
          <6> HIDE DEF w
          <6>3. SameStage(w, e)
            BY <6>1, <6>2, <3>2, <3>4 DEF StreamWent, SameStage, w
          <6>4. StreamWent(h, r, s, s)
            BY <6>1, <6>2, <6>3, <5>2, <3>2, <3>4 DEF StreamWent, w
          <6> QED BY <6>4, <5>3
        <5>4. CASE t # s
          BY <5>1, <5>2, <5>4, <3>4 DEF StreamWent
        <5> QED BY <5>3, <5>4
      <4>5. /\ \A d \in ToSet(r.out) : \E b \in ToSet(h.out) : Alike(d, b) /\ (d = b \/ d.blocked)
            /\ \A d, b : PairIn(r.out, d, b) => \E q \in Frames : PairIn(h.out, q, b) /\ Alike(d, q)
        <5>1. r.out = g.out /\ h.out = c.out
          BY <2>8, <2>9, <3>3
        <5> QED BY <5>1, <3>5 DEF Went
      <4> QED BY <4>2, <4>3, <4>4, <4>5 DEF Went
    <3>7. Kept(h, NoStream, s)
      <4>1. Kept(h, NoStream, NoStream)
        BY <2>8, <2>10, <2>11, <2>14
      <4> QED BY <4>1, <1>0 DEF Kept
    <3>8. Kept(r, NoStream, s)
      BY <2>8, <2>9, <2>11, <3>3, <3>6, <3>7, WentKept
    <3>9. Kept(r, NoStream, NoStream)
      <4>1. Woken(r.wait, r.str[s], s)
        BY <3>2, <3>4 DEF Woken
      <4> QED BY <4>1, <3>8 DEF Kept
    <3>10. r.phase = ""
      BY <3>3, <2>8, <2>11 DEF Quiet
    <3> QED BY <3>1, <3>3, <3>9, <3>10 DEF HtInv, Sound
  <2> QED BY <2>13, <2>14
<1> QED BY <1>1, <1>2

(* WINDOW_UPDATE of the connection, and the loop that wakes its streams.    *)
LEMMA ConnWindowInv ==
  ASSUME HtInv(h2), ConnWindow
  PROVE  HtInv(h2')
<1> DEFINE h == Again(h2)
           p == IF h.wait = <<>> THEN "reading" ELSE "waking"
<1>0. NoStream \notin Streams
  BY Http2Assumption
<1>1. Sound(h, NoStream, NoStream) /\ h.phase = "reading"
  BY ReadIs DEF ConnWindow, CanRead
<1>h. h \in ConnRecs /\ h.win \in Nat /\ h.credit \in Nat /\ h.out \in Seq(Frames)
  BY <1>1, ConnFields DEF Sound
<1>2. PICK n \in 0..MaxWindow :
        h2' \in IF n = 0 \/ n > MaxWindow - h.win
                THEN ngx_http_v2_finalize_connection(h)
                ELSE {[h EXCEPT !.win = @ + n, !.credit = @ + n, !.phase = p]}
  BY DEF ConnWindow
<1> HIDE DEF h
<1>3. CASE n = 0 \/ n > MaxWindow - h.win
  <2>1. h2' \in ngx_http_v2_finalize_connection(h)
    BY <1>2, <1>3
  <2> QED BY <1>1, <2>1, FinalizeInv
<1>4. CASE ~(n = 0 \/ n > MaxWindow - h.win)
  <2> DEFINE win == h.win + n
             credit == h.credit + n
             g == [h EXCEPT !.win = win, !.credit = credit, !.phase = p]
  <2>1. h2' = g
    BY <1>2, <1>4
  <2>2. win \in Nat /\ credit \in Nat /\ (\A m \in Nat : h.win + m = h.credit => win + m = credit)
    BY <1>h
  <2>3. p \in {"reading", "waking"} /\ (p = "waking" <=> h.wait # <<>>)
    OBVIOUS
  <2> HIDE DEF win, credit, p
  <2>4. /\ g \in ConnRecs /\ g.error = h.error /\ g.out = h.out /\ g.wait = h.wait
        /\ g.str = h.str /\ g.win = win /\ g.credit = credit /\ g.phase = p
    BY <1>h, <2>2, <2>3 DEF ConnRecs
  <2> HIDE DEF g
  <2>5. ASSUME ~g.error PROVE Kept(g, NoStream, NoStream)
    <3>1. Kept(h, NoStream, NoStream)
      BY <1>1, <2>4, <2>5 DEF Sound
    <3>2. Accounted(g.out, g.str, g.win, g.credit)
      <4>1. Lens(h.out) \in Nat
        BY <1>h, LensNat
      <4> QED BY <2>2, <2>4, <3>1, <4>1 DEF Kept, Accounted
    <3>3. WaitOk(g.wait, g.str, g.win, g.phase, NoStream)
      BY <2>3, <2>4, <3>1 DEF Kept, WaitOk
    <3> QED BY <2>4, <3>1, <3>2, <3>3 DEF Kept
  <2>6. Sound(g, NoStream, NoStream)
    BY <2>4, <2>5 DEF Sound
  <2> QED BY <2>1, <2>3, <2>4, <2>6 DEF HtInv
<1> QED BY <1>3, <1>4

LEMMA WakeNextInv ==
  ASSUME HtInv(h2), WakeNext
  PROVE  HtInv(h2')
<1> DEFINE s == Head(h2.wait)
           rest == Tail(h2.wait)
           h == [h2 EXCEPT !.wait = rest]
<1>0. NoStream \notin Streams
  BY Http2Assumption
<1>1. /\ Sound(h2, NoStream, NoStream) /\ h2.phase = "waking" /\ h2.wait # <<>>
  BY DEF HtInv, WakeNext
<1>h. h2 \in ConnRecs /\ h2.wait \in Seq(Streams)
  BY <1>1, ConnFields DEF Sound
<1>2. PICK g \in WriteHandler(h, s) :
        h2' = [g EXCEPT !.phase = IF g.win = 0 \/ g.wait = <<>> THEN "reading" ELSE "waking"]
  BY <1>h DEF WakeNext
<1>3. /\ s \in Streams /\ rest \in Seq(Streams) /\ ToSet(rest) \subseteq ToSet(h2.wait)
      /\ \A t \in ToSet(h2.wait) : t = s \/ t \in ToSet(rest)
  <2> DEFINE w == h2.wait
  <2>1. w \in Seq(Streams) /\ w # <<>>
    BY <1>1, <1>h
  <2> HIDE DEF w
  <2>2. /\ Head(w) \in Streams /\ Head(w) = w[1] /\ Tail(w) \in Seq(Streams)
        /\ Len(w) \in Nat \ {0} /\ DOMAIN w = 1..Len(w) /\ DOMAIN Tail(w) = 1..(Len(w) - 1)
        /\ \A i \in 1..(Len(w) - 1) : Tail(w)[i] = w[i + 1]
    BY <2>1, HeadTailProperties
  <2>3. ASSUME NEW t \in ToSet(Tail(w)) PROVE t \in ToSet(w)
    <3>1. PICK i \in 1..(Len(w) - 1) : t = w[i + 1]
      BY <2>2 DEF ToSet
    <3>2. i + 1 \in DOMAIN w
      BY <2>2
    <3> QED BY <3>1, <3>2 DEF ToSet
  <2>4. ASSUME NEW t \in ToSet(w), t # Head(w) PROVE t \in ToSet(Tail(w))
    <3>1. PICK i \in DOMAIN w : t = w[i]
      BY DEF ToSet
    <3>2. i # 1
      BY <2>2, <2>4, <3>1
    <3>3. i - 1 \in 1..(Len(w) - 1) /\ (i - 1) + 1 = i
      BY <2>2, <3>2
    <3>4. t = Tail(w)[i - 1] /\ i - 1 \in DOMAIN Tail(w)
      BY <2>2, <3>1, <3>3
    <3> QED BY <3>4 DEF ToSet
  <2> QED BY <2>2, <2>3, <2>4 DEF w
<1> HIDE DEF s, rest
<1>4. /\ h \in ConnRecs /\ h.error = h2.error /\ h.out = h2.out /\ h.wait = rest
      /\ h.str = h2.str /\ h.win = h2.win /\ h.credit = h2.credit /\ h.phase = h2.phase
  BY <1>h, <1>3 DEF ConnRecs
<1> HIDE DEF h
<1>5. Sound(h, NoStream, s)
  <2>1. ASSUME ~h.error PROVE Kept(h, NoStream, s)
    <3>1. Kept(h2, NoStream, NoStream)
      BY <1>1, <1>4, <2>1 DEF Sound
    <3>2. WaitOk(h.wait, h.str, h.win, h.phase, NoStream)
      BY <1>1, <1>3, <1>4, <3>1 DEF Kept, WaitOk
    <3>3. \A t \in Streams \ {s} : Woken(h.wait, h.str[t], t)
      BY <1>0, <1>3, <1>4, <3>1 DEF Kept, Woken
    <3> QED BY <1>4, <3>1, <3>2, <3>3 DEF Kept
  <2> QED BY <1>4, <2>1 DEF Sound
<1>6. Sound(g, NoStream, NoStream) /\ g \in ConnRecs
  BY <1>2, <1>3, <1>5, WriteHandlerSound DEF Sound
<1> DEFINE p == IF g.win = 0 \/ g.wait = <<>> THEN "reading" ELSE "waking"
           r == [g EXCEPT !.phase = p]
<1>7. /\ p \in {"reading", "waking"} /\ (p # "waking" => g.win = 0 \/ g.wait = <<>>)
      /\ (p = "waking" => g.wait # <<>>)
  OBVIOUS
<1> HIDE DEF p
<1>8. /\ r \in ConnRecs /\ r.error = g.error /\ r.out = g.out /\ r.wait = g.wait
      /\ r.str = g.str /\ r.win = g.win /\ r.credit = g.credit /\ r.phase = p
  BY <1>6, <1>7 DEF ConnRecs
<1>9. h2' = r
  BY <1>2 DEF p
<1> HIDE DEF r
<1>10. Sound(r, NoStream, NoStream)
  BY <1>6, <1>7, <1>8, SoundSame
<1> QED BY <1>7, <1>8, <1>9, <1>10 DEF HtInv

(* SETTINGS, and the loop that adjusts the windows.                         *)
LEMMA SettingsInv ==
  ASSUME HtInv(h2), Settings
  PROVE  HtInv(h2')
<1> DEFINE h == Again(h2)
           n == Len(h.out)
           out == InsertAfter(h.out, n, <<Control>>)
           todo == Processing(h2)
<1>0. NoStream \notin Streams
  BY Http2Assumption
<1>1. Sound(h, NoStream, NoStream) /\ h.str = h2.str /\ h.init = h2.init /\ h.out = h2.out
  BY ReadIs DEF Settings, CanRead
<1>h. /\ h \in ConnRecs /\ h.win \in Nat /\ h.out \in Seq(Frames) /\ n \in Nat /\ n \in 0..n
      /\ h.str \in [Streams -> StreamRecs] /\ DOMAIN h.out = 1..n /\ h.init \in Nat
  <2>1. h \in ConnRecs
    BY <1>1 DEF Sound
  <2> HIDE DEF h
  <2> QED BY <2>1, ConnFields
<1>2. PICK v \in 0..MaxWindow :
        h2' = [h EXCEPT !.out = Append(@, Control), !.init = v, !.delta = v - h2.init,
                        !.phase = "adjusting", !.todo = todo]
  BY DEF Settings
<1>3. v \in Nat /\ v - h2.init \in Int /\ n \in 0..Len(h.out)
  BY <1>1, <1>h
<1> HIDE DEF h
<1>4. Append(h.out, Control) = out
  <2> DEFINE q == h.out
             c == Control
  <2>1. q \in Seq(Frames) /\ c \in Frames
    BY <1>h, ControlFrame
  <2> HIDE DEF q, c
  <2>2. SubSeq(q, 1, Len(q)) = q /\ SubSeq(q, Len(q) + 1, Len(q)) = <<>>
    BY <2>1, SubSeqProperties
  <2>3. q \o <<c>> \in Seq(Frames) /\ Append(q, c) = q \o <<c>>
    BY <2>1, AppendIsConcat, ConcatProperties, OneChosen
  <2>4. (q \o <<c>>) \o <<>> = q \o <<c>>
    BY <2>3, ConcatEmptySeq
  <2> QED BY <2>2, <2>3, <2>4 DEF InsertAfter, q, c
<1>5. todo \in SUBSET Streams /\ todo = Processing(h)
  BY <1>1 DEF Processing
<1> DEFINE d == v - h2.init
           g == [h EXCEPT !.out = out, !.init = v, !.delta = d,
                          !.phase = "adjusting", !.todo = todo]
<1>6. h2' = g
  BY <1>2, <1>4, <1>h DEF ConnRecs
<1> HIDE DEF todo, d, n
<1>7. out \in Seq(Frames)
  BY <1>3, <1>h, ControlFrame, OneChosen, InsertFacts DEF Inserted
<1>8. ~h.error => Accounted(out, h.str, h.win, h.credit) /\ QueueOk(out, h.str, NoStream)
  <2> SUFFICES ASSUME ~h.error
               PROVE  Accounted(out, h.str, h.win, h.credit) /\ QueueOk(out, h.str, NoStream)
    OBVIOUS
  <2> DEFINE f == Control
  <2>1. Kept(h, NoStream, NoStream)
    BY <1>1 DEF Sound
  <2>2. /\ f \in Frames /\ f.stream = NoStream /\ f.resets = NoStream /\ ~f.begun /\ ~f.fin
        /\ f.len = 0
    BY ControlFrame
  <2>3. FrameOk(h.str, f)
    BY <1>0, <2>2 DEF FrameOk
  <2>4. \A b \in DOMAIN h.out : ~(b > n)
    BY <1>h
  <2>5. /\ Accounted(h.out, h.str, h.win, h.credit) /\ QueueOk(h.out, h.str, NoStream)
    BY <2>1 DEF Kept
  <2>6. n \in 0..Len(h.out)
    BY <1>3
  <2>7. out = InsertAfter(h.out, n, <<f>>)
    OBVIOUS
  <2> HIDE DEF f, out
  <2>8. /\ Accounted(InsertAfter(h.out, n, <<f>>), h.str, h.win, h.credit)
        /\ QueueOk(InsertAfter(h.out, n, <<f>>), h.str, NoStream)
    BY <1>h, <2>2, <2>3, <2>4, <2>5, <2>6, OtherFrame
  <2> QED BY <2>7, <2>8
<1> HIDE DEF out
<1>9. /\ g \in ConnRecs /\ g.error = h.error /\ g.out = out /\ g.wait = h.wait
      /\ g.str = h.str /\ g.win = h.win /\ g.credit = h.credit /\ g.phase = "adjusting"
      /\ g.todo = todo
  BY <1>h, <1>3, <1>5, <1>7 DEF ConnRecs, d
<1> HIDE DEF g
<1>10. Sound(g, NoStream, NoStream)
  <2>1. ASSUME ~g.error PROVE Kept(g, NoStream, NoStream)
    <3>1. Kept(h, NoStream, NoStream) /\ h.phase # "waking"
      <4>1. h.phase = "reading"
        BY <1>1, ReadIs DEF Settings, CanRead, h
      <4> QED BY <4>1, <1>1, <1>9, <2>1 DEF Sound
    <3>2. WaitOk(g.wait, g.str, g.win, g.phase, NoStream)
      BY <1>9, <3>1 DEF Kept, WaitOk
    <3> QED BY <1>8, <1>9, <2>1, <3>1, <3>2 DEF Kept
  <2> QED BY <1>9, <2>1 DEF Sound
<1>11. g.todo \subseteq Processing(g)
  BY <1>5, <1>9 DEF Processing
<1> QED BY <1>6, <1>9, <1>10, <1>11 DEF HtInv

LEMMA AdjustNextInv ==
  ASSUME HtInv(h2), AdjustNext
  PROVE  HtInv(h2')
<1>0. NoStream \notin Streams
  BY Http2Assumption
<1>1. /\ Sound(h2, NoStream, NoStream) /\ h2.phase = "adjusting"
      /\ h2.todo \subseteq Processing(h2)
  BY DEF HtInv, AdjustNext
<1>h. h2 \in ConnRecs /\ h2.todo \in SUBSET Streams /\ h2.delta \in Int
  BY <1>1, ConnFields DEF Sound
<1>2. CASE h2.todo = {}
  <2> DEFINE g == [h2 EXCEPT !.phase = "reading", !.delta = 0]
  <2>1. h2' = g
    BY <1>2 DEF AdjustNext
  <2>z. 0 \in Int /\ "reading" \in {"", "reading", "waking", "adjusting", "writing", "final"}
    OBVIOUS
  <2>c. g \in ConnRecs
    BY <1>h, <2>z DEF ConnRecs
  <2>2. /\ g \in ConnRecs /\ g.error = h2.error /\ g.out = h2.out /\ g.wait = h2.wait
        /\ g.str = h2.str /\ g.win = h2.win /\ g.credit = h2.credit /\ g.phase = "reading"
    BY <1>h, <2>c DEF ConnRecs
  <2> HIDE DEF g
  <2>3. Sound(g, NoStream, NoStream)
    BY <1>1, <2>2, SoundSame
  <2> QED BY <2>1, <2>2, <2>3 DEF HtInv
<1>3. CASE h2.todo # {}
  <2>1. PICK s \in h2.todo :
          LET h == [h2 EXCEPT !.todo = @ \ {s}]
              win == h.str[s].win + h.delta
              g == [h EXCEPT !.str[s].win = win, !.str[s].exhausted = @ /\ win <= 0]
          IN h2' \in IF win > MaxWindow THEN ngx_http_v2_terminate_stream(h, s)
                     ELSE IF win > 0 /\ h.str[s].exhausted THEN WriteHandler(g, s)
                     ELSE {g}
    BY <1>3 DEF AdjustNext
  <2> DEFINE todo == h2.todo \ {s}
             h == [h2 EXCEPT !.todo = todo]
             x == h2.str[s]
             win == x.win + h2.delta
             gone == x.exhausted /\ win <= 0
             y == [x EXCEPT !.win = win, !.exhausted = gone]
             g == [h EXCEPT !.str[s] = y]
  <2>2. s \in Streams /\ x.st \notin {"none", "closed"} /\ todo \in SUBSET Streams
    BY <1>1, <1>h DEF Processing
  <2>x. x \in StreamRecs /\ h2.str \in [Streams -> StreamRecs]
    BY <1>h, <2>2, ConnFields
  <2>3. /\ h \in ConnRecs /\ h.error = h2.error /\ h.out = h2.out /\ h.wait = h2.wait
        /\ h.str = h2.str /\ h.win = h2.win /\ h.credit = h2.credit /\ h.phase = "adjusting"
        /\ h.todo = todo /\ h.delta = h2.delta /\ h.str[s] = x
    <3> HIDE DEF todo
    <3> QED BY <1>1, <1>h, <2>2 DEF ConnRecs
  <2>4. [h EXCEPT !.str[s].win = h.str[s].win + h.delta,
                  !.str[s].exhausted = @ /\ h.str[s].win + h.delta <= 0] = g
    <3> HIDE DEF todo
    <3>1. h.str[s] = x /\ h.delta = h2.delta /\ h.str = h2.str
      BY <2>3
    <3> DEFINE a == h.str[s].win + h.delta
               b == h.str[s].exhausted /\ h.str[s].win + h.delta <= 0
    <3>2. a = win /\ b = gone
      <4> HIDE DEF h, x
      <4> QED BY <3>1
    <3>3. [h EXCEPT !.str[s].win = a, !.str[s].exhausted = b] = g
      <4> HIDE DEF a, b, win, gone, h, x
      <4>1. [h EXCEPT !.str[s].win = a, !.str[s].exhausted = b]
              = [h EXCEPT !.str[s] = [x EXCEPT !.win = a, !.exhausted = b]]
        BY <3>1, <2>3, <2>2, <2>x DEF ConnRecs, StreamRecs
      <4>2. [x EXCEPT !.win = a, !.exhausted = b] = y
        BY <3>2
      <4> HIDE DEF y
      <4> QED BY <4>1, <4>2
    <3> QED BY <3>3
  <2> HIDE DEF h
  <2>5. h2' \in IF win > MaxWindow THEN ngx_http_v2_terminate_stream(h, s)
                ELSE IF win > 0 /\ x.exhausted THEN WriteHandler(g, s)
                ELSE {g}
    BY <2>1, <2>3, <2>4 DEF h
  <2>6. /\ y \in StreamRecs /\ y.st = x.st /\ y.queued = x.queued
        /\ y.err = x.err /\ y.more = x.more /\ y.exhausted = gone /\ y.win = win
        /\ y.posted = x.posted /\ y.outClosed = x.outClosed
    <3>1. win \in Int /\ gone \in BOOLEAN
      BY <1>h, <2>x, StreamFields
    <3> HIDE DEF win, gone, x
    <3> QED BY <2>x, <3>1 DEF StreamRecs
  <2> HIDE DEF y
  <2>7. g.phase = h.phase /\ g.todo = h.todo /\ \A t \in Streams \ {s} : g.str[t] = h.str[t]
    BY <2>3, <2>6, <2>x DEF ConnRecs
  <2>8. Sound(h, NoStream, NoStream)
    BY <1>1, <2>3, SoundSame
  <2>9. ~h.error => StreamOk(x) /\ Woken(h.wait, x, s)
    BY <1>0, <2>2, <2>3, <2>8 DEF Sound, Kept
  <2>10. ~h.error => StreamOk(y) /\ (~(win > 0 /\ x.exhausted) => Woken(h.wait, y, s))
    <3>1. win \in Int
      BY <1>h, <2>x, StreamFields
    <3>2. gone <=> (x.exhausted /\ win <= 0)
      OBVIOUS
    <3> HIDE DEF win, gone, x
    <3>3. y.exhausted <=> (x.exhausted /\ win <= 0)
      BY <2>6, <3>2, Zenon
    <3>4. ~(win > 0) <=> win <= 0
      BY <3>1
    <3> QED BY <3>1, <3>3, <3>4, <2>2, <2>6, <2>9 DEF StreamOk, Woken
  <2>11. Sound(g, NoStream, s) /\ (~(win > 0 /\ x.exhausted) => Sound(g, NoStream, NoStream))
    BY <2>2, <2>3, <2>6, <2>8, <2>10, StreamChangeSound
  <2> HIDE DEF g, win
  <2>12. ASSUME NEW r, Sound(r, NoStream, NoStream),
                r.phase = "adjusting", r.todo = todo,
                \A t \in Streams \ {s} : r.str[t].st = h2.str[t].st
         PROVE  HtInv(r)
    <3>1. r.todo \subseteq Processing(r)
      BY <1>1, <1>h, <2>12 DEF Processing
    <3> QED BY <2>12, <3>1 DEF HtInv
  <2>13. CASE win > MaxWindow
    <3>1. Sound(h2', NoStream, NoStream) /\ Others(h, h2', s)
      BY <2>2, <2>3, <2>5, <2>8, <2>13, TerminateStreamSound
    <3> QED BY <3>1, <2>3, <2>12 DEF Others
  <2>14. CASE ~(win > MaxWindow) /\ win > 0 /\ x.exhausted
    <3>1. h2' \in WriteHandler(g, s)
      BY <2>5, <2>14
    <3>2. Sound(h2', NoStream, NoStream) /\ Others(g, h2', s)
      BY <2>2, <2>11, <3>1, WriteHandlerSound
    <3> QED BY <3>2, <2>3, <2>7, <2>12 DEF Others
  <2>15. CASE ~(win > MaxWindow) /\ ~(win > 0 /\ x.exhausted)
    <3>1. h2' = g /\ Sound(g, NoStream, NoStream)
      BY <2>5, <2>11, <2>15
    <3> QED BY <3>1, <2>3, <2>7, <2>12
  <2> QED BY <2>13, <2>14, <2>15
<1> QED BY <1>2, <1>3

(* The events of the connection.                                            *)
LEMMA ReadEndInv ==
  ASSUME HtInv(h2), ReadEnd
  PROVE  HtInv(h2')
<1>1. Sound(h2, NoStream, NoStream) /\ h2.phase = "reading"
  BY DEF HtInv, ReadEnd
<1>2. PICK g \in ngx_http_v2_send_output_queue(h2, NoStream) :
        IF g.error /\ g.out # <<>> THEN h2' \in ngx_http_v2_finalize_connection(g)
        ELSE h2' = ngx_http_v2_handle_connection([g EXCEPT !.phase = ""])
  BY DEF ReadEnd
<1>3. Sound(g, NoStream, NoStream) /\ g.phase = "reading"
  BY <1>1, SendSound
<1>4. CASE g.error /\ g.out # <<>>
  <2>1. h2' \in ngx_http_v2_finalize_connection(g)
    BY <1>2, <1>4
  <2> QED BY <1>3, <2>1, FinalizeInv
<1>5. CASE ~(g.error /\ g.out # <<>>)
  <2> DEFINE r == [g EXCEPT !.phase = ""]
  <2>1. Sound(r, NoStream, NoStream) /\ r.phase = ""
    BY <1>3, PhaseSound
  <2>2. h2' = ngx_http_v2_handle_connection(r)
    BY <1>2, <1>5
  <2> HIDE DEF r
  <2> QED BY <2>1, <2>2, ConnectionInv
<1> QED BY <1>4, <1>5

LEMMA ReadCloseInv ==
  ASSUME HtInv(h2), ReadClose
  PROVE  HtInv(h2')
<1>1. Sound(h2, NoStream, NoStream) /\ h2.phase = ""
  BY DEF HtInv, ReadClose
<1>2. CASE h2.st = "idle"
  <2>1. h2' \in ngx_http_v2_finalize_connection(h2)
    BY <1>2 DEF ReadClose
  <2> QED BY <1>1, <2>1, FinalizeInv
<1>3. CASE h2.st # "idle"
  <2> DEFINE c == ngx_http_v2_queue_blocked_frame(h2, Control)
             d == [c EXCEPT !.goaway = TRUE, !.phase = "reading"]
  <2>1. PICK g \in ngx_http_v2_send_output_queue(d, NoStream) :
          IF g.error THEN h2' \in ngx_http_v2_finalize_connection(g)
          ELSE h2' = [g EXCEPT !.phase = ""]
    BY <1>3 DEF ReadClose
  <2>2. Sound(c, NoStream, NoStream) /\ c.phase = ""
    <3>1. Sound(c, NoStream, NoStream) /\ \E o \in Seq(Frames) : c = [h2 EXCEPT !.out = o]
      BY <1>1, QueueControl
    <3> HIDE DEF c
    <3> QED BY <1>1, <3>1 DEF Sound, ConnRecs
  <2>3. Sound(d, NoStream, NoStream) /\ d.phase = "reading"
    <3> HIDE DEF c
    <3>1. /\ d \in ConnRecs /\ d.error = c.error /\ d.out = c.out /\ d.wait = c.wait
          /\ d.str = c.str /\ d.win = c.win /\ d.credit = c.credit /\ d.phase = "reading"
      BY <2>2 DEF Sound, ConnRecs
    <3> HIDE DEF d
    <3> QED BY <2>2, <3>1, SoundSame
  <2> HIDE DEF c, d
  <2>4. Sound(g, NoStream, NoStream) /\ g.phase = "reading"
    BY <2>1, <2>3, SendSound
  <2>5. CASE g.error
    <3>1. h2' \in ngx_http_v2_finalize_connection(g)
      BY <2>1, <2>5
    <3> QED BY <2>4, <3>1, FinalizeInv
  <2>6. CASE ~g.error
    <3>1. Sound([g EXCEPT !.phase = ""], NoStream, NoStream) /\ [g EXCEPT !.phase = ""].phase = ""
      BY <2>4, PhaseSound
    <3>2. h2' = [g EXCEPT !.phase = ""]
      BY <2>1, <2>6
    <3>3. Sound(h2', NoStream, NoStream) /\ h2'.phase = ""
      BY <3>1, <3>2
    <3> QED BY <3>3 DEF HtInv
  <2> QED BY <2>5, <2>6
<1> QED BY <1>2, <1>3

(* A connection that fails is finalized.                                    *)
LEMMA FailedInv ==
  ASSUME NEW h \in ConnRecs, h.phase # "waking",
         h2' \in ngx_http_v2_finalize_connection([h EXCEPT !.error = TRUE])
  PROVE  HtInv(h2')
<1> DEFINE g == [h EXCEPT !.error = TRUE]
<1>1. g \in ConnRecs /\ g.error /\ g.phase = h.phase
  BY DEF ConnRecs
<1> HIDE DEF g
<1>2. h2' \in ngx_http_v2_finalize_connection(g)
  BY DEF g
<1>3. Sound(g, NoStream, NoStream)
  BY <1>1 DEF Sound
<1> QED BY <1>1, <1>2, <1>3, FinalizeInv

LEMMA ReadEofInv ==
  ASSUME HtInv(h2), ReadEof
  PROVE  HtInv(h2')
<1>1. h2.phase \in {"", "reading"}
  BY DEF ReadEof, CanRead
<1> DEFINE h == Read(h2)
<1>2. Sound(h, NoStream, NoStream) /\ h.phase = "reading"
  BY <1>1, ReadIs
<1>3. h2' \in ngx_http_v2_finalize_connection([h EXCEPT !.error = TRUE])
  BY DEF ReadEof
<1> HIDE DEF h
<1> QED BY <1>2, <1>3, FailedInv DEF Sound

LEMMA WriteTimeoutInv ==
  ASSUME HtInv(h2), H2WriteTimeout
  PROVE  HtInv(h2')
  BY FailedInv DEF H2WriteTimeout, HtInv, Sound

LEMMA WriteInv ==
  ASSUME HtInv(h2), ngx_http_v2_write_handler
  PROVE  HtInv(h2')
<1> DEFINE h == [h2 EXCEPT !.ready = TRUE, !.wev = FALSE]
<1>1. Sound(h2, NoStream, NoStream) /\ h2.phase = ""
  BY DEF HtInv, ngx_http_v2_write_handler
<1>2. Sound(h, NoStream, NoStream) /\ h.phase = ""
  <2>1. /\ h \in ConnRecs /\ h.error = h2.error /\ h.out = h2.out /\ h.wait = h2.wait
        /\ h.str = h2.str /\ h.win = h2.win /\ h.credit = h2.credit /\ h.phase = h2.phase
    BY <1>1 DEF Sound, ConnRecs
  <2> HIDE DEF h
  <2> QED BY <1>1, <2>1, SoundSame
<1>3. CASE h.out = <<>>
  <2>1. h2' = ngx_http_v2_handle_connection(h)
    BY <1>3 DEF ngx_http_v2_write_handler
  <2> HIDE DEF h
  <2> QED BY <1>2, <2>1, ConnectionInv
<1>4. CASE h.out # <<>>
  <2> DEFINE d == [h EXCEPT !.phase = "writing"]
  <2>1. PICK r \in ngx_http_v2_send_output_queue(d, NoStream) :
          LET g == [r EXCEPT !.phase = ""]
          IN IF g.error THEN h2' \in ngx_http_v2_finalize_connection(g)
             ELSE h2' = IF g.ready THEN ngx_http_v2_handle_connection(g) ELSE g
    BY <1>4 DEF ngx_http_v2_write_handler
  <2> HIDE DEF h
  <2>2. Sound(d, NoStream, NoStream) /\ d.phase = "writing"
    BY <1>2, PhaseSound
  <2> HIDE DEF d
  <2>3. Sound(r, NoStream, NoStream) /\ r.phase = "writing"
    BY <2>1, <2>2, SendSound
  <2> DEFINE g == [r EXCEPT !.phase = ""]
  <2>4. Sound(g, NoStream, NoStream) /\ g.phase = ""
    BY <2>3, PhaseSound
  <2>5. IF g.error THEN h2' \in ngx_http_v2_finalize_connection(g)
        ELSE h2' = IF g.ready THEN ngx_http_v2_handle_connection(g) ELSE g
    BY <2>1
  <2> HIDE DEF g
  <2>6. HtInv(g) /\ HtInv(ngx_http_v2_handle_connection(g))
    BY <2>4, ConnectionInv DEF HtInv
  <2>7. ASSUME g.error PROVE HtInv(h2')
    BY <2>4, <2>5, <2>7, FinalizeInv
  <2> QED BY <2>5, <2>6, <2>7
<1> QED BY <1>3, <1>4

LEMMA ConnectionHandlerInv ==
  ASSUME HtInv(h2), ngx_http_v2_handle_connection_handler
  PROVE  HtInv(h2')
<1> DEFINE h == [h2 EXCEPT !.rev = FALSE]
<1>1. Sound(h2, NoStream, NoStream) /\ h2.phase = ""
  BY DEF HtInv, ngx_http_v2_handle_connection_handler
<1>2. Sound(h, NoStream, NoStream) /\ h.phase = ""
  <2>1. /\ h \in ConnRecs /\ h.error = h2.error /\ h.out = h2.out /\ h.wait = h2.wait
        /\ h.str = h2.str /\ h.win = h2.win /\ h.credit = h2.credit /\ h.phase = h2.phase
    BY <1>1 DEF Sound, ConnRecs
  <2> HIDE DEF h
  <2> QED BY <1>1, <2>1, SoundSame
<1>3. IF h.error THEN h2' \in ngx_http_v2_finalize_connection(h) ELSE h2' = Read(h)
  BY DEF ngx_http_v2_handle_connection_handler
<1> HIDE DEF h
<1>4. CASE h.error
  BY <1>2, <1>3, <1>4, FinalizeInv
<1>5. CASE ~h.error
  <2>1. HtInv(h)
    BY <1>2 DEF HtInv
  <2> QED BY <1>2, <1>3, <1>5, <2>1, ReadIs
<1> QED BY <1>4, <1>5

(* The loop that ends the connection: it has failed, and stays so.          *)
LEMMA FinalNextInv ==
  ASSUME HtInv(h2), FinalNext
  PROVE  HtInv(h2')
<1>1. /\ Sound(h2, NoStream, NoStream) /\ h2.phase = "final" /\ h2.error
      /\ h2.todo \subseteq Processing(h2)
  BY DEF HtInv, FinalNext
<1>h. h2 \in ConnRecs /\ h2.todo \in SUBSET Streams
  BY <1>1, ConnFields DEF Sound
<1>2. CASE h2.todo = {}
  <2>1. h2' = IF Processing(h2) = {} THEN H2Closed(h2) ELSE [h2 EXCEPT !.phase = ""]
    BY <1>2 DEF FinalNext
  <2>2. HtInv(H2Closed(h2))
    BY <1>h, ClosedInv
  <2> DEFINE g == [h2 EXCEPT !.phase = ""]
  <2>3. Sound(g, NoStream, NoStream) /\ g.phase = ""
    BY <1>1, PhaseSound
  <2> HIDE DEF g
  <2>4. HtInv(g)
    BY <2>3 DEF HtInv
  <2> QED BY <2>1, <2>2, <2>4 DEF g
<1>3. CASE h2.todo # {}
  <2>1. PICK s \in h2.todo :
          LET h == [h2 EXCEPT !.todo = @ \ {s}, !.str[s].err = TRUE, !.str[s].queued = 0]
          IN h2' \in IF h2.str[s].queued > 0 /\ h2.str[s].st = "closing"
                     THEN {ngx_http_v2_close_stream(h, s)}
                     ELSE Noticed(h, s)
    BY <1>3 DEF FinalNext
  <2> DEFINE todo == h2.todo \ {s}
             x == h2.str[s]
             y == [x EXCEPT !.err = TRUE, !.queued = 0]
             h == [h2 EXCEPT !.todo = todo, !.str[s] = y]
  <2>2. s \in Streams /\ x.st \notin {"none", "closed"} /\ todo \in SUBSET Streams
    BY <1>1, <1>h DEF Processing
  <2>x. x \in StreamRecs /\ h2.str \in [Streams -> StreamRecs]
    BY <1>h, <2>2, ConnFields
  <2>3. [h2 EXCEPT !.todo = @ \ {s}, !.str[s].err = TRUE, !.str[s].queued = 0] = h
    BY <1>h, <2>x DEF ConnRecs
  <2>4. h2' = ngx_http_v2_close_stream(h, s) \/ h2' \in Noticed(h, s)
    BY <2>1, <2>3
  <2>5. y \in StreamRecs /\ y.st = x.st
    <3>1. 0 \in Int
      OBVIOUS
    <3> HIDE DEF x
    <3>2. y \in StreamRecs
      BY <2>x, <3>1 DEF StreamRecs
    <3>3. y.st = x.st
      BY <2>x DEF StreamRecs
    <3> QED BY <3>2, <3>3
  <2> HIDE DEF y, todo
  <2>6. /\ h \in ConnRecs /\ h.error /\ h.phase = "final" /\ h.todo = todo
        /\ h.str[s] = y /\ \A t \in Streams \ {s} : h.str[t] = h2.str[t]
    BY <1>1, <1>h, <2>2, <2>5, <2>x DEF ConnRecs
  <2> HIDE DEF h
  <2>7. \A cur, lazy : Sound(h, cur, lazy)
    BY <2>6 DEF Sound
  <2>8. Sound(h2', NoStream, NoStream) /\ Others(h, h2', s) /\ h2'.error = h.error
    <3>1. CASE h2' = ngx_http_v2_close_stream(h, s)
      BY <2>2, <2>6, <2>7, <3>1, CloseSound
    <3>2. CASE h2' \in Noticed(h, s)
      BY <2>2, <2>5, <2>6, <2>7, <3>2, NoticedSound
    <3> QED BY <2>4, <3>1, <3>2
  <2>9. h2'.phase = "final" /\ h2'.error /\ h2'.todo \subseteq Processing(h2')
    <3>1. h2'.phase = "final" /\ h2'.error /\ h2'.todo = todo
      BY <2>6, <2>8 DEF Others
    <3>2. ASSUME NEW t \in todo PROVE t \in Processing(h2')
      <4>1. t \in Streams \ {s} /\ t \in Processing(h2)
        BY <1>1, <1>h, <3>2 DEF todo
      <4>2. h2'.str[t].st = h2.str[t].st
        BY <2>6, <2>8, <4>1 DEF Others
      <4> QED BY <4>1, <4>2 DEF Processing
    <3> QED BY <3>1, <3>2
  <2> QED BY <2>8, <2>9 DEF HtInv
<1> QED BY <1>2, <1>3
-----------------------------------------------------------------------------
(* The connection begins in the invariant, and every step keeps it.         *)
LEMMA InitInv ==
  ASSUME HtInit
  PROVE  HtInv(h2)
<1>0. /\ NoStream \notin Streams /\ InitWindow \in Nat /\ MaxWindow \in Nat
      /\ FirstWindows \subseteq 0..MaxWindow
  BY Http2Assumption
<1>1. PICK first \in FirstWindows :
        h2 = [st |-> "open", win |-> InitWindow, init |-> first,
              ready |-> TRUE, error |-> FALSE, goaway |-> FALSE,
              out |-> <<Control, Control, Control>>, wait |-> <<>>,
              str |-> [s \in Streams |-> Stream0],
              phase |-> "reading", todo |-> {}, delta |-> 0,
              rev |-> FALSE, wev |-> FALSE, credit |-> InitWindow, frames |-> 0]
  BY DEF HtInit
<1> DEFINE c == Control
           out == <<c, c, c>>
           str == [s \in Streams |-> Stream0]
<1>2. /\ c \in Frames /\ c.stream = NoStream /\ c.resets = NoStream /\ ~c.begun /\ ~c.fin
      /\ c.len = 0
  BY ControlFrame
<1> HIDE DEF c
<1>3. out \in Seq(Frames) /\ ToSet(out) = {c} /\ DOMAIN out = 1..3
  <2>1. out \in Seq(Frames) /\ DOMAIN out = 1..3 /\ out[1] = c /\ out[2] = c /\ out[3] = c
    BY <1>2
  <2>2. \A i \in 1..3 : out[i] = c
    <3>1. \A i \in 1..3 : i = 1 \/ i = 2 \/ i = 3
      OBVIOUS
    <3> HIDE DEF out
    <3> QED BY <2>1, <3>1
  <2>3. 1 \in 1..3
    OBVIOUS
  <2> HIDE DEF out
  <2> QED BY <2>1, <2>2, <2>3 DEF ToSet
<1>4. Lens(out) = 0
  <2> DEFINE a == <<c>>
             b == <<c, c>>
  <2>1. /\ a \in Seq(Frames) /\ b \in Seq(Frames)
        /\ Append(a, c) = b /\ Append(b, c) = out
    <3>1. a \in Seq(Frames)
      BY <1>2
    <3>2. b \in Seq(Frames)
      BY <1>2
    <3>3. Append(a, c) = b
      <4>1. /\ Append(a, c) \in Seq(Frames) /\ Len(Append(a, c)) = 2
            /\ Append(a, c)[1] = c /\ Append(a, c)[2] = c
        BY <1>2, <3>1, AppendProperties
      <4> DEFINE z == Append(a, c)
      <4> HIDE DEF z
      <4>2. \A i \in 1..2 : z[i] = b[i]
        BY <4>1 DEF z
      <4>3. Len(b) = 2
        OBVIOUS
      <4> HIDE DEF b
      <4>4. z = b
        BY <3>2, <4>1, <4>2, <4>3, SeqEqual DEF z
      <4> QED BY <4>4 DEF z
    <3>4. Append(b, c) = out
      <4>1. /\ Append(b, c) \in Seq(Frames) /\ Len(Append(b, c)) = 3
            /\ Append(b, c)[1] = c /\ Append(b, c)[2] = c /\ Append(b, c)[3] = c
        BY <1>2, <3>2, AppendProperties
      <4> DEFINE z == Append(b, c)
      <4> HIDE DEF z
      <4>2. \A i \in 1..3 : z[i] = out[i]
        BY <4>1 DEF z
      <4>3. Len(out) = 3
        OBVIOUS
      <4> HIDE DEF out
      <4>4. z = out
        BY <1>3, <4>1, <4>2, <4>3, SeqEqual DEF z
      <4> QED BY <4>4 DEF z
    <3> QED BY <3>1, <3>2, <3>3, <3>4
  <2>2. Lens(a) = 0
    BY <1>2, LensOfOne
  <2> HIDE DEF a, b, out
  <2>3. Lens(b) = 0 + 0
    BY <1>2, <2>1, <2>2, LensOfMore
  <2>4. Lens(out) = 0 + 0 + 0
    BY <1>2, <2>1, <2>3, LensOfMore
  <2> QED BY <2>4
<1>5. Stream0 \in StreamRecs
  BY DEF Stream0, StreamRecs
<1>6. str \in [Streams -> StreamRecs] /\ \A s \in Streams : str[s] = Stream0
  BY <1>5
<1>7. /\ h2.error = FALSE /\ h2.out = out /\ h2.wait = <<>> /\ h2.str = str
      /\ h2.win = InitWindow /\ h2.credit = InitWindow /\ h2.phase = "reading"
  BY <1>1 DEF c
<1>8. h2 \in ConnRecs
  <2>1. /\ first \in Nat /\ <<>> \in Seq(Streams) /\ {} \in SUBSET Streams /\ 0 \in Int /\ 0 \in Nat
    BY <1>0
  <2>2. h2 = [st |-> "open", win |-> InitWindow, init |-> first,
              ready |-> TRUE, error |-> FALSE, goaway |-> FALSE,
              out |-> out, wait |-> <<>>, str |-> str,
              phase |-> "reading", todo |-> {}, delta |-> 0,
              rev |-> FALSE, wev |-> FALSE, credit |-> InitWindow, frames |-> 0]
    BY <1>1 DEF c
  <2> HIDE DEF out, str
  <2> QED BY <1>0, <1>3, <1>6, <2>1, <2>2 DEF ConnRecs
<1> HIDE DEF out, str
<1>9. Accounted(out, str, InitWindow, InitWindow)
  <2>1. InitWindow + Lens(out) = InitWindow
    BY <1>0, <1>4
  <2>2. ASSUME NEW s \in Streams PROVE Len(Chosen(out, OfStream(s))) = str[s].queued
    <3>1. ToSet(out) \cap OfStream(s) = {}
      BY <1>0, <1>2, <1>3, OfStreamOnly
    <3>2. Chosen(out, OfStream(s)) = <<>>
      BY <1>3, <3>1, ChosenNothing
    <3>3. str[s].queued = 0
      BY <1>6 DEF Stream0
    <3> QED BY <3>2, <3>3
  <2> QED BY <2>1, <2>2 DEF Accounted
<1>10. QueueOk(out, str, NoStream)
  <2>1. \A f \in ToSet(out) : FrameOk(str, f)
    BY <1>0, <1>2, <1>3 DEF FrameOk
  <2>2. ASSUME NEW e \in Frames, NEW f \in Frames, PairIn(out, e, f)
        PROVE  Before(str, NoStream, e, f)
    <3>1. f = c
      BY <1>3, <2>2, PairOfElements
    <3> QED BY <1>0, <1>2, <3>1 DEF Before
  <2> QED BY <2>1, <2>2 DEF QueueOk
<1>11. WaitOk(h2.wait, str, InitWindow, "reading", NoStream)
  <2>1. ToSet(<<>>) = {}
    BY ToSetOfNone
  <2> QED BY <1>7, <2>1 DEF WaitOk
<1>12. \A s \in Streams : StreamOk(str[s]) /\ Woken(h2.wait, str[s], s)
  BY <1>6 DEF Stream0, StreamOk, Woken
<1>13. Kept(h2, NoStream, NoStream)
  BY <1>7, <1>9, <1>10, <1>11, <1>12 DEF Kept
<1> QED BY <1>7, <1>8, <1>13 DEF HtInv, Sound

LEMMA NextInv ==
  ASSUME HtInv(h2), [HtNext]_h2
  PROVE  HtInv(h2')
<1>1. CASE UNCHANGED h2
  <2>1. h2' = h2
    BY <1>1
  <2> QED BY <2>1
<1>2. ASSUME NEW s \in Streams,
             \/ ngx_http_v2_header_filter(s) \/ Body(s) \/ SendTimeout(s) \/ PostedWrite(s)
             \/ Fail(s)
      PROVE  HtInv(h2')
  <2>1. Quiet(h2)
    BY <1>2 DEF Quiet, ngx_http_v2_header_filter, Body, SendTimeout, PostedWrite, Fail
  <2>2. CASE ngx_http_v2_header_filter(s)
    BY <2>1, <2>2, HeaderInv
  <2>3. CASE Body(s)
    BY <2>1, <2>3, BodyInv
  <2>4. CASE PostedWrite(s)
    BY <2>1, <2>4, PostedWriteInv
  <2>5. CASE SendTimeout(s) \/ Fail(s)
    BY <2>1, <2>5, EndInv DEF SendTimeout, Fail
  <2> QED BY <1>2, <2>2, <2>3, <2>4, <2>5
<1>3. ASSUME NEW s \in Streams,
             ngx_http_v2_create_stream(s) \/ ngx_http_v2_state_rst_stream(s) \/ StreamWindow(s)
      PROVE  HtInv(h2')
  BY <1>3, CreateInv, RstInv, StreamWindowInv
<1>4. CASE ConnWindow \/ Settings \/ WakeNext \/ AdjustNext \/ FinalNext
  BY <1>4, ConnWindowInv, SettingsInv, WakeNextInv, AdjustNextInv, FinalNextInv
<1>5. CASE ReadEnd \/ ReadClose \/ ReadEof \/ ngx_http_v2_write_handler \/ H2WriteTimeout
           \/ ngx_http_v2_handle_connection_handler
  BY <1>5, ReadEndInv, ReadCloseInv, ReadEofInv, WriteInv, WriteTimeoutInv, ConnectionHandlerInv
<1> QED BY <1>1, <1>2, <1>3, <1>4, <1>5 DEF HtNext, HtProgress

(* The connection keeps its invariant: the queue is in order and accounted  *)
(* for, the streams that wait are writing, and each has what is to wake it. *)
THEOREM ConnectionIsSound == HtSpec => []HtInv(h2)
<1>1. HtInit => HtInv(h2)
  BY InitInv
<1>2. HtInv(h2) /\ [HtNext]_h2 => HtInv(h2)'
  BY NextInv
<1> QED BY <1>1, <1>2, PTL DEF HtSpec
-----------------------------------------------------------------------------
LEMMA SomeOrNone == \A n \in Nat : n > 0 \/ n = 0
  OBVIOUS

LEMMA InvGivesWoken ==
  ASSUME HtInv(h2)
  PROVE  StreamWoken
<1> SUFFICES ASSUME h2.phase = "", ~h2.error, NEW s \in Streams,
                    h2.str[s].st \in {"writing", "closing"}
             PROVE  LET x == h2.str[s]
                    IN \/ x.posted
                       \/ x.queued > 0
                       \/ x.st = "writing" /\ x.exhausted /\ x.win <= 0
                       \/ x.st = "writing" /\ s \in ToSet(h2.wait) /\ h2.win = 0
                       \/ Stranded(s)
  BY DEF StreamWoken
<1> DEFINE x == h2.str[s]
<1>0. NoStream \notin Streams
  BY Http2Assumption
<1>1. Kept(h2, NoStream, NoStream) /\ h2 \in ConnRecs
  BY DEF HtInv, Sound
<1>2. Woken(h2.wait, x, s) /\ StreamOk(x)
  BY <1>0, <1>1 DEF Kept
<1>3. x.queued \in Nat
  <2>1. h2.out \in Seq(Frames) /\ x.queued = Len(Chosen(h2.out, OfStream(s)))
    BY <1>1, ConnFields DEF Kept, Accounted
  <2> HIDE DEF x
  <2> QED BY <2>1, FramesAre
<1>4. CASE x.exhausted
  <2>1. x.win <= 0
    BY <1>2, <1>4 DEF StreamOk
  <2>2. x.queued > 0 \/ x.queued = 0
    <3> HIDE DEF x
    <3> QED BY <1>3, SomeOrNone, Zenon
  <2> QED BY <1>4, <2>1, <2>2 DEF Stranded
<1>5. CASE x.st = "writing" /\ s \in ToSet(h2.wait)
  <2>1. h2.wait # <<>>
    BY <1>5, ToSetOfNone
  <2>2. h2.win = 0
    BY <1>1, <2>1 DEF Kept, WaitOk
  <2> QED BY <1>5, <2>2
<1> QED BY <1>2, <1>4, <1>5 DEF Woken

LEMMA InvGivesQueue ==
  ASSUME HtInv(h2), ~h2.error
  PROVE  QueueAccounted
<1> DEFINE out == h2.out
           str == h2.str
<1>0. NoStream \notin Streams
  BY Http2Assumption
<1>1. /\ Accounted(out, str, h2.win, h2.credit) /\ QueueOk(out, str, NoStream)
      /\ \A s \in Streams : StreamOk(str[s])
  BY DEF HtInv, Sound, Kept
<1>2. out \in Seq(Frames) /\ str \in [Streams -> StreamRecs] /\ DOMAIN out = 1..Len(out)
      /\ Len(out) \in Nat /\ \A i \in 1..Len(out) : out[i] \in Frames
  <2>1. out \in Seq(Frames) /\ str \in [Streams -> StreamRecs]
    BY ConnFields DEF HtInv, Sound
  <2> HIDE DEF out
  <2> QED BY <2>1
<1>q. out = h2.out /\ str = h2.str
  OBVIOUS
<1> HIDE DEF out, str
<1>3. ASSUME NEW i \in 1..Len(out), NEW j \in 1..Len(out), i < j
      PROVE  Before(str, NoStream, out[i], out[j])
  <2>1. PairIn(out, out[i], out[j])
    BY <1>2, <1>3 DEF PairIn
  <2> QED BY <1>1, <1>2, <2>1 DEF QueueOk
<1>4. \A i \in 2..Len(out) : ~out[i].begun
  <2> TAKE i \in 2..Len(out)
  <2>1. 1 \in 1..Len(out) /\ i \in 1..Len(out) /\ 1 < i
    BY <1>2
  <2> QED BY <1>3, <2>1 DEF Before
<1>5. ASSUME NEW s \in Streams
      PROVE  LET q == Chosen(out, OfStream(s))
             IN /\ Len(q) = str[s].queued
                /\ q # <<>> => s \in Processing(h2)
                /\ \A i \in 1..Len(q) :
                     /\ q[i].kind = "headers" /\ ~q[i].fin => i = 1
                     /\ q[i].fin => i = Len(q)
                /\ \A i, j \in 1..Len(out) :
                     i < j /\ out[i].resets = s /\ out[j].stream = s =>
                       str[s].st \in {"open", "sent"}
  <2> DEFINE q == Chosen(out, OfStream(s))
  <2>1. q \in Seq(Frames) /\ Len(q) = str[s].queued
    BY <1>1, <1>2, ChosenFacts DEF Selected, Accounted
  <2>2. \A i, j \in DOMAIN q : i < j =>
          \E a, b \in DOMAIN out : a < b /\ q[i] = out[a] /\ q[j] = out[b]
    BY <1>2, ChosenFacts DEF Selected
  <2>3. \A i \in DOMAIN q : q[i].stream = s
    <3>1. ToSet(q) = ToSet(out) \cap OfStream(s)
      BY <1>2, ChosenFacts DEF Selected
    <3> HIDE DEF q
    <3>2. \A f \in ToSet(q) : f.stream = s
      BY <3>1 DEF OfStream
    <3> QED BY <3>2 DEF ToSet
  <2> HIDE DEF q
  <2>4. DOMAIN q = 1..Len(q) /\ Len(q) \in Nat /\ (q # <<>> => Len(q) # 0)
    BY <2>1
  <2>5. ASSUME NEW i \in 1..Len(q), NEW j \in 1..Len(q), i < j
        PROVE  ~q[i].fin /\ (q[j].kind = "headers" => q[j].fin)
    <3>1. PICK a \in DOMAIN out, b \in DOMAIN out : a < b /\ q[i] = out[a] /\ q[j] = out[b]
      BY <2>2, <2>4, <2>5
    <3>2. Before(str, NoStream, out[a], out[b])
      BY <1>2, <1>3, <3>1
    <3>3. out[a].stream = s /\ out[b].stream = s
      BY <2>3, <2>4, <3>1
    <3> QED BY <3>1, <3>2, <3>3 DEF Before
  <2>6. ASSUME q # <<>> PROVE s \in Processing(h2)
    <3>1. str[s].queued # 0
      BY <2>1, <2>4, <2>6
    <3>2. str[s].st \notin {"none", "closed"}
      BY <1>1, <3>1 DEF StreamOk
    <3> QED BY <1>q, <3>2 DEF Processing
  <2>7. ASSUME NEW i \in 1..Len(q)
        PROVE  /\ q[i].kind = "headers" /\ ~q[i].fin => i = 1
               /\ q[i].fin => i = Len(q)
    <3>1. 1 \in 1..Len(q) /\ Len(q) \in 1..Len(q) /\ (i = 1 \/ 1 < i) /\ (i = Len(q) \/ i < Len(q))
      <4> DEFINE n == Len(q)
      <4>1. n \in Nat /\ i \in 1..n
        BY <2>4
      <4> HIDE DEF n
      <4>2. 1 \in 1..n /\ n \in 1..n /\ (i = 1 \/ 1 < i) /\ (i = n \/ i < n)
        BY <4>1
      <4> QED BY <4>2 DEF n
    <3>2. ASSUME 1 < i PROVE q[i].kind = "headers" => q[i].fin
      BY <2>5, <3>1, <3>2
    <3>3. ASSUME i < Len(q) PROVE ~q[i].fin
      BY <2>5, <3>1, <3>3
    <3> QED BY <3>1, <3>2, <3>3
  <2>8. ASSUME NEW i \in 1..Len(out), NEW j \in 1..Len(out),
               i < j, out[i].resets = s, out[j].stream = s
        PROVE  str[s].st \in {"open", "sent"}
    BY <1>0, <1>3, <2>8 DEF Before
  <2> QED BY <2>1, <2>6, <2>7, <2>8 DEF q
<1> QED BY <1>q, <1>4, <1>5 DEF QueueAccounted, FramesOf

LEMMA InvGivesAccounted ==
  ASSUME HtInv(h2)
  PROVE  OutputAccounted
<1>1. h2.win >= 0 /\ h2.credit >= 0
  <2>1. h2.win \in Nat /\ h2.credit \in Nat
    BY ConnFields DEF HtInv, Sound
  <2> QED BY <2>1
<1>2. ASSUME ~h2.error PROVE h2.win + Lens(h2.out) = h2.credit
  BY <1>2 DEF HtInv, Sound, Kept, Accounted
<1> QED BY <1>1, <1>2, InvGivesQueue DEF OutputAccounted

(* A stream that has not sent all it has, or is not yet closed, has what is *)
(* to wake it: a posted event, its frames in the queue, its own window or,  *)
(* in the list of those that wait, the connection's.                        *)
THEOREM StreamsAreWoken == HtSpec => []StreamWoken
<1>1. HtInv(h2) => StreamWoken
  BY InvGivesWoken
<1> QED BY <1>1, ConnectionIsSound, PTL

(* The queue of frames is in order and agrees with what the streams count,  *)
(* and the window of the connection with what the client has granted.       *)
THEOREM OutputIsAccounted == HtSpec => []OutputAccounted
<1>1. HtInv(h2) => OutputAccounted
  BY InvGivesAccounted
<1> QED BY <1>1, ConnectionIsSound, PTL
=============================================================================
