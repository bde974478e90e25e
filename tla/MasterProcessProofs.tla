------------------------ MODULE MasterProcessProofs -------------------------
(***************************************************************************)
(* Proofs about the process table of MasterProcess, for any number of       *)
(* workers, signals, deaths and failing calls; WorkersAreBounded alone      *)
(* assumes that no call fails and that no binary is upgraded.               *)
(***************************************************************************)
EXTENDS MasterProcess, FiniteSetTheorems, SequenceTheorems, TLAPS

-----------------------------------------------------------------------------
(* The numbers of a finite set have the places 1, 2, ... in their order.    *)

LEMMA PlaceInRange ==
  ASSUME NEW S \in SUBSET Int, IsFiniteSet(S), NEW x \in S
  PROVE  Place(S, x) \in 1 .. Cardinality(S)
<1> DEFINE T == {y \in S : y <= x}
<1>1. T \in SUBSET S /\ x \in T
  OBVIOUS
<1>2. IsFiniteSet(T) /\ Cardinality(T) <= Cardinality(S)
  BY <1>1, FS_Subset
<1>3. Cardinality(T) \in Nat /\ Cardinality(S) \in Nat
  BY <1>2, FS_CardinalityType
<1>4. Cardinality(T) # 0
  BY <1>1, <1>2, FS_EmptySet
<1>5. Place(S, x) = Cardinality(T)
  BY DEF Place
<1> HIDE DEF T
<1> QED
  BY <1>2, <1>3, <1>4, <1>5

LEMMA PlaceInjective ==
  ASSUME NEW S \in SUBSET Int, IsFiniteSet(S), NEW x \in S, NEW z \in S,
         Place(S, x) = Place(S, z)
  PROVE  x = z
<1>1. ASSUME NEW a \in S, NEW b \in S, a < b, Place(S, a) = Place(S, b)
      PROVE  FALSE
  <2> DEFINE A == {y \in S : y <= a}
             B == {y \in S : y <= b}
  <2>0. a \in Int /\ b \in Int /\ \A y \in S : y \in Int
    OBVIOUS
  <2>1. A \in SUBSET B /\ b \in B /\ b \notin A /\ B \in SUBSET S
    <3>1. ~(b <= a) /\ b <= b /\ \A y \in S : y <= a => y <= b
      BY <1>1, <2>0
    <3> QED
      BY <3>1
  <2>2. Cardinality(B) = Cardinality(A)
    BY <1>1 DEF Place
  <2> HIDE DEF A, B
  <2>3. IsFiniteSet(B)
    BY <2>1, FS_Subset
  <2>4. B = A
    BY <2>1, <2>2, <2>3, FS_Subset
  <2> QED
    BY <2>1, <2>4
<1>2. x \in Int /\ z \in Int
  OBVIOUS
<1>3. ~(x < z) /\ ~(z < x)
  BY <1>1
<1> QED
  BY <1>2, <1>3

LEMMA NthInPlace ==
  ASSUME NEW S \in SUBSET Int, IsFiniteSet(S), NEW k \in 1 .. Cardinality(S)
  PROVE  Nth(S, k) \in S /\ Place(S, Nth(S, k)) = k
<1> DEFINE n == Cardinality(S)
           D == 1 .. n
           f == [x \in S |-> Place(S, x)]
<1>1. n \in Nat
  BY FS_CardinalityType
<1>2. f \in [S -> D]
  BY PlaceInRange
<1>3. \A x, z \in S : f[x] = f[z] => x = z
  BY PlaceInjective
<1>4. IsFiniteSet(D) /\ Cardinality(D) = n
  <2> HIDE DEF n
  <2> QED
    BY <1>1, FS_Interval
<1> HIDE DEF f, D
<1>5. f \in Injection(S, D)
  BY <1>2, <1>3 DEF Injection, IsInjective
<1>6. f \in Surjection(S, D)
  BY <1>4, <1>5, FS_Injection
<1>7. \E x \in S : f[x] = k
  BY <1>6 DEF Surjection, D
<1>8. \E x \in S : Place(S, x) = k
  BY <1>7 DEF f
<1> QED
  BY <1>8 DEF Nth

-----------------------------------------------------------------------------
(* The process table.                                                       *)
Entries ==
  [pid : Int, exiting : BOOLEAN, exited : BOOLEAN, just_spawn : BOOLEAN,
   respawn : BOOLEAN, detached : BOOLEAN]

(* ngx_spawn_process puts each new entry into a slot of its own, which was  *)
(* free or beyond the last, and leaves the other slots as they are.         *)
Spawned(t, es, r) ==
  \E pos \in [DOMAIN es -> DOMAIN r] :
    /\ \A k \in DOMAIN es : /\ r[pos[k]] = es[k]
                            /\ pos[k] \in DOMAIN t => t[pos[k]].pid = Invalid
    /\ \A i \in DOMAIN r : (\E k \in DOMAIN es : i = pos[k]) \/ (i \in DOMAIN t /\ r[i] = t[i])

LEMMA SpawnIntoFacts ==
  ASSUME NEW t \in Seq(Entries), NEW es \in Seq(Entries)
  PROVE  /\ SpawnInto(t, es) \in Seq(Entries)
         /\ DOMAIN t \subseteq DOMAIN SpawnInto(t, es)
         /\ Spawned(t, es, SpawnInto(t, es))
<1> DEFINE L == Len(t)
           m == Len(es)
           free == {i \in 1 .. L + m : i \in DOMAIN t => t[i].pid = Invalid}
           holes == free \cap DOMAIN t
           h == Cardinality(holes)
           over == m - h
           M == IF over > 0 THEN L + over ELSE L
           r == [i \in 1 .. M |->
                   IF i \in free /\ Place(free, i) <= m THEN es[Place(free, i)] ELSE t[i]]
<1>1. L \in Nat /\ m \in Nat /\ DOMAIN t = 1 .. L /\ DOMAIN es = 1 .. m
      /\ (\A i \in 1 .. L : t[i] \in Entries) /\ (\A i \in 1 .. m : es[i] \in Entries)
  OBVIOUS
<1>2. SpawnInto(t, es) = r
  BY DEF SpawnInto
<1>3. free \in SUBSET (1 .. L + m) /\ holes = {i \in free : i <= L}
      /\ \A i \in free : i \in DOMAIN t => t[i].pid = Invalid
  BY <1>1
<1>4. \A j \in 1 .. m : L + j \in free
  BY <1>1
<1> HIDE DEF L, m, free
<1>5. IsFiniteSet(free) /\ free \in SUBSET Int /\ IsFiniteSet(holes) /\ h \in Nat
  <2>1. IsFiniteSet(1 .. L + m)
    BY <1>1, FS_Interval
  <2>2. IsFiniteSet(free)
    BY <1>3, <2>1, FS_Subset
  <2>3. holes \in SUBSET free
    OBVIOUS
  <2>4. IsFiniteSet(holes)
    BY <2>2, <2>3, FS_Subset
  <2> HIDE DEF holes
  <2> QED
    BY <1>1, <1>3, <2>2, <2>4, FS_CardinalityType
<1>6. ASSUME NEW j \in 1 .. m PROVE Place(free, L + j) = h + j
  <2> DEFINE T == {y \in free : y <= L + j}
             I == L + 1 .. L + j
  <2>1. T = holes \cup I /\ holes \cap I = {}
    <3>1. \A y \in I : y - L \in 1 .. m /\ L + (y - L) = y /\ ~(y <= L)
      BY <1>1
    <3>2. I \subseteq free
      BY <1>4, <3>1
    <3>3. \A y \in free : y <= L + j => y <= L \/ y \in I
      BY <1>1, <1>5
    <3>4. \A y \in holes : y <= L + j
      BY <1>1, <1>3, <1>5
    <3>5. \A y \in I : y <= L + j
      BY <1>1
    <3> QED
      BY <1>3, <3>1, <3>2, <3>3, <3>4, <3>5
  <2>2. IsFiniteSet(I) /\ Cardinality(I) = j
    <3>1. L + 1 \in Int /\ L + j \in Int /\ ~(L + 1 > L + j) /\ (L + j) - (L + 1) + 1 = j
      BY <1>1
    <3> QED
      BY <3>1, FS_Interval
  <2> HIDE DEF holes, I, T
  <2>3. Cardinality(holes \cup I) = Cardinality(holes) + Cardinality(I) - Cardinality(holes \cap I)
    BY <1>5, <2>2, FS_Union
  <2>4. Cardinality(holes \cap I) = 0
    BY <2>1, FS_EmptySet
  <2>5. Cardinality(T) = h + j
    BY <1>5, <2>1, <2>2, <2>3, <2>4
  <2> QED
    BY <2>5 DEF Place, T
<1>7. Cardinality(free) \in Nat /\ m <= Cardinality(free)
  <2> DEFINE I == L + 1 .. L + m
  <2>1. I \in SUBSET free
    <3>1. \A y \in I : y - L \in 1 .. m /\ L + (y - L) = y
      BY <1>1
    <3> QED
      BY <1>4, <3>1
  <2>2. Cardinality(I) = m
    <3>1. L + 1 \in Int /\ L + m \in Int /\ (L + 1 > L + m => m = 0) /\ (L + m) - (L + 1) + 1 = m
      BY <1>1
    <3> QED
      BY <3>1, FS_Interval
  <2> HIDE DEF I
  <2> QED
    BY <1>5, <2>1, <2>2, FS_Subset, FS_CardinalityType
<1> HIDE DEF holes, h
<1>8. M \in Nat /\ L <= M /\ 1 .. L \subseteq 1 .. M
  BY <1>1, <1>5
<1>9. \A k \in 1 .. m : Nth(free, k) \in free /\ Place(free, Nth(free, k)) = k
  <2>1. \A k \in 1 .. m : k \in 1 .. Cardinality(free)
    BY <1>1, <1>7
  <2> QED
    BY <1>5, <2>1, NthInPlace
<1>10. ASSUME NEW i \in free, i > L
       PROVE  i - L \in 1 .. m /\ Place(free, i) = h + (i - L)
  <2>1. i - L \in 1 .. m /\ L + (i - L) = i
    BY <1>1, <1>3, <1>10
  <2> QED
    BY <1>6, <2>1
<1>11. \A k \in 1 .. m : Nth(free, k) \in 1 .. M
  <2> SUFFICES ASSUME NEW k \in 1 .. m PROVE Nth(free, k) \in 1 .. M
    OBVIOUS
  <2> DEFINE x == Nth(free, k)
  <2>1. x \in free /\ Place(free, x) = k /\ x \in 1 .. L + m
    BY <1>3, <1>9
  <2> HIDE DEF x
  <2>2. ASSUME x <= L PROVE x \in 1 .. M
    BY <1>1, <1>8, <2>1, <2>2
  <2>3. ASSUME x > L PROVE x \in 1 .. M
    <3>1. k = h + (x - L) /\ x - L \in 1 .. m
      BY <1>10, <2>1, <2>3
    <3> QED
      BY <1>1, <1>5, <2>1, <3>1
  <2>4. x <= L \/ x > L
    BY <1>1, <2>1
  <2>5. x \in 1 .. M
    BY <2>2, <2>3, <2>4
  <2> QED
    BY <2>5 DEF x
<1>12. ASSUME NEW i \in 1 .. M, ~(i \in free /\ Place(free, i) <= m)
       PROVE  i \in 1 .. L
  <2> SUFFICES ASSUME i > L PROVE FALSE
    BY <1>1, <1>8
  <2>1. i - L \in 1 .. m /\ L + (i - L) = i /\ i - L <= over
    BY <1>1, <1>5
  <2>2. i \in free /\ Place(free, i) = h + (i - L)
    BY <1>4, <1>6, <2>1
  <2>3. Place(free, i) <= m
    BY <1>1, <1>5, <2>1, <2>2
  <2> QED
    BY <1>12, <2>2, <2>3
<1> DEFINE pos == [k \in 1 .. m |-> Nth(free, k)]
<1>13. /\ DOMAIN r = 1 .. M
       /\ \A i \in 1 .. M : r[i] = IF i \in free /\ Place(free, i) <= m THEN es[Place(free, i)] ELSE t[i]
  OBVIOUS
<1> HIDE DEF M, r
<1>14. ASSUME NEW k \in 1 .. m PROVE r[Nth(free, k)] = es[k]
  <2> DEFINE x == Nth(free, k)
  <2>1. x \in free /\ Place(free, x) = k /\ x \in 1 .. M /\ k <= m
    BY <1>1, <1>9, <1>11
  <2> HIDE DEF x
  <2>2. r[x] = es[k]
    BY <1>13, <2>1
  <2> QED
    BY <2>2 DEF x
<1>15. ASSUME NEW i \in 1 .. M
       PROVE  (\E k \in 1 .. m : i = Nth(free, k)) \/ (i \in 1 .. L /\ r[i] = t[i])
  <2>1. CASE i \in free /\ Place(free, i) <= m
    <3>1. Place(free, i) \in 1 .. m
      BY <1>1, <1>5, <1>7, <2>1, PlaceInRange
    <3> DEFINE k == Place(free, i)
               x == Nth(free, k)
    <3>2. x \in free /\ Place(free, x) = k
      BY <1>9, <3>1
    <3> HIDE DEF x
    <3>3. i = x
      BY <1>5, <2>1, <3>2, PlaceInjective
    <3> QED
      BY <3>1, <3>3 DEF x
  <2>2. CASE ~(i \in free /\ Place(free, i) <= m)
    BY <1>12, <1>13, <2>2
  <2> QED
    BY <2>1, <2>2
<1>16. \A i \in 1 .. M : r[i] \in Entries
  BY <1>1, <1>14, <1>15
<1>17. r \in Seq(Entries)
  <2>1. r \in [1 .. M -> Entries]
    BY <1>13, <1>16 DEF r
  <2> QED
    BY <1>8, <2>1
<1>18. Spawned(t, es, r)
  <2>1. pos \in [DOMAIN es -> DOMAIN r]
    BY <1>1, <1>11, <1>13
  <2>2. \A k \in DOMAIN es : pos[k] = Nth(free, k)
    BY <1>1
  <2> HIDE DEF pos
  <2>3. \A k \in DOMAIN es : /\ r[pos[k]] = es[k]
                             /\ pos[k] \in DOMAIN t => t[pos[k]].pid = Invalid
    BY <1>1, <1>3, <1>9, <1>14, <2>2
  <2>4. \A i \in DOMAIN r : (\E k \in DOMAIN es : i = pos[k]) \/ (i \in DOMAIN t /\ r[i] = t[i])
    BY <1>1, <1>13, <1>15, <2>2
  <2> QED
    BY <2>1, <2>3, <2>4 DEF Spawned
<1> QED
  BY <1>1, <1>2, <1>8, <1>13, <1>17, <1>18

-----------------------------------------------------------------------------
(* What the table and the children have to do with each other.  Rows: a pid *)
(* has one slot.  Forked: the children are numbered as they are forked.     *)
(* Met: the children that have not been waited for are those of the entries *)
(* that are not marked exited.                                              *)
KindNames == {"worker", "manager", "loader", "binary", "free"}
States == {"none", "up", "drain", "zombie", "fatal", "reaped"}
Unwaited == {"up", "drain", "zombie", "fatal"}
Processes == [state : States, kind : KindNames, cycle : Nat]

Rows(t, n) ==
  /\ t \in Seq(Entries)
  /\ \A i \in DOMAIN t : t[i].pid = Invalid \/ t[i].pid \in 1 .. n
  /\ \A i, j \in DOMAIN t : t[i].pid # Invalid /\ t[i].pid = t[j].pid => i = j
Forked(pr, n) ==
  /\ pr \in [Pids -> Processes]
  /\ n \in Nat /\ n <= MaxPids
  /\ \A p \in Pids : p > n => pr[p].state = "none"
Met(t, pr) ==
  /\ \A p \in Pids : pr[p].state \in Unwaited =>
       \E i \in DOMAIN t : t[i].pid = p /\ ~t[i].exited
  /\ \A i \in DOMAIN t : t[i].pid # Invalid /\ ~t[i].exited => pr[t[i].pid].state \in Unwaited
Tracked(t, pr, n) == Rows(t, n) /\ Forked(pr, n) /\ Met(t, pr)

(* just_spawn is set only between the start of new processes and the        *)
(* command to quit that passes them over.                                   *)
JustFits(e, st) == e.just_spawn => st = "quit old" /\ ~e.detached /\ e.pid # Invalid
Just(t, st) == \A i \in DOMAIN t : JustFits(t[i], st)

MpInv == Tracked(table, proc, pids) /\ Just(table, stage) /\ cycle \in Nat

LEMMA BoundIsNat == MaxPids \in Nat /\ N \in Nat \ {0}
BY MasterProcessAssumption DEF MasterProcessAssumption

LEMMA PidsKnown ==
  ASSUME NEW t, NEW pr, NEW n, Rows(t, n), Forked(pr, n), NEW i \in DOMAIN t, t[i].pid # Invalid
  PROVE  t[i].pid \in Pids /\ t[i].pid \in 1 .. n /\ pr[t[i].pid] \in Processes
<1>1. t[i].pid \in 1 .. n /\ n \in Nat /\ n <= MaxPids
  BY DEF Rows, Forked
<1>2. t[i].pid \in Pids
  BY <1>1, BoundIsNat DEF Pids
<1> QED
  BY <1>1, <1>2 DEF Forked

(* fork(): the next children run.                                           *)
LEMMA ForkFacts ==
  ASSUME Forked(proc, pids), NEW ks \in Seq(KindNames), NEW c \in Nat, Fork(ks, c)
  PROVE  /\ Forked(proc', pids')
         /\ pids' = pids + Len(ks)
         /\ \A p \in Pids : p <= pids => proc'[p] = proc[p]
         /\ \A k \in DOMAIN ks : pids + k \in Pids /\ proc'[pids + k].state = "up"
         /\ \A p \in Pids : p > pids /\ proc'[p].state \in Unwaited =>
              \E k \in DOMAIN ks : p = pids + k
<1> DEFINE m == Len(ks)
           new(p) == [state |-> "up", kind |-> ks[p - pids], cycle |-> c]
<1>1. m \in Nat /\ DOMAIN ks = 1 .. m /\ pids \in Nat /\ MaxPids \in Nat
      /\ \A k \in 1 .. m : ks[k] \in KindNames
  BY BoundIsNat DEF Forked
<1>2. /\ pids + m <= MaxPids /\ pids' = pids + m
      /\ proc' = [p \in Pids |-> IF p \in pids + 1 .. pids + m THEN new(p) ELSE proc[p]]
  BY DEF Fork
<1>3. proc \in [Pids -> Processes] /\ \A p \in Pids : p > pids => proc[p].state = "none"
  BY DEF Forked
<1>4. ASSUME NEW p \in Pids, p \in pids + 1 .. pids + m
      PROVE  /\ new(p) \in Processes /\ new(p).state = "up" /\ p > pids
             /\ \E k \in DOMAIN ks : p = pids + k
  <2>1. p - pids \in 1 .. m /\ p = pids + (p - pids) /\ p > pids
    BY <1>1, <1>4
  <2>2. ks[p - pids] \in KindNames
    BY <1>1, <2>1
  <2> QED
    BY <1>1, <2>1, <2>2 DEF Processes, States
<1> HIDE DEF new, m
<1>5. \A p \in Pids : /\ proc'[p] \in Processes
                      /\ p \in pids + 1 .. pids + m => proc'[p].state = "up" /\ p > pids
                      /\ p \notin pids + 1 .. pids + m => proc'[p] = proc[p]
  BY <1>2, <1>3, <1>4
<1>6. proc' \in [Pids -> Processes]
  BY <1>2, <1>5
<1>7. \A p \in Pids : p \in Int /\ p >= 1
  BY <1>1 DEF Pids
<1>8. \A p \in Pids : p <= pids => p \notin pids + 1 .. pids + m
  BY <1>1, <1>7
<1>9. \A p \in Pids : p > pids' => p > pids /\ p \notin pids + 1 .. pids + m
  BY <1>1, <1>2, <1>7
<1>10. Forked(proc', pids')
  BY <1>1, <1>2, <1>3, <1>5, <1>6, <1>9 DEF Forked
<1>11. ASSUME NEW k \in DOMAIN ks
       PROVE  pids + k \in Pids /\ proc'[pids + k].state = "up"
  <2>1. pids + k \in Pids /\ pids + k \in pids + 1 .. pids + m
    BY <1>1, <1>2 DEF Pids
  <2> QED
    BY <1>5, <2>1
<1>12. ASSUME NEW p \in Pids, p > pids, proc'[p].state \in Unwaited
       PROVE  \E k \in DOMAIN ks : p = pids + k
  <2>1. p \in pids + 1 .. pids + m
    BY <1>3, <1>5, <1>12 DEF Unwaited
  <2> QED
    BY <1>4, <2>1
<1>13. \A p \in Pids : p <= pids => proc'[p] = proc[p]
  BY <1>5, <1>8
<1> QED
  BY <1>2, <1>10, <1>11, <1>12, <1>13 DEF m

(* New children in new entries.                                             *)
LEMMA SpawnTracked ==
  ASSUME Tracked(table, proc, pids), NEW ks \in Seq(KindNames), NEW c \in Nat, Fork(ks, c),
         NEW es \in Seq(Entries), DOMAIN es = DOMAIN ks,
         \A k \in DOMAIN es : es[k].pid = pids + k /\ ~es[k].exited,
         table' = SpawnInto(table, es)
  PROVE  Tracked(table', proc', pids')
<1>1. /\ Forked(proc', pids') /\ pids' = pids + Len(ks)
      /\ \A p \in Pids : p <= pids => proc'[p] = proc[p]
      /\ \A k \in DOMAIN ks : pids + k \in Pids /\ proc'[pids + k].state = "up"
      /\ \A p \in Pids : p > pids /\ proc'[p].state \in Unwaited =>
           \E k \in DOMAIN ks : p = pids + k
  BY ForkFacts DEF Tracked
<1>2. /\ table \in Seq(Entries) /\ pids \in Nat /\ Len(ks) \in Nat /\ DOMAIN ks = 1 .. Len(ks)
  BY DEF Tracked, Rows, Forked
<1>3. table' \in Seq(Entries) /\ DOMAIN table \subseteq DOMAIN table'
      /\ Spawned(table, es, table')
  BY <1>2, SpawnIntoFacts
<1>4. PICK pos \in [DOMAIN es -> DOMAIN table'] :
        /\ \A k \in DOMAIN es : /\ table'[pos[k]] = es[k]
                                /\ pos[k] \in DOMAIN table => table[pos[k]].pid = Invalid
        /\ \A i \in DOMAIN table' : \/ \E k \in DOMAIN es : i = pos[k]
                                    \/ i \in DOMAIN table /\ table'[i] = table[i]
  BY <1>3 DEF Spawned
<1>5. \A k \in DOMAIN es : table'[pos[k]].pid = pids + k /\ ~table'[pos[k]].exited
                           /\ pos[k] \in DOMAIN table'
  BY <1>4
<1>6. \A k \in DOMAIN es : pids + k \in 1 .. pids' /\ pids + k > pids /\ k \in Int
                           /\ pids + k # Invalid
  BY <1>1, <1>2 DEF Invalid
<1>7. \A i \in DOMAIN table : table[i].pid = Invalid \/ table[i].pid \in 1 .. pids
  BY DEF Tracked, Rows
<1>8. 1 .. pids \subseteq 1 .. pids' /\ \A p \in 1 .. pids : p <= pids /\ ~(p > pids)
  BY <1>1, <1>2
<1>9. \A i \in DOMAIN table' : \/ \E k \in DOMAIN es : i = pos[k]
                               \/ i \in DOMAIN table /\ table'[i] = table[i]
  BY <1>4
<1>10. \A i \in DOMAIN table' : table'[i].pid = Invalid \/ table'[i].pid \in 1 .. pids'
  BY <1>5, <1>6, <1>7, <1>8, <1>9
<1>11. ASSUME NEW i \in DOMAIN table', NEW j \in DOMAIN table',
              table'[i].pid # Invalid, table'[i].pid = table'[j].pid
       PROVE  i = j
  <2>1. CASE \E k \in DOMAIN es : i = pos[k]
    <3> PICK k \in DOMAIN es : i = pos[k]
      BY <2>1
    <3>1. CASE \E l \in DOMAIN es : j = pos[l]
      <4> PICK l \in DOMAIN es : j = pos[l]
        BY <3>1
      <4>1. pids + k = pids + l
        BY <1>5, <1>11
      <4>2. k = l
        BY <1>2, <1>6, <4>1
      <4> QED
        BY <4>2
    <3>2. CASE j \in DOMAIN table /\ table'[j] = table[j]
      BY <1>5, <1>6, <1>7, <1>8, <1>11, <3>2
    <3> QED
      BY <1>9, <3>1, <3>2
  <2>2. CASE i \in DOMAIN table /\ table'[i] = table[i]
    <3>1. CASE \E l \in DOMAIN es : j = pos[l]
      BY <1>5, <1>6, <1>7, <1>8, <1>11, <2>2, <3>1
    <3>2. CASE j \in DOMAIN table /\ table'[j] = table[j]
      BY <1>11, <2>2, <3>2 DEF Tracked, Rows
    <3> QED
      BY <1>9, <3>1, <3>2
  <2> QED
    BY <1>9, <2>1, <2>2
<1>12. Rows(table', pids')
  BY <1>3, <1>10, <1>11 DEF Rows
<1>13. ASSUME NEW p \in Pids, proc'[p].state \in Unwaited
       PROVE  \E i \in DOMAIN table' : table'[i].pid = p /\ ~table'[i].exited
  <2>1. CASE p > pids
    BY <1>1, <1>5, <1>13, <2>1
  <2>2. CASE p <= pids
    <3>1. proc[p].state \in Unwaited
      BY <1>1, <1>13, <2>2
    <3>2. PICK i \in DOMAIN table : table[i].pid = p /\ ~table[i].exited
      BY <3>1 DEF Tracked, Met
    <3>3. p # Invalid
      BY DEF Pids, Invalid
    <3>4. i \in DOMAIN table' /\ table'[i] = table[i]
      BY <1>3, <1>4, <1>9, <3>2, <3>3
    <3> QED
      BY <3>2, <3>4
  <2>3. p > pids \/ p <= pids
    BY <1>2 DEF Pids
  <2> QED
    BY <2>1, <2>2, <2>3
<1>14. ASSUME NEW i \in DOMAIN table', table'[i].pid # Invalid, ~table'[i].exited
       PROVE  proc'[table'[i].pid].state \in Unwaited
  <2>1. CASE \E k \in DOMAIN es : i = pos[k]
    BY <1>1, <1>5, <2>1 DEF Unwaited
  <2>2. CASE i \in DOMAIN table /\ table'[i] = table[i]
    <3>1. table[i].pid \in Pids /\ table[i].pid \in 1 .. pids
      BY <1>14, <2>2, PidsKnown DEF Tracked
    <3>2. proc[table[i].pid].state \in Unwaited
      BY <1>14, <2>2 DEF Tracked, Met
    <3> QED
      BY <1>1, <1>8, <2>2, <3>1, <3>2
  <2> QED
    BY <1>9, <2>1, <2>2
<1>15. Met(table', proc')
  BY <1>13, <1>14 DEF Met
<1> QED
  BY <1>1, <1>12, <1>15 DEF Tracked

LEMMA SpawnJust ==
  ASSUME NEW t \in Seq(Entries), NEW es \in Seq(Entries), NEW st,
         \A i \in DOMAIN t : ~t[i].just_spawn,
         \A k \in DOMAIN es : JustFits(es[k], st)
  PROVE  Just(SpawnInto(t, es), st)
<1> DEFINE r == SpawnInto(t, es)
<1>1. Spawned(t, es, r)
  BY SpawnIntoFacts
<1> HIDE DEF r
<1>2. \A i \in DOMAIN r : (\E k \in DOMAIN es : r[i] = es[k]) \/ (i \in DOMAIN t /\ r[i] = t[i])
  BY <1>1 DEF Spawned
<1>3. \A i \in DOMAIN t : JustFits(t[i], st)
  BY DEF JustFits
<1>4. Just(r, st)
  BY <1>2, <1>3 DEF Just
<1> QED
  BY <1>4 DEF r

-----------------------------------------------------------------------------
(* ngx_start_worker_processes and ngx_start_cache_manager_processes.        *)

LEMMA KindsType ==
  Kinds \in Seq({"worker", "manager", "loader"})
<1> DEFINE K == {"worker", "manager", "loader"}
<1>1. Workers \in Seq(K)
  BY BoundIsNat DEF Workers
<1>2. Workers \o <<"manager", "loader">> \in Seq(K)
  BY <1>1, ConcatProperties
<1> QED
  BY <1>1, <1>2 DEF Kinds

LEMMA EntryFacts ==
  ASSUME NEW p \in Int, NEW kind, NEW just \in BOOLEAN
  PROVE  /\ Entry(p, kind, just) \in Entries
         /\ Entry(p, kind, just).pid = p
         /\ ~Entry(p, kind, just).exited
         /\ Entry(p, kind, just).just_spawn = just
         /\ Entry(p, kind, just).detached = (kind = "binary")
<1> DEFINE a == kind \in {"worker", "manager"}
           b == kind = "binary"
           e == [pid |-> p, exiting |-> FALSE, exited |-> FALSE, just_spawn |-> just,
                 respawn |-> a, detached |-> b]
<1>1. Entry(p, kind, just) = e
  BY DEF Entry
<1>2. a \in BOOLEAN /\ b \in BOOLEAN
  OBVIOUS
<1> HIDE DEF a, b
<1>3. /\ e \in Entries /\ e.pid = p /\ e.exited = FALSE /\ e.just_spawn = just /\ e.detached = b
  BY <1>2 DEF Entries
<1> HIDE DEF e
<1> QED
  BY <1>1, <1>3 DEF b

(* StartProcesses puts the kinds of Kinds with numbers in good, in their    *)
(* order, into slots of their own.                                          *)
StartedAs(good, ks, es, just, c) ==
  LET n == Cardinality(good)
  IN  /\ good \in SUBSET (DOMAIN Kinds) /\ good \in SUBSET Int /\ IsFiniteSet(good) /\ n \in Nat
      /\ ks \in Seq(KindNames) /\ DOMAIN ks = 1 .. n
      /\ \A k \in 1 .. n : ks[k] = Kinds[Nth(good, k)] /\ ks[k] # "binary"
      /\ es \in Seq(Entries) /\ DOMAIN es = 1 .. n
      /\ \A k \in 1 .. n : es[k] = Entry(pids + k, ks[k], just)
      /\ Fork(ks, c)
      /\ Fault(Len(Kinds) - Len(ks)) /\ Len(ks) <= Len(Kinds)
      /\ table' = SpawnInto(table, es)

LEMMA StartedFacts ==
  ASSUME pids \in Nat, NEW just, just \in BOOLEAN, NEW c \in Nat, StartProcesses(just, c)
  PROVE  \E good, ks, es : StartedAs(good, ks, es, just, c)
<1> DEFINE l == Len(Kinds)
<1>0. /\ DOMAIN Kinds = 1 .. l /\ l \in Nat
      /\ \A i \in 1 .. l : Kinds[i] \in {"worker", "manager", "loader"}
  BY KindsType
<1> HIDE DEF l
<1>1. PICK good : /\ good \in SUBSET (1 .. l)
                  /\ LET ks == [k \in 1 .. Cardinality(good) |-> Kinds[Nth(good, k)]]
                     IN  /\ Fork(ks, c)
                         /\ Fault(Len(Kinds) - Len(ks))
                         /\ table' = SpawnInto(table, [k \in DOMAIN ks |-> Entry(pids + k, ks[k], just)])
  BY <1>0, Zenon DEF StartProcesses
<1> DEFINE n == Cardinality(good)
           ks == [k \in 1 .. n |-> Kinds[Nth(good, k)]]
           es == [k \in 1 .. n |-> Entry(pids + k, ks[k], just)]
<1>2. Fork(ks, c) /\ table' = SpawnInto(table, es) /\ Fault(Len(Kinds) - Len(ks))
  BY <1>1
<1>3. good \in SUBSET Int /\ IsFiniteSet(good) /\ n \in Nat /\ n <= l
  <2>1. l \in Nat /\ good \in SUBSET (1 .. l)
    BY <1>0, <1>1
  <2>2. IsFiniteSet(1 .. l) /\ Cardinality(1 .. l) = l
    <3>1. 1 \in Int /\ l \in Int /\ (1 > l => l = 0) /\ l - 1 + 1 = l
      BY <2>1
    <3> QED
      BY <3>1, FS_Interval
  <2>3. IsFiniteSet(good) /\ Cardinality(good) <= Cardinality(1 .. l)
    BY <2>1, <2>2, FS_Subset
  <2> QED
    BY <2>1, <2>2, <2>3, FS_CardinalityType
<1>4. \A k \in 1 .. n : Kinds[Nth(good, k)] \in {"worker", "manager", "loader"}
  BY <1>0, <1>1, <1>3, NthInPlace
<1>5. ks \in Seq(KindNames) /\ DOMAIN ks = 1 .. n /\ Len(ks) = n
      /\ \A k \in 1 .. n : ks[k] = Kinds[Nth(good, k)] /\ ks[k] # "binary"
  <2>1. \A k \in 1 .. n : ks[k] = Kinds[Nth(good, k)] /\ ks[k] # "binary"
    BY <1>4
  <2>2. ks \in [1 .. n -> KindNames]
    BY <1>4 DEF KindNames
  <2> HIDE DEF ks, n
  <2> QED
    BY <1>3, <2>1, <2>2
<1> HIDE DEF ks, n
<1>6. es = [k \in 1 .. n |-> es[k]] /\ \A k \in 1 .. n : es[k] = Entry(pids + k, ks[k], just)
  OBVIOUS
<1> HIDE DEF es
<1>7. \A k \in 1 .. n : es[k] \in Entries
  <2> SUFFICES ASSUME NEW k \in 1 .. n PROVE es[k] \in Entries
    OBVIOUS
  <2> DEFINE p == pids + k
             kind == ks[k]
  <2>1. p \in Int
    BY <1>3
  <2> HIDE DEF p, kind
  <2>2. Entry(p, kind, just) \in Entries
    BY <2>1, EntryFacts
  <2> QED
    BY <1>6, <2>2 DEF p, kind
<1>8. es \in Seq(Entries) /\ DOMAIN es = 1 .. n
  <2>1. es \in [1 .. n -> Entries]
    BY <1>6, <1>7
  <2> QED
    BY <1>3, <2>1
<1>9. StartedAs(good, ks, es, just, c)
  BY <1>0, <1>1, <1>2, <1>3, <1>5, <1>6, <1>8 DEF StartedAs, n, l
<1> QED
  BY <1>9

(* Processes are marked only if the command to quit comes next.             *)
MarkFits(just, st) == just \in BOOLEAN /\ (just => st = "quit old")

LEMMA MarkedEntry ==
  ASSUME NEW just, NEW st, MarkFits(just, st), NEW p \in Int, p # Invalid,
         NEW kind, kind # "binary", NEW e, e = Entry(p, kind, just)
  PROVE  e \in Entries /\ e.pid = p /\ ~e.exited /\ JustFits(e, st)
<1>1. /\ e \in Entries /\ e.pid = p /\ ~e.exited /\ e.just_spawn = just
      /\ e.detached = (kind = "binary")
  BY EntryFacts DEF MarkFits
<1>2. ~e.detached
  BY <1>1
<1>3. e.just_spawn => st = "quit old"
  BY <1>1, Zenon DEF MarkFits
<1>4. JustFits(e, st)
  BY <1>1, <1>2, <1>3 DEF JustFits
<1> QED
  BY <1>1, <1>4

Unmarked(t) == \A i \in DOMAIN t : ~t[i].just_spawn

LEMMA UnmarkedElsewhere ==
  ASSUME MpInv, stage # "quit old"
  PROVE  Unmarked(table)
BY DEF MpInv, Just, JustFits, Unmarked

LEMMA StartStep ==
  ASSUME MpInv, Unmarked(table), NEW just, MarkFits(just, stage'), NEW c \in Nat,
         StartProcesses(just, c), cycle' \in Nat
  PROVE  MpInv'
<1>1. pids \in Nat /\ table \in Seq(Entries) /\ just \in BOOLEAN
  BY DEF MpInv, Tracked, Forked, Rows, MarkFits
<1>2. PICK good, ks, es : StartedAs(good, ks, es, just, c)
  BY <1>1, StartedFacts
<1> DEFINE n == Cardinality(good)
<1>3. Fork(ks, c) /\ table' = SpawnInto(table, es)
  BY <1>2 DEF StartedAs
<1>4. n \in Nat /\ es \in Seq(Entries) /\ DOMAIN es = 1 .. n
  BY <1>2 DEF StartedAs
<1>5. ks \in Seq(KindNames) /\ DOMAIN ks = 1 .. n /\ \A k \in 1 .. n : ks[k] # "binary"
  BY <1>2 DEF StartedAs
<1>6. \A k \in 1 .. n : es[k] = Entry(pids + k, ks[k], just)
  BY <1>2 DEF StartedAs
<1> HIDE DEF n
<1>7. ASSUME NEW k \in 1 .. n
      PROVE  /\ es[k] \in Entries /\ es[k].pid = pids + k /\ ~es[k].exited
             /\ JustFits(es[k], stage')
  <2> DEFINE p == pids + k
             kind == ks[k]
             e == es[k]
  <2>1. p \in Int /\ p # Invalid
    BY <1>4, <1>1 DEF Invalid
  <2>2. kind # "binary" /\ e = Entry(p, kind, just)
    BY <1>5, <1>6
  <2> HIDE DEF p, kind, e
  <2>3. e \in Entries /\ e.pid = p /\ ~e.exited /\ JustFits(e, stage')
    BY <2>1, <2>2, MarkedEntry
  <2> QED
    BY <2>3 DEF p, e
<1>8. Tracked(table', proc', pids')
  BY <1>3, <1>4, <1>5, <1>7, SpawnTracked DEF MpInv
<1>9. \A i \in DOMAIN table : ~table[i].just_spawn
  BY DEF Unmarked
<1>10. Just(table', stage')
  BY <1>3, <1>4, <1>1, <1>7, <1>9, SpawnJust
<1>11. /\ Tracked(table, proc, pids)' <=> Tracked(table', proc', pids')
       /\ Just(table, stage)' <=> Just(table', stage')
  BY DEF Tracked, Rows, Forked, Met, Just, JustFits
<1> QED
  BY <1>8, <1>10, <1>11 DEF MpInv

-----------------------------------------------------------------------------
(* The fields of an entry that are set together.                            *)

LEMMA EntryLost ==
  ASSUME NEW e \in Entries, NEW f, f = [e EXCEPT !.exited = TRUE, !.exiting = FALSE]
  PROVE  f \in Entries /\ f.pid = e.pid /\ f.exited = TRUE /\ f.just_spawn = e.just_spawn
<1>1. f.pid = e.pid
  BY DEF Entries
<1>2. f.exited = TRUE /\ f.just_spawn = e.just_spawn
  BY Zenon DEF Entries
<1>3. f \in Entries
  BY DEF Entries
<1> QED
  BY <1>1, <1>2, <1>3

LEMMA EntryTold ==
  ASSUME NEW e \in Entries, NEW b, b \in BOOLEAN, NEW f, f = [e EXCEPT !.exiting = b]
  PROVE  f \in Entries /\ f.pid = e.pid /\ f.exited = e.exited /\ f.just_spawn = e.just_spawn
         /\ f.exiting = b /\ f.detached = e.detached
<1>1. f.pid = e.pid
  BY DEF Entries
<1>2. f.exited = e.exited /\ f.just_spawn = e.just_spawn /\ f.exiting = b /\ f.detached = e.detached
  BY Zenon DEF Entries
<1>3. f \in Entries
  BY DEF Entries
<1> QED
  BY <1>1, <1>2, <1>3

LEMMA EntryCleared ==
  ASSUME NEW e \in Entries, NEW f, f = [e EXCEPT !.just_spawn = FALSE]
  PROVE  f \in Entries /\ f.pid = e.pid /\ f.exited = e.exited /\ f.just_spawn = FALSE
         /\ f.exiting = e.exiting /\ f.detached = e.detached
<1>1. f.pid = e.pid
  BY DEF Entries
<1>2. f.exited = e.exited /\ f.just_spawn = FALSE /\ f.exiting = e.exiting /\ f.detached = e.detached
  BY Zenon DEF Entries
<1>3. f \in Entries
  BY DEF Entries
<1> QED
  BY <1>1, <1>2, <1>3

RunsAs(e, f, p) == f = [e EXCEPT !.exited = FALSE, !.pid = p]
RunsFor(e, f, p) ==
  /\ f \in Entries /\ f.pid = p /\ f.exited = FALSE /\ f.just_spawn = e.just_spawn
  /\ f.exiting = e.exiting /\ f.detached = e.detached

LEMMA EntryRespawned ==
  ASSUME NEW e \in Entries, NEW p \in Int, NEW f, RunsAs(e, f, p)
  PROVE  RunsFor(e, f, p)
<1>1. f.pid = p
  BY DEF Entries, RunsAs
<1>2. f.exited = FALSE /\ f.just_spawn = e.just_spawn /\ f.exiting = e.exiting /\ f.detached = e.detached
  BY Zenon DEF Entries, RunsAs
<1>3. f \in Entries
  BY DEF Entries, RunsAs
<1> QED
  BY <1>1, <1>2, <1>3, Zenon DEF RunsFor

LEMMA EntryStatus ==
  ASSUME NEW e \in Entries, NEW b, b \in BOOLEAN,
         NEW f, f = [e EXCEPT !.exited = TRUE, !.respawn = b]
  PROVE  f \in Entries /\ f.pid = e.pid /\ f.exited = TRUE /\ f.just_spawn = e.just_spawn
         /\ f.exiting = e.exiting /\ f.detached = e.detached
<1>1. f.pid = e.pid
  BY DEF Entries
<1>2. f.exited = TRUE /\ f.just_spawn = e.just_spawn /\ f.exiting = e.exiting /\ f.detached = e.detached
  BY Zenon DEF Entries
<1>3. f \in Entries
  BY DEF Entries
<1> QED
  BY <1>1, <1>2, <1>3

(* The slots stay and no child is waited for.                               *)
LEMMA SlotsStay ==
  ASSUME NEW t, NEW pr, NEW n, Tracked(t, pr, n),
         NEW r, r \in Seq(Entries), DOMAIN r = DOMAIN t,
         \A i \in DOMAIN t : r[i].pid = t[i].pid /\ r[i].exited = t[i].exited,
         NEW q, Forked(q, n),
         \A p \in Pids : q[p].state \in Unwaited <=> pr[p].state \in Unwaited
  PROVE  Tracked(r, q, n)
<1>1. Rows(r, n)
  BY DEF Tracked, Rows
<1>2. ASSUME NEW i \in DOMAIN r, r[i].pid # Invalid, ~r[i].exited
      PROVE  q[r[i].pid].state \in Unwaited
  <2>1. t[i].pid \in Pids
    BY <1>2, PidsKnown DEF Tracked
  <2> QED
    BY <1>2, <2>1 DEF Tracked, Met
<1>3. Met(r, q)
  BY <1>2 DEF Tracked, Met
<1> QED
  BY <1>1, <1>3 DEF Tracked

-----------------------------------------------------------------------------
(* ngx_signal_worker_processes: what it takes for exited was so already,    *)
(* and just_spawn is cleared.                                               *)
Lost(t, pr, cmd) == {i \in Addressed(t, cmd) : pr[t[i].pid].state = "reaped"}

LEMMA MarkedFacts ==
  ASSUME NEW t, NEW pr, NEW n, Tracked(t, pr, n), NEW st, Just(t, st), NEW cmd,
         NEW lost, lost = Lost(t, pr, cmd),
         NEW r, r = Marked(t, cmd, lost)
  PROVE  /\ r \in Seq(Entries) /\ DOMAIN r = DOMAIN t
         /\ \A i \in DOMAIN t : r[i].pid = t[i].pid /\ r[i].exited = t[i].exited
         /\ Unmarked(r)
<1>1. t \in Seq(Entries) /\ \A i \in DOMAIN t : t[i] \in Entries
  BY DEF Tracked, Rows
<1>2. r = [i \in DOMAIN t |->
             IF i \in lost THEN [t[i] EXCEPT !.exited = TRUE, !.exiting = FALSE]
             ELSE IF i \in Addressed(t, cmd)
                  THEN [t[i] EXCEPT !.exiting = t[i].exiting \/ cmd # "reopen"]
             ELSE IF t[i].pid # Invalid /\ ~t[i].detached THEN [t[i] EXCEPT !.just_spawn = FALSE]
             ELSE t[i]]
  BY DEF Marked
<1>3. DOMAIN r = DOMAIN t
  BY <1>2
<1>4. ASSUME NEW i \in DOMAIN t
      PROVE  r[i] \in Entries /\ r[i].pid = t[i].pid /\ r[i].exited = t[i].exited /\ ~r[i].just_spawn
  <2> DEFINE e == t[i]
             f == r[i]
  <2>1. e \in Entries /\ e.exited \in BOOLEAN /\ e.exiting \in BOOLEAN
    BY <1>1 DEF Entries
  <2>2. CASE i \in lost
    <3>1. f = [e EXCEPT !.exited = TRUE, !.exiting = FALSE]
      BY <1>2, <2>2
    <3>2. i \in Addressed(t, cmd) /\ pr[t[i].pid].state = "reaped"
      BY <2>2 DEF Lost
    <3>3. t[i].pid # Invalid /\ ~e.just_spawn
      BY <3>2 DEF Addressed
    <3>4. e.exited
      BY <3>2, <3>3 DEF Tracked, Met, Unwaited
    <3> HIDE DEF e, f
    <3>5. f \in Entries /\ f.pid = e.pid /\ f.exited = TRUE /\ f.just_spawn = e.just_spawn
      BY <2>1, <3>1, EntryLost
    <3>6. e.exited = TRUE
      BY <2>1, <3>4
    <3> QED
      BY <3>3, <3>5, <3>6 DEF e, f
  <2>3. CASE i \notin lost /\ i \in Addressed(t, cmd)
    <3> DEFINE b == e.exiting \/ cmd # "reopen"
    <3>1. f = [e EXCEPT !.exiting = b]
      BY <1>2, <2>3
    <3>2. ~e.just_spawn
      BY <2>3 DEF Addressed
    <3>3. b \in BOOLEAN
      BY Zenon
    <3> HIDE DEF e, f, b
    <3>4. f \in Entries /\ f.pid = e.pid /\ f.exited = e.exited /\ f.just_spawn = e.just_spawn
      BY <2>1, <3>1, <3>3, EntryTold
    <3> QED
      BY <3>2, <3>4 DEF e, f
  <2>4. CASE i \notin lost /\ i \notin Addressed(t, cmd) /\ t[i].pid # Invalid /\ ~t[i].detached
    <3>1. f = [e EXCEPT !.just_spawn = FALSE]
      BY <1>2, <2>4
    <3> HIDE DEF e, f
    <3>2. f \in Entries /\ f.pid = e.pid /\ f.exited = e.exited /\ f.just_spawn = FALSE
      BY <2>1, <3>1, EntryCleared
    <3> QED
      BY <3>2 DEF e, f
  <2>5. CASE i \notin lost /\ i \notin Addressed(t, cmd) /\ ~(t[i].pid # Invalid /\ ~t[i].detached)
    <3>1. r[i] = t[i]
      BY <1>2, <2>5
    <3>2. ~t[i].just_spawn
      BY <2>5 DEF Just, JustFits
    <3> QED
      BY <1>1, <3>1, <3>2
  <2> QED
    BY <2>2, <2>3, <2>4, <2>5
<1>5. r \in Seq(Entries)
  <2> DEFINE l == Len(t)
  <2>1. l \in Nat /\ DOMAIN t = 1 .. l
    BY <1>1
  <2>2. r \in [1 .. l -> Entries]
    BY <1>2, <1>4, <2>1
  <2> HIDE DEF l
  <2> QED
    BY <2>1, <2>2
<1> QED
  BY <1>3, <1>4, <1>5 DEF Unmarked

-----------------------------------------------------------------------------
(* A child that runs or has ended goes on to another such state.            *)
Moved(e, f) == f = e \/ (e.state \in Unwaited /\ f \in Processes /\ f.state \in Unwaited)

LEMMA StateSet ==
  ASSUME NEW e \in Processes, NEW s, s \in Unwaited, NEW f, f = [e EXCEPT !.state = s],
         e.state \in Unwaited
  PROVE  Moved(e, f)
<1>1. f.state = s
  BY DEF Processes
<1>2. s \in States
  BY DEF Unwaited, States
<1>3. f \in Processes
  BY <1>2 DEF Processes
<1> QED
  BY <1>1, <1>3 DEF Moved

LEMMA ProcsMove ==
  ASSUME NEW pr, NEW n, Forked(pr, n), NEW q, q = [p \in Pids |-> q[p]],
         \A p \in Pids : Moved(pr[p], q[p])
  PROVE  /\ Forked(q, n)
         /\ \A p \in Pids : q[p].state \in Unwaited <=> pr[p].state \in Unwaited
<1>1. pr \in [Pids -> Processes] /\ \A p \in Pids : pr[p] \in Processes
  BY DEF Forked
<1>2. \A p \in Pids : q[p] \in Processes /\ (q[p].state \in Unwaited <=> pr[p].state \in Unwaited)
  BY <1>1 DEF Moved
<1>3. q \in [Pids -> Processes]
  BY <1>2
<1>4. \A p \in Pids : p > n => q[p].state = "none"
  BY DEF Forked, Moved, Unwaited
<1> QED
  BY <1>2, <1>3, <1>4 DEF Forked

LEMMA Primes ==
  /\ Tracked(table, proc, pids)' <=> Tracked(table', proc', pids')
  /\ Just(table, stage)' <=> Just(table', stage')
BY DEF Tracked, Rows, Forked, Met, Just, JustFits

LEMMA UnmarkedFits ==
  ASSUME NEW t, Unmarked(t), NEW st
  PROVE  Just(t, st)
BY DEF Unmarked, Just, JustFits

(* The table stays and no child is waited for.                              *)
LEMMA ChildStep ==
  ASSUME MpInv, UNCHANGED <<table, pids, stage, cycle>>,
         proc' = [p \in Pids |-> proc'[p]], \A p \in Pids : Moved(proc[p], proc'[p])
  PROVE  MpInv'
<1>1. Tracked(table, proc, pids) /\ Just(table, stage) /\ cycle \in Nat
  BY DEF MpInv
<1>2. /\ Forked(proc', pids)
      /\ \A p \in Pids : proc'[p].state \in Unwaited <=> proc[p].state \in Unwaited
  BY <1>1, ProcsMove DEF Tracked
<1>3. Tracked(table, proc', pids)
  <2>1. table \in Seq(Entries)
    BY <1>1 DEF Tracked, Rows
  <2> QED
    BY <1>1, <1>2, <2>1, SlotsStay
<1> QED
  BY <1>1, <1>3, Primes DEF MpInv

(* ngx_signal_worker_processes.                                             *)
LEMMA SignalStep ==
  ASSUME MpInv, NEW cmd, NEW rest, SignalWorkers(table, cmd, rest),
         pids' = pids, cycle' = cycle
  PROVE  MpInv'
<1> DEFINE lost == Lost(table, proc, cmd)
           told == {table[i].pid : i \in Addressed(table, cmd) \ lost}
<1>1. Tracked(table, proc, pids) /\ Just(table, stage) /\ cycle \in Nat
  BY DEF MpInv
<1>2. table' = Marked(table, cmd, lost)
  BY DEF SignalWorkers, Lost
<1>3. \/ proc' = proc
      \/ proc' = [p \in Pids |->
             IF p \in told /\ proc[p].state \in {"up", "drain"}
             THEN [proc[p] EXCEPT !.state = "zombie"] ELSE proc[p]]
  BY DEF SignalWorkers, Lost
<1> HIDE DEF lost, told
<1>4. /\ table' \in Seq(Entries) /\ DOMAIN table' = DOMAIN table
      /\ \A i \in DOMAIN table : table'[i].pid = table[i].pid /\ table'[i].exited = table[i].exited
      /\ Unmarked(table')
  BY <1>1, <1>2, MarkedFacts DEF lost
<1>5. proc \in [Pids -> Processes] /\ \A p \in Pids : proc[p] \in Processes
  BY <1>1 DEF Tracked, Forked
<1>6. proc' = [p \in Pids |-> proc'[p]]
  BY <1>3, <1>5
<1>7. ASSUME NEW p \in Pids PROVE Moved(proc[p], proc'[p])
  <2>1. CASE proc'[p] = proc[p]
    BY <2>1 DEF Moved
  <2>2. CASE proc'[p] # proc[p]
    <3>1. proc[p].state \in {"up", "drain"} /\ proc'[p] = [proc[p] EXCEPT !.state = "zombie"]
      BY <1>3, <2>2
    <3> DEFINE e == proc[p]
               f == proc'[p]
               s == "zombie"
    <3>2. e \in Processes /\ s \in Unwaited /\ f = [e EXCEPT !.state = s] /\ e.state \in Unwaited
      BY <1>5, <3>1 DEF Unwaited
    <3> HIDE DEF e, f, s
    <3>3. Moved(e, f)
      BY <3>2, StateSet
    <3> QED
      BY <3>3 DEF e, f
  <2> QED
    BY <2>1, <2>2
<1>8. /\ Forked(proc', pids)
      /\ \A p \in Pids : proc'[p].state \in Unwaited <=> proc[p].state \in Unwaited
  BY <1>1, <1>6, <1>7, ProcsMove DEF Tracked
<1>9. Tracked(table', proc', pids)
  BY <1>1, <1>4, <1>8, SlotsStay
<1>10. Just(table', stage')
  BY <1>4, UnmarkedFits
<1> QED
  BY <1>1, <1>9, <1>10, Primes DEF MpInv

(* The master goes on to another stage.                                     *)
LEMMA StageStep ==
  ASSUME MpInv, Unmarked(table), UNCHANGED <<table, proc, pids, cycle>>
  PROVE  MpInv'
<1>1. Tracked(table, proc, pids) /\ cycle \in Nat /\ Just(table, stage')
  BY UnmarkedFits DEF MpInv
<1> QED
  BY <1>1, Primes DEF MpInv

-----------------------------------------------------------------------------
(* ngx_process_get_status: the children that have ended are waited for and  *)
(* their entries marked.                                                    *)
LEMMA StateReaped ==
  ASSUME NEW e \in Processes, NEW s, s \in States, NEW f, f = [e EXCEPT !.state = s]
  PROVE  f \in Processes /\ f.state = s
BY DEF Processes

LEMMA StatusStep ==
  ASSUME MpInv, Unmarked(table), GetStatus, pids' = pids, cycle' = cycle
  PROVE  MpInv'
<1>1. Rows(table, pids) /\ Forked(proc, pids) /\ Met(table, proc) /\ cycle \in Nat
  BY DEF MpInv, Tracked
<1>2. table \in Seq(Entries) /\ \A i \in DOMAIN table : table[i] \in Entries
  BY <1>1 DEF Rows
<1>3. proc \in [Pids -> Processes] /\ \A p \in Pids : proc[p] \in Processes
  BY <1>1 DEF Forked
<1>4. table' = [i \in DOMAIN table |->
        IF table[i].pid \in Zombies
        THEN [table[i] EXCEPT !.exited = TRUE,
                !.respawn = table[i].respawn /\ proc[table[i].pid].state # "fatal"]
        ELSE table[i]]
  BY DEF GetStatus
<1>5. proc' = [p \in Pids |->
        IF p \in Zombies THEN [proc[p] EXCEPT !.state = "reaped"] ELSE proc[p]]
  BY DEF GetStatus
<1>6. DOMAIN table' = DOMAIN table
  BY <1>4
<1>7. ASSUME NEW i \in DOMAIN table
      PROVE  /\ table'[i] \in Entries /\ table'[i].pid = table[i].pid
             /\ table[i].pid \in Zombies => table'[i].exited
             /\ table[i].pid \notin Zombies => table'[i] = table[i]
             /\ ~table'[i].just_spawn
  <2>1. ~table[i].just_spawn
    BY DEF Unmarked
  <2>2. CASE table[i].pid \in Zombies
    <3> DEFINE e == table[i]
               f == table'[i]
               b == table[i].respawn /\ proc[table[i].pid].state # "fatal"
    <3>1. e \in Entries /\ f = [e EXCEPT !.exited = TRUE, !.respawn = b]
      BY <1>2, <1>4, <2>2
    <3>2. b \in BOOLEAN
      BY Zenon
    <3> HIDE DEF e, f, b
    <3>3. f \in Entries /\ f.pid = e.pid /\ f.exited = TRUE /\ f.just_spawn = e.just_spawn
      BY <3>1, <3>2, EntryStatus
    <3> QED
      BY <2>1, <2>2, <3>3 DEF e, f
  <2>3. CASE table[i].pid \notin Zombies
    BY <1>2, <1>4, <2>1, <2>3
  <2> QED
    BY <2>2, <2>3
<1>8. ASSUME NEW p \in Pids
      PROVE  /\ proc'[p] \in Processes
             /\ p \in Zombies => proc[p].state \in Unwaited /\ proc'[p].state = "reaped"
             /\ p \notin Zombies => proc'[p] = proc[p]
  <2>1. CASE p \in Zombies
    <3> DEFINE e == proc[p]
               f == proc'[p]
               s == "reaped"
    <3>1. e \in Processes /\ s \in States /\ f = [e EXCEPT !.state = s]
      BY <1>3, <1>5, <2>1 DEF States
    <3> HIDE DEF e, f, s
    <3>2. f \in Processes /\ f.state = s
      BY <3>1, StateReaped
    <3>3. proc[p].state \in Unwaited
      BY <2>1 DEF Zombies, Unwaited
    <3> QED
      BY <2>1, <3>2, <3>3 DEF e, f, s
  <2>2. CASE p \notin Zombies
    BY <1>3, <1>5, <2>2
  <2> QED
    BY <2>1, <2>2
<1>9. table' \in Seq(Entries)
  <2> DEFINE l == Len(table)
  <2>1. l \in Nat /\ DOMAIN table = 1 .. l
    BY <1>2
  <2>2. table' \in [1 .. l -> Entries]
    BY <1>4, <1>7, <2>1
  <2> HIDE DEF l
  <2> QED
    BY <2>1, <2>2
<1>10. Rows(table', pids')
  BY <1>1, <1>6, <1>7, <1>9 DEF Rows
<1>11. Forked(proc', pids')
  <2>1. proc' \in [Pids -> Processes]
    BY <1>5, <1>8
  <2>2. \A p \in Pids : p > pids => proc'[p].state = "none"
    BY <1>1, <1>8 DEF Forked, Unwaited
  <2> QED
    BY <1>1, <2>1, <2>2 DEF Forked
<1>12. ASSUME NEW p \in Pids, proc'[p].state \in Unwaited
       PROVE  \E i \in DOMAIN table' : table'[i].pid = p /\ ~table'[i].exited
  <2>1. p \notin Zombies /\ proc[p].state \in Unwaited
    BY <1>8, <1>12 DEF Unwaited
  <2>2. PICK i \in DOMAIN table : table[i].pid = p /\ ~table[i].exited
    BY <1>1, <2>1 DEF Met
  <2> QED
    BY <1>6, <1>7, <2>1, <2>2
<1>13. ASSUME NEW i \in DOMAIN table', table'[i].pid # Invalid, ~table'[i].exited
       PROVE  proc'[table'[i].pid].state \in Unwaited
  <2>1. table[i].pid \notin Zombies /\ table'[i] = table[i]
    BY <1>6, <1>7, <1>13
  <2>2. table[i].pid \in Pids
    BY <1>1, <1>6, <1>13, <2>1, PidsKnown
  <2>3. proc[table[i].pid].state \in Unwaited
    BY <1>1, <1>6, <1>13, <2>1 DEF Met
  <2> QED
    BY <1>8, <2>1, <2>2, <2>3
<1>14. Met(table', proc')
  BY <1>12, <1>13 DEF Met
<1>15. Just(table', stage')
  BY <1>6, <1>7, UnmarkedFits DEF Unmarked
<1>16. Tracked(table', proc', pids')
  BY <1>10, <1>11, <1>14 DEF Tracked
<1> QED
  BY <1>1, <1>15, <1>16, Primes DEF MpInv

-----------------------------------------------------------------------------
(* ngx_reap_children frees the slots of children that have exited: no other *)
(* entry is touched.                                                        *)
LEMMA FreedEntry == FreeEntry \in Entries /\ FreeEntry.pid = Invalid /\ ~FreeEntry.just_spawn
<1> DEFINE e == Entry(Invalid, "free", FALSE)
           f == FreeEntry
<1>1. e \in Entries /\ e.pid = Invalid /\ ~e.just_spawn
  BY DEF Entry, Entries, Invalid
<1>2. f = [e EXCEPT !.detached = FALSE]
  BY DEF FreeEntry
<1> HIDE DEF e, f
<1>3. f.pid = e.pid
  BY <1>1, <1>2 DEF Entries
<1>4. f.just_spawn = e.just_spawn
  BY <1>1, <1>2, Zenon DEF Entries
<1>5. f \in Entries
  BY <1>1, <1>2 DEF Entries
<1> QED
  BY <1>1, <1>3, <1>4, <1>5 DEF f

LEMMA FreeSlotsFacts ==
  ASSUME NEW t \in Seq(Entries), NEW gone, gone \subseteq DOMAIN t,
         NEW r, r = FreeSlots(t, gone)
  PROVE  /\ r \in Seq(Entries) /\ DOMAIN r \subseteq DOMAIN t
         /\ \A i \in DOMAIN r : r[i] = IF i \in gone THEN FreeEntry ELSE t[i]
         /\ \A i \in DOMAIN t : i \notin gone => i \in DOMAIN r
<1> DEFINE l == Len(t)
           freed == [i \in DOMAIN t |-> IF i \in gone THEN FreeEntry ELSE t[i]]
<1>1. l \in Nat /\ DOMAIN t = 1 .. l /\ \A i \in 1 .. l : t[i] \in Entries
  OBVIOUS
<1>2. r = IF l \in gone THEN SubSeq(freed, 1, Len(freed) - 1) ELSE freed
  BY DEF FreeSlots, Front
<1>3. freed \in [1 .. l -> Entries]
  BY <1>1, FreedEntry
<1>4. \A i \in 1 .. l : freed[i] = IF i \in gone THEN FreeEntry ELSE t[i]
  BY <1>1
<1> HIDE DEF l, freed
<1>5. freed \in Seq(Entries) /\ Len(freed) = l /\ DOMAIN freed = 1 .. l
  BY <1>1, <1>3
<1>6. CASE l \notin gone
  BY <1>1, <1>2, <1>4, <1>5, <1>6
<1>7. CASE l \in gone
  <2>1. l - 1 \in Nat /\ l \in 1 .. l
    BY <1>1, <1>7
  <2>2. r = SubSeq(freed, 1, l - 1)
    BY <1>2, <1>5, <1>7
  <2>3. DOMAIN r = 1 .. l - 1 /\ \A i \in 1 .. l - 1 : r[i] = freed[i] /\ i \in 1 .. l
    BY <1>5, <2>1, <2>2
  <2>4. r \in Seq(Entries)
    BY <1>5, <2>1, <2>2, <2>3
  <2>5. \A i \in 1 .. l : i \notin gone => i \in 1 .. l - 1
    BY <1>1, <1>7
  <2> QED
    BY <1>1, <1>4, <2>3, <2>4, <2>5
<1> QED
  BY <1>6, <1>7

LEMMA FreeSlotsTracked ==
  ASSUME NEW t, NEW pr, NEW n, Tracked(t, pr, n), Unmarked(t),
         NEW gone, gone \subseteq Exited(t), NEW r, r = FreeSlots(t, gone)
  PROVE  Tracked(r, pr, n) /\ Unmarked(r)
<1>1. Rows(t, n) /\ Forked(pr, n) /\ Met(t, pr) /\ t \in Seq(Entries)
  BY DEF Tracked, Rows
<1>2. gone \subseteq DOMAIN t /\ \A i \in gone : t[i].exited
  BY DEF Exited
<1>3. /\ r \in Seq(Entries) /\ DOMAIN r \subseteq DOMAIN t
      /\ \A i \in DOMAIN r : r[i] = IF i \in gone THEN FreeEntry ELSE t[i]
      /\ \A i \in DOMAIN t : i \notin gone => i \in DOMAIN r
  BY <1>1, <1>2, FreeSlotsFacts
<1>4. \A i \in DOMAIN r : /\ r[i].pid = Invalid \/ (r[i] = t[i] /\ i \notin gone)
                          /\ ~r[i].just_spawn
  BY <1>3, FreedEntry DEF Unmarked
<1>5. Rows(r, n)
  BY <1>1, <1>3, <1>4 DEF Rows
<1>6. ASSUME NEW p \in Pids, pr[p].state \in Unwaited
      PROVE  \E i \in DOMAIN r : r[i].pid = p /\ ~r[i].exited
  <2>1. PICK i \in DOMAIN t : t[i].pid = p /\ ~t[i].exited
    BY <1>1, <1>6 DEF Met
  <2>2. i \notin gone /\ i \in DOMAIN r /\ r[i] = t[i]
    BY <1>2, <1>3, <2>1
  <2> QED
    BY <2>1, <2>2
<1>7. \A i \in DOMAIN r : r[i].pid # Invalid /\ ~r[i].exited => pr[r[i].pid].state \in Unwaited
  BY <1>1, <1>3, <1>4 DEF Met
<1>8. Met(r, pr)
  BY <1>6, <1>7 DEF Met
<1> QED
  BY <1>1, <1>4, <1>5, <1>8 DEF Tracked, Unmarked

(* The children that are started again keep their slots, in the order of    *)
(* the slots.                                                               *)
KindsOf(good) == [k \in 1 .. Cardinality(good) |-> proc[table[Nth(good, k)].pid].kind]
Again(good) ==
  [i \in DOMAIN table |->
     IF i \in good THEN [table[i] EXCEPT !.exited = FALSE, !.pid = pids + Place(good, i)]
     ELSE table[i]]

LEMMA RespawnedTracked ==
  ASSUME Tracked(table, proc, pids), Unmarked(table),
         NEW good, good \subseteq Exited(table), NEW c \in Nat,
         NEW ks, ks = KindsOf(good), Fork(ks, c), NEW s, s = Again(good)
  PROVE  /\ Tracked(s, proc', pids') /\ Unmarked(s) /\ DOMAIN s = DOMAIN table
         /\ \A i \in DOMAIN table : i \notin good => s[i] = table[i]
<1> DEFINE m == Cardinality(good)
           l == Len(table)
<1>1. Rows(table, pids) /\ Forked(proc, pids) /\ Met(table, proc)
  BY DEF Tracked
<1>2. table \in Seq(Entries) /\ pids \in Nat /\ \A i \in DOMAIN table : table[i] \in Entries
  BY <1>1 DEF Rows, Forked
<1>3. l \in Nat /\ DOMAIN table = 1 .. l
  BY <1>2
<1>4. good \subseteq DOMAIN table /\ \A i \in good : table[i].exited /\ table[i].pid # Invalid
  BY DEF Exited
<1> HIDE DEF l
<1>5. good \in SUBSET Int /\ IsFiniteSet(good) /\ m \in Nat
  <2>1. IsFiniteSet(1 .. l)
    BY <1>3, FS_Interval
  <2>2. IsFiniteSet(good)
    BY <1>3, <1>4, <2>1, FS_Subset
  <2> QED
    BY <1>3, <1>4, <2>2, FS_CardinalityType
<1>6. \A k \in 1 .. m : Nth(good, k) \in good /\ Place(good, Nth(good, k)) = k
  BY <1>5, NthInPlace
<1>7. ks \in Seq(KindNames) /\ Len(ks) = m /\ DOMAIN ks = 1 .. m
  <2>1. ASSUME NEW k \in 1 .. m PROVE ks[k] \in KindNames
    <3> DEFINE i == Nth(good, k)
    <3>1. i \in DOMAIN table /\ table[i].pid # Invalid
      BY <1>4, <1>6
    <3>2. ks[k] = proc[table[i].pid].kind
      BY DEF KindsOf
    <3> HIDE DEF i
    <3>3. proc[table[i].pid] \in Processes
      BY <1>1, <3>1, PidsKnown
    <3> QED
      BY <3>2, <3>3 DEF Processes
  <2>2. ks \in [1 .. m -> KindNames]
    BY <2>1 DEF KindsOf
  <2> HIDE DEF m
  <2> QED
    BY <1>5, <2>2
<1> HIDE DEF m
<1>8. /\ Forked(proc', pids') /\ pids' = pids + m
      /\ \A p \in Pids : p <= pids => proc'[p] = proc[p]
      /\ \A k \in 1 .. m : pids + k \in Pids /\ proc'[pids + k].state = "up"
      /\ \A p \in Pids : p > pids /\ proc'[p].state \in Unwaited =>
           \E k \in 1 .. m : p = pids + k
  BY <1>1, <1>7, ForkFacts
<1>9. DOMAIN s = DOMAIN table /\ \A i \in DOMAIN table : i \notin good => s[i] = table[i]
  BY DEF Again
<1>10. ASSUME NEW i \in good
       PROVE  /\ Place(good, i) \in 1 .. m
              /\ s[i] \in Entries /\ s[i].pid = pids + Place(good, i) /\ ~s[i].exited
              /\ ~s[i].just_spawn /\ pids + Place(good, i) \in 1 .. pids' /\ s[i].pid > pids
              /\ s[i].pid # Invalid
  <2>1. Place(good, i) \in 1 .. m
    BY <1>5, PlaceInRange DEF m
  <2> DEFINE e == table[i]
             f == s[i]
             p == pids + Place(good, i)
  <2>2. e \in Entries /\ p \in Int /\ i \in DOMAIN table
    BY <1>2, <1>4, <1>5, <2>1
  <2>3. RunsAs(e, f, p)
    BY <2>2, Zenon DEF Again, RunsAs
  <2>4. p \in 1 .. pids' /\ p > pids /\ p # Invalid
    BY <1>2, <1>5, <1>8, <2>1 DEF Invalid
  <2>5. ~e.just_spawn
    BY <1>4 DEF Unmarked
  <2> HIDE DEF e, f, p
  <2>6. f \in Entries /\ f.pid = p /\ f.exited = FALSE /\ f.just_spawn = e.just_spawn
    <3>1. RunsFor(e, f, p)
      BY <2>2, <2>3, EntryRespawned
    <3> QED
      BY <3>1, Zenon DEF RunsFor
  <2> QED
    BY <2>1, <2>4, <2>5, <2>6 DEF e, f, p
<1>11. \A i \in DOMAIN s : s[i] \in Entries
  BY <1>2, <1>9, <1>10
<1>12. s \in Seq(Entries)
  <2>1. s \in [1 .. l -> Entries]
    BY <1>3, <1>11 DEF Again
  <2> QED
    BY <1>3, <2>1
<1>13. Unmarked(s)
  BY <1>9, <1>10 DEF Unmarked
<1>14. \A i \in DOMAIN table : table[i].pid = Invalid \/ (table[i].pid \in 1 .. pids /\ ~(table[i].pid > pids))
  <2>1. \A p \in 1 .. pids : ~(p > pids)
    BY <1>2
  <2> QED
    BY <1>1, <2>1 DEF Rows
<1>15. 1 .. pids \subseteq 1 .. pids'
  BY <1>2, <1>5, <1>8
<1>16. \A i \in DOMAIN s : s[i].pid = Invalid \/ s[i].pid \in 1 .. pids'
  BY <1>9, <1>10, <1>14, <1>15
<1>17. ASSUME NEW i \in DOMAIN s, NEW j \in DOMAIN s, s[i].pid # Invalid, s[i].pid = s[j].pid
       PROVE  i = j
  <2>1. CASE i \in good /\ j \in good
    <3>1. Place(good, i) = Place(good, j)
      <4>1. /\ Place(good, i) \in 1 .. m /\ Place(good, j) \in 1 .. m
            /\ pids + Place(good, i) = pids + Place(good, j)
        BY <1>10, <1>17, <2>1
      <4> QED
        BY <1>2, <1>5, <4>1
    <3> QED
      BY <1>5, <2>1, <3>1, PlaceInjective
  <2>2. CASE i \notin good /\ j \notin good
    BY <1>1, <1>9, <1>17, <2>2 DEF Rows
  <2>3. CASE (i \in good /\ j \notin good) \/ (i \notin good /\ j \in good)
    BY <1>9, <1>10, <1>14, <1>17, <2>3
  <2> QED
    BY <2>1, <2>2, <2>3
<1>18. Rows(s, pids')
  BY <1>12, <1>16, <1>17 DEF Rows
<1>19. ASSUME NEW p \in Pids, proc'[p].state \in Unwaited
       PROVE  \E i \in DOMAIN s : s[i].pid = p /\ ~s[i].exited
  <2>1. CASE p > pids
    <3>1. PICK k \in 1 .. m : p = pids + k
      BY <1>8, <1>19, <2>1
    <3> DEFINE i == Nth(good, k)
    <3>2. i \in good /\ Place(good, i) = k
      BY <1>6
    <3> HIDE DEF i
    <3>3. i \in DOMAIN s /\ s[i].pid = p /\ ~s[i].exited
      BY <1>4, <1>9, <1>10, <3>1, <3>2
    <3> QED
      BY <3>3
  <2>2. CASE p <= pids
    <3>1. proc[p].state \in Unwaited
      BY <1>8, <1>19, <2>2
    <3>2. PICK i \in DOMAIN table : table[i].pid = p /\ ~table[i].exited
      BY <1>1, <3>1 DEF Met
    <3> QED
      BY <1>4, <1>9, <3>2
  <2>3. p \in Int
    BY BoundIsNat DEF Pids
  <2> QED
    BY <1>2, <2>1, <2>2, <2>3
<1>20. ASSUME NEW i \in DOMAIN s, s[i].pid # Invalid, ~s[i].exited
       PROVE  proc'[s[i].pid].state \in Unwaited
  <2>1. CASE i \in good
    BY <1>8, <1>10, <2>1 DEF Unwaited
  <2>2. CASE i \notin good
    <3>1. i \in DOMAIN table /\ s[i] = table[i]
      BY <1>9, <2>2
    <3>2. table[i].pid \in Pids /\ table[i].pid \in 1 .. pids
      BY <1>1, <1>20, <3>1, PidsKnown
    <3>3. table[i].pid <= pids
      BY <1>2, <3>2
    <3>4. proc[table[i].pid].state \in Unwaited
      BY <1>1, <1>20, <3>1 DEF Met
    <3> QED
      BY <1>8, <3>1, <3>2, <3>3, <3>4
  <2> QED
    BY <2>1, <2>2
<1>21. Met(s, proc')
  BY <1>19, <1>20 DEF Met
<1> QED
  BY <1>8, <1>9, <1>13, <1>18, <1>21 DEF Tracked

LEMMA ReapStep ==
  ASSUME MpInv, Unmarked(table), ReapChildren, cycle' = cycle
  PROVE  MpInv'
<1> DEFINE gone == Exited(table) \ Respawns(table)
<1>1. PICK good \in SUBSET Respawns(table) :
        Fork(KindsOf(good), cycle) /\ table' = FreeSlots(Again(good), gone)
  BY Zenon DEF ReapChildren, KindsOf, Again
<1> DEFINE s == Again(good)
           ks == KindsOf(good)
<1>2. Tracked(table, proc, pids) /\ cycle \in Nat
  BY DEF MpInv
<1>3. good \subseteq Exited(table) /\ good \cap gone = {} /\ gone \subseteq Exited(table)
  BY <1>1 DEF Respawns
<1>4. Fork(ks, cycle) /\ table' = FreeSlots(s, gone)
  BY <1>1
<1>5. /\ Tracked(s, proc', pids') /\ Unmarked(s) /\ DOMAIN s = DOMAIN table
      /\ \A i \in DOMAIN table : i \notin good => s[i] = table[i]
  BY <1>2, <1>3, <1>4, RespawnedTracked
<1> HIDE DEF s, ks, gone
<1>6. gone \subseteq Exited(s)
  BY <1>3, <1>5 DEF Exited
<1>7. Tracked(table', proc', pids') /\ Unmarked(table')
  BY <1>4, <1>5, <1>6, FreeSlotsTracked
<1>8. Just(table', stage')
  BY <1>7, UnmarkedFits
<1> QED
  BY <1>2, <1>7, <1>8, Primes DEF MpInv

-----------------------------------------------------------------------------
(* ngx_exec_new_binary: one detached child more, or none.                   *)
LEMMA BinaryStep ==
  ASSUME MpInv, Unmarked(table), ChangeBinary
  PROVE  MpInv'
<1>1. Tracked(table, proc, pids) /\ cycle \in Nat /\ cycle' = cycle /\ pids \in Nat
      /\ table \in Seq(Entries)
  BY DEF MpInv, ChangeBinary, Tracked, Forked, Rows
<1>2. CASE UNCHANGED <<table, proc, pids>>
  BY <1>1, <1>2, StageStep
<1>3. ASSUME Fork(<<"binary">>, cycle), table' = SpawnInto(table, <<Entry(pids', "binary", FALSE)>>)
      PROVE  MpInv'
  <2> DEFINE e == Entry(pids + 1, "binary", FALSE)
             ks == <<"binary">>
             es == <<e>>
  <2>1. pids' = pids + 1
    BY <1>3 DEF Fork
  <2>2. ks \in Seq(KindNames) /\ DOMAIN ks = 1 .. 1 /\ Fork(ks, cycle)
    BY <1>3 DEF KindNames
  <2>3. e \in Entries /\ e.pid = pids + 1 /\ ~e.exited
    <3> DEFINE p == pids + 1
    <3>1. p \in Int
      BY <1>1
    <3> HIDE DEF p
    <3>2. Entry(p, "binary", FALSE) \in Entries /\ Entry(p, "binary", FALSE).pid = p
      BY <3>1 DEF Entry, Entries
    <3>3. ~Entry(p, "binary", FALSE).exited
      BY Zenon DEF Entry
    <3> QED
      BY <3>2, <3>3 DEF p
  <2>4. ~e.just_spawn
    BY Zenon DEF Entry
  <2>5. table' = SpawnInto(table, es)
    BY <1>3, <2>1
  <2> HIDE DEF e, ks
  <2>6. es \in Seq(Entries) /\ DOMAIN es = 1 .. 1 /\ es[1] = e
    BY <2>3
  <2> HIDE DEF es
  <2>7. \A k \in 1 .. 1 : k = 1
    OBVIOUS
  <2>8. \A k \in DOMAIN es : es[k].pid = pids + k /\ ~es[k].exited /\ JustFits(es[k], stage')
    BY <2>3, <2>4, <2>6, <2>7 DEF JustFits
  <2>9. Tracked(table', proc', pids')
    BY <1>1, <2>2, <2>5, <2>6, <2>8, SpawnTracked
  <2>10. \A i \in DOMAIN table : ~table[i].just_spawn
    BY DEF Unmarked
  <2>11. Just(table', stage')
    BY <1>1, <2>5, <2>6, <2>8, <2>10, SpawnJust
  <2> QED
    BY <1>1, <2>9, <2>11, Primes DEF MpInv
<1> QED
  BY <1>2, <1>3 DEF ChangeBinary

-----------------------------------------------------------------------------
LEMMA MpInit == Init => MpInv
<1> SUFFICES ASSUME Init PROVE MpInv
  OBVIOUS
<1>1. table = <<>> /\ pids = 0 /\ cycle = 1
  BY DEF Init
<1>2. table \in Seq(Entries) /\ DOMAIN table = {}
  BY <1>1
<1>3. proc \in [Pids -> Processes] /\ \A p \in Pids : proc[p].state = "none"
  BY DEF Init, Processes, States, KindNames
<1>4. Rows(table, pids) /\ Just(table, stage)
  BY <1>2 DEF Rows, Just
<1>5. Forked(proc, pids)
  BY <1>1, <1>3, BoundIsNat DEF Forked
<1>6. Met(table, proc)
  BY <1>2, <1>3 DEF Met, Unwaited
<1> QED
  BY <1>1, <1>4, <1>5, <1>6 DEF MpInv, Tracked

(* A step of one child.                                                     *)
LEMMA OneChildStep ==
  ASSUME MpInv, UNCHANGED <<table, pids, stage, cycle>>, NEW p \in Pids, NEW s, s \in Unwaited,
         proc[p].state \in Unwaited, proc' = [proc EXCEPT ![p].state = s]
  PROVE  MpInv'
<1>1. proc \in [Pids -> Processes] /\ \A q \in Pids : proc[q] \in Processes
  BY DEF MpInv, Tracked, Forked
<1>2. proc' = [q \in Pids |-> proc'[q]]
  BY <1>1
<1>3. ASSUME NEW q \in Pids PROVE Moved(proc[q], proc'[q])
  <2>1. CASE q # p
    BY <1>1, <2>1 DEF Moved
  <2>2. CASE q = p
    <3> DEFINE e == proc[p]
               f == proc'[p]
    <3>1. e \in Processes /\ f = [e EXCEPT !.state = s] /\ e.state \in Unwaited
      BY <1>1
    <3> HIDE DEF e, f
    <3>2. Moved(e, f)
      BY <3>1, StateSet
    <3> QED
      BY <2>2, <3>2 DEF e, f
  <2> QED
    BY <2>1, <2>2
<1> QED
  BY <1>2, <1>3, ChildStep

LEMMA EndsStep ==
  ASSUME MpInv, NEW p \in Pids, NEW s, s \in Unwaited, proc[p].state \in Unwaited, Ends(p, s)
  PROVE  MpInv'
BY OneChildStep DEF Ends, master

LEMMA ObeyStep ==
  ASSUME MpInv, NEW p \in Pids, Obey(p)
  PROVE  MpInv'
<1> DEFINE exits == \/ "terminate" \in inbox[p]
                    \/ "quit" \in inbox[p] /\ proc[p].kind # "worker"
           s == IF exits THEN "zombie" ELSE IF "quit" \in inbox[p] THEN "drain" ELSE proc[p].state
<1>1. proc[p].state \in Unwaited
  BY DEF Obey, Runs, Unwaited
<1>2. s \in Unwaited
  BY <1>1 DEF Unwaited
<1>3. UNCHANGED <<table, pids, stage, cycle>>
  BY DEF Obey, master
<1>4. proc' = [proc EXCEPT ![p].state = s]
  BY DEF Obey
<1> HIDE DEF s
<1> QED
  BY <1>1, <1>2, <1>3, <1>4, OneChildStep

LEMMA NotMarking == MarkFits(FALSE, stage') /\ (stage' = "quit old" => MarkFits(TRUE, stage'))
BY DEF MarkFits

LEMMA MpNext == MpInv /\ [Next]_vars => MpInv'
<1> SUFFICES ASSUME MpInv, [Next]_vars PROVE MpInv'
  OBVIOUS
<1>0. cycle \in Nat /\ cycle + 1 \in Nat
  BY DEF MpInv
<1>1. CASE Start
  <2>1. Unmarked(table)
    BY <1>1, UnmarkedElsewhere DEF Start
  <2>2. StartProcesses(FALSE, cycle) /\ cycle' = cycle
    BY <1>1 DEF Start
  <2> QED
    BY <1>0, <2>1, <2>2, NotMarking, StartStep
<1>2. CASE LoopTop \/ Exit \/ ReconfigureRejected \/ NoReconfigure \/ NoRestart
  <2>1. Unmarked(table)
    BY <1>2, UnmarkedElsewhere DEF LoopTop, Exit, ReconfigureRejected, NoReconfigure, NoRestart, Running, Staying
  <2>2. UNCHANGED <<table, proc, pids, cycle>>
    BY <1>2 DEF LoopTop, Exit, ReconfigureRejected, NoReconfigure, NoRestart, children
  <2> QED
    BY <2>1, <2>2, StageStep
<1>3. CASE Wake
  <2>1. Unmarked(table)
    BY <1>3, UnmarkedElsewhere DEF Wake
  <2>2. cycle' = cycle /\ pids' = pids /\ (GetStatus \/ UNCHANGED <<table, proc>>)
    BY <1>3, Zenon DEF Wake
  <2> QED
    BY <2>1, <2>2, StatusStep, StageStep
<1>4. CASE Reap
  <2>1. Unmarked(table)
    BY <1>4, UnmarkedElsewhere DEF Reap
  <2>2. cycle' = cycle /\ (ReapChildren \/ UNCHANGED <<table, proc, pids>>)
    BY <1>4, Zenon DEF Reap
  <2> QED
    BY <2>1, <2>2, ReapStep, StageStep
<1>5. CASE Terminate
  <2>1. Unmarked(table)
    BY <1>5, UnmarkedElsewhere DEF Terminate, Staying
  <2>2. cycle' = cycle /\ pids' = pids
    BY <1>5, Zenon DEF Terminate
  <2> DEFINE cmd == IF delay' > KillDelay THEN "kill" ELSE "terminate"
  <2>3. SignalWorkers(table, cmd, flags) \/ UNCHANGED <<table, proc>>
    BY <1>5, Zenon DEF Terminate
  <2> HIDE DEF cmd
  <2> QED
    BY <2>1, <2>2, <2>3, SignalStep, StageStep
<1>6. CASE Quit \/ QuitOldWorkers
  BY <1>6, SignalStep DEF Quit, QuitOldWorkers
<1>7. CASE ReconfigureOldBinary \/ Restart
  <2>1. Unmarked(table)
    BY <1>7, UnmarkedElsewhere DEF ReconfigureOldBinary, Restart, Running, Staying
  <2>2. StartProcesses(FALSE, cycle) /\ cycle' = cycle
    BY <1>7 DEF ReconfigureOldBinary, Restart
  <2> QED
    BY <1>0, <2>1, <2>2, NotMarking, StartStep
<1>8. CASE Reconfigure
  <2>1. Unmarked(table)
    BY <1>8, UnmarkedElsewhere DEF Reconfigure, Running, Staying
  <2>2. StartProcesses(TRUE, cycle + 1) /\ cycle' = cycle + 1 /\ stage' = "quit old"
    BY <1>8 DEF Reconfigure
  <2> QED
    BY <1>0, <2>1, <2>2, NotMarking, StartStep
<1>9. CASE Reopen \/ NoAccept
  <2>1. Unmarked(table)
    BY <1>9, UnmarkedElsewhere DEF Reopen, NoAccept
  <2>2. cycle' = cycle /\ pids' = pids
    BY <1>9 DEF Reopen, NoAccept
  <2>3. \/ SignalWorkers(table, "reopen", flags \ {"reopen"})
        \/ SignalWorkers(table, "quit", flags \ {"noaccept"})
        \/ UNCHANGED <<table, proc>>
    BY <1>9, Zenon DEF Reopen, NoAccept
  <2> QED
    BY <2>1, <2>2, <2>3, SignalStep, StageStep
<1>10. CASE ChangeBinary
  BY <1>10, UnmarkedElsewhere, BinaryStep DEF ChangeBinary
<1>11. CASE Alarm \/ (\E s \in Operator : Send(s)) \/ UNCHANGED vars
  <2>1. UNCHANGED <<table, proc, pids, cycle, stage>>
    BY <1>11 DEF Alarm, Send, vars, master, children
  <2> QED
    BY <2>1 DEF MpInv, Tracked, Rows, Forked, Met, Just, JustFits
<1>12. ASSUME NEW p \in Pids, Child(p) \/ Crash(p) \/ FatalExit(p) PROVE MpInv'
  <2>1. CASE Obey(p)
    BY <2>1, ObeyStep
  <2>2. CASE Drained(p) \/ LoaderDone(p) \/ Crash(p) \/ FatalExit(p)
    <3>1. proc[p].state \in Unwaited /\ (Ends(p, "zombie") \/ Ends(p, "fatal"))
      BY <2>2 DEF Drained, LoaderDone, Crash, FatalExit, Runs, Unwaited
    <3>2. "zombie" \in Unwaited /\ "fatal" \in Unwaited
      BY DEF Unwaited
    <3> QED
      BY <3>1, <3>2, EndsStep
  <2> QED
    BY <1>12, <2>1, <2>2 DEF Child
<1> QED
  BY <1>1, <1>2, <1>3, <1>4, <1>5, <1>6, <1>7, <1>8, <1>9, <1>10, <1>11, <1>12 DEF Next, Turn

(* A pid that is not waited for has one slot.                               *)
LEMMA OneSlot ==
  ASSUME MpInv, NEW p \in Children
  PROVE  Cardinality({i \in DOMAIN table : table[i].pid = p /\ ~table[i].exited}) = 1
<1> DEFINE S == {i \in DOMAIN table : table[i].pid = p /\ ~table[i].exited}
<1>1. Rows(table, pids) /\ Met(table, proc)
  BY DEF MpInv, Tracked
<1>2. p \in Pids /\ proc[p].state \in Unwaited /\ p # Invalid
  BY BoundIsNat DEF Children, Unwaited, Pids, Invalid
<1>3. PICK i \in DOMAIN table : table[i].pid = p /\ ~table[i].exited
  BY <1>1, <1>2 DEF Met
<1>4. S = {i}
  BY <1>1, <1>2, <1>3 DEF Rows
<1> HIDE DEF S
<1>5. Cardinality(S) = 1
  BY <1>4, FS_Singleton
<1> QED
  BY <1>5 DEF S

(* The master's table and its children: whatever signals, reloads, deaths,  *)
(* upgrades and failing calls happen together, ngx_spawn_process,           *)
(* ngx_reap_children and ngx_process_get_status keep every child that has   *)
(* not been waited for in exactly one slot of ngx_processes, and take no    *)
(* other process for a running child.                                       *)
THEOREM ChildrenAreTracked == Spec => []ChildrenTracked
<1>1. MpInv => ChildrenTracked
  <2> SUFFICES ASSUME MpInv PROVE ChildrenTracked
    OBVIOUS
  <2>1. Rows(table, pids) /\ Forked(proc, pids) /\ Met(table, proc)
    BY DEF MpInv, Tracked
  <2>2. ASSUME NEW i \in DOMAIN table, table[i].pid # Invalid, ~table[i].exited
        PROVE  table[i].pid \in Children
    BY <2>1, <2>2, PidsKnown DEF Met, Children, Unwaited
  <2> QED
    BY <2>2, OneSlot DEF ChildrenTracked
<1> QED
  BY <1>1, MpInit, MpNext, PTL DEF Spec

(* just_spawn, which makes a new child miss the command to quit that        *)
(* follows a reload, is cleared by that command and set at no other time,   *)
(* so that no later command of ngx_signal_worker_processes is missed.       *)
THEOREM JustSpawnEnds == Spec => []JustSpawnIsBrief
<1>1. MpInv => JustSpawnIsBrief
  BY DEF MpInv, Just, JustFits, JustSpawnIsBrief
<1> QED
  BY <1>1, MpInit, MpNext, PTL DEF Spec

-----------------------------------------------------------------------------
(* No more than worker_processes workers of the configuration in use.       *)

Few(S) == IsFiniteSet(S) /\ Cardinality(S) <= N

LEMMA FewSubset ==
  ASSUME NEW S, Few(S), NEW T, T \in SUBSET S
  PROVE  Few(T)
<1>1. IsFiniteSet(T) /\ Cardinality(T) <= Cardinality(S) /\ IsFiniteSet(S) /\ Cardinality(S) <= N
  BY FS_Subset DEF Few
<1>2. Cardinality(T) \in Nat /\ Cardinality(S) \in Nat
  BY <1>1, FS_CardinalityType
<1> QED
  BY <1>1, <1>2, BoundIsNat DEF Few

(* What f makes of the numbers 1 .. N.                                      *)
LEMMA FewImage ==
  ASSUME NEW S, NEW f, \A x \in S : \E j \in 1 .. N : x = f[j]
  PROVE  Few(S)
<1> DEFINE D == {j \in 1 .. N : f[j] \in S}
           g == [j \in D |-> f[j]]
<1>1. IsFiniteSet(1 .. N) /\ Cardinality(1 .. N) = N
  <2>1. N \in Nat /\ 1 \in Int /\ N \in Int /\ (1 > N => N = 0) /\ N - 1 + 1 = N
    BY BoundIsNat
  <2> QED
    BY <2>1, FS_Interval
<1>2. D \in SUBSET (1 .. N)
  OBVIOUS
<1>3. g \in Surjection(D, S)
  <2>1. g \in [D -> S]
    OBVIOUS
  <2>2. \A x \in S : \E j \in D : g[j] = x
    OBVIOUS
  <2> HIDE DEF g, D
  <2> QED
    BY <2>1, <2>2 DEF Surjection
<1> HIDE DEF D, g
<1>4. IsFiniteSet(D) /\ Cardinality(D) <= Cardinality(1 .. N)
  BY <1>1, <1>2, FS_Subset
<1>5. IsFiniteSet(S) /\ Cardinality(S) <= Cardinality(D)
  BY <1>3, <1>4, FS_Surjection
<1>6. Cardinality(D) \in Nat /\ Cardinality(S) \in Nat
  BY <1>4, <1>5, FS_CardinalityType
<1> QED
  BY <1>1, <1>4, <1>5, <1>6, BoundIsNat DEF Few

(* Without upgrades and failing calls.  An entry is marked exited only for  *)
(* ngx_reap_children, which then starts the process again or frees the      *)
(* entry (may is whether it is about to).                                   *)
Fits(e, pr, c, may) ==
  e.pid # Invalid =>
    /\ ~e.detached
    /\ e.exited => may
    /\ pr[e.pid].cycle <= c
    /\ e.just_spawn => pr[e.pid].cycle = c

(* The entries of workers that count: those of the configuration in use,    *)
(* and the ones that would be started again with it.  While the processes   *)
(* of older configurations are yet to be told to quit, these do not.        *)
ToldNext(st) == st = "quit old"

Counts(e, pr, c, st) ==
  /\ e.pid # Invalid /\ pr[e.pid].kind = "worker"
  /\ pr[e.pid].cycle = c \/ (~e.exiting /\ ~ToldNext(st))

Bounded(t, pr, c, st, may) ==
  /\ \A i \in DOMAIN t : Fits(t[i], pr, c, may)
  /\ Few({i \in DOMAIN t : Counts(t[i], pr, c, st)})

LEMMA BoundedStays ==
  ASSUME NEW t, NEW pr, NEW c, NEW st, NEW may, Bounded(t, pr, c, st, may),
         NEW r, NEW q, NEW d, NEW su, NEW can,
         DOMAIN r \subseteq DOMAIN t,
         \A i \in DOMAIN r : /\ Fits(r[i], q, d, can)
                             /\ Counts(r[i], q, d, su) => Counts(t[i], pr, c, st)
  PROVE  Bounded(r, q, d, su, can)
<1> DEFINE A == {i \in DOMAIN t : Counts(t[i], pr, c, st)}
           B == {i \in DOMAIN r : Counts(r[i], q, d, su)}
<1>1. B \in SUBSET A
  OBVIOUS
<1>2. Few(A)
  BY DEF Bounded
<1> HIDE DEF A, B
<1>3. Few(B)
  BY <1>1, <1>2, FewSubset
<1> QED
  BY <1>3 DEF Bounded, B

(* The workers that run with the configuration in use have entries that     *)
(* count.                                                                   *)
LEMMA CurrentFew ==
  ASSUME MpInv, NEW st, NEW may, Bounded(table, proc, cycle, st, may)
  PROVE  WorkersBounded
<1> DEFINE S == {i \in DOMAIN table : Counts(table[i], proc, cycle, st)}
           f == [i \in S |-> table[i].pid]
           D == {i \in S : f[i] \in Current}
           g == [i \in D |-> f[i]]
<1>1. Few(S)
  BY DEF Bounded
<1>2. ASSUME NEW p \in Current PROVE \E i \in S : f[i] = p
  <2>1. p \in Pids /\ proc[p].state \in Unwaited /\ proc[p].kind = "worker" /\ proc[p].cycle = cycle
    BY DEF Current, Unwaited
  <2>2. p # Invalid
    BY <2>1 DEF Pids, Invalid
  <2>3. PICK i \in DOMAIN table : table[i].pid = p
    BY <2>1 DEF MpInv, Tracked, Met
  <2>4. i \in S
    BY <2>1, <2>2, <2>3 DEF Counts
  <2> QED
    BY <2>3, <2>4
<1> HIDE DEF S, f
<1>3. D \in SUBSET S /\ \A p \in Current : \E i \in D : g[i] = p
  BY <1>2
<1>4. g \in [D -> Current]
  OBVIOUS
<1> HIDE DEF D, g
<1>5. Few(D)
  BY <1>1, <1>3, FewSubset
<1>6. g \in Surjection(D, Current)
  BY <1>3, <1>4 DEF Surjection
<1>7. IsFiniteSet(Current) /\ Cardinality(Current) <= Cardinality(D)
  BY <1>5, <1>6, FS_Surjection DEF Few
<1>8. Cardinality(Current) \in Nat /\ Cardinality(D) \in Nat /\ Cardinality(D) <= N
  BY <1>5, <1>7, FS_CardinalityType DEF Few
<1> QED
  BY <1>7, <1>8, BoundIsNat DEF WorkersBounded

-----------------------------------------------------------------------------
(* What is started has the kinds of the cycle's processes, in order.        *)

LEMMA ForkedAs ==
  ASSUME Forked(proc, pids), NEW ks \in Seq(KindNames), NEW c \in Nat, Fork(ks, c)
  PROVE  \A k \in DOMAIN ks : proc'[pids + k].kind = ks[k] /\ proc'[pids + k].cycle = c
<1> SUFFICES ASSUME NEW k \in DOMAIN ks
             PROVE  proc'[pids + k].kind = ks[k] /\ proc'[pids + k].cycle = c
  OBVIOUS
<1> DEFINE m == Len(ks)
           p == pids + k
<1>1. m \in Nat /\ DOMAIN ks = 1 .. m /\ pids \in Nat /\ MaxPids \in Nat
  BY BoundIsNat DEF Forked
<1>2. pids + m <= MaxPids
      /\ proc' = [q \in Pids |-> IF q \in pids + 1 .. pids + m
                                 THEN [state |-> "up", kind |-> ks[q - pids], cycle |-> c]
                                 ELSE proc[q]]
  BY DEF Fork
<1> HIDE DEF m
<1>3. p \in Pids /\ p \in pids + 1 .. pids + m /\ p - pids = k
  BY <1>1, <1>2 DEF Pids
<1> HIDE DEF p
<1>4. proc'[p] = [state |-> "up", kind |-> ks[k], cycle |-> c]
  BY <1>2, <1>3
<1> QED
  BY <1>4 DEF p

LEMMA WorkersFirst ==
  ASSUME NEW j \in DOMAIN Kinds, Kinds[j] = "worker"
  PROVE  j \in 1 .. N
<1> DEFINE W == Workers
           T == <<"manager", "loader">>
<1>1. W \in Seq({"worker"}) /\ Len(W) = N /\ DOMAIN W = 1 .. N
  BY BoundIsNat DEF Workers
<1>2. CASE ~HasCache
  BY <1>1, <1>2 DEF Kinds
<1>3. CASE HasCache
  <2>1. Kinds = W \o T
    BY <1>3 DEF Kinds
  <2>2. T \in Seq({"manager", "loader"}) /\ Len(T) = 2 /\ T[1] = "manager" /\ T[2] = "loader"
    OBVIOUS
  <2> HIDE DEF W, T
  <2>3. /\ DOMAIN Kinds = 1 .. N + 2
        /\ \A i \in 1 .. N + 2 : Kinds[i] = IF i <= N THEN W[i] ELSE T[i - N]
    <3>1. W \in Seq(KindNames) /\ T \in Seq(KindNames) /\ Len(W) = N /\ Len(T) = 2
      BY <1>1, <2>2 DEF KindNames
    <3>2. Kinds \in Seq(KindNames) /\ Len(Kinds) = N + 2
          /\ \A i \in 1 .. N + 2 : Kinds[i] = IF i <= N THEN W[i] ELSE T[i - N]
      <4>1. /\ W \o T \in Seq(KindNames) /\ Len(W \o T) = Len(W) + Len(T)
            /\ \A i \in 1 .. Len(W) + Len(T) :
                 (W \o T)[i] = IF i <= Len(W) THEN W[i] ELSE T[i - Len(W)]
        BY <3>1, ConcatProperties, Zenon
      <4> QED
        BY <2>1, <3>1, <4>1, Zenon
    <3> QED
      BY <3>2
  <2>4. j <= N
    <3> SUFFICES ASSUME ~(j <= N) PROVE FALSE
      OBVIOUS
    <3>1. j - N = 1 \/ j - N = 2
      BY <2>3, BoundIsNat
    <3> QED
      BY <2>2, <2>3, <3>1
  <2> QED
    BY <2>3, <2>4, BoundIsNat
<1> QED
  BY <1>2, <1>3

(* The new workers are worker_processes at most, and the only ones that     *)
(* count.                                                                   *)
LEMMA StartBound ==
  ASSUME MpInv, Unmarked(table), NEW just, just \in BOOLEAN, NEW c \in Nat,
         StartProcesses(just, c), NEW st, table = <<>> \/ ToldNext(st),
         \A i \in DOMAIN table : table[i].pid # Invalid =>
           ~table[i].detached /\ ~table[i].exited /\ proc[table[i].pid].cycle < c
  PROVE  Bounded(table', proc', c, st, FALSE)
<1>1. Rows(table, pids) /\ Forked(proc, pids) /\ table \in Seq(Entries) /\ pids \in Nat
  BY DEF MpInv, Tracked, Forked, Rows
<1>2. PICK good, ks, es : StartedAs(good, ks, es, just, c)
  BY <1>1, StartedFacts
<1> DEFINE n == Cardinality(good)
<1>3. /\ good \in SUBSET (DOMAIN Kinds) /\ good \in SUBSET Int /\ IsFiniteSet(good) /\ n \in Nat
      /\ ks \in Seq(KindNames) /\ DOMAIN ks = 1 .. n
      /\ \A k \in 1 .. n : ks[k] = Kinds[Nth(good, k)] /\ ks[k] # "binary"
      /\ es \in Seq(Entries) /\ DOMAIN es = 1 .. n
      /\ \A k \in 1 .. n : es[k] = Entry(pids + k, ks[k], just)
      /\ Fork(ks, c)
      /\ table' = SpawnInto(table, es)
  BY <1>2 DEF StartedAs
<1> HIDE DEF n
<1>4. Spawned(table, es, table')
  BY <1>1, <1>3, SpawnIntoFacts
<1>5. PICK pos \in [DOMAIN es -> DOMAIN table'] :
        /\ \A k \in DOMAIN es : table'[pos[k]] = es[k]
        /\ \A i \in DOMAIN table' : \/ \E k \in DOMAIN es : i = pos[k]
                                    \/ i \in DOMAIN table /\ table'[i] = table[i]
  BY <1>4, Zenon DEF Spawned
<1>6. \A k \in 1 .. n : proc'[pids + k].kind = ks[k] /\ proc'[pids + k].cycle = c
  <2>1. \A k \in DOMAIN ks : proc'[pids + k].kind = ks[k] /\ proc'[pids + k].cycle = c
    BY <1>1, <1>3, ForkedAs
  <2> QED
    BY <1>3, <2>1
<1>7. \A p \in Pids : p <= pids => proc'[p] = proc[p]
  BY <1>1, <1>3, ForkFacts
<1>8. ASSUME NEW k \in 1 .. n
      PROVE  /\ es[k].pid = pids + k /\ ~es[k].exited /\ ~es[k].detached
             /\ proc'[es[k].pid].kind = ks[k] /\ proc'[es[k].pid].cycle = c
  <2> DEFINE p == pids + k
             kind == ks[k]
             e == es[k]
  <2>0. n \in Nat /\ pids \in Nat
    BY <1>1, <1>3
  <2>1. p \in Int /\ kind # "binary" /\ e = Entry(p, kind, just)
    <3>1. p \in Int
      BY <2>0
    <3> QED
      BY <1>3, <3>1, Zenon
  <2> HIDE DEF p, kind, e
  <2>2. e.pid = p /\ ~e.exited /\ e.detached = (kind = "binary")
    BY <2>1, EntryFacts
  <2>3. ~e.detached
    BY <2>1, <2>2
  <2> QED
    BY <1>6, <2>2, <2>3 DEF p, kind, e
<1>9. ASSUME NEW k \in 1 .. n PROVE Fits(es[k], proc', c, FALSE)
  <2> DEFINE e == es[k]
  <2>1. /\ ~e.exited /\ ~e.detached /\ proc'[e.pid].cycle = c
    BY <1>8
  <2>2. c <= c
    OBVIOUS
  <2> HIDE DEF e
  <2>3. Fits(e, proc', c, FALSE)
    BY <2>1, <2>2, Zenon DEF Fits
  <2> QED
    BY <2>3 DEF e
<1>10. ASSUME NEW i \in DOMAIN table
       PROVE  Fits(table[i], proc', c, FALSE) /\ ~Counts(table[i], proc', c, st)
  <2>1. CASE table[i].pid = Invalid
    BY <2>1 DEF Fits, Counts
  <2>2. CASE table[i].pid # Invalid
    <3>1. table[i].pid \in Pids /\ table[i].pid \in 1 .. pids /\ proc[table[i].pid] \in Processes
      BY <1>1, <2>2, PidsKnown
    <3> DEFINE p == table[i].pid
               y == proc'[p].cycle
    <3>2. p \in Pids /\ p <= pids
      BY <3>1
    <3>3. proc'[p] = proc[p]
      BY <1>7, <3>2, Zenon
    <3>4. y \in Nat /\ y < c
      <4>1. proc[p].cycle < c /\ proc[p].cycle \in Nat
        BY <2>2, <3>1 DEF Processes
      <4> QED
        BY <3>3, <4>1
    <3> HIDE DEF y
    <3>5. y <= c /\ y # c
      BY <3>4
    <3>7. ToldNext(st)
      <4>1. table # <<>>
        OBVIOUS
      <4> QED
        BY <4>1
    <3> USE DEF y
    <3>6. ~table[i].detached /\ ~table[i].exited /\ ~table[i].just_spawn
      BY <2>2 DEF Unmarked
    <3> QED
      BY <3>5, <3>6, <3>7, Zenon DEF Fits, Counts
  <2> QED
    BY <2>1, <2>2
<1> DEFINE f == [j \in 1 .. N |-> pos[Place(good, j)]]
           S == {i \in DOMAIN table' : Counts(table'[i], proc', c, st)}
<1>11. ASSUME NEW i \in S PROVE \E j \in 1 .. N : i = f[j]
  <2>1. PICK k \in 1 .. n : i = pos[k]
    BY <1>3, <1>5, <1>10
  <2>2. ks[k] = "worker"
    BY <1>3, <1>5, <1>8, <2>1 DEF Counts
  <2> DEFINE j == Nth(good, k)
  <2>3. j \in good /\ Place(good, j) = k
    BY <1>3, NthInPlace DEF n
  <2>4. j \in DOMAIN Kinds /\ Kinds[j] = "worker"
    BY <1>3, <2>2, <2>3
  <2> HIDE DEF j
  <2>5. j \in 1 .. N
    BY <2>4, WorkersFirst
  <2>6. f[j] = i
    BY <2>1, <2>3, <2>5
  <2> QED
    BY <2>5, <2>6
<1> HIDE DEF f
<1>12. Few(S)
  <2> HIDE DEF S, f
  <2>1. \A x \in S : \E j \in 1 .. N : x = f[j]
    BY <1>11, Zenon
  <2> QED
    BY <2>1, FewImage, Zenon
<1>13. ASSUME NEW i \in DOMAIN table' PROVE Fits(table'[i], proc', c, FALSE)
  <2>1. ASSUME NEW k \in DOMAIN es, i = pos[k] PROVE Fits(table'[i], proc', c, FALSE)
    <3>1. table'[i] = es[k] /\ k \in 1 .. n
      BY <1>3, <1>5, <2>1, Zenon
    <3> QED
      BY <1>9, <3>1, Zenon
  <2>2. ASSUME i \in DOMAIN table, table'[i] = table[i] PROVE Fits(table'[i], proc', c, FALSE)
    BY <1>10, <2>2, Zenon
  <2> QED
    BY <1>5, <2>1, <2>2, Zenon
<1> QED
  BY <1>12, <1>13 DEF Bounded

-----------------------------------------------------------------------------
(* The processes of the slots stay, and no entry is to go on again.         *)
Kept(pr, q) == \A p \in Pids : q[p].kind = pr[p].kind /\ q[p].cycle = pr[p].cycle

Later(e, f, can) ==
  /\ f.pid = e.pid
  /\ e.pid # Invalid => /\ ~f.detached
                        /\ f.exited => can
                        /\ e.exiting => f.exiting
                        /\ f.just_spawn => e.just_spawn

LEMMA KeptBound ==
  ASSUME NEW t, NEW pr, NEW n, Rows(t, n), Forked(pr, n),
         NEW c, NEW st, NEW may, Bounded(t, pr, c, st, may),
         NEW q, Kept(pr, q), NEW r, DOMAIN r = DOMAIN t, NEW su, NEW can,
         \A i \in DOMAIN t : Later(t[i], r[i], can),
         ToldNext(st) => \/ ToldNext(su)
                         \/ \A i \in DOMAIN t : t[i].pid # Invalid /\ ~r[i].exiting => t[i].just_spawn
  PROVE  Bounded(r, q, c, su, can)
<1>1. ASSUME NEW i \in DOMAIN t
      PROVE  /\ Fits(r[i], q, c, can)
             /\ Counts(r[i], q, c, su) => Counts(t[i], pr, c, st)
  <2> DEFINE e == t[i]
             f == r[i]
  <2>1. f.pid = e.pid /\ Later(e, f, can) /\ Fits(e, pr, c, may)
    BY DEF Later, Bounded
  <2>2. ToldNext(st) => ToldNext(su) \/ (e.pid # Invalid /\ ~f.exiting => e.just_spawn)
    OBVIOUS
  <2>3. e.pid # Invalid => q[e.pid].kind = pr[e.pid].kind /\ q[e.pid].cycle = pr[e.pid].cycle
    BY PidsKnown DEF Kept
  <2> HIDE DEF e, f
  <2>4. Fits(f, q, c, can)
    BY <2>1, <2>3, Zenon DEF Fits, Later
  <2>5. Counts(f, q, c, su) => Counts(e, pr, c, st)
    BY <2>1, <2>2, <2>3, Zenon DEF Fits, Later, Counts
  <2> QED
    BY <2>4, <2>5 DEF e, f
<1> QED
  BY <1>1, BoundedStays

LEMMA StateKept ==
  ASSUME NEW e \in Processes, NEW s, NEW f, f = [e EXCEPT !.state = s]
  PROVE  f.kind = e.kind /\ f.cycle = e.cycle
BY DEF Processes

(* ngx_signal_worker_processes: the command to quit leaves the just spawned *)
(* processes alone to go on.                                                *)
AllTold(t, r, cmd) ==
  /\ DOMAIN r = DOMAIN t
  /\ \A i \in DOMAIN t : Later(t[i], r[i], FALSE)
  /\ cmd = "quit" =>
       \A i \in DOMAIN t : t[i].pid # Invalid /\ ~r[i].exiting => t[i].just_spawn

LEMMA MarkedLater ==
  ASSUME NEW t, NEW pr, NEW n, Tracked(t, pr, n),
         \A i \in DOMAIN t : t[i].pid # Invalid => ~t[i].exited /\ ~t[i].detached,
         NEW cmd, NEW r, r = Marked(t, cmd, Lost(t, pr, cmd))
  PROVE  AllTold(t, r, cmd)
<1>1. t \in Seq(Entries) /\ \A i \in DOMAIN t : t[i] \in Entries
  BY DEF Tracked, Rows
<1>2. Lost(t, pr, cmd) = {}
  <2> SUFFICES ASSUME NEW i \in Lost(t, pr, cmd) PROVE FALSE
    OBVIOUS
  <2>1. i \in DOMAIN t /\ t[i].pid # Invalid /\ pr[t[i].pid].state = "reaped"
    BY DEF Lost, Addressed
  <2>2. pr[t[i].pid].state \in Unwaited
    BY <2>1 DEF Tracked, Met
  <2> QED
    BY <2>1, <2>2 DEF Unwaited
<1>3. r = [i \in DOMAIN t |->
             IF i \in Addressed(t, cmd)
             THEN [t[i] EXCEPT !.exiting = t[i].exiting \/ cmd # "reopen"]
             ELSE IF t[i].pid # Invalid /\ ~t[i].detached THEN [t[i] EXCEPT !.just_spawn = FALSE]
             ELSE t[i]]
  BY <1>2 DEF Marked
<1>4. ASSUME NEW i \in DOMAIN t
      PROVE  /\ Later(t[i], r[i], FALSE)
             /\ cmd = "quit" => (t[i].pid # Invalid /\ ~r[i].exiting => t[i].just_spawn)
  <2> DEFINE e == t[i]
             f == r[i]
             b == e.exiting \/ cmd # "reopen"
  <2>1. e \in Entries /\ (e.pid # Invalid => ~e.exited /\ ~e.detached)
    BY <1>1
  <2>2. CASE i \in Addressed(t, cmd)
    <3>1. f = [e EXCEPT !.exiting = b]
      BY <1>3, <2>2
    <3>2. b \in BOOLEAN /\ (e.exiting => b) /\ (cmd = "quit" => b)
      BY Zenon
    <3> HIDE DEF e, f, b
    <3>3. f.pid = e.pid /\ f.exited = e.exited /\ f.just_spawn = e.just_spawn
          /\ f.exiting = b /\ f.detached = e.detached
      BY <2>1, <3>1, <3>2, EntryTold
    <3>4. Later(e, f, FALSE) /\ (cmd = "quit" => f.exiting)
      BY <2>1, <3>2, <3>3, Zenon DEF Later
    <3> QED
      BY <3>4 DEF e, f
  <2>3. CASE i \notin Addressed(t, cmd) /\ e.pid # Invalid
    <3>1. f = [e EXCEPT !.just_spawn = FALSE]
      BY <1>3, <2>1, <2>3
    <3>2. e.just_spawn \/ (e.exiting /\ cmd = "quit")
      BY <2>1, <2>3 DEF Addressed
    <3> HIDE DEF e, f
    <3>3. f.pid = e.pid /\ f.exited = e.exited /\ f.just_spawn = FALSE
          /\ f.exiting = e.exiting /\ f.detached = e.detached
      BY <2>1, <3>1, EntryCleared
    <3>4. Later(e, f, FALSE) /\ (~f.exiting => e.just_spawn)
      BY <2>1, <3>2, <3>3, Zenon DEF Later
    <3> QED
      BY <3>4 DEF e, f
  <2>4. CASE i \notin Addressed(t, cmd) /\ ~(e.pid # Invalid)
    BY <1>3, <2>4 DEF Later
  <2> QED
    BY <2>2, <2>3, <2>4
<1> QED
  BY <1>3, <1>4 DEF AllTold

LEMMA SignalBound ==
  ASSUME MpInv, Bounded(table, proc, cycle, stage, FALSE), NEW cmd, NEW rest,
         SignalWorkers(table, cmd, rest), ToldNext(stage) => cmd = "quit", NEW st
  PROVE  Bounded(table', proc', cycle, st, FALSE)
<1> DEFINE lost == Lost(table, proc, cmd)
           told == {table[i].pid : i \in Addressed(table, cmd) \ lost}
<1>1. Rows(table, pids) /\ Forked(proc, pids) /\ Tracked(table, proc, pids)
  BY DEF MpInv, Tracked
<1>2. table' = Marked(table, cmd, lost)
  BY DEF SignalWorkers, Lost
<1>3. \/ proc' = proc
      \/ proc' = [p \in Pids |->
             IF p \in told /\ proc[p].state \in {"up", "drain"}
             THEN [proc[p] EXCEPT !.state = "zombie"] ELSE proc[p]]
  BY DEF SignalWorkers, Lost
<1> HIDE DEF told
<1>4. \A i \in DOMAIN table : table[i].pid # Invalid => ~table[i].exited /\ ~table[i].detached
  BY DEF Bounded, Fits
<1>5. /\ DOMAIN table' = DOMAIN table
      /\ \A i \in DOMAIN table : Later(table[i], table'[i], FALSE)
      /\ cmd = "quit" =>
           \A i \in DOMAIN table : table[i].pid # Invalid /\ ~table'[i].exiting => table[i].just_spawn
  <2> DEFINE r == table'
  <2>1. r = Marked(table, cmd, Lost(table, proc, cmd))
    BY <1>2
  <2> HIDE DEF r
  <2>2. AllTold(table, r, cmd)
    BY <1>1, <1>4, <2>1, MarkedLater
  <2> QED
    BY <2>2 DEF AllTold, r
<1>6. Kept(proc, proc')
  <2> SUFFICES ASSUME NEW p \in Pids
               PROVE  proc'[p].kind = proc[p].kind /\ proc'[p].cycle = proc[p].cycle
    BY DEF Kept
  <2> DEFINE e == proc[p]
             f == proc'[p]
  <2>1. e \in Processes
    BY <1>1 DEF Forked
  <2>2. f = e \/ f = [e EXCEPT !.state = "zombie"]
    BY <1>3
  <2> HIDE DEF e, f
  <2>3. f.kind = e.kind /\ f.cycle = e.cycle
    BY <2>1, <2>2, StateKept
  <2> QED
    BY <2>3 DEF e, f
<1> QED
  BY <1>1, <1>5, <1>6, KeptBound

(* ngx_process_get_status.                                                  *)
LEMMA StatusBound ==
  ASSUME MpInv, Bounded(table, proc, cycle, stage, FALSE), ~ToldNext(stage), GetStatus, NEW st
  PROVE  Bounded(table', proc', cycle, st, TRUE)
<1>1. Rows(table, pids) /\ Forked(proc, pids) /\ table \in Seq(Entries)
  BY DEF MpInv, Tracked, Rows
<1>2. /\ DOMAIN table' = DOMAIN table
      /\ \A i \in DOMAIN table :
           table'[i] = IF table[i].pid \in Zombies
                       THEN [table[i] EXCEPT !.exited = TRUE,
                               !.respawn = table[i].respawn /\ proc[table[i].pid].state # "fatal"]
                       ELSE table[i]
      /\ proc' = [p \in Pids |->
           IF p \in Zombies THEN [proc[p] EXCEPT !.state = "reaped"] ELSE proc[p]]
  BY DEF GetStatus
<1>3. ASSUME NEW i \in DOMAIN table PROVE Later(table[i], table'[i], TRUE)
  <2> DEFINE e == table[i]
             f == table'[i]
             b == table[i].respawn /\ proc[table[i].pid].state # "fatal"
  <2>1. e \in Entries /\ (e.pid # Invalid => ~e.detached)
    BY <1>1 DEF Bounded, Fits
  <2>2. b \in BOOLEAN
    BY Zenon
  <2>3. f = e \/ f = [e EXCEPT !.exited = TRUE, !.respawn = b]
    BY <1>2
  <2> HIDE DEF e, f, b
  <2>4. f.pid = e.pid /\ f.just_spawn = e.just_spawn /\ f.exiting = e.exiting
        /\ f.detached = e.detached
    <3>1. CASE f = e
      BY <3>1
    <3>2. CASE f = [e EXCEPT !.exited = TRUE, !.respawn = b]
      <4>1. e \in Entries
        BY <2>1
      <4>2. /\ f \in Entries /\ f.pid = e.pid /\ f.exited = TRUE /\ f.just_spawn = e.just_spawn
            /\ f.exiting = e.exiting /\ f.detached = e.detached
        BY <2>2, <3>2, <4>1, EntryStatus
      <4> QED
        BY <4>2
    <3> QED
      BY <2>3, <3>1, <3>2
  <2>5. Later(e, f, TRUE)
    BY <2>1, <2>4, Zenon DEF Later
  <2> QED
    BY <2>5 DEF e, f
<1>4. Kept(proc, proc')
  <2> SUFFICES ASSUME NEW p \in Pids
               PROVE  proc'[p].kind = proc[p].kind /\ proc'[p].cycle = proc[p].cycle
    BY DEF Kept
  <2> DEFINE e == proc[p]
             f == proc'[p]
  <2>1. e \in Processes
    BY <1>1 DEF Forked
  <2>2. f = e \/ f = [e EXCEPT !.state = "reaped"]
    BY <1>2
  <2> HIDE DEF e, f
  <2>3. f.kind = e.kind /\ f.cycle = e.cycle
    BY <2>1, <2>2, StateKept
  <2> QED
    BY <2>3 DEF e, f
<1> QED
  BY <1>1, <1>2, <1>3, <1>4, KeptBound

(* A bound of 0 on the failing calls leaves none.                           *)
Unfailed == "faults" \in DOMAIN count /\ count.faults = 0

LEMMA NoFault ==
  ASSUME MaxFaults = 0, Unfailed, NEW n \in Nat, Fault(n)
  PROVE  n = 0 /\ Unfailed'
<1>1. count.faults + n <= 0 /\ count.faults = 0 /\ "faults" \in DOMAIN count
      /\ count' = [count EXCEPT !.faults = @ + n]
  BY DEF Fault, Unfailed
<1>2. n = 0
  BY <1>1
<1>3. "faults" \in DOMAIN count' /\ count'.faults = count.faults + n
  BY <1>1
<1> QED
  BY <1>1, <1>2, <1>3 DEF Unfailed

(* ngx_reap_children: a process that is started again takes the place of    *)
(* one that was to go on, and the other entries that had exited are freed.  *)
LEMMA ReapBound ==
  ASSUME MaxFaults = 0, Unfailed, MpInv, Unmarked(table), ReapChildren,
         NEW may, Bounded(table, proc, cycle, stage, may), ~ToldNext(stage), NEW st
  PROVE  Bounded(table', proc', cycle, st, FALSE) /\ Unfailed'
<1> DEFINE back == Respawns(table)
           gone == Exited(table) \ back
<1>1. PICK good \in SUBSET back :
        /\ Fork(KindsOf(good), cycle)
        /\ Fault(Cardinality(back \ good))
        /\ table' = FreeSlots(Again(good), gone)
  BY Zenon DEF ReapChildren, KindsOf, Again
<1> DEFINE s == Again(good)
           ks == KindsOf(good)
           m == Cardinality(good)
<1>2. /\ Tracked(table, proc, pids) /\ Rows(table, pids) /\ Forked(proc, pids) /\ cycle \in Nat
      /\ table \in Seq(Entries) /\ pids \in Nat
  BY DEF MpInv, Tracked, Rows, Forked
<1>3. back \subseteq Exited(table) /\ \A i \in back : ~table[i].exiting
  BY DEF Respawns
<1> HIDE DEF back
<1>4. IsFiniteSet(back) /\ IsFiniteSet(good) /\ back \in SUBSET Int /\ back \subseteq DOMAIN table
  <2> DEFINE l == Len(table)
  <2>1. l \in Nat /\ DOMAIN table = 1 .. l
    BY <1>2
  <2>2. back \in SUBSET (1 .. l)
    BY <1>3, <2>1 DEF Exited
  <2> HIDE DEF l
  <2>3. IsFiniteSet(1 .. l)
    BY <2>1, FS_Interval
  <2>4. IsFiniteSet(back)
    BY <2>2, <2>3, FS_Subset
  <2>5. IsFiniteSet(good)
    BY <2>4, FS_Subset
  <2> QED
    BY <2>1, <2>2, <2>4, <2>5
<1>5. good = back /\ Unfailed'
  <2> DEFINE R == back \ good
  <2>1. R \in SUBSET back
    OBVIOUS
  <2>2. R = {} => good = back
    OBVIOUS
  <2>3. Fault(Cardinality(R))
    BY <1>1
  <2> HIDE DEF R
  <2>4. IsFiniteSet(R)
    BY <1>4, <2>1, FS_Subset
  <2>5. Cardinality(R) \in Nat
    BY <2>4, FS_CardinalityType
  <2>6. Cardinality(R) = 0 /\ Unfailed'
    BY <2>3, <2>5, NoFault
  <2> QED
    BY <2>2, <2>4, <2>6, FS_EmptySet
<1>6. good \subseteq Exited(table) /\ good \cap gone = {} /\ gone \subseteq Exited(table)
  BY <1>3, <1>5
<1>7. Fork(ks, cycle) /\ table' = FreeSlots(s, gone)
  BY <1>1
<1>8. /\ Tracked(s, proc', pids') /\ DOMAIN s = DOMAIN table
      /\ \A i \in DOMAIN table : i \notin good => s[i] = table[i]
  BY <1>2, <1>6, <1>7, RespawnedTracked
<1>9. m \in Nat /\ good \in SUBSET Int /\ \A i \in good : Place(good, i) \in 1 .. m
  BY <1>4, FS_CardinalityType, PlaceInRange
<1>10. /\ ks \in Seq(KindNames) /\ DOMAIN ks = 1 .. m
       /\ \A i \in good : ks[Place(good, i)] = proc[table[i].pid].kind
  <2>1. \A i \in good : Nth(good, Place(good, i)) = i
    <3> SUFFICES ASSUME NEW i \in good PROVE Nth(good, Place(good, i)) = i
      OBVIOUS
    <3> DEFINE x == Nth(good, Place(good, i))
    <3>1. x \in good /\ Place(good, x) = Place(good, i)
      BY <1>4, <1>9, NthInPlace
    <3> HIDE DEF x
    <3>2. x = i
      BY <1>4, <1>9, <3>1, PlaceInjective
    <3> QED
      BY <3>2 DEF x
  <2>2. \A k \in 1 .. m : ks[k] = proc[table[Nth(good, k)].pid].kind
    BY DEF KindsOf
  <2>3. ASSUME NEW k \in 1 .. m PROVE ks[k] \in KindNames
    <3> DEFINE i == Nth(good, k)
    <3>1. i \in good
      BY <1>4, <1>9, NthInPlace
    <3>2. i \in DOMAIN table /\ table[i].pid # Invalid
      BY <1>6, <3>1 DEF Exited
    <3>3. ks[k] = proc[table[i].pid].kind
      BY <2>2
    <3> HIDE DEF i
    <3>4. proc[table[i].pid] \in Processes
      BY <1>2, <3>2, PidsKnown
    <3> QED
      BY <3>3, <3>4 DEF Processes
  <2>4. ks \in [1 .. m -> KindNames]
    BY <2>3 DEF KindsOf
  <2> HIDE DEF m, ks
  <2>5. ks \in Seq(KindNames) /\ DOMAIN ks = 1 .. m
    BY <1>9, <2>4
  <2> QED
    BY <1>9, <2>1, <2>2, <2>5
<1> HIDE DEF ks, m
<1>11. \A k \in 1 .. m : proc'[pids + k].kind = ks[k] /\ proc'[pids + k].cycle = cycle
  <2>1. \A k \in DOMAIN ks : proc'[pids + k].kind = ks[k] /\ proc'[pids + k].cycle = cycle
    BY <1>2, <1>7, <1>10, ForkedAs
  <2> QED
    BY <1>10, <2>1
<1>12. \A p \in Pids : p <= pids => proc'[p] = proc[p]
  BY <1>2, <1>7, <1>10, ForkFacts
<1>13. ASSUME NEW i \in good
       PROVE  /\ Fits(s[i], proc', cycle, FALSE)
              /\ Counts(s[i], proc', cycle, st) => Counts(table[i], proc, cycle, stage)
  <2> DEFINE e == table[i]
             f == s[i]
             k == Place(good, i)
             p == pids + k
  <2>1. e \in Entries /\ e.pid # Invalid /\ ~e.exiting /\ ~e.just_spawn /\ ~e.detached /\ p \in Int
    <3>1. i \in DOMAIN table /\ e.pid # Invalid /\ ~e.exiting
      BY <1>3, <1>5, <1>6 DEF Exited
    <3>2. ~e.just_spawn /\ ~e.detached
      BY <3>1 DEF Unmarked, Bounded, Fits
    <3>3. p \in Int
      BY <1>2, <1>9
    <3> QED
      BY <1>2, <3>1, <3>2, <3>3
  <2>2. RunsAs(e, f, p)
    BY <1>4, <1>5, Zenon DEF Again, RunsAs
  <2>3. ks[k] = proc[e.pid].kind /\ k \in 1 .. m
    BY <1>9, <1>10
  <2>4. proc'[p].kind = proc[e.pid].kind /\ proc'[p].cycle = cycle
    BY <1>11, <2>3
  <2> HIDE DEF e, f, k, p
  <2>5. f \in Entries /\ f.pid = p /\ f.exited = FALSE /\ f.just_spawn = e.just_spawn
        /\ f.detached = e.detached
    <3>1. RunsFor(e, f, p)
      BY <2>1, <2>2, EntryRespawned
    <3> QED
      BY <3>1, Zenon DEF RunsFor
  <2>6. cycle <= cycle
    BY <1>2
  <2>7. Fits(f, proc', cycle, FALSE)
    BY <2>1, <2>4, <2>5, <2>6, Zenon DEF Fits
  <2>8. Counts(f, proc', cycle, st) => Counts(e, proc, cycle, stage)
    BY <2>1, <2>4, <2>5, Zenon DEF Counts
  <2> QED
    BY <2>7, <2>8 DEF e, f
<1>14. ASSUME NEW i \in DOMAIN table, i \notin Exited(table)
       PROVE  /\ Fits(table[i], proc', cycle, FALSE)
              /\ Counts(table[i], proc', cycle, st) => Counts(table[i], proc, cycle, stage)
  <2> DEFINE e == table[i]
  <2>1. CASE e.pid = Invalid
    BY <2>1 DEF Fits, Counts
  <2>2. CASE e.pid # Invalid
    <3>1. e.pid \in Pids /\ e.pid \in 1 .. pids
      BY <1>2, <2>2, PidsKnown
    <3>2. e.pid \in Pids /\ e.pid <= pids
      BY <1>2, <3>1
    <3>3. proc'[e.pid] = proc[e.pid]
      BY <1>12, <3>2, Zenon
    <3>4. ~e.exited /\ Fits(e, proc, cycle, may)
      BY <1>14, <2>2 DEF Exited, Bounded
    <3> HIDE DEF e
    <3>5. Fits(e, proc', cycle, FALSE)
      BY <3>3, <3>4, Zenon DEF Fits
    <3>6. Counts(e, proc', cycle, st) => Counts(e, proc, cycle, stage)
      BY <3>3, Zenon DEF Counts
    <3> QED
      BY <3>5, <3>6 DEF e
  <2> QED
    BY <2>1, <2>2
<1> HIDE DEF s
<1>15. s \in Seq(Entries) /\ gone \subseteq DOMAIN s
  BY <1>6, <1>8 DEF Tracked, Rows, Exited
<1>16. /\ DOMAIN table' \subseteq DOMAIN table
       /\ \A i \in DOMAIN table' : table'[i] = IF i \in gone THEN FreeEntry ELSE s[i]
  BY <1>7, <1>8, <1>15, FreeSlotsFacts
<1>17. ASSUME NEW i \in DOMAIN table'
       PROVE  /\ Fits(table'[i], proc', cycle, FALSE)
              /\ Counts(table'[i], proc', cycle, st) => Counts(table[i], proc, cycle, stage)
  <2>1. i \in DOMAIN table
    BY <1>16
  <2>2. CASE i \in gone
    <3>1. table'[i].pid = Invalid
      BY <1>16, <2>2, FreedEntry
    <3> QED
      BY <3>1 DEF Fits, Counts
  <2>3. CASE i \in good
    <3>1. table'[i] = s[i]
      BY <1>6, <1>16, <2>3
    <3> QED
      BY <1>13, <2>3, <3>1
  <2>4. CASE i \notin gone /\ i \notin good
    <3>1. table'[i] = table[i] /\ i \notin Exited(table)
      BY <1>5, <1>8, <1>16, <2>1, <2>4
    <3> QED
      BY <1>14, <2>1, <3>1
  <2> QED
    BY <2>2, <2>3, <2>4
<1>18. Bounded(table', proc', cycle, st, FALSE)
  BY <1>16, <1>17, BoundedStays
<1> QED
  BY <1>5, <1>18

-----------------------------------------------------------------------------
(* No upgrade is asked for, and none is under way.                          *)
PlainFlags == {"reconfigure", "quit", "terminate", "reopen", "noaccept", "sigalrm", "reap"}
PlainSignals == {"HUP", "QUIT", "TERM", "USR1", "WINCH", "ALRM", "CHLD"}
Plain == newbinary = 0 /\ flags \subseteq PlainFlags /\ pending \subseteq PlainSignals

LEMMA PlainFlag ==
  ASSUME NEW s \in PlainSignals
  PROVE  FlagOf(s) \subseteq PlainFlags
BY DEF PlainSignals, PlainFlags, FlagOf

LEMMA PlainSignal ==
  ASSUME Plain, NEW cmd, NEW rest, rest \subseteq flags, SignalWorkers(table, cmd, rest)
  PROVE  flags' \subseteq PlainFlags /\ pending' \subseteq PlainSignals
<1>1. /\ flags' = rest \/ flags' = rest \cup {"reap"}
      /\ pending' = pending \/ pending' = pending \cup {"CHLD"}
  BY Zenon DEF SignalWorkers
<1>2. "reap" \in PlainFlags /\ "CHLD" \in PlainSignals
  BY DEF PlainFlags, PlainSignals
<1> QED
  BY <1>1, <1>2 DEF Plain

LEMMA PlainReap ==
  ASSUME MpInv, Plain, ReapChildren
  PROVE  newbinary' = 0 /\ flags' \subseteq PlainFlags
<1>1. PICK good \in SUBSET Respawns(table) :
        LET gone == Exited(table) \ Respawns(table)
            binaryGone == \E i \in gone : table[i].pid = newbinary
        IN  /\ newbinary' = IF binaryGone THEN 0 ELSE newbinary
            /\ flags' = (flags \ {"reap"})
                          \cup IF binaryGone /\ noaccepting THEN {"restart"} ELSE {}
  BY Zenon DEF ReapChildren
<1>2. ASSUME NEW i \in Exited(table) PROVE table[i].pid # newbinary
  <2>1. i \in DOMAIN table /\ table[i].pid # Invalid /\ newbinary = 0
    BY DEF Exited, Plain
  <2>2. table[i].pid \in 1 .. pids /\ pids \in Nat
    BY <2>1 DEF MpInv, Tracked, Rows, Forked
  <2> QED
    BY <2>1, <2>2
<1>3. newbinary' = newbinary /\ flags' = flags \ {"reap"}
  BY <1>1, <1>2
<1> QED
  BY <1>3 DEF Plain

LEMMA PlainNext ==
  ASSUME "USR2" \notin Operator, MpInv, Plain, [Next]_vars
  PROVE  Plain'
<1>0. /\ newbinary = 0 /\ flags \subseteq PlainFlags /\ pending \subseteq PlainSignals
      /\ "restart" \notin flags /\ "change_binary" \notin flags
      /\ "CHLD" \in PlainSignals /\ "ALRM" \in PlainSignals
  BY DEF Plain, PlainFlags, PlainSignals
<1>1. CASE Start \/ Exit \/ ReconfigureOldBinary \/ ReconfigureRejected
             \/ Reconfigure \/ NoReconfigure \/ Restart \/ NoRestart
  BY <1>0, <1>1 DEF Plain, Start, Exit, ReconfigureOldBinary, ReconfigureRejected, Reconfigure,
     NoReconfigure, Restart, NoRestart
<1>2. CASE LoopTop
  BY <1>0, <1>2 DEF Plain, LoopTop
<1>3. CASE Wake
  <2>1. PICK some \in SUBSET pending :
          /\ pending' = pending \ some
          /\ flags' = flags \cup UNION {FlagOf(s) : s \in some}
    BY <1>3, Zenon DEF Wake
  <2>2. \A s \in some : FlagOf(s) \subseteq PlainFlags
    BY <1>0, <2>1, PlainFlag
  <2>3. newbinary' = newbinary
    BY <1>3 DEF Wake
  <2> QED
    BY <1>0, <2>1, <2>2, <2>3 DEF Plain
<1>4. CASE Reap
  <2>1. pending' = pending
    BY <1>4 DEF Reap
  <2>2. ReapChildren \/ UNCHANGED <<flags, newbinary>>
    BY <1>4, Zenon DEF Reap
  <2> QED
    BY <1>0, <2>1, <2>2, PlainReap DEF Plain
<1>5. CASE Terminate \/ Quit \/ QuitOldWorkers \/ Reopen \/ NoAccept
  <2>1. newbinary' = newbinary
    BY <1>5 DEF Terminate, Quit, QuitOldWorkers, Reopen, NoAccept
  <2>2. \/ UNCHANGED <<flags, pending>>
        \/ \E cmd : \E rest \in SUBSET flags : SignalWorkers(table, cmd, rest)
    <3>1. flags \in SUBSET flags /\ flags \ {"reopen"} \in SUBSET flags
          /\ flags \ {"noaccept"} \in SUBSET flags
      OBVIOUS
    <3>2. CASE Terminate
      BY <3>1, <3>2, Zenon DEF Terminate
    <3>3. CASE Quit
      BY <3>1, <3>3, Zenon DEF Quit
    <3>4. CASE QuitOldWorkers
      BY <3>1, <3>4, Zenon DEF QuitOldWorkers
    <3>5. CASE Reopen
      BY <3>1, <3>5, Zenon DEF Reopen
    <3>6. CASE NoAccept
      BY <3>1, <3>6, Zenon DEF NoAccept
    <3> QED
      BY <1>5, <3>2, <3>3, <3>4, <3>5, <3>6
  <2>3. CASE UNCHANGED <<flags, pending>>
    BY <1>0, <2>1, <2>3 DEF Plain
  <2>4. ASSUME NEW cmd, NEW rest \in SUBSET flags, SignalWorkers(table, cmd, rest)
        PROVE  Plain'
    BY <1>0, <2>1, <2>4, PlainSignal DEF Plain
  <2> QED
    BY <2>2, <2>3, <2>4
<1>6. CASE ChangeBinary
  <2>1. newbinary' = newbinary /\ flags' = flags \ {"change_binary"} /\ pending' = pending
    BY <1>0, <1>6, Zenon DEF ChangeBinary
  <2> QED
    BY <1>0, <2>1 DEF Plain
<1>7. CASE Alarm \/ UNCHANGED vars
  BY <1>0, <1>7 DEF Plain, Alarm, vars, master
<1>8. ASSUME NEW s \in Operator, Send(s) PROVE Plain'
  <2>1. s \in PlainSignals
    BY MasterProcessAssumption DEF MasterProcessAssumption, Signals, PlainSignals
  <2>2. pending' = pending \cup {s} /\ newbinary' = newbinary /\ flags' = flags
    BY <1>8 DEF Send, master
  <2> QED
    BY <1>0, <2>1, <2>2 DEF Plain
<1>9. ASSUME NEW p \in Pids, Child(p) \/ Crash(p) \/ FatalExit(p) PROVE Plain'
  <2>1. UNCHANGED <<newbinary, flags>> /\ (pending' = pending \/ pending' = pending \cup {"CHLD"})
    BY <1>9, Zenon DEF Child, Obey, Drained, LoaderDone, Crash, FatalExit, Ends, master
  <2> QED
    BY <1>0, <2>1 DEF Plain
<1> QED
  BY <1>1, <1>2, <1>3, <1>4, <1>5, <1>6, <1>7, <1>8, <1>9 DEF Next, Turn

(* No call fails.                                                           *)
LEMMA UnfailedStart ==
  ASSUME MaxFaults = 0, Unfailed, pids \in Nat, NEW just, just \in BOOLEAN, NEW c \in Nat,
         StartProcesses(just, c)
  PROVE  Unfailed'
<1>1. PICK good, ks, es : StartedAs(good, ks, es, just, c)
  BY StartedFacts
<1> DEFINE n == Len(Kinds) - Len(ks)
<1>2. n \in Nat /\ Fault(n)
  <2>1. Len(ks) \in Nat /\ Len(Kinds) \in Nat /\ Len(ks) <= Len(Kinds) /\ Fault(n)
    BY <1>1, KindsType DEF StartedAs
  <2> QED
    BY <2>1
<1> HIDE DEF n
<1> QED
  BY <1>2, NoFault

LEMMA CountStep ==
  ASSUME Unfailed, \/ count' = count
                   \/ \E x : count' = [count EXCEPT !.sent = x]
                   \/ \E x : count' = [count EXCEPT !.crashes = x]
                   \/ \E x : count' = [count EXCEPT !.fatal = x]
                   \/ \E x : count' = [count EXCEPT !.execfail = x]
  PROVE  Unfailed'
BY DEF Unfailed

LEMMA UnfailedNext ==
  ASSUME MaxFaults = 0, Unfailed, MpInv, [Next]_vars, Reap /\ ReapChildren => Unfailed'
  PROVE  Unfailed'
<1>0. pids \in Nat /\ cycle \in Nat /\ cycle + 1 \in Nat
  BY DEF MpInv, Tracked, Forked
<1>1. ASSUME Start \/ ReconfigureOldBinary \/ Reconfigure \/ Restart PROVE Unfailed'
  <2>1. \E just \in BOOLEAN : StartProcesses(just, cycle) \/ StartProcesses(just, cycle + 1)
    BY <1>1, Zenon DEF Start, ReconfigureOldBinary, Reconfigure, Restart
  <2>2. PICK just : just \in BOOLEAN /\ (StartProcesses(just, cycle) \/ StartProcesses(just, cycle + 1))
    BY <2>1
  <2> QED
    BY <1>0, <2>2, UnfailedStart
<1>2. ASSUME Reap PROVE Unfailed'
  <2>1. ReapChildren \/ count' = count
    BY <1>2, Zenon DEF Reap
  <2> QED
    BY <1>2, <2>1, CountStep
<1>3. ASSUME \/ Exit \/ LoopTop \/ Wake \/ Terminate \/ Quit \/ ReconfigureRejected \/ NoReconfigure
             \/ QuitOldWorkers \/ NoRestart \/ Reopen \/ NoAccept \/ Alarm \/ UNCHANGED vars
      PROVE  Unfailed'
  <2>1. count' = count
    BY <1>3, Zenon DEF Exit, LoopTop, Wake, Terminate, Quit, ReconfigureRejected, NoReconfigure,
       QuitOldWorkers, NoRestart, Reopen, NoAccept, Alarm, vars
  <2> QED
    BY <2>1, CountStep
<1>4. ASSUME ChangeBinary PROVE Unfailed'
  <2>1. count' = count \/ \E x : count' = [count EXCEPT !.execfail = x]
    BY <1>4, Zenon DEF ChangeBinary
  <2> QED
    BY <2>1, CountStep
<1>5. ASSUME NEW s \in Operator, Send(s) PROVE Unfailed'
  <2>1. \E x : count' = [count EXCEPT !.sent = x]
    BY <1>5, Zenon DEF Send
  <2> QED
    BY <2>1, CountStep
<1>6. ASSUME NEW p \in Pids, Child(p) \/ Crash(p) \/ FatalExit(p) PROVE Unfailed'
  <2>1. \/ count' = count
        \/ \E x : count' = [count EXCEPT !.crashes = x]
        \/ \E x : count' = [count EXCEPT !.fatal = x]
    BY <1>6, Zenon DEF Child, Obey, Drained, LoaderDone, Crash, FatalExit
  <2> QED
    BY <2>1, CountStep
<1> QED
  BY <1>1, <1>2, <1>3, <1>4, <1>5, <1>6 DEF Next, Turn

-----------------------------------------------------------------------------
(* The inductive invariant of WorkersBounded.                               *)
MayExited(st, fl) == st = "reap" /\ "reap" \in fl

BdInv ==
  /\ MpInv /\ Unfailed /\ Plain
  /\ stage = "start" => table = <<>>
  /\ Bounded(table, proc, cycle, stage, MayExited(stage, flags))

LEMMA BoundedWeaker ==
  ASSUME NEW t, NEW pr, NEW c, NEW st, NEW may, Bounded(t, pr, c, st, FALSE)
  PROVE  Bounded(t, pr, c, st, may)
<1>1. \A i \in DOMAIN t : Fits(t[i], pr, c, may)
  BY DEF Bounded, Fits
<1> QED
  BY <1>1 DEF Bounded

LEMMA NothingExited ==
  ASSUME BdInv, stage # "reap"
  PROVE  Bounded(table, proc, cycle, stage, FALSE)
<1>1. MayExited(stage, flags) = FALSE
  BY DEF MayExited
<1>2. Bounded(table, proc, cycle, stage, MayExited(stage, flags))
  BY DEF BdInv
<1> QED
  BY <1>1, <1>2

(* The master goes on, or a child does something.                           *)
LEMMA SameTableBound ==
  ASSUME MpInv, Bounded(table, proc, cycle, stage, FALSE), table' = table, Kept(proc, proc'),
         NEW st, ToldNext(stage) => ToldNext(st)
  PROVE  Bounded(table', proc', cycle, st, FALSE)
<1>1. Rows(table, pids) /\ Forked(proc, pids)
  BY DEF MpInv, Tracked
<1>2. \A i \in DOMAIN table : Later(table[i], table'[i], FALSE)
  BY DEF Bounded, Fits, Later
<1> QED
  BY <1>1, <1>2, KeptBound

LEMMA ChildKeeps ==
  ASSUME MpInv, NEW p \in Pids, Child(p) \/ Crash(p) \/ FatalExit(p)
  PROVE  Kept(proc, proc') /\ UNCHANGED <<master, table>>
<1>1. UNCHANGED <<master, table>>
  BY Zenon DEF Child, Obey, Drained, LoaderDone, Crash, FatalExit, Ends
<1>2. \E s : proc' = [proc EXCEPT ![p].state = s]
  BY Zenon DEF Child, Obey, Drained, LoaderDone, Crash, FatalExit, Ends
<1>3. PICK s : proc' = [proc EXCEPT ![p].state = s]
  BY <1>2
<1>4. proc \in [Pids -> Processes]
  BY DEF MpInv, Tracked, Forked
<1>5. ASSUME NEW q \in Pids
      PROVE  proc'[q].kind = proc[q].kind /\ proc'[q].cycle = proc[q].cycle
  <2> DEFINE e == proc[q]
             f == proc'[q]
  <2>1. e \in Processes /\ (f = e \/ f = [e EXCEPT !.state = s])
    BY <1>3, <1>4
  <2> HIDE DEF e, f
  <2>2. f.kind = e.kind /\ f.cycle = e.cycle
    BY <2>1, StateKept
  <2> QED
    BY <2>2 DEF e, f
<1> QED
  BY <1>1, <1>5 DEF Kept

LEMMA StageNames ==
  /\ \A st \in {"start", "top", "suspend", "reap", "check", "restart", "reopen", "change",
                "noaccept", "exited"} : ~ToldNext(st)
  /\ ToldNext("quit old")
BY Zenon DEF ToldNext

(* What counts after a step of the master that is not ngx_reap_children.    *)
LEMMA BoundedTurn ==
  ASSUME MaxFaults = 0, BdInv, Turn, stage # "reap"
  PROVE  \/ Bounded(table', proc', cycle', stage', FALSE)
         \/ Bounded(table', proc', cycle', stage', TRUE) /\ MayExited(stage', flags')
<1>0. /\ MpInv /\ Plain /\ Bounded(table, proc, cycle, stage, FALSE)
      /\ pids \in Nat /\ cycle \in Nat /\ cycle + 1 \in Nat
      /\ newbinary = 0 /\ "restart" \notin flags /\ "change_binary" \notin flags
  <2>1. MpInv /\ Plain /\ Bounded(table, proc, cycle, stage, FALSE)
    BY NothingExited DEF BdInv
  <2>2. pids \in Nat /\ cycle \in Nat /\ cycle + 1 \in Nat
    BY <2>1 DEF MpInv, Tracked, Forked
  <2>3. newbinary = 0 /\ "restart" \notin flags /\ "change_binary" \notin flags
    BY <2>1 DEF Plain, PlainFlags
  <2> QED
    BY <2>1, <2>2, <2>3
<1>1. Kept(proc, proc)
  BY DEF Kept
<1>2. CASE Start
  <2>1. table = <<>> /\ stage' = "top" /\ StartProcesses(FALSE, cycle) /\ cycle' = cycle
    BY <1>2 DEF Start, BdInv
  <2>2. Unmarked(table) /\ (\A i \in DOMAIN table : table[i].pid # Invalid =>
           ~table[i].detached /\ ~table[i].exited /\ proc[table[i].pid].cycle < cycle)
    BY <2>1 DEF Unmarked
  <2> QED
    BY <1>0, <2>1, <2>2, StartBound
<1>3. CASE LoopTop \/ Exit \/ ReconfigureRejected \/ NoReconfigure \/ NoRestart \/ ChangeBinary
  <2>1. stage \in {"top", "check", "restart", "change"}
    BY <1>3 DEF LoopTop, Exit, ReconfigureRejected, NoReconfigure, NoRestart, ChangeBinary, Running, Staying
  <2>2. UNCHANGED <<table, proc, cycle>>
    BY <1>0, <1>3, Zenon DEF LoopTop, Exit, ReconfigureRejected, NoReconfigure, NoRestart,
       ChangeBinary, children
  <2>3. ~ToldNext(stage)
    BY <2>1, StageNames
  <2> QED
    BY <1>0, <1>1, <2>2, <2>3, SameTableBound
<1>4. CASE Wake
  <2>1. stage = "suspend" /\ stage' = "reap" /\ cycle' = cycle
    BY <1>4 DEF Wake
  <2>2. ~ToldNext(stage)
    BY <2>1, StageNames
  <2>3. PICK some \in SUBSET pending :
          /\ flags' = flags \cup UNION {FlagOf(s) : s \in some}
          /\ IF "CHLD" \in some THEN GetStatus ELSE UNCHANGED <<table, proc>>
    BY <1>4, Zenon DEF Wake
  <2>4. CASE "CHLD" \in some
    <3>1. "reap" \in flags'
      BY <2>3, <2>4 DEF FlagOf
    <3>2. Bounded(table', proc', cycle, stage', TRUE)
      BY <1>0, <2>2, <2>3, <2>4, StatusBound
    <3> QED
      BY <2>1, <3>1, <3>2 DEF MayExited
  <2>5. CASE "CHLD" \notin some
    BY <1>0, <1>1, <2>1, <2>2, <2>3, <2>5, SameTableBound
  <2> QED
    BY <2>4, <2>5
<1>5. CASE Terminate \/ Quit \/ QuitOldWorkers \/ Reopen \/ NoAccept
  <2>1. cycle' = cycle
    BY <1>5 DEF Terminate, Quit, QuitOldWorkers, Reopen, NoAccept
  <2>2. ASSUME QuitOldWorkers PROVE SignalWorkers(table, "quit", flags)
    BY <2>2 DEF QuitOldWorkers
  <2>3. ASSUME Terminate \/ Quit \/ Reopen \/ NoAccept
        PROVE  /\ ~ToldNext(stage)
               /\ \/ UNCHANGED <<table, proc>>
                  \/ \E cmd, rest : SignalWorkers(table, cmd, rest)
    <3>1. stage \in {"check", "reopen", "noaccept"}
      BY <2>3 DEF Terminate, Quit, Reopen, NoAccept, Staying
    <3>2. \/ UNCHANGED <<table, proc>>
          \/ \E cmd, rest : SignalWorkers(table, cmd, rest)
      BY <2>3, Zenon DEF Terminate, Quit, Reopen, NoAccept
    <3> QED
      BY <3>1, <3>2, StageNames
  <2>4. CASE QuitOldWorkers
    BY <1>0, <2>1, <2>2, <2>4, SignalBound
  <2>5. CASE Terminate \/ Quit \/ Reopen \/ NoAccept
    BY <1>0, <1>1, <2>1, <2>3, <2>5, SignalBound, SameTableBound
  <2> QED
    BY <1>5, <2>4, <2>5
<1>6. CASE Reconfigure
  <2>1. stage = "check" /\ ToldNext(stage') /\ StartProcesses(TRUE, cycle + 1) /\ cycle' = cycle + 1
    BY <1>6, Zenon DEF Reconfigure, Running, Staying, ToldNext
  <2>2. Unmarked(table)
    <3>1. stage # "quit old"
      BY <2>1, Zenon
    <3> QED
      BY <1>0, <3>1, UnmarkedElsewhere, Zenon
  <2>3. ASSUME NEW i \in DOMAIN table, table[i].pid # Invalid
        PROVE  ~table[i].detached /\ ~table[i].exited /\ proc[table[i].pid].cycle < cycle + 1
    <3>1. Rows(table, pids) /\ Forked(proc, pids)
      BY <1>0 DEF MpInv, Tracked
    <3>2. proc[table[i].pid].cycle \in Nat
      BY <2>3, <3>1, PidsKnown DEF Processes
    <3>3. ~table[i].detached /\ ~table[i].exited /\ proc[table[i].pid].cycle <= cycle
      BY <1>0, <2>3 DEF Bounded, Fits
    <3> QED
      BY <1>0, <3>2, <3>3
  <2>4. Bounded(table', proc', cycle + 1, stage', FALSE)
    BY <1>0, <2>1, <2>2, <2>3, StartBound
  <2> QED
    BY <2>1, <2>4
<1>7. ~ReconfigureOldBinary /\ ~Restart /\ ~Reap
  BY <1>0 DEF ReconfigureOldBinary, Restart, Reap
<1> QED
  BY <1>2, <1>3, <1>4, <1>5, <1>6, <1>7 DEF Turn

LEMMA BdNext ==
  ASSUME MaxFaults = 0, "USR2" \notin Operator, BdInv, [Next]_vars
  PROVE  BdInv'
<1>0. MpInv /\ Unfailed /\ Plain /\ MpInv' /\ Plain'
  BY MpNext, PlainNext DEF BdInv
<1>1. ASSUME Reap
      PROVE  Bounded(table', proc', cycle', stage', FALSE) /\ (ReapChildren => Unfailed')
  <2>1. stage = "reap" /\ cycle' = cycle
    BY <1>1 DEF Reap
  <2>2. ~ToldNext(stage)
    BY <2>1, StageNames
  <2>3. Unmarked(table)
    <3>1. stage # "quit old"
      BY <2>1, Zenon
    <3> QED
      BY <1>0, <3>1, UnmarkedElsewhere, Zenon
  <2>4. Bounded(table, proc, cycle, stage, MayExited(stage, flags))
    BY DEF BdInv
  <2>5. CASE "reap" \in flags
    <3>1. ReapChildren
      BY <1>1, <2>5 DEF Reap
    <3> QED
      BY <1>0, <2>1, <2>2, <2>3, <2>4, <3>1, ReapBound
  <2>6. CASE "reap" \notin flags
    <3>1. UNCHANGED <<table, proc, count>>
      BY <1>1, <2>6, Zenon DEF Reap
    <3>2. MayExited(stage, flags) = FALSE
      BY <2>6 DEF MayExited
    <3>3. Bounded(table, proc, cycle, stage, FALSE)
      BY <2>4, <3>2
    <3>4. Kept(proc, proc')
      BY <3>1 DEF Kept
    <3>5. Bounded(table', proc', cycle', stage', FALSE)
      BY <1>0, <2>1, <2>2, <3>1, <3>3, <3>4, SameTableBound
    <3> QED
      BY <1>0, <3>1, <3>5, CountStep
  <2> QED
    BY <2>5, <2>6
<1>2. Unfailed'
  BY <1>0, <1>1, UnfailedNext
<1>3. ASSUME Turn, stage # "reap"
      PROVE  \/ Bounded(table', proc', cycle', stage', FALSE)
             \/ Bounded(table', proc', cycle', stage', TRUE) /\ MayExited(stage', flags')
  BY <1>3, BoundedTurn
<1>4. ASSUME ~Turn
      PROVE  Bounded(table', proc', cycle', stage', MayExited(stage', flags'))
  <2> DEFINE may == MayExited(stage, flags)
  <2>1. Bounded(table, proc, cycle, stage, may) /\ Rows(table, pids) /\ Forked(proc, pids)
    BY DEF BdInv, MpInv, Tracked
  <2>2. UNCHANGED <<table, cycle, stage>> /\ MayExited(stage', flags') = may /\ Kept(proc, proc')
    <3>1. CASE Alarm \/ (\E s \in Operator : Send(s)) \/ UNCHANGED vars
      <4>1. UNCHANGED <<table, proc, cycle, stage, flags>>
        BY <3>1 DEF Alarm, Send, vars, master, children
      <4> QED
        BY <4>1 DEF Kept
    <3>2. ASSUME NEW p \in Pids, Child(p) \/ Crash(p) \/ FatalExit(p)
          PROVE  UNCHANGED <<table, cycle, stage, flags>> /\ Kept(proc, proc')
      BY <1>0, <3>2, ChildKeeps DEF master
    <3> QED
      BY <1>4, <3>1, <3>2 DEF Next
  <2> HIDE DEF may
  <2>3. \A i \in DOMAIN table : Later(table[i], table'[i], may)
    BY <2>1, <2>2 DEF Bounded, Fits, Later
  <2>4. Bounded(table', proc', cycle, stage', may)
    BY <2>1, <2>2, <2>3, KeptBound
  <2> QED
    BY <2>2, <2>4
<1>5. Bounded(table', proc', cycle', stage', MayExited(stage', flags'))
  <2>1. CASE Bounded(table', proc', cycle', stage', FALSE)
    BY <2>1, BoundedWeaker
  <2>2. CASE Bounded(table', proc', cycle', stage', TRUE) /\ MayExited(stage', flags')
    <3>1. MayExited(stage', flags') = TRUE
      BY <2>2 DEF MayExited
    <3> QED
      BY <2>2, <3>1
  <2>3. Turn /\ stage = "reap" => Reap
    BY DEF Turn, Start, LoopTop, Wake, Exit, Terminate, Quit, ReconfigureOldBinary,
       ReconfigureRejected, Reconfigure, QuitOldWorkers, NoReconfigure, Restart, NoRestart, Reopen,
       ChangeBinary, NoAccept, Running, Staying
  <2> QED
    BY <1>1, <1>3, <1>4, <2>1, <2>2, <2>3
<1>6. stage' = "start" => table' = <<>>
  <2>1. stage' # "start" \/ UNCHANGED <<stage, table>>
    BY Zenon DEF Next, Turn, Start, LoopTop, Wake, Reap, Exit, Terminate, Quit, ReconfigureOldBinary,
       ReconfigureRejected, Reconfigure, QuitOldWorkers, NoReconfigure, Restart, NoRestart, Reopen,
       ChangeBinary, NoAccept, Alarm, Send, Child, Obey, Drained, LoaderDone, Crash, FatalExit,
       Ends, master, children, vars
  <2> QED
    BY <2>1 DEF BdInv
<1>7. Bounded(table, proc, cycle, stage, MayExited(stage, flags))' <=>
        Bounded(table', proc', cycle', stage', MayExited(stage', flags'))
  BY DEF Bounded, Fits, Counts, Few, ToldNext, MayExited
<1> QED
  BY <1>0, <1>2, <1>5, <1>6, <1>7 DEF BdInv

LEMMA BdInit ==
  ASSUME MaxFaults = 0, Init
  PROVE  BdInv
<1>1. MpInv
  BY MpInit
<1>2. table = <<>> /\ DOMAIN table = {} /\ newbinary = 0 /\ flags = {} /\ pending = {}
  BY DEF Init
<1>3. Unfailed
  BY DEF Init, Unfailed
<1>4. Plain
  BY <1>2 DEF Plain
<1>5. Few({i \in DOMAIN table : Counts(table[i], proc, cycle, stage)})
  <2> DEFINE S == {i \in DOMAIN table : Counts(table[i], proc, cycle, stage)}
  <2>1. S = {}
    BY <1>2
  <2> HIDE DEF S
  <2>2. IsFiniteSet(S) /\ Cardinality(S) = 0
    BY <2>1, FS_EmptySet
  <2>3. Few(S)
    BY <2>2, BoundIsNat DEF Few
  <2> QED
    BY <2>3 DEF S
<1>6. Bounded(table, proc, cycle, stage, MayExited(stage, flags))
  BY <1>2, <1>5 DEF Bounded
<1> QED
  BY <1>1, <1>2, <1>3, <1>4, <1>6 DEF BdInv

(* A worker is started only in the place of one that was to go on, or of    *)
(* all of them: however reloads, stops and the deaths of workers overlap,   *)
(* ngx_reap_children and ngx_start_worker_processes never leave more than   *)
(* worker_processes of them running with the configuration in use.  It is   *)
(* so while every fork() succeeds and no binary is upgraded: a failing      *)
(* respawn and the end of a new binary can start some of them twice.        *)
THEOREM WorkersAreBounded ==
  ASSUME MaxFaults = 0, "USR2" \notin Operator
  PROVE  Spec => []WorkersBounded
<1>1. Init => BdInv
  BY BdInit
<1>2. BdInv /\ [Next]_vars => BdInv'
  BY BdNext
<1>3. BdInv => WorkersBounded
  <2> SUFFICES ASSUME BdInv PROVE WorkersBounded
    OBVIOUS
  <2> DEFINE may == MayExited(stage, flags)
  <2>1. MpInv /\ Bounded(table, proc, cycle, stage, may)
    BY DEF BdInv
  <2> HIDE DEF may
  <2> QED
    BY <2>1, CurrentFew
<1> QED
  BY <1>1, <1>2, <1>3, PTL DEF Spec
=============================================================================
