---------------------------- MODULE LimitsProofs ----------------------------
(***************************************************************************)
(* Proofs about the zones of Limits, for any number of workers, limits,     *)
(* keys, rates, bursts and failures.                                        *)
(***************************************************************************)
EXTENDS Limits, SequenceLemmas, WellFoundedInduction

-----------------------------------------------------------------------------
(* The least and the greatest zone of some.                                 *)

LEMMA MinFacts ==
  ASSUME NEW S \in SUBSET Int, IsFiniteSet(S), S # {}
  PROVE  Min(S) \in S /\ \A y \in S : Min(S) <= y
<1> DEFINE below(x) == {y \in S : y <= x}
           T == {below(x) : x \in S}
<1>1. IsWellFoundedOn(StrictSubsetOrdering(S), FiniteSubsetsOf(S))
  BY FS_StrictSubsetOrderingWellFounded
<1>2. T \subseteq FiniteSubsetsOf(S)
  BY FS_Subset DEF FiniteSubsetsOf
<1>3. T # {}
  OBVIOUS
<1>4. PICK U \in T : \A V \in T : <<V, U>> \notin StrictSubsetOrdering(S)
  BY <1>1, <1>2, <1>3, WFMin
<1>5. PICK x \in S : U = below(x)
  BY <1>4
<1>6. ASSUME NEW y \in S, ~(x <= y) PROVE FALSE
  <2>1. y \in Int /\ x \in Int /\ \A s \in S : s \in Int
    OBVIOUS
  <2>2. below(y) \subseteq below(x) /\ x \in below(x) /\ x \notin below(y)
    <3>1. \A s \in S : s <= y => s <= x
      BY <1>6, <2>1
    <3>2. x <= x /\ ~(x <= y)
      BY <1>6, <2>1
    <3>3. below(y) \subseteq below(x)
      BY <3>1
    <3> QED
      BY <3>2, <3>3
  <2>3. below(y) \in T /\ below(y) \in SUBSET S /\ below(x) \in SUBSET S
    OBVIOUS
  <2> QED
    BY <1>4, <1>5, <2>2, <2>3 DEF StrictSubsetOrdering
<1>7. \E m \in S : \A y \in S : m <= y
  BY <1>6
<1> QED
  BY <1>7 DEF Min

LEMMA MaxFacts ==
  ASSUME NEW S \in SUBSET Int, IsFiniteSet(S), S # {}
  PROVE  Max(S) \in S /\ \A y \in S : y <= Max(S)
<1> DEFINE above(x) == {y \in S : y >= x}
           T == {above(x) : x \in S}
<1>1. IsWellFoundedOn(StrictSubsetOrdering(S), FiniteSubsetsOf(S))
  BY FS_StrictSubsetOrderingWellFounded
<1>2. T \subseteq FiniteSubsetsOf(S)
  BY FS_Subset DEF FiniteSubsetsOf
<1>3. T # {}
  OBVIOUS
<1>4. PICK U \in T : \A V \in T : <<V, U>> \notin StrictSubsetOrdering(S)
  BY <1>1, <1>2, <1>3, WFMin
<1>5. PICK x \in S : U = above(x)
  BY <1>4
<1>6. ASSUME NEW y \in S, ~(x >= y) PROVE FALSE
  <2>1. y \in Int /\ x \in Int /\ \A s \in S : s \in Int
    OBVIOUS
  <2>2. above(y) \subseteq above(x) /\ x \in above(x) /\ x \notin above(y)
    <3>1. \A s \in S : s >= y => s >= x
      BY <1>6, <2>1
    <3>2. x >= x /\ ~(x >= y)
      BY <1>6, <2>1
    <3>3. above(y) \subseteq above(x)
      BY <3>1
    <3> QED
      BY <3>2, <3>3
  <2>3. above(y) \in T /\ above(y) \in SUBSET S /\ above(x) \in SUBSET S
    OBVIOUS
  <2> QED
    BY <1>4, <1>5, <2>2, <2>3 DEF StrictSubsetOrdering
<1>7. \E m \in S : \A y \in S : m >= y
  BY <1>6
<1> QED
  BY <1>7 DEF Max

LEMMA FrontFacts ==
  ASSUME NEW S, NEW q \in Seq(S), q # <<>>
  PROVE  /\ Front(q) \in Seq(S) /\ Last(q) \in S /\ Last(q) \in ToSet(q)
         /\ IsInjective(q) => IsInjective(Front(q)) /\ ToSet(Front(q)) = ToSet(q) \ {Last(q)}
<1>1. Len(q) \in Nat \ {0} /\ DOMAIN q = 1..Len(q) /\ \A i \in 1..Len(q) : q[i] \in S
  OBVIOUS
<1>2. /\ Front(q) \in Seq(S) /\ Len(Front(q)) = Len(q) - 1
      /\ \A i \in 1..(Len(q) - 1) : Front(q)[i] = q[i]
  BY <1>1 DEF Front
<1>3. Len(q) \in DOMAIN q /\ Last(q) = q[Len(q)]
  BY <1>1 DEF Last
<1>4. DOMAIN Front(q) = 1..(Len(q) - 1)
  BY <1>1, <1>2
<1>5. \A i \in DOMAIN Front(q) : i \in DOMAIN q /\ i # Len(q) /\ Front(q)[i] = q[i]
  BY <1>1, <1>2, <1>4
<1>6. \A i \in DOMAIN q : i # Len(q) => i \in DOMAIN Front(q)
  BY <1>1, <1>4
<1>7. ASSUME IsInjective(q)
      PROVE  IsInjective(Front(q)) /\ ToSet(Front(q)) = ToSet(q) \ {Last(q)}
  <2>1. IsInjective(Front(q))
    BY <1>5, <1>7 DEF IsInjective
  <2>2. ToSet(Front(q)) = ToSet(q) \ {Last(q)}
    BY <1>3, <1>5, <1>6, <1>7 DEF IsInjective, ToSet
  <2> QED
    BY <2>1, <2>2
<1> QED
  BY <1>1, <1>2, <1>3, <1>7 DEF ToSet

(* How many of a set's members are left when one joins or leaves.           *)
LEMMA OneJoins ==
  ASSUME NEW A, NEW B, IsFiniteSet(A), NEW x, x \notin A, B = A \cup {x}
  PROVE  IsFiniteSet(B) /\ Cardinality(B) = Cardinality(A) + 1 /\ Cardinality(A) \in Nat
BY FS_AddElement, FS_CardinalityType

LEMMA OneLeaves ==
  ASSUME NEW A, NEW B, IsFiniteSet(A), NEW x \in A, B = A \ {x}
  PROVE  IsFiniteSet(B) /\ Cardinality(B) = Cardinality(A) - 1 /\ Cardinality(B) \in Nat
BY FS_RemoveElement, FS_CardinalityType

(* Division rounds down; what two divisions give is not more than that of   *)
(* the sum.                                                                 *)
LEMMA DivFacts ==
  ASSUME NEW a \in Int, NEW u \in Nat \ {0}
  PROVE  a \div u \in Int /\ u * (a \div u) <= a /\ a <= u * (a \div u) + u - 1
OBVIOUS

LEMMA DivOfSum ==
  ASSUME NEW a \in Int, NEW b \in Int, NEW u \in Nat \ {0}
  PROVE  (a \div u) + (b \div u) <= (a + b) \div u
<1> DEFINE p == a \div u
           q == b \div u
           s == (a + b) \div u
<1>1. p \in Int /\ q \in Int /\ s \in Int /\ a + b \in Int
  BY DivFacts
<1>2. u * p <= a /\ u * q <= b /\ a + b <= u * s + u - 1
  BY <1>1, DivFacts
<1> HIDE DEF p, q, s
<1>3. u * p + u * q = u * (p + q) /\ u * (s + 1) = u * s + u
  BY <1>1
<1>4. u * (p + q) < u * (s + 1)
  BY <1>1, <1>2, <1>3
<1>5. p + q < s + 1
  <2>1. ASSUME p + q >= s + 1 PROVE FALSE
    <3>1. PICK e \in Nat : p + q = (s + 1) + e
      BY <1>1, <2>1
    <3>2. u * (p + q) = u * (s + 1) + u * e /\ u * e >= 0
      BY <1>1, <3>1
    <3> QED
      BY <1>1, <1>4, <3>2
  <2> QED
    BY <1>1, <2>1
<1> QED
  BY <1>1, <1>5 DEF p, q, s

-----------------------------------------------------------------------------
(* The state: workers that are somewhere in a request, and nodes.           *)
LrKeys == [LrZones -> LimKeys \cup {NoKey}]
LcKeys == [LcZones -> LimKeys \cup {NoKey}]

LimAsk == [req : LrKeys, conn : LcKeys]

LimStates == {"idle", "lookup", "charge", "undo", "conn", "run", "cleanup"}

LimWorker ==
  [st : LimStates, ask : LimAsk, n : Int, now : Nat,
   node : LrKeys, conns : Seq(LcZones)]

LrNode ==
  [here : BOOLEAN, excess : Nat, last : Nat, count : Int,
   charged : Nat, since : Nat, back : BOOLEAN]

LrZone == [node : [LimKeys -> LrNode], queue : Seq(LimKeys)]

LimTypes ==
  /\ lrz \in [LrZones -> LrZone]
  /\ lcz \in [LcZones -> [LimKeys -> Int]]
  /\ lw \in [LimWorkers -> LimWorker]
  /\ lim \in [clock : Nat, faults : Nat, misled : BOOLEAN,
              lost : [LrZones -> [LimKeys -> Nat]],
              lostConns : [LcZones -> [LimKeys -> Nat]]]

(* A worker works on a zone that its request has a key for, and a cleanup   *)
(* handler is of a zone that the request has been counted in.  The last     *)
(* limit has no node in its description: it is charged at once.             *)
AtWork(x) ==
  /\ x.st = "lookup" => x.n \in LrZones /\ x.ask.req[x.n] # NoKey
  /\ x.st \in {"charge", "undo"} => x.n \in LrZones /\ x.node[x.n] # NoKey
  /\ x.st = "conn" => /\ x.n \in LcZones /\ x.ask.conn[x.n] # NoKey
                      /\ \A z \in ToSet(x.conns) : z < x.n
  /\ x.st \in {"idle", "lookup", "charge", "undo"} => x.conns = <<>>
  /\ x.st = "cleanup" => x.conns # <<>>
  /\ IsInjective(x.conns)
  /\ \A z \in ToSet(x.conns) : x.ask.conn[z] # NoKey
  /\ \A z \in LrZones : x.node[z] # NoKey => z # Len(LrBurst)

(* While no look-up has failed, a worker has only the nodes that its        *)
(* request has looked up and not yet settled.                               *)
Tidy(x) ==
  \A z \in LrZones : x.node[z] # NoKey =>
    /\ x.st \in {"lookup", "charge", "undo"}
    /\ x.st = "lookup" => z < x.n
    /\ x.st # "lookup" => z <= x.n

(* A zone's queue has the nodes, and a node that is not there is empty.     *)
ZoneSound(zn) ==
  /\ IsInjective(zn.queue)
  /\ ToSet(zn.queue) = {k \in LimKeys : zn.node[k].here}
  /\ \A k \in LimKeys : ~zn.node[k].here => zn.node[k] = NoLrNode

Users(z, k) == {w \in LimWorkers : lw[w].node[z] = k}

CountSound(z, k) == lrz[z].node[k].count = Cardinality(Users(z, k)) + lim.lost[z][k]

RateSound(z, d) ==
  d.charged > 0 /\ ~d.back =>
    LrUnit * (d.charged - 1) <= d.excess + (LrRate[z] * (d.last - d.since)) \div LrUnit

(* The workers that are still to charge a node by some time, and what their *)
(* charges and the rounding can add to its excess.                          *)
Ahead(z, k, T) == {w \in Users(z, k) : lw[w].now <= T}

Share == LrUnit * LrUnit + LrUnit - 1

Slack(z) ==
  LrUnit * (LrBurst[z] - LrUnit) + LrUnit * (LrRate[z] \div LrUnit)
  + Share * Cardinality(LimWorkers)

Allowed(z, m) == m <= Share \/ m <= Slack(z)

BurstSound(z, k) ==
  LET d == lrz[z].node[k]
  IN IF z = Len(LrBurst) THEN d.excess <= LrBurst[z]
     ELSE ~lim.misled =>
            \A T \in Nat : T >= d.last =>
              Allowed(z, LrUnit * d.excess - LrRate[z] * (T - d.last)
                         + Share * Cardinality(Ahead(z, k, T)))

LimInv ==
  /\ LimTypes
  /\ \A w \in LimWorkers : AtWork(lw[w])
  /\ ~lim.misled => \A w \in LimWorkers : Tidy(lw[w])
  /\ \A z \in LrZones : ZoneSound(lrz[z])
  /\ \A z \in LrZones, k \in LimKeys :
       CountSound(z, k) /\ RateSound(z, lrz[z].node[k]) /\ BurstSound(z, k)
  /\ ConnsKept

-----------------------------------------------------------------------------
(* Where a worker goes on.                                                  *)
LEMMA LimFacts ==
  /\ Len(LrBurst) \in Nat /\ LrZones = 1 .. Len(LrBurst)
  /\ Len(LcMax) \in Nat /\ LcZones = 1 .. Len(LcMax)
  /\ \A z \in LrZones : LrBurst[z] \in Nat /\ LrRate[z] \in Nat
  /\ \A z \in LcZones : LcMax[z] \in Nat
  /\ LrUnit \in Nat \ {0} /\ LrSkew \in Nat /\ LrOld \in Nat /\ LrCap \in Nat
  /\ IsFiniteSet(LimWorkers) /\ Cardinality(LimWorkers) \in Nat \ {0}
  /\ NoKey \notin LimKeys
  /\ LimAsks \subseteq LimAsk
<1>1. LrBurst \in Seq(Nat) /\ LcMax \in Seq(Nat) /\ LrRate \in [LrZones -> Nat]
  BY LimAssumption DEF LimAssumption
<1>2. IsFiniteSet(LimWorkers) /\ Cardinality(LimWorkers) \in Nat \ {0}
  BY LimAssumption, FS_CardinalityType, FS_EmptySet DEF LimAssumption
<1>3. LrUnit \in Nat \ {0} /\ LrSkew \in Nat /\ LrOld \in Nat /\ LrCap \in Nat /\ NoKey \notin LimKeys
  BY LimAssumption DEF LimAssumption
<1>4. LimAsks \subseteq LimAsk
  BY LimAssumption DEF LimAssumption, LimAsk, LrKeys, LcKeys
<1> QED
  BY <1>1, <1>2, <1>3, <1>4 DEF LrZones, LcZones

LEMMA SomeZones ==
  ASSUME NEW S, S \subseteq LrZones \/ S \subseteq LcZones, S # {}
  PROVE  /\ Min(S) \in S /\ \A y \in S : Min(S) <= y
         /\ Max(S) \in S /\ \A y \in S : y <= Max(S)
<1>1. \E m \in Nat : S \subseteq 1 .. m
  BY LimFacts
<1>2. PICK m \in Nat : S \subseteq 1 .. m
  BY <1>1
<1>3. IsFiniteSet(1 .. m)
  BY FS_Interval
<1>4. IsFiniteSet(S)
  BY <1>2, <1>3, FS_Subset
<1>5. S \in SUBSET Int
  BY <1>2
<1> QED
  BY <1>4, <1>5, MinFacts, MaxFacts

(* What the step to another state leaves alone.                             *)
Follows(x, y) ==
  /\ y \in LimWorker /\ y.node = x.node /\ y.conns = x.conns
  /\ y.now = x.now \/ y.st = "idle"

LEMMA NoAskType == NoAsk \in LimAsk
BY DEF NoAsk, LimAsk, LrKeys, LcKeys

Restarted(x, st, a, n, t) == [x EXCEPT !.st = st, !.ask = a, !.n = n, !.now = t]

LEMMA RestartedFacts ==
  ASSUME NEW x \in LimWorker, NEW st \in LimStates, NEW a \in LimAsk, NEW n \in Int, NEW t \in Nat
  PROVE  LET y == Restarted(x, st, a, n, t)
         IN y \in LimWorker /\ y.node = x.node /\ y.conns = x.conns /\ y.st = st
BY DEF Restarted, LimWorker

LEMMA EndedFacts ==
  ASSUME NEW x \in LimWorker
  PROVE  Follows(x, LimEnded(x)) /\ LimEnded(x).st = "idle"
<1>1. NoAsk \in LimAsk /\ "idle" \in LimStates
  BY NoAskType DEF LimStates
<1>2. LimEnded(x) = Restarted(x, "idle", NoAsk, 0, 0)
  BY DEF LimEnded, Restarted
<1> QED
  BY <1>1, <1>2, RestartedFacts DEF Follows

Moved(x, st, n) == [x EXCEPT !.st = st, !.n = n]

LEMMA MovedFacts ==
  ASSUME NEW x \in LimWorker, NEW st \in LimStates, NEW n \in Int
  PROVE  /\ Follows(x, Moved(x, st, n)) /\ Moved(x, st, n).ask = x.ask
         /\ Moved(x, st, n).st = st /\ Moved(x, st, n).n = n
<1> DEFINE y == Moved(x, st, n)
<1>1. y \in LimWorker
  BY DEF LimWorker, Moved
<1>2. /\ y.node = x.node /\ y.conns = x.conns /\ y.now = x.now
      /\ y.ask = x.ask /\ y.st = st /\ y.n = n
  BY DEF LimWorker, Moved
<1> QED
  BY <1>1, <1>2 DEF Follows

LEMMA ConnFromFacts ==
  ASSUME NEW x \in LimWorker, NEW n \in Int
  PROVE  LET y == ConnFrom(x, n)
         IN /\ Follows(x, y) /\ y.ask = x.ask
            /\ \/ y.st = "run"
               \/ y.st = "conn" /\ y.n \in LcZones /\ y.n >= n /\ x.ask.conn[y.n] # NoKey
<1> DEFINE zs == {z \in LcZones : z >= n /\ x.ask.conn[z] # NoKey}
           r == Moved(x, "run", 0)
           c(m) == Moved(x, "conn", m)
<1>1. ConnFrom(x, n) = IF zs = {} THEN r ELSE c(Min(zs))
  BY DEF ConnFrom, Moved
<1>2. Follows(x, r) /\ r.ask = x.ask /\ r.st = "run"
  BY MovedFacts DEF LimStates
<1>3. ASSUME NEW m \in Int
      PROVE  Follows(x, c(m)) /\ c(m).ask = x.ask /\ c(m).st = "conn" /\ c(m).n = m
  BY MovedFacts DEF LimStates
<1>4. zs \subseteq LcZones
  OBVIOUS
<1>5. zs # {} => Min(zs) \in zs /\ Min(zs) \in Int
  <2> HIDE DEF zs
  <2>1. zs # {} => Min(zs) \in zs
    BY <1>4, SomeZones
  <2>2. \A z \in LcZones : z \in Int
    BY LimFacts
  <2> QED
    BY <1>4, <2>1, <2>2
<1> HIDE DEF r, c
<1> QED
  BY <1>1, <1>2, <1>3, <1>5

LEMMA CleanFromFacts ==
  ASSUME NEW x \in LimWorker
  PROVE  LET y == CleanFrom(x)
         IN /\ Follows(x, y)
            /\ x.conns = <<>> => y.st = "idle"
            /\ x.conns # <<>> => y.st = "cleanup" /\ y.ask = x.ask
<1> DEFINE c == Moved(x, "cleanup", 0)
<1>1. Follows(x, c) /\ c.ask = x.ask /\ c.st = "cleanup"
  BY MovedFacts DEF LimStates
<1>2. CleanFrom(x) = IF x.conns = <<>> THEN LimEnded(x) ELSE c
  BY DEF CleanFrom, Moved
<1> HIDE DEF c
<1> QED
  BY <1>1, <1>2, EndedFacts

(* A worker that is done with the rates and has no connection counted yet.  *)
LEMMA AtWorkAfter ==
  ASSUME NEW x \in LimWorker, x.conns = <<>>,
         \A z \in LrZones : x.node[z] # NoKey => z # Len(LrBurst),
         NEW y, Follows(x, y),
         y.st \in {"idle", "run"} \/ (y.st = "conn" /\ y.n \in LcZones /\ y.ask.conn[y.n] # NoKey)
  PROVE  AtWork(y)
BY DEF AtWork, Follows, ToSet, IsInjective

(* The nodes to settle, down from zone n.                                   *)
LEMMA SettleFromFacts ==
  ASSUME NEW x \in LimWorker, x.conns = <<>>, NEW st \in {"charge", "undo"}, NEW n \in Int,
         \A z \in LrZones : x.node[z] # NoKey => z # Len(LrBurst)
  PROVE  LET y == SettleFrom(x, st, n)
         IN /\ Follows(x, y) /\ AtWork(y)
            /\ (\A z \in LrZones : x.node[z] # NoKey => z <= n) => Tidy(y)
<1> DEFINE zs == {z \in LrZones : z <= n /\ x.node[z] # NoKey}
           s(m) == Moved(x, st, m)
           y == SettleFrom(x, st, n)
<1>1. zs \subseteq LrZones /\ \A z \in LrZones : z \in Int
  BY LimFacts
<1>2. y = IF zs # {} THEN s(Max(zs)) ELSE IF st = "charge" THEN ConnFrom(x, 1) ELSE LimEnded(x)
  BY DEF SettleFrom, Moved
<1>3. CASE zs # {}
  <2>1. Max(zs) \in zs /\ \A z \in zs : z <= Max(zs)
    <3> HIDE DEF zs
    <3> QED
      BY <1>1, <1>3, SomeZones
  <2>2. y = s(Max(zs)) /\ Max(zs) \in Int
    BY <1>1, <1>2, <1>3, <2>1
  <2>3. Follows(x, y) /\ y.st = st /\ y.n = Max(zs)
    BY <2>2, MovedFacts DEF LimStates
  <2>4. y.node = x.node /\ y.conns = <<>>
    BY <2>3 DEF Follows
  <2>5. AtWork(y)
    BY <2>1, <2>3, <2>4 DEF AtWork, ToSet, IsInjective
  <2>6. ASSUME \A z \in LrZones : x.node[z] # NoKey => z <= n
        PROVE  Tidy(y)
    <3>1. \A z \in LrZones : y.node[z] # NoKey => z <= y.n
      BY <2>1, <2>3, <2>4, <2>6
    <3> QED
      BY <2>3, <3>1 DEF Tidy
  <2> QED
    BY <2>3, <2>5, <2>6
<1>4. CASE zs = {}
  <2>1. /\ Follows(x, y)
        /\ \/ y.st \in {"idle", "run"}
           \/ y.st = "conn" /\ y.n \in LcZones /\ y.ask.conn[y.n] # NoKey
    BY <1>2, <1>4, ConnFromFacts, EndedFacts
  <2>2. AtWork(y)
    BY <2>1, AtWorkAfter
  <2>3. ASSUME \A z \in LrZones : x.node[z] # NoKey => z <= n
        PROVE  Tidy(y)
    <3>1. \A z \in LrZones : x.node[z] = NoKey
      BY <1>4, <2>3
    <3> QED
      BY <2>1, <3>1 DEF Tidy, Follows
  <2> QED
    BY <2>1, <2>2, <2>3
<1> QED
  BY <1>3, <1>4

(* The look-ups from zone n on.                                             *)
LEMMA LookupFromFacts ==
  ASSUME NEW x \in LimWorker, x.conns = <<>>, NEW n \in Nat,
         \A z \in LrZones : x.node[z] # NoKey => z # Len(LrBurst)
  PROVE  LET y == LookupFrom(x, n)
         IN /\ Follows(x, y) /\ AtWork(y)
            /\ (\A z \in LrZones : x.node[z] # NoKey =>
                  z < n /\ \E v \in LrZones : x.ask.req[v] # NoKey) => Tidy(y)
<1> DEFINE keys == {z \in LrZones : x.ask.req[z] # NoKey}
           zs == {z \in keys : z >= n}
           l(m) == Moved(x, "lookup", m)
           y == LookupFrom(x, n)
<1>1. zs \subseteq LrZones /\ \A z \in LrZones : z \in Int /\ z <= Len(LrBurst)
  BY LimFacts
<1>2. y = IF zs # {} THEN l(Min(zs)) ELSE IF keys = {} THEN ConnFrom(x, 1)
          ELSE SettleFrom(x, "charge", Len(LrBurst))
  BY DEF LookupFrom, Moved
<1>3. CASE zs # {}
  <2>1. Min(zs) \in zs
    <3> HIDE DEF zs
    <3> QED
      BY <1>1, <1>3, SomeZones
  <2>2. y = l(Min(zs)) /\ Min(zs) \in Int /\ Min(zs) \in LrZones /\ Min(zs) >= n
        /\ x.ask.req[Min(zs)] # NoKey
    BY <1>1, <1>2, <1>3, <2>1
  <2> HIDE DEF zs
  <2>3. Follows(x, y) /\ y.st = "lookup" /\ y.n = Min(zs) /\ y.ask = x.ask
    BY <2>2, MovedFacts DEF LimStates
  <2>4. y.node = x.node /\ y.conns = <<>>
    BY <2>3 DEF Follows
  <2>5. AtWork(y)
    BY <2>2, <2>3, <2>4 DEF AtWork, ToSet, IsInjective
  <2>6. ASSUME \A z \in LrZones : x.node[z] # NoKey => z < n
        PROVE  Tidy(y)
    <3>1. \A z \in LrZones : y.node[z] # NoKey => z < y.n
      BY <1>1, <2>2, <2>3, <2>4, <2>6
    <3> QED
      BY <2>3, <3>1 DEF Tidy
  <2> QED
    BY <2>3, <2>5, <2>6
<1>4. CASE zs = {} /\ keys = {}
  <2>1. /\ Follows(x, y)
        /\ \/ y.st \in {"idle", "run"}
           \/ y.st = "conn" /\ y.n \in LcZones /\ y.ask.conn[y.n] # NoKey
    BY <1>2, <1>4, ConnFromFacts
  <2>2. AtWork(y)
    BY <2>1, AtWorkAfter
  <2>3. ASSUME \A z \in LrZones : x.node[z] # NoKey =>
                 z < n /\ \E v \in LrZones : x.ask.req[v] # NoKey
        PROVE  Tidy(y)
    <3>1. \A z \in LrZones : x.node[z] = NoKey
      BY <1>4, <2>3
    <3> QED
      BY <2>1, <3>1 DEF Tidy, Follows
  <2> QED
    BY <2>1, <2>2, <2>3
<1>5. CASE zs = {} /\ keys # {}
  <2>1. y = SettleFrom(x, "charge", Len(LrBurst)) /\ Len(LrBurst) \in Int
    BY <1>2, <1>5, LimFacts
  <2>2. \A z \in LrZones : x.node[z] # NoKey => z <= Len(LrBurst)
    BY <1>1
  <2> HIDE DEF y, zs, keys
  <2>3. Follows(x, y) /\ AtWork(y) /\ Tidy(y)
    BY <2>1, <2>2, SettleFromFacts
  <2> QED
    BY <2>3 DEF y
<1> QED
  BY <1>3, <1>4, <1>5

-----------------------------------------------------------------------------
(* Nodes: the excess and what a charge makes of it.                         *)
LEMMA LrMsFacts ==
  ASSUME NEW now \in Nat, NEW last \in Nat
  PROVE  /\ LrMs(now, last) \in Nat
         /\ now > last => LrMs(now, last) = now - last
         /\ now = last => LrMs(now, last) = 0
         /\ now < last => LrMs(now, last) = 0 \/ (LrMs(now, last) = 1 /\ now - last < -LrSkew)
<1>1. LrSkew \in Nat /\ now - last \in Int
  BY LimFacts
<1>2. LrMs(now, last) = IF now - last < -LrSkew THEN 1 ELSE IF now - last < 0 THEN 0 ELSE now - last
  BY DEF LrMs
<1> DEFINE ms == LrMs(now, last)
<1> HIDE DEF ms
<1>3. ms = IF now - last < -LrSkew THEN 1 ELSE IF now - last < 0 THEN 0 ELSE now - last
  BY <1>2 DEF ms
<1>4. CASE now >= last
  <2>1. ms = now - last
    BY <1>1, <1>3, <1>4
  <2> QED
    BY <1>4, <2>1 DEF ms
<1>5. CASE now < last
  <2>1. ms = 0 \/ (ms = 1 /\ now - last < -LrSkew)
    BY <1>1, <1>3, <1>5
  <2> QED
    BY <1>5, <2>1 DEF ms
<1> QED
  BY <1>4, <1>5

(* What the time since the last charge takes off.                           *)
Decay(z, d, now) == (LrRate[z] * LrMs(now, d.last)) \div LrUnit

LEMMA ProductType ==
  ASSUME NEW a \in Nat, NEW b \in Nat
  PROVE  a * b \in Nat
OBVIOUS

LEMMA DecayFacts ==
  ASSUME NEW z \in LrZones, NEW d \in LrNode, NEW now \in Nat
  PROVE  /\ Decay(z, d, now) \in Nat
         /\ LrUnit * Decay(z, d, now) <= LrRate[z] * LrMs(now, d.last)
         /\ LrRate[z] * LrMs(now, d.last) <= LrUnit * Decay(z, d, now) + LrUnit - 1
<1> DEFINE a == LrRate[z] * LrMs(now, d.last)
<1>1. LrRate[z] \in Nat /\ LrUnit \in Nat \ {0} /\ d.last \in Nat
  BY LimFacts DEF LrNode
<1>2. LrMs(now, d.last) \in Nat
  BY <1>1, LrMsFacts
<1>3. a \in Nat
  BY <1>1, <1>2, ProductType
<1> HIDE DEF a
<1>4. a \div LrUnit \in Int /\ LrUnit * (a \div LrUnit) <= a
      /\ a <= LrUnit * (a \div LrUnit) + LrUnit - 1
  BY <1>1, <1>3, DivFacts
<1>5. a \div LrUnit >= 0
  BY <1>1, <1>3
<1> QED
  BY <1>4, <1>5 DEF Decay, a

LEMMA ExcessFacts ==
  ASSUME NEW z \in LrZones, NEW d \in LrNode, NEW now \in Nat
  PROVE  LET e == LrExcess(z, d, now)
             f == d.excess - Decay(z, d, now) + LrUnit
         IN f \in Int /\ e \in Nat /\ e >= f /\ (e = 0 \/ e = f)
<1> DEFINE f == d.excess - Decay(z, d, now) + LrUnit
<1>1. f \in Int
  <2>1. d.excess \in Nat /\ LrUnit \in Nat /\ Decay(z, d, now) \in Nat
    BY DecayFacts, LimFacts DEF LrNode
  <2> QED
    BY <2>1
<1>2. LrExcess(z, d, now) = Max({0, f})
  BY DEF LrExcess, Decay
<1> HIDE DEF f
<1>3. Max({0, f}) \in {0, f} /\ Max({0, f}) >= 0 /\ Max({0, f}) >= f
  BY <1>1 DEF Max
<1> QED
  BY <1>1, <1>2, <1>3 DEF f

LEMMA ChargedFacts ==
  ASSUME NEW z \in LrZones, NEW d \in LrNode, NEW now \in Nat
  PROVE  LET c == Charged(z, d, now)
         IN /\ c \in LrNode /\ c.here = d.here /\ c.count = d.count
            /\ c.charged = d.charged + 1
            /\ c.excess = LrExcess(z, d, now)
            /\ c.last = (IF LrMs(now, d.last) # 0 THEN now ELSE d.last)
            /\ c.since = (IF d.charged = 0 THEN c.last ELSE d.since)
            /\ c.back = (d.back \/ now - d.last < -LrSkew)
<1> DEFINE l == IF LrMs(now, d.last) # 0 THEN now ELSE d.last
           b == d.back \/ now - d.last < -LrSkew
           s == IF d.charged = 0 THEN l ELSE d.since
           e == LrExcess(z, d, now)
           c == Charged(z, d, now)
<1>1. e \in Nat
  BY ExcessFacts
<1>2. l \in Nat /\ b \in BOOLEAN /\ s \in Nat /\ d.charged + 1 \in Nat
  BY DEF LrNode
<1>3. c = [d EXCEPT !.excess = e, !.last = l, !.charged = @ + 1, !.since = s, !.back = b]
  BY DEF Charged, ChargedAt
<1> HIDE DEF e, l, b, s, c
<1>4. c = [here |-> d.here, excess |-> e, last |-> l, count |-> d.count,
           charged |-> d.charged + 1, since |-> s, back |-> b]
  BY <1>3 DEF LrNode
<1>5. d.here \in BOOLEAN /\ d.count \in Int
  BY DEF LrNode
<1>6. c \in LrNode
  BY <1>1, <1>2, <1>4, <1>5 DEF LrNode
<1> QED
  BY <1>4, <1>6 DEF e, l, b, s, c

LEMMA ChargedRate ==
  ASSUME NEW z \in LrZones, NEW d \in LrNode, NEW now \in Nat, RateSound(z, d)
  PROVE  RateSound(z, Charged(z, d, now))
<1> DEFINE c == Charged(z, d, now)
           U == LrUnit
           r == LrRate[z]
           q == Decay(z, d, now)
           ms == LrMs(now, d.last)
<1> SUFFICES ASSUME ~c.back
             PROVE  U * (c.charged - 1) <= c.excess + (r * (c.last - c.since)) \div U
  BY DEF RateSound
<1>1. /\ c.charged = d.charged + 1 /\ c.excess = LrExcess(z, d, now)
      /\ c.last = (IF ms # 0 THEN now ELSE d.last)
      /\ c.since = (IF d.charged = 0 THEN c.last ELSE d.since)
      /\ c.back = (d.back \/ now - d.last < -LrSkew)
  BY ChargedFacts
<1>2. /\ U \in Nat \ {0} /\ r \in Nat /\ d.charged \in Nat /\ d.excess \in Nat
      /\ d.last \in Nat /\ d.since \in Nat /\ d.back \in BOOLEAN
  BY LimFacts DEF LrNode
<1>3. q \in Nat /\ c.excess \in Nat /\ c.excess >= d.excess - q + U
  BY <1>1, DecayFacts, ExcessFacts
<1>4. ms \in Nat /\ (ms = 0 \/ ms = now - d.last)
  <2>1. ~(now - d.last < -LrSkew)
    BY <1>1
  <2>2. now > d.last \/ now = d.last \/ now < d.last
    BY <1>2
  <2> QED
    BY <1>2, <2>1, <2>2, LrMsFacts
<1>5. c.last - d.last = ms /\ c.last \in Nat
  BY <1>1, <1>2, <1>4
<1>6. q = (r * ms) \div U
  BY DEF Decay
<1> HIDE DEF c, U, r, q, ms
<1>7. CASE d.charged = 0
  <2>1. c.charged - 1 = 0 /\ c.last - c.since = 0
    BY <1>1, <1>2, <1>5, <1>7
  <2>2. U * 0 = 0 /\ r * 0 = 0 /\ 0 \div U = 0
    BY <1>2
  <2>3. U * (c.charged - 1) = 0 /\ (r * (c.last - c.since)) \div U = 0
    BY <2>1, <2>2
  <2> QED
    BY <1>3, <2>3
<1>8. CASE d.charged > 0
  <2> DEFINE a == r * (d.last - d.since)
             b == r * ms
  <2>1. U * (d.charged - 1) <= d.excess + a \div U
    BY <1>1, <1>2, <1>8 DEF RateSound, U, r
  <2>2. a \in Int /\ b \in Int /\ r * (c.last - c.since) = a + b
    <3>1. c.last - c.since = (d.last - d.since) + ms /\ d.last - d.since \in Int
      BY <1>1, <1>2, <1>4, <1>5, <1>8
    <3> QED
      BY <1>2, <1>4, <3>1
  <2> HIDE DEF a, b
  <2>3. a \div U + b \div U <= (a + b) \div U
    BY <1>2, <2>2, DivOfSum
  <2>4. a \div U \in Int /\ b \div U \in Int /\ (a + b) \div U \in Int
    BY <1>2, <2>2, DivFacts
  <2>5. b \div U = q
    BY <1>6 DEF b
  <2>6. U * (c.charged - 1) = U * (d.charged - 1) + U
    BY <1>1, <1>2
  <2>7. U * (d.charged - 1) \in Int
    BY <1>2
  <2>8. d.excess \in Nat /\ c.excess \in Nat /\ q \in Nat /\ U \in Nat
    BY <1>2, <1>3
  <2>9. U * (d.charged - 1) + U <= c.excess + (a + b) \div U
    BY <1>3, <2>1, <2>3, <2>4, <2>5, <2>7, <2>8
  <2> QED
    BY <2>2, <2>6, <2>9
<1> QED
  BY <1>2, <1>7, <1>8

(* What may be added to an excess.                                          *)
LEMMA BoundTypes ==
  /\ Share \in Nat /\ Share >= LrUnit * LrUnit + LrUnit - 1 /\ Share >= LrUnit * LrUnit
  /\ LrUnit * LrUnit \in Nat
  /\ \A z \in LrZones : Slack(z) \in Int /\ LrUnit * (LrRate[z] \div LrUnit) \in Nat
                        /\ LrRate[z] \div LrUnit \in Nat
<1>1. LrUnit \in Nat \ {0} /\ Cardinality(LimWorkers) \in Nat
  BY LimFacts
<1>2. LrUnit * LrUnit \in Nat
  BY <1>1, ProductType
<1>3. Share \in Nat /\ Share >= LrUnit * LrUnit + LrUnit - 1 /\ Share >= LrUnit * LrUnit
  BY <1>1, <1>2 DEF Share
<1>4. ASSUME NEW z \in LrZones
      PROVE  Slack(z) \in Int /\ LrUnit * (LrRate[z] \div LrUnit) \in Nat
             /\ LrRate[z] \div LrUnit \in Nat
  <2> DEFINE q == LrRate[z] \div LrUnit
  <2>1. q \in Nat
    <3> DEFINE a == LrRate[z]
    <3>1. a \in Nat
      BY LimFacts
    <3> HIDE DEF a
    <3>2. a \div LrUnit \in Int
      BY <1>1, <3>1, DivFacts
    <3>3. a \div LrUnit >= 0
      BY <1>1, <3>1
    <3> QED
      BY <3>2, <3>3 DEF a
  <2>2. LrBurst[z] \in Nat
    BY LimFacts
  <2> HIDE DEF q
  <2>3. LrUnit * q \in Nat /\ Share * Cardinality(LimWorkers) \in Nat
    BY <1>1, <1>3, <2>1, ProductType
  <2>4. LrUnit * (LrBurst[z] - LrUnit) \in Int
    BY <1>1, <2>2
  <2> QED
    BY <2>1, <2>3, <2>4 DEF Slack, q
<1> QED
  BY <1>2, <1>3, <1>4

LEMMA AllowedLess ==
  ASSUME NEW z \in LrZones, NEW m \in Int, NEW l \in Int, l <= m, Allowed(z, m)
  PROVE  Allowed(z, l)
<1>1. Slack(z) \in Int /\ Share \in Int
  BY BoundTypes
<1> QED
  BY <1>1 DEF Allowed

(* A node without excess, while a worker is not among those ahead.          *)
LEMMA FewAllowed ==
  ASSUME NEW z \in LrZones, NEW n \in Nat, n <= Cardinality(LimWorkers) - 1,
         NEW m \in Int, m <= Share * n
  PROVE  Allowed(z, m)
<1> DEFINE W == Cardinality(LimWorkers)
           q == LrUnit * (LrRate[z] \div LrUnit)
<1>1. W \in Nat /\ LrUnit \in Nat /\ LrBurst[z] \in Nat
  BY LimFacts
<1>2. Share \in Nat /\ Share >= LrUnit * LrUnit /\ LrUnit * LrUnit \in Nat /\ q \in Nat
  BY BoundTypes
<1>3. Slack(z) = LrUnit * (LrBurst[z] - LrUnit) + q + Share * W
  BY DEF Slack
<1> HIDE DEF W, q
<1>4. Share * n <= Share * (W - 1)
  <2>1. PICK e \in Nat : W - 1 = n + e
    BY <1>1 DEF W
  <2>2. Share * (W - 1) = Share * n + Share * e /\ Share * e \in Nat
    BY <1>2, <2>1
  <2> QED
    BY <1>2, <2>2
<1>5. Share * (W - 1) = Share * W - Share
  BY <1>1, <1>2
<1>6. LrUnit * (LrBurst[z] - LrUnit) = LrUnit * LrBurst[z] - LrUnit * LrUnit
      /\ LrUnit * LrBurst[z] \in Nat
  BY <1>1
<1>7. Share * W \in Int /\ Share * n \in Int
  BY <1>1, <1>2
<1>8. m <= Slack(z)
  BY <1>2, <1>3, <1>4, <1>5, <1>6, <1>7
<1> QED
  BY <1>8 DEF Allowed

LEMMA ChargedLater ==
  ASSUME NEW z \in LrZones, NEW d \in LrNode, NEW now \in Nat
  PROVE  Charged(z, d, now).last >= now
<1>1. d.last \in Nat
  BY DEF LrNode
<1>2. now > d.last => LrMs(now, d.last) = now - d.last
  BY <1>1, LrMsFacts
<1>3. LrMs(now, d.last) = 0 => d.last >= now
  BY <1>1, <1>2
<1> QED
  BY <1>1, <1>3, ChargedFacts

(* A worker that was ahead charges the node: n were ahead by time T, and l  *)
(* by the time of the last charge.                                          *)
LEMMA ChargeAllowed ==
  ASSUME NEW z \in LrZones, NEW d \in LrNode, NEW now \in Nat, NEW T \in Nat,
         T >= Charged(z, d, now).last,
         NEW n \in Nat \ {0}, n <= Cardinality(LimWorkers), NEW l \in Nat, T < d.last => n <= l,
         T >= d.last => Allowed(z, LrUnit * d.excess - LrRate[z] * (T - d.last) + Share * n),
         Allowed(z, LrUnit * d.excess + Share * l)
  PROVE  LET c == Charged(z, d, now)
         IN Allowed(z, LrUnit * c.excess - LrRate[z] * (T - c.last) + Share * (n - 1))
<1> DEFINE c == Charged(z, d, now)
           U == LrUnit
           r == LrRate[z]
           q == Decay(z, d, now)
           ms == LrMs(now, d.last)
           m == U * c.excess - r * (T - c.last) + Share * (n - 1)
<1>1. c.excess = LrExcess(z, d, now) /\ c.last = (IF ms # 0 THEN now ELSE d.last)
  BY ChargedFacts
<1>2. /\ U \in Nat \ {0} /\ r \in Nat /\ d.excess \in Nat /\ d.last \in Nat
      /\ Share \in Nat /\ Share >= U * U + U - 1 /\ U * U \in Nat
      /\ q \in Nat /\ ms \in Nat /\ r * ms <= U * q + U - 1
  BY LimFacts, BoundTypes, DecayFacts, LrMsFacts DEF LrNode
<1>3. c.excess \in Nat /\ (c.excess = 0 \/ c.excess = d.excess - q + U)
  BY <1>1, ExcessFacts
<1>0. T >= c.last /\ c.last \in Nat
  BY ChargedFacts DEF LrNode
<1>12. /\ now > d.last => ms = now - d.last
       /\ now = d.last => ms = 0
       /\ now < d.last => ms \in {0, 1}
  BY <1>2, LrMsFacts
<1> HIDE DEF c, U, r, q, ms
<1>4. /\ c.last <= T
      /\ \/ c.last = d.last + ms
         \/ c.last < d.last
  <2>1. CASE now >= d.last
    BY <1>0, <1>1, <1>2, <1>12, <2>1
  <2>2. CASE now < d.last
    BY <1>0, <1>1, <1>2, <1>12, <2>2
  <2> QED
    BY <1>2, <2>1, <2>2
<1>5. n - 1 \in Nat /\ n - 1 <= Cardinality(LimWorkers) - 1
  BY LimFacts
<1>6. Share * (n - 1) = Share * n - Share /\ Share * n \in Nat
  BY <1>2
<1>7. r * (T - c.last) \in Nat
  BY <1>0, <1>2, <1>4, ProductType
<1>8. m \in Int
  BY <1>2, <1>3, <1>6, <1>7
<1>9. CASE c.excess = 0
  <2>1. m <= Share * (n - 1)
    BY <1>2, <1>6, <1>7, <1>9
  <2> QED
    BY <1>5, <1>8, <2>1, FewAllowed DEF c, U, r
<1>10. CASE c.excess = d.excess - q + U /\ c.last = d.last + ms
  <2> DEFINE h == U * d.excess - r * (T - d.last) + Share * n
  <2>1. T >= d.last
    BY <1>0, <1>2, <1>4, <1>10
  <2>2. U * c.excess = U * d.excess - U * q + U * U
    BY <1>2, <1>10
  <2>3. r * (T - d.last) = r * (T - c.last) + r * ms
    BY <1>0, <1>2, <1>4, <1>10
  <2>4. U * d.excess \in Int /\ U * q \in Int /\ r * ms \in Int
    BY <1>2
  <2>5. h \in Int /\ m <= h
    BY <1>2, <1>6, <1>7, <2>2, <2>3, <2>4
  <2>6. Allowed(z, h)
    BY <2>1 DEF U, r
  <2> HIDE DEF h, m
  <2>7. Allowed(z, m)
    BY <1>8, <2>5, <2>6, AllowedLess
  <2> QED
    BY <2>7 DEF m, c, U, r
<1>11. CASE c.excess = d.excess - q + U /\ c.last < d.last
  <2>1. U * c.excess = U * d.excess - U * q + U * U /\ U * q \in Nat /\ U * d.excess \in Nat
    BY <1>2, <1>11
  <2>2. CASE T >= d.last
    <3> DEFINE h == U * d.excess - r * (T - d.last) + Share * n
               g == r * (d.last - c.last)
    <3>1. r * (T - c.last) = r * (T - d.last) + g
      BY <1>0, <1>2, <1>4
    <3>2. g \in Nat /\ r * (T - d.last) \in Nat
      BY <1>0, <1>2, <1>4, <1>11, <2>2, ProductType
    <3> HIDE DEF g
    <3>3. h \in Int /\ m <= h
      BY <1>2, <1>6, <1>7, <2>1, <3>1, <3>2
    <3>4. Allowed(z, h)
      BY <2>2 DEF U, r
    <3> HIDE DEF h, m
    <3>5. Allowed(z, m)
      BY <1>8, <3>3, <3>4, AllowedLess
    <3> QED
      BY <3>5 DEF m, c, U, r
  <2>3. CASE T < d.last
    <3> DEFINE h == U * d.excess + Share * l
    <3>1. Share * n <= Share * l
      <4>1. PICK e \in Nat : l = n + e
        BY <2>3
      <4>2. Share * l = Share * n + Share * e /\ Share * e \in Nat
        BY <1>2, <4>1
      <4> QED
        BY <1>6, <4>2
    <3>2. Share * l \in Nat
      BY <1>2
    <3>3. h \in Int /\ m <= h
      BY <1>2, <1>6, <1>7, <2>1, <3>1, <3>2
    <3>4. Allowed(z, h)
      BY DEF U
    <3> HIDE DEF h, m
    <3>5. Allowed(z, m)
      BY <1>8, <3>3, <3>4, AllowedLess
    <3> QED
      BY <3>5 DEF m, c, U, r
  <2> QED
    BY <1>2, <2>2, <2>3
<1> QED
  BY <1>3, <1>4, <1>9, <1>10, <1>11

(* A worker looks a node up: it and those ahead of it are not more than all *)
(* workers, and its own charge would keep the burst.                        *)
LEMMA LookupAllowed ==
  ASSUME NEW z \in LrZones, NEW d \in LrNode, NEW now \in Nat, LrExcess(z, d, now) <= LrBurst[z],
         NEW T \in Nat, T >= d.last, T >= now, NEW n \in Nat, n <= Cardinality(LimWorkers)
  PROVE  Allowed(z, LrUnit * d.excess - LrRate[z] * (T - d.last) + Share * n)
<1> DEFINE U == LrUnit
           B == LrBurst[z]
           W == Cardinality(LimWorkers)
           r == LrRate[z]
           q == Decay(z, d, now)
           ms == LrMs(now, d.last)
           p == r \div U
           m == U * d.excess - r * (T - d.last) + Share * n
<1>1. /\ U \in Nat \ {0} /\ r \in Nat /\ d.excess \in Nat /\ d.last \in Nat /\ B \in Nat
      /\ Share \in Nat /\ q \in Nat /\ ms \in Nat /\ U * q <= r * ms /\ W \in Nat
  BY LimFacts, BoundTypes, DecayFacts, LrMsFacts DEF LrNode
<1>2. d.excess - q + U <= B
  BY <1>1, ExcessFacts
<1>3. Slack(z) = U * (B - U) + U * p + Share * W
  BY DEF Slack
<1>4. p \in Nat /\ U * p \in Nat /\ U * U \in Nat
  BY BoundTypes
<1>5. ms = 1 => q = p
  <2>1. r * 1 = r
    BY <1>1
  <2> QED
    BY <2>1 DEF Decay
<1>6. /\ now > d.last => ms = now - d.last
      /\ now = d.last => ms = 0
      /\ now < d.last => ms \in {0, 1}
  BY <1>1, LrMsFacts
<1> HIDE DEF U, B, W, r, q, ms, p
<1>7. r * (T - d.last) \in Nat
  BY <1>1, ProductType
<1>8. Share * n \in Nat /\ Share * W \in Nat
  BY <1>1, ProductType
<1>9. Share * n <= Share * W
  <2>1. PICK e \in Nat : W = n + e
    BY <1>1 DEF W
  <2>2. Share * W = Share * n + Share * e /\ Share * e \in Nat
    BY <1>1, <2>1
  <2> QED
    BY <1>8, <2>2
<1>10. U * d.excess <= U * (B - U) + U * q
  <2> DEFINE x == d.excess
             v == B - U
  <2>0. x \in Nat /\ v \in Int /\ x <= v + q
    BY <1>1, <1>2
  <2> HIDE DEF x, v
  <2>1. PICK e \in Nat : v + q = x + e
    <3>1. v + q - x \in Nat
      BY <1>1, <2>0
    <3> QED
      BY <1>1, <2>0, <3>1
  <2>2. U * v + U * q = U * (v + q) /\ U * (x + e) = U * x + U * e
    BY <1>1, <2>0
  <2>3. U * e \in Nat /\ U * d.excess \in Nat
    BY <1>1, ProductType
  <2>4. U * x + U * e = U * v + U * q
    BY <2>1, <2>2
  <2>5. U * x \in Nat
    BY <1>1, <2>0, ProductType
  <2> QED
    BY <2>3, <2>4, <2>5 DEF x, v
<1>11. U * q <= U * p + r * (T - d.last)
  <2>1. CASE ms = 1 /\ now < d.last
    BY <1>1, <1>4, <1>5, <1>7, <2>1
  <2>2. CASE ms = 0
    <3>1. r * ms = 0
      BY <1>1, <2>2
    <3>2. U * q \in Nat
      BY <1>1, ProductType
    <3> QED
      BY <1>1, <1>4, <1>7, <3>1, <3>2
  <2>3. CASE now > d.last
    <3> DEFINE v == T - now
    <3>0. v \in Nat /\ T - d.last = ms + v
      BY <1>1, <1>6, <2>3
    <3> HIDE DEF v
    <3>1. r * (T - d.last) = r * ms + r * v
      BY <1>1, <3>0
    <3>2. r * v \in Nat /\ r * ms \in Nat /\ U * q \in Nat
      BY <1>1, <3>0, ProductType
    <3> QED
      BY <1>1, <1>4, <3>1, <3>2
  <2>4. now > d.last \/ now = d.last \/ now < d.last
    BY <1>1
  <2>5. ms = 0 \/ (ms = 1 /\ now < d.last) \/ now > d.last
    BY <1>6, <2>4
  <2> QED
    BY <2>1, <2>2, <2>3, <2>5
<1>12. U * (B - U) \in Int /\ U * q \in Int /\ U * d.excess \in Int
  BY <1>1
<1>13. m <= Slack(z)
  BY <1>3, <1>4, <1>7, <1>8, <1>9, <1>10, <1>11, <1>12
<1> QED
  BY <1>13 DEF Allowed, m, U, r

LEMMA AllowedWithin ==
  ASSUME NEW z \in LrZones, NEW e \in Nat, NEW m \in Int, LrUnit * e <= m, Allowed(z, m)
  PROVE  e <= Max({LrUnit, LrBurst[z] + LrRate[z] \div LrUnit
                           + (LrUnit + 1) * (Cardinality(LimWorkers) - 1)})
<1> DEFINE U == LrUnit
           B == LrBurst[z]
           W == Cardinality(LimWorkers)
           p == LrRate[z] \div U
           b == B + p + (U + 1) * (W - 1)
<1>1. U \in Nat \ {0} /\ B \in Nat /\ W \in Nat \ {0} /\ p \in Nat
  BY LimFacts, BoundTypes
<1>2. Slack(z) = U * (B - U) + U * p + Share * W /\ Share = U * U + U - 1
  BY DEF Slack, Share
<1> HIDE DEF U, B, W, p
<1>3. b \in Int
  BY <1>1
<1>4. e <= U \/ e <= b
  <2>1. CASE m <= Share
    <3>1. ASSUME e >= U + 1 PROVE FALSE
      <4>1. PICK f \in Nat : e = U + 1 + f
        BY <1>1, <3>1
      <4>2. U * e = U * U + U + U * f /\ U * f \in Nat /\ U * U \in Nat
        BY <1>1, <4>1
      <4> QED
        BY <1>1, <1>2, <2>1, <4>2 DEF U
    <3> QED
      BY <1>1, <3>1
  <2>2. CASE m <= Slack(z)
    <3>1. Slack(z) = U * (b + 1) - W
      <4>1. U * (B - U) = U * B - U * U /\ (U * U + U - 1) * W = U * U * W + U * W - W
        BY <1>1
      <4>2. b + 1 = B + p + U * W + W - U
        BY <1>1
      <4>3. U * (B + p + U * W + W - U) = U * B + U * p + U * U * W + U * W - U * U
        BY <1>1
      <4>4. U * B \in Int /\ U * U \in Int /\ U * p \in Int /\ U * U * W \in Int /\ U * W \in Int
        BY <1>1
      <4> HIDE DEF b
      <4> QED
        BY <1>1, <1>2, <4>1, <4>2, <4>3, <4>4
    <3> HIDE DEF b
    <3>2. ASSUME e >= b + 1 PROVE FALSE
      <4>1. PICK f \in Nat : e = b + 1 + f
        BY <1>3, <3>2
      <4>2. U * e = U * (b + 1) + U * f /\ U * f \in Nat /\ U * (b + 1) \in Int
        BY <1>1, <1>3, <4>1
      <4> QED
        BY <1>1, <2>2, <3>1, <4>2 DEF U
    <3> QED
      BY <1>3, <3>2
  <2> QED
    BY <2>1, <2>2 DEF Allowed
<1> HIDE DEF b
<1>5. Max({U, b}) >= U /\ Max({U, b}) >= b /\ Max({U, b}) \in {U, b}
  BY <1>1, <1>3 DEF Max
<1>6. e <= Max({U, b})
  BY <1>1, <1>3, <1>4, <1>5
<1> QED
  BY <1>6 DEF b, B, W, p, U

-----------------------------------------------------------------------------
(* Zones: nodes are expired only when nobody uses them.                     *)
Shrunk(zn, zo) ==
  /\ zo \in LrZone /\ ZoneSound(zo)
  /\ \A k \in LimKeys : \/ zo.node[k] = zn.node[k]
                        \/ zo.node[k] = NoLrNode /\ zn.node[k].count <= 0

LEMMA NoLrNodeFacts ==
  NoLrNode \in LrNode /\ NoLrNode.count = 0 /\ ~NoLrNode.here
  /\ NoLrNode.excess = 0 /\ NoLrNode.last = 0 /\ NoLrNode.charged = 0
BY DEF NoLrNode, LrNode

LEMMA ShrunkTwice ==
  ASSUME NEW a, NEW b, NEW c, Shrunk(a, b), Shrunk(b, c)
  PROVE  Shrunk(a, c)
BY NoLrNodeFacts DEF Shrunk

LEMMA ExpireLastFacts ==
  ASSUME NEW zn \in LrZone, ZoneSound(zn), NEW z, NEW now, NEW force
  PROVE  Shrunk(zn, ExpireLast(zn, z, now, force))
<1> DEFINE k == Last(zn.queue)
           zo == [node |-> [zn.node EXCEPT ![k] = NoLrNode], queue |-> Front(zn.queue)]
<1>1. Shrunk(zn, zn)
  BY DEF Shrunk
<1>2. ASSUME zn.queue # <<>>, ~(zn.node[k].count > 0)
      PROVE  Shrunk(zn, zo)
  <2>1. zn.queue \in Seq(LimKeys) /\ zn.node \in [LimKeys -> LrNode]
    BY DEF LrZone
  <2>2. /\ Front(zn.queue) \in Seq(LimKeys) /\ k \in LimKeys /\ k \in ToSet(zn.queue)
        /\ IsInjective(Front(zn.queue)) /\ ToSet(Front(zn.queue)) = ToSet(zn.queue) \ {k}
    BY <1>2, <2>1, FrontFacts DEF ZoneSound
  <2> HIDE DEF k
  <2>3. zo.node \in [LimKeys -> LrNode] /\ zo \in LrZone
    BY <2>1, <2>2, NoLrNodeFacts DEF LrZone
  <2>4. /\ zo.queue = Front(zn.queue) /\ zo.node[k] = NoLrNode
        /\ \A j \in LimKeys : j # k => zo.node[j] = zn.node[j]
    BY <2>1, <2>2
  <2> HIDE DEF zo
  <2>5. ToSet(zo.queue) = {j \in LimKeys : zo.node[j].here}
    BY <2>2, <2>4, NoLrNodeFacts DEF ZoneSound
  <2>6. ZoneSound(zo)
    BY <2>2, <2>4, <2>5 DEF ZoneSound
  <2>7. zn.node[k].count <= 0
    <3>1. zn.node[k].count \in Int
      BY <2>1, <2>2 DEF LrNode
    <3> QED
      BY <1>2, <3>1
  <2> QED
    BY <2>3, <2>4, <2>6, <2>7 DEF Shrunk
<1>3. ExpireLast(zn, z, now, force) = zn
      \/ (zn.queue # <<>> /\ ~(zn.node[k].count > 0) /\ ExpireLast(zn, z, now, force) = zo)
  BY DEF ExpireLast
<1> HIDE DEF zo, k
<1> QED
  BY <1>1, <1>2, <1>3

LEMMA ExpireFacts ==
  ASSUME NEW zn \in LrZone, ZoneSound(zn), NEW z, NEW now, NEW force
  PROVE  Shrunk(zn, ngx_http_limit_req_expire(zn, z, now, force))
<1> DEFINE z0 == IF force THEN ExpireLast(zn, z, now, TRUE) ELSE zn
           z1 == ExpireLast(z0, z, now, FALSE)
           z2 == ExpireLast(z1, z, now, FALSE)
<1>1. Shrunk(zn, z0)
  <2>1. Shrunk(zn, zn)
    BY DEF Shrunk
  <2>2. Shrunk(zn, ExpireLast(zn, z, now, TRUE))
    BY ExpireLastFacts, Zenon
  <2> QED
    BY <2>1, <2>2
<1> HIDE DEF z0
<1>2. Shrunk(z0, z1)
  <2>1. z0 \in LrZone /\ ZoneSound(z0)
    BY <1>1 DEF Shrunk
  <2> QED
    BY <2>1, ExpireLastFacts, Zenon
<1> HIDE DEF z1
<1>3. Shrunk(z1, z2)
  <2>1. z1 \in LrZone /\ ZoneSound(z1)
    BY <1>2 DEF Shrunk
  <2> QED
    BY <2>1, ExpireLastFacts, Zenon
<1> HIDE DEF z2
<1>4. Shrunk(zn, z2)
  BY <1>1, <1>2, <1>3, ShrunkTwice
<1> QED
  BY <1>4 DEF ngx_http_limit_req_expire, z0, z1, z2

LEMMA RoomMadeFacts ==
  ASSUME NEW zn \in LrZone, ZoneSound(zn), NEW z, NEW now
  PROVE  Shrunk(zn, RoomMade(zn, z, now))
<1> DEFINE z1 == ngx_http_limit_req_expire(zn, z, now, FALSE)
           z2 == ngx_http_limit_req_expire(z1, z, now, TRUE)
<1>1. Shrunk(zn, z1)
  BY ExpireFacts, Zenon
<1> HIDE DEF z1
<1>2. Shrunk(z1, z2)
  <2>1. z1 \in LrZone /\ ZoneSound(z1)
    BY <1>1 DEF Shrunk
  <2> QED
    BY <2>1, ExpireFacts, Zenon
<1> HIDE DEF z2
<1>3. RoomMade(zn, z, now) = z1 \/ RoomMade(zn, z, now) = z2
  BY DEF RoomMade, z1, z2
<1> QED
  BY <1>1, <1>2, <1>3, ShrunkTwice

(* A node that is there becomes the first of the queue.                     *)
LEMMA Requeued ==
  ASSUME NEW zn \in LrZone, ZoneSound(zn), NEW k \in LimKeys, zn.node[k].here,
         NEW d \in LrNode, d.here
  PROVE  LET zo == [node |-> [zn.node EXCEPT ![k] = d], queue |-> <<k>> \o RemoveFirst(zn.queue, k)]
         IN zo \in LrZone /\ ZoneSound(zo)
<1> DEFINE q == RemoveFirst(zn.queue, k)
           r == <<k>> \o q
           zo == [node |-> [zn.node EXCEPT ![k] = d], queue |-> r]
<1>1. zn.queue \in Seq(LimKeys) /\ zn.node \in [LimKeys -> LrNode] /\ IsInjective(zn.queue)
      /\ ToSet(zn.queue) = {j \in LimKeys : zn.node[j].here}
  BY DEF LrZone, ZoneSound
<1>2. q \in Seq(LimKeys) /\ IsInjective(q) /\ ToSet(q) = ToSet(zn.queue) \ {k}
  BY <1>1, RemoveFirstFacts
<1> HIDE DEF q
<1>3. r \in Seq(LimKeys) /\ ToSet(r) = {k} \cup ToSet(q) /\ IsInjective(r)
  BY <1>2, ConsFacts
<1> HIDE DEF r
<1>4. zo \in LrZone /\ zo.queue = r /\ zo.node[k] = d
      /\ \A j \in LimKeys : j # k => zo.node[j] = zn.node[j]
  BY <1>1, <1>3 DEF LrZone
<1> HIDE DEF zo
<1>5. ToSet(zo.queue) = {j \in LimKeys : zo.node[j].here}
  BY <1>1, <1>2, <1>3, <1>4
<1>6. ZoneSound(zo)
  BY <1>3, <1>4, <1>5 DEF ZoneSound
<1> QED
  BY <1>4, <1>6 DEF zo, r, q

LEMMA Enqueued ==
  ASSUME NEW zn \in LrZone, ZoneSound(zn), NEW k \in LimKeys, ~zn.node[k].here,
         NEW d \in LrNode, d.here
  PROVE  LET zo == [node |-> [zn.node EXCEPT ![k] = d], queue |-> <<k>> \o zn.queue]
         IN zo \in LrZone /\ ZoneSound(zo)
<1> DEFINE r == <<k>> \o zn.queue
           zo == [node |-> [zn.node EXCEPT ![k] = d], queue |-> r]
<1>1. zn.queue \in Seq(LimKeys) /\ zn.node \in [LimKeys -> LrNode] /\ IsInjective(zn.queue)
      /\ ToSet(zn.queue) = {j \in LimKeys : zn.node[j].here}
  BY DEF LrZone, ZoneSound
<1>2. r \in Seq(LimKeys) /\ ToSet(r) = {k} \cup ToSet(zn.queue) /\ IsInjective(r)
  BY <1>1, ConsFacts
<1> HIDE DEF r
<1>3. zo \in LrZone /\ zo.queue = r /\ zo.node[k] = d
      /\ \A j \in LimKeys : j # k => zo.node[j] = zn.node[j]
  BY <1>1, <1>2 DEF LrZone
<1> HIDE DEF zo
<1>4. ToSet(zo.queue) = {j \in LimKeys : zo.node[j].here}
  BY <1>1, <1>2, <1>3
<1>5. ZoneSound(zo)
  BY <1>2, <1>3, <1>4 DEF ZoneSound
<1> QED
  BY <1>3, <1>5 DEF zo, r

-----------------------------------------------------------------------------
(* A node and those who use it.                                             *)
PairSound(z, k) == CountSound(z, k) /\ RateSound(z, lrz[z].node[k]) /\ BurstSound(z, k)

LEMMA UserFacts ==
  ASSUME NEW z, NEW k
  PROVE  /\ IsFiniteSet(Users(z, k)) /\ Cardinality(Users(z, k)) \in Nat
         /\ \A T : /\ IsFiniteSet(Ahead(z, k, T)) /\ Cardinality(Ahead(z, k, T)) \in Nat
                   /\ Cardinality(Ahead(z, k, T)) <= Cardinality(LimWorkers)
<1>1. IsFiniteSet(LimWorkers)
  BY LimFacts
<1>2. Users(z, k) \subseteq LimWorkers
  BY DEF Users
<1>3. \A T : Ahead(z, k, T) \subseteq LimWorkers
  BY DEF Ahead, Users
<1> QED
  BY <1>1, <1>2, <1>3, FS_Subset, FS_CardinalityType

LEMMA NodeType ==
  ASSUME LimTypes, NEW z \in LrZones, NEW k \in LimKeys
  PROVE  lrz[z] \in LrZone /\ lrz[z].node[k] \in LrNode
BY DEF LimTypes, LrZone

(* Less is allowed when fewer are ahead.                                    *)
LEMMA FewerAllowed ==
  ASSUME NEW z \in LrZones, NEW e \in Nat, NEW t \in Nat, NEW n \in Nat, NEW i \in Nat, i <= n,
         Allowed(z, LrUnit * e - LrRate[z] * t + Share * n)
  PROVE  Allowed(z, LrUnit * e - LrRate[z] * t + Share * i)
<1> DEFINE m == LrUnit * e - LrRate[z] * t + Share * n
           l == LrUnit * e - LrRate[z] * t + Share * i
<1>1. LrUnit * e \in Nat /\ LrRate[z] * t \in Nat /\ Share * n \in Nat /\ Share * i \in Nat
  BY LimFacts, BoundTypes, ProductType
<1>2. PICK j \in Nat : n = i + j
  OBVIOUS
<1>3. Share * n = Share * i + Share * j /\ Share * j \in Nat
  BY <1>2, BoundTypes
<1>4. m \in Int /\ l \in Int /\ l <= m
  BY <1>1, <1>3
<1> HIDE DEF m, l
<1>5. Allowed(z, l)
  BY <1>4, AllowedLess DEF m
<1> QED
  BY <1>5 DEF l

LEMMA BurstFewer ==
  ASSUME LimTypes, LimTypes', NEW z \in LrZones, NEW k \in LimKeys, BurstSound(z, k),
         lrz'[z].node[k].excess = lrz[z].node[k].excess,
         lrz'[z].node[k].last = lrz[z].node[k].last,
         ~lim'.misled => /\ ~lim.misled
                         /\ \A T \in Nat : Ahead(z, k, T)' \subseteq Ahead(z, k, T)
  PROVE  BurstSound(z, k)'
<1> DEFINE d == lrz[z].node[k]
<1>1. d \in LrNode /\ d.excess \in Nat /\ d.last \in Nat
  BY NodeType DEF LrNode
<1>2. CASE z = Len(LrBurst)
  BY <1>2 DEF BurstSound
<1>3. CASE z # Len(LrBurst)
  <2> SUFFICES ASSUME ~lim'.misled, NEW T \in Nat, T >= d.last
               PROVE  Allowed(z, LrUnit * d.excess - LrRate[z] * (T - d.last)
                                 + Share * Cardinality(Ahead(z, k, T)'))
    BY <1>3 DEF BurstSound
  <2>1. Allowed(z, LrUnit * d.excess - LrRate[z] * (T - d.last)
                   + Share * Cardinality(Ahead(z, k, T)))
    BY <1>3 DEF BurstSound
  <2>2. Ahead(z, k, T)' \subseteq Ahead(z, k, T)
    OBVIOUS
  <2> DEFINE n == Cardinality(Ahead(z, k, T))
             i == Cardinality(Ahead(z, k, T)')
             t == T - d.last
  <2>3. i \in Nat /\ n \in Nat /\ i <= n
    <3>1. IsFiniteSet(Ahead(z, k, T)) /\ n \in Nat
      BY UserFacts
    <3>2. IsFiniteSet(Ahead(z, k, T)') /\ i <= n
      BY <2>2, <3>1, FS_Subset
    <3> QED
      BY <3>1, <3>2, FS_CardinalityType
  <2>4. t \in Nat
    BY <1>1
  <2> HIDE DEF n, i, t
  <2>5. Allowed(z, LrUnit * d.excess - LrRate[z] * t + Share * i)
    BY <1>1, <2>1, <2>3, <2>4, FewerAllowed DEF n, t
  <2> QED
    BY <2>5 DEF i, t
<1> QED
  BY <1>2, <1>3

(* A node that nobody was using is empty, or is used by one.                *)
LEMMA BurstFresh ==
  ASSUME LimTypes', NEW z \in LrZones, NEW k \in LimKeys,
         lrz'[z].node[k].excess = 0, NEW w, Users(z, k)' \subseteq {w}
  PROVE  BurstSound(z, k)'
<1> DEFINE d == lrz'[z].node[k]
<1>1. d \in LrNode /\ d.last \in Nat
  BY DEF LimTypes, LrZone, LrNode
<1>2. CASE z = Len(LrBurst)
  <2>1. LrBurst[z] \in Nat
    BY LimFacts
  <2> QED
    BY <1>2, <2>1 DEF BurstSound
<1>3. CASE z # Len(LrBurst)
  <2> SUFFICES ASSUME NEW T \in Nat, T >= d.last
               PROVE  Allowed(z, LrUnit * 0 - LrRate[z] * (T - d.last)
                                 + Share * Cardinality(Ahead(z, k, T)'))
    BY <1>3 DEF BurstSound
  <2> DEFINE i == Cardinality(Ahead(z, k, T)')
             t == T - d.last
  <2>1. i \in Nat /\ i <= 1
    <3>1. Ahead(z, k, T)' \subseteq {w} /\ IsFiniteSet({w}) /\ Cardinality({w}) = 1
      BY FS_Singleton DEF Ahead
    <3> QED
      BY <3>1, FS_Subset, FS_CardinalityType
  <2>2. t \in Nat
    BY <1>1
  <2> HIDE DEF i, t
  <2>3. LrUnit * 0 = 0 /\ LrRate[z] * t \in Nat /\ Share \in Nat
    BY <2>2, LimFacts, BoundTypes, ProductType
  <2>4. Share * i <= Share /\ Share * i \in Nat
    <3>1. i = 0 \/ i = 1
      BY <2>1
    <3>2. Share * 0 = 0 /\ Share * 1 = Share
      BY <2>3
    <3> QED
      BY <2>3, <3>1, <3>2
  <2>5. LrUnit * 0 - LrRate[z] * t + Share * i <= Share
    BY <2>3, <2>4
  <2>6. Allowed(z, LrUnit * 0 - LrRate[z] * t + Share * i)
    BY <2>5 DEF Allowed
  <2> QED
    BY <2>6 DEF i, t
<1> QED
  BY <1>2, <1>3

LEMMA PairStays ==
  ASSUME LimTypes, LimTypes', NEW z \in LrZones, NEW k \in LimKeys, PairSound(z, k),
         \/ lrz'[z].node[k] = lrz[z].node[k]
         \/ lrz'[z].node[k] = NoLrNode /\ lrz[z].node[k].count <= 0,
         Users(z, k)' = Users(z, k), lim'.lost[z][k] = lim.lost[z][k],
         ~lim'.misled => ~lim.misled /\ \A v \in Users(z, k) : lw'[v].now = lw[v].now
  PROVE  PairSound(z, k)'
<1>1. CASE lrz'[z].node[k] = lrz[z].node[k]
  <2>1. ASSUME ~lim'.misled, NEW T \in Nat
        PROVE  Ahead(z, k, T)' \subseteq Ahead(z, k, T)
    BY <2>1 DEF Ahead
  <2>2. BurstSound(z, k)'
    BY <1>1, <2>1, BurstFewer DEF PairSound
  <2>3. CountSound(z, k)' /\ RateSound(z, lrz'[z].node[k])
    BY <1>1 DEF PairSound, CountSound
  <2>4. RateSound(z, lrz[z].node[k])'
    BY <2>3 DEF RateSound
  <2> QED
    BY <2>2, <2>3, <2>4 DEF PairSound
<1>2. CASE lrz'[z].node[k] = NoLrNode /\ lrz[z].node[k].count <= 0
  <2>1. /\ Cardinality(Users(z, k)) \in Nat /\ lim.lost[z][k] \in Nat
        /\ lrz[z].node[k].count = Cardinality(Users(z, k)) + lim.lost[z][k]
    BY UserFacts DEF PairSound, CountSound, LimTypes
  <2>2. Cardinality(Users(z, k)) = 0 /\ lim.lost[z][k] = 0
    BY <1>2, <2>1
  <2>3. Users(z, k)' = {}
    BY <2>2, UserFacts, FS_EmptySet
  <2>4. CountSound(z, k)'
    BY <1>2, <2>2, <2>3, NoLrNodeFacts, FS_EmptySet DEF CountSound
  <2>5. BurstSound(z, k)'
    BY <1>2, <2>3, BurstFresh, NoLrNodeFacts
  <2>6. RateSound(z, lrz[z].node[k])'
    BY <1>2, NoLrNodeFacts DEF RateSound
  <2> QED
    BY <2>4, <2>5, <2>6 DEF PairSound
<1> QED
  BY <1>1, <1>2

(* A worker that had the node and does not settle it.                       *)
LEMMA PairLeft ==
  ASSUME LimTypes, LimTypes', NEW z \in LrZones, NEW k \in LimKeys, PairSound(z, k),
         lrz'[z].node[k] = lrz[z].node[k],
         NEW w \in Users(z, k), Users(z, k)' = Users(z, k) \ {w},
         lim'.lost[z][k] = lim.lost[z][k] + 1,
         ~lim'.misled => ~lim.misled /\ \A v \in Users(z, k)' : lw'[v].now = lw[v].now
  PROVE  PairSound(z, k)'
<1>1. ASSUME ~lim'.misled, NEW T \in Nat
      PROVE  Ahead(z, k, T)' \subseteq Ahead(z, k, T)
  BY <1>1 DEF Ahead
<1>2. BurstSound(z, k)'
  BY <1>1, BurstFewer DEF PairSound
<1>3. RateSound(z, lrz[z].node[k])'
  BY DEF PairSound, RateSound
<1>4. CountSound(z, k)'
  <2>1. Cardinality(Users(z, k)') = Cardinality(Users(z, k)) - 1 /\ Cardinality(Users(z, k)) \in Nat
    BY UserFacts, OneLeaves
  <2>2. lim.lost[z][k] \in Nat
    BY DEF LimTypes
  <2> QED
    BY <2>1, <2>2 DEF PairSound, CountSound
<1> QED
  BY <1>2, <1>3, <1>4 DEF PairSound

-----------------------------------------------------------------------------
(* What the step of one worker leaves of the invariant.                     *)
Holders(z, k) == {w \in LimWorkers : z \in ToSet(lw[w].conns) /\ lw[w].ask.conn[z] = k}

ConnSound(z, k) ==
  /\ lcz[z][k] <= Max({1, LcMax[z]})
  /\ lcz[z][k] = lim.lostConns[z][k] + Cardinality(Holders(z, k))

LEMMA ConnsAreSound == ConnsKept <=> \A z \in LcZones, k \in LimKeys : ConnSound(z, k)
BY DEF ConnsKept, ConnSound, Holders

LEMMA ConnsAreSoundNext ==
  ConnsKept' <=> \A z \in LcZones, k \in LimKeys : ConnSound(z, k)'
BY DEF ConnsKept, ConnSound, Holders

LEMMA HolderFacts ==
  ASSUME NEW z, NEW k
  PROVE  IsFiniteSet(Holders(z, k)) /\ Cardinality(Holders(z, k)) \in Nat
<1>1. Holders(z, k) \subseteq LimWorkers /\ IsFiniteSet(LimWorkers)
  BY LimFacts DEF Holders
<1> QED
  BY <1>1, FS_Subset, FS_CardinalityType

WorkersSound ==
  (\A v \in LimWorkers : AtWork(lw[v])) /\ (~lim.misled => \A v \in LimWorkers : Tidy(lw[v]))

WorkersSoundNext ==
  (\A v \in LimWorkers : AtWork(lw'[v])) /\ (~lim'.misled => \A v \in LimWorkers : Tidy(lw'[v]))

LEMMA WorkersAfter ==
  ASSUME lw \in [LimWorkers -> LimWorker], WorkersSound, NEW w \in LimWorkers,
         NEW y \in LimWorker, AtWork(y), lw' = [lw EXCEPT ![w] = y],
         ~lim'.misled => ~lim.misled /\ Tidy(y)
  PROVE  lw' \in [LimWorkers -> LimWorker] /\ WorkersSoundNext
<1>1. lw'[w] = y /\ \A v \in LimWorkers \ {w} : lw'[v] = lw[v]
  OBVIOUS
<1> QED
  BY <1>1 DEF WorkersSound, WorkersSoundNext

RatesSound ==
  (\A z \in LrZones : ZoneSound(lrz[z])) /\ \A z \in LrZones, k \in LimKeys : PairSound(z, k)

RatesSoundNext ==
  (\A z \in LrZones : ZoneSound(lrz'[z])) /\ \A z \in LrZones, k \in LimKeys : PairSound(z, k)'

LEMMA Parts ==
  LimInv <=> LimTypes /\ WorkersSound /\ RatesSound /\ ConnsKept
BY DEF LimInv, WorkersSound, RatesSound, PairSound

LEMMA PartsNext ==
  ASSUME LimTypes', WorkersSoundNext, RatesSoundNext, ConnsKept'
  PROVE  LimInv'
<1>1. \A v \in LimWorkers : AtWork(lw[v])'
  BY DEF WorkersSoundNext, AtWork
<1>2. ~lim'.misled => \A v \in LimWorkers : Tidy(lw[v])'
  BY DEF WorkersSoundNext, Tidy
<1>3. \A z \in LrZones : ZoneSound(lrz[z])'
  BY DEF RatesSoundNext, ZoneSound
<1>4. \A z \in LrZones, k \in LimKeys :
        CountSound(z, k)' /\ RateSound(z, lrz[z].node[k])' /\ BurstSound(z, k)'
  BY DEF RatesSoundNext, PairSound
<1> QED
  BY <1>1, <1>2, <1>3, <1>4 DEF LimInv

(* The nodes of one zone, when its worker goes on without it.               *)
LEMMA PairsStay ==
  ASSUME LimTypes, LimTypes', RatesSound, NEW w \in LimWorkers, NEW y,
         lw' = [lw EXCEPT ![w] = y],
         NEW z \in LrZones, y.node[z] = lw[w].node[z], lrz'[z] = lrz[z],
         lim'.lost[z] = lim.lost[z],
         ~lim'.misled => ~lim.misled /\ (y.now = lw[w].now \/ y.node[z] = NoKey)
  PROVE  \A k \in LimKeys : PairSound(z, k)'
<1>1. lw \in [LimWorkers -> LimWorker]
  BY DEF LimTypes
<1>2. lw'[w] = y /\ \A v \in LimWorkers \ {w} : lw'[v] = lw[v]
  BY <1>1
<1> SUFFICES ASSUME NEW k \in LimKeys PROVE PairSound(z, k)'
  OBVIOUS
<1>3. Users(z, k)' = Users(z, k) /\ (w \in Users(z, k) <=> lw[w].node[z] = k)
  BY <1>2 DEF Users
<1>4. Users(z, k) \subseteq LimWorkers /\ k # NoKey
  BY LimFacts DEF Users
<1>5. ~lim'.misled => ~lim.misled /\ \A v \in Users(z, k) : lw'[v].now = lw[v].now
  BY <1>2, <1>3, <1>4
<1>6. PairSound(z, k)
  BY DEF RatesSound
<1> QED
  BY <1>3, <1>5, <1>6, PairStays

LEMMA RatesStay ==
  ASSUME LimTypes, LimTypes', RatesSound, NEW w \in LimWorkers, NEW y,
         lw' = [lw EXCEPT ![w] = y], y.node = lw[w].node, lrz' = lrz, lim'.lost = lim.lost,
         ~lim'.misled => /\ ~lim.misled
                         /\ y.now = lw[w].now \/ \A z \in LrZones : y.node[z] = NoKey
  PROVE  RatesSoundNext
<1>1. \A z \in LrZones : ZoneSound(lrz'[z])
  BY DEF RatesSound
<1>2. ASSUME NEW z \in LrZones PROVE \A k \in LimKeys : PairSound(z, k)'
  <2>1. ~lim'.misled => ~lim.misled /\ (y.now = lw[w].now \/ y.node[z] = NoKey)
    OBVIOUS
  <2> QED
    BY <2>1, PairsStay
<1> QED
  BY <1>1, <1>2 DEF RatesSoundNext

LEMMA ConnsStay ==
  ASSUME lw \in [LimWorkers -> LimWorker], ConnsKept, NEW w \in LimWorkers, NEW y,
         lw' = [lw EXCEPT ![w] = y], y.conns = lw[w].conns,
         y.ask = lw[w].ask \/ y.conns = <<>>,
         lcz' = lcz, lim'.lostConns = lim.lostConns
  PROVE  ConnsKept'
<1> SUFFICES ASSUME NEW z \in LcZones, NEW k \in LimKeys PROVE ConnSound(z, k)'
  BY ConnsAreSoundNext
<1>1. y.conns = <<>> => ToSet(y.conns) = {}
  BY DEF ToSet
<1>2. Holders(z, k)' = Holders(z, k)
  <2>1. lw'[w] = y /\ \A v \in LimWorkers \ {w} : lw'[v] = lw[v]
    OBVIOUS
  <2> QED
    BY <1>1, <2>1 DEF Holders
<1>3. ConnSound(z, k)
  BY ConnsAreSound
<1> QED
  BY <1>2, <1>3 DEF ConnSound

LimRecord ==
  [clock : Nat, faults : Nat, misled : BOOLEAN,
   lost : [LrZones -> [LimKeys -> Nat]], lostConns : [LcZones -> [LimKeys -> Nat]]]

(* A worker goes on and leaves all zones alone.                             *)
LEMMA Moves ==
  ASSUME LimInv, NEW w \in LimWorkers, NEW y \in LimWorker, AtWork(y),
         lw' = [lw EXCEPT ![w] = y], y.node = lw[w].node, y.conns = lw[w].conns,
         y.ask = lw[w].ask \/ y.conns = <<>>,
         lrz' = lrz, lcz' = lcz, lim' \in LimRecord,
         lim'.lost = lim.lost, lim'.lostConns = lim.lostConns,
         ~lim'.misled => /\ ~lim.misled /\ Tidy(y)
                         /\ y.now = lw[w].now \/ \A z \in LrZones : y.node[z] = NoKey
  PROVE  LimInv'
<1>1. LimTypes /\ WorkersSound /\ RatesSound /\ ConnsKept
  BY Parts
<1>2. lw \in [LimWorkers -> LimWorker]
  BY <1>1 DEF LimTypes
<1>3. lw' \in [LimWorkers -> LimWorker] /\ WorkersSoundNext
  BY <1>1, <1>2, WorkersAfter
<1>4. LimTypes'
  BY <1>1, <1>3 DEF LimTypes, LimRecord
<1>5. RatesSoundNext
  BY <1>1, <1>4, RatesStay
<1>6. ConnsKept'
  BY <1>1, <1>2, ConnsStay
<1> QED
  BY <1>3, <1>4, <1>5, <1>6, PartsNext

LEMMA WorkerFacts ==
  ASSUME LimInv, NEW w \in LimWorkers
  PROVE  lw[w] \in LimWorker /\ AtWork(lw[w]) /\ (~lim.misled => Tidy(lw[w])) /\ lim \in LimRecord
BY DEF LimInv, LimTypes, LimRecord

LEMMA StepLimTick ==
  ASSUME LimInv, LimTick PROVE LimInv'
<1>1. PICK w \in LimWorkers : TRUE
  BY LimAssumption DEF LimAssumption
<1>2. lw[w] \in LimWorker /\ AtWork(lw[w]) /\ (~lim.misled => Tidy(lw[w])) /\ lim \in LimRecord
  BY WorkerFacts
<1>3. lw' = [lw EXCEPT ![w] = lw[w]]
  BY DEF LimTick, LimInv, LimTypes
<1>4. /\ lim' \in LimRecord /\ lim'.lost = lim.lost /\ lim'.lostConns = lim.lostConns
      /\ lim'.misled = lim.misled
  BY <1>2 DEF LimTick, LimRecord
<1>5. lrz' = lrz /\ lcz' = lcz
  BY DEF LimTick
<1> QED
  BY <1>2, <1>3, <1>4, <1>5, Moves

LEMMA AskedFacts ==
  ASSUME NEW x \in LimWorker, NEW a \in LimAsk, NEW t \in Nat
  PROVE  LET y == [x EXCEPT !.ask = a, !.now = t]
         IN y \in LimWorker /\ y.node = x.node /\ y.conns = x.conns
BY DEF LimWorker

LEMMA StepPreaccess ==
  ASSUME LimInv, NEW w \in LimWorkers, NEW ask \in LimAsks, Preaccess(w, ask) PROVE LimInv'
<1> DEFINE x == [lw[w] EXCEPT !.ask = ask, !.now = lim.clock]
           y == LookupFrom(x, 1)
<1>1. lw[w] \in LimWorker /\ AtWork(lw[w]) /\ (~lim.misled => Tidy(lw[w])) /\ lim \in LimRecord
  BY WorkerFacts
<1>2. ask \in LimAsk /\ lim.clock \in Nat
  BY <1>1, LimFacts DEF LimRecord
<1>3. x \in LimWorker /\ x.node = lw[w].node /\ x.conns = lw[w].conns
  BY <1>1, <1>2, AskedFacts
<1>4. /\ lw' = [lw EXCEPT ![w] = y] /\ lrz' = lrz /\ lcz' = lcz /\ lim' = lim
      /\ lw[w].st = "idle"
  BY DEF Preaccess
<1> HIDE DEF x
<1>5. lw[w].conns = <<>> /\ \A z \in LrZones : lw[w].node[z] # NoKey => z # Len(LrBurst)
  BY <1>1, <1>4 DEF AtWork
<1>6. Follows(x, y) /\ AtWork(y)
      /\ ((\A z \in LrZones : x.node[z] # NoKey =>
             z < 1 /\ \E v \in LrZones : x.ask.req[v] # NoKey) => Tidy(y))
  BY <1>3, <1>5, LookupFromFacts
<1>7. ~lim.misled => \A z \in LrZones : lw[w].node[z] = NoKey
  BY <1>1, <1>4 DEF Tidy
<1> HIDE DEF y
<1>8. y \in LimWorker /\ y.node = lw[w].node /\ y.conns = lw[w].conns /\ y.conns = <<>>
  BY <1>3, <1>5, <1>6 DEF Follows
<1>9. ~lim.misled => Tidy(y) /\ \A z \in LrZones : y.node[z] = NoKey
  BY <1>3, <1>6, <1>7, <1>8
<1> QED
  BY <1>1, <1>4, <1>6, <1>8, <1>9, Moves

LEMMA StepLookupFails ==
  ASSUME LimInv, NEW w \in LimWorkers, LookupFails(w) PROVE LimInv'
<1> DEFINE y == LimEnded(lw[w])
<1>1. lw[w] \in LimWorker /\ AtWork(lw[w]) /\ lim \in LimRecord
  BY WorkerFacts
<1>2. /\ lw' = [lw EXCEPT ![w] = y] /\ lrz' = lrz /\ lcz' = lcz /\ lw[w].st = "lookup"
      /\ lim' = [lim EXCEPT !.faults = @ + 1,
                            !.misled = @ \/ \E z \in LrZones : lw[w].node[z] # NoKey]
  BY DEF LookupFails
<1>3. Follows(lw[w], y) /\ y.st = "idle"
  BY <1>1, EndedFacts
<1> HIDE DEF y
<1>4. lw[w].conns = <<>> /\ \A z \in LrZones : lw[w].node[z] # NoKey => z # Len(LrBurst)
  BY <1>1, <1>2 DEF AtWork
<1>5. AtWork(y)
  BY <1>1, <1>3, <1>4, AtWorkAfter
<1>6. y \in LimWorker /\ y.node = lw[w].node /\ y.conns = lw[w].conns /\ y.conns = <<>>
  BY <1>3, <1>4 DEF Follows
<1>7. /\ lim' \in LimRecord /\ lim'.lost = lim.lost /\ lim'.lostConns = lim.lostConns
      /\ ~lim'.misled => ~lim.misled /\ ~ \E z \in LrZones : lw[w].node[z] # NoKey
  <2> DEFINE had == \E z \in LrZones : lw[w].node[z] # NoKey
             m == lim.misled \/ had
  <2>1. m \in BOOLEAN /\ (~m => ~lim.misled /\ ~had)
    OBVIOUS
  <2>2. lim' = [lim EXCEPT !.faults = @ + 1, !.misled = m]
    BY <1>2
  <2> HIDE DEF m
  <2>3. lim' \in LimRecord /\ lim'.lost = lim.lost /\ lim'.lostConns = lim.lostConns
        /\ lim'.misled = m
    <3>1. lim.faults + 1 \in Nat
      BY <1>1 DEF LimRecord
    <3>2. lim' = [clock |-> lim.clock, faults |-> lim.faults + 1, misled |-> m,
                  lost |-> lim.lost, lostConns |-> lim.lostConns]
      BY <1>1, <2>2 DEF LimRecord
    <3> QED
      BY <1>1, <2>1, <3>1, <3>2 DEF LimRecord
  <2> QED
    BY <2>1, <2>3
<1>8. ~lim'.misled => ~lim.misled /\ Tidy(y) /\ \A z \in LrZones : y.node[z] = NoKey
  BY <1>6, <1>7 DEF Tidy
<1> QED
  BY <1>2, <1>5, <1>6, <1>7, <1>8, Moves

(* A request that has no rate limit left to look at is cleaned up.          *)
LEMMA CleanedFacts ==
  ASSUME NEW x \in LimWorker, IsInjective(x.conns),
         \A z \in ToSet(x.conns) : x.ask.conn[z] # NoKey,
         \A z \in LrZones : x.node[z] # NoKey => z # Len(LrBurst)
  PROVE  LET y == CleanFrom(x)
         IN /\ y \in LimWorker /\ AtWork(y) /\ y.node = x.node /\ y.conns = x.conns
            /\ y.ask = x.ask \/ y.conns = <<>>
            /\ (\A z \in LrZones : x.node[z] = NoKey) => Tidy(y)
<1> DEFINE y == CleanFrom(x)
<1>1. /\ Follows(x, y)
      /\ x.conns = <<>> => y.st = "idle"
      /\ x.conns # <<>> => y.st = "cleanup" /\ y.ask = x.ask
  BY CleanFromFacts
<1> HIDE DEF y
<1>2. y \in LimWorker /\ y.node = x.node /\ y.conns = x.conns
  BY <1>1 DEF Follows
<1>3. AtWork(y)
  <2>1. CASE x.conns = <<>>
    BY <1>1, <1>2, <2>1, AtWorkAfter
  <2>2. CASE x.conns # <<>>
    BY <1>1, <1>2, <2>2 DEF AtWork
  <2> QED
    BY <2>1, <2>2
<1>4. (\A z \in LrZones : x.node[z] = NoKey) => Tidy(y)
  BY <1>2 DEF Tidy
<1> QED
  BY <1>1, <1>2, <1>3, <1>4 DEF y

LEMMA Cleans ==
  ASSUME LimInv, NEW w \in LimWorkers, lw[w].st \in {"conn", "run"},
         lw' = [lw EXCEPT ![w] = CleanFrom(lw[w])], lrz' = lrz, lcz' = lcz, lim' \in LimRecord,
         lim'.lost = lim.lost, lim'.lostConns = lim.lostConns, lim'.misled = lim.misled
  PROVE  LimInv'
<1> DEFINE y == CleanFrom(lw[w])
<1>1. lw[w] \in LimWorker /\ AtWork(lw[w]) /\ (~lim.misled => Tidy(lw[w]))
  BY WorkerFacts
<1>2. /\ y \in LimWorker /\ AtWork(y) /\ y.node = lw[w].node /\ y.conns = lw[w].conns
      /\ y.ask = lw[w].ask \/ y.conns = <<>>
      /\ (\A z \in LrZones : lw[w].node[z] = NoKey) => Tidy(y)
  BY <1>1, CleanedFacts DEF AtWork
<1>3. ~lim.misled => \A z \in LrZones : lw[w].node[z] = NoKey
  BY <1>1 DEF Tidy
<1> HIDE DEF y
<1>4. lw' = [lw EXCEPT ![w] = y]
  BY DEF y
<1>5. ~lim'.misled => ~lim.misled /\ Tidy(y) /\ \A z \in LrZones : y.node[z] = NoKey
  BY <1>2, <1>3
<1> QED
  BY <1>2, <1>4, <1>5, Moves

LEMMA StepRequestOver ==
  ASSUME LimInv, NEW w \in LimWorkers, RequestOver(w) PROVE LimInv'
<1>1. lim \in LimRecord
  BY WorkerFacts
<1> QED
  BY <1>1, Cleans DEF RequestOver

-----------------------------------------------------------------------------
(* Connections.                                                             *)
LEMMA OneMore ==
  ASSUME NEW n \in Int, NEW m \in Nat, n <= 0 \/ n < m
  PROVE  n + 1 <= Max({1, m})
<1>1. Max({1, m}) >= 1 /\ Max({1, m}) >= m /\ Max({1, m}) \in {1, m}
  BY DEF Max
<1> QED
  BY <1>1

LEMMA ConnTypes ==
  ASSUME LimTypes, NEW z \in LcZones, NEW k \in LimKeys
  PROVE  lcz[z][k] \in Int /\ lim.lostConns[z][k] \in Nat /\ LcMax[z] \in Nat
BY LimFacts DEF LimTypes

(* A count that changes leaves the others alone.                            *)
LEMMA Recounted ==
  ASSUME NEW S, NEW f \in [LcZones -> [LimKeys -> S]], NEW z \in LcZones, NEW k \in LimKeys,
         NEW n \in S, NEW h, h = [f[z] EXCEPT ![k] = n], NEW g, g = [f EXCEPT ![z] = h]
  PROVE  /\ g \in [LcZones -> [LimKeys -> S]] /\ g[z][k] = n
         /\ \A v \in LcZones, j \in LimKeys : <<v, j>> # <<z, k>> => g[v][j] = f[v][j]
<1>1. h \in [LimKeys -> S] /\ h[k] = n /\ \A j \in LimKeys \ {k} : h[j] = f[z][j]
  OBVIOUS
<1>2. g \in [LcZones -> [LimKeys -> S]] /\ g[z] = h /\ \A v \in LcZones \ {z} : g[v] = f[v]
  BY <1>1
<1> QED
  BY <1>1, <1>2

LEMMA CountedFacts ==
  ASSUME NEW x \in LimWorker, NEW z \in LcZones, \A y \in ToSet(x.conns) : y < z,
         IsInjective(x.conns)
  PROVE  LET y == [x EXCEPT !.conns = Append(@, z)]
         IN /\ y \in LimWorker /\ y.node = x.node /\ y.now = x.now /\ y.ask = x.ask
            /\ y.conns = Append(x.conns, z) /\ IsInjective(y.conns)
            /\ ToSet(y.conns) = ToSet(x.conns) \cup {z} /\ z \notin ToSet(x.conns)
<1> DEFINE c == Append(x.conns, z)
           y == [x EXCEPT !.conns = c]
<1>1. x.conns \in Seq(LcZones) /\ z \in Int
  BY LimFacts DEF LimWorker
<1>2. z \notin ToSet(x.conns)
  BY <1>1
<1>3. /\ c \in Seq(LcZones) /\ DOMAIN c = 1..(Len(x.conns) + 1)
      /\ c[Len(x.conns) + 1] = z /\ \A i \in DOMAIN x.conns : c[i] = x.conns[i]
      /\ ToSet(c) = ToSet(x.conns) \cup {z}
  BY <1>1, AppendFacts
<1>4. DOMAIN x.conns = 1..Len(x.conns) /\ Len(x.conns) \in Nat
  BY <1>1
<1>5. IsInjective(c)
  <2> HIDE DEF c
  <2>1. \A i \in DOMAIN x.conns : x.conns[i] # z
    BY <1>2 DEF ToSet
  <2>2. \A i \in DOMAIN c : i = Len(x.conns) + 1 \/ i \in DOMAIN x.conns
    BY <1>3, <1>4
  <2> QED
    BY <1>3, <1>4, <2>1, <2>2 DEF IsInjective
<1> HIDE DEF c
<1>6. /\ y \in LimWorker /\ y.node = x.node /\ y.now = x.now /\ y.ask = x.ask
      /\ y.conns = c
  BY <1>3 DEF LimWorker
<1> HIDE DEF y
<1> QED
  BY <1>2, <1>3, <1>5, <1>6 DEF c, y

(* The step of a connection that is counted.                                *)
Counting(w, z, k) ==
  /\ lw[w].st = "conn" /\ z = lw[w].n /\ k = lw[w].ask.conn[z]
  /\ ~(lcz[z][k] > 0 /\ lcz[z][k] >= LcMax[z])
  /\ lcz' = [lcz EXCEPT ![z] = [lcz[z] EXCEPT ![k] = lcz[z][k] + 1]]
  /\ lw' = [lw EXCEPT ![w] = ConnFrom([lw[w] EXCEPT !.conns = Append(@, z)], z + 1)]
  /\ lrz' = lrz /\ lim' = lim

LEMMA StepConnectCounts ==
  ASSUME LimInv, NEW w \in LimWorkers, NEW z, NEW k, Counting(w, z, k)
  PROVE  LimInv'
<1> DEFINE x == [lw[w] EXCEPT !.conns = Append(@, z)]
           y == ConnFrom(x, z + 1)
<1>1. lw[w] \in LimWorker /\ AtWork(lw[w]) /\ (~lim.misled => Tidy(lw[w])) /\ lim \in LimRecord
  BY WorkerFacts
<1>2. LimTypes /\ WorkersSound /\ RatesSound /\ ConnsKept /\ lw \in [LimWorkers -> LimWorker]
  BY Parts DEF LimTypes
<1>3. /\ z \in LcZones /\ k # NoKey /\ \A v \in ToSet(lw[w].conns) : v < z
      /\ IsInjective(lw[w].conns)
      /\ \A v \in ToSet(lw[w].conns) : lw[w].ask.conn[v] # NoKey
      /\ \A v \in LrZones : lw[w].node[v] # NoKey => v # Len(LrBurst)
  BY <1>1 DEF AtWork, Counting
<1>4. k \in LimKeys /\ z \in Int
  <2>1. lw[w].ask.conn \in LcKeys /\ k = lw[w].ask.conn[z]
    BY <1>1 DEF LimWorker, LimAsk, Counting
  <2> QED
    BY <1>3, <2>1, LimFacts DEF LcKeys
<1>0. lrz' = lrz /\ lim' = lim /\ k = lw[w].ask.conn[z] /\ ~(lcz[z][k] > 0 /\ lcz[z][k] >= LcMax[z])
  BY DEF Counting
<1>5. /\ x \in LimWorker /\ x.node = lw[w].node /\ x.now = lw[w].now /\ x.ask = lw[w].ask
      /\ x.conns = Append(lw[w].conns, z) /\ IsInjective(x.conns)
      /\ ToSet(x.conns) = ToSet(lw[w].conns) \cup {z} /\ z \notin ToSet(lw[w].conns)
  BY <1>1, <1>3, CountedFacts
<1> HIDE DEF x
<1>6. /\ Follows(x, y) /\ y.ask = x.ask
      /\ \/ y.st = "run"
         \/ y.st = "conn" /\ y.n \in LcZones /\ y.n >= z + 1 /\ x.ask.conn[y.n] # NoKey
  <2> DEFINE n == z + 1
  <2>1. n \in Int /\ y = ConnFrom(x, n)
    BY <1>4
  <2> HIDE DEF n, y
  <2>2. /\ Follows(x, y) /\ y.ask = x.ask
        /\ \/ y.st = "run"
           \/ y.st = "conn" /\ y.n \in LcZones /\ y.n >= n /\ x.ask.conn[y.n] # NoKey
    BY <1>5, <2>1, ConnFromFacts
  <2> QED
    BY <2>2 DEF n
<1>7. lw' = [lw EXCEPT ![w] = y]
  BY DEF x, Counting
<1> HIDE DEF y
<1>8. y \in LimWorker /\ y.node = lw[w].node /\ y.conns = x.conns /\ y.ask = lw[w].ask
      /\ y.now = lw[w].now
  BY <1>5, <1>6 DEF Follows
<1>9. \A v \in ToSet(y.conns) : v <= z /\ v \in Int
  <2>1. \A v \in ToSet(lw[w].conns) : v \in Int
    <3>1. ToSet(lw[w].conns) \subseteq LcZones
      BY <1>1 DEF LimWorker, ToSet
    <3> QED
      BY <3>1, LimFacts
  <2> QED
    <3>1. \A v \in ToSet(lw[w].conns) \cup {z} : v <= z /\ v \in Int
      BY <1>3, <1>4, <2>1
    <3>2. ToSet(y.conns) = ToSet(lw[w].conns) \cup {z}
      BY <1>5, <1>8
    <3> QED
      BY <3>1, <3>2
<1>10. AtWork(y)
  <2>1. \A v \in ToSet(y.conns) : y.ask.conn[v] # NoKey
    BY <1>0, <1>3, <1>5, <1>8
  <2>2. y.st = "conn" => \A v \in ToSet(y.conns) : v < y.n
    <3>1. y.st = "conn" => y.n \in Int /\ y.n >= z + 1
      BY <1>6, LimFacts
    <3> QED
      BY <1>4, <1>9, <3>1
  <2> QED
    BY <1>3, <1>5, <1>6, <1>8, <2>1, <2>2 DEF AtWork
<1>11. ~lim.misled => Tidy(y)
  <2>1. ~lim.misled => \A v \in LrZones : y.node[v] = NoKey
    <3>1. lw[w].st = "conn"
      BY DEF Counting
    <3> QED
      BY <1>1, <1>8, <3>1 DEF Tidy
  <2> QED
    BY <2>1 DEF Tidy
<1>12. lw' \in [LimWorkers -> LimWorker] /\ WorkersSoundNext
  BY <1>0, <1>2, <1>7, <1>8, <1>10, <1>11, WorkersAfter
<1>13. lcz[z][k] \in Int /\ lim.lostConns[z][k] \in Nat /\ LcMax[z] \in Nat
  BY <1>2, <1>3, <1>4, ConnTypes
<1>14. /\ lcz' \in [LcZones -> [LimKeys -> Int]] /\ lcz'[z][k] = lcz[z][k] + 1
       /\ \A v \in LcZones, j \in LimKeys : <<v, j>> # <<z, k>> => lcz'[v][j] = lcz[v][j]
  <2> DEFINE n == lcz[z][k] + 1
             h == [lcz[z] EXCEPT ![k] = n]
  <2>1. n \in Int /\ lcz \in [LcZones -> [LimKeys -> Int]]
    BY <1>2, <1>13 DEF LimTypes
  <2>2. lcz' = [lcz EXCEPT ![z] = h]
    BY DEF Counting
  <2> HIDE DEF n
  <2>3. h = [lcz[z] EXCEPT ![k] = n]
    OBVIOUS
  <2> HIDE DEF h
  <2> QED
    BY <1>3, <1>4, <2>1, <2>2, <2>3, Recounted DEF n
<1>15. LimTypes'
  BY <1>0, <1>2, <1>12, <1>14 DEF LimTypes
<1>16. RatesSoundNext
  BY <1>0, <1>2, <1>7, <1>8, <1>11, <1>15, RatesStay
<1>17. ConnsKept'
  <2> SUFFICES ASSUME NEW v \in LcZones, NEW j \in LimKeys PROVE ConnSound(v, j)'
    BY ConnsAreSoundNext
  <2>1. lw'[w] = y /\ \A u \in LimWorkers \ {w} : lw'[u] = lw[u]
    BY <1>2, <1>7
  <2>2. ConnSound(v, j)
    BY <1>2, ConnsAreSound
  <2>3. CASE v = z /\ j = k
    <3>1. Holders(z, k)' = Holders(z, k) \cup {w} /\ w \notin Holders(z, k)
      BY <1>0, <1>5, <1>8, <2>1 DEF Holders
    <3>2. Cardinality(Holders(z, k)') = Cardinality(Holders(z, k)) + 1
          /\ Cardinality(Holders(z, k)) \in Nat
      BY <3>1, HolderFacts, OneJoins
    <3>3. lcz[z][k] + 1 <= Max({1, LcMax[z]})
      <4>1. lcz[z][k] <= 0 \/ lcz[z][k] < LcMax[z]
        BY <1>0, <1>13
      <4> QED
        BY <1>13, <4>1, OneMore
    <3>4. lcz'[z][k] <= Max({1, LcMax[z]})
      BY <1>14, <3>3
    <3>5. lcz'[z][k] = lim'.lostConns[z][k] + Cardinality(Holders(z, k)')
      <4>1. lcz[z][k] = lim.lostConns[z][k] + Cardinality(Holders(z, k))
        BY <2>2, <2>3 DEF ConnSound
      <4>2. lim'.lostConns[z][k] = lim.lostConns[z][k] /\ lcz'[z][k] = lcz[z][k] + 1
        BY <1>0, <1>14
      <4> DEFINE a == Cardinality(Holders(z, k))
                 b == Cardinality(Holders(z, k)')
      <4>3. b = a + 1 /\ a \in Nat
        BY <3>2
      <4> HIDE DEF a, b
      <4>4. lcz'[z][k] = lim.lostConns[z][k] + b
        BY <1>13, <4>1, <4>2, <4>3 DEF a
      <4> QED
        BY <4>2, <4>4 DEF b
    <3> QED
      BY <2>3, <3>4, <3>5 DEF ConnSound
  <2>4. CASE ~(v = z /\ j = k)
    <3>1. Holders(v, j)' = Holders(v, j)
      <4>1. v \in ToSet(y.conns) /\ y.ask.conn[v] = j
            <=> v \in ToSet(lw[w].conns) /\ lw[w].ask.conn[v] = j
        BY <1>0, <1>5, <1>8, <2>4
      <4> QED
        BY <2>1, <4>1 DEF Holders
    <3>2. lcz'[v][j] = lcz[v][j]
      BY <1>14, <2>4
    <3> QED
      BY <1>0, <2>2, <3>1, <3>2 DEF ConnSound
  <2> QED
    BY <2>3, <2>4
<1> QED
  BY <1>12, <1>15, <1>16, <1>17, PartsNext

LEMMA StepConnect ==
  ASSUME LimInv, NEW w \in LimWorkers, Connect(w) PROVE LimInv'
<1> DEFINE z == lw[w].n
           k == lw[w].ask.conn[z]
<1>1. lim \in LimRecord
  BY WorkerFacts
<1>2. lw[w].st = "conn" /\ lrz' = lrz /\ lim' = lim
  BY DEF Connect
<1>3. CASE lcz[z][k] > 0 /\ lcz[z][k] >= LcMax[z]
  <2>1. lcz' = lcz /\ lw' = [lw EXCEPT ![w] = CleanFrom(lw[w])]
    BY <1>3 DEF Connect
  <2> QED
    BY <1>1, <1>2, <2>1, Cleans
<1>4. CASE ~(lcz[z][k] > 0 /\ lcz[z][k] >= LcMax[z])
  <2>1. lcz' = [lcz EXCEPT ![z] = [lcz[z] EXCEPT ![k] = lcz[z][k] + 1]]
    BY <1>4 DEF Connect
  <2>2. lw' = [lw EXCEPT ![w] = ConnFrom([lw[w] EXCEPT !.conns = Append(@, z)], z + 1)]
    BY <1>4 DEF Connect
  <2>3. Counting(w, z, k)
    BY <1>2, <1>4, <2>1, <2>2 DEF Counting
  <2> QED
    BY <2>3, StepConnectCounts
<1> QED
  BY <1>3, <1>4

(* A connection that is counted and then forgotten.                         *)
Losing(w, z, k) ==
  /\ lw[w].st = "conn" /\ z = lw[w].n /\ k = lw[w].ask.conn[z]
  /\ lcz[z][k] = 0 \/ lcz[z][k] < LcMax[z]
  /\ lcz' = [lcz EXCEPT ![z] = [lcz[z] EXCEPT ![k] = lcz[z][k] + 1]]
  /\ lim' = [lim EXCEPT !.faults = @ + 1, !.lostConns[z][k] = @ + 1]
  /\ lw' = [lw EXCEPT ![w] = CleanFrom(lw[w])]
  /\ lrz' = lrz

LEMMA StepConnectLoses ==
  ASSUME LimInv, NEW w \in LimWorkers, NEW z, NEW k, Losing(w, z, k)
  PROVE  LimInv'
<1> DEFINE y == CleanFrom(lw[w])
<1>1. lw[w] \in LimWorker /\ AtWork(lw[w]) /\ (~lim.misled => Tidy(lw[w])) /\ lim \in LimRecord
  BY WorkerFacts
<1>2. LimTypes /\ WorkersSound /\ RatesSound /\ ConnsKept /\ lw \in [LimWorkers -> LimWorker]
  BY Parts DEF LimTypes
<1>3. lrz' = lrz /\ lw' = [lw EXCEPT ![w] = y] /\ lw[w].st = "conn"
      /\ k = lw[w].ask.conn[z] /\ (lcz[z][k] = 0 \/ lcz[z][k] < LcMax[z])
  BY DEF Losing
<1>4. z \in LcZones /\ k # NoKey
  BY <1>1 DEF AtWork, Losing
<1>5. k \in LimKeys
  <2>1. lw[w].ask.conn \in LcKeys
    BY <1>1 DEF LimWorker, LimAsk
  <2> QED
    BY <1>3, <1>4, <2>1 DEF LcKeys
<1>6. /\ y \in LimWorker /\ AtWork(y) /\ y.node = lw[w].node /\ y.conns = lw[w].conns
      /\ y.ask = lw[w].ask \/ y.conns = <<>>
      /\ (\A v \in LrZones : lw[w].node[v] = NoKey) => Tidy(y)
  BY <1>1, CleanedFacts DEF AtWork
<1>7. ~lim.misled => \A v \in LrZones : lw[w].node[v] = NoKey
  BY <1>1, <1>3 DEF Tidy
<1> HIDE DEF y
<1>8. lcz[z][k] \in Int /\ lim.lostConns[z][k] \in Nat /\ LcMax[z] \in Nat
  BY <1>2, <1>4, <1>5, ConnTypes
<1>9. /\ lcz' \in [LcZones -> [LimKeys -> Int]] /\ lcz'[z][k] = lcz[z][k] + 1
      /\ \A v \in LcZones, j \in LimKeys : <<v, j>> # <<z, k>> => lcz'[v][j] = lcz[v][j]
  <2> DEFINE n == lcz[z][k] + 1
             h == [lcz[z] EXCEPT ![k] = n]
  <2>0. lcz' = [lcz EXCEPT ![z] = h]
    BY DEF Losing
  <2>1. n \in Int /\ lcz \in [LcZones -> [LimKeys -> Int]]
    BY <1>2, <1>8 DEF LimTypes
  <2> HIDE DEF n
  <2>2. h = [lcz[z] EXCEPT ![k] = n]
    OBVIOUS
  <2> HIDE DEF h
  <2> QED
    BY <1>4, <1>5, <2>0, <2>1, <2>2, Recounted DEF n
<1>10. /\ lim' \in LimRecord /\ lim'.lost = lim.lost /\ lim'.misled = lim.misled
       /\ lim'.lostConns[z][k] = lim.lostConns[z][k] + 1
       /\ \A v \in LcZones, j \in LimKeys :
            <<v, j>> # <<z, k>> => lim'.lostConns[v][j] = lim.lostConns[v][j]
  <2> DEFINE n == lim.lostConns[z][k] + 1
             h == [lim.lostConns[z] EXCEPT ![k] = n]
             g == [lim.lostConns EXCEPT ![z] = h]
  <2>1. n \in Nat /\ lim.lostConns \in [LcZones -> [LimKeys -> Nat]] /\ lim.faults + 1 \in Nat
    BY <1>1, <1>8 DEF LimRecord
  <2>2. lim' = [clock |-> lim.clock, faults |-> lim.faults + 1, misled |-> lim.misled,
                lost |-> lim.lost, lostConns |-> g]
    BY <1>1 DEF LimRecord, Losing
  <2> HIDE DEF n
  <2>3. h = [lim.lostConns[z] EXCEPT ![k] = n]
    OBVIOUS
  <2> HIDE DEF h
  <2>4. g = [lim.lostConns EXCEPT ![z] = h]
    OBVIOUS
  <2> HIDE DEF g
  <2>5. /\ g \in [LcZones -> [LimKeys -> Nat]] /\ g[z][k] = n
        /\ \A v \in LcZones, j \in LimKeys :
             <<v, j>> # <<z, k>> => g[v][j] = lim.lostConns[v][j]
    BY <1>4, <1>5, <2>1, <2>3, <2>4, Recounted
  <2>6. lim' \in LimRecord
    BY <1>1, <2>1, <2>2, <2>5 DEF LimRecord
  <2>7. lim'.lostConns = g /\ lim'.lost = lim.lost /\ lim'.misled = lim.misled
    BY <2>2
  <2> QED
    BY <2>5, <2>6, <2>7 DEF n
<1>11. lw' \in [LimWorkers -> LimWorker] /\ WorkersSoundNext
  BY <1>2, <1>3, <1>6, <1>7, <1>10, WorkersAfter
<1>12. LimTypes'
  BY <1>2, <1>3, <1>9, <1>10, <1>11 DEF LimTypes, LimRecord
<1>13. RatesSoundNext
  BY <1>2, <1>3, <1>6, <1>7, <1>10, <1>12, RatesStay
<1>14. ConnsKept'
  <2> SUFFICES ASSUME NEW v \in LcZones, NEW j \in LimKeys PROVE ConnSound(v, j)'
    BY ConnsAreSoundNext
  <2>1. lw'[w] = y /\ \A u \in LimWorkers \ {w} : lw'[u] = lw[u]
    BY <1>2, <1>3
  <2>2. y.conns = <<>> => ToSet(y.conns) = {}
    BY DEF ToSet
  <2>3. Holders(v, j)' = Holders(v, j)
    BY <1>6, <2>1, <2>2 DEF Holders
  <2>4. ConnSound(v, j)
    BY <1>2, ConnsAreSound
  <2>5. CASE v = z /\ j = k
    <3> DEFINE a == Cardinality(Holders(z, k))
    <3>1. a \in Nat /\ lcz[z][k] = lim.lostConns[z][k] + a
      BY <2>4, <2>5, HolderFacts DEF ConnSound
    <3>2. Cardinality(Holders(z, k)') = a
      BY <2>3, <2>5
    <3> HIDE DEF a
    <3>3. lcz'[z][k] = lim'.lostConns[z][k] + a
      BY <1>8, <1>9, <1>10, <3>1
    <3>4. lcz'[z][k] <= Max({1, LcMax[z]})
      <4>1. lcz[z][k] <= 0 \/ lcz[z][k] < LcMax[z]
        BY <1>3, <1>8
      <4> QED
        BY <1>8, <1>9, <4>1, OneMore
    <3> QED
      BY <2>5, <3>2, <3>3, <3>4 DEF ConnSound
  <2>6. CASE ~(v = z /\ j = k)
    <3>1. lcz'[v][j] = lcz[v][j] /\ lim'.lostConns[v][j] = lim.lostConns[v][j]
      BY <1>9, <1>10, <2>6
    <3> QED
      BY <2>3, <2>4, <3>1 DEF ConnSound
  <2> QED
    BY <2>5, <2>6
<1> QED
  BY <1>11, <1>12, <1>13, <1>14, PartsNext

LEMMA StepConnectFails ==
  ASSUME LimInv, NEW w \in LimWorkers, ConnectFails(w) PROVE LimInv'
<1> DEFINE z == lw[w].n
           k == lw[w].ask.conn[z]
<1>1. lim \in LimRecord
  BY WorkerFacts
<1>2. lw[w].st = "conn" /\ lrz' = lrz /\ lw' = [lw EXCEPT ![w] = CleanFrom(lw[w])]
  BY DEF ConnectFails
<1>3. CASE lim' = [lim EXCEPT !.faults = @ + 1] /\ lcz' = lcz
  <2>1. /\ lim' \in LimRecord /\ lim'.lost = lim.lost /\ lim'.lostConns = lim.lostConns
        /\ lim'.misled = lim.misled
    BY <1>1, <1>3 DEF LimRecord
  <2> QED
    BY <1>2, <1>3, <2>1, Cleans
<1>4. CASE /\ lcz[z][k] = 0 \/ lcz[z][k] < LcMax[z]
           /\ lcz' = [lcz EXCEPT ![z] = [lcz[z] EXCEPT ![k] = lcz[z][k] + 1]]
           /\ lim' = [lim EXCEPT !.faults = @ + 1, !.lostConns[z][k] = @ + 1]
  <2>1. Losing(w, z, k)
    BY <1>2, <1>4 DEF Losing
  <2> QED
    BY <2>1, StepConnectLoses
<1> QED
  BY <1>3, <1>4 DEF ConnectFails

LEMMA FewerConns ==
  ASSUME NEW x \in LimWorker, IsInjective(x.conns), x.conns # <<>>
  PROVE  LET y == [x EXCEPT !.conns = Front(@)]
             z == Last(x.conns)
         IN /\ y \in LimWorker /\ y.node = x.node /\ y.now = x.now /\ y.ask = x.ask
            /\ IsInjective(y.conns) /\ ToSet(y.conns) = ToSet(x.conns) \ {z}
            /\ z \in ToSet(x.conns) /\ z \in LcZones
<1> DEFINE c == Front(x.conns)
           y == [x EXCEPT !.conns = c]
<1>1. x.conns \in Seq(LcZones)
  BY DEF LimWorker
<1>2. /\ c \in Seq(LcZones) /\ Last(x.conns) \in LcZones /\ Last(x.conns) \in ToSet(x.conns)
      /\ IsInjective(c) /\ ToSet(c) = ToSet(x.conns) \ {Last(x.conns)}
  BY <1>1, FrontFacts
<1> HIDE DEF c
<1>3. y \in LimWorker /\ y.node = x.node /\ y.now = x.now /\ y.ask = x.ask /\ y.conns = c
  BY <1>2 DEF LimWorker
<1> HIDE DEF y
<1> QED
  BY <1>2, <1>3 DEF c, y

(* The step of a connection that is no longer counted.                      *)
Uncounting(w, z, k) ==
  /\ ngx_http_limit_conn_cleanup(w)
  /\ z = Last(lw[w].conns) /\ k = lw[w].ask.conn[z]

LEMMA StepUncounted ==
  ASSUME LimInv, NEW w \in LimWorkers, NEW z, NEW k, Uncounting(w, z, k)
  PROVE  LimInv'
<1> DEFINE x == [lw[w] EXCEPT !.conns = Front(@)]
           y == CleanFrom(x)
<1>1. lw[w] \in LimWorker /\ AtWork(lw[w]) /\ (~lim.misled => Tidy(lw[w])) /\ lim \in LimRecord
  BY WorkerFacts
<1>2. LimTypes /\ WorkersSound /\ RatesSound /\ ConnsKept /\ lw \in [LimWorkers -> LimWorker]
  BY Parts DEF LimTypes
<1>3. /\ lrz' = lrz /\ lim' = lim /\ lw[w].st = "cleanup"
      /\ z = Last(lw[w].conns) /\ k = lw[w].ask.conn[z]
  BY DEF ngx_http_limit_conn_cleanup, Uncounting
<1>4. lw' = [lw EXCEPT ![w] = y]
  BY DEF ngx_http_limit_conn_cleanup, Uncounting
<1>5. lcz' = [lcz EXCEPT ![z] = [lcz[z] EXCEPT ![k] = lcz[z][k] - 1]]
  BY DEF ngx_http_limit_conn_cleanup, Uncounting
<1>6. /\ lw[w].conns # <<>> /\ IsInjective(lw[w].conns)
      /\ \A v \in ToSet(lw[w].conns) : lw[w].ask.conn[v] # NoKey
      /\ \A v \in LrZones : lw[w].node[v] # NoKey => v # Len(LrBurst)
  BY <1>1, <1>3 DEF AtWork
<1>7. /\ x \in LimWorker /\ x.node = lw[w].node /\ x.now = lw[w].now /\ x.ask = lw[w].ask
      /\ IsInjective(x.conns) /\ ToSet(x.conns) = ToSet(lw[w].conns) \ {z}
      /\ z \in ToSet(lw[w].conns) /\ z \in LcZones
  BY <1>1, <1>3, <1>6, FewerConns
<1> HIDE DEF x
<1>8. k \in LimKeys
  <2>1. lw[w].ask.conn \in LcKeys
    BY <1>1 DEF LimWorker, LimAsk
  <2> QED
    BY <1>3, <1>6, <1>7, <2>1 DEF LcKeys
<1>9. /\ y \in LimWorker /\ AtWork(y) /\ y.node = x.node /\ y.conns = x.conns
      /\ y.ask = x.ask \/ y.conns = <<>>
      /\ (\A v \in LrZones : x.node[v] = NoKey) => Tidy(y)
  BY <1>6, <1>7, CleanedFacts
<1>10. ~lim.misled => \A v \in LrZones : lw[w].node[v] = NoKey
  BY <1>1, <1>3 DEF Tidy
<1> HIDE DEF y
<1>11. lw' \in [LimWorkers -> LimWorker] /\ WorkersSoundNext
  BY <1>2, <1>3, <1>4, <1>7, <1>9, <1>10, WorkersAfter
<1>12. lcz[z][k] \in Int /\ lim.lostConns[z][k] \in Nat /\ LcMax[z] \in Nat
  BY <1>2, <1>7, <1>8, ConnTypes
<1>13. /\ lcz' \in [LcZones -> [LimKeys -> Int]] /\ lcz'[z][k] = lcz[z][k] - 1
       /\ \A v \in LcZones, j \in LimKeys : <<v, j>> # <<z, k>> => lcz'[v][j] = lcz[v][j]
  <2> DEFINE n == lcz[z][k] - 1
             h == [lcz[z] EXCEPT ![k] = n]
  <2>1. n \in Int /\ lcz \in [LcZones -> [LimKeys -> Int]]
    BY <1>2, <1>12 DEF LimTypes
  <2>2. lcz' = [lcz EXCEPT ![z] = h]
    BY <1>5
  <2> HIDE DEF n
  <2>3. h = [lcz[z] EXCEPT ![k] = n]
    OBVIOUS
  <2> HIDE DEF h
  <2> QED
    BY <1>7, <1>8, <2>1, <2>2, <2>3, Recounted DEF n
<1>14. LimTypes'
  BY <1>2, <1>3, <1>11, <1>13 DEF LimTypes
<1>15. RatesSoundNext
  BY <1>2, <1>3, <1>4, <1>7, <1>9, <1>10, <1>14, RatesStay
<1>16. ConnsKept'
  <2> SUFFICES ASSUME NEW v \in LcZones, NEW j \in LimKeys PROVE ConnSound(v, j)'
    BY ConnsAreSoundNext
  <2>1. lw'[w] = y /\ \A u \in LimWorkers \ {w} : lw'[u] = lw[u]
    BY <1>2, <1>4
  <2>2. y.conns = <<>> => ToSet(y.conns) = {}
    BY DEF ToSet
  <2>3. ConnSound(v, j)
    BY <1>2, ConnsAreSound
  <2>4. CASE v = z /\ j = k
    <3>1. Holders(z, k)' = Holders(z, k) \ {w} /\ w \in Holders(z, k)
      BY <1>3, <1>7, <1>9, <2>1 DEF Holders
    <3> DEFINE a == Cardinality(Holders(z, k))
               b == Cardinality(Holders(z, k)')
    <3>2. a \in Nat /\ b = a - 1
      BY <3>1, HolderFacts, OneLeaves
    <3>3. lcz[z][k] = lim.lostConns[z][k] + a /\ lcz[z][k] <= Max({1, LcMax[z]})
      BY <2>3, <2>4 DEF ConnSound
    <3> HIDE DEF a, b
    <3>4. lcz'[z][k] = lim'.lostConns[z][k] + b
      <4>1. lim'.lostConns[z][k] = lim.lostConns[z][k] /\ lcz'[z][k] = lcz[z][k] - 1
        BY <1>3, <1>13
      <4>2. lcz[z][k] = lim.lostConns[z][k] + a
        BY <3>3
      <4>3. lcz'[z][k] = lim.lostConns[z][k] + b
        BY <1>12, <3>2, <4>1, <4>2
      <4> QED
        BY <4>1, <4>3
    <3>5. lcz'[z][k] <= Max({1, LcMax[z]})
      <4> DEFINE m == Max({1, LcMax[z]})
      <4>1. m \in Int
        BY <1>12 DEF Max
      <4> HIDE DEF m
      <4>2. lcz'[z][k] <= m
        BY <1>12, <1>13, <3>3, <4>1 DEF m
      <4> QED
        BY <4>2 DEF m
    <3> QED
      BY <2>4, <3>4, <3>5 DEF ConnSound, b
  <2>5. CASE ~(v = z /\ j = k)
    <3>1. v \in ToSet(y.conns) /\ y.ask.conn[v] = j
          <=> v \in ToSet(lw[w].conns) /\ lw[w].ask.conn[v] = j
      BY <1>3, <1>7, <1>9, <2>2, <2>5
    <3>2. Holders(v, j)' = Holders(v, j)
      BY <2>1, <3>1 DEF Holders
    <3>3. lcz'[v][j] = lcz[v][j]
      BY <1>13, <2>5
    <3> QED
      BY <1>3, <2>3, <3>2, <3>3 DEF ConnSound
  <2> QED
    BY <2>4, <2>5
<1> QED
  BY <1>11, <1>14, <1>15, <1>16, PartsNext

LEMMA StepCleanup ==
  ASSUME LimInv, NEW w \in LimWorkers, ngx_http_limit_conn_cleanup(w) PROVE LimInv'
<1>1. PICK z : z = Last(lw[w].conns)
  OBVIOUS
<1>2. PICK k : k = lw[w].ask.conn[z]
  OBVIOUS
<1> QED
  BY <1>1, <1>2, StepUncounted DEF Uncounting

LEMMA NewWorkerFacts ==
  /\ NewWorker \in LimWorker /\ AtWork(NewWorker) /\ Tidy(NewWorker)
  /\ NewWorker.conns = <<>> /\ \A z \in LrZones : NewWorker.node[z] = NoKey
<1>1. NoAsk \in LimAsk
  BY NoAskType
<1>2. /\ NewWorker.st = "idle" /\ NewWorker.ask = NoAsk /\ NewWorker.n = 0 /\ NewWorker.now = 0
      /\ NewWorker.conns = <<>> /\ NewWorker.node = [z \in LrZones |-> NoKey]
  BY DEF NewWorker
<1>3. NewWorker \in LimWorker
  BY <1>1 DEF NewWorker, LimWorker, LimStates, LrKeys
<1>4. \A z \in LrZones : NewWorker.node[z] = NoKey
  BY <1>2
<1>5. AtWork(NewWorker)
  BY <1>2, <1>4 DEF AtWork, ToSet, IsInjective
<1>6. Tidy(NewWorker)
  BY <1>4 DEF Tidy
<1> QED
  BY <1>2, <1>3, <1>4, <1>5, <1>6

LEMMA StepWorkerDies ==
  ASSUME LimInv, NEW w \in LimWorkers, LimWorkerDies(w) PROVE LimInv'
<1> DEFINE l == [z \in LrZones |-> [k \in LimKeys |->
                   lim.lost[z][k] + (IF lw[w].node[z] = k THEN 1 ELSE 0)]]
           c == [z \in LcZones |-> [k \in LimKeys |->
                   lim.lostConns[z][k] + (IF z \in ToSet(lw[w].conns) /\ lw[w].ask.conn[z] = k
                                          THEN 1 ELSE 0)]]
<1>1. lim \in LimRecord /\ lim.faults + 1 \in Nat
  BY WorkerFacts DEF LimRecord
<1>2. LimTypes /\ WorkersSound /\ RatesSound /\ ConnsKept /\ lw \in [LimWorkers -> LimWorker]
  BY Parts DEF LimTypes
<1>3. lw' = [lw EXCEPT ![w] = NewWorker] /\ lrz' = lrz /\ lcz' = lcz
  BY DEF LimWorkerDies
<1>4. lim' = [lim EXCEPT !.faults = @ + 1, !.lost = l, !.lostConns = c]
  BY DEF LimWorkerDies
<1>5. l \in [LrZones -> [LimKeys -> Nat]] /\ c \in [LcZones -> [LimKeys -> Nat]]
  BY <1>1 DEF LimRecord
<1>6. \A z \in LrZones, k \in LimKeys :
        l[z][k] = lim.lost[z][k] + (IF lw[w].node[z] = k THEN 1 ELSE 0)
  OBVIOUS
<1>7. \A z \in LcZones, k \in LimKeys :
        c[z][k] = lim.lostConns[z][k] + (IF z \in ToSet(lw[w].conns) /\ lw[w].ask.conn[z] = k
                                         THEN 1 ELSE 0)
  OBVIOUS
<1> HIDE DEF l, c
<1>8. lim' = [clock |-> lim.clock, faults |-> lim.faults + 1, misled |-> lim.misled,
              lost |-> l, lostConns |-> c]
  BY <1>1, <1>4 DEF LimRecord
<1>9. lim' \in LimRecord /\ lim'.misled = lim.misled /\ lim'.lost = l /\ lim'.lostConns = c
  BY <1>1, <1>5, <1>8 DEF LimRecord
<1>10. lw' \in [LimWorkers -> LimWorker] /\ WorkersSoundNext
  BY <1>2, <1>3, <1>9, NewWorkerFacts, WorkersAfter
<1>11. LimTypes'
  BY <1>2, <1>3, <1>9, <1>10 DEF LimTypes, LimRecord
<1>12. lw'[w] = NewWorker /\ \A v \in LimWorkers \ {w} : lw'[v] = lw[v]
  BY <1>2, <1>3
<1>13. ASSUME NEW z \in LrZones, NEW k \in LimKeys PROVE PairSound(z, k)'
  <2>1. PairSound(z, k) /\ lrz'[z].node[k] = lrz[z].node[k] /\ lim.lost[z][k] \in Nat
    BY <1>1, <1>2, <1>3 DEF RatesSound, LimRecord
  <2>2. Users(z, k)' = Users(z, k) \ {w} /\ (w \in Users(z, k) <=> lw[w].node[z] = k)
    BY <1>12, NewWorkerFacts, LimFacts DEF Users
  <2>3. \A v \in Users(z, k)' : lw'[v].now = lw[v].now
    BY <1>12, <2>2 DEF Users
  <2>4. CASE lw[w].node[z] = k
    <3>1. lim'.lost[z][k] = lim.lost[z][k] + 1
      BY <1>6, <1>9, <2>4
    <3> QED
      BY <1>2, <1>9, <1>11, <2>1, <2>2, <2>3, <2>4, <3>1, PairLeft
  <2>5. CASE lw[w].node[z] # k
    <3>1. lim'.lost[z][k] = lim.lost[z][k] /\ Users(z, k)' = Users(z, k)
      BY <1>6, <1>9, <2>1, <2>2, <2>5
    <3> QED
      BY <1>2, <1>9, <1>11, <2>1, <2>3, <3>1, PairStays
  <2> QED
    BY <2>4, <2>5
<1>14. RatesSoundNext
  BY <1>2, <1>3, <1>13 DEF RatesSound, RatesSoundNext
<1>15. ConnsKept'
  <2> SUFFICES ASSUME NEW z \in LcZones, NEW k \in LimKeys PROVE ConnSound(z, k)'
    BY ConnsAreSoundNext
  <2>1. ConnSound(z, k)
    BY <1>2, ConnsAreSound
  <2>2. ToSet(NewWorker.conns) = {}
    BY NewWorkerFacts DEF ToSet
  <2> DEFINE holds == z \in ToSet(lw[w].conns) /\ lw[w].ask.conn[z] = k
  <2>3. Holders(z, k)' = Holders(z, k) \ {w} /\ (w \in Holders(z, k) <=> holds)
    BY <1>12, <2>2 DEF Holders
  <2>4. lim'.lostConns[z][k] = lim.lostConns[z][k] + (IF holds THEN 1 ELSE 0)
    BY <1>7, <1>9
  <2> HIDE DEF holds
  <2> DEFINE a == Cardinality(Holders(z, k))
             b == Cardinality(Holders(z, k)')
  <2>5. a \in Nat /\ b = a - (IF holds THEN 1 ELSE 0)
    <3>1. CASE holds
      BY <2>3, <3>1, HolderFacts, OneLeaves
    <3>2. CASE ~holds
      <4>1. Holders(z, k)' = Holders(z, k)
        BY <2>3, <3>2
      <4> QED
        BY <3>2, <4>1, HolderFacts
    <3> QED
      BY <3>1, <3>2
  <2>6. lcz[z][k] = lim.lostConns[z][k] + a /\ lcz[z][k] <= Max({1, LcMax[z]})
    BY <2>1 DEF ConnSound
  <2>7. lim.lostConns[z][k] \in Nat /\ lcz'[z][k] = lcz[z][k]
    BY <1>1, <1>3 DEF LimRecord
  <2> HIDE DEF a, b
  <2>8. lcz'[z][k] = lim'.lostConns[z][k] + b
    BY <2>4, <2>5, <2>6, <2>7
  <2> QED
    BY <2>6, <2>7, <2>8 DEF ConnSound, b
<1> QED
  BY <1>10, <1>11, <1>14, <1>15, PartsNext

-----------------------------------------------------------------------------
(* A node is charged, or left, by a worker that had looked it up.           *)
LEMMA NodeReplaced ==
  ASSUME NEW zn \in LrZone, ZoneSound(zn), NEW k \in LimKeys, zn.node[k].here,
         NEW c \in LrNode, c.here,
         NEW f, f = [zn.node EXCEPT ![k] = c], NEW zo, zo = [zn EXCEPT !.node = f]
  PROVE  /\ zo \in LrZone /\ ZoneSound(zo) /\ zo.node[k] = c
         /\ \A j \in LimKeys \ {k} : zo.node[j] = zn.node[j]
<1>1. zn.queue \in Seq(LimKeys) /\ zn.node \in [LimKeys -> LrNode]
  BY DEF LrZone
<1>2. f \in [LimKeys -> LrNode] /\ f[k] = c /\ \A j \in LimKeys \ {k} : f[j] = zn.node[j]
  BY <1>1
<1>3. zo \in LrZone /\ zo.node = f /\ zo.queue = zn.queue
  BY <1>1, <1>2 DEF LrZone
<1>4. \A j \in LimKeys : f[j].here <=> zn.node[j].here
  BY <1>2
<1>5. \A j \in LimKeys : ~f[j].here => f[j] = NoLrNode
  BY <1>2 DEF ZoneSound
<1>6. {j \in LimKeys : f[j].here} = {j \in LimKeys : zn.node[j].here}
  BY <1>4
<1>7. ZoneSound(zo)
  BY <1>3, <1>5, <1>6 DEF ZoneSound
<1> QED
  BY <1>2, <1>3, <1>7

LEMMA RatesAfter ==
  ASSUME LimTypes, LimTypes', RatesSound, NEW w \in LimWorkers, NEW y,
         lw' = [lw EXCEPT ![w] = y], NEW z \in LrZones,
         \A v \in LrZones \ {z} :
           y.node[v] = lw[w].node[v] /\ lrz'[v] = lrz[v] /\ lim'.lost[v] = lim.lost[v],
         ~lim'.misled => /\ ~lim.misled
                         /\ y.now = lw[w].now \/ \A v \in LrZones : y.node[v] = NoKey,
         ZoneSound(lrz'[z]), \A k \in LimKeys : PairSound(z, k)'
  PROVE  RatesSoundNext
<1>1. ASSUME NEW v \in LrZones \ {z} PROVE \A k \in LimKeys : PairSound(v, k)'
  <2>1. y.node[v] = lw[w].node[v] /\ lrz'[v] = lrz[v] /\ lim'.lost[v] = lim.lost[v]
    OBVIOUS
  <2>2. ~lim'.misled => ~lim.misled /\ (y.now = lw[w].now \/ y.node[v] = NoKey)
    OBVIOUS
  <2> QED
    BY <2>1, <2>2, PairsStay
<1>2. \A v \in LrZones : \A k \in LimKeys : PairSound(v, k)'
  BY <1>1
<1>3. \A v \in LrZones : ZoneSound(lrz'[v])
  BY DEF RatesSound
<1> QED
  BY <1>2, <1>3 DEF RatesSoundNext

LEMMA BurstCharged ==
  ASSUME LimTypes, LimTypes', NEW z \in LrZones, z # Len(LrBurst), NEW k \in LimKeys,
         BurstSound(z, k), NEW w \in Users(z, k), Users(z, k)' = Users(z, k) \ {w},
         \A v \in Users(z, k)' : lw'[v].now = lw[v].now,
         lrz'[z].node[k].excess = Charged(z, lrz[z].node[k], lw[w].now).excess,
         lrz'[z].node[k].last = Charged(z, lrz[z].node[k], lw[w].now).last,
         ~lim'.misled => ~lim.misled
  PROVE  BurstSound(z, k)'
<1> DEFINE d == lrz[z].node[k]
           now == lw[w].now
           c == Charged(z, d, now)
<1>1. d \in LrNode /\ d.last \in Nat /\ now \in Nat
  <2>1. w \in LimWorkers
    BY DEF Users
  <2> QED
    BY <2>1, NodeType DEF LrNode, LimTypes, LimWorker
<1>2. SUFFICES ASSUME ~lim.misled, NEW T \in Nat, T >= c.last
               PROVE  Allowed(z, LrUnit * c.excess - LrRate[z] * (T - c.last)
                                 + Share * Cardinality(Ahead(z, k, T)'))
  BY DEF BurstSound
<1> DEFINE n == Cardinality(Ahead(z, k, T))
           l == Cardinality(Ahead(z, k, d.last))
<1>3. \A S \in Nat : S >= d.last => Allowed(z, LrUnit * d.excess - LrRate[z] * (S - d.last)
                                               + Share * Cardinality(Ahead(z, k, S)))
  BY <1>2 DEF BurstSound
<1>4. T >= now
  <2>1. c.last >= now /\ c.last \in Nat
    BY <1>1, ChargedLater, ChargedFacts DEF LrNode
  <2> QED
    BY <1>1, <1>2, <2>1
<1>5. w \in Ahead(z, k, T)
  BY <1>4 DEF Ahead
<1>6. n \in Nat \ {0} /\ n <= Cardinality(LimWorkers) /\ l \in Nat
  <2>1. n \in Nat /\ n <= Cardinality(LimWorkers) /\ l \in Nat /\ IsFiniteSet(Ahead(z, k, T))
    BY UserFacts
  <2>2. n # 0
    BY <1>5, <2>1, FS_EmptySet
  <2> QED
    BY <2>1, <2>2
<1>7. Cardinality(Ahead(z, k, T)') = n - 1
  <2>1. Ahead(z, k, T)' = Ahead(z, k, T) \ {w}
    BY DEF Ahead
  <2> QED
    BY <1>5, <2>1, UserFacts, OneLeaves
<1>8. T < d.last => n <= l
  <2> SUFFICES ASSUME T < d.last PROVE n <= l
    OBVIOUS
  <2>1. \A v \in Users(z, k) : lw[v].now \in Nat
    BY DEF Users, LimTypes, LimWorker
  <2>2. Ahead(z, k, T) \subseteq Ahead(z, k, d.last)
    BY <1>1, <2>1 DEF Ahead
  <2> QED
    BY <2>2, UserFacts, FS_Subset
<1>9. T >= d.last => Allowed(z, LrUnit * d.excess - LrRate[z] * (T - d.last) + Share * n)
  BY <1>3
<1>10. Allowed(z, LrUnit * d.excess + Share * l)
  <2>1. Allowed(z, LrUnit * d.excess - LrRate[z] * (d.last - d.last) + Share * l)
    BY <1>1, <1>3
  <2>2. LrRate[z] * (d.last - d.last) = 0
    BY <1>1, LimFacts
  <2>3. LrUnit * d.excess \in Nat
    BY <1>1, LimFacts, ProductType DEF LrNode
  <2>4. LrUnit * d.excess - LrRate[z] * (d.last - d.last) = LrUnit * d.excess
    BY <2>2, <2>3
  <2> QED
    BY <2>1, <2>4
<1> HIDE DEF d, now, n, l
<1>11. Allowed(z, LrUnit * c.excess - LrRate[z] * (T - c.last) + Share * (n - 1))
  BY <1>1, <1>2, <1>6, <1>8, <1>9, <1>10, ChargeAllowed
<1> QED
  BY <1>7, <1>11

WithNode(x, z, k) == [x EXCEPT !.node = [x.node EXCEPT ![z] = k]]

LEMMA WithNodeFacts ==
  ASSUME NEW x \in LimWorker, NEW z \in LrZones, NEW k \in LimKeys \cup {NoKey}
  PROVE  LET y == WithNode(x, z, k)
         IN /\ y \in LimWorker /\ y.st = x.st /\ y.ask = x.ask /\ y.n = x.n /\ y.now = x.now
            /\ y.conns = x.conns /\ y.node[z] = k
            /\ \A v \in LrZones \ {z} : y.node[v] = x.node[v]
<1> DEFINE f == [x.node EXCEPT ![z] = k]
           y == WithNode(x, z, k)
<1>1. f \in LrKeys /\ f[z] = k /\ \A v \in LrZones \ {z} : f[v] = x.node[v]
  BY DEF LimWorker, LrKeys
<1> HIDE DEF f
<1>2. y = [st |-> x.st, ask |-> x.ask, n |-> x.n, now |-> x.now, node |-> f, conns |-> x.conns]
  BY DEF LimWorker, WithNode, f
<1> HIDE DEF y
<1>3. y \in LimWorker
  BY <1>1, <1>2 DEF LimWorker
<1> QED
  BY <1>1, <1>2, <1>3 DEF y

LEMMA LessCounted ==
  ASSUME NEW e \in LrNode, NEW n \in Int
  PROVE  LET c == [e EXCEPT !.count = n]
         IN /\ c \in LrNode /\ c.here = e.here /\ c.count = n /\ c.excess = e.excess
            /\ c.last = e.last /\ c.charged = e.charged /\ c.since = e.since /\ c.back = e.back
<1> DEFINE c == [e EXCEPT !.count = n]
<1>1. c = [here |-> e.here, excess |-> e.excess, last |-> e.last, count |-> n,
           charged |-> e.charged, since |-> e.since, back |-> e.back]
  BY DEF LrNode
<1>2. c \in LrNode
  BY <1>1 DEF LrNode
<1> QED
  BY <1>1, <1>2

(* Who counts in a zone's counts.                                           *)
LEMMA UserHere ==
  ASSUME LimTypes, RatesSound, NEW z \in LrZones, NEW k \in LimKeys, NEW w \in Users(z, k)
  PROVE  lrz[z].node[k].here
<1>1. IsFiniteSet(Users(z, k)) /\ Cardinality(Users(z, k)) \in Nat
  BY UserFacts
<1>2. Cardinality(Users(z, k)) # 0
  BY <1>1, FS_EmptySet
<1>3. lrz[z].node[k].count = Cardinality(Users(z, k)) + lim.lost[z][k] /\ lim.lost[z][k] \in Nat
  BY DEF RatesSound, PairSound, CountSound, LimTypes
<1>4. lrz[z].node[k].count # 0
  BY <1>1, <1>2, <1>3
<1> QED
  BY <1>4, NoLrNodeFacts DEF RatesSound, ZoneSound

Settling(w, z, k) == Settle(w) /\ z = lw[w].n /\ k = lw[w].node[z]

LEMMA StepSettling ==
  ASSUME LimInv, NEW w \in LimWorkers, NEW z, NEW k, Settling(w, z, k)
  PROVE  LimInv'
<1> DEFINE d == lrz[z].node[k]
           e == IF lw[w].st = "charge" THEN Charged(z, d, lw[w].now) ELSE d
           c == [e EXCEPT !.count = d.count - 1]
           f == [lrz[z].node EXCEPT ![k] = c]
           x == WithNode(lw[w], z, NoKey)
           y == SettleFrom(x, lw[w].st, z - 1)
<1>1. lw[w] \in LimWorker /\ AtWork(lw[w]) /\ (~lim.misled => Tidy(lw[w])) /\ lim \in LimRecord
  BY WorkerFacts
<1>2. LimTypes /\ WorkersSound /\ RatesSound /\ ConnsKept /\ lw \in [LimWorkers -> LimWorker]
  BY Parts DEF LimTypes
<1>3. /\ lcz' = lcz /\ lim' = lim /\ lw[w].st \in {"charge", "undo"}
      /\ z = lw[w].n /\ k = lw[w].node[z]
  BY DEF Settling, Settle
<1>4. lw' = [lw EXCEPT ![w] = y]
  BY DEF Settling, Settle, WithNode
<1>5. /\ z \in LrZones /\ k # NoKey /\ lw[w].conns = <<>>
      /\ \A v \in LrZones : lw[w].node[v] # NoKey => v # Len(LrBurst)
  BY <1>1, <1>3 DEF AtWork
<1>6. k \in LimKeys
  BY <1>1, <1>3, <1>5 DEF LimWorker, LrKeys
<1>7. w \in Users(z, k)
  BY <1>3 DEF Users
<1>8. d \in LrNode /\ d.here /\ lrz[z] \in LrZone /\ lw[w].now \in Nat
  BY <1>1, <1>2, <1>5, <1>6, <1>7, NodeType, UserHere DEF LimWorker
<1>9. e \in LrNode /\ e.here = d.here /\ e.count = d.count
  BY <1>5, <1>8, ChargedFacts
<1>10. lrz' = [lrz EXCEPT ![z] = [lrz[z] EXCEPT !.node = f]]
  <2>1. lrz' = [lrz EXCEPT ![z] = [lrz[z] EXCEPT !.node = [lrz[z].node EXCEPT ![k] =
                  [e EXCEPT !.count = e.count - 1]]]]
    BY DEF Settling, Settle
  <2> QED
    BY <1>9, <2>1
<1>11. /\ c \in LrNode /\ c.here = e.here /\ c.count = d.count - 1 /\ c.excess = e.excess
       /\ c.last = e.last /\ c.charged = e.charged /\ c.since = e.since /\ c.back = e.back
  <2>1. d.count - 1 \in Int
    BY <1>8 DEF LrNode
  <2> HIDE DEF e, d
  <2> QED
    BY <1>9, <2>1, LessCounted
<1> HIDE DEF c
<1>12. f = [lrz[z].node EXCEPT ![k] = c]
  OBVIOUS
<1> HIDE DEF f
<1> DEFINE zo == [lrz[z] EXCEPT !.node = f]
<1>13. /\ zo \in LrZone /\ ZoneSound(zo) /\ zo.node[k] = c
       /\ \A j \in LimKeys \ {k} : zo.node[j] = lrz[z].node[j]
  <2>1. ZoneSound(lrz[z]) /\ c.here
    BY <1>2, <1>5, <1>8, <1>9, <1>11 DEF RatesSound
  <2>2. zo = [lrz[z] EXCEPT !.node = f]
    OBVIOUS
  <2> HIDE DEF zo
  <2> QED
    BY <1>6, <1>8, <1>11, <1>12, <2>1, <2>2, NodeReplaced
<1>14. lrz' = [lrz EXCEPT ![z] = zo]
  BY <1>10
<1> HIDE DEF zo
<1>15. lrz' \in [LrZones -> LrZone] /\ lrz'[z] = zo /\ \A v \in LrZones \ {z} : lrz'[v] = lrz[v]
  BY <1>2, <1>5, <1>13, <1>14 DEF LimTypes
<1>16. /\ x \in LimWorker /\ x.st = lw[w].st /\ x.now = lw[w].now
       /\ x.conns = <<>> /\ x.node[z] = NoKey /\ x.ask = lw[w].ask
       /\ \A v \in LrZones \ {z} : x.node[v] = lw[w].node[v]
  <2>1. NoKey \in LimKeys \cup {NoKey}
    OBVIOUS
  <2> HIDE DEF x
  <2> QED
    BY <1>1, <1>5, <2>1, WithNodeFacts DEF x
<1> HIDE DEF x
<1>17. \A v \in LrZones : x.node[v] # NoKey => v # Len(LrBurst)
  BY <1>5, <1>16
<1>18. /\ Follows(x, y) /\ AtWork(y)
       /\ (\A v \in LrZones : x.node[v] # NoKey => v <= z - 1) => Tidy(y)
  <2> DEFINE st == lw[w].st
             n == z - 1
  <2>1. st \in {"charge", "undo"} /\ n \in Int /\ y = SettleFrom(x, st, n)
    BY <1>3, <1>5, LimFacts
  <2> HIDE DEF st, n, y
  <2>2. /\ Follows(x, y) /\ AtWork(y)
        /\ (\A v \in LrZones : x.node[v] # NoKey => v <= n) => Tidy(y)
    BY <1>16, <1>17, <2>1, SettleFromFacts
  <2> QED
    BY <2>2 DEF n
<1> HIDE DEF y
<1>19. y \in LimWorker /\ y.node = x.node /\ y.conns = <<>> /\ (y.now = lw[w].now \/ y.st = "idle")
  BY <1>16, <1>18 DEF Follows
<1>20. ~lim.misled => Tidy(y)
  <2> SUFFICES ASSUME ~lim.misled, NEW v \in LrZones, x.node[v] # NoKey PROVE v <= z - 1
    BY <1>18
  <2>1. v # z /\ lw[w].node[v] # NoKey
    BY <1>16
  <2>2. v <= z
    BY <1>1, <1>3, <2>1 DEF Tidy
  <2>3. v \in Int /\ z \in Int
    BY <1>5, LimFacts
  <2> QED
    BY <2>1, <2>2, <2>3
<1>21. lw' \in [LimWorkers -> LimWorker] /\ WorkersSoundNext
  BY <1>2, <1>3, <1>4, <1>18, <1>19, <1>20, WorkersAfter
<1>22. LimTypes'
  BY <1>2, <1>3, <1>15, <1>21 DEF LimTypes
<1>23. ~lim'.misled => ~lim.misled /\ (y.now = lw[w].now \/ \A v \in LrZones : y.node[v] = NoKey)
  BY <1>3, <1>19, <1>20 DEF Tidy
<1>24. lw'[w] = y /\ \A v \in LimWorkers \ {w} : lw'[v] = lw[v]
  BY <1>2, <1>4
<1>25. Users(z, k)' = Users(z, k) \ {w}
  BY <1>6, <1>16, <1>19, <1>24, LimFacts DEF Users
<1>26. PairSound(z, k)'
  <2>0. PairSound(z, k) /\ lrz'[z].node[k] = c
    BY <1>2, <1>5, <1>6, <1>13, <1>15 DEF RatesSound
  <2>1. CountSound(z, k)'
    <3>1. Cardinality(Users(z, k)') = Cardinality(Users(z, k)) - 1 /\ Cardinality(Users(z, k)) \in Nat
      BY <1>7, <1>25, UserFacts, OneLeaves
    <3>2. d.count = Cardinality(Users(z, k)) + lim.lost[z][k] /\ lim.lost[z][k] \in Nat
      BY <1>2, <1>5, <1>6, <2>0 DEF PairSound, CountSound, LimTypes
    <3>3. c.count = d.count - 1
      BY <1>11
    <3> HIDE DEF d
    <3>4. c.count = Cardinality(Users(z, k)') + lim'.lost[z][k]
      <4>1. lim'.lost[z][k] = lim.lost[z][k]
        BY <1>3
      <4> QED
        BY <3>1, <3>2, <3>3, <4>1
    <3> QED
      BY <2>0, <3>4 DEF CountSound
  <2>2. RateSound(z, e)
    <3>1. RateSound(z, d)
      BY <2>0 DEF PairSound
    <3> HIDE DEF d
    <3> QED
      BY <1>5, <1>8, <3>1, ChargedRate
  <2>3. RateSound(z, lrz[z].node[k])'
    <3> HIDE DEF e
    <3>1. RateSound(z, c)
      BY <1>11, <2>2 DEF RateSound
    <3> QED
      BY <2>0, <3>1 DEF RateSound
  <2>4. \A v \in Users(z, k)' : lw'[v].now = lw[v].now
    BY <1>24, <1>25 DEF Users
  <2>5. z # Len(LrBurst)
    BY <1>3, <1>5
  <2>6. BurstSound(z, k)'
    <3>1. CASE lw[w].st = "charge"
      <4>1. lrz'[z].node[k].excess = Charged(z, d, lw[w].now).excess
            /\ lrz'[z].node[k].last = Charged(z, d, lw[w].now).last
        BY <1>11, <2>0, <3>1
      <4> QED
        BY <1>2, <1>3, <1>5, <1>6, <1>7, <1>22, <1>25, <2>0, <2>4, <2>5, <4>1, BurstCharged
           DEF PairSound
    <3>2. CASE lw[w].st # "charge"
      <4>1. lrz'[z].node[k].excess = d.excess /\ lrz'[z].node[k].last = d.last
        BY <1>11, <2>0, <3>2
      <4>2. ASSUME NEW T \in Nat PROVE Ahead(z, k, T)' \subseteq Ahead(z, k, T)
        BY <1>25, <2>4 DEF Ahead
      <4> QED
        BY <1>2, <1>3, <1>5, <1>6, <1>22, <2>0, <4>1, <4>2, BurstFewer DEF PairSound
    <3> QED
      BY <3>1, <3>2
  <2> QED
    BY <2>1, <2>3, <2>6 DEF PairSound
<1>27. ASSUME NEW j \in LimKeys \ {k} PROVE PairSound(z, j)'
  <2>1. PairSound(z, j) /\ lrz'[z].node[j] = lrz[z].node[j] /\ lim'.lost[z][j] = lim.lost[z][j]
    BY <1>2, <1>3, <1>5, <1>13, <1>15 DEF RatesSound
  <2>2. Users(z, j)' = Users(z, j) /\ w \notin Users(z, j)
    BY <1>3, <1>16, <1>19, <1>24, LimFacts DEF Users
  <2>3. \A v \in Users(z, j) : lw'[v].now = lw[v].now
    BY <1>24, <2>2 DEF Users
  <2> QED
    BY <1>2, <1>3, <1>5, <1>22, <2>1, <2>2, <2>3, PairStays
<1>28. RatesSoundNext
  <2>1. \A j \in LimKeys : PairSound(z, j)'
    BY <1>26, <1>27
  <2>2. \A v \in LrZones \ {z} :
          y.node[v] = lw[w].node[v] /\ lrz'[v] = lrz[v] /\ lim'.lost[v] = lim.lost[v]
    BY <1>3, <1>15, <1>16, <1>19
  <2>3. ZoneSound(lrz'[z])
    BY <1>13, <1>15
  <2> QED
    BY <1>2, <1>4, <1>5, <1>22, <1>23, <2>1, <2>2, <2>3, RatesAfter
<1>29. ConnsKept'
  BY <1>2, <1>3, <1>4, <1>5, <1>19, ConnsStay
<1> QED
  BY <1>21, <1>22, <1>28, <1>29, PartsNext

LEMMA StepSettle ==
  ASSUME LimInv, NEW w \in LimWorkers, Settle(w) PROVE LimInv'
<1>1. PICK z : z = lw[w].n
  OBVIOUS
<1>2. PICK k : k = lw[w].node[z]
  OBVIOUS
<1> QED
  BY <1>1, <1>2, StepSettling DEF Settling

-----------------------------------------------------------------------------
(* Look-ups.                                                                *)
LEMMA LookupFoundFacts ==
  ASSUME LimTypes, RatesSound, NEW z \in LrZones, NEW k \in LimKeys, NEW now \in Nat,
         lrz[z].node[k].here
  PROVE  LET r == LookupFound(z, k, now, z = Len(LrBurst))
             d == lrz[z].node[k]
         IN /\ r.zn \in LrZone /\ ZoneSound(r.zn)
            /\ \A j \in LimKeys \ {k} : r.zn.node[j] = lrz[z].node[j]
            /\ \/ r.rc = "busy" /\ r.zn.node[k] = d
               \/ /\ r.rc = "ok" /\ z = Len(LrBurst) /\ LrExcess(z, d, now) <= LrBurst[z]
                  /\ r.zn.node[k] = Charged(z, d, now)
               \/ /\ r.rc = "again" /\ z # Len(LrBurst) /\ LrExcess(z, d, now) <= LrBurst[z]
                  /\ r.zn.node[k] = [d EXCEPT !.count = d.count + 1]
<1> DEFINE r == LookupFound(z, k, now, z = Len(LrBurst))
           d == lrz[z].node[k]
           q == <<k>> \o RemoveFirst(lrz[z].queue, k)
           after(c) == [node |-> [lrz[z].node EXCEPT ![k] = c], queue |-> q]
           c2 == [d EXCEPT !.count = d.count + 1]
           over == LrExcess(z, d, now) > LrBurst[z]
<1>1. lrz[z] \in LrZone /\ d \in LrNode /\ ZoneSound(lrz[z]) /\ d.here
  BY NodeType DEF RatesSound
<1>2. ASSUME NEW c \in LrNode, c.here
      PROVE  /\ after(c) \in LrZone /\ ZoneSound(after(c)) /\ after(c).node[k] = c
             /\ \A j \in LimKeys \ {k} : after(c).node[j] = lrz[z].node[j]
  <2>1. after(c) \in LrZone /\ ZoneSound(after(c))
    <3> HIDE DEF d
    <3> QED
      BY <1>1, <1>2, Requeued
  <2>2. lrz[z].node \in [LimKeys -> LrNode]
    BY <1>1 DEF LrZone
  <2> QED
    BY <1>2, <2>1, <2>2
<1>3. lrz[z] = [node |-> lrz[z].node, queue |-> lrz[z].queue]
      /\ lrz[z].node \in [LimKeys -> LrNode]
  BY <1>1 DEF LrZone
<1>4. /\ [lrz[z] EXCEPT !.queue = q] = after(d)
      /\ \A c : [[lrz[z] EXCEPT !.queue = q] EXCEPT !.node[k] = c] = after(c)
  <2> DEFINE f == lrz[z].node
  <2>1. f \in [LimKeys -> LrNode] /\ lrz[z] = [node |-> f, queue |-> lrz[z].queue] /\ d = f[k]
    BY <1>3
  <2>2. [f EXCEPT ![k] = d] = f
    BY <2>1
  <2> HIDE DEF q
  <2>3. [lrz[z] EXCEPT !.queue = q] = [node |-> f, queue |-> q]
    BY <2>1
  <2> HIDE DEF f
  <2>4. \A c : [[node |-> f, queue |-> q] EXCEPT !.node = c] = [node |-> c, queue |-> q]
    OBVIOUS
  <2> QED
    BY <2>2, <2>3, <2>4 DEF f
<1>5. over => r.rc = "busy" /\ r.zn = after(d)
  BY <1>4 DEF LookupFound
<1>6. ~over /\ z = Len(LrBurst) => r.rc = "ok" /\ r.zn = after(Charged(z, d, now))
  BY <1>4 DEF LookupFound
<1>7. ~over /\ z # Len(LrBurst) => r.rc = "again" /\ r.zn = after(c2)
  BY <1>4 DEF LookupFound
<1>8. c2 \in LrNode /\ c2.here
  <2>1. d.count + 1 \in Int
    BY <1>1 DEF LrNode
  <2> HIDE DEF d
  <2> QED
    BY <1>1, <2>1, LessCounted
<1>9. Charged(z, d, now) \in LrNode /\ Charged(z, d, now).here
  BY <1>1, ChargedFacts
<1>10. ~over => LrExcess(z, d, now) <= LrBurst[z]
  <2>1. LrExcess(z, d, now) \in Nat /\ LrBurst[z] \in Nat
    BY <1>1, ExcessFacts, LimFacts
  <2> QED
    BY <2>1
<1> HIDE DEF after, c2, over, r
<1>11. /\ r.zn \in LrZone /\ ZoneSound(r.zn)
       /\ \A j \in LimKeys \ {k} : r.zn.node[j] = lrz[z].node[j]
  BY <1>1, <1>2, <1>5, <1>6, <1>7, <1>8, <1>9
<1>12. over => r.zn.node[k] = d
  BY <1>1, <1>2, <1>5
<1>13. ~over /\ z = Len(LrBurst) => r.zn.node[k] = Charged(z, d, now)
  BY <1>2, <1>6, <1>9
<1>14. ~over /\ z # Len(LrBurst) => r.zn.node[k] = c2
  BY <1>2, <1>7, <1>8
<1> QED
  BY <1>5, <1>6, <1>7, <1>10, <1>11, <1>12, <1>13, <1>14 DEF r, c2

(* The node of a key that is new in a zone.                                 *)
Fresh(t, n, m) ==
  [NoLrNode EXCEPT !.here = TRUE, !.last = t, !.count = n, !.charged = m, !.since = t]

LEMMA FreshFacts ==
  ASSUME NEW t \in Nat, NEW n \in Int, NEW m \in Nat
  PROVE  LET d == Fresh(t, n, m)
         IN /\ d \in LrNode /\ d.here /\ d.charged = m /\ d.excess = 0 /\ d.count = n
            /\ d.last = d.since
<1> DEFINE e == NoLrNode
           b == e.back
           h == TRUE
           d == Fresh(t, n, m)
<1>1. e \in LrNode /\ e.excess = 0 /\ b \in BOOLEAN
  BY NoLrNodeFacts DEF LrNode
<1>2. d = [e EXCEPT !.here = h, !.last = t, !.count = n, !.charged = m, !.since = t]
  BY DEF Fresh
<1>0. h \in BOOLEAN /\ h
  OBVIOUS
<1> HIDE DEF d, e, h
<1>3. d = [here |-> h, excess |-> 0, last |-> t, count |-> n,
           charged |-> m, since |-> t, back |-> b]
  BY <1>1, <1>2 DEF LrNode
<1> HIDE DEF b
<1>4. d \in LrNode
  BY <1>0, <1>1, <1>3 DEF LrNode
<1>5. d.here
  BY <1>0, <1>3
<1>6. d.charged = m /\ d.excess = 0 /\ d.count = n /\ d.last = d.since
  BY <1>3
<1> QED
  BY <1>4, <1>5, <1>6 DEF d

LEMMA LookupNewFacts ==
  ASSUME LimTypes, RatesSound, NEW z \in LrZones, NEW k \in LimKeys, NEW now \in Nat,
         ~lrz[z].node[k].here
  PROVE  LET r == LookupNew(z, k, now, z = Len(LrBurst))
             c == r.zn.node[k]
         IN /\ r.zn \in LrZone /\ ZoneSound(r.zn) /\ lrz[z].node[k] = NoLrNode
            /\ \A j \in LimKeys \ {k} : \/ r.zn.node[j] = lrz[z].node[j]
                                        \/ r.zn.node[j] = NoLrNode /\ lrz[z].node[j].count <= 0
            /\ \/ r.rc = "error" /\ c = NoLrNode
               \/ /\ r.rc = "ok" /\ z = Len(LrBurst)
                  /\ c.charged = 1 /\ c.excess = 0 /\ c.count = 0 /\ c.last = c.since
               \/ /\ r.rc = "again" /\ z # Len(LrBurst)
                  /\ c.charged = 0 /\ c.excess = 0 /\ c.count = 1
<1> DEFINE account == z = Len(LrBurst)
           r == LookupNew(z, k, now, z = Len(LrBurst))
           zn == RoomMade(lrz[z], z, now)
           t == IF account THEN now ELSE 0
           n == IF account THEN 0 ELSE 1
           m == IF account THEN 1 ELSE 0
           new == Fresh(t, n, m)
           zo == [node |-> [zn.node EXCEPT ![k] = new], queue |-> <<k>> \o zn.queue]
<1>1. lrz[z] \in LrZone /\ ZoneSound(lrz[z]) /\ lrz[z].node[k] = NoLrNode
  BY NodeType DEF RatesSound, ZoneSound
<1>2. r = IF Len(zn.queue) >= LrCap THEN [rc |-> "error", zn |-> zn]
          ELSE [rc |-> IF account THEN "ok" ELSE "again", zn |-> zo]
  BY DEF LookupNew, Fresh
<1>3. Shrunk(lrz[z], zn)
  BY <1>1, RoomMadeFacts
<1> HIDE DEF zn
<1>4. /\ zn \in LrZone /\ ZoneSound(zn) /\ zn.node[k] = NoLrNode
      /\ \A j \in LimKeys : \/ zn.node[j] = lrz[z].node[j]
                            \/ zn.node[j] = NoLrNode /\ lrz[z].node[j].count <= 0
  BY <1>1, <1>3 DEF Shrunk
<1>5. t \in Nat /\ n \in Int /\ m \in Nat
  OBVIOUS
<1> HIDE DEF t, n, m
<1>7. /\ new \in LrNode /\ new.here /\ new.charged = m /\ new.excess = 0
      /\ new.count = n /\ new.last = new.since
  BY <1>5, FreshFacts
<1> HIDE DEF new
<1>9. zo \in LrZone /\ ZoneSound(zo)
  BY <1>4, <1>7, NoLrNodeFacts, Enqueued
<1>10. zn.node \in [LimKeys -> LrNode]
  BY <1>4 DEF LrZone
<1>11. zo.node[k] = new /\ \A j \in LimKeys \ {k} : zo.node[j] = zn.node[j]
  BY <1>10
<1> HIDE DEF zo, r
<1>12. CASE Len(zn.queue) >= LrCap
  <2>1. r.rc = "error" /\ r.zn = zn
    BY <1>2, <1>12
  <2> QED
    BY <1>1, <1>4, <2>1 DEF r
<1>13. CASE ~(Len(zn.queue) >= LrCap) /\ account
  <2>1. r.rc = "ok" /\ r.zn = zo /\ m = 1 /\ n = 0
    BY <1>2, <1>13 DEF m, n
  <2> QED
    BY <1>1, <1>4, <1>7, <1>9, <1>11, <1>13, <2>1 DEF r
<1>14. CASE ~(Len(zn.queue) >= LrCap) /\ ~account
  <2>1. r.rc = "again" /\ r.zn = zo /\ m = 0 /\ n = 1
    BY <1>2, <1>14 DEF m, n
  <2> QED
    BY <1>1, <1>4, <1>7, <1>9, <1>11, <1>14, <2>1 DEF r
<1> QED
  BY <1>12, <1>13, <1>14

(* What a look-up finds, for both kinds of nodes.                           *)
Found(z, k, now) ==
  IF lrz[z].node[k].here THEN LookupFound(z, k, now, z = Len(LrBurst))
  ELSE LookupNew(z, k, now, z = Len(LrBurst))

NodeFound(z, d, now, rc, c) ==
  /\ c \in LrNode /\ RateSound(z, c)
  /\ \/ rc \in {"busy", "error"} /\ c = d
     \/ rc = "ok" /\ z = Len(LrBurst) /\ c.count = d.count /\ c.excess <= LrBurst[z]
     \/ /\ rc = "again" /\ z # Len(LrBurst) /\ c.count = d.count + 1
        /\ \/ c.excess = d.excess /\ c.last = d.last /\ LrExcess(z, d, now) <= LrBurst[z]
           \/ c.excess = 0 /\ d.count = 0

LEMMA FoundFacts ==
  ASSUME LimTypes, RatesSound, NEW z \in LrZones, NEW k \in LimKeys, NEW now \in Nat,
         NEW r, r = Found(z, k, now)
  PROVE  /\ r.zn \in LrZone /\ ZoneSound(r.zn)
         /\ \A j \in LimKeys \ {k} : \/ r.zn.node[j] = lrz[z].node[j]
                                     \/ r.zn.node[j] = NoLrNode /\ lrz[z].node[j].count <= 0
         /\ NodeFound(z, lrz[z].node[k], now, r.rc, r.zn.node[k])
<1> DEFINE d == lrz[z].node[k]
           c == r.zn.node[k]
<1>1. d \in LrNode /\ RateSound(z, d)
  BY NodeType DEF RatesSound, PairSound
<1>2. ASSUME r.zn \in LrZone PROVE c \in LrNode
  BY <1>2 DEF LrZone
<1>3. CASE lrz[z].node[k].here
  <2>1. r = LookupFound(z, k, now, z = Len(LrBurst))
    BY <1>3 DEF Found
  <2>2. /\ r.zn \in LrZone /\ ZoneSound(r.zn)
        /\ \A j \in LimKeys \ {k} : r.zn.node[j] = lrz[z].node[j]
        /\ \/ r.rc = "busy" /\ c = d
           \/ /\ r.rc = "ok" /\ z = Len(LrBurst) /\ LrExcess(z, d, now) <= LrBurst[z]
              /\ c = Charged(z, d, now)
           \/ /\ r.rc = "again" /\ z # Len(LrBurst) /\ LrExcess(z, d, now) <= LrBurst[z]
              /\ c = [d EXCEPT !.count = d.count + 1]
    BY <1>3, <2>1, LookupFoundFacts
  <2> HIDE DEF d, c
  <2>3. ASSUME r.rc = "busy" /\ c = d
        PROVE  NodeFound(z, d, now, r.rc, c)
    BY <1>1, <2>3 DEF NodeFound
  <2>4. ASSUME r.rc = "ok" /\ z = Len(LrBurst) /\ LrExcess(z, d, now) <= LrBurst[z]
               /\ c = Charged(z, d, now)
        PROVE  NodeFound(z, d, now, r.rc, c)
    <3>1. c.count = d.count /\ c.excess = LrExcess(z, d, now) /\ c \in LrNode
      BY <1>1, <2>4, ChargedFacts
    <3>2. RateSound(z, c)
      BY <1>1, <2>4, ChargedRate
    <3> QED
      BY <2>4, <3>1, <3>2 DEF NodeFound
  <2>5. ASSUME r.rc = "again" /\ z # Len(LrBurst) /\ LrExcess(z, d, now) <= LrBurst[z]
               /\ c = [d EXCEPT !.count = d.count + 1]
        PROVE  NodeFound(z, d, now, r.rc, c)
    <3>1. d.count + 1 \in Int
      BY <1>1 DEF LrNode
    <3>2. /\ c \in LrNode /\ c.count = d.count + 1 /\ c.excess = d.excess /\ c.last = d.last
          /\ c.charged = d.charged /\ c.since = d.since /\ c.back = d.back
      BY <1>1, <2>5, <3>1, LessCounted
    <3>3. RateSound(z, c)
      BY <1>1, <3>2 DEF RateSound
    <3> QED
      BY <2>5, <3>2, <3>3 DEF NodeFound
  <2>6. NodeFound(z, d, now, r.rc, c)
    BY <2>2, <2>3, <2>4, <2>5
  <2> QED
    BY <2>2, <2>6 DEF d, c
<1>4. CASE ~lrz[z].node[k].here
  <2>1. r = LookupNew(z, k, now, z = Len(LrBurst))
    BY <1>4 DEF Found
  <2>2. /\ r.zn \in LrZone /\ ZoneSound(r.zn) /\ d = NoLrNode
        /\ \A j \in LimKeys \ {k} : \/ r.zn.node[j] = lrz[z].node[j]
                                    \/ r.zn.node[j] = NoLrNode /\ lrz[z].node[j].count <= 0
        /\ \/ r.rc = "error" /\ c = NoLrNode
           \/ /\ r.rc = "ok" /\ z = Len(LrBurst)
              /\ c.charged = 1 /\ c.excess = 0 /\ c.count = 0 /\ c.last = c.since
           \/ /\ r.rc = "again" /\ z # Len(LrBurst)
              /\ c.charged = 0 /\ c.excess = 0 /\ c.count = 1
    BY <1>4, <2>1, LookupNewFacts
  <2>3. d.count = 0 /\ c \in LrNode
    BY <1>2, <2>2, NoLrNodeFacts
  <2> HIDE DEF d, c
  <2>4. ASSUME r.rc = "error" /\ c = NoLrNode
        PROVE  NodeFound(z, d, now, r.rc, c)
    BY <1>1, <2>2, <2>4 DEF NodeFound
  <2>5. ASSUME r.rc = "ok" /\ z = Len(LrBurst)
               /\ c.charged = 1 /\ c.excess = 0 /\ c.count = 0 /\ c.last = c.since
        PROVE  NodeFound(z, d, now, r.rc, c)
    <3>1. LrRate[z] * (c.last - c.since) = 0 /\ LrUnit * (c.charged - 1) = 0
      BY <2>3, <2>5, LimFacts DEF LrNode
    <3>2. 0 \div LrUnit = 0
      BY LimFacts
    <3>3. RateSound(z, c)
      BY <2>5, <3>1, <3>2 DEF RateSound
    <3>4. c.excess <= LrBurst[z]
      BY <2>5, LimFacts
    <3> QED
      BY <2>3, <2>5, <3>3, <3>4 DEF NodeFound
  <2>6. ASSUME r.rc = "again" /\ z # Len(LrBurst)
               /\ c.charged = 0 /\ c.excess = 0 /\ c.count = 1
        PROVE  NodeFound(z, d, now, r.rc, c)
    <3>1. RateSound(z, c)
      BY <2>6 DEF RateSound
    <3> QED
      BY <2>3, <2>6, <3>1 DEF NodeFound
  <2>7. NodeFound(z, d, now, r.rc, c)
    BY <2>2, <2>4, <2>5, <2>6
  <2> QED
    BY <2>2, <2>7 DEF d, c
<1> QED
  BY <1>3, <1>4

(* The look-up of a zone that decides: the request is refused, or charged.  *)
Decided(w, z, k, st, zo) ==
  /\ lw[w].st = "lookup" /\ z = lw[w].n /\ k = lw[w].ask.req[z] /\ st \in {"charge", "undo"}
  /\ lrz' = [lrz EXCEPT ![z] = zo]
  /\ lw' = [lw EXCEPT ![w] = SettleFrom(lw[w], st, z - 1)]
  /\ lcz' = lcz /\ lim' = lim

(* What the look-up of a key in a zone leaves of the zone's other nodes.    *)
ZoneFound(z, k, zo) ==
  /\ zo \in LrZone /\ ZoneSound(zo)
  /\ \A j \in LimKeys \ {k} : \/ zo.node[j] = lrz[z].node[j]
                              \/ zo.node[j] = NoLrNode /\ lrz[z].node[j].count <= 0

NodeDecided(z, k, zo) ==
  /\ RateSound(z, zo.node[k])
  /\ \/ zo.node[k] = lrz[z].node[k]
     \/ /\ z = Len(LrBurst) /\ zo.node[k].count = lrz[z].node[k].count
        /\ zo.node[k].excess <= LrBurst[z]

LEMMA StepDecided ==
  ASSUME LimInv, NEW w \in LimWorkers, NEW z, NEW k, NEW st, NEW zo, Decided(w, z, k, st, zo),
         ZoneFound(z, k, zo), NodeDecided(z, k, zo)
  PROVE  LimInv'
<1> DEFINE y == SettleFrom(lw[w], st, z - 1)
<1>1. lw[w] \in LimWorker /\ AtWork(lw[w]) /\ (~lim.misled => Tidy(lw[w])) /\ lim \in LimRecord
  BY WorkerFacts
<1>2. LimTypes /\ WorkersSound /\ RatesSound /\ ConnsKept /\ lw \in [LimWorkers -> LimWorker]
  BY Parts DEF LimTypes
<1>3. /\ lcz' = lcz /\ lim' = lim /\ lw[w].st = "lookup"
      /\ z = lw[w].n /\ k = lw[w].ask.req[z] /\ st \in {"charge", "undo"}
  BY DEF Decided
<1>4. lw' = [lw EXCEPT ![w] = y] /\ lrz' = [lrz EXCEPT ![z] = zo]
  BY DEF Decided
<1>5. /\ z \in LrZones /\ k # NoKey /\ lw[w].conns = <<>>
      /\ \A v \in LrZones : lw[w].node[v] # NoKey => v # Len(LrBurst)
  BY <1>1, <1>3 DEF AtWork
<1>6. k \in LimKeys
  BY <1>1, <1>3, <1>5 DEF LimWorker, LimAsk, LrKeys
<1>7. lrz' \in [LrZones -> LrZone] /\ lrz'[z] = zo /\ \A v \in LrZones \ {z} : lrz'[v] = lrz[v]
  BY <1>2, <1>4, <1>5 DEF LimTypes, ZoneFound
<1>8. /\ Follows(lw[w], y) /\ AtWork(y)
      /\ (\A v \in LrZones : lw[w].node[v] # NoKey => v <= z - 1) => Tidy(y)
  <2> DEFINE x == lw[w]
             n == z - 1
  <2>1. n \in Int /\ y = SettleFrom(x, st, n)
    BY <1>5, LimFacts
  <2> HIDE DEF n, y, x
  <2>2. /\ x \in LimWorker /\ x.conns = <<>>
        /\ \A v \in LrZones : x.node[v] # NoKey => v # Len(LrBurst)
    BY <1>1, <1>5 DEF x
  <2>3. /\ Follows(x, y) /\ AtWork(y)
        /\ (\A v \in LrZones : x.node[v] # NoKey => v <= n) => Tidy(y)
    BY <1>3, <2>1, <2>2, SettleFromFacts
  <2> QED
    BY <2>3 DEF n, x
<1> HIDE DEF y
<1>9. /\ y \in LimWorker /\ y.node = lw[w].node /\ y.conns = <<>>
      /\ y.now = lw[w].now \/ y.st = "idle"
  BY <1>5, <1>8 DEF Follows
<1>10. ~lim.misled => Tidy(y) /\ lw[w].node[z] = NoKey
  <2> SUFFICES ASSUME ~lim.misled PROVE Tidy(y) /\ lw[w].node[z] = NoKey
    OBVIOUS
  <2>1. \A v \in LrZones : lw[w].node[v] # NoKey => v < z
    BY <1>1, <1>3 DEF Tidy
  <2>2. \A v \in LrZones : v \in Int /\ z \in Int
    BY <1>5, LimFacts
  <2>3. \A v \in LrZones : lw[w].node[v] # NoKey => v <= z - 1
    BY <2>1, <2>2
  <2>4. ~(z < z)
    BY <1>5, <2>2
  <2> QED
    BY <1>5, <1>8, <2>1, <2>3, <2>4
<1>11. lw' \in [LimWorkers -> LimWorker] /\ WorkersSoundNext
  BY <1>2, <1>3, <1>4, <1>8, <1>9, <1>10, WorkersAfter
<1>12. LimTypes'
  BY <1>2, <1>3, <1>7, <1>11 DEF LimTypes
<1>13. ~lim'.misled => ~lim.misled /\ (y.now = lw[w].now \/ \A v \in LrZones : y.node[v] = NoKey)
  BY <1>3, <1>9, <1>10 DEF Tidy
<1>14. lw'[w] = y /\ \A v \in LimWorkers \ {w} : lw'[v] = lw[v]
  BY <1>2, <1>4
<1>15. ASSUME NEW j \in LimKeys
       PROVE  /\ Users(z, j)' = Users(z, j)
              /\ ~lim'.misled => /\ ~lim.misled
                                 /\ \A v \in Users(z, j) : v # w /\ lw'[v].now = lw[v].now
  <2>1. Users(z, j)' = Users(z, j) /\ (w \in Users(z, j) <=> lw[w].node[z] = j)
    BY <1>9, <1>14 DEF Users
  <2>2. j # NoKey /\ Users(z, j) \subseteq LimWorkers
    BY LimFacts DEF Users
  <2> QED
    BY <1>3, <1>10, <1>14, <2>1, <2>2
<1>16. ASSUME NEW j \in LimKeys,
              \/ lrz'[z].node[j] = lrz[z].node[j]
              \/ lrz'[z].node[j] = NoLrNode /\ lrz[z].node[j].count <= 0
       PROVE  PairSound(z, j)'
  <2>1. PairSound(z, j) /\ lim'.lost[z][j] = lim.lost[z][j]
    BY <1>2, <1>3, <1>5 DEF RatesSound
  <2>2. Users(z, j)' = Users(z, j)
    BY <1>15
  <2>3. ~lim'.misled => ~lim.misled /\ \A v \in Users(z, j) : lw'[v].now = lw[v].now
    BY <1>15
  <2> QED
    BY <1>2, <1>5, <1>12, <1>16, <2>1, <2>2, <2>3, PairStays
<1>17. PairSound(z, k)'
  <2>1. CASE zo.node[k] = lrz[z].node[k]
    BY <1>6, <1>7, <1>16, <2>1
  <2>2. CASE /\ z = Len(LrBurst) /\ zo.node[k].count = lrz[z].node[k].count
             /\ zo.node[k].excess <= LrBurst[z]
    <3>1. CountSound(z, k) /\ lim'.lost[z][k] = lim.lost[z][k]
      BY <1>2, <1>3, <1>5, <1>6 DEF RatesSound, PairSound
    <3>2. CountSound(z, k)'
      BY <1>6, <1>7, <1>15, <2>2, <3>1 DEF CountSound
    <3>3. RateSound(z, lrz[z].node[k])'
      BY <1>7 DEF NodeDecided, RateSound
    <3>4. BurstSound(z, k)'
      BY <1>7, <2>2 DEF BurstSound
    <3> QED
      BY <3>2, <3>3, <3>4 DEF PairSound
  <2> QED
    BY <2>1, <2>2 DEF NodeDecided
<1>18. RatesSoundNext
  <2>1. \A j \in LimKeys : PairSound(z, j)'
    BY <1>7, <1>16, <1>17 DEF ZoneFound
  <2>2. \A v \in LrZones \ {z} :
          y.node[v] = lw[w].node[v] /\ lrz'[v] = lrz[v] /\ lim'.lost[v] = lim.lost[v]
    BY <1>3, <1>7, <1>9
  <2>3. ZoneSound(lrz'[z])
    BY <1>7 DEF ZoneFound
  <2> QED
    <3>1. LimTypes /\ RatesSound /\ lw' = [lw EXCEPT ![w] = y] /\ z \in LrZones
      BY <1>2, <1>4, <1>5
    <3>2. ASSUME NEW v \in LrZones \ {z} PROVE \A j \in LimKeys : PairSound(v, j)'
      <4>1. y.node[v] = lw[w].node[v] /\ lrz'[v] = lrz[v] /\ lim'.lost[v] = lim.lost[v]
        BY <2>2
      <4>2. ~lim'.misled => ~lim.misled /\ (y.now = lw[w].now \/ y.node[v] = NoKey)
        BY <1>13
      <4> QED
        BY <1>12, <3>1, <4>1, <4>2, PairsStay
    <3>3. \A v \in LrZones : \A j \in LimKeys : PairSound(v, j)'
      BY <2>1, <3>2
    <3>4. \A v \in LrZones : ZoneSound(lrz'[v])
      BY <2>2, <2>3, <3>1 DEF RatesSound
    <3> QED
      BY <3>3, <3>4 DEF RatesSoundNext
<1>19. ConnsKept'
  BY <1>2, <1>3, <1>4, <1>5, <1>9, ConnsStay
<1> QED
  BY <1>11, <1>12, <1>18, <1>19, PartsNext

(* The look-up of a zone that is not the last: the node is kept for later.  *)
Kept(w, z, k, zo) ==
  /\ lw[w].st = "lookup" /\ z = lw[w].n /\ k = lw[w].ask.req[z]
  /\ lrz' = [lrz EXCEPT ![z] = zo]
  /\ lw' = [lw EXCEPT ![w] = LookupFrom(WithNode(lw[w], z, k), z + 1)]
  /\ lcz' = lcz /\ lim' = Overwritten(w, z)

NodeKept(z, k, now, zo) ==
  LET d == lrz[z].node[k]
      c == zo.node[k]
  IN /\ z # Len(LrBurst) /\ RateSound(z, c) /\ c \in LrNode /\ c.count = d.count + 1
     /\ \/ c.excess = d.excess /\ c.last = d.last /\ LrExcess(z, d, now) <= LrBurst[z]
        \/ c.excess = 0 /\ d.count = 0

LEMMA OverwrittenFacts ==
  ASSUME lim \in LimRecord, NEW w, NEW z \in LrZones, NEW l, l = Overwritten(w, z)
  PROVE  /\ l \in LimRecord /\ l.misled = lim.misled /\ l.lostConns = lim.lostConns
         /\ \A v \in LrZones \ {z} : l.lost[v] = lim.lost[v]
         /\ \A k \in LimKeys :
              l.lost[z][k] = lim.lost[z][k] + (IF lw[w].node[z] = k THEN 1 ELSE 0)
<1> DEFINE f == [k \in LimKeys |-> lim.lost[z][k] + (IF lw[w].node[z] = k THEN 1 ELSE 0)]
           g == [lim.lost EXCEPT ![z] = f]
<1>1. lim.lost \in [LrZones -> [LimKeys -> Nat]]
  BY DEF LimRecord
<1>2. f \in [LimKeys -> Nat]
        /\ \A k \in LimKeys : f[k] = lim.lost[z][k] + (IF lw[w].node[z] = k THEN 1 ELSE 0)
  BY <1>1
<1>3. l = [lim EXCEPT !.lost = g]
  BY DEF Overwritten
<1> HIDE DEF f
<1>4. /\ g \in [LrZones -> [LimKeys -> Nat]] /\ g[z] = f
      /\ \A v \in LrZones \ {z} : g[v] = lim.lost[v]
  BY <1>1, <1>2
<1> HIDE DEF g
<1>5. /\ l \in LimRecord /\ l.misled = lim.misled /\ l.lostConns = lim.lostConns /\ l.lost = g
  BY <1>3, <1>4 DEF LimRecord
<1> QED
  BY <1>2, <1>4, <1>5

(* A worker that was not ahead comes to be, when the burst allows it.       *)
LEMMA BurstLooked ==
  ASSUME LimTypes, LimTypes', NEW z \in LrZones, NEW k \in LimKeys, BurstSound(z, k),
         z # Len(LrBurst), NEW w, NEW now \in Nat,
         LrExcess(z, lrz[z].node[k], now) <= LrBurst[z],
         lrz'[z].node[k].excess = lrz[z].node[k].excess,
         lrz'[z].node[k].last = lrz[z].node[k].last,
         ~lim'.misled =>
           /\ ~lim.misled /\ Users(z, k)' = Users(z, k) \cup {w} /\ lw'[w].now = now
           /\ \A v \in Users(z, k) : lw'[v].now = lw[v].now
  PROVE  BurstSound(z, k)'
<1> DEFINE d == lrz[z].node[k]
<1>1. d \in LrNode /\ d.excess \in Nat /\ d.last \in Nat
  BY NodeType DEF LrNode
<1> SUFFICES ASSUME ~lim'.misled, NEW T \in Nat, T >= d.last
             PROVE  Allowed(z, LrUnit * d.excess - LrRate[z] * (T - d.last)
                               + Share * Cardinality(Ahead(z, k, T)'))
  BY DEF BurstSound
<1> DEFINE n == Cardinality(Ahead(z, k, T))
           i == Cardinality(Ahead(z, k, T)')
           t == T - d.last
<1>2. i \in Nat /\ i <= Cardinality(LimWorkers) /\ n \in Nat /\ IsFiniteSet(Ahead(z, k, T))
  <2>1. Ahead(z, k, T)' \subseteq LimWorkers /\ IsFiniteSet(LimWorkers)
    BY LimFacts DEF Ahead, Users
  <2> QED
    BY <2>1, FS_Subset, FS_CardinalityType, UserFacts
<1>3. CASE T >= now
  <2> HIDE DEF d, i
  <2>1. LrExcess(z, d, now) <= LrBurst[z]
    BY DEF d
  <2>2. Allowed(z, LrUnit * d.excess - LrRate[z] * (T - d.last) + Share * i)
    BY <1>1, <1>2, <1>3, <2>1, LookupAllowed
  <2> QED
    BY <2>2 DEF i
<1>4. CASE ~(T >= now)
  <2>1. Ahead(z, k, T)' \subseteq Ahead(z, k, T)
    <3>1. \A v \in Ahead(z, k, T)' : v \in Users(z, k)' /\ lw'[v].now <= T
      BY DEF Ahead
    <3>2. ~(now <= T)
      BY <1>4
    <3> QED
      BY <3>1, <3>2 DEF Ahead
  <2>2. i <= n
    BY <1>2, <2>1, FS_Subset
  <2>3. Allowed(z, LrUnit * d.excess - LrRate[z] * t + Share * n)
    BY DEF BurstSound
  <2>4. t \in Nat
    BY <1>1
  <2> HIDE DEF d, n, i, t
  <2>5. Allowed(z, LrUnit * d.excess - LrRate[z] * t + Share * i)
    BY <1>1, <1>2, <2>2, <2>3, <2>4, FewerAllowed
  <2> QED
    BY <2>5 DEF i, t
<1> QED
  BY <1>3, <1>4

LEMMA StepKept ==
  ASSUME LimInv, NEW w \in LimWorkers, NEW z, NEW k, NEW zo, Kept(w, z, k, zo),
         ZoneFound(z, k, zo), NodeKept(z, k, lw[w].now, zo)
  PROVE  LimInv'
<1> DEFINE d == lrz[z].node[k]
           c == zo.node[k]
           x == WithNode(lw[w], z, k)
           y == LookupFrom(x, z + 1)
<1>1. lw[w] \in LimWorker /\ AtWork(lw[w]) /\ (~lim.misled => Tidy(lw[w])) /\ lim \in LimRecord
  BY WorkerFacts
<1>2. LimTypes /\ WorkersSound /\ RatesSound /\ ConnsKept /\ lw \in [LimWorkers -> LimWorker]
  BY Parts DEF LimTypes
<1>3. lcz' = lcz /\ lw[w].st = "lookup" /\ z = lw[w].n /\ k = lw[w].ask.req[z]
  BY DEF Kept
<1>4. lw' = [lw EXCEPT ![w] = y] /\ lrz' = [lrz EXCEPT ![z] = zo]
  BY DEF Kept
<1>5. /\ z \in LrZones /\ k # NoKey /\ lw[w].conns = <<>>
      /\ \A v \in LrZones : lw[w].node[v] # NoKey => v # Len(LrBurst)
  BY <1>1, <1>3 DEF AtWork
<1>6. k \in LimKeys
  BY <1>1, <1>3, <1>5 DEF LimWorker, LimAsk, LrKeys
<1>7. lrz' \in [LrZones -> LrZone] /\ lrz'[z] = zo /\ \A v \in LrZones \ {z} : lrz'[v] = lrz[v]
  BY <1>2, <1>4, <1>5 DEF LimTypes, ZoneFound
<1>8. /\ x \in LimWorker /\ x.st = "lookup" /\ x.ask = lw[w].ask /\ x.now = lw[w].now
      /\ x.conns = <<>> /\ x.node[z] = k
      /\ \A v \in LrZones \ {z} : x.node[v] = lw[w].node[v]
  <2>1. k \in LimKeys \cup {NoKey}
    BY <1>6
  <2>2. x = WithNode(lw[w], z, k)
    OBVIOUS
  <2> HIDE DEF x
  <2>3. /\ x \in LimWorker /\ x.st = lw[w].st /\ x.ask = lw[w].ask /\ x.now = lw[w].now
        /\ x.conns = lw[w].conns /\ x.node[z] = k
        /\ \A v \in LrZones \ {z} : x.node[v] = lw[w].node[v]
    BY <1>1, <1>5, <2>1, <2>2, WithNodeFacts
  <2> QED
    BY <1>3, <1>5, <2>3
<1> HIDE DEF x
<1>9. \A v \in LrZones : x.node[v] # NoKey => v # Len(LrBurst)
  BY <1>5, <1>8 DEF NodeKept
<1>10. /\ Follows(x, y) /\ AtWork(y)
       /\ (\A v \in LrZones : x.node[v] # NoKey => v < z + 1) => Tidy(y)
  <2> DEFINE n == z + 1
  <2>1. n \in Nat /\ y = LookupFrom(x, n) /\ (\E v \in LrZones : x.ask.req[v] # NoKey)
    BY <1>3, <1>5, <1>8, LimFacts
  <2> HIDE DEF n, y
  <2>2. /\ Follows(x, y) /\ AtWork(y)
        /\ (\A v \in LrZones : x.node[v] # NoKey =>
              v < n /\ \E u \in LrZones : x.ask.req[u] # NoKey) => Tidy(y)
    BY <1>8, <1>9, <2>1, LookupFromFacts
  <2> QED
    BY <2>1, <2>2 DEF n
<1> HIDE DEF y
<1>11. y \in LimWorker /\ y.node = x.node /\ y.conns = <<>> /\ (y.now = lw[w].now \/ y.st = "idle")
  BY <1>8, <1>10 DEF Follows
<1>12. ~lim.misled => Tidy(y) /\ y.now = lw[w].now /\ lw[w].node[z] = NoKey
  <2> SUFFICES ASSUME ~lim.misled PROVE Tidy(y) /\ y.now = lw[w].now /\ lw[w].node[z] = NoKey
    OBVIOUS
  <2>1. \A v \in LrZones : lw[w].node[v] # NoKey => v < z
    BY <1>1, <1>3 DEF Tidy
  <2>2. \A v \in LrZones : v \in Int /\ z \in Int
    BY <1>5, LimFacts
  <2>3. \A v \in LrZones : x.node[v] # NoKey => v < z + 1
    BY <1>8, <2>1, <2>2
  <2>4. Tidy(y)
    BY <1>10, <2>3
  <2>5. y.st # "idle"
    BY <1>5, <1>8, <1>11, <2>4 DEF Tidy
  <2>6. ~(z < z)
    BY <1>5, <2>2
  <2> QED
    BY <1>5, <1>11, <2>1, <2>4, <2>5, <2>6
<1>13. /\ lim' \in LimRecord /\ lim'.misled = lim.misled /\ lim'.lostConns = lim.lostConns
       /\ \A v \in LrZones \ {z} : lim'.lost[v] = lim.lost[v]
       /\ \A j \in LimKeys :
            lim'.lost[z][j] = lim.lost[z][j] + (IF lw[w].node[z] = j THEN 1 ELSE 0)
  <2>1. lim' = Overwritten(w, z)
    BY DEF Kept
  <2> QED
    BY <1>1, <1>5, <2>1, OverwrittenFacts
<1>14. lw' \in [LimWorkers -> LimWorker] /\ WorkersSoundNext
  BY <1>2, <1>4, <1>10, <1>11, <1>12, <1>13, WorkersAfter
<1>15. LimTypes'
  BY <1>2, <1>3, <1>7, <1>13, <1>14 DEF LimTypes, LimRecord
<1>16. lw'[w] = y /\ \A v \in LimWorkers \ {w} : lw'[v] = lw[v]
  BY <1>2, <1>4
<1>17. Users(z, k)' = Users(z, k) \cup {w} /\ (w \in Users(z, k) <=> lw[w].node[z] = k)
  BY <1>8, <1>11, <1>16 DEF Users
<1>18. PairSound(z, k)'
  <2>1. PairSound(z, k) /\ lim.lost[z][k] \in Nat /\ lrz'[z].node[k] = c
    BY <1>1, <1>2, <1>5, <1>6, <1>7 DEF RatesSound, LimRecord
  <2>2. CountSound(z, k)'
    <3> DEFINE a == Cardinality(Users(z, k))
               b == Cardinality(Users(z, k)')
    <3>1. a \in Nat /\ b = a + (IF lw[w].node[z] = k THEN 0 ELSE 1)
      <4>1. CASE lw[w].node[z] = k
        <5>1. Users(z, k)' = Users(z, k)
          BY <1>17, <4>1
        <5> QED
          BY <4>1, <5>1, UserFacts
      <4>2. CASE lw[w].node[z] # k
        BY <1>17, <4>2, UserFacts, OneJoins
      <4> QED
        BY <4>1, <4>2
    <3>2. d.count = a + lim.lost[z][k] /\ c.count = d.count + 1
      BY <2>1 DEF PairSound, CountSound, NodeKept
    <3>3. lim'.lost[z][k] = lim.lost[z][k] + (IF lw[w].node[z] = k THEN 1 ELSE 0)
      BY <1>6, <1>13
    <3> HIDE DEF a, b, c, d
    <3>4. c.count = b + lim'.lost[z][k]
      BY <2>1, <3>1, <3>2, <3>3
    <3> QED
      BY <2>1, <3>4 DEF CountSound, b
  <2>3. RateSound(z, lrz[z].node[k])'
    <3>1. RateSound(z, c)
      BY DEF NodeKept
    <3> QED
      BY <2>1, <3>1 DEF RateSound
  <2>4. BurstSound(z, k)'
    <3>1. CASE c.excess = d.excess /\ c.last = d.last /\ LrExcess(z, d, lw[w].now) <= LrBurst[z]
      <4> DEFINE now == lw[w].now
      <4>1. /\ now \in Nat /\ LrExcess(z, lrz[z].node[k], now) <= LrBurst[z]
            /\ lrz'[z].node[k].excess = lrz[z].node[k].excess
            /\ lrz'[z].node[k].last = lrz[z].node[k].last
        BY <1>1, <2>1, <3>1 DEF LimWorker
      <4>2. z # Len(LrBurst) /\ BurstSound(z, k)
        BY <2>1 DEF NodeKept, PairSound
      <4>3. ~lim'.misled =>
              /\ ~lim.misled /\ Users(z, k)' = Users(z, k) \cup {w} /\ lw'[w].now = now
              /\ \A v \in Users(z, k) : lw'[v].now = lw[v].now
        <5>1. Users(z, k) \subseteq LimWorkers
          BY DEF Users
        <5> QED
          BY <1>12, <1>13, <1>16, <1>17, <5>1
      <4> HIDE DEF now
      <4> QED
        BY <1>2, <1>5, <1>6, <1>15, <4>1, <4>2, <4>3, BurstLooked
    <3>2. CASE c.excess = 0 /\ d.count = 0
      <4>1. Cardinality(Users(z, k)) = 0
        <5>1. d.count = Cardinality(Users(z, k)) + lim.lost[z][k]
          BY <2>1 DEF PairSound, CountSound
        <5>2. Cardinality(Users(z, k)) \in Nat
          BY UserFacts
        <5> QED
          BY <2>1, <3>2, <5>1, <5>2
      <4>2. Users(z, k)' \subseteq {w}
        BY <1>17, <4>1, UserFacts, FS_EmptySet
      <4>3. lrz'[z].node[k].excess = 0
        BY <2>1, <3>2
      <4> QED
        BY <1>5, <1>6, <1>15, <4>2, <4>3, BurstFresh
    <3> QED
      BY <3>1, <3>2 DEF NodeKept
  <2> QED
    BY <2>2, <2>3, <2>4 DEF PairSound
<1>19. ASSUME NEW j \in LimKeys \ {k} PROVE PairSound(z, j)'
  <2>1. PairSound(z, j) /\ lim.lost[z][j] \in Nat
    BY <1>1, <1>2, <1>5 DEF RatesSound, LimRecord
  <2>2. \/ lrz'[z].node[j] = lrz[z].node[j]
        \/ lrz'[z].node[j] = NoLrNode /\ lrz[z].node[j].count <= 0
    BY <1>7 DEF ZoneFound
  <2>3. Users(z, j)' = Users(z, j) \ {w} /\ (w \in Users(z, j) <=> lw[w].node[z] = j)
    BY <1>8, <1>11, <1>16 DEF Users
  <2>4. ~lim'.misled => ~lim.misled /\ \A v \in Users(z, j)' : lw'[v].now = lw[v].now
    BY <1>13, <1>16, <2>3 DEF Users
  <2>5. lim'.lost[z][j] = lim.lost[z][j] + (IF lw[w].node[z] = j THEN 1 ELSE 0)
    BY <1>13
  <2>6. CASE lw[w].node[z] = j
    <3>1. w \in Users(z, j) /\ lim'.lost[z][j] = lim.lost[z][j] + 1
      BY <2>3, <2>5, <2>6
    <3>2. lrz'[z].node[j] = lrz[z].node[j]
      <4>1. Cardinality(Users(z, j)) \in Nat \ {0}
        BY <3>1, UserFacts, FS_EmptySet
      <4>2. lrz[z].node[j].count = Cardinality(Users(z, j)) + lim.lost[z][j]
        BY <2>1 DEF PairSound, CountSound
      <4>3. ~(lrz[z].node[j].count <= 0)
        BY <2>1, <4>1, <4>2
      <4> QED
        BY <2>2, <4>3
    <3> QED
      BY <1>2, <1>5, <1>15, <2>1, <2>3, <2>4, <3>1, <3>2, PairLeft
  <2>7. CASE lw[w].node[z] # j
    <3>1. Users(z, j)' = Users(z, j) /\ lim'.lost[z][j] = lim.lost[z][j]
      BY <2>1, <2>3, <2>5, <2>7
    <3> QED
      BY <1>2, <1>5, <1>15, <2>1, <2>2, <2>4, <3>1, PairStays
  <2> QED
    BY <2>6, <2>7
<1>20. RatesSoundNext
  <2>1. LimTypes /\ RatesSound /\ lw' = [lw EXCEPT ![w] = y]
    BY <1>2, <1>4
  <2>2. ASSUME NEW v \in LrZones \ {z} PROVE \A j \in LimKeys : PairSound(v, j)'
    <3>1. y.node[v] = lw[w].node[v] /\ lrz'[v] = lrz[v] /\ lim'.lost[v] = lim.lost[v]
      BY <1>7, <1>8, <1>11, <1>13
    <3>2. ~lim'.misled => ~lim.misled /\ (y.now = lw[w].now \/ y.node[v] = NoKey)
      BY <1>12, <1>13
    <3> QED
      BY <1>15, <2>1, <3>1, <3>2, PairsStay
  <2>3. \A v \in LrZones : \A j \in LimKeys : PairSound(v, j)'
    BY <1>18, <1>19, <2>2
  <2>4. \A v \in LrZones : ZoneSound(lrz'[v])
    BY <1>7, <2>1 DEF RatesSound, ZoneFound
  <2> QED
    BY <2>3, <2>4 DEF RatesSoundNext
<1>21. ConnsKept'
  BY <1>2, <1>3, <1>4, <1>5, <1>11, <1>13, ConnsStay
<1> QED
  BY <1>14, <1>15, <1>20, <1>21, PartsNext

Looking(w, z, k, now, r) ==
  /\ Lookup(w) /\ z = lw[w].n /\ k = lw[w].ask.req[z] /\ now = lw[w].now
  /\ r = Found(z, k, now)

LEMMA StepLookedUp ==
  ASSUME LimInv, NEW w \in LimWorkers, NEW z, NEW k, NEW now, NEW r, Looking(w, z, k, now, r)
  PROVE  LimInv'
<1> DEFINE st == IF r.rc = "ok" THEN "charge" ELSE "undo"
<1>1. lw[w] \in LimWorker /\ AtWork(lw[w]) /\ LimTypes /\ RatesSound
  BY WorkerFacts, Parts
<1>2. /\ lw[w].st = "lookup" /\ lcz' = lcz
      /\ z = lw[w].n /\ k = lw[w].ask.req[z] /\ now = lw[w].now
  BY DEF Looking, Lookup
<1>3. z \in LrZones /\ k # NoKey
  BY <1>1, <1>2 DEF AtWork
<1>4. k \in LimKeys /\ now \in Nat
  BY <1>1, <1>2, <1>3 DEF LimWorker, LimAsk, LrKeys
<1>5. /\ lrz' = [lrz EXCEPT ![z] = r.zn]
      /\ r.rc = "again" => /\ lw' = [lw EXCEPT ![w] = LookupFrom(WithNode(lw[w], z, k), z + 1)]
                           /\ lim' = Overwritten(w, z)
      /\ r.rc = "ok" =>
           lw' = [lw EXCEPT ![w] = SettleFrom(lw[w], "charge", z - 1)] /\ lim' = lim
      /\ r.rc \notin {"again", "ok"} =>
           lw' = [lw EXCEPT ![w] = SettleFrom(lw[w], "undo", z - 1)] /\ lim' = lim
  BY DEF Looking, Lookup, Found, WithNode
<1>6. /\ r.zn \in LrZone /\ ZoneSound(r.zn)
      /\ \A j \in LimKeys \ {k} : \/ r.zn.node[j] = lrz[z].node[j]
                                  \/ r.zn.node[j] = NoLrNode /\ lrz[z].node[j].count <= 0
      /\ NodeFound(z, lrz[z].node[k], now, r.rc, r.zn.node[k])
  <2>1. r = Found(z, k, now)
    BY DEF Looking
  <2> QED
    BY <1>1, <1>3, <1>4, <2>1, FoundFacts
<1>7. ZoneFound(z, k, r.zn)
  BY <1>6 DEF ZoneFound
<1>8. CASE r.rc = "again"
  <2>1. Kept(w, z, k, r.zn)
    BY <1>2, <1>5, <1>8 DEF Kept
  <2>2. NodeKept(z, k, lw[w].now, r.zn)
    BY <1>2, <1>6, <1>8 DEF NodeFound, NodeKept
  <2> QED
    BY <1>7, <2>1, <2>2, StepKept
<1>9. CASE r.rc # "again"
  <2>1. Decided(w, z, k, st, r.zn)
    BY <1>2, <1>5, <1>9 DEF Decided
  <2>2. NodeDecided(z, k, r.zn)
    BY <1>6, <1>9 DEF NodeFound, NodeDecided
  <2> HIDE DEF st
  <2> QED
    BY <1>7, <2>1, <2>2, StepDecided
<1> QED
  BY <1>8, <1>9

LEMMA StepLookup ==
  ASSUME LimInv, NEW w \in LimWorkers, Lookup(w) PROVE LimInv'
<1>1. PICK z : z = lw[w].n
  OBVIOUS
<1>2. PICK k : k = lw[w].ask.req[z]
  OBVIOUS
<1>3. PICK now : now = lw[w].now
  OBVIOUS
<1>4. PICK r : r = Found(z, k, now)
  OBVIOUS
<1>5. Looking(w, z, k, now, r)
  BY <1>1, <1>2, <1>3, <1>4 DEF Looking
<1> QED
  BY <1>5, StepLookedUp

-----------------------------------------------------------------------------
(* The invariant holds at the start, in every step, and is what is promised. *)
LEMMA StartsInv == ASSUME LimInit PROVE LimInv
<1>1. \A w \in LimWorkers : lw[w] = NewWorker
  BY DEF LimInit
<1>2. lw \in [LimWorkers -> LimWorker] /\ WorkersSound
  BY <1>1, NewWorkerFacts DEF LimInit, WorkersSound
<1>3. \A z \in LrZones : lrz[z] = [node |-> [k \in LimKeys |-> NoLrNode], queue |-> <<>>]
  BY DEF LimInit
<1>4. NoLrNode \in LrNode /\ <<>> \in Seq(LimKeys)
  BY NoLrNodeFacts
<1>5. lrz \in [LrZones -> LrZone]
  BY <1>4 DEF LimInit, LrZone
<1>6. lcz \in [LcZones -> [LimKeys -> Int]] /\ \A z \in LcZones, k \in LimKeys : lcz[z][k] = 0
  BY DEF LimInit
<1>7. /\ lim \in LimRecord
      /\ \A z \in LrZones, k \in LimKeys : lim.lost[z][k] = 0
      /\ \A z \in LcZones, k \in LimKeys : lim.lostConns[z][k] = 0
  BY DEF LimInit, LimRecord
<1>8. LimTypes
  BY <1>2, <1>5, <1>6, <1>7 DEF LimTypes, LimRecord
<1>9. ASSUME NEW z \in LrZones PROVE ZoneSound(lrz[z])
  <2>1. lrz[z].queue = <<>> /\ \A k \in LimKeys : lrz[z].node[k] = NoLrNode
    BY <1>3
  <2>2. {k \in LimKeys : lrz[z].node[k].here} = {}
    BY <2>1, NoLrNodeFacts
  <2> QED
    BY <2>1, <2>2 DEF ZoneSound, IsInjective, ToSet
<1>10. ASSUME NEW z \in LrZones, NEW k \in LimKeys PROVE PairSound(z, k)
  <2>1. lrz[z].node[k] = NoLrNode
    BY <1>3
  <2>2. Users(z, k) = {} /\ \A T : Ahead(z, k, T) = {}
    BY <1>1, NewWorkerFacts, LimFacts DEF Users, Ahead
  <2>3. CountSound(z, k)
    BY <1>7, <2>1, <2>2, NoLrNodeFacts, FS_EmptySet DEF CountSound
  <2>4. RateSound(z, lrz[z].node[k])
    BY <2>1, NoLrNodeFacts DEF RateSound
  <2>5. BurstSound(z, k)
    <3>1. LrBurst[z] \in Nat /\ lrz[z].node[k].excess = 0 /\ lrz[z].node[k].last \in Nat
      BY <2>1, <1>4, NoLrNodeFacts, LimFacts DEF LrNode
    <3>2. ASSUME NEW t \in Nat PROVE Allowed(z, LrUnit * 0 - LrRate[z] * t + Share * 0)
      <4>1. LrUnit * 0 = 0 /\ Share * 0 = 0 /\ LrRate[z] * t \in Nat
        BY LimFacts, BoundTypes, ProductType
      <4>2. Cardinality(LimWorkers) - 1 >= 0
        BY LimFacts
      <4> DEFINE m == LrUnit * 0 - LrRate[z] * t + Share * 0
      <4>3. m \in Int /\ m <= Share * 0
        BY <4>1
      <4> HIDE DEF m
      <4>4. Allowed(z, m)
        BY <4>2, <4>3, FewAllowed
      <4> QED
        BY <4>4 DEF m
    <3>3. Cardinality({}) = 0
      BY FS_EmptySet
    <3> DEFINE d == lrz[z].node[k]
    <3>4. ASSUME NEW T \in Nat, T >= d.last
          PROVE  Allowed(z, LrUnit * d.excess - LrRate[z] * (T - d.last)
                            + Share * Cardinality(Ahead(z, k, T)))
      <4> DEFINE t == T - d.last
      <4>1. t \in Nat
        BY <3>1, <3>4
      <4>2. d.excess = 0 /\ Cardinality(Ahead(z, k, T)) = 0
        BY <2>2, <3>1, <3>3
      <4> HIDE DEF t, d
      <4>3. Allowed(z, LrUnit * 0 - LrRate[z] * t + Share * 0)
        BY <3>2, <4>1
      <4> QED
        BY <4>2, <4>3 DEF t
    <3>5. z = Len(LrBurst) => d.excess <= LrBurst[z]
      BY <3>1
    <3> HIDE DEF d
    <3> QED
      BY <3>4, <3>5 DEF BurstSound, d
  <2> QED
    BY <2>3, <2>4, <2>5 DEF PairSound
<1>11. ASSUME NEW z \in LcZones, NEW k \in LimKeys PROVE ConnSound(z, k)
  <2>1. Holders(z, k) = {}
    BY <1>1, NewWorkerFacts DEF Holders, ToSet
  <2> DEFINE S == {1, LcMax[z]}
  <2>2. S \in SUBSET Int /\ IsFiniteSet(S) /\ 1 \in S
    <3>1. LcMax[z] \in Nat
      BY LimFacts
    <3>2. IsFiniteSet({1}) /\ IsFiniteSet({1} \cup {LcMax[z]}) /\ S = {1} \cup {LcMax[z]}
      BY FS_Singleton, FS_AddElement
    <3> QED
      BY <3>1, <3>2
  <2> HIDE DEF S
  <2>3. Max(S) >= 1 /\ Max(S) \in Int
    BY <2>2, MaxFacts
  <2>4. 0 <= Max({1, LcMax[z]})
    BY <2>3 DEF S
  <2> QED
    BY <1>6, <1>7, <2>1, <2>4, FS_EmptySet DEF ConnSound
<1>12. RatesSound /\ ConnsKept
  BY <1>9, <1>10, <1>11, ConnsAreSound DEF RatesSound
<1> QED
  BY <1>2, <1>8, <1>12, Parts

LEMMA StaysInv == ASSUME LimInv, [LimNext]_limVars PROVE LimInv'
<1>1. CASE UNCHANGED limVars
  <2>1. PICK w \in LimWorkers : TRUE
    BY LimAssumption DEF LimAssumption
  <2>2. lw[w] \in LimWorker /\ AtWork(lw[w]) /\ (~lim.misled => Tidy(lw[w])) /\ lim \in LimRecord
    BY WorkerFacts
  <2>3. lrz' = lrz /\ lcz' = lcz /\ lim' = lim /\ lw' = [lw EXCEPT ![w] = lw[w]]
    BY <1>1 DEF limVars, LimInv, LimTypes
  <2> QED
    BY <2>2, <2>3, Moves
<1>2. CASE LimTick
  BY <1>2, StepLimTick
<1>3. ASSUME NEW w \in LimWorkers, NEW ask \in LimAsks, Preaccess(w, ask) PROVE LimInv'
  BY <1>3, StepPreaccess
<1>4. ASSUME NEW w \in LimWorkers, Lookup(w) PROVE LimInv'
  BY <1>4, StepLookup
<1>5. ASSUME NEW w \in LimWorkers, LookupFails(w) PROVE LimInv'
  BY <1>5, StepLookupFails
<1>6. ASSUME NEW w \in LimWorkers, Settle(w) PROVE LimInv'
  BY <1>6, StepSettle
<1>7. ASSUME NEW w \in LimWorkers, Connect(w) PROVE LimInv'
  BY <1>7, StepConnect
<1>8. ASSUME NEW w \in LimWorkers, ConnectFails(w) PROVE LimInv'
  BY <1>8, StepConnectFails
<1>9. ASSUME NEW w \in LimWorkers, RequestOver(w) PROVE LimInv'
  BY <1>9, StepRequestOver
<1>10. ASSUME NEW w \in LimWorkers, ngx_http_limit_conn_cleanup(w) PROVE LimInv'
  BY <1>10, StepCleanup
<1>11. ASSUME NEW w \in LimWorkers, LimWorkerDies(w) PROVE LimInv'
  BY <1>11, StepWorkerDies
<1> QED
  BY <1>1, <1>2, <1>3, <1>4, <1>5, <1>6, <1>7, <1>8, <1>9, <1>10, <1>11 DEF LimNext

LEMMA InvPromises == ASSUME LimInv PROVE LimitsKept
<1>1. LimTypes /\ RatesSound /\ ConnsKept
  BY Parts
<1>2. LrNodesCounted
  <2> SUFFICES ASSUME NEW z \in LrZones
               PROVE  /\ IsInjective(lrz[z].queue)
                      /\ ToSet(lrz[z].queue) = {k \in LimKeys : lrz[z].node[k].here}
                      /\ \A k \in LimKeys :
                           LET users == Cardinality(Users(z, k)) + lim.lost[z][k]
                           IN /\ lrz[z].node[k].count = users
                              /\ users > 0 => lrz[z].node[k].here
    BY DEF LrNodesCounted, Users
  <2>1. ZoneSound(lrz[z])
    BY <1>1 DEF RatesSound
  <2>2. ASSUME NEW k \in LimKeys
        PROVE  /\ lrz[z].node[k].count = Cardinality(Users(z, k)) + lim.lost[z][k]
               /\ Cardinality(Users(z, k)) + lim.lost[z][k] > 0 => lrz[z].node[k].here
    <3>1. lrz[z].node[k].count = Cardinality(Users(z, k)) + lim.lost[z][k]
      BY <1>1 DEF RatesSound, PairSound, CountSound
    <3>2. ~lrz[z].node[k].here => lrz[z].node[k].count = 0
      BY <2>1, NoLrNodeFacts DEF ZoneSound
    <3> QED
      BY <3>1, <3>2
  <2> QED
    BY <2>1, <2>2 DEF ZoneSound
<1>3. RateKept
  BY <1>1 DEF RatesSound, PairSound, RateSound, RateKept
<1>4. BurstKept
  <2> SUFFICES ASSUME NEW z \in LrZones, NEW k \in LimKeys
               PROVE  IF z = Len(LrBurst) THEN lrz[z].node[k].excess <= LrBurst[z]
                      ELSE ~lim.misled =>
                             lrz[z].node[k].excess <=
                               Max({LrUnit, LrBurst[z] + LrRate[z] \div LrUnit
                                            + (LrUnit + 1) * (Cardinality(LimWorkers) - 1)})
    BY DEF BurstKept
  <2> DEFINE d == lrz[z].node[k]
             e == d.excess
             n == Cardinality(Ahead(z, k, d.last))
             t == d.last - d.last
             m == LrUnit * e - LrRate[z] * t + Share * n
  <2>1. BurstSound(z, k)
    BY <1>1 DEF RatesSound, PairSound
  <2>2. d.last \in Nat /\ e \in Nat
    BY <1>1, NodeType DEF LrNode
  <2>3. CASE z = Len(LrBurst)
    BY <2>1, <2>3 DEF BurstSound
  <2>4. ASSUME z # Len(LrBurst), ~lim.misled
        PROVE  e <= Max({LrUnit, LrBurst[z] + LrRate[z] \div LrUnit
                                 + (LrUnit + 1) * (Cardinality(LimWorkers) - 1)})
    <3>1. Allowed(z, m)
      <4>1. \A T \in Nat : T >= d.last =>
              Allowed(z, LrUnit * d.excess - LrRate[z] * (T - d.last)
                         + Share * Cardinality(Ahead(z, k, T)))
        BY <2>1, <2>4 DEF BurstSound
      <4>2. d.last >= d.last
        BY <2>2
      <4> HIDE DEF m, d
      <4>3. m = LrUnit * d.excess - LrRate[z] * (d.last - d.last)
                + Share * Cardinality(Ahead(z, k, d.last))
        BY DEF m
      <4> QED
        BY <2>2, <4>1, <4>2, <4>3
    <3>2. n \in Nat /\ t = 0
      <4>1. \A T : Cardinality(Ahead(z, k, T)) \in Nat
        BY UserFacts
      <4>2. t = 0
        BY <2>2
      <4> HIDE DEF t, d
      <4> QED
        BY <4>1, <4>2
    <3> HIDE DEF d, e, n, t
    <3>3. LrUnit * e \in Nat /\ LrRate[z] * t = 0 /\ Share * n \in Nat
      BY <2>2, <3>2, LimFacts, BoundTypes, ProductType
    <3>4. m \in Int /\ LrUnit * e <= m
      BY <3>3
    <3> HIDE DEF m
    <3> QED
      BY <2>2, <3>1, <3>4, AllowedWithin
  <2> QED
    BY <2>3, <2>4
<1> QED
  BY <1>1, <1>2, <1>3, <1>4 DEF LimitsKept

(* Nodes are counted by those who use them, what is let through keeps to    *)
(* the rate and to the burst, and the connections to their number, whatever *)
(* the workers' clocks and failures: ngx_http_limit_req_lookup,             *)
(* ngx_http_limit_req_account and ngx_http_limit_conn_handler.              *)
THEOREM LimitsAreKept == LimSpec => []LimitsKept
<1>1. LimInit => LimInv
  BY StartsInv
<1>2. LimInv /\ [LimNext]_limVars => LimInv'
  BY StaysInv
<1>3. LimInv => LimitsKept
  BY InvPromises
<1> QED
  BY <1>1, <1>2, <1>3, PTL DEF LimSpec
=============================================================================
