--------------------------- MODULE Citations_proofs ---------------------------
(* What is kept by the chain of providers, for any providers, keys, breakers  *)
(* and lifetimes, by the citation graph built from what they answer, for any  *)
(* texts, runs and works, and by the walk that grows the corpus along the     *)
(* lists they answer, for any worlds, depth and cap.  The three share no      *)
(* state: one part for each.                                                  *)
EXTENDS ProviderChain, Citations, CorpusWalk, SequenceTheorems, FiniteSetTheorems, WellFoundedInduction, TLAPS

LEMMA HasLeast ==
  ASSUME NEW S \in SUBSET Nat, S # {}
  PROVE  \E i \in S : \A j \in S : i <= j
<1> DEFINE Less == {p \in Nat \X Nat : p[1] < p[2]}
<1>1. IsWellFoundedOn(Less, Nat)
  BY NatLessThanWellFounded DEF OpToRel
<1>2. \E i \in S : \A j \in S : <<j, i>> \notin Less
  <2> HIDE DEF Less
  <2> QED BY <1>1, WFMin, Zenon
<1>3. \A i, j \in Nat : <<j, i>> \notin Less => i <= j
  OBVIOUS
<1> QED BY <1>2, <1>3

-----------------------------------------------------------------------------
(* I. The chain of providers. *)

LEMMA LaterQuotient ==
  ASSUME NEW a \in Int, NEW b \in Int, NEW d \in Nat \ {0}, a <= b
  PROVE  a \div d <= b \div d
BY SMT

LEMMA NextQuotient ==
  ASSUME NEW a \in Int, NEW b \in Int, NEW d \in Nat \ {0}, a + d <= b
  PROVE  a \div d + 1 <= b \div d
BY SMT

LEMMA SetOnce ==
  ASSUME NEW A, NEW B, NEW f \in [A -> [B -> Int]], NEW g, NEW p \in A, NEW k \in B, NEW n \in Int,
         g = [f EXCEPT ![p][k] = n]
  PROVE  /\ g \in [A -> [B -> Int]] /\ g[p][k] = n
         /\ \A q \in A, j \in B : g[q][j] = f[q][j] \/ g[q][j] = n
OBVIOUS

-----------------------------------------------------------------------------
(* The inductive invariant. *)

ChainTypeOK ==
  /\ now \in Nat
  /\ rows \in [Providers -> [Keys -> [found : BOOLEAN, at : Int]]]
  /\ hushed \in [Providers -> [Keys -> Int]]
  /\ \A p \in Providers, k \in Keys : hushed[p][k] <= now
  /\ breaker \in [Chains -> [Providers -> [fails : Nat, opened : Int]]]
  /\ DOMAIN lookup = Chains /\ DOMAIN answered = Chains

\* A breaker that was tripped counts its probes: one for each cool-down since.
BreakerOK(b) ==
  /\ b.opened <= now
  /\ b.fails >= FailMax => b.fails <= FailMax + b.opened \div CoolDown
BreakersOK == \A c \in Chains, p \in Providers : BreakerOK(breaker[c][p])

\* An empty row of a provider that knows the work was hushed when it was written.
RowOK(p, k) ==
  ~rows[p][k].found /\ rows[p][k].at >= 0 /\ k \in knows[p] =>
    CachesEmpty(k) /\ rows[p][k].at <= hushed[p][k]
RowsOK == \A p \in Providers, k \in Keys : RowOK(p, k)

\* Why a provider that knows the work is not among those that answered.
Explained(p, k, met, got, began) ==
  \/ p \in met \cup got
  \/ CachesEmpty(k) /\ began - hushed[p][k] < Lifetime

\* A lookup has an explanation for each provider before i.
ExplainedUpTo(l, i) ==
  /\ Gathers(l.key) \/ l.got = {}
  /\ \A x \in 1..(i - 1) : Order[x] \in Knowers(l.key) =>
       Explained(Order[x], l.key, l.met, l.got, l.began)

Lookup == [key : Keys, at : 0..Len(Order), failed : BOOLEAN, began : Nat,
           met : SUBSET Providers, got : SUBSET Providers]

LookOK(c) ==
  lookup[c] # Idle =>
    /\ lookup[c] \in Lookup /\ lookup[c].at # 0 /\ lookup[c].began <= now
    /\ ~IsOpen(breaker[c][Called(c)])
    /\ ExplainedUpTo(lookup[c], lookup[c].at)

AnswerOK(c) ==
  answered[c].kind = "returned" =>
    /\ answered[c].key \in Keys /\ answered[c].began \in Nat
    /\ Gathers(answered[c].key) \/ answered[c].got = {}
    /\ \A p \in Knowers(answered[c].key) :
         Explained(p, answered[c].key, answered[c].met, answered[c].got, answered[c].began)

ChainsOK == \A c \in Chains : LookOK(c) /\ AnswerOK(c)

ChainInv == ChainTypeOK /\ BreakersOK /\ RowsOK /\ ChainsOK

-----------------------------------------------------------------------------
LEMMA ProviderAt == \A i \in 1..Len(Order) : Order[i] \in Providers
BY DEF Providers

LEMMA OrderLen == Len(Order) \in Nat /\ DOMAIN Order = 1..Len(Order)
BY OrderAssumption

LEMMA KnowersAreProviders == \A k : Knowers(k) \subseteq Providers
BY DEF Knowers

\* A failed probe comes a cool-down after the failure before it.
LEMMA FailureKeepsBreaker ==
  ASSUME ChainTypeOK, NEW b \in [fails : Nat, opened : Int], BreakerOK(b), ~IsOpen(b)
  PROVE  RecordFailure(b) \in [fails : Nat, opened : Int] /\ BreakerOK(RecordFailure(b))
<1>1. now \in Nat /\ b.opened \in Int /\ b.fails \in Nat /\ CoolDown \in Nat \ {0} /\ FailMax \in Nat \ {0}
  BY ChainAssumption DEF ChainTypeOK
<1>2. now - b.opened >= CoolDown
  BY <1>1 DEF IsOpen
<1>3. b.opened + CoolDown <= now
  BY <1>1, <1>2
<1>4. b.opened \div CoolDown + 1 <= now \div CoolDown
  BY <1>1, <1>3, NextQuotient
<1>5. 0 <= now \div CoolDown
  BY <1>1
<1>6. now \div CoolDown \in Int /\ b.opened \div CoolDown \in Int
  BY <1>1
<1> DEFINE f == [fails |-> b.fails + 1, opened |-> IF b.fails + 1 >= FailMax THEN now ELSE b.opened]
<1>7. RecordFailure(b) = f
  BY DEF RecordFailure, Failed
<1>8. f \in [fails : Nat, opened : Int] /\ f.opened <= now
  BY <1>1 DEF BreakerOK
<1>9. ASSUME f.fails >= FailMax PROVE f.fails <= FailMax + f.opened \div CoolDown
  <2>1. f.fails = b.fails + 1 /\ f.opened = now
    BY <1>9, <1>1
  <2>2. CASE b.fails >= FailMax
    <3>1. b.fails <= FailMax + b.opened \div CoolDown
      BY <2>2 DEF BreakerOK
    <3> HIDE DEF f
    <3>2. DEFINE m == b.opened \div CoolDown
                 n == now \div CoolDown
    <3>3. m \in Int /\ n \in Int /\ m + 1 <= n /\ b.fails <= FailMax + m
      BY <3>1, <1>4, <1>6
    <3>4. f.fails <= FailMax + n
      <4> HIDE DEF m, n
      <4> QED BY <3>3, <2>1, <1>1
    <3> QED BY <3>4, <2>1
  <2>3. CASE ~(b.fails >= FailMax)
    <3>1. b.fails + 1 <= FailMax
      BY <2>3, <1>1
    <3> HIDE DEF f
    <3> QED BY <3>1, <2>1, <1>1, <1>5, <1>6
  <2> QED BY <2>2, <2>3
<1> QED
  <2> HIDE DEF f
  <2> QED BY <1>7, <1>8, <1>9 DEF BreakerOK

LEMMA SpacedNow == ChainInv => FailuresAreSpaced
<1> SUFFICES ASSUME ChainInv, NEW c \in Chains, NEW p \in Providers
             PROVE  breaker[c][p].fails <= FailMax + now \div CoolDown
  BY DEF FailuresAreSpaced
<1> DEFINE b == breaker[c][p]
<1>1. b \in [fails : Nat, opened : Int] /\ BreakerOK(b) /\ now \in Nat
  BY DEF ChainInv, ChainTypeOK, BreakersOK
<1>2. b.opened \in Int /\ b.fails \in Nat /\ b.opened <= now /\ CoolDown \in Nat \ {0} /\ FailMax \in Nat
  BY <1>1, ChainAssumption DEF BreakerOK
<1>3. b.opened \div CoolDown <= now \div CoolDown
  BY <1>1, <1>2, LaterQuotient
<1>4. 0 <= now \div CoolDown
  BY <1>1, <1>2
<1>5. now \div CoolDown \in Int /\ b.opened \div CoolDown \in Int
  BY <1>1, <1>2
<1>6. b.fails >= FailMax => b.fails <= FailMax + b.opened \div CoolDown
  BY <1>1 DEF BreakerOK
<1> DEFINE m == b.opened \div CoolDown
           n == now \div CoolDown
<1>7. /\ m \in Int /\ n \in Int /\ m <= n /\ 0 <= n
      /\ b.fails >= FailMax => b.fails <= FailMax + m
  BY <1>3, <1>4, <1>5, <1>6
<1>8. b.fails <= FailMax + n
  <2> HIDE DEF m, n, b
  <2> QED BY <1>7, <1>2
<1> QED BY <1>8

LEMMA ReasonsNow == ChainInv => MissesHaveReasons
<1> SUFFICES ASSUME ChainInv PROVE BatchMissIsItsOwn /\ MissIsRecent
  BY SpacedNow DEF MissesHaveReasons
<1>1. BatchMissIsItsOwn
  BY DEF ChainInv, ChainsOK, AnswerOK, BatchMissIsItsOwn, Explained, CachesEmpty, Gathers
<1>2. MissIsRecent
  BY DEF ChainInv, ChainsOK, AnswerOK, MissIsRecent, Explained
<1> QED BY <1>1, <1>2

-----------------------------------------------------------------------------
(* A lookup goes on. *)

\* What it may leave behind: a wait on a provider, or an answer.
Waits(c, on, i) ==
  /\ lookup' = [lookup EXCEPT ![c] = on]
  /\ answered' = [answered EXCEPT ![c] = Nothing]
  /\ on \in Lookup /\ on.at # 0 /\ i <= on.at /\ on.began <= now
  /\ ~IsOpen(breaker[c][Order[on.at]])
  /\ ExplainedUpTo(on, on.at)

Ends(c, a) ==
  /\ lookup' = [lookup EXCEPT ![c] = Idle]
  /\ answered' = [answered EXCEPT ![c] = a]
  /\ a.kind = "returned" =>
       /\ a.key \in Keys /\ a.began \in Nat
       /\ Gathers(a.key) \/ a.got = {}
       /\ \A p \in Knowers(a.key) : Explained(p, a.key, a.met, a.got, a.began)

\* A provider that is passed over has been explained.
LEMMA PassedIsExplained ==
  ASSUME ChainTypeOK, RowsOK, NEW c \in Chains, NEW k \in Keys, NEW x \in 1..Len(Order),
         Passed(c, k, x), Order[x] \in Knowers(k), NEW began \in Nat, began <= now,
         NEW met, NEW got, Shut(c, k, x) => Order[x] \in met, Hit(c, k, x) => Order[x] \in got
  PROVE  Explained(Order[x], k, met, got, began)
<1> DEFINE p == Order[x]
<1>1. p \in Providers /\ k \in knows[p] /\ k \in Verbs[p]
  BY ProviderAt DEF Knowers
<1>2. CASE Shut(c, k, x)
  BY <1>2 DEF Explained
<1>3. CASE Rowed(c, k, x) /\ Hit(c, k, x)
  BY <1>3 DEF Explained
<1>4. CASE Rowed(c, k, x) /\ ~Hit(c, k, x)
  <2>1. ~rows[p][k].found /\ rows[p][k].at >= 0 /\ now - rows[p][k].at < Lifetime
    BY <1>4 DEF Rowed, Hit, Fresh
  <2>2. RowOK(p, k)
    BY <1>1 DEF RowsOK
  <2>3. CachesEmpty(k) /\ rows[p][k].at <= hushed[p][k]
    BY <2>1, <2>2, <1>1 DEF RowOK
  <2>4. rows[p][k].at \in Int /\ hushed[p][k] \in Int /\ now \in Nat
    BY <1>1 DEF ChainTypeOK
  <2>5. began - hushed[p][k] < Lifetime
    BY <2>1, <2>3, <2>4, ChainAssumption
  <2> QED BY <2>3, <2>5 DEF Explained
<1> QED BY <1>1, <1>2, <1>3, <1>4 DEF Passed

LEMMA OnwardExplains ==
  ASSUME ChainTypeOK, RowsOK, NEW c \in Chains, NEW l \in Lookup, NEW i \in 1..(Len(Order) + 1),
         l.began <= now, ExplainedUpTo(l, i), Onward(c, l, i)
  PROVE  \/ \E on : Waits(c, on, i)
         \/ \E a : Ends(c, a)
<1> DEFINE k == l.key
           stops == {j \in i..Len(Order) : ~Passed(c, k, j)}
           j == IF stops = {} THEN Len(Order) + 1 ELSE CHOOSE x \in stops : \A y \in stops : x <= y
           over == i..(j - 1)
           on == [l EXCEPT !.at = j,
                        !.met = @ \cup {Order[x] : x \in {y \in over : Shut(c, k, y)}},
                        !.got = @ \cup {Order[x] : x \in {y \in over : Hit(c, k, y)}}]
           raises == l.failed /\ ~Gathers(k) /\ \A p \in Providers : IsOpen(breaker'[c][p])
<1> k \in Keys /\ l.began \in Nat /\ l.met \in SUBSET Providers /\ l.got \in SUBSET Providers /\ l.failed \in BOOLEAN
  BY DEF Lookup
<1> Len(Order) \in Nat /\ i \in Nat /\ i >= 1 /\ i <= Len(Order) + 1
  BY OrderLen
<1>1. /\ j \in i..(Len(Order) + 1)
      /\ \A y \in i..(j - 1) : Passed(c, k, y)
      /\ j <= Len(Order) => ~Passed(c, k, j)
  <2>1. CASE stops = {}
    <3>1. j = Len(Order) + 1
      BY <2>1
    <3> HIDE DEF j
    <3> QED BY <2>1, <3>1
  <2>2. CASE stops # {}
    <3>1. \E x \in stops : \A y \in stops : x <= y
      <4>1. stops \in SUBSET Nat
        OBVIOUS
      <4> HIDE DEF stops
      <4> QED BY <4>1, <2>2, HasLeast
    <3>2. j = CHOOSE x \in stops : \A y \in stops : x <= y
      BY <2>2
    <3>3. j \in stops /\ \A y \in stops : j <= y
      <4> HIDE DEF stops, j
      <4> QED BY <3>1, <3>2
    <3> HIDE DEF j
    <3> QED BY <3>3
  <2> QED BY <2>1, <2>2
<1>2. \/ j > Len(Order) /\ Finish(c, on, IF raises THEN "raised" ELSE "returned", on.got)
      \/ j <= Len(Order) /\ Hit(c, k, j) /\ Finish(c, on, "found", {Order[j]})
      \/ /\ j <= Len(Order) /\ ~Hit(c, k, j)
         /\ lookup' = [lookup EXCEPT ![c] = on]
         /\ answered' = [answered EXCEPT ![c] = Nothing]
  BY Zenon DEF Onward
<1> HIDE DEF j
<1>3. /\ on.key = k /\ on.at = j /\ on.began = l.began /\ on.failed = l.failed
      /\ on.met = l.met \cup {Order[x] : x \in {y \in over : Shut(c, k, y)}}
      /\ on.got = l.got \cup {Order[x] : x \in {y \in over : Hit(c, k, y)}}
      /\ on = [key |-> on.key, at |-> on.at, failed |-> on.failed, began |-> on.began, met |-> on.met, got |-> on.got]
  <2> DEFINE met2 == l.met \cup {Order[x] : x \in {y \in over : Shut(c, k, y)}}
             got2 == l.got \cup {Order[x] : x \in {y \in over : Hit(c, k, y)}}
  <2>1. on = [l EXCEPT !.at = j, !.met = met2, !.got = got2]
    OBVIOUS
  <2>2. l = [key |-> l.key, at |-> l.at, failed |-> l.failed, began |-> l.began, met |-> l.met, got |-> l.got]
    BY DEF Lookup
  <2>3. on.key = k /\ on.at = j /\ on.began = l.began /\ on.failed = l.failed /\ on.met = met2 /\ on.got = got2
        /\ on = [key |-> on.key, at |-> on.at, failed |-> on.failed, began |-> on.began, met |-> on.met, got |-> on.got]
    <3> HIDE DEF on, met2, got2
    <3> QED BY <2>1, <2>2
  <2> QED BY <2>3
<1>4. on.met \in SUBSET Providers /\ on.got \in SUBSET Providers
  <2>1. \A y \in over : Order[y] \in Providers
    BY <1>1, ProviderAt
  <2> QED BY <2>1, <1>3
<1> HIDE DEF on
<1>5. ExplainedUpTo(on, j)
  <2>1. Gathers(k) \/ on.got = {}
    <3>1. CASE Gathers(k)
      BY <3>1
    <3>2. CASE ~Gathers(k)
      <4>1. \A y \in over : ~Hit(c, k, y)
        BY <1>1, <3>2 DEF Passed, Hit, Rowed
      <4>2. l.got = {}
        BY <3>2 DEF ExplainedUpTo
      <4> QED BY <4>1, <4>2, <1>3
    <3> QED BY <3>1, <3>2
  <2>2. ASSUME NEW x \in 1..(j - 1), Order[x] \in Knowers(k)
        PROVE  Explained(Order[x], k, on.met, on.got, l.began)
    <3>1. CASE x \in 1..(i - 1)
      <4>1. Explained(Order[x], k, l.met, l.got, l.began)
        BY <3>1, <2>2 DEF ExplainedUpTo
      <4>2. l.met \subseteq on.met /\ l.got \subseteq on.got
        BY <1>3
      <4> QED BY <4>1, <4>2 DEF Explained
    <3>2. CASE x \in over
      <4>1. x \in 1..Len(Order) /\ Passed(c, k, x)
        BY <3>2, <1>1
      <4>2. (Shut(c, k, x) => Order[x] \in on.met) /\ (Hit(c, k, x) => Order[x] \in on.got)
        BY <3>2, <1>3
      <4> QED BY <4>1, <4>2, <2>2, PassedIsExplained
    <3>3. x \in 1..(i - 1) \/ x \in over
      BY <1>1
    <3> QED BY <3>1, <3>2, <3>3
  <2> QED BY <2>1, <2>2, <1>3 DEF ExplainedUpTo
<1>6. CASE j > Len(Order) /\ Finish(c, on, IF raises THEN "raised" ELSE "returned", on.got)
  <2> DEFINE a == [key |-> on.key, kind |-> IF raises THEN "raised" ELSE "returned",
                   got |-> on.got, met |-> on.met, began |-> on.began]
  <2>1. lookup' = [lookup EXCEPT ![c] = Idle] /\ answered' = [answered EXCEPT ![c] = a]
    BY <1>6, Zenon DEF Finish
  <2>2. \A p \in Knowers(k) : Explained(p, k, on.met, on.got, on.began)
    <3> SUFFICES ASSUME NEW p \in Knowers(k) PROVE Explained(p, k, on.met, on.got, on.began)
      OBVIOUS
    <3>1. PICK x \in 1..Len(Order) : Order[x] = p
      BY DEF Knowers, Providers
    <3>2. x \in 1..(j - 1)
      BY <1>6, <1>1, <3>1
    <3> QED BY <3>1, <3>2, <1>5, <1>3 DEF ExplainedUpTo
  <2>3. Gathers(k) \/ on.got = {}
    BY <1>5, <1>3 DEF ExplainedUpTo
  <2>4. a.key = k /\ a.got = on.got /\ a.met = on.met /\ a.began = on.began /\ on.began \in Nat
    BY <1>3
  <2> HIDE DEF a
  <2>5. Ends(c, a)
    BY <2>1, <2>2, <2>3, <2>4 DEF Ends
  <2> QED BY <2>5
<1>7. CASE j <= Len(Order) /\ Hit(c, k, j) /\ Finish(c, on, "found", {Order[j]})
  <2> DEFINE a == [key |-> on.key, kind |-> "found", got |-> {Order[j]}, met |-> on.met, began |-> on.began]
  <2>1. lookup' = [lookup EXCEPT ![c] = Idle] /\ answered' = [answered EXCEPT ![c] = a]
    BY <1>7, Zenon DEF Finish
  <2>2. a.kind # "returned"
    OBVIOUS
  <2> HIDE DEF a
  <2>3. Ends(c, a)
    BY <2>1, <2>2 DEF Ends
  <2> QED BY <2>3
<1>8. CASE /\ j <= Len(Order) /\ ~Hit(c, k, j)
           /\ lookup' = [lookup EXCEPT ![c] = on]
           /\ answered' = [answered EXCEPT ![c] = Nothing]
  <2>1. ~IsOpen(breaker[c][Order[j]])
    BY <1>1, <1>8 DEF Passed, Shut
  <2>2. on \in Lookup
    BY <1>3, <1>4, <1>1, <1>8 DEF Lookup
  <2>3. Waits(c, on, i)
    BY <2>1, <2>2, <1>3, <1>1, <1>5, <1>8 DEF Waits
  <2> QED BY <2>3
<1> QED BY <1>2, <1>6, <1>7, <1>8

-----------------------------------------------------------------------------
(* Every step keeps the invariant. *)

HushedGrows ==
  /\ hushed' \in [Providers -> [Keys -> Int]]
  /\ \A p \in Providers, k \in Keys : hushed[p][k] <= hushed'[p][k]

\* Empty answers given since only add reasons.
LEMMA StaysExplained ==
  ASSUME ChainTypeOK, HushedGrows, NEW k \in Keys, NEW p \in Providers, NEW met, NEW got, NEW began \in Nat,
         Explained(p, k, met, got, began)
  PROVE  p \in met \cup got \/ (CachesEmpty(k) /\ began - hushed'[p][k] < Lifetime)
<1>1. hushed[p][k] \in Int /\ hushed'[p][k] \in Int /\ hushed[p][k] <= hushed'[p][k]
  BY DEF ChainTypeOK, HushedGrows
<1> QED BY <1>1, ChainAssumption DEF Explained

\* A lookup that is waiting has its explanations after the step.
LEMMA WaitKept ==
  ASSUME ChainTypeOK, HushedGrows, knows' = knows, now' \in Nat, now <= now', NEW d \in Chains, NEW on \in Lookup,
         lookup'[d] = on, on.at # 0, on.began <= now, ExplainedUpTo(on, on.at),
         ~IsOpen(breaker[d][Order[on.at]]), breaker'[d][Order[on.at]] = breaker[d][Order[on.at]]
  PROVE  LookOK(d)'
<1>0. on.at \in 1..Len(Order) /\ on.key \in Keys /\ on.began \in Nat /\ now \in Nat
  BY OrderLen DEF Lookup, ChainTypeOK
<1>1. Order[on.at] \in Providers
  BY <1>0, ProviderAt
<1>2. breaker[d][Order[on.at]].opened \in Int
  BY <1>1 DEF ChainTypeOK
<1>3. ~(now' - breaker'[d][Order[on.at]].opened < CoolDown)
  BY <1>0, <1>2, ChainAssumption DEF IsOpen
<1>4. Gathers(on.key) \/ on.got = {}
  BY DEF ExplainedUpTo
<1>5. ASSUME NEW x \in 1..(on.at - 1), Order[x] \in Knowers(on.key)
      PROVE  \/ Order[x] \in on.met \cup on.got
             \/ CachesEmpty(on.key) /\ on.began - hushed'[Order[x]][on.key] < Lifetime
  <2>1. Explained(Order[x], on.key, on.met, on.got, on.began)
    BY <1>5 DEF ExplainedUpTo
  <2>2. Order[x] \in Providers
    BY <1>5 DEF Knowers
  <2> QED BY <2>1, <2>2, <1>0, StaysExplained
<1>6. ASSUME NEW x \in 1..(lookup'[d].at - 1), (Order[x] \in Knowers(lookup[d].key))'
      PROVE  Explained(Order[x], lookup[d].key, lookup[d].met, lookup[d].got, lookup[d].began)'
  <2>1. Order[x] \in Knowers(on.key)
    BY <1>6 DEF Knowers
  <2> QED BY <1>5, <2>1 DEF Explained, CachesEmpty
<1>7. ExplainedUpTo(lookup[d], lookup[d].at)'
  BY <1>4, <1>6 DEF ExplainedUpTo, Gathers
<1>8. (~IsOpen(breaker[d][Called(d)]))'
  BY <1>3 DEF IsOpen, Called
<1>9. (lookup[d] \in Lookup /\ lookup[d].at # 0 /\ lookup[d].began <= now)'
  BY <1>0 DEF Lookup
<1> QED BY <1>7, <1>8, <1>9 DEF LookOK

LEMMA AnswerKept ==
  ASSUME ChainTypeOK, HushedGrows, knows' = knows, NEW d \in Chains, NEW a, answered'[d] = a,
         a.kind = "returned" =>
           /\ a.key \in Keys /\ a.began \in Nat
           /\ Gathers(a.key) \/ a.got = {}
           /\ \A p \in Knowers(a.key) : Explained(p, a.key, a.met, a.got, a.began)
  PROVE  AnswerOK(d)'
<1> SUFFICES ASSUME a.kind = "returned"
             PROVE  (/\ answered[d].key \in Keys /\ answered[d].began \in Nat
                     /\ Gathers(answered[d].key) \/ answered[d].got = {}
                     /\ \A p \in Knowers(answered[d].key) :
                          Explained(p, answered[d].key, answered[d].met, answered[d].got, answered[d].began))'
  BY DEF AnswerOK
<1>1. ASSUME NEW p \in Knowers(a.key)
      PROVE  p \in a.met \cup a.got \/ (CachesEmpty(a.key) /\ a.began - hushed'[p][a.key] < Lifetime)
  BY <1>1, KnowersAreProviders, StaysExplained
<1>2. ASSUME NEW p \in Knowers(answered[d].key)'
      PROVE  Explained(p, answered[d].key, answered[d].met, answered[d].got, answered[d].began)'
  <2>1. p \in Knowers(a.key)
    BY <1>2 DEF Knowers
  <2> QED BY <1>1, <2>1 DEF Explained, CachesEmpty
<1> QED BY <1>2 DEF Gathers

\* The chains that did not move keep their lookups and answers.
LEMMA OthersKept ==
  ASSUME ChainTypeOK, ChainsOK, HushedGrows, knows' = knows, now' \in Nat, now <= now', NEW d \in Chains,
         lookup'[d] = lookup[d], answered'[d] = answered[d], breaker'[d] = breaker[d]
  PROVE  LookOK(d)' /\ AnswerOK(d)'
<1>1. LookOK(d) /\ AnswerOK(d)
  BY DEF ChainsOK
<1>2. AnswerOK(d)'
  BY <1>1, AnswerKept DEF AnswerOK
<1>3. CASE lookup[d] = Idle
  <2>1. lookup'[d] = Idle
    BY <1>3
  <2> QED BY <1>2, <2>1 DEF LookOK, Idle
<1>4. CASE lookup[d] # Idle
  <2>1. /\ lookup[d] \in Lookup /\ lookup[d].at # 0 /\ lookup[d].began <= now
        /\ ~IsOpen(breaker[d][Order[lookup[d].at]])
        /\ ExplainedUpTo(lookup[d], lookup[d].at)
    BY <1>1, <1>4 DEF LookOK, Called
  <2>2. breaker'[d][Order[lookup[d].at]] = breaker[d][Order[lookup[d].at]]
    OBVIOUS
  <2>3. \A on \in Lookup : on = lookup[d] => LookOK(d)'
    BY <2>1, <2>2, WaitKept
  <2> QED BY <1>2, <2>1, <2>3
<1> QED BY <1>3, <1>4

\* What a lookup that goes on leaves, when only the breaker of the provider
\* it came from has moved.
LEMMA GoesOn ==
  ASSUME ChainInv, NEW c \in Chains, NEW l \in Lookup, NEW i \in 1..(Len(Order) + 1),
         l.began <= now, ExplainedUpTo(l, i), Onward(c, l, i), HushedGrows, knows' = knows, now' = now,
         \A d \in Chains \ {c} : breaker'[d] = breaker[d],
         \A x \in i..Len(Order) : breaker'[c][Order[x]] = breaker[c][Order[x]]
  PROVE  ChainsOK' /\ DOMAIN lookup' = Chains /\ DOMAIN answered' = Chains
<1> USE DEF ChainInv
<1> now \in Nat
  BY DEF ChainTypeOK
<1>1. CASE \E on : Waits(c, on, i)
  <2>1. PICK on : Waits(c, on, i)
    BY <1>1
  <2>2. lookup' = [lookup EXCEPT ![c] = on] /\ answered' = [answered EXCEPT ![c] = Nothing]
    BY <2>1 DEF Waits
  <2>3. DOMAIN lookup' = Chains /\ DOMAIN answered' = Chains /\ lookup'[c] = on /\ answered'[c] = Nothing
        /\ \A d \in Chains \ {c} : lookup'[d] = lookup[d] /\ answered'[d] = answered[d]
    BY <2>2 DEF ChainTypeOK
  <2>4. on.at \in i..Len(Order)
    BY <2>1, OrderLen DEF Waits, Lookup
  <2>5. LookOK(c)'
    BY <2>1, <2>3, <2>4, WaitKept DEF Waits
  <2>6. AnswerOK(c)'
    BY <2>3 DEF AnswerOK, Nothing
  <2>7. \A d \in Chains \ {c} : LookOK(d)' /\ AnswerOK(d)'
    BY <2>3, OthersKept
  <2> QED BY <2>3, <2>5, <2>6, <2>7 DEF ChainsOK
<1>2. CASE \E a : Ends(c, a)
  <2>1. PICK a : Ends(c, a)
    BY <1>2
  <2>2. lookup' = [lookup EXCEPT ![c] = Idle] /\ answered' = [answered EXCEPT ![c] = a]
    BY <2>1 DEF Ends
  <2>3. DOMAIN lookup' = Chains /\ DOMAIN answered' = Chains /\ lookup'[c] = Idle /\ answered'[c] = a
        /\ \A d \in Chains \ {c} : lookup'[d] = lookup[d] /\ answered'[d] = answered[d]
    BY <2>2 DEF ChainTypeOK
  <2>5. LookOK(c)'
    BY <2>3 DEF LookOK, Idle
  <2>6. AnswerOK(c)'
    BY <2>1, <2>3, AnswerKept DEF Ends
  <2>7. \A d \in Chains \ {c} : LookOK(d)' /\ AnswerOK(d)'
    BY <2>3, OthersKept
  <2> QED BY <2>3, <2>5, <2>6, <2>7 DEF ChainsOK
<1> QED BY <1>1, <1>2, OnwardExplains

\* An answer that ends the lookup.
LEMMA FindEnds ==
  ASSUME ChainInv, NEW c \in Chains, NEW l, NEW got, Finish(c, l, "found", got),
         HushedGrows, knows' = knows, now' = now, \A d \in Chains \ {c} : breaker'[d] = breaker[d]
  PROVE  ChainsOK' /\ DOMAIN lookup' = Chains /\ DOMAIN answered' = Chains
<1> USE DEF ChainInv
<1> now \in Nat
  BY DEF ChainTypeOK
<1> DEFINE a == [key |-> l.key, kind |-> "found", got |-> got, met |-> l.met, began |-> l.began]
<1>2. lookup' = [lookup EXCEPT ![c] = Idle] /\ answered' = [answered EXCEPT ![c] = a]
  BY DEF Finish
<1>3. DOMAIN lookup' = Chains /\ DOMAIN answered' = Chains /\ lookup'[c] = Idle /\ answered'[c] = a
      /\ \A d \in Chains \ {c} : lookup'[d] = lookup[d] /\ answered'[d] = answered[d]
  BY <1>2 DEF ChainTypeOK
<1>5. LookOK(c)' /\ AnswerOK(c)'
  BY <1>3 DEF LookOK, Idle, AnswerOK
<1>7. \A d \in Chains \ {c} : LookOK(d)' /\ AnswerOK(d)'
  BY <1>3, OthersKept
<1> QED BY <1>3, <1>5, <1>7 DEF ChainsOK

\* One chain records an outcome for one provider.
LEMMA BreakerMoves ==
  ASSUME ChainTypeOK, BreakersOK, NEW c \in Chains, NEW p \in Providers, NEW b \in [fails : Nat, opened : Int],
         BreakerOK(b), breaker' = [breaker EXCEPT ![c][p] = b], now' = now
  PROVE  /\ breaker' \in [Chains -> [Providers -> [fails : Nat, opened : Int]]]
         /\ BreakersOK'
         /\ \A d \in Chains \ {c} : breaker'[d] = breaker[d]
         /\ \A q \in Providers \ {p} : breaker'[c][q] = breaker[c][q]
<1>1. /\ breaker' \in [Chains -> [Providers -> [fails : Nat, opened : Int]]]
      /\ \A d \in Chains \ {c} : breaker'[d] = breaker[d]
      /\ \A q \in Providers \ {p} : breaker'[c][q] = breaker[c][q]
      /\ breaker'[c][p] = b
  BY DEF ChainTypeOK
<1>2. \A d \in Chains, q \in Providers : BreakerOK(breaker'[d][q])
  BY <1>1 DEF BreakersOK
<1>3. BreakersOK'
  BY <1>2 DEF BreakersOK, BreakerOK
<1> QED BY <1>1, <1>3

-----------------------------------------------------------------------------
(* Every step keeps the invariant. *)

LEMMA CalledOK ==
  ASSUME ChainInv, NEW c \in Chains, Calling(c)
  PROVE  /\ lookup[c] \in Lookup /\ lookup[c].at \in 1..Len(Order) /\ lookup[c].began <= now
         /\ Called(c) \in Providers /\ lookup[c].key \in Keys
         /\ ~IsOpen(breaker[c][Called(c)])
         /\ ExplainedUpTo(lookup[c], lookup[c].at)
<1>1. LookOK(c) /\ lookup[c] # Idle
  BY DEF ChainInv, ChainsOK, Calling
<1>2. lookup[c] \in Lookup /\ lookup[c].at # 0
  BY <1>1 DEF LookOK
<1>3. lookup[c].at \in 1..Len(Order) /\ lookup[c].key \in Keys
  BY <1>2, OrderLen DEF Lookup
<1> QED BY <1>1, <1>2, <1>3, ProviderAt DEF LookOK, Called

LEMMA LaterDiffer ==
  ASSUME NEW at \in 1..Len(Order), NEW x \in (at + 1)..Len(Order)
  PROVE  Order[x] \in Providers \ {Order[at]}
<1>1. x \in 1..Len(Order) /\ x # at
  BY OrderLen
<1> QED BY <1>1, ProviderAt, OrderLen, OrderAssumption

LEMMA InitOK == ChainInit => ChainInv
<1> SUFFICES ASSUME ChainInit PROVE ChainInv
  OBVIOUS
<1> USE ChainAssumption
<1>1. ChainTypeOK
  BY DEF ChainInit, ChainTypeOK, NoRow, Closed
<1>2. BreakersOK
  BY DEF ChainInit, BreakersOK, BreakerOK, Closed
<1>3. RowsOK
  BY DEF ChainInit, RowsOK, RowOK, NoRow
<1>4. ChainsOK
  BY DEF ChainInit, ChainsOK, LookOK, AnswerOK, Nothing
<1> QED BY <1>1, <1>2, <1>3, <1>4 DEF ChainInv

LEMMA AskedFor ==
  ASSUME NEW x, NEW k, NEW b, NEW y,
         x = [key |-> x.key, at |-> x.at, failed |-> x.failed, began |-> x.began, met |-> x.met, got |-> x.got],
         y = [x EXCEPT !.key = k, !.began = b]
  PROVE  y = [key |-> k, at |-> x.at, failed |-> x.failed, began |-> b, met |-> x.met, got |-> x.got]
OBVIOUS

LEMMA LookKeeps ==
  ASSUME ChainInv, NEW c \in Chains, NEW k \in Keys, Look(c, k)
  PROVE  ChainInv'
<1> DEFINE l == [Idle EXCEPT !.key = k, !.began = now]
<1>1. /\ Onward(c, l, 1) /\ breaker' = breaker
      /\ UNCHANGED <<knows, health, now, faults, rows, hushed>>
  BY DEF Look
<1>2. /\ l = [key |-> k, at |-> 0, failed |-> FALSE, began |-> now, met |-> {}, got |-> {}]
      /\ now \in Nat /\ Len(Order) \in Nat
  <2>0. /\ Idle.at = 0 /\ Idle.failed = FALSE /\ Idle.met = {} /\ Idle.got = {}
        /\ Idle = [key |-> Idle.key, at |-> Idle.at, failed |-> Idle.failed, began |-> Idle.began,
                   met |-> Idle.met, got |-> Idle.got]
    BY DEF Idle
  <2>1. l = [key |-> k, at |-> 0, failed |-> FALSE, began |-> now, met |-> {}, got |-> {}]
    <3>1. l = [Idle EXCEPT !.key = k, !.began = now]
      OBVIOUS
    <3> HIDE DEF l
    <3>2. l = [key |-> k, at |-> Idle.at, failed |-> Idle.failed, began |-> now, met |-> Idle.met, got |-> Idle.got]
      BY <2>0, <3>1, AskedFor
    <3> QED BY <2>0, <3>2
  <2> QED BY <2>1, OrderLen DEF ChainInv, ChainTypeOK
<1>3. l \in Lookup /\ l.began <= now /\ l.got = {}
  <2> HIDE DEF l
  <2> QED BY <1>2 DEF Lookup
<1> HIDE DEF l
<1>4. ExplainedUpTo(l, 1)
  BY <1>3 DEF ExplainedUpTo
<1>5. HushedGrows
  BY <1>1 DEF HushedGrows, ChainInv, ChainTypeOK
<1>6. 1 \in 1..(Len(Order) + 1)
  BY <1>2
<1>7. ChainsOK' /\ DOMAIN lookup' = Chains /\ DOMAIN answered' = Chains
  BY <1>1, <1>3, <1>4, <1>5, <1>6, GoesOn
<1>8. ChainTypeOK' /\ BreakersOK' /\ RowsOK'
  BY <1>1, <1>7 DEF ChainInv, ChainTypeOK, BreakersOK, BreakerOK, RowsOK, RowOK
<1> QED BY <1>7, <1>8 DEF ChainInv

LEMMA CallFailsKeeps ==
  ASSUME ChainInv, NEW c \in Chains, CallFails(c)
  PROVE  ChainInv'
<1> DEFINE p == Called(c)
           at == lookup[c].at
           l == [lookup[c] EXCEPT !.failed = TRUE, !.met = @ \cup {p}]
           b == RecordFailure(breaker[c][p])
<1>1. /\ Onward(c, l, at + 1) /\ breaker' = [breaker EXCEPT ![c][p] = b]
      /\ UNCHANGED <<knows, health, now, faults, rows, hushed>> /\ Calling(c)
  <2>1. breaker' = [breaker EXCEPT ![c][p] = b]
    BY Zenon DEF CallFails, RecordFailure, Failed
  <2> QED BY <2>1 DEF CallFails
<1>2. /\ lookup[c] \in Lookup /\ at \in 1..Len(Order) /\ lookup[c].began <= now
      /\ p \in Providers /\ lookup[c].key \in Keys /\ ~IsOpen(breaker[c][p])
      /\ ExplainedUpTo(lookup[c], at)
  BY <1>1, CalledOK
<1>3. b \in [fails : Nat, opened : Int] /\ BreakerOK(b)
  <2>1. breaker[c][p] \in [fails : Nat, opened : Int] /\ BreakerOK(breaker[c][p])
    BY <1>2 DEF ChainInv, ChainTypeOK, BreakersOK
  <2> QED BY <2>1, <1>2, FailureKeepsBreaker DEF ChainInv
<1> p = Order[at]
  BY DEF Called
<1> HIDE DEF b, p, at
<1>4. /\ breaker' \in [Chains -> [Providers -> [fails : Nat, opened : Int]]] /\ BreakersOK'
      /\ \A d \in Chains \ {c} : breaker'[d] = breaker[d]
      /\ \A q \in Providers \ {p} : breaker'[c][q] = breaker[c][q]
  BY <1>1, <1>2, <1>3, BreakerMoves DEF ChainInv
<1>5. HushedGrows
  BY <1>1 DEF HushedGrows, ChainInv, ChainTypeOK
<1>6. l \in Lookup /\ l.began <= now /\ l.key = lookup[c].key /\ l.met = lookup[c].met \cup {p} /\ l.got = lookup[c].got
      /\ l.began = lookup[c].began
  BY <1>2 DEF Lookup
<1> HIDE DEF l
<1>7. ExplainedUpTo(l, at + 1)
  BY <1>2, <1>6, OrderLen DEF ExplainedUpTo, Explained
<1>8. at + 1 \in 1..(Len(Order) + 1) /\ \A x \in (at + 1)..Len(Order) : breaker'[c][Order[x]] = breaker[c][Order[x]]
  BY <1>2, <1>4, LaterDiffer, OrderLen
<1>9. ChainsOK' /\ DOMAIN lookup' = Chains /\ DOMAIN answered' = Chains
  BY <1>1, <1>4, <1>5, <1>6, <1>7, <1>8, GoesOn
<1>10. ChainTypeOK' /\ RowsOK'
  BY <1>1, <1>4, <1>9 DEF ChainInv, ChainTypeOK, RowsOK, RowOK
<1> QED BY <1>4, <1>9, <1>10 DEF ChainInv

LEMMA CallAnswersKeeps ==
  ASSUME ChainInv, NEW c \in Chains, CallAnswers(c)
  PROVE  ChainInv'
<1> DEFINE p == Called(c)
           l == lookup[c]
           at == l.at
           k == l.key
           hit == health[p] = "up" /\ k \in knows[p]
           m == [l EXCEPT !.met = IF health[p] = "up" THEN @ ELSE @ \cup {p},
                          !.got = IF hit THEN @ \cup {p} ELSE @]
           row == [found |-> hit, at |-> now]
<1>1. /\ Calling(c) /\ knows' = knows /\ now' = now
      /\ breaker' = [breaker EXCEPT ![c][p] = Closed]
      /\ hushed' = IF health[p] = "up" THEN hushed ELSE [hushed EXCEPT ![p][k] = now]
      /\ rows' = IF hit \/ CachesEmpty(k) THEN [rows EXCEPT ![p][k] = row] ELSE rows
      /\ IF hit /\ ~Gathers(k) THEN Finish(c, l, "found", {p}) ELSE Onward(c, m, at + 1)
  BY Zenon DEF CallAnswers
<1>2. /\ l \in Lookup /\ at \in 1..Len(Order) /\ l.began <= now
      /\ p \in Providers /\ k \in Keys /\ ExplainedUpTo(l, at)
  BY <1>1, CalledOK
<1> now \in Nat
  BY DEF ChainInv, ChainTypeOK
<1>3. Closed \in [fails : Nat, opened : Int] /\ BreakerOK(Closed)
  BY ChainAssumption DEF Closed, BreakerOK
<1> p = Order[at]
  BY DEF Called
<1>4. /\ breaker' \in [Chains -> [Providers -> [fails : Nat, opened : Int]]] /\ BreakersOK'
      /\ \A d \in Chains \ {c} : breaker'[d] = breaker[d]
      /\ \A q \in Providers \ {p} : breaker'[c][q] = breaker[c][q]
  <2> HIDE DEF p
  <2> QED BY <1>1, <1>2, <1>3, BreakerMoves DEF ChainInv
<1>5. /\ HushedGrows /\ \A q \in Providers, j \in Keys : hushed'[q][j] <= now
      /\ health[p] # "up" => hushed'[p][k] = now
  <2> HIDE DEF p, k
  <2>0. /\ hushed \in [Providers -> [Keys -> Int]] /\ p \in Providers /\ k \in Keys /\ now \in Nat
        /\ \A q \in Providers, j \in Keys : hushed[q][j] \in Int /\ hushed[q][j] <= now
    BY <1>2 DEF ChainInv, ChainTypeOK
  <2>1. CASE health[p] = "up"
    <3>1. hushed' = hushed
      BY <1>1, <2>1
    <3> QED BY <2>0, <2>1, <3>1 DEF HushedGrows
  <2>2. CASE health[p] # "up"
    <3>1. hushed' = [hushed EXCEPT ![p][k] = now]
      BY <1>1, <2>2
    <3>2. /\ hushed' \in [Providers -> [Keys -> Int]] /\ hushed'[p][k] = now
          /\ \A q \in Providers, j \in Keys : hushed'[q][j] = hushed[q][j] \/ (hushed'[q][j] = now)
      BY <2>0, <3>1, SetOnce
    <3>3. \A q \in Providers, j \in Keys : hushed[q][j] <= hushed'[q][j] /\ hushed'[q][j] <= now
      <4> TAKE q \in Providers, j \in Keys
      <4>1. hushed[q][j] \in Int /\ hushed[q][j] <= now /\ now \in Nat /\ (hushed'[q][j] = hushed[q][j] \/ hushed'[q][j] = now)
        BY <2>0, <3>2
      <4> QED BY <4>1
    <3>4. HushedGrows
      BY <3>2, <3>3 DEF HushedGrows
    <3> QED BY <3>2, <3>3, <3>4
  <2> QED BY <2>1, <2>2
<1>6. /\ rows' \in [Providers -> [Keys -> [found : BOOLEAN, at : Int]]]
      /\ \A q \in Providers, j \in Keys :
           \/ rows'[q][j] = rows[q][j]
           \/ q = p /\ j = k /\ rows'[q][j] = row /\ (hit \/ CachesEmpty(k))
  <2>1. row \in [found : BOOLEAN, at : Int]
    OBVIOUS
  <2> HIDE DEF p, k, hit, row
  <2> QED BY <1>1, <1>2, <2>1 DEF ChainInv, ChainTypeOK
<1>7. RowsOK'
  <2> SUFFICES ASSUME NEW q \in Providers, NEW j \in Keys PROVE RowOK(q, j)'
    BY DEF RowsOK
  <2>1. CASE rows'[q][j] = rows[q][j]
    <3>1. RowOK(q, j)
      BY DEF ChainInv, RowsOK
    <3>2. hushed[q][j] \in Int /\ hushed'[q][j] \in Int /\ hushed[q][j] <= hushed'[q][j] /\ rows[q][j].at \in Int
      BY <1>5 DEF HushedGrows, ChainInv, ChainTypeOK
    <3>3. knows' = knows
      BY <1>1
    <3> HIDE DEF p, k, row, hit
    <3> QED BY <2>1, <3>1, <3>2, <3>3 DEF RowOK, CachesEmpty
  <2>2. CASE q = p /\ j = k /\ rows'[q][j] = row /\ (hit \/ CachesEmpty(k))
    <3>1. CASE health[p] = "up"
      <4>1. rows'[q][j].found = (k \in knows[p])
        BY <2>2, <3>1
      <4> QED BY <4>1, <2>2, <1>1 DEF RowOK
    <3>2. CASE health[p] # "up"
      <4>1. CachesEmpty(k) /\ rows'[q][j].at = now /\ hushed'[q][j] = now
        BY <2>2, <3>2, <1>5
      <4> HIDE DEF p, row, hit
      <4> QED BY <4>1, <2>2 DEF RowOK, CachesEmpty
    <3> QED BY <3>1, <3>2
  <2> QED BY <1>6, <2>1, <2>2
<1>8. ChainsOK' /\ DOMAIN lookup' = Chains /\ DOMAIN answered' = Chains
  <2>1. CASE hit /\ ~Gathers(k)
    <3>1. Finish(c, l, "found", {p})
      BY <2>1, <1>1
    <3> QED BY <3>1, <1>1, <1>4, <1>5, FindEnds
  <2>2. CASE ~(hit /\ ~Gathers(k))
    <3>1. Onward(c, m, at + 1)
      BY <2>2, <1>1
    <3>2. /\ m \in Lookup /\ m.began = l.began /\ m.key = k
          /\ m.met = (IF health[p] = "up" THEN l.met ELSE l.met \cup {p})
          /\ m.got = (IF hit THEN l.got \cup {p} ELSE l.got)
      <4> HIDE DEF hit, p
      <4> QED BY <1>2 DEF Lookup
    <3> HIDE DEF m
    <3>3. ExplainedUpTo(m, at + 1)
      <4>1. Gathers(k) \/ m.got = {}
        BY <2>2, <3>2, <1>2 DEF ExplainedUpTo
      <4>2. ASSUME NEW x \in 1..at, Order[x] \in Knowers(k)
            PROVE  Explained(Order[x], k, m.met, m.got, m.began)
        <5>1. CASE x = at
          BY <5>1, <4>2, <3>2 DEF Explained, Knowers
        <5>2. CASE x # at
          <6>1. x \in 1..(at - 1)
            BY <5>2, <1>2, OrderLen
          <6>2. Explained(Order[x], k, l.met, l.got, l.began)
            BY <6>1, <4>2, <1>2 DEF ExplainedUpTo
          <6> QED BY <6>2, <3>2 DEF Explained
        <5> QED BY <5>1, <5>2
      <4>3. (at + 1) - 1 = at
        BY <1>2, OrderLen
      <4> QED BY <4>1, <4>2, <4>3, <3>2 DEF ExplainedUpTo
    <3>4. at + 1 \in 1..(Len(Order) + 1) /\ \A x \in (at + 1)..Len(Order) : breaker'[c][Order[x]] = breaker[c][Order[x]]
      BY <1>2, <1>4, LaterDiffer, OrderLen
    <3> QED
      <4> HIDE DEF p, hit
      <4> QED BY <3>1, <3>2, <3>3, <3>4, <1>1, <1>2, <1>4, <1>5, GoesOn
  <2> QED BY <2>1, <2>2
<1>9. ChainTypeOK'
  <2> HIDE DEF p, l, at, k, hit, m, row
  <2>1. now' \in Nat /\ \A q \in Providers, j \in Keys : hushed'[q][j] <= now'
    BY <1>1, <1>5
  <2> QED BY <2>1, <1>4, <1>5, <1>6, <1>8 DEF ChainTypeOK, HushedGrows
<1> QED BY <1>4, <1>7, <1>8, <1>9 DEF ChainInv

LEMMA WorldKeeps ==
  ASSUME ChainInv, Tick \/ (\E p \in Providers : HealthChanges(p)) \/ UNCHANGED chainVars
  PROVE  ChainInv'
<1>1. /\ UNCHANGED <<knows, rows, breaker, lookup, answered, hushed>>
      /\ now' \in Nat /\ now <= now' /\ now \in Nat
  BY DEF Tick, HealthChanges, chainVars, ChainInv, ChainTypeOK
<1>2. HushedGrows
  BY <1>1 DEF HushedGrows, ChainInv, ChainTypeOK
<1>3. ChainsOK'
  BY <1>1, <1>2, OthersKept DEF ChainInv, ChainsOK
<1>4. \A p \in Providers, k \in Keys : hushed[p][k] \in Int
  BY DEF ChainInv, ChainTypeOK
<1>5. ChainTypeOK'
  BY <1>1, <1>4 DEF ChainInv, ChainTypeOK
<1>6. BreakersOK'
  <2> SUFFICES ASSUME NEW c \in Chains, NEW p \in Providers PROVE BreakerOK(breaker[c][p])'
    BY DEF BreakersOK
  <2>1. BreakerOK(breaker[c][p]) /\ breaker[c][p].opened \in Int
    BY DEF ChainInv, ChainTypeOK, BreakersOK
  <2> QED BY <1>1, <2>1 DEF BreakerOK
<1>7. RowsOK'
  BY <1>1 DEF ChainInv, RowsOK, RowOK, CachesEmpty
<1> QED BY <1>3, <1>5, <1>6, <1>7 DEF ChainInv

\* The typed state of the chains, and what explains every miss, in every reachable state.
THEOREM ChainInvariant == ChainSpec => []ChainInv
<1>1. ChainInv /\ [ChainNext]_chainVars => ChainInv'
  BY LookKeeps, CallFailsKeeps, CallAnswersKeeps, WorldKeeps DEF ChainNext
<1> QED BY <1>1, InitOK, PTL DEF ChainSpec

(* Trouble stays where it was met, however many processes share the cache,       *)
(* however long the chain and whatever the lifetimes: a batched lookup misses    *)
(* only what it met trouble with itself, another one also what was hushed less   *)
(* than a lifetime before it began, and an outage is probed once a cool-down.    *)
THEOREM MissesAreExplained == ChainSpec => []MissesHaveReasons
BY ChainInvariant, ReasonsNow, PTL

-----------------------------------------------------------------------------
(* II. The citation graph. *)

-----------------------------------------------------------------------------
(* Works: their ids are only added to. *)

StandsIn(ws, w, ids) ==
  /\ ids # {} /\ w \in 1..Len(ws)
  /\ \/ ws[w] \cap ids # {}
     \/ ids \subseteq UNION {ws[x] : x \in (1..Len(ws)) \ {w}}

Grown(ws, vs) ==
  /\ Len(ws) \in Nat /\ Len(vs) \in Nat /\ Len(ws) <= Len(vs)
  /\ \A w \in 1..Len(ws) : ws[w] \subseteq vs[w]

LEMMA StandsLater ==
  ASSUME NEW ws, NEW vs, Grown(ws, vs), NEW w, NEW ids, StandsIn(ws, w, ids)
  PROVE  StandsIn(vs, w, ids)
<1>1. w \in 1..Len(vs) /\ ws[w] \subseteq vs[w] /\ \A x \in 1..Len(ws) : x \in 1..Len(vs) /\ ws[x] \subseteq vs[x]
  BY DEF Grown, StandsIn
<1>2. CASE ws[w] \cap ids # {}
  BY <1>1, <1>2 DEF StandsIn
<1>3. CASE ids \subseteq UNION {ws[x] : x \in (1..Len(ws)) \ {w}}
  <2>1. UNION {ws[x] : x \in (1..Len(ws)) \ {w}} \subseteq UNION {vs[x] : x \in (1..Len(vs)) \ {w}}
    BY <1>1
  <2> QED BY <1>1, <1>3, <2>1 DEF StandsIn
<1> QED BY <1>2, <1>3 DEF StandsIn

LEMMA GrownTwice ==
  ASSUME NEW ws, NEW vs, NEW us, Grown(ws, vs), Grown(vs, us)
  PROVE  Grown(ws, us)
<1> QED BY DEF Grown

\* The work an upsert answers with stands for every id it was asked for.
LEMMA UpsertStands ==
  ASSUME NEW ws, NEW S, ws \in Seq(S), NEW ids
  PROVE  LET u == UpsertWork(ws, ids) IN
         /\ \E T : u.works \in Seq(T)
         /\ Grown(ws, u.works) /\ u.work \in 1..Len(u.works)
         /\ \A F \in SUBSET ids : F # {} => StandsIn(u.works, u.work, F)
<1> DEFINE matched == {w \in 1..Len(ws) : ws[w] \cap ids # {}}
           claimed == UNION {ws[w] : w \in 1..Len(ws)}
           free == ids \ claimed
           agrees(w) == SameWork(ws[w], ids)
           u == UpsertWork(ws, ids)
<1>0. Len(ws) \in Nat /\ DOMAIN ws = 1..Len(ws)
  OBVIOUS
<1>1. CASE Cardinality(matched) = 1 /\ \A w \in matched : agrees(w)
  <2> DEFINE w == CHOOSE x \in matched : TRUE
             vs == [ws EXCEPT ![w] = @ \cup free]
  <2>1. u = [works |-> vs, work |-> w]
    BY <1>1 DEF UpsertWork
  <2>2. \E x : matched = {x}
    <3>1. matched \in SUBSET (1..Len(ws)) /\ IsFiniteSet(1..Len(ws))
      BY <1>0, FS_Interval
    <3>2. IsFiniteSet(matched)
      BY <3>1, FS_Subset
    <3> HIDE DEF matched
    <3> QED BY <1>1, <3>2, FS_Singleton
  <2>3. matched = {w}
    <3> HIDE DEF matched
    <3> QED BY <2>2
  <2>4. w \in 1..Len(ws)
    BY <2>3
  <2> HIDE DEF w
  <2>5. /\ vs \in Seq({vs[x] : x \in 1..Len(ws)}) /\ Len(vs) = Len(ws)
        /\ vs[w] = ws[w] \cup free /\ \A x \in (1..Len(ws)) \ {w} : vs[x] = ws[x]
    <3>1. vs = [x \in 1..Len(ws) |-> IF x = w THEN ws[w] \cup free ELSE ws[x]]
      <4> HIDE DEF free
      <4> QED BY <1>0
    <3> HIDE DEF vs, free
    <3>2. DOMAIN vs = 1..Len(ws) /\ vs = [x \in 1..Len(ws) |-> vs[x]]
      BY <3>1
    <3>3. vs \in [1..Len(ws) -> {vs[x] : x \in 1..Len(ws)}]
      BY <3>2
    <3>4. vs \in Seq({vs[x] : x \in 1..Len(ws)})
      BY <3>3, <1>0, SeqDef
    <3>5. Len(vs) = Len(ws)
      BY <3>2, <3>4, <1>0
    <3> QED BY <3>1, <3>4, <3>5, <2>4
  <2> HIDE DEF vs
  <2>6. ids \subseteq vs[w]
    <3> SUFFICES ASSUME NEW f \in ids, f \notin free PROVE f \in ws[w]
      BY <2>5
    <3>1. PICK x \in 1..Len(ws) : f \in ws[x]
      OBVIOUS
    <3>2. x \in matched
      BY <3>1
    <3> QED BY <3>1, <3>2, <2>3
  <2>7. \A F \in SUBSET ids : F # {} => StandsIn(vs, w, F)
    BY <2>4, <2>5, <2>6 DEF StandsIn
  <2>8. Grown(ws, vs)
    BY <2>5, <1>0 DEF Grown
  <2> QED BY <2>1, <2>4, <2>5, <2>7, <2>8
<1>2. CASE ~(Cardinality(matched) = 1 /\ \A w \in matched : agrees(w))
  <2> DEFINE vs == Append(ws, free)
             w == Len(ws) + 1
  <2>1. u = [works |-> vs, work |-> w]
    BY <1>2 DEF UpsertWork
  <2>2. /\ vs \in Seq(S \cup {free}) /\ Len(vs) = Len(ws) + 1 /\ vs[w] = free
        /\ \A x \in 1..Len(ws) : vs[x] = ws[x]
    <3> HIDE DEF free
    <3>1. ws \in Seq(S \cup {free})
      <4>1. ws \in [1..Len(ws) -> S]
        BY <1>0
      <4>2. ws \in [1..Len(ws) -> S \cup {free}]
        BY <4>1
      <4> QED BY <4>2, <1>0, SeqDef
    <3> QED BY <3>1, <1>0, AppendProperties
  <2> HIDE DEF vs
  <2>3. ASSUME NEW F \in SUBSET ids, F # {} PROVE StandsIn(vs, w, F)
    <3>1. F \cap free # {} \/ F \subseteq claimed
      OBVIOUS
    <3>2. UNION {vs[x] : x \in (1..Len(vs)) \ {w}} = claimed
      <4>1. (1..Len(vs)) \ {w} = 1..Len(ws)
        BY <2>2, <1>0
      <4> QED BY <4>1, <2>2
    <3>3. w \in 1..Len(vs)
      BY <2>2, <1>0
    <3> HIDE DEF claimed, w
    <3> QED BY <3>1, <3>2, <3>3, <2>2, <2>3 DEF StandsIn
  <2>4. Grown(ws, vs)
    BY <2>2, <1>0 DEF Grown
  <2>5. w \in 1..Len(vs)
    BY <2>2, <1>0
  <2> HIDE DEF w
  <2> QED BY <2>1, <2>2, <2>3, <2>4, <2>5
<1> QED BY <1>1, <1>2

-----------------------------------------------------------------------------
(* What resolving one entry answers. *)

LEMMA ResolvedHow ==
  ASSUME NEW e, NEW online \in BOOLEAN, NEW f, f = ResolveOne(online, e)
  PROVE  /\ f.status \in {"resolved", "ambiguous", "suspect", "unresolved"}
         /\ f.status # "resolved" => f.source = "none"
         /\ f.status = "resolved" => f.ids # {}
         /\ f.status = "resolved" =>
              \/ f.source = "doi" /\ f.ids = ByDoi(TRUE, e, "doi")
              \/ f.source = "arxiv" /\ Ids("arxiv", e.own) # {} /\ f.ids \in {ByDoi(TRUE, e, "arxiv"), e.own}
              \/ f.source = "title_year" /\ ~IsFalseResolution(e) /\ f.ids = e.hit
<1>0. \A type : ByDoi(online, e, type) # {} => ByDoi(online, e, type) = ByDoi(TRUE, e, type)
  <2> SUFFICES ASSUME NEW type, ByDoi(online, e, type) # {} PROVE online = TRUE
    OBVIOUS
  <2> QED BY DEF ByDoi, ProviderFinds
<1>1. CASE ByDoi(online, e, "doi") # {}
  <2>1. f = As("resolved", "doi", ByDoi(online, e, "doi"), << >>)
    BY <1>1 DEF ResolveOne
  <2>2. f.status = "resolved" /\ f.source = "doi" /\ f.ids = ByDoi(online, e, "doi")
    BY <2>1 DEF As
  <2> QED BY <2>2, <1>0, <1>1
<1>2. CASE ByDoi(online, e, "doi") = {} /\ Ids("arxiv", e.own) # {}
  <2> DEFINE ids == IF ByDoi(online, e, "arxiv") # {} THEN ByDoi(online, e, "arxiv") ELSE e.own
  <2>1. f = As("resolved", "arxiv", ids, << >>)
    BY <1>2 DEF ResolveOne
  <2>2. ids # {} /\ ids \in {ByDoi(TRUE, e, "arxiv"), e.own}
    BY <1>0, <1>2 DEF Ids
  <2> HIDE DEF ids
  <2>3. f.status = "resolved" /\ f.source = "arxiv" /\ f.ids = ids
    BY <2>1 DEF As
  <2> QED BY <2>3, <2>2, <1>2
<1>3. CASE ByDoi(online, e, "doi") = {} /\ Ids("arxiv", e.own) = {} /\ (e.titled /\ online /\ e.hits)
  <2>1. f = ByTitle(e)
    BY <1>3 DEF ResolveOne
  <2>2. \/ f.status = "ambiguous" /\ f.source = "none"
        \/ f.status = "suspect" /\ f.source = "none"
        \/ /\ f.status = "resolved" /\ f.source = "title_year" /\ f.ids = e.hit
           /\ e.hit # {} /\ ~IsFalseResolution(e)
    BY <2>1 DEF ByTitle, As, Doubtful, StrongKey
  <2> QED BY <2>2
<1>4. CASE ByDoi(online, e, "doi") = {} /\ Ids("arxiv", e.own) = {} /\ ~(e.titled /\ online /\ e.hits)
  <2>1. f = Doubtful(e, << >>) \/ f = As("unresolved", "none", {}, << >>)
    BY <1>4 DEF ResolveOne
  <2>2. f.status \in {"ambiguous", "unresolved"} /\ f.source = "none"
    BY <2>1 DEF As, Doubtful
  <2> QED BY <2>2
<1> QED BY <1>1, <1>2, <1>3, <1>4

-----------------------------------------------------------------------------
(* The parts of the inductive invariant. *)

Triple == Nat \X Nat \X Nat
RefRec ==
  [id : Triple, paper : 1..CitingPapers, version : Nat,
   status : {"resolved", "ambiguous", "suspect", "unresolved"},
   source : {"none", "doi", "arxiv", "title_year", "manual_override"}, target : Nat]
EdgeRec ==
  [src : 1..CitingPapers, tgt : Nat,
   prov : {"manual_override", "parsed_bibliography", "provider_reference"}, run : Nat, ref : Triple]
ItemShape(i) ==
  /\ i = [ref |-> i.ref, paper |-> i.paper, run |-> i.run, candidates |-> i.candidates, open |-> i.open]
  /\ i.ref \in Triple /\ i.paper \in 1..CitingPapers /\ i.run \in Nat /\ i.open \in BOOLEAN

CiteTypeOK ==
  /\ texts \in Texts
  /\ \E S : works \in Seq(S)
  /\ version \in [1..CitingPapers -> Nat \ {0}]
  /\ reads \in [1..CitingPapers -> Nat]
  /\ DOMAIN outcome = 1..CitingPapers
  /\ refs \in SUBSET RefRec
  /\ edges \in SUBSET EdgeRec
  /\ \A i \in items : ItemShape(i)
  /\ runs \in Nat

\* What an entry resolved without a person rests on.
ConfirmedIn(ws, r) ==
  r.status = "resolved" /\ r.source # "manual_override" =>
    LET e == EntryOf(r)
    IN  \/ r.source = "doi" /\ StandsIn(ws, r.target, ByDoi(TRUE, e, "doi"))
        \/ /\ r.source = "arxiv" /\ Ids("arxiv", e.own) # {}
           /\ \E ids \in {ByDoi(TRUE, e, "arxiv"), e.own} : StandsIn(ws, r.target, ids)
        \/ r.source = "title_year" /\ ~IsFalseResolution(e) /\ StandsIn(ws, r.target, e.hit)

\* References: numbered by paper and reading, each once.
RefOK(r) ==
  /\ r.id[1] = r.paper /\ r.id[2] <= reads[r.paper]
  /\ r.status # "resolved" => r.source = "none"
Once(rs) == \A r, s \in rs : r.id = s.id => r = s
RefsOK == Once(refs) /\ \A r \in refs : RefOK(r) /\ ConfirmedIn(works, r)

\* Items: one of a reference; an open one is about an entry nobody resolved.
ItemsOK ==
  /\ \A i, j \in items : i.ref = j.ref => i = j
  /\ \A i \in items :
       /\ i.ref[1] = i.paper /\ i.ref[2] <= reads[i.paper]
       /\ i.open => \A r \in refs : r.id = i.ref => r.status # "resolved"

\* Edges: a parsed one names the entry it tells, a manual one an entry that stands.
EdgeOK(e) ==
  /\ e.prov = "parsed_bibliography" =>
       \E r \in refs : r.id = e.ref /\ r.status = "resolved" /\ r.target = e.tgt /\ r.paper = e.src
  /\ e.prov = "manual_override" => \E r \in refs : r.id = e.ref /\ r.paper = e.src
  /\ e.prov = "provider_reference" => e.ref = NoRef
SameKey(x, e) == x.src = e.src /\ x.tgt = e.tgt /\ x.prov = e.prov /\ x.run = e.run
EdgesOK ==
  /\ \A e \in edges : EdgeOK(e)
  /\ \A e, x \in edges : e.prov = "manual_override" /\ SameKey(x, e) => x = e

\* Verdicts: what a person resolved has a person's edge from its paper.
VerdictsOK ==
  /\ \A r \in refs : r.source = "manual_override" =>
       \E e \in edges : e.prov = "manual_override" /\ e.src = r.paper
  /\ \A p \in 1..CitingPapers : outcome[p].kind = "refused" =>
       \E e \in edges : e.prov = "manual_override" /\ e.src = p

CiteInv == CiteTypeOK /\ RefsOK /\ ItemsOK /\ EdgesOK /\ VerdictsOK

\* The edges tell the readings wherever the invariant holds.
LEMMA EdgesTellNow == CiteInv => EdgesTellTheReadings
<1> SUFFICES ASSUME CiteInv PROVE EdgesTellTheReadings
  OBVIOUS
<1> USE DEF CiteInv
<1>1. ParsedEdgesAreBacked
  BY DEF EdgesOK, EdgeOK, ParsedEdgesAreBacked
<1>2. EdgesNeedConfirmation
  BY DEF RefsOK, ConfirmedIn, EdgesNeedConfirmation, StandsIn, StandsFor
<1>3. OnlyVerdictsBlockReading
  BY DEF VerdictsOK, OnlyVerdictsBlockReading
<1>4. VerdictShows
  <2> SUFFICES ASSUME NEW e \in edges, e.prov = "manual_override",
                      NEW x \in edges, x.run = e.run, x.src = e.src, x.tgt = e.tgt,
                      \A y \in edges : y.run = e.run /\ y.src = x.src /\ y.tgt = x.tgt =>
                                         Authority[y.prov] <= Authority[x.prov]
               PROVE  x = e
    BY DEF VerdictShows, GraphEdges, AuthoritativeEdges
  <2>1. Authority["manual_override"] <= Authority[x.prov]
    OBVIOUS
  <2>2. x.prov \in {"manual_override", "parsed_bibliography", "provider_reference"}
    BY DEF CiteTypeOK, EdgeRec
  <2>3. x.prov = "manual_override"
    BY <2>1, <2>2 DEF Authority
  <2> QED BY <2>3 DEF EdgesOK, SameKey
<1> QED BY <1>1, <1>2, <1>3, <1>4 DEF EdgesTellTheReadings

-----------------------------------------------------------------------------
(* What a reading of a paper leaves. *)

TextOf(p) == texts[p][version[p]]

LEMMA TextIsSequence ==
  ASSUME CiteTypeOK, NEW p \in 1..CitingPapers, HasText(p)
  PROVE  Len(TextOf(p)) \in Nat
<1>1. IsSequence(texts[p]) /\ \A v \in DOMAIN texts[p] : IsSequence(texts[p][v])
  BY CiteAssumption DEF CiteTypeOK
<1>2. version[p] \in DOMAIN texts[p]
  <2>1. DOMAIN texts[p] = 1..Len(texts[p]) /\ Len(texts[p]) \in Nat
    BY <1>1 DEF IsSequence
  <2> QED BY <2>1 DEF HasText, CiteTypeOK
<1> QED BY <1>1, <1>2 DEF IsSequence, TextOf

\* What the first k entries have left.
ReadSoFar(p, run, k, so) ==
  /\ \E S : so.works \in Seq(S)
  /\ Grown(works, so.works)
  /\ \A r \in so.refs :
       /\ r \in RefRec /\ r.paper = p /\ r.version = version[p]
       /\ r.id[1] = p /\ r.id[2] = reads[p] + 1 /\ r.id[3] \in 1..k
       /\ r.status # "resolved" => r.source = "none"
       /\ r.source # "manual_override"
       /\ ConfirmedIn(so.works, r)
  /\ Once(so.refs)
  /\ \A i \in so.items :
       /\ ItemShape(i) /\ i.paper = p
       /\ i.ref[1] = p /\ i.ref[2] = reads[p] + 1 /\ i.ref[3] \in 1..k
       /\ \A r \in so.refs : r.id = i.ref => r.status # "resolved"
  /\ \A i, j \in so.items : i.ref = j.ref => i = j

LEMMA ConfirmedLater ==
  ASSUME NEW ws, NEW vs, Grown(ws, vs), NEW r, ConfirmedIn(ws, r)
  PROVE  ConfirmedIn(vs, r)
BY StandsLater DEF ConfirmedIn

LEMMA EntryKeeps ==
  ASSUME CiteTypeOK, NEW p \in 1..CitingPapers, NEW run \in Nat, NEW online \in BOOLEAN, NEW k \in Nat \ {0},
         NEW so, ReadSoFar(p, run, k - 1, so)
  PROVE  ReadSoFar(p, run, k, ReadEntry(p, run, online, k, so))
<1> DEFINE e == texts[p][version[p]][k]
           id == <<p, reads[p] + 1, k>>
           found == ResolveOne(online, e)
           put == UpsertWork(so.works, IncomingFrom(e, found.ids))
           ref(target) == [id |-> id, paper |-> p, version |-> version[p],
                           status |-> found.status, source |-> found.source, target |-> target]
           item == [ref |-> id, paper |-> p, run |-> run, candidates |-> found.candidates, open |-> TRUE]
           next == ReadEntry(p, run, online, k, so)
<1>0. /\ reads[p] \in Nat /\ version[p] \in Nat /\ id \in Triple
      /\ id[1] = p /\ id[2] = reads[p] + 1 /\ id[3] = k
  BY DEF CiteTypeOK, Triple
<1>1. /\ found.status \in {"resolved", "ambiguous", "suspect", "unresolved"}
      /\ found.status # "resolved" => found.source = "none"
      /\ found.status = "resolved" => found.ids # {}
      /\ found.status = "resolved" =>
           \/ found.source = "doi" /\ found.ids = ByDoi(TRUE, e, "doi")
           \/ found.source = "arxiv" /\ Ids("arxiv", e.own) # {} /\ found.ids \in {ByDoi(TRUE, e, "arxiv"), e.own}
           \/ found.source = "title_year" /\ ~IsFalseResolution(e) /\ found.ids = e.hit
  <2> HIDE DEF e
  <2> QED BY ResolvedHow
<1>2. \A r \in so.refs : r.id # id
  BY <1>0 DEF ReadSoFar
<1>3. \A i \in so.items : i.ref # id
  BY <1>0 DEF ReadSoFar
<1>4. CASE found.status = "resolved"
  <2> DEFINE r0 == ref(put.work)
  <2>1. next = [works |-> put.works, refs |-> so.refs \cup {r0}, items |-> so.items]
    BY <1>4 DEF ReadEntry
  <2>2. /\ \E T : put.works \in Seq(T)
        /\ Grown(so.works, put.works)
        /\ StandsIn(put.works, put.work, found.ids)
    <3> HIDE DEF found
    <3>1. found.ids \in SUBSET IncomingFrom(e, found.ids) /\ found.ids # {}
      BY <1>1, <1>4 DEF IncomingFrom
    <3>2. PICK S : so.works \in Seq(S)
      BY DEF ReadSoFar
    <3> QED BY <3>1, <3>2, UpsertStands
  <2> HIDE DEF put
  <2>3. /\ r0.id = id /\ r0.paper = p /\ r0.version = version[p] /\ r0.status = "resolved"
        /\ r0.source = found.source /\ r0.target = put.work
    BY <1>4
  <2>4. r0 \in RefRec
    <3>1. put.work \in Nat
      BY <2>2 DEF StandsIn, Grown
    <3>2. found.source \in {"doi", "arxiv", "title_year"}
      BY <1>1, <1>4
    <3> HIDE DEF found, id
    <3> QED BY <1>0, <1>1, <3>1, <3>2 DEF RefRec
  <2>5. ConfirmedIn(put.works, r0)
    <3>1. EntryOf(r0) = e
      BY <2>3, <1>0 DEF EntryOf
    <3> HIDE DEF r0, found, e
    <3> QED BY <1>1, <1>4, <2>2, <2>3, <3>1 DEF ConfirmedIn
  <2> HIDE DEF r0, found, e, id
  <2>6. \A r \in so.refs : ConfirmedIn(put.works, r)
    BY <2>2, ConfirmedLater DEF ReadSoFar
  <2>7. Grown(works, put.works)
    BY <2>2, GrownTwice DEF ReadSoFar
  <2>8. ASSUME NEW r \in so.refs \cup {r0}
        PROVE  /\ r \in RefRec /\ r.paper = p /\ r.version = version[p]
               /\ r.id[1] = p /\ r.id[2] = reads[p] + 1 /\ r.id[3] \in 1..k
               /\ r.status # "resolved" => r.source = "none"
               /\ r.source # "manual_override"
               /\ ConfirmedIn(put.works, r)
    <3>1. CASE r = r0
      <4>1. r.id = id /\ r.source = found.source /\ r.status = "resolved" /\ found.source # "manual_override"
        BY <1>1, <1>4, <2>3, <3>1
      <4>2. r \in RefRec /\ ConfirmedIn(put.works, r) /\ r.paper = p /\ r.version = version[p]
        BY <2>3, <2>4, <2>5, <3>1
      <4>3. r.id[1] = p /\ r.id[2] = reads[p] + 1 /\ r.id[3] \in 1..k
        BY <4>1, <1>0
      <4> QED BY <4>1, <4>2, <4>3
    <3>2. CASE r \in so.refs
      BY <2>6, <3>2 DEF ReadSoFar
    <3> QED BY <3>1, <3>2
  <2>9. Once(so.refs \cup {r0})
    BY <1>2, <2>3 DEF ReadSoFar, Once
  <2>10. \A i \in so.items :
       /\ ItemShape(i) /\ i.paper = p
       /\ i.ref[1] = p /\ i.ref[2] = reads[p] + 1 /\ i.ref[3] \in 1..k
       /\ \A r \in so.refs \cup {r0} : r.id = i.ref => r.status # "resolved"
    BY <1>3, <2>3 DEF ReadSoFar
  <2>11. \A i, j \in so.items : i.ref = j.ref => i = j
    BY DEF ReadSoFar
  <2>12. next.works = put.works /\ next.refs = so.refs \cup {r0} /\ next.items = so.items
    BY <2>1
  <2> HIDE DEF next
  <2>13. (\E T : next.works \in Seq(T)) /\ Grown(works, next.works)
    BY <2>2, <2>7, <2>12
  <2>14. \A r \in next.refs :
       /\ r \in RefRec /\ r.paper = p /\ r.version = version[p]
       /\ r.id[1] = p /\ r.id[2] = reads[p] + 1 /\ r.id[3] \in 1..k
       /\ r.status # "resolved" => r.source = "none"
       /\ r.source # "manual_override"
       /\ ConfirmedIn(next.works, r)
    BY <2>8, <2>12
  <2>15. Once(next.refs)
    BY <2>9, <2>12
  <2>16. \A i \in next.items :
       /\ ItemShape(i) /\ i.paper = p
       /\ i.ref[1] = p /\ i.ref[2] = reads[p] + 1 /\ i.ref[3] \in 1..k
       /\ \A r \in next.refs : r.id = i.ref => r.status # "resolved"
    BY <2>10, <2>12
  <2>17. \A i, j \in next.items : i.ref = j.ref => i = j
    BY <2>11, <2>12
  <2>18. ReadSoFar(p, run, k, next)
    BY <2>13, <2>14, <2>15, <2>16, <2>17 DEF ReadSoFar
  <2> QED BY <2>18 DEF next
<1>5. CASE found.status # "resolved"
  <2> DEFINE r0 == ref(0)
             more == IF found.status = "unresolved" THEN {} ELSE {item}
  <2>1. next = [works |-> so.works, refs |-> so.refs \cup {r0}, items |-> so.items \cup more]
    BY <1>5 DEF ReadEntry
  <2>3. /\ r0.id = id /\ r0.paper = p /\ r0.version = version[p] /\ r0.status = found.status
        /\ r0.source = "none"
    BY <1>1, <1>5
  <2>4. r0 \in RefRec
    <3> HIDE DEF found, id
    <3> QED BY <1>0, <1>1, <1>5 DEF RefRec
  <2>5. \A i \in more : ItemShape(i) /\ i.paper = p /\ i.ref = id /\ i = item
    <3>1. item.ref = id /\ item.paper = p /\ item.run = run /\ item.open = TRUE
      OBVIOUS
    <3>2. ItemShape(item)
      <4> HIDE DEF id, found
      <4> QED BY <1>0 DEF ItemShape
    <3> HIDE DEF item
    <3> QED BY <3>1, <3>2
  <2> HIDE DEF r0, found, e, id, more, item
  <2>8. ASSUME NEW r \in so.refs \cup {r0}
        PROVE  /\ r \in RefRec /\ r.paper = p /\ r.version = version[p]
               /\ r.id[1] = p /\ r.id[2] = reads[p] + 1 /\ r.id[3] \in 1..k
               /\ r.status # "resolved" => r.source = "none"
               /\ r.source # "manual_override"
               /\ ConfirmedIn(so.works, r)
    <3>1. CASE r = r0
      <4>1. ConfirmedIn(so.works, r)
        BY <1>5, <2>3, <3>1 DEF ConfirmedIn
      <4> QED BY <4>1, <1>0, <1>5, <2>3, <2>4, <3>1
    <3>2. CASE r \in so.refs
      BY <3>2 DEF ReadSoFar
    <3> QED BY <3>1, <3>2
  <2>9. Once(so.refs \cup {r0})
    BY <1>2, <2>3 DEF ReadSoFar, Once
  <2>10. \A i \in so.items \cup more :
       /\ ItemShape(i) /\ i.paper = p
       /\ i.ref[1] = p /\ i.ref[2] = reads[p] + 1 /\ i.ref[3] \in 1..k
       /\ \A r \in so.refs \cup {r0} : r.id = i.ref => r.status # "resolved"
    BY <1>0, <1>2, <1>3, <1>5, <2>3, <2>5 DEF ReadSoFar
  <2>11. \A i, j \in so.items \cup more : i.ref = j.ref => i = j
    BY <1>3, <2>5 DEF ReadSoFar
  <2>12. next.works = so.works /\ next.refs = so.refs \cup {r0} /\ next.items = so.items \cup more
    BY <2>1
  <2> HIDE DEF next
  <2>13. (\E T : next.works \in Seq(T)) /\ Grown(works, next.works)
    BY <2>12 DEF ReadSoFar
  <2>14. \A r \in next.refs :
       /\ r \in RefRec /\ r.paper = p /\ r.version = version[p]
       /\ r.id[1] = p /\ r.id[2] = reads[p] + 1 /\ r.id[3] \in 1..k
       /\ r.status # "resolved" => r.source = "none"
       /\ r.source # "manual_override"
       /\ ConfirmedIn(next.works, r)
    BY <2>8, <2>12
  <2>15. Once(next.refs)
    BY <2>9, <2>12
  <2>16. \A i \in next.items :
       /\ ItemShape(i) /\ i.paper = p
       /\ i.ref[1] = p /\ i.ref[2] = reads[p] + 1 /\ i.ref[3] \in 1..k
       /\ \A r \in next.refs : r.id = i.ref => r.status # "resolved"
    BY <2>10, <2>12
  <2>17. \A i, j \in next.items : i.ref = j.ref => i = j
    BY <2>11, <2>12
  <2>18. ReadSoFar(p, run, k, next)
    BY <2>13, <2>14, <2>15, <2>16, <2>17 DEF ReadSoFar
  <2> QED BY <2>18 DEF next
<1> QED BY <1>4, <1>5

\* The reading is a recursion over the entries; it has a value, and keeps what
\* each entry keeps.
LEMMA ReadingKeeps ==
  ASSUME CiteTypeOK, NEW p \in 1..CitingPapers, NEW run \in Nat, NEW online \in BOOLEAN, HasText(p)
  PROVE  ReadSoFar(p, run, Len(TextOf(p)), Reading(p, run, online))
<1> DEFINE n == Len(TextOf(p))
           start == [works |-> works, refs |-> {}, items |-> {}]
           Step(k, so) == ReadEntry(p, run, online, k, so)
           Is(f, m) == f = [k \in 0..m |-> IF k = 0 THEN start ELSE Step(k, f[k - 1])]
           upTo[k \in 0..Len(texts[p][version[p]])] ==
             IF k = 0 THEN [works |-> works, refs |-> {}, items |-> {}]
             ELSE ReadEntry(p, run, online, k, upTo[k - 1])
<1>0. n \in Nat
  BY TextIsSequence
<1>1. Reading(p, run, online) = upTo[n]
  BY DEF Reading, TextOf
<1>2. upTo = CHOOSE f : Is(f, n)
  BY DEF TextOf
<1> HIDE DEF upTo, Step, start, n
<1>3. \A m \in Nat : \E f : Is(f, m)
  <2> DEFINE Bad == {m \in Nat : ~ \E f : Is(f, m)}
  <2> SUFFICES ASSUME Bad # {} PROVE FALSE
    OBVIOUS
  <2>1. PICK m \in Bad : \A j \in Bad : m <= j
    <3>1. Bad \in SUBSET Nat
      OBVIOUS
    <3> HIDE DEF Bad
    <3> QED BY <3>1, HasLeast
  <2>2. CASE m = 0
    <3> DEFINE f == [k \in 0..0 |-> start]
    <3>1. Is(f, 0)
      OBVIOUS
    <3> QED BY <3>1, <2>2
  <2>3. CASE m # 0
    <3>0. m \in Nat
      OBVIOUS
    <3>1. m - 1 \in Nat /\ m - 1 \notin Bad /\ m \in Nat
      <4>1. m - 1 \in Nat /\ ~(m <= m - 1)
        BY <3>0, <2>3
      <4> HIDE DEF Bad
      <4> QED BY <4>1, <3>0, <2>1
    <3>2. PICK g : Is(g, m - 1)
      BY <3>1
    <3> DEFINE f == [k \in 0..m |-> IF k = m THEN Step(m, g[m - 1]) ELSE g[k]]
    <3>3. ASSUME NEW k \in 0..m PROVE f[k] = IF k = 0 THEN start ELSE Step(k, f[k - 1])
      <4>1. CASE k = 0
        BY <4>1, <3>1, <3>2, <2>3
      <4>2. CASE k # 0 /\ k = m
        <5>1. k - 1 \in 0..m /\ k - 1 # m /\ f[k - 1] = g[m - 1]
          BY <4>2, <3>1
        <5> QED BY <4>2, <5>1, <3>1
      <4>3. CASE k # 0 /\ k # m
        <5>1. k \in 0..(m - 1) /\ k - 1 \in 0..m /\ k - 1 # m
          BY <4>3, <3>1
        <5>2. f[k] = g[k] /\ f[k - 1] = g[k - 1]
          BY <4>3, <5>1
        <5>3. g[k] = Step(k, g[k - 1])
          BY <3>2, <5>1, <4>3
        <5> QED BY <5>2, <5>3, <4>3
      <4> QED BY <4>1, <4>2, <4>3
    <3>4. Is(f, m)
      <4>1. f = [k \in 0..m |-> f[k]]
        OBVIOUS
      <4> HIDE DEF f
      <4> QED BY <3>3, <4>1
    <3> QED BY <3>4
  <2> QED BY <2>2, <2>3
<1>4. Is(upTo, n)
  <2>1. \E f : Is(f, n)
    BY <1>0, <1>3
  <2> QED BY <1>2, <2>1
<1>5. \A k \in 0..n : ReadSoFar(p, run, k, upTo[k])
  <2> DEFINE Bad == {k \in 0..n : ~ReadSoFar(p, run, k, upTo[k])}
  <2> SUFFICES ASSUME Bad # {} PROVE FALSE
    OBVIOUS
  <2>1. PICK k \in Bad : \A j \in Bad : k <= j
    <3>1. Bad \in SUBSET Nat
      BY <1>0
    <3> HIDE DEF Bad
    <3> QED BY <3>1, HasLeast
  <2>2. CASE k = 0
    <3>1. upTo[0] = start
      BY <1>4, <1>0
    <3>2. ReadSoFar(p, run, 0, start)
      BY DEF start, ReadSoFar, CiteTypeOK, Once, Grown
    <3> QED BY <3>1, <3>2, <2>2
  <2>3. CASE k # 0
    <3>1. k - 1 \in 0..n /\ k - 1 \notin Bad /\ k \in Nat \ {0}
      BY <2>1, <2>3, <1>0
    <3>2. ReadSoFar(p, run, k - 1, upTo[k - 1])
      BY <3>1
    <3>3. upTo[k] = ReadEntry(p, run, online, k, upTo[k - 1])
      BY <1>4, <3>1, <2>3 DEF Step
    <3> QED BY <3>1, <3>2, <3>3, EntryKeeps
  <2> QED BY <2>2, <2>3
<1> QED
  <2>1. n \in 0..n
    BY <1>0
  <2> QED BY <2>1, <1>1, <1>5 DEF n

-----------------------------------------------------------------------------
(* Every step keeps the invariant. *)

LEMMA CiteInitOK == CiteInit => CiteInv
<1> SUFFICES ASSUME CiteInit PROVE CiteInv
  OBVIOUS
<1> USE DEF CiteInit, CiteStart
<1>1. CiteTypeOK
  <2>1. \E S : works \in Seq(S)
    BY CiteAssumption DEF IsSequence
  <2> QED BY <2>1 DEF CiteTypeOK
<1>2. RefsOK /\ ItemsOK /\ EdgesOK /\ VerdictsOK
  BY DEF RefsOK, Once, ItemsOK, EdgesOK, VerdictsOK
<1> QED BY <1>1, <1>2 DEF CiteInv

\* Confirmation and the order of ids do not depend on what else moved.
LEMMA ConfirmedNext ==
  ASSUME texts' = texts, Grown(works, works'), NEW r, ConfirmedIn(works, r)
  PROVE  ConfirmedIn(works, r)'
<1>1. ConfirmedIn(works', r)
  BY ConfirmedLater
<1> QED BY <1>1 DEF ConfirmedIn, EntryOf

LEMMA SameWorksGrown == CiteTypeOK /\ works' = works => Grown(works, works')
<1> SUFFICES ASSUME CiteTypeOK, works' = works PROVE Grown(works, works')
  OBVIOUS
<1>1. PICK S : works \in Seq(S)
  BY DEF CiteTypeOK
<1>2. Len(works) \in Nat
  BY <1>1
<1> QED BY <1>2 DEF Grown

LEMMA ConvertKeeps ==
  ASSUME CiteInv, NEW p \in 1..CitingPapers, Convert(p)
  PROVE  CiteInv'
<1> USE DEF CiteInv
<1>1. UNCHANGED <<texts, works, refs, items, edges, runs, reads, outcome>>
  BY DEF Convert
<1>2. CiteTypeOK'
  BY DEF CiteTypeOK, Convert, ItemShape
<1>3. RefsOK'
  BY <1>1, ConfirmedNext, SameWorksGrown DEF RefsOK, Once, RefOK
<1>4. ItemsOK' /\ EdgesOK' /\ VerdictsOK'
  BY <1>1 DEF ItemsOK, EdgesOK, EdgeOK, SameKey, VerdictsOK
<1> QED BY <1>2, <1>3, <1>4

LEMMA CiteProjectKeeps ==
  ASSUME CiteInv, CiteProject
  PROVE  CiteInv'
<1> USE DEF CiteInv
<1> DEFINE more == edges' \ edges
<1>1. UNCHANGED <<texts, version, works, refs, items, reads, outcome>> /\ runs' = runs + 1 /\ edges \subseteq edges'
  BY DEF CiteProject
<1>2. \A e \in more : /\ e \in EdgeRec /\ e.prov = "provider_reference" /\ e.ref = NoRef
  <2>1. PICK S : works \in Seq(S)
    BY DEF CiteTypeOK
  <2>2. Len(works) \in Nat
    BY <2>1
  <2> SUFFICES ASSUME NEW c \in (1..CitingPapers) \X (1..Len(works)), NEW e,
                      e = Edge(c[1], c[2], "provider_reference", runs + 1, NoRef)
               PROVE  e \in EdgeRec /\ e.prov = "provider_reference" /\ e.ref = NoRef
    BY DEF CiteProject
  <2>3. e = [src |-> c[1], tgt |-> c[2], prov |-> "provider_reference", run |-> runs + 1, ref |-> NoRef]
    BY DEF Edge
  <2>4. NoRef \in Triple /\ c[1] \in 1..CitingPapers /\ c[2] \in Nat /\ runs + 1 \in Nat
    BY <2>2 DEF NoRef, Triple, CiteTypeOK
  <2> HIDE DEF NoRef
  <2> QED BY <2>3, <2>4 DEF EdgeRec
<1>3. CiteTypeOK'
  <2>1. edges' \in SUBSET EdgeRec
    BY <1>1, <1>2 DEF CiteTypeOK
  <2> QED BY <2>1, <1>1 DEF CiteTypeOK, ItemShape
<1>4. RefsOK'
  BY <1>1, ConfirmedNext, SameWorksGrown DEF RefsOK, Once, RefOK
<1>5. ItemsOK'
  BY <1>1 DEF ItemsOK
<1>6. EdgesOK'
  <2>1. \A e \in edges' : EdgeOK(e)'
    <3> SUFFICES ASSUME NEW e \in edges' PROVE EdgeOK(e)'
      OBVIOUS
    <3>1. CASE e \in edges
      BY <3>1, <1>1 DEF EdgesOK, EdgeOK
    <3>2. CASE e \in more
      BY <3>2, <1>2 DEF EdgeOK
    <3> QED BY <3>1, <3>2
  <2>2. \A e, x \in edges' : e.prov = "manual_override" /\ SameKey(x, e) => x = e
    BY <1>1, <1>2 DEF EdgesOK, SameKey
  <2> QED BY <2>1, <2>2 DEF EdgesOK, SameKey
<1>7. VerdictsOK'
  BY <1>1 DEF VerdictsOK
<1> QED BY <1>3, <1>4, <1>5, <1>6, <1>7

LEMMA OneMore ==
  ASSUME NEW N, NEW f \in [1..N -> Nat], NEW g, NEW p \in 1..N, g = [f EXCEPT ![p] = @ + 1]
  PROVE  /\ g \in [1..N -> Nat] /\ g[p] = f[p] + 1 /\ f[p] \in Nat
         /\ \A q \in 1..N : f[q] <= g[q] /\ f[q] \in Nat /\ g[q] \in Nat
OBVIOUS

\* A reading puts its entries, items and edges in the place of the last one's.
LEMMA CiteParseKeeps ==
  ASSUME CiteInv, NEW p \in 1..CitingPapers, NEW run \in 1..runs, NEW force \in BOOLEAN, NEW online \in BOOLEAN,
         CiteParse(p, run, force, online)
  PROVE  CiteInv'
<1> USE DEF CiteInv
<1> DEFINE read == Reading(p, run, online)
           gone == Cleared(p, run)
           shown == Projected(read.refs, p, run)
           n == Len(TextOf(p))
<1>0. /\ HasText(p) /\ UNCHANGED <<texts, version, runs>>
      /\ outcome' = [outcome EXCEPT ![p] = [kind |-> "parsed", run |-> run]]
      /\ NamedBy(edges \ gone) \cap {r.id : r \in RefsBy(p)} = {}
      /\ works' = read.works /\ refs' = (refs \ RefsBy(p)) \cup read.refs
      /\ items' = items \cup read.items /\ edges' = (edges \ gone) \cup shown
      /\ reads' = [reads EXCEPT ![p] = @ + 1]
  BY DEF CiteParse
<1> run \in Nat
  BY DEF CiteTypeOK
<1>1. ReadSoFar(p, run, n, read)
  BY <1>0, ReadingKeeps
<1> HIDE DEF read, n
<1>2. /\ reads' \in [1..CitingPapers -> Nat] /\ reads'[p] = reads[p] + 1 /\ reads[p] \in Nat
      /\ \A q \in 1..CitingPapers : reads[q] <= reads'[q] /\ reads[q] \in Nat /\ reads'[q] \in Nat
  <2>1. reads \in [1..CitingPapers -> Nat] /\ reads' = [reads EXCEPT ![p] = @ + 1]
    BY <1>0 DEF CiteTypeOK
  <2> HIDE DEF CiteInv
  <2> QED BY <2>1, OneMore
<1>3. \A r \in read.refs : /\ r \in RefRec /\ r.paper = p /\ r.id[1] = p /\ r.id[2] = reads[p] + 1
                           /\ r.status # "resolved" => r.source = "none"
                           /\ r.source # "manual_override" /\ ConfirmedIn(works', r)
  BY <1>0, <1>1 DEF ReadSoFar
<1>4. /\ Grown(works, works') /\ Once(read.refs) /\ (\E S : works' \in Seq(S))
      /\ \A i, j \in read.items : i.ref = j.ref => i = j
  BY <1>0, <1>1 DEF ReadSoFar
<1>5. \A i \in read.items : /\ ItemShape(i) /\ i.paper = p /\ i.ref[1] = p /\ i.ref[2] = reads[p] + 1
                            /\ \A r \in read.refs : r.id = i.ref => r.status # "resolved"
  BY <1>1 DEF ReadSoFar
<1>6. \A r \in refs : /\ r \in RefRec /\ RefOK(r) /\ r.id[1] = r.paper /\ r.paper \in 1..CitingPapers
                      /\ r.id[2] <= reads[r.paper] /\ ConfirmedIn(works, r)
                      /\ (r \in RefsBy(p) <=> r.paper = p)
  <2>1. \A r \in refs : r \in RefRec /\ RefOK(r) /\ ConfirmedIn(works, r)
    BY DEF RefsOK, CiteTypeOK
  <2>2. \A r \in RefRec : r.paper \in 1..CitingPapers
    BY DEF RefRec
  <2> QED BY <2>1, <2>2 DEF RefOK, RefsBy
<1>7. \A i \in items : /\ ItemShape(i) /\ i.ref[1] = i.paper /\ i.ref[2] <= reads[i.paper] /\ i.paper \in 1..CitingPapers
  BY DEF CiteTypeOK, ItemsOK, ItemShape
<1>8. RefsOK'
  <2>1. Once(refs')
    BY <1>0, <1>3, <1>4, <1>6 DEF RefsOK, Once
  <2>2. ASSUME NEW r \in refs' PROVE RefOK(r)' /\ ConfirmedIn(works, r)'
    <3>1. CASE r \in refs \ RefsBy(p)
      <4>1. ConfirmedIn(works, r)'
        BY <3>1, <1>0, <1>4, <1>6, ConfirmedNext
      <4>2. r.id[2] <= reads'[r.paper]
        BY <3>1, <1>0, <1>6 DEF CiteTypeOK
      <4>3. RefOK(r)
        BY <3>1, <1>6
      <4> QED BY <4>1, <4>2, <4>3 DEF RefOK
    <3>2. CASE r \in read.refs
      <4>1. ConfirmedIn(works, r)'
        BY <3>2, <1>0, <1>3 DEF ConfirmedIn, EntryOf
      <4>2. RefOK(r)'
        BY <3>2, <1>2, <1>3 DEF RefOK
      <4> QED BY <4>1, <4>2
    <3> QED BY <3>1, <3>2, <1>0
  <2> QED BY <2>1, <2>2 DEF RefsOK, Once
<1>9. ItemsOK'
  <2>1. \A i \in items, j \in read.items : i.ref # j.ref
    BY <1>2, <1>5, <1>7
  <2>2. \A i, j \in items' : i.ref = j.ref => i = j
    BY <1>0, <1>4, <2>1 DEF ItemsOK
  <2>3. ASSUME NEW i \in items'
        PROVE  i.ref[1] = i.paper /\ i.ref[2] <= reads'[i.paper]
    <3>1. CASE i \in items
      <4>1. i.ref[2] \in Nat
        BY <3>1, <1>7 DEF ItemShape, Triple
      <4> QED BY <4>1, <3>1, <1>2, <1>7
    <3>2. CASE i \in read.items
      BY <3>2, <1>2, <1>5
    <3> QED BY <3>1, <3>2, <1>0
  <2>4. ASSUME NEW i \in items', i.open, NEW r \in refs', r.id = i.ref
        PROVE  r.status # "resolved"
    <3>1. CASE i \in items /\ r \in refs
      BY <3>1, <2>4 DEF ItemsOK
    <3>2. CASE i \in items /\ r \in read.refs
      BY <3>2, <2>4, <1>2, <1>3, <1>7
    <3>3. CASE i \in read.items /\ r \in refs \ RefsBy(p)
      BY <3>3, <2>4, <1>5, <1>6
    <3>4. CASE i \in read.items /\ r \in read.refs
      BY <3>4, <2>4, <1>5
    <3> QED BY <3>1, <3>2, <3>3, <3>4, <1>0
  <2> QED BY <2>2, <2>3, <2>4 DEF ItemsOK
<1>10. \A e \in shown : /\ e \in EdgeRec /\ e.prov = "parsed_bibliography" /\ e.src = p
                        /\ \E r \in read.refs : r.id = e.ref /\ r.status = "resolved" /\ r.target = e.tgt
  <2> SUFFICES ASSUME NEW r \in read.refs, r.status = "resolved", NEW e,
                      e = Edge(p, r.target, "parsed_bibliography", run, r.id)
               PROVE  e \in EdgeRec /\ e.prov = "parsed_bibliography" /\ e.src = p /\ r.id = e.ref /\ r.target = e.tgt
    BY DEF Projected
  <2>1. e = [src |-> p, tgt |-> r.target, prov |-> "parsed_bibliography", run |-> run, ref |-> r.id]
    BY DEF Edge
  <2>2. r.target \in Nat /\ r.id \in Triple
    BY <1>3 DEF RefRec
  <2> QED BY <2>1, <2>2 DEF EdgeRec
<1>11. \A e \in edges : e \in EdgeRec /\ EdgeOK(e)
  BY DEF CiteTypeOK, EdgesOK
<1>12. \A e \in edges \ gone, r \in RefsBy(p) : e.ref # r.id
  BY <1>0 DEF NamedBy
<1>13. \A e \in edges : e \in gone <=> e.src = p /\ e.prov = "parsed_bibliography"
  BY DEF Cleared
<1> HIDE DEF gone, shown
<1>14. EdgesOK'
  <2>1. ASSUME NEW e \in edges' PROVE EdgeOK(e)'
    <3>1. CASE e \in edges \ gone
      <4>1. EdgeOK(e)
        BY <3>1, <1>11
      <4>2. CASE e.prov = "parsed_bibliography"
        <5>1. PICK r \in refs : r.id = e.ref /\ r.status = "resolved" /\ r.target = e.tgt /\ r.paper = e.src
          BY <4>1, <4>2 DEF EdgeOK
        <5>2. r \in refs'
          BY <3>1, <4>2, <5>1, <1>0, <1>6, <1>13
        <5> QED BY <5>1, <5>2, <4>2 DEF EdgeOK
      <4>3. CASE e.prov = "manual_override"
        <5>1. PICK r \in refs : r.id = e.ref /\ r.paper = e.src
          BY <4>1, <4>3 DEF EdgeOK
        <5>2. r \in refs'
          BY <3>1, <5>1, <1>0, <1>12
        <5> QED BY <5>1, <5>2, <4>3 DEF EdgeOK
      <4>4. CASE e.prov = "provider_reference"
        BY <4>1, <4>4 DEF EdgeOK
      <4>5. e.prov \in {"manual_override", "parsed_bibliography", "provider_reference"}
        BY <3>1, <1>11 DEF EdgeRec
      <4> QED BY <4>2, <4>3, <4>4, <4>5
    <3>2. CASE e \in shown
      <4>1. PICK r \in read.refs : r.id = e.ref /\ r.status = "resolved" /\ r.target = e.tgt
        BY <3>2, <1>10
      <4>2. r \in refs' /\ r.paper = e.src /\ e.prov = "parsed_bibliography"
        BY <3>2, <4>1, <1>0, <1>3, <1>10
      <4> QED BY <4>1, <4>2 DEF EdgeOK
    <3> QED BY <3>1, <3>2, <1>0
  <2>2. \A e, x \in edges' : e.prov = "manual_override" /\ SameKey(x, e) => x = e
    BY <1>0, <1>10 DEF EdgesOK, SameKey
  <2> QED BY <2>1, <2>2 DEF EdgesOK, SameKey
<1>15. \A e \in edges : e.prov = "manual_override" => e \in edges'
  BY <1>0, <1>13
<1>16. VerdictsOK'
  <2>1. ASSUME NEW r \in refs', r.source = "manual_override"
        PROVE  \E e \in edges' : e.prov = "manual_override" /\ e.src = r.paper
    <3>1. r \in refs
      BY <2>1, <1>0, <1>3
    <3> QED BY <2>1, <3>1, <1>15 DEF VerdictsOK
  <2>2. ASSUME NEW q \in 1..CitingPapers, outcome'[q].kind = "refused"
        PROVE  \E e \in edges' : e.prov = "manual_override" /\ e.src = q
    <3>1. outcome[q].kind = "refused"
      BY <2>2, <1>0 DEF CiteTypeOK
    <3> QED BY <3>1, <1>15 DEF VerdictsOK
  <2> QED BY <2>1, <2>2 DEF VerdictsOK
<1>17. CiteTypeOK'
  <2>1. refs' \in SUBSET RefRec /\ edges' \in SUBSET EdgeRec
    BY <1>0, <1>3, <1>6, <1>10, <1>11
  <2>2. \A i \in items' : ItemShape(i)
    BY <1>0, <1>5, <1>7
  <2>3. DOMAIN outcome' = 1..CitingPapers
    BY <1>0 DEF CiteTypeOK
  <2> QED BY <2>1, <2>2, <2>3, <1>0, <1>2, <1>4 DEF CiteTypeOK, ItemShape
<1> QED BY <1>8, <1>9, <1>14, <1>16, <1>17

LEMMA CiteCurrentKeeps ==
  ASSUME CiteInv, NEW p \in 1..CitingPapers, NEW run \in 1..runs, CiteCurrent(p, run)
  PROVE  CiteInv'
<1> USE DEF CiteInv
<1> DEFINE more == edges' \ edges
<1>1. /\ UNCHANGED <<texts, version, works, refs, items, runs, reads>> /\ edges \subseteq edges'
      /\ outcome' = [outcome EXCEPT ![p] = [kind |-> "parsed", run |-> run]]
  BY DEF CiteCurrent, Completed
<1>2. \A e \in more : /\ e \in EdgeRec /\ e.prov = "parsed_bibliography" /\ e.src = p
                      /\ \E r \in refs : r.id = e.ref /\ r.status = "resolved" /\ r.target = e.tgt /\ r.paper = p
  <2> SUFFICES ASSUME NEW r \in refs, r.paper = p, r.status = "resolved", NEW e,
                      e = Edge(p, r.target, "parsed_bibliography", run, r.id)
               PROVE  e \in EdgeRec /\ e.prov = "parsed_bibliography" /\ e.src = p /\ r.id = e.ref /\ r.target = e.tgt
    BY DEF CiteCurrent, Completed, Projected
  <2>1. e = [src |-> p, tgt |-> r.target, prov |-> "parsed_bibliography", run |-> run, ref |-> r.id]
    BY DEF Edge
  <2>2. r.target \in Nat /\ r.id \in Triple /\ run \in Nat
    BY DEF RefRec, CiteTypeOK
  <2> QED BY <2>1, <2>2 DEF EdgeRec
<1>3. CiteTypeOK'
  <2>1. edges' \in SUBSET EdgeRec
    BY <1>1, <1>2 DEF CiteTypeOK
  <2> QED BY <2>1, <1>1 DEF CiteTypeOK, ItemShape
<1>4. RefsOK'
  BY <1>1, ConfirmedNext, SameWorksGrown DEF RefsOK, Once, RefOK
<1>5. ItemsOK'
  BY <1>1 DEF ItemsOK
<1>6. EdgesOK'
  <2>1. ASSUME NEW e \in edges' PROVE EdgeOK(e)'
    <3>1. CASE e \in edges
      BY <3>1, <1>1 DEF EdgesOK, EdgeOK
    <3>2. CASE e \in more
      <4>1. e.prov = "parsed_bibliography" /\ \E r \in refs' : r.id = e.ref /\ r.status = "resolved"
                                                              /\ r.target = e.tgt /\ r.paper = e.src
        BY <3>2, <1>1, <1>2
      <4> QED BY <4>1 DEF EdgeOK
    <3> QED BY <3>1, <3>2
  <2>2. \A e, x \in edges' : e.prov = "manual_override" /\ SameKey(x, e) => x = e
    BY <1>1, <1>2 DEF EdgesOK, SameKey
  <2> QED BY <2>1, <2>2 DEF EdgesOK, SameKey
<1>7. VerdictsOK'
  BY <1>1 DEF VerdictsOK, CiteTypeOK
<1> QED BY <1>3, <1>4, <1>5, <1>6, <1>7

\* What refuses a parse is an edge that names an entry of the paper and is not
\* cleared: a person's.
LEMMA CiteRefusedKeeps ==
  ASSUME CiteInv, NEW p \in 1..CitingPapers, NEW run \in 1..runs, NEW force \in BOOLEAN, CiteRefused(p, run, force)
  PROVE  CiteInv'
<1> USE DEF CiteInv
<1>1. /\ UNCHANGED <<texts, version, works, refs, items, edges, runs, reads>>
      /\ outcome' = [outcome EXCEPT ![p] = [kind |-> "refused", run |-> run]]
      /\ NamedBy(edges \ Cleared(p, run)) \cap {r.id : r \in RefsBy(p)} # {}
  BY DEF CiteRefused
<1>2. PICK e \in edges \ Cleared(p, run), r \in refs : r.paper = p /\ e.ref = r.id
  BY <1>1 DEF NamedBy, RefsBy
<1>3. e.prov = "manual_override" /\ e.src = p
  <2>1. EdgeOK(e) /\ e.prov \in {"manual_override", "parsed_bibliography", "provider_reference"}
    BY DEF CiteTypeOK, EdgeRec, EdgesOK
  <2>2. r.id[1] = p /\ Once(refs)
    BY <1>2 DEF RefsOK, RefOK
  <2>3. CASE e.prov = "provider_reference"
    <3>1. e.ref[1] = 0
      BY <2>1, <2>3 DEF EdgeOK, NoRef
    <3> QED BY <3>1, <2>2, <1>2
  <2>4. CASE e.prov = "parsed_bibliography"
    <3>1. PICK s \in refs : s.id = e.ref /\ s.paper = e.src
      BY <2>1, <2>4 DEF EdgeOK
    <3>2. e.src = p
      BY <3>1, <2>2, <1>2 DEF Once
    <3> QED BY <3>2, <2>4, <1>2 DEF Cleared
  <2>5. CASE e.prov = "manual_override"
    <3>1. PICK s \in refs : s.id = e.ref /\ s.paper = e.src
      BY <2>1, <2>5 DEF EdgeOK
    <3>2. e.src = p
      BY <3>1, <2>2, <1>2 DEF Once
    <3> QED BY <3>2, <2>5
  <2> QED BY <2>1, <2>3, <2>4, <2>5
<1>4. CiteTypeOK'
  BY <1>1 DEF CiteTypeOK, ItemShape
<1>5. RefsOK'
  BY <1>1, ConfirmedNext, SameWorksGrown DEF RefsOK, Once, RefOK
<1>6. ItemsOK' /\ EdgesOK'
  BY <1>1 DEF ItemsOK, EdgesOK, EdgeOK, SameKey
<1>7. VerdictsOK'
  BY <1>1, <1>3 DEF VerdictsOK, CiteTypeOK
<1> QED BY <1>4, <1>5, <1>6, <1>7

\* A closed item keeps its place.
LEMMA Closing ==
  ASSUME CiteTypeOK, ItemsOK, NEW i \in items, Close(i)
  PROVE  \E c : /\ items' = (items \ {i}) \cup {c} /\ ItemShape(c) /\ ~c.open
                /\ c.ref = i.ref /\ c.paper = i.paper
<1> DEFINE c == [i EXCEPT !.open = FALSE]
<1>1. items' = (items \ {i}) \cup {c}
  BY DEF Close
<1>2. ItemShape(i)
  BY DEF CiteTypeOK
<1>3. /\ c.open = FALSE /\ c.ref = i.ref /\ c.paper = i.paper /\ c.run = i.run /\ c.candidates = i.candidates
      /\ c = [ref |-> c.ref, paper |-> c.paper, run |-> c.run, candidates |-> c.candidates, open |-> c.open]
  <2>1. c = [i EXCEPT !.open = FALSE]
    OBVIOUS
  <2>2. i = [ref |-> i.ref, paper |-> i.paper, run |-> i.run, candidates |-> i.candidates, open |-> i.open]
    BY <1>2 DEF ItemShape
  <2> HIDE DEF c
  <2> QED BY <2>1, <2>2
<1> HIDE DEF c
<1>4. ItemShape(c)
  BY <1>2, <1>3 DEF ItemShape
<1> QED BY <1>1, <1>3, <1>4

\* An item that is closed with its entry left alone, or resolved by a person.
LEMMA ItemsClosed ==
  ASSUME CiteTypeOK, ItemsOK, NEW i \in items, Close(i), reads' = reads,
         \A r \in refs' : r.id # i.ref => r \in refs
  PROVE  ItemsOK' /\ \A j \in items' : ItemShape(j)
<1>1. PICK c : /\ items' = (items \ {i}) \cup {c} /\ ItemShape(c) /\ ~c.open
               /\ c.ref = i.ref /\ c.paper = i.paper
  BY Closing
<1>2. \A j, l \in items' : j.ref = l.ref => j = l
  BY <1>1 DEF ItemsOK
<1>3. ASSUME NEW j \in items'
      PROVE  /\ j.ref[1] = j.paper /\ j.ref[2] <= reads'[j.paper]
             /\ j.open => \A r \in refs' : r.id = j.ref => r.status # "resolved"
  <2>1. CASE j = c
    BY <2>1, <1>1 DEF ItemsOK
  <2>2. CASE j \in items \ {i}
    BY <2>2 DEF ItemsOK
  <2> QED BY <2>1, <2>2, <1>1
<1> QED BY <1>1, <1>2, <1>3 DEF ItemsOK, CiteTypeOK

LEMMA RejectKeeps ==
  ASSUME CiteInv, NEW i \in items, Reject(i)
  PROVE  CiteInv'
<1> USE DEF CiteInv
<1>1. UNCHANGED <<texts, version, works, refs, edges, runs, reads, outcome>> /\ Close(i)
  BY DEF Reject
<1>2. ItemsOK' /\ \A j \in items' : ItemShape(j)
  BY <1>1, ItemsClosed
<1>3. CiteTypeOK'
  BY <1>1, <1>2 DEF CiteTypeOK, ItemShape
<1>4. RefsOK'
  BY <1>1, ConfirmedNext, SameWorksGrown DEF RefsOK, Once, RefOK
<1>5. EdgesOK' /\ VerdictsOK'
  BY <1>1 DEF EdgesOK, EdgeOK, SameKey, VerdictsOK
<1> QED BY <1>2, <1>3, <1>4, <1>5

LEMMA VerdictKeeps ==
  ASSUME CiteInv, NEW i \in items, i.open, NEW w \in Nat, Verdict(i, w),
         Grown(works, works'), \E S : works' \in Seq(S),
         UNCHANGED <<texts, version, runs, reads, outcome>>
  PROVE  CiteInv' /\ VerdictLasts
<1> USE DEF CiteInv
<1> DEFINE e == Edge(i.paper, w, "manual_override", i.run, i.ref)
           Up(r) == [r EXCEPT !.status = "resolved", !.source = "manual_override", !.target = w]
<1>1. /\ Standing(i) \/ WriteEdge(edges, e) = edges
      /\ edges' = WriteEdge(edges, e)
      /\ refs' = {IF r.id = i.ref THEN Up(r) ELSE r : r \in refs}
      /\ Close(i)
  BY DEF Verdict
<1>2. ItemShape(i) /\ i.ref[1] = i.paper /\ i.paper \in 1..CitingPapers /\ i.run \in Nat /\ i.ref \in Triple
  BY DEF CiteTypeOK, ItemsOK, ItemShape
<1>3. /\ e \in EdgeRec /\ e.src = i.paper /\ e.tgt = w /\ e.prov = "manual_override" /\ e.run = i.run /\ e.ref = i.ref
  <2>1. e = [src |-> i.paper, tgt |-> w, prov |-> "manual_override", run |-> i.run, ref |-> i.ref]
    BY DEF Edge
  <2> QED BY <2>1, <1>2 DEF EdgeRec
<1>4. /\ \E x \in edges' : SameKey(x, e)
      /\ \/ edges' = edges
         \/ /\ edges' = edges \cup {e} /\ Standing(i)
            /\ ~ \E x \in edges : SameKey(x, e)
  <2>1. CASE \E x \in edges : <<x.src, x.tgt, x.prov, x.run>> = <<e.src, e.tgt, e.prov, e.run>>
    <3>1. edges' = edges
      BY <2>1, <1>1 DEF WriteEdge
    <3>2. \E x \in edges : SameKey(x, e)
      BY <2>1 DEF SameKey
    <3> QED BY <3>1, <3>2
  <2>2. CASE ~ \E x \in edges : <<x.src, x.tgt, x.prov, x.run>> = <<e.src, e.tgt, e.prov, e.run>>
    <3>1. WriteEdge(edges, e) = edges \cup {e}
      BY <2>2 DEF WriteEdge
    <3>2. ~ \E x \in edges : SameKey(x, e)
      BY <2>2 DEF SameKey
    <3>3. e \notin edges /\ SameKey(e, e)
      BY <3>2 DEF SameKey
    <3> QED BY <1>1, <3>1, <3>2, <3>3
  <2> QED BY <2>1, <2>2
<1> HIDE DEF e
<1>5. \A r \in refs : /\ r \in RefRec /\ RefOK(r) /\ ConfirmedIn(works, r)
                      /\ r.id = i.ref => /\ r.status # "resolved" /\ r.source # "manual_override" /\ r.paper = i.paper
  <2>1. \A r \in refs : r \in RefRec /\ RefOK(r) /\ ConfirmedIn(works, r)
    BY DEF RefsOK, CiteTypeOK
  <2>2. \A r \in refs : r.id = i.ref => r.status # "resolved"
    BY DEF ItemsOK
  <2> QED BY <2>1, <2>2, <1>2 DEF RefOK
<1>6. \A r \in refs : LET s == Up(r) IN
         /\ s \in RefRec /\ s.id = r.id /\ s.paper = r.paper /\ s.version = r.version
         /\ s.status = "resolved" /\ s.source = "manual_override" /\ s.target = w
  <2> SUFFICES ASSUME NEW r \in refs, NEW s, s = Up(r)
               PROVE  /\ s \in RefRec /\ s.id = r.id /\ s.paper = r.paper /\ s.version = r.version
                      /\ s.status = "resolved" /\ s.source = "manual_override" /\ s.target = w
    OBVIOUS
  <2> r \in RefRec
    BY <1>5
  <2>1. s = [r EXCEPT !.status = "resolved", !.source = "manual_override", !.target = w]
    OBVIOUS
  <2> HIDE DEF Up
  <2> QED BY <2>1 DEF RefRec
<1> HIDE DEF Up
<1>7. \A s \in refs' : \/ s \in refs /\ s.id # i.ref
                       \/ \E r \in refs : r.id = i.ref /\ s = Up(r)
  BY <1>1
<1>8. \A r \in refs : r.id # i.ref => r \in refs'
  BY <1>1
<1>9. \A r \in refs : r.id = i.ref => Up(r) \in refs'
  BY <1>1
<1>10. ItemsOK' /\ \A j \in items' : ItemShape(j)
  <2>1. \A r \in refs' : r.id # i.ref => r \in refs
    BY <1>6, <1>7
  <2> QED BY <2>1, <1>1, ItemsClosed
<1>11. RefsOK'
  <2>1. Once(refs')
    <3> SUFFICES ASSUME NEW a \in refs', NEW b \in refs', a.id = b.id PROVE a = b
      BY DEF Once
    <3>1. CASE a.id = i.ref
      <4>1. PICK r \in refs : r.id = i.ref /\ a = Up(r)
        BY <3>1, <1>7
      <4>2. PICK t \in refs : t.id = i.ref /\ b = Up(t)
        BY <3>1, <1>7
      <4>3. r = t
        BY <4>1, <4>2 DEF RefsOK, Once
      <4> QED BY <4>1, <4>2, <4>3
    <3>2. CASE a.id # i.ref
      <4>1. a \in refs /\ b \in refs
        BY <3>2, <1>6, <1>7
      <4> QED BY <4>1 DEF RefsOK, Once
    <3> QED BY <3>1, <3>2
  <2>2. ASSUME NEW s \in refs' PROVE RefOK(s)' /\ ConfirmedIn(works, s)'
    <3>1. CASE s \in refs
      <4>1. ConfirmedIn(works, s)'
        BY <3>1, <1>5, ConfirmedNext
      <4>2. RefOK(s)'
        BY <3>1, <1>5 DEF RefOK
      <4> QED BY <4>1, <4>2
    <3>2. CASE \E r \in refs : r.id = i.ref /\ s = Up(r)
      <4>1. PICK r \in refs : r.id = i.ref /\ s = Up(r)
        BY <3>2
      <4>2. s.id = r.id /\ s.paper = r.paper /\ s.status = "resolved" /\ s.source = "manual_override" /\ RefOK(r)
        BY <4>1, <1>5, <1>6
      <4> QED BY <4>2 DEF RefOK, ConfirmedIn
    <3> QED BY <3>1, <3>2, <1>7
  <2> QED BY <2>1, <2>2 DEF RefsOK, Once
<1>12. EdgesOK'
  <2>1. ASSUME NEW x \in edges PROVE EdgeOK(x)'
    <3>1. EdgeOK(x)
      BY DEF EdgesOK
    <3>2. CASE x.prov = "parsed_bibliography"
      <4>1. PICK r \in refs : r.id = x.ref /\ r.status = "resolved" /\ r.target = x.tgt /\ r.paper = x.src
        BY <3>1, <3>2 DEF EdgeOK
      <4>2. r \in refs'
        BY <4>1, <1>5, <1>8
      <4> QED BY <3>2, <4>1, <4>2 DEF EdgeOK
    <3>3. CASE x.prov = "manual_override"
      <4>1. PICK r \in refs : r.id = x.ref /\ r.paper = x.src
        BY <3>1, <3>3 DEF EdgeOK
      <4>2. \E s \in refs' : s.id = x.ref /\ s.paper = x.src
        BY <4>1, <1>6, <1>8, <1>9
      <4> QED BY <3>3, <4>2 DEF EdgeOK
    <3>4. CASE x.prov = "provider_reference"
      BY <3>1, <3>4 DEF EdgeOK
    <3>5. x.prov \in {"manual_override", "parsed_bibliography", "provider_reference"}
      BY DEF CiteTypeOK, EdgeRec
    <3> QED BY <3>2, <3>3, <3>4, <3>5
  <2>2. ASSUME Standing(i) PROVE EdgeOK(e)'
    <3>1. PICK r \in refs : r.id = i.ref
      BY <2>2 DEF Standing
    <3>2. Up(r) \in refs' /\ Up(r).id = e.ref /\ Up(r).paper = e.src
      BY <3>1, <1>3, <1>5, <1>6, <1>9
    <3> QED BY <3>2, <1>3 DEF EdgeOK
  <2>3. \A x \in edges' : EdgeOK(x)'
    BY <2>1, <2>2, <1>4
  <2>4. \A a, x \in edges' : a.prov = "manual_override" /\ SameKey(x, a) => x = a
    <3>1. CASE edges' = edges
      BY <3>1 DEF EdgesOK
    <3>2. CASE edges' = edges \cup {e} /\ ~ \E x \in edges : SameKey(x, e)
      BY <3>2 DEF EdgesOK, SameKey
    <3> QED BY <3>1, <3>2, <1>4
  <2> QED BY <2>3, <2>4 DEF EdgesOK, SameKey
<1>13. \A x \in edges : x \in edges'
  BY <1>4
<1>14. VerdictsOK'
  <2>1. ASSUME NEW s \in refs', s.source = "manual_override"
        PROVE  \E x \in edges' : x.prov = "manual_override" /\ x.src = s.paper
    <3>1. CASE s \in refs
      BY <2>1, <3>1, <1>13 DEF VerdictsOK
    <3>2. CASE \E r \in refs : r.id = i.ref /\ s = Up(r)
      <4>1. s.paper = i.paper
        BY <3>2, <1>5, <1>6
      <4> QED BY <4>1, <1>3, <1>4 DEF SameKey
    <3> QED BY <3>1, <3>2, <1>7
  <2> QED BY <2>1, <1>13 DEF VerdictsOK
<1>15. CiteTypeOK'
  <2>1. refs' \in SUBSET RefRec
    BY <1>5, <1>6, <1>7
  <2>2. edges' \in SUBSET EdgeRec
    BY <1>3, <1>4 DEF CiteTypeOK
  <2> QED BY <2>1, <2>2, <1>10 DEF CiteTypeOK, ItemShape
<1>16. VerdictLasts
  BY <1>5, <1>8 DEF VerdictLasts
<1> QED BY <1>10, <1>11, <1>12, <1>14, <1>15, <1>16

LEMMA ApproveKeeps ==
  ASSUME CiteInv, NEW i \in items, Approve(i)
  PROVE  CiteInv' /\ VerdictLasts
<1>1. i.open /\ UNCHANGED <<texts, version, runs, reads, outcome>>
  BY DEF Approve
<1>2. PICK S : works \in Seq(S)
  BY DEF CiteInv, CiteTypeOK
<1>3. CASE \E w \in 1..Len(works) : Verdict(i, w) /\ works' = works
  <2>1. PICK w \in 1..Len(works) : Verdict(i, w) /\ works' = works
    BY <1>3
  <2>2. w \in Nat /\ Grown(works, works')
    BY <1>2, <2>1, SameWorksGrown DEF CiteInv
  <2> QED BY <1>1, <1>2, <2>1, <2>2, VerdictKeeps
<1>4. CASE \E k \in 1..Len(i.candidates) : \E put \in {UpsertWork(works, i.candidates[k])} :
             Verdict(i, put.work) /\ works' = put.works
  <2>0. PICK k \in 1..Len(i.candidates) : \E put \in {UpsertWork(works, i.candidates[k])} :
          Verdict(i, put.work) /\ works' = put.works
    BY <1>4
  <2> DEFINE put == UpsertWork(works, i.candidates[k])
  <2>1. Verdict(i, put.work) /\ works' = put.works
    BY <2>0
  <2>2. (\E T : works' \in Seq(T)) /\ Grown(works, works') /\ put.work \in 1..Len(works')
    BY <1>2, <2>1, UpsertStands
  <2> HIDE DEF put
  <2>3. put.work \in Nat
    BY <2>2 DEF Grown
  <2> QED BY <1>1, <2>1, <2>2, <2>3, VerdictKeeps
<1> QED BY <1>3, <1>4 DEF Approve

LEMMA CiteStutter ==
  ASSUME CiteInv, UNCHANGED citeVars
  PROVE  CiteInv'
<1> USE DEF CiteInv, citeVars
<1>1. CiteTypeOK'
  BY DEF CiteTypeOK, ItemShape
<1>2. RefsOK'
  BY ConfirmedNext, SameWorksGrown DEF RefsOK, Once, RefOK
<1>3. ItemsOK' /\ EdgesOK' /\ VerdictsOK'
  BY DEF ItemsOK, EdgesOK, EdgeOK, SameKey, VerdictsOK
<1> QED BY <1>1, <1>2, <1>3

\* The tables and what ties them to each other, in every reachable state.
THEOREM CitationsInvariant == CiteSpec => []CiteInv
<1>1. CiteInv /\ [CiteNext]_citeVars => CiteInv'
  BY ConvertKeeps, CiteProjectKeeps, CiteParseKeeps, CiteCurrentKeeps, CiteRefusedKeeps,
     ApproveKeeps, RejectKeeps, CiteStutter DEF CiteNext
<1> QED BY <1>1, CiteInitOK, PTL DEF CiteSpec

(* The edges tell the papers' present readings and the verdicts on them, for any *)
(* texts and whatever the providers answer: every parsed edge is backed by the   *)
(* entry it names, an entry is resolved without a person only to a work that     *)
(* stands for what was answered, only a verdict refuses a reading, and the graph *)
(* shows the verdict.                                                            *)
THEOREM EdgesTellThem == CiteSpec => []EdgesTellTheReadings
BY CitationsInvariant, EdgesTellNow, PTL

-----------------------------------------------------------------------------
(* What was settled stays visible. *)

\* Two references to one work leave an edge, of the one read first.
LEMMA ProjectedTells ==
  ASSUME NEW rs, NEW p, NEW run, NEW r \in rs, r.paper = p, r.status = "resolved", \A x \in rs : x.id[3] \in Nat
  PROVE  \E e \in Projected(rs, p, run) :
           e.src = p /\ e.tgt = r.target /\ e.run = run /\ e.prov = "parsed_bibliography"
<1> DEFINE good == {x \in rs : x.paper = p /\ x.status = "resolved"}
           same == {x.id[3] : x \in {y \in good : y.target = r.target}}
<1>1. same \in SUBSET Nat /\ same # {}
  OBVIOUS
<1>2. PICK m \in same : \A j \in same : m <= j
  <2> HIDE DEF same
  <2> QED BY <1>1, HasLeast
<1>3. PICK x \in good : x.target = r.target /\ x.id[3] = m
  OBVIOUS
<1>4. \A y \in good : y.target = x.target => x.id[3] <= y.id[3]
  BY <1>2, <1>3
<1> DEFINE e == Edge(p, x.target, "parsed_bibliography", run, x.id)
<1>5. e \in Projected(rs, p, run)
  BY <1>3, <1>4 DEF Projected
<1>6. e.src = p /\ e.tgt = r.target /\ e.run = run /\ e.prov = "parsed_bibliography"
  BY <1>3 DEF Edge
<1> QED BY <1>5, <1>6

LEMMA ThirdIsNat == \A r \in RefRec : r.id[3] \in Nat
BY DEF RefRec, Triple

LEMMA RunHasThem ==
  ASSUME CiteInv, CiteInv', CiteNext
  PROVE  RunHasEveryCitation
<1> SUFFICES ASSUME NEW p \in 1..CitingPapers, outcome'[p] # outcome[p], outcome'[p].kind = "parsed",
                    NEW r \in refs', r.paper = p, r.status = "resolved"
             PROVE  \E e \in edges' : e.src = p /\ e.tgt = r.target /\ e.run = outcome'[p].run
                                      /\ e.prov = "parsed_bibliography"
  BY DEF RunHasEveryCitation
<1>0. \A s \in refs' : s.id[3] \in Nat
  BY ThirdIsNat DEF CiteInv, CiteTypeOK
<1>1. ASSUME NEW q \in 1..CitingPapers, NEW run \in 1..runs, NEW force \in BOOLEAN, NEW online \in BOOLEAN,
             CiteParse(q, run, force, online)
      PROVE  \E e \in edges' : e.src = p /\ e.tgt = r.target /\ e.run = outcome'[p].run
                               /\ e.prov = "parsed_bibliography"
  <2> DEFINE read == Reading(q, run, online)
  <2>1. /\ outcome' = [outcome EXCEPT ![q] = [kind |-> "parsed", run |-> run]]
        /\ refs' = (refs \ RefsBy(q)) \cup read.refs
        /\ edges' = (edges \ Cleared(q, run)) \cup Projected(read.refs, q, run)
    BY <1>1 DEF CiteParse
  <2> HIDE DEF read
  <2>2. p = q /\ outcome'[p].run = run
    BY <2>1 DEF CiteInv, CiteTypeOK
  <2>3. r \in read.refs
    BY <2>1, <2>2 DEF RefsBy
  <2>4. \E e \in Projected(read.refs, q, run) :
           e.src = q /\ e.tgt = r.target /\ e.run = run /\ e.prov = "parsed_bibliography"
    BY <1>0, <2>1, <2>2, <2>3, ProjectedTells
  <2> QED BY <2>1, <2>2, <2>4
<1>2. ASSUME NEW q \in 1..CitingPapers, NEW run \in 1..runs, CiteCurrent(q, run)
      PROVE  \E e \in edges' : e.src = p /\ e.tgt = r.target /\ e.run = outcome'[p].run
                               /\ e.prov = "parsed_bibliography"
  <2>1. /\ outcome' = [outcome EXCEPT ![q] = [kind |-> "parsed", run |-> run]]
        /\ refs' = refs /\ edges' = Completed(q, run, Projected(refs, q, run))
    BY <1>2 DEF CiteCurrent
  <2>2. p = q /\ outcome'[p].run = run
    BY <2>1 DEF CiteInv, CiteTypeOK
  <2>3. PICK e \in Projected(refs, q, run) :
           e.src = q /\ e.tgt = r.target /\ e.run = run /\ e.prov = "parsed_bibliography"
    BY <1>0, <2>1, <2>2, ProjectedTells
  <2>4. CASE \A x \in edges : <<x.src, x.tgt, x.prov, x.run>> # <<e.src, e.tgt, e.prov, e.run>>
    <3>1. e \in edges'
      BY <2>1, <2>4 DEF Completed
    <3> QED BY <3>1, <2>2, <2>3
  <2>5. CASE \E x \in edges : <<x.src, x.tgt, x.prov, x.run>> = <<e.src, e.tgt, e.prov, e.run>>
    <3>1. PICK x \in edges : <<x.src, x.tgt, x.prov, x.run>> = <<e.src, e.tgt, e.prov, e.run>>
      BY <2>5
    <3>2. x \in edges' /\ x.src = e.src /\ x.tgt = e.tgt /\ x.prov = e.prov /\ x.run = e.run
      BY <3>1, <2>1 DEF Completed
    <3> QED BY <3>2, <2>2, <2>3
  <2> QED BY <2>4, <2>5
<1>3. ASSUME NEW q \in 1..CitingPapers, NEW run \in 1..runs, NEW force \in BOOLEAN, CiteRefused(q, run, force)
      PROVE  FALSE
  <2>1. outcome' = [outcome EXCEPT ![q] = [kind |-> "refused", run |-> run]]
    BY <1>3 DEF CiteRefused
  <2> QED BY <2>1 DEF CiteInv, CiteTypeOK
<1>4. outcome' # outcome
  OBVIOUS
<1>5. ASSUME \/ CiteProject \/ (\E q \in 1..CitingPapers : Convert(q))
             \/ (\E i \in items : Approve(i) \/ Reject(i))
      PROVE  FALSE
  BY <1>4, <1>5 DEF CiteProject, Convert, Approve, Reject
<1> QED BY <1>1, <1>2, <1>3, <1>5 DEF CiteNext

\* A paper with a verdict cannot be read again, so the verdict's entry stays.
LEMMA VerdictsLast ==
  ASSUME CiteInv, CiteNext
  PROVE  VerdictLasts
<1>1. ASSUME NEW p \in 1..CitingPapers, NEW run \in 1..runs, NEW force \in BOOLEAN, NEW online \in BOOLEAN,
             CiteParse(p, run, force, online)
      PROVE  VerdictLasts
  <2> DEFINE read == Reading(p, run, online)
  <2>1. /\ refs' = (refs \ RefsBy(p)) \cup read.refs
        /\ NamedBy(edges \ Cleared(p, run)) \cap {r.id : r \in RefsBy(p)} = {}
    BY <1>1 DEF CiteParse
  <2> SUFFICES ASSUME NEW r \in refs, r.source = "manual_override", r \in RefsBy(p) PROVE FALSE
    BY <2>1 DEF VerdictLasts
  <2>2. PICK e \in edges : e.prov = "manual_override" /\ e.src = p
    BY DEF CiteInv, VerdictsOK, RefsBy
  <2>3. PICK s \in refs : s.id = e.ref /\ s.paper = p
    BY <2>2 DEF CiteInv, EdgesOK, EdgeOK
  <2> QED BY <2>1, <2>2, <2>3 DEF NamedBy, RefsBy, Cleared
<1>2. ASSUME refs' = refs PROVE VerdictLasts
  BY <1>2 DEF VerdictLasts
<1> QED BY <1>1, <1>2, ApproveKeeps DEF CiteNext, CiteProject, Convert, CiteCurrent, CiteRefused, Reject

(* What was settled stays visible, in any history of readings, runs and verdicts: *)
(* a verdict whatever is parsed later, and a resolved entry in every run the      *)
(* paper is parsed for.                                                          *)
THEOREM CitationsStay == CiteSpec => CitationsLast
<1>1. CiteInv /\ CiteInv' /\ [CiteNext]_citeVars => [RunHasEveryCitation /\ VerdictLasts]_citeVars
  BY RunHasThem, VerdictsLast
<1> QED BY <1>1, CitationsInvariant, PTL DEF CiteSpec, CitationsLast

-----------------------------------------------------------------------------
(* III. The walk that grows the corpus. *)

AllIds == UNION {world.ids[p] : p \in Papers}
WorkRec == [ids : SUBSET AllIds, owns : SUBSET AllIds, title : Nat, standing : {"included", "metadata_only"}]

\* Works of the project: of one paper each, and an id has one owner.
WorksOK(ns) ==
  /\ ns \in Seq(WorkRec)
  /\ \A i \in 1..Len(ns) : (ns[i].ids = {} \/ SomeIds(world, ns[i].ids)) /\ ns[i].owns \subseteq ns[i].ids
  /\ \A i, j \in 1..Len(ns) : ns[i].owns \cap ns[j].owns # {} => i = j

CacheOK == \A c \in refCache : \E p \in Papers : c.key \in world.ids[p] /\ c.refs = world.mentions[p]

\* The id by which a recognisable paper is recognised is owned by its work, and its title is known.
Mark(p) == CHOOSE x \in world.ids[p] : Tells(x, p)
TitleKnown(work, p) == work.title = 0 \/ \E m \in MetOf(p) : m.title = work.title
Marked(ns) ==
  \A p \in Papers, i \in 1..Len(ns) :
    Recognisable(p) /\ ns[i].ids # {} /\ ns[i].ids \subseteq world.ids[p] => Mark(p) \in ns[i].owns /\ TitleKnown(ns[i], p)
Knowable == (\A p \in Papers : Recognisable(p)) /\ \A m \in Mentioned : m.ids = {} => m.title = 0
Told == outages = 0 /\ Knowable

\* What a source cites, once all of it is settled: the works that have what it mentions.
MentionsOf(ns, s) == IF ns[s].ids = {} THEN << >> ELSE world.mentions[PaperOf(ns[s].ids)]
Has(work, m) == m.ids # {} /\ m.ids \subseteq work.owns /\ (m.title # 0 => work.title # 0)
Linked(ns, s) ==
  {i \in 1..Len(ns) : \E k \in 1..Len(MentionsOf(ns, s)) : Has(ns[i], Enriched(MentionsOf(ns, s)[k], TRUE))} \ {s}
Settled(ns, s) ==
  /\ s \in 1..Len(ns)
  /\ \A k \in 1..Len(MentionsOf(ns, s)) :
       MentionsOf(ns, s)[k].ids # {} => \E i \in 1..Len(ns) : Has(ns[i], Enriched(MentionsOf(ns, s)[k], TRUE))
Links(ns, S) == UNION {{s} \X Linked(ns, s) : s \in S}

\* The generations of a walk are determined by the works there are in the end.
SeenBy(ns, F, g) == F[1] \cup UNION {Cited(Links(ns, F[h])) : h \in 1..(g - 1)}
IncludedIn(ns) == {i \in 1..Len(ns) : ns[i].standing = "included"}
Follows(ns, F) ==
  /\ F[1] = IncludedIn(ns)
  /\ \A g \in 1..(Len(F) - 1) : /\ \A s \in F[g] : Settled(ns, s)
                                /\ F[g + 1] = Frontier(Links(ns, F[g]), SeenBy(ns, F, g))
WholeWalk(F) ==
  /\ Len(F) \in 1..(MaxDepth + 1) /\ (Len(F) = MaxDepth + 1 \/ F[Len(F)] = {})
  /\ \A g \in 1..(Len(F) - 1) : F[g] # {}

WalkTypeOK ==
  /\ WorldOK(world)
  /\ walk \in [pc : {"idle", "expand", "commit"}, todo : SUBSET Nat, seen : SUBSET Nat, cites : SUBSET (Nat \X Nat),
               done : SUBSET Nat, frontiers : Seq(SUBSET Nat), before : Seq(WorkRec)]
  /\ reported \in Seq(SUBSET Nat)
  /\ outages \in Nat /\ walks \in Nat
AskedOnce ==
  walk.pc = "expand" =>
    /\ walk.todo \subseteq 1..Len(nodes) /\ walk.todo \cup walk.done \subseteq walk.seen /\ walk.todo \cap walk.done = {}
    /\ walk.cites \subseteq (1..Len(nodes)) \X (1..Len(nodes))
WorksAre ==
  /\ WorksOK(nodes) /\ (walk.pc # "idle" => WorksOK(walk.before))
  /\ outages = 0 => Marked(nodes) /\ (walk.pc # "idle" => Marked(walk.before))
Here(wk) == wk.frontiers[Len(wk.frontiers)]
Walking(ns, wk) ==
  /\ Len(wk.frontiers) \in 1..MaxDepth /\ \A g \in 1..Len(wk.frontiers) : wk.frontiers[g] # {}
  /\ wk.todo \subseteq Here(wk) /\ \A s \in Here(wk) \ wk.todo : Settled(ns, s)
  /\ wk.cites = Links(ns, Here(wk) \ wk.todo)
  /\ wk.seen = SeenBy(ns, wk.frontiers, Len(wk.frontiers))
Repeats(ns, wk, rep) ==
  /\ ns = wk.before /\ Len(wk.frontiers) <= Len(rep)
  /\ \A g \in 1..Len(wk.frontiers) : wk.frontiers[g] = rep[g]
HistoryOf(ns, wk, rep) ==
  /\ wk.pc # "idle" => Follows(ns, wk.frontiers)
  /\ wk.pc = "expand" => Walking(ns, wk)
  /\ wk.pc = "commit" => WholeWalk(wk.frontiers)
  /\ rep # << >> => Follows(ns, rep) /\ WholeWalk(rep)
  /\ rep # << >> /\ wk.pc # "idle" => Repeats(ns, wk, rep)
HistoryOK == Told => HistoryOf(nodes, walk, reported)
WalkInv == WalkTypeOK /\ WorksAre /\ CacheOK /\ AskedOnce /\ HistoryOK

\* Works only come, and only gain ids and a title; one met by its title alone stays so.
Gained(a, b) ==
  /\ a.ids \subseteq b.ids /\ a.owns \subseteq b.owns /\ a.standing = b.standing
  /\ (a.ids = {} => b.ids = {}) /\ (a.title # 0 => b.title # 0)
Grew(a, b) ==
  /\ Len(a) <= Len(b)
  /\ \A i \in 1..Len(a) : Gained(a[i], b[i])
  /\ \A i \in 1..Len(b) : i > Len(a) => b[i].standing = "metadata_only"

-----------------------------------------------------------------------------
(* Ids, papers and lists. *)

LEMMA PaperIs ==
  ASSUME WorldOK(world), NEW ids, SomeIds(world, ids)
  PROVE  /\ PaperOf(ids) \in Papers /\ ids \subseteq world.ids[PaperOf(ids)]
         /\ \A p \in Papers : ids \subseteq world.ids[p] => p = PaperOf(ids)
<1>1. \E p \in Papers : ids \subseteq world.ids[p]
  BY DEF SomeIds, Papers
<1>2. PaperOf(ids) \in Papers /\ ids \subseteq world.ids[PaperOf(ids)]
  BY <1>1 DEF PaperOf
<1>3. ASSUME NEW p \in Papers, ids \subseteq world.ids[p] PROVE p = PaperOf(ids)
  <2>1. world.ids[p] \cap world.ids[PaperOf(ids)] # {}
    BY <1>2, <1>3 DEF SomeIds
  <2> QED BY <2>1, <1>2 DEF WorldOK, Papers
<1> QED BY <1>2, <1>3

LEMMA PaperKept ==
  ASSUME WorldOK(world), NEW a, NEW b, SomeIds(world, a), SomeIds(world, b), a \cap b # {}
  PROVE  PaperOf(a) = PaperOf(b)
<1>1. PaperOf(a) \in Papers /\ a \subseteq world.ids[PaperOf(a)] /\ PaperOf(b) \in Papers /\ b \subseteq world.ids[PaperOf(b)]
  BY PaperIs
<1>2. world.ids[PaperOf(a)] \cap world.ids[PaperOf(b)] # {}
  BY <1>1
<1> QED BY <1>1, <1>2 DEF WorldOK, Papers

LEMMA OneOfEachType ==
  ASSUME WorldOK(world), NEW a, NEW b, SomeIds(world, a), SomeIds(world, b), a \cap b # {}, NEW x \in a, NEW y \in b, x[1] = y[1]
  PROVE  x = y
<1>1. PaperOf(a) = PaperOf(b) /\ PaperOf(a) \in Papers /\ x \in world.ids[PaperOf(a)] /\ y \in world.ids[PaperOf(a)]
  <2>1. PaperOf(a) = PaperOf(b)
    BY PaperKept
  <2>2. a \subseteq world.ids[PaperOf(a)] /\ b \subseteq world.ids[PaperOf(b)] /\ PaperOf(a) \in Papers
    BY PaperIs
  <2> QED BY <2>1, <2>2
<1> QED BY <1>1 DEF WorldOK, Papers

LEMMA KeyIn ==
  ASSUME WorldOK(world), NEW ids, SomeIds(world, ids)
  PROVE  KeyOf(ids) \in ids
<1>1. \A x \in ids : x[1] \in {"openalex", "doi", "arxiv", "s2"}
  <2>1. PaperOf(ids) \in DOMAIN world.ids /\ ids \subseteq world.ids[PaperOf(ids)]
    BY PaperIs DEF Papers
  <2>2. \A x \in ids : x[1] \in DOMAIN KeyRank
    BY <2>1 DEF WorldOK
  <2> QED BY <2>2 DEF KeyRank
<1> DEFINE Ranks == {KeyRank[x[1]] : x \in ids}
<1>2. Ranks \in SUBSET Nat /\ Ranks # {}
  BY <1>1 DEF KeyRank, SomeIds
<1>3. \E n \in Ranks : \A m \in Ranks : n <= m
  <2> HIDE DEF Ranks
  <2> QED BY <1>2, HasLeast
<1>4. \E x \in ids : \A y \in ids : KeyRank[x[1]] <= KeyRank[y[1]]
  BY <1>3
<1> QED BY <1>4 DEF KeyOf

LEMMA MentionsAre ==
  ASSUME WorldOK(world), NEW p \in Papers
  PROVE  /\ Len(world.mentions[p]) \in Nat /\ DOMAIN world.mentions[p] = 1..Len(world.mentions[p])
         /\ \A k \in 1..Len(world.mentions[p]) : AMention(world, world.mentions[p][k])
BY DEF WorldOK, AList, Papers

\* A cached list is what its paper mentions.
LEMMA ListsAreMentions ==
  ASSUME WorldOK(world), CacheOK, NEW ids, SomeIds(world, ids)
  PROVE  /\ IsCached(ids) => CachedRefs(ids) = world.mentions[PaperOf(ids)]
         /\ \A listed \in BOOLEAN :
              /\ listed => RefsOf(ids, listed) = world.mentions[PaperOf(ids)]
              /\ RefsOf(ids, listed) \in {world.mentions[PaperOf(ids)], << >>}
<1>1. ASSUME IsCached(ids) PROVE CachedRefs(ids) = world.mentions[PaperOf(ids)]
  <2> DEFINE c == CHOOSE x \in refCache : x.key = KeyOf(ids)
  <2>1. c \in refCache /\ c.key = KeyOf(ids)
    BY <1>1 DEF IsCached
  <2>2. CachedRefs(ids) = c.refs
    BY <1>1 DEF CachedRefs
  <2> HIDE DEF c
  <2>3. PICK p \in Papers : c.key \in world.ids[p] /\ c.refs = world.mentions[p]
    BY <2>1 DEF CacheOK
  <2>4. KeyOf(ids) \in world.ids[p] \cap world.ids[PaperOf(ids)] /\ PaperOf(ids) \in Papers
    BY <2>1, <2>3, KeyIn, PaperIs
  <2>5. p = PaperOf(ids)
    BY <2>4 DEF WorldOK, Papers
  <2> QED BY <2>2, <2>3, <2>5
<1>2. ASSUME NEW listed \in BOOLEAN
      PROVE  /\ listed => RefsOf(ids, listed) = world.mentions[PaperOf(ids)]
             /\ RefsOf(ids, listed) \in {world.mentions[PaperOf(ids)], << >>}
  <2>1. CASE IsCached(ids)
    BY <1>1, <2>1 DEF RefsOf
  <2>2. CASE ~IsCached(ids) /\ listed
    BY <2>2 DEF RefsOf, SomeIds
  <2>3. CASE ~IsCached(ids) /\ ~listed
    BY <2>3 DEF RefsOf
  <2> QED BY <2>1, <2>2, <2>3
<1> QED BY <1>1, <1>2

LEMMA NoLists ==
  /\ CachedRefs({}) = << >>
  /\ \A listed \in BOOLEAN : RefsOf({}, listed) = << >>
BY DEF CachedRefs, RefsOf, IsCached

\* A record names the paper it is asked for.
LEMMA EnrichedIs ==
  ASSUME WorldOK(world), NEW m, AMention(world, m), NEW answers \in BOOLEAN, NEW e, e = Enriched(m, answers)
  PROVE  /\ AMention(world, e)
         /\ m.ids = {} => e = m
         /\ m.ids # {} => m.ids \subseteq e.ids /\ SomeIds(world, m.ids) /\ SomeIds(world, e.ids)
<1>1. CASE m.ids = {}
  <2>1. e = m
    BY <1>1 DEF Enriched
  <2> QED BY <1>1, <2>1
<1>2. CASE m.ids # {}
  <2> DEFINE p == PaperOf(m.ids)
  <2>1. SomeIds(world, m.ids) /\ m.title \in Nat
    BY <1>2 DEF AMention
  <2>2. p \in Papers /\ m.ids \subseteq world.ids[p]
    BY <2>1, PaperIs
  <2>3. world.titles[p] \in Nat
    BY <2>2 DEF WorldOK, Papers
  <2> HIDE DEF p
  <2>4. \/ e = m
        \/ e = [ids |-> m.ids \cup {x \in world.ids[p] : x[1] \in Strong}, title |-> IF m.title = 0 THEN world.titles[p] ELSE m.title]
    BY DEF Enriched, p
  <2>5. m.ids \subseteq e.ids /\ e.ids \subseteq world.ids[p] /\ e.title \in Nat /\ e = [ids |-> e.ids, title |-> e.title]
    <3>1. CASE e = m
      BY <3>1, <2>1, <2>2 DEF AMention
    <3>2. CASE e = [ids |-> m.ids \cup {x \in world.ids[p] : x[1] \in Strong}, title |-> IF m.title = 0 THEN world.titles[p] ELSE m.title]
      BY <3>2, <2>1, <2>2, <2>3
    <3> QED BY <2>4, <3>1, <3>2
  <2>6. SomeIds(world, e.ids)
    BY <2>1, <2>2, <2>5 DEF SomeIds, Papers
  <2> QED BY <1>2, <2>1, <2>5, <2>6 DEF AMention
<1> QED BY <1>1, <1>2

LEMMA MarkTells ==
  ASSUME NEW p \in Papers, Recognisable(p)
  PROVE  Mark(p) \in world.ids[p] /\ Tells(Mark(p), p)
<1>1. \E x \in world.ids[p] : Tells(x, p)
  BY DEF Recognisable
<1> QED BY <1>1 DEF Mark

-----------------------------------------------------------------------------
(* A work for what is known of a paper. *)

JoinsOne(ws, m) == \E i \in Owners(ws, m.ids) : Owners(ws, m.ids) = {i} /\ Joins(ws[i], m)

LEMMA WorkAt ==
  ASSUME NEW ws, WorksOK(ws)
  PROVE  /\ Len(ws) \in Nat
         /\ \A i \in 1..Len(ws) : /\ ws[i] \in WorkRec /\ ws[i].ids \in SUBSET AllIds /\ ws[i].owns \in SUBSET AllIds
                                  /\ ws[i].title \in Nat /\ ws[i].standing \in {"included", "metadata_only"}
                                  /\ ws[i] = [ids |-> ws[i].ids, owns |-> ws[i].owns, title |-> ws[i].title, standing |-> ws[i].standing]
<1>1. ws \in Seq(WorkRec) /\ Len(ws) \in Nat
  BY DEF WorksOK
<1>2. \A i \in 1..Len(ws) : ws[i] \in WorkRec
  BY <1>1
<1>3. \A r \in WorkRec : /\ r.ids \in SUBSET AllIds /\ r.owns \in SUBSET AllIds /\ r.title \in Nat /\ r.standing \in {"included", "metadata_only"}
                         /\ r = [ids |-> r.ids, owns |-> r.owns, title |-> r.title, standing |-> r.standing]
  BY DEF WorkRec
<1> QED BY <1>1, <1>2, <1>3

JoinedAt(ws, m, put, i) ==
  /\ Owners(ws, m.ids) = {i} /\ Joins(ws[i], m) /\ put.id = i
  /\ put.works = [ws EXCEPT ![i] = Given(ws[i], m, Free(ws, m.ids))]

LEMMA UpsertHow ==
  ASSUME NEW ws, NEW m, NEW put, put = Upsert(ws, m)
  PROVE  /\ JoinsOne(ws, m) =>
              \E i \in 1..Len(ws) : JoinedAt(ws, m, put, i)
         /\ ~JoinsOne(ws, m) => put.id = Len(ws) + 1 /\ put.works = Append(ws, Minted(m, Free(ws, m.ids)))
<1>1. ASSUME JoinsOne(ws, m)
      PROVE  \E i \in 1..Len(ws) : JoinedAt(ws, m, put, i)
  <2>1. PICK i \in Owners(ws, m.ids) : Owners(ws, m.ids) = {i} /\ Joins(ws[i], m)
    BY <1>1 DEF JoinsOne
  <2>2. i \in 1..Len(ws)
    BY DEF Owners
  <2>3. (CHOOSE j \in Owners(ws, m.ids) : TRUE) = i
    BY <2>1
  <2>4. put = [works |-> [ws EXCEPT ![i] = Given(ws[i], m, Free(ws, m.ids))], id |-> i]
    BY <2>1, <2>3 DEF Upsert, UpsertAmong
  <2>5. put.id = i /\ put.works = [ws EXCEPT ![i] = Given(ws[i], m, Free(ws, m.ids))]
    BY <2>4
  <2> QED BY <2>1, <2>2, <2>5 DEF JoinedAt
<1>2. ASSUME ~JoinsOne(ws, m) PROVE put.id = Len(ws) + 1 /\ put.works = Append(ws, Minted(m, Free(ws, m.ids)))
  BY <1>2 DEF JoinsOne, Upsert, UpsertAmong
<1> QED BY <1>1, <1>2

LEMMA IdsAreKnown ==
  ASSUME NEW m, AMention(world, m)
  PROVE  m.ids \in SUBSET AllIds
BY DEF AMention, SomeIds, AllIds, Papers

LEMMA UpsertKeeps ==
  ASSUME WorldOK(world), NEW ws, WorksOK(ws), NEW m, AMention(world, m), NEW put, put = Upsert(ws, m)
  PROVE  WorksOK(put.works) /\ Grew(ws, put.works) /\ put.id \in 1..Len(put.works)
<1> DEFINE free == Free(ws, m.ids)
<1>1. Len(ws) \in Nat /\ ws \in Seq(WorkRec)
  BY WorkAt DEF WorksOK
<1>2. free \subseteq m.ids /\ (\A x \in free, j \in 1..Len(ws) : x \notin ws[j].owns) /\ m.ids \in SUBSET AllIds /\ m.title \in Nat
      /\ (m.ids = {} \/ SomeIds(world, m.ids))
  BY IdsAreKnown DEF Free, Owners, AMention
<1>3. CASE JoinsOne(ws, m)
  <2>0. PICK i \in 1..Len(ws) : JoinedAt(ws, m, put, i)
    BY <1>3, UpsertHow
  <2>1. /\ Owners(ws, m.ids) = {i} /\ Joins(ws[i], m) /\ put.id = i
        /\ put.works = [ws EXCEPT ![i] = Given(ws[i], m, free)]
    BY <2>0 DEF JoinedAt
  <2> DEFINE new == Given(ws[i], m, free)
  <2>2. new.ids = ws[i].ids \cup m.ids /\ new.owns = ws[i].owns \cup free /\ new.standing = ws[i].standing
        /\ new.title = (IF ws[i].title = 0 THEN m.title ELSE ws[i].title) /\ new \in WorkRec
    <3>1. /\ ws[i].ids \cup m.ids \in SUBSET AllIds /\ ws[i].owns \cup free \in SUBSET AllIds
          /\ (IF ws[i].title = 0 THEN m.title ELSE ws[i].title) \in Nat /\ ws[i].standing \in {"included", "metadata_only"}
      BY <1>2, WorkAt
    <3> QED BY <3>1 DEF Given, WorkRec
  <2>3. ws[i].ids # {} /\ SomeIds(world, ws[i].ids \cup m.ids)
    <3>1. ws[i].ids \cap m.ids # {} /\ SomeIds(world, ws[i].ids) /\ SomeIds(world, m.ids)
      BY <1>2, <2>1 DEF Owners, WorksOK
    <3>2. PaperOf(ws[i].ids) = PaperOf(m.ids) /\ PaperOf(m.ids) \in Papers
          /\ ws[i].ids \subseteq world.ids[PaperOf(m.ids)] /\ m.ids \subseteq world.ids[PaperOf(m.ids)]
      <4>1. PaperOf(ws[i].ids) = PaperOf(m.ids)
        BY <3>1, PaperKept
      <4>2. ws[i].ids \subseteq world.ids[PaperOf(ws[i].ids)]
        BY <3>1, PaperIs
      <4>3. m.ids \subseteq world.ids[PaperOf(m.ids)] /\ PaperOf(m.ids) \in Papers
        BY <3>1, PaperIs
      <4> QED BY <4>1, <4>2, <4>3
    <3> QED BY <3>1, <3>2 DEF SomeIds, Papers
  <2> HIDE DEF new
  <2>4. Len(put.works) = Len(ws) /\ put.works \in Seq(WorkRec) /\ put.works[i] = new
        /\ \A j \in 1..Len(ws) : j # i => put.works[j] = ws[j]
    BY <1>1, <2>1, <2>2 DEF new
  <2>5. ASSUME NEW j \in 1..Len(ws)
        PROVE (put.works[j].ids = {} \/ SomeIds(world, put.works[j].ids)) /\ put.works[j].owns \subseteq put.works[j].ids
    BY <2>2, <2>3, <2>4, <1>2 DEF WorksOK
  <2>6. ASSUME NEW j \in 1..Len(ws), NEW k \in 1..Len(ws), put.works[j].owns \cap put.works[k].owns # {} PROVE j = k
    BY <2>2, <2>4, <2>6, <1>2 DEF WorksOK
  <2>7. WorksOK(put.works)
    BY <2>4, <2>5, <2>6 DEF WorksOK
  <2>8. Gained(ws[i], new) /\ \A j \in 1..Len(ws) : Gained(ws[j], ws[j])
    BY <2>2, <2>3 DEF Gained
  <2>9. Grew(ws, put.works)
    <3>1. \A j \in 1..Len(ws) : Gained(ws[j], put.works[j])
      BY <2>4, <2>8
    <3> QED BY <3>1, <1>1, <2>4 DEF Grew
  <2> QED BY <2>1, <2>4, <2>7, <2>9
<1>4. CASE ~JoinsOne(ws, m)
  <2> DEFINE new == Minted(m, free)
             n == Len(ws) + 1
  <2>1. put.id = n /\ put.works = Append(ws, new)
    BY <1>4, UpsertHow
  <2>2. new.ids = m.ids /\ new.owns = free /\ new.standing = "metadata_only" /\ new \in WorkRec
    BY <1>2 DEF Minted, WorkRec
  <2> HIDE DEF new
  <2>4. Len(put.works) = n /\ put.works \in Seq(WorkRec) /\ put.works[n] = new
        /\ \A j \in 1..Len(ws) : put.works[j] = ws[j]
    BY <1>1, <2>1, <2>2
  <2>5. ASSUME NEW j \in 1..n
        PROVE (put.works[j].ids = {} \/ SomeIds(world, put.works[j].ids)) /\ put.works[j].owns \subseteq put.works[j].ids
    <3>1. CASE j = n
      BY <3>1, <2>2, <2>4, <1>2
    <3>2. CASE j # n
      <4>1. j \in 1..Len(ws)
        BY <3>2, <1>1
      <4> QED BY <4>1, <2>4 DEF WorksOK
    <3> QED BY <3>1, <3>2
  <2>6. ASSUME NEW j \in 1..n, NEW k \in 1..n, put.works[j].owns \cap put.works[k].owns # {} PROVE j = k
    <3>1. CASE j = n /\ k # n
      <4>1. k \in 1..Len(ws)
        BY <3>1, <1>1
      <4> QED BY <4>1, <3>1, <2>6, <2>2, <2>4, <1>2
    <3>2. CASE j # n /\ k = n
      <4>1. j \in 1..Len(ws)
        BY <3>2, <1>1
      <4> QED BY <4>1, <3>2, <2>6, <2>2, <2>4, <1>2
    <3>3. CASE j # n /\ k # n
      <4>1. j \in 1..Len(ws) /\ k \in 1..Len(ws)
        BY <3>3, <1>1
      <4> QED BY <4>1, <2>6, <2>4 DEF WorksOK
    <3> QED BY <3>1, <3>2, <3>3
  <2>7. WorksOK(put.works)
    BY <2>4, <2>5, <2>6 DEF WorksOK
  <2>8. Grew(ws, put.works)
    <3>1. \A j \in 1..n : j > Len(ws) => j = n
      BY <1>1
    <3>2. \A j \in 1..Len(ws) : Gained(ws[j], put.works[j])
      BY <2>4 DEF Gained
    <3> QED BY <3>1, <3>2, <1>1, <2>2, <2>4 DEF Grew
  <2> QED BY <2>1, <2>2, <2>4, <2>7, <2>8, <1>1
<1> QED BY <1>3, <1>4

\* Works of a recognisable paper all own its mark, so there is one.
LEMMA MarkedOnce ==
  ASSUME WorldOK(world), NEW ws, WorksOK(ws), Marked(ws), NEW p \in Papers, Recognisable(p),
         NEW i \in 1..Len(ws), NEW j \in 1..Len(ws), ws[i].ids # {}, ws[j].ids # {},
         ws[i].ids \subseteq world.ids[p], ws[j].ids \subseteq world.ids[p]
  PROVE  i = j
<1>1. Mark(p) \in ws[i].owns /\ Mark(p) \in ws[j].owns
  BY DEF Marked
<1> QED BY <1>1 DEF WorksOK

\* What is met of a recognisable paper joins its work: ids do not differ, and neither do weak titles.
LEMMA MetJoins ==
  ASSUME WorldOK(world), NEW ws, WorksOK(ws), Marked(ws), NEW m, AMention(world, m), m \in MetAs, m.ids # {},
         NEW p \in Papers, m.ids \subseteq world.ids[p], Recognisable(p), Owners(ws, m.ids) # {}
  PROVE  JoinsOne(ws, m)
<1>0. SomeIds(world, m.ids) /\ m \in MetOf(p)
  BY DEF AMention, MetOf, Names
<1>1. \A i \in Owners(ws, m.ids) : i \in 1..Len(ws) /\ ws[i].ids \cap m.ids # {} /\ SomeIds(world, ws[i].ids) /\ ws[i].ids \subseteq world.ids[p]
  <2> SUFFICES ASSUME NEW i \in Owners(ws, m.ids)
               PROVE  i \in 1..Len(ws) /\ ws[i].ids \cap m.ids # {} /\ SomeIds(world, ws[i].ids) /\ ws[i].ids \subseteq world.ids[p]
    OBVIOUS
  <2>1. i \in 1..Len(ws) /\ ws[i].ids \cap m.ids # {} /\ SomeIds(world, ws[i].ids)
    BY DEF Owners, WorksOK
  <2>2. PaperOf(ws[i].ids) = PaperOf(m.ids) /\ PaperOf(m.ids) = p
    BY <1>0, <2>1, PaperKept, PaperIs
  <2> QED BY <2>1, <2>2, PaperIs
<1>2. PICK i \in Owners(ws, m.ids) : TRUE
  OBVIOUS
<1>3. Owners(ws, m.ids) = {i}
  <2>1. \A j \in Owners(ws, m.ids) : ws[j].ids # {}
    BY <1>1
  <2> QED BY <1>1, <2>1, MarkedOnce
<1>4. Agrees(ws[i], m.ids)
  <2> SUFFICES ASSUME NEW x \in m.ids, NEW y \in ws[i].ids, x[1] = y[1] PROVE x = y
    BY DEF Agrees
  <2> QED BY <1>0, <1>1, OneOfEachType
<1>5. Mark(p) \in ws[i].owns /\ TitleKnown(ws[i], p)
  BY <1>1 DEF Marked
<1>6. Mark(p) \in m.ids \cap ws[i].ids /\ (Mark(p)[1] \in Strong \/ OneTitle(p))
  <2>1. Tells(Mark(p), p)
    BY MarkTells
  <2>2. Mark(p) \in ws[i].ids
    BY <1>1, <1>5 DEF WorksOK
  <2> QED BY <1>0, <2>1, <2>2 DEF Tells
<1>7. ASSUME OneTitle(p) PROVE SameTitle(ws[i], m)
  BY <1>0, <1>5, <1>7 DEF OneTitle, SameTitle, TitleKnown
<1>8. Joins(ws[i], m)
  BY <1>4, <1>6, <1>7 DEF Joins
<1> QED BY <1>3, <1>8 DEF JoinsOne

\* What a work has already changes nothing.
LEMMA UpsertOwned ==
  ASSUME WorldOK(world), NEW ws, WorksOK(ws), Marked(ws), NEW m, AMention(world, m), m \in MetAs,
         NEW p \in Papers, m.ids \subseteq world.ids[p], Recognisable(p), NEW put, put = Upsert(ws, m),
         NEW i \in 1..Len(ws), Has(ws[i], m)
  PROVE  put.works = ws /\ put.id = i
<1>0. m.ids # {} /\ m.ids \subseteq ws[i].owns /\ (m.title # 0 => ws[i].title # 0) /\ m.title \in Nat
  BY DEF Has, AMention
<1>1. Owners(ws, m.ids) = {i}
  <2>1. i \in Owners(ws, m.ids)
    BY <1>0 DEF Owners
  <2>2. \A j \in Owners(ws, m.ids) : j = i
    BY <1>0 DEF Owners, WorksOK
  <2> QED BY <2>1, <2>2
<1>2. JoinsOne(ws, m)
  BY <1>0, <1>1, MetJoins
<1>3. put.id = i /\ put.works = [ws EXCEPT ![i] = Given(ws[i], m, Free(ws, m.ids))]
  <2>0. PICK j \in 1..Len(ws) : JoinedAt(ws, m, put, j)
    BY <1>2, UpsertHow
  <2>1. /\ Owners(ws, m.ids) = {j} /\ Joins(ws[j], m) /\ put.id = j
        /\ put.works = [ws EXCEPT ![j] = Given(ws[j], m, Free(ws, m.ids))]
    BY <2>0 DEF JoinedAt
  <2>2. i = j
    BY <1>1, <2>1
  <2> QED BY <2>1, <2>2
<1>4. Free(ws, m.ids) = {} /\ m.ids \subseteq ws[i].ids
  BY <1>0 DEF Free, Owners, WorksOK
<1>5. Given(ws[i], m, Free(ws, m.ids)) = ws[i]
  <2>1. ws[i].ids \cup m.ids = ws[i].ids /\ ws[i].owns \cup Free(ws, m.ids) = ws[i].owns
        /\ (IF ws[i].title = 0 THEN m.title ELSE ws[i].title) = ws[i].title
    BY <1>0, <1>4
  <2>2. ws[i] = [ids |-> ws[i].ids, owns |-> ws[i].owns, title |-> ws[i].title, standing |-> ws[i].standing]
    BY WorkAt
  <2> QED BY <2>1, <2>2 DEF Given
<1>6. put.works = [ws EXCEPT ![i] = ws[i]]
  BY <1>3, <1>5
<1>7. ws \in [1..Len(ws) -> WorkRec]
  <2>1. ws \in Seq(WorkRec)
    BY DEF WorksOK
  <2> QED BY <2>1
<1>8. [ws EXCEPT ![i] = ws[i]] = ws
  BY <1>7
<1> QED BY <1>3, <1>6, <1>8

LEMMA UpsertHas ==
  ASSUME WorldOK(world), NEW ws, WorksOK(ws), Marked(ws), NEW m, AMention(world, m), m \in MetAs, m.ids # {},
         NEW p \in Papers, m.ids \subseteq world.ids[p], Recognisable(p), NEW put, put = Upsert(ws, m)
  PROVE  Has(put.works[put.id], m) /\ TitleKnown(put.works[put.id], p)
<1>0. Len(ws) \in Nat /\ ws \in Seq(WorkRec) /\ m.title \in Nat /\ m \in MetOf(p)
  BY WorkAt DEF WorksOK, AMention, MetOf, Names
<1>1. CASE JoinsOne(ws, m)
  <2>0. PICK i \in 1..Len(ws) : JoinedAt(ws, m, put, i)
    BY <1>1, UpsertHow
  <2>1. /\ Owners(ws, m.ids) = {i} /\ Joins(ws[i], m) /\ put.id = i
        /\ put.works = [ws EXCEPT ![i] = Given(ws[i], m, Free(ws, m.ids))]
    BY <2>0 DEF JoinedAt
  <2>2. put.works[put.id] = Given(ws[i], m, Free(ws, m.ids))
    BY <1>0, <2>1
  <2>3. ASSUME NEW x \in m.ids, x \notin Free(ws, m.ids) PROVE x \in ws[i].owns
    <3>1. PICK j \in Owners(ws, {x}) : TRUE
      BY <2>3 DEF Free
    <3>2. j \in Owners(ws, m.ids) /\ x \in ws[j].owns
      BY DEF Owners
    <3> QED BY <3>2, <2>1
  <2>4. TitleKnown(ws[i], p)
    <3>1. ws[i].ids \cap m.ids # {} /\ SomeIds(world, ws[i].ids) /\ SomeIds(world, m.ids)
      BY <2>1 DEF Owners, WorksOK, AMention
    <3>2. PaperOf(ws[i].ids) = PaperOf(m.ids) /\ PaperOf(m.ids) = p
      BY <3>1, PaperKept, PaperIs
    <3>3. ws[i].ids # {} /\ ws[i].ids \subseteq world.ids[p]
      BY <3>1, <3>2, PaperIs
    <3> QED BY <3>3 DEF Marked
  <2> QED BY <2>2, <2>3, <2>4, <1>0 DEF Given, Has, TitleKnown
<1>2. CASE ~JoinsOne(ws, m)
  <2>1. Owners(ws, m.ids) = {}
    BY <1>2, MetJoins
  <2>2. Free(ws, m.ids) = m.ids
    BY <2>1 DEF Free, Owners
  <2>3. put.id = Len(ws) + 1 /\ put.works = Append(ws, Minted(m, m.ids))
    BY <1>2, <2>2, UpsertHow
  <2>4. put.works[put.id] = Minted(m, m.ids)
    BY <2>3, <1>0
  <2> QED BY <2>4, <1>0 DEF Minted, Has, TitleKnown
<1> QED BY <1>1, <1>2

\* Where a work of the new list comes from: it was there, or it is the one of the mention.
LEMMA UpsertWhich ==
  ASSUME WorldOK(world), NEW ws, WorksOK(ws), NEW m, AMention(world, m), NEW put, put = Upsert(ws, m), NEW i \in 1..Len(put.works)
  PROVE  \/ i \in 1..Len(ws) /\ put.works[i] = ws[i]
         \/ i = put.id /\ i \in 1..Len(ws) /\ ws[i].ids \cap m.ids # {}
         \/ i = put.id /\ put.works[i].ids = m.ids
<1>0. Len(ws) \in Nat /\ ws \in Seq(WorkRec)
  BY WorkAt DEF WorksOK
<1>1. CASE JoinsOne(ws, m)
  <2>0. PICK j \in 1..Len(ws) : JoinedAt(ws, m, put, j)
    BY <1>1, UpsertHow
  <2>1. /\ Owners(ws, m.ids) = {j} /\ Joins(ws[j], m) /\ put.id = j
        /\ put.works = [ws EXCEPT ![j] = Given(ws[j], m, Free(ws, m.ids))]
    BY <2>0 DEF JoinedAt
  <2>2. ws[j].ids \cap m.ids # {}
    BY <2>1 DEF Owners, WorksOK
  <2>3. Len(put.works) = Len(ws) /\ \A k \in 1..Len(ws) : k # j => put.works[k] = ws[k]
    BY <2>1, <1>0
  <2> QED BY <2>1, <2>2, <2>3
<1>2. CASE ~JoinsOne(ws, m)
  <2>1. put.id = Len(ws) + 1 /\ put.works = Append(ws, Minted(m, Free(ws, m.ids)))
    BY <1>2, UpsertHow
  <2>2. Len(put.works) = Len(ws) + 1 /\ put.works[Len(ws) + 1] = Minted(m, Free(ws, m.ids)) /\ \A k \in 1..Len(ws) : put.works[k] = ws[k]
    BY <2>1, <1>0
  <2>3. Minted(m, Free(ws, m.ids)).ids = m.ids
    BY DEF Minted
  <2> QED BY <2>1, <2>2, <2>3, <1>0
<1> QED BY <1>1, <1>2

LEMMA UpsertMarks ==
  ASSUME WorldOK(world), NEW ws, WorksOK(ws), Marked(ws), NEW m, AMention(world, m), m \in MetAs,
         NEW put, put = Upsert(ws, m)
  PROVE  Marked(put.works)
<1>0. WorksOK(put.works) /\ Grew(ws, put.works)
  BY UpsertKeeps
<1> SUFFICES ASSUME NEW p \in Papers, NEW i \in 1..Len(put.works), Recognisable(p), put.works[i].ids # {}, put.works[i].ids \subseteq world.ids[p]
             PROVE  Mark(p) \in put.works[i].owns /\ TitleKnown(put.works[i], p)
  BY DEF Marked
<1>1. CASE i \in 1..Len(ws) /\ put.works[i] = ws[i]
  BY <1>1 DEF Marked
<1>2. CASE i = put.id /\ i \in 1..Len(ws) /\ ws[i].ids \cap m.ids # {}
  <2>1. Gained(ws[i], put.works[i])
    BY <1>0, <1>2 DEF Grew
  <2>2. ws[i].ids # {} /\ ws[i].ids \subseteq world.ids[p]
    BY <1>2, <2>1 DEF Gained
  <2>3. Mark(p) \in put.works[i].owns
    BY <1>2, <2>1, <2>2 DEF Gained, Marked
  <2>4. m.ids # {} /\ m.ids \subseteq world.ids[p]
    <3>1. SomeIds(world, ws[i].ids) /\ SomeIds(world, m.ids)
      BY <1>2 DEF WorksOK, AMention
    <3>2. PaperOf(ws[i].ids) = p /\ PaperOf(m.ids) = PaperOf(ws[i].ids)
      BY <1>2, <2>2, <3>1, PaperIs, PaperKept
    <3> QED BY <3>1, <3>2, PaperIs DEF SomeIds
  <2> QED BY <1>2, <2>3, <2>4, UpsertHas
<1>3. CASE i = put.id /\ put.works[i].ids = m.ids
  <2>1. Has(put.works[i], m) /\ TitleKnown(put.works[i], p)
    BY <1>3, UpsertHas
  <2>2. Mark(p) \in m.ids
    BY <1>3, MarkTells DEF Tells, MetOf, Names
  <2> QED BY <2>1, <2>2 DEF Has
<1> QED BY <1>1, <1>2, <1>3, UpsertWhich

-----------------------------------------------------------------------------
(* The works of a list of references. *)

LEMMA GrewTwice ==
  ASSUME NEW a, NEW b, NEW c, WorksOK(a), WorksOK(b), WorksOK(c), Grew(a, b), Grew(b, c)
  PROVE  Grew(a, c)
<1>1. Len(a) \in Nat /\ Len(b) \in Nat /\ Len(c) \in Nat
  BY WorkAt
<1>2. Len(a) <= Len(c) /\ 1..Len(a) \subseteq 1..Len(b)
  BY <1>1 DEF Grew
<1>3. ASSUME NEW i \in 1..Len(a) PROVE Gained(a[i], c[i])
  <2>1. i \in 1..Len(b)
    BY <1>2
  <2>2. Gained(a[i], b[i]) /\ Gained(b[i], c[i])
    BY <2>1 DEF Grew
  <2> QED BY <2>2 DEF Gained
<1>4. ASSUME NEW i \in 1..Len(c), i > Len(a) PROVE c[i].standing = "metadata_only"
  <2>1. CASE i \in 1..Len(b)
    <3>1. b[i].standing = "metadata_only"
      BY <1>4, <2>1 DEF Grew
    <3>2. b[i].standing = c[i].standing
      BY <2>1 DEF Grew, Gained
    <3> QED BY <3>1, <3>2
  <2>2. CASE i \notin 1..Len(b)
    <3>1. i > Len(b)
      BY <1>1, <2>2
    <3> QED BY <3>1 DEF Grew
  <2> QED BY <2>1, <2>2
<1> QED BY <1>2, <1>3, <1>4 DEF Grew

LEMMA GrewNot == ASSUME NEW a, WorksOK(a) PROVE Grew(a, a)
BY WorkAt DEF Grew, Gained

LEMMA HasKept == ASSUME NEW a, NEW b, Gained(a, b), NEW m, Has(a, m) PROVE Has(b, m)
BY DEF Has, Gained

Owned(ns, m) == Nameless(m) \/ \E i \in 1..Len(ns) : Has(ns[i], m)
Listed(list) == Len(list) \in Nat /\ \A k \in 1..Len(list) : list[k] \in Mentioned /\ AMention(world, list[k])
Read(list, answers, k, acc) ==
  /\ WorksOK(acc.works) /\ Grew(nodes, acc.works) /\ acc.cited \subseteq 1..Len(acc.works)
  /\ answers /\ Marked(nodes) => Marked(acc.works)
  /\ answers /\ Marked(nodes) /\ Knowable =>
       /\ \A j \in 1..k : list[j].ids # {} => \E i \in acc.cited : Has(acc.works[i], Enriched(list[j], TRUE))
       /\ \A i \in acc.cited : \E j \in 1..k : Has(acc.works[i], Enriched(list[j], TRUE))
       /\ (\A j \in 1..Len(list) : Owned(nodes, Enriched(list[j], TRUE))) => acc.works = nodes

LEMMA ReadNext ==
  ASSUME WorldOK(world), WorksOK(nodes), NEW list, Listed(list), NEW answers \in BOOLEAN, NEW k \in 1..Len(list),
         NEW acc, Read(list, answers, k - 1, acc)
  PROVE  Read(list, answers, k, Taken(acc, Enriched(list[k], answers)))
<1> DEFINE m == Enriched(list[k], answers)
           put == Upsert(acc.works, m)
           next == Gather(acc, put)
<1>0. k \in Nat \ {0} /\ 1..(k - 1) \subseteq 1..k /\ 1..k = 1..(k - 1) \cup {k} /\ k \in 1..k
  BY DEF Listed
<1>1. AMention(world, m) /\ list[k] \in Mentioned /\ AMention(world, list[k])
      /\ (list[k].ids = {} => m = list[k]) /\ (list[k].ids # {} => m.ids # {})
  <2>1. AMention(world, list[k]) /\ list[k] \in Mentioned
    BY DEF Listed
  <2>2. AMention(world, m) /\ (list[k].ids = {} => m = list[k]) /\ (list[k].ids # {} => list[k].ids \subseteq m.ids)
    BY <2>1, EnrichedIs
  <2> QED BY <2>1, <2>2
<1>2. next.works = put.works /\ next.cited = acc.cited \cup {put.id}
  BY DEF Gather
<1>3. put = Upsert(acc.works, m)
  OBVIOUS
<1>4. WorksOK(acc.works) /\ Grew(nodes, acc.works) /\ acc.cited \subseteq 1..Len(acc.works)
  BY DEF Read
<1>5. ASSUME answers PROVE m = Enriched(list[k], TRUE) /\ m \in MetAs
  <2>1. m = Enriched(list[k], TRUE)
    BY <1>5
  <2> QED BY <2>1, <1>1 DEF MetAs
<1>6. Taken(acc, m) = IF Nameless(m) THEN acc ELSE next
  BY DEF Taken
<1> HIDE DEF m, put, next
<1>7. ASSUME Nameless(m) PROVE Read(list, answers, k, acc)
  <2>1. list[k].ids = {}
    BY <1>1, <1>7 DEF Nameless
  <2>2. ASSUME answers, Marked(nodes), Knowable
        PROVE  /\ \A j \in 1..k : list[j].ids # {} => \E i \in acc.cited : Has(acc.works[i], Enriched(list[j], TRUE))
               /\ \A i \in acc.cited : \E j \in 1..k : Has(acc.works[i], Enriched(list[j], TRUE))
               /\ (\A j \in 1..Len(list) : Owned(nodes, Enriched(list[j], TRUE))) => acc.works = nodes
    <3>1. /\ \A j \in 1..(k - 1) : list[j].ids # {} => \E i \in acc.cited : Has(acc.works[i], Enriched(list[j], TRUE))
          /\ \A i \in acc.cited : \E j \in 1..(k - 1) : Has(acc.works[i], Enriched(list[j], TRUE))
          /\ (\A j \in 1..Len(list) : Owned(nodes, Enriched(list[j], TRUE))) => acc.works = nodes
      BY <2>2 DEF Read
    <3> QED BY <3>1, <2>1, <1>0
  <2> QED BY <2>2 DEF Read
<1>8. ASSUME ~Nameless(m) PROVE Read(list, answers, k, next)
  <2>1. /\ WorksOK(put.works) /\ Grew(acc.works, put.works) /\ put.id \in 1..Len(put.works)
    BY <1>1, <1>3, <1>4, UpsertKeeps
  <2>2. Grew(nodes, put.works)
    BY <1>4, <2>1, GrewTwice
  <2>3. Len(acc.works) \in Nat /\ Len(put.works) \in Nat /\ 1..Len(acc.works) \subseteq 1..Len(put.works)
        /\ \A i \in 1..Len(acc.works) : Gained(acc.works[i], put.works[i])
    <3>1. Len(acc.works) \in Nat /\ Len(put.works) \in Nat
      BY <1>4, <2>1, WorkAt
    <3> QED BY <3>1, <2>1 DEF Grew
  <2>4. next.cited \subseteq 1..Len(next.works)
    BY <1>2, <1>4, <2>1, <2>3
  <2>5. ASSUME answers, Marked(nodes) PROVE Marked(next.works)
    <3>1. Marked(acc.works)
      BY <2>5 DEF Read
    <3> QED BY <3>1, <1>1, <1>2, <1>3, <1>4, <1>5, <2>5, UpsertMarks
  <2>6. ASSUME answers, Marked(nodes), Knowable
        PROVE  /\ \A j \in 1..k : list[j].ids # {} => \E i \in next.cited : Has(next.works[i], Enriched(list[j], TRUE))
               /\ \A i \in next.cited : \E j \in 1..k : Has(next.works[i], Enriched(list[j], TRUE))
               /\ (\A j \in 1..Len(list) : Owned(nodes, Enriched(list[j], TRUE))) => next.works = nodes
    <3>1. Marked(acc.works) /\ m \in MetAs /\ m = Enriched(list[k], TRUE)
      BY <1>5, <2>6 DEF Read
    <3>2. m.ids # {} /\ SomeIds(world, m.ids)
      <4>1. list[k].ids = {} => list[k].title = 0
        BY <1>1, <2>6 DEF Knowable
      <4> QED BY <4>1, <1>1, <1>8 DEF Nameless, AMention
    <3> DEFINE p == PaperOf(m.ids)
    <3>3. Recognisable(p) /\ p \in Papers /\ m.ids \subseteq world.ids[p]
      BY <3>2, <2>6, PaperIs DEF Knowable
    <3> HIDE DEF p
    <3>4. Has(put.works[put.id], m)
      BY <3>1, <3>2, <3>3, <1>1, <1>3, <1>4, UpsertHas
    <3>5. /\ \A j \in 1..(k - 1) : list[j].ids # {} => \E i \in acc.cited : Has(acc.works[i], Enriched(list[j], TRUE))
          /\ \A i \in acc.cited : \E j \in 1..(k - 1) : Has(acc.works[i], Enriched(list[j], TRUE))
          /\ (\A j \in 1..Len(list) : Owned(nodes, Enriched(list[j], TRUE))) => acc.works = nodes
      BY <2>6 DEF Read
    <3>6. ASSUME NEW j \in 1..k, list[j].ids # {} PROVE \E i \in next.cited : Has(next.works[i], Enriched(list[j], TRUE))
      <4>1. CASE j = k
        BY <4>1, <3>1, <3>4, <1>2
      <4>2. CASE j # k
        <5>1. j \in 1..(k - 1)
          BY <4>2, <1>0
        <5>2. PICK i \in acc.cited : Has(acc.works[i], Enriched(list[j], TRUE))
          BY <5>1, <3>5, <3>6
        <5>3. Gained(acc.works[i], put.works[i])
          BY <1>4, <2>3
        <5>4. Has(put.works[i], Enriched(list[j], TRUE))
          BY <5>2, <5>3, HasKept
        <5> QED BY <5>4, <1>2
      <4> QED BY <4>1, <4>2
    <3>7. ASSUME NEW i \in next.cited PROVE \E j \in 1..k : Has(next.works[i], Enriched(list[j], TRUE))
      <4>1. CASE i = put.id
        BY <4>1, <3>1, <3>4, <1>0, <1>2
      <4>2. CASE i \in acc.cited
        <5>1. PICK j \in 1..(k - 1) : Has(acc.works[i], Enriched(list[j], TRUE))
          BY <4>2, <3>5
        <5>2. Gained(acc.works[i], put.works[i])
          BY <4>2, <1>4, <2>3
        <5>3. Has(put.works[i], Enriched(list[j], TRUE))
          BY <5>1, <5>2, HasKept
        <5> QED BY <5>3, <1>0, <1>2
      <4> QED BY <4>1, <4>2, <1>2
    <3>8. ASSUME \A j \in 1..Len(list) : Owned(nodes, Enriched(list[j], TRUE)) PROVE next.works = nodes
      <4>1. acc.works = nodes
        BY <3>5, <3>8
      <4>2. PICK i \in 1..Len(nodes) : Has(nodes[i], m)
        BY <1>8, <3>1, <3>8 DEF Owned
      <4>3. put = Upsert(nodes, m)
        BY <1>3, <4>1
      <4>4. put.works = nodes
        BY <4>2, <4>3, <3>1, <3>3, <1>1, <2>6, UpsertOwned
      <4> QED BY <4>4, <1>2
    <3> QED BY <3>6, <3>7, <3>8
  <2>7. WorksOK(next.works) /\ Grew(nodes, next.works)
    BY <1>2, <2>1, <2>2
  <2> QED BY <2>7, <2>4, <2>5, <2>6 DEF Read
<1>9. Read(list, answers, k, Taken(acc, m))
  BY <1>7, <1>8, <1>6
<1> QED BY <1>9 DEF m

\* The list is read by a recursion; it has a value, and keeps what each reference keeps.
LEMMA ExpandedKeeps ==
  ASSUME WorldOK(world), WorksOK(nodes), NEW list, Listed(list), NEW answers \in BOOLEAN
  PROVE  Read(list, answers, Len(list), Expanded(list, answers))
<1> DEFINE n == Len(list)
           start == [works |-> nodes, cited |-> {}]
           Step(k, acc) == Taken(acc, Enriched(list[k], answers))
           Is(f, m) == f = [k \in 0..m |-> IF k = 0 THEN start ELSE Step(k, f[k - 1])]
           upTo[k \in 0..Len(list)] ==
             IF k = 0 THEN [works |-> nodes, cited |-> {}] ELSE Taken(upTo[k - 1], Enriched(list[k], answers))
<1>0. n \in Nat
  BY DEF Listed
<1>1. Expanded(list, answers) = upTo[n]
  BY DEF Expanded
<1>2. upTo = CHOOSE f : Is(f, n)
  OBVIOUS
<1> HIDE DEF upTo, Step, start, n
<1>3. \A m \in Nat : \E f : Is(f, m)
  <2> DEFINE Bad == {m \in Nat : ~ \E f : Is(f, m)}
  <2> SUFFICES ASSUME Bad # {} PROVE FALSE
    OBVIOUS
  <2>1. PICK m \in Bad : \A j \in Bad : m <= j
    <3>1. Bad \in SUBSET Nat
      OBVIOUS
    <3> HIDE DEF Bad
    <3> QED BY <3>1, HasLeast
  <2>2. CASE m = 0
    <3> DEFINE f == [k \in 0..0 |-> start]
    <3>1. Is(f, 0)
      OBVIOUS
    <3> QED BY <3>1, <2>2
  <2>3. CASE m # 0
    <3>0. m \in Nat
      OBVIOUS
    <3>1. m - 1 \in Nat /\ m - 1 \notin Bad /\ m \in Nat
      <4>1. m - 1 \in Nat /\ ~(m <= m - 1)
        BY <3>0, <2>3
      <4> HIDE DEF Bad
      <4> QED BY <4>1, <3>0, <2>1
    <3>2. PICK g : Is(g, m - 1)
      BY <3>1
    <3> DEFINE f == [k \in 0..m |-> IF k = m THEN Step(m, g[m - 1]) ELSE g[k]]
    <3>3. ASSUME NEW k \in 0..m PROVE f[k] = IF k = 0 THEN start ELSE Step(k, f[k - 1])
      <4>1. CASE k = 0
        BY <4>1, <3>1, <3>2, <2>3
      <4>2. CASE k # 0 /\ k = m
        <5>1. k - 1 \in 0..m /\ k - 1 # m /\ f[k - 1] = g[m - 1]
          BY <4>2, <3>1
        <5> QED BY <4>2, <5>1, <3>1
      <4>3. CASE k # 0 /\ k # m
        <5>1. k \in 0..(m - 1) /\ k - 1 \in 0..m /\ k - 1 # m
          BY <4>3, <3>1
        <5>2. f[k] = g[k] /\ f[k - 1] = g[k - 1]
          BY <4>3, <5>1
        <5>3. g[k] = Step(k, g[k - 1])
          BY <3>2, <5>1, <4>3
        <5> QED BY <5>2, <5>3, <4>3
      <4> QED BY <4>1, <4>2, <4>3
    <3>4. Is(f, m)
      <4>1. f = [k \in 0..m |-> f[k]]
        OBVIOUS
      <4> HIDE DEF f
      <4> QED BY <3>3, <4>1
    <3> QED BY <3>4
  <2> QED BY <2>2, <2>3
<1>4. Is(upTo, n)
  <2>1. \E f : Is(f, n)
    BY <1>0, <1>3
  <2> QED BY <1>2, <2>1
<1>5. \A k \in 0..n : Read(list, answers, k, upTo[k])
  <2> DEFINE Bad == {k \in 0..n : ~Read(list, answers, k, upTo[k])}
  <2> SUFFICES ASSUME Bad # {} PROVE FALSE
    OBVIOUS
  <2>1. PICK k \in Bad : \A j \in Bad : k <= j
    <3>1. Bad \in SUBSET Nat
      BY <1>0
    <3> HIDE DEF Bad
    <3> QED BY <3>1, HasLeast
  <2>2. CASE k = 0
    <3>1. upTo[0] = start
      BY <1>4, <1>0
    <3>2. Read(list, answers, 0, start)
      BY GrewNot DEF start, Read
    <3> QED BY <3>1, <3>2, <2>2
  <2>3. CASE k # 0
    <3>1. k - 1 \in 0..n /\ k - 1 \notin Bad /\ k \in Nat \ {0}
      BY <2>1, <2>3, <1>0
    <3>2. Read(list, answers, k - 1, upTo[k - 1])
      BY <3>1
    <3>3. upTo[k] = Step(k, upTo[k - 1])
      BY <1>4, <3>1, <2>3
    <3>4. k \in 1..Len(list)
      BY <3>1, <1>0 DEF n
    <3>5. Read(list, answers, k, Step(k, upTo[k - 1]))
      BY <3>2, <3>4, ReadNext DEF Step
    <3> QED BY <3>3, <3>5
  <2> QED BY <2>2, <2>3
<1> QED
  <2>1. n \in 0..n
    BY <1>0
  <2> QED BY <2>1, <1>1, <1>5 DEF n

-----------------------------------------------------------------------------
(* What is settled stays as it is, and so do the generations. *)

LEMMA MentionsListed ==
  ASSUME WorldOK(world), NEW ids, SomeIds(world, ids)
  PROVE  Listed(world.mentions[PaperOf(ids)]) /\ Listed(<< >>)
<1>1. PaperOf(ids) \in Papers
  BY PaperIs
<1> QED BY <1>1, MentionsAre DEF Listed, Mentioned

LEMMA MentionsKept ==
  ASSUME WorldOK(world), NEW a, NEW b, WorksOK(a), WorksOK(b), NEW s \in 1..Len(a), s \in 1..Len(b), Gained(a[s], b[s])
  PROVE  MentionsOf(b, s) = MentionsOf(a, s) /\ Listed(MentionsOf(a, s))
<1>1. CASE a[s].ids = {}
  <2>1. b[s].ids = {} /\ MentionsOf(a, s) = << >>
    BY <1>1 DEF Gained, MentionsOf
  <2>2. Listed(<< >>)
    BY DEF Listed
  <2> QED BY <2>1, <2>2 DEF MentionsOf
<1>2. CASE a[s].ids # {}
  <2>1. SomeIds(world, a[s].ids) /\ b[s].ids # {} /\ a[s].ids \cap b[s].ids # {}
    BY <1>2 DEF WorksOK, Gained
  <2>2. SomeIds(world, b[s].ids)
    BY <2>1 DEF WorksOK
  <2>3. PaperOf(b[s].ids) = PaperOf(a[s].ids)
    BY <2>1, <2>2, PaperKept
  <2>4. Listed(world.mentions[PaperOf(a[s].ids)])
    BY <2>1, MentionsListed
  <2> QED BY <1>2, <2>1, <2>3, <2>4 DEF MentionsOf
<1> QED BY <1>1, <1>2

LEMMA LinkedKept ==
  ASSUME WorldOK(world), NEW a, NEW b, WorksOK(a), WorksOK(b), Grew(a, b), NEW s, Settled(a, s)
  PROVE  Settled(b, s) /\ Linked(b, s) = Linked(a, s)
<1>1. Len(a) \in Nat /\ Len(b) \in Nat /\ s \in 1..Len(a) /\ 1..Len(a) \subseteq 1..Len(b)
  <2>1. Len(a) \in Nat /\ Len(b) \in Nat
    BY WorkAt
  <2> QED BY <2>1 DEF Settled, Grew
<1>2. MentionsOf(b, s) = MentionsOf(a, s) /\ Listed(MentionsOf(a, s))
  <2>1. s \in 1..Len(a) /\ s \in 1..Len(b) /\ Gained(a[s], b[s])
    BY <1>1 DEF Grew
  <2> QED BY <2>1, MentionsKept
<1> DEFINE m(k) == Enriched(MentionsOf(a, s)[k], TRUE)
           n == Len(MentionsOf(a, s))
<1>3. \A k \in 1..n : MentionsOf(a, s)[k].ids # {} => \E i \in 1..Len(a) : Has(a[i], m(k))
  BY DEF Settled
<1>4. ASSUME NEW i \in 1..Len(a), NEW k \in 1..n, Has(a[i], m(k)) PROVE Has(b[i], m(k))
  <2>1. Gained(a[i], b[i])
    BY DEF Grew
  <2> HIDE DEF m
  <2> QED BY <1>4, <2>1, HasKept
<1>5. Settled(b, s)
  <2> SUFFICES ASSUME NEW k \in 1..n, MentionsOf(a, s)[k].ids # {} PROVE \E i \in 1..Len(b) : Has(b[i], m(k))
    BY <1>1, <1>2 DEF Settled
  <2>1. PICK i \in 1..Len(a) : Has(a[i], m(k))
    BY <1>3
  <2>2. Has(b[i], m(k)) /\ i \in 1..Len(b)
    BY <2>1, <1>1, <1>4
  <2> QED BY <2>2
<1>6. ASSUME NEW k \in 1..n, m(k).ids # {} PROVE MentionsOf(a, s)[k].ids # {}
  <2>1. AMention(world, MentionsOf(a, s)[k])
    BY <1>2 DEF Listed
  <2>2. MentionsOf(a, s)[k].ids = {} => m(k) = MentionsOf(a, s)[k]
    <3>1. ASSUME NEW x, AMention(world, x), x.ids = {} PROVE Enriched(x, TRUE) = x
      BY <3>1, EnrichedIs
    <3> QED BY <2>1, <3>1
  <2> QED BY <2>2, <1>6
<1>7. ASSUME NEW k \in 1..n, NEW i \in 1..Len(b), Has(b[i], m(k))
      PROVE  i \in 1..Len(a) /\ Has(a[i], m(k))
  <2>0. m(k).ids # {}
    BY <1>7 DEF Has
  <2>1. PICK j \in 1..Len(a) : Has(a[j], m(k))
    BY <1>3, <1>6, <2>0
  <2>2. Has(b[j], m(k)) /\ j \in 1..Len(b)
    BY <2>1, <1>1, <1>4
  <2>3. b[i].owns \cap b[j].owns # {}
    BY <2>0, <2>2, <1>7 DEF Has
  <2>4. i = j
    BY <2>2, <2>3 DEF WorksOK
  <2> QED BY <2>1, <2>4
<1>8. Linked(a, s) = {i \in 1..Len(a) : \E k \in 1..n : Has(a[i], m(k))} \ {s}
  BY DEF Linked
<1>9. Linked(b, s) = {i \in 1..Len(b) : \E k \in 1..n : Has(b[i], m(k))} \ {s}
  BY <1>2 DEF Linked
<1> HIDE DEF m, n
<1>10. ASSUME NEW i PROVE i \in Linked(a, s) => i \in Linked(b, s)
  BY <1>1, <1>4, <1>8, <1>9
<1>11. ASSUME NEW i PROVE i \in Linked(b, s) => i \in Linked(a, s)
  BY <1>7, <1>8, <1>9
<1> QED BY <1>5, <1>10, <1>11

LEMMA LinksKept ==
  ASSUME WorldOK(world), NEW a, NEW b, WorksOK(a), WorksOK(b), Grew(a, b), NEW S, \A s \in S : Settled(a, s)
  PROVE  Links(b, S) = Links(a, S) /\ \A s \in S : Settled(b, s)
<1>1. \A s \in S : Settled(b, s) /\ Linked(b, s) = Linked(a, s)
  BY LinkedKept
<1> QED BY <1>1 DEF Links

LEMMA IncludedKept ==
  ASSUME NEW a, NEW b, WorksOK(a), WorksOK(b), Grew(a, b)
  PROVE  IncludedIn(b) = IncludedIn(a)
<1>1. Len(a) \in Nat /\ Len(b) \in Nat /\ 1..Len(a) \subseteq 1..Len(b)
  <2>1. Len(a) \in Nat /\ Len(b) \in Nat
    BY WorkAt
  <2> QED BY <2>1 DEF Grew
<1>2. \A i \in 1..Len(a) : a[i].standing = b[i].standing
  BY DEF Grew, Gained
<1>3. \A i \in 1..Len(b) : i \notin 1..Len(a) => b[i].standing = "metadata_only"
  BY <1>1 DEF Grew
<1> QED BY <1>1, <1>2, <1>3 DEF IncludedIn

\* SeenBy looks at the generations before g only, and those are settled.
LEMMA SeenKept ==
  ASSUME WorldOK(world), NEW a, NEW b, WorksOK(a), WorksOK(b), Grew(a, b), NEW F, NEW R, NEW g \in Nat \ {0},
         \A h \in 1..g : F[h] = R[h], \A h \in 1..(g - 1) : \A s \in F[h] : Settled(a, s)
  PROVE  SeenBy(b, R, g) = SeenBy(a, F, g)
<1>1. \A h \in 1..(g - 1) : Links(b, R[h]) = Links(a, F[h])
  <2> SUFFICES ASSUME NEW h \in 1..(g - 1) PROVE Links(b, R[h]) = Links(a, F[h])
    OBVIOUS
  <2>1. F[h] = R[h] /\ \A s \in F[h] : Settled(a, s)
    <3>1. h \in 1..g
      OBVIOUS
    <3> QED BY <3>1
  <2>2. Links(b, F[h]) = Links(a, F[h])
    BY <2>1, LinksKept
  <2> QED BY <2>1, <2>2
<1>2. F[1] = R[1]
  OBVIOUS
<1>3. {Cited(Links(b, R[h])) : h \in 1..(g - 1)} = {Cited(Links(a, F[h])) : h \in 1..(g - 1)}
  BY <1>1
<1> QED BY <1>2, <1>3 DEF SeenBy

LEMMA FollowsKept ==
  ASSUME WorldOK(world), NEW a, NEW b, WorksOK(a), WorksOK(b), Grew(a, b), NEW F, Len(F) \in Nat \ {0}, Follows(a, F)
  PROVE  Follows(b, F)
<1>1. F[1] = IncludedIn(b)
  BY IncludedKept DEF Follows
<1>2. ASSUME NEW g \in 1..(Len(F) - 1)
      PROVE  (\A s \in F[g] : Settled(b, s)) /\ F[g + 1] = Frontier(Links(b, F[g]), SeenBy(b, F, g))
  <2>1. \A h \in 1..g : \A s \in F[h] : Settled(a, s)
    <3>1. \A h \in 1..g : h \in 1..(Len(F) - 1)
      OBVIOUS
    <3> QED BY <3>1 DEF Follows
  <2>2. Links(b, F[g]) = Links(a, F[g]) /\ \A s \in F[g] : Settled(b, s)
    <3>1. g \in 1..g
      OBVIOUS
    <3>2. \A s \in F[g] : Settled(a, s)
      BY <2>1, <3>1
    <3> QED BY <3>2, LinksKept
  <2>3. SeenBy(b, F, g) = SeenBy(a, F, g)
    <3>1. \A h \in 1..(g - 1) : h \in 1..g
      OBVIOUS
    <3>2. \A h \in 1..(g - 1) : \A s \in F[h] : Settled(a, s)
      BY <2>1, <3>1
    <3>3. g \in Nat \ {0}
      OBVIOUS
    <3> QED BY <3>2, <3>3, SeenKept
  <2>4. F[g + 1] = Frontier(Links(a, F[g]), SeenBy(a, F, g))
    BY DEF Follows
  <2> QED BY <2>2, <2>3, <2>4
<1> QED BY <1>1, <1>2 DEF Follows

LEMMA SeenMore ==
  ASSUME NEW ns, NEW F, NEW g \in Nat \ {0}
  PROVE  SeenBy(ns, F, g + 1) = SeenBy(ns, F, g) \cup Cited(Links(ns, F[g]))
<1>1. 1..((g + 1) - 1) = 1..(g - 1) \cup {g}
  OBVIOUS
<1>2. SeenBy(ns, F, g + 1) = F[1] \cup UNION {Cited(Links(ns, F[h])) : h \in 1..(g - 1) \cup {g}}
  BY <1>1 DEF SeenBy
<1> QED BY <1>2 DEF SeenBy

LEMMA WholesAgree ==
  ASSUME MaxDepth \in Nat, NEW F \in Seq(SUBSET Nat), NEW R \in Seq(SUBSET Nat), WholeWalk(F), WholeWalk(R), Len(F) <= Len(R),
         \A g \in 1..Len(F) : F[g] = R[g]
  PROVE  F = R
<1>1. Len(F) \in Nat \ {0} /\ Len(R) \in Nat \ {0} /\ Len(R) <= MaxDepth + 1
  BY DEF WholeWalk
<1>2. Len(F) = Len(R)
  <2> SUFFICES ASSUME Len(F) # Len(R) PROVE FALSE
    OBVIOUS
  <2>1. Len(F) \in 1..(Len(R) - 1) /\ Len(F) # MaxDepth + 1
    BY <1>1
  <2>2. R[Len(F)] # {} /\ F[Len(F)] = {} /\ Len(F) \in 1..Len(F)
    BY <2>1, <1>1 DEF WholeWalk
  <2> QED BY <2>2
<1> QED BY <1>1, <1>2

\* The links of a source, once its list has been read.
LEMMA ReadSettles ==
  ASSUME WorldOK(world), WorksOK(nodes), Marked(nodes), Knowable, NEW s \in 1..Len(nodes), NEW got,
         Read(MentionsOf(nodes, s), TRUE, Len(MentionsOf(nodes, s)), got)
  PROVE  Settled(got.works, s) /\ Linked(got.works, s) = got.cited \ {s}
<1> DEFINE list == MentionsOf(nodes, s)
           ns == got.works
<1>1. WorksOK(ns) /\ Grew(nodes, ns) /\ got.cited \subseteq 1..Len(ns)
      /\ (\A j \in 1..Len(list) : list[j].ids # {} => \E i \in got.cited : Has(ns[i], Enriched(list[j], TRUE)))
      /\ (\A i \in got.cited : \E j \in 1..Len(list) : Has(ns[i], Enriched(list[j], TRUE)))
  BY DEF Read
<1>2. Len(nodes) \in Nat /\ Len(ns) \in Nat /\ s \in 1..Len(ns)
  <2>1. Len(nodes) \in Nat /\ Len(ns) \in Nat
    BY <1>1, WorkAt
  <2> QED BY <1>1, <2>1 DEF Grew
<1>4. MentionsOf(ns, s) = list /\ Listed(list)
  <2>1. Gained(nodes[s], ns[s])
    BY <1>1 DEF Grew
  <2> QED BY <1>1, <1>2, <2>1, MentionsKept
<1>5. ASSUME NEW j \in 1..Len(list), Enriched(list[j], TRUE).ids # {} PROVE list[j].ids # {}
  <2>1. AMention(world, list[j])
    BY <1>4 DEF Listed
  <2>2. list[j].ids = {} => Enriched(list[j], TRUE) = list[j]
    BY <2>1, EnrichedIs
  <2> QED BY <2>2, <1>5
<1> HIDE DEF list, ns
<1>6. Settled(ns, s)
  BY <1>1, <1>2, <1>4 DEF Settled
<1>7. ASSUME NEW i \in Linked(ns, s) PROVE i \in got.cited \ {s}
  <2>1. PICK k \in 1..Len(list) : Has(ns[i], Enriched(list[k], TRUE))
    BY <1>4 DEF Linked
  <2>2. PICK j \in got.cited : Has(ns[j], Enriched(list[k], TRUE))
    BY <1>1, <1>5, <2>1 DEF Has
  <2>3. i \in 1..Len(ns) /\ j \in 1..Len(ns) /\ ns[i].owns \cap ns[j].owns # {} /\ i # s
    BY <2>1, <2>2, <1>1 DEF Linked, Has
  <2>4. i = j
    BY <2>3, <1>1 DEF WorksOK
  <2> QED BY <2>2, <2>3, <2>4
<1>8. ASSUME NEW i \in got.cited \ {s} PROVE i \in Linked(ns, s)
  BY <1>1, <1>4 DEF Linked
<1>9. Linked(ns, s) = got.cited \ {s}
  BY <1>7, <1>8
<1> QED BY <1>6, <1>9 DEF ns

-----------------------------------------------------------------------------
(* The steps. *)

LEMMA WalkRecIs ==
  ASSUME WalkTypeOK
  PROVE  /\ walk = [pc |-> walk.pc, todo |-> walk.todo, seen |-> walk.seen, cites |-> walk.cites, done |-> walk.done,
                    frontiers |-> walk.frontiers, before |-> walk.before]
         /\ walk.todo \in SUBSET Nat /\ walk.seen \in SUBSET Nat /\ walk.cites \in SUBSET (Nat \X Nat) /\ walk.done \in SUBSET Nat
         /\ walk.frontiers \in Seq(SUBSET Nat) /\ walk.before \in Seq(WorkRec) /\ walk.pc \in {"idle", "expand", "commit"}
BY DEF WalkTypeOK

LEMMA TypeNext ==
  ASSUME WorldOK(world), world' = world, NEW wk, walk' = wk, NEW rep, reported' = rep, NEW o, outages' = o, o \in Nat,
         NEW n, walks' = n, n \in Nat, rep \in Seq(SUBSET Nat),
         wk \in [pc : {"idle", "expand", "commit"}, todo : SUBSET Nat, seen : SUBSET Nat, cites : SUBSET (Nat \X Nat),
                 done : SUBSET Nat, frontiers : Seq(SUBSET Nat), before : Seq(WorkRec)]
  PROVE  WalkTypeOK'
<1>1. WorldOK(world)'
  OBVIOUS
<1>2. (walk \in [pc : {"idle", "expand", "commit"}, todo : SUBSET Nat, seen : SUBSET Nat, cites : SUBSET (Nat \X Nat),
                 done : SUBSET Nat, frontiers : Seq(SUBSET Nat), before : Seq(WorkRec)])'
  BY DEF WorkRec, AllIds, Papers
<1>3. (reported \in Seq(SUBSET Nat))' /\ (outages \in Nat)' /\ (walks \in Nat)'
  OBVIOUS
<1> QED BY <1>1, <1>2, <1>3 DEF WalkTypeOK

LEMMA MarkNext ==
  ASSUME world' = world
  PROVE  MetAs' = MetAs /\ Mentioned' = Mentioned
         /\ \A p : (Recognisable(p)' <=> Recognisable(p)) /\ Mark(p)' = Mark(p) /\ MetOf(p)' = MetOf(p)
<1>1. Mentioned' = Mentioned
  BY DEF Mentioned, Papers
<1>2. MetAs' = MetAs
  BY <1>1 DEF MetAs, Enriched, HasDoi, PaperOf, Papers
<1>3. \A p : MetOf(p)' = MetOf(p)
  BY <1>2 DEF MetOf, Names
<1>4. \A p, x : Tells(x, p)' <=> Tells(x, p)
  BY <1>3 DEF Tells, OneTitle
<1>5. \A p : (Recognisable(p)' <=> Recognisable(p)) /\ Mark(p)' = Mark(p)
  BY <1>4 DEF Recognisable, Mark
<1> QED BY <1>1, <1>2, <1>3, <1>5

LEMMA WorksNext ==
  ASSUME world' = world, NEW ns, nodes' = ns, NEW wk, walk' = wk, NEW o, outages' = o,
         WorksOK(ns), wk.pc # "idle" => WorksOK(wk.before),
         o = 0 => Marked(ns) /\ (wk.pc # "idle" => Marked(wk.before))
  PROVE  WorksAre'
<1>1. WorksOK(nodes)' /\ (walk.pc # "idle" => WorksOK(walk.before))'
  BY DEF WorksOK, SomeIds, WorkRec, AllIds, Papers
<1>2. (outages = 0 => Marked(nodes) /\ (walk.pc # "idle" => Marked(walk.before)))'
  BY MarkNext DEF Marked, TitleKnown, Papers
<1> QED BY <1>1, <1>2 DEF WorksAre

LEMMA CacheNext ==
  ASSUME world' = world, NEW cache, refCache' = cache,
         \A c \in cache : \E p \in Papers : c.key \in world.ids[p] /\ c.refs = world.mentions[p]
  PROVE  CacheOK'
BY DEF CacheOK, Papers

LEMMA ToldNext ==
  ASSUME world' = world
  PROVE  Told' <=> outages' = 0 /\ Knowable
BY MarkNext DEF Told, Knowable, Papers

LEMMA HistoryNext ==
  ASSUME world' = world, NEW ns, nodes' = ns, NEW wk, walk' = wk, NEW rep, reported' = rep, NEW o, outages' = o,
         o = 0 /\ Knowable => HistoryOf(ns, wk, rep)
  PROVE  HistoryOK'
<1>1. SUFFICES ASSUME Told' PROVE HistoryOf(nodes, walk, reported)'
  BY DEF HistoryOK
<1>2. HistoryOf(ns, wk, rep)
  BY <1>1, ToldNext
<1>5. \A s : Linked(nodes, s)' = Linked(ns, s) /\ (Settled(nodes, s)' <=> Settled(ns, s))
  BY SMTT(30) DEF Linked, Settled, MentionsOf, Has, Enriched, HasDoi, PaperOf, Papers
<1>6. \A S : Links(nodes, S)' = Links(ns, S)
  BY <1>5 DEF Links
<1>7. \A F, g : SeenBy(nodes, F, g)' = SeenBy(ns, F, g)
  BY <1>6 DEF SeenBy
<1>8. \A cites, seen : Frontier(cites, seen)' = Frontier(cites, seen)
  BY DEF Frontier, MoreCited
<1>9. \A F : Follows(nodes, F)' <=> Follows(ns, F)
  BY <1>5, <1>6, <1>7, <1>8 DEF Follows, IncludedIn
<1>10. Follows(nodes, walk.frontiers)' <=> Follows(ns, wk.frontiers)
  BY <1>9
<1>11. Follows(nodes, reported)' <=> Follows(ns, rep)
  BY <1>9
<1>12. Walking(nodes, walk)' <=> Walking(ns, wk)
  BY <1>5, <1>6, <1>7 DEF Walking, Here
<1> QED BY <1>2, <1>10, <1>11, <1>12 DEF HistoryOf

WalkRec == [pc : {"idle", "expand", "commit"}, todo : SUBSET Nat, seen : SUBSET Nat, cites : SUBSET (Nat \X Nat),
            done : SUBSET Nat, frontiers : Seq(SUBSET Nat), before : Seq(WorkRec)]

LEMMA IncludedIs == ASSUME WorksOK(nodes) PROVE Included = IncludedIn(nodes) /\ Included \in SUBSET Nat /\ Included \subseteq 1..Len(nodes)
BY WorkAt DEF Included, IncludedIn

LEMMA NoLinks == ASSUME NEW ns PROVE Links(ns, {}) = {}
BY DEF Links

LEMMA SeenFirst == ASSUME NEW ns, NEW F PROVE SeenBy(ns, F, 1) = F[1]
<1>1. 1..(1 - 1) = {}
  OBVIOUS
<1> QED BY <1>1 DEF SeenBy

LEMMA NoWalkIs ==
  /\ NoWalk.pc = "idle" /\ NoWalk.todo = {} /\ NoWalk.seen = {} /\ NoWalk.cites = {} /\ NoWalk.done = {}
  /\ NoWalk.frontiers = << >> /\ NoWalk.before = << >> /\ NoWalk \in WalkRec
<1>1. /\ NoWalk.pc = "idle" /\ NoWalk.todo = {} /\ NoWalk.seen = {} /\ NoWalk.cites = {} /\ NoWalk.done = {}
      /\ NoWalk.frontiers = << >> /\ NoWalk.before = << >>
  BY DEF NoWalk
<1>2. << >> \in Seq(SUBSET Nat) /\ << >> \in Seq(WorkRec)
  OBVIOUS
<1>3. NoWalk \in WalkRec
  BY <1>2 DEF NoWalk, WalkRec
<1> QED BY <1>1, <1>3

LEMMA WalkInitOK == WalkInit => WalkInv
<1> SUFFICES ASSUME WalkInit PROVE WalkInv
  OBVIOUS
<1> DEFINE s == world.seeds
<1>1. WorldOK(world) /\ walk = NoWalk /\ reported = << >> /\ outages = 0 /\ walks = 0 /\ refCache = {}
      /\ nodes = [i \in 1..Len(s) |-> [ids |-> s[i].ids, owns |-> s[i].ids, title |-> s[i].title, standing |-> "included"]]
  BY WalkAssumption DEF WalkInit, WalkStart
<1>2. /\ Len(s) \in Nat /\ (\A k \in 1..Len(s) : AMention(world, s[k]))
      /\ (\A i, j \in 1..Len(s) : s[i].ids \cap s[j].ids # {} => i = j)
  BY <1>1 DEF WorldOK, AList
<1> HIDE DEF s
<1>3. \A i \in 1..Len(s) : /\ nodes[i] \in WorkRec /\ nodes[i].ids = s[i].ids /\ nodes[i].owns = s[i].ids /\ nodes[i].title = s[i].title
                           /\ (s[i].ids = {} \/ SomeIds(world, s[i].ids))
  <2> SUFFICES ASSUME NEW i \in 1..Len(s)
               PROVE  /\ nodes[i] \in WorkRec /\ nodes[i].ids = s[i].ids /\ nodes[i].owns = s[i].ids /\ nodes[i].title = s[i].title
                      /\ (s[i].ids = {} \/ SomeIds(world, s[i].ids))
    OBVIOUS
  <2>1. nodes[i] = [ids |-> s[i].ids, owns |-> s[i].ids, title |-> s[i].title, standing |-> "included"] /\ s[i].ids \in SUBSET AllIds
        /\ s[i].title \in Nat /\ (s[i].ids = {} \/ SomeIds(world, s[i].ids))
    BY <1>1, <1>2, IdsAreKnown DEF AMention
  <2> QED BY <2>1 DEF WorkRec
<1>4. nodes \in Seq(WorkRec) /\ Len(nodes) = Len(s)
  <2>1. nodes \in [1..Len(s) -> WorkRec]
    <3>1. nodes = [i \in 1..Len(s) |-> nodes[i]]
      BY <1>1
    <3> QED BY <3>1, <1>3
  <2> QED BY <2>1, <1>2
<1>5. WorksOK(nodes)
  BY <1>2, <1>3, <1>4 DEF WorksOK
<1>6. Marked(nodes)
  <2> SUFFICES ASSUME NEW p \in Papers, NEW i \in 1..Len(nodes), Recognisable(p), nodes[i].ids # {}, nodes[i].ids \subseteq world.ids[p]
               PROVE  Mark(p) \in nodes[i].owns /\ TitleKnown(nodes[i], p)
    BY DEF Marked
  <2>1. s[i] \in MetOf(p) /\ i \in 1..Len(s)
    BY <1>3, <1>4 DEF MetAs, MetOf, Names, s
  <2>2. Mark(p) \in s[i].ids
    BY <2>1, MarkTells DEF Tells
  <2> QED BY <2>1, <2>2, <1>3 DEF TitleKnown
<1>7. WalkTypeOK
  <2>1. << >> \in Seq(SUBSET Nat)
    OBVIOUS
  <2> QED BY <1>1, <2>1, NoWalkIs DEF WalkTypeOK, WalkRec
<1>8. WorksAre /\ CacheOK /\ AskedOnce
  BY <1>1, <1>5, <1>6, NoWalkIs DEF WorksAre, CacheOK, AskedOnce
<1>9. HistoryOK
  BY <1>1, NoWalkIs DEF HistoryOK, HistoryOf
<1> QED BY <1>7, <1>8, <1>9 DEF WalkInv

\* What every step has to show.
LEMMA StepKeeps ==
  ASSUME WalkInv, world' = world, NEW ns, nodes' = ns, NEW wk \in WalkRec, walk' = wk, NEW rep \in Seq(SUBSET Nat), reported' = rep,
         NEW o \in Nat, outages' = o, NEW n \in Nat, walks' = n, NEW cache, refCache' = cache,
         WorksOK(ns), wk.pc # "idle" => WorksOK(wk.before),
         o = 0 => Marked(ns) /\ (wk.pc # "idle" => Marked(wk.before)),
         \A c \in cache : \E p \in Papers : c.key \in world.ids[p] /\ c.refs = world.mentions[p],
         wk.pc = "expand" =>
           /\ wk.todo \subseteq 1..Len(ns) /\ wk.todo \cup wk.done \subseteq wk.seen /\ wk.todo \cap wk.done = {}
           /\ wk.cites \subseteq (1..Len(ns)) \X (1..Len(ns)),
         o = 0 /\ Knowable => HistoryOf(ns, wk, rep)
  PROVE  WalkInv'
<1>1. WalkTypeOK'
  <2>1. WorldOK(world)
    BY DEF WalkInv, WalkTypeOK
  <2> QED BY <2>1, TypeNext DEF WalkRec
<1>2. WorksAre'
  BY WorksNext
<1>3. CacheOK'
  BY CacheNext
<1>4. AskedOnce'
  BY DEF AskedOnce
<1>5. HistoryOK'
  BY HistoryNext
<1> QED BY <1>1, <1>2, <1>3, <1>4, <1>5 DEF WalkInv

LEMMA InvHas ==
  ASSUME WalkInv
  PROVE  /\ WorldOK(world) /\ walk \in WalkRec /\ reported \in Seq(SUBSET Nat) /\ outages \in Nat /\ walks \in Nat
         /\ WorksOK(nodes) /\ (walk.pc # "idle" => WorksOK(walk.before))
         /\ outages = 0 => Marked(nodes) /\ (walk.pc # "idle" => Marked(walk.before))
         /\ CacheOK /\ (\A c \in refCache : \E p \in Papers : c.key \in world.ids[p] /\ c.refs = world.mentions[p])
         /\ outages = 0 /\ Knowable => HistoryOf(nodes, walk, reported)
         /\ walk.pc = "expand" =>
              /\ walk.todo \subseteq 1..Len(nodes) /\ walk.todo \cup walk.done \subseteq walk.seen /\ walk.todo \cap walk.done = {}
              /\ walk.cites \subseteq (1..Len(nodes)) \X (1..Len(nodes))
BY DEF WalkInv, WalkTypeOK, WorksAre, CacheOK, HistoryOK, Told, AskedOnce, WalkRec

LEMMA BeginKeeps ==
  ASSUME WalkInv, WalkBegin
  PROVE  WalkInv'
<1> DEFINE wk == [pc |-> IF Included = {} THEN "commit" ELSE "expand", todo |-> Included, seen |-> Included,
                  cites |-> {}, done |-> {}, frontiers |-> <<Included>>, before |-> nodes]
<1>1. /\ world' = world /\ nodes' = nodes /\ walk' = wk /\ reported' = reported /\ outages' = outages /\ refCache' = refCache
      /\ walks' = walks + 1
  BY DEF WalkBegin
<1>2. WorldOK(world) /\ WorksOK(nodes) /\ nodes \in Seq(WorkRec) /\ Included = IncludedIn(nodes) /\ Included \in SUBSET Nat
      /\ Included \subseteq 1..Len(nodes)
  BY InvHas, IncludedIs DEF WorksOK
<1>3. /\ wk.pc = (IF Included = {} THEN "commit" ELSE "expand") /\ wk.todo = Included /\ wk.seen = Included /\ wk.cites = {}
      /\ wk.done = {} /\ wk.frontiers = <<Included>> /\ wk.before = nodes
  OBVIOUS
<1>4. wk \in WalkRec
  <2>1. <<Included>> \in Seq(SUBSET Nat)
    BY <1>2
  <2> QED BY <2>1, <1>2 DEF WalkRec
<1> HIDE DEF wk
<1>5. Len(wk.frontiers) = 1 /\ wk.frontiers[1] = Included /\ Here(wk) = Included
  BY <1>3 DEF Here
<1>6. ASSUME outages = 0, Knowable PROVE HistoryOf(nodes, wk, reported)
  <2>1. Follows(nodes, wk.frontiers)
    BY <1>2, <1>5 DEF Follows
  <2>2. ASSUME wk.pc = "expand" PROVE Walking(nodes, wk)
    <3>1. Included # {}
      BY <1>3, <2>2
    <3>2. 1 \in 1..MaxDepth
      BY WalkAssumption
    <3>3. Here(wk) \ wk.todo = {} /\ Links(nodes, {}) = {} /\ SeenBy(nodes, wk.frontiers, 1) = Included
      BY <1>3, <1>5, NoLinks, SeenFirst
    <3> QED BY <1>3, <1>5, <3>1, <3>2, <3>3 DEF Walking
  <2>3. ASSUME wk.pc = "commit" PROVE WholeWalk(wk.frontiers)
    <3>1. Included = {}
      BY <1>3, <2>3
    <3>2. 1 \in 1..(MaxDepth + 1)
      BY WalkAssumption
    <3> QED BY <1>5, <3>1, <3>2 DEF WholeWalk
  <2>4. HistoryOf(nodes, walk, reported)
    BY <1>6, InvHas
  <2>5. ASSUME reported # << >> PROVE Follows(nodes, reported) /\ WholeWalk(reported) /\ Repeats(nodes, wk, reported)
    <3>1. Follows(nodes, reported) /\ WholeWalk(reported)
      BY <2>4, <2>5 DEF HistoryOf
    <3>2. reported[1] = Included /\ Len(reported) >= 1
      BY <3>1, <1>2, WalkAssumption DEF Follows, WholeWalk
    <3> QED BY <3>1, <3>2, <1>3, <1>5 DEF Repeats
  <2> QED BY <2>1, <2>2, <2>3, <2>5 DEF HistoryOf
<1>7. walks + 1 \in Nat /\ reported \in Seq(SUBSET Nat) /\ outages \in Nat
  BY InvHas
<1> QED BY <1>1, <1>2, <1>3, <1>4, <1>6, <1>7, InvHas, StepKeeps

LEMMA CommitKeeps ==
  ASSUME WalkInv, WalkCommit
  PROVE  WalkInv'
<1>1. /\ walk.pc = "commit" /\ world' = world /\ nodes' = nodes /\ walk' = NoWalk /\ reported' = walk.frontiers /\ outages' = outages
      /\ refCache' = refCache /\ walks' = walks
  BY DEF WalkCommit
<1>2. walk.frontiers \in Seq(SUBSET Nat)
  BY InvHas DEF WalkRec
<1>3. ASSUME outages = 0, Knowable PROVE HistoryOf(nodes, NoWalk, walk.frontiers)
  <2>1. Follows(nodes, walk.frontiers) /\ WholeWalk(walk.frontiers)
    BY <1>1, <1>3, InvHas DEF HistoryOf
  <2> QED BY <2>1, NoWalkIs DEF HistoryOf
<1> HIDE DEF NoWalk
<1> QED BY <1>1, <1>2, <1>3, NoWalkIs, InvHas, StepKeeps

LEMMA DiesKeeps ==
  ASSUME WalkInv, WalkDies
  PROVE  WalkInv'
<1>1. /\ walk.pc # "idle" /\ world' = world /\ nodes' = walk.before /\ walk' = NoWalk /\ reported' = reported /\ outages' = outages
      /\ refCache' = refCache /\ walks' = walks
  BY DEF WalkDies
<1>2. ASSUME outages = 0, Knowable PROVE HistoryOf(walk.before, NoWalk, reported)
  <2>1. reported # << >> => Follows(nodes, reported) /\ WholeWalk(reported) /\ nodes = walk.before
    BY <1>1, <1>2, InvHas DEF HistoryOf, Repeats
  <2> QED BY <2>1, NoWalkIs DEF HistoryOf
<1> QED BY <1>1, <1>2, NoWalkIs, InvHas, StepKeeps

LEMMA ExpiresKeeps ==
  ASSUME WalkInv, NEW c \in refCache, CacheExpires(c)
  PROVE  WalkInv'
<1>1. /\ walk.pc = "idle" /\ world' = world /\ nodes' = nodes /\ walk' = walk /\ reported' = reported /\ outages' = outages
      /\ refCache' = refCache \ {c} /\ walks' = walks
  BY DEF CacheExpires
<1>2. \A d \in refCache \ {c} : \E p \in Papers : d.key \in world.ids[p] /\ d.refs = world.mentions[p]
  BY InvHas
<1> QED BY <1>1, <1>2, InvHas, StepKeeps

LEMMA SeenSame ==
  ASSUME NEW ns, NEW F, NEW R, NEW g \in Nat \ {0}, \A h \in 1..g : F[h] = R[h]
  PROVE  SeenBy(ns, R, g) = SeenBy(ns, F, g)
<1>1. F[1] = R[1] /\ \A h \in 1..(g - 1) : F[h] = R[h]
  OBVIOUS
<1>2. {Cited(Links(ns, R[h])) : h \in 1..(g - 1)} = {Cited(Links(ns, F[h])) : h \in 1..(g - 1)}
  BY <1>1
<1> QED BY <1>1, <1>2 DEF SeenBy

LEMMA GenerationKeeps ==
  ASSUME WalkInv, WalkGeneration
  PROVE  WalkInv'
<1> DEFINE F == walk.frontiers
           L == Len(walk.frontiers)
           next == Frontier(walk.cites, walk.seen)
           ends == L = MaxDepth \/ next = {}
           G == Append(walk.frontiers, next)
           wk == [walk EXCEPT !.frontiers = Append(@, next), !.todo = IF ends THEN {} ELSE next,
                              !.seen = @ \cup Cited(walk.cites), !.cites = {},
                              !.pc = IF ends THEN "commit" ELSE "expand"]
<1>1. /\ walk.pc = "expand" /\ walk.todo = {} /\ world' = world /\ nodes' = nodes /\ walk' = wk /\ reported' = reported
      /\ outages' = outages /\ refCache' = refCache /\ walks' = walks
  BY DEF WalkGeneration
<1>2. walk \in WalkRec /\ F \in Seq(SUBSET Nat) /\ L \in Nat /\ walk.cites \in SUBSET (Nat \X Nat) /\ walk.seen \in SUBSET Nat
      /\ walk.done \in SUBSET Nat
  BY InvHas DEF WalkRec
<1>3. next \subseteq Cited(walk.cites) \ walk.seen /\ Cited(walk.cites) \in SUBSET Nat
  BY <1>2 DEF Frontier, Unseen, Cited
<1> HIDE DEF next
<1>4. /\ wk.pc = (IF ends THEN "commit" ELSE "expand") /\ wk.todo = (IF ends THEN {} ELSE next) /\ wk.cites = {}
      /\ wk.seen = walk.seen \cup Cited(walk.cites) /\ wk.done = walk.done /\ wk.frontiers = G /\ wk.before = walk.before
  BY <1>2 DEF WalkRec
<1>5. G \in Seq(SUBSET Nat) /\ Len(G) = L + 1 /\ G[L + 1] = next /\ \A g \in 1..L : G[g] = F[g]
  BY <1>2, <1>3
<1>6. wk \in WalkRec
  <2>1. next \in SUBSET Nat /\ walk.seen \cup Cited(walk.cites) \in SUBSET Nat
    BY <1>2, <1>3
  <2>2. G \in Seq(SUBSET Nat)
    BY <1>5
  <2> HIDE DEF G, ends
  <2> QED BY <1>2, <2>1, <2>2 DEF WalkRec, G
<1> HIDE DEF wk, G
<1>7. wk.pc = "expand" =>
        /\ wk.todo \subseteq 1..Len(nodes) /\ wk.todo \cup wk.done \subseteq wk.seen /\ wk.todo \cap wk.done = {}
        /\ wk.cites \subseteq (1..Len(nodes)) \X (1..Len(nodes))
  <2>1. /\ walk.todo \cup walk.done \subseteq walk.seen
        /\ walk.cites \subseteq (1..Len(nodes)) \X (1..Len(nodes))
    BY <1>1, InvHas
  <2>2. Cited(walk.cites) \subseteq 1..Len(nodes)
    BY <2>1 DEF Cited
  <2> HIDE DEF ends
  <2> QED BY <1>3, <1>4, <2>1, <2>2
<1>8. ASSUME outages = 0, Knowable PROVE HistoryOf(nodes, wk, reported)
  <2>1. HistoryOf(nodes, walk, reported)
    BY <1>8, InvHas
  <2>2. Follows(nodes, F) /\ Walking(nodes, walk)
    BY <1>1, <2>1 DEF HistoryOf
  <2>3. /\ L \in 1..MaxDepth /\ (\A g \in 1..L : F[g] # {}) /\ Here(walk) = F[L]
        /\ (\A s \in F[L] : Settled(nodes, s)) /\ walk.cites = Links(nodes, F[L]) /\ walk.seen = SeenBy(nodes, F, L)
    <3>1. Here(walk) = F[L] /\ F[L] \ walk.todo = F[L]
      BY <1>1 DEF Here
    <3> QED BY <3>1, <2>2 DEF Walking
  <2>4. L \in Nat \ {0} /\ MaxDepth \in Nat \ {0}
    BY <2>3, WalkAssumption
  <2>5. next = Frontier(Links(nodes, F[L]), SeenBy(nodes, F, L))
    BY <2>3 DEF next
  <2>6. Follows(nodes, G)
    <3>1. G[1] = IncludedIn(nodes)
      BY <1>5, <2>2, <2>4 DEF Follows
    <3>2. ASSUME NEW g \in 1..L
          PROVE  (\A s \in G[g] : Settled(nodes, s)) /\ G[g + 1] = Frontier(Links(nodes, G[g]), SeenBy(nodes, G, g))
      <4>1. g \in Nat \ {0} /\ G[g] = F[g] /\ \A h \in 1..g : F[h] = G[h]
        BY <1>5
      <4>2. SeenBy(nodes, G, g) = SeenBy(nodes, F, g)
        BY <4>1, SeenSame
      <4>3. CASE g = L
        BY <4>1, <4>2, <4>3, <2>3, <2>5, <1>5
      <4>4. CASE g # L
        <5>1. g \in 1..(L - 1) /\ g + 1 \in 1..L
          BY <4>4, <2>4
        <5>2. (\A s \in F[g] : Settled(nodes, s)) /\ F[g + 1] = Frontier(Links(nodes, F[g]), SeenBy(nodes, F, g))
          BY <5>1, <2>2 DEF Follows
        <5>3. G[g + 1] = F[g + 1]
          BY <5>1, <1>5
        <5> QED BY <5>2, <5>3, <4>1, <4>2
      <4> QED BY <4>3, <4>4
    <3>3. 1..(Len(G) - 1) = 1..L
      BY <1>5, <2>4
    <3> QED BY <3>1, <3>2, <3>3 DEF Follows
  <2>7. wk.pc # "idle" /\ Len(wk.frontiers) = L + 1
    <3> HIDE DEF ends
    <3> QED BY <1>4, <1>5
  <2>8. ASSUME wk.pc = "expand" PROVE Walking(nodes, wk)
    <3>1. ~ends /\ L # MaxDepth /\ next # {} /\ wk.todo = next
      BY <1>4, <2>8
    <3>2. L + 1 \in 1..MaxDepth /\ \A g \in 1..(L + 1) : G[g] # {}
      <4>1. L + 1 \in 1..MaxDepth
        BY <3>1, <2>3, <2>4
      <4>2. ASSUME NEW g \in 1..(L + 1) PROVE G[g] # {}
        <5>1. CASE g = L + 1
          BY <5>1, <3>1, <1>5
        <5>2. CASE g # L + 1
          <6>1. g \in 1..L
            BY <5>2, <2>4
          <6> QED BY <6>1, <1>5, <2>3
        <5> QED BY <5>1, <5>2
      <4> QED BY <4>1, <4>2
    <3>3. Here(wk) = next /\ next \ wk.todo = {}
      BY <1>4, <1>5, <3>1 DEF Here
    <3>4. wk.cites = Links(nodes, Here(wk) \ wk.todo)
      BY <3>3, <1>4, NoLinks
    <3>5. wk.seen = SeenBy(nodes, G, L + 1)
      <4>1. SeenBy(nodes, G, L) = SeenBy(nodes, F, L)
        <5>1. \A h \in 1..L : F[h] = G[h]
          BY <1>5
        <5> QED BY <5>1, <2>4, SeenSame
      <4>2. G[L] = F[L]
        BY <1>5, <2>4
      <4>3. SeenBy(nodes, G, L + 1) = SeenBy(nodes, G, L) \cup Cited(Links(nodes, G[L]))
        BY <2>4, SeenMore
      <4> QED BY <4>1, <4>2, <4>3, <1>4, <2>3
    <3> QED BY <3>2, <3>3, <3>4, <3>5, <1>4, <1>5 DEF Walking
  <2>9. ASSUME wk.pc = "commit" PROVE WholeWalk(wk.frontiers)
    <3>1. ends
      BY <1>4, <2>9
    <3>2. L + 1 \in 1..(MaxDepth + 1) /\ (L + 1 = MaxDepth + 1 \/ G[L + 1] = {})
      BY <3>1, <2>3, <2>4, <1>5
    <3>3. \A g \in 1..((L + 1) - 1) : G[g] # {}
      <4>1. (L + 1) - 1 = L
        BY <2>4
      <4> QED BY <4>1, <1>5, <2>3
    <3> QED BY <3>2, <3>3, <1>4, <1>5 DEF WholeWalk
  <2>10. ASSUME reported # << >> PROVE Follows(nodes, reported) /\ WholeWalk(reported) /\ Repeats(nodes, wk, reported)
    <3>1. Follows(nodes, reported) /\ WholeWalk(reported) /\ Repeats(nodes, walk, reported)
      BY <1>1, <2>1, <2>10 DEF HistoryOf
    <3>2. nodes = walk.before /\ L <= Len(reported) /\ \A g \in 1..L : F[g] = reported[g]
      BY <3>1 DEF Repeats
    <3>3. Len(reported) \in Nat /\ Len(reported) <= MaxDepth + 1 /\ (Len(reported) = MaxDepth + 1 \/ reported[Len(reported)] = {})
      BY <3>1, <2>4 DEF WholeWalk
    <3>4. L \in 1..(Len(reported) - 1)
      <4>1. L # Len(reported)
        BY <3>2, <3>3, <2>3, <2>4
      <4> QED BY <4>1, <3>2, <3>3, <2>4
    <3>5. reported[L + 1] = Frontier(Links(nodes, reported[L]), SeenBy(nodes, reported, L))
      BY <3>4, <3>1 DEF Follows
    <3>6. reported[L] = F[L] /\ SeenBy(nodes, reported, L) = SeenBy(nodes, F, L)
      BY <3>2, <2>4, SeenSame
    <3>7. reported[L + 1] = G[L + 1]
      BY <3>5, <3>6, <2>5, <1>5
    <3>8. \A g \in 1..(L + 1) : G[g] = reported[g]
      <4> SUFFICES ASSUME NEW g \in 1..(L + 1) PROVE G[g] = reported[g]
        OBVIOUS
      <4>1. CASE g = L + 1
        BY <4>1, <3>7
      <4>2. CASE g # L + 1
        <5>1. g \in 1..L
          BY <4>2, <2>4
        <5> QED BY <5>1, <1>5, <3>2
      <4> QED BY <4>1, <4>2
    <3>9. L + 1 <= Len(reported)
      BY <3>3, <3>4
    <3> QED BY <3>1, <3>2, <3>8, <3>9, <1>4, <1>5 DEF Repeats
  <2> QED BY <2>6, <2>7, <2>8, <2>9, <2>10, <1>4 DEF HistoryOf
<1>9. WorksOK(nodes) /\ reported \in Seq(SUBSET Nat) /\ outages \in Nat /\ walks \in Nat
      /\ (wk.pc # "idle" => WorksOK(wk.before)) /\ (outages = 0 => Marked(nodes) /\ (wk.pc # "idle" => Marked(wk.before)))
  BY <1>1, <1>4, InvHas
<1>10. \A c \in refCache : \E p \in Papers : c.key \in world.ids[p] /\ c.refs = world.mentions[p]
  BY InvHas
<1> QED BY <1>1, <1>6, <1>7, <1>8, <1>9, <1>10, StepKeeps

LEMMA LinksMore ==
  ASSUME NEW ns, NEW S, NEW s
  PROVE  Links(ns, S \cup {s}) = Links(ns, S) \cup ({s} \X Linked(ns, s))
BY DEF Links

LEMMA ExpandKeeps ==
  ASSUME WalkInv, NEW source \in walk.todo, NEW listed \in BOOLEAN, NEW answers \in BOOLEAN, WalkExpand(source, listed, answers)
  PROVE  WalkInv'
<1> DEFINE ids == nodes[source].ids
           list == RefsOf(ids, listed)
           got == Expanded(list, answers)
           ns == got.works
           cache == IF ids # {} /\ ~IsCached(ids) /\ listed THEN refCache \cup {[key |-> KeyOf(ids), refs |-> list]} ELSE refCache
           wk == [walk EXCEPT !.todo = @ \ {source}, !.done = @ \cup {source},
                              !.cites = @ \cup ({source} \X (got.cited \ {source}))]
<1>1. /\ walk.pc = "expand" /\ world' = world /\ nodes' = ns /\ walk' = wk /\ reported' = reported
      /\ outages' = outages + (IF listed THEN 0 ELSE 1) + (IF answers THEN 0 ELSE 1)
      /\ refCache' = cache /\ walks' = walks
  BY DEF WalkExpand
<1>2. WorldOK(world) /\ WorksOK(nodes) /\ walk \in WalkRec /\ CacheOK /\ reported \in Seq(SUBSET Nat) /\ outages \in Nat
      /\ walks \in Nat
  BY InvHas
<1>3. /\ walk.todo \subseteq 1..Len(nodes) /\ walk.todo \cup walk.done \subseteq walk.seen /\ walk.todo \cap walk.done = {}
      /\ walk.cites \subseteq (1..Len(nodes)) \X (1..Len(nodes))
  BY <1>1, InvHas
<1>4. source \in 1..Len(nodes) /\ (ids # {} => SomeIds(world, ids) /\ PaperOf(ids) \in Papers /\ ids \subseteq world.ids[PaperOf(ids)])
  BY <1>2, <1>3, PaperIs DEF WorksOK
<1>5. (listed => list = MentionsOf(nodes, source)) /\ Listed(list)
  <2>1. CASE ids # {}
    <3>1. (listed => list = world.mentions[PaperOf(ids)]) /\ list \in {world.mentions[PaperOf(ids)], << >>}
      BY <1>2, <1>4, <2>1, ListsAreMentions
    <3>2. Listed(world.mentions[PaperOf(ids)]) /\ Listed(<< >>)
      BY <1>2, <1>4, <2>1, MentionsListed
    <3> QED BY <2>1, <3>1, <3>2 DEF MentionsOf
  <2>2. CASE ids = {}
    <3>1. list = << >> /\ MentionsOf(nodes, source) = << >>
      BY <2>2, NoLists DEF MentionsOf
    <3> QED BY <3>1 DEF Listed
  <2> QED BY <2>1, <2>2
<1>6. \A c \in cache : \E p \in Papers : c.key \in world.ids[p] /\ c.refs = world.mentions[p]
  <2>1. \A c \in refCache : \E p \in Papers : c.key \in world.ids[p] /\ c.refs = world.mentions[p]
    BY InvHas
  <2>2. CASE ids # {} /\ ~IsCached(ids) /\ listed
    <3> DEFINE new == [key |-> KeyOf(ids), refs |-> list]
    <3>1. new.key \in world.ids[PaperOf(ids)] /\ new.refs = world.mentions[PaperOf(ids)]
      BY <1>2, <1>4, <1>5, <2>2, KeyIn DEF MentionsOf
    <3>2. cache = refCache \cup {new}
      BY <2>2
    <3> HIDE DEF new, cache
    <3> QED BY <2>1, <2>2, <3>1, <3>2, <1>4
  <2>3. CASE ~(ids # {} /\ ~IsCached(ids) /\ listed)
    <3>1. cache = refCache
      BY <2>3
    <3> HIDE DEF cache
    <3> QED BY <2>1, <3>1
  <2> QED BY <2>2, <2>3
<1>7. Read(list, answers, Len(list), got)
  BY <1>2, <1>5, ExpandedKeeps
<1> HIDE DEF list, got, cache
<1>8. WorksOK(ns) /\ Grew(nodes, ns) /\ got.cited \subseteq 1..Len(ns) /\ (answers /\ Marked(nodes) => Marked(ns))
  BY <1>7 DEF Read
<1>9. Len(nodes) \in Nat /\ Len(ns) \in Nat /\ 1..Len(nodes) \subseteq 1..Len(ns) /\ 1..Len(ns) \subseteq Nat
  <2>1. Len(nodes) \in Nat /\ Len(ns) \in Nat
    BY <1>2, <1>8, WorkAt
  <2> QED BY <2>1, <1>8 DEF Grew
<1>10. /\ wk.pc = "expand" /\ wk.todo = walk.todo \ {source} /\ wk.done = walk.done \cup {source} /\ wk.seen = walk.seen
       /\ wk.cites = walk.cites \cup ({source} \X (got.cited \ {source})) /\ wk.frontiers = walk.frontiers /\ wk.before = walk.before
  BY <1>1, <1>2 DEF WalkRec
<1>11. wk \in WalkRec
  <2>1. source \in Nat /\ got.cited \subseteq Nat
    BY <1>4, <1>8, <1>9
  <2>2. {source} \X (got.cited \ {source}) \subseteq Nat \X Nat
    BY <2>1
  <2> QED BY <1>2, <2>1, <2>2 DEF WalkRec
<1>12. /\ wk.todo \subseteq 1..Len(ns) /\ wk.todo \cup wk.done \subseteq wk.seen /\ wk.todo \cap wk.done = {}
       /\ wk.cites \subseteq (1..Len(ns)) \X (1..Len(ns))
  <2> HIDE DEF wk, ns
  <2>1. {source} \X (got.cited \ {source}) \subseteq (1..Len(ns)) \X (1..Len(ns))
    BY <1>4, <1>8, <1>9
  <2>2. (1..Len(nodes)) \X (1..Len(nodes)) \subseteq (1..Len(ns)) \X (1..Len(ns))
    BY <1>9
  <2>3. wk.cites \subseteq (1..Len(ns)) \X (1..Len(ns))
    BY <1>3, <1>10, <2>1, <2>2
  <2>4. wk.todo \subseteq 1..Len(ns) /\ wk.todo \cup wk.done \subseteq wk.seen /\ wk.todo \cap wk.done = {}
    BY <1>3, <1>9, <1>10
  <2> QED BY <2>3, <2>4
<1>13. outages' \in Nat /\ (outages' = 0 => outages = 0 /\ listed /\ answers)
  BY <1>1, <1>2
<1> HIDE DEF wk
<1>14. ASSUME outages' = 0, Knowable PROVE HistoryOf(ns, wk, reported)
  <2> DEFINE F == walk.frontiers
             L == Len(walk.frontiers)
             S == Here(walk) \ walk.todo
  <2>1. listed /\ answers /\ Marked(nodes) /\ HistoryOf(nodes, walk, reported)
    BY <1>13, <1>14, InvHas
  <2>2. Follows(nodes, F) /\ Walking(nodes, walk)
    BY <1>1, <2>1 DEF HistoryOf
  <2>3. /\ L \in 1..MaxDepth /\ (\A g \in 1..L : F[g] # {}) /\ Here(walk) = F[L] /\ source \in F[L] /\ walk.todo \subseteq F[L]
        /\ (\A s \in S : Settled(nodes, s)) /\ walk.cites = Links(nodes, S) /\ walk.seen = SeenBy(nodes, F, L)
    <3>1. Here(walk) = F[L]
      BY DEF Here
    <3> QED BY <3>1, <2>2 DEF Walking
  <2>4. L \in Nat \ {0} /\ MaxDepth \in Nat \ {0}
    BY <2>3, WalkAssumption
  <2>5. list = MentionsOf(nodes, source) /\ Read(MentionsOf(nodes, source), TRUE, Len(MentionsOf(nodes, source)), got)
    <3>1. answers = TRUE
      BY <2>1
    <3> QED BY <3>1, <2>1, <1>5, <1>7
  <2>6. Settled(ns, source) /\ Linked(ns, source) = got.cited \ {source}
    BY <2>1, <2>5, <1>2, <1>4, <1>14, ReadSettles
  <2>7. Links(ns, S) = Links(nodes, S) /\ \A s \in S : Settled(ns, s)
    BY <2>3, <1>2, <1>8, LinksKept
  <2>8. Follows(ns, F)
    BY <2>2, <2>4, <1>2, <1>8, FollowsKept
  <2>9. Walking(ns, wk)
    <3>1. Here(wk) = F[L] /\ Here(wk) \ wk.todo = S \cup {source}
      BY <1>10, <2>3 DEF Here
    <3>2. wk.cites = Links(ns, S \cup {source})
      <4>1. wk.cites = Links(ns, S) \cup ({source} \X Linked(ns, source))
        BY <1>10, <2>3, <2>6, <2>7
      <4> QED BY <4>1, LinksMore
    <3>3. SeenBy(ns, F, L) = SeenBy(nodes, F, L)
      <4>1. \A h \in 1..(L - 1) : \A s \in F[h] : Settled(nodes, s)
        BY <2>2 DEF Follows
      <4> QED BY <4>1, <2>4, <1>2, <1>8, SeenKept
    <3>4. \A s \in S \cup {source} : Settled(ns, s)
      BY <2>6, <2>7
    <3>5. wk.todo \subseteq F[L]
      BY <1>10, <2>3
    <3> HIDE DEF ns, S
    <3> QED BY <3>1, <3>2, <3>3, <3>4, <3>5, <2>3, <1>10 DEF Walking
  <2>10. ASSUME reported # << >> PROVE Follows(ns, reported) /\ WholeWalk(reported) /\ Repeats(ns, wk, reported)
    <3>1. Follows(nodes, reported) /\ WholeWalk(reported) /\ Repeats(nodes, walk, reported)
      BY <1>1, <2>1, <2>10 DEF HistoryOf
    <3>2. nodes = walk.before /\ L <= Len(reported) /\ \A g \in 1..L : F[g] = reported[g]
      BY <3>1 DEF Repeats
    <3>3. Len(reported) \in Nat \ {0} /\ Len(reported) <= MaxDepth + 1 /\ (Len(reported) = MaxDepth + 1 \/ reported[Len(reported)] = {})
      BY <3>1, <2>4 DEF WholeWalk
    <3>4. L \in 1..(Len(reported) - 1)
      <4>1. L # Len(reported)
        BY <3>2, <3>3, <2>3, <2>4
      <4> QED BY <4>1, <3>2, <3>3, <2>4
    <3>5. Settled(nodes, source)
      <4>1. source \in reported[L]
        BY <2>3, <2>4, <3>2
      <4> QED BY <4>1, <3>4, <3>1 DEF Follows
    <3>6. \A j \in 1..Len(list) : Owned(nodes, Enriched(list[j], TRUE))
      <4> SUFFICES ASSUME NEW j \in 1..Len(list) PROVE Owned(nodes, Enriched(list[j], TRUE))
        OBVIOUS
      <4>1. AMention(world, list[j]) /\ list[j] \in Mentioned
        BY <1>5 DEF Listed
      <4>2. CASE list[j].ids = {}
        <5>1. Enriched(list[j], TRUE) = list[j] /\ list[j].title = 0
          BY <1>2, <1>14, <4>1, <4>2, EnrichedIs DEF Knowable
        <5> QED BY <4>2, <5>1 DEF Owned, Nameless
      <4>3. CASE list[j].ids # {}
        BY <4>3, <3>5, <2>5 DEF Settled, Owned
      <4> QED BY <4>2, <4>3
    <3>7. ns = nodes
      BY <3>6, <2>1, <2>5, <1>14 DEF Read
    <3> HIDE DEF ns
    <3> QED BY <3>1, <3>2, <3>7, <1>10 DEF Repeats
  <2> HIDE DEF ns
  <2> QED BY <2>8, <2>9, <2>10, <1>10 DEF HistoryOf
<1>15. (wk.pc # "idle" => WorksOK(wk.before)) /\ (outages' = 0 => Marked(ns) /\ (wk.pc # "idle" => Marked(wk.before)))
  BY <1>1, <1>8, <1>10, <1>13, InvHas
<1>16. PICK o \in Nat : outages' = o
  BY <1>13
<1> HIDE DEF ns
<1>17. (o = 0 => Marked(ns) /\ (wk.pc # "idle" => Marked(wk.before))) /\ (o = 0 /\ Knowable => HistoryOf(ns, wk, reported))
  BY <1>14, <1>15, <1>16
<1> QED BY <1>1, <1>2, <1>6, <1>8, <1>11, <1>12, <1>15, <1>16, <1>17, StepKeeps

LEMMA WalkStutter ==
  ASSUME WalkInv, UNCHANGED walkVars
  PROVE  WalkInv'
<1>1. /\ world' = world /\ nodes' = nodes /\ walk' = walk /\ reported' = reported
      /\ outages' = outages /\ refCache' = refCache /\ walks' = walks
  BY DEF walkVars
<1> QED BY <1>1, InvHas, StepKeeps

\* The works, the cache and the generations, in every reachable state.
THEOREM WalkInvariant == WalkSpec => []WalkInv
<1>1. WalkInv /\ [WalkNext]_walkVars => WalkInv'
  BY BeginKeeps, GenerationKeeps, CommitKeeps, DiesKeeps, ExpiresKeeps, ExpandKeeps, WalkStutter DEF WalkNext, WalkStep
<1> QED BY <1>1, WalkInitOK, PTL DEF WalkSpec

LEMMA OneWorkNow == WalkInv => OneWorkPerPaper
<1> SUFFICES ASSUME WalkInv, outages = 0, NEW i \in 1..Len(nodes), NEW j \in 1..Len(nodes), nodes[i].ids # {}, nodes[j].ids # {},
                    PaperOf(nodes[i].ids) = PaperOf(nodes[j].ids), Recognisable(PaperOf(nodes[i].ids))
             PROVE  i = j
  BY DEF OneWorkPerPaper
<1>1. WorldOK(world) /\ WorksOK(nodes) /\ Marked(nodes)
  BY InvHas
<1>2. SomeIds(world, nodes[i].ids) /\ SomeIds(world, nodes[j].ids)
  BY <1>1 DEF WorksOK
<1>3. /\ PaperOf(nodes[i].ids) \in Papers /\ nodes[i].ids \subseteq world.ids[PaperOf(nodes[i].ids)]
      /\ nodes[j].ids \subseteq world.ids[PaperOf(nodes[i].ids)]
  BY <1>1, <1>2, PaperIs
<1> QED BY <1>1, <1>3, MarkedOnce

LEMMA TargetHolds ==
  ASSUME NEW ids, NEW t \in 1..Len(nodes), Target(ids) = t, Len(nodes) \in Nat
  PROVE  ids \cap nodes[t].ids # {}
<1> DEFINE held == {a \in ids \X (1..Len(nodes)) : a[1] \in nodes[a[2]].ids}
           first(a) == \A b \in held : IdRank[a[1][1]] < IdRank[b[1][1]] \/ (a[1] = b[1] /\ a[2] <= b[2])
           a == CHOOSE x \in held : first(x)
<1>1. Target(ids) = IF \E x \in held : first(x) THEN a[2] ELSE 0
  BY DEF Target
<1> HIDE DEF first
<1>2. \E x \in held : first(x)
  BY <1>1
<1>3. a \in held /\ a[2] = t
  BY <1>1, <1>2
<1> HIDE DEF a
<1>4. a[1] \in ids /\ a[1] \in nodes[a[2]].ids
  BY <1>3
<1> QED BY <1>3, <1>4

LEMMA EdgesNow == WalkInv => EdgesAreMentions
<1> SUFFICES ASSUME WalkInv, NEW e \in ProviderEdges
             PROVE  /\ nodes[e[1]].ids # {} /\ nodes[e[2]].ids # {}
                    /\ \E k \in 1..Len(world.mentions[PaperOf(nodes[e[1]].ids)]) :
                         Names(world.mentions[PaperOf(nodes[e[1]].ids)][k], PaperOf(nodes[e[2]].ids))
  BY DEF EdgesAreMentions
<1>1. WorldOK(world) /\ WorksOK(nodes) /\ CacheOK /\ Len(nodes) \in Nat
  BY InvHas, WorkAt
<1> DEFINE list == CachedRefs(nodes[e[1]].ids)
<1>0. PICK p : p = PaperOf(nodes[e[1]].ids)
  OBVIOUS
<1>2. e[1] \in 1..Len(nodes) /\ e[2] \in 1..Len(nodes) /\ \E k \in 1..Len(list) : Target(list[k].ids) = e[2]
  BY DEF ProviderEdges
<1>3. PICK k \in 1..Len(list) : Target(list[k].ids) = e[2]
  BY <1>2
<1>4. list[k].ids \cap nodes[e[2]].ids # {}
  BY <1>1, <1>2, <1>3, TargetHolds
<1>5. IsCached(nodes[e[1]].ids)
  <2> SUFFICES ASSUME ~IsCached(nodes[e[1]].ids) PROVE FALSE
    OBVIOUS
  <2>1. list = << >>
    BY DEF CachedRefs
  <2>2. k \in 1..0
    BY <2>1
  <2> QED BY <2>2
<1>6. nodes[e[1]].ids # {} /\ SomeIds(world, nodes[e[1]].ids) /\ SomeIds(world, nodes[e[2]].ids)
  BY <1>1, <1>2, <1>4, <1>5 DEF WorksOK, IsCached
<1>7. list = world.mentions[p] /\ p \in Papers
  BY <1>1, <1>5, <1>0, <1>6, ListsAreMentions, PaperIs
<1> HIDE DEF list
<1>8. SomeIds(world, list[k].ids)
  <2>1. AMention(world, list[k])
    BY <1>1, <1>3, <1>7, MentionsAre
  <2> QED BY <2>1, <1>4 DEF AMention
<1>9. PaperOf(list[k].ids) = PaperOf(nodes[e[2]].ids) /\ list[k].ids \subseteq world.ids[PaperOf(list[k].ids)]
  BY <1>1, <1>4, <1>6, <1>8, PaperKept, PaperIs
<1>10. k \in 1..Len(world.mentions[p]) /\ Names(world.mentions[p][k], PaperOf(nodes[e[2]].ids))
  BY <1>3, <1>7, <1>8, <1>9 DEF SomeIds, Names
<1> QED BY <1>0, <1>6, <1>10 DEF SomeIds

LEMMA AnotherNow == WalkInv => AnotherWalkAddsNone
<1> SUFFICES ASSUME WalkInv, walk.pc = "commit", outages = 0, reported # << >>, Knowable
             PROVE  nodes = walk.before /\ walk.frontiers = reported
  BY DEF AnotherWalkAddsNone, Knowable
<1>1. HistoryOf(nodes, walk, reported) /\ walk.frontiers \in Seq(SUBSET Nat) /\ reported \in Seq(SUBSET Nat) /\ MaxDepth \in Nat
  BY InvHas, WalkAssumption DEF WalkRec
<1>2. WholeWalk(walk.frontiers) /\ WholeWalk(reported) /\ Repeats(nodes, walk, reported)
  BY <1>1 DEF HistoryOf
<1>3. nodes = walk.before /\ Len(walk.frontiers) <= Len(reported) /\ \A g \in 1..Len(walk.frontiers) : walk.frontiers[g] = reported[g]
  BY <1>2 DEF Repeats
<1> QED BY <1>1, <1>2, <1>3, WholesAgree

(* For any world of papers: while no provider fails a recognisable paper becomes  *)
(* one work, no work is asked for its references twice by a walk, an edge is a    *)
(* mention whatever the works have gained since, and a walk after a whole one     *)
(* adds nothing and finds the same generations.                                  *)
THEOREM WalksDoAgree == WalkSpec => []WalksAgree
<1>1. WalkInv => ExpandedOnce
  BY InvHas DEF ExpandedOnce
<1>2. WalkInv => WalksAgree
  BY <1>1, OneWorkNow, EdgesNow, AnotherNow DEF WalksAgree
<1> QED BY <1>2, WalkInvariant, PTL
=============================================================================
