---------------------------- MODULE Overlay_proofs ----------------------------
(* What is kept by the semantic overlay, for any corpora, builds and verdicts, *)
(* and by the answers drawn from a project, for any question, reply and change *)
(* of mind.  The two share no state: one part for each.                        *)
EXTENDS Overlay, Answers, SequenceTheorems, FiniteSetTheorems, WellFoundedInduction, TLAPS

LEMMA HasLeast ==
  ASSUME NEW S \in SUBSET Nat, S # {}
  PROVE  \E i \in S : \A j \in S : i <= j
<1> DEFINE Less == {p \in Nat \X Nat : p[1] < p[2]}
<1>1. IsWellFoundedOn(Less, Nat)
  BY NatLessThanWellFounded DEF OpToRel
<1>2. \E i \in S : \A j \in S : <<j, i>> \notin Less
  <2> HIDE DEF Less
  <2> QED BY <1>1, WFMin, Zenon
<1>3. \A i, j \in Nat : <<j, i>> \notin Less => i <= j
  OBVIOUS
<1> QED BY <1>2, <1>3

-----------------------------------------------------------------------------
(* I. The overlay. *)

-----------------------------------------------------------------------------
(* The classes of labels. *)

\* What the class of a label has, every closed set that holds the label has.
LEMMA InClass ==
  ASSUME NEW ls, NEW pairs, NEW l, NEW m, m \in ClassOf(l, ls, pairs),
         NEW S \in SUBSET ls, l \in S, ClosedUnder(S, ls, pairs)
  PROVE  m \in S
BY DEF ClassOf

LEMMA OwnClass ==
  ASSUME NEW ls, NEW pairs, NEW l \in ls
  PROVE  l \in ClassOf(l, ls, pairs) /\ ClassOf(l, ls, pairs) \subseteq ls
BY DEF ClassOf

\* A pair of the relation never leaves a class.
LEMMA ClassIsClosed ==
  ASSUME NEW ls, NEW pairs, NEW l
  PROVE  ClosedUnder(ClassOf(l, ls, pairs), ls, pairs)
<1> SUFFICES ASSUME NEW x \in ClassOf(l, ls, pairs), NEW y \in ls, {x, y} \in pairs
             PROVE  y \in ClassOf(l, ls, pairs)
  BY DEF ClosedUnder
<1>1. SUFFICES ASSUME NEW S \in SUBSET ls, l \in S, ClosedUnder(S, ls, pairs)
               PROVE  y \in S
  BY DEF ClassOf
<1>2. x \in S
  BY <1>1, InClass
<1> QED BY <1>1, <1>2 DEF ClosedUnder

\* What is outside a closed set is closed as well: the relation is symmetric.
LEMMA OutsideIsClosed ==
  ASSUME NEW ls, NEW pairs, NEW S \in SUBSET ls, ClosedUnder(S, ls, pairs)
  PROVE  ClosedUnder(ls \ S, ls, pairs)
<1> SUFFICES ASSUME NEW x \in ls \ S, NEW y \in ls, {x, y} \in pairs, y \in S
             PROVE  FALSE
  BY DEF ClosedUnder
<1>1. {y, x} \in pairs
  <2>1. {y, x} = {x, y}
    OBVIOUS
  <2> QED BY <2>1
<1> QED BY <1>1 DEF ClosedUnder

\* Every member of a class has that class.
LEMMA ClassOfMember ==
  ASSUME NEW ls, NEW pairs, NEW l \in ls, NEW m \in ClassOf(l, ls, pairs)
  PROVE  ClassOf(m, ls, pairs) = ClassOf(l, ls, pairs)
<1>1. m \in ls
  BY DEF ClassOf
<1>2. ASSUME NEW S \in SUBSET ls, ClosedUnder(S, ls, pairs)
      PROVE  l \in S <=> m \in S
  <2>1. l \in S => m \in S
    BY <1>2, InClass
  <2>2. ASSUME l \notin S PROVE m \notin S
    <3>1. ClosedUnder(ls \ S, ls, pairs)
      BY <1>2, OutsideIsClosed
    <3>2. m \in ls \ S
      BY <3>1, <2>2, InClass
    <3> QED BY <3>2
  <2> QED BY <2>1, <2>2
<1>3. ASSUME NEW x \in ls
      PROVE  x \in ClassOf(m, ls, pairs) <=> x \in ClassOf(l, ls, pairs)
  BY <1>2 DEF ClassOf
<1>4. ClassOf(m, ls, pairs) \subseteq ls /\ ClassOf(l, ls, pairs) \subseteq ls
  BY DEF ClassOf
<1> QED BY <1>3, <1>4

LEMMA ClassesAreApart ==
  ASSUME NEW ls, NEW pairs, NEW g \in Classes(ls, pairs), NEW h \in Classes(ls, pairs), NEW x, x \in g, x \in h
  PROVE  g = h
<1>1. PICK l \in ls : g = ClassOf(l, ls, pairs)
  BY DEF Classes
<1>2. PICK m \in ls : h = ClassOf(m, ls, pairs)
  BY DEF Classes
<1> QED BY <1>1, <1>2, ClassOfMember

LEMMA ClassesAreLabels ==
  ASSUME NEW ls, NEW pairs, NEW g \in Classes(ls, pairs)
  PROVE  g \subseteq ls /\ g # {}
BY OwnClass DEF Classes

LEMMA EveryLabelHasClass ==
  ASSUME NEW ls, NEW pairs, NEW l \in ls
  PROVE  \E g \in Classes(ls, pairs) : l \in g
BY OwnClass DEF Classes

\* A joined pair is in one class.
LEMMA PairsMeet ==
  ASSUME NEW ls, NEW pairs, NEW l \in ls, NEW m \in ls, {l, m} \in pairs
  PROVE  \E g \in Classes(ls, pairs) : {l, m} \subseteq g
<1>1. l \in ClassOf(l, ls, pairs) /\ ClosedUnder(ClassOf(l, ls, pairs), ls, pairs)
  BY OwnClass, ClassIsClosed
<1>2. m \in ClassOf(l, ls, pairs)
  BY <1>1 DEF ClosedUnder
<1> QED BY <1>1, <1>2 DEF Classes

\* A class is there for its pairs: of several labels each is joined to another one.
LEMMA NobodyAlone ==
  ASSUME NEW ls, NEW pairs, NEW g \in Classes(ls, pairs), NEW l \in g, g # {l}
  PROVE  \E m \in g \ {l} : {l, m} \in pairs
<1> SUFFICES ASSUME \A m \in g \ {l} : {l, m} \notin pairs
             PROVE  FALSE
  OBVIOUS
<1>1. l \in ls /\ g = ClassOf(l, ls, pairs)
  <2>1. PICK b \in ls : g = ClassOf(b, ls, pairs)
    BY DEF Classes
  <2>2. l \in ClassOf(b, ls, pairs) /\ l \in ls
    BY <2>1 DEF ClassOf
  <2> QED BY <2>1, <2>2, ClassOfMember
<1>2. ClosedUnder(g, ls, pairs)
  BY <1>1, ClassIsClosed
<1>3. ClosedUnder({l}, ls, pairs)
  BY <1>1, <1>2 DEF ClosedUnder
<1>4. \A m \in g : m \in {l}
  BY <1>1, <1>3, InClass
<1> QED BY <1>4

-----------------------------------------------------------------------------
(* Labels, and the classes of access. *)

LEMMA LeastOf ==
  ASSUME NEW S \in SUBSET Nat, S # {}
  PROVE  Min(S) \in S
<1>1. \E x \in S : \A y \in S : x =< y
  BY HasLeast
<1> QED BY <1>1 DEF Min

LEMMA OneMoreLength ==
  ASSUME NEW s, NEW n \in Nat, \A l \in 1..n : s[l] \in Nat, s[n] \in Nat,
         NEW b \in Nat, \A l \in 1..(n - 1) : s[l] <= b
  PROVE  \E c \in Nat : \A l \in 1..n : s[l] <= c
<1>1. CASE b <= s[n]
  <2>1. \A l \in 1..n : s[l] <= s[n]
    <3> TAKE l \in 1..n
    <3>1. l = n \/ l \in 1..(n - 1)
      OBVIOUS
    <3>2. s[l] \in Nat
      OBVIOUS
    <3>3. CASE l = n
      BY <3>3
    <3>4. CASE l \in 1..(n - 1)
      <4>1. s[l] <= b
        BY <3>4
      <4> QED BY <4>1, <3>2, <1>1
    <3> QED BY <3>1, <3>3, <3>4
  <2> QED BY <2>1
<1>2. CASE s[n] <= b
  <2>1. \A l \in 1..n : s[l] <= b
    <3> TAKE l \in 1..n
    <3>1. l = n \/ l \in 1..(n - 1)
      OBVIOUS
    <3> QED BY <3>1, <1>2
  <2> QED BY <2>1
<1> QED BY <1>1, <1>2

\* The lengths of finitely many labels have a bound.
LEMMA LengthsAreBounded ==
  ASSUME NEW s \in Seq(Nat)
  PROVE  \E b \in Nat : \A l \in DOMAIN s : s[l] <= b
<1> DEFINE Unbounded == {n \in 1..Len(s) : ~ \E b \in Nat : \A l \in 1..n : s[l] <= b}
<1>1. Len(s) \in Nat /\ DOMAIN s = 1..Len(s) /\ \A l \in 1..Len(s) : s[l] \in Nat
  OBVIOUS
<1>2. Unbounded = {}
  <2> SUFFICES ASSUME Unbounded # {} PROVE FALSE
    OBVIOUS
  <2>1. Unbounded \subseteq Nat
    BY <1>1
  <2>2. PICK n \in Unbounded : \A j \in Unbounded : n <= j
    <3> HIDE DEF Unbounded
    <3> QED BY <2>1, HasLeast
  <2>n. n \in 1..Len(s) /\ n \in Nat /\ ~ \E b \in Nat : \A l \in 1..n : s[l] <= b
    BY <1>1
  <2>3. PICK b \in Nat : \A l \in 1..(n - 1) : s[l] <= b
    <3>1. CASE n = 1
      <4>1. \A l \in 1..(n - 1) : s[l] <= 0
        BY <3>1
      <4> QED BY <4>1
    <3>2. CASE n # 1
      <4>1. n - 1 \in 1..Len(s) /\ ~(n <= n - 1)
        BY <3>2, <2>n, <1>1
      <4>2. n - 1 \notin Unbounded
        BY <4>1, <2>2
      <4> QED BY <4>1, <4>2
    <3> QED BY <3>1, <3>2
  <2>4. s[n] \in Nat
    BY <1>1, <2>n
  <2>6. \E c \in Nat : \A l \in 1..n : s[l] <= c
    <3> HIDE DEF Unbounded
    <3>1. \A l \in 1..n : s[l] \in Nat
      <4> TAKE l \in 1..n
      <4>1. l \in 1..Len(s)
        BY <1>1, <2>n
      <4> QED BY <4>1, <1>1
    <3> QED BY <3>1, <2>n, <2>3, <2>4, OneMoreLength
  <2> QED BY <2>n, <2>6
<1>3. CASE Len(s) = 0
  BY <1>1, <1>3
<1>4. CASE Len(s) # 0
  <2>1. Len(s) \notin Unbounded /\ Len(s) \in 1..Len(s)
    <3> HIDE DEF Unbounded
    <3> QED BY <1>1, <1>2, <1>4
  <2> QED BY <2>1, <1>1
<1> QED BY <1>3, <1>4

LEMMA LongestOf ==
  ASSUME NEW s \in Seq(Nat), NEW P \in SUBSET DOMAIN s, P # {}
  PROVE  \E l \in P : \A m \in P : s[m] <= s[l]
<1>1. PICK b \in Nat : \A l \in DOMAIN s : s[l] <= b
  BY LengthsAreBounded
<1>2. \A l \in P : s[l] \in Nat /\ s[l] <= b
  BY <1>1
<1> DEFINE Gaps == {b - s[l] : l \in P}
<1>3. Gaps \subseteq Nat /\ Gaps # {}
  BY <1>2
<1>4. PICK d \in Gaps : \A e \in Gaps : d <= e
  <2> HIDE DEF Gaps
  <2> QED BY <1>3, HasLeast
<1>5. PICK l \in P : d = b - s[l]
  BY <1>4
<1>6. ASSUME NEW m \in P PROVE s[m] <= s[l]
  <2>1. b - s[m] \in Gaps
    OBVIOUS
  <2>2. b - s[l] <= b - s[m]
    BY <2>1, <1>4, <1>5
  <2> QED BY <2>2, <1>2
<1> QED BY <1>5, <1>6

\* The canonical label of a set of labels is one of them.
LEMMA CanonicalIsMember ==
  ASSUME corpus \in Corpora, NEW read, NEW ls, ls \subseteq DOMAIN corpus.length, ls # {}
  PROVE  Canonical(read, ls) \in ls
<1>1. corpus.length \in Seq(Nat)
  BY OverlayAssumption
<1>2. ls \subseteq Nat
  BY <1>1
<1>3. CASE ls \cap DOMAIN read.sticky # {}
  <2>1. Min(ls \cap DOMAIN read.sticky) \in ls \cap DOMAIN read.sticky
    BY <1>2, <1>3, LeastOf
  <2> QED BY <2>1, <1>3 DEF Canonical
<1>4. CASE ls \cap DOMAIN read.sticky = {}
  <2> DEFINE Typed == {l \in ls : read.types[l] \notin Generic}
             Pool == IF Typed = {} THEN ls ELSE Typed
             Longest == {l \in Pool : \A m \in Pool : corpus.length[m] <= corpus.length[l]}
  <2>1. Pool \subseteq ls /\ Pool # {}
    OBVIOUS
  <2>2. Longest # {}
    <3> HIDE DEF Pool
    <3> QED BY <1>1, <2>1, LongestOf
  <2>3. Longest \subseteq Pool
    OBVIOUS
  <2>4. Min(Longest) \in Longest
    <3> HIDE DEF Longest, Pool
    <3> QED BY <2>1, <2>2, <2>3, <1>2, LeastOf
  <2>5. FieldTyped(read.types, ls) = Min(Longest)
    BY Zenon DEF FieldTyped
  <2>6. Canonical(read, ls) = Min(Longest)
    BY <1>4, <2>5, Zenon DEF Canonical
  <2> QED
    <3> HIDE DEF Longest, Pool
    <3> QED BY <2>1, <2>3, <2>4, <2>6
<1> QED BY <1>3, <1>4

\* Claims whose class together leaves the project do so one by one.
LEMMA CoveredByAccess ==
  ASSUME NEW claims, ResolveAccess(claims) \in ShareableAccess
  PROVE  \A r \in claims : r.claim.access \in ShareableAccess
<1> DEFINE Rank(r) == IF r.claim.access \in Range(AccessOrder)
                      THEN CHOOSE i \in DOMAIN AccessOrder : AccessOrder[i] = r.claim.access
                      ELSE Len(AccessOrder)
           Ranks == {Rank(r) : r \in claims}
<1> SUFFICES ASSUME NEW r \in claims PROVE r.claim.access \in ShareableAccess
  OBVIOUS
<1>1. /\ DOMAIN AccessOrder = 1..4 /\ Len(AccessOrder) = 4
      /\ AccessOrder[1] = "open_access" /\ AccessOrder[2] = "metadata_only"
      /\ AccessOrder[3] = "licensed_future" /\ AccessOrder[4] = "user_supplied_private"
  BY DEF AccessOrder
<1>2. \A i \in 1..4 : AccessOrder[i] \in ShareableAccess <=> i <= 2
  BY <1>1 DEF ShareableAccess
<1>3. \A q : q.claim.access \in Range(AccessOrder) =>
               Rank(q) \in 1..4 /\ AccessOrder[Rank(q)] = q.claim.access
  BY <1>1 DEF Range
<1>4. \A q : q.claim.access \notin Range(AccessOrder) => Rank(q) = 4
  BY <1>1
<1> HIDE DEF Rank
<1>a. \A q : Rank(q) \in 1..4
  BY <1>3, <1>4
<1>5. Ranks \subseteq 1..4 /\ Rank(r) \in Ranks
  BY <1>a
<1>6. ResolveAccess(claims) = AccessOrder[Max(Ranks)]
  BY Zenon DEF ResolveAccess, Rank
<1>7. Max(Ranks) \in Ranks /\ \A k \in Ranks : Max(Ranks) >= k
  <2> HIDE DEF Ranks
  <2>1. \E x \in Ranks : \A y \in Ranks : x >= y
    <3>1. CASE 4 \in Ranks
      BY <1>5, <3>1
    <3>2. CASE 4 \notin Ranks /\ 3 \in Ranks
      BY <1>5, <3>2
    <3>3. CASE 4 \notin Ranks /\ 3 \notin Ranks /\ 2 \in Ranks
      BY <1>5, <3>3
    <3>4. CASE 4 \notin Ranks /\ 3 \notin Ranks /\ 2 \notin Ranks
      <4>1. \A y \in Ranks : y = 1
        BY <1>5, <3>4
      <4>2. Rank(r) = 1
        BY <1>5, <4>1
      <4> QED BY <1>5, <4>1, <4>2
    <3> QED BY <3>1, <3>2, <3>3, <3>4
  <2> QED BY <2>1 DEF Max
<1>8. Rank(r) <= 2 /\ Rank(r) \in 1..4
  <2> HIDE DEF Ranks
  <2>1. Max(Ranks) <= 2
    <3>1. Max(Ranks) \in 1..4 /\ AccessOrder[Max(Ranks)] \in ShareableAccess
      BY <1>5, <1>6, <1>7
    <3> QED BY <3>1, <1>2
  <2>2. Max(Ranks) >= Rank(r) /\ Rank(r) \in 1..4 /\ Max(Ranks) \in 1..4
    BY <1>5, <1>7
  <2> QED BY <2>1, <2>2
<1>9. r.claim.access \in Range(AccessOrder)
  BY <1>4, <1>8
<1> QED BY <1>2, <1>3, <1>8, <1>9

-----------------------------------------------------------------------------
(* The inductive invariant. *)

\* A row of concepts has these fields, and the strictest class of its claims.
ConceptOK(c) ==
  /\ c = [key |-> c.key, labels |-> c.labels, reviewed |-> c.reviewed, type |-> c.type,
          claims |-> c.claims, access |-> c.access, status |-> c.status]
  /\ c.access = ResolveAccess(c.claims)
ConceptsOK == \A c \in concepts : ConceptOK(c)

\* A label is of one row, which holds its claims; an alias no build folded is one
\* that a reviewer joined.
LabelsOK ==
  /\ \A c \in concepts : \A q \in c.claims : q.claim.label \in c.labels
  /\ \A c, d \in concepts : \A l : l \in c.labels /\ l \in d.labels => c.claims = d.claims
  /\ \A c \in concepts : \A l \in c.reviewed : {c.key, l} \in must

\* What may leave the project with an edge, the claims behind it may.
EdgesAreCovered(rows, es) ==
  \A e \in es, c \in rows :
    e.access \in ShareableAccess /\ c.key = e.to =>
      \A r \in c.claims : r.work = e.from => r.claim.access \in ShareableAccess
MentionsOK == EdgesAreCovered(concepts, mentions)

NotesOK ==
  \A w \in DOMAIN corpus.notes : note[w] \in DOMAIN corpus.notes[w]

\* What a build has read is of the corpus, and no verdict it saw was taken back.
ReadOK ==
  building # NoBuild =>
    /\ DOMAIN building.types \subseteq DOMAIN corpus.length
    /\ building.types = [l \in DOMAIN building.types |-> building.types[l]]
    /\ building.must \subseteq must /\ building.cannot \subseteq cannot
    /\ \A l \in DOMAIN building.sticky : building.sticky[l] # "auto"
    /\ building.number = builds

IsItem(i) == i = [canonical |-> i.canonical, member |-> i.member, build |-> i.build, verdict |-> i.verdict]
ItemOK(i) ==
  /\ IsItem(i)
  /\ i.canonical # i.member
  /\ i.build \in Nat /\ i.build <= builds
  /\ building # NoBuild => i.build < builds
ItemsOK == builds \in Nat /\ \A i \in asked : ItemOK(i)
\* A build asks about a pair once.
AskedOnce == \A i, j \in asked : PairOf(i) = PairOf(j) /\ i.build = j.build => i = j
\* Behind every verdict is the item it answered.
VerdictsOK ==
  /\ \A p \in must : \E i \in asked : PairOf(i) = p /\ i.verdict = "approved"
  /\ \A p \in cannot : \E i \in asked : PairOf(i) = p /\ i.verdict = "apart"

\* The typed labels a hash identifies, and the acronym pairs they offer.
TypesOf(h) == [l \in {x[2] : x \in h} |-> CHOOSE t : <<t, l>> \in h]
Offered(h) == (UNION {PairsOf(c) : c \in Clusters([types |-> TypesOf(h)])}) \cap corpus.acronym
Joined(g) == g.mustApplied \cup g.mustSkipped
LogOK(g) ==
  /\ g.folds \cup g.skips = Offered(g.hash)
  /\ Joined(g) \subseteq PairsOf(DOMAIN TypesOf(g.hash)) /\ Joined(g) \subseteq must
  /\ building # NoBuild => Joined(g) \subseteq building.must
LogsOK ==
  /\ \E S : logs \in Seq(S)
  /\ \A n \in DOMAIN logs : LogOK(logs[n])

OverInv ==
  /\ corpus \in Corpora
  /\ NotesOK /\ ReadOK
  /\ ConceptsOK /\ LabelsOK /\ OnlyCausedFolds /\ MentionsOK
  /\ ItemsOK /\ AskedOnce /\ VerdictsOK
  /\ LogsOK /\ SameSetSameCandidates

-----------------------------------------------------------------------------
(* What the invariant says. *)

LEMMA PublicFollows ==
  ASSUME ConceptsOK, LabelsOK, MentionsOK
  PROVE  PublicIsCovered
<1>1. ASSUME NEW c \in PublicConcepts, NEW d \in concepts, NEW q \in d.claims,
             q.claim.label \in ShownLabels(c)
      PROVE  \/ q.claim.access \in ShareableAccess
             \/ q.claim.label \notin c.labels /\ {c.key, q.claim.label} \in must
  <2>1. c \in concepts /\ ResolveAccess(c.claims) \in ShareableAccess
    BY <1>1 DEF PublicConcepts, ConceptsOK, ConceptOK
  <2>2. CASE q.claim.label \in c.labels
    <3>1. q.claim.label \in d.labels
      BY <1>1 DEF LabelsOK
    <3>2. q \in c.claims
      BY <1>1, <2>1, <2>2, <3>1 DEF LabelsOK
    <3> QED BY <2>1, <3>2, CoveredByAccess
  <2>3. CASE q.claim.label \notin c.labels
    BY <1>1, <2>1, <2>3 DEF LabelsOK, ShownLabels
  <2> QED BY <2>2, <2>3
<1>2. \A e \in PublicMentions : e \in mentions /\ e.access \in ShareableAccess
  BY DEF PublicMentions
<1> QED BY <1>1, <1>2 DEF PublicIsCovered, MentionsOK, EdgesAreCovered

LEMMA ContradictionFollows ==
  ASSUME AskedOnce, VerdictsOK
  PROVE  ContradictionTakesTwoItems
<1> SUFFICES ASSUME NEW p \in must \cap cannot
             PROVE  \E i, j \in asked : /\ PairOf(i) = p /\ PairOf(j) = p
                                       /\ i.verdict = "approved" /\ j.verdict = "apart" /\ i.build # j.build
  BY DEF ContradictionTakesTwoItems
<1>1. PICK i \in asked : PairOf(i) = p /\ i.verdict = "approved"
  BY DEF VerdictsOK
<1>2. PICK j \in asked : PairOf(j) = p /\ j.verdict = "apart"
  BY DEF VerdictsOK
<1>3. i # j
  BY <1>1, <1>2
<1>4. i.build # j.build
  BY <1>1, <1>2, <1>3 DEF AskedOnce
<1> QED BY <1>1, <1>2, <1>4

-----------------------------------------------------------------------------
(* What a build decides. *)

LEMMA ClustersByType ==
  ASSUME NEW read
  PROVE  Clusters(read) = Clusters([types |-> read.types])
<1> DEFINE other == [types |-> read.types]
<1>1. other.types = read.types
  OBVIOUS
<1> HIDE DEF other
<1> QED BY <1>1, Zenon DEF Clusters, SameType

LEMMA HashTellsTypes ==
  ASSUME NEW T, T = [l \in DOMAIN T |-> T[l]]
  PROVE  TypesOf(SetHash(T)) = T
<1> DEFINE h == SetHash(T)
<1>1. \A t, l : <<t, l>> \in h <=> l \in DOMAIN T /\ t = T[l]
  BY DEF SetHash
<1>2. {x[2] : x \in h} = DOMAIN T
  <2>1. ASSUME NEW x \in h PROVE x[2] \in DOMAIN T
    BY DEF SetHash
  <2>2. ASSUME NEW l \in DOMAIN T PROVE \E x \in h : x[2] = l
    <3>1. <<T[l], l>> \in h /\ <<T[l], l>>[2] = l
      BY DEF SetHash
    <3> QED BY <3>1
  <2> HIDE DEF h
  <2> QED BY <2>1, <2>2
<1> HIDE DEF h
<1>3. \A l \in DOMAIN T : (CHOOSE t : <<t, l>> \in h) = T[l]
  <2> TAKE l \in DOMAIN T
  <2>1. <<T[l], l>> \in h
    BY <1>1
  <2>2. <<CHOOSE t : <<t, l>> \in h, l>> \in h
    BY <2>1
  <2> QED BY <2>2, <1>1
<1>4. TypesOf(h) = [l \in DOMAIN T |-> T[l]]
  BY <1>2, <1>3 DEF TypesOf
<1> QED BY <1>4 DEF h

LEMMA LogFits ==
  ASSUME NEW read, read.types = [l \in DOMAIN read.types |-> read.types[l]], NEW g, g = DecisionLog(read)
  PROVE  /\ TypesOf(g.hash) = read.types
         /\ g.folds \cup g.skips = Offered(g.hash)
         /\ Joined(g) = read.must \cap PairsOf(DOMAIN read.types)
<1>1. /\ g.hash = SetHash(read.types) /\ g.folds = AcronymFolds(read) /\ g.skips = AcronymSkips(read)
      /\ g.mustApplied = MustFolds(read) /\ g.mustSkipped = MustSkips(read)
  BY DEF DecisionLog
<1>2. TypesOf(g.hash) = read.types
  BY <1>1, HashTellsTypes
<1>3. Clusters([types |-> TypesOf(g.hash)]) = Clusters(read)
  BY <1>2, ClustersByType
<1>4. g.folds \cup g.skips = Offered(g.hash)
  <2> DEFINE inside(C) == UNION {PairsOf(c) : c \in C}
  <2>1. AcronymFolds(read) = (inside(Clusters(read)) \cap corpus.acronym) \ read.cannot
    BY DEF AcronymFolds
  <2>2. AcronymSkips(read) = inside(Clusters(read)) \cap corpus.acronym \cap read.cannot
    BY DEF AcronymSkips
  <2>3. Offered(g.hash) = inside(Clusters([types |-> TypesOf(g.hash)])) \cap corpus.acronym
    BY DEF Offered
  <2> HIDE DEF inside
  <2>4. Offered(g.hash) = inside(Clusters(read)) \cap corpus.acronym
    BY <1>3, <2>3
  <2> QED BY <1>1, <2>1, <2>2, <2>4
<1>5. Joined(g) = read.must \cap PairsOf(DOMAIN read.types)
  BY <1>1 DEF Joined, MustFolds, MustSkips
<1> QED BY <1>2, <1>4, <1>5

LEMMA RowOf ==
  ASSUME NEW read, NEW g, NEW c, c = ConceptOf(read, g)
  PROVE  /\ ConceptOK(c)
         /\ c.key = Canonical(read, g) /\ c.labels = g /\ c.claims = OfLabels(read.claims, g)
         /\ c.reviewed = {}
         /\ c.status = IF c.key \in DOMAIN read.sticky THEN read.sticky[c.key] ELSE "auto"
BY DEF ConceptOf, ConceptOK

\* The groups of a build, and their keys.
LEMMA GroupsAre ==
  ASSUME corpus \in Corpora, NEW read, DOMAIN read.types \subseteq DOMAIN corpus.length,
         NEW g \in Groups(read)
  PROVE  /\ g \subseteq DOMAIN read.types /\ g # {}
         /\ Canonical(read, g) \in g
<1>1. g \subseteq DOMAIN read.types /\ g # {}
  BY ClassesAreLabels DEF Groups
<1> QED BY <1>1, CanonicalIsMember

LEMMA KeysTellRows ==
  ASSUME corpus \in Corpora, NEW read, DOMAIN read.types \subseteq DOMAIN corpus.length,
         NEW g \in Groups(read), NEW h \in Groups(read), Canonical(read, g) = Canonical(read, h)
  PROVE  g = h
<1>1. Canonical(read, g) \in g /\ Canonical(read, g) \in h
  BY GroupsAre
<1> QED BY <1>1, ClassesAreApart DEF Groups

\* The edges a build derives from its rows are covered by the claims of the rows.
LEMMA NewEdgesAreCovered ==
  ASSUME NEW rows, \A c, d \in rows : c.key = d.key => c = d
  PROVE  EdgesAreCovered(rows, Discusses(rows) \cup CoOccurs(rows))
<1> SUFFICES ASSUME NEW e \in Discusses(rows) \cup CoOccurs(rows), NEW c \in rows,
                    e.access \in ShareableAccess, c.key = e.to,
                    NEW r \in c.claims, r.work = e.from
             PROVE  r.claim.access \in ShareableAccess
  BY DEF EdgesAreCovered
<1>1. CASE e \in Discusses(rows)
  <2>1. PICK d \in rows, w \in DOMAIN corpus.notes :
          e = [from |-> w, to |-> d.key, access |-> ResolveAccess({q \in d.claims : q.work = w})]
    BY <1>1 DEF Discusses
  <2>2. e.from = w /\ e.to = d.key /\ e.access = ResolveAccess({q \in d.claims : q.work = w})
    BY <2>1
  <2>3. c = d /\ r \in {q \in d.claims : q.work = w}
    BY <2>2
  <2> QED BY <2>2, <2>3, CoveredByAccess
<1>2. CASE e \in CoOccurs(rows)
  <2>1. PICK b \in rows, d \in rows :
          e = [from |-> b.key, to |-> d.key, access |-> ResolveAccess(b.claims \cup d.claims)]
    BY <1>2 DEF CoOccurs
  <2>2. e.to = d.key /\ e.access = ResolveAccess(b.claims \cup d.claims)
    BY <2>1
  <2>3. c = d /\ r \in b.claims \cup d.claims
    BY <2>2
  <2> QED BY <2>2, <2>3, CoveredByAccess
<1> QED BY <1>1, <1>2

LEMMA ItemOf ==
  ASSUME corpus \in Corpora, NEW read, DOMAIN read.types \subseteq DOMAIN corpus.length,
         NEW groups, NEW s, NEW i \in ItemsFor(read, groups, s)
  PROVE  /\ IsItem(i)
         /\ i.canonical # i.member
         /\ i.build = read.number /\ i.verdict = "open"
         /\ PairOf(i) \notin read.cannot \cup read.must
         /\ ~ \E g \in groups : PairOf(i) \subseteq g
         /\ PairOf(i) \notin corpus.versions
<1> DEFINE ls == s \cap DOMAIN read.types
           c == Canonical(read, ls)
<1>1. ~(Cardinality(ls) < 2) /\ PassesGuardrails(c, ls)
  BY DEF ItemsFor
<1>2. PICK l \in ls \ {c} :
        Asks(read, groups, c, l) /\ i = [canonical |-> c, member |-> l, build |-> read.number, verdict |-> "open"]
  BY <1>1 DEF ItemsFor
<1>3. ls # {} /\ ls \subseteq DOMAIN corpus.length
  BY <1>2
<1>4. c \in ls
  BY <1>3, CanonicalIsMember
<1> HIDE DEF c, ls
<1>5. i.canonical = c /\ i.member = l /\ i.build = read.number /\ i.verdict = "open" /\ PairOf(i) = {c, l}
  BY <1>2 DEF PairOf
<1>6. {c, l} \in PairsOf(ls)
  BY <1>2, <1>4 DEF PairsOf
<1>7. {c, l} \notin corpus.versions
  BY <1>1, <1>6 DEF PassesGuardrails
<1>8. IsItem(i)
  BY <1>2 DEF IsItem
<1> QED BY <1>2, <1>5, <1>7, <1>8 DEF Asks, c, ls

LEMMA ItemIsCanonical ==
  ASSUME NEW read, NEW groups, NEW s, NEW i \in ItemsFor(read, groups, s)
  PROVE  i.canonical = Canonical(read, s \cap DOMAIN read.types)
BY DEF ItemsFor

\* Of one build's items each is about a pair of its own.
LEMMA NewItemsOnce ==
  ASSUME corpus \in Corpora, NEW read, DOMAIN read.types \subseteq DOMAIN corpus.length, NEW groups,
         NEW subsets \in Answerable(read),
         NEW i \in NewItems(read, groups, subsets), NEW j \in NewItems(read, groups, subsets),
         PairOf(i) = PairOf(j)
  PROVE  i = j
<1>1. DOMAIN subsets \subseteq Nat \ {0}
  <2>1. CASE subsets = << >>
    BY <2>1
  <2>2. CASE subsets # << >>
    <3>1. PICK n \in 0..corpus.subsets : subsets \in [1..n -> {t \in SUBSET DOMAIN read.types : Cardinality(t) > 1}]
      BY <2>2 DEF Answerable
    <3>2. n \in Nat
      BY OverlayAssumption
    <3> QED BY <3>1, <3>2
  <2> QED BY <2>1, <2>2
<1>2. PICK n \in DOMAIN subsets :
        /\ i \in ItemsFor(read, groups, subsets[n])
        /\ \A k \in 1..(n - 1) : \A x \in ItemsFor(read, groups, subsets[k]) : PairOf(x) # PairOf(i)
  BY DEF NewItems
<1>3. PICK m \in DOMAIN subsets :
        /\ j \in ItemsFor(read, groups, subsets[m])
        /\ \A k \in 1..(m - 1) : \A x \in ItemsFor(read, groups, subsets[k]) : PairOf(x) # PairOf(j)
  BY DEF NewItems
<1>5. n = m
  <2>1. n \in Nat \ {0} /\ m \in Nat \ {0}
    BY <1>1
  <2>2. CASE n < m
    <3>1. n \in 1..(m - 1)
      BY <2>1, <2>2
    <3> QED BY <3>1, <1>2, <1>3
  <2>3. CASE m < n
    <3>1. m \in 1..(n - 1)
      BY <2>1, <2>3
    <3> QED BY <3>1, <1>2, <1>3
  <2> QED BY <2>1, <2>2, <2>3
<1> DEFINE c == Canonical(read, subsets[n] \cap DOMAIN read.types)
           Shaped(x) == /\ IsItem(x)
                        /\ x.canonical = c /\ x.canonical # x.member
                        /\ x.build = read.number /\ x.verdict = "open"
<1>6. Shaped(i) /\ Shaped(j)
  <2>1. j \in ItemsFor(read, groups, subsets[n])
    BY <1>3, <1>5
  <2>2. \A x \in ItemsFor(read, groups, subsets[n]) : Shaped(x)
    BY ItemOf, ItemIsCanonical
  <2> QED BY <1>2, <2>1, <2>2
<1> HIDE DEF c
<1>7. i.member = j.member
  BY <1>6 DEF PairOf
<1> QED BY <1>6, <1>7 DEF IsItem

-----------------------------------------------------------------------------
(* The initial state, and the steps of a build. *)

LEMMA OverStarts ==
  ASSUME OverInit
  PROVE  OverInv
<1>1. /\ corpus \in Corpora /\ note = [w \in DOMAIN corpus.notes |-> 1] /\ must = {} /\ cannot = {}
      /\ concepts = {} /\ mentions = {} /\ asked = {} /\ building = NoBuild /\ builds = 0 /\ logs = << >>
  BY DEF OverInit, OverStart
<1>2. NotesOK
  BY <1>1, OverlayAssumption DEF NotesOK
<1>3. ReadOK /\ ConceptsOK /\ LabelsOK /\ OnlyCausedFolds /\ MentionsOK
  BY <1>1 DEF ReadOK, ConceptsOK, LabelsOK, OnlyCausedFolds, MentionsOK, EdgesAreCovered
<1>4. ItemsOK /\ AskedOnce /\ VerdictsOK
  BY <1>1 DEF ItemsOK, AskedOnce, VerdictsOK
<1>5. LogsOK /\ SameSetSameCandidates
  <2>1. << >> \in Seq({}) /\ DOMAIN << >> = {}
    OBVIOUS
  <2> QED BY <1>1, <2>1 DEF LogsOK, SameSetSameCandidates
<1> QED BY <1>1, <1>2, <1>3, <1>4, <1>5 DEF OverInv

\* A step that leaves the concepts alone, and takes back no verdict.
LEMMA RowsKept ==
  ASSUME ConceptsOK, LabelsOK, OnlyCausedFolds, MentionsOK,
         concepts' = concepts, mentions' = mentions, corpus' = corpus, must \subseteq must'
  PROVE  ConceptsOK' /\ LabelsOK' /\ OnlyCausedFolds' /\ MentionsOK'
<1>1. ConceptsOK' /\ MentionsOK'
  BY DEF ConceptsOK, ConceptOK, MentionsOK, EdgesAreCovered
<1>2. OnlyCausedFolds'
  BY DEF OnlyCausedFolds
<1>3. LabelsOK'
  BY DEF LabelsOK
<1> QED BY <1>1, <1>2, <1>3

\* A step that leaves the logs alone.
LEMMA LogsKept ==
  ASSUME LogsOK, SameSetSameCandidates, logs' = logs, corpus' = corpus, must \subseteq must',
         building' # NoBuild => building'.must = must \/ building' = building
  PROVE  LogsOK' /\ SameSetSameCandidates'
<1>1. ASSUME NEW n \in DOMAIN logs PROVE LogOK(logs[n])'
  <2>1. LogOK(logs[n])
    BY DEF LogsOK
  <2>2. Offered(logs[n].hash)' = Offered(logs[n].hash)
    BY DEF Offered, Clusters, SameType
  <2>3. Joined(logs[n])' = Joined(logs[n]) /\ (TypesOf(logs[n].hash))' = TypesOf(logs[n].hash)
    BY DEF Joined, TypesOf
  <2>4. building' # NoBuild => Joined(logs[n]) \subseteq building'.must
    BY <2>1 DEF LogOK
  <2> QED BY <2>1, <2>2, <2>3, <2>4 DEF LogOK
<1>2. LogsOK'
  BY <1>1 DEF LogsOK
<1>3. SameSetSameCandidates'
  BY DEF SameSetSameCandidates
<1> QED BY <1>2, <1>3

\* A step that leaves the items and the verdicts alone.
LEMMA ItemsKept ==
  ASSUME ItemsOK, AskedOnce, VerdictsOK, asked' = asked, must' = must, cannot' = cannot,
         \/ builds' = builds /\ (building' = building \/ building' = NoBuild)
         \/ builds' = builds + 1
  PROVE  ItemsOK' /\ AskedOnce' /\ VerdictsOK'
<1>1. ItemsOK'
  <2>1. builds \in Nat /\ builds' \in Nat
    BY DEF ItemsOK
  <2>2. ASSUME NEW i \in asked PROVE ItemOK(i)'
    BY <2>1, <2>2 DEF ItemsOK, ItemOK
  <2> QED BY <2>1, <2>2 DEF ItemsOK
<1>2. AskedOnce' /\ VerdictsOK'
  BY DEF AskedOnce, VerdictsOK, PairOf
<1> QED BY <1>1, <1>2

LEMMA CurrentLabels ==
  ASSUME corpus \in Corpora, NotesOK
  PROVE  LabelsOf(CurrentClaims) \subseteq DOMAIN corpus.length
<1> SUFFICES ASSUME NEW r \in CurrentClaims PROVE r.claim.label \in DOMAIN corpus.length
  BY DEF LabelsOf
<1>1. PICK w \in DOMAIN corpus.notes : \E c \in corpus.notes[w][note[w]] : r = [work |-> w, note |-> note[w], claim |-> c]
  BY DEF CurrentClaims
<1>2. r.claim \in corpus.notes[w][note[w]]
  BY <1>1
<1>3. note[w] \in DOMAIN corpus.notes[w]
  BY DEF NotesOK
<1> QED BY <1>2, <1>3, OverlayAssumption

LEMMA StatusesAreSet ==
  ASSUME NEW rows, NEW l \in DOMAIN Statuses(rows)
  PROVE  Statuses(rows)[l] # "auto"
<1> DEFINE marked == {c \in rows : c.status # "auto"}
<1>1. Statuses(rows) = [k \in {c.key : c \in marked} |-> (CHOOSE c \in marked : c.key = k).status]
  BY DEF Statuses
<1>2. PICK c \in marked : c.key = l
  BY <1>1
<1>3. (CHOOSE d \in marked : d.key = l) \in marked
  <2> HIDE DEF marked
  <2> QED BY <1>2
<1>4. (CHOOSE d \in marked : d.key = l).status # "auto"
  BY <1>3
<1> QED BY <1>1, <1>4

LEMMA BuildReadsKeeps ==
  ASSUME OverInv, BuildReads
  PROVE  OverInv'
<1> DEFINE kinds == [l \in LabelsOf(CurrentClaims) |-> TypeOfLabel(CurrentClaims, l)]
<1>1. /\ corpus' = corpus /\ note' = note /\ must' = must /\ cannot' = cannot /\ concepts' = concepts
      /\ mentions' = mentions /\ asked' = asked /\ logs' = logs /\ builds' = builds + 1
      /\ building'.types = kinds /\ building'.must = must /\ building'.cannot = cannot
      /\ building'.sticky = Statuses(concepts) /\ building'.number = builds + 1
  BY DEF BuildReads
<1>2. corpus' \in Corpora /\ NotesOK'
  BY <1>1 DEF OverInv, NotesOK
<1>3. ReadOK'
  <2>1. DOMAIN kinds \subseteq DOMAIN corpus.length
    BY CurrentLabels DEF OverInv
  <2>2. kinds = [l \in DOMAIN kinds |-> kinds[l]]
    OBVIOUS
  <2>3. \A l \in DOMAIN building'.sticky : building'.sticky[l] # "auto"
    BY <1>1, StatusesAreSet
  <2> HIDE DEF kinds
  <2> QED BY <1>1, <2>1, <2>2, <2>3 DEF ReadOK
<1>4. ConceptsOK' /\ LabelsOK' /\ OnlyCausedFolds' /\ MentionsOK'
  BY <1>1, RowsKept DEF OverInv
<1>5. ItemsOK' /\ AskedOnce' /\ VerdictsOK'
  BY <1>1, ItemsKept DEF OverInv
<1>6. LogsOK' /\ SameSetSameCandidates'
  BY <1>1, LogsKept DEF OverInv
<1> QED BY <1>2, <1>3, <1>4, <1>5, <1>6 DEF OverInv

LEMMA BuildIsEmptyKeeps ==
  ASSUME OverInv, BuildIsEmpty
  PROVE  OverInv'
<1>1. /\ corpus' = corpus /\ note' = note /\ must' = must /\ cannot' = cannot /\ concepts' = concepts
      /\ mentions' = mentions /\ asked' = asked /\ logs' = logs /\ builds' = builds /\ building' = NoBuild
  BY DEF BuildIsEmpty
<1>2. corpus' \in Corpora /\ NotesOK' /\ ReadOK'
  BY <1>1 DEF OverInv, NotesOK, ReadOK
<1>4. ConceptsOK' /\ LabelsOK' /\ OnlyCausedFolds' /\ MentionsOK'
  BY <1>1, RowsKept DEF OverInv
<1>5. ItemsOK' /\ AskedOnce' /\ VerdictsOK'
  BY <1>1, ItemsKept DEF OverInv
<1>6. LogsOK' /\ SameSetSameCandidates'
  BY <1>1, LogsKept DEF OverInv
<1> QED BY <1>2, <1>4, <1>5, <1>6 DEF OverInv

LEMMA ExtractAgainKeeps ==
  ASSUME OverInv, NEW w \in DOMAIN note, ExtractAgain(w)
  PROVE  OverInv'
<1>1. /\ corpus' = corpus /\ must' = must /\ cannot' = cannot /\ concepts' = concepts
      /\ mentions' = mentions /\ asked' = asked /\ logs' = logs /\ builds' = builds /\ building' = building
      /\ note' = [note EXCEPT ![w] = @ + 1] /\ note[w] < Len(corpus.notes[w])
  BY DEF ExtractAgain
<1>2. corpus' \in Corpora /\ ReadOK'
  BY <1>1 DEF OverInv, ReadOK
<1>3. NotesOK'
  <2>1. ASSUME NEW v \in DOMAIN corpus.notes PROVE note'[v] \in DOMAIN corpus.notes[v]
    <3>1. /\ DOMAIN corpus.notes[v] = 1..Len(corpus.notes[v]) /\ Len(corpus.notes[v]) \in Nat
          /\ note[v] \in DOMAIN corpus.notes[v]
      BY OverlayAssumption DEF OverInv, NotesOK
    <3>2. CASE v = w
      <4>1. note'[v] = note[v] + 1
        BY <1>1, <3>2
      <4> QED BY <4>1, <3>1, <3>2, <1>1
    <3>3. CASE v # w
      <4>1. note'[v] = note[v]
        BY <1>1, <3>3
      <4> QED BY <4>1, <3>1
    <3> QED BY <3>2, <3>3
  <2> QED BY <2>1, <1>1 DEF NotesOK
<1>4. ConceptsOK' /\ LabelsOK' /\ OnlyCausedFolds' /\ MentionsOK'
  BY <1>1, RowsKept DEF OverInv
<1>5. ItemsOK' /\ AskedOnce' /\ VerdictsOK'
  BY <1>1, ItemsKept DEF OverInv
<1>6. LogsOK' /\ SameSetSameCandidates'
  BY <1>1, LogsKept DEF OverInv
<1> QED BY <1>2, <1>3, <1>4, <1>5, <1>6 DEF OverInv

\* What a build writes: its rows have keys of their own, and each fold has a cause.
RowsOf(read) == {ConceptOf(read, g) : g \in Groups(read)}

LEMMA RowsHaveKeys ==
  ASSUME corpus \in Corpora, NEW read, DOMAIN read.types \subseteq DOMAIN corpus.length
  PROVE  \A c, d \in RowsOf(read) : c.key = d.key => c = d
<1> SUFFICES ASSUME NEW c \in RowsOf(read), NEW d \in RowsOf(read), c.key = d.key PROVE c = d
  OBVIOUS
<1>1. PICK g \in Groups(read) : c = ConceptOf(read, g)
  BY DEF RowsOf
<1>2. PICK h \in Groups(read) : d = ConceptOf(read, h)
  BY DEF RowsOf
<1>3. c.key = Canonical(read, g) /\ d.key = Canonical(read, h)
  BY <1>1, <1>2, RowOf
<1>4. g = h
  BY <1>3, KeysTellRows
<1> QED BY <1>1, <1>2, <1>4

LEMMA FoldsHaveCauses ==
  ASSUME NEW read, NEW c \in RowsOf(read), Cardinality(c.labels) > 1, NEW l \in c.labels
  PROVE  \E m \in c.labels \ {l} : {l, m} \in corpus.acronym \cup read.must
<1>1. PICK g \in Groups(read) : c = ConceptOf(read, g)
  BY DEF RowsOf
<1>2. c.labels = g
  BY <1>1, RowOf
<1>3. g # {l}
  <2>1. Cardinality({l}) = 1
    BY FS_Singleton
  <2> QED BY <1>2, <2>1
<1>4. PICK m \in g \ {l} : {l, m} \in AcronymFolds(read) \cup MustFolds(read)
  BY <1>2, <1>3, NobodyAlone DEF Groups
<1>5. AcronymFolds(read) \subseteq corpus.acronym /\ MustFolds(read) \subseteq read.must
  BY DEF AcronymFolds, MustFolds
<1> QED BY <1>2, <1>4, <1>5

LEMMA NewItemsAre ==
  ASSUME corpus \in Corpora, NEW read, DOMAIN read.types \subseteq DOMAIN corpus.length,
         NEW groups, NEW subsets, NEW i \in NewItems(read, groups, subsets)
  PROVE  /\ IsItem(i)
         /\ i.canonical # i.member /\ i.build = read.number /\ i.verdict = "open"
         /\ PairOf(i) \notin read.cannot \cup read.must
         /\ ~ \E g \in groups : PairOf(i) \subseteq g
         /\ PairOf(i) \notin corpus.versions
<1>1. PICK n \in DOMAIN subsets : i \in ItemsFor(read, groups, subsets[n])
  BY DEF NewItems
<1> QED BY <1>1, ItemOf

LEMMA RowsHaveLabels ==
  ASSUME NEW read
  PROVE  /\ \A c \in RowsOf(read) : c.reviewed = {} /\ \A q \in c.claims : q.claim.label \in c.labels
         /\ \A c, d \in RowsOf(read) : \A l : l \in c.labels /\ l \in d.labels => c.claims = d.claims
<1>1. ASSUME NEW c \in RowsOf(read)
      PROVE  c.reviewed = {} /\ \A q \in c.claims : q.claim.label \in c.labels
  <2>1. PICK g \in Groups(read) : c = ConceptOf(read, g)
    BY <1>1 DEF RowsOf
  <2> QED BY <2>1, RowOf DEF OfLabels
<1>2. ASSUME NEW c \in RowsOf(read), NEW d \in RowsOf(read), NEW l, l \in c.labels, l \in d.labels
      PROVE  c.claims = d.claims
  <2>1. PICK g \in Groups(read) : c = ConceptOf(read, g)
    BY <1>2 DEF RowsOf
  <2>2. PICK h \in Groups(read) : d = ConceptOf(read, h)
    BY <1>2 DEF RowsOf
  <2>3. l \in g /\ l \in h
    BY <1>2, <2>1, <2>2, RowOf
  <2>4. g = h
    BY <2>3, ClassesAreApart DEF Groups
  <2> QED BY <2>1, <2>2, <2>4
<1> QED BY <1>1, <1>2

LEMMA BuildWritesKeeps ==
  ASSUME OverInv, NEW s \in Answerable(building), BuildWrites(s)
  PROVE  OverInv'
<1>1. /\ corpus' = corpus /\ note' = note /\ must' = must /\ cannot' = cannot /\ builds' = builds
      /\ building # NoBuild /\ building' = NoBuild
      /\ concepts' = RowsOf(building)
      /\ mentions' = Discusses(RowsOf(building)) \cup CoOccurs(RowsOf(building))
      /\ asked' = asked \cup NewItems(building, Groups(building), s)
      /\ logs' = Append(logs, DecisionLog(building))
  BY DEF BuildWrites, RowsOf
<1>2. /\ corpus \in Corpora
      /\ DOMAIN building.types \subseteq DOMAIN corpus.length
      /\ building.types = [l \in DOMAIN building.types |-> building.types[l]]
      /\ building.must \subseteq must /\ building.number = builds
  BY <1>1 DEF OverInv, ReadOK
<1>3. corpus' \in Corpora /\ NotesOK' /\ ReadOK'
  BY <1>1 DEF OverInv, NotesOK, ReadOK
<1>4. ConceptsOK'
  <2>1. \A c \in RowsOf(building) : ConceptOK(c)
    BY RowOf DEF RowsOf
  <2> QED BY <1>1, <2>1 DEF ConceptsOK, ConceptOK
<1>5. LabelsOK' /\ OnlyCausedFolds'
  <2>1. LabelsOK'
    BY <1>1, RowsHaveLabels DEF LabelsOK
  <2>2. OnlyCausedFolds'
    BY <1>1, <1>2, FoldsHaveCauses DEF OnlyCausedFolds
  <2> QED BY <2>1, <2>2
<1>6. MentionsOK'
  <2>1. EdgesAreCovered(RowsOf(building), Discusses(RowsOf(building)) \cup CoOccurs(RowsOf(building)))
    BY <1>2, RowsHaveKeys, NewEdgesAreCovered
  <2>2. EdgesAreCovered(concepts', mentions')
    BY <2>1, <1>1
  <2> QED BY <2>2 DEF MentionsOK, EdgesAreCovered
<1> DEFINE new == NewItems(building, Groups(building), s)
<1>7. \A i \in new :
        /\ IsItem(i)
        /\ i.canonical # i.member /\ i.build = builds /\ i.verdict = "open"
  <2>1. \A i \in new :
          /\ IsItem(i)
          /\ i.canonical # i.member /\ i.build = building.number /\ i.verdict = "open"
    BY <1>2, NewItemsAre
  <2> QED BY <2>1, <1>2
<1>8. \A i, j \in new : PairOf(i) = PairOf(j) => i = j
  BY <1>2, NewItemsOnce
<1> HIDE DEF new
<1>9. asked' = asked \cup new
  BY <1>1 DEF new
<1>10. builds \in Nat /\ \A i \in asked : ItemOK(i) /\ i.build < builds
  BY <1>1 DEF OverInv, ItemsOK, ItemOK
<1>11. ItemsOK'
  <2>1. ASSUME NEW i \in asked' PROVE ItemOK(i)'
    <3>1. CASE i \in asked
      BY <3>1, <1>1, <1>10 DEF ItemOK
    <3>2. CASE i \in new
      BY <3>2, <1>1, <1>7, <1>10 DEF ItemOK
    <3> QED BY <2>1, <1>9, <3>1, <3>2
  <2> QED BY <2>1, <1>1, <1>10 DEF ItemsOK
<1>12. AskedOnce'
  <2> SUFFICES ASSUME NEW i \in asked', NEW j \in asked', PairOf(i) = PairOf(j), i.build = j.build
               PROVE  i = j
    BY DEF AskedOnce, PairOf
  <2>1. CASE i \in asked /\ j \in asked
    BY <2>1 DEF OverInv, AskedOnce
  <2>2. CASE i \in new /\ j \in new
    BY <2>2, <1>8
  <2>3. \A x \in asked, y \in new : x.build # y.build
    BY <1>7, <1>10 DEF ItemOK
  <2> QED BY <1>9, <2>1, <2>2, <2>3
<1>13. VerdictsOK'
  BY <1>1, <1>9 DEF OverInv, VerdictsOK, PairOf
<1>l. PICK log : log = DecisionLog(building)
  OBVIOUS
<1>14. /\ TypesOf(log.hash) = building.types
       /\ log.folds \cup log.skips = Offered(log.hash)
       /\ Joined(log) = building.must \cap PairsOf(DOMAIN building.types)
  BY <1>2, <1>l, LogFits
<1>15. logs' = Append(logs, log)
  BY <1>1, <1>l
<1>16. PICK S : logs \in Seq(S)
  BY DEF OverInv, LogsOK
<1>17. /\ Len(logs) \in Nat /\ DOMAIN logs = 1..Len(logs) /\ DOMAIN logs' = 1..(Len(logs) + 1)
       /\ \A n \in 1..Len(logs) : logs'[n] = logs[n]
       /\ logs'[Len(logs) + 1] = log
       /\ logs' \in Seq(S \cup {log})
  <2>1. logs \in Seq(S \cup {log}) /\ log \in S \cup {log}
    BY <1>16
  <2> HIDE DEF OverInv
  <2> QED BY <2>1, <1>15
<1>18. \A h : Offered(h)' = Offered(h)
  BY <1>1 DEF Offered, Clusters, SameType
<1>19. \A n \in DOMAIN logs : LogOK(logs[n])
  BY DEF OverInv, LogsOK
<1>20. LogsOK'
  <2>1. ASSUME NEW g, LogOK(g) PROVE LogOK(g)'
    BY <2>1, <1>1, <1>18 DEF LogOK, Joined, TypesOf
  <2>2. LogOK(log)'
    <3>1. Joined(log) \subseteq PairsOf(DOMAIN TypesOf(log.hash)) /\ Joined(log) \subseteq must
      BY <1>2, <1>14
    <3> QED BY <3>1, <1>1, <1>14, <1>18 DEF LogOK, Joined, TypesOf
  <2>3. ASSUME NEW n, n \in DOMAIN logs' PROVE LogOK(logs[n])'
    <3>1. PICK g : g = logs'[n]
      OBVIOUS
    <3>2. CASE n \in DOMAIN logs
      <4>1. LogOK(g)
        BY <3>1, <3>2, <1>17, <1>19
      <4> QED BY <3>1, <4>1, <2>1 DEF LogOK
    <3>3. CASE n = Len(logs) + 1
      <4>1. g = log
        BY <3>1, <3>3, <1>17
      <4> QED BY <3>1, <4>1, <2>2 DEF LogOK
    <3> QED BY <2>3, <3>2, <3>3, <1>17
  <2> QED BY <2>3, <1>17 DEF LogsOK
<1>21. SameSetSameCandidates'
  <2> SUFFICES ASSUME NEW i \in DOMAIN logs', NEW j \in DOMAIN logs', i < j, logs'[i].hash = logs'[j].hash
               PROVE  /\ logs'[i].folds \cup logs'[i].skips = logs'[j].folds \cup logs'[j].skips
                      /\ logs'[i].mustApplied \cup logs'[i].mustSkipped
                           \subseteq logs'[j].mustApplied \cup logs'[j].mustSkipped
    BY DEF SameSetSameCandidates
  <2>1. i \in DOMAIN logs /\ logs'[i] = logs[i]
    BY <1>17
  <2>2. CASE j \in DOMAIN logs
    <3>1. logs'[j] = logs[j]
      BY <2>2, <1>17
    <3> QED BY <2>1, <2>2, <3>1 DEF OverInv, SameSetSameCandidates
  <2>3. CASE j = Len(logs) + 1
    <3>1. logs'[j] = log /\ logs[i].hash = log.hash
      BY <2>1, <2>3, <1>17
    <3>2. LogOK(logs[i])
      BY <2>1, <1>19
    <3>3. Joined(logs[i]) \subseteq Joined(log)
      BY <3>1, <3>2, <1>1, <1>14 DEF LogOK
    <3> QED BY <2>1, <3>1, <3>2, <3>3, <1>14 DEF LogOK, Joined
  <2> QED BY <2>2, <2>3, <1>17
<1> QED BY <1>3, <1>4, <1>5, <1>6, <1>11, <1>12, <1>13, <1>20, <1>21 DEF OverInv

-----------------------------------------------------------------------------
(* The steps of a reviewer, and the theorems. *)

\* A verdict marks rows; it changes neither their labels nor their claims.
Marked(c, d) ==
  /\ ConceptOK(d)
  /\ d.key = c.key /\ d.labels = c.labels /\ d.claims = c.claims /\ d.access = c.access

LEMMA MarkedKeeps ==
  ASSUME ConceptsOK, LabelsOK, OnlyCausedFolds, MentionsOK,
         mentions' = mentions, corpus' = corpus, must \subseteq must',
         \A d \in concepts' : \E c \in concepts : Marked(c, d),
         \A d \in concepts' : \A l \in d.reviewed : {d.key, l} \in must'
  PROVE  ConceptsOK' /\ LabelsOK' /\ OnlyCausedFolds' /\ MentionsOK'
<1>1. ConceptsOK'
  BY DEF ConceptsOK, ConceptOK, Marked
<1>2. OnlyCausedFolds'
  BY DEF OnlyCausedFolds, Marked
<1>3. MentionsOK'
  <2> SUFFICES ASSUME NEW e \in mentions, NEW d \in concepts', e.access \in ShareableAccess, d.key = e.to,
                      NEW r \in d.claims, r.work = e.from
               PROVE  r.claim.access \in ShareableAccess
    BY DEF MentionsOK, EdgesAreCovered
  <2>1. PICK c \in concepts : Marked(c, d)
    OBVIOUS
  <2> QED BY <2>1 DEF MentionsOK, EdgesAreCovered, Marked
<1>4. LabelsOK'
  <2>1. \A d \in concepts' : \A q \in d.claims : q.claim.label \in d.labels
    BY DEF LabelsOK, Marked
  <2>2. ASSUME NEW d \in concepts', NEW e \in concepts', NEW l, l \in d.labels, l \in e.labels
        PROVE  d.claims = e.claims
    <3>1. PICK b \in concepts : Marked(b, d)
      OBVIOUS
    <3>2. PICK c \in concepts : Marked(c, e)
      OBVIOUS
    <3>3. b.claims = c.claims
      BY <2>2, <3>1, <3>2 DEF LabelsOK, Marked
    <3> QED BY <3>1, <3>2, <3>3 DEF Marked
  <2> QED BY <2>1, <2>2 DEF LabelsOK
<1> QED BY <1>1, <1>2, <1>3, <1>4

LEMMA MarkedRow ==
  ASSUME NEW c, ConceptOK(c), NEW d, NEW x, NEW y,
         d = [c EXCEPT !.reviewed = x, !.status = y]
  PROVE  Marked(c, d)
<1>1. d = [key |-> c.key, labels |-> c.labels, reviewed |-> x, type |-> c.type,
           claims |-> c.claims, access |-> c.access, status |-> y]
  BY DEF ConceptOK
<1> QED BY <1>1 DEF Marked, ConceptOK

LEMMA MarkedStatus ==
  ASSUME NEW c, ConceptOK(c), NEW d, NEW y, d = [c EXCEPT !.status = y]
  PROVE  Marked(c, d)
<1>1. d = [key |-> c.key, labels |-> c.labels, reviewed |-> c.reviewed, type |-> c.type,
           claims |-> c.claims, access |-> c.access, status |-> y]
  BY DEF ConceptOK
<1> QED BY <1>1 DEF Marked, ConceptOK

\* An item takes its one verdict, and the verdict is of its pair.
LEMMA AnswerKeepsItems ==
  ASSUME ItemsOK, AskedOnce, VerdictsOK, builds' = builds, building' = building,
         NEW i \in asked, i.verdict = "open", NEW v, NEW j, j = [i EXCEPT !.verdict = v],
         asked' = (asked \ {i}) \cup {j},
         \/ v = "approved" /\ must' = must \cup {PairOf(i)} /\ cannot' = cannot
         \/ v = "apart" /\ must' = must /\ cannot' = cannot \cup {PairOf(i)}
  PROVE  ItemsOK' /\ AskedOnce' /\ VerdictsOK'
<1>1. /\ j = [canonical |-> i.canonical, member |-> i.member, build |-> i.build, verdict |-> v]
      /\ ItemOK(i)
  BY DEF ItemsOK, ItemOK, IsItem
<1>2. /\ j.canonical = i.canonical /\ j.member = i.member /\ j.build = i.build /\ j.verdict = v
      /\ IsItem(j)
  BY <1>1 DEF IsItem
<1>3. ItemsOK'
  <2>1. \A k \in asked \cup {j} : ItemOK(k)
    BY <1>1, <1>2 DEF ItemsOK, ItemOK
  <2> QED BY <2>1 DEF ItemsOK, ItemOK
<1>4. PairOf(j) = PairOf(i)
  BY <1>2 DEF PairOf
<1>5. AskedOnce'
  <2> SUFFICES ASSUME NEW k \in asked', NEW l \in asked', PairOf(k) = PairOf(l), k.build = l.build
               PROVE  k = l
    BY DEF AskedOnce, PairOf
  <2> QED BY <1>2, <1>4 DEF AskedOnce
<1>6. ASSUME NEW p, NEW w \in {"approved", "apart"}, NEW k \in asked, PairOf(k) = p, k.verdict = w
      PROVE  \E l \in asked' : PairOf(l) = p /\ l.verdict = w
  <2>1. k # i
    BY <1>6
  <2> QED BY <1>6, <2>1
<1>7. VerdictsOK'
  <2>1. ASSUME NEW p \in must' PROVE \E l \in asked' : PairOf(l) = p /\ l.verdict = "approved"
    <3>1. CASE p \in must
      BY <3>1, <1>6 DEF VerdictsOK
    <3>2. CASE p \notin must
      <4>1. v = "approved" /\ p = PairOf(i)
        BY <2>1, <3>2
      <4> QED BY <4>1, <1>2, <1>4
    <3> QED BY <3>1, <3>2
  <2>2. ASSUME NEW p \in cannot' PROVE \E l \in asked' : PairOf(l) = p /\ l.verdict = "apart"
    <3>1. CASE p \in cannot
      BY <3>1, <1>6 DEF VerdictsOK
    <3>2. CASE p \notin cannot
      <4>1. v = "apart" /\ p = PairOf(i)
        BY <2>2, <3>2
      <4> QED BY <4>1, <1>2, <1>4
    <3> QED BY <3>1, <3>2
  <2> QED BY <2>1, <2>2 DEF VerdictsOK, PairOf
<1> QED BY <1>3, <1>5, <1>7

LEMMA ApproveMergeKeeps ==
  ASSUME OverInv, NEW i \in asked, ApproveMerge(i)
  PROVE  OverInv'
<1>1. /\ corpus' = corpus /\ note' = note /\ cannot' = cannot /\ mentions' = mentions /\ builds' = builds
      /\ building' = building /\ logs' = logs /\ must' = must \cup {PairOf(i)} /\ i.verdict = "open"
  BY DEF ApproveMerge
<1>2. corpus' \in Corpora /\ NotesOK' /\ ReadOK'
  BY <1>1 DEF OverInv, NotesOK, ReadOK
<1>3. ASSUME NEW d \in concepts' PROVE \E c \in concepts : Marked(c, d)
  <2>1. PICK c \in concepts :
          d = IF c.key = i.canonical
              THEN [c EXCEPT !.reviewed = @ \cup {i.member}, !.status = "user_confirmed"] ELSE c
    BY <1>3 DEF ApproveMerge
  <2>2. ConceptOK(c)
    BY DEF OverInv, ConceptsOK
  <2>3. CASE c.key = i.canonical
    <3>1. d = [c EXCEPT !.reviewed = c.reviewed \cup {i.member}, !.status = "user_confirmed"]
      BY <2>1, <2>3
    <3>2. Marked(c, d)
      BY <2>2, <3>1, MarkedRow
    <3> QED BY <3>2
  <2>4. CASE c.key # i.canonical
    BY <2>1, <2>2, <2>4 DEF Marked
  <2> QED BY <2>3, <2>4
<1>a. ASSUME NEW d \in concepts', NEW l \in d.reviewed PROVE {d.key, l} \in must'
  <2>1. PICK c \in concepts :
          d = IF c.key = i.canonical
              THEN [c EXCEPT !.reviewed = @ \cup {i.member}, !.status = "user_confirmed"] ELSE c
    BY <1>a DEF ApproveMerge
  <2>2. ConceptOK(c) /\ \A k \in c.reviewed : {c.key, k} \in must
    BY DEF OverInv, ConceptsOK, LabelsOK
  <2>3. CASE c.key = i.canonical
    <3>1. d.key = c.key /\ d.reviewed = c.reviewed \cup {i.member}
      BY <2>1, <2>2, <2>3 DEF ConceptOK
    <3>2. {c.key, i.member} = PairOf(i)
      BY <2>3 DEF PairOf
    <3>3. CASE l \in c.reviewed
      BY <1>1, <2>2, <3>1, <3>3
    <3>4. CASE l = i.member
      BY <1>1, <3>1, <3>2, <3>4
    <3> QED BY <1>a, <3>1, <3>3, <3>4
  <2>4. CASE c.key # i.canonical
    BY <1>1, <1>a, <2>1, <2>2, <2>4
  <2> QED BY <2>3, <2>4
<1>4. ConceptsOK' /\ LabelsOK' /\ OnlyCausedFolds' /\ MentionsOK'
  BY <1>1, <1>3, <1>a, MarkedKeeps DEF OverInv
<1>5. ItemsOK' /\ AskedOnce' /\ VerdictsOK'
  <2>1. asked' = (asked \ {i}) \cup {[i EXCEPT !.verdict = "approved"]}
    BY DEF ApproveMerge
  <2>2. PICK j : j = [i EXCEPT !.verdict = "approved"]
    OBVIOUS
  <2>3. asked' = (asked \ {i}) \cup {j}
    BY <2>1, <2>2
  <2>4. ItemsOK /\ AskedOnce /\ VerdictsOK
    BY DEF OverInv
  <2> QED BY <1>1, <2>2, <2>3, <2>4, AnswerKeepsItems
<1>6. LogsOK' /\ SameSetSameCandidates'
  BY <1>1, LogsKept DEF OverInv
<1> QED BY <1>2, <1>4, <1>5, <1>6 DEF OverInv

LEMMA HoldApartKeeps ==
  ASSUME OverInv, NEW i \in asked, HoldApart(i)
  PROVE  OverInv'
<1>1. /\ corpus' = corpus /\ note' = note /\ must' = must /\ mentions' = mentions /\ builds' = builds
      /\ building' = building /\ logs' = logs /\ cannot' = cannot \cup {PairOf(i)} /\ i.verdict = "open"
  BY DEF HoldApart
<1>2. corpus' \in Corpora /\ NotesOK' /\ ReadOK'
  BY <1>1 DEF OverInv, NotesOK, ReadOK
<1>3. ASSUME NEW d \in concepts' PROVE \E c \in concepts : Marked(c, d)
  <2>1. PICK c \in concepts :
          d = IF c.key \in PairOf(i) THEN [c EXCEPT !.status = "user_split"] ELSE c
    BY <1>3 DEF HoldApart
  <2>2. ConceptOK(c)
    BY DEF OverInv, ConceptsOK
  <2>3. CASE c.key \in PairOf(i)
    <3>1. d = [c EXCEPT !.status = "user_split"]
      BY <2>1, <2>3
    <3>2. Marked(c, d)
      BY <2>2, <3>1, MarkedStatus
    <3> QED BY <3>2
  <2>4. CASE c.key \notin PairOf(i)
    BY <2>1, <2>2, <2>4 DEF Marked
  <2> QED BY <2>3, <2>4
<1>a. ASSUME NEW d \in concepts', NEW l \in d.reviewed PROVE {d.key, l} \in must'
  <2>1. PICK c \in concepts :
          d = IF c.key \in PairOf(i) THEN [c EXCEPT !.status = "user_split"] ELSE c
    BY <1>a DEF HoldApart
  <2>2. ConceptOK(c) /\ \A k \in c.reviewed : {c.key, k} \in must
    BY DEF OverInv, ConceptsOK, LabelsOK
  <2>3. d.key = c.key /\ d.reviewed = c.reviewed
    BY <2>1, <2>2 DEF ConceptOK
  <2> QED BY <1>1, <1>a, <2>2, <2>3
<1>4. ConceptsOK' /\ LabelsOK' /\ OnlyCausedFolds' /\ MentionsOK'
  BY <1>1, <1>3, <1>a, MarkedKeeps DEF OverInv
<1>5. ItemsOK' /\ AskedOnce' /\ VerdictsOK'
  <2>1. asked' = (asked \ {i}) \cup {[i EXCEPT !.verdict = "apart"]}
    BY DEF HoldApart
  <2>2. PICK j : j = [i EXCEPT !.verdict = "apart"]
    OBVIOUS
  <2>3. asked' = (asked \ {i}) \cup {j}
    BY <2>1, <2>2
  <2>4. ItemsOK /\ AskedOnce /\ VerdictsOK
    BY DEF OverInv
  <2> QED BY <1>1, <2>2, <2>3, <2>4, AnswerKeepsItems
<1>6. LogsOK' /\ SameSetSameCandidates'
  BY <1>1, LogsKept DEF OverInv
<1> QED BY <1>2, <1>4, <1>5, <1>6 DEF OverInv

LEMMA OverSteps ==
  ASSUME OverInv, [OverNext]_overVars
  PROVE  OverInv'
<1>1. CASE UNCHANGED overVars
  <2>1. /\ corpus' = corpus /\ note' = note /\ must' = must /\ cannot' = cannot /\ concepts' = concepts
        /\ mentions' = mentions /\ asked' = asked /\ logs' = logs /\ builds' = builds /\ building' = building
    BY <1>1 DEF overVars
  <2>2. corpus' \in Corpora /\ NotesOK' /\ ReadOK'
    BY <2>1 DEF OverInv, NotesOK, ReadOK
  <2>3. ConceptsOK' /\ LabelsOK' /\ OnlyCausedFolds' /\ MentionsOK'
    BY <2>1, RowsKept DEF OverInv
  <2>4. ItemsOK' /\ AskedOnce' /\ VerdictsOK'
    BY <2>1, ItemsKept DEF OverInv
  <2>5. LogsOK' /\ SameSetSameCandidates'
    BY <2>1, LogsKept DEF OverInv
  <2> QED BY <2>2, <2>3, <2>4, <2>5 DEF OverInv
<1>2. CASE OverNext
  <2>1. CASE BuildReads
    BY <2>1, BuildReadsKeeps
  <2>2. CASE BuildIsEmpty
    BY <2>2, BuildIsEmptyKeeps
  <2>3. ASSUME NEW s \in Answerable(building), BuildWrites(s) PROVE OverInv'
    BY <2>3, BuildWritesKeeps
  <2>4. ASSUME NEW i \in asked, ApproveMerge(i) PROVE OverInv'
    BY <2>4, ApproveMergeKeeps
  <2>5. ASSUME NEW i \in asked, HoldApart(i) PROVE OverInv'
    BY <2>5, HoldApartKeeps
  <2>6. ASSUME NEW w \in DOMAIN note, ExtractAgain(w) PROVE OverInv'
    BY <2>6, ExtractAgainKeeps
  <2> QED BY <1>2, <2>1, <2>2, <2>3, <2>4, <2>5, <2>6 DEF OverNext
<1> QED BY <1>1, <1>2

\* The inductive invariant of the overlay: rows, edges, items, verdicts and logs.
THEOREM OverlayInvariant == OverSpec => []OverInv
<1>1. OverInit => OverInv
  BY OverStarts
<1>2. OverInv /\ [OverNext]_overVars => OverInv'
  BY OverSteps
<1> QED BY <1>1, <1>2, PTL DEF OverSpec

\* Every fold, public label, candidate and contradiction of the overlay (build_concepts,
\* resolve_access_class, the decision log, the review of merges) can be accounted for.
THEOREM OverlayAccounts == OverSpec => []OverlayIsAccountable
<1>1. OverInv => OverlayIsAccountable
  BY PublicFollows, ContradictionFollows DEF OverInv, OverlayIsAccountable
<1> QED BY <1>1, OverlayInvariant, PTL

-----------------------------------------------------------------------------
(* What a person decided. *)

LEMMA MergesStay ==
  ASSUME OverInv, NEW s \in Answerable(building), BuildWrites(s),
         NEW p \in must \ cannot, p \in building.must, p \subseteq DOMAIN building.types
  PROVE  Together(concepts', p)
<1>1. building # NoBuild /\ concepts' = RowsOf(building)
  BY DEF BuildWrites, RowsOf
<1>2. p \notin building.cannot
  BY <1>1 DEF OverInv, ReadOK
<1>3. PICK i \in asked : PairOf(i) = p
  BY DEF OverInv, VerdictsOK
<1>4. i.canonical # i.member /\ p = {i.canonical, i.member}
  BY <1>3 DEF OverInv, ItemsOK, ItemOK, PairOf
<1>5. p \in PairsOf(DOMAIN building.types)
  BY <1>4 DEF PairsOf
<1>6. p \in MustFolds(building)
  BY <1>2, <1>5 DEF MustFolds
<1>7. PICK g \in Groups(building) : p \subseteq g
  BY <1>4, <1>6, PairsMeet DEF Groups
<1>8. ConceptOf(building, g).labels = g /\ ConceptOf(building, g) \in concepts'
  BY <1>1, RowOf DEF RowsOf
<1> QED BY <1>7, <1>8 DEF Together

LEMMA StatusesStay ==
  ASSUME OverInv, NEW s \in Answerable(building), BuildWrites(s),
         NEW k \in DOMAIN building.sticky \cap DOMAIN building.types
  PROVE  \E d \in Sticky(concepts') : k \in d.labels
<1>1. /\ building # NoBuild /\ concepts' = RowsOf(building) /\ corpus \in Corpora
      /\ DOMAIN building.types \subseteq DOMAIN corpus.length
      /\ \A l \in DOMAIN building.sticky : building.sticky[l] # "auto"
  BY DEF BuildWrites, RowsOf, OverInv, ReadOK
<1>2. PICK g \in Groups(building) : k \in g
  BY EveryLabelHasClass DEF Groups
<1>3. PICK d \in concepts' : d = ConceptOf(building, g)
  BY <1>1 DEF RowsOf
<1>4. /\ d.key = Canonical(building, g) /\ d.labels = g
      /\ d.status = IF d.key \in DOMAIN building.sticky THEN building.sticky[d.key] ELSE "auto"
  BY <1>3, RowOf
<1>5. g \cap DOMAIN building.sticky # {} /\ g \subseteq DOMAIN building.types
  BY <1>1, <1>2, GroupsAre
<1>6. Canonical(building, g) \in g \cap DOMAIN building.sticky
  <2>1. g \cap DOMAIN building.sticky \subseteq Nat
    BY <1>1, <1>5, OverlayAssumption
  <2> QED BY <2>1, <1>5, LeastOf DEF Canonical
<1> QED BY <1>1, <1>2, <1>4, <1>6 DEF Sticky

\* The verdicts and statuses of a reviewer last from build to build, and what was
\* answered or folded is not asked (MustFolds, Canonical and Asks of build_concepts).
THEOREM DecisionsStay == OverSpec => DecisionsLast
<1>1. OverInv /\ [OverNext]_overVars => [ApprovedStayFolded /\ StatusesSurvive /\ DecidedIsNotAsked]_overVars
  <2> SUFFICES ASSUME OverInv, OverNext
               PROVE  ApprovedStayFolded /\ StatusesSurvive /\ DecidedIsNotAsked
    OBVIOUS
  <2>1. CASE \E s \in Answerable(building) : BuildWrites(s)
    <3>1. PICK s \in Answerable(building) : BuildWrites(s)
      BY <2>1
    <3>2. ApprovedStayFolded
      BY <3>1, MergesStay DEF ApprovedStayFolded
    <3>3. StatusesSurvive
      BY <3>1, StatusesStay DEF StatusesSurvive
    <3>4. DecidedIsNotAsked
      <4> SUFFICES ASSUME NEW i \in asked' \ asked
                   PROVE  /\ PairOf(i) \notin building.must \cup building.cannot
                          /\ ~Together(concepts', PairOf(i))
                          /\ PairOf(i) \notin corpus.versions
        BY DEF DecidedIsNotAsked
      <4>1. i \in NewItems(building, Groups(building), s) /\ concepts' = RowsOf(building)
        BY <3>1 DEF BuildWrites, RowsOf
      <4>2. corpus \in Corpora /\ DOMAIN building.types \subseteq DOMAIN corpus.length
        BY <3>1 DEF OverInv, ReadOK, BuildWrites
      <4>3. /\ PairOf(i) \notin building.cannot \cup building.must
            /\ ~ \E g \in Groups(building) : PairOf(i) \subseteq g
            /\ PairOf(i) \notin corpus.versions
        BY <4>1, <4>2, NewItemsAre
      <4>4. \A c \in concepts' : c.labels \in Groups(building)
        BY <4>1, RowOf DEF RowsOf
      <4> QED BY <4>3, <4>4 DEF Together
    <3> QED BY <3>2, <3>3, <3>4
  <2>2. CASE \E i \in asked : ApproveMerge(i) \/ HoldApart(i)
    <3>1. PICK i \in asked : ApproveMerge(i) \/ HoldApart(i)
      BY <2>2
    <3>2. building' = building
      BY <3>1 DEF ApproveMerge, HoldApart
    <3>3. \A j \in asked' \ asked : j.verdict # "open"
      <4> SUFFICES ASSUME NEW j \in asked' \ asked PROVE j.verdict # "open"
        OBVIOUS
      <4>1. PICK v \in {"approved", "apart"} : j = [i EXCEPT !.verdict = v]
        BY <3>1 DEF ApproveMerge, HoldApart
      <4>2. IsItem(i)
        BY DEF OverInv, ItemsOK, ItemOK
      <4>3. j = [canonical |-> i.canonical, member |-> i.member, build |-> i.build, verdict |-> v]
        BY <4>1, <4>2 DEF IsItem
      <4> QED BY <4>3
    <3> QED BY <3>2, <3>3 DEF ApprovedStayFolded, StatusesSurvive, DecidedIsNotAsked
  <2>3. CASE BuildReads
    BY <2>3 DEF BuildReads, ApprovedStayFolded, StatusesSurvive, DecidedIsNotAsked
  <2>4. CASE BuildIsEmpty
    BY <2>4 DEF BuildIsEmpty, ApprovedStayFolded, StatusesSurvive, DecidedIsNotAsked
  <2>5. CASE \E w \in DOMAIN note : ExtractAgain(w)
    BY <2>5 DEF ExtractAgain, ApprovedStayFolded, StatusesSurvive, DecidedIsNotAsked
  <2> QED BY <2>1, <2>2, <2>3, <2>4, <2>5 DEF OverNext
<1> QED BY <1>1, OverlayInvariant, PTL DEF OverSpec, DecisionsLast

-----------------------------------------------------------------------------
(* II. Answers. *)

-----------------------------------------------------------------------------
(* The invariant. *)

IsAsk(a) == a = [pc |-> a.pc, ranked |-> a.ranked, graph |-> a.graph, profile |-> a.profile,
                 shown |-> a.shown, envelope |-> a.envelope, trace |-> a.trace]
IsEnvelope(e) == e = [outcome |-> e.outcome, category |-> e.category, prose |-> e.prose,
                      insufficient |-> e.insufficient, cites |-> e.cites, recs |-> e.recs]
IsCite(c) == c = [work |-> c.work, spans |-> c.spans, stated |-> c.stated]

AskTypeOK ==
  /\ askCfg \in AskConfigs
  /\ inclusion \in [AskWorks -> Standings]
  /\ exclusions \in 0..MaxExclusions
  /\ ask.pc \in {"asked", "call", "guard", "done", "raised"}
  /\ ask.pc = "asked" => ask = Unasked
  /\ IsAsk(ask)
  /\ IsEnvelope(ask.envelope)

IsList(s) == Len(s) \in Nat /\ DOMAIN s = 1..Len(s)

\* A question that reached a model keeps what it was asked with.
PromptOK(a) ==
  a.profile # NoProfile =>
    /\ IsList(a.ranked)
    /\ a.shown \in 1..Len(a.ranked)
    /\ a.shown > 1 => SizeOf(a.ranked, a.shown) <= askCfg.cap
    /\ {i \in DOMAIN a.trace : a.trace[i][2] = "shown"} = 1..a.shown
    /\ \A i \in 1..a.shown : /\ i \in DOMAIN a.trace
                             /\ a.trace[i] = <<a.ranked[i].id, "shown">>
                             /\ a.trace[i][1] = a.ranked[i].id
    /\ \/ IsLocal(askCfg.llm, a.profile)
       \/ askCfg.fragments
       \/ ~Restricted(a.ranked)

\* Only a question that reached a model is answered by one.
CallOK(a) ==
  /\ a.pc = "call" => a.profile # NoProfile /\ a.envelope = NoEnvelopeYet
  /\ a.envelope.outcome = "llm" => a.profile # NoProfile /\ a.pc \in {"guard", "done"}

\* What is cited was found, and shown when a model cites it.
CiteOK(c, e, ranked, shown) ==
  /\ IsCite(c)
  /\ c.work \in WorksIn(ranked)
  /\ e.outcome = "llm" =>
       \A s \in c.spans : \E k \in 1..shown : ranked[k].span = s /\ ranked[k].work = c.work
CitesOK(a) == \A c \in a.envelope.cites : CiteOK(c, a.envelope, a.ranked, a.shown)

\* What is recommended was not found; only an answer about gaps, which cites
\* nothing and found nothing, recommends a work that has spans.
NotFound(ranked) == Spanless \ WorksIn(ranked)
RecsOK(a) == /\ a.graph \subseteq NotFound(a.ranked)
             /\ a.envelope.outcome # "abstain_gap_finding" => a.envelope.recs \subseteq NotFound(a.ranked)
GapOK ==
  ask.envelope.outcome = "abstain_gap_finding" =>
    /\ ask.pc = "done" /\ ask.envelope.cites = {}
    /\ \A w \in ask.envelope.recs : Unread(w) /\ inclusion[w] # "excluded"

AskInv == AskTypeOK /\ PromptOK(ask) /\ CallOK(ask) /\ CitesOK(ask) /\ RecsOK(ask) /\ GapOK /\ ProseIsGrounded

-----------------------------------------------------------------------------
(* Retrieval, ranking and the cuts. *)

\* Only rows of the project are found, whatever was asked: finitely many.
LEMMA FoundAreRows == Found \subseteq DOMAIN askCfg.rows
<1>1. \A P, n : First(P, n) \subseteq P
  BY DEF First
<1>2. \A P : Distinct(P) \subseteq P
  BY DEF Distinct
<1>3. \A kind, works : Batch(kind, works) \subseteq DOMAIN askCfg.rows
  <2> TAKE kind, works
  <2> DEFINE hits == {i \in DOMAIN askCfg.rows :
                        /\ askCfg.rows[i].batch = kind
                        /\ inclusion[askCfg.rows[i].work] # "excluded"
                        /\ (kind = "concept" \/ askCfg.rows[i].work \in works)}
  <2>1. Batch(kind, works) = IF kind = "concept" THEN hits ELSE First(hits, askCfg.max)
    BY DEF Batch
  <2>2. hits \subseteq DOMAIN askCfg.rows
    OBVIOUS
  <2> HIDE DEF hits
  <2>3. First(hits, askCfg.max) \subseteq hits
    BY <1>1
  <2> QED BY <2>1, <2>2, <2>3
<1>4. \A works : Retrieve(works) \subseteq DOMAIN askCfg.rows
  <2> TAKE works
  <2> DEFINE all == UNION {Batch(kind, works) : kind \in Range(BatchOrder)}
  <2>1. all \subseteq DOMAIN askCfg.rows
    BY <1>3
  <2>2. Retrieve(works) = First(Distinct(all), askCfg.max)
    BY DEF Retrieve
  <2> HIDE DEF all
  <2>3. First(Distinct(all), askCfg.max) \subseteq Distinct(all) /\ Distinct(all) \subseteq all
    BY <1>1, <1>2
  <2> QED BY <2>1, <2>2, <2>3
<1>5. Compared \subseteq DOMAIN askCfg.rows
  <2> DEFINE share == Max({1, askCfg.max \div Cardinality(askCfg.named)})
             Of(w) == {i \in Retrieve({w}) : askCfg.rows[i].work = w}
  <2>1. Compared = UNION {First(Of(w), share) : w \in askCfg.named}
    BY DEF Compared
  <2>2. \A w : Of(w) \subseteq DOMAIN askCfg.rows
    BY <1>4
  <2> HIDE DEF share, Of
  <2>3. \A w : First(Of(w), share) \subseteq Of(w)
    BY <1>1
  <2> QED BY <2>1, <2>2, <2>3
<1> QED BY <1>4, <1>5 DEF Found

Rows == {askCfg.rows[i] : i \in Found}

LEMMA RowsAreFinite ==
  ASSUME AskTypeOK
  PROVE  Cardinality(Rows) \in Nat
<1>1. Found \subseteq 1..Len(askCfg.rows) /\ Len(askCfg.rows) \in Nat
  BY FoundAreRows, AskAssumption DEF AskTypeOK
<1>2. IsFiniteSet(1..Len(askCfg.rows))
  BY <1>1, FS_Interval
<1>3. IsFiniteSet(Found)
  BY <1>1, <1>2, FS_Subset
<1>4. IsFiniteSet(Rows)
  <2> DEFINE f == [i \in Found |-> askCfg.rows[i]]
  <2>1. f \in Surjection(Found, Rows)
    BY DEF Surjection, Rows
  <2> HIDE DEF f
  <2> QED BY <1>3, <2>1, FS_Surjection
<1> QED BY <1>4, FS_CardinalityType

LEMMA TakesPrefix ==
  ASSUME NEW s, IsList(s), NEW n \in 0..Len(s)
  PROVE  /\ IsList(SubSeq(s, 1, n)) /\ Len(SubSeq(s, 1, n)) = n
         /\ \A k \in 1..n : SubSeq(s, 1, n)[k] = s[k]
<1> DEFINE T == {s[i] : i \in 1..n}
<1>1. n \in Int /\ n \in Nat
  BY DEF IsList
<1>2. \A i \in 1..n : s[i] \in T
  OBVIOUS
<1>3. /\ SubSeq(s, 1, n) \in Seq(T)
      /\ Len(SubSeq(s, 1, n)) = IF 1 <= n THEN n - 1 + 1 ELSE 0
      /\ \A i \in 1..n - 1 + 1 : SubSeq(s, 1, n)[i] = s[1 + i - 1]
  <2> HIDE DEF T
  <2> QED BY <1>1, <1>2, SubSeqProperties
<1>4. Len(SubSeq(s, 1, n)) = n
  BY <1>1, <1>3
<1>5. \A k \in 1..n : SubSeq(s, 1, n)[k] = s[k]
  <2> TAKE k \in 1..n
  <2>1. k \in 1..n - 1 + 1 /\ 1 + k - 1 = k
    BY <1>1
  <2> QED BY <2>1, <1>3
<1> QED BY <1>1, <1>3, <1>4, <1>5, LenProperties DEF IsList

LEMMA RankedIsList ==
  ASSUME NEW rows, Cardinality(rows) \in Nat
  PROVE  IsList(Ranked(rows))
<1> DEFINE T == {Ranked(rows)[k] : k \in 1..Cardinality(rows)}
<1>1. DOMAIN Ranked(rows) = 1..Cardinality(rows)
  BY DEF Ranked
<1>2. Ranked(rows) \in [1..Cardinality(rows) -> T]
  <2> DEFINE Nth(k) == CHOOSE r \in rows : Cardinality({q \in rows : Better(q, r)}) = k - 1
  <2>1. Ranked(rows) = [k \in 1..Cardinality(rows) |-> Nth(k)]
    BY DEF Ranked
  <2> HIDE DEF Nth
  <2> QED BY <2>1
<1> HIDE DEF T
<1>3. Ranked(rows) \in Seq(T)
  BY <1>2, SeqDef
<1> QED BY <1>1, <1>3, LenProperties DEF IsList

\* A cut keeps a prefix no longer than its limit.
LEMMA CutIsPrefix ==
  ASSUME NEW s, IsList(s), NEW n \in Nat
  PROVE  /\ IsList(Cut(s, n)) /\ Len(Cut(s, n)) <= Len(s) /\ Len(Cut(s, n)) <= n
         /\ \A k \in 1..Len(Cut(s, n)) : Cut(s, n)[k] = s[k]
<1> DEFINE m == Min({n, Len(s)})
<1>1. m \in {n, Len(s)} /\ m <= n /\ m <= Len(s)
  <2>1. \E x \in {n, Len(s)} : \A y \in {n, Len(s)} : x <= y
    BY DEF IsList
  <2> QED BY <2>1 DEF Min
<1>2. m \in 0..Len(s)
  BY <1>1 DEF IsList
<1>3. Cut(s, n) = SubSeq(s, 1, m)
  BY DEF Cut
<1> HIDE DEF m
<1> QED BY <1>1, <1>2, <1>3, TakesPrefix

\* Of what there is, at least the first is shown, and the rest while it fits.
LEMMA ShownFits ==
  ASSUME NEW rows, IsList(rows), rows # << >>, Len(rows) # 0
  PROVE  /\ Shown(rows) \in 1..Len(rows)
         /\ Shown(rows) > 1 => SizeOf(rows, Shown(rows)) <= askCfg.cap
<1> DEFINE S == {k \in DOMAIN rows : \A i \in 2..k : SizeOf(rows, i) <= askCfg.cap}
           L == {n \in Nat : \E k \in S : n = Len(rows) - k}
<1>1. S \subseteq 1..Len(rows) /\ Len(rows) \in Nat
  BY DEF IsList
<1>2. 1 \in S
  BY DEF IsList
<1>3. \E x \in S : \A y \in S : x >= y
  <2>1. L # {} /\ L \in SUBSET Nat
    <3>1. Len(rows) - 1 \in Nat
      BY <1>1, <1>2
    <3> QED BY <3>1, <1>2
  <2> HIDE DEF L
  <2>2. PICK n \in L : \A j \in L : n <= j
    BY <2>1, HasLeast
  <2> USE DEF L
  <2> HIDE DEF S
  <2>3. PICK k \in S : n = Len(rows) - k
    BY <2>2
  <2>4. \A y \in S : Len(rows) - y \in L
    BY <1>1
  <2>5. \A y \in S : k >= y
    <3> TAKE y \in S
    <3>1. n <= Len(rows) - y
      BY <2>2, <2>4
    <3> QED BY <3>1, <2>3, <1>1
  <2> QED BY <2>5
<1>4. Shown(rows) = Max(S)
  BY DEF Shown
<1>5. Max(S) \in S
  <2> HIDE DEF S
  <2> QED BY <1>3 DEF Max
<1>6. Shown(rows) \in S
  BY <1>4, <1>5
<1>7. Shown(rows) > 1 => Shown(rows) \in 2..Shown(rows)
  BY <1>6, <1>1
<1> QED BY <1>6, <1>7, <1>1

\* The trace calls shown what went into the prompt and nothing else.
LEMMA TraceIsTrue ==
  ASSUME NEW full, IsList(full), askCfg.max \in Nat,
         NEW n \in 1..Len(full), n <= askCfg.max
  PROVE  /\ {i \in DOMAIN TraceOf(full, n) : TraceOf(full, n)[i][2] = "shown"} = 1..n
         /\ \A i \in 1..n : /\ i \in DOMAIN TraceOf(full, n)
                            /\ TraceOf(full, n)[i] = <<full[i].id, "shown">>
                            /\ TraceOf(full, n)[i][1] = full[i].id
<1>0. n \in Nat /\ n # 0
  BY DEF IsList
<1>1. /\ DOMAIN TraceOf(full, n) = 1..Len(full)
      /\ \A i \in 1..Len(full) : TraceOf(full, n)[i] = <<full[i].id, Disposition(i, askCfg.max, n)>>
  BY DEF TraceOf, IsList
<1>2. \A i \in 1..Len(full) : Disposition(i, askCfg.max, n) = "shown" <=> i <= n
  BY <1>0 DEF Disposition, IsList
<1>3. \A i \in 1..n : i \in 1..Len(full) /\ i <= n
  BY DEF IsList
<1>4. \A i \in 1..Len(full) : TraceOf(full, n)[i][2] = Disposition(i, askCfg.max, n)
  BY <1>1
<1>5. \A i \in 1..n : Disposition(i, askCfg.max, n) = "shown"
  BY <1>2, <1>3
<1>6. \A i \in 1..n : TraceOf(full, n)[i] = <<full[i].id, "shown">>
  BY <1>1, <1>3, <1>5
<1>7. {i \in DOMAIN TraceOf(full, n) : TraceOf(full, n)[i][2] = "shown"} = {i \in 1..Len(full) : i <= n}
  BY <1>1, <1>2, <1>4
<1>8. {i \in 1..Len(full) : i <= n} = 1..n
  BY DEF IsList
<1> QED BY <1>1, <1>3, <1>6, <1>7, <1>8

-----------------------------------------------------------------------------
(* The gate of restricted fragments. *)

LEMMA FallbackIsLocal ==
  ASSUME NEW c
  PROVE  LocalFallback(c).kind = "route" =>
           LocalFallback(c).profile # NoProfile /\ IsLocal(c, LocalFallback(c).profile)
<1> DEFINE order == (IF c.routed THEN <<c.fallback, c.preferred>> ELSE << >>) \o ProfileOrder
           fit == {i \in DOMAIN order :
                     /\ order[i] # NoProfile
                     /\ IsLocal(c, order[i])
                     /\ Authorised(c, order[i])}
           P == LlmProfiles \cup {c.fallback, c.preferred}
<1>1. order \in Seq(P)
  <2>1. ProfileOrder \in Seq(P)
    BY AskAssumption
  <2>2. <<c.fallback, c.preferred>> \in Seq(P) /\ << >> \in Seq(P)
    OBVIOUS
  <2>3. (IF c.routed THEN <<c.fallback, c.preferred>> ELSE << >>) \in Seq(P)
    BY <2>2
  <2> QED BY <2>1, <2>3, ConcatProperties
<1>2. fit \in SUBSET Nat
  <2> HIDE DEF order, P
  <2> QED BY <1>1
<1>3. CASE fit = {}
  BY <1>3 DEF LocalFallback, NoRoute, NoLlm
<1>4. CASE fit # {}
  <2> DEFINE least == CHOOSE i \in fit : \A j \in fit : i <= j
  <2>1. least \in fit
    <3> HIDE DEF fit
    <3> QED BY <1>2, <1>4, HasLeast
  <2>2. LocalFallback(c) = RouteTo(order[least], FALSE, NoProfile)
    BY <1>4 DEF LocalFallback
  <2>3. order[least] # NoProfile /\ IsLocal(c, order[least])
    <3> HIDE DEF order, least
    <3> QED BY <2>1
  <2> HIDE DEF order, fit, least
  <2> QED BY <2>2, <2>3 DEF RouteTo
<1> QED BY <1>3, <1>4

\* What the gate lets go to an external profile is shareable, or the policy
\* lets restricted fragments go.
LEMMA GateHoldsBack ==
  ASSUME NEW rows, FragmentGate(rows).kind = "route"
  PROVE  /\ FragmentGate(rows).profile # NoProfile
         /\ \/ IsLocal(askCfg.llm, FragmentGate(rows).profile)
            \/ askCfg.fragments
            \/ ~Restricted(rows)
<1> DEFINE r == ResolveRoute(askCfg.llm, MostRestrictive(rows))
<1>1. r.kind = "route" => r.profile # NoProfile
  BY DEF ResolveRoute, NoLlm, Raised, RouteTo
<1>2. FragmentGate(rows) = r \/ FragmentGate(rows) = LocalFallback(askCfg.llm)
  BY DEF FragmentGate
<1>3. CASE FragmentGate(rows) = LocalFallback(askCfg.llm)
  BY <1>3, FallbackIsLocal
<1>4. CASE FragmentGate(rows) = r /\ FragmentGate(rows) # LocalFallback(askCfg.llm)
  <2>1. ~(r.kind = "route" /\ ~IsLocal(askCfg.llm, r.profile) /\ Restricted(rows) /\ ~askCfg.fragments)
    BY <1>4 DEF FragmentGate
  <2> HIDE DEF r
  <2> QED BY <2>1, <1>1, <1>4
<1> QED BY <1>2, <1>3, <1>4

-----------------------------------------------------------------------------
(* The properties follow. *)

LEMMA InvIsGrounded == AskInv => AnswerIsGrounded
<1> SUFFICES ASSUME AskInv PROVE AnswerIsGrounded
  OBVIOUS
<1>1. CitedWasShown
  <2> SUFFICES ASSUME ask.envelope.outcome = "llm",
                      NEW c \in ask.envelope.cites, NEW s \in c.spans
               PROVE  \E k \in DOMAIN ask.ranked :
                        /\ ask.ranked[k].span = s /\ ask.ranked[k].work = c.work
                        /\ \E i \in DOMAIN ask.trace : ask.trace[i] = <<ask.ranked[k].id, "shown">>
    BY DEF CitedWasShown
  <2>1. PICK k \in 1..ask.shown : ask.ranked[k].span = s /\ ask.ranked[k].work = c.work
    BY DEF AskInv, CitesOK, CiteOK
  <2>2. /\ IsList(ask.ranked) /\ ask.shown \in 1..Len(ask.ranked)
        /\ k \in DOMAIN ask.trace /\ ask.trace[k] = <<ask.ranked[k].id, "shown">>
    BY <2>1 DEF AskInv, CallOK, PromptOK
  <2>3. k \in DOMAIN ask.ranked
    BY <2>2 DEF IsList
  <2> QED BY <2>1, <2>2, <2>3
<1>2. TraceTellsThePrompt
  BY DEF AskInv, PromptOK, TraceTellsThePrompt
<1>3. RecommendedIsNotCited
  <2>1. CASE ask.envelope.outcome = "abstain_gap_finding"
    <3>1. /\ CitedWorks = {}
          /\ \A w \in ask.envelope.recs : Unread(w) /\ inclusion[w] # "excluded"
      BY <2>1 DEF AskInv, GapOK, CitedWorks
    <3> QED BY <2>1, <3>1 DEF RecommendedIsNotCited
  <2>2. CASE ask.envelope.outcome # "abstain_gap_finding"
    <3>1. ask.envelope.recs \subseteq Spanless \ WorksIn(ask.ranked)
      BY <2>2 DEF AskInv, RecsOK, NotFound
    <3>2. CitedWorks \subseteq WorksIn(ask.ranked)
      BY DEF AskInv, CitesOK, CiteOK, CitedWorks
    <3> QED BY <2>2, <3>1, <3>2 DEF RecommendedIsNotCited
  <2> QED BY <2>1, <2>2
<1> QED BY <1>1, <1>2, <1>3 DEF AskInv, AnswerIsGrounded

LEMMA InvStaysHome == AskInv => RestrictedStaysHome
<1> SUFFICES ASSUME AskInv, ask.profile # NoProfile, ~IsLocal(askCfg.llm, ask.profile), ~askCfg.fragments,
                    NEW i \in 1..ask.shown
             PROVE  ask.ranked[i].access \in Shareable
  BY DEF RestrictedStaysHome
<1>1. /\ IsList(ask.ranked) /\ ask.shown \in 1..Len(ask.ranked)
      /\ ~Restricted(ask.ranked)
  BY DEF AskInv, PromptOK
<1>2. i \in DOMAIN ask.ranked
  BY <1>1 DEF IsList
<1> QED BY <1>1, <1>2 DEF Restricted

-----------------------------------------------------------------------------
(* The steps. *)

LEMMA NothingCited ==
  /\ IsEnvelope(NoEnvelopeYet) /\ NoEnvelopeYet.cites = {} /\ NoEnvelopeYet.recs = {}
  /\ NoEnvelopeYet.outcome = "none"
BY DEF IsEnvelope, NoEnvelopeYet

LEMMA AskInitOK == AskInit => AskInv
<1> SUFFICES ASSUME AskInit PROVE AskInv
  OBVIOUS
<1>1. /\ askCfg \in AskConfigs /\ inclusion = askCfg.status /\ exclusions = 0 /\ ask = Unasked
  BY DEF AskInit, AskStart
<1>2. /\ ask.pc = "asked" /\ ask.profile = NoProfile /\ ask.envelope = NoEnvelopeYet /\ ask.graph = {}
      /\ IsAsk(ask)
  BY <1>1 DEF Unasked, IsAsk
<1>3. AskTypeOK
  BY <1>1, <1>2, NothingCited, AskAssumption DEF AskTypeOK
<1>4. PromptOK(ask) /\ CallOK(ask) /\ CitesOK(ask) /\ RecsOK(ask) /\ GapOK /\ ProseIsGrounded
  BY <1>2, NothingCited DEF PromptOK, CallOK, CitesOK, RecsOK, GapOK, ProseIsGrounded, Final
<1> QED BY <1>3, <1>4 DEF AskInv

LEMMA InclusionKeeps ==
  ASSUME AskInv, NEW w \in AskWorks, NEW s \in {"included", "excluded"}, SetInclusion(w, s)
  PROVE  AskInv'
<1>1. /\ ask.pc \notin {"done", "raised"} /\ exclusions < MaxExclusions
      /\ inclusion' = [inclusion EXCEPT ![w] = s] /\ exclusions' = exclusions + 1
      /\ askCfg' = askCfg /\ ask' = ask
  BY DEF SetInclusion
<1>2. AskTypeOK'
  BY <1>1, AskAssumption DEF AskInv, AskTypeOK, Standings
<1>3. PromptOK(ask)' /\ CallOK(ask)' /\ CitesOK(ask)' /\ RecsOK(ask)'
  BY <1>1 DEF AskInv, PromptOK, CallOK, CitesOK, RecsOK
<1>4. ProseIsGrounded'
  BY <1>1 DEF ProseIsGrounded, Final
<1>5. GapOK'
  BY <1>1 DEF AskInv, GapOK
<1> QED BY <1>2, <1>3, <1>4, <1>5 DEF AskInv

LEMMA AbstentionsCite ==
  ASSUME NEW outcome, outcome # "llm", NEW recs
  PROVE  /\ IsEnvelope(Abstained(outcome, recs))
         /\ Abstained(outcome, recs).outcome = outcome
         /\ Abstained(outcome, recs).cites = {}
         /\ Abstained(outcome, recs).recs = recs
<1> DEFINE none == NoEnvelopeYet
<1>1. IsEnvelope(none) /\ none.cites = {}
  BY NothingCited
<1>2. Abstained(outcome, recs) =
        [none EXCEPT !.outcome = outcome, !.category = "unresolved", !.insufficient = TRUE, !.recs = recs]
  BY DEF Abstained
<1> HIDE DEF none
<1> QED BY <1>1, <1>2 DEF IsEnvelope

LEMMA GapKeeps ==
  ASSUME AskInv, AskGap
  PROVE  AskInv'
<1> DEFINE e == Abstained("abstain_gap_finding", GapRecs)
<1>1. /\ ask = Unasked /\ ask' = [ask EXCEPT !.pc = "done", !.envelope = e]
      /\ askCfg' = askCfg /\ inclusion' = inclusion /\ exclusions' = exclusions
  BY DEF AskGap, AskInv, AskTypeOK
<1>2. IsEnvelope(e) /\ e.outcome = "abstain_gap_finding" /\ e.cites = {} /\ e.recs = GapRecs
  BY AbstentionsCite
<1> HIDE DEF e
<1>3. /\ ask'.pc = "done" /\ ask'.profile = NoProfile /\ ask'.envelope = e
      /\ ask'.graph = {} /\ ask'.ranked = << >> /\ IsAsk(ask')
  BY <1>1 DEF Unasked, IsAsk
<1>4. AskTypeOK'
  BY <1>1, <1>2, <1>3 DEF AskInv, AskTypeOK
<1>5. WorksIn(<< >>) = {}
  BY DEF WorksIn
<1>6. \A w \in GapRecs : Unread(w) /\ inclusion[w] # "excluded"
  BY DEF GapRecs, CocitedRecs, ReadNextRecs, Unread
<1>7. RecsOK(ask)' /\ GapOK'
  <2>1. RecsOK(ask)'
    BY <1>2, <1>3 DEF RecsOK
  <2>2. GapOK'
    BY <1>1, <1>2, <1>3, <1>6 DEF GapOK, Unread
  <2> QED BY <2>1, <2>2
<1>8. PromptOK(ask)' /\ CallOK(ask)' /\ CitesOK(ask)' /\ ProseIsGrounded'
  BY <1>2, <1>3 DEF PromptOK, CallOK, CitesOK, ProseIsGrounded, Final
<1> QED BY <1>4, <1>7, <1>8 DEF AskInv

-----------------------------------------------------------------------------
(* Citations and recommendations of what was found. *)

LEMMA CitesTell ==
  ASSUME NEW rows, NEW c \in CitesOf(rows)
  PROVE  /\ IsCite(c)
         /\ \E r \in rows : r.work = c.work
         /\ \A s \in c.spans : \E r \in rows : r.work = c.work /\ r.span = s
<1>1. PICK w \in {r.work : r \in rows} :
        c = [work |-> w, spans |-> {r.span : r \in {q \in rows : q.work = w}} \ {NoSpan},
             stated |-> \E r \in rows : r.work = w /\ r.stated]
  BY DEF CitesOf
<1>2. IsCite(c)
  BY <1>1 DEF IsCite
<1>3. c.work = w /\ c.spans \subseteq {r.span : r \in {q \in rows : q.work = w}}
  BY <1>1
<1> QED BY <1>1, <1>2, <1>3

LEMMA RecsAreNotFound ==
  ASSUME NEW ranked
  PROVE  /\ GraphRecs(WorksIn(ranked)) \subseteq NotFound(ranked)
         /\ MetadataRecs(WorksIn(ranked)) \subseteq NotFound(ranked)
BY DEF GraphRecs, MetadataRecs, NotFound

\* An answer without a model cites what was found.
LEMMA EvidenceAlone ==
  ASSUME NEW ranked, NEW recs, recs \subseteq NotFound(ranked), NEW shown
  PROVE  /\ IsEnvelope(RetrievalOnly(ranked, recs))
         /\ RetrievalOnly(ranked, recs).outcome = "retrieval_only"
         /\ RetrievalOnly(ranked, recs).recs \subseteq NotFound(ranked)
         /\ \A c \in RetrievalOnly(ranked, recs).cites :
              CiteOK(c, RetrievalOnly(ranked, recs), ranked, shown)
<1> DEFINE e == RetrievalOnly(ranked, recs)
<1>1. /\ IsEnvelope(e) /\ e.outcome = "retrieval_only" /\ e.cites = CitesOf(Range(ranked))
      /\ e.recs = recs \cup MetadataRecs(WorksIn(ranked))
  BY DEF RetrievalOnly, IsEnvelope
<1> HIDE DEF e
<1>2. \A c \in e.cites : CiteOK(c, e, ranked, shown)
  <2> SUFFICES ASSUME NEW c \in CitesOf(Range(ranked)) PROVE IsCite(c) /\ c.work \in WorksIn(ranked)
    BY <1>1 DEF CiteOK
  <2>1. IsCite(c) /\ \E r \in Range(ranked) : r.work = c.work
    BY CitesTell
  <2> QED BY <2>1 DEF Range, WorksIn
<1>3. e.recs \subseteq NotFound(ranked)
  BY <1>1, RecsAreNotFound
<1> QED BY <1>1, <1>2, <1>3 DEF e

Took(got, a, ranked, graph) == got = [a EXCEPT !.ranked = ranked, !.graph = graph]

LEMMA FoundIsKept ==
  ASSUME NEW a, IsAsk(a), NEW ranked, NEW graph, NEW got, Took(got, a, ranked, graph)
  PROVE  /\ IsAsk(got) /\ got.ranked = ranked /\ got.graph = graph
         /\ got.profile = a.profile /\ got.envelope = a.envelope
BY DEF IsAsk, Took

LEMMA RetrieveKeeps ==
  ASSUME AskInv, AskRetrieve
  PROVE  AskInv'
<1> DEFINE full == Ranked(Rows)
           ranked == Cut(full, askCfg.max)
           graph == IF askCfg.hint = "citation_search" THEN GraphRecs(WorksIn(ranked)) ELSE {}
           gate == FragmentGate(ranked)
           mute == gate.kind # "route" \/ askCfg.blocked
           got == [ask EXCEPT !.ranked = ranked, !.graph = graph]
           nothing == Abstained("abstain_empty", graph \cup MetadataRecs(WorksIn(ranked)))
           alone == RetrievalOnly(ranked, graph)
           n == Shown(ranked)
<1>1. /\ ask = Unasked /\ ask.pc = "asked" /\ IsAsk(ask) /\ askCfg.max \in Nat
      /\ askCfg' = askCfg /\ inclusion' = inclusion /\ exclusions' = exclusions
  BY AskAssumption DEF AskRetrieve, AskInv, AskTypeOK
<1>2. ask.profile = NoProfile /\ ask.envelope = NoEnvelopeYet /\ ask.graph = {}
  BY <1>1 DEF Unasked
<1>3. \/ Weak(ranked) /\ ask' = [got EXCEPT !.pc = "done", !.trace = TraceOf(full, 0), !.envelope = nothing]
      \/ ~Weak(ranked) /\ gate.kind = "raised" /\ ask' = [got EXCEPT !.pc = "raised"]
      \/ ~Weak(ranked) /\ mute
           /\ ask' = [got EXCEPT !.pc = "guard", !.trace = TraceOf(full, 0), !.envelope = alone]
      \/ ~Weak(ranked) /\ ~mute
           /\ ask' = [got EXCEPT !.pc = "call", !.profile = gate.profile, !.shown = n, !.trace = TraceOf(full, n)]
  BY DEF AskRetrieve, Rows
<1>4. /\ IsList(full) /\ IsList(ranked) /\ Len(ranked) <= Len(full) /\ Len(ranked) <= askCfg.max
      /\ \A k \in 1..Len(ranked) : ranked[k] = full[k]
  <2>1. Cardinality(Rows) \in Nat
    BY RowsAreFinite DEF AskInv
  <2>2. IsList(full)
    BY <2>1, RankedIsList
  <2> HIDE DEF full
  <2> QED BY <2>2, <1>1, CutIsPrefix
<1>5. graph \subseteq NotFound(ranked) /\ MetadataRecs(WorksIn(ranked)) \subseteq NotFound(ranked)
  BY RecsAreNotFound
<1>6. gate.kind = "route" => /\ gate.profile # NoProfile
                             /\ \/ IsLocal(askCfg.llm, gate.profile)
                                \/ askCfg.fragments
                                \/ ~Restricted(ranked)
  BY GateHoldsBack
<1>7. /\ IsEnvelope(nothing) /\ nothing.outcome = "abstain_empty" /\ nothing.cites = {}
      /\ nothing.recs \subseteq NotFound(ranked)
  <2> HIDE DEF graph, ranked
  <2> QED BY <1>5, AbstentionsCite
<1>8. \A shown : /\ IsEnvelope(alone) /\ alone.outcome = "retrieval_only" /\ alone.recs \subseteq NotFound(ranked)
                 /\ \A c \in alone.cites : CiteOK(c, alone, ranked, shown)
  <2> HIDE DEF graph, ranked
  <2> QED BY <1>5, EvidenceAlone
<1> HIDE DEF nothing, alone, graph, gate
<1>9. /\ IsAsk(got) /\ got.ranked = ranked /\ got.graph = graph
      /\ got.profile = NoProfile /\ got.envelope = NoEnvelopeYet
  <2> HIDE DEF ranked
  <2>1. Took(got, ask, ranked, graph)
    BY DEF Took
  <2>2. IsAsk(ask)
    BY <1>1
  <2> HIDE DEF got
  <2>3. /\ IsAsk(got) /\ got.ranked = ranked /\ got.graph = graph
        /\ got.profile = ask.profile /\ got.envelope = ask.envelope
    BY <2>1, <2>2, FoundIsKept
  <2> QED BY <1>2, <2>3
<1>10. CASE Weak(ranked) /\ ask' = [got EXCEPT !.pc = "done", !.trace = TraceOf(full, 0), !.envelope = nothing]
  <2> HIDE DEF ranked, full, got
  <2>1. /\ ask'.pc = "done" /\ ask'.profile = NoProfile /\ ask'.envelope = nothing
        /\ ask'.ranked = ranked /\ ask'.graph = graph /\ IsAsk(ask')
    BY <1>9, <1>10 DEF IsAsk
  <2>2. AskTypeOK'
    BY <1>1, <1>7, <2>1 DEF AskInv, AskTypeOK
  <2> QED BY <1>5, <1>7, <2>1, <2>2
          DEF AskInv, PromptOK, CallOK, CitesOK, RecsOK, GapOK, ProseIsGrounded
<1>11. CASE /\ ~Weak(ranked) /\ mute
            /\ ask' = [got EXCEPT !.pc = "guard", !.trace = TraceOf(full, 0), !.envelope = alone]
  <2> HIDE DEF ranked, full, got
  <2>1. /\ ask'.pc = "guard" /\ ask'.profile = NoProfile /\ ask'.envelope = alone
        /\ ask'.ranked = ranked /\ ask'.graph = graph /\ IsAsk(ask')
    BY <1>9, <1>11 DEF IsAsk
  <2>2. AskTypeOK'
    BY <1>1, <1>8, <2>1 DEF AskInv, AskTypeOK
  <2>3. CitesOK(ask')
    BY <1>8, <2>1 DEF CitesOK
  <2> QED BY <1>5, <1>8, <2>1, <2>2, <2>3
          DEF AskInv, PromptOK, CallOK, CitesOK, RecsOK, GapOK, ProseIsGrounded, Final
<1>12. CASE /\ ~Weak(ranked) /\ ~mute
            /\ ask' = [got EXCEPT !.pc = "call", !.profile = gate.profile, !.shown = n, !.trace = TraceOf(full, n)]
  <2>1. Len(ranked) # 0 /\ ranked # << >>
    <3> HIDE DEF ranked
    <3>1. \E i \in DOMAIN ranked : TRUE
      BY <1>12 DEF Weak
    <3> QED BY <3>1, <1>4 DEF IsList
  <2>2. n \in 1..Len(ranked) /\ (n > 1 => SizeOf(ranked, n) <= askCfg.cap)
    <3> HIDE DEF ranked
    <3> QED BY <2>1, <1>4, ShownFits
  <2> HIDE DEF ranked, full, got
  <2>3. n \in 1..Len(full) /\ n <= askCfg.max
    <3> HIDE DEF n
    <3> QED BY <2>2, <1>1, <1>4 DEF IsList
  <2> HIDE DEF n
  <2>4. /\ {i \in DOMAIN TraceOf(full, n) : TraceOf(full, n)[i][2] = "shown"} = 1..n
        /\ \A i \in 1..n : /\ i \in DOMAIN TraceOf(full, n)
                           /\ TraceOf(full, n)[i] = <<full[i].id, "shown">>
                           /\ TraceOf(full, n)[i][1] = full[i].id
    BY <1>1, <1>4, <2>3, TraceIsTrue
  <2>5. \A i \in 1..n : full[i] = ranked[i]
    BY <1>4, <2>2 DEF IsList
  <2>6. /\ ask'.pc = "call" /\ ask'.profile = gate.profile /\ ask'.envelope = NoEnvelopeYet
        /\ ask'.ranked = ranked /\ ask'.graph = graph /\ ask'.shown = n /\ ask'.trace = TraceOf(full, n)
        /\ IsAsk(ask')
    BY <1>9, <1>12 DEF IsAsk
  <2>7. gate.kind = "route"
    BY <1>12
  <2>8. AskTypeOK'
    BY <1>1, <2>6, NothingCited DEF AskInv, AskTypeOK
  <2>9. PromptOK(ask)'
    <3> DEFINE told == TraceOf(full, n)
    <3>1. /\ {i \in DOMAIN told : told[i][2] = "shown"} = 1..n
          /\ \A i \in 1..n : /\ i \in DOMAIN told
                             /\ told[i] = <<ranked[i].id, "shown">>
                             /\ told[i][1] = ranked[i].id
      BY <2>4, <2>5
    <3>2. ask'.trace = told
      BY <2>6
    <3> HIDE DEF told
    <3> QED BY <1>1, <1>4, <1>6, <2>2, <2>6, <2>7, <3>1, <3>2 DEF PromptOK
  <2> QED BY <1>5, <1>6, <2>6, <2>7, <2>8, <2>9, NothingCited
          DEF AskInv, CallOK, CitesOK, RecsOK, GapOK, ProseIsGrounded, Final
<1>13. CASE ~Weak(ranked) /\ ask' = [got EXCEPT !.pc = "raised"]
  <2> HIDE DEF ranked, full, got
  <2>1. /\ ask'.pc = "raised" /\ ask'.profile = NoProfile /\ ask'.envelope = NoEnvelopeYet
        /\ ask'.ranked = ranked /\ ask'.graph = graph /\ IsAsk(ask')
    BY <1>9, <1>13 DEF IsAsk
  <2>2. AskTypeOK'
    BY <1>1, <2>1, NothingCited DEF AskInv, AskTypeOK
  <2> QED BY <1>5, <2>1, <2>2, NothingCited
          DEF AskInv, PromptOK, CallOK, CitesOK, RecsOK, GapOK, ProseIsGrounded, Final
<1> QED BY <1>3, <1>10, <1>11, <1>12, <1>13

-----------------------------------------------------------------------------
(* The call and the guard. *)

\* A step that changes only the place and the envelope keeps the prompt.
LEMMA PromptStays ==
  ASSUME AskInv, NEW pc, NEW e, ask' = [ask EXCEPT !.pc = pc, !.envelope = e],
         UNCHANGED <<askCfg, inclusion, exclusions>>
  PROVE  /\ ask'.pc = pc /\ ask'.envelope = e /\ ask'.ranked = ask.ranked /\ ask'.shown = ask.shown
         /\ ask'.graph = ask.graph /\ ask'.profile = ask.profile /\ ask'.trace = ask.trace
         /\ IsAsk(ask')
         /\ PromptOK(ask)'
<1>1. /\ ask'.pc = pc /\ ask'.envelope = e /\ ask'.ranked = ask.ranked /\ ask'.shown = ask.shown
      /\ ask'.graph = ask.graph /\ ask'.profile = ask.profile /\ ask'.trace = ask.trace
      /\ IsAsk(ask')
  BY DEF AskInv, AskTypeOK, IsAsk
<1>2. PromptOK(ask)'
  BY <1>1 DEF AskInv, PromptOK
<1> QED BY <1>1, <1>2

LEMMA FailureKeeps ==
  ASSUME AskInv, AskFailed
  PROVE  AskInv'
<1> DEFINE e == RetrievalOnly(ask.ranked, ask.graph)
<1>1. /\ ask.pc = "call" /\ ask' = [ask EXCEPT !.pc = "guard", !.envelope = e]
      /\ UNCHANGED <<askCfg, inclusion, exclusions>>
  BY DEF AskFailed
<1>2. ask.graph \subseteq NotFound(ask.ranked)
  BY DEF AskInv, RecsOK
<1>3. /\ IsEnvelope(e) /\ e.outcome = "retrieval_only" /\ e.recs \subseteq NotFound(ask.ranked)
      /\ \A c \in e.cites : CiteOK(c, e, ask.ranked, ask.shown)
  BY <1>2, EvidenceAlone
<1> HIDE DEF e
<1>4. /\ ask'.pc = "guard" /\ ask'.envelope = e /\ ask'.ranked = ask.ranked /\ ask'.shown = ask.shown
      /\ ask'.graph = ask.graph /\ ask'.profile = ask.profile /\ IsAsk(ask') /\ PromptOK(ask)'
  BY <1>1, PromptStays
<1>5. AskTypeOK'
  BY <1>1, <1>3, <1>4 DEF AskInv, AskTypeOK
<1>6. CitesOK(ask)'
  BY <1>3, <1>4 DEF CitesOK
<1> QED BY <1>2, <1>3, <1>4, <1>5, <1>6 DEF AskInv, CallOK, RecsOK, GapOK, ProseIsGrounded, Final

LEMMA AnswerKeeps ==
  ASSUME AskInv, NEW reply \in AskReplies, AskAnswered(reply)
  PROVE  AskInv'
<1> DEFINE e == [outcome |-> "llm", category |-> reply.category,
                 prose |-> IF reply.prose THEN "model" ELSE "none", insufficient |-> reply.insufficient,
                 cites |-> Materialised(ask.ranked, ask.shown, reply.markers),
                 recs |-> ask.graph \cup MetadataRecs(WorksIn(ask.ranked))]
<1>1. /\ ask.pc = "call" /\ ask' = [ask EXCEPT !.pc = "guard", !.envelope = e]
      /\ UNCHANGED <<askCfg, inclusion, exclusions>>
  BY DEF AskAnswered
<1>2. ask.graph \subseteq NotFound(ask.ranked)
  BY DEF AskInv, RecsOK
<1>3. /\ IsEnvelope(e) /\ e.outcome = "llm"
      /\ e.cites = Materialised(ask.ranked, ask.shown, reply.markers)
      /\ e.recs = ask.graph \cup MetadataRecs(WorksIn(ask.ranked))
  BY DEF IsEnvelope
<1> HIDE DEF e
<1>4. /\ ask.profile # NoProfile /\ IsList(ask.ranked) /\ ask.shown \in 1..Len(ask.ranked)
  BY <1>1 DEF AskInv, CallOK, PromptOK
<1>5. \A c \in e.cites : CiteOK(c, e, ask.ranked, ask.shown)
  <2> SUFFICES ASSUME NEW c \in e.cites PROVE CiteOK(c, e, ask.ranked, ask.shown)
    OBVIOUS
  <2> DEFINE rows == {ask.ranked[n] : n \in reply.markers \cap 1..ask.shown}
  <2>1. c \in CitesOf(rows)
    BY <1>3 DEF Materialised
  <2>2. /\ \A r \in rows : \E k \in 1..ask.shown : r = ask.ranked[k]
        /\ \A k \in 1..ask.shown : k \in DOMAIN ask.ranked
    BY <1>4 DEF IsList
  <2> HIDE DEF rows
  <2>3. /\ IsCite(c) /\ \E r \in rows : r.work = c.work
        /\ \A s \in c.spans : \E r \in rows : r.work = c.work /\ r.span = s
    BY <2>1, CitesTell
  <2>4. c.work \in WorksIn(ask.ranked)
    BY <2>2, <2>3 DEF WorksIn
  <2>5. \A s \in c.spans : \E k \in 1..ask.shown : ask.ranked[k].span = s /\ ask.ranked[k].work = c.work
    BY <2>2, <2>3
  <2> QED BY <2>3, <2>4, <2>5 DEF CiteOK
<1>6. /\ ask'.pc = "guard" /\ ask'.envelope = e /\ ask'.ranked = ask.ranked /\ ask'.shown = ask.shown
      /\ ask'.graph = ask.graph /\ ask'.profile = ask.profile /\ IsAsk(ask') /\ PromptOK(ask)'
  BY <1>1, PromptStays
<1>7. AskTypeOK'
  BY <1>1, <1>3, <1>6 DEF AskInv, AskTypeOK
<1>8. CitesOK(ask)'
  BY <1>5, <1>6 DEF CitesOK
<1>9. e.recs \subseteq NotFound(ask.ranked)
  BY <1>2, <1>3, RecsAreNotFound
<1>10. CallOK(ask)' /\ RecsOK(ask)' /\ GapOK' /\ ProseIsGrounded'
  BY <1>2, <1>3, <1>4, <1>6, <1>9 DEF CallOK, RecsOK, GapOK, ProseIsGrounded, Final
<1> QED BY <1>6, <1>7, <1>8, <1>10 DEF AskInv

\* Judging leaves the evidence alone and calls it what it is.
LEMMA JudgedIsGrounded ==
  ASSUME NEW e, IsEnvelope(e)
  PROVE  /\ IsEnvelope(Judged(e)) /\ Judged(e).outcome = e.outcome
         /\ Judged(e).cites = e.cites /\ Judged(e).recs = e.recs
         /\ e.outcome = "llm" =>
              /\ Judged(e).prose = "model" /\ ~askCfg.outside => e.cites # {} /\ ~Judged(e).insufficient
              /\ Judged(e).category \in {"source_grounded", "corpus_synthesis"} => Grounded(e.cites)
              /\ Judged(e).category = "outside_corpus" => askCfg.outside
<1>1. CASE e.outcome = "retrieval_only"
  BY <1>1 DEF Judged
<1>2. CASE e.outcome = "llm" /\ e.category = "outside_corpus"
  <2>1. Judged(e) = IF askCfg.outside THEN e
                    ELSE [e EXCEPT !.category = "unresolved", !.insufficient = TRUE, !.prose = "none"]
    BY <1>2 DEF Judged
  <2> QED BY <2>1, <1>2 DEF IsEnvelope
<1>3. CASE e.outcome = "llm" /\ e.category # "outside_corpus" /\ e.cites # {}
  <2>1. Judged(e) = [e EXCEPT !.insufficient = FALSE, !.category = Reconciled(e)]
    BY <1>3 DEF Judged
  <2>2. /\ Reconciled(e) # "outside_corpus"
        /\ Reconciled(e) \in {"source_grounded", "corpus_synthesis"} => Grounded(e.cites)
    BY DEF Reconciled, Grounded
  <2> HIDE DEF Reconciled
  <2> QED BY <2>1, <2>2, <1>3 DEF IsEnvelope
<1>4. CASE ~(\/ e.outcome = "retrieval_only"
             \/ e.outcome = "llm" /\ e.category = "outside_corpus"
             \/ e.outcome = "llm" /\ e.category # "outside_corpus" /\ e.cites # {})
  <2>1. Judged(e) = [e EXCEPT !.insufficient = TRUE, !.category = "unresolved",
                              !.prose = IF @ = "none" THEN @ ELSE "banner"]
    BY <1>4 DEF Judged
  <2> QED BY <2>1, <1>4 DEF IsEnvelope
<1> QED BY <1>1, <1>2, <1>3, <1>4

LEMMA GuardKeeps ==
  ASSUME AskInv, AskGuard
  PROVE  AskInv'
<1> DEFINE e == ask.envelope
           kept == {c \in Members(e) : Citable(c.work)}
           left == [e EXCEPT !.cites = kept]
           j == Judged(left)
<1>1. /\ ask.pc = "guard" /\ ask' = [ask EXCEPT !.pc = "done", !.envelope = j]
      /\ UNCHANGED <<askCfg, inclusion, exclusions>>
  BY DEF AskGuard, Enforce
<1>2. IsEnvelope(e) /\ \A c \in e.cites : CiteOK(c, e, ask.ranked, ask.shown)
  BY DEF AskInv, AskTypeOK, CitesOK
<1>3. \A c \in kept : /\ Citable(c.work) /\ CiteOK(c, e, ask.ranked, ask.shown)
  <2> SUFFICES ASSUME NEW c \in kept PROVE Citable(c.work) /\ CiteOK(c, e, ask.ranked, ask.shown)
    OBVIOUS
  <2>1. Citable(c.work) /\ c \in Members(e)
    OBVIOUS
  <2>2. PICK d \in e.cites : \E spans : c = [d EXCEPT !.spans = @ \cap spans]
    BY <2>1 DEF Members
  <2>3. IsCite(c) /\ c.work = d.work /\ c.spans \subseteq d.spans
    <3>1. IsCite(d)
      BY <1>2, <2>2 DEF CiteOK
    <3> QED BY <2>2, <3>1 DEF IsCite
  <2>4. CiteOK(d, e, ask.ranked, ask.shown)
    BY <1>2, <2>2
  <2> QED BY <2>1, <2>3, <2>4 DEF CiteOK
<1> HIDE DEF kept
<1>4. IsEnvelope(left) /\ left.cites = kept /\ left.outcome = e.outcome /\ left.recs = e.recs
  BY <1>2 DEF IsEnvelope
<1> HIDE DEF left
<1>5. /\ IsEnvelope(j) /\ j.outcome = e.outcome /\ j.cites = kept /\ j.recs = e.recs
      /\ e.outcome = "llm" =>
           /\ j.prose = "model" /\ ~askCfg.outside => kept # {} /\ ~j.insufficient
           /\ j.category \in {"source_grounded", "corpus_synthesis"} => Grounded(kept)
           /\ j.category = "outside_corpus" => askCfg.outside
  BY <1>4, JudgedIsGrounded
<1> HIDE DEF j
<1>6. /\ ask'.pc = "done" /\ ask'.envelope = j /\ ask'.ranked = ask.ranked /\ ask'.shown = ask.shown
      /\ ask'.graph = ask.graph /\ ask'.profile = ask.profile /\ IsAsk(ask') /\ PromptOK(ask)'
  BY <1>1, PromptStays
<1>7. AskTypeOK'
  BY <1>1, <1>5, <1>6 DEF AskInv, AskTypeOK
<1>8. CitesOK(ask)'
  BY <1>3, <1>5, <1>6 DEF CitesOK, CiteOK
<1>9. CallOK(ask)'
  BY <1>1, <1>5, <1>6 DEF AskInv, CallOK
<1>10. RecsOK(ask)' /\ GapOK'
  BY <1>1, <1>5, <1>6 DEF AskInv, RecsOK, GapOK
<1>11. ProseIsGrounded'
  <2>1. \A w \in CitedWorks' : Citable(w)'
    BY <1>1, <1>3, <1>5, <1>6 DEF CitedWorks, Citable
  <2>2. kept # {} => CitedWorks' # {}
    BY <1>5, <1>6 DEF CitedWorks
  <2>3. Grounded(kept) => Grounded(ask'.envelope.cites)
    BY <1>5, <1>6
  <2> QED BY <1>1, <1>5, <1>6, <2>1, <2>2, <2>3 DEF ProseIsGrounded
<1> QED BY <1>6, <1>7, <1>8, <1>9, <1>10, <1>11 DEF AskInv

-----------------------------------------------------------------------------
(* The theorems. *)

(* What every question keeps: the inductive invariant of answer/.             *)
THEOREM AskInvariant == AskSpec => []AskInv
<1>1. AskInit => AskInv
  BY AskInitOK
<1>2. AskInv /\ [AskNext]_askVars => AskInv'
  <2> SUFFICES ASSUME AskInv, [AskNext]_askVars PROVE AskInv'
    OBVIOUS
  <2>1. CASE AskGap
    BY <2>1, GapKeeps
  <2>2. CASE AskRetrieve
    BY <2>2, RetrieveKeeps
  <2>3. CASE AskFailed
    BY <2>3, FailureKeeps
  <2>4. CASE AskGuard
    BY <2>4, GuardKeeps
  <2>5. CASE \E r \in AskReplies : AskAnswered(r)
    BY <2>5, AnswerKeeps
  <2>6. CASE \E w \in AskWorks, s \in {"included", "excluded"} : SetInclusion(w, s)
    BY <2>6, InclusionKeeps
  <2>7. CASE UNCHANGED askVars
    BY <2>7 DEF askVars, AskInv, AskTypeOK, PromptOK, CallOK, CitesOK, RecsOK, GapOK,
                ProseIsGrounded, Final, CitedWorks, Citable, Unread
  <2> QED BY <2>1, <2>2, <2>3, <2>4, <2>5, <2>6, <2>7 DEF AskNext
<1> QED BY <1>1, <1>2, PTL DEF AskSpec

(* Whatever is excluded during the call and whatever the model answers, the    *)
(* citations, the trace and the recommendations of an answer are what it may   *)
(* show: harness.answer, compose.generate and guard.enforce.                   *)
THEOREM AnswersAreGrounded == AskSpec => []AnswerIsGrounded
BY AskInvariant, InvIsGrounded, PTL

(* No fragment of a restricted class is in a prompt for an external profile    *)
(* unless the policy lets it go: the gate of compose.generate.                 *)
THEOREM FragmentsStayHome == AskSpec => []RestrictedStaysHome
BY AskInvariant, InvStaysHome, PTL

=============================================================================
