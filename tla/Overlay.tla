------------------------------- MODULE Overlay --------------------------------
(* The semantic overlay: concepts folded from the labels of current claims, the *)
(* reviewer's verdicts on proposed merges, the edges between works and concepts,*)
(* the decision log of each build and the view that leaves the project.         *)
(*                                                                            *)
(* A build is a process of its own (concepts build).  It reads the claims, the  *)
(* verdicts and the statuses a reviewer set before its first write, so a        *)
(* verdict given on the review page, or a new note, may fall between that and   *)
(* its DELETE; from there to the commit it holds the write lock.                *)
(*                                                                            *)
(* A label is a number, ordered as the strings are.  What only the spelling of  *)
(* labels decides is given by the corpus: near, the pairs whose tokens overlap  *)
(* enough; acronym, the pairs of a short form and its expansion; versions, the  *)
(* pairs that differ in a version or size token; and the length of each.        *)
EXTENDS Integers, FiniteSets, Sequences, FiniteSetsExt, Functions

CONSTANTS
  Corpora  \* [near, acronym, versions : sets of pairs, length, notes : work -> sequence of sets of
           \*  claims, builds : how many builds start, subsets : how many a model answers a build]

\* Every work has a note, every label of a claim a length.
ASSUME OverlayAssumption ==
  \A c \in Corpora :
    /\ c.length \in Seq(Nat) /\ c.builds \in Nat /\ c.subsets \in Nat
    /\ \A w \in DOMAIN c.notes : /\ 1 \in DOMAIN c.notes[w] /\ DOMAIN c.notes[w] = 1..Len(c.notes[w])
                                 /\ Len(c.notes[w]) \in Nat
                                 /\ \A n \in DOMAIN c.notes[w] : \A r \in c.notes[w][n] : r.label \in DOMAIN c.length

VARIABLES
  corpus,     \* the corpus under study
  note,       \* work -> the number of its latest note
  must, cannot,  \* the pairs a reviewer joined, and held apart (concept_constraints)
  concepts,   \* the rows of concepts with their aliases and claims
  mentions,   \* the edges of the last build: discusses, and co_occurs_with
  asked,      \* the concept_merge_candidate items
  building,   \* what the build in progress has read, or NoBuild
  builds,     \* how many builds started
  logs        \* the decision logs, the latest last

overVars == <<corpus, note, must, cannot, concepts, mentions, asked, building, builds, logs>>

NoBuild == [claims |-> {}, types |-> << >>, must |-> {}, cannot |-> {}, sticky |-> << >>, number |-> 0]
ClaimTypes == <<"claim", "data", "method", "other">>
Generic == {"other", "claim", "background"}
AccessOrder == <<"open_access", "metadata_only", "licensed_future", "user_supplied_private">>
ShareableAccess == {"open_access", "metadata_only"}

-----------------------------------------------------------------------------
(* Labels, and what the claims of the latest notes say of them.                 *)

\* Of the notes of a work only the latest counts; the claims of the others stay in
\* their table and contribute nothing.
CurrentClaims ==
  UNION {{[work |-> w, note |-> note[w], claim |-> c] : c \in corpus.notes[w][note[w]]} :
         w \in DOMAIN corpus.notes}
LabelsOf(claims) == {r.claim.label : r \in claims}
OfLabels(claims, ls) == {r \in claims : r.claim.label \in ls}

\* The most frequent of the types counted by votes, the first of them by name.
MostFrequent(votes) ==
  LET Best == Max({votes[t] : t \in DOMAIN votes})
  IN ClaimTypes[Min({i \in DOMAIN ClaimTypes : votes[ClaimTypes[i]] = Best})]
TypeOfLabel(claims, l) ==
  MostFrequent([t \in Range(ClaimTypes) |->
                  Cardinality({r \in OfLabels(claims, {l}) : r.claim.type = t})])
TypeOfGroup(types, ls) ==
  MostFrequent([t \in Range(ClaimTypes) |-> Cardinality({l \in ls : types[l] = t})])

\* A label whose type says something wins over a generic one, the longest wins
\* among those, then the first by name.
FieldTyped(types, ls) ==
  LET Typed == {l \in ls : types[l] \notin Generic}
      Pool == IF Typed = {} THEN ls ELSE Typed
      Longest == {l \in Pool : \A m \in Pool : corpus.length[m] <= corpus.length[l]}
  IN Min(Longest)

\* A label that carries a reviewer's status keeps its identity.
Canonical(read, ls) ==
  LET Sticky == ls \cap DOMAIN read.sticky
  IN IF Sticky # {} THEN Min(Sticky) ELSE FieldTyped(read.types, ls)

\* The classes of the labels joined by these pairs, directly or through others: that
\* of a label is what every set that holds it and is closed under them has.
ClosedUnder(S, ls, pairs) == \A l \in S, m \in ls : {l, m} \in pairs => m \in S
ClassOf(l, ls, pairs) == {m \in ls : \A S \in SUBSET ls : l \in S /\ ClosedUnder(S, ls, pairs) => m \in S}
Classes(ls, pairs) == {ClassOf(l, ls, pairs) : l \in ls}
PairsOf(ls) == {{l, m} : l, m \in ls} \ {{l} : l \in ls}

-----------------------------------------------------------------------------
(* What a build decides.                                                        *)

SameType(read, p) == \A l, m \in p : read.types[l] = read.types[m]

\* Candidate clusters never span types.
Clusters(read) ==
  LET ls == DOMAIN read.types
  IN Classes(ls, {p \in (corpus.near \cup corpus.acronym) \cap PairsOf(ls) : SameType(read, p)})

\* (mutant) the pairs that overlap are folded as well
OverlapFolds(read) ==
  (UNION {PairsOf(c) : c \in Clusters(read)}) \cap ((corpus.near \cup corpus.acronym) \ read.cannot)
\* Within a cluster an acronym is folded into its expansion, unless held apart.
AcronymFolds(read) ==
  ((UNION {PairsOf(c) : c \in Clusters(read)}) \cap corpus.acronym) \ read.cannot
AcronymSkips(read) ==
  (UNION {PairsOf(c) : c \in Clusters(read)}) \cap corpus.acronym \cap read.cannot

\* (mutant) a merge the reviewer approved is made within a type only
MustFoldsFenced(read) ==
  {p \in (read.must \cap PairsOf(DOMAIN read.types)) \ read.cannot : SameType(read, p)}
\* A pair a reviewer joined is joined whatever its types.
MustFolds(read) == (read.must \cap PairsOf(DOMAIN read.types)) \ read.cannot
MustSkips(read) == read.must \cap PairsOf(DOMAIN read.types) \cap read.cannot

Groups(read) == Classes(DOMAIN read.types, AcronymFolds(read) \cup MustFolds(read))

\* A proposed subset passes when no two of its members differ in a version token
\* and each is near the canonical one, or its acronym.
PassesGuardrails(c, ls) ==
  /\ PairsOf(ls) \cap corpus.versions = {}
  /\ \A l \in ls \ {c} : {l, c} \in corpus.near \cup corpus.acronym

\* What is decided, or folded already, is not asked.
Asks(read, groups, c, l) ==
  /\ {c, l} \notin read.cannot \cup read.must
  /\ ~ \E g \in groups : {c, l} \subseteq g

\* The model is shown the labels of a cluster; whatever subsets it answers are cut
\* to the labels of the corpus, and a pair asked about for one is not asked again.
ItemsFor(read, groups, s) ==
  LET ls == s \cap DOMAIN read.types
      c == Canonical(read, ls)
  IN IF Cardinality(ls) < 2 \/ ~PassesGuardrails(c, ls) THEN {}
     ELSE {[canonical |-> c, member |-> l, build |-> read.number, verdict |-> "open"] :
             l \in {m \in ls \ {c} : Asks(read, groups, c, m)}}
PairOf(i) == {i.canonical, i.member}
NewItems(read, groups, subsets) ==
  UNION {{i \in ItemsFor(read, groups, subsets[n]) :
            \A k \in 1..(n - 1) : \A j \in ItemsFor(read, groups, subsets[k]) : PairOf(j) # PairOf(i)} :
         n \in DOMAIN subsets}

\* The most restrictive class of some claims; one that is not known counts as private.
ResolveAccess(claims) ==
  LET Rank(r) == IF r.claim.access \in Range(AccessOrder)
                 THEN CHOOSE i \in DOMAIN AccessOrder : AccessOrder[i] = r.claim.access
                 ELSE Len(AccessOrder)
  IN IF claims = {} THEN "user_supplied_private" ELSE AccessOrder[Max({Rank(r) : r \in claims})]

\* The row of a group of labels, with its aliases and its claims.
ConceptOf(read, g) ==
  LET c == Canonical(read, g)
      claims == OfLabels(read.claims, g)
  IN [key |-> c, labels |-> g, reviewed |-> {}, type |-> TypeOfGroup(read.types, g), claims |-> claims,
      access |-> ResolveAccess(claims),
      status |-> IF c \in DOMAIN read.sticky THEN read.sticky[c] ELSE "auto"]

WorksOf(c) == {r.work : r \in c.claims}

\* A work discusses a concept when one of its claims does.
Discusses(rows) ==
  {[from |-> cw[2], to |-> cw[1].key, access |-> ResolveAccess({r \in cw[1].claims : r.work = cw[2]})] :
     cw \in {x \in rows \X DOMAIN corpus.notes : x[2] \in WorksOf(x[1])}}
\* Two concepts occur together when two works mention both.
CoOccurs(rows) ==
  {[from |-> cd[1].key, to |-> cd[2].key, access |-> ResolveAccess(cd[1].claims \cup cd[2].claims)] :
     cd \in {x \in rows \X rows : /\ x[1].key < x[2].key
                                  /\ Cardinality(WorksOf(x[1]) \cap WorksOf(x[2])) >= 2}}

\* The corpus a log was written over is identified by its typed labels.
SetHash(types) == {<<types[l], l>> : l \in DOMAIN types}
DecisionLog(read) ==
  [hash |-> SetHash(read.types), folds |-> AcronymFolds(read), skips |-> AcronymSkips(read),
   mustApplied |-> MustFolds(read), mustSkipped |-> MustSkips(read)]

-----------------------------------------------------------------------------
OverStart ==
  /\ note = [w \in DOMAIN corpus.notes |-> 1]
  /\ must = {} /\ cannot = {} /\ concepts = {} /\ mentions = {} /\ asked = {}
  /\ building = NoBuild /\ builds = 0 /\ logs = << >>
OverInit == corpus \in Corpora /\ OverStart

\* The statuses a reviewer set, by label.
Statuses(rows) ==
  LET Set == {c \in rows : c.status # "auto"}
  IN [l \in {c.key : c \in Set} |-> (CHOOSE c \in Set : c.key = l).status]

\* A build reads the claims, the verdicts and the statuses.
BuildReads ==
  /\ building = NoBuild /\ builds < corpus.builds
  /\ builds' = builds + 1
  /\ building' = [claims |-> CurrentClaims,
                  types |-> [l \in LabelsOf(CurrentClaims) |-> TypeOfLabel(CurrentClaims, l)], must |-> must,
                  cannot |-> cannot, sticky |-> Statuses(concepts), number |-> builds + 1]
  /\ UNCHANGED <<corpus, note, must, cannot, concepts, mentions, asked, logs>>

\* Without a label the build ends there, and what the last one wrote stays.
BuildIsEmpty ==
  /\ building # NoBuild /\ building.claims = {}
  /\ building' = NoBuild
  /\ UNCHANGED <<corpus, note, must, cannot, concepts, mentions, asked, builds, logs>>

\* Otherwise it replaces the overlay, asks the reviewer about the subsets the
\* model answered, and logs its decisions, in one transaction.
BuildWrites(subsets) ==
  /\ building # NoBuild /\ building.claims # {}
  /\ LET groups == Groups(building)
         rows == {ConceptOf(building, g) : g \in groups}
     IN /\ concepts' = rows
        /\ mentions' = Discusses(rows) \cup CoOccurs(rows)
        /\ asked' = asked \cup NewItems(building, groups, subsets)
  /\ logs' = Append(logs, DecisionLog(building))
  /\ building' = NoBuild
  /\ UNCHANGED <<corpus, note, must, cannot, builds>>

\* What a model may answer about the clusters it is shown.
Answerable(read) ==
  IF \A c \in Clusters(read) : Cardinality(c) < 2 THEN {<< >>}
  ELSE UNION {[1..n -> {t \in SUBSET DOMAIN read.types : Cardinality(t) > 1}] : n \in 0..corpus.subsets}

\* A verdict is given once.  An approval joins the pair, adds the alias and
\* confirms the canonical concept; the alias needs the row of that concept, so
\* when a build has removed it the approval fails and the item stays open.
ApproveMerge(i) ==
  /\ i \in asked /\ i.verdict = "open"
  /\ \E c \in concepts : c.key = i.canonical
  /\ must' = must \cup {PairOf(i)}
  /\ concepts' = {IF c.key = i.canonical
                  THEN [c EXCEPT !.reviewed = @ \cup {i.member}, !.status = "user_confirmed"]
                  ELSE c : c \in concepts}
  /\ asked' = (asked \ {i}) \cup {[i EXCEPT !.verdict = "approved"]}
  /\ UNCHANGED <<corpus, note, cannot, mentions, building, builds, logs>>

\* Any other action holds the pair apart and marks both concepts as split.
HoldApart(i) ==
  /\ i \in asked /\ i.verdict = "open"
  /\ cannot' = cannot \cup {PairOf(i)}
  /\ concepts' = {IF c.key \in PairOf(i) THEN [c EXCEPT !.status = "user_split"] ELSE c :
                    c \in concepts}
  /\ asked' = (asked \ {i}) \cup {[i EXCEPT !.verdict = "apart"]}
  /\ UNCHANGED <<corpus, note, must, mentions, building, builds, logs>>

\* A work is extracted again: its claims are those of the new note.
ExtractAgain(w) ==
  /\ note[w] < Len(corpus.notes[w])
  /\ note' = [note EXCEPT ![w] = @ + 1]
  /\ UNCHANGED <<corpus, must, cannot, concepts, mentions, asked, building, builds, logs>>

OverNext ==
  \/ BuildReads \/ BuildIsEmpty
  \/ \E s \in Answerable(building) : BuildWrites(s)
  \/ \E i \in asked : ApproveMerge(i) \/ HoldApart(i)
  \/ \E w \in DOMAIN note : ExtractAgain(w)

OverSpec == OverInit /\ [][OverNext]_overVars

-----------------------------------------------------------------------------
(* What the export lets out of the project.                                     *)
PublicConcepts == {c \in concepts : c.access \in ShareableAccess}
\* With a concept go all its aliases: the labels the build folded, and those a
\* reviewer joined since, whatever the class of their claims.
ShownLabels(c) == c.labels \cup c.reviewed
PublicMentions ==
  {e \in mentions : /\ e.access \in ShareableAccess
                    /\ e.to \in {c.key : c \in PublicConcepts}
                    /\ e.from \in DOMAIN note \cup {c.key : c \in PublicConcepts}}

-----------------------------------------------------------------------------
(* Properties.                                                                  *)

Together(rows, p) == \E c \in rows : p \subseteq c.labels
Sticky(rows) == {c \in rows : c.status # "auto"}

\* Labels that merely look alike are never folded: of the labels of a concept each
\* is, for at least one other, an acronym of the same type or joined to it by a
\* reviewer.  The automatic tier of the build, which must split where it doubts.
OnlyCausedFolds ==
  \A c \in concepts : Cardinality(c.labels) > 1 =>
    \A l \in c.labels : \E m \in c.labels \ {l} : {l, m} \in corpus.acronym \cup must

\* A merge a reviewer approved, once a build has made it, is made by every later
\* build that read both labels, whatever types later notes give them, unless the
\* reviewer has also held them apart.  No flip across builds.
ApprovedStayFolded ==
  concepts' # concepts /\ building' = NoBuild /\ building # NoBuild =>
    \A p \in must \ cannot :
      Together(concepts, p) /\ p \in building.must /\ p \subseteq DOMAIN building.types =>
        Together(concepts', p)

\* A rebuild keeps what a reviewer set: a label whose concept carried a status when
\* the build read it, and still does when the build writes, ends in a concept that
\* carries one, while its claims are current.
StatusesSurvive ==
  building # NoBuild /\ building' = NoBuild /\ building.claims # {} =>
    \A c \in Sticky(concepts) :
      c.key \in DOMAIN building.sticky \cap DOMAIN building.types =>
        \E d \in Sticky(concepts') : c.key \in d.labels

\* A reviewer is not asked again: a build that started after a verdict on a pair
\* opens no item for it, and none for labels it has itself put together.
DecidedIsNotAsked ==
  \A i \in asked' \ asked : i.verdict = "open" =>
    /\ PairOf(i) \notin building.must \cup building.cannot
    /\ ~Together(concepts', PairOf(i))
    /\ PairOf(i) \notin corpus.versions

\* The public view shows no mention that a private claim stands behind, and one kind
\* of label only: the alias a reviewer joined to an open concept since the last build,
\* whose class the approval does not look at and the next build does.  No claim of any
\* row lets out a folded label: a concept of several classes takes the strictest.
PublicIsCovered ==
  /\ \A c \in PublicConcepts, d \in concepts : \A r \in d.claims :
       r.claim.label \in ShownLabels(c) =>
         \/ r.claim.access \in ShareableAccess
         \/ r.claim.label \notin c.labels /\ {c.key, r.claim.label} \in must
  /\ \A e \in PublicMentions : \A c \in concepts :
       c.key = e.to => \A r \in c.claims : r.work = e.from => r.claim.access \in ShareableAccess

\* Two logs over the same set of labels weighed the same acronym pairs and the same
\* joined pairs: what differs between them is a verdict or the model's answer, never
\* the deterministic tier.
SameSetSameCandidates ==
  \A i, j \in DOMAIN logs : i < j /\ logs[i].hash = logs[j].hash =>
    /\ logs[i].folds \cup logs[i].skips = logs[j].folds \cup logs[j].skips
    /\ logs[i].mustApplied \cup logs[i].mustSkipped \subseteq logs[j].mustApplied \cup logs[j].mustSkipped

\* A pair is both joined and held apart only where two builds asked about it and the
\* reviewer answered each in another way: one item takes one verdict.
ContradictionTakesTwoItems ==
  \A p \in must \cap cannot : \E i, j \in asked :
    /\ PairOf(i) = p /\ PairOf(j) = p
    /\ i.verdict = "approved" /\ j.verdict = "apart" /\ i.build # j.build

\* Every fold, public label, candidate and contradiction of the overlay can be
\* accounted for by an acronym, a claim or a verdict.
OverlayIsAccountable ==
  OnlyCausedFolds /\ PublicIsCovered /\ SameSetSameCandidates /\ ContradictionTakesTwoItems

\* What a person decided lasts: merges, statuses, and pairs that were answered.
DecisionsLast == [][ApprovedStayFolded /\ StatusesSurvive /\ DecidedIsNotAsked]_overVars
=============================================================================
