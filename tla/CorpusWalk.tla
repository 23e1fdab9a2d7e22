------------------------------- MODULE CorpusWalk -------------------------------
(* The corpus grows along references (acquisition/walk.py), and the cached       *)
(* reference lists become edges without a network (citation/project_edges.py).   *)
(* A paper of the world has ids of several types and mentions other papers by    *)
(* some of theirs, by a title, or by both.  A work of the project has the ids it *)
(* was met with in its columns, and owns those no work had before it.  One       *)
(* program at a time; providers may fail; a walk that dies loses its works and   *)
(* keeps what it cached.                                                         *)
EXTENDS Integers, Sequences, FiniteSets

CONSTANTS Worlds, MaxDepth, PerGenCap, MaxOutages, MaxWalks

VARIABLES world, nodes, refCache, walk, reported, outages, walks
walkVars == <<world, nodes, refCache, walk, reported, outages, walks>>

(* An id is a pair of its type and its value.  The strongest id of a work is the  *)
(* key of its list.                                                              *)
KeyRank == [openalex |-> 1, doi |-> 2, arxiv |-> 3, s2 |-> 4]

(* A paper has an id of each type at most and shares none.  A mention and a seed  *)
(* is some ids of one paper or none, and a title, 0 for none; no two seeds have  *)
(* an id in common.  titles are those of the papers' records.  Works have random *)
(* ids: rank gives their order, by the order in which they were minted.          *)
SomeIds(w, ids) == ids # {} /\ \E p \in DOMAIN w.ids : ids \subseteq w.ids[p]
AMention(w, m) ==
  m = [ids |-> m.ids, title |-> m.title] /\ m.title \in Nat /\ (m.ids = {} \/ SomeIds(w, m.ids))
AList(w, s) == Len(s) \in Nat /\ DOMAIN s = 1..Len(s) /\ \A k \in 1..Len(s) : AMention(w, s[k])
WorldOK(w) ==
  /\ \A p \in DOMAIN w.ids : AList(w, w.mentions[p]) /\ w.titles[p] \in Nat
  /\ \A p \in DOMAIN w.ids : \A x, y \in w.ids[p] : x[1] \in DOMAIN KeyRank /\ (x[1] = y[1] => x = y)
  /\ \A p, q \in DOMAIN w.ids : w.ids[p] \cap w.ids[q] # {} => p = q
  /\ AList(w, w.seeds)
  /\ \A i, j \in DOMAIN w.seeds : w.seeds[i].ids \cap w.seeds[j].ids # {} => i = j
  /\ \A i, j \in DOMAIN w.rank : w.rank[i] = w.rank[j] => i = j
ASSUME WalkAssumption == MaxDepth \in Nat \ {0} /\ PerGenCap \in Nat \ {0} /\ \A w \in Worlds : WorldOK(w)

Papers  == DOMAIN world.ids
PaperOf(ids) == CHOOSE p \in Papers : ids \subseteq world.ids[p]

NoWalk == [pc |-> "idle", todo |-> {}, seen |-> {}, cites |-> {}, done |-> {}, frontiers |-> << >>, before |-> << >>]

WalkStart ==
  /\ nodes = [i \in 1..Len(world.seeds) |->
                [ids |-> world.seeds[i].ids, owns |-> world.seeds[i].ids, title |-> world.seeds[i].title, standing |-> "included"]]
  /\ refCache = {} /\ walk = NoWalk /\ reported = << >> /\ outages = 0 /\ walks = 0
WalkInit == world \in Worlds /\ WalkStart

-----------------------------------------------------------------------------
KeyOf(ids) == CHOOSE x \in ids : \A y \in ids : KeyRank[x[1]] <= KeyRank[y[1]]

IsCached(ids) == ids # {} /\ \E c \in refCache : c.key = KeyOf(ids)
CachedRefs(ids) == IF IsCached(ids) THEN (CHOOSE c \in refCache : c.key = KeyOf(ids)).refs ELSE << >>

(* upsert_work: the one work that owns one of the ids takes them, if it has no    *)
(* other of their types, and what they share is a DOI or an OpenAlex id or the   *)
(* titles are not two; else a new work has them, and owns those that are free.   *)
Owners(works, ids) == {i \in 1..Len(works) : works[i].owns \cap ids # {}}
Free(works, ids) == {x \in ids : Owners(works, {x}) = {}}
Agrees(work, ids) == \A x \in ids, y \in work.ids : x[1] = y[1] => x = y
Strong == {"doi", "openalex"}
SameTitle(a, b) == a.title = 0 \/ b.title = 0 \/ a.title = b.title
Joins(work, m) == Agrees(work, m.ids) /\ ((\E x \in m.ids \cap work.ids : x[1] \in Strong) \/ SameTitle(work, m))

Given(work, m, free) ==
  [ids |-> work.ids \cup m.ids, owns |-> work.owns \cup free,
   title |-> IF work.title = 0 THEN m.title ELSE work.title, standing |-> work.standing]
Minted(m, free) == [ids |-> m.ids, owns |-> free, title |-> m.title, standing |-> "metadata_only"]
UpsertAmong(works, matched, m) ==
  IF \E i \in matched : matched = {i} /\ Joins(works[i], m)
  THEN LET i == CHOOSE j \in matched : TRUE
       IN [works |-> [works EXCEPT ![i] = Given(@, m, Free(works, m.ids))], id |-> i]
  ELSE [works |-> Append(works, Minted(m, Free(works, m.ids))), id |-> Len(works) + 1]

\* (mutant) only the first id of a reference is looked up
UpsertByKey(works, m) == UpsertAmong(works, IF m.ids = {} THEN {} ELSE Owners(works, {KeyOf(m.ids)}), m)

Upsert(works, m) == UpsertAmong(works, Owners(works, m.ids), m)

(* A reference with an OpenAlex id and no DOI gets the DOI and the title of its   *)
(* OpenAlex record, which has no other id, if a provider answers.                *)
HasDoi(ids) == \E x \in ids : x[1] = "doi"
Enriched(m, answers) ==
  IF ~HasDoi(m.ids) /\ answers /\ (\E x \in m.ids : x[1] = "openalex")
  THEN LET p == PaperOf(m.ids)
       IN [ids |-> m.ids \cup {x \in world.ids[p] : x[1] \in Strong},
           title |-> IF m.title = 0 THEN world.titles[p] ELSE m.title]
  ELSE m

(* The works once each reference of a list, in its order, has one; one without an *)
(* id or a title is passed over, and one with a title alone is a new work.       *)
Gather(acc, put) == [works |-> put.works, cited |-> acc.cited \cup {put.id}]
Nameless(m) == m.ids = {} /\ m.title = 0
Taken(acc, m) == IF Nameless(m) THEN acc ELSE Gather(acc, Upsert(acc.works, m))
Expanded(refs, answers) ==
  LET upTo[k \in 0..Len(refs)] ==
        IF k = 0 THEN [works |-> nodes, cited |-> {}] ELSE Taken(upTo[k - 1], Enriched(refs[k], answers))
  IN upTo[Len(refs)]

-----------------------------------------------------------------------------
Included == {i \in 1..Len(nodes) : nodes[i].standing = "included"}

WalkBegin ==
  /\ walk.pc = "idle" /\ walks < MaxWalks
  /\ walks' = walks + 1
  /\ walk' = [pc |-> IF Included = {} THEN "commit" ELSE "expand", todo |-> Included, seen |-> Included,
              cites |-> {}, done |-> {}, frontiers |-> <<Included>>, before |-> nodes]
  /\ UNCHANGED <<world, nodes, refCache, reported, outages>>

RefsOf(ids, listed) ==
  IF IsCached(ids) THEN CachedRefs(ids) ELSE IF listed /\ ids # {} THEN world.mentions[PaperOf(ids)] ELSE << >>

(* One source: its list from the cache or from a provider, which is then cached   *)
(* as it came, while a work that has no id has no list; each reference becomes a *)
(* work, which the source cites once.  Sources are taken in any order.           *)
WalkExpand(source, listed, answers) ==
  /\ walk.pc = "expand" /\ source \in walk.todo
  /\ outages' = outages + (IF listed THEN 0 ELSE 1) + (IF answers THEN 0 ELSE 1)
  /\ outages' <= MaxOutages
  /\ \E ids \in {nodes[source].ids} :
     \E refs \in {RefsOf(ids, listed)} :
     \E got \in {Expanded(refs, answers)} :
        /\ nodes' = got.works
        /\ refCache' = IF ids # {} /\ ~IsCached(ids) /\ listed THEN refCache \cup {[key |-> KeyOf(ids), refs |-> refs]}
                       ELSE refCache
        /\ walk' = [walk EXCEPT !.todo = @ \ {source}, !.done = @ \cup {source},
                                !.cites = @ \cup ({source} \X (got.cited \ {source}))]
  /\ UNCHANGED <<world, reported, walks>>

(* The next generation: the most cited works not seen before, up to the cap, ties *)
(* in the order of the works' ids; all that were cited count as seen.            *)
Cited(cites) == {e[2] : e \in cites}
Count(cites, i) == Cardinality({e \in cites : e[2] = i})
Unseen(cites, seen) == Cited(cites) \ seen
MoreCited(cites, seen, i) ==
  {j \in Unseen(cites, seen) : Count(cites, j) > Count(cites, i) \/ (Count(cites, j) = Count(cites, i) /\ world.rank[j] < world.rank[i])}
Frontier(cites, seen) == {i \in Unseen(cites, seen) : Cardinality(MoreCited(cites, seen, i)) < PerGenCap}

WalkGeneration ==
  /\ walk.pc = "expand" /\ walk.todo = {}
  /\ LET next == Frontier(walk.cites, walk.seen)
         ends == Len(walk.frontiers) = MaxDepth \/ next = {}
     IN walk' = [walk EXCEPT !.frontiers = Append(@, next), !.todo = IF ends THEN {} ELSE next,
                             !.seen = @ \cup Cited(walk.cites), !.cites = {},
                             !.pc = IF ends THEN "commit" ELSE "expand"]
  /\ UNCHANGED <<world, nodes, refCache, reported, outages, walks>>

WalkCommit ==
  /\ walk.pc = "commit"
  /\ walk' = NoWalk /\ reported' = walk.frontiers
  /\ UNCHANGED <<world, nodes, refCache, outages, walks>>

(* The project is one transaction; the cache is committed with every answer.     *)
WalkDies ==
  /\ walk.pc # "idle"
  /\ nodes' = walk.before /\ walk' = NoWalk
  /\ UNCHANGED <<world, refCache, reported, outages, walks>>

(* A cached list outlives its time.                                              *)
CacheExpires(c) ==
  /\ walk.pc = "idle"
  /\ refCache' = refCache \ {c}
  /\ UNCHANGED <<world, nodes, walk, reported, outages, walks>>

WalkStep ==
  WalkBegin \/ WalkGeneration \/ WalkCommit \/ \E source \in walk.todo, listed, answers \in BOOLEAN : WalkExpand(source, listed, answers)

WalkNext == WalkStep \/ WalkDies \/ \E c \in refCache : CacheExpires(c)

WalkSpec == WalkInit /\ [][WalkNext]_walkVars

-----------------------------------------------------------------------------
(* cite project: an edge for each cached reference that is a work, by its ids in  *)
(* order, among the columns of the works.                                        *)
IdRank == [doi |-> 1, openalex |-> 2, arxiv |-> 3, s2 |-> 4]
Target(ids) ==
  LET held == {a \in ids \X (1..Len(nodes)) : a[1] \in nodes[a[2]].ids}
      first(a) == \A b \in held : IdRank[a[1][1]] < IdRank[b[1][1]] \/ (a[1] = b[1] /\ a[2] <= b[2])
  IN IF \E a \in held : first(a) THEN (CHOOSE a \in held : first(a))[2] ELSE 0

ProviderEdges ==
  {e \in (1..Len(nodes)) \X (1..Len(nodes)) :
     \E refs \in {CachedRefs(nodes[e[1]].ids)} : \E k \in 1..Len(refs) : Target(refs[k].ids) = e[2]}

-----------------------------------------------------------------------------
(* A paper is recognisable if some id of it comes with whatever is known of it by *)
(* an id: with each such mention, once enriched, and with the seed; and if that  *)
(* is a DOI or an OpenAlex id, or these give it no two titles.                   *)
Mentioned == UNION {{world.mentions[q][k] : k \in 1..Len(world.mentions[q])} : q \in Papers}
MetAs == {world.seeds[k] : k \in 1..Len(world.seeds)} \cup {Enriched(m, TRUE) : m \in Mentioned}
Names(m, p) == m.ids # {} /\ m.ids \subseteq world.ids[p]
MetOf(p) == {m \in MetAs : Names(m, p)}
OneTitle(p) == \A a, b \in MetOf(p) : SameTitle(a, b)
Tells(x, p) == (\A m \in MetOf(p) : x \in m.ids) /\ (x[1] \in Strong \/ OneTitle(p))
Recognisable(p) == \E x \in world.ids[p] : Tells(x, p)

(* While the providers answer, a recognisable paper becomes one work: cited bare, *)
(* by its DOI, or held already; but for the works that were met by a title alone. *)
OneWorkPerPaper ==
  outages = 0 =>
    \A i, j \in {h \in 1..Len(nodes) : nodes[h].ids # {}} :
      i # j /\ PaperOf(nodes[i].ids) = PaperOf(nodes[j].ids) => ~Recognisable(PaperOf(nodes[i].ids))

(* A walk asks for the references of a work once, however often it is cited and  *)
(* in whatever generations.                                                      *)
ExpandedOnce == walk.pc = "expand" => walk.todo \cap walk.done = {}

(* An edge of the projection is a mention in the world, between works there are, *)
(* though works gained ids after the lists were cached.                          *)
EdgesAreMentions ==
  walk.pc = "idle" =>
    \A e \in ProviderEdges :
      /\ nodes[e[1]].ids # {} /\ nodes[e[2]].ids # {}
      /\ \E k \in 1..Len(world.mentions[PaperOf(nodes[e[1]].ids)]) :
           Names(world.mentions[PaperOf(nodes[e[1]].ids)][k], PaperOf(nodes[e[2]].ids))

(* Once a walk has ended and no provider failed, another adds nothing, finds the  *)
(* same generations and ends where it did, whatever the cache still has and in   *)
(* whatever order the works were asked, if every paper is recognisable and none  *)
(* is mentioned by its title alone.                                              *)
AnotherWalkAddsNone ==
  walk.pc = "commit" /\ outages = 0 /\ reported # << >>
    /\ (\A p \in Papers : Recognisable(p)) /\ (\A m \in Mentioned : m.ids = {} => m.title = 0) =>
    nodes = walk.before /\ walk.frontiers = reported

(* A walk finds each paper once and asks once, another ends where the last one   *)
(* has ended, and their lists project to true edges.                             *)
WalksAgree == OneWorkPerPaper /\ ExpandedOnce /\ EdgesAreMentions /\ AnotherWalkAddsNone

=============================================================================
