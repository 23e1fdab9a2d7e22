----------------------------- MODULE WorkIdentity -----------------------------
(***************************************************************************)
(* Which records are the same work (project/identity.py), and how a        *)
(* reviewer settles the doubtful cases (project/review.py, merge.py).      *)
(*                                                                         *)
(* Four jobs write works and identifiers: the upsert of an incoming record *)
(* (add_work, the citation walk, the bibliography parser), the read-repair *)
(* of missing titles, the resolution of title-only works, and the metadata *)
(* backfill after a conversion.  Each looks first and writes later: the    *)
(* reads run outside SQLite's write transaction, and three of the jobs     *)
(* wait for a provider or a model in between, while the ORM keeps the rows *)
(* it has seen.  A reviewer resolves items at any time.                    *)
(*                                                                         *)
(* An identifier is a pair <<type, value>>.  "arxiv" stands for every weak *)
(* type.  The DOI arXiv mints for paper x is <<"10.48550", x>>.  Titles    *)
(* are equal when their hashes are.                                        *)
(***************************************************************************)
EXTENDS Integers, Sequences, FiniteSets

CONSTANTS
  Clients,      \* processes and threads that run jobs
  Incoming,     \* records that reach upsert_work
  Candidates,   \* records a provider returns for a title
  Metadata,     \* what a converted paper says of itself
  Dois, OpenAlexes, Arxivs, Titles,
  NoId, NoTitle,
  MaxWorks,     \* bound: works ever minted
  MaxItems,     \* bound: review items ever enqueued
  MaxCites,     \* bound: citation edges at a time
  Standings,    \* the memberships add_work and the walk ask for in this instance
  Jobs,         \* which jobs and neighbours run in it
  Overlap       \* may others act while a job is between look and write

Types   == {"doi", "openalex", "arxiv"}
Strong  == {"doi", "openalex"}
AllJobs == {"upsert", "titles", "resolve", "biblio", "acquire", "cite"}
Names   == 1..MaxWorks
Value   == [doi |-> Dois \cup ({"10.48550"} \X Arxivs), openalex |-> OpenAlexes, arxiv |-> Arxivs]
Ids     == UNION {{t} \X Value[t] : t \in Types}
Scalars == {s \in [Types -> (UNION {Value[t] : t \in Types}) \cup {NoId}] :
              \A t \in Types : s[t] \in Value[t] \cup {NoId}}
Work    == [ids : Scalars, title : Titles \cup {NoTitle}]

ASSUME RecordsAssumption ==
  /\ Incoming \subseteq {r \in Work : r.title # NoTitle \/ \E t \in Types : r.ids[t] # NoId}
  /\ Candidates \subseteq Work
  /\ Metadata \subseteq {r \in Work : r.ids["openalex"] = NoId}
ASSUME NothingAssumption == NoTitle \notin Titles /\ NoId \notin UNION {Value[t] : t \in Types}
ASSUME BoundsAssumption == MaxWorks \in Nat \ {0} /\ MaxItems \in Nat /\ MaxCites \in Nat
ASSUME InstanceAssumption ==
  Jobs \subseteq AllJobs /\ Standings \subseteq {"included", "metadata_only"} /\ Overlap \in BOOLEAN

VARIABLES
  works,    \* rows of works, by name
  minted,   \* how many names were ever given out
  owner,    \* rows of identifiers: UNIQUE(id_type, id_value)
  member,   \* rows of project_documents
  file,     \* which works have a work_source_files row
  cites,    \* rows of citation_edges
  queue,    \* rows of review_queue, oldest first
  look,     \* what each client's job has read
  became    \* history: the work each name was merged into

tables == <<works, minted, owner, member, file, cites, queue>>
vars   == <<tables, look, became>>

Item == [target : Names, first : 0..MaxWorks, against : SUBSET Names,
         action : {"open", "merge", "exclude", "reject"}]
Idle == [job |-> "idle"]
Job  == {Idle}
        \cup [job : {"upsert"}, record : Work, status : {"included", "metadata_only"},
              plan : {"create", "merge", "demote"},
              first : 0..MaxWorks, against : SUBSET Names, seen : Work]
        \cup [job : {"titles", "resolve"}, work : Names, seen : Work]
        \cup [job : {"biblio"}, work : Names, force : BOOLEAN]

TypeOK ==
  /\ DOMAIN works \subseteq 1..minted /\ \A w \in DOMAIN works : works[w] \in Work
  /\ minted \in 0..MaxWorks
  /\ DOMAIN owner \subseteq Ids /\ \A i \in DOMAIN owner : owner[i] \in DOMAIN works
  /\ member \in [Names -> {"none", "metadata_only", "included", "excluded"}]
  /\ file \subseteq DOMAIN works
  /\ cites \subseteq (DOMAIN works) \X (DOMAIN works)
  /\ queue \in Seq(Item) /\ Len(queue) <= MaxItems
  /\ look \in [Clients -> Job]
  /\ became \in [Names -> Names]

Init ==
  /\ works = <<>>
  /\ minted = 0
  /\ owner = <<>>
  /\ member = [w \in Names |-> "none"]
  /\ file = {}
  /\ cites = {}
  /\ queue = <<>>
  /\ look = [c \in Clients |-> Idle]
  /\ became = [w \in Names |-> w]

-----------------------------------------------------------------------------
(* Records and what the tables say of them *)

\* The strong ids of a record: arXiv's DOI for a paper is that paper's arXiv id,
\* unless the record names an arXiv id of its own.
StrongIds(r) ==
  IF r.ids["doi"] \in {"10.48550"} \X Arxivs
  THEN [r.ids EXCEPT !["doi"] = NoId,
                     !["arxiv"] = IF @ = NoId THEN r.ids["doi"][2] ELSE @]
  ELSE r.ids

Pairs(ids) == {i \in Ids : ids[i[1]] = i[2]}

Rank == [doi |-> 1, openalex |-> 2, arxiv |-> 3]

\* The works that own any of these ids, and the one that owns the foremost.
Owners(ids) == {owner[i] : i \in Pairs(ids) \cap DOMAIN owner}
Foremost(ids) ==
  LET matched == Pairs(ids) \cap DOMAIN owner
  IN owner[CHOOSE i \in matched : \A k \in matched : Rank[i[1]] <= Rank[k[1]]]

\* What a work owns for a type: its column, else one of its identifier rows.
Owned(w, t) ==
  LET rows == {i \in DOMAIN owner : i[1] = t /\ owner[i] = w}
  IN IF works[w].ids[t] # NoId \/ rows = {} THEN works[w].ids[t]
     ELSE (CHOOSE i \in rows : TRUE)[2]

\* (mutant) only weak ids are compared
ContradictsWeakly(w, ids) ==
  \E t \in Types \ Strong : ids[t] # NoId /\ Owned(w, t) \notin {NoId, ids[t]}
Contradicts(w, ids) == \E t \in Types : ids[t] # NoId /\ Owned(w, t) \notin {NoId, ids[t]}

\* Only weak ids agree and the titles do not.
WeakMatch(w, r) ==
  /\ \A t \in Strong : StrongIds(r)[t] = NoId \/ Owned(w, t) # StrongIds(r)[t]
  /\ r.title # NoTitle /\ works[w].title # NoTitle /\ r.title # works[w].title

\* (mutant) the incoming record wins
BackfillOverwriting(now, seen, r) ==
  LET ids == StrongIds(r)
  IN [ids |-> [t \in Types |-> IF ids[t] # NoId THEN ids[t] ELSE now.ids[t]],
      title |-> IF r.title # NoTitle THEN r.title ELSE now.title]
\* Fill what the job saw empty; what it saw filled it does not write.
Backfill(now, seen, r) ==
  LET ids == StrongIds(r)
  IN [ids |-> [t \in Types |-> IF seen.ids[t] = NoId /\ ids[t] # NoId THEN ids[t] ELSE now.ids[t]],
      title |-> IF seen.title = NoTitle /\ r.title # NoTitle THEN r.title ELSE now.title]

\* Only identifiers nobody owns are inserted.
AttachUnclaimed(w, ids) ==
  [i \in DOMAIN owner \cup Pairs(ids) |-> IF i \in DOMAIN owner THEN owner[i] ELSE w]

Enqueue(items) ==
  /\ Len(queue) + Len(items) <= MaxItems
  /\ queue' = queue \o items

Asks(target, first, against) ==
  <<[target |-> target, first |-> first, against |-> against, action |-> "open"]>>

Alone == Overlap \/ \A c \in Clients : look[c] = Idle
Start(c, job) == look[c] = Idle /\ Alone /\ job \in Jobs
Done(c) == look' = [look EXCEPT ![c] = Idle] /\ UNCHANGED became

-----------------------------------------------------------------------------
(* upsert_work, with the membership its caller writes *)

Nothing == [ids |-> [t \in Types |-> NoId], title |-> NoTitle]

\* The outcome: nobody owns an id of the record, one work does and can be the
\* same, or the record must be kept apart for a reviewer.
Decision(r) ==
  LET ids == StrongIds(r)
      found == Owners(ids)
      w == Foremost(ids)
  IN IF found = {} THEN [plan |-> "create", first |-> 0, against |-> {}, seen |-> Nothing]
     ELSE IF Cardinality(found) > 1 \/ Contradicts(w, ids) \/ WeakMatch(w, r)
     THEN [plan |-> "demote", first |-> w, against |-> found, seen |-> Nothing]
     ELSE [plan |-> "merge", first |-> w, against |-> found, seen |-> works[w]]

Look(c, r, status) ==
  /\ Start(c, "upsert")
  /\ LET d == Decision(r)
     IN look' = [look EXCEPT ![c] = [job |-> "upsert", record |-> r, status |-> status,
                   plan |-> d.plan, first |-> d.first, against |-> d.against, seen |-> d.seen]]
  /\ UNCHANGED <<tables, became>>

\* A new row mirrors every id of the record, those another work owns included.
Mint(r) ==
  /\ minted < MaxWorks
  /\ minted' = minted + 1
  /\ works' = [w \in DOMAIN works \cup {minted + 1} |->
                IF w = minted + 1 THEN [ids |-> StrongIds(r), title |-> r.title] ELSE works[w]]
  /\ owner' = AttachUnclaimed(minted + 1, StrongIds(r))

Twins(title) == {w \in DOMAIN works : title # NoTitle /\ works[w].title = title}
Oldest(set) == IF set = {} THEN 0 ELSE CHOOSE w \in set : \A v \in set : w <= v

Create(r) ==
  /\ Mint(r)
  /\ LET twins == Twins(r.title)
     IN IF twins = {} THEN UNCHANGED queue
        ELSE Enqueue(Asks(minted + 1, Oldest(twins), twins))

\* (mutant) kept apart, but no reviewer is asked
DemoteQuietly(r, first, against) == Mint(r) /\ UNCHANGED queue
Demote(r, first, against) == Mint(r) /\ Enqueue(Asks(minted + 1, first, against))

Fold(w, r, seen) ==
  /\ w \in DOMAIN works
  /\ works' = [works EXCEPT ![w] = Backfill(@, seen, r)]
  /\ owner' = AttachUnclaimed(w, StrongIds(r))
  /\ UNCHANGED <<minted, queue>>

\* add_work sets the status it was given; the walk only adds a missing row.
Enrol(w, status) ==
  member' = [member EXCEPT ![w] = IF status = "included" \/ @ = "none" THEN status ELSE @]

Upsert(d, r, seen) ==
  \/ d.plan = "create" /\ Create(r)
  \/ d.plan = "demote" /\ Demote(r, d.first, d.against)
  \/ d.plan = "merge" /\ Fold(d.first, r, seen)

Store(c) ==
  LET j == look[c]
  IN /\ j.job = "upsert"
     /\ Upsert(j, j.record, j.seen)
     /\ Enrol(IF j.plan = "merge" THEN j.first ELSE minted + 1, j.status)
     /\ Done(c)
     /\ UNCHANGED <<file, cites>>

\* The row a job wants to write was merged away: the transaction rolls back.
RollBack(c) ==
  LET j == look[c]
  IN /\ \/ j.job = "upsert" /\ j.plan = "merge" /\ j.first \notin DOMAIN works
        \/ j.job = "resolve" /\ j.work \notin DOMAIN works
     /\ Done(c)
     /\ UNCHANGED tables

-----------------------------------------------------------------------------
(* backfill_titles: one work of the batch, then the fold of what came back *)

\* Untitled and the owner of its own OpenAlex row, not only its mirror.
TitlesSelect(c, w) ==
  /\ Start(c, "titles")
  /\ w \in DOMAIN works
  /\ works[w].title = NoTitle
  /\ <<"openalex", works[w].ids["openalex"]>> \in DOMAIN owner
  /\ owner[<<"openalex", works[w].ids["openalex"]>>] = w
  /\ look' = [look EXCEPT ![c] = [job |-> "titles", work |-> w, seen |-> works[w]]]
  /\ UNCHANGED <<tables, became>>

\* The fold carries the OpenAlex id and the title, never the record's DOI.
Titled(o, title) ==
  [ids |-> [Nothing.ids EXCEPT !["openalex"] = o], title |-> title]

TitlesFold(c, title) ==
  LET j == look[c]
      r == Titled(j.seen.ids["openalex"], title)
      d == Decision(r)
  IN /\ j.job = "titles"
     /\ Upsert(d, r, IF d.first = j.work THEN j.seen ELSE d.seen)
     /\ Done(c)
     /\ UNCHANGED <<member, file, cites>>

TitlesMiss(c) == look[c].job = "titles" /\ Done(c) /\ UNCHANGED tables

-----------------------------------------------------------------------------
(* resolve_corpus: a title-only work asks the providers for its ids *)

ResolveSelect(c, w) ==
  /\ Start(c, "resolve")
  /\ w \in DOMAIN works
  /\ works[w].ids = Nothing.ids /\ works[w].title # NoTitle
  /\ member[w] \in {"included", "metadata_only"}
  /\ look' = [look EXCEPT ![c] = [job |-> "resolve", work |-> w, seen |-> works[w]]]
  /\ UNCHANGED <<tables, became>>

\* A close title: take the candidate's ids that nobody owns.
ResolveAttach(c, cand) ==
  LET j == look[c]
      free == Pairs(StrongIds(cand)) \ DOMAIN owner
  IN /\ j.job = "resolve" /\ j.work \in DOMAIN works
     /\ works' = [works EXCEPT ![j.work].ids =
                    [t \in Types |-> IF \E i \in free : i[1] = t THEN StrongIds(cand)[t] ELSE @[t]]]
     /\ owner' = [i \in DOMAIN owner \cup free |-> IF i \in free THEN j.work ELSE owner[i]]
     /\ Done(c)
     /\ UNCHANGED <<minted, member, file, cites, queue>>

\* A middling title: an item without a counterpart.
ResolveAsk(c) ==
  /\ look[c].job = "resolve"
  /\ Enqueue(Asks(look[c].work, 0, {}))
  /\ Done(c)
  /\ UNCHANGED <<works, minted, owner, member, file, cites>>

ResolveMiss(c) == look[c].job = "resolve" /\ Done(c) /\ UNCHANGED tables

-----------------------------------------------------------------------------
(* update_work_bibliography, after a conversion *)

FilenameTitled(w) == works[w].ids = Nothing.ids

BiblioSelect(c, w, force) ==
  /\ Start(c, "biblio")
  /\ w \in file
  /\ force \/ FilenameTitled(w)
  /\ look' = [look EXCEPT ![c] = [job |-> "biblio", work |-> w, force |-> force]]
  /\ UNCHANGED <<tables, became>>

\* What becomes of one extracted id: it is the work's already, contradicts it,
\* belongs to another work, or is attached.
Disputes(w, t, v) ==
  IF v = NoId \/ Owned(w, t) = v THEN <<>>
  ELSE IF Owned(w, t) # NoId THEN Asks(w, w, {w})
  ELSE IF <<t, v>> \in DOMAIN owner THEN Asks(w, owner[<<t, v>>], {owner[<<t, v>>]})
  ELSE <<>>
Attaches(w, t, v) == v # NoId /\ Owned(w, t) = NoId /\ <<t, v>> \notin DOMAIN owner

BiblioApply(c, meta) ==
  LET j == look[c]
      w == j.work
      new == {t \in Types : Attaches(w, t, meta.ids[t])}
  IN /\ j.job = "biblio" /\ w \in DOMAIN works
     /\ works' = [works EXCEPT ![w] =
                   [ids |-> [t \in Types |-> IF t \in new THEN meta.ids[t] ELSE @.ids[t]],
                    title |-> IF meta.title # NoTitle /\ (j.force \/ FilenameTitled(w))
                              THEN meta.title ELSE @.title]]
     /\ owner' = [i \in DOMAIN owner \cup {<<t, meta.ids[t]>> : t \in new} |->
                    IF i \in DOMAIN owner THEN owner[i] ELSE w]
     /\ Enqueue(Disputes(w, "doi", meta.ids["doi"]) \o Disputes(w, "arxiv", meta.ids["arxiv"]))
     /\ Done(c)
     /\ UNCHANGED <<minted, member, file, cites>>

BiblioGone(c) == look[c].job = "biblio" /\ look[c].work \notin DOMAIN works /\ Done(c) /\ UNCHANGED tables

-----------------------------------------------------------------------------
(* Neighbours that hang their rows on works *)

Acquire(w) ==
  /\ Alone /\ "acquire" \in Jobs /\ w \in DOMAIN works \ file
  /\ file' = file \cup {w}
  /\ member' = [member EXCEPT ![w] = IF @ = "metadata_only" THEN "included" ELSE @]
  /\ UNCHANGED <<works, minted, owner, cites, queue, look, became>>

Cite(v, w) ==
  /\ Alone /\ "cite" \in Jobs
  /\ v \in DOMAIN works /\ w \in DOMAIN works /\ v # w
  /\ Cardinality(cites) < MaxCites
  /\ cites' = cites \cup {<<v, w>>}
  /\ UNCHANGED <<works, minted, owner, member, file, queue, look, became>>

-----------------------------------------------------------------------------
(* resolve and merge_works *)

Open(i) == i \in DOMAIN queue /\ queue[i].action = "open"

\* (mutant) the citations of the victim are lost
MergeWorksDroppingCites(s, v) ==
  LET Now(w) == IF w = v THEN s ELSE w
  IN /\ works' = [w \in DOMAIN works \ {v} |->
                    IF w = s THEN Backfill(works[s], works[s], works[v]) ELSE works[w]]
     /\ owner' = [i \in DOMAIN owner |-> Now(owner[i])]
     /\ cites' = {e \in cites : v \notin {e[1], e[2]}}
     /\ file' = {Now(w) : w \in file}
     /\ member' = [member EXCEPT ![v] = "none"]
     /\ became' = [w \in Names |-> Now(became[w])]

\* Ids and titles fold into empty columns; every row of the victim moves.
MergeWorks(s, v) ==
  LET Now(w) == IF w = v THEN s ELSE w
  IN /\ works' = [w \in DOMAIN works \ {v} |->
                    IF w = s THEN Backfill(works[s], works[s], works[v]) ELSE works[w]]
     /\ owner' = [i \in DOMAIN owner |-> Now(owner[i])]
     /\ cites' = {e \in {<<Now(e[1]), Now(e[2])>> : e \in cites} : e[1] # e[2]}
     /\ file' = {Now(w) : w \in file}
     /\ member' = [member EXCEPT
          ![v] = "none",
          ![s] = IF @ = "none" THEN member[v]
                 ELSE IF @ = "metadata_only" /\ member[v] = "included" THEN "included" ELSE @]
     /\ became' = [w \in Names |-> Now(became[w])]

\* (mutant) open items keep pointing at the victim
RetargetedNothing(s, v) == queue
Retargeted(s, v) ==
  [i \in DOMAIN queue |-> IF Open(i) /\ queue[i].target = v
                          THEN [queue[i] EXCEPT !.target = s] ELSE queue[i]]

\* The survivor is the foremost of the item's works, or the one the reviewer
\* names; a pair of which one is gone is refused.
ResolveMerge(i, survivor) ==
  /\ Alone /\ Open(i)
  /\ survivor \in queue[i].against \cup {queue[i].target} /\ queue[i].against # {}
  /\ LET victim == IF survivor = queue[i].target THEN queue[i].first ELSE queue[i].target
     IN /\ {survivor, victim} \subseteq DOMAIN works
        /\ IF survivor = victim
           THEN /\ queue' = [queue EXCEPT ![i].action = "merge"]
                /\ UNCHANGED <<works, owner, member, file, cites, became>>
           ELSE /\ MergeWorks(survivor, victim)
                /\ queue' = [Retargeted(survivor, victim) EXCEPT ![i].action = "merge"]
  /\ UNCHANGED <<minted, look>>

ResolveExclude(i) ==
  /\ Alone /\ Open(i) /\ queue[i].target \in DOMAIN works
  /\ member' = [member EXCEPT ![queue[i].target] = "excluded"]
  /\ queue' = [queue EXCEPT ![i].action = "exclude"]
  /\ UNCHANGED <<works, minted, owner, file, cites, look, became>>

ResolveReject(i) ==
  /\ Alone /\ Open(i)
  /\ queue' = [queue EXCEPT ![i].action = "reject"]
  /\ UNCHANGED <<works, minted, owner, member, file, cites, look, became>>

-----------------------------------------------------------------------------
JobStep(c) ==
  \/ \E r \in Incoming, status \in Standings : Look(c, r, status)
  \/ Store(c) \/ RollBack(c)
  \/ \E w \in Names : TitlesSelect(c, w) \/ ResolveSelect(c, w)
  \/ \E title \in Titles : TitlesFold(c, title)
  \/ \E cand \in Candidates : ResolveAttach(c, cand)
  \/ TitlesMiss(c) \/ ResolveAsk(c) \/ ResolveMiss(c)
  \/ \E w \in Names, force \in BOOLEAN : BiblioSelect(c, w, force)
  \/ \E meta \in Metadata : BiblioApply(c, meta)
  \/ BiblioGone(c)

ReviewStep ==
  \E i \in 1..MaxItems :
     \/ \E survivor \in Names : ResolveMerge(i, survivor)
     \/ ResolveExclude(i) \/ ResolveReject(i)

Next ==
  \/ \E c \in Clients : JobStep(c)
  \/ \E v, w \in Names : Acquire(w) \/ Cite(v, w)
  \/ ReviewStep

Spec == Init /\ [][Next]_vars

-----------------------------------------------------------------------------
(* Properties *)

\* Two works whose rows carry the same identifier have been brought to a
\* reviewer: a chain of review items leads from one to the other.  Closed sets
\* of works are those no item leads out of.  (upsert_work: a record that meets
\* several works is kept apart and queued, never merged silently.)
Carries(w) == Pairs(works[w].ids) \cup {i \in DOMAIN owner : owner[i] = w}
Linked(v, w) ==
  \E i \in DOMAIN queue : \E x \in queue[i].against :
     {v, w} = {became[queue[i].target], became[x]}
SharedIdIsReviewed ==
  \A group \in SUBSET DOMAIN works :
    (\A v \in group, w \in DOMAIN works \ group : ~Linked(v, w)) =>
      \A v \in group, w \in DOMAIN works \ group : Carries(v) \cap Carries(w) = {}

\* A work has two identifiers of one type only after a reviewer merged two
\* works into it: no job, alone, takes two papers for one.
TwoIdsOnlyByReview ==
  \A i, k \in DOMAIN owner :
    owner[i] = owner[k] /\ i[1] = k[1] /\ i # k =>
      \E w \in Names \ {owner[i]} : became[w] = owner[i]

\* An open item never points at a work that was merged away; a foreign key
\* cannot see this, the table is polymorphic (doctor's work_refs_reconcile).
\* Only an item without a counterpart may: resolve_corpus writes it of a work it
\* has read before it asked the providers.
OpenItemsTargetWorks ==
  \A i \in DOMAIN queue :
    Open(i) /\ queue[i].target \notin DOMAIN works => Overlap /\ queue[i].against = {}

\* No row dangles: the tables are typed, which is their foreign keys, and the
\* open items, which no foreign key watches, name works.
NoRowDangles == TypeOK /\ OpenItemsTargetWorks

\* A merge keeps what either work had and moves it to the survivor: identifiers,
\* citations between other works, the source file, and a place in the corpus
\* nobody excluded it from.  Nothing else moves an identifier.
MergeKeepsRows ==
  [][/\ \A i \in DOMAIN owner : i \in DOMAIN owner' /\ owner'[i] = became'[owner[i]]
     /\ \A e \in cites : became'[e[1]] # became'[e[2]] =>
          <<became'[e[1]], became'[e[2]]>> \in cites'
     /\ \A w \in file : became'[w] \in file'
     /\ \A w \in DOMAIN works : member[w] = "included" /\ w \notin DOMAIN works' =>
          member'[became'[w]] \in {"included", "excluded"}]_vars

\* "A merge never overwrites a value already present" (identity.backfill): an
\* id column, once set, keeps its value as long as the work exists.
KeepsColumns ==
  \A w \in DOMAIN works \cap DOMAIN works' : \A t \in Types :
    works[w].ids[t] # NoId => works'[w].ids[t] = works[w].ids[t]

\* Title repair titles the work it selected, so that no later pass selects it
\* again, and does nothing else: "a read-repair pass must never mint duplicate
\* works or review items just to fill a title" (backfill_titles).  It may, if a
\* reviewer merges the work away while the provider is asked: its OpenAlex id is
\* then looked up like that of any record.
TitlesOnlyFill ==
  \A c \in Clients, title \in Titles :
    TitlesFold(c, title) /\ look[c].work \in DOMAIN works =>
      UNCHANGED <<minted, queue>> /\ works'[look[c].work].title # NoTitle

\* arXiv's DOI of a paper and its arXiv id are one identity: two works never
\* own one of them each without a reviewer being asked.
AliasesAreOneIdentity ==
  \A x \in Arxivs :
    LET doi == <<"doi", <<"10.48550", x>>>>
        arxiv == <<"arxiv", x>>
    IN {doi, arxiv} \subseteq DOMAIN owner /\ owner[doi] # owner[arxiv] =>
         Linked(owner[doi], owner[arxiv])
=============================================================================
