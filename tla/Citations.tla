----------------------------- MODULE Citations -----------------------------
(***************************************************************************)
(* The citation tier of a project (citation/resolve.py, parsed_bib.py,     *)
(* edges.py; the citation_resolution items of project/review.py; the graph *)
(* view of graph/build.py).                                                *)
(*                                                                         *)
(* Parsing a paper is one transaction of two stages.  Stage A runs when    *)
(* the text changed (or is forced): the paper's parsed edges of every run  *)
(* and its reference entries are replaced by those of the new reading,     *)
(* each resolved through the providers.  Stage B always runs: it writes an *)
(* edge into the current run for every resolved entry.  An entry that is   *)
(* ambiguous or suspect becomes a review item, whose approval writes a     *)
(* manual edge that names the entry.  References between the tables are    *)
(* enforced by the database (PRAGMA foreign_keys=ON).                      *)
(***************************************************************************)
EXTENDS Integers, Sequences, FiniteSets

CONSTANTS CitingPapers,\* how many papers cite: works 1..CitingPapers
          PaperIds,    \* [paper -> its ids], an id is <<type, value>>
          Texts,       \* the [paper -> sequence of texts] of a world; a text
                       \* is the sequence of its entries
          Served,      \* [id -> the ids of the record by_doi answers with]
          Mentions,    \* [paper -> ids of a work the provider says it cites]
          Retitled,    \* the ids that come with another title than a work has
          MaxRuns,     \* bound: runs
          MaxReads,    \* bound: Stage A readings of one paper
          MaxWorks     \* bound: works

IsSequence(s) == s \in Seq({s[i] : i \in DOMAIN s})

ASSUME CiteAssumption ==
    /\ CitingPapers \in Nat /\ IsSequence(PaperIds)
    /\ \A t \in Texts : \A p \in 1..CitingPapers :
         IsSequence(t[p]) /\ \A v \in DOMAIN t[p] : IsSequence(t[p][v])

VARIABLES texts, version, works, refs, items, edges, runs, reads, outcome

citeVars == <<texts, version, works, refs, items, edges, runs, reads, outcome>>

Ids(type, ids) == {i \in ids : i[1] = type}

-----------------------------------------------------------------------------
(* resolve.py: an entry is [own, titled, hits, hit, off]: the ids printed  *)
(* in it, whether it has a title, whether the title search answers, the    *)
(* ids of that answer, and whether the answer's title or registrant is off.*)
StrongKey(ids) == ids # {}
IsFalseResolution(e) == e.off /\ Ids("doi", e.own) = {}
ProviderFinds(online, i) == online /\ i \in DOMAIN Served
ByDoi(online, e, type) == UNION {Served[i] : i \in {j \in Ids(type, e.own) : ProviderFinds(online, j)}}

As(status, source, ids, candidates) ==
    [status |-> status, source |-> source, ids |-> ids, candidates |-> candidates]
Doubtful(e, candidates) ==
    As("ambiguous", "none", {}, candidates \o
       IF Ids("doi", e.own) = {} THEN << >> ELSE <<e.own>>)

ByTitle(e) ==
    IF ~StrongKey(e.hit) THEN Doubtful(e, <<e.hit>>)
    ELSE IF IsFalseResolution(e) THEN As("suspect", "none", {}, <<e.hit>>)
    ELSE As("resolved", "title_year", e.hit, << >>)

ResolveOne(online, e) ==
    IF ByDoi(online, e, "doi") # {} THEN As("resolved", "doi", ByDoi(online, e, "doi"), << >>)
    ELSE IF Ids("arxiv", e.own) # {}
    THEN As("resolved", "arxiv", IF ByDoi(online, e, "arxiv") # {} THEN ByDoi(online, e, "arxiv")
                                 ELSE e.own, << >>)
    ELSE IF e.titled /\ online /\ e.hits THEN ByTitle(e)
    ELSE IF e.titled \/ e.own # {} THEN Doubtful(e, << >>)
    ELSE As("unresolved", "none", {}, << >>)

\* _incoming_from: the entry's own ids where the record has none of the type.
IncomingFrom(e, ids) ==
    ids \cup {i \in e.own : Ids(i[1], ids) = {}}

\* identity.upsert_work: the one work that shares an id and contradicts none, in
\* an id or, where they share no DOI or OpenAlex id, in the title, takes the new
\* ids; otherwise a new work takes those nobody owns.
AlwaysStrong == {"doi", "openalex"}
SameWork(held, ids) ==
    /\ \A i \in ids : Ids(i[1], held) \subseteq {i}
    /\ ids \in Retitled => \E i \in held \cap ids : i[1] \in AlwaysStrong
UpsertWork(ws, ids) ==
    LET matched == {w \in 1..Len(ws) : ws[w] \cap ids # {}}
        claimed == UNION {ws[w] : w \in 1..Len(ws)}
        free == ids \ claimed
    IN  IF Cardinality(matched) = 1 /\ \A w \in matched : SameWork(ws[w], ids)
        THEN LET w == CHOOSE x \in matched : TRUE
             IN  [works |-> [ws EXCEPT ![w] = @ \cup free], work |-> w]
        ELSE [works |-> Append(ws, free), work |-> Len(ws) + 1]

-----------------------------------------------------------------------------
RefsBy(p) == {r \in refs : r.paper = p}
NamedBy(es) == {e.ref : e \in es}
NoRef == <<0, 0, 0>>
Edge(src, tgt, prov, run, ref) ==
    [src |-> src, tgt |-> tgt, prov |-> prov, run |-> run, ref |-> ref]

\* write_edge: a second row with the same ends, provenance and run is dropped.
WriteEdge(es, e) ==
    IF \E x \in es : <<x.src, x.tgt, x.prov, x.run>> = <<e.src, e.tgt, e.prov, e.run>>
    THEN es ELSE es \cup {e}

CiteStart ==
    /\ version = [p \in 1..CitingPapers |-> 1]
    /\ works = PaperIds
    /\ refs = {} /\ items = {} /\ edges = {}
    /\ runs = 0
    /\ reads = [p \in 1..CitingPapers |-> 0]
    /\ outcome = [p \in 1..CitingPapers |-> [kind |-> "none", run |-> 0]]
CiteInit == texts \in Texts /\ CiteStart

\* The paper is converted again and its markdown differs.
Convert(p) ==
    /\ version[p] < Len(texts[p])
    /\ version' = [version EXCEPT ![p] = @ + 1]
    /\ UNCHANGED <<texts, works, refs, items, edges, runs, reads, outcome>>

\* cite project: a new run with the edges the providers know of, to the work
\* that has the first of a mention's ids that any work has.
IdOrder == [doi |-> 1, openalex |-> 2, arxiv |-> 3]
IsTarget(w, ids) ==
    \E i \in ids \cap works[w] :
        \A v \in 1..Len(works) : \A j \in ids \cap works[v] : IdOrder[i[1]] <= IdOrder[j[1]]
CiteProject ==
    /\ runs < MaxRuns /\ runs' = runs + 1
    /\ edges' = edges \cup
         {Edge(cite[1], cite[2], "provider_reference", runs + 1, NoRef) :
            cite \in {pw \in (1..CitingPapers) \X (1..Len(works)) : IsTarget(pw[2], Mentions[pw[1]])}}
    /\ UNCHANGED <<texts, version, works, refs, items, reads, outcome>>

-----------------------------------------------------------------------------
(* Stage A, entry after entry: the works, references and items after the   *)
(* first k entries of the text.                                            *)
ReadEntry(p, run, online, k, so) ==
    LET e == texts[p][version[p]][k]
        id == <<p, reads[p] + 1, k>>
        found == ResolveOne(online, e)
        put == UpsertWork(so.works, IncomingFrom(e, found.ids))
        ref(target) == [id |-> id, paper |-> p, version |-> version[p],
                        status |-> found.status, source |-> found.source, target |-> target]
        item == [ref |-> id, paper |-> p, run |-> run, candidates |-> found.candidates, open |-> TRUE]
    IN  IF found.status = "resolved"
        THEN [works |-> put.works, refs |-> so.refs \cup {ref(put.work)}, items |-> so.items]
        ELSE [works |-> so.works, refs |-> so.refs \cup {ref(0)},
              items |-> so.items \cup (IF found.status = "unresolved" THEN {} ELSE {item})]

Reading(p, run, online) ==
    LET upTo[k \in 0..Len(texts[p][version[p]])] ==
          IF k = 0 THEN [works |-> works, refs |-> {}, items |-> {}]
          ELSE ReadEntry(p, run, online, k, upTo[k - 1])
    IN  upTo[Len(texts[p][version[p]])]

\* Stage B: the resolved references of a paper as edges of the run.  Two
\* references to one work leave one edge, of the reference read first.
Projected(rs, p, run) ==
    LET good == {r \in rs : r.paper = p /\ r.status = "resolved"}
    IN  {Edge(p, r.target, "parsed_bibliography", run, r.id) :
            r \in {x \in good : \A y \in good : y.target = x.target => x.id[3] <= y.id[3]}}

\* (mutant) only the edges of the current run are cleared
OwnRunCleared(p, run) ==
    {e \in edges : e.src = p /\ e.prov = "parsed_bibliography" /\ e.run = run}
\* (mutant) the manual edges go as well
AllCleared(p, run) == {e \in edges : e.src = p}
Cleared(p, run) == {e \in edges : e.src = p /\ e.prov = "parsed_bibliography"}

HasText(p) == version[p] <= Len(texts[p])
MustRead(p, force) ==
    force \/ RefsBy(p) = {} \/ \E r \in RefsBy(p) : r.version # version[p]

\* The edges after a call that did not read: those of the run are completed.
Completed(p, run, added) ==
    edges \cup {e \in added : \A x \in edges :
                  <<x.src, x.tgt, x.prov, x.run>> # <<e.src, e.tgt, e.prov, e.run>>}

(* build_parsed_edges for one paper and run.                               *)
CiteParse(p, run, force, online) ==
    /\ run \in 1..runs /\ HasText(p)
    /\ outcome' = [outcome EXCEPT ![p] = [kind |-> "parsed", run |-> run]]
    /\ reads[p] < MaxReads /\ Len(works) + Len(texts[p][version[p]]) <= MaxWorks
    /\ MustRead(p, force)
    /\ NamedBy(edges \ Cleared(p, run)) \cap {r.id : r \in RefsBy(p)} = {}
    /\ \E read \in {Reading(p, run, online)} :
         /\ works' = read.works
         /\ refs' = (refs \ RefsBy(p)) \cup read.refs
         /\ items' = items \cup read.items
         /\ edges' = (edges \ Cleared(p, run)) \cup Projected(read.refs, p, run)
    /\ reads' = [reads EXCEPT ![p] = @ + 1]
    /\ UNCHANGED <<texts, version, runs>>

\* Nothing new to read: only Stage B.
CiteCurrent(p, run) ==
    /\ run \in 1..runs /\ HasText(p) /\ ~MustRead(p, FALSE)
    /\ edges' = Completed(p, run, Projected(refs, p, run))
    /\ outcome' = [outcome EXCEPT ![p] = [kind |-> "parsed", run |-> run]]
    /\ UNCHANGED <<texts, version, works, refs, items, runs, reads>>

\* An edge that is not cleared names a reference that has to go: the delete
\* is refused and the transaction rolled back.
CiteRefused(p, run, force) ==
    /\ run \in 1..runs /\ HasText(p) /\ MustRead(p, force)
    /\ NamedBy(edges \ Cleared(p, run)) \cap {r.id : r \in RefsBy(p)} # {}
    /\ outcome' = [outcome EXCEPT ![p] = [kind |-> "refused", run |-> run]]
    /\ UNCHANGED <<texts, version, works, refs, items, edges, runs, reads>>

-----------------------------------------------------------------------------
(* review.resolve of a citation_resolution item. *)
Standing(i) == \E r \in refs : r.id = i.ref
Close(i) == items' = (items \ {i}) \cup {[i EXCEPT !.open = FALSE]}

\* The verdict: a manual edge in the item's run, and the reference itself.
Verdict(i, work) ==
    LET e == Edge(i.paper, work, "manual_override", i.run, i.ref)
    IN  /\ Standing(i) \/ WriteEdge(edges, e) = edges
        /\ edges' = WriteEdge(edges, e)
        /\ refs' = {IF r.id = i.ref
                    THEN [r EXCEPT !.status = "resolved", !.source = "manual_override",
                                   !.target = work] ELSE r : r \in refs}
        /\ Close(i)

Approve(i) ==
    /\ i.open /\ Len(works) < MaxWorks
    /\ \/ \E w \in 1..Len(works) : Verdict(i, w) /\ works' = works
       \/ \E k \in 1..Len(i.candidates) : \E put \in {UpsertWork(works, i.candidates[k])} :
            Verdict(i, put.work) /\ works' = put.works
    /\ UNCHANGED <<texts, version, runs, reads, outcome>>

Reject(i) ==
    /\ i.open /\ Close(i)
    /\ UNCHANGED <<texts, version, works, refs, edges, runs, reads, outcome>>

CiteNext ==
    \/ CiteProject
    \/ \E p \in 1..CitingPapers :
         \/ Convert(p)
         \/ \E run \in 1..runs :
              \/ CiteCurrent(p, run)
              \/ \E force \in BOOLEAN :
                   CiteRefused(p, run, force) \/ \E online \in BOOLEAN : CiteParse(p, run, force, online)
    \/ \E i \in items : Approve(i) \/ Reject(i)

CiteSpec == CiteInit /\ [][CiteNext]_citeVars

-----------------------------------------------------------------------------
(* edges.py, graph/build.py. *)
Authority == [manual_override |-> 2, parsed_bibliography |-> 1, provider_reference |-> 0]
AuthoritativeEdges(run) ==
    {e \in edges : e.run = run /\ \A x \in edges :
        x.run = run /\ x.src = e.src /\ x.tgt = e.tgt => Authority[x.prov] <= Authority[e.prov]}
\* The closed-world graph: the included papers only.
GraphEdges(run, open) ==
    {e \in AuthoritativeEdges(run) : open \/ {e.src, e.tgt} \subseteq 1..CitingPapers}

-----------------------------------------------------------------------------
\* The entry a reference was read from.
EntryOf(r) == texts[r.paper][r.version][r.id[3]]
\* A work stands for an answer: it carries an id of it, unless others own them all.
StandsFor(w, ids) ==
    /\ ids # {} /\ w \in 1..Len(works)
    /\ \/ works[w] \cap ids # {}
       \/ ids \subseteq UNION {works[x] : x \in (1..Len(works)) \ {w}}

(* A parsed edge of any run, however old, rests on an entry of the paper's *)
(* present reading that resolved to the edge's target (parsed_bib.py:      *)
(* 304-314 clears the edges of all runs before the entries they name).     *)
ParsedEdgesAreBacked ==
    \A e \in edges : e.prov = "parsed_bibliography" =>
        \E r \in refs : r.id = e.ref /\ r.status = "resolved" /\ r.target = e.tgt

(* After a paper is parsed for a run, read again or not, the run has an    *)
(* edge for every entry that is resolved (parsed_bib.py:382-397).          *)
RunHasEveryCitation ==
    \A p \in 1..CitingPapers : outcome'[p] # outcome[p] /\ outcome'[p].kind = "parsed" =>
        \A r \in refs' : r.paper = p /\ r.status = "resolved" =>
            \E e \in edges' : e.src = p /\ e.tgt = r.target /\ e.run = outcome'[p].run
                              /\ e.prov = "parsed_bibliography"

(* An entry is resolved without a person only to a work that stands for    *)
(* what a provider answered about it, or for the arXiv id printed in it: a *)
(* DOI nobody confirms makes no edge of its own, and later verdicts and    *)
(* readings do not take the ids away (resolve.py:263-315, decision 13).    *)
EdgesNeedConfirmation ==
    \A r \in refs : r.status = "resolved" /\ r.source # "manual_override" =>
        LET e == EntryOf(r)
        IN  \/ r.source = "doi" /\ StandsFor(r.target, ByDoi(TRUE, e, "doi"))
            \/ /\ r.source = "arxiv" /\ Ids("arxiv", e.own) # {}
               /\ \E ids \in {ByDoi(TRUE, e, "arxiv"), e.own} : StandsFor(r.target, ids)
            \/ r.source = "title_year" /\ ~IsFalseResolution(e) /\ StandsFor(r.target, e.hit)

(* Only a verdict stands in the way of reading a paper again: a parse is   *)
(* refused for nothing but a manual edge (parsed_bib.py:304-314).          *)
OnlyVerdictsBlockReading ==
    \A p \in 1..CitingPapers : outcome[p].kind = "refused" =>
        \E e \in edges : e.src = p /\ e.prov = "manual_override"

(* A person's verdict is never taken back: the entry keeps the work it was *)
(* given, whatever is parsed later (review.py:555-560).                    *)
VerdictLasts ==
    \A r \in refs : r.source = "manual_override" => r \in refs'

(* In the run of the verdict the graph shows the person's edge, not the    *)
(* program's, wherever both assert the pair (edges.py:101-127).            *)
VerdictShows ==
    \A e \in edges : e.prov = "manual_override" =>
        \A x \in GraphEdges(e.run, TRUE) : <<x.src, x.tgt>> = <<e.src, e.tgt>> => x = e

(* The edges tell the papers' present readings and the verdicts on them,   *)
(* and nothing but a verdict stands in the way of the next reading.        *)
EdgesTellTheReadings ==
    ParsedEdgesAreBacked /\ EdgesNeedConfirmation /\ OnlyVerdictsBlockReading /\ VerdictShows

(* What was settled stays visible: a verdict whatever is parsed later, a    *)
(* resolved entry in every run the paper is parsed for.                    *)
CitationsLast == [][RunHasEveryCitation /\ VerdictLasts]_citeVars

(* The module's promise (parsed_bib.py:29-34): reading a paper again is    *)
(* FK-safe, so a parse is never refused.                                   *)
ReparseIsNeverRefused == \A p \in 1..CitingPapers : outcome[p].kind # "refused"

=============================================================================
