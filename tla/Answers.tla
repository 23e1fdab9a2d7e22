-------------------------------- MODULE Answers --------------------------------
(* A question answered from a project (answer/): retrieval, ranking, the gates,*)
(* one call of a language model, the guard and the trace.  The corpus is read  *)
(* before the call and again by the guard; meanwhile the user may change which *)
(* works the project includes.  One question c at a time:                      *)
(*   c.hint     the kind of question      c.rows   what matches, best first    *)
(*   c.named    works a comparison names  c.cites  citation edges              *)
(*   c.max, c.cap  candidate and prompt limits    c.outside  outside mode      *)
(*   c.llm      a routing configuration   c.blocked  the price gate refuses    *)
(*   c.fragments  restricted fragments may go to an external profile           *)
EXTENDS ModelRouting, FiniteSetsExt

CONSTANTS AskWorks, Spanless, AskConfigs, AskReplies, MaxExclusions, NoSpan

\* What a project says of a work; "none": the work is no row of its documents.
Standings == {"included", "excluded", "metadata_only", "none"}

ASSUME AskAssumption ==
  /\ ProfileOrder \in Seq(LlmProfiles)
  /\ MaxExclusions \in Nat
  /\ \A c \in AskConfigs : /\ c.max \in Nat /\ Len(c.rows) \in Nat /\ DOMAIN c.rows = 1..Len(c.rows)
                           /\ c.status \in [AskWorks -> Standings]

VARIABLES askCfg, inclusion, exclusions, ask
askVars == <<askCfg, inclusion, exclusions, ask>>

NoEnvelopeYet == [outcome |-> "none", category |-> "none", prose |-> "none", insufficient |-> FALSE,
                  cites |-> {}, recs |-> {}]
Unasked == [pc |-> "asked", ranked |-> << >>, graph |-> {}, profile |-> NoProfile, shown |-> 0,
            envelope |-> NoEnvelopeYet, trace |-> << >>]

AskStart == inclusion = askCfg.status /\ exclusions = 0 /\ ask = Unasked
AskInit  == askCfg \in AskConfigs /\ AskStart

-----------------------------------------------------------------------------
(* Retrieval: positions of rows.  The batches come in their order, each cut; of *)
(* the rows of one item the first counts, and the whole is cut again.           *)
BatchOrder == <<"span", "claim", "concept", "note">>
Place(i) == CHOOSE n \in DOMAIN BatchOrder : BatchOrder[n] = askCfg.rows[i].batch
Before(i, j) == Place(i) < Place(j) \/ (Place(i) = Place(j) /\ i < j)

First(P, n)  == {i \in P : Cardinality({j \in P : Before(j, i)}) < n}
Distinct(P)  == {i \in P : \A j \in P : Before(j, i) => askCfg.rows[j].id # askCfg.rows[i].id}

Batch(kind, works) ==
  LET hits == {i \in DOMAIN askCfg.rows : /\ askCfg.rows[i].batch = kind
                                         /\ inclusion[askCfg.rows[i].work] # "excluded"
                                         /\ (kind = "concept" \/ askCfg.rows[i].work \in works)}
  IN IF kind = "concept" THEN hits ELSE First(hits, askCfg.max)

Retrieve(works) == First(Distinct(UNION {Batch(kind, works) : kind \in Range(BatchOrder)}), askCfg.max)

(* A comparison retrieves once per named work and keeps an equal share of each; *)
(* an item belongs to one work, so that no two shares meet.                     *)
Compared ==
  LET share == Max({1, askCfg.max \div Cardinality(askCfg.named)})
  IN UNION {First({i \in Retrieve({w}) : askCfg.rows[i].work = w}, share) : w \in askCfg.named}

Found ==
  IF askCfg.hint = "comparative" /\ Cardinality(askCfg.named) >= 2 THEN Compared ELSE Retrieve(AskWorks)

(* Best score first, then by name.                                             *)
Better(r, q) == r.score > q.score \/ (r.score = q.score /\ r.id < q.id)
Ranked(rows) ==
  [k \in 1..Cardinality(rows) |-> CHOOSE r \in rows : Cardinality({q \in rows : Better(q, r)}) = k - 1]
Cut(s, n) == SubSeq(s, 1, Min({n, Len(s)}))

WorksIn(rows) == {rows[i].work : i \in DOMAIN rows}

-----------------------------------------------------------------------------
(* Works to read next: connected to a retrieved work, cited by the project, or *)
(* known by their metadata only.  The lists of the code are these, cut.        *)
Around(works) ==
  {w \in AskWorks : \E v \in works : <<v, w>> \in askCfg.cites \/ <<w, v>> \in askCfg.cites}

GraphRecs(seeds) == {w \in (Around(seeds) \ seeds) \cap Spanless : inclusion[w] # "excluded"}
MetadataRecs(candidates) == {w \in Spanless \ candidates : inclusion[w] = "metadata_only"}

(* A gap is a cited work without spans (cocitation_candidates) or a work that   *)
(* unread_work_map calls unread: without spans, or known by its metadata only   *)
(* though spans of it be left (read_next_candidates).                          *)
Unread(w) == w \in Spanless \/ inclusion[w] = "metadata_only"
CocitedRecs  == {w \in Spanless : \E v \in AskWorks : <<v, w>> \in askCfg.cites}
ReadNextRecs == {w \in AskWorks : Unread(w)}
GapRecs == {w \in CocitedRecs \cup ReadNextRecs : inclusion[w] # "excluded"}

Abstained(outcome, recs) ==
  [NoEnvelopeYet EXCEPT !.outcome = outcome, !.category = "unresolved", !.insufficient = TRUE, !.recs = recs]

-----------------------------------------------------------------------------
(* The prompt takes candidates in order while they fit, and always the first.  *)
SizeOf(rows, k) == MapThenSumSet(LAMBDA i : rows[i].size, 1..k)
Shown(rows) ==
  IF rows = << >> THEN 0
  ELSE Max({k \in DOMAIN rows : \A i \in 2..k : SizeOf(rows, i) <= askCfg.cap})

Disposition(i, max, shown) ==
  IF i > max THEN "cut_rank" ELSE IF shown # 0 /\ i > shown THEN "cut_budget" ELSE "shown"

TraceOf(full, shown) == [i \in DOMAIN full |-> <<full[i].id, Disposition(i, askCfg.max, shown)>>]

(* Fragments of a class that may not be shared stay with local profiles unless *)
(* the policy lets them go.                                                    *)
Shareable == {"open_access", "metadata_only"}
Restricted(rows) == \E i \in DOMAIN rows : rows[i].access \notin Shareable

Restrictiveness == <<"open_access", "metadata_only", "licensed_future", "unknown", "user_supplied_private">>
MostRestrictive(rows) ==
  Restrictiveness[Max({k \in DOMAIN Restrictiveness : \E i \in DOMAIN rows : rows[i].access = Restrictiveness[k]})]

\* (mutant) only the fragments the user supplied are held back
FragmentGatePrivate(rows) ==
  LET r == ResolveRoute(askCfg.llm, MostRestrictive(rows))
      held == \E i \in DOMAIN rows : rows[i].access = "user_supplied_private"
  IN IF r.kind = "route" /\ ~IsLocal(askCfg.llm, r.profile) /\ held /\ ~askCfg.fragments
     THEN LocalFallback(askCfg.llm) ELSE r

FragmentGate(rows) ==
  LET r == ResolveRoute(askCfg.llm, MostRestrictive(rows)) IN
  IF r.kind = "route" /\ ~IsLocal(askCfg.llm, r.profile) /\ Restricted(rows) /\ ~askCfg.fragments
  THEN LocalFallback(askCfg.llm) ELSE r

-----------------------------------------------------------------------------
(* One citation per work with the spans of its candidates.                     *)
CitesOf(rows) ==
  {[work |-> w, spans |-> {r.span : r \in {q \in rows : q.work = w}} \ {NoSpan},
    stated |-> \E r \in rows : r.work = w /\ r.stated] : w \in {r.work : r \in rows}}

Grounded(cites) == \E c \in cites : c.spans # {}

RetrievalOnly(rows, recs) ==
  [outcome |-> "retrieval_only", category |-> IF Grounded(CitesOf(Range(rows))) THEN "source_grounded" ELSE "unresolved",
   prose |-> "none", insufficient |-> FALSE, cites |-> CitesOf(Range(rows)),
   recs |-> recs \cup MetadataRecs(WorksIn(rows))]

(* Markers are turned into the candidates they number; others are dropped.     *)
Materialised(rows, shown, markers) == CitesOf({rows[n] : n \in markers \cap 1..shown})

-----------------------------------------------------------------------------
(* Everything up to the call of the model, in one pass over the corpus; a route *)
(* that takes source text and refuses the class raises, and nothing is answered. *)
AskGap ==
  /\ ask.pc = "asked" /\ askCfg.hint = "gap_finding"
  /\ ask' = [ask EXCEPT !.pc = "done", !.envelope = Abstained("abstain_gap_finding", GapRecs)]
  /\ UNCHANGED <<askCfg, inclusion, exclusions>>

Weak(rows) == \A i \in DOMAIN rows : rows[i].score <= 0

AskRetrieve ==
  /\ ask.pc = "asked" /\ askCfg.hint # "gap_finding"
  /\ LET full == Ranked({askCfg.rows[i] : i \in Found})
         ranked == Cut(full, askCfg.max)
         graph == IF askCfg.hint = "citation_search" THEN GraphRecs(WorksIn(ranked)) ELSE {}
         gate == FragmentGate(ranked)
         mute == gate.kind # "route" \/ askCfg.blocked
         got == [ask EXCEPT !.ranked = ranked, !.graph = graph]
     IN ask' = CASE Weak(ranked) ->
                      [got EXCEPT !.pc = "done", !.trace = TraceOf(full, 0),
                                  !.envelope = Abstained("abstain_empty", graph \cup MetadataRecs(WorksIn(ranked)))]
                 [] ~Weak(ranked) /\ gate.kind = "raised" -> [got EXCEPT !.pc = "raised"]
                 [] ~Weak(ranked) /\ gate.kind # "raised" /\ mute ->
                      [got EXCEPT !.pc = "guard", !.trace = TraceOf(full, 0),
                                  !.envelope = RetrievalOnly(ranked, graph)]
                 [] OTHER ->
                      [got EXCEPT !.pc = "call", !.profile = gate.profile, !.shown = Shown(ranked),
                                  !.trace = TraceOf(full, Shown(ranked))]
  /\ UNCHANGED <<askCfg, inclusion, exclusions>>

(* A call that fails, or answers no JSON twice, leaves the evidence alone.     *)
AskFailed ==
  /\ ask.pc = "call"
  /\ ask' = [ask EXCEPT !.pc = "guard", !.envelope = RetrievalOnly(ask.ranked, ask.graph)]
  /\ UNCHANGED <<askCfg, inclusion, exclusions>>

AskAnswered(reply) ==
  /\ ask.pc = "call"
  /\ ask' = [ask EXCEPT !.pc = "guard", !.envelope =
       [outcome |-> "llm", category |-> reply.category,
        prose |-> IF reply.prose THEN "model" ELSE "none", insufficient |-> reply.insufficient,
        cites |-> Materialised(ask.ranked, ask.shown, reply.markers),
        recs |-> ask.graph \cup MetadataRecs(WorksIn(ask.ranked))]]
  /\ UNCHANGED <<askCfg, inclusion, exclusions>>

-----------------------------------------------------------------------------
(* The guard: what was not shown or is no longer included is dropped, and what *)
(* is left decides whether the answer stands and what it is called.            *)
Allowed(e) == IF e.outcome = "llm" THEN SubSeq(ask.ranked, 1, ask.shown) ELSE ask.ranked

Members(e) ==
  LET rows == Allowed(e)
      spans == {rows[i].span : i \in DOMAIN rows}
      Traced(c) == c.work \in WorksIn(rows) /\ (c.spans = {} \/ c.spans \cap spans # {})
  IN {[c EXCEPT !.spans = @ \cap spans] : c \in {d \in e.cites : Traced(d)}}

Citable(w) == inclusion[w] \in {"included", "metadata_only"}

Reconciled(e) ==
  LET supporting == {c \in e.cites : c.spans # {}}
  IN IF supporting = {} THEN "project_graph_inference"
     ELSE IF Cardinality({c.work : c \in supporting}) >= 2 /\ ~\E c \in supporting : c.stated THEN "corpus_synthesis"
     ELSE "source_grounded"

Judged(e) ==
  CASE e.outcome = "retrieval_only" -> e
    [] e.outcome = "llm" /\ e.category = "outside_corpus" ->
         IF askCfg.outside THEN e
         ELSE [e EXCEPT !.category = "unresolved", !.insufficient = TRUE, !.prose = "none"]
    [] e.outcome = "llm" /\ e.category # "outside_corpus" /\ e.cites # {} ->
         [e EXCEPT !.insufficient = FALSE, !.category = Reconciled(e)]
    [] OTHER -> [e EXCEPT !.insufficient = TRUE, !.category = "unresolved",
                          !.prose = IF @ = "none" THEN @ ELSE "banner"]

\* (mutant) works are dropped after the answer was judged
EnforceLate(e) ==
  LET judged == Judged([e EXCEPT !.cites = Members(e)])
  IN [judged EXCEPT !.cites = {c \in @ : Citable(c.work)}]

Enforce(e) == Judged([e EXCEPT !.cites = {c \in Members(e) : Citable(c.work)}])

AskGuard ==
  /\ ask.pc = "guard"
  /\ ask' = [ask EXCEPT !.pc = "done", !.envelope = Enforce(ask.envelope)]
  /\ UNCHANGED <<askCfg, inclusion, exclusions>>

(* The user excludes a work, or takes it back, while a question is answered.   *)
SetInclusion(w, status) ==
  /\ ask.pc \notin {"done", "raised"} /\ exclusions < MaxExclusions /\ inclusion[w] # status
  /\ inclusion' = [inclusion EXCEPT ![w] = status]
  /\ exclusions' = exclusions + 1
  /\ UNCHANGED <<askCfg, ask>>

AskNext ==
  \/ AskGap \/ AskRetrieve \/ AskFailed \/ AskGuard
  \/ \E r \in AskReplies : AskAnswered(r)
  \/ \E w \in AskWorks, s \in {"included", "excluded"} : SetInclusion(w, s)

AskSpec == AskInit /\ [][AskNext]_askVars

-----------------------------------------------------------------------------
Final == ask.pc = "done"
CitedWorks == {c.work : c \in ask.envelope.cites}

(* Prose of the model in a closed project rests on a work the project includes *)
(* when the guard looks, is not called insufficient, and a source is named     *)
(* only when a span of it is cited, whatever was excluded during the call.     *)
ProseIsGrounded ==
  Final /\ ask.envelope.outcome = "llm" =>
    LET e == ask.envelope IN
    /\ \A w \in CitedWorks : Citable(w)
    /\ e.prose = "model" /\ ~askCfg.outside => CitedWorks # {} /\ ~e.insufficient
    /\ e.category \in {"source_grounded", "corpus_synthesis"} => Grounded(e.cites)
    /\ e.category = "outside_corpus" => askCfg.outside

(* Nothing the model was not shown is cited: each span is one of a candidate   *)
(* that the trace calls shown, and the trace names each candidate once.        *)
CitedWasShown ==
  Final /\ ask.envelope.outcome = "llm" =>
    \A c \in ask.envelope.cites : \A s \in c.spans :
      \E k \in DOMAIN ask.ranked :
        /\ ask.ranked[k].span = s /\ ask.ranked[k].work = c.work
        /\ \E i \in DOMAIN ask.trace : ask.trace[i] = <<ask.ranked[k].id, "shown">>

(* The trace calls shown exactly what went into the prompt, in its size.       *)
TraceTellsThePrompt ==
  ask.profile # NoProfile =>
    /\ {i \in DOMAIN ask.trace : ask.trace[i][2] = "shown"} = 1..ask.shown
    /\ \A i \in 1..ask.shown : ask.trace[i][1] = ask.ranked[i].id
    /\ ask.shown > 1 => SizeOf(ask.ranked, ask.shown) <= askCfg.cap

(* A fragment that may not be shared is in no prompt for an external profile   *)
(* unless the policy lets it go.                                               *)
RestrictedStaysHome ==
  ask.profile # NoProfile /\ ~IsLocal(askCfg.llm, ask.profile) /\ ~askCfg.fragments =>
    \A i \in 1..ask.shown : ask.ranked[i].access \in Shareable

(* A work is recommended for reading or cited, never both: a recommended work   *)
(* has no span anyone could cite.  An answer about gaps cites nothing; it may   *)
(* recommend a work whose spans are left from before it became metadata only,   *)
(* and recommends no excluded work.                                            *)
RecommendedIsNotCited ==
  Final =>
    LET gap == ask.envelope.outcome = "abstain_gap_finding" IN
    /\ ask.envelope.recs \cap CitedWorks = {}
    /\ \A w \in ask.envelope.recs : w \in Spanless \/ (gap /\ Unread(w))
    /\ gap => \A w \in ask.envelope.recs : inclusion[w] # "excluded"

(* A finished answer stands on what it shows: its citations on what the model  *)
(* was shown, the trace on the prompt, the recommendations beside the cited.   *)
AnswerIsGrounded ==
  ProseIsGrounded /\ CitedWasShown /\ TraceTellsThePrompt /\ RecommendedIsNotCited

=============================================================================
