------------------------------- MODULE MCCorpus -------------------------------
(* Small configurations for the components that read, connect and query a      *)
(* corpus.  A behaviour runs one of them, chosen by part; the others rest in    *)
(* their first state.                                                           *)
EXTENDS ChunkPlan, NoteReduce, Answers, BibParse, CorpusWalk, ProviderChain, Citations, Overlay, TLC

CONSTANTS q1, q2, aw1, aw2, aw3, Parts

VARIABLE part
corpusVars == <<part, planVars, reduceVars, askVars, bibVars, walkVars, chainVars, citeVars, overVars>>

D(p) == <<"doi", p>>
O(p) == <<"openalex", p>>
X(p) == <<"arxiv", p>>

-----------------------------------------------------------------------------
(* Documents of up to three sections of one or two paragraphs.                 *)
Paragraphs == {<<n>> : n \in 1..5} \cup {<<m, n>> : m \in {1, 3}, n \in {2, 4}}
TheDocuments ==
  BoundedSeq([kind : {"body", "references"}, paras : Paragraphs], 3) \ {<< >>}
ThePlanLimits == {[window |-> 8, reserved |-> 2, overhead |-> 2, overlap |-> v] : v \in {0, 2}} \cup
  {[window |-> 5, reserved |-> 0, overhead |-> 2, overlap |-> 0]}   \* the budget an external host declares

-----------------------------------------------------------------------------
(* Answers of two chunks: a scalar alone, or up to two elements in the first.  *)
Envelope(q) ==
  [status : {"found", "ambiguous", "sure"}, label : {"l1", "l2"}, confidence : {1, 2},
   quotes : {{q}}, inferred : {"no"}]
Unjustified(q) ==
  [status : {"found"}, label : {"l1"}, confidence : {1}, quotes : {{q}}, inferred : {"unexplained"}]
OneElement(q) == {<<e>> : e \in Envelope(q) \cup Unjustified(q)}
TwoElements   == {<<e, f>> : e \in Envelope(1), f \in Envelope(2)}

ScalarAnswers(q)  == [scalar : Envelope(q) \cup Unjustified(q) \cup {NoEnvelope}, elements : {<< >>}]
ElementAnswers(q) == [scalar : {NoEnvelope}, elements : OneElement(q) \cup {<< >>}]

TheChunkAnswers ==
  {<<a, b>> : a \in ScalarAnswers(1), b \in ScalarAnswers(3)} \cup
  {<<a, b>> : a \in [scalar : {NoEnvelope}, elements : TwoElements \cup OneElement(1)],
              b \in ElementAnswers(3)}

-----------------------------------------------------------------------------
(* Three works, the third known by its metadata only; routes over two profiles. *)
TheProfileOrder == <<q1, q2>>
AskRoute(kinds, usable, fallback, text) ==
  [kind |-> kinds, usable |-> usable, authorised |-> {q1, q2}, routed |-> TRUE, preferred |-> q1,
   fallback |-> fallback, needsText |-> text, allowExternal |-> TRUE, privateExternal |-> FALSE,
   classes |-> Range(Restrictiveness), externalOnly |-> {}, usdLimit |-> FALSE, allowUnverified |-> FALSE,
   price |-> q1 :> "verified" @@ q2 :> "verified"]
AskRoutes == {AskRoute(q1 :> "external" @@ q2 :> "external", {q1}, q2, FALSE),
           AskRoute(q1 :> "external" @@ q2 :> "local", {q1}, NoProfile, FALSE),
           AskRoute(q1 :> "external" @@ q2 :> "local", {q1}, q2, TRUE),
           AskRoute(q1 :> "external" @@ q2 :> "none", {}, q2, FALSE)}

AskRow(b, i, w, s, sc, acc) ==
  [batch |-> b, id |-> i, work |-> w, span |-> s, size |-> 1, score |-> sc, access |-> acc, stated |-> i = 2]
AskRows ==
  {<<AskRow("span", 1, aw1, 1, 2, "open_access"), AskRow("span", 2, aw2, 2, 1, "unknown"),
     AskRow("note", 3, aw1, NoSpan, 3, "open_access")>>,
   <<AskRow("claim", 4, aw1, 4, 1, "user_supplied_private"), AskRow("concept", 4, aw1, 4, 2, "open_access"),
     AskRow("concept", 5, aw2, 5, 2, "open_access"), AskRow("note", 6, aw3, NoSpan, 0, "metadata_only")>>,
   <<AskRow("note", 6, aw3, NoSpan, 1, "metadata_only")>>,
   <<AskRow("note", 6, aw3, NoSpan, 0, "metadata_only")>>,
   << >>}

AskStanding(x, y, z) == aw1 :> x @@ aw2 :> y @@ aw3 :> z
TheAskConfigs ==
  {[hint |-> h, rows |-> r, named |-> n, cites |-> {<<aw1, aw3>>, <<aw2, aw1>>}, max |-> m, cap |-> 2,
    outside |-> o, llm |-> l, blocked |-> b, fragments |-> f, status |-> s] :
   h \in {"standard", "comparative", "citation_search", "gap_finding"}, r \in AskRows,
   n \in {{aw1}, {aw1, aw2}}, m \in {1, 3}, o \in BOOLEAN, l \in AskRoutes, b \in BOOLEAN, f \in BOOLEAN,
   s \in {AskStanding("included", "included", "metadata_only"), AskStanding("included", "none", "included"),
         AskStanding("metadata_only", "excluded", "excluded")}}

(* What a model may answer: markers, one of them of no candidate, a category.   *)
TheAskReplies ==
  [markers : {{}, {1}, {2, 3}, {2, 9}},
   category : {"unresolved", "outside_corpus", "source_grounded"},
   prose : BOOLEAN, insufficient : BOOLEAN]

-----------------------------------------------------------------------------
(* Lines of every kind, in ranges of up to four, with or without a second range. *)
L(kind, num, authors) == [kind |-> kind, num |-> num, authors |-> authors]
Lines == {L("enum", 1, <<0>>), L("enum", 2, <<1>>), L("enum", 3, <<2>>), L("dash", 0, <<0>>),
          L("author", 0, <<1>>), L("author", 0, <<1, 2>>), L("more", 0, <<0>>), L("debris", 0, <<0>>)}
TheRegions ==
  {<<[lines |-> ls, discrete |-> d]>> : ls \in [1..4 -> Lines], d \in BOOLEAN} \cup
  {<<[lines |-> ls, discrete |-> d]>> \o tail :
     ls \in UNION {[1..n -> Lines] : n \in 1..3}, d \in BOOLEAN,
     tail \in {<< >>, <<[lines |-> <<L("dash", 0, <<0>>), L("author", 0, <<2>>), L("dash", 0, <<0>>)>>,
                         discrete |-> FALSE]>>}}

-----------------------------------------------------------------------------
(* Five papers; a mention names one by its DOI, its OpenAlex id, or both.  The     *)
(* fourth is known by an arXiv id alone, under one title or two; the last is met *)
(* by its OpenAlex id, by a DOI, by an arXiv id and by two.  One has a title only. *)
By(ids)        == [ids |-> ids, title |-> 0]
Entitled(ids, t) == [ids |-> ids, title |-> t]
WorldIds == [p \in 1..5 |-> CASE p = 4 -> {X(4)} [] p = 5 -> {D(5), O(5), X(5)} [] OTHER -> {D(p), O(p)}]
Lists == {<< >>, <<By({O(2)}), By({D(3)})>>, <<By({D(3), O(3)}), Entitled({X(4)}, 4)>>,
          <<By({X(4)}), By({O(1)}), Entitled({D(2)}, 7)>>, <<By({D(1), O(1)}), By({O(3)})>>,
          <<Entitled({X(5)}, 5), By({D(3)}), By({O(5)})>>, <<By({O(5)}), Entitled({D(5), X(5)}, 5), By({})>>,
          <<Entitled({D(5)}, 8), Entitled({}, 9)>>}
Seeds == {<<Entitled({D(1)}, 1)>>, <<By({O(1)}), By({D(2)}), Entitled({}, 6)>>}
Ranks == {[i \in 1..14 |-> i], [i \in 1..14 |-> 15 - i]}
TheWorlds ==
  {[ids |-> WorldIds, titles |-> <<1, 2, 3, 0, 5>>, mentions |-> <<a, b, c, << >>, << >>>>, seeds |-> s, rank |-> r] :
     a \in Lists, b \in Lists, c \in {<< >>, <<Entitled({X(4)}, 8), By({O(1)}), By({D(2)})>>}, s \in Seeds, r \in Ranks}
AWorld == CHOOSE w \in TheWorlds : TRUE

-----------------------------------------------------------------------------
(* One work under the two verbs with a rule of their own, two providers.         *)
TheKeys  == {"by_openalex_ids", "oa_pdf_candidates"}
TheVerbs == [openalex |-> TheKeys, unpaywall |-> {"oa_pdf_candidates"}]
TheKnown == {[openalex |-> TheKeys, unpaywall |-> {"oa_pdf_candidates"}]}
TheChain == <<"openalex", "unpaywall">>

-----------------------------------------------------------------------------
(* One paper in two versions: entries with a confirmed and an unconfirmed DOI,   *)
(* an arXiv id, a title answered rightly, weakly or wrongly, and nothing at all. *)
E(own, titled, hits, hit, off) ==
  [own |-> own, titled |-> titled, hits |-> hits, hit |-> hit, off |-> off]
Plain    == E({D(2)}, TRUE, TRUE, {O(2)}, FALSE)
Garbled  == E({D(9)}, TRUE, TRUE, {O(3)}, FALSE)
Twin     == E({}, TRUE, TRUE, {O(2)}, FALSE)
Suspect  == E({}, TRUE, TRUE, {O(3)}, TRUE)
WeaklyTitled     == E({D(8)}, TRUE, TRUE, {}, FALSE)
Preprint == E({X(4)}, FALSE, FALSE, {}, FALSE)
Bare     == E({}, FALSE, FALSE, {}, FALSE)
TheIds == <<{D(1)}, {D(2)}>>
TheServed == D(2) :> {D(2), O(2)} @@ O(2) :> {D(2), O(2)} @@ O(3) :> {O(3)} @@ X(4) :> {X(4), O(4)}
TheMentions == <<{D(2), O(4)}, {}>>
TheRetitled == {{X(4)}}
TheTexts == {<< <<a, <<Garbled, Bare>> >>, << >> >> :
               a \in {<<Suspect>>, <<Twin, Plain>>, <<WeaklyTitled, Garbled>>, <<Preprint, Plain>>}}
SomeTexts == CHOOSE t \in TheTexts : TRUE
ARegion == CHOOSE r \in TheRegions : Len(r) = 1 /\ Len(r[1].lines) = 1

-----------------------------------------------------------------------------
(* Labels of two works: two chains of look-alikes beside an acronym, a short form *)
(* of two versions, and a pair whose type changes over three builds.            *)
Said(l, t, a) == [label |-> l, type |-> t, access |-> a]
OpenOf(l)  == Said(l, "method", "open_access")
HiddenOf(l) == Said(l, "method", "user_supplied_private")
TheCorpora ==
  {[near |-> {{1, 2}, {2, 3}}, acronym |-> {{3, 4}}, versions |-> v,
    length |-> <<5, 9, 7, 2>>, builds |-> 2, subsets |-> 1,
    notes |-> <<<<{OpenOf(1), HiddenOf(2)}, a>>,
                <<{OpenOf(1), OpenOf(2), OpenOf(3)}, {OpenOf(2), Said(4, "claim", "unknown"), OpenOf(3)}>>>>] :
     a \in {{}, {OpenOf(1), OpenOf(4)}, {Said(2, "data", "metadata_only"), Said(2, "claim", "open_access")}},
     v \in {{}, {{2, 3}}}} \cup
  {[near |-> {{2, 3}}, acronym |-> {{1, 2}, {1, 3}}, versions |-> v, length |-> <<2, 9, 9>>, builds |-> 2, subsets |-> 2,
    notes |-> <<<<{OpenOf(2), OpenOf(3)}, {OpenOf(1), OpenOf(2)}, {}>>, <<{OpenOf(3)}, {}>>>>] : v \in {{}, {{2, 3}}}} \cup
  {[near |-> {{1, 2}}, acronym |-> {}, versions |-> {}, length |-> <<9, 5>>, builds |-> 3, subsets |-> 1,
    notes |-> <<<<{OpenOf(1), HiddenOf(2)}, {OpenOf(1), Said(2, "data", "metadata_only")}>>, <<{OpenOf(1)}>>>>],
   \* a model that answers two subsets which share a pair
   [near |-> {{1, 2}, {2, 3}}, acronym |-> {{3, 4}}, versions |-> {}, length |-> <<5, 9, 7, 2>>, builds |-> 1, subsets |-> 2,
    notes |-> <<<<{OpenOf(1), OpenOf(2), OpenOf(3), Said(4, "claim", "unknown")}>>>>]}
ACorpus == CHOOSE c \in TheCorpora : TRUE

-----------------------------------------------------------------------------
ADocument     == CHOOSE d \in TheDocuments : TRUE
APlanLimit    == CHOOSE l \in ThePlanLimits : TRUE
SomeAnswers   == CHOOSE a \in TheChunkAnswers : TRUE
SomeAskConfig == CHOOSE c \in TheAskConfigs : TRUE

MCInit ==
  /\ part \in Parts
  /\ IF part = "plan" THEN doc \in Documents /\ limits \in PlanLimits
     ELSE doc = ADocument /\ limits = APlanLimit
  /\ IF part = "reduce" THEN answers \in ChunkAnswers ELSE answers = SomeAnswers
  /\ plan = << >> /\ merged = NotMerged
  /\ IF part = "ask" THEN askCfg \in AskConfigs ELSE askCfg = SomeAskConfig
  /\ AskStart
  /\ IF part = "bibliography" THEN BibInit ELSE region = ARegion /\ BibStart
  /\ IF part = "walk" THEN WalkInit ELSE world = AWorld /\ WalkStart
  /\ IF part = "cite" THEN texts \in Texts ELSE texts = SomeTexts
  /\ CiteStart
  /\ IF part = "overlay" THEN corpus \in Corpora ELSE corpus = ACorpus
  /\ OverStart
  /\ ChainInit

MCNext ==
  \/ part = "plan" /\ PlanChunks
     /\ UNCHANGED <<part, reduceVars, askVars, bibVars, walkVars, chainVars, citeVars, overVars>>
  \/ part = "reduce" /\ ReduceNotes
     /\ UNCHANGED <<part, planVars, askVars, bibVars, walkVars, chainVars, citeVars, overVars>>
  \/ part = "ask" /\ AskNext
     /\ UNCHANGED <<part, planVars, reduceVars, bibVars, walkVars, chainVars, citeVars, overVars>>
  \/ part = "bibliography" /\ Parse
     /\ UNCHANGED <<part, planVars, reduceVars, askVars, walkVars, chainVars, citeVars, overVars>>
  \/ part = "walk" /\ WalkNext
     /\ UNCHANGED <<part, planVars, reduceVars, askVars, bibVars, chainVars, citeVars, overVars>>
  \/ part = "chain" /\ ChainNext
     /\ UNCHANGED <<part, planVars, reduceVars, askVars, bibVars, walkVars, citeVars, overVars>>
  \/ part = "cite" /\ CiteNext
     /\ UNCHANGED <<part, planVars, reduceVars, askVars, bibVars, walkVars, chainVars, overVars>>
  \/ part = "overlay" /\ OverNext
     /\ UNCHANGED <<part, planVars, reduceVars, askVars, bibVars, walkVars, chainVars, citeVars>>

MCSpec == MCInit /\ [][MCNext]_corpusVars
=============================================================================
