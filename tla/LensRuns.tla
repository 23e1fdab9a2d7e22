-------------------------------- MODULE LensRuns --------------------------------
(* A lens (lenses/): its YAML file, its registry row, and the programs that    *)
(* calibrate and run it over the included works.  One lens; the command line   *)
(* and a web job may run it at once, the user edits the file and converts      *)
(* papers meanwhile.  A definition and a markdown are version numbers.         *)
EXTENDS Integers, Sequences, SequencesExt, FiniteSets

CONSTANTS LensWorks, LensOrder, LensProcs, LensShells, LensBackends, LensAnswers, Unset,
          SpanDefs, ExplainDefs, SampleSize, MaxEdits, MaxTexts, MaxLensBegins

(* What the code tells of an element of "records": whether it is an object, and *)
(* then whether its fields are as the definition says, its status, whether it   *)
(* is inferred, and whether its quote was found in the text.                   *)
AnyLensRecord ==
  [object : BOOLEAN, issues : BOOLEAN, declared : {"found", "not_found", "not_applicable"},
   inferred : {"no", "explained", "unexplained"}, span : BOOLEAN]
AnyLensAnswer ==
  {a \in [garbled : BOOLEAN, records : Seq(AnyLensRecord)] : a.garbled => a.records = << >>}

(* A run goes over every included work; a version is a number from 1 on.  The  *)
(* evidence policy of a definition asks for a span, or for an explanation of    *)
(* what is inferred, in the versions SpanDefs and ExplainDefs.                  *)
ASSUME LensAssumption ==
  /\ LensOrder \in Seq(LensWorks) /\ \A w \in LensWorks : \E k \in DOMAIN LensOrder : LensOrder[k] = w
  /\ Unset \notin Nat \ {0} /\ Unset \notin LensWorks
  /\ LensAnswers \subseteq AnyLensAnswer
  /\ SpanDefs \subseteq Nat /\ ExplainDefs \subseteq Nat
  /\ SampleSize \in Nat /\ LensShells \subseteq LensProcs

(* begun: the programs started, for the bound.                                 *)
VARIABLES backend, yaml, registry, lensText, lensRuns, saved, lensProc, begun
lensVars == <<backend, yaml, registry, lensText, lensRuns, saved, lensProc, begun>>

Unregistered == [status |-> "none", hash |-> Unset, snapshot |-> Unset]
Resting == [pc |-> "idle", kind |-> "run", force |-> FALSE, def |-> Unset, todo |-> << >>,
            work |-> Unset, md |-> Unset, looked |-> [w \in LensWorks |-> Unset], saw |-> "none"]

(* The rows a run has just written, each at the place of its record in the     *)
(* answer, 0 for the row of an answer as a whole: no program reads them, so any *)
(* later step forgets them; the history keeps what later programs read.        *)
NothingSaved == [path |-> "none", def |-> Unset, asked |-> << >>, status |-> "none", outputs |-> << >>]
Forgotten == saved' = NothingSaved

LensStart ==
  /\ yaml = Unset /\ registry = Unregistered
  /\ lensText = [w \in LensWorks |-> Unset]
  /\ lensRuns = << >> /\ saved = NothingSaved
  /\ lensProc = [p \in LensProcs |-> Resting] /\ begun = 0

LensInit == backend \in LensBackends /\ LensStart

-----------------------------------------------------------------------------
(* The registry row follows the file until the lens is active.                 *)
Refuses(file) == registry.status = "active" /\ registry.hash # file

Synced(file) ==
  CASE registry.status = "none" -> [Unregistered EXCEPT !.status = "draft", !.hash = file]
    [] registry.status = "active" -> registry
    [] OTHER -> [registry EXCEPT !.hash = file]

NewLens ==
  /\ yaml = Unset
  /\ yaml' = 1
  /\ registry' = Synced(1)
  /\ UNCHANGED <<backend, lensText, lensRuns, lensProc, begun>> /\ Forgotten

EditFile ==
  /\ yaml # Unset /\ yaml < MaxEdits
  /\ yaml' = yaml + 1
  /\ UNCHANGED <<backend, registry, lensText, lensRuns, lensProc, begun>> /\ Forgotten

(* The web form writes the file, then a refusal leaves it written.             *)
SaveForm ==
  /\ yaml # Unset /\ yaml < MaxEdits
  /\ yaml' = yaml + 1
  /\ registry' = IF Refuses(yaml + 1) THEN registry ELSE Synced(yaml + 1)
  /\ UNCHANGED <<backend, lensText, lensRuns, lensProc, begun>> /\ Forgotten

ConvertLensWork(w) ==
  /\ lensText[w] = Unset \/ lensText[w] < MaxTexts
  /\ lensText' = [lensText EXCEPT ![w] = IF @ = Unset THEN 1 ELSE @ + 1]
  /\ UNCHANGED <<backend, yaml, registry, lensRuns, lensProc, begun>> /\ Forgotten

-----------------------------------------------------------------------------
Targets(kind) ==
  IF kind = "calibrate" /\ SampleSize < Len(LensOrder) THEN SubSeq(LensOrder, 1, SampleSize) ELSE LensOrder

(* `lens run`, `lens calibrate` and the web job: sync, then load the file.     *)
LensBegin(p, kind, force) ==
  /\ lensProc[p].pc = "idle" /\ yaml # Unset /\ ~Refuses(yaml)
  /\ begun < MaxLensBegins
  /\ begun' = begun + 1
  /\ registry' = Synced(yaml)
  /\ lensProc' = [lensProc EXCEPT ![p] =
       [Resting EXCEPT !.pc = "load", !.kind = kind, !.force = force \/ kind = "calibrate"]]
  /\ UNCHANGED <<backend, yaml, lensText, lensRuns>> /\ Forgotten

LensLoad(p) ==
  /\ lensProc[p].pc = "load"
  /\ lensProc' = [lensProc EXCEPT ![p].pc = "next", ![p].def = yaml, ![p].todo = Targets(lensProc[p].kind)]
  /\ UNCHANGED <<backend, yaml, registry, lensText, lensRuns, begun>> /\ Forgotten

RunsOf(w) == {i \in DOMAIN lensRuns : lensRuns[i].work = w}
Latest(S) == CHOOSE i \in S : \A j \in S : j <= i

\* (mutant) a reconverted work counts as current
IsCurrentDef(w, def, md) == RunsOf(w) # {} /\ lensRuns[Latest(RunsOf(w))].def = def

(* The latest run of the work has this definition and this markdown, whatever  *)
(* became of it.                                                               *)
IsCurrent(w, def, md) ==
  /\ RunsOf(w) # {}
  /\ lensRuns[Latest(RunsOf(w))].def = def /\ lensRuns[Latest(RunsOf(w))].md = md

(* Each work is skipped, without text or as current, or sent to the model.     *)
LensLook(p) ==
  /\ lensProc[p].pc = "next" /\ lensProc[p].todo # << >>
  /\ LET w == Head(lensProc[p].todo)
         me == lensProc[p]
         skip == lensText[w] = Unset \/ (~me.force /\ IsCurrent(w, me.def, lensText[w]))
         rest == [me EXCEPT !.todo = Tail(@), !.looked[w] = lensText[w]]
     IN lensProc' = [lensProc EXCEPT ![p] =
          IF skip THEN rest ELSE [rest EXCEPT !.pc = "ask", !.work = w, !.md = lensText[w]]]
  /\ UNCHANGED <<backend, yaml, registry, lensText, lensRuns, begun>> /\ Forgotten

\* (mutant) a record without a span stays found
ValidateUnspanned(r, def) ==
  IF r.issues THEN "extraction_failed"
  ELSE IF r.declared \in {"not_found", "not_applicable"} THEN r.declared
  ELSE IF def \in ExplainDefs /\ r.inferred = "unexplained" THEN "extraction_failed"
  ELSE "found"

(* validate_record: types first, then the declared status, then the evidence   *)
(* policy (an inference needs an explanation, a finding a span).               *)
ValidateRecord(r, def) ==
  IF r.issues THEN "extraction_failed"
  ELSE IF r.declared \in {"not_found", "not_applicable"} THEN r.declared
  ELSE IF def \in ExplainDefs /\ r.inferred = "unexplained" THEN "extraction_failed"
  ELSE IF def \in SpanDefs /\ ~r.span THEN "ambiguous"
  ELSE "found"

(* A found record becomes a claim with its span and an output row; any other   *)
(* an output row and a review item, counted as failed unless it is ambiguous.  *)
Projected(r, def) ==
  LET status == ValidateRecord(r, def) IN
  [status |-> status,
   claim |-> IF status = "found" THEN IF r.span THEN "anchored" ELSE "bare" ELSE "none",
   review |-> status # "found",
   counted |-> IF status \in {"found", "ambiguous"} THEN status ELSE "extraction_failed"]

Bare(status, review) == [status |-> status, claim |-> "none", review |-> review, counted |-> status]
Whole(row) == [k \in {0} |-> row]

(* An element of "records" that is not an object is passed over.               *)
Objects(records) == {i \in DOMAIN records : records[i].object}

(* An answer that is no JSON object fails the run; one without records says    *)
(* that nothing was found.                                                     *)
LlmRun(answer, def) ==
  [path |-> "model", def |-> def, asked |-> answer.records,
   status |-> IF answer.garbled THEN "extraction_failed" ELSE "success",
   outputs |-> IF answer.garbled THEN Whole(Bare("extraction_failed", TRUE))
               ELSE IF Objects(answer.records) = {} THEN Whole(Bare("not_found", FALSE))
               ELSE [i \in Objects(answer.records) |-> Projected(answer.records[i], def)]]

(* Without a model: a line with a positive anchor, and no claim.               *)
DeterministicRun(found, def) ==
  [path |-> "search", def |-> def, asked |-> << >>, status |-> "success",
   outputs |-> Whole(Bare(IF found THEN "found" ELSE "not_found", FALSE))]

(* build_lens_router resolves no provider: outside the tests the back end is   *)
(* the stub, which refuses every call.                                         *)
Reached == backend = "injected"

Recorded(p) ==
  Append(lensRuns, [work |-> lensProc[p].work, def |-> lensProc[p].def, md |-> lensProc[p].md])

(* The answer of the model, or the search in its place: the run, its outputs,  *)
(* claims and review items in one transaction.                                 *)
LensSave(p, run) ==
  /\ lensProc[p].pc = "ask"
  /\ lensRuns' = Recorded(p) /\ saved' = run
  /\ lensProc' = [lensProc EXCEPT ![p].pc = "next", ![p].work = Unset, ![p].md = Unset]
  /\ UNCHANGED <<backend, yaml, registry, lensText, begun>>

LensAnswered(p) == Reached /\ \E a \in LensAnswers : LensSave(p, LlmRun(a, lensProc[p].def))

LensSearched(p) == \E found \in BOOLEAN : LensSave(p, DeterministicRun(found, lensProc[p].def))

(* After the last work the row is read, then written.                          *)
LensDone(p) ==
  /\ lensProc[p].pc = "next" /\ lensProc[p].todo = << >>
  /\ lensProc' = [lensProc EXCEPT ![p].pc = lensProc[p].kind, ![p].saw = registry.status]
  /\ UNCHANGED <<backend, yaml, registry, lensText, lensRuns, begun>> /\ Forgotten

MarkCalibrating(p) ==
  /\ lensProc[p].pc = "calibrate"
  /\ registry' = IF lensProc[p].saw = "draft" THEN [registry EXCEPT !.status = "calibrating"] ELSE registry
  /\ lensProc' = [lensProc EXCEPT ![p] = Resting]
  /\ UNCHANGED <<backend, yaml, lensText, lensRuns, begun>> /\ Forgotten

PromoteToActive(p) ==
  /\ lensProc[p].pc = "run"
  /\ registry' = IF lensProc[p].saw = "active" THEN registry
                 ELSE [status |-> "active", hash |-> lensProc[p].def, snapshot |-> lensProc[p].def]
  /\ lensProc' = [lensProc EXCEPT ![p] = Resting]
  /\ UNCHANGED <<backend, yaml, lensText, lensRuns, begun>> /\ Forgotten

LensDies(p) ==
  /\ lensProc[p].pc # "idle"
  /\ lensProc' = [lensProc EXCEPT ![p] = Resting]
  /\ UNCHANGED <<backend, yaml, registry, lensText, lensRuns, begun>> /\ Forgotten

LensStep(p) ==
  \/ LensLoad(p) \/ LensLook(p) \/ LensAnswered(p) \/ LensSearched(p)
  \/ LensDone(p) \/ MarkCalibrating(p) \/ PromoteToActive(p)

LensNext ==
  \/ NewLens \/ EditFile \/ SaveForm
  \/ \E w \in LensWorks : ConvertLensWork(w)
  \/ \E p \in LensProcs : LensStep(p) \/ LensDies(p)
  \/ \E p \in LensProcs, force \in BOOLEAN : LensBegin(p, "run", force)
  \/ \E p \in LensShells : LensBegin(p, "calibrate", FALSE)

LensFairness == \A p \in LensProcs : WF_lensVars(LensStep(p))

LensSpec == LensInit /\ [][LensNext]_lensVars /\ LensFairness

-----------------------------------------------------------------------------
(* lens results: the latest run of each work under the registered definition   *)
(* and the present markdown.                                                   *)
Shown(w) == {i \in RunsOf(w) : lensRuns[i].def = registry.hash /\ lensRuns[i].md = lensText[w]}

(* A full run that promotes the lens leaves every included work in the results, *)
(* unless it had no text or was converted after the run looked at it, though   *)
(* the file, the row and the texts change under it and other runs share them.  *)
PromotionCovers ==
  [][\A p \in LensProcs :
       lensProc[p].pc = "run" /\ lensProc'[p].pc = "idle" /\ registry' # registry
         => \A w \in LensWorks :
              \/ lensText[w] = Unset
              \/ lensText[w] # lensProc[p].looked[w]
              \/ \E i \in RunsOf(w) : lensRuns[i].def = registry'.hash /\ lensRuns[i].md = lensText[w]]_lensVars

(* Every record of an answer that is an object leaves an output row of its own, *)
(* and an answer without one a row that says so; a record becomes a claim or an *)
(* item for a reviewer, and what is ambiguous or failed is never a claim; a     *)
(* claim was declared found and has a span wherever the definition asks for     *)
(* one; a search makes no claim.  An element that is no object leaves nothing   *)
(* (runner.py:528), though the counters and the run say success.               *)
NothingIsDropped ==
  saved # NothingSaved =>
    /\ DOMAIN saved.outputs = IF Objects(saved.asked) = {} THEN {0} ELSE Objects(saved.asked)
    /\ \A k \in DOMAIN saved.outputs :
         LET o == saved.outputs[k] IN
         /\ k # 0 => (o.claim # "none") # o.review
         /\ o.status \in {"ambiguous", "extraction_failed"} => o.review
         /\ o.claim # "none" =>
              /\ saved.path = "model" /\ o.status = "found" /\ saved.asked[k].declared = "found"
              /\ saved.def \in SpanDefs => o.claim = "anchored" /\ saved.asked[k].span

(* A lens run that is not killed ends.                                         *)
LensRunEnds == \A p \in LensProcs : []<>(lensProc[p].pc = "idle")
=============================================================================
