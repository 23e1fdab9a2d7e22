# Formal models of seedgraph

TLA+ specifications of seedgraph, the TLC instances that check them, and
machine-checked proofs about them. seedgraph is a local-first research tool: it
collects papers, converts them to markdown, has language models extract claims,
and serves the resulting graph to a person or an agent. Nearly all of it is
ordinary sequential code over two SQLite files; what makes it hard to test is
that several programs (commands, a web server with threads and child processes,
an agent that calls short commands) work on the same files and rows, any of them
may die at any moment, and most of them read, wait for a network or a converter,
and write much later. That is what these modules are about.

Paths below are relative to `src/src/seedgraph/`.

## Contents

| module | models | run | proofs |
| --- | --- | --- | --- |
| `AgentExtraction` | host-driven extraction: prepare, next, submit, the checkpoint, receipts and the note commit | `AgentRetry`, `AgentRaces`, `AgentSources`, `Settles`, `AgentPauseLost` | `AgentExtraction_proofs` |
| `NoteLedger` | what readers of notes are promised: an abstract ledger of notes per work | `AgentRaces` (refinement) | refinement in `AgentExtraction_proofs` |
| `WorkIdentity` | works, identifiers, the review queue and merges, with the passes that repair titles, resolve and backfill | `Identity`, `IdentityAlias` | `WorkIdentity_proofs` |
| `ContentCache` | the shared cache: files, conversion runs, markdown rows | `MarkdownClass`, and under the next | `ConversionQueue_proofs` |
| `ConversionQueue` | the server's upload queue, workers, children; the programs that acquire files; extends `ContentCache` | `ContentRaces`, `Settles` | `ConversionQueue_proofs` |
| `ModelRouting`, `ModelCalls` | routes, gates, and one call of a language model from gate to usage row | `Services` | `ModelCalls_proofs` |
| `ApiExtraction` | `extract notes`, `extract notes-chunked` and the web jobs that run them: thread pool, budget, both runners | `Services` | `ApiExtraction_proofs` |
| `RunJobs` | runs, event logs, web jobs, the sweep of orphans, the page that polls | `Services` | `RunJobs_proofs` |
| `LensRuns` | a lens: file, registry row, calibration and runs | `Services` | `ModelCalls_proofs` |
| `ChunkPlan`, `NoteReduce` | cutting a paper into chunks; merging the notes of chunks | `Corpus` | |
| `Answers` | a question answered from the project, from retrieval to the guard | `Corpus` | `Overlay_proofs` |
| `BibParse` | cutting a bibliography into entries | `Corpus` | |
| `Citations` | resolving entries, edges, review | `Corpus`, `ReparseRefused` | `Citations_proofs` |
| `CorpusWalk`, `ProviderChain` | growth along references; providers, breakers and the cache | `Corpus` | `Citations_proofs` |
| `Overlay` | concepts, builds, verdicts on merges, public export | `Corpus` | `Overlay_proofs` |
| `MCAgent`, `MCIdentity`, `MCScenes`, `MCContent`, `MCSettles`, `MCServices`, `MCCorpus` | constants, symmetry and composition for TLC | | |

A proof module holds a part for each component it is about. Parts share no state; they
share a module where they stand on the same lemmas about numbers, lists and least elements
(`Citations_proofs`, `Overlay_proofs`) or where one component is built on the other's
module (`ConversionQueue_proofs`, `ModelCalls_proofs`).

Mutated operators marked `(mutant)` stand next to the definition they are a wrong
version of; no specification uses them. Each property has one that breaks it.

`MCServices`, `MCCorpus` and `MCSettles` hold several components that share no
state. A variable `part` chooses one at the start; the others rest in their first
state. Every component is explored exactly as it would be alone, and the
runs stay one per question asked of the system. `MCScenes` does the same with five
instances of `WorkIdentity` (`scene`), which differ in records, jobs and bounds.

## The system

### Components, their state and operations

**Host-driven extraction** (`extraction/agent.py`, `extraction/agent_cli.py`).
State: `runs/<id>/state.json` (checkpoint: per-paper status, attempt, done and
failed chunks, pause), immutable packets, a receipt file per (paper, chunk,
attempt), `events.jsonl`, and the note tables of `project.db`. Operations:
`prepare_batch`, `next_packet`, `submit_packet`; every call takes the exclusive
`batch_writer` lock of its run, recovers what the last one left (`_activate`,
`_reconcile`) and ends at any instruction if the process dies. Hard: three stores
written one after another, replays and late answers, pauses, two batches or the
API runner racing for the same work, source files changing underneath. Correct
when: nothing accepted is lost, asked for twice or committed twice; a note
follows the note the plan expected and rests on the planned source; text goes
only where policy allows; a cooperative host reaches the end.

**Work identity** (`project/identity.py`, `acquisition/resolve.py`,
`acquisition/backfill.py`, `extraction/metadata.py`). State: `works` with
identifier columns, `work_ids` with a unique (type, value). `upsert_work` folds a
record into the work that owns its strongest identifier, backfills empty columns,
demotes a contradiction to a duplicate work with a review item; three passes
complete works from providers and from converted text. Hard: reads long before
writes, order dependence, several spellings of one identifier. Correct when: two
papers are joined only by a person, one paper is never in two works unnoticed,
filled columns stay.

**Review queue and merges** (`project/review.py`, `project/merge.py`). State:
`review_queue`, and every table with a `work_id`. A reviewer merges, excludes,
rejects, or answers concept, citation, upload and anchor items. Correct when: a
merge moves every row and leaves no open item behind that names the victim.

**Content cache** (`cache/`, `cache_access.py`). State: `cache.db` (source files
by hash with an access class, conversion runs, markdown documents, provider
responses) and content-addressed files. `ingest_file`, `convert_source_file`,
`import_external_markdown`. Hard: a conversion takes minutes between its read and
its write; two files may give the same markdown. Correct when: lineage holds and
an access class never loosens.

**Conversion queue and acquisition** (`web/marker_queue.py`,
`web/_convert_worker.py`, `acquisition/service.py`, `acquisition/bridge.py`,
`acquisition/doctor_reconcile.py`). State: an in-memory status map and FIFO,
worker threads, child processes, `work_source_files` (the bridge row of a work).
Hard: threads, processes, timeouts, orphans after a restart, several programs
bridging one work. Correct when: the status never lies and every task ends.

**API extraction and budget** (`extraction/runner.py`, `chunked_runner.py`,
`reduce.py`, `normalize.py`, `chunker.py`, `budget.py`). State: extraction runs,
notes, claims, usage rows, the in-memory `BudgetState` a thread pool shares.
Hard: threads that check a limit and spend later, partial papers, commands that
die between the row of a run and the usage log. Correct when: limits are passed by
what was in flight and no more, what was billed is logged, a paper's status
follows from its chunks, every paragraph is read once.

**Language model calls** (`llm/`). Stateless but for usage rows: preflight
(route, policy, price), dispatch with transport retry, one repair prompt, one
fallback hop with the gate applied again. Correct when: restricted text goes only
where policy allows, on every path; one row tells who answered.

**Providers** (`providers/`, `cache/provider_cache.py`). State: a circuit breaker
per provider, cached responses with expiry and cached negatives. Ordered fallback.
Correct when: a miss is a miss and not somebody's outage.

**Citation graph** (`citation/`, `graph/`). State: reference entries, edges,
project edges, run artifacts. Parsing of bibliographies, a ladder of matches,
write of edges, ranking and export. Correct when: every edge is backed by a
reading or a verdict, and verdicts survive later readings.

**Corpus growth** (`acquisition/walk.py`, `fetch.py`, `links.py`, `preview.py`).
Breadth-first growth by provider references with caps, downloads with validation.
Correct when: a walk that dies and is made again duplicates and omits nothing.

**Semantic overlay** (`semantic/`). State: concepts, aliases, claim links,
constraints, interpretive edges, decision logs; rebuilt from the current claims,
keeping what a person decided.

**Lenses** (`lenses/`). State: a YAML file, a registry row, lens runs and results.
A registry of structured questions, asked per work, each result validated against
quotes. Correct when: promotion means the works were asked, nothing is dropped.

**Answers** (`answer/`). Retrieval, ranking, traversal, composition by a model,
a guard on what it cites, a saved trace. Correct when: prose rests on included
works that were shown to the model.

**Runs and web jobs** (`run.py`, `web/jobs.py`, `progress.py`). State: a
directory per run with an append-only event log and a manifest; a registry of
running jobs. One job per project, one terminal event per job, orphaned runs
stamped when the server starts.

**Evidence spans and sections** (`spans/`, `sections/`, `fts/`, `anchor.py`,
`segment.py`). State: spans pinned to a markdown hash with anchored, stale or
orphaned status; a search index. Write, verify, relocate after reconversion.

**Web application, planner and MCP server** (`web/`, `mcp/`, `api/`). Routes and
pages over the services above, a planner that derives the tasks a project still
needs, read and extraction tools for agents.

**Storage, configuration, doctor, evaluation, agent setup** (`db/`, `config/`,
`project/service.py`, `doctor*.py`, `eval/`, `agent_setup/`, `cli.py`).
Migrations and connections, settings and secrets, consistency reports, offline
metrics, file templates and the command line.

### How they interact

Programs share rows and files, not messages. `cache.db` is shared by all
projects, `project.db` by the programs of one project. SQLite starts a
transaction at the first write, so a read before it is not protected; the Python
layer caches rows per session. A web request enqueues and returns; a worker
thread starts a child that calls the same functions as the commands. An agent
calls `prepare`, `next` and `submit` as separate processes, so all state between
calls is on disk. Providers and converters are outside: they answer, fail or hang.

## The models

All modules follow one convention: an action is the code between two points at
which another program, or a crash, can intervene. A function that reads,
waits and writes is two actions, and what it remembers between them is a
variable of the process that runs it (`pc` and its fields in `AgentExtraction`,
`look` in `WorkIdentity`, `call` and `job` in the content modules, `threads`,
`lensProc`, `ask`, `walk`, `lookup`, `building` elsewhere). A function that does all its
work inside one transaction is one action.

### AgentExtraction

*State.* `notes`, `bridge` and the SQLite write lock `writer` are `project.db`;
`versions`, `unreadable`, `private` the cache; `policy` the configuration: what the content
policy, its consent and the route together let out;
`plan` (the frozen manifest), `disk` (`state.json`), `receipts`, `log` the batch
directory; `pc`, `mem`, `pos`, `call` the call in flight, lost when it dies.

*Actions.* `PrepareStart`, `PrepareExpect`, `PrepareSource`, `PrepareBind` and
`PreparePublish` are `prepare_batch`, paper by paper. `NextCall`, `Reconcile`,
`Finish`, `Serve*` are `next_packet`; `SubmitReplay`, `SubmitResult`,
`SubmitFailure`, `SubmitInvalid`, `WriteReceipt` are `submit_packet`; `Recover`,
`CheckSource`, `Begin`, `Commit`, `Rollback`, `Settle` are `_activate` and
`save_normalized_note`; `Checkpoint` ends a call. `Crash` ends it anywhere else;
`TornCheckpoint` is a death after `state.json` is replaced and before the event is
appended. `WriteBridge`, `Convert`, `Damage`, `Tighten`, `SetPolicy`, `ApiNote` are
everybody else.

*Abstractions.* Text is what it is made of: a packet's result is its (chunk,
attempt, validity). A markdown's access class is that of its file. A change of
schema or prompt version and a chunk that no longer validates are folded into
the choice that a recheck fails. `created_at` follows the order of commits.
Attempts are bounded by `MaxAttempts` and count from 1. Exceptions and a busy
database are crashes: the code has no handler there. A prepare that dies is a
batch nobody sees. The host may submit any packet it was ever served, any time.

### NoteLedger

The abstract specification: each work has an append-only ledger of who wrote its
notes; a batch freezes a length once and may add its note only while the ledger
still has that length; API runs append freely. `ImplementsLedger` in
`AgentExtraction` is this specification under the mapping that forgets everything
but the notes' writers and the plans' expectations: no call, receipt, checkpoint
or crash is visible in it.

### WorkIdentity

*State.* Tables `works`, `owner` (`work_ids`), `member`, `file`, `cites`, `queue`;
`look[c]` is what a client's job has read; `became` remembers merges.

*Actions.* `Look` then `Store` for `upsert_work` (`Create`, `Demote`, `Fold`);
select then fold for the titles pass (`TitlesSelect`, `TitlesFold`), resolution
(`ResolveSelect`, `ResolveAttach`, `ResolveAsk`) and metadata (`BiblioSelect`,
`BiblioApply`); `ResolveMerge`, `ResolveExclude`, `ResolveReject` for the reviewer;
`Acquire` and `Cite` give works the rows a merge must carry along. With `Overlap`
a reviewer and other jobs act between a job's read and its write; without it a job
is one at a time, which is how the commands are normally used.

*Abstractions.* Three identifier types: `doi`, `openalex`, and `arxiv` for the
weaker ones. A title stands for its hash class. Provenance stamps, and columns
that behave like the title, are left out. The pass over titles handles one work;
a longer pass is a sequence of them. Graph, span and note rows are remapped by
the same statement as `file` and `cites`.

### ContentCache and ConversionQueue

*State.* `access`, `runs`, `pointer` are the three tables; `call[p]` is the cache
call of a process and what it has read. `rows` is `work_source_files`;
`status`, `queue`, `pool`, `child` are the server's memory; `job[p]` is where a
program is; `asked` is history.

*Actions.* `IngestSelect` with `IngestInsert` or `IngestTighten`; `ConvertReuse`
or `ConvertBegin`, `BackendFails` or `BackendYields`, `StoreInsert` or
`StoreReconcile`; `ImportSelect`, `ImportWrite`. The second of two inserts fails
on the unique hash. On top: `StartFlow` (upload page, upload for a known work,
corpus pass, folder import, external markdown), `Convert`, `Ocr`, `FolderMatch`,
`BridgeSelect` and `BridgeWrite`, `Announce` and `Put` (`enqueue`), `StartPool`,
`Take`, `Collect`, `Timeout` (a worker and the child it waits for), `Backfilled`,
`Fail`. `Dies`, `ChildKilled`, `Restart` are the crashes: a restart empties the
server's memory, and children of the old one may survive and go on writing.

*Abstractions.* Files on disk and manifests are left out: rows are what callers
ask. Runs are ordered by insertion. Reading the file row and missing the cached
run is one step with recording the pending run, since only their result is
used. An upload makes a work of its own. Which work a converted folder file
matches is any work. The metadata backfill of a child is in `WorkIdentity`.

### ModelRouting and ModelCalls

`ModelRouting` has no state: `ResolveRoute`, `LocalFallback`, `Gate`, `Preflight`,
`TaskHop` and `NoteHop` are functions of a configuration (where a profile runs, what
it may be asked, the route, the content policy, the limits and the prices), an access
class and a profile. `ModelCalls` is one call: `CallBegin` (the gates),
`CallBuild`, `CallSend`, then `CallError`, `CallCrash` or `CallAnswer`, with the
retry, the hop and the repair prompt inside them, and `CallLog`. The variable `sent`
is history: who was sent what. `KeyRemoved` is the user. The error codes a back end
can raise are computed from the adapters' HTTP rules (`HttpError`, `PostJson`,
`Complete`). `run_llm`, `extract_note` and `extract_note_chunked` differ in the hop
and in who logs: `entry` tells them apart. Prompt, answer and price are abstracted
to whether text is needed, whether an answer validates, and whether a price is known.

### ApiExtraction

*State.* `command[c]` with its work list, what it read of the month's spend and what
it has spent; `threads[t]`; the tables `rows` (extraction runs), `papers` (chunked
runs with their maps), `notes`; `billed` by providers and `logged` in usage rows.
*Actions.* `StartCommand`, `Take`, `Admit` (the gates in the order of the code),
`Answer`, `Save`, `Account` for a whole paper; `AdmitChunks`, `Chunk`, `ChunkRow`,
`Usage`, `Reduce` for a chunked one; `CommandEnds`, `CommandDies`, `Locked` (a commit
that finds the database locked), `ConvertAgain`. A gate's outcome is part of the
configuration, as `ModelRouting` gives it. Money is counted in units of at most `MaxCost`.

`CommandKinds` are the callers of the two runners: `extract notes`, with and without
`--chunked`, whose pool has several threads, and `extract notes-chunked` and the two web jobs,
which take one work after another (`SequentialKinds`). They differ in one more thing: only `extract notes` calls
`_apply_cost_controls` and so begins with what the month has cost (`SeedsMonth`); the
others begin with a plain `BudgetState` and hold a monthly limit against themselves alone.
`OverspendIsBounded` says of each what it does: the month counts where it is read. A
configuration that does not stop on an exceeded budget is one with `NoLimit`. `--force` is
not modelled.

### ChunkPlan and NoteReduce

Pure functions, evaluated by one step from every input of a small set:
`PlanSections`, `Units`, `Pack`, `PlanOf` and `Fate` are `chunker.py` with a
character as the unit of text; `NormalizeNote`, `MergedScalar`, `MergedElements` and
`Anchored` are `normalize.py`, `reduce.py` and the anchoring rule of
`save_normalized_note` for one scalar field and one family of elements, which
stand for the four and the seven of the schema. The properties compare them with
what they are for, not with a second copy: which paragraphs are dispatched, when a
field may be called absent.

### RunJobs

*State.* `runs` (owner, task, log, artifacts on disk), `server[s]` with its sweep,
`slot[s]` (the registry), `job[s]` (the thread), `page[p]` (a browser that polls with
a cursor). *Actions.* `Serve`, `SweepRead`, `SweepStamp`, `Binds`; `Launch`,
`JobOpens`, `JobCounts`, `JobAppends`, `AppendFails`, `Body`, `BodyReturns`,
`JobFrees`; `OpenPage`, `Poll`; `Dies`. Reading the next sequence number and appending
are two steps, as in `append_event`. What a task does is its script: the
artifacts it writes and the events it emits.

### LensRuns

*State.* `yaml` and `registry` (status, hash, snapshot), `lensText` (the current
markdown of a work), `lensRuns` (the history), `lensProc[p]`. A definition and a
markdown are version numbers; `SpanDefs` and `ExplainDefs` are the versions whose evidence
policy asks for a span or for an explanation. An answer is a list of records; one that is no
object is passed over and leaves nothing, not even a flag (`lenses/runner.py:527-529`), so
`NothingIsDropped` is about the objects of an answer (`Objects`). *Actions.* `NewLens`, `EditFile`, `SaveForm`,
`ConvertLensWork`; `LensBegin`, `LensLoad`, `LensLook`, `LensAnswered`,
`LensSearched`, `LensDone`, `MarkCalibrating`, `PromoteToActive`, `LensDies`.

### Answers

One question: `AskGap`, `AskRetrieve` (retrieval, ranking, gates, prompt),
`AskAnswered` or `AskFailed`, `AskGuard`, with `SetInclusion` by the user between
any two of them. A row is a candidate with its kind, span, score and access class, known
by its position in the ranking; the prompt takes rows from the front up to its cap, the first
whatever its size. What the model answers is a set of markers and a category, and citations
are a set, as the order in which they are listed decides nothing. The access class passed to
the gate is the most restrictive of the rows found (`MostRestrictive`). A question about gaps
is answered by the works that are cited and have no span (`CocitedRecs`) together with those to
read next (`ReadNextRecs`), excluded ones left out; the two lists' order, and the cut to the first
few, is not modelled. `unread_work_map` calls a work unread also when only its metadata is
included, whatever spans an earlier inclusion left: such a work may be recommended there, so
`RecommendedIsNotCited` allows it to a question about gaps and to no other.

### Citations, BibParse, CorpusWalk, ProviderChain

`BibParse` cuts a list of classified lines into entries (`Reflow`, `ParseReferences`).
`Citations` reads a paper in two stages (`CiteParse`, `CiteCurrent`), projects provider
edges (`CiteProject`), and lets a reviewer answer items (`Approve`, `Reject`);
`CiteRefused` is the reading the database refuses. An entry whose identifiers belong to
two works, or to a work that contradicts it, becomes a work of its own with the identifiers
nobody has, as in `upsert_work` (`project/identity.py:448`); `EdgesNeedConfirmation` therefore asks
that the target stands for what was answered, not that it owns it. A work met again by a weak
identifier alone and under another title is not joined either (`Retitled` names those
records); a column that shows an identifier the work does not own, as that of a demoted work
does, is not kept, so a later record is not compared with it (`identity.py:344-350`).
A provider edge goes to the one work that has the strongest identifier of a mention any work has.

`CorpusWalk` grows the corpus (`WalkBegin`, `WalkExpand`, `WalkGeneration`, `WalkCommit`)
over a world of papers that mention each other by different identifiers; `WalkDies` loses
the works and keeps the cache, and `CacheExpires` loses a list. A work has identifiers in its
columns (`ids`) and the rows of `work_ids` it owns (`owns`): `Upsert` gives a list entry to the
one work that owns one of its identifiers and disagrees with none, and otherwise mints a work
that owns only what is free. The works of a generation are taken in any order, though the code
takes them as they were ranked: nothing may depend on it. A work's id is random; `rank` in
the world is the order of the ids, which decides between works cited equally often. `reported` is
the frontiers of the last walk that ended (`frontier/gen_i.json`, `frontier_sizes`).

A mention has identifiers, a title, or both. One with nothing is passed over; one with
a title alone is a new work each time it is read (`walk.py:222-224`), by every walk. A mention
with an OpenAlex identifier and no DOI is enriched by its OpenAlex record, which gives the
DOI and the title and no other identifier. A mention joins the work that owns an identifier of it
unless they contradict each other in an identifier or, if they share only an arXiv or
Semantic Scholar one, in the title (`weak_id_title_conflict`); then it is a new work as well.

A paper is therefore *recognisable* if one identifier of it comes with its seed and with each
mention that has any identifier, once enriched, and that identifier is a DOI, an OpenAlex
identifier, or one under which the paper never has two titles. Two mentions of a paper without a
common identifier make two works of it, which is what the code can do; a third mention with
both then touches two works and mints another, each time it is read. `OneWorkPerPaper` is
about recognisable papers and leaves out works that were met by a title alone;
`AnotherWalkAddsNone` is about worlds of recognisable papers in which no list has a bare title.
The checked worlds have papers that are not recognisable, for want of a common
identifier and for two titles under an arXiv one, lists with a bare title, and seeds with none but a
title, and the rest of `WalksAgree` holds of them too. The list a provider gives for a work is
taken to be that of its paper, whichever identifier it is asked by. The review items an upsert
leaves (`title_collision` and the others) are those of `WorkIdentity` and not repeated here.

`ProviderChain` is one lookup through providers, breakers and
cache (`Look`, `CallAnswers`, `CallFails`) by several processes, with `Tick` for time
and `HealthChanges` for providers that fail or answer nothing.

### Overlay

`BuildReads` is what a build reads before its first write, `BuildWrites` (or
`BuildIsEmpty`) everything from the `DELETE` to the commit; `ApproveMerge`, `HoldApart`
and `ExtractAgain` fall between. A label is a number; what only its spelling decides
(overlap of tokens, acronyms, versions, length) is given by the corpus. A build asks a
model about a cluster and gets a list of proposed subsets, of which `subsets` bounds the length;
two are the least that propose one pair twice. What the export shows of a concept is its
label and all aliases (`ShownLabels`): those the build folded and those a reviewer's approval
added since.

## The runs

| run | instance | what it shows |
| --- | --- | --- |
| `AgentRetry` | one batch, two papers, two chunks, two attempts | crash, torn checkpoint, pause, failure, retry at every point: `TypeOK`, `AcceptedHasNote`, `ChunksAreReceipted`, `ServedIsDue`, and checkpoints only move forward (`PapersOnlyAdvance`) |
| `AgentRaces` | two batches and the API runner on one work | one successor per note (`NoteFollowsExpected`), and the ledger is implemented (`ImplementsLedger`) |
| `AgentSources` | one batch, two files, two results, reclassification, four policies that change | `CommitOnPlannedSource`, `ServedIsPermitted`, `NoteIsItsReceipts`, `ConsumedForever` |
| `Settles` | a batch with fairness; two uploads, one worker, two children, a corpus pass beside | every paper settles and the log says so (`BatchSettles`); the status map tells the truth and follows its task (`StatusIsTrue`); every task ends (`TaskSettles`) |
| `Identity` | five scenes: upserts, merges, repairs, races, questions | no row dangles, shared identifiers are reviewed, two identifiers of a type meet only by review (`NoRowDangles`, `SharedIdIsReviewed`, `TwoIdsOnlyByReview`), a merge keeps every row (`MergeKeepsRows`), repairs only fill (`RepairsOnlyFill`) |
| `ContentRaces` | two programs of four kinds, two files, one markdown, three conversion runs | lineage holds (`LineageHolds`), no class loosens (`NeverLoosens`) |
| `Services` | parts calls, api, jobs, lens | `TextStaysPermitted`, `RowsTellTheCall`; `SpendIsBounded`, `NotesTellTheWork`; `RunsTellTheTruth`; `NothingIsDropped`, `PromotionCovers`; and everything that was started ends (`EverythingEnds`) |
| `Corpus` | parts plan, reduce, ask, bibliography, walk, chain, cite, overlay | `PlanIsExact`, `ReduceIsFaithful`, `AnswerIsGrounded`, `RestrictedStaysHome`, `EntriesAreTheText`, `WalksAgree`, `MissesHaveReasons`, `EdgesTellTheReadings`, `OverlayIsAccountable`, `CitationsLast`, `DecisionsLast` |
| `AgentPauseLost`, `IdentityAlias`, `MarkdownClass`, `ReparseRefused` | small | four places where the code does not do what its comments say, below |

### Bounds and why they suffice

*Batches.* Two papers, two chunks and two attempts are the least at which one paper is
settled while another is pending, a note is made of receipts of different
attempts, and a late answer meets a newer attempt. Two batches are the least
that race; three would race pairwise, since a commit compares only with
the latest note.

*Identity.* Four works are enough for a record that touches two existing works and
mints one, beside a bystander. The records overlap in each of the three identifier
types and contradict each other in two. The scenes exist because all jobs over
all records are too many: upserts alone take every record; merges take records that
cite alike and two citations; repairs run every pass one after another; races let
one client's job be overtaken by merges and exclusions; questions let a job write an
item of its own after a merge took its work.

*Content.* Two files and one markdown are the least that share one; a third file adds
no case, as the row remembers one file. One worker shows the FIFO blocked, and two
children show an orphan beside its successor; the races of children with other
programs are in `Settles`, those of the other programs among each other in
`ContentRaces`, which has no server: its steps are some of the steps of `Spec`.
Files and clients are interchangeable there, which is declared as symmetry; the run
has no liveness property.

*Services.* Two profiles are a plan and a hop; `RetryMax` 2 is a retry. One command with
two threads over two papers races for the limit, and a second command follows
the first, or its death, of any kind; the configurations make each gate, a paper that
is oversize, a chunk that does not fit and both limits happen. One server and one
page, four runs, two starts and one failing append reach the sweep of a run whose
server died. A lens has one work, two programs, two edits and two texts: it may change
between any two steps of a run.

*Corpus.* Documents of up to three sections with windows that a paragraph exceeds,
fits exactly or shares, with and without a part reserved for the answer: the budget an external
host declares (`chunker.py:122-124`) is a window of which nothing is reserved; answers of two chunks; three works with every standing, six
retrievals and every way a model can cite; two walks over five papers that mention each other by
eight lists, each of which may die, with the ids of works in the order of minting or against it; two processes with two providers over two lifetimes of the cache; two readings
of a paper under review; two or three builds of an overlay with verdicts between.

`MaxRuns`, `MaxAttempts`, `MaxItems`, `MaxCommands`, `MaxFaults` and their like bound
counters the code does not bound; they are guards of the actions that count.

### Fairness

`AgentExtraction`: weak fairness of the steps of a call that is running, strong
fairness of the host's resume and answers (the host is a program told to call
`next` until it says finished), and a premise that crashes stop. Nothing is
assumed of writers of other batches or of the files. `ConversionQueue`: weak
fairness of the server's own threads: the handler that has announced a task puts
it, the pool starts, a free worker takes, a waiting worker collects or times out. The
timeout is what the code adds for the converter it cannot trust; no fairness is
assumed of children, converters or other programs. `ModelCalls`: weak fairness of the
steps of a call; a back end answers or its HTTP timeout raises. `ApiExtraction`:
weak fairness of each thread's steps and of the end of a command. `RunJobs`: of the
job thread. `LensRuns`: of the steps of a program that runs. None is assumed of users,
deaths, locks or providers.

## What the code does otherwise

With a run:

* `AgentPauseLost`: a pause written to a receipt but not yet to the checkpoint is
  overwritten by the next submit (`extraction/agent.py:398`); the documented
  acknowledgement never happens.
* `IdentityAlias`: the metadata pass stores an arXiv DOI without folding it
  (`project/identity.py:648`), next to the work that owns the arXiv identifier,
  although identity, cache and fetch "must agree on this fold".
* `MarkdownClass`: a cached conversion is returned without reconciling
  (`cache/convert.py:502`): the markdown of a file since made private is still read
  under an open file it shares the markdown with.
* `ReparseRefused`: a paper with an approved citation is never read again, because
  the manual edge names the reference entry the reading has to delete
  (`citation/parsed_bib.py:312`).

Met while modelling or proving, without a run of their own:

* *Identity.* A merge accepted while the title pass waits for a provider makes it mint
  a work (`acquisition/backfill.py:174` says it never does); a backfill by two clients
  can overwrite through a stale session; concurrent upserts of records without
  identifiers leave twins until a review, and of records that share one the second
  insert fails on the unique index (`identity.py:443`); a merge decided for an item
  whose pair was already joined is recorded though nothing was joined
  (`review.py:469`); `resolve_corpus` may enqueue an item for a work merged
  meanwhile (`resolve.py:184`). A work whose column holds an unfolded arXiv DOI is folded
  by a later merge: the survivor gets an arXiv column nobody owns or another
  work owns, and no item says so (`merge.py:227`; the cause is that of
  `IdentityAlias`). The proof of `SharedIdIsReviewed` failed at that step.
* *Content.* With a third access class in use two stale readers can loosen a file
  (`cache/ingest.py:115`); a timeout during the child's backfill reports a bridged work as
  failed (`web/_convert_worker.py:43` says it never does); two sessions that update
  one bridge row can pair a file with another's markdown (`acquisition/bridge.py:98`).
* *Extraction.* The monthly limit is enforced "against `prior_month_spent_usd + spent_usd`"
  (`runner.py:105-108`) by `extract notes` alone: `extract notes-chunked` (`cli.py:1559`) and
  the web jobs (`web/planner.py:364`, `408`) never read the month, so each may spend the limit
  again. Two commands at once may note one text twice, and do not see each
  other's spend, as the month is read once per command. A paper skipped for a chunk that
  does not fit may have other chunks that do (`chunker.py:63-64`, `204-216`);
  references reach the prompt as overlap (`chunked_runner.py:520-530`); found
  evidence is dropped when a better-confident chunk wins the scalar
  (`reduce.py:18-19`, `248`); a price limit without a price lets a chunked paper pass
  (`chunked_runner.py:350-352`); a row's access column does not tell what left the
  machine (`0007_notes.sql:45`); an oversize work of another run's list is not picked up
  (`cli.py:1490`, `1512`). The planner's preview ignores the runtime hop
  (`planner.py:48-50`); the hop of `extract_note` ignores `allowed_tasks`; an
  unexpected exception is coded `provider_unavailable` but never hops.
* *Runs.* The sweep (`run.py:276-304`) takes every running log for an orphan: a second
  server for the same project stamps the first one's live runs. `acquisition/service.py:1058`
  makes a run of its own, which `web/jobs.py:90` means to exclude. A job whose thread cannot be
  started leaves the project's slot taken until the server is restarted (`web/jobs.py:111-114`).
* *Lenses.* A record of an answer that is not an object vanishes without an output row or a
  flag (`lenses/runner.py:527-529`). `build_lens_router` yields a stub back end, so production lens runs always
  degrade to search; a degraded or failed run counts as current; a web job over a
  selection promotes too; `write_lens_yaml` writes before `sync_lens` refuses an
  active lens; two read-then-write races leave an active lens unfrozen
  (`registry.py:10-14`).
* *Answers.* `retrieve` cuts before it ranks, so `cut_rank` is nearly never recorded;
  the guard's envelope may contradict itself (`guard.py:224-228`).
* *Citations and providers.* After a forced reading, open items name deleted entries
  and cannot be approved; `unpaywall` without a contact address answers "nothing",
  cached for 30 days; with open breakers a lookup returns nothing silently; a late
  empty answer overwrites a fresh find; the breaker is asked before the cache
  (`base.py:13-14` say otherwise); an unverified DOI mints a work
  (`parsed_bib.py:88-90`, `resolve.py:16-19`).
* *Growth.* A reference whose identifiers belong to two works mints a third each time it is
  read (`identity.py:448`), so repeating a walk adds a work and a review item for it; so does a
  reference with a title alone (`walk.py:222-224`), and one whose weak identifier belongs to a
  work with another title (`identity.py:431`).
* *Overlay.* An approval puts the member's surface under the concept as an alias at once and
  leaves the concept's class as it is (`review.py:325-336`); an export before the next build
  shows it in `graph.json`, which leaves aliases of a public concept unfiltered
  (`export.py:99-103`), though only private claims carry that label. `PublicIsCovered` names this
  as the one exception and shows there is no other: the next build takes the strictest class
  of all labels. The acronym tier ignores the veto on discriminating tokens, and a pair
  held apart can meet through a third label, although the guard "always wins"
  (`concepts.py:21`); an approval between a build's read and its `DELETE` loses its
  confirmation; an open item whose concept a later build removed cannot be
  approved; open items of one pair accumulate and can be answered both ways; a
  build without labels leaves the old overlay; `audit.py:194-196` reports a reviewer's
  verdict as the machine's.
* *Spans* (not modelled): `spans index` is refused once a claim cites a paragraph span;
  two works that share a markdown share spans; an orphaned span is returned for a new claim.

## The proofs

TLC shows a property on the instances above. The theorems hold for every value of the
constants that meets the named assumptions: any sets of works, batches,
processes, threads, programs, files or profiles, finite or not where nothing is
counted, and any bounds. Every proof has the same shape: an inductive invariant made of
named conjuncts, one lemma per action (or per kind of action) and conjunct, and one
`PTL` step per theorem. TLC checked the invariants on small instances first.

### AgentExtraction_proofs

`IInv` is type correctness with what the code relies on silently:

* `ReceiptsOK`: an accepted receipt holds a valid note, and the receipt a call is
  about to write never replaces a consumed one by another;
* `ChunksOK`: a chunk counted as done, on disk or in memory, has an accepted
  receipt of the attempt it is counted for;
* `ControlOK`: a call that activates a paper has all its chunks, and the receipt
  it brings is already on disk;
* `WriterOK`: whoever activates has seen no note of its batch; whoever holds the
  write lock has compared, under it, the latest note, the bridge row and the
  source with the plan;
* `NotesOK`: the notes of a batch are on works of its papers, directly after the
  note its plan expects, on its markdown, one part per planned chunk from an
  accepted receipt;
* `AcceptedOK`: what a checkpoint or a call calls accepted is such a note.

Type correctness needs the rest, because a commit builds its text from receipts and
only accepted ones hold valid notes. `NotesOK` needs `WriterOK`, because a note is only
as good as what was compared under the lock; `WriterOK` needs `NotesOK`, since a
batch that has committed sees its note. From it: `TypeCorrect`, `FollowsExpected`,
`AtMostOneNote`, `NothingLost`, `CheckpointHonest`, `ChunksBacked`, `ConsumedOnce`,
`CommitsOnPlanned`, `ServedOnlyPermitted`.

`CallsOK` stands on `IInv` and says what a call knows while it reconciles and serves:
where the cursor is, that every paper behind it is settled, that what is in memory is ahead of
what is on disk, that a packet it will hand out is of no consumed receipt, and that a
plan expects nothing of a paper `prepare_batch` has not reached. It gives
`ServedOnlyDue` and `OnlyAdvance`, and the refinement: `LedgerImplemented`
proves `Spec => ImplementsLedger`, initial state by initial state and action by
action. Only `PrepareExpect`, `Commit` and `ApiNote` move the ledger; everything else
maps to a stutter, crashes included.

### ConversionQueue_proofs: ContentCache and ConversionQueue

`CacheInv`: the file of a call is known (`CallOK`), its run is a pending run of that file
which no other call has (`RunsApart`), a row it has seen is there. Lineage alone is not
inductive: a call that fails rewrites a run, and only `RunsApart` says it is no success
of somebody else (`LineageAlways`). A class can loosen if a call writes from what it read
before another process wrote: with a third class, two stale readers do. `OnlyOvertakenLoosen` says
so of the cache alone, for its five classes and any processes, the cache's own commands included,
whose `--access-class` takes any of them: a step that loosens a row is one of a call that was
overtaken since it read (`Overtaken`).

The programs of `ConversionQueue` ask for two classes, open and private, which is proved and not
assumed (`AskedOnly`; `acquisition/service.py:229`, `343`, `727`): their calls never write
another. `SystemNeverLoosens` then proves `NeverLoosens` of the whole system without a hypothesis:
the class a call has read is at most the class of its file now (`ReadsAreFloors`), and of two
classes the stricter is the strictest. A person who runs the cache's own commands with a third
class beside the server is outside that theorem and inside the first. `StepsAreCalls` carries what
is proved of the cache to the system (`SystemLineage`): every step of a program, worker or child is
one step of one cache call, leaves the cache alone, or loses calls.

`UploadsAreTold` proves `StatusIsTrue`, the type of the queue's tables and
the agreement of the status map with the tasks. `QueueInv` adds that at most one of
the queue, a handler and a worker holds a task (`TasksApart`), that what they
hold was asked for (`TasksKnown`), and that the map follows who holds it
(`MapFollows`), with what a job has read and is to write (`JobsOK`). It assumes that the value for
"nobody" is no process or file (`NobodyAssumption`).

### ModelCalls_proofs: ModelCalls and LensRuns

`CallsInv`: a call under way has a route some gate let through for its access class
(`RouteOK`), it has made no more attempts than plan, hop and repair
allow (`AttemptsOK`), and it has written no row before it is done (`RowsOK`). The lemmas
about `ModelRouting` say that each of the functions that can produce a route
produces a cleared one: there is no path around the gate (`TextPermitted`).
`RowsTruthful` is the rest. `ConfigAssumption` types the configurations, finds a
reported code in every list of codes, and asks that profiles have an order.

For lenses, `LensPromotionCovers` proves `PromotionCovers` by `Covered`: a full run has, for every
work, it still ahead or an entry of the history with the text it saw and the definition
it loaded; other programs only append. `LensDropsNothing` proves `NothingIsDropped` for
answers of any length, under definitions that ask for spans and explanations or do not. `LensAssumption`: the list names every work; `Unset` is
no version; the answers are of the shape an answer has.

### ApiExtraction_proofs

`ApiSpendBounded` proves `SpendIsBounded`. A thread looks at the latch, calls, and adds
what it spent later, so the bound must count what other threads have in
flight: `BudgetOK` bounds what a command has spent, and the month where it reads it, plus one call for each thread that is
in one, once the latch is set, by a cardinality; and `LoggedOK` says that
billed is logged plus the sum of what threads owe, a sum over an enumeration of
the threads, since folds are beyond the provers. `ApiNotesTell` proves
`NotesTellTheWork` for one command at a time (`Alone`), which is what its comment
promises: the threads of a command hold different works, none of them still on its
list, and a work on its way to a note has none of that text (`OnceInv`).
`ApiReduceAccounts` needs no such hypothesis. `ApiAssumption`: finitely many
threads, each of a command and a number; typed configurations; a cost is a natural number.

### RunJobs_proofs

`RunsTruthful` proves `RunsTellTheTruth`: one terminal event, a running
run is alive, a page that stopped has seen everything, finished runs have their
artifacts. `JobsInv`: a log an event can still be appended to is quiet and counted,
what a task must write is written or still in its script (`JobAt`), the sweep still
has every run that says running on its list (`SweepAt`), a page has seen exactly the
events up to its cursor (`PageAt`). The hypothesis is `OneServer`: the sweep stamps what
runs in another server, as said above, so with two the statement is false.

### WorkIdentity_proofs

`Rows` is `NoRowDangles` with two facts about names: it is inductive without any
hypothesis, so `NoDangling` and `MergesKeepRows` hold for any clients at any
interleaving. `Bonds` is about identifiers: every column value is owned by somebody
(`ColumnsOwned`), a work nobody merged into shows in its column what it owns
(`OwnedMirrored`), no column has an unfolded arXiv DOI (`PlainColumns`), and works
that share an identifier are connected by items (`SharedIdIsReviewed`). `Reads` is
what makes it inductive: what a job has read is still so when it writes (`UpsertSees`,
`WorkSees`, `TitlesSees`), up to merges a reviewer made meanwhile. From them:
`SharedIdsReviewed`, `TwoIdsReviewed`, `TitlesFillOnly`, and `ColumnsKept` for
jobs that do not overlap; the last two together are `RepairsOnlyFill`.

Two hypotheses are stated in the theorems. `OneAtATime`: either no job overlaps another or
there is one client, whose jobs a reviewer may overtake; two clients between read
and write break the statements, as said above. `NoAliasDois`: no paper prints
arXiv's own DOI of itself, which is the case `IdentityAlias` shows. Without it
the statements are false.

### Citations_proofs: ProviderChain, Citations and CorpusWalk

*ProviderChain.* `MissesAreExplained` proves `MissesHaveReasons`. A miss is explained by what
happened before it, in this process or another, so `ChainInv` carries the reasons: a cached empty
answer of a provider that knows the work was written while that provider was hushed, no later
than `hushed` remembers (`RowsOK`); a lookup under way explains every provider it has passed, and
one that ended explains all (`ChainsOK`, `ExplainedUpTo`). `BreakersOK` counts probes by a
quotient: a tripped breaker has failed at most `FailMax` times and once more for each cool-down
since. `OrderAssumption` names a provider once in a chain, as breakers are found by name;
`ChainAssumption` makes the times positive.

*Citations.* `EdgesTellThem` proves `EdgesTellTheReadings`, `CitationsStay` proves the action
properties `CitationsLast`. `CiteInv`: every entry is numbered by paper and reading and present once,
and one that a machine resolved stands for what was answered (`RefsOK`); an item is of one entry
and open only while nobody resolved that entry (`ItemsOK`); a parsed edge names an entry that
tells it, and no other edge has the key of a verdict's edge, so a write that does nothing on
conflict loses no verdict (`EdgesOK`); what a person resolved has a person's edge, and only
such an edge refuses a reading
(`VerdictsOK`). A reading puts a list of entries through a recursive function that also mints
works; the proof follows it entry by entry by the least position at which a claim would fail, since
induction over a sequence is out of the provers' reach. `CiteAssumption` says that
bibliographies and papers are lists.

*CorpusWalk.* `WalksDoAgree` proves `WalksAgree`. `WalkInv` says of the works that each is of one
paper, no two own an identifier and, while no provider failed, the work that has any identifier
of a recognisable paper owns the one by which that paper is recognised, and has no title but
one the paper is met with, so there is one (`Marked`); and of the cache that a list is what its paper mentions (`CacheOK`). That another walk
finds the same is a statement about two histories, so the invariant
says what a history is: each generation is a function of the works there are now (`Follows`), a
generation half expanded has exactly the links of the works expanded so far, in whatever order (`Walking`),
and a walk after a whole one has the same generations so far and has added nothing (`Repeats`).
It is inductive because works only come and only gain identifiers, and a link of a settled work is
never changed by that. `WalkAssumption` says what a world is: an identifier names one paper, a
paper has one of each type, a mention and a seed have identifiers of one paper or none, and a
title or none, no two seeds share an identifier, the ids of works differ, and depth and cap are positive.

### Overlay_proofs: Overlay and Answers

*Overlay.* `OverlayAccounts` proves `OverlayIsAccountable`, `DecisionsStay` proves `DecisionsLast`.
`OverInv`: a concept's class is that of its claims, and a mention that may leave the project rests
on claims that may (`ConceptsOK`, `MentionsOK`); a label is in one concept, which holds all its
claims, and an alias no build folded is one a reviewer joined (`LabelsOK`); what a build has read is of the corpus and no
verdict it saw was taken back (`ReadOK`); behind every verdict is an item with that answer, and
a build asks about a pair once (`VerdictsOK`, `AskedOnce`), from which a pair that is both joined and
held apart has two items; a decision log is the acronym pairs of the labels its hash names, and
joins only what was in force when its build read (`LogsOK`). `OverlayAssumption` types the corpora.

*Answers.* `AnswersAreGrounded` proves `AnswerIsGrounded`, `FragmentsStayHome` proves
`RestrictedStaysHome` from the lemmas about `ModelRouting`. `AskInv`: what was shown is a prefix
of the ranking that fits the prompt and is what the trace calls shown (`PromptOK`); an answer by a model
comes from a call some gate let through (`CallOK`); what is cited was found and, if a model cites
it, shown (`CitesOK`); what is recommended was not found (`RecsOK`), or answers a question about
gaps, which cites nothing (`GapOK`). The
user may change the project between any two steps: what is included is compared where the guard looks, and
`ProseIsGrounded` is inductive only together with what was retrieved. `AskAssumption` types the
questions: their rows are a list and every work has a standing.

### What is only model-checked

* Liveness: `BatchSettles`, `TaskSettles`, `EverythingEnds`. The prover handles neither
  fairness nor `ENABLED`.
* What functions on data compute for every input: `PlanIsExact`, `ReduceIsFaithful`,
  `EntriesAreTheText`. What they say is that a fold over a list computes what it is for
  (each paragraph in one chunk, each line in one entry, the best answer of all chunks), which
  needs an induction with a hypothesis per prefix; the library's induction theorems take an
  operator the provers cannot instantiate. A least position at which a claim fails, as used for
  `CiteParse` and `WalkExpand`, serves where each step preserves a property of the state; it
  does not say what the whole fold is equal to.
* The packing: `MCServices`, `MCScenes` and `MCSettles` repeat the steps of their parts,
  and the theorems are about the parts.

## Not modelled

`PROJECT.json` lists every part with its status. Left out for good: pages,
formatting, prompts, parsers of providers' answers, embedding of files, the command
line, evaluation, agent templates: functions or I/O without state that others share.
Left for later: evidence spans and sections, the repair steps of the doctor, the promotion
and review branches of the folder import, downloads, migrations.

## Plan

1. `AgentExtraction`, `NoteLedger`, the refinement: modelled and proved.
2. `WorkIdentity`: modelled; its safety proved but for two clients at once.
3. `ContentCache`, `ConversionQueue`: modelled; safety proved.
4. `ModelCalls`, `ApiExtraction`, `RunJobs`, `LensRuns`: modelled; safety proved.
5. `ProviderChain`, `Citations`, `CorpusWalk`, `Overlay`, `Answers`: modelled; safety proved.
6. `SpanAnchors` over `ContentCache`: verify and relocate against a moving
   current markdown.
