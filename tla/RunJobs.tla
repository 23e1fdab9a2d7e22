-------------------------------- MODULE RunJobs --------------------------------
(* Runs and web jobs: run.py (event logs, manifests, the sweep of orphans),    *)
(* web/jobs.py (one job per project on a thread), the job bodies of            *)
(* web/planner.py and of the ask page, and the page that polls a run.  One     *)
(* project; a server and its threads die together; an append may fail.         *)
EXTENDS Integers, Sequences, SequencesExt, FiniteSets

CONSTANTS Servers, Pages, Offers, MaxRuns, MaxStarts, MaxFaults

NoRun == -1

(* offered: the tasks a behaviour launches.                                    *)
VARIABLES offered, runs, server, slot, job, page, starts, faults
jobsVars == <<offered, runs, server, slot, job, page, starts, faults>>

(* A run is a directory: its event log, its manifest and its artifacts.        *)
FreshRun(owner, task) ==
  [owner |-> owner, task |-> task, log |-> << >>, artifacts |-> {}, minted |-> NoRun, torn |-> FALSE]

(* A run of an agent that waits, and one a command left without events.        *)
FirstRuns == <<[FreshRun("host", "agent") EXCEPT !.log = <<[seq |-> 0, event |-> "awaiting_host"]>>],
               FreshRun("command", "cite")>>

NoJob  == [pc |-> "none", run |-> NoRun, script |-> << >>, event |-> "started", seq |-> NoRun]
NoPage == [run |-> NoRun, after |-> NoRun, seen |-> {}, stopped |-> FALSE]

JobsStart ==
  /\ runs = FirstRuns
  /\ server = [s \in Servers |-> [pc |-> "off", todo |-> << >>, seq |-> NoRun]]
  /\ slot = [s \in Servers |-> NoRun]
  /\ job = [s \in Servers |-> NoJob]
  /\ page = [p \in Pages |-> NoPage]
  /\ starts = 0 /\ faults = 0

-----------------------------------------------------------------------------
(* Job bodies: events to emit, and "+x", the artifact x to write.              *)
ConversionJob == <<"announce", "+corpus", "work", "report">>
SectionsJob   == <<"work", "summary">>
CiteJob       == <<"announce", "+graph", "report">>
ConceptsJob   == <<"announce", "+overlay", "report">>
ExtractionJob == <<"work", "work", "summary">>
ChunkedJob    == <<"work", "+chunked_extraction", "summary">>
LensesJob     == <<"announce", "work", "+lens_run", "report">>
NoLensJob     == <<"error">>
AnswerJob     == <<"announce", "+answer", "+trace", "report">>

Script(task) ==
  CASE task = "conversion" -> ConversionJob
    [] task = "sections" -> SectionsJob
    [] task = "cite" -> CiteJob
    [] task = "concepts" -> ConceptsJob
    [] task = "extraction" -> ExtractionJob
    [] task = "chunked" -> ChunkedJob
    [] task = "lenses" -> LensesJob
    [] task = "lenses without a lens" -> NoLensJob
    [] OTHER -> AnswerJob

Writes == {"+corpus", "+graph", "+overlay", "+chunked_extraction", "+lens_run", "+answer", "+trace"}
Artifacts(task) == Range(Script(task)) \cap Writes

-----------------------------------------------------------------------------
Terminal == {"finished", "failed", "interrupted", "paused", "awaiting_host"}

StatusOfLog(log) ==
  IF log = << >> THEN "none"
  ELSE IF Last(log).event \in Terminal THEN Last(log).event
  ELSE "running"

Status(r) == StatusOfLog(runs[r].log)

AppendEvent(r, seq, event) == [runs EXCEPT ![r].log = Append(@, [seq |-> seq, event |-> event])]

(* `serve` sweeps the runs that are there before it binds.                     *)
Serve(s) ==
  /\ server[s].pc = "off" /\ starts < MaxStarts
  /\ starts' = starts + 1
  /\ server' = [server EXCEPT ![s] = [pc |-> "sweep", todo |-> [i \in DOMAIN runs |-> i], seq |-> NoRun]]
  /\ UNCHANGED <<offered, runs, slot, job, page, faults>>

\* (mutant) the sweep looks only whether a run has events
StampsAny(r) == runs[r].owner # "host" /\ runs[r].log # << >>

Stamps(r) == runs[r].owner # "host" /\ Status(r) = "running"

(* The sweep reads a log, then appends: another process may come between.      *)
SweepRead(s) ==
  /\ server[s].pc = "sweep" /\ server[s].todo # << >> /\ server[s].seq = NoRun
  /\ server' = IF Stamps(Head(server[s].todo))
               THEN [server EXCEPT ![s].seq = Len(runs[Head(server[s].todo)].log)]
               ELSE [server EXCEPT ![s].todo = Tail(@)]
  /\ UNCHANGED <<offered, runs, slot, job, page, starts, faults>>

SweepStamp(s) ==
  /\ server[s].pc = "sweep" /\ server[s].seq # NoRun
  /\ runs' = AppendEvent(Head(server[s].todo), server[s].seq, "interrupted")
  /\ server' = [server EXCEPT ![s].todo = Tail(@), ![s].seq = NoRun]
  /\ UNCHANGED <<offered, slot, job, page, starts, faults>>

Binds(s) ==
  /\ server[s].pc = "sweep" /\ server[s].todo = << >>
  /\ server' = [server EXCEPT ![s].pc = "up"]
  /\ UNCHANGED <<offered, runs, slot, job, page, starts, faults>>

Dies(s) ==
  /\ server[s].pc # "off"
  /\ server' = [server EXCEPT ![s] = [pc |-> "off", todo |-> << >>, seq |-> NoRun]]
  /\ slot' = [slot EXCEPT ![s] = NoRun]
  /\ job' = [job EXCEPT ![s] = NoJob]
  /\ UNCHANGED <<offered, runs, page, starts, faults>>

(* launch_job under its lock: the slot is taken before the thread starts, and  *)
(* stays taken if the thread cannot start.  A busy project changes nothing.    *)
Launch(s, task, begins) ==
  /\ server[s].pc = "up" /\ slot[s] = NoRun /\ Len(runs) < MaxRuns
  /\ begins \/ faults < MaxFaults
  /\ LET r == Len(runs) + 1 IN
     /\ runs' = Append(runs, FreshRun("web", task))
     /\ slot' = [slot EXCEPT ![s] = r]
     /\ job' = IF begins THEN [job EXCEPT ![s] = [NoJob EXCEPT !.pc = "open", !.run = r, !.script = Script(task)]]
               ELSE job
     /\ faults' = IF begins THEN faults ELSE faults + 1
  /\ UNCHANGED <<offered, server, page, starts>>

(* The thread opens the project for itself.                                    *)
JobOpens(s, ok) ==
  /\ job[s].pc = "open"
  /\ ok \/ faults < MaxFaults
  /\ faults' = IF ok THEN faults ELSE faults + 1
  /\ job' = [job EXCEPT ![s].pc = "emit", ![s].event = IF ok THEN "started" ELSE "failed"]
  /\ UNCHANGED <<offered, runs, server, slot, page, starts>>

(* append_event: the sequence number is the count of lines so far, taken under *)
(* a lock of this process.                                                     *)
JobCounts(s) ==
  /\ job[s].pc = "emit" /\ job[s].seq = NoRun
  /\ job' = [job EXCEPT ![s].seq = Len(runs[job[s].run].log)]
  /\ UNCHANGED <<offered, runs, server, slot, page, starts, faults>>

JobAppends(s) ==
  /\ job[s].pc = "emit" /\ job[s].seq # NoRun
  /\ runs' = AppendEvent(job[s].run, job[s].seq, job[s].event)
  /\ job' = [job EXCEPT ![s].seq = NoRun,
                        ![s].pc = IF job[s].event \in {"finished", "failed"} THEN "end" ELSE "body"]
  /\ UNCHANGED <<offered, server, slot, page, starts, faults>>

(* The line may or may not be in the file when the append raises; the job then *)
(* reports a failure, and a failure that cannot be reported ends it.           *)
AppendFails(s, written) ==
  /\ job[s].pc = "emit" /\ job[s].seq # NoRun /\ faults < MaxFaults
  /\ faults' = faults + 1
  /\ runs' = [IF written THEN AppendEvent(job[s].run, job[s].seq, job[s].event) ELSE runs
              EXCEPT ![job[s].run].torn = TRUE]
  /\ job' = [job EXCEPT ![s].seq = NoRun, ![s].event = "failed",
                        ![s].pc = IF job[s].event = "failed" THEN "end" ELSE "emit"]
  /\ UNCHANGED <<offered, server, slot, page, starts>>

(* corpus_io gives the conversion its emitter's run, but run_corpus mints a    *)
(* run of its own for the sections of its manifest.                            *)
Saved(r, what) ==
  IF what = "+corpus"
  THEN Append([runs EXCEPT ![r].minted = Len(runs) + 1],
              [FreshRun("command", "corpus") EXCEPT !.artifacts = {what}])
  ELSE [runs EXCEPT ![r].artifacts = @ \cup {what}]

(* One step of the body: an artifact, an event, or an exception.               *)
Body(s, ok) ==
  /\ job[s].pc = "body" /\ job[s].script # << >>
  /\ ok \/ faults < MaxFaults
  /\ faults' = IF ok THEN faults ELSE faults + 1
  /\ LET step == Head(job[s].script)
         rest == [job[s] EXCEPT !.script = Tail(@)]
     IN CASE ~ok -> job' = [job EXCEPT ![s].pc = "emit", ![s].event = "failed"] /\ UNCHANGED runs
          [] ok /\ step \in Writes -> job' = [job EXCEPT ![s] = rest] /\ runs' = Saved(job[s].run, step)
          [] OTHER -> job' = [job EXCEPT ![s] = [rest EXCEPT !.pc = "emit", !.event = step]] /\ UNCHANGED runs
  /\ UNCHANGED <<offered, server, slot, page, starts>>

BodyReturns(s) ==
  /\ job[s].pc = "body" /\ job[s].script = << >>
  /\ job' = [job EXCEPT ![s].pc = "emit", ![s].event = "finished"]
  /\ UNCHANGED <<offered, runs, server, slot, page, starts, faults>>

JobFrees(s) ==
  /\ job[s].pc = "end"
  /\ job' = [job EXCEPT ![s] = NoJob]
  /\ slot' = [slot EXCEPT ![s] = NoRun]
  /\ UNCHANGED <<offered, runs, server, page, starts, faults>>

-----------------------------------------------------------------------------
AServerIsUp == \E s \in Servers : server[s].pc = "up"

OpenPage(p, r) ==
  /\ page[p].run = NoRun /\ AServerIsUp /\ runs[r].owner = "web"
  /\ page' = [page EXCEPT ![p] = [NoPage EXCEPT !.run = r]]
  /\ UNCHANGED <<offered, runs, server, slot, job, starts, faults>>

(* The page goes on after the last event it was given.                         *)
Cursor(after, log, new) == IF new = {} THEN after ELSE log[Max(new)].seq

(* poll.js: the events after the cursor, and the status of the whole log; it   *)
(* stops at finished and failed only.                                          *)
Poll(p) ==
  /\ page[p].run # NoRun /\ ~page[p].stopped /\ AServerIsUp
  /\ LET log == runs[page[p].run].log
         new == {i \in DOMAIN log : log[i].seq > page[p].after}
     IN page' = [page EXCEPT ![p].seen = @ \cup new,
                             ![p].after = Cursor(@, log, new),
                             ![p].stopped = StatusOfLog(log) \in {"finished", "failed"}]
  /\ UNCHANGED <<offered, runs, server, slot, job, starts, faults>>

JobStep(s) ==
  \/ \E ok \in BOOLEAN : JobOpens(s, ok) \/ Body(s, ok) \/ AppendFails(s, ok)
  \/ JobCounts(s) \/ JobAppends(s) \/ BodyReturns(s) \/ JobFrees(s)

JobsNext ==
  \/ \E s \in Servers : Serve(s) \/ SweepRead(s) \/ SweepStamp(s) \/ Binds(s) \/ Dies(s) \/ JobStep(s)
  \/ \E s \in Servers, t \in offered, begins \in BOOLEAN : Launch(s, t, begins)
  \/ \E p \in Pages : Poll(p) \/ \E r \in DOMAIN runs : OpenPage(p, r)

JobsFairness == \A s \in Servers : WF_jobsVars(JobStep(s))

JobsInit == offered \in Offers /\ JobsStart

JobsSpec == JobsInit /\ [][JobsNext]_jobsVars /\ JobsFairness

-----------------------------------------------------------------------------
Ended(r) == {i \in DOMAIN runs[r].log : runs[r].log[i].event \in {"finished", "failed", "interrupted"}}

(* A web run whose appends all succeeded never has a second terminal event nor  *)
(* any event after one, through deaths, sweeps and restarts (launch_job and    *)
(* mark_interrupted_runs promise exactly one).                                 *)
OneTerminalEvent ==
  \A r \in DOMAIN runs :
    runs[r].owner = "web" /\ ~runs[r].torn => Ended(r) \subseteq {Len(runs[r].log)}

(* While a server answers, a run that reports running has a live job: a run    *)
(* orphaned by a crash never reports running again (mark_interrupted_runs).    *)
RunningIsAlive ==
  AServerIsUp =>
    \A r \in DOMAIN runs :
      Status(r) = "running" /\ ~runs[r].torn =>
        \E s \in Servers : job[s].run = r /\ job[s].pc # "none"

(* A page that stopped polling has shown every event of its run.               *)
PageSeesAll ==
  \A p \in Pages :
    page[p].stopped /\ ~runs[page[p].run].torn => page[p].seen = DOMAIN runs[page[p].run].log

(* A job that reports success left everything its task writes, in its own run  *)
(* or in the run it minted.                                                    *)
FinishedHasArtifacts ==
  \A r \in DOMAIN runs :
    Status(r) = "finished" =>
      Artifacts(runs[r].task) \subseteq
        runs[r].artifacts \cup IF runs[r].minted = NoRun THEN {} ELSE runs[runs[r].minted].artifacts

(* Whoever looks at a run sees the truth: one last event, running only while    *)
(* its job lives, all events on the page, and a success with its artifacts.    *)
RunsTellTheTruth == OneTerminalEvent /\ RunningIsAlive /\ PageSeesAll /\ FinishedHasArtifacts

(* A slot is free again and again, unless the thread it was taken for never     *)
(* started and its run has no event: a job ends, or its server dies.            *)
SlotIsFreed ==
  \A s \in Servers : []<>(slot[s] # NoRun => job[s].pc = "none" /\ runs[slot[s]].log = << >>)
=============================================================================
