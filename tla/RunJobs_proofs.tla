----------------------------- MODULE RunJobs_proofs -----------------------------
(* Whoever looks at a run sees the truth, for any tasks, pages, runs, restarts   *)
(* and faults, as long as one server at a time answers for the project.          *)
EXTENDS RunJobs, SequenceTheorems, WellFoundedInduction, TLAPS

-----------------------------------------------------------------------------
(* The inductive invariant. *)

\* The program is started once: two servers would sweep each other's runs.
OneServer == \A s, t \in Servers : s = t

Endings == {"finished", "failed", "interrupted"}
Steps == Writes \cup {"announce", "work", "report", "summary", "error"}
Events == Endings \cup Steps \cup {"started", "awaiting_host"}
Owners == {"host", "command", "web"}
Tasks == (UNION Offers) \cup {"agent", "cite", "corpus"}
AnyEvent == [seq : Int, event : Events]
AnyRun == [owner : Owners, task : Tasks, log : Seq(AnyEvent), artifacts : SUBSET Writes,
           minted : Int, torn : BOOLEAN]
AnyServer == [pc : {"off", "sweep", "up"}, todo : Seq(Nat), seq : Int]
AnyJob == [pc : {"none", "open", "emit", "body", "end"}, run : Int, script : Seq(Steps),
           event : Events, seq : Int]
AnyPage == [run : Int, after : Int, seen : SUBSET Nat, stopped : BOOLEAN]

JobsTypeOK ==
  /\ offered \in Offers
  /\ runs \in Seq(AnyRun)
  /\ server \in [Servers -> AnyServer]
  /\ slot \in [Servers -> Int]
  /\ job \in [Servers -> AnyJob]
  /\ page \in [Pages -> AnyPage]

\* No event ends the log, or only its last one does; events are numbered as they stand.
Quiet(log)   == \A i \in DOMAIN log : log[i].event \notin Endings
Once(log)    == \A i \in DOMAIN log : log[i].event \in Endings => i = Len(log)
Counted(log) == \A i \in DOMAIN log : log[i].seq = i - 1

\* What a run and the run it minted have written.
Have(r) ==
  runs[r].artifacts \cup IF runs[r].minted = NoRun THEN {} ELSE runs[runs[r].minted].artifacts

MintedAt(r) ==
  runs[r].minted # NoRun => /\ runs[r].minted \in DOMAIN runs
                            /\ runs[runs[r].minted].owner = "command"
                            /\ runs[runs[r].minted].artifacts = {"+corpus"}

RunAt(r) ==
  /\ runs[r].owner = "web" /\ ~runs[r].torn => Once(runs[r].log) /\ Counted(runs[r].log)
  /\ runs[r].owner # "web" => Status(r) \notin {"running", "finished"}
  /\ MintedAt(r)
  /\ Status(r) = "finished" => Artifacts(runs[r].task) \subseteq Have(r)

\* A job is of a web run of a server that is up; what its task writes is written or
\* still in its script, and a log it can still append to is quiet.
JobFits(s, me) ==
  /\ me.pc # "none" => /\ server[s].pc = "up"
                       /\ me.run \in DOMAIN runs
                       /\ runs[me.run].owner = "web"
                       /\ slot[s] # NoRun
  /\ me.pc # "emit" => me.seq = NoRun
  /\ me.pc \in {"open", "emit", "body"} =>
       /\ Artifacts(runs[me.run].task) \subseteq Have(me.run) \cup Range(me.script)
       /\ ~runs[me.run].torn => Quiet(runs[me.run].log)
  /\ me.event # "interrupted"
  /\ me.pc = "emit" =>
       /\ me.event = "finished" => me.script = << >>
       /\ me.seq # NoRun /\ ~runs[me.run].torn => me.seq = Len(runs[me.run].log)
  /\ me.pc = "end" /\ ~runs[me.run].torn => Status(me.run) # "running"

JobAt(s) == JobFits(s, job[s])

\* The sweep still has to look at every run that reports running.
SweepAt(s) ==
  LET me == server[s] IN
  /\ me.pc = "sweep" =>
       /\ \A i \in DOMAIN me.todo : me.todo[i] \in DOMAIN runs
       /\ \A r \in DOMAIN runs : Status(r) = "running" => \E i \in DOMAIN me.todo : me.todo[i] = r
       /\ me.seq # NoRun => /\ me.todo # << >>
                            /\ Status(Head(me.todo)) = "running"
                            /\ me.seq = Len(runs[Head(me.todo)].log)
  /\ me.pc = "up" =>
       \A r \in DOMAIN runs :
         Status(r) = "running" /\ ~runs[r].torn => job[s].run = r /\ job[s].pc # "none"

\* A page has seen the events up to its cursor; a page that stopped has seen the end.
PageAt(p) ==
  LET me == page[p] IN
  IF me.run = NoRun THEN ~me.stopped
  ELSE /\ me.run \in DOMAIN runs
       /\ runs[me.run].owner = "web"
       /\ ~runs[me.run].torn =>
            /\ me.after < Len(runs[me.run].log) /\ me.after >= -1
            /\ me.seen = 1 .. me.after + 1
            /\ me.stopped => /\ Status(me.run) \in {"finished", "failed"}
                             /\ me.seen = DOMAIN runs[me.run].log

RunsOK == \A r \in DOMAIN runs : RunAt(r)
PagesOK == \A p \in Pages : PageAt(p)

JobsInv ==
  /\ JobsTypeOK
  /\ RunsOK
  /\ \A s \in Servers : JobAt(s) /\ SweepAt(s)
  /\ PagesOK

-----------------------------------------------------------------------------
(* Logs and runs. *)

LEMMA LogGrows ==
  ASSUME NEW log \in Seq(AnyEvent), NEW n \in Int, NEW event \in Events
  PROVE  LET more == Append(log, [seq |-> n, event |-> event]) IN
         /\ more \in Seq(AnyEvent)
         /\ Len(more) = Len(log) + 1
         /\ StatusOfLog(more) = IF event \in Terminal THEN event ELSE "running"
         /\ Quiet(log) => Once(more)
         /\ Quiet(log) /\ event \notin Endings => Quiet(more)
         /\ Counted(log) /\ n = Len(log) => Counted(more)
<1> DEFINE e == [seq |-> n, event |-> event]
           more == Append(log, e)
<1>1. e \in AnyEvent
  BY DEF AnyEvent
<1>2. /\ more \in Seq(AnyEvent)
      /\ Len(more) = Len(log) + 1
      /\ \A i \in 1 .. Len(log) : more[i] = log[i]
      /\ more[Len(log) + 1] = e
  BY <1>1, AppendProperties
<1>3. DOMAIN log = 1 .. Len(log) /\ DOMAIN more = 1 .. Len(log) + 1 /\ Len(log) \in Nat /\ more # << >>
  BY <1>2
<1>4. Last(more) = e
  BY <1>2 DEF Last
<1>5. e.seq = n /\ e.event = event
  OBVIOUS
<1> HIDE DEF e, more
<1>6. StatusOfLog(more) = IF event \in Terminal THEN event ELSE "running"
  BY <1>3, <1>4, <1>5 DEF StatusOfLog
<1>7. \A i \in DOMAIN more : (i \in DOMAIN log /\ more[i] = log[i]) \/ (i = Len(more) /\ more[i] = e)
  BY <1>2, <1>3
<1>8. Quiet(log) => Once(more)
  BY <1>7 DEF Quiet, Once
<1>9. Quiet(log) /\ event \notin Endings => Quiet(more)
  BY <1>5, <1>7 DEF Quiet
<1>10. Counted(log) /\ n = Len(log) => Counted(more)
  BY <1>2, <1>3, <1>5, <1>7 DEF Counted
<1> QED BY <1>2, <1>6, <1>8, <1>9, <1>10 DEF e, more

\* A log that runs has no end in it.
LEMMA RunningIsQuiet ==
  ASSUME NEW log \in Seq(AnyEvent), Once(log), StatusOfLog(log) = "running"
  PROVE  Quiet(log)
<1>1. log # << >> /\ Last(log).event \notin Terminal
  BY DEF StatusOfLog, Terminal
<1>2. log[Len(log)].event \notin Endings
  BY <1>1 DEF Last, Terminal, Endings
<1> QED BY <1>2 DEF Once, Quiet

\* A quiet log does not report an end.
LEMMA QuietIsOpen ==
  ASSUME NEW log \in Seq(AnyEvent), Quiet(log)
  PROVE  StatusOfLog(log) \notin {"finished", "failed", "interrupted"}
<1>1. CASE log = << >>
  BY <1>1 DEF StatusOfLog
<1>2. CASE log # << >>
  <2>1. Len(log) \in DOMAIN log
    BY <1>2
  <2>2. Last(log).event \notin Endings
    BY <2>1 DEF Last, Quiet
  <2> QED BY <1>2, <2>2 DEF StatusOfLog, Endings
<1> QED BY <1>1, <1>2

LEMMA FreshRunIsARun ==
  ASSUME NEW owner \in Owners, NEW task \in Tasks
  PROVE  FreshRun(owner, task) \in AnyRun
<1>1. << >> \in Seq(AnyEvent)
  OBVIOUS
<1> QED BY <1>1 DEF FreshRun, AnyRun, NoRun

Appending(r, n, event, torn) == [AppendEvent(r, n, event) EXCEPT ![r].torn = torn]

\* An event in the log of one run changes nothing else.
LEMMA RunAppended ==
  ASSUME runs \in Seq(AnyRun), NEW r \in DOMAIN runs, NEW n \in Int, NEW event \in Events,
         NEW torn \in BOOLEAN, torn = runs[r].torn \/ torn = TRUE,
         runs' = Appending(r, n, event, torn)
  PROVE  /\ runs' \in Seq(AnyRun)
         /\ DOMAIN runs' = DOMAIN runs /\ Len(runs') = Len(runs)
         /\ \A q \in DOMAIN runs : q # r => runs'[q] = runs[q]
         /\ \A q \in DOMAIN runs : /\ runs'[q].owner = runs[q].owner
                                   /\ runs'[q].task = runs[q].task
                                   /\ runs'[q].artifacts = runs[q].artifacts
                                   /\ runs'[q].minted = runs[q].minted
         /\ runs'[r].log = Append(runs[r].log, [seq |-> n, event |-> event])
         /\ runs'[r].torn = torn
<1> DEFINE e == [seq |-> n, event |-> event]
           more == Append(runs[r].log, e)
<1>1. runs[r] \in AnyRun
  OBVIOUS
<1>2. more \in Seq(AnyEvent)
  BY <1>1 DEF AnyRun, AnyEvent
<1>3. runs' = [runs EXCEPT ![r] = [runs[r] EXCEPT !.log = more, !.torn = torn]]
  BY <1>1 DEF AppendEvent, Appending, AnyRun
<1> HIDE DEF more
<1> DEFINE new == [runs[r] EXCEPT !.log = more, !.torn = torn]
<1>4. new \in AnyRun /\ new.log = more /\ new.torn = torn /\ new.owner = runs[r].owner
      /\ new.task = runs[r].task /\ new.artifacts = runs[r].artifacts /\ new.minted = runs[r].minted
  BY <1>1, <1>2 DEF AnyRun
<1> HIDE DEF new
<1>5. runs' = [runs EXCEPT ![r] = new]
  BY <1>3 DEF new
<1>6. /\ runs' \in Seq(AnyRun) /\ DOMAIN runs' = DOMAIN runs /\ Len(runs') = Len(runs)
      /\ runs'[r] = new /\ \A q \in DOMAIN runs : q # r => runs'[q] = runs[q]
  <2>1. DOMAIN runs = 1 .. Len(runs) /\ r \in 1 .. Len(runs)
    OBVIOUS
  <2>2. /\ runs' \in Seq(AnyRun) /\ Len(runs') = Len(runs)
        /\ \A q \in 1 .. Len(runs) : runs'[q] = IF q = r THEN new ELSE runs[q]
    <3> DEFINE rest == [runs EXCEPT ![r] = new]
    <3>1. /\ rest \in Seq(AnyRun) /\ Len(rest) = Len(runs)
          /\ \A q \in 1 .. Len(runs) : rest[q] = IF q = r THEN new ELSE runs[q]
      BY <1>4, <2>1, ExceptSeq
    <3> HIDE DEF rest
    <3> QED BY <1>5, <3>1 DEF rest
  <2>3. DOMAIN runs' = 1 .. Len(runs)
    BY <2>2
  <2> QED BY <2>1, <2>2, <2>3
<1> QED BY <1>4, <1>6 DEF more, e

\* A run that lost an append keeps what it says.
LEMMA RunTorn ==
  ASSUME runs \in Seq(AnyRun), NEW r \in DOMAIN runs, runs' = [runs EXCEPT ![r].torn = TRUE]
  PROVE  /\ runs' \in Seq(AnyRun)
         /\ DOMAIN runs' = DOMAIN runs
         /\ \A q \in DOMAIN runs : q # r => runs'[q] = runs[q]
         /\ \A q \in DOMAIN runs : /\ runs'[q].owner = runs[q].owner
                                   /\ runs'[q].task = runs[q].task
                                   /\ runs'[q].artifacts = runs[q].artifacts
                                   /\ runs'[q].minted = runs[q].minted
                                   /\ runs'[q].log = runs[q].log
         /\ runs'[r].torn
<1> DEFINE new == [runs[r] EXCEPT !.torn = TRUE]
           rest == [runs EXCEPT ![r] = new]
<1>0. runs[r] \in AnyRun
  OBVIOUS
<1>1. new \in AnyRun /\ new.log = runs[r].log /\ new.torn /\ new.owner = runs[r].owner
      /\ new.task = runs[r].task /\ new.artifacts = runs[r].artifacts /\ new.minted = runs[r].minted
  BY <1>0 DEF AnyRun
<1>2. DOMAIN runs = 1 .. Len(runs) /\ r \in 1 .. Len(runs)
  OBVIOUS
<1>3. runs' = rest
  OBVIOUS
<1> HIDE DEF new
<1>4. /\ rest \in Seq(AnyRun) /\ Len(rest) = Len(runs)
      /\ \A q \in 1 .. Len(runs) : rest[q] = IF q = r THEN new ELSE runs[q]
  BY <1>1, <1>2, ExceptSeq
<1> HIDE DEF rest
<1>5. DOMAIN rest = 1 .. Len(runs)
  BY <1>4
<1> QED BY <1>1, <1>2, <1>3, <1>4, <1>5

-----------------------------------------------------------------------------
(* What the steps do to runs and pages. *)

\* An event goes to a run whose log is quiet, with its number, or to a torn one.
LEMMA EventKeepsRuns ==
  ASSUME JobsTypeOK, RunsOK, PagesOK, NEW r \in DOMAIN runs, runs[r].owner = "web",
         NEW n \in Int, NEW event \in Events, NEW torn \in BOOLEAN, torn = runs[r].torn \/ torn = TRUE,
         ~runs[r].torn => Quiet(runs[r].log) /\ n = Len(runs[r].log),
         event = "finished" => Artifacts(runs[r].task) \subseteq Have(r),
         runs' = Appending(r, n, event, torn),
         page' = page
  PROVE  /\ runs' \in Seq(AnyRun) /\ DOMAIN runs' = DOMAIN runs
         /\ \A q \in DOMAIN runs : q # r => runs'[q] = runs[q]
         /\ \A q \in DOMAIN runs : /\ runs'[q].owner = runs[q].owner
                                   /\ runs'[q].task = runs[q].task
                                   /\ Have(q)' = Have(q)
         /\ runs'[r].torn = torn
         /\ Status(r)' = IF event \in Terminal THEN event ELSE "running"
         /\ Quiet(runs[r].log) /\ event \notin Endings => Quiet(runs'[r].log)
         /\ RunsOK' /\ PagesOK'
<1>0. runs \in Seq(AnyRun)
  BY DEF JobsTypeOK
<1>1. /\ runs' \in Seq(AnyRun)
      /\ DOMAIN runs' = DOMAIN runs
      /\ \A q \in DOMAIN runs : q # r => runs'[q] = runs[q]
      /\ \A q \in DOMAIN runs : /\ runs'[q].owner = runs[q].owner
                                /\ runs'[q].task = runs[q].task
                                /\ runs'[q].artifacts = runs[q].artifacts
                                /\ runs'[q].minted = runs[q].minted
      /\ runs'[r].log = Append(runs[r].log, [seq |-> n, event |-> event])
      /\ runs'[r].torn = torn
  BY <1>0, RunAppended
<1>2. runs[r].log \in Seq(AnyEvent)
  <2>1. runs[r] \in AnyRun
    BY <1>0
  <2> QED BY <2>1 DEF AnyRun
<1>3. /\ Len(runs'[r].log) = Len(runs[r].log) + 1
      /\ Status(r)' = IF event \in Terminal THEN event ELSE "running"
      /\ Quiet(runs[r].log) => Once(runs'[r].log)
      /\ Quiet(runs[r].log) /\ event \notin Endings => Quiet(runs'[r].log)
      /\ Counted(runs[r].log) /\ n = Len(runs[r].log) => Counted(runs'[r].log)
  <2> DEFINE more == Append(runs[r].log, [seq |-> n, event |-> event])
  <2>1. /\ Len(more) = Len(runs[r].log) + 1
        /\ StatusOfLog(more) = IF event \in Terminal THEN event ELSE "running"
        /\ Quiet(runs[r].log) => Once(more)
        /\ Quiet(runs[r].log) /\ event \notin Endings => Quiet(more)
        /\ Counted(runs[r].log) /\ n = Len(runs[r].log) => Counted(more)
    BY <1>2, LogGrows
  <2>2. runs'[r].log = more
    BY <1>1
  <2> HIDE DEF more
  <2> QED BY <2>1, <2>2 DEF Status
<1>4. \A q \in DOMAIN runs : runs[q].minted # NoRun => runs[q].minted \in DOMAIN runs
  BY DEF RunsOK, RunAt, MintedAt
<1>5. \A q \in DOMAIN runs : Have(q)' = Have(q)
  BY <1>1, <1>4 DEF Have
<1>6. \A q \in DOMAIN runs : q # r => Status(q)' = Status(q)
  BY <1>1 DEF Status
<1>7. ASSUME NEW q \in DOMAIN runs PROVE RunAt(q)'
  <2>1. RunAt(q)
    BY DEF RunsOK
  <2>2. MintedAt(q)'
    BY <1>1, <2>1 DEF RunAt, MintedAt
  <2>3. CASE q # r
    BY <1>1, <1>5, <1>6, <2>1, <2>2, <2>3 DEF RunAt
  <2>4. CASE q = r
    <3>1. ~runs'[r].torn => Once(runs'[r].log) /\ Counted(runs'[r].log)
      BY <1>1, <1>3, <2>1, <2>4 DEF RunAt
    <3>2. Status(r)' = "finished" => Artifacts(runs'[r].task) \subseteq Have(r)'
      BY <1>1, <1>3, <1>5
    <3> QED BY <1>1, <2>2, <2>4, <3>1, <3>2 DEF RunAt
  <2> QED BY <2>3, <2>4
<1>8. ASSUME NEW p \in Pages PROVE PageAt(p)'
  <2>1. PageAt(p) /\ page'[p] = page[p]
    BY DEF PagesOK
  <2>2. CASE page[p].run = NoRun
    BY <2>1, <2>2 DEF PageAt
  <2>3. CASE page[p].run # NoRun /\ page[p].run # r
    <3> DEFINE q == page[p].run
    <3>1. q \in DOMAIN runs /\ q # r
      BY <2>1, <2>3 DEF PageAt
    <3>2. runs'[q] = runs[q] /\ Status(q)' = Status(q)
      BY <1>1, <1>6, <3>1
    <3> QED BY <1>1, <2>1, <2>3, <3>1, <3>2 DEF PageAt
  <2>4. CASE page[p].run # NoRun /\ page[p].run = r
    <3>1. ~runs[r].torn => ~page[p].stopped
      BY <1>2, <2>1, <2>4, QuietIsOpen DEF PageAt, Status
    <3>2. page[p].after \in Int
      BY DEF JobsTypeOK, AnyPage
    <3>3. Len(runs[r].log) \in Nat
      BY <1>2
    <3>4. ~runs'[r].torn => ~runs[r].torn
      BY <1>1
    <3> QED BY <1>1, <1>3, <2>1, <2>4, <3>1, <3>2, <3>3, <3>4 DEF PageAt
  <2> QED BY <2>2, <2>3, <2>4
<1>9. RunsOK' /\ PagesOK'
  BY <1>1, <1>7, <1>8 DEF RunsOK, PagesOK
<1> QED BY <1>1, <1>3, <1>5, <1>9

\* An append that failed before it wrote.
LEMMA TearKeepsRuns ==
  ASSUME JobsTypeOK, RunsOK, PagesOK, NEW r \in DOMAIN runs,
         runs' = [runs EXCEPT ![r].torn = TRUE], page' = page
  PROVE  /\ runs' \in Seq(AnyRun) /\ DOMAIN runs' = DOMAIN runs
         /\ \A q \in DOMAIN runs : q # r => runs'[q] = runs[q]
         /\ \A q \in DOMAIN runs : /\ runs'[q].owner = runs[q].owner
                                   /\ runs'[q].task = runs[q].task
                                   /\ Have(q)' = Have(q)
                                   /\ Status(q)' = Status(q)
         /\ runs'[r].torn
         /\ RunsOK' /\ PagesOK'
<1>1. /\ runs' \in Seq(AnyRun)
      /\ DOMAIN runs' = DOMAIN runs
      /\ \A q \in DOMAIN runs : q # r => runs'[q] = runs[q]
      /\ \A q \in DOMAIN runs : /\ runs'[q].owner = runs[q].owner
                                /\ runs'[q].task = runs[q].task
                                /\ runs'[q].artifacts = runs[q].artifacts
                                /\ runs'[q].minted = runs[q].minted
                                /\ runs'[q].log = runs[q].log
      /\ runs'[r].torn
  BY RunTorn DEF JobsTypeOK
<1>2. \A q \in DOMAIN runs : runs[q].minted # NoRun => runs[q].minted \in DOMAIN runs
  BY DEF RunsOK, RunAt, MintedAt
<1>3. \A q \in DOMAIN runs : Have(q)' = Have(q) /\ Status(q)' = Status(q)
  BY <1>1, <1>2 DEF Have, Status
<1>4. ASSUME NEW q \in DOMAIN runs PROVE RunAt(q)'
  <2>1. RunAt(q)
    BY DEF RunsOK
  <2>2. ~runs'[q].torn => ~runs[q].torn
    BY <1>1
  <2>3. MintedAt(q)'
    BY <1>1, <2>1 DEF RunAt, MintedAt
  <2> QED BY <1>1, <1>3, <2>1, <2>2, <2>3 DEF RunAt
<1>5. ASSUME NEW p \in Pages PROVE PageAt(p)'
  <2>1. PageAt(p) /\ page'[p] = page[p]
    BY DEF PagesOK
  <2>2. \A q \in DOMAIN runs : ~runs'[q].torn => ~runs[q].torn
    BY <1>1
  <2>3. CASE page[p].run = NoRun
    BY <2>1, <2>3 DEF PageAt
  <2>4. CASE page[p].run # NoRun
    BY <1>1, <1>3, <2>1, <2>2, <2>4 DEF PageAt
  <2> QED BY <2>3, <2>4
<1>6. RunsOK' /\ PagesOK'
  BY <1>1, <1>4, <1>5 DEF RunsOK, PagesOK
<1> QED BY <1>1, <1>3, <1>6

\* Runs are added and artifacts written; no log changes.
LEMMA WorkKeepsRuns ==
  ASSUME JobsTypeOK, RunsOK, PagesOK, page' = page,
         runs' \in Seq(AnyRun), Len(runs) <= Len(runs'),
         \A q \in DOMAIN runs : /\ runs'[q].owner = runs[q].owner
                                /\ runs'[q].task = runs[q].task
                                /\ runs'[q].log = runs[q].log
                                /\ runs'[q].torn = runs[q].torn
                                /\ Have(q) \subseteq Have(q)',
         \A q \in DOMAIN runs' : MintedAt(q)',
         \A q \in DOMAIN runs' \ DOMAIN runs : runs'[q].log = << >>
  PROVE  /\ DOMAIN runs \subseteq DOMAIN runs'
         /\ \A q \in DOMAIN runs : Status(q)' = Status(q)
         /\ \A q \in DOMAIN runs' \ DOMAIN runs : Status(q)' = "none"
         /\ RunsOK' /\ PagesOK'
<1>1. DOMAIN runs \subseteq DOMAIN runs'
  <2>1. DOMAIN runs = 1 .. Len(runs) /\ DOMAIN runs' = 1 .. Len(runs') /\ Len(runs) \in Nat /\ Len(runs') \in Nat
    BY DEF JobsTypeOK
  <2> QED BY <2>1
<1>2. \A q \in DOMAIN runs : Status(q)' = Status(q)
  BY DEF Status
<1>3. \A q \in DOMAIN runs' \ DOMAIN runs : Status(q)' = "none"
  BY DEF Status, StatusOfLog
<1>4. ASSUME NEW q \in DOMAIN runs' PROVE RunAt(q)'
  <2>1. CASE q \in DOMAIN runs
    <3>1. RunAt(q)
      BY <2>1 DEF RunsOK
    <3> QED BY <1>2, <2>1, <3>1 DEF RunAt
  <2>2. CASE q \notin DOMAIN runs
    <3>1. runs'[q].log = << >> /\ Status(q)' = "none"
      BY <1>3, <2>2
    <3>2. Once(runs'[q].log) /\ Counted(runs'[q].log)
      BY <3>1 DEF Once, Counted
    <3> QED BY <3>1, <3>2 DEF RunAt
  <2> QED BY <2>1, <2>2
<1>5. ASSUME NEW p \in Pages PROVE PageAt(p)'
  <2>1. PageAt(p) /\ page'[p] = page[p]
    BY DEF PagesOK
  <2>2. CASE page[p].run = NoRun
    BY <2>1, <2>2 DEF PageAt
  <2>3. CASE page[p].run # NoRun
    <3>1. page[p].run \in DOMAIN runs /\ page[p].run \in DOMAIN runs'
      BY <1>1, <2>1, <2>3 DEF PageAt
    <3> QED BY <1>2, <2>1, <2>3, <3>1 DEF PageAt
  <2> QED BY <2>2, <2>3
<1> QED BY <1>1, <1>2, <1>3, <1>4, <1>5 DEF RunsOK, PagesOK

LEMMA RunsRest ==
  ASSUME JobsInv, UNCHANGED <<runs, page>>
  PROVE  /\ DOMAIN runs' = DOMAIN runs
         /\ \A q \in DOMAIN runs : Status(q)' = Status(q) /\ Have(q)' = Have(q)
         /\ RunsOK' /\ PagesOK'
<1>1. RunsOK /\ PagesOK
  BY DEF JobsInv
<1> QED BY <1>1 DEF RunsOK, PagesOK, RunAt, MintedAt, PageAt, Status, Have

\* Since there is one server, what a step does it does to all of them.
LEMMA OfOneServer ==
  ASSUME OneServer, NEW s \in Servers, JobsTypeOK', RunsOK', JobAt(s)', SweepAt(s)', PagesOK'
  PROVE  JobsInv'
<1>1. \A t \in Servers : t = s
  BY DEF OneServer
<1>2. \A t \in Servers : JobAt(t)' /\ SweepAt(t)'
  BY <1>1
<1> QED BY <1>2 DEF JobsInv

-----------------------------------------------------------------------------
(* Servers start, sweep and die. *)

LEMMA ServeKeeps ==
  ASSUME OneServer, JobsInv, NEW s \in Servers, Serve(s)
  PROVE  JobsInv'
<1> USE DEF JobsInv
<1> DEFINE all == [i \in DOMAIN runs |-> i]
<1>1. /\ server[s].pc = "off"
      /\ server' = [server EXCEPT ![s] = [pc |-> "sweep", todo |-> all, seq |-> NoRun]]
      /\ UNCHANGED <<offered, runs, slot, job, page, faults>>
  BY DEF Serve
<1>2. RunsOK' /\ PagesOK' /\ DOMAIN runs' = DOMAIN runs /\ \A q \in DOMAIN runs : Status(q)' = Status(q)
  BY <1>1, RunsRest
<1>3. all \in Seq(Nat) /\ DOMAIN all = DOMAIN runs /\ \A i \in DOMAIN runs : all[i] = i
  <2>1. DOMAIN runs = 1 .. Len(runs) /\ Len(runs) \in Nat
    BY DEF JobsTypeOK
  <2> QED BY <2>1
<1> HIDE DEF all
<1>4. server'[s] = [pc |-> "sweep", todo |-> all, seq |-> NoRun]
  BY <1>1 DEF JobsTypeOK, AnyServer
<1>5. JobsTypeOK'
  BY <1>1, <1>3 DEF JobsTypeOK, AnyServer, NoRun
<1>6. JobAt(s)'
  <2>1. job[s].pc = "none" /\ JobAt(s)
    BY <1>1 DEF JobAt, JobFits
  <2> QED BY <1>1, <2>1 DEF JobAt, JobFits
<1>7. SweepAt(s)'
  BY <1>2, <1>3, <1>4 DEF SweepAt
<1> QED BY <1>2, <1>5, <1>6, <1>7, OfOneServer

LEMMA SweepReadKeeps ==
  ASSUME OneServer, JobsInv, NEW s \in Servers, SweepRead(s)
  PROVE  JobsInv'
<1> USE DEF JobsInv
<1> DEFINE todo == server[s].todo
<1>1. /\ server[s].pc = "sweep" /\ todo # << >> /\ server[s].seq = NoRun
      /\ server' = IF Stamps(Head(todo)) THEN [server EXCEPT ![s].seq = Len(runs[Head(todo)].log)]
                   ELSE [server EXCEPT ![s].todo = Tail(@)]
      /\ UNCHANGED <<offered, runs, slot, job, page, starts, faults>>
  BY DEF SweepRead
<1>2. RunsOK' /\ PagesOK' /\ DOMAIN runs' = DOMAIN runs /\ \A q \in DOMAIN runs : Status(q)' = Status(q)
  BY <1>1, RunsRest
<1>3. todo \in Seq(Nat) /\ runs \in Seq(AnyRun)
  BY DEF JobsTypeOK, AnyServer
<1>4. /\ \A i \in DOMAIN todo : todo[i] \in DOMAIN runs
      /\ \A r \in DOMAIN runs : Status(r) = "running" => \E i \in DOMAIN todo : todo[i] = r
  BY <1>1 DEF SweepAt
<1>5. Head(todo) = todo[1] /\ 1 \in DOMAIN todo /\ Head(todo) \in DOMAIN runs
  BY <1>1, <1>3, <1>4
<1>6. JobAt(s)'
  <2>1. job[s].pc = "none" /\ JobAt(s)
    BY <1>1 DEF JobAt, JobFits
  <2> QED BY <1>1, <2>1 DEF JobAt, JobFits
<1>7. CASE Stamps(Head(todo))
  <2>1. runs[Head(todo)] \in AnyRun
    BY <1>3, <1>5
  <2>2. Len(runs[Head(todo)].log) \in Nat
    <3>1. runs[Head(todo)].log \in Seq(AnyEvent)
      BY <2>1 DEF AnyRun
    <3> QED BY <3>1
  <2>3. PICK h \in DOMAIN runs, n \in Nat :
             h = Head(todo) /\ n = Len(runs[h].log) /\ server' = [server EXCEPT ![s].seq = n]
    BY <1>1, <1>5, <1>7, <2>2
  <2>4. server'[s].pc = "sweep" /\ server'[s].todo = todo /\ server'[s].seq = n
    BY <1>1, <2>3 DEF JobsTypeOK, AnyServer
  <2>5. JobsTypeOK'
    <3>1. server' = [server EXCEPT ![s].seq = n] /\ n \in Int
      BY <2>3
    <3>2. server \in [Servers -> AnyServer]
      BY DEF JobsTypeOK
    <3>3. server' \in [Servers -> AnyServer]
      BY <3>1, <3>2 DEF AnyServer
    <3> QED BY <1>1, <3>3 DEF JobsTypeOK
  <2>6. Status(h) = "running"
    BY <1>7, <2>3 DEF Stamps
  <2>7. todo # << >> /\ h = Head(todo) /\ n = Len(runs[h].log)
    BY <1>1, <2>3
  <2> HIDE DEF todo
  <2>8. (Status(Head(server[s].todo)) = "running" /\ server[s].seq = Len(runs[Head(server[s].todo)].log))'
    BY <1>1, <2>4, <2>6, <2>7 DEF Status
  <2>9. SweepAt(s)'
    <3>1. (\A i \in DOMAIN server[s].todo : server[s].todo[i] \in DOMAIN runs)'
      BY <1>2, <1>4, <2>4
    <3>2. (\A r \in DOMAIN runs :
             Status(r) = "running" => \E i \in DOMAIN server[s].todo : server[s].todo[i] = r)'
      BY <1>2, <1>4, <2>4
    <3>3. (server[s].todo # << >>)' /\ (server[s].pc = "sweep")'
      BY <2>4, <2>7
    <3> QED BY <2>8, <3>1, <3>2, <3>3 DEF SweepAt
  <2> QED BY <1>2, <1>6, <2>5, <2>9, OfOneServer
<1>8. CASE ~Stamps(Head(todo))
  <2>1. server' = [server EXCEPT ![s].todo = Tail(todo)]
    BY <1>1, <1>8
  <2>2. /\ Tail(todo) \in Seq(Nat)
        /\ \A i \in DOMAIN Tail(todo) : i + 1 \in DOMAIN todo /\ Tail(todo)[i] = todo[i + 1]
        /\ \A i \in DOMAIN todo : i # 1 => i - 1 \in DOMAIN Tail(todo) /\ Tail(todo)[i - 1] = todo[i]
    <3> HIDE DEF todo
    <3>1. /\ Tail(todo) \in Seq(Nat) /\ Len(Tail(todo)) = Len(todo) - 1
          /\ \A i \in 1 .. Len(Tail(todo)) : Tail(todo)[i] = todo[i + 1]
      BY <1>1, <1>3, HeadTailProperties
    <3>2. DOMAIN todo = 1 .. Len(todo) /\ DOMAIN Tail(todo) = 1 .. Len(todo) - 1 /\ Len(todo) \in Nat
      BY <1>3, <3>1
    <3> QED BY <3>1, <3>2
  <2>3. /\ server'[s].pc = "sweep" /\ server'[s].todo = Tail(todo) /\ server'[s].seq = NoRun
    BY <1>1, <2>1 DEF JobsTypeOK, AnyServer
  <2>4. JobsTypeOK'
    BY <1>1, <2>1, <2>2 DEF JobsTypeOK, AnyServer
  <2>5. Status(Head(todo)) # "running"
    <3>1. RunAt(Head(todo))
      BY <1>5 DEF RunsOK
    <3> QED BY <1>8, <3>1 DEF Stamps, RunAt
  <2> HIDE DEF todo
  <2>6. \A r \in DOMAIN runs : Status(r) = "running" => \E i \in DOMAIN Tail(todo) : Tail(todo)[i] = r
    <3>1. ASSUME NEW r \in DOMAIN runs, Status(r) = "running"
          PROVE  \E i \in DOMAIN Tail(todo) : Tail(todo)[i] = r
      <4>1. PICK i \in DOMAIN todo : todo[i] = r
        BY <1>4, <3>1
      <4>2. i # 1
        BY <1>5, <2>5, <3>1, <4>1
      <4> QED BY <2>2, <4>1, <4>2
    <3> QED BY <3>1
  <2>7. SweepAt(s)'
    BY <1>1, <1>2, <1>4, <2>2, <2>3, <2>6 DEF SweepAt
  <2> QED BY <1>2, <1>6, <2>4, <2>7, OfOneServer
<1> QED BY <1>7, <1>8

LEMMA SweepStampKeeps ==
  ASSUME OneServer, JobsInv, NEW s \in Servers, SweepStamp(s)
  PROVE  JobsInv'
<1> USE DEF JobsInv
<1>1. PICK todo, n :
           /\ todo = server[s].todo /\ n = server[s].seq
           /\ server[s].pc = "sweep" /\ n # NoRun
           /\ runs' = AppendEvent(Head(todo), n, "interrupted")
           /\ server' = [server EXCEPT ![s].todo = Tail(todo), ![s].seq = NoRun]
           /\ UNCHANGED <<offered, slot, job, page, starts, faults>>
  BY DEF SweepStamp
<1>2. todo \in Seq(Nat) /\ n \in Int /\ runs \in Seq(AnyRun)
  BY <1>1 DEF JobsTypeOK, AnyServer
<1>3. /\ todo # << >>
      /\ Status(Head(todo)) = "running"
      /\ n = Len(runs[Head(todo)].log)
      /\ \A i \in DOMAIN todo : todo[i] \in DOMAIN runs
      /\ \A r \in DOMAIN runs : Status(r) = "running" => \E i \in DOMAIN todo : todo[i] = r
  BY <1>1 DEF SweepAt
<1>4. PICK h \in DOMAIN runs : h = todo[1] /\ h = Head(todo)
  BY <1>2, <1>3
<1>5. /\ Tail(todo) \in Seq(Nat)
      /\ \A i \in DOMAIN Tail(todo) : i + 1 \in DOMAIN todo /\ Tail(todo)[i] = todo[i + 1]
      /\ \A i \in DOMAIN todo : i # 1 => i - 1 \in DOMAIN Tail(todo) /\ Tail(todo)[i - 1] = todo[i]
  <2>1. /\ Tail(todo) \in Seq(Nat) /\ Len(Tail(todo)) = Len(todo) - 1
        /\ \A i \in 1 .. Len(Tail(todo)) : Tail(todo)[i] = todo[i + 1]
    BY <1>2, <1>3, HeadTailProperties
  <2>2. DOMAIN todo = 1 .. Len(todo) /\ DOMAIN Tail(todo) = 1 .. Len(todo) - 1 /\ Len(todo) \in Nat
    BY <1>2, <2>1
  <2> QED BY <2>1, <2>2
<1>6. runs[h].owner = "web" /\ (~runs[h].torn => Quiet(runs[h].log) /\ n = Len(runs[h].log))
  <2>1. RunAt(h) /\ Status(h) = "running"
    BY <1>3, <1>4 DEF RunsOK
  <2>2. runs[h].log \in Seq(AnyEvent)
    <3>1. runs[h] \in AnyRun
      BY <1>2
    <3> QED BY <3>1 DEF AnyRun
  <2>3. runs[h].owner = "web" /\ (~runs[h].torn => Once(runs[h].log))
    BY <2>1 DEF RunAt
  <2>4. Once(runs[h].log) => Quiet(runs[h].log)
    BY <2>1, <2>2, RunningIsQuiet DEF Status
  <2> QED BY <1>3, <1>4, <2>3, <2>4
<1>7. runs' = Appending(h, n, "interrupted", runs[h].torn)
  <2>1. runs[h] \in AnyRun /\ DOMAIN runs = 1 .. Len(runs)
    BY <1>2
  <2> QED BY <1>1, <1>4, <2>1 DEF Appending, AppendEvent, AnyRun
<1>8. /\ runs' \in Seq(AnyRun) /\ DOMAIN runs' = DOMAIN runs
      /\ \A q \in DOMAIN runs : q # h => runs'[q] = runs[q]
      /\ Status(h)' = "interrupted"
      /\ RunsOK' /\ PagesOK'
  <2>0. runs[h].torn \in BOOLEAN
    <3>1. runs[h] \in AnyRun
      BY <1>2
    <3> QED BY <3>1 DEF AnyRun
  <2>1. "interrupted" \in Terminal /\ "interrupted" # "finished" /\ "interrupted" \in Events
    BY DEF Terminal, Events, Endings
  <2>2. page' = page
    BY <1>1
  <2> HIDE DEF JobsInv
  <2>3. JobsTypeOK /\ RunsOK /\ PagesOK
    BY DEF JobsInv
  <2>4. PICK event \in Events, torn \in BOOLEAN : event = "interrupted" /\ torn = runs[h].torn
    BY <2>0, <2>1
  <2>5. runs' = Appending(h, n, event, torn)
    BY <1>7, <2>4
  <2>6. event \in Terminal /\ event # "finished"
    BY <2>1, <2>4
  <2>7. /\ runs' \in Seq(AnyRun) /\ DOMAIN runs' = DOMAIN runs
        /\ \A q \in DOMAIN runs : q # h => runs'[q] = runs[q]
        /\ Status(h)' = event
        /\ RunsOK' /\ PagesOK'
    BY <1>2, <1>6, <2>2, <2>3, <2>4, <2>5, <2>6, EventKeepsRuns
  <2> QED BY <2>4, <2>7
<1>9. server'[s].pc = "sweep" /\ server'[s].todo = Tail(todo) /\ server'[s].seq = NoRun
  BY <1>1 DEF JobsTypeOK, AnyServer
<1>10. JobsTypeOK'
  BY <1>1, <1>5, <1>8 DEF JobsTypeOK, AnyServer, NoRun
<1>11. JobAt(s)'
  <2>1. job[s].pc = "none" /\ JobAt(s)
    BY <1>1 DEF JobAt, JobFits
  <2> QED BY <1>1, <2>1 DEF JobAt, JobFits
<1>12. ASSUME NEW r \in DOMAIN runs, Status(r)' = "running"
       PROVE  \E i \in DOMAIN Tail(todo) : Tail(todo)[i] = r
  <2>1. r # h
    BY <1>8, <1>12
  <2>2. Status(r) = "running"
    BY <1>8, <1>12, <2>1 DEF Status
  <2>3. PICK i \in DOMAIN todo : todo[i] = r
    BY <1>3, <2>2
  <2>4. i # 1
    BY <1>4, <2>1, <2>3
  <2> QED BY <1>5, <2>3, <2>4
<1>13. SweepAt(s)'
  <2>1. (\A i \in DOMAIN server[s].todo : server[s].todo[i] \in DOMAIN runs)'
    BY <1>3, <1>5, <1>8, <1>9
  <2>2. (\A r \in DOMAIN runs :
           Status(r) = "running" => \E i \in DOMAIN server[s].todo : server[s].todo[i] = r)'
    BY <1>8, <1>9, <1>12
  <2> QED BY <1>9, <2>1, <2>2 DEF SweepAt
<1> QED BY <1>8, <1>10, <1>11, <1>13, OfOneServer

\* A server that answers has looked at every run.
LEMMA BindsKeeps ==
  ASSUME OneServer, JobsInv, NEW s \in Servers, Binds(s)
  PROVE  JobsInv'
<1> USE DEF JobsInv
<1>1. /\ server[s].pc = "sweep" /\ server[s].todo = << >>
      /\ server' = [server EXCEPT ![s].pc = "up"]
      /\ UNCHANGED <<offered, runs, slot, job, page, starts, faults>>
  BY DEF Binds
<1>2. RunsOK' /\ PagesOK' /\ DOMAIN runs' = DOMAIN runs /\ \A q \in DOMAIN runs : Status(q)' = Status(q)
  BY <1>1, RunsRest
<1>3. server'[s].pc = "up"
  BY <1>1 DEF JobsTypeOK, AnyServer
<1>4. JobsTypeOK'
  BY <1>1 DEF JobsTypeOK, AnyServer
<1>5. JobAt(s)'
  <2>1. job[s].pc = "none" /\ JobAt(s)
    BY <1>1 DEF JobAt, JobFits
  <2> QED BY <1>1, <2>1 DEF JobAt, JobFits
<1>6. \A r \in DOMAIN runs : Status(r) # "running"
  BY <1>1 DEF SweepAt
<1>7. SweepAt(s)'
  BY <1>2, <1>3, <1>6 DEF SweepAt
<1> QED BY <1>2, <1>4, <1>5, <1>7, OfOneServer

LEMMA NoJobIsAJob == NoJob \in AnyJob
<1>1. << >> \in Seq(Steps) /\ "started" \in Events /\ -1 \in Int
  BY DEF Events
<1> QED BY <1>1 DEF NoJob, AnyJob, NoRun

LEMMA DiesKeeps ==
  ASSUME OneServer, JobsInv, NEW s \in Servers, Dies(s)
  PROVE  JobsInv'
<1> USE DEF JobsInv
<1>1. /\ server' = [server EXCEPT ![s] = [pc |-> "off", todo |-> << >>, seq |-> NoRun]]
      /\ job' = [job EXCEPT ![s] = NoJob]
      /\ slot' = [slot EXCEPT ![s] = NoRun]
      /\ UNCHANGED <<offered, runs, page, starts, faults>>
  BY DEF Dies
<1>2. RunsOK' /\ PagesOK' /\ DOMAIN runs' = DOMAIN runs
  BY <1>1, RunsRest
<1>3. server'[s].pc = "off" /\ job'[s] = NoJob
  BY <1>1 DEF JobsTypeOK
<1>4. NoJob \in AnyJob /\ [pc |-> "off", todo |-> << >>, seq |-> NoRun] \in AnyServer
  <2>1. << >> \in Seq(Nat) /\ << >> \in Seq(Steps)
    OBVIOUS
  <2>2. NoJob \in AnyJob
    BY NoJobIsAJob
  <2>3. [pc |-> "off", todo |-> << >>, seq |-> NoRun] \in AnyServer
    BY <2>1 DEF AnyServer, NoRun
  <2> QED BY <2>2, <2>3
<1>5. JobsTypeOK'
  BY <1>1, <1>4 DEF JobsTypeOK, NoRun
<1>6. JobAt(s)'
  BY <1>3 DEF JobAt, JobFits, NoJob
<1>7. SweepAt(s)'
  BY <1>3 DEF SweepAt
<1> QED BY <1>2, <1>5, <1>6, <1>7, OfOneServer

-----------------------------------------------------------------------------
(* Jobs begin and end. *)

LEMMA ScriptIsSteps ==
  ASSUME NEW task
  PROVE  Script(task) \in Seq(Steps) /\ Artifacts(task) \subseteq Range(Script(task))
<1>1. /\ ConversionJob \in Seq(Steps) /\ SectionsJob \in Seq(Steps) /\ CiteJob \in Seq(Steps)
      /\ ConceptsJob \in Seq(Steps) /\ ExtractionJob \in Seq(Steps) /\ ChunkedJob \in Seq(Steps)
      /\ LensesJob \in Seq(Steps) /\ NoLensJob \in Seq(Steps) /\ AnswerJob \in Seq(Steps)
  BY DEF ConversionJob, SectionsJob, CiteJob, ConceptsJob, ExtractionJob, ChunkedJob, LensesJob, NoLensJob,
         AnswerJob, Steps, Writes
<1>2. Script(task) \in Seq(Steps)
  BY <1>1 DEF Script
<1> QED BY <1>2 DEF Artifacts

LEMMA HeadAndRest ==
  ASSUME NEW script \in Seq(Steps), script # << >>
  PROVE  /\ Head(script) \in Steps /\ Tail(script) \in Seq(Steps)
         /\ Range(script) \subseteq {Head(script)} \cup Range(Tail(script))
<1>1. /\ Head(script) \in Steps /\ Tail(script) \in Seq(Steps) /\ Len(Tail(script)) = Len(script) - 1
      /\ \A i \in 1 .. Len(Tail(script)) : Tail(script)[i] = script[i + 1]
      /\ Head(script) = script[1]
  BY HeadTailProperties
<1>2. DOMAIN script = 1 .. Len(script) /\ DOMAIN Tail(script) = 1 .. Len(script) - 1 /\ Len(script) \in Nat
  BY <1>1
<1>3. ASSUME NEW i \in DOMAIN script, i # 1
      PROVE  i - 1 \in DOMAIN Tail(script) /\ Tail(script)[i - 1] = script[i]
  BY <1>1, <1>2, <1>3
<1>4. \A i \in DOMAIN script : script[i] = Head(script) \/ \E k \in DOMAIN Tail(script) : Tail(script)[k] = script[i]
  BY <1>1, <1>3
<1> QED BY <1>1, <1>4 DEF Range

\* Since no other server answers, nothing runs but this server's job.
LEMMA NoneRuns ==
  ASSUME JobsInv, NEW s \in Servers, server[s].pc = "up", job[s].pc = "none"
  PROVE  \A r \in DOMAIN runs : Status(r) = "running" => runs[r].torn
BY DEF JobsInv, SweepAt

LEMMA LaunchKeeps ==
  ASSUME OneServer, JobsInv, NEW s \in Servers, NEW task \in offered, NEW begins \in BOOLEAN,
         Launch(s, task, begins)
  PROVE  JobsInv'
<1> USE DEF JobsInv
<1>0. PICK n \in Nat : n = Len(runs) + 1 /\ n > 0
  BY DEF JobsTypeOK
<1> DEFINE fresh == FreshRun("web", task)
           begun == [NoJob EXCEPT !.pc = "open", !.run = n, !.script = Script(task)]
<1>1. /\ server[s].pc = "up" /\ slot[s] = NoRun
      /\ runs' = Append(runs, fresh)
      /\ slot' = [slot EXCEPT ![s] = n]
      /\ job' = IF begins THEN [job EXCEPT ![s] = begun] ELSE job
      /\ UNCHANGED <<offered, server, page, starts>>
  BY <1>0 DEF Launch
<1>2. fresh \in AnyRun
  <2>1. task \in Tasks /\ "web" \in Owners
    BY DEF JobsTypeOK, Tasks, Owners
  <2> QED BY <2>1, FreshRunIsARun
<1>3. /\ fresh.owner = "web" /\ fresh.task = task /\ fresh.log = << >> /\ fresh.artifacts = {}
      /\ fresh.minted = NoRun /\ ~fresh.torn
  BY DEF FreshRun
<1>4. runs \in Seq(AnyRun) /\ Len(runs) \in Nat /\ DOMAIN runs = 1 .. Len(runs) /\ n = Len(runs) + 1
  BY <1>0 DEF JobsTypeOK
<1>5. job[s].pc = "none"
  BY <1>1 DEF JobAt, JobFits
<1> HIDE DEF fresh
<1>6. /\ runs' \in Seq(AnyRun) /\ Len(runs') = n
      /\ \A q \in DOMAIN runs : runs'[q] = runs[q]
      /\ runs'[n] = fresh
  BY <1>1, <1>2, <1>4, AppendProperties
<1>7. DOMAIN runs' = DOMAIN runs \cup {n} /\ n \notin DOMAIN runs
  BY <1>4, <1>6
<1>8. \A q \in DOMAIN runs : MintedAt(q)
  BY DEF RunsOK, RunAt
<1>9. \A q \in DOMAIN runs : Have(q)' = Have(q) /\ MintedAt(q)'
  BY <1>6, <1>7, <1>8 DEF Have, MintedAt
<1>10. MintedAt(n)'
  BY <1>1, <1>3, <1>6 DEF MintedAt
<1>11. \A q \in DOMAIN runs' : MintedAt(q)'
  BY <1>7, <1>9, <1>10
<1>12. /\ \A q \in DOMAIN runs : Status(q)' = Status(q)
       /\ \A q \in DOMAIN runs' \ DOMAIN runs : Status(q)' = "none"
       /\ RunsOK' /\ PagesOK'
  <2>1. Len(runs) <= Len(runs') /\ page' = page
    BY <1>1, <1>4, <1>6
  <2>2. \A q \in DOMAIN runs' \ DOMAIN runs : runs'[q].log = << >>
    BY <1>3, <1>6, <1>7
  <2> HIDE DEF JobsInv
  <2>3. JobsTypeOK /\ RunsOK /\ PagesOK
    BY DEF JobsInv
  <2> QED BY <1>6, <1>9, <1>11, <2>1, <2>2, <2>3, WorkKeepsRuns
<1>13. begun \in AnyJob /\ begun.pc = "open" /\ begun.run = n /\ begun.script = Script(task)
       /\ begun.seq = NoRun /\ begun.event = "started"
  <2>1. Script(task) \in Seq(Steps) /\ n \in Int
    BY ScriptIsSteps
  <2>2. /\ NoJob.seq = NoRun /\ NoJob.event = "started"
        /\ begun = [NoJob EXCEPT !.pc = "open", !.run = n, !.script = Script(task)]
    BY DEF NoJob
  <2> QED BY <2>1, <2>2, NoJobIsAJob DEF AnyJob
<1> HIDE DEF begun
<1>14. JobsTypeOK'
  BY <1>1, <1>4, <1>6, <1>13 DEF JobsTypeOK
<1>15. JobAt(s)'
  <2>1. CASE ~begins
    <3>1. job' = job
      BY <1>1, <2>1
    <3> QED BY <1>5, <3>1 DEF JobAt, JobFits, JobsInv
  <2>2. CASE begins
    <3>1. job'[s] = begun /\ slot'[s] = n /\ server'[s].pc = "up"
      BY <1>1, <2>2 DEF JobsTypeOK
    <3>2. n # NoRun
      BY <1>4 DEF NoRun
    <3>3. (Artifacts(runs[job[s].run].task) \subseteq Have(job[s].run) \cup Range(job[s].script))'
      BY <1>1, <1>3, <1>6, <1>13, <3>1, ScriptIsSteps
    <3>4. (Quiet(runs[job[s].run].log))'
      BY <1>1, <1>3, <1>6, <1>13, <3>1 DEF Quiet
    <3>5. (job[s].run \in DOMAIN runs /\ runs[job[s].run].owner = "web")'
      BY <1>3, <1>6, <1>7, <1>13, <3>1
    <3> QED BY <1>13, <3>1, <3>2, <3>3, <3>4, <3>5 DEF JobAt, JobFits
  <2> QED BY <2>1, <2>2
<1>16. SweepAt(s)'
  <2>1. \A r \in DOMAIN runs' : Status(r)' = "running" => r \in DOMAIN runs /\ Status(r) = "running"
    BY <1>12
  <2>2. \A r \in DOMAIN runs : Status(r) = "running" => runs[r].torn
    BY <1>1, <1>5, NoneRuns
  <2>3. \A r \in DOMAIN runs' : Status(r)' = "running" => runs'[r].torn
    BY <1>6, <2>1, <2>2
  <2>4. server'[s].pc = "up"
    BY <1>1
  <2> QED BY <2>3, <2>4 DEF SweepAt
<1> QED BY <1>12, <1>14, <1>15, <1>16, OfOneServer

\* The job goes on with its run and leaves the runs alone.
LEMMA JobMoves ==
  ASSUME OneServer, JobsInv, NEW s \in Servers, NEW new \in AnyJob,
         job' = [job EXCEPT ![s] = new], UNCHANGED <<offered, runs, server, slot, page>>,
         new.run = job[s].run, new.pc # "none", JobFits(s, new)
  PROVE  JobsInv'
<1> USE DEF JobsInv
<1>1. job'[s] = new
  BY DEF JobsTypeOK
<1>2. RunsOK' /\ PagesOK' /\ DOMAIN runs' = DOMAIN runs /\ \A q \in DOMAIN runs : Status(q)' = Status(q)
  BY RunsRest
<1>3. JobsTypeOK'
  BY DEF JobsTypeOK
<1>4. JobAt(s)'
  BY <1>1 DEF JobAt, JobFits, Status, Have
<1>5. SweepAt(s)'
  <2>1. server[s].pc = "up" /\ SweepAt(s)
    BY DEF JobFits
  <2>2. \A r \in DOMAIN runs : Status(r)' = "running" /\ ~runs'[r].torn => new.run = r
    BY <1>2, <2>1 DEF SweepAt
  <2> QED BY <1>1, <1>2, <2>1, <2>2 DEF SweepAt
<1> QED BY <1>2, <1>3, <1>4, <1>5, OfOneServer

LEMMA JobOpensKeeps ==
  ASSUME OneServer, JobsInv, NEW s \in Servers, NEW ok \in BOOLEAN, JobOpens(s, ok)
  PROVE  JobsInv'
<1> USE DEF JobsInv
<1>1. PICK event \in {"started", "failed"} :
           /\ job[s].pc = "open"
           /\ job' = [job EXCEPT ![s].pc = "emit", ![s].event = event]
           /\ UNCHANGED <<offered, runs, server, slot, page, starts>>
  BY DEF JobOpens
<1> DEFINE new == [job[s] EXCEPT !.pc = "emit", !.event = event]
<1>2. job[s] \in AnyJob /\ JobFits(s, job[s])
  BY DEF JobsTypeOK, JobAt
<1>3. new \in AnyJob
  BY <1>2 DEF AnyJob, Events, Endings
<1>4. /\ new.pc = "emit" /\ new.event = event /\ new.run = job[s].run /\ new.script = job[s].script
      /\ new.seq = job[s].seq
  BY <1>2 DEF AnyJob
<1>5. job' = [job EXCEPT ![s] = new]
  BY <1>1, <1>2 DEF JobsTypeOK, AnyJob
<1> HIDE DEF new
<1>6. JobFits(s, new)
  BY <1>1, <1>2, <1>4 DEF JobFits
<1> HIDE DEF JobsInv
<1> QED BY <1>1, <1>3, <1>4, <1>5, <1>6, JobMoves

LEMMA JobCountsKeeps ==
  ASSUME OneServer, JobsInv, NEW s \in Servers, JobCounts(s)
  PROVE  JobsInv'
<1> USE DEF JobsInv
<1>1. /\ job[s].pc = "emit" /\ job[s].seq = NoRun
      /\ job' = [job EXCEPT ![s].seq = Len(runs[job[s].run].log)]
      /\ UNCHANGED <<offered, runs, server, slot, page, starts, faults>>
  BY DEF JobCounts
<1>2. job[s] \in AnyJob /\ JobFits(s, job[s])
  BY DEF JobsTypeOK, JobAt
<1>3. PICK n \in Nat : n = Len(runs[job[s].run].log)
  <2>1. runs[job[s].run] \in AnyRun
    BY <1>1, <1>2 DEF JobFits, JobsTypeOK
  <2>2. runs[job[s].run].log \in Seq(AnyEvent)
    BY <2>1 DEF AnyRun
  <2> QED BY <2>2
<1> DEFINE new == [job[s] EXCEPT !.seq = n]
<1>4. new \in AnyJob
  BY <1>2 DEF AnyJob
<1>5. /\ new.pc = "emit" /\ new.event = job[s].event /\ new.run = job[s].run /\ new.script = job[s].script
      /\ new.seq = n
  BY <1>1, <1>2 DEF AnyJob
<1>6. job' = [job EXCEPT ![s] = new]
  BY <1>1, <1>2, <1>3 DEF JobsTypeOK, AnyJob
<1> HIDE DEF new
<1>7. JobFits(s, new)
  BY <1>1, <1>2, <1>3, <1>5 DEF JobFits
<1> HIDE DEF JobsInv
<1> QED BY <1>1, <1>4, <1>5, <1>6, <1>7, JobMoves

LEMMA BodyReturnsKeeps ==
  ASSUME OneServer, JobsInv, NEW s \in Servers, BodyReturns(s)
  PROVE  JobsInv'
<1> USE DEF JobsInv
<1>1. /\ job[s].pc = "body" /\ job[s].script = << >>
      /\ job' = [job EXCEPT ![s].pc = "emit", ![s].event = "finished"]
      /\ UNCHANGED <<offered, runs, server, slot, page, starts, faults>>
  BY DEF BodyReturns
<1> DEFINE new == [job[s] EXCEPT !.pc = "emit", !.event = "finished"]
<1>2. job[s] \in AnyJob /\ JobFits(s, job[s])
  BY DEF JobsTypeOK, JobAt
<1>3. new \in AnyJob
  BY <1>2 DEF AnyJob, Events, Endings
<1>4. /\ new.pc = "emit" /\ new.event = "finished" /\ new.run = job[s].run /\ new.script = job[s].script
      /\ new.seq = job[s].seq
  BY <1>2 DEF AnyJob
<1>5. job' = [job EXCEPT ![s] = new]
  BY <1>1, <1>2 DEF JobsTypeOK, AnyJob
<1> HIDE DEF new
<1>6. JobFits(s, new)
  BY <1>1, <1>2, <1>4 DEF JobFits
<1> HIDE DEF JobsInv
<1> QED BY <1>1, <1>3, <1>4, <1>5, <1>6, JobMoves

LEMMA JobFreesKeeps ==
  ASSUME OneServer, JobsInv, NEW s \in Servers, JobFrees(s)
  PROVE  JobsInv'
<1> USE DEF JobsInv
<1>1. /\ job[s].pc = "end"
      /\ job' = [job EXCEPT ![s] = NoJob]
      /\ slot' = [slot EXCEPT ![s] = NoRun]
      /\ UNCHANGED <<offered, runs, server, page, starts, faults>>
  BY DEF JobFrees
<1>2. RunsOK' /\ PagesOK' /\ DOMAIN runs' = DOMAIN runs /\ \A q \in DOMAIN runs : Status(q)' = Status(q)
  BY <1>1, RunsRest
<1>3. job'[s] = NoJob
  BY <1>1 DEF JobsTypeOK
<1>4. JobsTypeOK'
  BY <1>1, NoJobIsAJob DEF JobsTypeOK, NoRun
<1>5. JobAt(s)'
  BY <1>3 DEF JobAt, JobFits, NoJob
<1>6. SweepAt(s)'
  <2>1. JobFits(s, job[s]) /\ SweepAt(s)
    BY DEF JobAt
  <2>2. server[s].pc = "up" /\ (~runs[job[s].run].torn => Status(job[s].run) # "running")
    BY <1>1, <2>1 DEF JobFits
  <2>3. \A r \in DOMAIN runs : Status(r) = "running" => runs[r].torn
    BY <2>1, <2>2 DEF SweepAt
  <2> QED BY <1>1, <1>2, <2>2, <2>3 DEF SweepAt
<1> QED BY <1>2, <1>4, <1>5, <1>6, OfOneServer

-----------------------------------------------------------------------------
(* Jobs report and write. *)

LEMMA AppendTears ==
  ASSUME runs \in Seq(AnyRun), NEW r \in DOMAIN runs, NEW n, NEW event
  PROVE  /\ AppendEvent(r, n, event) = Appending(r, n, event, runs[r].torn)
         /\ runs[r].torn \in BOOLEAN
<1>1. runs[r] \in AnyRun /\ DOMAIN runs = 1 .. Len(runs)
  OBVIOUS
<1> QED BY <1>1 DEF Appending, AppendEvent, AnyRun

LEMMA JobAppendsKeeps ==
  ASSUME OneServer, JobsInv, NEW s \in Servers, JobAppends(s)
  PROVE  JobsInv'
<1>0. JobsTypeOK /\ RunsOK /\ PagesOK /\ job[s] \in AnyJob /\ JobFits(s, job[s]) /\ SweepAt(s)
  BY DEF JobsInv, JobAt, JobsTypeOK
<1>1. PICK pc \in {"end", "body"} :
           /\ job[s].pc = "emit" /\ job[s].seq # NoRun
           /\ runs' = AppendEvent(job[s].run, job[s].seq, job[s].event)
           /\ job' = [job EXCEPT ![s].seq = NoRun, ![s].pc = pc]
           /\ pc = IF job[s].event \in {"finished", "failed"} THEN "end" ELSE "body"
           /\ UNCHANGED <<offered, server, slot, page, starts, faults>>
  BY DEF JobAppends
<1>2. PICK r \in DOMAIN runs, n \in Int, event \in Events :
           r = job[s].run /\ n = job[s].seq /\ event = job[s].event
  BY <1>0, <1>1 DEF JobFits, AnyJob
<1>3. PICK torn \in BOOLEAN : torn = runs[r].torn /\ runs' = Appending(r, n, event, torn)
  BY <1>0, <1>1, <1>2, AppendTears DEF JobsTypeOK
<1>4. /\ runs[r].owner = "web" /\ server[s].pc = "up" /\ slot[s] # NoRun
      /\ Artifacts(runs[r].task) \subseteq Have(r) \cup Range(job[s].script)
      /\ ~runs[r].torn => Quiet(runs[r].log) /\ n = Len(runs[r].log)
      /\ event = "finished" => job[s].script = << >>
      /\ event # "interrupted"
  BY <1>0, <1>1, <1>2 DEF JobFits
<1>5. event = "finished" => Artifacts(runs[r].task) \subseteq Have(r)
  <2>1. Range(<< >>) = {}
    BY DEF Range
  <2> QED BY <1>4, <2>1
<1>6. /\ runs' \in Seq(AnyRun) /\ DOMAIN runs' = DOMAIN runs
      /\ \A q \in DOMAIN runs : q # r => runs'[q] = runs[q]
      /\ runs'[r].owner = runs[r].owner /\ runs'[r].task = runs[r].task /\ Have(r)' = Have(r)
      /\ runs'[r].torn = torn
      /\ Status(r)' = IF event \in Terminal THEN event ELSE "running"
      /\ Quiet(runs[r].log) /\ event \notin Endings => Quiet(runs'[r].log)
      /\ RunsOK' /\ PagesOK'
  <2>1. page' = page
    BY <1>1
  <2> QED BY <1>0, <1>3, <1>4, <1>5, <2>1, EventKeepsRuns
<1>7. PICK new \in AnyJob : /\ new.pc = pc /\ new.run = r /\ new.script = job[s].script /\ new.seq = NoRun
                           /\ new.event = event /\ job' = [job EXCEPT ![s] = new]
  <2> DEFINE new == [job[s] EXCEPT !.seq = NoRun, !.pc = pc]
  <2>0. NoRun \in Int /\ pc \in {"none", "open", "emit", "body", "end"}
    BY DEF NoRun
  <2>1. /\ new \in AnyJob /\ new.pc = pc /\ new.run = job[s].run /\ new.script = job[s].script
        /\ new.seq = NoRun /\ new.event = job[s].event
    BY <1>0, <2>0 DEF AnyJob
  <2>2. job' = [job EXCEPT ![s] = new]
    BY <1>0, <1>1 DEF JobsTypeOK, AnyJob
  <2> HIDE DEF new
  <2> QED BY <1>2, <2>1, <2>2
<1>8. job'[s] = new
  BY <1>0, <1>7 DEF JobsTypeOK
<1>10. JobsTypeOK'
  BY <1>0, <1>1, <1>6, <1>7 DEF JobsTypeOK
<1>11. pc = "body" => event \notin Endings
  BY <1>1, <1>2, <1>4 DEF Endings
<1>12. pc = "end" => event \in {"finished", "failed"} /\ Status(r)' = event
  BY <1>1, <1>2, <1>6 DEF Terminal
<1>13. JobFits(s, new)'
  <2>1. (new.run \in DOMAIN runs /\ runs[new.run].owner = "web" /\ server[s].pc = "up" /\ slot[s] # NoRun)'
    BY <1>1, <1>4, <1>6, <1>7, <1>8
  <2>2. (Artifacts(runs[new.run].task) \subseteq Have(new.run) \cup Range(new.script))'
    BY <1>4, <1>6, <1>7, <1>8
  <2>3. pc = "body" /\ ~runs'[r].torn => Quiet(runs'[r].log)
    BY <1>3, <1>4, <1>6, <1>11
  <2>4. pc = "end" => (Status(new.run) # "running")'
    BY <1>7, <1>12
  <2> QED BY <1>4, <1>7, <2>1, <2>2, <2>3, <2>4 DEF JobFits
<1>14. SweepAt(s)'
  <2>1. ASSUME NEW q \in DOMAIN runs, Status(q)' = "running", ~runs'[q].torn
        PROVE  q = r /\ pc = "body"
    <3>1. CASE q # r
      <4>1. Status(q) = "running" /\ ~runs[q].torn
        BY <1>6, <2>1, <3>1 DEF Status
      <4>2. job[s].run = q
        BY <1>0, <1>4, <4>1 DEF SweepAt
      <4> QED BY <1>2, <3>1, <4>2
    <3>2. CASE q = r
      BY <1>12, <2>1, <3>2
    <3> QED BY <3>1, <3>2
  <2>2. (\A q \in DOMAIN runs :
           Status(q) = "running" /\ ~runs[q].torn => job[s].run = q /\ job[s].pc # "none")'
    BY <1>6, <1>7, <1>8, <2>1
  <2>3. (server[s].pc = "up")'
    BY <1>1, <1>4
  <2> QED BY <2>2, <2>3 DEF SweepAt
<1> QED BY <1>6, <1>8, <1>10, <1>13, <1>14, OfOneServer DEF JobAt

\* An append that fails tears its run, written or not.
LEMMA AppendFailsKeeps ==
  ASSUME OneServer, JobsInv, NEW s \in Servers, NEW written \in BOOLEAN, AppendFails(s, written)
  PROVE  JobsInv'
<1>0. JobsTypeOK /\ RunsOK /\ PagesOK /\ job[s] \in AnyJob /\ JobFits(s, job[s]) /\ SweepAt(s)
  BY DEF JobsInv, JobAt, JobsTypeOK
<1>1. PICK pc \in {"end", "emit"} :
           /\ job[s].pc = "emit" /\ job[s].seq # NoRun
           /\ runs' = [IF written THEN AppendEvent(job[s].run, job[s].seq, job[s].event) ELSE runs
                       EXCEPT ![job[s].run].torn = TRUE]
           /\ job' = [job EXCEPT ![s].seq = NoRun, ![s].event = "failed", ![s].pc = pc]
           /\ UNCHANGED <<offered, server, slot, page, starts>>
  BY DEF AppendFails
<1>2. PICK r \in DOMAIN runs, n \in Int, event \in Events :
           r = job[s].run /\ n = job[s].seq /\ event = job[s].event
  BY <1>0, <1>1 DEF JobFits, AnyJob
<1>3. /\ runs[r].owner = "web" /\ server[s].pc = "up" /\ slot[s] # NoRun
      /\ Artifacts(runs[r].task) \subseteq Have(r) \cup Range(job[s].script)
      /\ ~runs[r].torn => Quiet(runs[r].log) /\ n = Len(runs[r].log)
      /\ event = "finished" => job[s].script = << >>
  BY <1>0, <1>1, <1>2 DEF JobFits
<1>4. event = "finished" => Artifacts(runs[r].task) \subseteq Have(r)
  <2>1. Range(<< >>) = {}
    BY DEF Range
  <2> QED BY <1>3, <2>1
<1>5. page' = page
  BY <1>1
<1>6. /\ runs' \in Seq(AnyRun) /\ DOMAIN runs' = DOMAIN runs
      /\ \A q \in DOMAIN runs : q # r => runs'[q] = runs[q]
      /\ runs'[r].owner = runs[r].owner /\ runs'[r].task = runs[r].task /\ Have(r)' = Have(r)
      /\ runs'[r].torn
      /\ RunsOK' /\ PagesOK'
  <2>1. CASE written
    <3>1. PICK torn \in BOOLEAN : torn = TRUE /\ runs' = Appending(r, n, event, torn)
      BY <1>1, <1>2, <2>1 DEF Appending
    <3> QED BY <1>0, <1>3, <1>4, <1>5, <3>1, EventKeepsRuns
  <2>2. CASE ~written
    <3>1. runs' = [runs EXCEPT ![r].torn = TRUE]
      BY <1>1, <1>2, <2>2
    <3> QED BY <1>0, <1>5, <3>1, TearKeepsRuns
  <2> QED BY <2>1, <2>2
<1>7. PICK new \in AnyJob : /\ new.pc = pc /\ new.run = r /\ new.script = job[s].script /\ new.seq = NoRun
                           /\ new.event = "failed" /\ job' = [job EXCEPT ![s] = new]
  <2> DEFINE new == [job[s] EXCEPT !.seq = NoRun, !.event = "failed", !.pc = pc]
  <2>0. "failed" \in Events /\ NoRun \in Int /\ pc \in {"none", "open", "emit", "body", "end"}
    BY DEF Events, Endings, NoRun
  <2>1. /\ new \in AnyJob /\ new.pc = pc /\ new.run = job[s].run /\ new.script = job[s].script
        /\ new.seq = NoRun /\ new.event = "failed"
    BY <1>0, <2>0 DEF AnyJob
  <2>2. job' = [job EXCEPT ![s] = new]
    BY <1>0, <1>1 DEF JobsTypeOK, AnyJob
  <2> HIDE DEF new
  <2> QED BY <1>2, <2>1, <2>2
<1>8. job'[s] = new
  BY <1>0, <1>7 DEF JobsTypeOK
<1>10. JobsTypeOK'
  <2>1. job' \in [Servers -> AnyJob]
    BY <1>0, <1>7 DEF JobsTypeOK
  <2> QED BY <1>0, <1>1, <1>6, <2>1 DEF JobsTypeOK
<1>11. JobFits(s, new)'
  <2>1. (new.run \in DOMAIN runs /\ runs[new.run].owner = "web" /\ server[s].pc = "up" /\ slot[s] # NoRun)'
    BY <1>1, <1>3, <1>6, <1>7, <1>8
  <2>2. (Artifacts(runs[new.run].task) \subseteq Have(new.run) \cup Range(new.script))'
    BY <1>3, <1>6, <1>7, <1>8
  <2> QED BY <1>6, <1>7, <1>8, <2>1, <2>2 DEF JobFits
<1>12. SweepAt(s)'
  <2>1. ASSUME NEW q \in DOMAIN runs, Status(q)' = "running", ~runs'[q].torn
        PROVE  FALSE
    <3>1. q # r
      BY <1>6, <2>1
    <3>2. Status(q) = "running" /\ ~runs[q].torn
      BY <1>6, <2>1, <3>1 DEF Status
    <3>3. job[s].run = q
      BY <1>0, <1>3, <3>2 DEF SweepAt
    <3> QED BY <1>2, <3>1, <3>3
  <2> QED BY <1>1, <1>3, <1>6, <2>1 DEF SweepAt
<1> QED BY <1>6, <1>8, <1>10, <1>11, <1>12, OfOneServer DEF JobAt

\* An artifact, and the run that a conversion mints for itself, only add.
LEMMA SavedKeepsRuns ==
  ASSUME JobsTypeOK, RunsOK, PagesOK, NEW r \in DOMAIN runs, runs[r].owner = "web",
         NEW what \in Writes, runs' = Saved(r, what), page' = page
  PROVE  /\ runs' \in Seq(AnyRun) /\ DOMAIN runs \subseteq DOMAIN runs'
         /\ \A q \in DOMAIN runs : /\ runs'[q].owner = runs[q].owner
                                   /\ runs'[q].task = runs[q].task
                                   /\ runs'[q].log = runs[q].log
                                   /\ runs'[q].torn = runs[q].torn
                                   /\ Have(q) \subseteq Have(q)'
                                   /\ Status(q)' = Status(q)
         /\ what \in Have(r)'
         /\ \A q \in DOMAIN runs' \ DOMAIN runs : Status(q)' = "none"
         /\ RunsOK' /\ PagesOK'
<1>0. runs \in Seq(AnyRun) /\ Len(runs) \in Nat /\ DOMAIN runs = 1 .. Len(runs) /\ runs[r] \in AnyRun
  BY DEF JobsTypeOK
<1>1. \A q \in DOMAIN runs : MintedAt(q)
  BY DEF RunsOK, RunAt
<1>2. /\ runs' \in Seq(AnyRun) /\ Len(runs) <= Len(runs') /\ DOMAIN runs \subseteq DOMAIN runs'
      /\ \A q \in DOMAIN runs : /\ runs'[q].owner = runs[q].owner
                                /\ runs'[q].task = runs[q].task
                                /\ runs'[q].log = runs[q].log
                                /\ runs'[q].torn = runs[q].torn
                                /\ Have(q) \subseteq Have(q)'
      /\ \A q \in DOMAIN runs' : MintedAt(q)'
      /\ \A q \in DOMAIN runs' \ DOMAIN runs : runs'[q].log = << >>
      /\ what \in Have(r)'
  <2>1. CASE what # "+corpus"
    <3> DEFINE new == [runs[r] EXCEPT !.artifacts = @ \cup {what}]
               rest == [runs EXCEPT ![r] = new]
    <3>1. new \in AnyRun /\ new.owner = runs[r].owner /\ new.task = runs[r].task /\ new.log = runs[r].log
          /\ new.torn = runs[r].torn /\ new.minted = runs[r].minted
          /\ new.artifacts = runs[r].artifacts \cup {what}
      BY <1>0 DEF AnyRun
    <3>2. runs' = rest
      BY <1>0, <2>1 DEF Saved, AnyRun
    <3> HIDE DEF new
    <3>3. /\ rest \in Seq(AnyRun) /\ Len(rest) = Len(runs)
          /\ \A q \in 1 .. Len(runs) : rest[q] = IF q = r THEN new ELSE runs[q]
      BY <1>0, <3>1, ExceptSeq
    <3> HIDE DEF rest
    <3>4. DOMAIN runs' = DOMAIN runs /\ \A q \in DOMAIN runs : runs'[q] = IF q = r THEN new ELSE runs[q]
      BY <1>0, <3>2, <3>3
    <3>5. \A q \in DOMAIN runs : /\ runs'[q].owner = runs[q].owner /\ runs'[q].task = runs[q].task
                                 /\ runs'[q].log = runs[q].log /\ runs'[q].torn = runs[q].torn
                                 /\ runs'[q].minted = runs[q].minted
                                 /\ runs[q].artifacts \subseteq runs'[q].artifacts
      BY <3>1, <3>4
    <3>6. \A q \in DOMAIN runs : runs[q].owner = "command" => runs'[q] = runs[q]
      BY <3>4
    <3>7. \A q \in DOMAIN runs : MintedAt(q)'
      BY <1>1, <3>4, <3>5, <3>6 DEF MintedAt
    <3>8. \A q \in DOMAIN runs : Have(q) \subseteq Have(q)'
      BY <1>1, <3>5, <3>6 DEF Have, MintedAt
    <3>9. what \in Have(r)'
      BY <3>1, <3>4 DEF Have
    <3> QED BY <1>0, <3>2, <3>3, <3>4, <3>5, <3>7, <3>8, <3>9
  <2>2. CASE what = "+corpus"
    <3>0. PICK n \in Nat : n = Len(runs) + 1 /\ n > 0 /\ n \notin DOMAIN runs
      BY <1>0
    <3> DEFINE new == [runs[r] EXCEPT !.minted = n]
               rest == [runs EXCEPT ![r] = new]
               child == [FreshRun("command", "corpus") EXCEPT !.artifacts = {what}]
    <3>1. new \in AnyRun /\ new.owner = runs[r].owner /\ new.task = runs[r].task /\ new.log = runs[r].log
          /\ new.torn = runs[r].torn /\ new.minted = n /\ new.artifacts = runs[r].artifacts
      <4>1. n \in Int
        BY <3>0
      <4> QED BY <1>0, <4>1 DEF AnyRun
    <3>2. /\ child \in AnyRun /\ child.owner = "command" /\ child.log = << >>
          /\ child.artifacts = {"+corpus"} /\ child.minted = NoRun
      <4>0. "corpus" \in {"agent", "cite", "corpus"}
        OBVIOUS
      <4>1. "command" \in Owners
        BY DEF Owners
      <4>2. "corpus" \in Tasks
        BY <4>0, Zenon DEF Tasks
      <4>3. FreshRun("command", "corpus") \in AnyRun
        BY <4>1, <4>2, FreshRunIsARun
      <4> QED BY <2>2, <4>3 DEF AnyRun, FreshRun
    <3>3. runs' = Append(rest, child)
      BY <1>0, <2>2, <3>0 DEF Saved, AnyRun
    <3> HIDE DEF new, child
    <3>4. /\ rest \in Seq(AnyRun) /\ Len(rest) = Len(runs)
          /\ \A q \in 1 .. Len(runs) : rest[q] = IF q = r THEN new ELSE runs[q]
      BY <1>0, <3>1, ExceptSeq
    <3> HIDE DEF rest
    <3>5. /\ runs' \in Seq(AnyRun) /\ Len(runs') = n
          /\ \A q \in 1 .. Len(rest) : runs'[q] = rest[q]
          /\ runs'[n] = child
      BY <3>0, <3>2, <3>3, <3>4, AppendProperties
    <3>6. DOMAIN runs' = DOMAIN runs \cup {n} /\ \A q \in DOMAIN runs : runs'[q] = IF q = r THEN new ELSE runs[q]
      BY <1>0, <3>0, <3>4, <3>5
    <3>7. \A q \in DOMAIN runs : /\ runs'[q].owner = runs[q].owner /\ runs'[q].task = runs[q].task
                                 /\ runs'[q].log = runs[q].log /\ runs'[q].torn = runs[q].torn
                                 /\ runs'[q].artifacts = runs[q].artifacts
                                 /\ q # r => runs'[q].minted = runs[q].minted
      BY <3>1, <3>6
    <3>8. runs'[r].minted = n /\ n # NoRun
      BY <3>0, <3>1, <3>6 DEF NoRun
    <3>9. \A q \in DOMAIN runs' : MintedAt(q)'
      BY <1>1, <3>2, <3>5, <3>6, <3>7, <3>8 DEF MintedAt
    <3>10. Have(r)' = runs[r].artifacts \cup {"+corpus"}
      BY <3>2, <3>5, <3>7, <3>8 DEF Have
    <3>11. Have(r) \subseteq runs[r].artifacts \cup {"+corpus"}
      BY <1>1 DEF Have, MintedAt
    <3>12. \A q \in DOMAIN runs : q # r => Have(q)' = Have(q)
      BY <1>1, <3>7 DEF Have, MintedAt
    <3>13. \A q \in DOMAIN runs : Have(q) \subseteq Have(q)'
      BY <3>10, <3>11, <3>12
    <3>14. Len(runs) <= Len(runs') /\ DOMAIN runs \subseteq DOMAIN runs'
      BY <1>0, <3>0, <3>5, <3>6
    <3>15. \A q \in DOMAIN runs' \ DOMAIN runs : runs'[q].log = << >>
      BY <3>2, <3>5, <3>6
    <3>16. what \in Have(r)'
      BY <2>2, <3>10
    <3> QED BY <3>5, <3>7, <3>9, <3>13, <3>14, <3>15, <3>16
  <2> QED BY <2>1, <2>2
<1>3. /\ \A q \in DOMAIN runs : Status(q)' = Status(q)
      /\ \A q \in DOMAIN runs' \ DOMAIN runs : Status(q)' = "none"
      /\ RunsOK' /\ PagesOK'
  BY <1>2, WorkKeepsRuns
<1> QED BY <1>2, <1>3

LEMMA BodyKeeps ==
  ASSUME OneServer, JobsInv, NEW s \in Servers, NEW ok \in BOOLEAN, Body(s, ok)
  PROVE  JobsInv'
<1>0. JobsTypeOK /\ RunsOK /\ PagesOK /\ job[s] \in AnyJob /\ JobFits(s, job[s]) /\ SweepAt(s)
  BY DEF JobsInv, JobAt, JobsTypeOK
<1>1. PICK step, rest : /\ job[s].pc = "body" /\ job[s].script # << >>
                        /\ step = Head(job[s].script)
                        /\ rest = [job[s] EXCEPT !.script = Tail(@)]
                        /\ UNCHANGED <<offered, server, slot, page, starts>>
  BY DEF Body
<1>2. PICK script \in Seq(Steps), r \in DOMAIN runs : script = job[s].script /\ r = job[s].run
  BY <1>0, <1>1 DEF AnyJob, JobFits
<1>3. /\ step \in Steps /\ Tail(script) \in Seq(Steps)
      /\ Range(script) \subseteq {step} \cup Range(Tail(script))
  BY <1>1, <1>2, HeadAndRest
<1>4. /\ rest \in AnyJob /\ rest.pc = "body" /\ rest.run = r /\ rest.script = Tail(script)
      /\ rest.event = job[s].event /\ rest.seq = NoRun
  BY <1>0, <1>1, <1>2, <1>3 DEF AnyJob, JobFits
<1>5. /\ runs[r].owner = "web" /\ server[s].pc = "up" /\ slot[s] # NoRun
      /\ Artifacts(runs[r].task) \subseteq Have(r) \cup Range(script)
      /\ ~runs[r].torn => Quiet(runs[r].log)
      /\ job[s].event # "interrupted"
  BY <1>0, <1>1, <1>2 DEF JobFits
<1>6. CASE ~ok
  <2> DEFINE new == [job[s] EXCEPT !.pc = "emit", !.event = "failed"]
  <2>0. "failed" \in Events
    BY DEF Events, Endings
  <2>1. /\ new \in AnyJob /\ new.pc = "emit" /\ new.event = "failed" /\ new.run = job[s].run
        /\ new.script = job[s].script /\ new.seq = job[s].seq
    BY <1>0, <2>0 DEF AnyJob
  <2>2. job' = [job EXCEPT ![s].pc = "emit", ![s].event = "failed"] /\ UNCHANGED runs
    BY <1>6 DEF Body
  <2>3. job' = [job EXCEPT ![s] = new]
    BY <1>0, <2>2 DEF JobsTypeOK, AnyJob
  <2> HIDE DEF new
  <2>4. JobFits(s, new)
    BY <1>0, <1>1, <2>1 DEF JobFits
  <2>5. UNCHANGED <<offered, runs, server, slot, page>>
    BY <1>1, <2>2
  <2> QED BY <2>1, <2>3, <2>4, <2>5, JobMoves
<1>7. CASE ok /\ step \notin Writes
  <2> DEFINE new == [rest EXCEPT !.pc = "emit", !.event = step]
  <2>0. step \in Events /\ step \notin Endings
    BY <1>3, <1>7 DEF Events, Steps, Endings
  <2>1. /\ new \in AnyJob /\ new.pc = "emit" /\ new.event = step /\ new.run = r
        /\ new.script = Tail(script) /\ new.seq = NoRun
    BY <1>4, <2>0 DEF AnyJob
  <2>2. job' = [job EXCEPT ![s] = new] /\ UNCHANGED runs
    BY <1>1, <1>7 DEF Body
  <2> HIDE DEF new
  <2>3. Artifacts(runs[r].task) \subseteq Have(r) \cup Range(Tail(script))
    <3>1. Artifacts(runs[r].task) \subseteq Writes
      BY DEF Artifacts
    <3> QED BY <1>3, <1>5, <1>7, <3>1
  <2>4. JobFits(s, new)
    BY <1>5, <2>0, <2>1, <2>3 DEF JobFits, Endings
  <2>5. UNCHANGED <<offered, runs, server, slot, page>>
    BY <1>1, <2>2
  <2> QED BY <1>2, <2>1, <2>2, <2>4, <2>5, JobMoves
<1>8. CASE ok /\ step \in Writes
  <2>1. runs' = Saved(r, step) /\ job' = [job EXCEPT ![s] = rest] /\ page' = page
    BY <1>1, <1>2, <1>8 DEF Body
  <2>2. /\ runs' \in Seq(AnyRun) /\ DOMAIN runs \subseteq DOMAIN runs'
        /\ \A q \in DOMAIN runs : /\ runs'[q].owner = runs[q].owner
                                  /\ runs'[q].task = runs[q].task
                                  /\ runs'[q].log = runs[q].log
                                  /\ runs'[q].torn = runs[q].torn
                                  /\ Have(q) \subseteq Have(q)'
                                  /\ Status(q)' = Status(q)
        /\ step \in Have(r)'
        /\ \A q \in DOMAIN runs' \ DOMAIN runs : Status(q)' = "none"
        /\ RunsOK' /\ PagesOK'
    BY <1>0, <1>5, <1>8, <2>1, SavedKeepsRuns
  <2>3. job'[s] = rest
    BY <1>0, <2>1 DEF JobsTypeOK
  <2>4. JobsTypeOK'
    BY <1>0, <1>1, <1>4, <2>1, <2>2 DEF JobsTypeOK
  <2>5. JobFits(s, rest)'
    <3>1. (rest.run \in DOMAIN runs /\ runs[rest.run].owner = "web" /\ server[s].pc = "up" /\ slot[s] # NoRun)'
      BY <1>1, <1>4, <1>5, <2>2
    <3>2. (Artifacts(runs[rest.run].task) \subseteq Have(rest.run) \cup Range(rest.script))'
      BY <1>3, <1>4, <1>5, <2>2
    <3>3. ~runs'[r].torn => Quiet(runs'[r].log)
      BY <1>5, <2>2
    <3> QED BY <1>4, <1>5, <3>1, <3>2, <3>3 DEF JobFits
  <2>6. SweepAt(s)'
    <3>1. ASSUME NEW q \in DOMAIN runs', Status(q)' = "running", ~runs'[q].torn
          PROVE  q = r
      <4>1. q \in DOMAIN runs /\ Status(q) = "running" /\ ~runs[q].torn
        BY <2>2, <3>1
      <4> QED BY <1>0, <1>2, <1>5, <4>1 DEF SweepAt
    <3> QED BY <1>1, <1>4, <1>5, <2>3, <3>1 DEF SweepAt
  <2> QED BY <2>2, <2>3, <2>4, <2>5, <2>6, OfOneServer DEF JobAt
<1> QED BY <1>6, <1>7, <1>8

-----------------------------------------------------------------------------
(* Pages. *)

\* A page shows the end of a set of positions.
LEMMA MaxIsIn ==
  ASSUME NEW n \in Nat, NEW S \in SUBSET (1 .. n), S # {}
  PROVE  Max(S) \in S /\ \A y \in S : Max(S) >= y
<1> DEFINE Less == {p \in Nat \X Nat : p[1] < p[2]}
           T == {k \in 0 .. n : n - k \in S}
<1>1. IsWellFoundedOn(Less, Nat)
  BY NatLessThanWellFounded DEF OpToRel
<1>2. PICK j \in S : TRUE
  OBVIOUS
<1>3. n - (n - j) = j /\ n - j \in 0 .. n
  OBVIOUS
<1>4. T \in SUBSET Nat /\ n - j \in T
  BY <1>3
<1>5. \E k \in T : \A l \in T : <<l, k>> \notin Less
  <2> HIDE DEF Less, T
  <2> QED BY <1>1, <1>4, WFMin, Zenon
<1>6. PICK k \in T : \A l \in T : <<l, k>> \notin Less
  BY <1>5
<1>7. ASSUME NEW i \in S PROVE n - k >= i
  <2>1. n - (n - i) = i /\ n - i \in 0 .. n
    OBVIOUS
  <2>2. <<n - i, k>> \notin Less
    BY <1>6, <2>1
  <2> QED BY <2>1, <2>2
<1>8. \E x \in S : \A y \in S : x >= y
  BY <1>6, <1>7
<1> QED BY <1>8 DEF Max

LEMMA OpenPageKeeps ==
  ASSUME JobsInv, NEW p \in Pages, NEW r \in DOMAIN runs, OpenPage(p, r)
  PROVE  JobsInv'
<1> USE DEF JobsInv
<1> DEFINE new == [NoPage EXCEPT !.run = r]
<1>1. runs[r].owner = "web" /\ page' = [page EXCEPT ![p] = new]
      /\ UNCHANGED <<offered, runs, server, slot, job, starts, faults>>
  BY DEF OpenPage
<1>2. runs \in Seq(AnyRun) /\ r \in Nat /\ r # NoRun /\ Len(runs[r].log) \in Nat
  <2>1. runs \in Seq(AnyRun) /\ r \in Nat /\ r > 0
    BY DEF JobsTypeOK
  <2>2. runs[r] \in AnyRun
    BY <2>1
  <2>3. runs[r].log \in Seq(AnyEvent)
    BY <2>2 DEF AnyRun
  <2> QED BY <2>1, <2>3 DEF NoRun
<1>3. /\ new \in AnyPage /\ new.run = r /\ new.after + 1 = 0 /\ new.after = -1 /\ new.seen = {} /\ ~new.stopped
  <2>1. /\ NoPage \in AnyPage /\ NoPage.after = NoRun /\ NoPage.seen = {} /\ ~NoPage.stopped
        /\ r \in Int /\ NoRun = -1
    BY <1>2 DEF NoPage, AnyPage, NoRun
  <2> QED BY <2>1 DEF AnyPage
<1> HIDE DEF new
<1>4. JobsTypeOK'
  BY <1>1, <1>3 DEF JobsTypeOK
<1>5. RunsOK' /\ \A s \in Servers : JobAt(s)' /\ SweepAt(s)'
  BY <1>1 DEF RunsOK, RunAt, MintedAt, JobAt, JobFits, SweepAt, Status, Have
<1>6. ASSUME NEW q \in Pages PROVE PageAt(q)'
  <2>1. CASE q = p
    <3>1. page'[p] = new
      BY <1>1 DEF JobsTypeOK
    <3>2. new.seen = 1 .. new.after + 1 /\ new.after < Len(runs[r].log) /\ new.after >= -1
      BY <1>2, <1>3
    <3> QED BY <1>1, <1>2, <1>3, <2>1, <3>1, <3>2 DEF PageAt
  <2>2. CASE q # p
    <3>1. page'[q] = page[q] /\ PageAt(q)
      BY <1>1, <2>2 DEF JobsTypeOK, PagesOK
    <3> QED BY <1>1, <3>1 DEF PageAt, Status
  <2> QED BY <2>1, <2>2
<1> QED BY <1>4, <1>5, <1>6 DEF PagesOK

LEMMA PollKeeps ==
  ASSUME JobsInv, NEW p \in Pages, Poll(p)
  PROVE  JobsInv'
<1> USE DEF JobsInv
<1>1. PICK r, log, fresh :
           /\ r = page[p].run /\ r # NoRun /\ ~page[p].stopped
           /\ log = runs[r].log
           /\ fresh = {i \in DOMAIN log : log[i].seq > page[p].after}
           /\ page' = [page EXCEPT ![p].seen = @ \cup fresh,
                                   ![p].after = Cursor(@, log, fresh),
                                   ![p].stopped = StatusOfLog(log) \in {"finished", "failed"}]
           /\ UNCHANGED <<offered, runs, server, slot, job, starts, faults>>
  BY DEF Poll
<1>0. /\ log = runs[r].log /\ fresh = {i \in DOMAIN log : log[i].seq > page[p].after}
      /\ UNCHANGED <<offered, runs, server, slot, job, starts, faults>>
  BY <1>1
<1>2. page[p] \in AnyPage /\ PageAt(p)
  BY DEF JobsTypeOK, PagesOK
<1>3. r \in DOMAIN runs /\ log \in Seq(AnyEvent)
  <2>1. r \in DOMAIN runs
    BY <1>1, <1>2 DEF PageAt
  <2>2. runs[r] \in AnyRun
    BY <2>1 DEF JobsTypeOK
  <2> QED BY <1>1, <2>1, <2>2 DEF AnyRun
<1>4. PICK n \in Nat : n = Len(log) /\ DOMAIN log = 1 .. n
  BY <1>3
<1>5. PICK after \in Int : after = page[p].after
  BY <1>2 DEF AnyPage
<1>6. fresh \in SUBSET (1 .. n) /\ \A i \in fresh : log[i].seq \in Int
  <2>1. fresh \in SUBSET (1 .. n)
    BY <1>0, <1>4
  <2>2. \A i \in 1 .. n : log[i] \in AnyEvent
    BY <1>3, <1>4
  <2>3. \A i \in 1 .. n : log[i].seq \in Int
    BY <2>2 DEF AnyEvent
  <2> QED BY <2>1, <2>3
<1>7. fresh # {} => Max(fresh) \in fresh /\ \A y \in fresh : Max(fresh) >= y
  BY <1>6, MaxIsIn
<1>8. PICK cursor \in Int : cursor = Cursor(after, log, fresh)
  BY <1>6, <1>7 DEF Cursor
<1>9. PICK stopped \in BOOLEAN : stopped <=> StatusOfLog(log) \in {"finished", "failed"}
  OBVIOUS
<1> DEFINE new == [page[p] EXCEPT !.seen = @ \cup fresh, !.after = cursor, !.stopped = stopped]
<1>10. /\ new \in AnyPage /\ new.run = r /\ new.after = cursor /\ new.seen = page[p].seen \cup fresh
       /\ new.stopped = stopped
  <2>1. page[p].run = r /\ page[p].seen \in SUBSET Nat
    BY <1>1, <1>2 DEF AnyPage
  <2>2. page[p].seen \cup fresh \in SUBSET Nat
    <3>1. \A i \in fresh : i \in Nat
      BY <1>6
    <3> QED BY <2>1, <3>1
  <2> QED BY <1>2, <2>1, <2>2 DEF AnyPage
<1>11. page' = [page EXCEPT ![p] = new]
  <2>1. stopped = (StatusOfLog(log) \in {"finished", "failed"})
    BY <1>9
  <2> QED BY <1>1, <1>2, <1>5, <1>8, <2>1 DEF JobsTypeOK, AnyPage
<1> HIDE DEF new
<1>12. JobsTypeOK'
  BY <1>0, <1>10, <1>11 DEF JobsTypeOK
<1>13. RunsOK' /\ \A s \in Servers : JobAt(s)' /\ SweepAt(s)'
  BY <1>0 DEF RunsOK, RunAt, MintedAt, JobAt, JobFits, SweepAt, Status, Have
<1>14. ASSUME ~runs[r].torn
       PROVE  cursor = n - 1 /\ page[p].seen \cup fresh = 1 .. n
  <2>1. /\ Counted(log) /\ runs[r].owner = "web" /\ after < n /\ after >= -1 /\ page[p].seen = 1 .. after + 1
    BY <1>1, <1>2, <1>3, <1>4, <1>5, <1>14 DEF PageAt, RunsOK, RunAt
  <2>2. \A i \in 1 .. n : i \in fresh <=> i > after + 1
    <3>1. \A i \in 1 .. n : log[i].seq = i - 1
      BY <1>4, <2>1 DEF Counted
    <3>2. \A i \in 1 .. n : i \in fresh <=> log[i].seq > after
      BY <1>0, <1>4, <1>5
    <3> QED BY <3>1, <3>2
  <2>3. page[p].seen \cup fresh = 1 .. n
    <3>1. \A i \in fresh : i \in 1 .. n
      BY <1>6
    <3>2. \A i \in page[p].seen : i \in 1 .. n
      BY <2>1
    <3>3. \A i \in 1 .. n : i \in fresh \/ i \in page[p].seen
      BY <2>1, <2>2
    <3> QED BY <3>1, <3>2, <3>3, Zenon
  <2>4. CASE fresh = {}
    <3>1. cursor = after
      BY <1>8, <2>4 DEF Cursor
    <3>2. ~(n > after + 1)
      BY <2>1, <2>2, <2>4
    <3> QED BY <2>1, <2>3, <3>1, <3>2
  <2>5. CASE fresh # {}
    <3>0. PICK i \in 1 .. n : i \in fresh
      BY <1>6, <2>5
    <3>1. n \in 1 .. n /\ n > after + 1 /\ n \in fresh
      BY <2>1, <2>2, <3>0
    <3>2. Max(fresh) = n
      <4>1. PICK m \in 1 .. n : m = Max(fresh) /\ m >= n
        BY <1>6, <1>7, <2>5, <3>1
      <4> QED BY <4>1
    <3>3. cursor = log[n].seq
      BY <1>8, <2>5, <3>2 DEF Cursor
    <3> QED BY <1>4, <1>6, <2>1, <2>3, <3>1, <3>3 DEF Counted
  <2> QED BY <2>4, <2>5
<1>15. ASSUME NEW q \in Pages PROVE PageAt(q)'
  <2>1. CASE q = p
    <3>1. page'[p] = new /\ runs' = runs
      BY <1>1, <1>11 DEF JobsTypeOK
    <3>2. runs[r].owner = "web"
      BY <1>1, <1>2 DEF PageAt
    <3>3. Status(r)' = StatusOfLog(log)
      BY <1>1, <3>1 DEF Status
    <3>4. ~runs[r].torn => 1 .. n = 1 .. cursor + 1 /\ cursor < n /\ cursor >= -1
      BY <1>14
    <3> QED BY <1>1, <1>3, <1>4, <1>9, <1>10, <1>14, <2>1, <3>1, <3>2, <3>3, <3>4 DEF PageAt
  <2>2. CASE q # p
    <3>1. page'[q] = page[q] /\ PageAt(q)
      BY <1>11, <2>2 DEF JobsTypeOK, PagesOK
    <3> QED BY <1>1, <3>1 DEF PageAt, Status
  <2> QED BY <2>1, <2>2
<1> QED BY <1>12, <1>13, <1>15 DEF PagesOK

-----------------------------------------------------------------------------
(* The theorems. *)

LEMMA FirstInv ==
  ASSUME JobsInit
  PROVE  JobsInv
<1>1. /\ offered \in Offers /\ runs = FirstRuns
      /\ server = [s \in Servers |-> [pc |-> "off", todo |-> << >>, seq |-> NoRun]]
      /\ slot = [s \in Servers |-> NoRun]
      /\ job = [s \in Servers |-> NoJob]
      /\ page = [p \in Pages |-> NoPage]
  BY DEF JobsInit, JobsStart
<1> DEFINE waits == [seq |-> 0, event |-> "awaiting_host"]
           host == [FreshRun("host", "agent") EXCEPT !.log = <<waits>>]
           command == FreshRun("command", "cite")
<1>2. waits \in AnyEvent /\ waits.event = "awaiting_host"
  BY DEF AnyEvent, Events
<1> HIDE DEF waits
<1>3. <<waits>> \in Seq(AnyEvent) /\ <<waits>> # << >> /\ Last(<<waits>>) = waits
  BY <1>2 DEF Last
<1>4. FreshRun("host", "agent") \in AnyRun /\ command \in AnyRun
  <2>0. "agent" \in {"agent", "cite", "corpus"} /\ "cite" \in {"agent", "cite", "corpus"}
    OBVIOUS
  <2>1. "agent" \in Tasks /\ "cite" \in Tasks
    BY <2>0, Zenon DEF Tasks
  <2>2. "host" \in Owners /\ "command" \in Owners
    BY DEF Owners
  <2> QED BY <2>1, <2>2, FreshRunIsARun
<1>5. /\ host \in AnyRun /\ host.owner = "host" /\ host.log = <<waits>> /\ host.minted = NoRun
      /\ command.owner = "command" /\ command.log = << >> /\ command.minted = NoRun
  BY <1>3, <1>4 DEF AnyRun, FreshRun
<1>6. StatusOfLog(host.log) = "awaiting_host" /\ StatusOfLog(command.log) = "none"
  BY <1>2, <1>3, <1>5 DEF StatusOfLog, Terminal
<1>7. runs = <<host, command>>
  BY <1>1 DEF FirstRuns, waits
<1> HIDE DEF host, command
<1>8. runs \in Seq(AnyRun) /\ DOMAIN runs = {1, 2} /\ runs[1] = host /\ runs[2] = command
  BY <1>4, <1>5, <1>7
<1>9. [pc |-> "off", todo |-> << >>, seq |-> NoRun] \in AnyServer /\ NoPage \in AnyPage
  <2>1. << >> \in Seq(Nat)
    OBVIOUS
  <2> QED BY <2>1 DEF AnyServer, AnyPage, NoPage, NoRun
<1>10. JobsTypeOK
  BY <1>1, <1>8, <1>9, NoJobIsAJob DEF JobsTypeOK, NoRun
<1>11. RunsOK
  BY <1>5, <1>6, <1>8 DEF RunsOK, RunAt, MintedAt, Status
<1>12. \A s \in Servers : JobAt(s) /\ SweepAt(s)
  BY <1>1 DEF JobAt, JobFits, SweepAt, NoJob
<1>13. PagesOK
  BY <1>1 DEF PagesOK, PageAt, NoPage
<1> QED BY <1>10, <1>11, <1>12, <1>13 DEF JobsInv

LEMMA StepKeepsInv ==
  ASSUME OneServer, JobsInv, [JobsNext]_jobsVars
  PROVE  JobsInv'
<1>1. CASE UNCHANGED jobsVars
  BY <1>1 DEF jobsVars, JobsInv, JobsTypeOK, RunsOK, RunAt, MintedAt, JobAt, JobFits, SweepAt, PagesOK, PageAt,
              Status, Have
<1>2. ASSUME NEW s \in Servers,
             Serve(s) \/ SweepRead(s) \/ SweepStamp(s) \/ Binds(s) \/ Dies(s) \/ JobStep(s)
      PROVE  JobsInv'
  <2>1. ASSUME JobStep(s) PROVE JobsInv'
    <3>1. ASSUME NEW ok \in BOOLEAN, JobOpens(s, ok) \/ Body(s, ok) \/ AppendFails(s, ok)
          PROVE  JobsInv'
      BY <3>1, JobOpensKeeps, BodyKeeps, AppendFailsKeeps
    <3>2. ASSUME JobCounts(s) \/ JobAppends(s) \/ BodyReturns(s) \/ JobFrees(s)
          PROVE  JobsInv'
      BY <3>2, JobCountsKeeps, JobAppendsKeeps, BodyReturnsKeeps, JobFreesKeeps
    <3> QED BY <2>1, <3>1, <3>2 DEF JobStep
  <2> QED BY <1>2, <2>1, ServeKeeps, SweepReadKeeps, SweepStampKeeps, BindsKeeps, DiesKeeps
<1>3. ASSUME NEW s \in Servers, NEW t \in offered, NEW begins \in BOOLEAN, Launch(s, t, begins)
      PROVE  JobsInv'
  BY <1>3, LaunchKeeps
<1>4. ASSUME NEW p \in Pages, Poll(p) PROVE JobsInv'
  BY <1>4, PollKeeps
<1>5. ASSUME NEW p \in Pages, NEW r \in DOMAIN runs, OpenPage(p, r) PROVE JobsInv'
  BY <1>5, OpenPageKeeps
<1> QED BY <1>1, <1>2, <1>3, <1>4, <1>5 DEF JobsNext

LEMMA InvTellsTheTruth ==
  ASSUME JobsInv
  PROVE  RunsTellTheTruth
<1> USE DEF JobsInv
<1>1. OneTerminalEvent
  <2>1. ASSUME NEW r \in DOMAIN runs, runs[r].owner = "web", ~runs[r].torn
        PROVE  Ended(r) \subseteq {Len(runs[r].log)}
    <3>1. Once(runs[r].log)
      BY <2>1 DEF RunsOK, RunAt
    <3> QED BY <3>1 DEF Once, Ended, Endings
  <2> QED BY <2>1 DEF OneTerminalEvent
<1>2. RunningIsAlive
  BY DEF RunningIsAlive, AServerIsUp, SweepAt
<1>3. PageSeesAll
  BY DEF PageSeesAll, PagesOK, PageAt
<1>4. FinishedHasArtifacts
  BY DEF FinishedHasArtifacts, RunsOK, RunAt, Have
<1> QED BY <1>1, <1>2, <1>3, <1>4 DEF RunsTellTheTruth

\* The invariant of runs, jobs, sweeps and pages holds in every reachable state.
THEOREM JobsInductive == ASSUME OneServer PROVE JobsSpec => []JobsInv
<1>1. JobsInit => JobsInv
  BY FirstInv
<1>2. JobsInv /\ [JobsNext]_jobsVars => JobsInv'
  BY StepKeepsInv
<1> QED BY <1>1, <1>2, PTL DEF JobsSpec

\* As long as one server at a time answers for a project (serve, launch_job,
\* mark_interrupted_runs, append_event, the polling page), a run whose appends succeeded
\* has at most one terminal event and nothing after it, reports running only while its
\* job lives, is shown in full by a page that stopped, and finished with its artifacts.
THEOREM RunsTruthful == ASSUME OneServer PROVE JobsSpec => []RunsTellTheTruth
<1>1. JobsInv => RunsTellTheTruth
  BY InvTellsTheTruth
<1> QED BY <1>1, JobsInductive, PTL
=============================================================================
