--------------------------- MODULE ConversionQueue ---------------------------
(***************************************************************************)
(* How a work gets its text: the server's upload queue                     *)
(* (web/marker_queue.py, web/_convert_worker.py) and the other programs    *)
(* that acquire files (acquisition/service.py), over the content cache.    *)
(*                                                                         *)
(* An upload makes a work, ingests its file and parks a conversion on a    *)
(* FIFO queue in the server's memory.  Each worker thread takes a task and *)
(* runs it in a child process it waits for, with a timeout.  The child     *)
(* converts and writes the bridge row of the work.  A restarted server has *)
(* an empty queue; children of the old one may still be running.           *)
(*                                                                         *)
(* Uploads for a known work, corpus passes, folder imports and imports of  *)
(* ready-made markdown run beside the server and write the same tables.    *)
(***************************************************************************)
EXTENDS ContentCache, FiniteSets

CONSTANTS
  Clients,     \* upload handlers of the server, and other programs
  Children,    \* names for the child processes of the workers
  Workers,     \* the threads of the pool: one per GPU
  Works,
  Listed,      \* the works that are there at the start
  Flows        \* which programs run in this instance

AllFlows == {"web", "upload", "acquire", "folder", "import"}
ASSUME ProcsAssumption == Procs = Clients \cup Children /\ Clients \cap Children = {}
ASSUME ChildrenAssumption == IsFiniteSet(Children) /\ Cardinality(Children) >= Cardinality(Workers)
ASSUME FlowsAssumption == Flows \subseteq AllFlows /\ Listed \subseteq Works

NoOne == "nobody"
ASSUME NobodyAssumption == NoOne \notin Files \cup Children

VARIABLES
  job,       \* what each process is doing
  bridge,    \* rows of work_source_files, by work
  known,     \* works that exist
  status,    \* the server's status map
  queue,     \* the server's FIFO queue of tasks
  pool,      \* has the pool been started
  child,     \* the child each worker waits for
  asked      \* history: the works enqueued since the server started

server == <<status, queue, pool, child, asked>>
vars   == <<cacheVars, job, bridge, known, server>>

NoRow  == [file |-> NoOne, md |-> NoOne]
Row    == [file : Files, md : Markdowns]
Task   == [work : Works, file : Files]
Free   == [stage |-> "free"]
Job    ==
  {Free}
  \cup [flow : AllFlows \cup {"child"}, work : Works, file : Files,
        stage : {"start", "ingest", "put", "convert", "ocr", "import", "match", "backfill", "done", "failed"}]
  \cup [flow : AllFlows \cup {"child"}, work : Works, file : Files,
        stage : {"bridge"}, seen : Row \cup {NoRow}]

TypeOK ==
  /\ CacheTypeOK
  /\ job \in [Procs -> Job]
  /\ bridge \in [Works -> Row \cup {NoRow}]
  /\ known \subseteq Works /\ asked \subseteq known
  /\ status \in [Works -> {"absent", "queued", "converting", "failed"}]
  /\ queue \in Seq(Task)
  /\ pool \in {"off", "starting", "on"}
  /\ child \in [Workers -> Children \cup {NoOne}]

Init ==
  /\ CacheInit
  /\ job = [p \in Procs |-> Free]
  /\ bridge = [w \in Works |-> NoRow]
  /\ known = Listed
  /\ status = [w \in Works |-> "absent"]
  /\ queue = <<>>
  /\ pool = "off"
  /\ child = [k \in Workers |-> NoOne]
  /\ asked = {}

-----------------------------------------------------------------------------
Stage(p) == job[p].stage
Enters(p, stage) == job' = [job EXCEPT ![p].stage = stage]

Ends(p) == job' = [job EXCEPT ![p] = Free] /\ Quits(p)
Returned(p, step) == At(p, step)
Served == {child[k] : k \in Workers} \ {NoOne}
Private == "user_supplied_private"
Open == "open_access"
ASSUME FlowClassesAssumption == {Open, Private} \subseteq Classes

\* The newest success of a file, by any converter (current_markdown_for_source).
AnySuccess(f) == {i \in DOMAIN runs : runs[i].file = f /\ runs[i].status = "success"}
Reconciles(row) ==
  row # NoRow /\ \E i \in DOMAIN runs : Newest(i, AnySuccess(row.file)) /\ runs[i].md = row.md

-----------------------------------------------------------------------------
(* Programs that bring a file *)

\* What each program checks before it touches the cache: an upload is a work of
\* its own, a corpus pass skips what is bridged and current, an import skips
\* what is bridged.
Wants(flow, w) ==
  CASE flow = "web"     -> w \notin known
    [] flow = "acquire" -> w \in known /\ ~Reconciles(bridge[w])
    [] flow = "import"  -> w \in known /\ bridge[w] = NoRow
    [] OTHER            -> w \in known

StartFlow(p, flow, w, f) ==
  /\ Stage(p) = "free" /\ flow \in Flows /\ Wants(flow, w)
  /\ IngestSelect(p, f, IF flow = "acquire" THEN Open ELSE Private)
  /\ job' = [job EXCEPT ![p] = [flow |-> flow, work |-> w, file |-> f, stage |-> "ingest"]]
  /\ known' = known \cup {w}
  /\ UNCHANGED <<bridge, server>>

Ingested(p) == Stage(p) = "ingest" /\ Returned(p, "ingested")
FileBridged(f) == \E w \in Works : bridge[w].file = f

\* The default conversion of the file just ingested; a folder import stops at a
\* file that is bridged already.
Converts(p, config, force) ==
  \/ ~force /\ ConvertReuse(p, job[p].file, config)
  \/ ConvertBegin(p, job[p].file, config, force)
Convert(p) ==
  /\ \/ Ingested(p) /\ job[p].flow \in {"upload", "acquire"}
     \/ Ingested(p) /\ job[p].flow = "folder" /\ ~FileBridged(job[p].file)
     \/ Stage(p) = "start"
  /\ Converts(p, "default", FALSE)
  /\ Enters(p, "convert")
  /\ UNCHANGED <<bridge, known, server>>

FolderStop(p) ==
  /\ job[p] # Free /\ job[p].flow = "folder"
  /\ \/ Ingested(p) /\ FileBridged(job[p].file)
     \/ Stage(p) \in {"convert", "ocr"} /\ Returned(p, "converted") /\ bridge[job[p].work] # NoRow
  /\ Ends(p)
  /\ UNCHANGED <<bridge, known, server>>

\* A folder import tries once more with OCR.
Ocr(p) ==
  /\ Stage(p) = "convert" /\ job[p].flow = "folder" /\ Returned(p, "invalid")
  /\ Converts(p, "ocr", TRUE)
  /\ Enters(p, "ocr")
  /\ UNCHANGED <<bridge, known, server>>

Import(p, m) ==
  /\ Ingested(p) /\ job[p].flow = "import"
  /\ ImportSelect(p, job[p].file, m)
  /\ Enters(p, "import")
  /\ UNCHANGED <<bridge, known, server>>

\* The converted head names a work that has no file yet.
FolderMatch(p) ==
  /\ Stage(p) \in {"convert", "ocr"} /\ job[p].flow = "folder" /\ Returned(p, "converted")
  /\ bridge[job[p].work] = NoRow
  /\ Enters(p, "match")
  /\ UNCHANGED <<cacheVars, bridge, known, server>>

-----------------------------------------------------------------------------
(* write_bridge: the row is read, then inserted or updated *)

BridgeSelect(p) ==
  /\ Returned(p, "converted")
  /\ \/ Stage(p) \in {"convert", "import"} /\ job[p].flow # "folder"
     \/ Stage(p) = "match"
  /\ job' = [job EXCEPT ![p] = [flow |-> @.flow, work |-> @.work, file |-> @.file,
                                stage |-> "bridge", seen |-> bridge[@.work]]]
  /\ UNCHANGED <<cacheVars, bridge, known, server>>

\* The ORM writes the columns that differ from what it has read.
Written(now, seen, row) ==
  [file |-> IF row.file # seen.file THEN row.file ELSE now.file,
   md   |-> IF row.md # seen.md THEN row.md ELSE now.md]

Moves(p, stage) ==
  /\ job' = [job EXCEPT ![p] = [flow |-> @.flow, work |-> @.work, file |-> @.file, stage |-> stage]]
  /\ Quits(p)

\* A child goes on with the metadata of its work, the others are done.
BridgeWrite(p) ==
  LET j == job[p]
  IN /\ Stage(p) = "bridge"
     /\ j.seen = NoRow => bridge[j.work] = NoRow
     /\ bridge' = [bridge EXCEPT ![j.work] =
                     Written(@, j.seen, [file |-> j.file, md |-> call[p].md])]
     /\ IF j.flow = "child" THEN Moves(p, "backfill") ELSE Ends(p)
     /\ UNCHANGED <<known, server>>

\* Whatever raises ends a program; a child reports it by its exit status.
Raises(p) ==
  \/ call[p].step = "error" /\ Stage(p) \in {"ingest", "convert", "ocr", "import"}
  \/ call[p].step = "invalid" /\ Stage(p) \in {"convert", "ocr"}
       /\ ~(Stage(p) = "convert" /\ job[p].flow = "folder")
  \/ Stage(p) = "bridge" /\ job[p].seen = NoRow /\ bridge[job[p].work] # NoRow
Fail(p) ==
  /\ Raises(p)
  /\ IF job[p].flow = "child" THEN Moves(p, "failed") ELSE Ends(p)
  /\ UNCHANGED <<bridge, known, server>>

-----------------------------------------------------------------------------
(* enqueue, in the upload handler *)

Announce(p) ==
  /\ Ingested(p) /\ job[p].flow = "web"
  /\ status' = [status EXCEPT ![job[p].work] = "queued"]
  /\ asked' = asked \cup {job[p].work}
  /\ Enters(p, "put")
  /\ UNCHANGED <<cacheVars, bridge, known, queue, pool, child>>

\* The pool is started with the first task, off the request thread.
Put(p) ==
  /\ Stage(p) = "put"
  /\ queue' = Append(queue, [work |-> job[p].work, file |-> job[p].file])
  /\ pool' = IF pool = "off" THEN "starting" ELSE pool
  /\ Ends(p)
  /\ UNCHANGED <<bridge, known, status, child, asked>>

StartPool ==
  /\ pool = "starting"
  /\ pool' = "on"
  /\ UNCHANGED <<cacheVars, job, bridge, known, status, queue, child, asked>>

-----------------------------------------------------------------------------
(* A worker and its child *)

Spare == {p \in Children : Stage(p) = "free" /\ p \notin Served}

Take(k) ==
  /\ pool = "on" /\ child[k] = NoOne /\ queue # <<>>
  /\ \E p \in Spare :
       /\ child' = [child EXCEPT ![k] = p]
       /\ job' = [job EXCEPT ![p] = [flow |-> "child", work |-> Head(queue).work,
                                     file |-> Head(queue).file, stage |-> "start"]]
  /\ status' = [status EXCEPT ![Head(queue).work] = "converting"]
  /\ queue' = Tail(queue)
  /\ UNCHANGED <<cacheVars, bridge, known, pool, asked>>

\* Whatever the metadata backfill does, the child exits with success.
Backfilled(p) ==
  /\ Stage(p) = "backfill"
  /\ Enters(p, "done")
  /\ UNCHANGED <<cacheVars, bridge, known, server>>

\* (mutant) the exit status is not looked at
CollectBlindly(k) ==
  /\ child[k] # NoOne
  /\ Stage(child[k]) \in {"done", "failed"}
  /\ status' = [status EXCEPT ![job[child[k]].work] = "absent"]
  /\ child' = [child EXCEPT ![k] = NoOne]
  /\ Ends(child[k])
  /\ UNCHANGED <<bridge, known, queue, pool, asked>>
Collect(k) ==
  /\ child[k] # NoOne
  /\ Stage(child[k]) \in {"done", "failed"}
  /\ status' = [status EXCEPT ![job[child[k]].work] =
                  IF Stage(child[k]) = "done" THEN "absent" ELSE "failed"]
  /\ child' = [child EXCEPT ![k] = NoOne]
  /\ Ends(child[k])
  /\ UNCHANGED <<bridge, known, queue, pool, asked>>

\* (mutant) only a child that never starts is given up
TimeoutAtStart(k) ==
  /\ child[k] # NoOne
  /\ Stage(child[k]) = "start"
  /\ status' = [status EXCEPT ![job[child[k]].work] = "failed"]
  /\ child' = [child EXCEPT ![k] = NoOne]
  /\ Ends(child[k])
  /\ UNCHANGED <<bridge, known, queue, pool, asked>>
\* The conversion takes too long: the child is killed.
Timeout(k) ==
  /\ child[k] # NoOne
  /\ Stage(child[k]) \notin {"done", "failed"}
  /\ status' = [status EXCEPT ![job[child[k]].work] = "failed"]
  /\ child' = [child EXCEPT ![k] = NoOne]
  /\ Ends(child[k])
  /\ UNCHANGED <<bridge, known, queue, pool, asked>>

-----------------------------------------------------------------------------
(* Crashes *)

\* A program beside the server, or a child nobody waits for, ends or dies.
Dies(p) ==
  /\ Stage(p) # "free" /\ p \notin Served
  /\ p \in Clients => job[p].flow # "web"
  /\ Ends(p)
  /\ UNCHANGED <<bridge, known, server>>

\* A child is killed while its worker waits: that is an exit status too.
ChildKilled(p) ==
  /\ p \in Served /\ Stage(p) \notin {"done", "failed"}
  /\ Moves(p, "failed")
  /\ UNCHANGED <<bridge, known, server>>

\* The server stops and is started again.  Of the children, survivors go on.
Restart(survivors) ==
  /\ survivors \subseteq Served
  /\ Cardinality(Spare \cup (Served \ survivors)) >= Cardinality(Workers)
  /\ LET gone == {p \in Clients : job[p] # Free /\ job[p].flow = "web"} \cup (Served \ survivors)
     IN /\ job' = [p \in Procs |-> IF p \in gone THEN Free ELSE job[p]]
        /\ call' = [p \in Procs |-> IF p \in gone THEN [step |-> "idle"] ELSE call[p]]
  /\ status' = [w \in Works |-> "absent"]
  /\ queue' = <<>>
  /\ pool' = "off"
  /\ child' = [k \in Workers |-> NoOne]
  /\ asked' = {}
  /\ UNCHANGED <<cache, bridge, known>>

-----------------------------------------------------------------------------
\* A program on its own, and what the server adds.
ProgramStep(p) ==
  \/ CallStep(p) /\ UNCHANGED <<job, bridge, known, server>>
  \/ Convert(p) \/ Ocr(p) \/ FolderStop(p) \/ FolderMatch(p)
  \/ \E m \in Markdowns : Import(p, m)
  \/ BridgeSelect(p) \/ BridgeWrite(p) \/ Fail(p) \/ Dies(p)
ProcStep(p) == ProgramStep(p) \/ Announce(p) \/ Put(p) \/ Backfilled(p) \/ ChildKilled(p)

Next ==
  \/ \E p \in Clients, flow \in AllFlows, w \in Works, f \in Files : StartFlow(p, flow, w, f)
  \/ \E p \in Procs : ProcStep(p)
  \/ StartPool
  \/ \E k \in Workers : Take(k) \/ Collect(k) \/ Timeout(k)
  \/ \E survivors \in SUBSET Children : Restart(survivors)

Spec == Init /\ [][Next]_vars

\* The server's own threads run and its timer fires; nothing is assumed of
\* converters, children or other programs.
Fairness ==
  /\ \A p \in Clients : WF_vars(Put(p))
  /\ WF_vars(StartPool)
  /\ \A k \in Workers : WF_vars(Take(k)) /\ WF_vars(Collect(k) \/ Timeout(k))

-----------------------------------------------------------------------------
(* Properties *)

\* "a work absent from the map has either never been enqueued or has finished
\* (its corpus row's has_markdown is then the source of truth)"
\* (ui_upload_status): no upload is forgotten as long as the server lives.
StatusTells == \A w \in asked : status[w] # "absent" \/ bridge[w] # NoRow

\* The map, the queue and the workers never disagree: a work is queued exactly
\* while its task waits or is about to be put, converting exactly while one
\* worker waits for its child, and no task is taken twice.
StatusFollowsTask ==
  \A w \in Works :
    LET waiting == {i \in DOMAIN queue : queue[i].work = w}
        putting == {p \in Clients : Stage(p) = "put" /\ job[p].work = w}
        serving == {k \in Workers : child[k] # NoOne /\ job[child[k]].work = w}
    IN /\ status[w] = "queued" <=> waiting \cup putting # {}
       /\ status[w] = "converting" <=> serving # {}
       /\ Cardinality(waiting) + Cardinality(putting) + Cardinality(serving) <= 1

\* Both, over well-formed tables.
StatusIsTrue == TypeOK /\ StatusTells /\ StatusFollowsTask

\* No work is queued or converting for ever.  An enqueued conversion ends: bridged, failed, or lost with the server.  One
\* that hangs cannot hold up the tasks behind it for longer than the timeout.
TaskSettles ==
  \A w \in Works : []<>(status[w] \in {"absent", "failed"})
=============================================================================
