--------------------------- MODULE AgentExtraction ---------------------------
(***************************************************************************)
(* Host-driven note extraction (extraction/agent.py).  A batch freezes an  *)
(* ordered selection of works; a signed-in host then alternates `next' and *)
(* `submit' calls, each under the batch's nonblocking writer lock.  What a *)
(* call learns is spread over three stores that are written one after the  *)
(* other: a receipt file per packet, the project database, the checkpoint  *)
(* state.json with its event log.  A call may die between any two writes.  *)
(* Other processes acquire, convert and reclassify sources, change policy, *)
(* and save notes for the same works meanwhile.                            *)
(*                                                                         *)
(* A Markdown document is <<file, version>>: the version-th successful     *)
(* conversion of that source file.  Attempts count from 1 (the code counts *)
(* from 0), so that attempt 0 stands for a chunk with no adopted packet.   *)
(***************************************************************************)
EXTENDS Integers, Sequences, FiniteSets

CONSTANTS
  Batches,      \* prepared batches; one writer lock each
  Works,        \* rows of the works table
  Files,        \* source files of the content cache
  Results,      \* note payloads that pass validate_note
  NPapers,      \* works selected by a batch
  MaxChunks,    \* bound: chunks of one paper
  MaxAttempts,  \* bound: attempts of one paper
  MaxVersions,  \* bound: successful conversions of one file
  MaxNotes,     \* bound: notes of one work
  Perils,       \* which of the other processes act in this instance
  Options,      \* which flags callers set and which failures hosts submit in it
  NoFile, NoMarkdown, Nobody

Papers    == 1..NPapers
Chunks    == 1..MaxChunks
Attempts  == 1..MaxAttempts
Markdown  == Files \X (1..MaxVersions)
Packets   == Papers \X Chunks \X Attempts
Failures  == {"session_failure", "paper_failure"}
Submissions == Results \cup Failures \cup {"garbage"}

\* Nothing may go external; what the route permits, open text, may; open text may,
\* and private text with consent; everything may.
Policies == {"none", "route", "open", "all"}

AllPerils == {"api_note", "acquire", "convert", "damage", "tighten", "policy"}
AllOptions == {"confirm", "replace", "redact", "resume", "retry"} \cup Failures \cup {"garbage"}
Choice(option) == IF option \in Options THEN BOOLEAN ELSE {FALSE}

ASSUME BoundsAssumption ==
  /\ NPapers \in Nat \ {0}
  /\ MaxChunks \in Nat \ {0}
  /\ MaxAttempts \in Nat \ {0}
  /\ MaxVersions \in Nat
  /\ MaxNotes \in Nat
ASSUME NamesAssumption ==
  /\ Works # {}
  /\ "api" \notin Batches
  /\ Nobody \notin Batches
  /\ NoFile \notin Files
  /\ NoMarkdown \notin Markdown
  /\ Results \cap (Failures \cup {"garbage"}) = {}
ASSUME InstanceAssumption == Perils \subseteq AllPerils /\ Options \subseteq AllOptions

VARIABLES
  \* project.db
  notes,        \* notes[w]: append-only notes of a work, the last is current
  bridge,       \* bridge[w]: work_source_files row
  writer,       \* who holds SQLite's write lock across steps
  \* cache.db, its blobs, and the configuration
  versions,     \* versions[f]: successful conversions of a file
  unreadable,   \* Markdown whose blob is pruned or corrupt
  private,      \* files that are not open access
  policy,       \* what content_policy and the task's route let go external (Policies)
  \* the batch directory
  plan,         \* manifest section agent_extraction, frozen at prepare
  disk,         \* state.json
  receipts,     \* submissions/<packet>.json
  log,          \* last event of events.jsonl
  \* the call in flight
  pc, mem, pos, call

durable  == <<plan, disk, receipts, log>>
volatile == <<pc, mem, pos, call>>
project  == <<notes, bridge, writer>>
cache    == <<versions, unreadable, private, policy>>
vars     == <<project, cache, durable, volatile>>

-----------------------------------------------------------------------------
(* Types *)

Statuses == {"pending", "preserved", "failed", "accepted", "stale", "conflict"}
Paper    == [status: Statuses, attempt: Attempts, chunks: [Chunks -> 0..MaxAttempts], note: Nat]
State    == [paused: {"no", "session", "access"}, papers: [Papers -> Paper]]
Receipt  == [status: {"none", "paused", "resumed", "failed", "accepted", "invalid"},
             payload: Submissions \cup {"nothing"},
             outcome: {"none", "accepted", "stale", "conflict", "invalid"}]
Plan     == [work: [Papers -> Works], confirm: BOOLEAN, replace: BOOLEAN,
             expected: [Papers -> Nat \cup {-1}], md: [Papers -> Markdown \cup {NoMarkdown}],
             file: [Papers -> Files \cup {NoFile}], n: [Papers -> 0..MaxChunks]]
Note     == [by: Batches \cup {"api"}, md: Markdown, text: Seq(Results)]
NoPacket == <<0, 0, 0>>
Call     == [op: {"none", "next", "submit", "replay"}, redact: BOOLEAN,
             packet: Packets \cup {NoPacket}, receipt: Receipt,
             event: {"awaiting_host", "paused", "finished"}]

FreshPaper == [status |-> "pending", attempt |-> 1, chunks |-> [c \in Chunks |-> 0], note |-> 0]
FreshState == [paused |-> "no", papers |-> [p \in Papers |-> FreshPaper]]
NoReceipt  == [status |-> "none", payload |-> "nothing", outcome |-> "none"]
NoCall     == [op |-> "none", redact |-> FALSE, packet |-> NoPacket, receipt |-> NoReceipt,
               event |-> "awaiting_host"]

TypeOK ==
  /\ notes \in [Works -> Seq(Note)]
  /\ bridge \in [Works -> [file: Files, md: Markdown \cup {NoMarkdown}]]
  /\ writer \in Batches \cup {Nobody}
  /\ versions \in [Files -> 0..MaxVersions]
  /\ unreadable \subseteq Markdown
  /\ private \subseteq Files
  /\ policy \in Policies
  /\ plan \in [Batches -> Plan]
  /\ disk \in [Batches -> State]
  /\ receipts \in [Batches -> [Packets -> Receipt]]
  /\ log \in [Batches -> {"none", "awaiting_host", "paused", "finished"}]
  /\ pc \in [Batches -> {"new", "expect", "source", "bind", "publish", "idle", "reconcile",
                         "activate", "begin", "commit", "serve", "receipt", "checkpoint"}]
  /\ mem \in [Batches -> State]
  /\ pos \in [Batches -> 1..(NPapers + 1)]
  /\ call \in [Batches -> Call]

-----------------------------------------------------------------------------
(* What the code reads *)

\* The note ordinary search shows, as its position; 0 when the work has none.
LatestNote(w) == Len(notes[w])

\* A successful conversion run of this very file produced this Markdown.
Proven(f, m) == m # NoMarkdown /\ m[1] = f /\ m[2] <= versions[f]

\* The Markdown a work resolves to now: its bridge must be whole, readable and
\* proven, and the newest conversion of the file wins if it can be read too.
Source(w) ==
  LET f == bridge[w].file
      m == bridge[w].md
      newest == <<f, versions[f]>>
  IN IF Proven(f, m) /\ m \notin unreadable /\ newest \notin unreadable
     THEN newest ELSE NoMarkdown

\* The content gate, with the batch's explicit consent to share private text; a
\* route that permits open text only is not overruled by consent.
Allowed(f, confirm) ==
  \/ policy = "all"
  \/ policy = "open" /\ (f \notin private \/ confirm)
  \/ policy = "route" /\ f \notin private

\* A current source that is still what the plan froze.
SourceMatches(b, p) ==
  /\ plan[b].md[p] # NoMarkdown
  /\ Source(plan[b].work[p]) = plan[b].md[p]
  /\ Proven(plan[b].file[p], plan[b].md[p])
  /\ bridge[plan[b].work[p]].file = plan[b].file[p]

Planned(b, p)  == 1..plan[b].n[p]
Missing(b, p)  == {c \in Planned(b, p) : mem[b].papers[p].chunks[c] = 0}
Packet(b, p, c) == <<p, c, mem[b].papers[p].attempt>>
ReceiptOf(b, p, c) == receipts[b][Packet(b, p, c)]
Pending(b, p)  == mem[b].papers[p].status = "pending"

\* Notes of a work that this batch committed.
CommittedBy(b, w) == {i \in 1..Len(notes[w]) : notes[w][i].by = b}
-----------------------------------------------------------------------------
(* prepare_batch: per paper the current note, then the source, then the     *)
(* bridge row again, are read in that order; nothing is locked.             *)

PrepareStart(b) ==
  /\ pc[b] = "new"
  /\ \E works \in [Papers -> Works],
          confirm \in Choice("confirm"), replace \in Choice("replace") :
       /\ \A p, q \in Papers : works[p] = works[q] => p = q
       /\ plan' = [plan EXCEPT ![b].work = works, ![b].confirm = confirm, ![b].replace = replace]
  /\ pc' = [pc EXCEPT ![b] = "expect"]
  /\ UNCHANGED <<project, cache, disk, receipts, log, mem, pos, call>>

PrepareExpect(b) ==
  /\ pc[b] = "expect"
  /\ plan' = [plan EXCEPT ![b].expected[pos[b]] = LatestNote(plan[b].work[pos[b]])]
  /\ pc' = [pc EXCEPT ![b] = "source"]
  /\ UNCHANGED <<project, cache, disk, receipts, log, mem, pos, call>>

NextPaper(b) ==
  /\ pos' = [pos EXCEPT ![b] = @ + 1]
  /\ pc' = [pc EXCEPT ![b] = IF pos[b] = NPapers THEN "publish" ELSE "expect"]

PrepareSource(b) ==
  LET p == pos[b]
      m == Source(plan[b].work[p])
  IN /\ pc[b] = "source"
     /\ IF m # NoMarkdown /\ Allowed(m[1], plan[b].confirm)
        THEN /\ plan' = [plan EXCEPT ![b].md[p] = m]
             /\ pc' = [pc EXCEPT ![b] = "bind"]
             /\ UNCHANGED <<mem, pos>>
        ELSE /\ mem' = [mem EXCEPT ![b].papers[p].status = "failed"]
             /\ NextPaper(b)
             /\ UNCHANGED plan
     /\ UNCHANGED <<project, cache, disk, receipts, log, call>>

\* The current note already interprets this text with this prompt and schema.
AlreadyCurrent(b, p) ==
  LET w == plan[b].work[p]
      i == plan[b].expected[p]
  IN i > 0 /\ notes[w][i].md = plan[b].md[p] /\ ~plan[b].replace

PrepareBind(b) ==
  LET p == pos[b]
  IN /\ pc[b] = "bind"
     /\ \E n \in 0..MaxChunks :
          /\ AlreadyCurrent(b, p) => n = 0
          /\ plan' = [plan EXCEPT ![b].file[p] = bridge[plan[b].work[p]].file, ![b].n[p] = n]
          /\ mem' = [mem EXCEPT ![b].papers[p] =
                       IF AlreadyCurrent(b, p)
                       THEN [@ EXCEPT !.status = "preserved", !.note = plan[b].expected[p]]
                       ELSE [@ EXCEPT !.status = IF n = 0 THEN "failed" ELSE "pending"]]
     /\ NextPaper(b)
     /\ UNCHANGED <<project, cache, disk, receipts, log, call>>

\* Mutant of Return: papers counted from zero.
ReturnToZero(b) ==
  /\ pc' = [pc EXCEPT ![b] = "idle"]
  /\ mem' = [mem EXCEPT ![b] = FreshState]
  /\ pos' = [pos EXCEPT ![b] = 0]
  /\ call' = [call EXCEPT ![b] = NoCall]

\* The call is over: the lock is released and what it kept in memory is gone.
Return(b) ==
  /\ pc' = [pc EXCEPT ![b] = "idle"]
  /\ mem' = [mem EXCEPT ![b] = FreshState]
  /\ pos' = [pos EXCEPT ![b] = 1]
  /\ call' = [call EXCEPT ![b] = NoCall]

PreparePublish(b) ==
  /\ pc[b] = "publish"
  /\ disk' = [disk EXCEPT ![b] = mem[b]]
  /\ log' = [log EXCEPT ![b] = "awaiting_host"]
  /\ Return(b)
  /\ UNCHANGED <<project, cache, plan, receipts>>

-----------------------------------------------------------------------------
(* next_packet *)

\* `resume' acknowledges every reported pause on its receipt, then clears it.
Acknowledged(b) ==
  [k \in Packets |->
     IF /\ receipts[b][k].status = "paused"
        /\ k[2] \in Planned(b, k[1])
        /\ k[3] = disk[b].papers[k[1]].attempt
     THEN [receipts[b][k] EXCEPT !.status = "resumed"]
     ELSE receipts[b][k]]

\* Mutant of Retried: stale papers are reopened too.
RetriedStale(b, st) ==
  [st EXCEPT !.papers = [p \in Papers |->
     IF /\ st.papers[p].status \in {"failed", "stale"}
        /\ plan[b].n[p] > 0 /\ st.papers[p].attempt < MaxAttempts
     THEN [st.papers[p] EXCEPT !.status = "pending", !.attempt = @ + 1]
     ELSE st.papers[p]]]

\* `retry_failed' opens a new attempt of every failed paper that has a plan.
Retried(b, st) ==
  [st EXCEPT !.papers = [p \in Papers |->
     IF st.papers[p].status = "failed" /\ plan[b].n[p] > 0 /\ st.papers[p].attempt < MaxAttempts
     THEN [st.papers[p] EXCEPT !.status = "pending", !.attempt = @ + 1]
     ELSE st.papers[p]]]

NextCall(b, resume, retry, redact) ==
  /\ pc[b] = "idle"
  /\ receipts' = IF resume THEN [receipts EXCEPT ![b] = Acknowledged(b)] ELSE receipts
  /\ LET loaded == IF resume THEN [disk[b] EXCEPT !.paused = "no"] ELSE disk[b]
     IN mem' = [mem EXCEPT ![b] = IF retry THEN Retried(b, loaded) ELSE loaded]
  /\ call' = [call EXCEPT ![b] = [NoCall EXCEPT !.op = "next", !.redact = redact]]
  /\ pc' = [pc EXCEPT ![b] = "reconcile"]
  /\ UNCHANGED <<project, cache, plan, disk, log, pos>>

\* Mutant of Adopted: any receipt proves a chunk.
AdoptedAnything(b, p) ==
  LET failed == {c \in Missing(b, p) : ReceiptOf(b, p, c).status = "failed"}
      ok     == {c \in Missing(b, p) : ReceiptOf(b, p, c).status \in {"accepted", "invalid"}}
      ps     == mem[b].papers[p]
  IN [mem[b] EXCEPT !.papers[p] = [ps EXCEPT
        !.status = IF failed # {} THEN "failed" ELSE @,
        !.chunks = [c \in Chunks |-> IF c \in ok THEN ps.attempt ELSE ps.chunks[c]]]]

\* Mutant of Adopted: an acknowledged pause still halts the batch.
AdoptedStillPaused(b, p) ==
  LET ok == {c \in Missing(b, p) : ReceiptOf(b, p, c).status = "accepted"}
      halted == \E c \in Missing(b, p) : ReceiptOf(b, p, c).status \in {"paused", "resumed"}
      ps == mem[b].papers[p]
  IN [mem[b] EXCEPT
        !.paused = IF halted THEN "session" ELSE @,
        !.papers[p].chunks = [c \in Chunks |-> IF c \in ok THEN ps.attempt ELSE ps.chunks[c]]]

\* _reconcile, one paper: adopt what receipts prove, up to the first failure.
Adopted(b, p) ==
  LET failed == {c \in Missing(b, p) : ReceiptOf(b, p, c).status = "failed"}
      seen   == {c \in Missing(b, p) : \A d \in failed : c < d}
      ok     == {c \in seen : ReceiptOf(b, p, c).status = "accepted"}
      halted == \E c \in seen : ReceiptOf(b, p, c).status = "paused"
      ps     == mem[b].papers[p]
  IN [mem[b] EXCEPT
        !.paused = IF halted THEN "session" ELSE @,
        !.papers[p] = [ps EXCEPT
           !.status = IF failed # {} THEN "failed" ELSE @,
           !.chunks = [c \in Chunks |-> IF c \in ok THEN ps.attempt ELSE ps.chunks[c]]]]

Complete(b, p, st) ==
  st.papers[p].status = "pending" /\ \A c \in Planned(b, p) : st.papers[p].chunks[c] # 0

Reconcile(b) ==
  LET p == pos[b]
  IN /\ pc[b] = "reconcile" /\ p \in Papers
     /\ IF Pending(b, p)
        THEN /\ mem' = [mem EXCEPT ![b] = Adopted(b, p)]
             /\ IF Complete(b, p, Adopted(b, p))
                THEN pc' = [pc EXCEPT ![b] = "activate"] /\ UNCHANGED pos
                ELSE pos' = [pos EXCEPT ![b] = @ + 1] /\ UNCHANGED pc
        ELSE pos' = [pos EXCEPT ![b] = @ + 1] /\ UNCHANGED <<mem, pc>>
     /\ UNCHANGED <<project, cache, durable, call>>

Finish(b, event) ==
  /\ pc' = [pc EXCEPT ![b] = "checkpoint"]
  /\ call' = [call EXCEPT ![b].event = event]

\* Mutant of Reconciled: a paused batch keeps serving.
ReconciledThoughPaused(b) ==
  /\ pc[b] = "reconcile" /\ pos[b] = NPapers + 1
  /\ IF call[b].op = "replay"
     THEN Finish(b, "awaiting_host") /\ UNCHANGED pos
     ELSE /\ pc' = [pc EXCEPT ![b] = "serve"]
          /\ pos' = [pos EXCEPT ![b] = 1]
          /\ UNCHANGED call
  /\ UNCHANGED <<project, cache, durable, mem>>

Reconciled(b) ==
  /\ pc[b] = "reconcile" /\ pos[b] = NPapers + 1
  /\ CASE call[b].op = "replay" -> Finish(b, "awaiting_host") /\ UNCHANGED pos
       [] call[b].op = "next" /\ mem[b].paused # "no" -> Finish(b, "paused") /\ UNCHANGED pos
       [] OTHER -> /\ pc' = [pc EXCEPT ![b] = "serve"]
                   /\ pos' = [pos EXCEPT ![b] = 1]
                   /\ UNCHANGED call
  /\ UNCHANGED <<project, cache, durable, mem>>

\* Mutant of ServePending: trusts the gate's answer at prepare.
ServeUngated(b, p) ==
  \E c \in Missing(b, p) :
    /\ \A d \in Missing(b, p) : c <= d
    /\ pc' = [pc EXCEPT ![b] = "checkpoint"]
    /\ call' = [call EXCEPT ![b] = [@ EXCEPT !.event = "awaiting_host", !.packet = Packet(b, p, c)]]
    /\ UNCHANGED <<mem, pos>>

\* The serving loop at one pending paper: unreadable or unproven text fails the
\* paper, redaction withholds, the gate pauses, else its first missing chunk is due.
ServePending(b, p) ==
  LET f == plan[b].file[p]
      m == plan[b].md[p]
  IN CASE m \in unreadable \/ ~Proven(f, m) ->
            /\ mem' = [mem EXCEPT ![b].papers[p].status = "failed"]
            /\ pos' = [pos EXCEPT ![b] = @ + 1]
            /\ UNCHANGED <<pc, call>>
       [] m \notin unreadable /\ Proven(f, m) /\ call[b].redact /\ f \in private ->
            Finish(b, "awaiting_host") /\ UNCHANGED <<mem, pos>>
       [] m \notin unreadable /\ Proven(f, m) /\ ~(call[b].redact /\ f \in private)
            /\ ~Allowed(f, plan[b].confirm) ->
            /\ mem' = [mem EXCEPT ![b].paused = "access"]
            /\ Finish(b, "paused") /\ UNCHANGED pos
       [] OTHER ->
            IF Missing(b, p) = {}
            THEN pos' = [pos EXCEPT ![b] = @ + 1] /\ UNCHANGED <<mem, pc, call>>
            ELSE \E c \in Missing(b, p) :
                   /\ \A d \in Missing(b, p) : c <= d
                   /\ pc' = [pc EXCEPT ![b] = "checkpoint"]
                   /\ call' = [call EXCEPT ![b] = [@ EXCEPT !.event = "awaiting_host",
                                                            !.packet = Packet(b, p, c)]]
                   /\ UNCHANGED <<mem, pos>>

Serve(b) ==
  LET p == pos[b]
  IN /\ pc[b] = "serve" /\ p \in Papers
     /\ IF Pending(b, p)
        THEN ServePending(b, p)
        ELSE pos' = [pos EXCEPT ![b] = @ + 1] /\ UNCHANGED <<mem, pc, call>>
     /\ UNCHANGED <<project, cache, durable>>

ServedAll(b) ==
  /\ pc[b] = "serve" /\ pos[b] = NPapers + 1
  /\ Finish(b, "finished")
  /\ UNCHANGED <<project, cache, durable, mem, pos>>
-----------------------------------------------------------------------------
(* submit_packet: every packet of an attempt up to the current one is known. *)

Known(b, k) == k[2] \in Planned(b, k[1]) /\ k[3] <= disk[b].papers[k[1]].attempt

\* The unfinished packet that `next' returned: nothing pending before it.
Due(b, k) ==
  /\ disk[b].papers[k[1]].status = "pending"
  /\ disk[b].paused = "no"
  /\ k[3] = disk[b].papers[k[1]].attempt
  /\ disk[b].papers[k[1]].chunks[k[2]] = 0
  /\ \A c \in Planned(b, k[1]) : disk[b].papers[k[1]].chunks[c] = 0 => k[2] <= c
  /\ \A q \in 1..(k[1] - 1) : disk[b].papers[q].status # "pending"

Consumed(r) == r.status \in {"accepted", "failed"}

Enter(b, k, op, step, receipt) ==
  /\ pc' = [pc EXCEPT ![b] = step]
  /\ call' = [call EXCEPT ![b] = [NoCall EXCEPT !.op = op, !.packet = k, !.receipt = receipt]]

\* The same payload again for a consumed packet: reconcile and report a duplicate.
SubmitReplay(b, k, x) ==
  /\ pc[b] = "idle" /\ Known(b, k)
  /\ Consumed(receipts[b][k]) /\ receipts[b][k].payload = x
  /\ mem' = [mem EXCEPT ![b] = disk[b]]
  /\ Enter(b, k, "replay", "reconcile", NoReceipt)
  /\ UNCHANGED <<project, cache, durable, pos>>

\* A valid note: its receipt is saved before any activation.
SubmitResult(b, k, x) ==
  LET r  == [status |-> "accepted", payload |-> x, outcome |-> "none"]
      st == [disk[b] EXCEPT !.papers[k[1]].chunks[k[2]] = k[3]]
  IN /\ pc[b] = "idle" /\ Known(b, k) /\ x \in Results
     /\ ~Consumed(receipts[b][k]) /\ Due(b, k)
     /\ receipts' = [receipts EXCEPT ![b][k] = r]
     /\ mem' = [mem EXCEPT ![b] = st]
     /\ pos' = [pos EXCEPT ![b] = k[1]]
     /\ Enter(b, k, "submit", IF Complete(b, k[1], st) THEN "activate" ELSE "receipt",
              [r EXCEPT !.outcome = "accepted"])
     /\ UNCHANGED <<project, cache, plan, disk, log>>

SubmitInvalid(b, k) ==
  /\ pc[b] = "idle" /\ Known(b, k) /\ ~Consumed(receipts[b][k]) /\ Due(b, k)
  /\ mem' = [mem EXCEPT ![b] = disk[b]]
  /\ Enter(b, k, "submit", "receipt",
           [status |-> "invalid", payload |-> "garbage", outcome |-> "invalid"])
  /\ UNCHANGED <<project, cache, durable, pos>>

\* Mutant of SubmitFailure: it does not ask whether the packet was consumed.
SubmitFailureAnyway(b, k, x) ==
  /\ pc[b] = "idle" /\ Known(b, k) /\ x \in Failures /\ Due(b, k)
  /\ mem' = [mem EXCEPT ![b].papers[k[1]].status = "failed"]
  /\ Enter(b, k, "submit", "receipt", [status |-> "failed", payload |-> x, outcome |-> "accepted"])
  /\ UNCHANGED <<project, cache, durable, pos>>

\* A session failure pauses the batch, a paper failure fails the paper.
SubmitFailure(b, k, x) ==
  /\ pc[b] = "idle" /\ Known(b, k) /\ x \in Failures
  /\ ~Consumed(receipts[b][k]) /\ Due(b, k)
  /\ mem' = [mem EXCEPT ![b] = IF x = "session_failure"
                               THEN [disk[b] EXCEPT !.paused = "session"]
                               ELSE [disk[b] EXCEPT !.papers[k[1]].status = "failed"]]
  /\ Enter(b, k, "submit", "receipt",
           [status |-> IF x = "session_failure" THEN "paused" ELSE "failed",
            payload |-> x, outcome |-> "accepted"])
  /\ UNCHANGED <<project, cache, durable, pos>>

\* The receipt is written, for an accepted note a second time, with its outcome.
WriteReceipt(b) ==
  /\ pc[b] = "receipt"
  /\ receipts' = [receipts EXCEPT ![b][call[b].packet] = call[b].receipt]
  /\ Finish(b, IF mem[b].paused # "no" THEN "paused" ELSE "awaiting_host")
  /\ UNCHANGED <<project, cache, plan, disk, log, mem, pos>>

-----------------------------------------------------------------------------
(* _activate, shared by submit and _reconcile *)

\* Back to the caller with the paper settled.
Settle(b, status, note) ==
  LET p == pos[b]
  IN /\ mem' = [mem EXCEPT ![b].papers[p] = [@ EXCEPT !.status = status, !.note = note]]
     /\ IF call[b].op = "submit"
        THEN /\ pc' = [pc EXCEPT ![b] = "receipt"]
             /\ call' = [call EXCEPT ![b].receipt.outcome = status]
             /\ UNCHANGED pos
        ELSE /\ pc' = [pc EXCEPT ![b] = "reconcile"]
             /\ pos' = [pos EXCEPT ![b] = @ + 1]
             /\ UNCHANGED call

\* The database is authoritative for a commit whose checkpoint was lost.
Recover(b) ==
  LET w == plan[b].work[pos[b]]
  IN /\ pc[b] = "activate" /\ CommittedBy(b, w) # {}
     /\ \E i \in CommittedBy(b, w) :
          /\ \A j \in CommittedBy(b, w) : j <= i
          /\ Settle(b, "accepted", i)
     /\ UNCHANGED <<project, cache, durable>>

\* The source is read outside any transaction; a changed source, schema or
\* prompt, or a saved chunk that no longer validates, makes the paper stale.
CheckSource(b) ==
  /\ pc[b] = "activate"
  /\ CommittedBy(b, plan[b].work[pos[b]]) = {}
  /\ \/ /\ SourceMatches(b, pos[b])
        /\ pc' = [pc EXCEPT ![b] = "begin"]
        /\ UNCHANGED <<mem, pos, call>>
     \/ Settle(b, "stale", 0)
  /\ UNCHANGED <<project, cache, durable>>

\* Mutants of Begin: the transaction repeats only one of the two checks.
BeginWithoutCompare(b) ==
  /\ pc[b] = "begin" /\ writer = Nobody
  /\ IF SourceMatches(b, pos[b])
     THEN writer' = b /\ pc' = [pc EXCEPT ![b] = "commit"] /\ UNCHANGED <<mem, pos, call>>
     ELSE Settle(b, "stale", 0) /\ UNCHANGED writer
  /\ UNCHANGED <<notes, bridge, cache, durable>>

BeginWithoutSource(b) ==
  /\ pc[b] = "begin" /\ writer = Nobody
  /\ IF LatestNote(plan[b].work[pos[b]]) = plan[b].expected[pos[b]]
     THEN writer' = b /\ pc' = [pc EXCEPT ![b] = "commit"] /\ UNCHANGED <<mem, pos, call>>
     ELSE Settle(b, "conflict", 0) /\ UNCHANGED writer
  /\ UNCHANGED <<notes, bridge, cache, durable>>

\* BEGIN IMMEDIATE, then the compare of compare-and-activate, then the source again.
Begin(b) ==
  LET p == pos[b]
      w == plan[b].work[p]
  IN /\ pc[b] = "begin" /\ writer = Nobody
     /\ IF LatestNote(w) # plan[b].expected[p]
        THEN Settle(b, "conflict", 0) /\ UNCHANGED writer
        ELSE IF ~SourceMatches(b, p)
             THEN Settle(b, "stale", 0) /\ UNCHANGED writer
             ELSE /\ writer' = b
                  /\ pc' = [pc EXCEPT ![b] = "commit"]
                  /\ UNCHANGED <<mem, pos, call>>
     /\ UNCHANGED <<notes, bridge, cache, durable>>

\* Mutant of MergedText: reads the packets of the current attempt.
MergedTextOfAttempt(b, p) == [c \in Planned(b, p) |-> ReceiptOf(b, p, c).payload]

\* The note merges the saved chunks, in order.
MergedText(b, p) ==
  [c \in Planned(b, p) |-> receipts[b][<<p, c, mem[b].papers[p].chunks[c]>>].payload]

\* Mutant of Commit: reports the note that was current before.
CommitStaleId(b) ==
  LET p == pos[b]
      w == plan[b].work[p]
  IN /\ pc[b] = "commit" /\ LatestNote(w) < MaxNotes
     /\ notes' = [notes EXCEPT ![w] =
                    Append(@, [by |-> b, md |-> plan[b].md[p], text |-> MergedText(b, p)])]
     /\ writer' = Nobody
     /\ Settle(b, "accepted", LatestNote(w))
     /\ UNCHANGED <<bridge, cache, durable>>

\* Mutant of Commit: the new note replaces the history.
CommitOverwriting(b) ==
  LET p == pos[b]
  IN /\ pc[b] = "commit"
     /\ notes' = [notes EXCEPT ![plan[b].work[p]] =
                    << [by |-> b, md |-> plan[b].md[p], text |-> MergedText(b, p)] >>]
     /\ writer' = Nobody
     /\ Settle(b, "accepted", 1)
     /\ UNCHANGED <<bridge, cache, durable>>

Commit(b) ==
  LET p == pos[b]
      w == plan[b].work[p]
  IN /\ pc[b] = "commit" /\ LatestNote(w) < MaxNotes
     /\ notes' = [notes EXCEPT ![w] =
                    Append(@, [by |-> b, md |-> plan[b].md[p], text |-> MergedText(b, p)])]
     /\ writer' = Nobody
     /\ Settle(b, "accepted", LatestNote(w) + 1)
     /\ UNCHANGED <<bridge, cache, durable>>

\* Saving the claims fails on the text it reads; the transaction is rolled back.
Rollback(b) ==
  /\ pc[b] = "commit"
  /\ writer' = Nobody
  /\ Settle(b, "stale", 0)
  /\ UNCHANGED <<notes, bridge, cache, durable>>

-----------------------------------------------------------------------------
(* _checkpoint, and a call that dies: an exception, a kill, a busy database *)

Checkpoint(b) ==
  /\ pc[b] = "checkpoint"
  /\ disk' = [disk EXCEPT ![b] = mem[b]]
  /\ log' = [log EXCEPT ![b] = call[b].event]
  /\ Return(b)
  /\ UNCHANGED <<project, cache, plan, receipts>>

\* state.json is replaced but the process dies before the event is appended.
TornCheckpoint(b) ==
  /\ pc[b] = "checkpoint"
  /\ disk' = [disk EXCEPT ![b] = mem[b]]
  /\ Return(b)
  /\ UNCHANGED <<project, cache, plan, receipts, log>>

Crash(b) ==
  /\ pc[b] \notin {"new", "expect", "source", "bind", "publish", "idle"}
  /\ Return(b)
  /\ writer' = IF writer = b THEN Nobody ELSE writer
  /\ UNCHANGED <<notes, bridge, cache, durable>>

-----------------------------------------------------------------------------
(* The other processes *)

\* An API extraction run saves a note without comparing (save_normalized_note).
ApiNote(w) ==
  /\ "api_note" \in Perils /\ writer = Nobody /\ LatestNote(w) < MaxNotes
  /\ bridge[w].md # NoMarkdown
  /\ \E x \in Results :
       notes' = [notes EXCEPT ![w] = Append(@, [by |-> "api", md |-> bridge[w].md, text |-> <<x>>])]
  /\ UNCHANGED <<bridge, writer, cache, durable, volatile>>

\* A new file for the work, not converted yet: the old Markdown columns stay.
WriteBridge(w, f) ==
  /\ "acquire" \in Perils /\ writer = Nobody
  /\ bridge' = [bridge EXCEPT ![w].file = f]
  /\ UNCHANGED <<notes, writer, cache, durable, volatile>>

BackfillMarkdown(w) ==
  LET f == bridge[w].file
  IN /\ writer = Nobody /\ versions[f] > 0
     /\ bridge[w].md # <<f, versions[f]>>
     /\ bridge' = [bridge EXCEPT ![w].md = <<f, versions[f]>>]
     /\ UNCHANGED <<notes, writer, cache, durable, volatile>>

Convert(f) ==
  /\ "convert" \in Perils /\ versions[f] < MaxVersions
  /\ versions' = [versions EXCEPT ![f] = @ + 1]
  /\ UNCHANGED <<project, unreadable, private, policy, durable, volatile>>

\* Blobs get pruned, corrupted and restored; files are only ever reclassified tighter.
Damageable == IF "damage" \in Perils THEN Markdown ELSE {}
Damage(m) ==
  /\ unreadable' = IF m \in unreadable THEN unreadable \ {m} ELSE unreadable \cup {m}
  /\ UNCHANGED <<project, versions, private, policy, durable, volatile>>

Tighten(f) ==
  /\ "tighten" \in Perils
  /\ private' = private \cup {f}
  /\ UNCHANGED <<project, versions, unreadable, policy, durable, volatile>>

SetPolicy(p) ==
  /\ "policy" \in Perils
  /\ policy' = p
  /\ UNCHANGED <<project, versions, unreadable, private, durable, volatile>>
-----------------------------------------------------------------------------
EmptyPlan ==
  [work |-> [p \in Papers |-> CHOOSE w \in Works : TRUE], confirm |-> FALSE, replace |-> FALSE,
   expected |-> [p \in Papers |-> -1], md |-> [p \in Papers |-> NoMarkdown],
   file |-> [p \in Papers |-> NoFile], n |-> [p \in Papers |-> 0]]

\* Every work starts with a source file, converted at most once.
Init ==
  /\ notes = [w \in Works |-> <<>>]
  /\ \E files \in [Works -> Files], done \in SUBSET Files :
       /\ versions = [f \in Files |-> IF f \in done /\ MaxVersions > 0 THEN 1 ELSE 0]
       /\ bridge = [w \in Works |->
            [file |-> files[w],
             md |-> IF versions[files[w]] = 1 THEN <<files[w], 1>> ELSE NoMarkdown]]
  /\ writer = Nobody
  /\ unreadable = {} /\ private = {} /\ policy = "open"
  /\ plan = [b \in Batches |-> EmptyPlan]
  /\ disk = [b \in Batches |-> FreshState]
  /\ receipts = [b \in Batches |-> [k \in Packets |-> NoReceipt]]
  /\ log = [b \in Batches |-> "none"]
  /\ pc = [b \in Batches |-> "new"]
  /\ mem = [b \in Batches |-> FreshState]
  /\ pos = [b \in Batches |-> 1]
  /\ call = [b \in Batches |-> NoCall]

Prepare(b) ==
  PrepareStart(b) \/ PrepareExpect(b) \/ PrepareSource(b) \/ PrepareBind(b) \/ PreparePublish(b)

\* The host calls.
Host(b) ==
  \/ \E resume \in Choice("resume"), retry \in Choice("retry"), redact \in Choice("redact") :
       NextCall(b, resume, retry, redact)
  \/ \E k \in Packets : \/ \E x \in Submissions : SubmitReplay(b, k, x)
                        \/ \E x \in Results : SubmitResult(b, k, x)
                        \/ \E x \in Failures \cap Options : SubmitFailure(b, k, x)
                        \/ "garbage" \in Options /\ SubmitInvalid(b, k)

\* The call in flight runs on.
Run(b) ==
  \/ Reconcile(b) \/ Reconciled(b) \/ Serve(b) \/ ServedAll(b)
  \/ WriteReceipt(b) \/ Recover(b) \/ CheckSource(b) \/ Begin(b) \/ Commit(b) \/ Rollback(b)
  \/ Checkpoint(b)

Environment ==
  \/ \E w \in Works : ApiNote(w) \/ BackfillMarkdown(w) \/ \E f \in Files : WriteBridge(w, f)
  \/ \E f \in Files : Convert(f) \/ Tighten(f)
  \/ \E m \in Damageable : Damage(m)
  \/ \E p \in Policies : SetPolicy(p)

Next ==
  \/ \E b \in Batches : Prepare(b) \/ Host(b) \/ Run(b) \/ TornCheckpoint(b) \/ Crash(b)
  \/ Environment

Spec == Init /\ [][Next]_vars

-----------------------------------------------------------------------------
(* Safety *)

\* A batch commits at most one note per work, whatever is replayed, retried or
\* recovered: _activate asks the database before it saves.
OneNotePerBatch ==
  \A b \in Batches, w \in Works : \A i, j \in CommittedBy(b, w) : i = j

\* A committed note covers every planned chunk, and each part is the payload of
\* an accepted receipt of that chunk: nothing lost, mixed up or invented.
NoteIsItsReceipts ==
  \A b \in Batches, p \in Papers : \A i \in CommittedBy(b, plan[b].work[p]) :
    LET text == notes[plan[b].work[p]][i].text
    IN /\ Len(text) = plan[b].n[p]
       /\ \A c \in Planned(b, p) : \E a \in Attempts :
            /\ receipts[b][<<p, c, a>>].status = "accepted"
            /\ receipts[b][<<p, c, a>>].payload = text[c]

\* Compare-and-activate: a batch's note is the direct successor of the note that
\* was current when the batch was prepared, and interprets the frozen text.
NoteFollowsExpected ==
  \A b \in Batches, p \in Papers : \A i \in CommittedBy(b, plan[b].work[p]) :
    /\ i = plan[b].expected[p] + 1
    /\ notes[plan[b].work[p]][i].md = plan[b].md[p]

\* A checkpoint that calls a paper accepted names the note this batch committed.
AcceptedHasNote ==
  \A b \in Batches, p \in Papers :
    disk[b].papers[p].status = "accepted" =>
      disk[b].papers[p].note \in CommittedBy(b, plan[b].work[p])

\* Every chunk a checkpoint counts as done has an accepted receipt behind it.
ChunksAreReceipted ==
  \A b \in Batches, p \in Papers, c \in Chunks :
    LET a == disk[b].papers[p].chunks[c]
    IN a # 0 => receipts[b][<<p, c, a>>].status = "accepted"

\* `next' hands out a packet only if it was never consumed, nothing is paused
\* and every earlier paper is settled, even right after a crash.
ServedIsDue ==
  \A b \in Batches :
    (pc[b] = "checkpoint" /\ call[b].op = "next" /\ call[b].packet # NoPacket) =>
      /\ ~Consumed(receipts[b][call[b].packet])
      /\ mem[b].paused = "no"
      /\ \A q \in 1..(call[b].packet[1] - 1) : ~Pending(b, q)

\* A consumed packet never changes its payload or its verdict.
ConsumedForever ==
  [][\A b \in Batches, k \in Packets :
       Consumed(receipts[b][k]) =>
         /\ receipts'[b][k].status = receipts[b][k].status
         /\ receipts'[b][k].payload = receipts[b][k].payload]_vars

\* A settled paper stays settled; only an explicit retry reopens a failed one, as
\* a new attempt, and no chunk already done is asked for again.  The event log
\* says `finished' only when nothing is pending or paused.
PapersOnlyAdvance ==
  [][\A b \in Batches, p \in Papers :
       LET old == disk[b].papers[p]  new == disk'[b].papers[p]
       IN /\ pc[b] \notin {"new", "publish"} =>
               /\ old.status \in {"preserved", "accepted", "stale", "conflict"} => new = old
               /\ old.status = "failed" /\ new.status # "failed" => new.attempt = old.attempt + 1
               /\ \A c \in Chunks : old.chunks[c] # 0 => new.chunks[c] = old.chunks[c]
          /\ log'[b] = "finished" /\ log[b] # "finished" =>
               disk'[b].paused = "no" /\ new.status # "pending"]_vars

\* At the commit the bridge is the one the plan froze and the Markdown is a
\* proven conversion of that file.
CommitOnPlannedSource ==
  [][\A b \in Batches, w \in Works :
       CommittedBy(b, w)' # CommittedBy(b, w) =>
         \E p \in Papers : /\ plan[b].work[p] = w
                           /\ bridge[w].file = plan[b].file[p]
                           /\ Proven(plan[b].file[p], plan[b].md[p])]_vars

\* `next' re-reads class and policy: what prepare found permitted is not served
\* once the file is reclassified or the policy tightened, nor when redacting.
ServedIsPermitted ==
  [][\A b \in Batches : LET k == call'[b].packet IN
       (pc[b] = "serve" /\ k # NoPacket) =>
         /\ Allowed(plan[b].file[k[1]], plan[b].confirm)
         /\ call[b].redact => plan[b].file[k[1]] \notin private]_vars

\* Docs: a reported pause resumes with `next --resume'.  A pause nobody has
\* acknowledged is only ever cleared by a resume.
PauseEndsByResume ==
  [][\A b \in Batches, k \in Packets :
       receipts[b][k].status = "paused" => receipts'[b][k].status \in {"paused", "resumed"}]_vars

-----------------------------------------------------------------------------
(* Refinement: readers see the ledger of NoteLedger. *)

Ledger == INSTANCE NoteLedger WITH
  ledger <- [w \in Works |-> [i \in 1..Len(notes[w]) |-> notes[w][i].by]],
  basis  <- [b \in Batches |-> [w \in Works |->
              {plan[b].expected[p] : p \in {q \in Papers : plan[b].work[q] = w}} \ {-1}]]

\* Whatever crashes, retries and races happen, notes change only as NoteLedger says.
ImplementsLedger == Ledger!LedgerSpec

-----------------------------------------------------------------------------
(* Liveness.  A call that started runs on unless it dies.  The host is a    *)
(* client that never gives up: it keeps calling `next --resume' and keeps   *)
(* answering the due packet, between whatever else it submits.              *)

HostAnswers(b) == \E k \in Packets, x \in Results : SubmitResult(b, k, x)

Calm == <>[][\A b \in Batches : ~Crash(b) /\ ~TornCheckpoint(b)]_vars

\* A paper of a prepared batch that is no longer pending.
Settled(b, p) == pc[b] # "new" /\ disk[b].papers[p].status # "pending"
=============================================================================
