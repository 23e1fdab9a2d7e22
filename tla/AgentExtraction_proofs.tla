----------------------- MODULE AgentExtraction_proofs -----------------------
(***************************************************************************)
(* Theorems about AgentExtraction, for every value of its constants.  The  *)
(* argument is one inductive invariant, IInv: receipts are final once      *)
(* consumed; checkpoints and memory count only receipted chunks; a call    *)
(* that activates a paper has all its chunks; whoever holds the write lock *)
(* has compared the note and the source under it; and therefore the notes  *)
(* a batch committed are the ones its plan allows.  On top of it, CallsOK  *)
(* says what a call knows of its papers while it reconciles and serves:    *)
(* what is handed out is due, checkpoints only advance, and what readers   *)
(* of the notes see is the abstract ledger of NoteLedger.                  *)
(***************************************************************************)
EXTENDS AgentExtraction, SequenceTheorems, TLAPS

Preparing(b) == pc[b] \in {"new", "expect", "source", "bind", "publish"}
Activating(b) == pc[b] \in {"activate", "begin", "commit"}

\* An accepted receipt holds a valid note, and the receipt about to be written
\* never replaces a consumed one by another.
ReceiptsAt(b) ==
  /\ \A k \in Packets : receipts[b][k].status = "accepted" => receipts[b][k].payload \in Results
  /\ pc[b] = "receipt" =>
       /\ call[b].packet \in Packets
       /\ IF call[b].receipt.status = "accepted"
          THEN /\ receipts[b][call[b].packet].status = "accepted"
               /\ receipts[b][call[b].packet].payload = call[b].receipt.payload
          ELSE ~Consumed(receipts[b][call[b].packet])
ReceiptsOK == \A b \in Batches : ReceiptsAt(b)

\* Chunks counted as done, on disk or in memory, have accepted receipts.
Backed(b, st) ==
  \A p \in Papers, c \in Chunks :
    st.papers[p].chunks[c] # 0 =>
      receipts[b][<<p, c, st.papers[p].chunks[c]>>].status = "accepted"
ChunksAt(b) == Backed(b, disk[b]) /\ Backed(b, mem[b])
ChunksOK == \A b \in Batches : ChunksAt(b)

\* Where a call stands.
ControlAt(b) ==
  /\ pc[b] \in {"new", "expect", "source", "bind", "activate", "begin", "commit"} => pos[b] \in Papers
  /\ pc[b] = "reconcile" => call[b].op # "submit"
  /\ Activating(b) =>
       /\ call[b].op = "submit" =>
            /\ call[b].packet \in Packets
            /\ call[b].receipt.status = "accepted"
            /\ receipts[b][call[b].packet].status = "accepted"
            /\ receipts[b][call[b].packet].payload = call[b].receipt.payload
       /\ \A c \in Planned(b, pos[b]) : mem[b].papers[pos[b]].chunks[c] # 0
  /\ pc[b] # "new" => \A p, q \in Papers : plan[b].work[p] = plan[b].work[q] => p = q
ControlOK == \A b \in Batches : ControlAt(b)

\* The SQLite write lock, and what its holder has compared under it.
WriterAt(b) ==
  /\ writer = b => pc[b] = "commit"
  /\ pc[b] \in {"begin", "commit"} => CommittedBy(b, plan[b].work[pos[b]]) = {}
  /\ pc[b] = "commit" =>
       /\ writer = b
       /\ LatestNote(plan[b].work[pos[b]]) = plan[b].expected[pos[b]]
       /\ bridge[plan[b].work[pos[b]]].file = plan[b].file[pos[b]]
       /\ plan[b].md[pos[b]] \in Markdown
       /\ Proven(plan[b].file[pos[b]], plan[b].md[pos[b]])
WriterOK == \A b \in Batches : WriterAt(b)

\* A note of the batch on paper p, at position i, is the one its plan allows.
PlannedNote(b, p, i) ==
  LET w == plan[b].work[p]
      text == notes[w][i].text
  IN /\ i = plan[b].expected[p] + 1
     /\ notes[w][i].md = plan[b].md[p]
     /\ Len(text) = plan[b].n[p]
     /\ \A c \in Planned(b, p) : \E a \in Attempts :
          /\ receipts[b][<<p, c, a>>].status = "accepted"
          /\ receipts[b][<<p, c, a>>].payload = text[c]

\* Notes of a batch: none before it is published, only planned ones on the works of
\* its papers, and whatever a state calls accepted is one of them.
NotesAt(b) ==
  /\ Preparing(b) => \A w \in Works : CommittedBy(b, w) = {}
  /\ \A w \in Works : CommittedBy(b, w) # {} => \E p \in Papers : plan[b].work[p] = w
  /\ \A p \in Papers : \A i \in CommittedBy(b, plan[b].work[p]) : PlannedNote(b, p, i)
NotesOK == \A b \in Batches : NotesAt(b)

Vouched(b, st) ==
  \A p \in Papers : st.papers[p].status = "accepted" =>
    st.papers[p].note \in CommittedBy(b, plan[b].work[p])
AcceptedAt(b) == Vouched(b, disk[b]) /\ Vouched(b, mem[b])
AcceptedOK == \A b \in Batches : AcceptedAt(b)

IInv == TypeOK /\ ReceiptsOK /\ ChunksOK /\ ControlOK /\ WriterOK /\ NotesOK /\ AcceptedOK

-----------------------------------------------------------------------------

USE BoundsAssumption DEF Papers, Chunks, Attempts

\* The initial states satisfy the inductive invariant.
LEMMA InitOK == Init => IInv
<1> SUFFICES ASSUME Init PROVE IInv
  OBVIOUS
<1>1. TypeOK
  BY NamesAssumption DEF Init, TypeOK, EmptyPlan, FreshState, FreshPaper, NoReceipt, NoCall, Plan, State, Paper, Receipt,
         Call, Statuses, Markdown, Packets, NoPacket, Submissions, Failures, Note, Policies
<1>2. ReceiptsOK
  BY DEF Init, ReceiptsOK, ReceiptsAt, NoReceipt
<1>3. ChunksOK
  BY DEF Init, ChunksOK, ChunksAt, Backed, FreshState, FreshPaper
<1>4. ControlOK /\ WriterOK
  BY NamesAssumption DEF Init, ControlOK, ControlAt, WriterOK, WriterAt, Activating
<1>5. \A b \in Batches, w \in Works : CommittedBy(b, w) = {}
  BY DEF Init, CommittedBy
<1>6. NotesOK
  <2>1. \A b \in Batches, p \in Papers : plan[b].work[p] \in Works
    BY <1>1 DEF TypeOK, Plan
  <2> QED
    BY <1>5, <2>1 DEF NotesOK, NotesAt
<1>7. AcceptedOK
  <2>1. \A b \in Batches, p \in Papers : disk[b].papers[p].status = "pending" /\ mem[b].papers[p].status = "pending"
    BY DEF Init, FreshState, FreshPaper
  <2> QED
    BY <2>1 DEF AcceptedOK, AcceptedAt, Vouched
<1> QED
  BY <1>1, <1>2, <1>3, <1>4, <1>6, <1>7 DEF IInv

PCs == {"new", "expect", "source", "bind", "publish", "idle", "reconcile",
        "activate", "begin", "commit", "serve", "receipt", "checkpoint"}

\* Record updates keep papers and states well-typed.
LEMMA PaperStatus ==
  ASSUME NEW ps \in Paper, NEW s \in Statuses
  PROVE  [ps EXCEPT !.status = s] \in Paper
BY DEF Paper

\* Settling a paper keeps its record well-typed.
LEMMA PaperNote ==
  ASSUME NEW ps \in Paper, NEW s \in Statuses, NEW n \in Nat
  PROVE  [ps EXCEPT !.status = s, !.note = n] \in Paper
BY DEF Paper

\* Adopting chunks keeps a paper well-typed.
LEMMA PaperChunks ==
  ASSUME NEW ps \in Paper, NEW s \in Statuses, NEW cs \in [Chunks -> 0..MaxAttempts]
  PROVE  [ps EXCEPT !.status = s, !.chunks = cs] \in Paper
BY DEF Paper

\* A retry keeps a paper well-typed while attempts are left.
LEMMA Reopened ==
  ASSUME NEW ps \in Paper, ps.attempt < MaxAttempts
  PROVE  [ps EXCEPT !.status = "pending", !.attempt = @ + 1] \in Paper
<1>1. ps.attempt + 1 \in 1..MaxAttempts
  BY DEF Paper
<1> QED
  BY <1>1 DEF Paper, Statuses

\* Pausing keeps a state well-typed.
LEMMA StatePaused ==
  ASSUME NEW st \in State, NEW v \in {"no", "session", "access"}
  PROVE  [st EXCEPT !.paused = v] \in State
BY DEF State

\* Replacing one paper keeps a state well-typed.
LEMMA StatePaper ==
  ASSUME NEW st \in State, NEW p \in Papers, NEW ps \in Paper
  PROVE  [st EXCEPT !.papers[p] = ps] \in State
BY DEF State

\* Changing the status of one paper keeps a state well-typed.
LEMMA StateStatus ==
  ASSUME NEW st \in State, NEW p \in Papers, NEW s \in Statuses
  PROVE  [st EXCEPT !.papers[p].status = s] \in State
<1>1. st.papers[p] \in Paper
  BY DEF State
<1>2. [st.papers[p] EXCEPT !.status = s] \in Paper
  BY <1>1, PaperStatus
<1>3. [st EXCEPT !.papers[p] = [st.papers[p] EXCEPT !.status = s]] \in State
  BY <1>2, StatePaper
<1> QED
  BY <1>3

\* Counting one chunk as done keeps a state well-typed.
LEMMA StateChunk ==
  ASSUME NEW st \in State, NEW p \in Papers, NEW c \in Chunks, NEW a \in 0..MaxAttempts
  PROVE  [st EXCEPT !.papers[p].chunks[c] = a] \in State
<1>1. st.papers[p] \in Paper /\ st.papers[p].chunks \in [Chunks -> 0..MaxAttempts]
  BY DEF State, Paper
<1>2. [st.papers[p].chunks EXCEPT ![c] = a] \in [Chunks -> 0..MaxAttempts]
  BY <1>1
<1>3. [st.papers[p] EXCEPT !.chunks = [st.papers[p].chunks EXCEPT ![c] = a]] \in Paper
  BY <1>1, <1>2 DEF Paper
<1>4. [st EXCEPT !.papers[p] =
         [st.papers[p] EXCEPT !.chunks = [st.papers[p].chunks EXCEPT ![c] = a]]] \in State
  BY <1>3, StatePaper
<1> QED
  BY <1>4

\* The initial state, receipt and call are well-typed.
LEMMA Fresh == FreshState \in State /\ NoReceipt \in Receipt /\ NoCall \in Call
<1>1. FreshPaper \in Paper
  BY DEF FreshPaper, Paper, Statuses
<1>2. FreshState \in State
  BY <1>1 DEF FreshState, State
<1>3. NoReceipt \in Receipt
  BY DEF NoReceipt, Receipt
<1>4. NoCall \in Call
  BY <1>3 DEF NoCall, Call, NoPacket
<1> QED
  BY <1>2, <1>3, <1>4

\* Settling a paper keeps the call well-typed.
LEMMA SettleType ==
  ASSUME TypeOK, NEW b \in Batches, NEW s \in {"accepted", "stale", "conflict"}, NEW n \in Nat,
         pos[b] \in Papers, Settle(b, s, n)
  PROVE  mem' \in [Batches -> State] /\ pc' \in [Batches -> PCs]
         /\ pos' \in [Batches -> 1..(NPapers + 1)] /\ call' \in [Batches -> Call]
<1>1. mem' \in [Batches -> State]
  <2>1. mem[b].papers[pos[b]] \in Paper
    BY DEF TypeOK, State
  <2>2. [mem[b].papers[pos[b]] EXCEPT !.status = s, !.note = n] \in Paper
    BY <2>1, PaperNote DEF Statuses
  <2>3. [mem[b] EXCEPT !.papers[pos[b]] =
           [mem[b].papers[pos[b]] EXCEPT !.status = s, !.note = n]] \in State
    BY <2>2, StatePaper DEF TypeOK
  <2> QED
    BY <2>3 DEF TypeOK, Settle
<1>2. pc' \in [Batches -> PCs]
  BY DEF TypeOK, Settle, PCs
<1>3. pos' \in [Batches -> 1..(NPapers + 1)]
  <2>1. pos[b] + 1 \in 1..(NPapers + 1)
    OBVIOUS
  <2> QED
    BY <2>1 DEF TypeOK, Settle
<1>4. call' \in [Batches -> Call]
  <2>0. call[b].receipt \in Receipt
    BY DEF TypeOK, Call
  <2>1. [call[b].receipt EXCEPT !.outcome = s] \in Receipt
    BY <2>0 DEF Receipt
  <2>2. call[b] \in Call
    BY DEF TypeOK
  <2>3. [call[b] EXCEPT !.receipt = [call[b].receipt EXCEPT !.outcome = s]] \in Call
    BY <2>1, <2>2 DEF Call
  <2> QED
    BY <2>3 DEF TypeOK, Settle
<1> QED
  BY <1>1, <1>2, <1>3, <1>4

\* Ending a call keeps the call variables well-typed.
LEMMA ReturnType ==
  ASSUME TypeOK, NEW b \in Batches, Return(b)
  PROVE  mem' \in [Batches -> State] /\ pc' \in [Batches -> PCs]
         /\ pos' \in [Batches -> 1..(NPapers + 1)] /\ call' \in [Batches -> Call]
BY Fresh DEF TypeOK, Return, PCs

\* Starting next_packet keeps the types.
LEMMA NextCallType ==
  ASSUME TypeOK, NEW b \in Batches, NEW resume \in BOOLEAN, NEW retry \in BOOLEAN,
         NEW redact \in BOOLEAN, NextCall(b, resume, retry, redact)
  PROVE  TypeOK'
<1>0. /\ receipts[b] \in [Packets -> Receipt]
      /\ disk[b] \in State
  BY DEF TypeOK
<1>1. Acknowledged(b) \in [Packets -> Receipt]
  <2> SUFFICES ASSUME NEW k \in Packets PROVE Acknowledged(b)[k] \in Receipt
    BY DEF Acknowledged
  <2>1. receipts[b][k] \in Receipt
    BY <1>0
  <2>2. [receipts[b][k] EXCEPT !.status = "resumed"] \in Receipt
    BY <2>1 DEF Receipt
  <2> QED
    BY <2>1, <2>2 DEF Acknowledged
<1>2. receipts' \in [Batches -> [Packets -> Receipt]]
  BY <1>1 DEF TypeOK, NextCall
<1>3. \A st \in State : Retried(b, st) \in State
  <2> SUFFICES ASSUME NEW st \in State PROVE Retried(b, st) \in State
    OBVIOUS
  <2>1. \A p \in Papers : st.papers[p] \in Paper
    BY DEF State
  <2> DEFINE reopened == [p \in Papers |->
     IF st.papers[p].status = "failed" /\ plan[b].n[p] > 0 /\ st.papers[p].attempt < MaxAttempts
     THEN [st.papers[p] EXCEPT !.status = "pending", !.attempt = @ + 1]
     ELSE st.papers[p]]
  <2>3. reopened \in [Papers -> Paper]
    BY <2>1, Reopened
  <2> HIDE DEF reopened
  <2>4. [st EXCEPT !.papers = reopened] \in State
    BY <2>3 DEF State
  <2> QED
    BY <2>4 DEF Retried, reopened
<1>4. mem' \in [Batches -> State]
  <2>1. [disk[b] EXCEPT !.paused = "no"] \in State
    BY <1>0 DEF State
  <2>2. Retried(b, disk[b]) \in State /\ Retried(b, [disk[b] EXCEPT !.paused = "no"]) \in State
    BY <1>0, <1>3, <2>1
  <2> QED
    BY <1>0, <2>1, <2>2 DEF TypeOK, NextCall
<1>5. call' \in [Batches -> Call]
  BY DEF TypeOK, NextCall, Call, NoCall, NoReceipt, NoPacket, Receipt, Submissions
<1>6. pc' \in [Batches -> {"new", "expect", "source", "bind", "publish", "idle", "reconcile",
                         "activate", "begin", "commit", "serve", "receipt", "checkpoint"}]
  BY DEF TypeOK, NextCall
<1> QED
  BY <1>2, <1>4, <1>5, <1>6 DEF TypeOK, NextCall, project, cache

\* Going on to the next paper stays within the batch.
LEMMA NextPaperType ==
  ASSUME TypeOK, NEW b \in Batches, pos[b] \in Papers, NextPaper(b)
  PROVE  pc' \in [Batches -> PCs] /\ pos' \in [Batches -> 1..(NPapers + 1)]
<1>1. pos[b] + 1 \in 1..(NPapers + 1)
  OBVIOUS
<1> QED
  BY <1>1 DEF TypeOK, NextPaper, PCs

\* A work resolves to a Markdown document or to none.
LEMMA SourceType ==
  ASSUME TypeOK, NEW w \in Works
  PROVE  Source(w) \in Markdown \cup {NoMarkdown}
<1>1. bridge[w].file \in Files /\ bridge[w].md \in Markdown \cup {NoMarkdown}
  BY DEF TypeOK
<1>2. versions[bridge[w].file] \in 0..MaxVersions
  BY <1>1 DEF TypeOK
<1>3. CASE Proven(bridge[w].file, bridge[w].md)
  <2>1. versions[bridge[w].file] \in 1..MaxVersions
    BY <1>1, <1>2, <1>3 DEF Proven, Markdown
  <2> QED
    BY <1>1, <2>1 DEF Source, Markdown
<1>4. CASE ~Proven(bridge[w].file, bridge[w].md)
  BY <1>4 DEF Source
<1> QED
  BY <1>3, <1>4

\* prepare_batch keeps the types.
LEMMA PrepareType ==
  ASSUME TypeOK, ControlOK, NEW b \in Batches, Prepare(b)
  PROVE  TypeOK'
<1>0. plan[b] \in Plan /\ mem[b] \in State
  BY DEF TypeOK
<1>1. CASE PrepareStart(b)
  <2> USE <1>1
  <2>1. PICK works \in [Papers -> Works], confirm \in BOOLEAN, replace \in BOOLEAN :
          plan' = [plan EXCEPT ![b].work = works, ![b].confirm = confirm, ![b].replace = replace]
    BY DEF PrepareStart, Choice
  <2>2. [[[plan[b] EXCEPT !.work = works] EXCEPT !.confirm = confirm] EXCEPT !.replace = replace] \in Plan
    BY <1>0 DEF Plan
  <2>3. plan' \in [Batches -> Plan]
    BY <2>1, <2>2 DEF TypeOK
  <2> QED
    BY <2>3 DEF PrepareStart, TypeOK, project, cache
<1>2. CASE PrepareExpect(b)
  <2> USE <1>2
  <2>1. pos[b] \in Papers
    BY DEF PrepareExpect, ControlOK, ControlAt
  <2>2. LatestNote(plan[b].work[pos[b]]) \in Nat
    <3>1. plan[b].work[pos[b]] \in Works
      BY <1>0, <2>1 DEF Plan
    <3>2. notes[plan[b].work[pos[b]]] \in Seq(Note)
      BY <3>1 DEF TypeOK
    <3> QED
      BY <3>2 DEF LatestNote
  <2>3. plan' \in [Batches -> Plan]
    BY <1>0, <2>1, <2>2 DEF PrepareExpect, TypeOK, Plan
  <2> QED
    BY <2>3 DEF PrepareExpect, TypeOK, project, cache
<1>3. CASE PrepareSource(b)
  <2> USE <1>3
  <2>1. pos[b] \in Papers
    BY DEF PrepareSource, ControlOK, ControlAt
  <2>2. Source(plan[b].work[pos[b]]) \in Markdown \cup {NoMarkdown}
    BY <1>0, <2>1, SourceType DEF Plan
  <2>3. plan' \in [Batches -> Plan]
    <3>1. \A m \in Markdown \cup {NoMarkdown} : [plan[b] EXCEPT !.md[pos[b]] = m] \in Plan
      BY <1>0, <2>1 DEF Plan
    <3> QED
      BY <2>2, <3>1 DEF PrepareSource, TypeOK
  <2>4. [mem[b] EXCEPT !.papers[pos[b]].status = "failed"] \in State
    BY <1>0, <2>1, StateStatus DEF Statuses
  <2>5. mem' \in [Batches -> State]
    BY <2>4 DEF PrepareSource, TypeOK
  <2>6. pc' \in [Batches -> PCs] /\ pos' \in [Batches -> 1..(NPapers + 1)]
    BY <2>1, NextPaperType DEF PrepareSource, TypeOK, PCs
  <2> QED
    BY <2>3, <2>5, <2>6 DEF PrepareSource, TypeOK, PCs, project, cache
<1>4. CASE PrepareBind(b)
  <2> USE <1>4
  <2> DEFINE p == pos[b]
  <2>1. p \in Papers
    BY DEF PrepareBind, ControlOK, ControlAt
  <2>2. PICK n \in 0..MaxChunks :
          /\ plan' = [plan EXCEPT ![b].file[p] = bridge[plan[b].work[p]].file, ![b].n[p] = n]
          /\ mem' = [mem EXCEPT ![b].papers[p] =
                       IF AlreadyCurrent(b, p)
                       THEN [@ EXCEPT !.status = "preserved", !.note = plan[b].expected[p]]
                       ELSE [@ EXCEPT !.status = IF n = 0 THEN "failed" ELSE "pending"]]
    BY DEF PrepareBind
  <2>3. bridge[plan[b].work[p]].file \in Files
    BY <1>0, <2>1 DEF TypeOK, Plan
  <2>4. [[plan[b] EXCEPT !.file[p] = bridge[plan[b].work[p]].file] EXCEPT !.n[p] = n] \in Plan
    BY <1>0, <2>1, <2>3 DEF Plan
  <2>5. plan' \in [Batches -> Plan]
    BY <2>2, <2>4 DEF TypeOK
  <2>6. mem[b].papers[p] \in Paper /\ plan[b].expected[p] \in Nat \cup {-1}
    BY <1>0, <2>1 DEF State, Plan
  <2>7. ASSUME AlreadyCurrent(b, p)
        PROVE  [mem[b].papers[p] EXCEPT !.status = "preserved", !.note = plan[b].expected[p]] \in Paper
    <3>1. plan[b].expected[p] \in Nat
      BY <2>6, <2>7, SMTT(30) DEF AlreadyCurrent
    <3> QED
      BY <2>6, <3>1, PaperNote DEF Statuses
  <2>8. \A s \in {"failed", "pending"} : [mem[b].papers[p] EXCEPT !.status = s] \in Paper
    BY <2>6, PaperStatus DEF Statuses
  <2>9. \A ps \in Paper : [mem[b] EXCEPT !.papers[p] = ps] \in State
    BY <1>0, <2>1, StatePaper
  <2>10. mem' \in [Batches -> State]
    BY <2>2, <2>7, <2>8, <2>9 DEF TypeOK
  <2>11. pc' \in [Batches -> PCs] /\ pos' \in [Batches -> 1..(NPapers + 1)]
    BY <2>1, NextPaperType DEF PrepareBind
  <2> QED
    BY <2>5, <2>10, <2>11 DEF PrepareBind, TypeOK, PCs, project, cache
<1>5. CASE PreparePublish(b)
  BY <1>5, ReturnType DEF PreparePublish, TypeOK, PCs, project, cache
<1> QED
  BY <1>1, <1>2, <1>3, <1>4, <1>5 DEF Prepare

\* Starting submit_packet keeps the types.
LEMMA SubmitType ==
  ASSUME TypeOK, NEW b \in Batches, NEW k \in Packets,
         \/ \E x \in Submissions : SubmitReplay(b, k, x)
         \/ \E x \in Results : SubmitResult(b, k, x)
         \/ \E x \in Failures \cap Options : SubmitFailure(b, k, x)
         \/ SubmitInvalid(b, k)
  PROVE  TypeOK'
<1>0. /\ disk[b] \in State /\ k[1] \in Papers /\ k[2] \in Chunks /\ k[3] \in Attempts
  BY DEF TypeOK, Packets
<1>1. ASSUME NEW op \in {"submit", "replay"}, NEW r \in Receipt
      PROVE  [NoCall EXCEPT !.op = op, !.packet = k, !.receipt = r] \in Call
  BY Fresh DEF Call, NoCall
<1>2. ASSUME NEW x \in Submissions, SubmitReplay(b, k, x) PROVE TypeOK'
  BY <1>0, <1>1, <1>2, Fresh DEF SubmitReplay, Enter, TypeOK, durable, project, cache
<1>3. ASSUME NEW x \in Results, SubmitResult(b, k, x) PROVE TypeOK'
  <2> USE <1>3
  <2> DEFINE r == [status |-> "accepted", payload |-> x, outcome |-> "none"]
  <2> DEFINE st == [disk[b] EXCEPT !.papers[k[1]].chunks[k[2]] = k[3]]
  <2>1. r \in Receipt /\ [r EXCEPT !.outcome = "accepted"] \in Receipt
    BY DEF Receipt, Submissions
  <2>2. st \in State
    BY <1>0, StateChunk
  <2>3. receipts' \in [Batches -> [Packets -> Receipt]]
    BY <2>1 DEF SubmitResult, TypeOK
  <2>4. mem' \in [Batches -> State] /\ pos' \in [Batches -> 1..(NPapers + 1)]
    BY <1>0, <2>2, SMTT(30) DEF SubmitResult, TypeOK
  <2>5. call' \in [Batches -> Call] /\ pc' \in [Batches -> PCs]
    BY <1>1, <2>1 DEF SubmitResult, Enter, TypeOK, PCs
  <2> QED
    BY <2>3, <2>4, <2>5 DEF SubmitResult, TypeOK, PCs, project, cache
<1>4. ASSUME NEW x \in Failures, SubmitFailure(b, k, x) PROVE TypeOK'
  <2> USE <1>4
  <2> DEFINE r == [status |-> IF x = "session_failure" THEN "paused" ELSE "failed",
                   payload |-> x, outcome |-> "accepted"]
  <2>1. r \in Receipt
    BY DEF Receipt, Submissions
  <2>2. [disk[b] EXCEPT !.paused = "session"] \in State
    BY <1>0, StatePaused
  <2>3. [disk[b] EXCEPT !.papers[k[1]].status = "failed"] \in State
    BY <1>0, StateStatus DEF Statuses
  <2>4. mem' \in [Batches -> State]
    BY <2>2, <2>3 DEF SubmitFailure, TypeOK
  <2>5. call' \in [Batches -> Call] /\ pc' \in [Batches -> PCs]
    BY <1>1, <2>1 DEF SubmitFailure, Enter, TypeOK, PCs
  <2> QED
    BY <2>4, <2>5 DEF SubmitFailure, TypeOK, PCs, project, cache, durable
<1>5. ASSUME SubmitInvalid(b, k) PROVE TypeOK'
  <2> USE <1>5
  <2>1. [status |-> "invalid", payload |-> "garbage", outcome |-> "invalid"] \in Receipt
    BY DEF Receipt, Submissions
  <2>2. call' \in [Batches -> Call] /\ pc' \in [Batches -> PCs]
    BY <1>1, <2>1 DEF SubmitInvalid, Enter, TypeOK, PCs
  <2> QED
    BY <1>0, <2>2 DEF SubmitInvalid, TypeOK, PCs, project, cache, durable
<1> QED
  BY <1>2, <1>3, <1>4, <1>5

\* Finishing a call keeps it well-typed.
LEMMA FinishType ==
  ASSUME TypeOK, NEW b \in Batches, NEW event \in {"awaiting_host", "paused", "finished"},
         Finish(b, event)
  PROVE  pc' \in [Batches -> PCs] /\ call' \in [Batches -> Call]
<1>0. call[b] \in Call
  BY DEF TypeOK
<1>1. [call[b] EXCEPT !.event = event] \in Call
  BY <1>0 DEF Call
<1> QED
  BY <1>1 DEF TypeOK, Finish, PCs

\* Reconciliation leaves a well-typed state.
LEMMA AdoptedType ==
  ASSUME TypeOK, NEW b \in Batches, NEW p \in Papers
  PROVE  Adopted(b, p) \in State
<1> DEFINE ps == mem[b].papers[p]
           failed == {c \in Missing(b, p) : ReceiptOf(b, p, c).status = "failed"}
           seen == {c \in Missing(b, p) : \A d \in failed : c < d}
           ok == {c \in seen : ReceiptOf(b, p, c).status = "accepted"}
           halted == \E c \in seen : ReceiptOf(b, p, c).status = "paused"
           cs == [c \in Chunks |-> IF c \in ok THEN ps.attempt ELSE ps.chunks[c]]
           status == IF failed # {} THEN "failed" ELSE ps.status
           new == [ps EXCEPT !.status = status, !.chunks = cs]
           paused == IF halted THEN "session" ELSE mem[b].paused
<1>1. mem[b] \in State /\ ps \in Paper
  BY DEF TypeOK, State
<1>2. cs \in [Chunks -> 0..MaxAttempts] /\ status \in Statuses
  <2>1. ps.attempt \in 0..MaxAttempts /\ ps.chunks \in [Chunks -> 0..MaxAttempts] /\ ps.status \in Statuses
    <3> HIDE DEF ps
    <3> QED
      BY <1>1 DEF Paper
  <2> HIDE DEF ok, failed, ps
  <2> QED
    BY <2>1 DEF Statuses
<1>3. new \in Paper
  <2> HIDE DEF ps, cs, status
  <2> QED
    BY <1>1, <1>2, PaperChunks
<1>4. paused \in {"no", "session", "access"}
  <2> HIDE DEF halted
  <2> QED
    BY <1>1 DEF State
<1>5. [[mem[b] EXCEPT !.paused = paused] EXCEPT !.papers[p] = new] \in State
  <2> HIDE DEF new, paused
  <2> QED
    BY <1>1, <1>3, <1>4, StatePaused, StatePaper
<1>6. Adopted(b, p) = [[mem[b] EXCEPT !.paused = paused] EXCEPT !.papers[p] = new]
  BY DEF Adopted
<1> QED
  BY <1>5, <1>6

\* The serving loop keeps the types.
LEMMA ServeType ==
  ASSUME TypeOK, NEW b \in Batches, Serve(b)
  PROVE  TypeOK'
<1> DEFINE p == pos[b]
<1>1. p \in Papers /\ mem[b] \in State /\ call[b] \in Call /\ p + 1 \in 1..(NPapers + 1)
  BY DEF Serve, TypeOK
<1>2. [mem[b] EXCEPT !.papers[p].status = "failed"] \in State
  BY <1>1, StateStatus DEF Statuses
<1>3. [mem[b] EXCEPT !.paused = "access"] \in State
  BY <1>1, StatePaused
<1>4. mem' \in [Batches -> State] /\ pos' \in [Batches -> 1..(NPapers + 1)]
  BY <1>1, <1>2, <1>3, ZenonT(30) DEF Serve, ServePending, TypeOK
<1>5. pc' \in [Batches -> PCs]
  BY DEF Serve, ServePending, TypeOK, PCs, Finish
<1>6. ASSUME NEW c \in Missing(b, p) PROVE Packet(b, p, c) \in Packets
  <2>1. c \in Chunks
    BY <1>1 DEF Missing, Planned, TypeOK, Plan
  <2>2. mem[b].papers[p].attempt \in Attempts
    BY <1>1, Zenon DEF State, Paper
  <2> QED
    BY <1>1, <2>1, <2>2 DEF Packet, Packets
<1>7. call' \in [Batches -> Call]
  <2>1. \A k \in Packets : [call[b] EXCEPT !.event = "awaiting_host", !.packet = k] \in Call
    BY <1>1 DEF Call
  <2>3. CASE UNCHANGED call
    BY <2>3 DEF TypeOK
  <2>4. CASE \E e \in {"awaiting_host", "paused"} : Finish(b, e)
    BY <2>4, FinishType
  <2>5. ASSUME NEW c \in Missing(b, p),
               call' = [call EXCEPT ![b] = [@ EXCEPT !.event = "awaiting_host", !.packet = Packet(b, p, c)]]
        PROVE  call' \in [Batches -> Call]
    BY <1>6, <2>1, <2>5 DEF TypeOK
  <2> QED
    BY <2>3, <2>4, <2>5, Zenon DEF Serve, ServePending
<1> QED
  BY <1>4, <1>5, <1>7 DEF Serve, TypeOK, PCs, project, cache, durable

NewNote(b) ==
  [by |-> b, md |-> plan[b].md[pos[b]], text |-> MergedText(b, pos[b])]

\* What a commit appends is a note: it merges the payloads of accepted receipts, one
\* per planned chunk of the paper.
LEMMA CommitNote ==
  ASSUME IInv, NEW b \in Batches, Commit(b)
  PROVE  /\ pos[b] \in Papers /\ plan[b].work[pos[b]] \in Works
         /\ NewNote(b) \in Note
         /\ notes' = [notes EXCEPT ![plan[b].work[pos[b]]] = Append(@, NewNote(b))]
         /\ Len(NewNote(b).text) = plan[b].n[pos[b]]
         /\ \A c \in Planned(b, pos[b]) : \E a \in Attempts :
              /\ receipts[b][<<pos[b], c, a>>].status = "accepted"
              /\ receipts[b][<<pos[b], c, a>>].payload = NewNote(b).text[c]
<1> USE DEF IInv
<1> DEFINE p == pos[b]
           part(c) == <<p, c, mem[b].papers[p].chunks[c]>>
<1>0. p \in Papers /\ plan[b] \in Plan /\ mem[b] \in State
  BY DEF Commit, ControlOK, ControlAt, TypeOK
<1>1. plan[b].work[p] \in Works /\ mem[b].papers[p] \in Paper
      /\ plan[b].n[p] \in 0..MaxChunks /\ Planned(b, p) \subseteq Chunks
  BY <1>0 DEF Plan, Planned, State
<1>2. plan[b].md[p] \in Markdown
  BY DEF Commit, WriterOK, WriterAt
<1>3. ASSUME NEW c \in Planned(b, p)
      PROVE  /\ mem[b].papers[p].chunks[c] \in Attempts
             /\ part(c) \in Packets
             /\ receipts[b][part(c)].status = "accepted"
             /\ receipts[b][part(c)].payload \in Results
  <2>1. mem[b].papers[p].chunks[c] \in 0..MaxAttempts /\ c \in Chunks
    BY <1>1 DEF Paper
  <2>2. mem[b].papers[p].chunks[c] # 0
    BY DEF Commit, ControlOK, ControlAt, Activating
  <2>3. receipts[b][part(c)].status = "accepted"
    BY <1>0, <2>1, <2>2 DEF ChunksOK, ChunksAt, Backed
  <2>4. mem[b].papers[p].chunks[c] \in Attempts /\ part(c) \in Packets
    BY <1>0, <2>1, <2>2 DEF Packets
  <2> QED
    BY <2>3, <2>4 DEF ReceiptsOK, ReceiptsAt
<1>4. MergedText(b, p) \in [1..plan[b].n[p] -> Results]
  BY <1>3, Zenon DEF MergedText, Planned
<1>5. MergedText(b, p) \in Seq(Results) /\ Len(MergedText(b, p)) = plan[b].n[p]
  BY <1>1, <1>4
<1>6. NewNote(b) \in Note
  BY <1>2, <1>5 DEF Note, NewNote
<1>7. notes' = [notes EXCEPT ![plan[b].work[p]] = Append(@, NewNote(b))]
  BY DEF Commit, NewNote
<1>8. \A c \in Planned(b, p) : NewNote(b).text[c] = receipts[b][part(c)].payload
  BY DEF NewNote, MergedText
<1>9. Len(NewNote(b).text) = plan[b].n[p]
  BY <1>5 DEF NewNote
<1> QED
  BY <1>0, <1>1, <1>3, <1>6, <1>7, <1>8, <1>9, Zenon

\* The steps of a running call keep the types; the commit needs the whole invariant,
\* because only accepted receipts hold valid notes.
LEMMA RunType ==
  ASSUME IInv, NEW b \in Batches, Run(b) \/ TornCheckpoint(b) \/ Crash(b)
  PROVE  TypeOK'
<1> USE DEF IInv
<1>1. CASE Reconcile(b)
  <2>1. pos[b] \in Papers /\ pos[b] + 1 \in 1..(NPapers + 1)
    BY <1>1 DEF Reconcile
  <2>2. Adopted(b, pos[b]) \in State
    BY <2>1, AdoptedType
  <2>3. mem' \in [Batches -> State] /\ pos' \in [Batches -> 1..(NPapers + 1)] /\ pc' \in [Batches -> PCs]
    <3>1. mem' = [mem EXCEPT ![b] = Adopted(b, pos[b])] \/ mem' = mem
      BY <1>1 DEF Reconcile
    <3>2. pos' \in [Batches -> 1..(NPapers + 1)]
      <4>1. pos' = [pos EXCEPT ![b] = @ + 1] \/ pos' = pos
        BY <1>1 DEF Reconcile
      <4> QED
        BY <2>1, <4>1 DEF TypeOK
    <3>3. pc' \in [Batches -> PCs]
      BY <1>1 DEF Reconcile, TypeOK, PCs
    <3>4. mem \in [Batches -> State]
      BY DEF TypeOK
    <3>5. mem' \in [Batches -> State]
      <4> HIDE DEF IInv
      <4> QED BY <2>2, <3>1, <3>4
    <3> QED
      BY <3>2, <3>3, <3>5
  <2> QED
    BY <1>1, <2>3 DEF Reconcile, TypeOK, PCs, project, cache, durable
<1>2. CASE Reconciled(b)
  <2>1. CASE \E e \in {"awaiting_host", "paused"} : Finish(b, e) /\ UNCHANGED pos
    BY <1>2, <2>1, FinishType DEF Reconciled, TypeOK, PCs, project, cache, durable
  <2>2. CASE pc' = [pc EXCEPT ![b] = "serve"] /\ pos' = [pos EXCEPT ![b] = 1] /\ UNCHANGED call
    BY <1>2, <2>2 DEF Reconciled, TypeOK, PCs, project, cache, durable
  <2> QED
    BY <1>2, <2>1, <2>2 DEF Reconciled
<1>3. CASE Serve(b)
  BY <1>3, ServeType
<1>4. CASE ServedAll(b)
  BY <1>4, FinishType DEF ServedAll, TypeOK, PCs, project, cache, durable
<1>5. CASE WriteReceipt(b)
  <2>1. call[b].packet \in Packets /\ call[b].receipt \in Receipt
    BY <1>5 DEF WriteReceipt, TypeOK, ReceiptsOK, ReceiptsAt, Call
  <2>2. receipts' \in [Batches -> [Packets -> Receipt]]
    BY <1>5, <2>1 DEF WriteReceipt, TypeOK
  <2>3. pc' \in [Batches -> PCs] /\ call' \in [Batches -> Call]
    BY <1>5, FinishType DEF WriteReceipt
  <2> QED
    BY <1>5, <2>2, <2>3 DEF WriteReceipt, TypeOK, PCs, project, cache
<1>6. CASE Recover(b)
  <2>1. pos[b] \in Papers
    BY <1>6 DEF Recover, ControlOK, ControlAt
  <2>2. PICK i \in CommittedBy(b, plan[b].work[pos[b]]) : Settle(b, "accepted", i)
    BY <1>6 DEF Recover
  <2>3. i \in Nat
    BY <2>2 DEF CommittedBy
  <2> QED
    BY <1>6, <2>1, <2>2, <2>3, SettleType DEF Recover, TypeOK, PCs, project, cache, durable
<1>7. CASE CheckSource(b)
  <2>1. pos[b] \in Papers
    BY <1>7 DEF CheckSource, ControlOK, ControlAt
  <2>2. CASE Settle(b, "stale", 0)
    BY <1>7, <2>1, <2>2, SettleType DEF CheckSource, TypeOK, PCs, project, cache, durable
  <2>3. CASE pc' = [pc EXCEPT ![b] = "begin"] /\ UNCHANGED <<mem, pos, call>>
    BY <1>7, <2>3 DEF CheckSource, TypeOK, PCs, project, cache, durable
  <2> QED
    BY <1>7, <2>2, <2>3 DEF CheckSource
<1>8. CASE Begin(b)
  <2>1. pos[b] \in Papers
    BY <1>8 DEF Begin, ControlOK, ControlAt
  <2>2. CASE \E s \in {"conflict", "stale"} : Settle(b, s, 0) /\ UNCHANGED writer
    BY <1>8, <2>1, <2>2, SettleType DEF Begin, TypeOK, PCs, cache, durable
  <2>3. CASE /\ writer' = b /\ pc' = [pc EXCEPT ![b] = "commit"]
             /\ UNCHANGED <<mem, pos, call>>
    BY <1>8, <2>3 DEF Begin, TypeOK, PCs, cache, durable
  <2> QED
    BY <1>8, <2>2, <2>3 DEF Begin
<1>9. CASE Commit(b)
  <2> DEFINE w == plan[b].work[pos[b]]
  <2>1. /\ pos[b] \in Papers /\ w \in Works /\ NewNote(b) \in Note
        /\ notes' = [notes EXCEPT ![w] = Append(@, NewNote(b))]
    BY <1>9, CommitNote
  <2>2. notes[w] \in Seq(Note)
    BY <2>1 DEF TypeOK
  <2>3. Append(notes[w], NewNote(b)) \in Seq(Note) /\ LatestNote(w) + 1 \in Nat
    BY <2>1, <2>2 DEF LatestNote
  <2>4. notes' \in [Works -> Seq(Note)]
    BY <2>1, <2>3 DEF TypeOK
  <2> QED
    BY <1>9, <2>1, <2>3, <2>4, SettleType DEF Commit, TypeOK, PCs, cache, durable
<1>10. CASE Rollback(b)
  <2>1. pos[b] \in Papers
    BY <1>10 DEF Rollback, ControlOK, ControlAt
  <2> QED
    BY <1>10, <2>1, SettleType DEF Rollback, TypeOK, PCs, cache, durable
<1>11. CASE Checkpoint(b)
  <2>1. log' \in [Batches -> {"none", "awaiting_host", "paused", "finished"}]
    BY <1>11 DEF Checkpoint, TypeOK, Call
  <2> QED
    BY <1>11, <2>1, ReturnType DEF Checkpoint, TypeOK, PCs, project, cache
<1>12. CASE TornCheckpoint(b)
  BY <1>12, ReturnType DEF TornCheckpoint, TypeOK, PCs, project, cache
<1>13. CASE Crash(b)
  BY <1>13, ReturnType DEF Crash, TypeOK, PCs, cache, durable
<1> QED
  BY <1>1, <1>2, <1>3, <1>4, <1>5, <1>6, <1>7, <1>8, <1>9, <1>10, <1>11, <1>12, <1>13 DEF Run

\* The other processes keep the types.
LEMMA EnvironmentType ==
  ASSUME TypeOK, Environment
  PROVE  TypeOK'
<1>1. ASSUME NEW w \in Works, ApiNote(w) PROVE TypeOK'
  <2>1. PICK x \in Results : notes' = [notes EXCEPT ![w] =
                 Append(@, [by |-> "api", md |-> bridge[w].md, text |-> <<x>>])]
    BY <1>1 DEF ApiNote
  <2>2. bridge[w].md \in Markdown
    BY <1>1 DEF ApiNote, TypeOK
  <2> DEFINE note == [by |-> "api", md |-> bridge[w].md, text |-> <<x>>]
  <2>3. note \in Note
    BY <2>2 DEF Note
  <2>4. Append(notes[w], note) \in Seq(Note)
    <3> HIDE DEF note
    <3> QED
      BY <2>3 DEF TypeOK
  <2>5. notes' \in [Works -> Seq(Note)]
    BY <2>1, <2>4 DEF TypeOK
  <2> QED
    BY <1>1, <2>5 DEF ApiNote, TypeOK, cache, durable, volatile
<1>2. ASSUME NEW w \in Works, BackfillMarkdown(w) PROVE TypeOK'
  <2>1. bridge[w].file \in Files /\ versions[bridge[w].file] \in 1..MaxVersions
    BY <1>2 DEF BackfillMarkdown, TypeOK
  <2>2. <<bridge[w].file, versions[bridge[w].file]>> \in Markdown
    BY <2>1 DEF Markdown
  <2>3. bridge' \in [Works -> [file: Files, md: Markdown \cup {NoMarkdown}]]
    BY <1>2, <2>2, ZenonT(30) DEF BackfillMarkdown, TypeOK
  <2> QED
    BY <1>2, <2>3 DEF BackfillMarkdown, TypeOK, cache, durable, volatile
<1>3. ASSUME NEW w \in Works, NEW f \in Files, WriteBridge(w, f) PROVE TypeOK'
  <2>1. bridge' \in [Works -> [file: Files, md: Markdown \cup {NoMarkdown}]]
    BY <1>3, ZenonT(30) DEF WriteBridge, TypeOK
  <2> QED
    BY <1>3, <2>1 DEF WriteBridge, TypeOK, cache, durable, volatile
<1>4. ASSUME NEW f \in Files, Convert(f) PROVE TypeOK'
  <2>1. versions' \in [Files -> 0..MaxVersions]
    BY <1>4 DEF Convert, TypeOK
  <2> QED
    BY <1>4, <2>1 DEF Convert, TypeOK, project, durable, volatile
<1>5. ASSUME NEW f \in Files, Tighten(f) PROVE TypeOK'
  BY <1>5 DEF Tighten, TypeOK, project, durable, volatile
<1>6. ASSUME NEW m \in Markdown, Damage(m) PROVE TypeOK'
  BY <1>6 DEF Damage, TypeOK, project, durable, volatile
<1>7. ASSUME NEW p \in Policies, SetPolicy(p) PROVE TypeOK'
  BY <1>7 DEF SetPolicy, TypeOK, project, durable, volatile
<1> QED
  BY <1>1, <1>2, <1>3, <1>4, <1>5, <1>6, <1>7 DEF Environment, Damageable

\* A stuttering step keeps the inductive invariant.
LEMMA StutterInv == ASSUME IInv, UNCHANGED vars PROVE IInv'
<1> USE DEF vars, project, cache, durable, volatile
<1>1. TypeOK'
  BY DEF IInv, TypeOK
<1>2. ReceiptsOK' /\ ChunksOK' /\ ControlOK'
  BY SMTT(30) DEF IInv, ReceiptsOK, ReceiptsAt, ChunksOK, ChunksAt, Backed, ControlOK, ControlAt, Activating, Planned
<1>3. WriterOK'
  BY SMTT(30) DEF IInv, WriterOK, WriterAt, CommittedBy, LatestNote, Proven
<1>4. NotesOK'
  <2>1. \A b, w : CommittedBy(b, w)' = CommittedBy(b, w)
    BY DEF CommittedBy
  <2>2. \A b, p, i : PlannedNote(b, p, i)' = PlannedNote(b, p, i)
    BY DEF PlannedNote, Planned
  <2> QED
    BY <2>1, <2>2 DEF IInv, NotesOK, NotesAt, Preparing
<1>5. AcceptedOK'
  BY Zenon DEF IInv, AcceptedOK, AcceptedAt, Vouched, CommittedBy
<1> QED
  BY <1>1, <1>2, <1>3, <1>4, <1>5 DEF IInv

\* Every step keeps the types.
LEMMA NextType == ASSUME IInv, Next PROVE TypeOK'
<1>1. ASSUME NEW b \in Batches, Prepare(b) PROVE TypeOK'
  BY <1>1, PrepareType DEF IInv
<1>2. ASSUME NEW b \in Batches, Host(b) PROVE TypeOK'
  <2>1. ASSUME NEW resume \in BOOLEAN, NEW retry \in BOOLEAN, NEW redact \in BOOLEAN,
               NextCall(b, resume, retry, redact)
        PROVE  TypeOK'
    BY <2>1, NextCallType DEF IInv
  <2> QED
    BY <1>2, <2>1, SubmitType DEF Host, Choice, IInv
<1>3. ASSUME NEW b \in Batches, Run(b) \/ TornCheckpoint(b) \/ Crash(b) PROVE TypeOK'
  BY <1>3, RunType
<1>4. CASE Environment
  BY <1>4, EnvironmentType DEF IInv
<1> QED
  BY <1>1, <1>2, <1>3, <1>4 DEF Next

-----------------------------------------------------------------------------
(* A step of one batch leaves the others' files and calls alone. *)

Step(b) == Prepare(b) \/ Host(b) \/ Run(b) \/ TornCheckpoint(b) \/ Crash(b)

Same(d) ==
  /\ plan'[d] = plan[d] /\ disk'[d] = disk[d] /\ receipts'[d] = receipts[d]
  /\ pc'[d] = pc[d] /\ mem'[d] = mem[d] /\ pos'[d] = pos[d] /\ call'[d] = call[d]

\* A step of one batch does not touch the files or the call of another.
LEMMA Frame ==
  ASSUME TypeOK, NEW b \in Batches, Step(b), NEW d \in Batches, d # b
  PROVE  Same(d)
<1> USE DEF TypeOK, Same, durable
<1>1. CASE Prepare(b)
  BY <1>1, ZenonT(30) DEF Prepare, PrepareStart, PrepareExpect, PrepareSource, PrepareBind, PreparePublish,
              NextPaper, Return
<1>2. CASE Host(b)
  <2>1. ASSUME NEW resume, NEW retry, NEW redact, NextCall(b, resume, retry, redact) PROVE Same(d)
    BY <2>1 DEF NextCall
  <2>2. ASSUME NEW k \in Packets, NEW x, SubmitReplay(b, k, x) \/ SubmitResult(b, k, x) PROVE Same(d)
    BY <2>2 DEF SubmitReplay, SubmitResult, Enter
  <2>3. ASSUME NEW k \in Packets, NEW x, SubmitFailure(b, k, x) \/ SubmitInvalid(b, k) PROVE Same(d)
    BY <2>3 DEF SubmitFailure, SubmitInvalid, Enter
  <2> QED
    BY <1>2, <2>1, <2>2, <2>3 DEF Host
<1>3. CASE Reconcile(b) \/ Reconciled(b) \/ Serve(b) \/ ServedAll(b) \/ WriteReceipt(b)
  BY <1>3, ZenonT(30) DEF Reconcile, Reconciled, Serve, ServePending, ServedAll, WriteReceipt, Finish
<1>4. CASE Recover(b) \/ CheckSource(b) \/ Begin(b) \/ Commit(b) \/ Rollback(b)
  BY <1>4, ZenonT(30) DEF Recover, CheckSource, Begin, Commit, Rollback, Settle
<1>5. CASE Checkpoint(b) \/ TornCheckpoint(b) \/ Crash(b)
  BY <1>5 DEF Checkpoint, TornCheckpoint, Crash, Return
<1> QED
  BY <1>1, <1>2, <1>3, <1>4, <1>5 DEF Step, Run

\* The other processes touch no batch and no lock.
LEMMA EnvironmentFrame ==
  ASSUME Environment
  PROVE  UNCHANGED <<plan, disk, receipts, pc, mem, pos, call, writer>>
BY DEF Environment, ApiNote, WriteBridge, BackfillMarkdown, Convert, Damage, Tighten, SetPolicy,
       project, cache, durable, volatile

-----------------------------------------------------------------------------
(* Receipts *)

\* A consumed receipt keeps its verdict and its payload.
Kept(b) ==
  \A k \in Packets : Consumed(receipts[b][k]) =>
    /\ receipts'[b][k].status = receipts[b][k].status
    /\ receipts'[b][k].payload = receipts[b][k].payload

\* No step of a batch rewrites what one of its packets was consumed with.
LEMMA ReceiptsKept ==
  ASSUME IInv, NEW b \in Batches, Step(b)
  PROVE  Kept(b)
<1> USE DEF IInv, Kept
<1>0. receipts[b] \in [Packets -> Receipt]
  BY DEF TypeOK
<1>1. CASE Prepare(b)
  BY <1>1, Zenon DEF Prepare, PrepareStart, PrepareExpect, PrepareSource, PrepareBind, PreparePublish
<1>2. CASE Host(b)
  <2>1. ASSUME NEW resume, NEW retry, NEW redact, NextCall(b, resume, retry, redact) PROVE Kept(b)
    BY <1>0, <2>1 DEF NextCall, Acknowledged, Consumed, TypeOK
  <2>2. ASSUME NEW k \in Packets, NEW x \in Results, SubmitResult(b, k, x) PROVE Kept(b)
    BY <1>0, <2>2 DEF SubmitResult, Consumed, TypeOK
  <2>3. ASSUME NEW k \in Packets, NEW x, SubmitReplay(b, k, x) \/ SubmitFailure(b, k, x) \/ SubmitInvalid(b, k)
        PROVE  Kept(b)
    BY <2>3 DEF SubmitReplay, SubmitFailure, SubmitInvalid, durable
  <2> QED
    BY <1>2, <2>1, <2>2, <2>3 DEF Host
<1>3. CASE Reconcile(b) \/ Reconciled(b) \/ Serve(b) \/ ServedAll(b)
  BY <1>3 DEF Reconcile, Reconciled, Serve, ServedAll, durable
<1>4. CASE WriteReceipt(b)
  <2>1. call[b].packet \in Packets
        /\ receipts' = [receipts EXCEPT ![b][call[b].packet] = call[b].receipt]
    BY <1>4 DEF WriteReceipt, ReceiptsOK, ReceiptsAt
  <2>2. \A k \in Packets : receipts'[b][k] = IF k = call[b].packet THEN call[b].receipt ELSE receipts[b][k]
    BY <1>0, <2>1 DEF TypeOK
  <2> QED
    BY <1>4, <2>2 DEF WriteReceipt, ReceiptsOK, ReceiptsAt, Consumed
<1>5. CASE Recover(b) \/ CheckSource(b) \/ Begin(b) \/ Commit(b) \/ Rollback(b)
  BY <1>5, Zenon DEF Recover, CheckSource, Begin, Commit, Rollback, durable
<1>6. CASE Checkpoint(b) \/ TornCheckpoint(b) \/ Crash(b)
  BY <1>6 DEF Checkpoint, TornCheckpoint, Crash, durable
<1> QED
  BY <1>1, <1>2, <1>3, <1>4, <1>5, <1>6 DEF Step, Run

\* A receipt about to be written never replaces a consumed one by another.
LEMMA ReceiptsStep ==
  ASSUME IInv, NEW b \in Batches, Step(b)
  PROVE  ReceiptsAt(b)'
<1> USE DEF IInv
<1>0. /\ receipts[b] \in [Packets -> Receipt]
      /\ ReceiptsAt(b)
  BY DEF TypeOK, ReceiptsOK
<1>1. CASE Prepare(b)
  BY <1>0, <1>1, Zenon DEF Prepare, PrepareStart, PrepareExpect, PrepareSource, PrepareBind, PreparePublish,
                    NextPaper, Return, TypeOK, ReceiptsAt
<1>2. CASE Host(b)
  <2>1. ASSUME NEW resume, NEW retry, NEW redact, NextCall(b, resume, retry, redact) PROVE ReceiptsAt(b)'
    BY <1>0, <2>1, SMTT(30) DEF NextCall, Acknowledged, TypeOK, ReceiptsAt
  <2>2. ASSUME NEW k \in Packets, NEW x, SubmitReplay(b, k, x) PROVE ReceiptsAt(b)'
    BY <1>0, <2>2 DEF SubmitReplay, Enter, durable, TypeOK, ReceiptsAt
  <2>3. ASSUME NEW k \in Packets, NEW x \in Results, SubmitResult(b, k, x) PROVE ReceiptsAt(b)'
    <3>1. \A j \in Packets : receipts'[b][j] =
            IF j = k THEN [status |-> "accepted", payload |-> x, outcome |-> "none"] ELSE receipts[b][j]
      BY <1>0, <2>3 DEF SubmitResult, TypeOK
    <3>2. call'[b].packet = k /\ call'[b].receipt.status = "accepted" /\ call'[b].receipt.payload = x
      BY <2>3 DEF SubmitResult, Enter, TypeOK, NoCall
    <3> QED
      BY <1>0, <2>3, <3>1, <3>2 DEF ReceiptsAt
  <2>4. ASSUME NEW k \in Packets, NEW x \in Failures, SubmitFailure(b, k, x) PROVE ReceiptsAt(b)'
    <3>1. call'[b].packet = k /\ call'[b].receipt.status # "accepted" /\ ~Consumed(receipts[b][k])
      BY <2>4 DEF SubmitFailure, Enter, TypeOK, NoCall
    <3> QED
      BY <1>0, <2>4, <3>1 DEF SubmitFailure, durable, ReceiptsAt
  <2>5. ASSUME NEW k \in Packets, SubmitInvalid(b, k) PROVE ReceiptsAt(b)'
    <3>1. call'[b].packet = k /\ call'[b].receipt.status # "accepted" /\ ~Consumed(receipts[b][k])
      BY <2>5 DEF SubmitInvalid, Enter, TypeOK, NoCall
    <3> QED
      BY <1>0, <2>5, <3>1 DEF SubmitInvalid, durable, ReceiptsAt
  <2> QED
    BY <1>2, <2>1, <2>2, <2>3, <2>4, <2>5 DEF Host
<1>3. CASE Reconcile(b) \/ Reconciled(b) \/ Serve(b) \/ ServedAll(b)
  <2>1. pc'[b] # "receipt"
    BY <1>3 DEF Reconcile, Reconciled, Serve, ServePending, ServedAll, Finish, TypeOK
  <2> QED
    BY <1>0, <1>3, <2>1 DEF Reconcile, Reconciled, Serve, ServedAll, durable, ReceiptsAt
<1>4. CASE WriteReceipt(b)
  <2>1. call[b].packet \in Packets
        /\ receipts' = [receipts EXCEPT ![b][call[b].packet] = call[b].receipt]
    BY <1>0, <1>4 DEF WriteReceipt, ReceiptsAt
  <2>2. \A k \in Packets : receipts'[b][k] = IF k = call[b].packet THEN call[b].receipt ELSE receipts[b][k]
    BY <1>0, <2>1 DEF TypeOK
  <2>3. pc'[b] # "receipt"
    BY <1>4 DEF WriteReceipt, Finish, TypeOK
  <2> QED
    BY <1>0, <1>4, <2>2, <2>3 DEF WriteReceipt, ReceiptsAt
<1>5. CASE Recover(b) \/ CheckSource(b) \/ Begin(b) \/ Commit(b) \/ Rollback(b)
  <2>1. UNCHANGED receipts /\ Activating(b) /\ ControlAt(b)
    BY <1>5, Zenon DEF Recover, CheckSource, Begin, Commit, Rollback, durable, Activating, ControlOK
  <2>2. CASE \E s, n : Settle(b, s, n)
    <3>1. PICK s, n : Settle(b, s, n)
      BY <2>2
    <3>2. CASE call[b].op = "submit"
      <4>1. call'[b].packet = call[b].packet /\ call'[b].receipt.status = call[b].receipt.status
            /\ call'[b].receipt.payload = call[b].receipt.payload
        <5>1. call[b] \in Call /\ call[b].receipt \in Receipt
          BY DEF TypeOK, Call
        <5>2. call'[b] = [call[b] EXCEPT !.receipt.outcome = s]
          BY <3>1, <3>2 DEF Settle, TypeOK
        <5> QED
          BY <5>1, <5>2 DEF Call, Receipt
      <4> QED
        BY <1>0, <2>1, <3>2, <4>1 DEF ControlAt, ReceiptsAt
    <3>3. CASE call[b].op # "submit"
      BY <1>0, <2>1, <3>1, <3>3 DEF Settle, TypeOK, ReceiptsAt
    <3> QED
      BY <3>2, <3>3
  <2>3. CASE pc'[b] \in {"begin", "commit"}
    BY <1>0, <2>1, <2>3 DEF ReceiptsAt
  <2> QED
    BY <1>5, <2>2, <2>3 DEF Recover, CheckSource, Begin, Commit, Rollback, TypeOK
<1>6. CASE Checkpoint(b) \/ TornCheckpoint(b) \/ Crash(b)
  BY <1>0, <1>6 DEF Checkpoint, TornCheckpoint, Crash, Return, durable, TypeOK, ReceiptsAt
<1> QED
  BY <1>1, <1>2, <1>3, <1>4, <1>5, <1>6 DEF Step, Run

-----------------------------------------------------------------------------
(* Chunks *)

\* The state's chunks are those of st, or none at all.
ChunksFrom(st, st2) ==
  \A p \in Papers, c \in Chunks :
    st2.papers[p].chunks[c] # 0 => st2.papers[p].chunks[c] = st.papers[p].chunks[c]

\* Chunks taken over from a backed state are still backed after the step.
LEMMA ChunksInherited ==
  ASSUME IInv, NEW b \in Batches, Step(b), NEW st \in State, Backed(b, st),
         NEW st2, ChunksFrom(st, st2)
  PROVE  \A p \in Papers, c \in Chunks : st2.papers[p].chunks[c] # 0 =>
           receipts'[b][<<p, c, st2.papers[p].chunks[c]>>].status = "accepted"
<1> SUFFICES ASSUME NEW p \in Papers, NEW c \in Chunks, st2.papers[p].chunks[c] # 0
             PROVE  receipts'[b][<<p, c, st2.papers[p].chunks[c]>>].status = "accepted"
  OBVIOUS
<1> DEFINE a == st.papers[p].chunks[c]
<1>1. st2.papers[p].chunks[c] = a /\ a # 0
  BY DEF ChunksFrom
<1>2. st.papers[p] \in Paper
  BY DEF State
<1>3. a \in Attempts
  BY <1>1, <1>2, SMTT(30) DEF Paper
<1>4. receipts[b][<<p, c, a>>].status = "accepted"
  BY <1>1 DEF Backed
<1>5. <<p, c, a>> \in Packets
  BY <1>3 DEF Packets
<1> QED
  BY <1>1, <1>4, <1>5, ReceiptsKept DEF Kept, Consumed

\* Outside adoption and submission, memory only takes chunks over, from itself or
\* from the checkpoint.
LEMMA MemChunks ==
  ASSUME IInv, NEW b \in Batches, Step(b), ~Reconcile(b),
         \A k \in Packets, x \in Results : ~SubmitResult(b, k, x)
  PROVE  ChunksFrom(mem[b], mem'[b]) \/ ChunksFrom(disk[b], mem'[b])
<1> USE DEF IInv
<1>0. mem[b] \in State /\ disk[b] \in State /\ mem = [d \in Batches |-> mem[d]]
  BY DEF TypeOK
<1>1. ASSUME NEW st \in State, NEW p \in Papers, NEW status
      PROVE  ChunksFrom(st, [st EXCEPT !.papers[p].status = status])
  BY DEF State, Paper, ChunksFrom
<1>2. ASSUME NEW st \in State, NEW p \in Papers, NEW status, NEW note
      PROVE  ChunksFrom(st, [st EXCEPT !.papers[p] = [st.papers[p] EXCEPT !.status = status, !.note = note]])
  <2> DEFINE new == [st.papers[p] EXCEPT !.status = status, !.note = note]
  <2>1. st.papers \in [Papers -> Paper] /\ st.papers[p].chunks = new.chunks
    BY DEF State, Paper
  <2> HIDE DEF new
  <2>2. ChunksFrom(st, [st EXCEPT !.papers[p] = new])
    BY <2>1 DEF State, ChunksFrom
  <2> QED
    BY <2>2 DEF new
<1>3. ASSUME NEW st \in State, NEW v PROVE ChunksFrom(st, [st EXCEPT !.paused = v])
  BY DEF State, Paper, ChunksFrom
<1>4. CASE mem'[b] = FreshState
  BY <1>4 DEF FreshState, FreshPaper, ChunksFrom
<1>5. CASE mem'[b] = mem[b]
  BY <1>5 DEF ChunksFrom
<1>50. CASE mem'[b] = disk[b]
  BY <1>50 DEF ChunksFrom
<1>6. CASE Prepare(b)
  <2>1. CASE PrepareSource(b)
    <3>1. pos[b] \in Papers
      BY <2>1 DEF PrepareSource, ControlOK, ControlAt
    <3>2. mem'[b] = mem[b] \/ mem'[b] = [mem[b] EXCEPT !.papers[pos[b]].status = "failed"]
      BY <1>0, <2>1 DEF PrepareSource
    <3> QED
      BY <1>0, <1>1, <1>5, <3>1, <3>2
  <2>2. CASE PrepareBind(b)
    <3>1. pos[b] \in Papers
      BY <2>2 DEF PrepareBind, ControlOK, ControlAt
    <3>2. PICK n : mem' = [mem EXCEPT ![b].papers[pos[b]] =
                       IF AlreadyCurrent(b, pos[b])
                       THEN [@ EXCEPT !.status = "preserved", !.note = plan[b].expected[pos[b]]]
                       ELSE [@ EXCEPT !.status = IF n = 0 THEN "failed" ELSE "pending"]]
      BY <2>2 DEF PrepareBind
    <3> DEFINE old == mem[b].papers[pos[b]]
               new == IF AlreadyCurrent(b, pos[b])
                      THEN [old EXCEPT !.status = "preserved", !.note = plan[b].expected[pos[b]]]
                      ELSE [old EXCEPT !.status = IF n = 0 THEN "failed" ELSE "pending"]
    <3>3. mem'[b] = [mem[b] EXCEPT !.papers[pos[b]] = new]
      BY <1>0, <3>2
    <3>4. mem[b].papers \in [Papers -> Paper] /\ old.chunks = new.chunks
      BY <1>0, <3>1 DEF State, Paper
    <3> HIDE DEF new
    <3> QED
      BY <1>0, <3>1, <3>3, <3>4 DEF State, ChunksFrom
  <2>3. CASE PreparePublish(b)
    BY <1>0, <1>4, <2>3 DEF PreparePublish, Return
  <2> QED
    BY <1>5, <1>6, <2>1, <2>2, <2>3 DEF Prepare, PrepareStart, PrepareExpect
<1>7. ASSUME NEW resume \in BOOLEAN, NEW retry \in BOOLEAN, NEW redact, NextCall(b, resume, retry, redact)
      PROVE  ChunksFrom(disk[b], mem'[b])
  <2>1. ASSUME NEW st \in State PROVE ChunksFrom(st, Retried(b, st))
    BY <2>1 DEF Retried, State, Paper, ChunksFrom
  <2> DEFINE loaded == IF resume THEN [disk[b] EXCEPT !.paused = "no"] ELSE disk[b]
  <2>2. loaded \in State
    <3>1. [disk[b] EXCEPT !.paused = "no"] \in State
      BY <1>0, StatePaused
    <3> QED
      BY <1>0, <3>1
  <2>3. ChunksFrom(disk[b], loaded)
    <3>1. ChunksFrom(disk[b], [disk[b] EXCEPT !.paused = "no"])
      BY <1>0, <1>3
    <3>2. ChunksFrom(disk[b], disk[b])
      BY DEF ChunksFrom
    <3> QED
      BY <3>1, <3>2
  <2>4. mem'[b] = IF retry THEN Retried(b, loaded) ELSE loaded
    BY <1>0, <1>7 DEF NextCall
  <2> HIDE DEF loaded
  <2>5. ChunksFrom(loaded, Retried(b, loaded))
    BY <2>1, <2>2
  <2> QED
    BY <2>3, <2>4, <2>5 DEF ChunksFrom
<1>8. ASSUME NEW k \in Packets, NEW x,
             SubmitReplay(b, k, x) \/ SubmitFailure(b, k, x) \/ SubmitInvalid(b, k)
      PROVE  ChunksFrom(disk[b], mem'[b])
  <2>1. k[1] \in Papers
    BY DEF Packets
  <2>2. \/ mem'[b] = disk[b]
        \/ mem'[b] = [disk[b] EXCEPT !.paused = "session"]
        \/ mem'[b] = [disk[b] EXCEPT !.papers[k[1]].status = "failed"]
    BY <1>0, <1>8 DEF SubmitReplay, SubmitFailure, SubmitInvalid
  <2>3. ChunksFrom(disk[b], disk[b])
    BY DEF ChunksFrom
  <2> QED
    BY <1>0, <1>1, <1>3, <2>1, <2>2, <2>3
<1>9. CASE Serve(b)
  <2>1. pos[b] \in Papers
    BY <1>9 DEF Serve
  <2>2. \/ mem'[b] = mem[b]
        \/ mem'[b] = [mem[b] EXCEPT !.paused = "access"]
        \/ mem'[b] = [mem[b] EXCEPT !.papers[pos[b]].status = "failed"]
    BY <1>0, <1>9, Zenon DEF Serve, ServePending
  <2> QED
    BY <1>0, <1>1, <1>3, <1>5, <2>1, <2>2
<1>10. ASSUME Activating(b), NEW s, NEW n, Settle(b, s, n) PROVE ChunksFrom(mem[b], mem'[b])
  <2>1. pos[b] \in Papers
    BY <1>10 DEF ControlOK, ControlAt, Activating
  <2>2. mem'[b] = [mem[b] EXCEPT !.papers[pos[b]] =
                     [mem[b].papers[pos[b]] EXCEPT !.status = s, !.note = n]]
    BY <1>0, <1>10 DEF Settle
  <2>3. ChunksFrom(mem[b], [mem[b] EXCEPT !.papers[pos[b]] =
                     [mem[b].papers[pos[b]] EXCEPT !.status = s, !.note = n]])
    BY <1>0, <1>2, <2>1
  <2> QED
    BY <2>2, <2>3
<1>11. CASE Recover(b) \/ CheckSource(b) \/ Begin(b) \/ Commit(b) \/ Rollback(b)
  <2>1. Activating(b)
    BY <1>11, Zenon DEF Recover, CheckSource, Begin, Commit, Rollback, Activating
  <2>2. UNCHANGED mem \/ \E s, n : Settle(b, s, n)
    <3>1. CASE Recover(b)
      BY <3>1 DEF Recover
    <3>2. CASE CheckSource(b)
      BY <3>2 DEF CheckSource
    <3>3. CASE Begin(b)
      BY <3>3 DEF Begin
    <3>4. CASE Commit(b)
      BY <3>4 DEF Commit
    <3>5. CASE Rollback(b)
      BY <3>5 DEF Rollback
    <3> QED
      BY <1>11, <3>1, <3>2, <3>3, <3>4, <3>5
  <2> QED
    BY <1>5, <1>10, <2>1, <2>2
<1>12. CASE Reconciled(b) \/ ServedAll(b) \/ WriteReceipt(b)
  BY <1>5, <1>12 DEF Reconciled, ServedAll, WriteReceipt
<1>13. CASE Checkpoint(b) \/ TornCheckpoint(b) \/ Crash(b)
  BY <1>0, <1>4, <1>13 DEF Checkpoint, TornCheckpoint, Crash, Return
<1>14. CASE Host(b)
  BY <1>7, <1>8, <1>14, Zenon DEF Host, Choice
<1> QED
  BY <1>6, <1>9, <1>11, <1>12, <1>13, <1>14 DEF Step, Run

\* The checkpoint is either kept or replaced by what the call has in memory.
LEMMA DiskStep ==
  ASSUME TypeOK, NEW b \in Batches, Step(b)
  PROVE  disk'[b] = disk[b] \/ disk'[b] = mem[b]
<1>1. CASE Prepare(b)
  BY <1>1, Zenon DEF Prepare, PrepareStart, PrepareExpect, PrepareSource, PrepareBind, PreparePublish, TypeOK
<1>2. CASE Host(b)
  BY <1>2, Zenon DEF Host, NextCall, SubmitReplay, SubmitResult, SubmitFailure, SubmitInvalid, durable
<1>3. CASE Reconcile(b) \/ Reconciled(b) \/ Serve(b) \/ ServedAll(b) \/ WriteReceipt(b)
  BY <1>3 DEF Reconcile, Reconciled, Serve, ServedAll, WriteReceipt, durable
<1>4. CASE Recover(b) \/ CheckSource(b) \/ Begin(b) \/ Commit(b) \/ Rollback(b)
  BY <1>4, Zenon DEF Recover, CheckSource, Begin, Commit, Rollback, durable
<1>5. CASE Checkpoint(b) \/ TornCheckpoint(b) \/ Crash(b)
  BY <1>5 DEF Checkpoint, TornCheckpoint, Crash, durable, TypeOK
<1> QED
  BY <1>1, <1>2, <1>3, <1>4, <1>5 DEF Step, Run

\* Every chunk counted as done keeps an accepted receipt behind it.
LEMMA ChunksStep ==
  ASSUME IInv, NEW b \in Batches, Step(b)
  PROVE  ChunksAt(b)'
<1> USE DEF IInv
<1>0. /\ mem[b] \in State /\ disk[b] \in State
      /\ Backed(b, mem[b]) /\ Backed(b, disk[b])
  BY DEF TypeOK, ChunksOK, ChunksAt
<1>1. Backed(b, disk[b])'
  <2>1. ChunksFrom(disk[b], disk'[b]) \/ ChunksFrom(mem[b], disk'[b])
    BY DiskStep DEF ChunksFrom
  <2> QED
    BY <1>0, <2>1, ChunksInherited, SMTT(30) DEF Backed
<1>2. Backed(b, mem[b])'
  <2>1. CASE Reconcile(b)
    <3> DEFINE p == pos[b]
               failed == {c \in Missing(b, p) : ReceiptOf(b, p, c).status = "failed"}
               seen   == {c \in Missing(b, p) : \A d \in failed : c < d}
               ok     == {c \in seen : ReceiptOf(b, p, c).status = "accepted"}
    <3>1. p \in Papers /\ UNCHANGED receipts
      BY <2>1 DEF Reconcile, durable
    <3>2. mem'[b] = mem[b] \/ mem'[b] = Adopted(b, p)
      BY <2>1 DEF Reconcile, TypeOK
    <3>3. \A q \in Papers : q # p => Adopted(b, p).papers[q] = mem[b].papers[q]
      BY <1>0, <3>1 DEF Adopted, State
    <3>4. \A c \in Chunks : Adopted(b, p).papers[p].chunks[c] =
            IF c \in ok THEN mem[b].papers[p].attempt ELSE mem[b].papers[p].chunks[c]
      <4>1. mem[b].papers[p] \in Paper /\ p \in Papers
        BY <1>0, <3>1 DEF State
      <4> QED
        BY <1>0, <4>1 DEF Adopted, State, Paper
    <3>5. \A c \in ok : receipts[b][<<p, c, mem[b].papers[p].attempt>>].status = "accepted"
      BY DEF ReceiptOf, Packet
    <3> HIDE DEF ok
    <3>6. Backed(b, Adopted(b, p))
      BY <1>0, <3>3, <3>4, <3>5, SMTT(30) DEF Backed
    <3> QED
      BY <1>0, <3>1, <3>2, <3>6, SMTT(30) DEF Backed
  <2>2. ASSUME NEW k \in Packets, NEW x \in Results, SubmitResult(b, k, x) PROVE Backed(b, mem[b])'
    <3>1. k = <<k[1], k[2], k[3]>> /\ k[1] \in Papers /\ k[2] \in Chunks /\ k[3] \in Attempts
      BY DEF Packets
    <3>2. mem'[b] = [disk[b] EXCEPT !.papers[k[1]].chunks[k[2]] = k[3]]
      BY <2>2 DEF SubmitResult, TypeOK
    <3>3. \A p \in Papers, c \in Chunks : mem'[b].papers[p].chunks[c] =
            IF p = k[1] /\ c = k[2] THEN k[3] ELSE disk[b].papers[p].chunks[c]
      <4>1. disk[b].papers \in [Papers -> Paper]
        BY <1>0 DEF State
      <4>2. mem'[b].papers = [disk[b].papers EXCEPT ![k[1]].chunks[k[2]] = k[3]]
        BY <1>0, <3>2 DEF State
      <4>3. mem'[b].papers = [disk[b].papers EXCEPT ![k[1]] =
              [disk[b].papers[k[1]] EXCEPT !.chunks[k[2]] = k[3]]]
        BY <4>2
      <4>4. \A p \in Papers : mem'[b].papers[p] =
              IF p = k[1] THEN [disk[b].papers[k[1]] EXCEPT !.chunks[k[2]] = k[3]] ELSE disk[b].papers[p]
        BY <3>1, <4>1, <4>3
      <4>5. disk[b].papers[k[1]] \in Paper
        BY <3>1, <4>1
      <4>6. [disk[b].papers[k[1]] EXCEPT !.chunks[k[2]] = k[3]].chunks =
              [disk[b].papers[k[1]].chunks EXCEPT ![k[2]] = k[3]]
        BY <4>5 DEF Paper
      <4>7. disk[b].papers[k[1]].chunks \in [Chunks -> 0..MaxAttempts]
        BY <4>5 DEF Paper
      <4>8. \A c \in Chunks : [disk[b].papers[k[1]].chunks EXCEPT ![k[2]] = k[3]][c] =
              IF c = k[2] THEN k[3] ELSE disk[b].papers[k[1]].chunks[c]
        BY <4>7
      <4> SUFFICES ASSUME NEW p \in Papers, NEW c \in Chunks
                   PROVE  mem'[b].papers[p].chunks[c] =
                            IF p = k[1] /\ c = k[2] THEN k[3] ELSE disk[b].papers[p].chunks[c]
        OBVIOUS
      <4>9. CASE p = k[1]
        <5>1. mem'[b].papers[p].chunks = [disk[b].papers[k[1]].chunks EXCEPT ![k[2]] = k[3]]
          BY <4>4, <4>6, <4>9
        <5> QED
          BY <4>8, <4>9, <5>1
      <4>10. CASE p # k[1]
        BY <4>4, <4>10
      <4> QED
        BY <4>9, <4>10
    <3>4. receipts'[b][k].status = "accepted"
      BY <2>2 DEF SubmitResult, TypeOK
    <3> SUFFICES ASSUME NEW p \in Papers, NEW c \in Chunks, mem'[b].papers[p].chunks[c] # 0
                 PROVE  receipts'[b][<<p, c, mem'[b].papers[p].chunks[c]>>].status = "accepted"
      BY DEF Backed
    <3>5. CASE p = k[1] /\ c = k[2]
      BY <3>1, <3>3, <3>4, <3>5
    <3>6. CASE ~(p = k[1] /\ c = k[2])
      <4>1. mem'[b].papers[p].chunks[c] = disk[b].papers[p].chunks[c]
        BY <3>3, <3>6
      <4>2. ChunksFrom(disk[b], disk[b])
        BY DEF ChunksFrom
      <4>3. \A q \in Papers, d \in Chunks : disk[b].papers[q].chunks[d] # 0 =>
              receipts'[b][<<q, d, disk[b].papers[q].chunks[d]>>].status = "accepted"
        BY <1>0, <4>2, ChunksInherited, SMTT(30)
      <4> QED
        BY <4>1, <4>3
    <3> QED
      BY <3>5, <3>6
  <2>3. CASE ~Reconcile(b) /\ \A k \in Packets, x \in Results : ~SubmitResult(b, k, x)
    <3>1. ChunksFrom(mem[b], mem'[b]) \/ ChunksFrom(disk[b], mem'[b])
      BY <2>3, MemChunks
    <3> QED
      BY <1>0, <3>1, ChunksInherited, SMTT(30) DEF Backed
  <2> QED
    BY <2>1, <2>2, <2>3
<1> QED
  BY <1>1, <1>2 DEF ChunksAt

-----------------------------------------------------------------------------
(* Control *)

\* Publication freezes the plan; before it no two papers get the same work.
LEMMA PlanStep ==
  ASSUME IInv, NEW b \in Batches, Step(b)
  PROVE  /\ ~Preparing(b) => plan'[b] = plan[b]
         /\ pc[b] # "new" => plan'[b].work = plan[b].work
         /\ \A p, q \in Papers : pc'[b] # "new" /\ plan'[b].work[p] = plan'[b].work[q] => p = q
<1> USE DEF IInv
<1>0. plan[b] \in Plan /\ ControlAt(b)
  BY DEF TypeOK, ControlOK
<1>1. CASE PrepareStart(b)
  <2>1. PICK works \in [Papers -> Works], confirm \in BOOLEAN, replace \in BOOLEAN :
          /\ \A p, q \in Papers : works[p] = works[q] => p = q
          /\ plan' = [plan EXCEPT ![b].work = works, ![b].confirm = confirm, ![b].replace = replace]
    BY <1>1 DEF PrepareStart, Choice
  <2>2. plan'[b] = [[[plan[b] EXCEPT !.work = works] EXCEPT !.confirm = confirm] EXCEPT !.replace = replace]
    BY <2>1 DEF TypeOK
  <2>3. plan'[b].work = works
    BY <1>0, <2>2 DEF Plan
  <2> QED
    BY <1>1, <2>1, <2>3 DEF PrepareStart, Preparing
<1>2. CASE PrepareExpect(b)
  <2>1. plan'[b].work = plan[b].work
    BY <1>0, <1>2 DEF PrepareExpect, TypeOK, Plan
  <2> QED
    BY <1>0, <1>2, <2>1 DEF PrepareExpect, Preparing, ControlAt
<1>3. CASE PrepareSource(b)
  <2>1. plan'[b].work = plan[b].work
    BY <1>0, <1>3 DEF PrepareSource, TypeOK, Plan
  <2> QED
    BY <1>0, <1>3, <2>1 DEF PrepareSource, Preparing, ControlAt
<1>4. CASE PrepareBind(b)
  <2>1. PICK n : plan' = [plan EXCEPT ![b].file[pos[b]] = bridge[plan[b].work[pos[b]]].file, ![b].n[pos[b]] = n]
    BY <1>4 DEF PrepareBind
  <2>2. plan'[b].work = plan[b].work
    BY <1>0, <2>1 DEF TypeOK, Plan
  <2> QED
    BY <1>0, <1>4, <2>2, Zenon DEF PrepareBind, Preparing, ControlAt
<1>5. CASE PreparePublish(b)
  BY <1>0, <1>5 DEF PreparePublish, Preparing, ControlAt
<1>6. CASE Host(b)
  <2>1. UNCHANGED plan /\ pc[b] = "idle"
    BY <1>6, Zenon DEF Host, NextCall, SubmitReplay, SubmitResult, SubmitFailure, SubmitInvalid, durable
  <2> QED
    BY <1>0, <2>1 DEF ControlAt
<1>7. CASE Run(b) \/ TornCheckpoint(b) \/ Crash(b)
  <2>1. UNCHANGED plan /\ pc[b] # "new"
    BY <1>7, Zenon DEF Run, Reconcile, Reconciled, Serve, ServedAll, WriteReceipt, Recover, CheckSource, Begin,
                Commit, Rollback, Checkpoint, TornCheckpoint, Crash, durable
  <2> QED
    BY <1>0, <2>1 DEF ControlAt
<1> QED
  BY <1>1, <1>2, <1>3, <1>4, <1>5, <1>6, <1>7 DEF Step, Prepare

\* A call only enters activation at a paper of the batch, all chunks of which are done,
\* and by `submit' only with the receipt already saved.
LEMMA ControlStep ==
  ASSUME IInv, NEW b \in Batches, Step(b)
  PROVE  ControlAt(b)'
<1> USE DEF IInv
<1>0. /\ plan[b] \in Plan /\ ControlAt(b) /\ pos[b] \in 1..(NPapers + 1) /\ pc[b] \in PCs
      /\ pc = [d \in Batches |-> pc[d]] /\ pos = [d \in Batches |-> pos[d]]
      /\ call = [d \in Batches |-> call[d]] /\ mem = [d \in Batches |-> mem[d]]
  BY DEF TypeOK, ControlOK, PCs
<1> DEFINE Injective == \A p, q \in Papers : pc'[b] # "new" /\ plan'[b].work[p] = plan'[b].work[q] => p = q
<1>i. Injective
  BY PlanStep
<1> HIDE DEF Injective
<1>1. CASE Prepare(b)
  <2>1. pc'[b] \in {"expect", "source", "bind", "publish", "idle"}
    BY <1>0, <1>1, Zenon DEF Prepare, PrepareStart, PrepareExpect, PrepareSource, PrepareBind, PreparePublish,
                      NextPaper, Return
  <2>2. pc'[b] \in {"expect", "source", "bind"} => pos'[b] \in Papers
    <3>1. CASE PrepareStart(b) \/ PrepareExpect(b) \/ PreparePublish(b)
      BY <1>0, <3>1 DEF PrepareStart, PrepareExpect, PreparePublish, Return, ControlAt
    <3>2. ASSUME NextPaper(b), pos[b] \in Papers, pc'[b] # "publish" PROVE pos'[b] \in Papers
      BY <1>0, <3>2 DEF NextPaper
    <3>3. CASE PrepareSource(b)
      BY <1>0, <3>2, <3>3 DEF PrepareSource, ControlAt
    <3>4. CASE PrepareBind(b)
      BY <1>0, <3>2, <3>4 DEF PrepareBind, ControlAt
    <3> QED
      BY <1>1, <3>1, <3>3, <3>4 DEF Prepare
  <2> QED
    BY <1>i, <2>1, <2>2 DEF ControlAt, Activating, Injective
<1>2. CASE Host(b)
  <2>1. ASSUME NEW resume, NEW retry, NEW redact, NextCall(b, resume, retry, redact) PROVE ControlAt(b)'
    <3>1. pc'[b] = "reconcile" /\ call'[b].op = "next"
      BY <1>0, <2>1 DEF NextCall, NoCall
    <3> QED
      BY <1>i, <3>1 DEF ControlAt, Activating, Injective
  <2>2. ASSUME NEW k \in Packets, NEW x, SubmitReplay(b, k, x) PROVE ControlAt(b)'
    <3>1. pc'[b] = "reconcile" /\ call'[b].op = "replay"
      BY <1>0, <2>2 DEF SubmitReplay, Enter, NoCall
    <3> QED
      BY <1>i, <3>1 DEF ControlAt, Activating, Injective
  <2>3. ASSUME NEW k \in Packets, NEW x, SubmitFailure(b, k, x) \/ SubmitInvalid(b, k) PROVE ControlAt(b)'
    <3>1. pc'[b] = "receipt"
      BY <1>0, <2>3 DEF SubmitFailure, SubmitInvalid, Enter
    <3> QED
      BY <1>i, <3>1 DEF ControlAt, Activating, Injective
  <2>4. ASSUME NEW k \in Packets, NEW x \in Results, SubmitResult(b, k, x) PROVE ControlAt(b)'
    <3>1. /\ UNCHANGED plan
          /\ pos'[b] = k[1] /\ k[1] \in Papers
          /\ pc'[b] \in {"activate", "receipt"}
      BY <1>0, <2>4 DEF SubmitResult, Enter, Packets
    <3>2. CASE pc'[b] = "receipt"
      BY <1>i, <3>2 DEF ControlAt, Activating, Injective
    <3>3. CASE pc'[b] = "activate"
      <4>1. Complete(b, k[1], mem'[b])
        BY <1>0, <2>4, <3>3 DEF SubmitResult, Enter
      <4>2. call'[b].packet = k /\ call'[b].receipt.status = "accepted" /\ call'[b].receipt.payload = x
        BY <1>0, <2>4 DEF SubmitResult, Enter, NoCall
      <4>3. receipts'[b][k].status = "accepted" /\ receipts'[b][k].payload = x
        BY <2>4 DEF SubmitResult, TypeOK
      <4>4. \A c \in Planned(b, pos[b])' : mem'[b].papers[pos'[b]].chunks[c] # 0
        BY <3>1, <4>1 DEF Complete, Planned
      <4> QED
        BY <1>i, <3>1, <3>3, <4>2, <4>3, <4>4 DEF ControlAt, Activating, Injective
    <3> QED
      BY <3>1, <3>2, <3>3
  <2> QED
    BY <1>2, <2>1, <2>2, <2>3, <2>4 DEF Host
<1>3. CASE Reconcile(b)
  <2>1. UNCHANGED <<plan, call>> /\ pos[b] \in Papers
    BY <1>3 DEF Reconcile, durable
  <2>2. call[b].op # "submit"
    BY <1>0, <1>3 DEF Reconcile, ControlAt
  <2>3. CASE pc'[b] = "activate"
    <3>1. UNCHANGED pos /\ Complete(b, pos[b], mem'[b])
      BY <1>0, <1>3, <2>3 DEF Reconcile
    <3> QED
      BY <1>i, <2>1, <2>2, <2>3, <3>1 DEF ControlAt, Activating, Injective, Complete, Planned
  <2>4. CASE pc'[b] = "reconcile"
    BY <1>i, <2>1, <2>2, <2>4 DEF ControlAt, Activating, Injective
  <2> QED
    BY <1>0, <1>3, <2>3, <2>4 DEF Reconcile
<1>4. CASE Reconciled(b) \/ Serve(b) \/ ServedAll(b) \/ WriteReceipt(b)
  <2>1. pc'[b] \in {"serve", "checkpoint"}
    BY <1>0, <1>4 DEF Reconciled, Serve, ServePending, ServedAll, WriteReceipt, Finish
  <2> QED
    BY <1>i, <2>1 DEF ControlAt, Activating, Injective
<1>5. CASE Recover(b) \/ CheckSource(b) \/ Begin(b) \/ Commit(b) \/ Rollback(b)
  <2>0. Activating(b) /\ UNCHANGED <<plan, receipts>>
    BY <1>5, Zenon DEF Recover, CheckSource, Begin, Commit, Rollback, Activating, durable
  <2>1. CASE \E s, n : Settle(b, s, n)
    <3>1. \/ pc'[b] = "receipt"
          \/ pc'[b] = "reconcile" /\ UNCHANGED call /\ call[b].op # "submit"
      BY <1>0, <2>1 DEF Settle
    <3> QED
      BY <1>i, <3>1 DEF ControlAt, Activating, Injective
  <2>2. CASE pc'[b] \in {"begin", "commit"} /\ UNCHANGED <<mem, pos, call>>
    BY <1>0, <1>i, <2>0, <2>2 DEF ControlAt, Activating, Injective, Planned
  <2> QED
    BY <1>0, <1>5, <2>1, <2>2 DEF Recover, CheckSource, Begin, Commit, Rollback
<1>6. CASE Checkpoint(b) \/ TornCheckpoint(b) \/ Crash(b)
  <2>1. pc'[b] = "idle"
    BY <1>0, <1>6 DEF Checkpoint, TornCheckpoint, Crash, Return
  <2> QED
    BY <1>i, <2>1 DEF ControlAt, Activating, Injective
<1> QED
  BY <1>1, <1>2, <1>3, <1>4, <1>5, <1>6 DEF Step, Run

-----------------------------------------------------------------------------
(* The notes and the write lock, which the batches share *)

\* Appending a note moves no other one, and adds its position to its author's.
LEMMA Grown ==
  ASSUME TypeOK, NEW w \in Works, NEW note \in Note,
         notes' = [notes EXCEPT ![w] = Append(@, note)]
  PROVE  /\ \A v \in Works : \A i \in 1..Len(notes[v]) : i \in 1..Len(notes'[v]) /\ notes'[v][i] = notes[v][i]
         /\ notes'[w][Len(notes[w]) + 1] = note /\ Len(notes'[w]) = Len(notes[w]) + 1
         /\ \A d \in Batches, v \in Works :
              CommittedBy(d, v)' = IF v = w /\ note.by = d
                                   THEN CommittedBy(d, v) \cup {Len(notes[v]) + 1}
                                   ELSE CommittedBy(d, v)
<1>1. \A v \in Works : notes[v] \in Seq(Note)
  BY DEF TypeOK
<1>2. notes'[w] = Append(notes[w], note) /\ \A v \in Works : v # w => notes'[v] = notes[v]
  BY DEF TypeOK
<1>3. /\ Len(notes'[w]) = Len(notes[w]) + 1
      /\ notes'[w][Len(notes[w]) + 1] = note
      /\ \A i \in 1..Len(notes[w]) : notes'[w][i] = notes[w][i]
      /\ Len(notes[w]) \in Nat
  BY <1>1, <1>2
<1>4. \A v \in Works : \A i \in 1..Len(notes[v]) : i \in 1..Len(notes'[v]) /\ notes'[v][i] = notes[v][i]
  BY <1>2, <1>3
<1>5. ASSUME NEW d \in Batches, NEW v \in Works
      PROVE  CommittedBy(d, v)' = IF v = w /\ note.by = d
                                  THEN CommittedBy(d, v) \cup {Len(notes[v]) + 1}
                                  ELSE CommittedBy(d, v)
  <2>1. CASE v # w
    BY <1>2, <2>1 DEF CommittedBy
  <2>2. CASE v = w
    <3>1. 1..Len(notes'[w]) = 1..Len(notes[w]) \cup {Len(notes[w]) + 1}
      BY <1>3
    <3> QED
      BY <1>3, <2>2, <3>1 DEF CommittedBy
  <2> QED
    BY <2>1, <2>2
<1> QED
  BY <1>3, <1>4, <1>5

\* Notes are only ever appended: by a commit, or by an API run while nobody writes.
Appended ==
  \E w \in Works, note \in Note :
    /\ notes' = [notes EXCEPT ![w] = Append(@, note)]
    /\ \/ \E b \in Batches : Commit(b) /\ w = plan[b].work[pos[b]] /\ note = NewNote(b)
       \/ Environment /\ writer = Nobody /\ note.by = "api"

\* Every step leaves the notes alone or appends one.
LEMMA NotesOnlyGrow ==
  ASSUME IInv, Next
  PROVE  notes' = notes \/ Appended
<1> USE DEF IInv
<1>1. ASSUME NEW b \in Batches, Commit(b) PROVE Appended
  BY <1>1, CommitNote, SMTT(30) DEF Appended
<1>2. ASSUME NEW b \in Batches, Step(b), ~Commit(b) PROVE notes' = notes
  <2>1. CASE Prepare(b)
    BY <2>1, Zenon DEF Prepare, PrepareStart, PrepareExpect, PrepareSource, PrepareBind, PreparePublish, project
  <2>2. CASE Host(b)
    BY <2>2, Zenon DEF Host, NextCall, SubmitReplay, SubmitResult, SubmitFailure, SubmitInvalid, project
  <2>3. CASE Run(b) \/ TornCheckpoint(b) \/ Crash(b)
    BY <1>2, <2>3 DEF Run, Reconcile, Reconciled, Serve, ServedAll, WriteReceipt, Recover, CheckSource, Begin,
                Rollback, Checkpoint, TornCheckpoint, Crash, project
  <2> QED
    BY <1>2, <2>1, <2>2, <2>3 DEF Step
<1>3. CASE Environment
  <2>1. ASSUME NEW w \in Works, ApiNote(w) PROVE Appended
    <3>1. PICK x \in Results : notes' = [notes EXCEPT ![w] =
                 Append(@, [by |-> "api", md |-> bridge[w].md, text |-> <<x>>])]
      BY <2>1 DEF ApiNote
    <3> DEFINE note == [by |-> "api", md |-> bridge[w].md, text |-> <<x>>]
    <3>2. bridge[w].md \in Markdown
      BY <2>1 DEF ApiNote, TypeOK
    <3>3. note \in Note /\ note.by = "api"
      BY <3>2 DEF Note
    <3>4. writer = Nobody /\ notes' = [notes EXCEPT ![w] = Append(@, note)]
      BY <2>1, <3>1 DEF ApiNote
    <3> HIDE DEF note
    <3> QED
      BY <1>3, <3>3, <3>4 DEF Appended
  <2>2. CASE \A w \in Works : ~ApiNote(w)
    BY <1>3, <2>2 DEF Environment, WriteBridge, BackfillMarkdown, Convert, Damage, Tighten, SetPolicy, project
  <2> QED
    BY <2>1, <2>2
<1> QED
  BY <1>1, <1>2, <1>3 DEF Next, Step

\* Who holds the write lock may be told from pc, and whoever does not hold it
\* changes neither the bridge nor anybody's notes.
LEMMA WriterStep ==
  ASSUME IInv, NEW b \in Batches, Step(b)
  PROVE  /\ UNCHANGED <<bridge, versions>>
         /\ \/ Begin(b) /\ writer = Nobody /\ writer' = b /\ pc'[b] = "commit" /\ UNCHANGED notes
            \/ writer = b /\ writer' = Nobody /\ pc'[b] # "commit"
            \/ writer # b /\ writer' = writer /\ UNCHANGED notes /\ pc'[b] # "commit"
<1> USE DEF IInv
<1>0. pc = [d \in Batches |-> pc[d]] /\ (writer = b => pc[b] = "commit")
  BY DEF TypeOK, WriterOK, WriterAt
<1>1. CASE Prepare(b)
  BY <1>0, <1>1, Zenon DEF Prepare, PrepareStart, PrepareExpect, PrepareSource, PrepareBind, PreparePublish,
                    NextPaper, Return, project, cache
<1>2. CASE Host(b)
  BY <1>0, <1>2, ZenonT(30) DEF Host, NextCall, SubmitReplay, SubmitResult, SubmitFailure, SubmitInvalid, Enter, project, cache
<1>3. CASE Reconcile(b) \/ Reconciled(b) \/ Serve(b) \/ ServedAll(b) \/ WriteReceipt(b)
  BY <1>0, <1>3, Zenon DEF Reconcile, Reconciled, Serve, ServePending, ServedAll, WriteReceipt, Finish, project, cache
<1>4. CASE Recover(b) \/ CheckSource(b)
  BY <1>0, <1>4, Zenon DEF Recover, CheckSource, Settle, project, cache
<1>5. CASE Begin(b)
  BY <1>0, <1>5 DEF Begin, Settle, cache
<1>6. CASE Commit(b) \/ Rollback(b)
  <2>1. writer = b
    BY <1>6, Zenon DEF Commit, Rollback, WriterOK, WriterAt
  <2> QED
    BY <1>0, <1>6, <2>1, Zenon DEF Commit, Rollback, Settle, cache
<1>7. CASE Checkpoint(b) \/ TornCheckpoint(b) \/ Crash(b)
  BY <1>0, <1>7 DEF Checkpoint, TornCheckpoint, Crash, Return, project, cache
<1> QED
  BY <1>1, <1>2, <1>3, <1>4, <1>5, <1>6, <1>7 DEF Step, Run

\* Nobody else commits notes in a batch's name.
LEMMA OwnNotes ==
  ASSUME IInv, Next, NEW d \in Batches, ~Commit(d)
  PROVE  \A v \in Works : CommittedBy(d, v)' = CommittedBy(d, v)
<1>1. CASE notes' = notes
  BY <1>1 DEF CommittedBy
<1>2. CASE Appended
  <2>1. PICK w \in Works, note \in Note :
          /\ notes' = [notes EXCEPT ![w] = Append(@, note)]
          /\ \/ \E b \in Batches : Commit(b) /\ w = plan[b].work[pos[b]] /\ note = NewNote(b)
             \/ Environment /\ writer = Nobody /\ note.by = "api"
    BY <1>2 DEF Appended
  <2>2. note.by # d
    BY <2>1, NamesAssumption DEF NewNote
  <2>3. \A e \in Batches, v \in Works :
          CommittedBy(e, v)' = IF v = w /\ note.by = e
                               THEN CommittedBy(e, v) \cup {Len(notes[v]) + 1}
                               ELSE CommittedBy(e, v)
    BY <2>1, Grown DEF IInv
  <2> QED
    BY <2>2, <2>3
<1> QED
  BY <1>1, <1>2, NotesOnlyGrow

\* The environment leaves the bridge and the notes alone while the lock is held.
LEMMA EnvironmentLocked ==
  ASSUME TypeOK, Environment, writer # Nobody
  PROVE  UNCHANGED <<bridge, notes>>
BY DEF Environment, ApiNote, WriteBridge, BackfillMarkdown, Convert, Damage, Tighten, SetPolicy, project

\* Conversions are only ever added.
LEMMA VersionsGrow ==
  ASSUME IInv, Next, NEW f, NEW m \in Markdown, Proven(f, m)
  PROVE  Proven(f, m)'
<1> USE DEF IInv
<1>0. f \in Files /\ versions[f] \in Int /\ m[2] \in Int /\ versions \in [Files -> 0..MaxVersions]
  BY DEF TypeOK, Proven, Markdown
<1>1. CASE UNCHANGED versions
  BY <1>1 DEF Proven
<1>2. ASSUME NEW g \in Files, Convert(g) PROVE Proven(f, m)'
  <2>1. versions'[f] = IF f = g THEN versions[f] + 1 ELSE versions[f]
    BY <1>0, <1>2 DEF Convert
  <2> QED
    BY <1>0, <2>1 DEF Proven
<1>3. ASSUME NEW b \in Batches, Step(b) PROVE UNCHANGED versions
  BY <1>3, WriterStep
<1>4. ASSUME Environment, \A g \in Files : ~Convert(g) PROVE UNCHANGED versions
  BY <1>4 DEF Environment, ApiNote, WriteBridge, BackfillMarkdown, Damage, Tighten, SetPolicy, cache
<1> QED
  BY <1>1, <1>2, <1>3, <1>4 DEF Next, Step

\* What a batch compared under the lock stays true until it commits.
LEMMA WriterInv ==
  ASSUME IInv, Next
  PROVE  WriterOK'
<1> USE DEF IInv
<1> SUFFICES ASSUME NEW d \in Batches PROVE WriterAt(d)'
  BY DEF WriterOK
<1>0. /\ plan[d] \in Plan /\ WriterAt(d) /\ ControlAt(d)
      /\ pc = [e \in Batches |-> pc[e]] /\ d # Nobody
  BY NamesAssumption DEF TypeOK, WriterOK, ControlOK
<1>1. ASSUME Step(d) PROVE WriterAt(d)'
  <2>1. writer' = d => pc'[d] = "commit"
    BY <1>0, <1>1, WriterStep
  <2>2. pc'[d] = "begin" => CheckSource(d)
    <3>1. CASE Prepare(d) \/ Host(d)
      BY <1>0, <3>1, Zenon DEF Prepare, PrepareStart, PrepareExpect, PrepareSource, PrepareBind, PreparePublish,
             NextPaper, Return, Host, NextCall, SubmitReplay, SubmitResult, SubmitFailure, SubmitInvalid, Enter
    <3>2. CASE Reconcile(d) \/ Reconciled(d) \/ Serve(d) \/ ServedAll(d) \/ WriteReceipt(d)
      BY <1>0, <3>2, Zenon DEF Reconcile, Reconciled, Serve, ServePending, ServedAll, WriteReceipt, Finish
    <3>3. CASE Recover(d) \/ Begin(d) \/ Commit(d) \/ Rollback(d)
      BY <1>0, <3>3, Zenon DEF Recover, Begin, Commit, Rollback, Settle
    <3>4. CASE Checkpoint(d) \/ TornCheckpoint(d) \/ Crash(d)
      BY <1>0, <3>4 DEF Checkpoint, TornCheckpoint, Crash, Return
    <3> QED
      BY <1>1, <3>1, <3>2, <3>3, <3>4 DEF Step, Run
  <2>3. CASE pc'[d] = "begin"
    <3>1. /\ CheckSource(d) /\ CommittedBy(d, plan[d].work[pos[d]]) = {}
          /\ UNCHANGED <<notes, plan, pos>>
      BY <1>0, <2>2, <2>3 DEF CheckSource, Settle, project, durable
    <3>2. CommittedBy(d, plan[d].work[pos[d]])' = {}
      BY <3>1 DEF CommittedBy
    <3> QED
      BY <2>1, <2>3, <3>2 DEF WriterAt
  <2>4. CASE pc'[d] = "commit"
    <3>1. /\ Begin(d) /\ writer' = d /\ UNCHANGED <<notes, bridge, versions>>
      BY <1>1, <2>4, WriterStep
    <3>2. /\ CommittedBy(d, plan[d].work[pos[d]]) = {}
          /\ LatestNote(plan[d].work[pos[d]]) = plan[d].expected[pos[d]]
          /\ SourceMatches(d, pos[d])
          /\ UNCHANGED <<plan, pos>>
      BY <1>0, <2>4, <3>1 DEF Begin, WriterAt, Settle, durable
    <3>3. plan[d].md[pos[d]] \in Markdown
      <4>1. pos[d] \in Papers
        BY <1>0, <3>1 DEF Begin, ControlAt
      <4> QED
        BY <1>0, <3>2, <4>1 DEF SourceMatches, Plan
    <3>4. CommittedBy(d, plan[d].work[pos[d]])' = {}
      BY <3>1, <3>2 DEF CommittedBy
    <3>5. Proven(plan[d].file[pos[d]], plan[d].md[pos[d]])'
      BY <3>1, <3>2 DEF SourceMatches, Proven
    <3> QED
      BY <2>4, <3>1, <3>2, <3>3, <3>4, <3>5 DEF WriterAt, SourceMatches, LatestNote
  <2>5. CASE pc'[d] \notin {"begin", "commit"}
    BY <2>1, <2>5 DEF WriterAt
  <2> QED
    BY <2>3, <2>4, <2>5
<1>2. ASSUME UNCHANGED <<plan[d], pc[d], pos[d]>>, ~Commit(d), writer' = d => writer = d,
             pc[d] = "commit" => UNCHANGED <<bridge, notes, writer>>
      PROVE  WriterAt(d)'
  <2>1. CASE pc[d] \in {"begin", "commit"}
    <3>1. pos[d] \in Papers /\ plan[d].work[pos[d]] \in Works
      BY <1>0, <2>1 DEF ControlAt, Plan
    <3>2. CommittedBy(d, plan[d].work[pos[d]])' = {}
      BY <1>0, <1>2, <2>1, <3>1, OwnNotes DEF WriterAt
    <3>3. CASE pc[d] = "commit"
      <4>1. plan[d].md[pos[d]] \in Markdown /\ Proven(plan[d].file[pos[d]], plan[d].md[pos[d]])
        BY <1>0, <3>3 DEF WriterAt
      <4>2. Proven(plan[d].file[pos[d]], plan[d].md[pos[d]])'
        BY <1>2, <4>1, VersionsGrow DEF Proven
      <4> QED
        BY <1>0, <1>2, <3>2, <3>3, <4>1, <4>2 DEF WriterAt, LatestNote
    <3> QED
      BY <1>0, <1>2, <2>1, <3>2, <3>3 DEF WriterAt
  <2>2. CASE pc[d] \notin {"begin", "commit"}
    BY <1>0, <1>2, <2>2 DEF WriterAt
  <2> QED
    BY <2>1, <2>2
<1>3. ASSUME NEW b \in Batches, Step(b), b # d PROVE WriterAt(d)'
  <2>1. UNCHANGED <<plan[d], pc[d], pos[d]>>
    BY <1>3, Frame DEF Same
  <2>2. ~Commit(d) \/ Step(d)
    BY DEF Step, Run
  <2>3. writer' = d => writer = d
    BY <1>0, <1>3, WriterStep
  <2>4. pc[d] = "commit" => UNCHANGED <<bridge, notes, writer>>
    BY <1>0, <1>3, WriterStep DEF WriterAt
  <2> QED
    BY <1>1, <1>2, <2>1, <2>2, <2>3, <2>4
<1>4. CASE Environment
  <2>1. UNCHANGED <<plan[d], pc[d], pos[d], writer>>
    BY <1>4, EnvironmentFrame
  <2>2. ~Commit(d) \/ Step(d)
    BY DEF Step, Run
  <2>3. pc[d] = "commit" => UNCHANGED <<bridge, notes>>
    BY <1>0, <1>4, EnvironmentLocked DEF WriterAt
  <2> QED
    BY <1>1, <1>2, <2>1, <2>2, <2>3
<1> QED
  BY <1>1, <1>3, <1>4 DEF Next, Step

\* Whatever a batch does not do itself leaves its files and its call alone.
LEMMA Others ==
  ASSUME IInv, Next, NEW d \in Batches, ~Step(d)
  PROVE  Same(d)
<1>1. ASSUME NEW b \in Batches, Step(b) PROVE Same(d)
  BY <1>1, Frame DEF IInv
<1>2. CASE Environment
  BY <1>2, EnvironmentFrame DEF Same
<1> QED
  BY <1>1, <1>2 DEF Next, Step

\* A batch is never prepared a second time.
LEMMA PreparingOnce ==
  ASSUME IInv, NEW d \in Batches, Step(d), ~Preparing(d)
  PROVE  ~Preparing(d)'
<1>0. pc = [e \in Batches |-> pc[e]]
  BY DEF IInv, TypeOK
<1>1. ~Prepare(d)
  BY Zenon DEF Preparing, Prepare, PrepareStart, PrepareExpect, PrepareSource, PrepareBind, PreparePublish
<1>2. CASE Host(d)
  <2>1. ASSUME NEW k, NEW x, SubmitResult(d, k, x) PROVE pc'[d] \in {"receipt", "activate"}
    BY <1>0, <2>1 DEF SubmitResult, Enter
  <2>2. ASSUME NEW k, NEW x, SubmitReplay(d, k, x) \/ SubmitFailure(d, k, x) \/ SubmitInvalid(d, k)
        PROVE  pc'[d] \in {"receipt", "reconcile"}
    BY <1>0, <2>2 DEF SubmitReplay, SubmitFailure, SubmitInvalid, Enter
  <2>3. ASSUME NEW resume, NEW retry, NEW redact, NextCall(d, resume, retry, redact)
        PROVE  pc'[d] = "reconcile"
    BY <1>0, <2>3 DEF NextCall
  <2> QED
    BY <1>2, <2>1, <2>2, <2>3 DEF Host, Preparing
<1>3. CASE Reconcile(d) \/ Reconciled(d) \/ Serve(d) \/ ServedAll(d) \/ WriteReceipt(d)
  BY <1>0, <1>3, Zenon DEF Preparing, Reconcile, Reconciled, Serve, ServePending, ServedAll, WriteReceipt, Finish
<1>4. CASE Recover(d) \/ CheckSource(d) \/ Begin(d) \/ Commit(d) \/ Rollback(d)
  BY <1>0, <1>4, Zenon DEF Preparing, Recover, CheckSource, Begin, Commit, Rollback, Settle
<1>5. CASE Checkpoint(d) \/ TornCheckpoint(d) \/ Crash(d)
  BY <1>0, <1>5 DEF Preparing, Checkpoint, TornCheckpoint, Crash, Return
<1> QED
  BY <1>1, <1>2, <1>3, <1>4, <1>5 DEF Step, Run

\* A planned note stays planned: positions, plans and accepted receipts do not change.
LEMMA PlannedStays ==
  ASSUME IInv, Next, NEW d \in Batches, ~Preparing(d), NEW p \in Papers,
         NEW i \in CommittedBy(d, plan[d].work[p]), PlannedNote(d, p, i)
  PROVE  PlannedNote(d, p, i)'
<1> DEFINE w == plan[d].work[p]
<1>1. plan'[d] = plan[d] /\ Kept(d)
  BY Others, PlanStep, ReceiptsKept DEF Same, Kept
<1>2. w \in Works /\ plan[d].n[p] \in 0..MaxChunks
  <2>1. plan[d] \in Plan
    BY DEF IInv, TypeOK
  <2> QED
    BY <2>1 DEF Plan
<1>3. i \in 1..Len(notes[w])
  BY DEF CommittedBy
<1>4. notes'[w][i] = notes[w][i]
  <2>1. CASE Appended
    BY <1>2, <1>3, <2>1, Grown DEF Appended, IInv
  <2> QED
    BY <2>1, NotesOnlyGrow
<1>5. \A c \in Planned(d, p), a \in Attempts : <<p, c, a>> \in Packets
  BY <1>2 DEF Planned, Packets
<1>6. \A c \in Planned(d, p), a \in Attempts :
        receipts[d][<<p, c, a>>].status = "accepted" =>
          /\ receipts'[d][<<p, c, a>>].status = "accepted"
          /\ receipts'[d][<<p, c, a>>].payload = receipts[d][<<p, c, a>>].payload
  BY <1>1, <1>5 DEF Kept, Consumed
<1>7. \A c \in Planned(d, p) : \E a \in Attempts :
        /\ receipts'[d][<<p, c, a>>].status = "accepted"
        /\ receipts'[d][<<p, c, a>>].payload = notes[w][i].text[c]
  <2> SUFFICES ASSUME NEW c \in Planned(d, p)
               PROVE  \E a \in Attempts :
                        /\ receipts'[d][<<p, c, a>>].status = "accepted"
                        /\ receipts'[d][<<p, c, a>>].payload = notes[w][i].text[c]
    BY Zenon
  <2>1. PICK a \in Attempts : /\ receipts[d][<<p, c, a>>].status = "accepted"
                              /\ receipts[d][<<p, c, a>>].payload = notes[w][i].text[c]
    BY Zenon DEF PlannedNote
  <2>2. /\ receipts'[d][<<p, c, a>>].status = "accepted"
        /\ receipts'[d][<<p, c, a>>].payload = notes[w][i].text[c]
    BY <1>6, <2>1
  <2> QED
    BY <2>2
<1> QED
  BY <1>1, <1>4, <1>7, ZenonT(30) DEF PlannedNote, Planned

\* The notes of a batch are its planned ones.
LEMMA NotesInv ==
  ASSUME IInv, Next
  PROVE  NotesOK'
<1> SUFFICES ASSUME NEW d \in Batches PROVE NotesAt(d)'
  BY DEF NotesOK
<1>0. NotesAt(d) /\ WriterAt(d) /\ ControlAt(d) /\ plan[d] \in Plan /\ \A p \in Papers : plan[d].work[p] \in Works
  <2>1. NotesAt(d) /\ WriterAt(d) /\ ControlAt(d) /\ plan[d] \in Plan
    BY DEF IInv, NotesOK, WriterOK, ControlOK, TypeOK
  <2> QED
    BY <2>1 DEF Plan
<1>1. /\ ~Preparing(d) => plan'[d] = plan[d] /\ ~Preparing(d)'
      /\ \A p \in Papers : plan'[d].work[p] \in Works
  <2>1. plan'[d] \in Plan
    BY NextType DEF TypeOK
  <2> QED
    BY <2>1, Others, PlanStep, PreparingOnce DEF Same, Preparing, Plan
<1>2. CASE ~Commit(d)
  <2>1. \A v \in Works : CommittedBy(d, v)' = CommittedBy(d, v)
    BY <1>2, OwnNotes
  <2>2. Preparing(d)' => \A w \in Works : CommittedBy(d, w)' = {}
    BY <1>0, <1>1, <2>1 DEF NotesAt
  <2>3. ASSUME NEW w \in Works, CommittedBy(d, w)' # {} PROVE \E p \in Papers : plan'[d].work[p] = w
    BY <1>0, <1>1, <2>1, <2>3 DEF NotesAt
  <2>4. ASSUME NEW p \in Papers, NEW i, i \in CommittedBy(d, plan[d].work[p])' PROVE PlannedNote(d, p, i)'
    <3>1. ~Preparing(d)
      BY <1>0, <1>1, <2>1, <2>4 DEF NotesAt
    <3>2. CommittedBy(d, plan[d].work[p])' = CommittedBy(d, plan[d].work[p])
      BY <1>0, <1>1, <2>1, <3>1
    <3>3. i \in CommittedBy(d, plan[d].work[p])
      BY <2>4, <3>2
    <3> QED
      BY <1>0, <3>1, <3>3, PlannedStays DEF NotesAt
  <2> QED
    BY <2>2, <2>3, <2>4 DEF NotesAt
<1>3. CASE Commit(d)
  <2> DEFINE w == plan[d].work[pos[d]]
  <2>0. pc[d] = "commit" /\ ~Preparing(d) /\ Step(d)
    BY <1>3 DEF Commit, Preparing, Step, Run
  <2>1. plan'[d] = plan[d] /\ ~Preparing(d)' /\ pos[d] \in Papers /\ w \in Works
    BY <1>0, <1>1, <2>0 DEF ControlAt
  <2>2. /\ NewNote(d) \in Note /\ NewNote(d).by = d
        /\ notes' = [notes EXCEPT ![w] = Append(@, NewNote(d))]
    BY <1>3, CommitNote DEF NewNote
  <2>3. /\ notes'[w][Len(notes[w]) + 1] = NewNote(d)
        /\ \A v \in Works : CommittedBy(d, v)' =
             IF v = w THEN CommittedBy(d, v) \cup {Len(notes[v]) + 1} ELSE CommittedBy(d, v)
    <3>1. \A e \in Batches, v \in Works :
            CommittedBy(e, v)' = IF v = w /\ NewNote(d).by = e
                                 THEN CommittedBy(e, v) \cup {Len(notes[v]) + 1}
                                 ELSE CommittedBy(e, v)
      BY <2>1, <2>2, Grown DEF IInv
    <3>2. notes'[w][Len(notes[w]) + 1] = NewNote(d)
      BY <2>1, <2>2, Grown DEF IInv
    <3> QED
      BY <2>2, <3>1, <3>2
  <2>4. ASSUME NEW v \in Works, CommittedBy(d, v)' # {} PROVE \E p \in Papers : plan'[d].work[p] = v
    BY <1>0, <2>1, <2>3, <2>4 DEF NotesAt
  <2>5. ASSUME NEW p \in Papers, NEW i, i \in CommittedBy(d, plan[d].work[p])' PROVE PlannedNote(d, p, i)'
    <3>1. CommittedBy(d, plan[d].work[p])' =
            IF plan[d].work[p] = w THEN CommittedBy(d, plan[d].work[p]) \cup {Len(notes[plan[d].work[p]]) + 1}
            ELSE CommittedBy(d, plan[d].work[p])
      BY <1>0, <2>1, <2>3
    <3>2. CASE i \in CommittedBy(d, plan[d].work[p])
      BY <1>0, <2>0, <3>2, PlannedStays DEF NotesAt
    <3>3. CASE plan[d].work[p] = w /\ i = Len(notes[w]) + 1
      <4>1. p = pos[d]
        BY <1>0, <2>0, <2>1, <3>3 DEF ControlAt
      <4>2. i = plan[d].expected[p] + 1
        BY <1>0, <2>0, <3>3, <4>1 DEF WriterAt, LatestNote
      <4>3. notes'[plan[d].work[p]][i] = NewNote(d)
        BY <2>3, <3>3
      <4>4. /\ Len(NewNote(d).text) = plan[d].n[p]
            /\ NewNote(d).md = plan[d].md[p]
            /\ \A c \in Planned(d, p) : \E a \in Attempts :
                 /\ receipts[d][<<p, c, a>>].status = "accepted"
                 /\ receipts[d][<<p, c, a>>].payload = NewNote(d).text[c]
        <5>1. /\ Len(NewNote(d).text) = plan[d].n[pos[d]]
              /\ \A c \in Planned(d, pos[d]) : \E a \in Attempts :
                   /\ receipts[d][<<pos[d], c, a>>].status = "accepted"
                   /\ receipts[d][<<pos[d], c, a>>].payload = NewNote(d).text[c]
          BY <1>3, CommitNote
        <5>2. NewNote(d).md = plan[d].md[pos[d]]
          BY DEF NewNote
        <5> QED
          BY <4>1, <5>1, <5>2
      <4>5. UNCHANGED receipts
        BY <1>3 DEF Commit, durable
      <4> QED
        BY <2>1, <4>2, <4>3, <4>4, <4>5 DEF PlannedNote, Planned
    <3> QED
      BY <2>5, <3>1, <3>2, <3>3
  <2> QED
    BY <2>1, <2>4, <2>5 DEF NotesAt
<1> QED
  BY <1>2, <1>3

-----------------------------------------------------------------------------
(* What a state calls accepted *)

\* Whatever st2 calls accepted st already did, with the same note.
AcceptedFrom(st, st2) ==
  \A p \in Papers : st2.papers[p].status = "accepted" =>
    st.papers[p].status = "accepted" /\ st2.papers[p].note = st.papers[p].note

\* Outside recovery and commit, memory calls no further paper accepted.
LEMMA MemAccepted ==
  ASSUME IInv, NEW b \in Batches, Step(b), ~Recover(b), ~Commit(b)
  PROVE  AcceptedFrom(mem[b], mem'[b]) \/ AcceptedFrom(disk[b], mem'[b])
<1> USE DEF IInv
<1>0. mem[b] \in State /\ disk[b] \in State /\ mem = [d \in Batches |-> mem[d]]
  BY DEF TypeOK
<1>1. ASSUME NEW st \in State, NEW p \in Papers, NEW ps, ps.status # "accepted"
      PROVE  AcceptedFrom(st, [st EXCEPT !.papers[p] = ps])
  BY <1>1 DEF State, AcceptedFrom
<1>2. ASSUME NEW st \in State, NEW p \in Papers
      PROVE  AcceptedFrom(st, [st EXCEPT !.papers[p].status = "failed"])
  BY <1>2 DEF State, Paper, AcceptedFrom
<1>3. ASSUME NEW st \in State, NEW v PROVE AcceptedFrom(st, [st EXCEPT !.paused = v])
  BY <1>3 DEF State, AcceptedFrom
<1>4. CASE mem'[b] = FreshState
  BY <1>4 DEF FreshState, FreshPaper, AcceptedFrom
<1>5. CASE mem'[b] = mem[b]
  BY <1>5 DEF AcceptedFrom
<1>6. CASE Prepare(b)
  <2>1. CASE PrepareSource(b)
    <3>1. pos[b] \in Papers
      BY <2>1 DEF PrepareSource, ControlOK, ControlAt
    <3>2. mem'[b] = mem[b] \/ mem'[b] = [mem[b] EXCEPT !.papers[pos[b]].status = "failed"]
      BY <1>0, <2>1 DEF PrepareSource
    <3> QED
      BY <1>0, <1>2, <1>5, <3>1, <3>2
  <2>2. CASE PrepareBind(b)
    <3>1. pos[b] \in Papers
      BY <2>2 DEF PrepareBind, ControlOK, ControlAt
    <3>2. PICK n : mem' = [mem EXCEPT ![b].papers[pos[b]] =
                       IF AlreadyCurrent(b, pos[b])
                       THEN [@ EXCEPT !.status = "preserved", !.note = plan[b].expected[pos[b]]]
                       ELSE [@ EXCEPT !.status = IF n = 0 THEN "failed" ELSE "pending"]]
      BY <2>2 DEF PrepareBind
    <3> DEFINE old == mem[b].papers[pos[b]]
               new == IF AlreadyCurrent(b, pos[b])
                      THEN [old EXCEPT !.status = "preserved", !.note = plan[b].expected[pos[b]]]
                      ELSE [old EXCEPT !.status = IF n = 0 THEN "failed" ELSE "pending"]
    <3>3. mem'[b] = [mem[b] EXCEPT !.papers[pos[b]] = new]
      BY <1>0, <3>2
    <3>4. old \in Paper
      BY <1>0, <3>1 DEF State
    <3>5. new.status # "accepted"
      BY <3>4 DEF Paper
    <3> HIDE DEF new
    <3> QED
      BY <1>0, <1>1, <3>1, <3>3, <3>5
  <2>3. CASE PreparePublish(b)
    BY <1>0, <1>4, <2>3 DEF PreparePublish, Return
  <2> QED
    BY <1>5, <1>6, <2>1, <2>2, <2>3 DEF Prepare, PrepareStart, PrepareExpect
<1>7. ASSUME NEW resume \in BOOLEAN, NEW retry \in BOOLEAN, NEW redact, NextCall(b, resume, retry, redact)
      PROVE  AcceptedFrom(disk[b], mem'[b])
  <2>1. ASSUME NEW st \in State PROVE AcceptedFrom(st, Retried(b, st))
    BY <2>1 DEF Retried, State, Paper, AcceptedFrom
  <2>2. [disk[b] EXCEPT !.paused = "no"] \in State
    BY <1>0, StatePaused
  <2>3. AcceptedFrom(disk[b], disk[b])
    BY DEF AcceptedFrom
  <2>4. AcceptedFrom(disk[b], [disk[b] EXCEPT !.paused = "no"])
    BY <1>0, <1>3
  <2> DEFINE loaded == IF resume THEN [disk[b] EXCEPT !.paused = "no"] ELSE disk[b]
  <2>5. mem'[b] = IF retry THEN Retried(b, loaded) ELSE loaded
    BY <1>0, <1>7 DEF NextCall
  <2>6. loaded \in State /\ AcceptedFrom(disk[b], loaded)
    BY <1>0, <2>2, <2>3, <2>4
  <2> HIDE DEF loaded
  <2>7. AcceptedFrom(loaded, Retried(b, loaded))
    BY <2>1, <2>6
  <2> QED
    BY <2>5, <2>6, <2>7 DEF AcceptedFrom
<1>8. ASSUME NEW k \in Packets, NEW x,
             SubmitReplay(b, k, x) \/ SubmitFailure(b, k, x) \/ SubmitInvalid(b, k)
      PROVE  AcceptedFrom(disk[b], mem'[b])
  <2>1. k[1] \in Papers
    BY DEF Packets
  <2>2. \/ mem'[b] = disk[b]
        \/ mem'[b] = [disk[b] EXCEPT !.paused = "session"]
        \/ mem'[b] = [disk[b] EXCEPT !.papers[k[1]].status = "failed"]
    BY <1>0, <1>8 DEF SubmitReplay, SubmitFailure, SubmitInvalid
  <2>3. AcceptedFrom(disk[b], disk[b])
    BY DEF AcceptedFrom
  <2>4. AcceptedFrom(disk[b], [disk[b] EXCEPT !.paused = "session"])
    BY <1>0, <1>3
  <2>5. AcceptedFrom(disk[b], [disk[b] EXCEPT !.papers[k[1]].status = "failed"])
    BY <1>0, <1>2, <2>1
  <2> QED
    BY <2>2, <2>3, <2>4, <2>5
<1>9. ASSUME NEW k \in Packets, NEW x \in Results, SubmitResult(b, k, x)
      PROVE  AcceptedFrom(disk[b], mem'[b])
  <2>1. mem'[b] = [disk[b] EXCEPT !.papers[k[1]].chunks[k[2]] = k[3]]
    BY <1>0, <1>9 DEF SubmitResult
  <2>2. mem'[b] = [disk[b] EXCEPT !.papers[k[1]] = [disk[b].papers[k[1]] EXCEPT !.chunks[k[2]] = k[3]]]
    BY <2>1
  <2> QED
    BY <1>0, <2>2 DEF State, Paper, AcceptedFrom
<1>10. CASE Host(b)
  BY <1>7, <1>8, <1>9, <1>10 DEF Host, Choice
<1>11. CASE Reconcile(b)
  <2> DEFINE p == pos[b]
  <2>1. p \in Papers
    BY <1>11 DEF Reconcile
  <2>2. mem'[b] = mem[b] \/ (Pending(b, p) /\ mem'[b] = Adopted(b, p))
    <3>1. CASE Pending(b, p)
      BY <1>0, <1>11, <3>1 DEF Reconcile
    <3>2. CASE ~Pending(b, p)
      BY <1>11, <3>2 DEF Reconcile
    <3> QED
      BY <3>1, <3>2
  <2>3. ASSUME Pending(b, p) PROVE AcceptedFrom(mem[b], Adopted(b, p))
    <3>1. \A q \in Papers : q # p => Adopted(b, p).papers[q] = mem[b].papers[q]
      BY <1>0, <2>1 DEF Adopted, State
    <3>2. mem[b].papers[p] \in Paper
      BY <1>0, <2>1 DEF State
    <3>3. Adopted(b, p).papers[p].status # "accepted"
      BY <1>0, <2>1, <2>3, <3>2 DEF Adopted, Pending, State, Paper
    <3> QED
      BY <3>1, <3>3 DEF AcceptedFrom
  <2> QED
    BY <1>5, <2>2, <2>3
<1>12. CASE Serve(b)
  <2>1. pos[b] \in Papers
    BY <1>12 DEF Serve
  <2>2. \/ mem'[b] = mem[b]
        \/ mem'[b] = [mem[b] EXCEPT !.paused = "access"]
        \/ mem'[b] = [mem[b] EXCEPT !.papers[pos[b]].status = "failed"]
    BY <1>0, <1>12, Zenon DEF Serve, ServePending
  <2> QED
    BY <1>0, <1>2, <1>3, <1>5, <2>1, <2>2
<1>13. ASSUME Activating(b), NEW s \in {"stale", "conflict"}, NEW n, Settle(b, s, n)
       PROVE  AcceptedFrom(mem[b], mem'[b])
  <2>1. pos[b] \in Papers
    BY <1>13 DEF ControlOK, ControlAt, Activating
  <2>2. mem[b].papers[pos[b]] \in Paper
    BY <1>0, <2>1 DEF State
  <2> DEFINE new == [mem[b].papers[pos[b]] EXCEPT !.status = s, !.note = n]
  <2>3. mem'[b] = [mem[b] EXCEPT !.papers[pos[b]] = new]
    BY <1>0, <1>13 DEF Settle
  <2>4. new.status # "accepted"
    BY <2>2 DEF Paper
  <2> HIDE DEF new
  <2> QED
    BY <1>0, <1>1, <2>1, <2>3, <2>4
<1>14. CASE CheckSource(b) \/ Begin(b) \/ Rollback(b)
  <2>1. Activating(b)
    BY <1>14 DEF CheckSource, Begin, Rollback, Activating
  <2>2. CASE CheckSource(b)
    BY <1>5, <1>13, <2>1, <2>2 DEF CheckSource
  <2>3. CASE Begin(b)
    BY <1>5, <1>13, <2>1, <2>3 DEF Begin
  <2>4. CASE Rollback(b)
    BY <1>13, <2>1, <2>4 DEF Rollback
  <2> QED
    BY <1>14, <2>2, <2>3, <2>4
<1>15. CASE Reconciled(b) \/ ServedAll(b) \/ WriteReceipt(b)
  BY <1>5, <1>15 DEF Reconciled, ServedAll, WriteReceipt
<1>16. CASE Checkpoint(b) \/ TornCheckpoint(b) \/ Crash(b)
  BY <1>0, <1>4, <1>16 DEF Checkpoint, TornCheckpoint, Crash, Return
<1> QED
  BY <1>6, <1>10, <1>11, <1>12, <1>14, <1>15, <1>16 DEF Step, Run

\* A state vouched for stays vouched for: plans are frozen and notes are never removed.
LEMMA VouchedInherited ==
  ASSUME IInv, Next, NEW d \in Batches, NEW st, Vouched(d, st), NEW st2, AcceptedFrom(st, st2),
         NEW p \in Papers, st2.papers[p].status = "accepted"
  PROVE  st2.papers[p].note \in CommittedBy(d, plan[d].work[p])'
<1> DEFINE i == st2.papers[p].note
<1>0. plan[d].work[p] \in Works
  <2>1. plan[d] \in Plan
    BY DEF IInv, TypeOK
  <2> QED
    BY <2>1 DEF Plan
<1>1. i \in CommittedBy(d, plan[d].work[p])
  BY DEF AcceptedFrom, Vouched
<1>2. ~Preparing(d)
  BY <1>0, <1>1 DEF IInv, NotesOK, NotesAt
<1>3. plan'[d] = plan[d]
  BY <1>2, Others, PlanStep DEF Same
<1>4. \A v \in Works : \A j \in CommittedBy(d, v) : j \in 1..Len(notes'[v]) /\ notes'[v][j].by = d
  <2>1. CASE notes' = notes
    BY <2>1 DEF CommittedBy
  <2>2. CASE Appended
    <3>1. \A v \in Works : \A j \in 1..Len(notes[v]) : j \in 1..Len(notes'[v]) /\ notes'[v][j] = notes[v][j]
      BY <2>2, Grown DEF Appended, IInv
    <3> QED
      BY <3>1 DEF CommittedBy
  <2> QED
    BY <2>1, <2>2, NotesOnlyGrow
<1>5. i \in 1..Len(notes'[plan[d].work[p]]) /\ notes'[plan[d].work[p]][i].by = d
  BY <1>0, <1>1, <1>4
<1> QED
  BY <1>3, <1>5 DEF CommittedBy

\* Accepted papers name a note their batch committed.
LEMMA AcceptedInv ==
  ASSUME IInv, Next
  PROVE  AcceptedOK'
<1> SUFFICES ASSUME NEW d \in Batches PROVE AcceptedAt(d)'
  BY DEF AcceptedOK
<1>0. Vouched(d, disk[d]) /\ Vouched(d, mem[d])
  BY DEF IInv, AcceptedOK, AcceptedAt
<1>1. ASSUME NEW st, Vouched(d, st), NEW st2, AcceptedFrom(st, st2)
      PROVE  \A p \in Papers : st2.papers[p].status = "accepted" =>
               st2.papers[p].note \in CommittedBy(d, plan[d].work[p])'
  BY <1>1, VouchedInherited
<1>2. AcceptedFrom(disk[d], disk[d]) /\ AcceptedFrom(mem[d], mem[d])
  BY DEF AcceptedFrom
<1>3. disk'[d] = disk[d] \/ disk'[d] = mem[d]
  BY Others, DiskStep DEF Same, IInv
<1>4. Vouched(d, disk[d])'
  <2>1. \A p \in Papers : disk'[d].papers[p].status = "accepted" =>
          disk'[d].papers[p].note \in CommittedBy(d, plan[d].work[p])'
    BY <1>0, <1>1, <1>2, <1>3
  <2> QED
    BY <2>1 DEF Vouched
<1>5. ASSUME \A p \in Papers : mem'[d].papers[p].status = "accepted" =>
               mem'[d].papers[p].note \in CommittedBy(d, plan[d].work[p])'
      PROVE  Vouched(d, mem[d])'
  BY <1>5 DEF Vouched
<1>6. CASE ~Step(d)
  <2>1. mem'[d] = mem[d]
    BY <1>6, Others DEF Same
  <2> QED
    BY <1>0, <1>1, <1>2, <1>4, <1>5, <2>1 DEF AcceptedAt
<1>7. CASE Step(d) /\ ~Recover(d) /\ ~Commit(d)
  <2>1. AcceptedFrom(mem[d], mem'[d]) \/ AcceptedFrom(disk[d], mem'[d])
    BY <1>7, MemAccepted
  <2> QED
    BY <1>0, <1>1, <1>4, <1>5, <2>1 DEF AcceptedAt
<1>8. CASE Recover(d) \/ Commit(d)
  <2> DEFINE w == plan[d].work[pos[d]]
  <2>0. /\ mem[d] \in State /\ plan[d] \in Plan /\ pos[d] \in Papers
        /\ \A p, q \in Papers : plan[d].work[p] = plan[d].work[q] => p = q
        /\ UNCHANGED plan
    <3>1. ControlAt(d) /\ mem[d] \in State /\ plan[d] \in Plan
      BY DEF IInv, TypeOK, ControlOK
    <3> QED
      BY <1>8, <3>1, Zenon DEF Recover, Commit, ControlAt, durable
  <2>1. w \in Works /\ notes[w] \in Seq(Note)
    <3>1. w \in Works
      BY <2>0 DEF Plan
    <3> QED
      BY <3>1 DEF IInv, TypeOK
  <2>2. \E i : Settle(d, "accepted", i) /\ i \in 1..Len(notes'[w]) /\ notes'[w][i].by = d
    <3>1. CASE Recover(d)
      <4>1. PICK i \in CommittedBy(d, w) : Settle(d, "accepted", i)
        BY <3>1 DEF Recover
      <4>2. UNCHANGED notes
        BY <3>1 DEF Recover, project
      <4> QED
        BY <4>1, <4>2 DEF CommittedBy
    <3>2. CASE Commit(d)
      <4>1. Settle(d, "accepted", Len(notes[w]) + 1)
        BY <3>2 DEF Commit, LatestNote
      <4>2. /\ NewNote(d) \in Note /\ NewNote(d).by = d
            /\ notes' = [notes EXCEPT ![w] = Append(@, NewNote(d))]
        BY <3>2, CommitNote DEF NewNote
      <4>3. notes'[w][Len(notes[w]) + 1] = NewNote(d) /\ Len(notes'[w]) = Len(notes[w]) + 1
        BY <2>1, <4>2, Grown DEF IInv
      <4>4. Len(notes[w]) \in Nat
        BY <2>1
      <4>5. notes'[w][Len(notes[w]) + 1].by = d
        BY <4>2, <4>3
      <4>6. Len(notes[w]) + 1 \in 1..Len(notes'[w])
        BY <4>3, <4>4
      <4> QED
        BY <4>1, <4>5, <4>6
    <3> QED
      BY <1>8, <3>1, <3>2
  <2>3. PICK i : Settle(d, "accepted", i) /\ i \in 1..Len(notes'[w]) /\ notes'[w][i].by = d
    BY <2>2
  <2> DEFINE new == [mem[d].papers[pos[d]] EXCEPT !.status = "accepted", !.note = i]
  <2>4. mem'[d] = [mem[d] EXCEPT !.papers[pos[d]] = new]
    BY <2>3 DEF Settle, IInv, TypeOK
  <2>5. new.note = i
    <3>1. mem[d].papers[pos[d]] \in Paper
      BY <2>0 DEF State
    <3> QED
      BY <3>1 DEF Paper
  <2> HIDE DEF new
  <2>6. \A p \in Papers : mem'[d].papers[p] = IF p = pos[d] THEN new ELSE mem[d].papers[p]
    BY <2>0, <2>4 DEF State
  <2>7. ASSUME NEW p \in Papers, mem'[d].papers[p].status = "accepted"
        PROVE  mem'[d].papers[p].note \in CommittedBy(d, plan[d].work[p])'
    <3>1. CASE p = pos[d]
      <4>1. mem'[d].papers[p].note = i /\ plan'[d].work[p] = w
        BY <2>0, <2>5, <2>6, <3>1
      <4> QED
        BY <2>3, <4>1 DEF CommittedBy
    <3>2. CASE p # pos[d]
      BY <1>0, <1>1, <1>2, <2>6, <2>7, <3>2
    <3> QED
      BY <3>1, <3>2
  <2> QED
    BY <1>4, <1>5, <2>7 DEF AcceptedAt
<1> QED
  BY <1>6, <1>7, <1>8 DEF Step, Run

-----------------------------------------------------------------------------
(* The inductive invariant, and what follows from it *)

\* IInv survives every step.
LEMMA NextInv == ASSUME IInv, Next PROVE IInv'
<1>1. TypeOK'
  BY NextType
<1>2. ReceiptsOK' /\ ChunksOK' /\ ControlOK'
  <2> SUFFICES ASSUME NEW d \in Batches PROVE ReceiptsAt(d)' /\ ChunksAt(d)' /\ ControlAt(d)'
    BY DEF ReceiptsOK, ChunksOK, ControlOK
  <2>1. CASE Step(d)
    BY <2>1, ReceiptsStep, ChunksStep, ControlStep
  <2>2. CASE ~Step(d)
    <3>1. Same(d)
      BY <2>2, Others
    <3>2. ReceiptsAt(d) /\ ChunksAt(d) /\ ControlAt(d)
      BY DEF IInv, ReceiptsOK, ChunksOK, ControlOK
    <3>3. ReceiptsAt(d)'
      BY <3>1, <3>2 DEF Same, ReceiptsAt
    <3>4. ChunksAt(d)'
      BY <3>1, <3>2 DEF Same, ChunksAt, Backed
    <3>5. ControlAt(d)'
      BY <3>1, <3>2 DEF Same, ControlAt, Activating, Planned
    <3> QED
      BY <3>3, <3>4, <3>5
  <2> QED
    BY <2>1, <2>2
<1>3. WriterOK' /\ NotesOK' /\ AcceptedOK'
  BY WriterInv, NotesInv, AcceptedInv
<1> QED
  BY <1>1, <1>2, <1>3 DEF IInv

\* The inductive invariant holds in every reachable state, for any number of batches,
\* works, chunks and attempts and whatever the other processes do.
THEOREM Inductive == Spec => []IInv
<1>1. IInv /\ [Next]_vars => IInv'
  BY NextInv, StutterInv
<1> QED
  BY InitOK, <1>1, PTL DEF Spec

\* Every record the three stores keep stays well-formed.
THEOREM TypeCorrect == Spec => []TypeOK
<1>1. IInv => TypeOK
  BY DEF IInv
<1> QED
  BY <1>1, Inductive, PTL

\* Compare-and-activate, for every interleaving of batches, crashes and API runs: a
\* batch's note directly follows the note current at prepare, on the frozen text.
THEOREM FollowsExpected == Spec => []NoteFollowsExpected
<1>1. IInv => NoteFollowsExpected
  <2> SUFFICES ASSUME IInv, NEW b \in Batches, NEW p \in Papers,
                      NEW i \in CommittedBy(b, plan[b].work[p])
               PROVE  /\ i = plan[b].expected[p] + 1
                      /\ notes[plan[b].work[p]][i].md = plan[b].md[p]
    BY DEF NoteFollowsExpected
  <2>1. PlannedNote(b, p, i)
    BY DEF IInv, NotesOK, NotesAt
  <2> QED
    BY <2>1, Zenon DEF PlannedNote
<1> QED
  BY <1>1, Inductive, PTL

\* At most one note per batch and work: a second one would have the same position.
THEOREM AtMostOneNote == Spec => []OneNotePerBatch
<1>1. IInv => OneNotePerBatch
  <2> SUFFICES ASSUME IInv, NEW b \in Batches, NEW w \in Works,
                      NEW i \in CommittedBy(b, w), NEW j \in CommittedBy(b, w)
               PROVE  i = j
    BY DEF OneNotePerBatch
  <2>1. NotesAt(b)
    BY DEF IInv, NotesOK
  <2>2. PICK p \in Papers : plan[b].work[p] = w
    BY <2>1 DEF NotesAt
  <2>3. PlannedNote(b, p, i) /\ PlannedNote(b, p, j)
    BY <2>1, <2>2 DEF NotesAt
  <2> QED
    BY <2>3, Zenon DEF PlannedNote
<1> QED
  BY <1>1, Inductive, PTL

\* A committed note is exactly the accepted receipts of its chunks.
THEOREM NothingLost == Spec => []NoteIsItsReceipts
<1>1. IInv => NoteIsItsReceipts
  BY SMTT(30) DEF IInv, NotesOK, NotesAt, PlannedNote, NoteIsItsReceipts
<1> QED
  BY <1>1, Inductive, PTL

\* The checkpoint never claims a note the database lacks.
THEOREM CheckpointHonest == Spec => []AcceptedHasNote
<1>1. IInv => AcceptedHasNote
  BY DEF IInv, AcceptedOK, AcceptedAt, Vouched, AcceptedHasNote
<1> QED
  BY <1>1, Inductive, PTL

\* The checkpoint never counts a chunk whose accepted receipt is missing.
THEOREM ChunksBacked == Spec => []ChunksAreReceipted
<1>1. IInv => ChunksAreReceipted
  BY DEF IInv, ChunksOK, ChunksAt, Backed, ChunksAreReceipted
<1> QED
  BY <1>1, Inductive, PTL

\* Replays, retries, resumes and crashes never change what a packet was consumed with.
THEOREM ConsumedOnce == Spec => ConsumedForever
<1> DEFINE Unchanged == \A b \in Batches, k \in Packets :
       Consumed(receipts[b][k]) =>
         /\ receipts'[b][k].status = receipts[b][k].status
         /\ receipts'[b][k].payload = receipts[b][k].payload
<1>1. IInv /\ [Next]_vars => [Unchanged]_vars
  <2> SUFFICES ASSUME IInv, Next, NEW b \in Batches PROVE Kept(b)
    BY DEF Kept
  <2>1. CASE Step(b)
    BY <2>1, ReceiptsKept
  <2>2. CASE ~Step(b)
    BY <2>2, Others DEF Same, Kept
  <2> QED
    BY <2>1, <2>2
<1>2. [][Unchanged]_vars => ConsumedForever
  BY DEF ConsumedForever
<1> HIDE DEF Unchanged
<1> QED
  BY <1>1, <1>2, Inductive, PTL DEF Spec

-----------------------------------------------------------------------------
(* A call, from its first read to its checkpoint *)

\* What kind of call stands where, and that a call starts at the first paper.
CallAt(b) ==
  /\ pc[b] \in {"new", "idle"} => pos[b] = 1
  /\ pc[b] = "reconcile" => call[b].op \in {"next", "replay"}
  /\ pc[b] = "serve" => call[b].op = "next"
  /\ Activating(b) => call[b].op \in {"next", "replay", "submit"}
  /\ call[b].op = "next" /\ pc[b] # "checkpoint" => call[b].packet = NoPacket

\* A pending paper the call has reconciled misses a chunk, and no receipt of a
\* missing chunk is consumed.
Clear(b, q) ==
  Pending(b, q) =>
    /\ Missing(b, q) # {}
    /\ \A c \in Missing(b, q) : ~Consumed(ReceiptOf(b, q, c))

QueueAt(b) ==
  /\ Activating(b) => Pending(b, pos[b])
  /\ pc[b] = "reconcile" \/ (Activating(b) /\ call[b].op # "submit") =>
       \A q \in Papers : q < pos[b] => Clear(b, q)
  /\ pc[b] = "serve" =>
       /\ mem[b].paused = "no"
       /\ \A q \in Papers : Clear(b, q) /\ (q < pos[b] => ~Pending(b, q))
  /\ pc[b] = "checkpoint" /\ call[b].op = "next" /\ call[b].packet # NoPacket =>
       /\ call[b].packet \in Packets
       /\ ~Consumed(receipts[b][call[b].packet])
       /\ mem[b].paused = "no"
       /\ \A q \in Papers : q < call[b].packet[1] => ~Pending(b, q)
  /\ pc[b] = "checkpoint" /\ call[b].event = "finished" =>
       mem[b].paused = "no" /\ \A q \in Papers : ~Pending(b, q)

\* What a call may make of a paper of the checkpoint.
Advanced(old, new) ==
  /\ old.status \in {"preserved", "accepted", "stale", "conflict"} => new = old
  /\ old.status = "failed" /\ new.status # "failed" => new.attempt = old.attempt + 1
  /\ \A c \in Chunks : old.chunks[c] # 0 => new.chunks[c] = old.chunks[c]

AdvanceAt(b) ==
  ~Preparing(b) /\ pc[b] # "idle" =>
    \A p \in Papers : Advanced(disk[b].papers[p], mem[b].papers[p])

\* Papers prepare_batch has not reached yet have no expected note.
Unreached(b, q) ==
  \/ pc[b] = "new"
  \/ pc[b] = "expect" /\ pos[b] <= q
  \/ pc[b] \in {"source", "bind"} /\ pos[b] < q
ExpectAt(b) == \A q \in Papers : Unreached(b, q) => plan[b].expected[q] = -1

CallsAt(b) == CallAt(b) /\ QueueAt(b) /\ AdvanceAt(b) /\ ExpectAt(b)
CallsOK == \A b \in Batches : CallsAt(b)

\* The serving loop at one paper: it passes it, stops there, or hands out a packet.
Passes(b) ==
  /\ UNCHANGED <<pc, call>> /\ pos' = [pos EXCEPT ![b] = @ + 1]
  /\ \/ Pending(b, pos[b]) /\ mem' = [mem EXCEPT ![b].papers[pos[b]].status = "failed"]
     \/ mem' = mem /\ (Pending(b, pos[b]) => Missing(b, pos[b]) = {})
Stops(b) ==
  /\ pc' = [pc EXCEPT ![b] = "checkpoint"] /\ UNCHANGED pos
  /\ \/ UNCHANGED mem /\ call' = [call EXCEPT ![b].event = "awaiting_host"]
     \/ mem' = [mem EXCEPT ![b].paused = "access"] /\ call' = [call EXCEPT ![b].event = "paused"]
Permitted(b) ==
  LET f == plan[b].file[pos[b]]
  IN Allowed(f, plan[b].confirm) /\ (call[b].redact => f \notin private)
Hands(b) ==
  /\ pc' = [pc EXCEPT ![b] = "checkpoint"] /\ UNCHANGED <<mem, pos>> /\ Pending(b, pos[b]) /\ Permitted(b)
  /\ \E c \in Missing(b, pos[b]) : call' =
       [call EXCEPT ![b] = [@ EXCEPT !.event = "awaiting_host", !.packet = Packet(b, pos[b], c)]]

\* One round of the serving loop is one of the three.
LEMMA ServeCases ==
  ASSUME TypeOK, NEW b \in Batches, Serve(b)
  PROVE  /\ pc[b] = "serve" /\ pos[b] \in Papers /\ UNCHANGED <<plan, disk, receipts>>
         /\ Passes(b) \/ Stops(b) \/ Hands(b)
<1> DEFINE p == pos[b]
           f == plan[b].file[p]
           m == plan[b].md[p]
           served(c) == [call EXCEPT ![b] = [@ EXCEPT !.event = "awaiting_host", !.packet = Packet(b, p, c)]]
<1>0. pc[b] = "serve" /\ p \in Papers /\ UNCHANGED <<plan, disk, receipts>>
  BY DEF Serve, durable
<1>1. CASE ~Pending(b, p)
  BY <1>0, <1>1 DEF Serve, Passes
<1>2. CASE Pending(b, p) /\ (m \in unreadable \/ ~Proven(f, m))
  <2>1. /\ mem' = [mem EXCEPT ![b].papers[p].status = "failed"]
        /\ pos' = [pos EXCEPT ![b] = @ + 1] /\ UNCHANGED <<pc, call>>
    BY <1>2, Zenon DEF Serve, ServePending
  <2> QED BY <1>0, <1>2, <2>1 DEF Passes
<1>3. CASE Pending(b, p) /\ ~(m \in unreadable \/ ~Proven(f, m)) /\ call[b].redact /\ f \in private
  <2>1. Finish(b, "awaiting_host") /\ UNCHANGED <<mem, pos>>
    BY <1>3, Zenon DEF Serve, ServePending
  <2> QED BY <1>0, <1>3, <2>1 DEF Finish, Stops
<1>4. CASE Pending(b, p) /\ ~(m \in unreadable \/ ~Proven(f, m)) /\ ~(call[b].redact /\ f \in private)
           /\ ~Allowed(f, plan[b].confirm)
  <2>1. mem' = [mem EXCEPT ![b].paused = "access"] /\ Finish(b, "paused") /\ UNCHANGED pos
    BY <1>4, Zenon DEF Serve, ServePending
  <2> QED BY <1>0, <1>4, <2>1 DEF Finish, Stops
<1>5. CASE Pending(b, p) /\ ~(m \in unreadable \/ ~Proven(f, m)) /\ ~(call[b].redact /\ f \in private)
           /\ Allowed(f, plan[b].confirm)
  <2>1. IF Missing(b, p) = {}
        THEN pos' = [pos EXCEPT ![b] = @ + 1] /\ UNCHANGED <<mem, pc, call>>
        ELSE \E c \in Missing(b, p) :
               /\ pc' = [pc EXCEPT ![b] = "checkpoint"]
               /\ call' = served(c)
               /\ UNCHANGED <<mem, pos>>
    BY <1>5, ZenonT(30) DEF Serve, ServePending
  <2> HIDE DEF served
  <2>2. CASE Missing(b, p) = {}
    BY <1>0, <1>5, <2>1, <2>2 DEF Passes
  <2>3. CASE Missing(b, p) # {}
    <3>1. PICK c \in Missing(b, p) :
            pc' = [pc EXCEPT ![b] = "checkpoint"] /\ call' = served(c) /\ UNCHANGED <<mem, pos>>
      BY <2>1, <2>3
    <3>2. \E e \in Missing(b, p) : call' = served(e)
      BY <3>1
    <3> USE DEF served
    <3> QED BY <1>0, <1>5, <3>1, <3>2 DEF Hands, Permitted
  <2> QED BY <2>2, <2>3
<1> QED BY <1>1, <1>2, <1>3, <1>4, <1>5

\* Who calls what, step by step.
LEMMA CallStep ==
  ASSUME IInv, NEW b \in Batches, CallAt(b), Step(b)
  PROVE  CallAt(b)'
<1> USE DEF IInv
<1>0. /\ call[b] \in Call /\ call = [d \in Batches |-> call[d]] /\ pc = [d \in Batches |-> pc[d]]
      /\ pos = [d \in Batches |-> pos[d]] /\ NoCall.op = "none" /\ NoCall.packet = NoPacket
  BY DEF TypeOK, NoCall
<1>1. CASE Prepare(b)
  <2>1. /\ call'[b] = call[b] \/ call'[b] = NoCall
        /\ pc'[b] \in {"expect", "source", "bind", "publish", "idle"}
        /\ pc'[b] = "idle" => pos'[b] = 1
    BY <1>0, <1>1, Zenon DEF Prepare, PrepareStart, PrepareExpect, PrepareSource, PrepareBind, PreparePublish,
                    NextPaper, Return
  <2>2. pc[b] \in {"new", "expect", "source", "bind", "publish"}
    BY <1>1, Zenon DEF Prepare, PrepareStart, PrepareExpect, PrepareSource, PrepareBind, PreparePublish
  <2> QED BY <1>0, <2>1, <2>2 DEF CallAt, Activating
<1>2. CASE Host(b)
  <2>1. ASSUME NEW resume, NEW retry, NEW redact, NextCall(b, resume, retry, redact)
        PROVE  call'[b].op = "next" /\ call'[b].packet = NoPacket /\ pc'[b] = "reconcile"
    <3>1. call'[b] = [NoCall EXCEPT !.op = "next", !.redact = redact] /\ pc'[b] = "reconcile"
      BY <1>0, <2>1 DEF NextCall
    <3> QED BY <3>1 DEF NoCall
  <2>2. ASSUME NEW k, NEW op, NEW step, NEW r, Enter(b, k, op, step, r)
        PROVE  call'[b].op = op /\ pc'[b] = step
    <3>1. call'[b] = [NoCall EXCEPT !.op = op, !.packet = k, !.receipt = r] /\ pc'[b] = step
      BY <1>0, <2>2 DEF Enter
    <3> QED BY <3>1 DEF NoCall
  <2>3. ASSUME NEW k, NEW x, SubmitReplay(b, k, x)
        PROVE  call'[b].op = "replay" /\ pc'[b] = "reconcile"
    BY <2>2, <2>3 DEF SubmitReplay
  <2>4. ASSUME NEW k, NEW x, SubmitResult(b, k, x) \/ SubmitFailure(b, k, x) \/ SubmitInvalid(b, k)
        PROVE  call'[b].op = "submit" /\ pc'[b] \in {"receipt", "activate"}
    BY <2>2, <2>4 DEF SubmitResult, SubmitFailure, SubmitInvalid
  <2> QED BY <1>2, <2>1, <2>3, <2>4 DEF Host, CallAt, Activating
<1>3. CASE Reconcile(b)
  BY <1>0, <1>3 DEF Reconcile, CallAt, Activating
<1>4. CASE Reconciled(b)
  <2>1. call'[b].op = call[b].op /\ (pc'[b] = "serve" => call[b].op # "replay" /\ call'[b] = call[b])
        /\ pc'[b] \in {"serve", "checkpoint"}
    BY <1>0, <1>4 DEF Reconciled, Finish, Call
  <2> QED BY <1>4, <2>1 DEF CallAt, Activating, Reconciled
<1>5. CASE Serve(b) \/ ServedAll(b)
  <2>1. call'[b].op = call[b].op /\ pc'[b] \in {"serve", "checkpoint"} /\ (pc'[b] = "serve" => call'[b] = call[b])
    <3>1. CASE ServedAll(b)
      BY <1>0, <3>1 DEF ServedAll, Finish, Call
    <3>2. CASE Serve(b) /\ Passes(b)
      BY <3>2 DEF Serve, Passes
    <3>3. CASE Stops(b) \/ Hands(b)
      <4>1. ASSUME NEW k, call' = [call EXCEPT ![b] = [@ EXCEPT !.event = "awaiting_host", !.packet = k]]
            PROVE  call'[b].op = call[b].op
        BY <1>0, <4>1 DEF Call
      <4>2. pc'[b] = "checkpoint"
        BY <1>0, <3>3 DEF Stops, Hands
      <4>3. CASE Stops(b)
        BY <1>0, <4>2, <4>3 DEF Call, Stops
      <4>4. CASE Hands(b)
        BY <4>1, <4>2, <4>4 DEF Hands
      <4> QED BY <3>3, <4>3, <4>4
    <3> QED BY <1>5, <3>1, <3>2, <3>3, ServeCases
  <2> QED BY <1>5, <2>1 DEF CallAt, Activating, Serve, ServedAll
<1>6. CASE WriteReceipt(b)
  BY <1>0, <1>6 DEF WriteReceipt, Finish, CallAt, Activating
<1>7. CASE Recover(b) \/ CheckSource(b) \/ Begin(b) \/ Commit(b) \/ Rollback(b)
  <2>0. Activating(b) /\ ((pc'[b] \in {"begin", "commit"} /\ UNCHANGED call) \/ \E s, n : Settle(b, s, n))
    BY <1>0, <1>7, ZenonT(30) DEF Recover, CheckSource, Begin, Commit, Rollback, Activating
  <2>1. /\ call[b].op = call'[b].op /\ call'[b].packet = call[b].packet /\ Activating(b)
        /\ pc'[b] \in {"begin", "commit"} \/ pc'[b] = IF call[b].op = "submit" THEN "receipt" ELSE "reconcile"
    BY <1>0, <2>0 DEF Settle, Call
  <2> QED BY <2>1 DEF CallAt, Activating
<1>8. CASE Checkpoint(b) \/ TornCheckpoint(b) \/ Crash(b)
  BY <1>0, <1>8 DEF Checkpoint, TornCheckpoint, Crash, Return, CallAt, Activating
<1> QED
  BY <1>1, <1>2, <1>3, <1>4, <1>5, <1>6, <1>7, <1>8 DEF Step, Run

-----------------------------------------------------------------------------
(* What a call makes of the papers it holds in memory *)

\* One paper of a state is replaced, the rest stays.
Replaced(st, new, p, x) ==
  /\ new.paused = st.paused /\ new.papers[p] = x
  /\ \A q \in Papers : q # p => new.papers[q] = st.papers[q]

\* Updates of one paper, as the actions write them.
LEMMA PaperUpdate ==
  ASSUME NEW st \in State, NEW p \in Papers, NEW x
  PROVE  Replaced(st, [st EXCEPT !.papers[p] = x], p, x)
BY DEF State, Replaced

\* A paper that fails keeps the rest of its state.
LEMMA FailedUpdate ==
  ASSUME NEW st \in State, NEW p \in Papers
  PROVE  Replaced(st, [st EXCEPT !.papers[p].status = "failed"], p, [st.papers[p] EXCEPT !.status = "failed"])
<1>1. [st EXCEPT !.papers[p].status = "failed"] = [st EXCEPT !.papers[p] = [st.papers[p] EXCEPT !.status = "failed"]]
  OBVIOUS
<1> QED BY <1>1, PaperUpdate

\* Settling touches the paper at hand only.
LEMMA SettleUpdate ==
  ASSUME TypeOK, NEW b \in Batches, NEW s, NEW n, pos[b] \in Papers, Settle(b, s, n)
  PROVE  Replaced(mem[b], mem'[b], pos[b], [mem[b].papers[pos[b]] EXCEPT !.status = s, !.note = n])
<1>1. mem[b] \in State /\ mem = [d \in Batches |-> mem[d]]
  BY DEF TypeOK
<1>2. mem'[b] = [mem[b] EXCEPT !.papers[pos[b]] = [mem[b].papers[pos[b]] EXCEPT !.status = s, !.note = n]]
  BY <1>1 DEF Settle
<1> QED BY <1>1, <1>2, PaperUpdate

\* Within a call a paper that is not pending stays as it is, and a pending one
\* keeps its attempt and its chunks.
Holds(old, new) ==
  /\ old.status # "pending" => new = old
  /\ new.attempt = old.attempt
  /\ \A c \in Chunks : old.chunks[c] # 0 => new.chunks[c] = old.chunks[c]

\* A new status is all that settling or failing a pending paper changes.
LEMMA StatusHolds ==
  ASSUME NEW ps \in Paper, ps.status = "pending", NEW s, NEW n
  PROVE  Holds(ps, [ps EXCEPT !.status = s]) /\ Holds(ps, [ps EXCEPT !.status = s, !.note = n])
BY DEF Paper, Holds

\* What Adopted does to its paper.
LEMMA AdoptedUpdate ==
  ASSUME TypeOK, NEW b \in Batches, NEW p \in Papers
  PROVE  LET ps == mem[b].papers[p]
             new == Adopted(b, p).papers[p]
             failed == \E c \in Missing(b, p) : ReceiptOf(b, p, c).status = "failed"
         IN /\ \A q \in Papers : q # p => Adopted(b, p).papers[q] = mem[b].papers[q]
            /\ new.attempt = ps.attempt
            /\ new.status = IF failed THEN "failed" ELSE ps.status
            /\ new.note = ps.note
            /\ \A c \in Chunks : c \notin Missing(b, p) => new.chunks[c] = ps.chunks[c]
            /\ ~failed => \A c \in Missing(b, p) :
                 new.chunks[c] = IF ReceiptOf(b, p, c).status = "accepted" THEN ps.attempt ELSE ps.chunks[c]
<1> DEFINE ps == mem[b].papers[p]
           failed == {c \in Missing(b, p) : ReceiptOf(b, p, c).status = "failed"}
           seen   == {c \in Missing(b, p) : \A d \in failed : c < d}
           ok     == {c \in seen : ReceiptOf(b, p, c).status = "accepted"}
           halted == \E c \in seen : ReceiptOf(b, p, c).status = "paused"
           new == [ps EXCEPT !.status = IF failed # {} THEN "failed" ELSE @,
                             !.chunks = [c \in Chunks |-> IF c \in ok THEN ps.attempt ELSE ps.chunks[c]]]
<1>1. mem[b] \in State /\ ps \in Paper /\ Planned(b, p) \subseteq Chunks
  <2>1. mem[b] \in State /\ plan[b] \in Plan
    BY DEF TypeOK
  <2>2. plan[b].n[p] \in 0..MaxChunks
    BY <2>1 DEF Plan
  <2>3. Planned(b, p) \subseteq Chunks
    BY <2>2 DEF Planned
  <2> QED BY <2>1, <2>3 DEF State
<1>2. Adopted(b, p) = [mem[b] EXCEPT !.paused = IF halted THEN "session" ELSE @, !.papers[p] = new]
  BY DEF Adopted
<1>3. Adopted(b, p).papers[p] = new /\ \A q \in Papers : q # p => Adopted(b, p).papers[q] = mem[b].papers[q]
  <2> HIDE DEF new, halted
  <2> QED BY <1>1, <1>2 DEF State
<1>4. Missing(b, p) \subseteq Chunks /\ ok \subseteq Missing(b, p)
      /\ (failed = {} => \A c \in Missing(b, p) : c \in ok <=> ReceiptOf(b, p, c).status = "accepted")
  BY <1>1 DEF Missing
<1>5. /\ new.attempt = ps.attempt /\ new.note = ps.note
      /\ new.status = IF failed # {} THEN "failed" ELSE ps.status
      /\ \A c \in Chunks : new.chunks[c] = IF c \in ok THEN ps.attempt ELSE ps.chunks[c]
  <2> HIDE DEF ok, failed, seen
  <2> QED BY <1>1 DEF Paper
<1>6. (failed # {}) <=> \E c \in Missing(b, p) : ReceiptOf(b, p, c).status = "failed"
  OBVIOUS
<1> HIDE DEF ok, failed, seen, halted, new
<1> QED BY <1>3, <1>4, <1>5, <1>6

\* Steps of a call, between its start and its end.
LEMMA PapersHold ==
  ASSUME IInv, NEW b \in Batches, QueueAt(b), Run(b), pc'[b] # "idle"
  PROVE  disk'[b] = disk[b] /\ \A p \in Papers : Holds(mem[b].papers[p], mem'[b].papers[p])
<1> USE DEF IInv
<1>0. /\ mem[b] \in State /\ mem = [d \in Batches |-> mem[d]] /\ pc = [d \in Batches |-> pc[d]]
      /\ \A p \in Papers : mem[b].papers[p] \in Paper /\ Holds(mem[b].papers[p], mem[b].papers[p])
  BY DEF TypeOK, State, Holds
<1>1. CASE Reconcile(b)
  <2>1. pos[b] \in Papers /\ disk' = disk
    BY <1>1 DEF Reconcile, durable
  <2>2. CASE ~Pending(b, pos[b])
    BY <1>0, <1>1, <2>1, <2>2 DEF Reconcile
  <2>3. CASE Pending(b, pos[b])
    <3>1. mem'[b] = Adopted(b, pos[b])
      BY <1>0, <1>1, <2>3 DEF Reconcile
    <3>2. \A c \in Chunks : mem[b].papers[pos[b]].chunks[c] # 0 => c \notin Missing(b, pos[b])
      BY DEF Missing
    <3>3. Holds(mem[b].papers[pos[b]], mem'[b].papers[pos[b]])
      BY <2>1, <2>3, <3>1, <3>2, AdoptedUpdate DEF Holds, Pending
    <3> QED BY <1>0, <2>1, <3>1, <3>3, AdoptedUpdate
  <2> QED BY <2>2, <2>3
<1>2. CASE Reconciled(b) \/ ServedAll(b) \/ WriteReceipt(b)
  BY <1>0, <1>2 DEF Reconciled, ServedAll, WriteReceipt, durable
<1>3. CASE Serve(b)
  <2>1. pos[b] \in Papers /\ disk' = disk
    BY <1>3, ServeCases
  <2>2. \/ mem' = mem
        \/ Pending(b, pos[b]) /\ mem' = [mem EXCEPT ![b].papers[pos[b]].status = "failed"]
        \/ mem' = [mem EXCEPT ![b].paused = "access"]
    BY <1>3, ServeCases DEF Passes, Stops, Hands
  <2>3. CASE Pending(b, pos[b]) /\ mem' = [mem EXCEPT ![b].papers[pos[b]].status = "failed"]
    <3>1. mem'[b] = [mem[b] EXCEPT !.papers[pos[b]].status = "failed"]
      BY <1>0, <2>3
    <3>2. Replaced(mem[b], mem'[b], pos[b], [mem[b].papers[pos[b]] EXCEPT !.status = "failed"])
      BY <1>0, <2>1, <3>1, FailedUpdate
    <3>3. Holds(mem[b].papers[pos[b]], [mem[b].papers[pos[b]] EXCEPT !.status = "failed"])
      BY <1>0, <2>1, <2>3, StatusHolds DEF Pending
    <3> QED BY <1>0, <2>1, <3>2, <3>3 DEF Replaced
  <2>4. CASE mem' = [mem EXCEPT ![b].paused = "access"]
    BY <1>0, <2>1, <2>4 DEF State
  <2> QED BY <1>0, <2>1, <2>2, <2>3, <2>4
<1>4. CASE Recover(b) \/ CheckSource(b) \/ Begin(b) \/ Commit(b) \/ Rollback(b)
  <2>1. /\ Activating(b) /\ disk' = disk /\ pos[b] \in Papers
        /\ mem' = mem \/ \E s, n : Settle(b, s, n)
    <3>1. Activating(b) /\ disk' = disk /\ (mem' = mem \/ \E s, n : Settle(b, s, n))
      BY <1>4, ZenonT(30) DEF Recover, CheckSource, Begin, Commit, Rollback, durable, Activating
    <3> QED BY <3>1 DEF ControlOK, ControlAt, Activating
  <2>2. Pending(b, pos[b])
    BY <2>1 DEF QueueAt
  <2>3. ASSUME NEW s, NEW n, Settle(b, s, n)
        PROVE  \A p \in Papers : Holds(mem[b].papers[p], mem'[b].papers[p])
    <3>1. Replaced(mem[b], mem'[b], pos[b], [mem[b].papers[pos[b]] EXCEPT !.status = s, !.note = n])
      BY <2>1, <2>3, SettleUpdate
    <3>2. Holds(mem[b].papers[pos[b]], [mem[b].papers[pos[b]] EXCEPT !.status = s, !.note = n])
      BY <1>0, <2>1, <2>2, StatusHolds DEF Pending
    <3> QED BY <1>0, <2>1, <3>1, <3>2 DEF Replaced
  <2> QED BY <1>0, <2>1, <2>3
<1>5. ~Checkpoint(b)
  BY <1>0 DEF Checkpoint, Return
<1> QED BY <1>1, <1>2, <1>3, <1>4, <1>5 DEF Run

\* Doing nothing is an advance.
LEMMA AdvancedSelf ==
  ASSUME NEW ps
  PROVE  Advanced(ps, ps)
BY DEF Advanced

\* What the checkpoint gave holds of what a call has made of it so far.
LEMMA AdvanceStep ==
  ASSUME IInv, NEW b \in Batches, CallsAt(b), Step(b)
  PROVE  AdvanceAt(b)'
<1> USE DEF IInv
<1>0. /\ mem[b] \in State /\ disk[b] \in State /\ mem = [d \in Batches |-> mem[d]] /\ pc = [d \in Batches |-> pc[d]]
      /\ \A p \in Papers : disk[b].papers[p] \in Paper /\ mem[b].papers[p] \in Paper
  BY DEF TypeOK, State
<1>1. CASE Prepare(b) \/ Checkpoint(b) \/ TornCheckpoint(b) \/ Crash(b)
  <2>1. Preparing(b)' \/ pc'[b] = "idle"
    BY <1>0, <1>1, Zenon DEF Prepare, PrepareStart, PrepareExpect, PrepareSource, PrepareBind, PreparePublish,
          NextPaper, Checkpoint, TornCheckpoint, Crash, Return, Preparing
  <2> QED BY <2>1 DEF AdvanceAt
<1>2. CASE Host(b)
  <2> SUFFICES \A p \in Papers : Advanced(disk[b].papers[p], mem'[b].papers[p])
    <3>1. disk' = disk
      BY <1>2, Zenon DEF Host, NextCall, SubmitReplay, SubmitResult, SubmitFailure, SubmitInvalid, durable
    <3> QED BY <3>1 DEF AdvanceAt
  <2>1. ASSUME NEW resume, NEW retry, NEW redact, NextCall(b, resume, retry, redact)
        PROVE  \A p \in Papers : Advanced(disk[b].papers[p], mem'[b].papers[p])
    <3>1. PICK loaded : loaded = IF resume THEN [disk[b] EXCEPT !.paused = "no"] ELSE disk[b]
      OBVIOUS
    <3>2. loaded \in State /\ loaded.papers = disk[b].papers
      BY <1>0, <3>1 DEF State
    <3>3. mem'[b] = IF retry THEN Retried(b, loaded) ELSE loaded
      BY <1>0, <2>1, <3>1 DEF NextCall
    <3>4. ASSUME NEW p \in Papers PROVE Advanced(loaded.papers[p], Retried(b, loaded).papers[p])
      <4>1. PICK ps \in Paper : ps = loaded.papers[p]
        BY <3>2 DEF State
      <4>2. Retried(b, loaded).papers[p] =
              IF ps.status = "failed" /\ plan[b].n[p] > 0 /\ ps.attempt < MaxAttempts
              THEN [ps EXCEPT !.status = "pending", !.attempt = @ + 1] ELSE ps
        BY <3>2, <4>1 DEF Retried, State
      <4>3. ps.status = "failed" => Advanced(ps, [ps EXCEPT !.status = "pending", !.attempt = @ + 1])
        BY DEF Advanced, Paper
      <4> QED BY <4>1, <4>2, <4>3, AdvancedSelf
    <3> QED BY <3>2, <3>3, <3>4, AdvancedSelf
  <2>2. ASSUME NEW k, NEW x, SubmitReplay(b, k, x) \/ SubmitInvalid(b, k)
        PROVE  \A p \in Papers : Advanced(disk[b].papers[p], mem'[b].papers[p])
    BY <1>0, <2>2, AdvancedSelf DEF SubmitReplay, SubmitInvalid
  <2>3. ASSUME NEW k \in Packets, NEW x, SubmitResult(b, k, x)
        PROVE  \A p \in Papers : Advanced(disk[b].papers[p], mem'[b].papers[p])
    <3>1. k[1] \in Papers /\ k[2] \in Chunks /\ k[3] \in Attempts
      BY DEF Packets
    <3>2. PICK ps \in Paper : ps = disk[b].papers[k[1]]
      BY <1>0, <3>1
    <3>3. mem'[b] = [disk[b] EXCEPT !.papers[k[1]] = [ps EXCEPT !.chunks[k[2]] = k[3]]]
      BY <1>0, <2>3, <3>2 DEF SubmitResult
    <3>4. Advanced(ps, [ps EXCEPT !.chunks[k[2]] = k[3]])
      <4>1. ps.status = "pending" /\ ps.chunks[k[2]] = 0
        BY <2>3, <3>2 DEF SubmitResult, Due
      <4> QED BY <3>1, <4>1 DEF Advanced, Paper
    <3>5. Replaced(disk[b], mem'[b], k[1], [ps EXCEPT !.chunks[k[2]] = k[3]])
      BY <1>0, <3>1, <3>3, PaperUpdate
    <3> QED BY <3>2, <3>4, <3>5, AdvancedSelf DEF Replaced
  <2>4. ASSUME NEW k \in Packets, NEW x, SubmitFailure(b, k, x)
        PROVE  \A p \in Papers : Advanced(disk[b].papers[p], mem'[b].papers[p])
    <3>1. k[1] \in Papers
      BY DEF Packets
    <3>2. disk[b].papers[k[1]].status = "pending"
      BY <2>4 DEF SubmitFailure, Due
    <3>3. CASE x = "session_failure"
      <4>1. mem'[b] = [disk[b] EXCEPT !.paused = "session"]
        BY <1>0, <2>4, <3>3 DEF SubmitFailure
      <4>2. mem'[b].papers = disk[b].papers
        BY <1>0, <4>1 DEF State
      <4> QED BY <4>2, AdvancedSelf
    <3>4. CASE x # "session_failure"
      <4>1. mem'[b] = [disk[b] EXCEPT !.papers[k[1]].status = "failed"]
        BY <1>0, <2>4, <3>4 DEF SubmitFailure
      <4>2. Replaced(disk[b], mem'[b], k[1], [disk[b].papers[k[1]] EXCEPT !.status = "failed"])
        BY <1>0, <3>1, <4>1, FailedUpdate
      <4>3. Advanced(disk[b].papers[k[1]], [disk[b].papers[k[1]] EXCEPT !.status = "failed"])
        BY <1>0, <3>1, <3>2 DEF Advanced, Paper
      <4> QED BY <4>2, <4>3, AdvancedSelf DEF Replaced
    <3> QED BY <3>3, <3>4
  <2> QED BY <1>2, <2>1, <2>2, <2>3, <2>4 DEF Host
<1>3. CASE Run(b) /\ ~Checkpoint(b)
  <2>1. ~Preparing(b) /\ pc[b] # "idle"
    BY <1>3, Zenon DEF Run, Reconcile, Reconciled, Serve, ServedAll, WriteReceipt, Recover, CheckSource, Begin,
          Commit, Rollback, Preparing
  <2>2. CASE pc'[b] = "idle"
    BY <2>2 DEF AdvanceAt
  <2>3. CASE pc'[b] # "idle"
    <3>1. disk'[b] = disk[b] /\ \A p \in Papers : Holds(mem[b].papers[p], mem'[b].papers[p])
      BY <1>3, <2>3, PapersHold DEF CallsAt
    <3>2. ASSUME NEW p \in Papers PROVE Advanced(disk[b].papers[p], mem'[b].papers[p])
      <4>1. PICK old, ps, new : old = disk[b].papers[p] /\ ps = mem[b].papers[p] /\ new = mem'[b].papers[p]
        OBVIOUS
      <4>2. Advanced(old, ps) /\ Holds(ps, new)
        BY <2>1, <3>1, <4>1 DEF CallsAt, AdvanceAt
      <4>3. old \in Paper /\ ps \in Paper
        BY <1>0, <4>1
      <4>4. Advanced(old, new)
        BY <4>2, <4>3 DEF Advanced, Holds, Paper, Statuses
      <4> QED BY <4>1, <4>4
    <3> QED BY <3>1, <3>2 DEF AdvanceAt
  <2> QED BY <2>2, <2>3
<1> QED BY <1>1, <1>2, <1>3 DEF Step

\* A paper nobody touched stays clear.
LEMMA ClearSame ==
  ASSUME NEW b \in Batches, NEW q \in Papers, Clear(b, q), mem'[b].papers[q] = mem[b].papers[q],
         plan'[b] = plan[b], receipts'[b] = receipts[b]
  PROVE  Clear(b, q)'
BY DEF Clear, Pending, Missing, Planned, ReceiptOf, Packet

\* Reconciliation leaves a pending paper clear unless all its chunks are done.
LEMMA ReconcileClears ==
  ASSUME TypeOK, NEW b \in Batches, NEW p \in Papers, Pending(b, p), mem'[b] = Adopted(b, p),
         plan'[b] = plan[b], receipts'[b] = receipts[b], ~Complete(b, p, Adopted(b, p))
  PROVE  Clear(b, p)'
<1>1. mem[b] \in State /\ mem[b].papers[p] \in Paper /\ Planned(b, p) \subseteq Chunks
  <2>1. mem[b] \in State /\ plan[b] \in Plan
    BY DEF TypeOK
  <2>2. plan[b].n[p] \in 0..MaxChunks
    BY <2>1 DEF Plan
  <2>3. Planned(b, p) \subseteq Chunks
    BY <2>2 DEF Planned
  <2> QED BY <2>1, <2>3 DEF State
<1>2. PICK ps, new : ps = mem[b].papers[p] /\ new = Adopted(b, p).papers[p]
  OBVIOUS
<1>3. new = mem'[b].papers[p] /\ Planned(b, p)' = Planned(b, p)
  BY <1>2 DEF Planned
<1>4. SUFFICES ASSUME new.status = "pending"
               PROVE  /\ \E c \in Planned(b, p) : new.chunks[c] = 0
                      /\ \A c \in Planned(b, p) : new.chunks[c] = 0 =>
                           ~Consumed(receipts[b][<<p, c, new.attempt>>])
  BY <1>3 DEF Clear, Pending, Missing, ReceiptOf, Packet
<1>5. \E c \in Planned(b, p) : new.chunks[c] = 0
  BY <1>2, <1>4 DEF Complete
<1>6. ~(\E c \in Missing(b, p) : ReceiptOf(b, p, c).status = "failed")
  BY <1>2, <1>4, AdoptedUpdate
<1>7. ASSUME NEW c \in Planned(b, p), new.chunks[c] = 0
      PROVE  ~Consumed(receipts[b][<<p, c, new.attempt>>])
  <2>1. c \in Missing(b, p)
    <3>1. c \notin Missing(b, p) => ps.chunks[c] = new.chunks[c]
      BY <1>1, <1>2, AdoptedUpdate
    <3> QED BY <1>2, <1>7, <3>1 DEF Missing
  <2>2. ReceiptOf(b, p, c).status # "accepted"
    <3>1. new.chunks[c] = IF ReceiptOf(b, p, c).status = "accepted" THEN ps.attempt ELSE ps.chunks[c]
      BY <1>2, <1>6, <2>1, AdoptedUpdate
    <3>2. ps.attempt # 0
      BY <1>1, <1>2 DEF Paper
    <3> QED BY <1>7, <3>1, <3>2
  <2>3. ReceiptOf(b, p, c) = receipts[b][<<p, c, new.attempt>>]
    BY <1>2, AdoptedUpdate DEF ReceiptOf, Packet
  <2> QED BY <1>6, <2>1, <2>2, <2>3 DEF Consumed
<1> QED BY <1>5, <1>7

\* Reconciliation leaves the papers it has passed clear, and activates complete ones.
LEMMA QueueReconcile ==
  ASSUME IInv, NEW b \in Batches, CallsAt(b), Reconcile(b)
  PROVE  QueueAt(b)'
<1> USE DEF IInv
<1>1. /\ pos[b] \in Papers /\ UNCHANGED <<plan, receipts, call>> /\ pc[b] = "reconcile"
      /\ pos = [d \in Batches |-> pos[d]] /\ mem = [d \in Batches |-> mem[d]] /\ pc = [d \in Batches |-> pc[d]]
      /\ call[b].op # "submit"
  BY DEF Reconcile, durable, TypeOK, CallsAt, CallAt
<1>2. \A q \in Papers : q < pos[b] => Clear(b, q)
  BY <1>1 DEF CallsAt, QueueAt
<1>3. CASE ~Pending(b, pos[b])
  <2>1. UNCHANGED <<mem, pc>> /\ pos'[b] = pos[b] + 1
    BY <1>1, <1>3 DEF Reconcile
  <2>2. ASSUME NEW q \in Papers, q < pos[b] + 1 PROVE Clear(b, q)'
    <3>1. Clear(b, q)
      BY <1>1, <1>2, <1>3, <2>2 DEF Clear
    <3> QED BY <1>1, <2>1, <3>1, ClearSame
  <2> QED BY <1>1, <2>1, <2>2 DEF QueueAt, Activating
<1>4. CASE Pending(b, pos[b])
  <2>1. mem'[b] = Adopted(b, pos[b]) /\ \A q \in Papers : q # pos[b] => mem'[b].papers[q] = mem[b].papers[q]
    <3>1. mem'[b] = Adopted(b, pos[b])
      BY <1>1, <1>4 DEF Reconcile
    <3> QED BY <1>1, <3>1, AdoptedUpdate
  <2>2. ASSUME NEW q \in Papers, q < pos[b] PROVE Clear(b, q)'
    BY <1>1, <1>2, <2>1, <2>2, ClearSame
  <2>3. CASE Complete(b, pos[b], Adopted(b, pos[b]))
    <3>1. pc'[b] = "activate" /\ pos' = pos
      BY <1>1, <1>4, <2>3 DEF Reconcile
    <3>2. Pending(b, pos[b])'
      BY <2>1, <2>3, <3>1 DEF Complete, Pending
    <3> QED BY <1>1, <2>2, <3>1, <3>2 DEF QueueAt, Activating
  <2>4. CASE ~Complete(b, pos[b], Adopted(b, pos[b]))
    <3>1. pc' = pc /\ pos'[b] = pos[b] + 1
      BY <1>1, <1>4, <2>4 DEF Reconcile
    <3>2. \A p \in Papers : p = pos[b] => Clear(b, p)'
      BY <1>1, <1>4, <2>1, <2>4, ReconcileClears
    <3>3. \A q \in Papers : q < pos'[b] => q < pos[b] \/ q = pos[b]
      BY <1>1, <3>1
    <3> QED BY <1>1, <2>2, <3>1, <3>2, <3>3 DEF QueueAt, Activating
  <2> QED BY <2>3, <2>4
<1> QED BY <1>3, <1>4

\* The serving loop passes settled papers only and hands out what is clear.
LEMMA QueueServe ==
  ASSUME IInv, NEW b \in Batches, CallsAt(b), Serve(b)
  PROVE  QueueAt(b)'
<1> USE DEF IInv
<1>1. /\ pos[b] \in Papers /\ UNCHANGED <<plan, receipts>> /\ pc[b] = "serve"
      /\ pos = [d \in Batches |-> pos[d]] /\ mem = [d \in Batches |-> mem[d]] /\ pc = [d \in Batches |-> pc[d]]
      /\ call = [d \in Batches |-> call[d]] /\ call[b] \in Call /\ mem[b] \in State
      /\ call[b].op = "next" /\ call[b].packet = NoPacket
  BY ServeCases DEF TypeOK, CallsAt, CallAt
<1>2. /\ mem[b].paused = "no"
      /\ \A q \in Papers : Clear(b, q) /\ (q < pos[b] => ~Pending(b, q))
  BY <1>1 DEF CallsAt, QueueAt
<1>3. PICK p \in Papers : p = pos[b]
  BY <1>1
<1>4. CASE Passes(b)
  <2>1. pc'[b] = "serve" /\ pos'[b] = p + 1 /\ \A q \in Papers : q < pos'[b] => q < p \/ q = p
    BY <1>1, <1>3, <1>4 DEF Passes
  <2>2. /\ mem'[b].paused = "no" /\ mem'[b].papers[p].status # "pending"
        /\ \A q \in Papers : q # p => mem'[b].papers[q] = mem[b].papers[q]
    <3>1. CASE mem' = [mem EXCEPT ![b].papers[p].status = "failed"]
      <4>1. mem'[b] = [mem[b] EXCEPT !.papers[p].status = "failed"]
        BY <1>1, <3>1
      <4>2. Replaced(mem[b], mem'[b], p, [mem[b].papers[p] EXCEPT !.status = "failed"])
        BY <1>1, <4>1, FailedUpdate
      <4>3. mem'[b].papers[p].status = "failed"
        BY <1>1, <4>2 DEF Replaced, State, Paper
      <4> QED BY <1>2, <4>2, <4>3 DEF Replaced
    <3>2. CASE mem' = mem /\ (Pending(b, p) => Missing(b, p) = {})
      BY <1>2, <3>2 DEF Clear, Pending
    <3> QED BY <1>3, <1>4, <3>1, <3>2 DEF Passes
  <2>3. ASSUME NEW q \in Papers PROVE Clear(b, q)' /\ (q < pos'[b] => ~Pending(b, q)')
    <3>1. CASE q = p
      BY <2>2, <3>1 DEF Clear, Pending
    <3>2. CASE q # p
      <4>1. mem'[b].papers[q] = mem[b].papers[q]
        BY <2>2, <3>2
      <4>2. Clear(b, q)'
        BY <1>1, <1>2, <4>1, ClearSame
      <4> QED BY <1>2, <1>3, <2>1, <3>2, <4>1, <4>2 DEF Pending
    <3> QED BY <3>1, <3>2
  <2> QED BY <2>1, <2>2, <2>3 DEF QueueAt, Activating
<1>5. CASE Stops(b)
  <2>1. pc'[b] = "checkpoint" /\ call'[b].packet = NoPacket /\ call'[b].event # "finished"
    BY <1>1, <1>5 DEF Stops, Call
  <2> QED BY <2>1 DEF QueueAt, Activating
<1>6. CASE Hands(b)
  <2>1. PICK c \in Missing(b, p) : call' =
                [call EXCEPT ![b] = [@ EXCEPT !.event = "awaiting_host", !.packet = Packet(b, p, c)]]
    BY <1>3, <1>6 DEF Hands
  <2>2. PICK k : k = Packet(b, p, c)
    OBVIOUS
  <2>3. call'[b].packet = k /\ call'[b].event = "awaiting_host" /\ pc'[b] = "checkpoint" /\ mem' = mem
    BY <1>1, <1>6, <2>1, <2>2 DEF Call, Hands
  <2>4. k \in Packets /\ k[1] = p
    <3>1. plan[b] \in Plan /\ mem[b].papers[p] \in Paper
      BY <1>1 DEF TypeOK, State
    <3>2. plan[b].n[p] \in 0..MaxChunks /\ mem[b].papers[p].attempt \in Attempts
      BY <1>1, <3>1 DEF Plan, Paper
    <3>3. c \in Chunks
      BY <3>2 DEF Missing, Planned
    <3> QED BY <1>1, <2>2, <3>2, <3>3 DEF Packet, Packets
  <2>5. ~Consumed(receipts[b][k])
    BY <1>2, <1>3, <1>6, <2>2 DEF Clear, ReceiptOf, Hands
  <2>6. \A q \in Papers : q < k[1] => ~Pending(b, q)'
    BY <1>2, <1>3, <2>3, <2>4 DEF Pending
  <2> QED BY <1>1, <1>2, <2>3, <2>4, <2>5, <2>6 DEF QueueAt, Activating
<1> QED BY <1>4, <1>5, <1>6, ServeCases

\* Every step of a call keeps the queue in order.
LEMMA QueueStep ==
  ASSUME IInv, NEW b \in Batches, CallsAt(b), Step(b)
  PROVE  QueueAt(b)'
<1> USE DEF IInv
<1>0. /\ pos = [d \in Batches |-> pos[d]] /\ mem = [d \in Batches |-> mem[d]] /\ pc = [d \in Batches |-> pc[d]]
      /\ call = [d \in Batches |-> call[d]] /\ call[b] \in Call /\ mem[b] \in State /\ disk[b] \in State
      /\ pos[b] \in 1..(NPapers + 1)
  BY DEF TypeOK
<1>1. CASE Prepare(b) \/ Checkpoint(b) \/ TornCheckpoint(b) \/ Crash(b)
  <2>1. Preparing(b)' \/ pc'[b] = "idle"
    BY <1>0, <1>1, Zenon DEF Prepare, PrepareStart, PrepareExpect, PrepareSource, PrepareBind, PreparePublish,
          NextPaper, Checkpoint, TornCheckpoint, Crash, Return, Preparing
  <2> QED BY <2>1 DEF QueueAt, Preparing, Activating
<1>2. CASE Host(b)
  <2>1. ASSUME NEW resume, NEW retry, NEW redact, NextCall(b, resume, retry, redact)
        PROVE  QueueAt(b)'
    <3>1. pc'[b] = "reconcile" /\ pos'[b] = 1
      BY <1>0, <2>1 DEF NextCall, CallsAt, CallAt
    <3> QED BY <3>1 DEF QueueAt, Activating
  <2>2. ASSUME NEW k, NEW x, SubmitReplay(b, k, x) PROVE QueueAt(b)'
    <3>1. pc'[b] = "reconcile" /\ pos'[b] = 1
      BY <1>0, <2>2 DEF SubmitReplay, Enter, CallsAt, CallAt
    <3> QED BY <3>1 DEF QueueAt, Activating
  <2>3. ASSUME NEW k, NEW x, SubmitInvalid(b, k) \/ SubmitFailure(b, k, x) PROVE QueueAt(b)'
    <3>1. pc'[b] = "receipt"
      BY <1>0, <2>3 DEF SubmitInvalid, SubmitFailure, Enter
    <3> QED BY <3>1 DEF QueueAt, Activating
  <2>4. ASSUME NEW k \in Packets, NEW x, SubmitResult(b, k, x) PROVE QueueAt(b)'
    <3> DEFINE st == [disk[b] EXCEPT !.papers[k[1]].chunks[k[2]] = k[3]]
    <3>1. /\ mem'[b] = st /\ pos'[b] = k[1]
          /\ pc'[b] = IF Complete(b, k[1], st) THEN "activate" ELSE "receipt"
          /\ \E r : Enter(b, k, "submit", IF Complete(b, k[1], st) THEN "activate" ELSE "receipt", r)
      BY <1>0, <2>4 DEF SubmitResult, Enter
    <3> HIDE DEF st
    <3>2. call'[b].op = "submit"
      BY <1>0, <3>1 DEF Enter, NoCall
    <3>3. pc'[b] = "activate" => Pending(b, pos[b])'
      BY <3>1 DEF Complete, Pending
    <3> QED BY <3>1, <3>2, <3>3 DEF QueueAt, Activating
  <2> QED BY <1>2, <2>1, <2>2, <2>3, <2>4 DEF Host
<1>3. CASE Reconcile(b) \/ Serve(b)
  BY <1>3, QueueReconcile, QueueServe
<1>4. CASE Reconciled(b)
  <2>1. /\ pc[b] = "reconcile" /\ pos[b] = NPapers + 1 /\ UNCHANGED <<plan, receipts, mem>>
        /\ call[b].op \in {"next", "replay"} /\ (call[b].op = "next" => call[b].packet = NoPacket)
    BY <1>4 DEF Reconciled, durable, CallsAt, CallAt
  <2>2. ASSUME NEW q \in Papers PROVE Clear(b, q)'
    <3>1. q < pos[b]
      BY <2>1
    <3>2. Clear(b, q)
      BY <2>1, <3>1 DEF CallsAt, QueueAt
    <3> QED BY <2>1, <3>2, ClearSame
  <2>3. CASE call[b].op = "replay"
    <3>1. pc'[b] = "checkpoint" /\ call'[b].op = "replay" /\ call'[b].event = "awaiting_host"
      <4>1. Finish(b, "awaiting_host")
        BY <1>4, <2>3 DEF Reconciled
      <4> QED BY <1>0, <2>3, <4>1 DEF Finish, Call
    <3> QED BY <3>1 DEF QueueAt, Activating
  <2>4. CASE call[b].op = "next" /\ mem[b].paused # "no"
    <3>1. pc'[b] = "checkpoint" /\ call'[b].packet = NoPacket /\ call'[b].event = "paused"
      <4>1. Finish(b, "paused")
        BY <1>4, <2>4 DEF Reconciled
      <4> QED BY <1>0, <2>1, <2>4, <4>1 DEF Finish, Call
    <3> QED BY <3>1 DEF QueueAt, Activating
  <2>5. CASE call[b].op = "next" /\ mem[b].paused = "no"
    <3>1. pc'[b] = "serve" /\ pos'[b] = 1 /\ mem'[b].paused = "no"
      BY <1>0, <1>4, <2>1, <2>5 DEF Reconciled
    <3> QED BY <2>2, <3>1 DEF QueueAt, Activating
  <2> QED BY <2>1, <2>3, <2>4, <2>5
<1>5. CASE ServedAll(b)
  <2>1. /\ pc[b] = "serve" /\ pos[b] = NPapers + 1 /\ UNCHANGED mem
        /\ pc'[b] = "checkpoint" /\ call'[b].packet = NoPacket
    BY <1>0, <1>5 DEF ServedAll, Finish, Call, CallsAt, CallAt
  <2>2. \A q \in Papers : q < pos[b]
    BY <2>1
  <2>3. mem[b].paused = "no" /\ \A q \in Papers : ~Pending(b, q)
    BY <2>1, <2>2 DEF CallsAt, QueueAt
  <2> QED BY <2>1, <2>3 DEF QueueAt, Activating, Pending
<1>6. CASE WriteReceipt(b)
  <2>1. pc'[b] = "checkpoint" /\ call'[b].event # "finished" /\ call'[b].op = call[b].op
        /\ call'[b].packet = call[b].packet /\ pc[b] = "receipt"
    <3>1. PICK e \in {"paused", "awaiting_host"} : Finish(b, e)
      BY <1>6 DEF WriteReceipt
    <3> QED BY <1>0, <1>6, <3>1 DEF WriteReceipt, Finish, Call
  <2>2. call[b].op = "next" => call[b].packet = NoPacket
    BY <2>1 DEF CallsAt, CallAt
  <2> QED BY <2>1, <2>2 DEF QueueAt, Activating
<1>7. CASE Recover(b) \/ CheckSource(b) \/ Begin(b) \/ Commit(b) \/ Rollback(b)
  <2>1. /\ Activating(b) /\ UNCHANGED <<plan, receipts>>
        /\ \/ pc'[b] \in {"begin", "commit"} /\ UNCHANGED <<mem, pos, call>>
           \/ \E s \in {"accepted", "stale", "conflict"} : \E n : Settle(b, s, n)
    BY <1>0, <1>7, ZenonT(60) DEF Recover, CheckSource, Begin, Commit, Rollback, durable, Activating
  <2>2. pos[b] \in Papers /\ Pending(b, pos[b])
    BY <2>1 DEF ControlOK, ControlAt, CallsAt, QueueAt, Activating
  <2>3. call[b].op # "submit" => \A q \in Papers : q < pos[b] => Clear(b, q)
    BY <2>1 DEF CallsAt, QueueAt
  <2>4. CASE pc'[b] \in {"begin", "commit"} /\ UNCHANGED <<mem, pos, call>>
    <3>1. call[b].op # "submit" => \A q \in Papers : q < pos[b] => Clear(b, q)'
      BY <2>1, <2>3, <2>4, ClearSame
    <3> QED BY <2>2, <2>4, <3>1 DEF QueueAt, Activating, Pending
  <2>5. ASSUME NEW s \in {"accepted", "stale", "conflict"}, NEW n, Settle(b, s, n) PROVE QueueAt(b)'
    <3>1. CASE call[b].op = "submit"
      BY <1>0, <2>5, <3>1 DEF Settle, QueueAt, Activating
    <3>2. CASE call[b].op # "submit"
      <4>1. pc'[b] = "reconcile" /\ pos'[b] = pos[b] + 1
        BY <1>0, <2>5, <3>2 DEF Settle
      <4>2. Replaced(mem[b], mem'[b], pos[b], [mem[b].papers[pos[b]] EXCEPT !.status = s, !.note = n])
        BY <2>2, <2>5, SettleUpdate
      <4>3. mem[b].papers[pos[b]] \in Paper
        BY <1>0, <2>2 DEF State
      <4>4. mem'[b].papers[pos[b]].status = s
        BY <4>2, <4>3 DEF Replaced, Paper
      <4>5. ASSUME NEW q \in Papers, q < pos'[b] PROVE Clear(b, q)'
        <5>1. CASE q = pos[b]
          BY <4>4, <5>1 DEF Clear, Pending
        <5>2. CASE q # pos[b]
          <6>1. q < pos[b] /\ mem'[b].papers[q] = mem[b].papers[q]
            BY <1>0, <4>1, <4>2, <4>5, <5>2 DEF Replaced
          <6> QED BY <2>1, <2>3, <3>2, <6>1, ClearSame
        <5> QED BY <5>1, <5>2
      <4> QED BY <4>1, <4>5 DEF QueueAt, Activating
    <3> QED BY <3>1, <3>2
  <2> QED BY <2>1, <2>4, <2>5
<1> QED
  BY <1>1, <1>2, <1>3, <1>4, <1>5, <1>6, <1>7 DEF Step, Run

\* Papers not reached yet expect nothing; the one reached expects the note it reads.
LEMMA ExpectStep ==
  ASSUME IInv, NEW b \in Batches, CallsAt(b), Step(b)
  PROVE  ExpectAt(b)'
<1> USE DEF IInv
<1>0. /\ plan[b] \in Plan /\ plan = [d \in Batches |-> plan[d]] /\ pos = [d \in Batches |-> pos[d]]
      /\ pc = [d \in Batches |-> pc[d]] /\ pos[b] \in 1..(NPapers + 1) /\ (pc[b] = "new" => pos[b] = 1)
      /\ ExpectAt(b)
  BY DEF TypeOK, CallsAt, CallAt
<1>1. CASE PrepareStart(b)
  <2>1. PICK works, confirm, replace :
          plan' = [plan EXCEPT ![b].work = works, ![b].confirm = confirm, ![b].replace = replace]
    BY <1>1 DEF PrepareStart
  <2>2. plan'[b] = [[[plan[b] EXCEPT !.work = works] EXCEPT !.confirm = confirm] EXCEPT !.replace = replace]
    BY <1>0, <2>1
  <2>3. plan'[b].expected = plan[b].expected
    BY <1>0, <2>2 DEF Plan
  <2> QED BY <1>0, <1>1, <2>3 DEF PrepareStart, ExpectAt, Unreached
<1>2. CASE PrepareExpect(b)
  <2>1. pc[b] = "expect" /\ pc'[b] = "source" /\ pos' = pos
    BY <1>0, <1>2 DEF PrepareExpect
  <2>2. PICK x : x = LatestNote(plan[b].work[pos[b]])
    OBVIOUS
  <2>3. plan' = [plan EXCEPT ![b].expected[pos[b]] = x]
    BY <1>2, <2>2 DEF PrepareExpect
  <2>4. \A q \in Papers : q # pos[b] => plan'[b].expected[q] = plan[b].expected[q]
    BY <1>0, <2>3 DEF Plan
  <2> QED BY <1>0, <2>1, <2>4 DEF ExpectAt, Unreached
<1>3. CASE PrepareSource(b)
  <2>1. /\ pc[b] = "source" /\ plan'[b].expected = plan[b].expected
        /\ \/ pos' = pos /\ pc'[b] = "bind"
           \/ pos'[b] = pos[b] + 1 /\ pc'[b] \in {"publish", "expect"}
    <3>1. plan' = plan \/ \E m : plan' = [plan EXCEPT ![b].md[pos[b]] = m]
      BY <1>3 DEF PrepareSource
    <3>2. plan'[b].expected = plan[b].expected
      BY <1>0, <3>1 DEF Plan
    <3>3. pc[b] = "source" /\ ((UNCHANGED pos /\ pc' = [pc EXCEPT ![b] = "bind"]) \/ NextPaper(b))
      BY <1>3, Zenon DEF PrepareSource
    <3> QED BY <1>0, <3>2, <3>3 DEF NextPaper
  <2> QED BY <1>0, <2>1 DEF ExpectAt, Unreached
<1>4. CASE PrepareBind(b)
  <2>1. PICK n : plan' = [plan EXCEPT ![b].file[pos[b]] = bridge[plan[b].work[pos[b]]].file, ![b].n[pos[b]] = n]
    BY <1>4, Zenon DEF PrepareBind
  <2>2. plan'[b].expected = plan[b].expected
    BY <1>0, <2>1, Zenon DEF Plan
  <2>3. pc[b] = "bind" /\ pos'[b] = pos[b] + 1 /\ pc'[b] \in {"publish", "expect"}
    BY <1>0, <1>4, Zenon DEF PrepareBind, NextPaper
  <2> QED BY <1>0, <2>2, <2>3 DEF ExpectAt, Unreached
<1>5. CASE PreparePublish(b)
  BY <1>0, <1>5 DEF PreparePublish, Return, ExpectAt, Unreached
<1>6. CASE ~Prepare(b)
  <2>1. ~Preparing(b)
    BY <1>6, Zenon DEF Step, Host, NextCall, SubmitReplay, SubmitResult, SubmitFailure, SubmitInvalid, Run, Reconcile,
          Reconciled, Serve, ServedAll, WriteReceipt, Recover, CheckSource, Begin, Commit, Rollback,
          Checkpoint, TornCheckpoint, Crash, Preparing
  <2>2. ~Preparing(b)'
    BY <2>1, PreparingOnce
  <2> QED BY <2>2 DEF ExpectAt, Unreached, Preparing
<1> QED BY <1>1, <1>2, <1>3, <1>4, <1>5, <1>6 DEF Prepare

\* No call is running at first.
LEMMA InitCalls == Init => CallsOK
<1> SUFFICES ASSUME Init, NEW b \in Batches PROVE CallsAt(b)
  BY DEF CallsOK
<1>1. /\ pc[b] = "new" /\ pos[b] = 1 /\ call[b].op = "none"
      /\ \A q \in Papers : plan[b].expected[q] = -1
  BY DEF Init, NoCall, EmptyPlan
<1> QED BY <1>1 DEF CallsAt, CallAt, QueueAt, AdvanceAt, ExpectAt, Activating, Preparing, Unreached

\* Neither another batch nor the environment disturbs a call.
LEMMA CallsInv ==
  ASSUME IInv, CallsOK, [Next]_vars
  PROVE  CallsOK'
<1> SUFFICES ASSUME NEW b \in Batches PROVE CallsAt(b)'
  BY DEF CallsOK
<1>0. CallsAt(b)
  BY DEF CallsOK
<1>1. CASE Next /\ Step(b)
  BY <1>0, <1>1, CallStep, QueueStep, AdvanceStep, ExpectStep DEF CallsAt
<1>2. CASE Same(b)
  <2>1. CallAt(b)'
    BY <1>0, <1>2 DEF CallsAt, CallAt, Same, Activating
  <2>2. \A q \in Papers : (Clear(b, q)' <=> Clear(b, q)) /\ (Pending(b, q)' <=> Pending(b, q))
    BY <1>2 DEF Same, Clear, Pending, Missing, Planned, ReceiptOf, Packet
  <2>3. QueueAt(b)'
    <3>1. Pending(b, pos[b])' <=> Pending(b, pos[b])
      BY <1>2 DEF Same, Pending
    <3> QED BY <1>0, <1>2, <2>2, <3>1 DEF CallsAt, QueueAt, Same, Activating
  <2>4. AdvanceAt(b)' /\ ExpectAt(b)'
    BY <1>0, <1>2 DEF CallsAt, AdvanceAt, ExpectAt, Unreached, Preparing, Same
  <2> QED BY <2>1, <2>3, <2>4 DEF CallsAt
<1>3. CASE Next /\ ~Step(b)
  BY <1>2, <1>3, Others
<1>4. CASE UNCHANGED vars
  <2>1. Same(b)
    BY <1>4 DEF Same, vars, durable, volatile
  <2> QED BY <1>2, <2>1
<1> QED BY <1>1, <1>3, <1>4

\* What a call knows of its papers holds in every reachable state, whoever else runs
\* and wherever it dies.
THEOREM ServingInductive == Spec => []CallsOK
BY InitCalls, CallsInv, Inductive, PTL DEF Spec

\* `next' hands out a packet only if no receipt consumed it, nothing is paused and all
\* earlier papers are settled: reconciliation adopts every receipt a crash left behind.
THEOREM ServedOnlyDue == Spec => []ServedIsDue
<1>1. IInv /\ CallsOK => ServedIsDue
  <2> SUFFICES ASSUME IInv, CallsOK, NEW b \in Batches, pc[b] = "checkpoint", call[b].op = "next",
                      call[b].packet # NoPacket
               PROVE  /\ ~Consumed(receipts[b][call[b].packet])
                      /\ mem[b].paused = "no"
                      /\ \A q \in 1..(call[b].packet[1] - 1) : ~Pending(b, q)
    BY DEF ServedIsDue
  <2>1. /\ call[b].packet \in Packets /\ ~Consumed(receipts[b][call[b].packet]) /\ mem[b].paused = "no"
        /\ \A q \in Papers : q < call[b].packet[1] => ~Pending(b, q)
    BY DEF CallsOK, CallsAt, QueueAt
  <2>2. call[b].packet[1] \in Papers
    BY <2>1 DEF Packets
  <2> QED BY <2>1, <2>2
<1> QED BY <1>1, Inductive, ServingInductive, PTL

\* The checkpoint and the log change only when a call or a preparation publishes.
LEMMA DiskChanges ==
  ASSUME TypeOK, NEW b \in Batches, Step(b), ~PreparePublish(b), ~Checkpoint(b), ~TornCheckpoint(b)
  PROVE  disk' = disk /\ log' = log
<1>1. CASE Prepare(b)
  BY <1>1, Zenon DEF Prepare, PrepareStart, PrepareExpect, PrepareSource, PrepareBind
<1>2. CASE Host(b)
  BY <1>2, Zenon DEF Host, NextCall, SubmitReplay, SubmitResult, SubmitFailure, SubmitInvalid, durable
<1>3. CASE Run(b) \/ Crash(b)
  BY <1>3, Zenon DEF Run, Reconcile, Reconciled, Serve, ServedAll, WriteReceipt, Recover, CheckSource, Begin,
      Commit, Rollback, Crash, durable
<1> QED BY <1>1, <1>2, <1>3 DEF Step

\* Nobody else writes a batch's event log.
LEMMA LogFrame ==
  ASSUME TypeOK, Next, NEW b \in Batches, log'[b] # log[b]
  PROVE  Step(b)
<1>1. ASSUME NEW d \in Batches, d # b, Step(d) PROVE log'[b] = log[b]
  <2>1. CASE log' = log
    BY <2>1
  <2>2. CASE PreparePublish(d) \/ Checkpoint(d)
    BY <1>1, <2>2 DEF PreparePublish, Checkpoint, TypeOK
  <2>3. CASE TornCheckpoint(d)
    BY <2>3 DEF TornCheckpoint
  <2> QED BY <1>1, <2>1, <2>2, <2>3, DiskChanges
<1>2. ~Environment
  BY DEF Environment, ApiNote, WriteBridge, BackfillMarkdown, Convert, Damage, Tighten, SetPolicy, durable
<1> QED BY <1>1, <1>2 DEF Next, Step

\* A published checkpoint never takes back a settled paper, a done chunk or, without a
\* new attempt, a failure, and `finished' is logged only when all papers are settled.
THEOREM OnlyAdvance == Spec => PapersOnlyAdvance
<1> DEFINE Forward(b, p) ==
       LET old == disk[b].papers[p]  new == disk'[b].papers[p]
       IN /\ pc[b] \notin {"new", "publish"} =>
               /\ old.status \in {"preserved", "accepted", "stale", "conflict"} => new = old
               /\ old.status = "failed" /\ new.status # "failed" => new.attempt = old.attempt + 1
               /\ \A c \in Chunks : old.chunks[c] # 0 => new.chunks[c] = old.chunks[c]
          /\ log'[b] = "finished" /\ log[b] # "finished" =>
               disk'[b].paused = "no" /\ new.status # "pending"
<1>1. ASSUME IInv, CallsOK, Next, NEW b \in Batches, NEW p \in Papers PROVE Forward(b, p)
  <2>0. CallsAt(b) /\ TypeOK /\ disk = [d \in Batches |-> disk[d]] /\ log = [d \in Batches |-> log[d]]
    BY <1>1 DEF CallsOK, IInv, TypeOK
  <2>1. CASE disk'[b] = disk[b] /\ log'[b] = log[b]
    BY <2>1
  <2>2. CASE ~Step(b)
    <3>1. disk'[b] = disk[b]
      BY <1>1, <2>2, Others DEF Same
    <3> QED BY <1>1, <2>0, <2>1, <2>2, <3>1, LogFrame
  <2>3. CASE PreparePublish(b)
    <3>1. pc[b] = "publish" /\ log'[b] = "awaiting_host"
      BY <2>0, <2>3 DEF PreparePublish
    <3> QED BY <3>1
  <2>4. CASE Checkpoint(b) \/ TornCheckpoint(b)
    <3>1. /\ disk'[b] = mem[b] /\ pc[b] = "checkpoint"
          /\ log'[b] = log[b] \/ log'[b] = call[b].event
      BY <2>0, <2>4 DEF Checkpoint, TornCheckpoint
    <3>2. Advanced(disk[b].papers[p], mem[b].papers[p])
      BY <2>0, <3>1 DEF CallsAt, AdvanceAt, Preparing
    <3>3. call[b].event = "finished" => mem[b].paused = "no" /\ mem[b].papers[p].status # "pending"
      BY <2>0, <3>1 DEF CallsAt, QueueAt, Pending
    <3> QED BY <3>1, <3>2, <3>3 DEF Advanced
  <2> QED BY <2>0, <2>1, <2>2, <2>3, <2>4, DiskChanges
<1>2. ASSUME IInv, CallsOK, [Next]_vars PROVE [\A b \in Batches, p \in Papers : Forward(b, p)]_vars
  BY <1>1, <1>2
<1>3. PapersOnlyAdvance <=> [][\A b \in Batches, p \in Papers : Forward(b, p)]_vars
  BY DEF PapersOnlyAdvance
<1> HIDE DEF Forward
<1> QED BY <1>2, <1>3, Inductive, ServingInductive, PTL DEF Spec

\* The bridge at a commit is the one the plan froze: the source was compared under the
\* write lock, which keeps every other writer of the bridge out.
THEOREM CommitsOnPlanned == Spec => CommitOnPlannedSource
<1> DEFINE OnPlanned(b, w) ==
       CommittedBy(b, w)' # CommittedBy(b, w) =>
         \E p \in Papers : /\ plan[b].work[p] = w
                           /\ bridge[w].file = plan[b].file[p]
                           /\ Proven(plan[b].file[p], plan[b].md[p])
<1>1. ASSUME IInv, Next, NEW b \in Batches, NEW w \in Works PROVE OnPlanned(b, w)
  <2> SUFFICES ASSUME CommittedBy(b, w)' # CommittedBy(b, w)
               PROVE  \E p \in Papers : /\ plan[b].work[p] = w
                                        /\ bridge[w].file = plan[b].file[p]
                                        /\ Proven(plan[b].file[p], plan[b].md[p])
    OBVIOUS
  <2>1. Commit(b)
    BY <1>1, OwnNotes
  <2>2. /\ pos[b] \in Papers /\ plan[b].work[pos[b]] \in Works /\ NewNote(b) \in Note
        /\ notes' = [notes EXCEPT ![plan[b].work[pos[b]]] = Append(@, NewNote(b))]
    BY <1>1, <2>1, CommitNote
  <2>3. PICK v, note : v = plan[b].work[pos[b]] /\ note = NewNote(b)
    OBVIOUS
  <2>4. v = w
    <3>1. v \in Works /\ note \in Note /\ notes' = [notes EXCEPT ![v] = Append(@, note)]
      BY <2>2, <2>3
    <3>2. TypeOK
      BY <1>1 DEF IInv
    <3>3. \A d \in Batches, u \in Works :
            CommittedBy(d, u)' = IF u = v /\ note.by = d
                                 THEN CommittedBy(d, u) \cup {Len(notes[u]) + 1}
                                 ELSE CommittedBy(d, u)
      BY <3>1, <3>2, Grown
    <3> QED BY <3>3
  <2>5. /\ bridge[v].file = plan[b].file[pos[b]]
        /\ Proven(plan[b].file[pos[b]], plan[b].md[pos[b]])
    BY <1>1, <2>1, <2>3 DEF IInv, WriterOK, WriterAt, Commit
  <2> QED BY <2>2, <2>3, <2>4, <2>5
<1>2. ASSUME IInv, [Next]_vars PROVE [\A b \in Batches, w \in Works : OnPlanned(b, w)]_vars
  BY <1>1, <1>2
<1>3. CommitOnPlannedSource <=> [][\A b \in Batches, w \in Works : OnPlanned(b, w)]_vars
  BY DEF CommitOnPlannedSource
<1> HIDE DEF OnPlanned
<1> QED BY <1>2, <1>3, Inductive, PTL DEF Spec

\* What is handed out is permitted by the class and the policy of that very moment.
THEOREM ServedOnlyPermitted == Spec => ServedIsPermitted
<1> DEFINE Fit(b) ==
       LET k == call'[b].packet IN
       (pc[b] = "serve" /\ k # NoPacket) =>
         /\ Allowed(plan[b].file[k[1]], plan[b].confirm)
         /\ call[b].redact => plan[b].file[k[1]] \notin private
<1>1. ASSUME IInv, CallsOK, Next, NEW b \in Batches PROVE Fit(b)
  <2>0. /\ TypeOK /\ CallsAt(b) /\ call = [d \in Batches |-> call[d]] /\ call[b] \in Call
    BY <1>1 DEF CallsOK, IInv, TypeOK
  <2> SUFFICES ASSUME pc[b] = "serve", call'[b].packet # NoPacket
               PROVE  /\ Allowed(plan[b].file[call'[b].packet[1]], plan[b].confirm)
                      /\ call[b].redact => plan[b].file[call'[b].packet[1]] \notin private
    OBVIOUS
  <2>1. call[b].packet = NoPacket
    BY <2>0 DEF CallsAt, CallAt
  <2>2. Step(b)
    BY <1>1, <2>1, Others DEF Same
  <2>3. Serve(b) \/ ServedAll(b) \/ Crash(b)
    BY <2>2 DEF Step, Prepare, PrepareStart, PrepareExpect, PrepareSource, PrepareBind, PreparePublish,
        Host, NextCall, SubmitReplay, SubmitResult, SubmitFailure, SubmitInvalid, Run, Reconcile,
        Reconciled, WriteReceipt, Recover, CheckSource, Begin, Commit, Rollback, Checkpoint, TornCheckpoint
  <2>4. ~Crash(b) /\ ~ServedAll(b)
    BY <2>0, <2>1 DEF Crash, Return, NoCall, ServedAll, Finish, Call
  <2>5. ~Passes(b) /\ ~Stops(b)
    BY <2>0, <2>1 DEF Passes, Stops, Call
  <2>6. Hands(b)
    BY <2>0, <2>3, <2>4, <2>5, ServeCases
  <2>7. PICK c \in Missing(b, pos[b]) : call' =
            [call EXCEPT ![b] = [@ EXCEPT !.event = "awaiting_host", !.packet = Packet(b, pos[b], c)]]
    BY <2>6 DEF Hands
  <2>8. PICK k : k = Packet(b, pos[b], c)
    OBVIOUS
  <2>9. call'[b].packet = k
    BY <2>0, <2>7, <2>8 DEF Call
  <2>10. k[1] = pos[b]
    BY <2>8 DEF Packet
  <2> QED BY <2>6, <2>9, <2>10 DEF Hands, Permitted
<1>2. ASSUME IInv, CallsOK, [Next]_vars PROVE [\A b \in Batches : Fit(b)]_vars
  BY <1>1, <1>2
<1>3. ServedIsPermitted <=> [][\A b \in Batches : Fit(b)]_vars
  BY DEF ServedIsPermitted
<1> HIDE DEF Fit
<1> QED BY <1>2, <1>3, Inductive, ServingInductive, PTL DEF Spec

-----------------------------------------------------------------------------
(* Readers of notes see the ledger of NoteLedger *)

Writers(w) == [i \in 1..Len(notes[w]) |-> notes[w][i].by]
Basis(b, w) == {plan[b].expected[p] : p \in {q \in Papers : plan[b].work[q] = w}} \ {-1}
LedgerView == [w \in Works |-> Writers(w)]
BasisView == [b \in Batches |-> [w \in Works |-> Basis(b, w)]]

\* The ledger's definitions, read in terms of the two views.
LEMMA Views ==
  /\ Ledger!LedgerInit <=> LedgerView = [w \in Works |-> <<>>]
                           /\ BasisView = [b \in Batches |-> [w \in Works |-> {}]]
  /\ \A b, w : Ledger!Freeze(b, w) <=>
       /\ BasisView[b][w] = {}
       /\ BasisView' = [BasisView EXCEPT ![b][w] = {Len(LedgerView[w])}]
       /\ LedgerView' = LedgerView
  /\ \A b, w : Ledger!Activate(b, w) <=>
       /\ BasisView[b][w] = {Len(LedgerView[w])}
       /\ LedgerView' = [LedgerView EXCEPT ![w] = Append(@, b)]
       /\ BasisView' = BasisView
  /\ \A w : Ledger!Overwrite(w) <=>
       /\ LedgerView' = [LedgerView EXCEPT ![w] = Append(@, "api")]
       /\ BasisView' = BasisView
  /\ Ledger!LedgerNext <=>
       \E w \in Works : Ledger!Overwrite(w) \/ \E b \in Batches : Ledger!Freeze(b, w) \/ Ledger!Activate(b, w)
  /\ UNCHANGED Ledger!ledgerVars <=> LedgerView' = LedgerView /\ BasisView' = BasisView
BY DEF Ledger!LedgerInit, Ledger!Freeze, Ledger!Activate, Ledger!Overwrite, Ledger!LedgerNext, Ledger!ledgerVars,
       LedgerView, BasisView, Writers, Basis

\* Batches see no change unless they read an expected note, commit, or an API run saves.
LEMMA StepOfLedger ==
  ASSUME IInv, CallsOK, Next
  PROVE  \/ LedgerView' = LedgerView /\ BasisView' = BasisView
         \/ Ledger!LedgerNext
<1>0. TypeOK /\ TypeOK' /\ IInv'
  BY NextInv DEF IInv
<1>1. ASSUME NEW w \in Works
      PROVE  /\ Len(Writers(w)) = Len(notes[w])
             /\ Writers(w) \in Seq(Batches \cup {"api"})
  <2>1. notes[w] \in Seq(Note)
    BY <1>0 DEF TypeOK
  <2>2. \A i \in 1..Len(notes[w]) : notes[w][i].by \in Batches \cup {"api"}
    <3>1. \A i \in 1..Len(notes[w]) : notes[w][i] \in Note
      BY <2>1
    <3>2. \A note \in Note : note.by \in Batches \cup {"api"}
      BY DEF Note
    <3> QED BY <3>1, <3>2
  <2>3. Writers(w) \in [1..Len(notes[w]) -> Batches \cup {"api"}] /\ Len(notes[w]) \in Nat
    BY <2>1, <2>2 DEF Writers
  <2> QED BY <2>3
<1>2. ASSUME notes' = notes PROVE LedgerView' = LedgerView
  BY <1>2 DEF LedgerView, Writers
<1>3. ASSUME NEW b \in Batches, Step(b), ~PrepareExpect(b) PROVE BasisView' = BasisView
  <2>1. ASSUME NEW d \in Batches, NEW w \in Works PROVE Basis(d, w)' = Basis(d, w)
    <3>1. CASE d # b
      <4>1. plan'[d] = plan[d]
        BY <1>0, <1>3, <3>1, Frame DEF Same
      <4> QED BY <4>1 DEF Basis
    <3>2. CASE d = b /\ pc[b] # "new"
      <4>1. plan'[b].work = plan[b].work
        BY <1>3, <3>2, PlanStep
      <4>2. plan'[b].expected = plan[b].expected
        <5>1. plan[b] \in Plan /\ plan = [e \in Batches |-> plan[e]]
          BY <1>0 DEF TypeOK
        <5>2. CASE PrepareSource(b)
          <6>1. plan' = plan \/ \E m : plan' = [plan EXCEPT ![b].md[pos[b]] = m]
            BY <5>2 DEF PrepareSource
          <6> QED BY <5>1, <6>1 DEF Plan
        <5>3. CASE PrepareBind(b)
          <6>1. PICK f, n : plan' = [plan EXCEPT ![b].file[pos[b]] = f, ![b].n[pos[b]] = n]
            BY <5>3, Zenon DEF PrepareBind
          <6> QED BY <5>1, <6>1 DEF Plan
        <5>4. CASE ~PrepareSource(b) /\ ~PrepareBind(b)
          <6>1. plan' = plan
            BY <1>3, <3>2, <5>4, Zenon DEF Step, Prepare, PrepareStart, PreparePublish, Host, NextCall, SubmitReplay,
              SubmitResult, SubmitFailure, SubmitInvalid, Run, Reconcile, Reconciled, Serve, ServedAll,
              WriteReceipt, Recover, CheckSource, Begin, Commit, Rollback, Checkpoint, TornCheckpoint, Crash, durable
          <6> QED BY <6>1
        <5> QED BY <5>2, <5>3, <5>4
      <4> QED BY <3>2, <4>1, <4>2 DEF Basis
    <3>3. CASE d = b /\ pc[b] = "new"
      <4>1. \A q \in Papers : plan[b].expected[q] = -1
        BY <3>3 DEF CallsOK, CallsAt, ExpectAt, Unreached
      <4>2. PrepareStart(b)
        BY <1>3, <3>3 DEF Step, Prepare, PrepareExpect, PrepareSource, PrepareBind, PreparePublish, Host, NextCall,
              SubmitReplay, SubmitResult, SubmitFailure, SubmitInvalid, Run, Reconcile, Reconciled, Serve,
              ServedAll, WriteReceipt, Recover, CheckSource, Begin, Commit, Rollback, Checkpoint, TornCheckpoint, Crash
      <4>3. pc'[b] = "expect" /\ pos'[b] = 1
        BY <1>0, <3>3, <4>2 DEF PrepareStart, CallsOK, CallsAt, CallAt, TypeOK
      <4>4. \A q \in Papers : plan'[b].expected[q] = -1
        <5>1. ExpectAt(b)'
          BY <1>3, ExpectStep DEF CallsOK
        <5> QED BY <4>3, <5>1 DEF ExpectAt, Unreached
      <4>5. Basis(b, w) = {}
        BY <4>1 DEF Basis
      <4>6. Basis(b, w)' = {}
        BY <4>4 DEF Basis
      <4> QED BY <3>3, <4>5, <4>6
    <3> QED BY <3>1, <3>2, <3>3
  <2> QED BY <2>1 DEF BasisView
<1>4. ASSUME NEW b \in Batches, PrepareExpect(b) PROVE Ledger!LedgerNext
  <2>1. PICK p, w, n : p = pos[b] /\ w = plan[b].work[p] /\ n = LatestNote(w)
    OBVIOUS
  <2>2. Step(b) /\ pc[b] = "expect" /\ p \in Papers /\ plan[b] \in Plan
    BY <1>0, <1>4, <2>1 DEF PrepareExpect, Step, Prepare, IInv, ControlOK, ControlAt, TypeOK
  <2>3. w \in Works /\ plan[b].expected[p] = -1 /\ n = Len(notes[w]) /\ n \in Nat
    <3>1. w \in Works
      BY <2>1, <2>2 DEF Plan
    <3>2. plan[b].expected[p] = -1
      BY <2>1, <2>2 DEF CallsOK, CallsAt, ExpectAt, Unreached
    <3>3. notes[w] \in Seq(Note)
      BY <1>0, <3>1 DEF TypeOK
    <3> QED BY <2>1, <3>1, <3>2, <3>3 DEF LatestNote
  <2>4. \A q, r \in Papers : plan[b].work[q] = plan[b].work[r] => q = r
    BY <2>2 DEF IInv, ControlOK, ControlAt
  <2>5. /\ plan'[b].work = plan[b].work /\ plan'[b].expected = [plan[b].expected EXCEPT ![p] = n]
        /\ \A d \in Batches : d # b => plan'[d] = plan[d]
        /\ notes' = notes
    <3>1. plan' = [plan EXCEPT ![b].expected[p] = n] /\ notes' = notes
      BY <1>4, <2>1 DEF PrepareExpect, project
    <3> QED BY <1>0, <2>2, <3>1 DEF TypeOK, Plan
  <2>6. \A q \in Papers : plan'[b].expected[q] = IF q = p THEN n ELSE plan[b].expected[q]
    BY <2>2, <2>5 DEF Plan
  <2>7. Basis(b, w) = {}
    BY <2>1, <2>2, <2>3, <2>4 DEF Basis
  <2>8. Basis(b, w)' = {n}
    <3>1. {q \in Papers : plan'[b].work[q] = w} = {p}
      BY <2>1, <2>2, <2>4, <2>5
    <3>2. Basis(b, w)' = {plan'[b].expected[q] : q \in {r \in Papers : plan'[b].work[r] = w}} \ {-1}
      BY DEF Basis
    <3>3. Basis(b, w)' = {plan'[b].expected[p]} \ {-1}
      BY <3>1, <3>2
    <3> QED BY <2>2, <2>3, <2>6, <3>3
  <2>9. ASSUME NEW d \in Batches, NEW v \in Works, d # b \/ v # w PROVE Basis(d, v)' = Basis(d, v)
    <3>1. CASE d # b
      BY <2>5, <3>1 DEF Basis
    <3>2. CASE d = b /\ v # w
      <4>1. \A q \in Papers : plan[b].work[q] = v => q # p
        BY <2>1, <3>2
      <4>2. {plan'[b].expected[q] : q \in {r \in Papers : plan'[b].work[r] = v}} =
            {plan[b].expected[q] : q \in {r \in Papers : plan[b].work[r] = v}}
        BY <2>5, <2>6, <4>1
      <4> QED BY <3>2, <4>2 DEF Basis
    <3> QED BY <2>9, <3>1, <3>2
  <2>10. BasisView[b][w] = {} /\ BasisView' = [BasisView EXCEPT ![b][w] = {n}]
    BY <2>3, <2>7, <2>8, <2>9 DEF BasisView
  <2>11. LedgerView' = LedgerView /\ Len(LedgerView[w]) = n
    BY <1>1, <1>2, <2>3, <2>5 DEF LedgerView
  <2>12. Ledger!Freeze(b, w)
    BY <2>10, <2>11, Views
  <2> QED BY <2>3, <2>12, Views
<1>5. ASSUME NEW w \in Works, NEW note \in Note, notes' = [notes EXCEPT ![w] = Append(@, note)]
      PROVE  LedgerView' = [LedgerView EXCEPT ![w] = Append(@, note.by)]
  <2>1. /\ \A v \in Works : v # w => notes'[v] = notes[v]
        /\ notes'[w] = Append(notes[w], note) /\ notes[w] \in Seq(Note)
    BY <1>0, <1>5 DEF TypeOK
  <2>2. \A v \in Works : v # w => Writers(v)' = Writers(v)
    BY <2>1 DEF Writers
  <2>3. Writers(w)' = Append(Writers(w), note.by)
    <3>1. /\ Len(notes'[w]) = Len(notes[w]) + 1 /\ Len(notes[w]) \in Nat
          /\ \A i \in 1..Len(notes[w]) : notes'[w][i] = notes[w][i]
          /\ notes'[w][Len(notes[w]) + 1] = note
      BY <2>1
    <3>2. Writers(w)' = [i \in 1..(Len(notes[w]) + 1) |-> IF i = Len(notes[w]) + 1 THEN note.by ELSE Writers(w)[i]]
      BY <3>1 DEF Writers
    <3>3. Writers(w) \in Seq(Batches \cup {"api"}) /\ Len(Writers(w)) = Len(notes[w])
          /\ note.by \in Batches \cup {"api"}
      BY <1>1 DEF Note
    <3>4. PICK s, e, new : s = Writers(w) /\ e = note.by /\ new = Writers(w)'
      OBVIOUS
    <3>5. /\ s \in Seq(Batches \cup {"api"}) /\ e \in Batches \cup {"api"}
          /\ new = [i \in 1..(Len(s) + 1) |-> IF i = Len(s) + 1 THEN e ELSE s[i]]
      BY <3>2, <3>3, <3>4
    <3>6. new = Append(s, e)
      <4> DEFINE S == Batches \cup {"api"}
      <4> HIDE DEF S
      <4>1. s \in Seq(S) /\ e \in S /\ Len(s) \in Nat
        BY <3>5 DEF S
      <4>2. new \in Seq(S) /\ Len(new) = Len(s) + 1
            /\ \A i \in 1..(Len(s) + 1) : new[i] = IF i = Len(s) + 1 THEN e ELSE s[i]
        BY <3>5, <4>1
      <4>3. Append(s, e) \in Seq(S) /\ Len(Append(s, e)) = Len(s) + 1
            /\ \A i \in 1..(Len(s) + 1) : Append(s, e)[i] = IF i = Len(s) + 1 THEN e ELSE s[i]
        BY <4>1
      <4> QED BY <4>1, <4>2, <4>3, SeqEqual
    <3> QED BY <3>4, <3>6
  <2> QED BY <2>2, <2>3 DEF LedgerView
<1>6. ASSUME NEW b \in Batches, Commit(b) PROVE Ledger!LedgerNext
  <2>1. PICK p, w, note : p = pos[b] /\ w = plan[b].work[p] /\ note = NewNote(b)
    OBVIOUS
  <2>2. p \in Papers /\ w \in Works /\ note \in Note /\ notes' = [notes EXCEPT ![w] = Append(@, note)] /\ note.by = b
    BY <1>6, <2>1, CommitNote DEF NewNote
  <2>3. plan[b].expected[p] = Len(notes[w]) /\ pc[b] = "commit"
    BY <1>6, <2>1 DEF IInv, WriterOK, WriterAt, Commit, LatestNote
  <2>4. \A q, r \in Papers : plan[b].work[q] = plan[b].work[r] => q = r
    BY <2>3 DEF IInv, ControlOK, ControlAt
  <2>5. Basis(b, w) = {Len(notes[w])}
    <3>1. {q \in Papers : plan[b].work[q] = w} = {p}
      BY <2>1, <2>2, <2>4
    <3>2. Basis(b, w) = {plan[b].expected[p]} \ {-1}
      BY <3>1 DEF Basis
    <3>3. Len(notes[w]) \in Nat
      BY <1>0, <2>2 DEF TypeOK
    <3> QED BY <2>3, <3>2, <3>3
  <2>6. BasisView' = BasisView
    <3>1. Step(b) /\ ~PrepareExpect(b)
      BY <1>6, <2>3 DEF Step, Run, PrepareExpect
    <3> QED BY <1>3, <3>1
  <2>7. Ledger!Activate(b, w)
    <3>1. LedgerView' = [LedgerView EXCEPT ![w] = Append(@, b)]
      BY <1>5, <2>2
    <3>2. BasisView[b][w] = {Len(LedgerView[w])}
      <4>1. BasisView[b][w] = Basis(b, w) /\ LedgerView[w] = Writers(w)
        BY <2>2 DEF BasisView, LedgerView
      <4> QED BY <1>1, <2>2, <2>5, <4>1
    <3> QED BY <2>6, <3>1, <3>2, Views
  <2> QED BY <2>2, <2>7, Views
<1>7. CASE Environment
  <2>1. BasisView' = BasisView
    BY <1>7, EnvironmentFrame DEF BasisView, Basis
  <2>2. CASE notes' = notes
    BY <1>2, <2>1, <2>2
  <2>3. ASSUME NEW w \in Works, ApiNote(w) PROVE Ledger!LedgerNext
    <3>1. PICK x \in Results : notes' = [notes EXCEPT ![w] =
                 Append(@, [by |-> "api", md |-> bridge[w].md, text |-> <<x>>])]
      BY <2>3 DEF ApiNote
    <3>2. PICK note : note = [by |-> "api", md |-> bridge[w].md, text |-> <<x>>]
      OBVIOUS
    <3>3. bridge[w].md \in Markdown
      BY <1>0, <2>3 DEF ApiNote, TypeOK
    <3>4. note \in Note /\ note.by = "api" /\ notes' = [notes EXCEPT ![w] = Append(@, note)]
      BY <3>1, <3>2, <3>3 DEF Note
    <3>5. Ledger!Overwrite(w)
      BY <1>5, <2>1, <3>4, Views, Zenon
    <3> QED BY <3>5, Views
  <2> QED BY <1>7, <2>2, <2>3 DEF Environment, WriteBridge, BackfillMarkdown, Convert, Damage, Tighten, SetPolicy, project
<1>8. ASSUME NEW b \in Batches, Step(b), ~PrepareExpect(b), ~Commit(b)
      PROVE  LedgerView' = LedgerView /\ BasisView' = BasisView
  <2>1. notes' = notes
    BY <1>8, Zenon DEF Step, Prepare, PrepareStart, PrepareSource, PrepareBind, PreparePublish, Host, NextCall,
        SubmitReplay, SubmitResult, SubmitFailure, SubmitInvalid, Run, Reconcile, Reconciled, Serve, ServedAll,
        WriteReceipt, Recover, CheckSource, Begin, Rollback, Checkpoint, TornCheckpoint, Crash, project
  <2> QED BY <1>2, <1>3, <1>8, <2>1
<1> QED BY <1>4, <1>6, <1>7, <1>8 DEF Next, Step

\* Activation of notes implements the ledger: for any batches, works and papers, and
\* whatever crashes, retries and races happen.
THEOREM LedgerImplemented == Spec => ImplementsLedger
<1>1. Init => Ledger!LedgerInit
  <2> SUFFICES ASSUME Init PROVE Ledger!LedgerInit
    OBVIOUS
  <2>1. ASSUME NEW w \in Works PROVE Writers(w) = <<>>
    BY DEF Init, Writers
  <2>2. ASSUME NEW b \in Batches, NEW w \in Works PROVE Basis(b, w) = {}
    BY DEF Init, EmptyPlan, Basis
  <2> QED BY <2>1, <2>2, Views DEF LedgerView, BasisView
<1>2. IInv /\ CallsOK /\ [Next]_vars => [Ledger!LedgerNext]_(Ledger!ledgerVars)
  <2> SUFFICES ASSUME IInv, CallsOK, [Next]_vars PROVE Ledger!LedgerNext \/ UNCHANGED Ledger!ledgerVars
    OBVIOUS
  <2>1. CASE UNCHANGED vars
    BY <2>1, Views DEF vars, project, durable, LedgerView, BasisView, Writers, Basis
  <2> QED BY <2>1, StepOfLedger, Views
<1> QED BY <1>1, <1>2, Inductive, ServingInductive, PTL DEF Spec, ImplementsLedger, Ledger!LedgerSpec
=============================================================================
