------------------------------- MODULE MCSettles -------------------------------
(* What a host or a user waits for: the batch of an agent, and the uploads of   *)
(* the server beside a corpus pass.  A behaviour runs one of them, chosen by    *)
(* part; the other rests in its first state.                                    *)
EXTENDS ConversionQueue

CONSTANTS
  Parts,
  c1, ch1, ch2, k1, w1, w2, f1, m1,  \* names of the queue
  aw1, aw2, af1,  \* works and file of the batch
  Batches, Results, NPapers, MaxChunks, MaxAttempts, MaxVersions, MaxNotes, Perils, Options,
  NoFile, NoMarkdown, Nobody

VARIABLES
  part, notes, sourceFiles, writer, versions, unreadable, private, policy, plan, disk, receipts,
  log, pc, mem, pos, hostCall
batchVars   == <<notes, sourceFiles, writer, versions, unreadable, private, policy, plan, disk,
                 receipts, log, pc, mem, pos, hostCall>>
settlesVars == <<part, vars, batchVars>>

(* One batch of two papers that share a source file.                           *)
Agent == INSTANCE AgentExtraction WITH
  Works <- {aw1, aw2}, Files <- {af1}, bridge <- sourceFiles, call <- hostCall

SettlesInit == part \in Parts /\ Init /\ Agent!Init

BatchPart == part = "batch" /\ UNCHANGED <<part, vars>>
QueuePart == part = "queue" /\ UNCHANGED <<part, batchVars>>
SettlesNext ==
  \/ BatchPart /\ \E b \in Batches : Agent!Prepare(b)
  \/ BatchPart /\ \E b \in Batches : Agent!Host(b)
  \/ BatchPart /\ \E b \in Batches : Agent!Run(b) \/ Agent!TornCheckpoint(b) \/ Agent!Crash(b)
  \/ BatchPart /\ Agent!Environment
  \/ QueuePart /\ \E flow \in Flows, w \in Works, f \in Files : StartFlow(c1, flow, w, f)
  \/ QueuePart /\ \E p \in Procs : ProgramStep(p)
  \/ QueuePart /\ Announce(c1)
  \/ QueuePart /\ Put(c1)
  \/ QueuePart /\ StartPool
  \/ QueuePart /\ Take(k1)
  \/ QueuePart /\ \E p \in Children : Backfilled(p)
  \/ QueuePart /\ \E p \in Children : ChildKilled(p)
  \/ QueuePart /\ Collect(k1)
  \/ QueuePart /\ Timeout(k1)
  \/ QueuePart /\ \E survivors \in SUBSET Children : Restart(survivors)

(* Each part under the fairness of its own: the other takes no step and owes    *)
(* none.                                                                        *)
SettlesSpec ==
  /\ SettlesInit /\ [][SettlesNext]_settlesVars
  /\ \A b \in Batches :
       /\ WF_batchVars(part = "batch" /\ Agent!Prepare(b))
       /\ WF_batchVars(part = "batch" /\ Agent!Run(b))
       /\ SF_batchVars(part = "batch" /\ Agent!NextCall(b, TRUE, FALSE, FALSE))
       /\ SF_batchVars(part = "batch" /\ Agent!HostAnswers(b))
  /\ Fairness

-----------------------------------------------------------------------------
(* Once calls stop dying every paper of the batch gets settled: no receipt, lost *)
(* checkpoint or acknowledged pause can wedge it; and the log ends up saying so. *)
BatchSettles ==
  Agent!Calm => \A b \in Batches :
            /\ \A p \in Agent!Papers : <>[](part = "batch" => Agent!Settled(b, p))
            /\ []<>(part = "batch" => log[b] = "finished")
=============================================================================
