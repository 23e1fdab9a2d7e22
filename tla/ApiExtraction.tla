----------------------------- MODULE ApiExtraction -----------------------------
(* `extract notes`, `extract notes-chunked` (cli.py) and the web jobs that do   *)
(* the same (web/planner.py): a command takes works from its list, with a pool  *)
(* of threads that share one BudgetState, and runs                              *)
(* extract_note (extraction/runner.py) and, for a paper that does not fit,      *)
(* extract_note_chunked (extraction/chunked_runner.py) on each.  The gates are  *)
(* those of ModelRouting, the call that of ModelCalls and the chunks those of   *)
(* ChunkPlan: here only their outcome counts.  A command may die at any step,   *)
(* a commit may find the database locked, a paper may be converted again.       *)
EXTENDS Integers, Sequences, FiniteSets

CONSTANTS NoteWorks, Commands, NoteThreads, NoteConfigs, NoText, NoLimit,
          MaxCost, MaxCommands, MaxNoteFaults

AnyNoteConfig ==
  {cfg \in [converted : [NoteWorks -> BOOLEAN], texts : Nat, order : Seq(NoteWorks),
            gate : [NoteWorks -> {"route", "policy", "none", "price"}],
            size : [NoteWorks -> {"fits", "oversize", "unlisted"}],
            chunks : [NoteWorks -> Seq({"fits", "over"})],
            monthly : Nat \cup {NoLimit}, perRun : Nat \cup {NoLimit}] :
     \A w \in NoteWorks : \E k \in DOMAIN cfg.order : cfg.order[k] = w}

(* A thread is a command and its number in the pool of that command.           *)
ASSUME ApiAssumption ==
  /\ NoteThreads \subseteq Commands \X Nat /\ IsFiniteSet(NoteThreads)
  /\ NoteConfigs \subseteq AnyNoteConfig
  /\ MaxCost \in Nat /\ NoLimit \notin Nat /\ NoText \notin Nat

(* noteCfg: what the gates will say of a work and how it is cut into chunks.    *)
VARIABLES noteCfg, text, command, threads, rows, papers, notes, billed, logged, notesBegun, noteFaults
apiVars == <<noteCfg, text, command, threads, rows, papers, notes, billed, logged, notesBegun, noteFaults>>

Idle == [pc |-> "idle", work |-> NoText, text |-> NoText, cost |-> 0, good |-> FALSE,
         paper |-> 0, chunk |-> 0, spent |-> 0]
(* month: what the usage log held when the command began, read by no code; prior *)
(* is what its BudgetState was told of it.                                     *)
Off == [kind |-> "none", left |-> {}, month |-> 0, prior |-> 0, spent |-> 0, stopped |-> FALSE]

ApiStart ==
  /\ text = [w \in NoteWorks |-> IF noteCfg.converted[w] THEN 1 ELSE NoText]
  /\ command = [c \in Commands |-> Off]
  /\ threads = [t \in NoteThreads |-> Idle]
  /\ rows = {} /\ papers = << >> /\ notes = << >>
  /\ billed = 0 /\ logged = 0 /\ notesBegun = 0 /\ noteFaults = 0

ApiInit == noteCfg \in NoteConfigs /\ ApiStart

Of(t) == t[1]
Mine(t) == command[Of(t)]
Running(c) == command[c].kind # "none"

(* current_note: a note of this very text.                                     *)
HasNote(w, hash) == \E i \in DOMAIN notes : notes[i].work = w /\ notes[i].text = hash

OversizeWorks ==
  {w \in NoteWorks : /\ \E r \in rows : r.work = w /\ r.status = "skipped_oversize"
                     /\ \A i \in DOMAIN notes : notes[i].work # w}

CommandKinds    == {"notes", "notes --chunked", "notes-chunked", "job extraction", "job chunked"}
ChunkedKinds    == {"notes-chunked", "job chunked"}
SequentialKinds == {"notes-chunked", "job extraction", "job chunked"}
(* Only these apply the cost controls (_apply_cost_controls).                  *)
SeedsMonth      == {"notes", "notes --chunked"}

(* The works a command is to take, in the order of noteCfg.                    *)
Worklist(kind) ==
  IF kind \in ChunkedKinds THEN OversizeWorks ELSE {w \in NoteWorks : text[w] # NoText}

FirstOf(works) ==
  LET k == CHOOSE k \in DOMAIN noteCfg.order :
             /\ noteCfg.order[k] \in works
             /\ \A j \in DOMAIN noteCfg.order : noteCfg.order[j] \in works => k <= j
  IN noteCfg.order[k]

(* `extract notes` reads the month's spend so far once, before the first work;  *)
(* the others begin with a plain BudgetState.                                  *)
StartCommand(c, kind) ==
  /\ ~Running(c) /\ notesBegun < MaxCommands
  /\ Worklist(kind) # {}
  /\ command' = [command EXCEPT ![c] =
       [Off EXCEPT !.kind = kind, !.left = Worklist(kind), !.month = logged,
                   !.prior = IF kind \in SeedsMonth THEN logged ELSE 0]]
  /\ notesBegun' = notesBegun + 1
  /\ UNCHANGED <<noteCfg, text, threads, rows, papers, notes, billed, logged, noteFaults>>

MayWork(t) == Running(Of(t)) /\ (Mine(t).kind \in SequentialKinds => t[2] = 1)

Take(t) ==
  /\ MayWork(t) /\ threads[t].pc = "idle" /\ Mine(t).left # {}
  /\ threads' = [threads EXCEPT ![t] =
       [Idle EXCEPT !.work = FirstOf(Mine(t).left),
                    !.pc = IF Mine(t).kind \in ChunkedKinds THEN "admitchunks" ELSE "admit"]]
  /\ command' = [command EXCEPT ![Of(t)].left = @ \ {FirstOf(@)}]
  /\ UNCHANGED <<noteCfg, text, rows, papers, notes, billed, logged, notesBegun, noteFaults>>

CommandEnds(c) ==
  /\ Running(c) /\ command[c].left = {}
  /\ \A t \in NoteThreads : Of(t) = c => threads[t].pc = "idle"
  /\ command' = [command EXCEPT ![c] = Off]
  /\ UNCHANGED <<noteCfg, text, threads, rows, papers, notes, billed, logged, notesBegun, noteFaults>>

(* What precedes a call, in the order of the code; extract_note asks the size  *)
(* before the price, extract_note_chunked never asks the price.                *)
Shared(t) ==
  LET w == threads[t].work IN
  IF text[w] = NoText THEN "skipped_no_markdown"
  ELSE IF HasNote(w, text[w]) THEN "skipped_idempotent"
  ELSE IF Mine(t).stopped THEN "skipped_budget"
  ELSE IF noteCfg.gate[w] = "policy" THEN "skipped_policy"
  ELSE IF noteCfg.gate[w] = "none" THEN "skipped_no_llm"
  ELSE "go"

Verdict(t) ==
  LET w == threads[t].work IN
  IF Shared(t) # "go" THEN Shared(t)
  ELSE IF noteCfg.size[w] # "fits" THEN "skipped_oversize"
  ELSE IF noteCfg.gate[w] = "price" THEN "config_error"
  ELSE "go"

ChunkVerdict(t) ==
  LET w == threads[t].work IN
  IF Shared(t) # "go" THEN Shared(t)
  ELSE IF noteCfg.size[w] = "unlisted" \/ noteCfg.chunks[w] = << >> THEN "skipped_oversize_section"
  ELSE "go"

Row(t, status) == [work |-> threads[t].work, text |-> text[threads[t].work], status |-> status]
Unwritten == {"skipped_no_markdown", "skipped_idempotent", "config_error", "go"}
Written(t, status) == IF status \in Unwritten THEN rows ELSE rows \cup {Row(t, status)}

Go(t, pc) == [threads EXCEPT ![t].pc = pc, ![t].text = text[threads[t].work]]

\* (mutant) a configuration error is not caught for the work
AdmitUncaught(t) ==
  /\ threads[t].pc = "admit"
  /\ LET v == Verdict(t) IN
     /\ v # "config_error"
     /\ rows' = Written(t, v)
     /\ threads' = CASE v = "go" -> Go(t, "call")
                     [] v = "skipped_oversize" /\ Mine(t).kind = "notes --chunked" -> Go(t, "admitchunks")
                     [] OTHER -> [threads EXCEPT ![t] = Idle]
  /\ UNCHANGED <<noteCfg, text, command, papers, notes, billed, logged, notesBegun, noteFaults>>

(* Steps 1 to 8 of extract_note; --chunked sends an oversize paper on.         *)
Admit(t) ==
  /\ threads[t].pc = "admit"
  /\ LET v == Verdict(t) IN
     /\ rows' = Written(t, v)
     /\ threads' = CASE v = "go" -> Go(t, "call")
                     [] v = "skipped_oversize" /\ Mine(t).kind = "notes --chunked" -> Go(t, "admitchunks")
                     [] OTHER -> [threads EXCEPT ![t] = Idle]
  /\ UNCHANGED <<noteCfg, text, command, papers, notes, billed, logged, notesBegun, noteFaults>>

(* The provider answers, and bills, whatever becomes of the answer; an error    *)
(* may be free, a note is not.                                                 *)
Answer(t, good, cost) ==
  /\ good => cost > 0
  /\ threads[t].pc \in {"call", "chunkcall"}
  /\ threads' = [threads EXCEPT ![t].pc = IF @ = "call" THEN "save" ELSE "chunkrow",
                                ![t].good = good, ![t].cost = cost]
  /\ billed' = billed + cost
  /\ UNCHANGED <<noteCfg, text, command, rows, papers, notes, logged, notesBegun, noteFaults>>

Noted(t, by) == Append(notes, [work |-> threads[t].work, text |-> threads[t].text, by |-> by])

(* The note and its run in one transaction, or the run of a failure.           *)
Save(t) ==
  /\ threads[t].pc = "save"
  /\ notes' = IF threads[t].good THEN Noted(t, "whole") ELSE notes
  /\ rows' = rows \cup {[work |-> threads[t].work, text |-> threads[t].text,
                         status |-> IF threads[t].good THEN "success" ELSE "extraction_failed"]}
  /\ threads' = [threads EXCEPT ![t].pc = "account"]
  /\ UNCHANGED <<noteCfg, text, command, papers, billed, logged, notesBegun, noteFaults>>

\* (mutant) what was spent before the command is forgotten
SpendPrior(c, cost, perRun) ==
  LET spent == command[c].spent + cost IN
  [command EXCEPT ![c].spent = spent,
     ![c].stopped = \/ @
                    \/ noteCfg.perRun # NoLimit /\ perRun >= noteCfg.perRun
                    \/ noteCfg.monthly # NoLimit /\ spent >= noteCfg.monthly]

(* BudgetState.add_spend: a soft limit closes the latch for good.              *)
Spend(c, cost, perRun) ==
  LET spent == command[c].spent + cost IN
  [command EXCEPT ![c].spent = spent,
     ![c].stopped = \/ @
                    \/ noteCfg.perRun # NoLimit /\ perRun >= noteCfg.perRun
                    \/ noteCfg.monthly # NoLimit /\ command[c].prior + spent >= noteCfg.monthly]

(* The usage row, then the budget.                                             *)
Account(t) ==
  /\ threads[t].pc = "account"
  /\ logged' = logged + threads[t].cost
  /\ command' = Spend(Of(t), threads[t].cost, threads[t].cost)
  /\ threads' = [threads EXCEPT ![t] = Idle]
  /\ UNCHANGED <<noteCfg, text, rows, papers, notes, billed, notesBegun, noteFaults>>

(* Steps 1 to 8 of extract_note_chunked; the id of the reduce run is minted    *)
(* before the first chunk.                                                     *)
AdmitChunks(t) ==
  /\ threads[t].pc = "admitchunks"
  /\ LET v == ChunkVerdict(t)
         w == threads[t].work
         paper == [work |-> w, text |-> text[w], count |-> Len(noteCfg.chunks[w]),
                   maps |-> << >>, status |-> "open"]
     IN /\ rows' = Written(t, v)
        /\ papers' = IF v = "go" THEN Append(papers, paper) ELSE papers
        /\ threads' = IF v = "go" THEN [Go(t, "chunk") EXCEPT ![t].paper = Len(papers) + 1, ![t].chunk = 1]
                      ELSE [threads EXCEPT ![t] = Idle]
  /\ UNCHANGED <<noteCfg, text, command, notes, billed, logged, notesBegun, noteFaults>>

Mapped(t, status) ==
  papers' = [papers EXCEPT ![threads[t].paper].maps = Append(@, [index |-> threads[t].chunk, status |-> status])]

(* Over its size or the budget a chunk is recorded and passed over.            *)
Chunk(t) ==
  /\ threads[t].pc = "chunk"
  /\ LET paper == papers[threads[t].paper]
         over == noteCfg.chunks[threads[t].work][threads[t].chunk] # "fits"
         done == threads[t].chunk > paper.count
     IN IF done THEN threads' = [threads EXCEPT ![t].pc = "usage"] /\ UNCHANGED papers
        ELSE IF over \/ Mine(t).stopped
        THEN /\ Mapped(t, IF over THEN "skipped_oversize_section" ELSE "skipped_budget")
             /\ threads' = [threads EXCEPT ![t].chunk = @ + 1]
        ELSE threads' = [threads EXCEPT ![t].pc = "chunkcall"] /\ UNCHANGED papers
  /\ UNCHANGED <<noteCfg, text, command, rows, notes, billed, logged, notesBegun, noteFaults>>

(* The chunk's run is committed on its own; its cost goes to the latch with    *)
(* the paper's total as the cost of the run, and to the usage log later.       *)
ChunkRow(t) ==
  /\ threads[t].pc = "chunkrow"
  /\ LET th == threads[t] IN
     /\ Mapped(t, IF th.good THEN "success" ELSE "extraction_failed")
     /\ command' = Spend(Of(t), th.cost, th.spent + th.cost)
     /\ threads' = [threads EXCEPT ![t] = [th EXCEPT !.pc = "chunk", !.chunk = @ + 1,
                                                     !.spent = @ + th.cost, !.cost = 0]]
  /\ UNCHANGED <<noteCfg, text, rows, notes, billed, logged, notesBegun, noteFaults>>

Count(t, statuses) ==
  Cardinality({i \in DOMAIN papers[threads[t].paper].maps :
                 papers[threads[t].paper].maps[i].status \in statuses})

(* One usage row for all the chunks that were sent.                            *)
Usage(t) ==
  /\ threads[t].pc = "usage"
  /\ logged' = logged + threads[t].spent
  /\ threads' = [threads EXCEPT ![t].pc = "reduce", ![t].spent = 0]
  /\ UNCHANGED <<noteCfg, text, command, rows, papers, notes, billed, notesBegun, noteFaults>>

\* (mutant) a budget stop hides the failures before it
ReduceStatusBudget(t) ==
  IF Count(t, {"success"}) > 0 THEN "success"
  ELSE IF Count(t, {"skipped_oversize_section"}) > 0 THEN "skipped_oversize_section"
  ELSE IF Count(t, {"skipped_budget"}) > 0 THEN "skipped_budget"
  ELSE "extraction_failed"

ReduceStatus(t) ==
  IF Count(t, {"success"}) > 0 THEN "success"
  ELSE IF Count(t, {"skipped_oversize_section"}) > 0 THEN "skipped_oversize_section"
  ELSE IF Count(t, {"skipped_budget"}) > 0 /\ Count(t, {"extraction_failed"}) = 0 THEN "skipped_budget"
  ELSE "extraction_failed"

Reduce(t) ==
  /\ threads[t].pc = "reduce"
  /\ papers' = [papers EXCEPT ![threads[t].paper].status = ReduceStatus(t)]
  /\ notes' = IF ReduceStatus(t) = "success" THEN Noted(t, "chunked") ELSE notes
  /\ threads' = [threads EXCEPT ![t] = Idle]
  /\ UNCHANGED <<noteCfg, text, command, rows, billed, logged, notesBegun, noteFaults>>

InFlight(t) == threads[t].cost + threads[t].spent

(* A commit finds the database locked: the work is dropped, a sequential       *)
(* command ends, a pool goes on and reports at its end.                        *)
Locked(t) ==
  /\ threads[t].pc \in {"save", "chunkrow", "reduce"}
  /\ threads' = [threads EXCEPT ![t] = Idle]
  /\ noteFaults < MaxNoteFaults /\ noteFaults' = noteFaults + 1
  /\ command' = IF \E u \in NoteThreads : Of(u) = Of(t) /\ u # t /\ Mine(t).kind \notin SequentialKinds
                THEN command ELSE [command EXCEPT ![Of(t)] = Off]
  /\ UNCHANGED <<noteCfg, text, rows, papers, notes, billed, logged, notesBegun>>

CommandDies(c) ==
  /\ Running(c)
  /\ command' = [command EXCEPT ![c] = Off]
  /\ noteFaults < MaxNoteFaults /\ noteFaults' = noteFaults + 1
  /\ threads' = [t \in NoteThreads |-> IF Of(t) = c THEN Idle ELSE threads[t]]
  /\ UNCHANGED <<noteCfg, text, rows, papers, notes, billed, logged, notesBegun>>

ConvertAgain(w) ==
  /\ text[w] # NoText /\ text[w] < noteCfg.texts
  /\ text' = [text EXCEPT ![w] = @ + 1]
  /\ UNCHANGED <<noteCfg, command, threads, rows, papers, notes, billed, logged, notesBegun, noteFaults>>

ThreadStep(t) ==
  \/ Take(t) \/ Admit(t) \/ Save(t) \/ Account(t)
  \/ AdmitChunks(t) \/ Chunk(t) \/ ChunkRow(t) \/ Usage(t) \/ Reduce(t)
  \/ \E good \in BOOLEAN, cost \in 0..MaxCost : Answer(t, good, cost)

ApiNext ==
  \/ \E c \in Commands : CommandEnds(c) \/ CommandDies(c) \/ \E k \in CommandKinds : StartCommand(c, k)
  \/ \E t \in NoteThreads : ThreadStep(t) \/ Locked(t)
  \/ \E w \in NoteWorks : ConvertAgain(w)

ApiFairness ==
  /\ \A t \in NoteThreads : WF_apiVars(ThreadStep(t))
  /\ \A c \in Commands : WF_apiVars(CommandEnds(c))

ApiSpec == ApiInit /\ [][ApiNext]_apiVars /\ ApiFairness

-----------------------------------------------------------------------------
Pool(c) == Cardinality({t \in NoteThreads : Of(t) = c})
Over(limit, prior) == IF limit > prior THEN limit - prior - 1 ELSE 0

(* What the limit is held against beside the command's own spend.              *)
Counted(c) == IF command[c].kind \in SeedsMonth THEN command[c].month ELSE 0

(* The monthly limit is soft: what the month had cost when `extract notes` began *)
(* and what it spends pass it by at most one call for each of its threads,      *)
(* however they interleave (runner.py is_stopped, add_spend; cli.py             *)
(* _apply_cost_controls).  For notes-chunked and the web jobs only their own    *)
(* spend is held against it: the month before them is not counted.             *)
OverspendIsBounded ==
  \A c \in Commands :
    noteCfg.monthly # NoLimit =>
      command[c].spent <= Over(noteCfg.monthly, Counted(c)) + Pool(c) * MaxCost

(* One paper passes the per-run limit by at most one chunk.                    *)
PaperSpendIsBounded ==
  \A t \in NoteThreads :
    noteCfg.perRun # NoLimit => InFlight(t) <= Over(noteCfg.perRun, 0) + MaxCost

(* One command at a time never notes the same text of a work twice, whole or   *)
(* chunked, across deaths and restarts.                                        *)
OneNotePerText ==
  \A i, j \in DOMAIN notes :
    notes[i].work = notes[j].work /\ notes[i].text = notes[j].text => i = j

(* A finished paper has one run for each chunk, in order, and its own status   *)
(* and note follow from theirs.                                                *)
ReduceAccountsForChunks ==
  \A i \in DOMAIN papers :
    LET p == papers[i]
        all == {p.maps[k].status : k \in DOMAIN p.maps}
    IN /\ \A k \in DOMAIN p.maps : p.maps[k].index = k
       /\ p.status # "open" => Len(p.maps) = p.count
       /\ p.status = "success" => "success" \in all /\ HasNote(p.work, p.text)
       /\ p.status = "skipped_budget" => all = {"skipped_budget"}
       /\ p.status = "extraction_failed" => "extraction_failed" \in all /\ "success" \notin all

(* What the providers billed is in the usage log once every thread is idle,    *)
(* unless a commit failed or a process died (usage rows are written last).     *)
SpendIsLogged ==
  noteFaults = 0 /\ (\A t \in NoteThreads : threads[t].pc = "idle") => billed = logged

(* The limits are passed by what was in flight and no more, and what was       *)
(* billed can be read in the log.                                              *)
SpendIsBounded == OverspendIsBounded /\ PaperSpendIsBounded /\ SpendIsLogged

(* The notes tell what was done: one for a text, and a paper's status is that  *)
(* of its chunks.                                                              *)
NotesTellTheWork == OneNotePerText /\ ReduceAccountsForChunks

(* A command that is not killed ends.                                          *)
CommandsEnd == \A c \in Commands : []<>~Running(c)
=============================================================================
