------------------------ MODULE ConversionQueue_proofs ------------------------
(***************************************************************************)
(* What the content cache keeps, for any processes, files, markdowns and    *)
(* bound, and with it the whole system: every program of ConversionQueue is *)
(* a process that calls the cache, whatever the server, its workers and     *)
(* their children do, and however often the server dies.                    *)
(***************************************************************************)
EXTENDS ConversionQueue, SequenceTheorems, FiniteSetTheorems, TLAPS

-----------------------------------------------------------------------------
(* I. The cache.  A call works on a pending run of its own and on a file that *)
(* is there; what it has read about a row was true, and rows never go away.  *)

Converting(p) == At(p, "backend") \/ At(p, "store")

\* What a call relies on: its file is known, its run is a pending run of that
\* file, and a row it has seen is there.
CallOK(p) ==
  /\ call[p].step \in {"backend", "store", "import", "ingested", "converted"} =>
       call[p].file \in DOMAIN access
  /\ At(p, "ingest") /\ call[p].seen # Unseen => call[p].file \in DOMAIN access
  /\ Converting(p) => /\ call[p].run \in DOMAIN runs
                      /\ runs[call[p].run].status = "pending"
                      /\ runs[call[p].run].file = call[p].file
  /\ At(p, "store") /\ call[p].seen # Unseen => call[p].md \in DOMAIN pointer
CallsOK == \A p \in Procs : CallOK(p)

\* Nobody else has that run.
RunsApart ==
  \A p, q \in Procs : Converting(p) /\ Converting(q) /\ call[p].run = call[q].run => p = q

CacheInv == CacheTypeOK /\ CallsOK /\ RunsApart /\ LineageHolds

\* What one process may do to the cache, whichever program it is.
CallAction(p) ==
  \/ CallStep(p)
  \/ Quits(p)
  \/ \E f \in Files, class \in Classes : IngestSelect(p, f, class)
  \/ \E f \in Files, config \in Configs : ConvertReuse(p, f, config)
  \/ \E f \in Files, config \in Configs, force \in BOOLEAN : ConvertBegin(p, f, config, force)
  \/ \E f \in Files, m \in Markdowns : ImportSelect(p, f, m)

-----------------------------------------------------------------------------

USE MaxRunsAssumption, ClassesAssumption

\* The initial cache is empty and nobody calls.
LEMMA InitCache == CacheInit => CacheInv
<1> SUFFICES ASSUME CacheInit PROVE CacheInv
  OBVIOUS
<1>1. runs \in Seq(Run) /\ Len(runs) = 0
  BY DEF CacheInit
<1>2. CacheTypeOK
  <2>1. call \in [Procs -> Call]
    BY DEF CacheInit, Call
  <2>2. DOMAIN access = {} /\ DOMAIN pointer = {}
    BY DEF CacheInit
  <2> QED
    BY <1>1, <2>1, <2>2 DEF CacheTypeOK
<1>3. CallsOK /\ RunsApart
  BY DEF CacheInit, CallsOK, CallOK, RunsApart, Converting, At
<1>4. LineageHolds
  BY DEF CacheInit, LineageHolds
<1> QED
  BY <1>2, <1>3, <1>4 DEF CacheInv

-----------------------------------------------------------------------------
(* Records and rows *)

\* A call at a step is a record of that step's fields.
LEMMA CallShape ==
  ASSUME call \in [Procs -> Call], NEW p \in Procs
  PROVE  /\ At(p, "ingest") => call[p] \in [step : {"ingest"}, file : Files, class : Classes,
                                            seen : Classes \cup {Unseen}]
         /\ At(p, "backend") => call[p] \in [step : {"backend"}, file : Files, class : Classes,
                                             run : 1..MaxRuns]
         /\ At(p, "store") => call[p] \in [step : {"store"}, file : Files, class : Classes,
                                           run : 1..MaxRuns, md : Markdowns,
                                           seen : Classes \cup {Unseen}]
         /\ At(p, "import") => call[p] \in [step : {"import"}, file : Files, class : Classes,
                                            md : Markdowns]
<1> call[p] \in Call
  OBVIOUS
<1> QED
  BY DEF Call, At

\* No class is called unseen.
LEMMA UnseenIsNoClass == Unseen \notin Classes
BY DEF Unseen, Restrictiveness

\* A run of the table: what it is of, and which markdown a success names.
LEMMA RunShape ==
  ASSUME runs \in Seq(Run), NEW i \in DOMAIN runs
  PROVE  /\ runs[i] \in Run
         /\ runs[i].file \in Files /\ runs[i].config \in Configs
         /\ runs[i].status \in {"pending", "failed", "success"}
         /\ runs[i].status = "success" => runs[i].md \in Markdowns
         /\ i \in 1..Len(runs)
<1>1. runs[i] \in Run /\ i \in 1..Len(runs)
  BY ElementOfSeq
<1> QED
  BY <1>1 DEF Run

\* Replacing a row of the table.
LEMMA RunReplaced ==
  ASSUME runs \in Seq(Run), Len(runs) <= MaxRuns, NEW i \in DOMAIN runs, NEW r \in Run,
         runs' = [runs EXCEPT ![i] = r]
  PROVE  /\ runs' \in Seq(Run) /\ Len(runs') <= MaxRuns
         /\ DOMAIN runs' = DOMAIN runs /\ runs'[i] = r
         /\ \A k \in DOMAIN runs : k # i => runs'[k] = runs[k]
<1>1. i \in 1..Len(runs)
  BY RunShape
<1>2. [runs EXCEPT ![i] = r] \in Seq(Run) /\ Len([runs EXCEPT ![i] = r]) = Len(runs)
  BY <1>1, ExceptSeq
<1> QED
  BY <1>2

\* Adding a row to the table.
LEMMA RunAppended ==
  ASSUME runs \in Seq(Run), Len(runs) < MaxRuns, NEW r \in Run, runs' = Append(runs, r)
  PROVE  /\ runs' \in Seq(Run) /\ Len(runs') <= MaxRuns
         /\ Len(runs) + 1 \in 1..MaxRuns /\ Len(runs) + 1 \notin DOMAIN runs
         /\ DOMAIN runs' = DOMAIN runs \cup {Len(runs) + 1} /\ runs'[Len(runs) + 1] = r
         /\ \A k \in DOMAIN runs : runs'[k] = runs[k]
<1>1. Len(runs) \in Nat /\ DOMAIN runs = 1..Len(runs)
  BY LenProperties
<1>2. /\ Append(runs, r) \in Seq(Run) /\ Len(Append(runs, r)) = Len(runs) + 1
      /\ \A k \in 1..Len(runs) : Append(runs, r)[k] = runs[k]
      /\ Append(runs, r)[Len(runs) + 1] = r
  BY AppendProperties
<1>3. DOMAIN Append(runs, r) = 1..(Len(runs) + 1)
  BY <1>2, LenProperties
<1> QED
  BY <1>1, <1>2, <1>3

-----------------------------------------------------------------------------
(* What a step leaves as it was *)

\* The other calls keep what they rely on, and their runs stay theirs, if rows
\* stay and only the run of the caller changes.
LEMMA CallsFrame ==
  ASSUME CacheInv, NEW p \in Procs,
         call' \in [Procs -> Call],
         \A q \in Procs : q # p => call'[q] = call[q],
         DOMAIN access \subseteq DOMAIN access', DOMAIN pointer \subseteq DOMAIN pointer',
         \A i \in DOMAIN runs :
           i \in DOMAIN runs' /\ (runs'[i] # runs[i] => Converting(p) /\ i = call[p].run),
         CallOK(p)',
         Converting(p)' =>
           \/ call'[p].run \notin DOMAIN runs
           \/ Converting(p) /\ call'[p].run = call[p].run
  PROVE  CallsOK' /\ RunsApart'
<1> USE DEF CacheInv
<1>1. CallsOK'
  <2> SUFFICES ASSUME NEW q \in Procs, q # p PROVE CallOK(q)'
    BY DEF CallsOK
  <2>1. call'[q] = call[q] /\ CallOK(q)
    BY DEF CallsOK
  <2>2. Converting(q) => runs'[call[q].run] = runs[call[q].run] /\ call[q].run \in DOMAIN runs'
    BY <2>1 DEF CallOK, RunsApart
  <2> QED
    BY <2>1, <2>2, SMTT(30) DEF CallOK, Converting, At
<1>2. RunsApart'
  <2> SUFFICES ASSUME NEW q \in Procs, NEW r \in Procs, Converting(q)', Converting(r)',
                      call'[q].run = call'[r].run, q # r
               PROVE  FALSE
    BY DEF RunsApart
  <2>1. \A s \in Procs : s # p /\ Converting(s)' =>
          Converting(s) /\ call'[s].run = call[s].run /\ call[s].run \in DOMAIN runs
    BY DEF Converting, At, CallsOK, CallOK
  <2>2. CASE q # p /\ r # p
    BY <2>1, <2>2 DEF RunsApart
  <2>3. CASE q = p
    BY <2>1, <2>3 DEF RunsApart
  <2>4. CASE r = p
    BY <2>1, <2>4 DEF RunsApart
  <2> QED
    BY <2>2, <2>3, <2>4
<1> QED
  BY <1>1, <1>2

\* Lineage holds on if successes stay, a new one names a row, and a row that
\* points elsewhere points at a file that produced the markdown.
LEMMA LineageFrame ==
  ASSUME LineageHolds,
         \A i \in DOMAIN runs : runs[i].status = "success" => i \in DOMAIN runs' /\ runs'[i] = runs[i],
         DOMAIN pointer \subseteq DOMAIN pointer',
         \A i \in DOMAIN runs' : runs'[i].status = "success" =>
           (i \in DOMAIN runs /\ runs'[i] = runs[i]) \/ runs'[i].md \in DOMAIN pointer',
         \A m \in DOMAIN pointer' :
           (m \in DOMAIN pointer /\ pointer'[m] = pointer[m]) \/
             \E i \in DOMAIN runs' :
               runs'[i].file = pointer'[m] /\ runs'[i].status = "success" /\ runs'[i].md = m
  PROVE  LineageHolds'
<1>1. \A i \in DOMAIN runs' : runs'[i].status = "success" => runs'[i].md \in DOMAIN pointer'
  BY DEF LineageHolds
<1>2. \A m \in DOMAIN pointer' : \E i \in DOMAIN runs' :
        runs'[i].file = pointer'[m] /\ runs'[i].status = "success" /\ runs'[i].md = m
  BY DEF LineageHolds, Produced
<1> QED
  BY <1>1, <1>2 DEF LineageHolds, Produced

\* A call that only reads, or gives up.
LEMMA ReadOnly ==
  ASSUME CacheInv, NEW p \in Procs, UNCHANGED cache,
         call' \in [Procs -> Call],
         \A q \in Procs : q # p => call'[q] = call[q],
         CallOK(p)',
         Converting(p)' => Converting(p) /\ call'[p].run = call[p].run
  PROVE  CacheInv'
<1>1. access' = access /\ runs' = runs /\ pointer' = pointer
  BY DEF cache
<1>2. CacheTypeOK'
  BY <1>1 DEF CacheInv, CacheTypeOK
<1>3. CallsOK' /\ RunsApart'
  BY <1>1, CallsFrame
<1>4. LineageHolds'
  BY <1>1 DEF CacheInv, LineageHolds, Produced
<1> QED
  BY <1>2, <1>3, <1>4 DEF CacheInv

-----------------------------------------------------------------------------
(* Adding a file *)

\* ingest_file reads the row of the file.
LEMMA IngestSelectKeeps ==
  ASSUME CacheInv, NEW p \in Procs, NEW f \in Files, NEW class \in Classes,
         IngestSelect(p, f, class)
  PROVE  CacheInv'
<1> DEFINE c == [step |-> "ingest", file |-> f, class |-> class,
                 seen |-> IF f \in DOMAIN access THEN access[f] ELSE Unseen]
<1>1. call' = [call EXCEPT ![p] = c] /\ UNCHANGED cache
  BY DEF IngestSelect, Becomes
<1>2. call \in [Procs -> Call] /\ (f \in DOMAIN access => access[f] \in Classes)
  BY DEF CacheInv, CacheTypeOK
<1>3. c \in Call
  BY <1>2 DEF Call
<1>4. call'[p] = c /\ call' \in [Procs -> Call]
  BY <1>1, <1>2, <1>3
<1>5. CallOK(p)' /\ ~Converting(p)'
  BY <1>1, <1>4 DEF CallOK, Converting, At, cache, Unseen
<1> QED
  BY <1>1, <1>2, <1>4, <1>5, ReadOnly

\* ingest_file writes the row of a new file, or fails on the one that came first.
LEMMA IngestInsertKeeps ==
  ASSUME CacheInv, NEW p \in Procs, IngestInsert(p) PROVE CacheInv'
<1> DEFINE c == call[p]
<1>1. CacheTypeOK /\ LineageHolds /\ call \in [Procs -> Call] /\ At(p, "ingest")
  BY DEF CacheInv, CacheTypeOK, IngestInsert
<1>2. c.file \in Files /\ c.class \in Classes
  BY <1>1, CallShape
<1>3. CASE c.file \in DOMAIN access
  <2>1. call' = [call EXCEPT ![p] = [step |-> "error"]] /\ UNCHANGED cache
    BY <1>3 DEF IngestInsert, Becomes, cache
  <2>2. call' \in [Procs -> Call] /\ call'[p] = [step |-> "error"]
    BY <1>1, <2>1 DEF Call
  <2>3. CallOK(p)' /\ ~Converting(p)'
    BY <2>2 DEF CallOK, Converting, At
  <2> QED
    BY <1>1, <2>1, <2>2, <2>3, ReadOnly
<1>4. CASE c.file \notin DOMAIN access
  <2>1. /\ call' = [call EXCEPT ![p] = [step |-> "ingested", file |-> c.file]]
        /\ access' = [f \in DOMAIN access \cup {c.file} |->
                        IF f = c.file THEN c.class ELSE access[f]]
        /\ runs' = runs /\ pointer' = pointer
    BY <1>4 DEF IngestInsert, Becomes
  <2>2. /\ DOMAIN access' = DOMAIN access \cup {c.file}
        /\ \A f \in DOMAIN access' : access'[f] \in Classes
    BY <1>1, <1>2, <2>1 DEF CacheTypeOK
  <2>3. call' \in [Procs -> Call] /\ call'[p] = [step |-> "ingested", file |-> c.file]
    BY <1>1, <1>2, <2>1 DEF Call
  <2>4. CallOK(p)' /\ ~Converting(p)'
    BY <2>2, <2>3 DEF CallOK, Converting, At
  <2>5. CallsOK' /\ RunsApart'
    BY <1>1, <2>1, <2>2, <2>3, <2>4, CallsFrame
  <2>6. CacheTypeOK'
    BY <1>1, <1>2, <2>1, <2>2, <2>3 DEF CacheTypeOK
  <2>7. LineageHolds'
    BY <1>1, <2>1 DEF LineageHolds, Produced
  <2> QED
    BY <2>5, <2>6, <2>7 DEF CacheInv
<1> QED
  BY <1>3, <1>4

\* ingest_file makes the row of a known file stricter, or leaves it.
LEMMA IngestTightenKeeps ==
  ASSUME CacheInv, NEW p \in Procs, IngestTighten(p) PROVE CacheInv'
<1> DEFINE c == call[p]
<1>1. CacheTypeOK /\ LineageHolds /\ call \in [Procs -> Call] /\ At(p, "ingest")
  BY DEF CacheInv, CacheTypeOK, IngestTighten
<1>2. /\ c.file \in Files /\ c.class \in Classes /\ c.seen \in Classes
      /\ c.file \in DOMAIN access
  BY <1>1, CallShape DEF IngestTighten, CacheInv, CallsOK, CallOK
<1>3. /\ call' = [call EXCEPT ![p] = [step |-> "ingested", file |-> c.file]]
      /\ runs' = runs /\ pointer' = pointer
  BY DEF IngestTighten, Becomes
<1>4. Stricter(c.seen, c.class) \in Classes
  BY <1>2 DEF Stricter
<1>5. DOMAIN access' = DOMAIN access /\ \A f \in DOMAIN access' : access'[f] \in Classes
  BY <1>1, <1>2, <1>4 DEF IngestTighten, CacheTypeOK
<1>6. call' \in [Procs -> Call] /\ call'[p] = [step |-> "ingested", file |-> c.file]
  BY <1>1, <1>2, <1>3 DEF Call
<1>7. CallOK(p)' /\ ~Converting(p)'
  BY <1>2, <1>5, <1>6 DEF CallOK, Converting, At
<1>8. CallsOK' /\ RunsApart'
  BY <1>3, <1>5, <1>6, <1>7, CallsFrame
<1>9. CacheTypeOK'
  BY <1>1, <1>3, <1>5, <1>6 DEF CacheTypeOK
<1>10. LineageHolds'
  BY <1>1, <1>3 DEF LineageHolds, Produced
<1> QED
  BY <1>8, <1>9, <1>10 DEF CacheInv

-----------------------------------------------------------------------------
(* Converting a file *)

\* A reused success names a markdown.
LEMMA ConvertReuseKeeps ==
  ASSUME CacheInv, NEW p \in Procs, NEW f \in Files, NEW config \in Configs,
         ConvertReuse(p, f, config)
  PROVE  CacheInv'
<1>1. call \in [Procs -> Call] /\ runs \in Seq(Run)
  BY DEF CacheInv, CacheTypeOK
<1>2. UNCHANGED cache /\ f \in DOMAIN access
  BY DEF ConvertReuse
<1>3. PICK i \in DOMAIN runs :
        /\ i \in Successes(f, config)
        /\ call' = [call EXCEPT ![p] = [step |-> "converted", file |-> f, md |-> runs[i].md]]
  BY DEF ConvertReuse, Becomes, Newest
<1>4. runs[i].md \in Markdowns
  BY <1>1, <1>3, RunShape DEF Successes
<1>5. /\ call'[p] = [step |-> "converted", file |-> f, md |-> runs[i].md]
      /\ call' \in [Procs -> Call]
  BY <1>1, <1>3, <1>4 DEF Call
<1>6. CallOK(p)' /\ ~Converting(p)'
  BY <1>2, <1>5 DEF CallOK, Converting, At, cache
<1> QED
  BY <1>2, <1>3, <1>5, <1>6, ReadOnly

\* A conversion starts with a pending run of its own.
LEMMA ConvertBeginKeeps ==
  ASSUME CacheInv, NEW p \in Procs, NEW f \in Files, NEW config \in Configs,
         NEW force \in BOOLEAN, ConvertBegin(p, f, config, force)
  PROVE  CacheInv'
<1> DEFINE r == [file |-> f, config |-> config, status |-> "pending"]
           c == [step |-> "backend", file |-> f, class |-> access[f], run |-> Len(runs) + 1]
<1>1. /\ CacheTypeOK /\ LineageHolds /\ call \in [Procs -> Call]
      /\ runs \in Seq(Run) /\ Len(runs) <= MaxRuns
  BY DEF CacheInv, CacheTypeOK
<1>2. /\ f \in DOMAIN access /\ Len(runs) < MaxRuns
      /\ runs' = Append(runs, r) /\ call' = [call EXCEPT ![p] = c]
      /\ access' = access /\ pointer' = pointer
  BY DEF ConvertBegin, Becomes
<1>3. r \in Run
  BY DEF Run
<1>4. /\ runs' \in Seq(Run) /\ Len(runs') <= MaxRuns
      /\ Len(runs) + 1 \in 1..MaxRuns /\ Len(runs) + 1 \notin DOMAIN runs
      /\ DOMAIN runs' = DOMAIN runs \cup {Len(runs) + 1} /\ runs'[Len(runs) + 1] = r
      /\ \A k \in DOMAIN runs : runs'[k] = runs[k]
  BY <1>1, <1>2, <1>3, RunAppended
<1>5. access[f] \in Classes
  BY <1>1, <1>2 DEF CacheTypeOK
<1>6. call'[p] = c /\ call' \in [Procs -> Call]
  BY <1>1, <1>2, <1>4, <1>5 DEF Call
<1>7. CallOK(p)'
  BY <1>2, <1>4, <1>6 DEF CallOK, Converting, At
<1>8. CallsOK' /\ RunsApart'
  BY <1>2, <1>4, <1>6, <1>7, CallsFrame
<1>9. CacheTypeOK'
  BY <1>1, <1>2, <1>4, <1>6 DEF CacheTypeOK
<1>10. LineageHolds'
  BY <1>1, <1>2, <1>4, LineageFrame
<1> QED
  BY <1>8, <1>9, <1>10 DEF CacheInv

\* A failed conversion closes its own run.
LEMMA BackendFailsKeeps ==
  ASSUME CacheInv, NEW p \in Procs, BackendFails(p) PROVE CacheInv'
<1> DEFINE n == call[p].run
           r == [runs[n] EXCEPT !.status = "failed"]
<1>1. /\ CacheTypeOK /\ LineageHolds /\ call \in [Procs -> Call]
      /\ runs \in Seq(Run) /\ Len(runs) <= MaxRuns
  BY DEF CacheInv, CacheTypeOK
<1>2. Converting(p) /\ n \in DOMAIN runs /\ runs[n].status = "pending"
  BY DEF BackendFails, CacheInv, CallsOK, CallOK, Converting
<1>3. /\ runs' = [runs EXCEPT ![n] = r] /\ call' = [call EXCEPT ![p] = [step |-> "invalid"]]
      /\ access' = access /\ pointer' = pointer
  BY DEF BackendFails, Becomes
<1>4. r \in Run /\ r.status = "failed"
  BY <1>1, <1>2, RunShape DEF Run
<1> HIDE DEF r
<1>5. /\ runs' \in Seq(Run) /\ Len(runs') <= MaxRuns
      /\ DOMAIN runs' = DOMAIN runs /\ runs'[n] = r
      /\ \A k \in DOMAIN runs : k # n => runs'[k] = runs[k]
  BY <1>1, <1>2, <1>3, <1>4, RunReplaced
<1>6. call'[p] = [step |-> "invalid"] /\ call' \in [Procs -> Call]
  BY <1>1, <1>3 DEF Call
<1>7. CallOK(p)' /\ ~Converting(p)'
  BY <1>6 DEF CallOK, Converting, At
<1>8. CallsOK' /\ RunsApart'
  BY <1>2, <1>3, <1>5, <1>6, <1>7, CallsFrame
<1>9. CacheTypeOK'
  BY <1>1, <1>3, <1>5, <1>6 DEF CacheTypeOK
<1>10. LineageHolds'
  <2>1. \A i \in DOMAIN runs : runs[i].status = "success" => i \in DOMAIN runs' /\ runs'[i] = runs[i]
    BY <1>2, <1>5
  <2>2. \A i \in DOMAIN runs' : runs'[i].status = "success" => i \in DOMAIN runs /\ runs'[i] = runs[i]
    BY <1>4, <1>5
  <2> QED
    BY <1>1, <1>3, <2>1, <2>2, LineageFrame
<1> QED
  BY <1>8, <1>9, <1>10 DEF CacheInv

\* A conversion reads the row of what it produced.
LEMMA BackendYieldsKeeps ==
  ASSUME CacheInv, NEW p \in Procs, NEW m \in Markdowns, BackendYields(p, m) PROVE CacheInv'
<1> DEFINE c == [step |-> "store", file |-> call[p].file, class |-> call[p].class,
                 run |-> call[p].run, md |-> m, seen |-> ClassOf(m)]
<1>1. CacheTypeOK /\ CallOK(p) /\ call \in [Procs -> Call]
  BY DEF CacheInv, CacheTypeOK, CallsOK
<1>2. At(p, "backend") /\ call' = [call EXCEPT ![p] = c] /\ UNCHANGED cache
  BY DEF BackendYields, Becomes
<1>3. call[p].file \in Files /\ call[p].class \in Classes /\ call[p].run \in 1..MaxRuns
  BY <1>1, <1>2, CallShape
<1>4. ClassOf(m) \in Classes \cup {Unseen} /\ (ClassOf(m) # Unseen => m \in DOMAIN pointer)
  BY <1>1 DEF CacheTypeOK, ClassOf
<1>5. c \in Call
  BY <1>3, <1>4 DEF Call
<1>6. call'[p] = c /\ call' \in [Procs -> Call]
  BY <1>1, <1>2, <1>5
<1>7. Converting(p) /\ call'[p].run = call[p].run
  BY <1>2, <1>6 DEF Converting
<1>8. CallOK(p)'
  BY <1>1, <1>2, <1>4, <1>6 DEF CallOK, Converting, At, cache
<1> QED
  BY <1>2, <1>6, <1>7, <1>8, ReadOnly

-----------------------------------------------------------------------------
(* Storing what was produced *)

\* The three ways to store a markdown end alike: a success of a file is there
\* that names it, and its row is new, points at that file, or is as it was.
LEMMA StoredKeeps ==
  ASSUME CacheInv, NEW p \in Procs, NEW n, NEW f \in DOMAIN access, NEW m \in Markdowns,
         access' = access,
         call' \in [Procs -> Call], \A q \in Procs : q # p => call'[q] = call[q],
         call'[p] = [step |-> "converted", file |-> f, md |-> m],
         runs' \in Seq(Run), Len(runs') <= MaxRuns,
         DOMAIN runs' = DOMAIN runs \cup {n},
         runs'[n].file = f, runs'[n].status = "success", runs'[n].md = m,
         \A k \in DOMAIN runs : k # n => runs'[k] = runs[k],
         n \in DOMAIN runs => /\ Converting(p) /\ n = call[p].run
                             /\ runs[n].status = "pending",
         DOMAIN pointer' = DOMAIN pointer \cup {m},
         \A x \in DOMAIN pointer' : (x = m /\ pointer'[x] = f) \/ (x \in DOMAIN pointer /\ pointer'[x] = pointer[x])
  PROVE  CacheInv'
<1>1. CacheTypeOK /\ LineageHolds
  BY DEF CacheInv
<1>2. CallOK(p)' /\ ~Converting(p)'
  BY DEF CallOK, Converting, At
<1>3. CallsOK' /\ RunsApart'
  BY <1>2, CallsFrame
<1>4. CacheTypeOK'
  BY <1>1 DEF CacheTypeOK
<1>5. LineageHolds'
  BY <1>1, LineageFrame
<1> QED
  BY <1>3, <1>4, <1>5 DEF CacheInv

\* What a call in "store" works on.
LEMMA StoreFacts ==
  ASSUME CacheInv, NEW p \in Procs, At(p, "store")
  PROVE  /\ call \in [Procs -> Call] /\ runs \in Seq(Run) /\ Len(runs) <= MaxRuns
         /\ call[p].file \in DOMAIN access /\ call[p].md \in Markdowns
         /\ call[p].file \in Files /\ call[p].class \in Classes
         /\ Converting(p) /\ call[p].run \in DOMAIN runs
         /\ runs[call[p].run].status = "pending" /\ runs[call[p].run].file = call[p].file
         /\ call[p].seen # Unseen => call[p].md \in DOMAIN pointer /\ call[p].seen \in Classes
<1>1. call \in [Procs -> Call] /\ runs \in Seq(Run) /\ Len(runs) <= MaxRuns
  BY DEF CacheInv, CacheTypeOK
<1>2. /\ call[p].file \in Files /\ call[p].md \in Markdowns /\ call[p].class \in Classes
      /\ call[p].seen \in Classes \cup {Unseen}
  BY <1>1, CallShape
<1>3. CallOK(p) /\ Converting(p)
  BY DEF CacheInv, CallsOK, Converting
<1> QED
  BY <1>1, <1>2, <1>3 DEF CallOK, At

\* A pending run that succeeds.
LEMMA SucceededRun ==
  ASSUME runs \in Seq(Run), Len(runs) <= MaxRuns, NEW n \in DOMAIN runs, NEW m \in Markdowns,
         runs' = Succeeded(n, m)
  PROVE  /\ runs' \in Seq(Run) /\ Len(runs') <= MaxRuns
         /\ DOMAIN runs' = DOMAIN runs
         /\ runs'[n].file = runs[n].file /\ runs'[n].status = "success" /\ runs'[n].md = m
         /\ \A k \in DOMAIN runs : k # n => runs'[k] = runs[k]
<1> DEFINE r == [file |-> runs[n].file, config |-> runs[n].config, status |-> "success", md |-> m]
<1>1. r \in Run
  BY RunShape DEF Run
<1>2. runs' = [runs EXCEPT ![n] = r]
  BY DEF Succeeded
<1>3. r.file = runs[n].file /\ r.status = "success" /\ r.md = m
  OBVIOUS
<1> HIDE DEF r
<1> QED
  BY <1>1, <1>2, <1>3, RunReplaced

\* The row of a new markdown, or a failure if it is no longer new.
LEMMA StoreInsertKeeps ==
  ASSUME CacheInv, NEW p \in Procs, StoreInsert(p) PROVE CacheInv'
<1> DEFINE c == call[p]
<1>1. At(p, "store") /\ access' = access
  BY DEF StoreInsert
<1>2. CASE c.md \in DOMAIN pointer
  <2>1. call' = [call EXCEPT ![p] = [step |-> "error"]] /\ UNCHANGED cache
    BY <1>2 DEF StoreInsert, Becomes, cache
  <2>2. call' \in [Procs -> Call] /\ call'[p] = [step |-> "error"]
    BY <1>1, <2>1, StoreFacts DEF Call
  <2>3. CallOK(p)' /\ ~Converting(p)'
    BY <2>2 DEF CallOK, Converting, At
  <2>4. \A q \in Procs : q # p => call'[q] = call[q]
    BY <1>1, <2>1, StoreFacts
  <2> QED
    BY <2>1, <2>2, <2>3, <2>4, ReadOnly
<1>3. CASE c.md \notin DOMAIN pointer
  <2>1. /\ pointer' = [m \in DOMAIN pointer \cup {c.md} |-> IF m = c.md THEN c.file ELSE pointer[m]]
        /\ runs' = Succeeded(c.run, c.md)
        /\ call' = [call EXCEPT ![p] = [step |-> "converted", file |-> c.file, md |-> c.md]]
    BY <1>3 DEF StoreInsert, Becomes
  <2>2. /\ call' \in [Procs -> Call] /\ call'[p] = [step |-> "converted", file |-> c.file, md |-> c.md]
        /\ \A q \in Procs : q # p => call'[q] = call[q]
    BY <1>1, <2>1, StoreFacts DEF Call
  <2>3. /\ runs' \in Seq(Run) /\ Len(runs') <= MaxRuns
        /\ DOMAIN runs' = DOMAIN runs
        /\ runs'[c.run].file = runs[c.run].file
        /\ runs'[c.run].status = "success" /\ runs'[c.run].md = c.md
        /\ \A k \in DOMAIN runs : k # c.run => runs'[k] = runs[k]
    BY <1>1, <2>1, StoreFacts, SucceededRun
  <2>4. /\ DOMAIN pointer' = DOMAIN pointer \cup {c.md}
        /\ \A x \in DOMAIN pointer' : (x = c.md /\ pointer'[x] = c.file) \/ (x \in DOMAIN pointer /\ pointer'[x] = pointer[x])
    BY <2>1
  <2> QED
    BY <1>1, <2>2, <2>3, <2>4, StoreFacts, StoredKeeps
<1> QED
  BY <1>2, <1>3

\* A row repointed, or not.
LEMMA RepointedRow ==
  ASSUME NEW m \in DOMAIN pointer, NEW f, NEW class, NEW seen,
         pointer' = Repointed(m, f, class, seen)
  PROVE  /\ DOMAIN pointer' = DOMAIN pointer \cup {m}
         /\ \A x \in DOMAIN pointer' : (x = m /\ pointer'[x] = f) \/ (x \in DOMAIN pointer /\ pointer'[x] = pointer[x])
<1>1. CASE Stricter(seen, class) = seen
  BY <1>1 DEF Repointed
<1>2. CASE Stricter(seen, class) # seen
  BY <1>2 DEF Repointed
<1> QED
  BY <1>1, <1>2

\* A known markdown: its run succeeds, its row is kept or repointed.
LEMMA StoreReconcileKeeps ==
  ASSUME CacheInv, NEW p \in Procs, StoreReconcile(p) PROVE CacheInv'
<1> DEFINE c == call[p]
<1>1. /\ At(p, "store") /\ access' = access /\ c.seen # Unseen
      /\ pointer' = Repointed(c.md, c.file, c.class, c.seen)
      /\ runs' = Succeeded(c.run, c.md)
      /\ call' = [call EXCEPT ![p] = [step |-> "converted", file |-> c.file, md |-> c.md]]
  BY DEF StoreReconcile, Becomes
<1>2. /\ call' \in [Procs -> Call] /\ call'[p] = [step |-> "converted", file |-> c.file, md |-> c.md]
      /\ \A q \in Procs : q # p => call'[q] = call[q]
  BY <1>1, StoreFacts DEF Call
<1>3. /\ runs' \in Seq(Run) /\ Len(runs') <= MaxRuns
      /\ DOMAIN runs' = DOMAIN runs
      /\ runs'[c.run].file = runs[c.run].file
      /\ runs'[c.run].status = "success" /\ runs'[c.run].md = c.md
      /\ \A k \in DOMAIN runs : k # c.run => runs'[k] = runs[k]
  BY <1>1, StoreFacts, SucceededRun
<1>4. c.md \in DOMAIN pointer
  BY <1>1, StoreFacts
<1>5. /\ DOMAIN pointer' = DOMAIN pointer \cup {c.md}
      /\ \A x \in DOMAIN pointer' : (x = c.md /\ pointer'[x] = c.file) \/ (x \in DOMAIN pointer /\ pointer'[x] = pointer[x])
  <2>1. pointer' = Repointed(c.md, c.file, c.class, c.seen)
    BY <1>1
  <2> QED
    BY <1>4, <2>1, RepointedRow, ZenonT(30)
<1>6. c.file \in DOMAIN access /\ c.md \in Markdowns
  BY <1>1, StoreFacts
<1>7. c.run \in DOMAIN runs /\ runs[c.run].file = c.file /\ runs[c.run].status = "pending" /\ Converting(p)
  BY <1>1, StoreFacts
<1>8. access' = access
  BY <1>1
<1> QED
  BY <1>2, <1>3, <1>5, <1>6, <1>7, <1>8, StoredKeeps, SMTT(30)

\* import_external_markdown reads the class of the file.
LEMMA ImportSelectKeeps ==
  ASSUME CacheInv, NEW p \in Procs, NEW f \in Files, NEW m \in Markdowns, ImportSelect(p, f, m)
  PROVE  CacheInv'
<1> DEFINE c == [step |-> "import", file |-> f, class |-> access[f], md |-> m]
<1>1. call \in [Procs -> Call] /\ f \in DOMAIN access /\ access[f] \in Classes
  BY DEF CacheInv, CacheTypeOK, ImportSelect
<1>2. call' = [call EXCEPT ![p] = c] /\ UNCHANGED cache
  BY DEF ImportSelect, Becomes
<1>3. call'[p] = c /\ call' \in [Procs -> Call]
  BY <1>1, <1>2 DEF Call
<1>4. CallOK(p)' /\ ~Converting(p)'
  BY <1>1, <1>2, <1>3 DEF CallOK, Converting, At, cache
<1> QED
  BY <1>1, <1>2, <1>3, <1>4, ReadOnly

\* import_external_markdown writes a run and the row at once.
LEMMA ImportWriteKeeps ==
  ASSUME CacheInv, NEW p \in Procs, ImportWrite(p) PROVE CacheInv'
<1> DEFINE c == call[p]
           r == [file |-> c.file, config |-> "import", status |-> "success", md |-> c.md]
           n == Len(runs) + 1
<1>1. /\ call \in [Procs -> Call] /\ runs \in Seq(Run)
      /\ At(p, "import") /\ Len(runs) < MaxRuns /\ access' = access
      /\ runs' = Append(runs, r)
      /\ call' = [call EXCEPT ![p] = [step |-> "converted", file |-> c.file, md |-> c.md]]
  BY DEF CacheInv, CacheTypeOK, ImportWrite, Becomes
<1>2. c.file \in Files /\ c.md \in Markdowns /\ c.file \in DOMAIN access
  BY <1>1, CallShape DEF CacheInv, CallsOK, CallOK, At
<1>3. /\ call' \in [Procs -> Call] /\ call'[p] = [step |-> "converted", file |-> c.file, md |-> c.md]
      /\ \A q \in Procs : q # p => call'[q] = call[q]
  BY <1>1, <1>2 DEF Call
<1>4. r \in Run /\ r.file = c.file /\ r.status = "success" /\ r.md = c.md
  BY <1>2 DEF Run, Configs
<1> HIDE DEF r
<1>5. /\ runs' \in Seq(Run) /\ Len(runs') <= MaxRuns
      /\ n \notin DOMAIN runs /\ DOMAIN runs' = DOMAIN runs \cup {n} /\ runs'[n] = r
      /\ \A k \in DOMAIN runs : runs'[k] = runs[k]
  BY <1>1, <1>4, RunAppended
<1> HIDE DEF n
<1>6. /\ DOMAIN pointer' = DOMAIN pointer \cup {c.md}
      /\ \A x \in DOMAIN pointer' :
           (x = c.md /\ pointer'[x] = c.file) \/ (x \in DOMAIN pointer /\ pointer'[x] = pointer[x])
  <2>1. CASE c.md \in DOMAIN pointer
    <3>1. pointer' = Repointed(c.md, c.file, c.class, ClassOf(c.md))
      BY <2>1 DEF ImportWrite
    <3> QED
      BY <2>1, <3>1, RepointedRow, ZenonT(30)
  <2>2. CASE c.md \notin DOMAIN pointer
    <3>1. pointer' = [m \in DOMAIN pointer \cup {c.md} |-> IF m = c.md THEN c.file ELSE pointer[m]]
      BY <2>2 DEF ImportWrite
    <3> QED
      BY <3>1
  <2> QED
    BY <2>1, <2>2
<1> QED
  BY <1>1, <1>2, <1>3, <1>4, <1>5, <1>6, StoredKeeps

\* A call that is given up leaves what it has committed.
LEMMA QuitsKeeps ==
  ASSUME CacheInv, NEW p \in Procs, Quits(p) PROVE CacheInv'
<1>1. call \in [Procs -> Call]
  BY DEF CacheInv, CacheTypeOK
<1>2. call' = [call EXCEPT ![p] = [step |-> "idle"]] /\ UNCHANGED cache
  BY DEF Quits, Becomes
<1>3. call'[p] = [step |-> "idle"] /\ call' \in [Procs -> Call]
  BY <1>1, <1>2 DEF Call
<1>4. CallOK(p)' /\ ~Converting(p)'
  BY <1>3 DEF CallOK, Converting, At
<1> QED
  BY <1>1, <1>2, <1>3, <1>4, ReadOnly

-----------------------------------------------------------------------------
(* Every step keeps the invariant *)

\* Whatever a process does to the cache, by whichever program.
THEOREM CallActionKeeps ==
  ASSUME CacheInv, NEW p \in Procs, CallAction(p) PROVE CacheInv'
<1>1. CASE CallStep(p)
  BY <1>1, IngestInsertKeeps, IngestTightenKeeps, BackendFailsKeeps, BackendYieldsKeeps,
     StoreInsertKeeps, StoreReconcileKeeps, ImportWriteKeeps DEF CallStep
<1>2. CASE Quits(p)
  BY <1>2, QuitsKeeps
<1>3. ASSUME NEW f \in Files, NEW class \in Classes, IngestSelect(p, f, class) PROVE CacheInv'
  BY <1>3, IngestSelectKeeps
<1>4. ASSUME NEW f \in Files, NEW config \in Configs, ConvertReuse(p, f, config) PROVE CacheInv'
  BY <1>4, ConvertReuseKeeps
<1>5. ASSUME NEW f \in Files, NEW config \in Configs, NEW force \in BOOLEAN,
             ConvertBegin(p, f, config, force)
      PROVE  CacheInv'
  BY <1>5, ConvertBeginKeeps
<1>6. ASSUME NEW f \in Files, NEW m \in Markdowns, ImportSelect(p, f, m) PROVE CacheInv'
  BY <1>6, ImportSelectKeeps
<1> QED
  BY <1>1, <1>2, <1>3, <1>4, <1>5, <1>6 DEF CallAction

\* A step that touches neither the tables nor a call.
LEMMA StutterKeeps == CacheInv /\ UNCHANGED cacheVars => CacheInv'
BY DEF CacheInv, CacheTypeOK, CallsOK, CallOK, RunsApart, Converting, At, LineageHolds, Produced,
       cacheVars, cache

\* The cache's own commands are such processes.
LEMMA CommandsAreCalls == CacheNext => \E p \in Procs : CallAction(p)
<1>1. "default" \in Configs
  BY DEF Configs
<1> QED
  BY <1>1 DEF CacheNext, CallAction

\* The rows are well formed and lineage holds after every step and every crash,
\* whoever reads and writes beside (ingest_file, convert_source_file,
\* store_markdown_document, import_external_markdown).
THEOREM LineageAlways == CacheSpec => [](CacheTypeOK /\ LineageHolds)
<1>1. CacheInit => CacheInv
  BY InitCache
<1>2. CacheInv /\ [CacheNext]_cacheVars => CacheInv'
  BY CallActionKeeps, StutterKeeps, CommandsAreCalls
<1>3. CacheInv => CacheTypeOK /\ LineageHolds
  BY DEF CacheInv
<1> QED
  BY <1>1, <1>2, <1>3, PTL DEF CacheSpec

-----------------------------------------------------------------------------
(* Nothing is declassified *)

\* The classes the system's programs ask for (StartFlow): an open-access download
\* and a file of the user's own.
Asked == {Open, Private}

\* So no file has another, and no call asks for another or has read another.
AskedOnly ==
  /\ \A f \in DOMAIN access : access[f] \in Asked
  /\ \A p \in Procs :
       /\ call[p].step \in {"ingest", "backend", "store", "import"} => call[p].class \in Asked
       /\ call[p].step \in {"ingest", "store"} => call[p].seen \in Asked \cup {Unseen}

Level(class) == Restrictiveness[class]

\* The class a call has read of its file is at most that of the file now.
ReadsAreFloors ==
  \A p \in Procs : call[p].step \in {"backend", "store", "import"} =>
    Level(call[p].class) <= Level(access[call[p].file])

\* Classes are ordered by a number each.
LEMMA Levels ==
  /\ \A a \in Classes : Level(a) \in 1..5
  /\ \A a, b \in Classes : Level(a) = Level(b) => a = b
<1>1. \A a \in DOMAIN Restrictiveness : Level(a) \in 1..5
  BY DEF Restrictiveness, Level
<1>2. \A a, b \in DOMAIN Restrictiveness : Level(a) = Level(b) => a = b
  BY DEF Restrictiveness, Level
<1> QED
  BY <1>1, <1>2

\* Of the two, one that is stricter than another is the strictest.
LEMMA StricterIsTop ==
  ASSUME NEW seen \in Asked, NEW class \in Asked, Stricter(seen, class) # seen
  PROVE  Stricter(seen, class) = class /\ \A a \in Asked : Level(a) <= Level(class)
<1>1. Stricter(seen, class) = class /\ Level(class) > Level(seen)
  BY DEF Stricter, Level
<1>2. ASSUME NEW a \in Asked PROVE Level(a) <= Level(class)
  <2>1. a = seen \/ a = class
    BY <1>1, Levels, FlowClassesAssumption DEF Asked
  <2> QED
    BY <1>1, <2>1, Levels, FlowClassesAssumption DEF Asked
<1> QED
  BY <1>1, <1>2

\* A file only goes up: the only step that writes a known row is the tightening.
LEMMA FilesGoUp ==
  ASSUME AskedOnly, CacheInv, NEW p \in Procs, CallAction(p)
  PROVE  \A f \in DOMAIN access : f \in DOMAIN access' /\ Level(access[f]) <= Level(access'[f])
<1>1. \A f \in DOMAIN access : access[f] \in Classes
  BY DEF CacheInv, CacheTypeOK
<1>2. CASE access' = access
  BY <1>1, <1>2, Levels
<1>3. CASE IngestInsert(p)
  <2>1. CASE call[p].file \in DOMAIN access
    BY <1>2, <1>3, <2>1 DEF IngestInsert
  <2>2. CASE call[p].file \notin DOMAIN access
    <3>1. access' = [f \in DOMAIN access \cup {call[p].file} |->
                      IF f = call[p].file THEN call[p].class ELSE access[f]]
      BY <1>3, <2>2 DEF IngestInsert
    <3> QED
      BY <1>1, <2>2, <3>1, Levels
  <2> QED
    BY <2>1, <2>2
<1>4. CASE IngestTighten(p)
  <2> DEFINE c == call[p]
  <2>1. c.class \in Asked /\ c.seen \in Asked /\ Asked \subseteq Classes
    BY <1>4, FlowClassesAssumption DEF IngestTighten, AskedOnly, At, Asked
  <2>2. CASE Stricter(c.seen, c.class) = c.seen
    BY <1>2, <1>4, <2>2 DEF IngestTighten
  <2>3. CASE Stricter(c.seen, c.class) # c.seen
    <3>1. access' = [access EXCEPT ![c.file] = c.class]
      BY <1>4, <2>1, <2>3, StricterIsTop DEF IngestTighten
    <3>2. \A a \in Asked : Level(a) <= Level(c.class)
      BY <2>1, <2>3, StricterIsTop
    <3>3. \A f \in DOMAIN access : access[f] \in Asked
      BY DEF AskedOnly
    <3> QED
      BY <1>1, <2>1, <3>1, <3>2, <3>3, Levels
  <2> QED
    BY <2>2, <2>3
<1> QED
  BY <1>2, <1>3, <1>4
     DEF CallAction, CallStep, Quits, IngestSelect, ConvertReuse, ConvertBegin, ImportSelect,
         BackendFails, BackendYields, StoreInsert, StoreReconcile, ImportWrite, cache

\* A step of one process is no step of another.
LEMMA OnlyCaller ==
  ASSUME call \in [Procs -> Call], NEW p \in Procs, CallAction(p), NEW q \in Procs, q # p
  PROVE  call'[q] = call[q]
BY DEF CallAction, CallStep, Quits, IngestSelect, ConvertReuse, ConvertBegin, ImportSelect,
       IngestInsert, IngestTighten, BackendFails, BackendYields, StoreInsert, StoreReconcile,
       ImportWrite, Becomes

\* So what was read stays a floor.
LEMMA FloorsKept ==
  ASSUME AskedOnly, CacheInv, ReadsAreFloors, NEW p \in Procs, CallAction(p)
  PROVE  ReadsAreFloors'
<1> SUFFICES ASSUME NEW q \in Procs, call'[q].step \in {"backend", "store", "import"}
             PROVE  Level(call'[q].class) <= Level(access'[call'[q].file])
  BY DEF ReadsAreFloors
<1>1. /\ call \in [Procs -> Call] /\ \A f \in DOMAIN access : access[f] \in Classes
      /\ \A r \in Procs : CallOK(r)
  BY DEF CacheInv, CacheTypeOK, CallsOK
<1>2. \A f \in DOMAIN access : f \in DOMAIN access' /\ Level(access[f]) <= Level(access'[f])
  BY FilesGoUp
<1>3. \A f \in DOMAIN access' : access'[f] \in Classes
  <2>1. CacheInv'
    BY CallActionKeeps
  <2> QED
    BY <2>1 DEF CacheInv, CacheTypeOK
<1>4. \A r \in Procs : call[r].step \in {"backend", "store", "import"} =>
        /\ call[r].class \in Classes /\ call[r].file \in DOMAIN access
        /\ Level(call[r].class) <= Level(access[call[r].file])
  <2> SUFFICES ASSUME NEW r \in Procs, call[r].step \in {"backend", "store", "import"}
               PROVE  call[r].class \in Classes /\ call[r].file \in DOMAIN access
    BY DEF ReadsAreFloors
  <2>1. At(r, "backend") \/ At(r, "store") \/ At(r, "import")
    BY DEF At
  <2> QED
    BY <1>1, <2>1, CallShape DEF CallOK
<1>5. ASSUME NEW r \in Procs, call[r].step \in {"backend", "store", "import"}
      PROVE  Level(call[r].class) <= Level(access'[call[r].file])
  BY <1>1, <1>2, <1>3, <1>4, <1>5, Levels
<1>6. CASE q # p
  BY <1>1, <1>5, <1>6, OnlyCaller
<1>7. CASE q = p
  <2>1. ASSUME NEW m \in Markdowns, BackendYields(p, m)
        PROVE  Level(call'[p].class) <= Level(access'[call'[p].file])
    <3>1. At(p, "backend") /\ call'[p].class = call[p].class /\ call'[p].file = call[p].file
      BY <1>1, <2>1 DEF BackendYields, Becomes
    <3> QED
      BY <1>5, <3>1 DEF At
  <2>2. ASSUME NEW f \in Files, f \in DOMAIN access, UNCHANGED access,
               call'[p].class = access[f], call'[p].file = f
        PROVE  Level(call'[p].class) <= Level(access'[call'[p].file])
    BY <1>1, <2>2, Levels
  <2>3. ASSUME NEW f \in Files, NEW config \in Configs, NEW force \in BOOLEAN, ConvertBegin(p, f, config, force)
        PROVE  Level(call'[p].class) <= Level(access'[call'[p].file])
    BY <1>1, <2>2, <2>3 DEF ConvertBegin, Becomes
  <2>4. ASSUME NEW f \in Files, NEW m \in Markdowns, ImportSelect(p, f, m)
        PROVE  Level(call'[p].class) <= Level(access'[call'[p].file])
    BY <1>1, <2>2, <2>4 DEF ImportSelect, Becomes, cache
  <2>5. \/ \E m \in Markdowns : BackendYields(p, m)
        \/ \E f \in Files, config \in Configs, force \in BOOLEAN : ConvertBegin(p, f, config, force)
        \/ \E f \in Files, m \in Markdowns : ImportSelect(p, f, m)
    BY <1>1, <1>7 DEF CallAction, CallStep, Quits, IngestSelect, ConvertReuse,
         IngestInsert, IngestTighten, BackendFails, StoreInsert, StoreReconcile, ImportWrite, Becomes
  <2> QED
    BY <1>7, <2>1, <2>3, <2>4, <2>5
<1> QED
  BY <1>6, <1>7

\* A row points at a file that is at least as strict as the one it pointed at.
LEMMA RowsGoUp ==
  ASSUME AskedOnly, CacheInv, ReadsAreFloors, NEW p \in Procs, CallAction(p)
  PROVE  \A m \in DOMAIN pointer :
           m \in DOMAIN pointer' /\ Level(access[pointer[m]]) <= Level(access'[pointer'[m]])
<1> SUFFICES ASSUME NEW m \in DOMAIN pointer
             PROVE  m \in DOMAIN pointer' /\ Level(access[pointer[m]]) <= Level(access'[pointer'[m]])
  OBVIOUS
<1>1. /\ call \in [Procs -> Call] /\ \A f \in DOMAIN access : access[f] \in Classes
      /\ pointer[m] \in DOMAIN access
  BY DEF CacheInv, CacheTypeOK
<1>2. Level(access[pointer[m]]) <= Level(access'[pointer[m]])
  BY <1>1, FilesGoUp
<1>3. CASE m \in DOMAIN pointer' /\ pointer'[m] = pointer[m]
  BY <1>2, <1>3
<1>4. ASSUME NEW seen \in Asked, NEW r \in Procs, call[r].step \in {"store", "import"},
             pointer' = Repointed(call[r].md, call[r].file, call[r].class, seen), access' = access
      PROVE  m \in DOMAIN pointer' /\ Level(access[pointer[m]]) <= Level(access'[pointer'[m]])
  <2>1. /\ call[r].class \in Asked /\ call[r].file \in DOMAIN access
        /\ Level(call[r].class) <= Level(access[call[r].file])
        /\ Asked \subseteq Classes /\ access[pointer[m]] \in Asked
    <3>1. At(r, "store") \/ At(r, "import")
      BY <1>4 DEF At
    <3>2. call[r].class \in Asked /\ Asked \subseteq Classes /\ access[pointer[m]] \in Asked
      BY <1>1, <1>4, FlowClassesAssumption DEF AskedOnly, Asked
    <3> QED
      BY <1>1, <3>1, <3>2, CallShape DEF ReadsAreFloors, CacheInv, CallsOK, CallOK, At
  <2>2. CASE Stricter(seen, call[r].class) = seen \/ m # call[r].md
    <3>1. m \in DOMAIN pointer' /\ pointer'[m] = pointer[m]
      BY <1>4, <2>2 DEF Repointed
    <3> QED
      BY <1>3, <3>1
  <2>3. CASE Stricter(seen, call[r].class) # seen /\ m = call[r].md
    <3>1. m \in DOMAIN pointer' /\ pointer'[m] = call[r].file
      BY <1>4, <2>3 DEF Repointed
    <3>2. Level(access[pointer[m]]) <= Level(call[r].class)
      BY <1>4, <2>1, <2>3, StricterIsTop
    <3>3. access[call[r].file] \in Classes
      BY <1>1, <2>1
    <3> QED
      BY <1>1, <1>4, <2>1, <3>1, <3>2, <3>3, Levels
  <2> QED
    BY <2>2, <2>3
<1>5. CASE StoreReconcile(p)
  <2>1. At(p, "store") /\ call[p].seen # Unseen
    BY <1>5 DEF StoreReconcile
  <2>2. call[p].seen \in Asked
    BY <2>1 DEF AskedOnly, At
  <2> QED
    BY <1>4, <1>5, <2>1, <2>2 DEF StoreReconcile, At
<1>6. CASE ImportWrite(p)
  <2>1. At(p, "import") /\ access' = access
    BY <1>6 DEF ImportWrite
  <2>2. CASE call[p].md \in DOMAIN pointer
    <3>1. ClassOf(call[p].md) \in Asked
      BY <2>2 DEF ClassOf, CacheInv, CacheTypeOK, AskedOnly
    <3>2. pointer' = Repointed(call[p].md, call[p].file, call[p].class, ClassOf(call[p].md))
      BY <1>6, <2>2 DEF ImportWrite
    <3> QED
      BY <1>4, <2>1, <3>1, <3>2 DEF At
  <2>3. CASE call[p].md \notin DOMAIN pointer
    BY <1>3, <1>6, <2>3 DEF ImportWrite
  <2> QED
    BY <2>2, <2>3
<1>7. CASE StoreInsert(p)
  <2>1. CASE call[p].md \in DOMAIN pointer
    BY <1>3, <1>7, <2>1 DEF StoreInsert
  <2>2. CASE call[p].md \notin DOMAIN pointer
    BY <1>3, <1>7, <2>2 DEF StoreInsert
  <2> QED
    BY <2>1, <2>2
<1>8. CASE pointer' = pointer
  BY <1>3, <1>8
<1> QED
  BY <1>5, <1>6, <1>7, <1>8
     DEF CallAction, CallStep, Quits, IngestSelect, ConvertReuse, ConvertBegin, ImportSelect,
         BackendFails, BackendYields, IngestInsert, IngestTighten, cache

\* The initial cache has read nothing.
LEMMA InitFloors == CacheInit => ReadsAreFloors /\ AskedOnly
BY DEF CacheInit, ReadsAreFloors, AskedOnly

\* One step of one process loosens no row.
THEOREM CallActionTightens ==
  ASSUME AskedOnly, CacheInv, ReadsAreFloors, NEW p \in Procs, CallAction(p)
  PROVE  NoRowLoosens
<1>1. /\ \A f \in DOMAIN access : access[f] \in Classes
      /\ \A m \in DOMAIN pointer : pointer[m] \in DOMAIN access
  BY DEF CacheInv, CacheTypeOK
<1>2. /\ \A f \in DOMAIN access' : access'[f] \in Classes
      /\ \A m \in DOMAIN pointer' : pointer'[m] \in DOMAIN access'
  <2>1. CacheInv'
    BY CallActionKeeps
  <2> QED
    BY <2>1 DEF CacheInv, CacheTypeOK
<1>3. \A a, b \in Classes : Level(a) <= Level(b) <=> Restrictiveness[b] >= Restrictiveness[a]
  BY Levels DEF Level
<1> QED
  BY <1>1, <1>2, <1>3, FilesGoUp, RowsGoUp DEF NoRowLoosens

\* A step that writes no row loosens none.
LEMMA StutterTightens == CacheInv /\ UNCHANGED <<access, pointer>> => NoRowLoosens
<1> SUFFICES ASSUME CacheInv, UNCHANGED <<access, pointer>> PROVE NoRowLoosens
  OBVIOUS
<1>1. \A f \in DOMAIN access : Restrictiveness[access[f]] >= Restrictiveness[access[f]]
  <2>1. \A a \in Classes : Restrictiveness[a] >= Restrictiveness[a]
    BY Levels DEF Level
  <2> QED
    BY <2>1 DEF CacheInv, CacheTypeOK
<1> QED
  BY <1>1 DEF NoRowLoosens, CacheInv, CacheTypeOK

\* A call is about to write by a class that somebody has overwritten since it was
\* read.
Overtaken(p) ==
  \/ At(p, "ingest") /\ call[p].seen # Unseen /\ call[p].seen # access[call[p].file]
  \/ call[p].step \in {"store", "import"} /\ call[p].class # access[call[p].file]
  \/ At(p, "store") /\ call[p].seen # Unseen /\ call[p].seen # ClassOf(call[p].md)

\* A step that moves neither table's classes down.
LEMMA ClassesGoUp ==
  ASSUME CacheInv,
         \A f \in DOMAIN access :
           /\ f \in DOMAIN access' /\ access'[f] \in Classes
           /\ access'[f] = access[f] \/ Level(access[f]) < Level(access'[f]),
         \A m \in DOMAIN pointer :
           /\ m \in DOMAIN pointer' /\ pointer'[m] \in DOMAIN access'
           /\ \/ pointer'[m] = pointer[m]
              \/ access' = access /\ Level(access[pointer[m]]) < Level(access[pointer'[m]])
  PROVE  NoRowLoosens
<1>1. /\ \A f \in DOMAIN access : access[f] \in Classes
      /\ \A m \in DOMAIN pointer : pointer[m] \in DOMAIN access
  BY DEF CacheInv, CacheTypeOK
<1>2. \A a, b \in Classes : (a = b \/ Level(a) < Level(b)) => Restrictiveness[b] >= Restrictiveness[a]
  BY Levels DEF Level
<1> QED
  BY <1>1, <1>2 DEF NoRowLoosens

\* A call that writes by what still holds loosens no row, whatever the classes.
LEMMA FreshTightens ==
  ASSUME CacheInv, NEW p \in Procs, CallStep(p), ~Overtaken(p)
  PROVE  NoRowLoosens
<1> DEFINE c == call[p]
<1>1. /\ call \in [Procs -> Call] /\ CallOK(p)
      /\ \A f \in DOMAIN access : access[f] \in Classes
      /\ \A m \in DOMAIN pointer : pointer[m] \in DOMAIN access
  BY DEF CacheInv, CacheTypeOK, CallsOK
<1>2. CASE access' = access /\ pointer' = pointer
  BY <1>1, <1>2, ClassesGoUp
<1>3. CASE IngestInsert(p)
  <2>1. CASE c.file \in DOMAIN access
    BY <1>2, <1>3, <2>1 DEF IngestInsert
  <2>2. CASE c.file \notin DOMAIN access
    <3>1. /\ access' = [f \in DOMAIN access \cup {c.file} |-> IF f = c.file THEN c.class ELSE access[f]]
          /\ pointer' = pointer
      BY <1>3, <2>2 DEF IngestInsert
    <3>2. \A f \in DOMAIN access : f \in DOMAIN access' /\ access'[f] = access[f]
      BY <2>2, <3>1
    <3> QED
      BY <1>1, <3>1, <3>2, ClassesGoUp
  <2> QED
    BY <2>1, <2>2
<1>4. CASE IngestTighten(p)
  <2>1. /\ c.seen # Unseen /\ c.seen = access[c.file] /\ c.class \in Classes /\ pointer' = pointer
    BY <1>1, <1>4, CallShape DEF IngestTighten, Overtaken
  <2>2. CASE Stricter(c.seen, c.class) = c.seen
    BY <1>2, <1>4, <2>2 DEF IngestTighten
  <2>3. CASE Stricter(c.seen, c.class) # c.seen
    <3>1. access' = [access EXCEPT ![c.file] = c.class] /\ Level(c.seen) < Level(c.class)
      <4>1. Stricter(c.seen, c.class) = c.class /\ Level(c.class) > Level(c.seen)
        BY <2>3 DEF Stricter, Level
      <4>2. c.seen \in Classes
        BY <1>1, <1>4, <2>1, CallShape DEF IngestTighten
      <4> QED
        BY <1>4, <2>1, <2>3, <4>1, <4>2, Levels DEF IngestTighten
    <3>2. \A f \in DOMAIN access :
            /\ f \in DOMAIN access' /\ access'[f] \in Classes
            /\ access'[f] = access[f] \/ Level(access[f]) < Level(access'[f])
      BY <1>1, <2>1, <3>1
    <3> QED
      BY <1>1, <2>1, <3>1, <3>2, ClassesGoUp
  <2> QED
    BY <2>2, <2>3
<1>5. ASSUME access' = access, c.step \in {"store", "import"}, c.md \in DOMAIN pointer,
             pointer' = Repointed(c.md, c.file, c.class, ClassOf(c.md))
      PROVE  NoRowLoosens
  <2>1. /\ c.class = access[c.file] /\ c.file \in DOMAIN access
        /\ ClassOf(c.md) = access[pointer[c.md]] /\ ClassOf(c.md) \in Classes
    <3>1. At(p, "store") \/ At(p, "import")
      BY <1>5 DEF At
    <3> QED
      BY <1>1, <1>5, <3>1 DEF CallOK, Overtaken, ClassOf
  <2>2. CASE Stricter(ClassOf(c.md), c.class) = ClassOf(c.md)
    BY <1>2, <1>5, <2>2 DEF Repointed
  <2>3. CASE Stricter(ClassOf(c.md), c.class) # ClassOf(c.md)
    <3>1. pointer' = [pointer EXCEPT ![c.md] = c.file]
      BY <1>5, <2>3 DEF Repointed
    <3>2. Level(ClassOf(c.md)) < Level(c.class)
      <4>1. Level(c.class) > Level(ClassOf(c.md))
        BY <2>3 DEF Stricter, Level
      <4>2. c.class \in Classes
        BY <1>1, <2>1
      <4> QED
        BY <2>1, <4>1, <4>2, Levels
    <3>3. \A m \in DOMAIN pointer :
            /\ m \in DOMAIN pointer' /\ pointer'[m] \in DOMAIN access
            /\ \/ pointer'[m] = pointer[m]
               \/ Level(access[pointer[m]]) < Level(access[pointer'[m]])
      BY <1>1, <2>1, <3>1, <3>2
    <3> QED
      BY <1>1, <1>5, <3>3, ClassesGoUp
  <2> QED
    BY <2>2, <2>3
<1>6. ASSUME access' = access, c.file \in DOMAIN access, c.md \notin DOMAIN pointer,
             pointer' = [m \in DOMAIN pointer \cup {c.md} |-> IF m = c.md THEN c.file ELSE pointer[m]]
      PROVE  NoRowLoosens
  <2>1. \A m \in DOMAIN pointer : m \in DOMAIN pointer' /\ pointer'[m] = pointer[m]
    BY <1>6
  <2> QED
    BY <1>1, <1>6, <2>1, ClassesGoUp
<1>7. CASE StoreInsert(p)
  <2>1. CASE c.md \in DOMAIN pointer
    BY <1>2, <1>7, <2>1 DEF StoreInsert
  <2>2. CASE c.md \notin DOMAIN pointer
    BY <1>1, <1>6, <1>7, <2>2, StoreFacts DEF StoreInsert
  <2> QED
    BY <2>1, <2>2
<1>8. CASE StoreReconcile(p)
  <2>1. At(p, "store") /\ c.seen # Unseen /\ c.seen = ClassOf(c.md) /\ access' = access
    BY <1>8 DEF StoreReconcile, Overtaken
  <2>2. c.md \in DOMAIN pointer
    BY <2>1, StoreFacts
  <2> QED
    BY <1>5, <1>8, <2>1, <2>2 DEF StoreReconcile, At
<1>9. CASE ImportWrite(p)
  <2>1. At(p, "import") /\ access' = access /\ c.file \in DOMAIN access
    BY <1>1, <1>9 DEF ImportWrite, CallOK, At
  <2>2. CASE c.md \in DOMAIN pointer
    BY <1>5, <1>9, <2>1, <2>2 DEF ImportWrite, At
  <2>3. CASE c.md \notin DOMAIN pointer
    BY <1>6, <1>9, <2>1, <2>3 DEF ImportWrite
  <2> QED
    BY <2>2, <2>3
<1>10. CASE BackendFails(p) \/ \E m \in Markdowns : BackendYields(p, m)
  BY <1>2, <1>10 DEF BackendFails, BackendYields, cache
<1> QED
  BY <1>3, <1>4, <1>7, <1>8, <1>9, <1>10 DEF CallStep

\* For all five classes the cache's commands ask for, and any number of processes:
\* if a step does leave a file or a markdown less restrictive than it was, then
\* the call that takes it writes by a class another process has overwritten since
\* the call read it (ingest.py:192-219, convert.py:275-311).
THEOREM OnlyOvertakenLoosen ==
  CacheSpec => [][NoRowLoosens \/ \E p \in Procs : Overtaken(p) /\ CallStep(p)]_cacheVars
<1>1. CacheInit => CacheInv
  BY InitCache
<1>2. CacheInv /\ [CacheNext]_cacheVars => CacheInv'
  BY CallActionKeeps, StutterKeeps, CommandsAreCalls
<1>3. CacheInv /\ [CacheNext]_cacheVars =>
        [NoRowLoosens \/ \E p \in Procs : Overtaken(p) /\ CallStep(p)]_cacheVars
  <2> SUFFICES ASSUME CacheInv, CacheNext
               PROVE  NoRowLoosens \/ \E p \in Procs : Overtaken(p) /\ CallStep(p)
    OBVIOUS
  <2>1. PICK p \in Procs : CallAction(p)
    BY CommandsAreCalls
  <2>2. CASE CallStep(p)
    BY <2>2, FreshTightens
  <2>3. CASE ~CallStep(p)
    <3>1. UNCHANGED <<access, pointer>>
      BY <2>1, <2>3
         DEF CallAction, Quits, IngestSelect, ConvertReuse, ConvertBegin, ImportSelect, cache
    <3> QED
      BY <3>1, StutterTightens
  <2> QED
    BY <2>2, <2>3
<1> QED
  BY <1>1, <1>2, <1>3, PTL DEF CacheSpec

\* What calls ask for and read stays among the classes the programs ask for.
Asks(p) == call'[p].step = "ingest" => call'[p].class \in Asked

LEMMA AskedKept ==
  ASSUME AskedOnly, CacheInv, NEW p \in Procs, CallAction(p), Asks(p)
  PROVE  AskedOnly'
<1>1. /\ call \in [Procs -> Call] /\ \A f \in DOMAIN access : access[f] \in Asked
      /\ \A m \in DOMAIN pointer : pointer[m] \in DOMAIN access
  BY DEF AskedOnly, CacheInv, CacheTypeOK
<1>2. \A f \in DOMAIN access' : access'[f] \in Asked
  <2>1. CASE access' = access
    BY <1>1, <2>1
  <2>2. CASE IngestInsert(p)
    <3>1. call[p].class \in Asked
      BY <2>2 DEF IngestInsert, At, AskedOnly
    <3> QED
      BY <1>1, <2>2, <3>1 DEF IngestInsert
  <2>3. CASE IngestTighten(p)
    <3>1. call[p].class \in Asked /\ call[p].seen \in Asked
      BY <2>3 DEF IngestTighten, At, AskedOnly
    <3>2. Stricter(call[p].seen, call[p].class) \in Asked
      BY <3>1 DEF Stricter
    <3> QED
      BY <1>1, <2>3, <3>2 DEF IngestTighten
  <2> QED
    BY <2>1, <2>2, <2>3
       DEF CallAction, CallStep, Quits, IngestSelect, ConvertReuse, ConvertBegin, ImportSelect,
           BackendFails, BackendYields, StoreInsert, StoreReconcile, ImportWrite, cache
<1>3. \A m \in Markdowns : ClassOf(m) \in Asked \cup {Unseen}
  BY <1>1 DEF ClassOf
<1> DEFINE Holds ==
      /\ call'[p].step \in {"ingest", "backend", "store", "import"} => call'[p].class \in Asked
      /\ call'[p].step \in {"ingest", "store"} => call'[p].seen \in Asked \cup {Unseen}
<1>4. Holds
  <2>1. ASSUME NEW f \in Files, NEW class \in Classes, IngestSelect(p, f, class) PROVE Holds
    BY <1>1, <2>1 DEF IngestSelect, Becomes, Asks
  <2>2. ASSUME NEW m \in Markdowns, BackendYields(p, m) PROVE Holds
    <3>1. call[p].class \in Asked
      BY <2>2 DEF BackendYields, At, AskedOnly
    <3> QED
      BY <1>1, <1>3, <2>2, <3>1 DEF BackendYields, Becomes
  <2>3. ASSUME NEW f \in Files, NEW config \in Configs, NEW force \in BOOLEAN,
               ConvertBegin(p, f, config, force)
        PROVE  Holds
    BY <1>1, <2>3 DEF ConvertBegin, Becomes
  <2>4. ASSUME NEW f \in Files, NEW m \in Markdowns, ImportSelect(p, f, m) PROVE Holds
    BY <1>1, <2>4 DEF ImportSelect, Becomes
  <2>5. CASE call'[p].step \notin {"ingest", "backend", "store", "import"}
    BY <2>5
  <2>6. \/ \E f \in Files, class \in Classes : IngestSelect(p, f, class)
        \/ \E m \in Markdowns : BackendYields(p, m)
        \/ \E f \in Files, config \in Configs, force \in BOOLEAN : ConvertBegin(p, f, config, force)
        \/ \E f \in Files, m \in Markdowns : ImportSelect(p, f, m)
        \/ call'[p].step \notin {"ingest", "backend", "store", "import"}
    <3>1. ASSUME NEW c, Becomes(p, c), c.step \notin {"ingest", "backend", "store", "import"}
          PROVE  call'[p].step \notin {"ingest", "backend", "store", "import"}
      BY <1>1, <3>1 DEF Becomes
    <3>2. CASE Quits(p) \/ BackendFails(p) \/ IngestInsert(p) \/ IngestTighten(p)
      BY <3>1, <3>2 DEF Quits, BackendFails, IngestInsert, IngestTighten
    <3>3. CASE StoreInsert(p) \/ StoreReconcile(p) \/ ImportWrite(p)
      BY <3>1, <3>3 DEF StoreInsert, StoreReconcile, ImportWrite
    <3>4. ASSUME NEW f \in Files, NEW config \in Configs, ConvertReuse(p, f, config)
          PROVE  call'[p].step \notin {"ingest", "backend", "store", "import"}
      BY <3>1, <3>4 DEF ConvertReuse
    <3> QED
      BY <3>2, <3>3, <3>4 DEF CallAction, CallStep
  <2> QED
    BY <2>1, <2>2, <2>3, <2>4, <2>5, <2>6
<1> QED
  BY <1>1, <1>2, <1>4, OnlyCaller DEF AskedOnly

-----------------------------------------------------------------------------
(* II. The system. *)

\* A worker waits for one of the children, if it waits.
WaitsForChild == \A k \in Workers : child[k] \in Children \cup {NoOne}

\* The calls of some processes are lost with them; what they committed stays.
Lost ==
  /\ UNCHANGED cache
  /\ \E gone \in SUBSET Procs :
       call' = [p \in Procs |-> IF p \in gone THEN [step |-> "idle"] ELSE call[p]]

-----------------------------------------------------------------------------

\* Workers wait for children only.
LEMMA WaitsInit == Init => WaitsForChild
BY DEF Init, WaitsForChild

\* And go on to.
LEMMA WaitsKept == WaitsForChild /\ [Next]_vars => WaitsForChild'
<1> SUFFICES ASSUME WaitsForChild, [Next]_vars PROVE WaitsForChild'
  OBVIOUS
<1>1. CASE child' = child
  BY <1>1 DEF WaitsForChild
<1>2. ASSUME NEW k \in Workers, Take(k) PROVE WaitsForChild'
  <2>1. PICK p \in Children : child' = [child EXCEPT ![k] = p]
    BY <1>2 DEF Take, Spare
  <2> QED
    BY <2>1 DEF WaitsForChild
<1>3. ASSUME NEW k \in Workers, child' = [child EXCEPT ![k] = NoOne] PROVE WaitsForChild'
  BY <1>3 DEF WaitsForChild
<1>4. ASSUME NEW survivors \in SUBSET Children, Restart(survivors) PROVE WaitsForChild'
  BY <1>4 DEF Restart, WaitsForChild
<1>5. \/ child' = child
      \/ \E k \in Workers : Take(k) \/ child' = [child EXCEPT ![k] = NoOne]
      \/ \E survivors \in SUBSET Children : Restart(survivors)
  <2>1. ASSUME NEW p \in Procs, ProcStep(p) PROVE child' = child
    BY <2>1 DEF ProcStep, ProgramStep, Convert, Ocr, FolderStop, FolderMatch, Import, BridgeSelect, BridgeWrite,
         Fail, Announce, Put, Backfilled, Dies, ChildKilled, server
  <2> QED
    BY <2>1 DEF Next, vars, server, StartFlow, StartPool, Collect, Timeout
<1> QED
  BY <1>1, <1>2, <1>3, <1>4, <1>5

\* Every step of the system is a step of one call, leaves the cache alone, or
\* loses calls.
LEMMA StepsAreCalls ==
  ASSUME CacheInv, WaitsForChild, Next
  PROVE  (\E p \in Procs : CallAction(p)) \/ UNCHANGED cacheVars \/ Lost
<1> DEFINE Goal == (\E p \in Procs : CallAction(p)) \/ UNCHANGED cacheVars \/ Lost
<1>1. /\ DOMAIN access \subseteq Files
      /\ {"default", "ocr"} \subseteq Configs /\ {Open, Private} \subseteq Classes
  BY FlowClassesAssumption DEF CacheInv, CacheTypeOK, Configs
<1>2. ASSUME NEW p \in Procs, Quits(p) PROVE Goal
  BY <1>2 DEF CallAction
<1>3. ASSUME NEW p \in Procs, NEW config \in {"default", "ocr"}, NEW force \in BOOLEAN,
             Converts(p, config, force)
      PROVE  Goal
  <2>1. CASE ConvertReuse(p, job[p].file, config)
    <3>1. job[p].file \in Files
      BY <1>1, <2>1 DEF ConvertReuse
    <3> QED
      BY <1>1, <2>1, <3>1 DEF CallAction
  <2>2. CASE ConvertBegin(p, job[p].file, config, force)
    <3>1. job[p].file \in Files
      BY <1>1, <2>2 DEF ConvertBegin
    <3> QED
      BY <1>1, <2>2, <3>1 DEF CallAction
  <2> QED
    BY <1>3, <2>1, <2>2 DEF Converts
<1>4. ASSUME NEW p \in Procs, ProcStep(p) PROVE Goal
  <2>1. CASE CallStep(p)
    BY <2>1 DEF CallAction
  <2>2. CASE Convert(p)
    BY <1>3, <2>2 DEF Convert
  <2>3. CASE Ocr(p)
    BY <1>3, <2>3 DEF Ocr
  <2>4. ASSUME NEW m \in Markdowns, Import(p, m) PROVE Goal
    <3>1. ImportSelect(p, job[p].file, m)
      BY <2>4 DEF Import
    <3>2. job[p].file \in Files
      BY <1>1, <3>1 DEF ImportSelect
    <3> QED
      BY <3>1, <3>2 DEF CallAction
  <2>5. CASE \/ FolderStop(p) \/ BridgeWrite(p) \/ Fail(p) \/ Put(p) \/ Dies(p) \/ ChildKilled(p)
    BY <1>2, <2>5 DEF FolderStop, BridgeWrite, Fail, Put, Dies, ChildKilled, Ends, Moves
  <2>6. CASE FolderMatch(p) \/ BridgeSelect(p) \/ Announce(p) \/ Backfilled(p)
    BY <2>6 DEF FolderMatch, BridgeSelect, Announce, Backfilled
  <2> QED
    BY <1>4, <2>1, <2>2, <2>3, <2>4, <2>5, <2>6 DEF ProcStep, ProgramStep
<1>5. ASSUME NEW p \in Clients, NEW flow \in AllFlows, NEW w \in Works, NEW f \in Files,
             StartFlow(p, flow, w, f)
      PROVE  Goal
  <2>1. p \in Procs
    BY ProcsAssumption
  <2>2. PICK class \in Classes : IngestSelect(p, f, class)
    BY <1>1, <1>5 DEF StartFlow
  <2> QED
    BY <2>1, <2>2 DEF CallAction
<1>6. ASSUME NEW k \in Workers, Collect(k) \/ Timeout(k) PROVE Goal
  <2>1. child[k] \in Procs
    BY <1>6, ProcsAssumption DEF WaitsForChild, Collect, Timeout
  <2>2. Quits(child[k])
    BY <1>6 DEF Collect, Timeout, Ends
  <2> QED
    BY <1>2, <2>1, <2>2
<1>7. ASSUME NEW k \in Workers, Take(k) PROVE Goal
  BY <1>7 DEF Take
<1>8. CASE StartPool
  BY <1>8 DEF StartPool
<1>9. ASSUME NEW survivors \in SUBSET Children, Restart(survivors) PROVE Goal
  <2> DEFINE gone == {p \in Clients : job[p] # Free /\ job[p].flow = "web"} \cup (Served \ survivors)
  <2>1. call' = [p \in Procs |-> IF p \in gone \cap Procs THEN [step |-> "idle"] ELSE call[p]]
    BY <1>9 DEF Restart
  <2> HIDE DEF gone
  <2>2. UNCHANGED cache
    BY <1>9 DEF Restart
  <2> QED
    BY <2>1, <2>2 DEF Lost
<1>10. CASE \E p \in Clients, flow \in AllFlows, w \in Works, f \in Files : StartFlow(p, flow, w, f)
  BY <1>5, <1>10
<1>11. CASE \E p \in Procs : ProcStep(p)
  BY <1>4, <1>11
<1>12. CASE \E k \in Workers : Take(k) \/ Collect(k) \/ Timeout(k)
  BY <1>6, <1>7, <1>12
<1>13. CASE \E survivors \in SUBSET Children : Restart(survivors)
  BY <1>9, <1>13
<1>14. Goal
  BY <1>8, <1>10, <1>11, <1>12, <1>13 DEF Next
<1> QED
  BY <1>14 DEF Goal

\* Lost calls take nothing with them that others rely on.
LEMMA LostKeepsCache == ASSUME CacheInv, Lost PROVE CacheInv'
<1>1. /\ access' = access /\ runs' = runs /\ pointer' = pointer
      /\ call \in [Procs -> Call]
  BY DEF Lost, cache, CacheInv, CacheTypeOK
<1>2. \A p \in Procs : call'[p] = call[p] \/ call'[p] = [step |-> "idle"]
  BY DEF Lost
<1>3. call' \in [Procs -> Call]
  <2>1. [step |-> "idle"] \in Call
    BY DEF Call
  <2> QED
    BY <1>1, <2>1 DEF Lost
<1>4. CacheTypeOK'
  BY <1>1, <1>3 DEF CacheInv, CacheTypeOK
<1>5. CallsOK'
  <2> SUFFICES ASSUME NEW p \in Procs PROVE CallOK(p)'
    BY DEF CallsOK
  <2>1. CASE call'[p] = call[p]
    <3>1. CallOK(p)
      BY DEF CacheInv, CallsOK
    <3> QED
      BY <1>1, <2>1, <3>1 DEF CallOK, Converting, At
  <2>2. CASE call'[p] = [step |-> "idle"]
    BY <2>2 DEF CallOK, Converting, At
  <2> QED
    BY <1>2, <2>1, <2>2
<1>6. RunsApart'
  <2>1. \A p \in Procs : Converting(p)' => Converting(p) /\ call'[p].run = call[p].run
    BY <1>2 DEF Converting, At
  <2> QED
    BY <2>1 DEF CacheInv, RunsApart
<1>7. LineageHolds'
  BY <1>1 DEF CacheInv, LineageHolds, Produced
<1> QED
  BY <1>4, <1>5, <1>6, <1>7 DEF CacheInv

\* What a lost call has read does not matter any more.
LEMMA LostKeepsFloors == ASSUME ReadsAreFloors, Lost PROVE ReadsAreFloors'
<1>1. access' = access /\ \A p \in Procs : call'[p] = call[p] \/ call'[p] = [step |-> "idle"]
  BY DEF Lost, cache
<1> QED
  BY <1>1 DEF ReadsAreFloors

-----------------------------------------------------------------------------

\* The cache is well formed and its lineage holds whatever programs run, crash
\* and survive beside each other (cache/ingest.py, cache/convert.py,
\* web/marker_queue.py, acquisition/service.py).
THEOREM SystemLineage == Spec => [](CacheTypeOK /\ LineageHolds)
<1>1. Init => CacheInv /\ WaitsForChild
  BY InitCache, WaitsInit DEF Init
<1>2. CacheInv /\ WaitsForChild /\ [Next]_vars => (CacheInv /\ WaitsForChild)'
  <2> SUFFICES ASSUME CacheInv, WaitsForChild, [Next]_vars PROVE CacheInv'
    BY WaitsKept
  <2>1. CASE UNCHANGED cacheVars
    BY <2>1, StutterKeeps
  <2>2. CASE \E p \in Procs : CallAction(p)
    BY <2>2, CallActionKeeps
  <2>3. CASE Lost
    BY <2>3, LostKeepsCache
  <2> QED
    BY <2>1, <2>2, <2>3, StepsAreCalls DEF vars
<1>3. CacheInv => CacheTypeOK /\ LineageHolds
  BY DEF CacheInv
<1> QED
  BY <1>1, <1>2, <1>3, PTL DEF Spec

\* The web programs ask for open and private only.
LEMMA SystemAsks ==
  ASSUME call \in [Procs -> Call], AskedOnly, WaitsForChild, Next, NEW p \in Procs
  PROVE  call'[p] = call[p] \/ Asks(p)
<1> DEFINE Goal == call'[p] = call[p] \/ Asks(p)
<1>1. ASSUME NEW q \in Procs, NEW c, Becomes(q, c), c.step # "ingest" PROVE Goal
  BY <1>1 DEF Becomes, Asks
<1>2. ASSUME UNCHANGED call PROVE Goal
  BY <1>2
<1>3. ASSUME NEW q \in Procs, Quits(q) PROVE Goal
  BY <1>1, <1>3 DEF Quits
<1>4. ASSUME NEW q \in Procs, NEW f, NEW config, NEW force, ConvertReuse(q, f, config) \/ ConvertBegin(q, f, config, force)
      PROVE  Goal
  BY <1>1, <1>4 DEF ConvertReuse, ConvertBegin
<1>5. ASSUME NEW q \in Procs, CallStep(q) PROVE Goal
  <2>1. CASE BackendFails(q) \/ \E m \in Markdowns : BackendYields(q, m)
    BY <1>1, <2>1 DEF BackendFails, BackendYields
  <2>2. CASE IngestInsert(q) \/ IngestTighten(q)
    BY <1>1, <2>2 DEF IngestInsert, IngestTighten
  <2>3. CASE StoreInsert(q) \/ StoreReconcile(q) \/ ImportWrite(q)
    BY <1>1, <2>3 DEF StoreInsert, StoreReconcile, ImportWrite
  <2> QED
    BY <1>5, <2>1, <2>2, <2>3 DEF CallStep
<1>6. ASSUME NEW q \in Procs, ProcStep(q) PROVE Goal
  <2>1. CASE Convert(q) \/ Ocr(q)
    BY <1>4, <2>1 DEF Convert, Ocr, Converts
  <2>2. ASSUME NEW m \in Markdowns, Import(q, m) PROVE Goal
    BY <1>1, <2>2 DEF Import, ImportSelect
  <2>3. CASE \/ FolderStop(q) \/ BridgeWrite(q) \/ Fail(q) \/ Put(q) \/ Dies(q) \/ ChildKilled(q)
    BY <1>3, <2>3 DEF FolderStop, BridgeWrite, Fail, Put, Dies, ChildKilled, Ends, Moves
  <2>4. CASE FolderMatch(q) \/ BridgeSelect(q) \/ Announce(q) \/ Backfilled(q)
    BY <1>2, <2>4 DEF FolderMatch, BridgeSelect, Announce, Backfilled, cacheVars
  <2> QED
    BY <1>5, <1>6, <2>1, <2>2, <2>3, <2>4 DEF ProcStep, ProgramStep
<1>7. ASSUME NEW q \in Clients, NEW flow \in AllFlows, NEW w \in Works, NEW f \in Files,
             StartFlow(q, flow, w, f)
      PROVE  Goal
  <2>1. PICK class \in Asked : IngestSelect(q, f, class)
    BY <1>7 DEF StartFlow, Asked
  <2>2. q \in Procs
    BY ProcsAssumption
  <2>3. CASE p = q
    BY <2>1, <2>2, <2>3 DEF IngestSelect, Becomes, Asks
  <2>4. CASE p # q
    BY <2>1, <2>2, <2>4 DEF IngestSelect, Becomes
  <2> QED
    BY <2>3, <2>4
<1>8. ASSUME NEW k \in Workers, Collect(k) \/ Timeout(k) PROVE Goal
  <2>1. child[k] \in Procs /\ Quits(child[k])
    BY <1>8, ProcsAssumption DEF WaitsForChild, Collect, Timeout, Ends
  <2> QED
    BY <1>3, <2>1
<1>9. ASSUME NEW k \in Workers, Take(k) PROVE Goal
  BY <1>2, <1>9 DEF Take, cacheVars
<1>10. CASE StartPool
  BY <1>2, <1>10 DEF StartPool, cacheVars
<1>11. ASSUME NEW survivors \in SUBSET Children, Restart(survivors) PROVE Goal
  BY <1>11 DEF Restart, Asks
<1>12. CASE \E q \in Procs : ProcStep(q)
  BY <1>6, <1>12
<1>13. CASE \E q \in Clients, flow \in AllFlows, w \in Works, f \in Files : StartFlow(q, flow, w, f)
  BY <1>7, <1>13
<1>14. Goal
  BY <1>8, <1>9, <1>10, <1>11, <1>12, <1>13 DEF Next
<1> QED
  BY <1>14 DEF Goal

\* A lost call asks nothing any more.
LEMMA LostKeepsAsked == ASSUME AskedOnly, Lost PROVE AskedOnly'
<1>1. access' = access /\ \A p \in Procs : call'[p] = call[p] \/ call'[p] = [step |-> "idle"]
  BY DEF Lost, cache
<1> QED
  BY <1>1 DEF AskedOnly

\* Nothing the web programs share is ever declassified, however old the class and
\* the row a call has read are when it writes: they ask for two classes only
\* (acquisition/service.py:229, 343, 727), and of two the stricter is the strictest
\* (reconcile_access_class, store_markdown_document: "never-downgrade").
THEOREM SystemNeverLoosens == Spec => NeverLoosens
<1> DEFINE Inv == CacheInv /\ ReadsAreFloors /\ AskedOnly /\ WaitsForChild
<1>1. Init => Inv
  BY InitCache, InitFloors, WaitsInit DEF Init
<1>2. Inv /\ [Next]_vars => Inv'
  <2> SUFFICES ASSUME CacheInv, ReadsAreFloors, AskedOnly, WaitsForChild, [Next]_vars
               PROVE  CacheInv' /\ ReadsAreFloors' /\ AskedOnly'
    BY WaitsKept
  <2>1. CASE UNCHANGED cacheVars
    BY <2>1, StutterKeeps DEF ReadsAreFloors, AskedOnly, cacheVars, cache
  <2>2. ASSUME NEW p \in Procs, CallAction(p), ~UNCHANGED cacheVars
        PROVE  CacheInv' /\ ReadsAreFloors' /\ AskedOnly'
    <3>1. CacheInv' /\ ReadsAreFloors'
      BY <2>2, CallActionKeeps, FloorsKept
    <3>2. CASE Asks(p)
      BY <2>2, <3>1, <3>2, AskedKept
    <3>3. CASE call'[p] = call[p]
      <4>1. Asks(p)
        BY <3>3 DEF AskedOnly, Asks
      <4> QED
        BY <2>2, <3>1, <4>1, AskedKept
    <3>4. call'[p] = call[p] \/ Asks(p)
      BY <2>2, SystemAsks DEF CacheInv, CacheTypeOK, vars, cacheVars, cache
    <3> QED
      BY <3>2, <3>3, <3>4
  <2>3. CASE Lost
    BY <2>3, LostKeepsCache, LostKeepsFloors, LostKeepsAsked
  <2> QED
    BY <2>1, <2>2, <2>3, StepsAreCalls DEF vars
<1>3. Inv /\ [Next]_vars => [NoRowLoosens]_cacheVars
  <2> SUFFICES ASSUME Inv, [Next]_vars, ~UNCHANGED cacheVars PROVE NoRowLoosens
    OBVIOUS
  <2>1. CASE \E p \in Procs : CallAction(p)
    BY <2>1, CallActionTightens
  <2>2. CASE Lost
    BY <2>2, StutterTightens DEF Lost, cache
  <2> QED
    BY <2>1, <2>2, StepsAreCalls DEF vars
<1> HIDE DEF Inv
<1> QED
  BY <1>1, <1>2, <1>3, PTL DEF Spec, NeverLoosens

-----------------------------------------------------------------------------
(* The server's status map *)

\* What the process behind a job may be doing.  Clients are never children, an
\* upload of the server only ingests and enqueues, and who is about to write a
\* bridge row holds a finished conversion.
JobOK(p) ==
  /\ Stage(p) = "bridge" =>
       /\ At(p, "converted")
       /\ job[p].seen # NoRow => bridge[job[p].work] # NoRow
  /\ p \in Clients /\ Stage(p) # "free" =>
       /\ job[p].flow # "child" /\ job[p].work \in known
       /\ Stage(p) \notin {"start", "backfill", "done", "failed"}
       /\ job[p].flow = "web" => Stage(p) \in {"ingest", "put"}
       /\ Stage(p) = "put" => job[p].flow = "web"
  /\ p \in Children /\ Stage(p) # "free" =>
       /\ job[p].flow = "child"
       /\ Stage(p) \in {"start", "convert", "bridge", "backfill", "done", "failed"}
       /\ Stage(p) \in {"backfill", "done"} => bridge[job[p].work] # NoRow

\* The three places a work of the server can be: with an upload handler, in the
\* queue, or with a worker.
Web(p)    == Stage(p) # "free" /\ job[p].flow = "web"
Serves(k) == child[k] # NoOne
WorkOf(k) == job[child[k]].work

\* No work is in two of them, or in one of them twice.
TasksApart ==
  /\ \A p, q \in Clients : Web(p) /\ Web(q) /\ job[p].work = job[q].work => p = q
  /\ \A i, j \in DOMAIN queue : queue[i].work = queue[j].work => i = j
  /\ \A k, l \in Workers : Serves(k) /\ Serves(l) /\ WorkOf(k) = WorkOf(l) => k = l
  /\ \A p \in Clients, i \in DOMAIN queue : Web(p) => job[p].work # queue[i].work
  /\ \A p \in Clients, k \in Workers : Web(p) /\ Serves(k) => job[p].work # WorkOf(k)
  /\ \A i \in DOMAIN queue, k \in Workers : Serves(k) => queue[i].work # WorkOf(k)
TasksKnown ==
  /\ \A i \in DOMAIN queue : queue[i].work \in known
  /\ \A k \in Workers : Serves(k) => Stage(child[k]) # "free" /\ WorkOf(k) \in known

Queued(w) ==
  \/ \E i \in DOMAIN queue : queue[i].work = w
  \/ \E p \in Clients : Stage(p) = "put" /\ job[p].work = w
Busy(w) == \E k \in Workers : Serves(k) /\ WorkOf(k) = w
MapFollows ==
  \A w \in Works : (status[w] = "queued" <=> Queued(w)) /\ (status[w] = "converting" <=> Busy(w))

TablesOK ==
  /\ job \in [Procs -> Job]
  /\ bridge \in [Works -> Row \cup {NoRow}]
  /\ known \subseteq Works /\ asked \subseteq known
  /\ status \in [Works -> {"absent", "queued", "converting", "failed"}]
  /\ queue \in Seq(Task)
  /\ pool \in {"off", "starting", "on"}
  /\ child \in [Workers -> Children \cup {NoOne}]
TasksInv == TasksApart /\ TasksKnown /\ MapFollows
JobsOK   == \A p \in Procs : JobOK(p)
QueueInv == TablesOK /\ JobsOK /\ TasksInv /\ StatusTells

\* A job is free, or of a program on its way, or one with a row it has read.
LEMMA JobShape ==
  ASSUME job \in [Procs -> Job], NEW p \in Procs
  PROVE  /\ Stage(p) = "free" => job[p] = Free
         /\ Stage(p) # "free" =>
              /\ job[p] # Free
              /\ job[p].flow \in AllFlows \cup {"child"} /\ job[p].work \in Works /\ job[p].file \in Files
         /\ Stage(p) # "free" /\ Stage(p) # "bridge" =>
              job[p] \in [flow : AllFlows \cup {"child"}, work : Works, file : Files,
                          stage : {"start", "ingest", "put", "convert", "ocr", "import", "match",
                                   "backfill", "done", "failed"}]
         /\ Stage(p) = "bridge" => job[p].seen \in Row \cup {NoRow}
<1>1. job[p] \in Job
  OBVIOUS
<1> QED
  BY <1>1 DEF Job, Free, Stage

\* The job of one process changes, and it is a job its process may have: all
\* the others may still have theirs.
LEMMA OneJob ==
  ASSUME TablesOK, JobsOK, NEW p \in Procs, NEW new \in Job,
         job' = [job EXCEPT ![p] = new],
         \A q \in Procs : q # p => call'[q] = call[q],
         known \subseteq known',
         \A w \in Works : bridge[w] # NoRow => bridge'[w] # NoRow,
         JobOK(p)'
  PROVE  job' \in [Procs -> Job] /\ JobsOK'
<1>1. job' \in [Procs -> Job] /\ \A q \in Procs : q # p => job'[q] = job[q]
  BY DEF TablesOK
<1>2. ASSUME NEW q \in Procs, q # p PROVE JobOK(q)'
  <2>1. job'[q] = job[q] /\ call'[q] = call[q] /\ JobOK(q)
    BY <1>1, <1>2 DEF JobsOK
  <2>2. Stage(q) # "free" => job[q].work \in Works
    BY JobShape DEF TablesOK
  <2> QED
    BY <2>1, <2>2 DEF JobOK, Stage, At
<1> QED
  BY <1>1, <1>2 DEF JobsOK

\* Nobody's place changes but of who leaves it without having enqueued.
LEMMA PlacesKept ==
  ASSUME TasksInv, JobsOK, TablesOK, UNCHANGED <<queue, child, status>>, known \subseteq known',
         \A p \in Clients : Web(p)' => Web(p) /\ job'[p].work = job[p].work,
         \A p \in Clients : Stage(p)' = "put" <=> Stage(p) = "put",
         \A p \in Clients : Stage(p) = "put" => job'[p].work = job[p].work,
         \A k \in Workers : Serves(k) => Stage(child[k])' # "free" /\ job'[child[k]].work = WorkOf(k)
  PROVE  TasksInv'
<1>1. TasksApart'
  BY DEF TasksInv, TasksApart, Serves, WorkOf
<1>2. TasksKnown'
  BY DEF TasksInv, TasksKnown, Serves, WorkOf
<1>3. MapFollows'
  <2>1. \A w \in Works : Queued(w)' <=> Queued(w)
    BY DEF Queued
  <2>2. \A w \in Works : Busy(w)' <=> Busy(w)
    BY DEF Busy, Serves, WorkOf
  <2> QED
    BY <2>1, <2>2 DEF TasksInv, MapFollows
<1> QED
  BY <1>1, <1>2, <1>3 DEF TasksInv

\* What the map says of the enqueued works stays true while no entry goes away.
LEMMA TellsKept ==
  ASSUME StatusTells, TablesOK, asked' \subseteq asked,
         \A w \in Works : status[w] # "absent" => status'[w] # "absent",
         \A w \in Works : bridge[w] # NoRow => bridge'[w] # NoRow
  PROVE  StatusTells'
BY DEF StatusTells, TablesOK

\* A step of one process that enqueues nothing: it goes on with its work, or
\* ends without anybody waiting for it.
LEMMA OwnStep ==
  ASSUME QueueInv, NEW p \in Procs, NEW new \in Job,
         job' = [job EXCEPT ![p] = new],
         \A q \in Procs : q # p => call'[q] = call[q],
         UNCHANGED <<known, server>>,
         bridge' \in [Works -> Row \cup {NoRow}],
         \A w \in Works : bridge[w] # NoRow => bridge'[w] # NoRow,
         Stage(p) # "put", JobOK(p)',
         \/ /\ Stage(p) # "free" /\ new.stage \notin {"free", "put"}
            /\ new.flow = job[p].flow /\ new.work = job[p].work
         \/ new = Free /\ p \notin Served
  PROVE  QueueInv'
<1>1. TablesOK /\ JobsOK /\ TasksInv /\ StatusTells
  BY DEF QueueInv
<1>2. job' \in [Procs -> Job] /\ JobsOK'
  BY <1>1, OneJob
<1>3. TablesOK'
  BY <1>1, <1>2 DEF TablesOK, server
<1>4. StatusTells'
  BY <1>1, TellsKept DEF server
<1>5. TasksInv'
  <2>1. \A q \in Procs : q # p => job'[q] = job[q]
    BY <1>1 DEF TablesOK
  <2>2. job'[p] = new
    BY <1>1 DEF TablesOK
  <2>3. \A q \in Clients : q \in Procs
    BY ProcsAssumption
  <2>4. new = Free => new.stage = "free"
    BY DEF Free
  <2>5. \A q \in Clients : Web(q)' => Web(q) /\ job'[q].work = job[q].work
    BY <2>1, <2>2, <2>3, <2>4 DEF Web, Stage
  <2>6. \A q \in Clients : Stage(q)' = "put" <=> Stage(q) = "put"
    BY <2>1, <2>2, <2>3, <2>4 DEF Stage
  <2>7. \A q \in Clients : Stage(q) = "put" => job'[q].work = job[q].work
    BY <2>1, <2>2, <2>3 DEF Stage
  <2>8. ASSUME NEW k \in Workers, Serves(k)
        PROVE  Stage(child[k])' # "free" /\ job'[child[k]].work = WorkOf(k)
    <3>1. child[k] \in Procs /\ child'[k] = child[k] /\ child[k] \in Served
      BY <1>1, <2>8, ProcsAssumption DEF TablesOK, Serves, Served, server
    <3>2. Stage(child[k]) # "free"
      BY <1>1, <2>8 DEF TasksInv, TasksKnown
    <3>3. child' = child
      BY DEF server
    <3>4. CASE child[k] = p
      BY <2>2, <3>1, <3>3, <3>4 DEF Stage, WorkOf
    <3>5. CASE child[k] # p
      BY <2>1, <3>1, <3>2, <3>3, <3>5 DEF Stage, WorkOf
    <3> QED
      BY <3>4, <3>5
  <2>9. UNCHANGED <<queue, child, status>> /\ known \subseteq known'
    BY DEF server
  <2> QED
    BY <1>1, <2>5, <2>6, <2>7, <2>8, <2>9, PlacesKept
<1> QED
  BY <1>2, <1>3, <1>4, <1>5 DEF QueueInv

\* Who is served is a child; who calls the cache changes no other call.
LEMMA ServedAreChildren == TablesOK => Served \subseteq Children
BY DEF TablesOK, Served

LEMMA OtherCalls ==
  ASSUME call \in [Procs -> Call], NEW p \in Procs,
         call' = call \/ (\E c : Becomes(p, c))
  PROVE  \A q \in Procs : q # p => call'[q] = call[q]
BY DEF Becomes

\* Somebody ends whom no worker waits for.
LEMMA EndsKeeps ==
  ASSUME QueueInv, CacheInv, NEW p \in Procs, Ends(p), p \notin Served, Stage(p) # "put",
         UNCHANGED <<bridge, known, server>>
  PROVE  QueueInv'
<1>1. TablesOK /\ call \in [Procs -> Call]
  BY DEF QueueInv, CacheInv, CacheTypeOK
<1>2. job' = [job EXCEPT ![p] = Free] /\ Free \in Job
  BY DEF Ends, Job
<1>3. \A q \in Procs : q # p => call'[q] = call[q]
  BY <1>1, OtherCalls DEF Ends, Quits
<1>4. JobOK(p)'
  <2>1. job'[p] = Free
    BY <1>1, <1>2 DEF TablesOK
  <2> QED
    BY <2>1 DEF JobOK, Stage, Free
<1>5. bridge' \in [Works -> Row \cup {NoRow}] /\ bridge' = bridge
  BY <1>1 DEF TablesOK
<1> QED
  BY <1>2, <1>3, <1>4, <1>5, OwnStep

\* A process goes on to its next stage, with its call or with a new one.
LEMMA EntersKeeps ==
  ASSUME QueueInv, CacheInv, NEW p \in Procs,
         NEW stage \in {"ingest", "convert", "ocr", "import", "match", "backfill", "done", "failed"},
         Enters(p, stage), Stage(p) \notin {"free", "put", "bridge"},
         call' = call \/ (\E c : Becomes(p, c)),
         UNCHANGED <<bridge, known, server>>,
         JobOK(p)'
  PROVE  QueueInv'
<1>1. TablesOK /\ call \in [Procs -> Call] /\ job \in [Procs -> Job]
  BY DEF QueueInv, TablesOK, CacheInv, CacheTypeOK
<1> DEFINE new == [job[p] EXCEPT !.stage = stage]
<1>2. job[p] \in [flow : AllFlows \cup {"child"}, work : Works, file : Files,
                  stage : {"start", "ingest", "put", "convert", "ocr", "import", "match",
                           "backfill", "done", "failed"}]
  BY <1>1, JobShape
<1>3. /\ new \in Job /\ new.stage = stage
      /\ new.flow = job[p].flow /\ new.work = job[p].work
  BY <1>2 DEF Job
<1>4. job' = [job EXCEPT ![p] = new]
  BY DEF Enters
<1>5. \A q \in Procs : q # p => call'[q] = call[q]
  BY <1>1, OtherCalls
<1>6. bridge' \in [Works -> Row \cup {NoRow}] /\ bridge' = bridge
  BY <1>1 DEF TablesOK
<1> HIDE DEF new
<1> QED
  BY <1>3, <1>4, <1>5, <1>6, OwnStep

\* Or goes on after its row is written or its call has failed.
LEMMA MovesKeeps ==
  ASSUME QueueInv, CacheInv, NEW p \in Procs, NEW stage \in {"backfill", "failed"},
         Moves(p, stage), Stage(p) \notin {"free", "put"}, p \in Children,
         UNCHANGED <<known, server>>,
         bridge' \in [Works -> Row \cup {NoRow}],
         \A w \in Works : bridge[w] # NoRow => bridge'[w] # NoRow,
         stage = "backfill" => bridge'[job[p].work] # NoRow
  PROVE  QueueInv'
<1>1. TablesOK /\ call \in [Procs -> Call] /\ job \in [Procs -> Job] /\ JobOK(p)
  BY DEF QueueInv, TablesOK, JobsOK, CacheInv, CacheTypeOK
<1> DEFINE new == [flow |-> job[p].flow, work |-> job[p].work, file |-> job[p].file, stage |-> stage]
<1>2. new \in Job
  BY <1>1, JobShape DEF Job
<1>3. job' = [job EXCEPT ![p] = new]
  BY DEF Moves
<1>4. \A q \in Procs : q # p => call'[q] = call[q]
  BY <1>1, OtherCalls DEF Moves, Quits
<1>5. p \notin Clients
  BY ProcsAssumption
<1>6. JobOK(p)'
  <2>1. job'[p] = new
    BY <1>1, <1>3
  <2> QED
    BY <1>1, <1>5, <2>1 DEF JobOK, Stage
<1>7. new.stage \notin {"free", "put"} /\ new.flow = job[p].flow /\ new.work = job[p].work
  OBVIOUS
<1> HIDE DEF new
<1> QED
  BY <1>2, <1>3, <1>4, <1>6, <1>7, OwnStep

\* A call under way takes no turn of the job behind it.
LEMMA CallStepKeepsQueue ==
  ASSUME QueueInv, CacheInv, NEW p \in Procs, CallStep(p), UNCHANGED <<job, bridge, known, server>>
  PROVE  QueueInv'
<1>1. TablesOK /\ JobsOK /\ TasksInv /\ StatusTells /\ call \in [Procs -> Call]
  BY DEF QueueInv, CacheInv, CacheTypeOK
<1>2. \A q \in Procs : q # p => call'[q] = call[q]
  BY <1>1, OnlyCaller DEF CallAction
<1>3. ~At(p, "converted")
  BY DEF CallStep, IngestInsert, IngestTighten, BackendFails, BackendYields, StoreInsert,
         StoreReconcile, ImportWrite, At
<1>4. JobsOK'
  <2> SUFFICES ASSUME NEW q \in Procs PROVE JobOK(q)'
    BY DEF JobsOK
  <2>1. JobOK(q)
    BY <1>1 DEF JobsOK
  <2> QED
    BY <1>2, <1>3, <2>1 DEF JobOK, Stage, At
<1>5. TablesOK'
  BY <1>1 DEF TablesOK, server
<1>6. StatusTells'
  BY <1>1 DEF StatusTells, server
<1>7. TasksInv'
  BY <1>1 DEF TasksInv, TasksApart, TasksKnown, MapFollows, Queued, Busy, Web, Serves, WorkOf, Stage, server
<1> QED
  BY <1>4, <1>5, <1>6, <1>7 DEF QueueInv

\* Every call that begins or ends one is of the process that makes it.
LEMMA ConvertsCalls == ASSUME NEW p, NEW config, NEW force, Converts(p, config, force) PROVE \E c : Becomes(p, c)
BY DEF Converts, ConvertReuse, ConvertBegin

LEMMA ConvertKeepsQueue == ASSUME QueueInv, CacheInv, NEW p \in Procs, Convert(p) PROVE QueueInv'
<1>1. JobOK(p) /\ job \in [Procs -> Job]
  BY DEF QueueInv, JobsOK, TablesOK
<1>2. Enters(p, "convert") /\ Stage(p) \in {"ingest", "start"} /\ (Stage(p) = "ingest" => job[p].flow # "web")
  BY DEF Convert, Ingested
<1>3. job[p] # Free
  BY <1>2 DEF Free, Stage
<1>4. job'[p] = [job[p] EXCEPT !.stage = "convert"]
  BY <1>1, <1>2 DEF Enters
<1>5. job[p] \in [flow : AllFlows \cup {"child"}, work : Works, file : Files,
                  stage : {"start", "ingest", "put", "convert", "ocr", "import", "match",
                           "backfill", "done", "failed"}]
  BY <1>1, <1>2, JobShape
<1>6. JobOK(p)'
  <2>1. job'[p].stage = "convert" /\ job'[p].flow = job[p].flow /\ job'[p].work = job[p].work
    BY <1>4, <1>5
  <2>2. known' = known
    BY DEF Convert
  <2>3. p \in Clients => job[p].flow # "web"
    BY <1>1, <1>2 DEF JobOK
  <2> QED
    BY <1>1, <1>2, <2>1, <2>2, <2>3 DEF JobOK, Stage
<1>7. \E c : Becomes(p, c)
  BY ConvertsCalls DEF Convert
<1> QED
  BY <1>2, <1>6, <1>7, EntersKeeps DEF Convert

\* A client that is no upload handler goes on to its next stage.
LEMMA ClientGoesOn ==
  ASSUME QueueInv, CacheInv, NEW p \in Procs, NEW stage \in {"ocr", "import", "match"},
         Enters(p, stage), Stage(p) \in {"ingest", "convert", "ocr"}, job[p].flow \in {"folder", "import"},
         call' = call \/ (\E c : Becomes(p, c)),
         UNCHANGED <<bridge, known, server>>
  PROVE  QueueInv'
<1>1. JobOK(p) /\ job \in [Procs -> Job]
  BY DEF QueueInv, JobsOK, TablesOK
<1>2. job[p] \in [flow : AllFlows \cup {"child"}, work : Works, file : Files,
                  stage : {"start", "ingest", "put", "convert", "ocr", "import", "match",
                           "backfill", "done", "failed"}]
  BY <1>1, JobShape
<1>3. job'[p].stage = stage /\ job'[p].flow = job[p].flow /\ job'[p].work = job[p].work
  BY <1>1, <1>2 DEF Enters
<1>4. JobOK(p)'
  BY <1>1, <1>3 DEF JobOK, Stage
<1> QED
  BY <1>4, EntersKeeps

LEMMA OcrKeepsQueue == ASSUME QueueInv, CacheInv, NEW p \in Procs, Ocr(p) PROVE QueueInv'
BY ConvertsCalls, ClientGoesOn DEF Ocr

LEMMA ImportKeepsQueue ==
  ASSUME QueueInv, CacheInv, NEW p \in Procs, NEW m \in Markdowns, Import(p, m) PROVE QueueInv'
<1>1. \E c : Becomes(p, c)
  BY DEF Import, ImportSelect
<1> QED
  BY <1>1, ClientGoesOn DEF Import, Ingested

LEMMA FolderMatchKeepsQueue ==
  ASSUME QueueInv, CacheInv, NEW p \in Procs, FolderMatch(p) PROVE QueueInv'
BY ClientGoesOn DEF FolderMatch, cacheVars

LEMMA FolderStopKeepsQueue ==
  ASSUME QueueInv, CacheInv, NEW p \in Procs, FolderStop(p) PROVE QueueInv'
<1>1. TablesOK /\ JobOK(p) /\ job \in [Procs -> Job]
  BY DEF QueueInv, JobsOK, TablesOK
<1>2. Stage(p) \in {"ingest", "convert", "ocr"} /\ job[p].flow = "folder"
  BY DEF FolderStop, Ingested
<1>3. p \notin Served
  BY <1>1, <1>2, ServedAreChildren DEF JobOK
<1> QED
  BY <1>2, <1>3, EndsKeeps DEF FolderStop

LEMMA BridgeSelectKeepsQueue ==
  ASSUME QueueInv, CacheInv, NEW p \in Procs, BridgeSelect(p) PROVE QueueInv'
<1>1. TablesOK /\ JobOK(p) /\ job \in [Procs -> Job] /\ bridge \in [Works -> Row \cup {NoRow}]
  BY DEF QueueInv, JobsOK, TablesOK
<1>2. Stage(p) \in {"convert", "import", "match"} /\ At(p, "converted")
  BY DEF BridgeSelect, Returned
<1> DEFINE new == [flow |-> job[p].flow, work |-> job[p].work, file |-> job[p].file,
                   stage |-> "bridge", seen |-> bridge[job[p].work]]
<1>3. job[p].flow \in AllFlows \cup {"child"} /\ job[p].work \in Works /\ job[p].file \in Files
  BY <1>1, <1>2, JobShape
<1>4. bridge[job[p].work] \in Row \cup {NoRow}
  BY <1>1, <1>3
<1>5. new \in Job
  BY <1>3, <1>4 DEF Job
<1>6. job' = [job EXCEPT ![p] = new]
  BY DEF BridgeSelect
<1>7. call' = call /\ bridge' = bridge /\ UNCHANGED <<known, server>>
  BY DEF BridgeSelect, cacheVars
<1>8. JobOK(p)'
  <2>1. job'[p] = new
    BY <1>1, <1>6
  <2>2. job[p].flow = "web" => p \notin Clients
    BY <1>1, <1>2 DEF JobOK
  <2> QED
    BY <1>1, <1>2, <1>7, <2>1, <2>2 DEF JobOK, Stage, At
<1>9. new.stage \notin {"free", "put"} /\ new.flow = job[p].flow /\ new.work = job[p].work
  OBVIOUS
<1> HIDE DEF new
<1> QED
  BY <1>1, <1>2, <1>5, <1>6, <1>7, <1>8, <1>9, OwnStep

\* A row is read, compared and written: it never turns into no row.
LEMMA WrittenRow ==
  ASSUME NEW now \in Row \cup {NoRow}, NEW seen \in Row \cup {NoRow}, NEW row \in Row,
         seen = NoRow => now = NoRow,
         seen # NoRow => now # NoRow
  PROVE  Written(now, seen, row) \in Row /\ Written(now, seen, row) # NoRow
<1>1. \A r \in Row : r # NoRow
  BY NobodyAssumption DEF Row, NoRow
<1>2. Written(now, seen, row) \in Row
  <2>1. CASE seen = NoRow
    <3>1. row.file # NoOne /\ row.file \in Files /\ row.md \in Markdowns
      BY NobodyAssumption DEF Row
    <3> QED
      BY <2>1, <3>1 DEF Written, Row, NoRow
  <2>2. CASE seen # NoRow
    <3>1. now \in Row /\ seen \in Row
      BY <2>2
    <3> QED
      BY <3>1 DEF Written, Row
  <2> QED
    BY <2>1, <2>2
<1> QED
  BY <1>1, <1>2

LEMMA BridgeWriteKeepsQueue ==
  ASSUME QueueInv, CacheInv, NEW p \in Procs, BridgeWrite(p) PROVE QueueInv'
<1> DEFINE w == job[p].work
           new == Written(bridge[w], job[p].seen, [file |-> job[p].file, md |-> call[p].md])
<1>1. TablesOK /\ JobOK(p) /\ job \in [Procs -> Job] /\ bridge \in [Works -> Row \cup {NoRow}]
  BY DEF QueueInv, JobsOK, TablesOK
<1>2. Stage(p) = "bridge" /\ At(p, "converted") /\ (job[p].seen # NoRow => bridge[w] # NoRow)
  BY <1>1 DEF BridgeWrite, JobOK
<1>3. /\ w \in Works /\ job[p].file \in Files /\ job[p].flow \in AllFlows \cup {"child"}
      /\ job[p].seen \in Row \cup {NoRow}
  BY <1>1, <1>2, JobShape
<1>4. call[p].md \in Markdowns
  <2>1. call[p] \in [step : {"converted"}, file : Files, md : Markdowns]
    <3>1. call[p] \in Call
      BY DEF CacheInv, CacheTypeOK
    <3> QED
      BY <1>2, <3>1 DEF Call, At
  <2> QED
    BY <2>1
<1>5. job[p].seen = NoRow => bridge[w] = NoRow
  BY DEF BridgeWrite
<1>6. new \in Row /\ new # NoRow
  <2>1. [file |-> job[p].file, md |-> call[p].md] \in Row
    BY <1>3, <1>4 DEF Row
  <2>2. bridge[w] \in Row \cup {NoRow}
    BY <1>1, <1>3
  <2> QED
    BY <1>2, <1>3, <1>5, <2>1, <2>2, WrittenRow
<1>7. bridge' = [bridge EXCEPT ![w] = new] /\ UNCHANGED <<known, server>>
  BY DEF BridgeWrite
<1> HIDE DEF new
<1>8. /\ bridge' \in [Works -> Row \cup {NoRow}]
      /\ \A v \in Works : bridge[v] # NoRow => bridge'[v] # NoRow
      /\ bridge'[w] # NoRow
  BY <1>1, <1>3, <1>6, <1>7
<1>9. CASE job[p].flow = "child"
  <2>1. p \in Children /\ Moves(p, "backfill")
    BY <1>1, <1>2, <1>9, ProcsAssumption DEF BridgeWrite, JobOK
  <2> QED
    BY <1>2, <1>7, <1>8, <2>1, MovesKeeps
<1>10. CASE job[p].flow # "child"
  <2>1. Ends(p) /\ p \notin Served
    BY <1>1, <1>2, <1>10, ServedAreChildren DEF BridgeWrite, JobOK
  <2>2. job' = [job EXCEPT ![p] = Free] /\ Free \in Job
    BY <2>1 DEF Ends, Job
  <2>3. \A q \in Procs : q # p => call'[q] = call[q]
    BY <2>1, OtherCalls DEF Ends, Quits, CacheInv, CacheTypeOK
  <2>4. JobOK(p)'
    <3>1. job'[p] = Free
      BY <1>1, <2>2
    <3> QED
      BY <3>1 DEF JobOK, Stage, Free
  <2> QED
    BY <1>2, <1>7, <1>8, <2>1, <2>2, <2>3, <2>4, OwnStep
<1> QED
  BY <1>9, <1>10

LEMMA FailKeepsQueue == ASSUME QueueInv, CacheInv, NEW p \in Procs, Fail(p) PROVE QueueInv'
<1>1. TablesOK /\ JobOK(p) /\ bridge \in [Works -> Row \cup {NoRow}]
  BY DEF QueueInv, JobsOK, TablesOK
<1>2. Stage(p) \notin {"free", "put"}
  BY DEF Fail, Raises
<1>3. CASE job[p].flow = "child"
  <2>1. p \in Children
    BY <1>1, <1>2, <1>3, ProcsAssumption DEF JobOK
  <2> QED
    BY <1>1, <1>2, <1>3, <2>1, MovesKeeps DEF Fail
<1>4. CASE job[p].flow # "child"
  <2>1. p \notin Served
    BY <1>1, <1>2, <1>4, ServedAreChildren DEF JobOK
  <2> QED
    BY <1>2, <1>4, <2>1, EndsKeeps DEF Fail
<1> QED
  BY <1>3, <1>4

LEMMA DiesKeepsQueue == ASSUME QueueInv, CacheInv, NEW p \in Procs, Dies(p) PROVE QueueInv'
<1>1. JobOK(p)
  BY DEF QueueInv, JobsOK
<1>2. Stage(p) # "put"
  BY <1>1, ProcsAssumption DEF Dies, JobOK
<1> QED
  BY <1>2, EndsKeeps DEF Dies

LEMMA BackfilledKeepsQueue ==
  ASSUME QueueInv, CacheInv, NEW p \in Procs, Backfilled(p) PROVE QueueInv'
<1>1. JobOK(p) /\ job \in [Procs -> Job]
  BY DEF QueueInv, JobsOK, TablesOK
<1>2. Stage(p) = "backfill" /\ Enters(p, "done") /\ call' = call
  BY DEF Backfilled, cacheVars
<1>3. job[p] \in [flow : AllFlows \cup {"child"}, work : Works, file : Files,
                  stage : {"start", "ingest", "put", "convert", "ocr", "import", "match",
                           "backfill", "done", "failed"}]
  BY <1>1, <1>2, JobShape
<1>4. job'[p].stage = "done" /\ job'[p].flow = job[p].flow /\ job'[p].work = job[p].work
  BY <1>1, <1>2, <1>3 DEF Enters
<1>5. JobOK(p)'
  BY <1>1, <1>2, <1>4 DEF JobOK, Stage, Backfilled
<1> QED
  BY <1>2, <1>5, EntersKeeps DEF Backfilled

LEMMA ChildKilledKeepsQueue ==
  ASSUME QueueInv, CacheInv, NEW p \in Procs, ChildKilled(p) PROVE QueueInv'
<1>1. TablesOK /\ JobOK(p) /\ bridge \in [Works -> Row \cup {NoRow}] /\ TasksInv
  BY DEF QueueInv, JobsOK, TablesOK
<1>2. PICK k \in Workers : p = child[k] /\ Serves(k)
  BY DEF ChildKilled, Served, Serves
<1>3. p \in Children /\ Stage(p) # "free"
  BY <1>1, <1>2, ServedAreChildren DEF ChildKilled, TasksInv, TasksKnown
<1>4. Stage(p) # "put"
  BY <1>1, <1>3 DEF JobOK
<1> QED
  BY <1>1, <1>3, <1>4, MovesKeeps DEF ChildKilled

\* A program begins; an upload of the server is a work nobody has heard of.
LEMMA StartKeepsQueue ==
  ASSUME QueueInv, CacheInv,
         NEW p \in Clients, NEW flow \in AllFlows, NEW w \in Works, NEW f \in Files,
         StartFlow(p, flow, w, f)
  PROVE  QueueInv'
<1> DEFINE new == [flow |-> flow, work |-> w, file |-> f, stage |-> "ingest"]
<1>1. /\ TablesOK /\ JobsOK /\ TasksInv /\ StatusTells /\ p \in Procs /\ p \notin Children
      /\ job \in [Procs -> Job] /\ bridge \in [Works -> Row \cup {NoRow}]
  BY ProcsAssumption DEF QueueInv, TablesOK
<1>2. new \in Job
  BY DEF Job
<1>3. /\ job' = [job EXCEPT ![p] = new] /\ known' = known \cup {w} /\ UNCHANGED <<bridge, server>>
      /\ Stage(p) = "free" /\ (flow = "web" => w \notin known)
  BY DEF StartFlow, Wants
<1>4. \A q \in Procs : q # p => call'[q] = call[q]
  BY <1>1, OtherCalls DEF StartFlow, IngestSelect, CacheInv, CacheTypeOK
<1>5. job'[p] = new /\ \A q \in Procs : q # p => job'[q] = job[q]
  BY <1>1, <1>3
<1>6. JobOK(p)'
  <2>1. flow # "child"
    BY DEF AllFlows
  <2> QED
    BY <1>1, <1>3, <1>5, <2>1 DEF JobOK, Stage
<1>7. job' \in [Procs -> Job] /\ JobsOK'
  BY <1>1, <1>2, <1>3, <1>4, <1>6, OneJob
<1>8. TablesOK'
  BY <1>1, <1>3, <1>7 DEF TablesOK, server
<1>9. StatusTells'
  BY <1>1, <1>3 DEF StatusTells, server
<1>10. TasksInv'
  <2>1. \A q \in Clients : q \in Procs
    BY ProcsAssumption
  <2>2. \A k \in Workers : Serves(k) => child[k] \in Procs /\ child[k] # p /\ job'[child[k]] = job[child[k]]
    BY <1>1, <1>5, ProcsAssumption DEF TablesOK, Serves
  <2>3. \A q \in Clients : Web(q) => job[q].work \in known
    BY <1>1, <2>1 DEF JobsOK, JobOK, Web
  <2>4. child' = child /\ queue' = queue /\ status' = status
    BY <1>3 DEF server
  <2>5. \A q \in Clients : Web(q)' => (q = p /\ flow = "web" /\ job'[q].work = w)
                                      \/ (Web(q) /\ job'[q].work = job[q].work)
    BY <1>5, <2>1 DEF Web, Stage
  <2>6. TasksApart'
    <3>1. \A q, r \in Clients : Web(q)' /\ Web(r)' /\ job'[q].work = job'[r].work => q = r
      BY <1>1, <1>3, <2>3, <2>5 DEF TasksInv, TasksApart
    <3>2. \A q \in Clients, i \in DOMAIN queue : Web(q)' => job'[q].work # queue[i].work
      BY <1>1, <1>3, <2>5 DEF TasksInv, TasksApart, TasksKnown
    <3>3. \A q \in Clients, k \in Workers : Web(q)' /\ Serves(k) => job'[q].work # WorkOf(k)
      BY <1>1, <1>3, <2>5 DEF TasksInv, TasksApart, TasksKnown
    <3> QED
      BY <1>1, <2>2, <2>4, <3>1, <3>2, <3>3 DEF TasksInv, TasksApart, Serves, WorkOf
  <2>7. TasksKnown'
    BY <1>1, <1>3, <2>2, <2>4 DEF TasksInv, TasksKnown, Serves, WorkOf, Stage
  <2>8. \A q \in Clients : Stage(q)' = "put" <=> Stage(q) = "put"
    BY <1>3, <1>5, <2>1 DEF Stage
  <2>9. \A q \in Clients : Stage(q) = "put" => job'[q].work = job[q].work
    BY <1>3, <1>5, <2>1 DEF Stage
  <2>10. MapFollows'
    <3>1. \A v \in Works : Queued(v)' <=> Queued(v)
      BY <2>4, <2>8, <2>9 DEF Queued
    <3>2. \A v \in Works : Busy(v)' <=> Busy(v)
      BY <2>2, <2>4 DEF Busy, Serves, WorkOf
    <3> QED
      BY <1>1, <2>4, <3>1, <3>2 DEF TasksInv, MapFollows
  <2> QED
    BY <2>6, <2>7, <2>10 DEF TasksInv
<1> QED
  BY <1>7, <1>8, <1>9, <1>10 DEF QueueInv

\* The map says queued before the task is in the queue.
LEMMA AnnounceKeepsQueue == ASSUME QueueInv, CacheInv, NEW p \in Procs, Announce(p) PROVE QueueInv'
<1> DEFINE w == job[p].work
<1>1. /\ TablesOK /\ JobsOK /\ TasksInv /\ StatusTells /\ JobOK(p)
      /\ job \in [Procs -> Job] /\ bridge \in [Works -> Row \cup {NoRow}]
      /\ status \in [Works -> {"absent", "queued", "converting", "failed"}]
  BY DEF QueueInv, TablesOK, JobsOK
<1>2. /\ Stage(p) = "ingest" /\ job[p].flow = "web" /\ call' = call /\ bridge' = bridge
      /\ known' = known /\ queue' = queue /\ pool' = pool /\ child' = child
      /\ status' = [status EXCEPT ![w] = "queued"] /\ asked' = asked \cup {w}
      /\ Enters(p, "put")
  BY DEF Announce, Ingested, cacheVars
<1>3. p \in Clients /\ p \notin Children /\ w \in known
  BY <1>1, <1>2, ProcsAssumption DEF JobOK
<1>4. w \in Works
  BY <1>1, <1>3 DEF TablesOK
<1>5. job[p] \in [flow : AllFlows \cup {"child"}, work : Works, file : Files,
                  stage : {"start", "ingest", "put", "convert", "ocr", "import", "match",
                           "backfill", "done", "failed"}]
  BY <1>1, <1>2, JobShape
<1> DEFINE new == [job[p] EXCEPT !.stage = "put"]
<1>6. new \in Job /\ new.stage = "put" /\ new.flow = "web" /\ new.work = w
  BY <1>2, <1>5 DEF Job
<1>7. job' = [job EXCEPT ![p] = new]
  BY <1>2 DEF Enters
<1> HIDE DEF new
<1>8. job'[p] = new /\ \A q \in Procs : q # p => job'[q] = job[q]
  BY <1>1, <1>7
<1>9. JobOK(p)'
  BY <1>2, <1>3, <1>6, <1>8 DEF JobOK, Stage
<1>10. job' \in [Procs -> Job] /\ JobsOK'
  BY <1>1, <1>2, <1>6, <1>7, <1>9, OneJob
<1>11. TablesOK'
  BY <1>1, <1>2, <1>3, <1>10 DEF TablesOK
<1>12. StatusTells'
  BY <1>1, <1>2, <1>4 DEF StatusTells, TablesOK
<1>13. TasksInv'
  <2>1. \A q \in Clients : q \in Procs
    BY ProcsAssumption
  <2>2. \A k \in Workers : Serves(k) => child[k] \in Procs /\ child[k] # p /\ job'[child[k]] = job[child[k]]
    BY <1>1, <1>3, <1>8, ProcsAssumption DEF TablesOK, Serves
  <2>3. \A q \in Clients : (Web(q)' <=> Web(q)) /\ (Web(q) => job'[q].work = job[q].work)
    BY <1>2, <1>6, <1>8, <2>1 DEF Web, Stage
  <2>4. TasksApart'
    BY <1>1, <1>2, <2>2, <2>3 DEF TasksInv, TasksApart, Serves, WorkOf
  <2>5. TasksKnown'
    BY <1>1, <1>2, <2>2 DEF TasksInv, TasksKnown, Serves, WorkOf, Stage
  <2>6. MapFollows'
    <3>1. \A v \in Works : Queued(v)' <=> Queued(v) \/ v = w
      <4>1. \A q \in Clients : Stage(q)' = "put" <=> Stage(q) = "put" \/ q = p
        BY <1>3, <1>6, <1>8, <2>1 DEF Stage
      <4>2. \A q \in Clients : Stage(q)' = "put" => job'[q].work = job[q].work
        BY <1>6, <1>8, <2>1
      <4> QED
        BY <1>2, <1>3, <4>1, <4>2 DEF Queued
    <3>2. \A v \in Works : Busy(v)' <=> Busy(v)
      BY <1>2, <2>2 DEF Busy, Serves, WorkOf
    <3>3. ~Busy(w)
      BY <1>1, <1>2, <1>3 DEF Busy, TasksInv, TasksApart, Web
    <3>4. \A v \in Works : status'[v] = IF v = w THEN "queued" ELSE status[v]
      BY <1>1, <1>2, <1>4
    <3> QED
      BY <1>1, <3>1, <3>2, <3>3, <3>4 DEF TasksInv, MapFollows
  <2> QED
    BY <2>4, <2>5, <2>6 DEF TasksInv
<1> QED
  BY <1>10, <1>11, <1>12, <1>13 DEF QueueInv

\* What Append and Tail do to the places of the queue.
LEMMA Appended ==
  ASSUME NEW S, NEW q \in Seq(S), NEW x \in S
  PROVE  /\ Append(q, x) \in Seq(S)
         /\ DOMAIN Append(q, x) = DOMAIN q \cup {Len(q) + 1}
         /\ Len(q) + 1 \notin DOMAIN q
         /\ \A i \in DOMAIN q : Append(q, x)[i] = q[i]
         /\ Append(q, x)[Len(q) + 1] = x
OBVIOUS

LEMMA Shifted ==
  ASSUME NEW S, NEW q \in Seq(S), q # <<>>
  PROVE  /\ Tail(q) \in Seq(S) /\ 1 \in DOMAIN q /\ Head(q) = q[1] /\ Head(q) \in S
         /\ \A i \in DOMAIN Tail(q) : i + 1 \in DOMAIN q /\ i + 1 # 1 /\ Tail(q)[i] = q[i + 1]
         /\ \A i \in DOMAIN q : i # 1 => i - 1 \in DOMAIN Tail(q) /\ Tail(q)[i - 1] = q[i]
OBVIOUS

\* Then the task is put.
LEMMA PutKeepsQueue == ASSUME QueueInv, CacheInv, NEW p \in Procs, Put(p) PROVE QueueInv'
<1> DEFINE w == job[p].work
           task == [work |-> w, file |-> job[p].file]
<1>1. /\ TablesOK /\ JobsOK /\ TasksInv /\ StatusTells /\ JobOK(p)
      /\ job \in [Procs -> Job] /\ queue \in Seq(Task)
  BY DEF QueueInv, TablesOK, JobsOK
<1>2. /\ Stage(p) = "put" /\ queue' = Append(queue, task) /\ Ends(p)
      /\ pool' = IF pool = "off" THEN "starting" ELSE pool
      /\ UNCHANGED <<bridge, known, status, child, asked>>
  BY DEF Put
<1>3. w \in Works /\ task \in Task
  BY <1>1, <1>2, JobShape DEF Task
<1>4. p \in Clients /\ p \notin Children /\ Web(p) /\ w \in known
  BY <1>1, <1>2, ProcsAssumption DEF JobOK, Web
<1>5. job' = [job EXCEPT ![p] = Free] /\ Free \in Job
  BY <1>2 DEF Ends, Job
<1>6. job'[p] = Free /\ \A q \in Procs : q # p => job'[q] = job[q]
  BY <1>1, <1>5
<1>7. \A q \in Procs : q # p => call'[q] = call[q]
  BY <1>2, OtherCalls DEF Ends, Quits, CacheInv, CacheTypeOK
<1>8. JobOK(p)'
  BY <1>6 DEF JobOK, Stage, Free
<1>9. job' \in [Procs -> Job] /\ JobsOK'
  BY <1>1, <1>2, <1>5, <1>7, <1>8, OneJob
<1>10. /\ queue' \in Seq(Task) /\ DOMAIN queue' = DOMAIN queue \cup {Len(queue) + 1}
       /\ Len(queue) + 1 \notin DOMAIN queue
       /\ \A i \in DOMAIN queue : queue'[i] = queue[i]
       /\ queue'[Len(queue) + 1].work = w
  <2> HIDE DEF task
  <2>1. /\ queue' \in Seq(Task) /\ DOMAIN queue' = DOMAIN queue \cup {Len(queue) + 1}
        /\ Len(queue) + 1 \notin DOMAIN queue
        /\ \A i \in DOMAIN queue : queue'[i] = queue[i]
        /\ queue'[Len(queue) + 1] = task
    BY <1>1, <1>2, <1>3, Appended
  <2> QED
    BY <2>1 DEF task
<1>11. TablesOK'
  BY <1>1, <1>2, <1>9, <1>10 DEF TablesOK
<1>12. StatusTells'
  BY <1>1, <1>2 DEF StatusTells
<1>13. TasksInv'
  <2>1. \A q \in Clients : q \in Procs
    BY ProcsAssumption
  <2>2. \A k \in Workers : Serves(k) => child[k] \in Procs /\ child[k] # p /\ job'[child[k]] = job[child[k]]
    BY <1>1, <1>4, <1>6, ProcsAssumption DEF TablesOK, Serves
  <2>3. \A q \in Clients : Web(q)' => q # p /\ Web(q) /\ job'[q].work = job[q].work
    BY <1>6, <2>1 DEF Web, Stage, Free
  <2>4. \A q \in Clients : Web(q) /\ q # p => job[q].work # w
    BY <1>1, <1>4 DEF TasksInv, TasksApart
  <2>5. \A i \in DOMAIN queue : queue[i].work # w
    BY <1>1, <1>4 DEF TasksInv, TasksApart
  <2>6. \A k \in Workers : Serves(k) => WorkOf(k) # w
    BY <1>1, <1>4 DEF TasksInv, TasksApart
  <2> DEFINE n == Len(queue) + 1
  <2> HIDE DEF n
  <2>7. /\ DOMAIN queue' = DOMAIN queue \cup {n} /\ n \notin DOMAIN queue
        /\ \A i \in DOMAIN queue : queue'[i] = queue[i]
        /\ queue'[n].work = w
    BY <1>10 DEF n
  <2> HIDE DEF w
  <2>8. TasksApart'
    <3>1. \A q, r \in Clients : Web(q)' /\ Web(r)' /\ job'[q].work = job'[r].work => q = r
      BY <1>1, <2>3 DEF TasksInv, TasksApart
    <3>2. \A i, j \in DOMAIN queue' : queue'[i].work = queue'[j].work => i = j
      BY <1>1, <2>5, <2>7 DEF TasksInv, TasksApart
    <3>3. \A q \in Clients, i \in DOMAIN queue' : Web(q)' => job'[q].work # queue'[i].work
      BY <1>1, <2>3, <2>4, <2>7 DEF TasksInv, TasksApart
    <3>4. \A q \in Clients, k \in Workers : Web(q)' /\ Serves(k) => job'[q].work # WorkOf(k)
      BY <1>1, <2>3 DEF TasksInv, TasksApart
    <3>5. \A i \in DOMAIN queue', k \in Workers : Serves(k) => queue'[i].work # WorkOf(k)
      BY <1>1, <2>6, <2>7 DEF TasksInv, TasksApart
    <3>6. child' = child /\ \A k \in Workers : Serves(k) => WorkOf(k)' = WorkOf(k)
      BY <1>2, <2>2 DEF WorkOf
    <3> QED
      BY <1>1, <3>1, <3>2, <3>3, <3>4, <3>5, <3>6 DEF TasksInv, TasksApart, Serves
  <2>9. TasksKnown'
    <3>1. \A i \in DOMAIN queue' : queue'[i].work \in known'
      BY <1>1, <1>2, <1>4, <2>7 DEF TasksInv, TasksKnown, w
    <3> QED
      BY <1>1, <1>2, <2>2, <3>1 DEF TasksInv, TasksKnown, Serves, WorkOf, Stage
  <2>10. MapFollows'
    <3>1. \A q \in Clients : q # p => Stage(q)' = Stage(q) /\ job'[q].work = job[q].work
      BY <1>6, <2>1 DEF Stage
    <3>2. Stage(p)' # "put"
      BY <1>6 DEF Stage, Free
    <3>3. \A v \in Works : Queued(v)' <=> Queued(v)
      BY <1>2, <1>4, <2>7, <3>1, <3>2 DEF Queued, w
    <3>4. \A v \in Works : Busy(v)' <=> Busy(v)
      BY <1>2, <2>2 DEF Busy, Serves, WorkOf
    <3> QED
      BY <1>1, <1>2, <3>3, <3>4 DEF TasksInv, MapFollows
  <2> QED
    BY <2>8, <2>9, <2>10 DEF TasksInv
<1> QED
  BY <1>9, <1>11, <1>12, <1>13 DEF QueueInv

\* A worker takes the first task: its work moves from the queue to the worker.
LEMMA TakeKeepsQueue == ASSUME QueueInv, CacheInv, NEW k \in Workers, Take(k) PROVE QueueInv'
<1>1. /\ TablesOK /\ JobsOK /\ TasksInv /\ StatusTells
      /\ job \in [Procs -> Job] /\ queue \in Seq(Task)
      /\ child \in [Workers -> Children \cup {NoOne}]
      /\ status \in [Works -> {"absent", "queued", "converting", "failed"}]
  BY DEF QueueInv, TablesOK
<1> DEFINE w == Head(queue).work
           new == [flow |-> "child", work |-> w, file |-> Head(queue).file, stage |-> "start"]
<1>2. PICK p \in Spare : /\ child' = [child EXCEPT ![k] = p]
                         /\ job' = [job EXCEPT ![p] = new]
  BY DEF Take
<1>3. /\ child[k] = NoOne /\ queue # <<>> /\ queue' = Tail(queue)
      /\ status' = [status EXCEPT ![w] = "converting"]
      /\ call' = call /\ UNCHANGED <<bridge, known, pool, asked>>
  BY DEF Take, cacheVars
<1>4. /\ p \in Children /\ p \in Procs /\ p \notin Clients /\ p # NoOne
      /\ Stage(p) = "free" /\ p \notin Served
  BY ProcsAssumption, NobodyAssumption DEF Spare
<1>5. /\ queue' \in Seq(Task) /\ 1 \in DOMAIN queue /\ Head(queue) = queue[1] /\ Head(queue) \in Task
      /\ \A i \in DOMAIN queue' : i + 1 \in DOMAIN queue /\ i + 1 # 1 /\ queue'[i] = queue[i + 1]
      /\ \A i \in DOMAIN queue : i # 1 => i - 1 \in DOMAIN queue' /\ queue'[i - 1] = queue[i]
      /\ DOMAIN queue' \subseteq Nat
  BY <1>1, <1>3, Shifted
<1>6. w \in Works /\ w \in known /\ w = queue[1].work /\ new \in Job
  BY <1>1, <1>5 DEF Task, Job, TasksInv, TasksKnown
<1>7. job'[p] = new /\ \A q \in Procs : q # p => job'[q] = job[q]
  BY <1>1, <1>2, <1>4
<1>8. JobOK(p)'
  BY <1>4, <1>7 DEF JobOK, Stage
<1>9. job' \in [Procs -> Job] /\ JobsOK'
  BY <1>1, <1>2, <1>3, <1>4, <1>6, <1>8, OneJob
<1>10. TablesOK'
  BY <1>1, <1>2, <1>3, <1>4, <1>5, <1>6, <1>9 DEF TablesOK
<1>11. StatusTells'
  BY <1>1, <1>3, <1>6 DEF StatusTells, TablesOK
<1>12. TasksInv'
  <2>1. \A q \in Clients : q \in Procs /\ q # p /\ job'[q] = job[q]
    BY <1>4, <1>7, ProcsAssumption
  <2>2. \A q \in Clients : Web(q)' <=> Web(q)
    BY <2>1 DEF Web, Stage
  <2>3. Serves(k)' /\ WorkOf(k)' = w /\ child'[k] = p /\ Stage(p)' = "start"
    BY <1>1, <1>2, <1>4, <1>7 DEF Serves, WorkOf, Stage
  <2>4. ASSUME NEW l \in Workers, l # k
        PROVE  /\ child'[l] = child[l] /\ (Serves(l)' <=> Serves(l))
               /\ Serves(l) => job'[child[l]] = job[child[l]] /\ WorkOf(l)' = WorkOf(l)
    <3>1. child'[l] = child[l]
      BY <1>1, <1>2, <2>4
    <3>2. Serves(l) => child[l] \in Procs /\ child[l] # p
      BY <1>1, <1>4, ProcsAssumption DEF Serves, Served
    <3>3. Serves(l) => job'[child[l]] = job[child[l]]
      BY <1>7, <3>2
    <3> QED
      BY <3>1, <3>3 DEF Serves, WorkOf
  <2>5. /\ \A q \in Clients : Web(q) => job[q].work # w
        /\ \A i \in DOMAIN queue : i # 1 => queue[i].work # w
        /\ \A l \in Workers : Serves(l) => WorkOf(l) # w
    BY <1>1, <1>5, <1>6 DEF TasksInv, TasksApart
  <2>6. ~Serves(k)
    BY <1>3 DEF Serves
  <2> HIDE DEF w
  <2>7. TasksApart'
    <3>1. \A q, r \in Clients : Web(q)' /\ Web(r)' /\ job'[q].work = job'[r].work => q = r
      BY <1>1, <2>1, <2>2 DEF TasksInv, TasksApart
    <3>2. \A i, j \in DOMAIN queue' : queue'[i].work = queue'[j].work => i = j
      <4> SUFFICES ASSUME NEW i \in DOMAIN queue', NEW j \in DOMAIN queue', queue'[i].work = queue'[j].work
                   PROVE  i = j
        OBVIOUS
      <4>1. /\ i + 1 \in DOMAIN queue /\ j + 1 \in DOMAIN queue
            /\ queue[i + 1].work = queue[j + 1].work
        BY <1>5
      <4>3. i + 1 = j + 1
        BY <1>1, <4>1 DEF TasksInv, TasksApart
      <4>2. i \in Nat /\ j \in Nat
        BY <1>5
      <4> QED
        BY <4>2, <4>3
    <3>3. \A l, m \in Workers : Serves(l)' /\ Serves(m)' /\ WorkOf(l)' = WorkOf(m)' => l = m
      BY <1>1, <2>3, <2>4, <2>5 DEF TasksInv, TasksApart
    <3>4. \A q \in Clients, i \in DOMAIN queue' : Web(q)' => job'[q].work # queue'[i].work
      BY <1>1, <1>5, <2>1, <2>2 DEF TasksInv, TasksApart
    <3>5. \A q \in Clients, l \in Workers : Web(q)' /\ Serves(l)' => job'[q].work # WorkOf(l)'
      BY <1>1, <2>1, <2>2, <2>3, <2>4, <2>5 DEF TasksInv, TasksApart
    <3>6. ASSUME NEW i \in DOMAIN queue', NEW l \in Workers, Serves(l)' PROVE queue'[i].work # WorkOf(l)'
      <4>1. i + 1 \in DOMAIN queue /\ i + 1 # 1 /\ queue'[i] = queue[i + 1]
        BY <1>5
      <4>2. CASE l = k
        BY <2>3, <2>5, <4>1, <4>2
      <4>3. CASE l # k
        <5>1. Serves(l) /\ WorkOf(l)' = WorkOf(l)
          BY <2>4, <3>6, <4>3
        <5> QED
          BY <1>1, <4>1, <5>1 DEF TasksInv, TasksApart
      <4> QED
        BY <4>2, <4>3
    <3> QED
      BY <3>1, <3>2, <3>3, <3>4, <3>5, <3>6 DEF TasksApart
  <2>8. TasksKnown'
    <3>1. \A i \in DOMAIN queue' : queue'[i].work \in known'
      BY <1>1, <1>3, <1>5 DEF TasksInv, TasksKnown
    <3>2. ASSUME NEW l \in Workers, Serves(l)' PROVE Stage(child[l])' # "free" /\ WorkOf(l)' \in known'
      <4>1. CASE l = k
        BY <1>3, <1>6, <1>7, <2>3, <4>1 DEF Stage, w
      <4>2. CASE l # k
        BY <1>1, <1>3, <2>4, <3>2, <4>2 DEF TasksInv, TasksKnown, Stage
      <4> QED
        BY <4>1, <4>2
    <3> QED
      BY <3>1, <3>2 DEF TasksKnown
  <2>9. MapFollows'
    <3>1. \A v \in Works : Queued(v)' <=> Queued(v) /\ v # w
      <4>1. \A v \in Works : (\E i \in DOMAIN queue' : queue'[i].work = v)
                             <=> (\E i \in DOMAIN queue : queue[i].work = v) /\ v # w
        <5> SUFFICES ASSUME NEW v \in Works
                     PROVE  (\E i \in DOMAIN queue' : queue'[i].work = v)
                             <=> (\E i \in DOMAIN queue : queue[i].work = v) /\ v # w
          OBVIOUS
        <5>1. ASSUME NEW i \in DOMAIN queue', queue'[i].work = v
              PROVE  (\E j \in DOMAIN queue : queue[j].work = v) /\ v # w
          BY <1>5, <2>5, <5>1
        <5>2. ASSUME NEW i \in DOMAIN queue, queue[i].work = v, v # w
              PROVE  \E j \in DOMAIN queue' : queue'[j].work = v
          BY <1>5, <1>6, <5>2 DEF w
        <5> QED
          BY <5>1, <5>2
      <4>2. \A q \in Clients : Stage(q) = "put" => job[q].work # w
        <5>1. \A q \in Clients : Stage(q) = "put" => Web(q)
          BY <1>1, <2>1 DEF JobsOK, JobOK, Web
        <5> QED
          BY <2>5, <5>1
      <4>3. \A q \in Clients : Stage(q)' = Stage(q)
        BY <2>1 DEF Stage
      <4> QED
        BY <2>1, <4>1, <4>2, <4>3 DEF Queued
    <3>2. \A v \in Works : Busy(v)' <=> Busy(v) \/ v = w
      BY <2>3, <2>4, <2>6 DEF Busy
    <3>3. \A v \in Works : status'[v] = IF v = w THEN "converting" ELSE status[v]
      BY <1>1, <1>3, <1>6 DEF w
    <3> QED
      BY <1>1, <3>1, <3>2, <3>3 DEF TasksInv, MapFollows
  <2> QED
    BY <2>7, <2>8, <2>9 DEF TasksInv
<1> QED
  BY <1>9, <1>10, <1>11, <1>12 DEF QueueInv

\* A worker stops waiting and says what became of its work.
LEMMA FreeKeepsQueue ==
  ASSUME QueueInv, CacheInv, NEW k \in Workers, Serves(k), NEW s \in {"absent", "failed"},
         status' = [status EXCEPT ![WorkOf(k)] = s],
         child' = [child EXCEPT ![k] = NoOne],
         Ends(child[k]), UNCHANGED <<bridge, known, queue, pool, asked>>,
         s = "absent" => bridge[WorkOf(k)] # NoRow
  PROVE  QueueInv'
<1> DEFINE w == WorkOf(k)
<1>0. PICK p : p = child[k]
  OBVIOUS
<1>1. /\ TablesOK /\ JobsOK /\ TasksInv /\ StatusTells
      /\ job \in [Procs -> Job] /\ queue \in Seq(Task)
      /\ child \in [Workers -> Children \cup {NoOne}]
      /\ status \in [Works -> {"absent", "queued", "converting", "failed"}]
  BY DEF QueueInv, TablesOK
<1>2. p \in Children /\ p \in Procs /\ p \notin Clients /\ Stage(p) # "free" /\ w \in known
  BY <1>0, <1>1, ProcsAssumption DEF Serves, TasksInv, TasksKnown
<1>3. w \in Works
  BY <1>1, <1>2 DEF TablesOK
<1>4. job' = [job EXCEPT ![p] = Free] /\ Free \in Job
  BY <1>0 DEF Ends, Job
<1>5. job'[p] = Free /\ \A q \in Procs : q # p => job'[q] = job[q]
  BY <1>1, <1>2, <1>4
<1>6. \A q \in Procs : q # p => call'[q] = call[q]
  BY <1>0, <1>2, OtherCalls DEF Ends, Quits, CacheInv, CacheTypeOK
<1>7. JobOK(p)'
  BY <1>5 DEF JobOK, Stage, Free
<1>8. job' \in [Procs -> Job] /\ JobsOK'
  BY <1>1, <1>2, <1>4, <1>6, <1>7, OneJob
<1>9. TablesOK'
  BY <1>1, <1>3, <1>8 DEF TablesOK
<1>10. StatusTells'
  BY <1>1, <1>3 DEF StatusTells, TablesOK
<1>11. TasksInv'
  <2>1. \A q \in Clients : q \in Procs /\ q # p /\ job'[q] = job[q]
    BY <1>2, <1>5, ProcsAssumption
  <2>2. \A q \in Clients : Web(q)' <=> Web(q)
    BY <2>1 DEF Web, Stage
  <2>3. ~Serves(k)'
    BY <1>1 DEF Serves
  <2>4. ASSUME NEW l \in Workers, l # k
        PROVE  /\ child'[l] = child[l] /\ (Serves(l)' <=> Serves(l))
               /\ Serves(l) => job'[child[l]] = job[child[l]] /\ WorkOf(l)' = WorkOf(l)
    <3>1. child'[l] = child[l]
      BY <1>1, <2>4
    <3>2. Serves(l) => child[l] \in Procs /\ child[l] # p
      <4>1. Serves(l) => child[l] \in Procs
        BY <1>1, ProcsAssumption DEF Serves
      <4>2. Serves(l) => WorkOf(l) # WorkOf(k)
        BY <1>1, <2>4 DEF TasksInv, TasksApart
      <4> QED
        BY <1>0, <4>1, <4>2 DEF WorkOf
    <3>3. Serves(l) => job'[child[l]] = job[child[l]]
      BY <1>5, <3>2
    <3> QED
      BY <3>1, <3>3 DEF Serves, WorkOf
  <2>5. TasksApart'
    <3>1. \A q, r \in Clients : Web(q)' /\ Web(r)' /\ job'[q].work = job'[r].work => q = r
      BY <1>1, <2>1, <2>2 DEF TasksInv, TasksApart
    <3>2. \A l, m \in Workers : Serves(l)' /\ Serves(m)' /\ WorkOf(l)' = WorkOf(m)' => l = m
      BY <1>1, <2>3, <2>4 DEF TasksInv, TasksApart
    <3>3. \A q \in Clients, l \in Workers : Web(q)' /\ Serves(l)' => job'[q].work # WorkOf(l)'
      BY <1>1, <2>1, <2>2, <2>3, <2>4 DEF TasksInv, TasksApart
    <3>4. \A i \in DOMAIN queue, l \in Workers : Serves(l)' => queue[i].work # WorkOf(l)'
      BY <1>1, <2>3, <2>4 DEF TasksInv, TasksApart
    <3>5. \A q \in Clients, i \in DOMAIN queue : Web(q)' => job'[q].work # queue[i].work
      BY <1>1, <2>1, <2>2 DEF TasksInv, TasksApart
    <3>6. queue' = queue
      OBVIOUS
    <3> QED
      BY <1>1, <3>1, <3>2, <3>3, <3>4, <3>5, <3>6 DEF TasksInv, TasksApart
  <2>6. TasksKnown'
    <3>1. ASSUME NEW l \in Workers, Serves(l)' PROVE Stage(child[l])' # "free" /\ WorkOf(l)' \in known'
      <4>1. l # k
        BY <2>3, <3>1
      <4> QED
        BY <1>1, <2>4, <3>1, <4>1 DEF TasksInv, TasksKnown, Stage
    <3> QED
      BY <1>1, <3>1 DEF TasksInv, TasksKnown
  <2>7. MapFollows'
    <3>1. \A v \in Works : Queued(v)' <=> Queued(v)
      <4>1. \A q \in Clients : Stage(q)' = Stage(q)
        BY <2>1 DEF Stage
      <4> QED
        BY <2>1, <4>1 DEF Queued
    <3>2. \A l \in Workers : Serves(l) /\ WorkOf(l) = w => l = k
      BY <1>1 DEF TasksInv, TasksApart
    <3> HIDE DEF w
    <3>3. \A v \in Works : Busy(v)' <=> Busy(v) /\ v # w
      BY <2>3, <2>4, <3>2 DEF Busy, w
    <3>4. \A v \in Works : status'[v] = IF v = w THEN s ELSE status[v]
      BY <1>1, <1>3 DEF w
    <3>5. Busy(w) /\ ~Queued(w)
      <4>1. \A q \in Clients : Stage(q) = "put" => Web(q)
        BY <1>1, <2>1 DEF JobsOK, JobOK, Web
      <4> QED
        BY <1>1, <4>1 DEF Busy, Queued, TasksInv, TasksApart, w
    <3> QED
      BY <1>1, <3>1, <3>3, <3>4, <3>5 DEF TasksInv, MapFollows
  <2> QED
    BY <2>5, <2>6, <2>7 DEF TasksInv
<1> QED
  BY <1>8, <1>9, <1>10, <1>11 DEF QueueInv

LEMMA CollectKeepsQueue == ASSUME QueueInv, CacheInv, NEW k \in Workers, Collect(k) PROVE QueueInv'
<1>1. TablesOK /\ JobsOK /\ TasksInv /\ Serves(k) /\ child[k] \in Children \cup {NoOne}
  BY DEF QueueInv, Collect, Serves, TablesOK
<1>2. child[k] \in Children /\ child[k] \in Procs
  BY <1>1, ProcsAssumption DEF Serves
<1>3. Stage(child[k]) = "done" => bridge[WorkOf(k)] # NoRow
  BY <1>1, <1>2 DEF JobsOK, JobOK, WorkOf
<1> QED
  BY <1>1, <1>3, FreeKeepsQueue DEF Collect, WorkOf

LEMMA TimeoutKeepsQueue == ASSUME QueueInv, CacheInv, NEW k \in Workers, Timeout(k) PROVE QueueInv'
BY FreeKeepsQueue DEF Timeout, Serves, WorkOf

\* A new server knows of no upload, and nothing is left of what the old one was
\* asked: a child that survives is a program like any other.
LEMMA RestartKeepsQueue ==
  ASSUME QueueInv, CacheInv, NEW survivors \in SUBSET Children, Restart(survivors)
  PROVE  QueueInv'
<1>1. TablesOK /\ JobsOK /\ job \in [Procs -> Job] /\ call \in [Procs -> Call]
  BY DEF QueueInv, TablesOK, CacheInv, CacheTypeOK
<1> DEFINE gone == {p \in Clients : job[p] # Free /\ job[p].flow = "web"} \cup (Served \ survivors)
<1>2. /\ job' = [p \in Procs |-> IF p \in gone THEN Free ELSE job[p]]
      /\ call' = [p \in Procs |-> IF p \in gone THEN [step |-> "idle"] ELSE call[p]]
      /\ status' = [w \in Works |-> "absent"] /\ queue' = <<>> /\ pool' = "off"
      /\ child' = [k \in Workers |-> NoOne] /\ asked' = {} /\ UNCHANGED <<bridge, known>>
  BY DEF Restart
<1>3. \A p \in Clients : Web(p) => p \in gone
  BY ProcsAssumption, <1>1, JobShape DEF Web
<1> HIDE DEF gone
<1>4. job' \in [Procs -> Job]
  BY <1>1, <1>2 DEF Job
<1>5. \A p \in Procs : \/ job'[p] = Free
                       \/ p \notin gone /\ job'[p] = job[p] /\ call'[p] = call[p]
  BY <1>2
<1>6. JobsOK'
  <2> SUFFICES ASSUME NEW p \in Procs PROVE JobOK(p)'
    BY DEF JobsOK
  <2>1. CASE job'[p] = Free
    BY <2>1 DEF JobOK, Stage, Free
  <2>2. CASE job'[p] = job[p] /\ call'[p] = call[p]
    <3>1. JobOK(p)
      BY <1>1 DEF JobsOK
    <3> QED
      BY <1>2, <2>2, <3>1 DEF JobOK, Stage, At
  <2> QED
    BY <1>5, <2>1, <2>2
<1>7. TablesOK'
  BY <1>1, <1>2, <1>4 DEF TablesOK
<1>8. StatusTells'
  BY <1>2 DEF StatusTells
<1>9. TasksInv'
  <2>1. \A p \in Clients : ~Web(p)'
    <3> SUFFICES ASSUME NEW p \in Clients PROVE ~Web(p)'
      OBVIOUS
    <3>1. p \in Procs
      BY ProcsAssumption
    <3> QED
      BY <1>3, <1>5, <3>1 DEF Web, Stage, Free
  <2>2. \A k \in Workers : ~Serves(k)'
    BY <1>2 DEF Serves
  <2>3. DOMAIN queue' = {}
    BY <1>2
  <2>4. \A p \in Clients : Stage(p)' # "put"
    <3>1. \A p \in Clients : JobOK(p)'
      BY <1>6, ProcsAssumption DEF JobsOK
    <3> QED
      BY <2>1, <3>1 DEF JobOK, Web
  <2>5. TasksApart' /\ TasksKnown'
    BY <2>1, <2>2, <2>3 DEF TasksApart, TasksKnown
  <2>6. \A w \in Works : ~Queued(w)' /\ ~Busy(w)' /\ status'[w] = "absent"
    BY <1>2, <2>2, <2>3, <2>4 DEF Queued, Busy
  <2>7. MapFollows'
    BY <2>6 DEF MapFollows
  <2> QED
    BY <2>5, <2>7 DEF TasksInv
<1> QED
  BY <1>6, <1>7, <1>8, <1>9 DEF QueueInv

LEMMA InitQueue == Init => QueueInv
<1> SUFFICES ASSUME Init PROVE QueueInv
  OBVIOUS
<1>1. \A p \in Procs : job[p] = Free
  BY DEF Init
<1>2. \A p \in Clients : Stage(p) = "free" /\ p \in Procs
  BY <1>1, ProcsAssumption DEF Stage, Free
<1>3. TablesOK
  BY FlowsAssumption DEF Init, TablesOK, Job
<1>4. JobsOK
  <2>1. Free.stage = "free"
    BY DEF Free
  <2>2. \A p \in Procs : Stage(p) = "free"
    BY <1>1, <2>1 DEF Stage
  <2> QED
    BY <2>2 DEF JobsOK, JobOK
<1>5. \A k \in Workers : ~Serves(k)
  BY DEF Init, Serves
<1>6. DOMAIN queue = {}
  BY DEF Init
<1>7. TasksApart /\ TasksKnown
  BY <1>2, <1>5, <1>6 DEF TasksApart, TasksKnown, Web
<1>8. MapFollows
  BY <1>2, <1>5, <1>6 DEF Init, MapFollows, Queued, Busy
<1>9. StatusTells
  BY DEF Init, StatusTells
<1> QED
  BY <1>3, <1>4, <1>7, <1>8, <1>9 DEF QueueInv, TasksInv

LEMMA QueueStutter == QueueInv /\ UNCHANGED <<call, job, bridge, known, status, queue, child, asked>>
                        /\ pool' \in {"off", "starting", "on"} => QueueInv'
<1> SUFFICES ASSUME QueueInv, UNCHANGED <<call, job, bridge, known, status, queue, child, asked>>,
                    pool' \in {"off", "starting", "on"}
             PROVE  QueueInv'
  OBVIOUS
<1>1. TablesOK' /\ StatusTells'
  BY DEF QueueInv, TablesOK, StatusTells
<1>2. JobsOK'
  BY DEF QueueInv, JobsOK, JobOK, Stage, At
<1>3. TasksInv'
  BY DEF QueueInv, TasksInv, TasksApart, TasksKnown, MapFollows, Queued, Busy, Web, Serves, WorkOf, Stage
<1> QED
  BY <1>1, <1>2, <1>3 DEF QueueInv

\* The invariant is kept by every step of the system.
LEMMA QueueKept == ASSUME QueueInv, CacheInv, Next PROVE QueueInv'
<1>1. CASE \E p \in Clients, flow \in AllFlows, w \in Works, f \in Files : StartFlow(p, flow, w, f)
  BY <1>1, StartKeepsQueue
<1>2. ASSUME NEW p \in Procs, ProgramStep(p) PROVE QueueInv'
  BY <1>2, CallStepKeepsQueue, ConvertKeepsQueue, OcrKeepsQueue, FolderStopKeepsQueue,
     FolderMatchKeepsQueue, ImportKeepsQueue, BridgeSelectKeepsQueue, BridgeWriteKeepsQueue,
     FailKeepsQueue, DiesKeepsQueue DEF ProgramStep
<1>3. ASSUME NEW p \in Procs, ProcStep(p) PROVE QueueInv'
  BY <1>2, <1>3, AnnounceKeepsQueue, PutKeepsQueue, BackfilledKeepsQueue, ChildKilledKeepsQueue
     DEF ProcStep
<1>4. CASE StartPool
  BY <1>4, QueueStutter DEF StartPool, cacheVars
<1>5. CASE \E k \in Workers : Take(k) \/ Collect(k) \/ Timeout(k)
  BY <1>5, TakeKeepsQueue, CollectKeepsQueue, TimeoutKeepsQueue
<1>6. CASE \E survivors \in SUBSET Children : Restart(survivors)
  BY <1>6, RestartKeepsQueue
<1> QED
  BY <1>1, <1>3, <1>4, <1>5, <1>6 DEF Next

\* One place at most, counted.
LEMMA AtMostOne ==
  ASSUME NEW S, \A x, y \in S : x = y
  PROVE  Cardinality(S) = IF S = {} THEN 0 ELSE 1
<1>1. CASE S = {}
  BY <1>1, FS_EmptySet
<1>2. CASE S # {}
  <2>1. PICK x \in S : TRUE
    BY <1>2
  <2>2. S = {x}
    BY <2>1
  <2> QED
    BY <1>2, <2>2, FS_Singleton
<1> QED
  BY <1>1, <1>2

LEMMA QueueTells == QueueInv => StatusFollowsTask
<1> SUFFICES ASSUME QueueInv, NEW w \in Works
             PROVE  LET waiting == {i \in DOMAIN queue : queue[i].work = w}
                        putting == {p \in Clients : Stage(p) = "put" /\ job[p].work = w}
                        serving == {k \in Workers : child[k] # NoOne /\ job[child[k]].work = w}
                    IN /\ status[w] = "queued" <=> waiting \cup putting # {}
                       /\ status[w] = "converting" <=> serving # {}
                       /\ Cardinality(waiting) + Cardinality(putting) + Cardinality(serving) <= 1
  BY DEF StatusFollowsTask
<1> DEFINE waiting == {i \in DOMAIN queue : queue[i].work = w}
           putting == {p \in Clients : Stage(p) = "put" /\ job[p].work = w}
           serving == {k \in Workers : child[k] # NoOne /\ job[child[k]].work = w}
<1>1. TasksApart /\ MapFollows /\ JobsOK
  BY DEF QueueInv, TasksInv
<1>2. \A p \in Clients : Stage(p) = "put" => Web(p)
  BY <1>1, ProcsAssumption DEF JobsOK, JobOK, Web
<1>3. Queued(w) <=> waiting \cup putting # {}
  BY DEF Queued
<1>4. Busy(w) <=> serving # {}
  BY DEF Busy, Serves, WorkOf
<1>5. (status[w] = "queued" <=> waiting \cup putting # {}) /\ (status[w] = "converting" <=> serving # {})
  BY <1>1, <1>3, <1>4 DEF MapFollows
<1>6. /\ \A x, y \in waiting : x = y
      /\ \A x, y \in putting : x = y
      /\ \A x, y \in serving : x = y
  BY <1>1, <1>2 DEF TasksApart, Serves, WorkOf
<1>7. /\ waiting # {} => putting = {} /\ serving = {}
      /\ putting # {} => serving = {}
  BY <1>1, <1>2 DEF TasksApart, Serves, WorkOf
<1> HIDE DEF waiting, putting, serving
<1>8. /\ Cardinality(waiting) = IF waiting = {} THEN 0 ELSE 1
      /\ Cardinality(putting) = IF putting = {} THEN 0 ELSE 1
      /\ Cardinality(serving) = IF serving = {} THEN 0 ELSE 1
  BY <1>6, AtMostOne
<1>9. Cardinality(waiting) + Cardinality(putting) + Cardinality(serving) <= 1
  BY <1>7, <1>8
<1> QED
  BY <1>5, <1>9 DEF waiting, putting, serving

\* The status map tells the fate of every upload and follows queue, workers and
\* children, however many there are and whatever dies, hangs or restarts
\* (web/marker_queue.py, web/_convert_worker.py).
THEOREM UploadsAreTold == Spec => []StatusIsTrue
<1> DEFINE Inv == CacheInv /\ WaitsForChild /\ QueueInv
<1>1. Init => Inv
  BY InitCache, WaitsInit, InitQueue DEF Init
<1>2. Inv /\ [Next]_vars => Inv'
  <2> SUFFICES ASSUME CacheInv, WaitsForChild, QueueInv, [Next]_vars PROVE CacheInv' /\ QueueInv'
    BY WaitsKept
  <2>1. CASE UNCHANGED vars
    BY <2>1, StutterKeeps, QueueStutter DEF vars, server, cacheVars, QueueInv, TablesOK
  <2>2. CASE Next
    <3>1. QueueInv'
      BY <2>2, QueueKept
    <3>2. CASE UNCHANGED cacheVars
      BY <3>1, <3>2, StutterKeeps
    <3>3. CASE \E p \in Procs : CallAction(p)
      BY <3>1, <3>3, CallActionKeeps
    <3>4. CASE Lost
      BY <3>1, <3>4, LostKeepsCache
    <3> QED
      BY <2>2, <3>2, <3>3, <3>4, StepsAreCalls
  <2> QED
    BY <2>1, <2>2
<1>3. Inv => StatusIsTrue
  BY QueueTells DEF StatusIsTrue, TypeOK, QueueInv, TablesOK, CacheInv
<1> HIDE DEF Inv
<1> QED
  BY <1>1, <1>2, <1>3, PTL DEF Spec

=============================================================================
