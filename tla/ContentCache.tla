----------------------------- MODULE ContentCache -----------------------------
(***************************************************************************)
(* The shared cache of source files, conversion runs and markdown          *)
(* (cache/ingest.py, cache/convert.py over cache.db).                      *)
(*                                                                         *)
(* Every program that adds a PDF or converts one (the server's upload      *)
(* handler, a conversion child, a corpus pass, a command) opens cache.db   *)
(* by itself.  A call reads before it writes, and SQLite starts its        *)
(* transaction at the first write, so what was read may be stale when it   *)
(* is used; a conversion is minutes long in between.                       *)
(*                                                                         *)
(* A file stands for its bytes: one row per content hash.  A markdown      *)
(* likewise; different files may convert to the same markdown, whose one   *)
(* row points at the file it is accessed as.                               *)
(***************************************************************************)
EXTENDS Naturals, Sequences

CONSTANTS
  Procs,       \* processes that call the cache
  Files, Markdowns,
  Classes,     \* access classes the callers of this instance ask for
  MaxRuns      \* bound: conversion runs ever recorded

\* AccessClass, by restrictiveness.
Restrictiveness ==
  [open_access |-> 1, metadata_only |-> 2, licensed_future |-> 3, unknown |-> 4,
   user_supplied_private |-> 5]
Stricter(a, b) == IF Restrictiveness[b] > Restrictiveness[a] THEN b ELSE a

ASSUME ClassesAssumption == Classes \subseteq DOMAIN Restrictiveness
ASSUME MaxRunsAssumption == MaxRuns \in Nat

VARIABLES
  access,   \* rows of source_files: the access class of each known file
  runs,     \* rows of conversion_runs, in the order of created_at
  pointer,  \* rows of markdown_documents: the file each markdown is accessed as
  call      \* what each process's call has read so far, or its outcome

cache == <<access, runs, pointer>>
cacheVars == <<cache, call>>

Configs == {"default", "ocr", "import"}
Run == [file : Files, config : Configs, status : {"pending"}]
       \cup [file : Files, config : Configs, status : {"failed"}]
       \cup [file : Files, config : Configs, status : {"success"}, md : Markdowns]

Unseen == "none"
Call ==
  [step : {"idle", "invalid", "error"}]
  \cup [step : {"ingest"}, file : Files, class : Classes, seen : Classes \cup {Unseen}]
  \cup [step : {"backend"}, file : Files, class : Classes, run : 1..MaxRuns]
  \cup [step : {"store"}, file : Files, class : Classes, run : 1..MaxRuns,
        md : Markdowns, seen : Classes \cup {Unseen}]
  \cup [step : {"import"}, file : Files, class : Classes, md : Markdowns]
  \cup [step : {"ingested"}, file : Files]
  \cup [step : {"converted"}, file : Files, md : Markdowns]

CacheTypeOK ==
  /\ DOMAIN access \subseteq Files /\ \A f \in DOMAIN access : access[f] \in Classes
  /\ runs \in Seq(Run) /\ Len(runs) <= MaxRuns
  /\ DOMAIN pointer \subseteq Markdowns /\ \A m \in DOMAIN pointer : pointer[m] \in DOMAIN access
  /\ call \in [Procs -> Call]

CacheInit ==
  /\ access = <<>>
  /\ runs = <<>>
  /\ pointer = <<>>
  /\ call = [p \in Procs |-> [step |-> "idle"]]

\* A process has no call under way; the outcome of its last one is still there.
Ready(p) == call[p].step \in {"idle", "ingested", "converted", "invalid", "error"}
At(p, step) == call[p].step = step
Becomes(p, c) == call' = [call EXCEPT ![p] = c]

\* The class a markdown is read under (source_access_class).
ClassOf(m) == IF m \in DOMAIN pointer THEN access[pointer[m]] ELSE Unseen

-----------------------------------------------------------------------------
(* ingest_file *)

IngestSelect(p, f, class) ==
  /\ Ready(p)
  /\ Becomes(p, [step |-> "ingest", file |-> f, class |-> class,
                 seen |-> IF f \in DOMAIN access THEN access[f] ELSE Unseen])
  /\ UNCHANGED cache

\* A new file.  The row is unique per hash: whoever comes second fails.
IngestInsert(p) ==
  LET c == call[p]
  IN /\ At(p, "ingest") /\ c.seen = Unseen
     /\ IF c.file \in DOMAIN access
        THEN Becomes(p, [step |-> "error"]) /\ UNCHANGED access
        ELSE /\ access' = [f \in DOMAIN access \cup {c.file} |->
                             IF f = c.file THEN c.class ELSE access[f]]
             /\ Becomes(p, [step |-> "ingested", file |-> c.file])
     /\ UNCHANGED <<runs, pointer>>

\* (mutant) the newest acquisition decides
IngestRelabel(p) ==
  LET c == call[p]
  IN /\ At(p, "ingest") /\ c.seen # Unseen
     /\ access' = [access EXCEPT ![c.file] = c.class]
     /\ Becomes(p, [step |-> "ingested", file |-> c.file])
     /\ UNCHANGED <<runs, pointer>>
\* A known file is only ever made more restrictive, by what the call has read.
IngestTighten(p) ==
  LET c == call[p]
  IN /\ At(p, "ingest") /\ c.seen # Unseen
     /\ access' = IF Stricter(c.seen, c.class) = c.seen THEN access
                  ELSE [access EXCEPT ![c.file] = Stricter(c.seen, c.class)]
     /\ Becomes(p, [step |-> "ingested", file |-> c.file])
     /\ UNCHANGED <<runs, pointer>>

-----------------------------------------------------------------------------
(* convert_source_file *)

Successes(f, config) ==
  {i \in DOMAIN runs : runs[i].file = f /\ runs[i].config = config /\ runs[i].status = "success"}
Newest(i, indices) == i \in indices /\ \A k \in indices : k <= i

\* A cached success is returned as it is, unless forced.
ConvertReuse(p, f, config) ==
  /\ Ready(p) /\ f \in DOMAIN access
  /\ \E i \in DOMAIN runs :
       /\ Newest(i, Successes(f, config))
       /\ Becomes(p, [step |-> "converted", file |-> f, md |-> runs[i].md])
  /\ UNCHANGED cache

\* Otherwise a pending run is committed before the converter starts, and the
\* class of the file is remembered.
ConvertBegin(p, f, config, force) ==
  /\ Ready(p) /\ f \in DOMAIN access
  /\ force \/ Successes(f, config) = {}
  /\ Len(runs) < MaxRuns
  /\ runs' = Append(runs, [file |-> f, config |-> config, status |-> "pending"])
  /\ Becomes(p, [step |-> "backend", file |-> f, class |-> access[f], run |-> Len(runs) + 1])
  /\ UNCHANGED <<access, pointer>>

\* Marker fails, or its output is not text.
BackendFails(p) ==
  /\ At(p, "backend")
  /\ runs' = [runs EXCEPT ![call[p].run].status = "failed"]
  /\ Becomes(p, [step |-> "invalid"])
  /\ UNCHANGED <<access, pointer>>

\* store_markdown_document looks for the row of this markdown.
BackendYields(p, m) ==
  LET c == call[p]
  IN /\ At(p, "backend")
     /\ Becomes(p, [step |-> "store", file |-> c.file, class |-> c.class, run |-> c.run,
                    md |-> m, seen |-> ClassOf(m)])
     /\ UNCHANGED cache

Succeeded(run, m) ==
  [runs EXCEPT ![run] = [file |-> @.file, config |-> @.config, status |-> "success", md |-> m]]

\* (mutant) the row is committed before its run is finished
StoreInsertFirst(p) ==
  LET c == call[p]
  IN /\ At(p, "store") /\ c.seen = Unseen
     /\ IF c.md \in DOMAIN pointer
        THEN Becomes(p, [step |-> "error"]) /\ UNCHANGED pointer
        ELSE /\ pointer' = [m \in DOMAIN pointer \cup {c.md} |->
                              IF m = c.md THEN c.file ELSE pointer[m]]
             /\ Becomes(p, [c EXCEPT !.seen = c.class])
     /\ UNCHANGED <<access, runs>>
\* A new markdown.  Whoever comes second fails, and its run stays pending.
StoreInsert(p) ==
  LET c == call[p]
  IN /\ At(p, "store") /\ c.seen = Unseen
     /\ IF c.md \in DOMAIN pointer
        THEN Becomes(p, [step |-> "error"]) /\ UNCHANGED <<runs, pointer>>
        ELSE /\ pointer' = [m \in DOMAIN pointer \cup {c.md} |->
                              IF m = c.md THEN c.file ELSE pointer[m]]
             /\ runs' = Succeeded(c.run, c.md)
             /\ Becomes(p, [step |-> "converted", file |-> c.file, md |-> c.md])
     /\ UNCHANGED access

\* A known markdown is repointed only to a strictly more restrictive file; both
\* classes are those the call has read.
Repointed(m, file, class, seen) ==
  IF Stricter(seen, class) = seen THEN pointer ELSE [pointer EXCEPT ![m] = file]
StoreReconcile(p) ==
  LET c == call[p]
  IN /\ At(p, "store") /\ c.seen # Unseen
     /\ pointer' = Repointed(c.md, c.file, c.class, c.seen)
     /\ runs' = Succeeded(c.run, c.md)
     /\ Becomes(p, [step |-> "converted", file |-> c.file, md |-> c.md])
     /\ UNCHANGED access

-----------------------------------------------------------------------------
(* import_external_markdown: the run is written first, so the search for the  *)
(* markdown is inside the transaction; only the class of the file may be stale. *)

ImportSelect(p, f, m) ==
  /\ Ready(p) /\ f \in DOMAIN access
  /\ Becomes(p, [step |-> "import", file |-> f, class |-> access[f], md |-> m])
  /\ UNCHANGED cache

ImportWrite(p) ==
  LET c == call[p]
  IN /\ At(p, "import")
     /\ Len(runs) < MaxRuns
     /\ runs' = Append(runs, [file |-> c.file, config |-> "import", status |-> "success", md |-> c.md])
     /\ pointer' = IF c.md \in DOMAIN pointer
                   THEN Repointed(c.md, c.file, c.class, ClassOf(c.md))
                   ELSE [m \in DOMAIN pointer \cup {c.md} |->
                           IF m = c.md THEN c.file ELSE pointer[m]]
     /\ Becomes(p, [step |-> "converted", file |-> c.file, md |-> c.md])
     /\ UNCHANGED access

-----------------------------------------------------------------------------
\* The process is done with its call, or dies in it: what was not committed is
\* gone, a pending run stays pending.
Quits(p) ==
  /\ Becomes(p, [step |-> "idle"])
  /\ UNCHANGED cache

\* What a call does once it is under way.
CallStep(p) ==
  \/ IngestInsert(p) \/ IngestTighten(p)
  \/ BackendFails(p) \/ \E m \in Markdowns : BackendYields(p, m)
  \/ StoreInsert(p) \/ StoreReconcile(p)
  \/ ImportWrite(p)

\* Callers without a project: the cache's own commands (cache/cli.py).
CacheNext ==
  \E p \in Procs :
    \/ CallStep(p)
    \/ ~At(p, "idle") /\ Quits(p)
    \/ \E f \in Files :
         \/ \E class \in Classes : IngestSelect(p, f, class)
         \/ ConvertReuse(p, f, "default")
         \/ \E force \in BOOLEAN : ConvertBegin(p, f, "default", force)

CacheSpec == CacheInit /\ [][CacheNext]_cacheVars

-----------------------------------------------------------------------------
(* Properties *)

Produced(f, m) == \E i \in DOMAIN runs : runs[i].file = f /\ runs[i].status = "success" /\ runs[i].md = m

\* Whatever a file or a markdown was once classified as, it never becomes less
\* restrictive: not by a second acquisition, not by another file with the same
\* markdown, not through a class or a row read before somebody else's write
\* (reconcile_access_class, store_markdown_document: "never-downgrade").
NoRowLoosens ==
  /\ \A f \in DOMAIN access :
       f \in DOMAIN access' /\ Restrictiveness[access'[f]] >= Restrictiveness[access[f]]
  /\ \A m \in DOMAIN pointer :
       m \in DOMAIN pointer' /\
       Restrictiveness[access'[pointer'[m]]] >= Restrictiveness[access[pointer[m]]]
NeverLoosens == [][NoRowLoosens]_cacheVars

\* Lineage: a successful run names a markdown that has a row, and the row
\* names a file that did produce it, whatever crashed or came second.
LineageHolds ==
  /\ \A i \in DOMAIN runs : runs[i].status = "success" => runs[i].md \in DOMAIN pointer
  /\ \A m \in DOMAIN pointer : Produced(pointer[m], m)

\* "The single markdown row keeps a most-restrictive access representative"
\* (proven_markdown_source): what a conversion of a file returns is read at
\* least as restrictively as the file.
MarkdownKeepsMostRestrictive ==
  \A p \in Procs : At(p, "converted") =>
    Restrictiveness[access[call[p].file]] <= Restrictiveness[ClassOf(call[p].md)]
=============================================================================
