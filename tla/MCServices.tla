------------------------------- MODULE MCServices -------------------------------
(* Small configurations for the components whose work must come to an end: the *)
(* calls of language models, the commands that turn papers into notes, the runs *)
(* and web jobs, the lenses.  A behaviour runs one of them, chosen by part; the *)
(* others rest in their first state.                                            *)
EXTENDS ModelCalls, ApiExtraction, RunJobs, LensRuns, TLC

CONSTANTS q1, q2, nw1, nw2, lw1, Parts

VARIABLE part
servicesVars == <<part, callsVars, apiVars, jobsVars, lensVars>>

-----------------------------------------------------------------------------
(* Two profiles; the policies, prices and authorisations the gates tell apart. *)
TheProfileOrder == <<q1, q2>>
Listed == q1 :> "verified" @@ q2 :> "verified"
Limits == {<<FALSE, Listed>>, <<FALSE, q1 :> "unlisted" @@ q2 :> "verified">>,
           <<TRUE, q1 :> "verified" @@ q2 :> "unverified">>,
           <<TRUE, q1 :> "unverified" @@ q2 :> "verified">>}
Policies == {<<TRUE, FALSE, AnyClass, {}>>, <<TRUE, TRUE, AnyClass, {"open_access"}>>,
             <<FALSE, TRUE, AnyClass, {}>>, <<TRUE, FALSE, {"user_supplied_private"}, {}>>}
Kinds == {q1 :> "external" @@ q2 :> "external", q1 :> "external" @@ q2 :> "local",
          q1 :> "local" @@ q2 :> "external", q1 :> "external" @@ q2 :> "none",
          q1 :> "unknown" @@ q2 :> "local"}

TheLlmConfigs ==
  {[kind |-> k, usable |-> u, authorised |-> a, routed |-> TRUE, preferred |-> q1, fallback |-> f,
    needsText |-> TRUE, allowExternal |-> p[1], privateExternal |-> p[2], classes |-> p[3],
    externalOnly |-> p[4], usdLimit |-> l[1], allowUnverified |-> FALSE, price |-> l[2]]
   : k \in Kinds, u \in {{q1, q2}, {q2}}, a \in {{q1, q2}, {q1}}, f \in {q2, NoProfile},
     p \in Policies, l \in Limits}

-----------------------------------------------------------------------------
(* One command with a pool of two; nw1 takes the turn a configuration asks     *)
(* for, nw2 is an ordinary paper that is there only in some.                   *)
TheThreads == {<<"c1", 1>>, <<"c1", 2>>}

NoteConfig(both, texts, gate, size, chunks, monthly, perRun) ==
  [converted |-> [w \in NoteWorks |-> w = nw1 \/ both], texts |-> texts, order |-> <<nw1, nw2>>,
   gate |-> [w \in NoteWorks |-> IF w = nw1 THEN gate ELSE "route"],
   size |-> [w \in NoteWorks |-> IF w = nw1 THEN size ELSE "fits"],
   chunks |-> [w \in NoteWorks |-> chunks], monthly |-> monthly, perRun |-> perRun]

TheNoteConfigs ==
  {NoteConfig(FALSE, 1, g, "fits", << >>, NoLimit, 1) : g \in {"route", "policy", "none", "price"}} \cup
  {NoteConfig(TRUE, 1, "route", "oversize", <<"fits", "over", "fits">>, 2, NoLimit),
   NoteConfig(TRUE, 1, "route", "fits", << >>, 1, NoLimit),
   NoteConfig(FALSE, 1, "route", "oversize", <<"fits", "fits", "fits">>, NoLimit, 2),
   NoteConfig(FALSE, 2, "price", "oversize", <<"over">>, NoLimit, 1),
   NoteConfig(FALSE, 2, "route", "unlisted", <<"fits">>, NoLimit, 1)}

-----------------------------------------------------------------------------
(* Each behaviour launches one kind of task, as often as its runs allow.        *)
TheTasks ==
  {{t} : t \in {"conversion", "sections", "cite", "concepts", "extraction", "chunked",
                "lenses", "lenses without a lens", "answer"}}

-----------------------------------------------------------------------------
(* The back end of the tests and the one build_lens_router makes; an answer     *)
(* that is no JSON, one whose only record is no object, and one with a record   *)
(* for each rule of validate_record.                                            *)
TheBackends  == {"stub", "injected"}
TheLensOrder == <<lw1>>

NoJson == [garbled |-> TRUE, records |-> << >>]
Record(issues, declared, inferred, span) ==
  [object |-> TRUE, issues |-> issues, declared |-> declared, inferred |-> inferred, span |-> span]
NoObject == [Record(FALSE, "found", "no", FALSE) EXCEPT !.object = FALSE]
EveryRecord ==
  [garbled |-> FALSE,
   records |-> <<Record(TRUE, "found", "no", TRUE), Record(FALSE, "not_found", "no", FALSE), NoObject,
                 Record(FALSE, "found", "unexplained", TRUE), Record(FALSE, "found", "no", FALSE),
                 Record(FALSE, "found", "no", TRUE)>>]
TheLensAnswers == {NoJson, [garbled |-> FALSE, records |-> <<NoObject>>], EveryRecord}

-----------------------------------------------------------------------------
ALlmConfig  == CHOOSE c \in TheLlmConfigs : TRUE
ANoteConfig == CHOOSE c \in TheNoteConfigs : TRUE
SomeTasks   == CHOOSE t \in Offers : TRUE
SomeBackend == CHOOSE b \in LensBackends : TRUE

ServicesInit ==
  /\ part \in Parts
  /\ CallsStart /\ IF part = "calls" THEN llmCfg \in LlmConfigs ELSE llmCfg = ALlmConfig
  /\ IF part = "api" THEN noteCfg \in NoteConfigs ELSE noteCfg = ANoteConfig
  /\ ApiStart
  /\ JobsStart  /\ IF part = "jobs" THEN offered \in Offers ELSE offered = SomeTasks
  /\ LensStart  /\ IF part = "lens" THEN backend \in LensBackends ELSE backend = SomeBackend

ServicesNext ==
  \/ part = "calls" /\ CallsNext /\ UNCHANGED <<part, apiVars, jobsVars, lensVars>>
  \/ part = "api" /\ ApiNext /\ UNCHANGED <<part, callsVars, jobsVars, lensVars>>
  \/ part = "jobs" /\ JobsNext /\ UNCHANGED <<part, callsVars, apiVars, lensVars>>
  \/ part = "lens" /\ LensNext /\ UNCHANGED <<part, callsVars, apiVars, jobsVars>>

ServicesSpec ==
  ServicesInit /\ [][ServicesNext]_servicesVars
    /\ CallsFairness /\ ApiFairness /\ JobsFairness /\ LensFairness

-----------------------------------------------------------------------------
(* Everything a user starts comes to an end: the call with its retries, hop and *)
(* repair, the command, the job with its slot, the lens run.                    *)
EverythingEnds == CallEnds /\ CommandsEnd /\ SlotIsFreed /\ LensRunEnds
=============================================================================
