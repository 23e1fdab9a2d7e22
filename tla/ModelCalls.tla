------------------------------ MODULE ModelCalls ------------------------------
(* One call of llm/executor.py from its gates to its usage row: transport      *)
(* retries, the one hop to a fallback profile, the one repair prompt.  Entry   *)
(* "task" is run_llm, "note" the call of extract_note and "chunk" the call of  *)
(* extract_note_chunked, which has no hop and adds its usage up per paper.     *)
(* The user may remove a key at any moment.                                    *)
EXTENDS ModelRouting

CONSTANTS LlmConfigs, LlmEntries, RetryMax

(* A configuration: see ModelRouting for its fields.                           *)
AnyConfig ==
  [kind : [LlmProfiles -> {"local", "external", "none", "unknown"}],
   usable : SUBSET LlmProfiles, authorised : SUBSET LlmProfiles, routed : BOOLEAN,
   preferred : LlmProfiles \cup {NoProfile}, fallback : LlmProfiles \cup {NoProfile},
   needsText : BOOLEAN, allowExternal : BOOLEAN, privateExternal : BOOLEAN,
   classes : SUBSET AnyClass, externalOnly : SUBSET AnyClass,
   usdLimit : BOOLEAN, allowUnverified : BOOLEAN,
   price : [LlmProfiles -> {"verified", "unverified", "unlisted"}]]

ASSUME RetryAssumption == RetryMax \in Nat \ {0}
ASSUME ConfigAssumption ==
  /\ LlmConfigs \subseteq AnyConfig
  /\ ProfileOrder \in Seq(LlmProfiles)
  /\ NoProfile \notin LlmProfiles

VARIABLES llmCfg, call, sent, usage
callsVars == <<llmCfg, call, sent, usage>>

Retryable     == {"rate_limited", "timeout", "provider_unavailable"}
FallbackCodes == {"provider_unavailable", "invalid_response"}

StatusOf(code) ==
  CASE code = "ok" -> "success"
    [] code = "policy_blocked" -> "skipped_policy"
    [] code = "config_error" -> "skipped_no_llm"
    [] code = "budget_exceeded" -> "skipped_budget"
    [] OTHER -> "extraction_failed"

(* What an HTTP status means to the executor; one status of each class.        *)
HttpError(status) ==
  CASE status = "401" -> "auth_error"
    [] status = "429" -> "rate_limited"
    [] status = "408" -> "timeout"
    [] status = "503" -> "provider_unavailable"
    [] OTHER -> "invalid_response"

(* What the wire brings: no answer in time, no connection, an HTTP error, or a  *)
(* body that is no JSON object, has no text in the place the adapter looks at, *)
(* only blanks there, or (ollama) the answer under "thinking".                 *)
Replies == {"timeout", "down", "no_json", "no_text", "blank", "thinking", "bad_key", "text"}
           \cup {"400", "401", "408", "429", "503"}

PostJson(reply) ==
  CASE reply \in {"400", "401", "408", "429", "503"} -> HttpError(reply)
    [] reply = "timeout" -> "timeout"
    [] reply = "down" -> "provider_unavailable"
    [] reply = "bad_key" -> HttpError("400")
    [] reply = "no_json" -> "invalid_response"
    [] OTHER -> "body"

(* What an adapter makes of it: anthropic takes blank text for an answer,      *)
(* ollama a text under "thinking", gemini tells a bad key from a bad request.  *)
Complete(adapter, reply) ==
  IF adapter = "gemini" /\ reply = "bad_key" THEN "auth_error"
  ELSE IF PostJson(reply) # "body" THEN PostJson(reply)
  ELSE IF reply = "text" THEN "text"
  ELSE IF adapter = "anthropic" /\ reply = "blank" THEN "text"
  ELSE IF adapter = "ollama" /\ reply = "thinking" THEN "text"
  ELSE "invalid_response"

Adapters == {"ollama", "anthropic", "openai", "gemini"}

BackendErrors == {Complete(b, r) : b \in Adapters, r \in Replies} \ {"text"}

NoCall == [pc |-> "idle", entry |-> "task", class |-> "open_access", confirm |-> FALSE,
           plan |-> NoProfile, route |-> NoRoute, hopped |-> FALSE, attempt |-> 0,
           tries |-> 0, stage |-> "first", tokens |-> 0, code |-> "ok"]

CallsStart ==
  /\ call = NoCall
  /\ sent = {}
  /\ usage = << >>

CallsInit == llmCfg \in LlmConfigs /\ CallsStart

Effective  == Override(llmCfg, call.confirm, NoProfile)
Ends(code) == call' = [call EXCEPT !.pc = "log", !.code = code]

BlockCode(kind) ==
  CASE kind = "none" -> "config_error"
    [] kind = "budget" -> "budget_exceeded"
    [] kind = "raised" -> "raised"
    [] kind = "oversize" -> "oversize"
    [] OTHER -> "policy_blocked"

CallBegin(entry, class, confirm) ==
  /\ call.pc = "idle"
  /\ LET c == Override(llmCfg, confirm, NoProfile)
         r == IF entry = "task" THEN Preflight(c, class) ELSE NoteGates(c, class, entry = "chunk")
         begun == [NoCall EXCEPT !.entry = entry, !.class = class, !.confirm = confirm]
     IN call' = IF r.kind = "route"
                THEN [begun EXCEPT !.pc = "build", !.plan = r.profile, !.route = r]
                ELSE [begun EXCEPT !.pc = "log", !.code = BlockCode(r.kind)]
  /\ UNCHANGED <<llmCfg, sent, usage>>

(* The backend is built with the key it finds now: without one a hosted        *)
(* adapter refuses before the network, and a provider without an adapter       *)
(* answers with a configuration error.                                         *)
CallBuild ==
  /\ call.pc = "build"
  /\ LET p == call.route.profile IN
     IF p \in llmCfg.usable THEN call' = [call EXCEPT !.pc = "send"]
     ELSE Ends(IF IsLocal(llmCfg, p) THEN "config_error" ELSE "auth_error")
  /\ UNCHANGED <<llmCfg, sent, usage>>

CallSend ==
  /\ call.pc = "send"
  /\ call' = [call EXCEPT !.pc = "wait", !.attempt = @ + 1, !.tries = @ + 1]
  /\ sent' = sent \cup {[profile |-> call.route.profile, text |-> Sends(llmCfg, call.route.profile)]}
  /\ UNCHANGED <<llmCfg, usage>>

Hop(code) ==
  IF call.hopped \/ code \notin FallbackCodes \/ call.entry = "chunk" THEN NoRoute
  ELSE IF call.entry = "task" THEN TaskHop(llmCfg, call.class, call.plan, call.route.fallback)
  ELSE NoteHop(Effective, call.class, call.route.fallback)

(* A typed provider error: retry, hop once, or give the call up.  A repair     *)
(* that fails keeps the first completion and its tokens.                       *)
CallError(code) ==
  /\ call.pc = "wait"
  /\ LET again == code \in Retryable /\ call.attempt < RetryMax
         h == Hop(code)
     IN IF again THEN call' = [call EXCEPT !.pc = "send"]
        ELSE IF call.stage = "repair" THEN Ends("schema_validation_failed")
        ELSE IF h.kind = "route"
        THEN call' = [call EXCEPT !.pc = "build", !.route = h, !.hopped = TRUE, !.attempt = 0]
        ELSE Ends(code)
  /\ UNCHANGED <<llmCfg, sent, usage>>

(* Any other exception is reported as provider_unavailable, without a hop.     *)
CallCrash ==
  /\ call.pc = "wait"
  /\ Ends(IF call.stage = "repair" THEN "schema_validation_failed" ELSE "provider_unavailable")
  /\ UNCHANGED <<llmCfg, sent, usage>>

(* A completion: valid, or sent back once with the repair prompt.              *)
CallAnswer(valid) ==
  /\ call.pc = "wait"
  /\ LET again == ~valid /\ call.stage = "first" IN
     call' = [call EXCEPT !.tokens = @ + 1, !.stage = "repair", !.attempt = 0,
                          !.pc = IF again THEN "send" ELSE "log",
                          !.code = IF valid THEN "ok" ELSE "schema_validation_failed"]
  /\ UNCHANGED <<llmCfg, sent, usage>>

(* The model whose price run_llm uses is the planned one, extract_note's the   *)
(* one that answered.                                                          *)
PricedBy == IF call.entry = "task" THEN call.plan ELSE call.route.profile

\* (mutant) the row names the plan
UsageRowOfPlan == [status |-> StatusOf(call.code), profile |-> call.plan,
                   tokens |-> call.tokens, external |-> call.route.external, priced |-> PricedBy]

UsageRow == [status |-> StatusOf(call.code), profile |-> call.route.profile,
             tokens |-> call.tokens, external |-> call.route.external, priced |-> PricedBy]

(* run_llm logs blocks too; extract_note logs what it dispatched.              *)
CallLog ==
  /\ call.pc = "log"
  /\ call' = [call EXCEPT !.pc = "done"]
  /\ usage' = IF call.entry = "task" \/ (call.entry = "note" /\ call.plan # NoProfile)
              THEN Append(usage, UsageRow) ELSE usage
  /\ UNCHANGED <<llmCfg, sent>>

KeyRemoved(p) ==
  /\ p \in llmCfg.usable
  /\ llmCfg.kind[p] = "external"
  /\ llmCfg' = [llmCfg EXCEPT !.usable = @ \ {p}]
  /\ UNCHANGED <<call, sent, usage>>

CallStep ==
  \/ CallBuild
  \/ CallSend
  \/ \E code \in BackendErrors : CallError(code)
  \/ CallCrash
  \/ \E valid \in BOOLEAN : CallAnswer(valid)
  \/ CallLog

CallsNext ==
  \/ \E e \in LlmEntries, a \in AnyClass, confirm \in BOOLEAN : CallBegin(e, a, confirm)
  \/ CallStep
  \/ \E p \in LlmProfiles : KeyRemoved(p)

CallsFairness == WF_callsVars(CallStep)

CallsSpec == CallsInit /\ [][CallsNext]_callsVars /\ CallsFairness

-----------------------------------------------------------------------------
(* Source text goes to a hosted profile only under the content policy as the   *)
(* caller confirmed it, whatever hop, retry or repair sends it (the gates of   *)
(* resolve_route and of both hops).                                            *)
TextStaysPermitted ==
  \A s \in sent : s.text => ~Refused(Effective, call.class)

(* A usage row with tokens is of the profile that returned every completion,   *)
(* says whether that profile received text, and an error keeps the tokens of   *)
(* a first answer whose repair failed (dispatch, log_llm_usage).               *)
RowsAreOfTheAnswerer ==
  \A i \in DOMAIN usage :
    LET row == usage[i] IN
    /\ row.tokens = call.tokens
    /\ row.tokens > 0 =>
         [profile |-> row.profile, text |-> row.external] \in sent
    /\ row.status = "success" <=> call.code = "ok"

(* A finished call that reached a back end leaves one usage row, or none when  *)
(* the paper adds its chunks up; a block leaves a row only in run_llm.         *)
OneRowPerCall ==
  call.pc = "done" =>
    Len(usage) = IF call.entry = "task" \/ (call.entry = "note" /\ call.plan # NoProfile)
                 THEN 1 ELSE 0

(* However errors, the hop and the repair combine, the back ends are called at *)
(* most once per transport attempt of the plan, the hop and the repair.        *)
CallsAreBounded == call.tries <= 3 * RetryMax

(* What a call leaves in the usage log is true of it: who answered, whether    *)
(* text went out, one row and no more, whatever errors, hop and repair were.   *)
RowsTellTheCall == RowsAreOfTheAnswerer /\ OneRowPerCall /\ CallsAreBounded

(* A call that began ends, retries, hop and repair included.                   *)
CallEnds == []<>(call.pc \in {"idle", "done"})
=============================================================================
