--------------------------- MODULE ModelCalls_proofs ---------------------------
(* What a call to a language model keeps, for every configuration, entry and  *)
(* number of retries: text goes only where policy lets it, and the usage row   *)
(* tells the truth; and what a lens run leaves behind, for any number of       *)
(* works, programs and versions.  The two share no state: one part for each.   *)
EXTENDS ModelCalls, LensRuns, TLAPS, SequenceTheorems, WellFoundedInduction

-----------------------------------------------------------------------------
(* I. Calls. *)

-----------------------------------------------------------------------------
(* The inductive invariant. *)

AnyRoute ==
  [kind : {"route", "none", "raised", "refused", "budget", "oversize"},
   profile : LlmProfiles \cup {NoProfile}, external : BOOLEAN, fallback : LlmProfiles \cup {NoProfile}]

InFlightPcs == {"build", "send", "wait"}

ErrorCodes == {"rate_limited", "timeout", "provider_unavailable", "invalid_response", "auth_error"}
Codes ==
  ErrorCodes \cup {"ok", "policy_blocked", "config_error", "budget_exceeded", "raised", "oversize",
                  "schema_validation_failed"}
Statuses == {"success", "skipped_policy", "skipped_no_llm", "skipped_budget", "extraction_failed"}

AnyCall ==
  [pc : {"idle", "log", "done"} \cup InFlightPcs, entry : LlmEntries \cup {"task"},
   class : AnyClass, confirm : BOOLEAN, plan : LlmProfiles \cup {NoProfile},
   route : AnyRoute, hopped : BOOLEAN, attempt : 0..RetryMax, tries : Nat,
   stage : {"first", "repair"}, tokens : Nat, code : Codes]

AnyRow ==
  [status : Statuses, profile : LlmProfiles \cup {NoProfile}, tokens : Nat,
   external : BOOLEAN, priced : LlmProfiles \cup {NoProfile}]

CallsTypeOK ==
  /\ llmCfg \in AnyConfig
  /\ call \in AnyCall
  /\ sent \in SUBSET [profile : LlmProfiles \cup {NoProfile}, text : BOOLEAN]
  /\ usage \in Seq(AnyRow)

\* A route a gate let through: it says whether text is sent, and then policy allows it.
Cleared(c, a, r) ==
  /\ r \in AnyRoute
  /\ r.kind = "route" =>
       /\ r.profile \in LlmProfiles
       /\ r.external = Sends(c, r.profile)
       /\ r.external => ~Refused(c, a)

\* A call under way has a cleared route, and what it waits for was sent there.
RouteOK ==
  /\ call.pc \in InFlightPcs =>
       /\ call.route.kind = "route"
       /\ Cleared(Effective, call.class, call.route)
  /\ call.pc = "idle" => sent = {}
  /\ call.pc = "wait" \/ call.tokens > 0 =>
       [profile |-> call.route.profile, text |-> call.route.external] \in sent

\* Transport attempts so far, of the plan, the hop and the repair.
AttemptsOK ==
  /\ call.tries <= 3 * RetryMax
  /\ call.pc \in {"build", "send"} => call.attempt < RetryMax
  /\ call.pc \in InFlightPcs =>
       /\ call.tokens > 0 <=> call.stage = "repair"
       /\ call.tries <= call.attempt + (IF call.hopped THEN RetryMax ELSE 0)
                                     + (IF call.stage = "repair" THEN RetryMax ELSE 0)

RowsOK ==
  /\ call.pc # "done" => usage = << >>
  /\ OneRowPerCall
  /\ RowsAreOfTheAnswerer

CallsInv == CallsTypeOK /\ TextStaysPermitted /\ RouteOK /\ AttemptsOK /\ RowsOK

-----------------------------------------------------------------------------
(* The gates. *)

LEMMA HasLeast ==
  ASSUME NEW S \in SUBSET Nat, S # {}
  PROVE  \E i \in S : \A j \in S : i <= j
<1> DEFINE Less == {p \in Nat \X Nat : p[1] < p[2]}
<1>1. IsWellFoundedOn(Less, Nat)
  BY NatLessThanWellFounded DEF OpToRel
<1>2. \E i \in S : \A j \in S : <<j, i>> \notin Less
  <2> HIDE DEF Less
  <2> QED BY <1>1, WFMin, Zenon
<1>3. \A i, j \in Nat : <<j, i>> \notin Less => i <= j
  OBVIOUS
<1> QED BY <1>2, <1>3

\* The fallback of a refused route is local: no text is sent.
LEMMA LocalFallbackCleared ==
  ASSUME NEW c \in AnyConfig, NEW a \in AnyClass
  PROVE  Cleared(c, a, LocalFallback(c))
<1> DEFINE order == (IF c.routed THEN <<c.fallback, c.preferred>> ELSE << >>) \o ProfileOrder
           fit == {i \in DOMAIN order :
                     order[i] # NoProfile /\ IsLocal(c, order[i]) /\ Authorised(c, order[i])}
<1>1. order \in Seq(LlmProfiles \cup {NoProfile})
  <2>1. ProfileOrder \in Seq(LlmProfiles \cup {NoProfile})
    BY ConfigAssumption
  <2>2. /\ c.fallback \in LlmProfiles \cup {NoProfile}
        /\ c.preferred \in LlmProfiles \cup {NoProfile}
    BY DEF AnyConfig
  <2>3. /\ <<c.fallback, c.preferred>> \in Seq(LlmProfiles \cup {NoProfile})
        /\ << >> \in Seq(LlmProfiles \cup {NoProfile})
    BY <2>2
  <2>4. (IF c.routed THEN <<c.fallback, c.preferred>> ELSE << >>) \in Seq(LlmProfiles \cup {NoProfile})
    BY <2>3
  <2> QED BY <2>1, <2>4, ConcatProperties
<1>2. fit \in SUBSET Nat
  <2> HIDE DEF order
  <2> QED BY <1>1
<1>3. CASE fit = {}
  BY <1>3 DEF LocalFallback, Cleared, NoRoute, NoLlm, AnyRoute
<1>4. CASE fit # {}
  <2> DEFINE least == CHOOSE i \in fit : \A j \in fit : i <= j
  <2>1. least \in fit
    <3> HIDE DEF fit
    <3> QED BY <1>2, <1>4, HasLeast
  <2>2. /\ order[least] \in LlmProfiles
        /\ IsLocal(c, order[least])
    <3> HIDE DEF order, least
    <3> QED BY <1>1, <2>1
  <2>3. LocalFallback(c) = RouteTo(order[least], FALSE, NoProfile)
    BY <1>4 DEF LocalFallback
  <2>4. PICK x : x \in LlmProfiles /\ IsLocal(c, x) /\ LocalFallback(c) = RouteTo(x, FALSE, NoProfile)
    <3> HIDE DEF order, least
    <3> QED BY <2>2, <2>3
  <2> HIDE DEF order, fit
  <2>5. RouteTo(x, FALSE, NoProfile) \in AnyRoute
    BY <2>4 DEF RouteTo, AnyRoute
  <2>6. Sends(c, x) = FALSE
    BY <2>4 DEF Sends
  <2>7. Cleared(c, a, RouteTo(x, FALSE, NoProfile))
    BY <2>4, <2>5, <2>6 DEF Cleared, RouteTo
  <2> QED BY <2>4, <2>7
<1> QED BY <1>3, <1>4

LEMMA ResolveCleared ==
  ASSUME NEW c \in AnyConfig, NEW a \in AnyClass
  PROVE  Cleared(c, a, ResolveRoute(c, a))
<1>1. Chosen(c) \in LlmProfiles \cup {NoProfile}
  BY DEF Chosen, AnyConfig
<1> QED
  BY <1>1, ConfigAssumption
  DEF ResolveRoute, Cleared, AnyRoute, AnyConfig, Raised, NoLlm, RouteTo, Sends, IsLocal

LEMMA GateCleared ==
  ASSUME NEW c \in AnyConfig, NEW a \in AnyClass
  PROVE  Cleared(c, a, Gate(c, a))
BY ResolveCleared, LocalFallbackCleared DEF Gate

LEMMA PreflightCleared ==
  ASSUME NEW c \in AnyConfig, NEW a \in AnyClass
  PROVE  Cleared(c, a, Preflight(c, a))
BY GateCleared DEF Preflight, Cleared, NoRoute, NoLlm, AnyRoute

LEMMA NoteGatesCleared ==
  ASSUME NEW c \in AnyConfig, NEW a \in AnyClass, NEW chunked \in BOOLEAN
  PROVE  Cleared(c, a, NoteGates(c, a, chunked))
BY GateCleared DEF NoteGates, Cleared, NoRoute, NoLlm, Raised, AnyRoute

LEMMA OverrideIsConfig ==
  ASSUME NEW c \in AnyConfig, NEW confirm \in BOOLEAN, NEW p \in LlmProfiles \cup {NoProfile}
  PROVE  /\ Override(c, confirm, p) \in AnyConfig
         /\ \A q : Sends(Override(c, confirm, p), q) = Sends(c, q)
         /\ \A a : Refused(Override(c, confirm, p), a) => Refused(c, a)
BY DEF Override, AnyConfig, Sends, IsLocal, Refused

\* Both hops pass the gate again.  That of run_llm forgets a confirmation, which
\* only makes it stricter.
LEMMA HopCleared ==
  ASSUME CallsTypeOK, call.route.kind = "route", NEW code
  PROVE  Cleared(Effective, call.class, Hop(code))
<1>1. /\ llmCfg \in AnyConfig /\ call.class \in AnyClass /\ call.confirm \in BOOLEAN
      /\ call.route.fallback \in LlmProfiles \cup {NoProfile}
      /\ NoProfile \in LlmProfiles \cup {NoProfile}
  BY DEF CallsTypeOK, AnyCall, AnyRoute
<1>2. Effective \in AnyConfig
  BY <1>1, OverrideIsConfig DEF Effective
<1>3. Cleared(Effective, call.class, NoRoute)
  BY DEF Cleared, NoRoute, NoLlm, AnyRoute
<1>4. Cleared(Effective, call.class, TaskHop(llmCfg, call.class, call.plan, call.route.fallback))
  <2> DEFINE c == Override(llmCfg, FALSE, call.route.fallback)
             r == Preflight(c, call.class)
  <2>1. /\ c \in AnyConfig
        /\ \A q : Sends(c, q) = Sends(Effective, q)
        /\ Refused(Effective, call.class) => Refused(c, call.class)
    BY <1>1 DEF Effective, Override, AnyConfig, Sends, IsLocal, Refused
  <2>2. Cleared(c, call.class, r)
    BY <1>1, <2>1, PreflightCleared
  <2>3. Cleared(Effective, call.class, r)
    <3> HIDE DEF c, r
    <3> QED BY <2>1, <2>2 DEF Cleared
  <2> QED BY <1>3, <2>3 DEF TaskHop
<1>5. Cleared(Effective, call.class, NoteHop(Effective, call.class, call.route.fallback))
  BY <1>1, <1>2, <1>3 DEF NoteHop, Cleared, RouteTo, AnyRoute, Sends, IsLocal, AnyConfig
<1> QED BY <1>3, <1>4, <1>5 DEF Hop

-----------------------------------------------------------------------------
(* Every step preserves the invariant. *)

LEMMA InitHolds == CallsInit => CallsInv
<1> SUFFICES ASSUME CallsInit PROVE CallsInv
  OBVIOUS
<1> USE DEF CallsInit, CallsStart, NoCall
<1>1. CallsTypeOK
  <2>1. llmCfg \in AnyConfig
    BY ConfigAssumption
  <2>2. NoRoute \in AnyRoute
    BY DEF NoRoute, NoLlm, AnyRoute
  <2>3. 0 \in 0..RetryMax
    BY RetryAssumption
  <2> QED BY <2>1, <2>2, <2>3 DEF CallsTypeOK, AnyCall, InFlightPcs, AnyClass, Codes
<1>2. TextStaysPermitted /\ RouteOK
  BY DEF TextStaysPermitted, RouteOK, InFlightPcs
<1>3. AttemptsOK
  BY RetryAssumption DEF AttemptsOK, InFlightPcs
<1>4. RowsOK
  BY DEF RowsOK, OneRowPerCall, RowsAreOfTheAnswerer
<1> QED BY <1>1, <1>2, <1>3, <1>4 DEF CallsInv

LEMMA BeginStep ==
  ASSUME CallsInv, NEW entry \in LlmEntries \cup {"task"}, NEW class \in AnyClass, NEW confirm \in BOOLEAN,
         CallBegin(entry, class, confirm)
  PROVE  CallsInv'
<1> DEFINE c == Override(llmCfg, confirm, NoProfile)
           r == IF entry = "task" THEN Preflight(c, class) ELSE NoteGates(c, class, entry = "chunk")
           opened == [NoCall EXCEPT !.entry = entry, !.class = class, !.confirm = confirm]
<1> USE CallsInv DEF CallsInv
<1>1. /\ call.pc = "idle" /\ UNCHANGED <<llmCfg, sent, usage>>
      /\ call' = IF r.kind = "route"
                 THEN [opened EXCEPT !.pc = "build", !.plan = r.profile, !.route = r]
                 ELSE [opened EXCEPT !.pc = "log", !.code = BlockCode(r.kind)]
  BY DEF CallBegin
<1>2. Cleared(c, class, r)
  <2>1. c \in AnyConfig
    BY OverrideIsConfig DEF CallsTypeOK, AnyCall
  <2> QED BY <2>1, PreflightCleared, NoteGatesCleared
<1>3. c = Override(llmCfg, confirm, NoProfile)
  OBVIOUS
<1> HIDE DEF c, r
<1>4. r \in AnyRoute /\ (r.kind = "route" => r.profile \in LlmProfiles)
  BY <1>2 DEF Cleared
<1>5. BlockCode(r.kind) \in Codes
  BY DEF BlockCode, Codes
<1>6. CallsTypeOK'
  <2>1. NoRoute \in AnyRoute
    BY DEF NoRoute, NoLlm, AnyRoute
  <2>2. 0 \in 0..RetryMax /\ "ok" \in Codes
    BY RetryAssumption DEF Codes
  <2>3. CASE r.kind = "route"
    <3>1. call' = [opened EXCEPT !.pc = "build", !.plan = r.profile, !.route = r]
      BY <1>1, <2>3
    <3>2. r \in AnyRoute /\ r.profile \in LlmProfiles
      BY <1>4, <2>3
    <3>3. call' = [pc |-> "build", entry |-> entry, class |-> class, confirm |-> confirm,
                   plan |-> r.profile, route |-> r, hopped |-> FALSE, attempt |-> 0,
                   tries |-> 0, stage |-> "first", tokens |-> 0, code |-> "ok"]
      BY <3>1 DEF NoCall
    <3>4. call' \in AnyCall
      BY <3>2, <3>3, <2>2 DEF AnyCall, InFlightPcs
    <3> QED BY <1>1, <3>4 DEF CallsTypeOK
  <2>4. CASE r.kind # "route"
    BY <1>1, <1>5, <2>1, <2>2, <2>4 DEF CallsTypeOK, AnyCall, NoCall, InFlightPcs
  <2> QED BY <2>3, <2>4
<1>7. (TextStaysPermitted /\ RouteOK)'
  <2>1. sent' = {}
    BY <1>1 DEF RouteOK
  <2>2. CASE r.kind = "route"
    <3>1. /\ call'.pc = "build" /\ call'.class = class /\ call'.confirm = confirm
          /\ call'.route = r /\ call'.tokens = 0
      BY <1>1, <2>2 DEF NoCall
    <3>2. Effective' = c
      BY <3>1, <1>1, <1>3 DEF Effective
    <3>3. TextStaysPermitted'
      BY <2>1 DEF TextStaysPermitted
    <3> QED BY <1>2, <2>1, <2>2, <3>1, <3>2, <3>3 DEF RouteOK
  <2>3. CASE r.kind # "route"
    <3>1. call'.pc = "log" /\ call'.tokens = 0
      BY <1>1, <2>3 DEF NoCall
    <3> QED BY <2>1, <3>1 DEF RouteOK, TextStaysPermitted, InFlightPcs
  <2> QED BY <2>2, <2>3
<1>8. AttemptsOK'
  BY <1>1, RetryAssumption DEF AttemptsOK, NoCall, InFlightPcs
<1>9. RowsOK'
  <2>1. call'.pc # "done" /\ usage' = << >>
    BY <1>1 DEF RowsOK, NoCall
  <2> QED BY <2>1 DEF RowsOK, OneRowPerCall, RowsAreOfTheAnswerer
<1> QED BY <1>6, <1>7, <1>8, <1>9

LEMMA BuildStep == CallsInv /\ CallBuild => CallsInv'
<1> SUFFICES ASSUME CallsInv, CallBuild PROVE CallsInv'
  OBVIOUS
<1> USE DEF CallsInv
<1>1. /\ call.pc = "build" /\ UNCHANGED <<llmCfg, sent, usage>>
      /\ \/ call' = [call EXCEPT !.pc = "send"]
         \/ \E code \in Codes : call' = [call EXCEPT !.pc = "log", !.code = code]
  BY DEF CallBuild, Ends, Codes, ErrorCodes
<1>2. CallsTypeOK'
  BY <1>1 DEF CallsTypeOK, AnyCall, InFlightPcs
<1>3. (TextStaysPermitted /\ RouteOK)'
  <2>1. /\ call'.pc \in {"send", "log"} /\ call'.class = call.class /\ call'.confirm = call.confirm
        /\ call'.route = call.route /\ call'.tokens = call.tokens
    BY <1>1 DEF CallsTypeOK, AnyCall
  <2>2. Effective' = Effective
    BY <1>1, <2>1 DEF Effective
  <2> QED BY <1>1, <2>1, <2>2 DEF RouteOK, TextStaysPermitted, InFlightPcs
<1>4. AttemptsOK'
  BY <1>1 DEF AttemptsOK, CallsTypeOK, AnyCall, InFlightPcs
<1>5. RowsOK'
  <2>1. call'.pc # "done" /\ usage' = << >>
    BY <1>1 DEF RowsOK, CallsTypeOK, AnyCall
  <2> QED BY <2>1 DEF RowsOK, OneRowPerCall, RowsAreOfTheAnswerer
<1> QED BY <1>2, <1>3, <1>4, <1>5

LEMMA SendStep == CallsInv /\ CallSend => CallsInv'
<1> SUFFICES ASSUME CallsInv, CallSend PROVE CallsInv'
  OBVIOUS
<1> USE DEF CallsInv
<1> DEFINE s == [profile |-> call.route.profile, text |-> Sends(llmCfg, call.route.profile)]
<1>1. /\ call.pc = "send" /\ UNCHANGED <<llmCfg, usage>> /\ sent' = sent \cup {s}
      /\ call' = [call EXCEPT !.pc = "wait", !.attempt = @ + 1, !.tries = @ + 1]
  BY DEF CallSend
<1>2. /\ call'.pc = "wait" /\ call'.class = call.class /\ call'.confirm = call.confirm
      /\ call'.route = call.route /\ call'.tokens = call.tokens
  BY <1>1 DEF CallsTypeOK, AnyCall
<1>3. Effective' = Effective
  BY <1>1, <1>2 DEF Effective
<1>4. call.route.kind = "route" /\ Cleared(Effective, call.class, call.route)
  BY <1>1 DEF RouteOK, InFlightPcs
<1>5. Sends(Effective, call.route.profile) = Sends(llmCfg, call.route.profile)
  BY DEF Effective, Sends, Override, IsLocal, CallsTypeOK, AnyCall, AnyConfig
<1>6. s = [profile |-> call.route.profile, text |-> call.route.external]
  BY <1>4, <1>5 DEF Cleared
<1>7. call.route.profile \in LlmProfiles /\ call.route.external \in BOOLEAN
  BY <1>4 DEF Cleared, AnyRoute
<1> HIDE DEF s
<1>8. CallsTypeOK'
  <2>1. call.attempt + 1 \in 0..RetryMax /\ call.tries + 1 \in Nat
    BY <1>1, RetryAssumption DEF CallsTypeOK, AnyCall, AttemptsOK
  <2>2. call' \in AnyCall
    BY <1>1, <2>1 DEF CallsTypeOK, AnyCall, InFlightPcs
  <2>3. s \in [profile : LlmProfiles \cup {NoProfile}, text : BOOLEAN]
    BY <1>6, <1>7
  <2> QED BY <1>1, <2>2, <2>3 DEF CallsTypeOK, AnyCall
<1>9. (TextStaysPermitted /\ RouteOK)'
  <2>1. TextStaysPermitted'
    BY <1>1, <1>2, <1>3, <1>4, <1>6 DEF TextStaysPermitted, Cleared
  <2> QED BY <1>1, <1>2, <1>3, <1>4, <1>6, <2>1 DEF RouteOK, InFlightPcs
<1>10. AttemptsOK'
  BY <1>1, RetryAssumption DEF AttemptsOK, CallsTypeOK, AnyCall, InFlightPcs
<1>11. RowsOK'
  BY <1>1, <1>2 DEF RowsOK, OneRowPerCall, RowsAreOfTheAnswerer
<1> QED BY <1>8, <1>9, <1>10, <1>11

LEMMA ErrorsAreCodes == BackendErrors \subseteq ErrorCodes
BY DEF BackendErrors, ErrorCodes, Complete, PostJson, HttpError, Adapters, Replies

LEMMA ErrorStep ==
  ASSUME CallsInv, NEW code \in BackendErrors, CallError(code)
  PROVE  CallsInv'
<1> USE CallsInv DEF CallsInv
<1> DEFINE h == Hop(code)
<1>1. /\ call.pc = "wait" /\ UNCHANGED <<llmCfg, sent, usage>>
      /\ code \in Codes /\ "schema_validation_failed" \in Codes
  BY ErrorsAreCodes DEF CallError, Codes
<1>2. /\ call.route.kind = "route" /\ Cleared(Effective, call.class, call.route)
      /\ Cleared(Effective, call.class, h)
  BY <1>1, HopCleared DEF RouteOK, InFlightPcs
<1>3. \/ call.attempt < RetryMax /\ call' = [call EXCEPT !.pc = "send"]
      \/ /\ call.stage # "repair" /\ h.kind = "route" /\ ~call.hopped
         /\ call' = [call EXCEPT !.pc = "build", !.route = h, !.hopped = TRUE, !.attempt = 0]
      \/ \E x \in Codes : call' = [call EXCEPT !.pc = "log", !.code = x]
  <2>1. h.kind = "route" => ~call.hopped
    BY DEF Hop, NoRoute, NoLlm
  <2> HIDE DEF h
  <2> QED BY <1>1, <2>1 DEF CallError, Ends, h
<1> HIDE DEF h
<1>4. h \in AnyRoute
  BY <1>2 DEF Cleared
<1>5. 0 \in 0..RetryMax
  BY RetryAssumption
<1>6. CallsTypeOK'
  BY <1>1, <1>3, <1>4, <1>5 DEF CallsTypeOK, AnyCall, InFlightPcs
<1>7. /\ call'.class = call.class /\ call'.confirm = call.confirm /\ call'.tokens = call.tokens
      /\ \/ call'.pc \in {"send", "log"} /\ call'.route = call.route
         \/ call.stage # "repair" /\ call'.pc = "build" /\ call'.route = h /\ h.kind = "route"
  BY <1>3 DEF CallsTypeOK, AnyCall
<1>8. Effective' = Effective
  BY <1>1, <1>7 DEF Effective
<1>9. (TextStaysPermitted /\ RouteOK)'
  <2>1. TextStaysPermitted'
    BY <1>1, <1>7, <1>8 DEF TextStaysPermitted
  <2>2. CASE call'.pc \in {"send", "log"} /\ call'.route = call.route
    BY <1>1, <1>2, <1>7, <1>8, <2>1, <2>2 DEF RouteOK, InFlightPcs
  <2>3. CASE call.stage # "repair" /\ call'.pc = "build" /\ call'.route = h /\ h.kind = "route"
    <3>1. ~(call'.tokens > 0)
      BY <1>1, <1>7, <2>3 DEF AttemptsOK, InFlightPcs
    <3> QED BY <1>1, <1>2, <1>7, <1>8, <2>1, <2>3, <3>1 DEF RouteOK, InFlightPcs
  <2> QED BY <1>7, <2>2, <2>3
<1>10. AttemptsOK'
  <2>1. /\ call.tokens \in Nat /\ call.tries \in Nat /\ call.attempt \in 0..RetryMax
        /\ call.hopped \in BOOLEAN
    BY DEF CallsTypeOK, AnyCall
  <2>2. CASE call.attempt < RetryMax /\ call' = [call EXCEPT !.pc = "send"]
    <3>1. /\ call'.pc = "send" /\ call'.tries = call.tries /\ call'.attempt = call.attempt
          /\ call'.hopped = call.hopped /\ call'.tokens = call.tokens /\ call'.stage = call.stage
      BY <2>2 DEF CallsTypeOK, AnyCall
    <3> QED BY <1>1, <2>1, <2>2, <3>1 DEF AttemptsOK, InFlightPcs
  <2>3. CASE /\ call.stage # "repair" /\ ~call.hopped
             /\ call' = [call EXCEPT !.pc = "build", !.route = h, !.hopped = TRUE, !.attempt = 0]
    <3>1. /\ call'.pc = "build" /\ call'.tries = call.tries /\ call'.attempt = 0
          /\ call'.hopped = TRUE /\ call'.tokens = call.tokens /\ call'.stage = call.stage
      BY <2>3 DEF CallsTypeOK, AnyCall
    <3> QED BY <1>1, <2>1, <2>3, <3>1, RetryAssumption DEF AttemptsOK, InFlightPcs
  <2>4. CASE \E x \in Codes : call' = [call EXCEPT !.pc = "log", !.code = x]
    <3>1. call'.pc = "log" /\ call'.tries = call.tries
      BY <2>4 DEF CallsTypeOK, AnyCall
    <3> QED BY <3>1 DEF AttemptsOK, InFlightPcs
  <2> QED BY <1>3, <2>2, <2>3, <2>4
<1>11. RowsOK'
  <2>1. call'.pc # "done" /\ usage' = << >>
    BY <1>1, <1>7 DEF RowsOK
  <2> QED BY <2>1 DEF RowsOK, OneRowPerCall, RowsAreOfTheAnswerer
<1> QED BY <1>6, <1>9, <1>10, <1>11

LEMMA CrashStep == CallsInv /\ CallCrash => CallsInv'
<1> SUFFICES ASSUME CallsInv, CallCrash PROVE CallsInv'
  OBVIOUS
<1> USE DEF CallsInv
<1>1. /\ call.pc = "wait" /\ UNCHANGED <<llmCfg, sent, usage>>
      /\ \E x \in Codes : call' = [call EXCEPT !.pc = "log", !.code = x]
  BY DEF CallCrash, Ends, Codes, ErrorCodes
<1>2. CallsTypeOK'
  BY <1>1 DEF CallsTypeOK, AnyCall
<1>3. /\ call'.pc = "log" /\ call'.class = call.class /\ call'.confirm = call.confirm
      /\ call'.route = call.route /\ call'.tokens = call.tokens /\ call'.tries = call.tries
  BY <1>1 DEF CallsTypeOK, AnyCall
<1>4. Effective' = Effective
  BY <1>1, <1>3 DEF Effective
<1>5. (TextStaysPermitted /\ RouteOK)'
  BY <1>1, <1>3, <1>4 DEF RouteOK, TextStaysPermitted, InFlightPcs
<1>6. AttemptsOK'
  BY <1>3 DEF AttemptsOK, InFlightPcs
<1>7. RowsOK'
  BY <1>1, <1>3 DEF RowsOK, OneRowPerCall, RowsAreOfTheAnswerer
<1> QED BY <1>2, <1>5, <1>6, <1>7

LEMMA AnswerStep ==
  ASSUME CallsInv, NEW valid \in BOOLEAN, CallAnswer(valid)
  PROVE  CallsInv'
<1> USE CallsInv DEF CallsInv
<1> DEFINE again == ~valid /\ call.stage = "first"
<1>1. /\ call.pc = "wait" /\ UNCHANGED <<llmCfg, sent, usage>>
      /\ call' = [call EXCEPT !.tokens = @ + 1, !.stage = "repair", !.attempt = 0,
                             !.pc = IF again THEN "send" ELSE "log",
                             !.code = IF valid THEN "ok" ELSE "schema_validation_failed"]
  BY DEF CallAnswer
<1>2. /\ call'.class = call.class /\ call'.confirm = call.confirm /\ call'.route = call.route
      /\ call'.tokens = call.tokens + 1 /\ call'.stage = "repair" /\ call'.attempt = 0
      /\ call'.pc = (IF again THEN "send" ELSE "log") /\ call'.tries = call.tries
      /\ call'.hopped = call.hopped
  BY <1>1 DEF CallsTypeOK, AnyCall
<1>3. CallsTypeOK'
  <2>1. 0 \in 0..RetryMax /\ call.tokens + 1 \in Nat
    BY RetryAssumption DEF CallsTypeOK, AnyCall
  <2> HIDE DEF again
  <2>2. (IF again THEN "send" ELSE "log") \in {"send", "log"}
    OBVIOUS
  <2>3. call' \in AnyCall
    BY <1>1, <2>1, <2>2 DEF CallsTypeOK, AnyCall, InFlightPcs, Codes
  <2> QED BY <1>1, <2>3 DEF CallsTypeOK
<1>4. Effective' = Effective
  BY <1>1, <1>2 DEF Effective
<1>5. (TextStaysPermitted /\ RouteOK)'
  BY <1>1, <1>2, <1>4 DEF RouteOK, TextStaysPermitted, InFlightPcs
<1>6. AttemptsOK'
  <2>1. /\ call.tokens \in Nat /\ call.tries \in Nat /\ call.attempt \in 0..RetryMax
        /\ call.hopped \in BOOLEAN
    BY DEF CallsTypeOK, AnyCall
  <2> QED BY <1>1, <1>2, <2>1, RetryAssumption DEF AttemptsOK, InFlightPcs
<1>7. RowsOK'
  <2>1. call'.pc # "done" /\ usage' = << >>
    BY <1>1, <1>2 DEF RowsOK
  <2> QED BY <2>1 DEF RowsOK, OneRowPerCall, RowsAreOfTheAnswerer
<1> QED BY <1>3, <1>5, <1>6, <1>7

LEMMA LogStep == CallsInv /\ CallLog => CallsInv'
<1> SUFFICES ASSUME CallsInv, CallLog PROVE CallsInv'
  OBVIOUS
<1> USE DEF CallsInv
<1> DEFINE leaves == call.entry = "task" \/ (call.entry = "note" /\ call.plan # NoProfile)
<1>1. /\ call.pc = "log" /\ UNCHANGED <<llmCfg, sent>>
      /\ call' = [call EXCEPT !.pc = "done"]
      /\ usage' = IF leaves THEN <<UsageRow>> ELSE << >>
  BY DEF CallLog, RowsOK
<1>2. /\ call'.pc = "done" /\ call'.class = call.class /\ call'.confirm = call.confirm
      /\ call'.route = call.route /\ call'.tokens = call.tokens /\ call'.tries = call.tries
      /\ call'.entry = call.entry /\ call'.plan = call.plan /\ call'.code = call.code
  BY <1>1 DEF CallsTypeOK, AnyCall
<1>3. CallsTypeOK'
  <2>1. call' \in AnyCall
    BY <1>1 DEF CallsTypeOK, AnyCall
  <2>2. UsageRow \in AnyRow
    BY DEF UsageRow, AnyRow, StatusOf, Statuses, PricedBy, CallsTypeOK, AnyCall, AnyRoute
  <2> HIDE DEF leaves
  <2>3. <<UsageRow>> \in Seq(AnyRow)
    BY <2>2
  <2>4. usage' \in Seq(AnyRow)
    BY <1>1, <2>3
  <2> QED BY <1>1, <2>1, <2>4 DEF CallsTypeOK
<1>4. Effective' = Effective
  BY <1>1, <1>2 DEF Effective
<1>5. (TextStaysPermitted /\ RouteOK)'
  BY <1>1, <1>2, <1>4 DEF RouteOK, TextStaysPermitted, InFlightPcs
<1>6. AttemptsOK'
  BY <1>2 DEF AttemptsOK, InFlightPcs
<1>7. RowsOK'
  <2>1. /\ UsageRow.tokens = call'.tokens /\ (UsageRow.status = "success" <=> call'.code = "ok")
        /\ UsageRow.tokens > 0 => [profile |-> UsageRow.profile, text |-> UsageRow.external] \in sent'
    BY <1>1, <1>2 DEF UsageRow, StatusOf, RouteOK
  <2>2. RowsAreOfTheAnswerer'
    BY <1>1, <2>1 DEF RowsAreOfTheAnswerer
  <2>3. OneRowPerCall'
    BY <1>1, <1>2 DEF OneRowPerCall
  <2> QED BY <1>2, <2>2, <2>3 DEF RowsOK
<1> QED BY <1>3, <1>5, <1>6, <1>7

\* A key that disappears leaves what has been cleared cleared.
LEMMA KeyStep ==
  ASSUME CallsInv, NEW p \in LlmProfiles, KeyRemoved(p)
  PROVE  CallsInv'
<1> USE CallsInv DEF CallsInv
<1>1. UNCHANGED <<call, sent, usage>> /\ llmCfg' = [llmCfg EXCEPT !.usable = @ \ {p}]
  BY DEF KeyRemoved
<1>2. CallsTypeOK'
  BY <1>1 DEF CallsTypeOK, AnyConfig
<1>3. /\ \A q : Sends(Effective', q) = Sends(Effective, q)
      /\ \A a : Refused(Effective', a) <=> Refused(Effective, a)
  BY <1>1 DEF Effective, Override, Sends, IsLocal, Refused, CallsTypeOK, AnyConfig, AnyCall
<1>4. (TextStaysPermitted /\ RouteOK)'
  BY <1>1, <1>3 DEF RouteOK, TextStaysPermitted, Cleared
<1>5. AttemptsOK' /\ RowsOK'
  BY <1>1 DEF AttemptsOK, RowsOK, OneRowPerCall, RowsAreOfTheAnswerer
<1> QED BY <1>2, <1>4, <1>5

LEMMA StepHolds == CallsInv /\ [CallsNext]_callsVars => CallsInv'
<1> SUFFICES ASSUME CallsInv, [CallsNext]_callsVars PROVE CallsInv'
  OBVIOUS
<1>1. CASE \E e \in LlmEntries, a \in AnyClass, confirm \in BOOLEAN : CallBegin(e, a, confirm)
  BY <1>1, BeginStep
<1>2. CASE CallStep
  BY <1>2, BuildStep, SendStep, ErrorStep, CrashStep, AnswerStep, LogStep DEF CallStep
<1>3. CASE \E p \in LlmProfiles : KeyRemoved(p)
  BY <1>3, KeyStep
<1>4. CASE UNCHANGED callsVars
  BY <1>4 DEF callsVars, CallsInv, CallsTypeOK, TextStaysPermitted, RouteOK, AttemptsOK, RowsOK,
              OneRowPerCall, RowsAreOfTheAnswerer, Effective
<1> QED BY <1>1, <1>2, <1>3, <1>4 DEF CallsNext

-----------------------------------------------------------------------------
(* Theorems *)

\* The invariant holds in every reachable state, for every configuration and any
\* number of profiles and transport retries.
THEOREM CallsInductive == CallsSpec => []CallsInv
BY InitHolds, StepHolds, PTL DEF CallsSpec

\* Source text goes to a hosted profile only where policy, as confirmed, allows it
\* for the paper's access class, whichever hop, retry or repair sends it.
THEOREM TextPermitted == CallsSpec => []TextStaysPermitted
<1>1. CallsInv => TextStaysPermitted
  BY DEF CallsInv
<1> QED BY <1>1, CallsInductive, PTL

\* What a call leaves in the usage log is true of it, and it never makes more
\* attempts than three calls' worth.
THEOREM RowsTruthful == CallsSpec => []RowsTellTheCall
<1>1. CallsInv => RowsTellTheCall
  BY DEF CallsInv, RowsOK, AttemptsOK, RowsTellTheCall, CallsAreBounded
<1> QED BY <1>1, CallsInductive, PTL

-----------------------------------------------------------------------------
(* II. Lens runs.  A promotion covers the works its run looked at, though the *)
(* file, the row and the texts change meanwhile and other programs write runs. *)

-----------------------------------------------------------------------------
(* The inductive invariant. *)

Version == Nat \cup {Unset}
LensStatus == {"none", "draft", "calibrating", "active"}
AnyLensRun == [work : LensWorks, def : Version, md : Version]
AnyLensProc ==
  [pc : {"idle", "load", "next", "ask", "calibrate", "run"}, kind : {"run", "calibrate"},
   force : BOOLEAN, def : Version, todo : Seq(LensWorks), work : LensWorks \cup {Unset},
   md : Version, looked : [LensWorks -> Version], saw : LensStatus]

LensTypeOK ==
  /\ yaml \in Version
  /\ registry \in [status : LensStatus, hash : Version, snapshot : Version]
  /\ lensText \in [LensWorks -> Version]
  /\ lensRuns \in Seq(AnyLensRun)
  /\ lensProc \in [LensProcs -> AnyLensProc]

\* The history tells of text md of work w under definition def.
Told(w, def, md) == \E i \in DOMAIN lensRuns : lensRuns[i] = [work |-> w, def |-> def, md |-> md]

\* A work the program has passed had no text, waits for its answer, or is in the history
\* with the text the program saw and the definition it loaded.
Passed(me, w) ==
  \/ me.looked[w] = Unset
  \/ me.pc = "ask" /\ me.work = w /\ me.md = me.looked[w]
  \/ Told(w, me.def, me.looked[w])

Ahead(me, w) == \E k \in DOMAIN me.todo : me.todo[k] = w

CoveredAt(p) ==
  LET me == lensProc[p] IN
  /\ me.pc = "ask" => me.work \in LensWorks
  /\ me.pc = "run" => me.kind = "run" /\ me.todo = << >>
  /\ me.pc \in {"next", "ask", "run"} /\ me.kind = "run" =>
       \A w \in LensWorks : Ahead(me, w) \/ Passed(me, w)

Covered == \A p \in LensProcs : CoveredAt(p)

LensInv == LensTypeOK /\ Covered /\ NothingIsDropped

-----------------------------------------------------------------------------
(* The latest run of a work. *)

LEMMA HasGreatest ==
  ASSUME NEW n \in Nat, NEW S \in SUBSET (1 .. n), S # {}
  PROVE  \E i \in S : \A j \in S : j <= i
<1> DEFINE Less == {p \in Nat \X Nat : p[1] < p[2]}
           T == {k \in 0 .. n : n - k \in S}
<1>1. IsWellFoundedOn(Less, Nat)
  BY NatLessThanWellFounded DEF OpToRel
<1>2. PICK j \in S : TRUE
  OBVIOUS
<1>3. n - (n - j) = j /\ n - j \in 0 .. n
  OBVIOUS
<1>4. T \in SUBSET Nat /\ n - j \in T
  BY <1>3
<1>5. \E k \in T : \A l \in T : <<l, k>> \notin Less
  <2> HIDE DEF Less, T
  <2> QED BY <1>1, <1>4, WFMin, Zenon
<1>6. PICK k \in T : \A l \in T : <<l, k>> \notin Less
  BY <1>5
<1>7. ASSUME NEW i \in S PROVE i <= n - k
  <2>1. n - (n - i) = i /\ n - i \in 0 .. n
    OBVIOUS
  <2>2. n - i \in T
    BY <2>1
  <2>3. <<n - i, k>> \notin Less
    BY <1>6, <2>2
  <2>4. ~(n - i < k)
    BY <2>1, <2>3
  <2> QED BY <2>1, <2>4
<1> QED BY <1>6, <1>7

\* A current work is in the history with that definition and text.
LEMMA CurrentIsTold ==
  ASSUME LensTypeOK, NEW w \in LensWorks, NEW def \in Version, NEW md \in Version,
         IsCurrent(w, def, md)
  PROVE  Told(w, def, md)
<1> DEFINE i == Latest(RunsOf(w))
<1>1. RunsOf(w) \in SUBSET (1 .. Len(lensRuns)) /\ RunsOf(w) # {} /\ Len(lensRuns) \in Nat
  BY DEF IsCurrent, RunsOf, LensTypeOK
<1>2. i \in RunsOf(w)
  <2>1. \E k \in RunsOf(w) : \A j \in RunsOf(w) : j <= k
    BY <1>1, HasGreatest
  <2> QED BY <2>1 DEF Latest
<1>3. lensRuns[i].def = def /\ lensRuns[i].md = md /\ lensRuns[i].work = w
  BY <1>2 DEF IsCurrent, RunsOf
<1>4. i \in DOMAIN lensRuns /\ lensRuns[i] \in AnyLensRun
  BY <1>2 DEF RunsOf, LensTypeOK
<1>5. lensRuns[i] = [work |-> w, def |-> def, md |-> md]
  <2> HIDE DEF i
  <2> QED BY <1>3, <1>4 DEF AnyLensRun
<1> HIDE DEF i
<1> QED BY <1>4, <1>5 DEF Told

-----------------------------------------------------------------------------
(* The steps. *)

\* A history that only grew still tells what it told.
LEMMA TellsOn ==
  ASSUME LensTypeOK, NEW r \in AnyLensRun, lensRuns' = Append(lensRuns, r)
  PROVE  /\ lensRuns' \in Seq(AnyLensRun)
         /\ \A w, def, md : Told(w, def, md) => Told(w, def, md)'
         /\ Told(r.work, r.def, r.md)'
<1>1. lensRuns \in Seq(AnyLensRun)
  BY DEF LensTypeOK
<1>2. /\ lensRuns' \in Seq(AnyLensRun)
      /\ Len(lensRuns') = Len(lensRuns) + 1
      /\ \A i \in 1 .. Len(lensRuns) : lensRuns'[i] = lensRuns[i]
      /\ lensRuns'[Len(lensRuns) + 1] = r
  BY <1>1, AppendProperties
<1>3. DOMAIN lensRuns = 1 .. Len(lensRuns) /\ DOMAIN lensRuns' = 1 .. Len(lensRuns) + 1 /\ Len(lensRuns) \in Nat
  BY <1>1, <1>2
<1>4. \A w, def, md : Told(w, def, md) => Told(w, def, md)'
  BY <1>2, <1>3 DEF Told
<1>5. r = [work |-> r.work, def |-> r.def, md |-> r.md] /\ Len(lensRuns) + 1 \in DOMAIN lensRuns'
  BY <1>3 DEF AnyLensRun
<1>6. Told(r.work, r.def, r.md)'
  BY <1>2, <1>5 DEF Told
<1> QED BY <1>2, <1>4, <1>6

\* What the registry row becomes is a row.
LEMMA SyncedIsARow ==
  ASSUME LensTypeOK, NEW file \in Version
  PROVE  Synced(file) \in [status : LensStatus, hash : Version, snapshot : Version]
<1>1. Unregistered \in [status : LensStatus, hash : Version, snapshot : Version]
  BY DEF Unregistered, LensStatus, Version
<1>2. CASE registry.status = "none"
  <2>1. Synced(file) = [status |-> "draft", hash |-> file, snapshot |-> Unset]
    BY <1>2 DEF Synced, Unregistered
  <2> QED BY <2>1 DEF LensStatus, Version
<1>3. CASE registry.status # "none"
  <2>1. Synced(file) = registry \/ Synced(file) = [registry EXCEPT !.hash = file]
    BY <1>3 DEF Synced
  <2> QED BY <2>1 DEF LensTypeOK
<1> QED BY <1>2, <1>3

\* The rows a step forgets drop nothing.
LEMMA ForgottenDropsNothing ==
  ASSUME Forgotten
  PROVE  NothingIsDropped'
BY DEF Forgotten, NothingIsDropped

LEMMA LensInitHolds ==
  ASSUME LensInit
  PROVE  LensInv
<1>1. LensTypeOK
  <2>1. Resting \in AnyLensProc
    BY DEF Resting, AnyLensProc, Version, LensStatus
  <2> QED BY <2>1 DEF LensInit, LensStart, LensTypeOK, Version, LensStatus, Unregistered
<1>2. Covered
  BY DEF LensInit, LensStart, Covered, CoveredAt, Resting
<1>3. NothingIsDropped
  BY DEF LensInit, LensStart, NothingIsDropped
<1> QED BY <1>1, <1>2, <1>3 DEF LensInv

\* Steps of the user: no program and no run changes.
LEMMA UserStep ==
  ASSUME LensInv, NewLens \/ EditFile \/ SaveForm \/ \E w \in LensWorks : ConvertLensWork(w)
  PROVE  LensInv'
<1>1. UNCHANGED <<lensRuns, lensProc>> /\ Forgotten
  BY DEF NewLens, EditFile, SaveForm, ConvertLensWork
<1>2. yaml' \in Version
  BY LensAssumption DEF NewLens, EditFile, SaveForm, ConvertLensWork, LensInv, LensTypeOK, Version
<1>3. registry' \in [status : LensStatus, hash : Version, snapshot : Version]
  <2>1. NewLens => 1 \in Version /\ registry' = Synced(1)
    BY DEF NewLens, Version
  <2>2. SaveForm => yaml + 1 \in Version /\ registry' \in {registry, Synced(yaml + 1)}
    BY <1>2 DEF SaveForm, LensInv, LensTypeOK
  <2>3. EditFile \/ (\E w \in LensWorks : ConvertLensWork(w)) => registry' = registry
    BY DEF EditFile, ConvertLensWork
  <2> QED BY <2>1, <2>2, <2>3, SyncedIsARow DEF LensInv, LensTypeOK
<1>4. lensText' \in [LensWorks -> Version]
  <2>1. ASSUME NEW w \in LensWorks, ConvertLensWork(w) PROVE lensText' \in [LensWorks -> Version]
    BY <2>1 DEF ConvertLensWork, LensInv, LensTypeOK, Version
  <2> QED BY <2>1 DEF NewLens, EditFile, SaveForm, LensInv, LensTypeOK
<1>5. LensTypeOK'
  BY <1>1, <1>2, <1>3, <1>4 DEF LensInv, LensTypeOK
<1>6. Covered'
  BY <1>1 DEF LensInv, Covered, CoveredAt, Ahead, Passed, Told
<1> QED BY <1>1, <1>5, <1>6, ForgottenDropsNothing DEF LensInv

\* A program moves on; the history stays as it is or tells of one run more.
LEMMA ProgramStep ==
  ASSUME LensInv, NEW p \in LensProcs,
         lensProc' = [lensProc EXCEPT ![p] = lensProc'[p]], lensProc'[p] \in AnyLensProc,
         CoveredAt(p)',
         lensRuns' = lensRuns \/ \E r \in AnyLensRun : lensRuns' = Append(lensRuns, r),
         registry' \in [status : LensStatus, hash : Version, snapshot : Version],
         UNCHANGED <<yaml, lensText>>, NothingIsDropped'
  PROVE  LensInv'
<1>1. lensProc \in [LensProcs -> AnyLensProc]
  BY DEF LensInv, LensTypeOK
<1>2. lensProc' \in [LensProcs -> AnyLensProc] /\ \A q \in LensProcs : q # p => lensProc'[q] = lensProc[q]
  BY <1>1
<1>3. lensRuns' \in Seq(AnyLensRun) /\ \A w, def, md : Told(w, def, md) => Told(w, def, md)'
  <2>1. CASE lensRuns' = lensRuns
    BY <2>1 DEF LensInv, LensTypeOK, Told
  <2>2. ASSUME NEW r \in AnyLensRun, lensRuns' = Append(lensRuns, r)
        PROVE  lensRuns' \in Seq(AnyLensRun) /\ \A w, def, md : Told(w, def, md) => Told(w, def, md)'
    BY <2>2, TellsOn DEF LensInv
  <2> QED BY <2>1, <2>2
<1>4. LensTypeOK'
  BY <1>2, <1>3 DEF LensInv, LensTypeOK
<1>5. ASSUME NEW q \in LensProcs, q # p PROVE CoveredAt(q)'
  <2>1. CoveredAt(q) /\ lensProc'[q] = lensProc[q]
    BY <1>2, <1>5 DEF LensInv, Covered
  <2> QED BY <1>3, <2>1 DEF CoveredAt, Ahead, Passed
<1>6. Covered'
  BY <1>5 DEF Covered
<1> QED BY <1>4, <1>6 DEF LensInv

\* A program starts, loads the file, writes the row, or dies: it has not passed a work.
LEMMA OtherSteps ==
  ASSUME LensInv, NEW p \in LensProcs,
         \/ \E kind \in {"run", "calibrate"}, force \in BOOLEAN : LensBegin(p, kind, force)
         \/ LensDone(p) \/ MarkCalibrating(p) \/ PromoteToActive(p) \/ LensDies(p)
  PROVE  LensInv'
<1> DEFINE Row == [status : LensStatus, hash : Version, snapshot : Version]
<1>0. /\ lensProc[p] \in AnyLensProc /\ registry \in Row /\ yaml \in Version /\ CoveredAt(p)
      /\ lensProc \in [LensProcs -> AnyLensProc]
  BY DEF LensInv, LensTypeOK, Covered
<1>1. Resting \in AnyLensProc
  BY DEF Resting, AnyLensProc, Version, LensStatus
<1>2. ASSUME NEW kind \in {"run", "calibrate"}, NEW force \in BOOLEAN, LensBegin(p, kind, force) PROVE LensInv'
  <2>1. /\ lensProc' = [lensProc EXCEPT ![p] = lensProc'[p]]
        /\ lensProc'[p] = [Resting EXCEPT !.pc = "load", !.kind = kind, !.force = force \/ kind = "calibrate"]
        /\ registry' = Synced(yaml) /\ UNCHANGED <<yaml, lensText, lensRuns>> /\ Forgotten
    BY <1>0, <1>2 DEF LensBegin
  <2>2. lensProc'[p] \in AnyLensProc
    BY <1>1, <2>1 DEF AnyLensProc
  <2>3. CoveredAt(p)'
    BY <2>1 DEF CoveredAt, Resting
  <2>4. registry' \in Row
    BY <1>0, <2>1, SyncedIsARow DEF LensInv
  <2> QED BY <2>1, <2>2, <2>3, <2>4, ProgramStep, ForgottenDropsNothing
<1>3. CASE LensDone(p)
  <2>1. /\ lensProc' = [lensProc EXCEPT ![p] = lensProc'[p]]
        /\ lensProc'[p] = [lensProc[p] EXCEPT !.pc = lensProc[p].kind, !.saw = registry.status]
        /\ lensProc[p].pc = "next" /\ lensProc[p].todo = << >>
        /\ UNCHANGED <<yaml, lensText, lensRuns, registry>> /\ Forgotten
    BY <1>0, <1>3 DEF LensDone
  <2>2. lensProc'[p] \in AnyLensProc
    BY <1>0, <2>1 DEF AnyLensProc
  <2>3. CoveredAt(p)'
    BY <1>0, <2>1 DEF CoveredAt, AnyLensProc, Ahead, Passed, Told
  <2> QED BY <1>0, <2>1, <2>2, <2>3, ProgramStep, ForgottenDropsNothing
<1>4. CASE MarkCalibrating(p) \/ PromoteToActive(p) \/ LensDies(p)
  <2>1. /\ lensProc' = [lensProc EXCEPT ![p] = lensProc'[p]]
        /\ lensProc'[p] = Resting
        /\ UNCHANGED <<yaml, lensText, lensRuns>> /\ Forgotten
    BY <1>0, <1>4 DEF MarkCalibrating, PromoteToActive, LensDies
  <2>2. registry' \in Row
    BY <1>0, <1>4 DEF MarkCalibrating, PromoteToActive, LensDies, LensStatus, AnyLensProc
  <2>3. CoveredAt(p)'
    BY <2>1 DEF CoveredAt, Resting
  <2> QED BY <1>1, <2>1, <2>2, <2>3, ProgramStep, ForgottenDropsNothing
<1> QED BY <1>2, <1>3, <1>4

\* The file is loaded: every included work is ahead.
LEMMA LoadStep ==
  ASSUME LensInv, NEW p \in LensProcs, LensLoad(p)
  PROVE  LensInv'
<1>1. /\ lensProc[p] \in AnyLensProc /\ registry \in [status : LensStatus, hash : Version, snapshot : Version]
      /\ yaml \in Version /\ lensProc \in [LensProcs -> AnyLensProc]
  BY DEF LensInv, LensTypeOK
<1>2. /\ lensProc' = [lensProc EXCEPT ![p] = lensProc'[p]]
      /\ lensProc'[p] = [lensProc[p] EXCEPT !.pc = "next", !.def = yaml, !.todo = Targets(lensProc[p].kind)]
      /\ UNCHANGED <<yaml, lensText, lensRuns, registry>> /\ Forgotten
  BY <1>1 DEF LensLoad
<1>3. Targets(lensProc[p].kind) \in Seq(LensWorks)
  <2>1. LensOrder \in Seq(LensWorks) /\ SampleSize \in Nat
    BY LensAssumption
  <2>2. SampleSize < Len(LensOrder) => SubSeq(LensOrder, 1, SampleSize) \in Seq(LensWorks)
    <3> HAVE SampleSize < Len(LensOrder)
    <3>1. \A i \in 1 .. SampleSize : LensOrder[i] \in LensWorks
      BY <2>1
    <3> QED BY <2>1, <3>1, SubSeqProperties
  <2> QED BY <2>1, <2>2 DEF Targets
<1>4. lensProc'[p] \in AnyLensProc
  BY <1>1, <1>2, <1>3 DEF AnyLensProc
<1>5. CoveredAt(p)'
  <2>1. lensProc'[p].pc = "next" /\ lensProc'[p].kind = lensProc[p].kind
        /\ lensProc'[p].todo = Targets(lensProc[p].kind)
    BY <1>1, <1>2 DEF AnyLensProc
  <2>2. lensProc[p].kind = "run" => \A w \in LensWorks : Ahead(lensProc[p], w)'
    BY <2>1, LensAssumption DEF Ahead, Targets
  <2> QED BY <2>1, <2>2 DEF CoveredAt
<1> QED BY <1>1, <1>2, <1>4, <1>5, ProgramStep, ForgottenDropsNothing

\* A work is looked at: skipped, or sent to the model with the text seen.
LEMMA LookStep ==
  ASSUME LensInv, NEW p \in LensProcs, LensLook(p)
  PROVE  LensInv'
<1> DEFINE me == lensProc[p]
           w == Head(me.todo)
           rest == [me EXCEPT !.todo = Tail(@), !.looked[w] = lensText[w]]
<1>1. /\ me \in AnyLensProc /\ registry \in [status : LensStatus, hash : Version, snapshot : Version]
      /\ lensText \in [LensWorks -> Version] /\ lensProc \in [LensProcs -> AnyLensProc] /\ CoveredAt(p)
  BY DEF LensInv, LensTypeOK, Covered
<1>2. /\ me.pc = "next" /\ me.todo # << >>
      /\ lensProc' = [lensProc EXCEPT ![p] = lensProc'[p]]
      /\ \/ /\ lensText[w] = Unset \/ IsCurrent(w, me.def, lensText[w])
            /\ lensProc'[p] = rest
         \/ lensProc'[p] = [rest EXCEPT !.pc = "ask", !.work = w, !.md = lensText[w]]
      /\ UNCHANGED <<yaml, lensText, lensRuns, registry>> /\ Forgotten
  BY <1>1 DEF LensLook
<1>3. /\ w \in LensWorks /\ Tail(me.todo) \in Seq(LensWorks) /\ w = me.todo[1]
      /\ Len(Tail(me.todo)) = Len(me.todo) - 1
      /\ \A k \in 1 .. Len(Tail(me.todo)) : Tail(me.todo)[k] = me.todo[k + 1]
  <2>1. me.todo \in Seq(LensWorks) /\ me.todo # << >>
    BY <1>1, <1>2 DEF AnyLensProc
  <2> QED BY <2>1, HeadTailProperties
<1>4. /\ rest \in AnyLensProc
      /\ rest.looked = [me.looked EXCEPT ![w] = lensText[w]] /\ rest.todo = Tail(me.todo)
      /\ rest.pc = "next" /\ rest.kind = me.kind /\ rest.def = me.def
  <2>1. [me.looked EXCEPT ![w] = lensText[w]] \in [LensWorks -> Version]
    BY <1>1, <1>3 DEF AnyLensProc
  <2>2. rest = [me EXCEPT !.todo = Tail(me.todo), !.looked = [me.looked EXCEPT ![w] = lensText[w]]]
    BY <1>1 DEF AnyLensProc
  <2> QED BY <1>1, <1>2, <1>3, <2>1, <2>2 DEF AnyLensProc
<1> HIDE DEF rest
<1>5. /\ lensProc'[p] \in AnyLensProc
      /\ lensProc'[p].looked = rest.looked /\ lensProc'[p].todo = Tail(me.todo)
      /\ lensProc'[p].kind = me.kind /\ lensProc'[p].def = me.def
      /\ \/ /\ lensText[w] = Unset \/ IsCurrent(w, me.def, lensText[w])
            /\ lensProc'[p].pc = "next"
         \/ lensProc'[p].pc = "ask" /\ lensProc'[p].work = w /\ lensProc'[p].md = lensText[w]
  <2>1. [rest EXCEPT !.pc = "ask", !.work = w, !.md = lensText[w]] \in AnyLensProc
    BY <1>1, <1>3, <1>4 DEF AnyLensProc
  <2>2. LET r == [rest EXCEPT !.pc = "ask", !.work = w, !.md = lensText[w]] IN
        /\ r.looked = rest.looked /\ r.todo = rest.todo /\ r.kind = rest.kind /\ r.def = rest.def
        /\ r.pc = "ask" /\ r.work = w /\ r.md = lensText[w]
    BY <1>4 DEF AnyLensProc
  <2> QED BY <1>2, <1>4, <2>1, <2>2
<1>6. CoveredAt(p)'
  <2>1. ASSUME me.kind = "run", NEW v \in LensWorks PROVE (Ahead(lensProc[p], v) \/ Passed(lensProc[p], v))'
    <3>1. CASE v = w
      <4>1. lensProc'[p].looked[v] = lensText[w]
        BY <1>1, <1>3, <1>4, <1>5, <3>1 DEF AnyLensProc
      <4>2. CASE lensText[w] = Unset
        BY <4>1, <4>2 DEF Passed
      <4>3. CASE IsCurrent(w, me.def, lensText[w])
        <5>0. PICK d, m : d = me.def /\ m = lensText[w]
          OBVIOUS
        <5>1. Told(v, d, m)
          BY <1>1, <1>3, <3>1, <4>3, <5>0, CurrentIsTold DEF LensInv, AnyLensProc
        <5>2. Told(v, d, m)'
          BY <1>2, <5>1 DEF Told
        <5>3. Told(v, lensProc[p].def, lensProc[p].looked[v])'
          BY <1>2, <1>5, <3>1, <4>1, <5>0, <5>2 DEF Told
        <5> QED BY <5>3 DEF Passed
      <4>4. CASE lensProc'[p].pc = "ask" /\ lensProc'[p].work = w /\ lensProc'[p].md = lensText[w]
        BY <3>1, <4>1, <4>4 DEF Passed
      <4> QED BY <1>5, <4>2, <4>3, <4>4
    <3>2. CASE v # w
      <4>1. lensProc'[p].looked[v] = me.looked[v]
        BY <1>1, <1>3, <1>4, <1>5, <3>2 DEF AnyLensProc
      <4>2. Ahead(me, v) \/ Passed(me, v)
        BY <1>1, <1>2, <2>1 DEF CoveredAt
      <4>3. ASSUME Ahead(me, v) PROVE Ahead(lensProc[p], v)'
        <5>1. PICK k \in DOMAIN me.todo : me.todo[k] = v
          BY <4>3 DEF Ahead
        <5>2. me.todo \in Seq(LensWorks)
          BY <1>1 DEF AnyLensProc
        <5>3. k \in 1 .. Len(me.todo) /\ k # 1
          BY <1>3, <3>2, <5>1, <5>2
        <5>4. k - 1 \in 1 .. Len(Tail(me.todo)) /\ (k - 1) + 1 = k
          BY <1>3, <5>2, <5>3
        <5>5. Tail(me.todo)[k - 1] = v
          BY <1>3, <5>1, <5>4
        <5>6. k - 1 \in DOMAIN Tail(me.todo)
          BY <1>3, <5>4
        <5> QED BY <1>5, <5>5, <5>6 DEF Ahead
      <4>4. ASSUME Passed(me, v) PROVE Passed(lensProc[p], v)'
        BY <1>2, <1>5, <4>1, <4>4 DEF Passed, Told
      <4> QED BY <4>2, <4>3, <4>4
    <3> QED BY <3>1, <3>2
  <2> QED BY <1>3, <1>5, <2>1 DEF CoveredAt
<1> QED BY <1>1, <1>2, <1>5, <1>6, ProgramStep, ForgottenDropsNothing

\* What a record becomes, under any evidence policy.
LEMMA RecordIsKept ==
  ASSUME NEW r \in AnyLensRecord, NEW def
  PROVE  LET o == Projected(r, def) IN
         /\ (o.claim # "none") # o.review
         /\ o.status \in {"ambiguous", "extraction_failed"} => o.review
         /\ o.claim # "none" => o.status = "found" /\ r.declared = "found"
         /\ o.claim # "none" /\ def \in SpanDefs => o.claim = "anchored" /\ r.span
<1>1. CASE ValidateRecord(r, def) = "found"
  <2>1. r.declared = "found" /\ (def \in SpanDefs => r.span)
    BY <1>1 DEF ValidateRecord, AnyLensRecord
  <2> QED BY <1>1, <2>1 DEF Projected
<1>2. CASE ValidateRecord(r, def) # "found"
  BY <1>2 DEF Projected
<1> QED BY <1>1, <1>2

\* Whatever the model answered or the search found, nothing of it is dropped.
LEMMA AnswerDropsNothing ==
  ASSUME NEW a \in AnyLensAnswer, NEW def, saved' = LlmRun(a, def)
  PROVE  NothingIsDropped'
<1> DEFINE objects == Objects(a.records)
<1>1. /\ saved'.path = "model" /\ saved'.def = def /\ saved'.asked = a.records
      /\ a.records \in Seq(AnyLensRecord) /\ objects \subseteq DOMAIN a.records
      /\ a.garbled => a.records = << >>
  BY DEF LlmRun, AnyLensAnswer, Objects
<1>2. 0 \notin objects
  BY <1>1
<1>3. CASE objects = {}
  <2>1. \E status \in {"extraction_failed", "not_found"}, review \in BOOLEAN :
          /\ saved'.outputs = Whole(Bare(status, review))
          /\ status = "extraction_failed" => review
    BY <1>3 DEF LlmRun
  <2> QED BY <1>1, <1>3, <2>1 DEF NothingIsDropped, Whole, Bare
<1>4. CASE objects # {}
  <2>1. saved'.outputs = [i \in objects |-> Projected(a.records[i], def)]
    <3>1. ~a.garbled
      BY <1>1, <1>4
    <3> QED BY <1>4, <3>1 DEF LlmRun
  <2>2. ASSUME NEW k \in objects PROVE a.records[k] \in AnyLensRecord
    BY <1>1
  <2> HIDE DEF objects
  <2>3. DOMAIN saved'.outputs = objects /\ \A k \in objects : saved'.outputs[k] = Projected(a.records[k], def)
    BY <2>1
  <2>4. ASSUME NEW k \in objects
        PROVE  LET o == saved'.outputs[k] IN
               /\ (o.claim # "none") # o.review
               /\ o.status \in {"ambiguous", "extraction_failed"} => o.review
               /\ o.claim # "none" => o.status = "found" /\ a.records[k].declared = "found"
               /\ o.claim # "none" /\ def \in SpanDefs => o.claim = "anchored" /\ a.records[k].span
    BY <2>2, <2>3, RecordIsKept
  <2>5. objects = Objects(saved.asked)'
    BY <1>1 DEF objects, Objects
  <2> QED BY <1>1, <1>4, <2>3, <2>4, <2>5 DEF NothingIsDropped
<1> QED BY <1>3, <1>4

LEMMA SearchDropsNothing ==
  ASSUME NEW f \in BOOLEAN, NEW def, saved' = DeterministicRun(f, def)
  PROVE  NothingIsDropped'
<1>1. /\ saved'.asked = << >> /\ saved'.outputs = Whole(Bare(IF f THEN "found" ELSE "not_found", FALSE))
  BY DEF DeterministicRun
<1>2. Objects(saved.asked)' = {}
  BY <1>1 DEF Objects
<1> QED BY <1>1, <1>2 DEF NothingIsDropped, Whole, Bare

\* The run of a work is saved: the history tells of the text the program saw.
LEMMA SaveStep ==
  ASSUME LensInv, NEW p \in LensProcs, LensAnswered(p) \/ LensSearched(p)
  PROVE  LensInv'
<1> DEFINE me == lensProc[p]
           r == [work |-> me.work, def |-> me.def, md |-> me.md]
<1>1. /\ me \in AnyLensProc /\ registry \in [status : LensStatus, hash : Version, snapshot : Version]
      /\ lensProc \in [LensProcs -> AnyLensProc] /\ CoveredAt(p)
  BY DEF LensInv, LensTypeOK, Covered
<1>2. PICK run : LensSave(p, run) /\ (run \in {LlmRun(a, me.def) : a \in LensAnswers} \cup {DeterministicRun(f, me.def) : f \in BOOLEAN})
  BY DEF LensAnswered, LensSearched
<1>3. /\ me.pc = "ask"
      /\ lensProc' = [lensProc EXCEPT ![p] = lensProc'[p]]
      /\ lensProc'[p] = [me EXCEPT !.pc = "next", !.work = Unset, !.md = Unset]
      /\ lensRuns' = Append(lensRuns, r) /\ saved' = run
      /\ UNCHANGED <<yaml, lensText, registry>>
  BY <1>1, <1>2 DEF LensSave, Recorded
<1>4. r \in AnyLensRun
  BY <1>1, <1>3 DEF AnyLensRun, AnyLensProc, CoveredAt
<1>5. lensProc'[p] \in AnyLensProc
  BY <1>1, <1>3 DEF AnyLensProc, Version
<1>6. NothingIsDropped'
  <2>1. ASSUME NEW a \in LensAnswers, run = LlmRun(a, me.def) PROVE NothingIsDropped'
    BY <1>3, <2>1, LensAssumption, AnswerDropsNothing
  <2>2. ASSUME NEW f \in BOOLEAN, run = DeterministicRun(f, me.def) PROVE NothingIsDropped'
    BY <1>3, <2>2, SearchDropsNothing
  <2> QED BY <1>2, <2>1, <2>2
<1>7. CoveredAt(p)'
  <2>1. /\ lensProc'[p].pc = "next" /\ lensProc'[p].kind = me.kind /\ lensProc'[p].def = me.def
        /\ lensProc'[p].looked = me.looked /\ lensProc'[p].todo = me.todo
    BY <1>1, <1>3 DEF AnyLensProc
  <2>2. PICK one \in AnyLensRun : one = r
    BY <1>4
  <2>4. /\ \A w, def, md : Told(w, def, md) => Told(w, def, md)'
        /\ Told(one.work, one.def, one.md)'
    <3> HIDE DEF r
    <3> QED BY <1>3, <2>2, TellsOn DEF LensInv
  <2>3. ASSUME me.kind = "run", NEW v \in LensWorks PROVE (Ahead(lensProc[p], v) \/ Passed(lensProc[p], v))'
    <3>1. Ahead(me, v) \/ Passed(me, v)
      BY <1>1, <1>3, <2>3 DEF CoveredAt
    <3>2. Ahead(me, v) => Ahead(lensProc[p], v)'
      BY <2>1 DEF Ahead
    <3>3. ASSUME Passed(me, v) PROVE Passed(lensProc[p], v)'
      <4>0. PICK d, m : d = me.def /\ m = me.looked[v]
        OBVIOUS
      <4>1. CASE me.looked[v] = Unset
        BY <2>1, <4>1 DEF Passed
      <4>2. ASSUME me.looked[v] # Unset PROVE Told(v, d, m)'
        BY <1>3, <2>2, <2>4, <3>3, <4>0, <4>2 DEF Passed
      <4>3. ASSUME me.looked[v] # Unset PROVE Told(v, lensProc[p].def, lensProc[p].looked[v])'
        BY <2>1, <4>0, <4>2, <4>3 DEF Told
      <4> QED BY <4>1, <4>3 DEF Passed
    <3> QED BY <3>1, <3>2, <3>3
  <2> QED BY <2>1, <2>3 DEF CoveredAt
<1> QED BY <1>1, <1>3, <1>4, <1>5, <1>6, <1>7, ProgramStep

LEMMA LensStepHolds ==
  ASSUME LensInv, [LensNext]_lensVars
  PROVE  LensInv'
<1>1. CASE UNCHANGED lensVars
  BY <1>1 DEF lensVars, LensInv, LensTypeOK, Covered, CoveredAt, Ahead, Passed, Told, NothingIsDropped
<1>2. ASSUME NEW p \in LensProcs, LensStep(p) PROVE LensInv'
  BY <1>2, LoadStep, LookStep, SaveStep, OtherSteps DEF LensStep
<1>3. ASSUME NEW p \in LensProcs, LensDies(p) PROVE LensInv'
  BY <1>3, OtherSteps
<1>4. ASSUME NEW p \in LensProcs, NEW force \in BOOLEAN, LensBegin(p, "run", force) PROVE LensInv'
  BY <1>4, OtherSteps
<1>5. ASSUME NEW p \in LensShells, LensBegin(p, "calibrate", FALSE) PROVE LensInv'
  BY <1>5, OtherSteps, LensAssumption
<1> QED BY <1>1, <1>2, <1>3, <1>4, <1>5, UserStep DEF LensNext

-----------------------------------------------------------------------------
(* The theorems. *)

\* The invariant: types, what the programs have passed, and the rows just written.
THEOREM LensInductive == LensSpec => []LensInv
<1>1. LensInit => LensInv
  BY LensInitHolds
<1>2. LensInv /\ [LensNext]_lensVars => LensInv'
  BY LensStepHolds
<1> QED BY <1>1, <1>2, PTL DEF LensSpec

\* No record of an answer is lost on the way to the rows.
THEOREM LensDropsNothing == LensSpec => []NothingIsDropped
<1>1. LensInv => NothingIsDropped
  BY DEF LensInv
<1> QED BY <1>1, LensInductive, PTL

\* A promotion leaves every included work in the results, unless it had no text or was
\* converted after the run looked at it.
THEOREM LensPromotionCovers == LensSpec => PromotionCovers
<1>1. ASSUME LensInv, [LensNext]_lensVars, NEW p \in LensProcs,
             lensProc[p].pc = "run", lensProc'[p].pc = "idle", registry' # registry, NEW w \in LensWorks,
             lensText[w] # Unset, lensText[w] = lensProc[p].looked[w]
      PROVE  \E i \in RunsOf(w) : lensRuns[i].def = registry'.hash /\ lensRuns[i].md = lensText[w]
  <2>1. /\ lensProc[p] \in AnyLensProc /\ CoveredAt(p) /\ lensProc \in [LensProcs -> AnyLensProc]
    BY <1>1 DEF LensInv, LensTypeOK, Covered
  <2>2. lensProc' # lensProc
    BY <1>1
  <2>3. ~LensDies(p) /\ \A q \in LensProcs : ~LensDies(q)
    BY <1>1 DEF LensDies
  <2>4. ASSUME NEW q \in LensProcs, LensStep(q) PROVE PromoteToActive(q)
    BY <1>1, <2>1, <2>4 DEF LensStep, LensLoad, LensLook, LensAnswered, LensSearched, LensSave, LensDone, MarkCalibrating
  <2>5. ASSUME NEW q \in LensProcs, NEW kind, NEW force, LensBegin(q, kind, force) PROVE FALSE
    BY <1>1, <2>1, <2>5 DEF LensBegin, Resting
  <2>6. PICK q \in LensProcs : PromoteToActive(q)
    BY <1>1, <2>2, <2>3, <2>4, <2>5, LensAssumption
    DEF LensNext, lensVars, NewLens, EditFile, SaveForm, ConvertLensWork
  <2>7. q = p
    BY <1>1, <2>1, <2>6 DEF PromoteToActive
  <2>8. registry'.hash = lensProc[p].def
    BY <1>1, <2>6, <2>7 DEF PromoteToActive
  <2>9. Told(w, lensProc[p].def, lensText[w])
    <3>1. Ahead(lensProc[p], w) \/ Passed(lensProc[p], w)
      BY <1>1, <2>1 DEF CoveredAt
    <3>2. ~Ahead(lensProc[p], w)
      BY <1>1, <2>1 DEF CoveredAt, Ahead
    <3> QED BY <1>1, <3>1, <3>2 DEF Passed
  <2> QED BY <2>8, <2>9 DEF Told, RunsOf
<1>2. LensInv /\ [LensNext]_lensVars =>
        \A p \in LensProcs :
          lensProc[p].pc = "run" /\ lensProc'[p].pc = "idle" /\ registry' # registry
            => \A w \in LensWorks :
                 \/ lensText[w] = Unset
                 \/ lensText[w] # lensProc[p].looked[w]
                 \/ \E i \in RunsOf(w) : lensRuns[i].def = registry'.hash /\ lensRuns[i].md = lensText[w]
  BY <1>1
<1> QED BY <1>2, LensInductive, PTL DEF LensSpec, PromotionCovers

=============================================================================
