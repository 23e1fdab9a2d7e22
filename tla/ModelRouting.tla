------------------------------ MODULE ModelRouting ------------------------------
(* How a call to a language model finds its profile, and the gates that decide *)
(* whether source text may go there: llm/routing.py, llm/profiles.py and the   *)
(* gates before a dispatch in llm/executor.py and extraction/runner.py.  Pure  *)
(* operators of a configuration c, an access class a and a profile p.          *)
EXTENDS Naturals, Sequences

CONSTANTS NoProfile, LlmProfiles, ProfileOrder

AnyClass == {"open_access", "user_supplied_private"}

(* c.kind[p]      where the profile runs ("unknown": a name no profile has)    *)
(* c.usable       external profiles with an adapter and a key                  *)
(* c.authorised   profiles whose allowed_tasks admit the task                  *)
(* c.classes      allowed_access_classes of the route                          *)
IsLocal(c, p)   == c.kind[p] = "local"
IsNoLlm(c, p)   == c.kind[p] = "none"
Available(c, p) == IsLocal(c, p) \/ p \in c.usable
Authorised(c, p) == p \in c.authorised
Sends(c, p)     == ~IsLocal(c, p) /\ c.needsText

Refused(c, a) ==
  \/ ~c.allowExternal
  \/ a \notin c.classes
  \/ a # "open_access" /\ ~c.privateExternal

OnlyFor(c, a) == c.externalOnly = {} \/ a \in c.externalOnly

NoLlm      == [kind |-> "none", profile |-> NoProfile, external |-> FALSE, fallback |-> NoProfile]
Raised     == [NoLlm EXCEPT !.kind = "raised"]
NoRoute    == [NoLlm EXCEPT !.kind = "refused"]
RouteTo(p, external, fallback) ==
  [kind |-> "route", profile |-> p, external |-> external, fallback |-> fallback]

(* A candidate ends the search when it is a no-LLM profile, an unknown name or *)
(* an authorised profile that can be used now.                                 *)
EndsSearch(c, p) ==
  /\ p # NoProfile
  /\ \/ c.kind[p] \in {"none", "unknown"}
     \/ Authorised(c, p) /\ Available(c, p)

Chosen(c) ==
  IF EndsSearch(c, c.preferred) THEN c.preferred
  ELSE IF EndsSearch(c, c.fallback) THEN c.fallback ELSE NoProfile

ResolveRoute(c, a) ==
  LET p == Chosen(c) IN
  IF ~c.routed \/ p = NoProfile THEN NoLlm
  ELSE IF c.kind[p] = "unknown" THEN Raised
  ELSE IF c.kind[p] = "none" THEN NoLlm
  ELSE IF Sends(c, p) /\ (Refused(c, a) \/ ~OnlyFor(c, a)) THEN Raised
  ELSE RouteTo(p, Sends(c, p), c.fallback)

(* The first authorised local profile: the route's fallback, its preferred     *)
(* profile, then the configuration's profiles in order.                        *)
LocalFallback(c) ==
  LET order == (IF c.routed THEN <<c.fallback, c.preferred>> ELSE << >>) \o ProfileOrder
      fit == {i \in DOMAIN order :
                /\ order[i] # NoProfile
                /\ IsLocal(c, order[i])
                /\ Authorised(c, order[i])}
  IN IF fit = {} THEN NoRoute
     ELSE RouteTo(order[CHOOSE i \in fit : \A j \in fit : i <= j], FALSE, NoProfile)

(* --confirm-external and --profile override a copy of the configuration.      *)
Override(c, confirm, profile) ==
  [c EXCEPT !.privateExternal = @ \/ confirm,
            !.preferred = IF profile # NoProfile /\ c.routed THEN profile ELSE @]

(* The content gate: a refused external route becomes a local one, or nothing. *)
Gate(c, a) ==
  LET r == ResolveRoute(c, a) IN IF r.kind = "raised" THEN LocalFallback(c) ELSE r

(* c.price[p]: the model's price is verified, unverified or not listed at all; *)
(* a model that is not listed passes the price gate.                           *)
PriceRefused(c, p) == c.usdLimit /\ c.price[p] = "unverified" /\ ~c.allowUnverified

Preflight(c, a) ==
  LET r == Gate(c, a) IN
  IF r.kind = "route" /\ PriceRefused(c, r.profile) THEN [NoRoute EXCEPT !.kind = "budget"] ELSE r

(* Steps 4 to 7 of extract_note: a model that is not listed has no known       *)
(* window, and the price gate raises.  extract_note_chunked has no price gate. *)
NoteGates(c, a, chunked) ==
  LET r == Gate(c, a) IN
  IF r.kind # "route" THEN r
  ELSE IF c.price[r.profile] = "unlisted" THEN [NoRoute EXCEPT !.kind = "oversize"]
  ELSE IF ~chunked /\ PriceRefused(c, r.profile) THEN Raised
  ELSE r

(* The one hop of run_llm: another preflight with the fallback preferred; it   *)
(* does not carry --confirm-external, and never returns to the failed profile. *)
TaskHop(c, a, failed, fallback) ==
  LET r == Preflight(Override(c, FALSE, fallback), a) IN
  IF fallback = NoProfile \/ r.kind # "route" \/ r.profile = failed THEN NoRoute ELSE r

\* (mutant) the fallback skips the content gate
NoteHopUngated(c, a, fallback) ==
  IF \/ fallback = NoProfile
     \/ c.kind[fallback] \in {"unknown", "none"}
     \/ ~Available(c, fallback)
  THEN NoRoute ELSE RouteTo(fallback, Sends(c, fallback), NoProfile)

(* The one hop of extract_note: straight to the fallback profile.              *)
NoteHop(c, a, fallback) ==
  IF \/ fallback = NoProfile
     \/ c.kind[fallback] \in {"unknown", "none"}
     \/ Sends(c, fallback) /\ Refused(c, a)
     \/ ~Available(c, fallback)
  THEN NoRoute
  ELSE RouteTo(fallback, Sends(c, fallback), NoProfile)
=============================================================================
