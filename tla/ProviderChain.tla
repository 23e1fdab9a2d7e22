--------------------------- MODULE ProviderChain ---------------------------
(***************************************************************************)
(* The chain of metadata providers (providers/base.py) over the shared     *)
(* provider_cache of cache.db (cache/provider_cache.py).                   *)
(*                                                                         *)
(* Each process has a chain of its own, with one circuit breaker per       *)
(* provider; the cached rows are common to all processes.  A lookup walks  *)
(* the providers in order: a provider without the verb or with an open     *)
(* breaker is passed over, a fresh row answers for it, and otherwise it is *)
(* called; other processes act while the answer is awaited.  A provider    *)
(* is up, down (the call raises or hangs to its timeout), or hollow (it    *)
(* answers, with nothing, though it knows the work).                       *)
(***************************************************************************)
EXTENDS Integers, Sequences

CONSTANTS Chains,      \* the processes, each with its own breakers
          Order,       \* the providers in the order of the chain
          Verbs,       \* [provider -> the verbs it implements]
          Keys,        \* the request keys: one work, asked for by each verb
          Known,       \* the [provider -> keys] the outside world may have
          FailMax,     \* failures that open a breaker
          CoolDown,    \* ticks after which an open breaker lets a probe through
          Lifetime,    \* ticks a cached row stays fresh
          MaxTime,     \* bound: ticks
          MaxLookups,  \* bound: lookups, of all chains
          MaxFaults    \* bound: changes of a provider's health

ASSUME ChainAssumption ==
    /\ FailMax \in Nat \ {0} /\ CoolDown \in Nat \ {0} /\ Lifetime \in Nat \ {0}
\* A provider is in the chain once; its breaker is found by its name.
ASSUME OrderAssumption ==
    /\ Order \in Seq(DOMAIN Verbs)
    /\ \A i, j \in DOMAIN Order : Order[i] = Order[j] => i = j

VARIABLES knows, health, now, faults, rows, breaker, lookup, answered, looked, hushed

chainVars == <<knows, health, now, faults, rows, breaker, lookup, answered, looked, hushed>>

Providers == {Order[i] : i \in 1..Len(Order)}
NoRow == [found |-> FALSE, at |-> -Lifetime]
Idle == [key |-> "none", at |-> 0, failed |-> FALSE,
         began |-> 0, met |-> {}, got |-> {}]
Nothing == [key |-> "none", kind |-> "none", got |-> {}, met |-> {}, began |-> 0]

-----------------------------------------------------------------------------
(* CircuitBreaker. *)
Closed == [fails |-> 0, opened |-> -CoolDown]
Failed(b) == [fails |-> b.fails + 1,
              opened |-> IF b.fails + 1 >= FailMax THEN now ELSE b.opened]
RecordFailure(b) == Failed(b)
IsOpen(b) == now - b.opened < CoolDown

(* cache_get: a row that is fresh, found or not. *)
Fresh(p, k) == rows[p][k].at >= 0 /\ now - rows[p][k].at < Lifetime

\* The batched verb never caches an empty answer; a gather asks everyone.
\* (mutant) every empty answer is cached
AnyEmpty(k) == TRUE
CachesEmpty(k) == k # "by_openalex_ids"
Gathers(k) == k = "oa_pdf_candidates"

-----------------------------------------------------------------------------
ChainInit ==
    /\ knows \in Known
    /\ health = [p \in Providers |-> "up"]
    /\ now = 0 /\ faults = 0 /\ looked = 0
    /\ rows = [p \in Providers |-> [k \in Keys |-> NoRow]]
    /\ breaker = [c \in Chains |-> [p \in Providers |-> Closed]]
    /\ lookup = [c \in Chains |-> Idle]
    /\ answered = [c \in Chains |-> Nothing]
    /\ hushed = [p \in Providers |-> [k \in Keys |-> -Lifetime]]

\* What ends a lookup: everything but a gather stops at the first find.
Finish(c, l, kind, got) ==
    /\ answered' = [answered EXCEPT ![c] = [key |-> l.key, kind |-> kind,
                        got |-> got, met |-> l.met, began |-> l.began]]
    /\ lookup' = [lookup EXCEPT ![c] = Idle]

\* The providers without the verb, with an open breaker or with a fresh row
\* that does not end the lookup: these are passed without waiting.
Shut(c, k, i) == k \in Verbs[Order[i]] /\ IsOpen(breaker[c][Order[i]])
Rowed(c, k, i) == k \in Verbs[Order[i]] /\ ~Shut(c, k, i) /\ Fresh(Order[i], k)
Hit(c, k, i) == Rowed(c, k, i) /\ rows[Order[i]][k].found
Passed(c, k, i) ==
    \/ k \notin Verbs[Order[i]]
    \/ Shut(c, k, i)
    \/ Rowed(c, k, i) /\ (Hit(c, k, i) => Gathers(k))

(* The loop of _dispatch from provider i on, up to its next wait: it ends  *)
(* at a cached find, calls the next provider, or runs out of them; then    *)
(* the last error is raised when every breaker is open, and otherwise the  *)
(* caller is told there is nothing (or, by a gather, what there is).       *)
Onward(c, l, i) ==
    LET stops == {j \in i..Len(Order) : ~Passed(c, l.key, j)}
        j == IF stops = {} THEN Len(Order) + 1 ELSE CHOOSE x \in stops : \A y \in stops : x <= y
        over == i..(j - 1)
        on == [l EXCEPT !.at = j,
                        !.met = @ \cup {Order[x] : x \in {y \in over : Shut(c, l.key, y)}},
                        !.got = @ \cup {Order[x] : x \in {y \in over : Hit(c, l.key, y)}}]
        raises == l.failed /\ ~Gathers(l.key) /\ \A p \in Providers : IsOpen(breaker'[c][p])
    IN  \/ j > Len(Order) /\ Finish(c, on, IF raises THEN "raised" ELSE "returned", on.got)
        \/ j <= Len(Order) /\ Hit(c, l.key, j) /\ Finish(c, on, "found", {Order[j]})
        \/ /\ j <= Len(Order) /\ ~Hit(c, l.key, j)
           /\ lookup' = [lookup EXCEPT ![c] = on]
           /\ answered' = [answered EXCEPT ![c] = Nothing]

\* by_doi, by_title, by_openalex_ids, referenced_works, oa_pdf_candidates.
Look(c, k) ==
    /\ lookup[c] = Idle /\ looked < MaxLookups /\ looked' = looked + 1
    /\ breaker' = breaker
    /\ Onward(c, [Idle EXCEPT !.key = k, !.began = now], 1)
    /\ UNCHANGED <<knows, health, now, faults, rows, hushed>>

Calling(c) == lookup[c] # Idle
Called(c) == Order[lookup[c].at]

\* An exception or the timeout: one failure of the breaker, on to the next.
CallFails(c) ==
    /\ Calling(c) /\ health[Called(c)] = "down"
    /\ breaker' = [breaker EXCEPT ![c][Called(c)] = RecordFailure(@)]
    /\ Onward(c, [lookup[c] EXCEPT !.failed = TRUE, !.met = @ \cup {Called(c)}],
              lookup[c].at + 1)
    /\ UNCHANGED <<knows, health, now, faults, rows, looked, hushed>>

\* The answer is cached, and a find ends all but a gather.
CallAnswers(c) ==
    /\ Calling(c) /\ health[Called(c)] # "down"
    /\ LET p == Called(c)
           l == lookup[c]
           hit == health[p] = "up" /\ l.key \in knows[p]
       IN  /\ breaker' = [breaker EXCEPT ![c][p] = Closed]
           /\ hushed' = IF health[p] = "up" THEN hushed
                        ELSE [hushed EXCEPT ![p][l.key] = now]
           /\ rows' = IF hit \/ CachesEmpty(l.key)
                      THEN [rows EXCEPT ![p][l.key] = [found |-> hit, at |-> now]] ELSE rows
           /\ IF hit /\ ~Gathers(l.key) THEN Finish(c, l, "found", {p})
              ELSE Onward(c, [l EXCEPT !.met = IF health[p] = "up" THEN @ ELSE @ \cup {p},
                                       !.got = IF hit THEN @ \cup {p} ELSE @], l.at + 1)
    /\ UNCHANGED <<knows, health, now, faults, looked>>

-----------------------------------------------------------------------------
(* The outside world. *)
Tick == /\ now < MaxTime /\ now' = now + 1
        /\ UNCHANGED <<knows, health, faults, rows, breaker, lookup, answered, looked, hushed>>

HealthChanges(p) ==
    /\ faults < MaxFaults /\ faults' = faults + 1
    /\ \E h \in {"up", "down", "hollow"} \ {health[p]} : health' = [health EXCEPT ![p] = h]
    /\ UNCHANGED <<knows, now, rows, breaker, lookup, answered, looked, hushed>>

ChainNext ==
    \/ \E c \in Chains : \/ \E k \in Keys : Look(c, k)
                         \/ CallFails(c) \/ CallAnswers(c)
    \/ Tick
    \/ \E p \in Providers : HealthChanges(p)

ChainSpec == ChainInit /\ [][ChainNext]_chainVars

-----------------------------------------------------------------------------
Knowers(k) == {p \in Providers : k \in knows[p] /\ k \in Verbs[p]}

(* A batched lookup that finds nothing met the trouble itself: whatever    *)
(* happened to earlier lookups of the batch, in this or another process,   *)
(* no provider that knows the works is kept from answering (base.py:       *)
(* 220-224, decision D-8).                                                 *)
BatchMissIsItsOwn ==
    \A c \in Chains : LET a == answered[c] IN
        a.key = "by_openalex_ids" /\ a.kind = "returned" => Knowers(a.key) \subseteq a.met

(* For the other verbs an empty answer may keep a provider from being      *)
(* asked, but only for the lifetime of a row: a lookup that misses what a  *)
(* provider knows met trouble there itself, or the provider's empty answer *)
(* was given less than a lifetime before the lookup began (base.py:        *)
(* 205-218, provider_cache.py:183-213).                                    *)
MissIsRecent ==
    \A c \in Chains : LET a == answered[c] IN a.kind = "returned" =>
        \A p \in Knowers(a.key) \ (a.got \cup a.met) : a.began - hushed[p][a.key] < Lifetime

(* However long an outage lasts, a chain bothers a failing provider with   *)
(* the failures that open the breaker and then once in a cool-down: a      *)
(* failed probe opens it again (base.py:79-95).                            *)
FailuresAreSpaced ==
    \A c \in Chains, p \in Providers :
        breaker[c][p].fails <= FailMax + now \div CoolDown

(* Trouble stays where it was met: a lookup that misses what a provider     *)
(* knows has a reason of its own or a recent one, and an outage is probed   *)
(* seldom.                                                                  *)
MissesHaveReasons == BatchMissIsItsOwn /\ MissIsRecent /\ FailuresAreSpaced

=============================================================================
