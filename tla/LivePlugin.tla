------------------------------- MODULE LivePlugin -------------------------------
(***************************************************************************)
(* The live plugin (plugin.py): CachePlugin and the LiteLLM handler around   *)
(* it, on top of the monitor. A call is decided upon before it is sent, from *)
(* what the monitor learned of earlier calls, its shape is observed as it    *)
(* goes out, and its decision waits for the response under the call's id.    *)
(*                                                                          *)
(* What tiers.allocate plans is any plan it may return: Tiers.tla has what   *)
(* it does return. Sizes are in tokens, as estimated. A request's segs carry *)
(* the caller's own markers; barred are the positions outside messages and   *)
(* those of tool history.                                                    *)
(***************************************************************************)
EXTENDS Monitor

CONSTANTS
  Warmup,         \* warmup: requests seen before a marker is placed
  FloorPercent,   \* 1 + minimum_margin, in percent
  PendingCap,     \* decisions that wait for a response
  MaxAlerts,      \* MAX_ALERTS
  Explicit,       \* surfaces that take explicit breakpoints
  Unattributed    \* the surface of a request that names none

ASSUME PluginAssumption ==
  /\ Warmup \in 1 .. Window   \* refused by __init__ otherwise
  /\ FloorPercent >= 100 /\ {PendingCap, MaxAlerts} \subseteq Nat \ {0}
  /\ Unattributed \notin Explicit

VARIABLES
  config,   \* mutate, respect_existing and target_id, fixed at start-up
  alerts,   \* CachePlugin.alerts: a deque
  effect,   \* CachePlugin._effect: scopes least recently used first, and counts
  pending,  \* the handler's _pending: decisions by call, oldest first
  calls     \* every call so far, what went on the wire and what became of it

pluginVars == <<config, alerts, effect, pending, calls>>

-----------------------------------------------------------------------------
(* Deciding. *)

AnyMarked(segs) == \E i \in DOMAIN segs : segs[i].ttl # Unmarked

\* segments.strip_markers and apply_markers: override replaces what was there.
Patched(segs, plan) ==
  [i \in DOMAIN segs |->
     [segs[i] EXCEPT !.ttl = IF i \in DOMAIN plan THEN plan[i] ELSE Unmarked]]

\* Mutation: what is new at a position inherits the rate of what was there.
RatesInherited(r) ==
  LET learned == ChangeRates(ReuseChainOf(r))
  IN [i \in DOMAIN r.segs |-> IF i \in DOMAIN learned THEN learned[i] ELSE 100]

\* Content the scope has no evidence of is taken to change on every request.
Rates(r) ==
  LET learned == ChangeRates(ReuseChainOf(r))
      ids     == Ids(r, Len(r.segs))
  IN [i \in DOMAIN r.segs |->
        IF i \in Unfamiliar(ReuseChainOf(r), ids, Warmup) THEN 100 ELSE learned[i]]

StillLearning(r) ==
  Samples(ReuseChainOf(r)) < Warmup \/ GapsOf(ReuseChainOf(r)) = <<>>

Supported(r) ==
  /\ Unknown \notin {Budget[r.target], Offered[r.target], Minimum[r.target]}
  /\ config.mutate => r.target \in Explicit

\* tiers.allocate: markers within the budget, on prefixes that reach the minimum
\* and may survive to the next request.
Plans(r) ==
  IF ~Supported(r) THEN {<<>>}
  ELSE LET worth == {i \in DOMAIN r.segs :
                       /\ \A j \in 1 .. i : Rates(r)[j] < 100
                       /\ TokensTo(r, i) >= Minimum[r.target]}
       IN UNION {[at -> Offered[r.target]] :
                   at \in {s \in SUBSET worth : Cardinality(s) <= Budget[r.target]}}

\* _filter_near_minimum
Safe(r, plan) ==
  LET kept == {i \in DOMAIN plan \ r.barred :
                 100 * TokensTo(r, i) >= FloorPercent * Minimum[r.target]}
  IN [i \in kept |-> plan[i]]

StandsDown(r) == r.segs = <<>> \/ (config.respect /\ AnyMarked(r.segs)) \/ StillLearning(r)

OverBudget(segs, target) ==
  LET markers == Cardinality({i \in DOMAIN segs : segs[i].ttl # Unmarked})
  IN Budget[target] \notin {Unknown, 0} /\ markers > Budget[target]

\* _decide: what may be placed on the request.
Decisions(r) ==
  IF StandsDown(r) THEN {<<>>}
  ELSE {plan \in {Safe(r, p) : p \in Plans(r)} :
          ~OverBudget(Patched(r.segs, plan), r.target)}

-----------------------------------------------------------------------------
(* One call. *)

\* The handler is not built to mutate without a surface.
PluginInit(configs) ==
  /\ MonitorInit
  /\ config \in configs /\ (config.mutate => config.target # Unattributed)
  /\ alerts = <<>> /\ pending = <<>> /\ calls = <<>>
  /\ effect = [order |-> <<>>, counts |-> <<>>]

\* The segments as they will be sent: the markers on the wire.
AsSent(r, placed) == IF placed = <<>> THEN r.segs ELSE Patched(r.segs, placed)

\* _wire_ttl: the one lifetime the body's markers request.
WireTtl(segs) ==
  LET ttls == {IF segs[i].ttl = Silent THEN "5m" ELSE segs[i].ttl :
                 i \in {j \in DOMAIN segs : segs[j].ttl # Unmarked}}
  IN IF Cardinality(ttls) = 1 THEN CHOOSE l \in ttls : TRUE ELSE Unknown

\* Mutation: the newest decision makes room.
WaitNewest(queue, entry) ==
  LET added == Append(queue, entry)
  IN IF Len(added) <= PendingCap THEN added ELSE SubSeq(added, 1, PendingCap)

\* A decision waits; the one that waited longest makes room.
Wait(queue, entry) == Push(queue, entry, PendingCap)

\* on_request, and what _pre_call does with its decision, for a request that is bound
\* for r.target.
OnRequest(r) ==
  LET call == Len(calls) + 1
  IN \E plan \in Decisions(r) :
       LET placed == IF config.mutate THEN plan ELSE <<>>
           sent   == [r EXCEPT !.segs = AsSent(r, placed)]
           shown  == [sent EXCEPT !.declared = WireTtl(sent.segs)]
       IN /\ ObserveShape(shown)
          /\ alerts' = Newest(alerts \o NewAlerts, MaxAlerts)
          /\ pending' = Wait(pending, [key |-> call, r |-> sent, placed |-> placed])
          /\ calls' = Append(calls,
               [asked |-> r, shown |-> Len(log'),
                wire |-> IF placed = <<>> THEN r.segs ELSE Patched(r.segs, plan),
                placed |-> placed, patched |-> config.mutate /\ plan # <<>>,
                answer |-> "none", later |-> 0, usage |-> Absent])
          /\ UNCHANGED <<config, effect>>

\* target_from_row: a request that names no surface is bound for the handler's.
Bound(r) == IF r.target = Unattributed THEN [r EXCEPT !.target = config.target] ELSE r

\* _pre_call, for a request whose prompt is r.
PreCall(r) == OnRequest(Bound(r))

\* A call whose prompt cannot be segmented: the hook fails open.
FailOpen(r) ==
  /\ calls' = Append(calls, [asked |-> r, shown |-> 0, wire |-> r.segs,
                             placed |-> <<>>, patched |-> FALSE, answer |-> "none", later |-> 0, usage |-> Absent])
  /\ UNCHANGED <<config, alerts, effect, pending, monitorVars>>

NoCounts == [placed |-> 0, read |-> 0, readTokens |-> 0, writeTokens |-> 0]

\* The counters of a scope, which becomes the most recently used one.
Credit(scope, usage) ==
  LET order == Touch(effect.order, scope, MaxScopes)
      was   == IF scope \in DOMAIN effect.counts THEN effect.counts[scope] ELSE NoCounts
      now   == [placed |-> was.placed + 1,
                read |-> was.read + (IF usage.read > 0 THEN 1 ELSE 0),
                readTokens |-> was.readTokens + usage.read,
                writeTokens |-> was.writeTokens + usage.write]
  IN [order |-> order,
      counts |-> [s \in ToSet(order) |-> IF s = scope THEN now ELSE effect.counts[s]]]

\* Mutation: markers that were only proposed are credited too.
CreditsPlanned(decision, usage) == usage # Absent

\* A response tells something of placements that were made and that it accounts for.
Credits(decision, usage) == decision.placed # <<>> /\ usage # Absent

\* Mutation: the request is remembered without its markers.
AnsweredUnmarked(decision, usage) ==
  [decision.r EXCEPT !.usage = usage, !.declared = Unknown, !.segs = Patched(@, <<>>)]

\* The request a response is observed as: it declares no lifetime.
AnsweredAs(decision, usage) == [decision.r EXCEPT !.usage = usage, !.declared = Unknown]

\* async_log_success_event and on_response: the response to a call, with its
\* usage or none.
Response(call, usage) ==
  /\ calls[call].answer = "none"
  /\ calls' = [calls EXCEPT ![call].answer = IF Has(pending, call) THEN "used" ELSE "lost",
                            ![call].later = Len(calls) - call, ![call].usage = usage]
  /\ pending' = IF Has(pending, call) THEN RemoveAt(pending, PlaceOf(pending, call)) ELSE pending
  /\ IF ~Has(pending, call) THEN UNCHANGED <<monitorVars, alerts, effect>>
     ELSE LET decision == Recall(pending, call)
              observed == AnsweredAs(decision, usage)
          IN /\ IF usage = Absent THEN UNCHANGED <<monitorVars, alerts>>
                ELSE /\ ObserveUsage(observed)
                     /\ alerts' = Newest(alerts \o NewAlerts, MaxAlerts)
             /\ effect' = IF Credits(decision, usage)
                          THEN Credit(PoolOf(decision.r), usage) ELSE effect
  /\ UNCHANGED config

\* Calls and responses in any order; a monitor that was handed to the plugin may
\* also be told of requests that others send, and be cleared.
PluginNext(requests, usages) ==
  \/ \E r \in requests : PreCall(r) \/ FailOpen(r)
  \/ \E call \in DOMAIN calls, usage \in usages : Response(call, usage)
  \/ /\ UNCHANGED pluginVars
     /\ \/ \E r \in requests : Observe(r)
        \/ \E scope \in DOMAIN table.state :
             \E alert \in ToSet(table.state[scope].firing) : Clear(scope, alert[1])

PluginSpec(configs, requests, usages) ==
  PluginInit(configs) /\ [][PluginNext(requests, usages)]_<<monitorVars, pluginVars>>

-----------------------------------------------------------------------------
(* Properties. *)

\* The first n observations, as far as they are shapes of one chain.
ShapesOf(entries, chain, n) ==
  {i \in 1 .. n : entries[i].shape /\ ReuseChainOf(entries[i].r) = chain}

\* A marker caches everything up to it. Every position up to a marker that the
\* plugin placed held what it holds now on one of the latest requests of the same
\* chain, and the chain had been seen on as many requests as the warmup asks for
\* (_decide: "Evidence about *this* prompt, not about whatever used to occupy
\* these positions").
MarkersOnSeenContent ==
  \A c \in DOMAIN calls : calls[c].placed # <<>> =>
    LET r       == calls[c].asked
        earlier == ShapesOf(log, ReuseChainOf(r), calls[c].shown - 1)
    IN /\ Cardinality(earlier) >= Warmup
       /\ \A m \in DOMAIN calls[c].placed : \A j \in 1 .. m : \E i \in earlier :
            /\ Cardinality({k \in earlier : k > i}) < Window
            /\ j \in DOMAIN log[i].r.segs /\ log[i].r.segs[j].id = r.segs[j].id

\* A response finds the decision about its own call unless the plugin was called
\* as often as decisions can wait since.
DecisionReachesItsResponse ==
  \A c \in DOMAIN calls :
    calls[c].answer # "none" /\ calls[c].shown > 0 /\ calls[c].later < PendingCap
      => calls[c].answer = "used"

\* effectiveness: the counters of a pool are those of the responses to requests
\* that went out with the plugin's markers, each counted once. (While no pool was
\* forgotten.)
EffectIsMeasured ==
  Cardinality({PoolOf(calls[c].asked) : c \in DOMAIN calls}) <= MaxScopes =>
    \A pool \in {PoolOf(calls[c].asked) : c \in DOMAIN calls} :
      LET mine == {c \in DOMAIN calls : /\ PoolOf(calls[c].asked) = pool
                                        /\ calls[c].patched
                                        /\ calls[c].answer = "used" /\ calls[c].usage # Absent}
          count == IF pool \in DOMAIN effect.counts THEN effect.counts[pool] ELSE NoCounts
      IN /\ count.placed = Cardinality(mine)
         /\ count.read = Cardinality({c \in mine : calls[c].usage.read > 0})
         /\ count.readTokens = SumTo(Len(calls), [c \in DOMAIN calls |->
                                  IF c \in mine THEN calls[c].usage.read ELSE 0])
         /\ count.writeTokens = SumTo(Len(calls), [c \in DOMAIN calls |->
                                  IF c \in mine THEN calls[c].usage.write ELSE 0])

\* The lifetime of a call's entries is on the wire, or in the answer.
Told(call) ==
  call.usage.split # {} \/ \E i \in DOMAIN call.wire : call.wire[i].ttl \notin {Unmarked, Silent}

\* The rebuilds the live monitor counts are those the analyzer counts on the same
\* traffic once it is recorded, with the lifetimes its markers request, when the
\* responses come in order and say, or their requests said, how long entries live
\* (Monitor: "A monitor that disagrees with the report is worse than no monitor").
\* For markers that name no lifetime on_response, which declares none, does not.
LiveCountsRebuilds ==
  LET answered == {c \in DOMAIN calls : calls[c].answer = "used" /\ calls[c].usage # Absent}
      recorded == [c \in answered |->
                     [calls[c].asked EXCEPT !.segs = calls[c].wire, !.usage = calls[c].usage,
                                            !.declared = WireTtl(calls[c].wire)]]
  IN calls # <<>> /\ UsedInOrder /\ (\A c \in answered : Told(calls[c]))
       => RebuildsCounted(recorded)

==================================================================================
