------------------------------ MODULE Findings ------------------------------
(* The diagnosis rules of analyzer.py, except TTL-1 (LifetimeFinding), and the *)
(* prices they use (cost.py, registry.py).                                     *)
(*                                                                             *)
(* A request is an index into the sequence rs of requests, for two rows may    *)
(* be equal. A rule gets the indices it may look at and a rate per index (0    *)
(* when nothing prices it), and gives the set of its findings, none or one.    *)
(* Amounts are tokens times rate, in percent of the plain input rate.          *)
EXTENDS Ingest

CONSTANTS
  ListRate(_, _),  \* the dated rate of a model, or Absent
  PricedTargets,   \* the surfaces the list rates apply to
  ShapedTargets,   \* those with a read and two write multipliers
  KnownTargets,    \* those in the registry
  MinCacheable,    \* the shortest prefix a provider caches
  Today,           \* the day the report is made
  MinRequests,     \* PROJECTION_MIN_REQUESTS
  MinGaps,         \* the gaps TTL-2 wants to see
  MinTurns,        \* the turns REB-1 wants to see
  RebuildInterval  \* turns per rebuild from which REB-1 is silent

ASSUME TargetsNest ==
  PricedTargets \subseteq ShapedTargets /\ ShapedTargets \subseteq KnownTargets

Hour == 3600
Day  == 24 * Hour

\* Multipliers of the plain rate, in percent.
ReadPct == 10
WritePct(ttl) == IF ttl = "5m" THEN 125 ELSE 200

MaxOf(S) == CHOOSE x \in S : \A y \in S : y <= x
MinOf(S) == CHOOSE x \in S : \A y \in S : x <= y

\* t(i) summed over the indices of rs that are in S
Total(rs, S, t(_)) == SumTo(Len(rs), [i \in DOMAIN rs |-> IF i \in S THEN t(i) ELSE 0])

-----------------------------------------------------------------------------
(* Usage and prices.                                                           *)

\* _declared_ttl: nothing when the markers differ, or contradict the row.
DeclaredTtl(r) ==
  LET said == MarkerLifetimes(r)
  IN  IF said = {} THEN r.ttl
      ELSE IF \E t \in said : said = {t} /\ r.ttl \in {t, Absent}
           THEN CHOOSE t \in said : TRUE
      ELSE Absent

SplitStated(usage) == usage.m5 # Absent \/ usage.h1 # Absent

\* Counts, none of them of an unknown lifetime, that add up where they can be added.
CountersAgree(usage) ==
  /\ NotACount \notin {usage.input, usage.read, usage.created, usage.m5, usage.h1}
  /\ ~Positive(usage.other)
  /\ SplitStated(usage) /\ usage.created # Absent
       => usage.created = Valid(usage.m5) + Valid(usage.h1)

\* Usage.from_anthropic does not raise.
Provable(r) ==
  /\ CountersAgree(r.usage)
  /\ ~SplitStated(r.usage) /\ Valid(r.usage.created) > 0 => DeclaredTtl(r) \in {"5m", "1h"}

\* Usage: plain input, reads, and writes of each lifetime.
Wrote(r, ttl) ==
  IF SplitStated(r.usage) THEN Valid(IF ttl = "5m" THEN r.usage.m5 ELSE r.usage.h1)
  ELSE IF DeclaredTtl(r) = ttl THEN Valid(r.usage.created) ELSE 0

WroteAny(r) == Wrote(r, "5m") + Wrote(r, "1h")

\* price: what the request cost, and what it had cost without a cache.
Cost(r) == 100 * Valid(r.usage.input) + ReadPct * Valid(r.usage.read)
           + 125 * Wrote(r, "5m") + 200 * Wrote(r, "1h")

Plain(r) == 100 * (Valid(r.usage.input) + Valid(r.usage.read) + WroteAny(r))

\* base_rate, default-deny.
RateOn(r, day) == IF r.target \in PricedTargets THEN ListRate(r.model, day) ELSE Absent

\* _date_for
PriceDay(r, options) ==
  IF options.date # Absent THEN options.date
  ELSE IF r.sent = Absent THEN Absent ELSE r.sent \div Day

SpendRate(r, options) ==
  IF options.rate # Absent THEN options.rate ELSE RateOn(r, PriceDay(r, options))

\* rate_for, as every rule calls it: the day the request was sent comes first.
RateFor(r, options) ==
  LET day  == IF r.sent # Absent THEN r.sent \div Day
              ELSE IF options.date # Absent THEN options.date ELSE Today
      rate == RateOn(r, day)
  IN  IF options.rate # Absent THEN options.rate
      ELSE IF rate = Absent THEN 0 ELSE rate

\* Why an analysable request is in no total, "" if it is in them.
Exclusion(r, options) ==
  IF ~Provable(r) THEN "unprovable_lifetime"
  ELSE IF options.rate = Absent /\ PriceDay(r, options) = Absent THEN "undated"
  ELSE IF options.rate = Absent /\ r.target \notin PricedTargets THEN "unpriceable_surface"
  ELSE IF r.target \notin KnownTargets THEN "unpriceable_surface"
  ELSE IF SpendRate(r, options) = Absent \/ r.target \notin ShapedTargets
       THEN "unpriceable_model"
  ELSE ""

-----------------------------------------------------------------------------
(* Findings, order and samples.                                                *)

Finding(code, structural, amount, sample) ==
  [code |-> code, structural |-> structural, amount |-> amount, sample |-> sample]

Observation(code, structural) == Finding(code, structural, Absent, {})

Before(rs, i, j) == rs[i].sent < rs[j].sent \/ (rs[i].sent = rs[j].sent /\ i < j)

\* Neighbours in time, of the requests S that share a key.
Neighbours(rs, S, key) ==
  {p \in S \X S :
     /\ key[p[1]] = key[p[2]]
     /\ Before(rs, p[1], p[2])
     /\ ~\E k \in S : key[k] = key[p[1]] /\ Before(rs, p[1], k) /\ Before(rs, k, p[2])}

Timed(rs, S) == {i \in S : rs[i].sent # Absent}

Gap(rs, p) == rs[p[2]].sent - rs[p[1]].sent

\* _span_days and _projection_supported
SpansADay(rs, S) ==
  \E i, j \in Timed(rs, S) : rs[j].sent - rs[i].sent >= Day

Projectable(rs, S) == SpansADay(rs, S) /\ Cardinality(S) >= MinRequests

HasWindow(rs, S) == Cardinality(Timed(rs, S)) >= 2

Chain(r)   == <<r.tenant, r.target, r.model, r.agent, r.session>>
Scope(r)   == <<r.tenant, r.target, r.model, r.session>>
Context(r) == <<r.tenant, r.target, r.agent, r.session>>

\* The outermost marker.
Top(r) == IF Markers(r) = {} THEN 0 ELSE MaxOf(Markers(r))

-----------------------------------------------------------------------------
(* The rules.                                                                  *)

\* EFF-1: what caching cost more than sending everything plain.
Excess(r) == Cost(r) - Plain(r)

\* Mutation: every priced request vouches for the finding.
PrefixEfficiencyOfAll(rs, S, rate) ==
  LET excess == Total(rs, S, LAMBDA i : rate[i] * Excess(rs[i]))
  IN  IF excess <= 0 THEN {} ELSE {Finding("EFF-1", FALSE, excess, S)}

PrefixEfficiency(rs, S, rate) ==
  LET excess == Total(rs, S, LAMBDA i : rate[i] * Excess(rs[i]))
  IN  IF excess <= 0 THEN {}
      ELSE {Finding("EFF-1", FALSE, excess, {i \in S : rate[i] * Excess(rs[i]) # 0})}

\* VOL-1: the ids that a chain put at a position of its cached prefixes.
IdsAt(rs, S, chain, pos) ==
  {rs[i].segments[pos].id : i \in {k \in S : Chain(rs[k]) = chain /\ pos <= Top(rs[k])}}

VolatileChains(rs, S, pos) ==
  {c \in {Chain(rs[i]) : i \in S} : Cardinality(IdsAt(rs, S, c, pos)) > 1}

\* What lies behind position pos and in front of the next one that changes too.
Suffix(r, pos, ceiling) == PrefixTokens(r, ceiling) - PrefixTokens(r, pos)

VolatilePrefix(rs, S, rate) ==
  LET unstable == {k \in 1 .. MaxOf({0} \cup {Top(rs[i]) : i \in S}) :
                     VolatileChains(rs, S, k) # {}}
      pos      == MinOf(unstable)
      chains   == VolatileChains(rs, S, pos)
      blockers == {k \in unstable : k > pos /\ VolatileChains(rs, S, k) \cap chains # {}}
      behind(i) ==
        LET ceiling == MinOf({Top(rs[i])} \cup {k - 1 : k \in blockers})
        IN  IF ceiling <= pos THEN 0 ELSE Suffix(rs[i], pos, ceiling)
      writers  == {i \in Timed(rs, S) :
                     /\ Chain(rs[i]) \in chains
                     /\ Markers(rs[i]) # {}
                     /\ behind(i) > 0
                     /\ Positive(WriteTokens(rs[i].usage))
                     /\ DeclaredTtl(rs[i]) \in {"5m", "1h"}}
      warm     == {i \in writers : \E j \in writers :
                     /\ Chain(rs[j]) = Chain(rs[i])
                     /\ Before(rs, j, i)
                     /\ rs[i].sent - rs[j].sent < (IF DeclaredTtl(rs[i]) = "5m" THEN 300 ELSE Hour)}
      wasted   == Total(rs, warm, LAMBDA i :
                    behind(i) * rate[i] * (WritePct(DeclaredTtl(rs[i])) - ReadPct))
  IN  IF unstable = {} THEN {}
      ELSE IF wasted > 0 THEN {Finding("VOL-1", TRUE, wasted, warm)}
      ELSE IF blockers # {} THEN {Observation("VOL-1", TRUE)}
      ELSE {}

\* MIN-1: a marker on a prefix that is too short to be cached.
BelowMinimum(rs, S) ==
  IF \E i \in S : /\ rs[i].target \in KnownTargets
                  /\ \E k \in Markers(rs[i]) : PrefixTokens(rs[i], k) < MinCacheable
  THEN {Observation("MIN-1", TRUE)} ELSE {}

\* TTL-2: an hour was paid for and five minutes would have done.
PremiumUnearned(rs, S, rate) ==
  LET gaps   == Neighbours(rs, Timed(rs, S), [i \in S |-> Scope(rs[i])])
      band   == {p \in gaps : Gap(rs, p) >= 300 /\ Gap(rs, p) < Hour}
      read   == {p[2] : p \in {q \in band : Positive(rs[q[2]].usage.read)}}
      hourly == {i \in Timed(rs, S) : Wrote(rs[i], "1h") > 0}
      net    == Total(rs, hourly, LAMBDA i : Wrote(rs[i], "1h") * rate[i] * 75)
                - Total(rs, read, LAMBDA i : Valid(rs[i].usage.read) * rate[i] * 115)
      unread == Cardinality(band) > Cardinality(read)
  IN  IF \/ hourly = {}
         \/ Cardinality(gaps) < MinGaps
         \/ 10 * Cardinality(band) > Cardinality(gaps)
      THEN {}
      ELSE IF net > 0 /\ ~unread THEN {Finding("TTL-2", FALSE, net, hourly \cup read)}
      ELSE {Observation("TTL-2", FALSE)}

\* FAN-1: a request went out before its neighbour's entry of the same prefix could
\* be read, and both wrote.
CachedPrefix(r) == <<r.tenant, r.target, r.model, PrefixIds(r, Top(r))>>

ColdFanout(rs, S, rate) ==
  LET marked  == {i \in Timed(rs, S) : Markers(rs[i]) # {}}
      pairs   == {p \in Neighbours(rs, marked, [i \in S |-> CachedPrefix(rs[i])]) :
                    /\ rs[p[2]].sent < VisibleAt(rs[p[1]])
                    /\ WroteAny(rs[p[1]]) > 0 /\ WroteAny(rs[p[2]]) > 0}
      charged == {p[2] : p \in pairs}
      waste   == Total(rs, charged, LAMBDA i :
                   rate[i] * (115 * Wrote(rs[i], "5m") + 190 * Wrote(rs[i], "1h")))
  IN  IF pairs = {} THEN {} ELSE {Finding("FAN-1", TRUE, waste, charged)}

\* SPL-1: one conversation, several models.
ModelSplit(rs, S) ==
  IF \E i, j \in S : /\ rs[i].session # Absent
                     /\ Context(rs[i]) = Context(rs[j]) /\ rs[i].model # rs[j].model
  THEN {Observation("SPL-1", FALSE)} ELSE {}

\* expiry_seconds: the longest lifetime that was written, 0 when unknown.
ExpirySeconds(r) ==
  LET seconds(t) == CASE t = "5m" -> 300 [] t = "1h" -> Hour [] OTHER -> 0
      markers == {seconds(t) : t \in MarkerLifetimes(r)}
  IN  IF Valid(r.usage.h1) > 0 THEN Hour
      ELSE IF Valid(r.usage.m5) > 0 THEN 300
      ELSE IF markers # {} THEN (IF 0 \in markers THEN 0 ELSE MaxOf(markers))
      ELSE seconds(DeclaredTtl(r))

Sessioned(rs, S) == {i \in Timed(rs, S) : rs[i].session # Absent}

\* REB-1: what a turn did to the prefix its predecessor had established. A counter
\* that is no count is taken for nothing here.
Turn(rs, p) ==
  LET a == rs[p[1]]  b == rs[p[2]]
      established == Valid(a.usage.read) + Valid(WriteTokens(a.usage))
  IN  IF established > 0 /\ ExpirySeconds(a) = 0 THEN "unprovable"
      ELSE IF established > 0 /\ Gap(rs, p) >= ExpirySeconds(a) THEN "expired"
      ELSE IF established > 0 /\ 2 * Valid(WriteTokens(b.usage)) >= established
           THEN (IF a.model = b.model THEN "rebuilt" ELSE "switched")
      ELSE IF Valid(b.usage.read) > 0 THEN "extended"
      ELSE "none"

PrefixRebuild(rs, S) ==
  LET context == [i \in S |-> Context(rs[i])]
      turns(kinds) == Cardinality({p \in Neighbours(rs, Sessioned(rs, S), context) :
                                     Turn(rs, p) \in kinds})
      rebuilt == turns({"rebuilt"})
      all     == turns({"rebuilt", "extended", "expired"})
  IN  IF rebuilt > 0 /\ all >= MinTurns /\ all < RebuildInterval * rebuilt
      THEN {Observation("REB-1", FALSE)} ELSE {}

\* REB-0: a write no session places; the ids of the placed ones are compared.
RebuildAbstention(rs, S) ==
  IF \E i \in S : /\ WriteTokens(rs[i].usage) # 0
                  /\ \A j \in Sessioned(rs, S) : rs[j].id # rs[i].id
  THEN {Observation("REB-0", FALSE)} ELSE {}

\* CAC-1: said whether or not the cache helps.
CacheVerdict(rs, S, rate) ==
  IF \E i \in S : rate[i] > 0 /\ Valid(rs[i].usage.read) + WroteAny(rs[i]) > 0
  THEN {Observation("CAC-1", FALSE)} ELSE {}

\* The rules that price nothing see every analysable request, the others those
\* that are in the totals.
FindingsOf(rs, analysed, priced, rate) ==
  UNION {PrefixEfficiency(rs, priced, rate), VolatilePrefix(rs, priced, rate),
         BelowMinimum(rs, analysed), PremiumUnearned(rs, priced, rate),
         ColdFanout(rs, priced, rate), ModelSplit(rs, analysed),
         PrefixRebuild(rs, analysed), RebuildAbstention(rs, analysed),
         CacheVerdict(rs, priced, rate)}

=============================================================================
