--------------------------------- MODULE Monitor ---------------------------------
(***************************************************************************)
(* The live monitor (monitor.py): requests come one at a time, what is kept  *)
(* of them is bounded, and an alert is raised once per subject. A request is *)
(* observed at once, or its shape when it is sent and its usage when the     *)
(* response comes.                                                           *)
(*                                                                          *)
(* A segment's ttl is Unmarked, Silent (a marker that names no lifetime), or *)
(* a lifetime. What the registry records of a surface is a constant; Unknown *)
(* stands for every lookup it cannot answer. Hashes are taken to be distinct *)
(* and stand as what they are taken of.                                      *)
(***************************************************************************)
EXTENDS Integers, Sequences, FiniteSets, SequencesExt

CONSTANTS
  Window,        \* WINDOW: observations kept of anything
  MaxScopes,     \* max_scopes
  MaxFiring,     \* MAX_FIRING: alerts, spans, sessions remembered per scope
  MaxPositions,  \* MAX_POSITIONS: wire positions tracked per scope
  MinSamples,    \* min_samples
  DriftPercent,  \* drift_rate
  FanoutSeconds, \* FANOUT_SECONDS
  Seconds,       \* TTL_SECONDS: seconds of the lifetimes RT-TTL knows
  RebuildTurns,  \* REBUILD_TURNS
  Minimum,       \* per surface, min_cacheable_tokens
  Lookback,      \* per surface, lookback_blocks
  Budget,        \* per surface, max_breakpoints
  Offered,       \* per surface, supported_ttls
  Unknown, Unmarked, Silent, NoSession, Untimed, Absent

ASSUME MonitorAssumption ==
  /\ {Window, MaxFiring, MaxPositions, MinSamples, RebuildTurns} \subseteq Nat \ {0}
  /\ MaxScopes \in Nat /\ MaxScopes >= 3   \* one request touches up to three scopes
  /\ DriftPercent \in 1 .. 100 /\ FanoutSeconds \in Nat \ {0}

VARIABLES
  table,    \* Monitor._scopes: states by scope, and scopes least recently seen first
  log,      \* what was observed so far: requests, each with what was observed of it
  raised    \* the alerts that were returned, oldest first

monitorVars == <<table, log, raised>>

-----------------------------------------------------------------------------
(* Bounded containers: a deque with maxlen, and an ordered map with a cap. *)

Newest(s, cap) == IF Len(s) <= cap THEN s ELSE SubSeq(s, Len(s) - cap + 1, Len(s))

Push(s, x, cap) == Newest(Append(s, x), cap)

\* Entries are records with a field key.
Has(s, key) == \E i \in DOMAIN s : s[i].key = key
PlaceOf(s, key) == CHOOSE i \in DOMAIN s : s[i].key = key
Recall(s, key) == s[PlaceOf(s, key)]
Without(s, key) == IF Has(s, key) THEN RemoveAt(s, PlaceOf(s, key)) ELSE s

\* An entry that is written goes to the end.
Remember(s, entry, cap) == Push(Without(s, entry.key), entry, cap)

\* A member that is used goes to the end.
Touch(order, x, cap) ==
  Push(IF Contains(order, x) THEN RemoveAt(order, CHOOSE i \in DOMAIN order : order[i] = x) ELSE order,
       x, cap)

\* The members at the places in S, in their order.
Keep(s, S) ==
  LET upTo[i \in 0 .. Len(s)] ==
        IF i = 0 THEN <<>> ELSE IF i \in S THEN Append(upTo[i - 1], s[i]) ELSE upTo[i - 1]
  IN upTo[Len(s)]

-----------------------------------------------------------------------------
(* Scopes. *)

PoolOf(r) == <<r.tenant, r.target, r.model>>

ReuseChainOf(r) ==
  IF r.session = NoSession THEN PoolOf(r) ELSE PoolOf(r) \o <<r.agent, r.session>>

\* A rebuild may be due to a change of model, so the model is left out.
RebuildScope(r) == <<r.tenant, r.target>>

FreshState ==
  [seen |-> 0, values |-> <<>>, gaps |-> <<>>, last |-> Untimed, writes |-> <<>>,
   marks |-> [l \in DOMAIN Seconds |-> <<>>], rewrites |-> [l \in DOMAIN Seconds |-> <<>>],
   lastSeen |-> <<>>, turns |-> <<>>, rebuilds |-> <<>>, firing |-> <<>>]

\* Mutation: a scope that is seen again keeps its place.
ScopeInPlace(t, scope) ==
  LET order == IF scope \in DOMAIN t.state THEN t.order ELSE Append(t.order, scope)
      kept  == Newest(order, MaxScopes)
  IN [order |-> kept,
      state |-> [s \in ToSet(kept) |-> IF s \in DOMAIN t.state THEN t.state[s] ELSE FreshState]]

\* _scope: a scope that is seen becomes the most recent one, and the least recent
\* one is forgotten with all its state.
Scope(t, scope) ==
  LET kept == Touch(t.order, scope, MaxScopes)
  IN [order |-> kept,
      state |-> [s \in ToSet(kept) |-> IF s \in DOMAIN t.state THEN t.state[s] ELSE FreshState]]

-----------------------------------------------------------------------------
(* What a request carries. *)

Marked(r) == {i \in DOMAIN r.segs : r.segs[i].ttl # Unmarked}
Top(r) == CHOOSE i \in Marked(r) : \A j \in Marked(r) : j <= i

Ids(r, n) == [i \in 1 .. n |-> r.segs[i].id]

\* terms[1] + ... + terms[n]
SumTo(n, terms) ==
  LET sum[i \in 0 .. n] == IF i = 0 THEN 0 ELSE sum[i - 1] + terms[i] IN sum[n]

TokensTo(r, n) == SumTo(n, [i \in 1 .. n |-> r.segs[i].tokens])

\* _prefix_key: empty when nothing is marked.
PrefixKey(r) == IF Marked(r) = {} THEN <<>> ELSE Ids(r, Top(r))

\* Request.marker_lifetimes
MarkerLifetimes(r) ==
  LET named == {r.segs[i].ttl : i \in Marked(r)} \ {Silent}
  IN IF named # {} /\ \E i \in Marked(r) : r.segs[i].ttl = Silent
     THEN named \cup {"5m"} ELSE named

\* The lifetime RT-TTL may reason about, if the surface offers one.
NamedLifetime(r) ==
  IF MarkerLifetimes(r) = {} THEN r.declared ELSE CHOOSE l \in MarkerLifetimes(r) : TRUE

Arguable(r) == Cardinality(MarkerLifetimes(r)) <= 1 /\ NamedLifetime(r) \in DOMAIN Seconds

CanRead(r) ==
  Arguable(r) /\ Offered[r.target] # Unknown /\ NamedLifetime(r) \in Offered[r.target]

\* _prefix_hashes: the prefixes an entry could be read from, by length.
Boundaries(r) ==
  {n \in 1 .. (IF Marked(r) = {} THEN 0 ELSE Top(r)) :
     /\ Lookback[r.target] # Unknown =>
          \E m \in Marked(r) : m - n \in 0 .. Lookback[r.target]
     /\ Minimum[r.target] # Unknown => TokensTo(r, n) >= Minimum[r.target]}

\* cost.expiry_seconds
ExpirySeconds(r) ==
  LET declared == LET named == {i \in Marked(r) : r.segs[i].ttl # Silent}
                  IN IF named = {} THEN r.declared
                     ELSE r.segs[CHOOSE i \in named : \A j \in named : i <= j].ttl
      lifetimes == IF r.usage.split # {} THEN r.usage.split
                   ELSE IF MarkerLifetimes(r) # {} THEN MarkerLifetimes(r) ELSE {declared}
  IN IF lifetimes \subseteq DOMAIN Seconds THEN Max({Seconds[l] : l \in lifetimes}) ELSE Unknown

\* trace.write_visible_at
VisibleAt(r) == IF r.usage.first # Unknown THEN r.sent + r.usage.first ELSE r.sent + FanoutSeconds

-----------------------------------------------------------------------------
(* Bookkeeping. *)

\* Share of observations on which a position changed, in percent.
Churn(seen) ==
  IF Len(seen) < 2 THEN 0
  ELSE (100 * Cardinality({i \in 1 .. Len(seen) - 1 : seen[i] # seen[i + 1]}))
         \div (Len(seen) - 1)

\* Every tracked position gets an observation, present or not.
Observed(values, r) ==
  LET tracked == Max({Len(values), Min({MaxPositions, Len(r.segs)})})
  IN [i \in 1 .. tracked |->
        Push(IF i <= Len(values) THEN values[i] ELSE <<>>,
             IF i <= Len(r.segs) THEN r.segs[i].id ELSE Absent, Window)]

\* The time of the last marking that one of the request's prefixes contains.
MarkedBefore(marks, r) ==
  {marks[i].at : i \in {j \in DOMAIN marks : \E n \in Boundaries(r) : marks[j].key = Ids(r, n)}}

\* Mutation: every lifetime writes to one timeline.
RewritesPooled(st, r) ==
  LET before == MarkedBefore(st.marks["5m"], r)
      gap    == r.sent - Max(before)
      at[n \in 0 .. Len(r.segs)] ==
        IF n = 0 THEN st.marks["5m"]
        ELSE IF n \in Marked(r) THEN Remember(at[n - 1], [key |-> Ids(r, n), at |-> r.sent], MaxFiring)
             ELSE at[n - 1]
  IN [st EXCEPT !.rewrites[NamedLifetime(r)] =
                  IF before # {} /\ gap >= 0 THEN Push(@, gap, Window) ELSE @,
                !.marks["5m"] = at[Len(r.segs)]]

\* Gaps between two markings of one span, for the lifetime they were made with.
Rewrites(st, r) ==
  LET l      == NamedLifetime(r)
      before == MarkedBefore(st.marks[l], r)
      gap    == r.sent - Max(before)
      at[n \in 0 .. Len(r.segs)] ==
        IF n = 0 THEN st.marks[l]
        ELSE IF n \in Marked(r) THEN Remember(at[n - 1], [key |-> Ids(r, n), at |-> r.sent], MaxFiring)
             ELSE at[n - 1]
  IN [st EXCEPT !.rewrites[l] = IF before # {} /\ gap >= 0 THEN Push(@, gap, Window) ELSE @,
                !.marks[l] = at[Len(r.segs)]]

Timed(st, r) == st.last = Untimed \/ r.sent >= st.last

Gaps(st, r) ==
  [st EXCEPT !.gaps = IF st.last # Untimed /\ Timed(st, r) THEN Push(@, r.sent - st.last, Window) ELSE @,
             !.last = IF Timed(st, r) THEN r.sent ELSE @]

TrackShape(st, r) ==
  LET counted == [st EXCEPT !.seen = @ + 1, !.values = Observed(@, r)]
  IN IF r.sent = Untimed THEN counted
     ELSE Gaps(IF CanRead(r) THEN Rewrites(counted, r) ELSE counted, r)

Writes(r) == r.sent # Untimed /\ r.usage.write > 0 /\ Marked(r) # {}

TrackUsage(st, r) ==
  IF Writes(r)
  THEN [st EXCEPT !.writes =
          Push(@, [at |-> r.sent, visible |-> VisibleAt(r), prefix |-> PrefixKey(r)], Window)]
  ELSE st

\* Mutation: only what was sent before counts.
ConcurrentBefore(st, r) ==
  IF Writes(r)
  THEN 1 + Cardinality({i \in DOMAIN st.writes :
              /\ st.writes[i].prefix = PrefixKey(r)
              /\ st.writes[i].at <= r.sent /\ r.sent < st.writes[i].visible})
  ELSE 0

\* concurrent_writers: writes of the same prefix of which neither could see the
\* other, the request's own included.
Concurrent(st, r) ==
  IF Writes(r)
  THEN 1 + Cardinality({i \in DOMAIN st.writes :
              /\ st.writes[i].prefix = PrefixKey(r)
              /\ r.sent < st.writes[i].visible /\ st.writes[i].at < VisibleAt(r)})
  ELSE 0

\* What a turn of a session is: it follows an earlier one that had established a
\* prefix, and whose entries had not expired as far as that can be told.
Follows(st, r, key) ==
  /\ Has(st.turns, key) /\ Recall(st.turns, key).established > 0
  /\ r.sent # Untimed /\ Has(st.lastSeen, key) =>
       /\ Recall(st.turns, key).expires # Unknown
       /\ r.sent - Recall(st.lastSeen, key).at < Recall(st.turns, key).expires

\* Mutation: the entries of this request are asked whether the last one's expired.
TrackTurnOwnExpiry(st, r) ==
  LET key == <<r.agent, r.session>>
      own == [st EXCEPT !.turns = Without(@, key) \o
                (IF Has(@, key) THEN <<[Recall(@, key) EXCEPT !.expires = ExpirySeconds(r)]>> ELSE <<>>)]
  IN [st EXCEPT
        !.lastSeen = IF r.sent = Untimed THEN @ ELSE Remember(@, [key |-> key, at |-> r.sent], MaxFiring),
        !.turns    = Remember(@, [key |-> key, expires |-> ExpirySeconds(r),
                                  established |-> r.usage.read + r.usage.write], MaxFiring),
        !.rebuilds = IF Follows(own, r, key)
                     THEN Push(@, 2 * r.usage.write >= Recall(st.turns, key).established, Window)
                     ELSE @]

TrackTurn(st, r) ==
  LET key == <<r.agent, r.session>>
  IN [st EXCEPT
        !.lastSeen = IF r.sent = Untimed THEN @ ELSE Remember(@, [key |-> key, at |-> r.sent], MaxFiring),
        !.turns    = Remember(@, [key |-> key, expires |-> ExpirySeconds(r),
                                  established |-> r.usage.read + r.usage.write], MaxFiring),
        !.rebuilds = IF Follows(st, r, key)
                     THEN Push(@, 2 * r.usage.write >= Recall(st.turns, key).established, Window)
                     ELSE @]

-----------------------------------------------------------------------------
(* The checks: each is the sequence of alerts <<code, subject>> it yields. *)

When(condition, alert) == IF condition THEN <<alert>> ELSE <<>>

Blind(r) == When(r.segs = <<>>, <<"RT-BLIND", {}>>)

Settled(st, i) == i \in DOMAIN st.values /\ Len(st.values[i]) >= MinSamples
Changing(st, i) == Settled(st, i) /\ Churn(st.values[i]) >= DriftPercent

\* Tokens of the marked prefix, the position's own left out, that stop matching
\* when it changes: those above the last marker below it.
Stranded(r, i) ==
  LET below == Max({0} \cup {m \in Marked(r) : m < i})
  IN TokensTo(r, Top(r)) - TokensTo(r, below) - r.segs[i].tokens

Drift(st, r) ==
  IF Marked(r) = {} THEN <<>>
  ELSE LET drifting == {i \in DOMAIN r.segs : i <= Top(r) /\ Changing(st, i) /\ Stranded(r, i) > 0}
           nth(k)   == CHOOSE i \in drifting : Cardinality({j \in drifting : j <= i}) = k
       IN [k \in 1 .. Cardinality(drifting) |-> <<"RT-DRIFT", nth(k)>>]

\* Tokens of the run of stable positions right behind position i.
StableBehind(st, r, i) ==
  LET run == {n \in i .. Len(r.segs) :
                \A j \in i + 1 .. n : Settled(st, j) /\ ~Changing(st, j)}
  IN TokensTo(r, Max(run)) - TokensTo(r, i)

Blocked(st, r) ==
  IF Marked(r) # {} \/ Minimum[r.target] = Unknown THEN <<>>
  ELSE LET culprits == {i \in DOMAIN r.segs :
                          Changing(st, i) /\ StableBehind(st, r, i) >= Minimum[r.target]}
       IN When(culprits # {}, <<"RT-BLOCKED", Min(culprits)>>)

BelowMinimum(r) ==
  When(/\ Minimum[r.target] # Unknown
       /\ \E m \in Marked(r) : TokensTo(r, m) < Minimum[r.target],
       <<"RT-MIN", Minimum[r.target]>>)

MarkerBudget(r) ==
  LET budget == Budget[r.target]
      count  == Cardinality(Marked(r))
  IN IF count = 0 \/ budget \in {Unknown, 0} THEN <<>>
     ELSE When(count > budget, <<"RT-BUDGET", budget>>) \o When(count = budget, <<"RT-BUDGET", 0>>)

CadenceVsTtl(st, r) ==
  IF ~CanRead(r) THEN <<>>
  ELSE LET l      == NamedLifetime(r)
           gaps   == SortSeq(st.rewrites[l], <)
           median == gaps[Len(gaps) \div 2 + 1]
       IN IF Len(gaps) < MinSamples THEN <<>>
          ELSE When(/\ l = "5m" /\ Seconds["5m"] < median /\ median < Seconds["1h"]
                    /\ "1h" \in Offered[r.target], <<"RT-TTL", "1h">>)
               \o When(l = "1h" /\ median >= Seconds["1h"] /\ "5m" \in Offered[r.target],
                       <<"RT-TTL", "5m">>)

\* The lookups this request's shape needed and the registry could not answer.
Unanswered(r) ==
  {a \in [key : {"ttls", "lookback", "minimum", "budget"},
          check : {"RT-TTL", "RT-BLOCKED", "RT-MIN", "RT-BUDGET"}] :
     \/ a = [key |-> "ttls", check |-> "RT-TTL"]
        /\ Arguable(r) /\ Offered[r.target] = Unknown
     \/ a = [key |-> "lookback", check |-> "RT-TTL"]
        /\ CanRead(r) /\ Marked(r) # {} /\ Lookback[r.target] = Unknown
     \/ a.key = "minimum" /\ Minimum[r.target] = Unknown
        /\ \/ a.check = "RT-TTL" /\ CanRead(r) /\ Marked(r) # {}
           \/ a.check = "RT-BLOCKED" /\ Marked(r) = {}
           \/ a.check = "RT-MIN" /\ Marked(r) # {}
     \/ a = [key |-> "budget", check |-> "RT-BUDGET"]
        /\ Marked(r) # {} /\ Budget[r.target] = Unknown}

NoSurface(r) == When(Unanswered(r) # {}, <<"RT-NOSURFACE", Unanswered(r)>>)

ShapeChecks(st, r) ==
  Blind(r) \o Drift(st, r) \o Blocked(st, r) \o BelowMinimum(r)
    \o MarkerBudget(r) \o CadenceVsTtl(st, r)

ColdFanout(before, r) ==
  When(Concurrent(before, r) >= 2, <<"RT-FANOUT", PrefixKey(r)>>)

\* before and st: the scope's state before and after this turn was counted.
Rebuild(before, st, r) ==
  IF r.session = NoSession THEN When(r.usage.write > 0, <<"RT-NOSESSION", {}>>)
  ELSE LET rebuilt == Cardinality({i \in DOMAIN st.rebuilds : st.rebuilds[i]})
       IN When(/\ Follows(before, r, <<r.agent, r.session>>)
               /\ Len(st.rebuilds) >= Max({2 * MinSamples, Window \div 2})
               /\ rebuilt > 0 /\ Len(st.rebuilds) < RebuildTurns * rebuilt,
               <<"RT-REBUILD", {}>>)

-----------------------------------------------------------------------------
(* One observation. *)

\* _fire: an alert that is already firing is not returned again. What was seen so
\* far is a table and the alerts returned.
FireOne(seen, scope, alert) ==
  IF Contains(seen.table.state[scope].firing, alert) THEN seen
  ELSE [table |-> [seen.table EXCEPT !.state[scope].firing = Push(@, alert, MaxFiring)],
        new   |-> Append(seen.new, [scope |-> scope, alert |-> alert])]

\* Several alerts of one scope.
Fire(seen, scope, alerts) ==
  LET go[i \in 0 .. Len(alerts)] ==
        IF i = 0 THEN seen ELSE FireOne(go[i - 1], scope, alerts[i])
  IN go[Len(alerts)]

\* Mutation: a response counts as another request.
CountShapeAlways(t, r, shape) == [t EXCEPT !.state[ReuseChainOf(r)] = TrackShape(@, r)]

CountShape(t, r, shape) ==
  IF shape THEN [t EXCEPT !.state[ReuseChainOf(r)] = TrackShape(@, r)] ELSE t

CountUsage(t, r, usage) ==
  IF usage
  THEN [t EXCEPT !.state[PoolOf(r)] = TrackUsage(@, r),
                 !.state[RebuildScope(r)] = IF r.session = NoSession THEN @ ELSE TrackTurn(@, r)]
  ELSE t

\* What is wrong is said in this order, of the state before and after the usage was
\* counted.
Alerting(shaped, used, r, shape, usage) ==
  LET chain == ReuseChainOf(r)
      turns == RebuildScope(r)
  IN Fire(Fire(Fire(Fire([table |-> used, new |-> <<>>],
       chain, IF shape THEN ShapeChecks(used.state[chain], r) ELSE <<>>),
       PoolOf(r), IF usage THEN ColdFanout(shaped.state[PoolOf(r)], r) ELSE <<>>),
       turns, IF usage THEN Rebuild(shaped.state[turns], used.state[turns], r) ELSE <<>>),
       chain, IF shape THEN NoSurface(r) ELSE <<>>)

Checked(shaped, r, shape, usage) ==
  Alerting(shaped, CountUsage(shaped, r, usage), r, shape, usage)

\* The scopes of a request are looked up, the reuse chain unless it is the pool.
Found(t, r) ==
  LET known == Scope(Scope(t, PoolOf(r)), RebuildScope(r))
  IN IF ReuseChainOf(r) = PoolOf(r) THEN known ELSE Scope(known, ReuseChainOf(r))

\* _observe: the table after it, and the alerts it returns.
Observing(t, r, shape, usage) == Checked(CountShape(Found(t, r), r, shape), r, shape, usage)

MonitorInit ==
  /\ table = [order |-> <<>>, state |-> <<>>]
  /\ log = <<>> /\ raised = <<>>

Seen(seen, r, shape, usage) ==
  /\ table' = seen.table
  /\ log' = Append(log, [r |-> r, shape |-> shape, usage |-> usage])
  /\ raised' = raised \o seen.new

ObservedNow(r, shape, usage) == Seen(Observing(table, r, shape, usage), r, shape, usage)

\* The alerts that this step returned.
NewAlerts == SubSeq(raised', Len(raised) + 1, Len(raised'))

Observe(r) == ObservedNow(r, TRUE, TRUE)
ObserveShape(r) == ObservedNow(r, TRUE, FALSE)
ObserveUsage(r) == ObservedNow(r, FALSE, TRUE)

\* clear: a code may fire again for a scope.
Clear(scope, code) ==
  /\ scope \in DOMAIN table.state
  /\ table' = [table EXCEPT !.state[scope].firing = Keep(@, {i \in DOMAIN @ : @[i][1] # code})]
  /\ UNCHANGED <<log, raised>>

-----------------------------------------------------------------------------
(* What the plugin reads: the rolling state as an estimator. *)

ChangeRates(scope) ==
  IF scope \in DOMAIN table.state
  THEN [i \in DOMAIN table.state[scope].values |-> Churn(table.state[scope].values[i])]
  ELSE <<>>

GapsOf(scope) == IF scope \in DOMAIN table.state THEN table.state[scope].gaps ELSE <<>>

Samples(scope) ==
  IF scope \in DOMAIN table.state THEN Min({table.state[scope].seen, Window}) ELSE 0

\* Positions with too few observations, or with content that was not seen there.
Unfamiliar(scope, ids, need) ==
  {i \in DOMAIN ids :
     \/ scope \notin DOMAIN table.state
     \/ i \notin DOMAIN table.state[scope].values
     \/ Len(table.state[scope].values[i]) < need
     \/ ~Contains(table.state[scope].values[i], ids[i])}

-----------------------------------------------------------------------------
(* Properties. *)

\* The scopes an observation sees, in their order. The pool twice in a row, where there
\* is no third, is the pool once: nothing was seen in between.
SeenBy(r) ==
  IF ReuseChainOf(r) = PoolOf(r) THEN <<PoolOf(r), PoolOf(r), RebuildScope(r)>>
  ELSE <<PoolOf(r), RebuildScope(r), ReuseChainOf(r)>>

\* The scopes that were seen: three places for every observation.
Touches ==
  [k \in 1 .. 3 * Len(log) |-> SeenBy(log[(k + 2) \div 3].r)[((k + 2) % 3) + 1]]

NothingForgotten == Cardinality(ToSet(Touches)) <= MaxScopes

\* What is forgotten is what was not seen for longest: a scope is in the table as
\* long as fewer than max_scopes others were seen since, and a chain that was never
\* forgotten has counted all its requests.
RecentScopesKept ==
  /\ \A s \in ToSet(Touches) :
       LET last == Max({i \in DOMAIN Touches : Touches[i] = s})
       IN s \in DOMAIN table.state <=>
            Cardinality({Touches[i] : i \in last + 1 .. Len(Touches)}) < MaxScopes
  /\ NothingForgotten => \A s \in DOMAIN table.state :
       table.state[s].seen =
         Cardinality({i \in DOMAIN log : log[i].shape /\ ReuseChainOf(log[i].r) = s})

\* The table had only the requests with lifetime l been observed.
ObservedAlone(l) ==
  LET t[i \in 0 .. Len(log)] ==
        IF i = 0 THEN [order |-> <<>>, state |-> <<>>]
        ELSE IF Arguable(log[i].r) /\ NamedLifetime(log[i].r) = l
             THEN Observing(t[i - 1], log[i].r, log[i].shape, log[i].usage).table
             ELSE t[i - 1]
  IN t[Len(log)]

\* The evidence about one lifetime is what the requests with that lifetime say: no
\* other request invents any, or destroys any (_track_shape).
RewritesStayApart ==
  NothingForgotten =>
    \A l \in DOMAIN Seconds :
      LET alone == ObservedAlone(l)
      IN \A s \in DOMAIN table.state :
           table.state[s].rewrites[l] =
             IF s \in DOMAIN alone.state THEN alone.state[s].rewrites[l] ELSE <<>>

\* The requests of a pool with one cached prefix, as a finished trace has them.
Sharing(pool, prefix) ==
  {i \in DOMAIN log : /\ log[i].usage /\ log[i].r.sent # Untimed
                      /\ PoolOf(log[i].r) = pool /\ PrefixKey(log[i].r) = prefix}

SentBefore(i, j) ==
  log[i].r.sent < log[j].r.sent \/ (log[i].r.sent = log[j].r.sent /\ i < j)

\* Request j was sent before what i wrote could be read, and wrote it again.
WroteUnseen(i, j) ==
  /\ Writes(log[i].r) /\ Writes(log[j].r)
  /\ SentBefore(i, j) /\ log[j].r.sent < VisibleAt(log[i].r)

Overlap(pool, prefix) == \E i, j \in Sharing(pool, prefix) : WroteUnseen(i, j)

\* The analyzer's FAN-1 looks at neighbours only, whether they wrote or not.
FannedOut(pool, prefix) ==
  \E i, j \in Sharing(pool, prefix) :
    /\ WroteUnseen(i, j)
    /\ ~\E k \in Sharing(pool, prefix) : SentBefore(i, k) /\ SentBefore(k, j)

FanoutRaised(pool, prefix) ==
  Contains(raised, [scope |-> pool, alert |-> <<"RT-FANOUT", prefix>>])

AllWritesHeld ==
  NothingForgotten /\ Cardinality({i \in DOMAIN log : log[i].usage /\ Writes(log[i].r)}) <= Window

\* Whatever order responses come in, RT-FANOUT was raised for exactly the prefixes
\* that two requests wrote of which the later was sent before the earlier one's entry
\* could be read, and so for every prefix that FAN-1 finds in the finished trace.
\* (While the window holds every write.)
RuntimeSeesFanout ==
  AllWritesHeld =>
    \A i \in DOMAIN log : log[i].usage /\ Writes(log[i].r) =>
      LET pool == PoolOf(log[i].r)  prefix == PrefixKey(log[i].r)
      IN /\ FanoutRaised(pool, prefix) <=> Overlap(pool, prefix)
         /\ FannedOut(pool, prefix) => FanoutRaised(pool, prefix)

\* "replay it against a captured trace and get identical answers. A monitor that
\* disagrees with the report is worse than no monitor": what RT-FANOUT was raised for
\* is what FAN-1 finds.
FanoutAsReported ==
  AllWritesHeld =>
    \A i \in DOMAIN log : log[i].usage /\ Writes(log[i].r) =>
      (FanoutRaised(PoolOf(log[i].r), PrefixKey(log[i].r))
         => FannedOut(PoolOf(log[i].r), PrefixKey(log[i].r)))

\* Turns of a rebuild scope's sessions that the analyzer's REB-1 counts as rebuilds:
\* the walk of _f_prefix_rebuild over requests, by place, in the order they were sent.
BatchRebuilds(requests, scope) ==
  Cardinality({p \in (DOMAIN requests) \X (DOMAIN requests) :
    LET i == p[1]  j == p[2]
        a == requests[i]  b == requests[j]
        same(r) == /\ RebuildScope(r) = scope /\ r.session # NoSession /\ r.sent # Untimed
                   /\ <<r.agent, r.session>> = <<a.agent, a.session>>
    IN /\ i < j /\ same(a) /\ same(b) /\ \A k \in DOMAIN requests : i < k /\ k < j => ~same(requests[k])
       /\ a.usage.read + a.usage.write > 0 /\ ExpirySeconds(a) # Unknown
       /\ b.sent - a.sent < ExpirySeconds(a)
       /\ 2 * b.usage.write >= a.usage.read + a.usage.write})

RebuildsCounted(requests) ==
  Cardinality(DOMAIN requests) <= Window /\ NothingForgotten =>
    \A s \in DOMAIN table.state : Len(s) = 2 =>
      Cardinality({i \in DOMAIN table.state[s].rebuilds : table.state[s].rebuilds[i]})
        = BatchRebuilds(requests, s)

\* The observations with a usage.
Used == {i \in DOMAIN log : log[i].usage}

UsedInOrder ==
  \A i, j \in Used :
    log[i].r.sent # Untimed /\ (i <= j => log[i].r.sent <= log[j].r.sent)

\* Fed a trace in order, with times, the monitor counts the rebuilds the analyzer
\* counts.
RuntimeCountsRebuilds ==
  UsedInOrder => RebuildsCounted([i \in Used |-> log[i].r])

\* observe is observe_shape followed by observe_usage ("calling both is equivalent
\* to one observe, because the two track disjoint state"), up to the order in which
\* alerts come and, with it, which of them are remembered when there are too many.
SplitObservationAgrees ==
  [][ \A e \in {log'[Len(log')]} :
        Len(log') > Len(log) /\ e.shape /\ e.usage =>
          LET first  == Observing(table, e.r, TRUE, FALSE)
              second == Observing(first.table, e.r, FALSE, TRUE)
              same(s) == [table'.state[s] EXCEPT !.firing = <<>>]
                           = [second.table.state[s] EXCEPT !.firing = <<>>]
              few(st) == Len(st.firing) < MaxFiring
          IN /\ table'.order = second.table.order
             /\ \A s \in ToSet(table'.order) :
                  /\ same(s)
                  /\ few(table'.state[s]) /\ few(second.table.state[s]) =>
                       ToSet(table'.state[s].firing) = ToSet(second.table.state[s].firing) ]_monitorVars

==================================================================================
