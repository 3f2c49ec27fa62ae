--------------------------------- MODULE Replay ---------------------------------
(***************************************************************************)
(* One call of simulate (simulate.py): the requests of a trace, in the order *)
(* they were sent, against a modelled prompt cache, with the tokens each is  *)
(* billed. A policy's Plan arrives with the request, as its markers. An Arm  *)
(* is what a bake-off varies from call to call: the fields of Assumptions,   *)
(* and the ordering that relocation gives to the whole call.                 *)
(*                                                                          *)
(* The registry is external: Minimum, Lookback and PolicyFails say what it   *)
(* answers for a scope, and Unknown that it raises RegistryError.            *)
(***************************************************************************)
EXTENDS Integers, Sequences, FiniteSets, SequencesExt

CONSTANTS
  Scopes,         \* (tenant, target_id, model): what a cache is isolated by
  Segments,       \* ids of segments
  TokensOf,       \* tokens of a segment
  Shapes,         \* what requests may carry; each is sent at some time
  Gaps,           \* seconds from one request to the next (bound)
  MaxRequests,    \* length of the trace (bound)
  Arms,           \* what simulate is called with
  Minimum,        \* per scope, min_cacheable_tokens
  Lookback,       \* per scope, registry_lookback
  PolicyFails,    \* scopes for which the policy itself raises RegistryError
  Lifetime,       \* TTL_SECONDS: seconds per lifetime the replay models
  Unknown         \* the registry has no answer; no first token was recorded

Arm ==
  [haircut  : 0 .. 100,    \* eviction_haircut, in percent
   missInN  : Nat,         \* routing_miss_in_n
   latency  : Nat,         \* write_latency_s
   lookback : BOOLEAN,     \* enforce_lookback
   order    : Seq(Nat)]    \* Plan.order: segment indices, <<>> where it is None

ASSUME ReplayAssumption ==
  /\ TokensOf \in [Segments -> Nat \ {0}]
  /\ Minimum \in [Scopes -> Nat \cup {Unknown}]
  /\ Lookback \in [Scopes -> (Nat \ {0}) \cup {Unknown}]
  /\ PolicyFails \subseteq Scopes
  /\ Lifetime \in [{"5m", "1h"} -> Nat]
  /\ Gaps \subseteq Nat /\ MaxRequests \in Nat
  /\ Arms \subseteq Arm
  /\ \A s \in Shapes : /\ s.scope \in Scopes /\ s.segs \in Seq(Segments)
                       /\ s.firstAfter \in Nat \cup {Unknown}

ASSUME MarksAssumption ==
  \A s \in Shapes : \A i \in DOMAIN s.marks : s.marks[i] \in STRING

VARIABLES
  arm,      \* what this call was made with
  trace,    \* the requests replayed so far, each with the time it was sent
  live,     \* (scope, prefix) -> when the entry is readable from and until
  usages,   \* res.usages, without the unit prices
  priced,   \* res.priced, as positions in trace
  omitted,  \* res.omitted: reason -> positions
  counts    \* res.reads, res.writes, res.cold

vars == <<arm, trace, live, usages, priced, omitted, counts>>

-----------------------------------------------------------------------------
(* Plans and prefixes. What a shape's markers come to does not depend on when *)
(* the request is sent, so it is computed once, as functions of the shape.    *)

Tokens(ids) ==
  LET upTo[n \in 0 .. Len(ids)] == IF n = 0 THEN 0 ELSE upTo[n - 1] + TokensOf[ids[n]]
  IN upTo[Len(ids)]

Prefix(ids, n) == SubSeq(ids, 1, n)

\* The members of a sequence that are among those of a set, in their order.
\* (SelectSeq, as a recursive function: the provers know nothing of SelectSeq.)
Among(indices, set) ==
  LET upTo[n \in 0 .. Len(indices)] ==
        IF n = 0 THEN <<>>
        ELSE upTo[n - 1] \o (IF indices[n] \in set THEN <<indices[n]>> ELSE <<>>)
  IN upTo[Len(indices)]

\* The indices of a request's segments in the order they go on the wire.
Emission(s, order) ==
  Among(order, DOMAIN s.segs)
    \o Among([i \in DOMAIN s.segs |-> i], DOMAIN s.segs \ ToSet(order))

WireIds ==
  [a \in Arms |-> [s \in Shapes |->
     LET wire == Emission(s, a.order) IN [p \in DOMAIN wire |-> s.segs[wire[p]]]]]

\* One candidate entry per marker, shortest first.
PlanPrefixes(a, s) ==
  LET wire == Emission(s, a.order)
      cut  == Among([p \in DOMAIN wire |-> p],
                    {p \in DOMAIN wire : wire[p] \in DOMAIN s.marks})
  IN [i \in DOMAIN cut |->
        [ids    |-> Prefix(WireIds[a][s], cut[i]),
         tokens |-> Tokens(Prefix(WireIds[a][s], cut[i])),
         ttl    |-> s.marks[wire[cut[i]]]]]

\* A candidate: the start of the wire up to a marker, its size, the marker's lifetime.
Candidate == [ids : Seq(Segments), tokens : Nat, ttl : STRING]

Cacheable(a, s) ==
  Among(PlanPrefixes(a, s), {p \in Candidate : p.tokens >= Minimum[s.scope]})

\* The pessimistic arm drops a marker too far behind the one it kept last.
Near(kept, p, window) == kept = <<>> \/ Len(p.ids) - Len(Last(kept).ids) <= window

WithinWindow(pres, window) ==
  LET upTo[n \in 0 .. Len(pres)] ==
        IF n = 0 THEN <<>>
        ELSE upTo[n - 1] \o (IF Near(upTo[n - 1], pres[n], window) THEN <<pres[n]>> ELSE <<>>)
  IN upTo[Len(pres)]

LifetimesModelled(a, s) == \A p \in ToSet(Cacheable(a, s)) : p.ttl \in DOMAIN Lifetime

\* The shapes the replay can follow: the policy plans for them, the registry
\* knows the minimum, and every marker that counts has one of the two lifetimes.
Modelled ==
  [a \in Arms |->
     {s \in Shapes : /\ s.segs # <<>>
                     /\ s.scope \notin PolicyFails
                     /\ Minimum[s.scope] # Unknown
                     /\ LifetimesModelled(a, s)}]

\* The markers that become cache entries.
Entries ==
  [a \in Arms |-> [s \in Modelled[a] |->
     IF a.lookback /\ Lookback[s.scope] # Unknown
     THEN WithinWindow(Cacheable(a, s), Lookback[s.scope])
     ELSE Cacheable(a, s)]]

Caches(s) == s \in Modelled[arm] /\ Entries[arm][s] # <<>>

Life(ttl) == (Lifetime[ttl] * (100 - arm.haircut)) \div 100

\* A write is readable once the first token of the response has come.
VisibleAt(r) ==
  r.sent + (IF r.shape.firstAfter = Unknown THEN 0 ELSE r.shape.firstAfter) + arm.latency

-----------------------------------------------------------------------------
(* Reading and billing. *)

Readable(key, now) ==
  /\ key \in DOMAIN live
  /\ live[key].from <= now
  /\ now < live[key].until

\* Mutation: an entry past every breakpoint is found.
ReachableAnywhere(s, n) == TRUE

\* Some breakpoint is at or after the end of the prefix, and near enough to it.
Reachable(s, n) ==
  \E p \in ToSet(Entries[arm][s]) :
    /\ Len(p.ids) >= n
    /\ arm.lookback /\ Lookback[s.scope] # Unknown => Len(p.ids) - n <= Lookback[s.scope]

RoutedAway == arm.missInN > 0 /\ Len(trace) % arm.missInN = arm.missInN - 1

\* How many segments the read covers: the longest live prefix that is found.
Hit(r) ==
  LET ids == WireIds[arm][r.shape]
  IN IF RoutedAway THEN 0
     ELSE Max({0} \cup {n \in DOMAIN ids :
                         /\ Readable(<<r.shape.scope, Prefix(ids, n)>>, r.sent)
                         /\ Reachable(r.shape, n)})

\* Mutation: a marker pays from the end of the read, whatever lies between.
WrittenFromRead(pres, read, ttl) ==
  MapThenSumSet(LAMBDA i : pres[i].tokens - read,
                {i \in DOMAIN pres : pres[i].ttl = ttl /\ pres[i].tokens > read})

\* One turn of the loop over the markers: a marker behind the read pays from
\* the last one that paid, or from the end of the read, to itself.
Paying(paid, p, read, ttl) ==
  IF p.tokens <= read THEN paid
  ELSE [lower |-> p.tokens,
        sum   |-> paid.sum + (IF p.ttl = ttl THEN p.tokens - paid.lower ELSE 0)]

\* What is written for markers of one lifetime.
Written(pres, read, ttl) ==
  LET paid[n \in 0 .. Len(pres)] ==
        IF n = 0 THEN [lower |-> read, sum |-> 0]
        ELSE Paying(paid[n - 1], pres[n], read, ttl)
  IN paid[Len(pres)].sum

Uncached(s) == [uncached |-> Tokens(s.segs), read |-> 0, write5m |-> 0, write1h |-> 0]

Usage(r) ==
  LET pres == Entries[arm][r.shape]
      read == Tokens(Prefix(WireIds[arm][r.shape], Hit(r)))
  IN [uncached |-> Tokens(r.shape.segs) - Last(pres).tokens,
      read     |-> read,
      write5m  |-> Written(pres, read, "5m"),
      write1h  |-> Written(pres, read, "1h")]

\* Mutation: the end of an entry is not looked at when it is refreshed.
RefreshedDead(r, p) ==
  LET key == <<r.shape.scope, p.ids>>
  IN [from  |-> IF key \in DOMAIN live THEN live[key].from ELSE VisibleAt(r),
      until |-> r.sent + Life(p.ttl)]

\* Mutation: a refresh hides the entry until its own response.
RefreshedHidden(r, p) == [from |-> VisibleAt(r), until |-> r.sent + Life(p.ttl)]

\* An entry that can be read stays readable while it is refreshed.
Refreshed(r, p) ==
  LET key == <<r.shape.scope, p.ids>>
  IN [from  |-> IF Readable(key, r.sent) THEN live[key].from ELSE VisibleAt(r),
      until |-> r.sent + Life(p.ttl)]

-----------------------------------------------------------------------------
(* The same question as the findings of the analyzer ask it (trace.py): could *)
(* a later request read the entry an earlier one wrote?                       *)

\* The span up to each marker, by index.
MarkedSpans(s) ==
  LET cut == Among([i \in DOMAIN s.segs |-> i], DOMAIN s.marks \cap DOMAIN s.segs)
  IN [i \in DOMAIN cut |-> [length |-> cut[i], tokens |-> Tokens(Prefix(s.segs, cut[i])),
                           ids |-> Prefix(s.segs, cut[i])]]

SpanIsReusableBy(span, later, lookback, minimum) ==
  /\ later # <<>>
  /\ span.length <= Last(later).length
  /\ lookback # Unknown =>
       \E i \in DOMAIN later : later[i].length - span.length \in 0 .. lookback
  /\ minimum # Unknown => span.tokens >= minimum
  /\ Prefix(Last(later).ids, span.length) = span.ids

-----------------------------------------------------------------------------
Init ==
  /\ arm \in Arms
  /\ trace = <<>>
  /\ live = <<>>
  /\ usages = <<>>
  /\ priced = <<>>
  /\ omitted = [w \in {} |-> {}]
  /\ counts = [reads |-> 0, writes |-> 0, cold |-> 0]

\* The request that is replayed is appended by every branch of the loop.
Bill(usage) ==
  /\ usages' = Append(usages, usage)
  /\ priced' = Append(priced, Len(trace) + 1)

Omit(reason) ==
  omitted' = [w \in DOMAIN omitted \cup {reason} |->
                (IF w \in DOMAIN omitted THEN omitted[w] ELSE {})
                  \cup (IF w = reason THEN {Len(trace) + 1} ELSE {})]

SkipUnstructured(s) ==
  /\ s.segs = <<>>
  /\ Omit("without structure")
  /\ UNCHANGED <<live, usages, priced, counts>>

PolicyRaises(s) ==
  /\ s.segs # <<>>
  /\ s.scope \in PolicyFails
  /\ Omit("on an unregistered surface")
  /\ Bill(Uncached(s))
  /\ UNCHANGED <<live, counts>>

NoMinimum(s) ==
  /\ s.segs # <<>> /\ s.scope \notin PolicyFails
  /\ Minimum[s.scope] = Unknown
  /\ Omit("with an unmodelled cache minimum")
  /\ Bill(Uncached(s))
  /\ UNCHANGED <<live, counts>>

UnmodelledLifetime(s) ==
  /\ s.segs # <<>> /\ s.scope \notin PolicyFails
  /\ Minimum[s.scope] # Unknown
  /\ ~ LifetimesModelled(arm, s)
  /\ Omit("with an unmodelled lifetime")
  /\ Bill(Uncached(s))
  /\ UNCHANGED <<live, counts>>

NothingMarked(s) ==
  /\ s \in Modelled[arm]
  /\ Entries[arm][s] = <<>>
  /\ Bill(Uncached(s))
  /\ counts' = [counts EXCEPT !.cold = @ + 1]
  /\ UNCHANGED <<live, omitted>>

\* Segments have tokens, so a request that caches reads or writes: it is not cold.
Serve(r) ==
  /\ Caches(r.shape)
  /\ LET usage   == Usage(r)
         marked  == ToSet(Entries[arm][r.shape])
         touched == {<<r.shape.scope, p.ids>> : p \in marked}
     IN /\ Bill(usage)
        /\ counts' = [counts EXCEPT !.reads  = @ + (IF usage.read > 0 THEN 1 ELSE 0),
                                    !.writes = @ + (IF usage.write5m + usage.write1h > 0
                                                    THEN 1 ELSE 0)]
        /\ live' = [key \in DOMAIN live \cup touched |->
                      IF key \in touched
                      THEN Refreshed(r, CHOOSE p \in marked : p.ids = key[2])
                      ELSE live[key]]
  /\ UNCHANGED omitted

Replayed(r) ==
  \/ SkipUnstructured(r.shape)
  \/ PolicyRaises(r.shape)
  \/ NoMinimum(r.shape)
  \/ UnmodelledLifetime(r.shape)
  \/ NothingMarked(r.shape)
  \/ Serve(r)

\* The next request of the trace, with the time it was sent.
Sent(shape, gap) ==
  [shape |-> shape, sent |-> gap + (IF trace = <<>> THEN 0 ELSE Last(trace).sent)]

Next ==
  /\ Len(trace) < MaxRequests
  /\ \E shape \in Shapes, gap \in Gaps :
       LET r == Sent(shape, gap)
       IN Replayed(r) /\ trace' = Append(trace, r)
  /\ UNCHANGED arm

Spec == Init /\ [][Next]_vars

-----------------------------------------------------------------------------
(* What the replay must guarantee. *)

\* Requests, entries and usages have the shape the code gives them; in particular
\* no count of tokens is ever negative.
TypeOK ==
  /\ arm \in Arms
  /\ trace \in Seq([shape : Shapes, sent : Nat])
  /\ \A key \in DOMAIN live : live[key].from \in Nat /\ live[key].until \in Nat
  /\ usages \in Seq([uncached : Nat, read : Nat, write5m : Nat, write1h : Nat])
  /\ priced \in Seq(DOMAIN trace)
  /\ \A reason \in DOMAIN omitted : omitted[reason] \subseteq DOMAIN trace
  /\ counts \in [reads : Nat, writes : Nat, cold : Nat]

\* The request that the n-th usage is priced as.
Billed(n) == trace[priced[n]]

\* simulate, spend: a usage is priced with the model of the request it belongs
\* to, so usages and priced run in step; every request with structure is billed
\* once, each of its tokens under one heading; and every request is a hit, a
\* write or cold unless a reason for leaving it out is on record.
EveryTokenBilledOnce ==
  /\ Len(usages) = Len(priced)
  /\ \A n \in DOMAIN priced :
       LET u == usages[n]
       IN u.uncached + u.read + u.write5m + u.write1h = Tokens(Billed(n).shape.segs)
  /\ \A k \in DOMAIN trace :
       Cardinality({n \in DOMAIN priced : priced[n] = k})
         = (IF trace[k].shape.segs = <<>> THEN 0 ELSE 1)
  /\ Cardinality({n \in DOMAIN usages :
                    usages[n].read + usages[n].write5m + usages[n].write1h > 0})
       + counts.cold + Cardinality(UNION Range(omitted)) = Len(trace)

Hits == {n \in DOMAIN usages : usages[n].read > 0}

\* The prefix that the n-th usage reads.
ReadPrefix(n) ==
  LET ids == WireIds[arm][Billed(n).shape]
  IN Prefix(ids, CHOOSE m \in DOMAIN ids : Tokens(Prefix(ids, m)) = usages[n].read)

\* The requests before the n-th billed one, in its scope, that marked the prefix.
Marking(n, ids) ==
  {i \in 1 .. priced[n] - 1 :
     /\ trace[i].shape.scope = Billed(n).shape.scope
     /\ Caches(trace[i].shape)
     /\ \E p \in ToSet(Entries[arm][trace[i].shape]) : p.ids = ids}

\* When the entry for the prefix ends if request i is the last to mark it.
EndAfter(i, ids) ==
  trace[i].sent + Life((CHOOSE p \in ToSet(Entries[arm][trace[i].shape]) : p.ids = ids).ttl)

\* Request i wrote the entry for the prefix in time for the n-th billed one, and
\* each request since that marked the prefix did so before the entry ended.
Kept(i, n, ids) ==
  LET marking == Marking(n, ids)
  IN /\ i \in marking
     /\ VisibleAt(trace[i]) <= Billed(n).sent
     /\ \A t \in {j \in marking : j > i} \cup {priced[n]} :
          trace[t].sent < EndAfter(Max({j \in marking : j < t}), ids)

\* simulate, "this cannot fabricate a hit": a read is of a prefix that some
\* earlier request of the same tenant, surface and model marked, whose response
\* had begun, and whose entry has not ended since.
HitsWereWritten ==
  \A n \in Hits : \E i \in 1 .. priced[n] - 1 : Kept(i, n, ReadPrefix(n))

\* simulate, "a warm prefix ... missed and wrote again -- fabricating cache writes":
\* a request that reads less than a prefix some breakpoint of it reaches was
\* routed away, or the entry has ended, or its response is still to come, or
\* another request marked the prefix before that response (see
\* MarkedAgainNotHidden).
WarmPrefixesAreRead ==
  \A n \in {h \in DOMAIN usages : Caches(Billed(h).shape)} :
    \A m \in DOMAIN WireIds[arm][Billed(n).shape] :
      LET ids == Prefix(WireIds[arm][Billed(n).shape], m)
      IN /\ Reachable(Billed(n).shape, m)
         /\ \E i \in 1 .. priced[n] - 1 :
              /\ Kept(i, n, ids)
              /\ \A j \in Marking(n, ids) : j > i => VisibleAt(trace[i]) <= trace[j].sent
         => \/ usages[n].read >= Tokens(ids)
            \/ arm.missInN > 0 /\ (priced[n] - 1) % arm.missInN = arm.missInN - 1

\* span_is_reusable_by, "all three conditions from the simulator's read path":
\* what the replay reads, in the order of the trace, is a span that the analyzer
\* would also call reusable.
HitsAreReusable ==
  arm.order = <<>> => \A n \in Hits :
    LET reader == Billed(n).shape
        window == IF arm.lookback THEN Lookback[reader.scope] ELSE Unknown
    IN \E i \in 1 .. priced[n] - 1 :
         /\ trace[i].shape.scope = reader.scope
         /\ \E span \in ToSet(MarkedSpans(trace[i].shape)) :
              /\ span.ids = ReadPrefix(n)
              /\ SpanIsReusableBy(span, MarkedSpans(reader), window, Minimum[reader.scope])

\* simulate, "Only a genuinely new or expired entry starts invisible": marking a
\* prefix again does not move the time from which its entry can be read.
MarkedAgainNotHidden ==
  [][\A key \in DOMAIN live :
       Last(trace').sent < live[key].until => live'[key].from <= live[key].from]_vars

=============================================================================
