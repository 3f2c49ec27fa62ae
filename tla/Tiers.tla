--------------------------------- MODULE Tiers ---------------------------------
(***************************************************************************)
(* The allocator of cache tiers (tiers.py): where the markers of a prompt go *)
(* and how long each entry is asked to live, for one prompt, the rates at    *)
(* which its segments change, and the gaps between requests. A plan is a     *)
(* function from marked positions to lifetimes.                              *)
(*                                                                          *)
(* Numbers are whole: rates of change are in parts of Whole, multipliers in  *)
(* percent, and every cost is summed over the gaps and over the parts that   *)
(* Certain stands for, so that no division is left.                          *)
(***************************************************************************)
EXTENDS Replay

CONSTANTS
  Questions,      \* what allocate is called with
  WriteLatency,   \* WRITE_LATENCY_SECONDS
  Whole,          \* a segment that changes with every request
  MixedMax,       \* MIXED_EXHAUSTIVE_MAX_SEGMENTS
  Takes,          \* scopes whose surface takes explicit breakpoints
  Breakpoint,     \* scopes whose control_model is explicit_breakpoint
  Budget,         \* per scope, max_breakpoints
  Lifetimes,      \* per scope, supported_ttls that have a write multiplier
  Premium,        \* per scope and lifetime, that multiplier
  ReadRate,       \* per scope, the read multiplier
  Ordering        \* per scope, ttl_ordering_constraint; Unknown if not recorded

Question ==
  [scope : Scopes, ids : Seq(Segments), change : Seq(0 .. Whole), gaps : Seq(Nat),
   budget : Nat \cup {Unknown}, forMutation : BOOLEAN]

ASSUME TiersAssumption ==
  /\ WriteLatency \in Nat /\ Whole \in Nat \ {0} /\ MixedMax \in Nat
  /\ Takes \subseteq Scopes /\ Breakpoint \subseteq Scopes
  /\ Budget \in [Scopes -> Nat \cup {Unknown}]
  /\ ReadRate \in [Scopes -> Nat]
  /\ \A s \in Scopes : /\ Lifetimes[s] \in Seq(DOMAIN Lifetime)
                       /\ \A ttl \in Range(Lifetimes[s]) : Premium[s][ttl] \in Nat
  /\ \A q \in Questions : q \in Question /\ Len(q.change) = Len(q.ids)

VARIABLES
  asked,    \* what allocate was asked last
  answer    \* what it answered

asking == <<asked, answer>>

-----------------------------------------------------------------------------
(* What a plan is expected to cost. *)

Positions(q) == DOMAIN q.ids

\* The tokens up to each position. (A constant, so that TLC computes it once.)
CumOf ==
  [ids \in {q.ids : q \in Questions} \cup {s.segs : s \in Shapes} |->
     [p \in 0 .. Len(ids) |-> Tokens(Prefix(ids, p))]]
Cum(q) == CumOf[q.ids]

\* Without gaps nothing is ever alive, as after a gap that outlasts every entry.
ObservedGaps(q) == IF q.gaps = <<>> THEN <<Unknown>> ELSE q.gaps

\* Mutation: an entry can be read by a request that comes at the same time.
AliveAtOnce(gap, ttl) == gap # Unknown /\ gap < Lifetime[ttl]

Alive(gap, ttl) == gap # Unknown /\ WriteLatency <= gap /\ gap < Lifetime[ttl]

\* In how many parts of Certain nothing changes up to a position.
SurviveOf ==
  [change \in {q.change : q \in Questions} \cup {[p \in DOMAIN s.segs |-> 0] : s \in Shapes} |->
     [p \in 0 .. Len(change) |->
        LET kept[i \in 0 .. Len(change)] ==
              IF i = 0 THEN 1
              ELSE kept[i - 1] * (IF i <= p THEN Whole - change[i] ELSE Whole)
        IN kept[Len(change)]]]
Survive(q) == SurviveOf[q.change]
Certain(q) == Survive(q)[0]

Scale(q) == Len(ObservedGaps(q)) * Certain(q)
UncachedCost(q) == Cum(q)[Len(q.ids)] * 100 * Scale(q)

\* The tokens that a marker closes off: those since the marker before it.
Block(q, cuts, p) == Cum(q)[p] - Cum(q)[Max({0} \cup {c \in cuts : c < p})]
TailCost(q, cuts) == (Cum(q)[Len(q.ids)] - Cum(q)[Max({0} \cup cuts)]) * 100 * Scale(q)

\* Mutation: a block is read out of its own entry, or not at all.
SurvivesOwn(q, plan, p, gap) == IF Alive(gap, plan[p]) THEN Survive(q)[p] ELSE 0

\* A block is read out of the shallowest entry that holds it and is alive.
Survives(q, plan, p, gap) ==
  LET holding == {j \in DOMAIN plan : j >= p /\ Alive(gap, plan[j])}
  IN IF holding = {} THEN 0 ELSE Survive(q)[Min(holding)]

\* What a block is billed after a gap, over the parts of Certain.
BlockBill(q, plan, gap, p) ==
  LET hit == Survives(q, plan, p, gap)
  IN Block(q, DOMAIN plan, p)
       * (hit * ReadRate[q.scope] + (Certain(q) - hit) * Premium[q.scope][plan[p]])

ExpectedCost(q, plan) ==
  SumFunction([k \in DOMAIN ObservedGaps(q) |->
                 SumFunction([p \in DOMAIN plan |-> BlockBill(q, plan, ObservedGaps(q)[k], p)])])
    + TailCost(q, DOMAIN plan)

-----------------------------------------------------------------------------
(* The plans that allocate scores. *)

MarkerBudget(q) ==
  IF q.budget = Unknown THEN Budget[q.scope] ELSE Min({q.budget, Budget[q.scope]})

Feasible(q) == {p \in Positions(q) : Cum(q)[p] >= Minimum[q.scope]}

Cheapest(candidates) == CHOOSE c \in candidates : \A d \in candidates : c.cost <= d.cost

\* With one lifetime a block depends on no marker but its own.
BlockCost(q, ttl, from, p) ==
  LET hits == Survive(q)[p] * Cardinality({k \in DOMAIN ObservedGaps(q) :
                                             Alive(ObservedGaps(q)[k], ttl)})
  IN (Cum(q)[p] - Cum(q)[from])
       * (hits * ReadRate[q.scope] + (Scale(q) - hits) * Premium[q.scope][ttl])

\* The best cuts of one marker, and of one more than those of `best`, by the deepest.
OneMarker(q, ttl) ==
  [p \in Feasible(q) |-> [cost |-> BlockCost(q, ttl, 0, p), cuts |-> {p}]]

OneMore(q, ttl, best) ==
  LET before(p) == {c \in DOMAIN best : c < p}
  IN [p \in {f \in Feasible(q) : before(f) # {}} |->
        Cheapest({[cost |-> best[c].cost + BlockCost(q, ttl, c, p),
                   cuts |-> best[c].cuts \cup {p}] : c \in before(p)})]

\* _search: the best cuts for one lifetime, of any number up to the budget.
Search(q, ttl) ==
  LET best[j \in 1 .. MarkerBudget(q)] ==
        IF j = 1 THEN OneMarker(q, ttl) ELSE OneMore(q, ttl, best[j - 1])
  IN Cheapest(UNION {{[cost |-> best[j][p].cost + TailCost(q, best[j][p].cuts),
                       plan |-> [c \in best[j][p].cuts |-> ttl]] : p \in DOMAIN best[j]} :
                     j \in 1 .. MarkerBudget(q)})

\* The uniform plans, in the order in which the surface lists its lifetimes.
Searches(q) ==
  IF Feasible(q) = {} THEN <<>>
  ELSE [k \in DOMAIN Lifetimes[q.scope] |-> Search(q, Lifetimes[q.scope][k])]

\* Mutation: every assignment of lifetimes is tried, as it once was.
EveryAssignment(q, plan) == TRUE

\* The orders of lifetimes that the surface is recorded to accept.
MayBeAssigned(q, plan) ==
  \/ Cardinality(Range(plan)) = 1
  \/ /\ Ordering[q.scope] # Unknown
     /\ Ordering[q.scope] = "longest_first" =>
          \A c, d \in DOMAIN plan : c < d => Lifetime[plan[d]] <= Lifetime[plan[c]]

\* Every placement of markers up to the budget.
Placements(q) ==
  UNION {{plan \in [cuts -> Range(Lifetimes[q.scope])] : MayBeAssigned(q, plan)} :
         cuts \in {c \in SUBSET Positions(q) : /\ c # {}
                                               /\ Cardinality(c) <= MarkerBudget(q)
                                               /\ Min(c) \in Feasible(q)}}

MixedSearchRuns(q) ==
  Len(q.ids) <= MixedMax /\ Len(Lifetimes[q.scope]) >= 2 /\ q.gaps # <<>>

\* _mixed_exhaustive: the best placement, if it beats sending the prompt uncached.
MixedExhaustive(q) ==
  LET scored == {[cost |-> ExpectedCost(q, plan), plan |-> plan] : plan \in Placements(q)}
  IN IF ~ MixedSearchRuns(q) \/ scored = {} THEN {}
     ELSE {c \in {Cheapest(scored)} : c.cost < UncachedCost(q)}

Longest(q) == CHOOSE t \in Range(Lifetimes[q.scope]) :
                \A u \in Range(Lifetimes[q.scope]) : Lifetime[u] <= Lifetime[t]
Shortest(q) == CHOOSE t \in Range(Lifetimes[q.scope]) :
                 \A u \in Range(Lifetimes[q.scope]) : Lifetime[t] <= Lifetime[u]

\* _mixed_variants: the cuts of a uniform plan, the last one for the short lifetime
\* and the others for the long one. All variants carry one label, and a label is
\* scored once: only the first plan that can be varied is.
MixedVariant(q, arms, mixed) ==
  LET varied == {k \in DOMAIN arms : Cardinality(DOMAIN arms[k].plan) >= 2}
      cuts   == DOMAIN arms[Min(varied)].plan
      plan   == [c \in cuts |-> IF c = Max(cuts) THEN Shortest(q) ELSE Longest(q)]
      scored == {c \in mixed :
                   /\ Cardinality(DOMAIN c.plan) = 2
                   /\ c.plan[Min(DOMAIN c.plan)] = Longest(q)
                   /\ c.plan[Max(DOMAIN c.plan)] = Shortest(q)}
  IN IF Len(Lifetimes[q.scope]) < 2 \/ varied = {} \/ scored # {} THEN {}
     ELSE {[cost |-> ExpectedCost(q, plan), plan |-> plan]}

NoMarkers(q) == [cost |-> UncachedCost(q), plan |-> <<>>]

BestOf(q, arms, mixed) ==
  Cheapest({NoMarkers(q)} \cup Range(arms) \cup mixed \cup MixedVariant(q, arms, mixed))

Allocation(q) ==
  IF MarkerBudget(q) = 0 \/ q.ids = <<>> THEN NoMarkers(q)
  ELSE BestOf(q, Searches(q), MixedExhaustive(q))

-----------------------------------------------------------------------------
\* _surface refuses what takes no markers, or for which nothing is recorded.
SurfaceKnown(scope) ==
  scope \in Takes /\ Budget[scope] \notin {0, Unknown} /\ Lifetimes[scope] # <<>>

\* A prompt without segments is answered before the minimum is looked up.
Supported(q) ==
  /\ SurfaceKnown(q.scope)
  /\ \/ q.ids = <<>>
     \/ Minimum[q.scope] # Unknown /\ (q.forMutation => q.scope \in Breakpoint)

AllocatorInit == asked = Unknown /\ answer = Unknown

Allocate(q) ==
  /\ Supported(q)
  /\ asked' = q
  /\ answer' = Allocation(q)

Unsupported(q) ==
  /\ ~ Supported(q)
  /\ asked' = q
  /\ answer' = Unknown

AllocatorNext == asked = Unknown /\ \E q \in Questions : Allocate(q) \/ Unsupported(q)

-----------------------------------------------------------------------------
(* What the allocator must guarantee. *)

Answered == answer # Unknown

\* What requests would be billed on average under a plan: for every gap and every
\* choice of the segments that change, the longest entry that is alive and has not
\* changed is read, and every block after it is written again.
AverageBill(q, plan) ==
  LET outcomes == {c \in SUBSET Positions(q) :
                     /\ \A p \in c : q.change[p] > 0
                     /\ \A p \in Positions(q) \ c : q.change[p] < Whole}
      weight(changed) ==
        LET upTo[p \in 0 .. Len(q.ids)] ==
              IF p = 0 THEN 1
              ELSE upTo[p - 1] * (IF p \in changed THEN q.change[p] ELSE Whole - q.change[p])
        IN upTo[Len(q.ids)]
      bill(gap, changed) ==
        LET read == Max({0} \cup {c \in DOMAIN plan : /\ Alive(gap, plan[c])
                                                      /\ changed \cap (1 .. c) = {}})
        IN Cum(q)[read] * ReadRate[q.scope]
             + MapThenSumSet(LAMBDA c : Block(q, DOMAIN plan, c) * Premium[q.scope][plan[c]],
                             {c \in DOMAIN plan : c > read})
  IN MapThenSumSet(LAMBDA k :
       MapThenSumSet(LAMBDA changed : weight(changed) * bill(ObservedGaps(q)[k], changed),
                     outcomes),
       DOMAIN ObservedGaps(q)) + TailCost(q, DOMAIN plan)

\* allocate, "best marker placement for one prompt shape under the surface's
\* budget": the cost it names is what requests would be billed, and no plan that
\* the surface accepts comes cheaper: none of one lifetime, and none at all where
\* the exhaustive search runs.
PlanIsCheapest ==
  Answered =>
    /\ answer.cost = AverageBill(asked, answer.plan)
    /\ answer.cost <= UncachedCost(asked)
    /\ \A plan \in Placements(asked) :
         Cardinality(Range(plan)) = 1 \/ MixedSearchRuns(asked) =>
           answer.cost <= AverageBill(asked, plan)

\* allocate, _ttl_assignments, _mixed_variants: what goes onto a prompt is within the
\* caller's cap and the surface's, every marker can cache, and nothing is written onto
\* a live request of a surface that reaches its cache in another way. Unless the
\* surface is recorded to take lifetimes in any order, none stands behind a shorter
\* one: not where longest first is recorded, and not where nothing is.
PlanMayBeSent ==
  Answered =>
    /\ Cardinality(DOMAIN answer.plan) <= MarkerBudget(asked)
    /\ \A c \in DOMAIN answer.plan : Cum(asked)[c] >= Minimum[asked.scope]
    /\ asked.forMutation /\ answer.plan # <<>> => asked.scope \in Breakpoint
    /\ Ordering[asked.scope] \in {"longest_first", Unknown} =>
         \A c, d \in DOMAIN answer.plan :
           c < d => Lifetime[answer.plan[c]] >= Lifetime[answer.plan[d]]

\* _ttl_assignments, where no order is recorded: "only uniform assignments -- valid
\* under every ordering rule there is -- survive". They do in its own search, but
\* _mixed_variants never looks at the record: no run claims this of the answer.
UnrecordedOrderIsUniform ==
  Answered /\ Ordering[asked.scope] = Unknown => Cardinality(Range(answer.plan)) <= 1

\* The replay that the estimate can be compared with: one prompt over and over,
\* without the haircuts of an arm, writes readable after WriteLatency.
OnePrompt ==
  /\ Len(trace) >= 2
  /\ arm = [haircut |-> 0, missInN |-> 0, latency |-> WriteLatency, lookback |-> FALSE,
            order |-> <<>>]
  /\ \A k \in DOMAIN trace : trace[k].shape = trace[1].shape
  /\ trace[1].shape.firstAfter = Unknown
  /\ Caches(trace[1].shape)
  /\ trace[1].shape.scope \in Takes

\* The prompt as it would be put to the allocator, and its markers as a plan.
AsQuestion ==
  [scope |-> trace[1].shape.scope, ids |-> trace[1].shape.segs,
   change |-> [p \in DOMAIN trace[1].shape.segs |-> 0],
   gaps |-> [k \in 1 .. Len(trace) - 1 |-> trace[k + 1].sent - trace[k].sent],
   budget |-> Unknown, forMutation |-> FALSE]

AsPlan ==
  LET caching == {p \in DOMAIN trace[1].shape.marks : Cum(AsQuestion)[p] >= Minimum[AsQuestion.scope]}
  IN [p \in caching |-> trace[1].shape.marks[p]]

BilledCost ==
  MapThenSumSet(LAMBDA n :
    usages[n].uncached * 100 + usages[n].read * ReadRate[AsQuestion.scope]
      + usages[n].write5m * Premium[AsQuestion.scope]["5m"]
      + usages[n].write1h * Premium[AsQuestion.scope]["1h"], DOMAIN usages \ {1})

\* survival, "matches the pessimistic assumption the simulator replays under": the
\* replay of a prompt that never changes bills what the allocator expected of it,
\* from the second request on; less only where a request came too soon after one
\* that had found the entry, which the allocator counts as a miss.
ReplayBillsTheEstimate ==
  OnePrompt =>
    LET expected == ExpectedCost(AsQuestion, AsPlan) \div Certain(AsQuestion)
    IN /\ BilledCost <= expected
       /\ (\A k \in DOMAIN AsQuestion.gaps : AsQuestion.gaps[k] >= WriteLatency)
            => BilledCost = expected

=============================================================================
