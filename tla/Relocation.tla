------------------------------- MODULE Relocation -------------------------------
(***************************************************************************)
(* Relocation (relocate.py): what stops the stable head of a prompt is moved *)
(* down, one segment at a time, for a whole group of requests at once; and   *)
(* where the one marker of allocator-lite and relocation-lite then goes      *)
(* (allocate.py, _place).                                                    *)
(*                                                                          *)
(* A request of a group is its scope, its reuse chain, and its segments by   *)
(* index; an index it lacks is a segment it does not carry.                  *)
(***************************************************************************)
EXTENDS Tiers

CONSTANTS
  Groups,      \* the groups of requests propose is called with
  MaxIndex,    \* no request has more segments than this, and one
  Preserves,   \* scopes with a recorded authority-preserving relocation
  Applied      \* DEFAULT_APPLIED_RISKS

Section == [role : {"tools", "system", "user"}, label : STRING, id : Segments]

ASSUME RelocationAssumption ==
  /\ Preserves \subseteq Scopes
  /\ Applied \subseteq {"low", "medium", "high"}
  /\ MaxIndex \in Nat
  /\ \A g \in Groups :
       /\ Len(g) \in Nat /\ DOMAIN g = 1 .. Len(g)
       /\ \A k \in DOMAIN g :
            /\ g[k].scope \in Scopes
            /\ DOMAIN g[k].segs \subseteq 0 .. MaxIndex
            /\ \A i \in DOMAIN g[k].segs : g[k].segs[i] \in Section

VARIABLES
  group,      \* the requests, in the order they were sent
  newOrder,      \* the emission order so far
  moves,      \* the moves proposed so far
  tried,      \* the segments that were the first volatile one at some time
  proposing,  \* the loop of propose is not at its end
  placed      \* the plan of every request, once they are made

relocating == <<group, newOrder, moves, tried, proposing, placed>>

-----------------------------------------------------------------------------
(* What the group shows. *)

Indices(g) == UNION {DOMAIN g[k].segs : k \in DOMAIN g}
Authored(g) == Among([n \in 1 .. MaxIndex + 1 |-> n - 1], Indices(g))

InChain(chain) == {k \in DOMAIN group : group[k].chain = chain}

Value(k, i) == IF i \in DOMAIN group[k].segs THEN group[k].segs[i].id ELSE Unknown

\* Mutation: a segment that is left out now and then counts as unchanged.
VolatileWhenPresent(chain) ==
  {i \in Indices(group) : \E k, l \in InChain(chain) :
     /\ i \in DOMAIN group[k].segs /\ i \in DOMAIN group[l].segs
     /\ Value(k, i) # Value(l, i)}

\* observed_volatility_by_chain is above one: the position held two things, one of
\* which may be nothing.
VolatileIn(chain) ==
  {i \in Indices(group) : \E k, l \in InChain(chain) : Value(k, i) # Value(l, i)}

\* observed_volatility, the worst chain: one order has to do for all of them.
Volatile == UNION {VolatileIn(group[k].chain) : k \in DOMAIN group}

\* The segment an index stands for: that of the last request that has it.
SegmentAt(i) == group[Max({k \in DOMAIN group : i \in DOMAIN group[k].segs})].segs[i]

Role(i) == SegmentAt(i).role

MixesShapes(g) ==
  \E k, l \in DOMAIN g : \E i \in DOMAIN g[k].segs \cap DOMAIN g[l].segs :
    \/ g[k].segs[i].role # g[l].segs[i].role
    \/ g[k].segs[i].label # g[l].segs[i].label

\* observed_reordering: sent on both sides of another segment. As segments are read
\* in the order of their index, there is never one.
Reordered ==
  {i \in Indices(group) : \E j \in Indices(group) \ {i} : \E k, l \in DOMAIN group :
     LET sent(n) == SetToSortSeq(DOMAIN group[n].segs, <)
         before(n) == IndexFirstSubSeq(<<i>>, sent(n)) < IndexFirstSubSeq(<<j>>, sent(n))
     IN /\ {i, j} \subseteq DOMAIN group[k].segs \cap DOMAIN group[l].segs
        /\ before(k) # before(l)}

\* The leading run of segments that are not volatile.
StableRun(o, volatile) ==
  LET blocked == {p \in DOMAIN o : o[p] \in volatile}
  IN IF blocked = {} THEN o ELSE SubSeq(o, 1, Min(blocked) - 1)

StablePrefixTokens(o) ==
  LET run == StableRun(o, Volatile) IN Tokens([p \in DOMAIN run |-> SegmentAt(run[p]).id])

\* _mechanism_for_all
MechanismForAll == \A k \in DOMAIN group : group[k].scope \in Preserves

-----------------------------------------------------------------------------
(* Where a segment should go. *)

Rest(o, i) == Among(o, ToSet(o) \ {i})

\* Mutation: the end of the authority block, tools and system in one.
WithinAuthority(o, i) ==
  LET rest  == Rest(o, i)
      block == {p \in DOMAIN rest : Role(rest[p]) \in {"tools", "system"}}
  IN IF Role(i) = "user" \/ block = {} THEN o
     ELSE SubSeq(rest, 1, Max(block)) \o <<i>> \o SubSeq(rest, Max(block) + 1, Len(rest))

\* The last place in the segment's own field of the request. A transcript is not
\* reordered.
Within(o, i) ==
  LET rest  == Rest(o, i)
      block == {p \in DOMAIN rest : Role(rest[p]) = Role(i)}
  IN IF Role(i) = "user" \/ block = {} THEN o
     ELSE SubSeq(rest, 1, Max(block)) \o <<i>> \o SubSeq(rest, Max(block) + 1, Len(rest))

Across(o, i) == Append(Rest(o, i), i)

Gain(new, o) == StablePrefixTokens(new) - StablePrefixTokens(o)

\* _classify: the least invasive move that unlocks anything, if there is one.
Classify(i) ==
  LET within == Within(newOrder, i)
      across == Across(newOrder, i)
      move(new, risk) == {[index |-> i, unlocked |-> Gain(new, newOrder), risk |-> risk, order |-> new]}
  IN IF Gain(within, newOrder) <= 0 /\ Gain(across, newOrder) <= 0 THEN {}
     ELSE IF Gain(within, newOrder) > 0
     THEN move(within, IF i \in Reordered THEN "low" ELSE "medium")
     ELSE CASE Role(i) = "tools" -> move(across, "blocked")
            [] Role(i) = "system" -> move(across, IF MechanismForAll THEN "medium" ELSE "blocked")
            [] Role(i) = "user" -> move(across, "high")

\* The first volatile segment: nothing behind it can lengthen the stable head.
Blocker(o) ==
  LET blocked == {p \in DOMAIN o : o[p] \in Volatile}
  IN IF blocked = {} THEN {} ELSE {o[Min(blocked)]}

-----------------------------------------------------------------------------
ProposeInit ==
  /\ group \in Groups
  /\ newOrder = Authored(group)
  /\ moves = <<>> /\ tried = {} /\ proposing = TRUE /\ placed = <<>>

\* One order is made for the whole group: it must agree on what an index is.
RefuseMixed ==
  /\ proposing /\ MixesShapes(group)
  /\ moves' = <<[index |-> Unknown, unlocked |-> 0, risk |-> "blocked", order |-> <<>>]>>
  /\ proposing' = FALSE
  /\ UNCHANGED <<group, newOrder, tried, placed>>

\* A move that may be applied is, and the next blocker is looked for.
Propose(i) ==
  /\ proposing /\ ~ MixesShapes(group)
  /\ i \in Blocker(newOrder) \ tried
  /\ tried' = tried \cup {i}
  /\ \E m \in Classify(i) :
       /\ moves' = Append(moves, m)
       /\ proposing' = (m.risk \in Applied)
       /\ newOrder' = IF m.risk \in Applied THEN m.order ELSE newOrder
  /\ UNCHANGED <<group, placed>>

\* Nothing is volatile, or nothing more can be recovered.
Settle ==
  /\ proposing /\ ~ MixesShapes(group)
  /\ \A i \in Blocker(newOrder) \ tried : Classify(i) = {}
  /\ tried' = tried \cup Blocker(newOrder)
  /\ proposing' = FALSE
  /\ UNCHANGED <<group, newOrder, moves, placed>>

-----------------------------------------------------------------------------
(* _place: one marker, at the deepest boundary that is stable in the chain.    *)

\* Plan.emission: what a request carries, in the order.
EmissionOf(k, o) == SelectSeq(o, LAMBDA i : i \in DOMAIN group[k].segs)

Ids(k, indices) == [p \in DOMAIN indices |-> group[k].segs[indices[p]].id]

\* What the marker of a request would hold, were no minimum asked.
Held(k, o) == Ids(k, StableRun(EmissionOf(k, o), VolatileIn(group[k].chain)))

Places(k, o) ==
  /\ Held(k, o) # <<>>
  /\ Minimum[group[k].scope] # Unknown
  /\ Tokens(Held(k, o)) >= Minimum[group[k].scope]

\* The lifetime follows the cadence, as far as the surface offers it.
PlacedTtl(k, cadence) ==
  LET offered == Lifetimes[group[k].scope]
      inBand  == /\ cadence # Unknown
                 /\ Lifetime["5m"] < cadence /\ cadence < Lifetime["1h"]
  IN IF inBand /\ Contains(offered, "1h") THEN "1h"
     ELSE IF offered = <<>> \/ Contains(offered, "5m") THEN "5m" ELSE offered[1]

\* relocation_lite, for every request of the group; a plan holds a number of
\* segments for a time.
PlaceMarkers(cadence) ==
  /\ ~ proposing /\ placed = <<>>
  /\ placed' = [k \in DOMAIN group |->
                  IF Places(k, newOrder)
                  THEN [holds |-> Len(Held(k, newOrder)), ttl |-> PlacedTtl(k, cadence)]
                  ELSE [holds |-> 0, ttl |-> Unknown]]
  /\ UNCHANGED <<group, newOrder, moves, tried, proposing>>

RelocationNext ==
  \/ RefuseMixed
  \/ \E i \in Indices(group) : Propose(i)
  \/ Settle
  \/ \E cadence \in Gaps \cup {Unknown} : PlaceMarkers(cadence)

RelocationSpec == ProposeInit /\ [][RelocationNext]_relocating

-----------------------------------------------------------------------------
(* What relocation must guarantee. *)

\* What may be put ahead of section j though it was sent behind it: j is no turn, and
\* i is of the same field, or every model and surface of the group has a mechanism
\* for the system, or j's field reached behind i already. A field is what _container
\* makes of a role, so a message the system sent between the turns counts as part
\* of the system field.
MayPass(i, j) ==
  /\ Role(j) # "user"
  /\ \/ Role(i) = Role(j)
     \/ Role(j) = "system" /\ MechanismForAll
     \/ \E n \in Indices(group) : i < n /\ Role(n) = Role(j)

\* relocate.py, "it proposes and never applies", "reordering conversation history" is
\* left alone, and "demotes system content to user authority and needs a documented
\* mechanism": whatever the moves add up to, no section is lost, no turn is put behind
\* anything, no section leaves what goes by the name of its field but by a mechanism,
\* and a group that does not agree on its sections is left as it was.
RelocationIsLegal ==
  /\ ToSet(newOrder) = Indices(group) /\ Len(newOrder) = Cardinality(Indices(group))
  /\ MixesShapes(group) => newOrder = Authored(group)
  /\ ~ MixesShapes(group) =>
       \A p, q \in DOMAIN newOrder :
         p < q /\ newOrder[q] < newOrder[p] => MayPass(newOrder[p], newOrder[q])

\* relocate.py, of a move "out of its own authority block": system content that was
\* ahead of a turn is behind it only if everything has a mechanism for that. It is
\* so of prompts whose system content is all in the system field. Where a message
\* between the turns has the role of the system it is not, as _container goes by the
\* role alone: no run claims this.
AuthorityIsKept ==
  ~ MixesShapes(group) =>
    \A p, q \in DOMAIN newOrder :
      /\ p < q /\ newOrder[q] < newOrder[p]
      /\ Role(newOrder[p]) = "user" /\ Role(newOrder[q]) = "system"
      => MechanismForAll

AppliedMoves == SelectSeq(moves, LAMBDA m : m.risk \in Applied)

\* A request of the group that carries everything its chain ever does.
Complete(k) == \A l \in InChain(group[k].chain) : DOMAIN group[l].segs \subseteq DOMAIN group[k].segs

\* The head of what request k sends that its marker holds.
Marked(k) == SubSeq(Ids(k, EmissionOf(k, newOrder)), 1, placed[k].holds)

\* stable_prefix_tokens, "a move's reported gain is exactly what the simulator will
\* price": where the group is one chain, the marker of a request that carries
\* everything holds as much more under the new order as the moves promised together.
\* And in every chain, what it holds is at the head of every request of the chain,
\* those that leave something out included.
GainIsWhatIsMarked ==
  placed # <<>> /\ ~ MixesShapes(group) =>
    \A k \in DOMAIN group : Complete(k) /\ placed[k].holds > 0 =>
      /\ InChain(group[k].chain) = DOMAIN group
           /\ (\A i \in Indices(group) : Value(k, i) = SegmentAt(i).id)
         => Tokens(Marked(k)) =
              Tokens(Held(k, Authored(group)))
                + MapThenSumSet(LAMBDA n : AppliedMoves[n].unlocked, DOMAIN AppliedMoves)
      /\ \A l \in InChain(group[k].chain) :
           IsPrefix(Marked(k), Ids(l, EmissionOf(l, newOrder)))

=================================================================================
