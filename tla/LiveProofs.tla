------------------------------- MODULE LiveProofs -------------------------------
(* Proofs about the live plugin and its monitor: whatever requests and responses *)
(* come, in whatever order, and whatever the tables forget, markers are placed   *)
(* on content that was seen, decisions wait for their responses, scopes seen     *)
(* recently are kept, an observation is what its two halves make, a fan-out is   *)
(* raised when requests write what they could not read yet, and the effect that  *)
(* is credited is the one the provider measured.                                 *)
EXTENDS LivePlugin, FiniteSetTheorems, WellFoundedInduction, TLAPS

--------------------
(* Sequences of anything. *)

Sequence(s) == Len(s) \in Nat /\ s = [i \in 1 .. Len(s) |-> s[i]]

LEMMA EmptyIs == Sequence(<<>>) /\ Len(<<>>) = 0 /\ DOMAIN <<>> = {}
BY DEF Sequence

LEMMA SequenceIsSeq ==
  ASSUME NEW s, Sequence(s)
  PROVE  \E whole : s \in Seq(whole)
<1> DEFINE whole == {s[i] : i \in 1 .. Len(s)}
<1>1. s \in [1 .. Len(s) -> whole]
  BY DEF Sequence
<1>2. Len(s) \in Nat
  BY DEF Sequence
<1>3. s \in Seq(whole)
  <2> HIDE DEF whole
  <2> QED BY <1>1, <1>2
<1> QED
  BY <1>3

LEMMA SeqIsSequence ==
  ASSUME NEW whole, NEW s \in Seq(whole)
  PROVE  Sequence(s)
BY DEF Sequence

LEMMA FunctionIsSequence ==
  ASSUME NEW n \in Nat, NEW f, f = [i \in 1 .. n |-> f[i]]
  PROVE  Sequence(f) /\ Len(f) = n
<1> DEFINE whole == {f[i] : i \in 1 .. n}
<1>1. f \in [1 .. n -> whole]
  OBVIOUS
<1>2. f \in Seq(whole) /\ Len(f) = n
  <2> HIDE DEF whole
  <2> QED BY <1>1
<1> QED
  BY <1>2, SeqIsSequence

LEMMA AppendIs ==
  ASSUME NEW s, Sequence(s), NEW x
  PROVE  /\ Sequence(Append(s, x))
         /\ Len(Append(s, x)) = Len(s) + 1
         /\ \A i \in 1 .. Len(s) : Append(s, x)[i] = s[i]
         /\ Append(s, x)[Len(s) + 1] = x
<1>1. PICK whole : s \in Seq(whole)
  BY SequenceIsSeq
<1> DEFINE more == whole \cup {x}
<1>2. s \in Seq(more) /\ x \in more
  BY <1>1
<1>3. Append(s, x) \in Seq(more)
  <2> HIDE DEF more
  <2> QED BY <1>2
<1>4. Sequence(Append(s, x))
  <2> HIDE DEF more
  <2> QED BY <1>3, SeqIsSequence
<1>5. Len(Append(s, x)) = Len(s) + 1 /\ Append(s, x)[Len(s) + 1] = x
  <2> HIDE DEF more
  <2> QED BY <1>2
<1>6. \A i \in 1 .. Len(s) : Append(s, x)[i] = s[i]
  <2> HIDE DEF more
  <2> QED BY <1>2
<1> QED
  BY <1>4, <1>5, <1>6

LEMMA ConcatIs ==
  ASSUME NEW s, Sequence(s), NEW t, Sequence(t)
  PROVE  /\ Sequence(s \o t)
         /\ Len(s \o t) = Len(s) + Len(t)
         /\ \A i \in 1 .. Len(s) + Len(t) : (s \o t)[i] = IF i <= Len(s) THEN s[i] ELSE t[i - Len(s)]
<1>1. PICK first : s \in Seq(first)
  BY SequenceIsSeq
<1>2. PICK second : t \in Seq(second)
  BY SequenceIsSeq
<1> DEFINE both == first \cup second
<1>3. s \in Seq(both) /\ t \in Seq(both)
  BY <1>1, <1>2
<1>4. s \o t \in Seq(both) /\ Len(s \o t) = Len(s) + Len(t)
  <2> HIDE DEF both
  <2> QED BY <1>3
<1>5. \A i \in 1 .. Len(s) + Len(t) : (s \o t)[i] = IF i <= Len(s) THEN s[i] ELSE t[i - Len(s)]
  <2> HIDE DEF both
  <2> QED BY <1>3
<1> HIDE DEF both
<1> QED
  BY <1>4, <1>5, SeqIsSequence

LEMMA SubSeqIs ==
  ASSUME NEW s, Sequence(s), NEW m \in 1 .. Len(s) + 1, NEW n \in 0 .. Len(s), m <= n + 1
  PROVE  /\ Sequence(SubSeq(s, m, n))
         /\ Len(SubSeq(s, m, n)) = n - m + 1
         /\ \A i \in 1 .. n - m + 1 : SubSeq(s, m, n)[i] = s[m + i - 1]
<1>1. PICK whole : s \in Seq(whole)
  BY SequenceIsSeq
<1>2. SubSeq(s, m, n) \in Seq(whole) /\ Len(SubSeq(s, m, n)) = n - m + 1
  BY <1>1
<1>3. \A i \in 1 .. n - m + 1 : SubSeq(s, m, n)[i] = s[m + i - 1]
  BY <1>1
<1> QED
  BY <1>2, <1>3, SeqIsSequence

\* What a bounded queue keeps is its end.
LEMMA PushIs ==
  ASSUME NEW s, Sequence(s), NEW x, NEW cap \in Nat \ {0}
  PROVE  LET p == Push(s, x, cap) IN
         /\ Sequence(p)
         /\ Len(p) = IF Len(s) < cap THEN Len(s) + 1 ELSE cap
         /\ p[Len(p)] = x
         /\ \A k \in 1 .. Len(p) - 1 : p[k] = s[k + (Len(s) + 1 - Len(p))]
<1> DEFINE a == Append(s, x)
<1>1. /\ Sequence(a) /\ Len(a) = Len(s) + 1 /\ a[Len(s) + 1] = x
      /\ \A i \in 1 .. Len(s) : a[i] = s[i]
  BY AppendIs
<1>2. Len(s) \in Nat
  BY DEF Sequence
<1>3. Push(s, x, cap) = IF Len(a) <= cap THEN a ELSE SubSeq(a, Len(a) - cap + 1, Len(a))
  BY DEF Push, Newest
<1> HIDE DEF a
<1>4. CASE Len(a) <= cap
  BY <1>1, <1>2, <1>3, <1>4
<1>5. CASE Len(a) > cap
  <2>1. Push(s, x, cap) = SubSeq(a, Len(a) - cap + 1, Len(a))
    BY <1>1, <1>2, <1>3, <1>5
  <2>2. Len(a) - cap + 1 \in 1 .. Len(a) + 1 /\ Len(a) \in 0 .. Len(a)
    BY <1>1, <1>2, <1>5
  <2>3. /\ Sequence(Push(s, x, cap)) /\ Len(Push(s, x, cap)) = cap
        /\ \A i \in 1 .. cap : Push(s, x, cap)[i] = a[Len(a) - cap + 1 + i - 1]
    BY <1>1, <1>2, <1>5, <2>1, <2>2, SubSeqIs
  <2> QED
    BY <1>1, <1>2, <1>5, <2>3, SMTT(30)
<1> QED
  BY <1>1, <1>2, <1>4, <1>5

LEMMA NewestIs ==
  ASSUME NEW s, Sequence(s), NEW cap \in Nat \ {0}
  PROVE  Sequence(Newest(s, cap))
<1>1. Len(s) \in Nat
  BY DEF Sequence
<1>2. CASE Len(s) > cap
  BY <1>1, <1>2, SubSeqIs DEF Newest
<1> QED
  BY <1>1, <1>2 DEF Newest

--------------------
(* What the table knows of a scope: how often it was seen, and the latest        *)
(* contents of its positions. Everything else of a state may change freely.      *)

IsState(st) ==
  /\ st = [f \in DOMAIN st |-> st[f]]
  /\ "seen" \in DOMAIN st /\ "values" \in DOMAIN st

SameEvidence(new, old) == new.seen = old.seen /\ new.values = old.values

IsTable(t) ==
  /\ t = [order |-> t.order, state |-> t.state]
  /\ t.state = [s \in DOMAIN t.state |-> t.state[s]]
  /\ \A s \in DOMAIN t.state : IsState(t.state[s])

\* The same scopes, of which the same is known.
TableKept(new, old) ==
  /\ DOMAIN new.state = DOMAIN old.state
  /\ \A s \in DOMAIN old.state : SameEvidence(new.state[s], old.state[s])

\* A scope is known as before, or is new.
Carried(new, old) ==
  \A s \in DOMAIN new.state :
    \/ new.state[s] = FreshState
    \/ s \in DOMAIN old.state /\ new.state[s] = old.state[s]

LEMMA FreshIs == IsState(FreshState) /\ FreshState.seen = 0 /\ FreshState.values = <<>>
BY DEF IsState, FreshState

LEMMA RewritesKeep ==
  ASSUME NEW st, IsState(st), NEW r
  PROVE  IsState(Rewrites(st, r)) /\ SameEvidence(Rewrites(st, r), st)
<1>1. \E l, x, y : Rewrites(st, r) = [st EXCEPT !.rewrites[l] = x, !.marks[l] = y]
  BY Zenon DEF Rewrites
<1>2. PICK l, x, y : Rewrites(st, r) = [st EXCEPT !.rewrites[l] = x, !.marks[l] = y]
  BY <1>1
<1> QED
  BY <1>2 DEF IsState, SameEvidence

LEMMA GapsKeep ==
  ASSUME NEW st, IsState(st), NEW r
  PROVE  IsState(Gaps(st, r)) /\ SameEvidence(Gaps(st, r), st)
BY DEF IsState, SameEvidence, Gaps

\* A shape is counted, and every position gets an observation.
LEMMA TrackShapeIs ==
  ASSUME NEW st, IsState(st), NEW r
  PROVE  /\ IsState(TrackShape(st, r))
         /\ TrackShape(st, r).seen = st.seen + 1
         /\ TrackShape(st, r).values = Observed(st.values, r)
<1> DEFINE counted == [st EXCEPT !.seen = @ + 1, !.values = Observed(@, r)]
<1>1. IsState(counted) /\ counted.seen = st.seen + 1 /\ counted.values = Observed(st.values, r)
  BY DEF IsState
<1>2. TrackShape(st, r) = IF r.sent = Untimed THEN counted
                          ELSE Gaps(IF CanRead(r) THEN Rewrites(counted, r) ELSE counted, r)
  BY DEF TrackShape
<1> HIDE DEF counted
<1>3. \A any : IsState(any) => IsState(Gaps(any, r)) /\ SameEvidence(Gaps(any, r), any)
  BY GapsKeep
<1>4. IsState(Rewrites(counted, r)) /\ SameEvidence(Rewrites(counted, r), counted)
  BY <1>1, RewritesKeep
<1> QED
  BY <1>1, <1>2, <1>3, <1>4 DEF SameEvidence

LEMMA TrackUsageKeeps ==
  ASSUME NEW st, IsState(st), NEW r
  PROVE  IsState(TrackUsage(st, r)) /\ SameEvidence(TrackUsage(st, r), st)
BY DEF IsState, SameEvidence, TrackUsage

LEMMA TrackTurnKeeps ==
  ASSUME NEW st, IsState(st), NEW r
  PROVE  IsState(TrackTurn(st, r)) /\ SameEvidence(TrackTurn(st, r), st)
BY DEF IsState, SameEvidence, TrackTurn

LEMMA ScopeCarries ==
  ASSUME NEW t, IsTable(t), NEW scope
  PROVE  IsTable(Scope(t, scope)) /\ Carried(Scope(t, scope), t)
<1> DEFINE kept == Touch(t.order, scope, MaxScopes)
<1>1. Scope(t, scope)
        = [order |-> kept,
           state |-> [s \in ToSet(kept) |-> IF s \in DOMAIN t.state THEN t.state[s] ELSE FreshState]]
  BY DEF Scope
<1> HIDE DEF kept
<1> QED
  BY <1>1, FreshIs DEF IsTable, Carried

--------------------
(* Recursive functions. The provers cannot instantiate the induction theorems    *)
(* of the library, which take a predicate; they can instantiate one on sets.     *)

LEMMA NatSetInduction ==
  ASSUME NEW S, 0 \in S, \A n \in Nat : n \in S => n + 1 \in S
  PROVE  Nat \subseteq S
<1> DEFINE Missing == Nat \ S
<1> SUFFICES ASSUME Missing # {} PROVE FALSE
  OBVIOUS
<1>1. PICK m \in Missing : \A k \in Missing : <<k, m>> \notin OpToRel(<, Nat)
  BY NatLessThanWellFounded, WFMin
<1>2. m - 1 \in Missing
  OBVIOUS
<1>3. <<m - 1, m>> \in OpToRel(<, Nat)
  BY <1>2 DEF OpToRel
<1> QED
  BY <1>1, <1>2, <1>3

LEMMA UpToInduction ==
  ASSUME NEW bound \in Nat, NEW S, 0 \in S,
         \A n \in 0 .. bound - 1 : n \in S => n + 1 \in S
  PROVE  0 .. bound \subseteq S
<1> DEFINE Reached == {n \in Nat : n <= bound => n \in S}
<1>1. 0 \in Reached
  OBVIOUS
<1>2. ASSUME NEW n \in Nat, n \in Reached PROVE n + 1 \in Reached
  BY <1>2
<1>3. Nat \subseteq Reached
  <2> HIDE DEF Reached
  <2> QED BY <1>1, <1>2, NatSetInduction
<1> QED
  BY <1>3

\* A table in which one state has changed, but not in what it knows.
LEMMA StateChanged ==
  ASSUME NEW t, IsTable(t), NEW scope, NEW st,
         scope \in DOMAIN t.state => IsState(st) /\ SameEvidence(st, t.state[scope])
  PROVE  IsTable([t EXCEPT !.state[scope] = st]) /\ TableKept([t EXCEPT !.state[scope] = st], t)
<1> DEFINE state == [t.state EXCEPT ![scope] = st]
<1>1. [t EXCEPT !.state[scope] = st] = [order |-> t.order, state |-> state]
  BY DEF IsTable
<1>2. /\ DOMAIN state = DOMAIN t.state
      /\ state = [s \in DOMAIN state |-> state[s]]
      /\ \A s \in DOMAIN t.state : state[s] = IF s = scope THEN st ELSE t.state[s]
  BY DEF IsTable
<1> HIDE DEF state
<1> QED
  BY <1>1, <1>2 DEF IsTable, TableKept, SameEvidence

LEMMA KeptIsKept ==
  ASSUME NEW a, NEW b, NEW c, TableKept(c, b), TableKept(b, a)
  PROVE  TableKept(c, a)
BY DEF TableKept, SameEvidence

LEMMA CountUsageKeeps ==
  ASSUME NEW t, IsTable(t), NEW r, NEW usage
  PROVE  IsTable(CountUsage(t, r, usage)) /\ TableKept(CountUsage(t, r, usage), t)
<1> DEFINE first == [t EXCEPT !.state[PoolOf(r)] = TrackUsage(t.state[PoolOf(r)], r)]
           turn  == t.state[RebuildScope(r)]
           last  == [first EXCEPT !.state[RebuildScope(r)] =
                       IF r.session = NoSession THEN turn ELSE TrackTurn(turn, r)]
<1>1. IsTable(first) /\ TableKept(first, t)
  <2>1. PoolOf(r) \in DOMAIN t.state => IsState(t.state[PoolOf(r)])
    BY DEF IsTable
  <2> QED
    BY <2>1, TrackUsageKeeps, StateChanged
<1>2. IsTable(last) /\ TableKept(last, first)
  <2> HIDE DEF first
  <2>1. RebuildScope(r) \in DOMAIN first.state => IsState(turn)
    BY <1>1 DEF IsTable, TableKept
  <2>2. RebuildScope(r) \in DOMAIN first.state =>
          LET st == IF r.session = NoSession THEN turn ELSE TrackTurn(turn, r)
          IN IsState(st) /\ SameEvidence(st, first.state[RebuildScope(r)])
    BY <1>1, <2>1, TrackTurnKeeps DEF SameEvidence, TableKept
  <2> QED
    BY <1>1, <2>2, StateChanged
<1>3. CountUsage(t, r, usage) = IF usage THEN last ELSE t
  BY DEF CountUsage
<1>4. TableKept(t, t)
  BY DEF TableKept, SameEvidence
<1> HIDE DEF first, last
<1> QED
  BY <1>1, <1>2, <1>3, <1>4, KeptIsKept

LEMMA FireOneKeeps ==
  ASSUME NEW seen, IsTable(seen.table), Sequence(seen.new), NEW scope, NEW alert
  PROVE  LET after == FireOne(seen, scope, alert) IN
         IsTable(after.table) /\ TableKept(after.table, seen.table) /\ Sequence(after.new)
<1> DEFINE st == [seen.table.state[scope] EXCEPT !.firing = Push(@, alert, MaxFiring)]
           fired == [seen.table EXCEPT !.state[scope] = st]
<1>1. scope \in DOMAIN seen.table.state => IsState(st) /\ SameEvidence(st, seen.table.state[scope])
  BY DEF IsTable, IsState, SameEvidence
<1>2. IsTable(fired) /\ TableKept(fired, seen.table)
  <2> HIDE DEF st
  <2> QED BY <1>1, StateChanged
<1>3. FireOne(seen, scope, alert) = seen
        \/ FireOne(seen, scope, alert)
             = [table |-> fired, new |-> Append(seen.new, [scope |-> scope, alert |-> alert])]
  BY DEF FireOne
<1>4. TableKept(seen.table, seen.table)
  BY DEF TableKept, SameEvidence
<1> DEFINE alertsNow == Append(seen.new, [scope |-> scope, alert |-> alert])
<1>5. Sequence(alertsNow)
  BY AppendIs
<1> HIDE DEF fired, alertsNow
<1>6. CASE FireOne(seen, scope, alert) = [table |-> fired, new |-> alertsNow]
  BY <1>2, <1>5, <1>6
<1>7. CASE FireOne(seen, scope, alert) = seen
  BY <1>4, <1>7
<1> QED
  BY <1>3, <1>6, <1>7 DEF alertsNow

\* The recursive function in Fire.
IsFiring(go, seen, scope, warnings, n) ==
  go = [i \in 0 .. n |-> IF i = 0 THEN seen ELSE FireOne(go[i - 1], scope, warnings[i])]

LEMMA FiringExists ==
  ASSUME NEW seen, NEW scope, NEW warnings, NEW n \in Nat
  PROVE  \E go : IsFiring(go, seen, scope, warnings, n)
<1> DEFINE Reached == {k \in 0 .. n : \E go : IsFiring(go, seen, scope, warnings, k)}
<1>1. 0 \in Reached
  <2>1. IsFiring([i \in 0 .. 0 |-> seen], seen, scope, warnings, 0)
    BY DEF IsFiring
  <2> QED
    BY <2>1
<1>2. ASSUME NEW k \in 0 .. n - 1, k \in Reached PROVE k + 1 \in Reached
  <2>1. PICK go : IsFiring(go, seen, scope, warnings, k)
    BY <1>2
  <2> DEFINE more == [i \in 0 .. k + 1 |->
                        IF i = k + 1 THEN FireOne(go[k], scope, warnings[k + 1]) ELSE go[i]]
  <2>2. ASSUME NEW i \in 0 .. k + 1
        PROVE  more[i] = IF i = 0 THEN seen ELSE FireOne(more[i - 1], scope, warnings[i])
    <3>1. CASE i = k + 1
      BY <3>1
    <3>2. CASE i # k + 1
      <4>1. i \in 0 .. k /\ more[i] = go[i]
        BY <3>2
      <4>2. go[i] = IF i = 0 THEN seen ELSE FireOne(go[i - 1], scope, warnings[i])
        BY <4>1, <2>1 DEF IsFiring
      <4>3. i # 0 => more[i - 1] = go[i - 1]
        BY <4>1
      <4> QED BY <4>1, <4>2, <4>3
    <3> QED BY <3>1, <3>2
  <2>3. more = [i \in 0 .. k + 1 |-> more[i]]
    OBVIOUS
  <2>4. IsFiring(more, seen, scope, warnings, k + 1)
    <3> HIDE DEF more
    <3> QED BY <2>2, <2>3 DEF IsFiring
  <2> HIDE DEF more
  <2> QED
    BY <2>4
<1>3. 0 .. n \subseteq Reached
  <2> HIDE DEF Reached
  <2> QED BY <1>1, <1>2, UpToInduction
<1> QED
  BY <1>3

LEMMA FireKeeps ==
  ASSUME NEW seen, IsTable(seen.table), Sequence(seen.new), NEW scope,
         NEW warnings, Sequence(warnings)
  PROVE  LET after == Fire(seen, scope, warnings) IN
         IsTable(after.table) /\ TableKept(after.table, seen.table) /\ Sequence(after.new)
<1> DEFINE n == Len(warnings)
<1>1. n \in Nat
  BY DEF Sequence
<1>2. PICK go : IsFiring(go, seen, scope, warnings, n) /\ Fire(seen, scope, warnings) = go[n]
  <2>1. \E go : IsFiring(go, seen, scope, warnings, n)
    BY <1>1, FiringExists
  <2>2. Fire(seen, scope, warnings) = (CHOOSE go : IsFiring(go, seen, scope, warnings, n))[n]
    BY Zenon DEF Fire, IsFiring
  <2> QED
    BY <2>1, <2>2
<1> DEFINE Kept(any) == IsTable(any.table) /\ TableKept(any.table, seen.table) /\ Sequence(any.new)
           Reached == {k \in 0 .. n : Kept(go[k])}
<1>3. Kept(seen)
  BY DEF TableKept, SameEvidence
<1>4. 0 \in Reached
  <2>1. go[0] = seen
    BY <1>1, <1>2 DEF IsFiring
  <2> QED
    BY <1>1, <1>3, <2>1
<1>5. ASSUME NEW k \in 0 .. n - 1, k \in Reached PROVE k + 1 \in Reached
  <2>1. go[k + 1] = FireOne(go[k], scope, warnings[k + 1])
    <3>1. k + 1 \in 0 .. n /\ k + 1 # 0 /\ (k + 1) - 1 = k
      BY <1>1
    <3> QED BY <1>2, <3>1 DEF IsFiring
  <2>2. Kept(go[k])
    BY <1>5
  <2>3. Kept(go[k + 1])
    BY <2>1, <2>2, FireOneKeeps, KeptIsKept
  <2>4. k + 1 \in 0 .. n
    BY <1>1
  <2> HIDE DEF Kept
  <2> QED
    BY <2>3, <2>4
<1>6. 0 .. n \subseteq Reached
  <2> HIDE DEF Reached, n
  <2> QED BY <1>1, <1>4, <1>5, UpToInduction
<1>7. Kept(go[n])
  BY <1>1, <1>6
<1> QED
  BY <1>2, <1>7

\* The sections of a request are a sequence.
HasSegs(r) == Len(r.segs) \in Nat /\ DOMAIN r.segs = 1 .. Len(r.segs)

\* What the checks yield are sequences, of any state of a scope.
LEMMA WhenIs ==
  ASSUME NEW condition, NEW alert
  PROVE  Sequence(When(condition, alert))
BY DEF When, Sequence

LEMMA ChecksAre ==
  ASSUME NEW st, NEW r, HasSegs(r)
  PROVE  Sequence(ShapeChecks(st, r))
<1>0. DOMAIN r.segs = 1 .. Len(r.segs) /\ Len(r.segs) \in Nat
  BY DEF HasSegs
<1>1. Sequence(Blind(r)) /\ Sequence(BelowMinimum(r))
  BY WhenIs DEF Blind, BelowMinimum
<1>2. Sequence(Drift(st, r))
  <2> DEFINE drifting == {i \in DOMAIN r.segs : i <= Top(r) /\ Changing(st, i) /\ Stranded(r, i) > 0}
             nth(k) == CHOOSE i \in drifting : Cardinality({j \in drifting : j <= i}) = k
             warnings == [k \in 1 .. Cardinality(drifting) |-> <<"RT-DRIFT", nth(k)>>]
  <2>1. Cardinality(drifting) \in Nat
    <3>1. IsFiniteSet(1 .. Len(r.segs)) /\ drifting \subseteq 1 .. Len(r.segs)
      BY <1>0, FS_Interval
    <3> HIDE DEF drifting
    <3> QED BY <3>1, FS_Subset, FS_CardinalityType
  <2>2. Sequence(warnings)
    <3> HIDE DEF drifting, nth
    <3>1. warnings = [k \in 1 .. Cardinality(drifting) |-> warnings[k]]
      OBVIOUS
    <3> HIDE DEF warnings
    <3> QED BY <2>1, <3>1, FunctionIsSequence
  <2>3. Drift(st, r) = <<>> \/ Drift(st, r) = warnings
    BY DEF Drift
  <2> HIDE DEF warnings
  <2> QED
    BY <2>2, <2>3, EmptyIs
<1>3. Sequence(Blocked(st, r))
  <2>1. Blocked(st, r) = <<>> \/ \E c, a : Blocked(st, r) = When(c, a)
    BY Zenon DEF Blocked
  <2> QED
    BY <2>1, WhenIs, EmptyIs
<1>4. Sequence(MarkerBudget(r))
  <2>1. MarkerBudget(r) = <<>> \/ \E c, a, d, b : MarkerBudget(r) = When(c, a) \o When(d, b)
    BY Zenon DEF MarkerBudget
  <2> QED
    BY <2>1, WhenIs, EmptyIs, ConcatIs
<1>5. Sequence(CadenceVsTtl(st, r))
  <2>1. CadenceVsTtl(st, r) = <<>> \/ \E c, a, d, b : CadenceVsTtl(st, r) = When(c, a) \o When(d, b)
    BY Zenon DEF CadenceVsTtl
  <2> QED
    BY <2>1, WhenIs, EmptyIs, ConcatIs
<1> QED
  BY <1>1, <1>2, <1>3, <1>4, <1>5, ConcatIs, Zenon DEF ShapeChecks

LEMMA UsageChecksAre ==
  ASSUME NEW before, NEW st, NEW r
  PROVE  Sequence(ColdFanout(before, r)) /\ Sequence(Rebuild(before, st, r)) /\ Sequence(NoSurface(r))
<1>1. \E c, a : Rebuild(before, st, r) = When(c, a)
  BY Zenon DEF Rebuild
<1> QED
  BY <1>1, WhenIs DEF ColdFanout, NoSurface

\* What an observation leaves known of each scope.
Learned(new, old, r, shape) ==
  \A s \in DOMAIN new.state : \E base :
    /\ base = FreshState \/ (s \in DOMAIN old.state /\ base = old.state[s])
    /\ IF shape /\ s = ReuseChainOf(r)
       THEN new.state[s].seen = base.seen + 1 /\ new.state[s].values = Observed(base.values, r)
       ELSE SameEvidence(new.state[s], base)

LEMMA ObservingLearns ==
  ASSUME NEW t, IsTable(t), NEW r, NEW shape \in BOOLEAN, NEW usage \in BOOLEAN,
         shape => HasSegs(r)
  PROVE  LET after == Observing(t, r, shape, usage) IN
         IsTable(after.table) /\ Sequence(after.new) /\ Learned(after.table, t, r, shape)
<1> DEFINE chain  == ReuseChainOf(r)
           first  == Scope(t, PoolOf(r))
           second == Scope(first, RebuildScope(r))
           third  == Found(t, r)
           shaped == CountShape(third, r, shape)
           used   == CountUsage(shaped, r, usage)
           after  == Observing(t, r, shape, usage)
<1>1. IsTable(third) /\ Carried(third, t)
  <2>1. IsTable(first) /\ Carried(first, t)
    BY ScopeCarries
  <2>2. IsTable(second) /\ Carried(second, first)
    <3> HIDE DEF first
    <3> QED BY <2>1, ScopeCarries
  <2>3. IsTable(third) /\ Carried(third, second)
    <3>1. third = second \/ third = Scope(second, chain)
      BY DEF Found
    <3>2. Carried(second, second)
      BY <2>2 DEF Carried
    <3> HIDE DEF second, chain, third
    <3> QED BY <2>2, <3>1, <3>2, ScopeCarries
  <2> HIDE DEF first, second, third
  <2> QED
    BY <2>1, <2>2, <2>3 DEF Carried
<1>2. IsTable(shaped) /\ Learned(shaped, t, r, shape)
  <2> DEFINE st == TrackShape(third.state[chain], r)
  <2> HIDE DEF third
  <2>1. CASE ~shape
    <3>1. shaped = third
      BY <2>1 DEF CountShape
    <3> QED BY <1>1, <2>1, <3>1 DEF Carried, Learned, SameEvidence
  <2>2. CASE shape
    <3>1. shaped = [third EXCEPT !.state[chain] = st]
      BY <2>2 DEF CountShape
    <3>2. shaped = [order |-> third.order, state |-> [third.state EXCEPT ![chain] = st]]
      <4> HIDE DEF st, shaped
      <4> QED BY <1>1, <3>1 DEF IsTable
    <3>3. \A s \in DOMAIN third.state : IsState(third.state[s])
      BY <1>1 DEF IsTable
    <3>4. chain \in DOMAIN third.state =>
            /\ IsState(st) /\ st.seen = third.state[chain].seen + 1
            /\ st.values = Observed(third.state[chain].values, r)
      BY <3>3, TrackShapeIs
    <3>5. /\ DOMAIN shaped.state = DOMAIN third.state
          /\ shaped.state = [s \in DOMAIN third.state |-> shaped.state[s]]
          /\ \A s \in DOMAIN third.state :
               shaped.state[s] = IF s = chain THEN st ELSE third.state[s]
      <4> HIDE DEF st, shaped, chain
      <4> QED BY <1>1, <3>2 DEF IsTable
    <3> HIDE DEF st, shaped
    <3>6. IsTable(shaped)
      <4> HIDE DEF chain
      <4> QED BY <3>2, <3>3, <3>4, <3>5 DEF IsTable
    <3>7. Learned(shaped, t, r, shape)
      <4> SUFFICES ASSUME NEW s \in DOMAIN third.state
                   PROVE  IF s = chain
                          THEN /\ shaped.state[s].seen = third.state[s].seen + 1
                               /\ shaped.state[s].values = Observed(third.state[s].values, r)
                          ELSE SameEvidence(shaped.state[s], third.state[s])
        BY <1>1, <2>2, <3>5 DEF Carried, Learned
      <4> QED BY <3>4, <3>5 DEF SameEvidence
    <3> QED BY <3>6, <3>7
  <2> QED
    BY <2>1, <2>2
<1>3. IsTable(used) /\ TableKept(used, shaped)
  <2> HIDE DEF shaped
  <2> QED BY <1>2, CountUsageKeeps
<1>4. IsTable(after.table) /\ Sequence(after.new) /\ TableKept(after.table, used)
  <2> DEFINE turns == RebuildScope(r)
             pool  == PoolOf(r)
             zero  == [table |-> used, new |-> <<>>]
             ask1  == IF shape THEN ShapeChecks(used.state[chain], r) ELSE <<>>
             ask2  == IF usage THEN ColdFanout(shaped.state[pool], r) ELSE <<>>
             ask3  == IF usage THEN Rebuild(shaped.state[turns], used.state[turns], r) ELSE <<>>
             ask4  == IF shape THEN NoSurface(r) ELSE <<>>
             fire1 == Fire(zero, chain, ask1)
             fire2 == Fire(fire1, pool, ask2)
             fire3 == Fire(fire2, turns, ask3)
             fire4 == Fire(fire3, chain, ask4)
  <2>1. after = fire4
    BY Zenon DEF Observing, Checked, Alerting
  <2>2. Sequence(ask1) /\ Sequence(ask2) /\ Sequence(ask3) /\ Sequence(ask4)
    <3> HIDE DEF used, shaped, chain, turns, pool
    <3> QED BY ChecksAre, UsageChecksAre, EmptyIs
  <2>3. /\ IsTable(zero.table) /\ TableKept(zero.table, used) /\ Sequence(zero.new)
    <3> HIDE DEF used
    <3> QED BY <1>3, EmptyIs DEF TableKept, SameEvidence
  <2> HIDE DEF used, shaped, chain, turns, pool, zero, ask1, ask2, ask3, ask4
  <2>4. IsTable(fire1.table) /\ TableKept(fire1.table, used) /\ Sequence(fire1.new)
    BY <2>2, <2>3, FireKeeps, KeptIsKept
  <2> HIDE DEF fire1
  <2>5. IsTable(fire2.table) /\ TableKept(fire2.table, used) /\ Sequence(fire2.new)
    BY <2>2, <2>4, FireKeeps, KeptIsKept
  <2> HIDE DEF fire2
  <2>6. IsTable(fire3.table) /\ TableKept(fire3.table, used) /\ Sequence(fire3.new)
    BY <2>2, <2>5, FireKeeps, KeptIsKept
  <2> HIDE DEF fire3
  <2>7. IsTable(fire4.table) /\ TableKept(fire4.table, used) /\ Sequence(fire4.new)
    BY <2>2, <2>6, FireKeeps, KeptIsKept
  <2> QED
    BY <2>1, <2>7
<1>5. TableKept(after.table, shaped)
  BY <1>3, <1>4, KeptIsKept
<1> HIDE DEF after, shaped, used, third
<1>6. Learned(after.table, t, r, shape)
  BY <1>2, <1>5 DEF Learned, TableKept, SameEvidence
<1> QED
  BY <1>4, <1>6 DEF after

--------------------
(* What the table knows is in the log: a scope was seen at least as often as it  *)
(* says, and the contents of a position are those of the latest shapes.          *)

Later(shapes, i) == Cardinality({k \in shapes : k > i})

Held(entries, shapes, position, content, later) ==
  \E i \in shapes :
    /\ Later(shapes, i) <= later
    /\ position \in DOMAIN entries[i].r.segs /\ entries[i].r.segs[position].id = content

Backed(st, s, entries) ==
  LET shapes == ShapesOf(entries, s, Len(entries))
  IN /\ st.seen \in Nat /\ st.seen <= Cardinality(shapes)
     /\ Sequence(st.values)
     /\ \A j \in 1 .. Len(st.values) :
          /\ Sequence(st.values[j]) /\ Len(st.values[j]) <= Window
          /\ \A k \in 1 .. Len(st.values[j]) : st.values[j][k] # Absent =>
               Held(entries, shapes, j, st.values[j][k], Len(st.values[j]) - k)

TableBacked(t, entries) ==
  IsTable(t) /\ \A s \in DOMAIN t.state : Backed(t.state[s], s, entries)

LEMMA LaterIs ==
  ASSUME NEW n \in Nat, NEW shapes \in SUBSET (1 .. n)
  PROVE  /\ IsFiniteSet(shapes) /\ Cardinality(shapes) \in Nat
         /\ \A i : Later(shapes, i) \in Nat
<1>1. IsFiniteSet(1 .. n)
  BY FS_Interval
<1>2. \A i : {k \in shapes : k > i} \subseteq 1 .. n
  OBVIOUS
<1> QED
  BY <1>1, <1>2, FS_Subset, FS_CardinalityType DEF Later

LEMMA ShapesAre ==
  ASSUME NEW entries, NEW s, NEW n \in Nat
  PROVE  ShapesOf(entries, s, n) \in SUBSET (1 .. n)
BY DEF ShapesOf

LEMMA ShapesStay ==
  ASSUME NEW entries, Sequence(entries), NEW e, NEW s, NEW n \in 0 .. Len(entries)
  PROVE  ShapesOf(Append(entries, e), s, n) = ShapesOf(entries, s, n)
<1>1. \A i \in 1 .. n : Append(entries, e)[i] = entries[i]
  BY AppendIs DEF Sequence
<1> QED
  BY <1>1 DEF ShapesOf

LEMMA ShapesGrow ==
  ASSUME NEW entries, Sequence(entries), NEW e, NEW s
  PROVE  LET n == Len(entries) IN
         ShapesOf(Append(entries, e), s, n + 1)
           = IF e.shape /\ ReuseChainOf(e.r) = s
             THEN ShapesOf(entries, s, n) \cup {n + 1} ELSE ShapesOf(entries, s, n)
<1> DEFINE n == Len(entries)
<1>1. n \in Nat /\ Append(entries, e)[n + 1] = e
  BY AppendIs DEF Sequence
<1>2. ShapesOf(Append(entries, e), s, n) = ShapesOf(entries, s, n)
  BY <1>1, ShapesStay
<1>3. 1 .. n + 1 = (1 .. n) \cup {n + 1}
  BY <1>1
<1> HIDE DEF n
<1> QED
  BY <1>1, <1>2, <1>3 DEF ShapesOf, n

\* One more shape: everything before it has one later shape more.
LEMMA OneMoreShape ==
  ASSUME NEW n \in Nat, NEW shapes \in SUBSET (1 .. n)
  PROVE  LET more == shapes \cup {n + 1} IN
         /\ Cardinality(more) = Cardinality(shapes) + 1
         /\ Later(more, n + 1) = 0
         /\ \A i \in shapes : Later(more, i) = Later(shapes, i) + 1
<1> DEFINE more == shapes \cup {n + 1}
<1>1. IsFiniteSet(shapes) /\ n + 1 \notin shapes
  <2>1. IsFiniteSet(shapes)
    BY LaterIs
  <2> QED
    BY <2>1
<1>2. Cardinality(more) = Cardinality(shapes) + 1
  BY <1>1, FS_AddElement
<1>3. Later(more, n + 1) = 0
  <2>0. \A k \in more : k \in Nat /\ k <= n + 1
    OBVIOUS
  <2>1. {k \in more : k > n + 1} = {}
    <3> HIDE DEF more
    <3> QED BY <2>0
  <2> QED
    BY <2>1, FS_EmptySet DEF Later
<1>4. ASSUME NEW i \in shapes PROVE Later(more, i) = Later(shapes, i) + 1
  <2> DEFINE above == {k \in shapes : k > i}
  <2>1. {k \in more : k > i} = above \cup {n + 1}
    OBVIOUS
  <2>2. IsFiniteSet(above) /\ n + 1 \notin above
    <3>1. above \subseteq shapes
      OBVIOUS
    <3> QED BY <1>1, <3>1, FS_Subset
  <2> HIDE DEF above, more
  <2> QED
    BY <2>1, <2>2, FS_AddElement DEF Later, above
<1> QED
  BY <1>2, <1>3, <1>4

LEMMA FreshBacked ==
  ASSUME NEW s, NEW entries, Sequence(entries)
  PROVE  Backed(FreshState, s, entries)
<1>1. Cardinality(ShapesOf(entries, s, Len(entries))) \in Nat
  BY LaterIs, ShapesAre DEF Sequence
<1> QED
  BY <1>1, FreshIs, EmptyIs DEF Backed

LEMMA PairIs ==
  ASSUME NEW a \in Nat, NEW b \in Nat
  PROVE  /\ Max({a, b}) \in {a, b}
         /\ Min({a, b}) \in {a, b} /\ Min({a, b}) <= a
<1>1. \E x \in {a, b} : \A y \in {a, b} : x >= y
  <2>1. CASE a >= b  BY <2>1
  <2>2. CASE b >= a  BY <2>2
  <2> QED  BY <2>1, <2>2
<1>2. \E x \in {a, b} : \A y \in {a, b} : x =< y
  <2>1. CASE a >= b  BY <2>1
  <2>2. CASE b >= a  BY <2>2
  <2> QED  BY <2>1, <2>2
<1> QED
  BY <1>1, <1>2 DEF Max, Min

\* An observation that is no shape of a scope leaves what is known of it true.
LEMMA BackedStays ==
  ASSUME NEW entries, Sequence(entries), NEW e, NEW s, NEW old, NEW new,
         Backed(old, s, entries), SameEvidence(new, old),
         ~(e.shape /\ ReuseChainOf(e.r) = s)
  PROVE  Backed(new, s, Append(entries, e))
<1> DEFINE more == Append(entries, e)
           shapes == ShapesOf(entries, s, Len(entries))
<1>1. Len(entries) \in Nat /\ Len(more) = Len(entries) + 1
  BY AppendIs DEF Sequence
<1>2. ShapesOf(more, s, Len(more)) = shapes
  BY <1>1, ShapesGrow
<1>3. \A i \in shapes : more[i] = entries[i]
  BY <1>1, AppendIs, ShapesAre
<1>4. \A j, x, n : Held(entries, shapes, j, x, n) => Held(more, shapes, j, x, n)
  <2> HIDE DEF more, shapes
  <2> QED BY <1>3 DEF Held
<1> HIDE DEF more
<1>5. Backed(new, s, more)
  BY <1>2, <1>4 DEF Backed, SameEvidence
<1> QED
  BY <1>5 DEF more

\* The latest contents of a position, when another shape comes.
LEMMA PushedIsHeld ==
  ASSUME NEW entries, NEW more, NEW n \in Nat, \A i \in 1 .. n : more[i] = entries[i],
         NEW before \in SUBSET (1 .. n), NEW j, NEW old, Sequence(old),
         \A k \in 1 .. Len(old) : old[k] # Absent =>
           Held(entries, before, j, old[k], Len(old) - k),
         NEW x, x # Absent => j \in DOMAIN more[n + 1].r.segs /\ more[n + 1].r.segs[j].id = x
  PROVE  LET new == Push(old, x, Window) IN
         /\ Sequence(new) /\ Len(new) <= Window
         /\ \A k \in 1 .. Len(new) : new[k] # Absent =>
              Held(more, before \cup {n + 1}, j, new[k], Len(new) - k)
<1>1. PICK new : new = Push(old, x, Window)
  OBVIOUS
<1>2. PICK after : after = before \cup {n + 1}
  OBVIOUS
<1>3. Window \in Nat \ {0}
  BY MonitorAssumption
<1>4. /\ Sequence(new) /\ Len(new) = (IF Len(old) < Window THEN Len(old) + 1 ELSE Window)
      /\ new[Len(new)] = x
      /\ \A k \in 1 .. Len(new) - 1 : new[k] = old[k + (Len(old) + 1 - Len(new))]
  BY <1>1, <1>3, PushIs
<1>5. Len(old) \in Nat /\ Len(new) \in Nat \ {0} /\ Len(new) <= Window
  BY <1>3, <1>4 DEF Sequence
<1>6. /\ Later(after, n + 1) = 0
      /\ \A i \in before : Later(before, i) \in Nat /\ Later(after, i) = Later(before, i) + 1
  BY <1>2, LaterIs, OneMoreShape
<1>7. x # Absent => Held(more, after, j, x, 0)
  BY <1>2, <1>6 DEF Held
<1>8. ASSUME NEW k \in 1 .. Len(new) - 1, new[k] # Absent
      PROVE  Held(more, after, j, new[k], Len(new) - k)
  <2>1. PICK k2 : k2 = k + (Len(old) + 1 - Len(new))
    OBVIOUS
  <2>2. k2 \in 1 .. Len(old) /\ Len(old) - k2 = Len(new) - k - 1
    BY <1>3, <1>4, <1>5, <2>1
  <2>3. new[k] = old[k2]
    BY <1>4, <2>1
  <2>4. Held(entries, before, j, new[k], Len(new) - k - 1)
    BY <1>8, <2>2, <2>3
  <2>5. PICK i \in before : /\ Later(before, i) <= Len(new) - k - 1
                            /\ j \in DOMAIN entries[i].r.segs
                            /\ entries[i].r.segs[j].id = new[k]
    BY <2>4 DEF Held
  <2>6. i \in after /\ more[i] = entries[i]
    BY <1>2
  <2>7. Later(after, i) <= Len(new) - k
    BY <1>5, <1>6, <2>5
  <2> QED
    BY <2>5, <2>6, <2>7 DEF Held
<1>9. ASSUME NEW k \in 1 .. Len(new), new[k] # Absent
      PROVE  Held(more, after, j, new[k], Len(new) - k)
  <2>1. CASE k = Len(new)
    BY <1>4, <1>5, <1>7, <1>9, <2>1
  <2>2. CASE k # Len(new)
    BY <1>5, <1>8, <1>9, <2>2
  <2> QED
    BY <2>1, <2>2
<1> QED
  BY <1>1, <1>2, <1>4, <1>5, <1>9

\* A shape of a scope is known once it was observed.
LEMMA BackedObserved ==
  ASSUME NEW entries, Sequence(entries), NEW e, NEW old, NEW new,
         Backed(old, ReuseChainOf(e.r), entries), e.shape, HasSegs(e.r),
         new.seen = old.seen + 1, new.values = Observed(old.values, e.r)
  PROVE  Backed(new, ReuseChainOf(e.r), Append(entries, e))
<1> DEFINE s      == ReuseChainOf(e.r)
           more   == Append(entries, e)
           n      == Len(entries)
           before == ShapesOf(entries, s, n)
           after  == before \cup {n + 1}
           values == old.values
           tracked == Max({Len(values), Min({MaxPositions, Len(e.r.segs)})})
           was(j) == IF j <= Len(values) THEN values[j] ELSE <<>>
           is(j)  == IF j <= Len(e.r.segs) THEN e.r.segs[j].id ELSE Absent
           then(j) == Push(was(j), is(j), Window)
<1>0. Len(e.r.segs) \in Nat /\ DOMAIN e.r.segs = 1 .. Len(e.r.segs)
  BY DEF HasSegs
<1>1. /\ n \in Nat /\ Len(more) = n + 1 /\ more[n + 1] = e
      /\ \A i \in 1 .. n : more[i] = entries[i]
  BY AppendIs DEF Sequence
<1>2. before \in SUBSET (1 .. n) /\ ShapesOf(more, s, Len(more)) = after
  <2>1. before \in SUBSET (1 .. n)
    BY <1>1, ShapesAre
  <2>2. ShapesOf(more, s, n + 1) = after
    BY ShapesGrow
  <2> QED
    BY <1>1, <2>1, <2>2
<1>3. /\ Cardinality(before) \in Nat /\ Cardinality(after) = Cardinality(before) + 1
      /\ Later(after, n + 1) = 0
      /\ \A i \in before : Later(before, i) \in Nat /\ Later(after, i) = Later(before, i) + 1
  <2> HIDE DEF n, before
  <2> QED BY <1>1, <1>2, LaterIs, OneMoreShape
<1>4. Window \in Nat \ {0} /\ MaxPositions \in Nat
  BY MonitorAssumption
<1>5. /\ old.seen \in Nat /\ old.seen <= Cardinality(before)
      /\ Sequence(values) /\ Len(values) \in Nat
      /\ \A j \in 1 .. Len(values) :
           /\ Sequence(values[j]) /\ Len(values[j]) \in Nat
           /\ \A k \in 1 .. Len(values[j]) : values[j][k] # Absent =>
                Held(entries, before, j, values[j][k], Len(values[j]) - k)
  BY DEF Backed, Sequence
<1>6. tracked \in Nat
  <2>1. Min({MaxPositions, Len(e.r.segs)}) \in Nat
    BY <1>0, <1>4, PairIs
  <2> QED
    BY <1>5, <2>1, PairIs
<1>7. new.values = [j \in 1 .. tracked |-> then(j)]
  BY DEF Observed
<1>8. Sequence(new.values) /\ Len(new.values) = tracked
  <2> HIDE DEF tracked, then
  <2>1. new.values = [j \in 1 .. tracked |-> new.values[j]]
    BY <1>7
  <2> QED
    BY <1>6, <2>1, FunctionIsSequence
<1>9. ASSUME NEW j \in 1 .. tracked
      PROVE  /\ Sequence(then(j)) /\ Len(then(j)) <= Window
             /\ \A k \in 1 .. Len(then(j)) : then(j)[k] # Absent =>
                  Held(more, after, j, then(j)[k], Len(then(j)) - k)
  <2>0. j \in Nat \ {0}
    BY <1>6
  <2>1. /\ Sequence(was(j))
        /\ \A k \in 1 .. Len(was(j)) : was(j)[k] # Absent =>
             Held(entries, before, j, was(j)[k], Len(was(j)) - k)
    <3>1. CASE j <= Len(values)
      <4>1. was(j) = values[j] /\ j \in 1 .. Len(values)
        BY <1>5, <2>0, <3>1
      <4> HIDE DEF was, values, before
      <4> QED BY <1>5, <4>1
    <3>2. CASE ~(j <= Len(values))
      <4>1. was(j) = <<>>
        BY <3>2
      <4> HIDE DEF was
      <4> QED BY <4>1, EmptyIs
    <3> QED BY <3>1, <3>2
  <2>2. is(j) # Absent => j \in DOMAIN more[n + 1].r.segs /\ more[n + 1].r.segs[j].id = is(j)
    <3> HIDE DEF more, n
    <3> QED BY <1>0, <1>1, <2>0
  <2> HIDE DEF was, is, before, more, n
  <2> QED
    BY <1>1, <1>2, <2>1, <2>2, PushedIsHeld
<1>10. new.seen \in Nat /\ new.seen <= Cardinality(after)
  <2> HIDE DEF before, after
  <2> QED BY <1>3, <1>5
<1>11. \A j \in 1 .. Len(new.values) : new.values[j] = then(j)
  <2> HIDE DEF tracked, then
  <2> QED BY <1>7, <1>8
<1> HIDE DEF s, more, after, tracked, then
<1>12. Backed(new, s, more)
  BY <1>2, <1>8, <1>9, <1>10, <1>11 DEF Backed
<1> QED
  BY <1>12 DEF s, more

--------------------
(* Decisions that wait: their calls are in order, so that what makes room for a  *)
(* new one is the decision of a call that lies as far back as decisions may wait.*)

Queue(q, n) ==
  /\ Sequence(q) /\ Len(q) <= PendingCap
  /\ \A i \in 1 .. Len(q) : q[i].key \in 1 .. n
  /\ \A i \in 1 .. Len(q) : \A j \in i .. Len(q) : q[j].key - q[i].key >= j - i

LEMMA WaitIs ==
  ASSUME NEW n \in Nat, NEW q, Queue(q, n), NEW entry, entry.key = n + 1
  PROVE  /\ Queue(Wait(q, entry), n + 1)
         /\ \A c \in 1 .. n + 1 : (c = n + 1 \/ Has(q, c)) /\ n + 1 - c < PendingCap
              => Has(Wait(q, entry), c)
<1>1. PICK new : new = Wait(q, entry)
  OBVIOUS
<1>2. PendingCap \in Nat \ {0}
  BY PluginAssumption
<1>3. /\ Sequence(new) /\ Len(new) = (IF Len(q) < PendingCap THEN Len(q) + 1 ELSE PendingCap)
      /\ new[Len(new)] = entry
      /\ \A k \in 1 .. Len(new) - 1 : new[k] = q[k + (Len(q) + 1 - Len(new))]
  BY <1>1, <1>2, PushIs DEF Wait, Queue
<1>4. /\ Len(q) \in Nat /\ Len(q) <= PendingCap /\ DOMAIN q = 1 .. Len(q)
      /\ \A i \in 1 .. Len(q) : q[i].key \in 1 .. n
      /\ \A i \in 1 .. Len(q) : \A j \in i .. Len(q) : q[j].key - q[i].key >= j - i
  BY DEF Queue, Sequence
<1>5. PICK lost : lost = Len(q) + 1 - Len(new)
  OBVIOUS
<1>6. /\ lost \in {0, 1} /\ Len(new) \in Nat \ {0} /\ Len(new) = Len(q) + 1 - lost
      /\ lost = 1 => Len(q) = PendingCap
      /\ DOMAIN new = 1 .. Len(new)
  BY <1>2, <1>3, <1>4, <1>5 DEF Sequence
<1>7. \A k \in 1 .. Len(new) - 1 : new[k] = q[k + lost] /\ k + lost \in 1 .. Len(q)
  <2> SUFFICES ASSUME NEW k \in 1 .. Len(new) - 1
               PROVE  new[k] = q[k + lost] /\ k + lost \in 1 .. Len(q)
    OBVIOUS
  <2>1. new[k] = q[k + lost]
    BY <1>3, <1>5
  <2>2. lost \in {0, 1} /\ Len(new) \in Nat /\ Len(q) \in Nat /\ Len(new) = Len(q) + 1 - lost
    BY <1>4, <1>6
  <2>3. k + lost \in 1 .. Len(q)
    BY <2>2
  <2> QED
    BY <2>1, <2>3
<1>8. \A k \in 1 .. Len(new) : new[k].key \in 1 .. n + 1
  <2> SUFFICES ASSUME NEW k \in 1 .. Len(new) PROVE new[k].key \in 1 .. n + 1
    OBVIOUS
  <2>1. CASE k = Len(new)
    BY <1>3, <2>1
  <2>2. CASE k # Len(new)
    <3>1. k \in 1 .. Len(new) - 1
      BY <1>6, <2>2
    <3>2. new[k].key \in 1 .. n
      BY <1>4, <1>7, <3>1
    <3> QED BY <3>2
  <2> QED
    BY <2>1, <2>2
<1>9. \A i \in 1 .. Len(new) : \A j \in i .. Len(new) : new[j].key - new[i].key >= j - i
  <2> SUFFICES ASSUME NEW i \in 1 .. Len(new), NEW j \in i .. Len(new)
               PROVE  new[j].key - new[i].key >= j - i
    OBVIOUS
  <2>1. CASE j # Len(new)
    <3>1. i \in 1 .. Len(new) - 1 /\ j \in 1 .. Len(new) - 1
      BY <1>6, <2>1
    <3>2. new[i] = q[i + lost] /\ new[j] = q[j + lost] /\ i + lost \in 1 .. Len(q)
      BY <1>7, <3>1
    <3>3. j + lost \in (i + lost) .. Len(q)
      BY <1>6, <1>7, <3>1
    <3>4. q[j + lost].key - q[i + lost].key >= (j + lost) - (i + lost)
      BY <1>4, <3>2, <3>3
    <3> QED BY <1>6, <3>2, <3>4
  <2>2. CASE j = Len(new) /\ i # j
    <3>1. i \in 1 .. Len(new) - 1 /\ Len(q) \in 1 .. Len(q)
      BY <1>4, <1>6, <2>2
    <3>2. new[i] = q[i + lost] /\ i + lost \in 1 .. Len(q)
      BY <1>7, <3>1
    <3>3. Len(q) \in (i + lost) .. Len(q)
      BY <1>4, <3>2
    <3>4. q[Len(q)].key - q[i + lost].key >= Len(q) - (i + lost)
      BY <1>4, <3>2, <3>3
    <3>5. q[Len(q)].key \in 1 .. n /\ q[i + lost].key \in 1 .. n
      BY <1>4, <3>1, <3>2
    <3>6. new[j].key = n + 1 /\ new[i].key = q[i + lost].key
      BY <1>3, <2>2, <3>2
    <3> QED BY <1>4, <1>6, <2>2, <3>4, <3>5, <3>6, SMTT(30)
  <2>3. CASE i = j
    BY <1>8, <2>3
  <2> QED
    BY <2>1, <2>2, <2>3
<1>10. ASSUME NEW c \in 1 .. n + 1, c = n + 1 \/ Has(q, c), n + 1 - c < PendingCap
       PROVE  Has(new, c)
  <2>1. CASE c = n + 1
    <3>1. Len(new) \in DOMAIN new
      BY <1>6
    <3>2. new[Len(new)].key = c
      BY <1>3, <2>1
    <3> QED BY <3>1, <3>2 DEF Has
  <2>2. CASE c # n + 1
    <3>1. PICK i \in 1 .. Len(q) : q[i].key = c
      BY <1>4, <1>10, <2>2 DEF Has
    <3>2. i - lost \in 1 .. Len(new) - 1
      <4>1. CASE lost = 1 /\ i = 1
        <5>1. Len(q) \in 1 .. Len(q) /\ Len(q) = PendingCap
          BY <1>2, <1>6, <4>1
        <5>2. q[Len(q)].key - q[1].key >= Len(q) - 1 /\ q[Len(q)].key \in 1 .. n
          BY <1>4, <5>1
        <5> QED BY <1>2, <1>10, <3>1, <4>1, <5>1, <5>2
      <4>2. CASE ~(lost = 1 /\ i = 1)
        BY <1>4, <1>6, <4>2
      <4> QED BY <4>1, <4>2
    <3>3. new[i - lost] = q[(i - lost) + lost]
      BY <1>7, <3>2
    <3>4. (i - lost) + lost = i
      BY <1>6
    <3>5. i - lost \in DOMAIN new
      BY <1>6, <3>2
    <3> QED BY <3>1, <3>3, <3>4, <3>5 DEF Has
  <2> QED
    BY <2>1, <2>2
<1>11. Queue(new, n + 1)
  BY <1>2, <1>3, <1>4, <1>8, <1>9 DEF Queue
<1> QED
  BY <1>1, <1>10, <1>11

LEMMA RemoveAtIs ==
  ASSUME NEW s, Sequence(s), NEW i \in 1 .. Len(s)
  PROVE  LET rest == RemoveAt(s, i) IN
         /\ Sequence(rest) /\ Len(rest) = Len(s) - 1
         /\ \A k \in 1 .. Len(s) - 1 : rest[k] = IF k < i THEN s[k] ELSE s[k + 1]
<1>1. Len(s) \in Nat
  BY DEF Sequence
<1>2. PICK a : a = SubSeq(s, 1, i - 1)
  OBVIOUS
<1>3. PICK b : b = SubSeq(s, i + 1, Len(s))
  OBVIOUS
<1>4. Sequence(a) /\ Len(a) = i - 1 /\ \A k \in 1 .. i - 1 : a[k] = s[k]
  <2>1. 1 \in 1 .. Len(s) + 1 /\ i - 1 \in 0 .. Len(s) /\ 1 <= (i - 1) + 1 /\ (i - 1) - 1 + 1 = i - 1
    BY <1>1
  <2>2. \A k \in 1 .. i - 1 : 1 + k - 1 = k
    OBVIOUS
  <2> QED
    BY <1>1, <1>2, <2>1, <2>2, SubSeqIs
<1>5. Sequence(b) /\ Len(b) = Len(s) - i /\ \A k \in 1 .. Len(s) - i : b[k] = s[i + k]
  <2>1. i + 1 \in 1 .. Len(s) + 1 /\ Len(s) \in 0 .. Len(s) /\ i + 1 <= Len(s) + 1
        /\ Len(s) - (i + 1) + 1 = Len(s) - i
    BY <1>1
  <2>2. \A k \in 1 .. Len(s) - i : (i + 1) + k - 1 = i + k
    OBVIOUS
  <2>3. /\ Sequence(b) /\ Len(b) = Len(s) - (i + 1) + 1
        /\ \A k \in 1 .. Len(s) - (i + 1) + 1 : b[k] = s[(i + 1) + k - 1]
    BY ONLY Sequence(s), <1>3, <2>1, SubSeqIs
  <2> QED
    BY <1>1, <2>1, <2>2, <2>3
<1>6. RemoveAt(s, i) = a \o b
  BY <1>2, <1>3 DEF RemoveAt
<1>7. Sequence(a \o b) /\ Len(a \o b) = Len(s) - 1
  <2>1. Sequence(a \o b) /\ Len(a \o b) = Len(a) + Len(b)
    BY <1>4, <1>5, ConcatIs
  <2>2. (i - 1) + (Len(s) - i) = Len(s) - 1
    BY <1>1
  <2> QED
    BY <1>4, <1>5, <2>1, <2>2
<1>8. \A k \in 1 .. Len(s) - 1 : (a \o b)[k] = IF k < i THEN s[k] ELSE s[k + 1]
  <2> SUFFICES ASSUME NEW k \in 1 .. Len(s) - 1
               PROVE  (a \o b)[k] = IF k < i THEN s[k] ELSE s[k + 1]
    OBVIOUS
  <2>1. (a \o b)[k] = IF k <= i - 1 THEN a[k] ELSE b[k - (i - 1)]
    BY <1>1, <1>4, <1>5, ConcatIs
  <2>2. CASE k < i
    BY <1>4, <2>1, <2>2
  <2>3. CASE ~(k < i)
    <3>1. k - (i - 1) \in 1 .. Len(s) - i /\ i + (k - (i - 1)) = k + 1 /\ ~(k <= i - 1)
      BY <1>1, <2>3
    <3> QED BY <1>5, <2>1, <2>3, <3>1
  <2> QED
    BY <2>2, <2>3
<1> QED
  BY <1>6, <1>7, <1>8

LEMMA TakenIs ==
  ASSUME NEW n \in Nat, NEW q, Queue(q, n), NEW c, Has(q, c)
  PROVE  /\ Queue(RemoveAt(q, PlaceOf(q, c)), n)
         /\ \A d : d # c /\ Has(q, d) => Has(RemoveAt(q, PlaceOf(q, c)), d)
<1>1. /\ Sequence(q) /\ Len(q) \in Nat /\ Len(q) <= PendingCap /\ DOMAIN q = 1 .. Len(q)
      /\ \A i \in 1 .. Len(q) : q[i].key \in 1 .. n
      /\ \A i \in 1 .. Len(q) : \A j \in i .. Len(q) : q[j].key - q[i].key >= j - i
  BY DEF Queue, Sequence
<1>2. PICK p : p = PlaceOf(q, c)
  OBVIOUS
<1>3. p \in 1 .. Len(q) /\ q[p].key = c
  BY <1>1, <1>2 DEF PlaceOf, Has
<1>4. PICK rest : rest = RemoveAt(q, p)
  OBVIOUS
<1>5. /\ Sequence(rest) /\ Len(rest) = Len(q) - 1
      /\ \A k \in 1 .. Len(q) - 1 : rest[k] = IF k < p THEN q[k] ELSE q[k + 1]
  BY <1>1, <1>3, <1>4, RemoveAtIs
<1>6. DOMAIN rest = 1 .. Len(q) - 1
  BY <1>5 DEF Sequence
<1> DEFINE from(k) == IF k < p THEN k ELSE k + 1
<1>7. \A k \in 1 .. Len(q) - 1 : from(k) \in 1 .. Len(q) /\ rest[k] = q[from(k)]
  BY <1>1, <1>5
<1>8. \A i \in 1 .. Len(q) - 1 : \A j \in i .. Len(q) - 1 :
        from(j) \in from(i) .. Len(q) /\ from(j) - from(i) >= j - i
  BY <1>1, <1>3
<1>9. \A i \in 1 .. Len(q) - 1 : \A j \in i .. Len(q) - 1 : rest[j].key - rest[i].key >= j - i
  <2> HIDE DEF from
  <2> SUFFICES ASSUME NEW i \in 1 .. Len(q) - 1, NEW j \in i .. Len(q) - 1
               PROVE  rest[j].key - rest[i].key >= j - i
    OBVIOUS
  <2>1. j \in 1 .. Len(q) - 1
    BY <1>1
  <2>2. rest[i] = q[from(i)] /\ rest[j] = q[from(j)] /\ from(i) \in 1 .. Len(q) /\ from(j) \in 1 .. Len(q)
    BY <1>7, <2>1
  <2>3. from(j) \in from(i) .. Len(q) /\ from(j) - from(i) >= j - i
    BY <1>8
  <2>4. q[from(j)].key - q[from(i)].key >= from(j) - from(i)
    BY <1>1, <2>2, <2>3
  <2>5. PICK a \in Nat, b \in Nat : a = q[from(i)].key /\ b = q[from(j)].key
    BY <1>1, <2>2
  <2>6. PICK d \in Int : d = from(j) - from(i) /\ d >= j - i
    BY <2>2, <2>3
  <2>7. b - a >= d
    BY <2>4, <2>5, <2>6
  <2>8. d >= j - i /\ i \in Int /\ j \in Int
    BY <2>1, <2>6
  <2>9. b - a >= j - i
    BY <2>7, <2>8
  <2> QED BY <2>2, <2>5, <2>9
<1>10. Queue(rest, n)
  <2>1. \A k \in 1 .. Len(q) - 1 : rest[k].key \in 1 .. n
    <3> HIDE DEF from
    <3> QED BY <1>1, <1>7
  <2>2. Len(rest) <= PendingCap
    BY <1>1, <1>5, PluginAssumption
  <2> QED
    BY <1>5, <1>9, <2>1, <2>2 DEF Queue
<1>11. ASSUME NEW d, d # c, Has(q, d) PROVE Has(rest, d)
  <2>1. PICK i \in 1 .. Len(q) : q[i].key = d
    BY <1>1, <1>11 DEF Has
  <2>2. i # p
    BY <1>3, <1>11, <2>1
  <2>3. CASE i < p
    <3>1. i \in 1 .. Len(q) - 1
      BY <1>1, <1>3, <2>3
    <3> QED BY <1>5, <1>6, <2>1, <2>3, <3>1 DEF Has
  <2>4. CASE i > p
    <3>1. i - 1 \in 1 .. Len(q) - 1 /\ ~(i - 1 < p) /\ (i - 1) + 1 = i
      BY <1>1, <1>3, <2>4
    <3> QED BY <1>5, <1>6, <2>1, <3>1 DEF Has
  <2> QED
    BY <1>1, <1>3, <2>2, <2>3, <2>4
<1> QED
  BY <1>2, <1>4, <1>10, <1>11

--------------------
(* What is observed, and what a decision rests on.                               *)

Kept == Sequence(log) /\ Sequence(raised) /\ TableBacked(table, log)

LEMMA ObservedNowIs ==
  ASSUME Kept, NEW r, NEW shape \in BOOLEAN, NEW usage \in BOOLEAN,
         shape => HasSegs(r), ObservedNow(r, shape, usage)
  PROVE  /\ Kept' /\ Sequence(NewAlerts)
         /\ \E e : log' = Append(log, e)
<1> DEFINE e == [r |-> r, shape |-> shape, usage |-> usage]
<1>1. PICK after : after = Observing(table, r, shape, usage)
  OBVIOUS
<1>2. table' = after.table /\ log' = Append(log, e) /\ raised' = raised \o after.new
  BY <1>1, Zenon DEF ObservedNow, Seen
<1>3. Sequence(log) /\ Sequence(raised) /\ IsTable(table)
  BY DEF Kept, TableBacked
<1>4. IsTable(after.table) /\ Sequence(after.new) /\ Learned(after.table, table, r, shape)
  BY <1>1, <1>3, ObservingLearns
<1>5. e.r = r /\ e.shape = shape
  OBVIOUS
<1> HIDE DEF e
<1>6. ASSUME NEW s \in DOMAIN after.table.state PROVE Backed(after.table.state[s], s, log')
  <2>1. PICK base :
          /\ base = FreshState \/ (s \in DOMAIN table.state /\ base = table.state[s])
          /\ IF shape /\ s = ReuseChainOf(r)
             THEN /\ after.table.state[s].seen = base.seen + 1
                  /\ after.table.state[s].values = Observed(base.values, r)
             ELSE SameEvidence(after.table.state[s], base)
    BY <1>4 DEF Learned
  <2>2. Backed(base, s, log)
    BY <1>3, <2>1, FreshBacked DEF Kept, TableBacked
  <2>3. CASE shape /\ s = ReuseChainOf(r)
    BY <1>2, <1>3, <1>5, <2>1, <2>2, <2>3, BackedObserved
  <2>4. CASE ~(shape /\ s = ReuseChainOf(r))
    BY <1>2, <1>3, <1>5, <2>1, <2>2, <2>4, BackedStays
  <2> QED
    BY <2>3, <2>4
<1>7. Sequence(log')
  BY <1>2, <1>3, AppendIs
<1>8. Sequence(raised') /\ Sequence(NewAlerts)
  <2>1. Sequence(raised') /\ Len(raised') = Len(raised) + Len(after.new)
    BY <1>2, <1>3, <1>4, ConcatIs
  <2>2. Len(raised) \in Nat /\ Len(after.new) \in Nat /\ Len(raised') \in Nat
    BY <1>3, <1>4, <2>1 DEF Sequence
  <2>3. /\ Len(raised) + 1 \in 1 .. Len(raised') + 1 /\ Len(raised') \in 0 .. Len(raised')
        /\ Len(raised) + 1 <= Len(raised') + 1
    BY <2>1, <2>2
  <2> QED
    BY <2>1, <2>3, SubSeqIs DEF NewAlerts
<1> QED
  BY <1>2, <1>4, <1>6, <1>7, <1>8 DEF Kept, TableBacked

\* A request as it comes: a record whose sections have contents.
RequestFields ==
  {"tenant", "target", "model", "agent", "session", "sent", "segs", "declared", "usage", "barred"}

IsRequest(r) ==
  /\ RequestFields \subseteq DOMAIN r
  /\ Sequence(r.segs)
  /\ \A i \in 1 .. Len(r.segs) : {"id", "ttl"} \subseteq DOMAIN r.segs[i] /\ r.segs[i].id # Absent

\* The evidence for the markers of a call: what MarkersOnSeenContent says of one.
OnSeen(r, placed, shown, entries) ==
  LET earlier == ShapesOf(entries, ReuseChainOf(r), shown - 1)
  IN /\ Cardinality(earlier) >= Warmup
     /\ \A m \in DOMAIN placed : \A j \in 1 .. m : \E i \in earlier :
          /\ Cardinality({k \in earlier : k > i}) < Window
          /\ j \in DOMAIN entries[i].r.segs /\ entries[i].r.segs[j].id = r.segs[j].id

LEMMA OnSeenStays ==
  ASSUME NEW entries, Sequence(entries), NEW e, NEW r, NEW placed,
         NEW shown \in 1 .. Len(entries) + 1, OnSeen(r, placed, shown, entries)
  PROVE  OnSeen(r, placed, shown, Append(entries, e))
<1>1. PICK more : more = Append(entries, e)
  OBVIOUS
<1>2. PICK earlier : earlier = ShapesOf(entries, ReuseChainOf(r), shown - 1)
  OBVIOUS
<1>3. Len(entries) \in Nat /\ shown - 1 \in 0 .. Len(entries)
  BY DEF Sequence
<1>4. ShapesOf(more, ReuseChainOf(r), shown - 1) = earlier
  BY <1>1, <1>2, <1>3, ShapesStay
<1>5. \A i \in earlier : more[i] = entries[i]
  <2>1. earlier \subseteq 1 .. Len(entries)
    BY <1>2, <1>3, ShapesAre
  <2> QED
    BY <1>1, <2>1, AppendIs
<1>6. OnSeen(r, placed, shown, more)
  BY <1>2, <1>4, <1>5 DEF OnSeen
<1> QED
  BY <1>1, <1>6

\* Where markers may go at all.
LEMMA DecisionsAre ==
  ASSUME NEW r, NEW plan \in Decisions(r), plan # <<>>
  PROVE  /\ ~StandsDown(r)
         /\ \A m \in DOMAIN plan : m \in DOMAIN r.segs /\ \A j \in 1 .. m : Rates(r)[j] < 100
<1>1. ~StandsDown(r)
  BY Zenon DEF Decisions
<1>2. \E p \in Plans(r) : plan = Safe(r, p)
  BY <1>1, Zenon DEF Decisions
<1>3. PICK p \in Plans(r) : plan = Safe(r, p)
  BY <1>2
<1>4. DOMAIN plan \subseteq DOMAIN p
  BY <1>3 DEF Safe
<1>5. CASE ~Supported(r)
  <2>1. p = <<>>
    BY <1>3, <1>5, Zenon DEF Plans
  <2> QED
    BY <1>1, <1>4, <2>1, EmptyIs
<1>6. CASE Supported(r)
  <2> DEFINE worth == {i \in DOMAIN r.segs :
                         /\ \A j \in 1 .. i : Rates(r)[j] < 100
                         /\ TokensTo(r, i) >= Minimum[r.target]}
  <2>1. p \in UNION {[at -> Offered[r.target]] :
                       at \in {s \in SUBSET worth : Cardinality(s) <= Budget[r.target]}}
    BY <1>3, <1>6, Zenon DEF Plans
  <2>2. DOMAIN p \subseteq worth
    <3> HIDE DEF worth
    <3> QED BY <2>1
  <2>3. \A m \in worth : m \in DOMAIN r.segs /\ \A j \in 1 .. m : Rates(r)[j] < 100
    BY Zenon
  <2> HIDE DEF worth
  <2> QED
    BY <1>1, <1>4, <2>2, <2>3
<1> QED
  BY <1>5, <1>6

\* Content whose rate is below that of content no one has seen was seen.
LEMMA DecisionIsSeen ==
  ASSUME Kept, NEW r, IsRequest(r), NEW plan \in Decisions(r), plan # <<>>
  PROVE  OnSeen(r, plan, Len(log) + 1, log)
<1> DEFINE s == ReuseChainOf(r)
<1>1. /\ ~StandsDown(r)
      /\ \A m \in DOMAIN plan : m \in DOMAIN r.segs /\ \A j \in 1 .. m : Rates(r)[j] < 100
  BY DecisionsAre
<1>2. ~StillLearning(r)
  BY <1>1, Zenon DEF StandsDown
<1>3. Samples(s) >= Warmup
  <2>1. ~(Samples(s) < Warmup)
    BY <1>2, Zenon DEF StillLearning
  <2>2. Samples(s) \in Nat /\ Warmup \in Nat
    <3>1. CASE s \in DOMAIN table.state
      <4>1. table.state[s].seen \in Nat /\ Window \in Nat
        BY <3>1, MonitorAssumption DEF Kept, TableBacked, Backed
      <4> HIDE DEF s
      <4>2. Min({table.state[s].seen, Window}) \in {table.state[s].seen, Window}
        BY <4>1, PairIs
      <4>3. Samples(s) = Min({table.state[s].seen, Window})
        BY <3>1 DEF Samples
      <4> QED BY <4>1, <4>2, <4>3, PluginAssumption
    <3>2. CASE s \notin DOMAIN table.state
      <4> HIDE DEF s
      <4> QED BY <3>2, PluginAssumption, MonitorAssumption DEF Samples
    <3> QED BY <3>1, <3>2
  <2> HIDE DEF s
  <2> QED
    BY <2>1, <2>2
<1>4. PICK earlier : earlier = ShapesOf(log, s, Len(log))
  OBVIOUS
<1>5. PICK st : st = table.state[s]
  OBVIOUS
<1>6. Len(log) \in Nat
  BY DEF Kept, Sequence
<1>7. earlier \in SUBSET (1 .. Len(log)) /\ Cardinality(earlier) \in Nat
  <2> HIDE DEF s
  <2> QED BY <1>4, <1>6, ShapesAre, LaterIs
<1>8. s \in DOMAIN table.state
  <2> HIDE DEF s
  <2> QED BY <1>3, PluginAssumption, MonitorAssumption DEF Samples
<1>9. /\ st.seen \in Nat /\ st.seen <= Cardinality(earlier)
      /\ \A j \in 1 .. Len(st.values) :
           /\ Sequence(st.values[j]) /\ Len(st.values[j]) <= Window
           /\ \A k \in 1 .. Len(st.values[j]) : st.values[j][k] # Absent =>
                Held(log, earlier, j, st.values[j][k], Len(st.values[j]) - k)
      /\ Sequence(st.values)
  <2> HIDE DEF s
  <2> QED BY <1>4, <1>5, <1>8 DEF Kept, TableBacked, Backed
<1>10. Cardinality(earlier) >= Warmup
  <2>1. Samples(s) = Min({st.seen, Window})
    <3> HIDE DEF s
    <3> QED BY <1>5, <1>8 DEF Samples
  <2>2. Window \in Nat /\ Warmup \in Nat
    BY MonitorAssumption, PluginAssumption
  <2>3. Min({st.seen, Window}) \in {st.seen, Window} /\ Min({st.seen, Window}) <= st.seen
    BY <1>9, <2>2, PairIs
  <2> HIDE DEF s
  <2> QED
    BY <1>3, <1>7, <1>9, <2>1, <2>2, <2>3
<1>11. ASSUME NEW m \in DOMAIN plan, NEW j \in 1 .. m
       PROVE  \E i \in earlier :
                /\ Cardinality({k \in earlier : k > i}) < Window
                /\ j \in DOMAIN log[i].r.segs /\ log[i].r.segs[j].id = r.segs[j].id
  <2>1. /\ DOMAIN r.segs = 1 .. Len(r.segs) /\ Len(r.segs) \in Nat
        /\ j \in 1 .. Len(r.segs) /\ r.segs[j].id # Absent
    <3>1. m \in DOMAIN r.segs /\ DOMAIN r.segs = 1 .. Len(r.segs) /\ Len(r.segs) \in Nat
      BY <1>1 DEF IsRequest, Sequence
    <3>2. j \in 1 .. Len(r.segs)
      BY <3>1
    <3> QED BY <3>1, <3>2 DEF IsRequest
  <2>2. Rates(r)[j] < 100
    BY <1>1
  <2> DEFINE ids == Ids(r, Len(r.segs))
  <2>3. j \notin Unfamiliar(s, ids, Warmup)
    <3>1. Rates(r)[j] = IF j \in Unfamiliar(s, ids, Warmup) THEN 100 ELSE ChangeRates(s)[j]
      BY <2>1 DEF Rates
    <3>2. ~(100 < 100)
      OBVIOUS
    <3> HIDE DEF s, ids
    <3> QED BY <2>2, <3>1, <3>2, Zenon
  <2>4. j \in DOMAIN ids /\ ids[j] = r.segs[j].id
    BY <2>1 DEF Ids
  <2>5. j \in DOMAIN st.values /\ Contains(st.values[j], r.segs[j].id)
    <3> HIDE DEF s, ids
    <3> QED BY <1>5, <2>3, <2>4 DEF Unfamiliar
  <2>6. j \in 1 .. Len(st.values)
    BY <1>9, <2>5 DEF Sequence
  <2>7. PICK k \in 1 .. Len(st.values[j]) : st.values[j][k] = r.segs[j].id
    BY <2>5 DEF Contains
  <2>8. Held(log, earlier, j, r.segs[j].id, Len(st.values[j]) - k)
    BY <1>9, <2>1, <2>6, <2>7
  <2>9. PICK i \in earlier : /\ Later(earlier, i) <= Len(st.values[j]) - k
                             /\ j \in DOMAIN log[i].r.segs /\ log[i].r.segs[j].id = r.segs[j].id
    BY <2>8 DEF Held
  <2>10. Later(earlier, i) < Window
    <3>1. Later(earlier, i) \in Nat
      BY <1>6, <1>7, LaterIs
    <3>2. Len(st.values[j]) \in Nat /\ Len(st.values[j]) <= Window /\ Window \in Nat
      BY <1>9, <2>6, MonitorAssumption DEF Sequence
    <3> QED BY <2>9, <3>1, <3>2
  <2> QED
    BY <2>9, <2>10 DEF Later
<1>12. (Len(log) + 1) - 1 = Len(log)
  BY <1>6
<1> QED
  BY <1>4, <1>10, <1>11, <1>12 DEF OnSeen

--------------------
(* The invariant of the plugin.                                                  *)

CallFields ==
  {"asked", "shown", "wire", "placed", "patched", "answer", "later", "usage"}

\* What a call says of the log, and of what waits.
CallInv(call) ==
  /\ CallFields \subseteq DOMAIN call
  /\ call.shown \in 0 .. Len(log)
  /\ call.placed # <<>> =>
       call.shown >= 1 /\ OnSeen(call.asked, call.placed, call.shown, log)

Waiting(c) ==
  calls[c].answer = "none" /\ calls[c].shown > 0 /\ Len(calls) - c < PendingCap

Reaches(call) ==
  call.answer # "none" /\ call.shown > 0 /\ call.later < PendingCap => call.answer = "used"

Inv ==
  /\ Kept /\ Sequence(alerts)
  /\ Sequence(calls)
  /\ \A c \in 1 .. Len(calls) : CallInv(calls[c]) /\ Reaches(calls[c])
  /\ Queue(pending, Len(calls))
  /\ \A c \in 1 .. Len(calls) : Waiting(c) => Has(pending, c)

LEMMA InvSaysSo == Inv => MarkersOnSeenContent /\ DecisionReachesItsResponse
<1> SUFFICES ASSUME Inv PROVE MarkersOnSeenContent /\ DecisionReachesItsResponse
  OBVIOUS
<1>1. DOMAIN calls = 1 .. Len(calls)
  BY DEF Inv, Sequence
<1>2. MarkersOnSeenContent
  BY <1>1 DEF Inv, CallInv, OnSeen, MarkersOnSeenContent
<1>3. DecisionReachesItsResponse
  BY <1>1 DEF Inv, Reaches, DecisionReachesItsResponse
<1> QED
  BY <1>2, <1>3

LEMMA InitInv == ASSUME NEW configs PROVE PluginInit(configs) => Inv
<1> SUFFICES ASSUME PluginInit(configs) PROVE Inv
  OBVIOUS
<1>1. /\ table = [order |-> <<>>, state |-> <<>>] /\ log = <<>> /\ raised = <<>>
      /\ alerts = <<>> /\ pending = <<>> /\ calls = <<>>
  BY DEF PluginInit, MonitorInit
<1>2. TableBacked(table, log)
  <2>1. table.state = <<>> /\ table.order = <<>>
    BY <1>1
  <2>2. IsTable(table)
    BY <1>1, EmptyIs DEF IsTable
  <2> QED
    BY <2>1, <2>2, EmptyIs DEF TableBacked
<1>3. Queue(pending, Len(calls))
  BY <1>1, EmptyIs, PluginAssumption DEF Queue
<1> QED
  BY <1>1, <1>2, <1>3, EmptyIs DEF Inv, Kept

\* Another entry in the log, or none, leaves the calls true.
LEMMA CallStays ==
  ASSUME Kept, NEW call, CallInv(call), log' = log \/ \E e : log' = Append(log, e)
  PROVE  CallInv(call)'
<1>1. CASE log' = log
  BY <1>1 DEF CallInv
<1>2. ASSUME NEW e, log' = Append(log, e) PROVE CallInv(call)'
  <2>1. Sequence(log) /\ Len(log) \in Nat /\ Len(log') = Len(log) + 1
    BY <1>2, AppendIs DEF Kept, Sequence
  <2>2. call.shown \in 0 .. Len(log')
    BY <2>1 DEF CallInv
  <2>3. ASSUME call.placed # <<>>
        PROVE  call.shown >= 1 /\ OnSeen(call.asked, call.placed, call.shown, log')
    <3>1. call.shown \in 1 .. Len(log) /\ OnSeen(call.asked, call.placed, call.shown, log)
      BY <2>1, <2>3 DEF CallInv
    <3> QED BY <1>2, <2>1, <3>1, OnSeenStays
  <2> QED
    BY <2>2, <2>3 DEF CallInv
<1> QED
  BY <1>1, <1>2

\* One more call, of which nothing is known yet but what went out.
LEMMA CallAdded ==
  ASSUME Inv, Kept', Sequence(alerts)', log' = log \/ \E e : log' = Append(log, e),
         NEW call, calls' = Append(calls, call), CallInv(call)', call.answer = "none",
         Queue(pending', Len(calls) + 1),
         \A c \in 1 .. Len(calls) :
           Has(pending, c) /\ Len(calls) + 1 - c < PendingCap => Has(pending', c),
         call.shown > 0 => Has(pending', Len(calls) + 1)
  PROVE  Inv'
<1>1. PICK n : n = Len(calls)
  OBVIOUS
<1>2. n \in Nat /\ Sequence(calls)
  BY <1>1 DEF Inv, Sequence
<1>3. /\ Sequence(calls') /\ Len(calls') = n + 1 /\ calls'[n + 1] = call
      /\ \A c \in 1 .. n : calls'[c] = calls[c]
  BY <1>1, <1>2, AppendIs
<1>4. ASSUME NEW c \in 1 .. n + 1
      PROVE  CallInv(calls[c])' /\ Reaches(calls[c])' /\ (Waiting(c)' => Has(pending', c))
  <2>1. CASE c = n + 1
    BY <1>1, <1>3, <2>1 DEF CallInv, Reaches, Waiting
  <2>2. CASE c # n + 1
    <3>1. c \in 1 .. n
      BY <1>2, <2>2
    <3>2. PICK old : old = calls[c]
      OBVIOUS
    <3>3. calls'[c] = old
      BY <1>3, <3>1, <3>2
    <3>4. CallInv(old) /\ Reaches(old) /\ (Waiting(c) => Has(pending, c))
      BY <1>1, <3>1, <3>2 DEF Inv
    <3>5. CallInv(old)'
      BY <3>4, CallStays DEF Inv
    <3>6. CallInv(calls[c])' /\ Reaches(calls[c])'
      BY <3>3, <3>4, <3>5 DEF CallInv, Reaches
    <3>7. Waiting(c)' => Has(pending', c)
      <4> SUFFICES ASSUME Waiting(c)' PROVE Has(pending', c)
        OBVIOUS
      <4>0. calls'[c].answer = "none" /\ calls'[c].shown > 0 /\ Len(calls') - c < PendingCap
        BY DEF Waiting
      <4>1. old.answer = "none" /\ old.shown > 0 /\ n + 1 - c < PendingCap
        <5>1. Len(calls') = n + 1
          BY <1>3
        <5> QED BY <1>2, <3>1, <3>3, <4>0, <5>1
      <4>2. n - c < PendingCap
        <5>1. PendingCap \in Nat
          BY PluginAssumption
        <5> QED BY <1>2, <3>1, <4>1, <5>1
      <4>3. Waiting(c)
        BY <1>1, <3>2, <4>1, <4>2 DEF Waiting
      <4> QED BY <1>1, <3>1, <3>4, <4>1, <4>3
    <3> QED BY <3>6, <3>7
  <2> QED
    BY <2>1, <2>2
<1> QED
  BY <1>1, <1>3, <1>4 DEF Inv

\* A step that is not about a call.
LEMMA CallsStay ==
  ASSUME Inv, Kept', log' = log \/ \E e : log' = Append(log, e),
         UNCHANGED <<alerts, pending, calls>>
  PROVE  Inv'
<1>1. ASSUME NEW c \in 1 .. Len(calls) PROVE CallInv(calls[c])'
  <2>1. PICK call : call = calls[c]
    OBVIOUS
  <2>2. CallInv(call)'
    BY <2>1, CallStays DEF Inv
  <2> QED
    BY <2>1, <2>2 DEF CallInv
<1> QED
  BY <1>1 DEF Inv, Reaches, Waiting

LEMMA QueueGrows ==
  ASSUME NEW q, NEW n \in Nat, Queue(q, n)
  PROVE  Queue(q, n + 1)
<1>1. \A k : k \in 1 .. n => k \in 1 .. n + 1
  OBVIOUS
<1> QED
  BY <1>1 DEF Queue

LEMMA FailOpenInv ==
  ASSUME Inv, NEW r, FailOpen(r)
  PROVE  Inv'
<1> DEFINE call == [asked |-> r, shown |-> 0, wire |-> r.segs, placed |-> <<>>, patched |-> FALSE,
                    answer |-> "none", later |-> 0, usage |-> Absent]
<1>1. /\ calls' = Append(calls, call)
      /\ UNCHANGED <<table, log, raised, alerts, pending>>
  BY DEF FailOpen, monitorVars
<1>2. Kept' /\ Sequence(alerts)'
  BY <1>1 DEF Inv, Kept, TableBacked
<1>3. CallInv(call)' /\ call.answer = "none" /\ ~(call.shown > 0)
  <2>1. Len(log') \in Nat
    BY <1>2 DEF Kept, Sequence
  <2> QED
    BY <2>1 DEF CallInv, CallFields
<1>4. Queue(pending', Len(calls) + 1)
  BY <1>1, QueueGrows DEF Inv, Sequence
<1> HIDE DEF call
<1> QED
  BY <1>1, <1>2, <1>3, <1>4, CallAdded

LEMMA ObserveInv ==
  ASSUME Inv, NEW r, IsRequest(r), Observe(r), UNCHANGED pluginVars
  PROVE  Inv'
<1>1. HasSegs(r)
  BY DEF IsRequest, HasSegs, Sequence
<1>2. Kept' /\ \E e : log' = Append(log, e)
  BY <1>1, ObservedNowIs DEF Inv, Observe
<1> QED
  BY <1>2, CallsStay DEF pluginVars

LEMMA ClearInv ==
  ASSUME Inv, NEW scope, NEW code, Clear(scope, code), UNCHANGED pluginVars
  PROVE  Inv'
<1> DEFINE firing == table.state[scope].firing
           left == Keep(firing, {i \in DOMAIN firing : firing[i][1] # code})
           st   == [table.state[scope] EXCEPT !.firing = left]
<1>1. /\ scope \in DOMAIN table.state
      /\ table' = [table EXCEPT !.state[scope].firing = left]
      /\ UNCHANGED <<log, raised>>
  BY DEF Clear
<1>2. IsTable(table) /\ TableBacked(table, log)
  BY DEF Inv, Kept, TableBacked
<1> HIDE DEF left
<1>3. IsState(st) /\ SameEvidence(st, table.state[scope])
  BY <1>1, <1>2 DEF IsTable, IsState, SameEvidence
<1>4. table' = [table EXCEPT !.state[scope] = st]
  BY <1>1
<1>5. IsTable(table') /\ TableKept(table', table)
  <2> HIDE DEF st
  <2> QED BY <1>2, <1>3, <1>4, StateChanged
<1>6. TableBacked(table', log)
  BY <1>2, <1>5 DEF TableBacked, TableKept, SameEvidence, Backed
<1>7. Kept'
  BY <1>1, <1>6 DEF Inv, Kept, TableBacked
<1> QED
  BY <1>1, <1>7, CallsStay DEF pluginVars

LEMMA PatchedIs ==
  ASSUME NEW segs, Sequence(segs), NEW plan,
         \A i \in 1 .. Len(segs) : {"id", "ttl"} \subseteq DOMAIN segs[i]
  PROVE  Sequence(Patched(segs, plan)) /\ Len(Patched(segs, plan)) = Len(segs)
<1>1. DOMAIN segs = 1 .. Len(segs) /\ Len(segs) \in Nat
  BY DEF Sequence
<1>2. PICK new : new = Patched(segs, plan)
  OBVIOUS
<1>3. new = [i \in 1 .. Len(segs) |-> new[i]]
  BY <1>1, <1>2 DEF Patched
<1> QED
  BY <1>1, <1>2, <1>3, FunctionIsSequence

\* What a call does: its shape is observed, and its decision waits.
LEMMA OnRequestIs ==
  ASSUME NEW r, OnRequest(r)
  PROVE  \E plan, placed, sent, shown, call :
           /\ plan \in Decisions(r)
           /\ placed = IF config.mutate THEN plan ELSE <<>>
           /\ sent = [r EXCEPT !.segs = AsSent(r, placed)]
           /\ shown = [sent EXCEPT !.declared = WireTtl(sent.segs)]
           /\ ObserveShape(shown)
           /\ alerts' = Newest(alerts \o NewAlerts, MaxAlerts)
           /\ pending' = Wait(pending, [key |-> Len(calls) + 1, r |-> sent, placed |-> placed])
           /\ call = [asked |-> r, shown |-> Len(log'),
                      wire |-> IF placed = <<>> THEN r.segs ELSE Patched(r.segs, plan),
                      placed |-> placed, patched |-> config.mutate /\ plan # <<>>, answer |-> "none",
                      later |-> 0, usage |-> Absent]
           /\ calls' = Append(calls, call)
BY Zenon DEF OnRequest

LEMMA AlertsAre ==
  ASSUME Sequence(alerts), Sequence(NewAlerts)
  PROVE  Sequence(Newest(alerts \o NewAlerts, MaxAlerts))
BY ConcatIs, NewestIs, PluginAssumption

\* A request that names no surface is the same request to another surface.
LEMMA PreCallBinds ==
  ASSUME NEW r, IsRequest(r), PreCall(r)
  PROVE  \E q : IsRequest(q) /\ q.sent = r.sent /\ OnRequest(q)
<1>1. PICK q : q = Bound(r)
  OBVIOUS
<1>2. OnRequest(q)
  BY <1>1 DEF PreCall
<1>3. q = r \/ q = [r EXCEPT !.target = config.target]
  BY <1>1 DEF Bound
<1>4. IsRequest(q) /\ q.sent = r.sent
  BY <1>3 DEF IsRequest, RequestFields
<1> QED BY <1>2, <1>4

LEMMA OnRequestInv ==
  ASSUME Inv, NEW r, IsRequest(r), OnRequest(r)
  PROVE  Inv'
<1>1. PICK plan, placed, sent, shown, call :
        /\ plan \in Decisions(r)
        /\ placed = IF config.mutate THEN plan ELSE <<>>
        /\ sent = [r EXCEPT !.segs = AsSent(r, placed)]
        /\ shown = [sent EXCEPT !.declared = WireTtl(sent.segs)]
        /\ ObserveShape(shown)
        /\ alerts' = Newest(alerts \o NewAlerts, MaxAlerts)
        /\ pending' = Wait(pending, [key |-> Len(calls) + 1, r |-> sent, placed |-> placed])
        /\ call = [asked |-> r, shown |-> Len(log'),
                   wire |-> IF placed = <<>> THEN r.segs ELSE Patched(r.segs, plan),
                   placed |-> placed, patched |-> config.mutate /\ plan # <<>>, answer |-> "none",
                   later |-> 0, usage |-> Absent]
        /\ calls' = Append(calls, call)
  BY OnRequestIs
<1>2. HasSegs(shown)
  <2>1. PICK segs : segs = AsSent(r, placed)
    OBVIOUS
  <2>2. Sequence(segs)
    BY <2>1, PatchedIs DEF AsSent, IsRequest
  <2>3. shown.segs = segs
    BY <1>1, <2>1 DEF IsRequest, RequestFields
  <2> QED
    BY <2>2, <2>3 DEF HasSegs, Sequence
<1>3. Kept /\ Sequence(alerts) /\ Sequence(calls) /\ Queue(pending, Len(calls))
  BY DEF Inv
<1>4. Kept' /\ Sequence(NewAlerts) /\ \E e : log' = Append(log, e)
  BY <1>1, <1>2, <1>3, ObservedNowIs DEF ObserveShape
<1>5. PICK e : log' = Append(log, e)
  BY <1>4
<1>6. Sequence(log) /\ Len(log) \in Nat /\ Len(log') = Len(log) + 1
  BY <1>3, <1>5, AppendIs DEF Kept, Sequence
<1>7. Sequence(alerts')
  BY <1>1, <1>3, <1>4, AlertsAre
<1>8. CallInv(call)'
  <2>1. /\ CallFields \subseteq DOMAIN call /\ call.shown = Len(log') /\ call.asked = r
        /\ call.placed = placed
    BY <1>1 DEF CallFields
  <2>2. placed # <<>> => OnSeen(r, placed, Len(log'), log')
    <3> SUFFICES ASSUME placed # <<>> PROVE OnSeen(r, placed, Len(log'), log')
      OBVIOUS
    <3>1. placed = plan
      BY <1>1
    <3>2. OnSeen(r, placed, Len(log) + 1, log)
      BY <1>1, <1>3, <3>1, DecisionIsSeen
    <3>3. OnSeen(r, placed, Len(log) + 1, log')
      BY <1>5, <1>6, <3>2, OnSeenStays
    <3> QED BY <1>6, <3>3
  <2> QED
    BY <1>6, <2>1, <2>2 DEF CallInv
<1>9. PICK n : n = Len(calls)
  OBVIOUS
<1>10. n \in Nat /\ Queue(pending, n)
  BY <1>3, <1>9 DEF Sequence
<1>11. /\ Queue(pending', n + 1)
       /\ \A c \in 1 .. n + 1 :
            (c = n + 1 \/ Has(pending, c)) /\ n + 1 - c < PendingCap => Has(pending', c)
  <2>1. PICK entry : entry = [key |-> n + 1, r |-> sent, placed |-> placed]
    OBVIOUS
  <2>2. entry.key = n + 1 /\ pending' = Wait(pending, entry)
    BY <1>1, <1>9, <2>1
  <2> QED
    BY <1>10, <2>2, WaitIs
<1>12. Has(pending', n + 1)
  <2>1. PICK c : c = n + 1
    OBVIOUS
  <2>2. PendingCap \in Nat \ {0}
    BY PluginAssumption
  <2>3. c \in 1 .. n + 1 /\ n + 1 - c < PendingCap
    BY <1>10, <2>1, <2>2
  <2> QED
    BY <1>11, <2>1, <2>3
<1>13. \A c \in 1 .. n : c \in 1 .. n + 1
  BY <1>10
<1>14. calls' = Append(calls, call) /\ call.answer = "none" /\ call.asked = r
  BY <1>1
<1> QED
  BY <1>4, <1>7, <1>8, <1>9, <1>11, <1>12, <1>13, <1>14, CallAdded

LEMMA ResponseInv ==
  ASSUME Inv, NEW c \in DOMAIN calls, NEW usage, Response(c, usage)
  PROVE  Inv' /\ Len(calls') = Len(calls)
<1>1. PICK n : n = Len(calls)
  OBVIOUS
<1>2. n \in Nat /\ Sequence(calls) /\ DOMAIN calls = 1 .. n /\ c \in 1 .. n
  BY <1>1 DEF Inv, Sequence
<1>3. PICK answer : answer = IF Has(pending, c) THEN "used" ELSE "lost"
  OBVIOUS
<1>4. /\ calls[c].answer = "none"
      /\ calls' = [calls EXCEPT ![c].answer = answer, ![c].later = n - c, ![c].usage = usage]
  BY <1>1, <1>3 DEF Response
<1>5. PICK answered :
        answered = [calls[c] EXCEPT !.answer = answer, !.later = n - c, !.usage = usage]
  OBVIOUS
<1>6. calls' = [calls EXCEPT ![c] = answered]
  BY <1>2, <1>4, <1>5
<1>7. /\ Sequence(calls') /\ Len(calls') = n /\ calls'[c] = answered
      /\ \A d \in 1 .. n : d # c => calls'[d] = calls[d]
  <2>1. calls' = [d \in 1 .. n |-> calls'[d]]
    BY <1>2, <1>6
  <2>2. Sequence(calls') /\ Len(calls') = n
    BY <1>2, <2>1, FunctionIsSequence
  <2> QED
    BY <1>2, <1>6, <2>2
<1>8. CallInv(calls[c]) /\ (Waiting(c) => Has(pending, c))
  BY <1>1, <1>2 DEF Inv
<1>9. /\ answered.asked = calls[c].asked /\ answered.shown = calls[c].shown
      /\ answered.placed = calls[c].placed /\ answered.answer = answer
      /\ answered.later = n - c /\ DOMAIN answered = DOMAIN calls[c]
  BY <1>5, <1>8 DEF CallInv, CallFields
<1>10. Kept' /\ Sequence(alerts') /\ (log' = log \/ \E e : log' = Append(log, e))
  <2>1. CASE UNCHANGED <<table, log, raised, alerts>>
    BY <2>1 DEF Inv, Kept, TableBacked
  <2>2. ASSUME NEW observed, ObserveUsage(observed),
               alerts' = Newest(alerts \o NewAlerts, MaxAlerts)
        PROVE  Kept' /\ Sequence(alerts') /\ \E e : log' = Append(log, e)
    <3>1. Kept' /\ Sequence(NewAlerts) /\ \E e : log' = Append(log, e)
      BY <2>2, ObservedNowIs DEF Inv, ObserveUsage
    <3>2. PICK kept : kept = Newest(alerts \o NewAlerts, MaxAlerts)
      OBVIOUS
    <3>3. Sequence(kept)
      BY <3>1, <3>2, AlertsAre DEF Inv
    <3> QED BY <2>2, <3>1, <3>2, <3>3
  <2>3. \/ UNCHANGED <<table, log, raised, alerts>>
        \/ \E observed : /\ ObserveUsage(observed)
                         /\ alerts' = Newest(alerts \o NewAlerts, MaxAlerts)
    BY Zenon DEF Response, monitorVars
  <2> QED
    BY <2>1, <2>2, <2>3
<1>11. /\ Queue(pending', n)
       /\ \A d : d # c /\ Has(pending, d) => Has(pending', d)
  <2>1. Queue(pending, n)
    BY <1>1 DEF Inv
  <2>2. pending' = IF Has(pending, c) THEN RemoveAt(pending, PlaceOf(pending, c)) ELSE pending
    BY DEF Response
  <2> QED
    BY <1>2, <2>1, <2>2, TakenIs
<1>12. ASSUME NEW d \in 1 .. n
       PROVE  CallInv(calls[d])' /\ Reaches(calls[d])' /\ (Waiting(d)' => Has(pending', d))
  <2>1. PICK old : old = calls[d]
    OBVIOUS
  <2>2. CallInv(old) /\ Reaches(old) /\ (Waiting(d) => Has(pending, d))
    BY <1>1, <2>1 DEF Inv
  <2>3. CallInv(old)'
    BY <1>10, <2>2, CallStays DEF Inv
  <2>4. Waiting(d)' => /\ calls'[d].answer = "none" /\ calls'[d].shown > 0
                       /\ n - d < PendingCap
    BY <1>7 DEF Waiting
  <2>5. CASE d = c
    <3>1. CallInv(answered)'
      BY <1>9, <2>1, <2>3, <2>5 DEF CallInv
    <3>2. Reaches(answered)
      <4> SUFFICES ASSUME answered.shown > 0, answered.later < PendingCap
                   PROVE  answered.answer = "used"
        BY DEF Reaches
      <4>1. Waiting(c)
        BY <1>1, <1>4, <1>9 DEF Waiting
      <4> QED BY <1>3, <1>8, <1>9, <4>1
    <3>3. ~Waiting(d)'
      BY <1>3, <1>7, <1>9, <2>4, <2>5
    <3> QED BY <1>7, <2>5, <3>1, <3>2, <3>3 DEF CallInv, Reaches
  <2>6. CASE d # c
    <3>1. calls'[d] = old
      BY <1>7, <2>1, <2>6
    <3>2. Waiting(d)' => Waiting(d)
      BY <1>1, <2>1, <2>4, <3>1 DEF Waiting
    <3> QED BY <1>11, <2>2, <2>3, <2>6, <3>1, <3>2 DEF CallInv, Reaches
  <2> QED
    BY <2>5, <2>6
<1> QED
  BY <1>1, <1>7, <1>10, <1>11, <1>12 DEF Inv

--------------------
(* The theorems.                                                                 *)

LEMMA NextInv ==
  ASSUME NEW requests, NEW usages, \A r \in requests : IsRequest(r), Inv,
         [PluginNext(requests, usages)]_<<monitorVars, pluginVars>>
  PROVE  Inv'
<1>1. CASE UNCHANGED <<monitorVars, pluginVars>>
  BY <1>1 DEF monitorVars, pluginVars, Inv, Kept, TableBacked, CallInv, Reaches, Waiting
<1>2. ASSUME NEW r \in requests, PreCall(r) PROVE Inv'
  BY <1>2, PreCallBinds, OnRequestInv
<1>3. ASSUME NEW r \in requests, FailOpen(r) PROVE Inv'
  BY <1>3, FailOpenInv
<1>4. ASSUME NEW c \in DOMAIN calls, NEW usage \in usages, Response(c, usage) PROVE Inv'
  BY <1>4, ResponseInv
<1>5. ASSUME NEW r \in requests, Observe(r), UNCHANGED pluginVars PROVE Inv'
  BY <1>5, ObserveInv
<1>6. ASSUME NEW scope, NEW code, Clear(scope, code), UNCHANGED pluginVars PROVE Inv'
  BY <1>6, ClearInv
<1> QED
  BY <1>1, <1>2, <1>3, <1>4, <1>5, <1>6 DEF PluginNext

\* Whoever calls and whatever answers (any requests whose sections have contents, in
\* any order, with responses that come late, twice apart or never): what _decide
\* places is placed on content of the latest requests of the chain, as many of them
\* as the warmup asks for.
THEOREM MarkersAreOnSeenContent ==
  ASSUME NEW CONSTANT configs, NEW CONSTANT requests, NEW CONSTANT usages,
         \A r \in requests : IsRequest(r)
  PROVE  PluginSpec(configs, requests, usages) => []MarkersOnSeenContent
<1>1. PluginInit(configs) => Inv
  BY InitInv
<1>2. Inv /\ [PluginNext(requests, usages)]_<<monitorVars, pluginVars>> => Inv'
  BY NextInv
<1>3. Inv => MarkersOnSeenContent
  BY InvSaysSo
<1> QED
  BY <1>1, <1>2, <1>3, PTL DEF PluginSpec

\* The same of the decisions that wait (_pending): the one that makes room is that of
\* a call as many calls back as can wait, so that no younger one is lost.
THEOREM DecisionsReachTheirResponses ==
  ASSUME NEW CONSTANT configs, NEW CONSTANT requests, NEW CONSTANT usages,
         \A r \in requests : IsRequest(r)
  PROVE  PluginSpec(configs, requests, usages) => []DecisionReachesItsResponse
<1>1. PluginInit(configs) => Inv
  BY InitInv
<1>2. Inv /\ [PluginNext(requests, usages)]_<<monitorVars, pluginVars>> => Inv'
  BY NextInv
<1>3. Inv => DecisionReachesItsResponse
  BY InvSaysSo
<1> QED
  BY <1>1, <1>2, <1>3, PTL DEF PluginSpec

--------------------
(* An order of members, the most recently used one last.                         *)

Members(s) == {s[i] : i \in 1 .. Len(s)}
Distinct(s) == \A i, j \in 1 .. Len(s) : s[i] = s[j] => i = j
Behind(s, i) == {s[j] : j \in i + 1 .. Len(s)}

IsOrder(s, cap) == Sequence(s) /\ Distinct(s) /\ Len(s) <= cap

\* What is touched goes to the end, from the place p or from nowhere; the first member
\* gives way when there are too many.
TouchedFrom(t, s, x, cap, p) ==
  /\ Sequence(t) /\ t[Len(t)] = x
  /\ Len(t) = IF p <= Len(s) THEN Len(s) ELSE Len(s) + 1
  /\ \A i \in 1 .. Len(t) - 1 : t[i] = IF i < p THEN s[i] ELSE s[i + 1]
  /\ p <= Len(s) => s[p] = x \/ (p = 1 /\ Len(s) = cap /\ x \notin Members(s))
  /\ p = Len(s) + 1 => x \notin Members(s) /\ Len(s) < cap

LEMMA TouchFrom ==
  ASSUME NEW s, NEW cap \in Nat \ {0}, IsOrder(s, cap), NEW x
  PROVE  \E p \in 1 .. Len(s) + 1 : TouchedFrom(Touch(s, x, cap), s, x, cap, p)
<1> DEFINE t == Touch(s, x, cap)
<1>1. Sequence(s) /\ Len(s) \in Nat /\ DOMAIN s = 1 .. Len(s) /\ Len(s) <= cap
  BY DEF IsOrder, Sequence
<1>2. CASE Contains(s, x)
  <2>1. PICK p : p = CHOOSE i \in DOMAIN s : s[i] = x
    OBVIOUS
  <2>2. p \in 1 .. Len(s) /\ s[p] = x
    BY <1>1, <1>2, <2>1 DEF Contains
  <2>3. PICK rest : rest = RemoveAt(s, p)
    OBVIOUS
  <2>4. /\ Sequence(rest) /\ Len(rest) = Len(s) - 1
        /\ \A k \in 1 .. Len(s) - 1 : rest[k] = IF k < p THEN s[k] ELSE s[k + 1]
    BY <1>1, <2>2, <2>3, RemoveAtIs
  <2>5. t = Push(rest, x, cap)
    BY <1>2, <2>1, <2>3 DEF Touch
  <2>6. /\ Sequence(t) /\ Len(t) = Len(s) /\ t[Len(t)] = x
        /\ \A k \in 1 .. Len(s) - 1 : t[k] = rest[k]
    <3> HIDE DEF t
    <3>1. /\ Sequence(t) /\ Len(t) = (IF Len(rest) < cap THEN Len(rest) + 1 ELSE cap)
          /\ t[Len(t)] = x
          /\ \A k \in 1 .. Len(t) - 1 : t[k] = rest[k + (Len(rest) + 1 - Len(t))]
      <4>1. Sequence(rest)
        BY <2>4
      <4> QED BY <2>5, <4>1, PushIs
    <3>2. Len(rest) < cap /\ Len(rest) + 1 = Len(s)
      BY <1>1, <2>2, <2>4
    <3>3. Len(t) = Len(s)
      BY <3>1, <3>2
    <3>4. \A k \in 1 .. Len(s) - 1 : k + (Len(rest) + 1 - Len(t)) = k
      BY <1>1, <3>2, <3>3
    <3> QED BY <3>1, <3>3, <3>4
  <2> HIDE DEF t
  <2>7. p # Len(s) + 1 /\ p <= Len(s) /\ p \in 1 .. Len(s) + 1
    BY <1>1, <2>2
  <2>8. TouchedFrom(t, s, x, cap, p)
    BY <2>2, <2>4, <2>6, <2>7 DEF TouchedFrom
  <2> QED
    BY <2>7, <2>8 DEF t
<1>3. CASE ~Contains(s, x)
  <2>1. x \notin Members(s)
    BY <1>3 DEF Contains, Members
  <2>2. t = Push(s, x, cap)
    BY <1>3 DEF Touch
  <2>3. /\ Sequence(t) /\ Len(t) = (IF Len(s) < cap THEN Len(s) + 1 ELSE cap) /\ t[Len(t)] = x
        /\ \A k \in 1 .. Len(t) - 1 : t[k] = s[k + (Len(s) + 1 - Len(t))]
    BY <1>1, <2>2, PushIs
  <2> HIDE DEF t
  <2>4. CASE Len(s) < cap
    <3>1. Len(t) = Len(s) + 1
      BY <2>3, <2>4
    <3>2. \A k \in 1 .. Len(t) - 1 : k + (Len(s) + 1 - Len(t)) = k /\ k < Len(s) + 1
      BY <1>1, <3>1
    <3>3. \A k \in 1 .. Len(t) - 1 : t[k] = s[k]
      BY <2>3, <3>2
    <3>4. PICK p : p = Len(s) + 1
      OBVIOUS
    <3>5. p \in 1 .. Len(s) + 1 /\ ~(p <= Len(s)) /\ \A k \in 1 .. Len(t) - 1 : k < p
      BY <1>1, <3>2, <3>4
    <3>6. TouchedFrom(t, s, x, cap, p)
      BY <2>1, <2>3, <2>4, <3>1, <3>3, <3>4, <3>5 DEF TouchedFrom
    <3> QED BY <3>5, <3>6 DEF t
  <2>5. CASE ~(Len(s) < cap)
    <3>a. cap \in Nat /\ Len(s) \in Nat /\ Len(s) <= cap
      BY <1>1
    <3>0. Len(s) = cap
      BY <2>5, <3>a
    <3>1. Len(s) = cap /\ Len(t) = Len(s) /\ Len(s) >= 1
      BY <2>3, <2>5, <3>0
    <3>2. \A k \in 1 .. Len(t) - 1 : k + (Len(s) + 1 - Len(t)) = k + 1 /\ ~(k < 1)
      BY <1>1, <3>1
    <3>3. \A k \in 1 .. Len(t) - 1 : t[k] = s[k + 1]
      BY <2>3, <3>2
    <3>4. PICK p : p = 1
      OBVIOUS
    <3>5. p \in 1 .. Len(s) + 1 /\ p <= Len(s) /\ p # Len(s) + 1
          /\ \A k \in 1 .. Len(t) - 1 : ~(k < p)
      BY <1>1, <3>1, <3>2, <3>4
    <3>6. TouchedFrom(t, s, x, cap, p)
      BY <2>1, <2>3, <3>1, <3>3, <3>4, <3>5 DEF TouchedFrom
    <3> QED BY <3>5, <3>6 DEF t
  <2> QED
    BY <2>4, <2>5
<1> QED
  BY <1>2, <1>3

\* The order t after x was touched in s.
TouchedIs(t, s, x, cap) ==
  /\ IsOrder(t, cap) /\ Len(t) >= 1 /\ t[Len(t)] = x
  /\ Len(t) >= Len(s)
  /\ \A i \in 1 .. Len(t) - 1 :
       /\ t[i] # x
       /\ \E k \in 1 .. Len(s) : s[k] = t[i] /\ Behind(t, i) = Behind(s, k) \cup {x}
  /\ \A k \in 1 .. Len(s) :
       \/ s[k] \in Members(t)
       \/ x \notin Members(s) /\ Len(s) = cap /\ k = 1

LEMMA TouchIs ==
  ASSUME NEW s, NEW cap \in Nat \ {0}, IsOrder(s, cap), NEW x
  PROVE  TouchedIs(Touch(s, x, cap), s, x, cap)
<1>1. PICK t : t = Touch(s, x, cap)
  OBVIOUS
<1>2. PICK p \in 1 .. Len(s) + 1 : TouchedFrom(t, s, x, cap, p)
  BY <1>1, TouchFrom
<1>3. /\ Sequence(s) /\ Len(s) \in Nat /\ Len(s) <= cap
      /\ \A i, j \in 1 .. Len(s) : s[i] = s[j] => i = j
  BY DEF IsOrder, Sequence, Distinct
<1>4. /\ Sequence(t) /\ t[Len(t)] = x
      /\ Len(t) = IF p <= Len(s) THEN Len(s) ELSE Len(s) + 1
      /\ \A i \in 1 .. Len(t) - 1 : t[i] = IF i < p THEN s[i] ELSE s[i + 1]
      /\ p <= Len(s) => s[p] = x \/ (p = 1 /\ Len(s) = cap /\ x \notin Members(s))
      /\ p = Len(s) + 1 => x \notin Members(s) /\ Len(s) < cap
  BY <1>2 DEF TouchedFrom
<1> DEFINE from(i) == IF i < p THEN i ELSE i + 1
<1>5. /\ Len(t) \in Nat /\ Len(t) >= 1 /\ Len(t) <= cap /\ Len(t) >= Len(s)
      /\ \A i \in 1 .. Len(t) - 1 : /\ from(i) \in 1 .. Len(s) /\ from(i) # p
                                    /\ t[i] = s[from(i)]
                                    /\ from(i) >= i
      /\ \A i, j \in 1 .. Len(t) - 1 : i < j => from(i) < from(j)
  BY <1>3, <1>4
<1>6. \A k \in 1 .. Len(s) : k # p => \E i \in 1 .. Len(t) - 1 : from(i) = k
  <2> SUFFICES ASSUME NEW k \in 1 .. Len(s), k # p PROVE \E i \in 1 .. Len(t) - 1 : from(i) = k
    OBVIOUS
  <2>1. CASE k < p
    <3>1. k \in 1 .. Len(t) - 1 /\ from(k) = k
      BY <1>3, <1>4, <2>1
    <3> QED BY <3>1
  <2>2. CASE k > p
    <3>1. k - 1 \in 1 .. Len(t) - 1 /\ from(k - 1) = k
      BY <1>3, <1>4, <2>2
    <3> QED BY <3>1
  <2> QED
    BY <1>3, <2>1, <2>2
<1>7. \A k \in 1 .. Len(s) : s[k] = x => k = p
  <2> SUFFICES ASSUME NEW k \in 1 .. Len(s), s[k] = x PROVE k = p
    OBVIOUS
  <2>1. x \in Members(s)
    BY DEF Members
  <2>2. p <= Len(s) /\ s[p] = x
    BY <1>3, <1>4, <2>1
  <2> QED
    BY <1>3, <2>2
<1> HIDE DEF from
<1>8. \A i \in 1 .. Len(t) - 1 : t[i] # x
  BY <1>5, <1>7
<1>9. IsOrder(t, cap)
  <2>1. ASSUME NEW i \in 1 .. Len(t), NEW j \in 1 .. Len(t), t[i] = t[j] PROVE i = j
    <3>1. CASE i = Len(t) \/ j = Len(t)
      <4>1. \A k \in 1 .. Len(t) : k # Len(t) => k \in 1 .. Len(t) - 1
        BY <1>5
      <4> QED BY <1>4, <1>8, <2>1, <3>1, <4>1
    <3>2. CASE i # Len(t) /\ j # Len(t)
      <4>1. i \in 1 .. Len(t) - 1 /\ j \in 1 .. Len(t) - 1
        BY <1>5, <3>2
      <4>2. s[from(i)] = s[from(j)] /\ from(i) \in 1 .. Len(s) /\ from(j) \in 1 .. Len(s)
        BY <1>5, <2>1, <4>1
      <4>3. from(i) = from(j)
        BY <1>3, <4>2
      <4>4. ~(i < j) /\ ~(j < i)
        BY <1>5, <4>1, <4>2, <4>3
      <4> QED BY <4>1, <4>4
    <3> QED BY <3>1, <3>2
  <2> QED
    BY <1>4, <1>5, <2>1 DEF IsOrder, Distinct
<1>10. ASSUME NEW i \in 1 .. Len(t) - 1
       PROVE  \E k \in 1 .. Len(s) : s[k] = t[i] /\ Behind(t, i) = Behind(s, k) \cup {x}
  <2>1. PICK k \in 1 .. Len(s) : k = from(i)
    BY <1>5
  <2>2. s[k] = t[i] /\ k # p
    BY <1>5, <2>1
  <2>3. Behind(t, i) \subseteq Behind(s, k) \cup {x}
    <3> SUFFICES ASSUME NEW j \in i + 1 .. Len(t) PROVE t[j] \in Behind(s, k) \cup {x}
      BY DEF Behind
    <3>1. CASE j = Len(t)
      BY <1>4, <3>1
    <3>2. CASE j # Len(t)
      <4>1. j \in 1 .. Len(t) - 1 /\ i < j
        BY <1>5, <3>2
      <4>2. from(j) \in k + 1 .. Len(s) /\ t[j] = s[from(j)]
        <5>1. from(j) \in 1 .. Len(s) /\ k < from(j) /\ t[j] = s[from(j)]
          BY <1>5, <2>1, <4>1
        <5> QED BY <1>3, <5>1
      <4> QED BY <4>2 DEF Behind
    <3> QED BY <3>1, <3>2
  <2>4. x \in Behind(t, i)
    <3>1. Len(t) \in i + 1 .. Len(t)
      BY <1>5
    <3> QED BY <1>4, <3>1 DEF Behind
  <2>5. Behind(s, k) \subseteq Behind(t, i)
    <3> SUFFICES ASSUME NEW j \in k + 1 .. Len(s) PROVE s[j] \in Behind(t, i)
      BY DEF Behind
    <3>0. j \in 1 .. Len(s) /\ k < j
      BY <1>3
    <3>1. CASE j = p
      <4>1. p <= Len(s) /\ p # 1
        BY <1>3, <3>0, <3>1
      <4>2. s[j] = x
        BY <1>4, <3>1, <4>1
      <4> QED BY <2>4, <4>2
    <3>2. CASE j # p
      <4>1. PICK m \in 1 .. Len(t) - 1 : from(m) = j
        BY <1>6, <3>0, <3>2
      <4>2. i < m
        <5>1. m = i => j = k
          BY <2>1, <4>1
        <5>2. m < i => j < k
          BY <1>5, <2>1, <4>1
        <5> QED BY <1>3, <1>5, <3>0, <5>1, <5>2
      <4>3. m \in i + 1 .. Len(t) /\ t[m] = s[j]
        BY <1>5, <4>1, <4>2
      <4> QED BY <4>3 DEF Behind
    <3> QED BY <3>1, <3>2
  <2> QED
    BY <2>2, <2>3, <2>4, <2>5
<1>11. ASSUME NEW k \in 1 .. Len(s)
       PROVE  s[k] \in Members(t) \/ (x \notin Members(s) /\ Len(s) = cap /\ k = 1)
  <2>1. CASE k # p
    <3>1. PICK i \in 1 .. Len(t) - 1 : from(i) = k
      BY <1>6, <2>1
    <3>2. t[i] = s[k] /\ i \in 1 .. Len(t)
      BY <1>5, <3>1
    <3> QED BY <3>2 DEF Members
  <2>2. CASE k = p
    <3>1. s[p] = x \/ (p = 1 /\ Len(s) = cap /\ x \notin Members(s))
      BY <1>3, <1>4, <2>2
    <3>2. x \in Members(t)
      BY <1>4, <1>5 DEF Members
    <3> QED BY <2>2, <3>1, <3>2
  <2> QED BY <2>1, <2>2
<1>12. TouchedIs(t, s, x, cap)
  BY <1>4, <1>5, <1>8, <1>9, <1>10, <1>11 DEF TouchedIs
<1> QED
  BY <1>1, <1>12

--------------------
(* What an order tells of the touches it comes from.                             *)

\* The members that were touched after x was touched last.
After(ts, n, x) == {ts[k] : k \in {k \in 1 .. n : \A m \in k .. n : ts[m] # x}}

Touched(ts, n) == {ts[k] : k \in 1 .. n}

\* An order holds the members that were touched last, in the order of their last touches.
Recency(order, cap, ts, n) ==
  /\ IsOrder(order, cap)
  /\ \A i \in 1 .. Len(order) :
       order[i] \in Touched(ts, n) /\ After(ts, n, order[i]) = Behind(order, i)
  /\ \A x \in Touched(ts, n) : x \notin Members(order) =>
       Len(order) = cap /\ Members(order) \subseteq After(ts, n, x)

LEMMA RecencyStart ==
  ASSUME NEW cap \in Nat \ {0}, NEW ts
  PROVE  Recency(<<>>, cap, ts, 0)
BY EmptyIs DEF Recency, IsOrder, Distinct, Touched

\* Touches that were made stay made.
LEMMA RecencyOfSame ==
  ASSUME NEW order, NEW cap, NEW ts, NEW n \in Nat, Recency(order, cap, ts, n),
         NEW us, \A k \in 1 .. n : us[k] = ts[k]
  PROVE  Recency(order, cap, us, n)
<1>1. Touched(us, n) = Touched(ts, n)
  BY DEF Touched
<1>2. \A x : After(us, n, x) = After(ts, n, x)
  <2> TAKE x
  <2> DEFINE S(vs) == {k \in 1 .. n : \A m \in k .. n : vs[m] # x}
  <2>1. \A k \in 1 .. n : \A m \in k .. n : us[m] = ts[m]
    OBVIOUS
  <2>2. S(us) = S(ts)
    BY <2>1
  <2>3. \A k \in S(us) : us[k] = ts[k]
    OBVIOUS
  <2>4. {us[k] : k \in S(us)} = {ts[k] : k \in S(ts)}
    <3> HIDE DEF S
    <3> QED BY <2>2, <2>3
  <2> QED
    BY <2>4 DEF After
<1> QED
  BY <1>1, <1>2 DEF Recency

LEMMA AfterOneMore ==
  ASSUME NEW ts, NEW n \in Nat, NEW y
  PROVE  /\ y = ts[n + 1] => After(ts, n + 1, y) = {}
         /\ y # ts[n + 1] => After(ts, n + 1, y) = After(ts, n, y) \cup {ts[n + 1]}
<1>1. ASSUME y = ts[n + 1] PROVE After(ts, n + 1, y) = {}
  <2>1. \A k \in 1 .. n + 1 : n + 1 \in k .. n + 1
    OBVIOUS
  <2> QED
    BY <1>1, <2>1 DEF After
<1>2. ASSUME y # ts[n + 1] PROVE After(ts, n + 1, y) = After(ts, n, y) \cup {ts[n + 1]}
  <2> DEFINE S(m) == {k \in 1 .. m : \A j \in k .. m : ts[j] # y}
  <2>1. S(n + 1) = S(n) \cup {n + 1}
    <3>1. ASSUME NEW k \in S(n + 1) PROVE k \in S(n) \cup {n + 1}
      <4>1. k \in 1 .. n + 1 /\ \A j \in k .. n + 1 : ts[j] # y
        BY <3>1
      <4>2. \A j \in k .. n : j \in k .. n + 1
        BY <4>1
      <4> QED BY <4>1, <4>2
    <3>2. ASSUME NEW k \in S(n) PROVE k \in S(n + 1)
      <4>1. \A j \in k .. n + 1 : j \in k .. n \/ j = n + 1
        OBVIOUS
      <4> QED BY <1>2, <4>1
    <3>3. n + 1 \in S(n + 1)
      <4>1. \A j \in n + 1 .. n + 1 : j = n + 1
        OBVIOUS
      <4> QED BY <1>2, <4>1
    <3> QED BY <3>1, <3>2, <3>3
  <2>2. After(ts, n + 1, y) = {ts[k] : k \in S(n + 1)} /\ After(ts, n, y) = {ts[k] : k \in S(n)}
    BY DEF After
  <2> HIDE DEF S
  <2> QED
    BY <2>1, <2>2
<1> QED
  BY <1>1, <1>2

LEMMA RecencyStep ==
  ASSUME NEW order, NEW cap \in Nat \ {0}, NEW ts, NEW n \in Nat, Recency(order, cap, ts, n)
  PROVE  Recency(Touch(order, ts[n + 1], cap), cap, ts, n + 1)
<1>1. PICK x : x = ts[n + 1]
  OBVIOUS
<1>2. PICK new : new = Touch(order, x, cap)
  OBVIOUS
<1>3. /\ IsOrder(order, cap)
      /\ \A i \in 1 .. Len(order) :
           order[i] \in Touched(ts, n) /\ After(ts, n, order[i]) = Behind(order, i)
      /\ \A y \in Touched(ts, n) : y \notin Members(order) =>
           Len(order) = cap /\ Members(order) \subseteq After(ts, n, y)
  BY DEF Recency
<1>4. /\ IsOrder(new, cap) /\ Len(new) >= 1 /\ new[Len(new)] = x
      /\ Len(new) >= Len(order)
      /\ \A i \in 1 .. Len(new) - 1 :
           /\ new[i] # x
           /\ \E k \in 1 .. Len(order) : order[k] = new[i] /\ Behind(new, i) = Behind(order, k) \cup {x}
      /\ \A k \in 1 .. Len(order) :
           \/ order[k] \in Members(new)
           \/ x \notin Members(order) /\ Len(order) = cap /\ k = 1
  <2>1. TouchedIs(new, order, x, cap)
    BY <1>2, <1>3, TouchIs
  <2> QED
    BY <2>1 DEF TouchedIs
<1>5. Touched(ts, n + 1) = Touched(ts, n) \cup {x}
  <2>1. 1 .. n + 1 = (1 .. n) \cup {n + 1}
    OBVIOUS
  <2> QED BY <1>1, <2>1 DEF Touched
<1>6. Len(new) \in Nat /\ Len(order) \in Nat
  BY <1>3, <1>4 DEF IsOrder, Sequence
<1>7. ASSUME NEW i \in 1 .. Len(new)
      PROVE  new[i] \in Touched(ts, n + 1) /\ After(ts, n + 1, new[i]) = Behind(new, i)
  <2>1. CASE i = Len(new)
    <3>1. Behind(new, i) = {}
      BY <1>6, <2>1 DEF Behind
    <3>2. new[i] = x /\ After(ts, n + 1, x) = {}
      BY <1>1, <1>4, <2>1, AfterOneMore
    <3> QED BY <1>5, <3>1, <3>2
  <2>2. CASE i # Len(new)
    <3>1. i \in 1 .. Len(new) - 1
      BY <1>6, <2>2
    <3>2. PICK k \in 1 .. Len(order) : order[k] = new[i] /\ Behind(new, i) = Behind(order, k) \cup {x}
      BY <1>4, <3>1
    <3>3. new[i] # x
      BY <1>4, <3>1
    <3>4. After(ts, n + 1, new[i]) = After(ts, n, new[i]) \cup {x}
      BY <1>1, <3>3, AfterOneMore
    <3> QED BY <1>3, <1>5, <3>2, <3>4
  <2> QED BY <2>1, <2>2
<1>8. ASSUME NEW y \in Touched(ts, n + 1), y \notin Members(new)
      PROVE  Len(new) = cap /\ Members(new) \subseteq After(ts, n + 1, y)
  <2>1. x \in Members(new)
    BY <1>4, <1>6 DEF Members
  <2>2. y # x /\ y \in Touched(ts, n)
    BY <1>5, <1>8, <2>1
  <2>3. After(ts, n + 1, y) = After(ts, n, y) \cup {x}
    BY <1>1, <2>2, AfterOneMore
  <2>4. Members(new) \subseteq After(ts, n, y) \cup {x} /\ Len(new) = cap
    <3>1. CASE y \notin Members(order)
      <4>1. Len(order) = cap /\ Members(order) \subseteq After(ts, n, y)
        BY <1>3, <2>2, <3>1
      <4>2. Members(new) \subseteq Members(order) \cup {x}
        <5> SUFFICES ASSUME NEW i \in 1 .. Len(new) PROVE new[i] \in Members(order) \cup {x}
          BY DEF Members
        <5>1. i = Len(new) \/ i \in 1 .. Len(new) - 1
          BY <1>6
        <5> QED BY <1>4, <5>1 DEF Members
      <4>3. Len(new) <= cap
        BY <1>4 DEF IsOrder
      <4> QED BY <1>4, <1>6, <4>1, <4>2, <4>3
    <3>2. CASE y \in Members(order)
      <4>1. PICK k \in 1 .. Len(order) : order[k] = y
        BY <3>2 DEF Members
      <4>2. x \notin Members(order) /\ Len(order) = cap /\ k = 1
        BY <1>4, <1>8, <4>1
      <4>3. After(ts, n, y) = Behind(order, 1)
        BY <1>3, <4>1, <4>2
      <4>4. \A j \in 1 .. Len(order) : order[j] # y => order[j] \in Behind(order, 1)
        <5>1. \A j \in 1 .. Len(order) : j # 1 => j \in 1 + 1 .. Len(order)
          BY <1>6
        <5> QED BY <4>1, <4>2, <5>1 DEF Behind
      <4>5. Members(new) \subseteq After(ts, n, y) \cup {x}
        <5> SUFFICES ASSUME NEW i \in 1 .. Len(new) PROVE new[i] \in After(ts, n, y) \cup {x}
          BY DEF Members
        <5>1. i = Len(new) \/ i \in 1 .. Len(new) - 1
          BY <1>6
        <5>2. new[i] # y
          BY <1>8 DEF Members
        <5> QED BY <1>4, <4>3, <4>4, <5>1, <5>2, ZenonT(30)
      <4>6. Len(new) <= cap
        BY <1>4 DEF IsOrder
      <4> QED BY <1>4, <1>6, <4>2, <4>5, <4>6
    <3> QED BY <3>1, <3>2
  <2> QED BY <2>3, <2>4
<1>9. Recency(new, cap, ts, n + 1)
  BY <1>4, <1>7, <1>8 DEF Recency
<1> QED
  BY <1>1, <1>2, <1>9

--------------------
(* Counting the members of an order.                                             *)

LEMMA ImageIsFinite ==
  ASSUME NEW f, NEW S, IsFiniteSet(S)
  PROVE  IsFiniteSet({f[k] : k \in S})
<1> DEFINE T == {f[k] : k \in S}
           g == [k \in S |-> f[k]]
<1>1. g \in Surjection(S, T)
  BY DEF Surjection
<1> HIDE DEF g, T
<1>2. IsFiniteSet(T)
  BY <1>1, FS_Surjection
<1> QED
  BY <1>2 DEF T

LEMMA DistinctCount ==
  ASSUME NEW s, Len(s) \in Nat, Distinct(s), NEW m \in 0 .. Len(s)
  PROVE  LET rest == {s[j] : j \in m + 1 .. Len(s)}
         IN  IsFiniteSet(rest) /\ Cardinality(rest) = Len(s) - m
<1> DEFINE rest == {s[j] : j \in m + 1 .. Len(s)}
           count == Len(s) - m
           f == [j \in 1 .. count |-> s[m + j]]
<1>1. count \in Nat
  OBVIOUS
<1>2. f \in Bijection(1 .. count, rest)
  <2>1. f \in [1 .. count -> rest]
    OBVIOUS
  <2>2. \A a, b \in 1 .. count : f[a] = f[b] => a = b
    <3> SUFFICES ASSUME NEW a \in 1 .. count, NEW b \in 1 .. count, f[a] = f[b] PROVE a = b
      OBVIOUS
    <3>1. m + a \in 1 .. Len(s) /\ m + b \in 1 .. Len(s) /\ s[m + a] = s[m + b]
      OBVIOUS
    <3>2. m + a = m + b
      BY <3>1 DEF Distinct
    <3> QED BY <3>2
  <2>3. \A x \in rest : \E a \in 1 .. count : f[a] = x
    <3> SUFFICES ASSUME NEW j \in m + 1 .. Len(s) PROVE \E a \in 1 .. count : f[a] = s[j]
      OBVIOUS
    <3>1. j - m \in 1 .. count /\ m + (j - m) = j
      OBVIOUS
    <3> QED BY <3>1
  <2> HIDE DEF f, rest, count
  <2> QED BY <2>1, <2>2, <2>3 DEF Bijection, Injection, Surjection, IsInjective
<1>3. IsFiniteSet(1 .. count) /\ Cardinality(1 .. count) = count
  <2> HIDE DEF count
  <2>1. 1 \in Int /\ count \in Int
    BY <1>1
  <2>2. IsFiniteSet(1 .. count) /\ Cardinality(1 .. count) = IF 1 > count THEN 0 ELSE count - 1 + 1
    BY <2>1, FS_Interval
  <2> QED
    BY <1>1, <2>2
<1> HIDE DEF f, rest
<1>4. ExistsBijection(1 .. count, rest)
  BY <1>2 DEF ExistsBijection
<1>5. IsFiniteSet(rest) /\ Cardinality(rest) = count
  BY <1>3, <1>4, FS_Bijection
<1> QED
  BY <1>5 DEF rest

LEMMA MembersCount ==
  ASSUME NEW s, Len(s) \in Nat, Distinct(s)
  PROVE  IsFiniteSet(Members(s)) /\ Cardinality(Members(s)) = Len(s)
<1>1. 0 \in 0 .. Len(s) /\ Len(s) - 0 = Len(s) /\ 0 + 1 = 1
  OBVIOUS
<1> QED
  BY <1>1, DistinctCount DEF Members

\* A member is in the order as long as fewer others than it holds were touched since.
LEMMA RecentMembers ==
  ASSUME NEW order, NEW cap \in Nat \ {0}, NEW ts, NEW n \in Nat, Recency(order, cap, ts, n),
         NEW x \in Touched(ts, n)
  PROVE  x \in Members(order) <=> Cardinality(After(ts, n, x)) < cap
<1>1. Len(order) \in Nat /\ Len(order) <= cap /\ Distinct(order)
  BY DEF Recency, IsOrder, Sequence
<1>2. IsFiniteSet(After(ts, n, x))
  <2>1. IsFiniteSet(1 .. n)
    BY FS_Interval
  <2>2. IsFiniteSet({ts[k] : k \in 1 .. n})
    BY <2>1, ImageIsFinite
  <2>3. After(ts, n, x) \subseteq {ts[k] : k \in 1 .. n}
    BY DEF After
  <2> QED BY <2>2, <2>3, FS_Subset
<1>3. ASSUME x \in Members(order) PROVE Cardinality(After(ts, n, x)) < cap
  <2>1. PICK i \in 1 .. Len(order) : order[i] = x
    BY <1>3 DEF Members
  <2>2. After(ts, n, x) = Behind(order, i)
    BY <2>1 DEF Recency
  <2>3. Cardinality(Behind(order, i)) = Len(order) - i
    <3>1. i \in 0 .. Len(order)
      BY <1>1
    <3> QED BY <1>1, <3>1, DistinctCount DEF Behind
  <2> QED BY <1>1, <2>2, <2>3
<1>4. ASSUME x \notin Members(order) PROVE ~(Cardinality(After(ts, n, x)) < cap)
  <2>1. Len(order) = cap /\ Members(order) \subseteq After(ts, n, x)
    BY <1>4 DEF Recency
  <2>2. Cardinality(Members(order)) = cap
    BY <1>1, <2>1, MembersCount
  <2>3. Cardinality(Members(order)) <= Cardinality(After(ts, n, x))
    BY <1>2, <2>1, FS_Subset
  <2>4. Cardinality(After(ts, n, x)) \in Nat
    BY <1>2, FS_CardinalityType
  <2> QED BY <2>2, <2>3, <2>4
<1> QED
  BY <1>3, <1>4

\* As long as no more than the order holds were touched, it holds them all.
LEMMA AllMembers ==
  ASSUME NEW order, NEW cap \in Nat \ {0}, NEW ts, NEW n \in Nat, Recency(order, cap, ts, n),
         Cardinality(Touched(ts, n)) <= cap
  PROVE  Members(order) = Touched(ts, n)
<1>1. Len(order) \in Nat /\ Len(order) <= cap /\ Distinct(order)
  BY DEF Recency, IsOrder, Sequence
<1>2. Members(order) \subseteq Touched(ts, n)
  BY DEF Recency, Members
<1>3. IsFiniteSet(Touched(ts, n))
  <2>1. IsFiniteSet(1 .. n)
    BY FS_Interval
  <2> QED
    BY <2>1, ImageIsFinite DEF Touched
<1>4. Touched(ts, n) \subseteq Members(order)
  <2> SUFFICES ASSUME NEW x \in Touched(ts, n), x \notin Members(order) PROVE FALSE
    OBVIOUS
  <2>1. Len(order) = cap
    BY DEF Recency
  <2>2. IsFiniteSet(Members(order)) /\ Cardinality(Members(order)) = cap
    BY <1>1, <2>1, MembersCount
  <2>3. Cardinality(Members(order) \cup {x}) = cap + 1
    BY <2>2, FS_AddElement
  <2>4. Members(order) \cup {x} \subseteq Touched(ts, n)
    BY <1>2
  <2>5. Cardinality(Members(order) \cup {x}) <= Cardinality(Touched(ts, n))
    BY <1>3, <2>4, FS_Subset
  <2>6. Cardinality(Touched(ts, n)) \in Nat
    BY <1>3, FS_CardinalityType
  <2> QED BY <2>3, <2>5, <2>6
<1> QED
  BY <1>2, <1>4

--------------------
(* A table as the monitor keeps it: a full state for every scope in its order.   *)

StateFields ==
  {"seen", "values", "gaps", "last", "writes", "marks", "rewrites", "lastSeen", "turns",
   "rebuilds", "firing"}

IsFull(st) ==
  /\ st = [f \in StateFields |-> st[f]]
  /\ Sequence(st.firing) /\ Len(st.firing) <= MaxFiring

FullTable(t) ==
  /\ t = [order |-> t.order, state |-> t.state]
  /\ IsOrder(t.order, MaxScopes)
  /\ t.state = [s \in Members(t.order) |-> t.state[s]]
  /\ \A s \in Members(t.order) : IsFull(t.state[s])

\* Alerts apart, nothing has changed.
Same(new, old) == \A f \in StateFields \ {"firing"} : new[f] = old[f]

LEMMA FreshIsFull == IsFull(FreshState) /\ FreshState.firing = <<>>
<1>1. FreshState = [f \in StateFields |-> FreshState[f]] /\ FreshState.firing = <<>>
  BY DEF FreshState, StateFields
<1> QED
  BY <1>1, EmptyIs, MonitorAssumption DEF IsFull

LEMMA FullIsTable ==
  ASSUME NEW t, FullTable(t)
  PROVE  IsTable(t) /\ DOMAIN t.state = Members(t.order)
<1>1. DOMAIN t.state = Members(t.order)
  BY DEF FullTable
<1>2. \A s \in Members(t.order) : IsState(t.state[s])
  <2> SUFFICES ASSUME NEW s \in Members(t.order) PROVE IsState(t.state[s])
    OBVIOUS
  <2>1. PICK st : st = t.state[s]
    OBVIOUS
  <2>2. st = [f \in StateFields |-> st[f]]
    BY <2>1 DEF FullTable, IsFull
  <2>3. DOMAIN st = StateFields
    BY <2>2
  <2>4. IsState(st)
    BY <2>2, <2>3 DEF IsState, StateFields
  <2> QED
    BY <2>1, <2>4
<1> QED
  BY <1>1, <1>2 DEF FullTable, IsTable

LEMMA MembersAre == ASSUME NEW s, Sequence(s) PROVE ToSet(s) = Members(s)
BY DEF Sequence, ToSet, Members

\* The table u when the scope x was seen in t.
ScopedAs(u, t, x) ==
  /\ FullTable(u) /\ u.order = Touch(t.order, x, MaxScopes)
  /\ \A s \in Members(u.order) :
       u.state[s] = IF s \in Members(t.order) THEN t.state[s] ELSE FreshState

LEMMA ScopeIs ==
  ASSUME NEW t, FullTable(t), NEW x
  PROVE  ScopedAs(Scope(t, x), t, x)
<1>1. PICK u : u = Scope(t, x)
  OBVIOUS
<1>2. PICK kept : kept = Touch(t.order, x, MaxScopes)
  OBVIOUS
<1>3. IsOrder(kept, MaxScopes)
  <2>1. MaxScopes \in Nat \ {0}
    BY MonitorAssumption
  <2>2. TouchedIs(kept, t.order, x, MaxScopes)
    BY <1>2, <2>1, TouchIs DEF FullTable
  <2> QED
    BY <2>2 DEF TouchedIs
<1>4. ToSet(kept) = Members(kept)
  BY <1>3, MembersAre DEF IsOrder
<1>5. DOMAIN t.state = Members(t.order)
  BY FullIsTable
<1>6. u = [order |-> kept,
           state |-> [s \in Members(kept) |-> IF s \in Members(t.order) THEN t.state[s] ELSE FreshState]]
  BY <1>1, <1>2, <1>4, <1>5 DEF Scope
<1>7. FullTable(u)
  BY <1>3, <1>6, FreshIsFull DEF FullTable
<1> QED
  BY <1>1, <1>2, <1>6, <1>7 DEF ScopedAs

\* The scopes that a request sees, one after the other.
First(r)  == SeenBy(r)[1]
Second(r) == SeenBy(r)[2]
Third(r)  == SeenBy(r)[3]

LEMMA SeenAre ==
  ASSUME NEW r
  PROVE  {First(r), Second(r), Third(r)} = {PoolOf(r), RebuildScope(r), ReuseChainOf(r)}
<1>1. CASE ReuseChainOf(r) = PoolOf(r)
  <2>1. First(r) = PoolOf(r) /\ Second(r) = PoolOf(r) /\ Third(r) = RebuildScope(r)
    BY <1>1 DEF SeenBy, First, Second, Third
  <2> QED BY <1>1, <2>1
<1>2. CASE ReuseChainOf(r) # PoolOf(r)
  BY <1>2 DEF SeenBy, First, Second, Third
<1> QED BY <1>1, <1>2

Placed(t, r) == Scope(Scope(Scope(t, First(r)), Second(r)), Third(r))

\* The last member of an order stays in its place when it is seen again.
LEMMA TouchLast ==
  ASSUME NEW s, IsOrder(s, MaxScopes), Len(s) >= 1
  PROVE  Touch(s, s[Len(s)], MaxScopes) = s
<1>1. PICK x, t : x = s[Len(s)] /\ t = Touch(s, x, MaxScopes)
  OBVIOUS
<1>2. PICK p \in 1 .. Len(s) + 1 : TouchedFrom(t, s, x, MaxScopes, p)
  BY <1>1, TouchFrom, MonitorAssumption
<1>3. /\ Sequence(s) /\ Len(s) \in Nat
      /\ \A i, j \in 1 .. Len(s) : s[i] = s[j] => i = j
  BY DEF IsOrder, Sequence, Distinct
<1>4. Len(s) \in 1 .. Len(s) /\ x \in Members(s)
  BY <1>1, <1>3 DEF Members
<1>5. /\ Sequence(t) /\ t[Len(t)] = x
      /\ Len(t) = IF p <= Len(s) THEN Len(s) ELSE Len(s) + 1
      /\ \A i \in 1 .. Len(t) - 1 : t[i] = IF i < p THEN s[i] ELSE s[i + 1]
      /\ p <= Len(s) => s[p] = x \/ (p = 1 /\ Len(s) = MaxScopes /\ x \notin Members(s))
      /\ p = Len(s) + 1 => x \notin Members(s) /\ Len(s) < MaxScopes
  BY <1>2 DEF TouchedFrom
<1>6. p = Len(s)
  BY <1>1, <1>3, <1>4, <1>5
<1>7. Len(t) = Len(s) /\ \A i \in 1 .. Len(s) : t[i] = s[i]
  BY <1>1, <1>3, <1>5, <1>6
<1>8. t = s
  BY <1>3, <1>5, <1>7 DEF Sequence
<1> QED BY <1>1, <1>8

\* A scope that is seen twice in a row is seen once.
LEMMA ScopeTwice ==
  ASSUME NEW t, FullTable(t), NEW x
  PROVE  Scope(Scope(t, x), x) = Scope(t, x)
<1>1. PICK u, v : u = Scope(t, x) /\ v = Scope(u, x)
  OBVIOUS
<1>2. ScopedAs(u, t, x)
  BY <1>1, ScopeIs
<1>3. ScopedAs(v, u, x)
  BY <1>1, <1>2, ScopeIs DEF ScopedAs
<1>4. IsOrder(u.order, MaxScopes) /\ Len(u.order) >= 1 /\ u.order[Len(u.order)] = x
  <2>1. MaxScopes \in Nat \ {0}
    BY MonitorAssumption
  <2>2. TouchedIs(u.order, t.order, x, MaxScopes)
    BY <1>2, <2>1, TouchIs DEF ScopedAs, FullTable
  <2> QED BY <2>2 DEF TouchedIs
<1>5. v.order = u.order
  BY <1>3, <1>4, TouchLast DEF ScopedAs
<1>6. \A s \in Members(u.order) : v.state[s] = u.state[s]
  BY <1>3, <1>5 DEF ScopedAs
<1>7. v = u
  <2>1. /\ u = [order |-> u.order, state |-> u.state] /\ v = [order |-> v.order, state |-> v.state]
        /\ u.state = [s \in Members(u.order) |-> u.state[s]]
        /\ v.state = [s \in Members(v.order) |-> v.state[s]]
    BY <1>2, <1>3 DEF ScopedAs, FullTable
  <2>2. v.state = u.state
    BY <1>5, <1>6, <2>1
  <2> QED BY <1>5, <2>1, <2>2
<1> QED BY <1>1, <1>7

LEMMA FoundIs ==
  ASSUME NEW t, FullTable(t), NEW r
  PROVE  Found(t, r) = Placed(t, r)
<1>1. CASE ReuseChainOf(r) = PoolOf(r)
  <2>1. First(r) = PoolOf(r) /\ Second(r) = PoolOf(r) /\ Third(r) = RebuildScope(r)
    BY <1>1 DEF SeenBy, First, Second, Third
  <2>2. Scope(Scope(t, PoolOf(r)), PoolOf(r)) = Scope(t, PoolOf(r))
    BY ScopeTwice
  <2> QED BY <1>1, <2>1, <2>2 DEF Found, Placed
<1>2. CASE ReuseChainOf(r) # PoolOf(r)
  <2>1. First(r) = PoolOf(r) /\ Second(r) = RebuildScope(r) /\ Third(r) = ReuseChainOf(r)
    BY <1>2 DEF SeenBy, First, Second, Third
  <2> QED BY <1>2, <2>1 DEF Found, Placed
<1> QED BY <1>1, <1>2

TouchedOrder(order, r) ==
  Touch(Touch(Touch(order, First(r), MaxScopes), Second(r), MaxScopes), Third(r), MaxScopes)

\* The last three members of an order.
LEMMA LastThree ==
  ASSUME NEW order, IsOrder(order, MaxScopes), NEW x, NEW y, NEW z
  PROVE  LET a == Touch(order, x, MaxScopes)
             b == Touch(a, y, MaxScopes)
             c == Touch(b, z, MaxScopes)
         IN /\ IsOrder(a, MaxScopes) /\ IsOrder(b, MaxScopes) /\ IsOrder(c, MaxScopes)
            /\ {x, y, z} \subseteq Members(c)
<1>0. MaxScopes \in Nat \ {0} /\ MaxScopes \in Nat /\ MaxScopes >= 3
  BY MonitorAssumption
<1>1. PICK a : a = Touch(order, x, MaxScopes)
  OBVIOUS
<1>2. PICK b : b = Touch(a, y, MaxScopes)
  OBVIOUS
<1>3. PICK c : c = Touch(b, z, MaxScopes)
  OBVIOUS
<1>4. TouchedIs(a, order, x, MaxScopes) /\ IsOrder(a, MaxScopes)
  <2>1. TouchedIs(a, order, x, MaxScopes)
    BY <1>0, <1>1, TouchIs
  <2> QED
    BY <2>1 DEF TouchedIs
<1>5. TouchedIs(b, a, y, MaxScopes) /\ IsOrder(b, MaxScopes)
  <2>1. TouchedIs(b, a, y, MaxScopes)
    BY <1>0, <1>2, <1>4, TouchIs
  <2> QED
    BY <2>1 DEF TouchedIs
<1>6. TouchedIs(c, b, z, MaxScopes) /\ IsOrder(c, MaxScopes)
  <2>1. TouchedIs(c, b, z, MaxScopes)
    BY <1>0, <1>3, <1>5, TouchIs
  <2> QED
    BY <2>1 DEF TouchedIs
<1>7. /\ Len(a) \in Nat /\ Len(b) \in Nat /\ Len(c) \in Nat
      /\ Len(a) >= 1 /\ Len(b) >= Len(a) /\ Len(c) >= Len(b)
      /\ a[Len(a)] = x /\ b[Len(b)] = y /\ c[Len(c)] = z
      /\ \A k \in 1 .. Len(a) : a[k] \in Members(b) \/ (Len(a) = MaxScopes /\ k = 1)
      /\ \A k \in 1 .. Len(b) : b[k] \in Members(c) \/ (Len(b) = MaxScopes /\ k = 1)
  BY <1>4, <1>5, <1>6 DEF TouchedIs, IsOrder, Sequence
<1>8. z \in Members(c)
  <2>1. Len(c) \in 1 .. Len(c)
    BY <1>7
  <2> QED
    BY <1>7, <2>1 DEF Members
<1>9. y \in Members(c)
  <2>1. Len(b) \in 1 .. Len(b) /\ ~(Len(b) = MaxScopes /\ Len(b) = 1)
    BY <1>0, <1>7
  <2> QED
    BY <1>7, <2>1
<1>10. x \in Members(c)
  <2>1. Len(a) \in 1 .. Len(a) /\ ~(Len(a) = MaxScopes /\ Len(a) = 1)
    BY <1>0, <1>7
  <2>2. x \in Members(b)
    BY <1>7, <2>1
  <2>3. PICK k \in 1 .. Len(b) : b[k] = x
    BY <2>2 DEF Members
  <2>4. CASE Len(b) = MaxScopes /\ k = 1
    <3>1. Len(b) >= 3 /\ 1 \in 1 .. Len(b) - 1 /\ b[1] = x
      BY <1>0, <2>3, <2>4
    <3>2. PICK i \in 1 .. Len(a) : a[i] = b[1] /\ Behind(b, 1) = Behind(a, i) \cup {y}
      BY <1>5, <3>1 DEF TouchedIs
    <3>3. i = Len(a)
      <4>1. Len(a) \in 1 .. Len(a)
        BY <1>7
      <4> QED BY <1>4, <1>7, <3>1, <3>2, <4>1 DEF IsOrder, Distinct
    <3>4. Behind(a, i) = {}
      BY <1>7, <3>3 DEF Behind
    <3>5. b[2] \in Behind(b, 1) /\ b[3] \in Behind(b, 1)
      <4>1. 2 \in 1 + 1 .. Len(b) /\ 3 \in 1 + 1 .. Len(b)
        BY <1>7, <3>1
      <4> QED BY <4>1 DEF Behind
    <3>6. b[2] = b[3]
      BY <3>2, <3>4, <3>5
    <3>7. 2 \in 1 .. Len(b) /\ 3 \in 1 .. Len(b)
      BY <1>7, <3>1
    <3> QED BY <1>5, <3>6, <3>7 DEF IsOrder, Distinct
  <2>5. CASE ~(Len(b) = MaxScopes /\ k = 1)
    BY <1>7, <2>3, <2>5
  <2> QED
    BY <2>4, <2>5
<1> QED
  BY <1>1, <1>2, <1>3, <1>4, <1>5, <1>6, <1>8, <1>9, <1>10

\* The table p when the scopes of r were seen in t.
PlacedAs(p, t, r) ==
  /\ FullTable(p) /\ p.order = TouchedOrder(t.order, r)
  /\ {PoolOf(r), RebuildScope(r), ReuseChainOf(r)} \subseteq Members(p.order)
  /\ Carried(p, t)

LEMMA PlacedIs ==
  ASSUME NEW t, FullTable(t), NEW r
  PROVE  PlacedAs(Placed(t, r), t, r)
<1>1. PICK a : a = Scope(t, First(r))
  OBVIOUS
<1>2. PICK b : b = Scope(a, Second(r))
  OBVIOUS
<1>3. PICK c : c = Scope(b, Third(r))
  OBVIOUS
<1>4. ScopedAs(a, t, First(r))
  BY <1>1, ScopeIs
<1>5. ScopedAs(b, a, Second(r))
  BY <1>2, <1>4, ScopeIs DEF ScopedAs
<1>6. ScopedAs(c, b, Third(r))
  BY <1>3, <1>5, ScopeIs DEF ScopedAs
<1>7. c.order = TouchedOrder(t.order, r) /\ FullTable(c)
  BY <1>4, <1>5, <1>6 DEF ScopedAs, TouchedOrder
<1>8. {PoolOf(r), RebuildScope(r), ReuseChainOf(r)} \subseteq Members(c.order)
  BY <1>7, LastThree, SeenAre, ZenonT(30) DEF TouchedOrder, FullTable
<1>9. Carried(c, t)
  <2>1. DOMAIN c.state = Members(c.order) /\ DOMAIN t.state = Members(t.order)
    BY <1>7, FullIsTable
  <2>2. ASSUME NEW s \in Members(c.order)
        PROVE  c.state[s] = FreshState \/ (s \in Members(t.order) /\ c.state[s] = t.state[s])
    <3>1. c.state[s] = FreshState \/ (s \in Members(b.order) /\ c.state[s] = b.state[s])
      BY <1>6 DEF ScopedAs
    <3>2. s \in Members(b.order) =>
            b.state[s] = FreshState \/ (s \in Members(a.order) /\ b.state[s] = a.state[s])
      BY <1>5 DEF ScopedAs
    <3>3. s \in Members(a.order) =>
            a.state[s] = FreshState \/ (s \in Members(t.order) /\ a.state[s] = t.state[s])
      BY <1>4 DEF ScopedAs
    <3> QED BY <3>1, <3>2, <3>3
  <2> QED
    BY <2>1, <2>2 DEF Carried
<1>10. PlacedAs(c, t, r)
  BY <1>7, <1>8, <1>9 DEF PlacedAs
<1> QED
  BY <1>1, <1>2, <1>3, <1>10 DEF Placed

--------------------
(* Alerts: what firing any number of them does.                                  *)

LEMMA AppendMembers ==
  ASSUME NEW s, Sequence(s), NEW x
  PROVE  Members(Append(s, x)) = Members(s) \cup {x}
<1>1. /\ Len(s) \in Nat /\ Len(Append(s, x)) = Len(s) + 1
      /\ \A i \in 1 .. Len(s) : Append(s, x)[i] = s[i]
      /\ Append(s, x)[Len(s) + 1] = x
  BY AppendIs DEF Sequence
<1>2. 1 .. Len(s) + 1 = (1 .. Len(s)) \cup {Len(s) + 1}
  BY <1>1
<1> QED
  BY <1>1, <1>2 DEF Members

LEMMA ConcatMembers ==
  ASSUME NEW s, Sequence(s), NEW t, Sequence(t)
  PROVE  Members(s \o t) = Members(s) \cup Members(t)
<1>1. PICK u : u = s \o t
  OBVIOUS
<1>2. /\ Len(s) \in Nat /\ Len(t) \in Nat /\ Len(u) = Len(s) + Len(t)
      /\ \A i \in 1 .. Len(s) + Len(t) : u[i] = IF i <= Len(s) THEN s[i] ELSE t[i - Len(s)]
  BY <1>1, ConcatIs DEF Sequence
<1>3. ASSUME NEW i \in 1 .. Len(u) PROVE u[i] \in Members(s) \cup Members(t)
  <2>1. CASE i <= Len(s)
    <3>1. i \in 1 .. Len(s) /\ u[i] = s[i]
      BY <1>2, <2>1
    <3> QED BY <3>1 DEF Members
  <2>2. CASE ~(i <= Len(s))
    <3>1. i - Len(s) \in 1 .. Len(t) /\ u[i] = t[i - Len(s)]
      BY <1>2, <2>2
    <3> QED BY <3>1 DEF Members
  <2> QED BY <2>1, <2>2
<1>4. ASSUME NEW i \in 1 .. Len(s) PROVE s[i] \in Members(u)
  <2>1. i \in 1 .. Len(u) /\ u[i] = s[i]
    BY <1>2
  <2> QED BY <2>1 DEF Members
<1>5. ASSUME NEW i \in 1 .. Len(t) PROVE t[i] \in Members(u)
  <2>1. i + Len(s) \in 1 .. Len(u) /\ u[i + Len(s)] = t[i]
    BY <1>2
  <2> QED BY <2>1 DEF Members
<1>6. Members(u) \subseteq Members(s) \cup Members(t)
  BY <1>3 DEF Members
<1>7. Members(s) \subseteq Members(u) /\ Members(t) \subseteq Members(u)
  BY <1>4, <1>5 DEF Members
<1> QED
  BY <1>1, <1>6, <1>7

\* A queue that has room keeps what it holds.
LEMMA PushMembers ==
  ASSUME NEW s, Sequence(s), NEW x, NEW cap \in Nat \ {0}
  PROVE  LET p == Push(s, x, cap) IN
         /\ Sequence(p) /\ Len(p) <= cap /\ (Len(s) <= cap => Len(p) >= Len(s))
         /\ Members(p) \subseteq Members(s) \cup {x} /\ x \in Members(p)
         /\ Len(s) < cap => Members(s) \subseteq Members(p) /\ Len(p) = Len(s) + 1
         /\ Len(s) = cap => Len(p) = cap
<1>1. PICK p : p = Push(s, x, cap)
  OBVIOUS
<1>2. /\ Sequence(p) /\ Len(p) = (IF Len(s) < cap THEN Len(s) + 1 ELSE cap) /\ p[Len(p)] = x
      /\ \A k \in 1 .. Len(p) - 1 : p[k] = s[k + (Len(s) + 1 - Len(p))]
  BY <1>1, PushIs
<1>3. Len(s) \in Nat /\ Len(p) \in Nat \ {0} /\ Len(p) <= cap
  BY <1>2 DEF Sequence
<1>4. x \in Members(p)
  <2>1. Len(p) \in 1 .. Len(p)
    BY <1>3
  <2> QED BY <1>2, <2>1 DEF Members
<1>5. ASSUME NEW k \in 1 .. Len(p) PROVE p[k] \in Members(s) \cup {x}
  <2>1. CASE k = Len(p)
    BY <1>2, <2>1
  <2>2. CASE k # Len(p)
    <3>1. k \in 1 .. Len(p) - 1 /\ k + (Len(s) + 1 - Len(p)) \in 1 .. Len(s)
      BY <1>2, <1>3, <2>2
    <3> QED BY <1>2, <3>1 DEF Members
  <2> QED BY <2>1, <2>2
<1>6. ASSUME Len(s) < cap, NEW k \in 1 .. Len(s) PROVE s[k] \in Members(p)
  <2>1. k \in 1 .. Len(p) - 1 /\ k + (Len(s) + 1 - Len(p)) = k /\ k \in 1 .. Len(p)
    BY <1>2, <1>3, <1>6
  <2>2. p[k] = s[k]
    BY <1>2, <2>1
  <2> QED BY <2>1, <2>2 DEF Members
<1>7. Members(p) \subseteq Members(s) \cup {x} /\ (Len(s) < cap => Members(s) \subseteq Members(p))
  BY <1>5, <1>6 DEF Members
<1>8. /\ Len(s) <= cap => Len(p) >= Len(s)
      /\ Len(s) < cap => Len(p) = Len(s) + 1
      /\ Len(s) = cap => Len(p) = cap
  BY <1>2, <1>3
<1> QED
  BY <1>1, <1>2, <1>3, <1>4, <1>7, <1>8

Firing(t, s) == Members(t.state[s].firing)

\* The table after alerts were fired differs in what is firing.
OnlyFired(new, old) ==
  /\ FullTable(new) /\ FullTable(old) /\ new.order = old.order
  /\ \A s \in Members(old.order) : Same(new.state[s], old.state[s])

\* What fires for a scope after warnings were given: what fired before, and what was
\* returned. As long as there is room, all of it fires.
FiredFor(now, was, s, warnings, returned) ==
  /\ \A a \in Members(now) :
       a \in Members(was) \/ [scope |-> s, alert |-> a] \in warnings \cap returned
  /\ \A a : [scope |-> s, alert |-> a] \in warnings =>
       a \in Members(was) \/ [scope |-> s, alert |-> a] \in returned
  /\ Len(now) >= Len(was)
  /\ Len(now) < MaxFiring =>
       /\ Members(was) \subseteq Members(now)
       /\ \A a : [scope |-> s, alert |-> a] \in warnings => a \in Members(now)

\* Nothing but warnings is returned.
Fired(after, seen, warnings) ==
  /\ OnlyFired(after.table, seen.table)
  /\ Sequence(after.new) /\ Sequence(seen.new)
  /\ Members(seen.new) \subseteq Members(after.new)
  /\ Members(after.new) \subseteq Members(seen.new) \cup warnings
  /\ \A s \in Members(seen.table.order) :
       FiredFor(after.table.state[s].firing, seen.table.state[s].firing, s, warnings,
                Members(after.new))

LEMMA NothingFired ==
  ASSUME NEW seen, FullTable(seen.table), Sequence(seen.new)
  PROVE  Fired(seen, seen, {})
<1>1. \A s \in Members(seen.table.order) : Len(seen.table.state[s].firing) \in Nat
  BY DEF FullTable, IsFull, Sequence
<1> QED
  BY <1>1 DEF Fired, FiredFor, OnlyFired, Same

LEMMA FiredTwice ==
  ASSUME NEW a, NEW b, NEW c, NEW W, NEW V, Fired(b, a, W), Fired(c, b, V)
  PROVE  Fired(c, a, W \cup V)
<1>1. OnlyFired(c.table, a.table) /\ b.table.order = a.table.order
  BY DEF Fired, OnlyFired, Same
<1>2. /\ Sequence(c.new) /\ Sequence(a.new)
      /\ Members(b.new) \subseteq Members(c.new)
      /\ Members(a.new) \subseteq Members(c.new)
      /\ Members(c.new) \subseteq Members(a.new) \cup (W \cup V)
  BY DEF Fired
<1>3. ASSUME NEW s \in Members(a.table.order)
      PROVE  FiredFor(c.table.state[s].firing, a.table.state[s].firing, s, W \cup V, Members(c.new))
  <2>1. PICK now : now = c.table.state[s].firing
    OBVIOUS
  <2>2. PICK mid : mid = b.table.state[s].firing
    OBVIOUS
  <2>3. PICK was : was = a.table.state[s].firing
    OBVIOUS
  <2>4. s \in Members(b.table.order)
    BY <1>1
  <2>5. FiredFor(mid, was, s, W, Members(b.new))
    BY <2>2, <2>3 DEF Fired
  <2>6. FiredFor(now, mid, s, V, Members(c.new))
    BY <2>1, <2>2, <2>4 DEF Fired
  <2>7. Len(now) \in Nat /\ Len(mid) \in Nat /\ Len(was) \in Nat /\ MaxFiring \in Nat
    <3>1. IsFull(c.table.state[s]) /\ IsFull(b.table.state[s]) /\ IsFull(a.table.state[s])
      <4>1. FullTable(c.table) /\ FullTable(b.table) /\ FullTable(a.table) /\ c.table.order = a.table.order
        BY <1>1 DEF Fired, OnlyFired
      <4> QED BY <1>1, <2>4, <4>1 DEF FullTable
    <3> QED BY <2>1, <2>2, <2>3, <3>1, MonitorAssumption DEF IsFull, Sequence
  <2>8. Len(now) >= Len(was) /\ (Len(now) < MaxFiring => Len(mid) < MaxFiring)
    BY <2>5, <2>6, <2>7 DEF FiredFor
  <2>9. ASSUME NEW x, [scope |-> s, alert |-> x] \in W \cup V
        PROVE  x \in Members(was) \/ [scope |-> s, alert |-> x] \in Members(c.new)
    BY <1>2, <2>5, <2>6, <2>9 DEF FiredFor
  <2>10. ASSUME NEW x \in Members(now)
         PROVE  x \in Members(was) \/ [scope |-> s, alert |-> x] \in (W \cup V) \cap Members(c.new)
    BY <1>2, <2>5, <2>6 DEF FiredFor
  <2>11. ASSUME Len(now) < MaxFiring
         PROVE  /\ Members(was) \subseteq Members(now)
                /\ \A x : [scope |-> s, alert |-> x] \in W \cup V => x \in Members(now)
    BY <2>5, <2>6, <2>8, <2>11 DEF FiredFor
  <2>12. FiredFor(now, was, s, W \cup V, Members(c.new))
    BY <2>8, <2>9, <2>10, <2>11 DEF FiredFor
  <2> QED
    BY <2>1, <2>3, <2>12
<1> QED
  BY <1>1, <1>2, <1>3 DEF Fired

LEMMA FireOneIs ==
  ASSUME NEW seen, FullTable(seen.table), Sequence(seen.new),
         NEW scope \in Members(seen.table.order), NEW alert
  PROVE  Fired(FireOne(seen, scope, alert), seen, {[scope |-> scope, alert |-> alert]})
<1>1. PICK e : e = [scope |-> scope, alert |-> alert]
  OBVIOUS
<1>2. PICK t : t = seen.table
  OBVIOUS
<1>3. PICK was : was = t.state[scope].firing
  OBVIOUS
<1>4. /\ FullTable(t) /\ scope \in Members(t.order) /\ IsFull(t.state[scope])
      /\ Sequence(was) /\ Len(was) \in Nat /\ Len(was) <= MaxFiring /\ MaxFiring \in Nat \ {0}
  BY <1>2, <1>3, MonitorAssumption DEF FullTable, IsFull, Sequence
<1>e. \A s, a : [scope |-> s, alert |-> a] = e <=> s = scope /\ a = alert
  BY <1>1
<1>5. CASE Contains(was, alert)
  <2>1. FireOne(seen, scope, alert) = seen
    BY <1>2, <1>3, <1>5 DEF FireOne
  <2>2. alert \in Members(was)
    BY <1>5 DEF Contains, Members
  <2>3. Fired(seen, seen, {})
    BY NothingFired
  <2>4. Fired(seen, seen, {e})
    BY <1>2, <1>3, <1>e, <2>2, <2>3 DEF Fired, FiredFor
  <2> QED
    BY <1>1, <2>1, <2>4
<1>6. CASE ~Contains(was, alert)
  <2>1. PICK now : now = Push(was, alert, MaxFiring)
    OBVIOUS
  <2>2. PICK st : st = [t.state[scope] EXCEPT !.firing = now]
    OBVIOUS
  <2>3. PICK u : u = [t EXCEPT !.state[scope] = st]
    OBVIOUS
  <2>4. PICK new : new = Append(seen.new, e)
    OBVIOUS
  <2>5. FireOne(seen, scope, alert) = [table |-> u, new |-> new]
    <3>1. FireOne(seen, scope, alert)
            = [table |-> [t EXCEPT !.state[scope].firing = Push(was, alert, MaxFiring)],
               new |-> Append(seen.new, e)]
      BY <1>1, <1>2, <1>3, <1>6 DEF FireOne
    <3> QED BY <2>1, <2>2, <2>3, <2>4, <3>1
  <2>6. /\ Sequence(now) /\ Len(now) <= MaxFiring /\ Len(now) >= Len(was) /\ Len(now) \in Nat
        /\ Members(now) \subseteq Members(was) \cup {alert} /\ alert \in Members(now)
        /\ Len(was) < MaxFiring => Members(was) \subseteq Members(now)
        /\ Len(was) = MaxFiring => Len(now) = MaxFiring
    <3>1. Sequence(now) => Len(now) \in Nat
      BY DEF Sequence
    <3> QED BY <1>4, <2>1, <3>1, PushMembers
  <2>7. IsFull(st) /\ Same(st, t.state[scope]) /\ st.firing = now
    <3>1. t.state[scope] = [f \in StateFields |-> t.state[scope][f]]
      BY <1>4 DEF IsFull
    <3>2. st = [f \in StateFields |-> IF f = "firing" THEN now ELSE t.state[scope][f]]
      BY <2>2, <3>1
    <3>3. "firing" \in StateFields
      BY DEF StateFields
    <3> QED BY <2>6, <3>2, <3>3 DEF IsFull, Same
  <2>8. /\ u = [order |-> t.order, state |-> u.state] /\ u.order = t.order
        /\ u.state = [s \in Members(t.order) |-> IF s = scope THEN st ELSE t.state[s]]
    BY <1>4, <2>3 DEF FullTable
  <2>9. FullTable(u) /\ u.order = t.order
    BY <1>4, <2>7, <2>8 DEF FullTable
  <2>10. OnlyFired(u, t)
    BY <1>4, <2>7, <2>8, <2>9 DEF OnlyFired, Same
  <2>11. Sequence(new) /\ Members(new) = Members(seen.new) \cup {e}
    BY <2>4, AppendIs, AppendMembers
  <2>12. ASSUME NEW s \in Members(t.order)
         PROVE  FiredFor(u.state[s].firing, t.state[s].firing, s, {e}, Members(new))
    <3>1. CASE s = scope
      <4>1. u.state[s].firing = now /\ t.state[s].firing = was
        BY <1>3, <2>7, <2>8, <3>1
      <4>2. Len(now) < MaxFiring => Len(was) < MaxFiring
        BY <1>4, <2>6
      <4> QED BY <1>e, <2>6, <2>11, <3>1, <4>1, <4>2 DEF FiredFor
    <3>2. CASE s # scope
      <4>1. u.state[s].firing = t.state[s].firing
        BY <2>8, <3>2
      <4>2. Len(t.state[s].firing) \in Nat
        BY <1>4 DEF FullTable, IsFull, Sequence
      <4> QED BY <1>e, <3>2, <4>1, <4>2 DEF FiredFor
    <3> QED BY <3>1, <3>2
  <2>13. Fired([table |-> u, new |-> new], seen, {e})
    <3>1. PICK after : after = [table |-> u, new |-> new]
      OBVIOUS
    <3>2. after.table = u /\ after.new = new
      BY <3>1
    <3>3. Fired(after, seen, {e})
      BY <1>2, <2>10, <2>11, <2>12, <3>2 DEF Fired
    <3> QED BY <3>1, <3>3
  <2> QED
    BY <1>1, <2>5, <2>13
<1> QED
  BY <1>5, <1>6

Warnings(scope, alerted) == {[scope |-> scope, alert |-> a] : a \in Members(alerted)}

LEMMA FireIs ==
  ASSUME NEW seen, FullTable(seen.table), Sequence(seen.new),
         NEW scope \in Members(seen.table.order), NEW alerted, Sequence(alerted)
  PROVE  Fired(Fire(seen, scope, alerted), seen, Warnings(scope, alerted))
<1> DEFINE n == Len(alerted)
           upTo(k) == {[scope |-> scope, alert |-> alerted[i]] : i \in 1 .. k}
<1>1. n \in Nat
  BY DEF Sequence
<1>2. PICK go : IsFiring(go, seen, scope, alerted, n) /\ Fire(seen, scope, alerted) = go[n]
  <2>1. \E go : IsFiring(go, seen, scope, alerted, n)
    BY <1>1, FiringExists
  <2>2. Fire(seen, scope, alerted) = (CHOOSE go : IsFiring(go, seen, scope, alerted, n))[n]
    BY Zenon DEF Fire, IsFiring
  <2> QED
    BY <2>1, <2>2
<1> DEFINE Reached == {k \in 0 .. n : Fired(go[k], seen, upTo(k))}
<1>4. 0 \in Reached
  <2>1. go[0] = seen
    BY <1>1, <1>2 DEF IsFiring
  <2>2. upTo(0) = {}
    OBVIOUS
  <2>3. Fired(seen, seen, {})
    BY NothingFired
  <2> HIDE DEF upTo
  <2>4. Fired(go[0], seen, {})
    BY <2>1, <2>3
  <2>5. Fired(go[0], seen, upTo(0))
    BY <2>2, <2>4
  <2>6. 0 \in 0 .. n
    BY <1>1
  <2> QED
    BY <2>5, <2>6
<1>5. ASSUME NEW k \in 0 .. n - 1, k \in Reached PROVE k + 1 \in Reached
  <2>1. go[k + 1] = FireOne(go[k], scope, alerted[k + 1])
    <3>1. k + 1 \in 0 .. n /\ k + 1 # 0 /\ (k + 1) - 1 = k
      BY <1>1
    <3> QED BY <1>2, <3>1 DEF IsFiring
  <2>2. Fired(go[k], seen, upTo(k))
    BY <1>5
  <2>3. upTo(k + 1) = upTo(k) \cup {[scope |-> scope, alert |-> alerted[k + 1]]}
    <3>1. 1 .. k + 1 = (1 .. k) \cup {k + 1}
      OBVIOUS
    <3> QED BY <3>1
  <2> HIDE DEF upTo
  <2>4. FullTable(go[k].table) /\ Sequence(go[k].new) /\ scope \in Members(go[k].table.order)
    BY <2>2 DEF Fired, OnlyFired
  <2>5. Fired(go[k + 1], go[k], {[scope |-> scope, alert |-> alerted[k + 1]]})
    BY <2>1, <2>4, FireOneIs
  <2>6. Fired(go[k + 1], seen, upTo(k + 1))
    BY <2>2, <2>3, <2>5, FiredTwice
  <2>7. k + 1 \in 0 .. n
    BY <1>1
  <2> QED
    BY <2>6, <2>7
<1>6. 0 .. n \subseteq Reached
  <2> HIDE DEF Reached, n
  <2> QED BY <1>1, <1>4, <1>5, UpToInduction
<1>7. Fired(go[n], seen, upTo(n))
  <2>1. n \in 0 .. n
    BY <1>1
  <2>2. n \in Reached
    <3> HIDE DEF Reached, n
    <3> QED BY <1>6, <2>1
  <2> QED
    BY <2>2
<1>8. upTo(n) = Warnings(scope, alerted)
  BY DEF Warnings, Members
<1> HIDE DEF upTo
<1> QED
  BY <1>2, <1>7, <1>8

--------------------
(* What an observation makes of the state of a scope.                            *)

ShapeFields == {"seen", "values", "gaps", "last", "marks", "rewrites"}
TurnFields  == {"lastSeen", "turns", "rebuilds"}

Unchanged(new, old, fields) == \A f \in StateFields \ fields : new[f] = old[f]

\* The timeline of a lifetime, and its gaps, after a request that reasons about it.
MarksAfter(marks, r) ==
  LET at[n \in 0 .. Len(r.segs)] ==
        IF n = 0 THEN marks
        ELSE IF n \in Marked(r) THEN Remember(at[n - 1], [key |-> Ids(r, n), at |-> r.sent], MaxFiring)
             ELSE at[n - 1]
  IN at[Len(r.segs)]

RewritesAfter(gaps, marks, r) ==
  LET before == MarkedBefore(marks, r)  gap == r.sent - Max(before)
  IN IF before # {} /\ gap >= 0 THEN Push(gaps, gap, Window) ELSE gaps

LEMMA RewritesIs ==
  ASSUME NEW st, IsFull(st), NEW r
  PROVE  LET l == NamedLifetime(r)  new == Rewrites(st, r) IN
         /\ IsFull(new) /\ Unchanged(new, st, {"marks", "rewrites"})
         /\ new.marks = [st.marks EXCEPT ![l] = MarksAfter(st.marks[l], r)]
         /\ new.rewrites = [st.rewrites EXCEPT ![l] = RewritesAfter(st.rewrites[l], st.marks[l], r)]
<1>1. PICK l : l = NamedLifetime(r)
  OBVIOUS
<1>2. PICK a : a = MarksAfter(st.marks[l], r)
  OBVIOUS
<1>3. PICK b : b = RewritesAfter(st.rewrites[l], st.marks[l], r)
  OBVIOUS
<1>4. Rewrites(st, r) = [st EXCEPT !.rewrites[l] = b, !.marks[l] = a]
  BY <1>1, <1>2, <1>3, Zenon DEF Rewrites, MarksAfter, RewritesAfter
<1>5. PICK new : new = Rewrites(st, r)
  OBVIOUS
<1>6. st = [f \in StateFields |-> st[f]]
  BY DEF IsFull
<1>7. "marks" \in StateFields /\ "rewrites" \in StateFields /\ "firing" \in StateFields
  BY DEF StateFields
<1>8. new = [f \in StateFields |-> IF f = "marks" THEN [st.marks EXCEPT ![l] = a]
                                   ELSE IF f = "rewrites" THEN [st.rewrites EXCEPT ![l] = b] ELSE st[f]]
  BY <1>4, <1>5, <1>6, <1>7
<1>9. /\ Unchanged(new, st, {"marks", "rewrites"})
      /\ new.marks = [st.marks EXCEPT ![l] = a] /\ new.rewrites = [st.rewrites EXCEPT ![l] = b]
      /\ new.firing = st.firing
  BY <1>7, <1>8 DEF Unchanged
<1>10. new = [f \in StateFields |-> new[f]]
  BY <1>8
<1>11. IsFull(new)
  BY <1>9, <1>10 DEF IsFull
<1> QED
  BY <1>1, <1>2, <1>3, <1>5, <1>9, <1>11

Counted(st, r) == [st EXCEPT !.seen = @ + 1, !.values = Observed(@, r)]

LEMMA CountedIs ==
  ASSUME NEW st, IsFull(st), NEW r
  PROVE  LET new == Counted(st, r) IN
         /\ IsFull(new) /\ Unchanged(new, st, {"seen", "values"})
         /\ new.seen = st.seen + 1 /\ new.values = Observed(st.values, r)
<1>1. PICK new : new = Counted(st, r)
  OBVIOUS
<1>2. st = [f \in StateFields |-> st[f]]
  BY DEF IsFull
<1>3. "seen" \in StateFields /\ "values" \in StateFields /\ "firing" \in StateFields
  BY DEF StateFields
<1>4. new = [f \in StateFields |-> IF f = "seen" THEN st.seen + 1
                                   ELSE IF f = "values" THEN Observed(st.values, r) ELSE st[f]]
  BY <1>1, <1>2, <1>3 DEF Counted
<1>5. /\ Unchanged(new, st, {"seen", "values"}) /\ new.firing = st.firing
      /\ new.seen = st.seen + 1 /\ new.values = Observed(st.values, r)
  BY <1>3, <1>4 DEF Unchanged
<1>6. new = [f \in StateFields |-> new[f]]
  BY <1>4
<1> QED
  BY <1>1, <1>5, <1>6 DEF IsFull

GapsAfter(st, r) ==
  IF st.last # Untimed /\ Timed(st, r) THEN Push(st.gaps, r.sent - st.last, Window) ELSE st.gaps

LEMMA GapsIs ==
  ASSUME NEW st, IsFull(st), NEW r
  PROVE  LET new == Gaps(st, r) IN
         /\ IsFull(new) /\ Unchanged(new, st, {"gaps", "last"})
         /\ new.gaps = GapsAfter(st, r)
         /\ new.last = IF Timed(st, r) THEN r.sent ELSE st.last
<1>1. PICK new : new = Gaps(st, r)
  OBVIOUS
<1>2. st = [f \in StateFields |-> st[f]]
  BY DEF IsFull
<1>3. "gaps" \in StateFields /\ "last" \in StateFields /\ "firing" \in StateFields
  BY DEF StateFields
<1>4. new = [f \in StateFields |-> IF f = "gaps" THEN GapsAfter(st, r)
               ELSE IF f = "last" THEN IF Timed(st, r) THEN r.sent ELSE st.last ELSE st[f]]
  BY <1>1, <1>2, <1>3 DEF Gaps, GapsAfter
<1>5. /\ Unchanged(new, st, {"gaps", "last"}) /\ new.firing = st.firing
      /\ new.gaps = GapsAfter(st, r)
      /\ new.last = IF Timed(st, r) THEN r.sent ELSE st.last
  BY <1>3, <1>4 DEF Unchanged
<1>6. new = [f \in StateFields |-> new[f]]
  BY <1>4
<1> QED
  BY <1>1, <1>5, <1>6 DEF IsFull

\* A shape changes what shapes are tracked by, and nothing else.
LEMMA ShapeIs ==
  ASSUME NEW st, IsFull(st), NEW r
  PROVE  LET new == TrackShape(st, r)
             argued == r.sent # Untimed /\ CanRead(r)  l == NamedLifetime(r)
         IN /\ IsFull(new) /\ Unchanged(new, st, ShapeFields)
            /\ new.seen = st.seen + 1 /\ new.values = Observed(st.values, r)
            /\ new.gaps = IF r.sent = Untimed THEN st.gaps ELSE GapsAfter(st, r)
            /\ new.last = IF r.sent = Untimed \/ ~Timed(st, r) THEN st.last ELSE r.sent
            /\ new.marks = IF argued THEN [st.marks EXCEPT ![l] = MarksAfter(st.marks[l], r)] ELSE st.marks
            /\ new.rewrites = IF argued
                              THEN [st.rewrites EXCEPT ![l] = RewritesAfter(st.rewrites[l], st.marks[l], r)]
                              ELSE st.rewrites
<1>1. PICK a : a = Counted(st, r)
  OBVIOUS
<1>2. PICK b : b = IF CanRead(r) THEN Rewrites(a, r) ELSE a
  OBVIOUS
<1>3. PICK c : c = Gaps(b, r)
  OBVIOUS
<1>4. TrackShape(st, r) = IF r.sent = Untimed THEN a ELSE c
  BY <1>1, <1>2, <1>3 DEF TrackShape, Counted
<1>5. /\ IsFull(a) /\ Unchanged(a, st, {"seen", "values"})
      /\ a.seen = st.seen + 1 /\ a.values = Observed(st.values, r)
  BY <1>1, CountedIs
<1>6. /\ a.gaps = st.gaps /\ a.last = st.last /\ a.marks = st.marks /\ a.rewrites = st.rewrites
      /\ Unchanged(a, st, ShapeFields)
  BY <1>5 DEF Unchanged, StateFields, ShapeFields
<1>7. PICK l : l = NamedLifetime(r)
  OBVIOUS
<1>8. /\ IsFull(b) /\ Unchanged(b, a, {"marks", "rewrites"})
      /\ b.marks = IF CanRead(r) THEN [a.marks EXCEPT ![l] = MarksAfter(a.marks[l], r)] ELSE a.marks
      /\ b.rewrites = IF CanRead(r)
                      THEN [a.rewrites EXCEPT ![l] = RewritesAfter(a.rewrites[l], a.marks[l], r)]
                      ELSE a.rewrites
  <2>1. CASE CanRead(r)
    BY <1>2, <1>5, <1>7, <2>1, RewritesIs
  <2>2. CASE ~CanRead(r)
    BY <1>2, <1>5, <2>2 DEF Unchanged
  <2> QED BY <2>1, <2>2
<1>9. /\ b.seen = a.seen /\ b.values = a.values /\ b.gaps = st.gaps /\ b.last = st.last
      /\ Unchanged(b, st, ShapeFields)
  BY <1>6, <1>8 DEF Unchanged, StateFields, ShapeFields
<1>10. /\ IsFull(c) /\ Unchanged(c, b, {"gaps", "last"})
       /\ c.gaps = GapsAfter(b, r)
       /\ c.last = IF Timed(b, r) THEN r.sent ELSE b.last
  BY <1>3, <1>8, GapsIs
<1>11. /\ c.seen = b.seen /\ c.values = b.values /\ c.marks = b.marks /\ c.rewrites = b.rewrites
       /\ Unchanged(c, st, ShapeFields)
  BY <1>9, <1>10 DEF Unchanged, StateFields, ShapeFields
<1>12. GapsAfter(b, r) = GapsAfter(st, r) /\ (Timed(b, r) <=> Timed(st, r))
  BY <1>9 DEF GapsAfter, Timed
<1>13. PICK new : new = TrackShape(st, r)
  OBVIOUS
<1>14. CASE r.sent = Untimed
  BY <1>4, <1>5, <1>6, <1>14
<1>15. CASE r.sent # Untimed
  <2>1. TrackShape(st, r) = c
    BY <1>4, <1>15
  <2>2. /\ IsFull(c) /\ Unchanged(c, st, ShapeFields)
        /\ c.seen = st.seen + 1 /\ c.values = Observed(st.values, r)
        /\ c.gaps = GapsAfter(st, r) /\ c.last = IF Timed(st, r) THEN r.sent ELSE st.last
    BY <1>5, <1>9, <1>10, <1>11, <1>12
  <2>3. /\ c.marks = IF CanRead(r) THEN [st.marks EXCEPT ![l] = MarksAfter(st.marks[l], r)] ELSE st.marks
        /\ c.rewrites = IF CanRead(r)
                        THEN [st.rewrites EXCEPT ![l] = RewritesAfter(st.rewrites[l], st.marks[l], r)]
                        ELSE st.rewrites
    BY <1>6, <1>8, <1>11
  <2> QED
    BY <1>7, <1>15, <2>1, <2>2, <2>3
<1> QED
  BY <1>14, <1>15

WritesAfter(writes, r) ==
  IF Writes(r)
  THEN Push(writes, [at |-> r.sent, visible |-> VisibleAt(r), prefix |-> PrefixKey(r)], Window)
  ELSE writes

LEMMA UsageIs ==
  ASSUME NEW st, IsFull(st), NEW r
  PROVE  LET new == TrackUsage(st, r) IN
         IsFull(new) /\ Unchanged(new, st, {"writes"}) /\ new.writes = WritesAfter(st.writes, r)
<1>1. PICK new : new = TrackUsage(st, r)
  OBVIOUS
<1>2. st = [f \in StateFields |-> st[f]]
  BY DEF IsFull
<1>3. "writes" \in StateFields /\ "firing" \in StateFields
  BY DEF StateFields
<1>4. new = [f \in StateFields |-> IF f = "writes" THEN WritesAfter(st.writes, r) ELSE st[f]]
  BY <1>1, <1>2, <1>3 DEF TrackUsage, WritesAfter
<1>5. Unchanged(new, st, {"writes"}) /\ new.firing = st.firing /\ new.writes = WritesAfter(st.writes, r)
  BY <1>3, <1>4 DEF Unchanged
<1>6. new = [f \in StateFields |-> new[f]]
  BY <1>4
<1> QED
  BY <1>1, <1>5, <1>6 DEF IsFull

TurnKey(r) == <<r.agent, r.session>>

SeenAfter(lastSeen, r) ==
  IF r.sent = Untimed THEN lastSeen ELSE Remember(lastSeen, [key |-> TurnKey(r), at |-> r.sent], MaxFiring)

TurnsAfter(turns, r) ==
  Remember(turns, [key |-> TurnKey(r), expires |-> ExpirySeconds(r),
                   established |-> r.usage.read + r.usage.write], MaxFiring)

RebuildsAfter(st, r) ==
  IF Follows(st, r, TurnKey(r))
  THEN Push(st.rebuilds, 2 * r.usage.write >= Recall(st.turns, TurnKey(r)).established, Window)
  ELSE st.rebuilds

LEMMA TurnIs ==
  ASSUME NEW st, IsFull(st), NEW r
  PROVE  LET new == TrackTurn(st, r) IN
         /\ IsFull(new) /\ Unchanged(new, st, TurnFields)
         /\ new.lastSeen = SeenAfter(st.lastSeen, r) /\ new.turns = TurnsAfter(st.turns, r)
         /\ new.rebuilds = RebuildsAfter(st, r)
<1>1. PICK new : new = TrackTurn(st, r)
  OBVIOUS
<1>2. st = [f \in StateFields |-> st[f]]
  BY DEF IsFull
<1>3. {"lastSeen", "turns", "rebuilds", "firing"} \subseteq StateFields
  BY DEF StateFields
<1>4. new = [st EXCEPT !.lastSeen = SeenAfter(st.lastSeen, r), !.turns = TurnsAfter(st.turns, r),
                       !.rebuilds = RebuildsAfter(st, r)]
  BY <1>1, Zenon DEF TrackTurn, SeenAfter, TurnsAfter, RebuildsAfter, TurnKey
<1>5. new = [f \in StateFields |-> IF f = "lastSeen" THEN SeenAfter(st.lastSeen, r)
               ELSE IF f = "turns" THEN TurnsAfter(st.turns, r)
               ELSE IF f = "rebuilds" THEN RebuildsAfter(st, r) ELSE st[f]]
  BY <1>2, <1>3, <1>4
<1>6. /\ Unchanged(new, st, TurnFields) /\ new.firing = st.firing
      /\ new.lastSeen = SeenAfter(st.lastSeen, r) /\ new.turns = TurnsAfter(st.turns, r)
      /\ new.rebuilds = RebuildsAfter(st, r)
  BY <1>3, <1>5 DEF Unchanged, TurnFields
<1>7. new = [f \in StateFields |-> new[f]]
  BY <1>5
<1> QED
  BY <1>1, <1>6, <1>7 DEF IsFull

\* The state of scope s when an observation of r was counted.
ShapedAs(st, s, r, shape) == IF shape /\ s = ReuseChainOf(r) THEN TrackShape(st, r) ELSE st

UsedAs(st, s, r, usage) ==
  IF usage /\ s = PoolOf(r) THEN TrackUsage(st, r)
  ELSE IF usage /\ s = RebuildScope(r) /\ r.session # NoSession THEN TrackTurn(st, r) ELSE st

ObservedAs(st, s, r, shape, usage) == UsedAs(ShapedAs(st, s, r, shape), s, r, usage)

\* Scopes of different kinds are different.
LEMMA ScopesDiffer ==
  ASSUME NEW r
  PROVE  /\ PoolOf(r) # RebuildScope(r) /\ ReuseChainOf(r) # RebuildScope(r)
         /\ Len(PoolOf(r)) = 3 /\ Len(RebuildScope(r)) = 2
         /\ ReuseChainOf(r) = PoolOf(r) \/ Len(ReuseChainOf(r)) = 5
<1>1. Len(PoolOf(r)) = 3 /\ Len(RebuildScope(r)) = 2
  BY DEF PoolOf, RebuildScope
<1>2. ReuseChainOf(r) = PoolOf(r) \/ Len(ReuseChainOf(r)) = 5
  <2>1. PICK a : a = <<r.tenant, r.target, r.model>>
    OBVIOUS
  <2>2. PICK b : b = <<r.agent, r.session>>
    OBVIOUS
  <2>3. Sequence(a) /\ Sequence(b) /\ Len(a) = 3 /\ Len(b) = 2
    BY <2>1, <2>2 DEF Sequence
  <2>4. Len(a \o b) = 5
    <3>1. Len(a \o b) = Len(a) + Len(b)
      BY <2>3, ConcatIs
    <3> QED BY <2>3, <3>1
  <2> QED
    BY <2>1, <2>2, <2>4 DEF ReuseChainOf, PoolOf
<1>3. PICK pool : pool = PoolOf(r)
  OBVIOUS
<1>4. PICK turns : turns = RebuildScope(r)
  OBVIOUS
<1>5. PICK chain : chain = ReuseChainOf(r)
  OBVIOUS
<1>6. pool # turns /\ chain # turns
  <2>1. Len(pool) = 3 /\ Len(turns) = 2 /\ (chain = pool \/ Len(chain) = 5)
    BY <1>1, <1>2, <1>3, <1>4, <1>5
  <2>2. pool = turns => Len(pool) = 2
    BY <2>1
  <2>3. chain = turns => Len(chain) = 2
    BY <2>1
  <2> QED
    BY <2>1, <2>2, <2>3
<1> QED
  BY <1>1, <1>2, <1>3, <1>4, <1>5, <1>6

\* A table in which one scope has another state.
LEMMA StateReplaced ==
  ASSUME NEW t, FullTable(t), NEW x \in Members(t.order), NEW st, IsFull(st)
  PROVE  LET u == [t EXCEPT !.state[x] = st] IN
         /\ FullTable(u) /\ u.order = t.order
         /\ \A s \in Members(t.order) : u.state[s] = IF s = x THEN st ELSE t.state[s]
<1>1. PICK u : u = [t EXCEPT !.state[x] = st]
  OBVIOUS
<1>2. /\ u = [order |-> t.order, state |-> u.state] /\ u.order = t.order
      /\ u.state = [s \in Members(t.order) |-> IF s = x THEN st ELSE t.state[s]]
  BY <1>1 DEF FullTable
<1>3. FullTable(u)
  BY <1>2 DEF FullTable
<1> QED
  BY <1>1, <1>2, <1>3

CountedAs(u, p, r, shape, usage) ==
  /\ FullTable(u) /\ u.order = p.order
  /\ \A s \in Members(p.order) :
       /\ u.state[s] = ObservedAs(p.state[s], s, r, shape, usage)
       /\ u.state[s].firing = p.state[s].firing

LEMMA CountShapeIs ==
  ASSUME NEW p, FullTable(p), NEW r, ReuseChainOf(r) \in Members(p.order), NEW shape \in BOOLEAN
  PROVE  CountedAs(CountShape(p, r, shape), p, r, shape, FALSE)
<1>1. PICK chain : chain = ReuseChainOf(r)
  OBVIOUS
<1>2. CASE ~shape
  BY <1>2 DEF CountShape, CountedAs, ObservedAs, ShapedAs, UsedAs
<1>3. CASE shape
  <2>1. PICK st : st = TrackShape(p.state[chain], r)
    OBVIOUS
  <2>2. PICK u : u = [p EXCEPT !.state[chain] = st]
    OBVIOUS
  <2>3. CountShape(p, r, shape) = u
    BY <1>1, <1>3, <2>1, <2>2 DEF CountShape
  <2>4. IsFull(p.state[chain])
    BY <1>1 DEF FullTable
  <2>5. IsFull(st) /\ Unchanged(st, p.state[chain], ShapeFields)
    BY <2>1, <2>4, ShapeIs
  <2>6. st.firing = p.state[chain].firing
    BY <2>5 DEF Unchanged, ShapeFields, StateFields
  <2>7. /\ FullTable(u) /\ u.order = p.order
        /\ \A s \in Members(p.order) : u.state[s] = IF s = chain THEN st ELSE p.state[s]
    BY <1>1, <2>2, <2>5, StateReplaced
  <2>8. \A s : ObservedAs(p.state[s], s, r, shape, FALSE) = IF s = chain THEN TrackShape(p.state[s], r) ELSE p.state[s]
    BY <1>1, <1>3 DEF ObservedAs, ShapedAs, UsedAs
  <2> QED
    BY <2>1, <2>3, <2>6, <2>7, <2>8 DEF CountedAs
<1> QED
  BY <1>2, <1>3

LEMMA CountUsageIs ==
  ASSUME NEW p, FullTable(p), NEW r, {PoolOf(r), RebuildScope(r)} \subseteq Members(p.order),
         NEW usage \in BOOLEAN
  PROVE  LET u == CountUsage(p, r, usage) IN
         /\ FullTable(u) /\ u.order = p.order
         /\ \A s \in Members(p.order) :
              u.state[s] = UsedAs(p.state[s], s, r, usage) /\ u.state[s].firing = p.state[s].firing
<1>1. PICK pool : pool = PoolOf(r)
  OBVIOUS
<1>2. PICK turns : turns = RebuildScope(r)
  OBVIOUS
<1>3. pool # turns
  BY <1>1, <1>2, ScopesDiffer
<1>4. CASE ~usage
  BY <1>4 DEF CountUsage, UsedAs
<1>5. CASE usage
  <2>1. PICK st : st = TrackUsage(p.state[pool], r)
    OBVIOUS
  <2>2. PICK turn : turn = IF r.session = NoSession THEN p.state[turns] ELSE TrackTurn(p.state[turns], r)
    OBVIOUS
  <2>3. PICK a : a = [p EXCEPT !.state[pool] = st]
    OBVIOUS
  <2>4. PICK u : u = [a EXCEPT !.state[turns] = turn]
    OBVIOUS
  <2>5. IsFull(p.state[pool]) /\ IsFull(p.state[turns]) /\ pool \in Members(p.order) /\ turns \in Members(p.order)
    BY <1>1, <1>2 DEF FullTable
  <2>6. IsFull(st) /\ st.firing = p.state[pool].firing
    <3>1. IsFull(st) /\ Unchanged(st, p.state[pool], {"writes"})
      BY <2>1, <2>5, UsageIs
    <3> QED BY <3>1 DEF Unchanged, StateFields
  <2>7. IsFull(turn) /\ turn.firing = p.state[turns].firing
    <3>1. CASE r.session = NoSession
      BY <2>2, <2>5, <3>1
    <3>2. CASE r.session # NoSession
      <4>1. IsFull(turn) /\ Unchanged(turn, p.state[turns], TurnFields)
        BY <2>2, <2>5, <3>2, TurnIs
      <4> QED BY <4>1 DEF Unchanged, StateFields, TurnFields
    <3> QED BY <3>1, <3>2
  <2>8. /\ FullTable(a) /\ a.order = p.order
        /\ \A s \in Members(p.order) : a.state[s] = IF s = pool THEN st ELSE p.state[s]
    BY <2>3, <2>5, <2>6, StateReplaced
  <2>9. /\ FullTable(u) /\ u.order = p.order
        /\ \A s \in Members(p.order) : u.state[s] = IF s = turns THEN turn ELSE a.state[s]
    BY <2>4, <2>5, <2>7, <2>8, StateReplaced
  <2>10. CountUsage(p, r, usage) = u
    <3>1. CountUsage(p, r, usage)
            = [[p EXCEPT !.state[pool] = TrackUsage(p.state[pool], r)] EXCEPT
                 !.state[turns] = IF r.session = NoSession THEN p.state[turns] ELSE TrackTurn(p.state[turns], r)]
      BY <1>1, <1>2, <1>5 DEF CountUsage
    <3> QED BY <2>1, <2>2, <2>3, <2>4, <3>1
  <2>11. ASSUME NEW s \in Members(p.order)
         PROVE  u.state[s] = UsedAs(p.state[s], s, r, usage) /\ u.state[s].firing = p.state[s].firing
    BY <1>1, <1>2, <1>3, <1>5, <2>1, <2>2, <2>6, <2>7, <2>8, <2>9 DEF UsedAs
  <2> QED
    BY <2>9, <2>10, <2>11
<1> QED
  BY <1>4, <1>5

\* The warnings that an observation of r gives in the table p.
Warned(p, r, shape, usage) ==
  LET chain == ReuseChainOf(r)  pool == PoolOf(r)  turns == RebuildScope(r)
      shaped(s) == ShapedAs(p.state[s], s, r, shape)
      used(s)   == ObservedAs(p.state[s], s, r, shape, usage)
  IN (IF shape THEN Warnings(chain, ShapeChecks(used(chain), r)) \cup Warnings(chain, NoSurface(r)) ELSE {})
     \cup (IF usage THEN Warnings(pool, ColdFanout(shaped(pool), r))
                         \cup Warnings(turns, Rebuild(shaped(turns), used(turns), r)) ELSE {})

\* What an observation of r in the table p comes to.
ObservedTo(after, p, r, shape, usage) ==
  /\ FullTable(after.table) /\ after.table.order = p.order
  /\ Sequence(after.new) /\ Members(after.new) \subseteq Warned(p, r, shape, usage)
  /\ \A s \in Members(p.order) :
       /\ Same(after.table.state[s], ObservedAs(p.state[s], s, r, shape, usage))
       /\ FiredFor(after.table.state[s].firing, p.state[s].firing, s, Warned(p, r, shape, usage),
                   Members(after.new))

LEMMA AlertingIs ==
  ASSUME NEW used, FullTable(used), NEW r, NEW shape \in BOOLEAN, NEW usage \in BOOLEAN,
         shape => HasSegs(r), NEW shaped,
         {PoolOf(r), RebuildScope(r), ReuseChainOf(r)} \subseteq Members(used.order)
  PROVE  LET chain == ReuseChainOf(r)  pool == PoolOf(r)  turns == RebuildScope(r)
             W == (IF shape THEN Warnings(chain, ShapeChecks(used.state[chain], r))
                                   \cup Warnings(chain, NoSurface(r)) ELSE {})
                    \cup (IF usage THEN Warnings(pool, ColdFanout(shaped.state[pool], r))
                            \cup Warnings(turns, Rebuild(shaped.state[turns], used.state[turns], r)) ELSE {})
         IN Fired(Alerting(shaped, used, r, shape, usage), [table |-> used, new |-> <<>>], W)
<1>1. PICK chain : chain = ReuseChainOf(r)
  OBVIOUS
<1>2. PICK turns : turns = RebuildScope(r)
  OBVIOUS
<1>3. PICK pool : pool = PoolOf(r)
  OBVIOUS
<1>4. PICK zero : zero = [table |-> used, new |-> <<>>]
  OBVIOUS
<1>5. PICK ask1 : ask1 = IF shape THEN ShapeChecks(used.state[chain], r) ELSE <<>>
  OBVIOUS
<1>6. PICK ask2 : ask2 = IF usage THEN ColdFanout(shaped.state[pool], r) ELSE <<>>
  OBVIOUS
<1>7. PICK ask3 : ask3 = IF usage THEN Rebuild(shaped.state[turns], used.state[turns], r) ELSE <<>>
  OBVIOUS
<1>8. PICK ask4 : ask4 = IF shape THEN NoSurface(r) ELSE <<>>
  OBVIOUS
<1>9. PICK f1 : f1 = Fire(zero, chain, ask1)
  OBVIOUS
<1>10. PICK f2 : f2 = Fire(f1, pool, ask2)
  OBVIOUS
<1>11. PICK f3 : f3 = Fire(f2, turns, ask3)
  OBVIOUS
<1>12. PICK f4 : f4 = Fire(f3, chain, ask4)
  OBVIOUS
<1>13. Alerting(shaped, used, r, shape, usage) = f4
  BY <1>1, <1>2, <1>3, <1>4, <1>5, <1>6, <1>7, <1>8, <1>9, <1>10, <1>11, <1>12 DEF Alerting
<1>14. Sequence(ask1) /\ Sequence(ask2) /\ Sequence(ask3) /\ Sequence(ask4)
  BY <1>5, <1>6, <1>7, <1>8, ChecksAre, UsageChecksAre, EmptyIs
<1>15. /\ zero.table = used /\ zero.new = <<>> /\ Sequence(zero.new)
       /\ chain \in Members(used.order) /\ pool \in Members(used.order) /\ turns \in Members(used.order)
  BY <1>1, <1>2, <1>3, <1>4, EmptyIs
<1>16. Fired(f1, zero, Warnings(chain, ask1)) /\ f1.table.order = used.order
  <2>1. Fired(f1, zero, Warnings(chain, ask1))
    BY <1>9, <1>14, <1>15, FireIs
  <2> QED
    BY <1>15, <2>1 DEF Fired, OnlyFired
<1>17. Fired(f2, f1, Warnings(pool, ask2)) /\ f2.table.order = used.order
  <2>1. FullTable(f1.table) /\ Sequence(f1.new) /\ f1.table.order = used.order
    BY <1>16 DEF Fired, OnlyFired
  <2>2. Fired(f2, f1, Warnings(pool, ask2))
    BY <1>10, <1>14, <1>15, <2>1, FireIs
  <2> QED
    BY <1>16, <2>2 DEF Fired, OnlyFired
<1>18. Fired(f3, f2, Warnings(turns, ask3)) /\ f3.table.order = used.order
  <2>1. FullTable(f2.table) /\ Sequence(f2.new) /\ f2.table.order = used.order
    BY <1>17 DEF Fired, OnlyFired
  <2>2. Fired(f3, f2, Warnings(turns, ask3))
    BY <1>11, <1>14, <1>15, <2>1, FireIs
  <2> QED
    BY <1>17, <2>2 DEF Fired, OnlyFired
<1>19. Fired(f4, f3, Warnings(chain, ask4))
  <2>1. FullTable(f3.table) /\ Sequence(f3.new) /\ f3.table.order = used.order
    BY <1>18 DEF Fired, OnlyFired
  <2> QED
    BY <1>12, <1>14, <1>15, <2>1, FireIs
<1>20. Fired(f2, zero, Warnings(chain, ask1) \cup Warnings(pool, ask2))
  BY <1>16, <1>17, FiredTwice
<1>21. Fired(f3, zero, (Warnings(chain, ask1) \cup Warnings(pool, ask2)) \cup Warnings(turns, ask3))
  BY <1>18, <1>20, FiredTwice
<1>22. Fired(f4, zero, ((Warnings(chain, ask1) \cup Warnings(pool, ask2)) \cup Warnings(turns, ask3))
                         \cup Warnings(chain, ask4))
  BY <1>19, <1>21, FiredTwice
<1>23. \A s : Warnings(s, <<>>) = {}
  BY EmptyIs DEF Warnings, Members
<1>24. PICK W : W = (IF shape THEN Warnings(chain, ShapeChecks(used.state[chain], r))
                                   \cup Warnings(chain, NoSurface(r)) ELSE {})
                    \cup (IF usage THEN Warnings(pool, ColdFanout(shaped.state[pool], r))
                            \cup Warnings(turns, Rebuild(shaped.state[turns], used.state[turns], r)) ELSE {})
  OBVIOUS
<1>25. ((Warnings(chain, ask1) \cup Warnings(pool, ask2)) \cup Warnings(turns, ask3)) \cup Warnings(chain, ask4) = W
  <2>1. Warnings(chain, ask1) = IF shape THEN Warnings(chain, ShapeChecks(used.state[chain], r)) ELSE {}
    BY <1>5, <1>23
  <2>2. Warnings(pool, ask2) = IF usage THEN Warnings(pool, ColdFanout(shaped.state[pool], r)) ELSE {}
    BY <1>6, <1>23
  <2>3. Warnings(turns, ask3) = IF usage THEN Warnings(turns, Rebuild(shaped.state[turns], used.state[turns], r)) ELSE {}
    BY <1>7, <1>23
  <2>4. Warnings(chain, ask4) = IF shape THEN Warnings(chain, NoSurface(r)) ELSE {}
    BY <1>8, <1>23
  <2> QED
    BY <1>24, <2>1, <2>2, <2>3, <2>4
<1>26. Fired(f4, zero, W)
  BY <1>22, <1>25
<1> QED
  BY <1>1, <1>2, <1>3, <1>4, <1>13, <1>24, <1>26

LEMMA ObservingIs ==
  ASSUME NEW t, FullTable(t), NEW r, NEW shape \in BOOLEAN, NEW usage \in BOOLEAN,
         shape => HasSegs(r)
  PROVE  ObservedTo(Observing(t, r, shape, usage), Placed(t, r), r, shape, usage)
<1>1. PICK p : p = Placed(t, r)
  OBVIOUS
<1>2. PICK shaped : shaped = CountShape(p, r, shape)
  OBVIOUS
<1>3. PICK used : used = CountUsage(shaped, r, usage)
  OBVIOUS
<1>4. PICK after : after = Alerting(shaped, used, r, shape, usage)
  OBVIOUS
<1>5. Observing(t, r, shape, usage) = after
  BY <1>1, <1>2, <1>3, <1>4, FoundIs DEF Observing, Checked
<1>6. FullTable(p) /\ {PoolOf(r), RebuildScope(r), ReuseChainOf(r)} \subseteq Members(p.order)
  BY <1>1, PlacedIs DEF PlacedAs
<1>7. /\ FullTable(shaped) /\ shaped.order = p.order
      /\ \A s \in Members(p.order) : /\ shaped.state[s] = ShapedAs(p.state[s], s, r, shape)
                                     /\ shaped.state[s].firing = p.state[s].firing
  <2>1. CountedAs(shaped, p, r, shape, FALSE)
    BY <1>2, <1>6, CountShapeIs
  <2> QED
    BY <2>1 DEF CountedAs, ObservedAs, UsedAs
<1>8. /\ FullTable(used) /\ used.order = p.order
      /\ \A s \in Members(p.order) : /\ used.state[s] = ObservedAs(p.state[s], s, r, shape, usage)
                                     /\ used.state[s].firing = p.state[s].firing
  <2>1. {PoolOf(r), RebuildScope(r)} \subseteq Members(shaped.order)
    BY <1>6, <1>7
  <2>2. /\ FullTable(used) /\ used.order = shaped.order
        /\ \A s \in Members(shaped.order) :
             used.state[s] = UsedAs(shaped.state[s], s, r, usage) /\ used.state[s].firing = shaped.state[s].firing
    BY <1>3, <1>7, <2>1, CountUsageIs
  <2> QED
    BY <1>7, <2>2 DEF ObservedAs
<1>9. PICK zero : zero = [table |-> used, new |-> <<>>]
  OBVIOUS
<1>10. PICK W : W = Warned(p, r, shape, usage)
  OBVIOUS
<1>11. Fired(after, zero, W)
  <2>1. PICK chain : chain = ReuseChainOf(r)
    OBVIOUS
  <2>2. PICK turns : turns = RebuildScope(r)
    OBVIOUS
  <2>3. PICK pool : pool = PoolOf(r)
    OBVIOUS
  <2>4. PICK V : V = (IF shape THEN Warnings(chain, ShapeChecks(used.state[chain], r))
                                   \cup Warnings(chain, NoSurface(r)) ELSE {})
                    \cup (IF usage THEN Warnings(pool, ColdFanout(shaped.state[pool], r))
                            \cup Warnings(turns, Rebuild(shaped.state[turns], used.state[turns], r)) ELSE {})
    OBVIOUS
  <2>5. {PoolOf(r), RebuildScope(r), ReuseChainOf(r)} \subseteq Members(used.order)
    BY <1>6, <1>8
  <2>6. Fired(after, zero, V)
    BY <1>4, <1>8, <1>9, <2>1, <2>2, <2>3, <2>4, <2>5, AlertingIs
  <2>7. {pool, turns, chain} \subseteq Members(p.order)
    BY <1>6, <2>1, <2>2, <2>3
  <2>8. /\ used.state[chain] = ObservedAs(p.state[chain], chain, r, shape, usage)
        /\ shaped.state[pool] = ShapedAs(p.state[pool], pool, r, shape)
        /\ shaped.state[turns] = ShapedAs(p.state[turns], turns, r, shape)
        /\ used.state[turns] = ObservedAs(p.state[turns], turns, r, shape, usage)
    BY <1>7, <1>8, <2>7
  <2>9. V = W
    BY <1>10, <2>1, <2>2, <2>3, <2>4, <2>8 DEF Warned
  <2> QED
    BY <2>6, <2>9
<1>12. zero.table = used /\ zero.new = <<>> /\ Members(zero.new) = {}
  BY <1>9, EmptyIs DEF Members
<1>13. OnlyFired(after.table, used) /\ Sequence(after.new) /\ Members(after.new) \subseteq W
  BY <1>11, <1>12 DEF Fired
<1>14. ASSUME NEW s \in Members(p.order)
       PROVE  /\ Same(after.table.state[s], ObservedAs(p.state[s], s, r, shape, usage))
              /\ FiredFor(after.table.state[s].firing, p.state[s].firing, s, W, Members(after.new))
  <2>1. Same(after.table.state[s], used.state[s])
    BY <1>8, <1>13 DEF OnlyFired
  <2>2. FiredFor(after.table.state[s].firing, used.state[s].firing, s, W, Members(after.new))
    BY <1>8, <1>11, <1>12 DEF Fired
  <2> QED
    BY <1>8, <2>1, <2>2
<1>15. FullTable(after.table) /\ after.table.order = p.order
  BY <1>8, <1>13 DEF OnlyFired
<1>16. ObservedTo(after, p, r, shape, usage)
  BY <1>10, <1>13, <1>14, <1>15 DEF ObservedTo
<1> QED
  BY <1>1, <1>5, <1>16

--------------------
(* The scopes in the table.                                                      *)

TouchesOf(entries) ==
  [k \in 1 .. 3 * Len(entries) |->
     SeenBy(entries[(k + 2) \div 3].r)[((k + 2) % 3) + 1]]

TouchedBy(entries) == Touched(TouchesOf(entries), 3 * Len(entries))

LEMMA TouchesGrow ==
  ASSUME NEW entries, Sequence(entries), NEW e
  PROVE  LET ts == TouchesOf(entries)  us == TouchesOf(Append(entries, e))  n == 3 * Len(entries)
         IN /\ n \in Nat /\ 3 * Len(Append(entries, e)) = n + 3
            /\ \A k \in 1 .. n : us[k] = ts[k]
            /\ us[n + 1] = First(e.r) /\ us[n + 2] = Second(e.r) /\ us[n + 3] = Third(e.r)
<1>1. PICK more : more = Append(entries, e)
  OBVIOUS
<1>2. PICK n : n = Len(entries)
  OBVIOUS
<1>3. PICK us : us = TouchesOf(more)
  OBVIOUS
<1>4. /\ n \in Nat /\ Len(more) = n + 1 /\ more[n + 1] = e
      /\ \A i \in 1 .. n : more[i] = entries[i]
  BY <1>1, <1>2, AppendIs DEF Sequence
<1>5. \A k \in 1 .. 3 * (n + 1) :
        us[k] = SeenBy(more[(k + 2) \div 3].r)[((k + 2) % 3) + 1]
  BY <1>3, <1>4 DEF TouchesOf
<1>6. ASSUME NEW k \in 1 .. 3 * n PROVE us[k] = TouchesOf(entries)[k]
  <2>1. k \in 1 .. 3 * (n + 1) /\ (k + 2) \div 3 \in 1 .. n
    BY <1>4
  <2>2. more[(k + 2) \div 3] = entries[(k + 2) \div 3]
    BY <1>4, <2>1
  <2> QED
    BY <1>2, <1>5, <2>1, <2>2 DEF TouchesOf
<1>7. \A j \in 1 .. 3 :
        us[3 * n + j] = SeenBy(e.r)[j]
  <2> SUFFICES ASSUME NEW j \in 1 .. 3
               PROVE  us[3 * n + j] = SeenBy(e.r)[j]
    OBVIOUS
  <2>1. 3 * n + j \in 1 .. 3 * (n + 1)
    BY <1>4
  <2>2. (3 * n + j + 2) \div 3 = n + 1 /\ ((3 * n + j + 2) % 3) + 1 = j
    BY <1>4
  <2> QED
    BY <1>4, <1>5, <2>1, <2>2
<1>8. 3 * n \in Nat /\ 3 * (n + 1) = 3 * n + 3
  BY <1>4
<1>9. us[3 * n + 1] = First(e.r) /\ us[3 * n + 2] = Second(e.r) /\ us[3 * n + 3] = Third(e.r)
  BY <1>7 DEF First, Second, Third
<1> QED
  BY <1>1, <1>2, <1>3, <1>4, <1>6, <1>8, <1>9

LEMMA ChainsAreTouched ==
  ASSUME NEW entries, Sequence(entries), NEW i \in 1 .. Len(entries)
  PROVE  {PoolOf(entries[i].r), RebuildScope(entries[i].r), ReuseChainOf(entries[i].r)}
           \subseteq TouchedBy(entries)
<1>1. PICK r : r = entries[i].r
  OBVIOUS
<1>2. PICK ts : ts = TouchesOf(entries)
  OBVIOUS
<1>3. Len(entries) \in Nat
  BY DEF Sequence
<1>4. ASSUME NEW j \in 1 .. 3 PROVE SeenBy(r)[j] \in Touched(ts, 3 * Len(entries))
  <2>1. PICK k : k = 3 * i - 3 + j
    OBVIOUS
  <2>2. k \in 1 .. 3 * Len(entries) /\ (k + 2) \div 3 = i /\ ((k + 2) % 3) + 1 = j
    BY <1>3, <2>1
  <2>3. ts[k] = SeenBy(r)[j]
    BY <1>1, <1>2, <2>2 DEF TouchesOf
  <2> QED
    BY <2>2, <2>3 DEF Touched
<1>5. {First(r), Second(r), Third(r)} \subseteq Touched(ts, 3 * Len(entries))
  BY <1>4 DEF First, Second, Third
<1> QED
  BY <1>1, <1>2, <1>5, SeenAre DEF TouchedBy

\* No scope that was seen had to be forgotten.
AllKept(entries) == Cardinality(TouchedBy(entries)) <= MaxScopes

LEMMA TouchedIsFinite ==
  ASSUME NEW ts, NEW n \in Nat
  PROVE  IsFiniteSet(Touched(ts, n)) /\ Cardinality(Touched(ts, n)) \in Nat
<1>1. IsFiniteSet(1 .. n)
  BY FS_Interval
<1>2. IsFiniteSet(Touched(ts, n))
  BY <1>1, ImageIsFinite DEF Touched
<1> QED
  BY <1>2, FS_CardinalityType

LEMMA TouchedGrows ==
  ASSUME NEW ts, NEW n \in Nat, NEW m \in 0 .. n
  PROVE  /\ Touched(ts, m) \subseteq Touched(ts, n)
         /\ Cardinality(Touched(ts, n)) <= MaxScopes => Cardinality(Touched(ts, m)) <= MaxScopes
<1>1. Touched(ts, m) \subseteq Touched(ts, n)
  <2>1. \A k \in 1 .. m : k \in 1 .. n
    OBVIOUS
  <2> QED
    BY <2>1 DEF Touched
<1>2. /\ IsFiniteSet(Touched(ts, n)) /\ Cardinality(Touched(ts, n)) \in Nat
      /\ Cardinality(Touched(ts, m)) \in Nat
  BY TouchedIsFinite
<1>3. Cardinality(Touched(ts, m)) <= Cardinality(Touched(ts, n))
  BY <1>1, <1>2, FS_Subset
<1> QED
  BY <1>1, <1>2, <1>3, MonitorAssumption

\* The table p has every scope of t, and the others are new.
Grown(p, t) ==
  /\ Members(t.order) \subseteq Members(p.order)
  /\ \A s \in Members(p.order) :
       p.state[s] = IF s \in Members(t.order) THEN t.state[s] ELSE FreshState

ScopesInv(t, entries) ==
  /\ FullTable(t) /\ Sequence(entries)
  /\ Recency(t.order, MaxScopes, TouchesOf(entries), 3 * Len(entries))

\* The scopes of another observation.
LEMMA PlacedScopes ==
  ASSUME NEW t, NEW entries, ScopesInv(t, entries), NEW e
  PROVE  LET more == Append(entries, e)  p == Placed(t, e.r) IN
         /\ Recency(p.order, MaxScopes, TouchesOf(more), 3 * Len(more))
         /\ AllKept(more) => /\ AllKept(entries) /\ Grown(p, t)
                             /\ Members(p.order) = TouchedBy(more)
                             /\ Members(t.order) = TouchedBy(entries)
<1>1. PICK more : more = Append(entries, e)
  OBVIOUS
<1>2. PICK us : us = TouchesOf(more)
  OBVIOUS
<1>3. PICK n : n = 3 * Len(entries)
  OBVIOUS
<1>4. /\ n \in Nat /\ 3 * Len(more) = n + 3
      /\ \A k \in 1 .. n : us[k] = TouchesOf(entries)[k]
      /\ us[n + 1] = First(e.r) /\ us[n + 2] = Second(e.r) /\ us[n + 3] = Third(e.r)
  BY <1>1, <1>2, <1>3, TouchesGrow DEF ScopesInv
<1>5. PICK r : r = e.r
  OBVIOUS
<1>6. PICK a : a = Scope(t, First(r))
  OBVIOUS
<1>7. PICK b : b = Scope(a, Second(r))
  OBVIOUS
<1>8. PICK c : c = Scope(b, Third(r))
  OBVIOUS
<1>9. ScopedAs(a, t, First(r))
  BY <1>6, ScopeIs DEF ScopesInv
<1>10. ScopedAs(b, a, Second(r))
  BY <1>7, <1>9, ScopeIs DEF ScopedAs
<1>11. ScopedAs(c, b, Third(r))
  BY <1>8, <1>10, ScopeIs DEF ScopedAs
<1>12. MaxScopes \in Nat \ {0}
  BY MonitorAssumption
<1>13. Recency(t.order, MaxScopes, us, n)
  BY <1>3, <1>4, RecencyOfSame DEF ScopesInv
<1>14. Recency(a.order, MaxScopes, us, n + 1)
  <2>1. Recency(Touch(t.order, us[n + 1], MaxScopes), MaxScopes, us, n + 1)
    BY <1>4, <1>12, <1>13, RecencyStep
  <2> QED
    BY <1>4, <1>5, <1>9, <2>1 DEF ScopedAs
<1>15. Recency(b.order, MaxScopes, us, n + 2)
  <2>0. n + 1 \in Nat /\ (n + 1) + 1 = n + 2
    BY <1>4
  <2>1. Recency(Touch(a.order, us[(n + 1) + 1], MaxScopes), MaxScopes, us, (n + 1) + 1)
    BY <1>12, <1>14, <2>0, RecencyStep
  <2> QED
    BY <1>4, <1>5, <1>10, <2>0, <2>1 DEF ScopedAs
<1>16. Recency(c.order, MaxScopes, us, n + 3)
  <2>0. n + 2 \in Nat /\ (n + 2) + 1 = n + 3
    BY <1>4
  <2>1. Recency(Touch(b.order, us[(n + 2) + 1], MaxScopes), MaxScopes, us, (n + 2) + 1)
    BY <1>12, <1>15, <2>0, RecencyStep
  <2> QED
    BY <1>4, <1>5, <1>11, <2>0, <2>1 DEF ScopedAs
<1>17. c = Placed(t, e.r)
  BY <1>5, <1>6, <1>7, <1>8 DEF Placed
<1>18. ASSUME AllKept(more)
       PROVE  /\ AllKept(entries) /\ Grown(c, t) /\ Members(c.order) = TouchedBy(more)
              /\ Members(t.order) = TouchedBy(entries)
  <2>1. Cardinality(Touched(us, n + 3)) <= MaxScopes
    BY <1>2, <1>4, <1>18 DEF AllKept, TouchedBy
  <2>2. n + 3 \in Nat /\ n \in 0 .. n + 3 /\ n + 1 \in 0 .. n + 3 /\ n + 2 \in 0 .. n + 3
    BY <1>4
  <2>3. /\ Cardinality(Touched(us, n)) <= MaxScopes
        /\ Cardinality(Touched(us, n + 1)) <= MaxScopes
        /\ Cardinality(Touched(us, n + 2)) <= MaxScopes
    BY <2>1, <2>2, TouchedGrows
  <2>4. /\ Members(t.order) = Touched(us, n) /\ Members(a.order) = Touched(us, n + 1)
        /\ Members(b.order) = Touched(us, n + 2) /\ Members(c.order) = Touched(us, n + 3)
    BY <1>4, <1>12, <1>13, <1>14, <1>15, <1>16, <2>1, <2>2, <2>3, AllMembers
  <2>5. n + 1 \in Nat /\ n + 2 \in Nat /\ n \in 0 .. n + 1 /\ n + 1 \in 0 .. n + 2 /\ n + 2 \in 0 .. n + 3
    BY <1>4
  <2>6. /\ Touched(us, n) \subseteq Touched(us, n + 1)
        /\ Touched(us, n + 1) \subseteq Touched(us, n + 2)
        /\ Touched(us, n + 2) \subseteq Touched(us, n + 3)
    BY <2>2, <2>5, TouchedGrows
  <2>7. Grown(c, t)
    <3>1. Members(t.order) \subseteq Members(c.order)
      BY <2>4, <2>6
    <3>2. ASSUME NEW s \in Members(c.order)
          PROVE  c.state[s] = IF s \in Members(t.order) THEN t.state[s] ELSE FreshState
      <4>1. c.state[s] = IF s \in Members(b.order) THEN b.state[s] ELSE FreshState
        BY <1>11 DEF ScopedAs
      <4>2. s \in Members(b.order) =>
              b.state[s] = IF s \in Members(a.order) THEN a.state[s] ELSE FreshState
        BY <1>10 DEF ScopedAs
      <4>3. s \in Members(a.order) =>
              a.state[s] = IF s \in Members(t.order) THEN t.state[s] ELSE FreshState
        BY <1>9 DEF ScopedAs
      <4> QED BY <2>4, <2>6, <4>1, <4>2, <4>3
    <3> QED BY <3>1, <3>2 DEF Grown
  <2>8. TouchedBy(entries) = Touched(us, n)
    BY <1>3, <1>4 DEF TouchedBy, Touched
  <2> QED
    BY <1>2, <1>4, <2>3, <2>4, <2>7, <2>8 DEF AllKept, TouchedBy
<1> QED
  BY <1>1, <1>2, <1>4, <1>16, <1>17, <1>18

LEMMA ScopesStep ==
  ASSUME NEW t, NEW entries, ScopesInv(t, entries), NEW e,
         e.shape \in BOOLEAN, e.usage \in BOOLEAN, e.shape => HasSegs(e.r)
  PROVE  LET after == Observing(t, e.r, e.shape, e.usage).table
         IN ScopesInv(after, Append(entries, e))
<1>1. PICK out : out = Observing(t, e.r, e.shape, e.usage)
  OBVIOUS
<1>2. ObservedTo(out, Placed(t, e.r), e.r, e.shape, e.usage)
  BY <1>1, ObservingIs DEF ScopesInv
<1>3. FullTable(out.table) /\ out.table.order = Placed(t, e.r).order
  BY <1>2 DEF ObservedTo
<1>4. Sequence(Append(entries, e))
  BY AppendIs DEF ScopesInv
<1>5. Recency(out.table.order, MaxScopes, TouchesOf(Append(entries, e)), 3 * Len(Append(entries, e)))
  BY <1>3, PlacedScopes
<1> QED
  BY <1>1, <1>3, <1>4, <1>5 DEF ScopesInv

\* As long as no scope was forgotten, each has counted its shapes.
SeenAll(t, entries) ==
  AllKept(entries) => \A s \in Members(t.order) :
    t.state[s].seen = Cardinality(ShapesOf(entries, s, Len(entries)))

LEMMA SeenAllStep ==
  ASSUME NEW t, NEW entries, ScopesInv(t, entries), SeenAll(t, entries), NEW e,
         e.shape \in BOOLEAN, e.usage \in BOOLEAN, e.shape => HasSegs(e.r)
  PROVE  LET after == Observing(t, e.r, e.shape, e.usage).table
         IN SeenAll(after, Append(entries, e))
<1>1. PICK out : out = Observing(t, e.r, e.shape, e.usage)
  OBVIOUS
<1>2. PICK p : p = Placed(t, e.r)
  OBVIOUS
<1>3. PICK more : more = Append(entries, e)
  OBVIOUS
<1>4. ObservedTo(out, p, e.r, e.shape, e.usage)
  BY <1>1, <1>2, ObservingIs DEF ScopesInv
<1>5. Sequence(entries) /\ Len(entries) \in Nat /\ Len(more) = Len(entries) + 1
  BY <1>3, AppendIs DEF ScopesInv, Sequence
<1>6. FullTable(p)
  BY <1>2, PlacedIs DEF ScopesInv, PlacedAs
<1>7. ASSUME AllKept(more), NEW s \in Members(p.order)
      PROVE  out.table.state[s].seen = Cardinality(ShapesOf(more, s, Len(more)))
  <2>1. AllKept(entries) /\ Grown(p, t) /\ Members(t.order) = TouchedBy(entries)
    BY <1>2, <1>3, <1>7, PlacedScopes
  <2>2. PICK before : before = ShapesOf(entries, s, Len(entries))
    OBVIOUS
  <2>3. before \in SUBSET (1 .. Len(entries))
    BY <1>5, <2>2, ShapesAre
  <2>4. p.state[s].seen = Cardinality(before)
    <3>1. CASE s \in Members(t.order)
      BY <2>1, <2>2, <3>1 DEF SeenAll, Grown
    <3>2. CASE s \notin Members(t.order)
      <4>1. before = {}
        <5> SUFFICES ASSUME NEW i \in before PROVE FALSE
          OBVIOUS
        <5>1. i \in 1 .. Len(entries) /\ ReuseChainOf(entries[i].r) = s
          BY <2>2 DEF ShapesOf
        <5>2. s \in TouchedBy(entries)
          BY <1>5, <5>1, ChainsAreTouched
        <5> QED BY <2>1, <3>2, <5>2
      <4>2. p.state[s] = FreshState
        BY <2>1, <3>2 DEF Grown
      <4> QED BY <4>1, <4>2, FreshIs, FS_EmptySet
    <3> QED BY <3>1, <3>2
  <2>5. out.table.state[s].seen = ObservedAs(p.state[s], s, e.r, e.shape, e.usage).seen
    BY <1>4 DEF ObservedTo, Same, StateFields
  <2>6. IsFull(p.state[s])
    BY <1>6, <1>7 DEF FullTable
  <2>7. PICK a : a = ShapedAs(p.state[s], s, e.r, e.shape)
    OBVIOUS
  <2>8. IsFull(a) /\ a.seen = IF e.shape /\ ReuseChainOf(e.r) = s THEN p.state[s].seen + 1 ELSE p.state[s].seen
    BY <2>6, <2>7, ShapeIs DEF ShapedAs
  <2>9. UsedAs(a, s, e.r, e.usage).seen = a.seen
    <3>1. PICK u : u = TrackUsage(a, e.r)
      OBVIOUS
    <3>2. PICK v : v = TrackTurn(a, e.r)
      OBVIOUS
    <3>3. Unchanged(u, a, {"writes"})
      BY <2>8, <3>1, UsageIs
    <3>4. Unchanged(v, a, TurnFields)
      BY <2>8, <3>2, TurnIs
    <3>5. u.seen = a.seen /\ v.seen = a.seen
      BY <3>3, <3>4 DEF Unchanged, StateFields, TurnFields
    <3> QED BY <3>1, <3>2, <3>5 DEF UsedAs
  <2>10. out.table.state[s].seen
           = IF e.shape /\ ReuseChainOf(e.r) = s THEN Cardinality(before) + 1 ELSE Cardinality(before)
    BY <2>4, <2>5, <2>7, <2>8, <2>9 DEF ObservedAs
  <2>11. ShapesOf(more, s, Len(entries) + 1)
           = IF e.shape /\ ReuseChainOf(e.r) = s THEN before \cup {Len(entries) + 1} ELSE before
    BY <1>3, <1>5, <2>2, ShapesGrow
  <2>12. Cardinality(before \cup {Len(entries) + 1}) = Cardinality(before) + 1
    BY <1>5, <2>3, OneMoreShape
  <2> QED
    BY <1>5, <2>10, <2>11, <2>12
<1>8. out.table.order = p.order
  BY <1>4 DEF ObservedTo
<1> QED
  BY <1>1, <1>3, <1>7, <1>8 DEF SeenAll

--------------------
(* Clearing, and the steps of the monitor.                                       *)

IsKeeping(upTo, s, S, n) ==
  upTo = [i \in 0 .. n |-> IF i = 0 THEN <<>>
                           ELSE IF i \in S THEN Append(upTo[i - 1], s[i]) ELSE upTo[i - 1]]

LEMMA KeepingExists ==
  ASSUME NEW s, NEW S, NEW n \in Nat
  PROVE  \E upTo : IsKeeping(upTo, s, S, n)
<1> DEFINE Reached == {k \in 0 .. n : \E upTo : IsKeeping(upTo, s, S, k)}
<1>1. 0 \in Reached
  <2>1. IsKeeping([i \in 0 .. 0 |-> <<>>], s, S, 0)
    BY DEF IsKeeping
  <2> QED
    BY <2>1
<1>2. ASSUME NEW k \in 0 .. n - 1, k \in Reached PROVE k + 1 \in Reached
  <2>1. PICK upTo : IsKeeping(upTo, s, S, k)
    BY <1>2
  <2> DEFINE more == [i \in 0 .. k + 1 |->
                        IF i = k + 1 THEN IF i \in S THEN Append(upTo[k], s[i]) ELSE upTo[k]
                        ELSE upTo[i]]
  <2>2. ASSUME NEW i \in 0 .. k + 1
        PROVE  more[i] = IF i = 0 THEN <<>>
                         ELSE IF i \in S THEN Append(more[i - 1], s[i]) ELSE more[i - 1]
    <3>1. CASE i = k + 1
      <4>1. i - 1 = k /\ k \in 0 .. k + 1 /\ k # k + 1 /\ i # 0
        BY <3>1
      <4> QED BY <3>1, <4>1
    <3>2. CASE i # k + 1
      <4>1. i \in 0 .. k /\ more[i] = upTo[i]
        BY <3>2
      <4>2. upTo[i] = IF i = 0 THEN <<>>
                      ELSE IF i \in S THEN Append(upTo[i - 1], s[i]) ELSE upTo[i - 1]
        BY <4>1, <2>1 DEF IsKeeping
      <4>3. i # 0 => more[i - 1] = upTo[i - 1]
        BY <4>1
      <4> HIDE DEF more
      <4> QED BY <4>1, <4>2, <4>3
    <3> QED BY <3>1, <3>2
  <2>3. more = [i \in 0 .. k + 1 |-> more[i]]
    OBVIOUS
  <2>4. IsKeeping(more, s, S, k + 1)
    <3> HIDE DEF more
    <3> QED BY <2>2, <2>3 DEF IsKeeping
  <2> HIDE DEF more
  <2> QED
    BY <2>4
<1>3. 0 .. n \subseteq Reached
  <2> HIDE DEF Reached
  <2> QED BY <1>1, <1>2, UpToInduction
<1> QED
  BY <1>3

\* What is kept is no longer, and nothing else.
LEMMA KeepIs ==
  ASSUME NEW s, Sequence(s), NEW S
  PROVE  /\ Sequence(Keep(s, S)) /\ Len(Keep(s, S)) <= Len(s)
         /\ Members(Keep(s, S)) \subseteq Members(s)
<1>1. PICK n : n = Len(s)
  OBVIOUS
<1>2. n \in Nat
  BY <1>1 DEF Sequence
<1>3. PICK upTo : IsKeeping(upTo, s, S, n) /\ Keep(s, S) = upTo[n]
  <2>1. \E upTo : IsKeeping(upTo, s, S, n)
    BY <1>2, KeepingExists
  <2>2. Keep(s, S) = (CHOOSE upTo : IsKeeping(upTo, s, S, n))[n]
    BY <1>1, Zenon DEF Keep, IsKeeping
  <2> QED
    BY <2>1, <2>2
<1> DEFINE Fine(k) == Sequence(upTo[k]) /\ Len(upTo[k]) <= k /\ Members(upTo[k]) \subseteq Members(s)
           Reached == {k \in 0 .. n : Fine(k)}
<1>4. 0 \in Reached
  <2>1. upTo[0] = <<>>
    BY <1>2, <1>3 DEF IsKeeping
  <2>2. Sequence(<<>>) /\ Len(<<>>) = 0 /\ Members(<<>>) = {}
    BY EmptyIs DEF Members
  <2> QED
    BY <1>2, <2>1, <2>2
<1>5. ASSUME NEW k \in 0 .. n - 1, k \in Reached PROVE k + 1 \in Reached
  <2>1. Sequence(upTo[k]) /\ Len(upTo[k]) \in Nat /\ Len(upTo[k]) <= k /\ Members(upTo[k]) \subseteq Members(s)
    BY <1>5 DEF Sequence
  <2>2. k + 1 \in 0 .. n /\ k + 1 # 0 /\ (k + 1) - 1 = k /\ k + 1 \in 1 .. n
    BY <1>2
  <2>3. upTo[k + 1] = Append(upTo[k], s[k + 1]) \/ upTo[k + 1] = upTo[k]
    BY <1>3, <2>2 DEF IsKeeping
  <2>4. s[k + 1] \in Members(s)
    BY <1>1, <2>2 DEF Members
  <2>5. ASSUME upTo[k + 1] = Append(upTo[k], s[k + 1]) PROVE Fine(k + 1)
    <3>1. PICK more : more = Append(upTo[k], s[k + 1])
      OBVIOUS
    <3>2. Sequence(more) /\ Len(more) = Len(upTo[k]) + 1 /\ Members(more) = Members(upTo[k]) \cup {s[k + 1]}
      BY <2>1, <3>1, AppendIs, AppendMembers
    <3>3. Len(more) <= k + 1 /\ k \in Nat
      BY <1>2, <2>1, <3>2
    <3> QED BY <2>1, <2>4, <2>5, <3>1, <3>2, <3>3
  <2>6. ASSUME upTo[k + 1] = upTo[k] PROVE Fine(k + 1)
    BY <2>1, <2>2, <2>6
  <2>7. Fine(k + 1)
    BY <2>3, <2>5, <2>6
  <2> HIDE DEF Fine
  <2> QED
    BY <2>2, <2>7
<1>6. 0 .. n \subseteq Reached
  <2> HIDE DEF Reached
  <2> QED BY <1>2, <1>4, <1>5, UpToInduction
<1>7. n \in 0 .. n
  BY <1>2
<1> QED
  BY <1>1, <1>3, <1>6, <1>7

\* Less is firing after it, and nothing else has changed.
LEMMA ClearIs ==
  ASSUME NEW scope, NEW code, Clear(scope, code), FullTable(table)
  PROVE  /\ OnlyFired(table', table) /\ UNCHANGED <<log, raised>>
         /\ \A s \in Members(table.order) : Firing(table', s) \subseteq Firing(table, s)
<1>1. PICK was : was = table.state[scope]
  OBVIOUS
<1>2. PICK left : left = Keep(was.firing, {i \in DOMAIN was.firing : was.firing[i][1] # code})
  OBVIOUS
<1>3. PICK st : st = [was EXCEPT !.firing = left]
  OBVIOUS
<1>4. scope \in Members(table.order) /\ UNCHANGED <<log, raised>>
  BY FullIsTable DEF Clear
<1>5. IsFull(was) /\ Sequence(was.firing) /\ Len(was.firing) \in Nat /\ Len(was.firing) <= MaxFiring
  BY <1>1, <1>4 DEF FullTable, IsFull, Sequence
<1>6. Sequence(left) /\ Len(left) <= Len(was.firing) /\ Members(left) \subseteq Members(was.firing)
  BY <1>2, <1>5, KeepIs
<1>7. st = [f \in StateFields |-> IF f = "firing" THEN left ELSE was[f]]
  BY <1>3, <1>5 DEF IsFull, StateFields
<1>8. IsFull(st) /\ Same(st, was) /\ st.firing = left
  <2>1. st.firing = left /\ st = [f \in StateFields |-> st[f]] /\ Same(st, was)
    BY <1>7 DEF Same, StateFields
  <2>2. Len(left) \in Nat /\ Len(left) <= MaxFiring
    BY <1>5, <1>6, MonitorAssumption DEF Sequence
  <2> QED
    BY <1>6, <2>1, <2>2 DEF IsFull
<1>9. table' = [table EXCEPT !.state[scope] = st]
  BY <1>1, <1>2, <1>3, <1>4 DEF Clear, FullTable
<1>10. /\ FullTable(table') /\ table'.order = table.order
       /\ \A s \in Members(table.order) :
            table'.state[s] = IF s = scope THEN st ELSE table.state[s]
  <2>1. PICK u : u = [table EXCEPT !.state[scope] = st]
    OBVIOUS
  <2>2. /\ FullTable(u) /\ u.order = table.order
        /\ \A s \in Members(table.order) : u.state[s] = IF s = scope THEN st ELSE table.state[s]
    BY <1>4, <1>8, <2>1, StateReplaced
  <2> QED
    BY <1>9, <2>1, <2>2
<1>11. \A s \in Members(table.order) :
         Same(table'.state[s], table.state[s]) /\ Firing(table', s) \subseteq Firing(table, s)
  <2> SUFFICES ASSUME NEW s \in Members(table.order)
               PROVE  Same(table'.state[s], table.state[s]) /\ Firing(table', s) \subseteq Firing(table, s)
    OBVIOUS
  <2>1. CASE s = scope
    BY <1>1, <1>6, <1>8, <1>10, <2>1 DEF Firing
  <2>2. CASE s # scope
    BY <1>10, <2>2 DEF Firing, Same
  <2> QED
    BY <2>1, <2>2
<1> QED
  BY <1>4, <1>10, <1>11 DEF OnlyFired

\* A step of the plugin, as the monitor sees it.
Entry(r, shape, usage) == [r |-> r, shape |-> shape, usage |-> usage]

Observes(r, shape, usage) ==
  /\ ObservedNow(r, shape, usage)
  /\ table' = Observing(table, r, shape, usage).table
  /\ log' = Append(log, Entry(r, shape, usage))
  /\ raised' = raised \o Observing(table, r, shape, usage).new

LEMMA ObservesIs ==
  ASSUME NEW r, NEW shape, NEW usage, ObservedNow(r, shape, usage)
  PROVE  Observes(r, shape, usage)
BY Zenon DEF ObservedNow, Seen, Observes, Entry

\* What on_request observes.
LEMMA ShapeShown ==
  ASSUME NEW r, IsRequest(r), OnRequest(r)
  PROVE  \E q : HasSegs(q) /\ Observes(q, TRUE, FALSE)
<1>1. PICK placed, sent, shown :
        /\ sent = [r EXCEPT !.segs = AsSent(r, placed)]
        /\ shown = [sent EXCEPT !.declared = WireTtl(sent.segs)]
        /\ ObserveShape(shown)
  BY OnRequestIs, ZenonT(30)
<1>2. PICK segs : segs = AsSent(r, placed)
  OBVIOUS
<1>3. Sequence(segs)
  BY <1>2, PatchedIs DEF AsSent, IsRequest
<1>4. shown.segs = segs
  BY <1>1, <1>2 DEF IsRequest, RequestFields
<1>5. HasSegs(shown)
  BY <1>3, <1>4 DEF HasSegs, Sequence
<1> QED
  BY <1>1, <1>5, ObservesIs DEF ObserveShape

LEMMA MonitorSteps ==
  ASSUME NEW requests, NEW usages, \A r \in requests : IsRequest(r),
         [PluginNext(requests, usages)]_<<monitorVars, pluginVars>>
  PROVE  \/ UNCHANGED monitorVars
         \/ \E r : \E shape, usage \in BOOLEAN :
              (shape => HasSegs(r)) /\ Observes(r, shape, usage)
         \/ \E scope, code : Clear(scope, code)
<1>1. CASE UNCHANGED <<monitorVars, pluginVars>>
  BY <1>1
<1>2. ASSUME NEW r \in requests, PreCall(r)
      PROVE  \E q : HasSegs(q) /\ Observes(q, TRUE, FALSE)
  BY <1>2, PreCallBinds, ShapeShown
<1>3. ASSUME NEW r \in requests, FailOpen(r) PROVE UNCHANGED monitorVars
  BY <1>3 DEF FailOpen
<1>4. ASSUME NEW c \in DOMAIN calls, NEW usage \in usages, Response(c, usage)
      PROVE  UNCHANGED monitorVars \/ \E q : Observes(q, FALSE, TRUE)
  <2>1. UNCHANGED monitorVars \/ \E q : ObserveUsage(q)
    BY <1>4, Zenon DEF Response
  <2> QED
    BY <2>1, ObservesIs DEF ObserveUsage
<1>5. ASSUME NEW r \in requests, Observe(r) PROVE HasSegs(r) /\ Observes(r, TRUE, TRUE)
  BY <1>5, ObservesIs DEF Observe, IsRequest, HasSegs, Sequence
<1>6. TRUE \in BOOLEAN /\ FALSE \in BOOLEAN
  OBVIOUS
<1> QED
  BY <1>1, <1>2, <1>3, <1>4, <1>5, <1>6 DEF PluginNext

LEMMA MaxIs ==
  ASSUME NEW n \in Nat, NEW S \in SUBSET (1 .. n), S # {}
  PROVE  Max(S) \in S /\ \A i \in S : i <= Max(S)
<1> DEFINE Above == {k \in Nat : \A i \in S : i <= k}
<1>1. n \in Above
  OBVIOUS
<1>2. PICK m \in Above : \A k \in Above : <<k, m>> \notin OpToRel(<, Nat)
  BY <1>1, NatLessThanWellFounded, WFMin
<1>3. m \in S
  <2> SUFFICES ASSUME m \notin S PROVE FALSE
    OBVIOUS
  <2>1. \A i \in S : i <= m - 1
    OBVIOUS
  <2>2. m - 1 \in Nat
    <3>1. PICK i \in S : TRUE
      OBVIOUS
    <3>2. i <= m - 1 /\ i >= 1
      BY <2>1
    <3> QED BY <3>2
  <2>3. m - 1 \in Above /\ <<m - 1, m>> \in OpToRel(<, Nat)
    BY <2>1, <2>2 DEF OpToRel
  <2> QED
    BY <1>2, <2>3
<1>4. \A i \in S : i <= m
  OBVIOUS
<1> QED
  BY <1>3, <1>4 DEF Max

\* The touches are three to each entry of the log, and each entry touches its scopes.
LEMMA TouchesAre ==
  ASSUME Sequence(log)
  PROVE  /\ Touches = TouchesOf(log) /\ DOMAIN Touches = 1 .. 3 * Len(log)
         /\ Len(Touches) = 3 * Len(log) /\ 3 * Len(log) \in Nat
         /\ ToSet(Touches) = TouchedBy(log)
<1>1. Touches = TouchesOf(log)
  BY DEF Touches, TouchesOf
<1>2. PICK n : n = 3 * Len(log)
  OBVIOUS
<1>3. n \in Nat
  BY <1>2 DEF Sequence
<1>4. PICK ts : ts = Touches
  OBVIOUS
<1>5. ts = [k \in 1 .. n |-> ts[k]]
  BY <1>2, <1>4 DEF Touches
<1>6. Sequence(ts) /\ Len(ts) = n
  BY <1>3, <1>5, FunctionIsSequence
<1>7. DOMAIN ts = 1 .. n /\ ToSet(ts) = Touched(ts, n)
  BY <1>5 DEF ToSet, Touched
<1> QED
  BY <1>1, <1>2, <1>3, <1>4, <1>6, <1>7 DEF TouchedBy

MonitorInv == ScopesInv(table, log) /\ SeenAll(table, log)

LEMMA MonitorStarts == MonitorInit => MonitorInv
<1> SUFFICES ASSUME MonitorInit PROVE MonitorInv
  OBVIOUS
<1>1. table.order = <<>> /\ table.state = <<>> /\ log = <<>> /\ table = [order |-> table.order, state |-> table.state]
  BY DEF MonitorInit
<1>2. Sequence(<<>>) /\ Len(<<>>) = 0 /\ Members(<<>>) = {}
  BY EmptyIs DEF Members
<1>3. MaxScopes \in Nat \ {0}
  BY MonitorAssumption
<1>4. Recency(<<>>, MaxScopes, TouchesOf(log), 0)
  BY <1>3, RecencyStart
<1>5. FullTable(table)
  <2>1. table.state = [s \in Members(table.order) |-> table.state[s]]
    BY <1>1, <1>2
  <2>2. IsOrder(<<>>, MaxScopes)
    BY <1>4 DEF Recency
  <2> QED
    BY <1>1, <1>2, <2>1, <2>2 DEF FullTable
<1>6. 3 * Len(log) = 0
  BY <1>1, <1>2
<1> QED
  BY <1>1, <1>2, <1>4, <1>5, <1>6 DEF MonitorInv, ScopesInv, SeenAll

LEMMA RecencyKept ==
  ASSUME NEW entries, NEW old, ScopesInv(old, entries), NEW new, OnlyFired(new, old)
  PROVE  ScopesInv(new, entries)
BY DEF OnlyFired, ScopesInv

LEMMA MonitorKeeps ==
  ASSUME MonitorInv,
         \/ UNCHANGED monitorVars
         \/ \E r : \E shape, usage \in BOOLEAN :
              (shape => HasSegs(r)) /\ Observes(r, shape, usage)
         \/ \E scope, code : Clear(scope, code)
  PROVE  MonitorInv'
<1>1. CASE UNCHANGED monitorVars
  BY <1>1 DEF MonitorInv, monitorVars
<1>2. ASSUME NEW r, NEW shape \in BOOLEAN, NEW usage \in BOOLEAN,
             shape => HasSegs(r), Observes(r, shape, usage)
      PROVE  MonitorInv'
  <2>1. PICK e : e = Entry(r, shape, usage)
    OBVIOUS
  <2>2. e.r = r /\ e.shape = shape /\ e.usage = usage
    BY <2>1 DEF Entry
  <2>3. table' = Observing(table, e.r, e.shape, e.usage).table /\ log' = Append(log, e)
    BY <1>2, <2>1, <2>2 DEF Observes
  <2>4. e.shape \in BOOLEAN /\ e.usage \in BOOLEAN /\ (e.shape => HasSegs(e.r))
    BY <1>2, <2>2
  <2>5. ScopesInv(Observing(table, e.r, e.shape, e.usage).table, Append(log, e))
    BY <2>4, ScopesStep DEF MonitorInv
  <2>6. SeenAll(Observing(table, e.r, e.shape, e.usage).table, Append(log, e))
    BY <2>4, SeenAllStep DEF MonitorInv
  <2> QED
    BY <2>3, <2>5, <2>6 DEF MonitorInv
<1>3. ASSUME NEW scope, NEW code, Clear(scope, code) PROVE MonitorInv'
  <2>1. OnlyFired(table', table) /\ UNCHANGED log
    BY <1>3, ClearIs DEF MonitorInv, ScopesInv
  <2>2. ScopesInv(table', log')
    BY <2>1, RecencyKept DEF MonitorInv
  <2>3. \A s \in Members(table.order) : table'.state[s].seen = table.state[s].seen
    BY <2>1 DEF OnlyFired, Same, StateFields
  <2>4. SeenAll(table', log')
    BY <2>1, <2>3 DEF MonitorInv, SeenAll, OnlyFired
  <2> QED
    BY <2>2, <2>4 DEF MonitorInv
<1> QED
  BY <1>1, <1>2, <1>3

LEMMA MonitorSaysSo == MonitorInv => RecentScopesKept
<1> SUFFICES ASSUME MonitorInv PROVE RecentScopesKept
  OBVIOUS
<1>1. PICK ts : ts = Touches
  OBVIOUS
<1>2. PICK n : n = 3 * Len(log)
  OBVIOUS
<1>3. /\ FullTable(table) /\ Sequence(log)
      /\ Recency(table.order, MaxScopes, TouchesOf(log), n)
  BY <1>2 DEF MonitorInv, ScopesInv
<1>4. /\ ts = TouchesOf(log) /\ DOMAIN ts = 1 .. n /\ Len(ts) = n /\ n \in Nat
      /\ ToSet(ts) = Touched(ts, n)
  BY <1>1, <1>2, <1>3, TouchesAre DEF TouchedBy
<1>5. DOMAIN table.state = Members(table.order)
  BY <1>3, FullIsTable
<1>6. MaxScopes \in Nat \ {0}
  BY MonitorAssumption
<1>7. ASSUME NEW s \in ToSet(ts)
      PROVE  LET last == Max({i \in DOMAIN ts : ts[i] = s})
             IN s \in DOMAIN table.state <=>
                  Cardinality({ts[i] : i \in last + 1 .. Len(ts)}) < MaxScopes
  <2>1. PICK at : at = {i \in DOMAIN ts : ts[i] = s}
    OBVIOUS
  <2>2. PICK last : last = Max(at)
    OBVIOUS
  <2>3. at \in SUBSET (1 .. n) /\ at # {}
    BY <1>4, <1>7, <2>1 DEF Touched
  <2>4. last \in at /\ \A i \in at : i <= last
    BY <1>4, <2>2, <2>3, MaxIs
  <2>5. After(ts, n, s) = {ts[i] : i \in last + 1 .. n}
    <3>1. ASSUME NEW k \in 1 .. n PROVE (\A m \in k .. n : ts[m] # s) <=> k \in last + 1 .. n
      <4>1. ASSUME k \in last + 1 .. n, NEW m \in k .. n PROVE ts[m] # s
        <5>1. m \in 1 .. n /\ m > last
          BY <1>4, <2>3, <2>4, <4>1
        <5> QED BY <1>4, <2>1, <2>3, <2>4, <5>1
      <4>2. ASSUME k \notin last + 1 .. n PROVE last \in k .. n /\ ts[last] = s
        BY <1>4, <2>1, <2>3, <2>4, <4>2
      <4> QED BY <4>1, <4>2
    <3>2. \A k \in last + 1 .. n : k \in 1 .. n
      BY <1>4, <2>3, <2>4
    <3>3. {k \in 1 .. n : \A m \in k .. n : ts[m] # s} = last + 1 .. n
      BY <3>1, <3>2
    <3> QED BY <3>3 DEF After
  <2>6. s \in Members(table.order) <=> Cardinality(After(ts, n, s)) < MaxScopes
    BY <1>3, <1>4, <1>6, <1>7, RecentMembers
  <2> QED
    BY <1>4, <1>5, <2>1, <2>2, <2>5, <2>6
<1>8. ASSUME NothingForgotten, NEW s \in DOMAIN table.state
      PROVE  table.state[s].seen
               = Cardinality({i \in DOMAIN log : log[i].shape /\ ReuseChainOf(log[i].r) = s})
  <2>1. AllKept(log)
    BY <1>1, <1>2, <1>4, <1>8 DEF NothingForgotten, AllKept, TouchedBy
  <2>2. ShapesOf(log, s, Len(log)) = {i \in DOMAIN log : log[i].shape /\ ReuseChainOf(log[i].r) = s}
    BY <1>3 DEF ShapesOf, Sequence
  <2> QED
    BY <1>5, <1>8, <2>1, <2>2 DEF MonitorInv, SeenAll
<1> QED
  BY <1>1, <1>7, <1>8 DEF RecentScopesKept

\* Whatever is observed, and whoever shares the table: a scope is forgotten only when
\* as many others as _scope keeps were seen since, and one that never was has counted
\* all its requests.
THEOREM RecentScopesStay ==
  ASSUME NEW CONSTANT configs, NEW CONSTANT requests, NEW CONSTANT usages,
         \A r \in requests : IsRequest(r)
  PROVE  PluginSpec(configs, requests, usages) => []RecentScopesKept
<1>1. PluginInit(configs) => MonitorInv
  BY MonitorStarts DEF PluginInit
<1>2. MonitorInv /\ [PluginNext(requests, usages)]_<<monitorVars, pluginVars>> => MonitorInv'
  BY MonitorSteps, MonitorKeeps
<1>3. MonitorInv => RecentScopesKept
  BY MonitorSaysSo
<1> QED
  BY <1>1, <1>2, <1>3, PTL DEF PluginSpec

--------------------
(* Observing a request in two halves.                                            *)

LEMMA TouchMember ==
  ASSUME NEW order, IsOrder(order, MaxScopes), NEW x \in Members(order)
  PROVE  Members(Touch(order, x, MaxScopes)) = Members(order)
<1>1. PICK new : new = Touch(order, x, MaxScopes)
  OBVIOUS
<1>2. MaxScopes \in Nat \ {0}
  BY MonitorAssumption
<1>3. TouchedIs(new, order, x, MaxScopes)
  BY <1>1, <1>2, TouchIs
<1>4. /\ IsOrder(new, MaxScopes) /\ Len(new) >= 1 /\ new[Len(new)] = x
      /\ \A i \in 1 .. Len(new) - 1 : \E k \in 1 .. Len(order) : order[k] = new[i]
      /\ \A k \in 1 .. Len(order) : order[k] \in Members(new)
  BY <1>3 DEF TouchedIs
<1>5. Len(new) \in Nat
  BY <1>4 DEF IsOrder, Sequence
<1>6. ASSUME NEW i \in 1 .. Len(new) PROVE new[i] \in Members(order)
  <2>1. i = Len(new) \/ i \in 1 .. Len(new) - 1
    BY <1>5
  <2> QED
    BY <1>4, <2>1 DEF Members
<1>7. Members(new) \subseteq Members(order)
  BY <1>6 DEF Members
<1>8. Members(order) \subseteq Members(new)
  <2> SUFFICES ASSUME NEW y \in Members(order) PROVE y \in Members(new)
    OBVIOUS
  <2>1. PICK k \in 1 .. Len(order) : order[k] = y
    BY DEF Members
  <2> QED
    BY <1>4, <2>1
<1> QED
  BY <1>1, <1>7, <1>8

LEMMA SameOrder ==
  ASSUME NEW a, NEW b, NEW cap, IsOrder(a, cap), IsOrder(b, cap), Members(a) = Members(b),
         \A i \in 1 .. Len(a), j \in 1 .. Len(b) : a[i] = b[j] => Behind(a, i) = Behind(b, j)
  PROVE  a = b
<1>1. /\ Len(a) \in Nat /\ Len(b) \in Nat /\ Distinct(a) /\ Distinct(b)
      /\ a = [i \in 1 .. Len(a) |-> a[i]] /\ b = [i \in 1 .. Len(b) |-> b[i]]
  BY DEF IsOrder, Sequence
<1>2. Cardinality(Members(a)) = Len(a) /\ Cardinality(Members(b)) = Len(b)
  BY <1>1, MembersCount
<1>3. Len(a) = Len(b)
  BY <1>2
<1>4. ASSUME NEW i \in 1 .. Len(a) PROVE a[i] = b[i]
  <2>1. PICK j \in 1 .. Len(b) : a[i] = b[j]
    BY DEF Members
  <2>2. Behind(a, i) = Behind(b, j)
    BY <2>1
  <2>3. i \in 0 .. Len(a) /\ j \in 0 .. Len(b)
    BY <1>1
  <2>4. Cardinality(Behind(a, i)) = Len(a) - i
    BY <1>1, <2>3, DistinctCount DEF Behind
  <2>5. Cardinality(Behind(b, j)) = Len(b) - j
    BY <1>1, <2>3, DistinctCount DEF Behind
  <2>6. i = j
    BY <1>1, <1>3, <2>2, <2>4, <2>5
  <2> QED
    BY <2>1, <2>6
<1> QED
  BY <1>1, <1>3, <1>4

LEMMA AfterNext ==
  ASSUME NEW ts, NEW n \in Nat, NEW m, m = n + 1, NEW y
  PROVE  /\ y = ts[m] => After(ts, m, y) = {}
         /\ y # ts[m] => After(ts, m, y) = After(ts, n, y) \cup {ts[m]}
BY AfterOneMore

\* Three scopes that were seen last, seen again, are in the same places.
LEMMA SeenAgain ==
  ASSUME NEW order, NEW cap \in Nat \ {0}, NEW ts, NEW n \in Nat, Recency(order, cap, ts, n + 3),
         NEW again, Recency(again, cap, ts, n + 6),
         ts[n + 4] = ts[n + 1], ts[n + 5] = ts[n + 2], ts[n + 6] = ts[n + 3]
  PROVE  again = order
<1>1. PICK x, y, z : x = ts[n + 1] /\ y = ts[n + 2] /\ z = ts[n + 3]
  OBVIOUS
<1>2. /\ n + 1 \in Nat /\ n + 2 \in Nat /\ n + 3 \in Nat /\ n + 4 \in Nat /\ n + 5 \in Nat /\ n + 6 \in Nat
      /\ (n + 1) + 1 = n + 2 /\ (n + 2) + 1 = n + 3 /\ (n + 3) + 1 = n + 4
      /\ (n + 4) + 1 = n + 5 /\ (n + 5) + 1 = n + 6
  OBVIOUS
<1>3. ASSUME NEW w PROVE After(ts, n + 6, w) = After(ts, n + 3, w)
  <2> DEFINE Next(m, k, v) == /\ w = v => After(ts, k, w) = {}
                              /\ w # v => After(ts, k, w) = After(ts, m, w) \cup {v}
  <2>1. Next(n, n + 1, x)
    <3>1. PICK k : k = n + 1
      OBVIOUS
    <3>2. k = (n) + 1 /\ (n) \in Nat /\ ts[k] = x
      BY <1>1, <1>2, <3>1
    <3>3. Next(n, k, x)
      BY <3>2, AfterNext
    <3> QED BY <3>1, <3>3
  <2>2. Next(n + 1, n + 2, y)
    <3>1. PICK k : k = n + 2
      OBVIOUS
    <3>2. k = (n + 1) + 1 /\ (n + 1) \in Nat /\ ts[k] = y
      BY <1>1, <1>2, <3>1
    <3>3. Next(n + 1, k, y)
      BY <3>2, AfterNext
    <3> QED BY <3>1, <3>3
  <2>3. Next(n + 2, n + 3, z)
    <3>1. PICK k : k = n + 3
      OBVIOUS
    <3>2. k = (n + 2) + 1 /\ (n + 2) \in Nat /\ ts[k] = z
      BY <1>1, <1>2, <3>1
    <3>3. Next(n + 2, k, z)
      BY <3>2, AfterNext
    <3> QED BY <3>1, <3>3
  <2>4. Next(n + 3, n + 4, x)
    <3>1. PICK k : k = n + 4
      OBVIOUS
    <3>2. k = (n + 3) + 1 /\ (n + 3) \in Nat /\ ts[k] = x
      BY <1>1, <1>2, <3>1
    <3>3. Next(n + 3, k, x)
      BY <3>2, AfterNext
    <3> QED BY <3>1, <3>3
  <2>5. Next(n + 4, n + 5, y)
    <3>1. PICK k : k = n + 5
      OBVIOUS
    <3>2. k = (n + 4) + 1 /\ (n + 4) \in Nat /\ ts[k] = y
      BY <1>1, <1>2, <3>1
    <3>3. Next(n + 4, k, y)
      BY <3>2, AfterNext
    <3> QED BY <3>1, <3>3
  <2>6. Next(n + 5, n + 6, z)
    <3>1. PICK k : k = n + 6
      OBVIOUS
    <3>2. k = (n + 5) + 1 /\ (n + 5) \in Nat /\ ts[k] = z
      BY <1>1, <1>2, <3>1
    <3>3. Next(n + 5, k, z)
      BY <3>2, AfterNext
    <3> QED BY <3>1, <3>3
  <2> QED
    BY <2>1, <2>2, <2>3, <2>4, <2>5, <2>6
<1>4. Touched(ts, n + 6) = Touched(ts, n + 3)
  <2>1. ASSUME NEW k \in 1 .. n + 6 PROVE ts[k] \in Touched(ts, n + 3)
    <3>1. k \in 1 .. n + 3 \/ k = n + 4 \/ k = n + 5 \/ k = n + 6
      OBVIOUS
    <3>2. n + 1 \in 1 .. n + 3 /\ n + 2 \in 1 .. n + 3 /\ n + 3 \in 1 .. n + 3
      OBVIOUS
    <3> QED BY <3>1, <3>2 DEF Touched
  <2>2. 1 .. n + 3 \subseteq 1 .. n + 6
    OBVIOUS
  <2> QED
    BY <2>1, <2>2 DEF Touched
<1>5. Members(order) \subseteq Touched(ts, n + 3) /\ Members(again) \subseteq Touched(ts, n + 3)
  BY <1>4 DEF Recency, Members
<1>6. Members(order) = Members(again)
  BY <1>2, <1>3, <1>4, <1>5, RecentMembers
<1>7. \A i \in 1 .. Len(again), j \in 1 .. Len(order) :
        again[i] = order[j] => Behind(again, i) = Behind(order, j)
  BY <1>3 DEF Recency
<1> QED
  BY <1>6, <1>7, SameOrder DEF Recency

\* A table whose scopes were all seen last.
LEMMA PlacedAgain ==
  ASSUME NEW t, NEW entries, ScopesInv(t, entries), NEW e, NEW u, ScopesInv(u, Append(entries, e)),
         u.order = Placed(t, e.r).order
  PROVE  /\ Placed(u, e.r).order = u.order
         /\ \A s \in Members(u.order) : Placed(u, e.r).state[s] = u.state[s]
<1>1. PICK more : more = Append(entries, e)
  OBVIOUS
<1>2. PICK most : most = Append(more, e)
  OBVIOUS
<1>3. PICK ts, us, vs : ts = TouchesOf(entries) /\ us = TouchesOf(more) /\ vs = TouchesOf(most)
  OBVIOUS
<1>4. PICK n : n = 3 * Len(entries)
  OBVIOUS
<1>5. Sequence(entries) /\ Sequence(more)
  BY <1>1 DEF ScopesInv
<1>6. /\ n \in Nat /\ 3 * Len(more) = n + 3
      /\ us[n + 1] = First(e.r) /\ us[n + 2] = Second(e.r) /\ us[n + 3] = Third(e.r)
  BY <1>1, <1>3, <1>4, <1>5, TouchesGrow
<1>7. /\ 3 * Len(most) = (n + 3) + 3
      /\ \A k \in 1 .. n + 3 : vs[k] = us[k]
      /\ vs[(n + 3) + 1] = First(e.r) /\ vs[(n + 3) + 2] = Second(e.r)
      /\ vs[(n + 3) + 3] = Third(e.r)
  <2>1. PICK m : m = 3 * Len(more)
    OBVIOUS
  <2>2. /\ 3 * Len(most) = m + 3 /\ \A k \in 1 .. m : vs[k] = us[k]
        /\ vs[m + 1] = First(e.r) /\ vs[m + 2] = Second(e.r) /\ vs[m + 3] = Third(e.r)
    BY <1>2, <1>3, <1>5, <2>1, TouchesGrow
  <2>3. m = n + 3
    BY <1>6, <2>1
  <2> QED
    BY <2>2, <2>3
<1>8. PICK p : p = Placed(u, e.r)
  OBVIOUS
<1>9. Recency(u.order, MaxScopes, vs, n + 3)
  <2>1. Recency(u.order, MaxScopes, us, n + 3) /\ n + 3 \in Nat
    BY <1>1, <1>3, <1>6 DEF ScopesInv
  <2> QED
    BY <1>7, <2>1, RecencyOfSame
<1>10. Recency(p.order, MaxScopes, vs, n + 6)
  <2>1. Recency(p.order, MaxScopes, vs, 3 * Len(most))
    BY <1>1, <1>2, <1>3, <1>8, PlacedScopes
  <2>2. 3 * Len(most) = n + 6
    BY <1>6, <1>7
  <2> QED
    BY <2>1, <2>2
<1>11. p.order = u.order
  <2>1. /\ (n + 3) + 1 = n + 4 /\ (n + 3) + 2 = n + 5 /\ (n + 3) + 3 = n + 6
        /\ n + 1 \in 1 .. n + 3 /\ n + 2 \in 1 .. n + 3 /\ n + 3 \in 1 .. n + 3
    BY <1>6
  <2>2. vs[n + 4] = vs[n + 1] /\ vs[n + 5] = vs[n + 2] /\ vs[n + 6] = vs[n + 3]
    BY <1>6, <1>7, <2>1
  <2>3. MaxScopes \in Nat \ {0}
    BY MonitorAssumption
  <2> QED
    BY <1>6, <1>9, <1>10, <2>2, <2>3, SeenAgain
<1>12. {First(e.r), Second(e.r), Third(e.r)} \subseteq Members(u.order)
  <2>1. PlacedAs(Placed(t, e.r), t, e.r)
    BY PlacedIs DEF ScopesInv
  <2>2. {PoolOf(e.r), RebuildScope(e.r), ReuseChainOf(e.r)} \subseteq Members(u.order)
    BY <2>1 DEF PlacedAs
  <2> QED
    BY <2>2, SeenAre
<1>13. PICK a : a = Scope(u, First(e.r))
  OBVIOUS
<1>14. PICK b : b = Scope(a, Second(e.r))
  OBVIOUS
<1>15. ScopedAs(a, u, First(e.r))
  BY <1>13, ScopeIs DEF ScopesInv
<1>16. ScopedAs(b, a, Second(e.r))
  BY <1>14, <1>15, ScopeIs DEF ScopedAs
<1>17. ScopedAs(p, b, Third(e.r))
  <2>1. p = Scope(b, Third(e.r))
    BY <1>8, <1>13, <1>14 DEF Placed
  <2> QED
    BY <1>16, <2>1, ScopeIs DEF ScopedAs
<1>18. Members(a.order) = Members(u.order)
  BY <1>12, <1>15, TouchMember DEF ScopedAs, ScopesInv, FullTable
<1>19. Members(b.order) = Members(u.order)
  BY <1>12, <1>15, <1>16, <1>18, TouchMember DEF ScopedAs, FullTable
<1>20. \A s \in Members(u.order) : p.state[s] = u.state[s]
  BY <1>11, <1>15, <1>16, <1>17, <1>18, <1>19 DEF ScopedAs
<1> QED
  BY <1>8, <1>11, <1>20

\* A check of the shape reads what was observed at the positions, and the gaps.
LEMMA ShapeChecksRead ==
  ASSUME NEW a, NEW b, a.values = b.values, a.rewrites = b.rewrites, NEW r
  PROVE  ShapeChecks(a, r) = ShapeChecks(b, r)
<1>1. \A i : Settled(a, i) = Settled(b, i) /\ Changing(a, i) = Changing(b, i)
  BY DEF Settled, Changing
<1>2. Drift(a, r) = Drift(b, r)
  <2> DEFINE drifting(st) == {i \in DOMAIN r.segs : i <= Top(r) /\ Changing(st, i) /\ Stranded(r, i) > 0}
             warned(S) == [k \in 1 .. Cardinality(S) |->
                             <<"RT-DRIFT", CHOOSE i \in S : Cardinality({j \in S : j <= i}) = k>>]
  <2>1. drifting(a) = drifting(b)
    BY <1>1
  <2>2. \A st : Drift(st, r) = IF Marked(r) = {} THEN <<>> ELSE warned(drifting(st))
    BY Zenon DEF Drift
  <2>3. Drift(a, r) = (IF Marked(r) = {} THEN <<>> ELSE warned(drifting(a)))
    BY <2>2
  <2>4. Drift(b, r) = (IF Marked(r) = {} THEN <<>> ELSE warned(drifting(b)))
    BY <2>2
  <2> HIDE DEF drifting, warned
  <2> QED
    BY <2>1, <2>3, <2>4
<1>3. Blocked(a, r) = Blocked(b, r)
  <2>1. ASSUME NEW i PROVE StableBehind(a, r, i) = StableBehind(b, r, i)
    <3>1. PICK both : both = {n \in i .. Len(r.segs) : \A j \in i + 1 .. n : Settled(a, j) /\ ~Changing(a, j)}
      OBVIOUS
    <3>2. both = {n \in i .. Len(r.segs) : \A j \in i + 1 .. n : Settled(b, j) /\ ~Changing(b, j)}
      BY <1>1, <3>1
    <3> QED BY <3>1, <3>2 DEF StableBehind
  <2>2. PICK both : both = {i \in DOMAIN r.segs :
                              Changing(a, i) /\ StableBehind(a, r, i) >= Minimum[r.target]}
    OBVIOUS
  <2>3. both = {i \in DOMAIN r.segs : Changing(b, i) /\ StableBehind(b, r, i) >= Minimum[r.target]}
    BY <1>1, <2>1, <2>2
  <2> QED
    BY <2>2, <2>3 DEF Blocked
<1>4. CadenceVsTtl(a, r) = CadenceVsTtl(b, r)
  BY DEF CadenceVsTtl
<1> QED
  BY <1>2, <1>3, <1>4 DEF ShapeChecks

LEMMA ConcurrentReads ==
  ASSUME NEW a, NEW b, a.writes = b.writes, NEW r
  PROVE  ColdFanout(a, r) = ColdFanout(b, r)
BY DEF ColdFanout, Concurrent

LEMMA FollowsReads ==
  ASSUME NEW a, NEW b, a.turns = b.turns, a.lastSeen = b.lastSeen, NEW r, NEW key
  PROVE  Follows(a, r, key) = Follows(b, r, key)
BY DEF Follows

LEMMA RebuildReads ==
  ASSUME NEW a, NEW b, a.turns = b.turns, a.lastSeen = b.lastSeen,
         NEW c, NEW d, c.rebuilds = d.rebuilds, NEW r
  PROVE  Rebuild(a, c, r) = Rebuild(b, d, r)
<1>1. Follows(a, r, <<r.agent, r.session>>) = Follows(b, r, <<r.agent, r.session>>)
  BY FollowsReads
<1> QED
  BY <1>1 DEF Rebuild

\* What is firing has no part in the counting of a usage.
LEMMA UsedSame ==
  ASSUME NEW a, IsFull(a), NEW b, IsFull(b), Same(b, a), NEW s, NEW r, NEW usage
  PROVE  Same(UsedAs(b, s, r, usage), UsedAs(a, s, r, usage))
<1>1. CASE usage /\ s = PoolOf(r)
  <2>1. PICK u, v : u = TrackUsage(a, r) /\ v = TrackUsage(b, r)
    OBVIOUS
  <2>2. /\ Unchanged(u, a, {"writes"}) /\ u.writes = WritesAfter(a.writes, r)
        /\ Unchanged(v, b, {"writes"}) /\ v.writes = WritesAfter(b.writes, r)
    BY <2>1, UsageIs
  <2>3. b.writes = a.writes
    BY DEF Same, StateFields
  <2>4. Same(v, u)
    BY <2>2, <2>3 DEF Same, Unchanged
  <2> QED
    BY <1>1, <2>1, <2>4 DEF UsedAs
<1>2. CASE ~(usage /\ s = PoolOf(r)) /\ usage /\ s = RebuildScope(r) /\ r.session # NoSession
  <2>1. PICK u, v : u = TrackTurn(a, r) /\ v = TrackTurn(b, r)
    OBVIOUS
  <2>2. /\ Unchanged(u, a, TurnFields) /\ u.lastSeen = SeenAfter(a.lastSeen, r)
        /\ u.turns = TurnsAfter(a.turns, r) /\ u.rebuilds = RebuildsAfter(a, r)
    BY <2>1, TurnIs
  <2>3. /\ Unchanged(v, b, TurnFields) /\ v.lastSeen = SeenAfter(b.lastSeen, r)
        /\ v.turns = TurnsAfter(b.turns, r) /\ v.rebuilds = RebuildsAfter(b, r)
    BY <2>1, TurnIs
  <2>4. b.lastSeen = a.lastSeen /\ b.turns = a.turns /\ b.rebuilds = a.rebuilds
    BY DEF Same, StateFields
  <2>5. RebuildsAfter(b, r) = RebuildsAfter(a, r)
    <3>1. Follows(b, r, TurnKey(r)) = Follows(a, r, TurnKey(r))
      BY <2>4, FollowsReads
    <3> QED BY <2>4, <3>1 DEF RebuildsAfter
  <2>6. Same(v, u)
    <3>1. \A f \in TurnFields : v[f] = u[f]
      BY <2>2, <2>3, <2>4, <2>5 DEF TurnFields
    <3>2. \A f \in StateFields \ {"firing"} : v[f] = u[f]
      BY <2>2, <2>3, <3>1 DEF Unchanged, Same
    <3> QED BY <3>2 DEF Same
  <2> QED
    BY <1>1, <1>2, <2>1, <2>6 DEF UsedAs
<1>3. CASE ~(usage /\ s = PoolOf(r)) /\ ~(usage /\ s = RebuildScope(r) /\ r.session # NoSession)
  BY <1>3 DEF UsedAs
<1> QED
  BY <1>1, <1>2, <1>3

LEMMA UsedIs ==
  ASSUME NEW a, IsFull(a), NEW s, NEW r, NEW usage \in BOOLEAN, NEW w, w = UsedAs(a, s, r, usage)
  PROVE  IsFull(w) /\ (\A f \in ShapeFields : w[f] = a[f]) /\ w.firing = a.firing
<1>1. PICK u, v : u = TrackUsage(a, r) /\ v = TrackTurn(a, r)
  OBVIOUS
<1>2. IsFull(u) /\ Unchanged(u, a, {"writes"}) /\ IsFull(v) /\ Unchanged(v, a, TurnFields)
  BY <1>1, UsageIs, TurnIs
<1>3. \A f \in ShapeFields \cup {"firing"} : u[f] = a[f] /\ v[f] = a[f]
  BY <1>2 DEF Unchanged, ShapeFields, StateFields, TurnFields
<1>4. u.firing = a.firing /\ v.firing = a.firing
  BY <1>3
<1> QED
  BY <1>1, <1>2, <1>3, <1>4 DEF UsedAs

LEMMA ShapedIs ==
  ASSUME NEW a, IsFull(a), NEW s, NEW r, NEW shape
  PROVE  IsFull(ShapedAs(a, s, r, shape))
<1>1. PICK u : u = TrackShape(a, r)
  OBVIOUS
<1>2. IsFull(u)
  BY <1>1, ShapeIs
<1> QED
  BY <1>1, <1>2 DEF ShapedAs

LEMMA SameButFiring ==
  ASSUME NEW a, IsFull(a), NEW b, IsFull(b), Same(b, a)
  PROVE  [b EXCEPT !.firing = <<>>] = [a EXCEPT !.firing = <<>>]
<1>1. a = [f \in StateFields |-> a[f]] /\ b = [f \in StateFields |-> b[f]]
  BY DEF IsFull
<1> QED
  BY <1>1 DEF Same, StateFields

\* The halves of an observation give the warnings of the whole.
LEMMA WarnedInHalves ==
  ASSUME NEW p, FullTable(p), NEW q, FullTable(q), NEW r, q.order = p.order,
         {PoolOf(r), RebuildScope(r), ReuseChainOf(r)} \subseteq Members(p.order),
         \A s \in Members(p.order) : Same(q.state[s], ShapedAs(p.state[s], s, r, TRUE))
  PROVE  Warned(p, r, TRUE, TRUE) = Warned(p, r, TRUE, FALSE) \cup Warned(q, r, FALSE, TRUE)
<1>1. PICK chain, pool, turns : chain = ReuseChainOf(r) /\ pool = PoolOf(r) /\ turns = RebuildScope(r)
  OBVIOUS
<1>2. /\ chain \in Members(p.order) /\ pool \in Members(p.order) /\ turns \in Members(p.order)
      /\ \A s \in Members(p.order) : IsFull(p.state[s]) /\ IsFull(q.state[s])
  BY <1>1 DEF FullTable
<1>3. PICK a : a = ShapedAs(p.state[chain], chain, r, TRUE)
  OBVIOUS
<1>4. ShapeChecks(UsedAs(a, chain, r, TRUE), r) = ShapeChecks(a, r)
  <2>1. PICK u : u = UsedAs(a, chain, r, TRUE)
    OBVIOUS
  <2>2. IsFull(a)
    BY <1>2, <1>3, ShapedIs
  <2>3. \A f \in ShapeFields : u[f] = a[f]
    <3>1. PICK on : on = TRUE
      OBVIOUS
    <3>2. on \in BOOLEAN /\ u = UsedAs(a, chain, r, on)
      BY <2>1, <3>1
    <3>3. IsFull(u) /\ (\A f \in ShapeFields : u[f] = a[f]) /\ u.firing = a.firing
      BY <2>2, <3>2, UsedIs
    <3> QED BY <3>3
  <2>4. u.values = a.values /\ u.rewrites = a.rewrites
    BY <2>3 DEF ShapeFields
  <2> QED
    BY <2>1, <2>4, ShapeChecksRead
<1>5. PICK b : b = ShapedAs(p.state[pool], pool, r, TRUE)
  OBVIOUS
<1>6. ColdFanout(q.state[pool], r) = ColdFanout(b, r)
  <2>1. Same(q.state[pool], b)
    BY <1>2, <1>5
  <2>2. q.state[pool].writes = b.writes
    BY <2>1 DEF Same, StateFields
  <2> QED
    BY <2>2, ConcurrentReads
<1>7. PICK c : c = ShapedAs(p.state[turns], turns, r, TRUE)
  OBVIOUS
<1>8. PICK u, v : u = UsedAs(c, turns, r, TRUE) /\ v = UsedAs(q.state[turns], turns, r, TRUE)
  OBVIOUS
<1>9. Rebuild(q.state[turns], v, r) = Rebuild(c, u, r)
  <2>1. Same(q.state[turns], c) /\ IsFull(c) /\ IsFull(q.state[turns])
    BY <1>2, <1>7, ShapedIs
  <2>2. Same(v, u)
    BY <1>8, <2>1, UsedSame
  <2>3. /\ q.state[turns].turns = c.turns /\ q.state[turns].lastSeen = c.lastSeen
        /\ v.rebuilds = u.rebuilds
    BY <2>1, <2>2 DEF Same, StateFields
  <2> QED
    BY <2>3, RebuildReads
<1>10. Warned(p, r, TRUE, TRUE)
         = (Warnings(chain, ShapeChecks(UsedAs(a, chain, r, TRUE), r)) \cup Warnings(chain, NoSurface(r)))
             \cup (Warnings(pool, ColdFanout(b, r)) \cup Warnings(turns, Rebuild(c, u, r)))
  BY <1>1, <1>3, <1>5, <1>7, <1>8 DEF Warned, ObservedAs
<1>11. Warned(p, r, TRUE, FALSE) = Warnings(chain, ShapeChecks(a, r)) \cup Warnings(chain, NoSurface(r))
  <2>1. UsedAs(a, chain, r, FALSE) = a
    BY DEF UsedAs
  <2> QED
    BY <1>1, <1>3, <2>1 DEF Warned, ObservedAs
<1>12. Warned(q, r, FALSE, TRUE)
         = Warnings(pool, ColdFanout(q.state[pool], r)) \cup Warnings(turns, Rebuild(q.state[turns], v, r))
  <2>1. \A st, s : ShapedAs(st, s, r, FALSE) = st
    BY DEF ShapedAs
  <2> QED
    BY <1>1, <1>8, <2>1 DEF Warned, ObservedAs
<1> QED
  BY <1>4, <1>6, <1>9, <1>10, <1>11, <1>12

\* What fires when there is room.
LEMMA FiringWithRoom ==
  ASSUME NEW now, NEW was, NEW s, NEW warnings, NEW returned,
         FiredFor(now, was, s, warnings, returned), Len(now) < MaxFiring
  PROVE  \A a : a \in Members(now) <=> a \in Members(was) \/ [scope |-> s, alert |-> a] \in warnings
BY DEF FiredFor

LEMMA HalvesAgree ==
  ASSUME NEW t, NEW entries, ScopesInv(t, entries), NEW r, HasSegs(r)
  PROVE  LET whole == Observing(t, r, TRUE, TRUE).table
             first == Observing(t, r, TRUE, FALSE).table
             second == Observing(first, r, FALSE, TRUE).table
         IN /\ FullTable(whole) /\ FullTable(second) /\ whole.order = second.order
            /\ \A s \in Members(whole.order) :
                 /\ Same(whole.state[s], second.state[s])
                 /\ Len(whole.state[s].firing) < MaxFiring /\ Len(second.state[s].firing) < MaxFiring =>
                      Members(whole.state[s].firing) = Members(second.state[s].firing)
<1>1. PICK whole : whole = Observing(t, r, TRUE, TRUE)
  OBVIOUS
<1>2. PICK first : first = Observing(t, r, TRUE, FALSE)
  OBVIOUS
<1>3. PICK second : second = Observing(first.table, r, FALSE, TRUE)
  OBVIOUS
<1>4. PICK p : p = Placed(t, r)
  OBVIOUS
<1>5. PICK q : q = Placed(first.table, r)
  OBVIOUS
<1>6. TRUE \in BOOLEAN /\ FALSE \in BOOLEAN /\ FullTable(t)
  BY DEF ScopesInv
<1>7. ObservedTo(whole, p, r, TRUE, TRUE)
  BY <1>1, <1>4, <1>6, ObservingIs
<1>8. ObservedTo(first, p, r, TRUE, FALSE)
  BY <1>2, <1>4, <1>6, ObservingIs
<1>9. ObservedTo(second, q, r, FALSE, TRUE)
  <2>1. FullTable(first.table)
    BY <1>8 DEF ObservedTo
  <2> QED
    BY <1>3, <1>5, <1>6, <2>1, ObservingIs
<1>10. PlacedAs(p, t, r)
  BY <1>4, <1>6, PlacedIs
<1>11. /\ FullTable(p) /\ {PoolOf(r), RebuildScope(r), ReuseChainOf(r)} \subseteq Members(p.order)
       /\ \A s \in Members(p.order) : IsFull(p.state[s])
  BY <1>10 DEF PlacedAs, FullTable
<1>12. q.order = p.order /\ \A s \in Members(p.order) : q.state[s] = first.table.state[s]
  <2>1. PICK e : e = Entry(r, TRUE, FALSE)
    OBVIOUS
  <2>2. e.r = r /\ e.shape = TRUE /\ e.usage = FALSE
    BY <2>1 DEF Entry
  <2>3. first.table = Observing(t, e.r, e.shape, e.usage).table
    BY <1>2, <2>2
  <2>4. ScopesInv(first.table, Append(entries, e))
    <3>1. e.shape \in BOOLEAN /\ e.usage \in BOOLEAN /\ (e.shape => HasSegs(e.r))
      BY <2>2
    <3>2. ScopesInv(Observing(t, e.r, e.shape, e.usage).table, Append(entries, e))
      BY <3>1, ScopesStep
    <3> QED BY <2>3, <3>2
  <2>5. first.table.order = Placed(t, e.r).order
    BY <1>4, <1>8, <2>2 DEF ObservedTo
  <2>6. /\ Placed(first.table, e.r).order = first.table.order
        /\ \A s \in Members(first.table.order) : Placed(first.table, e.r).state[s] = first.table.state[s]
    BY <2>4, <2>5, PlacedAgain
  <2> QED
    BY <1>4, <1>5, <2>2, <2>5, <2>6
<1>13. FullTable(whole.table) /\ FullTable(second.table) /\ whole.table.order = p.order /\ second.table.order = p.order
  BY <1>7, <1>9, <1>12 DEF ObservedTo
<1>14. FullTable(q)
  <2>1. FullTable(first.table)
    BY <1>8 DEF ObservedTo
  <2> QED
    BY <1>5, <2>1, PlacedIs DEF PlacedAs
<1>15. \A s \in Members(p.order) : Same(q.state[s], ShapedAs(p.state[s], s, r, TRUE))
  <2> SUFFICES ASSUME NEW s \in Members(p.order) PROVE Same(q.state[s], ShapedAs(p.state[s], s, r, TRUE))
    OBVIOUS
  <2>1. Same(first.table.state[s], ObservedAs(p.state[s], s, r, TRUE, FALSE))
    BY <1>8 DEF ObservedTo
  <2>2. ObservedAs(p.state[s], s, r, TRUE, FALSE) = ShapedAs(p.state[s], s, r, TRUE)
    BY DEF ObservedAs, UsedAs
  <2> QED
    BY <1>12, <2>1, <2>2
<1>16. PICK W, V, U : /\ W = Warned(p, r, TRUE, TRUE) /\ V = Warned(p, r, TRUE, FALSE)
                      /\ U = Warned(q, r, FALSE, TRUE)
  OBVIOUS
<1>17. W = V \cup U
  BY <1>11, <1>12, <1>14, <1>15, <1>16, WarnedInHalves
<1>18. ASSUME NEW s \in Members(p.order)
       PROVE  /\ Same(whole.table.state[s], second.table.state[s])
              /\ Len(whole.table.state[s].firing) < MaxFiring /\ Len(second.table.state[s].firing) < MaxFiring =>
                      Members(whole.table.state[s].firing) = Members(second.table.state[s].firing)
  <2>1. PICK a : a = ShapedAs(p.state[s], s, r, TRUE)
    OBVIOUS
  <2>2. IsFull(a) /\ IsFull(q.state[s]) /\ Same(q.state[s], a)
    BY <1>11, <1>12, <1>14, <1>15, <1>18, <2>1, ShapedIs DEF FullTable
  <2>3. Same(UsedAs(q.state[s], s, r, TRUE), UsedAs(a, s, r, TRUE))
    BY <2>2, UsedSame
  <2>4. Same(whole.table.state[s], UsedAs(a, s, r, TRUE))
    BY <1>7, <2>1 DEF ObservedTo, ObservedAs
  <2>5. Same(second.table.state[s], UsedAs(q.state[s], s, r, TRUE))
    <3>1. Same(second.table.state[s], ObservedAs(q.state[s], s, r, FALSE, TRUE))
      BY <1>9, <1>12 DEF ObservedTo
    <3>2. ObservedAs(q.state[s], s, r, FALSE, TRUE) = UsedAs(q.state[s], s, r, TRUE)
      BY DEF ObservedAs, ShapedAs
    <3> QED BY <3>1, <3>2
  <2>6. Same(whole.table.state[s], second.table.state[s])
    BY <2>3, <2>4, <2>5 DEF Same
  <2>7. PICK was, half, now, both :
          /\ was = p.state[s].firing /\ half = first.table.state[s].firing
          /\ now = second.table.state[s].firing /\ both = whole.table.state[s].firing
    OBVIOUS
  <2>8. FiredFor(both, was, s, W, Members(whole.new))
    BY <1>7, <1>16, <2>7 DEF ObservedTo
  <2>9. FiredFor(half, was, s, V, Members(first.new))
    BY <1>8, <1>16, <2>7 DEF ObservedTo
  <2>10. FiredFor(now, half, s, U, Members(second.new))
    BY <1>9, <1>12, <1>16, <2>7 DEF ObservedTo
  <2>11. Sequence(now) /\ Sequence(half)
    <3>1. IsFull(second.table.state[s]) /\ IsFull(first.table.state[s])
      BY <1>8, <1>13 DEF FullTable, ObservedTo
    <3> QED BY <2>7, <3>1 DEF IsFull
  <2>12. ASSUME Len(both) < MaxFiring, Len(now) < MaxFiring PROVE Members(both) = Members(now)
    <3>1. Len(half) < MaxFiring
      <4>1. Len(now) >= Len(half) /\ Len(now) \in Nat /\ Len(half) \in Nat /\ MaxFiring \in Nat
        BY <2>10, <2>11, MonitorAssumption DEF FiredFor, Sequence
      <4> QED BY <2>12, <4>1
    <3>2. \A x : x \in Members(both) <=> x \in Members(was) \/ [scope |-> s, alert |-> x] \in W
      BY <2>8, <2>12, FiringWithRoom
    <3>3. \A x : x \in Members(half) <=> x \in Members(was) \/ [scope |-> s, alert |-> x] \in V
      BY <2>9, <3>1, FiringWithRoom
    <3>4. \A x : x \in Members(now) <=> x \in Members(half) \/ [scope |-> s, alert |-> x] \in U
      BY <2>10, <2>12, FiringWithRoom
    <3> QED BY <1>17, <3>2, <3>3, <3>4
  <2> QED
    BY <2>6, <2>7, <2>12
<1> QED
  BY <1>1, <1>2, <1>3, <1>13, <1>18

\* What SplitObservationAgrees says of a step whose last entry is e.
Agrees(e) ==
  LET first  == Observing(table, e.r, TRUE, FALSE)
      second == Observing(first.table, e.r, FALSE, TRUE)
      same(s) == [table'.state[s] EXCEPT !.firing = <<>>]
                   = [second.table.state[s] EXCEPT !.firing = <<>>]
      few(st) == Len(st.firing) < MaxFiring
  IN /\ table'.order = second.table.order
     /\ \A s \in ToSet(table'.order) :
          /\ same(s)
          /\ few(table'.state[s]) /\ few(second.table.state[s]) =>
               ToSet(table'.state[s].firing) = ToSet(second.table.state[s].firing)

LEMMA ObservedAgrees ==
  ASSUME MonitorInv, NEW e, HasSegs(e.r), Observes(e.r, TRUE, TRUE)
  PROVE  Agrees(e)
<1>1. PICK whole : whole = Observing(table, e.r, TRUE, TRUE).table
  OBVIOUS
<1>2. PICK first : first = Observing(table, e.r, TRUE, FALSE).table
  OBVIOUS
<1>3. PICK second : second = Observing(first, e.r, FALSE, TRUE).table
  OBVIOUS
<1>4. table' = whole
  BY <1>1 DEF Observes
<1>5. /\ FullTable(whole) /\ FullTable(second) /\ whole.order = second.order
      /\ \A s \in Members(whole.order) :
           /\ Same(whole.state[s], second.state[s])
           /\ Len(whole.state[s].firing) < MaxFiring /\ Len(second.state[s].firing) < MaxFiring =>
                Members(whole.state[s].firing) = Members(second.state[s].firing)
  BY <1>1, <1>2, <1>3, HalvesAgree DEF MonitorInv
<1>6. ToSet(whole.order) = Members(whole.order)
  BY <1>5, MembersAre DEF FullTable, IsOrder
<1>7. ASSUME NEW s \in Members(whole.order)
      PROVE  /\ [whole.state[s] EXCEPT !.firing = <<>>] = [second.state[s] EXCEPT !.firing = <<>>]
             /\ Len(whole.state[s].firing) < MaxFiring /\ Len(second.state[s].firing) < MaxFiring =>
                  ToSet(whole.state[s].firing) = ToSet(second.state[s].firing)
  <2>1. IsFull(whole.state[s]) /\ IsFull(second.state[s])
    BY <1>5, <1>7 DEF FullTable
  <2>2. [whole.state[s] EXCEPT !.firing = <<>>] = [second.state[s] EXCEPT !.firing = <<>>]
    <3>1. Same(whole.state[s], second.state[s])
      BY <1>5, <1>7
    <3> QED BY <2>1, <3>1, SameButFiring
  <2>3. /\ ToSet(whole.state[s].firing) = Members(whole.state[s].firing)
        /\ ToSet(second.state[s].firing) = Members(second.state[s].firing)
    BY <2>1, MembersAre DEF IsFull
  <2> QED
    BY <1>5, <1>7, <2>2, <2>3
<1> QED
  BY <1>2, <1>3, <1>4, <1>5, <1>6, <1>7 DEF Agrees

LEMMA StepAgrees ==
  ASSUME MonitorInv,
         \/ UNCHANGED monitorVars
         \/ \E r : \E shape, usage \in BOOLEAN :
              (shape => HasSegs(r)) /\ Observes(r, shape, usage)
         \/ \E scope, code : Clear(scope, code),
         NEW e, e = log'[Len(log')], Len(log') > Len(log), e.shape, e.usage
  PROVE  Agrees(e)
<1>1. Sequence(log) /\ Len(log) \in Nat
  BY DEF MonitorInv, ScopesInv, Sequence
<1>2. ~UNCHANGED log
  BY <1>1
<1>3. PICK r : \E shape, usage \in BOOLEAN : (shape => HasSegs(r)) /\ Observes(r, shape, usage)
  BY <1>2 DEF monitorVars, Clear
<1>4. PICK shape \in BOOLEAN, usage \in BOOLEAN : (shape => HasSegs(r)) /\ Observes(r, shape, usage)
  BY <1>3
<1>5. log' = Append(log, Entry(r, shape, usage))
  BY <1>4 DEF Observes
<1>6. e = Entry(r, shape, usage)
  BY <1>1, <1>5, AppendIs
<1>7. e.r = r /\ e.shape = shape /\ e.usage = usage
  BY <1>6 DEF Entry
<1>8. shape = TRUE /\ usage = TRUE
  BY <1>4, <1>7
<1>9. HasSegs(e.r) /\ Observes(e.r, TRUE, TRUE)
  BY <1>4, <1>7, <1>8
<1> QED
  BY <1>9, ObservedAgrees

\* Any request in any state of the table: observe leaves what observe_shape followed by
\* observe_usage leaves, as they track disjoint parts of the state, the checks of one
\* read nothing that the other writes, and three scopes seen again keep their places.
THEOREM HalvesMakeAWhole ==
  ASSUME NEW CONSTANT configs, NEW CONSTANT requests, NEW CONSTANT usages,
         \A r \in requests : IsRequest(r)
  PROVE  PluginSpec(configs, requests, usages) => SplitObservationAgrees
<1> DEFINE Step == \A e \in {log'[Len(log')]} : Len(log') > Len(log) /\ e.shape /\ e.usage => Agrees(e)
<1>1. PluginInit(configs) => MonitorInv
  BY MonitorStarts DEF PluginInit
<1>2. MonitorInv /\ [PluginNext(requests, usages)]_<<monitorVars, pluginVars>> => MonitorInv'
  BY MonitorSteps, MonitorKeeps
<1>3. MonitorInv /\ [PluginNext(requests, usages)]_<<monitorVars, pluginVars>> => [Step]_monitorVars
  <2> SUFFICES ASSUME MonitorInv, [PluginNext(requests, usages)]_<<monitorVars, pluginVars>>
               PROVE  Step
    OBVIOUS
  <2> SUFFICES ASSUME NEW e, e = log'[Len(log')], Len(log') > Len(log), e.shape, e.usage
               PROVE  Agrees(e)
    OBVIOUS
  <2>1. \/ UNCHANGED monitorVars
        \/ \E r : \E shape, usage \in BOOLEAN :
             (shape => HasSegs(r)) /\ Observes(r, shape, usage)
        \/ \E scope, code : Clear(scope, code)
    BY MonitorSteps
  <2> QED
    BY <2>1, StepAgrees
<1>4. SplitObservationAgrees <=> [][Step]_monitorVars
  BY DEF SplitObservationAgrees, Agrees
<1> HIDE DEF Step
<1> QED
  BY <1>1, <1>2, <1>3, <1>4, PTL DEF PluginSpec

--------------------
(* Writes that could not see each other.                                         *)

WritersOf(entries) == {i \in 1 .. Len(entries) : entries[i].usage /\ Writes(entries[i].r)}
PoolWriters(entries, pool) == {i \in WritersOf(entries) : PoolOf(entries[i].r) = pool}

\* What the monitor keeps of a write.
WriteOf(r) == [at |-> r.sent, visible |-> VisibleAt(r), prefix |-> PrefixKey(r)]

\* A request is sent before its entry can be read.
InTime(r) == r.sent \in Int /\ VisibleAt(r) \in Int /\ r.sent < VisibleAt(r)

\* Neither of two requests could read what the other wrote.
Apart(a, b) == a.sent < VisibleAt(b) /\ b.sent < VisibleAt(a)

\* A write of the prefix among the entries that r could not see, nor it r.
ClashesWith(entries, pool, prefix, r) ==
  \E i \in PoolWriters(entries, pool) :
    PrefixKey(entries[i].r) = prefix /\ Apart(entries[i].r, r)

Clash(entries, pool, prefix) ==
  \E i, j \in PoolWriters(entries, pool) :
    /\ i < j /\ PrefixKey(entries[i].r) = prefix /\ PrefixKey(entries[j].r) = prefix
    /\ Apart(entries[i].r, entries[j].r)

AllHeld(entries) == AllKept(entries) /\ Cardinality(WritersOf(entries)) <= Window

\* The window of a pool has its writes.
HasWrites(writes, entries, pool) ==
  /\ Sequence(writes) /\ Len(writes) = Cardinality(PoolWriters(entries, pool))
  /\ Members(writes) = {WriteOf(entries[i].r) : i \in PoolWriters(entries, pool)}

\* The writers of a longer log.
LEMMA WritersGrow ==
  ASSUME NEW entries, Sequence(entries), NEW e
  PROVE  LET n == Len(entries)  more == Append(entries, e)
             news == IF e.usage /\ Writes(e.r) THEN {n + 1} ELSE {}
         IN /\ WritersOf(more) = WritersOf(entries) \cup news
            /\ \A pool : PoolWriters(more, pool)
                           = PoolWriters(entries, pool) \cup (IF PoolOf(e.r) = pool THEN news ELSE {})
            /\ \A i \in WritersOf(entries) : i \in 1 .. n /\ more[i] = entries[i]
            /\ more[n + 1] = e
<1> DEFINE n == Len(entries)  more == Append(entries, e)
           news == IF e.usage /\ Writes(e.r) THEN {n + 1} ELSE {}
<1>1. /\ n \in Nat /\ Len(more) = n + 1 /\ \A i \in 1 .. n : more[i] = entries[i]
      /\ more[n + 1] = e
  BY AppendIs DEF Sequence
<1>2. 1 .. n + 1 = (1 .. n) \cup {n + 1}
  BY <1>1
<1>3. \A i : i \in WritersOf(more) <=> i \in WritersOf(entries) \/ i \in news
  <2> HIDE DEF more
  <2> SUFFICES ASSUME NEW i
               PROVE  i \in WritersOf(more) <=> i \in WritersOf(entries) \/ i \in news
    OBVIOUS
  <2>1. i \in WritersOf(more) <=> i \in (1 .. n) \cup {n + 1} /\ more[i].usage /\ Writes(more[i].r)
    BY <1>1, <1>2 DEF WritersOf
  <2>2. CASE i \in 1 .. n
    <3>1. i # n + 1 /\ more[i] = entries[i]
      BY <2>2, <1>1
    <3> QED BY <2>1, <2>2, <3>1 DEF WritersOf
  <2>3. CASE i = n + 1
    <3>1. i \notin 1 .. n /\ more[i] = e
      BY <2>3, <1>1
    <3> QED BY <2>1, <2>3, <3>1 DEF WritersOf
  <2>4. CASE i \notin 1 .. n /\ i # n + 1
    BY <2>1, <2>4 DEF WritersOf
  <2> QED BY <2>2, <2>3, <2>4
<1>4. WritersOf(more) = WritersOf(entries) \cup news
  BY <1>3
<1>5. \A i \in WritersOf(entries) : i \in 1 .. n /\ more[i] = entries[i]
  BY <1>1 DEF WritersOf
<1>6. ASSUME NEW pool
      PROVE  PoolWriters(more, pool)
               = PoolWriters(entries, pool) \cup (IF PoolOf(e.r) = pool THEN news ELSE {})
  <2>1. \A i \in WritersOf(entries) : PoolOf(more[i].r) = PoolOf(entries[i].r)
    BY <1>5
  <2>2. \A i \in news : PoolOf(more[i].r) = PoolOf(e.r)
    BY <1>1
  <2> HIDE DEF more, news
  <2> QED BY <1>4, <2>1, <2>2 DEF PoolWriters
<1> QED
  BY <1>1, <1>4, <1>5, <1>6

LEMMA WritersAre ==
  ASSUME NEW entries, Sequence(entries), NEW pool
  PROVE  /\ IsFiniteSet(WritersOf(entries)) /\ Cardinality(WritersOf(entries)) \in Nat
         /\ IsFiniteSet(PoolWriters(entries, pool))
         /\ Cardinality(PoolWriters(entries, pool)) \in Nat
         /\ Cardinality(PoolWriters(entries, pool)) <= Cardinality(WritersOf(entries))
<1>1. IsFiniteSet(1 .. Len(entries))
  <2>1. 1 \in Int /\ Len(entries) \in Int
    BY DEF Sequence
  <2> QED BY <2>1, FS_Interval
<1>2. WritersOf(entries) \subseteq 1 .. Len(entries)
      /\ PoolWriters(entries, pool) \subseteq WritersOf(entries)
  BY DEF WritersOf, PoolWriters
<1>3. IsFiniteSet(WritersOf(entries))
  BY <1>1, <1>2, FS_Subset
<1> QED
  BY <1>2, <1>3, FS_Subset, FS_CardinalityType

\* One more entry: what clashes, clashed before or clashes with it.
LEMMA ClashGrows ==
  ASSUME NEW entries, Sequence(entries), NEW e, NEW pool, NEW prefix
  PROVE  Clash(Append(entries, e), pool, prefix) <=>
           \/ Clash(entries, pool, prefix)
           \/ /\ e.usage /\ Writes(e.r) /\ PoolOf(e.r) = pool /\ PrefixKey(e.r) = prefix
              /\ ClashesWith(entries, pool, prefix, e.r)
<1> DEFINE n == Len(entries)
<1>1. PICK more : more = Append(entries, e)
  OBVIOUS
<1>2. PICK new : new = (IF PoolOf(e.r) = pool /\ e.usage /\ Writes(e.r) THEN {n + 1} ELSE {})
  OBVIOUS
<1>3. PICK old : old = PoolWriters(entries, pool)
  OBVIOUS
<1>4. PoolWriters(more, pool) = old \cup new
  BY WritersGrow, <1>1, <1>2, <1>3
<1>5. old \subseteq 1 .. n /\ n \in Nat
  BY <1>3 DEF PoolWriters, WritersOf, Sequence
<1>6. \A i \in old : more[i] = entries[i]
  BY <1>3, <1>1, WritersGrow DEF PoolWriters
<1>7. more[n + 1] = e
  BY <1>1, WritersGrow
<1>8. ASSUME Clash(more, pool, prefix)
      PROVE  \/ Clash(entries, pool, prefix)
             \/ /\ e.usage /\ Writes(e.r) /\ PoolOf(e.r) = pool /\ PrefixKey(e.r) = prefix
                /\ ClashesWith(entries, pool, prefix, e.r)
  <2>1. PICK i, j \in old \cup new :
          /\ i < j /\ PrefixKey(more[i].r) = prefix /\ PrefixKey(more[j].r) = prefix
          /\ Apart(more[i].r, more[j].r)
    BY <1>8, <1>4 DEF Clash
  <2>2. CASE i \in old /\ j \in old
    BY <2>1, <2>2, <1>6, <1>3 DEF Clash
  <2>3. CASE i \in old /\ j \in new
    <3>1. /\ e.usage /\ Writes(e.r) /\ PoolOf(e.r) = pool /\ j = n + 1
      BY <2>3, <1>2
    <3>2. more[j] = e /\ more[i] = entries[i]
      BY <3>1, <2>3, <1>6, <1>7
    <3>3. PrefixKey(e.r) = prefix /\ PrefixKey(entries[i].r) = prefix /\ Apart(entries[i].r, e.r)
      BY <2>1, <3>2
    <3>4. ClashesWith(entries, pool, prefix, e.r)
      BY <3>3, <2>3, <1>3 DEF ClashesWith
    <3> QED BY <3>1, <3>3, <3>4
  <2>4. CASE i \in new
    <3>1. i = n + 1 /\ j \in old \cup {n + 1}
      BY <2>4, <2>1, <1>2
    <3> QED BY <3>1, <2>1, <1>5
  <2> QED BY <2>1, <2>2, <2>3, <2>4
<1>9. ASSUME Clash(entries, pool, prefix)
      PROVE  Clash(more, pool, prefix)
  <2>1. PICK i, j \in old :
          /\ i < j /\ PrefixKey(entries[i].r) = prefix /\ PrefixKey(entries[j].r) = prefix
          /\ Apart(entries[i].r, entries[j].r)
    BY <1>9, <1>3 DEF Clash
  <2>2. more[i] = entries[i] /\ more[j] = entries[j]
    BY <1>6
  <2>3. i \in PoolWriters(more, pool) /\ j \in PoolWriters(more, pool)
    BY <1>4
  <2> QED BY <2>1, <2>2, <2>3 DEF Clash
<1>10. ASSUME e.usage, Writes(e.r), PoolOf(e.r) = pool, PrefixKey(e.r) = prefix,
              ClashesWith(entries, pool, prefix, e.r)
       PROVE  Clash(more, pool, prefix)
  <2>1. PICK i \in old : PrefixKey(entries[i].r) = prefix /\ Apart(entries[i].r, e.r)
    BY <1>10, <1>3 DEF ClashesWith
  <2>2. more[i] = entries[i] /\ more[n + 1] = e /\ i < n + 1
    BY <1>5, <1>6, <1>7
  <2>3. i \in PoolWriters(more, pool) /\ n + 1 \in PoolWriters(more, pool)
    BY <1>4, <1>2, <1>10
  <2>4. /\ PrefixKey(more[i].r) = prefix /\ PrefixKey(more[n + 1].r) = prefix
        /\ Apart(more[i].r, more[n + 1].r)
    BY <2>1, <2>2, <1>10
  <2> QED BY <2>2, <2>3, <2>4 DEF Clash
<1> QED
  BY <1>1, <1>8, <1>9, <1>10

\* A write of the prefix in the window that r could not see, nor it r.
LEMMA ColdFanoutIs ==
  ASSUME NEW st, NEW entries, Sequence(entries), NEW pool, HasWrites(st.writes, entries, pool),
         NEW r, \A i \in PoolWriters(entries, pool) : InTime(entries[i].r)
  PROVE  Members(ColdFanout(st, r))
           = IF Writes(r) /\ ClashesWith(entries, pool, PrefixKey(r), r)
             THEN {<<"RT-FANOUT", PrefixKey(r)>>} ELSE {}
<1> DEFINE near == {i \in DOMAIN st.writes :
                      /\ st.writes[i].prefix = PrefixKey(r)
                      /\ r.sent < st.writes[i].visible /\ st.writes[i].at < VisibleAt(r)}
           alert == <<"RT-FANOUT", PrefixKey(r)>>
<1>1. DOMAIN st.writes = 1 .. Len(st.writes) /\ Len(st.writes) \in Nat
  BY DEF HasWrites, Sequence
<1>2. near # {} <=> ClashesWith(entries, pool, PrefixKey(r), r)
  <2>1. ASSUME NEW i \in near
        PROVE  ClashesWith(entries, pool, PrefixKey(r), r)
    <3>1. st.writes[i] \in Members(st.writes)
      BY <1>1 DEF Members
    <3>2. PICK k \in PoolWriters(entries, pool) : st.writes[i] = WriteOf(entries[k].r)
      BY <3>1 DEF HasWrites
    <3>3. /\ PrefixKey(entries[k].r) = PrefixKey(r)
          /\ r.sent < VisibleAt(entries[k].r) /\ entries[k].r.sent < VisibleAt(r)
      BY <3>2 DEF WriteOf
    <3> QED BY <3>3 DEF ClashesWith, Apart
  <2>2. ASSUME ClashesWith(entries, pool, PrefixKey(r), r)
        PROVE  near # {}
    <3>1. PICK k \in PoolWriters(entries, pool) :
            /\ PrefixKey(entries[k].r) = PrefixKey(r)
            /\ r.sent < VisibleAt(entries[k].r) /\ entries[k].r.sent < VisibleAt(r)
      BY <2>2 DEF ClashesWith, Apart
    <3>2. WriteOf(entries[k].r) \in Members(st.writes)
      BY DEF HasWrites
    <3>3. PICK i \in 1 .. Len(st.writes) : st.writes[i] = WriteOf(entries[k].r)
      BY <3>2 DEF Members
    <3>4. i \in near
      BY <3>1, <3>3, <1>1 DEF WriteOf
    <3> QED BY <3>4
  <2> QED BY <2>1, <2>2
<1>3. IsFiniteSet(near) /\ Cardinality(near) \in Nat
  <2>1. IsFiniteSet(1 .. Len(st.writes))
    <3>1. 1 \in Int /\ Len(st.writes) \in Int
      BY <1>1
    <3> QED BY <3>1, FS_Interval
  <2>2. near \subseteq 1 .. Len(st.writes)
    BY <1>1
  <2> HIDE DEF near
  <2> QED BY <2>1, <2>2, FS_Subset, FS_CardinalityType
<1>4. Cardinality(near) = 0 <=> near = {}
  <2> HIDE DEF near
  <2> QED BY <1>3, FS_EmptySet
<1>5. Concurrent(st, r) = IF Writes(r) THEN 1 + Cardinality(near) ELSE 0
  BY DEF Concurrent
<1>6. Concurrent(st, r) >= 2 <=> Writes(r) /\ ClashesWith(entries, pool, PrefixKey(r), r)
  <2> HIDE DEF near
  <2>1. PICK c : c = Cardinality(near)
    OBVIOUS
  <2>2. c \in Nat /\ (c = 0 <=> ~ClashesWith(entries, pool, PrefixKey(r), r))
    BY <2>1, <1>2, <1>3, <1>4
  <2>3. CASE Writes(r)
    BY <2>1, <2>2, <2>3, <1>5
  <2>4. CASE ~Writes(r)
    BY <2>4, <1>5
  <2> QED BY <2>3, <2>4
<1>7. Members(<<alert>>) = {alert} /\ Members(<<>>) = {}
  BY DEF Members
<1>8. ColdFanout(st, r) = IF Concurrent(st, r) >= 2 THEN <<alert>> ELSE <<>>
  BY DEF ColdFanout, When
<1> HIDE DEF near, alert
<1>9. CASE Concurrent(st, r) >= 2
  BY <1>9, <1>6, <1>7, <1>8 DEF alert
<1>10. CASE ~(Concurrent(st, r) >= 2)
  BY <1>10, <1>6, <1>7, <1>8 DEF alert
<1> QED
  BY <1>9, <1>10

\* The window after an observation has one write more, if it has room.
LEMMA WritesKept ==
  ASSUME NEW entries, Sequence(entries), NEW e, AllHeld(Append(entries, e)), NEW pool,
         NEW writes, HasWrites(writes, entries, pool), NEW after,
         after = IF e.usage /\ PoolOf(e.r) = pool THEN WritesAfter(writes, e.r) ELSE writes
  PROVE  HasWrites(after, Append(entries, e), pool)
<1> DEFINE n == Len(entries)
<1>1. PICK more : more = Append(entries, e)
  OBVIOUS
<1>2. PICK new : new = (IF PoolOf(e.r) = pool /\ e.usage /\ Writes(e.r) THEN {n + 1} ELSE {})
  OBVIOUS
<1>3. PICK old : old = PoolWriters(entries, pool)
  OBVIOUS
<1>4. PoolWriters(more, pool) = old \cup new
  BY WritersGrow, <1>1, <1>2, <1>3
<1>5. \A i \in old : more[i] = entries[i] /\ i \in 1 .. n
  BY <1>3, <1>1, WritersGrow DEF PoolWriters
<1>6. more[n + 1] = e /\ n \in Nat
  BY <1>1, WritersGrow DEF Sequence
<1>7. {WriteOf(more[i].r) : i \in old} = {WriteOf(entries[i].r) : i \in old}
  BY <1>5
<1>8. CASE new = {}
  <2>1. after = writes
    <3>1. ~(e.usage /\ PoolOf(e.r) = pool) \/ ~Writes(e.r)
      BY <1>2, <1>8
    <3> QED BY <3>1 DEF WritesAfter
  <2>2. PoolWriters(more, pool) = old
    BY <1>4, <1>8
  <2> QED BY <2>1, <2>2, <1>7, <1>3, <1>1 DEF HasWrites
<1>9. CASE new # {}
  <2>1. PoolOf(e.r) = pool /\ e.usage /\ Writes(e.r) /\ new = {n + 1}
    BY <1>2, <1>9
  <2>2. after = Push(writes, WriteOf(e.r), Window)
    BY <2>1 DEF WritesAfter, WriteOf
  <2>3. n + 1 \notin old /\ n + 1 \notin WritersOf(entries)
    BY <1>5, <1>6, WritersGrow
  <2>4. /\ IsFiniteSet(old) /\ IsFiniteSet(WritersOf(entries))
        /\ Cardinality(old) \in Nat /\ Cardinality(WritersOf(entries)) \in Nat
        /\ Cardinality(old) <= Cardinality(WritersOf(entries))
    BY WritersAre, <1>3
  <2>5. Cardinality(old \cup {n + 1}) = Cardinality(old) + 1
    BY <2>3, <2>4, FS_AddElement
  <2>6. WritersOf(more) = WritersOf(entries) \cup {n + 1}
    BY WritersGrow, <2>1, <1>1
  <2>7. Cardinality(WritersOf(more)) = Cardinality(WritersOf(entries)) + 1
    BY <2>3, <2>4, <2>6, FS_AddElement
  <2>8. Cardinality(WritersOf(more)) <= Window
    BY <1>1 DEF AllHeld
  <2>9. Len(writes) = Cardinality(old) /\ Sequence(writes) /\ Window \in Nat \ {0}
    BY <1>3, MonitorAssumption DEF HasWrites
  <2>10. Len(writes) < Window
    BY <2>4, <2>7, <2>8, <2>9
  <2>11. /\ Sequence(after) /\ Len(after) = Len(writes) + 1
         /\ Members(after) = Members(writes) \cup {WriteOf(e.r)}
    BY <2>2, <2>9, <2>10, PushMembers
  <2>12. Len(after) = Cardinality(PoolWriters(more, pool))
    BY <2>5, <2>9, <2>11, <1>4, <2>1
  <2>13. Members(after) = {WriteOf(more[i].r) : i \in PoolWriters(more, pool)}
    <3>1. Members(writes) = {WriteOf(more[i].r) : i \in old}
      BY <1>3, <1>7 DEF HasWrites
    <3>2. WriteOf(more[n + 1].r) = WriteOf(e.r)
      BY <1>6
    <3>3. PoolWriters(more, pool) = old \cup {n + 1}
      BY <1>4, <2>1
    <3> QED BY <2>11, <3>1, <3>2, <3>3
  <2>14. HasWrites(after, more, pool)
    BY <2>11, <2>12, <2>13 DEF HasWrites
  <2> QED BY <2>14, <1>1
<1> QED
  BY <1>8, <1>9

\* The other checks yield no RT-FANOUT.
NoFanout(s) == Sequence(s) /\ \A a \in Members(s) : a[1] # "RT-FANOUT"

LEMMA NoFanoutIs ==
  /\ NoFanout(<<>>)
  /\ \A condition, alert : alert[1] # "RT-FANOUT" => NoFanout(When(condition, alert))
  /\ \A s, t : NoFanout(s) /\ NoFanout(t) => NoFanout(s \o t)
<1>1. NoFanout(<<>>)
  BY EmptyIs DEF NoFanout, Members
<1>2. ASSUME NEW condition, NEW alert, alert[1] # "RT-FANOUT"
      PROVE  NoFanout(When(condition, alert))
  <2>1. Members(<<alert>>) = {alert} /\ Members(<<>>) = {}
    BY DEF Members
  <2>2. When(condition, alert) \in {<<alert>>, <<>>}
    BY DEF When
  <2>3. \A a \in Members(When(condition, alert)) : a[1] # "RT-FANOUT"
    BY <2>1, <2>2, <1>2
  <2> QED BY <2>3, WhenIs DEF NoFanout
<1>3. ASSUME NEW s, NEW t, NoFanout(s), NoFanout(t)
      PROVE  NoFanout(s \o t)
  BY <1>3, ConcatIs, ConcatMembers DEF NoFanout
<1> QED
  BY <1>1, <1>2, <1>3

LEMMA OtherCodes ==
  ASSUME NEW r
  PROVE  /\ \A st : HasSegs(r) => NoFanout(ShapeChecks(st, r))
         /\ \A before, st : NoFanout(Rebuild(before, st, r))
         /\ NoFanout(NoSurface(r))
<1>1. NoFanout(NoSurface(r))
  <2>1. NoSurface(r) = When(Unanswered(r) # {}, <<"RT-NOSURFACE", Unanswered(r)>>)
    BY DEF NoSurface
  <2>2. <<"RT-NOSURFACE", Unanswered(r)>>[1] # "RT-FANOUT"
    OBVIOUS
  <2> QED BY <2>1, <2>2, NoFanoutIs
<1>2. ASSUME NEW before, NEW st
      PROVE  NoFanout(Rebuild(before, st, r))
  <2>1. \E c : \/ Rebuild(before, st, r) = When(c, <<"RT-NOSESSION", {}>>)
               \/ Rebuild(before, st, r) = When(c, <<"RT-REBUILD", {}>>)
    BY Zenon DEF Rebuild
  <2>2. <<"RT-NOSESSION", {}>>[1] # "RT-FANOUT" /\ <<"RT-REBUILD", {}>>[1] # "RT-FANOUT"
    OBVIOUS
  <2> QED BY <2>1, <2>2, NoFanoutIs
<1>3. ASSUME NEW st, HasSegs(r)
      PROVE  NoFanout(ShapeChecks(st, r))
  <2>0. DOMAIN r.segs = 1 .. Len(r.segs) /\ Len(r.segs) \in Nat
    BY <1>3 DEF HasSegs
  <2>1. NoFanout(Blind(r)) /\ NoFanout(BelowMinimum(r))
    <3>1. <<"RT-BLIND", {}>>[1] # "RT-FANOUT" /\ <<"RT-MIN", Minimum[r.target]>>[1] # "RT-FANOUT"
      OBVIOUS
    <3> QED BY <3>1, NoFanoutIs DEF Blind, BelowMinimum
  <2>2. NoFanout(Drift(st, r))
    <3> DEFINE drifting == {i \in DOMAIN r.segs : i <= Top(r) /\ Changing(st, i) /\ Stranded(r, i) > 0}
               nth(k) == CHOOSE i \in drifting : Cardinality({j \in drifting : j <= i}) = k
               warnings == [k \in 1 .. Cardinality(drifting) |-> <<"RT-DRIFT", nth(k)>>]
    <3>1. Cardinality(drifting) \in Nat
      <4>1. IsFiniteSet(1 .. Len(r.segs)) /\ drifting \subseteq 1 .. Len(r.segs)
        BY <2>0, FS_Interval
      <4> HIDE DEF drifting
      <4> QED BY <4>1, FS_Subset, FS_CardinalityType
    <3>2. /\ warnings = [k \in 1 .. Cardinality(drifting) |-> warnings[k]]
          /\ \A k \in 1 .. Cardinality(drifting) : warnings[k][1] = "RT-DRIFT"
      <4> HIDE DEF drifting, nth
      <4> QED OBVIOUS
    <3>3. Drift(st, r) = <<>> \/ Drift(st, r) = warnings
      BY DEF Drift
    <3> HIDE DEF warnings, drifting
    <3>4. Sequence(warnings) /\ Len(warnings) = Cardinality(drifting)
      BY <3>1, <3>2, FunctionIsSequence
    <3>5. NoFanout(warnings)
      BY <3>2, <3>4 DEF NoFanout, Members
    <3> QED BY <3>3, <3>5, NoFanoutIs
  <2>3. NoFanout(Blocked(st, r))
    <3>1. Blocked(st, r) = <<>> \/ \E c, x : Blocked(st, r) = When(c, <<"RT-BLOCKED", x>>)
      BY Zenon DEF Blocked
    <3>2. \A x : <<"RT-BLOCKED", x>>[1] # "RT-FANOUT"
      OBVIOUS
    <3> QED BY <3>1, <3>2, NoFanoutIs
  <2>4. NoFanout(MarkerBudget(r))
    <3>1. \/ MarkerBudget(r) = <<>>
          \/ \E c, x, d, y : MarkerBudget(r) = When(c, <<"RT-BUDGET", x>>) \o When(d, <<"RT-BUDGET", y>>)
      BY Zenon DEF MarkerBudget
    <3>2. \A x : <<"RT-BUDGET", x>>[1] # "RT-FANOUT"
      OBVIOUS
    <3> QED BY <3>1, <3>2, NoFanoutIs
  <2>5. NoFanout(CadenceVsTtl(st, r))
    <3>1. \/ CadenceVsTtl(st, r) = <<>>
          \/ \E c, x, d, y : CadenceVsTtl(st, r) = When(c, <<"RT-TTL", x>>) \o When(d, <<"RT-TTL", y>>)
      BY Zenon DEF CadenceVsTtl
    <3>2. \A x : <<"RT-TTL", x>>[1] # "RT-FANOUT"
      OBVIOUS
    <3> QED BY <3>1, <3>2, NoFanoutIs
  <2> QED
    BY <2>1, <2>2, <2>3, <2>4, <2>5, NoFanoutIs, Zenon DEF ShapeChecks
<1> QED
  BY <1>1, <1>2, <1>3

FanoutAlert(pool, prefix) == [scope |-> pool, alert |-> <<"RT-FANOUT", prefix>>]

\* RT-FANOUT is among the warnings when the window of the pool has a write it clashes with.
LEMMA FanoutWarned ==
  ASSUME NEW p, NEW r, NEW shape \in BOOLEAN, NEW usage \in BOOLEAN, shape => HasSegs(r),
         NEW pool, NEW prefix
  PROVE  FanoutAlert(pool, prefix) \in Warned(p, r, shape, usage) <=>
           /\ usage /\ pool = PoolOf(r)
           /\ <<"RT-FANOUT", prefix>> \in Members(ColdFanout(ShapedAs(p.state[pool], pool, r, shape), r))
<1> DEFINE chain == ReuseChainOf(r)  turns == RebuildScope(r)
           shaped(s) == ShapedAs(p.state[s], s, r, shape)
           used(s)   == ObservedAs(p.state[s], s, r, shape, usage)
           alert     == <<"RT-FANOUT", prefix>>
           fanout    == FanoutAlert(pool, prefix)
<1>1. \A scope, s : fanout \in Warnings(scope, s) <=> scope = pool /\ alert \in Members(s)
  BY DEF Warnings, FanoutAlert
<1>2. \A s : NoFanout(s) => alert \notin Members(s)
  BY DEF NoFanout
<1>3. shape => NoFanout(ShapeChecks(used(chain), r)) /\ NoFanout(NoSurface(r))
  BY OtherCodes
<1>4. NoFanout(Rebuild(shaped(turns), used(turns), r))
  BY OtherCodes
<1>5. Warned(p, r, shape, usage)
        = (IF shape THEN Warnings(chain, ShapeChecks(used(chain), r)) \cup Warnings(chain, NoSurface(r)) ELSE {})
          \cup (IF usage THEN Warnings(PoolOf(r), ColdFanout(shaped(PoolOf(r)), r))
                         \cup Warnings(turns, Rebuild(shaped(turns), used(turns), r)) ELSE {})
  BY DEF Warned
<1> HIDE DEF shaped, used, fanout, alert, chain, turns
<1>6. fanout \notin Warnings(turns, Rebuild(shaped(turns), used(turns), r))
  BY <1>1, <1>2, <1>4
<1>7. shape => fanout \notin Warnings(chain, ShapeChecks(used(chain), r)) \cup Warnings(chain, NoSurface(r))
  BY <1>1, <1>2, <1>3
<1>8. fanout \in Warned(p, r, shape, usage)
        <=> usage /\ fanout \in Warnings(PoolOf(r), ColdFanout(shaped(PoolOf(r)), r))
  BY <1>5, <1>6, <1>7
<1>9. fanout \in Warned(p, r, shape, usage)
        <=> usage /\ PoolOf(r) = pool /\ alert \in Members(ColdFanout(shaped(PoolOf(r)), r))
  BY <1>1, <1>8
<1> QED
  BY <1>9 DEF shaped, fanout, alert

\* Only a usage of its own pool changes the window of a scope.
LEMMA WindowsAre ==
  ASSUME NEW st, IsFull(st), NEW s, NEW r, NEW shape, NEW usage
  PROVE  /\ ShapedAs(st, s, r, shape).writes = st.writes
         /\ ~(usage /\ PoolOf(r) = s) =>
              ObservedAs(st, s, r, shape, usage).writes = st.writes
<1>1. PICK a : a = ShapedAs(st, s, r, shape)
  OBVIOUS
<1>2. IsFull(a)
  BY <1>1, ShapedIs
<1>3. a.writes = st.writes
  <2>1. CASE shape /\ s = ReuseChainOf(r)
    <3>1. a = TrackShape(st, r)
      BY <1>1, <2>1 DEF ShapedAs
    <3>2. Unchanged(TrackShape(st, r), st, ShapeFields)
      BY ShapeIs
    <3> QED BY <3>1, <3>2 DEF Unchanged, StateFields, ShapeFields
  <2>2. CASE ~(shape /\ s = ReuseChainOf(r))
    BY <2>2, <1>1 DEF ShapedAs
  <2> QED BY <2>1, <2>2
<1>4. PICK b : b = UsedAs(a, s, r, usage)
  OBVIOUS
<1>5. b.writes = IF usage /\ PoolOf(r) = s THEN WritesAfter(a.writes, r) ELSE a.writes
  <2>1. CASE usage /\ s = PoolOf(r)
    <3>1. b = TrackUsage(a, r)
      BY <1>4, <2>1 DEF UsedAs
    <3>2. TrackUsage(a, r).writes = WritesAfter(a.writes, r)
      BY <1>2, UsageIs
    <3> QED BY <3>1, <3>2, <2>1
  <2>2. CASE ~(usage /\ s = PoolOf(r)) /\ usage /\ s = RebuildScope(r) /\ r.session # NoSession
    <3>1. b = TrackTurn(a, r)
      BY <1>4, <2>2 DEF UsedAs
    <3>2. Unchanged(TrackTurn(a, r), a, TurnFields)
      BY <1>2, TurnIs
    <3>3. TrackTurn(a, r).writes = a.writes
      BY <3>2 DEF Unchanged, StateFields, TurnFields
    <3> QED BY <3>1, <3>3, <2>2
  <2>3. CASE ~(usage /\ s = PoolOf(r)) /\ ~(usage /\ s = RebuildScope(r) /\ r.session # NoSession)
    BY <2>3, <1>4 DEF UsedAs
  <2> QED BY <2>1, <2>2, <2>3
<1> QED
  BY <1>1, <1>3, <1>4, <1>5 DEF ObservedAs

LEMMA OwnWindow ==
  ASSUME NEW st, IsFull(st), NEW s, NEW r, NEW shape
  PROVE  TrackUsage(ShapedAs(st, s, r, shape), r).writes = WritesAfter(st.writes, r)
<1>1. PICK a : a = ShapedAs(st, s, r, shape)
  OBVIOUS
<1>2. IsFull(a) /\ a.writes = st.writes
  BY <1>1, ShapedIs, WindowsAre
<1> QED
  BY <1>1, <1>2, UsageIs

\* What is firing was returned, and under these bounds the windows have every write
\* and RT-FANOUT was returned for exactly the prefixes that clash.
AllFiringRaised(t, out) ==
  \A s \in Members(t.order) : \A a \in Members(t.state[s].firing) :
    [scope |-> s, alert |-> a] \in Members(out)

WindowsHold(t, entries) ==
  AllHeld(entries) => \A s \in Members(t.order) : HasWrites(t.state[s].writes, entries, s)

FanoutKnown(entries, out) ==
  AllHeld(entries) => \A pool, prefix :
    FanoutAlert(pool, prefix) \in Members(out) <=> Clash(entries, pool, prefix)

WritesInTime(entries) == \A i \in WritersOf(entries) : InTime(entries[i].r)

FanoutInv(t, entries, out) ==
  /\ ScopesInv(t, entries) /\ Sequence(out)
  /\ AllFiringRaised(t, out) /\ WritesInTime(entries)
  /\ WindowsHold(t, entries) /\ FanoutKnown(entries, out)

LEMMA HeldBefore ==
  ASSUME NEW t, NEW entries, ScopesInv(t, entries), NEW e, AllHeld(Append(entries, e))
  PROVE  AllHeld(entries)
<1>1. Sequence(entries) /\ Sequence(Append(entries, e))
  BY AppendIs DEF ScopesInv
<1>2. AllKept(entries)
  BY PlacedScopes DEF AllHeld
<1>3. PICK more : more = Append(entries, e)
  OBVIOUS
<1>4. WritersOf(entries) \subseteq WritersOf(more)
  BY <1>1, <1>3, WritersGrow
<1>5. IsFiniteSet(WritersOf(more)) /\ Cardinality(WritersOf(more)) \in Nat
      /\ Cardinality(WritersOf(entries)) \in Nat
  BY <1>1, <1>3, WritersAre
<1>6. Cardinality(WritersOf(entries)) <= Cardinality(WritersOf(more))
  BY <1>4, <1>5, FS_Subset
<1>7. Cardinality(WritersOf(more)) <= Window /\ Window \in Nat
  BY <1>3, MonitorAssumption DEF AllHeld
<1> QED
  BY <1>2, <1>5, <1>6, <1>7 DEF AllHeld

\* The window a scope has when an observation finds it.
LEMMA FoundWindow ==
  ASSUME NEW t, NEW entries, ScopesInv(t, entries), WindowsHold(t, entries),
         NEW e, AllHeld(Append(entries, e)), NEW s \in Members(Placed(t, e.r).order)
  PROVE  HasWrites(Placed(t, e.r).state[s].writes, entries, s)
<1>1. AllHeld(entries) /\ Sequence(entries)
  BY HeldBefore DEF ScopesInv
<1>2. Grown(Placed(t, e.r), t) /\ Members(t.order) = TouchedBy(entries)
  BY PlacedScopes DEF AllHeld
<1>3. CASE s \in Members(t.order)
  <2>1. Placed(t, e.r).state[s] = t.state[s]
    BY <1>2, <1>3 DEF Grown
  <2> QED BY <2>1, <1>1, <1>3 DEF WindowsHold
<1>4. CASE s \notin Members(t.order)
  <2>1. Placed(t, e.r).state[s] = FreshState
    BY <1>2, <1>4 DEF Grown
  <2>2. FreshState.writes = <<>>
    BY DEF FreshState
  <2>3. PoolWriters(entries, s) = {}
    <3> SUFFICES ASSUME NEW i \in PoolWriters(entries, s) PROVE FALSE
      OBVIOUS
    <3>1. i \in 1 .. Len(entries) /\ PoolOf(entries[i].r) = s
      BY DEF PoolWriters, WritersOf
    <3>2. s \in TouchedBy(entries)
      BY <3>1, <1>1, ChainsAreTouched
    <3> QED BY <3>2, <1>2, <1>4
  <2>4. Members(<<>>) = {}
    BY DEF Members
  <2>5. Cardinality(PoolWriters(entries, s)) = 0
    BY <2>3, FS_EmptySet
  <2>6. HasWrites(<<>>, entries, s)
    BY <2>3, <2>4, <2>5, EmptyIs DEF HasWrites
  <2> QED BY <2>1, <2>2, <2>6
<1> QED
  BY <1>3, <1>4

LEMMA WindowsStep ==
  ASSUME NEW t, NEW entries, ScopesInv(t, entries), WindowsHold(t, entries), NEW e,
         e.shape \in BOOLEAN, e.usage \in BOOLEAN, NEW after,
         ObservedTo(after, Placed(t, e.r), e.r, e.shape, e.usage)
  PROVE  WindowsHold(after.table, Append(entries, e))
<1> SUFFICES ASSUME AllHeld(Append(entries, e)), NEW s \in Members(after.table.order)
             PROVE  HasWrites(after.table.state[s].writes, Append(entries, e), s)
  BY DEF WindowsHold
<1>1. PICK p : p = Placed(t, e.r)
  OBVIOUS
<1>2. s \in Members(p.order) /\ FullTable(p)
  BY <1>1, PlacedIs DEF ObservedTo, ScopesInv, PlacedAs
<1>3. IsFull(p.state[s])
  BY <1>2 DEF FullTable
<1>4. HasWrites(p.state[s].writes, entries, s)
  BY <1>1, <1>2, FoundWindow
<1>5. Same(after.table.state[s], ObservedAs(p.state[s], s, e.r, e.shape, e.usage))
  BY <1>1, <1>2 DEF ObservedTo
<1>6. after.table.state[s].writes = ObservedAs(p.state[s], s, e.r, e.shape, e.usage).writes
  BY <1>5 DEF Same, StateFields
<1>7. after.table.state[s].writes
        = IF e.usage /\ PoolOf(e.r) = s THEN WritesAfter(p.state[s].writes, e.r) ELSE p.state[s].writes
  <2>1. CASE e.usage /\ PoolOf(e.r) = s
    <3>1. ObservedAs(p.state[s], s, e.r, e.shape, e.usage)
            = TrackUsage(ShapedAs(p.state[s], s, e.r, e.shape), e.r)
      BY <2>1 DEF ObservedAs, UsedAs
    <3>2. TrackUsage(ShapedAs(p.state[s], s, e.r, e.shape), e.r).writes
            = WritesAfter(p.state[s].writes, e.r)
      BY <1>3, OwnWindow
    <3> QED BY <3>1, <3>2, <2>1, <1>6
  <2>2. CASE ~(e.usage /\ PoolOf(e.r) = s)
    BY <2>2, <1>6, <1>3, WindowsAre
  <2> QED BY <2>1, <2>2
<1>8. Sequence(entries)
  BY DEF ScopesInv
<1> QED
  BY <1>4, <1>7, <1>8, WritesKept

LEMMA FiringStep ==
  ASSUME NEW t, FullTable(t), NEW out, Sequence(out), AllFiringRaised(t, out), NEW r,
         NEW shape, NEW usage, NEW after, ObservedTo(after, Placed(t, r), r, shape, usage)
  PROVE  /\ AllFiringRaised(after.table, out \o after.new)
         /\ \A s \in Members(Placed(t, r).order) : \A a \in Members(Placed(t, r).state[s].firing) :
              [scope |-> s, alert |-> a] \in Members(out)
<1>1. PICK p : p = Placed(t, r)
  OBVIOUS
<1>2. FullTable(p) /\ Carried(p, t) /\ DOMAIN p.state = Members(p.order)
      /\ DOMAIN t.state = Members(t.order)
  BY <1>1, PlacedIs, FullIsTable DEF PlacedAs
<1>3. ASSUME NEW s \in Members(p.order), NEW a \in Members(p.state[s].firing)
      PROVE  [scope |-> s, alert |-> a] \in Members(out)
  <2>1. CASE p.state[s] = FreshState
    <3>1. Members(<<>>) = {}
      BY DEF Members
    <3> QED BY <2>1, <3>1, <1>3, FreshIsFull
  <2>2. CASE s \in Members(t.order) /\ p.state[s] = t.state[s]
    BY <2>2, <1>3 DEF AllFiringRaised
  <2> QED BY <2>1, <2>2, <1>2 DEF Carried
<1>4. Members(out \o after.new) = Members(out) \cup Members(after.new)
  BY ConcatMembers DEF ObservedTo
<1>5. ASSUME NEW s \in Members(after.table.order), NEW a \in Members(after.table.state[s].firing)
      PROVE  [scope |-> s, alert |-> a] \in Members(out \o after.new)
  <2>1. s \in Members(p.order)
    BY <1>1, <1>5 DEF ObservedTo
  <2>2. a \in Members(p.state[s].firing) \/ [scope |-> s, alert |-> a] \in Members(after.new)
    BY <2>1, <1>1, <1>5 DEF ObservedTo, FiredFor
  <2> QED BY <2>1, <2>2, <1>3, <1>4
<1>6. AllFiringRaised(after.table, out \o after.new)
  BY <1>5 DEF AllFiringRaised
<1> QED
  BY <1>1, <1>3, <1>6

LEMMA FanoutStep ==
  ASSUME NEW t, NEW entries, NEW out, FanoutInv(t, entries, out), NEW e,
         e.shape \in BOOLEAN, e.usage \in BOOLEAN, e.shape => HasSegs(e.r),
         NEW after, ObservedTo(after, Placed(t, e.r), e.r, e.shape, e.usage)
  PROVE  FanoutKnown(Append(entries, e), out \o after.new)
<1> SUFFICES ASSUME AllHeld(Append(entries, e)), NEW pool, NEW prefix
             PROVE  FanoutAlert(pool, prefix) \in Members(out \o after.new)
                      <=> Clash(Append(entries, e), pool, prefix)
  BY DEF FanoutKnown
<1> DEFINE fanout == FanoutAlert(pool, prefix)
           fresh  == /\ e.usage /\ Writes(e.r) /\ PoolOf(e.r) = pool /\ PrefixKey(e.r) = prefix
                     /\ ClashesWith(entries, pool, prefix, e.r)
<1>1. PICK p : p = Placed(t, e.r)
  OBVIOUS
<1>2. Sequence(entries) /\ FullTable(t) /\ AllHeld(entries)
  BY HeldBefore DEF FanoutInv, ScopesInv
<1>3. Clash(Append(entries, e), pool, prefix) <=> Clash(entries, pool, prefix) \/ fresh
  BY <1>2, ClashGrows
<1>4. fanout \in Members(out) <=> Clash(entries, pool, prefix)
  BY <1>2 DEF FanoutInv, FanoutKnown
<1>5. Members(out \o after.new) = Members(out) \cup Members(after.new)
  BY ConcatMembers DEF ObservedTo, FanoutInv
<1>6. PoolOf(e.r) \in Members(p.order) /\ FullTable(p)
  BY <1>1, <1>2, PlacedIs DEF PlacedAs
<1>7. fanout \in Warned(p, e.r, e.shape, e.usage) <=> fresh
  <2>1. CASE e.usage /\ pool = PoolOf(e.r)
    <3>1. PICK st : st = ShapedAs(p.state[pool], pool, e.r, e.shape)
      OBVIOUS
    <3>2. IsFull(p.state[pool])
      BY <2>1, <1>6 DEF FullTable
    <3>3. st.writes = p.state[pool].writes
      BY <3>1, <3>2, WindowsAre
    <3>4. ScopesInv(t, entries) /\ WindowsHold(t, entries)
      BY DEF FanoutInv
    <3>5. HasWrites(p.state[pool].writes, entries, pool)
      BY <3>4, <2>1, <1>1, <1>6, FoundWindow
    <3>6. \A i \in PoolWriters(entries, pool) : InTime(entries[i].r)
      BY DEF FanoutInv, WritesInTime, PoolWriters
    <3>7. Members(ColdFanout(st, e.r))
            = IF Writes(e.r) /\ ClashesWith(entries, pool, PrefixKey(e.r), e.r)
              THEN {<<"RT-FANOUT", PrefixKey(e.r)>>} ELSE {}
      BY <3>3, <3>5, <3>6, <1>2, ColdFanoutIs
    <3>8. fanout \in Warned(p, e.r, e.shape, e.usage)
            <=> <<"RT-FANOUT", prefix>> \in Members(ColdFanout(st, e.r))
      BY <3>1, <2>1, FanoutWarned
    <3>9. <<"RT-FANOUT", prefix>> = <<"RT-FANOUT", PrefixKey(e.r)>> <=> prefix = PrefixKey(e.r)
      OBVIOUS
    <3> HIDE DEF fanout
    <3>10. <<"RT-FANOUT", prefix>> \in Members(ColdFanout(st, e.r))
             <=> Writes(e.r) /\ ClashesWith(entries, pool, PrefixKey(e.r), e.r) /\ prefix = PrefixKey(e.r)
      BY <3>7, <3>9
    <3> QED BY <3>8, <3>10, <2>1
  <2>2. CASE ~(e.usage /\ pool = PoolOf(e.r))
    BY <2>2, FanoutWarned
  <2> QED BY <2>1, <2>2
<1>8. Members(after.new) \subseteq Warned(p, e.r, e.shape, e.usage)
  BY <1>1 DEF ObservedTo
<1>9. ASSUME fresh
      PROVE  fanout \in Members(out) \cup Members(after.new)
  <2>1. fanout \in Warned(p, e.r, e.shape, e.usage) /\ pool \in Members(p.order)
    BY <1>7, <1>9, <1>6
  <2>2. FiredFor(after.table.state[pool].firing, p.state[pool].firing, pool,
                 Warned(p, e.r, e.shape, e.usage), Members(after.new))
    BY <2>1, <1>1 DEF ObservedTo
  <2>3. <<"RT-FANOUT", prefix>> \in Members(p.state[pool].firing) \/ fanout \in Members(after.new)
    BY <2>1, <2>2 DEF FiredFor, FanoutAlert
  <2>4. Sequence(out) /\ AllFiringRaised(t, out)
    BY DEF FanoutInv
  <2>5. <<"RT-FANOUT", prefix>> \in Members(p.state[pool].firing) => fanout \in Members(out)
    BY <2>1, <2>4, <1>1, <1>2, FiringStep DEF FanoutAlert
  <2> QED BY <2>3, <2>5
<1> HIDE DEF fanout, fresh
<1>10. fanout \in Members(out \o after.new) <=> Clash(Append(entries, e), pool, prefix)
  BY <1>3, <1>4, <1>5, <1>7, <1>8, <1>9
<1> QED
  BY <1>10 DEF fanout

\* An observation keeps all of it.
LEMMA FanoutKept ==
  ASSUME NEW t, NEW entries, NEW out, FanoutInv(t, entries, out), NEW e,
         e.shape \in BOOLEAN, e.usage \in BOOLEAN, e.shape => HasSegs(e.r),
         e.usage /\ Writes(e.r) => InTime(e.r)
  PROVE  LET after == Observing(t, e.r, e.shape, e.usage)
         IN FanoutInv(after.table, Append(entries, e), out \o after.new)
<1>1. PICK after : after = Observing(t, e.r, e.shape, e.usage)
  OBVIOUS
<1>2. FullTable(t) /\ ScopesInv(t, entries) /\ Sequence(entries) /\ Sequence(out)
      /\ AllFiringRaised(t, out) /\ WindowsHold(t, entries)
  BY DEF FanoutInv, ScopesInv
<1>3. ObservedTo(after, Placed(t, e.r), e.r, e.shape, e.usage)
  BY <1>1, <1>2, ObservingIs
<1>4. ScopesInv(after.table, Append(entries, e))
  BY <1>1, <1>2, ScopesStep
<1>5. Sequence(out \o after.new)
  BY <1>2, <1>3, ConcatIs DEF ObservedTo
<1>6. AllFiringRaised(after.table, out \o after.new)
  BY <1>2, <1>3, FiringStep
<1>7. WindowsHold(after.table, Append(entries, e))
  BY <1>2, <1>3, WindowsStep
<1>8. FanoutKnown(Append(entries, e), out \o after.new)
  BY <1>3, FanoutStep
<1>9. WritesInTime(Append(entries, e))
  <2>1. PICK more : more = Append(entries, e)
    OBVIOUS
  <2>2. ASSUME NEW i \in WritersOf(more)
        PROVE  InTime(more[i].r)
    <3>1. CASE i \in WritersOf(entries)
      <4>1. more[i] = entries[i]
        BY <3>1, <2>1, <1>2, WritersGrow
      <4>2. WritesInTime(entries)
        BY DEF FanoutInv
      <4> QED BY <4>1, <4>2, <3>1 DEF WritesInTime
    <3>2. CASE i \notin WritersOf(entries)
      <4>1. e.usage /\ Writes(e.r) /\ i = Len(entries) + 1 /\ more[i] = e
        BY <3>2, <2>1, <2>2, <1>2, WritersGrow
      <4> QED BY <4>1
    <3> QED BY <3>1, <3>2
  <2> QED BY <2>1, <2>2 DEF WritesInTime
<1> QED
  BY <1>1, <1>4, <1>5, <1>6, <1>7, <1>8, <1>9 DEF FanoutInv

--------------------
(* What waits for a response, and what calls were asked.                         *)

\* A decision is about its own call: the request as it was asked, sections apart, and
\* whether markers were placed.
DecisionOf(decision, call) ==
  /\ RequestFields \subseteq DOMAIN decision.r
  /\ \A f \in RequestFields \ {"segs"} : decision.r[f] = call.asked[f]
  /\ call.patched <=> decision.placed # <<>>

\* One of the requests, whatever surface it is bound for.
Among(q, requests) == IsRequest(q) /\ \E r \in requests : q.sent = r.sent

DecisionsInv(requests) ==
  /\ \A c \in 1 .. Len(calls) : Among(calls[c].asked, requests)
  /\ \A q \in Members(pending) : DecisionOf(q, calls[q.key])

LEMMA TakenMembers ==
  ASSUME NEW n \in Nat, NEW q, Queue(q, n), NEW c, Has(q, c)
  PROVE  /\ Members(RemoveAt(q, PlaceOf(q, c))) \subseteq Members(q)
         /\ Recall(q, c) \in Members(q) /\ Recall(q, c).key = c
<1>1. Sequence(q) /\ Len(q) \in Nat /\ DOMAIN q = 1 .. Len(q)
  BY DEF Queue, Sequence
<1>2. PICK p : p = PlaceOf(q, c)
  OBVIOUS
<1>3. p \in 1 .. Len(q) /\ q[p].key = c
  BY <1>1, <1>2 DEF PlaceOf, Has
<1>4. PICK rest : rest = RemoveAt(q, p)
  OBVIOUS
<1>5. /\ Sequence(rest) /\ Len(rest) = Len(q) - 1
      /\ \A k \in 1 .. Len(q) - 1 : rest[k] = IF k < p THEN q[k] ELSE q[k + 1]
  BY <1>1, <1>3, <1>4, RemoveAtIs
<1>6. \A k \in 1 .. Len(rest) : rest[k] \in Members(q)
  BY <1>1, <1>5 DEF Members
<1> QED
  BY <1>2, <1>3, <1>4, <1>6 DEF Members, Recall

\* What a call waits with is a decision of its own.
LEMMA CallDecides ==
  ASSUME Inv, NEW r, IsRequest(r), OnRequest(r)
  PROVE  \E entry, call :
           /\ pending' = Wait(pending, entry) /\ calls' = Append(calls, call)
           /\ entry.key = Len(calls) + 1 /\ DecisionOf(entry, call)
           /\ call.asked = r /\ call.answer = "none" /\ call.usage = Absent
           /\ UNCHANGED effect
<1>1. PICK plan, placed, sent, shown, call :
        /\ plan \in Decisions(r)
        /\ placed = IF config.mutate THEN plan ELSE <<>>
        /\ sent = [r EXCEPT !.segs = AsSent(r, placed)]
        /\ shown = [sent EXCEPT !.declared = WireTtl(sent.segs)]
        /\ ObserveShape(shown)
        /\ alerts' = Newest(alerts \o NewAlerts, MaxAlerts)
        /\ pending' = Wait(pending, [key |-> Len(calls) + 1, r |-> sent, placed |-> placed])
        /\ call = [asked |-> r, shown |-> Len(log'),
                   wire |-> IF placed = <<>> THEN r.segs ELSE Patched(r.segs, plan),
                   placed |-> placed, patched |-> config.mutate /\ plan # <<>>, answer |-> "none",
                   later |-> 0, usage |-> Absent]
        /\ calls' = Append(calls, call)
  BY OnRequestIs
<1>2. PICK entry : entry = [key |-> Len(calls) + 1, r |-> sent, placed |-> placed]
  OBVIOUS
<1>3. entry.key = Len(calls) + 1 /\ entry.r = sent /\ entry.placed = placed
  BY <1>2
<1>4. call.asked = r /\ call.answer = "none" /\ call.usage = Absent
      /\ call.patched = (config.mutate /\ plan # <<>>)
  BY <1>1
<1>5. RequestFields \subseteq DOMAIN r
  BY DEF IsRequest
<1>6. PICK segs : segs = AsSent(r, placed)
  OBVIOUS
<1>7. sent = [r EXCEPT !.segs = segs]
  BY <1>1, <1>6
<1>8. DOMAIN sent = DOMAIN r /\ \A f \in RequestFields \ {"segs"} : sent[f] = r[f]
  BY <1>5, <1>7
<1>9. call.patched <=> placed # <<>>
  BY <1>1, <1>4
<1>10. DecisionOf(entry, call)
  BY <1>3, <1>4, <1>5, <1>8, <1>9 DEF DecisionOf
<1>11. UNCHANGED effect
  BY DEF OnRequest
<1> QED
  BY <1>1, <1>2, <1>3, <1>4, <1>10, <1>11

\* One more call, and what waits.
LEMMA CallDecided ==
  ASSUME NEW requests, Inv, DecisionsInv(requests), NEW call, Among(call.asked, requests),
         calls' = Append(calls, call), Sequence(pending'),
         \A q \in Members(pending') :
           q \in Members(pending) \/ (q.key = Len(calls) + 1 /\ DecisionOf(q, call))
  PROVE  DecisionsInv(requests)'
<1>1. /\ Sequence(calls) /\ Len(calls') = Len(calls) + 1 /\ Len(calls) \in Nat
      /\ \A c \in 1 .. Len(calls) : calls'[c] = calls[c]
      /\ calls'[Len(calls) + 1] = call
  BY AppendIs DEF Inv, Sequence
<1>2. \A c \in 1 .. Len(calls') : Among(calls'[c].asked, requests)
  BY <1>1 DEF DecisionsInv
<1>3. ASSUME NEW q \in Members(pending') PROVE DecisionOf(q, calls'[q.key])
  <2>1. CASE q \in Members(pending)
    <3>1. q.key \in 1 .. Len(calls)
      BY <2>1 DEF Inv, Queue, Members
    <3>2. DecisionOf(q, calls[q.key])
      BY <2>1 DEF DecisionsInv
    <3> QED BY <3>1, <3>2, <1>1
  <2>2. CASE q.key = Len(calls) + 1 /\ DecisionOf(q, call)
    BY <2>2, <1>1
  <2> QED BY <2>1, <2>2, <1>3
<1> QED
  BY <1>2, <1>3 DEF DecisionsInv

LEMMA AnswerTakes ==
  ASSUME Inv, NEW c \in DOMAIN calls, NEW usage, Response(c, usage)
  PROVE  /\ c \in 1 .. Len(calls) /\ Sequence(calls') /\ Len(calls') = Len(calls)
         /\ \A d \in 1 .. Len(calls) : d # c => calls'[d] = calls[d]
         /\ calls[c].answer = "none" /\ calls'[c].usage = usage
         /\ calls'[c].asked = calls[c].asked /\ calls'[c].patched = calls[c].patched
         /\ calls'[c].answer = IF Has(pending, c) THEN "used" ELSE "lost"
         /\ Members(pending') \subseteq Members(pending)
<1>1. Sequence(calls) /\ DOMAIN calls = 1 .. Len(calls) /\ Len(calls) \in Nat
  BY DEF Inv, Sequence
<1>2. PICK answer : answer = (IF Has(pending, c) THEN "used" ELSE "lost")
  OBVIOUS
<1>3. PICK later : later = Len(calls) - c
  OBVIOUS
<1>4. calls' = [calls EXCEPT ![c].answer = answer, ![c].later = later, ![c].usage = usage]
  BY <1>2, <1>3 DEF Response
<1>5. /\ calls' = [d \in 1 .. Len(calls) |-> calls'[d]]
      /\ \A d \in 1 .. Len(calls) : d # c => calls'[d] = calls[d]
  BY <1>1, <1>4
<1>6. CallFields \subseteq DOMAIN calls[c]
  BY <1>1 DEF Inv, CallInv
<1>7. /\ calls'[c].asked = calls[c].asked /\ calls'[c].patched = calls[c].patched
      /\ calls'[c].usage = usage /\ calls'[c].answer = answer
  BY <1>1, <1>4, <1>6 DEF CallFields
<1>8. Sequence(calls') /\ Len(calls') = Len(calls)
  BY <1>1, <1>5, FunctionIsSequence
<1>9. Members(pending') \subseteq Members(pending)
  <2>1. Queue(pending, Len(calls))
    BY DEF Inv
  <2>2. CASE Has(pending, c)
    <3>1. pending' = RemoveAt(pending, PlaceOf(pending, c))
      BY <2>2 DEF Response
    <3> QED BY <3>1, <2>1, <2>2, <1>1, TakenMembers
  <2>3. CASE ~Has(pending, c)
    BY <2>3 DEF Response
  <2> QED BY <2>2, <2>3
<1>10. calls[c].answer = "none"
  BY DEF Response
<1> QED
  BY <1>1, <1>2, <1>5, <1>7, <1>8, <1>9, <1>10

LEMMA DecisionsStep ==
  ASSUME NEW requests, NEW usages, \A r \in requests : IsRequest(r),
         Inv, DecisionsInv(requests),
         [PluginNext(requests, usages)]_<<monitorVars, pluginVars>>
  PROVE  DecisionsInv(requests)'
<1>1. ASSUME UNCHANGED <<calls, pending>> PROVE DecisionsInv(requests)'
  BY <1>1 DEF DecisionsInv, DecisionOf, Members
<1>2. ASSUME NEW r \in requests, PreCall(r) PROVE DecisionsInv(requests)'
  <2>0. PICK q : IsRequest(q) /\ q.sent = r.sent /\ OnRequest(q)
    BY <1>2, PreCallBinds
  <2>1. PICK entry, call :
           /\ pending' = Wait(pending, entry) /\ calls' = Append(calls, call)
           /\ entry.key = Len(calls) + 1 /\ DecisionOf(entry, call) /\ call.asked = q
    BY <2>0, CallDecides
  <2>2. Sequence(pending) /\ PendingCap \in Nat \ {0}
    BY PluginAssumption DEF Inv, Queue
  <2>3. pending' = Push(pending, entry, PendingCap)
    BY <2>1 DEF Wait
  <2>4. Sequence(pending') /\ Members(pending') \subseteq Members(pending) \cup {entry}
    BY <2>2, <2>3, PushMembers
  <2>5. Among(call.asked, requests) /\ calls' = Append(calls, call)
    BY <2>0, <2>1, <1>2 DEF Among
  <2>6. \A p \in Members(pending') :
          p \in Members(pending) \/ (p.key = Len(calls) + 1 /\ DecisionOf(p, call))
    BY <2>1, <2>4
  <2> QED BY <2>4, <2>5, <2>6, CallDecided
<1>3. ASSUME NEW r \in requests, FailOpen(r) PROVE DecisionsInv(requests)'
  <2>1. PICK call : call.asked = r /\ calls' = Append(calls, call) /\ pending' = pending
    <3>1. PICK call : call = [asked |-> r, shown |-> 0, wire |-> r.segs, placed |-> <<>>,
                              patched |-> FALSE, answer |-> "none", later |-> 0, usage |-> Absent]
      OBVIOUS
    <3>2. call.asked = r /\ calls' = Append(calls, call) /\ pending' = pending
      BY <1>3, <3>1 DEF FailOpen
    <3> QED BY <3>2
  <2>2. Among(call.asked, requests) /\ Sequence(pending')
    BY <2>1, <1>3 DEF Inv, Queue, Among
  <2>3. \A q \in Members(pending') : q \in Members(pending)
    BY <2>1
  <2> QED BY <2>1, <2>2, <2>3, CallDecided
<1>4. ASSUME NEW c \in DOMAIN calls, NEW usage \in usages, Response(c, usage)
      PROVE  DecisionsInv(requests)'
  <2>1. /\ c \in 1 .. Len(calls) /\ Len(calls') = Len(calls)
        /\ \A d \in 1 .. Len(calls) : d # c => calls'[d] = calls[d]
        /\ calls'[c].asked = calls[c].asked /\ calls'[c].patched = calls[c].patched
        /\ Members(pending') \subseteq Members(pending)
    BY <1>4, AnswerTakes
  <2>2. \A d \in 1 .. Len(calls') : Among(calls'[d].asked, requests)
    BY <2>1 DEF DecisionsInv
  <2>3. ASSUME NEW q \in Members(pending') PROVE DecisionOf(q, calls'[q.key])
    <3>1. q \in Members(pending)
      BY <2>1
    <3>2. q.key \in 1 .. Len(calls)
      BY <3>1 DEF Inv, Queue, Members
    <3>3. DecisionOf(q, calls[q.key])
      BY <3>1 DEF DecisionsInv
    <3>4. CASE q.key = c
      BY <3>3, <3>4, <2>1 DEF DecisionOf
    <3>5. CASE q.key # c
      BY <3>2, <3>3, <3>5, <2>1
    <3> QED BY <3>4, <3>5
  <2> QED BY <2>2, <2>3 DEF DecisionsInv
<1> QED
  BY <1>1, <1>2, <1>3, <1>4, Zenon DEF PluginNext, pluginVars

--------------------
(* Traffic whose clocks make sense: a response begins after its request was sent. *)

SentInTime(r) == r.sent = Untimed \/ r.sent \in Int
AnsweredInTime(usage) == usage.first = Unknown \/ usage.first \in Nat \ {0}

LEMMA WritesAreInTime ==
  ASSUME NEW r, SentInTime(r), AnsweredInTime(r.usage), Writes(r)
  PROVE  InTime(r)
<1>1. r.sent \in Int
  BY DEF SentInTime, Writes
<1>2. PICK wait \in Nat \ {0} : VisibleAt(r) = r.sent + wait
  BY MonitorAssumption DEF AnsweredInTime, VisibleAt
<1> QED
  BY <1>1, <1>2 DEF InTime

\* The steps of the monitor: what is written, is written in time.
LEMMA TimedSteps ==
  ASSUME NEW requests, NEW usages,
         \A r \in requests : IsRequest(r) /\ SentInTime(r) /\ AnsweredInTime(r.usage),
         \A u \in usages : u = Absent \/ AnsweredInTime(u),
         Inv, DecisionsInv(requests),
         [PluginNext(requests, usages)]_<<monitorVars, pluginVars>>
  PROVE  \/ UNCHANGED monitorVars
         \/ \E r : \E shape, usage \in BOOLEAN :
              /\ shape => HasSegs(r)
              /\ usage /\ Writes(r) => InTime(r)
              /\ Observes(r, shape, usage)
         \/ \E scope, code : Clear(scope, code)
<1>1. CASE UNCHANGED <<monitorVars, pluginVars>>
  BY <1>1
<1>2. ASSUME NEW r \in requests, PreCall(r)
      PROVE  \E q : HasSegs(q) /\ Observes(q, TRUE, FALSE)
  BY <1>2, PreCallBinds, ShapeShown
<1>3. ASSUME NEW r \in requests, FailOpen(r) PROVE UNCHANGED monitorVars
  BY <1>3 DEF FailOpen
<1>4. ASSUME NEW c \in DOMAIN calls, NEW usage \in usages, Response(c, usage)
      PROVE  \/ UNCHANGED monitorVars
             \/ \E q : (Writes(q) => InTime(q)) /\ Observes(q, FALSE, TRUE)
  <2>1. CASE ~Has(pending, c) \/ usage = Absent
    BY <1>4, <2>1, Zenon DEF Response
  <2>2. CASE Has(pending, c) /\ usage # Absent
    <3>1. PICK decision : decision = Recall(pending, c)
      OBVIOUS
    <3>2. PICK q : q = AnsweredAs(decision, usage)
      OBVIOUS
    <3>3. ObserveUsage(q)
      BY <1>4, <2>2, <3>1, <3>2, Zenon DEF Response
    <3>4. Queue(pending, Len(calls)) /\ Len(calls) \in Nat
      BY DEF Inv, Sequence
    <3>5. decision \in Members(pending) /\ decision.key = c
      BY <2>2, <3>1, <3>4, TakenMembers
    <3>6. c \in 1 .. Len(calls)
      BY DEF Inv, Sequence
    <3>7. RequestFields \subseteq DOMAIN decision.r /\ decision.r.sent = calls[c].asked.sent
      BY <3>5 DEF DecisionsInv, DecisionOf, RequestFields
    <3>8. \E r \in requests : calls[c].asked.sent = r.sent
      BY <3>6 DEF DecisionsInv, Among
    <3>9. q.sent = decision.r.sent /\ q.usage = usage
      BY <3>2, <3>7 DEF AnsweredAs, RequestFields
    <3>10. SentInTime(q) /\ AnsweredInTime(q.usage)
      BY <1>4, <2>2, <3>7, <3>8, <3>9 DEF SentInTime
    <3>11. Observes(q, FALSE, TRUE)
      BY <3>3, ObservesIs DEF ObserveUsage
    <3> QED BY <3>10, <3>11, WritesAreInTime
  <2> QED BY <2>1, <2>2
<1>5. ASSUME NEW r \in requests, Observe(r)
      PROVE  HasSegs(r) /\ (Writes(r) => InTime(r)) /\ Observes(r, TRUE, TRUE)
  BY <1>5, ObservesIs, WritesAreInTime DEF Observe, IsRequest, HasSegs, Sequence
<1>6. TRUE \in BOOLEAN /\ FALSE \in BOOLEAN
  OBVIOUS
<1> QED
  BY <1>1, <1>2, <1>3, <1>4, <1>5, <1>6 DEF PluginNext

LEMMA FanoutStays ==
  ASSUME FanoutInv(table, log, raised),
         \/ UNCHANGED monitorVars
         \/ \E r : \E shape, usage \in BOOLEAN :
              /\ shape => HasSegs(r)
              /\ usage /\ Writes(r) => InTime(r)
              /\ Observes(r, shape, usage)
         \/ \E scope, code : Clear(scope, code)
  PROVE  FanoutInv(table, log, raised)'
<1>1. CASE UNCHANGED monitorVars
  BY <1>1 DEF monitorVars
<1>2. ASSUME NEW r, NEW shape \in BOOLEAN, NEW usage \in BOOLEAN, shape => HasSegs(r),
             usage /\ Writes(r) => InTime(r), Observes(r, shape, usage)
      PROVE  FanoutInv(table, log, raised)'
  <2>1. PICK e : e = Entry(r, shape, usage)
    OBVIOUS
  <2>2. e.r = r /\ e.shape = shape /\ e.usage = usage
    BY <2>1 DEF Entry
  <2>3. /\ table' = Observing(table, e.r, e.shape, e.usage).table /\ log' = Append(log, e)
        /\ raised' = raised \o Observing(table, e.r, e.shape, e.usage).new
    BY <1>2, <2>1, <2>2 DEF Observes
  <2>4. /\ e.shape \in BOOLEAN /\ e.usage \in BOOLEAN /\ (e.shape => HasSegs(e.r))
        /\ (e.usage /\ Writes(e.r) => InTime(e.r))
    BY <1>2, <2>2
  <2>5. FanoutInv(Observing(table, e.r, e.shape, e.usage).table, Append(log, e),
                  raised \o Observing(table, e.r, e.shape, e.usage).new)
    BY <2>4, FanoutKept
  <2> QED
    BY <2>3, <2>5
<1>3. ASSUME NEW scope, NEW code, Clear(scope, code) PROVE FanoutInv(table, log, raised)'
  <2>1. /\ OnlyFired(table', table) /\ UNCHANGED <<log, raised>>
        /\ \A s \in Members(table.order) : Firing(table', s) \subseteq Firing(table, s)
    BY <1>3, ClearIs DEF FanoutInv, ScopesInv
  <2>2. ScopesInv(table', log')
    BY <2>1, RecencyKept DEF FanoutInv
  <2>3. \A s \in Members(table.order) : table'.state[s].writes = table.state[s].writes
    BY <2>1 DEF OnlyFired, Same, StateFields
  <2>4. table'.order = table.order
    BY <2>1 DEF OnlyFired
  <2>5. AllFiringRaised(table', raised')
    BY <2>1, <2>4 DEF FanoutInv, AllFiringRaised, Firing
  <2>6. WindowsHold(table', log')
    BY <2>1, <2>3, <2>4 DEF FanoutInv, WindowsHold
  <2> QED
    BY <2>1, <2>2, <2>5, <2>6 DEF FanoutInv
<1> QED
  BY <1>1, <1>2, <1>3

LEMMA FanoutStarts == MonitorInit => FanoutInv(table, log, raised)
<1> SUFFICES ASSUME MonitorInit PROVE FanoutInv(table, log, raised)
  OBVIOUS
<1>1. ScopesInv(table, log)
  BY MonitorStarts DEF MonitorInv
<1>2. log = <<>> /\ raised = <<>> /\ table.order = <<>>
  BY DEF MonitorInit
<1>3. Members(<<>>) = {} /\ Sequence(<<>>)
  BY EmptyIs DEF Members
<1>4. WritersOf(<<>>) = {}
  BY EmptyIs DEF WritersOf
<1>5. \A pool, prefix : ~Clash(<<>>, pool, prefix)
  BY <1>4 DEF Clash, PoolWriters
<1> QED
  BY <1>1, <1>2, <1>3, <1>4, <1>5
     DEF FanoutInv, AllFiringRaised, WritesInTime, WindowsHold, FanoutKnown

LEMMA FanoutSaysSo == FanoutInv(table, log, raised) => RuntimeSeesFanout
<1> SUFFICES ASSUME FanoutInv(table, log, raised), AllWritesHeld,
                    NEW k \in DOMAIN log, log[k].usage, Writes(log[k].r)
             PROVE  LET pool == PoolOf(log[k].r)  prefix == PrefixKey(log[k].r)
                    IN /\ FanoutRaised(pool, prefix) <=> Overlap(pool, prefix)
                       /\ FannedOut(pool, prefix) => FanoutRaised(pool, prefix)
  BY DEF RuntimeSeesFanout
<1> DEFINE pool == PoolOf(log[k].r)
           prefix == PrefixKey(log[k].r)
<1>1. Sequence(log) /\ DOMAIN log = 1 .. Len(log) /\ Len(log) \in Nat
  BY DEF FanoutInv, ScopesInv, Sequence
<1>2. {i \in DOMAIN log : log[i].usage /\ Writes(log[i].r)} = WritersOf(log)
  BY <1>1 DEF WritersOf
<1>3. ToSet(Touches) = TouchedBy(log)
  BY <1>1, TouchesAre
<1>4. AllHeld(log)
  BY <1>2, <1>3 DEF AllWritesHeld, NothingForgotten, AllHeld, AllKept
<1>5. FanoutRaised(pool, prefix) <=> FanoutAlert(pool, prefix) \in Members(raised)
  BY DEF FanoutRaised, FanoutAlert, Contains, Members
<1>6. FanoutAlert(pool, prefix) \in Members(raised) <=> Clash(log, pool, prefix)
  BY <1>4 DEF FanoutInv, FanoutKnown
<1> HIDE DEF pool, prefix
<1>7. \A i : /\ i \in Sharing(pool, prefix) /\ Writes(log[i].r)
             <=> i \in PoolWriters(log, pool) /\ PrefixKey(log[i].r) = prefix
  BY <1>1 DEF Sharing, PoolWriters, WritersOf, Writes
<1>8. \A i \in PoolWriters(log, pool) : InTime(log[i].r) /\ i \in Nat
  BY <1>1 DEF FanoutInv, WritesInTime, PoolWriters, WritersOf
<1>9. ASSUME Overlap(pool, prefix) PROVE Clash(log, pool, prefix)
  <2>1. PICK i, j \in Sharing(pool, prefix) : WroteUnseen(i, j)
    BY <1>9 DEF Overlap
  <2>2. /\ i \in PoolWriters(log, pool) /\ j \in PoolWriters(log, pool)
        /\ PrefixKey(log[i].r) = prefix /\ PrefixKey(log[j].r) = prefix
    BY <1>7, <2>1 DEF WroteUnseen
  <2>3. PICK a, b, c, d : /\ a = log[i].r.sent /\ b = VisibleAt(log[i].r)
                          /\ c = log[j].r.sent /\ d = VisibleAt(log[j].r)
    OBVIOUS
  <2>4. a \in Int /\ b \in Int /\ c \in Int /\ d \in Int /\ a < b /\ c < d /\ i \in Nat /\ j \in Nat
    BY <1>8, <2>2, <2>3 DEF InTime
  <2>5. (a < c \/ (a = c /\ i < j)) /\ c < b
    BY <2>1, <2>3 DEF WroteUnseen, SentBefore
  <2>6. Apart(log[i].r, log[j].r) /\ Apart(log[j].r, log[i].r)
    BY <2>3, <2>4, <2>5 DEF Apart
  <2>7. i < j \/ j < i
    BY <2>4, <2>5, <2>3
  <2> QED BY <2>2, <2>6, <2>7 DEF Clash
<1>10. ASSUME Clash(log, pool, prefix) PROVE Overlap(pool, prefix)
  <2>1. PICK i, j \in PoolWriters(log, pool) :
          /\ i < j /\ PrefixKey(log[i].r) = prefix /\ PrefixKey(log[j].r) = prefix
          /\ Apart(log[i].r, log[j].r)
    BY <1>10 DEF Clash
  <2>2. /\ i \in Sharing(pool, prefix) /\ j \in Sharing(pool, prefix)
        /\ Writes(log[i].r) /\ Writes(log[j].r)
    BY <1>7, <2>1
  <2>3. PICK a, b, c, d : /\ a = log[i].r.sent /\ b = VisibleAt(log[i].r)
                          /\ c = log[j].r.sent /\ d = VisibleAt(log[j].r)
    OBVIOUS
  <2>4. a \in Int /\ b \in Int /\ c \in Int /\ d \in Int
    BY <1>8, <2>3 DEF InTime
  <2>5. a < d /\ c < b
    BY <2>1, <2>3 DEF Apart
  <2>6. CASE a <= c
    <3>1. SentBefore(i, j)
      BY <2>1, <2>3, <2>4, <2>6 DEF SentBefore
    <3> QED BY <3>1, <2>2, <2>3, <2>5 DEF WroteUnseen, Overlap
  <2>7. CASE c < a
    <3>1. SentBefore(j, i)
      BY <2>3, <2>7 DEF SentBefore
    <3> QED BY <3>1, <2>2, <2>3, <2>5 DEF WroteUnseen, Overlap
  <2> QED BY <2>4, <2>6, <2>7
<1>11. FannedOut(pool, prefix) => Overlap(pool, prefix)
  BY DEF FannedOut, Overlap
<1>12. /\ FanoutRaised(pool, prefix) <=> Overlap(pool, prefix)
       /\ FannedOut(pool, prefix) => FanoutRaised(pool, prefix)
  BY <1>5, <1>6, <1>9, <1>10, <1>11
<1> QED
  BY <1>12 DEF pool, prefix

\* Whatever order requests are sent in and responses come in, as long as no response
\* begins before its request was sent: RT-FANOUT was raised for exactly the prefixes
\* two requests wrote of which neither could read the other's entry (concurrent_writers,
\* on what _track_usage keeps), however often alerts were cleared, and so for every
\* prefix FAN-1 finds.
THEOREM FanoutIsSeen ==
  ASSUME NEW CONSTANT configs, NEW CONSTANT requests, NEW CONSTANT usages,
         \A r \in requests : IsRequest(r) /\ SentInTime(r) /\ AnsweredInTime(r.usage),
         \A u \in usages : u = Absent \/ AnsweredInTime(u)
  PROVE  PluginSpec(configs, requests, usages) => []RuntimeSeesFanout
<1> DEFINE IInv == Inv /\ DecisionsInv(requests) /\ FanoutInv(table, log, raised)
<1>1. PluginInit(configs) => IInv
  <2> SUFFICES ASSUME PluginInit(configs) PROVE IInv
    OBVIOUS
  <2>1. Inv /\ FanoutInv(table, log, raised)
    BY InitInv, FanoutStarts DEF PluginInit
  <2>2. DecisionsInv(requests)
    BY EmptyIs DEF PluginInit, DecisionsInv, Members
  <2> QED BY <2>1, <2>2
<1>2. IInv /\ [PluginNext(requests, usages)]_<<monitorVars, pluginVars>> => IInv'
  <2> SUFFICES ASSUME IInv, [PluginNext(requests, usages)]_<<monitorVars, pluginVars>> PROVE IInv'
    OBVIOUS
  <2>1. Inv'
    BY NextInv
  <2>2. DecisionsInv(requests)'
    BY DecisionsStep
  <2>3. FanoutInv(table, log, raised)'
    <3>1. \/ UNCHANGED monitorVars
          \/ \E r : \E shape, usage \in BOOLEAN :
               /\ shape => HasSegs(r)
               /\ usage /\ Writes(r) => InTime(r)
               /\ Observes(r, shape, usage)
          \/ \E scope, code : Clear(scope, code)
      BY TimedSteps
    <3> QED BY <3>1, FanoutStays
  <2> QED BY <2>1, <2>2, <2>3
<1>3. IInv => RuntimeSeesFanout
  BY FanoutSaysSo
<1> QED
  BY <1>1, <1>2, <1>3, PTL DEF PluginSpec

--------------------
(* Sums of a sequence.                                                           *)

IsSum(sum, terms, n) ==
  sum = [i \in 0 .. n |-> IF i = 0 THEN 0 ELSE sum[i - 1] + terms[i]]

LEMMA SumExists ==
  ASSUME NEW terms, NEW n \in Nat
  PROVE  \E sum : IsSum(sum, terms, n)
<1> DEFINE Reached == {m \in Nat : \E sum : IsSum(sum, terms, m)}
<1>1. 0 \in Reached
  <2>1. [i \in 0 .. 0 |-> 0] = [i \in 0 .. 0 |-> IF i = 0 THEN 0 ELSE [k \in 0 .. 0 |-> 0][i - 1] + terms[i]]
    OBVIOUS
  <2> QED
    BY <2>1 DEF IsSum
<1>2. ASSUME NEW m \in Nat, m \in Reached PROVE m + 1 \in Reached
  <2>1. PICK sum : IsSum(sum, terms, m)
    BY <1>2
  <2>2. PICK last : last = sum[m] + terms[m + 1]
    OBVIOUS
  <2>3. PICK more : more = [i \in 0 .. m + 1 |-> IF i = m + 1 THEN last ELSE sum[i]]
    OBVIOUS
  <2>4. sum = [i \in 0 .. m |-> IF i = 0 THEN 0 ELSE sum[i - 1] + terms[i]]
    BY <2>1 DEF IsSum
  <2>5. \A i \in 0 .. m + 1 : more[i] = IF i = 0 THEN 0 ELSE more[i - 1] + terms[i]
    <3> SUFFICES ASSUME NEW i \in 0 .. m + 1
                 PROVE  more[i] = IF i = 0 THEN 0 ELSE more[i - 1] + terms[i]
      OBVIOUS
    <3>1. CASE i = m + 1
      <4>1. i # 0 /\ i - 1 = m /\ m \in 0 .. m + 1 /\ m # m + 1
        BY <3>1
      <4>2. more[i] = last /\ more[i - 1] = sum[m]
        BY <2>3, <3>1, <4>1
      <4> QED BY <4>1, <4>2, <2>2, <3>1
    <3>2. CASE i # m + 1
      <4>1. i \in 0 .. m /\ more[i] = sum[i]
        BY <2>3, <3>2
      <4>2. i # 0 => i - 1 \in 0 .. m /\ i - 1 # m + 1 /\ i - 1 \in 0 .. m + 1
        BY <4>1
      <4>3. i # 0 => more[i - 1] = sum[i - 1]
        BY <2>3, <4>2
      <4>4. sum[i] = IF i = 0 THEN 0 ELSE sum[i - 1] + terms[i]
        BY <2>4, <4>1
      <4> QED BY <4>1, <4>3, <4>4
    <3> QED BY <3>1, <3>2
  <2>6. more = [i \in 0 .. m + 1 |-> more[i]]
    BY <2>3
  <2>7. IsSum(more, terms, m + 1)
    BY <2>5, <2>6 DEF IsSum
  <2> QED
    BY <2>7
<1> HIDE DEF Reached
<1>3. Nat \subseteq Reached
  BY <1>1, <1>2, NatSetInduction
<1> QED
  BY <1>3 DEF Reached

\* Sums of terms that agree as far as both go, agree as far.
LEMMA SumsAgree ==
  ASSUME NEW n \in Nat, NEW m \in Nat, NEW f, NEW g, NEW a, NEW b,
         IsSum(a, f, n), IsSum(b, g, m), m <= n, \A i \in 1 .. m : f[i] = g[i]
  PROVE  a[m] = b[m]
<1> DEFINE Agreed == {i \in 0 .. m : a[i] = b[i]}
<1>1. /\ a = [i \in 0 .. n |-> IF i = 0 THEN 0 ELSE a[i - 1] + f[i]]
      /\ b = [i \in 0 .. m |-> IF i = 0 THEN 0 ELSE b[i - 1] + g[i]]
  BY DEF IsSum
<1>2. 0 \in Agreed
  <2>1. 0 \in 0 .. n /\ 0 \in 0 .. m
    OBVIOUS
  <2> QED BY <1>1, <2>1
<1>3. ASSUME NEW i \in 0 .. m - 1, i \in Agreed PROVE i + 1 \in Agreed
  <2>1. i + 1 \in 0 .. n /\ i + 1 \in 0 .. m /\ i + 1 # 0 /\ (i + 1) - 1 = i /\ i + 1 \in 1 .. m
    OBVIOUS
  <2>2. a[i + 1] = a[i] + f[i + 1] /\ b[i + 1] = b[i] + g[i + 1]
    BY <1>1, <2>1
  <2> QED BY <1>3, <2>1, <2>2
<1> HIDE DEF Agreed
<1>4. 0 .. m \subseteq Agreed
  BY <1>2, <1>3, UpToInduction
<1>5. m \in 0 .. m
  OBVIOUS
<1> QED
  BY <1>4, <1>5 DEF Agreed

LEMMA ShorterSum ==
  ASSUME NEW n \in Nat, NEW m \in Nat, n <= m, NEW terms,
         NEW a, IsSum(a, terms, n), NEW b, IsSum(b, terms, m)
  PROVE  b[n] = a[n]
BY SumsAgree

LEMMA SumToIs ==
  ASSUME NEW n \in Nat, NEW terms
  PROVE  \E sum : IsSum(sum, terms, n) /\ SumTo(n, terms) = sum[n]
<1> DEFINE sum == CHOOSE sum : IsSum(sum, terms, n)
<1>1. IsSum(sum, terms, n)
  BY SumExists, Zenon
<1>2. SumTo(n, terms) = sum[n]
  BY Zenon DEF SumTo, IsSum
<1> QED
  BY <1>1, <1>2

LEMMA SumSame ==
  ASSUME NEW n \in Nat, NEW f, NEW g, \A i \in 1 .. n : f[i] = g[i]
  PROVE  SumTo(n, f) = SumTo(n, g)
<1>1. PICK a : IsSum(a, f, n) /\ SumTo(n, f) = a[n]
  BY SumToIs
<1>2. PICK b : IsSum(b, g, n) /\ SumTo(n, g) = b[n]
  BY SumToIs
<1> QED
  BY <1>1, <1>2, SumsAgree

LEMMA SumStep ==
  ASSUME NEW n \in Nat, NEW m, m = n + 1, NEW terms
  PROVE  SumTo(0, terms) = 0 /\ SumTo(m, terms) = SumTo(n, terms) + terms[m]
<1>1. PICK a : IsSum(a, terms, n) /\ SumTo(n, terms) = a[n]
  BY SumToIs
<1>2. m \in Nat
  OBVIOUS
<1>3. PICK b : IsSum(b, terms, m) /\ SumTo(m, terms) = b[m]
  BY <1>2, SumToIs
<1>4. PICK c : IsSum(c, terms, 0) /\ SumTo(0, terms) = c[0]
  BY SumToIs
<1>5. b[n] = a[n]
  <2>1. n <= m
    OBVIOUS
  <2> QED BY <1>1, <1>2, <1>3, <2>1, ShorterSum
<1>6. b[m] = b[n] + terms[m]
  <2>1. m \in 0 .. m /\ m # 0 /\ m - 1 = n
    OBVIOUS
  <2> QED BY <1>3, <2>1 DEF IsSum
<1>7. c[0] = 0
  <2>1. 0 \in 0 .. 0
    OBVIOUS
  <2> QED BY <1>4, <2>1 DEF IsSum
<1> QED
  BY <1>1, <1>3, <1>4, <1>5, <1>6, <1>7

LEMMA SumType ==
  ASSUME NEW n \in Nat, NEW terms, \A i \in 1 .. n : terms[i] \in Int
  PROVE  SumTo(n, terms) \in Int
<1> DEFINE Fine == {i \in 0 .. n : SumTo(i, terms) \in Int}
<1>1. 0 \in Fine
  BY SumStep
<1>2. ASSUME NEW i \in 0 .. n - 1, i \in Fine PROVE i + 1 \in Fine
  <2>1. PICK m : m = i + 1
    OBVIOUS
  <2>2. i \in Nat /\ m \in 1 .. n /\ m \in 0 .. n
    BY <2>1
  <2>3. SumTo(m, terms) = SumTo(i, terms) + terms[m]
    BY <2>1, <2>2, SumStep
  <2> QED BY <1>2, <2>1, <2>2, <2>3
<1> HIDE DEF Fine
<1>3. 0 .. n \subseteq Fine
  BY <1>1, <1>2, UpToInduction
<1>4. n \in 0 .. n
  OBVIOUS
<1> QED
  BY <1>3, <1>4 DEF Fine

\* One term changes.
LEMMA SumChanges ==
  ASSUME NEW n \in Nat, NEW f, NEW g, \A i \in 1 .. n : f[i] \in Int,
         NEW c \in 1 .. n, NEW x \in Int, g[c] = f[c] + x, \A i \in 1 .. n : i # c => g[i] = f[i]
  PROVE  SumTo(n, g) = SumTo(n, f) + x
<1> DEFINE Fine == {i \in 0 .. n : SumTo(i, g) = SumTo(i, f) + (IF i >= c THEN x ELSE 0)}
<1>1. 0 \in Fine
  BY SumStep
<1>2. ASSUME NEW i \in 0 .. n - 1, i \in Fine PROVE i + 1 \in Fine
  <2>1. PICK m : m = i + 1
    OBVIOUS
  <2>2. i \in Nat /\ m \in 1 .. n /\ m \in 0 .. n
    BY <2>1
  <2>3. SumTo(m, f) = SumTo(i, f) + f[m] /\ SumTo(m, g) = SumTo(i, g) + g[m]
    BY <2>1, <2>2, SumStep
  <2>4. \A k \in 1 .. i : f[k] \in Int
    OBVIOUS
  <2>5. SumTo(i, f) \in Int /\ f[m] \in Int
    BY <2>2, <2>4, SumType
  <2>6. SumTo(i, g) = SumTo(i, f) + (IF i >= c THEN x ELSE 0)
    BY <1>2
  <2>7. PICK s : s = SumTo(i, f)
    OBVIOUS
  <2>8. CASE m = c
    <3>1. g[m] = f[m] + x /\ ~(i >= c) /\ m >= c
      BY <2>1, <2>8
    <3>2. SumTo(m, g) = SumTo(m, f) + x
      BY <2>3, <2>5, <2>6, <3>1
    <3> QED BY <2>1, <2>2, <3>1, <3>2
  <2>9. CASE m # c
    <3>1. g[m] = f[m] /\ (i >= c <=> m >= c)
      BY <2>1, <2>2, <2>9
    <3>2. SumTo(m, g) = SumTo(m, f) + (IF m >= c THEN x ELSE 0)
      BY <2>3, <2>5, <2>6, <3>1
    <3> QED BY <2>1, <2>2, <3>2
  <2> QED BY <2>8, <2>9
<1> HIDE DEF Fine
<1>3. 0 .. n \subseteq Fine
  BY <1>1, <1>2, UpToInduction
<1>4. n \in 0 .. n /\ n >= c
  OBVIOUS
<1> QED
  BY <1>3, <1>4 DEF Fine

--------------------
(* What the plugin credits.                                                      *)

PoolsOf(cs) == {PoolOf(cs[c].asked) : c \in 1 .. Len(cs)}

\* The calls of a pool that went out marked and were answered with a usage.
Credited(cs, pool) ==
  {c \in 1 .. Len(cs) : /\ PoolOf(cs[c].asked) = pool /\ cs[c].patched
                        /\ cs[c].answer = "used" /\ cs[c].usage # Absent}

ReadTerms(cs, pool) == [c \in 1 .. Len(cs) |-> IF c \in Credited(cs, pool) THEN cs[c].usage.read ELSE 0]
WriteTerms(cs, pool) == [c \in 1 .. Len(cs) |-> IF c \in Credited(cs, pool) THEN cs[c].usage.write ELSE 0]

Tallied(count, cs, pool) ==
  /\ count.placed = Cardinality(Credited(cs, pool))
  /\ count.read = Cardinality({c \in Credited(cs, pool) : cs[c].usage.read > 0})
  /\ count.readTokens = SumTo(Len(cs), ReadTerms(cs, pool))
  /\ count.writeTokens = SumTo(Len(cs), WriteTerms(cs, pool))

CountIn(credits, pool) == IF pool \in DOMAIN credits.counts THEN credits.counts[pool] ELSE NoCounts

EffectKept(credits, cs) ==
  /\ IsOrder(credits.order, MaxScopes) /\ DOMAIN credits.counts = Members(credits.order)
  /\ Members(credits.order) \subseteq PoolsOf(cs)
  /\ Cardinality(PoolsOf(cs)) <= MaxScopes =>
       \A pool : Tallied(CountIn(credits, pool), cs, pool)

\* Answers are counts of tokens.
Counts(usage) == usage.read \in Int /\ usage.write \in Int
AnswersCount(cs) ==
  \A c \in 1 .. Len(cs) : cs[c].answer = "used" => cs[c].usage = Absent \/ Counts(cs[c].usage)

LEMMA PoolsAre ==
  ASSUME NEW cs, Len(cs) \in Nat
  PROVE  IsFiniteSet(PoolsOf(cs)) /\ Cardinality(PoolsOf(cs)) \in Nat
<1>1. IsFiniteSet(1 .. Len(cs))
  <2>1. 1 \in Int /\ Len(cs) \in Int
    OBVIOUS
  <2> QED BY <2>1, FS_Interval
<1>2. PICK f : f = [c \in 1 .. Len(cs) |-> PoolOf(cs[c].asked)]
  OBVIOUS
<1>3. PoolsOf(cs) = {f[c] : c \in 1 .. Len(cs)}
  BY <1>2 DEF PoolsOf
<1> QED
  BY <1>1, <1>3, ImageIsFinite, FS_CardinalityType

LEMMA CreditedAre ==
  ASSUME NEW cs, Len(cs) \in Nat, AnswersCount(cs), NEW pool
  PROVE  /\ IsFiniteSet(Credited(cs, pool)) /\ Credited(cs, pool) \subseteq 1 .. Len(cs)
         /\ \A c \in 1 .. Len(cs) : ReadTerms(cs, pool)[c] \in Int /\ WriteTerms(cs, pool)[c] \in Int
<1>1. IsFiniteSet(1 .. Len(cs))
  <2>1. 1 \in Int /\ Len(cs) \in Int
    OBVIOUS
  <2> QED BY <2>1, FS_Interval
<1>2. Credited(cs, pool) \subseteq 1 .. Len(cs)
  BY DEF Credited
<1>3. ASSUME NEW c \in Credited(cs, pool) PROVE Counts(cs[c].usage)
  BY DEF Credited, AnswersCount
<1>4. \A c \in 1 .. Len(cs) : ReadTerms(cs, pool)[c] \in Int /\ WriteTerms(cs, pool)[c] \in Int
  BY <1>3 DEF ReadTerms, WriteTerms, Counts
<1> QED
  BY <1>1, <1>2, <1>4, FS_Subset

\* A call that was not answered adds nothing.
LEMMA CallTallied ==
  ASSUME NEW cs, Sequence(cs), AnswersCount(cs), NEW call, call.answer # "used",
         NEW pool, NEW count, Tallied(count, cs, pool)
  PROVE  Tallied(count, Append(cs, call), pool)
<1>1. PICK more : more = Append(cs, call)
  OBVIOUS
<1>2. PICK n : n = Len(cs)
  OBVIOUS
<1>3. PICK m : m = n + 1
  OBVIOUS
<1>4. /\ n \in Nat /\ Len(more) = m /\ (\A c \in 1 .. n : more[c] = cs[c])
      /\ more[m] = call
  BY <1>1, <1>2, <1>3, AppendIs DEF Sequence
<1>5. 1 .. m = (1 .. n) \cup {m} /\ m \notin 1 .. n
  BY <1>3, <1>4
<1>6. \A c : c \in Credited(more, pool) <=> c \in Credited(cs, pool)
  <2> SUFFICES ASSUME NEW c PROVE c \in Credited(more, pool) <=> c \in Credited(cs, pool)
    OBVIOUS
  <2>1. CASE c \in 1 .. n
    BY <2>1, <1>2, <1>4, <1>5 DEF Credited
  <2>2. CASE c = m
    BY <2>2, <1>2, <1>4, <1>5 DEF Credited
  <2>3. CASE c \notin 1 .. m
    BY <2>3, <1>2, <1>4, <1>5 DEF Credited
  <2> QED BY <2>1, <2>2, <2>3, <1>5
<1>7. Credited(more, pool) = Credited(cs, pool)
  BY <1>6
<1>8. \A c \in Credited(cs, pool) : more[c] = cs[c]
  BY <1>2, <1>4 DEF Credited
<1>9. {c \in Credited(more, pool) : more[c].usage.read > 0}
        = {c \in Credited(cs, pool) : cs[c].usage.read > 0}
  BY <1>7, <1>8
<1>10. m \notin Credited(more, pool)
  BY <1>5, <1>7, <1>2 DEF Credited
<1>11. PICK f, g : f = ReadTerms(cs, pool) /\ g = ReadTerms(more, pool)
  OBVIOUS
<1>12. SumTo(m, g) = SumTo(n, f)
  <2>1. g[m] = 0 /\ \A c \in 1 .. n : g[c] = f[c]
    BY <1>2, <1>4, <1>5, <1>7, <1>8, <1>10, <1>11 DEF ReadTerms
  <2>2. SumTo(n, g) = SumTo(n, f)
    BY <2>1, <1>4, SumSame
  <2>3. SumTo(m, g) = SumTo(n, g) + g[m]
    BY <1>3, <1>4, SumStep
  <2>4. \A c \in 1 .. n : f[c] \in Int
    BY <1>2, <1>4, <1>11, CreditedAre
  <2>5. SumTo(n, f) \in Int
    BY <2>4, <1>4, SumType
  <2> QED BY <2>1, <2>2, <2>3, <2>5
<1>13. PICK h, k : h = WriteTerms(cs, pool) /\ k = WriteTerms(more, pool)
  OBVIOUS
<1>14. SumTo(m, k) = SumTo(n, h)
  <2>1. k[m] = 0 /\ \A c \in 1 .. n : k[c] = h[c]
    BY <1>2, <1>4, <1>5, <1>7, <1>8, <1>10, <1>13 DEF WriteTerms
  <2>2. SumTo(n, k) = SumTo(n, h)
    BY <2>1, <1>4, SumSame
  <2>3. SumTo(m, k) = SumTo(n, k) + k[m]
    BY <1>3, <1>4, SumStep
  <2>4. \A c \in 1 .. n : h[c] \in Int
    BY <1>2, <1>4, <1>13, CreditedAre
  <2>5. SumTo(n, h) \in Int
    BY <2>4, <1>4, SumType
  <2> QED BY <2>1, <2>2, <2>3, <2>5
<1>15. Tallied(count, more, pool)
  BY <1>2, <1>4, <1>7, <1>9, <1>11, <1>12, <1>13, <1>14 DEF Tallied
<1> QED
  BY <1>1, <1>15

\* An answer changes one call.
AnsweredAt(ds, cs, c) ==
  /\ Sequence(cs) /\ Sequence(ds) /\ Len(ds) = Len(cs) /\ c \in 1 .. Len(cs)
  /\ \A d \in 1 .. Len(cs) : d # c => ds[d] = cs[d]

LEMMA OtherCredits ==
  ASSUME NEW cs, NEW ds, NEW c, AnsweredAt(ds, cs, c), NEW pool, c \notin Credited(cs, pool)
  PROVE  /\ Credited(ds, pool) \ {c} = Credited(cs, pool)
         /\ \A d \in Credited(cs, pool) : ds[d] = cs[d]
         /\ \A d \in 1 .. Len(cs) : d # c => /\ ReadTerms(ds, pool)[d] = ReadTerms(cs, pool)[d]
                                             /\ WriteTerms(ds, pool)[d] = WriteTerms(cs, pool)[d]
         /\ ReadTerms(cs, pool)[c] = 0 /\ WriteTerms(cs, pool)[c] = 0
<1>1. /\ Len(ds) = Len(cs) /\ c \in 1 .. Len(cs)
      /\ \A d \in 1 .. Len(cs) : d # c => ds[d] = cs[d]
  BY DEF AnsweredAt
<1>2. \A d : d # c => (d \in Credited(ds, pool) <=> d \in Credited(cs, pool))
  BY <1>1 DEF Credited
<1>3. Credited(ds, pool) \ {c} = Credited(cs, pool)
  BY <1>2
<1>4. \A d \in Credited(cs, pool) : d \in 1 .. Len(cs) /\ d # c /\ ds[d] = cs[d]
  BY <1>1 DEF Credited
<1>5. \A d \in 1 .. Len(cs) : d # c => /\ ReadTerms(ds, pool)[d] = ReadTerms(cs, pool)[d]
                                       /\ WriteTerms(ds, pool)[d] = WriteTerms(cs, pool)[d]
  BY <1>1, <1>2 DEF ReadTerms, WriteTerms
<1>6. ReadTerms(cs, pool)[c] = 0 /\ WriteTerms(cs, pool)[c] = 0
  BY <1>1 DEF ReadTerms, WriteTerms
<1> QED
  BY <1>3, <1>4, <1>5, <1>6

LEMMA SameTallied ==
  ASSUME NEW cs, NEW ds, NEW c, AnsweredAt(ds, cs, c), NEW pool,
         c \notin Credited(cs, pool), c \notin Credited(ds, pool),
         NEW count, Tallied(count, cs, pool)
  PROVE  Tallied(count, ds, pool)
<1>1. Len(ds) = Len(cs) /\ Len(cs) \in Nat /\ c \in 1 .. Len(cs)
  BY DEF AnsweredAt, Sequence
<1>2. Credited(ds, pool) = Credited(cs, pool)
  BY OtherCredits
<1>3. \A d \in Credited(cs, pool) : ds[d] = cs[d]
  BY OtherCredits
<1>4. {d \in Credited(ds, pool) : ds[d].usage.read > 0}
        = {d \in Credited(cs, pool) : cs[d].usage.read > 0}
  BY <1>2, <1>3
<1>5. ReadTerms(ds, pool) = ReadTerms(cs, pool) /\ WriteTerms(ds, pool) = WriteTerms(cs, pool)
  BY <1>1, <1>2, <1>3 DEF ReadTerms, WriteTerms
<1> QED
  BY <1>1, <1>2, <1>4, <1>5 DEF Tallied

\* One answer more that is credited.
CountMore(count, usage) ==
  [placed |-> count.placed + 1, read |-> count.read + (IF usage.read > 0 THEN 1 ELSE 0),
   readTokens |-> count.readTokens + usage.read, writeTokens |-> count.writeTokens + usage.write]

LEMMA CreditTallied ==
  ASSUME NEW cs, NEW ds, NEW c, AnsweredAt(ds, cs, c), AnswersCount(cs), NEW pool,
         c \notin Credited(cs, pool), c \in Credited(ds, pool), Counts(ds[c].usage),
         NEW count, Tallied(count, cs, pool)
  PROVE  Tallied(CountMore(count, ds[c].usage), ds, pool)
<1>1. Len(ds) = Len(cs) /\ Len(cs) \in Nat /\ c \in 1 .. Len(cs)
  BY DEF AnsweredAt, Sequence
<1>2. PICK usage, now : usage = ds[c].usage /\ now = CountMore(count, usage)
  OBVIOUS
<1>3. /\ now.placed = count.placed + 1
      /\ now.read = count.read + (IF usage.read > 0 THEN 1 ELSE 0)
      /\ now.readTokens = count.readTokens + usage.read
      /\ now.writeTokens = count.writeTokens + usage.write
  BY <1>2 DEF CountMore
<1>4. PICK old, new : old = Credited(cs, pool) /\ new = Credited(ds, pool)
  OBVIOUS
<1>5. /\ new = old \cup {c} /\ c \notin old /\ IsFiniteSet(old)
      /\ \A d \in old : ds[d] = cs[d]
  BY <1>1, <1>4, OtherCredits, CreditedAre
<1>6. Cardinality(new) = Cardinality(old) + 1
  BY <1>5, FS_AddElement
<1>7. PICK hits, more : /\ hits = {d \in old : cs[d].usage.read > 0}
                        /\ more = {d \in new : ds[d].usage.read > 0}
  OBVIOUS
<1>8. more = IF usage.read > 0 THEN hits \cup {c} ELSE hits
  BY <1>2, <1>5, <1>7
<1>9. IsFiniteSet(hits) /\ c \notin hits /\ Cardinality(hits) \in Nat
  <2>1. hits \subseteq old
    BY <1>7
  <2> QED BY <2>1, <1>5, FS_Subset, FS_CardinalityType
<1>10. Cardinality(more) = Cardinality(hits) + (IF usage.read > 0 THEN 1 ELSE 0)
  <2>1. CASE usage.read > 0
    BY <2>1, <1>8, <1>9, FS_AddElement
  <2>2. CASE ~(usage.read > 0)
    BY <2>2, <1>8, <1>9
  <2> QED BY <2>1, <2>2
<1>11. usage.read \in Int /\ usage.write \in Int
  BY <1>2 DEF Counts
<1>12. PICK f, g : f = ReadTerms(cs, pool) /\ g = ReadTerms(ds, pool)
  OBVIOUS
<1>13. SumTo(Len(cs), g) = SumTo(Len(cs), f) + usage.read
  <2>1. g[c] = usage.read
    BY <1>1, <1>2, <1>12 DEF ReadTerms
  <2>2. f[c] = 0 /\ \A d \in 1 .. Len(cs) : d # c => g[d] = f[d]
    BY <1>1, <1>12, OtherCredits
  <2>3. \A d \in 1 .. Len(cs) : f[d] \in Int
    BY <1>1, <1>12, CreditedAre
  <2>4. g[c] = f[c] + usage.read
    BY <2>1, <2>2, <1>11
  <2> QED BY <1>1, <1>11, <2>2, <2>3, <2>4, SumChanges
<1>14. PICK h, k : h = WriteTerms(cs, pool) /\ k = WriteTerms(ds, pool)
  OBVIOUS
<1>15. SumTo(Len(cs), k) = SumTo(Len(cs), h) + usage.write
  <2>1. k[c] = usage.write
    BY <1>1, <1>2, <1>14 DEF WriteTerms
  <2>2. h[c] = 0 /\ \A d \in 1 .. Len(cs) : d # c => k[d] = h[d]
    BY <1>1, <1>14, OtherCredits
  <2>3. \A d \in 1 .. Len(cs) : h[d] \in Int
    BY <1>1, <1>14, CreditedAre
  <2>4. k[c] = h[c] + usage.write
    BY <2>1, <2>2, <1>11
  <2> QED BY <1>1, <1>11, <2>2, <2>3, <2>4, SumChanges
<1>16. Tallied(now, ds, pool)
  <2>1. /\ count.placed = Cardinality(old) /\ count.read = Cardinality(hits)
        /\ count.readTokens = SumTo(Len(cs), f) /\ count.writeTokens = SumTo(Len(cs), h)
    BY <1>4, <1>7, <1>12, <1>14 DEF Tallied
  <2>2. now.placed = Cardinality(new)
    BY <1>3, <1>6, <2>1
  <2>3. now.read = Cardinality(more)
    BY <1>3, <1>10, <2>1
  <2>4. now.readTokens = SumTo(Len(cs), g) /\ now.writeTokens = SumTo(Len(cs), k)
    BY <1>3, <1>13, <1>15, <2>1
  <2>5. more = {d \in Credited(ds, pool) : ds[d].usage.read > 0}
    BY <1>4, <1>7
  <2> QED BY <1>1, <1>4, <1>12, <1>14, <2>2, <2>3, <2>4, <2>5 DEF Tallied
<1> QED
  BY <1>2, <1>16

\* The counters after a credit.
LEMMA CreditIs ==
  ASSUME NEW usage, NEW scope, IsOrder(effect.order, MaxScopes),
         DOMAIN effect.counts = Members(effect.order),
         NEW after, after = Credit(scope, usage)
  PROVE  /\ IsOrder(after.order, MaxScopes) /\ DOMAIN after.counts = Members(after.order)
         /\ Members(after.order) \subseteq Members(effect.order) \cup {scope}
         /\ CountIn(after, scope) = CountMore(CountIn(effect, scope), usage)
         /\ \A pool : /\ pool # scope
                      /\ (Members(effect.order) \subseteq Members(after.order)
                           \/ pool \in Members(after.order) \/ pool \notin Members(effect.order))
                      => CountIn(after, pool) = CountIn(effect, pool)
         /\ \/ Members(effect.order) \subseteq Members(after.order)
            \/ scope \notin Members(effect.order) /\ Len(effect.order) = MaxScopes
<1>1. PICK order : order = Touch(effect.order, scope, MaxScopes)
  OBVIOUS
<1>2. PICK now : now = CountMore(CountIn(effect, scope), usage)
  OBVIOUS
<1>3. MaxScopes \in Nat \ {0}
  BY MonitorAssumption
<1>4. TouchedIs(order, effect.order, scope, MaxScopes)
  BY <1>1, <1>3, TouchIs
<1>5. after = [order |-> order, counts |-> [s \in ToSet(order) |-> IF s = scope THEN now ELSE effect.counts[s]]]
  BY <1>1, <1>2 DEF Credit, CountMore, CountIn
<1>6. ToSet(order) = Members(order)
  BY <1>4, MembersAre DEF TouchedIs, IsOrder
<1>7. /\ after.order = order /\ DOMAIN after.counts = Members(order)
      /\ \A s \in Members(order) : after.counts[s] = IF s = scope THEN now ELSE effect.counts[s]
  BY <1>5, <1>6
<1>8. Len(order) \in Nat /\ Len(effect.order) \in Nat
  BY <1>4 DEF TouchedIs, IsOrder, Sequence
<1>9. scope \in Members(order)
  <2>1. Len(order) \in 1 .. Len(order) /\ order[Len(order)] = scope
    BY <1>4, <1>8 DEF TouchedIs
  <2> QED BY <2>1 DEF Members
<1>10. Members(order) \subseteq Members(effect.order) \cup {scope}
  <2> SUFFICES ASSUME NEW i \in 1 .. Len(order)
               PROVE  order[i] \in Members(effect.order) \cup {scope}
    BY DEF Members
  <2>1. CASE i = Len(order)
    BY <2>1, <1>4 DEF TouchedIs
  <2>2. CASE i # Len(order)
    <3>1. i \in 1 .. Len(order) - 1
      BY <2>2, <1>8
    <3>2. \E k \in 1 .. Len(effect.order) : effect.order[k] = order[i]
      BY <3>1, <1>4 DEF TouchedIs
    <3> QED BY <3>2 DEF Members
  <2> QED BY <2>1, <2>2
<1>11. \/ Members(effect.order) \subseteq Members(order)
       \/ scope \notin Members(effect.order) /\ Len(effect.order) = MaxScopes
  BY <1>4 DEF TouchedIs, Members
<1>12. CountIn(after, scope) = now
  BY <1>7, <1>9 DEF CountIn
<1>13. ASSUME NEW pool, pool # scope,
              \/ Members(effect.order) \subseteq Members(order)
              \/ pool \in Members(order) \/ pool \notin Members(effect.order)
       PROVE  CountIn(after, pool) = CountIn(effect, pool)
  <2>1. pool \in Members(order) <=> pool \in Members(effect.order)
    BY <1>10, <1>13
  <2> QED BY <1>7, <1>13, <2>1 DEF CountIn
<1> QED
  BY <1>2, <1>4, <1>7, <1>10, <1>11, <1>12, <1>13 DEF TouchedIs

EffectInv == EffectKept(effect, calls) /\ AnswersCount(calls)

LEMMA CallKeepsEffect ==
  ASSUME Inv, EffectInv, NEW call, call.answer = "none", calls' = Append(calls, call),
         UNCHANGED effect
  PROVE  EffectInv'
<1>1. PICK more : more = Append(calls, call)
  OBVIOUS
<1>2. /\ Sequence(calls) /\ Sequence(more) /\ Len(more) = Len(calls) + 1 /\ Len(calls) \in Nat
      /\ (\A c \in 1 .. Len(calls) : more[c] = calls[c]) /\ more[Len(calls) + 1] = call
  BY <1>1, AppendIs, SMTT(30) DEF Inv, Sequence
<1>3. AnswersCount(more)
  <2> SUFFICES ASSUME NEW c \in 1 .. Len(more), more[c].answer = "used"
               PROVE  more[c].usage = Absent \/ Counts(more[c].usage)
    BY DEF AnswersCount
  <2>1. c # Len(calls) + 1
    BY <1>2
  <2>2. c \in 1 .. Len(calls)
    BY <1>2, <2>1
  <2> QED BY <1>2, <2>2 DEF EffectInv, AnswersCount
<1>4. PoolsOf(calls) \subseteq PoolsOf(more)
  <2> SUFFICES ASSUME NEW c \in 1 .. Len(calls) PROVE PoolOf(calls[c].asked) \in PoolsOf(more)
    BY DEF PoolsOf
  <2>1. c \in 1 .. Len(more) /\ more[c] = calls[c]
    BY <1>2
  <2> QED BY <2>1 DEF PoolsOf
<1>5. /\ IsFiniteSet(PoolsOf(more)) /\ Cardinality(PoolsOf(more)) \in Nat
      /\ Cardinality(PoolsOf(calls)) \in Nat
  <2>1. Len(more) \in Nat
    BY <1>2
  <2> QED BY <1>2, <2>1, PoolsAre
<1>6. Cardinality(PoolsOf(calls)) <= Cardinality(PoolsOf(more))
  BY <1>4, <1>5, FS_Subset
<1>7. ASSUME Cardinality(PoolsOf(more)) <= MaxScopes, NEW pool
      PROVE  Tallied(CountIn(effect, pool), more, pool)
  <2>1. Cardinality(PoolsOf(calls)) <= MaxScopes
    BY <1>5, <1>6, <1>7, MonitorAssumption
  <2>2. Tallied(CountIn(effect, pool), calls, pool)
    BY <2>1 DEF EffectInv, EffectKept
  <2>3. AnswersCount(calls) /\ call.answer # "used"
    BY DEF EffectInv
  <2> QED BY <1>1, <1>2, <2>2, <2>3, CallTallied
<1>8. EffectKept(effect, more)
  BY <1>4, <1>7 DEF EffectInv, EffectKept
<1> QED
  BY <1>1, <1>3, <1>8 DEF EffectInv

\* What an answer makes of the counters.
LEMMA AnswerCredits ==
  ASSUME NEW requests, Inv, DecisionsInv(requests), NEW c \in DOMAIN calls, NEW usage,
         Response(c, usage)
  PROVE  LET pool == PoolOf(calls[c].asked)
             credited == Has(pending, c) /\ calls[c].patched /\ usage # Absent
         IN /\ credited => effect' = Credit(pool, usage)
            /\ ~credited => effect' = effect
<1> DEFINE decision == Recall(pending, c)
           pool == PoolOf(calls[c].asked)
<1>1. CASE Has(pending, c)
  <2>1. effect' = IF Credits(decision, usage) THEN Credit(PoolOf(decision.r), usage) ELSE effect
    BY <1>1, Zenon DEF Response
  <2>2. Queue(pending, Len(calls)) /\ Len(calls) \in Nat
    BY DEF Inv, Sequence
  <2>3. decision \in Members(pending) /\ decision.key = c
    BY <1>1, <2>2, TakenMembers
  <2>4. DecisionOf(decision, calls[c])
    BY <2>3 DEF DecisionsInv
  <2> HIDE DEF decision
  <2>5. /\ decision.r.tenant = calls[c].asked.tenant /\ decision.r.target = calls[c].asked.target
        /\ decision.r.model = calls[c].asked.model
    BY <2>4 DEF DecisionOf, RequestFields
  <2>6. PoolOf(decision.r) = pool
    BY <2>5 DEF PoolOf
  <2>7. Credits(decision, usage) <=> calls[c].patched /\ usage # Absent
    BY <2>4 DEF DecisionOf, Credits
  <2> QED BY <1>1, <2>1, <2>6, <2>7
<1>2. CASE ~Has(pending, c)
  BY <1>2, Zenon DEF Response
<1> QED
  BY <1>1, <1>2

LEMMA AnswerKeepsEffect ==
  ASSUME NEW requests, Inv, DecisionsInv(requests), EffectInv, NEW c \in DOMAIN calls, NEW usage,
         usage = Absent \/ Counts(usage), Response(c, usage)
  PROVE  EffectInv'
<1>1. PICK ds : ds = calls'
  OBVIOUS
<1>2. PICK own : own = PoolOf(calls[c].asked)
  OBVIOUS
<1>3. PICK credited : credited = (Has(pending, c) /\ calls[c].patched /\ usage # Absent)
  OBVIOUS
<1>4. /\ c \in 1 .. Len(calls) /\ Sequence(ds) /\ Len(ds) = Len(calls)
      /\ \A d \in 1 .. Len(calls) : d # c => ds[d] = calls[d]
      /\ calls[c].answer = "none" /\ ds[c].usage = usage
      /\ ds[c].asked = calls[c].asked /\ ds[c].patched = calls[c].patched
      /\ ds[c].answer = IF Has(pending, c) THEN "used" ELSE "lost"
  BY <1>1, AnswerTakes
<1>5. AnsweredAt(ds, calls, c) /\ AnswersCount(calls)
  BY <1>4 DEF AnsweredAt, Inv, EffectInv
<1>6. AnswersCount(ds)
  <2> SUFFICES ASSUME NEW d \in 1 .. Len(ds), ds[d].answer = "used"
               PROVE  ds[d].usage = Absent \/ Counts(ds[d].usage)
    BY DEF AnswersCount
  <2>1. CASE d = c
    BY <2>1, <1>4
  <2>2. CASE d # c
    BY <2>2, <1>4, <1>5 DEF AnswersCount
  <2> QED BY <2>1, <2>2
<1>7. \A d \in 1 .. Len(calls) : ds[d].asked = calls[d].asked
  BY <1>4
<1>8. PoolsOf(ds) = PoolsOf(calls)
  BY <1>4, <1>7 DEF PoolsOf
<1>9. own \in PoolsOf(calls)
  BY <1>2, <1>4 DEF PoolsOf
<1>10. \A pool : c \notin Credited(calls, pool)
  BY <1>4 DEF Credited
<1>11. \A pool : c \in Credited(ds, pool) <=> credited /\ pool = own
  BY <1>2, <1>3, <1>4 DEF Credited
<1>12. (credited => effect' = Credit(own, usage)) /\ (~credited => effect' = effect)
  BY <1>2, <1>3, AnswerCredits
<1>13. CASE ~credited
  <2>1. ASSUME NEW pool, Cardinality(PoolsOf(ds)) <= MaxScopes
        PROVE  Tallied(CountIn(effect, pool), ds, pool)
    <3>1. Tallied(CountIn(effect, pool), calls, pool)
      BY <1>8, <2>1 DEF EffectInv, EffectKept
    <3>2. c \notin Credited(calls, pool) /\ c \notin Credited(ds, pool)
      BY <1>10, <1>11, <1>13
    <3> QED BY <1>5, <3>1, <3>2, SameTallied
  <2>2. EffectKept(effect, ds)
    BY <1>8, <2>1 DEF EffectInv, EffectKept
  <2> QED BY <1>1, <1>6, <1>12, <1>13, <2>2 DEF EffectInv
<1>14. CASE credited
  <2>1. PICK after : after = Credit(own, usage)
    OBVIOUS
  <2>2. IsOrder(effect.order, MaxScopes) /\ DOMAIN effect.counts = Members(effect.order)
        /\ Members(effect.order) \subseteq PoolsOf(calls)
    BY DEF EffectInv, EffectKept
  <2>3. /\ IsOrder(after.order, MaxScopes) /\ DOMAIN after.counts = Members(after.order)
        /\ Members(after.order) \subseteq Members(effect.order) \cup {own}
        /\ CountIn(after, own) = CountMore(CountIn(effect, own), usage)
        /\ \/ Members(effect.order) \subseteq Members(after.order)
           \/ own \notin Members(effect.order) /\ Len(effect.order) = MaxScopes
    BY <2>1, <2>2, CreditIs
  <2>4. \A pool : pool # own /\ Members(effect.order) \subseteq Members(after.order)
                    => CountIn(after, pool) = CountIn(effect, pool)
    BY <2>1, <2>2, CreditIs
  <2>5. ASSUME Cardinality(PoolsOf(calls)) <= MaxScopes
        PROVE  Members(effect.order) \subseteq Members(after.order)
    <3> SUFFICES ASSUME own \notin Members(effect.order), Len(effect.order) = MaxScopes PROVE FALSE
      BY <2>3
    <3>1. Len(effect.order) \in Nat /\ Distinct(effect.order)
      BY <2>2 DEF IsOrder, Sequence
    <3>2. IsFiniteSet(Members(effect.order)) /\ Cardinality(Members(effect.order)) = Len(effect.order)
      BY <3>1, MembersCount
    <3>3. Cardinality(Members(effect.order) \cup {own}) = Len(effect.order) + 1
      BY <3>2, FS_AddElement
    <3>4. Members(effect.order) \cup {own} \subseteq PoolsOf(calls)
      BY <2>2, <1>9
    <3>5. IsFiniteSet(PoolsOf(calls)) /\ Cardinality(PoolsOf(calls)) \in Nat
      BY PoolsAre DEF Inv, Sequence
    <3>6. Cardinality(Members(effect.order) \cup {own}) <= Cardinality(PoolsOf(calls))
      BY <3>4, <3>5, FS_Subset
    <3> QED BY <2>5, <3>1, <3>3, <3>5, <3>6, MonitorAssumption
  <2>6. ASSUME NEW pool, Cardinality(PoolsOf(ds)) <= MaxScopes
        PROVE  Tallied(CountIn(after, pool), ds, pool)
    <3>1. Tallied(CountIn(effect, pool), calls, pool)
      BY <1>8, <2>6 DEF EffectInv, EffectKept
    <3>2. CASE pool = own
      <4>1. c \notin Credited(calls, pool) /\ c \in Credited(ds, pool)
        BY <1>10, <1>11, <1>14, <3>2
      <4>2. Counts(ds[c].usage)
        BY <1>3, <1>4, <1>14
      <4>3. Tallied(CountMore(CountIn(effect, pool), ds[c].usage), ds, pool)
        BY <1>5, <3>1, <4>1, <4>2, CreditTallied
      <4> QED BY <4>3, <1>4, <2>3, <3>2
    <3>3. CASE pool # own
      <4>1. c \notin Credited(calls, pool) /\ c \notin Credited(ds, pool)
        BY <1>10, <1>11, <3>3
      <4>2. Tallied(CountIn(effect, pool), ds, pool)
        BY <1>5, <3>1, <4>1, SameTallied
      <4>3. CountIn(after, pool) = CountIn(effect, pool)
        BY <1>8, <2>4, <2>5, <2>6, <3>3
      <4> QED BY <4>2, <4>3
    <3> QED BY <3>2, <3>3
  <2>7. Members(after.order) \subseteq PoolsOf(ds)
    BY <1>8, <1>9, <2>2, <2>3
  <2>8. EffectKept(after, ds)
    BY <2>3, <2>6, <2>7 DEF EffectKept
  <2> QED BY <1>1, <1>6, <1>12, <1>14, <2>1, <2>8 DEF EffectInv
<1> QED
  BY <1>3, <1>13, <1>14

LEMMA EffectStep ==
  ASSUME NEW requests, NEW usages, \A r \in requests : IsRequest(r),
         \A u \in usages : u = Absent \/ Counts(u),
         Inv, DecisionsInv(requests), EffectInv,
         [PluginNext(requests, usages)]_<<monitorVars, pluginVars>>
  PROVE  EffectInv'
<1>1. ASSUME UNCHANGED <<calls, effect>> PROVE EffectInv'
  BY <1>1 DEF EffectInv
<1>2. ASSUME NEW r \in requests, PreCall(r) PROVE EffectInv'
  <2>1. PICK call : calls' = Append(calls, call) /\ call.answer = "none" /\ UNCHANGED effect
    BY <1>2, PreCallBinds, CallDecides
  <2> QED BY <2>1, CallKeepsEffect
<1>3. ASSUME NEW r \in requests, FailOpen(r) PROVE EffectInv'
  <2>1. PICK call : call = [asked |-> r, shown |-> 0, wire |-> r.segs, placed |-> <<>>,
                            patched |-> FALSE, answer |-> "none", later |-> 0, usage |-> Absent]
    OBVIOUS
  <2>2. call.answer = "none" /\ calls' = Append(calls, call) /\ UNCHANGED effect
    BY <1>3, <2>1 DEF FailOpen
  <2> QED BY <2>2, CallKeepsEffect
<1>4. ASSUME NEW c \in DOMAIN calls, NEW usage \in usages, Response(c, usage) PROVE EffectInv'
  BY <1>4, AnswerKeepsEffect
<1> QED
  BY <1>1, <1>2, <1>3, <1>4, Zenon DEF PluginNext, pluginVars

LEMMA EffectSaysSo == Inv /\ EffectInv => EffectIsMeasured
<1> SUFFICES ASSUME Inv, EffectInv PROVE EffectIsMeasured
  OBVIOUS
<1>1. DOMAIN calls = 1 .. Len(calls)
  BY DEF Inv, Sequence
<1>2. {PoolOf(calls[c].asked) : c \in DOMAIN calls} = PoolsOf(calls)
  BY <1>1 DEF PoolsOf
<1>3. ASSUME Cardinality(PoolsOf(calls)) <= MaxScopes, NEW pool \in PoolsOf(calls)
      PROVE  LET mine == {c \in DOMAIN calls : /\ PoolOf(calls[c].asked) = pool
                                               /\ calls[c].patched
                                               /\ calls[c].answer = "used" /\ calls[c].usage # Absent}
                 count == IF pool \in DOMAIN effect.counts THEN effect.counts[pool] ELSE NoCounts
             IN /\ count.placed = Cardinality(mine)
                /\ count.read = Cardinality({c \in mine : calls[c].usage.read > 0})
                /\ count.readTokens = SumTo(Len(calls), [c \in DOMAIN calls |->
                                         IF c \in mine THEN calls[c].usage.read ELSE 0])
                /\ count.writeTokens = SumTo(Len(calls), [c \in DOMAIN calls |->
                                         IF c \in mine THEN calls[c].usage.write ELSE 0])
  <2>1. Tallied(CountIn(effect, pool), calls, pool)
    BY <1>3 DEF EffectInv, EffectKept
  <2>2. PICK mine : mine = {c \in DOMAIN calls : /\ PoolOf(calls[c].asked) = pool
                                                 /\ calls[c].patched
                                                 /\ calls[c].answer = "used" /\ calls[c].usage # Absent}
    OBVIOUS
  <2>3. mine = Credited(calls, pool)
    BY <1>1, <2>2 DEF Credited
  <2>4. /\ [c \in DOMAIN calls |-> IF c \in mine THEN calls[c].usage.read ELSE 0] = ReadTerms(calls, pool)
        /\ [c \in DOMAIN calls |-> IF c \in mine THEN calls[c].usage.write ELSE 0] = WriteTerms(calls, pool)
    BY <1>1, <2>3 DEF ReadTerms, WriteTerms
  <2> QED BY <2>1, <2>2, <2>3, <2>4 DEF Tallied, CountIn
<1> QED
  BY <1>2, <1>3 DEF EffectIsMeasured

\* Whatever order responses come in, however many never come, come to calls that were
\* not decided upon or come after their decision made room: the counters of a pool
\* (record_usage, effectiveness) are those of its marked and answered calls, each once.
THEOREM EffectsAreMeasured ==
  ASSUME NEW CONSTANT configs, NEW CONSTANT requests, NEW CONSTANT usages,
         \A r \in requests : IsRequest(r), \A u \in usages : u = Absent \/ Counts(u)
  PROVE  PluginSpec(configs, requests, usages) => []EffectIsMeasured
<1> DEFINE IInv == Inv /\ DecisionsInv(requests) /\ EffectInv
<1>1. PluginInit(configs) => IInv
  <2> SUFFICES ASSUME PluginInit(configs) PROVE IInv
    OBVIOUS
  <2>1. Inv
    BY InitInv
  <2>2. calls = <<>> /\ pending = <<>> /\ effect.order = <<>> /\ effect.counts = <<>>
    BY DEF PluginInit
  <2>3. Len(<<>>) = 0 /\ DOMAIN <<>> = {} /\ Members(<<>>) = {} /\ Sequence(<<>>)
    BY EmptyIs DEF Members
  <2>4. DecisionsInv(requests)
    BY <2>2, <2>3 DEF DecisionsInv
  <2>5. AnswersCount(<<>>)
    BY <2>3 DEF AnswersCount
  <2>6. IsOrder(<<>>, MaxScopes)
    BY <2>3, MonitorAssumption DEF IsOrder, Distinct
  <2>7. ASSUME NEW pool PROVE Tallied(CountIn(effect, pool), <<>>, pool)
    <3>1. CountIn(effect, pool) = NoCounts
      BY <2>2, <2>3 DEF CountIn
    <3>2. Credited(<<>>, pool) = {}
      BY <2>3 DEF Credited
    <3>3. Cardinality({}) = 0
      BY FS_EmptySet
    <3>4. \A terms : SumTo(0, terms) = 0
      BY SumStep
    <3>5. /\ NoCounts.placed = 0 /\ NoCounts.read = 0
          /\ NoCounts.readTokens = 0 /\ NoCounts.writeTokens = 0
      BY DEF NoCounts
    <3> QED BY <2>3, <3>1, <3>2, <3>3, <3>4, <3>5 DEF Tallied
  <2>8. EffectKept(effect, calls)
    BY <2>2, <2>3, <2>6, <2>7 DEF EffectKept
  <2> QED BY <2>1, <2>2, <2>4, <2>5, <2>8 DEF EffectInv
<1>2. IInv /\ [PluginNext(requests, usages)]_<<monitorVars, pluginVars>> => IInv'
  BY NextInv, DecisionsStep, EffectStep
<1>3. IInv => EffectIsMeasured
  BY EffectSaysSo
<1> QED
  BY <1>1, <1>2, <1>3, PTL DEF PluginSpec

--------------------
(* Evidence about one lifetime.                                                  *)

EmptyTable == [order |-> <<>>, state |-> <<>>]

Speaks(r, l) == Arguable(r) /\ NamedLifetime(r) = l

\* The tables that the requests with lifetime l, alone, make of the first n entries.
IsAlone(t, entries, l, n) ==
  t = [i \in 0 .. n |->
         IF i = 0 THEN EmptyTable
         ELSE IF Speaks(entries[i].r, l)
              THEN Observing(t[i - 1], entries[i].r, entries[i].shape, entries[i].usage).table
              ELSE t[i - 1]]

LEMMA AloneExists ==
  ASSUME NEW entries, NEW l, NEW n \in Nat
  PROVE  \E t : IsAlone(t, entries, l, n)
<1> DEFINE Reached == {m \in Nat : \E t : IsAlone(t, entries, l, m)}
<1>1. 0 \in Reached
  <2>1. PICK t : t = [i \in 0 .. 0 |-> EmptyTable]
    OBVIOUS
  <2>2. t = [i \in 0 .. 0 |->
               IF i = 0 THEN EmptyTable
               ELSE IF Speaks(entries[i].r, l)
                    THEN Observing(t[i - 1], entries[i].r, entries[i].shape, entries[i].usage).table
                    ELSE t[i - 1]]
    BY <2>1
  <2> QED
    BY <2>2 DEF IsAlone
<1>2. ASSUME NEW m \in Nat, m \in Reached PROVE m + 1 \in Reached
  <2>1. PICK t : IsAlone(t, entries, l, m)
    BY <1>2
  <2> DEFINE step(i, before) ==
        IF Speaks(entries[i].r, l)
        THEN Observing(before, entries[i].r, entries[i].shape, entries[i].usage).table
        ELSE before
  <2>2. t = [i \in 0 .. m |-> IF i = 0 THEN EmptyTable ELSE step(i, t[i - 1])]
    BY <2>1 DEF IsAlone
  <2>3. PICK last : last = step(m + 1, t[m])
    OBVIOUS
  <2> HIDE DEF step
  <2>4. PICK more : more = [i \in 0 .. m + 1 |-> IF i = m + 1 THEN last ELSE t[i]]
    OBVIOUS
  <2>5. ASSUME NEW i \in 0 .. m + 1
        PROVE  more[i] = IF i = 0 THEN EmptyTable ELSE step(i, more[i - 1])
    <3>1. CASE i = m + 1
      <4>1. i # 0 /\ i - 1 = m /\ m \in 0 .. m + 1 /\ m # m + 1
        BY <3>1
      <4>2. more[i] = last /\ more[i - 1] = t[m]
        BY <2>4, <3>1, <4>1
      <4> QED BY <4>1, <4>2, <2>3, <3>1
    <3>2. CASE i # m + 1
      <4>1. i \in 0 .. m /\ more[i] = t[i]
        BY <2>4, <3>2
      <4>2. i # 0 => i - 1 \in 0 .. m /\ i - 1 # m + 1 /\ i - 1 \in 0 .. m + 1
        BY <4>1
      <4>3. i # 0 => more[i - 1] = t[i - 1]
        BY <2>4, <4>2
      <4>4. t[i] = IF i = 0 THEN EmptyTable ELSE step(i, t[i - 1])
        BY <2>2, <4>1
      <4> QED BY <4>1, <4>3, <4>4
    <3> QED BY <3>1, <3>2
  <2>6. more = [i \in 0 .. m + 1 |-> IF i = 0 THEN EmptyTable ELSE step(i, more[i - 1])]
    BY <2>4, <2>5
  <2>7. IsAlone(more, entries, l, m + 1)
    BY <2>6 DEF IsAlone, step
  <2> QED
    BY <2>7
<1> HIDE DEF Reached
<1>3. Nat \subseteq Reached
  BY <1>1, <1>2, NatSetInduction
<1> QED
  BY <1>3 DEF Reached

AloneAfter(entries, l, n) == (CHOOSE t : IsAlone(t, entries, l, n))[n]
AloneOf(entries, l) == AloneAfter(entries, l, Len(entries))

\* Entries that agree as far as both go, make the same tables.
LEMMA AloneAgrees ==
  ASSUME NEW n \in Nat, NEW m \in Nat, m <= n, NEW l, NEW es, NEW fs, NEW a, NEW b,
         IsAlone(a, es, l, n), IsAlone(b, fs, l, m), \A i \in 1 .. m : es[i] = fs[i]
  PROVE  a[m] = b[m]
<1> DEFINE Agreed == {i \in 0 .. m : a[i] = b[i]}
           step(e, before) ==
             IF Speaks(e.r, l) THEN Observing(before, e.r, e.shape, e.usage).table ELSE before
<1>1. /\ a = [i \in 0 .. n |-> IF i = 0 THEN EmptyTable ELSE step(es[i], a[i - 1])]
      /\ b = [i \in 0 .. m |-> IF i = 0 THEN EmptyTable ELSE step(fs[i], b[i - 1])]
  BY DEF IsAlone
<1> HIDE DEF step
<1>2. 0 \in Agreed
  <2>1. 0 \in 0 .. n /\ 0 \in 0 .. m
    OBVIOUS
  <2> QED BY <1>1, <2>1
<1>3. ASSUME NEW i \in 0 .. m - 1, i \in Agreed PROVE i + 1 \in Agreed
  <2>1. i + 1 \in 0 .. n /\ i + 1 \in 0 .. m /\ i + 1 # 0 /\ (i + 1) - 1 = i /\ i + 1 \in 1 .. m
    OBVIOUS
  <2>2. a[i + 1] = step(es[i + 1], a[i]) /\ b[i + 1] = step(fs[i + 1], b[i])
    BY <1>1, <2>1
  <2> QED BY <1>3, <2>1, <2>2
<1> HIDE DEF Agreed
<1>4. 0 .. m \subseteq Agreed
  BY <1>2, <1>3, UpToInduction
<1>5. m \in 0 .. m
  OBVIOUS
<1> QED
  BY <1>4, <1>5 DEF Agreed

LEMMA AloneIs ==
  ASSUME NEW entries, NEW l, NEW n \in Nat
  PROVE  \E t : IsAlone(t, entries, l, n) /\ AloneAfter(entries, l, n) = t[n]
<1>1. PICK t : t = CHOOSE f : IsAlone(f, entries, l, n)
  OBVIOUS
<1>2. IsAlone(t, entries, l, n)
  BY <1>1, AloneExists, Zenon
<1> QED
  BY <1>1, <1>2 DEF AloneAfter

LEMMA AloneGrows ==
  ASSUME NEW entries, Sequence(entries), NEW e, NEW l
  PROVE  AloneOf(Append(entries, e), l)
           = IF Speaks(e.r, l)
             THEN Observing(AloneOf(entries, l), e.r, e.shape, e.usage).table
             ELSE AloneOf(entries, l)
<1>1. PICK more, n : more = Append(entries, e) /\ n = Len(entries)
  OBVIOUS
<1>2. /\ n \in Nat /\ Len(more) = n + 1 /\ more[n + 1] = e
      /\ \A i \in 1 .. n : more[i] = entries[i]
  BY <1>1, AppendIs DEF Sequence
<1>3. PICK a : IsAlone(a, more, l, n + 1) /\ AloneAfter(more, l, n + 1) = a[n + 1]
  BY <1>2, AloneIs
<1>4. PICK b : IsAlone(b, entries, l, n) /\ AloneAfter(entries, l, n) = b[n]
  BY <1>2, AloneIs
<1>5. a[n] = b[n]
  <2>1. n + 1 \in Nat /\ n <= n + 1
    BY <1>2
  <2> QED BY <1>2, <1>3, <1>4, <2>1, AloneAgrees
<1>6. a[n + 1] = IF Speaks(e.r, l) THEN Observing(a[n], e.r, e.shape, e.usage).table ELSE a[n]
  <2>1. n + 1 \in 0 .. n + 1 /\ n + 1 # 0 /\ (n + 1) - 1 = n
    BY <1>2
  <2> QED BY <1>2, <1>3, <2>1 DEF IsAlone
<1>7. AloneOf(more, l) = a[n + 1] /\ AloneOf(entries, l) = b[n]
  BY <1>1, <1>2, <1>3, <1>4 DEF AloneOf
<1> QED
  BY <1>1, <1>5, <1>6, <1>7

LEMMA AloneStarts ==
  ASSUME NEW l
  PROVE  AloneOf(<<>>, l) = EmptyTable
<1>1. Len(<<>>) = 0 /\ 0 \in Nat /\ 0 \in 0 .. 0
  BY EmptyIs
<1>2. PICK a : IsAlone(a, <<>>, l, 0) /\ AloneAfter(<<>>, l, 0) = a[0]
  BY <1>1, AloneIs
<1>3. a[0] = EmptyTable
  BY <1>1, <1>2 DEF IsAlone
<1> QED
  BY <1>1, <1>2, <1>3 DEF AloneOf

LEMMA AloneObserved ==
  ASSUME NEW l
  PROVE  ObservedAlone(l) = AloneOf(log, l)
BY Zenon DEF ObservedAlone, AloneOf, AloneAfter, IsAlone, Speaks, EmptyTable

\* While the table has room for all there is, a scope that is seen is added.
LEMMA TouchAdds ==
  ASSUME NEW order, NEW cap \in Nat \ {0}, IsOrder(order, cap), NEW x,
         NEW S, IsFiniteSet(S), Cardinality(S) <= cap, Members(order) \cup {x} \subseteq S
  PROVE  LET t == Touch(order, x, cap) IN IsOrder(t, cap) /\ Members(t) = Members(order) \cup {x}
<1>1. PICK t : t = Touch(order, x, cap)
  OBVIOUS
<1>2. TouchedIs(t, order, x, cap)
  BY <1>1, TouchIs
<1>3. Len(order) \in Nat /\ Distinct(order) /\ Sequence(order) /\ Len(t) \in Nat
  BY <1>2 DEF IsOrder, Sequence, TouchedIs
<1>4. IsFiniteSet(Members(order)) /\ Cardinality(Members(order)) = Len(order)
  BY <1>3, MembersCount
<1>5. x \notin Members(order) => Len(order) < cap
  <2> SUFFICES ASSUME x \notin Members(order) PROVE Len(order) < cap
    OBVIOUS
  <2>1. Cardinality(Members(order) \cup {x}) = Len(order) + 1 /\ IsFiniteSet(Members(order) \cup {x})
    BY <1>4, FS_AddElement
  <2>2. Cardinality(Members(order) \cup {x}) <= Cardinality(S)
    BY FS_Subset
  <2>3. Cardinality(S) \in Nat
    BY FS_CardinalityType
  <2> QED
    BY <1>3, <2>1, <2>2, <2>3
<1>6. Members(order) \subseteq Members(t)
  BY <1>2, <1>3, <1>5 DEF TouchedIs, Members
<1>7. x \in Members(t)
  <2>1. Len(t) \in 1 .. Len(t) /\ t[Len(t)] = x
    BY <1>2, <1>3 DEF TouchedIs
  <2> QED BY <2>1 DEF Members
<1>8. Members(t) \subseteq Members(order) \cup {x}
  <2> SUFFICES ASSUME NEW i \in 1 .. Len(t) PROVE t[i] \in Members(order) \cup {x}
    BY DEF Members
  <2>1. CASE i = Len(t)
    BY <1>2, <2>1 DEF TouchedIs
  <2>2. CASE i # Len(t)
    <3>1. i \in 1 .. Len(t) - 1
      BY <1>3, <2>2
    <3> QED BY <1>2, <3>1 DEF TouchedIs, Members
  <2> QED BY <2>1, <2>2
<1> QED
  BY <1>1, <1>2, <1>6, <1>7, <1>8 DEF TouchedIs

LEMMA PlacedAdds ==
  ASSUME NEW a, FullTable(a), NEW r, NEW S, IsFiniteSet(S), Cardinality(S) <= MaxScopes,
         Members(a.order) \subseteq S, {PoolOf(r), RebuildScope(r), ReuseChainOf(r)} \subseteq S
  PROVE  LET p == Placed(a, r) IN Grown(p, a) /\ Members(p.order) \subseteq S
<1>0. MaxScopes \in Nat \ {0} /\ {First(r), Second(r), Third(r)} \subseteq S
  BY MonitorAssumption, SeenAre
<1>1. PICK b : b = Scope(a, First(r))
  OBVIOUS
<1>2. PICK c : c = Scope(b, Second(r))
  OBVIOUS
<1>3. PICK d : d = Scope(c, Third(r))
  OBVIOUS
<1>4. ScopedAs(b, a, First(r))
  BY <1>1, ScopeIs
<1>5. ScopedAs(c, b, Second(r))
  BY <1>2, <1>4, ScopeIs DEF ScopedAs
<1>6. ScopedAs(d, c, Third(r))
  BY <1>3, <1>5, ScopeIs DEF ScopedAs
<1>7. Members(b.order) = Members(a.order) \cup {First(r)}
  BY <1>0, <1>4, TouchAdds DEF ScopedAs, FullTable
<1>8. Members(c.order) = Members(b.order) \cup {Second(r)}
  BY <1>0, <1>4, <1>5, <1>7, TouchAdds DEF ScopedAs, FullTable
<1>9. Members(d.order) = Members(c.order) \cup {Third(r)}
  BY <1>0, <1>5, <1>6, <1>7, <1>8, TouchAdds DEF ScopedAs, FullTable
<1>10. ASSUME NEW s \in Members(d.order)
       PROVE  d.state[s] = IF s \in Members(a.order) THEN a.state[s] ELSE FreshState
  <2>1. d.state[s] = IF s \in Members(c.order) THEN c.state[s] ELSE FreshState
    BY <1>6 DEF ScopedAs
  <2>2. s \in Members(c.order) =>
          c.state[s] = IF s \in Members(b.order) THEN b.state[s] ELSE FreshState
    BY <1>5 DEF ScopedAs
  <2>3. s \in Members(b.order) =>
          b.state[s] = IF s \in Members(a.order) THEN a.state[s] ELSE FreshState
    BY <1>4 DEF ScopedAs
  <2> QED
    BY <1>7, <1>8, <1>9, <2>1, <2>2, <2>3
<1>11. Grown(d, a) /\ Members(d.order) \subseteq S
  BY <1>0, <1>7, <1>8, <1>9, <1>10 DEF Grown
<1> QED
  BY <1>1, <1>2, <1>3, <1>11 DEF Placed

\* What the table knows of the lifetime l in a scope: the spans that were marked, and
\* the gaps between two markings.
Evidence(t, s, l) ==
  IF s \in Members(t.order) THEN <<t.state[s].marks[l], t.state[s].rewrites[l]>> ELSE <<<<>>, <<>>>>

\* What a request adds to it.
MoreEvidence(known, r) == <<MarksAfter(known[1], r), RewritesAfter(known[2], known[1], r)>>

HasLifetimes(st) == DOMAIN st.marks = DOMAIN Seconds /\ DOMAIN st.rewrites = DOMAIN Seconds
Lifetimes(t) == \A s \in Members(t.order) : HasLifetimes(t.state[s])

Argues(r, l) == r.sent # Untimed /\ CanRead(r) /\ NamedLifetime(r) = l

LEMMA FreshLifetimes ==
  /\ HasLifetimes(FreshState)
  /\ \A l \in DOMAIN Seconds : FreshState.marks[l] = <<>> /\ FreshState.rewrites[l] = <<>>
BY DEF HasLifetimes, FreshState

LEMMA StateEvidence ==
  ASSUME NEW st, IsFull(st), HasLifetimes(st), NEW s, NEW r, NEW shape \in BOOLEAN,
         NEW usage \in BOOLEAN, NEW l \in DOMAIN Seconds
  PROVE  LET new == ObservedAs(st, s, r, shape, usage) IN
         /\ HasLifetimes(new)
         /\ <<new.marks[l], new.rewrites[l]>>
              = IF shape /\ s = ReuseChainOf(r) /\ Argues(r, l)
                THEN MoreEvidence(<<st.marks[l], st.rewrites[l]>>, r)
                ELSE <<st.marks[l], st.rewrites[l]>>
<1>1. PICK a : a = ShapedAs(st, s, r, shape)
  OBVIOUS
<1>2. PICK new : new = ObservedAs(st, s, r, shape, usage)
  OBVIOUS
<1>3. IsFull(a)
  BY <1>1, ShapedIs
<1>4. new.marks = a.marks /\ new.rewrites = a.rewrites
  <2>1. new = UsedAs(a, s, r, usage)
    BY <1>1, <1>2 DEF ObservedAs
  <2>2. \A f \in ShapeFields : new[f] = a[f]
    BY <1>3, <2>1, UsedIs
  <2> QED BY <2>2 DEF ShapeFields
<1>5. CASE ~(shape /\ s = ReuseChainOf(r))
  <2>1. a = st
    BY <1>1, <1>5 DEF ShapedAs
  <2> QED BY <1>2, <1>4, <1>5, <2>1 DEF HasLifetimes
<1>6. CASE shape /\ s = ReuseChainOf(r)
  <2>1. a = TrackShape(st, r)
    BY <1>1, <1>6 DEF ShapedAs
  <2>2. PICK m, g, k : m = st.marks /\ g = st.rewrites /\ k = NamedLifetime(r)
    OBVIOUS
  <2>3. PICK mk, gk : mk = MarksAfter(m[k], r) /\ gk = RewritesAfter(g[k], m[k], r)
    OBVIOUS
  <2>4. /\ a.marks = IF r.sent # Untimed /\ CanRead(r) THEN [m EXCEPT ![k] = mk] ELSE m
        /\ a.rewrites = IF r.sent # Untimed /\ CanRead(r) THEN [g EXCEPT ![k] = gk] ELSE g
    BY <2>1, <2>2, <2>3, ShapeIs
  <2>5. DOMAIN m = DOMAIN Seconds /\ DOMAIN g = DOMAIN Seconds
    BY <2>2 DEF HasLifetimes
  <2>6. HasLifetimes(new)
    BY <1>4, <2>4, <2>5 DEF HasLifetimes
  <2>7. CASE Argues(r, l)
    <3>1. k = l /\ r.sent # Untimed /\ CanRead(r)
      BY <2>2, <2>7 DEF Argues
    <3>2. new.marks[l] = mk /\ new.rewrites[l] = gk
      BY <1>4, <2>4, <2>5, <3>1
    <3>3. MoreEvidence(<<m[l], g[l]>>, r) = <<mk, gk>>
      BY <2>3, <3>1 DEF MoreEvidence
    <3> QED BY <1>2, <1>6, <2>2, <2>6, <2>7, <3>2, <3>3
  <2>8. CASE ~Argues(r, l)
    <3>1. k # l \/ ~(r.sent # Untimed /\ CanRead(r))
      BY <2>2, <2>8 DEF Argues
    <3>2. new.marks[l] = m[l] /\ new.rewrites[l] = g[l]
      BY <1>4, <2>4, <2>5, <3>1
    <3> QED BY <1>2, <2>2, <2>6, <2>8, <3>2
  <2> QED BY <2>7, <2>8
<1> QED
  BY <1>5, <1>6

LEMMA TableEvidence ==
  ASSUME NEW t, FullTable(t), Lifetimes(t), NEW r, NEW shape \in BOOLEAN, NEW usage \in BOOLEAN,
         shape => HasSegs(r), Grown(Placed(t, r), t), NEW l \in DOMAIN Seconds
  PROVE  LET after == Observing(t, r, shape, usage).table IN
         /\ FullTable(after) /\ Lifetimes(after) /\ Members(after.order) = Members(Placed(t, r).order)
         /\ \A s :
              Evidence(after, s, l) = IF shape /\ s = ReuseChainOf(r) /\ Argues(r, l)
                                      THEN MoreEvidence(Evidence(t, s, l), r) ELSE Evidence(t, s, l)
<1>1. PICK p : p = Placed(t, r)
  OBVIOUS
<1>2. PICK out : out = Observing(t, r, shape, usage)
  OBVIOUS
<1>3. PICK after : after = out.table
  OBVIOUS
<1>4. ObservedTo(out, p, r, shape, usage)
  BY <1>1, <1>2, ObservingIs
<1>5. /\ FullTable(after) /\ after.order = p.order
      /\ \A s \in Members(p.order) : Same(after.state[s], ObservedAs(p.state[s], s, r, shape, usage))
  BY <1>3, <1>4 DEF ObservedTo
<1>6. /\ FullTable(p) /\ ReuseChainOf(r) \in Members(p.order)
      /\ Members(t.order) \subseteq Members(p.order)
      /\ \A s \in Members(p.order) :
           p.state[s] = IF s \in Members(t.order) THEN t.state[s] ELSE FreshState
  BY <1>1, PlacedIs DEF PlacedAs, Grown
<1>7. ASSUME NEW s \in Members(p.order)
      PROVE  /\ HasLifetimes(after.state[s])
             /\ Evidence(after, s, l) = IF shape /\ s = ReuseChainOf(r) /\ Argues(r, l)
                                        THEN MoreEvidence(Evidence(t, s, l), r) ELSE Evidence(t, s, l)
  <2>1. PICK st : st = p.state[s]
    OBVIOUS
  <2>2. IsFull(st)
    BY <1>6, <2>1 DEF FullTable
  <2>3. HasLifetimes(st) /\ <<st.marks[l], st.rewrites[l]>> = Evidence(t, s, l)
    <3>1. CASE s \in Members(t.order)
      BY <1>6, <2>1, <3>1 DEF Lifetimes, Evidence
    <3>2. CASE s \notin Members(t.order)
      BY <1>6, <2>1, <3>2, FreshLifetimes DEF Evidence
    <3> QED BY <3>1, <3>2
  <2>4. PICK new : new = ObservedAs(st, s, r, shape, usage)
    OBVIOUS
  <2>5. HasLifetimes(new)
        /\ <<new.marks[l], new.rewrites[l]>>
             = IF shape /\ s = ReuseChainOf(r) /\ Argues(r, l)
               THEN MoreEvidence(Evidence(t, s, l), r) ELSE Evidence(t, s, l)
    BY <2>2, <2>3, <2>4, StateEvidence, SMTT(30)
  <2>6. after.state[s].marks = new.marks /\ after.state[s].rewrites = new.rewrites
    BY <1>5, <2>1, <2>4 DEF Same, StateFields
  <2>7. Evidence(after, s, l) = <<new.marks[l], new.rewrites[l]>>
    BY <1>5, <2>6 DEF Evidence
  <2> QED BY <2>5, <2>6, <2>7 DEF HasLifetimes
<1>8. ASSUME NEW s, s \notin Members(p.order)
      PROVE  Evidence(after, s, l) = Evidence(t, s, l) /\ s # ReuseChainOf(r)
  BY <1>5, <1>6, <1>8 DEF Evidence
<1>9. Lifetimes(after)
  BY <1>5, <1>7 DEF Lifetimes
<1> QED
  BY <1>1, <1>2, <1>3, <1>5, <1>7, <1>8, <1>9

\* The table a knows of the lifetime l what t knows.
KnowsAs(a, t, entries, l) ==
  /\ FullTable(a) /\ Lifetimes(a) /\ Lifetimes(t) /\ Members(a.order) \subseteq TouchedBy(entries)
  /\ \A s : Evidence(t, s, l) = Evidence(a, s, l)

ApartInv(t, entries) ==
  /\ ScopesInv(t, entries)
  /\ AllKept(entries) => \A l \in DOMAIN Seconds : KnowsAs(AloneOf(entries, l), t, entries, l)

LEMMA ApartStep ==
  ASSUME NEW t, NEW entries, ApartInv(t, entries), NEW e,
         e.shape \in BOOLEAN, e.usage \in BOOLEAN, e.shape => HasSegs(e.r)
  PROVE  ApartInv(Observing(t, e.r, e.shape, e.usage).table, Append(entries, e))
<1>1. PICK more, r, shape, usage :
        more = Append(entries, e) /\ r = e.r /\ shape = e.shape /\ usage = e.usage
  OBVIOUS
<1>0. shape \in BOOLEAN /\ usage \in BOOLEAN /\ (shape => HasSegs(r))
  BY <1>1
<1>2. PICK after : after = Observing(t, r, shape, usage).table
  OBVIOUS
<1>3. ScopesInv(t, entries) /\ FullTable(t) /\ Sequence(entries)
  BY DEF ApartInv, ScopesInv
<1>4. ScopesInv(after, more)
  BY <1>1, <1>2, <1>3, ScopesStep
<1>5. ASSUME AllKept(more), NEW l \in DOMAIN Seconds
      PROVE  KnowsAs(AloneOf(more, l), after, more, l)
  <2>1. /\ AllKept(entries) /\ Grown(Placed(t, r), t)
        /\ Members(Placed(t, r).order) = TouchedBy(more) /\ Members(t.order) = TouchedBy(entries)
    BY <1>1, <1>3, <1>5, PlacedScopes
  <2>2. PICK a : a = AloneOf(entries, l)
    OBVIOUS
  <2>3. /\ FullTable(a) /\ Lifetimes(a) /\ Lifetimes(t) /\ Members(a.order) \subseteq TouchedBy(entries)
        /\ \A s : Evidence(t, s, l) = Evidence(a, s, l)
    BY <1>5, <2>1, <2>2 DEF ApartInv, KnowsAs
  <2>4. TouchedBy(entries) \subseteq TouchedBy(more)
    BY <2>1 DEF Grown
  <2>5. /\ Lifetimes(after)
        /\ \A s : Evidence(after, s, l)
                    = IF shape /\ s = ReuseChainOf(r) /\ Argues(r, l)
                      THEN MoreEvidence(Evidence(t, s, l), r) ELSE Evidence(t, s, l)
    BY <1>0, <1>2, <1>3, <1>5, <2>1, <2>3, TableEvidence
  <2>6. CASE ~Speaks(r, l)
    <3>1. AloneOf(more, l) = a
      BY <1>1, <1>3, <2>2, <2>6, AloneGrows
    <3>2. ~Argues(r, l)
      BY <2>6 DEF Speaks, Argues, CanRead
    <3> QED BY <2>3, <2>4, <2>5, <3>1, <3>2 DEF KnowsAs
  <2>7. CASE Speaks(r, l)
    <3>1. PICK b : b = Observing(a, r, shape, usage).table
      OBVIOUS
    <3>2. AloneOf(more, l) = b
      BY <1>1, <1>3, <2>2, <2>7, <3>1, AloneGrows
    <3>3. IsFiniteSet(TouchedBy(more)) /\ Cardinality(TouchedBy(more)) <= MaxScopes
      <4>1. 3 * Len(more) \in Nat
        BY <1>4 DEF ScopesInv, Sequence
      <4> QED BY <1>5, <4>1, TouchedIsFinite DEF AllKept, TouchedBy
    <3>4. {PoolOf(r), RebuildScope(r), ReuseChainOf(r)} \subseteq TouchedBy(more)
      BY <1>3, <2>1, PlacedIs DEF PlacedAs
    <3>5. Grown(Placed(a, r), a) /\ Members(Placed(a, r).order) \subseteq TouchedBy(more)
      BY <2>3, <2>4, <3>3, <3>4, PlacedAdds
    <3>6. /\ FullTable(b) /\ Lifetimes(b) /\ Members(b.order) = Members(Placed(a, r).order)
          /\ \A s : Evidence(b, s, l)
                      = IF shape /\ s = ReuseChainOf(r) /\ Argues(r, l)
                        THEN MoreEvidence(Evidence(a, s, l), r) ELSE Evidence(a, s, l)
      BY <1>0, <1>5, <2>3, <3>1, <3>5, TableEvidence
    <3>7. \A s : Evidence(after, s, l) = Evidence(b, s, l)
      BY <2>3, <2>5, <3>6
    <3> QED BY <2>5, <3>2, <3>5, <3>6, <3>7 DEF KnowsAs
  <2> QED BY <2>6, <2>7
<1> QED
  BY <1>1, <1>2, <1>4, <1>5 DEF ApartInv

LEMMA ApartCleared ==
  ASSUME NEW t, NEW entries, ApartInv(t, entries), NEW u, OnlyFired(u, t)
  PROVE  ApartInv(u, entries)
<1>1. ScopesInv(u, entries)
  BY RecencyKept DEF ApartInv
<1>2. /\ u.order = t.order
      /\ \A s \in Members(t.order) : /\ u.state[s].marks = t.state[s].marks
                                     /\ u.state[s].rewrites = t.state[s].rewrites
  BY DEF OnlyFired, Same, StateFields
<1>3. ASSUME NEW a, NEW l, KnowsAs(a, t, entries, l) PROVE KnowsAs(a, u, entries, l)
  <2>1. Lifetimes(u) /\ \A s : Evidence(u, s, l) = Evidence(t, s, l)
    BY <1>2, <1>3 DEF KnowsAs, Lifetimes, HasLifetimes, Evidence
  <2> QED BY <1>3, <2>1 DEF KnowsAs
<1> QED
  BY <1>1, <1>3 DEF ApartInv

LEMMA ApartStays ==
  ASSUME ApartInv(table, log),
         \/ UNCHANGED monitorVars
         \/ \E r : \E shape, usage \in BOOLEAN :
              (shape => HasSegs(r)) /\ Observes(r, shape, usage)
         \/ \E scope, code : Clear(scope, code)
  PROVE  ApartInv(table, log)'
<1>1. CASE UNCHANGED monitorVars
  BY <1>1 DEF monitorVars
<1>2. ASSUME NEW r, NEW shape \in BOOLEAN, NEW usage \in BOOLEAN,
             shape => HasSegs(r), Observes(r, shape, usage)
      PROVE  ApartInv(table, log)'
  <2>1. PICK e : e = Entry(r, shape, usage)
    OBVIOUS
  <2>2. e.r = r /\ e.shape = shape /\ e.usage = usage
    BY <2>1 DEF Entry
  <2>3. table' = Observing(table, e.r, e.shape, e.usage).table /\ log' = Append(log, e)
    BY <1>2, <2>1, <2>2 DEF Observes
  <2>4. ApartInv(Observing(table, e.r, e.shape, e.usage).table, Append(log, e))
    BY <1>2, <2>2, ApartStep
  <2> QED BY <2>3, <2>4
<1>3. ASSUME NEW scope, NEW code, Clear(scope, code) PROVE ApartInv(table, log)'
  <2>1. OnlyFired(table', table) /\ UNCHANGED log
    BY <1>3, ClearIs DEF ApartInv, ScopesInv
  <2>2. ApartInv(table', log)
    BY <2>1, ApartCleared
  <2> QED BY <2>1, <2>2
<1> QED
  BY <1>1, <1>2, <1>3

LEMMA ApartStarts == MonitorInit => ApartInv(table, log)
<1> SUFFICES ASSUME MonitorInit PROVE ApartInv(table, log)
  OBVIOUS
<1>1. ScopesInv(table, log) /\ FullTable(table)
  BY MonitorStarts DEF MonitorInv, ScopesInv
<1>2. log = <<>> /\ table = EmptyTable /\ table.order = <<>>
  BY DEF MonitorInit, EmptyTable
<1>3. Members(table.order) = {}
  BY <1>2, EmptyIs DEF Members
<1>4. \A l : KnowsAs(AloneOf(log, l), table, log, l)
  BY <1>1, <1>2, <1>3, AloneStarts DEF KnowsAs, Lifetimes
<1> QED
  BY <1>1, <1>4 DEF ApartInv

LEMMA ApartSaysSo == ApartInv(table, log) => RewritesStayApart
<1> SUFFICES ASSUME ApartInv(table, log), NothingForgotten, NEW l \in DOMAIN Seconds,
                    NEW alone, alone = ObservedAlone(l), NEW s \in DOMAIN table.state
             PROVE  table.state[s].rewrites[l] =
                      IF s \in DOMAIN alone.state THEN alone.state[s].rewrites[l] ELSE <<>>
  BY DEF RewritesStayApart
<1>1. FullTable(table) /\ Sequence(log)
  BY DEF ApartInv, ScopesInv
<1>2. ToSet(Touches) = TouchedBy(log)
  BY <1>1, TouchesAre
<1>3. AllKept(log)
  BY <1>2 DEF NothingForgotten, AllKept
<1>4. alone = AloneOf(log, l)
  BY AloneObserved
<1>5. FullTable(alone) /\ Evidence(table, s, l) = Evidence(alone, s, l)
  BY <1>3, <1>4 DEF ApartInv, KnowsAs
<1>6. s \in Members(table.order) /\ DOMAIN alone.state = Members(alone.order)
  BY <1>1, <1>5, FullIsTable
<1>7. Evidence(table, s, l)[2] = table.state[s].rewrites[l]
  BY <1>6 DEF Evidence
<1>8. Evidence(alone, s, l)[2] = IF s \in DOMAIN alone.state THEN alone.state[s].rewrites[l] ELSE <<>>
  BY <1>6 DEF Evidence
<1> QED
  BY <1>5, <1>7, <1>8

\* Whatever is observed, in whatever order, and whatever lifetimes share a scope: while
\* the table has room for every scope, the rewrites that speak for a lifetime are those
\* that its own requests, replayed alone, would leave (_track_shape).
THEOREM EvidenceStaysApart ==
  ASSUME NEW CONSTANT configs, NEW CONSTANT requests, NEW CONSTANT usages,
         \A r \in requests : IsRequest(r)
  PROVE  PluginSpec(configs, requests, usages) => []RewritesStayApart
<1>1. PluginInit(configs) => ApartInv(table, log)
  BY ApartStarts DEF PluginInit
<1>2. ApartInv(table, log) /\ [PluginNext(requests, usages)]_<<monitorVars, pluginVars>>
        => ApartInv(table, log)'
  BY MonitorSteps, ApartStays
<1>3. ApartInv(table, log) => RewritesStayApart
  BY ApartSaysSo
<1> QED
  BY <1>1, <1>2, <1>3, PTL DEF PluginSpec

--------------------
(* Entries that are remembered by their keys.                                    *)

Keyed(s) == Sequence(s) /\ \A i, j \in 1 .. Len(s) : s[i].key = s[j].key => i = j

LEMMA RecallIs ==
  ASSUME NEW s, Keyed(s), NEW i \in 1 .. Len(s)
  PROVE  Has(s, s[i].key) /\ Recall(s, s[i].key) = s[i]
<1>1. DOMAIN s = 1 .. Len(s) /\ \A j \in 1 .. Len(s) : s[j].key = s[i].key => j = i
  BY DEF Keyed, Sequence
<1>2. PICK p : p = PlaceOf(s, s[i].key)
  OBVIOUS
<1>3. p \in 1 .. Len(s) /\ s[p].key = s[i].key
  BY <1>1, <1>2 DEF PlaceOf
<1>4. p = i
  BY <1>1, <1>3
<1> QED
  BY <1>1, <1>2, <1>4 DEF Has, Recall

LEMMA WithoutIs ==
  ASSUME NEW s, Keyed(s), NEW key
  PROVE  LET rest == Without(s, key) IN
         /\ Keyed(rest) /\ Len(rest) <= Len(s)
         /\ \A i \in 1 .. Len(rest) : rest[i] \in Members(s) /\ rest[i].key # key
         /\ \A i \in 1 .. Len(s) : s[i].key # key => s[i] \in Members(rest)
<1>1. Sequence(s) /\ Len(s) \in Nat /\ DOMAIN s = 1 .. Len(s)
  BY DEF Keyed, Sequence
<1>2. CASE ~Has(s, key)
  <2>1. Without(s, key) = s
    BY <1>2 DEF Without
  <2>2. \A i \in 1 .. Len(s) : s[i].key # key /\ s[i] \in Members(s)
    BY <1>1, <1>2 DEF Has, Members
  <2> QED BY <1>1, <2>1, <2>2
<1>3. CASE Has(s, key)
  <2>1. PICK p : p = PlaceOf(s, key)
    OBVIOUS
  <2>2. p \in 1 .. Len(s) /\ s[p].key = key
    BY <1>1, <1>3, <2>1 DEF PlaceOf, Has
  <2>3. PICK rest : rest = RemoveAt(s, p)
    OBVIOUS
  <2>4. /\ Sequence(rest) /\ Len(rest) = Len(s) - 1
        /\ \A k \in 1 .. Len(s) - 1 : rest[k] = IF k < p THEN s[k] ELSE s[k + 1]
    BY <1>1, <2>2, <2>3, RemoveAtIs
  <2> DEFINE from(i) == IF i < p THEN i ELSE i + 1
  <2>5. \A i \in 1 .. Len(rest) : from(i) \in 1 .. Len(s) /\ from(i) # p /\ rest[i] = s[from(i)]
    BY <1>1, <2>2, <2>4
  <2>6. \A i, j \in 1 .. Len(rest) : from(i) = from(j) => i = j
    BY <1>1, <2>2, <2>4
  <2>7. \A k \in 1 .. Len(s) : k # p => \E i \in 1 .. Len(rest) : from(i) = k
    <3> SUFFICES ASSUME NEW k \in 1 .. Len(s), k # p PROVE \E i \in 1 .. Len(rest) : from(i) = k
      OBVIOUS
    <3>1. CASE k < p
      <4>1. k \in 1 .. Len(rest) /\ from(k) = k
        BY <1>1, <2>2, <2>4, <3>1
      <4> QED BY <4>1
    <3>2. CASE k > p
      <4>1. k - 1 \in 1 .. Len(rest) /\ from(k - 1) = k
        BY <1>1, <2>2, <2>4, <3>2
      <4> QED BY <4>1
    <3> QED BY <1>1, <2>2, <3>1, <3>2
  <2> HIDE DEF from
  <2>8. \A i, j \in 1 .. Len(s) : s[i].key = s[j].key => i = j
    BY DEF Keyed
  <2>9. Keyed(rest)
    BY <2>4, <2>5, <2>6, <2>8 DEF Keyed
  <2>10. \A i \in 1 .. Len(rest) : rest[i] \in Members(s) /\ rest[i].key # key
    BY <2>2, <2>5, <2>8 DEF Members
  <2>11. \A i \in 1 .. Len(s) : s[i].key # key => s[i] \in Members(rest)
    BY <2>2, <2>5, <2>7 DEF Members
  <2>12. Without(s, key) = rest
    BY <1>3, <2>1, <2>3 DEF Without
  <2>13. Len(rest) <= Len(s)
    BY <1>1, <2>4
  <2> QED BY <2>9, <2>10, <2>11, <2>12, <2>13
<1> QED
  BY <1>2, <1>3

\* While there is room, what is remembered is remembered beside the rest.
LEMMA RememberIs ==
  ASSUME NEW s, Keyed(s), NEW entry, NEW cap \in Nat \ {0}, Len(s) < cap
  PROVE  LET new == Remember(s, entry, cap) IN
         /\ Keyed(new) /\ Len(new) <= Len(s) + 1
         /\ \A k : Has(new, k) <=> k = entry.key \/ Has(s, k)
         /\ Recall(new, entry.key) = entry
         /\ \A k : k # entry.key /\ Has(s, k) => Recall(new, k) = Recall(s, k)
<1>1. PICK rest : rest = Without(s, entry.key)
  OBVIOUS
<1>2. /\ Keyed(rest) /\ Len(rest) <= Len(s)
      /\ \A i \in 1 .. Len(rest) : rest[i] \in Members(s) /\ rest[i].key # entry.key
      /\ \A i \in 1 .. Len(s) : s[i].key # entry.key => s[i] \in Members(rest)
  BY <1>1, WithoutIs
<1>3. /\ Sequence(s) /\ Len(s) \in Nat /\ DOMAIN s = 1 .. Len(s)
      /\ Sequence(rest) /\ Len(rest) \in Nat /\ Len(rest) < cap
  BY <1>2 DEF Keyed, Sequence
<1>4. PICK new : new = Push(rest, entry, cap)
  OBVIOUS
<1>5. /\ Sequence(new) /\ Len(new) = Len(rest) + 1 /\ new[Len(new)] = entry
      /\ \A k \in 1 .. Len(rest) : new[k] = rest[k]
  <2>1. /\ Sequence(new) /\ Len(new) = (IF Len(rest) < cap THEN Len(rest) + 1 ELSE cap)
        /\ new[Len(new)] = entry
        /\ \A k \in 1 .. Len(new) - 1 : new[k] = rest[k + (Len(rest) + 1 - Len(new))]
    BY <1>3, <1>4, PushIs
  <2>2. Len(new) = Len(rest) + 1
    BY <1>3, <2>1
  <2>3. \A k \in 1 .. Len(rest) : k \in 1 .. Len(new) - 1 /\ k + (Len(rest) + 1 - Len(new)) = k
    BY <1>3, <2>2
  <2> QED BY <2>1, <2>2, <2>3
<1>6. \A k \in 1 .. Len(new) : k = Len(new) \/ k \in 1 .. Len(rest)
  BY <1>3, <1>5
<1>7. DOMAIN new = 1 .. Len(new) /\ Len(new) \in 1 .. Len(new) /\ \A k \in 1 .. Len(rest) : k \in 1 .. Len(new)
  BY <1>3, <1>5 DEF Sequence
<1>8. Keyed(new)
  <2> SUFFICES ASSUME NEW i \in 1 .. Len(new), NEW j \in 1 .. Len(new), new[i].key = new[j].key
               PROVE  i = j
    BY <1>5 DEF Keyed
  <2>1. CASE i \in 1 .. Len(rest) /\ j \in 1 .. Len(rest)
    BY <1>2, <1>5, <2>1 DEF Keyed
  <2>2. CASE i \in 1 .. Len(rest) /\ j = Len(new)
    BY <1>2, <1>5, <2>2
  <2>3. CASE i = Len(new) /\ j \in 1 .. Len(rest)
    BY <1>2, <1>5, <2>3
  <2> QED BY <1>6, <2>1, <2>2, <2>3
<1>9. Has(new, entry.key) /\ Recall(new, entry.key) = entry
  BY <1>5, <1>7, <1>8, RecallIs
<1>10. ASSUME NEW k, k # entry.key, Has(s, k)
       PROVE  Has(new, k) /\ Recall(new, k) = Recall(s, k)
  <2>1. PICK i \in 1 .. Len(s) : s[i].key = k
    BY <1>3, <1>10 DEF Has
  <2>2. Recall(s, k) = s[i]
    BY <2>1, RecallIs
  <2>3. PICK j \in 1 .. Len(rest) : rest[j] = s[i]
    BY <1>2, <1>10, <2>1 DEF Members
  <2>4. j \in 1 .. Len(new) /\ new[j] = s[i]
    BY <1>5, <1>7, <2>3
  <2> QED BY <1>8, <2>1, <2>2, <2>4, RecallIs
<1>11. ASSUME NEW k, k # entry.key, Has(new, k) PROVE Has(s, k)
  <2>1. PICK i \in 1 .. Len(new) : new[i].key = k
    BY <1>7, <1>11 DEF Has
  <2>2. i \in 1 .. Len(rest)
    BY <1>5, <1>6, <1>11, <2>1
  <2>3. PICK j \in 1 .. Len(s) : s[j] = rest[i]
    BY <1>2, <2>2 DEF Members
  <2> QED BY <1>3, <1>5, <2>1, <2>2, <2>3 DEF Has
<1>12. new = Remember(s, entry, cap)
  BY <1>1, <1>4 DEF Remember
<1>13. Len(new) <= Len(s) + 1
  BY <1>2, <1>3, <1>5
<1> QED
  BY <1>8, <1>9, <1>10, <1>11, <1>12, <1>13

--------------------
(* Rebuilt turns.                                                                *)

UsedOf(entries) == {i \in 1 .. Len(entries) : entries[i].usage}

\* The turns of a session, as far as they were used.
TurnsOf(entries, scope, key) ==
  {i \in UsedOf(entries) : /\ RebuildScope(entries[i].r) = scope
                           /\ entries[i].r.session # NoSession
                           /\ TurnKey(entries[i].r) = key}

IsLatest(i, S) == i \in S /\ \A j \in S : j <= i

\* What a turn leaves for the next one: it established something, whose lifetime is known.
Leads(a, b) ==
  /\ a.usage.read + a.usage.write > 0 /\ ExpirySeconds(a) # Unknown
  /\ b.sent - a.sent < ExpirySeconds(a)

WroteAgain(a, b) == 2 * b.usage.write >= a.usage.read + a.usage.write

\* The pairs of turns of which the second is a rebuild.
Rebuilds(entries, scope) ==
  {p \in UsedOf(entries) \X UsedOf(entries) :
     LET key == TurnKey(entries[p[1]].r) IN
     /\ p[1] < p[2] /\ p[1] \in TurnsOf(entries, scope, key) /\ p[2] \in TurnsOf(entries, scope, key)
     /\ \A k \in TurnsOf(entries, scope, key) : ~(p[1] < k /\ k < p[2])
     /\ Leads(entries[p[1]].r, entries[p[2]].r) /\ WroteAgain(entries[p[1]].r, entries[p[2]].r)}

\* One more entry.
Further(more, entries, e, n, news) ==
  /\ n \in Nat /\ Sequence(more) /\ more[n + 1] = e /\ Len(more) = n + 1
  /\ UsedOf(more) = UsedOf(entries) \cup news
  /\ \A i \in UsedOf(entries) : i \in 1 .. n /\ more[i] = entries[i]
  /\ \A scope, key : TurnsOf(more, scope, key)
       = TurnsOf(entries, scope, key)
           \cup (IF RebuildScope(e.r) = scope /\ e.r.session # NoSession /\ TurnKey(e.r) = key
                 THEN news ELSE {})

LEMMA UsedGrow ==
  ASSUME NEW entries, Sequence(entries), NEW e, NEW more, more = Append(entries, e),
         NEW n, n = Len(entries), NEW news, news = IF e.usage THEN {n + 1} ELSE {}
  PROVE  Further(more, entries, e, n, news)
<1>2. /\ n \in Nat /\ Sequence(more) /\ Len(more) = n + 1 /\ more[n + 1] = e
      /\ \A i \in 1 .. n : more[i] = entries[i]
  BY AppendIs DEF Sequence
<1>4. UsedOf(more) = UsedOf(entries) \cup news
  <2>1. \A i : i \in 1 .. n + 1 <=> i \in 1 .. n \/ i = n + 1
    BY <1>2
  <2>2. \A i : i \in UsedOf(more) <=> i \in 1 .. n + 1 /\ more[i].usage
    BY <1>2 DEF UsedOf
  <2>3. \A i : i \in UsedOf(entries) <=> i \in 1 .. n /\ entries[i].usage
    BY DEF UsedOf
  <2> QED BY <1>2, <2>1, <2>2, <2>3
<1>5. \A i \in UsedOf(entries) : i \in 1 .. n /\ more[i] = entries[i]
  BY <1>2 DEF UsedOf
<1>6. \A i \in news : more[i] = e
  BY <1>2
<1>7. ASSUME NEW scope, NEW key
      PROVE  TurnsOf(more, scope, key)
               = TurnsOf(entries, scope, key)
                   \cup (IF RebuildScope(e.r) = scope /\ e.r.session # NoSession /\ TurnKey(e.r) = key
                         THEN news ELSE {})
  BY <1>4, <1>5, <1>6 DEF TurnsOf
<1> QED
  BY <1>2, <1>4, <1>5, <1>7 DEF Further

LEMMA UsedAreFinite ==
  ASSUME NEW entries, Sequence(entries)
  PROVE  /\ IsFiniteSet(UsedOf(entries)) /\ Cardinality(UsedOf(entries)) \in Nat
         /\ \A scope : IsFiniteSet(Rebuilds(entries, scope)) /\ Cardinality(Rebuilds(entries, scope)) \in Nat
         /\ \A scope, key : TurnsOf(entries, scope, key) # {} =>
              \E i \in TurnsOf(entries, scope, key) : IsLatest(i, TurnsOf(entries, scope, key))
<1>1. Len(entries) \in Nat
  BY DEF Sequence
<1>2. IsFiniteSet(1 .. Len(entries))
  BY <1>1, FS_Interval
<1>3. IsFiniteSet(UsedOf(entries)) /\ Cardinality(UsedOf(entries)) \in Nat
  BY <1>2, FS_Subset, FS_CardinalityType DEF UsedOf
<1>4. ASSUME NEW scope
      PROVE  IsFiniteSet(Rebuilds(entries, scope)) /\ Cardinality(Rebuilds(entries, scope)) \in Nat
  <2>1. IsFiniteSet(UsedOf(entries) \X UsedOf(entries))
    BY <1>3, FS_Product
  <2>2. Rebuilds(entries, scope) \subseteq UsedOf(entries) \X UsedOf(entries)
    BY DEF Rebuilds
  <2> QED BY <2>1, <2>2, FS_Subset, FS_CardinalityType
<1>5. ASSUME NEW scope, NEW key, TurnsOf(entries, scope, key) # {}
      PROVE  \E i \in TurnsOf(entries, scope, key) : IsLatest(i, TurnsOf(entries, scope, key))
  <2>1. TurnsOf(entries, scope, key) \in SUBSET (1 .. Len(entries))
    BY DEF TurnsOf, UsedOf
  <2>2. Max(TurnsOf(entries, scope, key)) \in TurnsOf(entries, scope, key)
        /\ \A i \in TurnsOf(entries, scope, key) : i <= Max(TurnsOf(entries, scope, key))
    BY <1>1, <1>5, <2>1, MaxIs
  <2> QED BY <2>2 DEF IsLatest
<1> QED
  BY <1>3, <1>4, <1>5

\* The pair that a turn makes with the turn before it.
LEMMA RebuildsGrow ==
  ASSUME NEW entries, Sequence(entries), NEW e, NEW scope
  PROVE  LET key == TurnKey(e.r)  turns == TurnsOf(entries, scope, key)  n == Len(entries)
             own == e.usage /\ RebuildScope(e.r) = scope /\ e.r.session # NoSession
         IN /\ ~own \/ turns = {} => Rebuilds(Append(entries, e), scope) = Rebuilds(entries, scope)
            /\ own => \A i \in turns : IsLatest(i, turns) =>
                 Rebuilds(Append(entries, e), scope)
                   = Rebuilds(entries, scope)
                       \cup (IF Leads(entries[i].r, e.r) /\ WroteAgain(entries[i].r, e.r)
                             THEN {<<i, n + 1>>} ELSE {})
<1>1. PICK more, n, key, turns : /\ more = Append(entries, e) /\ n = Len(entries)
                                 /\ key = TurnKey(e.r) /\ turns = TurnsOf(entries, scope, key)
  OBVIOUS
<1> DEFINE own == e.usage /\ RebuildScope(e.r) = scope /\ e.r.session # NoSession
<1>2. PICK news : news = IF e.usage THEN {n + 1} ELSE {}
  OBVIOUS
<1>3. /\ n \in Nat /\ more[n + 1] = e
      /\ UsedOf(more) = UsedOf(entries) \cup news
      /\ \A i \in UsedOf(entries) : i \in 1 .. n /\ more[i] = entries[i]
      /\ \A k : TurnsOf(more, scope, k)
           = TurnsOf(entries, scope, k)
               \cup (IF RebuildScope(e.r) = scope /\ e.r.session # NoSession /\ key = k THEN news ELSE {})
  <2>1. Further(more, entries, e, n, news)
    BY <1>1, <1>2, UsedGrow
  <2> QED BY <1>1, <2>1 DEF Further
<1>4. \A k : TurnsOf(entries, scope, k) \subseteq UsedOf(entries)
  BY DEF TurnsOf
<1> DEFINE pair(es, a, b) ==
      LET k == TurnKey(es[a].r) IN
      /\ a < b /\ a \in TurnsOf(es, scope, k) /\ b \in TurnsOf(es, scope, k)
      /\ \A m \in TurnsOf(es, scope, k) : ~(a < m /\ m < b)
      /\ Leads(es[a].r, es[b].r) /\ WroteAgain(es[a].r, es[b].r)
<1>5. \A es : Rebuilds(es, scope) = {p \in UsedOf(es) \X UsedOf(es) : pair(es, p[1], p[2])}
  BY DEF Rebuilds
<1>6. ASSUME NEW a \in UsedOf(entries), NEW b \in UsedOf(entries)
      PROVE  pair(more, a, b) <=> pair(entries, a, b)
  <2>1. PICK k : k = TurnKey(entries[a].r)
    OBVIOUS
  <2>2. /\ more[a] = entries[a] /\ more[b] = entries[b] /\ a \in 1 .. n /\ b \in 1 .. n
        /\ a # n + 1 /\ b # n + 1
    BY <1>3
  <2>3. PICK old, new : old = TurnsOf(entries, scope, k) /\ new = TurnsOf(more, scope, k)
    OBVIOUS
  <2>4. old \subseteq new /\ \A m \in new : m \in old \/ m = n + 1
    BY <1>2, <1>3, <2>3
  <2>5. (a \in new <=> a \in old) /\ (b \in new <=> b \in old)
    BY <2>2, <2>4
  <2>6. (\A m \in new : ~(a < m /\ m < b)) <=> \A m \in old : ~(a < m /\ m < b)
    <3>1. ~(n + 1 < b)
      BY <1>3, <2>2
    <3> QED BY <2>4, <3>1
  <2>7. pair(more, a, b) <=> /\ a < b /\ a \in new /\ b \in new /\ \A m \in new : ~(a < m /\ m < b)
                             /\ Leads(entries[a].r, entries[b].r) /\ WroteAgain(entries[a].r, entries[b].r)
    BY <2>1, <2>2, <2>3
  <2>8. pair(entries, a, b) <=> /\ a < b /\ a \in old /\ b \in old /\ \A m \in old : ~(a < m /\ m < b)
                                /\ Leads(entries[a].r, entries[b].r) /\ WroteAgain(entries[a].r, entries[b].r)
    BY <2>1, <2>3
  <2> QED BY <2>5, <2>6, <2>7, <2>8
<1>7. ASSUME NEW b \in UsedOf(more) PROVE ~pair(more, n + 1, b)
  <2>1. ~(n + 1 < b)
    BY <1>2, <1>3
  <2> QED BY <2>1
<1>8. ASSUME NEW a \in UsedOf(entries), pair(more, a, n + 1), e.usage
      PROVE  own /\ a \in turns /\ IsLatest(a, turns) /\ Leads(entries[a].r, e.r) /\ WroteAgain(entries[a].r, e.r)
  <2>1. PICK k : k = TurnKey(entries[a].r)
    OBVIOUS
  <2>2. more[a] = entries[a] /\ a \in 1 .. n /\ \A i \in UsedOf(entries) : i \in 1 .. n
    BY <1>3
  <2>3. /\ a \in TurnsOf(more, scope, k) /\ n + 1 \in TurnsOf(more, scope, k)
        /\ \A m \in TurnsOf(more, scope, k) : ~(a < m /\ m < n + 1)
        /\ Leads(entries[a].r, e.r) /\ WroteAgain(entries[a].r, e.r)
    BY <1>3, <1>8, <2>1, <2>2
  <2>4. n + 1 \notin UsedOf(entries) /\ a # n + 1
    BY <1>3, <2>2
  <2>5. RebuildScope(e.r) = scope /\ e.r.session # NoSession /\ key = k
    BY <1>3, <1>4, <2>3, <2>4
  <2>6. a \in turns
    BY <1>1, <1>2, <1>3, <2>3, <2>4, <2>5
  <2>7. \A m \in turns : m \in 1 .. n /\ m \in TurnsOf(more, scope, k)
    BY <1>1, <1>3, <1>4, <2>5
  <2>8. \A m \in turns : m <= a
    BY <1>3, <2>2, <2>3, <2>7
  <2> QED BY <1>8, <2>3, <2>5, <2>6, <2>8 DEF IsLatest
<1>9. ASSUME own, NEW a \in turns, IsLatest(a, turns), Leads(entries[a].r, e.r), WroteAgain(entries[a].r, e.r)
      PROVE  pair(more, a, n + 1)
  <2>1. TurnKey(entries[a].r) = key /\ a \in UsedOf(entries)
    BY <1>1, <1>9 DEF TurnsOf
  <2>2. more[a] = entries[a] /\ a \in 1 .. n
    BY <1>3, <2>1
  <2>3. TurnsOf(more, scope, key) = turns \cup {n + 1}
    BY <1>1, <1>2, <1>3, <1>9
  <2>4. a < n + 1 /\ \A m \in turns \cup {n + 1} : ~(a < m /\ m < n + 1)
    <3>1. \A m \in turns : m \in 1 .. n /\ m <= a
      BY <1>1, <1>3, <1>4, <1>9 DEF IsLatest
    <3> QED BY <1>3, <2>2, <3>1
  <2> QED BY <1>3, <1>9, <2>1, <2>2, <2>3, <2>4
<1>10. \A a, b : <<a, b>> \in Rebuilds(more, scope) <=>
                   a \in UsedOf(more) /\ b \in UsedOf(more) /\ pair(more, a, b)
  BY <1>5
<1>11. \A a, b : <<a, b>> \in Rebuilds(entries, scope) <=>
                   a \in UsedOf(entries) /\ b \in UsedOf(entries) /\ pair(entries, a, b)
  BY <1>5
<1>12. \A es : \A p \in Rebuilds(es, scope) : p = <<p[1], p[2]>>
  BY DEF Rebuilds
<1> HIDE DEF pair
<1>13. Rebuilds(entries, scope) \subseteq Rebuilds(more, scope)
  BY <1>3, <1>6, <1>10, <1>11, <1>12
<1>14. ASSUME NEW a, NEW b, <<a, b>> \in Rebuilds(more, scope)
       PROVE  <<a, b>> \in Rebuilds(entries, scope)
                \/ /\ b = n + 1 /\ own /\ a \in turns /\ IsLatest(a, turns)
                   /\ Leads(entries[a].r, e.r) /\ WroteAgain(entries[a].r, e.r)
  <2>1. a \in UsedOf(more) /\ b \in UsedOf(more) /\ pair(more, a, b)
    BY <1>10, <1>14
  <2>2. a # n + 1
    BY <1>7, <2>1
  <2>3. a \in UsedOf(entries)
    BY <1>2, <1>3, <2>1, <2>2
  <2>4. CASE b \in UsedOf(entries)
    BY <1>6, <1>11, <2>1, <2>3, <2>4
  <2>5. CASE b \notin UsedOf(entries)
    <3>1. b = n + 1 /\ e.usage
      BY <1>2, <1>3, <2>1, <2>5
    <3> QED BY <1>8, <2>1, <2>3, <3>1
  <2> QED BY <2>4, <2>5
<1>15. ASSUME own, NEW a \in turns, IsLatest(a, turns), Leads(entries[a].r, e.r), WroteAgain(entries[a].r, e.r)
       PROVE  <<a, n + 1>> \in Rebuilds(more, scope)
  <2>1. a \in UsedOf(more) /\ n + 1 \in UsedOf(more)
    BY <1>1, <1>2, <1>3, <1>4, <1>15
  <2> QED BY <1>9, <1>10, <1>15, <2>1
<1>16. \A a, b \in turns : IsLatest(a, turns) /\ IsLatest(b, turns) => a = b
  <2>1. \A a \in turns : a \in Nat
    BY <1>1, <1>3, <1>4
  <2> QED BY <2>1 DEF IsLatest
<1>17. ASSUME ~own \/ turns = {} PROVE Rebuilds(more, scope) = Rebuilds(entries, scope)
  BY <1>12, <1>13, <1>14, <1>17
<1>18. ASSUME own, NEW i \in turns, IsLatest(i, turns)
       PROVE  Rebuilds(more, scope)
                = Rebuilds(entries, scope)
                    \cup (IF Leads(entries[i].r, e.r) /\ WroteAgain(entries[i].r, e.r)
                          THEN {<<i, n + 1>>} ELSE {})
  <2>1. \A p \in Rebuilds(more, scope) :
          p \in Rebuilds(entries, scope)
            \/ (p = <<i, n + 1>> /\ Leads(entries[i].r, e.r) /\ WroteAgain(entries[i].r, e.r))
    BY <1>12, <1>14, <1>16, <1>18
  <2> QED BY <1>13, <1>15, <1>18, <2>1
<1> QED
  BY <1>1, <1>17, <1>18

\* What a turn is remembered by.
TurnOf(r) ==
  [key |-> TurnKey(r), expires |-> ExpirySeconds(r), established |-> r.usage.read + r.usage.write]

\* The state of a scope remembers the latest turn of each of its sessions.
TurnsKnown(st, entries, scope) ==
  /\ Keyed(st.turns) /\ Len(st.turns) <= Cardinality(UsedOf(entries))
  /\ Keyed(st.lastSeen) /\ Len(st.lastSeen) <= Cardinality(UsedOf(entries))
  /\ \A key : LET turns == TurnsOf(entries, scope, key) IN
       /\ Has(st.turns, key) <=> turns # {}
       /\ Has(st.lastSeen, key) <=> turns # {}
       /\ \A i \in turns : IsLatest(i, turns) =>
            Recall(st.turns, key) = TurnOf(entries[i].r) /\ Recall(st.lastSeen, key).at = entries[i].r.sent

\* ... and has counted its rebuilds.
RebuildsKnown(st, entries, scope) ==
  /\ Sequence(st.rebuilds) /\ Len(st.rebuilds) <= Cardinality(UsedOf(entries))
  /\ Cardinality({k \in 1 .. Len(st.rebuilds) : st.rebuilds[k]}) = Cardinality(Rebuilds(entries, scope))

SameTurns(new, old) == \A f \in TurnFields : new[f] = old[f]

LEMMA OneMoreUsed ==
  ASSUME NEW entries, Sequence(entries), NEW e, NEW more, more = Append(entries, e)
  PROVE  /\ Cardinality(UsedOf(entries)) \in Nat /\ Cardinality(UsedOf(more)) \in Nat
         /\ Cardinality(UsedOf(entries)) <= Cardinality(UsedOf(more))
         /\ e.usage => Cardinality(UsedOf(more)) = Cardinality(UsedOf(entries)) + 1
<1>1. PICK n, news : n = Len(entries) /\ news = IF e.usage THEN {n + 1} ELSE {}
  OBVIOUS
<1>2. Further(more, entries, e, n, news)
  BY <1>1, UsedGrow
<1>3. /\ UsedOf(more) = UsedOf(entries) \cup news /\ n \in Nat
      /\ \A i \in UsedOf(entries) : i \in 1 .. n
  BY <1>2 DEF Further
<1>4. n + 1 \notin UsedOf(entries)
  BY <1>3
<1>5. IsFiniteSet(UsedOf(entries)) /\ Cardinality(UsedOf(entries)) \in Nat
  BY UsedAreFinite
<1>6. Cardinality(UsedOf(entries) \cup {n + 1}) = Cardinality(UsedOf(entries)) + 1
  BY <1>4, <1>5, FS_AddElement
<1>7. CASE e.usage
  <2>1. news = {n + 1}
    BY <1>1, <1>7
  <2> QED BY <1>3, <1>5, <1>6, <2>1
<1>8. CASE ~e.usage
  <2>1. UsedOf(more) = UsedOf(entries)
    BY <1>1, <1>3, <1>8
  <2> QED BY <1>5, <1>8, <2>1
<1> QED
  BY <1>7, <1>8

\* A turn of another scope, or of no session, leaves a scope alone.
LEMMA OthersTurn ==
  ASSUME NEW entries, Sequence(entries), NEW e, NEW scope, NEW st, NEW new, SameTurns(new, st),
         ~(e.usage /\ RebuildScope(e.r) = scope /\ e.r.session # NoSession),
         TurnsKnown(st, entries, scope), RebuildsKnown(st, entries, scope)
  PROVE  TurnsKnown(new, Append(entries, e), scope) /\ RebuildsKnown(new, Append(entries, e), scope)
<1>1. PICK more, n, news : /\ more = Append(entries, e) /\ n = Len(entries)
                           /\ news = IF e.usage THEN {n + 1} ELSE {}
  OBVIOUS
<1>2. Further(more, entries, e, n, news)
  BY <1>1, UsedGrow
<1>3. ASSUME NEW key PROVE TurnsOf(more, scope, key) = TurnsOf(entries, scope, key)
  <2>1. TurnsOf(more, scope, key)
          = TurnsOf(entries, scope, key)
              \cup (IF RebuildScope(e.r) = scope /\ e.r.session # NoSession /\ TurnKey(e.r) = key
                    THEN news ELSE {})
    BY <1>2 DEF Further
  <2>2. CASE ~e.usage
    <3>1. news = {}
      BY <1>1, <2>2
    <3> QED BY <2>1, <3>1
  <2>3. CASE ~(RebuildScope(e.r) = scope /\ e.r.session # NoSession)
    BY <2>1, <2>3
  <2> QED BY <2>2, <2>3
<1>4. \A key : \A i \in TurnsOf(entries, scope, key) : more[i] = entries[i]
  BY <1>2 DEF Further, TurnsOf
<1>5. PICK c, d : c = Cardinality(UsedOf(entries)) /\ d = Cardinality(UsedOf(more))
  OBVIOUS
<1>6. c \in Nat /\ d \in Nat /\ c <= d
  BY <1>1, <1>5, OneMoreUsed
<1>7. new.turns = st.turns /\ new.lastSeen = st.lastSeen /\ new.rebuilds = st.rebuilds
  BY DEF SameTurns, TurnFields
<1>8. Rebuilds(more, scope) = Rebuilds(entries, scope)
  BY <1>1, RebuildsGrow
<1>9. /\ Keyed(st.turns) /\ Len(st.turns) \in Nat /\ Len(st.turns) <= c
      /\ Keyed(st.lastSeen) /\ Len(st.lastSeen) \in Nat /\ Len(st.lastSeen) <= c
      /\ Len(st.rebuilds) \in Nat /\ Len(st.rebuilds) <= c
  BY <1>5 DEF TurnsKnown, RebuildsKnown, Keyed, Sequence
<1>10. Len(st.turns) <= d /\ Len(st.lastSeen) <= d /\ Len(st.rebuilds) <= d
  BY <1>6, <1>9
<1>11. TurnsKnown(new, more, scope)
  BY <1>3, <1>4, <1>5, <1>7, <1>9, <1>10 DEF TurnsKnown
<1>12. RebuildsKnown(new, more, scope)
  BY <1>5, <1>7, <1>8, <1>10 DEF RebuildsKnown
<1> QED
  BY <1>1, <1>11, <1>12

\* A turn of the scope is remembered, and the others stay.
LEMMA OwnTurn ==
  ASSUME NEW entries, Sequence(entries), NEW e, NEW scope, NEW st, NEW new,
         e.usage, RebuildScope(e.r) = scope, e.r.session # NoSession, e.r.sent # Untimed,
         Cardinality(UsedOf(Append(entries, e))) <= MaxFiring,
         new.turns = TurnsAfter(st.turns, e.r), new.lastSeen = SeenAfter(st.lastSeen, e.r),
         TurnsKnown(st, entries, scope)
  PROVE  TurnsKnown(new, Append(entries, e), scope)
<1>1. PICK more, n, r, own : more = Append(entries, e) /\ n = Len(entries) /\ r = e.r /\ own = TurnKey(e.r)
  OBVIOUS
<1>2. Further(more, entries, e, n, {n + 1})
  BY <1>1, UsedGrow
<1>3. PICK c : c = Cardinality(UsedOf(entries))
  OBVIOUS
<1>4. c \in Nat /\ Cardinality(UsedOf(more)) = c + 1 /\ c + 1 <= MaxFiring /\ MaxFiring \in Nat \ {0}
  BY <1>1, <1>3, OneMoreUsed, MonitorAssumption
<1>5. PICK turn, seen : turn = TurnOf(r) /\ seen = [key |-> own, at |-> r.sent]
  OBVIOUS
<1>6. new.turns = Remember(st.turns, turn, MaxFiring) /\ new.lastSeen = Remember(st.lastSeen, seen, MaxFiring)
  BY <1>1, <1>5 DEF TurnsAfter, SeenAfter, TurnOf
<1>7. turn.key = own /\ seen.key = own /\ seen.at = r.sent
  BY <1>1, <1>5 DEF TurnOf
<1>8. /\ Keyed(st.turns) /\ Len(st.turns) \in Nat /\ Len(st.turns) <= c
      /\ Keyed(st.lastSeen) /\ Len(st.lastSeen) \in Nat /\ Len(st.lastSeen) <= c
  BY <1>3 DEF TurnsKnown, Keyed, Sequence
<1>9. Len(st.turns) < MaxFiring /\ Len(st.lastSeen) < MaxFiring
  BY <1>4, <1>8
<1>10. /\ Keyed(new.turns) /\ Len(new.turns) <= Len(st.turns) + 1
       /\ \A k : Has(new.turns, k) <=> k = own \/ Has(st.turns, k)
       /\ Recall(new.turns, own) = turn
       /\ \A k : k # own /\ Has(st.turns, k) => Recall(new.turns, k) = Recall(st.turns, k)
  BY <1>4, <1>6, <1>7, <1>8, <1>9, RememberIs
<1>11. /\ Keyed(new.lastSeen) /\ Len(new.lastSeen) <= Len(st.lastSeen) + 1
       /\ \A k : Has(new.lastSeen, k) <=> k = own \/ Has(st.lastSeen, k)
       /\ Recall(new.lastSeen, own) = seen
       /\ \A k : k # own /\ Has(st.lastSeen, k) => Recall(new.lastSeen, k) = Recall(st.lastSeen, k)
  BY <1>4, <1>6, <1>7, <1>8, <1>9, RememberIs
<1>12. Len(new.turns) <= c + 1 /\ Len(new.lastSeen) <= c + 1
  <2>1. Len(new.turns) \in Nat /\ Len(new.lastSeen) \in Nat
    BY <1>10, <1>11 DEF Keyed, Sequence
  <2> QED BY <1>4, <1>8, <1>10, <1>11, <2>1
<1>13. ASSUME NEW key
       PROVE  LET turns == TurnsOf(more, scope, key) IN
              /\ Has(new.turns, key) <=> turns # {}
              /\ Has(new.lastSeen, key) <=> turns # {}
              /\ \A i \in turns : IsLatest(i, turns) =>
                   Recall(new.turns, key) = TurnOf(more[i].r) /\ Recall(new.lastSeen, key).at = more[i].r.sent
  <2>1. PICK old, turns : old = TurnsOf(entries, scope, key) /\ turns = TurnsOf(more, scope, key)
    OBVIOUS
  <2>2. /\ Has(st.turns, key) <=> old # {}
        /\ Has(st.lastSeen, key) <=> old # {}
        /\ \A i \in old : IsLatest(i, old) =>
             Recall(st.turns, key) = TurnOf(entries[i].r) /\ Recall(st.lastSeen, key).at = entries[i].r.sent
    BY <2>1 DEF TurnsKnown
  <2>3. /\ turns = old \cup (IF own = key THEN {n + 1} ELSE {})
        /\ n \in Nat /\ more[n + 1] = e /\ \A i \in old : i \in 1 .. n /\ more[i] = entries[i]
    BY <1>1, <1>2, <2>1 DEF Further, TurnsOf
  <2>4. CASE key = own
    <3>1. turns = old \cup {n + 1}
      BY <2>3, <2>4
    <3>2. \A i \in turns : IsLatest(i, turns) => i = n + 1
      BY <2>3, <3>1 DEF IsLatest
    <3>3. more[n + 1].r = r
      BY <1>1, <2>3
    <3> QED BY <1>5, <1>7, <1>10, <1>11, <2>1, <2>4, <3>1, <3>2, <3>3
  <2>5. CASE key # own
    <3>1. turns = old
      BY <2>3, <2>5
    <3>2. \A i \in old : more[i] = entries[i]
      BY <2>3
    <3>3. Has(new.turns, key) <=> old # {}
      BY <1>10, <2>2, <2>5
    <3>4. Has(new.lastSeen, key) <=> old # {}
      BY <1>11, <2>2, <2>5
    <3>5. ASSUME NEW i \in old, IsLatest(i, old)
          PROVE  Recall(new.turns, key) = TurnOf(more[i].r) /\ Recall(new.lastSeen, key).at = more[i].r.sent
      <4>1. Recall(new.turns, key) = Recall(st.turns, key) /\ Recall(new.lastSeen, key) = Recall(st.lastSeen, key)
        BY <1>10, <1>11, <2>2, <2>5, <3>5
      <4> QED BY <2>2, <3>2, <3>5, <4>1
    <3> QED BY <2>1, <3>1, <3>3, <3>4, <3>5
  <2> QED BY <2>4, <2>5
<1>14. Keyed(new.turns) /\ Keyed(new.lastSeen)
  BY <1>10, <1>11
<1>15. Len(new.turns) <= Cardinality(UsedOf(more)) /\ Len(new.lastSeen) <= Cardinality(UsedOf(more))
  BY <1>4, <1>12
<1>16. TurnsKnown(new, more, scope)
  BY <1>13, <1>14, <1>15 DEF TurnsKnown
<1> QED
  BY <1>1, <1>16

TruesOf(s) == {k \in 1 .. Len(s) : s[k]}

LEMMA TruesPushed ==
  ASSUME NEW s, Sequence(s), NEW x, NEW cap \in Nat \ {0}, Len(s) < cap
  PROVE  LET new == Push(s, x, cap) IN
         /\ Sequence(new) /\ Len(new) = Len(s) + 1
         /\ Cardinality(TruesOf(s)) \in Nat
         /\ x => Cardinality(TruesOf(new)) = Cardinality(TruesOf(s)) + 1
         /\ ~x => TruesOf(new) = TruesOf(s)
<1>1. PICK new : new = Push(s, x, cap)
  OBVIOUS
<1>2. Len(s) \in Nat
  BY DEF Sequence
<1>3. /\ Sequence(new) /\ Len(new) = (IF Len(s) < cap THEN Len(s) + 1 ELSE cap)
      /\ new[Len(new)] = x
      /\ \A k \in 1 .. Len(new) - 1 : new[k] = s[k + (Len(s) + 1 - Len(new))]
  BY <1>1, PushIs
<1>4. Len(new) = Len(s) + 1
  BY <1>2, <1>3
<1>5. \A k \in 1 .. Len(s) : k \in 1 .. Len(new) - 1 /\ k + (Len(s) + 1 - Len(new)) = k
  BY <1>2, <1>4
<1>6. \A k \in 1 .. Len(s) : new[k] = s[k]
  BY <1>3, <1>5
<1>7. \A k : k \in 1 .. Len(new) <=> k \in 1 .. Len(s) \/ k = Len(s) + 1
  BY <1>2, <1>4
<1>8. IsFiniteSet(TruesOf(s)) /\ Cardinality(TruesOf(s)) \in Nat /\ Len(s) + 1 \notin TruesOf(s)
  <2>1. IsFiniteSet(1 .. Len(s))
    BY <1>2, FS_Interval
  <2>2. IsFiniteSet(TruesOf(s))
    BY <2>1, FS_Subset DEF TruesOf
  <2>3. Len(s) + 1 \notin TruesOf(s)
    BY <1>2 DEF TruesOf
  <2> QED BY <2>2, <2>3, FS_CardinalityType
<1>9. CASE x
  <2>1. TruesOf(new) = TruesOf(s) \cup {Len(s) + 1}
    BY <1>3, <1>4, <1>6, <1>7, <1>9 DEF TruesOf
  <2>2. Cardinality(TruesOf(new)) = Cardinality(TruesOf(s)) + 1
    BY <1>8, <2>1, FS_AddElement
  <2> QED BY <1>1, <1>3, <1>4, <1>8, <1>9, <2>2
<1>10. CASE ~x
  <2>1. TruesOf(new) = TruesOf(s)
    BY <1>3, <1>4, <1>6, <1>7, <1>10 DEF TruesOf
  <2> QED BY <1>1, <1>3, <1>4, <1>8, <1>10, <2>1
<1> QED
  BY <1>9, <1>10

\* Whether a turn follows the one before it.
LEMMA FollowsLatest ==
  ASSUME NEW entries, Sequence(entries), NEW scope, NEW st, TurnsKnown(st, entries, scope),
         NEW r, r.sent # Untimed
  PROVE  LET turns == TurnsOf(entries, scope, TurnKey(r)) IN
         /\ turns = {} => ~Follows(st, r, TurnKey(r))
         /\ \A i \in turns : IsLatest(i, turns) =>
              /\ Follows(st, r, TurnKey(r)) <=> Leads(entries[i].r, r)
              /\ (2 * r.usage.write >= Recall(st.turns, TurnKey(r)).established)
                   <=> WroteAgain(entries[i].r, r)
<1>1. PICK key, turns : key = TurnKey(r) /\ turns = TurnsOf(entries, scope, key)
  OBVIOUS
<1>2. /\ Has(st.turns, key) <=> turns # {}
      /\ Has(st.lastSeen, key) <=> turns # {}
      /\ \A i \in turns : IsLatest(i, turns) =>
           Recall(st.turns, key) = TurnOf(entries[i].r) /\ Recall(st.lastSeen, key).at = entries[i].r.sent
  BY <1>1 DEF TurnsKnown
<1>3. turns = {} => ~Follows(st, r, key)
  BY <1>2 DEF Follows
<1>4. ASSUME NEW i \in turns, IsLatest(i, turns)
      PROVE  /\ Follows(st, r, key) <=> Leads(entries[i].r, r)
             /\ (2 * r.usage.write >= Recall(st.turns, key).established) <=> WroteAgain(entries[i].r, r)
  <2>1. PICK a : a = entries[i].r
    OBVIOUS
  <2>2. /\ Recall(st.turns, key).established = a.usage.read + a.usage.write
        /\ Recall(st.turns, key).expires = ExpirySeconds(a)
        /\ Recall(st.lastSeen, key).at = a.sent
        /\ Has(st.turns, key) /\ Has(st.lastSeen, key)
    <3>1. Recall(st.turns, key) = TurnOf(a) /\ Recall(st.lastSeen, key).at = a.sent
      BY <1>2, <1>4, <2>1
    <3>2. Has(st.turns, key) /\ Has(st.lastSeen, key)
      BY <1>2, <1>4
    <3>3. TurnOf(a).established = a.usage.read + a.usage.write /\ TurnOf(a).expires = ExpirySeconds(a)
      BY DEF TurnOf
    <3> QED BY <3>1, <3>2, <3>3
  <2>3. Follows(st, r, key) <=> Leads(a, r)
    BY <2>2 DEF Follows, Leads
  <2>4. (2 * r.usage.write >= Recall(st.turns, key).established) <=> WroteAgain(a, r)
    BY <2>2 DEF WroteAgain
  <2> QED BY <2>1, <2>3, <2>4
<1> QED
  BY <1>1, <1>3, <1>4

LEMMA OwnRebuild ==
  ASSUME NEW entries, Sequence(entries), NEW e, NEW scope, NEW st, NEW new,
         e.usage, RebuildScope(e.r) = scope, e.r.session # NoSession, e.r.sent # Untimed,
         Cardinality(UsedOf(Append(entries, e))) <= Window,
         new.rebuilds = RebuildsAfter(st, e.r),
         TurnsKnown(st, entries, scope), RebuildsKnown(st, entries, scope)
  PROVE  RebuildsKnown(new, Append(entries, e), scope)
<1>1. PICK more, n, r, key, turns : /\ more = Append(entries, e) /\ n = Len(entries) /\ r = e.r
                                    /\ key = TurnKey(r) /\ turns = TurnsOf(entries, scope, key)
  OBVIOUS
<1>2. PICK c : c = Cardinality(UsedOf(entries))
  OBVIOUS
<1>3. c \in Nat /\ Cardinality(UsedOf(more)) = c + 1 /\ c + 1 <= Window /\ Window \in Nat \ {0}
  BY <1>1, <1>2, OneMoreUsed, MonitorAssumption
<1>4. PICK before, x, after : /\ before = st.rebuilds /\ after = new.rebuilds
                              /\ x = (2 * r.usage.write >= Recall(st.turns, key).established)
  OBVIOUS
<1>5. /\ Sequence(before) /\ Len(before) \in Nat /\ Len(before) <= c /\ Len(before) < Window
      /\ Cardinality(TruesOf(before)) = Cardinality(Rebuilds(entries, scope))
  BY <1>2, <1>3, <1>4 DEF RebuildsKnown, TruesOf, Sequence
<1>6. after = IF Follows(st, r, key) THEN Push(before, x, Window) ELSE before
  BY <1>1, <1>4 DEF RebuildsAfter
<1>7. IsFiniteSet(Rebuilds(entries, scope)) /\ Cardinality(Rebuilds(entries, scope)) \in Nat
  BY UsedAreFinite
<1>8. /\ turns = {} => ~Follows(st, r, key)
      /\ \A i \in turns : IsLatest(i, turns) =>
           (Follows(st, r, key) <=> Leads(entries[i].r, r)) /\ (x <=> WroteAgain(entries[i].r, r))
  BY <1>1, <1>4, FollowsLatest
<1>9. CASE turns = {}
  <2>1. after = before /\ Rebuilds(more, scope) = Rebuilds(entries, scope)
    BY <1>1, <1>6, <1>8, <1>9, RebuildsGrow
  <2>2. Len(after) <= c + 1
    BY <1>3, <1>5, <2>1
  <2> QED BY <1>1, <1>3, <1>4, <1>5, <2>1, <2>2 DEF RebuildsKnown, TruesOf
<1>10. CASE turns # {}
  <2>1. PICK i \in turns : IsLatest(i, turns)
    BY <1>1, <1>10, UsedAreFinite
  <2>2. PICK pairs : pairs = IF Leads(entries[i].r, r) /\ WroteAgain(entries[i].r, r)
                             THEN {<<i, n + 1>>} ELSE {}
    OBVIOUS
  <2>3. Rebuilds(more, scope) = Rebuilds(entries, scope) \cup pairs
    BY <1>1, <2>1, <2>2, RebuildsGrow
  <2>4. (Follows(st, r, key) <=> Leads(entries[i].r, r)) /\ (x <=> WroteAgain(entries[i].r, r))
    BY <1>8, <2>1
  <2>5. <<i, n + 1>> \notin Rebuilds(entries, scope)
    <3>1. n + 1 \notin UsedOf(entries)
      BY <1>1 DEF UsedOf, Sequence
    <3> QED BY <3>1 DEF Rebuilds
  <2>6. Cardinality(Rebuilds(entries, scope) \cup {<<i, n + 1>>}) = Cardinality(Rebuilds(entries, scope)) + 1
    BY <1>7, <2>5, FS_AddElement
  <2>7. /\ Sequence(Push(before, x, Window)) /\ Len(Push(before, x, Window)) = Len(before) + 1
        /\ x => Cardinality(TruesOf(Push(before, x, Window))) = Cardinality(TruesOf(before)) + 1
        /\ ~x => TruesOf(Push(before, x, Window)) = TruesOf(before)
    BY <1>3, <1>5, TruesPushed
  <2>8. Sequence(after) /\ Len(after) <= c + 1
    BY <1>3, <1>5, <1>6, <2>7
  <2>9. Cardinality(TruesOf(after)) = Cardinality(Rebuilds(more, scope))
    <3>1. CASE Follows(st, r, key) /\ x
      <4>1. pairs = {<<i, n + 1>>} /\ after = Push(before, x, Window)
        BY <1>6, <2>2, <2>4, <3>1
      <4> QED BY <1>5, <2>3, <2>6, <2>7, <3>1, <4>1
    <3>2. CASE Follows(st, r, key) /\ ~x
      <4>1. pairs = {} /\ after = Push(before, x, Window)
        BY <1>6, <2>2, <2>4, <3>2
      <4> QED BY <1>5, <2>3, <2>7, <3>2, <4>1
    <3>3. CASE ~Follows(st, r, key)
      <4>1. pairs = {} /\ after = before
        BY <1>6, <2>2, <2>4, <3>3
      <4> QED BY <1>5, <2>3, <4>1
    <3> QED BY <3>1, <3>2, <3>3
  <2> QED BY <1>1, <1>3, <1>4, <2>8, <2>9 DEF RebuildsKnown, TruesOf
<1> QED
  BY <1>9, <1>10

AllTimed(entries) == \A i \in UsedOf(entries) : entries[i].r.sent # Untimed

\* While nothing is dropped, and when every turn has a time.
AllTurnsHeld(entries) ==
  AllKept(entries) /\ AllTimed(entries) /\ Cardinality(UsedOf(entries)) <= Window

Knows(st, entries, scope) == TurnsKnown(st, entries, scope) /\ RebuildsKnown(st, entries, scope)

TurnsInv(t, entries) ==
  /\ ScopesInv(t, entries)
  /\ AllTurnsHeld(entries) => \A s \in Members(t.order) : Len(s) = 2 => Knows(t.state[s], entries, s)

LEMMA HeldTurnsBefore ==
  ASSUME NEW t, NEW entries, ScopesInv(t, entries), NEW e, AllTurnsHeld(Append(entries, e))
  PROVE  AllTurnsHeld(entries) /\ (e.usage => e.r.sent # Untimed)
<1>1. PICK more, n, news : more = Append(entries, e) /\ n = Len(entries) /\ news = IF e.usage THEN {n + 1} ELSE {}
  OBVIOUS
<1>2. Sequence(entries)
  BY DEF ScopesInv
<1>3. Further(more, entries, e, n, news)
  BY <1>1, <1>2, UsedGrow
<1>4. AllKept(entries)
  BY PlacedScopes DEF AllTurnsHeld
<1>5. Cardinality(UsedOf(entries)) <= Window
  <2>1. PICK c, d : c = Cardinality(UsedOf(entries)) /\ d = Cardinality(UsedOf(more))
    OBVIOUS
  <2>2. c \in Nat /\ d \in Nat /\ c <= d /\ d <= Window /\ Window \in Nat
    BY <1>1, <1>2, <2>1, OneMoreUsed, MonitorAssumption DEF AllTurnsHeld
  <2> QED BY <2>1, <2>2
<1>6. \A i \in UsedOf(more) : more[i].r.sent # Untimed
  BY <1>1 DEF AllTurnsHeld, AllTimed
<1>7. /\ UsedOf(more) = UsedOf(entries) \cup news /\ more[n + 1] = e
      /\ \A i \in UsedOf(entries) : more[i] = entries[i]
  BY <1>3 DEF Further
<1>8. AllTimed(entries)
  BY <1>6, <1>7 DEF AllTimed
<1>9. e.usage => e.r.sent # Untimed
  BY <1>1, <1>6, <1>7
<1> QED
  BY <1>4, <1>5, <1>8, <1>9 DEF AllTurnsHeld

\* A scope that was never seen has no turns.
LEMMA FreshKnows ==
  ASSUME NEW entries, Sequence(entries), NEW scope, scope \notin TouchedBy(entries)
  PROVE  Knows(FreshState, entries, scope)
<1>1. /\ FreshState.turns = <<>> /\ FreshState.lastSeen = <<>> /\ FreshState.rebuilds = <<>>
  BY DEF FreshState
<1>2. Sequence(<<>>) /\ Len(<<>>) = 0 /\ DOMAIN <<>> = {}
  BY EmptyIs DEF Sequence
<1>3. \A key : TurnsOf(entries, scope, key) = {}
  BY ChainsAreTouched DEF TurnsOf, UsedOf
<1>4. Rebuilds(entries, scope) = {}
  BY <1>3 DEF Rebuilds
<1>5. Cardinality(UsedOf(entries)) \in Nat
  BY UsedAreFinite
<1>6. Keyed(<<>>) /\ \A key : ~Has(<<>>, key)
  BY <1>2 DEF Keyed, Has
<1>7. TurnsKnown(FreshState, entries, scope)
  BY <1>1, <1>2, <1>3, <1>5, <1>6 DEF TurnsKnown
<1>8. {k \in 1 .. Len(<<>>) : <<>>[k]} = {}
  BY <1>2
<1>9. RebuildsKnown(FreshState, entries, scope)
  BY <1>1, <1>2, <1>4, <1>5, <1>8 DEF RebuildsKnown
<1> QED
  BY <1>7, <1>9 DEF Knows

TurnTaken(new, a, r) ==
  /\ new.turns = TurnsAfter(a.turns, r) /\ new.lastSeen = SeenAfter(a.lastSeen, r)
  /\ new.rebuilds = RebuildsAfter(a, r)

\* What a scope's state becomes as far as turns go.
LEMMA ScopeTurns ==
  ASSUME NEW a, IsFull(a), NEW s, Len(s) = 2, NEW r, NEW shape \in BOOLEAN, NEW usage \in BOOLEAN,
         NEW new, new = ObservedAs(a, s, r, shape, usage)
  PROVE  /\ ~(usage /\ RebuildScope(r) = s /\ r.session # NoSession) => SameTurns(new, a)
         /\ usage /\ RebuildScope(r) = s /\ r.session # NoSession => TurnTaken(new, a, r)
<1>1. s # ReuseChainOf(r) /\ s # PoolOf(r)
  BY ScopesDiffer
<1>2. ShapedAs(a, s, r, shape) = a
  BY <1>1 DEF ShapedAs
<1>3. new = IF usage /\ s = RebuildScope(r) /\ r.session # NoSession THEN TrackTurn(a, r) ELSE a
  BY <1>1, <1>2 DEF ObservedAs, UsedAs
<1>4. CASE ~(usage /\ RebuildScope(r) = s /\ r.session # NoSession)
  BY <1>3, <1>4 DEF SameTurns
<1>5. CASE usage /\ RebuildScope(r) = s /\ r.session # NoSession
  BY <1>3, <1>5, TurnIs DEF TurnTaken
<1> QED
  BY <1>4, <1>5

LEMMA TurnsStep ==
  ASSUME Window <= MaxFiring, NEW t, NEW entries, TurnsInv(t, entries), NEW e,
         e.shape \in BOOLEAN, e.usage \in BOOLEAN, e.shape => HasSegs(e.r)
  PROVE  TurnsInv(Observing(t, e.r, e.shape, e.usage).table, Append(entries, e))
<1>1. PICK more, r, shape, usage :
        more = Append(entries, e) /\ r = e.r /\ shape = e.shape /\ usage = e.usage
  OBVIOUS
<1>2. shape \in BOOLEAN /\ usage \in BOOLEAN /\ (shape => HasSegs(r))
  BY <1>1
<1>3. PICK p, out, after : p = Placed(t, r) /\ out = Observing(t, r, shape, usage) /\ after = out.table
  OBVIOUS
<1>4. ScopesInv(t, entries) /\ FullTable(t) /\ Sequence(entries)
  BY DEF TurnsInv, ScopesInv
<1>5. ScopesInv(after, more)
  BY <1>1, <1>3, <1>4, ScopesStep
<1>6. ObservedTo(out, p, r, shape, usage)
  BY <1>2, <1>3, <1>4, ObservingIs
<1>7. /\ FullTable(after) /\ after.order = p.order
      /\ \A s \in Members(p.order) : Same(after.state[s], ObservedAs(p.state[s], s, r, shape, usage))
  BY <1>3, <1>6 DEF ObservedTo
<1>8. FullTable(p)
  BY <1>3, <1>4, PlacedIs DEF PlacedAs
<1>9. ASSUME AllTurnsHeld(more), NEW s \in Members(p.order), Len(s) = 2
      PROVE  Knows(after.state[s], more, s)
  <2>1. AllTurnsHeld(entries) /\ (usage => r.sent # Untimed)
    BY <1>1, <1>4, <1>9, HeldTurnsBefore
  <2>2. Grown(p, t) /\ Members(t.order) = TouchedBy(entries)
    BY <1>1, <1>3, <1>4, <1>9, PlacedScopes DEF AllTurnsHeld
  <2>3. PICK a : a = p.state[s]
    OBVIOUS
  <2>4. IsFull(a)
    BY <1>8, <1>9, <2>3 DEF FullTable
  <2>5. Knows(a, entries, s)
    <3>1. CASE s \in Members(t.order)
      BY <1>9, <2>1, <2>2, <2>3, <3>1 DEF TurnsInv, Grown
    <3>2. CASE s \notin Members(t.order)
      BY <1>4, <1>9, <2>2, <2>3, <3>2, FreshKnows DEF Grown
    <3> QED BY <3>1, <3>2
  <2>6. PICK new, obs : new = after.state[s] /\ obs = ObservedAs(a, s, r, shape, usage)
    OBVIOUS
  <2>7. new.turns = obs.turns /\ new.lastSeen = obs.lastSeen /\ new.rebuilds = obs.rebuilds
    BY <1>7, <1>9, <2>3, <2>6 DEF Same, StateFields
  <2>8. CASE ~(usage /\ RebuildScope(r) = s /\ r.session # NoSession)
    <3>1. SameTurns(obs, a)
      BY <1>2, <1>9, <2>4, <2>6, <2>8, ScopeTurns
    <3>2. SameTurns(new, a)
      BY <2>7, <3>1 DEF SameTurns, TurnFields
    <3> QED BY <1>1, <1>4, <2>5, <2>6, <2>8, <3>2, OthersTurn DEF Knows
  <2>9. CASE usage /\ RebuildScope(r) = s /\ r.session # NoSession
    <3>1. /\ new.turns = TurnsAfter(a.turns, r) /\ new.lastSeen = SeenAfter(a.lastSeen, r)
          /\ new.rebuilds = RebuildsAfter(a, r)
      <4>1. TurnTaken(obs, a, r)
        BY <1>2, <1>9, <2>4, <2>6, <2>9, ScopeTurns
      <4>2. RebuildsAfter(a, r) = obs.rebuilds
        BY <4>1 DEF TurnTaken
      <4> QED BY <2>7, <4>1, <4>2 DEF TurnTaken
    <3>2. TurnsKnown(a, entries, s) /\ RebuildsKnown(a, entries, s)
      BY <2>5 DEF Knows
    <3>3. Cardinality(UsedOf(more)) <= Window /\ Cardinality(UsedOf(more)) <= MaxFiring
      <4>1. PICK d : d = Cardinality(UsedOf(more))
        OBVIOUS
      <4>2. d \in Nat /\ d <= Window /\ Window \in Nat /\ MaxFiring \in Nat
        BY <1>1, <1>4, <1>9, <4>1, OneMoreUsed, MonitorAssumption DEF AllTurnsHeld
      <4> QED BY <4>1, <4>2
    <3>4. TurnsKnown(new, more, s)
      BY <1>1, <1>4, <2>1, <2>9, <3>1, <3>2, <3>3, OwnTurn
    <3>5. RebuildsKnown(new, more, s)
      BY <1>1, <1>4, <2>1, <2>9, <3>1, <3>2, <3>3, OwnRebuild
    <3> QED BY <2>6, <3>4, <3>5 DEF Knows
  <2> QED BY <2>8, <2>9
<1> QED
  BY <1>1, <1>3, <1>5, <1>7, <1>9 DEF TurnsInv

LEMMA TurnsCleared ==
  ASSUME NEW t, NEW entries, TurnsInv(t, entries), NEW u, OnlyFired(u, t)
  PROVE  TurnsInv(u, entries)
<1>1. ScopesInv(u, entries)
  BY RecencyKept DEF TurnsInv
<1>2. u.order = t.order
  BY DEF OnlyFired
<1>3. ASSUME NEW s \in Members(t.order), Knows(t.state[s], entries, s)
      PROVE  Knows(u.state[s], entries, s)
  <2>1. PICK old, new : old = t.state[s] /\ new = u.state[s]
    OBVIOUS
  <2>2. new.turns = old.turns /\ new.lastSeen = old.lastSeen /\ new.rebuilds = old.rebuilds
    BY <2>1 DEF OnlyFired, Same, StateFields
  <2> QED BY <1>3, <2>1, <2>2 DEF Knows, TurnsKnown, RebuildsKnown
<1> QED
  BY <1>1, <1>2, <1>3 DEF TurnsInv

LEMMA TurnsStay ==
  ASSUME Window <= MaxFiring, TurnsInv(table, log),
         \/ UNCHANGED monitorVars
         \/ \E r : \E shape, usage \in BOOLEAN :
              (shape => HasSegs(r)) /\ Observes(r, shape, usage)
         \/ \E scope, code : Clear(scope, code)
  PROVE  TurnsInv(table, log)'
<1>1. CASE UNCHANGED monitorVars
  BY <1>1 DEF monitorVars
<1>2. ASSUME NEW r, NEW shape \in BOOLEAN, NEW usage \in BOOLEAN,
             shape => HasSegs(r), Observes(r, shape, usage)
      PROVE  TurnsInv(table, log)'
  <2>1. PICK e : e = Entry(r, shape, usage)
    OBVIOUS
  <2>2. e.r = r /\ e.shape = shape /\ e.usage = usage
    BY <2>1 DEF Entry
  <2>3. table' = Observing(table, e.r, e.shape, e.usage).table /\ log' = Append(log, e)
    BY <1>2, <2>1, <2>2 DEF Observes
  <2>4. TurnsInv(Observing(table, e.r, e.shape, e.usage).table, Append(log, e))
    BY <1>2, <2>2, TurnsStep
  <2> QED BY <2>3, <2>4
<1>3. ASSUME NEW scope, NEW code, Clear(scope, code) PROVE TurnsInv(table, log)'
  <2>1. OnlyFired(table', table) /\ UNCHANGED log
    BY <1>3, ClearIs DEF TurnsInv, ScopesInv
  <2>2. TurnsInv(table', log)
    BY <2>1, TurnsCleared
  <2> QED BY <2>1, <2>2
<1> QED
  BY <1>1, <1>2, <1>3

LEMMA TurnsStart == MonitorInit => TurnsInv(table, log)
<1> SUFFICES ASSUME MonitorInit PROVE TurnsInv(table, log)
  OBVIOUS
<1>1. ScopesInv(table, log)
  BY MonitorStarts DEF MonitorInv
<1>2. table.order = <<>>
  BY DEF MonitorInit
<1>3. Members(table.order) = {}
  BY <1>2, EmptyIs DEF Members
<1> QED
  BY <1>1, <1>3 DEF TurnsInv

\* What the analyzer counts is the pairs.
LEMMA BatchIs ==
  ASSUME Sequence(log), AllTimed(log), NEW s
  PROVE  /\ Used = UsedOf(log)
         /\ BatchRebuilds([i \in Used |-> log[i].r], s) = Cardinality(Rebuilds(log, s))
<1>1. Used = UsedOf(log)
  BY DEF Used, UsedOf, Sequence
<1>2. PICK rs : rs = [i \in Used |-> log[i].r]
  OBVIOUS
<1>3. DOMAIN rs = UsedOf(log) /\ \A i \in UsedOf(log) : rs[i] = log[i].r
  BY <1>1, <1>2
<1> DEFINE same(a, r) == /\ RebuildScope(r) = s /\ r.session # NoSession /\ r.sent # Untimed
                         /\ <<r.agent, r.session>> = <<a.agent, a.session>>
           pair(i, j) == /\ i < j /\ same(rs[i], rs[i]) /\ same(rs[i], rs[j])
                         /\ \A k \in DOMAIN rs : i < k /\ k < j => ~same(rs[i], rs[k])
                         /\ rs[i].usage.read + rs[i].usage.write > 0 /\ ExpirySeconds(rs[i]) # Unknown
                         /\ rs[j].sent - rs[i].sent < ExpirySeconds(rs[i])
                         /\ 2 * rs[j].usage.write >= rs[i].usage.read + rs[i].usage.write
<1>4. BatchRebuilds(rs, s) = Cardinality({p \in UsedOf(log) \X UsedOf(log) : pair(p[1], p[2])})
  BY <1>3 DEF BatchRebuilds
<1>5. ASSUME NEW a \in UsedOf(log), NEW k \in UsedOf(log)
      PROVE  same(rs[a], rs[k]) <=> k \in TurnsOf(log, s, TurnKey(log[a].r))
  <2>1. rs[a] = log[a].r /\ rs[k] = log[k].r /\ log[k].r.sent # Untimed
    BY <1>3 DEF AllTimed
  <2> QED BY <2>1 DEF TurnsOf, TurnKey
<1>6. ASSUME NEW i \in UsedOf(log), NEW j \in UsedOf(log)
      PROVE  pair(i, j) <=>
               LET key == TurnKey(log[i].r) IN
               /\ i < j /\ i \in TurnsOf(log, s, key) /\ j \in TurnsOf(log, s, key)
               /\ \A k \in TurnsOf(log, s, key) : ~(i < k /\ k < j)
               /\ Leads(log[i].r, log[j].r) /\ WroteAgain(log[i].r, log[j].r)
  <2>1. rs[i] = log[i].r /\ rs[j] = log[j].r
    BY <1>3
  <2>2. PICK turns : turns = TurnsOf(log, s, TurnKey(log[i].r))
    OBVIOUS
  <2>3. turns \subseteq UsedOf(log)
    BY <2>2 DEF TurnsOf
  <2>4. /\ same(rs[i], rs[i]) <=> i \in turns
        /\ same(rs[i], rs[j]) <=> j \in turns
        /\ \A k \in UsedOf(log) : same(rs[i], rs[k]) <=> k \in turns
    BY <1>5, <2>2
  <2>5. (\A k \in DOMAIN rs : i < k /\ k < j => ~same(rs[i], rs[k]))
          <=> \A k \in turns : ~(i < k /\ k < j)
    BY <1>3, <2>3, <2>4
  <2>6. /\ rs[i].usage.read + rs[i].usage.write > 0 /\ ExpirySeconds(rs[i]) # Unknown
        /\ rs[j].sent - rs[i].sent < ExpirySeconds(rs[i])
        <=> Leads(log[i].r, log[j].r)
    BY <2>1 DEF Leads
  <2>7. 2 * rs[j].usage.write >= rs[i].usage.read + rs[i].usage.write <=> WroteAgain(log[i].r, log[j].r)
    BY <2>1 DEF WroteAgain
  <2> HIDE DEF same
  <2> QED BY <2>2, <2>4, <2>5, <2>6, <2>7
<1> HIDE DEF pair
<1>7. {p \in UsedOf(log) \X UsedOf(log) : pair(p[1], p[2])} = Rebuilds(log, s)
  BY <1>6 DEF Rebuilds
<1> QED
  BY <1>1, <1>2, <1>4, <1>7

LEMMA TurnsSaySo == TurnsInv(table, log) => RuntimeCountsRebuilds
<1>1. PICK rs : rs = [i \in Used |-> log[i].r]
  OBVIOUS
<1> SUFFICES ASSUME TurnsInv(table, log), UsedInOrder, Cardinality(DOMAIN rs) <= Window,
                    NothingForgotten, NEW s \in DOMAIN table.state, Len(s) = 2
             PROVE  Cardinality({i \in DOMAIN table.state[s].rebuilds : table.state[s].rebuilds[i]})
                      = BatchRebuilds(rs, s)
  BY <1>1 DEF RuntimeCountsRebuilds, RebuildsCounted
<1>2. FullTable(table) /\ Sequence(log)
  BY DEF TurnsInv, ScopesInv
<1>3. Used = UsedOf(log)
  BY <1>2 DEF Used, UsedOf, Sequence
<1>4. AllTimed(log)
  BY <1>3 DEF UsedInOrder, AllTimed
<1>5. AllKept(log)
  BY <1>2, TouchesAre DEF NothingForgotten, AllKept
<1>6. Cardinality(UsedOf(log)) <= Window
  BY <1>1, <1>3
<1>7. s \in Members(table.order)
  BY <1>2, FullIsTable
<1>8. Knows(table.state[s], log, s)
  BY <1>4, <1>5, <1>6, <1>7 DEF TurnsInv, AllTurnsHeld
<1>9. PICK flags : flags = table.state[s].rebuilds
  OBVIOUS
<1>10. Sequence(flags) /\ Cardinality({k \in 1 .. Len(flags) : flags[k]}) = Cardinality(Rebuilds(log, s))
  BY <1>8, <1>9 DEF Knows, RebuildsKnown
<1>11. DOMAIN flags = 1 .. Len(flags)
  BY <1>10 DEF Sequence
<1>12. BatchRebuilds(rs, s) = Cardinality(Rebuilds(log, s))
  BY <1>1, <1>2, <1>4, BatchIs
<1> QED
  BY <1>9, <1>10, <1>11, <1>12

\* Responses that are observed in the order their requests were sent, with times: while
\* nothing is dropped, the turns a scope counts as rebuilds are those that the
\* analyzer's walk over the finished trace counts (_track_turn, _f_prefix_rebuild). The
\* map of sessions must hold as many turns as the window (MAX_FIRING and WINDOW are
\* both 64).
THEOREM RebuildsAreCounted ==
  ASSUME NEW CONSTANT configs, NEW CONSTANT requests, NEW CONSTANT usages,
         \A r \in requests : IsRequest(r), Window <= MaxFiring
  PROVE  PluginSpec(configs, requests, usages) => []RuntimeCountsRebuilds
<1>1. PluginInit(configs) => TurnsInv(table, log)
  BY TurnsStart DEF PluginInit
<1>2. TurnsInv(table, log) /\ [PluginNext(requests, usages)]_<<monitorVars, pluginVars>>
        => TurnsInv(table, log)'
  BY MonitorSteps, TurnsStay
<1>3. TurnsInv(table, log) => RuntimeCountsRebuilds
  BY TurnsSaySo
<1> QED
  BY <1>1, <1>2, <1>3, PTL DEF PluginSpec

--------------------
(* Rebuilt turns of calls, and of what was observed of them.                     *)

\* What the analyzer's walk reads of a request.
Alike(a, b) ==
  /\ RebuildScope(a) = RebuildScope(b) /\ a.session = b.session /\ a.agent = b.agent
  /\ a.sent = b.sent /\ a.usage = b.usage /\ ExpirySeconds(a) = ExpirySeconds(b)

SameTurn(a, r, s) ==
  /\ RebuildScope(r) = s /\ r.session # NoSession /\ r.sent # Untimed
  /\ <<r.agent, r.session>> = <<a.agent, a.session>>

BatchPair(rs, s, i, j) ==
  /\ i < j /\ SameTurn(rs[i], rs[i], s) /\ SameTurn(rs[i], rs[j], s)
  /\ \A k \in DOMAIN rs : i < k /\ k < j => ~SameTurn(rs[i], rs[k], s)
  /\ Leads(rs[i], rs[j]) /\ WroteAgain(rs[i], rs[j])

BatchPairs(rs, s) == {p \in (DOMAIN rs) \X (DOMAIN rs) : BatchPair(rs, s, p[1], p[2])}

LEMMA BatchCounts ==
  ASSUME NEW rs, NEW s
  PROVE  BatchRebuilds(rs, s) = Cardinality(BatchPairs(rs, s))
BY DEF BatchRebuilds, BatchPairs, BatchPair, SameTurn, Leads, WroteAgain

\* The same requests in the same order, under other places.
InStep(f, rs, qs) ==
  /\ f \in [DOMAIN rs -> DOMAIN qs]
  /\ \A j \in DOMAIN qs : \E i \in DOMAIN rs : f[i] = j
  /\ \A i, j \in DOMAIN rs : (i < j <=> f[i] < f[j]) /\ (f[i] = f[j] => i = j)
  /\ \A i \in DOMAIN rs : Alike(rs[i], qs[f[i]])

LEMMA AlikePairs ==
  ASSUME NEW rs, NEW qs, NEW f, InStep(f, rs, qs), NEW s, NEW i \in DOMAIN rs, NEW j \in DOMAIN rs
  PROVE  BatchPair(rs, s, i, j) <=> BatchPair(qs, s, f[i], f[j])
<1>1. /\ f[i] \in DOMAIN qs /\ f[j] \in DOMAIN qs /\ (i < j <=> f[i] < f[j])
      /\ Alike(rs[i], qs[f[i]]) /\ Alike(rs[j], qs[f[j]])
  BY DEF InStep
<1>2. \A k \in DOMAIN rs : SameTurn(rs[i], rs[k], s) <=> SameTurn(qs[f[i]], qs[f[k]], s)
  BY <1>1 DEF InStep, Alike, SameTurn
<1>3. Leads(rs[i], rs[j]) <=> Leads(qs[f[i]], qs[f[j]])
  BY <1>1 DEF Alike, Leads
<1>4. WroteAgain(rs[i], rs[j]) <=> WroteAgain(qs[f[i]], qs[f[j]])
  BY <1>1 DEF Alike, WroteAgain
<1>5. (\A k \in DOMAIN rs : i < k /\ k < j => ~SameTurn(rs[i], rs[k], s))
        <=> \A k \in DOMAIN qs : f[i] < k /\ k < f[j] => ~SameTurn(qs[f[i]], qs[k], s)
  <2>1. ASSUME \A k \in DOMAIN rs : i < k /\ k < j => ~SameTurn(rs[i], rs[k], s),
               NEW k \in DOMAIN qs, f[i] < k, k < f[j]
        PROVE  ~SameTurn(qs[f[i]], qs[k], s)
    <3>1. PICK m \in DOMAIN rs : f[m] = k
      BY DEF InStep
    <3>2. i < m /\ m < j
      BY <2>1, <3>1 DEF InStep
    <3> QED BY <1>2, <2>1, <3>1, <3>2
  <2>2. ASSUME \A k \in DOMAIN qs : f[i] < k /\ k < f[j] => ~SameTurn(qs[f[i]], qs[k], s),
               NEW k \in DOMAIN rs, i < k, k < j
        PROVE  ~SameTurn(rs[i], rs[k], s)
    <3>1. f[k] \in DOMAIN qs /\ f[i] < f[k] /\ f[k] < f[j]
      BY <2>2 DEF InStep
    <3> QED BY <1>2, <2>2, <3>1
  <2> QED BY <2>1, <2>2
<1> QED
  BY <1>1, <1>2, <1>3, <1>4, <1>5 DEF BatchPair

LEMMA SameBatch ==
  ASSUME NEW rs, NEW qs, NEW f, InStep(f, rs, qs), IsFiniteSet(DOMAIN rs), NEW s
  PROVE  /\ BatchRebuilds(rs, s) = BatchRebuilds(qs, s)
         /\ Cardinality(DOMAIN rs) = Cardinality(DOMAIN qs)
<1>1. Cardinality(DOMAIN rs) = Cardinality(DOMAIN qs)
  <2>1. f \in Bijection(DOMAIN rs, DOMAIN qs)
    BY DEF InStep, Bijection, Injection, Surjection, IsInjective
  <2>2. ExistsBijection(DOMAIN rs, DOMAIN qs)
    BY <2>1 DEF ExistsBijection
  <2> QED BY <2>2, FS_Bijection
<1>2. PICK P, Q : P = BatchPairs(rs, s) /\ Q = BatchPairs(qs, s)
  OBVIOUS
<1>3. IsFiniteSet(P)
  <2>1. IsFiniteSet((DOMAIN rs) \X (DOMAIN rs))
    BY FS_Product
  <2> QED BY <1>2, <2>1, FS_Subset DEF BatchPairs
<1>4. PICK g : g = [p \in P |-> <<f[p[1]], f[p[2]]>>]
  OBVIOUS
<1>5. \A p \in P : p = <<p[1], p[2]>> /\ p[1] \in DOMAIN rs /\ p[2] \in DOMAIN rs /\ BatchPair(rs, s, p[1], p[2])
  BY <1>2 DEF BatchPairs
<1>6. \A p \in P : g[p] \in Q
  <2> SUFFICES ASSUME NEW p \in P PROVE g[p] \in Q
    OBVIOUS
  <2>1. BatchPair(qs, s, f[p[1]], f[p[2]])
    BY <1>5, AlikePairs
  <2>2. f[p[1]] \in DOMAIN qs /\ f[p[2]] \in DOMAIN qs
    BY <1>5 DEF InStep
  <2> QED BY <1>2, <1>4, <2>1, <2>2 DEF BatchPairs
<1>7. \A p, q \in P : g[p] = g[q] => p = q
  BY <1>4, <1>5 DEF InStep
<1>8. \A q \in Q : \E p \in P : g[p] = q
  <2> SUFFICES ASSUME NEW q \in Q PROVE \E p \in P : g[p] = q
    OBVIOUS
  <2>1. q = <<q[1], q[2]>> /\ q[1] \in DOMAIN qs /\ q[2] \in DOMAIN qs /\ BatchPair(qs, s, q[1], q[2])
    BY <1>2 DEF BatchPairs
  <2>2. PICK i, j \in DOMAIN rs : f[i] = q[1] /\ f[j] = q[2]
    BY <2>1 DEF InStep
  <2>3. BatchPair(rs, s, i, j)
    BY <2>1, <2>2, AlikePairs
  <2>4. <<i, j>> \in P
    BY <1>2, <2>3 DEF BatchPairs
  <2>5. g[<<i, j>>] = q
    BY <1>4, <2>1, <2>2, <2>4
  <2> QED BY <2>4, <2>5
<1>9. ExistsBijection(P, Q)
  <2>1. g \in [P -> Q] /\ DOMAIN g = P
    BY <1>4, <1>6
  <2>2. g \in Bijection(P, Q)
    BY <1>7, <1>8, <2>1 DEF Bijection, Injection, Surjection, IsInjective
  <2> QED BY <2>2 DEF ExistsBijection
<1>10. Cardinality(P) = Cardinality(Q)
  BY <1>3, <1>9, FS_Bijection
<1> QED
  BY <1>1, <1>2, <1>10, BatchCounts

LEMMA MarkersAreRead ==
  ASSUME NEW a, NEW b, a.segs = b.segs
  PROVE  Marked(a) = Marked(b) /\ MarkerLifetimes(a) = MarkerLifetimes(b)
<1>1. Marked(a) = Marked(b)
  BY DEF Marked
<1> QED
  BY <1>1 DEF MarkerLifetimes

ExpiryOver(lifetimes) ==
  IF lifetimes \subseteq DOMAIN Seconds THEN Max({Seconds[l] : l \in lifetimes}) ELSE Unknown

LEMMA ExpiryIs ==
  ASSUME NEW r
  PROVE  \E declared : ExpirySeconds(r)
           = ExpiryOver(IF r.usage.split # {} THEN r.usage.split
                        ELSE IF MarkerLifetimes(r) # {} THEN MarkerLifetimes(r) ELSE {declared})
<1> DEFINE declared == LET named == {i \in Marked(r) : r.segs[i].ttl # Silent}
                       IN IF named = {} THEN r.declared
                          ELSE r.segs[CHOOSE i \in named : \A j \in named : i <= j].ttl
<1>1. ExpirySeconds(r)
        = ExpiryOver(IF r.usage.split # {} THEN r.usage.split
                     ELSE IF MarkerLifetimes(r) # {} THEN MarkerLifetimes(r) ELSE {declared})
  BY Zenon DEF ExpirySeconds, ExpiryOver
<1> HIDE DEF declared
<1> QED
  BY <1>1, Zenon

\* What a request declares does not matter when its markers or its response tell how
\* long its entries live.
LEMMA ExpiryIsTold ==
  ASSUME NEW a, NEW b, a.segs = b.segs, a.usage = b.usage,
         a.usage.split # {} \/ \E i \in DOMAIN a.segs : a.segs[i].ttl \notin {Unmarked, Silent}
  PROVE  ExpirySeconds(a) = ExpirySeconds(b)
<1>1. MarkerLifetimes(a) = MarkerLifetimes(b)
  BY MarkersAreRead
<1>2. a.usage.split # {} \/ MarkerLifetimes(a) # {}
  <2>1. CASE \E i \in DOMAIN a.segs : a.segs[i].ttl \notin {Unmarked, Silent}
    <3>1. PICK i \in DOMAIN a.segs : a.segs[i].ttl \notin {Unmarked, Silent}
      BY <2>1
    <3>2. i \in Marked(a)
      BY <3>1 DEF Marked
    <3>3. PICK named : named = {a.segs[j].ttl : j \in Marked(a)} \ {Silent}
      OBVIOUS
    <3>4. a.segs[i].ttl \in named
      BY <3>1, <3>2, <3>3
    <3>5. named \subseteq MarkerLifetimes(a)
      BY <3>3 DEF MarkerLifetimes
    <3> QED BY <3>4, <3>5
  <2> QED BY <2>1
<1>3. PICK known : known = IF a.usage.split # {} THEN a.usage.split ELSE MarkerLifetimes(a)
  OBVIOUS
<1>4. ASSUME NEW q, q.usage = a.usage, MarkerLifetimes(q) = MarkerLifetimes(a)
      PROVE  ExpirySeconds(q) = ExpiryOver(known)
  <2>1. PICK declared : ExpirySeconds(q)
           = ExpiryOver(IF q.usage.split # {} THEN q.usage.split
                        ELSE IF MarkerLifetimes(q) # {} THEN MarkerLifetimes(q) ELSE {declared})
    BY ExpiryIs
  <2>2. (IF q.usage.split # {} THEN q.usage.split
         ELSE IF MarkerLifetimes(q) # {} THEN MarkerLifetimes(q) ELSE {declared}) = known
    BY <1>2, <1>3, <1>4
  <2> QED BY <2>1, <2>2
<1>5. ExpirySeconds(a) = ExpiryOver(known)
  BY <1>4
<1>6. ExpirySeconds(b) = ExpiryOver(known)
  BY <1>1, <1>4
<1> QED
  BY <1>5, <1>6

\* What is observed of a response to a call.
AnswerOf(r, call) ==
  /\ \A f \in RequestFields \ {"segs", "usage", "declared"} : r[f] = call.asked[f]
  /\ r.segs = call.wire /\ r.usage = call.usage

AnsweredOf(cs) == {c \in 1 .. Len(cs) : cs[c].answer = "used" /\ cs[c].usage # Absent}

\* Calls are made one after another.
SentInOrder(cs) ==
  \A c \in 1 .. Len(cs) : /\ cs[c].asked.sent \in Int
                          /\ \A d \in 1 .. Len(cs) : c < d => cs[c].asked.sent < cs[d].asked.sent

\* The usages that were observed are those of the calls that were answered.
RecordInv(entries, cs) ==
  /\ \A i \in UsedOf(entries) : \E c \in AnsweredOf(cs) : AnswerOf(entries[i].r, cs[c])
  /\ \A c \in AnsweredOf(cs) : \E i \in UsedOf(entries) : AnswerOf(entries[i].r, cs[c])
  /\ \A i, j \in UsedOf(entries) : entries[i].r.sent = entries[j].r.sent => i = j

\* What waits says what went on the wire.
WiresInv == \A q \in Members(pending) : q.r.segs = calls[q.key].wire

LEMMA NotUsedRecorded ==
  ASSUME NEW entries, Sequence(entries), NEW e, ~e.usage, NEW cs, RecordInv(entries, cs)
  PROVE  RecordInv(Append(entries, e), cs)
<1>1. PICK more, n, news : more = Append(entries, e) /\ n = Len(entries) /\ news = IF e.usage THEN {n + 1} ELSE {}
  OBVIOUS
<1>2. Further(more, entries, e, n, news)
  BY <1>1, UsedGrow
<1>3. UsedOf(more) = UsedOf(entries) /\ \A i \in UsedOf(entries) : more[i] = entries[i]
  BY <1>1, <1>2 DEF Further
<1> QED
  BY <1>1, <1>3 DEF RecordInv

LEMMA CallRecorded ==
  ASSUME NEW entries, NEW cs, Sequence(cs), NEW call, call.answer # "used", RecordInv(entries, cs)
  PROVE  RecordInv(entries, Append(cs, call))
<1>1. PICK ds, n : ds = Append(cs, call) /\ n = Len(cs)
  OBVIOUS
<1>2. /\ n \in Nat /\ Len(ds) = n + 1 /\ ds[n + 1] = call
      /\ \A c \in 1 .. n : ds[c] = cs[c]
  BY <1>1, AppendIs DEF Sequence
<1>3. AnsweredOf(ds) = AnsweredOf(cs)
  <2>1. \A c : c \in 1 .. n + 1 <=> c \in 1 .. n \/ c = n + 1
    BY <1>2
  <2> QED BY <1>1, <1>2, <2>1 DEF AnsweredOf
<1>4. \A c \in AnsweredOf(cs) : ds[c] = cs[c]
  BY <1>1, <1>2 DEF AnsweredOf
<1> QED
  BY <1>1, <1>3, <1>4 DEF RecordInv

\* A response that tells nothing.
LEMMA LostRecorded ==
  ASSUME NEW entries, NEW cs, NEW ds, NEW c, AnsweredAt(ds, cs, c), cs[c].answer # "used",
         ds[c].answer # "used" \/ ds[c].usage = Absent, RecordInv(entries, cs)
  PROVE  RecordInv(entries, ds)
<1>1. Len(ds) = Len(cs) /\ \A d \in 1 .. Len(cs) : d # c => ds[d] = cs[d]
  BY DEF AnsweredAt
<1>2. AnsweredOf(ds) = AnsweredOf(cs)
  BY <1>1 DEF AnsweredOf
<1>3. \A d \in AnsweredOf(cs) : ds[d] = cs[d]
  BY <1>1 DEF AnsweredOf
<1> QED
  BY <1>2, <1>3 DEF RecordInv

LEMMA AnswerRecorded ==
  ASSUME NEW entries, Sequence(entries), NEW cs, NEW ds, NEW c, AnsweredAt(ds, cs, c),
         cs[c].answer # "used", ds[c].answer = "used", ds[c].usage # Absent,
         ds[c].asked = cs[c].asked, SentInOrder(cs),
         NEW e, e.usage, AnswerOf(e.r, ds[c]), RecordInv(entries, cs)
  PROVE  RecordInv(Append(entries, e), ds)
<1>1. PICK more, n : more = Append(entries, e) /\ n = Len(entries)
  OBVIOUS
<1>2. Further(more, entries, e, n, {n + 1})
  BY <1>1, UsedGrow
<1>3. /\ UsedOf(more) = UsedOf(entries) \cup {n + 1} /\ more[n + 1] = e
      /\ \A i \in UsedOf(entries) : more[i] = entries[i]
  BY <1>2 DEF Further
<1>4. Len(ds) = Len(cs) /\ c \in 1 .. Len(cs) /\ \A d \in 1 .. Len(cs) : d # c => ds[d] = cs[d]
  BY DEF AnsweredAt
<1>5. AnsweredOf(ds) = AnsweredOf(cs) \cup {c} /\ c \notin AnsweredOf(cs)
  BY <1>4 DEF AnsweredOf
<1>6. \A d \in AnsweredOf(cs) : d \in 1 .. Len(cs) /\ d # c /\ ds[d] = cs[d]
  BY <1>4, <1>5 DEF AnsweredOf
<1>7. \A i \in UsedOf(more) : \E d \in AnsweredOf(ds) : AnswerOf(more[i].r, ds[d])
  BY <1>3, <1>5, <1>6 DEF RecordInv
<1>8. \A d \in AnsweredOf(ds) : \E i \in UsedOf(more) : AnswerOf(more[i].r, ds[d])
  BY <1>3, <1>5, <1>6 DEF RecordInv
<1>9. \A i \in UsedOf(entries) : entries[i].r.sent # e.r.sent
  <2> SUFFICES ASSUME NEW i \in UsedOf(entries) PROVE entries[i].r.sent # e.r.sent
    OBVIOUS
  <2>1. PICK d \in AnsweredOf(cs) : AnswerOf(entries[i].r, cs[d])
    BY DEF RecordInv
  <2>2. entries[i].r.sent = cs[d].asked.sent /\ e.r.sent = cs[c].asked.sent
    BY <2>1 DEF AnswerOf, RequestFields
  <2>3. cs[d].asked.sent # cs[c].asked.sent
    <3>1. d \in 1 .. Len(cs) /\ c \in 1 .. Len(cs) /\ d # c
      BY <1>4, <1>6
    <3>2. d < c \/ c < d
      BY <3>1
    <3>3. cs[d].asked.sent \in Int /\ cs[c].asked.sent \in Int
          /\ (d < c => cs[d].asked.sent < cs[c].asked.sent) /\ (c < d => cs[c].asked.sent < cs[d].asked.sent)
      BY <3>1 DEF SentInOrder
    <3> QED BY <3>2, <3>3
  <2> QED BY <2>2, <2>3
<1>10. \A i, j \in UsedOf(more) : more[i].r.sent = more[j].r.sent => i = j
  BY <1>3, <1>9 DEF RecordInv
<1> QED
  BY <1>1, <1>7, <1>8, <1>10 DEF RecordInv

LEMMA CallWires ==
  ASSUME NEW r, IsRequest(r), OnRequest(r)
  PROVE  \E entry, call, e :
           /\ pending' = Wait(pending, entry) /\ calls' = Append(calls, call)
           /\ entry.key = Len(calls) + 1 /\ entry.r.segs = call.wire /\ call.answer = "none"
           /\ log' = Append(log, e) /\ e.usage = FALSE
<1>1. PICK plan, placed, sent, shown, call :
        /\ plan \in Decisions(r)
        /\ placed = IF config.mutate THEN plan ELSE <<>>
        /\ sent = [r EXCEPT !.segs = AsSent(r, placed)]
        /\ shown = [sent EXCEPT !.declared = WireTtl(sent.segs)]
        /\ ObserveShape(shown)
        /\ alerts' = Newest(alerts \o NewAlerts, MaxAlerts)
        /\ pending' = Wait(pending, [key |-> Len(calls) + 1, r |-> sent, placed |-> placed])
        /\ call = [asked |-> r, shown |-> Len(log'),
                   wire |-> IF placed = <<>> THEN r.segs ELSE Patched(r.segs, plan),
                   placed |-> placed, patched |-> config.mutate /\ plan # <<>>, answer |-> "none",
                   later |-> 0, usage |-> Absent]
        /\ calls' = Append(calls, call)
  BY OnRequestIs
<1>2. PICK entry : entry = [key |-> Len(calls) + 1, r |-> sent, placed |-> placed]
  OBVIOUS
<1>3. PICK segs : segs = AsSent(r, placed)
  OBVIOUS
<1>4. entry.key = Len(calls) + 1 /\ entry.r = sent
  BY <1>2
<1>5. sent = [r EXCEPT !.segs = segs] /\ "segs" \in DOMAIN r
  BY <1>1, <1>3 DEF IsRequest, RequestFields
<1>6. sent.segs = segs
  BY <1>5
<1>7. call.wire = segs /\ call.answer = "none"
  <2>1. call.wire = (IF placed = <<>> THEN r.segs ELSE Patched(r.segs, plan)) /\ call.answer = "none"
    BY <1>1
  <2>2. placed # <<>> => placed = plan
    BY <1>1
  <2>3. segs = IF placed = <<>> THEN r.segs ELSE Patched(r.segs, placed)
    BY <1>3 DEF AsSent
  <2> QED BY <2>1, <2>2, <2>3
<1>8. PICK e : e = Entry(shown, TRUE, FALSE)
  OBVIOUS
<1>9. log' = Append(log, e) /\ e.usage = FALSE
  <2>1. Observes(shown, TRUE, FALSE)
    BY <1>1, ObservesIs DEF ObserveShape
  <2>2. log' = Append(log, Entry(shown, TRUE, FALSE))
    BY <2>1 DEF Observes
  <2> QED BY <1>8, <2>2 DEF Entry
<1>10. /\ pending' = Wait(pending, entry) /\ calls' = Append(calls, call)
       /\ entry.key = Len(calls) + 1 /\ entry.r.segs = call.wire /\ call.answer = "none"
       /\ log' = Append(log, e) /\ e.usage = FALSE
  BY <1>1, <1>2, <1>4, <1>6, <1>7, <1>9
<1> QED
  BY <1>10, Zenon

LEMMA CallKeepsWires ==
  ASSUME Inv, WiresInv, NEW call, calls' = Append(calls, call),
         \A q \in Members(pending') :
           q \in Members(pending) \/ (q.key = Len(calls) + 1 /\ q.r.segs = call.wire)
  PROVE  WiresInv'
<1>1. /\ Len(calls) \in Nat
      /\ \A c \in 1 .. Len(calls) : calls'[c] = calls[c]
      /\ calls'[Len(calls) + 1] = call
  BY AppendIs DEF Inv, Sequence
<1>2. ASSUME NEW q \in Members(pending') PROVE q.r.segs = calls'[q.key].wire
  <2>1. CASE q \in Members(pending)
    <3>1. q.key \in 1 .. Len(calls)
      BY <2>1 DEF Inv, Queue, Members
    <3>2. q.r.segs = calls[q.key].wire
      BY <2>1 DEF WiresInv
    <3> QED BY <1>1, <3>1, <3>2
  <2>2. CASE q.key = Len(calls) + 1 /\ q.r.segs = call.wire
    BY <1>1, <2>2
  <2> QED BY <1>2, <2>1, <2>2
<1> QED
  BY <1>2 DEF WiresInv

LEMMA AnswerKeepsWire ==
  ASSUME Inv, NEW c \in DOMAIN calls, NEW usage, Response(c, usage)
  PROVE  calls'[c].wire = calls[c].wire
<1>1. DOMAIN calls = 1 .. Len(calls)
  BY DEF Inv, Sequence
<1>2. PICK answer, later : answer = (IF Has(pending, c) THEN "used" ELSE "lost") /\ later = Len(calls) - c
  OBVIOUS
<1>3. calls' = [calls EXCEPT ![c].answer = answer, ![c].later = later, ![c].usage = usage]
  BY <1>2 DEF Response
<1>4. CallFields \subseteq DOMAIN calls[c]
  BY <1>1 DEF Inv, CallInv
<1> QED
  BY <1>1, <1>3, <1>4 DEF CallFields

LEMMA RequestKeepsRecord ==
  ASSUME Inv, WiresInv, RecordInv(log, calls), NEW r, IsRequest(r), OnRequest(r)
  PROVE  WiresInv' /\ RecordInv(log, calls)'
<1>1. PICK entry, call, e :
        /\ pending' = Wait(pending, entry) /\ calls' = Append(calls, call)
        /\ entry.key = Len(calls) + 1 /\ entry.r.segs = call.wire /\ call.answer = "none"
        /\ log' = Append(log, e) /\ e.usage = FALSE
  BY CallWires
<1>2. Sequence(pending) /\ PendingCap \in Nat \ {0} /\ Sequence(calls) /\ Sequence(log)
  BY PluginAssumption DEF Inv, Queue, Kept
<1>3. pending' = Push(pending, entry, PendingCap)
  BY <1>1 DEF Wait
<1>4. Members(pending') \subseteq Members(pending) \cup {entry}
  BY <1>2, <1>3, PushMembers
<1>5. WiresInv'
  BY <1>1, <1>4, CallKeepsWires
<1>6. RecordInv(log, Append(calls, call))
  BY <1>1, <1>2, CallRecorded
<1>7. RecordInv(Append(log, e), Append(calls, call))
  BY <1>1, <1>2, <1>6, NotUsedRecorded
<1> QED
  BY <1>1, <1>5, <1>7

LEMMA FailOpenKeepsRecord ==
  ASSUME Inv, WiresInv, RecordInv(log, calls), NEW r, FailOpen(r)
  PROVE  WiresInv' /\ RecordInv(log, calls)'
<1>1. PICK call : call = [asked |-> r, shown |-> 0, wire |-> r.segs, placed |-> <<>>,
                          patched |-> FALSE, answer |-> "none", later |-> 0, usage |-> Absent]
  OBVIOUS
<1>2. call.answer = "none" /\ calls' = Append(calls, call) /\ pending' = pending /\ log' = log
  BY <1>1 DEF FailOpen, monitorVars
<1>3. Sequence(calls)
  BY DEF Inv
<1>4. RecordInv(log, Append(calls, call))
  BY <1>2, <1>3, CallRecorded
<1>5. WiresInv'
  BY <1>2, CallKeepsWires
<1> QED
  BY <1>2, <1>4, <1>5

LEMMA ResponseKeepsRecord ==
  ASSUME NEW requests, Inv, DecisionsInv(requests), WiresInv, RecordInv(log, calls),
         SentInOrder(calls), NEW c \in DOMAIN calls, NEW usage, Response(c, usage)
  PROVE  WiresInv' /\ RecordInv(log, calls)'
<1>1. /\ c \in 1 .. Len(calls) /\ Sequence(calls') /\ Len(calls') = Len(calls)
      /\ \A d \in 1 .. Len(calls) : d # c => calls'[d] = calls[d]
      /\ calls[c].answer = "none" /\ calls'[c].usage = usage
      /\ calls'[c].asked = calls[c].asked
      /\ calls'[c].answer = IF Has(pending, c) THEN "used" ELSE "lost"
      /\ Members(pending') \subseteq Members(pending)
  BY AnswerTakes
<1>2. calls'[c].wire = calls[c].wire
  BY AnswerKeepsWire
<1>3. Sequence(calls) /\ Sequence(log) /\ Queue(pending, Len(calls)) /\ Len(calls) \in Nat
  BY DEF Inv, Kept, Sequence
<1>4. AnsweredAt(calls', calls, c)
  BY <1>1, <1>3 DEF AnsweredAt
<1>5. WiresInv'
  <2>1. ASSUME NEW q \in Members(pending') PROVE q.r.segs = calls'[q.key].wire
    <3>1. q \in Members(pending)
      BY <1>1, <2>1
    <3>2. q.key \in 1 .. Len(calls) /\ q.r.segs = calls[q.key].wire
      BY <3>1 DEF Inv, Queue, Members, WiresInv
    <3>3. calls'[q.key].wire = calls[q.key].wire
      BY <1>1, <1>2, <3>2
    <3> QED BY <3>2, <3>3
  <2> QED BY <2>1 DEF WiresInv
<1>6. CASE ~Has(pending, c) \/ usage = Absent
  <2>1. log' = log
    <3>1. CASE ~Has(pending, c)
      BY <3>1, Zenon DEF Response, monitorVars
    <3>2. CASE Has(pending, c) /\ usage = Absent
      BY <3>2, Zenon DEF Response, monitorVars
    <3> QED BY <1>6, <3>1, <3>2
  <2>2. calls[c].answer # "used" /\ (calls'[c].answer # "used" \/ calls'[c].usage = Absent)
    BY <1>1, <1>6
  <2>3. RecordInv(log, calls')
    BY <1>4, <2>2, LostRecorded
  <2> QED BY <1>5, <2>1, <2>3
<1>7. CASE Has(pending, c) /\ usage # Absent
  <2>1. PICK decision, q, e :
          decision = Recall(pending, c) /\ q = AnsweredAs(decision, usage) /\ e = Entry(q, FALSE, TRUE)
    OBVIOUS
  <2>2. ObserveUsage(q)
    BY <1>7, <2>1, Zenon DEF Response
  <2>3. log' = Append(log, e)
    <3>1. Observes(q, FALSE, TRUE)
      BY <2>2, ObservesIs DEF ObserveUsage
    <3> QED BY <2>1, <3>1 DEF Observes
  <2>4. e.r = q /\ e.usage = TRUE
    BY <2>1 DEF Entry
  <2>5. decision \in Members(pending) /\ decision.key = c
    BY <1>3, <1>7, <2>1, TakenMembers
  <2>6. PICK r, call : r = decision.r /\ call = calls'[c]
    OBVIOUS
  <2>7. /\ RequestFields \subseteq DOMAIN r /\ r.segs = call.wire /\ call.usage = usage
        /\ \A f \in RequestFields \ {"segs"} : r[f] = call.asked[f]
    BY <1>1, <1>2, <2>5, <2>6 DEF DecisionsInv, DecisionOf, WiresInv
  <2>8. q = [r EXCEPT !.usage = usage, !.declared = Unknown]
    BY <2>1, <2>6 DEF AnsweredAs
  <2>9. AnswerOf(q, call)
    <3>1. q.usage = usage /\ q.segs = r.segs
      BY <2>7, <2>8 DEF RequestFields
    <3>2. \A f \in RequestFields \ {"segs", "usage", "declared"} : q[f] = r[f]
      BY <2>7, <2>8
    <3> QED BY <2>7, <3>1, <3>2 DEF AnswerOf
  <2>10. /\ calls[c].answer # "used" /\ calls'[c].answer = "used" /\ calls'[c].usage # Absent
         /\ calls'[c].asked = calls[c].asked
    BY <1>1, <1>7
  <2>11. e.usage /\ AnswerOf(e.r, calls'[c])
    BY <2>4, <2>6, <2>9
  <2>12. RecordInv(Append(log, e), calls')
    BY <1>3, <1>4, <2>10, <2>11, AnswerRecorded
  <2> QED BY <1>5, <2>3, <2>12
<1> QED
  BY <1>6, <1>7

OthersSilent == UNCHANGED pluginVars => UNCHANGED log

LEMMA RecordStep ==
  ASSUME NEW requests, NEW usages, \A r \in requests : IsRequest(r),
         Inv, DecisionsInv(requests), WiresInv, RecordInv(log, calls), SentInOrder(calls),
         [PluginNext(requests, usages)]_<<monitorVars, pluginVars>>, OthersSilent
  PROVE  WiresInv' /\ RecordInv(log, calls)'
<1>1. ASSUME UNCHANGED <<log, calls, pending>> PROVE WiresInv' /\ RecordInv(log, calls)'
  BY <1>1 DEF WiresInv, RecordInv, Members
<1>2. ASSUME UNCHANGED pluginVars PROVE WiresInv' /\ RecordInv(log, calls)'
  BY <1>1, <1>2 DEF OthersSilent, pluginVars
<1>3. CASE PluginNext(requests, usages)
  BY <1>2, <1>3, PreCallBinds, RequestKeepsRecord, FailOpenKeepsRecord, ResponseKeepsRecord, Zenon DEF PluginNext
<1>4. CASE UNCHANGED <<monitorVars, pluginVars>>
  BY <1>2, <1>4
<1> QED
  BY <1>3, <1>4

\* A call, as it is recorded.
RecordedAs(call) ==
  [call.asked EXCEPT !.segs = call.wire, !.usage = call.usage, !.declared = WireTtl(call.wire)]

\* What the analyzer reads of the record is what the monitor read of the response.
LEMMA RecordIsAlike ==
  ASSUME NEW call, IsRequest(call.asked), Told(call), NEW r, AnswerOf(r, call)
  PROVE  Alike(RecordedAs(call), r)
<1>1. PICK a, q : a = call.asked /\ q = RecordedAs(call)
  OBVIOUS
<1>2. PICK ttl : ttl = WireTtl(call.wire)
  OBVIOUS
<1>3. RequestFields \subseteq DOMAIN a /\ q = [a EXCEPT !.segs = call.wire, !.usage = call.usage, !.declared = ttl]
  BY <1>1, <1>2 DEF IsRequest, RecordedAs
<1>4. q.segs = call.wire /\ q.usage = call.usage
  BY <1>3 DEF RequestFields
<1>5. \A f \in RequestFields \ {"segs", "usage", "declared"} : q[f] = a[f]
  BY <1>3
<1>6. /\ r.segs = call.wire /\ r.usage = call.usage
      /\ \A f \in RequestFields \ {"segs", "usage", "declared"} : r[f] = q[f]
  BY <1>1, <1>5 DEF AnswerOf
<1>7. /\ r.tenant = q.tenant /\ r.target = q.target /\ r.session = q.session /\ r.agent = q.agent
      /\ r.sent = q.sent
  BY <1>6 DEF RequestFields
<1>8. q.usage.split # {} \/ \E i \in DOMAIN q.segs : q.segs[i].ttl \notin {Unmarked, Silent}
  BY <1>4 DEF Told
<1>9. ExpirySeconds(q) = ExpirySeconds(r)
  BY <1>4, <1>6, <1>8, ExpiryIsTold
<1>10. RebuildScope(q) = RebuildScope(r)
  BY <1>7 DEF RebuildScope
<1> QED
  BY <1>1, <1>4, <1>6, <1>7, <1>9, <1>10 DEF Alike

AllRequests(cs) == \A c \in 1 .. Len(cs) : IsRequest(cs[c].asked)

\* Where the response to a call is in the log.
PlaceIn(entries, call) == CHOOSE i \in UsedOf(entries) : AnswerOf(entries[i].r, call)

LEMMA PlacesInStep ==
  ASSUME NEW entries, Sequence(entries), NEW cs, RecordInv(entries, cs), SentInOrder(cs),
         AllRequests(cs), \A c \in AnsweredOf(cs) : Told(cs[c]),
         \A i, j \in UsedOf(entries) : i <= j => entries[i].r.sent <= entries[j].r.sent,
         NEW rs, rs = [c \in AnsweredOf(cs) |-> RecordedAs(cs[c])],
         NEW qs, qs = [i \in UsedOf(entries) |-> entries[i].r],
         NEW f, f = [c \in AnsweredOf(cs) |-> PlaceIn(entries, cs[c])]
  PROVE  InStep(f, rs, qs)
<1>1. PICK A, U : A = AnsweredOf(cs) /\ U = UsedOf(entries)
  OBVIOUS
<1>2. /\ DOMAIN rs = A /\ DOMAIN qs = U /\ DOMAIN f = A
      /\ \A c \in A : rs[c] = RecordedAs(cs[c]) /\ f[c] = PlaceIn(entries, cs[c])
      /\ \A i \in U : qs[i] = entries[i].r
  BY <1>1
<1>3. /\ A \subseteq 1 .. Len(cs) /\ U \subseteq 1 .. Len(entries)
      /\ \A c \in A : c \in Int
      /\ \A i \in U : i \in Int
  BY <1>1 DEF AnsweredOf, UsedOf
<1>4. ASSUME NEW c \in A
      PROVE  f[c] \in U /\ AnswerOf(entries[f[c]].r, cs[c]) /\ entries[f[c]].r.sent = cs[c].asked.sent
  <2>1. \E i \in U : AnswerOf(entries[i].r, cs[c])
    BY <1>1, <1>4 DEF RecordInv
  <2>2. f[c] = CHOOSE i \in U : AnswerOf(entries[i].r, cs[c])
    BY <1>1, <1>2, <1>4 DEF PlaceIn
  <2>3. f[c] \in U /\ AnswerOf(entries[f[c]].r, cs[c])
    BY <2>1, <2>2
  <2> QED BY <2>3 DEF AnswerOf, RequestFields
<1>5. \A c, d \in A : c < d => cs[c].asked.sent < cs[d].asked.sent
  BY <1>3 DEF SentInOrder
<1>6. \A c \in A : cs[c].asked.sent \in Int
  BY <1>3 DEF SentInOrder
<1>7. ASSUME NEW c \in A, NEW d \in A, c < d PROVE f[c] < f[d]
  <2>1. entries[f[c]].r.sent < entries[f[d]].r.sent
    BY <1>4, <1>5, <1>7
  <2>2. ~(f[d] <= f[c])
    <3>1. SUFFICES ASSUME f[d] <= f[c] PROVE FALSE
      OBVIOUS
    <3>2. entries[f[d]].r.sent <= entries[f[c]].r.sent
      BY <1>1, <1>4, <3>1
    <3>3. entries[f[d]].r.sent \in Int /\ entries[f[c]].r.sent \in Int
      BY <1>4, <1>6
    <3> QED BY <2>1, <3>2, <3>3
  <2>3. f[c] \in Int /\ f[d] \in Int
    BY <1>3, <1>4
  <2> QED BY <2>2, <2>3
<1>8. \A c, d \in A : c < d \/ c = d \/ d < c
  BY <1>3
<1>9. ASSUME NEW c \in A, NEW d \in A PROVE (c < d <=> f[c] < f[d]) /\ (f[c] = f[d] => c = d)
  <2>1. f[c] \in Int /\ f[d] \in Int /\ c \in Int /\ d \in Int
    BY <1>3, <1>4
  <2> QED BY <1>7, <1>8, <2>1
<1>10. ASSUME NEW i \in U PROVE \E c \in A : f[c] = i
  <2>1. PICK c \in A : AnswerOf(entries[i].r, cs[c])
    BY <1>1 DEF RecordInv
  <2>2. entries[i].r.sent = cs[c].asked.sent
    BY <2>1 DEF AnswerOf, RequestFields
  <2>3. f[c] = i
    BY <1>1, <1>4, <2>2 DEF RecordInv
  <2> QED BY <2>3
<1>11. ASSUME NEW c \in A PROVE Alike(rs[c], qs[f[c]])
  <2>1. IsRequest(cs[c].asked) /\ Told(cs[c])
    BY <1>1, <1>3 DEF AllRequests
  <2>2. Alike(RecordedAs(cs[c]), entries[f[c]].r)
    BY <1>4, <2>1, RecordIsAlike
  <2> QED BY <1>2, <1>4, <2>2
<1>12. f \in [A -> U]
  <2>1. f = [c \in A |-> f[c]]
    BY <1>1
  <2> QED BY <1>4, <2>1
<1> QED
  BY <1>2, <1>9, <1>10, <1>11, <1>12 DEF InStep

LEMMA RecordSaysSo ==
  ASSUME TurnsInv(table, log), RecordInv(log, calls), SentInOrder(calls), Sequence(calls),
         AllRequests(calls)
  PROVE  LiveCountsRebuilds
<1>1. PICK answered : answered = {c \in DOMAIN calls : calls[c].answer = "used" /\ calls[c].usage # Absent}
  OBVIOUS
<1>2. PICK rs : rs = [c \in answered |-> RecordedAs(calls[c])]
  OBVIOUS
<1> SUFFICES ASSUME UsedInOrder, \A c \in answered : Told(calls[c])
             PROVE  RebuildsCounted(rs)
  BY <1>1, <1>2 DEF LiveCountsRebuilds, RecordedAs
<1>3. Sequence(log) /\ FullTable(table) /\ DOMAIN calls = 1 .. Len(calls)
  BY DEF TurnsInv, ScopesInv, Sequence
<1>4. answered = AnsweredOf(calls) /\ DOMAIN rs = answered
  BY <1>1, <1>2, <1>3 DEF AnsweredOf
<1>5. Used = UsedOf(log)
  BY <1>3 DEF Used, UsedOf, Sequence
<1>6. PICK qs : qs = [i \in UsedOf(log) |-> log[i].r]
  OBVIOUS
<1>7. PICK f : f = [c \in AnsweredOf(calls) |-> PlaceIn(log, calls[c])]
  OBVIOUS
<1>8. AllTimed(log) /\ \A i, j \in UsedOf(log) : i <= j => log[i].r.sent <= log[j].r.sent
  BY <1>5 DEF UsedInOrder, AllTimed
<1>9. InStep(f, rs, qs)
  BY <1>2, <1>3, <1>4, <1>6, <1>7, <1>8, PlacesInStep
<1>10. IsFiniteSet(DOMAIN rs)
  <2>1. Len(calls) \in Nat
    BY DEF Sequence
  <2>2. IsFiniteSet(1 .. Len(calls))
    BY <2>1, FS_Interval
  <2>3. answered \subseteq 1 .. Len(calls)
    BY <1>4 DEF AnsweredOf
  <2> QED BY <1>4, <2>2, <2>3, FS_Subset
<1>11. Cardinality(DOMAIN rs) = Cardinality(UsedOf(log)) /\ DOMAIN qs = UsedOf(log)
  BY <1>6, <1>9, <1>10, SameBatch
<1>12. \A s : BatchRebuilds(rs, s) = Cardinality(Rebuilds(log, s))
  <2> TAKE s
  <2>1. BatchRebuilds(rs, s) = BatchRebuilds(qs, s)
    BY <1>9, <1>10, SameBatch
  <2>2. BatchRebuilds([i \in Used |-> log[i].r], s) = Cardinality(Rebuilds(log, s))
    BY <1>3, <1>8, BatchIs
  <2> QED BY <1>5, <1>6, <2>1, <2>2
<1> SUFFICES ASSUME Cardinality(DOMAIN rs) <= Window, NothingForgotten,
                    NEW s \in DOMAIN table.state, Len(s) = 2
             PROVE  Cardinality({i \in DOMAIN table.state[s].rebuilds : table.state[s].rebuilds[i]})
                      = BatchRebuilds(rs, s)
  BY DEF RebuildsCounted
<1>13. AllKept(log)
  BY <1>3, TouchesAre DEF NothingForgotten, AllKept
<1>14. s \in Members(table.order)
  BY <1>3, FullIsTable
<1>15. Knows(table.state[s], log, s)
  BY <1>8, <1>11, <1>13, <1>14 DEF TurnsInv, AllTurnsHeld
<1>16. PICK flags : flags = table.state[s].rebuilds
  OBVIOUS
<1>17. Sequence(flags) /\ Cardinality({k \in 1 .. Len(flags) : flags[k]}) = Cardinality(Rebuilds(log, s))
  BY <1>15, <1>16 DEF Knows, RebuildsKnown
<1>18. DOMAIN flags = 1 .. Len(flags)
  BY <1>17 DEF Sequence
<1> QED
  BY <1>12, <1>16, <1>17, <1>18

\* What the live path counts is what the analyzer counts on the record of the same
\* calls: while nothing is dropped, responses come in the order of their calls and it is
\* told how long entries live, the turns that a scope counts as rebuilds are those of the
\* analyzer's walk (_pre_call, on_response, _track_turn, _f_prefix_rebuild). No two calls
\* have one time, and nobody but the plugin reports to the monitor: what others report
\* is in no record of the plugin's calls. The map of sessions must hold as many turns as
\* the window (MAX_FIRING and WINDOW are both 64).
THEOREM LiveRebuildsAreCounted ==
  ASSUME NEW CONSTANT configs, NEW CONSTANT requests, NEW CONSTANT usages,
         \A r \in requests : IsRequest(r), Window <= MaxFiring
  PROVE  /\ PluginSpec(configs, requests, usages)
         /\ []SentInOrder(calls)
         /\ [][OthersSilent]_<<monitorVars, pluginVars>>
         => []LiveCountsRebuilds
<1> DEFINE IInv == /\ Inv /\ DecisionsInv(requests) /\ TurnsInv(table, log)
                   /\ WiresInv /\ RecordInv(log, calls)
<1>1. PluginInit(configs) => IInv
  <2> SUFFICES ASSUME PluginInit(configs) PROVE IInv
    OBVIOUS
  <2>1. Inv
    BY InitInv
  <2>2. TurnsInv(table, log)
    BY TurnsStart DEF PluginInit
  <2>3. log = <<>> /\ pending = <<>> /\ calls = <<>>
    BY DEF PluginInit, MonitorInit
  <2>4. DecisionsInv(requests) /\ WiresInv
    BY <2>3, EmptyIs DEF DecisionsInv, WiresInv, Members
  <2>5. RecordInv(log, calls)
    BY <2>3, EmptyIs DEF RecordInv, UsedOf, AnsweredOf
  <2> QED BY <2>1, <2>2, <2>4, <2>5
<1>2. /\ IInv /\ SentInOrder(calls)
      /\ [PluginNext(requests, usages)]_<<monitorVars, pluginVars>>
      /\ [OthersSilent]_<<monitorVars, pluginVars>>
      => IInv'
  <2> SUFFICES ASSUME IInv, SentInOrder(calls),
                      [PluginNext(requests, usages)]_<<monitorVars, pluginVars>>,
                      [OthersSilent]_<<monitorVars, pluginVars>>
               PROVE  IInv'
    OBVIOUS
  <2>1. Inv'
    BY NextInv
  <2>2. DecisionsInv(requests)'
    BY DecisionsStep
  <2>3. TurnsInv(table, log)'
    BY MonitorSteps, TurnsStay
  <2>4. OthersSilent
    BY DEF OthersSilent, monitorVars
  <2>5. WiresInv' /\ RecordInv(log, calls)'
    BY <2>4, RecordStep
  <2> QED BY <2>1, <2>2, <2>3, <2>5
<1>3. IInv /\ SentInOrder(calls) => LiveCountsRebuilds
  <2> SUFFICES ASSUME IInv, SentInOrder(calls) PROVE LiveCountsRebuilds
    OBVIOUS
  <2>1. AllRequests(calls) /\ Sequence(calls)
    BY DEF AllRequests, DecisionsInv, Among, Inv
  <2> QED BY <2>1, RecordSaysSo
<1> QED
  BY <1>1, <1>2, <1>3, PTL DEF PluginSpec

==================================================================================
