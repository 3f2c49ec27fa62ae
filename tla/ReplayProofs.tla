------------------------------ MODULE ReplayProofs ------------------------------
(* Proofs about the replay: for any trace, any registry and any assumptions of a *)
(* bake-off, what is read was written in time, and what could be read is; each   *)
(* token is billed once; what is read the findings call reusable as well; and    *)
(* what the finding on lifetimes credits would have been read.                   *)
EXTENDS LifetimeFinding, FiniteSetTheorems, WellFoundedInduction, TLAPS

-----------------------------------------------------------------------------
(* Recursive functions. The provers cannot instantiate the induction theorems    *)
(* of the library, which take a predicate; they can instantiate one on sets.     *)

LEMMA NatSetInduction ==
  ASSUME NEW S, 0 \in S, \A n \in Nat : n \in S => n + 1 \in S
  PROVE  Nat \subseteq S
<1> DEFINE Missing == Nat \ S
<1> SUFFICES ASSUME Missing # {} PROVE FALSE
  OBVIOUS
<1>1. PICK m \in Missing : \A k \in Missing : <<k, m>> \notin OpToRel(<, Nat)
  BY NatLessThanWellFounded, WFMin
<1>2. m - 1 \in Missing
  OBVIOUS
<1>3. <<m - 1, m>> \in OpToRel(<, Nat)
  BY <1>2 DEF OpToRel
<1> QED
  BY <1>1, <1>2, <1>3

LEMMA UpToInduction ==
  ASSUME NEW bound \in Nat, NEW S, 0 \in S,
         \A n \in 0 .. bound - 1 : n \in S => n + 1 \in S
  PROVE  0 .. bound \subseteq S
<1> DEFINE Reached == {n \in Nat : n <= bound => n \in S}
<1>1. 0 \in Reached
  OBVIOUS
<1>2. ASSUME NEW n \in Nat, n \in Reached PROVE n + 1 \in Reached
  BY <1>2
<1>3. Nat \subseteq Reached
  <2> HIDE DEF Reached
  <2> QED BY <1>1, <1>2, NatSetInduction
<1> QED
  BY <1>3

\* A nonempty set of numbers with a bound has a largest element.
LEMMA MaxOfBounded ==
  ASSUME NEW bound \in Nat, NEW S \in SUBSET (0 .. bound), S # {}
  PROVE  Max(S) \in S /\ \A y \in S : y <= Max(S)
<1> DEFINE Reached == {n \in 0 .. bound : \A T \in SUBSET (0 .. n) :
                         T # {} => \E x \in T : \A y \in T : x >= y}
<1>1. 0 \in Reached
  <2> SUFFICES ASSUME NEW T \in SUBSET (0 .. 0), T # {}
               PROVE  \E x \in T : \A y \in T : x >= y
    OBVIOUS
  <2>1. PICK x : x \in T
    OBVIOUS
  <2>2. \A y \in T : y = 0
    OBVIOUS
  <2> QED
    BY <2>1, <2>2
<1>2. ASSUME NEW n \in 0 .. bound - 1, n \in Reached PROVE n + 1 \in Reached
  <2> SUFFICES ASSUME NEW T \in SUBSET (0 .. n + 1), T # {}
               PROVE  \E x \in T : \A y \in T : x >= y
    OBVIOUS
  <2>1. CASE n + 1 \in T
    BY <2>1
  <2>2. CASE n + 1 \notin T
    <3>1. T \in SUBSET (0 .. n)
      BY <2>2
    <3> QED
      BY <3>1, <1>2
  <2> QED
    BY <2>1, <2>2
<1>3. 0 .. bound \subseteq Reached
  <2> HIDE DEF Reached
  <2> QED BY <1>1, <1>2, UpToInduction
<1>4. \E x \in S : \A y \in S : x >= y
  BY <1>3
<1> QED
  BY <1>4 DEF Max

-----------------------------------------------------------------------------
(* Prompts on the wire.                                                          *)

\* The recursive function that adds up the tokens of a sequence.
IsSum(f, ids, n) ==
  f = [k \in 0 .. n |-> IF k = 0 THEN 0 ELSE f[k - 1] + TokensOf[ids[k]]]

LEMMA SumExists ==
  ASSUME NEW ids \in Seq(Segments), NEW n \in 0 .. Len(ids)
  PROVE  \E f : IsSum(f, ids, n)
<1> DEFINE Reached == {k \in 0 .. Len(ids) : \E f : IsSum(f, ids, k)}
<1>1. 0 \in Reached
  <2> DEFINE f == [k \in 0 .. 0 |-> 0]
  <2>1. IsSum(f, ids, 0)
    BY DEF IsSum
  <2> QED
    BY <2>1
<1>2. ASSUME NEW k \in 0 .. Len(ids) - 1, k \in Reached PROVE k + 1 \in Reached
  <2>1. PICK f : IsSum(f, ids, k)
    BY <1>2
  <2> DEFINE g == [j \in 0 .. k + 1 |-> IF j = k + 1 THEN f[k] + TokensOf[ids[k + 1]] ELSE f[j]]
  <2>2. ASSUME NEW j \in 0 .. k + 1
        PROVE  g[j] = IF j = 0 THEN 0 ELSE g[j - 1] + TokensOf[ids[j]]
    <3>1. CASE j = k + 1
      BY <3>1
    <3>2. CASE j # k + 1
      <4>1. j \in 0 .. k /\ g[j] = f[j]
        BY <3>2
      <4>2. f[j] = IF j = 0 THEN 0 ELSE f[j - 1] + TokensOf[ids[j]]
        BY <4>1, <2>1 DEF IsSum
      <4>3. j # 0 => g[j - 1] = f[j - 1]
        BY <4>1
      <4> QED
        BY <4>1, <4>2, <4>3
    <3> QED
      BY <3>1, <3>2
  <2>3. g = [j \in 0 .. k + 1 |-> g[j]]
    OBVIOUS
  <2>4. IsSum(g, ids, k + 1)
    <3> HIDE DEF g
    <3> QED BY <2>2, <2>3 DEF IsSum
  <2> HIDE DEF g
  <2> QED
    BY <2>4
<1>3. 0 .. Len(ids) \subseteq Reached
  <2>1. Len(ids) \in Nat
    OBVIOUS
  <2> HIDE DEF Reached
  <2> QED BY <1>1, <1>2, <2>1, UpToInduction
<1> QED
  BY <1>3

LEMMA SumIsUnique ==
  ASSUME NEW ids \in Seq(Segments), NEW n \in 0 .. Len(ids), NEW other \in Seq(Segments),
         NEW m \in 0 .. n, \A k \in 1 .. m : other[k] = ids[k],
         NEW f, IsSum(f, ids, n), NEW g, IsSum(g, other, m)
  PROVE  f[m] = g[m]
<1> DEFINE Reached == {k \in 0 .. m : f[k] = g[k]}
<1>1. 0 \in Reached
  BY DEF IsSum
<1>2. ASSUME NEW k \in 0 .. m - 1, k \in Reached PROVE k + 1 \in Reached
  <2>1. f[k + 1] = f[k] + TokensOf[ids[k + 1]]
    BY DEF IsSum
  <2>2. g[k + 1] = g[k] + TokensOf[other[k + 1]]
    BY DEF IsSum
  <2> QED
    BY <2>1, <2>2, <1>2
<1>3. 0 .. m \subseteq Reached
  <2>1. m \in Nat
    OBVIOUS
  <2> HIDE DEF Reached
  <2> QED BY <1>1, <1>2, <2>1, UpToInduction
<1> QED
  BY <1>3

LEMMA TokensIsSum ==
  ASSUME NEW ids \in Seq(Segments)
  PROVE  \E f : IsSum(f, ids, Len(ids)) /\ Tokens(ids) = f[Len(ids)]
<1>1. \E f : IsSum(f, ids, Len(ids))
  BY SumExists
<1> QED
  BY <1>1 DEF Tokens, IsSum

LEMMA TokensOfNone == Tokens(<<>>) = 0
<1>1. <<>> \in Seq(Segments) /\ Len(<<>>) = 0
  OBVIOUS
<1>2. PICK f : IsSum(f, <<>>, 0) /\ Tokens(<<>>) = f[0]
  BY <1>1, TokensIsSum
<1> QED
  BY <1>2 DEF IsSum

\* Every segment adds its own tokens, and has some.
LEMMA TokensGrow ==
  ASSUME NEW ids \in Seq(Segments), NEW n \in 1 .. Len(ids)
  PROVE  /\ Tokens(Prefix(ids, n)) = Tokens(Prefix(ids, n - 1)) + TokensOf[ids[n]]
         /\ TokensOf[ids[n]] \in Nat \ {0}
<1>1. PICK f : IsSum(f, ids, Len(ids))
  BY SumExists
<1>2. ASSUME NEW m \in 0 .. Len(ids) PROVE Tokens(Prefix(ids, m)) = f[m]
  <2>1. Prefix(ids, m) \in Seq(Segments) /\ Len(Prefix(ids, m)) = m
    BY DEF Prefix
  <2>2. PICK g : IsSum(g, Prefix(ids, m), m) /\ Tokens(Prefix(ids, m)) = g[m]
    BY <2>1, TokensIsSum
  <2>3. \A k \in 1 .. m : Prefix(ids, m)[k] = ids[k]
    BY DEF Prefix
  <2> QED
    BY <1>1, <2>1, <2>2, <2>3, SumIsUnique
<1>3. f[n] = f[n - 1] + TokensOf[ids[n]]
  BY <1>1 DEF IsSum
<1>4. TokensOf[ids[n]] \in Nat \ {0}
  BY ReplayAssumption
<1> QED
  BY <1>2, <1>3, <1>4

LEMMA LongerIsMore ==
  ASSUME NEW ids \in Seq(Segments), NEW n \in 0 .. Len(ids)
  PROVE  /\ Tokens(Prefix(ids, n)) \in Nat
         /\ \A m \in 0 .. n - 1 : Tokens(Prefix(ids, m)) < Tokens(Prefix(ids, n))
<1> DEFINE T(k) == Tokens(Prefix(ids, k))
           Reached == {k \in 0 .. Len(ids) :
                         T(k) \in Nat /\ \A m \in 0 .. k - 1 : T(m) \in Nat /\ T(m) < T(k)}
<1>1. 0 \in Reached
  <2>1. Prefix(ids, 0) = <<>>
    BY DEF Prefix
  <2>2. T(0) = 0
    BY <2>1, TokensOfNone
  <2> QED
    BY <2>2
<1>2. ASSUME NEW k \in 0 .. Len(ids) - 1, k \in Reached PROVE k + 1 \in Reached
  <2>1. T(k + 1) = T(k) + TokensOf[ids[k + 1]] /\ TokensOf[ids[k + 1]] \in Nat \ {0}
    BY TokensGrow
  <2>2. T(k) \in Nat /\ \A m \in 0 .. k - 1 : T(m) \in Nat /\ T(m) < T(k)
    BY <1>2
  <2>3. \A m \in 0 .. k : T(m) \in Nat /\ T(m) < T(k + 1)
    <3> HIDE DEF T
    <3>1. \A m \in 0 .. k : m = k \/ m \in 0 .. k - 1
      OBVIOUS
    <3> QED
      BY <2>1, <2>2, <3>1
  <2> QED
    BY <2>1, <2>2, <2>3
<1>3. 0 .. Len(ids) \subseteq Reached
  <2>1. Len(ids) \in Nat
    OBVIOUS
  <2> HIDE DEF Reached
  <2> QED BY <1>1, <1>2, <2>1, UpToInduction
<1> QED
  BY <1>3

LEMMA PrefixIsTold ==
  ASSUME NEW ids \in Seq(Segments), NEW n \in 1 .. Len(ids)
  PROVE  Prefix(ids, CHOOSE m \in DOMAIN ids : Tokens(Prefix(ids, m)) = Tokens(Prefix(ids, n)))
           = Prefix(ids, n)
<1> DEFINE T(k) == Tokens(Prefix(ids, k))
<1>1. \A k \in 1 .. Len(ids) : T(k) = T(n) => k = n
  <2> SUFFICES ASSUME NEW k \in 1 .. Len(ids), T(k) = T(n), k # n PROVE FALSE
    OBVIOUS
  <2>1. k \in 0 .. Len(ids) /\ n \in 0 .. Len(ids)
    OBVIOUS
  <2>2. T(k) \in Nat /\ T(n) \in Nat
    BY <2>1, LongerIsMore
  <2>3. CASE k < n
    <3>1. k \in 0 .. n - 1
      BY <2>3
    <3>2. T(k) < T(n)
      BY <2>1, <3>1, LongerIsMore
    <3> QED
      BY <2>2, <3>2
  <2>4. CASE n < k
    <3>1. n \in 0 .. k - 1
      BY <2>4
    <3>2. T(n) < T(k)
      BY <2>1, <3>1, LongerIsMore
    <3> QED
      BY <2>2, <3>2
  <2> QED
    BY <2>3, <2>4
<1>2. DOMAIN ids = 1 .. Len(ids)
  OBVIOUS
<1>3. (CHOOSE m \in DOMAIN ids : T(m) = T(n)) = n
  <2> HIDE DEF T
  <2> QED BY <1>1, <1>2
<1> QED
  BY <1>3

LEMMA ConcatIsOfBoth ==
  ASSUME NEW S, NEW left \in Seq(S), NEW right \in Seq(S)
  PROVE  left \o right \in Seq(S)
OBVIOUS

\* The recursive function that picks out what is among the indices of a set.
Picked(indices, set, k) == IF indices[k] \in set THEN <<indices[k]>> ELSE <<>>

IsAmong(f, indices, set, n) ==
  f = [k \in 0 .. n |-> IF k = 0 THEN <<>> ELSE f[k - 1] \o Picked(indices, set, k)]

LEMMA AmongExists ==
  ASSUME NEW indices, NEW set, NEW n \in Nat
  PROVE  \E f : IsAmong(f, indices, set, n)
<1> DEFINE Reached == {k \in 0 .. n : \E f : IsAmong(f, indices, set, k)}
<1>1. 0 \in Reached
  <2> DEFINE f == [k \in 0 .. 0 |-> <<>>]
  <2>1. IsAmong(f, indices, set, 0)
    BY DEF IsAmong
  <2> QED
    BY <2>1
<1>2. ASSUME NEW k \in 0 .. n - 1, k \in Reached PROVE k + 1 \in Reached
  <2>1. PICK f : IsAmong(f, indices, set, k)
    BY <1>2
  <2> DEFINE last == f[k] \o Picked(indices, set, k + 1)
             g == [j \in 0 .. k + 1 |-> IF j = k + 1 THEN last ELSE f[j]]
  <2>2. ASSUME NEW j \in 0 .. k + 1
        PROVE  g[j] = IF j = 0 THEN <<>> ELSE g[j - 1] \o Picked(indices, set, j)
    <3>1. CASE j = k + 1
      <4>1. g[j] = last /\ g[j - 1] = f[k] /\ j # 0
        <5> HIDE DEF last
        <5> QED BY <3>1
      <4> HIDE DEF g
      <4> QED
        BY <3>1, <4>1
    <3>2. CASE j # k + 1
      <4>1. j \in 0 .. k /\ g[j] = f[j]
        <5> HIDE DEF last
        <5> QED BY <3>2
      <4>2. f[j] = IF j = 0 THEN <<>> ELSE f[j - 1] \o Picked(indices, set, j)
        BY <4>1, <2>1 DEF IsAmong
      <4>3. j # 0 => g[j - 1] = f[j - 1]
        <5> HIDE DEF last
        <5> QED BY <4>1
      <4> HIDE DEF g
      <4> QED
        BY <4>1, <4>2, <4>3
    <3> QED
      BY <3>1, <3>2
  <2>3. g = [j \in 0 .. k + 1 |-> g[j]]
    <3> HIDE DEF last
    <3> QED OBVIOUS
  <2>4. IsAmong(g, indices, set, k + 1)
    <3> HIDE DEF g
    <3> QED BY <2>2, <2>3 DEF IsAmong
  <2> HIDE DEF g
  <2> QED
    BY <2>4
<1>3. 0 .. n \subseteq Reached
  <2> HIDE DEF Reached
  <2> QED BY <1>1, <1>2, UpToInduction
<1> QED
  BY <1>3

LEMMA AmongIsOfThem ==
  ASSUME NEW whole, NEW indices \in Seq(whole), NEW set
  PROVE  Among(indices, set) \in Seq(set)
<1>1. Len(indices) \in Nat
  OBVIOUS
<1>2. \E f : IsAmong(f, indices, set, Len(indices))
  BY <1>1, AmongExists
<1>3. Among(indices, set)
        = (CHOOSE f : IsAmong(f, indices, set, Len(indices)))[Len(indices)]
  BY Zenon DEF Among, IsAmong, Picked
<1>4. PICK f : IsAmong(f, indices, set, Len(indices)) /\ Among(indices, set) = f[Len(indices)]
  BY <1>2, <1>3
<1> DEFINE Reached == {k \in 0 .. Len(indices) : f[k] \in Seq(set)}
<1>5. 0 \in Reached
  BY <1>1, <1>4 DEF IsAmong
<1>6. ASSUME NEW k \in 0 .. Len(indices) - 1, k \in Reached PROVE k + 1 \in Reached
  <2>1. f[k + 1] = f[k] \o Picked(indices, set, k + 1)
    <3>1. k + 1 \in 0 .. Len(indices) /\ k + 1 # 0 /\ (k + 1) - 1 = k
      BY <1>1
    <3>2. f = [j \in 0 .. Len(indices) |->
                 IF j = 0 THEN <<>> ELSE f[j - 1] \o Picked(indices, set, j)]
      BY <1>4 DEF IsAmong
    <3>3. f[k + 1] = IF k + 1 = 0 THEN <<>> ELSE f[(k + 1) - 1] \o Picked(indices, set, k + 1)
      BY <3>1, <3>2, Zenon
    <3> QED
      BY <3>1, <3>3
  <2>2. Picked(indices, set, k + 1) \in Seq(set)
    <3>1. CASE indices[k + 1] \in set
      BY <3>1 DEF Picked
    <3>2. CASE indices[k + 1] \notin set
      BY <3>2 DEF Picked
    <3> QED
      BY <3>1, <3>2
  <2>3. f[k] \o Picked(indices, set, k + 1) \in Seq(set)
    BY <1>6, <2>2, ConcatIsOfBoth
  <2>4. f[k + 1] \in Seq(set)
    BY <2>1, <2>3, Zenon
  <2>5. k + 1 \in 0 .. Len(indices)
    BY <1>1
  <2> HIDE DEF Reached
  <2>6. k + 1 \in Reached <=> k + 1 \in 0 .. Len(indices) /\ f[k + 1] \in Seq(set)
    BY Zenon DEF Reached
  <2> QED
    BY <2>4, <2>5, <2>6
<1>7. 0 .. Len(indices) \subseteq Reached
  <2> HIDE DEF Reached
  <2> QED BY <1>1, <1>5, <1>6, UpToInduction
<1> QED
  BY <1>1, <1>4, <1>7

\* Where every member is among them, all are left.
LEMMA AmongOfAll ==
  ASSUME NEW S, NEW s \in Seq(S), NEW set, \A k \in 1 .. Len(s) : s[k] \in set
  PROVE  Among(s, set) = s
<1>1. Len(s) \in Nat
  OBVIOUS
<1>2. \E f : IsAmong(f, s, set, Len(s))
  BY <1>1, AmongExists
<1>3. Among(s, set) = (CHOOSE f : IsAmong(f, s, set, Len(s)))[Len(s)]
  BY Zenon DEF Among, IsAmong, Picked
<1>4. PICK f : IsAmong(f, s, set, Len(s)) /\ Among(s, set) = f[Len(s)]
  BY <1>2, <1>3
<1> DEFINE Reached == {k \in 0 .. Len(s) : f[k] = SubSeq(s, 1, k)}
<1>5. 0 \in Reached
  <2>1. f[0] = <<>>
    BY <1>1, <1>4 DEF IsAmong
  <2>2. SubSeq(s, 1, 0) = <<>>
    OBVIOUS
  <2>3. f[0] = SubSeq(s, 1, 0)
    BY <2>1, <2>2, Zenon
  <2>4. 0 \in 0 .. Len(s)
    BY <1>1
  <2> QED
    BY <2>3, <2>4, Zenon
<1>6. ASSUME NEW k \in 0 .. Len(s) - 1, k \in Reached PROVE k + 1 \in Reached
  <2>1. k + 1 \in 0 .. Len(s) /\ k + 1 \in 1 .. Len(s) /\ k + 1 # 0 /\ (k + 1) - 1 = k
    BY <1>1
  <2>2. f[k + 1] = f[k] \o Picked(s, set, k + 1)
    <3>1. f = [j \in 0 .. Len(s) |-> IF j = 0 THEN <<>> ELSE f[j - 1] \o Picked(s, set, j)]
      BY <1>4 DEF IsAmong
    <3>2. f[k + 1] = IF k + 1 = 0 THEN <<>> ELSE f[(k + 1) - 1] \o Picked(s, set, k + 1)
      BY <2>1, <3>1, Zenon
    <3> QED
      BY <2>1, <3>2
  <2>3. Picked(s, set, k + 1) = <<s[k + 1]>>
    BY <2>1 DEF Picked
  <2>4. f[k] = SubSeq(s, 1, k)
    BY <1>6
  <2>5. SubSeq(s, 1, k) \o <<s[k + 1]>> = SubSeq(s, 1, k + 1)
    BY <2>1
  <2>6. f[k + 1] = SubSeq(s, 1, k + 1)
    BY <2>2, <2>3, <2>4, <2>5
  <2> QED
    BY <2>1, <2>6
<1>7. 0 .. Len(s) \subseteq Reached
  <2> HIDE DEF Reached
  <2> QED BY <1>1, <1>5, <1>6, UpToInduction
<1>8. f[Len(s)] = SubSeq(s, 1, Len(s))
  BY <1>1, <1>7
<1>9. SubSeq(s, 1, Len(s)) = s
  OBVIOUS
<1> QED
  BY <1>4, <1>8, <1>9

\* The order of emission, and so the prompt on the wire.
LEMMA EmissionIs ==
  ASSUME NEW a \in Arms, NEW s \in Shapes
  PROVE  LET wire == Emission(s, a.order) IN
         /\ wire \in Seq(DOMAIN s.segs)
         /\ WireIds[a][s] = [p \in DOMAIN wire |-> s.segs[wire[p]]]
<1>1. s.segs \in Seq(Segments)
  BY ReplayAssumption
<1>2. a.order \in Seq(Nat)
  BY ReplayAssumption DEF Arm
<1> DEFINE indices == [i \in DOMAIN s.segs |-> i]
           others == DOMAIN s.segs \ ToSet(a.order)
<1>3. indices \in Seq(Nat)
  BY <1>1
<1>4. Among(a.order, DOMAIN s.segs) \in Seq(DOMAIN s.segs)
  BY <1>2, AmongIsOfThem
<1>5. Among(indices, others) \in Seq(DOMAIN s.segs)
  <2>1. Among(indices, others) \in Seq(others)
    <3> HIDE DEF indices, others
    <3> QED BY <1>3, AmongIsOfThem
  <2>2. others \subseteq DOMAIN s.segs
    OBVIOUS
  <2> HIDE DEF indices, others
  <2> QED
    BY <2>1, <2>2
<1>6. Among(a.order, DOMAIN s.segs) \o Among(indices, others) \in Seq(DOMAIN s.segs)
  <2> HIDE DEF indices, others
  <2> QED BY <1>4, <1>5, ConcatIsOfBoth
<1>7. Emission(s, a.order) \in Seq(DOMAIN s.segs)
  BY <1>6 DEF Emission
<1>8. WireIds[a][s] = [p \in DOMAIN Emission(s, a.order) |-> s.segs[Emission(s, a.order)[p]]]
  BY DEF WireIds
<1> QED
  BY <1>7, <1>8

\* A prompt goes on the wire as a sequence of segments.
LEMMA WireIsOfSegments ==
  ASSUME NEW a \in Arms, NEW s \in Shapes
  PROVE  WireIds[a][s] \in Seq(Segments)
<1>1. s.segs \in Seq(Segments)
  BY ReplayAssumption
<1>2. PICK wire : /\ wire = Emission(s, a.order) /\ wire \in Seq(DOMAIN s.segs)
                  /\ WireIds[a][s] = [p \in DOMAIN wire |-> s.segs[wire[p]]]
  BY EmissionIs
<1>3. \A p \in DOMAIN wire : s.segs[wire[p]] \in Segments
  BY <1>1, <1>2
<1>4. DOMAIN wire = 1 .. Len(wire) /\ Len(wire) \in Nat
  BY <1>2
<1>5. WireIds[a][s] = [p \in DOMAIN wire |-> s.segs[wire[p]]]
  BY <1>2
<1> QED
  BY <1>3, <1>4, <1>5

-----------------------------------------------------------------------------
(* What markers come to: a ladder of prefixes, each longer than the one before.  *)

\* t is what is left of the first n members of s when some are left out.
Drawn(t, s, n) ==
  \E f \in [1 .. Len(t) -> 1 .. n] :
    /\ \A i \in 1 .. Len(t) : \A j \in 1 .. Len(t) : i < j => f[i] < f[j]
    /\ \A i \in 1 .. Len(t) : t[i] = s[f[i]]

LEMMA DrawnOfNone ==
  ASSUME NEW s
  PROVE  Drawn(<<>>, s, 0)
<1> DEFINE f == [i \in 1 .. Len(<<>>) |-> i]
<1>1. f \in [1 .. Len(<<>>) -> 1 .. 0]
  OBVIOUS
<1>2. 1 .. Len(<<>>) = {}
  OBVIOUS
<1> QED
  BY <1>1, <1>2 DEF Drawn

LEMMA DrawnOfMore ==
  ASSUME NEW S, NEW s \in Seq(S), NEW t \in Seq(S), NEW n \in 0 .. Len(s) - 1, Drawn(t, s, n)
  PROVE  /\ Drawn(t, s, n + 1)
         /\ t \o <<s[n + 1]>> \in Seq(S)
         /\ Drawn(t \o <<s[n + 1]>>, s, n + 1)
<1>1. PICK f \in [1 .. Len(t) -> 1 .. n] :
        /\ \A i \in 1 .. Len(t) : \A j \in 1 .. Len(t) : i < j => f[i] < f[j]
        /\ \A i \in 1 .. Len(t) : t[i] = s[f[i]]
  BY DEF Drawn
<1>2. Len(t) \in Nat /\ Len(s) \in Nat /\ n \in Nat /\ s[n + 1] \in S
  OBVIOUS
<1>3. Drawn(t, s, n + 1)
  <2>1. f \in [1 .. Len(t) -> 1 .. n + 1]
    BY <1>2
  <2> QED
    BY <1>1, <2>1 DEF Drawn
<1>4. PICK more : more = t \o <<s[n + 1]>>
  OBVIOUS
<1>5. /\ more \in Seq(S) /\ Len(more) = Len(t) + 1 /\ more[Len(t) + 1] = s[n + 1]
      /\ \A i \in 1 .. Len(t) : more[i] = t[i]
  BY <1>2, <1>4
<1>6. Drawn(more, s, n + 1)
  <2> DEFINE g == [i \in 1 .. Len(more) |-> IF i = Len(t) + 1 THEN n + 1 ELSE f[i]]
  <2>1. \A i \in 1 .. Len(more) : i = Len(t) + 1 \/ i \in 1 .. Len(t)
    BY <1>2, <1>5
  <2>2. /\ \A i \in 1 .. Len(t) : g[i] = f[i] /\ f[i] \in 1 .. n
        /\ g[Len(t) + 1] = n + 1
    BY <1>2, <1>5
  <2>3. g \in [1 .. Len(more) -> 1 .. n + 1]
    BY <1>2, <2>1, <2>2
  <2> HIDE DEF g
  <2>4. \A i \in 1 .. Len(more) : \A j \in 1 .. Len(more) : i < j => g[i] < g[j]
    <3> SUFFICES ASSUME NEW i \in 1 .. Len(more), NEW j \in 1 .. Len(more), i < j
                 PROVE  g[i] < g[j]
      OBVIOUS
    <3>1. i \in 1 .. Len(t)
      BY <1>2, <1>5
    <3>2. CASE j = Len(t) + 1
      BY <1>2, <2>2, <3>1, <3>2
    <3>3. CASE j \in 1 .. Len(t)
      BY <1>1, <2>2, <3>1, <3>3
    <3> QED
      BY <2>1, <3>2, <3>3
  <2>5. \A i \in 1 .. Len(more) : more[i] = s[g[i]]
    BY <1>1, <1>5, <2>1, <2>2
  <2> QED
    BY <2>3, <2>4, <2>5 DEF Drawn
<1> QED
  BY <1>3, <1>4, <1>5, <1>6

LEMMA AmongIsDrawn ==
  ASSUME NEW S, NEW s \in Seq(S), NEW set
  PROVE  Among(s, set) \in Seq(S) /\ Drawn(Among(s, set), s, Len(s))
<1>1. Len(s) \in Nat
  OBVIOUS
<1>2. \E f : IsAmong(f, s, set, Len(s))
  BY <1>1, AmongExists
<1>3. Among(s, set) = (CHOOSE f : IsAmong(f, s, set, Len(s)))[Len(s)]
  BY Zenon DEF Among, IsAmong, Picked
<1>4. PICK f : IsAmong(f, s, set, Len(s)) /\ Among(s, set) = f[Len(s)]
  BY <1>2, <1>3
<1> DEFINE Reached == {k \in 0 .. Len(s) : f[k] \in Seq(S) /\ Drawn(f[k], s, k)}
<1>5. 0 \in Reached
  <2>1. f[0] = <<>>
    BY <1>1, <1>4 DEF IsAmong
  <2>2. <<>> \in Seq(S) /\ Drawn(<<>>, s, 0) /\ 0 \in 0 .. Len(s)
    BY <1>1, DrawnOfNone
  <2>3. f[0] \in Seq(S) /\ Drawn(f[0], s, 0)
    BY <2>1, <2>2
  <2> QED
    BY <2>2, <2>3
<1>6. ASSUME NEW k \in 0 .. Len(s) - 1, k \in Reached PROVE k + 1 \in Reached
  <2>1. f[k + 1] = f[k] \o Picked(s, set, k + 1)
    <3>1. k + 1 \in 0 .. Len(s) /\ k + 1 # 0 /\ (k + 1) - 1 = k
      BY <1>1
    <3>2. f = [j \in 0 .. Len(s) |-> IF j = 0 THEN <<>> ELSE f[j - 1] \o Picked(s, set, j)]
      BY <1>4 DEF IsAmong
    <3>3. f[k + 1] = IF k + 1 = 0 THEN <<>> ELSE f[(k + 1) - 1] \o Picked(s, set, k + 1)
      BY <3>1, <3>2, Zenon
    <3> QED
      BY <3>1, <3>3
  <2>2. f[k] \in Seq(S) /\ Drawn(f[k], s, k) /\ k + 1 \in 0 .. Len(s)
    BY <1>1, <1>6
  <2>3. CASE s[k + 1] \in set
    <3>1. f[k + 1] = f[k] \o <<s[k + 1]>>
      BY <2>1, <2>3 DEF Picked
    <3> QED
      BY <2>2, <3>1, DrawnOfMore
  <2>4. CASE s[k + 1] \notin set
    <3>1. f[k + 1] = f[k] \o <<>>
      BY <2>1, <2>4 DEF Picked
    <3>2. f[k + 1] = f[k]
      BY <2>2, <3>1
    <3> QED
      BY <2>2, <3>2, DrawnOfMore
  <2> QED
    BY <2>3, <2>4
<1>7. 0 .. Len(s) \subseteq Reached
  <2> HIDE DEF Reached
  <2> QED BY <1>1, <1>5, <1>6, UpToInduction
<1> QED
  BY <1>1, <1>4, <1>7

\* The recursive function that drops what is beyond the window.
InWindow(before, pres, window, k) ==
  IF Near(before, pres[k], window) THEN <<pres[k]>> ELSE <<>>

IsWithin(f, pres, window, n) ==
  f = [k \in 0 .. n |-> IF k = 0 THEN <<>> ELSE f[k - 1] \o InWindow(f[k - 1], pres, window, k)]

LEMMA WithinExists ==
  ASSUME NEW pres, NEW window, NEW n \in Nat
  PROVE  \E f : IsWithin(f, pres, window, n)
<1> DEFINE Reached == {k \in 0 .. n : \E f : IsWithin(f, pres, window, k)}
<1>1. 0 \in Reached
  <2> DEFINE f == [k \in 0 .. 0 |-> <<>>]
  <2>1. IsWithin(f, pres, window, 0)
    BY DEF IsWithin
  <2> QED
    BY <2>1
<1>2. ASSUME NEW k \in 0 .. n - 1, k \in Reached PROVE k + 1 \in Reached
  <2>1. PICK f : IsWithin(f, pres, window, k)
    BY <1>2
  <2> DEFINE last == f[k] \o InWindow(f[k], pres, window, k + 1)
             g == [j \in 0 .. k + 1 |-> IF j = k + 1 THEN last ELSE f[j]]
  <2>2. ASSUME NEW j \in 0 .. k + 1
        PROVE  g[j] = IF j = 0 THEN <<>> ELSE g[j - 1] \o InWindow(g[j - 1], pres, window, j)
    <3>1. CASE j = k + 1
      <4>1. g[j] = last /\ g[j - 1] = f[k] /\ j # 0
        <5> HIDE DEF last
        <5> QED BY <3>1
      <4> HIDE DEF g
      <4> QED
        BY <3>1, <4>1
    <3>2. CASE j # k + 1
      <4>1. j \in 0 .. k /\ g[j] = f[j]
        <5> HIDE DEF last
        <5> QED BY <3>2
      <4>2. f[j] = IF j = 0 THEN <<>> ELSE f[j - 1] \o InWindow(f[j - 1], pres, window, j)
        BY <4>1, <2>1 DEF IsWithin
      <4>3. j # 0 => g[j - 1] = f[j - 1]
        <5> HIDE DEF last
        <5> QED BY <4>1
      <4> HIDE DEF g
      <4> QED
        BY <4>1, <4>2, <4>3
    <3> QED
      BY <3>1, <3>2
  <2>3. g = [j \in 0 .. k + 1 |-> g[j]]
    <3> HIDE DEF last
    <3> QED OBVIOUS
  <2>4. IsWithin(g, pres, window, k + 1)
    <3> HIDE DEF g
    <3> QED BY <2>2, <2>3 DEF IsWithin
  <2> HIDE DEF g
  <2> QED
    BY <2>4
<1>3. 0 .. n \subseteq Reached
  <2> HIDE DEF Reached
  <2> QED BY <1>1, <1>2, UpToInduction
<1> QED
  BY <1>3

LEMMA WithinIsDrawn ==
  ASSUME NEW S, NEW s \in Seq(S), NEW window
  PROVE  WithinWindow(s, window) \in Seq(S) /\ Drawn(WithinWindow(s, window), s, Len(s))
<1>1. Len(s) \in Nat
  OBVIOUS
<1>2. \E f : IsWithin(f, s, window, Len(s))
  BY <1>1, WithinExists
<1>3. WithinWindow(s, window) = (CHOOSE f : IsWithin(f, s, window, Len(s)))[Len(s)]
  BY Zenon DEF WithinWindow, IsWithin, InWindow
<1>4. PICK f : IsWithin(f, s, window, Len(s)) /\ WithinWindow(s, window) = f[Len(s)]
  BY <1>2, <1>3
<1> DEFINE Reached == {k \in 0 .. Len(s) : f[k] \in Seq(S) /\ Drawn(f[k], s, k)}
<1>5. 0 \in Reached
  <2>1. f[0] = <<>>
    BY <1>1, <1>4 DEF IsWithin
  <2>2. <<>> \in Seq(S) /\ Drawn(<<>>, s, 0) /\ 0 \in 0 .. Len(s)
    BY <1>1, DrawnOfNone
  <2>3. f[0] \in Seq(S) /\ Drawn(f[0], s, 0)
    BY <2>1, <2>2
  <2> QED
    BY <2>2, <2>3
<1>6. ASSUME NEW k \in 0 .. Len(s) - 1, k \in Reached PROVE k + 1 \in Reached
  <2>1. f[k + 1] = f[k] \o InWindow(f[k], s, window, k + 1)
    <3>1. k + 1 \in 0 .. Len(s) /\ k + 1 # 0 /\ (k + 1) - 1 = k
      BY <1>1
    <3>2. f = [j \in 0 .. Len(s) |->
                 IF j = 0 THEN <<>> ELSE f[j - 1] \o InWindow(f[j - 1], s, window, j)]
      BY <1>4 DEF IsWithin
    <3>3. f[k + 1] = IF k + 1 = 0 THEN <<>>
                     ELSE f[(k + 1) - 1] \o InWindow(f[(k + 1) - 1], s, window, k + 1)
      BY <3>1, <3>2, Zenon
    <3> QED
      BY <3>1, <3>3
  <2>2. f[k] \in Seq(S) /\ Drawn(f[k], s, k) /\ k + 1 \in 0 .. Len(s)
    BY <1>1, <1>6
  <2>3. CASE Near(f[k], s[k + 1], window)
    <3>1. f[k + 1] = f[k] \o <<s[k + 1]>>
      BY <2>1, <2>3 DEF InWindow
    <3> QED
      BY <2>2, <3>1, DrawnOfMore
  <2>4. CASE ~ Near(f[k], s[k + 1], window)
    <3>1. f[k + 1] = f[k] \o <<>>
      BY <2>1, <2>4 DEF InWindow
    <3>2. f[k + 1] = f[k]
      BY <2>2, <3>1
    <3> QED
      BY <2>2, <3>2, DrawnOfMore
  <2> QED
    BY <2>3, <2>4
<1>7. 0 .. Len(s) \subseteq Reached
  <2> HIDE DEF Reached
  <2> QED BY <1>1, <1>5, <1>6, UpToInduction
<1> QED
  BY <1>1, <1>4, <1>7

\* Members are prefixes of the wire, each longer than the one before.
Rung(p, wire) ==
  \E n \in 1 .. Len(wire) : p.ids = Prefix(wire, n) /\ p.tokens = Tokens(Prefix(wire, n))

Ladder(pres, wire) ==
  /\ Len(pres) \in Nat /\ DOMAIN pres = 1 .. Len(pres)
  /\ \A i \in 1 .. Len(pres) : Rung(pres[i], wire)
  /\ \A i \in 1 .. Len(pres) : \A j \in 1 .. Len(pres) :
       i < j => Len(pres[i].ids) < Len(pres[j].ids)

LEMMA LadderOfDrawn ==
  ASSUME NEW wire, NEW S, NEW pres \in Seq(S), Ladder(pres, wire),
         NEW t \in Seq(S), Drawn(t, pres, Len(pres))
  PROVE  Ladder(t, wire) /\ \A i \in 1 .. Len(t) : \E j \in 1 .. Len(pres) : t[i] = pres[j]
<1>1. PICK f \in [1 .. Len(t) -> 1 .. Len(pres)] :
        /\ \A i \in 1 .. Len(t) : \A j \in 1 .. Len(t) : i < j => f[i] < f[j]
        /\ \A i \in 1 .. Len(t) : t[i] = pres[f[i]]
  BY DEF Drawn
<1>2. Len(t) \in Nat /\ DOMAIN t = 1 .. Len(t)
  OBVIOUS
<1>3. \A i \in 1 .. Len(t) : f[i] \in 1 .. Len(pres) /\ t[i] = pres[f[i]]
  BY <1>1
<1>4. \A i \in 1 .. Len(t) : Rung(t[i], wire)
  BY <1>3 DEF Ladder
<1>5. \A i \in 1 .. Len(t) : \A j \in 1 .. Len(t) : i < j => Len(t[i].ids) < Len(t[j].ids)
  BY <1>1, <1>3 DEF Ladder
<1> QED
  BY <1>2, <1>3, <1>4, <1>5 DEF Ladder

LEMMA PlanIsLadder ==
  ASSUME NEW a \in Arms, NEW s \in Shapes
  PROVE  /\ PlanPrefixes(a, s) \in Seq(ToSet(PlanPrefixes(a, s)))
         /\ Ladder(PlanPrefixes(a, s), WireIds[a][s])
<1>1. PICK wire, ids : /\ wire = Emission(s, a.order) /\ ids = WireIds[a][s]
                       /\ wire \in Seq(DOMAIN s.segs)
                       /\ ids = [p \in DOMAIN wire |-> s.segs[wire[p]]]
  BY EmissionIs
<1>2. /\ ids \in Seq(Segments) /\ Len(ids) \in Nat /\ Len(wire) = Len(ids)
      /\ DOMAIN wire = 1 .. Len(ids)
  <2>1. ids \in Seq(Segments)
    BY <1>1, WireIsOfSegments
  <2>2. Len(wire) \in Nat /\ DOMAIN wire = 1 .. Len(wire) /\ DOMAIN ids = DOMAIN wire
    BY <1>1
  <2>3. Len(ids) \in Nat /\ DOMAIN ids = 1 .. Len(ids)
    BY <2>1
  <2>4. Len(ids) = Len(wire)
    BY <2>2, <2>3
  <2> QED
    BY <2>1, <2>2, <2>3, <2>4
<1>3. PICK places, marked, cut : /\ places = [p \in DOMAIN wire |-> p]
                                 /\ marked = {p \in DOMAIN wire : wire[p] \in DOMAIN s.marks}
                                 /\ cut = Among(places, marked)
  OBVIOUS
<1>4. /\ places \in Seq(1 .. Len(ids)) /\ Len(places) = Len(ids)
      /\ \A p \in 1 .. Len(ids) : places[p] = p
  BY <1>2, <1>3
<1>5. cut \in Seq(1 .. Len(ids)) /\ Drawn(cut, places, Len(ids))
  BY <1>3, <1>4, AmongIsDrawn
<1>6. PICK f \in [1 .. Len(cut) -> 1 .. Len(ids)] :
        /\ \A i \in 1 .. Len(cut) : \A j \in 1 .. Len(cut) : i < j => f[i] < f[j]
        /\ \A i \in 1 .. Len(cut) : cut[i] = places[f[i]]
  BY <1>5 DEF Drawn
<1>7. /\ Len(cut) \in Nat /\ DOMAIN cut = 1 .. Len(cut)
      /\ \A i \in 1 .. Len(cut) : cut[i] \in 1 .. Len(ids)
      /\ \A i \in 1 .. Len(cut) : \A j \in 1 .. Len(cut) : i < j => cut[i] < cut[j]
  <2>1. Len(cut) \in Nat /\ DOMAIN cut = 1 .. Len(cut)
    BY <1>5
  <2>2. \A i \in 1 .. Len(cut) : f[i] \in 1 .. Len(ids) /\ cut[i] = f[i]
    BY <1>4, <1>6
  <2> QED
    BY <1>6, <2>1, <2>2
<1>8. PICK pres : pres = PlanPrefixes(a, s)
  OBVIOUS
<1>9. /\ DOMAIN pres = DOMAIN cut
      /\ \A i \in DOMAIN cut : /\ pres[i].ids = Prefix(ids, cut[i])
                               /\ pres[i].tokens = Tokens(Prefix(ids, cut[i]))
      /\ pres = [i \in DOMAIN cut |-> pres[i]]
  <2> DEFINE W == Emission(s, a.order)
             C == Among([p \in DOMAIN W |-> p], {p \in DOMAIN W : W[p] \in DOMAIN s.marks})
             I == WireIds[a][s]
  <2>1. PlanPrefixes(a, s) = [i \in DOMAIN C |-> [ids    |-> Prefix(I, C[i]),
                                                  tokens |-> Tokens(Prefix(I, C[i])),
                                                  ttl    |-> s.marks[W[C[i]]]]]
    BY Zenon DEF PlanPrefixes
  <2>2. C = cut /\ I = ids
    <3>1. W = wire
      BY <1>1
    <3>2. places = [p \in DOMAIN W |-> p]
      BY <1>3, <3>1, Zenon
    <3>3. marked = {p \in DOMAIN W : W[p] \in DOMAIN s.marks}
      BY <1>3, <3>1, Zenon
    <3>4. I = ids
      BY <1>1
    <3> HIDE DEF W
    <3> QED
      BY <1>3, <3>2, <3>3, <3>4, Zenon
  <2> HIDE DEF C, I, W
  <2> QED
    BY <1>8, <2>1, <2>2
<1>10. /\ DOMAIN pres = 1 .. Len(cut)
       /\ \A i \in 1 .. Len(cut) : /\ pres[i].ids = Prefix(ids, cut[i])
                                   /\ pres[i].tokens = Tokens(Prefix(ids, cut[i]))
  BY <1>7, <1>9
<1>11. pres \in Seq(ToSet(pres)) /\ Len(pres) = Len(cut)
  <2>1. \A i \in 1 .. Len(cut) : pres[i] \in ToSet(pres)
    BY <1>10 DEF ToSet
  <2>2. pres = [i \in 1 .. Len(cut) |-> pres[i]]
    BY <1>9, <1>10
  <2> HIDE DEF ToSet
  <2> QED
    BY <1>7, <2>1, <2>2
<1>12. \A i \in 1 .. Len(cut) : Len(pres[i].ids) = cut[i]
  BY <1>2, <1>7, <1>10 DEF Prefix
<1>13. Ladder(pres, ids)
  <2>1. \A i \in 1 .. Len(cut) : Rung(pres[i], ids)
    BY <1>7, <1>10 DEF Rung
  <2> QED
    BY <1>7, <1>10, <1>11, <1>12, <2>1 DEF Ladder
<1> QED
  BY <1>1, <1>8, <1>11, <1>13

\* The markers that become entries are rungs that the replay has a lifetime for.
LEMMA EntriesAreLadder ==
  ASSUME NEW a \in Arms, NEW s \in Modelled[a]
  PROVE  /\ s \in Shapes /\ Ladder(Entries[a][s], WireIds[a][s])
         /\ \A i \in 1 .. Len(Entries[a][s]) :
              /\ Entries[a][s][i].ttl \in {"5m", "1h"}
              /\ Entries[a][s][i].tokens >= Minimum[s.scope]
              /\ \E j \in 1 .. Len(PlanPrefixes(a, s)) : Entries[a][s][i] = PlanPrefixes(a, s)[j]
<1>1. s \in Shapes /\ LifetimesModelled(a, s)
  <2>1. Modelled[a] = {t \in Shapes : /\ t.segs # <<>>
                                      /\ t.scope \notin PolicyFails
                                      /\ Minimum[t.scope] # Unknown
                                      /\ LifetimesModelled(a, t)}
    BY Zenon DEF Modelled
  <2> QED
    BY <2>1
<1>2. PICK ids, plan, S, pres : /\ ids = WireIds[a][s] /\ plan = PlanPrefixes(a, s)
                                /\ S = ToSet(plan) /\ pres = Cacheable(a, s)
  OBVIOUS
<1>3. plan \in Seq(S) /\ Ladder(plan, ids)
  BY <1>1, <1>2, PlanIsLadder
<1> DEFINE Fit(p) == /\ p.ttl \in {"5m", "1h"} /\ p.tokens >= Minimum[s.scope]
                     /\ \E j \in 1 .. Len(plan) : p = plan[j]
<1>4. /\ pres \in Seq(S) /\ Drawn(pres, plan, Len(plan))
      /\ \A i \in 1 .. Len(pres) : pres[i].tokens >= Minimum[s.scope]
  <2>1. PICK large : large = {p \in Candidate : p.tokens >= Minimum[s.scope]}
    OBVIOUS
  <2>2. pres = Among(plan, large)
    BY <1>2, <2>1, Zenon DEF Cacheable
  <2>3. pres \in Seq(S) /\ Drawn(pres, plan, Len(plan)) /\ pres \in Seq(large)
    BY <1>3, <2>2, AmongIsDrawn, AmongIsOfThem
  <2>4. \A i \in 1 .. Len(pres) : pres[i] \in large
    BY <2>3
  <2> QED
    BY <2>1, <2>3, <2>4
<1>5. /\ Ladder(pres, ids)
      /\ \A i \in 1 .. Len(pres) : \E j \in 1 .. Len(plan) : pres[i] = plan[j]
  <2>1. plan \in Seq(S) /\ Ladder(plan, ids) /\ pres \in Seq(S) /\ Drawn(pres, plan, Len(plan))
    BY <1>3, <1>4
  <2>2. Ladder(pres, ids)
    BY <2>1, LadderOfDrawn
  <2>3. ASSUME NEW i \in 1 .. Len(pres)
        PROVE  \E j \in 1 .. Len(plan) : pres[i] = plan[j]
    BY <2>1, LadderOfDrawn
  <2> QED
    BY <2>2, <2>3
<1>6. \A i \in 1 .. Len(pres) : Fit(pres[i])
  <2>1. \A p \in ToSet(pres) : p.ttl \in {"5m", "1h"}
    BY <1>1, <1>2, ReplayAssumption, Zenon DEF LifetimesModelled
  <2>2. \A i \in 1 .. Len(pres) : pres[i] \in ToSet(pres)
    BY <1>4 DEF ToSet
  <2> QED
    BY <1>4, <1>5, <2>1, <2>2
<1>7. PICK e : e = Entries[a][s]
  OBVIOUS
<1>8. \/ e = pres
      \/ e = WithinWindow(pres, Lookback[s.scope])
  BY <1>2, <1>7 DEF Entries
<1> HIDE DEF Fit
<1>9. e \in Seq(S) /\ Ladder(e, ids) /\ \A i \in 1 .. Len(e) : Fit(e[i])
  <2>1. CASE e = pres
    BY <1>4, <1>5, <1>6, <2>1
  <2>2. CASE e = WithinWindow(pres, Lookback[s.scope])
    <3>1. e \in Seq(S) /\ Drawn(e, pres, Len(pres))
      BY <1>4, <2>2, WithinIsDrawn
    <3>2. Ladder(e, ids) /\ \A i \in 1 .. Len(e) : \E j \in 1 .. Len(pres) : e[i] = pres[j]
      BY <1>4, <1>5, <3>1, LadderOfDrawn
    <3> QED
      BY <1>6, <3>1, <3>2
  <2> QED
    BY <1>8, <2>1, <2>2
<1> QED
  BY <1>1, <1>2, <1>7, <1>9 DEF Fit

-----------------------------------------------------------------------------
(* What a request is billed.                                                     *)

\* The recursive function of the loop over the markers.
IsPaid(f, pres, read, ttl, n) ==
  f = [k \in 0 .. n |-> IF k = 0 THEN [lower |-> read, sum |-> 0]
                        ELSE Paying(f[k - 1], pres[k], read, ttl)]

LEMMA PaidExists ==
  ASSUME NEW pres, NEW read, NEW ttl, NEW n \in Nat
  PROVE  \E f : IsPaid(f, pres, read, ttl, n)
<1> DEFINE Start == [lower |-> read, sum |-> 0]
           Reached == {k \in 0 .. n : \E f : IsPaid(f, pres, read, ttl, k)}
<1>1. 0 \in Reached
  <2> DEFINE f == [k \in 0 .. 0 |-> Start]
  <2>1. IsPaid(f, pres, read, ttl, 0)
    <3> HIDE DEF Start
    <3>1. f = [k \in 0 .. 0 |-> IF k = 0 THEN Start ELSE Paying(f[k - 1], pres[k], read, ttl)]
      OBVIOUS
    <3> QED
      BY <3>1, Zenon DEF IsPaid, Start
  <2> QED
    BY <2>1
<1>2. ASSUME NEW k \in 0 .. n - 1, k \in Reached PROVE k + 1 \in Reached
  <2>1. PICK f : IsPaid(f, pres, read, ttl, k)
    BY <1>2
  <2> DEFINE last == Paying(f[k], pres[k + 1], read, ttl)
             g == [j \in 0 .. k + 1 |-> IF j = k + 1 THEN last ELSE f[j]]
  <2>2. ASSUME NEW j \in 0 .. k + 1
        PROVE  g[j] = IF j = 0 THEN Start ELSE Paying(g[j - 1], pres[j], read, ttl)
    <3>1. CASE j = k + 1
      <4>1. g[j] = last /\ g[j - 1] = f[k] /\ j # 0
        <5> HIDE DEF last
        <5> QED BY <3>1
      <4> HIDE DEF g
      <4> QED
        BY <3>1, <4>1
    <3>2. CASE j # k + 1
      <4>1. j \in 0 .. k /\ g[j] = f[j]
        <5> HIDE DEF last
        <5> QED BY <3>2
      <4>2. f[j] = IF j = 0 THEN Start ELSE Paying(f[j - 1], pres[j], read, ttl)
        BY <4>1, <2>1 DEF IsPaid
      <4>3. j # 0 => g[j - 1] = f[j - 1]
        <5> HIDE DEF last
        <5> QED BY <4>1
      <4> HIDE DEF g, Start
      <4> QED
        BY <4>1, <4>2, <4>3
    <3> QED
      BY <3>1, <3>2
  <2>3. g = [j \in 0 .. k + 1 |-> g[j]]
    <3> HIDE DEF last
    <3> QED OBVIOUS
  <2>4. IsPaid(g, pres, read, ttl, k + 1)
    <3> HIDE DEF g
    <3> QED BY <2>2, <2>3, Zenon DEF IsPaid
  <2> HIDE DEF g
  <2> QED
    BY <2>4
<1>3. 0 .. n \subseteq Reached
  <2> HIDE DEF Reached
  <2> QED BY <1>1, <1>2, UpToInduction
<1> QED
  BY <1>3

LEMMA WrittenIsPaid ==
  ASSUME NEW pres, NEW read, NEW ttl, Len(pres) \in Nat
  PROVE  \E f : IsPaid(f, pres, read, ttl, Len(pres)) /\ Written(pres, read, ttl) = f[Len(pres)].sum
<1>1. \E f : IsPaid(f, pres, read, ttl, Len(pres))
  BY PaidExists
<1>2. Written(pres, read, ttl) = (CHOOSE f : IsPaid(f, pres, read, ttl, Len(pres)))[Len(pres)].sum
  BY Zenon DEF Written, IsPaid
<1> QED
  BY <1>1, <1>2

\* The two sums move in step. Together they come to what lies between the end of the
\* read and the last marker that paid, which is the last of those behind the read.
PaidSoFar(short, long, pres, read, k) ==
  /\ short.lower = long.lower /\ short.lower \in Nat
  /\ short.sum \in Nat /\ long.sum \in Nat
  /\ short.sum + long.sum = short.lower - read
  /\ read <= short.lower
  /\ \A j \in 1 .. k : pres[j].tokens <= short.lower
  /\ short.lower = read \/ \E j \in 1 .. k : short.lower = pres[j].tokens

LEMMA OneMorePays ==
  ASSUME NEW pres, NEW read \in Nat, NEW k \in Nat,
         \A j \in 1 .. k + 1 : pres[j].tokens \in Nat /\ pres[j].tokens <= pres[k + 1].tokens,
         pres[k + 1].ttl \in {"5m", "1h"},
         NEW short, NEW long, PaidSoFar(short, long, pres, read, k)
  PROVE  PaidSoFar(Paying(short, pres[k + 1], read, "5m"),
                   Paying(long, pres[k + 1], read, "1h"), pres, read, k + 1)
<1>1. PICK toks : toks = pres[k + 1].tokens
  OBVIOUS
<1>2. /\ toks \in Nat /\ \A j \in 1 .. k + 1 : j \in 1 .. k \/ j = k + 1
      /\ short.lower = read \/ \E j \in 1 .. k + 1 : short.lower = pres[j].tokens
  BY <1>1, SMTT(30) DEF PaidSoFar
<1>3. CASE toks <= read
  <2>1. /\ Paying(short, pres[k + 1], read, "5m") = short
        /\ Paying(long, pres[k + 1], read, "1h") = long
    BY <1>1, <1>3 DEF Paying
  <2> QED
    BY <1>1, <1>2, <1>3, <2>1 DEF PaidSoFar
<1>4. CASE toks > read
  <2>1. short.lower <= toks
    BY <1>1, <1>2, <1>4 DEF PaidSoFar
  <2>2. PICK s, l : /\ s = Paying(short, pres[k + 1], read, "5m")
                    /\ l = Paying(long, pres[k + 1], read, "1h")
    OBVIOUS
  <2>3. ~ (toks <= read)
    BY <1>2, <1>4
  <2>4. /\ s.lower = toks /\ l.lower = toks
        /\ s.sum = short.sum + (IF pres[k + 1].ttl = "5m" THEN toks - short.lower ELSE 0)
        /\ l.sum = long.sum + (IF pres[k + 1].ttl = "1h" THEN toks - long.lower ELSE 0)
    BY <1>1, <2>2, <2>3 DEF Paying
  <2>5. s.sum \in Nat /\ l.sum \in Nat /\ s.sum + l.sum = toks - read
    <3>1. PICK low, a, b : /\ low = short.lower /\ a = short.sum /\ b = long.sum
                           /\ long.lower = low /\ low \in Nat /\ a \in Nat /\ b \in Nat
                           /\ a + b = low - read /\ low <= toks
      BY <2>1 DEF PaidSoFar
    <3>0. /\ toks \in Nat /\ low \in Nat /\ a \in Nat /\ b \in Nat
          /\ low <= toks /\ a + b = low - read
      BY <1>2, <3>1
    <3>2. CASE pres[k + 1].ttl = "5m"
      <4>1. s.sum = a + (toks - low) /\ l.sum = b
        BY <2>4, <3>1, <3>2
      <4>2. toks - low \in Nat
        BY <3>0
      <4> QED
        BY <3>0, <4>1, <4>2
    <3>3. CASE pres[k + 1].ttl = "1h"
      <4>1. s.sum = a /\ l.sum = b + (toks - low)
        BY <2>4, <3>1, <3>3
      <4>2. toks - low \in Nat
        BY <3>0
      <4> QED
        BY <3>0, <4>1, <4>2
    <3> QED
      BY <3>2, <3>3
  <2>6. /\ read <= s.lower /\ \A j \in 1 .. k + 1 : pres[j].tokens <= s.lower
        /\ \E j \in 1 .. k + 1 : s.lower = pres[j].tokens
    <3>1. k + 1 \in 1 .. k + 1
      OBVIOUS
    <3> QED
      BY <1>1, <1>2, <1>4, <2>4, <3>1
  <2>7. PaidSoFar(s, l, pres, read, k + 1)
    BY <1>2, <2>4, <2>5, <2>6 DEF PaidSoFar
  <2> QED
    BY <2>2, <2>7
<1> QED
  BY <1>2, <1>3, <1>4

LEMMA WrittenAddsUp ==
  ASSUME NEW pres, Len(pres) \in Nat \ {0}, NEW read \in Nat,
         \A i \in 1 .. Len(pres) : pres[i].tokens \in Nat /\ pres[i].ttl \in {"5m", "1h"},
         \A i \in 1 .. Len(pres) : \A j \in 1 .. i : pres[j].tokens <= pres[i].tokens,
         read <= pres[Len(pres)].tokens
  PROVE  /\ Written(pres, read, "5m") \in Nat /\ Written(pres, read, "1h") \in Nat
         /\ Written(pres, read, "5m") + Written(pres, read, "1h") = pres[Len(pres)].tokens - read
<1>1. PICK n : n = Len(pres) /\ n \in Nat \ {0}
  OBVIOUS
<1>2. PICK f : IsPaid(f, pres, read, "5m", n) /\ Written(pres, read, "5m") = f[n].sum
  BY <1>1, WrittenIsPaid
<1>3. PICK g : IsPaid(g, pres, read, "1h", n) /\ Written(pres, read, "1h") = g[n].sum
  BY <1>1, WrittenIsPaid
<1> DEFINE Reached == {k \in 0 .. n : PaidSoFar(f[k], g[k], pres, read, k)}
<1>4. 0 \in Reached
  <2>1. f[0] = [lower |-> read, sum |-> 0] /\ g[0] = [lower |-> read, sum |-> 0]
    BY <1>1, <1>2, <1>3 DEF IsPaid
  <2>2. PaidSoFar(f[0], g[0], pres, read, 0)
    BY <2>1 DEF PaidSoFar
  <2> QED
    BY <1>1, <2>2
<1>5. ASSUME NEW k \in 0 .. n - 1, k \in Reached PROVE k + 1 \in Reached
  <2>1. k + 1 \in 0 .. n /\ k + 1 # 0 /\ (k + 1) - 1 = k /\ k \in Nat /\ k + 1 \in 1 .. n
    BY <1>1
  <2>2. f[k + 1] = Paying(f[k], pres[k + 1], read, "5m")
    <3>1. f[k + 1] = IF k + 1 = 0 THEN [lower |-> read, sum |-> 0]
                     ELSE Paying(f[(k + 1) - 1], pres[k + 1], read, "5m")
      BY <1>2, <2>1, Zenon DEF IsPaid
    <3> QED
      BY <2>1, <3>1
  <2>3. g[k + 1] = Paying(g[k], pres[k + 1], read, "1h")
    <3>1. g[k + 1] = IF k + 1 = 0 THEN [lower |-> read, sum |-> 0]
                     ELSE Paying(g[(k + 1) - 1], pres[k + 1], read, "1h")
      BY <1>3, <2>1, Zenon DEF IsPaid
    <3> QED
      BY <2>1, <3>1
  <2>4. PaidSoFar(f[k], g[k], pres, read, k)
    BY <1>5
  <2>5. /\ \A j \in 1 .. k + 1 : pres[j].tokens \in Nat /\ pres[j].tokens <= pres[k + 1].tokens
        /\ pres[k + 1].ttl \in {"5m", "1h"}
    BY <1>1, <2>1
  <2>6. PaidSoFar(f[k + 1], g[k + 1], pres, read, k + 1)
    BY <2>1, <2>2, <2>3, <2>4, <2>5, OneMorePays
  <2> QED
    BY <2>1, <2>6
<1>6. 0 .. n \subseteq Reached
  <2> HIDE DEF Reached
  <2> QED BY <1>1, <1>4, <1>5, UpToInduction
<1>7. PaidSoFar(f[n], g[n], pres, read, n)
  BY <1>1, <1>6
<1>8. f[n].lower = pres[n].tokens
  <2>1. \A j \in 1 .. n : pres[j].tokens <= pres[n].tokens /\ pres[j].tokens \in Nat
    BY <1>1
  <2>2. PICK low : /\ low = f[n].lower /\ low \in Nat
                   /\ \A j \in 1 .. n : pres[j].tokens <= low
                   /\ low = read \/ \E j \in 1 .. n : low = pres[j].tokens
    BY <1>7, Zenon DEF PaidSoFar
  <2>3. n \in 1 .. n /\ read <= pres[n].tokens
    BY <1>1
  <2>4. pres[n].tokens <= low /\ low <= pres[n].tokens /\ pres[n].tokens \in Nat
    BY <2>1, <2>2, <2>3
  <2> QED
    BY <2>2, <2>4
<1> QED
  BY <1>1, <1>2, <1>3, <1>7, <1>8 DEF PaidSoFar

LEMMA TokensOfAll ==
  ASSUME NEW s \in Shapes
  PROVE  Tokens(s.segs) \in Nat
<1>1. s.segs \in Seq(Segments)
  BY ReplayAssumption
<1>2. Prefix(s.segs, Len(s.segs)) = s.segs /\ Len(s.segs) \in Nat
  BY <1>1 DEF Prefix
<1>3. Len(s.segs) \in 0 .. Len(s.segs)
  BY <1>2
<1> QED
  BY <1>1, <1>2, <1>3, LongerIsMore

-----------------------------------------------------------------------------
(* The invariant: what is live was written by a request that marked the prefix,  *)
(* and every request that marked it since found the entry alive.                 *)

Row == [shape : Shapes, sent : Nat]

InStep ==
  /\ arm \in Arms
  /\ trace \in Seq(Row)
  /\ usages \in Seq(Range(usages))
  /\ priced \in Seq(Nat)
  /\ Len(usages) = Len(priced)
  /\ \A n \in DOMAIN priced : priced[n] \in 1 .. Len(trace)

\* A request marks a prefix if an entry of it ends there.
Marks(s, ids) == Caches(s) /\ \E p \in ToSet(Entries[arm][s]) : p.ids = ids

\* The requests up to one that marked a prefix.
MarkedBy(upTo, scope, ids) ==
  {i \in 1 .. upTo : trace[i].shape.scope = scope /\ Marks(trace[i].shape, ids)}

Before(marking, t) == {j \in marking : j < t}

\* Each request that marked the prefix after request i did so before the entry ended.
Unbroken(i, marking, ids) ==
  \A t \in marking : t > i => trace[t].sent < EndAfter(Max(Before(marking, t)), ids)

\* Each of them came when the response to request i had begun.
AfterResponse(i, marking) ==
  \A j \in marking : j > i => VisibleAt(trace[i]) <= trace[j].sent

LiveEntry(scope, ids) ==
  LET entry   == live[<<scope, ids>>]
      marking == MarkedBy(Len(trace), scope, ids)
  IN /\ marking # {}
     /\ entry.until = EndAfter(Max(marking), ids)
     /\ \E i \in marking : entry.from = VisibleAt(trace[i]) /\ Unbroken(i, marking, ids)
     /\ \A i \in marking :
          Unbroken(i, marking, ids) /\ AfterResponse(i, marking) => entry.from <= VisibleAt(trace[i])

LiveInv ==
  /\ \A key \in DOMAIN live : key = <<key[1], key[2]>> /\ LiveEntry(key[1], key[2])
  /\ \A i \in DOMAIN trace : \A p \in ToSet(Entries[arm][trace[i].shape]) :
       Caches(trace[i].shape) => <<trace[i].shape.scope, p.ids>> \in DOMAIN live

Inv == InStep /\ LiveInv /\ HitsWereWritten /\ WarmPrefixesAreRead

\* The marking of a hit is what had marked its prefix before.
LEMMA MarkingIsMarkedBy ==
  ASSUME NEW n, NEW ids
  PROVE  Marking(n, ids) = MarkedBy(priced[n] - 1, Billed(n).shape.scope, ids)
BY DEF Marking, MarkedBy, Marks

\* What was replayed stays as it was.
KeepsPast == arm' = arm /\ \A i \in 1 .. Len(trace) : trace'[i] = trace[i]

LEMMA PastStays ==
  ASSUME InStep, KeepsPast
  PROVE  /\ \A i \in 1 .. Len(trace) : trace'[i] = trace[i]
         /\ \A s, ids : Marks(s, ids)' <=> Marks(s, ids)
         /\ \A s : Caches(s)' <=> Caches(s)
         /\ \A i \in 1 .. Len(trace) : \A ids : EndAfter(i, ids)' = EndAfter(i, ids)
         /\ \A x : VisibleAt(x)' = VisibleAt(x)
         /\ \A upTo \in 0 .. Len(trace) : \A scope, ids :
              MarkedBy(upTo, scope, ids)' = MarkedBy(upTo, scope, ids)
<1>1. Len(trace) \in Nat
  BY DEF InStep
<1>2. \A i \in 1 .. Len(trace) : trace'[i] = trace[i]
  BY DEF KeepsPast
<1>3. \A s : Caches(s)' <=> Caches(s)
  BY Zenon DEF Caches, KeepsPast
<1>4. \A s, ids : Marks(s, ids)' <=> Marks(s, ids)
  BY <1>3, Zenon DEF Marks, KeepsPast
<1>5. \A i \in 1 .. Len(trace) : \A ids : EndAfter(i, ids)' = EndAfter(i, ids)
  BY <1>2, Zenon DEF EndAfter, Life, KeepsPast
<1>6. \A x : VisibleAt(x)' = VisibleAt(x)
  BY Zenon DEF VisibleAt, KeepsPast
<1>7. ASSUME NEW upTo \in 0 .. Len(trace), NEW scope, NEW ids
      PROVE  MarkedBy(upTo, scope, ids)' = MarkedBy(upTo, scope, ids)
  <2>1. \A i \in 1 .. upTo : trace'[i] = trace[i]
    BY <1>1, <1>2
  <2> QED
    BY <1>4, <2>1, Zenon DEF MarkedBy
<1> QED
  BY <1>2, <1>3, <1>4, <1>5, <1>6, <1>7

\* Request r is replayed.
Appends(r) == trace' = Append(trace, r) /\ arm' = arm

LEMMA Appending ==
  ASSUME InStep, NEW r \in Row, Appends(r)
  PROVE  /\ KeepsPast
         /\ trace' \in Seq(Row) /\ Len(trace') = Len(trace) + 1 /\ trace'[Len(trace) + 1] = r
         /\ \A scope, ids :
              MarkedBy(Len(trace), scope, ids)'
                = IF r.shape.scope = scope /\ Marks(r.shape, ids)
                  THEN MarkedBy(Len(trace), scope, ids) \cup {Len(trace) + 1}
                  ELSE MarkedBy(Len(trace), scope, ids)
<1>1. /\ trace' \in Seq(Row) /\ Len(trace') = Len(trace) + 1 /\ trace'[Len(trace) + 1] = r
      /\ Len(trace) \in Nat
  BY DEF InStep, Appends
<1>2. \A i \in 1 .. Len(trace) : trace'[i] = trace[i]
  BY DEF InStep, Appends
<1>3. KeepsPast
  BY <1>2 DEF KeepsPast, Appends
<1>4. ASSUME NEW scope, NEW ids
      PROVE  MarkedBy(Len(trace), scope, ids)'
                = IF r.shape.scope = scope /\ Marks(r.shape, ids)
                  THEN MarkedBy(Len(trace), scope, ids) \cup {Len(trace) + 1}
                  ELSE MarkedBy(Len(trace), scope, ids)
  <2> DEFINE Now == Len(trace) + 1
             Old(i) == trace[i].shape.scope = scope /\ Marks(trace[i].shape, ids)
             New(i) == trace'[i].shape.scope = scope /\ Marks(trace'[i].shape, ids)
  <2>1. MarkedBy(Len(trace), scope, ids)' = {i \in 1 .. Now : New(i)}
    <3>1. MarkedBy(Len(trace), scope, ids)'
            = {i \in 1 .. Len(trace') : trace'[i].shape.scope = scope /\ Marks(trace[i].shape, ids)'}
      BY Zenon DEF MarkedBy
    <3>2. \A i \in 1 .. Len(trace') : Marks(trace[i].shape, ids)' <=> Marks(trace'[i].shape, ids)
      <4>1. \A s : Caches(s)' <=> Caches(s)
        BY <1>3, PastStays
      <4> QED
        BY Zenon, <4>1 DEF Marks, Caches, Appends
    <3>3. Len(trace') = Now
      BY <1>1
    <3> QED
      BY <3>1, <3>2, <3>3, Zenon
  <2>2. \A i \in 1 .. Len(trace) : New(i) <=> Old(i)
    BY <1>2
  <2>3. New(Now) <=> r.shape.scope = scope /\ Marks(r.shape, ids)
    BY <1>1
  <2>4. MarkedBy(Len(trace), scope, ids) = {i \in 1 .. Len(trace) : Old(i)}
    BY DEF MarkedBy
  <2>5. 1 .. Now = 1 .. Len(trace) \cup {Now}
    BY <1>1
  <2> HIDE DEF Now, Old, New
  <2>6. {i \in 1 .. Now : New(i)}
          = {i \in 1 .. Len(trace) : Old(i)} \cup (IF New(Now) THEN {Now} ELSE {})
    BY <2>2, <2>5
  <2> QED
    BY <2>1, <2>3, <2>4, <2>6 DEF Now
<1> QED
  BY <1>1, <1>3, <1>4

LEMMA VisibleIsLater ==
  ASSUME arm \in Arms, NEW r \in Row
  PROVE  VisibleAt(r) \in Nat /\ r.sent \in Nat /\ r.sent <= VisibleAt(r)
<1>1. arm.latency \in Nat
  BY ReplayAssumption DEF Arm
<1>2. r.sent \in Nat /\ r.shape \in Shapes
  BY DEF Row
<1>3. r.shape.firstAfter \in Nat \cup {Unknown}
  BY <1>2, ReplayAssumption
<1>4. CASE r.shape.firstAfter = Unknown
  BY <1>1, <1>2, <1>4 DEF VisibleAt
<1>5. CASE r.shape.firstAfter # Unknown
  BY <1>1, <1>2, <1>3, <1>5 DEF VisibleAt
<1> QED
  BY <1>3, <1>4, <1>5

LEMMA LastMarking ==
  ASSUME InStep, NEW marking \in SUBSET (1 .. Len(trace))
  PROVE  /\ marking # {} => Max(marking) \in marking
         /\ \A i \in marking : \A t \in marking :
              t > i => Max(Before(marking, t)) \in 1 .. Len(trace)
<1>1. Len(trace) \in Nat
  BY DEF InStep
<1>2. ASSUME NEW S \in SUBSET marking, S # {} PROVE Max(S) \in S
  <2>1. S \in SUBSET (0 .. Len(trace))
    BY <1>1
  <2> QED
    BY <1>1, <1>2, <2>1, MaxOfBounded
<1>3. ASSUME NEW i \in marking, NEW t \in marking, t > i
      PROVE  Max(Before(marking, t)) \in 1 .. Len(trace)
  <2>1. Before(marking, t) \in SUBSET marking /\ i \in Before(marking, t)
    BY <1>3 DEF Before
  <2> QED
    BY <1>2, <2>1
<1> QED
  BY <1>2, <1>3

\* What holds of markings in the past stays true of them.
LEMMA ChainStays ==
  ASSUME InStep, KeepsPast,
         NEW marking \in SUBSET (1 .. Len(trace)), NEW i \in marking, NEW ids
  PROVE  /\ Unbroken(i, marking, ids)' = Unbroken(i, marking, ids)
         /\ AfterResponse(i, marking)' = AfterResponse(i, marking)
<1>1. \A t \in marking : trace'[t] = trace[t]
  BY PastStays
<1>2. ASSUME NEW t \in marking, t > i
      PROVE  EndAfter(Max(Before(marking, t)), ids)' = EndAfter(Max(Before(marking, t)), ids)
  <2> DEFINE before == Max(Before(marking, t))
  <2>1. before \in 1 .. Len(trace)
    BY <1>2, LastMarking
  <2>2. \A k \in 1 .. Len(trace) : EndAfter(k, ids)' = EndAfter(k, ids)
    BY PastStays
  <2> HIDE DEF before
  <2>3. EndAfter(before, ids)' = EndAfter(before, ids)
    BY <2>1, <2>2
  <2> QED
    BY <2>3 DEF before, Before
<1>3. Unbroken(i, marking, ids)' = Unbroken(i, marking, ids)
  BY <1>1, <1>2, Zenon DEF Unbroken
<1>4. VisibleAt(trace[i])' = VisibleAt(trace[i])
  BY <1>1, Zenon DEF VisibleAt, KeepsPast
<1>5. AfterResponse(i, marking)' = AfterResponse(i, marking)
  BY <1>1, <1>4, Zenon DEF AfterResponse
<1> QED
  BY <1>3, <1>5

\* An entry that the request does not mark stays as it is.
LEMMA EntryStays ==
  ASSUME InStep, KeepsPast, NEW scope, NEW ids,
         MarkedBy(Len(trace), scope, ids)' = MarkedBy(Len(trace), scope, ids),
         live'[<<scope, ids>>] = live[<<scope, ids>>], LiveEntry(scope, ids)
  PROVE  LiveEntry(scope, ids)'
<1> DEFINE marking == MarkedBy(Len(trace), scope, ids)
           entry == live[<<scope, ids>>]
<1>1. MarkedBy(Len(trace), scope, ids)' = marking
  OBVIOUS
<1>2. marking \in SUBSET (1 .. Len(trace))
  BY DEF MarkedBy
<1> HIDE DEF marking
<1>3. PICK M : M = marking
  OBVIOUS
<1>4. /\ M # {} /\ M \in SUBSET (1 .. Len(trace))
      /\ entry.until = EndAfter(Max(M), ids)
      /\ \E i \in M : entry.from = VisibleAt(trace[i]) /\ Unbroken(i, M, ids)
      /\ \A i \in M :
           Unbroken(i, M, ids) /\ AfterResponse(i, M) => entry.from <= VisibleAt(trace[i])
  BY <1>2, <1>3, Zenon DEF LiveEntry, marking
<1>5. EndAfter(Max(M), ids)' = EndAfter(Max(M), ids)
  <2>1. Max(M) \in 1 .. Len(trace)
    BY <1>4, LastMarking
  <2> QED
    BY <2>1, PastStays
<1>6. \A i \in M : Unbroken(i, M, ids)' = Unbroken(i, M, ids)
  BY <1>4, ChainStays
<1>7. \A i \in M : AfterResponse(i, M)' = AfterResponse(i, M)
  BY <1>4, ChainStays
<1>8. \A i \in M : VisibleAt(trace[i])' = VisibleAt(trace[i])
  <2>1. \A i \in M : trace'[i] = trace[i]
    BY <1>4, PastStays
  <2> QED
    BY <2>1, Zenon DEF VisibleAt, KeepsPast
<1>9. /\ MarkedBy(Len(trace), scope, ids)' = M
      /\ live'[<<scope, ids>>] = entry
  BY <1>1, <1>3
<1> HIDE DEF entry
<1>10. /\ M # {}
       /\ entry.until = EndAfter(Max(M), ids)'
       /\ \E i \in M : entry.from = VisibleAt(trace[i])' /\ Unbroken(i, M, ids)'
       /\ \A i \in M :
            Unbroken(i, M, ids)' /\ AfterResponse(i, M)' => entry.from <= VisibleAt(trace[i])'
  BY <1>4, <1>5, <1>6, <1>7, <1>8
<1> QED
  BY <1>9, <1>10, Zenon DEF LiveEntry

\* An entry that the request marks is refreshed, or written.
LEMMA EntryRefreshed ==
  ASSUME InStep, NEW r \in Row, Appends(r), NEW ids, Marks(r.shape, ids),
         NEW scope, scope = r.shape.scope,
         <<scope, ids>> \in DOMAIN live => LiveEntry(scope, ids),
         <<scope, ids>> \notin DOMAIN live => MarkedBy(Len(trace), scope, ids) = {},
         live'[<<scope, ids>>]
           = Refreshed(r, CHOOSE p \in ToSet(Entries[arm][r.shape]) : p.ids = ids)
  PROVE  LiveEntry(scope, ids)'
<1> DEFINE key == <<scope, ids>>
           entry == live'[key]
           old == live[key]
<1>1. PICK Now, M, N : /\ Now = Len(trace) + 1
                       /\ M = MarkedBy(Len(trace), scope, ids)
                       /\ N = M \cup {Now}
  OBVIOUS
<1>2. M \in SUBSET (1 .. Len(trace)) /\ Len(trace) \in Nat
  BY <1>1 DEF MarkedBy, InStep
<1>3. MarkedBy(Len(trace), scope, ids)' = N
  BY <1>1, Appending, PastStays
<1>4. /\ \A t \in M : Before(N, t) = Before(M, t) /\ t < Now
      /\ Before(N, Now) = M
  BY <1>1, <1>2 DEF Before
<1>5. Max(N) = Now
  <2>1. N \in SUBSET (0 .. Now) /\ N # {} /\ Now \in N /\ Now \in Nat
    BY <1>1, <1>2
  <2>2. Max(N) \in N /\ \A y \in N : y <= Max(N)
    BY <2>1, MaxOfBounded
  <2>3. PICK m : m = Max(N)
    OBVIOUS
  <2>4. m \in 0 .. Now /\ Now <= m
    BY <2>1, <2>2, <2>3
  <2>5. m = Now
    BY <2>1, <2>4
  <2> QED
    BY <2>3, <2>5
<1>6. trace'[Now] = r /\ \A i \in M : trace'[i] = trace[i]
  BY <1>1, <1>2, Appending, PastStays
<1>7. entry.from = IF Readable(key, r.sent) THEN old.from ELSE VisibleAt(r)
  <2>1. PICK p : p = CHOOSE q \in ToSet(Entries[arm][r.shape]) : q.ids = ids
    OBVIOUS
  <2>2. p.ids = ids
    BY <2>1 DEF Marks
  <2>3. entry = Refreshed(r, p)
    BY <2>1
  <2>4. PICK k : k = <<r.shape.scope, p.ids>>
    OBVIOUS
  <2>5. k = key
    BY <2>2, <2>4
  <2>6. Refreshed(r, p).from = IF Readable(k, r.sent) THEN live[k].from ELSE VisibleAt(r)
    BY <2>4 DEF Refreshed
  <2> HIDE DEF entry
  <2> QED
    BY <2>3, <2>5, <2>6
<1>8. entry.until = EndAfter(Now, ids)'
  <2> DEFINE p == CHOOSE p \in ToSet(Entries[arm][r.shape]) : p.ids = ids
  <2>1. EndAfter(Now, ids)' = r.sent + Life(p.ttl)
    BY <1>6, Zenon DEF EndAfter, Life, Appends
  <2>2. entry = Refreshed(r, p)
    OBVIOUS
  <2> HIDE DEF p, entry
  <2>3. entry.until = r.sent + Life(p.ttl)
    BY <2>2 DEF Refreshed
  <2> QED
    BY <2>1, <2>3
<1> HIDE DEF entry
<1>9. \A i \in M : Unbroken(i, N, ids)'
                     <=> Unbroken(i, M, ids) /\ r.sent < EndAfter(Max(M), ids)
  <2> SUFFICES ASSUME NEW i \in M
               PROVE  Unbroken(i, N, ids)'
                        <=> Unbroken(i, M, ids) /\ r.sent < EndAfter(Max(M), ids)
    OBVIOUS
  <2> DEFINE InTime(t) == trace'[t].sent < EndAfter(Max(Before(N, t)), ids)'
             InTimeOf(t) == trace'[t].sent < EndAfter(Max(Before(M, t)), ids)'
  <2>1. Unbroken(i, N, ids)' <=> \A t \in N : t > i => InTime(t)
    BY Zenon DEF Unbroken, Before
  <2>2. Unbroken(i, M, ids)' <=> \A t \in M : t > i => InTimeOf(t)
    BY Zenon DEF Unbroken, Before
  <2>3. \A t \in M : InTime(t) <=> InTimeOf(t)
    BY <1>4
  <2>4. InTime(Now) <=> r.sent < EndAfter(Max(M), ids)
    <3>1. Max(M) \in 1 .. Len(trace)
      BY <1>2, LastMarking
    <3>2. EndAfter(Max(M), ids)' = EndAfter(Max(M), ids)
      BY <3>1, Appending, PastStays
    <3> QED
      BY <1>4, <1>6, <3>2
  <2>5. Unbroken(i, M, ids)' = Unbroken(i, M, ids)
    BY <1>2, Appending, ChainStays
  <2>6. i < Now
    BY <1>4
  <2>7. (\A t \in N : t > i => InTime(t)) <=> (\A t \in M : t > i => InTimeOf(t)) /\ InTime(Now)
    <3> HIDE DEF InTime, InTimeOf
    <3> QED BY <1>1, <1>2, <2>3, <2>6
  <2> HIDE DEF InTime, InTimeOf
  <2> QED
    BY <2>1, <2>2, <2>4, <2>5, <2>7
<1>10. Unbroken(Now, N, ids)'
  <2>1. \A t \in N : ~ (t > Now)
    BY <1>1, <1>2
  <2> QED
    BY <2>1 DEF Unbroken
<1>11. \A i \in N : VisibleAt(trace[i])' = (IF i = Now THEN VisibleAt(r) ELSE VisibleAt(trace[i]))
  <2>1. \A i \in N : VisibleAt(trace[i])' = VisibleAt(trace'[i])
    BY Zenon DEF VisibleAt, Appends
  <2> QED
    BY <1>1, <1>6, <2>1
<1>12. \A i \in M : AfterResponse(i, N)' => AfterResponse(i, M) /\ VisibleAt(trace[i]) <= r.sent
  <2> SUFFICES ASSUME NEW i \in M, AfterResponse(i, N)'
               PROVE  AfterResponse(i, M) /\ VisibleAt(trace[i]) <= r.sent
    OBVIOUS
  <2>1. \A j \in N : j > i => VisibleAt(trace[i])' <= trace'[j].sent
    BY Zenon DEF AfterResponse
  <2>2. VisibleAt(trace[i])' = VisibleAt(trace[i])
    BY <1>1, <1>4, <1>11
  <2>3. Now > i /\ Now \in N /\ M \subseteq N
    BY <1>1, <1>2
  <2> QED
    BY <1>6, <2>1, <2>2, <2>3 DEF AfterResponse
<1>13. VisibleAt(r) \in Nat /\ r.sent \in Nat /\ r.sent <= VisibleAt(r)
  BY VisibleIsLater DEF InStep
<1>14. \A i \in M : VisibleAt(trace[i]) \in Nat
  <2>1. \A i \in M : trace[i] \in Row
    BY <1>2 DEF InStep
  <2> QED
    BY <2>1, VisibleIsLater DEF InStep
<1>15. ASSUME key \in DOMAIN live
       PROVE  /\ M # {}
              /\ old.until = EndAfter(Max(M), ids)
              /\ \E i \in M : old.from = VisibleAt(trace[i]) /\ Unbroken(i, M, ids)
              /\ \A i \in M :
                   Unbroken(i, M, ids) /\ AfterResponse(i, M) => old.from <= VisibleAt(trace[i])
  BY <1>1, <1>15, Zenon DEF LiveEntry
<1>16. key \notin DOMAIN live => M = {}
  BY <1>1
<1> HIDE DEF key, old
<1>17. \E i \in N : entry.from = VisibleAt(trace[i])' /\ Unbroken(i, N, ids)'
  <2>1. CASE Readable(key, r.sent)
    <3>1. PICK i \in M : old.from = VisibleAt(trace[i]) /\ Unbroken(i, M, ids)
      BY <2>1, <1>15 DEF Readable
    <3>2. r.sent < EndAfter(Max(M), ids)
      BY <2>1, <1>15 DEF Readable, old
    <3>3. i \in N /\ i # Now
      BY <1>1, <1>2
    <3> QED
      BY <2>1, <1>7, <1>9, <1>11, <3>1, <3>2, <3>3
  <2>2. CASE ~ Readable(key, r.sent)
    BY <2>2, <1>1, <1>7, <1>10, <1>11
  <2> QED
    BY <2>1, <2>2
<1>18. ASSUME NEW i \in N, Unbroken(i, N, ids)', AfterResponse(i, N)'
       PROVE  entry.from <= VisibleAt(trace[i])'
  <2>1. CASE i \in M
    <3>1. i # Now /\ key \in DOMAIN live
      BY <2>1, <1>1, <1>2, <1>16
    <3>2. Unbroken(i, M, ids) /\ r.sent < old.until
      BY <2>1, <3>1, <1>9, <1>15, <1>18
    <3>3. AfterResponse(i, M) /\ VisibleAt(trace[i]) <= r.sent
      BY <2>1, <1>12, <1>18
    <3>4. old.from <= VisibleAt(trace[i]) /\ old.from \in Nat
      BY <2>1, <3>1, <3>2, <3>3, <1>14, <1>15
    <3>5. Readable(key, r.sent)
      BY <2>1, <3>1, <3>2, <3>3, <3>4, <1>13, <1>14 DEF Readable, old
    <3> QED
      BY <3>1, <3>4, <3>5, <1>7, <1>11
  <2>2. CASE i = Now
    <3>1. VisibleAt(trace[i])' = VisibleAt(r)
      BY <2>2, <1>11
    <3>2. CASE Readable(key, r.sent)
      <4>1. old.from <= r.sent /\ old.from \in Nat
        BY <3>2, <1>14, <1>15 DEF Readable, old
      <4> QED
        BY <3>1, <3>2, <4>1, <1>7, <1>13
    <3>3. CASE ~ Readable(key, r.sent)
      BY <3>1, <3>3, <1>7, <1>13
    <3> QED
      BY <3>2, <3>3
  <2> QED
    BY <2>1, <2>2, <1>1
<1>19. entry.until = EndAfter(Max(N), ids)' /\ N # {}
  BY <1>1, <1>5, <1>8
<1> QED
  BY <1>3, <1>17, <1>18, <1>19, Zenon DEF LiveEntry, entry, key

LEMMA MarkedIsLive ==
  ASSUME LiveInv, NEW scope, NEW ids, MarkedBy(Len(trace), scope, ids) # {}, InStep
  PROVE  <<scope, ids>> \in DOMAIN live /\ LiveEntry(scope, ids)
<1>1. PICK i \in DOMAIN trace : trace[i].shape.scope = scope /\ Marks(trace[i].shape, ids)
  BY DEF MarkedBy, InStep
<1>2. <<scope, ids>> \in DOMAIN live
  BY <1>1 DEF Marks, LiveInv
<1>3. LiveEntry(<<scope, ids>>[1], <<scope, ids>>[2])
  BY <1>2 DEF LiveInv
<1> QED
  BY <1>2, <1>3

LEMMA QuietKeepsLive ==
  ASSUME InStep, LiveInv, NEW r \in Row, Appends(r), ~ Caches(r.shape), live' = live
  PROVE  LiveInv'
<1>1. ASSUME NEW key \in DOMAIN live'
      PROVE  key = <<key[1], key[2]>> /\ LiveEntry(key[1], key[2])'
  <2>1. key = <<key[1], key[2]>> /\ LiveEntry(key[1], key[2])
    BY <1>1 DEF LiveInv
  <2>2. ~ Marks(r.shape, key[2])
    BY DEF Marks
  <2> QED
    BY <2>1, <2>2, Appending, EntryStays
<1>2. ASSUME NEW i \in DOMAIN trace', NEW p \in ToSet(Entries[arm'][trace'[i].shape]), Caches(trace[i].shape)'
      PROVE  <<trace'[i].shape.scope, p.ids>> \in DOMAIN live'
  <2>1. i \in 1 .. Len(trace) + 1
    BY Appending, PastStays
  <2>2. Caches(trace'[i].shape)
    BY <1>2, Zenon DEF Caches, Appends
  <2>3. i \in DOMAIN trace /\ trace'[i] = trace[i]
    BY <2>1, <2>2, Appending, PastStays DEF InStep
  <2> QED
    BY <2>2, <2>3 DEF LiveInv, Appends
<1> QED
  BY <1>1, <1>2, Zenon DEF LiveInv

LEMMA ServeKeepsLive ==
  ASSUME InStep, LiveInv, NEW r \in Row, Appends(r), Serve(r)
  PROVE  LiveInv'
<1> DEFINE marked == ToSet(Entries[arm][r.shape])
           scope == r.shape.scope
           touched == {<<scope, p.ids>> : p \in marked}
<1>1. Caches(r.shape)
  BY DEF Serve
<1>2. live' = [key \in DOMAIN live \cup touched |->
                 IF key \in touched THEN Refreshed(r, CHOOSE p \in marked : p.ids = key[2])
                 ELSE live[key]]
  BY DEF Serve
<1>3. \A ids : Marks(r.shape, ids) <=> <<scope, ids>> \in touched
  BY <1>1 DEF Marks
<1>4. ASSUME NEW key \in DOMAIN live'
      PROVE  key = <<key[1], key[2]>> /\ LiveEntry(key[1], key[2])'
  <2>1. key \in DOMAIN live \cup touched
    BY <1>2
  <2>2. CASE key \in touched
    <3>1. PICK p \in marked : key = <<scope, p.ids>>
      BY <2>2
    <3>2. PICK ids : ids = p.ids
      OBVIOUS
    <3>3. key = <<scope, ids>> /\ key[1] = scope /\ key[2] = ids
      BY <3>1, <3>2
    <3>4. Marks(r.shape, ids)
      BY <1>3, <2>2, <3>3
    <3>5. live'[<<scope, ids>>] = Refreshed(r, CHOOSE q \in marked : q.ids = ids)
      <4> HIDE DEF touched, marked
      <4> QED BY <1>2, <2>1, <2>2, <3>3
    <3>6. <<scope, ids>> \in DOMAIN live => LiveEntry(scope, ids)
      BY <3>3 DEF LiveInv
    <3>7. <<scope, ids>> \notin DOMAIN live => MarkedBy(Len(trace), scope, ids) = {}
      BY MarkedIsLive
    <3>8. LiveEntry(scope, ids)'
      BY <3>4, <3>5, <3>6, <3>7, EntryRefreshed
    <3> QED
      BY <3>3, <3>8
  <2>3. CASE key \notin touched
    <3>1. key \in DOMAIN live /\ live'[key] = live[key]
      <4> HIDE DEF touched, marked
      <4> QED BY <1>2, <2>1, <2>3
    <3>2. key = <<key[1], key[2]>> /\ LiveEntry(key[1], key[2])
      BY <3>1 DEF LiveInv
    <3>3. ~ (r.shape.scope = key[1] /\ Marks(r.shape, key[2]))
      BY <1>3, <2>3, <3>2
    <3> QED
      BY <3>1, <3>2, <3>3, Appending, EntryStays
  <2> QED
    BY <2>2, <2>3
<1>5. ASSUME NEW i \in DOMAIN trace', NEW p \in ToSet(Entries[arm'][trace'[i].shape]), Caches(trace[i].shape)'
      PROVE  <<trace'[i].shape.scope, p.ids>> \in DOMAIN live'
  <2>1. i \in 1 .. Len(trace) + 1
    BY Appending, PastStays
  <2>2. Caches(trace'[i].shape) /\ arm' = arm
    BY <1>5, Zenon DEF Caches, Appends
  <2>3. CASE i = Len(trace) + 1
    <3>1. trace'[i] = r
      BY <2>3, Appending, PastStays
    <3>2. <<trace'[i].shape.scope, p.ids>> \in touched
      BY <2>2, <3>1
    <3> HIDE DEF touched
    <3> QED
      BY <1>2, <3>2
  <2>4. CASE i # Len(trace) + 1
    <3>1. i \in DOMAIN trace /\ trace'[i] = trace[i]
      BY <2>1, <2>4, Appending, PastStays DEF InStep
    <3>2. <<trace'[i].shape.scope, p.ids>> \in DOMAIN live
      BY <2>2, <3>1 DEF LiveInv
    <3> HIDE DEF touched
    <3> QED
      BY <1>2, <3>2
  <2> QED
    BY <2>3, <2>4
<1> QED
  BY <1>4, <1>5, Zenon DEF LiveInv

-----------------------------------------------------------------------------
(* What is billed.                                                               *)

\* What the n-th billed request read was kept for it.
HitAt(n) ==
  usages[n].read > 0 =>
    \A ids : ids = ReadPrefix(n) => \E i \in 1 .. priced[n] - 1 : Kept(i, n, ids)

\* Nothing that the n-th billed request could read was missed.
WarmAt(n) ==
  Caches(Billed(n).shape) =>
    \A m \in DOMAIN WireIds[arm][Billed(n).shape] :
      LET ids == Prefix(WireIds[arm][Billed(n).shape], m)
      IN /\ Reachable(Billed(n).shape, m)
         /\ \E i \in 1 .. priced[n] - 1 :
              /\ Kept(i, n, ids)
              /\ AfterResponse(i, Marking(n, ids))
         => \/ usages[n].read >= Tokens(ids)
            \/ arm.missInN > 0 /\ (priced[n] - 1) % arm.missInN = arm.missInN - 1

LEMMA HitsOneByOne ==
  /\ HitsWereWritten <=> \A n \in DOMAIN usages : HitAt(n)
  /\ WarmPrefixesAreRead <=> \A n \in DOMAIN usages : WarmAt(n)
<1>1. HitsWereWritten <=> \A n \in DOMAIN usages : HitAt(n)
  BY DEF HitsWereWritten, HitAt, Hits
<1>2. WarmPrefixesAreRead <=> \A n \in DOMAIN usages : WarmAt(n)
  BY DEF WarmPrefixesAreRead, WarmAt, AfterResponse
<1> QED
  BY <1>1, <1>2

\* Kept, by what is known of entries.
LEMMA KeptIsUnbroken ==
  ASSUME NEW i, NEW n, NEW ids, NEW M, M = MarkedBy(priced[n] - 1, Billed(n).shape.scope, ids),
         InStep, n \in DOMAIN priced
  PROVE  Kept(i, n, ids) <=> /\ i \in M
                             /\ VisibleAt(trace[i]) <= Billed(n).sent
                             /\ Unbroken(i, M, ids)
                             /\ Billed(n).sent < EndAfter(Max(M), ids)
<1>1. Marking(n, ids) = M
  BY MarkingIsMarkedBy
<1>2. priced[n] \in 1 .. Len(trace) /\ Len(trace) \in Nat
  BY DEF InStep
<1>3. M \subseteq 1 .. priced[n] - 1
  BY DEF MarkedBy
<1>4. Before(M, priced[n]) = M /\ priced[n] \notin M
  BY <1>2, <1>3 DEF Before
<1>5. Kept(i, n, ids)
        <=> /\ i \in M
            /\ VisibleAt(trace[i]) <= Billed(n).sent
            /\ \A t \in {j \in M : j > i} \cup {priced[n]} :
                 trace[t].sent < EndAfter(Max(Before(M, t)), ids)
  BY <1>1, Zenon DEF Kept, Before
<1>6. Unbroken(i, M, ids)
        <=> \A t \in {j \in M : j > i} : trace[t].sent < EndAfter(Max(Before(M, t)), ids)
  BY Zenon DEF Unbroken
<1> QED
  BY <1>4, <1>5, <1>6, Zenon DEF Billed

\* What was billed before stays as it was.
LEMMA BilledStays ==
  ASSUME InStep, KeepsPast, NEW n \in DOMAIN priced,
         priced'[n] = priced[n], usages'[n] = usages[n]
  PROVE  /\ HitAt(n) => HitAt(n)'
         /\ WarmAt(n) => WarmAt(n)'
<1>1. priced[n] \in 1 .. Len(trace) /\ priced[n] - 1 \in 0 .. Len(trace) /\ Len(trace) \in Nat
  BY DEF InStep
<1>0. \A i \in 1 .. Len(trace) : trace'[i] = trace[i]
  BY PastStays
<1>2. Billed(n)' = Billed(n)
  BY <1>0, <1>1 DEF Billed
<1>3. ASSUME NEW ids
      PROVE  /\ Marking(n, ids)' = Marking(n, ids)
             /\ Marking(n, ids) \in SUBSET (1 .. Len(trace))
             /\ \A i \in 1 .. priced[n] - 1 : Kept(i, n, ids)' <=> Kept(i, n, ids)
  <2>1. PICK k, M : k = priced[n] - 1 /\ M = MarkedBy(k, Billed(n).shape.scope, ids)
    OBVIOUS
  <2>2. M \in SUBSET (1 .. Len(trace)) /\ M \subseteq 1 .. priced[n] - 1
    BY <1>1, <2>1 DEF MarkedBy
  <2>3. M = Marking(n, ids)
    BY <2>1, MarkingIsMarkedBy
  <2>4. Marking(n, ids)' = M
    <3>1. Marking(n, ids)' = {i \in 1 .. priced'[n] - 1 :
                                /\ trace'[i].shape.scope = Billed(n)'.shape.scope
                                /\ Marks(trace[i].shape, ids)'}
      BY Zenon DEF Marking, Marks
    <3>2. \A i \in 1 .. priced[n] - 1 : trace'[i] = trace[i]
      BY <1>0, <1>1
    <3>3. \A i \in 1 .. priced[n] - 1 : Marks(trace[i].shape, ids)' = Marks(trace[i].shape, ids)
      BY <3>2, Zenon DEF Marks, Caches, KeepsPast
    <3>4. Marking(n, ids) = {i \in 1 .. priced[n] - 1 :
                               /\ trace[i].shape.scope = Billed(n).shape.scope
                               /\ Marks(trace[i].shape, ids)}
      BY Zenon DEF Marking, Marks
    <3> QED
      BY <1>2, <2>3, <3>1, <3>2, <3>3, <3>4
  <2>5. ASSUME NEW i \in 1 .. priced[n] - 1 PROVE Kept(i, n, ids)' <=> Kept(i, n, ids)
    <3> DEFINE Late == {j \in M : j > i} \cup {priced[n]}
    <3>1. Kept(i, n, ids) <=> /\ i \in M
                              /\ VisibleAt(trace[i]) <= Billed(n).sent
                              /\ \A t \in Late : trace[t].sent < EndAfter(Max(Before(M, t)), ids)
      BY <2>3, Zenon DEF Kept, Before
    <3>2. Kept(i, n, ids)' <=> /\ i \in M
                               /\ VisibleAt(trace[i])' <= Billed(n)'.sent
                               /\ \A t \in Late : trace'[t].sent < EndAfter(Max(Before(M, t)), ids)'
      BY <2>4, Zenon DEF Kept, Before
    <3>3. trace'[i] = trace[i]
      BY <1>0, <1>1
    <3>4. VisibleAt(trace[i])' = VisibleAt(trace[i])
      BY <3>3, Zenon DEF VisibleAt, KeepsPast
    <3>5. ASSUME NEW t \in Late, i \in M
          PROVE  /\ trace'[t].sent = trace[t].sent
                 /\ EndAfter(Max(Before(M, t)), ids)' = EndAfter(Max(Before(M, t)), ids)
      <4>1. t \in 1 .. Len(trace) /\ i < t
        BY <1>1, <2>2, <3>5
      <4>2. Before(M, t) \in SUBSET (0 .. Len(trace)) /\ i \in Before(M, t)
        <5>1. \A j \in M : j \in 0 .. Len(trace)
          BY <1>1, <2>2
        <5>2. \A j \in Before(M, t) : j \in M
          BY DEF Before
        <5>3. i \in Before(M, t)
          BY <3>5, <4>1 DEF Before
        <5> QED
          BY <5>1, <5>2, <5>3
      <4>3. PICK last : last = Max(Before(M, t))
        OBVIOUS
      <4>4. last \in 1 .. Len(trace)
        <5>1. last \in Before(M, t)
          BY <1>1, <4>2, <4>3, MaxOfBounded
        <5> QED
          BY <2>2, <5>1 DEF Before
      <4>5. EndAfter(last, ids)' = EndAfter(last, ids)
        BY <4>4, PastStays
      <4>6. EndAfter(Max(Before(M, t)), ids)' = EndAfter(last, ids)'
        BY <4>3, Zenon DEF Before, EndAfter
      <4> QED
        BY <4>1, <4>3, <4>5, <4>6, PastStays
    <3> HIDE DEF Late
    <3> QED
      BY <1>2, <3>1, <3>2, <3>4, <3>5
  <2> QED
    BY <2>2, <2>3, <2>4, <2>5
<1>4. HitAt(n) => HitAt(n)'
  <2>1. ReadPrefix(n)' = ReadPrefix(n)
    BY <1>2, Zenon DEF ReadPrefix, KeepsPast
  <2> SUFFICES ASSUME HitAt(n), usages[n].read > 0, NEW ids, ids = ReadPrefix(n)'
               PROVE  \E i \in 1 .. priced[n] - 1 : Kept(i, n, ids)'
    BY Zenon DEF HitAt
  <2>2. \E i \in 1 .. priced[n] - 1 : Kept(i, n, ids)
    BY <2>1, Zenon DEF HitAt
  <2> QED
    BY <2>2, <1>3
<1>5. WarmAt(n) => WarmAt(n)'
  <2> SUFFICES ASSUME WarmAt(n), Caches(Billed(n).shape)',
                      NEW m \in DOMAIN WireIds[arm][Billed(n).shape],
                      NEW ids, ids = Prefix(WireIds[arm][Billed(n).shape], m),
                      Reachable(Billed(n).shape, m)',
                      NEW i \in 1 .. priced[n] - 1, Kept(i, n, ids)', AfterResponse(i, Marking(n, ids))'
               PROVE  \/ usages[n].read >= Tokens(ids)
                      \/ arm.missInN > 0 /\ (priced[n] - 1) % arm.missInN = arm.missInN - 1
    BY <1>2, Zenon DEF WarmAt, KeepsPast
  <2>1. Caches(Billed(n).shape) /\ Reachable(Billed(n).shape, m)
    BY <1>2, Zenon DEF Caches, Reachable, KeepsPast
  <2>2. Kept(i, n, ids)
    BY <1>3
  <2>3. i \in Marking(n, ids)
    BY <2>2 DEF Kept
  <2>4. AfterResponse(i, Marking(n, ids))
    <3>1. PICK M : M = Marking(n, ids)
      OBVIOUS
    <3>2. M \in SUBSET (1 .. Len(trace)) /\ i \in M
      BY <1>3, <2>3, <3>1
    <3>3. Marking(n, ids)' = M
      BY <1>3, <3>1
    <3>4. AfterResponse(i, M)'
      BY <3>3, Zenon DEF AfterResponse
    <3>5. AfterResponse(i, M)
      BY <3>2, <3>4, ChainStays
    <3> QED
      BY <3>1, <3>5
  <2> QED
    BY <2>1, <2>2, <2>4, Zenon DEF WarmAt
<1> QED
  BY <1>4, <1>5

LEMMA HitIsReadable ==
  ASSUME arm \in Arms, NEW r \in Row, NEW ids, ids = WireIds[arm][r.shape]
  PROVE  /\ ids \in Seq(Segments) /\ Hit(r) \in 0 .. Len(ids)
         /\ Hit(r) # 0 => /\ Readable(<<r.shape.scope, Prefix(ids, Hit(r))>>, r.sent)
                          /\ Reachable(r.shape, Hit(r))
         /\ ~ RoutedAway =>
              \A n \in DOMAIN ids :
                Readable(<<r.shape.scope, Prefix(ids, n)>>, r.sent) /\ Reachable(r.shape, n)
                  => n <= Hit(r)
<1> DEFINE Found == {n \in DOMAIN ids : /\ Readable(<<r.shape.scope, Prefix(ids, n)>>, r.sent)
                                        /\ Reachable(r.shape, n)}
           All == {0} \cup Found
<1>1. ids \in Seq(Segments) /\ Len(ids) \in Nat /\ DOMAIN ids = 1 .. Len(ids)
  <2>1. ids \in Seq(Segments)
    BY WireIsOfSegments DEF Row
  <2> QED
    BY <2>1
<1>2. Hit(r) = IF RoutedAway THEN 0 ELSE Max(All)
  BY Zenon DEF Hit
<1>3. All \in SUBSET (0 .. Len(ids)) /\ All # {}
  BY <1>1
<1>4. Max(All) \in All /\ \A y \in All : y <= Max(All)
  <2> HIDE DEF All
  <2> QED BY <1>1, <1>3, MaxOfBounded
<1> QED
  <2>1. CASE RoutedAway
    BY <2>1, <1>1, <1>2
  <2>2. CASE ~ RoutedAway
    <3>1. Hit(r) \in All /\ \A y \in All : y <= Hit(r)
      BY <2>2, <1>2, <1>4
    <3> QED
      BY <2>2, <3>1, <1>1, <1>3
  <2> QED
    BY <2>1, <2>2

\* For the request that is billed now, all that had marked a prefix counts.
LEMMA KeptForNow ==
  ASSUME InStep, NEW r \in Row, Appends(r), NEW n, priced'[n] = Len(trace) + 1,
         NEW ids, NEW M, M = MarkedBy(Len(trace), r.shape.scope, ids)
  PROVE  /\ Billed(n)' = r
         /\ Marking(n, ids)' = M
         /\ M \in SUBSET (1 .. Len(trace))
         /\ \A i : Kept(i, n, ids)'
                    <=> /\ i \in M
                        /\ VisibleAt(trace[i]) <= r.sent
                        /\ Unbroken(i, M, ids)
                        /\ r.sent < EndAfter(Max(M), ids)
<1>1. /\ \A i \in 1 .. Len(trace) : trace'[i] = trace[i]
      /\ Len(trace) \in Nat /\ trace'[Len(trace) + 1] = r
  BY Appending, PastStays DEF InStep
<1>2. Billed(n)' = r
  BY <1>1 DEF Billed
<1>3. M \in SUBSET (1 .. Len(trace))
  BY DEF MarkedBy
<1>4. Marking(n, ids)' = M
  <2>1. Marking(n, ids)' = {i \in 1 .. priced'[n] - 1 :
                              /\ trace'[i].shape.scope = Billed(n)'.shape.scope
                              /\ Marks(trace[i].shape, ids)'}
    BY Zenon DEF Marking, Marks
  <2>2. priced'[n] - 1 = Len(trace)
    BY <1>1
  <2>3. \A i \in 1 .. Len(trace) : Marks(trace[i].shape, ids)' <=> Marks(trace[i].shape, ids)
    BY <1>1, Zenon DEF Marks, Caches, Appends
  <2> QED
    BY <1>1, <1>2, <2>1, <2>2, <2>3 DEF MarkedBy
<1>5. ASSUME NEW i
      PROVE  Kept(i, n, ids)' <=> /\ i \in M
                                  /\ VisibleAt(trace[i]) <= r.sent
                                  /\ Unbroken(i, M, ids)
                                  /\ r.sent < EndAfter(Max(M), ids)
  <2> DEFINE Late == {j \in M : j > i}
             Alive(t) == trace'[t].sent < EndAfter(Max(Before(M, t)), ids)'
  <2>1. Kept(i, n, ids)' <=> /\ i \in M
                             /\ VisibleAt(trace[i])' <= Billed(n)'.sent
                             /\ \A t \in Late \cup {priced'[n]} : Alive(t)
    BY <1>4, Zenon DEF Kept, Before
  <2>2. CASE i \in M
    <3>1. VisibleAt(trace[i])' = VisibleAt(trace[i])
      <4>1. trace'[i] = trace[i]
        BY <1>1, <1>3, <2>2
      <4> QED
        BY <4>1, Zenon DEF VisibleAt, Appends
    <3>2. Unbroken(i, M, ids)' <=> \A t \in Late : Alive(t)
      BY Zenon DEF Unbroken, Before
    <3>3. Unbroken(i, M, ids)' = Unbroken(i, M, ids)
      BY <1>3, <2>2, Appending, ChainStays
    <3>4. \A now : now = priced'[n] => (Alive(now) <=> r.sent < EndAfter(Max(M), ids))
      <4>0. SUFFICES ASSUME NEW now, now = priced'[n]
                     PROVE  Alive(now) <=> r.sent < EndAfter(Max(M), ids)
        OBVIOUS
      <4>1. PICK last : now = Len(trace) + 1 /\ last = Max(M)
        BY <1>1, <4>0
      <4>2. Before(M, now) = M
        BY <1>1, <1>3, <4>1 DEF Before
      <4>3. last \in 1 .. Len(trace)
        BY <1>3, <2>2, <4>1, LastMarking
      <4>4. EndAfter(last, ids)' = EndAfter(last, ids)
        BY <4>3, Appending, PastStays
      <4>5. Alive(now) <=> r.sent < EndAfter(last, ids)'
        BY <1>1, <4>1, <4>2
      <4> HIDE DEF Alive
      <4> QED
        BY <4>1, <4>4, <4>5
    <3> HIDE DEF Late, Alive
    <3>5. (\A t \in Late \cup {priced'[n]} : Alive(t))
            <=> (\A t \in Late : Alive(t)) /\ r.sent < EndAfter(Max(M), ids)
      BY <3>4
    <3> QED
      BY <1>2, <2>1, <2>2, <3>1, <3>2, <3>3, <3>5
  <2>3. CASE i \notin M
    BY <2>1, <2>3
  <2> QED
    BY <2>2, <2>3
<1> QED
  BY <1>2, <1>3, <1>4, <1>5

LEMMA ServedRight ==
  ASSUME Inv, NEW r \in Row, Appends(r), NEW n, priced'[n] = Len(trace) + 1,
         Caches(r.shape), usages'[n] = Usage(r)
  PROVE  HitAt(n)' /\ WarmAt(n)'
<1>1. PICK wire : wire = WireIds[arm][r.shape]
  OBVIOUS
<1>2. /\ wire \in Seq(Segments) /\ Hit(r) \in 0 .. Len(wire) /\ Len(wire) \in Nat
      /\ DOMAIN wire = 1 .. Len(wire)
      /\ Hit(r) # 0 => Readable(<<r.shape.scope, Prefix(wire, Hit(r))>>, r.sent)
      /\ ~ RoutedAway =>
           \A m \in DOMAIN wire :
             Readable(<<r.shape.scope, Prefix(wire, m)>>, r.sent) /\ Reachable(r.shape, m)
               => m <= Hit(r)
  BY <1>1, HitIsReadable DEF Inv, InStep
<1>3. usages'[n].read = Tokens(Prefix(wire, Hit(r)))
  BY <1>1 DEF Usage
<1>4. Billed(n)' = r
  BY KeptForNow DEF Inv
<1>5. HitAt(n)'
  <2> SUFFICES ASSUME usages'[n].read > 0, NEW ids, ids = ReadPrefix(n)'
               PROVE  \E i \in 1 .. priced'[n] - 1 : Kept(i, n, ids)'
    BY Zenon DEF HitAt
  <2>1. Hit(r) # 0
    <3> SUFFICES ASSUME Hit(r) = 0 PROVE FALSE
      OBVIOUS
    <3>1. Prefix(wire, 0) = <<>>
      BY <1>2 DEF Prefix
    <3> QED
      BY <1>3, <3>1, TokensOfNone
  <2>2. ids = Prefix(wire, Hit(r))
    <3>1. ReadPrefix(n)' = Prefix(wire, CHOOSE m \in DOMAIN wire :
                                          Tokens(Prefix(wire, m)) = usages'[n].read)
      BY <1>1, <1>4, Zenon DEF ReadPrefix, Appends
    <3>2. Hit(r) \in 1 .. Len(wire)
      BY <1>2, <2>1
    <3> QED
      BY <1>2, <1>3, <3>1, <3>2, PrefixIsTold
  <2>3. Readable(<<r.shape.scope, ids>>, r.sent)
    BY <1>2, <2>1, <2>2
  <2>4. LiveEntry(r.shape.scope, ids)
    <3>1. <<r.shape.scope, ids>> \in DOMAIN live
      BY <2>3 DEF Readable
    <3>2. LiveEntry(<<r.shape.scope, ids>>[1], <<r.shape.scope, ids>>[2])
      BY <3>1 DEF Inv, LiveInv
    <3> QED
      BY <3>2
  <2>5. PICK M : M = MarkedBy(Len(trace), r.shape.scope, ids)
    OBVIOUS
  <2>6. PICK i \in M : /\ VisibleAt(trace[i]) <= r.sent
                       /\ Unbroken(i, M, ids)
                       /\ r.sent < EndAfter(Max(M), ids)
    BY <2>3, <2>4, <2>5 DEF LiveEntry, Readable
  <2>7. M \in SUBSET (1 .. Len(trace))
    BY <2>5 DEF MarkedBy
  <2>8. Kept(i, n, ids)'
    <3>1. InStep
      BY DEF Inv
    <3>2. \A k : Kept(k, n, ids)'
                   <=> /\ k \in M
                       /\ VisibleAt(trace[k]) <= r.sent
                       /\ Unbroken(k, M, ids)
                       /\ r.sent < EndAfter(Max(M), ids)
      BY <2>5, <3>1, KeptForNow
    <3> QED
      BY <2>6, <3>2
  <2>9. i \in 1 .. priced'[n] - 1
    <3>1. Len(trace) \in Nat
      BY DEF Inv, InStep
    <3> QED
      BY <2>7, <3>1
  <2> QED
    BY <2>8, <2>9
<1>6. WarmAt(n)'
  <2> SUFFICES ASSUME NEW m \in DOMAIN wire, NEW ids, ids = Prefix(wire, m),
                      Reachable(Billed(n).shape, m)',
                      NEW i, Kept(i, n, ids)', AfterResponse(i, Marking(n, ids))'
               PROVE  \/ usages'[n].read >= Tokens(ids)
                      \/ arm.missInN > 0 /\ (priced'[n] - 1) % arm.missInN = arm.missInN - 1
    BY <1>1, <1>4, Zenon DEF WarmAt, Appends
  <2>1. Reachable(r.shape, m)
    BY <1>4, Zenon DEF Reachable, Appends
  <2>2. PICK M : M = MarkedBy(Len(trace), r.shape.scope, ids)
    OBVIOUS
  <2>3. /\ i \in M /\ VisibleAt(trace[i]) <= r.sent /\ Unbroken(i, M, ids)
        /\ r.sent < EndAfter(Max(M), ids)
        /\ M \in SUBSET (1 .. Len(trace)) /\ Marking(n, ids)' = M
    BY <2>2, KeptForNow DEF Inv
  <2>4. AfterResponse(i, M)
    <3>1. AfterResponse(i, M)'
      BY <2>3, Zenon DEF AfterResponse
    <3> QED
      BY <2>3, <3>1, Appending, ChainStays DEF Inv
  <2>5. Readable(<<r.shape.scope, ids>>, r.sent)
    <3> DEFINE entry == live[<<r.shape.scope, ids>>]
    <3>1. <<r.shape.scope, ids>> \in DOMAIN live /\ LiveEntry(r.shape.scope, ids)
      BY <2>2, <2>3, MarkedIsLive DEF Inv
    <3>2. /\ entry.until = EndAfter(Max(M), ids)
          /\ \E k \in M : entry.from = VisibleAt(trace[k])
          /\ entry.from <= VisibleAt(trace[i])
      BY <2>2, <2>3, <2>4, <3>1 DEF LiveEntry
    <3>3. \A k \in M : VisibleAt(trace[k]) \in Nat
      <4>1. \A k \in M : trace[k] \in Row
        BY <2>3 DEF Inv, InStep
      <4> QED
        BY <4>1, VisibleIsLater DEF Inv, InStep
    <3>4. r.sent \in Nat
      BY DEF Row
    <3>5. entry.from <= r.sent
      BY <2>3, <3>2, <3>3, <3>4
    <3> QED
      BY <2>3, <3>1, <3>2, <3>5 DEF Readable
  <2>6. CASE RoutedAway
    <3>1. priced'[n] - 1 = Len(trace)
      BY DEF Inv, InStep
    <3> QED
      BY <2>6, <3>1 DEF RoutedAway
  <2>7. CASE ~ RoutedAway
    <3>1. m <= Hit(r) /\ m \in 1 .. Len(wire)
      BY <1>2, <2>1, <2>5, <2>7
    <3>2. PICK hit : hit = Hit(r)
      OBVIOUS
    <3>3. /\ Tokens(Prefix(wire, m)) \in Nat /\ Tokens(Prefix(wire, hit)) \in Nat
          /\ m < hit => Tokens(Prefix(wire, m)) < Tokens(Prefix(wire, hit))
      BY <1>2, <3>1, <3>2, LongerIsMore
    <3>4. Tokens(Prefix(wire, m)) <= Tokens(Prefix(wire, hit))
      BY <1>2, <3>1, <3>2, <3>3
    <3> QED
      BY <1>3, <3>2, <3>3, <3>4
  <2> QED
    BY <2>6, <2>7
<1> QED
  BY <1>5, <1>6

-----------------------------------------------------------------------------
(* The steps.                                                                    *)

\* A request leaves what was billed alone, or is billed itself.
Bills(r) ==
  \/ UNCHANGED <<usages, priced>>
  \/ \E u : Bill(u) /\ IF Caches(r.shape) THEN u = Usage(r) ELSE u.read = 0 /\ u.write5m = 0

LEMMA AppendedSequence ==
  ASSUME NEW s, s \in Seq(Range(s)), NEW x
  PROVE  /\ Append(s, x) \in Seq(Range(Append(s, x)))
         /\ Len(Append(s, x)) = Len(s) + 1 /\ Append(s, x)[Len(s) + 1] = x
         /\ \A n \in 1 .. Len(s) : Append(s, x)[n] = s[n]
         /\ Len(s) \in Nat
<1>1. s \in Seq(Range(s) \cup {x}) /\ Len(s) \in Nat
  <2>1. Range(s) \subseteq Range(s) \cup {x}
    OBVIOUS
  <2> HIDE DEF Range
  <2> QED BY <2>1
<1>2. PICK more : more = Append(s, x)
  OBVIOUS
<1>3. /\ more \in Seq(Range(s) \cup {x}) /\ Len(more) = Len(s) + 1 /\ more[Len(s) + 1] = x
      /\ \A n \in 1 .. Len(s) : more[n] = s[n]
  BY <1>1, <1>2
<1>4. more \in Seq(Range(more))
  <2>1. \A n \in 1 .. Len(more) : more[n] \in Range(more)
    BY <1>3 DEF Range
  <2>2. more = [n \in 1 .. Len(more) |-> more[n]] /\ Len(more) \in Nat
    BY <1>3
  <2> QED
    BY <2>1, <2>2
<1> QED
  BY <1>1, <1>2, <1>3, <1>4

LEMMA InStepStays ==
  ASSUME InStep, NEW r \in Row, Appends(r), Bills(r)
  PROVE  InStep'
<1>1. /\ arm' \in Arms /\ trace' \in Seq(Row) /\ Len(trace') = Len(trace) + 1
      /\ Len(trace) \in Nat
  BY Appending, PastStays DEF InStep, Appends
<1>2. CASE UNCHANGED <<usages, priced>>
  BY <1>1, <1>2 DEF InStep
<1>3. ASSUME NEW u, Bill(u) PROVE InStep'
  <2>1. usages' = Append(usages, u) /\ priced' = Append(priced, Len(trace) + 1)
    BY <1>3 DEF Bill
  <2>2. usages' \in Seq(Range(usages')) /\ Len(usages') = Len(usages) + 1
    BY <2>1, AppendedSequence DEF InStep
  <2>3. priced' \in Seq(Nat) /\ Len(priced') = Len(priced) + 1
    BY <1>1, <2>1 DEF InStep
  <2>4. \A n \in DOMAIN priced' : priced'[n] \in 1 .. Len(trace')
    BY <1>1, <2>1 DEF InStep
  <2>5. Len(usages') = Len(priced')
    BY <2>2, <2>3 DEF InStep
  <2> QED
    BY <1>1, <2>2, <2>3, <2>4, <2>5, Zenon DEF InStep
<1> QED
  BY <1>2, <1>3 DEF Bills

LEMMA BilledRight ==
  ASSUME Inv, NEW r \in Row, Appends(r), Bills(r)
  PROVE  HitsWereWritten' /\ WarmPrefixesAreRead'
<1>1. \A n \in DOMAIN usages : HitAt(n) /\ WarmAt(n)
  BY HitsOneByOne DEF Inv
<1>2. /\ DOMAIN usages = 1 .. Len(usages) /\ DOMAIN priced = 1 .. Len(usages)
      /\ Len(usages) \in Nat /\ Len(trace) \in Nat
  BY DEF Inv, InStep
<1>3. ASSUME NEW n \in DOMAIN usages' PROVE HitAt(n)' /\ WarmAt(n)'
  <2>1. CASE UNCHANGED <<usages, priced>>
    <3>1. n \in DOMAIN usages /\ n \in DOMAIN priced /\ priced'[n] = priced[n] /\ usages'[n] = usages[n]
      BY <1>2, <1>3, <2>1
    <3> QED
      BY <1>1, <3>1, Appending, BilledStays DEF Inv
  <2>2. ASSUME NEW u, Bill(u), IF Caches(r.shape) THEN u = Usage(r) ELSE u.read = 0 /\ u.write5m = 0
        PROVE  HitAt(n)' /\ WarmAt(n)'
    <3>1. usages' = Append(usages, u) /\ priced' = Append(priced, Len(trace) + 1)
      BY <2>2 DEF Bill
    <3>2. /\ usages' \in Seq(Range(usages')) /\ Len(usages') = Len(usages) + 1
          /\ usages'[Len(usages) + 1] = u
          /\ \A k \in 1 .. Len(usages) : usages'[k] = usages[k]
      BY <3>1, AppendedSequence DEF Inv, InStep
    <3>3. /\ priced'[Len(usages) + 1] = Len(trace) + 1
          /\ \A k \in 1 .. Len(usages) : priced'[k] = priced[k]
      BY <3>1 DEF Inv, InStep
    <3>4. n \in 1 .. Len(usages) + 1
      <4>1. DOMAIN usages' = 1 .. Len(usages')
        BY <3>2
      <4> QED
        BY <1>3, <3>2, <4>1
    <3>5. CASE n \in 1 .. Len(usages)
      BY <1>1, <1>2, <3>2, <3>3, <3>5, Appending, BilledStays DEF Inv
    <3>6. CASE n = Len(usages) + 1 /\ Caches(r.shape)
      <4>1. priced'[n] = Len(trace) + 1 /\ usages'[n] = Usage(r)
        BY <2>2, <3>2, <3>3, <3>6
      <4> QED
        BY <3>6, <4>1, ServedRight
    <3>7. CASE n = Len(usages) + 1 /\ ~ Caches(r.shape)
      <4>1. priced'[n] = Len(trace) + 1 /\ usages'[n].read = 0
        BY <2>2, <3>2, <3>3, <3>7
      <4>2. Billed(n)' = r
        BY <4>1, KeptForNow DEF Inv
      <4>3. HitAt(n)'
        BY <4>1 DEF HitAt
      <4>4. ~ Caches(Billed(n).shape)'
        BY <3>7, <4>2, Zenon DEF Caches, Appends
      <4> QED
        BY <4>3, <4>4, Zenon DEF WarmAt
    <3> QED
      BY <1>2, <3>4, <3>5, <3>6, <3>7
  <2> QED
    BY <2>1, <2>2 DEF Bills
<1>4. HitsWereWritten'
  BY <1>3 DEF HitsWereWritten, HitAt, Hits
<1>5. WarmPrefixesAreRead'
  BY <1>3 DEF WarmPrefixesAreRead, WarmAt, AfterResponse
<1> QED
  BY <1>4, <1>5

LEMMA SentIsRow ==
  ASSUME InStep, NEW shape \in Shapes, NEW gap \in Gaps
  PROVE  Sent(shape, gap) \in Row
<1>1. gap \in Nat
  BY ReplayAssumption
<1>2. CASE trace = <<>>
  BY <1>1, <1>2 DEF Sent, Row
<1>3. CASE trace # <<>>
  <2>1. Last(trace).sent \in Nat
    <3>1. Len(trace) \in 1 .. Len(trace)
      BY <1>3 DEF InStep
    <3>2. trace[Len(trace)] \in Row
      BY <3>1 DEF InStep
    <3> QED
      BY <3>2 DEF Last, Row
  <2> QED
    BY <1>1, <1>3, <2>1 DEF Sent, Row
<1> QED
  BY <1>2, <1>3

\* What the replay cannot follow, or finds no entry in, caches nothing.
LEMMA OnlyServedCaches ==
  ASSUME arm \in Arms, NEW s \in Shapes, Caches(s)
  PROVE  /\ s.segs # <<>> /\ s.scope \notin PolicyFails /\ Minimum[s.scope] # Unknown
         /\ LifetimesModelled(arm, s) /\ Entries[arm][s] # <<>>
<1>1. s \in Modelled[arm] /\ Entries[arm][s] # <<>>
  BY Zenon DEF Caches
<1>2. Modelled[arm] = {t \in Shapes : /\ t.segs # <<>>
                                      /\ t.scope \notin PolicyFails
                                      /\ Minimum[t.scope] # Unknown
                                      /\ LifetimesModelled(arm, t)}
  BY Zenon DEF Modelled
<1> QED
  BY <1>1, <1>2, Zenon

LEMMA ReplayedBills ==
  ASSUME InStep, NEW r \in Row, Replayed(r)
  PROVE  Bills(r) /\ (Serve(r) \/ (~ Caches(r.shape) /\ live' = live))
<1>1. arm \in Arms /\ r.shape \in Shapes
  BY DEF InStep, Row
<1>2. Uncached(r.shape).read = 0 /\ Uncached(r.shape).write5m = 0
  BY DEF Uncached
<1>3. CASE SkipUnstructured(r.shape)
  BY <1>1, <1>3, OnlyServedCaches DEF SkipUnstructured, Bills
<1>4. CASE PolicyRaises(r.shape)
  BY <1>1, <1>2, <1>4, OnlyServedCaches DEF PolicyRaises, Bills
<1>5. CASE NoMinimum(r.shape)
  BY <1>1, <1>2, <1>5, OnlyServedCaches DEF NoMinimum, Bills
<1>6. CASE UnmodelledLifetime(r.shape)
  BY <1>1, <1>2, <1>6, OnlyServedCaches DEF UnmodelledLifetime, Bills
<1>7. CASE NothingMarked(r.shape)
  BY <1>1, <1>2, <1>7, OnlyServedCaches DEF NothingMarked, Bills
<1>8. CASE Serve(r)
  BY <1>8 DEF Serve, Bills
<1> QED
  BY <1>3, <1>4, <1>5, <1>6, <1>7, <1>8 DEF Replayed

LEMMA ReplayKeepsInv ==
  ASSUME Inv, NEW r \in Row, Appends(r), Replayed(r)
  PROVE  Inv'
<1>1. InStep /\ LiveInv /\ Bills(r) /\ (Serve(r) \/ (~ Caches(r.shape) /\ live' = live))
  BY ReplayedBills DEF Inv
<1>2. InStep'
  BY <1>1, InStepStays
<1>3. LiveInv'
  BY <1>1, ServeKeepsLive, QuietKeepsLive
<1>4. HitsWereWritten' /\ WarmPrefixesAreRead'
  BY <1>1, BilledRight
<1> QED
  BY <1>2, <1>3, <1>4 DEF Inv

LEMMA ReplayStarts == Init => Inv
<1> SUFFICES ASSUME Init PROVE Inv
  OBVIOUS
<1>1. arm \in Arms /\ trace = <<>> /\ live = <<>> /\ usages = <<>> /\ priced = <<>>
  BY DEF Init
<1>2. InStep
  <2>1. <<>> \in Seq(Range(<<>>)) /\ <<>> \in Seq(Row) /\ <<>> \in Seq(Nat)
    OBVIOUS
  <2> QED
    BY <1>1, <2>1 DEF InStep
<1>3. LiveInv
  BY <1>1 DEF LiveInv
<1>4. DOMAIN usages = {}
  BY <1>1
<1>5. HitsWereWritten /\ WarmPrefixesAreRead
  BY <1>4, HitsOneByOne
<1> QED
  BY <1>2, <1>3, <1>5 DEF Inv

LEMMA ReplaySteps == Inv /\ [Next]_vars => Inv'
<1> SUFFICES ASSUME Inv, [Next]_vars PROVE Inv'
  OBVIOUS
<1>1. CASE Next
  <2>1. PICK shape \in Shapes, gap \in Gaps :
          Replayed(Sent(shape, gap)) /\ trace' = Append(trace, Sent(shape, gap))
    BY <1>1 DEF Next
  <2>2. arm' = arm
    BY <1>1 DEF Next
  <2>3. Sent(shape, gap) \in Row
    BY SentIsRow DEF Inv
  <2> QED
    BY <2>1, <2>2, <2>3, ReplayKeepsInv DEF Appends
<1>2. CASE UNCHANGED vars
  <2>1. /\ arm' = arm /\ trace' = trace /\ live' = live
        /\ usages' = usages /\ priced' = priced
    BY <1>2 DEF vars
  <2>2. InStep'
    BY <2>1 DEF Inv, InStep
  <2>3. KeepsPast /\ Len(trace) \in Nat
    BY <2>1 DEF KeepsPast, Inv, InStep
  <2>4. LiveInv'
    <3>1. ASSUME NEW key \in DOMAIN live'
          PROVE  key = <<key[1], key[2]>> /\ LiveEntry(key[1], key[2])'
      <4>1. key = <<key[1], key[2]>> /\ LiveEntry(key[1], key[2])
        BY <2>1, <3>1 DEF Inv, LiveInv
      <4>2. MarkedBy(Len(trace), key[1], key[2])' = MarkedBy(Len(trace), key[1], key[2])
        <5>1. PICK now : now = Len(trace)
          OBVIOUS
        <5>2. MarkedBy(now, key[1], key[2])' = MarkedBy(now, key[1], key[2])
          BY <2>3, <5>1, PastStays DEF Inv
        <5>3. MarkedBy(Len(trace), key[1], key[2])' = MarkedBy(now, key[1], key[2])'
          BY <2>1, <5>1, Zenon DEF MarkedBy
        <5> QED
          BY <5>1, <5>2, <5>3
      <4> QED
        BY <2>1, <2>3, <4>1, <4>2, EntryStays DEF Inv
    <3>2. ASSUME NEW i \in DOMAIN trace', NEW p \in ToSet(Entries[arm'][trace'[i].shape]),
                 Caches(trace[i].shape)'
          PROVE  <<trace'[i].shape.scope, p.ids>> \in DOMAIN live'
      <4>1. Caches(trace[i].shape)
        BY <2>1, <3>2, Zenon DEF Caches
      <4> QED
        BY <2>1, <4>1 DEF Inv, LiveInv
    <3> QED
      BY <3>1, <3>2, Zenon DEF LiveInv
  <2>5. \A n \in DOMAIN usages' : HitAt(n)' /\ WarmAt(n)'
    <3>1. \A n \in DOMAIN usages : n \in DOMAIN priced /\ HitAt(n) /\ WarmAt(n)
      BY HitsOneByOne DEF Inv, InStep
    <3> QED
      BY <2>1, <2>3, <3>1, BilledStays DEF Inv
  <2>6. HitsWereWritten'
    BY <2>5 DEF HitsWereWritten, HitAt, Hits
  <2>7. WarmPrefixesAreRead'
    BY <2>5 DEF WarmPrefixesAreRead, WarmAt, AfterResponse
  <2> QED
    BY <2>2, <2>4, <2>6, <2>7 DEF Inv
<1> QED
  BY <1>1, <1>2

THEOREM ReplayInvariant == Spec => []Inv
<1> QED
  BY ReplayStarts, ReplaySteps, PTL DEF Spec

\* A replay never makes up a hit: whatever it reads was marked by an earlier request
\* of the same tenant, surface and model, whose response had begun, and the entry
\* was kept alive since.
THEOREM ReadsWereWritten == Spec => []HitsWereWritten
<1>1. Inv => HitsWereWritten
  BY DEF Inv
<1> QED
  BY <1>1, ReplayInvariant, PTL

\* Nor does it make up a miss: a request that could read a warm prefix reads it, or
\* was routed away from the cache.
THEOREM WarmIsRead == Spec => []WarmPrefixesAreRead
<1>1. Inv => WarmPrefixesAreRead
  BY DEF Inv
<1> QED
  BY <1>1, ReplayInvariant, PTL

-----------------------------------------------------------------------------
(* What the tokens of a request come to.                                         *)

\* Each token of a request that caches is billed once: behind the last marker, read
\* or written; and something is read or written.
AddsUp(u, s) ==
  /\ u.read \in Nat /\ u.write5m \in Nat /\ u.write1h \in Nat
  /\ u.uncached + u.read + u.write5m + u.write1h = Tokens(s.segs)

LEMMA ServedAddsUp ==
  ASSUME InStep, NEW r \in Row, Caches(r.shape)
  PROVE  AddsUp(Usage(r), r.shape) /\ Usage(r).read + Usage(r).write5m + Usage(r).write1h > 0
<1>1. arm \in Arms /\ r.shape \in Shapes
  BY DEF InStep, Row
<1>2. PICK ids, pres, hit, read, last : /\ ids = WireIds[arm][r.shape]
                                        /\ pres = Entries[arm][r.shape]
                                        /\ hit = Hit(r) /\ read = Tokens(Prefix(ids, hit))
                                        /\ last = Last(pres).tokens
  OBVIOUS
<1>3. r.shape \in Modelled[arm] /\ pres # <<>>
  BY <1>2, Zenon DEF Caches
<1>4. Ladder(pres, ids) /\ \A i \in 1 .. Len(pres) : pres[i].ttl \in {"5m", "1h"}
  BY <1>1, <1>2, <1>3, EntriesAreLadder
<1>5. Len(pres) \in Nat \ {0} /\ DOMAIN pres = 1 .. Len(pres)
  <2>1. Len(pres) # 0
    BY <1>3, <1>4 DEF Ladder
  <2> QED
    BY <1>4, <2>1 DEF Ladder
<1>6. /\ ids \in Seq(Segments) /\ Len(ids) \in Nat /\ hit \in 0 .. Len(ids)
      /\ hit # 0 => Reachable(r.shape, hit)
  <2>1. /\ ids \in Seq(Segments) /\ Hit(r) \in 0 .. Len(ids)
        /\ Hit(r) # 0 => Reachable(r.shape, Hit(r))
    BY <1>1, <1>2, HitIsReadable, Zenon
  <2> QED
    BY <1>2, <2>1
<1>7. PICK at \in [1 .. Len(pres) -> 1 .. Len(ids)] :
        \A i \in 1 .. Len(pres) : /\ pres[i].ids = Prefix(ids, at[i])
                                  /\ pres[i].tokens = Tokens(Prefix(ids, at[i]))
  <2> DEFINE At(i, n) == pres[i].ids = Prefix(ids, n) /\ pres[i].tokens = Tokens(Prefix(ids, n))
             at == [i \in 1 .. Len(pres) |-> CHOOSE n \in 1 .. Len(ids) : At(i, n)]
  <2>1. \A i \in 1 .. Len(pres) : \E n \in 1 .. Len(ids) : At(i, n)
    BY <1>4 DEF Ladder, Rung
  <2>2. \A i \in 1 .. Len(pres) : at[i] \in 1 .. Len(ids) /\ At(i, at[i])
    <3> HIDE DEF At
    <3> QED BY <2>1
  <2>3. at \in [1 .. Len(pres) -> 1 .. Len(ids)]
    <3>1. at = [i \in 1 .. Len(pres) |-> at[i]]
      <4> HIDE DEF At
      <4> QED OBVIOUS
    <3> HIDE DEF at
    <3> QED
      BY <2>2, <3>1
  <2> HIDE DEF at
  <2> QED
    BY <2>2, <2>3
<1>8. \A i \in 1 .. Len(pres) : at[i] \in 1 .. Len(ids) /\ Len(pres[i].ids) = at[i]
  BY <1>6, <1>7 DEF Prefix
<1>9. \A i \in 1 .. Len(pres) : \A j \in 1 .. i : at[j] <= at[i]
  BY <1>4, <1>5, <1>8 DEF Ladder
<1> DEFINE T(n) == Tokens(Prefix(ids, n))
<1>10. /\ \A n \in 0 .. Len(ids) : T(n) \in Nat
       /\ \A n \in 0 .. Len(ids) : \A m \in 0 .. n : T(m) <= T(n)
  <2>1. \A n \in 0 .. Len(ids) : T(n) \in Nat /\ \A m \in 0 .. n - 1 : T(m) < T(n)
    BY <1>6, LongerIsMore
  <2> HIDE DEF T
  <2>2. \A n \in 0 .. Len(ids) : \A m \in 0 .. n : m = n \/ m \in 0 .. n - 1
    OBVIOUS
  <2>3. ASSUME NEW n \in 0 .. Len(ids), NEW m \in 0 .. n PROVE T(m) <= T(n)
    <3>1. m \in 0 .. Len(ids) /\ T(m) \in Nat /\ T(n) \in Nat
      BY <1>6, <2>1
    <3> QED
      BY <2>1, <2>2, <3>1
  <2> QED
    BY <2>1, <2>3
<1>11. \A i \in 1 .. Len(pres) : pres[i].tokens = T(at[i])
  BY <1>7
<1> HIDE DEF T
<1>12. /\ \A i \in 1 .. Len(pres) : pres[i].tokens \in Nat
       /\ \A i \in 1 .. Len(pres) : \A j \in 1 .. i : pres[j].tokens <= pres[i].tokens
  <2>1. ASSUME NEW i \in 1 .. Len(pres), NEW j \in 1 .. i
        PROVE  pres[i].tokens \in Nat /\ pres[j].tokens <= pres[i].tokens
    <3>1. j \in 1 .. Len(pres) /\ i \in 1 .. i
      BY <1>5
    <3>2. at[i] \in 0 .. Len(ids) /\ at[j] \in 0 .. at[i]
      BY <1>6, <1>8, <1>9, <3>1
    <3> QED
      BY <1>10, <1>11, <3>1, <3>2
  <2>2. \A i \in 1 .. Len(pres) : i \in 1 .. i
    OBVIOUS
  <2> QED
    BY <2>1, <2>2
<1>13. last = pres[Len(pres)].tokens /\ Len(pres) \in 1 .. Len(pres)
  BY <1>2, <1>5 DEF Last
<1>14. read \in Nat /\ read <= last
  <2>1. read = T(hit)
    BY <1>2 DEF T
  <2>2. CASE hit = 0
    <3>1. 0 \in 0 .. at[Len(pres)] /\ at[Len(pres)] \in 0 .. Len(ids)
      BY <1>8, <1>13
    <3> QED
      BY <1>6, <1>10, <1>11, <1>13, <2>1, <2>2, <3>1
  <2>3. CASE hit # 0
    <3>1. PICK i \in 1 .. Len(pres) : Len(pres[i].ids) >= hit
      <4>1. \E p \in ToSet(pres) : Len(p.ids) >= hit
        BY <1>2, <1>6, <2>3, Zenon DEF Reachable
      <4> QED
        BY <1>5, <4>1 DEF ToSet
    <3>2. i \in 1 .. Len(pres) /\ at[i] <= at[Len(pres)] /\ at[i] >= hit
      BY <1>8, <1>9, <1>13, <3>1
    <3>3. hit \in 0 .. at[Len(pres)] /\ at[Len(pres)] \in 0 .. Len(ids)
      BY <1>6, <1>8, <1>13, <3>2
    <3> QED
      BY <1>6, <1>10, <1>11, <1>13, <2>1, <3>3
  <2> QED
    BY <2>2, <2>3
<1>15. last > 0
  <2>1. at[Len(pres)] \in 1 .. Len(ids)
    BY <1>8, <1>13
  <2>2. 0 \in 0 .. at[Len(pres)] - 1 /\ at[Len(pres)] \in 0 .. Len(ids)
    BY <2>1
  <2>3. T(0) \in Nat /\ T(0) < T(at[Len(pres)])
    <3>1. 0 \in 0 .. Len(ids)
      BY <1>6
    <3> QED
      BY <1>6, <1>10, <2>2, <3>1, LongerIsMore DEF T
  <2>4. T(at[Len(pres)]) \in Nat
    BY <1>10, <2>2
  <2> QED
    BY <1>11, <1>13, <2>3, <2>4
<1>16. /\ Written(pres, read, "5m") \in Nat /\ Written(pres, read, "1h") \in Nat
       /\ Written(pres, read, "5m") + Written(pres, read, "1h") = last - read
  BY <1>4, <1>5, <1>12, <1>13, <1>14, WrittenAddsUp
<1>17. Tokens(r.shape.segs) \in Nat
  BY <1>1, TokensOfAll
<1>18. PICK u : u = Usage(r)
  OBVIOUS
<1>19. /\ u.uncached = Tokens(r.shape.segs) - last /\ u.read = read
       /\ u.write5m = Written(pres, read, "5m") /\ u.write1h = Written(pres, read, "1h")
  BY <1>2, <1>18 DEF Usage
<1>20. last \in Nat
  BY <1>12, <1>13
<1> QED
  BY <1>14, <1>15, <1>16, <1>17, <1>18, <1>19, <1>20, SMTT(30) DEF AddsUp

-----------------------------------------------------------------------------
(* The invariant of the bill.                                                    *)

BillsOf(k) == {n \in DOMAIN priced : priced[n] = k}

Cached == {n \in DOMAIN usages : usages[n].read + usages[n].write5m + usages[n].write1h > 0}

Excused == UNION Range(omitted)

BillInv ==
  /\ \A w \in DOMAIN omitted : omitted[w] \subseteq 1 .. Len(trace)
  /\ counts \in [reads : Int, writes : Int, cold : Nat]
  /\ \A n \in 1 .. Len(priced) : AddsUp(usages[n], Billed(n).shape)
  /\ \A k \in 1 .. Len(trace) :
       Cardinality(BillsOf(k)) = (IF trace[k].shape.segs = <<>> THEN 0 ELSE 1)
  /\ Cardinality(Cached) + counts.cold + Cardinality(Excused) = Len(trace)

LEMMA BillInvSaysSo ==
  ASSUME InStep, BillInv
  PROVE  EveryTokenBilledOnce
<1>1. DOMAIN priced = 1 .. Len(priced) /\ DOMAIN trace = 1 .. Len(trace)
  BY DEF InStep
<1>2. ASSUME NEW n \in DOMAIN priced
      PROVE  usages[n].uncached + usages[n].read + usages[n].write5m + usages[n].write1h
               = Tokens(Billed(n).shape.segs)
  BY <1>1 DEF BillInv, AddsUp
<1>3. ASSUME NEW k \in DOMAIN trace
      PROVE  Cardinality({n \in DOMAIN priced : priced[n] = k})
               = (IF trace[k].shape.segs = <<>> THEN 0 ELSE 1)
  BY <1>1, Zenon DEF BillInv, BillsOf
<1>4. Cardinality({n \in DOMAIN usages :
                     usages[n].read + usages[n].write5m + usages[n].write1h > 0})
        + counts.cold + Cardinality(UNION Range(omitted)) = Len(trace)
  BY Zenon DEF BillInv, Cached, Excused
<1>5. Len(usages) = Len(priced)
  BY DEF InStep
<1> QED
  BY <1>2, <1>3, <1>4, <1>5, Zenon DEF EveryTokenBilledOnce

\* A request that is billed is billed once, one without structure is not.
LEMMA BilledOnce ==
  ASSUME InStep, BillInv, NEW r \in Row, Appends(r),
         \/ r.shape.segs = <<>> /\ UNCHANGED <<usages, priced>>
         \/ r.shape.segs # <<>> /\ \E u : Bill(u) /\ AddsUp(u, r.shape)
  PROVE  /\ \A n \in 1 .. Len(priced') : AddsUp(usages[n], Billed(n).shape)'
         /\ \A k \in 1 .. Len(trace') :
              Cardinality(BillsOf(k)') = (IF trace'[k].shape.segs = <<>> THEN 0 ELSE 1)
<1>1. PICK t, p, past : /\ t = Len(trace) /\ t \in Nat /\ p = Len(priced) /\ p \in Nat
                        /\ past = trace'
  BY SMTT(30) DEF InStep
<1>2. /\ Len(past) = t + 1 /\ past[t + 1] = r
      /\ \A i \in 1 .. t : past[i] = trace[i]
  BY <1>1 DEF InStep, Appends
<1>3. /\ DOMAIN priced = 1 .. p /\ Len(usages) = p
      /\ \A n \in 1 .. p : priced[n] \in 1 .. t
      /\ \A n \in 1 .. p : AddsUp(usages[n], trace[priced[n]].shape)
      /\ \A k \in 1 .. t :
           Cardinality(BillsOf(k)) = (IF trace[k].shape.segs = <<>> THEN 0 ELSE 1)
  BY <1>1, SMTT(30) DEF InStep, BillInv, Billed
<1>4. CASE r.shape.segs = <<>> /\ UNCHANGED <<usages, priced>>
  <2>1. ASSUME NEW n \in 1 .. Len(priced') PROVE AddsUp(usages[n], Billed(n).shape)'
    <3>1. n \in 1 .. p /\ priced'[n] = priced[n] /\ usages'[n] = usages[n]
      BY <1>1, <1>4
    <3>2. past[priced[n]] = trace[priced[n]]
      BY <1>2, <1>3, <3>1
    <3> QED
      BY <1>1, <1>3, <3>1, <3>2, Zenon DEF AddsUp, Billed
  <2>2. ASSUME NEW k \in 1 .. Len(past)
        PROVE  Cardinality(BillsOf(k)') = (IF past[k].shape.segs = <<>> THEN 0 ELSE 1)
    <3>1. BillsOf(k)' = BillsOf(k)
      BY <1>4 DEF BillsOf
    <3>2. CASE k \in 1 .. t
      BY <1>2, <1>3, <3>1, <3>2
    <3>3. CASE k = t + 1
      <4>1. BillsOf(k) = {}
        BY <1>1, <1>3, <3>3 DEF BillsOf
      <4>2. Cardinality({}) = 0
        BY FS_EmptySet
      <4> QED
        BY <1>2, <1>4, <3>1, <3>3, <4>1, <4>2
    <3> QED
      BY <1>1, <1>2, <3>2, <3>3
  <2> QED
    BY <1>1, <2>1, <2>2
<1>5. ASSUME NEW u, r.shape.segs # <<>>, Bill(u), AddsUp(u, r.shape)
      PROVE  /\ \A n \in 1 .. Len(priced') : AddsUp(usages[n], Billed(n).shape)'
             /\ \A k \in 1 .. Len(trace') :
                  Cardinality(BillsOf(k)') = (IF trace'[k].shape.segs = <<>> THEN 0 ELSE 1)
  <2>1. PICK more, bills : more = usages' /\ bills = priced'
    OBVIOUS
  <2>2. /\ more[p + 1] = u /\ \A n \in 1 .. p : more[n] = usages[n]
    <3>1. more = Append(usages, u)
      BY <1>5, <2>1 DEF Bill
    <3> QED
      BY <1>1, <1>3, <3>1, AppendedSequence DEF InStep
  <2>3. /\ Len(bills) = p + 1 /\ DOMAIN bills = 1 .. p + 1 /\ bills[p + 1] = t + 1
        /\ \A n \in 1 .. p : bills[n] = priced[n]
    <3>1. bills = Append(priced, t + 1) /\ priced \in Seq(Nat)
      BY <1>1, <1>5, <2>1 DEF Bill, InStep
    <3> QED
      BY <1>1, <3>1
  <2>4. ASSUME NEW n \in 1 .. p + 1 PROVE AddsUp(more[n], past[bills[n]].shape)
    <3>1. CASE n = p + 1
      BY <1>2, <1>5, <2>2, <2>3, <3>1
    <3>2. CASE n \in 1 .. p
      <4>1. bills[n] = priced[n] /\ priced[n] \in 1 .. t /\ more[n] = usages[n]
        BY <1>3, <2>2, <2>3, <3>2
      <4> QED
        BY <1>2, <1>3, <3>2, <4>1
    <3> QED
      BY <1>1, <3>1, <3>2
  <2>5. ASSUME NEW n \in 1 .. Len(priced') PROVE AddsUp(usages[n], Billed(n).shape)'
    <3>1. n \in 1 .. p + 1
      BY <2>1, <2>3
    <3>2. AddsUp(usages'[n], trace'[priced'[n]].shape)
      BY <1>1, <2>1, <2>4, <3>1
    <3> QED
      BY <3>2, Zenon DEF Billed, AddsUp
  <2>6. ASSUME NEW k \in 1 .. Len(past)
        PROVE  Cardinality(BillsOf(k)') = (IF past[k].shape.segs = <<>> THEN 0 ELSE 1)
    <3>1. BillsOf(k)' = {n \in 1 .. p + 1 : bills[n] = k}
      BY <2>1, <2>3 DEF BillsOf
    <3>2. CASE k \in 1 .. t
      <4>1. BillsOf(k)' = BillsOf(k)
        BY <1>1, <1>3, <2>3, <3>1, <3>2 DEF BillsOf
      <4> QED
        BY <1>2, <1>3, <3>2, <4>1
    <3>3. CASE k = t + 1
      <4>1. BillsOf(k)' = {p + 1}
        <5>1. \A n \in 1 .. p + 1 : bills[n] = k <=> n = p + 1
          <6>1. \A n \in 1 .. p : bills[n] \in 1 .. t
            BY <1>3, <2>3
          <6>2. \A n \in 1 .. p + 1 : n \in 1 .. p \/ n = p + 1
            BY <1>1
          <6>3. t + 1 \notin 1 .. t /\ p + 1 \notin 1 .. p
            BY <1>1
          <6> QED
            BY <2>3, <3>3, <6>1, <6>2, <6>3
        <5>2. p + 1 \in 1 .. p + 1
          BY <1>1
        <5> QED
          BY <3>1, <5>1, <5>2
      <4>2. Cardinality({p + 1}) = 1
        BY FS_Singleton
      <4> QED
        BY <1>2, <1>5, <3>3, <4>1, <4>2
    <3> QED
      BY <1>1, <1>2, <3>2, <3>3
  <2> QED
    BY <1>1, <2>5, <2>6
<1> QED
  BY <1>4, <1>5

\* A reason for leaving a request out is a reason for one more request.
LEMMA OneMoreExcused ==
  ASSUME InStep, BillInv, NEW reason, Omit(reason)
  PROVE  /\ \A w \in DOMAIN omitted' : omitted'[w] \subseteq 1 .. Len(trace) + 1
         /\ Cardinality(Excused') = Cardinality(Excused) + 1 /\ Cardinality(Excused) \in Nat
<1>1. PICK t, more : t = Len(trace) /\ t \in Nat /\ more = omitted'
  BY DEF InStep
<1>2. more = [w \in DOMAIN omitted \cup {reason} |->
                (IF w \in DOMAIN omitted THEN omitted[w] ELSE {})
                  \cup (IF w = reason THEN {t + 1} ELSE {})]
  BY <1>1 DEF Omit
<1>3. \A w \in DOMAIN omitted : omitted[w] \subseteq 1 .. t
  BY <1>1 DEF BillInv
<1>4. /\ DOMAIN more = DOMAIN omitted \cup {reason}
      /\ \A w \in DOMAIN more : more[w] = (IF w \in DOMAIN omitted THEN omitted[w] ELSE {})
                                            \cup (IF w = reason THEN {t + 1} ELSE {})
  BY <1>2
<1>5. \A w \in DOMAIN more : more[w] \subseteq 1 .. t + 1
  BY <1>1, <1>3, <1>4
<1>6. \A x : (\E w \in DOMAIN more : x \in more[w])
                 <=> (\E w \in DOMAIN omitted : x \in omitted[w]) \/ x = t + 1
  BY <1>4
<1>7. Excused' = Excused \cup {t + 1}
  <2>1. PICK old, new : old = Excused /\ new = Excused'
    OBVIOUS
  <2>2. \A x : x \in old <=> \E w \in DOMAIN omitted : x \in omitted[w]
    BY <2>1 DEF Excused, Range
  <2>3. new = UNION {more[w] : w \in DOMAIN more}
    BY <1>1, <2>1 DEF Excused, Range
  <2>4. \A x : x \in new <=> \E w \in DOMAIN more : x \in more[w]
    BY <2>3
  <2>5. \A x : x \in new <=> x \in old \/ x = t + 1
    BY <1>6, <2>2, <2>4
  <2> QED
    BY <2>1, <2>5
<1>8. Excused \subseteq 1 .. t
  BY <1>3 DEF Excused, Range
<1>9. IsFiniteSet(Excused)
  <2>1. IsFiniteSet(1 .. t)
    BY <1>1, FS_Interval
  <2> QED
    BY <1>8, <2>1, FS_Subset
<1>10. t + 1 \notin Excused
  BY <1>1, <1>8
<1> QED
  BY <1>1, <1>5, <1>7, <1>9, <1>10, FS_AddElement, FS_CardinalityType

\* A usage counts among those that cache if it reads or writes.
LEMMA OneMoreCached ==
  ASSUME InStep, NEW u, Bill(u)
  PROVE  /\ Cardinality(Cached) \in Nat
         /\ Cardinality(Cached') = Cardinality(Cached)
              + (IF u.read + u.write5m + u.write1h > 0 THEN 1 ELSE 0)
<1>1. PICK p, more : p = Len(usages) /\ p \in Nat /\ more = usages'
  BY DEF InStep
<1>2. /\ DOMAIN usages = 1 .. p /\ DOMAIN more = 1 .. p + 1 /\ more[p + 1] = u
      /\ \A n \in 1 .. p : more[n] = usages[n]
  <2>1. more = Append(usages, u)
    BY <1>1 DEF Bill
  <2>2. /\ more \in Seq(Range(more)) /\ Len(more) = p + 1 /\ more[p + 1] = u
        /\ \A n \in 1 .. p : more[n] = usages[n]
    BY <1>1, <2>1, AppendedSequence DEF InStep
  <2>3. DOMAIN more = 1 .. Len(more)
    BY <2>2
  <2> QED
    BY <1>1, <2>2, <2>3 DEF InStep
<1>3. /\ Cached = {n \in 1 .. p : usages[n].read + usages[n].write5m + usages[n].write1h > 0}
      /\ Cached' = {n \in 1 .. p + 1 : more[n].read + more[n].write5m + more[n].write1h > 0}
  BY <1>1, <1>2, Zenon DEF Cached
<1>4. IsFiniteSet(Cached) /\ Cardinality(Cached) \in Nat /\ p + 1 \notin Cached
  <2>1. Cached \subseteq 1 .. p /\ IsFiniteSet(1 .. p)
    BY <1>1, <1>3, FS_Interval
  <2>2. p + 1 \notin 1 .. p
    BY <1>1
  <2> QED
    BY <2>1, <2>2, FS_Subset, FS_CardinalityType
<1>5. CASE u.read + u.write5m + u.write1h > 0
  <2>1. Cached' = Cached \cup {p + 1}
    BY <1>1, <1>2, <1>3, <1>5
  <2> QED
    BY <1>4, <1>5, <2>1, FS_AddElement
<1>6. CASE ~ (u.read + u.write5m + u.write1h > 0)
  <2>1. Cached' = Cached
    BY <1>1, <1>2, <1>3, <1>6
  <2> QED
    BY <1>4, <1>6, <2>1
<1> QED
  BY <1>5, <1>6

LEMMA CachedIsFinite ==
  ASSUME InStep
  PROVE  Cardinality(Cached) \in Nat
<1>1. DOMAIN usages = 1 .. Len(usages) /\ Len(usages) \in Nat
  BY DEF InStep
<1>2. Cached \subseteq DOMAIN usages
  BY Zenon DEF Cached
<1>3. IsFiniteSet(1 .. Len(usages))
  BY <1>1, FS_Interval
<1> QED
  BY <1>1, <1>2, <1>3, FS_Subset, FS_CardinalityType

LEMMA ExcusedIsFinite ==
  ASSUME InStep, BillInv
  PROVE  Cardinality(Excused) \in Nat
<1>1. Excused \subseteq 1 .. Len(trace) /\ IsFiniteSet(1 .. Len(trace))
  BY FS_Interval DEF Excused, Range, BillInv, InStep
<1> QED
  BY <1>1, FS_Subset, FS_CardinalityType

LEMMA UncachedAddsUp ==
  ASSUME NEW s \in Shapes
  PROVE  /\ AddsUp(Uncached(s), s)
         /\ ~ (Uncached(s).read + Uncached(s).write5m + Uncached(s).write1h > 0)
<1>1. Tokens(s.segs) \in Nat
  BY TokensOfAll
<1>2. PICK u : u = Uncached(s)
  OBVIOUS
<1>3. u.uncached = Tokens(s.segs) /\ u.read = 0 /\ u.write5m = 0 /\ u.write1h = 0
  BY <1>2 DEF Uncached
<1> QED
  BY <1>1, <1>2, <1>3 DEF AddsUp

LEMMA BillSteps ==
  ASSUME InStep, BillInv, NEW r \in Row, Appends(r), Replayed(r)
  PROVE  BillInv'
<1>1. r.shape \in Shapes /\ arm \in Arms /\ Len(trace) \in Nat /\ Len(trace') = Len(trace) + 1
  BY DEF InStep, Row, Appends
<1>2. counts \in [reads : Int, writes : Int, cold : Nat]
  BY DEF BillInv
<1>3. Cardinality(Cached) + counts.cold + Cardinality(Excused) = Len(trace)
  BY DEF BillInv
<1>4. \A w \in DOMAIN omitted : omitted[w] \subseteq 1 .. Len(trace) + 1
  BY <1>1 DEF BillInv
<1>5. AddsUp(Uncached(r.shape), r.shape)
  BY <1>1, UncachedAddsUp
<1>6. CASE r.shape.segs = <<>> /\ (\E reason : Omit(reason)) /\ UNCHANGED <<usages, priced, counts>>
  <2>1. Cached' = Cached
    BY <1>6 DEF Cached
  <2>2. /\ \A w \in DOMAIN omitted' : omitted'[w] \subseteq 1 .. Len(trace) + 1
        /\ Cardinality(Excused') = Cardinality(Excused) + 1 /\ Cardinality(Excused) \in Nat
    BY <1>6, OneMoreExcused
  <2>3. Cardinality(Cached) \in Nat
    BY CachedIsFinite
  <2> QED
    BY <1>1, <1>2, <1>3, <1>6, <2>1, <2>2, <2>3, BilledOnce DEF BillInv
<1>7. CASE r.shape.segs # <<>> /\ (\E reason : Omit(reason)) /\ Bill(Uncached(r.shape))
             /\ UNCHANGED counts
  <2>1. Cardinality(Cached) \in Nat /\ Cardinality(Cached') = Cardinality(Cached)
    BY <1>1, <1>7, OneMoreCached, UncachedAddsUp
  <2>2. /\ \A w \in DOMAIN omitted' : omitted'[w] \subseteq 1 .. Len(trace) + 1
        /\ Cardinality(Excused') = Cardinality(Excused) + 1 /\ Cardinality(Excused) \in Nat
    BY <1>7, OneMoreExcused
  <2> QED
    BY <1>1, <1>2, <1>3, <1>5, <1>7, <2>1, <2>2, BilledOnce DEF BillInv
<1>8. CASE NothingMarked(r.shape)
  <2>1. r.shape.segs # <<>>
    <3>1. r.shape \in Modelled[arm]
      BY <1>8 DEF NothingMarked
    <3> QED
      BY <1>1, <3>1 DEF Modelled
  <2>2. Bill(Uncached(r.shape)) /\ omitted' = omitted /\ counts' = [counts EXCEPT !.cold = @ + 1]
    BY <1>8 DEF NothingMarked
  <2>3. Cardinality(Cached) \in Nat /\ Cardinality(Cached') = Cardinality(Cached)
    BY <1>1, <2>2, OneMoreCached, UncachedAddsUp
  <2>4. counts' \in [reads : Int, writes : Int, cold : Nat] /\ counts'.cold = counts.cold + 1
    BY <1>2, <2>2
  <2>5. Excused' = Excused
    BY <2>2 DEF Excused
  <2>6. Cardinality(Excused) \in Nat
    BY ExcusedIsFinite
  <2> QED
    <3>1. /\ \A n \in 1 .. Len(priced') : AddsUp(usages[n], Billed(n).shape)'
          /\ \A k \in 1 .. Len(trace') :
               Cardinality(BillsOf(k)') = (IF trace'[k].shape.segs = <<>> THEN 0 ELSE 1)
      BY <1>5, <2>1, <2>2, BilledOnce
    <3>2. \A w \in DOMAIN omitted' : omitted'[w] \subseteq 1 .. Len(trace')
      BY <1>1, <1>4, <2>2
    <3>3. Cardinality(Cached') + counts'.cold + Cardinality(Excused') = Len(trace')
      BY <1>1, <1>2, <1>3, <2>3, <2>4, <2>5, <2>6, SMTT(30)
    <3> QED
      BY <2>4, <3>1, <3>2, <3>3 DEF BillInv
<1>9. CASE Serve(r)
  <2>1. Caches(r.shape) /\ Bill(Usage(r)) /\ omitted' = omitted
    BY <1>9 DEF Serve
  <2>2. r.shape.segs # <<>>
    BY <1>1, <2>1, OnlyServedCaches
  <2>3. AddsUp(Usage(r), r.shape) /\ Usage(r).read + Usage(r).write5m + Usage(r).write1h > 0
    BY <2>1, ServedAddsUp
  <2>4. Cardinality(Cached) \in Nat /\ Cardinality(Cached') = Cardinality(Cached) + 1
    BY <2>1, <2>3, OneMoreCached
  <2>5. counts' \in [reads : Int, writes : Int, cold : Nat] /\ counts'.cold = counts.cold
    <3> DEFINE a == IF Usage(r).read > 0 THEN 1 ELSE 0
               b == IF Usage(r).write5m + Usage(r).write1h > 0 THEN 1 ELSE 0
    <3>1. counts' = [counts EXCEPT !.reads = @ + a, !.writes = @ + b]
      BY <1>9, Zenon DEF Serve
    <3>2. a \in {0, 1} /\ b \in {0, 1}
      OBVIOUS
    <3> HIDE DEF a, b
    <3>3. PICK x \in Int, y \in Int, z \in Nat :
            counts = [reads |-> x, writes |-> y, cold |-> z]
      BY <1>2
    <3>4. counts' = [reads |-> x + a, writes |-> y + b, cold |-> z]
      BY <3>1, <3>3
    <3>5. x + a \in Int /\ y + b \in Int
      BY <3>2, <3>3
    <3> HIDE DEF a, b
    <3> QED
      BY <3>3, <3>4, <3>5
  <2>6. Excused' = Excused /\ Cardinality(Excused) \in Nat
    BY <2>1, ExcusedIsFinite DEF Excused
  <2> QED
    <3>1. /\ \A n \in 1 .. Len(priced') : AddsUp(usages[n], Billed(n).shape)'
          /\ \A k \in 1 .. Len(trace') :
               Cardinality(BillsOf(k)') = (IF trace'[k].shape.segs = <<>> THEN 0 ELSE 1)
      BY <2>1, <2>2, <2>3, BilledOnce
    <3>2. \A w \in DOMAIN omitted' : omitted'[w] \subseteq 1 .. Len(trace')
      BY <1>1, <1>4, <2>1
    <3>3. Cardinality(Cached') + counts'.cold + Cardinality(Excused') = Len(trace')
      <4>1. PICK c, k, e, t : /\ c = Cardinality(Cached) /\ k = counts.cold
                              /\ e = Cardinality(Excused) /\ t = Len(trace)
        OBVIOUS
      <4>2. c \in Nat /\ k \in Nat /\ e \in Nat /\ t \in Nat /\ c + k + e = t
        BY <1>1, <1>2, <1>3, <2>4, <2>6, <4>1
      <4>3. (c + 1) + k + e = t + 1
        BY <4>2
      <4> QED
        BY <1>1, <2>4, <2>5, <2>6, <4>1, <4>3
    <3> QED
      BY <2>5, <3>1, <3>2, <3>3 DEF BillInv
<1>10. CASE SkipUnstructured(r.shape)
  BY <1>6, <1>10 DEF SkipUnstructured
<1>11. CASE PolicyRaises(r.shape) \/ NoMinimum(r.shape) \/ UnmodelledLifetime(r.shape)
  BY <1>7, <1>11 DEF PolicyRaises, NoMinimum, UnmodelledLifetime
<1> QED
  BY <1>8, <1>9, <1>10, <1>11 DEF Replayed

LEMMA BillStarts == Init => InStep /\ BillInv
<1> SUFFICES ASSUME Init PROVE BillInv
  BY ReplayStarts DEF Inv
<1>1. /\ trace = <<>> /\ usages = <<>> /\ priced = <<>> /\ omitted = [w \in {} |-> {}]
      /\ counts = [reads |-> 0, writes |-> 0, cold |-> 0]
  BY DEF Init
<1>2. Cached = {} /\ Excused = {}
  BY <1>1 DEF Cached, Excused, Range
<1>3. Cardinality({}) = 0
  BY FS_EmptySet
<1> QED
  BY <1>1, <1>2, <1>3 DEF BillInv

\* simulate prices every token of every request with structure exactly once, for any
\* trace, arm and registry: however long the prompt, wherever the markers are and
\* whatever is live, the sums add up; and no request drops out without a reason.
THEOREM TokensAreBilledOnce == Spec => []EveryTokenBilledOnce
<1>1. Init => Inv /\ BillInv
  BY ReplayStarts, BillStarts
<1>2. Inv /\ BillInv /\ [Next]_vars => (Inv /\ BillInv)'
  <2> SUFFICES ASSUME Inv, BillInv, [Next]_vars PROVE BillInv'
    BY ReplaySteps
  <2>1. InStep
    BY DEF Inv
  <2>2. CASE Next
    <3>1. PICK shape \in Shapes, gap \in Gaps :
            Replayed(Sent(shape, gap)) /\ trace' = Append(trace, Sent(shape, gap))
      BY <2>2 DEF Next
    <3>2. arm' = arm
      BY <2>2 DEF Next
    <3>3. Sent(shape, gap) \in Row
      BY <2>1, SentIsRow
    <3> QED
      BY <2>1, <3>1, <3>2, <3>3, BillSteps DEF Appends
  <2>3. CASE UNCHANGED vars
    <3>1. /\ trace' = trace /\ usages' = usages /\ priced' = priced
          /\ omitted' = omitted /\ counts' = counts
      BY <2>3 DEF vars
    <3>2. Cached' = Cached /\ Excused' = Excused
      BY <3>1 DEF Cached, Excused
    <3>3. \A k : BillsOf(k)' = BillsOf(k)
      BY <3>1 DEF BillsOf
    <3> QED
      BY <3>1, <3>2, <3>3 DEF BillInv, AddsUp, Billed
  <2> QED
    BY <2>2, <2>3
<1>3. Inv /\ BillInv => EveryTokenBilledOnce
  BY BillInvSaysSo DEF Inv
<1> QED
  BY <1>1, <1>2, <1>3, PTL DEF Spec

-----------------------------------------------------------------------------
(* The replay and the findings ask the same question.                            *)

\* In the order of the trace, the markers of a plan are the spans of the findings.
LEMMA SpansAreThePlan ==
  ASSUME NEW a \in Arms, NEW s \in Shapes, a.order = <<>>
  PROVE  /\ WireIds[a][s] = s.segs
         /\ Len(MarkedSpans(s)) = Len(PlanPrefixes(a, s))
         /\ DOMAIN MarkedSpans(s) = 1 .. Len(PlanPrefixes(a, s))
         /\ \A i \in 1 .. Len(PlanPrefixes(a, s)) :
              /\ MarkedSpans(s)[i].ids = PlanPrefixes(a, s)[i].ids
              /\ MarkedSpans(s)[i].tokens = PlanPrefixes(a, s)[i].tokens
              /\ MarkedSpans(s)[i].length = Len(PlanPrefixes(a, s)[i].ids)
<1>1. PICK segs, places : segs = s.segs /\ places = [i \in DOMAIN segs |-> i]
  OBVIOUS
<1>2. /\ segs \in Seq(Segments) /\ Len(segs) \in Nat /\ DOMAIN segs = 1 .. Len(segs)
      /\ places \in Seq(1 .. Len(segs)) /\ Len(places) = Len(segs)
      /\ \A i \in 1 .. Len(segs) : places[i] = i
  <2>1. segs \in Seq(Segments)
    BY <1>1, ReplayAssumption
  <2>2. Len(segs) \in Nat /\ DOMAIN segs = 1 .. Len(segs)
    BY <2>1
  <2> QED
    BY <1>1, <2>1, <2>2
<1>3. Emission(s, a.order) = places
  <2>1. Emission(s, a.order) = Among(<<>>, DOMAIN segs) \o Among(places, DOMAIN segs \ ToSet(<<>>))
    BY <1>1, Zenon DEF Emission
  <2>2. DOMAIN segs \ ToSet(<<>>) = DOMAIN segs
    BY DEF ToSet
  <2>3. Among(<<>>, DOMAIN segs) = <<>>
    <3>1. <<>> \in Seq({}) /\ \A k \in 1 .. Len(<<>>) : <<>>[k] \in DOMAIN segs
      OBVIOUS
    <3> QED
      BY <3>1, AmongOfAll
  <2>4. Among(places, DOMAIN segs) = places
    <3>1. \A k \in 1 .. Len(places) : places[k] \in DOMAIN segs
      BY <1>2
    <3> QED
      BY <1>2, <3>1, AmongOfAll
  <2>5. <<>> \o places = places
    BY <1>2
  <2> QED
    BY <2>1, <2>2, <2>3, <2>4, <2>5
<1>4. DOMAIN places = DOMAIN segs
  BY <1>1
<1>5. WireIds[a][s] = segs
  <2>1. WireIds[a][s] = [p \in DOMAIN Emission(s, a.order) |-> s.segs[Emission(s, a.order)[p]]]
    BY EmissionIs
  <2>2. WireIds[a][s] = [p \in DOMAIN places |-> segs[places[p]]]
    BY <1>1, <1>3, <2>1, Zenon
  <2>3. \A p \in DOMAIN segs : segs[places[p]] = segs[p]
    BY <1>2
  <2>4. segs = [p \in DOMAIN segs |-> segs[p]]
    BY <1>2
  <2> QED
    BY <1>4, <2>2, <2>3, <2>4
<1>6. PICK marked, cut : /\ marked = DOMAIN s.marks \cap DOMAIN segs
                         /\ cut = Among(places, marked)
  OBVIOUS
<1>7. PICK plan, spans : plan = PlanPrefixes(a, s) /\ spans = MarkedSpans(s)
  OBVIOUS
<1>8. cut \in Seq(1 .. Len(segs)) /\ Len(cut) \in Nat /\ DOMAIN cut = 1 .. Len(cut)
  <2>1. cut \in Seq(1 .. Len(segs))
    BY <1>2, <1>6, AmongIsDrawn
  <2> QED
    BY <2>1
<1>9. spans = [i \in DOMAIN cut |-> [length |-> cut[i], tokens |-> Tokens(Prefix(segs, cut[i])),
                                     ids |-> Prefix(segs, cut[i])]]
  BY <1>1, <1>6, <1>7, Zenon DEF MarkedSpans
<1>10. /\ DOMAIN plan = DOMAIN cut
       /\ \A i \in DOMAIN cut : /\ plan[i].ids = Prefix(segs, cut[i])
                                /\ plan[i].tokens = Tokens(Prefix(segs, cut[i]))
  <2> DEFINE W == Emission(s, a.order)
             C == Among([p \in DOMAIN W |-> p], {p \in DOMAIN W : W[p] \in DOMAIN s.marks})
             I == WireIds[a][s]
  <2>1. PlanPrefixes(a, s) = [i \in DOMAIN C |-> [ids    |-> Prefix(I, C[i]),
                                                  tokens |-> Tokens(Prefix(I, C[i])),
                                                  ttl    |-> s.marks[W[C[i]]]]]
    BY Zenon DEF PlanPrefixes
  <2>2. C = cut
    <3>1. W = places
      BY <1>3
    <3> HIDE DEF W
    <3>2. [p \in DOMAIN W |-> p] = places
      BY <1>1, <1>4, <3>1, Zenon
    <3>3. {p \in DOMAIN W : W[p] \in DOMAIN s.marks} = marked
      BY <1>2, <1>4, <1>6, <3>1
    <3> QED
      BY <1>6, <3>2, <3>3, Zenon
  <2>3. I = segs
    BY <1>5
  <2> HIDE DEF C, I, W
  <2> QED
    BY <1>7, <2>1, <2>2, <2>3
<1>11. plan \in Seq(ToSet(plan))
  BY <1>7, PlanIsLadder
<1>12. Len(plan) = Len(cut)
  <2>1. DOMAIN plan = 1 .. Len(plan) /\ Len(plan) \in Nat
    BY <1>11
  <2> QED
    BY <1>8, <1>10, <2>1
<1>13. Len(spans) = Len(cut) /\ DOMAIN spans = 1 .. Len(cut)
  BY <1>8, <1>9
<1>14. \A i \in 1 .. Len(cut) : /\ spans[i].ids = plan[i].ids
                                /\ spans[i].tokens = plan[i].tokens
                                /\ spans[i].length = Len(plan[i].ids)
  <2>1. ASSUME NEW i \in 1 .. Len(cut)
        PROVE  /\ spans[i].ids = plan[i].ids
               /\ spans[i].tokens = plan[i].tokens
               /\ spans[i].length = Len(plan[i].ids)
    <3>1. /\ spans[i].length = cut[i] /\ spans[i].tokens = Tokens(Prefix(segs, cut[i]))
          /\ spans[i].ids = Prefix(segs, cut[i])
      BY <1>8, <1>9
    <3>2. plan[i].ids = Prefix(segs, cut[i]) /\ plan[i].tokens = Tokens(Prefix(segs, cut[i]))
      BY <1>8, <1>10
    <3>3. Len(Prefix(segs, cut[i])) = cut[i]
      <4>1. PICK c \in 1 .. Len(segs) : c = cut[i]
        BY <1>8
      <4>2. Len(Prefix(segs, c)) = c
        BY <1>2 DEF Prefix
      <4> QED
        BY <4>1, <4>2
    <3> QED
      BY <3>1, <3>2, <3>3
  <2> QED
    BY <2>1
<1> QED
  BY <1>1, <1>5, <1>7, <1>12, <1>13, <1>14

\* What was read ends within reach of a marker of the request that read it.
ReadAt(n) ==
  usages[n].read > 0 =>
    /\ Caches(Billed(n).shape)
    /\ \E m \in 1 .. Len(WireIds[arm][Billed(n).shape]) :
         /\ usages[n].read = Tokens(Prefix(WireIds[arm][Billed(n).shape], m))
         /\ Reachable(Billed(n).shape, m)

ReadInv == \A n \in 1 .. Len(usages) : ReadAt(n)

LEMMA ReadSteps ==
  ASSUME InStep, ReadInv, NEW r \in Row, Appends(r), Bills(r)
  PROVE  ReadInv'
<1>1. /\ DOMAIN usages = 1 .. Len(usages) /\ DOMAIN priced = 1 .. Len(usages)
      /\ Len(usages) \in Nat /\ Len(trace) \in Nat /\ arm \in Arms /\ arm' = arm
      /\ \A n \in 1 .. Len(usages) : priced[n] \in 1 .. Len(trace)
      /\ \A i \in 1 .. Len(trace) : trace'[i] = trace[i]
      /\ trace'[Len(trace) + 1] = r
  BY Appending, PastStays DEF InStep, Appends
<1>2. ASSUME NEW n \in 1 .. Len(usages), priced'[n] = priced[n], usages'[n] = usages[n]
      PROVE  ReadAt(n)'
  <2>1. Billed(n)' = Billed(n)
    BY <1>1, <1>2 DEF Billed
  <2>2. ReadAt(n)
    BY DEF ReadInv
  <2> QED
    BY <1>1, <1>2, <2>1, <2>2, Zenon DEF ReadAt, Caches, Reachable
<1>3. CASE UNCHANGED <<usages, priced>>
  <2>1. ASSUME NEW n \in 1 .. Len(usages') PROVE ReadAt(n)'
    BY <1>2, <1>3
  <2> QED
    BY <2>1, Zenon DEF ReadInv
<1>4. ASSUME NEW u, Bill(u), IF Caches(r.shape) THEN u = Usage(r) ELSE u.read = 0 /\ u.write5m = 0
      PROVE  ReadInv'
  <2>1. /\ Len(usages') = Len(usages) + 1 /\ usages'[Len(usages) + 1] = u
        /\ \A k \in 1 .. Len(usages) : usages'[k] = usages[k]
    BY <1>4, AppendedSequence DEF InStep, Bill
  <2>2. /\ priced'[Len(usages) + 1] = Len(trace) + 1
        /\ \A k \in 1 .. Len(usages) : priced'[k] = priced[k]
    BY <1>4 DEF InStep, Bill
  <2>3. ASSUME NEW n, n = Len(usages) + 1 PROVE ReadAt(n)'
    <3>1. Billed(n)' = r /\ usages'[n] = u
      BY <1>1, <2>1, <2>2, <2>3 DEF Billed
    <3>2. CASE ~ (u.read > 0)
      BY <3>1, <3>2, Zenon DEF ReadAt
    <3>3. CASE u.read > 0
      <4>1. Caches(r.shape) /\ u = Usage(r)
        BY <1>4, <3>3
      <4>2. PICK ids, hit : ids = WireIds[arm][r.shape] /\ hit = Hit(r)
        OBVIOUS
      <4>3. u.read = Tokens(Prefix(ids, hit))
        BY <4>1, <4>2 DEF Usage
      <4>4. /\ ids \in Seq(Segments) /\ hit \in 0 .. Len(ids)
            /\ hit # 0 => Reachable(r.shape, hit)
        BY <1>1, <4>2, HitIsReadable, Zenon
      <4>5. hit # 0
        <5> SUFFICES ASSUME hit = 0 PROVE FALSE
          OBVIOUS
        <5>1. Prefix(ids, hit) = <<>>
          BY <4>4 DEF Prefix
        <5> QED
          BY <3>3, <4>3, <5>1, TokensOfNone
      <4>6. hit \in 1 .. Len(ids)
        BY <4>4, <4>5
      <4>7. Caches(Billed(n).shape)' /\ Reachable(Billed(n).shape, hit)'
        BY <1>1, <3>1, <4>1, <4>4, <4>5, Zenon DEF Caches, Reachable
      <4>8. WireIds[arm'][Billed(n)'.shape] = ids
        BY <1>1, <3>1, <4>2
      <4> QED
        BY <3>1, <4>3, <4>6, <4>7, <4>8, Zenon DEF ReadAt
    <3> QED
      BY <3>2, <3>3
  <2>4. ASSUME NEW n \in 1 .. Len(usages') PROVE ReadAt(n)'
    <3>1. n \in 1 .. Len(usages) \/ n = Len(usages) + 1
      BY <1>1, <2>1
    <3> QED
      BY <1>2, <2>1, <2>2, <2>3, <3>1
  <2> QED
    BY <2>4, Zenon DEF ReadInv
<1> QED
  BY <1>3, <1>4 DEF Bills

\* In the order of the trace, the first m segments of the reader are what the writer
\* marked with p, and the reader's marker q reaches them.
Reaches(a, reader, m, q, window, writer, p) ==
  /\ a \in Arms /\ a.order = <<>>
  /\ writer \in Modelled[a] /\ reader \in Modelled[a] /\ writer.scope = reader.scope
  /\ m \in 1 .. Len(WireIds[a][reader])
  /\ p \in ToSet(Entries[a][writer]) /\ p.ids = Prefix(WireIds[a][reader], m)
  /\ q \in ToSet(Entries[a][reader]) /\ Len(q.ids) >= m
  /\ window # Unknown => window \in Nat /\ Len(q.ids) - m <= window

\* The findings call a span of the writer that ends where p does reusable by the reader.
Reuses(reader, window, writer, p) ==
  \E span \in ToSet(MarkedSpans(writer)) :
    /\ span.ids = p.ids
    /\ SpanIsReusableBy(span, MarkedSpans(reader), window, Minimum[reader.scope])

LEMMA MarkedIsReusable ==
  ASSUME NEW a, NEW reader, NEW m, NEW q, NEW window, NEW writer, NEW p,
         Reaches(a, reader, m, q, window, writer, p)
  PROVE  Reuses(reader, window, writer, p)
<1>0. /\ a \in Arms /\ a.order = <<>>
      /\ writer \in Modelled[a] /\ reader \in Modelled[a] /\ writer.scope = reader.scope
      /\ m \in 1 .. Len(WireIds[a][reader])
      /\ p \in ToSet(Entries[a][writer]) /\ p.ids = Prefix(WireIds[a][reader], m)
      /\ q \in ToSet(Entries[a][reader]) /\ Len(q.ids) >= m
      /\ window # Unknown => window \in Nat /\ Len(q.ids) - m <= window
  BY Zenon DEF Reaches
<1>1. PICK segs, later, spans, plan, drawn :
        /\ segs = reader.segs /\ later = MarkedSpans(reader) /\ spans = MarkedSpans(writer)
        /\ plan = PlanPrefixes(a, reader) /\ drawn = PlanPrefixes(a, writer)
  OBVIOUS
<1>2. reader \in Shapes /\ writer \in Shapes
  BY <1>0, EntriesAreLadder
<1>3. /\ WireIds[a][reader] = segs
      /\ Len(later) = Len(plan) /\ DOMAIN later = 1 .. Len(plan)
      /\ \A i \in 1 .. Len(plan) : /\ later[i].ids = plan[i].ids
                                   /\ later[i].length = Len(plan[i].ids)
  BY <1>0, <1>1, <1>2, SpansAreThePlan
<1>4. /\ DOMAIN spans = 1 .. Len(drawn)
      /\ \A i \in 1 .. Len(drawn) : /\ spans[i].ids = drawn[i].ids
                                    /\ spans[i].tokens = drawn[i].tokens
                                    /\ spans[i].length = Len(drawn[i].ids)
  BY <1>0, <1>1, <1>2, SpansAreThePlan
<1>5. segs \in Seq(Segments) /\ Len(segs) \in Nat /\ m \in 1 .. Len(segs)
  <2>1. segs \in Seq(Segments)
    BY <1>1, <1>2, ReplayAssumption
  <2> QED
    BY <1>0, <1>3, <2>1
<1>6. Len(p.ids) = m /\ p.ids = SubSeq(segs, 1, m)
  BY <1>0, <1>3, <1>5 DEF Prefix
<1>7. PICK j \in 1 .. Len(drawn) : p = drawn[j] /\ p.tokens >= Minimum[writer.scope]
  <2>1. PICK i \in DOMAIN Entries[a][writer] : p = Entries[a][writer][i]
    BY <1>0 DEF ToSet
  <2>2. i \in 1 .. Len(Entries[a][writer])
    BY <1>0, <2>1, EntriesAreLadder DEF Ladder
  <2> QED
    BY <1>0, <1>1, <2>1, <2>2, EntriesAreLadder
<1>8. PICK k \in 1 .. Len(plan) : q = plan[k]
  <2>1. PICK i \in DOMAIN Entries[a][reader] : q = Entries[a][reader][i]
    BY <1>0 DEF ToSet
  <2>2. i \in 1 .. Len(Entries[a][reader])
    BY <1>0, <2>1, EntriesAreLadder DEF Ladder
  <2> QED
    BY <1>0, <1>1, <2>1, <2>2, EntriesAreLadder
<1>9. /\ Len(plan) \in Nat
      /\ \A i \in 1 .. Len(plan) : Rung(plan[i], segs)
      /\ \A x \in 1 .. Len(plan) : \A y \in 1 .. Len(plan) :
           x < y => Len(plan[x].ids) < Len(plan[y].ids)
  BY <1>0, <1>1, <1>2, <1>3, PlanIsLadder DEF Ladder
<1>10. PICK z : z = Len(plan)
  OBVIOUS
<1>11. z \in 1 .. Len(plan) /\ Last(later) = later[z]
  BY <1>3, <1>8, <1>9, <1>10 DEF Last
<1>12. PICK l \in 1 .. Len(segs) : plan[z].ids = Prefix(segs, l)
  BY <1>9, <1>11 DEF Rung
<1>13. Len(plan[z].ids) = l
  BY <1>5, <1>12 DEF Prefix
<1>14. m <= l
  <2>1. PICK g : g = Len(q.ids)
    OBVIOUS
  <2>2. g \in Nat
    <3>1. PICK n \in 1 .. Len(segs) : q.ids = Prefix(segs, n)
      BY <1>8, <1>9 DEF Rung
    <3> QED
      BY <1>5, <2>1, <3>1 DEF Prefix
  <2>3. g <= l
    <3>1. CASE k = z
      BY <1>8, <1>13, <2>1, <2>2, <3>1
    <3>2. CASE k < z
      BY <1>8, <1>9, <1>11, <1>13, <2>1, <2>2, <3>2
    <3> QED
      BY <1>8, <1>9, <1>10, <3>1, <3>2
  <2> QED
    BY <1>0, <1>5, <2>1, <2>2, <2>3
<1>15. PICK span : span = spans[j]
  OBVIOUS
<1>16. /\ span \in ToSet(spans) /\ span.ids = p.ids /\ span.length = m
       /\ span.tokens = p.tokens
  <2>1. span \in ToSet(spans)
    BY <1>4, <1>7, <1>15 DEF ToSet
  <2> QED
    BY <1>4, <1>6, <1>7, <1>15, <2>1
<1>17. later # <<>>
  BY <1>3, <1>8, <1>9
<1>18. span.length <= Last(later).length
  BY <1>3, <1>11, <1>13, <1>14, <1>16
<1>19. ASSUME window # Unknown
       PROVE  \E i \in DOMAIN later : later[i].length - span.length \in 0 .. window
  <2>1. k \in DOMAIN later /\ later[k].length = Len(q.ids)
    BY <1>3, <1>8
  <2>2. PICK n \in 1 .. Len(segs) : q.ids = Prefix(segs, n)
    BY <1>8, <1>9 DEF Rung
  <2>3. Len(q.ids) = n
    BY <1>5, <2>2 DEF Prefix
  <2>4. n - m \in 0 .. window
    BY <1>0, <1>5, <1>19, <2>3
  <2> QED
    BY <1>16, <2>1, <2>3, <2>4
<1>20. Prefix(Last(later).ids, span.length) = span.ids
  <2>1. Last(later).ids = Prefix(segs, l)
    BY <1>3, <1>11, <1>12
  <2>2. SubSeq(SubSeq(segs, 1, l), 1, m) = SubSeq(segs, 1, m)
    BY <1>5, <1>14
  <2> QED
    BY <1>6, <1>16, <2>1, <2>2 DEF Prefix
<1>21. SpanIsReusableBy(span, later, window, Minimum[reader.scope])
  <2>1. span.tokens >= Minimum[reader.scope]
    BY <1>0, <1>7, <1>16
  <2> QED
    BY <1>17, <1>18, <1>19, <1>20, <2>1 DEF SpanIsReusableBy
<1> QED
  BY <1>1, <1>16, <1>21 DEF Reuses

LEMMA HitsCanBeReused ==
  ASSUME Inv, ReadInv
  PROVE  HitsAreReusable
<1> SUFFICES ASSUME arm.order = <<>>, NEW n \in Hits,
                    NEW reader, reader = Billed(n).shape,
                    NEW window, window = IF arm.lookback THEN Lookback[reader.scope] ELSE Unknown
             PROVE  \E i \in 1 .. priced[n] - 1 :
                      /\ trace[i].shape.scope = reader.scope
                      /\ \E span \in ToSet(MarkedSpans(trace[i].shape)) :
                           /\ span.ids = ReadPrefix(n)
                           /\ SpanIsReusableBy(span, MarkedSpans(reader), window,
                                               Minimum[reader.scope])
  BY Zenon DEF HitsAreReusable
<1>1. PICK ids, wire : ids = ReadPrefix(n) /\ wire = WireIds[arm][reader]
  OBVIOUS
<1>2. n \in DOMAIN usages /\ n \in 1 .. Len(usages) /\ usages[n].read > 0 /\ arm \in Arms
  BY DEF Hits, Inv, InStep
<1>3. Caches(reader)
  BY <1>2 DEF ReadInv, ReadAt
<1>4. PICK m \in 1 .. Len(wire) : usages[n].read = Tokens(Prefix(wire, m)) /\ Reachable(reader, m)
  BY <1>1, <1>2 DEF ReadInv, ReadAt
<1>5. reader \in Modelled[arm]
  BY <1>3, Zenon DEF Caches
<1>6. reader \in Shapes
  BY <1>2, <1>5, EntriesAreLadder
<1>7. wire \in Seq(Segments)
  BY <1>1, <1>2, <1>6, WireIsOfSegments
<1>8. ids = Prefix(wire, m)
  <2>1. ids = Prefix(wire, CHOOSE k \in DOMAIN wire : Tokens(Prefix(wire, k)) = usages[n].read)
    BY <1>1, Zenon DEF ReadPrefix
  <2> QED
    BY <1>4, <1>7, <2>1, PrefixIsTold
<1>9. PICK i \in 1 .. priced[n] - 1 : Kept(i, n, ids)
  BY <1>1, <1>2 DEF Inv, HitsWereWritten, Hits
<1>10. PICK writer : writer = trace[i].shape
  OBVIOUS
<1>11. /\ writer.scope = reader.scope /\ Caches(writer)
       /\ \E p \in ToSet(Entries[arm][writer]) : p.ids = ids
  BY <1>9, <1>10 DEF Kept, Marking
<1>12. PICK p \in ToSet(Entries[arm][writer]) : p.ids = ids
  BY <1>11
<1>13. writer \in Modelled[arm]
  BY <1>11, Zenon DEF Caches
<1>14. PICK q \in ToSet(Entries[arm][reader]) :
         /\ Len(q.ids) >= m
         /\ arm.lookback /\ Lookback[reader.scope] # Unknown
              => Len(q.ids) - m <= Lookback[reader.scope]
  BY <1>4 DEF Reachable
<1>15. ASSUME window # Unknown PROVE window \in Nat /\ Len(q.ids) - m <= window
  <2>1. arm.lookback /\ window = Lookback[reader.scope]
    BY <1>15
  <2>2. reader.scope \in Scopes
    BY <1>6, ReplayAssumption
  <2>3. window \in (Nat \ {0}) \cup {Unknown}
    BY <2>1, <2>2, ReplayAssumption
  <2> QED
    BY <1>14, <1>15, <2>1, <2>3
<1>16. Reaches(arm, reader, m, q, window, writer, p)
  <2>1. m \in 1 .. Len(WireIds[arm][reader]) /\ p.ids = Prefix(WireIds[arm][reader], m)
    BY <1>1, <1>8, <1>12
  <2> QED
    BY <1>2, <1>5, <1>11, <1>12, <1>13, <1>14, <1>15, <2>1, Zenon DEF Reaches
<1>17. Reuses(reader, window, writer, p)
  BY <1>16, MarkedIsReusable
<1> QED
  BY <1>1, <1>10, <1>11, <1>12, <1>17 DEF Reuses

\* What simulate reads in the order of the trace, trace.py's findings would call
\* reusable: for any trace, arm and registry the two agree on the minimum, the
\* lookback and the prefix.
THEOREM ReadsAreReusable == Spec => []HitsAreReusable
<1>1. Init => Inv /\ ReadInv
  <2>1. Init => ReadInv
    BY DEF Init, ReadInv
  <2> QED
    BY <2>1, ReplayStarts
<1>2. Inv /\ ReadInv /\ [Next]_vars => (Inv /\ ReadInv)'
  <2> SUFFICES ASSUME Inv, ReadInv, [Next]_vars PROVE ReadInv'
    BY ReplaySteps
  <2>1. CASE Next
    <3>1. PICK shape \in Shapes, gap \in Gaps :
            Replayed(Sent(shape, gap)) /\ trace' = Append(trace, Sent(shape, gap))
      BY <2>1 DEF Next
    <3>2. arm' = arm
      BY <2>1 DEF Next
    <3>3. Sent(shape, gap) \in Row
      BY SentIsRow DEF Inv
    <3>4. Bills(Sent(shape, gap))
      BY <3>1, <3>3, ReplayedBills DEF Inv
    <3> QED
      BY <3>1, <3>2, <3>3, <3>4, ReadSteps DEF Appends, Inv
  <2>2. CASE UNCHANGED vars
    <3>1. arm' = arm /\ trace' = trace /\ usages' = usages /\ priced' = priced
      BY <2>2 DEF vars
    <3> QED
      BY <3>1, Zenon DEF ReadInv, ReadAt, Billed, Caches, Reachable
  <2> QED
    BY <2>1, <2>2
<1>3. Inv /\ ReadInv => HitsAreReusable
  BY HitsCanBeReused
<1> QED
  BY <1>1, <1>2, <1>3, PTL DEF Spec

-----------------------------------------------------------------------------
\* t has what the first n members of s have of the set.
HasThem(t, s, set, n) ==
  \A k \in 1 .. n : s[k] \in set => \E p \in 1 .. Len(t) : t[p] = s[k]

\* What is picked out of a sequence is all there was of the set.
LEMMA AmongHasThem ==
  ASSUME NEW S, NEW s \in Seq(S), NEW set
  PROVE  HasThem(Among(s, set), s, set, Len(s))
<1>1. Len(s) \in Nat
  OBVIOUS
<1>2. \E f : IsAmong(f, s, set, Len(s))
  BY <1>1, AmongExists
<1>3. Among(s, set) = (CHOOSE f : IsAmong(f, s, set, Len(s)))[Len(s)]
  BY Zenon DEF Among, IsAmong, Picked
<1>4. PICK f : IsAmong(f, s, set, Len(s)) /\ Among(s, set) = f[Len(s)]
  BY <1>2, <1>3
<1> DEFINE Reached == {n \in 0 .. Len(s) : f[n] \in Seq(S) /\ HasThem(f[n], s, set, n)}
<1>5. 0 \in Reached
  <2>1. f[0] = <<>>
    BY <1>1, <1>4 DEF IsAmong
  <2>2. <<>> \in Seq(S) /\ HasThem(<<>>, s, set, 0) /\ 0 \in 0 .. Len(s)
    BY <1>1 DEF HasThem
  <2> QED
    BY <2>1, <2>2
<1>6. ASSUME NEW n \in 0 .. Len(s) - 1, n \in Reached PROVE n + 1 \in Reached
  <2>1. f[n + 1] = f[n] \o Picked(s, set, n + 1)
    <3>1. n + 1 \in 0 .. Len(s) /\ n + 1 # 0 /\ (n + 1) - 1 = n
      BY <1>1
    <3>2. f = [j \in 0 .. Len(s) |-> IF j = 0 THEN <<>> ELSE f[j - 1] \o Picked(s, set, j)]
      BY <1>4 DEF IsAmong
    <3>3. f[n + 1] = IF n + 1 = 0 THEN <<>> ELSE f[(n + 1) - 1] \o Picked(s, set, n + 1)
      BY <3>1, <3>2, Zenon
    <3> QED
      BY <3>1, <3>3
  <2>2. f[n] \in Seq(S) /\ HasThem(f[n], s, set, n) /\ n + 1 \in 0 .. Len(s) /\ s[n + 1] \in S
    BY <1>1, <1>6
  <2>3. PICK t : t = f[n]
    OBVIOUS
  <2>4. PICK more : more = t \o Picked(s, set, n + 1)
    OBVIOUS
  <2>5. more \in Seq(S) /\ HasThem(more, s, set, n + 1)
    <3>1. CASE s[n + 1] \in set
      <4>1. more = t \o <<s[n + 1]>>
        BY <2>4, <3>1 DEF Picked
      <4>2. /\ more \in Seq(S) /\ Len(more) = Len(t) + 1 /\ more[Len(t) + 1] = s[n + 1]
            /\ \A p \in 1 .. Len(t) : more[p] = t[p]
        BY <2>2, <2>3, <4>1
      <4> QED
        BY <2>2, <2>3, <4>2 DEF HasThem
    <3>2. CASE s[n + 1] \notin set
      <4>1. more = t
        BY <2>2, <2>3, <2>4, <3>2 DEF Picked
      <4> QED
        BY <2>2, <2>3, <3>2, <4>1 DEF HasThem
    <3> QED
      BY <3>1, <3>2
  <2>6. f[n + 1] \in Seq(S) /\ HasThem(f[n + 1], s, set, n + 1)
    BY <2>1, <2>3, <2>4, <2>5
  <2> QED
    BY <2>2, <2>6
<1>7. 0 .. Len(s) \subseteq Reached
  <2> HIDE DEF Reached
  <2> QED BY <1>1, <1>5, <1>6, UpToInduction
<1> QED
  BY <1>1, <1>4, <1>7

-----------------------------------------------------------------------------
(* What the finding on lifetimes credits.                                         *)

\* Requests are billed in the order they were sent, and only those that cache write.
CreditInv ==
  /\ \A k \in 1 .. Len(trace) : \A j \in 1 .. k : trace[j].sent <= trace[k].sent
  /\ \A n \in 1 .. Len(priced) : \A i \in 1 .. n - 1 : priced[i] < priced[n]
  /\ \A n \in 1 .. Len(usages) : usages[n].write5m > 0 => Caches(Billed(n).shape)

LEMMA CreditSteps ==
  ASSUME InStep, CreditInv, NEW r \in Row, Appends(r), Bills(r),
         \A k \in 1 .. Len(trace) : trace[k].sent <= r.sent
  PROVE  CreditInv'
<1>1. /\ DOMAIN usages = 1 .. Len(usages) /\ DOMAIN priced = 1 .. Len(usages)
      /\ Len(usages) \in Nat /\ Len(trace) \in Nat /\ arm \in Arms /\ arm' = arm
      /\ \A n \in 1 .. Len(usages) : priced[n] \in 1 .. Len(trace)
      /\ \A i \in 1 .. Len(trace) : trace'[i] = trace[i]
      /\ trace'[Len(trace) + 1] = r /\ Len(trace') = Len(trace) + 1
      /\ Len(priced) = Len(usages)
  BY Appending, PastStays, SMTT(30) DEF InStep, Appends
<1>2. \A k \in 1 .. Len(trace') : \A j \in 1 .. k : trace'[j].sent <= trace'[k].sent
  <2>1. ASSUME NEW k \in 1 .. Len(trace'), NEW j \in 1 .. k PROVE trace'[j].sent <= trace'[k].sent
    <3>1. CASE k \in 1 .. Len(trace)
      BY <1>1, <3>1 DEF CreditInv
    <3>2. CASE k = Len(trace) + 1 /\ j = k
      BY <1>1, <3>2 DEF Row
    <3>3. CASE k = Len(trace) + 1 /\ j \in 1 .. Len(trace)
      BY <1>1, <3>3
    <3> QED
      BY <1>1, <3>1, <3>2, <3>3
  <2> QED
    BY <2>1
<1>3. ASSUME NEW n \in 1 .. Len(usages), priced'[n] = priced[n], usages'[n] = usages[n]
      PROVE  usages'[n].write5m > 0 => Caches(Billed(n).shape)'
  <2>1. Billed(n)' = Billed(n)
    BY <1>1, <1>3 DEF Billed
  <2>2. usages[n].write5m > 0 => Caches(Billed(n).shape)
    BY DEF CreditInv
  <2> QED
    BY <1>1, <1>3, <2>1, <2>2, Zenon DEF Caches
<1>4. CASE UNCHANGED <<usages, priced>>
  <2>1. \A n \in 1 .. Len(usages') : usages'[n].write5m > 0 => Caches(Billed(n).shape)'
    BY <1>3, <1>4
  <2>2. \A n \in 1 .. Len(priced') : \A i \in 1 .. n - 1 : priced'[i] < priced'[n]
    BY <1>4 DEF CreditInv
  <2> QED
    BY <1>2, <2>1, <2>2 DEF CreditInv
<1>5. ASSUME NEW u, Bill(u),
             IF Caches(r.shape) THEN u = Usage(r) ELSE u.read = 0 /\ u.write5m = 0
      PROVE  CreditInv'
  <2>1. /\ Len(usages') = Len(usages) + 1 /\ usages'[Len(usages) + 1] = u
        /\ \A k \in 1 .. Len(usages) : usages'[k] = usages[k]
    BY <1>5, AppendedSequence DEF InStep, Bill
  <2>2. /\ priced'[Len(usages) + 1] = Len(trace) + 1 /\ Len(priced') = Len(usages) + 1
        /\ \A k \in 1 .. Len(usages) : priced'[k] = priced[k]
    BY <1>5 DEF InStep, Bill
  <2>3. \A n \in 1 .. Len(priced') : \A i \in 1 .. n - 1 : priced'[i] < priced'[n]
    <3>1. ASSUME NEW n \in 1 .. Len(priced'), NEW i \in 1 .. n - 1 PROVE priced'[i] < priced'[n]
      <4>1. CASE n \in 1 .. Len(usages)
        <5>1. priced[i] < priced[n]
          BY <1>1, <4>1 DEF CreditInv
        <5> QED
          BY <1>1, <2>2, <4>1, <5>1
      <4>2. CASE n = Len(usages) + 1
        BY <1>1, <2>2, <4>2
      <4>3. n \in 1 .. Len(usages) \/ n = Len(usages) + 1
        BY <1>1, <2>2
      <4> QED
        BY <4>1, <4>2, <4>3
    <3> QED
      BY <3>1
  <2>4. ASSUME NEW n, n = Len(usages) + 1, u.write5m > 0 PROVE Caches(Billed(n).shape)'
    <3>1. Billed(n)' = r
      BY <1>1, <2>2, <2>4 DEF Billed
    <3>2. Caches(r.shape)
      BY <1>5, <2>4
    <3> QED
      BY <1>1, <3>1, <3>2, Zenon DEF Caches
  <2>5. \A n \in 1 .. Len(usages') : usages'[n].write5m > 0 => Caches(Billed(n).shape)'
    <3>1. ASSUME NEW n \in 1 .. Len(usages'), usages'[n].write5m > 0
          PROVE  Caches(Billed(n).shape)'
      <4>1. n \in 1 .. Len(usages) \/ n = Len(usages) + 1
        BY <1>1, <2>1
      <4> QED
        BY <1>3, <2>1, <2>2, <2>4, <3>1, <4>1
    <3> QED
      BY <3>1
  <2> QED
    BY <1>2, <2>3, <2>5 DEF CreditInv
<1> QED
  BY <1>4, <1>5 DEF Bills

LEMMA SentInOrder ==
  ASSUME InStep, CreditInv, NEW shape \in Shapes, NEW gap \in Gaps
  PROVE  \A k \in 1 .. Len(trace) : trace[k].sent <= Sent(shape, gap).sent
<1>1. gap \in Nat /\ trace \in Seq(Row) /\ Len(trace) \in Nat
  BY ReplayAssumption DEF InStep
<1> SUFFICES ASSUME NEW k \in 1 .. Len(trace) PROVE trace[k].sent <= Sent(shape, gap).sent
  OBVIOUS
<1>2. PICK last : last = Len(trace)
  OBVIOUS
<1>3. /\ trace[k].sent <= trace[last].sent /\ trace[k].sent \in Nat /\ trace[last].sent \in Nat
      /\ trace # <<>>
  <2>1. k \in 1 .. last /\ last \in 1 .. Len(trace)
    BY <1>1, <1>2
  <2>2. trace[k].sent <= trace[last].sent
    BY <2>1 DEF CreditInv
  <2>3. trace[k] \in Row /\ trace[last] \in Row /\ trace # <<>>
    BY <1>1, <1>2, <2>1
  <2> QED
    BY <2>2, <2>3 DEF Row
<1>4. Sent(shape, gap).sent = gap + trace[last].sent
  BY <1>1, <1>2, <1>3 DEF Sent, Last
<1> QED
  BY <1>1, <1>3, <1>4


\* Every span of the plan that is long enough is an entry, where the window is not
\* enforced.
LEMMA EnoughIsEntry ==
  ASSUME NEW a \in Arms, ~ a.lookback, NEW s \in Modelled[a],
         NEW j \in 1 .. Len(PlanPrefixes(a, s)),
         PlanPrefixes(a, s)[j].tokens >= Minimum[s.scope]
  PROVE  PlanPrefixes(a, s)[j] \in ToSet(Entries[a][s])
<1>1. PICK plan, enough : /\ plan = PlanPrefixes(a, s)
                          /\ enough = {p \in Candidate : p.tokens >= Minimum[s.scope]}
  OBVIOUS
<1>2. s \in Shapes /\ Entries[a][s] = Cacheable(a, s)
  <2>1. s \in Shapes
    BY EntriesAreLadder
  <2>2. Entries[a][s] = IF a.lookback /\ Lookback[s.scope] # Unknown
                        THEN WithinWindow(Cacheable(a, s), Lookback[s.scope])
                        ELSE Cacheable(a, s)
    BY Zenon DEF Entries
  <2> QED
    BY <2>1, <2>2
<1>3. Entries[a][s] = Among(plan, enough)
  BY <1>1, <1>2 DEF Cacheable
<1>4. PICK S : plan \in Seq(S)
  BY <1>1, <1>2, PlanIsLadder
<1>5. plan[j] \in Candidate
  <2> DEFINE W == Emission(s, a.order)
             C == Among([p \in DOMAIN W |-> p], {p \in DOMAIN W : W[p] \in DOMAIN s.marks})
             I == WireIds[a][s]
  <2>1. plan = [i \in DOMAIN C |-> [ids    |-> Prefix(I, C[i]), tokens |-> Tokens(Prefix(I, C[i])),
                                    ttl    |-> s.marks[W[C[i]]]]]
    BY <1>1, Zenon DEF PlanPrefixes
  <2>2. I \in Seq(Segments) /\ W \in Seq(DOMAIN s.segs)
    BY <1>2, EmissionIs, WireIsOfSegments
  <2>3. [p \in DOMAIN W |-> p] \in Seq(DOMAIN W)
    <3>1. DOMAIN W = 1 .. Len(W) /\ Len(W) \in Nat
      BY <2>2
    <3> HIDE DEF W
    <3> QED
      BY <3>1
  <2>4. C \in Seq({p \in DOMAIN W : W[p] \in DOMAIN s.marks})
    BY <2>3, AmongIsOfThem
  <2> HIDE DEF C, I, W
  <2>5. j \in 1 .. Len(plan) /\ DOMAIN plan = 1 .. Len(plan)
    BY <1>1, <1>4
  <2>6. j \in DOMAIN C /\ C[j] \in DOMAIN W /\ W[C[j]] \in DOMAIN s.marks
    BY <2>1, <2>4, <2>5
  <2>7. PICK ids, tokens, ttl, c : /\ c = C[j] /\ ids = Prefix(I, c) /\ tokens = Tokens(ids)
                                   /\ ttl = s.marks[W[c]]
    OBVIOUS
  <2>8. plan[j] = [ids |-> ids, tokens |-> tokens, ttl |-> ttl]
    BY <2>1, <2>6, <2>7
  <2>9. ttl \in STRING
    BY <1>2, <2>6, <2>7, MarksAssumption
  <2>10. PICK n \in 1 .. Len(I) : plan[j].ids = Prefix(I, n)
    BY <1>1, <1>2, <2>5, PlanIsLadder DEF Ladder, Rung, I
  <2>11. ids = Prefix(I, n)
    BY <2>8, <2>10
  <2>12. ids \in Seq(Segments)
    BY <2>2, <2>11 DEF Prefix
  <2>13. tokens \in Nat
    <3>1. n \in 0 .. Len(I)
      OBVIOUS
    <3> QED
      BY <2>2, <2>7, <2>11, <3>1, LongerIsMore
  <2> QED
    BY <2>8, <2>9, <2>12, <2>13 DEF Candidate
<1>6. plan[j] \in enough
  BY <1>1, <1>5
<1>7. PICK t : t = Among(plan, enough)
  OBVIOUS
<1>8. t \in Seq(enough) /\ HasThem(t, plan, enough, Len(plan))
  BY <1>4, <1>7, AmongIsOfThem, AmongHasThem
<1>9. PICK p \in 1 .. Len(t) : t[p] = plan[j]
  BY <1>1, <1>6, <1>8 DEF HasThem
<1>10. p \in DOMAIN t
  BY <1>8, <1>9
<1> QED
  BY <1>1, <1>3, <1>7, <1>9, <1>10 DEF ToSet


\* The findings call a span of the writer reusable by the reader.
SpanReused(a, reader, window, writer, span) ==
  /\ a \in Arms /\ a.order = <<>> /\ ~ a.lookback
  /\ writer \in Modelled[a] /\ reader \in Modelled[a] /\ writer.scope = reader.scope
  /\ Minimum[reader.scope] # Unknown
  /\ span \in ToSet(MarkedSpans(writer))
  /\ SpanIsReusableBy(span, MarkedSpans(reader), window, Minimum[reader.scope])

\* The writer's marker and the reader's that the replay would match.
SpanMatched(a, reader, writer, span) ==
  /\ WireIds[a][reader] \in Seq(Segments)
  /\ \E m \in 1 .. Len(WireIds[a][reader]) :
       /\ span.ids = Prefix(WireIds[a][reader], m)
       /\ span.tokens = Tokens(Prefix(WireIds[a][reader], m))
       /\ \E q \in ToSet(Entries[a][reader]) : Len(q.ids) >= m
  /\ \E p \in ToSet(Entries[a][writer]) : p.ids = span.ids

LEMMA SpanIsMarked ==
  ASSUME NEW a, NEW reader, NEW window, NEW writer, NEW span,
         SpanReused(a, reader, window, writer, span)
  PROVE  SpanMatched(a, reader, writer, span)
<1>0. /\ a \in Arms /\ a.order = <<>> /\ ~ a.lookback
      /\ writer \in Modelled[a] /\ reader \in Modelled[a] /\ writer.scope = reader.scope
      /\ Minimum[reader.scope] # Unknown
      /\ span \in ToSet(MarkedSpans(writer))
      /\ SpanIsReusableBy(span, MarkedSpans(reader), window, Minimum[reader.scope])
  BY Zenon DEF SpanReused
<1>1. PICK segs, own, later, spans, plan, drawn :
        /\ segs = reader.segs /\ own = writer.segs
        /\ later = MarkedSpans(reader) /\ spans = MarkedSpans(writer)
        /\ plan = PlanPrefixes(a, reader) /\ drawn = PlanPrefixes(a, writer)
  OBVIOUS
<1>2. reader \in Shapes /\ writer \in Shapes
  BY <1>0, EntriesAreLadder
<1>3. /\ WireIds[a][reader] = segs
      /\ Len(later) = Len(plan) /\ DOMAIN later = 1 .. Len(plan)
      /\ \A i \in 1 .. Len(plan) : /\ later[i].ids = plan[i].ids
                                   /\ later[i].length = Len(plan[i].ids)
  BY <1>0, <1>1, <1>2, SpansAreThePlan
<1>4. /\ WireIds[a][writer] = own
      /\ DOMAIN spans = 1 .. Len(drawn)
      /\ \A i \in 1 .. Len(drawn) : /\ spans[i].ids = drawn[i].ids
                                    /\ spans[i].tokens = drawn[i].tokens
                                    /\ spans[i].length = Len(drawn[i].ids)
  BY <1>0, <1>1, <1>2, SpansAreThePlan
<1>5. /\ segs \in Seq(Segments) /\ Len(segs) \in Nat
      /\ own \in Seq(Segments) /\ Len(own) \in Nat
  BY <1>1, <1>2, ReplayAssumption
<1>6. /\ Len(plan) \in Nat
      /\ \A i \in 1 .. Len(plan) : Rung(plan[i], segs)
  BY <1>0, <1>1, <1>2, <1>3, PlanIsLadder DEF Ladder
<1>7. /\ Len(drawn) \in Nat
      /\ \A i \in 1 .. Len(drawn) : Rung(drawn[i], own)
  BY <1>0, <1>1, <1>2, <1>4, PlanIsLadder DEF Ladder
<1>8. /\ later # <<>>
      /\ span.length <= Last(later).length
      /\ span.tokens >= Minimum[reader.scope]
      /\ Prefix(Last(later).ids, span.length) = span.ids
  BY <1>0, <1>1 DEF SpanIsReusableBy
<1>9. PICK j \in 1 .. Len(drawn) : span = spans[j]
  BY <1>0, <1>1, <1>4 DEF ToSet
<1>10. PICK m \in 1 .. Len(own) : /\ drawn[j].ids = Prefix(own, m)
                                  /\ drawn[j].tokens = Tokens(Prefix(own, m))
  BY <1>7 DEF Rung
<1>11. Len(Prefix(own, m)) = m
  BY <1>5 DEF Prefix
<1>12. /\ span.length = m /\ span.ids = Prefix(own, m) /\ span.tokens = Tokens(Prefix(own, m))
       /\ drawn[j].tokens >= Minimum[writer.scope]
  BY <1>0, <1>4, <1>8, <1>9, <1>10, <1>11
<1>13. drawn[j] \in ToSet(Entries[a][writer]) /\ drawn[j].ids = span.ids
  <2>1. drawn[j] \in ToSet(Entries[a][writer])
    BY <1>0, <1>1, <1>9, <1>12, EnoughIsEntry
  <2> QED
    BY <1>10, <1>12, <2>1
<1>14. PICK z : z = Len(plan)
  OBVIOUS
<1>15. z \in 1 .. Len(plan) /\ Last(later) = later[z]
  <2>1. Len(plan) # 0
    <3> SUFFICES ASSUME Len(plan) = 0 PROVE FALSE
      OBVIOUS
    <3>1. later \in Seq(Range(later)) /\ Len(later) = 0
      <4>1. later = [i \in DOMAIN later |-> later[i]]
        <5>1. PICK c : later = [i \in DOMAIN c |-> [length |-> c[i],
                                    tokens |-> Tokens(Prefix(segs, c[i])),
                                    ids |-> Prefix(segs, c[i])]]
          BY <1>1, Zenon DEF MarkedSpans
        <5> QED
          BY <5>1
      <4> QED
        BY <1>3, <4>1 DEF Range
    <3> QED
      BY <1>8, <3>1
  <2> QED
    BY <1>3, <1>6, <1>14, <2>1 DEF Last
<1>16. PICK l \in 1 .. Len(segs) : /\ plan[z].ids = Prefix(segs, l)
                                   /\ plan[z].tokens = Tokens(Prefix(segs, l))
  BY <1>6, <1>15 DEF Rung
<1>17. Len(plan[z].ids) = l
  BY <1>5, <1>16 DEF Prefix
<1>18. m <= l /\ m \in 1 .. Len(segs)
  BY <1>3, <1>5, <1>8, <1>12, <1>15, <1>17
<1>19. span.ids = Prefix(segs, m)
  <2>1. Last(later).ids = Prefix(segs, l)
    BY <1>3, <1>15, <1>16
  <2>2. SubSeq(SubSeq(segs, 1, l), 1, m) = SubSeq(segs, 1, m)
    BY <1>5, <1>18
  <2> QED
    BY <1>8, <1>12, <2>1, <2>2 DEF Prefix
<1>20. span.tokens = Tokens(Prefix(segs, m))
  BY <1>12, <1>19
<1>21. plan[z].tokens >= Minimum[reader.scope]
  <2>1. PICK least, fewer, more : /\ least = Minimum[reader.scope]
                                  /\ fewer = Tokens(Prefix(segs, m))
                                  /\ more = Tokens(Prefix(segs, l))
    OBVIOUS
  <2>2. least \in Nat
    BY <1>0, <1>2, <2>1, ReplayAssumption
  <2>3. fewer \in Nat /\ more \in Nat /\ fewer <= more
    <3>1. l \in 0 .. Len(segs) /\ m \in 0 .. Len(segs) /\ (m \in 0 .. l - 1 \/ m = l)
      BY <1>18
    <3>2. fewer \in Nat /\ more \in Nat /\ (m \in 0 .. l - 1 => fewer < more)
      BY <1>5, <2>1, <3>1, LongerIsMore
    <3> QED
      BY <2>1, <3>1, <3>2
  <2>4. fewer >= least
    BY <1>8, <1>20, <2>1
  <2> QED
    BY <1>16, <2>1, <2>2, <2>3, <2>4
<1>22. plan[z] \in ToSet(Entries[a][reader])
  BY <1>0, <1>1, <1>15, <1>21, EnoughIsEntry
<1>23. Len(plan[z].ids) >= m
  BY <1>17, <1>18
<1> QED
  BY <1>3, <1>5, <1>13, <1>18, <1>19, <1>20, <1>22, <1>23 DEF SpanMatched


\* A request's own marks a while ago, with markings in between, last for an hour.
LEMMA HourIsKept ==
  ASSUME InStep, CreditInv, NEW n \in 1 .. Len(priced), NEW ids,
         NEW i \in Marking(n, ids), VisibleAt(trace[i]) <= Billed(n).sent,
         Billed(n).sent - trace[i].sent < OneHour
  PROVE  KeptForAnHour(i, n, ids)
<1>1. PICK M, k : M = Marking(n, ids) /\ k = priced[n]
  OBVIOUS
<1>2. k \in 1 .. Len(trace) /\ Len(trace) \in Nat /\ OneHour \in Nat /\ Billed(n) = trace[k]
  <2>1. DOMAIN priced = 1 .. Len(priced)
    BY DEF InStep
  <2> QED
    BY <1>1, <2>1, ReplayAssumption DEF InStep, OneHour, Billed
<1>3. M \in SUBSET (1 .. k - 1) /\ i \in M
  BY <1>1 DEF Marking
<1>4. \A j \in 1 .. Len(trace) : trace[j].sent \in Nat
  <2>1. \A j \in 1 .. Len(trace) : trace[j] \in Row
    BY <1>2 DEF InStep
  <2> QED
    BY <2>1 DEF Row
<1>5. ASSUME NEW t \in {j \in M : j > i} \cup {k}
      PROVE  trace[t].sent < trace[Max({j \in M : j < t})].sent + OneHour
  <2>1. PICK before, last : before = {j \in M : j < t} /\ last = Max(before)
    OBVIOUS
  <2>2. t \in 1 .. k /\ i < t
    BY <1>2, <1>3, <1>5
  <2>3. before \in SUBSET (0 .. k) /\ i \in before /\ before # {}
    <3>1. i \in before
      BY <1>3, <2>1, <2>2
    <3>2. 1 .. k - 1 \subseteq 0 .. k
      BY <1>2
    <3>3. before \subseteq M
      BY <2>1
    <3> QED
      BY <1>3, <3>1, <3>2, <3>3
  <2>4. last \in before /\ i <= last
    <3>1. k \in Nat
      BY <1>2
    <3>2. Max(before) \in before /\ \A y \in before : y <= Max(before)
      BY <2>3, <3>1, MaxOfBounded
    <3> QED
      BY <2>1, <2>3, <3>2
  <2>5. last \in 1 .. k /\ i \in 1 .. last /\ last \in 1 .. Len(trace) /\ k \in 1 .. Len(trace)
        /\ t \in 1 .. k /\ i \in 1 .. Len(trace) /\ t \in 1 .. Len(trace)
    BY <1>2, <1>3, <2>1, <2>2, <2>4
  <2>6. trace[i].sent <= trace[last].sent /\ trace[t].sent <= trace[k].sent
    BY <2>5 DEF CreditInv
  <2>7. trace[k].sent - trace[i].sent < OneHour
    BY <1>2
  <2>8. PICK a, b, c, d : /\ a = trace[i].sent /\ b = trace[last].sent
                          /\ c = trace[t].sent /\ d = trace[k].sent
    OBVIOUS
  <2>9. a \in Nat /\ b \in Nat /\ c \in Nat /\ d \in Nat
    BY <1>4, <2>5, <2>8
  <2>10. c < b + OneHour
    <3>1. a <= b /\ c <= d
      BY <2>6, <2>8
    <3>2. d - a < OneHour
      BY <2>7, <2>8
    <3> QED
      BY <1>2, <2>9, <3>1, <3>2
  <2> QED
    BY <2>1, <2>8, <2>10
<1>6. VisibleAt(trace[i]) <= Billed(n).sent
  OBVIOUS
<1>7. \A t \in {j \in M : j > i} \cup {k} :
        trace[t].sent < trace[Max({j \in M : j < t})].sent + OneHour
  BY <1>5
<1> QED
  BY <1>1, <1>3, <1>6, <1>7, Zenon DEF KeptForAnHour

LEMMA CreditedIsRead ==
  ASSUME InStep, CreditInv, ResponsesBegin, arm.order = <<>>, ~ arm.lookback,
         NEW n \in Credited, NEW i \in Matches(n), NEW span \in LongestReusable(i, n)
  PROVE  ReadWithAnHour(n) >= span.tokens
<1>1. /\ DOMAIN usages = 1 .. Len(usages) /\ DOMAIN priced = 1 .. Len(usages)
      /\ Len(usages) \in Nat /\ Len(trace) \in Nat /\ arm \in Arms
      /\ \A k \in 1 .. Len(usages) : priced[k] \in 1 .. Len(trace)
      /\ Len(priced) = Len(usages)
  BY DEF InStep
<1>2. n \in Writes /\ i \in Writes /\ i < n /\ Scope(i) = Scope(n)
  BY DEF Credited, Matches
<1>3. n \in 1 .. Len(usages) /\ i \in 1 .. n - 1 /\ i \in 1 .. Len(usages)
      /\ usages[n].write5m > 0 /\ usages[i].write5m > 0
  BY <1>1, <1>2 DEF Writes
<1>4. InBand(GapTo(i, n))
  <2>1. PICK j \in Matches(n) : InBand(GapTo(j, n))
    BY DEF Credited
  <2>2. i <= j /\ j <= i
    BY <2>1 DEF Matches
  <2>3. j \in 1 .. Len(usages)
    BY <1>1, <2>1 DEF Matches, Writes
  <2>4. i = j
    BY <1>1, <1>3, <2>2, <2>3
  <2> QED
    BY <2>1, <2>4
<1>5. PICK reader, writer, k, l : /\ reader = Billed(n).shape /\ writer = Billed(i).shape
                                  /\ k = priced[n] /\ l = priced[i]
  OBVIOUS
<1>6. /\ Billed(n) = trace[k] /\ Billed(i) = trace[l]
      /\ k \in 1 .. Len(trace) /\ l \in 1 .. k - 1 /\ l \in 1 .. Len(trace)
      /\ trace[k] \in Row /\ trace[l] \in Row
  <2>1. priced[i] < priced[n]
    BY <1>1, <1>3 DEF CreditInv
  <2>2. k \in 1 .. Len(trace) /\ l \in 1 .. Len(trace)
    BY <1>1, <1>3, <1>5
  <2>3. l \in 1 .. k - 1
    BY <1>1, <1>5, <2>1, <2>2
  <2>4. trace[k] \in Row /\ trace[l] \in Row
    BY <2>2 DEF InStep
  <2> QED
    BY <1>5, <2>2, <2>3, <2>4 DEF Billed
<1>7. Caches(reader) /\ Caches(writer) /\ writer.scope = reader.scope
  BY <1>2, <1>3, <1>5 DEF CreditInv, Scope
<1>8. reader \in Modelled[arm] /\ writer \in Modelled[arm] /\ reader \in Shapes
      /\ writer \in Shapes
  BY <1>5, <1>6, <1>7 DEF Caches, Row
<1>9. Minimum[reader.scope] # Unknown
  BY <1>1, <1>7, <1>8, OnlyServedCaches
<1>10. /\ span \in ToSet(MarkedSpans(writer))
       /\ SpanIsReusableBy(span, MarkedSpans(reader), Lookback[reader.scope],
                           Minimum[reader.scope])
  BY <1>5 DEF LongestReusable, Spans, Scope
<1>11. PICK wire : wire = WireIds[arm][reader]
  OBVIOUS
<1>12. /\ wire \in Seq(Segments)
       /\ \E m \in 1 .. Len(wire) :
            /\ span.ids = Prefix(wire, m) /\ span.tokens = Tokens(Prefix(wire, m))
            /\ \E q \in ToSet(Entries[arm][reader]) : Len(q.ids) >= m
       /\ \E p \in ToSet(Entries[arm][writer]) : p.ids = span.ids
  <2>1. PICK a, window : a = arm /\ window = Lookback[reader.scope]
    OBVIOUS
  <2>2. a \in Arms /\ a.order = <<>> /\ ~ a.lookback
    BY <1>1, <2>1
  <2>3. writer \in Modelled[a] /\ reader \in Modelled[a]
    BY <1>8, <2>1
  <2>4. SpanIsReusableBy(span, MarkedSpans(reader), window, Minimum[reader.scope])
    BY <1>10, <2>1
  <2>5. span \in ToSet(MarkedSpans(writer))
    BY <1>10
  <2>6. SpanReused(a, reader, window, writer, span)
    BY <1>7, <1>9, <2>2, <2>3, <2>4, <2>5, Zenon DEF SpanReused
  <2>7. SpanMatched(arm, reader, writer, span)
    BY <2>1, <2>6, SpanIsMarked
  <2> QED
    BY <1>11, <2>7 DEF SpanMatched
<1>13. PICK m \in 1 .. Len(wire) :
         /\ span.ids = Prefix(wire, m) /\ span.tokens = Tokens(Prefix(wire, m))
         /\ \E q \in ToSet(Entries[arm][reader]) : Len(q.ids) >= m
  BY <1>12
<1>14. Reachable(reader, m)
  BY <1>13 DEF Reachable
<1>15. l \in Marking(n, span.ids)
  <2>1. trace[l].shape.scope = Billed(n).shape.scope /\ Caches(trace[l].shape)
    BY <1>5, <1>6, <1>7
  <2>2. \E p \in ToSet(Entries[arm][trace[l].shape]) : p.ids = span.ids
    BY <1>5, <1>6, <1>12
  <2> QED
    BY <1>5, <1>6, <2>1, <2>2, Zenon DEF Marking
<1>16. VisibleAt(trace[l]) <= Billed(n).sent /\ Billed(n).sent - trace[l].sent < OneHour
  <2>1. PICK from, until, first, late :
          /\ from = trace[l].sent /\ until = trace[k].sent
          /\ first = (IF writer.firstAfter = Unknown THEN 0 ELSE writer.firstAfter)
          /\ late = arm.latency
    OBVIOUS
  <2>2. from \in Nat /\ until \in Nat
    BY <1>6, <2>1 DEF Row
  <2>3. first \in Nat /\ late \in Nat /\ FiveMinutes \in Nat /\ OneHour \in Nat
    <3>1. first \in Nat
      BY <1>8, <2>1, ReplayAssumption
    <3>2. late \in Nat
      BY <1>1, <2>1, ReplayAssumption DEF Arm
    <3> QED
      BY <3>1, <3>2, ReplayAssumption DEF FiveMinutes, OneHour
  <2>4. first + late <= FiveMinutes
    BY <1>1, <1>8, <2>1 DEF ResponsesBegin
  <2>5. FiveMinutes < until - from /\ until - from < OneHour
    BY <1>4, <1>6, <2>1 DEF InBand, GapTo
  <2>6. VisibleAt(trace[l]) = from + first + late
    BY <1>5, <1>6, <2>1 DEF VisibleAt
  <2>7. from + first + late <= until
    BY <2>2, <2>3, <2>4, <2>5
  <2> QED
    BY <1>6, <2>1, <2>5, <2>6, <2>7
<1>17. KeptForAnHour(l, n, Prefix(wire, m))
  BY <1>1, <1>3, <1>13, <1>15, <1>16, HourIsKept
<1> DEFINE found == {x \in DOMAIN wire :
                       /\ Reachable(Billed(n).shape, x)
                       /\ \E j \in 1 .. priced[n] - 1 : KeptForAnHour(j, n, Prefix(wire, x))}
           sizes == {0} \cup {Tokens(Prefix(wire, x)) : x \in found}
<1>18. ReadWithAnHour(n) = Max(sizes)
  BY <1>5, <1>11, Zenon DEF ReadWithAnHour
<1>19. m \in found
  <2>1. m \in DOMAIN wire
    BY <1>12
  <2>2. Reachable(Billed(n).shape, m)
    BY <1>5, <1>14
  <2>3. \E j \in 1 .. priced[n] - 1 : KeptForAnHour(j, n, Prefix(wire, m))
    BY <1>5, <1>6, <1>17
  <2> QED
    BY <2>1, <2>2, <2>3
<1>20. span.tokens \in sizes
  BY <1>13, <1>19
<1>21. PICK most : most = Tokens(Prefix(wire, Len(wire)))
  OBVIOUS
<1>22. most \in Nat /\ sizes \in SUBSET (0 .. most)
  <2>1. Len(wire) \in 0 .. Len(wire) /\ Len(wire) \in Nat /\ DOMAIN wire = 1 .. Len(wire)
    BY <1>12
  <2>2. /\ most \in Nat
        /\ \A x \in 0 .. Len(wire) - 1 : Tokens(Prefix(wire, x)) < most
    BY <1>12, <1>21, <2>1, LongerIsMore
  <2>3. ASSUME NEW x \in found PROVE Tokens(Prefix(wire, x)) \in 0 .. most
    <3>1. PICK size : size = Tokens(Prefix(wire, x))
      OBVIOUS
    <3>2. x \in 0 .. Len(wire) /\ (x \in 0 .. Len(wire) - 1 \/ x = Len(wire))
      BY <2>1
    <3>3. size \in Nat
      BY <1>12, <3>1, <3>2, LongerIsMore
    <3>4. size <= most
      BY <1>21, <2>2, <3>1, <3>2, <3>3
    <3> QED
      BY <2>2, <3>1, <3>3, <3>4
  <2> HIDE DEF found
  <2> QED
    BY <2>2, <2>3
<1> HIDE DEF found, sizes
<1>23. span.tokens <= Max(sizes) /\ Max(sizes) \in sizes
  BY <1>20, <1>22, MaxOfBounded
<1> QED
  BY <1>18, <1>20, <1>22, <1>23

LEMMA CreditStarts == Init => CreditInv
BY DEF Init, CreditInv

\* TTL-1, "a one-hour cache would have read": for any trace, prompts and registry, the
\* span that a credited write is matched with would have been read, had markers lived
\* for an hour. It takes that a response can be read by the end of the five minutes
\* that a gap must exceed: one that begins later is credited all the same.
THEOREM CreditsWouldBeRead ==
  ASSUME ResponsesBegin
  PROVE  Spec => []CreditedSpansWouldBeRead
<1>1. Init => Inv /\ CreditInv
  BY ReplayStarts, CreditStarts
<1>2. Inv /\ CreditInv /\ [Next]_vars => (Inv /\ CreditInv)'
  <2> SUFFICES ASSUME Inv, CreditInv, [Next]_vars PROVE CreditInv'
    BY ReplaySteps
  <2>1. CASE Next
    <3>1. PICK shape \in Shapes, gap \in Gaps :
            Replayed(Sent(shape, gap)) /\ trace' = Append(trace, Sent(shape, gap))
      BY <2>1 DEF Next
    <3>2. arm' = arm
      BY <2>1 DEF Next
    <3>3. Sent(shape, gap) \in Row
      BY SentIsRow DEF Inv
    <3>4. Bills(Sent(shape, gap))
      BY <3>1, <3>3, ReplayedBills DEF Inv
    <3>5. \A k \in 1 .. Len(trace) : trace[k].sent <= Sent(shape, gap).sent
      BY SentInOrder DEF Inv
    <3> QED
      BY <3>1, <3>2, <3>3, <3>4, <3>5, CreditSteps DEF Appends, Inv
  <2>2. CASE UNCHANGED vars
    <3>1. arm' = arm /\ trace' = trace /\ usages' = usages /\ priced' = priced
      BY <2>2 DEF vars
    <3> QED
      BY <3>1, Zenon DEF CreditInv, Billed, Caches
  <2> QED
    BY <2>1, <2>2
<1>3. Inv /\ CreditInv => CreditedSpansWouldBeRead
  BY CreditedIsRead DEF Inv, CreditedSpansWouldBeRead
<1> QED
  BY <1>1, <1>2, <1>3, PTL DEF Spec

================================================================================
