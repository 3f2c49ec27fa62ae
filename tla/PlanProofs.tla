------------------------------- MODULE PlanProofs -------------------------------
(***************************************************************************)
(* What the planners promise, for every prompt: that the moves of relocation *)
(* add up to an order a client can send, and that the plan the allocator      *)
(* answers with may be sent.                                                 *)
(***************************************************************************)
EXTENDS Relocation, ReplayProofs

(***************************************************************************)
(* Orders. A move takes one segment out of the order and puts it back at one *)
(* place; the others keep theirs.                                            *)
(***************************************************************************)

\* Every member of a set once.
Orders(o, set) ==
  /\ o \in Seq(set)
  /\ \A p \in 1 .. Len(o) : \A q \in 1 .. Len(o) : p < q => o[p] # o[q]
  /\ \A i \in set : \E p \in 1 .. Len(o) : o[p] = i

\* Two sequences of the same sections, in the same order as far as t goes.
Follows(t, o) ==
  \A p \in 1 .. Len(t) : \A q \in 1 .. Len(t) : p < q =>
    \E a \in 1 .. Len(o) : \E b \in 1 .. Len(o) : a < b /\ t[p] = o[a] /\ t[q] = o[b]

LEMMA RestOrders ==
  ASSUME NEW set, NEW o, Orders(o, set), NEW i
  PROVE  Orders(Rest(o, i), set \ {i}) /\ Follows(Rest(o, i), o)
<1>1. o \in Seq(set) /\ Len(o) \in Nat /\ ToSet(o) = set
  BY DEF Orders, ToSet
<1>2. PICK rest : rest = Rest(o, i)
  OBVIOUS
<1>3. rest = Among(o, set \ {i})
  BY <1>1, <1>2 DEF Rest
<1>4. rest \in Seq(set \ {i})
  BY <1>1, <1>3, AmongIsOfThem
<1>5. Drawn(rest, o, Len(o))
  BY <1>1, <1>3, AmongIsDrawn
<1>6. HasThem(rest, o, set \ {i}, Len(o))
  BY <1>1, <1>3, AmongHasThem
<1>7. PICK f \in [1 .. Len(rest) -> 1 .. Len(o)] :
        /\ \A p \in 1 .. Len(rest) : \A q \in 1 .. Len(rest) : p < q => f[p] < f[q]
        /\ \A p \in 1 .. Len(rest) : rest[p] = o[f[p]]
  BY <1>5 DEF Drawn
<1>8. Follows(rest, o)
  BY <1>7 DEF Follows
<1>9. \A p \in 1 .. Len(rest) : \A q \in 1 .. Len(rest) : p < q => rest[p] # rest[q]
  BY <1>8 DEF Follows, Orders
<1>10. \A j \in set \ {i} : \E p \in 1 .. Len(rest) : rest[p] = j
  BY <1>6 DEF Orders, HasThem
<1> QED
  BY <1>2, <1>4, <1>8, <1>9, <1>10 DEF Orders

LEMMA LeastIsThere ==
  ASSUME NEW S \in SUBSET Nat, S # {}
  PROVE  \E x \in S : \A y \in S : x <= y
<1>1. PICK m \in S : \A k \in S : <<k, m>> \notin OpToRel(<, Nat)
  BY NatLessThanWellFounded, WFMin
<1>2. ASSUME NEW y \in S PROVE m <= y
  <2>1. <<y, m>> \notin OpToRel(<, Nat)
    BY <1>1
  <2>2. ~ (y < m)
    BY <2>1 DEF OpToRel
  <2> QED
    BY <2>2
<1> QED
  BY <1>2

\* Up to the place of what is taken out, nothing moves.
LEMMA RestStarts ==
  ASSUME NEW set, NEW o, Orders(o, set), NEW b \in 1 .. Len(o),
         NEW p \in 1 .. Len(Rest(o, o[b])), p < b
  PROVE  Rest(o, o[b])[p] = o[p]
<1>1. PICK rest : rest = Rest(o, o[b])
  OBVIOUS
<1>2. Orders(rest, set \ {o[b]}) /\ Follows(rest, o)
  BY <1>1, RestOrders
<1>3. o \in Seq(set) /\ Len(o) \in Nat /\ rest \in Seq(set \ {o[b]}) /\ Len(rest) \in Nat
  BY <1>2, SMTT(30) DEF Orders
<1>6. \A x \in 1 .. Len(o) : \A y \in 1 .. Len(o) : o[x] = o[y] => x = y
  BY <1>3 DEF Orders
<1>7. \A x \in 1 .. Len(rest) : \A y \in 1 .. Len(rest) : rest[x] = rest[y] => x = y
  BY <1>2, <1>3 DEF Orders
<1>8. \A x \in 1 .. Len(o) : o[x] \in set
  BY <1>3
<1>4. PICK S : S = {n \in 1 .. Len(rest) : n < b /\ rest[n] # o[n]}
  OBVIOUS
<1>5. ASSUME S # {} PROVE FALSE
  <2>1. S \in SUBSET Nat
    BY <1>4
  <2>2. PICK n \in S : \A k \in S : n <= k
    BY <1>5, <2>1, LeastIsThere
  <2>3. /\ n \in 1 .. Len(rest) /\ n < b /\ n \in 1 .. Len(o) /\ rest[n] # o[n]
        /\ \A k \in 1 .. Len(rest) : k < n => rest[k] = o[k]
    <3>1. n \in 1 .. Len(rest) /\ n < b /\ rest[n] # o[n]
      BY <1>4
    <3>2. b \in Nat /\ b <= Len(o)
      BY <1>3
    <3>3. n \in 1 .. Len(o)
      BY <1>3, <3>1, <3>2
    <3>4. ASSUME NEW k \in 1 .. Len(rest), k < n PROVE rest[k] = o[k]
      <4>1. k < b /\ ~ (n <= k)
        BY <1>3, <3>1, <3>2, <3>4
      <4> QED
        BY <1>4, <2>2, <4>1
    <3> QED
      BY <3>1, <3>3, <3>4
  <2>4. o[n] \in set \ {o[b]}
    <3>1. ~ (o[n] = o[b])
      BY <1>3, <1>6, <2>3
    <3> QED
      BY <1>8, <2>3, <3>1
  <2>5. PICK r \in 1 .. Len(rest) : rest[r] = o[n]
    BY <1>2, <2>4 DEF Orders
  <2>6. n < r
    <3>1. ASSUME r < n PROVE FALSE
      <4>1. rest[r] = o[r] /\ r \in 1 .. Len(o)
        BY <1>3, <2>3, <3>1
      <4> QED
        BY <1>6, <2>3, <2>5, <3>1, <4>1
    <3>2. r # n
      BY <2>3, <2>5
    <3> QED
      BY <1>3, <2>3, <3>1, <3>2
  <2>7. PICK x \in 1 .. Len(o), y \in 1 .. Len(o) : x < y /\ rest[n] = o[x] /\ rest[r] = o[y]
    BY <2>3, <2>6, <1>2 DEF Follows
  <2>8. y = n
    BY <1>6, <2>3, <2>5, <2>7
  <2>9. x \in 1 .. Len(rest) /\ rest[x] = o[x]
    BY <1>3, <2>3, <2>7, <2>8
  <2> QED
    BY <1>7, <2>3, <2>7, <2>8, <2>9
<1> QED
  BY <1>1, <1>4, <1>5

\* A sequence with one more member, after the first m.
Inserted(o, rest, i, m) ==
  /\ Len(o) = Len(rest) + 1
  /\ \A p \in 1 .. Len(o) :
       o[p] = IF p <= m THEN rest[p] ELSE IF p = m + 1 THEN i ELSE rest[p - 1]

LEMMA PutBack ==
  ASSUME NEW S, NEW rest \in Seq(S), NEW i \in S, NEW m \in 0 .. Len(rest)
  PROVE  LET o == SubSeq(rest, 1, m) \o <<i>> \o SubSeq(rest, m + 1, Len(rest))
         IN o \in Seq(S) /\ Inserted(o, rest, i, m)
<1>1. PICK left : left = SubSeq(rest, 1, m)
  OBVIOUS
<1>2. PICK right : right = SubSeq(rest, m + 1, Len(rest))
  OBVIOUS
<1>3. left \in Seq(S) /\ Len(left) = m /\ \A p \in 1 .. m : left[p] = rest[p]
  BY <1>1
<1>4. /\ right \in Seq(S) /\ Len(right) = Len(rest) - m
      /\ \A p \in 1 .. Len(rest) - m : right[p] = rest[m + p]
  BY <1>2
<1>5. PICK o : o = left \o <<i>> \o right
  OBVIOUS
<1>6. PICK start : start = left \o <<i>>
  OBVIOUS
<1>7. /\ start \in Seq(S) /\ Len(start) = m + 1 /\ start[m + 1] = i
      /\ \A p \in 1 .. m : start[p] = rest[p]
  BY <1>3, <1>6
<1>8. /\ o \in Seq(S) /\ Len(o) = Len(rest) + 1
      /\ \A p \in 1 .. m + 1 : o[p] = start[p]
      /\ \A p \in 1 .. Len(rest) - m : o[m + 1 + p] = right[p]
  <2>1. o = start \o right
    BY <1>5, <1>6
  <2>2. o \in Seq(S) /\ Len(o) = Len(start) + Len(right)
    <3>1. start \in Seq(S) /\ right \in Seq(S)
      BY <1>4, <1>7
    <3> QED
      BY <2>1, <3>1
  <2>3. Len(start) \in Nat /\ Len(right) \in Nat
    BY <1>4, <1>7
  <2>4. \A p \in 1 .. Len(start) : o[p] = start[p]
    BY <1>4, <1>7, <2>1, <2>3
  <2>5. \A p \in 1 .. Len(right) : o[Len(start) + p] = right[p]
    <3> SUFFICES ASSUME NEW p \in 1 .. Len(right) PROVE o[Len(start) + p] = right[p]
      OBVIOUS
    <3>1. start \in Seq(S) /\ right \in Seq(S)
      BY <1>4, <1>7
    <3> QED
      BY <2>1, <2>3, <3>1
  <2> QED
    BY <1>4, <1>7, <2>2, <2>4, <2>5
<1>9. ASSUME NEW p \in 1 .. Len(o)
      PROVE  o[p] = IF p <= m THEN rest[p] ELSE IF p = m + 1 THEN i ELSE rest[p - 1]
  <2>1. CASE p <= m + 1
    BY <1>7, <1>8, <2>1
  <2>2. CASE p > m + 1
    <3>1. PICK d : d = p - (m + 1)
      OBVIOUS
    <3>2. d \in 1 .. Len(rest) - m /\ p = m + 1 + d /\ p - 1 = m + d
      BY <1>8, <2>2, <3>1
    <3>3. o[p] = right[d] /\ right[d] = rest[m + d]
      BY <1>4, <1>8, <3>2
    <3> QED
      BY <2>2, <3>2, <3>3
  <2> QED
    BY <2>1, <2>2
<1> QED
  BY <1>1, <1>2, <1>5, <1>8, <1>9 DEF Inserted

LEMMA PutLast ==
  ASSUME NEW S, NEW rest \in Seq(S), NEW i \in S
  PROVE  Append(rest, i) \in Seq(S) /\ Inserted(Append(rest, i), rest, i, Len(rest))
<1>1. PICK o : o = Append(rest, i)
  OBVIOUS
<1>2. /\ o \in Seq(S) /\ Len(o) = Len(rest) + 1 /\ o[Len(rest) + 1] = i
      /\ \A p \in 1 .. Len(rest) : o[p] = rest[p]
  BY <1>1
<1> QED
  BY <1>1, <1>2 DEF Inserted

LEMMA InsertedOrders ==
  ASSUME NEW set, NEW i \in set, NEW rest, Orders(rest, set \ {i}),
         NEW m \in 0 .. Len(rest), NEW o \in Seq(set), Inserted(o, rest, i, m)
  PROVE  Orders(o, set)
<1>1. rest \in Seq(set \ {i}) /\ Len(rest) \in Nat /\ Len(o) = Len(rest) + 1
  BY DEF Orders, Inserted
<1>2. \A p \in 1 .. Len(rest) : rest[p] # i
  BY <1>1
<1>5. /\ \A p \in 1 .. Len(rest) : p <= m => o[p] = rest[p]
      /\ \A p \in 1 .. Len(o) : p > m + 1 => p - 1 \in 1 .. Len(rest) /\ o[p] = rest[p - 1]
  BY <1>1 DEF Inserted
<1>6. m \in Nat /\ Len(rest) \in Nat /\ m <= Len(rest)
  BY <1>1
<1>3. ASSUME NEW p \in 1 .. Len(o), NEW q \in 1 .. Len(o), p < q
      PROVE  o[p] # o[q]
  <2>1. CASE p = m + 1
    <3>1. o[p] = i /\ o[q] = rest[q - 1] /\ q - 1 \in 1 .. Len(rest)
      BY <1>1, <1>3, <2>1 DEF Inserted
    <3> QED
      BY <1>2, <3>1
  <2>2. CASE q = m + 1
    <3>1. o[q] = i /\ o[p] = rest[p] /\ p \in 1 .. Len(rest)
      BY <1>1, <1>3, <2>2 DEF Inserted
    <3> QED
      BY <1>2, <3>1
  <2>3. CASE p # m + 1 /\ q # m + 1
    <3>1. PICK a \in 1 .. Len(rest) : o[p] = rest[a] /\ ((a = p /\ p <= m) \/ (a = p - 1 /\ p > m + 1))
      <4>1. CASE p <= m
        <5>1. p \in 1 .. Len(rest) /\ o[p] = rest[p]
          BY <1>5, <1>6, <4>1
        <5> QED
          BY <4>1, <5>1
      <4>2. CASE p > m + 1
        <5>1. p - 1 \in 1 .. Len(rest) /\ o[p] = rest[p - 1]
          BY <1>5, <4>2
        <5> QED
          BY <4>2, <5>1
      <4> QED
        BY <2>3, <4>1, <4>2
    <3>2. PICK b \in 1 .. Len(rest) : o[q] = rest[b] /\ ((b = q /\ q <= m) \/ (b = q - 1 /\ q > m + 1))
      <4>1. CASE q <= m
        <5>1. q \in 1 .. Len(rest) /\ o[q] = rest[q]
          BY <1>5, <1>6, <4>1
        <5> QED
          BY <4>1, <5>1
      <4>2. CASE q > m + 1
        <5>1. q - 1 \in 1 .. Len(rest) /\ o[q] = rest[q - 1]
          BY <1>5, <4>2
        <5> QED
          BY <4>2, <5>1
      <4> QED
        BY <2>3, <4>1, <4>2
    <3>3. a < b
      BY <1>3, <3>1, <3>2
    <3> QED
      BY <3>1, <3>2, <3>3 DEF Orders
  <2> QED
    BY <2>1, <2>2, <2>3
<1>4. ASSUME NEW j \in set PROVE \E p \in 1 .. Len(o) : o[p] = j
  <2>1. CASE j = i
    <3>1. m + 1 \in 1 .. Len(o) /\ o[m + 1] = i
      BY <1>1 DEF Inserted
    <3> QED
      BY <2>1, <3>1
  <2>2. CASE j # i
    <3>1. PICK a \in 1 .. Len(rest) : rest[a] = j
      BY <2>2 DEF Orders
    <3>2. CASE a <= m
      <4>1. a \in 1 .. Len(o) /\ o[a] = rest[a]
        BY <1>1, <3>2 DEF Inserted
      <4> QED
        BY <3>1, <4>1
    <3>3. CASE a > m
      <4>1. a + 1 \in 1 .. Len(o) /\ o[a + 1] = rest[a]
        BY <1>1, <3>3 DEF Inserted
      <4> QED
        BY <3>1, <4>1
    <3> QED
      BY <3>2, <3>3
  <2> QED
    BY <2>1, <2>2
<1> QED
  BY <1>3, <1>4 DEF Orders

(***************************************************************************)
(* What the moves may do. Whatever passes on the way may be passed, or has   *)
(* been passed by one of the same field before.                              *)
(***************************************************************************)

Lawful(o) ==
  \A p \in 1 .. Len(o) : \A q \in 1 .. Len(o) : p < q /\ o[q] < o[p] => MayPass(o[p], o[q])

LEMMA IndicesAreNumbers ==
  ASSUME RelocationAssumption, NEW g \in Groups
  PROVE  Indices(g) \subseteq 0 .. MaxIndex /\ Indices(g) \subseteq Nat
BY RelocationAssumption DEF RelocationAssumption, Indices

LEMMA SegmentIs ==
  ASSUME RelocationAssumption, group \in Groups, NEW i \in Indices(group)
  PROVE  SegmentAt(i).id \in Segments /\ Role(i) \in {"tools", "system", "user"}
<1> DEFINE Has == {k \in DOMAIN group : i \in DOMAIN group[k].segs}
<1>1. Len(group) \in Nat /\ DOMAIN group = 1 .. Len(group)
  BY RelocationAssumption DEF RelocationAssumption
<1>2. Has \in SUBSET (0 .. Len(group)) /\ Has # {}
  BY <1>1 DEF Indices
<1>3. Max(Has) \in Has
  <2> HIDE DEF Has
  <2> QED BY <1>1, <1>2, MaxOfBounded
<1>4. SegmentAt(i) = group[Max(Has)].segs[i]
  BY DEF SegmentAt
<1>5. PICK k : k = Max(Has)
  OBVIOUS
<1>6. k \in DOMAIN group /\ i \in DOMAIN group[k].segs
  BY <1>3, <1>5
<1>7. group[k].segs[i] \in Section
  BY <1>6, RelocationAssumption DEF RelocationAssumption
<1>8. SegmentAt(i) \in Section
  <2> HIDE DEF Has
  <2> QED BY <1>4, <1>5, <1>7
<1> QED
  BY <1>8 DEF Role, Section

LEMMA LawfulRest ==
  ASSUME NEW set, NEW o, Orders(o, set), Lawful(o), NEW i
  PROVE  Lawful(Rest(o, i))
<1>1. PICK rest : rest = Rest(o, i)
  OBVIOUS
<1>2. Follows(rest, o)
  BY <1>1, RestOrders
<1>3. ASSUME NEW p \in 1 .. Len(rest), NEW q \in 1 .. Len(rest), p < q, rest[q] < rest[p]
      PROVE  MayPass(rest[p], rest[q])
  <2>1. PICK a \in 1 .. Len(o), b \in 1 .. Len(o) : a < b /\ rest[p] = o[a] /\ rest[q] = o[b]
    BY <1>2, <1>3 DEF Follows
  <2> QED
    BY <1>3, <2>1 DEF Lawful
<1> QED
  BY <1>1, <1>3 DEF Lawful

LEMMA LawfulInserted ==
  ASSUME NEW set, NEW i \in set, NEW rest, Orders(rest, set \ {i}), Lawful(rest),
         NEW m \in 0 .. Len(rest), NEW o \in Seq(set), Inserted(o, rest, i, m),
         \A p \in 1 .. Len(rest) : p <= m /\ i < rest[p] => MayPass(rest[p], i),
         \A p \in 1 .. Len(rest) : p > m /\ rest[p] < i => MayPass(i, rest[p])
  PROVE  Lawful(o)
<1>1. Len(rest) \in Nat /\ m \in Nat /\ m <= Len(rest) /\ Len(o) = Len(rest) + 1
  BY DEF Orders, Inserted
<1>2. \A p \in 1 .. Len(o) :
        \/ p \in 1 .. Len(rest) /\ p <= m /\ o[p] = rest[p]
        \/ p = m + 1 /\ o[p] = i
        \/ p - 1 \in 1 .. Len(rest) /\ p - 1 > m /\ o[p] = rest[p - 1]
  <2> SUFFICES ASSUME NEW p \in 1 .. Len(o)
               PROVE  \/ p \in 1 .. Len(rest) /\ p <= m /\ o[p] = rest[p]
                      \/ p = m + 1 /\ o[p] = i
                      \/ p - 1 \in 1 .. Len(rest) /\ p - 1 > m /\ o[p] = rest[p - 1]
    OBVIOUS
  <2>1. o[p] = IF p <= m THEN rest[p] ELSE IF p = m + 1 THEN i ELSE rest[p - 1]
    BY DEF Inserted
  <2>2. CASE p <= m
    BY <1>1, <2>1, <2>2
  <2>3. CASE p = m + 1
    BY <1>1, <2>1, <2>3
  <2>4. CASE p > m + 1
    BY <1>1, <2>1, <2>4
  <2> QED
    BY <1>1, <2>2, <2>3, <2>4
<1>3. ASSUME NEW p \in 1 .. Len(o), NEW q \in 1 .. Len(o), p < q, o[q] < o[p]
      PROVE  MayPass(o[p], o[q])
  <2>1. CASE p = m + 1
    <3>1. o[p] = i /\ q - 1 \in 1 .. Len(rest) /\ q - 1 > m /\ o[q] = rest[q - 1]
      BY <1>1, <1>2, <1>3, <2>1
    <3> QED
      BY <1>3, <3>1
  <2>2. CASE q = m + 1
    <3>1. o[q] = i /\ p \in 1 .. Len(rest) /\ p <= m /\ o[p] = rest[p]
      BY <1>1, <1>2, <1>3, <2>2
    <3> QED
      BY <1>3, <3>1
  <2>3. CASE p # m + 1 /\ q # m + 1
    <3>1. PICK a \in 1 .. Len(rest) :
            o[p] = rest[a] /\ ((a = p /\ p <= m) \/ (a = p - 1 /\ p - 1 > m))
      BY <1>2, <2>3
    <3>2. PICK b \in 1 .. Len(rest) :
            o[q] = rest[b] /\ ((b = q /\ q <= m) \/ (b = q - 1 /\ q - 1 > m))
      BY <1>2, <2>3
    <3>3. a < b
      BY <1>1, <1>3, <3>1, <3>2
    <3> QED
      BY <1>3, <3>1, <3>2, <3>3 DEF Lawful
  <2> QED
    BY <2>1, <2>2, <2>3
<1> QED
  BY <1>3 DEF Lawful

\* The stable head of an order ends ahead of the first volatile section.
LEMMA RunEnds ==
  ASSUME NEW set, NEW o \in Seq(set), NEW m \in 0 .. Len(o), m < Len(o),
         o[m + 1] \in Volatile, \A p \in 1 .. m : o[p] \notin Volatile
  PROVE  StableRun(o, Volatile) = SubSeq(o, 1, m)
<1>1. PICK blocked : blocked = {p \in DOMAIN o : o[p] \in Volatile}
  OBVIOUS
<1>2. Len(o) \in Nat /\ DOMAIN o = 1 .. Len(o) /\ m \in Nat
  OBVIOUS
<1>3. m + 1 \in blocked /\ \A p \in blocked : m + 1 <= p /\ p \in Nat
  BY <1>1, <1>2
<1>4. Min(blocked) = m + 1
  <2>1. Min(blocked) \in blocked /\ \A p \in blocked : Min(blocked) <= p
    BY <1>3 DEF Min
  <2> QED
    BY <1>2, <1>3, <2>1
<1>5. StableRun(o, Volatile) = SubSeq(o, 1, Min(blocked) - 1)
  BY <1>1, <1>3 DEF StableRun
<1> QED
  BY <1>2, <1>4, <1>5

\* A section that blocks what is behind it is not moved up: that unlocks nothing.
LEMMA MovesAreDown ==
  ASSUME RelocationAssumption, group \in Groups, NEW o, Orders(o, Indices(group)),
         NEW b \in 1 .. Len(o), NEW new \in Seq(Indices(group)), NEW m \in 0 .. b - 1,
         o[b] \in Volatile, \A p \in 1 .. b - 1 : o[p] \notin Volatile,
         m < Len(new), new[m + 1] = o[b], \A p \in 1 .. m : new[p] = o[p]
  PROVE  ~ (Gain(new, o) > 0)
<1>1. /\ o \in Seq(Indices(group)) /\ Len(o) \in Nat /\ DOMAIN o = 1 .. Len(o)
      /\ b \in Nat /\ m \in Nat /\ b - 1 \in 0 .. Len(o) /\ m <= b - 1 /\ b - 1 + 1 = b
      /\ Len(new) \in Nat
  <2>1. o \in Seq(Indices(group))
    BY DEF Orders
  <2>2. PICK S : S = Indices(group)
    OBVIOUS
  <2>3. o \in Seq(S) /\ new \in Seq(S)
    BY <2>1, <2>2
  <2>4. Len(o) \in Nat /\ DOMAIN o = 1 .. Len(o) /\ Len(new) \in Nat
    BY <2>3
  <2> QED
    BY <2>1, <2>4
<1>2. StableRun(o, Volatile) = SubSeq(o, 1, b - 1)
  <2>1. PICK k : k = b - 1
    OBVIOUS
  <2>2. k \in 0 .. Len(o) /\ k < Len(o) /\ k + 1 = b
    BY <1>1, <2>1
  <2>3. o[k + 1] \in Volatile /\ \A p \in 1 .. k : o[p] \notin Volatile
    BY <2>1, <2>2
  <2> QED
    BY <1>1, <2>1, <2>2, <2>3, RunEnds
<1>3. StableRun(new, Volatile) = SubSeq(new, 1, m)
  <2>1. \A p \in 1 .. m : new[p] \notin Volatile
    BY <1>1
  <2>2. m \in 0 .. Len(new)
    BY <1>1
  <2> QED
    BY <1>1, <2>1, <2>2, RunEnds
<1>4. PICK ids : ids = [p \in 1 .. b - 1 |-> SegmentAt(o[p]).id]
  OBVIOUS
<1>5. ids \in Seq(Segments) /\ Len(ids) = b - 1
  <2>1. \A p \in 1 .. b - 1 : SegmentAt(o[p]).id \in Segments
    BY <1>1, SegmentIs
  <2> QED
    BY <1>1, <1>4, <2>1
<1>6. StablePrefixTokens(o) = Tokens(Prefix(ids, b - 1))
  <2>1. PICK run : run = SubSeq(o, 1, b - 1)
    OBVIOUS
  <2>2. DOMAIN run = 1 .. b - 1 /\ \A p \in 1 .. b - 1 : run[p] = o[p]
    BY <1>1, <2>1
  <2>3. [p \in DOMAIN run |-> SegmentAt(run[p]).id] = ids
    BY <1>4, <2>2
  <2>4. Prefix(ids, b - 1) = ids
    BY <1>5 DEF Prefix
  <2> QED
    BY <1>2, <2>1, <2>3, <2>4 DEF StablePrefixTokens
<1>7. StablePrefixTokens(new) = Tokens(Prefix(ids, m))
  <2>1. PICK run : run = SubSeq(new, 1, m)
    OBVIOUS
  <2>2. DOMAIN run = 1 .. m /\ \A p \in 1 .. m : run[p] = o[p]
    BY <1>1, <2>1
  <2>3. [p \in DOMAIN run |-> SegmentAt(run[p]).id] = [p \in 1 .. m |-> ids[p]]
    BY <1>1, <1>4, <2>2
  <2>4. Prefix(ids, m) = [p \in 1 .. m |-> ids[p]]
    BY <1>1, <1>5 DEF Prefix
  <2> QED
    BY <1>3, <2>1, <2>3, <2>4 DEF StablePrefixTokens
<1>8. Tokens(Prefix(ids, m)) \in Nat /\ Tokens(Prefix(ids, b - 1)) \in Nat
      /\ Tokens(Prefix(ids, m)) <= Tokens(Prefix(ids, b - 1))
  <2>1. m \in 0 .. Len(ids) /\ b - 1 \in 0 .. Len(ids) /\ (m = b - 1 \/ m \in 0 .. b - 1 - 1)
    BY <1>1, <1>5
  <2> QED
    BY <1>5, <2>1, LongerIsMore
<1> QED
  BY <1>6, <1>7, <1>8 DEF Gain

LEMMA BlockerIs ==
  ASSUME NEW set, NEW o, Orders(o, set), NEW i, i \in Blocker(o)
  PROVE  \E b \in 1 .. Len(o) : /\ o[b] = i /\ o[b] \in Volatile
                                 /\ \A q \in 1 .. b - 1 : o[q] \notin Volatile
<1>1. PICK blocked : blocked = {p \in DOMAIN o : o[p] \in Volatile}
  OBVIOUS
<1>2. Len(o) \in Nat /\ DOMAIN o = 1 .. Len(o) /\ blocked \in SUBSET Nat
  BY <1>1 DEF Orders
<1>3. blocked # {} /\ i = o[Min(blocked)]
  BY <1>1 DEF Blocker
<1>4. \E x \in blocked : \A y \in blocked : x <= y
  BY <1>2, <1>3, LeastIsThere
<1>5. Min(blocked) \in blocked /\ \A y \in blocked : Min(blocked) <= y
  BY <1>4 DEF Min
<1>6. PICK b : b = Min(blocked)
  OBVIOUS
<1>7. b \in 1 .. Len(o) /\ o[b] = i /\ o[b] \in Volatile
  BY <1>1, <1>2, <1>3, <1>5, <1>6
<1>8. \A q \in 1 .. b - 1 : o[q] \notin Volatile
  BY <1>1, <1>2, <1>5, <1>6, <1>7
<1> QED
  BY <1>7, <1>8

\* A section is put behind the last one of its field: what it passes on the way is of
\* its field, or ahead of one of its field as it was sent, or has been passed by one of
\* its field before.
LEMMA WithinIsLawful ==
  ASSUME RelocationAssumption, group \in Groups,
         NEW o, Orders(o, Indices(group)), Lawful(o), NEW i \in Indices(group),
         i \in Blocker(o), Gain(Within(o, i), o) > 0
  PROVE  Orders(Within(o, i), Indices(group)) /\ Lawful(Within(o, i))
<1> DEFINE set == Indices(group)
<1>1. PICK rest : rest = Rest(o, i)
  OBVIOUS
<1>2. Orders(rest, set \ {i}) /\ Lawful(rest)
  BY <1>1, RestOrders, LawfulRest
<1>3. /\ rest \in Seq(set) /\ Len(rest) \in Nat /\ DOMAIN rest = 1 .. Len(rest)
      /\ \A p \in 1 .. Len(rest) : rest[p] \in set /\ rest[p] # i
  <2> HIDE DEF set
  <2>1. rest \in Seq(set \ {i})
    BY <1>2 DEF Orders
  <2> QED
    BY <2>1
<1>4. set \subseteq Nat
  BY IndicesAreNumbers
<1> DEFINE block == {p \in DOMAIN rest : Role(rest[p]) = Role(i)}
<1>5. CASE Role(i) = "user" \/ block = {}
  <2>1. Within(o, i) = o
    BY <1>1, <1>5 DEF Within
  <2> QED
    BY <2>1
<1>6. CASE ~ (Role(i) = "user" \/ block = {})
  <2>1. PICK m : m = Max(block)
    OBVIOUS
  <2>2. m \in 1 .. Len(rest) /\ Role(rest[m]) = Role(i)
    <3>1. block \in SUBSET (0 .. Len(rest)) /\ block # {}
      BY <1>3, <1>6
    <3>2. Max(block) \in block
      <4> HIDE DEF block
      <4> QED BY <1>3, <3>1, MaxOfBounded
    <3> QED
      BY <1>3, <2>1, <3>2
  <2>3. PICK new : new = SubSeq(rest, 1, m) \o <<i>> \o SubSeq(rest, m + 1, Len(rest))
    OBVIOUS
  <2>4. Within(o, i) = new
    <3>1. Within(o, i) = SubSeq(rest, 1, Max(block)) \o <<i>> \o SubSeq(rest, Max(block) + 1, Len(rest))
      BY <1>1, <1>6 DEF Within
    <3> HIDE DEF block
    <3> QED BY <2>1, <2>3, <3>1
  <2>5. m \in 0 .. Len(rest)
    BY <1>3, <2>2
  <2>6. new \in Seq(set) /\ Inserted(new, rest, i, m)
    <3>1. i \in set
      BY DEF set
    <3> HIDE DEF set
    <3> QED BY <1>3, <2>3, <2>5, <3>1, PutBack
  <2>7. Orders(new, set)
    <3>1. i \in set
      BY DEF set
    <3> HIDE DEF set
    <3> QED BY <1>2, <2>5, <2>6, <3>1, InsertedOrders
  <2>8. ASSUME NEW p \in 1 .. Len(rest), p <= m, i < rest[p]
        PROVE  MayPass(rest[p], i)
    <3>1. CASE p = m
      BY <1>6, <2>2, <3>1 DEF MayPass
    <3>2. CASE p < m /\ rest[m] < rest[p]
      <4>1. MayPass(rest[p], rest[m])
        BY <1>2, <2>2, <3>2 DEF Lawful
      <4> QED
        BY <1>6, <2>2, <4>1 DEF MayPass
    <3>3. CASE p < m /\ rest[p] < rest[m]
      <4>1. rest[m] \in Indices(group)
        BY <1>3, <2>2
      <4> QED
        BY <1>6, <2>2, <3>3, <4>1 DEF MayPass
    <3>4. p = m \/ (p < m /\ rest[p] # rest[m])
      BY <1>2, <2>2, <2>8 DEF Orders
    <3>5. rest[p] \in Nat /\ rest[m] \in Nat
      BY <1>3, <1>4, <2>2
    <3> QED
      BY <3>1, <3>2, <3>3, <3>4, <3>5
  <2>9. ASSUME NEW p \in 1 .. Len(rest), p > m, rest[p] < i
        PROVE  MayPass(i, rest[p])
    <3>1. PICK b \in 1 .. Len(o) : /\ o[b] = i /\ o[b] \in Volatile
                                   /\ \A q \in 1 .. b - 1 : o[q] \notin Volatile
      BY BlockerIs
    <3>2. b \in Nat /\ Len(o) \in Nat /\ m \in Nat /\ p \in Nat
      BY <1>3, <2>2 DEF Orders
    <3>3. ASSUME p < b PROVE FALSE
      <4>1. \A q \in 1 .. m : new[q] = rest[q] /\ rest[q] = o[q]
        <5> SUFFICES ASSUME NEW q \in 1 .. m PROVE new[q] = rest[q] /\ rest[q] = o[q]
          OBVIOUS
        <5>1. q \in 1 .. Len(rest) /\ q \in 1 .. Len(new) /\ q < b /\ q <= m
          BY <1>3, <2>2, <2>6, <2>9, <3>2, <3>3 DEF Inserted
        <5>2. new[q] = rest[q]
          BY <2>6, <5>1 DEF Inserted
        <5>3. rest[q] = o[q]
          BY <1>1, <3>1, <5>1, RestStarts
        <5> QED
          BY <5>2, <5>3
      <4>2. m < Len(new) /\ m + 1 \in 1 .. Len(new) /\ ~ (m + 1 <= m)
        BY <1>3, <2>2, <2>6 DEF Inserted
      <4>3. new[m + 1] = o[b]
        BY <2>6, <3>1, <4>2 DEF Inserted
      <4>4. m \in 0 .. b - 1
        BY <2>9, <3>2, <3>3
      <4>5. new \in Seq(Indices(group))
        BY <2>6
      <4>6. ~ (Gain(new, o) > 0)
        <5> HIDE DEF set
        <5>1. \A q \in 1 .. m : new[q] = o[q]
          BY <4>1
        <5> QED BY <3>1, <4>2, <4>3, <4>4, <4>5, <5>1, MovesAreDown, Zenon
      <4> QED
        BY <2>4, <4>6
    <3>4. PICK a \in 1 .. Len(o) : o[a] = rest[p]
      BY <1>3 DEF Orders
    <3>5. b < a
      <4>1. ~ (a = b)
        BY <1>3, <3>1, <3>4
      <4>2. ASSUME a < b PROVE FALSE
        <5>1. a \in 1 .. Len(rest) /\ a < p
          BY <1>3, <3>2, <3>3, <4>2
        <5>2. rest[a] = o[a]
          BY <1>1, <3>1, <4>2, <5>1, RestStarts
        <5> QED
          BY <1>2, <3>4, <5>1, <5>2 DEF Orders
      <4> QED
        BY <3>2, <4>1, <4>2
    <3> QED
      BY <2>9, <3>1, <3>4, <3>5 DEF Lawful
  <2>10. Lawful(new)
    <3>1. i \in set
      BY DEF set
    <3> HIDE DEF set
    <3> QED BY <1>2, <2>5, <2>6, <2>8, <2>9, <3>1, LawfulInserted
  <2> QED
    BY <2>4, <2>7, <2>10
<1> QED
  BY <1>5, <1>6

\* System content is put behind everything, where there is a mechanism for it.
LEMMA AcrossIsLawful ==
  ASSUME NEW set, NEW o, Orders(o, set), Lawful(o), NEW i \in set,
         Role(i) = "system", MechanismForAll
  PROVE  Orders(Across(o, i), set) /\ Lawful(Across(o, i))
<1>1. PICK rest : rest = Rest(o, i)
  OBVIOUS
<1>2. Orders(rest, set \ {i}) /\ Lawful(rest)
  BY <1>1, RestOrders, LawfulRest
<1>3. rest \in Seq(set) /\ Len(rest) \in Nat /\ Len(rest) \in 0 .. Len(rest)
  BY <1>2 DEF Orders
<1>4. PICK new : new = Across(o, i)
  OBVIOUS
<1>5. new \in Seq(set) /\ Inserted(new, rest, i, Len(rest))
  BY <1>1, <1>3, <1>4, PutLast DEF Across
<1>6. Orders(new, set)
  BY <1>2, <1>3, <1>5, InsertedOrders
<1>7. \A p \in 1 .. Len(rest) : MayPass(rest[p], i)
  BY DEF MayPass
<1>8. \A p \in 1 .. Len(rest) : ~ (p > Len(rest))
  BY <1>3
<1>9. Lawful(new)
  BY <1>2, <1>3, <1>5, <1>7, <1>8, LawfulInserted
<1> QED
  BY <1>4, <1>6, <1>9

(***************************************************************************)
(* The inductive invariant: the order is one, and lawful, where anything may *)
(* be moved at all.                                                          *)
(***************************************************************************)

OrderInv ==
  /\ group \in Groups
  /\ Orders(newOrder, Indices(group))
  /\ MixesShapes(group) => newOrder = Authored(group)
  /\ ~ MixesShapes(group) => Lawful(newOrder)

\* The order the segments were sent in is that of their indices.
LEMMA AuthoredIs ==
  ASSUME RelocationAssumption, NEW g \in Groups
  PROVE  Orders(Authored(g), Indices(g)) /\ Lawful(Authored(g))
<1>1. PICK all : all = [n \in 1 .. MaxIndex + 1 |-> n - 1]
  OBVIOUS
<1>2. MaxIndex \in Nat
  BY RelocationAssumption DEF RelocationAssumption
<1>3. all \in Seq(Nat) /\ Len(all) = MaxIndex + 1 /\ \A n \in 1 .. MaxIndex + 1 : all[n] = n - 1
  BY <1>1, <1>2
<1>4. PICK o : o = Authored(g)
  OBVIOUS
<1>5. o = Among(all, Indices(g))
  BY <1>1, <1>4 DEF Authored
<1>6. o \in Seq(Indices(g)) /\ Drawn(o, all, Len(all)) /\ HasThem(o, all, Indices(g), Len(all))
  BY <1>3, <1>5, AmongIsOfThem, AmongIsDrawn, AmongHasThem
<1>7. PICK f \in [1 .. Len(o) -> 1 .. Len(all)] :
        /\ \A p \in 1 .. Len(o) : \A q \in 1 .. Len(o) : p < q => f[p] < f[q]
        /\ \A p \in 1 .. Len(o) : o[p] = all[f[p]]
  BY <1>6 DEF Drawn
<1>8. \A p \in 1 .. Len(o) : \A q \in 1 .. Len(o) : p < q => o[p] < o[q] /\ o[p] \in Nat /\ o[q] \in Nat
  <2> SUFFICES ASSUME NEW p \in 1 .. Len(o), NEW q \in 1 .. Len(o), p < q
               PROVE  o[p] < o[q] /\ o[p] \in Nat /\ o[q] \in Nat
    OBVIOUS
  <2>1. PICK a \in 1 .. MaxIndex + 1 : a = f[p] /\ o[p] = all[a]
    BY <1>3, <1>7
  <2>2. PICK b \in 1 .. MaxIndex + 1 : b = f[q] /\ o[q] = all[b]
    BY <1>3, <1>7
  <2>3. a < b
    BY <1>7, <2>1, <2>2
  <2>4. o[p] = a - 1 /\ o[q] = b - 1
    BY <1>3, <2>1, <2>2
  <2> QED
    BY <1>2, <2>3, <2>4
<1>9. \A i \in Indices(g) : \E p \in 1 .. Len(o) : o[p] = i
  <2> SUFFICES ASSUME NEW i \in Indices(g) PROVE \E p \in 1 .. Len(o) : o[p] = i
    OBVIOUS
  <2>1. i \in 0 .. MaxIndex
    BY IndicesAreNumbers
  <2>2. PICK n \in 1 .. MaxIndex + 1 : n = i + 1
    BY <1>2, <2>1
  <2>3. n - 1 = i
    BY <2>1, <2>2
  <2>4. all[n] = i
    BY <1>3, <2>3
  <2> QED
    BY <1>3, <1>6, <2>4 DEF HasThem
<1>10. Orders(o, Indices(g))
  <2>1. ASSUME NEW p \in 1 .. Len(o), NEW q \in 1 .. Len(o), p < q
        PROVE  o[p] # o[q]
    <3>1. o[p] < o[q] /\ o[p] \in Nat /\ o[q] \in Nat
      BY <1>8, <2>1
    <3> QED BY <3>1
  <2> QED
    BY <1>6, <1>9, <2>1 DEF Orders
<1>11. Lawful(o)
  BY <1>8 DEF Lawful
<1> QED
  BY <1>4, <1>10, <1>11

LEMMA OrderMoves ==
  ASSUME group \in Groups, ~ MixesShapes(group), group' = group,
         NEW o, Orders(o, Indices(group)), Lawful(o), newOrder' = o
  PROVE  OrderInv'
<1>1. (group \in Groups)' /\ ~ MixesShapes(group)'
  BY DEF MixesShapes
<1>2. Orders(newOrder, Indices(group))'
  BY DEF Orders, Indices
<1>3. Lawful(newOrder)'
  <2> SUFFICES ASSUME NEW p \in 1 .. Len(newOrder'), NEW q \in 1 .. Len(newOrder'),
                      p < q, newOrder'[q] < newOrder'[p]
               PROVE  MayPass(newOrder[p], newOrder[q])'
    BY DEF Lawful
  <2>1. MayPass(o[p], o[q])
    BY DEF Lawful
  <2> QED
    BY <2>1 DEF MayPass, MechanismForAll, Role, SegmentAt
<1> QED
  BY <1>1, <1>2, <1>3 DEF OrderInv

\* What may pass what does not change, as the group does not.
LEMMA OrderStays ==
  ASSUME OrderInv, group' = group, newOrder' = newOrder
  PROVE  OrderInv'
<1>1. CASE MixesShapes(group)
  BY <1>1, SMTT(30) DEF OrderInv, Orders, MixesShapes, Authored, Indices
<1>2. CASE ~ MixesShapes(group)
  <2>1. PICK o : o = newOrder
    OBVIOUS
  <2> QED
    BY <1>2, <2>1, OrderMoves DEF OrderInv
<1> QED
  BY <1>1, <1>2

\* Of the moves that may be applied without an evaluation of what it does to the
\* transcript, one stays in its field and the other has its mechanism.
LEMMA MovesAre ==
  ASSUME RelocationAssumption, "high" \notin Applied, group \in Groups,
         NEW i \in Indices(group), NEW m \in Classify(i), m.risk \in Applied
  PROVE  \/ m.order = Within(newOrder, i) /\ Gain(Within(newOrder, i), newOrder) > 0
         \/ m.order = Across(newOrder, i) /\ Role(i) = "system" /\ MechanismForAll
<1>1. "blocked" \notin Applied
  BY RelocationAssumption DEF RelocationAssumption
<1>2. Role(i) \in {"tools", "system", "user"}
  BY SegmentIs
<1>3. CASE Gain(Within(newOrder, i), newOrder) > 0
  BY <1>3 DEF Classify
<1>4. CASE ~ (Gain(Within(newOrder, i), newOrder) > 0)
  <2>1. CASE Role(i) = "tools"
    BY <1>1, <1>4, <2>1 DEF Classify
  <2>2. CASE Role(i) = "system"
    BY <1>1, <1>4, <2>2 DEF Classify
  <2>3. CASE Role(i) = "user"
    BY <1>4, <2>3 DEF Classify
  <2> QED
    BY <1>2, <2>1, <2>2, <2>3
<1> QED
  BY <1>3, <1>4

LEMMA OrderSteps ==
  ASSUME RelocationAssumption, "high" \notin Applied, OrderInv, [RelocationNext]_relocating
  PROVE  OrderInv'
<1>1. CASE RefuseMixed
  BY <1>1, OrderStays DEF RefuseMixed
<1>2. ASSUME NEW i \in Indices(group), Propose(i)
      PROVE  OrderInv'
  <2>1. group' = group /\ group \in Groups /\ ~ MixesShapes(group) /\ i \in Blocker(newOrder)
    BY <1>2 DEF Propose, OrderInv
  <2>2. Orders(newOrder, Indices(group)) /\ Lawful(newOrder)
    BY <2>1 DEF OrderInv
  <2>3. PICK m \in Classify(i) : newOrder' = IF m.risk \in Applied THEN m.order ELSE newOrder
    BY <1>2 DEF Propose
  <2>4. CASE m.risk \in Applied
    <3>1. CASE m.order = Within(newOrder, i) /\ Gain(Within(newOrder, i), newOrder) > 0
      <4>1. Orders(m.order, Indices(group)) /\ Lawful(m.order)
        BY <2>1, <2>2, <3>1, WithinIsLawful
      <4> QED
        BY <2>1, <2>3, <2>4, <4>1, OrderMoves
    <3>2. CASE m.order = Across(newOrder, i) /\ Role(i) = "system" /\ MechanismForAll
      <4>1. Orders(m.order, Indices(group)) /\ Lawful(m.order)
        BY <2>2, <3>2, AcrossIsLawful
      <4> QED
        BY <2>1, <2>3, <2>4, <4>1, OrderMoves
    <3> QED
      BY <2>1, <2>4, <3>1, <3>2, MovesAre
  <2>5. CASE m.risk \notin Applied
    BY <2>1, <2>3, <2>5, OrderStays
  <2> QED
    BY <2>4, <2>5
<1>3. CASE Settle
  BY <1>3, OrderStays DEF Settle
<1>4. ASSUME NEW cadence \in Gaps \cup {Unknown}, PlaceMarkers(cadence)
      PROVE  OrderInv'
  BY <1>4, OrderStays DEF PlaceMarkers
<1>5. CASE UNCHANGED relocating
  BY <1>5, OrderStays DEF relocating
<1> QED
  BY <1>1, <1>2, <1>3, <1>4, <1>5 DEF RelocationNext

LEMMA OrderStarts ==
  ASSUME RelocationAssumption, ProposeInit
  PROVE  OrderInv
BY AuthoredIs DEF ProposeInit, OrderInv

LEMMA OrderIsLegal ==
  ASSUME RelocationAssumption, OrderInv
  PROVE  RelocationIsLegal
<1> DEFINE set == Indices(group)
<1>1. /\ newOrder \in Seq(set) /\ Len(newOrder) \in Nat /\ DOMAIN newOrder = 1 .. Len(newOrder)
      /\ \A p \in 1 .. Len(newOrder) : newOrder[p] \in set
  BY DEF OrderInv, Orders
<1>2. ToSet(newOrder) = set
  BY <1>1 DEF OrderInv, Orders, ToSet
<1>3. Len(newOrder) = Cardinality(set)
  <2>1. newOrder \in Bijection(1 .. Len(newOrder), set)
    <3> HIDE DEF set
    <3>1. \A p \in 1 .. Len(newOrder) : \A q \in 1 .. Len(newOrder) :
            newOrder[p] = newOrder[q] => p = q
      BY <1>1 DEF OrderInv, Orders
    <3>2. newOrder \in [1 .. Len(newOrder) -> set]
      BY <1>1
    <3>3. \A i \in set : \E p \in 1 .. Len(newOrder) : newOrder[p] = i
      BY DEF OrderInv, Orders, set
    <3>4. newOrder \in Injection(1 .. Len(newOrder), set)
      BY <3>1, <3>2 DEF Injection, IsInjective
    <3>5. newOrder \in Surjection(1 .. Len(newOrder), set)
      BY <3>2, <3>3 DEF Surjection
    <3> QED
      BY <3>4, <3>5 DEF Bijection
  <2>2. IsFiniteSet(1 .. Len(newOrder)) /\ Cardinality(1 .. Len(newOrder)) = Len(newOrder)
    BY <1>1, FS_Interval, SMTT(30)
  <2>3. ExistsBijection(1 .. Len(newOrder), set)
    BY <2>1 DEF ExistsBijection
  <2> QED
    BY <2>2, <2>3, FS_Bijection
<1>4. MixesShapes(group) => newOrder = Authored(group)
  BY DEF OrderInv
<1>5. ASSUME NEW p \in DOMAIN newOrder, NEW q \in DOMAIN newOrder,
             p < q, newOrder[q] < newOrder[p], ~ MixesShapes(group)
      PROVE  MayPass(newOrder[p], newOrder[q])
  BY <1>1, <1>5 DEF OrderInv, Lawful
<1> QED
  BY <1>2, <1>3, <1>4, <1>5 DEF RelocationIsLegal

\* propose: as long as nothing that reorders the transcript is applied, whatever the
\* moves of a group add up to, and wherever its prompts have tools, system content and
\* turns: no segment is lost or sent twice, no turn is put behind anything, and what is
\* put behind a section of another field is system content, by a mechanism that every
\* surface of the group has, or a section whose field, as roles have it, reached behind
\* that one already.
THEOREM MovesAreLegal ==
  ASSUME "high" \notin Applied
  PROVE  RelocationSpec => []RelocationIsLegal
<1>1. ProposeInit => OrderInv
  BY RelocationAssumption, OrderStarts
<1>2. OrderInv /\ [RelocationNext]_relocating => OrderInv'
  BY RelocationAssumption, OrderSteps
<1>3. OrderInv => RelocationIsLegal
  BY RelocationAssumption, OrderIsLegal
<1> QED
  BY <1>1, <1>2, <1>3, PTL DEF RelocationSpec

-----------------------------------------------------------------------------
(* The allocator: what it answers may be sent.                                   *)

\* The cheapest of some candidates is one of them.
LEMMA CheapestIsOne ==
  ASSUME NEW C, C # {}, \A c \in C : c.cost \in Nat
  PROVE  Cheapest(C) \in C /\ \A d \in C : Cheapest(C).cost <= d.cost
<1>1. PICK costs : costs = {c.cost : c \in C}
  OBVIOUS
<1>2. costs \in SUBSET Nat /\ costs # {}
  BY <1>1
<1>3. PICK x \in costs : \A y \in costs : x <= y
  BY <1>2, LeastIsThere
<1>4. PICK c \in C : c.cost = x
  BY <1>1, <1>3
<1>5. \A d \in C : c.cost <= d.cost
  BY <1>1, <1>3, <1>4
<1>6. \E e \in C : \A d \in C : e.cost <= d.cost
  BY <1>5
<1>7. Cheapest(C) = CHOOSE e \in C : \A d \in C : e.cost <= d.cost
  BY Zenon DEF Cheapest
<1> QED
  BY <1>6, <1>7

LEMMA ProductsOrdered ==
  ASSUME NEW a \in Nat, NEW b \in Nat, NEW c \in Nat, NEW d \in Nat, a <= b, c <= d
  PROVE  a * c \in Nat /\ b * d \in Nat /\ a * c <= b * d
<1>1. PICK m, n : m = b - a /\ n = d - c
  OBVIOUS
<1>2. m \in Nat /\ n \in Nat /\ b = a + m /\ d = c + n
  BY <1>1
<1>3. a * c \in Nat /\ m * c \in Nat /\ b * n \in Nat
  BY <1>2
<1>4. b * c = a * c + m * c
  BY <1>2
<1>5. b * d = b * c + b * n
  BY <1>2
<1> QED
  BY <1>3, <1>4, <1>5

-----------------------------------------------------------------------------
(* Questions.                                                                    *)

LEMMA QuestionIs ==
  ASSUME NEW q \in Questions
  PROVE  /\ q.scope \in Scopes /\ q.ids \in Seq(Segments) /\ Len(q.ids) \in Nat
         /\ DOMAIN q.ids = 1 .. Len(q.ids)
         /\ q.change \in Seq(0 .. Whole) /\ Len(q.change) = Len(q.ids)
         /\ q.gaps \in Seq(Nat) /\ q.budget \in Nat \cup {Unknown}
BY TiersAssumption DEF Question

LEMMA CumIs ==
  ASSUME NEW q \in Questions
  PROVE  \A p \in 0 .. Len(q.ids) :
           Cum(q)[p] \in Nat /\ \A r \in 0 .. p : Cum(q)[r] <= Cum(q)[p]
<1>1. PICK ids : ids = q.ids
  OBVIOUS
<1>2. ids \in Seq(Segments) /\ Len(ids) \in Nat
  BY <1>1, QuestionIs
<1>3. Cum(q) = [p \in 0 .. Len(ids) |-> Tokens(Prefix(ids, p))]
  BY <1>1, Zenon DEF Cum, CumOf
<1> SUFFICES ASSUME NEW p \in 0 .. Len(ids)
             PROVE  Cum(q)[p] \in Nat /\ \A r \in 0 .. p : Cum(q)[r] <= Cum(q)[p]
  BY <1>1
<1>4. /\ Tokens(Prefix(ids, p)) \in Nat
      /\ \A r \in 0 .. p - 1 : Tokens(Prefix(ids, r)) < Tokens(Prefix(ids, p))
  BY <1>2, LongerIsMore
<1>5. ASSUME NEW r \in 0 .. p PROVE Cum(q)[r] <= Cum(q)[p]
  <2>1. r \in 0 .. Len(ids) /\ (r = p \/ r \in 0 .. p - 1)
    BY <1>2
  <2>2. PICK few, all : few = Tokens(Prefix(ids, r)) /\ all = Tokens(Prefix(ids, p))
    OBVIOUS
  <2>3. few \in Nat /\ all \in Nat
    BY <1>2, <1>4, <2>1, <2>2, LongerIsMore
  <2>4. few <= all
    BY <1>4, <2>1, <2>2, <2>3
  <2> QED
    BY <1>3, <2>1, <2>2, <2>4
<1> QED
  BY <1>3, <1>4, <1>5

\* The recursive function of what is left unchanged.
IsLeft(f, change, p, n) ==
  f = [i \in 0 .. n |->
         IF i = 0 THEN 1 ELSE f[i - 1] * (IF i <= p THEN Whole - change[i] ELSE Whole)]

LEMMA LeftExists ==
  ASSUME NEW change, NEW p, NEW n \in Nat
  PROVE  \E f : IsLeft(f, change, p, n)
<1> DEFINE Reached == {k \in 0 .. n : \E f : IsLeft(f, change, p, k)}
<1>1. 0 \in Reached
  <2>1. IsLeft([i \in 0 .. 0 |-> 1], change, p, 0)
    BY DEF IsLeft
  <2> QED
    BY <2>1
<1>2. ASSUME NEW k \in 0 .. n - 1, k \in Reached PROVE k + 1 \in Reached
  <2>1. PICK f : IsLeft(f, change, p, k)
    BY <1>2
  <2>2. PICK g : g = [i \in 0 .. k + 1 |->
                        IF i = 0 THEN 1
                        ELSE f[i - 1] * (IF i <= p THEN Whole - change[i] ELSE Whole)]
    OBVIOUS
  <2>3. \A i \in 0 .. k : g[i] = f[i]
    BY <2>1, <2>2 DEF IsLeft
  <2>4. g = [i \in 0 .. k + 1 |->
               IF i = 0 THEN 1
               ELSE g[i - 1] * (IF i <= p THEN Whole - change[i] ELSE Whole)]
    <3>1. ASSUME NEW i \in 0 .. k + 1, i # 0 PROVE g[i - 1] = f[i - 1]
      <4>1. i - 1 \in 0 .. k
        BY <3>1
      <4> QED
        BY <2>3, <4>1
    <3> QED
      BY <2>2, <3>1
  <2> QED
    BY <2>4 DEF IsLeft
<1>3. 0 .. n \subseteq Reached
  <2> HIDE DEF Reached
  <2> QED BY <1>1, <1>2, UpToInduction
<1> QED
  BY <1>3

\* What is left of a longer prefix is less.
LEMMA LeftIsLess ==
  ASSUME NEW n \in Nat, NEW change \in Seq(0 .. Whole), Len(change) = n, NEW p \in 0 .. n,
         NEW f, IsLeft(f, change, p, n), NEW g, IsLeft(g, change, 0, n)
  PROVE  f[n] \in Nat /\ g[n] \in Nat /\ f[n] <= g[n]
<1> DEFINE Reached == {k \in 0 .. n : f[k] \in Nat /\ g[k] \in Nat /\ f[k] <= g[k]}
<1>1. 0 \in Reached
  BY DEF IsLeft
<1>2. ASSUME NEW k \in 0 .. n - 1, k \in Reached PROVE k + 1 \in Reached
  <2>1. PICK i, part : i = k + 1 /\ part = IF i <= p THEN Whole - change[i] ELSE Whole
    OBVIOUS
  <2>2. i \in 1 .. n /\ i - 1 = k
    BY <2>1
  <2>3. f[i] = f[i - 1] * part /\ g[i] = g[i - 1] * Whole
    BY <2>1, <2>2 DEF IsLeft
  <2>4. part \in Nat /\ Whole \in Nat /\ part <= Whole
    <3>1. change[i] \in 0 .. Whole
      <4>1. PICK parts : parts = 0 .. Whole
        OBVIOUS
      <4>2. change \in Seq(parts) /\ i \in 1 .. Len(change)
        BY <2>2, <4>1
      <4>3. change[i] \in parts
        BY <4>2
      <4> QED
        BY <4>1, <4>3
    <3> QED
      BY <2>1, <3>1, TiersAssumption
  <2>5. f[k] \in Nat /\ g[k] \in Nat /\ f[k] <= g[k]
    BY <1>2
  <2>6. PICK a, b : a = f[k] /\ b = g[k]
    OBVIOUS
  <2>7. a * part \in Nat /\ b * Whole \in Nat /\ a * part <= b * Whole
    BY <2>4, <2>5, <2>6, ProductsOrdered
  <2>8. f[i] = a * part /\ g[i] = b * Whole
    BY <2>2, <2>3, <2>6
  <2> QED
    BY <2>1, <2>2, <2>7, <2>8
<1>3. 0 .. n \subseteq Reached
  <2> HIDE DEF Reached
  <2> QED BY <1>1, <1>2, UpToInduction
<1> QED
  BY <1>3

LEMMA SurviveIs ==
  ASSUME NEW q \in Questions
  PROVE  Certain(q) \in Nat /\ \A p \in 0 .. Len(q.ids) : Survive(q)[p] \in 0 .. Certain(q)
<1> DEFINE n == Len(q.change)
<1>1. PICK change : change = q.change
  OBVIOUS
<1>2. change \in Seq(0 .. Whole) /\ n \in Nat /\ n = Len(q.ids) /\ n = Len(change)
  BY <1>1, QuestionIs
<1>3. Survive(q) = [p \in 0 .. n |-> (CHOOSE f : IsLeft(f, change, p, n))[n]]
  <2> DEFINE asked_ == {x.change : x \in Questions} \cup {[i \in DOMAIN s.segs |-> 0] : s \in Shapes}
  <2>1. change \in asked_
    BY <1>1
  <2>2. SurviveOf = [c \in asked_ |-> [p \in 0 .. Len(c) |->
                       (CHOOSE f : IsLeft(f, c, p, Len(c)))[Len(c)]]]
    BY Zenon DEF SurviveOf, IsLeft
  <2> HIDE DEF asked_
  <2>3. SurviveOf[change] = [p \in 0 .. Len(change) |->
                               (CHOOSE f : IsLeft(f, change, p, Len(change)))[Len(change)]]
    BY <2>1, <2>2, Zenon
  <2>4. Survive(q) = SurviveOf[change]
    BY <1>1 DEF Survive
  <2> QED
    BY <1>1, <2>3, <2>4
<1> HIDE DEF n
<1>4. ASSUME NEW p \in 0 .. n
      PROVE  \E f : IsLeft(f, change, p, n) /\ Survive(q)[p] = f[n]
  <2>1. \E f : IsLeft(f, change, p, n)
    BY <1>2, LeftExists
  <2>2. Survive(q)[p] = (CHOOSE f : IsLeft(f, change, p, n))[n]
    BY <1>3
  <2> QED
    BY <2>1, <2>2
<1>5. 0 \in 0 .. n
  BY <1>2
<1>6. PICK g : IsLeft(g, change, 0, n) /\ Survive(q)[0] = g[n]
  BY <1>4, <1>5
<1>7. Certain(q) = g[n]
  BY <1>6 DEF Certain
<1>8. ASSUME NEW p \in 0 .. n PROVE Survive(q)[p] \in 0 .. Certain(q) /\ Certain(q) \in Nat
  <2>1. PICK f : IsLeft(f, change, p, n) /\ Survive(q)[p] = f[n]
    BY <1>4
  <2>2. f[n] \in Nat /\ g[n] \in Nat /\ f[n] <= g[n]
    BY <1>1, <1>2, <1>6, <2>1, LeftIsLess
  <2> QED
    BY <1>7, <2>1, <2>2
<1> QED
  BY <1>2, <1>5, <1>8

-----------------------------------------------------------------------------
(* Sums of a function over a finite set.                                         *)

IsTotal(f, g, sets) ==
  f = [s \in sets |-> IF s = {} THEN 0
                      ELSE LET x == CHOOSE y \in s : TRUE IN g[x] + f[s \ {x}]]

UpToSize(S, n) == {s \in SUBSET S : Cardinality(s) <= n}

LEMMA SmallerSets ==
  ASSUME NEW S, IsFiniteSet(S), NEW n \in Nat, NEW s \in UpToSize(S, n + 1), s # {}
  PROVE  /\ (CHOOSE y \in s : TRUE) \in s
         /\ s \ {CHOOSE y \in s : TRUE} \in UpToSize(S, n)
<1>1. PICK x : x = CHOOSE y \in s : TRUE
  OBVIOUS
<1>2. x \in s
  BY <1>1
<1>3. s \in SUBSET S /\ Cardinality(s) <= n + 1 /\ IsFiniteSet(s)
  BY FS_Subset DEF UpToSize
<1>4. Cardinality(s \ {x}) = Cardinality(s) - 1 /\ Cardinality(s) \in Nat
  BY <1>2, <1>3, FS_RemoveElement, FS_CardinalityType
<1>5. Cardinality(s \ {x}) <= n
  BY <1>3, <1>4
<1> QED
  BY <1>1, <1>2, <1>3, <1>5 DEF UpToSize

LEMMA TotalExists ==
  ASSUME NEW g, NEW S, IsFiniteSet(S)
  PROVE  \E f : IsTotal(f, g, SUBSET S)
<1>1. PICK n \in Nat : n = Cardinality(S)
  BY FS_CardinalityType
<1> DEFINE Reached == {k \in 0 .. n : \E f : IsTotal(f, g, UpToSize(S, k))}
<1>2. 0 \in Reached
  <2>1. UpToSize(S, 0) \subseteq {{}}
    <3>1. ASSUME NEW s \in UpToSize(S, 0) PROVE s = {}
      <4>1. IsFiniteSet(s) /\ Cardinality(s) <= 0 /\ Cardinality(s) \in Nat
        BY FS_Subset, FS_CardinalityType DEF UpToSize
      <4>2. Cardinality(s) = 0
        BY <4>1
      <4> QED
        BY <4>1, <4>2, FS_EmptySet
    <3> QED
      BY <3>1
  <2>2. PICK f : f = [s \in UpToSize(S, 0) |-> 0]
    OBVIOUS
  <2>3. IsTotal(f, g, UpToSize(S, 0))
    BY <2>1, <2>2 DEF IsTotal
  <2> QED
    BY <1>1, <2>3
<1>3. ASSUME NEW k \in 0 .. n - 1, k \in Reached PROVE k + 1 \in Reached
  <2>1. PICK f : IsTotal(f, g, UpToSize(S, k))
    BY <1>3
  <2> DEFINE h == [s \in UpToSize(S, k + 1) |->
                     IF s = {} THEN 0
                     ELSE LET x == CHOOSE y \in s : TRUE IN g[x] + f[s \ {x}]]
  <2>2. k \in Nat /\ UpToSize(S, k) \subseteq UpToSize(S, k + 1)
    <3>1. ASSUME NEW s \in UpToSize(S, k) PROVE s \in UpToSize(S, k + 1)
      <4>1. IsFiniteSet(s) /\ Cardinality(s) <= k /\ Cardinality(s) \in Nat /\ s \in SUBSET S
        BY FS_Subset, FS_CardinalityType DEF UpToSize
      <4> QED
        BY <4>1 DEF UpToSize
    <3> QED
      BY <3>1
  <2>3. \A s \in UpToSize(S, k) : h[s] = f[s]
    BY <2>1, <2>2 DEF IsTotal
  <2>4. ASSUME NEW s \in UpToSize(S, k + 1), s # {}
        PROVE  h[s \ {CHOOSE y \in s : TRUE}] = f[s \ {CHOOSE y \in s : TRUE}]
    <3>1. s \ {CHOOSE y \in s : TRUE} \in UpToSize(S, k)
      BY <2>2, <2>4, SmallerSets
    <3> HIDE DEF h
    <3> QED
      BY <2>3, <3>1
  <2>5. IsTotal(h, g, UpToSize(S, k + 1))
    <3>1. ASSUME NEW s \in UpToSize(S, k + 1)
          PROVE  (IF s = {} THEN 0 ELSE LET x == CHOOSE y \in s : TRUE IN g[x] + f[s \ {x}])
                   = IF s = {} THEN 0 ELSE LET x == CHOOSE y \in s : TRUE IN g[x] + h[s \ {x}]
      <4> HIDE DEF h
      <4> QED
        BY <2>4
    <3> QED
      BY <3>1, ZenonT(30) DEF IsTotal
  <2> QED
    BY <1>1, <2>2, <2>5
<1>4. 0 .. n \subseteq Reached
  <2> HIDE DEF Reached
  <2> QED BY <1>1, <1>2, <1>3, UpToInduction
<1>5. UpToSize(S, n) = SUBSET S
  BY <1>1, FS_Subset DEF UpToSize
<1>6. n \in 0 .. n
  BY <1>1
<1> QED
  BY <1>4, <1>5, <1>6

LEMMA TotalIsNat ==
  ASSUME NEW S, IsFiniteSet(S), NEW g, \A x \in S : g[x] \in Nat,
         NEW f, IsTotal(f, g, SUBSET S)
  PROVE  f[S] \in Nat
<1>1. PICK n \in Nat : n = Cardinality(S)
  BY FS_CardinalityType
<1> DEFINE Reached == {k \in 0 .. n : \A s \in UpToSize(S, k) : f[s] \in Nat}
<1>2. 0 \in Reached
  <2>1. ASSUME NEW s \in UpToSize(S, 0) PROVE f[s] \in Nat
    <3>1. IsFiniteSet(s) /\ Cardinality(s) <= 0 /\ Cardinality(s) \in Nat /\ s \in SUBSET S
      BY FS_Subset, FS_CardinalityType DEF UpToSize
    <3>2. Cardinality(s) = 0
      BY <3>1
    <3>3. s = {}
      BY <3>1, <3>2, FS_EmptySet
    <3> QED
      BY <3>1, <3>3 DEF IsTotal
  <2> QED
    BY <1>1, <2>1
<1>3. ASSUME NEW k \in 0 .. n - 1, k \in Reached PROVE k + 1 \in Reached
  <2>1. k \in Nat
    OBVIOUS
  <2>2. ASSUME NEW s \in UpToSize(S, k + 1) PROVE f[s] \in Nat
    <3>1. CASE s = {}
      BY <3>1 DEF IsTotal
    <3>2. CASE s # {}
      <4>1. PICK x : x = CHOOSE y \in s : TRUE
        OBVIOUS
      <4>2. x \in s /\ s \ {x} \in UpToSize(S, k)
        BY <2>1, <3>2, <4>1, SmallerSets
      <4>3. s \in SUBSET S
        BY DEF UpToSize
      <4>4. f[s] = g[x] + f[s \ {x}]
        BY <3>2, <4>1, <4>3 DEF IsTotal
      <4> QED
        BY <1>3, <4>2, <4>3, <4>4
    <3> QED
      BY <3>1, <3>2
  <2> QED
    BY <1>1, <2>1, <2>2
<1>4. 0 .. n \subseteq Reached
  <2> HIDE DEF Reached
  <2> QED BY <1>1, <1>2, <1>3, UpToInduction
<1>5. S \in UpToSize(S, n) /\ n \in 0 .. n
  BY <1>1 DEF UpToSize
<1> QED
  BY <1>4, <1>5

\* A sum of natural numbers over a finite set is one.
LEMMA SumIsNat ==
  ASSUME NEW g, IsFiniteSet(DOMAIN g), \A x \in DOMAIN g : g[x] \in Nat
  PROVE  SumFunction(g) \in Nat
<1>1. PICK S : S = DOMAIN g
  OBVIOUS
<1>2. SumFunction(g) = (CHOOSE f : IsTotal(f, g, SUBSET S))[S]
  BY <1>1, Zenon DEF SumFunction, SumFunctionOnSet, FoldFunctionOnSet, MapThenFoldSet, IsTotal
<1>3. IsTotal(CHOOSE f : IsTotal(f, g, SUBSET S), g, SUBSET S)
  BY <1>1, TotalExists
<1> QED
  BY <1>1, <1>2, <1>3, TotalIsNat

-----------------------------------------------------------------------------
(* What a plan costs is a number.                                                *)

LEMMA ScopeIs ==
  ASSUME NEW q \in Questions
  PROVE  /\ ReadRate[q.scope] \in Nat /\ Lifetimes[q.scope] \in Seq({"5m", "1h"})
         /\ \A ttl \in Range(Lifetimes[q.scope]) :
              ttl \in {"5m", "1h"} /\ Premium[q.scope][ttl] \in Nat /\ Lifetime[ttl] \in Nat
<1>1. PICK s, listed : s = q.scope /\ listed = Lifetimes[s]
  OBVIOUS
<1>2. s \in Scopes
  BY <1>1, QuestionIs
<1>3. PICK names : names = {"5m", "1h"}
  OBVIOUS
<1>4. DOMAIN Lifetime = names
  BY <1>3, ReplayAssumption
<1>5. listed \in Seq(names) /\ \A ttl \in Range(listed) : Premium[s][ttl] \in Nat
  BY <1>1, <1>2, <1>4, TiersAssumption
<1>6. \A ttl \in Range(listed) : ttl \in names
  BY <1>5 DEF Range
<1>7. \A ttl \in names : Lifetime[ttl] \in Nat
  BY <1>3, ReplayAssumption
<1>8. ReadRate[s] \in Nat
  BY <1>2, TiersAssumption
<1> QED
  BY <1>1, <1>3, <1>5, <1>6, <1>7, <1>8

LEMMA GapsAre ==
  ASSUME NEW q \in Questions
  PROVE  Len(ObservedGaps(q)) \in Nat /\ DOMAIN ObservedGaps(q) = 1 .. Len(ObservedGaps(q))
<1>1. CASE q.gaps = <<>>
  <2>1. ObservedGaps(q) = <<Unknown>>
    BY <1>1 DEF ObservedGaps
  <2> QED
    BY <2>1
<1>2. CASE q.gaps # <<>>
  <2>1. PICK gaps : gaps = q.gaps
    OBVIOUS
  <2>2. gaps \in Seq(Nat) /\ ObservedGaps(q) = gaps
    BY <1>2, <2>1, QuestionIs DEF ObservedGaps
  <2> QED
    BY <2>2
<1> QED
  BY <1>1, <1>2

LEMMA ScaleIs ==
  ASSUME NEW q \in Questions
  PROVE  Scale(q) \in Nat /\ UncachedCost(q) \in Nat
<1>1. Len(ObservedGaps(q)) \in Nat /\ Certain(q) \in Nat /\ Cum(q)[Len(q.ids)] \in Nat
  BY GapsAre, SurviveIs, CumIs, QuestionIs
<1>2. PICK a, b, c : a = Len(ObservedGaps(q)) /\ b = Certain(q) /\ c = Cum(q)[Len(q.ids)]
  OBVIOUS
<1>3. a * b \in Nat /\ c * 100 \in Nat
  BY <1>1, <1>2
<1>4. (c * 100) * (a * b) \in Nat
  BY <1>3
<1> QED
  BY <1>2, <1>3, <1>4 DEF Scale, UncachedCost

\* The part of a prompt between two positions.
LEMMA PartIs ==
  ASSUME NEW q \in Questions, NEW p \in 0 .. Len(q.ids), NEW r \in 0 .. p
  PROVE  Cum(q)[p] - Cum(q)[r] \in Nat
<1>1. r \in 0 .. Len(q.ids)
  BY QuestionIs
<1>2. Cum(q)[p] \in Nat /\ Cum(q)[r] \in Nat /\ Cum(q)[r] <= Cum(q)[p]
  BY <1>1, CumIs
<1> QED
  BY <1>2

LEMMA LastCut ==
  ASSUME NEW p \in Nat, NEW cuts \in SUBSET (1 .. p)
  PROVE  Max({0} \cup cuts) \in 0 .. p
<1>1. {0} \cup cuts \in SUBSET (0 .. p) /\ {0} \cup cuts # {}
  OBVIOUS
<1>2. Max({0} \cup cuts) \in {0} \cup cuts
  BY <1>1, MaxOfBounded
<1> QED
  BY <1>1, <1>2

LEMMA BlockIs ==
  ASSUME NEW q \in Questions, NEW cuts \in SUBSET (1 .. Len(q.ids)), NEW p \in 1 .. Len(q.ids)
  PROVE  Block(q, cuts, p) \in Nat
<1>1. Len(q.ids) \in Nat
  BY QuestionIs
<1>2. PICK before : before = {c \in cuts : c < p}
  OBVIOUS
<1>3. before \in SUBSET (1 .. p) /\ p \in Nat /\ p \in 0 .. Len(q.ids)
  <2>1. PICK n : n = Len(q.ids)
    OBVIOUS
  <2>2. cuts \in SUBSET (1 .. n) /\ p \in 1 .. n /\ n \in Nat
    BY <1>1, <2>1
  <2>3. ASSUME NEW c \in before PROVE c \in 1 .. p
    <3>1. c \in cuts /\ c < p
      BY <1>2
    <3> QED
      BY <2>2, <3>1
  <2>4. p \in Nat /\ p \in 0 .. n
    BY <2>2
  <2> QED
    BY <2>1, <2>3, <2>4
<1>4. Max({0} \cup before) \in 0 .. p
  BY <1>3, LastCut
<1> QED
  BY <1>2, <1>3, <1>4, PartIs DEF Block

LEMMA TailIs ==
  ASSUME NEW q \in Questions, NEW cuts \in SUBSET (1 .. Len(q.ids))
  PROVE  TailCost(q, cuts) \in Nat
<1>1. PICK n : n = Len(q.ids)
  OBVIOUS
<1>2. n \in Nat /\ n \in 0 .. n
  BY <1>1, QuestionIs
<1>3. PICK last : last = Max({0} \cup cuts)
  OBVIOUS
<1>4. last \in 0 .. n
  BY <1>1, <1>2, <1>3, LastCut
<1>5. PICK a, b : a = Cum(q)[n] - Cum(q)[last] /\ b = Scale(q)
  OBVIOUS
<1>6. a \in Nat /\ b \in Nat
  BY <1>1, <1>2, <1>4, <1>5, PartIs, ScaleIs
<1>7. (a * 100) * b \in Nat
  BY <1>6
<1> QED
  BY <1>1, <1>3, <1>5, <1>7 DEF TailCost

\* What tokens cost that are read in some of the outcomes and written in the others.
LEMMA BillIs ==
  ASSUME NEW tokens \in Nat, NEW all \in Nat, NEW hit \in 0 .. all,
         NEW reading \in Nat, NEW writing \in Nat
  PROVE  tokens * (hit * reading + (all - hit) * writing) \in Nat
<1>1. hit \in Nat /\ all - hit \in Nat
  OBVIOUS
<1>2. PICK a, b : a = hit * reading /\ b = (all - hit) * writing
  OBVIOUS
<1>3. a \in Nat /\ b \in Nat
  BY <1>1, <1>2
<1>4. a + b \in Nat
  BY <1>3
<1>5. tokens * (a + b) \in Nat
  BY <1>4
<1> QED
  BY <1>2, <1>5

LEMMA BlockCostIs ==
  ASSUME NEW q \in Questions, NEW ttl \in Range(Lifetimes[q.scope]),
         NEW p \in 1 .. Len(q.ids), NEW from \in 0 .. p
  PROVE  BlockCost(q, ttl, from, p) \in Nat
<1>1. p \in 0 .. Len(q.ids)
  BY QuestionIs
<1>2. PICK left, all, gaps : left = Survive(q)[p] /\ all = Certain(q) /\ gaps = Len(ObservedGaps(q))
  OBVIOUS
<1>3. left \in Nat /\ all \in Nat /\ left <= all /\ gaps \in Nat
  BY <1>1, <1>2, SurviveIs, GapsAre
<1>4. PICK warm : warm = Cardinality({k \in DOMAIN ObservedGaps(q) : Alive(ObservedGaps(q)[k], ttl)})
  OBVIOUS
<1>5. warm \in Nat /\ warm <= gaps
  <2>1. {k \in DOMAIN ObservedGaps(q) : Alive(ObservedGaps(q)[k], ttl)} \in SUBSET (1 .. gaps)
    BY <1>2, GapsAre
  <2>2. IsFiniteSet(1 .. gaps) /\ Cardinality(1 .. gaps) = gaps
    BY <1>3, FS_Interval
  <2> QED
    BY <1>4, <2>1, <2>2, FS_Subset, FS_CardinalityType
<1>6. left * warm \in Nat /\ left * warm <= all * gaps
  BY <1>3, <1>5, ProductsOrdered
<1>7. all * gaps = gaps * all
  BY <1>3
<1>8. PICK hits, scale : hits = left * warm /\ scale = Scale(q)
  OBVIOUS
<1>9. hits \in 0 .. scale /\ scale \in Nat
  BY <1>2, <1>6, <1>7, <1>8, ScaleIs DEF Scale
<1>10. PICK tokens, reading, writing :
         /\ tokens = Cum(q)[p] - Cum(q)[from]
         /\ reading = ReadRate[q.scope] /\ writing = Premium[q.scope][ttl]
  OBVIOUS
<1>11. tokens \in Nat /\ reading \in Nat /\ writing \in Nat
  BY <1>1, <1>10, PartIs, ScopeIs
<1>12. tokens * (hits * reading + (scale - hits) * writing) \in Nat
  BY <1>9, <1>11, BillIs
<1>13. BlockCost(q, ttl, from, p) = tokens * (hits * reading + (scale - hits) * writing)
  BY <1>2, <1>4, <1>8, <1>10, Zenon DEF BlockCost
<1> QED
  BY <1>12, <1>13

\* A plan for a question: lifetimes that its surface lists, at positions of its prompt.
PlanFor(q, plan) ==
  /\ DOMAIN plan \in SUBSET (1 .. Len(q.ids))
  /\ \A c \in DOMAIN plan : plan[c] \in Range(Lifetimes[q.scope])

LEMMA BlockBillIs ==
  ASSUME NEW q \in Questions, NEW plan, PlanFor(q, plan), NEW gap, NEW p \in DOMAIN plan
  PROVE  BlockBill(q, plan, gap, p) \in Nat
<1>1. p \in 1 .. Len(q.ids) /\ plan[p] \in Range(Lifetimes[q.scope])
  BY DEF PlanFor
<1>2. PICK hit, all : hit = Survives(q, plan, p, gap) /\ all = Certain(q)
  OBVIOUS
<1>3. all \in Nat /\ hit \in 0 .. all
  <2>1. all \in Nat /\ \A j \in 0 .. Len(q.ids) : Survive(q)[j] \in 0 .. all
    BY <1>2, SurviveIs
  <2>2. PICK holding : holding = {j \in DOMAIN plan : j >= p /\ Alive(gap, plan[j])}
    OBVIOUS
  <2>3. CASE holding = {}
    <3>1. hit = 0
      BY <1>2, <2>2, <2>3 DEF Survives
    <3> QED
      BY <2>1, <3>1
  <2>4. CASE holding # {}
    <3>1. holding \in SUBSET Nat
      BY <2>2, QuestionIs DEF PlanFor
    <3>2. \E x \in holding : \A y \in holding : x <= y
      BY <2>4, <3>1, LeastIsThere
    <3>3. Min(holding) \in holding
      BY <3>2 DEF Min
    <3>4. Min(holding) \in 0 .. Len(q.ids)
      BY <2>2, <3>3 DEF PlanFor
    <3>5. hit = Survive(q)[Min(holding)]
      BY <1>2, <2>2, <2>4 DEF Survives
    <3> QED
      BY <2>1, <3>4, <3>5
  <2> QED
    BY <2>3, <2>4
<1>4. PICK tokens, reading, writing :
        /\ tokens = Block(q, DOMAIN plan, p)
        /\ reading = ReadRate[q.scope] /\ writing = Premium[q.scope][plan[p]]
  OBVIOUS
<1>5. tokens \in Nat /\ reading \in Nat /\ writing \in Nat
  <2>1. DOMAIN plan \in SUBSET (1 .. Len(q.ids))
    BY DEF PlanFor
  <2> QED
    BY <1>1, <1>4, <2>1, BlockIs, ScopeIs
<1>6. tokens * (hit * reading + (all - hit) * writing) \in Nat
  BY <1>3, <1>5, BillIs
<1>7. BlockBill(q, plan, gap, p) = tokens * (hit * reading + (all - hit) * writing)
  BY <1>2, <1>4, Zenon DEF BlockBill
<1> QED
  BY <1>6, <1>7

LEMMA CostIs ==
  ASSUME NEW q \in Questions, NEW plan, PlanFor(q, plan)
  PROVE  ExpectedCost(q, plan) \in Nat
<1>1. DOMAIN plan \in SUBSET (1 .. Len(q.ids)) /\ IsFiniteSet(DOMAIN plan)
  <2>1. DOMAIN plan \in SUBSET (1 .. Len(q.ids))
    BY DEF PlanFor
  <2>2. IsFiniteSet(1 .. Len(q.ids))
    BY QuestionIs, FS_Interval
  <2> QED
    BY <2>1, <2>2, FS_Subset
<1>2. PICK gaps : gaps = ObservedGaps(q)
  OBVIOUS
<1>3. IsFiniteSet(DOMAIN gaps)
  BY <1>2, GapsAre, FS_Interval
<1> DEFINE after == [k \in DOMAIN gaps |->
                       SumFunction([p \in DOMAIN plan |-> BlockBill(q, plan, gaps[k], p)])]
<1>4. ASSUME NEW k \in DOMAIN gaps PROVE after[k] \in Nat
  <2>1. PICK g : g = [p \in DOMAIN plan |-> BlockBill(q, plan, gaps[k], p)]
    OBVIOUS
  <2>2. DOMAIN g = DOMAIN plan /\ \A p \in DOMAIN g : g[p] \in Nat
    BY <2>1, BlockBillIs
  <2>3. SumFunction(g) \in Nat
    BY <1>1, <2>2, SumIsNat
  <2>4. after[k] = SumFunction(g)
    BY <2>1
  <2> QED
    BY <2>3, <2>4
<1>5. DOMAIN after = DOMAIN gaps
  OBVIOUS
<1>6. ExpectedCost(q, plan) = SumFunction(after) + TailCost(q, DOMAIN plan)
  BY <1>2, Zenon DEF ExpectedCost
<1>7. SumFunction(after) \in Nat
  <2> HIDE DEF after
  <2> QED
    BY <1>3, <1>4, <1>5, SumIsNat
<1>8. TailCost(q, DOMAIN plan) \in Nat
  BY <1>1, TailIs
<1> QED
  BY <1>6, <1>7, <1>8

-----------------------------------------------------------------------------
(* The search for one lifetime.                                                  *)

FeasibleIsThere(q) == q \in Questions /\ Minimum[q.scope] \in Nat

LEMMA FeasibleIs ==
  ASSUME NEW q, FeasibleIsThere(q)
  PROVE  /\ Len(q.ids) \in Nat /\ Feasible(q) \in SUBSET (1 .. Len(q.ids))
         /\ \A p \in Feasible(q) : Cum(q)[p] >= Minimum[q.scope]
         /\ \A p \in Feasible(q) : \A r \in 1 .. Len(q.ids) : p <= r => r \in Feasible(q)
<1>1. PICK n, least, cum : n = Len(q.ids) /\ least = Minimum[q.scope] /\ cum = Cum(q)
  OBVIOUS
<1>2. n \in Nat /\ DOMAIN q.ids = 1 .. n /\ least \in Nat
  BY <1>1, QuestionIs DEF FeasibleIsThere
<1>3. Feasible(q) = {p \in 1 .. n : cum[p] >= least}
  BY <1>1, <1>2 DEF Feasible, Positions
<1>4. ASSUME NEW p \in Feasible(q), NEW r \in 1 .. n, p <= r PROVE r \in Feasible(q)
  <2>1. p \in 1 .. n /\ cum[p] >= least /\ p \in 0 .. n /\ r \in 0 .. n /\ p \in 0 .. r
    BY <1>2, <1>3, <1>4
  <2>2. cum[p] \in Nat /\ cum[r] \in Nat /\ cum[p] <= cum[r]
    BY <1>1, <2>1, CumIs DEF FeasibleIsThere
  <2>3. cum[r] >= least
    BY <1>2, <2>1, <2>2
  <2> QED
    BY <1>3, <2>3
<1> QED
  BY <1>1, <1>2, <1>3, <1>4

\* The cuts that one step of the search keeps, by the deepest.
SearchRow(q, row, j) ==
  /\ DOMAIN row \in SUBSET Feasible(q)
  /\ \A p \in DOMAIN row :
       /\ row[p].cost \in Nat
       /\ row[p].cuts \in SUBSET Feasible(q)
       /\ IsFiniteSet(row[p].cuts) /\ Cardinality(row[p].cuts) <= j

LEMMA OneMarkerIs ==
  ASSUME NEW q, FeasibleIsThere(q), NEW ttl \in Range(Lifetimes[q.scope])
  PROVE  SearchRow(q, OneMarker(q, ttl), 1) /\ DOMAIN OneMarker(q, ttl) = Feasible(q)
<1>1. ASSUME NEW p \in Feasible(q)
      PROVE  /\ BlockCost(q, ttl, 0, p) \in Nat
             /\ {p} \in SUBSET Feasible(q) /\ IsFiniteSet({p}) /\ Cardinality({p}) <= 1
  <2>1. p \in 1 .. Len(q.ids) /\ 0 \in 0 .. p
    BY FeasibleIs
  <2>2. BlockCost(q, ttl, 0, p) \in Nat
    BY <2>1, BlockCostIs DEF FeasibleIsThere
  <2>3. IsFiniteSet({p}) /\ Cardinality({p}) = 1
    BY FS_Singleton
  <2> QED
    BY <2>2, <2>3
<1>2. OneMarker(q, ttl) =
        [p \in Feasible(q) |-> [cost |-> BlockCost(q, ttl, 0, p), cuts |-> {p}]]
  BY DEF OneMarker
<1> QED
  BY <1>1, <1>2 DEF SearchRow

LEMMA OneMoreIs ==
  ASSUME NEW q, FeasibleIsThere(q), NEW ttl \in Range(Lifetimes[q.scope]),
         NEW j \in Nat, NEW best, SearchRow(q, best, j)
  PROVE  SearchRow(q, OneMore(q, ttl, best), j + 1)
<1>1. PICK next : next = OneMore(q, ttl, best)
  OBVIOUS
<1> DEFINE Shallower(p) == {c \in DOMAIN best : c < p}
           Added(p, c) == [cost |-> best[c].cost + BlockCost(q, ttl, c, p),
                           cuts |-> best[c].cuts \cup {p}]
<1>2. next = [p \in {f \in Feasible(q) : Shallower(f) # {}} |->
                Cheapest({Added(p, c) : c \in Shallower(p)})]
  BY <1>1, Zenon DEF OneMore
<1>3. DOMAIN next \in SUBSET Feasible(q)
  BY <1>2
<1>4. ASSUME NEW p \in DOMAIN next
      PROVE  /\ next[p].cost \in Nat
             /\ next[p].cuts \in SUBSET Feasible(q)
             /\ IsFiniteSet(next[p].cuts) /\ Cardinality(next[p].cuts) <= j + 1
  <2>1. p \in Feasible(q) /\ Shallower(p) # {}
    BY <1>2
  <2>2. PICK added : added = {Added(p, c) : c \in Shallower(p)}
    OBVIOUS
  <2>3. ASSUME NEW a \in added
        PROVE  /\ a.cost \in Nat /\ a.cuts \in SUBSET Feasible(q)
               /\ IsFiniteSet(a.cuts) /\ Cardinality(a.cuts) <= j + 1
    <3>1. PICK c \in Shallower(p) : a = Added(p, c)
      BY <2>2
    <3>2. /\ c \in DOMAIN best /\ c < p /\ c \in Feasible(q) /\ best[c].cost \in Nat
          /\ best[c].cuts \in SUBSET Feasible(q)
          /\ IsFiniteSet(best[c].cuts) /\ Cardinality(best[c].cuts) <= j
      BY DEF SearchRow
    <3>3. p \in 1 .. Len(q.ids) /\ c \in 0 .. p
      <4>1. PICK n : n = Len(q.ids)
        OBVIOUS
      <4>2. n \in Nat /\ p \in 1 .. n /\ c \in 1 .. n
        BY <2>1, <3>2, <4>1, FeasibleIs
      <4> QED
        BY <3>2, <4>1, <4>2
    <3>4. BlockCost(q, ttl, c, p) \in Nat
      BY <3>3, BlockCostIs DEF FeasibleIsThere
    <3>5. IsFiniteSet(best[c].cuts \cup {p}) /\ Cardinality(best[c].cuts \cup {p}) <= j + 1
      <4>1. PICK cuts : cuts = best[c].cuts
        OBVIOUS
      <4>2. IsFiniteSet(cuts) /\ Cardinality(cuts) <= j /\ Cardinality(cuts) \in Nat
        BY <3>2, <4>1, FS_CardinalityType
      <4>3. /\ IsFiniteSet(cuts \cup {p})
            /\ Cardinality(cuts \cup {p}) = IF p \in cuts THEN Cardinality(cuts) ELSE Cardinality(cuts) + 1
        BY <4>2, FS_AddElement
      <4>4. Cardinality(cuts \cup {p}) <= j + 1
        BY <4>2, <4>3
      <4> QED
        BY <4>1, <4>3, <4>4
    <3> QED
      BY <2>1, <3>1, <3>2, <3>4, <3>5
  <2>4. added # {}
    BY <2>1, <2>2
  <2>5. Cheapest(added) \in added
    BY <2>3, <2>4, CheapestIsOne
  <2>6. next[p] = Cheapest(added)
    BY <1>2, <2>2
  <2> QED
    BY <2>3, <2>5, <2>6
<1> QED
  BY <1>1, <1>3, <1>4 DEF SearchRow

IsSearch(best, q, ttl, n) ==
  best = [j \in 1 .. n |-> IF j = 1 THEN OneMarker(q, ttl) ELSE OneMore(q, ttl, best[j - 1])]

LEMMA SearchExists ==
  ASSUME NEW q, NEW ttl, NEW n \in Nat
  PROVE  \E best : IsSearch(best, q, ttl, n)
<1> DEFINE Reached == {k \in 0 .. n : \E best : IsSearch(best, q, ttl, k)}
<1>1. 0 \in Reached
  <2>1. IsSearch([j \in 1 .. 0 |-> OneMarker(q, ttl)], q, ttl, 0)
    BY DEF IsSearch
  <2> QED
    BY <2>1
<1>2. ASSUME NEW k \in 0 .. n - 1, k \in Reached PROVE k + 1 \in Reached
  <2>1. PICK f : IsSearch(f, q, ttl, k)
    BY <1>2
  <2>2. PICK g : g = [j \in 1 .. k + 1 |-> IF j = 1 THEN OneMarker(q, ttl)
                                             ELSE OneMore(q, ttl, f[j - 1])]
    OBVIOUS
  <2>3. \A j \in 1 .. k : g[j] = f[j]
    BY <2>1, <2>2 DEF IsSearch
  <2>4. g = [j \in 1 .. k + 1 |-> IF j = 1 THEN OneMarker(q, ttl)
                                    ELSE OneMore(q, ttl, g[j - 1])]
    <3>1. ASSUME NEW j \in 1 .. k + 1, j # 1 PROVE g[j - 1] = f[j - 1]
      <4>1. j - 1 \in 1 .. k
        BY <3>1
      <4> QED
        BY <2>3, <4>1
    <3> QED
      BY <2>2, <3>1
  <2>5. k + 1 \in 0 .. n
    OBVIOUS
  <2> QED
    BY <2>4, <2>5 DEF IsSearch
<1>3. 0 .. n \subseteq Reached
  <2> HIDE DEF Reached
  <2> QED BY <1>1, <1>2, UpToInduction
<1> QED
  BY <1>3

LEMMA SearchRows ==
  ASSUME NEW q, FeasibleIsThere(q), NEW ttl \in Range(Lifetimes[q.scope]),
         NEW n \in Nat, NEW best, IsSearch(best, q, ttl, n)
  PROVE  \A j \in 1 .. n : SearchRow(q, best[j], j)
<1> DEFINE Reached == {k \in 0 .. n : k = 0 \/ SearchRow(q, best[k], k)}
<1>1. 0 \in Reached
  OBVIOUS
<1>2. ASSUME NEW k \in 0 .. n - 1, k \in Reached PROVE k + 1 \in Reached
  <2>1. PICK j : j = k + 1
    OBVIOUS
  <2>2. j \in 1 .. n /\ j - 1 = k /\ k \in Nat
    BY <2>1
  <2>3. CASE k = 0
    <3>1. best[j] = OneMarker(q, ttl) /\ j = 1
      BY <2>1, <2>2, <2>3 DEF IsSearch
    <3>2. SearchRow(q, best[j], j)
      BY <3>1, OneMarkerIs
    <3> QED
      BY <2>1, <2>2, <3>2
  <2>4. CASE k # 0
    <3>1. best[j] = OneMore(q, ttl, best[k])
      BY <2>1, <2>2, <2>4 DEF IsSearch
    <3>2. SearchRow(q, best[k], k)
      BY <1>2, <2>4
    <3>3. SearchRow(q, OneMore(q, ttl, best[k]), k + 1)
      BY <2>2, <3>2, OneMoreIs
    <3> QED
      BY <2>1, <2>2, <3>1, <3>3
  <2> QED
    BY <2>3, <2>4
<1>3. 0 .. n \subseteq Reached
  <2> HIDE DEF Reached
  <2> QED BY <1>1, <1>2, UpToInduction
<1> QED
  BY <1>3

-----------------------------------------------------------------------------
(* The plans that are scored may be sent.                                        *)

\* Longer lifetimes come first, unless the surface is known to take any order.
InOrder(q, plan) ==
  Ordering[q.scope] \in {"longest_first", Unknown} =>
    \A c, d \in DOMAIN plan : c < d => Lifetime[plan[c]] >= Lifetime[plan[d]]

Sendable(q, plan) ==
  /\ DOMAIN plan \in SUBSET Feasible(q)
  /\ Cardinality(DOMAIN plan) <= MarkerBudget(q)
  /\ \A c \in DOMAIN plan : plan[c] \in Range(Lifetimes[q.scope])
  /\ InOrder(q, plan)

Scored(q, c) == c.cost \in Nat /\ Sendable(q, c.plan)

\* A question that the allocator searches for.
Searched(q) ==
  /\ FeasibleIsThere(q)
  /\ MarkerBudget(q) \in Nat \ {0}
  /\ Lifetimes[q.scope] # <<>>

LEMMA SendableIsPlan ==
  ASSUME NEW q, Searched(q), NEW plan, Sendable(q, plan)
  PROVE  PlanFor(q, plan) /\ IsFiniteSet(DOMAIN plan)
<1>1. DOMAIN plan \in SUBSET (1 .. Len(q.ids)) /\ Len(q.ids) \in Nat
  BY FeasibleIs DEF Sendable, Searched
<1>2. IsFiniteSet(DOMAIN plan)
  <2>1. PICK n, cuts : n = Len(q.ids) /\ cuts = DOMAIN plan
    OBVIOUS
  <2>2. n \in Nat /\ cuts \in SUBSET (1 .. n)
    BY <1>1, <2>1
  <2>3. IsFiniteSet(1 .. n)
    BY <2>2, FS_Interval
  <2>4. IsFiniteSet(cuts)
    BY <2>2, <2>3, FS_Subset
  <2> QED
    BY <2>1, <2>4
<1> QED
  BY <1>1, <1>2 DEF Sendable, PlanFor

LEMMA SendableIsScored ==
  ASSUME NEW q, Searched(q), NEW plan, Sendable(q, plan)
  PROVE  Scored(q, [cost |-> ExpectedCost(q, plan), plan |-> plan])
<1>1. ExpectedCost(q, plan) \in Nat
  BY SendableIsPlan, CostIs DEF Searched, FeasibleIsThere
<1> QED
  BY <1>1 DEF Scored

\* What a search chooses from: its rows, with what follows the last cut.
KeptCuts(q, ttl, best, n) ==
  UNION {{[cost |-> best[j][p].cost + TailCost(q, best[j][p].cuts),
           plan |-> [c \in best[j][p].cuts |-> ttl]] : p \in DOMAIN best[j]} : j \in 1 .. n}

LEMMA SearchIs ==
  ASSUME NEW q, Searched(q), Feasible(q) # {}, NEW ttl \in Range(Lifetimes[q.scope])
  PROVE  Scored(q, Search(q, ttl))
<1>1. PICK n : n = MarkerBudget(q)
  OBVIOUS
<1>2. n \in Nat /\ n # 0 /\ 1 \in 1 .. n /\ FeasibleIsThere(q)
  BY <1>1 DEF Searched
<1>3. PICK best : best = CHOOSE f : IsSearch(f, q, ttl, n)
  OBVIOUS
<1>4. IsSearch(best, q, ttl, n)
  BY <1>2, <1>3, SearchExists
<1>5. \A j \in 1 .. n : SearchRow(q, best[j], j)
  BY <1>2, <1>4, SearchRows
<1>6. PICK kept : kept = KeptCuts(q, ttl, best, n)
  OBVIOUS
<1>7. Search(q, ttl) = Cheapest(kept)
  <2>1. Search(q, ttl) =
          Cheapest(KeptCuts(q, ttl, CHOOSE f : IsSearch(f, q, ttl, MarkerBudget(q)), MarkerBudget(q)))
    BY Zenon DEF Search, IsSearch, KeptCuts
  <2> QED
    BY <1>1, <1>3, <1>6, <2>1, Zenon
<1>8. ASSUME NEW k \in kept PROVE Scored(q, k)
  <2>1. PICK j \in 1 .. n : \E p \in DOMAIN best[j] :
          k = [cost |-> best[j][p].cost + TailCost(q, best[j][p].cuts),
               plan |-> [c \in best[j][p].cuts |-> ttl]]
    BY <1>6 DEF KeptCuts
  <2>2. PICK p \in DOMAIN best[j] :
          k = [cost |-> best[j][p].cost + TailCost(q, best[j][p].cuts),
               plan |-> [c \in best[j][p].cuts |-> ttl]]
    BY <2>1
  <2>3. PICK cost, cuts : cost = best[j][p].cost /\ cuts = best[j][p].cuts
    OBVIOUS
  <2>4. cost \in Nat /\ cuts \in SUBSET Feasible(q) /\ IsFiniteSet(cuts) /\ Cardinality(cuts) <= j
    BY <1>5, <2>3 DEF SearchRow
  <2>5. Cardinality(cuts) <= n
    BY <1>2, <2>4, FS_CardinalityType
  <2>6. cuts \in SUBSET (1 .. Len(q.ids))
    BY <1>2, <2>4, FeasibleIs
  <2>7. TailCost(q, cuts) \in Nat
    BY <1>2, <2>6, TailIs DEF FeasibleIsThere
  <2>8. PICK plan : plan = [c \in cuts |-> ttl]
    OBVIOUS
  <2>9. k.cost \in Nat /\ k.plan = plan
    BY <2>2, <2>3, <2>4, <2>7, <2>8
  <2>10. Lifetime[ttl] >= Lifetime[ttl]
    BY <1>2, ScopeIs DEF FeasibleIsThere
  <2>11. DOMAIN plan = cuts /\ \A c \in cuts : plan[c] = ttl
    BY <2>8
  <2>12. InOrder(q, plan)
    BY <2>10, <2>11 DEF InOrder
  <2>13. Sendable(q, plan)
    BY <1>1, <2>4, <2>5, <2>11, <2>12 DEF Sendable
  <2> QED
    BY <2>9, <2>13 DEF Scored
<1>9. kept # {}
  <2>1. best[1] = OneMarker(q, ttl)
    BY <1>2, <1>4 DEF IsSearch
  <2>2. DOMAIN best[1] # {}
    BY <1>2, <2>1, OneMarkerIs
  <2>3. PICK p : p \in DOMAIN best[1]
    BY <2>2
  <2>4. [cost |-> best[1][p].cost + TailCost(q, best[1][p].cuts),
         plan |-> [c \in best[1][p].cuts |-> ttl]] \in kept
    BY <1>2, <1>6, <2>3 DEF KeptCuts
  <2> QED
    BY <2>4
<1>10. Cheapest(kept) \in kept
  BY <1>8, <1>9, CheapestIsOne DEF Scored
<1> QED
  BY <1>7, <1>8, <1>10

LEMMA SearchesAre ==
  ASSUME NEW q, Searched(q)
  PROVE  /\ \A k \in DOMAIN Searches(q) : Scored(q, Searches(q)[k])
         /\ DOMAIN Searches(q) \in SUBSET Nat
<1>1. CASE Feasible(q) = {}
  <2>1. Searches(q) = <<>>
    BY <1>1 DEF Searches
  <2> QED
    BY <2>1
<1>2. CASE Feasible(q) # {}
  <2>1. PICK listed : listed = Lifetimes[q.scope]
    OBVIOUS
  <2>2. Searches(q) = [k \in DOMAIN listed |-> Search(q, listed[k])]
    BY <1>2, <2>1 DEF Searches
  <2>3. listed \in Seq({"5m", "1h"})
    BY <2>1, ScopeIs DEF Searched, FeasibleIsThere
  <2>4. DOMAIN listed \in SUBSET Nat
    BY <2>3
  <2>5. ASSUME NEW k \in DOMAIN listed PROVE Scored(q, Search(q, listed[k]))
    <3>1. listed[k] \in Range(Lifetimes[q.scope])
      BY <2>1 DEF Range
    <3> QED
      BY <1>2, <3>1, SearchIs
  <2> QED
    BY <2>2, <2>4, <2>5
<1> QED
  BY <1>1, <1>2

LEMMA PlacementIsSendable ==
  ASSUME NEW q, Searched(q), NEW plan \in Placements(q)
  PROVE  Sendable(q, plan)
<1>1. PICK listed, n : listed = Range(Lifetimes[q.scope]) /\ n = Len(q.ids)
  OBVIOUS
<1>2. PICK cuts : /\ cuts \in SUBSET Positions(q) /\ cuts # {}
                  /\ Cardinality(cuts) <= MarkerBudget(q) /\ Min(cuts) \in Feasible(q)
                  /\ plan \in [cuts -> listed] /\ MayBeAssigned(q, plan)
  BY <1>1 DEF Placements
<1>3. FeasibleIsThere(q) /\ q \in Questions /\ n \in Nat /\ Positions(q) = 1 .. n
  BY <1>1, QuestionIs DEF Searched, FeasibleIsThere, Positions
<1>4. cuts \in SUBSET (1 .. n)
  BY <1>2, <1>3
<1>5. ASSUME NEW c \in cuts PROVE c \in Feasible(q)
  <2>1. cuts \in SUBSET Nat
    BY <1>3, <1>4
  <2>2. \E x \in cuts : \A y \in cuts : x <= y
    BY <1>2, <2>1, LeastIsThere
  <2>3. Min(cuts) <= c
    BY <2>2 DEF Min
  <2> QED
    BY <1>1, <1>2, <1>3, <1>4, <2>3, FeasibleIs
<1>6. DOMAIN plan = cuts /\ \A c \in cuts : plan[c] \in listed
  BY <1>2
<1>7. \A ttl \in listed : Lifetime[ttl] \in Nat /\ ttl \in {"5m", "1h"}
  BY <1>1, <1>3, ScopeIs
<1>8. InOrder(q, plan)
  <2>1. CASE Cardinality(Range(plan)) = 1
    <3>1. PICK R : R = Range(plan)
      OBVIOUS
    <3>2. \A c \in cuts : plan[c] \in R
      BY <1>6, <3>1 DEF Range
    <3>3. R \in SUBSET {"5m", "1h"}
      BY <1>6, <1>7, <3>1 DEF Range
    <3>4. IsFiniteSet({"5m", "1h"})
      <4>1. {"5m", "1h"} = {"5m"} \cup {"1h"} /\ IsFiniteSet({"5m"})
        BY FS_Singleton
      <4> QED
        BY <4>1, FS_AddElement
    <3>5. IsFiniteSet(R)
      BY <3>3, <3>4, FS_Subset
    <3>6. PICK x : R = {x}
      BY <2>1, <3>1, <3>5, FS_Singleton
    <3>7. \A c \in cuts : plan[c] = x
      BY <3>2, <3>6
    <3>8. \A c \in cuts : Lifetime[x] \in Nat
      BY <1>6, <1>7, <3>7
    <3> QED
      BY <1>6, <3>7, <3>8 DEF InOrder
  <2>2. CASE ~ (Cardinality(Range(plan)) = 1)
    <3>1. Ordering[q.scope] \in {"longest_first", Unknown} =>
            \A c, d \in DOMAIN plan : c < d => Lifetime[plan[d]] <= Lifetime[plan[c]]
      BY <1>2, <2>2 DEF MayBeAssigned
    <3>2. \A c \in cuts : Lifetime[plan[c]] \in Nat
      BY <1>6, <1>7
    <3> QED
      BY <1>6, <3>1, <3>2 DEF InOrder
  <2> QED
    BY <2>1, <2>2
<1> QED
  BY <1>1, <1>2, <1>5, <1>6, <1>8 DEF Sendable

LEMMA ExhaustiveIs ==
  ASSUME NEW q, Searched(q), NEW c \in MixedExhaustive(q)
  PROVE  Scored(q, c)
<1>1. PICK scored : scored = {[cost |-> ExpectedCost(q, plan), plan |-> plan] : plan \in Placements(q)}
  OBVIOUS
<1>2. \A s \in scored : Scored(q, s)
  BY <1>1, PlacementIsSendable, SendableIsScored
<1>3. scored # {} /\ c = Cheapest(scored)
  BY <1>1 DEF MixedExhaustive
<1>4. Cheapest(scored) \in scored
  BY <1>2, <1>3, CheapestIsOne DEF Scored
<1> QED
  BY <1>2, <1>3, <1>4

LEMMA LongestIs ==
  ASSUME NEW q, Searched(q)
  PROVE  /\ Longest(q) \in Range(Lifetimes[q.scope]) /\ Shortest(q) \in Range(Lifetimes[q.scope])
         /\ \A ttl \in Range(Lifetimes[q.scope]) :
              Lifetime[ttl] <= Lifetime[Longest(q)] /\ Lifetime[Shortest(q)] <= Lifetime[ttl]
<1>1. PICK names : names = Range(Lifetimes[q.scope])
  OBVIOUS
<1>2. \A ttl \in names : ttl \in {"5m", "1h"} /\ Lifetime[ttl] \in Nat
  BY <1>1, ScopeIs DEF Searched, FeasibleIsThere
<1>3. names # {}
  <2>1. PICK listed : listed = Lifetimes[q.scope]
    OBVIOUS
  <2>2. listed \in Seq({"5m", "1h"}) /\ listed # <<>>
    BY <2>1, ScopeIs DEF Searched, FeasibleIsThere
  <2>3. 1 \in DOMAIN listed
    BY <2>2
  <2> QED
    BY <1>1, <2>1, <2>3 DEF Range
<1>4. PICK short, long : short = Lifetime["5m"] /\ long = Lifetime["1h"]
  OBVIOUS
<1>5. short \in Nat /\ long \in Nat
  BY <1>4, ReplayAssumption
<1>6. PICK a \in names : \A b \in names : Lifetime[b] <= Lifetime[a]
  <2>1. CASE "5m" \in names /\ ("1h" \in names => long <= short)
    BY <1>2, <1>4, <1>5, <2>1
  <2>2. CASE "1h" \in names /\ ("5m" \in names => short <= long)
    BY <1>2, <1>4, <1>5, <2>2
  <2> QED
    BY <1>2, <1>3, <1>5, <2>1, <2>2
<1>7. PICK c \in names : \A b \in names : Lifetime[c] <= Lifetime[b]
  <2>1. CASE "5m" \in names /\ ("1h" \in names => short <= long)
    BY <1>2, <1>4, <1>5, <2>1
  <2>2. CASE "1h" \in names /\ ("5m" \in names => long <= short)
    BY <1>2, <1>4, <1>5, <2>2
  <2> QED
    BY <1>2, <1>3, <1>5, <2>1, <2>2
<1>8. Longest(q) = CHOOSE t \in names : \A u \in names : Lifetime[u] <= Lifetime[t]
  BY <1>1, Zenon DEF Longest
<1>9. Shortest(q) = CHOOSE t \in names : \A u \in names : Lifetime[t] <= Lifetime[u]
  BY <1>1, Zenon DEF Shortest
<1>10. Longest(q) \in names /\ \A u \in names : Lifetime[u] <= Lifetime[Longest(q)]
  BY <1>6, <1>8
<1>11. Shortest(q) \in names /\ \A u \in names : Lifetime[Shortest(q)] <= Lifetime[u]
  BY <1>7, <1>9
<1> QED
  BY <1>1, <1>10, <1>11

\* The cuts of a uniform plan, relabelled, are in every order a surface may ask for.
LEMMA VariantIs ==
  ASSUME NEW q, Searched(q), NEW mixed, NEW c \in MixedVariant(q, Searches(q), mixed)
  PROVE  Scored(q, c)
<1>1. PICK arms, varied : arms = Searches(q)
                          /\ varied = {k \in DOMAIN arms : Cardinality(DOMAIN arms[k].plan) >= 2}
  OBVIOUS
<1>2. PICK cuts : cuts = DOMAIN arms[Min(varied)].plan
  OBVIOUS
<1>3. PICK plan : plan = [p \in cuts |-> IF p = Max(cuts) THEN Shortest(q) ELSE Longest(q)]
  OBVIOUS
<1>4. varied # {} /\ c = [cost |-> ExpectedCost(q, plan), plan |-> plan]
  BY <1>1, <1>2, <1>3 DEF MixedVariant
<1>5. (\A k \in DOMAIN arms : Scored(q, arms[k])) /\ DOMAIN arms \in SUBSET Nat
  BY <1>1, SearchesAre
<1>6. Min(varied) \in varied
  <2>1. varied \in SUBSET Nat
    BY <1>1, <1>5
  <2>2. \E x \in varied : \A y \in varied : x <= y
    BY <1>4, <2>1, LeastIsThere
  <2> QED
    BY <2>2 DEF Min
<1>7. Sendable(q, arms[Min(varied)].plan)
  BY <1>1, <1>5, <1>6 DEF Scored
<1>8. cuts \in SUBSET Feasible(q) /\ Cardinality(cuts) <= MarkerBudget(q)
  BY <1>2, <1>7 DEF Sendable
<1>9. PICK names : names = Range(Lifetimes[q.scope])
  OBVIOUS
<1>10. /\ Longest(q) \in names /\ Shortest(q) \in names
       /\ \A ttl \in names : /\ Lifetime[ttl] \in Nat
                             /\ Lifetime[ttl] <= Lifetime[Longest(q)]
                             /\ Lifetime[Shortest(q)] <= Lifetime[ttl]
  BY <1>9, LongestIs, ScopeIs DEF Searched, FeasibleIsThere
<1>11. DOMAIN plan = cuts /\ \A p \in cuts : plan[p] \in names
  BY <1>3, <1>10
<1>12. ASSUME NEW p \in cuts, NEW r \in cuts, p < r
       PROVE  Lifetime[plan[p]] >= Lifetime[plan[r]]
  <2>1. PICK n : n = Len(q.ids)
    OBVIOUS
  <2>2. n \in Nat /\ cuts \in SUBSET (0 .. n) /\ cuts # {}
    <3>1. Feasible(q) \in SUBSET (1 .. n) /\ n \in Nat
      BY <2>1, FeasibleIs DEF Searched
    <3> QED
      BY <1>8, <1>12, <3>1
  <2>3. Max(cuts) \in cuts /\ \A y \in cuts : y <= Max(cuts)
    BY <2>2, MaxOfBounded
  <2>4. p # Max(cuts)
    BY <1>12, <2>2, <2>3
  <2>5. plan[p] = Longest(q)
    BY <1>3, <2>4
  <2>6. Lifetime[plan[r]] \in Nat /\ Lifetime[Longest(q)] \in Nat
        /\ Lifetime[plan[r]] <= Lifetime[Longest(q)]
    BY <1>10, <1>11
  <2> QED
    BY <2>5, <2>6
<1>13. InOrder(q, plan)
  BY <1>11, <1>12 DEF InOrder
<1>14. Sendable(q, plan)
  BY <1>8, <1>9, <1>11, <1>13 DEF Sendable
<1> QED
  BY <1>4, <1>14, SendableIsScored

LEMMA BudgetIs ==
  ASSUME NEW q \in Questions, Supported(q)
  PROVE  MarkerBudget(q) \in Nat
<1>1. PICK most : most = Budget[q.scope]
  OBVIOUS
<1>2. most \in Nat
  BY <1>1, QuestionIs, TiersAssumption DEF Supported, SurfaceKnown
<1>3. CASE q.budget = Unknown
  BY <1>1, <1>2, <1>3 DEF MarkerBudget
<1>4. CASE q.budget # Unknown
  <2>1. q.budget \in Nat
    BY <1>4, QuestionIs
  <2>2. PICK S : S = {q.budget, most}
    OBVIOUS
  <2>3. S \in SUBSET Nat /\ S # {}
    BY <1>2, <2>1, <2>2
  <2>4. \E x \in S : \A y \in S : x <= y
    BY <2>3, LeastIsThere
  <2>5. Min(S) \in S
    BY <2>4 DEF Min
  <2>6. MarkerBudget(q) = Min(S)
    BY <1>1, <1>4, <2>2 DEF MarkerBudget
  <2> QED
    BY <2>3, <2>5, <2>6
<1> QED
  BY <1>3, <1>4

LEMMA AllocationIs ==
  ASSUME NEW q \in Questions, Supported(q)
  PROVE  Sendable(q, Allocation(q).plan) \/ Allocation(q).plan = <<>>
<1>1. NoMarkers(q).plan = <<>> /\ NoMarkers(q).cost \in Nat
  BY ScaleIs DEF NoMarkers
<1>2. CASE MarkerBudget(q) = 0 \/ q.ids = <<>>
  <2>1. Allocation(q) = NoMarkers(q)
    BY <1>2 DEF Allocation
  <2> QED
    BY <1>1, <2>1
<1>3. CASE MarkerBudget(q) # 0 /\ q.ids # <<>>
  <2>1. Searched(q)
    <3>1. q.scope \in Scopes /\ Minimum[q.scope] \in Nat
      BY <1>3, QuestionIs, ReplayAssumption DEF Supported
    <3>2. MarkerBudget(q) \in Nat
      BY BudgetIs
    <3>3. Lifetimes[q.scope] # <<>>
      BY DEF Supported, SurfaceKnown
    <3> QED
      BY <1>3, <3>1, <3>2, <3>3 DEF Searched, FeasibleIsThere
  <2>2. PICK arms, mixed : arms = Searches(q) /\ mixed = MixedExhaustive(q)
    OBVIOUS
  <2>3. PICK offered :
          offered = {NoMarkers(q)} \cup Range(arms) \cup mixed \cup MixedVariant(q, arms, mixed)
    OBVIOUS
  <2>4. Allocation(q) = Cheapest(offered)
    BY <1>3, <2>2, <2>3, Zenon DEF Allocation, BestOf
  <2>5. ASSUME NEW c \in offered PROVE c = NoMarkers(q) \/ Scored(q, c)
    <3>1. CASE c \in Range(arms)
      BY <2>1, <2>2, <3>1, SearchesAre DEF Range
    <3>2. CASE c \in mixed
      BY <2>1, <2>2, <3>2, ExhaustiveIs
    <3>3. CASE c \in MixedVariant(q, arms, mixed)
      BY <2>1, <2>2, <3>3, VariantIs
    <3> QED
      BY <2>3, <3>1, <3>2, <3>3
  <2>6. \A c \in offered : c.cost \in Nat
    BY <1>1, <2>5 DEF Scored
  <2>7. offered # {}
    BY <2>3
  <2>8. Cheapest(offered) \in offered
    BY <2>6, <2>7, CheapestIsOne
  <2> QED
    BY <1>1, <2>4, <2>5, <2>8 DEF Scored
<1> QED
  BY <1>2, <1>3

\* What was answered is the allocation for what was asked.
AnswerInv == Answered => asked \in Questions /\ Supported(asked) /\ answer = Allocation(asked)

LEMMA AnswerMayBeSent ==
  ASSUME AnswerInv
  PROVE  PlanMayBeSent
<1> SUFFICES ASSUME Answered PROVE PlanMayBeSent
  BY DEF PlanMayBeSent
<1>1. asked \in Questions /\ Supported(asked)
  BY DEF AnswerInv
<1>2. PICK q, plan : q = asked /\ plan = answer.plan
  OBVIOUS
<1>3. Sendable(q, plan) \/ plan = <<>>
  BY <1>1, <1>2, AllocationIs DEF AnswerInv
<1>4. CASE plan = <<>>
  <2>1. DOMAIN answer.plan = {} /\ Cardinality({}) = 0
    BY <1>2, <1>4, FS_EmptySet
  <2>2. MarkerBudget(asked) \in Nat
    BY <1>1, BudgetIs
  <2> QED
    BY <1>2, <1>4, <2>1, <2>2 DEF PlanMayBeSent
<1>5. CASE plan # <<>> /\ Sendable(q, plan)
  <2>1. DOMAIN plan \in SUBSET Feasible(q) /\ Cardinality(DOMAIN plan) <= MarkerBudget(q)
    BY <1>5 DEF Sendable
  <2>2. \A c \in DOMAIN plan : Cum(q)[c] >= Minimum[q.scope]
    BY <2>1 DEF Feasible
  <2>3. q.forMutation => q.scope \in Breakpoint
    <3>1. q.ids # <<>>
      <4>1. ASSUME q.ids = <<>> PROVE plan = <<>>
        BY <1>2, <4>1 DEF AnswerInv, Allocation, NoMarkers
      <4> QED
        BY <1>5, <4>1
    <3> QED
      BY <1>1, <1>2, <3>1 DEF Supported
  <2>4. InOrder(q, plan)
    BY <1>5 DEF Sendable
  <2> QED
    BY <1>2, <2>1, <2>2, <2>3, <2>4 DEF PlanMayBeSent, InOrder
<1> QED
  BY <1>3, <1>4, <1>5

LEMMA AnswerStarts ==
  ASSUME AllocatorInit
  PROVE  AnswerInv
BY DEF AllocatorInit, AnswerInv, Answered

LEMMA AnswerSteps ==
  ASSUME AnswerInv, [AllocatorNext]_asking
  PROVE  AnswerInv'
<1>1. CASE UNCHANGED asking
  BY <1>1 DEF asking, AnswerInv, Answered
<1>2. ASSUME NEW q \in Questions, Allocate(q) PROVE AnswerInv'
  BY <1>2 DEF Allocate, AnswerInv, Answered
<1>3. ASSUME NEW q \in Questions, Unsupported(q) PROVE AnswerInv'
  BY <1>3 DEF Unsupported, AnswerInv, Answered
<1> QED
  BY <1>1, <1>2, <1>3 DEF AllocatorNext

\* allocate, _search, _mixed_variants, _ttl_assignments: whatever the prompt, the
\* rates of change, the gaps and the registry's numbers, the plan that the allocator
\* answers with keeps to the caller's cap and the surface's, marks nothing too short
\* to cache, puts no longer lifetime behind a shorter one unless the surface is
\* recorded to take any order, and puts no marker onto a live request of a surface
\* without explicit breakpoints.
THEOREM AnswersMayBeSent ==
  AllocatorInit /\ [][AllocatorNext]_asking => []PlanMayBeSent
<1>1. AllocatorInit => AnswerInv
  BY AnswerStarts
<1>2. AnswerInv /\ [AllocatorNext]_asking => AnswerInv'
  BY AnswerSteps
<1>3. AnswerInv => PlanMayBeSent
  BY AnswerMayBeSent
<1> QED
  BY <1>1, <1>2, <1>3, PTL

================================================================================
