--------------------------- MODULE MembershipsProofs ---------------------------
(* Proofs about Memberships, for any set of users and any number of requests. *)
EXTENDS Memberships, FiniteSetTheorems, TLAPS

\* The advisory lock is held exactly by the request that has counted the owners
\* and is about to remove one; and while no promotion has been overwritten, that
\* request knows of another owner.
LockInv ==
  /\ \A r \in Requests : req[r].pc = "locking" => RemovesOwner(r)
  /\ \A r \in Requests : req[r].pc = "writing" /\ RemovesOwner(r) => lock = r
  /\ \A r \in Requests : lock = r =>
       /\ req[r].pc = "writing"
       /\ RemovesOwner(r)
       /\ overwritten \/ \E u \in Owners : u # req[r].target

IInv == TypeOK /\ LockInv /\ OwnerKeptUnlessOverwritten

-----------------------------------------------------------------------------
\* A request that is over has the shape of a request.
LEMMA IdleIsRequest == Idle \in Request
BY DEF Idle, Request, Role

\* More than one owner, or none: other than 1 counted means that whoever is to go
\* is not the only one.
LEMMA NotTheOnlyOne ==
  ASSUME NEW S, IsFiniteSet(S), S # {}, Cardinality(S) # 1, NEW t
  PROVE  \E u \in S : u # t
<1> SUFFICES ASSUME \A u \in S : u = t PROVE FALSE
  OBVIOUS
<1>1. S = {t}
  OBVIOUS
<1> QED BY <1>1, FS_Singleton

\* The first owner is there from the beginning.
LEMMA InitHolds == Init => IInv
<1> SUFFICES ASSUME Init PROVE IInv
  OBVIOUS
<1> USE DEF Init
<1>1. TypeOK
  <2>1. role \in [Users -> Role \cup {None}]
    BY DEF Role
  <2>2. req \in [Requests -> Request]
    BY IdleIsRequest
  <2> QED BY <2>1, <2>2 DEF TypeOK, Idle
<1>2. LockInv
  BY MembershipsAssumption DEF LockInv, Idle
<1>3. OwnerKeptUnlessOverwritten
  BY DEF OwnerKeptUnlessOverwritten, Owners
<1> QED BY <1>1, <1>2, <1>3 DEF IInv

-----------------------------------------------------------------------------
\* What TypeOK asks of one request.
Sound(q) ==
  /\ q \in Request
  /\ q.pc # "idle" => q.target # None
  /\ q.pc \in {"locking", "writing"} => q.op # "add" /\ q.seen # None

\* A slot that takes a sound request leaves the slots sound.
LEMMA SlotStep ==
  ASSUME TypeOK, NEW r \in Requests, NEW q, Sound(q), req' = [req EXCEPT ![r] = q]
  PROVE  /\ req' \in [Requests -> Request]
         /\ \A s \in Requests : Sound(req'[s])
BY DEF TypeOK, Sound

\* The slots that the other steps end are sound too.
LEMMA EndedSlots ==
  ASSUME TypeOK, NEW r \in Requests, req' = Ended(r)
  PROVE  /\ req' \in [Requests -> Request]
         /\ \A s \in Requests : Sound(req'[s])
<1>1. Sound(Idle)
  BY IdleIsRequest DEF Sound, Idle
<1> QED BY <1>1, SlotStep DEF Ended

\* The roles a write leaves behind are roles.
LEMMA WrittenRoles ==
  ASSUME TypeOK, NEW r \in Requests, req[r].pc = "writing"
  PROVE  Written(r) \in [Users -> Role \cup {None}]
<1>1. req[r] \in Request /\ req[r].target # None
  BY DEF TypeOK
<1>2. req[r].target \in Users /\ req[r].requested \in Role \cup {None}
  BY <1>1 DEF Request
<1> QED BY <1>2 DEF Written, TypeOK

\* No step breaks a type.
LEMMA TypeStep == TypeOK /\ [Next]_vars => TypeOK'
<1> SUFFICES ASSUME TypeOK, [Next]_vars PROVE TypeOK'
  OBVIOUS
<1>1. ASSUME NEW r \in Requests, Begin(r) PROVE TypeOK'
  <2>1. PICK actor \in Users, target \in Users, op \in {"add", "update", "delete"} :
          \E requested \in IF op = "delete" THEN {None} ELSE Role :
            req' = IF ManagesMembers(role[actor])
                   THEN [req EXCEPT ![r] =
                          [pc |-> "loading", op |-> op, actorRole |-> role[actor],
                           target |-> target, requested |-> requested, seen |-> None]]
                   ELSE req
    BY <1>1 DEF Begin
  <2>2. PICK requested \in Role \cup {None} :
          req' = IF ManagesMembers(role[actor])
                 THEN [req EXCEPT ![r] =
                        [pc |-> "loading", op |-> op, actorRole |-> role[actor],
                         target |-> target, requested |-> requested, seen |-> None]]
                 ELSE req
    BY <2>1
  <2>3. UNCHANGED <<role, lock, overwritten>>
    BY <1>1 DEF Begin
  <2>4. CASE ~ManagesMembers(role[actor])
    BY <2>2, <2>3, <2>4 DEF TypeOK
  <2>5. CASE ManagesMembers(role[actor])
    <3> DEFINE q == [pc |-> "loading", op |-> op, actorRole |-> role[actor],
                     target |-> target, requested |-> requested, seen |-> None]
    <3>1. Sound(q)
      BY <2>5, MembershipsAssumption DEF Sound, Request, Role, ManagesMembers
    <3>2. req' = [req EXCEPT ![r] = q]
      BY <2>2, <2>5
    <3> HIDE DEF q
    <3> QED BY <2>3, <3>1, <3>2, SlotStep DEF TypeOK, Sound
  <2> QED BY <2>4, <2>5
<1>2. ASSUME NEW r \in Requests, Add(r) PROVE TypeOK'
  <2>1. req[r] \in Request /\ req[r].target # None
    BY <1>2 DEF TypeOK, Add
  <2>2. req[r].target \in Users /\ req[r].requested \in Role \cup {None}
    BY <2>1 DEF Request
  <2>3. role' \in [Users -> Role \cup {None}]
    BY <1>2, <2>2 DEF Add, TypeOK
  <2> QED BY <1>2, <2>3, EndedSlots DEF Add, TypeOK, Sound
<1>3. ASSUME NEW r \in Requests, Load(r) PROVE TypeOK'
  <2>1. req[r] \in Request /\ req[r].target # None
    BY <1>3 DEF TypeOK, Load
  <2> DEFINE seen == role[req[r].target]
             next == IF seen = "owner" /\ req[r].requested # "owner"
                     THEN "locking" ELSE "writing"
             q == [req[r] EXCEPT !.pc = next, !.seen = seen]
  <2>2. req' = IF seen # None /\ Allowed(r, seen) THEN [req EXCEPT ![r] = q] ELSE Ended(r)
    BY <1>3 DEF Load, TypeOK
  <2>3. UNCHANGED <<role, lock, overwritten>>
    BY <1>3 DEF Load
  <2>4. CASE req' = Ended(r)
    BY <2>3, <2>4, EndedSlots DEF TypeOK, Sound
  <2>5. CASE seen # None /\ req' = [req EXCEPT ![r] = q]
    <3>1. seen \in Role \cup {None}
      BY <2>1 DEF TypeOK, Request
    <3>2. Sound(q)
      BY <1>3, <2>1, <2>5, <3>1 DEF Sound, Request, Load
    <3> HIDE DEF q
    <3> QED BY <2>3, <2>5, <3>2, SlotStep DEF TypeOK, Sound
  <2> QED BY <2>2, <2>4, <2>5
<1>4. ASSUME NEW r \in Requests, CountOwners(r) PROVE TypeOK'
  <2>1. CASE req' = Ended(r) /\ lock' = None
    BY <1>4, <2>1, EndedSlots DEF CountOwners, TypeOK, Sound
  <2>2. CASE req' = [req EXCEPT ![r] = [@ EXCEPT !.pc = "writing"]] /\ lock' = r
    <3> DEFINE q == [req[r] EXCEPT !.pc = "writing"]
    <3>1. Sound(q)
      BY <1>4 DEF CountOwners, TypeOK, Sound, Request
    <3>2. req' = [req EXCEPT ![r] = q]
      BY <2>2 DEF TypeOK
    <3> HIDE DEF q
    <3> QED BY <1>4, <2>2, <3>1, <3>2, SlotStep DEF CountOwners, TypeOK, Sound
  <2> QED BY <1>4, <2>1, <2>2 DEF CountOwners
<1>5. ASSUME NEW r \in Requests, Write(r) PROVE TypeOK'
  <2>1. role' \in [Users -> Role \cup {None}]
    BY <1>5, WrittenRoles DEF Write
  <2>2. overwritten' \in BOOLEAN
    BY <1>5 DEF Write
  <2> QED BY <1>5, <2>1, <2>2, EndedSlots DEF Write, TypeOK, Sound
<1>6. ASSUME NEW r \in Requests, Abort(r) PROVE TypeOK'
  BY <1>6, EndedSlots DEF Abort, TypeOK, Sound
<1>7. CASE UNCHANGED vars
  BY <1>7 DEF vars, TypeOK
<1> QED BY <1>1, <1>2, <1>3, <1>4, <1>5, <1>6, <1>7 DEF Next

-----------------------------------------------------------------------------
\* A step that adds owners, at most, and leaves the lock alone, disturbs nothing
\* when the slot it moves neither holds the lock nor comes to remove an owner
\* without it.
LEMMA HarmlessStep ==
  ASSUME IInv, TypeOK', NEW r \in Requests, lock # r, lock' = lock,
         overwritten' = overwritten, Owners \subseteq Owners',
         \A s \in Requests : s # r => req'[s] = req[s],
         req'[r].pc = "locking" => RemovesOwner(r)',
         req'[r].pc # "writing" \/ ~RemovesOwner(r)'
  PROVE  LockInv' /\ OwnerKeptUnlessOverwritten'
<1>1. OwnerKeptUnlessOverwritten'
  BY DEF IInv, OwnerKeptUnlessOverwritten
<1>2. \A s \in Requests : req'[s].pc = "locking" => RemovesOwner(s)'
  BY DEF IInv, LockInv, RemovesOwner
<1>3. \A s \in Requests : req'[s].pc = "writing" /\ RemovesOwner(s)' => lock' = s
  BY DEF IInv, LockInv, RemovesOwner
<1>4. ASSUME NEW s \in Requests, lock' = s
      PROVE  /\ req'[s].pc = "writing"
             /\ RemovesOwner(s)'
             /\ overwritten' \/ \E u \in Owners' : u # req'[s].target
  BY <1>4 DEF IInv, LockInv, RemovesOwner
<1> QED BY <1>1, <1>2, <1>3, <1>4 DEF LockInv

\* A step that ends a request, its lock with it, and keeps an owner besides the
\* target of whoever holds the lock, disturbs nothing.
LEMMA EndingStep ==
  ASSUME IInv, TypeOK', NEW r \in Requests, req' = Ended(r),
         lock' = IF lock = r THEN None ELSE lock,
         overwritten' \/ (Owners' # {} /\ ~overwritten),
         overwritten' \/ \A s \in Requests : lock = s /\ s # r =>
                           \E u \in Owners' : u # req[s].target
  PROVE  LockInv' /\ OwnerKeptUnlessOverwritten'
<1>1. OwnerKeptUnlessOverwritten'
  BY DEF OwnerKeptUnlessOverwritten
<1>2. req'[r] = Idle /\ \A s \in Requests : s # r => req'[s] = req[s]
  BY DEF Ended, IInv, TypeOK
<1>3. \A s \in Requests : req'[s].pc = "locking" => RemovesOwner(s)'
  BY <1>2 DEF IInv, LockInv, RemovesOwner, Idle
<1>4. \A s \in Requests : req'[s].pc = "writing" /\ RemovesOwner(s)' => lock' = s
  BY <1>2 DEF IInv, LockInv, RemovesOwner, Idle
<1>5. ASSUME NEW s \in Requests, lock' = s
      PROVE  /\ req'[s].pc = "writing"
             /\ RemovesOwner(s)'
             /\ overwritten' \/ \E u \in Owners' : u # req'[s].target
  <2>1. s # r /\ lock = s
    BY <1>5, MembershipsAssumption
  <2> QED BY <1>2, <2>1 DEF IInv, LockInv, RemovesOwner
<1> QED BY <1>1, <1>3, <1>4, <1>5 DEF LockInv

\* The lock does its work: one step per action.
LEMMA LockStep == IInv /\ [Next]_vars => LockInv' /\ OwnerKeptUnlessOverwritten'
<1> SUFFICES ASSUME IInv, [Next]_vars
             PROVE  LockInv' /\ OwnerKeptUnlessOverwritten'
  OBVIOUS
<1>0. TypeOK /\ TypeOK'
  BY TypeStep DEF IInv
<1>1. ASSUME NEW r \in Requests, Begin(r)
      PROVE  LockInv' /\ OwnerKeptUnlessOverwritten'
  <2>1. lock # r
    BY <1>1 DEF IInv, LockInv, Begin
  <2>2. \A s \in Requests : s # r => req'[s] = req[s]
    BY <1>0, <1>1 DEF Begin, TypeOK
  <2>3. req'[r].pc \in {"idle", "loading"}
    BY <1>0, <1>1 DEF Begin, TypeOK
  <2>4. Owners' = Owners
    BY <1>1 DEF Begin, Owners
  <2> QED BY <1>0, <1>1, <2>1, <2>2, <2>3, <2>4, HarmlessStep DEF Begin
<1>2. ASSUME NEW r \in Requests, Add(r)
      PROVE  LockInv' /\ OwnerKeptUnlessOverwritten'
  <2>1. lock # r
    BY <1>2 DEF IInv, LockInv, Add
  <2>2. req'[r] = Idle /\ \A s \in Requests : s # r => req'[s] = req[s]
    BY <1>0, <1>2 DEF Add, Ended, TypeOK
  <2>3. \A u \in Users : role[u] = "owner" => role'[u] = "owner"
    BY <1>0, <1>2, MembershipsAssumption DEF Add, TypeOK
  <2>4. Owners \subseteq Owners'
    BY <2>3 DEF Owners
  <2> QED BY <1>0, <1>2, <2>1, <2>2, <2>4, HarmlessStep DEF Add, Idle
<1>3. ASSUME NEW r \in Requests, Load(r)
      PROVE  LockInv' /\ OwnerKeptUnlessOverwritten'
  <2>1. lock # r
    BY <1>3 DEF IInv, LockInv, Load
  <2>2. \A s \in Requests : s # r => req'[s] = req[s]
    BY <1>0, <1>3 DEF Load, Ended, TypeOK
  <2>3. Owners' = Owners
    BY <1>3 DEF Load, Owners
  <2>4. CASE req' = Ended(r)
    <3>1. req'[r].pc = "idle"
      BY <1>0, <2>4 DEF Ended, TypeOK, Idle
    <3> QED BY <1>0, <1>3, <2>1, <2>2, <2>3, <3>1, HarmlessStep DEF Load
  <2>5. CASE req' # Ended(r)
    <3> DEFINE seen == role[req[r].target]
               next == IF seen = "owner" /\ req[r].requested # "owner"
                       THEN "locking" ELSE "writing"
    <3>1. req' = [req EXCEPT ![r] = [req[r] EXCEPT !.pc = next, !.seen = seen]]
      BY <1>0, <1>3, <2>5 DEF Load, TypeOK
    <3>2. req[r] \in Request
      BY <1>0 DEF TypeOK
    <3>3. /\ req'[r].pc = next /\ req'[r].seen = seen
          /\ req'[r].op = req[r].op /\ req'[r].requested = req[r].requested
      BY <1>0, <3>1, <3>2 DEF TypeOK, Request
    <3>4. req[r].op # "add"
      BY <1>3 DEF Load
    <3>5. lock' = lock /\ overwritten' = overwritten /\ Owners \subseteq Owners'
      BY <1>3, <2>3 DEF Load
    <3>6. /\ req'[r].pc = "locking" => RemovesOwner(r)'
          /\ req'[r].pc # "writing" \/ ~RemovesOwner(r)'
      <4>1. RemovesOwner(r)' <=> seen = "owner" /\ req[r].requested # "owner"
        BY <3>3, <3>4 DEF RemovesOwner
      <4>2. next \in {"locking", "writing"}
            /\ (next = "locking" <=> seen = "owner" /\ req[r].requested # "owner")
        OBVIOUS
      <4> HIDE DEF seen, next
      <4> QED BY <3>3, <4>1, <4>2
    <3> HIDE DEF seen, next
    <3> QED BY <1>0, <2>1, <2>2, <3>5, <3>6, HarmlessStep
  <2> QED BY <2>4, <2>5
<1>4. ASSUME NEW r \in Requests, CountOwners(r)
      PROVE  LockInv' /\ OwnerKeptUnlessOverwritten'
  <2>1. CASE req' = Ended(r) /\ lock' = None
    <3>1. lock # r
      BY <1>4, MembershipsAssumption DEF CountOwners
    <3>2. Owners' = Owners
      BY <1>4 DEF CountOwners, Owners
    <3>3. req'[r] = Idle /\ \A s \in Requests : s # r => req'[s] = req[s]
      BY <1>0, <2>1 DEF Ended, TypeOK
    <3> QED BY <1>0, <1>4, <2>1, <3>1, <3>2, <3>3, HarmlessStep DEF CountOwners, Idle
  <2>2. CASE /\ Cardinality(Owners) # 1
             /\ req' = [req EXCEPT ![r] = [@ EXCEPT !.pc = "writing"]]
             /\ lock' = r
    <3>1. req[r] \in Request
      BY <1>0 DEF TypeOK
    <3>2. \A s \in Requests : s # r => req'[s] = req[s]
      BY <1>0, <2>2 DEF TypeOK
    <3>3. /\ req'[r].pc = "writing" /\ req'[r].seen = req[r].seen
          /\ req'[r].op = req[r].op /\ req'[r].requested = req[r].requested
          /\ req'[r].target = req[r].target
      BY <1>0, <2>2, <3>1 DEF TypeOK, Request
    <3>4. RemovesOwner(r)'
      BY <1>4, <3>3 DEF IInv, LockInv, CountOwners, RemovesOwner
    <3>5. Owners' = Owners /\ overwritten' = overwritten
      BY <1>4 DEF CountOwners, Owners
    <3>6. overwritten \/ \E u \in Owners : u # req[r].target
      <4>1. IsFiniteSet(Owners)
        BY MembershipsAssumption, FS_Subset DEF Owners
      <4> QED BY <2>2, <4>1, NotTheOnlyOne DEF IInv, OwnerKeptUnlessOverwritten
    <3>7. \A s \in Requests : lock # s
      BY <1>4, MembershipsAssumption DEF CountOwners
    <3>8. \A s \in Requests : req'[s].pc = "locking" => RemovesOwner(s)'
      BY <3>2, <3>3 DEF IInv, LockInv, RemovesOwner
    <3>9. \A s \in Requests : req'[s].pc = "writing" /\ RemovesOwner(s)' => lock' = s
      BY <2>2, <3>2, <3>7 DEF IInv, LockInv, RemovesOwner
    <3>10. LockInv'
      BY <2>2, <3>3, <3>4, <3>5, <3>6, <3>8, <3>9 DEF LockInv
    <3>11. OwnerKeptUnlessOverwritten'
      BY <3>5 DEF IInv, OwnerKeptUnlessOverwritten
    <3> QED BY <3>10, <3>11
  <2> QED BY <1>4, <2>1, <2>2 DEF CountOwners
<1>5. ASSUME NEW r \in Requests, Write(r)
      PROVE  LockInv' /\ OwnerKeptUnlessOverwritten'
  <2>1. req[r] \in Request /\ req[r].target \in Users /\ req[r].op # "add"
    BY <1>5, <1>0 DEF Write, TypeOK, Request
  <2>2. role' = Written(r) /\ role' \in [Users -> Role \cup {None}]
    BY <1>0, <1>5 DEF Write, TypeOK
  <2>3. \A u \in Users : u # req[r].target => role'[u] = role[u]
    BY <1>0, <2>1, <2>2 DEF Written, TypeOK
  <2>4. overwritten => overwritten'
    BY <1>5 DEF Write
  <2>5. CASE overwritten'
    BY <1>0, <1>5, <2>5, EndingStep DEF Write
  <2>6. CASE ~overwritten' /\ req[r].seen # "owner"
    <3>1. \A u \in Owners : role'[u] = "owner"
      BY <1>5, <2>2, <2>6 DEF Write
    <3>2. Owners \subseteq Owners'
      BY <3>1 DEF Owners
    <3>3. Owners # {}
      BY <2>4, <2>6 DEF IInv, OwnerKeptUnlessOverwritten
    <3>4. \A s \in Requests : lock = s => \E u \in Owners : u # req[s].target
      BY <2>4, <2>6 DEF IInv, LockInv
    <3> QED BY <1>0, <1>5, <2>4, <2>6, <3>2, <3>3, <3>4, EndingStep DEF Write
  <2>7. CASE ~overwritten' /\ RemovesOwner(r)
    <3>1. lock = r
      BY <1>5, <2>7 DEF IInv, LockInv, Write
    <3>2. PICK u \in Owners : u # req[r].target
      BY <2>4, <2>7, <3>1 DEF IInv, LockInv
    <3>3. u \in Owners'
      BY <2>3, <3>2 DEF Owners
    <3> QED BY <1>0, <1>5, <2>4, <2>7, <3>1, <3>3, EndingStep DEF Write
  <2>8. CASE ~overwritten' /\ req[r].seen = "owner" /\ ~RemovesOwner(r)
    <3>1. req[r].requested = "owner"
      BY <2>1, <2>8 DEF RemovesOwner
    <3>2. \A u \in Owners : role'[u] = "owner"
      BY <1>0, <2>1, <2>2, <3>1 DEF Owners, Written, TypeOK
    <3>3. Owners \subseteq Owners'
      BY <3>2 DEF Owners
    <3>4. Owners # {}
      BY <2>4, <2>8 DEF IInv, OwnerKeptUnlessOverwritten
    <3>5. \A s \in Requests : lock = s => \E u \in Owners : u # req[s].target
      BY <2>4, <2>8 DEF IInv, LockInv
    <3> QED BY <1>0, <1>5, <2>4, <2>8, <3>3, <3>4, <3>5, EndingStep DEF Write
  <2> QED BY <2>5, <2>6, <2>7, <2>8
<1>6. ASSUME NEW r \in Requests, Abort(r)
      PROVE  LockInv' /\ OwnerKeptUnlessOverwritten'
  <2>1. Owners' = Owners /\ overwritten' = overwritten
    BY <1>6 DEF Abort, Owners
  <2>2. \A s \in Requests : lock = s => overwritten \/ \E u \in Owners : u # req[s].target
    BY DEF IInv, LockInv
  <2>3. overwritten \/ Owners # {}
    BY DEF IInv, OwnerKeptUnlessOverwritten
  <2>4. overwritten \in BOOLEAN
    BY <1>0 DEF TypeOK
  <2> QED BY <1>0, <1>6, <2>1, <2>2, <2>3, <2>4, EndingStep DEF Abort
<1>7. CASE UNCHANGED vars
  BY <1>7 DEF vars, IInv, LockInv, OwnerKeptUnlessOverwritten, Owners, RemovesOwner
<1> QED BY <1>1, <1>2, <1>3, <1>4, <1>5, <1>6, <1>7 DEF Next

-----------------------------------------------------------------------------
\* The strengthened invariant holds in every reachable state.
THEOREM Inductive == Spec => []IInv
<1>1. Init => IInv
  BY InitHolds
<1>2. IInv /\ [Next]_vars => IInv'
  BY TypeStep, LockStep DEF IInv
<1> QED BY <1>1, <1>2, PTL DEF Spec

\* Memberships, requests and the lock keep their shape, whatever the users and
\* however many requests run at once.
THEOREM TypesHold == Spec => []TypeOK
<1>1. IInv => TypeOK
  BY DEF IInv
<1> QED BY <1>1, Inductive, PTL

\* An organization loses its last owner only after a request wrote over a
\* promotion it had not seen: the advisory lock leaves no other way.
THEOREM OwnerIsKept == Spec => []OwnerKeptUnlessOverwritten
<1>1. IInv => OwnerKeptUnlessOverwritten
  BY DEF IInv
<1> QED BY <1>1, Inductive, PTL

-----------------------------------------------------------------------------
\* A request that is past the tests and asks for an owner acts for an owner.
GrantInv ==
  \A r \in Requests :
    req[r].pc \in {"locking", "writing"} /\ req[r].requested = "owner"
      => req[r].actorRole = "owner"

\* The tests are made once, in Load, and nothing they read changes afterwards.
LEMMA GrantStep == TypeOK /\ GrantInv /\ [Next]_vars => GrantInv'
<1> SUFFICES ASSUME TypeOK, GrantInv, [Next]_vars PROVE GrantInv'
  OBVIOUS
<1>1. ASSUME NEW r \in Requests, Begin(r) PROVE GrantInv'
  BY <1>1 DEF Begin, TypeOK, GrantInv
<1>2. ASSUME NEW r \in Requests, Add(r) PROVE GrantInv'
  BY <1>2 DEF Add, Ended, Idle, TypeOK, GrantInv
<1>3. ASSUME NEW r \in Requests, Load(r) PROVE GrantInv'
  <2>1. req[r] \in Request
    BY DEF TypeOK
  <2>2. CASE req' = Ended(r)
    BY <2>2 DEF Ended, Idle, TypeOK, GrantInv
  <2>3. CASE req' # Ended(r)
    <3>1. Allowed(r, role[req[r].target])
      BY <1>3, <2>3 DEF Load
    <3>2. req[r].requested = "owner" => req[r].actorRole = "owner"
      BY <3>1, MembershipsAssumption DEF Allowed, CanAssign
    <3>3. PICK p, s : req' = [req EXCEPT ![r] = [@ EXCEPT !.pc = p, !.seen = s]]
      BY <1>3, <2>3 DEF Load
    <3>4. req'[r].requested = req[r].requested /\ req'[r].actorRole = req[r].actorRole
      BY <2>1, <3>3 DEF TypeOK, Request
    <3>5. \A t \in Requests : t # r => req'[t] = req[t]
      BY <3>3 DEF TypeOK
    <3> QED BY <3>2, <3>4, <3>5 DEF GrantInv
  <2> QED BY <2>2, <2>3
<1>4. ASSUME NEW r \in Requests, CountOwners(r) PROVE GrantInv'
  <2>1. CASE req' = Ended(r)
    BY <2>1 DEF Ended, Idle, TypeOK, GrantInv
  <2>2. CASE req' = [req EXCEPT ![r] = [@ EXCEPT !.pc = "writing"]]
    BY <1>4, <2>2 DEF CountOwners, TypeOK, GrantInv, Request
  <2> QED BY <1>4, <2>1, <2>2 DEF CountOwners
<1>5. ASSUME NEW r \in Requests, Write(r) PROVE GrantInv'
  BY <1>5 DEF Write, Ended, Idle, TypeOK, GrantInv
<1>6. ASSUME NEW r \in Requests, Abort(r) PROVE GrantInv'
  BY <1>6 DEF Abort, Ended, Idle, TypeOK, GrantInv
<1>7. CASE UNCHANGED vars
  BY <1>7 DEF vars, GrantInv
<1> QED BY <1>1, <1>2, <1>3, <1>4, <1>5, <1>6, <1>7 DEF Next

\* What the property asks of a single step.
LEMMA OwnerStep ==
  ASSUME TypeOK, TypeOK', GrantInv, [Next]_vars,
         NEW u \in Users, role[u] # "owner", role'[u] = "owner"
  PROVE  \E r \in Requests : req[r].actorRole = "owner" /\ req[r].target = u
                             /\ req'[r].pc = "idle"
<1>1. ASSUME NEW r \in Requests, Add(r)
      PROVE  req[r].actorRole = "owner" /\ req[r].target = u /\ req'[r].pc = "idle"
  <2>1. req'[r].pc = "idle"
    BY <1>1 DEF Add, Ended, Idle, TypeOK
  <2>2. /\ CanAssign(req[r].actorRole, req[r].requested)
        /\ role' = [role EXCEPT ![req[r].target] = req[r].requested]
    BY <1>1 DEF Add
  <2>3. req[r].target = u /\ req[r].requested = "owner"
    BY <2>2 DEF TypeOK
  <2> QED BY <2>1, <2>2, <2>3 DEF CanAssign
<1>2. ASSUME NEW r \in Requests, Write(r)
      PROVE  req[r].actorRole = "owner" /\ req[r].target = u /\ req'[r].pc = "idle"
  <2>1. req'[r].pc = "idle"
    BY <1>2 DEF Write, Ended, Idle, TypeOK
  <2>2. role' = [role EXCEPT ![req[r].target] = req[r].requested]
    BY <1>2 DEF Write, Written
  <2>3. req[r].target = u /\ req[r].requested = "owner"
    BY <2>2 DEF TypeOK
  <2> QED BY <1>2, <2>1, <2>3 DEF Write, GrantInv
<1>3. role' = role => FALSE
  OBVIOUS
<1> QED BY <1>1, <1>2, <1>3 DEF Next, Begin, Load, CountOwners, Abort, vars

\* Nobody becomes an owner but by a request that acts for an owner.
THEOREM OwnersAreMadeByOwners == Spec => OnlyOwnersMakeOwners
<1>1. Init => GrantInv
  BY DEF Init, GrantInv, Idle
<1>2. Spec => []GrantInv
  BY <1>1, GrantStep, TypesHold, PTL DEF Spec
<1>3. TypeOK /\ TypeOK' /\ GrantInv /\ [Next]_vars
        => [\A u \in Users : role[u] # "owner" /\ role'[u] = "owner" =>
              \E r \in Requests : req[r].actorRole = "owner" /\ req[r].target = u
                                  /\ req'[r].pc = "idle"]_vars
  BY OwnerStep
<1> QED BY <1>2, <1>3, TypesHold, PTL DEF Spec, OnlyOwnersMakeOwners

===============================================================================
