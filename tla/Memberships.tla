------------------------------ MODULE Memberships ------------------------------
(***************************************************************************)
(* The memberships of one organization and the API requests that add,       *)
(* change and delete them (api.py, rbac.py and current_organization in      *)
(* dependencies.py), on PostgreSQL.                                         *)
(*                                                                          *)
(* A request reads the role of its caller, then the membership it is about, *)
(* and only then writes; under READ COMMITTED other requests may commit     *)
(* between these steps.  Only the removal of an owner takes the             *)
(* organization's advisory lock, which it holds until its transaction ends. *)
(* A request's flush and commit are one step: until the commit no other     *)
(* transaction sees what it flushed.  That the users exist, the audit rows  *)
(* and the responses are left out.                                          *)
(***************************************************************************)
EXTENDS Naturals, FiniteSets

CONSTANTS
  Users,     \* users who have signed in
  Requests,  \* concurrent API requests (bound); each slot serves one at a time
  None       \* no membership, no lock holder, no role

ASSUME MembershipsAssumption ==
  /\ IsFiniteSet(Users)
  /\ None \notin Users \cup Requests \cup {"viewer", "analyst", "admin", "owner"}

VARIABLES
  role,         \* the memberships table: per user the role, or None
  req,          \* the requests in progress
  lock,         \* who holds pg_advisory_xact_lock(organization)
  overwritten   \* history: a write meant for a non-owner has hit an owner

vars == <<role, req, lock, overwritten>>

-----------------------------------------------------------------------------
Role == {"viewer", "analyst", "admin", "owner"}

Request ==
  [pc        : {"idle", "loading", "locking", "writing"},
   op        : {"add", "update", "delete"},
   actorRole : Role,             \* OrganizationContext.role, read once
   target    : Users \cup {None},
   requested : Role \cup {None}, \* body.role; None for a deletion
   seen      : Role \cup {None}] \* membership.role as it was loaded

Idle == [pc |-> "idle", op |-> "add", actorRole |-> "viewer", target |-> None,
         requested |-> None, seen |-> None]

Owners == {u \in Users : role[u] = "owner"}

\* create_organization makes its caller the first owner.
Init ==
  /\ \E u \in Users : role = [v \in Users |-> IF v = u THEN "owner" ELSE None]
  /\ req = [r \in Requests |-> Idle]
  /\ lock = None
  /\ overwritten = FALSE

\* has_permission(role, MEMBER_MANAGE)
ManagesMembers(actor) == actor \in {"admin", "owner"}

\* Mutation: admins may hand out any role.
CanAssignAnyRole(actor, requested) == actor \in {"admin", "owner"}

CanAssign(actor, requested) ==
  actor = "owner" \/ (actor = "admin" /\ requested # "owner")

\* removing_owner in _assert_owner_change_is_safe, and none of the additions
RemovesOwner(r) ==
  req[r].op # "add" /\ req[r].seen = "owner" /\ req[r].requested # "owner"

\* The response is sent, or the connection lost: the transaction has ended.
Ended(r) == [req EXCEPT ![r] = Idle]

-----------------------------------------------------------------------------
(* The steps of a request. *)

\* current_organization and require_permission: the caller's role is read, and a
\* caller who is no member or may not manage members gets no further (the slot stays idle).
Begin(r) ==
  /\ req[r].pc = "idle"
  /\ \E actor \in Users, target \in Users, op \in {"add", "update", "delete"} :
     \E requested \in IF op = "delete" THEN {None} ELSE Role :
       req' = IF ManagesMembers(role[actor])
              THEN [req EXCEPT ![r] =
                     [pc |-> "loading", op |-> op, actorRole |-> role[actor],
                      target |-> target, requested |-> requested, seen |-> None]]
              ELSE req
  /\ UNCHANGED <<role, lock, overwritten>>

\* add_membership: a 403 or a 409 (from the lookup, or from the insert that lost
\* a race) leaves the table alone.
Add(r) ==
  /\ req[r].pc = "loading" /\ req[r].op = "add"
  /\ role' = IF CanAssign(req[r].actorRole, req[r].requested) /\ role[req[r].target] = None
             THEN [role EXCEPT ![req[r].target] = req[r].requested]
             ELSE role
  /\ req' = Ended(r)
  /\ UNCHANGED <<lock, overwritten>>

\* The two tests of _assert_owner_change_is_safe that read nothing more.
Allowed(r, seen) ==
  /\ CanAssign(req[r].actorRole, seen)
  /\ req[r].requested # None => CanAssign(req[r].actorRole, req[r].requested)

\* _membership_or_404, then the tests: a missing membership (404) or a refusal
\* (403) ends the request.
Load(r) ==
  /\ req[r].pc = "loading" /\ req[r].op # "add"
  /\ LET seen == role[req[r].target]
         next == IF seen = "owner" /\ req[r].requested # "owner"
                 THEN "locking" ELSE "writing"
     IN  req' = IF seen # None /\ Allowed(r, seen)
                THEN [req EXCEPT ![r] = [@ EXCEPT !.pc = next, !.seen = seen]]
                ELSE Ended(r)
  /\ UNCHANGED <<role, lock, overwritten>>

\* Mutation: two removals of owners may count at the same time.
CountOwnersUnlocked(r) ==
  /\ req[r].pc = "locking"
  /\ req' = IF Cardinality(Owners) = 1 THEN Ended(r)
            ELSE [req EXCEPT ![r] = [@ EXCEPT !.pc = "writing"]]
  /\ UNCHANGED <<role, lock, overwritten>>

\* Waits for the advisory lock, then counts the committed owners; a count of one
\* (409) rolls back, and so gives the lock up again.
CountOwners(r) ==
  /\ req[r].pc = "locking"
  /\ lock = None
  /\ IF Cardinality(Owners) = 1
     THEN req' = Ended(r) /\ lock' = None
     ELSE req' = [req EXCEPT ![r] = [@ EXCEPT !.pc = "writing"]] /\ lock' = r
  /\ UNCHANGED <<role, overwritten>>

\* What the flush leaves behind.  The ORM emits no UPDATE when the role is the one
\* it loaded; an UPDATE of a row that is gone fails (StaleDataError) and a DELETE
\* of one does nothing.
Written(r) ==
  IF req[r].op = "update" /\ (req[r].requested = req[r].seen \/ role[req[r].target] = None)
  THEN role
  ELSE [role EXCEPT ![req[r].target] = req[r].requested]

\* update_membership or delete_membership: the flush and the commit.
Write(r) ==
  /\ req[r].pc = "writing"
  /\ role' = Written(r)
  /\ req' = Ended(r)
  /\ lock' = IF lock = r THEN None ELSE lock
  /\ overwritten' =
       (overwritten \/ (req[r].seen # "owner" /\ \E u \in Owners : Written(r)[u] # "owner"))

\* The server or the connection dies before the commit: everything is rolled back.
Abort(r) ==
  /\ req[r].pc # "idle"
  /\ req' = Ended(r)
  /\ lock' = IF lock = r THEN None ELSE lock
  /\ UNCHANGED <<role, overwritten>>

Next == \E r \in Requests :
          Begin(r) \/ Add(r) \/ Load(r) \/ CountOwners(r) \/ Write(r) \/ Abort(r)

Spec == Init /\ [][Next]_vars

-----------------------------------------------------------------------------
(* What must hold. *)

\* Every membership, request and lock has the shape the code gives it, and a
\* request that is about to write has loaded a membership.
TypeOK ==
  /\ role \in [Users -> Role \cup {None}]
  /\ req \in [Requests -> Request]
  /\ lock \in Requests \cup {None}
  /\ overwritten \in BOOLEAN
  /\ \A r \in Requests :
       /\ req[r].pc # "idle" => req[r].target # None
       /\ req[r].pc \in {"locking", "writing"} => req[r].op # "add" /\ req[r].seen # None

\* Whatever removals, demotions and lost connections race with one another, the
\* advisory lock keeps an owner in the organization, as long as no request has
\* written over an owner it had loaded before the promotion.
OwnerKeptUnlessOverwritten == overwritten \/ Owners # {}

\* Every owner was made one by a request that acted for an owner (rbac.py: "only
\* owners can create another owner"), however long ago the role was read.
OnlyOwnersMakeOwners ==
  [][\A u \in Users : role[u] # "owner" /\ role'[u] = "owner" =>
       \E r \in Requests : req[r].actorRole = "owner" /\ req[r].target = u
                           /\ req'[r].pc = "idle"]_vars

\* "organization must keep at least one owner" (api.py:415), without condition.
KeepsAnOwner == Owners # {}

===============================================================================
