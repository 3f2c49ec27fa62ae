---------------------------- MODULE MCMemberships ----------------------------
(* Small instances of Memberships for TLC. *)
EXTENDS Memberships, TLC

\* Users and request slots are interchangeable: no action orders them.
Identities == Permutations(Users) \cup Permutations(Requests)

===============================================================================
