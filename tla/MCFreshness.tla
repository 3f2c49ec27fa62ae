------------------------------ MODULE MCFreshness ------------------------------
(* Small instances of Freshness: ingest requests, jobs and credentials are       *)
(* interchangeable, events are not, since some of them are invalid.              *)
EXTENDS Freshness, TLC

Identities == Permutations(Requests) \cup Permutations(Jobs) \cup Permutations(Credentials)

===============================================================================
