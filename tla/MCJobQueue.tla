------------------------------ MODULE MCJobQueue ------------------------------
(* Small instances of JobQueue for TLC. *)
EXTENDS JobQueue, TLC

OnlyNow == {0}
NowOrLater == {0, 1}

\* Jobs and worker ids are interchangeable: no action orders them.
Identities == Permutations(Jobs) \cup Permutations(Workers)

===============================================================================
