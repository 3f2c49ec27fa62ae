----------------------------- MODULE AnalysisJobs -----------------------------
(***************************************************************************)
(* What the analysis queue of the control plane promises its callers, one   *)
(* job at a time and with workers, leases, clocks and heartbeats left out:  *)
(* a submitted job is handed out at most MaxAttempts times, is answered by  *)
(* one published result or by none, and once it is answered or cancelled it *)
(* stays so.  Only a job that was given up can be opened again.             *)
(* JobQueue is shown to implement this module.                              *)
(***************************************************************************)
EXTENDS Naturals

CONSTANTS Jobs,         \* identities of jobs
          MaxAttempts   \* times a job is handed out before it is given up

VARIABLES status,       \* what a caller of the API is told about the job
          runs,         \* times it was handed out since it was (re)opened
          published     \* results published for it

vars == <<status, runs, published>>

Init ==
  /\ status = [j \in Jobs |-> "none"]
  /\ runs = [j \in Jobs |-> 0]
  /\ published = [j \in Jobs |-> 0]

Become(j, s, n, p) ==
  /\ status'[j] = s
  /\ runs'[j] = n
  /\ published'[j] = p

Submit(j)  == status[j] = "none" /\ Become(j, "open", 0, published[j])

HandOut(j) == /\ status[j] = "open"
              /\ runs[j] < MaxAttempts
              /\ Become(j, "open", runs[j] + 1, published[j])

Publish(j) == /\ status[j] = "open"
              /\ runs[j] > 0
              /\ Become(j, "done", runs[j], published[j] + 1)

GiveUp(j)  == /\ status[j] = "open"
              /\ runs[j] = MaxAttempts
              /\ Become(j, "dead", runs[j], published[j])

Cancel(j)  == status[j] = "open" /\ Become(j, "cancelled", runs[j], published[j])

Reopen(j)  == status[j] = "dead" /\ Become(j, "open", 0, published[j])

Rest(j)    == Become(j, status[j], runs[j], published[j])

\* One transaction may move several jobs (a lease also gives up abandoned ones).
Next ==
  /\ status' \in [Jobs -> {"none", "open", "done", "dead", "cancelled"}]
  /\ runs' \in [Jobs -> 0 .. MaxAttempts]
  /\ published' \in [Jobs -> Nat]
  /\ \A j \in Jobs : \/ Submit(j) \/ HandOut(j) \/ Publish(j) \/ GiveUp(j)
                     \/ Cancel(j) \/ Reopen(j) \/ Rest(j)

Spec == Init /\ [][Next]_vars
===============================================================================
