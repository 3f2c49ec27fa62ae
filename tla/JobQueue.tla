------------------------------- MODULE JobQueue -------------------------------
(***************************************************************************)
(* The analysis job queue of the control plane: rows of the jobs table, the *)
(* API transactions that create, cancel and retry them, and the worker      *)
(* processes that lease, analyse and finish them (worker.py, and the        *)
(* PostgreSQL function lease_analysis_job the workers call).                *)
(*                                                                          *)
(* Every API request and every worker step below is one committed database  *)
(* transaction; between two steps of a worker any other process may run.    *)
(* A worker process may die at any point of run_once.  Timestamps are       *)
(* replaced by the time that is left: scheduledIn until a job is due,       *)
(* leaseLeft until its lease ends (-1: ended), beatIn until the next        *)
(* heartbeat.  started_at and finished_at, which no decision reads, and the *)
(* payload are left out; all jobs belong to one source.                     *)
(***************************************************************************)
EXTENDS Integers, Sequences

CONSTANTS
  Jobs,         \* identities of jobs that may be created
  Workers,      \* worker ids; two live processes never share one
  None,         \* SQL NULL, and "no heartbeat thread"
  MaxAttempts,  \* jobs.max_attempts  (settings.job_max_attempts)
  LeaseTime,    \* settings.job_lease_seconds, in ticks
  RetryBase,    \* settings.job_retry_base_seconds, in ticks
  RetryMax,     \* settings.job_retry_max_seconds, in ticks
  FirstDelays,  \* scheduled_for minus now of a job created through the API
  BeatDelay,    \* bound: ticks a due heartbeat may be late and still be counted
  MaxMisses,    \* bound: where the count of failed beats in a row saturates
  MaxRetries    \* bound: how often an operator retries one job

ASSUME JobQueueAssumption ==
  /\ None \notin Int \cup Workers \cup {"analysis_error", "lease_expired"}
  /\ MaxAttempts \in Nat \ {0}
  /\ LeaseTime \in Nat \ {0}
  /\ RetryBase \in Nat /\ RetryMax \in Nat /\ RetryBase <= RetryMax
  /\ FirstDelays \subseteq 0 .. RetryMax
  /\ BeatDelay \in Nat /\ MaxMisses \in Nat /\ MaxRetries \in Nat

\* What arithmetic says of the powers the backoff takes (provers do not know ^).
ASSUME PowerAssumption == \A n \in 0 .. MaxAttempts : 2 ^ n \in Nat

VARIABLES
  jobs,     \* the jobs table
  results,  \* per job, the attempts whose AnalysisResult rows were stored
  health,   \* source_health.consecutive_failures
  worker,   \* the worker processes
  retries   \* per job, how often it was retried by an operator

vars == <<jobs, results, health, worker, retries>>

-----------------------------------------------------------------------------
JobStates == {"absent", "queued", "running", "succeeded", "dead_letter", "cancelled"}

Closed == {"succeeded", "dead_letter", "cancelled"}

\* Where run_once is; "crashed" is a process that is gone.
Working == {"loading", "analyzing", "storing", "failing", "stopping"}

\* Mutation: two beats a lease.
BeatIntervalOfHalfALease == IF LeaseTime \div 2 > 0 THEN LeaseTime \div 2 ELSE 1

\* lease_seconds / 3, and never zero.
BeatInterval == IF LeaseTime \div 3 > 0 THEN LeaseTime \div 3 ELSE 1

Job ==
  [state       : JobStates,
   attempt     : 0 .. MaxAttempts,
   scheduledIn : 0 .. RetryMax,
   leasedBy    : Workers \cup {None},
   leaseLeft   : (-1 .. LeaseTime) \cup {None},
   error       : {None, "analysis_error", "lease_expired"}]

Process ==
  [pc      : Working \cup {"idle", "crashed"},
   job     : Jobs \cup {None},       \* Lease.job_id
   attempt : 0 .. MaxAttempts,       \* Lease.attempt
   beatIn  : (-BeatDelay .. BeatInterval) \cup {None},
   misses  : 0 .. MaxMisses]

NoJob ==
  [state |-> "absent", attempt |-> 0, scheduledIn |-> 0, leasedBy |-> None,
   leaseLeft |-> None, error |-> None]

Idle == [pc |-> "idle", job |-> None, attempt |-> 0, beatIn |-> None, misses |-> 0]

Init ==
  /\ jobs = [j \in Jobs |-> NoJob]
  /\ results = [j \in Jobs |-> << >>]
  /\ health = 0
  /\ worker = [w \in Workers |-> Idle]
  /\ retries = [j \in Jobs |-> 0]

\* The job leaves the running state, if it was there, and its lease ends.
Released(row, state) ==
  [row EXCEPT !.state = state, !.leasedBy = None, !.leaseLeft = None]

-----------------------------------------------------------------------------
(* The API. *)

\* A batch with an accepted event queues a job that is due at once; a request
\* for an analysis may also schedule it for later.
CreateJob(j) ==
  /\ jobs[j].state = "absent"
  /\ \E d \in FirstDelays :
       jobs' = [jobs EXCEPT ![j] = [NoJob EXCEPT !.state = "queued", !.scheduledIn = d]]
  /\ UNCHANGED <<results, health, worker, retries>>

\* Mutation: the 409 for a job that can no longer be cancelled is missing.
CancelAnyJob(j) ==
  /\ jobs[j].state # "absent"
  /\ jobs' = [jobs EXCEPT ![j] = Released(@, "cancelled")]
  /\ UNCHANGED <<results, health, worker, retries>>

CancelJob(j) ==
  /\ jobs[j].state \in {"queued", "running"}
  /\ jobs' = [jobs EXCEPT ![j] = Released(@, "cancelled")]
  /\ UNCHANGED <<results, health, worker, retries>>

RetryJob(j) ==
  /\ jobs[j].state = "dead_letter"
  /\ retries[j] < MaxRetries
  /\ jobs' = [jobs EXCEPT ![j] = [NoJob EXCEPT !.state = "queued"]]
  /\ retries' = [retries EXCEPT ![j] = @ + 1]
  /\ UNCHANGED <<results, health, worker>>

-----------------------------------------------------------------------------
(* Leasing: one call of lease_analysis_job, made by an idle worker. *)

Expired(j) == jobs[j].state = "running" /\ jobs[j].leaseLeft < 0

\* Mutation: jobs without attempts left are skipped, and nothing buries them.
AbandonedLeftBehind == {}

\* Running jobs whose last attempt outlived its lease.
Abandoned == {j \in Jobs : Expired(j) /\ jobs[j].attempt >= MaxAttempts}

Leasable == {j \in Jobs :
               /\ jobs[j].attempt < MaxAttempts
               /\ \/ jobs[j].state = "queued" /\ jobs[j].scheduledIn = 0
                  \/ Expired(j)}

BuryAbandoned(j) ==
  [Released(jobs[j], "dead_letter") EXCEPT !.error = "lease_expired"]

\* Mutation: a burial is not counted.
HealthAfterSilentBurial == health

\* UPDATE ... FROM abandoned touches the one health row once, however many jobs.
HealthAfterBurial == IF Abandoned = {} THEN health ELSE health + 1

\* Mutation: the owner, like started_at, is only set where there is none.
HandedToButKeepingOwner(w, j) ==
  [jobs[j] EXCEPT !.state = "running", !.attempt = jobs[j].attempt + 1, !.error = None,
                  !.leasedBy = IF @ = None THEN w ELSE @, !.leaseLeft = LeaseTime]

HandedTo(w, j) ==
  [jobs[j] EXCEPT !.state = "running", !.attempt = jobs[j].attempt + 1, !.error = None,
                  !.leasedBy = w, !.leaseLeft = LeaseTime]

\* The earliest leasable job whose row no other transaction holds (FOR UPDATE
\* SKIP LOCKED): as any row may be held for a moment, any leasable job.
LeaseJob(w) ==
  /\ worker[w].pc = "idle"
  /\ \E j \in Leasable :
       /\ jobs' = [k \in Jobs |-> IF k = j THEN HandedTo(w, j)
                                  ELSE IF k \in Abandoned THEN BuryAbandoned(k)
                                  ELSE jobs[k]]
       /\ worker' = [worker EXCEPT ![w] =
                       [pc |-> "loading", job |-> j, attempt |-> jobs[j].attempt + 1,
                        beatIn |-> BeatInterval, misses |-> 0]]
  /\ health' = HealthAfterBurial
  /\ UNCHANGED <<results, retries>>

\* No job could be leased; the abandoned ones are dead-lettered all the same.
LeaseNothing(w) ==
  /\ worker[w].pc = "idle"
  /\ Abandoned # {}
  /\ jobs' = [k \in Jobs |-> IF k \in Abandoned THEN BuryAbandoned(k) ELSE jobs[k]]
  /\ health' = HealthAfterBurial
  /\ UNCHANGED <<results, worker, retries>>

-----------------------------------------------------------------------------
(* run_once, after the lease. *)

\* Mutation: only the state is looked at, as a check for cancellation would.
OwnsIfRunning(w) == jobs[worker[w].job].state = "running"

\* The test _renew_lease, _load_payloads, _complete and _fail all make: the
\* lease is the row's owner by worker id; neither its attempt nor its age counts.
Owns(w) ==
  LET row == jobs[worker[w].job] IN row.state = "running" /\ row.leasedBy = w

GoTo(w, pc) == worker' = [worker EXCEPT ![w].pc = pc]

LoadPayloads(w) ==
  /\ worker[w].pc = "loading"
  /\ GoTo(w, IF Owns(w) THEN "analyzing" ELSE "stopping")
  /\ UNCHANGED <<jobs, results, health, retries>>

Analyze(w) ==
  /\ worker[w].pc = "analyzing"
  /\ GoTo(w, "storing")
  /\ UNCHANGED <<jobs, results, health, retries>>

\* Loading, the analyzer or the completing transaction raises.
Raise(w) ==
  /\ worker[w].pc \in {"loading", "analyzing", "storing"}
  /\ GoTo(w, "failing")
  /\ UNCHANGED <<jobs, results, health, retries>>

\* The commit may reach the database and still be reported as failed.
Complete(w) ==
  LET j == worker[w].job IN
  /\ worker[w].pc = "storing"
  /\ Owns(w)
  /\ results' = [results EXCEPT ![j] = Append(@, worker[w].attempt)]
  /\ jobs' = [jobs EXCEPT ![j] = [Released(@, "succeeded") EXCEPT !.error = None]]
  /\ health' = 0
  /\ \E pc \in {"stopping", "failing"} : GoTo(w, pc)
  /\ UNCHANGED retries

\* The lease was lost in the meantime: the result is dropped.
CompleteTooLate(w) ==
  /\ worker[w].pc = "storing"
  /\ ~Owns(w)
  /\ GoTo(w, "stopping")
  /\ UNCHANGED <<jobs, results, health, retries>>

Backoff(attempt) ==
  LET wait == RetryBase * 2 ^ (IF attempt > 1 THEN attempt - 1 ELSE 0)
  IN  IF wait < RetryMax THEN wait ELSE RetryMax

StateAfterFailure(j) ==
  IF jobs[j].attempt < MaxAttempts THEN "queued" ELSE "dead_letter"

Fail(w) ==
  LET j == worker[w].job IN
  /\ worker[w].pc = "failing"
  /\ Owns(w)
  /\ jobs' = [jobs EXCEPT ![j] =
       [Released(@, StateAfterFailure(j)) EXCEPT
          !.scheduledIn = Backoff(jobs[j].attempt), !.error = "analysis_error"]]
  /\ health' = health + 1
  /\ GoTo(w, "stopping")
  /\ UNCHANGED <<results, retries>>

FailTooLate(w) ==
  /\ worker[w].pc = "failing"
  /\ ~Owns(w)
  /\ GoTo(w, "stopping")
  /\ UNCHANGED <<jobs, results, health, retries>>

\* finally: the heartbeat thread is stopped and joined, then the loop goes on.
Stop(w) ==
  /\ worker[w].pc = "stopping"
  /\ worker' = [worker EXCEPT ![w] = Idle]
  /\ UNCHANGED <<jobs, results, health, retries>>

-----------------------------------------------------------------------------
(* The heartbeat thread: it beats until it is joined or finds the lease lost. *)

BeatDue(w) == worker[w].beatIn \in Int /\ worker[w].beatIn <= 0

\* Mutation: the row is renewed by its id, whoever has it.
RenewAnyLease(w) ==
  /\ BeatDue(w)
  /\ jobs' = [jobs EXCEPT ![worker[w].job].leaseLeft = LeaseTime]
  /\ worker' = [worker EXCEPT ![w] = [@ EXCEPT !.beatIn = BeatInterval, !.misses = 0]]
  /\ UNCHANGED <<results, health, retries>>

Renew(w) ==
  /\ BeatDue(w)
  /\ Owns(w)
  /\ jobs' = [jobs EXCEPT ![worker[w].job].leaseLeft = LeaseTime]
  /\ worker' = [worker EXCEPT ![w] = [@ EXCEPT !.beatIn = BeatInterval, !.misses = 0]]
  /\ UNCHANGED <<results, health, retries>>

RenewTooLate(w) ==
  /\ BeatDue(w)
  /\ ~Owns(w)
  /\ worker' = [worker EXCEPT ![w].beatIn = None]
  /\ UNCHANGED <<jobs, results, health, retries>>

\* Failed beats in a row, counted up to MaxMisses.
OneMore(misses) == IF misses < MaxMisses THEN misses + 1 ELSE misses

\* The renewing transaction raises; the thread waits for the next beat.
MissBeat(w) ==
  /\ BeatDue(w)
  /\ worker' = [worker EXCEPT ![w] =
       [@ EXCEPT !.beatIn = BeatInterval, !.misses = OneMore(worker[w].misses)]]
  /\ UNCHANGED <<jobs, results, health, retries>>

-----------------------------------------------------------------------------
(* The environment: processes die and are restarted, time passes. *)

\* Killed, or _fail itself raises: nothing catches that in run_once or main.
Crash(w) ==
  /\ worker[w].pc \in Working
  /\ worker' = [worker EXCEPT ![w] = [Idle EXCEPT !.pc = "crashed"]]
  /\ UNCHANGED <<jobs, results, health, retries>>

\* Under the same id (--worker-id) or, as a spare member of Workers, a new one.
Restart(w) ==
  /\ worker[w].pc = "crashed"
  /\ worker' = [worker EXCEPT ![w] = Idle]
  /\ UNCHANGED <<jobs, results, health, retries>>

\* One tick less, down to the floor.
Sooner(left, floor) == IF left \in Int /\ left > floor THEN left - 1 ELSE left

Tick ==
  /\ jobs' = [j \in Jobs |-> [jobs[j] EXCEPT !.scheduledIn = Sooner(@, 0),
                                             !.leaseLeft = Sooner(@, -1)]]
  /\ worker' = [w \in Workers |-> [worker[w] EXCEPT !.beatIn = Sooner(@, -BeatDelay)]]
  /\ UNCHANGED <<results, health, retries>>

\* Time does not run away from a heartbeat thread: it is at most BeatDelay late.
PunctualTick ==
  /\ \A w \in Workers : BeatDue(w) => worker[w].beatIn > -BeatDelay
  /\ Tick

-----------------------------------------------------------------------------
Api == \E j \in Jobs : CreateJob(j) \/ CancelJob(j) \/ RetryJob(j)

Poll(w) == LeaseJob(w) \/ LeaseNothing(w)

RunOnce(w) ==
  \/ LoadPayloads(w) \/ Analyze(w) \/ Raise(w)
  \/ Complete(w) \/ CompleteTooLate(w) \/ Fail(w) \/ FailTooLate(w) \/ Stop(w)

Heartbeat(w) == Renew(w) \/ RenewTooLate(w) \/ MissBeat(w)

Processes == \E w \in Workers :
  Poll(w) \/ RunOnce(w) \/ Heartbeat(w) \/ Crash(w) \/ Restart(w)

Next == Api \/ Processes \/ Tick

Spec == Init /\ [][Next]_vars

PunctualSpec == Init /\ [][Api \/ Processes \/ PunctualTick]_vars

\* Workers poll, run_once returns, supervisors restart what died, time passes.
\* Nothing is assumed of operators, of heartbeats or of crashes.
Fairness ==
  /\ \A w \in Workers : WF_vars(Poll(w)) /\ WF_vars(RunOnce(w)) /\ WF_vars(Restart(w))
  /\ WF_vars(Tick)

FairSpec == Spec /\ Fairness

-----------------------------------------------------------------------------
(* What must hold. *)

\* Every row, process and stored result has the shape the code gives it.
TypeOK ==
  /\ jobs \in [Jobs -> Job]
  /\ results \in [Jobs -> Seq(1 .. MaxAttempts)]
  /\ health \in Nat
  /\ worker \in [Workers -> Process]
  /\ retries \in [Jobs -> 0 .. MaxRetries]

\* A lease (owner and end) is on a row exactly while the job is running, through
\* every path that ends one: completion, failure, cancellation, burial, reclaim.
LeaseOnlyWhileRunning ==
  \A j \in Jobs : /\ jobs[j].state = "running" <=> jobs[j].leasedBy # None
                  /\ jobs[j].state = "running" <=> jobs[j].leaseLeft # None

\* The worker id alone fences off stale workers, though the attempt is never
\* compared: a process that passes the ownership test holds the row's current
\* attempt, whatever crashes, reclaims, cancellations and retries came between.
OwnerHoldsCurrentAttempt ==
  \A w \in Workers : worker[w].pc \in Working /\ Owns(w) =>
    worker[w].attempt = jobs[worker[w].job].attempt

\* A job has its one analysis result exactly when it succeeded, and it is the
\* result of the attempt the row names: the unique key on analysis_results.job_id
\* is never hit, a cancelled or buried job has no result, a late worker adds none.
ResultIffSucceeded ==
  \A j \in Jobs : results[j] =
    IF jobs[j].state = "succeeded" THEN << jobs[j].attempt >> ELSE << >>

\* A job is buried only when all its attempts are used up, and it says why.
BuriedOnlyWhenExhausted ==
  \A j \in Jobs : jobs[j].state = "dead_letter" =>
    jobs[j].attempt = MaxAttempts /\ jobs[j].error # None

\* While its heartbeat thread is punctual, a worker that has missed at most one
\* beat in a row never loses its lease to expiry: one renewal every third of the
\* lease, and an end that must be strictly past, leave room for one failure.
HeartbeatKeepsLease ==
  \A w \in Workers :
    worker[w].pc \in Working /\ Owns(w) /\ worker[w].misses < MaxMisses
      => ~Expired(worker[w].job)

\* Nothing but time passes over the row: the wait it was given, if any, goes by.
OnlyWaits(j) ==
  \E left \in {jobs[j].scheduledIn, Sooner(jobs[j].scheduledIn, 0)} :
    jobs'[j] = [jobs[j] EXCEPT !.scheduledIn = left]

\* A closed job never changes again: whatever workers that lost it still do, its
\* state, attempt, error and stored result stay, and no lease comes back on it. Only
\* an operator's retry opens a buried one, and then as a new job, with no attempt
\* used and no error left.
ClosedJobsStay ==
  \A j \in Jobs : jobs[j].state \in Closed =>
    /\ results'[j] = results[j]
    /\ \/ OnlyWaits(j)
       \/ /\ jobs[j].state = "dead_letter"
          /\ jobs'[j] = [NoJob EXCEPT !.state = "queued"]

ClosedJobsStayClosed == [][ClosedJobsStay]_vars

\* A job is never buried without the source's failure count going up, by either
\* path: the last failed attempt, or a lease that ran out with no attempt left.
BurialIsCounted == \A j \in Jobs :
  jobs[j].state # "dead_letter" /\ jobs'[j].state = "dead_letter" => health' > health

NoSilentBurial == [][BurialIsCounted]_vars

\* Whatever crashes and lost heartbeats do, a job that is due or running is in
\* the end answered, cancelled or buried.
EveryJobCloses ==
  \A j \in Jobs : jobs[j].state \in {"queued", "running"} ~> jobs[j].state \in Closed

-----------------------------------------------------------------------------
(* The queue implements what AnalysisJobs promises. *)

Status(state) ==
  CASE state = "absent" -> "none"
    [] state \in {"queued", "running"} -> "open"
    [] state = "succeeded" -> "done"
    [] state = "dead_letter" -> "dead"
    [] state = "cancelled" -> "cancelled"

Promised == INSTANCE AnalysisJobs WITH
  status    <- [j \in Jobs |-> Status(jobs[j].state)],
  runs      <- [j \in Jobs |-> jobs[j].attempt],
  published <- [j \in Jobs |-> Len(results[j])]

KeepsPromise == Promised!Spec
===============================================================================
