---------------------------- MODULE JobQueueProofs ----------------------------
(***************************************************************************)
(* What holds of JobQueue for any jobs, workers, attempts and timings.      *)
(*                                                                          *)
(* Types and safety are proved together with ProcessShape, which says where *)
(* a process stands when it acts on a row: the ownership test reads the row *)
(* of the leased job, so it means something only of a process with a job.   *)
(***************************************************************************)
EXTENDS JobQueue, TLAPS

\* A process has a job exactly while run_once works on it, and only then a
\* heartbeat thread, which is started after the lease and joined before the end.
ProcessShape ==
  \A w \in Workers :
    /\ worker[w].pc \in Working =>
         worker[w].job \in Jobs /\ worker[w].attempt \in 1 .. MaxAttempts
    /\ worker[w].beatIn # None => worker[w].pc \in Working

Typed == TypeOK /\ ProcessShape

\* min(retry_max, base * 2 ** (attempt - 1)) is a delay of at most retry_max.
LEMMA BackoffBounded ==
  ASSUME NEW a \in 0 .. MaxAttempts
  PROVE  Backoff(a) \in 0 .. RetryMax
<1>1. (IF a > 1 THEN a - 1 ELSE 0) \in 0 .. MaxAttempts
  BY JobQueueAssumption
<1>2. 2 ^ (IF a > 1 THEN a - 1 ELSE 0) \in Nat
  BY <1>1, PowerAssumption
<1>3. RetryBase * 2 ^ (IF a > 1 THEN a - 1 ELSE 0) \in Nat
  BY <1>2, JobQueueAssumption
<1>. QED  BY <1>3, JobQueueAssumption DEF Backoff

\* A third of the lease is at least a tick.
LEMMA BeatIntervalPositive == BeatInterval \in Nat \ {0}
BY JobQueueAssumption DEF BeatInterval

\* NULL is none of the numbers, names and workers it stands in for.
LEMMA NoneIsApart ==
  /\ None \notin Int
  /\ None \notin Workers
  /\ None # "analysis_error" /\ None # "lease_expired"
BY JobQueueAssumption

LEMMA InitTyped == Init => Typed
BY JobQueueAssumption, BeatIntervalPositive, NoneIsApart
   DEF Init, Typed, TypeOK, ProcessShape, Job, JobStates, Process, Working, NoJob, Idle

\* A row that is released is still a row, without a lease.
LEMMA ReleasedIsJob ==
  ASSUME NEW row \in Job, NEW s \in JobStates
  PROVE  /\ Released(row, s) \in Job
         /\ Released(row, s).state = s
         /\ Released(row, s).attempt = row.attempt
         /\ Released(row, s).leasedBy = None
         /\ Released(row, s).leaseLeft = None
BY DEF Released, Job

\* So is one that is handed out.
LEMMA HandedOutIsJob ==
  ASSUME NEW row \in Job, NEW n \in 0 .. MaxAttempts, NEW w \in Workers
  PROVE  [row EXCEPT !.state = "running", !.attempt = n, !.error = None,
                     !.leasedBy = w, !.leaseLeft = LeaseTime] \in Job
<1>. LeaseTime \in -1 .. LeaseTime
  BY JobQueueAssumption
<1>. QED  BY DEF Job, JobStates

LEMMA NoJobIsJob == NoJob \in Job
BY JobQueueAssumption DEF NoJob, Job, JobStates

-----------------------------------------------------------------------------
(* One lemma per group of actions: each keeps types and process shape. *)

LEMMA ApiTyped ==
  ASSUME Typed, NEW j \in Jobs, CreateJob(j) \/ CancelJob(j) \/ RetryJob(j)
  PROVE  Typed'
<1>. USE DEF Typed, TypeOK, ProcessShape
<1>1. CASE CreateJob(j)
  <2>1. PICK d \in FirstDelays :
          jobs' = [jobs EXCEPT ![j] = [NoJob EXCEPT !.state = "queued", !.scheduledIn = d]]
    BY <1>1 DEF CreateJob
  <2>2. [NoJob EXCEPT !.state = "queued", !.scheduledIn = d] \in Job
    BY NoJobIsJob, JobQueueAssumption DEF Job, JobStates
  <2>. QED  BY <1>1, <2>1, <2>2 DEF CreateJob
<1>2. CASE CancelJob(j)
  <2>1. Released(jobs[j], "cancelled") \in Job
    BY ReleasedIsJob DEF JobStates
  <2>. QED  BY <1>2, <2>1 DEF CancelJob
<1>3. CASE RetryJob(j)
  <2>1. [NoJob EXCEPT !.state = "queued"] \in Job
    BY NoJobIsJob DEF Job, JobStates
  <2>2. jobs' \in [Jobs -> Job] /\ retries' \in [Jobs -> 0 .. MaxRetries]
    BY <1>3, <2>1, JobQueueAssumption DEF RetryJob
  <2>. QED  BY <1>3, <2>2 DEF RetryJob
<1>. QED  BY <1>1, <1>2, <1>3

LEMMA LeaseTyped ==
  ASSUME Typed, NEW w \in Workers, Poll(w)
  PROVE  Typed'
<1>. USE DEF Typed, TypeOK, ProcessShape
<1>1. HealthAfterBurial \in Nat  BY DEF HealthAfterBurial
<1>2. \A k \in Jobs : BuryAbandoned(k) \in Job
  <2>. SUFFICES ASSUME NEW k \in Jobs PROVE BuryAbandoned(k) \in Job
    OBVIOUS
  <2>1. Released(jobs[k], "dead_letter") \in Job
    BY ReleasedIsJob DEF JobStates
  <2>. QED  BY <2>1 DEF BuryAbandoned, Job
<1>3. CASE LeaseJob(w)
  <2>1. PICK j \in Leasable :
          /\ jobs' = [k \in Jobs |-> IF k = j THEN HandedTo(w, j)
                                     ELSE IF k \in Abandoned THEN BuryAbandoned(k)
                                     ELSE jobs[k]]
          /\ worker' = [worker EXCEPT ![w] =
                          [pc |-> "loading", job |-> j, attempt |-> jobs[j].attempt + 1,
                           beatIn |-> BeatInterval, misses |-> 0]]
    BY <1>3 DEF LeaseJob
  <2>2. j \in Jobs /\ jobs[j].attempt + 1 \in 1 .. MaxAttempts
    BY JobQueueAssumption DEF Leasable, Job
  <2>3. HandedTo(w, j) \in Job
    <3>1. jobs[j] \in Job
      BY <2>2
    <3>2. jobs[j].attempt + 1 \in 0 .. MaxAttempts
      BY <2>2, JobQueueAssumption
    <3>. HIDE DEF TypeOK
    <3>. QED  BY <3>1, <3>2, HandedOutIsJob DEF HandedTo
  <2>4. jobs' \in [Jobs -> Job]
    BY <2>1, <2>3, <1>2
  <2>5. worker' \in [Workers -> Process]
    BY <2>1, <2>2, JobQueueAssumption, BeatIntervalPositive DEF Process, Working
  <2>6. ProcessShape'
    BY <2>1, <2>2 DEF Working
  <2>. QED  BY <1>1, <1>3, <2>4, <2>5, <2>6 DEF LeaseJob
<1>4. CASE LeaseNothing(w)
  BY <1>1, <1>2, <1>4 DEF LeaseNothing
<1>. QED  BY <1>3, <1>4 DEF Poll

\* A change of where the process is, within run_once.
LEMMA GoToTyped ==
  ASSUME Typed, NEW w \in Workers, worker[w].pc \in Working,
         NEW pc \in Working, GoTo(w, pc)
  PROVE  worker' \in [Workers -> Process] /\ ProcessShape'
BY ZenonT(30) DEF Typed, TypeOK, ProcessShape, GoTo, Process

LEMMA RunOnceTyped ==
  ASSUME Typed, NEW w \in Workers, RunOnce(w)
  PROVE  Typed'
<1>. USE DEF Typed, TypeOK, Working
<1>1. CASE LoadPayloads(w)
  <2>1. (IF Owns(w) THEN "analyzing" ELSE "stopping") \in Working
    OBVIOUS
  <2>. QED  BY <1>1, <2>1, GoToTyped DEF LoadPayloads
<1>2. CASE Analyze(w)          BY <1>2, GoToTyped DEF Analyze
<1>3. CASE Raise(w)            BY <1>3, GoToTyped DEF Raise
<1>4. CASE CompleteTooLate(w)  BY <1>4, GoToTyped DEF CompleteTooLate
<1>5. CASE FailTooLate(w)      BY <1>5, GoToTyped DEF FailTooLate
<1>6. CASE Stop(w)
  BY <1>6, JobQueueAssumption DEF Stop, Process, Idle, ProcessShape
<1>7. CASE Complete(w)
  <2>1. worker[w].job \in Jobs
    BY <1>7 DEF Complete, ProcessShape
  <2>2. worker' \in [Workers -> Process] /\ ProcessShape'
    BY <1>7, GoToTyped DEF Complete
  <2>3. jobs' \in [Jobs -> Job]
    <3>1. Released(jobs[worker[w].job], "succeeded") \in Job
      BY <2>1, ReleasedIsJob DEF JobStates
    <3>2. [Released(jobs[worker[w].job], "succeeded") EXCEPT !.error = None] \in Job
      BY <3>1 DEF Job
    <3>. QED  BY <1>7, <2>1, <3>2 DEF Complete
  <2>4. worker[w].attempt \in 1 .. MaxAttempts
    BY <1>7 DEF Complete, ProcessShape
  <2>5. results' \in [Jobs -> Seq(1 .. MaxAttempts)]
    BY <1>7, <2>1, <2>4 DEF Complete
  <2>. QED  BY <1>7, <2>2, <2>3, <2>5 DEF Complete
<1>8. CASE Fail(w)
  <2>1. worker[w].job \in Jobs
    BY <1>8 DEF Fail, ProcessShape
  <2>2. worker' \in [Workers -> Process] /\ ProcessShape'
    BY <1>8, GoToTyped DEF Fail
  <2>3. Backoff(jobs[worker[w].job].attempt) \in 0 .. RetryMax
    BY <2>1, BackoffBounded DEF Job
  <2>4. jobs' \in [Jobs -> Job]
    <3>1. Released(jobs[worker[w].job], StateAfterFailure(worker[w].job)) \in Job
      BY <2>1, ReleasedIsJob DEF StateAfterFailure, JobStates
    <3>2. [Released(jobs[worker[w].job], StateAfterFailure(worker[w].job)) EXCEPT
             !.scheduledIn = Backoff(jobs[worker[w].job].attempt),
             !.error = "analysis_error"] \in Job
      BY <3>1, <2>3 DEF Job
    <3>. QED  BY <1>8, <2>1, <3>2 DEF Fail
  <2>. QED  BY <1>8, <2>2, <2>4 DEF Fail
<1>. QED  BY <1>1, <1>2, <1>3, <1>4, <1>5, <1>6, <1>7, <1>8 DEF RunOnce

LEMMA HeartbeatTyped ==
  ASSUME Typed, NEW w \in Workers, Heartbeat(w)
  PROVE  Typed'
<1>. USE DEF Typed, TypeOK, ProcessShape
<1>1. worker[w].job \in Jobs /\ worker[w].pc \in Working
  BY NoneIsApart DEF Heartbeat, BeatDue, Renew, RenewTooLate, MissBeat
<1>2. BeatInterval \in -BeatDelay .. BeatInterval
  BY BeatIntervalPositive, JobQueueAssumption
<1>3. CASE Renew(w)
  <2>1. [jobs[worker[w].job] EXCEPT !.leaseLeft = LeaseTime] \in Job
    <3>1. jobs[worker[w].job] \in Job
      BY <1>1
    <3>2. LeaseTime \in -1 .. LeaseTime
      BY JobQueueAssumption
    <3>. QED  BY <3>1, <3>2 DEF Job
  <2>2. jobs' \in [Jobs -> Job]
    BY <1>1, <1>3, <2>1 DEF Renew
  <2>3. [worker[w] EXCEPT !.beatIn = BeatInterval, !.misses = 0] \in Process
    <3>1. worker[w] \in Process /\ 0 \in 0 .. MaxMisses
      BY JobQueueAssumption
    <3>. QED  BY <1>2, <3>1 DEF Process
  <2>. QED  BY <1>1, <1>3, <2>2, <2>3 DEF Renew, Process
<1>4. CASE RenewTooLate(w)
  BY <1>1, <1>4, ZenonT(30) DEF RenewTooLate, Process
<1>5. CASE MissBeat(w)
  <2>1. OneMore(worker[w].misses) \in 0 .. MaxMisses
    BY JobQueueAssumption DEF Process, OneMore
  <2>2. [worker[w] EXCEPT !.beatIn = BeatInterval,
                          !.misses = OneMore(worker[w].misses)] \in Process
    <3>1. worker[w] \in Process
      OBVIOUS
    <3>. HIDE DEF TypeOK, ProcessShape
    <3>. QED  BY <1>2, <2>1, <3>1 DEF Process
  <2>. QED  BY <1>1, <1>5, <2>2 DEF MissBeat, Process
<1>. QED  BY <1>3, <1>4, <1>5 DEF Heartbeat

LEMMA CrashRestartTyped ==
  ASSUME Typed, NEW w \in Workers, Crash(w) \/ Restart(w)
  PROVE  Typed'
<1>. USE DEF Typed, TypeOK, ProcessShape
<1>1. Idle \in Process
  BY JobQueueAssumption DEF Idle, Process
<1>2. [Idle EXCEPT !.pc = "crashed"] \in Process
  BY <1>1 DEF Process
<1>3. worker' \in [Workers -> Process]
  BY <1>1, <1>2 DEF Crash, Restart
<1>4. worker'[w].beatIn = None /\ worker'[w].pc \notin Working
  BY DEF Crash, Restart, Idle, Working
<1>5. ProcessShape'
  BY <1>4 DEF Crash, Restart
<1>. QED  BY <1>3, <1>5 DEF Crash, Restart

LEMMA TickTyped ==
  ASSUME Typed, Tick
  PROVE  Typed'
<1>. USE DEF Typed, TypeOK, ProcessShape
<1>1. ASSUME NEW j \in Jobs
      PROVE  /\ Sooner(jobs[j].scheduledIn, 0) \in 0 .. RetryMax
             /\ Sooner(jobs[j].leaseLeft, -1) \in (-1 .. LeaseTime) \cup {None}
  BY JobQueueAssumption DEF Sooner, Job
<1>2. ASSUME NEW w \in Workers
      PROVE  /\ Sooner(worker[w].beatIn, -BeatDelay)
                   \in (-BeatDelay .. BeatInterval) \cup {None}
             /\ worker[w].beatIn = None => Sooner(worker[w].beatIn, -BeatDelay) = None
  BY JobQueueAssumption, BeatIntervalPositive, SMTT(30) DEF Sooner, Process
<1>3. ASSUME NEW j \in Jobs
      PROVE  [jobs[j] EXCEPT !.scheduledIn = Sooner(jobs[j].scheduledIn, 0),
                             !.leaseLeft = Sooner(jobs[j].leaseLeft, -1)] \in Job
  <2>1. jobs[j] \in Job
    BY <1>3
  <2>. QED  BY <1>1, <1>3, <2>1 DEF Job
<1>4. jobs' \in [Jobs -> Job]
  BY <1>3 DEF Tick
<1>5. ASSUME NEW w \in Workers
      PROVE  /\ worker'[w] \in Process
             /\ worker'[w].pc = worker[w].pc /\ worker'[w].job = worker[w].job
             /\ worker'[w].attempt = worker[w].attempt
             /\ worker'[w].beatIn = Sooner(worker[w].beatIn, -BeatDelay)
  BY <1>2 DEF Tick, Process
<1>6. worker' \in [Workers -> Process]
  BY <1>5 DEF Tick
<1>7. ProcessShape'
  BY <1>2, <1>5
<1>. QED  BY <1>4, <1>6, <1>7 DEF Tick

LEMMA NextTyped == Typed /\ [Next]_vars => Typed'
<1>. SUFFICES ASSUME Typed, [Next]_vars PROVE Typed'
  OBVIOUS
<1>1. CASE Api            BY <1>1, ApiTyped DEF Api
<1>2. CASE Processes
  BY <1>2, LeaseTyped, RunOnceTyped, HeartbeatTyped, CrashRestartTyped DEF Processes
<1>3. CASE Tick           BY <1>3, TickTyped
<1>4. CASE UNCHANGED vars
  BY <1>4 DEF vars, Typed, TypeOK, ProcessShape
<1>. QED  BY <1>1, <1>2, <1>3, <1>4 DEF Next

\* Types hold of every behaviour, for any number of jobs, workers and attempts.
THEOREM TypesHold == Spec => []TypeOK
<1>1. Typed => TypeOK
  BY DEF Typed
<1>. QED  BY <1>1, InitTyped, NextTyped, PTL DEF Spec

-----------------------------------------------------------------------------
(* Safety.  The conjuncts hold each other up: that a result is stored for   *)
(* the row's own attempt needs the owner to hold that attempt; that needs   *)
(* the owner to be gone from every row that is not running.                 *)

Safe == /\ LeaseOnlyWhileRunning
        /\ OwnerHoldsCurrentAttempt
        /\ ResultIffSucceeded
        /\ BuriedOnlyWhenExhausted

Inv == Typed /\ Safe

LEMMA InitSafe == Init => Safe
BY NoneIsApart
   DEF Init, Safe, LeaseOnlyWhileRunning, OwnerHoldsCurrentAttempt, Owns,
       ResultIffSucceeded, BuriedOnlyWhenExhausted, NoJob, Idle, Working

\* What safety says of a row by itself.
SafeRow(row) ==
  /\ row.state = "running" <=> row.leasedBy # None
  /\ row.state = "running" <=> row.leaseLeft # None
  /\ row.state = "dead_letter" => row.attempt = MaxAttempts /\ row.error # None

LEMMA ApiSafe ==
  ASSUME Inv, NEW j \in Jobs, CreateJob(j) \/ CancelJob(j) \/ RetryJob(j)
  PROVE  Safe'
<1>. USE NoneIsApart DEF Inv, Typed, TypeOK, Safe
<1>1. /\ jobs' = [jobs EXCEPT ![j] = jobs'[j]]
      /\ worker' = worker /\ results' = results
  BY DEF CreateJob, CancelJob, RetryJob
<1>2. /\ SafeRow(jobs'[j])
      /\ jobs'[j].leasedBy = None
      /\ jobs[j].state # "succeeded" /\ jobs'[j].state # "succeeded"
  <2>1. CASE CreateJob(j)
    <3>1. PICK d \in FirstDelays :
            jobs'[j] = [NoJob EXCEPT !.state = "queued", !.scheduledIn = d]
      BY <2>1 DEF CreateJob
    <3>2. /\ jobs'[j].state = "queued"
          /\ jobs'[j].leasedBy = None /\ jobs'[j].leaseLeft = None
      BY <3>1 DEF NoJob
    <3>3. jobs[j].state = "absent"
      BY <2>1 DEF CreateJob
    <3>. QED  BY <3>2, <3>3 DEF SafeRow
  <2>2. CASE CancelJob(j)
    <3>1. jobs'[j] = Released(jobs[j], "cancelled")
      BY <2>2 DEF CancelJob
    <3>. QED  BY <2>2, <3>1, ReleasedIsJob DEF CancelJob, SafeRow, JobStates
  <2>3. CASE RetryJob(j)
    <3>1. jobs'[j] = [NoJob EXCEPT !.state = "queued"] /\ jobs[j].state = "dead_letter"
      BY <2>3 DEF RetryJob
    <3>. QED  BY <3>1 DEF SafeRow, NoJob
  <2>. QED  BY <2>1, <2>2, <2>3
<1>3. LeaseOnlyWhileRunning' /\ BuriedOnlyWhenExhausted'
  BY <1>1, <1>2, ZenonT(30) DEF SafeRow, LeaseOnlyWhileRunning, BuriedOnlyWhenExhausted
<1>4. OwnerHoldsCurrentAttempt'
  BY <1>1, <1>2 DEF OwnerHoldsCurrentAttempt, Owns, ProcessShape
<1>5. ResultIffSucceeded'
  BY <1>1, <1>2 DEF ResultIffSucceeded
<1>. QED  BY <1>3, <1>4, <1>5

LEMMA LeaseSafe ==
  ASSUME Inv, NEW w \in Workers, Poll(w)
  PROVE  Safe'
<1>. USE NoneIsApart, JobQueueAssumption DEF Inv, Typed, TypeOK, Safe
<1>1. ASSUME NEW k \in Abandoned
      PROVE  /\ k \in Jobs
             /\ SafeRow(BuryAbandoned(k))
             /\ BuryAbandoned(k).leasedBy = None
             /\ jobs[k].state = "running" /\ BuryAbandoned(k).state = "dead_letter"
  <2>1. k \in Jobs /\ jobs[k] \in Job
    BY <1>1 DEF Abandoned
  <2>2. jobs[k].attempt = MaxAttempts /\ jobs[k].state = "running"
    BY <1>1, <2>1 DEF Abandoned, Expired, Job
  <2>3. /\ Released(jobs[k], "dead_letter").state = "dead_letter"
        /\ Released(jobs[k], "dead_letter").attempt = MaxAttempts
        /\ Released(jobs[k], "dead_letter").leasedBy = None
        /\ Released(jobs[k], "dead_letter").leaseLeft = None
        /\ Released(jobs[k], "dead_letter") \in Job
    BY <2>1, <2>2, ReleasedIsJob DEF JobStates
  <2>. QED  BY <2>1, <2>2, <2>3 DEF BuryAbandoned, SafeRow, Job
<1>2. CASE LeaseNothing(w)
  <2>1. LeaseOnlyWhileRunning' /\ BuriedOnlyWhenExhausted'
    BY <1>1, <1>2 DEF LeaseNothing, SafeRow, LeaseOnlyWhileRunning, BuriedOnlyWhenExhausted
  <2>2. OwnerHoldsCurrentAttempt'
    BY <1>1, <1>2 DEF LeaseNothing, OwnerHoldsCurrentAttempt, Owns, ProcessShape
  <2>3. ResultIffSucceeded'
    BY <1>1, <1>2 DEF LeaseNothing, ResultIffSucceeded
  <2>. QED  BY <2>1, <2>2, <2>3
<1>3. CASE LeaseJob(w)
  <2>1. PICK j \in Leasable :
          /\ jobs' = [k \in Jobs |-> IF k = j THEN HandedTo(w, j)
                                     ELSE IF k \in Abandoned THEN BuryAbandoned(k)
                                     ELSE jobs[k]]
          /\ worker' = [worker EXCEPT ![w] =
                          [pc |-> "loading", job |-> j, attempt |-> jobs[j].attempt + 1,
                           beatIn |-> BeatInterval, misses |-> 0]]
    BY <1>3 DEF LeaseJob
  <2>2. j \in Jobs /\ jobs[j].state \in {"queued", "running"}
    BY DEF Leasable, Expired
  <2>3. /\ HandedTo(w, j).state = "running" /\ HandedTo(w, j).leasedBy = w
        /\ HandedTo(w, j).leaseLeft = LeaseTime
        /\ HandedTo(w, j).attempt = jobs[j].attempt + 1
    BY <2>2 DEF HandedTo, Job
  <2>4. LeaseOnlyWhileRunning' /\ BuriedOnlyWhenExhausted'
    BY <1>1, <2>1, <2>2, <2>3
       DEF SafeRow, LeaseOnlyWhileRunning, BuriedOnlyWhenExhausted
  <2>5. OwnerHoldsCurrentAttempt'
    <3>. SUFFICES ASSUME NEW v \in Workers, (worker[v].pc \in Working /\ Owns(v))'
                  PROVE  (worker[v].attempt = jobs[worker[v].job].attempt)'
      BY DEF OwnerHoldsCurrentAttempt
    <3>1. CASE v = w
      BY <2>1, <2>2, <2>3, <3>1
    <3>2. CASE v # w
      BY <1>1, <2>1, <2>2, <2>3, <3>2 DEF OwnerHoldsCurrentAttempt, Owns, ProcessShape
    <3>. QED  BY <3>1, <3>2
  <2>6. ResultIffSucceeded'
    BY <1>1, <1>3, <2>1, <2>2, <2>3 DEF LeaseJob, ResultIffSucceeded
  <2>. QED  BY <2>4, <2>5, <2>6
<1>. QED  BY <1>2, <1>3 DEF Poll

\* Owners stay in step with their rows if no worker takes up work and every row
\* either keeps its owner, state and attempt or has no owner afterwards.
LEMMA OwnersKeepStep ==
  ASSUME Inv,
         \A v \in Workers : worker'[v].pc \in Working =>
           /\ worker[v].pc \in Working
           /\ worker'[v].job = worker[v].job
           /\ worker'[v].attempt = worker[v].attempt,
         \A k \in Jobs :
           \/ jobs'[k].leasedBy = None
           \/ /\ jobs'[k].leasedBy = jobs[k].leasedBy
              /\ jobs'[k].state = jobs[k].state
              /\ jobs'[k].attempt = jobs[k].attempt
  PROVE  OwnerHoldsCurrentAttempt'
<1>. SUFFICES ASSUME NEW v \in Workers, worker'[v].pc \in Working, Owns(v)'
              PROVE  worker'[v].attempt = jobs'[worker'[v].job].attempt
  BY DEF OwnerHoldsCurrentAttempt
<1>1. worker[v].pc \in Working /\ worker[v].job \in Jobs /\ worker'[v].job = worker[v].job
  BY DEF Inv, Typed, ProcessShape
<1>2. jobs'[worker[v].job].leasedBy = v
  BY <1>1 DEF Owns
<1>3. Owns(v)
  BY <1>1, <1>2, NoneIsApart DEF Owns
<1>. QED  BY <1>1, <1>2, <1>3, NoneIsApart
          DEF Inv, Safe, OwnerHoldsCurrentAttempt, Owns

\* Only moving on in run_once, without touching a row, disturbs nothing.
LEMMA GoToSafe ==
  ASSUME Inv, NEW w \in Workers, worker[w].pc \in Working, NEW pc, GoTo(w, pc),
         UNCHANGED <<jobs, results>>
  PROVE  Safe'
BY DEF Inv, Typed, TypeOK, Safe, GoTo, LeaseOnlyWhileRunning, OwnerHoldsCurrentAttempt,
       Owns, ResultIffSucceeded, BuriedOnlyWhenExhausted, Process

LEMMA CompleteSafe ==
  ASSUME Inv, NEW w \in Workers, Complete(w)
  PROVE  Safe'
<1>. USE NoneIsApart DEF Inv, Typed, TypeOK, Safe
<1>. DEFINE j == worker[w].job
            row == [Released(jobs[j], "succeeded") EXCEPT !.error = None]
<1>1. j \in Jobs /\ jobs[j].state = "running" /\ worker[w].attempt = jobs[j].attempt
  BY DEF Complete, Owns, OwnerHoldsCurrentAttempt, ProcessShape, Working
<1>2. /\ row.state = "succeeded" /\ row.attempt = jobs[j].attempt
      /\ row.leasedBy = None /\ row.leaseLeft = None
  <2>1. Released(jobs[j], "succeeded") \in Job
    BY <1>1, ReleasedIsJob DEF JobStates
  <2>2. /\ Released(jobs[j], "succeeded").state = "succeeded"
        /\ Released(jobs[j], "succeeded").attempt = jobs[j].attempt
        /\ Released(jobs[j], "succeeded").leasedBy = None
        /\ Released(jobs[j], "succeeded").leaseLeft = None
    BY <1>1, ReleasedIsJob DEF JobStates
  <2>. QED  BY <2>1, <2>2 DEF Job
<1>. HIDE DEF row
<1>3. jobs' = [jobs EXCEPT ![j] = row]
  BY DEF Complete, row
<1>4. results' = [results EXCEPT ![j] = << jobs[j].attempt >>]
  <2>1. results[j] = << >>
    BY <1>1 DEF ResultIffSucceeded
  <2>. QED  BY <1>1, <2>1 DEF Complete
<1>5. \A v \in Workers : /\ worker'[v].job = worker[v].job
                         /\ worker'[v].attempt = worker[v].attempt
                         /\ worker'[v].pc \in Working => worker[v].pc \in Working
  BY DEF Complete, GoTo, Working, Process
<1>. HIDE DEF j
<1>6. LeaseOnlyWhileRunning' /\ BuriedOnlyWhenExhausted'
  BY <1>1, <1>2, <1>3 DEF LeaseOnlyWhileRunning, BuriedOnlyWhenExhausted
<1>7. OwnerHoldsCurrentAttempt'
  BY <1>2, <1>3, <1>5, OwnersKeepStep
<1>8. ResultIffSucceeded'
  BY <1>1, <1>2, <1>3, <1>4 DEF ResultIffSucceeded
<1>. QED  BY <1>6, <1>7, <1>8

LEMMA FailSafe ==
  ASSUME Inv, NEW w \in Workers, Fail(w)
  PROVE  Safe'
<1>. USE NoneIsApart DEF Inv, Typed, TypeOK, Safe
<1>. DEFINE j == worker[w].job
            row == [Released(jobs[j], StateAfterFailure(j)) EXCEPT
                      !.scheduledIn = Backoff(jobs[j].attempt), !.error = "analysis_error"]
<1>1. j \in Jobs /\ jobs[j].state = "running" /\ jobs[j] \in Job
  BY DEF Fail, Owns, ProcessShape, Working
<1>2. /\ row.state = StateAfterFailure(j) /\ row.attempt = jobs[j].attempt
      /\ row.leasedBy = None /\ row.leaseLeft = None /\ row.error = "analysis_error"
  <2>1. StateAfterFailure(j) \in JobStates
    BY DEF StateAfterFailure, JobStates
  <2>2. Released(jobs[j], StateAfterFailure(j)) \in Job
    BY <1>1, <2>1, ReleasedIsJob
  <2>. QED  BY <1>1, <2>1, <2>2, ReleasedIsJob DEF Job
<1>3. /\ row.state \in {"queued", "dead_letter"}
      /\ row.state = "dead_letter" => jobs[j].attempt = MaxAttempts
  <2>1. jobs[j].attempt \in 0 .. MaxAttempts
    BY <1>1 DEF Job
  <2>. QED  BY <1>2, <2>1, JobQueueAssumption DEF StateAfterFailure
<1>. HIDE DEF row
<1>4. jobs' = [jobs EXCEPT ![j] = row] /\ results' = results
  BY DEF Fail, row
<1>5. \A v \in Workers : /\ worker'[v].job = worker[v].job
                         /\ worker'[v].attempt = worker[v].attempt
                         /\ worker'[v].pc \in Working => worker[v].pc \in Working
  BY DEF Fail, GoTo, Working, Process
<1>. HIDE DEF j
<1>6. LeaseOnlyWhileRunning' /\ BuriedOnlyWhenExhausted'
  BY <1>1, <1>2, <1>3, <1>4 DEF LeaseOnlyWhileRunning, BuriedOnlyWhenExhausted
<1>7. OwnerHoldsCurrentAttempt'
  BY <1>2, <1>4, <1>5, OwnersKeepStep
<1>8. ResultIffSucceeded'
  BY <1>1, <1>3, <1>4 DEF ResultIffSucceeded
<1>. QED  BY <1>6, <1>7, <1>8

LEMMA RunOnceSafe ==
  ASSUME Inv, NEW w \in Workers, RunOnce(w)
  PROVE  Safe'
<1>1. CASE LoadPayloads(w) \/ Analyze(w) \/ Raise(w) \/ CompleteTooLate(w) \/ FailTooLate(w)
  <2>1. PICK pc : GoTo(w, pc)
    BY <1>1 DEF LoadPayloads, Analyze, Raise, CompleteTooLate, FailTooLate
  <2>. QED  BY <1>1, <2>1, GoToSafe
            DEF LoadPayloads, Analyze, Raise, CompleteTooLate, FailTooLate, Working
<1>2. CASE Complete(w)  BY <1>2, CompleteSafe
<1>3. CASE Fail(w)      BY <1>3, FailSafe
<1>4. CASE Stop(w)
  BY <1>4 DEF Stop, Idle, Working, Inv, Typed, TypeOK, Safe, LeaseOnlyWhileRunning,
              OwnerHoldsCurrentAttempt, Owns, ResultIffSucceeded, BuriedOnlyWhenExhausted
<1>. QED  BY <1>1, <1>2, <1>3, <1>4 DEF RunOnce

\* Neither does what leaves owners, states, attempts, errors and the presence of
\* a lease alone, and starts no worker: a beat, a crash, a restart, a tick.
LEMMA QuietSafe ==
  ASSUME Inv,
         \A v \in Workers : worker'[v].pc \in Working =>
           /\ worker[v].pc \in Working
           /\ worker'[v].job = worker[v].job
           /\ worker'[v].attempt = worker[v].attempt,
         \A j \in Jobs : /\ jobs'[j].state = jobs[j].state
                         /\ jobs'[j].attempt = jobs[j].attempt
                         /\ jobs'[j].leasedBy = jobs[j].leasedBy
                         /\ jobs'[j].error = jobs[j].error
                         /\ jobs'[j].leaseLeft = None <=> jobs[j].leaseLeft = None,
         results' = results
  PROVE  Safe'
<1>1. OwnerHoldsCurrentAttempt'
  BY OwnersKeepStep
<1>. QED  BY <1>1 DEF Inv, Safe, LeaseOnlyWhileRunning, ResultIffSucceeded,
                      BuriedOnlyWhenExhausted

LEMMA HeartbeatSafe ==
  ASSUME Inv, NEW w \in Workers, Heartbeat(w)
  PROVE  Safe'
<1>. USE NoneIsApart DEF Inv, Typed, TypeOK
<1>1. CASE Renew(w)
  <2>1. worker[w].job \in Jobs
    BY <1>1 DEF Renew, BeatDue, ProcessShape
  <2>2. jobs[worker[w].job] \in Job /\ jobs[worker[w].job].leaseLeft # None
    BY <1>1, <2>1 DEF Renew, Owns, Safe, LeaseOnlyWhileRunning
  <2>3. [jobs[worker[w].job] EXCEPT !.leaseLeft = LeaseTime].leaseLeft # None
    BY <2>2, JobQueueAssumption DEF Job
  <2>4. \A j \in Jobs : /\ jobs'[j].state = jobs[j].state
                        /\ jobs'[j].attempt = jobs[j].attempt
                        /\ jobs'[j].leasedBy = jobs[j].leasedBy
                        /\ jobs'[j].error = jobs[j].error
                        /\ jobs'[j].leaseLeft = None <=> jobs[j].leaseLeft = None
    BY <1>1, <2>1, <2>2, <2>3 DEF Renew, Job
  <2>5. \A v \in Workers : /\ worker'[v].pc = worker[v].pc
                           /\ worker'[v].job = worker[v].job
                           /\ worker'[v].attempt = worker[v].attempt
    BY <1>1 DEF Renew, Process
  <2>. QED  BY <1>1, <2>4, <2>5, QuietSafe DEF Renew
<1>2. CASE RenewTooLate(w) \/ MissBeat(w)
  <2>1. \A v \in Workers : /\ worker'[v].pc = worker[v].pc
                           /\ worker'[v].job = worker[v].job
                           /\ worker'[v].attempt = worker[v].attempt
    <3>1. CASE RenewTooLate(w)  BY <3>1 DEF RenewTooLate, Process
    <3>2. CASE MissBeat(w)      BY <3>2 DEF MissBeat, Process
    <3>. QED  BY <1>2, <3>1, <3>2
  <2>. QED  BY <1>2, <2>1, QuietSafe DEF RenewTooLate, MissBeat
<1>. QED  BY <1>1, <1>2 DEF Heartbeat

LEMMA CrashRestartSafe ==
  ASSUME Inv, NEW w \in Workers, Crash(w) \/ Restart(w)
  PROVE  Safe'
<1>1. worker'[w].pc \notin Working /\ \A v \in Workers \ {w} : worker'[v] = worker[v]
  BY DEF Crash, Restart, Idle, Working, Inv, Typed, TypeOK
<1>. QED  BY <1>1, QuietSafe DEF Crash, Restart

LEMMA TickSafe ==
  ASSUME Inv, Tick
  PROVE  Safe'
<1>. USE NoneIsApart DEF Inv, Typed, TypeOK
<1>1. \A v \in Workers : /\ worker'[v].job = worker[v].job
                         /\ worker'[v].attempt = worker[v].attempt
                         /\ worker'[v].pc = worker[v].pc
  BY DEF Tick, Process
<1>2. \A j \in Jobs : Sooner(jobs[j].leaseLeft, -1) = None <=> jobs[j].leaseLeft = None
  BY DEF Sooner, Job
<1>3. \A j \in Jobs : /\ jobs'[j].state = jobs[j].state
                      /\ jobs'[j].attempt = jobs[j].attempt
                      /\ jobs'[j].leasedBy = jobs[j].leasedBy
                      /\ jobs'[j].error = jobs[j].error
                      /\ jobs'[j].leaseLeft = Sooner(jobs[j].leaseLeft, -1)
  BY DEF Tick, Job
<1>. QED  BY <1>1, <1>2, <1>3, QuietSafe DEF Tick

LEMMA NextSafe == Inv /\ [Next]_vars => Safe'
<1>. SUFFICES ASSUME Inv, [Next]_vars PROVE Safe'
  OBVIOUS
<1>1. CASE Api            BY <1>1, ApiSafe DEF Api
<1>2. CASE Processes
  BY <1>2, LeaseSafe, RunOnceSafe, HeartbeatSafe, CrashRestartSafe DEF Processes
<1>3. CASE Tick           BY <1>3, TickSafe
<1>4. CASE UNCHANGED vars
  BY <1>4 DEF vars, Inv, Safe, LeaseOnlyWhileRunning, OwnerHoldsCurrentAttempt, Owns,
              ResultIffSucceeded, BuriedOnlyWhenExhausted
<1>. QED  BY <1>1, <1>2, <1>3, <1>4 DEF Next

LEMMA Invariance == Spec => []Inv
<1>1. Init => Inv
  BY InitTyped, InitSafe DEF Inv
<1>2. Inv /\ [Next]_vars => Inv'
  BY NextTyped, NextSafe DEF Inv
<1>. QED  BY <1>1, <1>2, PTL DEF Spec

\* At most one result per job, of the attempt the row names, and only for a job
\* that succeeded: nothing a stale worker does can break it.
THEOREM OneResultPerJob == Spec => []ResultIffSucceeded
<1>1. Inv => ResultIffSucceeded
  BY DEF Inv, Safe
<1>. QED  BY <1>1, Invariance, PTL

\* The worker id is fence enough.
THEOREM WorkerIdFences == Spec => []OwnerHoldsCurrentAttempt
<1>1. Inv => OwnerHoldsCurrentAttempt
  BY DEF Inv, Safe
<1>. QED  BY <1>1, Invariance, PTL

\* A lease is on a row exactly while the job is running.
THEOREM LeasesMatchStates == Spec => []LeaseOnlyWhileRunning
<1>1. Inv => LeaseOnlyWhileRunning
  BY DEF Inv, Safe
<1>. QED  BY <1>1, Invariance, PTL

\* No job is buried with an attempt left.
THEOREM BurialIsLate == Spec => []BuriedOnlyWhenExhausted
<1>1. Inv => BuriedOnlyWhenExhausted
  BY DEF Inv, Safe
<1>. QED  BY <1>1, Invariance, PTL

-----------------------------------------------------------------------------
(* What a step may do to one job: the life of a row, seen from outside.     *)

Open == {"queued", "running"}

Rests(j) ==
  /\ jobs'[j].state = jobs[j].state \/ (jobs[j].state \in Open /\ jobs'[j].state \in Open)
  /\ jobs'[j].attempt = jobs[j].attempt
  /\ results'[j] = results[j]
  /\ jobs[j].state \in Closed => OnlyWaits(j)

Starts(j) ==
  /\ jobs[j].state \in {"absent", "dead_letter"} /\ jobs'[j].state = "queued"
  /\ jobs[j].state = "dead_letter" => jobs'[j] = [NoJob EXCEPT !.state = "queued"]
  /\ jobs'[j].attempt = 0
  /\ results'[j] = results[j]

IsHandedOut(j) ==
  /\ jobs[j].state \in Open /\ jobs'[j].state = "running"
  /\ jobs[j].attempt < MaxAttempts /\ jobs'[j].attempt = jobs[j].attempt + 1
  /\ results'[j] = results[j]

Succeeds(j) ==
  /\ jobs[j].state = "running" /\ jobs'[j].state = "succeeded"
  /\ jobs[j].attempt > 0 /\ jobs'[j].attempt = jobs[j].attempt
  /\ results[j] = << >> /\ results'[j] = << jobs[j].attempt >>

IsBuried(j) ==
  /\ jobs[j].state \in Open /\ jobs'[j].state = "dead_letter"
  /\ jobs[j].attempt = MaxAttempts /\ jobs'[j].attempt = jobs[j].attempt
  /\ results'[j] = results[j]

IsCancelled(j) ==
  /\ jobs[j].state \in Open /\ jobs'[j].state = "cancelled"
  /\ jobs'[j].attempt = jobs[j].attempt
  /\ results'[j] = results[j]

Moves(j) == \/ Rests(j) \/ Starts(j) \/ IsHandedOut(j)
            \/ Succeeds(j) \/ IsBuried(j) \/ IsCancelled(j)

LEMMA UntouchedOnlyWaits ==
  ASSUME Inv, NEW k \in Jobs, jobs'[k] = jobs[k]
  PROVE  OnlyWaits(k)
BY DEF OnlyWaits, Inv, Typed, TypeOK, Job

LEMMA ApiMoves ==
  ASSUME Inv, NEW j \in Jobs, CreateJob(j) \/ CancelJob(j) \/ RetryJob(j), NEW k \in Jobs
  PROVE  Moves(k)
<1>. USE DEF Inv, Typed, TypeOK, Moves
<1>1. CASE k # j
  BY <1>1, UntouchedOnlyWaits DEF CreateJob, CancelJob, RetryJob, Rests
<1>2. CASE k = j /\ CreateJob(j)
  BY <1>2 DEF CreateJob, Starts, NoJob
<1>3. CASE k = j /\ CancelJob(j)
  <2>1. jobs'[j] = Released(jobs[j], "cancelled")
    BY <1>3 DEF CancelJob
  <2>. QED  BY <1>3, <2>1, ReleasedIsJob DEF CancelJob, IsCancelled, Open, JobStates
<1>4. CASE k = j /\ RetryJob(j)
  BY <1>4 DEF RetryJob, Starts, NoJob, Job
<1>. QED  BY <1>1, <1>2, <1>3, <1>4

LEMMA LeaseMoves ==
  ASSUME Inv, NEW w \in Workers, Poll(w), NEW k \in Jobs
  PROVE  Moves(k)
<1>. USE DEF Inv, Typed, TypeOK, Moves
<1>1. CASE k \in Abandoned /\ jobs'[k] = BuryAbandoned(k)
  <2>1. jobs[k].attempt = MaxAttempts /\ jobs[k].state = "running"
    BY <1>1, JobQueueAssumption DEF Abandoned, Expired, Job
  <2>2. jobs'[k].state = "dead_letter" /\ jobs'[k].attempt = jobs[k].attempt
    BY <1>1, ReleasedIsJob DEF BuryAbandoned, Job, JobStates
  <2>. QED  BY <2>1, <2>2 DEF Poll, LeaseJob, LeaseNothing, IsBuried, Open
<1>2. CASE k \in Leasable /\ jobs'[k] = HandedTo(w, k)
  <2>1. jobs[k] \in Job /\ jobs[k].attempt < MaxAttempts /\ jobs[k].state \in Open
    BY <1>2 DEF Leasable, Expired, Open
  <2>2. jobs'[k].state = "running" /\ jobs'[k].attempt = jobs[k].attempt + 1
    BY <1>2, <2>1 DEF HandedTo, Job
  <2>. QED  BY <2>1, <2>2 DEF Poll, LeaseJob, LeaseNothing, IsHandedOut
<1>3. CASE jobs'[k] = jobs[k]
  BY <1>3, UntouchedOnlyWaits DEF Poll, LeaseJob, LeaseNothing, Rests
<1>. QED  BY <1>1, <1>2, <1>3 DEF Poll, LeaseJob, LeaseNothing

LEMMA WorkMoves ==
  ASSUME Inv, NEW w \in Workers, RunOnce(w), NEW k \in Jobs
  PROVE  Moves(k)
<1>. USE DEF Inv, Typed, TypeOK, Moves
<1>1. CASE UNCHANGED <<jobs, results>>
  BY <1>1, UntouchedOnlyWaits DEF Rests
<1>2. CASE k # worker[w].job /\ (Complete(w) \/ Fail(w))
  BY <1>2, UntouchedOnlyWaits DEF Complete, Fail, Rests
<1>3. CASE k = worker[w].job /\ Complete(w)
  <2>1. jobs[k].state = "running" /\ worker[w].attempt = jobs[k].attempt
    BY <1>3 DEF Complete, Owns, Safe, OwnerHoldsCurrentAttempt, Working
  <2>2. jobs[k].attempt > 0
    BY <1>3, <2>1 DEF Complete, ProcessShape, Working
  <2>3. results[k] = << >>
    BY <2>1 DEF Safe, ResultIffSucceeded
  <2>4. results'[k] = << jobs[k].attempt >>
    BY <1>3, <2>1, <2>3 DEF Complete
  <2>5. /\ Released(jobs[k], "succeeded") \in Job
        /\ Released(jobs[k], "succeeded").state = "succeeded"
        /\ Released(jobs[k], "succeeded").attempt = jobs[k].attempt
    BY ReleasedIsJob DEF JobStates
  <2>6. jobs'[k].state = "succeeded" /\ jobs'[k].attempt = jobs[k].attempt
    BY <1>3, <2>5 DEF Complete, Job
  <2>. QED  BY <2>1, <2>2, <2>3, <2>4, <2>6 DEF Succeeds
<1>4. CASE k = worker[w].job /\ Fail(w)
  <2>1. jobs[k].state = "running" /\ jobs[k].attempt \in 0 .. MaxAttempts
    BY <1>4 DEF Fail, Owns, Job
  <2>2. jobs'[k].state = StateAfterFailure(k) /\ jobs'[k].attempt = jobs[k].attempt
    <3>1. StateAfterFailure(k) \in JobStates
      BY DEF StateAfterFailure, JobStates
    <3>. QED  BY <1>4, <3>1, ReleasedIsJob DEF Fail, Job
  <2>3. results' = results
    BY <1>4 DEF Fail
  <2>. QED  BY <2>1, <2>2, <2>3, JobQueueAssumption
            DEF StateAfterFailure, IsBuried, Rests, Open, Closed
<1>. QED  BY <1>1, <1>2, <1>3, <1>4
          DEF RunOnce, LoadPayloads, Analyze, Raise, CompleteTooLate, FailTooLate, Stop

LEMMA QuietMoves ==
  ASSUME Inv, NEW k \in Jobs,
         \/ \E w \in Workers : Heartbeat(w) \/ Crash(w) \/ Restart(w)
         \/ Tick
         \/ UNCHANGED vars
  PROVE  Moves(k)
<1>. SUFFICES Rests(k)
  BY DEF Moves
<1>. USE DEF Inv, Typed, TypeOK
<1>1. CASE \E w \in Workers : Renew(w)
  <2>. PICK w \in Workers : Renew(w)
    BY <1>1
  <2>1. CASE k = worker[w].job
    BY <2>1 DEF Renew, Owns, Rests, Job, Closed
  <2>2. CASE k # worker[w].job
    BY <2>2, UntouchedOnlyWaits DEF Renew, Rests
  <2>. QED  BY <2>1, <2>2
<1>2. CASE \E w \in Workers : RenewTooLate(w) \/ MissBeat(w) \/ Crash(w) \/ Restart(w)
  BY <1>2, UntouchedOnlyWaits DEF RenewTooLate, MissBeat, Crash, Restart, Rests
<1>3. CASE Tick
  <2>1. jobs[k] \in Job
    OBVIOUS
  <2>2. jobs'[k] = [jobs[k] EXCEPT !.scheduledIn = Sooner(@, 0), !.leaseLeft = Sooner(@, -1)]
    BY <1>3 DEF Tick
  <2>3. ASSUME jobs[k].state \in Closed PROVE OnlyWaits(k)
    <3>1. jobs[k].leaseLeft = None
      BY <2>3, NoneIsApart DEF Safe, LeaseOnlyWhileRunning, Closed
    <3>2. Sooner(jobs[k].leaseLeft, -1) = jobs[k].leaseLeft
      BY <3>1, NoneIsApart DEF Sooner
    <3>3. jobs'[k] = [jobs[k] EXCEPT !.scheduledIn = Sooner(jobs[k].scheduledIn, 0)]
      BY <2>1, <2>2, <3>2 DEF Job
    <3>. QED  BY <3>3 DEF OnlyWaits
  <2>. QED  BY <1>3, <2>1, <2>2, <2>3 DEF Tick, Rests, Job
<1>4. CASE UNCHANGED vars
  BY <1>4, UntouchedOnlyWaits DEF vars, Rests
<1>. QED  BY <1>1, <1>2, <1>3, <1>4 DEF Heartbeat

LEMMA EveryMove == Inv /\ [Next]_vars => \A k \in Jobs : Moves(k)
<1>. SUFFICES ASSUME Inv, [Next]_vars, NEW k \in Jobs PROVE Moves(k)
  OBVIOUS
<1>1. CASE Api  BY <1>1, ApiMoves DEF Api
<1>2. CASE \E w \in Workers : Poll(w)     BY <1>2, LeaseMoves
<1>3. CASE \E w \in Workers : RunOnce(w)  BY <1>3, WorkMoves
<1>. QED  BY <1>1, <1>2, <1>3, QuietMoves DEF Next, Processes

\* No step changes anything of a closed job, the results stored for it included, for
\* any number of workers that lost it and have not noticed: a row is only written by
\* who owns it, and LeasesMatchStates leaves a closed row no owner. Only a retry opens
\* a buried one, as a new job.
THEOREM ClosedForGood == Spec => ClosedJobsStayClosed
<1>1. Inv /\ [Next]_vars => [ClosedJobsStay]_vars
  <2>. SUFFICES ASSUME Inv, [Next]_vars PROVE ClosedJobsStay
    OBVIOUS
  <2>. QED  BY EveryMove DEF ClosedJobsStay, Closed, Moves, Rests, Starts, IsHandedOut,
                             Succeeds, IsBuried, IsCancelled, Open
<1>. QED  BY <1>1, Invariance, PTL DEF Spec, ClosedJobsStayClosed

\* Every burial is counted, also one that a lease transaction does in passing
\* for a worker that died, and whatever the health row said before.
THEOREM BurialsAreCounted == Spec => NoSilentBurial
<1>1. Inv /\ [Next]_vars => [BurialIsCounted]_vars
  <2>. SUFFICES ASSUME Inv, [Next]_vars, NEW j \in Jobs,
                       jobs[j].state # "dead_letter", jobs'[j].state = "dead_letter"
                PROVE  health' > health
    BY DEF BurialIsCounted
  <2>0. health \in Nat /\ jobs[j] \in Job
    BY DEF Inv, Typed, TypeOK
  <2>1. ASSUME NEW w \in Workers, Poll(w) PROVE health' > health
    <3>1. ASSUME j \notin Abandoned PROVE FALSE
      <4>1. jobs'[j] = jobs[j] \/ jobs'[j] = HandedTo(w, j)
        BY <2>1, <3>1 DEF Poll, LeaseJob, LeaseNothing
      <4>2. HandedTo(w, j).state = "running"
        BY <2>0 DEF HandedTo, Job
      <4>. QED  BY <4>1, <4>2
    <3>. QED  BY <2>0, <2>1, <3>1 DEF Poll, LeaseJob, LeaseNothing, HealthAfterBurial
  <2>2. ASSUME NEW w \in Workers, Fail(w) PROVE health' > health
    BY <2>0, <2>2 DEF Fail
  <2>3. ASSUME NEW w \in Workers, Complete(w) PROVE FALSE
    <3>1. CASE j # worker[w].job
      BY <2>3, <3>1 DEF Complete, Inv, Typed, TypeOK
    <3>2. CASE j = worker[w].job
      <4>1. Released(jobs[j], "succeeded") \in Job /\ Released(jobs[j], "succeeded").state = "succeeded"
        BY <2>0, ReleasedIsJob DEF JobStates
      <4>. QED  BY <2>3, <3>2, <4>1 DEF Complete, Inv, Typed, TypeOK, Job
    <3>. QED  BY <3>1, <3>2
  <2>4. ASSUME NEW k \in Jobs, CreateJob(k) \/ CancelJob(k) \/ RetryJob(k) PROVE FALSE
    <3>1. CASE j # k
      BY <2>4, <3>1 DEF CreateJob, CancelJob, RetryJob, Inv, Typed, TypeOK
    <3>2. CASE j = k /\ CancelJob(k)
      BY <2>0, <3>2, ReleasedIsJob DEF CancelJob, JobStates, Inv, Typed, TypeOK
    <3>3. CASE j = k /\ (CreateJob(k) \/ RetryJob(k))
      BY <3>3 DEF CreateJob, RetryJob, NoJob, Inv, Typed, TypeOK
    <3>. QED  BY <2>4, <3>1, <3>2, <3>3
  <2>5. ASSUME NEW w \in Workers, RunOnce(w), ~Complete(w), ~Fail(w) PROVE FALSE
    BY <2>5 DEF RunOnce, LoadPayloads, Analyze, Raise, CompleteTooLate, FailTooLate, Stop
  <2>6. CASE \/ \E w \in Workers : Heartbeat(w) \/ Crash(w) \/ Restart(w)
             \/ Tick
             \/ UNCHANGED vars
    <3>1. jobs'[j].state = jobs[j].state
      <4>1. CASE \E w \in Workers : Renew(w)
        BY <4>1 DEF Renew, Inv, Typed, TypeOK, Job
      <4>2. CASE \E w \in Workers : RenewTooLate(w) \/ MissBeat(w) \/ Crash(w) \/ Restart(w)
        BY <4>2 DEF RenewTooLate, MissBeat, Crash, Restart
      <4>3. CASE Tick
        BY <4>3 DEF Tick, Inv, Typed, TypeOK, Job
      <4>4. CASE UNCHANGED vars
        BY <4>4 DEF vars
      <4>. QED  BY <2>6, <4>1, <4>2, <4>3, <4>4 DEF Heartbeat
    <3>. QED  BY <3>1
  <2>. QED  BY <2>1, <2>2, <2>3, <2>4, <2>5, <2>6 DEF Next, Api, Processes
<1>. QED  BY <1>1, Invariance, PTL DEF Spec, NoSilentBurial

-----------------------------------------------------------------------------
(* The queue implements AnalysisJobs: each move of a row is a step of the   *)
(* promise, under the refinement mapping of JobQueue.                       *)

LEMMA StatusTyped ==
  ASSUME NEW state \in JobStates
  PROVE  Status(state) \in {"none", "open", "done", "dead", "cancelled"}
BY DEF JobStates, Status

LEMMA MovesKeepPromise ==
  ASSUME Inv, Inv', \A k \in Jobs : Moves(k)
  PROVE  Promised!Next
<1>1. /\ \A j \in Jobs : jobs[j] \in Job /\ jobs'[j] \in Job
      /\ \A j \in Jobs : Len(results[j]) \in Nat /\ Len(results'[j]) \in Nat
  BY DEF Inv, Typed, TypeOK
<1>2. /\ [j \in Jobs |-> Status(jobs'[j].state)]
            \in [Jobs -> {"none", "open", "done", "dead", "cancelled"}]
      /\ [j \in Jobs |-> jobs'[j].attempt] \in [Jobs -> 0 .. MaxAttempts]
      /\ [j \in Jobs |-> Len(results'[j])] \in [Jobs -> Nat]
  BY <1>1, StatusTyped DEF Job
<1>3. ASSUME NEW j \in Jobs
      PROVE  \/ Promised!Submit(j) \/ Promised!HandOut(j) \/ Promised!Publish(j)
             \/ Promised!GiveUp(j) \/ Promised!Cancel(j) \/ Promised!Reopen(j)
             \/ Promised!Rest(j)
  <2>. USE <1>1, <1>3
       DEF Promised!Submit, Promised!HandOut, Promised!Publish, Promised!GiveUp,
           Promised!Cancel, Promised!Reopen, Promised!Rest, Promised!Become, Open
  <2>1. CASE Rests(j)
    <3>1. Status(jobs'[j].state) = Status(jobs[j].state)
      BY <2>1 DEF Rests, Status
    <3>2. Promised!Rest(j)
      BY <2>1, <3>1 DEF Rests
    <3>. QED  BY <3>2
  <2>2. CASE Starts(j)       BY <2>2 DEF Starts, Status
  <2>3. CASE IsHandedOut(j)  BY <2>3 DEF IsHandedOut, Status
  <2>4. CASE Succeeds(j)
    <3>1. Len(results[j]) = 0 /\ Len(results'[j]) = 1
      BY <2>4 DEF Succeeds
    <3>2. Status(jobs[j].state) = "open" /\ Status(jobs'[j].state) = "done"
      BY <2>4 DEF Succeeds, Status
    <3>3. jobs[j].attempt > 0 /\ jobs'[j].attempt = jobs[j].attempt
      BY <2>4 DEF Succeeds
    <3>4. Len(results'[j]) = Len(results[j]) + 1
      BY <3>1
    <3>5. Promised!Publish(j)
      BY <3>2, <3>3, <3>4
    <3>. QED  BY <3>5
  <2>5. CASE IsBuried(j)     BY <2>5 DEF IsBuried, Status
  <2>6. CASE IsCancelled(j)  BY <2>6 DEF IsCancelled, Status
  <2>. QED  BY <2>1, <2>2, <2>3, <2>4, <2>5, <2>6 DEF Moves
<1>. QED  BY <1>2, <1>3 DEF Promised!Next

\* The queue keeps the promise made to callers of the API, for any number of jobs,
\* workers and attempts, and however processes crash and leases run out.
THEOREM QueueKeepsPromise == Spec => KeepsPromise
<1>1. Init => Promised!Init
  BY DEF Init, Promised!Init, NoJob, Status
<1>2. Inv /\ Inv' /\ [Next]_vars => [Promised!Next]_(Promised!vars)
  BY EveryMove, MovesKeepPromise
<1>. QED  BY <1>1, <1>2, Invariance, PTL DEF Spec, KeepsPromise, Promised!Spec

-----------------------------------------------------------------------------
(* The heartbeat.  A lease is not followed from its renewal on but bounded   *)
(* from below by what is left of it: its length, less a beat interval and    *)
(* its lateness for each beat missed, less what has passed of this interval. *)

\* The longest time from one beat to the next.
Gap == BeatInterval + BeatDelay

\* The lease of the job v works on outlasts what v has let pass.
Lasts(v) ==
  /\ worker[v].beatIn # None
  /\ worker[v].misses < MaxMisses =>
       LeaseTime <= jobs[worker[v].job].leaseLeft + worker[v].misses * Gap
                      + (BeatInterval - worker[v].beatIn)

OwnersLast == \A v \in Workers : worker[v].pc \in Working /\ Owns(v) => Lasts(v)

PunctualNext == Api \/ Processes \/ PunctualTick

\* The numbers Lasts adds up, for a worker that owns its row.
LEMMA OwnerNumbers ==
  ASSUME Inv, NEW v \in Workers, worker[v].pc \in Working, Owns(v)
  PROVE  /\ worker[v].job \in Jobs
         /\ jobs[worker[v].job].leaseLeft \in -1 .. LeaseTime
         /\ worker[v].beatIn # None => worker[v].beatIn \in -BeatDelay .. BeatInterval
         /\ worker[v].misses \in 0 .. MaxMisses
BY DEF Inv, Typed, TypeOK, ProcessShape, Safe, LeaseOnlyWhileRunning, Owns, Job, Process

\* A worker is undisturbed by what leaves its beats and the rows it owns alone.
LEMMA Undisturbed ==
  ASSUME Inv, OwnersLast, NEW v \in Workers,
         worker'[v].pc \in Working =>
           /\ worker[v].pc \in Working
           /\ worker'[v].job = worker[v].job
           /\ worker'[v].beatIn = worker[v].beatIn
           /\ worker'[v].misses = worker[v].misses,
         \A k \in Jobs :
           \/ jobs'[k].leasedBy # v
           \/ /\ jobs'[k].leasedBy = jobs[k].leasedBy
              /\ jobs'[k].state = jobs[k].state
              /\ jobs'[k].leaseLeft = jobs[k].leaseLeft
  PROVE  worker'[v].pc \in Working /\ Owns(v)' => Lasts(v)'
<1>. SUFFICES ASSUME worker'[v].pc \in Working, Owns(v)' PROVE Lasts(v)'
  OBVIOUS
<1>1. worker[v].pc \in Working /\ worker[v].job \in Jobs /\ worker'[v].job = worker[v].job
  BY DEF Inv, Typed, ProcessShape
<1>2. jobs'[worker[v].job].leasedBy = v
  BY <1>1 DEF Owns
<1>3. Owns(v) /\ jobs'[worker[v].job].leaseLeft = jobs[worker[v].job].leaseLeft
  BY <1>1, <1>2 DEF Owns
<1>. QED  BY <1>1, <1>3 DEF OwnersLast, Lasts

\* No lease is renewed later than it was given out.
LEMMA FullLease ==
  ASSUME NEW v \in Workers, worker'[v].beatIn = BeatInterval, worker'[v].misses = 0,
         jobs'[worker'[v].job].leaseLeft = LeaseTime
  PROVE  Lasts(v)'
BY BeatIntervalPositive, NoneIsApart, JobQueueAssumption DEF Lasts, Gap

LEMMA ApiLasts ==
  ASSUME Inv, OwnersLast, NEW j \in Jobs, CreateJob(j) \/ CancelJob(j) \/ RetryJob(j)
  PROVE  OwnersLast'
<1>1. worker' = worker /\ \A k \in Jobs \ {j} : jobs'[k] = jobs[k]
  BY DEF CreateJob, CancelJob, RetryJob, Inv, Typed, TypeOK
<1>2. jobs'[j].leasedBy = None
  <2>1. CASE CreateJob(j)  BY <2>1 DEF CreateJob, NoJob, Inv, Typed, TypeOK
  <2>2. CASE CancelJob(j)
    BY <2>2, ReleasedIsJob DEF CancelJob, Inv, Typed, TypeOK, JobStates
  <2>3. CASE RetryJob(j)   BY <2>3 DEF RetryJob, NoJob, Inv, Typed, TypeOK
  <2>. QED  BY <2>1, <2>2, <2>3
<1>. QED  BY <1>1, <1>2, NoneIsApart, Undisturbed DEF OwnersLast

LEMMA LeaseLasts ==
  ASSUME Inv, OwnersLast, NEW w \in Workers, Poll(w)
  PROVE  OwnersLast'
<1>. USE DEF Inv, Typed, TypeOK
<1>1. ASSUME NEW k \in Abandoned PROVE BuryAbandoned(k).leasedBy = None /\ k \in Jobs
  <2>1. k \in Jobs /\ jobs[k] \in Job
    BY DEF Abandoned
  <2>. QED  BY <2>1, ReleasedIsJob DEF BuryAbandoned, JobStates, Job
<1>2. CASE LeaseNothing(w)
  BY <1>1, <1>2, NoneIsApart, Undisturbed DEF LeaseNothing, OwnersLast
<1>3. CASE LeaseJob(w)
  <2>1. PICK j \in Leasable :
          /\ jobs' = [k \in Jobs |-> IF k = j THEN HandedTo(w, j)
                                     ELSE IF k \in Abandoned THEN BuryAbandoned(k)
                                     ELSE jobs[k]]
          /\ worker' = [worker EXCEPT ![w] =
                          [pc |-> "loading", job |-> j, attempt |-> jobs[j].attempt + 1,
                           beatIn |-> BeatInterval, misses |-> 0]]
    BY <1>3 DEF LeaseJob
  <2>2. j \in Jobs /\ HandedTo(w, j).leasedBy = w /\ HandedTo(w, j).leaseLeft = LeaseTime
    BY DEF Leasable, HandedTo, Job
  <2>3. Lasts(w)'
    BY <2>1, <2>2, FullLease
  <2>4. ASSUME NEW v \in Workers, v # w
        PROVE  worker'[v].pc \in Working /\ Owns(v)' => Lasts(v)'
    <3>1. \A k \in Jobs : jobs'[k].leasedBy # v \/ jobs'[k] = jobs[k]
      BY <1>1, <2>1, <2>2, <2>4, NoneIsApart
    <3>2. worker'[v] = worker[v]
      BY <2>1, <2>4
    <3>. QED  BY <3>1, <3>2, Undisturbed
  <2>. QED  BY <2>3, <2>4 DEF OwnersLast
<1>. QED  BY <1>2, <1>3 DEF Poll

LEMMA RunOnceLasts ==
  ASSUME Inv, OwnersLast, NEW w \in Workers, RunOnce(w)
  PROVE  OwnersLast'
<1>. USE DEF Inv, Typed, TypeOK
<1>1. ASSUME NEW v \in Workers, worker'[v].pc \in Working
      PROVE  /\ worker[v].pc \in Working
             /\ worker'[v].job = worker[v].job
             /\ worker'[v].beatIn = worker[v].beatIn
             /\ worker'[v].misses = worker[v].misses
  <2>1. CASE Stop(w)
    BY <1>1, <2>1 DEF Stop, Idle, Working
  <2>2. CASE ~Stop(w)
    <3>1. worker[w].pc \in Working /\ \E pc : GoTo(w, pc)
      BY <2>2 DEF RunOnce, LoadPayloads, Analyze, Raise, Complete, CompleteTooLate, Fail,
                  FailTooLate, Working
    <3>. QED  BY <1>1, <3>1 DEF GoTo, Process
  <2>. QED  BY <2>1, <2>2
<1>2. ASSUME NEW k \in Jobs PROVE jobs'[k] = jobs[k] \/ jobs'[k].leasedBy = None
  <2>1. CASE Complete(w)
    <3>1. worker[w].job \in Jobs
      BY <2>1 DEF Complete, ProcessShape, Working
    <3>2. /\ Released(jobs[worker[w].job], "succeeded") \in Job
          /\ Released(jobs[worker[w].job], "succeeded").leasedBy = None
      BY <3>1, ReleasedIsJob DEF JobStates
    <3>. QED  BY <2>1, <3>1, <3>2 DEF Complete, Job
  <2>2. CASE Fail(w)
    <3>1. worker[w].job \in Jobs
      BY <2>2 DEF Fail, ProcessShape, Working
    <3>2. /\ Released(jobs[worker[w].job], StateAfterFailure(worker[w].job)) \in Job
          /\ Released(jobs[worker[w].job], StateAfterFailure(worker[w].job)).leasedBy = None
      BY <3>1, ReleasedIsJob DEF StateAfterFailure, JobStates
    <3>. QED  BY <2>2, <3>1, <3>2 DEF Fail, Job
  <2>3. CASE UNCHANGED jobs
    BY <2>3
  <2>. QED  BY <2>1, <2>2, <2>3
            DEF RunOnce, LoadPayloads, Analyze, Raise, CompleteTooLate, FailTooLate, Stop
<1>. QED  BY <1>1, <1>2, NoneIsApart, Undisturbed DEF OwnersLast

\* A late beat, missed or not: whoever owns the row had a whole interval and a delay.
LEMMA MissLasts ==
  ASSUME Inv, OwnersLast, NEW w \in Workers, MissBeat(w), Owns(w)
  PROVE  Lasts(w)'
<1>1. worker[w].pc \in Working
  BY NoneIsApart DEF Inv, Typed, ProcessShape, MissBeat, BeatDue
<1>2. /\ worker'[w].beatIn = BeatInterval /\ worker'[w].misses = OneMore(worker[w].misses)
      /\ worker'[w].job = worker[w].job /\ jobs' = jobs
  BY DEF MissBeat, Inv, Typed, TypeOK, Process
<1>3. Lasts(w)
  BY <1>1 DEF OwnersLast
<1> DEFINE m == worker[w].misses  left == jobs[worker[w].job].leaseLeft  b == worker[w].beatIn
<1>4. /\ m \in 0 .. MaxMisses /\ left \in -1 .. LeaseTime
      /\ b \in -BeatDelay .. BeatInterval
  BY <1>1, <1>3, OwnerNumbers DEF Lasts
<1>5. CASE m + 1 < MaxMisses
  <2>1. LeaseTime <= left + m * Gap + (BeatInterval - b)
    BY <1>3, <1>4, <1>5, JobQueueAssumption DEF Lasts
  <2>2. BeatInterval - b <= Gap /\ Gap \in Nat
    BY <1>4, BeatIntervalPositive, JobQueueAssumption DEF Gap
  <2>3. m * Gap \in Int /\ (m + 1) * Gap = m * Gap + Gap
    BY <1>4, <2>2
  <2>. HIDE DEF m, left, b
  <2>4. LeaseTime <= left + (m + 1) * Gap + (BeatInterval - BeatInterval)
    BY <1>4, <2>1, <2>2, <2>3, BeatIntervalPositive, JobQueueAssumption
  <2>5. worker'[w].misses = m + 1 /\ jobs'[worker'[w].job].leaseLeft = left
    BY <1>2, <1>4, <1>5, JobQueueAssumption DEF OneMore, m, left
  <2>. QED  BY <1>2, <2>4, <2>5, BeatIntervalPositive, NoneIsApart DEF Lasts
<1>6. CASE ~(m + 1 < MaxMisses)
  <2>1. ~(worker'[w].misses < MaxMisses)
    BY <1>2, <1>4, <1>6, JobQueueAssumption DEF OneMore
  <2>. QED  BY <1>2, <2>1, BeatIntervalPositive, NoneIsApart DEF Lasts
<1>. QED  BY <1>5, <1>6

LEMMA HeartbeatLasts ==
  ASSUME Inv, OwnersLast, NEW w \in Workers, Heartbeat(w)
  PROVE  OwnersLast'
<1>. USE DEF Inv, Typed, TypeOK
<1>1. \A v \in Workers : v # w => worker'[v] = worker[v]
  BY DEF Heartbeat, Renew, RenewTooLate, MissBeat
<1>2. CASE Renew(w)
  <2>1. worker[w].job \in Jobs /\ jobs[worker[w].job].leasedBy = w
    BY <1>2, NoneIsApart DEF Renew, BeatDue, ProcessShape, Owns
  <2>2. /\ worker'[w].beatIn = BeatInterval /\ worker'[w].misses = 0
        /\ worker'[w].job = worker[w].job
        /\ jobs'[worker[w].job].leaseLeft = LeaseTime
        /\ jobs'[worker[w].job].leasedBy = w
        /\ \A k \in Jobs : k # worker[w].job => jobs'[k] = jobs[k]
    BY <1>2, <2>1 DEF Renew, Process, Job
  <2>3. Lasts(w)'
    BY <2>2, FullLease
  <2>4. \A v \in Workers : v # w => \A k \in Jobs : jobs'[k].leasedBy # v \/ jobs'[k] = jobs[k]
    BY <2>2
  <2>. QED  BY <1>1, <2>3, <2>4, Undisturbed DEF OwnersLast
<1>3. CASE RenewTooLate(w)
  <2>1. ~Owns(w)'
    <3>1. worker'[w].job = worker[w].job /\ jobs' = jobs /\ ~Owns(w)
      BY <1>3 DEF RenewTooLate, Process
    <3>. QED  BY <3>1 DEF Owns
  <2>2. jobs' = jobs
    BY <1>3 DEF RenewTooLate
  <2>. QED  BY <1>1, <2>1, <2>2, Undisturbed DEF OwnersLast
<1>4. CASE MissBeat(w)
  <2>1. Owns(w)' => Owns(w)
    <3>1. worker'[w].job = worker[w].job /\ jobs' = jobs
      BY <1>4 DEF MissBeat, Process
    <3>. QED  BY <3>1 DEF Owns
  <2>2. jobs' = jobs
    BY <1>4 DEF MissBeat
  <2>. QED  BY <1>1, <1>4, <2>1, <2>2, MissLasts, Undisturbed DEF OwnersLast
<1>. QED  BY <1>2, <1>3, <1>4 DEF Heartbeat

LEMMA CrashRestartLasts ==
  ASSUME Inv, OwnersLast, NEW w \in Workers, Crash(w) \/ Restart(w)
  PROVE  OwnersLast'
<1>1. worker'[w].pc \notin Working /\ \A v \in Workers \ {w} : worker'[v] = worker[v]
  BY DEF Crash, Restart, Idle, Working, Inv, Typed, TypeOK
<1>2. jobs' = jobs
  BY DEF Crash, Restart
<1>. QED  BY <1>1, <1>2, Undisturbed DEF OwnersLast

\* A tick takes as much from the lease as from the time to the beat, for time waits
\* for a beat that is BeatDelay late.
LEMMA TickLasts ==
  ASSUME Inv, OwnersLast, PunctualTick
  PROVE  OwnersLast'
<1>. SUFFICES ASSUME NEW v \in Workers, worker'[v].pc \in Working, Owns(v)'
              PROVE  Lasts(v)'
  BY DEF OwnersLast
<1>1. /\ worker'[v].pc = worker[v].pc /\ worker'[v].job = worker[v].job
      /\ worker'[v].misses = worker[v].misses
      /\ worker'[v].beatIn = Sooner(worker[v].beatIn, -BeatDelay)
  BY DEF PunctualTick, Tick, Inv, Typed, TypeOK, Process
<1>2. worker[v].job \in Jobs
  BY <1>1 DEF Inv, Typed, ProcessShape
<1>3. /\ jobs'[worker[v].job].state = jobs[worker[v].job].state
      /\ jobs'[worker[v].job].leasedBy = jobs[worker[v].job].leasedBy
      /\ jobs'[worker[v].job].leaseLeft = Sooner(jobs[worker[v].job].leaseLeft, -1)
  BY <1>2 DEF PunctualTick, Tick, Inv, Typed, TypeOK, Job
<1>4. Owns(v)
  BY <1>1, <1>3 DEF Owns
<1>5. Lasts(v)
  BY <1>1, <1>4 DEF OwnersLast
<1> DEFINE m == worker[v].misses  left == jobs[worker[v].job].leaseLeft  b == worker[v].beatIn
<1>6. /\ m \in 0 .. MaxMisses /\ left \in -1 .. LeaseTime
      /\ b \in -BeatDelay .. BeatInterval
  BY <1>1, <1>4, <1>5, OwnerNumbers DEF Lasts
<1>7. b > -BeatDelay
  BY <1>6, BeatIntervalPositive, JobQueueAssumption DEF PunctualTick, BeatDue
<1>8. m * Gap \in Int
  BY <1>6, BeatIntervalPositive, JobQueueAssumption DEF Gap
<1>9. Sooner(b, -BeatDelay) = b - 1 /\ Sooner(left, -1) >= left - 1 /\ Sooner(left, -1) \in Int
  BY <1>6, <1>7, JobQueueAssumption DEF Sooner
<1>10. m < MaxMisses => LeaseTime <= left + m * Gap + (BeatInterval - b)
  BY <1>5 DEF Lasts
<1>11. /\ worker'[v].misses = m /\ worker'[v].beatIn = b - 1
       /\ jobs'[worker'[v].job].leaseLeft = Sooner(left, -1)
  BY <1>1, <1>3, <1>9
<1>. HIDE DEF m, left, b
<1>12. m < MaxMisses => LeaseTime <= Sooner(left, -1) + m * Gap + (BeatInterval - (b - 1))
  BY <1>6, <1>8, <1>9, <1>10, BeatIntervalPositive, JobQueueAssumption
<1>13. b - 1 # None
  BY <1>6, NoneIsApart, JobQueueAssumption
<1>. QED  BY <1>11, <1>12, <1>13 DEF Lasts

LEMMA PunctualStep == Inv /\ OwnersLast /\ [PunctualNext]_vars => OwnersLast'
<1>. SUFFICES ASSUME Inv, OwnersLast, [PunctualNext]_vars PROVE OwnersLast'
  OBVIOUS
<1>1. CASE Api           BY <1>1, ApiLasts DEF Api
<1>2. CASE Processes
  BY <1>2, LeaseLasts, RunOnceLasts, HeartbeatLasts, CrashRestartLasts DEF Processes
<1>3. CASE PunctualTick  BY <1>3, TickLasts
<1>4. CASE UNCHANGED vars
  BY <1>4 DEF vars, OwnersLast, Lasts, Owns
<1>. QED  BY <1>1, <1>2, <1>3, <1>4 DEF PunctualNext

LEMMA PunctualInvariance == PunctualSpec => [](Inv /\ OwnersLast)
<1>1. Init => Inv /\ OwnersLast
  BY InitTyped, InitSafe DEF Inv, Init, OwnersLast, Idle, Working
<1>2. Inv /\ OwnersLast /\ [PunctualNext]_vars => Inv' /\ OwnersLast'
  <2>1. [PunctualNext]_vars => [Next]_vars
    BY DEF PunctualNext, PunctualTick, Next
  <2>. QED  BY <2>1, NextTyped, NextSafe, PunctualStep DEF Inv
<1>3. PunctualSpec => Init /\ [][PunctualNext]_vars
  BY DEF PunctualSpec, PunctualNext
<1>. QED  BY <1>1, <1>2, <1>3, PTL

\* What is left of an owner's lease is at least what the lease has in excess of
\* MaxMisses beats that all came as late as they may.
LEMMA WhatIsLeft ==
  ASSUME MaxMisses * Gap <= LeaseTime, Inv, OwnersLast
  PROVE  HeartbeatKeepsLease
<1>. SUFFICES ASSUME NEW v \in Workers, worker[v].pc \in Working, Owns(v),
                     worker[v].misses < MaxMisses
              PROVE  ~(jobs[worker[v].job].leaseLeft < 0)
  BY DEF HeartbeatKeepsLease, Expired
<1> DEFINE m == worker[v].misses  left == jobs[worker[v].job].leaseLeft  b == worker[v].beatIn
<1>1. /\ b # None
      /\ LeaseTime <= left + m * Gap + (BeatInterval - b)
  BY DEF OwnersLast, Lasts
<1>2. /\ m \in 0 .. MaxMisses /\ left \in -1 .. LeaseTime
      /\ b \in -BeatDelay .. BeatInterval
  BY <1>1, OwnerNumbers
<1>3. Gap \in Nat /\ BeatInterval - b <= Gap
  BY <1>2, BeatIntervalPositive, JobQueueAssumption DEF Gap
<1>4. m + 1 <= MaxMisses
  BY <1>2, JobQueueAssumption
<1>. HIDE DEF m, left, b
<1>5. m * Gap + Gap <= MaxMisses * Gap
  <2>1. (MaxMisses - (m + 1)) * Gap >= 0
    BY <1>2, <1>3, <1>4, JobQueueAssumption
  <2>2. (MaxMisses - (m + 1)) * Gap = MaxMisses * Gap - (m * Gap + Gap)
    BY <1>2, <1>3, JobQueueAssumption
  <2>. QED  BY <1>2, <1>3, <2>1, <2>2, JobQueueAssumption
<1>6. m * Gap \in Int /\ MaxMisses * Gap \in Int
  BY <1>2, <1>3, JobQueueAssumption
<1>7. left >= 0
  BY <1>1, <1>2, <1>3, <1>5, <1>6, BeatIntervalPositive, JobQueueAssumption
<1>. QED  BY <1>2, <1>7 DEF left

\* A worker with punctual heartbeats keeps its lease while fewer beats in a row have
\* failed than fit into it, each as late as it may be.
THEOREM BeatsKeepLeases ==
  ASSUME MaxMisses * (BeatInterval + BeatDelay) <= LeaseTime
  PROVE  PunctualSpec => []HeartbeatKeepsLease
<1>1. Inv /\ OwnersLast => HeartbeatKeepsLease
  BY WhatIsLeft DEF Gap
<1>. QED  BY <1>1, PunctualInvariance, PTL

\* So with a beat every third of the lease, one failed beat in a row is affordable if
\* a beat is never later than a sixth of the lease (_heartbeat, _renew_lease).
THEOREM OneMissIsAffordable ==
  ASSUME MaxMisses <= 2, LeaseTime > 1, BeatDelay <= LeaseTime \div 6
  PROVE  PunctualSpec => []HeartbeatKeepsLease
<1>1. BeatInterval + BeatDelay \in Nat /\ 2 * (BeatInterval + BeatDelay) <= LeaseTime
  BY JobQueueAssumption DEF BeatInterval
<1>2. MaxMisses \in 0 .. 2
  BY JobQueueAssumption
<1>3. MaxMisses * (BeatInterval + BeatDelay) <= LeaseTime
  BY <1>1, <1>2, JobQueueAssumption
<1>. QED  BY <1>3, BeatsKeepLeases
===============================================================================
