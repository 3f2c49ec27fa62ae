------------------------------- MODULE Freshness -------------------------------
(***************************************************************************)
(* How far the analysis a user sees is behind the events of one source:     *)
(* ingest_events and latest_analysis in api.py, _load_payloads and          *)
(* _complete in worker.py, and the warning of healthAlerts in app.js.       *)
(*                                                                          *)
(* An ingest request stamps its batch before it waits for the lock on the   *)
(* source's health row, so stamps and commits may come in different orders. *)
(* Requests with the same credential do not overlap: their authentication   *)
(* updates the credential's row (the function authenticate_source_credential *)
(* of the first migration), and the row stays locked until they end.        *)
(*                                                                          *)
(* Who leases a job and when is JobQueue's matter: here a queued job runs   *)
(* at any time after its cutoff, and its run may end without a result.      *)
(* One clock stands for those of the API, the workers and the database.     *)
(***************************************************************************)
EXTENDS Integers, FiniteSets

CONSTANTS
  Events,       \* event ids collectors send
  Invalid,      \* those of them that fail validation
  Requests,     \* concurrent ingest requests (bound); a slot serves one at a time
  Credentials,  \* the source's collector credentials
  Jobs,         \* job ids (bound on the jobs ever created)
  MaxEvents,    \* settings.analysis_max_events
  MaxTime,      \* last reading of the clock (bound)
  None          \* no lock holder, no credential, not stored, no result

Time == 0 .. MaxTime

ASSUME FreshnessAssumption ==
  /\ IsFiniteSet(Events) /\ Invalid \subseteq Events
  /\ MaxEvents \in Nat \ {0} /\ MaxTime \in Nat
  /\ None \notin Requests \cup Credentials \cup Time

VARIABLES
  clock,       \* the time
  req,         \* ingest requests in progress
  healthLock,  \* who holds the row lock on source_health
  received,    \* ingest_events: per stored event its received_at, else None
  health,      \* source_health: accepted_events and last_received_at
  job,         \* the jobs of the source, each with the result it stored
  writer       \* history: the credential that set last_received_at

vars == <<clock, req, healthLock, received, health, job, writer>>

-----------------------------------------------------------------------------
Request ==
  [pc         : {"idle", "stamped", "locked"},
   credential : Credentials \cup {None},
   batch      : SUBSET Events,
   now        : Time,
   counted    : 0 .. Cardinality(Events)]  \* accepted_events as it was read

Idle == [pc |-> "idle", credential |-> None, batch |-> {}, now |-> 0, counted |-> 0]

Job ==
  [state    : {"unused", "queued", "running", "loaded", "succeeded", "closed"},
   cutoff   : Time,                      \* payload["through_received_at"]
   own      : SUBSET Events,             \* payload["accepted_event_ids"]
   loaded   : SUBSET Events,             \* what the run, or the result, has read
   loadedAt : Time,                      \* when, while the run lasts
   created  : Time \cup {None}]          \* created_at of the job's AnalysisResult

Unused == [state |-> "unused", cutoff |-> 0, own |-> {}, loaded |-> {},
           loadedAt |-> 0, created |-> None]

Stored == {e \in Events : received[e] # None}

\* A source is created together with its health row.
Init ==
  /\ clock = 0
  /\ req = [r \in Requests |-> Idle]
  /\ healthLock = None
  /\ received = [e \in Events |-> None]
  /\ health = [accepted |-> 0, lastReceived |-> None]
  /\ job = [j \in Jobs |-> Unused]
  /\ writer = None

Tick ==
  /\ clock < MaxTime
  /\ clock' = clock + 1
  /\ UNCHANGED <<req, healthLock, received, health, job, writer>>

-----------------------------------------------------------------------------
(* Ingestion. *)

\* Mutation: authentication leaves the credential's row alone.
UsableAlways(c) == TRUE

\* The row of the credential is not locked by another request.
Usable(c) == \A r \in Requests : req[r].credential # c

\* current_collector, then now = datetime.now().
Begin(r) ==
  /\ req[r].pc = "idle"
  /\ \E c \in Credentials, batch \in SUBSET Events \ {{}} :
       /\ Usable(c)
       /\ req' = [req EXCEPT ![r] =
            [pc |-> "stamped", credential |-> c, batch |-> batch, now |-> clock, counted |-> 0]]
  /\ UNCHANGED <<clock, healthLock, received, health, job, writer>>

\* Mutation: SELECT without FOR UPDATE.
ReadHealthUnlocked(r) ==
  /\ req[r].pc = "stamped"
  /\ req' = [req EXCEPT ![r] = [@ EXCEPT !.pc = "locked", !.counted = health.accepted]]
  /\ UNCHANGED <<clock, healthLock, received, health, job, writer>>

\* _source_health: SELECT ... FOR UPDATE.
ReadHealth(r) ==
  /\ req[r].pc = "stamped" /\ healthLock = None
  /\ healthLock' = r
  /\ req' = [req EXCEPT ![r] = [@ EXCEPT !.pc = "locked", !.counted = health.accepted]]
  /\ UNCHANGED <<clock, received, health, job, writer>>

\* The events of the batch that are valid and not in the table yet; the unique key
\* on (source_id, event_id) makes the others duplicates.
Accepted(r) == (req[r].batch \ Invalid) \ Stored

\* The job that goes with accepted events.
NewJob(cutoff, own) == [Unused EXCEPT !.state = "queued", !.cutoff = cutoff, !.own = own]

\* What the request writes to the health row it has read.
HealthAfter(r) ==
  [accepted |-> req[r].counted + Cardinality(Accepted(r)), lastReceived |-> req[r].now]

\* The rest of ingest_events, up to its commit.
Commit(r) ==
  /\ req[r].pc = "locked"
  /\ received' = [e \in Events |-> IF e \in Accepted(r) THEN req[r].now ELSE received[e]]
  /\ health' = HealthAfter(r)
  /\ IF Accepted(r) = {}
     THEN job' = job
     ELSE \E j \in Jobs : /\ job[j].state = "unused"
                          /\ job' = [job EXCEPT ![j] = NewJob(req[r].now, Accepted(r))]
  /\ req' = [req EXCEPT ![r] = Idle]
  /\ healthLock' = IF healthLock = r THEN None ELSE healthLock
  /\ writer' = req[r].credential
  /\ UNCHANGED clock

\* The server or the connection dies before the commit: everything is rolled back.
Abort(r) ==
  /\ req[r].pc # "idle"
  /\ req' = [req EXCEPT ![r] = Idle]
  /\ healthLock' = IF healthLock = r THEN None ELSE healthLock
  /\ UNCHANGED <<clock, received, health, job, writer>>

-----------------------------------------------------------------------------
(* Jobs. *)

\* create_analysis_job: a user may ask for any time, past or future.
CreateJob ==
  /\ \E j \in Jobs, t \in Time :
       /\ job[j].state = "unused"
       /\ job' = [job EXCEPT ![j] = NewJob(t, {})]
  /\ UNCHANGED <<clock, req, healthLock, received, health, writer>>

\* lease_job: a job is not due before its scheduled_for, which is its cutoff or,
\* after a failure, later.
Lease(j) ==
  /\ job[j].state = "queued" /\ job[j].cutoff <= clock
  /\ job' = [job EXCEPT ![j] = [@ EXCEPT !.state = "running"]]
  /\ UNCHANGED <<clock, req, healthLock, received, health, writer>>

\* The events the query of _load_payloads ranges over.
UpToCutoff(j) == {e \in Stored : received[e] <= job[j].cutoff}

\* Mutation: the oldest events first.
OldestFirst(chosen, all) == \A e \in chosen, f \in all \ chosen : received[e] <= received[f]

\* ORDER BY received_at DESC; the random ids that order equal times are left out.
NewestFirst(chosen, all) == \A e \in chosen, f \in all \ chosen : received[e] >= received[f]

\* LIMIT: the first MaxEvents of them.
IsWindow(chosen, all) ==
  /\ chosen \subseteq all
  /\ Cardinality(chosen) <= MaxEvents
  /\ chosen # all => Cardinality(chosen) = MaxEvents
  /\ NewestFirst(chosen, all)

\* _load_payloads, for the worker that still holds the job.
Load(j) ==
  /\ job[j].state = "running"
  /\ \E chosen \in SUBSET Events :
       /\ IsWindow(chosen, UpToCutoff(j))
       /\ job' = [job EXCEPT ![j] = [@ EXCEPT !.state = "loaded", !.loaded = chosen,
                                               !.loadedAt = clock]]
  /\ UNCHANGED <<clock, req, healthLock, received, health, writer>>

\* _complete, whose transaction began at t (created_at is now() of the database)
\* and had to wait for the health row.
Complete(j) ==
  /\ job[j].state = "loaded"
  /\ healthLock = None
  /\ \E t \in job[j].loadedAt .. clock :
       job' = [job EXCEPT ![j] = [@ EXCEPT !.state = "succeeded", !.created = t, !.loadedAt = 0]]
  /\ UNCHANGED <<clock, req, healthLock, received, health, writer>>

\* The run fails, loses its lease, or its worker dies: the job is queued again, or
\* given up (dead_letter).  _fail waits for the health row like _complete.
Fail(j) ==
  /\ job[j].state \in {"running", "loaded"}
  /\ healthLock = None
  /\ \E next \in {"queued", "closed"} :
       job' = [job EXCEPT ![j] =
                 [@ EXCEPT !.state = next, !.loaded = {}, !.loadedAt = 0]]
  /\ UNCHANGED <<clock, req, healthLock, received, health, writer>>

\* retry_job: the cutoff stays as it was.
RetryJob(j) ==
  /\ job[j].state = "closed"
  /\ job' = [job EXCEPT ![j] = [@ EXCEPT !.state = "queued"]]
  /\ UNCHANGED <<clock, req, healthLock, received, health, writer>>

Next ==
  \/ Tick
  \/ \E r \in Requests : Begin(r) \/ ReadHealth(r) \/ Commit(r) \/ Abort(r)
  \/ CreateJob
  \/ \E j \in Jobs : Lease(j) \/ Load(j) \/ Complete(j) \/ Fail(j) \/ RetryJob(j)

Spec == Init /\ [][Next]_vars

-----------------------------------------------------------------------------
(* What the user sees. *)

\* latest_analysis: the result with the greatest created_at; equal times are
\* ordered by random ids, so any of them may come first.
Latest ==
  {j \in Jobs : /\ job[j].created # None
                /\ \A k \in Jobs : job[k].created # None => job[k].created <= job[j].created}

\* "Analysis is behind ingestion" in healthAlerts.
Behind(j) == health.lastReceived # None /\ health.lastReceived > job[j].created

-----------------------------------------------------------------------------
(* What must hold. *)

\* Requests, rows and jobs keep the shape the code gives them, and no analysis
\* holds more events than its configured window.
TypeOK ==
  /\ clock \in Time
  /\ req \in [Requests -> Request]
  /\ healthLock \in Requests \cup {None}
  /\ received \in [Events -> Time \cup {None}]
  /\ health \in [accepted : 0 .. Cardinality(Events), lastReceived : Time \cup {None}]
  /\ job \in [Jobs -> Job]
  /\ writer \in Credentials \cup {None}
  /\ \A j \in Jobs : /\ Cardinality(job[j].loaded) <= MaxEvents
                     /\ job[j].created # None <=> job[j].state = "succeeded"

\* The counter users see, accepted_events, is the number of stored events, although
\* every request adds to the value it had read before it stored its batch.
AcceptedEventsCounted == health.accepted = Cardinality(Stored)

\* A run that was queued for a batch reads every event of the batch (_load_payloads),
\* however many batches with earlier or later stamps commit before it runs, unless
\* the batches with its very stamp do not fit into the window together.
JobReadsItsBatch ==
  \A j \in Jobs :
    /\ job[j].state \in {"loaded", "succeeded"}
    /\ Cardinality({e \in Stored : received[e] = job[j].cutoff}) <= MaxEvents
    => job[j].own \subseteq job[j].loaded

\* last_received_at goes back only when a request overtook one with another
\* credential, so a source with one credential is never shown as up to date while a
\* newer event is in the store: the lock on the credential's row sees to it, though
\* the stamp is taken before the lock on the health row.
ReceiptsGoBack ==
  health.lastReceived # None /\ health'.lastReceived < health.lastReceived

OnlyOtherCredentialsOvertake == [][ReceiptsGoBack => writer' # writer]_vars

\* "New events arrived after this result was created." (app.js:608): the warning is
\* shown only when the store holds an event that is newer than the result.
BehindOnlyWhenNewer ==
  \A j \in Latest : Behind(j) => \E e \in Stored : received[e] > job[j].created

===============================================================================
