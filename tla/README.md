# Formal model of cacheeconomics

This directory holds TLA+ modules that model the cacheeconomics repository, the
TLC runs that check them on small instances, and the proofs that TLAPS checks
for every value of the constants. Paths below are relative to the repository;
`CP/` stands for `services/control_plane/src/cacheeconomics_control_plane/`,
`HR/` for `harness/cacheeconomics/`, and `CO/` for
`collectors/src/cacheeconomics_collector/`.

To check a run: `tlc -config MCJobQueue.cfg MCJobQueue.tla`. To check a proof:
`tlapm JobQueueProofs.tla`.

## 1. Inventory

The repository is a prompt-cache cost analyzer (the harness), and a hosted
service around it: collectors that send events, a control plane that stores
them and analyses them, and a dashboard.

| Component | Source | State | Operations |
|---|---|---|---|
| job queue | `CP/worker.py`, migration `20260905_0002`, job endpoints of `CP/api.py` | table `jobs` (state, attempt, due time, lease owner and end), `analysis_results`, `source_health.consecutive_failures` | create, cancel, retry; lease, renew, load, complete, fail, bury |
| ingestion and freshness | `ingest_events`, `latest_analysis` in `CP/api.py`, `_load_payloads`, `_complete` in `CP/worker.py`, `healthAlerts` in `apps/dashboard/app.js` | `ingest_events`, `source_health`, row locks on a credential and on the health row | ingest a batch, read the window, show the latest result and its warning |
| memberships | membership endpoints of `CP/api.py`, `CP/dependencies.py`, `CP/rbac.py` | table `memberships`, an advisory lock per organization | create an organization, add, change and delete a member |
| credentials, sources | `CP/api.py`, `CP/security.py`, migration `20260905_0001` | credential rows, revocation, archived sources | issue, revoke, authenticate, archive |
| collector outbox | `CO/client.py`, driven by `CO/cli.py` and `CO/litellm.py` | SQLite tables `pending_events` and `dead_letters`, an in-process lock | enqueue, flush (select, send, settle, retry) |
| collector callback | `CO/litellm.py`, `CO/events.py` | none of its own | one response becomes one event |
| live plugin | `HR/plugin.py` | decisions waiting for their response, alerts and what was said, effectiveness per scope | decide on a request, account for a response |
| live monitor | `HR/monitor.py`, `HR/checks.py` | least-recently-used scopes, each with windows of observations and firing alerts | observe shape and usage, fire, clear |
| recorder | `HR/recorder.py` | one capture per request, a JSONL file, a lock | capture, first token, done, failed, stream proxy |
| tier allocation | `HR/tiers.py`, `HR/allocate.py`, `HR/allocator.py` | none | where breakpoints go, and for how long |
| trace ingest | `HR/trace.py`, `HR/adapters/` | none between calls | read an export: which lines count, its confidence tier, the structure that is kept |
| replay | `HR/simulate.py` | the simulated cache and the bills of one call | replay a trace: hits, writes, expiry, lookback |
| prices | `HR/cost.py`, `HR/money.py`, `HR/registry.py` | a table of data | price a request, compare plans |
| segmentation | `HR/segment.py`, `HR/relocate.py`, `HR/tokenizer.py` | none | walk a prompt, put and strip markers, move blocks |
| analyzer findings | `HR/analyzer.py` | none between calls | TTL-1 and the other findings over a whole trace; which figures an invoice releases |
| bake-off gate | `bake_off`, `bake_off_by_agent` in `HR/simulate.py` | none between calls | compare arms, for all requests or agent by agent; say when the comparison says nothing |
| report and command line | `HR/report.py`, `HR/cli.py`, `HR/money.py` | none; the export grows between commands | load, analyse, print |
| dashboard | `apps/dashboard/app.js` | the selected source, a load counter | load a source, refresh, show warnings |
| the rest | `tier-a`, `tier-b`, `demo`, `deploy`, `evals`, `disclosure`, `contrib`, `web` | | scripts around the program |

How they interact. A collector hands events to the outbox; flushes send them to
`ingest_events`; one transaction there stores them, updates the health row and
queues a job; a worker leases the job, reads the window of events up to the
job's cutoff, calls the analyzer and stores the result; the dashboard reads the
latest result and the health row, and warns when the second is ahead of the
first. The live plugin and monitor run inside somebody's proxy and do not touch
the service.

What is hard about it.

- Job queue: a worker that outlives its lease is fenced by the worker id alone,
  never by the attempt; a cancelled job is still being worked on; a commit may
  be reported as failed; workers die; an operator restarts the count of
  attempts under a running worker; one transaction may bury several jobs.
- Ingestion: a batch is stamped before it waits for a lock, so stamps and
  commits come in different orders.
- Memberships: roles are read before the lock that guards the last owner.
- Outbox: rows are sent with no transaction open and written back from the
  copy that was selected; requests get lost, late or partly answered; the lock
  ends where the process ends.
- Live plugin and monitor: tables that forget, at limits that differ.
- Recorder: the row must be written once, and only when the outcome is known.
- Reports: three kinds of billed lines never reach the analyzer; spend is
  reconciled from counters and structural findings are not; figures are released
  before all assumptions are known.
- Replay: requests overlap, so an entry is marked again before it can be read;
  reads end between markers; every branch of the loop keeps two lists in step;
  the analyzer decides by its own walk what the replay decides by its cache.

What makes each correct: one result per job and none from a stale owner, every
job comes to an end; no accepted event is lost, and a job reads the batch it was
queued for; an organization keeps an owner, and owners are made by owners; an
event handed in is delivered or kept for the operator; a replayed token is billed
once, and hits are what was written and still lives; a marker is placed only
on content the monitor has evidence about, and live counts are the report's
counts; one record per request; an allocation is the cheapest legal one and
costs what the replay bills; a total that is published as reconciled leaves out
nothing that was charged, and no comparison answers beside a bill it did not see.
`PROJECT.json` lists the hazards line by line, with the properties that would notice
them going wrong.

## 2. Plan

Modules come in the order of what would hurt most, and so that what composes
others comes after them. The first eight groups are done.

1. `JobQueue`, implementing `AnalysisJobs`; `JobQueueProofs`. Done.
2. `Memberships`; `MembershipsProofs`. Done.
3. `Outbox`, implementing `EventDelivery`; `OutboxProofs`. Done.
4. `Freshness`: ingestion, the window of a job, and what the user sees. Done.
5. `Replay`, one call of the simulator; `LifetimeFinding`, the finding TTL-1 on
   top of it. Done.
6. `Monitor`, and `LivePlugin`, which composes it with decisions, responses and
   alerts. Done.
7. `Tiers` and `Relocation`, on the prompts and the replay of group 5. Done.
8. `Ingest`, `Findings`, `Publication`, `Comparison`: from the lines of an
   export to what a command prints. Each extends the one before. Done.
9. `Recorder`: exactly one row per capture, whatever order entering, iterating,
   finishing, closing and failing come in, with a write that may fail. Next.
10. Credentials (issue, revoke, authenticate), and the dashboard's load counter.

Runs are kept few, one per question, so a module to come takes over the run of a
question that is settled (`lifetime_credit` and `replay_in_flight` go when the code
is corrected).

Proved is every safety property of the passing runs but four (below, with each part), and
the refinements of the queue and the outbox. Left to TLC are `EveryJobCloses` and
`EveryRowLeaves`, which are liveness, and `PlanIsCheapest`, `ReplayBillsTheEstimate`,
`GainIsWhatIsMarked` and `MonthsRestOnEnough`, of which the reasons are in section 11. Worth
proving next is `GainIsWhatIsMarked`, with sums over the order of a group
(`SumsCompare` of `ReportProofs` shows how).

## 3. The analysis queue: `JobQueue`, `AnalysisJobs`

`jobs` is the table, one record per job id; `results` holds the attempts whose
result rows were stored; `health` is `consecutive_failures`; `worker` is one
record per worker process with the place it has reached in `run_once`, its
`Lease` (job and attempt) and its heartbeat thread. Every action is one
committed transaction of the API or of a worker, or a step of a process:

- `CreateJob`, `CancelJob`, `RetryJob`: the endpoints, with their 409 guards.
- `LeaseJob`, `LeaseNothing`: one call of the PostgreSQL function
  `lease_analysis_job`. It buries the expired jobs without attempts left and
  leases one leasable job, in one transaction. `SKIP LOCKED` lets any leasable
  job be the one.
- `LoadPayloads`, `Analyze`, `Raise`, `Complete`, `CompleteTooLate`, `Fail`,
  `FailTooLate`, `Stop`: `run_once`. `Complete` may be followed by `failing`: the
  commit arrived and was reported as failed.
- `Renew`, `RenewTooLate`, `MissBeat`: the heartbeat thread, which runs beside
  all of the above until it is joined by `Stop`.
- `Crash`, `Restart`, `Tick`: a process dies at any point and comes back under
  the same or a new id; time passes. Times are kept as time left.

`AnalysisJobs` says what a caller of the API may rely on: a job is submitted,
handed out, and published once, given up, or cancelled, and only a job that was
given up is reopened. `KeepsPromise` is the refinement.

| Run | Instance | Shows |
|---|---|---|
| `queue` | 1 job, 3 interchangeable workers, 2 attempts, lease of 6 ticks, beats at most 1 tick late and at most 2 missed, 1 operator retry | `OwnerHoldsCurrentAttempt`, `ResultIffSucceeded`, `HeartbeatKeepsLease` (one missed beat in a row does not lose the job), `ClosedJobsStayClosed` |
| `queue_backlog` | 2 jobs, 1 worker that may crash for ever | `NoSilentBurial`, `KeepsPromise`, `EveryJobCloses` |

Why the bounds are enough: jobs meet only in a lease transaction that buries
several, for which two jobs suffice; the races on one job are between an owner,
its successor and a bystander, for which three workers suffice; two attempts
give a first and a last one. With two missed beats a lease can expire at every
place of `run_once`, and `HeartbeatKeepsLease` needs a lease in which a third is
more than the lateness of a beat; six ticks give thirds of two. `queue` checks
`PunctualSpec`, in which time waits for a due beat; it has no fairness, so
interchangeable workers are a symmetry. `queue_backlog` has a lease of one tick.

Fairness of `FairSpec`: the poll loop and `run_once` go on, a supervisor
restarts a process that died, and time passes. Nothing is assumed of operators,
heartbeats or crashes: a job whose workers always die is buried, which closes
it. It is assumed that the analyzer returns; the code has no limit on its time.

Proved (`JobQueueProofs`): `TypesHold`, `OneResultPerJob`, `WorkerIdFences`,
`LeasesMatchStates`, `BurialIsLate`, `ClosedForGood`, `QueueKeepsPromise`. The
inductive invariant `Inv` is the types together with `Safe`: leases match
states, results match success, buried jobs are exhausted, and *a process past
its lease that still passes the ownership test holds the row's current attempt*.
The last part is what makes a fence by worker id sound: a worker that leases
again has ended its earlier `run_once`, so its id is never on a row with an
attempt it does not know. It rests on the assumption that two live processes
never share a worker id. `ClosedForGood` and the refinement follow from
`EveryMove`, which lists per job what a step can do to it. `ClosedJobsStayClosed` is
about the whole row: of a closed job attempt, error, owner, lease and stored
results stay as they are, whatever workers that lost it still do; only the time until
it would be due goes by (`OnlyWaits`, as times are kept as time left), or an operator
opens a buried one with everything reset.

`BurialsAreCounted` (`NoSilentBurial`) follows from the same invariant.

`BeatsKeepLeases` is `HeartbeatKeepsLease` for every lease time and interval with
`MaxMisses * (BeatInterval + BeatDelay) <= LeaseTime`: a worker keeps its lease while
fewer than `MaxMisses` beats in a row have failed. Its invariant does not follow the lease from its last renewal: it
bounds from below what is left of it by what the missed beats and the wait for the
next one have used up. `OneMissIsAffordable` puts in the code's own numbers, a beat
every third of the lease: one failed beat in a row never loses a job if no beat is later
than a sixth of the lease.

Only model-checked: `EveryJobCloses`, which is a liveness property. Only proved, for every instance:
the types, that leases match states (`LeasesMatchStates`) and that a burial is
the last resort (`BurialIsLate`).

Not covered: the heartbeat renews for as long as the analyzer runs
(`CP/worker.py:246`), so an analyzer that never returns keeps its job for ever.
`EveryJobCloses` assumes that it returns.

## 4. Memberships: `Memberships`

`role` is the table, `req` are requests in progress, `lock` is the advisory lock
of the organization, which lasts as long as the transaction. A request reads
the caller's role (`Begin`), loads the target (`Load`), and if it sees that it
would remove an owner, waits for the lock and counts (`CountOwners`), then
writes (`Write`); a lost connection rolls it back (`Abort`). `Add` needs no
second step. The history variable `overwritten` records that a write hit an
owner whom the request had loaded before the promotion.

Run `memberships` (3 users, 2 requests, which suffice for a race of two
removals and a promotion): `OwnerKeptUnlessOverwritten`, `OnlyOwnersMakeOwners`.

Run `last_owner` is expected to fail. "organization must keep at least one
owner" (`CP/api.py:415`) does not hold: a request that loads a member before the
member's promotion, and writes after it, sees no owner to remove, takes no lock,
and counts nothing. This is listed as a finding.

Proved (`MembershipsProofs`): `TypesHold`, `OwnerIsKept`, `OwnersAreMadeByOwners`,
for any users and any number of requests. The invariant `LockInv` behind
`OwnerIsKept` says that whoever holds the lock and is about to write knows
another owner besides its target; since other removals wait for the lock, that
owner stays until the write.

Model assumptions: PostgreSQL under READ COMMITTED; a flush and its commit are
one step; SQLite takes no advisory lock and is left out.

## 5. The outbox: `Outbox`, `EventDelivery`

`outbox` and `dead` are the two tables, `thread` the flushing threads with the
rows they selected and the answer they got, `stored` the server's table, `late`
the batches whose sender gave up and that may still arrive, `sends` a history
of how often an event was sent. `stored` is a set: that the server keeps one row of an
event that arrives twice is its unique constraint (`CP/models.py:197`), which is taken as
given here.

- `Enqueue`: `INSERT OR IGNORE`; an event may be handed in again.
- `Flush`: the selection and the sending; the lock of the process is held until
  the outcome is written (`MayFlush`).
- `Ingest`, `IngestLate`: the server's transaction, for a batch somebody waits
  for, or nobody. `Undelivered`: an error or a timeout, before or after it.
- `Settle`, `Retry`: the two transactions that write the outcome back. `Retry`
  counts from the copy that was selected, as the code does.
- `Crash`, `Tick`.

`EventDelivery` promises that an event leaves the outbox only when the server
has it, or when it is kept as a dead letter.

| Run | Instance | Shows |
|---|---|---|
| `outbox` | 2 processes with a thread each, 2 events of which the server rejects one, batches of 1, 2 attempts, retries that wait, 1 crash | `ExhaustedOnlyAfterAllAttempts`, `KeepsPromise`, `EveryRowLeaves` |

Two events are enough for one that could starve another; two processes for two
writers of one row. A batch that is partly answered, and threads that share the
lock of a process, are covered by the proofs, which hold for any numbers.
Row ids are bounded, which only limits how many rows are pending at once.
The event that the server rejects is handed in until it is a dead letter, the other
one for ever (`MCOutbox!MCNext`).

Fairness: flushes come again (the scheduler repeats the command, the live
callback flushes with every event), a request ends by its timeout, a thread
with an outcome writes it. `EveryRowLeaves` is false without the first; the
hazard list says so.

Proved (`OutboxProofs`): `TypesHold`, `LockHolds`, `GivenUpLate`,
`OutboxKeepsPromise`, and `RowsWait` when there is one process. `GivenUpLate`
holds for any number of processes, although they overwrite each other's
counter: `SendsInv` says that no counter, in a row or in a selected copy, is
ahead of the number of sends. `OutboxKeepsPromise` rests on `KnownInv`: whatever
a thread, a late batch or the server knows was handed in, and an event that an
answer calls taken is stored.

Not covered: the live callback flushes only when it hands in another event
(`CO/client.py:179`), so without traffic a row that waits for its retry stays; the
command stops flushing when a batch had nothing accepted (`CO/cli.py:71`); with
two processes an event that one was told is accepted can be a dead letter of the
other (`CO/client.py:272`), which `EventDelivery` permits.

Left out: the byte limits of a batch (a batch may be cut anywhere), HTTP
details, the loop of the command.

## 6. Ingestion and freshness: `Freshness`

`req` are ingest requests between stamp, lock and commit; `received` the events
with their stamps; `health` the health row with its lock; `job` the jobs, each
with its cutoff, the batch it was queued for, what its run has read, and the
time of its result. `Usable` is the row lock on the credential, which makes
requests with one credential serial. Who leases a job is `JobQueue`'s matter.

Run `freshness` (2 credentials, 2 requests, 3 events of which one is invalid, 2
jobs, window of 1): `AcceptedEventsCounted`, `JobReadsItsBatch` (a run reads the
batch it was queued for, unless the events with that very stamp exceed the
window), `OnlyOtherCredentialsOvertake`. A window of one is the smallest that
cuts, two stamps are enough for two batches to overtake each other.

Run `stale_warning` is expected to fail. "New events arrived after this result was
created." (`apps/dashboard/app.js:608`; `docs/deployment-runbook.md:129-130`) is
also shown after a batch of which nothing was accepted: `ingest_events` moves
`last_received_at` for every batch. Listed as a finding.

Noted without a property: `latest_analysis` is the result stored last, not the
one with the latest cutoff. A job that failed and was retried can replace the
result of a later one, and the dashboard does not call it behind.

One clock stands for those of the API, the workers and the database. Ties in
`received_at` and `created_at`, which random ids order, are open choices. The
health row exists from the start, as it is created with the source.

Proved (`FreshnessProofs`), for any number of requests, credentials, events and
jobs and any window: `TypesHold`, `EventsAreCounted`, `JobsReadTheirBatches`,
`OnlyOthersOvertake`. The invariant says that whoever holds the lock of the health row has
read its current counter (`CounterInv`); that requests with one credential are
serial, and a request with the credential that wrote the row last was stamped after it
(`SerialInv`); and that the batch of a job is stored under its cutoff
(`BatchInv`). The reason that a job reads its batch is a count: events before
the cutoff cannot crowd it out of the window, because the newest are read first.

## 7. The replay and what the analyzer credits: `Replay`, `LifetimeFinding`

`Replay` is one call of `simulate`. `trace` holds the requests replayed so far,
`live` the simulated cache (from when and until when a prefix can be read),
`usages` and `priced` the two lists whose positions must agree, `omitted` and
`counts` the rest of `SimResult`. `arm` is what the bake-off varies between calls:
the fields of `Assumptions` and the order that relocation gives to the segments.
It is chosen at the start and stays. Each action is one branch of the loop, with
everything that branch does: `SkipUnstructured`, `PolicyRaises`, `NoMinimum`,
`UnmodelledLifetime`, `NothingMarked`, and `Serve`, which reads, bills, writes and
refreshes. What a shape's markers come to (`WireIds`, `Modelled`, `Entries`) does
not depend on the state and is a function of the shape.

`LifetimeFinding` adds what TTL-1 makes of the trace that was billed: the writes
of five-minute entries, the earlier write that each is matched with, what is
credited for a rewrite between five minutes and an hour, what is charged for a
cold one. `ReadWithAnHour` is the reference: the same trace under the same rules
of reading, with every marker living for an hour.

| Run | Instance | Shows |
|---|---|---|
| `replay` (`MCBakeOff`) | 3 requests out of 13 shapes, arms neutral, pessimistic and relocated | `EveryTokenBilledOnce`, `HitsWereWritten`, `WarmPrefixesAreRead`, `HitsAreReusable`, `CreditedSpansWouldBeRead`, and those of section 8 |
| `replay_in_flight` (`MCReplay`) | the same | `MarkedAgainNotHidden` fails |
| `lifetime_credit` (`MCReplay`) | 4 requests of one growing conversation, neutral arm, no window | `CreditIsWhatIsSaved` fails |

`HitsWereWritten` and `WarmPrefixesAreRead` say in terms of the history of
requests, without the cache, what is read: nothing that was not kept alive, and
everything that was. `HitsAreReusable` holds the analyzer's `span_is_reusable_by`
against the replay's read condition, which the code calls the same.

Bounds. Three requests are a write, a refresh or a rival, and a read. Five
seconds stand for five minutes and ten for an hour, and gaps of 0, 1, 4 and 6
put a request at the same instant, before a response (one second late in the
pessimistic arm, two where a first token is recorded), within a lifetime and a
haircut lifetime (4 seconds), and after it; sums give every other distance up to
twelve. The pessimistic arm misses every second request instead of every
twentieth, and the window is one block instead of twenty. The shapes have one
and two markers, both lifetimes, a prompt that is a prefix of another, one that
departs after the first segment, one below the minimum, one with no structure,
an unknown lifetime, a surface without a minimum and one the policy refuses.
Requests of two scopes share segments. `CHECK_DEADLOCK FALSE`: a trace ends.
The runs have no fairness; a replay ends because its trace does.

Findings. `replay_in_flight`: "Only a genuinely new or expired entry starts
invisible" (`HR/simulate.py:487`), but an entry still waiting for its response is
neither and starts over whenever it is marked. Under the pessimistic assumptions,
forty requests two seconds apart read nothing. `WarmPrefixesAreRead` therefore
excepts entries that were marked again before their response.
`lifetime_credit`: "crediting all of it overstates the saving"
(`HR/analyzer.py:1280-1282`), but the walk only knows requests that wrote. When an
entry was refreshed by a read, an appended turn looks like a rewrite of a dead
entry, and is credited in full.

Noted without a property: an inner marker that a longer read covers becomes a
live entry that nobody paid for; the entry that is read is not refreshed unless
some marker of the reader ends at it; the window of the pessimistic arm drops
markers that `span_is_reusable_by` would count.

Assumed: segments have tokens; the registry answers the same throughout; the
policy's markers do not depend on the time. All requests are one agent's and, for
TTL-1, one session's. Left out: the policies, requests without a time, prices
(`spend`); the verdicts of `bake_off` are in section 10.

Proved (`ReplayProofs`), for any traces, shapes, arms and times, within
`ReplayAssumption`: `ReadsWereWritten` (`HitsWereWritten`) and `WarmIsRead`
(`WarmPrefixesAreRead`). The two properties do not mention the cache, so the
invariant has to say what the cache stands for. `InStep`: usages and priced indices run in
step. `LiveInv`: an entry is live if and only if some request marked its prefix; it
ends where the last marking ends it, it begins where a marking made it
visible that all later ones found alive, and no marking that waited for its
response can be read earlier. The two directions then are a maximum over the
prefixes of one request. `Emission` names the marked prefixes by the recursive
function `Among`, as the prover knows nothing of `SelectSeq`.

`TokensAreBilledOnce` (`EveryTokenBilledOnce`) has an invariant of its own, `BillInv`:
every bill that was made adds up to the tokens of its request, the requests priced and
those omitted are together those with structure, and the three counters are counts of
them. What adds up is a recursion: the entries of a request are a ladder of prefixes of
its wire order, each longer than the one before, and the two loops of `simulate` over
them (`WithinWindow`, `Written`) are recursive functions. The assumption that the two
lifetimes are the ones the registry has a multiplier for stands in `ReplayAssumption`.

`ReadsAreReusable` (`HitsAreReusable`): what was read ends within reach of a marker of
the reader (`ReadInv`), as one of its entries was the one that found it; in the order of
the trace the markers of the plan are the spans the analyzer compares, each within its
minimum and lookback.

`CreditsWouldBeRead` (`CreditedSpansWouldBeRead`): a span the analyzer credits was
written by an earlier request within the hour, and under the rules of the replay the
reader would have found it, had markers lived that long. `CreditInv` says what the walk
of the analyzer takes from the replay: requests are in the order of their times, the
priced ones are met once each, and what wrote five-minute entries had a marker that
can cache. The hypothesis `ResponsesBegin`, that a response begins within five minutes of its
request, cannot be left out: TTL-1 credits any gap above five minutes, and an entry
whose response begins later still is not there to be read. `MCReplay` has TLC evaluate it.

## 8. Tiers and relocation: `Tiers`, `Relocation`

`Tiers` is `tiers.allocate`: a question (a surface, a prompt, rates of change, gaps
between requests, a cap on markers) has one answer. `Allocate` and `Unsupported`
are its two ends; everything between is functions: what survives a gap
(`Alive`), the expected cost of a plan, the search for each lifetime, the
exhaustive search over mixed lifetimes, the mixed variants. All amounts are
integers: rates of change are in halves, multipliers in percent, and sums are not
divided.

`Relocation` is `relocate.propose` for a group of requests, a move per step: the
first volatile section is taken down if every rule of `_classify` lets it, else
skipped; `Place` is where `_place` then puts the single marker of the `-lite` arms.

| Property (run `replay`, over `MCBakeOff`) | Says |
|---|---|
| `PlanIsCheapest` | the answer costs what its outcomes cost on average, enumerated one by one, and no legal plan of one lifetime (and none at all, where the exhaustive search runs) is cheaper |
| `PlanMayBeSent` | the answer is within both caps, every marker can cache, no lifetime stands behind a shorter one unless the surface is recorded to take any order, nothing is written onto a live request of a surface that caches in another way |
| `ReplayBillsTheEstimate` | the replay of an unchanging prompt bills what the allocator expected; less only where a request came before the write it reads was certain |
| `RelocationIsLegal` | what moves add up to keeps every section, puts no turn behind anything, and puts nothing behind another field but system content, by a mechanism that everything in the group has, or a section whose field, as roles have it, reached behind that one already (`MayPass`) |
| `GainIsWhatIsMarked` | the tokens that moves are said to gain are those by which the marked head grows, and that head is at the head of every request of the chain |

A behaviour of the run is a trace, or one question, or one group. 845
questions: prompts of up to four sections, rates 0, 1/2 and 1, gaps before, at and
after either lifetime, on a surface that wants the longest lifetime first, one that
takes any order, and one with two lifetimes and no order recorded. 1956 groups: two or
three requests of four sections in six layouts, in two of which the system speaks again
after a turn, each section stable, changing or optional, second request of the
same or another scope and chain. No section has an index above 4 (`MaxIndex`).

Proved (`PlanProofs`): `MovesAreLegal` (`RelocationIsLegal`), for any group of requests,
any sections in any arrangement of roles, volatilities and registry. Its one hypothesis is
that "high" is not applied: so the code has it (`DEFAULT_APPLIED_RISKS`), as a
move of that risk reorders the transcript. The
invariant (`OrderInv`) says that the order has every segment once and is lawful: of two
that changed sides, the one that is now ahead may pass the other. This depends on roles
alone. A section that goes behind the last of its field passes sections of its field,
which may be passed, or others that one of its field has passed before. The argument needs
nothing of what a move unlocks.

`AnswersMayBeSent` (`PlanMayBeSent`), for any questions, rates and lifetimes that the
assumptions of `Tiers` admit. The invariant (`AnswerInv`) says only that an answer is
`Allocation` of the question asked; the rest are lemmas about its functions: every
cost of every candidate is a natural number, so that the cheapest exists (`BlockCost`,
`OneMore`: each is a sum over a recursive function); every candidate of the greedy
search, of the exhaustive one and of the mixed variants is within both caps, on
positions above the minimum, in the recorded order; and what the answer is chosen from
are those candidates and the plan without markers. That nothing legal is cheaper
(`PlanIsCheapest`), that the replay bills the estimate (`ReplayBillsTheEstimate`) and
`GainIsWhatIsMarked` stay with TLC.

Where the code differs from what it says, with no run of its own:

- `AuthorityIsKept`: moving system content out of its block "demotes system content to
  user authority and needs a documented mechanism" (`HR/relocate.py:20-21`). `_container`
  answers by the role alone, so where a message between the turns has the role of the
  system, that message counts as the end of the system field, and a volatile header is put
  behind it (`HR/relocate.py:213-217`), hence behind a turn, at risk medium and without
  asking for a mechanism. `MCBakeOff.cfg` with `AuthorityIsKept` as its one invariant
  shows it within a minute. `RelocationIsLegal` says what does hold: the last case of
  `MayPass` is this one.
- `UnrecordedOrderIsUniform`: where no order of lifetimes is recorded, "only uniform
  assignments -- valid under every ordering rule there is -- survive"
  (`HR/tiers.py:628-637`). They do in `_ttl_assignments`; `_mixed_variants`
  (`HR/tiers.py:645-674`) does not look at the record, although "on a surface that
  constrains it, `_mixed_variants` still has to respect that" (`HR/tiers.py:420-421`), and
  its answer may be long before short. `MCBakeOff.cfg` with `UnrecordedOrderIsUniform` as
  its one invariant shows it within seconds, on the surface `unordered`. In the registry
  that is shipped no surface that takes breakpoints lacks the record, so it bites only with
  a registry of the operator's. What does hold there is in `PlanMayBeSent`: the longer
  lifetime is never behind.
- `PlanIsCheapest` speaks of mixed lifetimes only where the exhaustive search
  runs. Above its bound only variants are scored, and all variants carry one label
  (`mixed 1h/5m`), of which the first is scored: arms after the first are never
  varied, although the comment says "Scored on every arm's positions, not only
  the winner's" (`HR/tiers.py:410`).
- `propose` takes the worst volatility of any chain in the group and `_place` that
  of the request's own chain (`HR/simulate.py:278-289`), so the named gain is
  exact only for groups of one chain; `GainIsWhatIsMarked` says it of those.

Left out: `as_shipped` and `litellm_auto`, and `allocator_full`, which gathers what
`allocate` is given.

## 9. The live side: `Monitor`, `LivePlugin`

`Monitor` is `monitor.py`. `table` is the least-recently-used table of scopes with
the windows of evidence and the firing alerts of each, `log` what was observed, `raised`
what was returned. `Observe` sees a request whole; `ObserveShape` and
`ObserveUsage` are its two halves, which the plugin uses when a request goes out and when
its response comes; `Clear` forgets a firing alert.

`LivePlugin` is `plugin.py`. `PreCall` is one call of the LiteLLM handler: the
request bound for a surface (`Bound`), the decision with all of `_decide`, the markers
that go on the wire, the shape observed, the decision put into the queue of waiting ones.
`Response` takes the decision of its call, if it is still there, and accounts for it.
`FailOpen` is a call on which the plugin raised: it goes out as it came.
`config`, `alerts`, `effect`, `pending` are its fields, `calls` a history.

An observation looks up the pool, the rebuild scope, and the reuse chain if that is not
the pool itself (`Found`, `HR/monitor.py:381`), in this order, and the table drops what
was looked up longest ago. A request without a session has its pool for a chain.

A handler that mutates is built only with a surface (`HR/plugin.py:879`), and a call that
names none is bound for that one (`HR/adapters/litellm.py:123`). So the branch that stands
down for want of a surface (`HR/plugin.py:1007-1024`) is never taken, nor is
`_record_alert`, which has no other caller; both are left out.

A plan of the allocator is any plan that `Tiers` may return for the sections.

| Property (run `live`) | Says |
|---|---|
| `RecentScopesKept` | a scope is pushed out only by as many others as the table holds, whatever else shares it; a chain that was never forgotten has counted all its requests |
| `RewritesStayApart` | the rewrites that speak for a lifetime are those of the requests that asked for it, replayed alone: no other request invents or destroys any |
| `RuntimeSeesFanout` | while no write was dropped, a cold fan-out was raised for exactly the prefixes two requests wrote of which the later went out before the earlier's entry could be read; so for everything FAN-1 finds |
| `RuntimeCountsRebuilds` | the rebuilt turns that are counted are those of the analyzer's rule on the same requests |
| `LiveCountsRebuilds` | and through the plugin, with what the wire and the responses say |
| `MarkersOnSeenContent` | every position up to a placed marker held what it holds now, in the same chain, within the window, after the warm-up |
| `DecisionReachesItsResponse` | a response finds the decision of its own call, unless as many calls followed as decisions may wait |
| `EffectIsMeasured` | the counters of a pool are those of answered calls that went out with the plugin's markers, once each |
| `SplitObservationAgrees` | shape followed by usage leaves what observing the whole leaves |

Behaviours are eight scenes, each a kind of traffic of three or four calls: scopes
that push each other out, late and untimed requests, writes whose usage is out of
order, turns of a session and its subagent, prompts that change, decisions that
wait, calls that name a surface or none to a handler that mutates or has no surface
of its own, sessions with and without named lifetimes. Bounds
are scaled: window 3 (for 200), 4 scopes, 2 waiting decisions (256), 3 alerts
(1024), lifetimes 4 and 12 (300 and 3600 s). Each limit is
exceeded in some scene. `CHECK_DEADLOCK FALSE`: a scene ends. There is no
fairness: nothing is promised of a response that does not come.

Noted without a property:

- `on_response` hands the monitor a request without a declared lifetime
  (`HR/plugin.py:564-573`), so for markers that name none the live count of
  rebuilds stays zero where the report counts. `LiveCountsRebuilds` is about
  requests or responses that tell.
- The second veto of the handler, on the marker budget (`HR/plugin.py:1050-1098`), is
  unreachable: what `_decide` returns already keeps the budget.
- The reordering that a decision would report is always empty, as no field of a
  request records an observed order.

Where the code differs from what it says, with no run of its own:

- FAN-1 compares each request with the next of its prefix, whether they wrote or not
  (`HR/analyzer.py:1677`), `_track_usage` each write with every earlier one
  (`HR/monitor.py:723-725`). Two concurrent writers with a request between them that
  wrote nothing are a fan-out live and none in the report, although a trace
  replayed against a monitor is to "get identical answers" (`HR/monitor.py:315-318`).
  `MCLive.cfg` with `Playing = {"fanout"}` and the invariant `FanoutAsReported` shows it within
  seconds; `RuntimeSeesFanout` claims one direction for that reason.

Left out: markers on a message object instead of a section, recommendations
(which keep nothing), wording.

Proved (`LiveProofs`): `MarkersAreOnSeenContent`, `DecisionsReachTheirResponses`, for
every behaviour of `PluginSpec`, not only the eight scenes: any requests in any order,
any table size, window, queue and alert limits. The one hypothesis (`IsRequest`) is that a request has its fields, and that its
sections are a sequence of contents none of which is the mark for "no
section here", which the monitor uses as padding. The invariant has three parts.
`TableBacked`: each position of each window in the table stands for an observed
request of that chain, with no more later ones than the window holds, however often the scope was
forgotten and came back. `Queue`: the waiting decisions are in the order of their
calls, without repetition, never more than may wait; with `Reaches`, a decision that
is gone was answered or has as many calls behind it as can wait. The third is that
what was said about a call stays true of the log as it grows. The
other theorems have invariants of their own beside these, under the same hypothesis.

- `RecentScopesStay` (`RecentScopesKept`): the order of the table is the order in which scopes were last
  touched (`ScopesInv`), and while none was dropped each has counted its requests (`SeenAll`).
- `HalvesMakeAWhole` (`SplitObservationAgrees`): in any state of the table, the two halves
  touch disjoint fields, and three scopes seen again keep their places.
- `FanoutIsSeen` (`RuntimeSeesFanout`): the recent writes of a scope are the last that were
  logged, and an alert stands in `raised` for each pair that could not read one
  another (`FanoutInv`), also after it was cleared. It takes that times are numbers and that a
  response begins after its request was sent (`SentInTime`, `AnsweredInTime`);
  `MonitorAssumption` asks that `FanoutSeconds` is positive.
- `EffectsAreMeasured` (`EffectIsMeasured`): a counter is the sum over the answered calls that went
  out marked (`EffectInv`); that no call is counted twice is the work of `DecisionsInv`, by
  which a waiting decision belongs to one call without an answer.
- `EvidenceStaysApart` (`RewritesStayApart`): the table that a lifetime's own requests make, replayed
  alone, knows the same of that lifetime (`ApartInv`). Its scopes are among those touched, so that it
  forgets nothing either.
- `RebuildsAreCounted` (`RuntimeCountsRebuilds`): a scope remembers the latest turn of each
  session, and the rebuilds it counts are the pairs that the analyzer's walk finds among the
  responses so far (`TurnsInv`). It takes `Window <= MaxFiring`, as the map of sessions
  must not overflow before the window does; both are 64 (`HR/monitor.py:48,55`), and 3 in
  `MCLive.cfg`.
- `LiveRebuildsAreCounted` (`LiveCountsRebuilds`): the requests observed are those that went on the
  wire (`WiresInv`), the usages observed are those of the answered calls (`RecordInv`), and
  two sequences that agree up to their numbering have the same rebuilds (`SameBatch`). Two
  hypotheses more: no two calls have one time (`SentInOrder`), as calls of one
  time may be answered in the other order, and nobody but the plugin reports to the monitor
  (`OthersSilent`), as what others report is in no record of the plugin's calls. Both hold in the
  scenes of `MCLive` that are played through the plugin.

So each property of the run is proved.

## 10. From an export to a figure: `Ingest`, `Findings`, `Publication`, `Comparison`

A gateway appends lines to `export`; the program never sees what the provider
charges for a line, only an invoice somebody gives to it. `shown` is what one
command printed.

- `Ingest`: which lines are rows, the confidence tier, which structure is kept or
  thrown away, how far sizes may differ from what was billed (`trace.py`, the
  loader of transcripts).
- `Findings`: prices with default-deny and dated rates, and the nine rules besides
  TTL-1. A rule gets the requests and their rates and gives its amount and its
  sample.
- `Publication`: `Write` appends a line. `Refuse`, `Crash` and `Report` are the
  three ends of the report command; `Report` does all of `analyze`: exclusions,
  the reconciliation, the ship gate, the draft override, the doubt about the
  structure, provenance and its later correction.
- `Comparison`: `BakeOffAll` and `BakeOffByAgent`, and the evidence they demand.

| Property (run `report`) | Says |
|---|---|
| `ReconciledMeansComplete` | a total that is published as reconciled is what the provider charged for all lines, to the cent, although the gate lets 5 % pass |
| `MonthsRestOnEnough` | a month that is published for a finding rests on enough requests, over a day, each of which moves its amount |
| `StructuralMoneyIsCounted` | money of a structural finding is published only if counted sizes that agree stand for most of the billed tokens |
| `OneProvenance` | the figures of one report carry one label; the banner is there exactly if they are drafts; reconciled only with an invoice and nothing assumed |
| `NoArmBesidesAMissingBill` | a comparison that answers is of an export none of whose charged lines it leaves out (agent by agent, those of the agents it speaks for, with the structure and the time the arms need) |

Bounds: exports of up to three out of 22 kinds of lines; the command with or without
a key, a date, an effective rate, a named or an assumed surface; no invoice or one
that is exact, 4 % high, double, zero, negative, not a number, or of all lines but one;
for the bake-off, all requests or a selection of them. Floors are 60 %, samples
need two requests, groups two, the structural band is the code's (0.90 to 0.99
inside the publication tolerance). Three lines are what a month (two requests a day apart)
and a line that spoils it need. Not reached with three: `rows_uncovered`, the observations
of TTL-2 and VOL-1, the months of FAN-1 and VOL-1, a bake-off that stops at
`unprovable_lifetime`. `CHECK_DEADLOCK FALSE`: a command ends.

Proved (`ReportProofs`): `FiguresAgree` (`OneProvenance`), for any export, any rules
of the analyzer, any rates and invoices. A report follows one decision, which
is taken once: a figure is released as that decision says, the banner is decided
after it, and the later correction for a surface that was assumed turns labels one
way only. `AbsentIsNoFigure`, its hypothesis, says that the mark for a figure that is not
in a report is no figure.

`StructuralMoneyIsBacked` (`StructuralMoneyIsCounted`), for any export, setting and
invoice, and any two floors. The invariant says that a report publishes structural money only
if `structure_trusted` had nothing against the trace that was read: `Publish` decides
that once, and no later correction undoes it. The rest is arithmetic over the rows:
without doubt every row with segments has identified segments that agree with its
bill, so that a counted row that was billed anything is sound; its share of the
tokens billed to rows with segments is the one floor, the share of those rows in
the bill the other (`ShareOfAShare`). It needs the sums row by row (`SumsCompare`,
`BillsCompare`), that no row is made up in reading (`ReadableAreRows`), and of the lines only that
a row has its fields and that its counters are counts or none (`LinesAssumption`, `IsRow`;
`_usage_dict`).

`ComparisonsAreWhole` (`NoArmBesidesAMissingBill`), for any export, setting and
selection of requests. A comparison that says anything had no doubt about its
evidence; then no line was skipped, so that the requests are the lines one by one
(`NothingSkipped`), and no request of the trace it was given was excluded. Agent by
agent a line of the group or of the unknown agent is in the trace of the group
(`AgentTrace`); one of an agent without a group is among what stands in the way of every group
(`UnreportedExclusions`); that the selection left nothing over puts the lines of its agents
among the requests compared (`NotLeftOver`), which have structure and a time. Nothing
is assumed about the selection but that it is a list (`HandsLists`).

`TotalsAreCharges` (`ReconciledMeansComplete`), for any export, settings, rules and
invoice, if the provider charges by the list (`ChargedByTheList`) and transcripts hold answered
calls (`TranscriptsAreAnswers`); `MCReport` has TLC evaluate both (`ExportsAreHonest`). A total
is published as reconciled only if nothing was in its way; then no line was skipped,
and the requests are the lines one by one, or those before the torn end of a transcript. Each
priced request costs what its line was charged, the others pass unseen,
and the two sums agree term by term.

`MonthsRestOnEnough` stays with TLC. It holds of the kinds of lines of the run but not of every
list of lines: a request whose premium for the longer lifetime and whose saved rewrites
cancel exactly (written to read as 23 to 15) is in the sample of TTL-2 without moving its
amount. To prove it one would have to exclude such counters, which the code does not.


A call's charge is stated beside each line and follows the provider's price list, not the
program's rules; that is what makes `ReconciledMeansComplete` say something.
Two kinds of lines may go unseen and are excepted (`PassesUnseen`): a failed call
none of whose counters is a count, and the torn last record of a transcript that
is still being written. Whether the as-shipped arm of a bake-off ties to the
invoice is a free choice (`Settlements`).

Where the code differs from what it says, with no run of its own:

- With `--on-date`, spend is priced on that date and findings on the day a row was
  sent (`HR/analyzer.py:225`, `_when`): one report has two price lists.
- With `--on-date` a row that was sent before its model's first rate has the rate 0
  for EFF-1; `cost.price` refuses it with a `ValueError` that nobody catches. This is
  the action `Crash`.
- If the only excluded requests are on an unpriceable surface (`unpriceable_surface`
  is missing from the list at `HR/analyzer.py:2490`), an invoice that matches is
  answered with "reconciliation is 0.0% against the invoice, outside the ±5% gate".
- REB-0 and REB-1 group by `request_id` (`HR/analyzer.py:1865,2041`), of which
  `HR/analyzer.py:490` says that it is not a key; a repeated id silences REB-0.
- When the surface was assumed, the months are turned into drafts and the
  amounts of the window are labelled elsewhere; the label agrees (`OneProvenance`).

Left out: wording, severity and ranking, the scale that makes a month of a day,
alignment notes (no loader records one), the litellm and request-body adapters, an
`excluded_billed` a caller passes in besides the trace. One clock, in days for prices.

## 11. What is not modelled

See "components" in `PROJECT.json` for each part and its reason.

- The recorder (`HR/recorder.py`) is next. Two hazards wait for it: writing the row
  of a capture may fail after the call succeeded (line 100), and a stream may hand
  back its final message and raise when it closes (line 350).
- The dashboard counts loads, so that the answer to an earlier one is dropped
  (`apps/dashboard/app.js:445`). Credentials and sources are planned.
- Redaction and hashing of events, token counting, cutting a body into segments,
  the registry's files, rendering: computations on text without state.
- `tier-a`, `tier-b`, `demo`, `deploy`, `evals`, `disclosure`, `contrib`, `web`:
  scripts, experiments on providers, and sites around the program.

Properties that are model-checked only are named in their sections; `PROJECT.json` lists
the theorems. They stay with TLC for one of these reasons. `EveryJobCloses`,
`EveryRowLeaves`: liveness under fairness is out of the prover's reach.
`PlanIsCheapest`, `ReplayBillsTheEstimate`: an average over all outcomes, each of them a
product of rates, against a recursion over positions; the two are equal by an induction over
data that the theorems at hand cannot state. `GainIsWhatIsMarked`: sums over an order that
every move changes, with no invariant found yet. `MonthsRestOnEnough`: it does not hold
without excluding counters that the code admits (section 10).
Where a proof has to go through a recursion (over the markers of a request, the
alerts of a call, the places of a window, the rows of a file) the module writes it as a recursive function,
and the proof is an induction over a set of naturals (`UpToInduction`,
`NatSetInduction`), since the library's induction theorems take an operator.
