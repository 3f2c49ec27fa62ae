-------------------------------- MODULE Outbox --------------------------------
(***************************************************************************)
(* The collector's durable uploader (DurableUploader in client.py): an       *)
(* outbox and a dead-letter table in one SQLite file, and threads that       *)
(* flush it to the server.  A flush selects due rows, sends them with no     *)
(* transaction open, and writes the outcome back.  Threads of one process    *)
(* share one uploader and its flush lock; processes on one file share        *)
(* nothing but the file.                                                     *)
(*                                                                           *)
(* The server's side is one transaction per batch that stores the valid      *)
(* events it does not have yet.  A batch may be lost, refused or answered    *)
(* too late; a batch the sender gave up may still arrive.  Timestamps are    *)
(* the time left until a row is due.  The bytes of an event, which limit a   *)
(* batch like its count does, are left out: a batch may be cut anywhere.     *)
(***************************************************************************)
EXTENDS Integers, FiniteSets

CONSTANTS
  Events,       \* identities of events (event_id)
  Invalid,      \* events the server rejects
  Threads,      \* threads that call flush
  Processes,
  ProcessOf,    \* per thread the process it belongs to
  None,         \* no row, not selected, no answer
  BatchSize,    \* batch_size
  MaxAttempts,  \* max_attempts
  RetryBase,    \* retry_base_seconds, in ticks
  RetryMax,     \* retry_max_seconds, in ticks
  MaxRowid,     \* bound: how far row ids grow
  MaxCrashes    \* bound: how many processes die

Row ==
  [rowid    : 1 .. MaxRowid,
   attempts : 0 .. MaxAttempts - 1,
   dueIn    : 0 .. RetryMax]        \* next_attempt_at minus now

ASSUME OutboxAssumption ==
  /\ IsFiniteSet(Events) /\ Invalid \subseteq Events
  /\ ProcessOf \in [Threads -> Processes]
  /\ None \notin Row \cup Int \cup {"taken", "rejected", "exhausted"}
  /\ BatchSize \in Nat \ {0} /\ MaxAttempts \in Nat \ {0}
  /\ RetryBase \in Nat /\ RetryMax \in Nat /\ RetryBase <= RetryMax
  /\ MaxRowid \in Nat /\ MaxCrashes \in Nat

\* What arithmetic says of the powers the backoff takes (provers do not know ^).
ASSUME PowerAssumption == \A n \in 0 .. MaxAttempts : 2 ^ n \in Nat

VARIABLES
  outbox,   \* pending_events
  dead,     \* dead_letters: per event the reason, or None
  stored,   \* the server's ingest_events
  thread,   \* the flushing threads
  late,     \* batches given up by their sender that may still reach the server
  sends,    \* history: how often an event was sent, up to MaxAttempts
  crashes   \* how many processes have died

vars == <<outbox, dead, stored, thread, late, sends, crashes>>

-----------------------------------------------------------------------------
Flusher ==
  [pc    : {"idle", "sent", "answered", "retrying"},
   rows  : [Events -> (0 .. MaxAttempts - 1) \cup {None}],  \* attempts as selected
   reply : [Events -> {"taken", "rejected", None}]]

Idle == [pc |-> "idle", rows |-> [e \in Events |-> None], reply |-> [e \in Events |-> None]]

Init ==
  /\ outbox = [e \in Events |-> None]
  /\ dead = [e \in Events |-> None]
  /\ stored = {}
  /\ thread = [t \in Threads |-> Idle]
  /\ late = {}
  /\ sends = [e \in Events |-> 0]
  /\ crashes = 0

Pending == {e \in Events : outbox[e] # None}

Due == {e \in Pending : outbox[e].dueIn = 0}

\* The events thread t has selected and not yet settled.
Batch(t) == {e \in Events : thread[t].rows[e] # None}

\* SQLite gives a new row the largest row id in use, plus one.
IsNextRowid(n) ==
  /\ \A e \in Pending : outbox[e].rowid < n
  /\ n = 1 \/ \E e \in Pending : outbox[e].rowid = n - 1

\* min(retry_max, retry_base * 2 ** (attempts - 1))
Delay(attempts) ==
  LET delay == RetryBase * 2 ^ (attempts - 1)
  IN  IF delay < RetryMax THEN delay ELSE RetryMax

-----------------------------------------------------------------------------
NewRow(n) == [rowid |-> n, attempts |-> 0, dueIn |-> 0]

\* enqueue: a callback or the command line hands in an event, again perhaps, but
\* a row that is pending is kept as it is.
Enqueue(e) ==
  /\ e \notin Pending
  /\ \E n \in 1 .. MaxRowid :
       IsNextRowid(n) /\ outbox' = [outbox EXCEPT ![e] = NewRow(n)]
  /\ UNCHANGED <<dead, stored, thread, late, sends, crashes>>

\* The flush lock of the process is free.
MayFlush(t) == \A s \in Threads : ProcessOf[s] = ProcessOf[t] => thread[s].pc = "idle"

\* Mutation: the newest first.
SelectableBackwards ==
  {batch \in SUBSET Due :
     /\ batch # {} /\ Cardinality(batch) <= BatchSize
     /\ \A e \in batch, d \in Due : outbox[d].rowid > outbox[e].rowid => d \in batch}

\* What one flush may select: due rows, the oldest first, up to the limit.
Selectable ==
  {batch \in SUBSET Due :
     /\ batch # {} /\ Cardinality(batch) <= BatchSize
     /\ \A e \in batch, d \in Due : outbox[d].rowid < outbox[e].rowid => d \in batch}

\* _flush_once up to the call of transport.send.
Flush(t) ==
  /\ MayFlush(t)
  /\ \E batch \in Selectable :
       /\ thread' = [thread EXCEPT ![t] =
            [pc    |-> "sent",
             rows  |-> [e \in Events |-> IF e \in batch THEN outbox[e].attempts ELSE None],
             reply |-> [e \in Events |-> None]]]
       /\ sends' = [e \in Events |-> IF e \in batch /\ sends[e] < MaxAttempts
                                     THEN sends[e] + 1 ELSE sends[e]]
  /\ UNCHANGED <<outbox, dead, stored, late, crashes>>

\* The server takes a batch: valid events are stored unless they are already
\* (accepted or duplicate), the others rejected.  The answer names every event,
\* but a custom transport may drop some.
Ingest(t) ==
  /\ thread[t].pc = "sent"
  /\ stored' = stored \cup (Batch(t) \ Invalid)
  /\ \E answered \in SUBSET Batch(t) :
       thread' = [thread EXCEPT ![t] = [@ EXCEPT
         !.pc = "answered",
         !.reply = [e \in Events |-> IF e \notin answered THEN None
                                     ELSE IF e \in Invalid THEN "rejected" ELSE "taken"]]]
  /\ UNCHANGED <<outbox, dead, late, sends, crashes>>

\* A batch nobody waits for any more reaches the server.
IngestLate(batch) ==
  /\ batch \in late
  /\ stored' = stored \cup (batch \ Invalid)
  /\ late' = late \ {batch}
  /\ UNCHANGED <<outbox, dead, thread, sends, crashes>>

\* send raises (no connection, an HTTP error, the timeout), or what it returns has
\* no items: all rows are to be retried.  The batch may still be under way.
Undelivered(t) ==
  /\ thread[t].pc \in {"sent", "answered"}
  /\ thread' = [thread EXCEPT ![t] = [@ EXCEPT !.pc = "retrying"]]
  /\ late' \in {late, late \cup (IF thread[t].pc = "sent" THEN {Batch(t)} ELSE {})}
  /\ UNCHANGED <<outbox, dead, stored, sends, crashes>>

Answered(t, status) == {e \in Batch(t) : thread[t].reply[e] = status}

\* Mutation: every row of the batch is deleted, whatever the answer says.
SettledWithoutLooking(t) == Batch(t)

\* The rows that one transaction removes after an answer.
Settled(t) == Answered(t, "taken") \cup Answered(t, "rejected")

\* The answer is written back: delivered rows go, rejected ones become dead
\* letters, and those the answer left out are retried in a second transaction.
Settle(t) ==
  /\ thread[t].pc = "answered"
  /\ outbox' = [e \in Events |-> IF e \in Settled(t) THEN None ELSE outbox[e]]
  /\ dead' = [e \in Events |-> IF e \in Answered(t, "rejected") THEN "rejected" ELSE dead[e]]
  /\ thread' = [thread EXCEPT ![t] =
       IF Batch(t) \subseteq Settled(t) THEN Idle
       ELSE [@ EXCEPT !.pc = "retrying",
                      !.rows = [e \in Events |-> IF e \in Settled(t) THEN None ELSE thread[t].rows[e]]]]
  /\ UNCHANGED <<stored, late, sends, crashes>>

\* Mutation: the last attempt is not made.
ExhaustedEarly(t) == {e \in Batch(t) : thread[t].rows[e] + 2 >= MaxAttempts}

\* attempts >= max_attempts
Exhausted(t) == {e \in Batch(t) : thread[t].rows[e] + 1 >= MaxAttempts}

\* UPDATE pending_events, from the counter that was selected, not the current one.
Retried(t, e) ==
  [outbox[e] EXCEPT !.attempts = thread[t].rows[e] + 1, !.dueIn = Delay(thread[t].rows[e] + 1)]

\* _retry: rows without attempts left become dead letters, the others wait.  An
\* UPDATE of a row another process has removed does nothing.
Retry(t) ==
  /\ thread[t].pc = "retrying"
  /\ outbox' = [e \in Events |->
                  IF e \in Exhausted(t) THEN None
                  ELSE IF e \in Batch(t) /\ e \in Pending THEN Retried(t, e)
                  ELSE outbox[e]]
  /\ dead' = [e \in Events |-> IF e \in Exhausted(t) THEN "exhausted" ELSE dead[e]]
  /\ thread' = [thread EXCEPT ![t] = Idle]
  /\ UNCHANGED <<stored, late, sends, crashes>>

\* A process dies, and its threads forget what they selected; another starts.
\* A write that SQLite refuses, its file being locked for too long, does the same
\* to one flush.  What was sent may still arrive.
Crash(p) ==
  /\ crashes < MaxCrashes
  /\ crashes' = crashes + 1
  /\ \E t \in Threads :
       /\ ProcessOf[t] = p /\ thread[t].pc # "idle"
       /\ late' \in {late, late \cup (IF thread[t].pc = "sent" THEN {Batch(t)} ELSE {})}
  /\ thread' = [t \in Threads |-> IF ProcessOf[t] = p THEN Idle ELSE thread[t]]
  /\ UNCHANGED <<outbox, dead, stored, sends>>

\* Time passes for the rows that wait.
Tick ==
  /\ \E e \in Pending : outbox[e].dueIn > 0
  /\ outbox' = [e \in Events |->
                  IF e \in Pending /\ outbox[e].dueIn > 0
                  THEN [outbox[e] EXCEPT !.dueIn = @ - 1] ELSE outbox[e]]
  /\ UNCHANGED <<dead, stored, thread, late, sends, crashes>>

Next ==
  \/ \E e \in Events : Enqueue(e)
  \/ \E t \in Threads : Flush(t) \/ Ingest(t) \/ Undelivered(t) \/ Settle(t) \/ Retry(t)
  \/ \E batch \in late : IngestLate(batch)
  \/ \E p \in Processes : Crash(p)
  \/ Tick

Spec == Init /\ [][Next]_vars

\* Flushes come again: the scheduler runs the command repeatedly, and the live
\* callback flushes with every event it hands in.  A request ends by its timeout
\* at the latest, and a thread that has an outcome writes it back.
Fairness ==
  /\ \A p \in Processes : WF_vars(\E t \in Threads : ProcessOf[t] = p /\ Flush(t))
  /\ \A t \in Threads : WF_vars(Ingest(t) \/ Undelivered(t))
                        /\ WF_vars(Settle(t)) /\ WF_vars(Retry(t))
  /\ WF_vars(Tick)

FairSpec == Spec /\ Fairness

-----------------------------------------------------------------------------
(* What must hold. *)

\* Every row, dead letter, flush and batch has the shape the code gives it, and no
\* two rows have one row id.
TypeOK ==
  /\ outbox \in [Events -> Row \cup {None}]
  /\ dead \in [Events -> {"rejected", "exhausted", None}]
  /\ stored \subseteq Events
  /\ thread \in [Threads -> Flusher]
  /\ late \subseteq SUBSET Events
  /\ sends \in [Events -> 0 .. MaxAttempts]
  /\ crashes \in 0 .. MaxCrashes
  /\ \A e \in Pending, d \in Pending : outbox[e].rowid = outbox[d].rowid => e = d

\* "the same uploader cannot send or dead-letter a row twice" (client.py:139):
\* threads of one process never work on one row at the same time.
OneSenderPerProcess ==
  \A s \in Threads, t \in Threads :
    s # t /\ ProcessOf[s] = ProcessOf[t] => Batch(s) \cap Batch(t) = {}

\* An event is given up as undeliverable only after it was sent as often as the
\* settings allow, also when another process wrote an older counter back, the
\* process died in between, or the event was handed in again.
ExhaustedOnlyAfterAllAttempts ==
  \A e \in Events : dead[e] = "exhausted" => sends[e] >= MaxAttempts

\* With one process, the row a thread has selected is still there, with the same
\* counter, until that thread writes the outcome: no answer is applied to a row
\* that has moved on.
RowsWaitForTheirAnswer ==
  \A t \in Threads : \A e \in Batch(t) :
    e \in Pending /\ outbox[e].attempts = thread[t].rows[e] /\ outbox[e].dueIn = 0

\* The uploader, through crashes, lost answers, late batches and processes that
\* share one file, keeps the promise of EventDelivery.
Promised ==
  INSTANCE EventDelivery WITH held <- Pending, givenUp <- {e \in Events : dead[e] # None}

KeepsPromise == Promised!Spec

\* Every row leaves the outbox in the end.
EveryRowLeaves == \A e \in Events : e \in Pending ~> e \notin Pending

===============================================================================
