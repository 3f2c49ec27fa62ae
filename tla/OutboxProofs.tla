----------------------------- MODULE OutboxProofs -----------------------------
(* Proofs about Outbox, for any events, threads, processes and settings. *)
EXTENDS Outbox, TLAPS

\* A thread that is idle has nothing selected.
IdleInv == \A t \in Threads : thread[t].pc = "idle" => Batch(t) = {}

\* At most one thread of a process is in a flush.
LockInv ==
  \A s \in Threads, t \in Threads :
    s # t /\ ProcessOf[s] = ProcessOf[t] => thread[s].pc = "idle" \/ thread[t].pc = "idle"

\* Every counter is backed by as many sends, and what a thread has selected was
\* sent once more than it counts.
SendsInv ==
  /\ \A e \in Pending : outbox[e].attempts <= sends[e]
  /\ \A t \in Threads : \A e \in Batch(t) : thread[t].rows[e] + 1 <= sends[e]
  /\ ExhaustedOnlyAfterAllAttempts

\* What has been handed in and not lost.
Known == Pending \cup stored \cup {e \in Events : dead[e] # None}

\* What is under way, or being settled, is known; what was answered as taken is
\* in the server's database.
KnownInv ==
  /\ \A t \in Threads : Batch(t) \subseteq Known
  /\ \A batch \in late : batch \subseteq Known
  /\ \A t \in Threads : Answered(t, "taken") \subseteq stored

IInv == TypeOK /\ IdleInv /\ LockInv /\ SendsInv /\ KnownInv

-----------------------------------------------------------------------------
\* The values the types are made of differ from None.
LEMMA NoneIsNone ==
  None \notin Row /\ None \notin Int /\ None # "taken" /\ None # "rejected" /\ None # "exhausted"
BY OutboxAssumption

\* The wait before the next attempt is within the settings.
LEMMA BackoffIsBounded ==
  ASSUME NEW n \in 1 .. MaxAttempts
  PROVE  Delay(n) \in 0 .. RetryMax
<1>1. 2 ^ (n - 1) \in Nat
  BY OutboxAssumption, PowerAssumption
<1>2. \A k \in Nat : RetryBase * k \in Nat
  BY OutboxAssumption
<1> QED BY <1>1, <1>2, OutboxAssumption DEF Delay

\* The state of a thread that does nothing.
LEMMA IdleIsFlusher == Idle \in Flusher /\ Idle.pc = "idle" /\ \A e \in Events : Idle.rows[e] = None
BY DEF Idle, Flusher

\* A row with another counter and another time is a row in the same place.
LEMMA RowUpdate ==
  ASSUME NEW row \in Row, NEW a \in 0 .. MaxAttempts - 1, NEW d \in 0 .. RetryMax
  PROVE  /\ [row EXCEPT !.attempts = a, !.dueIn = d] \in Row
         /\ [row EXCEPT !.attempts = a, !.dueIn = d].rowid = row.rowid
         /\ [row EXCEPT !.attempts = a, !.dueIn = d].attempts = a
BY DEF Row

\* A retried row is a row that keeps its place.
LEMMA RetriedIsRow ==
  ASSUME TypeOK, NEW t \in Threads, NEW e \in Events, e \in Pending, e \in Batch(t),
         e \notin Exhausted(t)
  PROVE  /\ Retried(t, e) \in Row
         /\ Retried(t, e).rowid = outbox[e].rowid
         /\ Retried(t, e).attempts = thread[t].rows[e] + 1
<1>1. outbox[e] \in Row
  BY DEF TypeOK, Pending
<1>2. thread[t].rows[e] \in 0 .. MaxAttempts - 1
  BY DEF TypeOK, Flusher, Batch
<1>3. thread[t].rows[e] + 1 \in 1 .. MaxAttempts - 1
  BY <1>2, OutboxAssumption DEF Exhausted
<1>4. Delay(thread[t].rows[e] + 1) \in 0 .. RetryMax
  BY <1>3, BackoffIsBounded, OutboxAssumption
<1>5. thread[t].rows[e] + 1 \in 0 .. MaxAttempts - 1
  BY <1>3
<1>6. \A a \in 0 .. MaxAttempts - 1, d \in 0 .. RetryMax :
        /\ [outbox[e] EXCEPT !.attempts = a, !.dueIn = d] \in Row
        /\ [outbox[e] EXCEPT !.attempts = a, !.dueIn = d].rowid = outbox[e].rowid
        /\ [outbox[e] EXCEPT !.attempts = a, !.dueIn = d].attempts = a
  BY <1>1, RowUpdate
<1> QED BY <1>4, <1>5, <1>6, Zenon DEF Retried

\* An answer leaves the selected rows alone.
LEMMA AnswerKeepsRows ==
  ASSUME TypeOK, NEW t \in Threads, Ingest(t)
  PROVE  \A s \in Threads : thread'[s].rows = thread[s].rows
<1>1. \A q \in Flusher : \A f : [q EXCEPT !.pc = "answered", !.reply = f].rows = q.rows
  BY DEF Flusher
<1>2. PICK f : thread' = [thread EXCEPT ![t] = [@ EXCEPT !.pc = "answered", !.reply = f]]
  BY DEF Ingest
<1>3. thread'[t] = [thread[t] EXCEPT !.pc = "answered", !.reply = f]
  BY <1>2 DEF TypeOK
<1>4. thread'[t].rows = thread[t].rows
  BY <1>1, <1>3 DEF TypeOK
<1>5. \A s \in Threads : s # t => thread'[s] = thread[s]
  BY <1>2 DEF TypeOK
<1> QED BY <1>4, <1>5

\* The rows a thread holds, once a part of them is settled.
LEMMA FewerRows ==
  ASSUME NEW q \in Flusher, NEW S
  PROVE  [q EXCEPT !.pc = "retrying",
            !.rows = [e \in Events |-> IF e \in S THEN None ELSE q.rows[e]]] \in Flusher
<1>1. [e \in Events |-> IF e \in S THEN None ELSE q.rows[e]]
        \in [Events -> (0 .. MaxAttempts - 1) \cup {None}]
  BY DEF Flusher
<1>2. \A f \in [Events -> (0 .. MaxAttempts - 1) \cup {None}] :
        [q EXCEPT !.pc = "retrying", !.rows = f] \in Flusher
  BY DEF Flusher
<1> QED BY <1>1, <1>2

\* A thread that has settled holds a part of what it held.
LEMMA SettledThread ==
  ASSUME TypeOK, NEW t \in Threads, Settle(t)
  PROVE  \A e \in Events :
           \/ thread'[t].rows[e] = None
           \/ /\ thread'[t].rows[e] = thread[t].rows[e] /\ thread'[t].reply = thread[t].reply
              /\ e \notin Settled(t)
<1> DEFINE f == [e \in Events |-> IF e \in Settled(t) THEN None ELSE thread[t].rows[e]]
<1>1. \A q \in Flusher : \A g : [q EXCEPT !.pc = "retrying", !.rows = g].rows = g
  BY DEF Flusher
<1>2. \A q \in Flusher : \A g : [q EXCEPT !.pc = "retrying", !.rows = g].reply = q.reply
  BY DEF Flusher
<1>3. thread[t] \in Flusher
  BY DEF TypeOK
<1>4. CASE thread'[t] = Idle
  BY <1>4, IdleIsFlusher
<1>5. CASE thread'[t] # Idle
  <2>1. thread'[t] = [thread[t] EXCEPT !.pc = "retrying", !.rows = f]
    BY <1>5 DEF Settle, TypeOK
  <2>2. thread'[t].rows = f /\ thread'[t].reply = thread[t].reply
    BY <1>1, <1>2, <1>3, <2>1
  <2> QED BY <2>2
<1> QED BY <1>4, <1>5

-----------------------------------------------------------------------------
\* Nothing is there at first.
LEMMA InitHolds == Init => IInv
<1> SUFFICES ASSUME Init PROVE IInv
  OBVIOUS
<1> USE DEF Init
<1>1. TypeOK
  BY IdleIsFlusher, OutboxAssumption DEF TypeOK, Pending
<1>2. \A t \in Threads : thread[t].pc = "idle" /\ Batch(t) = {}
  BY IdleIsFlusher DEF Batch
<1>3. IdleInv /\ LockInv
  BY <1>2 DEF IdleInv, LockInv
<1>4. SendsInv
  BY <1>2, NoneIsNone DEF SendsInv, ExhaustedOnlyAfterAllAttempts, Pending
<1>5. KnownInv
  BY <1>2 DEF KnownInv, Answered
<1> QED BY <1>1, <1>3, <1>4, <1>5 DEF IInv

\* No step breaks a type.
LEMMA TypeStep == TypeOK /\ [Next]_vars => TypeOK'
<1> SUFFICES ASSUME TypeOK, [Next]_vars PROVE TypeOK'
  OBVIOUS
<1> USE IdleIsFlusher, NoneIsNone
<1>1. ASSUME NEW e \in Events, Enqueue(e) PROVE TypeOK'
  <2>1. PICK n \in 1 .. MaxRowid :
          IsNextRowid(n) /\ outbox' = [outbox EXCEPT ![e] = NewRow(n)]
    BY <1>1 DEF Enqueue
  <2>2. NewRow(n) \in Row /\ NewRow(n).rowid = n
    BY OutboxAssumption DEF NewRow, Row
  <2>3. outbox' \in [Events -> Row \cup {None}]
    BY <2>1, <2>2 DEF TypeOK
  <2>4. \A d \in Pending : d # e => outbox'[d].rowid = outbox[d].rowid /\ outbox[d].rowid < n
    BY <2>1 DEF IsNextRowid, TypeOK, Pending
  <2>5. \A d \in Pending' : d # e => d \in Pending
    BY <2>1 DEF TypeOK, Pending
  <2>6. outbox'[e].rowid = n
    BY <2>1, <2>2 DEF TypeOK
  <2>7. \A c \in Pending', d \in Pending' : outbox'[c].rowid = outbox'[d].rowid => c = d
    <3> SUFFICES ASSUME NEW c \in Pending', NEW d \in Pending',
                        outbox'[c].rowid = outbox'[d].rowid, c # d
                 PROVE  FALSE
      OBVIOUS
    <3>1. \A x \in Pending : outbox[x].rowid \in Int
      BY DEF TypeOK, Pending, Row
    <3>2. CASE c = e
      BY <2>4, <2>5, <2>6, <3>1, <3>2
    <3>3. CASE d = e
      BY <2>4, <2>5, <2>6, <3>1, <3>3
    <3>4. CASE c # e /\ d # e
      BY <2>4, <2>5, <3>4 DEF TypeOK
    <3> QED BY <3>2, <3>3, <3>4
  <2> QED BY <1>1, <2>3, <2>7 DEF Enqueue, TypeOK
<1>2. ASSUME NEW t \in Threads, Flush(t) PROVE TypeOK'
  <2>1. PICK batch \in Selectable :
          /\ thread' = [thread EXCEPT ![t] =
               [pc    |-> "sent",
                rows  |-> [e \in Events |-> IF e \in batch THEN outbox[e].attempts ELSE None],
                reply |-> [e \in Events |-> None]]]
          /\ sends' = [e \in Events |-> IF e \in batch /\ sends[e] < MaxAttempts
                                        THEN sends[e] + 1 ELSE sends[e]]
    BY <1>2 DEF Flush
  <2>2. \A e \in batch : outbox[e].attempts \in 0 .. MaxAttempts - 1
    BY DEF Selectable, Due, Pending, TypeOK, Row
  <2>3. [e \in Events |-> IF e \in batch THEN outbox[e].attempts ELSE None]
          \in [Events -> (0 .. MaxAttempts - 1) \cup {None}]
    BY <2>2
  <2>4. thread' \in [Threads -> Flusher]
    BY <2>1, <2>3 DEF TypeOK, Flusher
  <2>5. sends' \in [Events -> 0 .. MaxAttempts]
    BY <2>1, OutboxAssumption DEF TypeOK
  <2>6. UNCHANGED <<outbox, dead, stored, late, crashes>>
    BY <1>2 DEF Flush
  <2> QED BY <2>4, <2>5, <2>6 DEF TypeOK, Pending
<1>3. ASSUME NEW t \in Threads, Ingest(t) PROVE TypeOK'
  <2>1. PICK answered \in SUBSET Batch(t) :
          thread' = [thread EXCEPT ![t] = [@ EXCEPT
            !.pc = "answered",
            !.reply = [e \in Events |-> IF e \notin answered THEN None
                                        ELSE IF e \in Invalid THEN "rejected" ELSE "taken"]]]
    BY <1>3 DEF Ingest
  <2>2. [thread[t] EXCEPT
            !.pc = "answered",
            !.reply = [e \in Events |-> IF e \notin answered THEN None
                                        ELSE IF e \in Invalid THEN "rejected" ELSE "taken"]]
          \in Flusher
    BY DEF TypeOK, Flusher
  <2>3. thread' \in [Threads -> Flusher]
    BY <2>1, <2>2 DEF TypeOK
  <2>4. stored' \subseteq Events
    BY <1>3 DEF Ingest, TypeOK, Batch
  <2> QED BY <1>3, <2>3, <2>4 DEF Ingest, TypeOK, Pending
<1>4. ASSUME NEW batch \in late, IngestLate(batch) PROVE TypeOK'
  BY <1>4 DEF IngestLate, TypeOK, Pending
<1>5. ASSUME NEW t \in Threads, Undelivered(t) PROVE TypeOK'
  <2>1. [thread[t] EXCEPT !.pc = "retrying"] \in Flusher
    BY DEF TypeOK, Flusher
  <2>2. thread' \in [Threads -> Flusher]
    BY <1>5, <2>1 DEF Undelivered, TypeOK
  <2>3. late' \subseteq SUBSET Events
    BY <1>5 DEF Undelivered, TypeOK, Batch
  <2> QED BY <1>5, <2>2, <2>3 DEF Undelivered, TypeOK, Pending
<1>6. ASSUME NEW t \in Threads, Settle(t) PROVE TypeOK'
  <2>1. outbox' \in [Events -> Row \cup {None}]
    BY <1>6 DEF Settle, TypeOK
  <2>2. dead' \in [Events -> {"rejected", "exhausted", None}]
    BY <1>6 DEF Settle, TypeOK
  <2>3. thread' \in [Threads -> Flusher]
    <3>1. [thread[t] EXCEPT !.pc = "retrying",
             !.rows = [e \in Events |-> IF e \in Settled(t) THEN None ELSE thread[t].rows[e]]]
            \in Flusher
      BY FewerRows DEF TypeOK
    <3> QED BY <1>6, <3>1 DEF Settle, TypeOK
  <2>4. \A c \in Pending', d \in Pending' : outbox'[c].rowid = outbox'[d].rowid => c = d
    BY <1>6 DEF Settle, TypeOK, Pending
  <2> QED BY <1>6, <2>1, <2>2, <2>3, <2>4 DEF Settle, TypeOK
<1>7. ASSUME NEW t \in Threads, Retry(t) PROVE TypeOK'
  <2>1. \A e \in Events : outbox'[e] =
          IF e \in Exhausted(t) THEN None
          ELSE IF e \in Batch(t) /\ e \in Pending THEN Retried(t, e)
          ELSE outbox[e]
    BY <1>7 DEF Retry
  <2>2. \A e \in Events : outbox'[e] \in Row \cup {None}
    BY <2>1, RetriedIsRow DEF TypeOK
  <2>3. outbox' \in [Events -> Row \cup {None}]
    BY <1>7, <2>2 DEF Retry
  <2>4. dead' \in [Events -> {"rejected", "exhausted", None}]
    BY <1>7 DEF Retry, TypeOK
  <2>5. \A e \in Pending' : e \in Pending /\ outbox'[e].rowid = outbox[e].rowid
    BY <2>1, RetriedIsRow DEF Pending
  <2>6. \A c \in Pending', d \in Pending' : outbox'[c].rowid = outbox'[d].rowid => c = d
    BY <2>5 DEF TypeOK
  <2>7. thread' \in [Threads -> Flusher]
    BY <1>7 DEF Retry, TypeOK
  <2> QED BY <1>7, <2>3, <2>4, <2>6, <2>7 DEF Retry, TypeOK
<1>8. ASSUME NEW p \in Processes, Crash(p) PROVE TypeOK'
  <2>1. thread' \in [Threads -> Flusher]
    BY <1>8 DEF Crash, TypeOK
  <2>2. late' \subseteq SUBSET Events
    BY <1>8 DEF Crash, TypeOK, Batch
  <2>3. crashes' \in 0 .. MaxCrashes
    BY <1>8, OutboxAssumption DEF Crash, TypeOK
  <2> QED BY <1>8, <2>1, <2>2, <2>3 DEF Crash, TypeOK, Pending
<1>9. ASSUME Tick PROVE TypeOK'
  <2>1. \A e \in Events : e \in Pending /\ outbox[e].dueIn > 0 =>
          /\ [outbox[e] EXCEPT !.dueIn = @ - 1] \in Row
          /\ [outbox[e] EXCEPT !.dueIn = @ - 1].rowid = outbox[e].rowid
    BY OutboxAssumption DEF TypeOK, Pending, Row
  <2>2. outbox' \in [Events -> Row \cup {None}]
    BY <1>9, <2>1 DEF Tick, TypeOK
  <2>3. \A e \in Pending' : e \in Pending /\ outbox'[e].rowid = outbox[e].rowid
    BY <1>9, <2>1 DEF Tick, Pending
  <2>4. \A c \in Pending', d \in Pending' : outbox'[c].rowid = outbox'[d].rowid => c = d
    BY <2>3 DEF TypeOK
  <2> QED BY <1>9, <2>2, <2>4 DEF Tick, TypeOK
<1>10. CASE UNCHANGED vars
  BY <1>10 DEF vars, TypeOK, Pending
<1> QED BY <1>1, <1>2, <1>3, <1>4, <1>5, <1>6, <1>7, <1>8, <1>9, <1>10 DEF Next

-----------------------------------------------------------------------------
\* A step that moves one thread, from a flush or into it.
LEMMA LockStep == TypeOK /\ IdleInv /\ LockInv /\ [Next]_vars => IdleInv' /\ LockInv'
<1> SUFFICES ASSUME TypeOK, IdleInv, LockInv, [Next]_vars PROVE IdleInv' /\ LockInv'
  OBVIOUS
<1> USE IdleIsFlusher
<1>1. ASSUME NEW t \in Threads, Flush(t) PROVE IdleInv' /\ LockInv'
  <2>1. \A s \in Threads : ProcessOf[s] = ProcessOf[t] => thread[s].pc = "idle"
    BY <1>1 DEF Flush, MayFlush
  <2>2. thread'[t].pc = "sent" /\ \A s \in Threads : s # t => thread'[s] = thread[s]
    BY <1>1 DEF Flush, TypeOK
  <2> QED BY <2>1, <2>2 DEF IdleInv, LockInv, Batch
<1>2. ASSUME NEW t \in Threads, thread[t].pc # "idle",
             \A s \in Threads : s # t => thread'[s] = thread[s],
             thread'[t] = Idle \/ thread'[t].pc # "idle"
      PROVE  IdleInv' /\ LockInv'
  BY <1>2 DEF IdleInv, LockInv, Batch
<1>3. ASSUME NEW t \in Threads, Ingest(t) PROVE IdleInv' /\ LockInv'
  <2>1. thread'[t].pc = "answered"
    BY <1>3 DEF Ingest, TypeOK, Flusher
  <2> QED BY <1>2, <1>3, <2>1 DEF Ingest, TypeOK
<1>4. ASSUME NEW t \in Threads, Undelivered(t) PROVE IdleInv' /\ LockInv'
  <2>1. thread'[t].pc = "retrying"
    BY <1>4 DEF Undelivered, TypeOK, Flusher
  <2> QED BY <1>2, <1>4, <2>1 DEF Undelivered, TypeOK
<1>5. ASSUME NEW t \in Threads, Settle(t) PROVE IdleInv' /\ LockInv'
  <2>1. thread'[t] = Idle \/ thread'[t].pc = "retrying"
    BY <1>5 DEF Settle, TypeOK, Flusher
  <2> QED BY <1>2, <1>5, <2>1 DEF Settle, TypeOK
<1>6. ASSUME NEW t \in Threads, Retry(t) PROVE IdleInv' /\ LockInv'
  <2>1. thread'[t] = Idle
    BY <1>6 DEF Retry, TypeOK
  <2> QED BY <1>2, <1>6, <2>1 DEF Retry, TypeOK
<1>7. ASSUME NEW p \in Processes, Crash(p) PROVE IdleInv' /\ LockInv'
  <2>1. \A t \in Threads : thread'[t] = Idle \/ thread'[t] = thread[t]
    BY <1>7 DEF Crash
  <2> QED BY <2>1 DEF IdleInv, LockInv, Batch
<1>8. CASE thread' = thread
  BY <1>8 DEF IdleInv, LockInv, Batch
<1> QED BY <1>1, <1>3, <1>4, <1>5, <1>6, <1>7, <1>8 DEF Next, Enqueue, IngestLate, Tick, vars

\* Two threads of one process never have a row in common, for one of them is idle.
LEMMA LockSeparates == IdleInv /\ LockInv => OneSenderPerProcess
BY DEF IdleInv, LockInv, OneSenderPerProcess

-----------------------------------------------------------------------------
\* A step leaves the counters backed when no counter grows without a send.
LEMMA CountersKept ==
  ASSUME TypeOK, TypeOK', SendsInv,
         \A e \in Events : sends'[e] >= sends[e],
         \A e \in Pending' : outbox'[e].attempts <= sends'[e],
         \A t \in Threads : \A e \in Batch(t)' :
           e \in Batch(t) /\ thread'[t].rows[e] = thread[t].rows[e],
         \A e \in Events : dead'[e] = "exhausted" =>
           dead[e] = "exhausted" \/ sends'[e] >= MaxAttempts
  PROVE  SendsInv'
<1> USE OutboxAssumption
<1>1. \A e \in Events : sends[e] \in Int /\ sends'[e] \in Int
  BY DEF TypeOK
<1>2. \A t \in Threads : \A e \in Batch(t)' : thread'[t].rows[e] + 1 <= sends'[e]
  <2> SUFFICES ASSUME NEW t \in Threads, NEW e \in Batch(t)'
               PROVE  thread'[t].rows[e] + 1 <= sends'[e]
    OBVIOUS
  <2>1. e \in Events /\ e \in Batch(t) /\ thread'[t].rows[e] = thread[t].rows[e]
    BY DEF Batch
  <2>2. thread[t].rows[e] \in Int
    BY <2>1 DEF TypeOK, Flusher, Batch
  <2> QED BY <1>1, <2>1, <2>2 DEF SendsInv
<1>3. ExhaustedOnlyAfterAllAttempts'
  BY <1>1 DEF SendsInv, ExhaustedOnlyAfterAllAttempts
<1> QED BY <1>2, <1>3 DEF SendsInv

\* A step that changes no row, no dead letter, no count of sends, and at most ends
\* or shrinks what threads hold.
LEMMA CountersUntouched ==
  ASSUME TypeOK, TypeOK', SendsInv, UNCHANGED <<sends, dead, outbox>>,
         \A t \in Threads : \A e \in Batch(t)' :
           e \in Batch(t) /\ thread'[t].rows[e] = thread[t].rows[e]
  PROVE  SendsInv'
<1>1. \A e \in Events : sends'[e] >= sends[e]
  BY DEF TypeOK
<1>2. \A e \in Pending' : outbox'[e].attempts <= sends'[e]
  BY DEF SendsInv, Pending
<1> QED BY <1>1, <1>2, CountersKept

\* Counters never run ahead of sends.
LEMMA SendsStep == TypeOK /\ TypeOK' /\ SendsInv /\ [Next]_vars => SendsInv'
<1> SUFFICES ASSUME TypeOK, TypeOK', SendsInv, [Next]_vars PROVE SendsInv'
  OBVIOUS
<1> USE IdleIsFlusher, NoneIsNone
<1>0. \A e \in Events : sends[e] \in 0 .. MaxAttempts
  BY DEF TypeOK
<1>a. sends' = sends => \A e \in Events : sends'[e] >= sends[e]
  BY <1>0, OutboxAssumption
<1>b. thread' = thread => \A t \in Threads : \A e \in Batch(t)' :
        e \in Batch(t) /\ thread'[t].rows[e] = thread[t].rows[e]
  BY DEF Batch
<1>1. ASSUME NEW e \in Events, Enqueue(e) PROVE SendsInv'
  <2>1. UNCHANGED <<dead, thread, sends>>
    BY <1>1 DEF Enqueue
  <2>2. \A d \in Events : outbox'[d] = outbox[d] \/ outbox'[d].attempts = 0
    BY <1>1 DEF Enqueue, NewRow, TypeOK
  <2>3. \A d \in Pending' : outbox'[d].attempts <= sends'[d]
    BY <1>0, <2>1, <2>2, OutboxAssumption DEF SendsInv, Pending
  <2> QED BY <1>a, <1>b, <2>1, <2>3, CountersKept
<1>2. ASSUME NEW t \in Threads, Flush(t) PROVE SendsInv'
  <2>1. PICK batch \in Selectable :
          /\ thread' = [thread EXCEPT ![t] =
               [pc    |-> "sent",
                rows  |-> [e \in Events |-> IF e \in batch THEN outbox[e].attempts ELSE None],
                reply |-> [e \in Events |-> None]]]
          /\ sends' = [e \in Events |-> IF e \in batch /\ sends[e] < MaxAttempts
                                        THEN sends[e] + 1 ELSE sends[e]]
    BY <1>2 DEF Flush
  <2>2. UNCHANGED <<outbox, dead>>
    BY <1>2 DEF Flush
  <2>3. \A e \in Events : sends'[e] >= sends[e]
    BY <1>0, <2>1, OutboxAssumption
  <2>4. \A e \in Pending : outbox[e].attempts \in 0 .. MaxAttempts - 1
    BY DEF Pending, TypeOK, Row
  <2>5. \A e \in Pending' : outbox'[e].attempts <= sends'[e]
    BY <1>0, <2>2, <2>3, <2>4, OutboxAssumption DEF SendsInv, Pending, TypeOK
  <2>6. \A e \in Batch(t)' : e \in batch /\ thread'[t].rows[e] = outbox[e].attempts
    BY <2>1 DEF Batch, TypeOK
  <2>7. \A e \in batch : e \in Events /\ e \in Pending
    BY DEF Selectable, Due, Pending
  <2>8. \A e \in batch : outbox[e].attempts + 1 <= sends'[e]
    BY <1>0, <2>1, <2>4, <2>7, OutboxAssumption DEF SendsInv
  <2>9. ASSUME NEW s \in Threads, s # t, NEW e \in Batch(s)'
        PROVE  thread'[s].rows[e] + 1 <= sends'[e]
    <3>1. thread'[s] = thread[s]
      BY <2>1, <2>9 DEF TypeOK
    <3>2. e \in Events /\ e \in Batch(s)
      BY <3>1 DEF Batch
    <3>3. thread[s].rows[e] \in Int
      BY <3>2 DEF TypeOK, Flusher, Batch
    <3>4. sends'[e] \in Int
      BY <3>2 DEF TypeOK
    <3> QED BY <1>0, <2>3, <3>1, <3>2, <3>3, <3>4, OutboxAssumption DEF SendsInv
  <2>10. \A s \in Threads : \A e \in Batch(s)' : thread'[s].rows[e] + 1 <= sends'[e]
    BY <2>6, <2>8, <2>9
  <2>11. ExhaustedOnlyAfterAllAttempts'
    <3>1. \A e \in Events : sends'[e] \in Int
      BY DEF TypeOK
    <3> QED BY <1>0, <2>2, <2>3, <3>1, OutboxAssumption
            DEF SendsInv, ExhaustedOnlyAfterAllAttempts
  <2> QED BY <2>5, <2>10, <2>11 DEF SendsInv
<1>3. ASSUME NEW t \in Threads, Ingest(t) PROVE SendsInv'
  <2>1. \A s \in Threads : thread'[s].rows = thread[s].rows
    BY <1>3, AnswerKeepsRows
  <2>2. \A s \in Threads : \A e \in Batch(s)' :
          e \in Batch(s) /\ thread'[s].rows[e] = thread[s].rows[e]
    BY <2>1 DEF Batch
  <2> QED BY <1>3, <2>2, CountersUntouched DEF Ingest
<1>4. ASSUME NEW batch \in late, IngestLate(batch) PROVE SendsInv'
  BY <1>4, <1>b, CountersUntouched DEF IngestLate
<1>5. ASSUME NEW t \in Threads, Undelivered(t) PROVE SendsInv'
  <2>1. \A s \in Threads : thread'[s].rows = thread[s].rows
    BY <1>5 DEF Undelivered, TypeOK, Flusher
  <2>2. \A s \in Threads : \A e \in Batch(s)' :
          e \in Batch(s) /\ thread'[s].rows[e] = thread[s].rows[e]
    BY <2>1 DEF Batch
  <2> QED BY <1>5, <2>2, CountersUntouched DEF Undelivered
<1>6. ASSUME NEW t \in Threads, Settle(t) PROVE SendsInv'
  <2>1. \A s \in Threads : s # t => thread'[s] = thread[s]
    BY <1>6 DEF Settle, TypeOK
  <2>2. \A e \in Events : thread'[t].rows[e] = None \/ thread'[t].rows[e] = thread[t].rows[e]
    BY <1>6, SettledThread
  <2>3. \A s \in Threads : \A e \in Batch(s)' :
          e \in Batch(s) /\ thread'[s].rows[e] = thread[s].rows[e]
    BY <2>1, <2>2 DEF Batch
  <2>4. \A e \in Pending' : e \in Pending /\ outbox'[e] = outbox[e]
    BY <1>6 DEF Settle, Pending
  <2>5. sends' = sends
    BY <1>6 DEF Settle
  <2>6. \A e \in Pending' : outbox'[e].attempts <= sends'[e]
    BY <2>4, <2>5 DEF SendsInv
  <2>7. \A e \in Events : dead'[e] = "exhausted" => dead[e] = "exhausted"
    BY <1>6 DEF Settle
  <2> QED BY <1>a, <2>3, <2>5, <2>6, <2>7, CountersKept
<1>7. ASSUME NEW t \in Threads, Retry(t) PROVE SendsInv'
  <2>1. sends' = sends
    BY <1>7 DEF Retry
  <2>2. \A s \in Threads : \A e \in Batch(s)' :
          e \in Batch(s) /\ thread'[s].rows[e] = thread[s].rows[e]
    BY <1>7 DEF Retry, TypeOK, Batch
  <2>3. \A e \in Events : outbox'[e] =
          IF e \in Exhausted(t) THEN None
          ELSE IF e \in Batch(t) /\ e \in Pending THEN Retried(t, e)
          ELSE outbox[e]
    BY <1>7 DEF Retry
  <2>4. \A e \in Batch(t) : thread[t].rows[e] + 1 <= sends[e]
    BY DEF SendsInv
  <2>5. \A e \in Pending' : outbox'[e].attempts <= sends'[e]
    <3> SUFFICES ASSUME NEW e \in Pending' PROVE outbox'[e].attempts <= sends[e]
      BY <2>1
    <3>1. e \in Events /\ e \notin Exhausted(t)
      BY <2>3 DEF Pending
    <3>2. CASE e \in Batch(t) /\ e \in Pending
      BY <2>3, <2>4, <3>1, <3>2, RetriedIsRow
    <3>3. CASE ~(e \in Batch(t) /\ e \in Pending)
      <4>1. outbox'[e] = outbox[e]
        BY <2>3, <3>1, <3>3
      <4> QED BY <4>1 DEF SendsInv, Pending
    <3> QED BY <3>2, <3>3
  <2>6. \A e \in Exhausted(t) : sends[e] >= MaxAttempts
    <3> SUFFICES ASSUME NEW e \in Exhausted(t) PROVE sends[e] >= MaxAttempts
      OBVIOUS
    <3>1. e \in Events /\ e \in Batch(t) /\ thread[t].rows[e] + 1 >= MaxAttempts
      BY DEF Exhausted, Batch
    <3>2. thread[t].rows[e] \in Int
      BY <3>1 DEF TypeOK, Flusher, Batch
    <3> QED BY <1>0, <2>4, <3>1, <3>2, OutboxAssumption
  <2>7. \A e \in Events : dead'[e] = "exhausted" =>
          dead[e] = "exhausted" \/ sends'[e] >= MaxAttempts
    BY <1>7, <2>1, <2>6 DEF Retry
  <2> QED BY <1>a, <2>1, <2>2, <2>5, <2>7, CountersKept
<1>8. ASSUME NEW p \in Processes, Crash(p) PROVE SendsInv'
  <2>1. \A t \in Threads : \A e \in Batch(t)' :
          e \in Batch(t) /\ thread'[t].rows[e] = thread[t].rows[e]
    BY <1>8 DEF Crash, Batch
  <2> QED BY <1>8, <2>1, CountersUntouched DEF Crash
<1>9. ASSUME Tick PROVE SendsInv'
  <2>1. UNCHANGED <<dead, thread, sends>>
    BY <1>9 DEF Tick
  <2>2. \A e \in Pending' : e \in Pending /\ outbox'[e].attempts = outbox[e].attempts
    <3>1. \A e \in Pending : [outbox[e] EXCEPT !.dueIn = @ - 1].attempts = outbox[e].attempts
      BY DEF TypeOK, Pending, Row
    <3> QED BY <1>9, <3>1 DEF Tick, Pending
  <2>3. \A e \in Pending' : outbox'[e].attempts <= sends'[e]
    BY <2>1, <2>2 DEF SendsInv
  <2> QED BY <1>a, <1>b, <2>1, <2>3, CountersKept
<1>10. CASE UNCHANGED vars
  BY <1>10, <1>b, CountersUntouched DEF vars
<1> QED BY <1>1, <1>2, <1>3, <1>4, <1>5, <1>6, <1>7, <1>8, <1>9, <1>10 DEF Next

-----------------------------------------------------------------------------
\* A step loses nothing when what it lets go is stored or a dead letter.
LEMMA KnownGrows ==
  ASSUME stored \subseteq stored',
         \A e \in Events : dead[e] # None => dead'[e] # None,
         \A e \in Pending : e \in Pending' \/ e \in stored' \/ dead'[e] # None
  PROVE  Known \subseteq Known'
<1>1. Pending \subseteq Known'
  BY DEF Known, Pending
<1>2. stored \subseteq Known'
  BY DEF Known
<1>3. {e \in Events : dead[e] # None} \subseteq Known'
  BY DEF Known
<1> QED BY <1>1, <1>2, <1>3 DEF Known

\* Known events stay known when no thread comes to hold, and no batch to be, any
\* other.
LEMMA KnownKept ==
  ASSUME KnownInv, Known \subseteq Known', stored \subseteq stored',
         \A s \in Threads : Batch(s)' \subseteq Batch(s),
         \A batch \in late' : batch \in late \/ \E s \in Threads : batch = Batch(s),
         \A s \in Threads : Answered(s, "taken")' \subseteq Answered(s, "taken") \cup stored'
  PROVE  KnownInv'
BY DEF KnownInv

\* A step of EventDelivery: events leave the outbox.
LEMMA LettingGo ==
  ASSUME TypeOK, NEW S, NEW K, S \subseteq stored, K \subseteq Known,
         \A e \in Events : e \in Pending' <=> e \in Pending /\ e \notin S \cup K,
         \A e \in Events : dead'[e] # None <=> dead[e] # None \/ e \in K,
         K \subseteq Events, stored' = stored
  PROVE  Promised!LetGo
<1> DEFINE givenUp == {e \in Events : dead[e] # None}
<1>1. S \in SUBSET stored /\ K \in SUBSET Promised!Known
  BY DEF Known, Promised!Known
<1>2. Pending' = Pending \ (S \cup K)
  BY DEF Pending
<1>3. givenUp' = givenUp \cup K
  OBVIOUS
<1> QED BY <1>1, <1>2, <1>3 DEF Promised!LetGo

\* Nothing is lost, and every step is one the promise allows or one it does not see.
LEMMA PromiseStep ==
  TypeOK /\ TypeOK' /\ IdleInv /\ KnownInv /\ [Next]_vars
    => KnownInv' /\ [Promised!Next]_<<Pending, stored, {e \in Events : dead[e] # None}>>
<1> SUFFICES ASSUME TypeOK, TypeOK', IdleInv, KnownInv, [Next]_vars
             PROVE  /\ KnownInv'
                    /\ \/ Promised!Next
                       \/ UNCHANGED <<Pending, stored, {e \in Events : dead[e] # None}>>
  OBVIOUS
<1> USE IdleIsFlusher, NoneIsNone
<1> DEFINE Seen == <<Pending, stored, {e \in Events : dead[e] # None}>>
<1>a. thread' = thread =>
        \A s \in Threads : Batch(s)' = Batch(s) /\ Answered(s, "taken")' = Answered(s, "taken")
  BY DEF Batch, Answered
<1>1. ASSUME NEW e \in Events, Enqueue(e) PROVE KnownInv' /\ Promised!Next
  <2>1. UNCHANGED <<dead, stored, thread, late>>
    BY <1>1 DEF Enqueue
  <2>2. Pending' = Pending \cup {e}
    <3>1. PICK n \in 1 .. MaxRowid : outbox' = [outbox EXCEPT ![e] = NewRow(n)]
      BY <1>1 DEF Enqueue
    <3>2. outbox'[e] # None
      <4>1. outbox'[e] = NewRow(n)
        BY <3>1 DEF TypeOK
      <4>2. NewRow(n) \in Row
        BY OutboxAssumption DEF NewRow, Row
      <4> QED BY <4>1, <4>2
    <3> QED BY <3>1, <3>2 DEF Pending, TypeOK
  <2>3. Known \subseteq Known'
    BY <2>1, <2>2, KnownGrows
  <2>4. KnownInv'
    BY <1>a, <2>1, <2>3, KnownKept
  <2> QED BY <2>1, <2>2, <2>4 DEF Promised!Next, Promised!HandIn
<1>2. ASSUME NEW t \in Threads, Flush(t) PROVE KnownInv' /\ UNCHANGED Seen
  <2>1. PICK batch \in Selectable :
          thread' = [thread EXCEPT ![t] =
               [pc    |-> "sent",
                rows  |-> [e \in Events |-> IF e \in batch THEN outbox[e].attempts ELSE None],
                reply |-> [e \in Events |-> None]]]
    BY <1>2 DEF Flush
  <2>2. UNCHANGED <<outbox, dead, stored, late>>
    BY <1>2 DEF Flush
  <2>3. Known' = Known /\ UNCHANGED Seen
    BY <2>2 DEF Known, Pending
  <2>4. \A s \in Threads : s # t => Batch(s)' = Batch(s) /\ Answered(s, "taken")' = Answered(s, "taken")
    BY <2>1 DEF Batch, Answered, TypeOK
  <2>5. Batch(t)' \subseteq Known /\ Answered(t, "taken")' = {}
    <3>1. \A e \in Events : e \in Batch(t)' => e \in batch
      BY <2>1 DEF Batch, TypeOK
    <3>2. Batch(t)' \subseteq Known
      BY <3>1 DEF Batch, Selectable, Due, Known
    <3>3. \A e \in Events : thread'[t].reply[e] = None
      BY <2>1 DEF TypeOK
    <3> QED BY <3>2, <3>3 DEF Answered, Batch
  <2> QED BY <2>2, <2>3, <2>4, <2>5 DEF KnownInv
<1>3. ASSUME NEW t \in Threads, Ingest(t) PROVE KnownInv' /\ Promised!Next
  <2>1. UNCHANGED <<outbox, dead, late>>
    BY <1>3 DEF Ingest
  <2>2. stored' = stored \cup (Batch(t) \ Invalid)
    BY <1>3 DEF Ingest
  <2>3. Known \subseteq Known'
    BY <2>1, <2>2, KnownGrows DEF Pending
  <2>4. \A s \in Threads : Batch(s)' = Batch(s)
    BY <1>3, AnswerKeepsRows DEF Batch
  <2>5. \A s \in Threads : s # t => Answered(s, "taken")' = Answered(s, "taken")
    BY <1>3, <2>4 DEF Ingest, TypeOK, Answered
  <2>6. Answered(t, "taken")' \subseteq stored'
    <3>1. PICK answered \in SUBSET Batch(t) :
            thread' = [thread EXCEPT ![t] = [@ EXCEPT
              !.pc = "answered",
              !.reply = [e \in Events |-> IF e \notin answered THEN None
                                          ELSE IF e \in Invalid THEN "rejected" ELSE "taken"]]]
      BY <1>3 DEF Ingest
    <3> DEFINE f == [e \in Events |-> IF e \notin answered THEN None
                                      ELSE IF e \in Invalid THEN "rejected" ELSE "taken"]
    <3>2. \A q \in Flusher : \A g : [q EXCEPT !.pc = "answered", !.reply = g].reply = g
      BY DEF Flusher
    <3>3. thread'[t] = [thread[t] EXCEPT !.pc = "answered", !.reply = f]
      BY <3>1 DEF TypeOK
    <3>4. thread'[t].reply = f
      BY <3>2, <3>3 DEF TypeOK
    <3>5. \A e \in Events : f[e] = "taken" => e \in Batch(t) \ Invalid
      OBVIOUS
    <3> QED BY <2>2, <3>4, <3>5 DEF Answered, Batch
  <2>7. KnownInv'
    BY <2>1, <2>2, <2>3, <2>4, <2>5, <2>6, KnownKept
  <2>8. Promised!Arrive
    <3>1. Batch(t) \ Invalid \in SUBSET Promised!Known
      BY DEF KnownInv, Known, Promised!Known
    <3> QED BY <2>1, <2>2, <3>1 DEF Promised!Arrive, Pending
  <2> QED BY <2>7, <2>8 DEF Promised!Next
<1>4. ASSUME NEW batch \in late, IngestLate(batch) PROVE KnownInv' /\ Promised!Next
  <2>1. UNCHANGED <<outbox, dead, thread>> /\ stored' = stored \cup (batch \ Invalid)
        /\ late' \subseteq late
    BY <1>4 DEF IngestLate
  <2>2. Known \subseteq Known'
    BY <2>1, KnownGrows DEF Pending
  <2>3. KnownInv'
    BY <1>a, <2>1, <2>2, KnownKept
  <2>4. Promised!Arrive
    <3>1. batch \ Invalid \in SUBSET Promised!Known
      BY DEF KnownInv, Known, Promised!Known
    <3> QED BY <2>1, <3>1 DEF Promised!Arrive, Pending
  <2> QED BY <2>3, <2>4 DEF Promised!Next
<1>5. ASSUME NEW t \in Threads, Undelivered(t) PROVE KnownInv' /\ UNCHANGED Seen
  <2>1. UNCHANGED <<outbox, dead, stored>>
    BY <1>5 DEF Undelivered
  <2>2. Known' = Known /\ UNCHANGED Seen
    BY <2>1 DEF Known, Pending
  <2>3. \A s \in Threads : thread'[s].rows = thread[s].rows /\ thread'[s].reply = thread[s].reply
    BY <1>5 DEF Undelivered, TypeOK, Flusher
  <2>4. \A s \in Threads : Batch(s)' = Batch(s) /\ Answered(s, "taken")' = Answered(s, "taken")
    BY <2>3 DEF Batch, Answered
  <2>5. \A batch \in late' : batch \in late \/ \E s \in Threads : batch = Batch(s)
    BY <1>5 DEF Undelivered
  <2> QED BY <2>1, <2>2, <2>4, <2>5, KnownKept
<1>6. ASSUME NEW t \in Threads, Settle(t) PROVE KnownInv' /\ Promised!Next
  <2>1. UNCHANGED <<stored, late>>
    BY <1>6 DEF Settle
  <2>2. Answered(t, "taken") \subseteq stored /\ Answered(t, "rejected") \subseteq Known
    BY DEF KnownInv, Answered
  <2>3. \A e \in Events : e \in Pending' <=> e \in Pending /\ e \notin Settled(t)
    BY <1>6 DEF Settle, Pending
  <2>4. \A e \in Events : dead'[e] # None <=> dead[e] # None \/ e \in Answered(t, "rejected")
    BY <1>6 DEF Settle
  <2>5. Known \subseteq Known'
    BY <2>1, <2>2, <2>3, <2>4, KnownGrows DEF Settled, Pending
  <2>6. \A s \in Threads : s # t => thread'[s] = thread[s]
    BY <1>6 DEF Settle, TypeOK
  <2>7. \A s \in Threads : Batch(s)' \subseteq Batch(s)
        /\ Answered(s, "taken")' \subseteq Answered(s, "taken")
    <3>1. \A e \in Events :
            \/ thread'[t].rows[e] = None
            \/ thread'[t].rows[e] = thread[t].rows[e] /\ thread'[t].reply = thread[t].reply
      BY <1>6, SettledThread
    <3>2. Batch(t)' \subseteq Batch(t)
          /\ Answered(t, "taken")' \subseteq Answered(t, "taken")
      BY <3>1 DEF Batch, Answered
    <3>3. \A s \in Threads : s # t => Batch(s)' = Batch(s)
            /\ Answered(s, "taken")' = Answered(s, "taken")
      BY <2>6 DEF Batch, Answered
    <3> QED BY <3>2, <3>3
  <2>8. KnownInv'
    BY <2>1, <2>5, <2>7, KnownKept
  <2>9. Promised!LetGo
    BY <2>1, <2>2, <2>3, <2>4, LettingGo DEF Settled, Answered, Batch
  <2> QED BY <2>8, <2>9 DEF Promised!Next
<1>7. ASSUME NEW t \in Threads, Retry(t) PROVE KnownInv' /\ Promised!Next
  <2>1. UNCHANGED <<stored, late>>
    BY <1>7 DEF Retry
  <2>2. Exhausted(t) \subseteq Known /\ Exhausted(t) \subseteq Events
    BY DEF KnownInv, Exhausted, Batch
  <2>3. \A e \in Events : e \in Pending' <=> e \in Pending /\ e \notin Exhausted(t)
    <3>1. \A e \in Events : outbox'[e] =
            IF e \in Exhausted(t) THEN None
            ELSE IF e \in Batch(t) /\ e \in Pending THEN Retried(t, e)
            ELSE outbox[e]
      BY <1>7 DEF Retry
    <3>2. \A r \in Row : r # None
      OBVIOUS
    <3>3. \A e \in Events : e \in Batch(t) /\ e \in Pending /\ e \notin Exhausted(t)
            => Retried(t, e) # None
      BY <3>2, RetriedIsRow
    <3> QED BY <3>1, <3>3 DEF Pending
  <2>4. \A e \in Events : dead'[e] # None <=> dead[e] # None \/ e \in Exhausted(t)
    BY <1>7 DEF Retry
  <2>5. Known \subseteq Known'
    BY <2>1, <2>2, <2>3, <2>4, KnownGrows DEF Pending
  <2>6. \A s \in Threads : Batch(s)' \subseteq Batch(s)
        /\ Answered(s, "taken")' \subseteq Answered(s, "taken")
    BY <1>7 DEF Retry, TypeOK, Batch, Answered
  <2>7. KnownInv'
    BY <2>1, <2>5, <2>6, KnownKept
  <2>8. Promised!LetGo
    <3>1. {} \subseteq stored /\ \A e \in Events : e \in Pending' <=> e \in Pending /\ e \notin {} \cup Exhausted(t)
      BY <2>3
    <3> QED BY <2>1, <2>2, <2>4, <3>1, LettingGo
  <2> QED BY <2>7, <2>8 DEF Promised!Next
<1>8. ASSUME NEW p \in Processes, Crash(p) PROVE KnownInv' /\ UNCHANGED Seen
  <2>1. UNCHANGED <<outbox, dead, stored>>
    BY <1>8 DEF Crash
  <2>2. Known' = Known /\ UNCHANGED Seen
    BY <2>1 DEF Known, Pending
  <2>3. \A s \in Threads : Batch(s)' \subseteq Batch(s)
        /\ Answered(s, "taken")' \subseteq Answered(s, "taken")
    BY <1>8 DEF Crash, Batch, Answered
  <2>4. \A batch \in late' : batch \in late \/ \E s \in Threads : batch = Batch(s)
    BY <1>8 DEF Crash
  <2> QED BY <2>1, <2>2, <2>3, <2>4, KnownKept
<1>9. ASSUME Tick PROVE KnownInv' /\ UNCHANGED Seen
  <2>1. UNCHANGED <<dead, stored, thread, late>>
    BY <1>9 DEF Tick
  <2>2. \A r \in Row : r.dueIn > 0 => [r EXCEPT !.dueIn = @ - 1] \in Row
    BY OutboxAssumption DEF Row
  <2>3. \A e \in Events : e \in Pending' <=> e \in Pending
    BY <1>9, <2>2 DEF Tick, Pending, TypeOK
  <2>4. Known' = Known /\ UNCHANGED Seen
    BY <2>1, <2>3 DEF Known, Pending
  <2> QED BY <1>a, <2>1, <2>4, KnownKept
<1>10. CASE UNCHANGED vars
  <2>1. Known' = Known /\ UNCHANGED Seen
    BY <1>10 DEF vars, Known, Pending
  <2> QED BY <1>a, <1>10, <2>1, KnownKept DEF vars
<1> QED BY <1>1, <1>2, <1>3, <1>4, <1>5, <1>6, <1>7, <1>8, <1>9, <1>10 DEF Next

-----------------------------------------------------------------------------
\* The strengthened invariant holds in every reachable state.
THEOREM Inductive == Spec => []IInv
<1>1. Init => IInv
  BY InitHolds
<1>2. IInv /\ [Next]_vars => IInv'
  BY TypeStep, LockStep, SendsStep, PromiseStep DEF IInv
<1> QED BY <1>1, <1>2, PTL DEF Spec

\* Rows, dead letters, flushes and batches keep their shape.
THEOREM TypesHold == Spec => []TypeOK
<1>1. IInv => TypeOK
  BY DEF IInv
<1> QED BY <1>1, Inductive, PTL

\* The flush lock separates the threads of a process, however many there are.
THEOREM LockHolds == Spec => []OneSenderPerProcess
<1>1. IInv => OneSenderPerProcess
  BY LockSeparates DEF IInv
<1> QED BY <1>1, Inductive, PTL

\* An event is given up only after it was sent as often as the settings allow, for
\* any number of processes on one outbox.
THEOREM GivenUpLate == Spec => []ExhaustedOnlyAfterAllAttempts
<1>1. IInv => ExhaustedOnlyAfterAllAttempts
  BY DEF IInv, SendsInv
<1> QED BY <1>1, Inductive, PTL

\* The outbox, with its crashes, lost answers and competing processes, implements
\* EventDelivery: nothing handed in is ever lost.
THEOREM OutboxKeepsPromise == Spec => KeepsPromise
<1>1. Init => Promised!Init
  BY DEF Init, Promised!Init, Pending
<1>2. IInv /\ IInv' /\ [Next]_vars
        => [Promised!Next]_<<Pending, stored, {e \in Events : dead[e] # None}>>
  BY PromiseStep DEF IInv
<1> QED BY <1>1, <1>2, Inductive, PTL DEF Spec, KeepsPromise, Promised!Spec

-----------------------------------------------------------------------------
\* All threads share one uploader.
SingleProcess == \A s \in Threads, t \in Threads : ProcessOf[s] = ProcessOf[t]

\* While one thread is in a flush nobody else changes its rows: Enqueue ignores a
\* pending row, time does not touch a row that is due, and the lock keeps the other
\* threads away.
LEMMA RowsWaitStep ==
  ASSUME SingleProcess
  PROVE  TypeOK /\ IdleInv /\ LockInv /\ RowsWaitForTheirAnswer /\ [Next]_vars
           => RowsWaitForTheirAnswer'
<1> SUFFICES ASSUME TypeOK, IdleInv, LockInv, RowsWaitForTheirAnswer, [Next]_vars
             PROVE  RowsWaitForTheirAnswer'
  OBVIOUS
<1> USE IdleIsFlusher, NoneIsNone
<1>0. \A s \in Threads, t \in Threads : s # t /\ thread[t].pc # "idle" => Batch(s) = {}
  BY DEF SingleProcess, IdleInv, LockInv
<1>a. ASSUME \A s \in Threads : \A e \in Batch(s)' :
               /\ e \in Batch(s) /\ thread'[s].rows[e] = thread[s].rows[e]
               /\ outbox'[e] = outbox[e]
      PROVE  RowsWaitForTheirAnswer'
  BY <1>a DEF RowsWaitForTheirAnswer, Pending
<1>1. ASSUME NEW e \in Events, Enqueue(e) PROVE RowsWaitForTheirAnswer'
  <2>1. thread' = thread /\ \A d \in Pending : outbox'[d] = outbox[d]
    BY <1>1 DEF Enqueue, TypeOK, Pending
  <2>2. \A s \in Threads : \A d \in Batch(s)' : d \in Batch(s) /\ d \in Pending
    BY <2>1 DEF RowsWaitForTheirAnswer, Batch
  <2> QED BY <1>a, <2>1, <2>2
<1>2. ASSUME NEW t \in Threads, Flush(t) PROVE RowsWaitForTheirAnswer'
  <2>1. PICK batch \in Selectable :
          thread' = [thread EXCEPT ![t] =
               [pc    |-> "sent",
                rows  |-> [e \in Events |-> IF e \in batch THEN outbox[e].attempts ELSE None],
                reply |-> [e \in Events |-> None]]]
    BY <1>2 DEF Flush
  <2>2. outbox' = outbox
    BY <1>2 DEF Flush
  <2>3. \A s \in Threads : s # t => Batch(s)' = {}
    BY <1>2, <2>1 DEF Flush, MayFlush, SingleProcess, IdleInv, Batch, TypeOK
  <2>4. \A e \in Batch(t)' : e \in batch /\ thread'[t].rows[e] = outbox[e].attempts
    BY <2>1 DEF Batch, TypeOK
  <2>5. \A e \in batch : e \in Pending /\ outbox[e].dueIn = 0
    BY DEF Selectable, Due
  <2> QED BY <2>2, <2>3, <2>4, <2>5 DEF RowsWaitForTheirAnswer, Pending
<1>3. ASSUME NEW t \in Threads, Ingest(t) PROVE RowsWaitForTheirAnswer'
  <2>1. \A s \in Threads : thread'[s].rows = thread[s].rows
    BY <1>3, AnswerKeepsRows
  <2> QED BY <1>3, <1>a, <2>1 DEF Ingest, Batch
<1>4. ASSUME NEW t \in Threads, Undelivered(t) PROVE RowsWaitForTheirAnswer'
  <2>1. \A s \in Threads : thread'[s].rows = thread[s].rows
    BY <1>4 DEF Undelivered, TypeOK, Flusher
  <2> QED BY <1>4, <1>a, <2>1 DEF Undelivered, Batch
<1>5. ASSUME NEW t \in Threads, Settle(t) PROVE RowsWaitForTheirAnswer'
  <2>1. \A s \in Threads : s # t => Batch(s)' = {}
    BY <1>0, <1>5 DEF Settle, TypeOK, Batch
  <2>2. \A e \in Batch(t)' : e \in Batch(t) /\ thread'[t].rows[e] = thread[t].rows[e]
    BY <1>5, SettledThread DEF Batch
  <2>3. \A e \in Batch(t)' : e \notin Settled(t)
    BY <1>5, SettledThread DEF Batch
  <2>4. \A e \in Events : e \notin Settled(t) => outbox'[e] = outbox[e]
    BY <1>5 DEF Settle
  <2>5. \A e \in Batch(t)' : outbox'[e] = outbox[e]
    BY <2>3, <2>4 DEF Batch
  <2> QED BY <1>a, <2>1, <2>2, <2>5
<1>6. ASSUME NEW t \in Threads, Retry(t) PROVE RowsWaitForTheirAnswer'
  <2>1. \A s \in Threads : Batch(s)' = {}
    BY <1>0, <1>6 DEF Retry, TypeOK, Batch
  <2> QED BY <2>1 DEF RowsWaitForTheirAnswer
<1>7. ASSUME NEW p \in Processes, Crash(p) PROVE RowsWaitForTheirAnswer'
  <2>1. outbox' = outbox
    BY <1>7 DEF Crash
  <2>2. \A s \in Threads : \A e \in Batch(s)' :
          e \in Batch(s) /\ thread'[s].rows[e] = thread[s].rows[e]
    BY <1>7 DEF Crash, Batch
  <2> QED BY <1>a, <2>1, <2>2
<1>8. ASSUME Tick PROVE RowsWaitForTheirAnswer'
  <2>1. thread' = thread
    BY <1>8 DEF Tick
  <2>2. \A s \in Threads : \A e \in Batch(s) : e \in Events /\ ~(outbox[e].dueIn > 0)
    BY DEF RowsWaitForTheirAnswer, Batch
  <2>3. \A s \in Threads : \A e \in Batch(s) : outbox'[e] = outbox[e]
    BY <1>8, <2>2 DEF Tick
  <2> QED BY <1>a, <2>1, <2>3 DEF Batch
<1>9. CASE UNCHANGED vars
  BY <1>9, <1>a DEF vars, Batch
<1>10. ASSUME NEW batch \in late, IngestLate(batch) PROVE RowsWaitForTheirAnswer'
  BY <1>10, <1>a DEF IngestLate, Batch
<1> QED BY <1>1, <1>2, <1>3, <1>4, <1>5, <1>6, <1>7, <1>8, <1>9, <1>10 DEF Next

\* With one process, no answer is applied to a row that has moved on, whatever
\* the number of threads, the crashes and what is handed in meanwhile.
THEOREM RowsWait ==
  ASSUME SingleProcess
  PROVE  Spec => []RowsWaitForTheirAnswer
<1>1. Init => RowsWaitForTheirAnswer
  BY IdleIsFlusher DEF Init, RowsWaitForTheirAnswer, Batch
<1>2. IInv /\ RowsWaitForTheirAnswer /\ [Next]_vars => RowsWaitForTheirAnswer'
  BY RowsWaitStep DEF IInv
<1> QED BY <1>1, <1>2, Inductive, PTL DEF Spec

===============================================================================
