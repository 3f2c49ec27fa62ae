------------------------------- MODULE MCOutbox -------------------------------
(* Small instances of Outbox for TLC. *)
EXTENDS Outbox, TLC

CONSTANTS e1, e2, t1, t2, p1, p2

\* One thread per process: two processes share the outbox file.
TwoProcesses == [t \in Threads |-> IF t = t1 THEN p1 ELSE p2]

\* What the server rejects is handed in until it is a dead letter, other events for
\* ever.
MCNext ==
  \/ \E e \in Events : Enqueue(e) /\ (e \in Invalid => dead[e] = None)
  \/ \E t \in Threads : Flush(t) \/ Ingest(t) \/ Undelivered(t) \/ Settle(t) \/ Retry(t)
  \/ \E batch \in late : IngestLate(batch)
  \/ \E p \in Processes : Crash(p)
  \/ Tick

MCFairSpec == Init /\ [][MCNext]_vars /\ Fairness

===============================================================================
