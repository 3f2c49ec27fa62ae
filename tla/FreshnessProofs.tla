---------------------------- MODULE FreshnessProofs ----------------------------
(* Proofs about Freshness, for any events, credentials, requests and jobs, any   *)
(* window and any time.                                                          *)
EXTENDS Freshness, FiniteSetTheorems, TLAPS

\* The request that holds the health row has read the counter that is in it, and
\* only that request has read it.
CounterInv ==
  /\ \A r \in Requests : req[r].pc = "locked" <=> healthLock = r
  /\ \A r \in Requests : healthLock = r => req[r].counted = health.accepted
  /\ AcceptedEventsCounted

\* Requests with one credential are serial; a stamp is never ahead of the clock;
\* and a request with the credential that wrote the health row last was stamped
\* after what it wrote.
SerialInv ==
  /\ \A r \in Requests : req[r].pc = "idle" <=> req[r].credential = None
  /\ \A r \in Requests : \A s \in Requests :
       req[r].credential # None /\ req[r].credential = req[s].credential => r = s
  /\ \A r \in Requests : req[r].now <= clock
  /\ health.lastReceived # None =>
       /\ health.lastReceived <= clock
       /\ \A r \in Requests :
            req[r].credential # None /\ req[r].credential = writer
              => health.lastReceived <= req[r].now

\* The batch a job was queued for is stored with the stamp that is the cutoff.
BatchInv ==
  /\ \A j \in Jobs : \A e \in job[j].own : e \in Events /\ received[e] = job[j].cutoff
  /\ JobReadsItsBatch

Inv == TypeOK /\ CounterInv /\ SerialInv /\ BatchInv

-----------------------------------------------------------------------------
(* Sets of events. *)

\* Sets of events are finite, and the bounds of the types hold for them.
LEMMA EventSets ==
  ASSUME NEW S \in SUBSET Events
  PROVE  /\ IsFiniteSet(S)
         /\ Cardinality(S) \in 0 .. Cardinality(Events)
<1>1. IsFiniteSet(Events)
  BY FreshnessAssumption
<1>2. IsFiniteSet(S) /\ Cardinality(S) <= Cardinality(Events)
  BY <1>1, FS_Subset
<1> QED BY <1>1, <1>2, FS_CardinalityType

LEMMA IdleIsRequest == Idle \in Request
<1>1. Cardinality(Events) \in Nat
  BY FreshnessAssumption, FS_CardinalityType
<1> QED BY <1>1, FreshnessAssumption DEF Idle, Request, Time

LEMMA NewJobIsJob ==
  ASSUME NEW t \in Time, NEW S \in SUBSET Events
  PROVE  /\ NewJob(t, S) \in Job
         /\ NewJob(t, S).state = "queued" /\ NewJob(t, S).cutoff = t
         /\ NewJob(t, S).own = S /\ NewJob(t, S).loaded = {} /\ NewJob(t, S).created = None
<1>1. 0 \in Time
  BY FreshnessAssumption DEF Time
<1>2. Unused \in Job
  BY <1>1 DEF Unused, Job
<1>3. Unused.loaded = {} /\ Unused.created = None
  BY DEF Unused
<1> HIDE DEF Unused
<1> QED BY <1>2, <1>3 DEF NewJob, Job

LEMMA NoneIsApart == None \notin Requests /\ None \notin Credentials /\ None \notin Time
BY FreshnessAssumption

\* The events of one stamp.
Stamped(t) == {e \in Stored : received[e] = t}

\* The window: when the events of the cutoff itself fit into it, it has them all,
\* for the newest come first and nothing in it is newer.
LEMMA WindowHasTheCutoff ==
  ASSUME TypeOK, NEW j \in Jobs, NEW chosen \in SUBSET Events,
         IsWindow(chosen, UpToCutoff(j)),
         Cardinality(Stamped(job[j].cutoff)) <= MaxEvents
  PROVE  Stamped(job[j].cutoff) \subseteq chosen
<1> DEFINE cutoff == job[j].cutoff
<1>1. cutoff \in Time /\ received \in [Events -> Time \cup {None}]
  BY DEF TypeOK, Job
<1> SUFFICES ASSUME NEW e \in Stamped(cutoff), e \notin chosen PROVE FALSE
  OBVIOUS
<1>2. e \in UpToCutoff(j)
  BY <1>1, FreshnessAssumption DEF Stamped, UpToCutoff, Time
<1>3. Cardinality(chosen) = MaxEvents
  BY <1>2 DEF IsWindow
<1>4. chosen \subseteq Stamped(cutoff)
  <2> SUFFICES ASSUME NEW f \in chosen PROVE f \in Stamped(cutoff)
    OBVIOUS
  <2>1. f \in Stored /\ received[f] <= cutoff
    BY DEF IsWindow, UpToCutoff
  <2>2. received[f] >= received[e] /\ received[e] = cutoff
    BY <1>2 DEF IsWindow, NewestFirst, Stamped
  <2>3. received[f] \in Time
    BY <1>1, <2>1 DEF Stored
  <2> QED BY <1>1, <2>1, <2>2, <2>3, FreshnessAssumption DEF Stamped, Time
<1>5. IsFiniteSet(chosen) /\ IsFiniteSet(Stamped(cutoff))
  BY EventSets DEF Stamped, Stored
<1>6. Cardinality(chosen \cup {e}) = MaxEvents + 1
  BY <1>3, <1>5, FS_AddElement
<1>7. Cardinality(chosen \cup {e}) <= Cardinality(Stamped(cutoff))
  BY <1>4, <1>5, FS_Subset
<1>8. Cardinality(Stamped(cutoff)) \in Nat
  BY <1>5, FS_CardinalityType
<1> HIDE DEF cutoff
<1> QED BY <1>6, <1>7, <1>8, FreshnessAssumption DEF cutoff

-----------------------------------------------------------------------------
(* Types. *)

\* What TypeOK asks of one job.
Sound(q) ==
  /\ q \in Job
  /\ Cardinality(q.loaded) <= MaxEvents
  /\ q.created # None <=> q.state = "succeeded"

\* What CreateJob and Commit add is sound.
LEMMA NewJobIsSound ==
  ASSUME NEW t \in Time, NEW S \in SUBSET Events
  PROVE  Sound(NewJob(t, S))
<1>1. Cardinality({}) <= MaxEvents
  BY FS_EmptySet, FreshnessAssumption
<1> DEFINE q == NewJob(t, S)
<1>2. q \in Job /\ q.loaded = {} /\ q.created = None /\ q.state = "queued"
  BY NewJobIsJob
<1>3. Cardinality(q.loaded) <= MaxEvents
  BY <1>1, <1>2
<1> HIDE DEF q
<1>4. Sound(q)
  BY <1>2, <1>3 DEF Sound
<1> QED BY <1>4 DEF q

LEMMA JobStep ==
  ASSUME TypeOK, NEW j \in Jobs, NEW q, Sound(q), job' = [job EXCEPT ![j] = q]
  PROVE  /\ job' \in [Jobs -> Job]
         /\ \A k \in Jobs : Sound(job'[k])
BY DEF TypeOK, Sound

\* A request that is over leaves requests.
LEMMA EndedRequest ==
  ASSUME TypeOK, NEW r \in Requests, req' = [req EXCEPT ![r] = Idle]
  PROVE  req' \in [Requests -> Request]
BY IdleIsRequest DEF TypeOK

\* The counter of a commit is a number of events.
LEMMA CommitCounts ==
  ASSUME TypeOK, CounterInv, NEW r \in Requests, req[r].pc = "locked",
         received' = [e \in Events |-> IF e \in Accepted(r) THEN req[r].now ELSE received[e]]
  PROVE  /\ req[r].now \in Time /\ received' \in [Events -> Time \cup {None}]
         /\ Stored' = Stored \cup Accepted(r)
         /\ \A e \in Stored : received'[e] = received[e]
         /\ \A e \in Accepted(r) : e \in Events /\ received'[e] = req[r].now
         /\ HealthAfter(r).accepted = Cardinality(Stored')
<1>1. req[r].now \in Time /\ req[r].now # None /\ Accepted(r) \subseteq Events /\ Stored \subseteq Events
  BY NoneIsApart DEF TypeOK, Request, Accepted, Stored
<1>2. received' \in [Events -> Time \cup {None}]
  BY <1>1 DEF TypeOK
<1>3. Stored' = Stored \cup Accepted(r)
  BY <1>1 DEF Stored
<1>4. \A e \in Stored : received'[e] = received[e]
  BY <1>1 DEF Stored, Accepted
<1>5. \A e \in Accepted(r) : e \in Events /\ received'[e] = req[r].now
  BY <1>1
<1>6. req[r].counted = Cardinality(Stored)
  BY DEF CounterInv, AcceptedEventsCounted
<1>7. Stored \cap Accepted(r) = {}
  BY DEF Accepted
<1>8. Cardinality(Stored \cup Accepted(r)) = Cardinality(Stored) + Cardinality(Accepted(r))
  <2>1. IsFiniteSet(Stored) /\ IsFiniteSet(Accepted(r)) /\ Cardinality({}) = 0
    BY <1>1, EventSets, FS_EmptySet
  <2>2. Cardinality(Stored) \in Nat /\ Cardinality(Accepted(r)) \in Nat
    BY <2>1, FS_CardinalityType
  <2>3. Cardinality(Stored \cup Accepted(r))
          = Cardinality(Stored) + Cardinality(Accepted(r)) - Cardinality(Stored \cap Accepted(r))
    BY <2>1, FS_Union
  <2>4. Cardinality(Stored \cap Accepted(r)) = 0
    BY <1>7, <2>1
  <2> QED BY <2>2, <2>3, <2>4
<1> QED BY <1>1, <1>2, <1>3, <1>4, <1>5, <1>6, <1>8 DEF HealthAfter

\* No step breaks a type.
LEMMA TypeStep == TypeOK /\ CounterInv /\ [Next]_vars => TypeOK'
<1> SUFFICES ASSUME TypeOK, CounterInv, [Next]_vars PROVE TypeOK'
  OBVIOUS
<1>1. CASE Tick
  BY <1>1, FreshnessAssumption DEF Tick, TypeOK, Time
<1>2. ASSUME NEW r \in Requests, Begin(r) PROVE TypeOK'
  <2>1. PICK c \in Credentials, batch \in SUBSET Events \ {{}} :
          req' = [req EXCEPT ![r] = [pc |-> "stamped", credential |-> c, batch |-> batch,
                                     now |-> clock, counted |-> 0]]
    BY <1>2 DEF Begin
  <2>2. [pc |-> "stamped", credential |-> c, batch |-> batch, now |-> clock, counted |-> 0]
          \in Request
    BY EventSets DEF TypeOK, Request
  <2>3. req' \in [Requests -> Request]
    BY <2>1, <2>2 DEF TypeOK
  <2> QED BY <1>2, <2>3 DEF Begin, TypeOK
<1>3. ASSUME NEW r \in Requests, ReadHealth(r) PROVE TypeOK'
  <2>1. req[r] \in Request /\ health.accepted \in 0 .. Cardinality(Events)
    BY DEF TypeOK
  <2>2. [req[r] EXCEPT !.pc = "locked", !.counted = health.accepted] \in Request
    BY <2>1 DEF Request
  <2>3. req' \in [Requests -> Request]
    BY <1>3, <2>2 DEF ReadHealth, TypeOK
  <2> QED BY <1>3, <2>3 DEF ReadHealth, TypeOK
<1>4. ASSUME NEW r \in Requests, Commit(r) PROVE TypeOK'
  <2>1. req[r].pc = "locked"
          /\ received' = [e \in Events |-> IF e \in Accepted(r) THEN req[r].now ELSE received[e]]
    BY <1>4 DEF Commit
  <2>2. /\ req[r].now \in Time /\ received' \in [Events -> Time \cup {None}]
        /\ HealthAfter(r).accepted = Cardinality(Stored')
    BY <2>1, CommitCounts
  <2>3. health' \in [accepted : 0 .. Cardinality(Events), lastReceived : Time \cup {None}]
    <3>1. Stored' \in SUBSET Events
      BY DEF Stored
    <3>2. Cardinality(Stored') \in 0 .. Cardinality(Events)
      BY <3>1, EventSets
    <3>3. health' = HealthAfter(r)
      BY <1>4 DEF Commit
    <3> QED BY <2>2, <3>2, <3>3 DEF HealthAfter
  <2>4. job' \in [Jobs -> Job] /\ \A k \in Jobs : Sound(job'[k])
    <3>1. CASE Accepted(r) = {}
      BY <1>4, <3>1 DEF Commit, TypeOK, Sound
    <3>2. CASE Accepted(r) # {}
      <4>1. PICK j \in Jobs : job' = [job EXCEPT ![j] = NewJob(req[r].now, Accepted(r))]
        BY <1>4, <3>2 DEF Commit
      <4>2. Accepted(r) \subseteq Events
        BY DEF Accepted, TypeOK, Request
      <4> QED BY <2>2, <4>1, <4>2, NewJobIsSound, JobStep
    <3> QED BY <3>1, <3>2
  <2>5. req' \in [Requests -> Request]
    BY <1>4, EndedRequest DEF Commit
  <2>6. writer' \in Credentials \cup {None} /\ healthLock' \in Requests \cup {None}
    BY <1>4 DEF Commit, TypeOK, Request
  <2> QED BY <1>4, <2>2, <2>3, <2>4, <2>5, <2>6 DEF Commit, TypeOK, Sound
<1>5. ASSUME NEW r \in Requests, Abort(r) PROVE TypeOK'
  <2>1. req' \in [Requests -> Request]
    BY <1>5, EndedRequest DEF Abort
  <2> QED BY <1>5, <2>1 DEF Abort, TypeOK
<1>6. CASE CreateJob
  <2>1. PICK j \in Jobs, t \in Time : job' = [job EXCEPT ![j] = NewJob(t, {})]
    BY <1>6 DEF CreateJob
  <2>2. job' \in [Jobs -> Job] /\ \A k \in Jobs : Sound(job'[k])
    BY <2>1, NewJobIsSound, JobStep
  <2> QED BY <1>6, <2>2 DEF CreateJob, TypeOK, Sound
<1>7. ASSUME NEW j \in Jobs, Lease(j) \/ Load(j) \/ Complete(j) \/ Fail(j) \/ RetryJob(j)
      PROVE  TypeOK'
  <2>1. Sound(job[j])
    BY DEF TypeOK, Sound
  <2>2. \E q : Sound(q) /\ job' = [job EXCEPT ![j] = q]
    <3>1. CASE Lease(j)
      <4>1. Sound([job[j] EXCEPT !.state = "running"])
        BY <2>1, <3>1 DEF Sound, Job, Lease
      <4> QED BY <3>1, <4>1 DEF Lease
    <3>2. CASE Load(j)
      <4>1. PICK chosen \in SUBSET Events :
              /\ IsWindow(chosen, UpToCutoff(j))
              /\ job' = [job EXCEPT ![j] = [@ EXCEPT !.state = "loaded", !.loaded = chosen,
                                                      !.loadedAt = clock]]
        BY <3>2 DEF Load
      <4>2. Sound([job[j] EXCEPT !.state = "loaded", !.loaded = chosen, !.loadedAt = clock])
        BY <2>1, <3>2, <4>1 DEF Sound, Job, Load, IsWindow, TypeOK
      <4> QED BY <4>1, <4>2
    <3>3. CASE Complete(j)
      <4>1. PICK t \in job[j].loadedAt .. clock :
              job' = [job EXCEPT ![j] = [@ EXCEPT !.state = "succeeded", !.created = t,
                                                  !.loadedAt = 0]]
        BY <3>3 DEF Complete
      <4>2. t \in Time /\ t # None /\ 0 \in Time
        BY <2>1, NoneIsApart, FreshnessAssumption DEF Sound, Job, Time, TypeOK
      <4>3. Sound([job[j] EXCEPT !.state = "succeeded", !.created = t, !.loadedAt = 0])
        BY <2>1, <4>2 DEF Sound, Job
      <4> QED BY <4>1, <4>3
    <3>4. CASE Fail(j)
      <4>1. PICK next \in {"queued", "closed"} :
              job' = [job EXCEPT ![j] = [@ EXCEPT !.state = next, !.loaded = {}, !.loadedAt = 0]]
        BY <3>4 DEF Fail
      <4>2. 0 \in Time /\ Cardinality({}) = 0
        BY FS_EmptySet, FreshnessAssumption DEF Time
      <4>3. job[j].created = None
        BY <2>1, <3>4 DEF Sound, Fail
      <4> DEFINE q == [job[j] EXCEPT !.state = next, !.loaded = {}, !.loadedAt = 0]
      <4>4. q \in Job /\ q.loaded = {} /\ q.created = None /\ q.state # "succeeded"
        BY <2>1, <4>2, <4>3 DEF Sound, Job
      <4>5. Cardinality(q.loaded) <= MaxEvents
        BY <4>2, <4>4, FreshnessAssumption
      <4>6. job' = [job EXCEPT ![j] = q]
        BY <4>1
      <4> HIDE DEF q
      <4>7. Sound(q)
        BY <4>4, <4>5 DEF Sound
      <4> QED BY <4>6, <4>7
    <3>5. CASE RetryJob(j)
      <4>1. Sound([job[j] EXCEPT !.state = "queued"])
        BY <2>1, <3>5 DEF Sound, Job, RetryJob
      <4> QED BY <3>5, <4>1 DEF RetryJob
    <3> QED BY <1>7, <3>1, <3>2, <3>3, <3>4, <3>5
  <2>3. job' \in [Jobs -> Job] /\ \A k \in Jobs : Sound(job'[k])
    BY <2>2, JobStep
  <2>4. UNCHANGED <<clock, req, healthLock, received, health, writer>>
    BY <1>7 DEF Lease, Load, Complete, Fail, RetryJob
  <2> QED BY <2>3, <2>4 DEF TypeOK, Sound
<1>8. CASE UNCHANGED vars
  BY <1>8 DEF vars, TypeOK
<1> QED BY <1>1, <1>2, <1>3, <1>4, <1>5, <1>6, <1>7, <1>8 DEF Next

\* The system starts with an empty store and no request.
LEMMA InitHolds == Init => Inv
<1> SUFFICES ASSUME Init PROVE Inv
  OBVIOUS
<1>1. /\ Cardinality({}) = 0 /\ Cardinality(Events) \in Nat /\ MaxEvents \in Nat \ {0}
      /\ 0 \in Time
  BY FS_EmptySet, FS_CardinalityType, FreshnessAssumption DEF Time
<1>2. Stored = {}
  BY DEF Init, Stored
<1>3. \A j \in Jobs : /\ job[j] = Unused /\ Unused.state = "unused" /\ Unused.own = {}
                      /\ Unused.loaded = {} /\ Unused.created = None /\ Unused \in Job
  BY <1>1 DEF Init, Unused, Job
<1>4. \A r \in Requests : /\ req[r] = Idle /\ Idle.pc = "idle" /\ Idle.credential = None
                          /\ Idle.now = 0
  BY DEF Init, Idle
<1> HIDE DEF Unused, Idle
<1>5. TypeOK
  <2>1. job \in [Jobs -> Job] /\ req \in [Requests -> Request]
    BY <1>3, IdleIsRequest DEF Init
  <2>2. \A j \in Jobs : Cardinality(job[j].loaded) <= MaxEvents
    BY <1>1, <1>3
  <2>3. \A j \in Jobs : job[j].created = None /\ job[j].state = "unused"
    BY <1>3
  <2> QED BY <1>1, <2>1, <2>2, <2>3 DEF Init, TypeOK
<1>6. CounterInv
  BY <1>1, <1>2, <1>4, NoneIsApart DEF Init, CounterInv, AcceptedEventsCounted
<1>7. SerialInv
  BY <1>4 DEF Init, SerialInv
<1>8. BatchInv
  BY <1>3 DEF BatchInv, JobReadsItsBatch
<1> QED BY <1>5, <1>6, <1>7, <1>8 DEF Inv

\* The row lock makes the read of the counter and its write one step for the others.
LEMMA CounterStep == TypeOK /\ CounterInv /\ [Next]_vars => CounterInv'
<1> SUFFICES ASSUME TypeOK, CounterInv, [Next]_vars PROVE CounterInv'
  OBVIOUS
<1>0. UNCHANGED <<received, health>> => Stored' = Stored /\ AcceptedEventsCounted'
  BY DEF Stored, CounterInv, AcceptedEventsCounted
<1>1. ASSUME NEW r \in Requests, Begin(r) PROVE CounterInv'
  BY <1>0, <1>1 DEF Begin, TypeOK, CounterInv
<1>2. ASSUME NEW r \in Requests, ReadHealth(r) PROVE CounterInv'
  BY <1>0, <1>2, NoneIsApart DEF ReadHealth, TypeOK, Request, CounterInv
<1>3. ASSUME NEW r \in Requests, Commit(r) PROVE CounterInv'
  <2>1. /\ req[r].pc = "locked" /\ healthLock = r /\ healthLock' = None
        /\ req' = [req EXCEPT ![r] = Idle] /\ health' = HealthAfter(r)
        /\ received' = [e \in Events |-> IF e \in Accepted(r) THEN req[r].now ELSE received[e]]
    BY <1>3 DEF Commit, CounterInv
  <2>2. health'.accepted = Cardinality(Stored')
    BY <2>1, CommitCounts
  <2>3. \A s \in Requests : req'[s].pc # "locked"
    BY <2>1 DEF TypeOK, CounterInv, Idle
  <2>4. \A s \in Requests : healthLock' # s
    BY <2>1, NoneIsApart
  <2>5. AcceptedEventsCounted'
    BY <2>2 DEF AcceptedEventsCounted
  <2> QED BY <2>3, <2>4, <2>5 DEF CounterInv
<1>4. ASSUME NEW r \in Requests, Abort(r) PROVE CounterInv'
  BY <1>0, <1>4, NoneIsApart DEF Abort, TypeOK, CounterInv, Idle
<1>5. CASE UNCHANGED <<req, healthLock, received, health>>
  BY <1>0, <1>5 DEF CounterInv
<1> QED BY <1>1, <1>2, <1>3, <1>4, <1>5
    DEF Next, vars, Tick, CreateJob, Lease, Load, Complete, Fail, RetryJob

\* The lock on the credential's row makes requests with one credential serial, and
\* each is stamped when the one before has ended.
LEMMA SerialStep == TypeOK /\ CounterInv /\ SerialInv /\ [Next]_vars => SerialInv'
<1> SUFFICES ASSUME TypeOK, CounterInv, SerialInv, [Next]_vars PROVE SerialInv'
  OBVIOUS
<1>0. /\ clock \in Time /\ Time \subseteq Int
      /\ \A r \in Requests : req[r].now \in Time
      /\ health.lastReceived \in Time \cup {None}
  BY DEF TypeOK, Request, Time
<1>1. CASE Tick
  <2>1. clock' = clock + 1 /\ UNCHANGED <<req, health, writer>>
    BY <1>1 DEF Tick
  <2>2. \A t \in Time : t <= clock => t <= clock'
    BY <1>0, <2>1
  <2>3. \A r \in Requests : req'[r].now <= clock'
    BY <1>0, <2>1, <2>2 DEF SerialInv
  <2>4. health'.lastReceived # None => health'.lastReceived <= clock'
    BY <1>0, <2>1, <2>2 DEF SerialInv
  <2> QED BY <2>1, <2>3, <2>4 DEF SerialInv
<1>2. ASSUME NEW r \in Requests, Begin(r) PROVE SerialInv'
  <2>1. PICK c \in Credentials, batch \in SUBSET Events \ {{}} :
          /\ Usable(c)
          /\ req' = [req EXCEPT ![r] = [pc |-> "stamped", credential |-> c, batch |-> batch,
                                        now |-> clock, counted |-> 0]]
    BY <1>2 DEF Begin
  <2>2. /\ req'[r].pc = "stamped" /\ req'[r].credential = c /\ req'[r].now = clock /\ c # None
        /\ \A s \in Requests : s # r => req'[s] = req[s]
    BY <2>1, NoneIsApart DEF TypeOK
  <2>3. \A s \in Requests : req[s].credential # c
    BY <2>1 DEF Usable
  <2>4. UNCHANGED <<clock, health, writer>>
    BY <1>2 DEF Begin
  <2> QED BY <1>0, <2>2, <2>3, <2>4 DEF SerialInv
<1>3. ASSUME NEW r \in Requests, ReadHealth(r) PROVE SerialInv'
  <2>1. \A s \in Requests : /\ req'[s].credential = req[s].credential /\ req'[s].now = req[s].now
                            /\ req'[s].pc = "idle" <=> req[s].pc = "idle"
    BY <1>3 DEF ReadHealth, TypeOK, Request
  <2>2. UNCHANGED <<clock, health, writer>>
    BY <1>3 DEF ReadHealth
  <2> QED BY <2>1, <2>2 DEF SerialInv
<1>4. ASSUME NEW r \in Requests, Commit(r) PROVE SerialInv'
  <2>1. /\ req'[r] = Idle /\ Idle.pc = "idle" /\ Idle.credential = None /\ Idle.now = 0
        /\ \A s \in Requests : s # r => req'[s] = req[s]
    BY <1>4 DEF Commit, TypeOK, Idle
  <2>2. /\ req[r].pc = "locked" /\ clock' = clock /\ writer' = req[r].credential
        /\ health'.lastReceived = req[r].now
    BY <1>4 DEF Commit, HealthAfter
  <2>3. req[r].credential # None /\ 0 <= clock
    BY <1>0, <2>2 DEF SerialInv, Time
  <2> HIDE DEF Idle
  <2> QED BY <1>0, <2>1, <2>2, <2>3 DEF SerialInv
<1>5. ASSUME NEW r \in Requests, Abort(r) PROVE SerialInv'
  <2>1. /\ req'[r] = Idle /\ Idle.pc = "idle" /\ Idle.credential = None /\ Idle.now = 0
        /\ \A s \in Requests : s # r => req'[s] = req[s]
    BY <1>5 DEF Abort, TypeOK, Idle
  <2>2. UNCHANGED <<clock, health, writer>> /\ 0 <= clock
    BY <1>0, <1>5 DEF Abort, Time
  <2> HIDE DEF Idle
  <2> QED BY <2>1, <2>2 DEF SerialInv
<1>6. CASE UNCHANGED <<clock, req, health, writer>>
  BY <1>6 DEF SerialInv
<1> QED BY <1>1, <1>2, <1>3, <1>4, <1>5, <1>6
    DEF Next, vars, CreateJob, Lease, Load, Complete, Fail, RetryJob

-----------------------------------------------------------------------------
(* Batches. *)

\* What BatchInv asks of one job.
ReadsItsBatch(q) ==
  /\ \A e \in q.own : e \in Events /\ received[e] = q.cutoff
  /\ q.state \in {"loaded", "succeeded"} /\ Cardinality(Stamped(q.cutoff)) <= MaxEvents
     => q.own \subseteq q.loaded

\* BatchInv is ReadsItsBatch of every job.
LEMMA BatchesByJob == BatchInv <=> \A j \in Jobs : ReadsItsBatch(job[j])
BY DEF BatchInv, JobReadsItsBatch, ReadsItsBatch, Stamped

\* A stored event keeps its stamp, so a job that reads its batch keeps doing so: the
\* events of its cutoff only become more.
LEMMA MoreStored ==
  ASSUME TypeOK, NEW j \in Jobs, ReadsItsBatch(job[j]), job'[j] = job[j],
         received' \in [Events -> Time \cup {None}],
         \A e \in Stored : received'[e] = received[e]
  PROVE  ReadsItsBatch(job[j])'
<1>1. job[j] \in Job /\ job[j].cutoff \in Time /\ job[j].cutoff # None
  BY NoneIsApart DEF TypeOK, Job
<1>2. \A e \in job[j].own : e \in Events /\ received'[e] = job[j].cutoff
  BY <1>1 DEF ReadsItsBatch, Stored
<1>3. Cardinality(Stamped(job[j].cutoff)) <= Cardinality(Stamped(job[j].cutoff)')
  <2>1. Stamped(job[j].cutoff) \subseteq Stamped(job[j].cutoff)'
    BY <1>1 DEF Stamped, Stored
  <2>2. IsFiniteSet(Stamped(job[j].cutoff)')
    <3>1. Stamped(job[j].cutoff)' \in SUBSET Events
      BY DEF Stamped, Stored
    <3> QED BY <3>1, EventSets
  <2> QED BY <2>1, <2>2, FS_Subset
<1>4. /\ Cardinality(Stamped(job[j].cutoff)) \in Int
      /\ Cardinality(Stamped(job[j].cutoff)') \in Int /\ MaxEvents \in Int
  <2>1. Stamped(job[j].cutoff) \in SUBSET Events /\ Stamped(job[j].cutoff)' \in SUBSET Events
    BY DEF Stamped, Stored
  <2> QED BY <2>1, EventSets, FreshnessAssumption
<1> QED BY <1>2, <1>3, <1>4 DEF ReadsItsBatch

LEMMA BatchStep == TypeOK /\ TypeOK' /\ CounterInv /\ BatchInv /\ [Next]_vars => BatchInv'
<1> SUFFICES ASSUME TypeOK, TypeOK', CounterInv, BatchInv, [Next]_vars
             PROVE  \A j \in Jobs : ReadsItsBatch(job[j])'
  BY BatchesByJob DEF BatchInv, JobReadsItsBatch, ReadsItsBatch, Stamped
<1>1. \A j \in Jobs : ReadsItsBatch(job[j])
  BY BatchesByJob
<1>2. received' \in [Events -> Time \cup {None}]
  BY DEF TypeOK
<1>3. CASE UNCHANGED <<received, job>>
  BY <1>1, <1>3 DEF ReadsItsBatch, Stamped, Stored
<1>4. ASSUME NEW r \in Requests, Commit(r), NEW k \in Jobs PROVE ReadsItsBatch(job[k])'
  <2>1. /\ req[r].pc = "locked"
        /\ received' = [e \in Events |-> IF e \in Accepted(r) THEN req[r].now ELSE received[e]]
    BY <1>4 DEF Commit
  <2>2. /\ req[r].now \in Time
        /\ \A e \in Stored : received'[e] = received[e]
        /\ \A e \in Accepted(r) : e \in Events /\ received'[e] = req[r].now
    BY <2>1, CommitCounts
  <2>3. CASE job'[k] = job[k]
    BY <1>1, <1>2, <2>2, <2>3, MoreStored
  <2>4. CASE job'[k] # job[k]
    <3>1. PICK j \in Jobs : job' = [job EXCEPT ![j] = NewJob(req[r].now, Accepted(r))]
      BY <1>4, <2>4 DEF Commit
    <3>2. job'[k] = NewJob(req[r].now, Accepted(r))
      BY <2>4, <3>1 DEF TypeOK
    <3>3. Accepted(r) \in SUBSET Events
      BY <2>2
    <3>4. job'[k].own = Accepted(r) /\ job'[k].cutoff = req[r].now /\ job'[k].state = "queued"
      BY <2>2, <3>2, <3>3, NewJobIsJob
    <3> QED BY <2>2, <3>4 DEF ReadsItsBatch
  <2> QED BY <2>3, <2>4
<1>5. ASSUME CreateJob, NEW k \in Jobs PROVE ReadsItsBatch(job[k])'
  <2>1. PICK j \in Jobs, t \in Time : job' = [job EXCEPT ![j] = NewJob(t, {})]
    BY <1>5 DEF CreateJob
  <2>2. received' = received
    BY <1>5 DEF CreateJob
  <2>3. CASE job'[k] = job[k]
    BY <1>1, <1>2, <2>2, <2>3, MoreStored
  <2>4. CASE job'[k] # job[k]
    <3>1. job'[k] = NewJob(t, {})
      BY <2>1, <2>4 DEF TypeOK
    <3>2. job'[k].own = {} /\ job'[k].state = "queued"
      BY <3>1, NewJobIsJob
    <3> QED BY <3>2 DEF ReadsItsBatch
  <2> QED BY <2>3, <2>4
<1>6. ASSUME NEW j \in Jobs, Load(j), NEW k \in Jobs PROVE ReadsItsBatch(job[k])'
  <2>1. PICK chosen \in SUBSET Events :
          /\ IsWindow(chosen, UpToCutoff(j))
          /\ job' = [job EXCEPT ![j] = [@ EXCEPT !.state = "loaded", !.loaded = chosen,
                                                  !.loadedAt = clock]]
    BY <1>6 DEF Load
  <2>2. received' = received
    BY <1>6 DEF Load
  <2>3. CASE k # j
    BY <1>1, <1>2, <2>1, <2>2, <2>3, MoreStored DEF TypeOK
  <2>4. CASE k = j
    <3>1. /\ job'[j].own = job[j].own /\ job'[j].cutoff = job[j].cutoff
          /\ job'[j].loaded = chosen
      BY <2>1 DEF TypeOK, Job
    <3>2. \A e \in job[j].own : e \in Events /\ received[e] = job[j].cutoff
      BY <1>1 DEF ReadsItsBatch
    <3>3. job[j].own \subseteq Stamped(job[j].cutoff)
      BY <3>2, NoneIsApart DEF Stamped, Stored, TypeOK, Job
    <3>4. Cardinality(Stamped(job[j].cutoff)) <= MaxEvents => job[j].own \subseteq chosen
      BY <2>1, <3>3, WindowHasTheCutoff
    <3>5. Stamped(job[j].cutoff)' = Stamped(job[j].cutoff)
      BY <2>2, <3>1 DEF Stamped, Stored
    <3> QED BY <2>2, <2>4, <3>1, <3>2, <3>4, <3>5 DEF ReadsItsBatch
  <2> QED BY <2>3, <2>4
<1>7. ASSUME NEW j \in Jobs, Lease(j) \/ Complete(j) \/ Fail(j) \/ RetryJob(j), NEW k \in Jobs
      PROVE  ReadsItsBatch(job[k])'
  <2>1. received' = received
    BY <1>7 DEF Lease, Complete, Fail, RetryJob
  <2>2. CASE k # j
    <3>1. job'[k] = job[k]
      BY <1>7, <2>2 DEF TypeOK, Lease, Complete, Fail, RetryJob
    <3> QED BY <1>1, <1>2, <2>1, <3>1, MoreStored
  <2>3. CASE k = j
    <3>1. /\ job'[j].own = job[j].own /\ job'[j].cutoff = job[j].cutoff
          /\ job'[j].state \in {"loaded", "succeeded"} =>
               /\ job[j].state \in {"loaded", "succeeded"} /\ job'[j].loaded = job[j].loaded
      <4>1. CASE Lease(j)
        BY <4>1 DEF TypeOK, Job, Lease
      <4>2. CASE Complete(j)
        BY <4>2 DEF TypeOK, Job, Complete
      <4>3. CASE Fail(j)
        <5>1. PICK next \in {"queued", "closed"} :
                job' = [job EXCEPT ![j] = [@ EXCEPT !.state = next, !.loaded = {}, !.loadedAt = 0]]
          BY <4>3 DEF Fail
        <5>2. job'[j].state = next
          BY <5>1 DEF TypeOK, Job
        <5>3. job'[j].own = job[j].own /\ job'[j].cutoff = job[j].cutoff
          BY <5>1 DEF TypeOK, Job
        <5> QED BY <5>2, <5>3
      <4>4. CASE RetryJob(j)
        BY <4>4 DEF TypeOK, Job, RetryJob
      <4> QED BY <1>7, <4>1, <4>2, <4>3, <4>4
    <3>2. Stamped(job[j].cutoff)' = Stamped(job[j].cutoff)
      BY <2>1, <3>1 DEF Stamped, Stored
    <3> QED BY <1>1, <2>1, <2>3, <3>1, <3>2 DEF ReadsItsBatch
  <2> QED BY <2>2, <2>3
<1> QED BY <1>3, <1>4, <1>5, <1>6, <1>7 DEF Next, vars, Tick, Begin, ReadHealth, Abort

-----------------------------------------------------------------------------
(* The theorems. *)

LEMMA InvHolds == Spec => []Inv
<1>1. Inv /\ [Next]_vars => Inv'
  BY TypeStep, CounterStep, SerialStep, BatchStep DEF Inv
<1> QED BY InitHolds, <1>1, PTL DEF Spec

\* Requests, rows and jobs keep their shape, and no analysis holds more events than
\* its window (MAX events of _load_payloads), whatever the requests and runs do.
THEOREM TypesHold == Spec => []TypeOK
BY InvHolds, PTL DEF Inv

\* accepted_events of the health row counts the stored events, for any number of
\* concurrent ingest requests with any overlap of their batches (ingest_events).
THEOREM EventsAreCounted == Spec => []AcceptedEventsCounted
BY InvHolds, PTL DEF Inv, CounterInv

\* A run that was queued for a batch reads the whole batch, for any window, batch
\* sizes and order of commits, unless the events of that stamp exceed the window
\* (ingest_events, _load_payloads).
THEOREM JobsReadTheirBatches == Spec => []JobReadsItsBatch
BY InvHolds, PTL DEF Inv, BatchInv

\* last_received_at goes back only when requests of different credentials overtake
\* each other (authenticate_source_credential, ingest_events).
THEOREM OnlyOthersOvertake == Spec => OnlyOtherCredentialsOvertake
<1>1. Inv /\ [Next]_vars => [ReceiptsGoBack => writer' # writer]_vars
  <2> SUFFICES ASSUME Inv, Next, ReceiptsGoBack, writer' = writer PROVE FALSE
    BY DEF vars, ReceiptsGoBack
  <2>1. health' # health
    BY DEF ReceiptsGoBack, Inv, TypeOK, Time
  <2>2. PICK r \in Requests : Commit(r)
    BY <2>1 DEF Next, Tick, Begin, ReadHealth, Abort, CreateJob, Lease, Load, Complete, Fail, RetryJob
  <2>3. /\ req[r].pc = "locked" /\ writer' = req[r].credential
        /\ health'.lastReceived = req[r].now
    BY <2>2 DEF Commit, HealthAfter
  <2>4. health.lastReceived <= req[r].now
    BY <2>3 DEF Inv, SerialInv, ReceiptsGoBack
  <2> QED BY <2>3, <2>4 DEF ReceiptsGoBack, Inv, TypeOK, Request, Time
<1> QED BY InvHolds, <1>1, PTL DEF Spec, OnlyOtherCredentialsOvertake

================================================================================
