--------------------------------- MODULE MCLive ---------------------------------
(***************************************************************************)
(* Bounded instances of the monitor and the live plugin. A behaviour plays   *)
(* one scene: a set of requests, of responses, and a number of steps, chosen *)
(* at the start, so that each hazard has the requests it needs.              *)
(***************************************************************************)
EXTENDS LivePlugin

CONSTANTS Playing   \* the scenes a run plays

VARIABLE scene
mcVars == <<scene, monitorVars, pluginVars>>

\* Scaled lifetimes, and surfaces: direct takes markers, implicit does not, a
\* lookback apart it answers the same; one says nothing.
MCSeconds  == ("5m" :> 4) @@ ("1h" :> 12)
MCMinimum  == ("direct" :> 2) @@ ("implicit" :> 2) @@ ("nowhere" :> Unknown)
MCLookback == ("direct" :> 2) @@ ("implicit" :> Unknown) @@ ("nowhere" :> Unknown)
MCBudget   == ("direct" :> 1) @@ ("implicit" :> 1) @@ ("nowhere" :> Unknown)
MCOffered  == ("direct" :> {"5m", "1h"}) @@ ("implicit" :> {"5m"}) @@ ("nowhere" :> Unknown)
MCExplicit == {"direct"}

Seg(id, ttl) == [id |-> id, tokens |-> 2, ttl |-> ttl]
NoUsage == [read |-> 0, write |-> 0, split |-> {}, first |-> Unknown]

Base == [tenant |-> "t1", target |-> "direct", model |-> "m", agent |-> "main",
         session |-> "s1", sent |-> 0, segs |-> <<Seg("a", Silent), Seg("b", Unmarked)>>,
         declared |-> "5m", usage |-> NoUsage, barred |-> {}]

Now == Len(log)

Usage(read, write) == [NoUsage EXCEPT !.read = read, !.write = write]

\* Two tenants, in a session or not, on three surfaces, with and without structure.
ScopesRequests ==
  {[Base EXCEPT !.tenant = t, !.session = s, !.sent = Now] : t \in {"t1", "t2"}, s \in {"s1", NoSession}}
    \cup {[Base EXCEPT !.target = "nowhere", !.segs = g, !.sent = Now] : g \in {<<>>, Base.segs}}
    \cup {[Base EXCEPT !.target = "implicit", !.session = NoSession, !.usage = Usage(0, 1), !.sent = Now]}

\* One session: requests come late, or carry no time, and markers ask for either
\* lifetime or for both.
TimesRequests ==
  {[Base EXCEPT !.sent = n, !.segs = <<Seg("a", l)>>] : n \in {0, 5, 6, 12}, l \in {"5m", "1h"}}
    \cup {[Base EXCEPT !.sent = Untimed], [Base EXCEPT !.sent = 5, !.segs = <<Seg("a", "5m"), Seg("b", "1h")>>]}

\* Writes whose usage comes back in any order.
FanoutRequests ==
  {[Base EXCEPT !.sent = n, !.usage = [Usage(0, 1) EXCEPT !.first = f],
                !.segs = <<Seg(x, Silent)>>] : n \in {0, 1, 3}, f \in {Unknown, 4}, x \in {"a", "b"}}
    \cup {[Base EXCEPT !.sent = 1]}

\* Turns of a session and of its subagent: extended, rebuilt, expired, of which
\* nothing is said, with a change of model.
TurnsRequests ==
  {[Base EXCEPT !.sent = 3 * Now + late, !.agent = a, !.usage = u] :
      late \in {0, 2}, a \in {"main", "sub"}, u \in {Usage(4, 1), Usage(0, 4), NoUsage}}
    \cup {[Base EXCEPT !.sent = 3 * Now, !.declared = Unknown, !.usage = Usage(0, 4)],
          [Base EXCEPT !.sent = 3 * Now, !.model = "n",
                       !.usage = [Usage(0, 4) EXCEPT !.split = {"5m", "1h"}]]}

\* Prompts that change at a position, are cut short, or are marked already.
PromptsRequests ==
  {[Base EXCEPT !.sent = 5 * Now, !.segs = g] :
      g \in {<<Seg("a", Unmarked), Seg("b", Unmarked)>>, <<Seg("c", Unmarked), Seg("b", Unmarked)>>,
             <<Seg("a", Unmarked), Seg("d", Unmarked)>>, <<Seg("a", Unmarked)>>}}

\* One prompt: plain, and once it is learned, marked by the caller or barred in part.
CallsRequests ==
  {[Base EXCEPT !.sent = 5 * Len(calls), !.barred = IF l = "barred" THEN {2} ELSE {},
                !.segs = <<Seg("a", Unmarked), Seg("b", IF l = "marked" THEN "1h" ELSE Unmarked)>>] :
      l \in {"plain"} \cup IF Len(calls) < 2 THEN {} ELSE {"marked", "barred"}}

\* Requests that name a surface, or none, for a handler that mutates or that has none.
NamelessRequests ==
  {[Base EXCEPT !.sent = Now, !.target = t, !.segs = g] :
      t \in {"nowhere", "direct"}, g \in {<<Seg("a", Unmarked)>>, <<Seg("a", "5m")>>}}

\* A session whose markers name their lifetime, or do not.
SessionRequests == {[Base EXCEPT !.sent = Now, !.segs = <<Seg("a", l), Seg("b", Unmarked)>>] : l \in {"5m", Silent}}

Requests ==
  CASE scene = "scopes" -> ScopesRequests [] scene = "times" -> TimesRequests
    [] scene = "fanout" -> FanoutRequests [] scene = "turns" -> TurnsRequests
    [] scene = "prompts" -> PromptsRequests [] scene = "calls" -> CallsRequests
    [] scene = "nameless" -> NamelessRequests [] scene = "session" -> SessionRequests

Usages ==
  CASE scene = "calls" -> {Absent, Usage(2, 1)} [] scene = "session" -> {Usage(0, 4)} [] OTHER -> {}

Configs == [mutate : BOOLEAN, respect : BOOLEAN, target : {"direct", "nowhere"}]
Observer == [mutate |-> FALSE, respect |-> TRUE, target |-> "nowhere"]
Mutator == [mutate |-> TRUE, respect |-> TRUE, target |-> "direct"]
Live == scene \in {"prompts", "calls", "nameless", "session"}
Calls == IF scene = "session" THEN 3 ELSE 4
Steps == IF scene \in {"fanout", "turns"} THEN 3 ELSE 4

Answered == Cardinality({c \in DOMAIN calls : calls[c].answer # "none"})

MCInit ==
  /\ scene \in Playing
  /\ PluginInit(CASE scene = "nameless" -> {Observer, Mutator}
                  [] scene = "calls" -> {c \in Configs : (c.mutate \/ ~c.respect) /\ c.target = "direct"}
                  [] scene = "prompts" -> {Mutator}
                  [] OTHER -> {Observer})

Idle == UNCHANGED <<scene, pluginVars>>

MCNext ==
  \/ ~Live /\ Len(log) < Steps /\ \E r \in Requests : Observe(r) /\ Idle
  \/ scene = "scopes" /\ Len(log) = 2
       /\ \E s \in DOMAIN table.state : Clear(s, "RT-NOSURFACE") /\ Idle
  \/ Live /\ Len(calls) < Calls /\ \E r \in Requests : PreCall(r) /\ UNCHANGED scene
  \/ scene = "calls" /\ Len(calls) < Calls /\ Len(calls) = 1
       /\ \E r \in Requests : FailOpen(r) /\ UNCHANGED scene
  \/ Live /\ Answered < 2 /\ Len(calls) > 2
       /\ \E c \in DOMAIN calls, u \in Usages : Response(c, u) /\ UNCHANGED scene

MCSpec == MCInit /\ [][MCNext]_mcVars

==================================================================================
