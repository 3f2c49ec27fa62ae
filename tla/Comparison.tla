----------------------------- MODULE Comparison ------------------------------
(* When the bake-off says something: the dollars of its arms and the percentage*)
(* it answers the gate with, for the whole trace or agent by agent (bake_off   *)
(* and bake_off_by_agent, simulate.py).                                        *)
(*                                                                             *)
(* What the arms cost is the business of Replay; here it only matters whether  *)
(* the arm that replays the trace as it was ties to the invoice, and that is   *)
(* taken as it comes.                                                          *)
EXTENDS Publication

CONSTANTS
  UnknownAgent,   \* UNATTRIBUTED_AGENT
  MinGroup,       \* MIN_GROUP_REQUESTS
  HandedOf(_)     \* the requests a caller may hand over with a trace

\* How often a request occurs among those handed over, and among the analysable ones.
Occurrences(handed, r) == Cardinality({k \in DOMAIN handed : handed[k] = r})

Held(trace, r) == Cardinality({i \in Analysed(trace) : trace.requests[i] = r})

\* The places of the requests that some agents sent.
SentBy(requests, agents) == {i \in DOMAIN requests : requests[i].agent \in agents}

\* _match_rows, the first half: a row that the trace does not hold, or not as often.
HasStray(handed, trace) ==
  \E k \in DOMAIN handed :
    Occurrences(handed, handed[k]) > Held(trace, handed[k])

\* Its second half: an analysable row that was not handed over.
HasLeftover(handed, trace) ==
  \E i \in Analysed(trace) :
    Held(trace, trace.requests[i]) > Occurrences(handed, trace.requests[i])

\* _agent_trace: the rows of a group and those nobody could attribute.
AgentTrace(trace, agents) ==
  [trace EXCEPT !.requests = Keep(@, SentBy(@, agents \cup {UnknownAgent}))]

\* Mutation: of the agents that have a result.
ReportedExclusions(trace, reported) ==
  ExcludedBilled([trace EXCEPT !.requests = Keep(@, SentBy(@, reported))])

\* _unreported_exclusions: what the agents without a result were billed.
UnreportedExclusions(trace, reported) ==
  ExcludedBilled([trace EXCEPT !.requests = Keep(@, DOMAIN @ \ SentBy(@, reported))])

\* A request that contributes to no arm: nothing to place, no time to replay it at, or
\* a surface, a lifetime or a price the replay does not know.
UnmodelledLifetime(r) ==
  \E k \in Markers(r) :
    PrefixTokens(r, k) >= MinCacheable /\ r.segments[k].ttl \notin {Absent, "5m", "1h"}

Unpriceable(r, setting) ==
  SpendRate(r, setting) = Absent \/ r.target \notin ShapedTargets

Omitted(r, setting) ==
  \/ r.segments = <<>>
  \/ r.sent = Absent
  \/ r.target \notin KnownTargets
  \/ UnmodelledLifetime(r)
  \/ Unpriceable(r, setting)

\* The first thing that stands in the way of any claim, "" if nothing does.
EvidenceDoubt(handed, trace, setting, excluded, inherited) ==
  IF HasStray(handed, trace) THEN "not_a_subset"
  ELSE IF inherited # "" THEN inherited
  ELSE IF ExcludedBilled(trace) \cup excluded # {} THEN "excluded_billed"
  ELSE IF \E k \in DOMAIN handed : ~Publishable(handed[k]) THEN "sizes_disagree"
  ELSE IF \E k \in DOMAIN handed : Omitted(handed[k], setting) THEN "omitted"
  ELSE IF \E k \in DOMAIN handed : ~Provable(handed[k]) THEN "unprovable_lifetime"
  ELSE StructureDoubt(trace)

\* How the as-shipped arm compares with the invoice; one that is not a positive,
\* finite number fails.
Settlements == {"no_invoice", "ties", "fails"}

\* bake_off: the dollars need an invoice that ties or the draft override; the
\* percentage survives a missing invoice and not a failed one.
BakeOff(agents, doubt, setting, settled, allow) ==
  LET released == /\ doubt = ""
                  /\ \/ settled = "ties"
                     \/ DraftOverrideApplies(settled # "no_invoice", allow)
  IN  [agents   |-> agents,
       arms     |-> Release(Figure(1, FALSE), released, IF doubt # "" THEN doubt ELSE settled,
                            IF settled = "ties" /\ ~setting.assumed
                            THEN "reconciled" ELSE "draft"),
       compared |-> doubt = "" /\ settled # "fails",
       blocked  |-> IF doubt # "" THEN doubt ELSE IF settled = "fails" THEN "fails" ELSE ""]

AgentsOf(requests) == {requests[k].agent : k \in DOMAIN requests}

\* bake_off_by_agent: the invoice is settled for the whole, and only its failure is
\* handed down. The agents with too few requests are compared together.
ByAgent(handed, trace, setting, settled, allow) ==
  LET of(agents) == Keep(handed, SentBy(handed, agents))
      kept       == {a \in AgentsOf(handed) : Len(of({a})) >= MinGroup}
      small      == AgentsOf(handed) \ kept
      inherited  == IF settled = "fails" THEN "fails"
                    ELSE IF HasStray(handed, trace) \/ HasLeftover(handed, trace)
                    THEN "not_the_workload" ELSE ""
      orphaned   == UnreportedExclusions(trace, kept \cup small)
      doubt(agents) == EvidenceDoubt(of(agents), AgentTrace(trace, agents), setting,
                                     orphaned, inherited)
      group(agents) == BakeOff(agents, doubt(agents), setting, "no_invoice", allow)
  IN  {group({a}) : a \in kept} \cup (IF small = {} THEN {} ELSE {group(small)})

\* cmd_bakeoff, and any other caller that hands over its own selection of requests.
BakeOffAll(setting) ==
  /\ shown = Nothing
  /\ ~Refused(setting)
  /\ LET trace == TraceOf(setting)
     IN  \E handed \in HandedOf(trace.requests) :
           LET doubt == EvidenceDoubt(handed, trace, setting, {}, "")
           IN  /\ handed # <<>>
               /\ \E settled \in Settlements, allow \in BOOLEAN :
                    shown' = [kind    |-> "bakeoff",
                              setting |-> setting,
                              results |-> {BakeOff(AgentsOf(trace.requests), doubt,
                                                   setting, settled, allow)}]
  /\ UNCHANGED export

BakeOffByAgent(setting) ==
  /\ shown = Nothing
  /\ ~Refused(setting)
  /\ LET trace == TraceOf(setting)
     IN  \E handed \in HandedOf(trace.requests), settled \in Settlements, allow \in BOOLEAN :
           /\ handed # <<>>
           /\ shown' = [kind    |-> "by_agent",
                        setting |-> setting,
                        results |-> ByAgent(handed, trace, setting, settled, allow)]
  /\ UNCHANGED export

Next ==
  \/ \E line \in Lines : Write(line)
  \/ \E setting \in SettingsOf(export) : Refuse(setting)
  \/ \E setting \in SettingsOf(export) : Crash(setting)
  \/ \E setting \in SettingsOf(export) : Report(setting)
  \/ \E setting \in SettingsOf(export) : BakeOffAll(setting)
  \/ \E setting \in SettingsOf(export) : BakeOffByAgent(setting)

Spec == Init /\ [][Next]_<<export, shown>>

-----------------------------------------------------------------------------
(* What must hold.                                                             *)

\* A bake-off that says anything, a dollar or a percentage, speaks for every line the
\* provider charged for: each was answered, reports what it was billed and could be
\* read, or it belongs to an agent whose own result says nothing. Agent by agent, a
\* line of an agent of the result also has the structure and the time that the arms
\* need. (bake_off, bake_off_by_agent; a failed call whose counters are no counts
\* passes unseen.)
Speaks(result) == result.arms.released \/ result.compared

Answered(row) == row.status = 200 /\ HasUsage(row.usage)

SpeaksFor(result, row) ==
  \/ row = Unreadable
  \/ row.agent \in result.agents \cup {UnknownAgent}
  \/ \A other \in shown.results : row.agent \notin other.agents

NoArmBesidesAMissingBill ==
  shown.kind \in {"bakeoff", "by_agent"} =>
    \A result \in shown.results : Speaks(result) =>
      \A k \in DOMAIN export :
        LET row == export[k].row
        IN  /\ export[k].charge > 0
            /\ ~PassesUnseen(k, shown.setting)
            /\ SpeaksFor(result, row)
            => /\ row # Unreadable
               /\ Answered(row)
               /\ shown.kind = "by_agent" /\ row.agent \in result.agents
                    => row.segments # <<>> /\ row.sent # Absent

=============================================================================
