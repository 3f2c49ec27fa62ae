-------------------------------- MODULE MCBakeOff --------------------------------
(* The replay of MCReplay, and what the planners answer before a replay begins.   *)
EXTENDS MCReplay, Relocation

\* An arm without haircuts whose writes take as long as the allocator assumes; it
\* replays one prompt over and over.
Awaited == [Neutral EXCEPT !.latency = 1]
BakeOffArms == BakeOff \cup {Awaited}

Explicit == {ours, theirs, unordered, unpriced}
Budgets == ours :> 2 @@ theirs :> 3 @@ unordered :> 2 @@ unpriced :> 2 @@ unlisted :> Unknown
Offers == ours :> <<"5m", "1h">> @@ theirs :> <<"5m", "1h">> @@ unordered :> <<"5m", "1h">>
            @@ unpriced :> <<"5m">> @@ unlisted :> <<>>
Anthropic == "5m" :> 125 @@ "1h" :> 200
Premiums == [s \in Scopes |-> Anthropic]
Reads == [s \in Scopes |-> 10]
Orders == ours :> "longest_first" @@ theirs :> "none" @@ unordered :> Unknown
            @@ unpriced :> Unknown @@ unlisted :> Unknown

Prompts == {<<>>, <<b>>, <<a, b>>, <<a, b, c>>, <<b, a, c>>, <<a, b, c, d>>}
Rates == UNION {[1 .. n -> {0, 1, 2}] : n \in 0 .. 2} \cup {<<0, 0, 1>>, <<0, 1, 0>>, <<1, 0, 0>>, <<0, 2, 1>>, <<0, 0, 0, 1>>, <<0, 1, 0, 0>>}
Observed == {<<>>, <<0>>, <<3>>, <<6, 6>>, <<3, 6>>, <<6, 12>>}

Asked ==
  {[scope |-> s, ids |-> p, change |-> r, gaps |-> g, budget |-> n, forMutation |-> FALSE] :
     s \in {ours, theirs, unordered}, p \in Prompts, r \in Rates, g \in Observed, n \in {Unknown, 1}}
    \cup
  {[scope |-> s, ids |-> <<a, b>>, change |-> <<0, 0>>, gaps |-> <<3>>, budget |-> n,
    forMutation |-> f] :
     s \in Scopes, n \in {Unknown, 0}, f \in BOOLEAN}

MCQuestions == {q \in Asked : Len(q.change) = Len(q.ids)}

\* Prompts of four sections, two requests of each; in some, the system speaks again
\* after a turn. A section is stable, differs from one request to the other, or is
\* carried by the first only.
Layouts == {<<"tools", "tools", "system", "user">>, <<"system", "system", "system", "user">>,
            <<"system", "user", "user", "user">>, <<"tools", "system", "system", "user">>,
            <<"system", "system", "user", "system">>, <<"system", "user", "system", "user">>}

First == <<a, b, c, d>>
Second == [First EXCEPT ![1] = b, ![2] = c, ![3] = d, ![4] = b]

Part(role, i, id) == [role |-> role, label |-> IF i = 1 THEN "head" ELSE "body", id |-> id]

Pair(layout, kinds, scope, chain) ==
  <<[scope |-> ours, chain |-> "main", segs |-> [i \in 1 .. 4 |-> Part(layout[i], i, First[i])]],
    [scope |-> scope, chain |-> chain,
     segs |-> [i \in {j \in 1 .. 4 : kinds[j] # "optional"} |->
                 Part(layout[i], i, IF kinds[i] = "changes" THEN Second[i] ELSE First[i])]]>>

MCGroups ==
  {Pair(l, k, s, n) : l \in Layouts, k \in [1 .. 4 -> {"stable", "changes", "optional"}],
                      s \in {ours, theirs}, n \in {"main", "side"}}
    \cup {<<Pair(l, k, ours, "main")[1], Pair(l, k, ours, "main")[2], Pair(m, k, ours, "main")[1]>> :
             l \in Layouts, m \in {<<"tools", "tools", "system", "user">>},
             k \in {[i \in 1 .. 4 |-> "stable"], <<"changes", "stable", "stable", "stable">>}}

\* A run replays a trace, asks for an allocation, or proposes moves for a group.
NotRelocating ==
  group = <<>> /\ newOrder = <<>> /\ moves = <<>> /\ tried = {} /\ proposing = FALSE /\ placed = <<>>

MCInit ==
  /\ Init /\ AllocatorInit
  /\ \/ NotRelocating
     \/ arm = Neutral /\ ProposeInit

MCNext ==
  \/ /\ NotRelocating /\ asked = Unknown
     /\ Next
     /\ arm = Awaited => \A k \in DOMAIN trace : trace[k].shape = trace'[Len(trace')].shape
     /\ UNCHANGED <<asking, relocating>>
  \/ /\ NotRelocating /\ trace = <<>> /\ arm = Neutral
     /\ AllocatorNext
     /\ UNCHANGED <<vars, relocating>>
  \/ ~ NotRelocating /\ RelocationNext /\ UNCHANGED <<vars, asking>>

MCSpec == MCInit /\ [][MCNext]_<<vars, asking, relocating>>

==================================================================================
