----------------------------- MODULE LifetimeFinding -----------------------------
(***************************************************************************)
(* The finding TTL-1 of the analyzer (_f_ttl_vs_cadence, analyzer.py): which *)
(* cache writes a one-hour lifetime would have turned into reads, and of how *)
(* many tokens. The trace it reads is one that Replay billed, so that what   *)
(* it credits can be compared with what a longer lifetime would have done.   *)
(* All requests are one agent's and one session's.                           *)
(***************************************************************************)
EXTENDS Replay

CONSTANT
  Multipliers   \* registry.multipliers, in percent of the input rate

ASSUME LifetimeFindingAssumption ==
  Multipliers \in [write5m : Nat, write1h : Nat, read : Nat]

FiveMinutes == Lifetime["5m"]
OneHour == Lifetime["1h"]

InBand(gap) == FiveMinutes < gap /\ gap < OneHour

Scope(n) == Billed(n).shape.scope
Spans(n) == MarkedSpans(Billed(n).shape)

\* The writes the finding walks through: those of five-minute entries.
Writes == {n \in DOMAIN usages : usages[n].write5m > 0 /\ Spans(n) # <<>>}

\* Mutation: a span of another prompt is taken for the one being rewritten.
LongestAnywhere(i, n) ==
  LET fitting == {s \in ToSet(Spans(i)) : s.length <= Last(Spans(n)).length}
  IN {s \in fitting : \A t \in fitting : t.length <= s.length}

\* The spans of write i that request n could read, the longest of them.
LongestReusable(i, n) ==
  LET reusable == {s \in ToSet(Spans(i)) :
                     SpanIsReusableBy(s, Spans(n), Lookback[Scope(n)], Minimum[Scope(n)])}
  IN {s \in reusable : \A t \in reusable : t.length <= s.length}

\* The most recent earlier writes with such a span; at most one.
Matches(n) ==
  LET earlier == {i \in Writes : i < n /\ Scope(i) = Scope(n) /\ LongestReusable(i, n) # {}}
  IN {i \in earlier : \A j \in earlier : j <= i}

GapTo(i, n) == Billed(n).sent - Billed(i).sent

\* The rewrites that came when a five-minute entry was dead and a one-hour entry
\* would not have been.
Credited == {n \in Writes : \E i \in Matches(n) : InBand(GapTo(i, n))}

\* The writes that a one-hour lifetime would only make dearer.
ColdWrites == {n \in Writes : \A i \in Matches(n) : GapTo(i, n) >= OneHour}

\* The entry that a span of write i makes up, as its share of what was billed.
EntryTokens(i, span) ==
  ((usages[i].read + usages[i].write5m) * span.tokens) \div Last(Spans(i)).tokens

\* How many of the tokens that n wrote are credited as recoverable.
Recovered(n) ==
  LET i    == CHOOSE m \in Matches(n) : TRUE
      span == CHOOSE s \in LongestReusable(i, n) : TRUE
  IN Min({EntryTokens(i, span), usages[n].write5m})

Recoverable ==
  (Multipliers.write5m - Multipliers.read) * MapThenSumSet(Recovered, Credited)
    - (Multipliers.write1h - Multipliers.write5m)
        * MapThenSumSet(LAMBDA n : usages[n].write5m, ColdWrites)

\* Two requests of one scope with none of that scope between them, apart by more
\* than five minutes and less than an hour.
CadenceInBand ==
  \E k \in DOMAIN trace : \E i \in 1 .. k - 1 :
    /\ trace[i].shape.scope = trace[k].shape.scope
    /\ \A j \in i + 1 .. k - 1 : trace[j].shape.scope # trace[k].shape.scope
    /\ InBand(trace[k].sent - trace[i].sent)

\* The finding is raised, with a figure.
Raised == Len(trace) >= 3 /\ CadenceInBand /\ Credited # {} /\ Recoverable > 0

-----------------------------------------------------------------------------
(* What the n-th request would have read had every marker lived for an hour. *)

KeptForAnHour(i, n, ids) ==
  LET marking == Marking(n, ids)
  IN /\ i \in marking
     /\ VisibleAt(trace[i]) <= Billed(n).sent
     /\ \A t \in {j \in marking : j > i} \cup {priced[n]} :
          trace[t].sent < trace[Max({j \in marking : j < t})].sent + OneHour

ReadWithAnHour(n) ==
  LET ids == WireIds[arm][Billed(n).shape]
  IN Max({0} \cup
         {Tokens(Prefix(ids, m)) :
            m \in {m \in DOMAIN ids :
                     /\ Reachable(Billed(n).shape, m)
                     /\ \E i \in 1 .. priced[n] - 1 : KeptForAnHour(i, n, Prefix(ids, m))}})

\* Every response can be read by the end of the five minutes that a gap which is
\* credited must exceed. (The finding looks at no first token.)
ResponsesBegin ==
  \A a \in Arms, s \in Shapes :
    (IF s.firstAfter = Unknown THEN 0 ELSE s.firstAfter) + a.latency <= FiveMinutes

\* TTL-1, "a one-hour cache would have read": for every write that is credited,
\* the span it is matched with would have been read.
CreditedSpansWouldBeRead ==
  Raised /\ arm.order = <<>> /\ ~ arm.lookback =>
    \A n \in Credited : \A i \in Matches(n) : \A span \in LongestReusable(i, n) :
      ReadWithAnHour(n) >= span.tokens

\* TTL-1, "this write is prefix plus a new turn, and the turn is new content under
\* either lifetime, so crediting all of it overstates the saving": no more tokens
\* are credited than the read would have grown by.
CreditIsWhatIsSaved ==
  Raised /\ arm.order = <<>> /\ ~ arm.lookback =>
    \A n \in Credited : Recovered(n) <= ReadWithAnHour(n) - usages[n].read

==================================================================================
