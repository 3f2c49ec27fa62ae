------------------------------- MODULE Ingest -------------------------------
(* How a trace file is read: the confidence tier it earns, the structure that  *)
(* is kept or thrown away, and the shares of rows and tokens that the report   *)
(* later holds its dollar figures to (trace.py).                               *)
(*                                                                             *)
(* A line of the file is Unreadable or a row. A row's `segments` are in prompt *)
(* order; `sent` and `first` are in seconds; `claim` is what the row says of   *)
(* its own token counts: "counted", "estimated" or nothing.                    *)
EXTENDS Integers, Sequences, FiniteSets

CONSTANTS
  Unreadable,   \* a line that is not a JSON object
  Absent,       \* a field the row does not have
  NotACount,    \* a counter that is a NaN or a negative number
  TrustedIds,   \* the segment ids of the keyed form
  CountedFloor  \* PUBLISH_TOLERANCE_COUNTED, in percent

\* terms[1] + ... + terms[n]
SumTo(n, terms) ==
  LET sum[i \in 0 .. n] == IF i = 0 THEN 0 ELSE sum[i - 1] + terms[i] IN sum[n]

\* The elements of s at the places in S, in their order
Keep(s, S) ==
  LET upTo[i \in 0 .. Len(s)] ==
        IF i = 0 THEN <<>>
        ELSE IF i \in S THEN Append(upTo[i - 1], s[i]) ELSE upTo[i - 1]
  IN upTo[Len(s)]

-----------------------------------------------------------------------------
(* What a response was billed.                                                 *)

TokenCount(v) == v \notin {Absent, NotACount}

Positive(v) == TokenCount(v) /\ v > 0

\* A counter as a term of a sum: one that is no count adds nothing.
Valid(v) == IF TokenCount(v) THEN v ELSE 0

Split(usage) == Valid(usage.m5) + Valid(usage.h1) + Valid(usage.other)

\* The aggregate when it is there and not zero, a NaN too; the split otherwise.
WriteTokens(usage) ==
  IF usage.created \in {Absent, 0} THEN Split(usage) ELSE usage.created

BilledInput(usage) == Valid(usage.input) + Valid(usage.read) + Valid(WriteTokens(usage))

\* The input tokens billed to the rows of S.
BilledTo(S, rows) ==
  SumTo(Len(rows), [i \in DOMAIN rows |-> IF i \in S THEN BilledInput(rows[i].usage) ELSE 0])

HasUsage(usage) ==
  \E v \in {usage.input, usage.read, usage.created, usage.m5, usage.h1, usage.other} :
    Positive(v)

-----------------------------------------------------------------------------
(* Structure.                                                                  *)

SegmentsOf(rows) == UNION {{r.segments[k] : k \in DOMAIN r.segments} :
                             r \in {rows[i] : i \in DOMAIN rows}}

SegmentTokens(segments) ==
  SumTo(Len(segments), [k \in DOMAIN segments |-> Valid(segments[k].tokens)])

\* The rows that have segments.
WithSegments(rows) == {i \in DOMAIN rows : rows[i].segments # <<>>}

Identified(segment) == segment.id \in TrustedIds

Unidentified(rows) == {s \in SegmentsOf(rows) : ~Identified(s)}

HasSegments(rows) == WithSegments(rows) # {}

HasIds(rows) == HasSegments(rows) /\ Unidentified(rows) = {}

\* Some segment has neither an id nor content: no key can name it.
Redacted(rows) == \E s \in Unidentified(rows) : s.content = Absent

Unkeyed(rows, key) == ~key /\ ~Redacted(rows) /\ Unidentified(rows) # {}

Sizeless(rows) == \E s \in SegmentsOf(rows) : ~TokenCount(s.tokens)

\* The structure that survives: identified or hashed, and with sizes.
StructureKept(rows) == HasSegments(rows) /\ ~Redacted(rows) /\ ~Sizeless(rows)

TierOf(rows) ==
  IF ~StructureKept(rows) THEN "usage_only"
  ELSE IF HasIds(rows) THEN "instrumented"
  ELSE "inferred"

\* The segment sizes and the bill speak of the same prompt, to within a twentieth.
\* A row without either has no say.
Comparable(row) == row.segments # <<>> /\ BilledInput(row.usage) > 0

Publishable(row) ==
  LET sum == SegmentTokens(row.segments)  billed == BilledInput(row.usage)
  IN  Comparable(row) => 20 * (sum - billed) <= billed /\ 20 * (billed - sum) <= billed

\* A row's claim is held against its own numbers.
Counted(row) ==
  /\ row.claim = "counted"
  /\ BilledInput(row.usage) > 0 => SegmentTokens(row.segments) > 0

\* tokens_are_counted: nearly all tokens billed to rows with segments, or nearly all
\* such rows when nothing was billed.
MostlyCounted(rows) ==
  LET counted == {i \in WithSegments(rows) : Counted(rows[i])}
      total   == BilledTo(WithSegments(rows), rows)
  IN  /\ HasSegments(rows)
      /\ IF total > 0 THEN 100 * BilledTo(counted, rows) >= CountedFloor * total
         ELSE 100 * Cardinality(counted) >= CountedFloor * Cardinality(WithSegments(rows))

-----------------------------------------------------------------------------
(* Requests and the trace.                                                     *)

\* identity_input and segment_id: an id that is not trusted is derived from the
\* tenant, the role and the content.
NamedSegment(segment, tenant) ==
  [segment EXCEPT !.id = IF Identified(segment) THEN @
                         ELSE <<tenant, segment.role, segment.content>>]

\* request_from_row: the row's own surface and tenant win over the caller's.
RequestFromRow(row, kept, target) ==
  [row EXCEPT
     !.target   = IF @ = Absent THEN target ELSE @,
     !.segments = IF kept
                  THEN [k \in DOMAIN @ |-> NamedSegment(@[k], row.tenant)]
                  ELSE <<>>]

Readable(lines) == Keep(lines, {k \in DOMAIN lines : lines[k] # Unreadable})

\* load_jsonl. A file whose segments would have to be hashed without a key is
\* refused (Unkeyed); the callers ask first.
Load(lines, target) ==
  LET rows == Readable(lines)
      kept == StructureKept(rows)
  IN  [requests    |-> [i \in DOMAIN rows |-> RequestFromRow(rows[i], kept, target)],
       tier        |-> TierOf(rows),
       covered     |-> IF rows = <<>> \/ (HasSegments(rows) /\ ~Redacted(rows) /\ Sizeless(rows))
                       THEN 0
                       ELSE (100 * Cardinality(WithSegments(rows))) \div Len(rows),
       publishable |-> kept => \A i \in DOMAIN rows : Publishable(rows[i]),
       counted     |-> MostlyCounted(rows),
       skipped     |-> Len(lines) - Len(rows)]

\* _usage_only and load_sessions: the transcripts of an agent, one billed request per
\* record. A transcript has no structure and names no surface; a count it leaves out is
\* zero. Its last record may be one that is still being written.
CountsOrZeros(usage) ==
  LET count(v) == IF v = Absent THEN 0 ELSE v
  IN  [usage EXCEPT !.input   = count(@),
                    !.read    = count(@),
                    !.created = count(@)]

Transcribed(row, target) ==
  [row EXCEPT !.usage = CountsOrZeros(@), !.segments = <<>>, !.target = target,
              !.tenant = Absent, !.ttl = Absent, !.first = Absent, !.status = 200]

LoadSessions(lines, target) ==
  LET rows == Readable(lines)
      torn == {i \in DOMAIN lines : lines[i] = Unreadable /\ i < Len(lines)}
  IN  [requests    |-> [i \in DOMAIN rows |-> Transcribed(rows[i], target)],
       tier        |-> "usage_only",
       covered     |-> 100,
       publishable |-> TRUE,
       counted     |-> TRUE,
       skipped     |-> Cardinality(torn)]

Analysable(request) == HasUsage(request.usage) /\ request.status = 200

\* Mutation: a successful row without usage excludes nothing.
ExcludedFailures(trace) ==
  IF \E i \in DOMAIN trace.requests :
       trace.requests[i].status # 200 /\ BilledInput(trace.requests[i].usage) > 0
  THEN {"failed_but_billed"}
  ELSE IF trace.skipped > 0 THEN {"skipped_rows"} ELSE {}

\* excluded_billed: rows that cost money and are not analysed.
FailedButBilled(requests) ==
  {i \in DOMAIN requests : requests[i].status # 200 /\ BilledInput(requests[i].usage) > 0}

BlindRows(requests) ==
  {i \in DOMAIN requests : requests[i].status = 200 /\ ~HasUsage(requests[i].usage)}

ExcludedBilled(trace) ==
  (IF FailedButBilled(trace.requests) # {} THEN {"failed_but_billed"} ELSE {})
    \cup (IF BlindRows(trace.requests) # {} THEN {"no_usage"} ELSE {})
    \cup (IF trace.skipped > 0 THEN {"skipped_rows"} ELSE {})

\* Mutation: by rows.
CoveredRows(requests) ==
  (100 * Cardinality(WithSegments(requests))) \div (IF requests = <<>> THEN 1 ELSE Len(requests))

\* structural_coverage_billed, as a percentage.
CoveredBilled(requests) ==
  LET total == BilledTo(DOMAIN requests, requests)
  IN  IF total = 0 THEN 100 ELSE (100 * BilledTo(WithSegments(requests), requests)) \div total

-----------------------------------------------------------------------------
(* Lifetimes, markers and visibility of a request.                             *)

Markers(r) == {k \in DOMAIN r.segments : r.segments[k].marked}

\* marker_lifetimes: a silent marker beside an explicit one lives five minutes.
MarkerLifetimes(r) ==
  LET said == {r.segments[k].ttl : k \in Markers(r)}
  IN  IF said \subseteq {Absent} THEN {}
      ELSE IF Absent \in said THEN (said \ {Absent}) \cup {"5m"}
      ELSE said

\* marked_spans: the length of each marked prefix; its tokens; its ids.
PrefixTokens(r, n) == SegmentTokens(SubSeq(r.segments, 1, n))

PrefixIds(r, n) == [k \in 1 .. n |-> r.segments[k].id]

\* write_visible_at: the first token, or five seconds after the request was sent.
VisibleAt(r) == IF r.first # Absent THEN r.first ELSE r.sent + 5

=============================================================================
