------------------------------- MODULE MCReport -------------------------------
(* Exports of up to three lines of the kinds that a gateway, a recorder or an    *)
(* agent writes, and the reports and bake-offs made of them.                     *)
EXTENDS Comparison, TLC

CONSTANTS h1, h2, digest

MCListRate(model, day) ==
  CASE model = "sonnet"                       -> IF day = 0 THEN 1 ELSE 2
    [] model = "opus" /\ day # Absent /\ day > 0 -> 5
    [] OTHER                                  -> Absent

Use(input, read, created, m5, h) ==
  [input |-> input, read |-> read, created |-> created, m5 |-> m5, h1 |-> h, other |-> Absent]

Seg(id, tokens, marked, ttl) ==
  [id |-> id, role |-> "user", content |-> Absent, tokens |-> tokens, marked |-> marked,
   ttl |-> ttl]

Prompt(id, ttl) == <<Seg(id, 4, FALSE, Absent), Seg(h1, 6, TRUE, ttl), Seg(h2, 2, FALSE, Absent)>>

\* A request that writes ten tokens for five minutes.
Warm ==
  [id |-> 1, sent |-> 0, first |-> Absent, model |-> "sonnet", target |-> "direct",
   usage |-> Use(2, 0, 10, 10, 0), session |-> "x", agent |-> "main", tenant |-> Absent,
   ttl |-> Absent, status |-> 200, claim |-> "counted", segments |-> Prompt(h1, "5m")]

Plainly == [Warm EXCEPT !.usage = Use(12, 0, 0, Absent, Absent), !.segments = <<>>]

Failed == [Plainly EXCEPT !.status = 500]

At(row, sent) == [row EXCEPT !.sent = sent]

Later == Day + 100

Structured ==
  {[row |-> Warm,                                                       charge |-> 1450],
   [row |-> At(Warm, 2),                                                charge |-> 1450],
   [row |-> [At(Warm, 10) EXCEPT !.segments = Prompt(h2, "5m")],        charge |-> 1450],
   [row |-> [At(Warm, 20) EXCEPT !.segments = Prompt(digest, "5m")],    charge |-> 1450],
   [row |-> [At(Warm, 25) EXCEPT !.segments[1].id = digest,
                                 !.segments[1].content = "text"],       charge |-> 1450],
   [row |-> [At(Warm, 30) EXCEPT !.segments[1].tokens = 1,
                                 !.segments[1].marked = TRUE],          charge |-> 1450],
   [row |-> [At(Warm, 40) EXCEPT !.claim = "estimated", !.session = Absent], charge |-> 1450],
   [row |-> [At(Warm, 50) EXCEPT !.segments = Prompt(h1, "30m"),
                                 !.usage = Use(2, 0, 10, Absent, Absent)], charge |-> 1450],
   [row |-> [At(Warm, Day) EXCEPT !.usage = Use(2, 10, 0, Absent, Absent)], charge |-> 600],
   [row |-> [At(Warm, Later) EXCEPT !.usage = Use(2, 0, 10, 0, 10),
                                    !.segments = Prompt(h1, "1h")],     charge |-> 4400],
   [row |-> [At(Warm, 60) EXCEPT !.usage = Use(2, 0, 10, 0, 10),
                                 !.segments = Prompt(h1, "1h")],        charge |-> 2200]}

Unstructured ==
  {[row |-> At(Plainly, Day + 1),                                       charge |-> 2400],
   [row |-> [At(Plainly, 70) EXCEPT !.usage.input = 100, !.agent = "sub"], charge |-> 10000],
   [row |-> [Plainly EXCEPT !.sent = Absent],                           charge |-> 1200],
   [row |-> [At(Plainly, 80) EXCEPT !.target = "bedrock", !.agent = "sub"], charge |-> 900],
   [row |-> [At(Plainly, 90) EXCEPT !.model = "opus", !.agent = "unknown"], charge |-> 3600],
   [row |-> [At(Plainly, 95) EXCEPT !.usage = Use(Absent, Absent, Absent, Absent, Absent),
                                    !.agent = "unknown"],               charge |-> 1300],
   [row |-> [At(Failed, 100) EXCEPT !.agent = "sub"],                   charge |-> 1200],
   [row |-> [At(Failed, 110) EXCEPT !.usage.input = NotACount],         charge |-> 50],
   [row |-> Unreadable,                                                 charge |-> 1200]}

\* Records of a transcript name no surface.
Record(usage, sent) == [At(Plainly, sent) EXCEPT !.target = Absent, !.usage = usage]

Records ==
  {[row |-> Record(Use(2, 0, 10, 10, 0), 120),      charge |-> 1450],
   [row |-> Record(Use(Absent, 10, Absent, Absent, Absent), Later), charge |-> 200]}

MCLines == Structured \cup Unstructured \cup Records

Trace(key, rate, date) ==
  [source |-> "trace", key |-> key, target |-> "unattributed", assumed |-> FALSE,
   rate |-> rate, date |-> date]

Sessions(target, assumed) ==
  [source |-> "sessions", key |-> FALSE, target |-> target, assumed |-> assumed,
   rate |-> Absent, date |-> Absent]

\* Transcripts are read as such, everything else as a trace.
MCSettings(lines) ==
  IF \A k \in DOMAIN lines : lines[k] \in Records \/ lines[k].row = Unreadable
  THEN {Sessions("direct", TRUE), Sessions("direct", FALSE), Sessions("unattributed", FALSE)}
  ELSE {Trace(TRUE, Absent, Absent), Trace(FALSE, Absent, 1), Trace(FALSE, 3, Absent)}

\* An invoice for all of it, for nearly all, for one line less, and those that are none.
MCInvoices(lines) ==
  LET all == SumTo(Len(lines), [k \in DOMAIN lines |-> lines[k].charge])
  IN  {Absent, all, all + all \div 25, 2 * all, 0, -1, NotACount}
        \cup {all - lines[k].charge : k \in DOMAIN lines}

\* The analysable requests; all of them; one of them twice.
MCHanded(requests) ==
  LET good == SelectSeq(requests, Analysable)
  IN  {good, requests, IF good = <<>> THEN good ELSE <<good[1]>> \o good}

\* What a reconciled total is proved to mean rests on this.
ASSUME ExportsAreHonest == ChargedByTheList /\ TranscriptsAreAnswers

===============================================================================
