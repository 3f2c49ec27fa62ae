----------------------------- MODULE Publication -----------------------------
(* Which dollar figures of a report are published, and as what.                *)
(*                                                                             *)
(* A gateway appends rows to an export; the report command reads whatever is   *)
(* there, prices it, and holds every figure back until an invoice agrees with  *)
(* it (analyze in analyzer.py, money.py, cli.py). What the provider charges for*)
(* a line is recorded beside it: the program never sees that, only an invoice  *)
(* that may or may not cover the same lines.                                   *)
EXTENDS Findings

CONSTANTS
  Lines,          \* what can be appended: [row, charge]
  MaxLines,       \* bound on the length of the export
  SettingsOf(_),  \* of a command on an export: [source, key, target, assumed, rate, date]
  InvoicesOf(_),  \* the invoices that may come with an export; Absent for none
  StructureFloor  \* ALIGNMENT_FLOOR, in percent

\* What a loader lets through as a row; each of its counters is a count or is not.
IsRow(row) ==
  /\ {"usage", "segments", "status", "agent", "sent", "first", "model", "target", "tenant", "ttl"}
       \subseteq DOMAIN row
  /\ {"input", "read", "created"} \subseteq DOMAIN row.usage
  /\ \A k \in DOMAIN row.segments : {"marked", "ttl"} \subseteq DOMAIN row.segments[k]
  /\ \A v \in {row.usage.input, row.usage.read, row.usage.created,
              row.usage.m5, row.usage.h1, row.usage.other} : v \in Nat \cup {Absent, NotACount}

ASSUME LinesAssumption ==
  /\ StructureFloor \in Nat /\ CountedFloor \in Nat /\ MaxLines \in Nat
  /\ Absent \notin {NotACount, "5m", "1h"}
  /\ \A line \in Lines : line.charge \in Nat /\ (line.row # Unreadable => IsRow(line.row))

VARIABLES
  export,   \* the lines that were appended, in order
  shown     \* what the last command printed

Rows == [k \in DOMAIN export |-> export[k].row]

-----------------------------------------------------------------------------
(* Figures (money.py).                                                         *)

\* A figure starts withheld. `projected` marks a month.
Figure(usd, projected) ==
  [usd |-> usd, projected |-> projected, released |-> FALSE, as |-> "", why |-> "not released"]

\* Figure.release: without a new provenance a released figure keeps its own.
Release(figure, ok, why, as) ==
  [figure EXCEPT
     !.released = ok,
     !.as  = IF ~ok THEN "" ELSE IF as # "" THEN as ELSE IF @ # "" THEN @ ELSE "reconciled",
     !.why = IF ok THEN "" ELSE IF why # "" THEN why ELSE @]

\* draft_override_applies
DraftOverrideApplies(supplied, allow) == allow /\ ~supplied

ReleaseIfAny(figure, ok, why, as) ==
  IF figure = Absent THEN Absent ELSE Release(figure, ok, why, as)

\* _withhold_projection: only a released figure, whose reason is not taken from it.
WithholdProjection(figure, supported) ==
  IF figure = Absent THEN Absent
  ELSE IF figure.released /\ ~supported THEN Release(figure, FALSE, "too_short", "")
  ELSE figure

-----------------------------------------------------------------------------
(* The facts of a trace (the first half of analyze).                           *)

\* An unkeyed file whose segments carry content and no ids is refused.
Refused(setting) == setting.source = "trace" /\ Unkeyed(Readable(Rows), setting.key)

TraceOf(setting) ==
  IF setting.source = "trace" THEN Load(Rows, setting.target)
  ELSE LoadSessions(Rows, setting.target)

Analysed(trace) == {i \in DOMAIN trace.requests : Analysable(trace.requests[i])}

Priced(trace, setting) ==
  {i \in Analysed(trace) : Exclusion(trace.requests[i], setting) = ""}

\* Everything that leaves the computed total incomplete.
Blockers(trace, setting) ==
  ({Exclusion(trace.requests[i], setting) : i \in Analysed(trace)} \ {""})
    \cup ExcludedBilled(trace)

RatesOf(trace, setting) ==
  [i \in DOMAIN trace.requests |-> RateFor(trace.requests[i], setting)]

Spend(trace, setting) ==
  Total(trace.requests, Priced(trace, setting), LAMBDA i :
    SpendRate(trace.requests[i], setting) * Cost(trace.requests[i]))

Uncached(trace, setting) ==
  Total(trace.requests, Priced(trace, setting), LAMBDA i :
    SpendRate(trace.requests[i], setting) * Plain(trace.requests[i]))

\* EFF-1 hands the rate of a finding to price, which refuses a rate of zero.
Crashes(trace, setting) ==
  /\ \E i \in Analysed(trace) :
       LET r == trace.requests[i]
       IN  Provable(r) /\ Valid(r.usage.read) + WroteAny(r) > 0
  /\ \E i \in Priced(trace, setting) : RateFor(trace.requests[i], setting) = 0

\* _avoidable: a finding that was costed has an amount for the window and, when there
\* is a window, one for the month; `projectable` is the verdict on its own sample.
\* The scale of a month is left out.
Costed(f, rs, analysed) ==
  [code        |-> f.code,
   structural  |-> f.structural,
   projectable |-> f.amount = Absent \/ Projectable(rs, f.sample),
   window      |-> IF f.amount = Absent THEN Absent ELSE Figure(f.amount, FALSE),
   month       |-> IF f.amount = Absent \/ ~HasWindow(rs, analysed) THEN Absent
                   ELSE Figure(f.amount, TRUE)]

-----------------------------------------------------------------------------
(* The decision (the second half of analyze).                                  *)

Distance(x, y) == IF x < y THEN y - x ELSE x - y

InvoiceFault(invoice) ==
  IF invoice = NotACount THEN "not_finite"
  ELSE IF invoice = 0 THEN "zero"
  ELSE IF invoice < 0 THEN "negative"
  ELSE ""

WithinGate(spend, invoice) ==
  InvoiceFault(invoice) = "" /\ 20 * Distance(spend, invoice) <= invoice

\* _residual_blocker: the first one in this order.
Residual(blockers) ==
  LET order == <<"unprovable_lifetime", "unpriceable_model", "unpriceable_surface",
                 "undated", "skipped_rows", "no_usage", "failed_but_billed">>
  IN  order[MinOf({k \in DOMAIN order : order[k] \in blockers})]

\* Why an invoice settles nothing. An unpriceable surface is not among the exclusions
\* that are listed.
GateReason(spend, blockers, invoice) ==
  IF InvoiceFault(invoice) # "" THEN InvoiceFault(invoice)
  ELSE IF WithinGate(spend, invoice) /\ blockers \ {"unpriceable_surface"} # {} THEN "subset"
  ELSE "off"

\* Mutation: the provenance is left to the command.
DecisionUnassumed(spend, blockers, invoice, allow, assumed) ==
  LET ties     == invoice # Absent /\ WithinGate(spend, invoice) /\ blockers = {}
      override == DraftOverrideApplies(invoice # Absent, allow)
  IN  [ties |-> ties,
       ok   |-> ties \/ (override /\ blockers = {}),
       as   |-> IF ties THEN "reconciled" ELSE "draft",
       why  |-> IF ties \/ (override /\ blockers = {}) THEN ""
                ELSE IF invoice # Absent THEN GateReason(spend, blockers, invoice)
                ELSE IF override THEN Residual(blockers)
                ELSE "no_invoice"]

\* The ship gate, the draft override, and the provenance of what is released.
Decision(spend, blockers, invoice, allow, assumed) ==
  LET ties     == invoice # Absent /\ WithinGate(spend, invoice) /\ blockers = {}
      override == DraftOverrideApplies(invoice # Absent, allow)
  IN  [ties |-> ties,
       ok   |-> ties \/ (override /\ blockers = {}),
       as   |-> IF ties /\ ~assumed THEN "reconciled" ELSE "draft",
       why  |-> IF ties \/ (override /\ blockers = {}) THEN ""
                ELSE IF invoice # Absent THEN GateReason(spend, blockers, invoice)
                ELSE IF override THEN Residual(blockers)
                ELSE "no_invoice"]

\* Why no structural claim carries money, "" if it may. Neither loader records an
\* alignment, so inferred structure is never aligned.
StructureDoubt(trace) ==
  IF ~trace.publishable THEN "sizes_disagree"
  ELSE IF trace.tier # "instrumented" THEN "unaligned"
  ELSE IF trace.covered < StructureFloor THEN "rows_uncovered"
  ELSE IF ~trace.counted THEN "sizes_estimated"
  ELSE IF CoveredBilled(trace.requests) < StructureFloor THEN "bill_uncovered"
  ELSE ""

\* The two dollars of the reconciliation are released where they are built, and once
\* more when the provenance is known.
Reconciliation(spend, invoice, decision) ==
  LET built(usd) ==
        Release(Figure(usd, FALSE), decision.ties, "not_tied", "reconciled")
      relabelled(figure) ==
        IF figure.released THEN Release(figure, TRUE, "", decision.as) ELSE figure
  IN  IF invoice = Absent THEN <<>>
      ELSE IF InvoiceFault(invoice) # "" THEN <<relabelled(built(spend))>>
      ELSE <<relabelled(built(spend)), relabelled(built(spend - invoice))>>

\* A finding is released with the report, a structural one only if structure is
\* trusted; then its month is held to its own sample.
Publish(f, doubt, decision) ==
  LET ok  == decision.ok /\ ~(f.structural /\ doubt # "")
      why == IF f.structural /\ doubt # "" THEN doubt ELSE decision.why
  IN  [f EXCEPT
         !.window = ReleaseIfAny(@, ok, why, decision.as),
         !.month  = WithholdProjection(ReleaseIfAny(@, ok, why, decision.as), f.projectable)]

SpendMap(spend, uncached, window, supported, decision) ==
  LET publish(figure) == Release(figure, decision.ok, decision.why, decision.as)
  IN  [input    |-> publish(Figure(spend, FALSE)),
       uncached |-> publish(Figure(uncached, FALSE)),
       saved    |-> publish(Figure(uncached - spend, FALSE)),
       month    |-> IF window
                    THEN WithholdProjection(publish(Figure(spend, TRUE)), supported)
                    ELSE Absent]

\* total_avoidable_month: as good as the worst of its parts.
TotalAvoidable(findings) ==
  LET parts == {f \in findings : f.month # Absent /\ f.month.usd # 0}
      held  == {f \in parts : ~f.month.released}
  IN  IF parts = {} THEN Release(Figure(0, FALSE), FALSE, "nothing_priced", "")
      ELSE IF held # {}
      THEN Release(Figure(0, TRUE), FALSE, (CHOOSE f \in held : TRUE).month.why, "")
      ELSE Release(Figure(0, TRUE), TRUE, "",
                   IF \E f \in parts : f.month.as = "draft" THEN "draft" ELSE "reconciled")

-----------------------------------------------------------------------------
(* The report.                                                                 *)

\* What analyze computes before it looks at an invoice.
Facts(setting) ==
  LET trace    == TraceOf(setting)
      analysed == Analysed(trace)
      priced   == Priced(trace, setting)
      found    == FindingsOf(trace.requests, analysed, priced, RatesOf(trace, setting))
  IN  [blockers  |-> Blockers(trace, setting),
       spend     |-> Spend(trace, setting),
       uncached  |-> Uncached(trace, setting),
       doubt     |-> StructureDoubt(trace),
       window    |-> HasWindow(trace.requests, analysed),
       supported |-> Projectable(trace.requests, analysed),
       findings  |-> {Costed(f, trace.requests, analysed) : f \in found}]

Analysis(facts, invoice, allow, assumed) ==
  LET decision == Decision(facts.spend, facts.blockers, invoice, allow, assumed)
  IN  [spend    |-> SpendMap(facts.spend, facts.uncached, facts.window, facts.supported,
                             decision),
       recon    |-> Reconciliation(facts.spend, invoice, decision),
       findings |-> {Publish(f, facts.doubt, decision) : f \in facts.findings}]

\* _draft_because_the_surface_was_assumed: released figures become drafts. The window
\* amounts of the findings are left as they are.
Drafted(figure) ==
  IF figure = Absent THEN Absent
  ELSE IF figure.released THEN Release(figure, TRUE, "", "draft") ELSE figure

DraftBecauseAssumed(analysis) ==
  [spend    |-> [name \in DOMAIN analysis.spend |-> Drafted(analysis.spend[name])],
   recon    |-> [k \in DOMAIN analysis.recon |-> Drafted(analysis.recon[k])],
   findings |-> {[f EXCEPT !.month = Drafted(@)] : f \in analysis.findings}]

Nothing == [kind |-> "nothing"]

\* cmd_analyze and cmd_claude_code. The banner is read off the figures.
Printed(setting, invoice, allow, facts) ==
  LET plain    == Analysis(facts, invoice, allow, setting.assumed)
      analysis == IF setting.assumed THEN DraftBecauseAssumed(plain) ELSE plain
  IN  [kind     |-> "report",
       setting  |-> setting,
       invoice  |-> invoice,
       spend    |-> analysis.spend,
       recon    |-> analysis.recon,
       findings |-> analysis.findings,
       total    |-> TotalAvoidable(analysis.findings),
       draft    |-> \E name \in DOMAIN analysis.spend :
                      analysis.spend[name] # Absent /\ analysis.spend[name].as = "draft"]

-----------------------------------------------------------------------------

Init == export = <<>> /\ shown = Nothing

\* The gateway appends a row, in the order the requests were sent, or is cut off while
\* it writes one. No command has read the file yet.
Write(line) ==
  /\ shown = Nothing
  /\ Len(export) < MaxLines
  /\ \A k \in DOMAIN export :
       (\A r \in {line.row, export[k].row} : r # Unreadable /\ r.sent # Absent)
         => export[k].row.sent <= line.row.sent
  /\ export' = Append(export, line)
  /\ UNCHANGED shown

Refuse(setting) ==
  /\ shown = Nothing
  /\ Refused(setting)
  /\ shown' = [kind |-> "refused"]
  /\ UNCHANGED export

Crash(setting) ==
  /\ shown = Nothing
  /\ ~Refused(setting)
  /\ Crashes(TraceOf(setting), setting)
  /\ shown' = [kind |-> "crashed"]
  /\ UNCHANGED export

Report(setting) ==
  /\ shown = Nothing
  /\ ~Refused(setting)
  /\ ~Crashes(TraceOf(setting), setting)
  /\ LET facts == Facts(setting)
     IN  \E invoice \in InvoicesOf(export), allow \in BOOLEAN :
           shown' = Printed(setting, invoice, allow, facts)
  /\ UNCHANGED export

-----------------------------------------------------------------------------
(* What must hold.                                                             *)

Publishes(kind) == shown.kind = kind

\* Lines that cost money and block nothing: a failed call none of whose counters is a
\* count, and the last record of a transcript while it is being written.
PassesUnseen(k, setting) ==
  LET row == export[k].row
  IN  \/ row = Unreadable /\ setting.source = "sessions" /\ k = Len(export)
      \/ row # Unreadable /\ row.status # 200 /\ BilledInput(row.usage) = 0

\* A lifetime that a row names for everything it wrote, itself or by its markers.
Names(row, ttl) == row.ttl = ttl \/ MarkerLifetimes(row) = {ttl}

\* What a call wrote for five minutes and for an hour, as far as its row tells.
WroteFor(row, five, hour) ==
  IF SplitStated(row.usage)
  THEN five = Valid(row.usage.m5) /\ hour = Valid(row.usage.h1)
  ELSE /\ five + hour = Valid(row.usage.created)
       /\ Names(row, "5m") => hour = 0
       /\ Names(row, "1h") => five = 0

\* What the list charges for an answered call that wrote so much for either lifetime.
ListCharge(row, five, hour) ==
  ListRate(row.model, row.sent \div Day)
    * (100 * Valid(row.usage.input) + ReadPct * Valid(row.usage.read) + 125 * five + 200 * hour)

\* Rows that the list has a price for, unless it is unknown what they wrote.
Listed(row) ==
  /\ row.status = 200 /\ HasUsage(row.usage) /\ CountersAgree(row.usage)
  /\ row.target \in PricedTargets \cup {Absent}
  /\ row.sent # Absent /\ ListRate(row.model, row.sent \div Day) # Absent

ChargedFor(line) ==
  \E five, hour \in 0 .. Split(line.row.usage) + Valid(line.row.usage.created) :
    WroteFor(line.row, five, hour) /\ line.charge = ListCharge(line.row, five, hour)

\* Providers charge an answered call by the list of its day, for the tokens its row
\* counts and the lifetimes it names; a row without a surface comes from a listed one.
ChargedByTheList ==
  \A line \in Lines : line.row # Unreadable /\ Listed(line.row) => ChargedFor(line)

\* A transcript holds answered calls, and leaves their surface to the reader.
TranscriptsAreAnswers ==
  \A lines \in UNION {[1 .. n -> Lines] : n \in 0 .. MaxLines} :
    \A setting \in SettingsOf(lines) :
      /\ setting.source \in {"trace", "sessions"}
      /\ setting.source = "sessions" =>
           \A k \in DOMAIN lines : LET row == lines[k].row IN
             row # Unreadable => row.status = 200 /\ row.target = Absent

\* A total that is published as reconciled is what the provider charged for the lines of
\* the export, to the cent although the gate lets a twentieth pass: nothing the
\* provider charged for is missing from it, and nothing is priced at another day's rate
\* or another surface's. (analyze; not when the reader gives the rate or the day.)
ReconciledMeansComplete ==
  Publishes("report") =>
    LET input == shown.spend.input
        seen  == SumTo(Len(export), [k \in DOMAIN export |->
                   IF PassesUnseen(k, shown.setting) THEN 0 ELSE export[k].charge])
    IN  input.as = "reconciled" /\ shown.setting.rate = Absent /\ shown.setting.date = Absent
        => input.usd = seen

\* The requests that move the amount of a finding: without its rate, it is another.
Amounts(code, trace, setting, rates) ==
  {f.amount : f \in {g \in FindingsOf(trace.requests, Analysed(trace),
                                      Priced(trace, setting), rates) : g.code = code}}

Movers(code, trace, setting) ==
  LET rates == RatesOf(trace, setting)
  IN  {i \in Priced(trace, setting) :
         Amounts(code, trace, setting, [rates EXCEPT ![i] = 0])
           # Amounts(code, trace, setting, rates)}

\* A month that is published for a finding rests on enough requests, over at least a
\* day, that each move its amount: traffic that the finding does not charge vouches
\* for nothing. (_avoidable and the contributions every rule names.)
MonthsRestOnEnough ==
  Publishes("report") =>
    \A f \in shown.findings : f.month # Absent /\ f.month.released =>
      LET trace  == TraceOf(shown.setting)
          movers == Movers(f.code, trace, shown.setting)
      IN  Projectable(trace.requests, movers)

\* Rows whose structure bears out their bill, segment by segment.
Sound(rows) ==
  {i \in DOMAIN rows :
     /\ \A k \in DOMAIN rows[i].segments : Identified(rows[i].segments[k])
     /\ rows[i].claim = "counted"
     /\ Comparable(rows[i]) /\ Publishable(rows[i])}

\* Money that is published for a structural finding comes from a trace whose counted and
\* agreeing segment sizes stand for most of what was billed: by tokens, not by rows.
\* (structure_trusted, structural_coverage_billed, tokens_are_counted.)
StructuralMoneyIsCounted ==
  Publishes("report") =>
    \A f \in shown.findings : f.structural /\ f.window # Absent /\ f.window.released =>
      LET rows == Readable(Rows)
      IN  10000 * BilledTo(Sound(rows), rows)
            >= StructureFloor * CountedFloor * BilledTo(DOMAIN rows, rows)

FiguresOf(report) ==
  ({report.spend[name] : name \in DOMAIN report.spend}
     \cup {report.recon[k] : k \in DOMAIN report.recon}
     \cup {f.window : f \in report.findings} \cup {f.month : f \in report.findings}
     \cup {report.total}) \ {Absent}

\* One report never calls one of its figures reconciled and another a draft; it calls
\* them reconciled only if an invoice was held against all of the traffic and nothing
\* was assumed; and it carries the banner exactly when a published figure is a draft.
\* (released_as, the relabelled reconciliation, _draft_because_the_surface_was_assumed.)
OneProvenance ==
  Publishes("report") =>
    LET published == {f.as : f \in {g \in FiguresOf(shown) : g.released}}
    IN  /\ Cardinality(published) <= 1
        /\ "reconciled" \in published =>
             /\ InvoiceFault(shown.invoice) = "" /\ shown.invoice # Absent
             /\ ~shown.setting.assumed
             /\ shown.spend.input.released
        /\ shown.draft <=> "draft" \in published

=============================================================================
