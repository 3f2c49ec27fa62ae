------------------------------ MODULE ReportProofs ------------------------------
(* Proofs about what one command prints, for any export, setting and invoice:    *)
(* reports (Publication) and bake-offs (Comparison).                             *)
EXTENDS Comparison, FiniteSetTheorems, WellFoundedInduction, TLAPS

-----------------------------------------------------------------------------
(* Figures.                                                                      *)

\* What stands where there is no provenance, or no reason. (The SMT solver is kept
\* from the empty string, which it cannot read.)
Blank == ""

\* A record with the fields of a figure.
IsFigure(f) ==
  /\ DOMAIN f = {"usd", "projected", "released", "as", "why"}
  /\ f = [field \in DOMAIN f |-> f[field]]

\* The model takes Absent for a figure that is not there; it is none.
AbsentIsNoFigure == ~ IsFigure(Absent)

LEMMA LabelsAreNotBlank == "draft" # Blank /\ "reconciled" # Blank
BY DEF Blank

\* A figure as the decision d leaves it: released only if d releases, and then with
\* the provenance of d.
FollowsDecision(f, d) ==
  IF f.released THEN f.released = TRUE /\ d.ok /\ f.as = d.as ELSE f.as = Blank

Follows(f, d) == f = Absent \/ (IsFigure(f) /\ FollowsDecision(f, d))

LEMMA FigureIsFigure ==
  ASSUME NEW usd, NEW projected
  PROVE  IsFigure(Figure(usd, projected)) /\ Figure(usd, projected).as = Blank
BY DEF IsFigure, Figure, Blank

\* Release sets whether and as what a figure is published.
LEMMA Releasing ==
  ASSUME NEW f, IsFigure(f), NEW ok \in BOOLEAN, NEW why, NEW as
  PROVE  LET r == Release(f, ok, why, as)
         IN  /\ IsFigure(r) /\ r.released = ok
             /\ ~ ok => r.as = Blank
             /\ ok /\ as # Blank => r.as = as
BY DEF Release, IsFigure, Blank

LEMMA Withholding ==
  ASSUME NEW f, IsFigure(f), NEW why, NEW as
  PROVE  LET r == Release(f, FALSE, why, as)
         IN  IsFigure(r) /\ r.released = FALSE /\ r.as = Blank
BY DEF Release, IsFigure, Blank

LEMMA Relabelling ==
  ASSUME NEW f, IsFigure(f), NEW why, NEW as, as # Blank
  PROVE  LET r == Release(f, TRUE, why, as)
         IN  IsFigure(r) /\ r.released = TRUE /\ r.as = as
BY DEF Release, IsFigure, Blank

LEMMA ReleaseFollows ==
  ASSUME NEW f, IsFigure(f), NEW d, d.ok \in BOOLEAN, d.as # Blank,
         NEW ok \in BOOLEAN, ok => d.ok, NEW why
  PROVE  Follows(Release(f, ok, why, d.as), d)
<1> DEFINE r == Release(f, ok, why, d.as)
<1>1. /\ IsFigure(r) /\ r.released = ok
      /\ ~ ok => r.as = Blank
      /\ ok => r.as = d.as
  BY Releasing
<1> HIDE DEF r
<1>2. Follows(r, d)
  BY <1>1 DEF Follows, FollowsDecision
<1> QED BY <1>2 DEF r

\* So do the other ways a figure changes hands.
LEMMA ReleaseIfAnyFollows ==
  ASSUME AbsentIsNoFigure, NEW f, f = Absent \/ IsFigure(f), NEW d, d.ok \in BOOLEAN, d.as # Blank,
         NEW ok \in BOOLEAN, ok => d.ok, NEW why
  PROVE  Follows(ReleaseIfAny(f, ok, why, d.as), d)
BY ReleaseFollows DEF ReleaseIfAny, Follows, AbsentIsNoFigure

LEMMA WithholdFollows ==
  ASSUME NEW f, NEW d, Follows(f, d), NEW supported
  PROVE  Follows(WithholdProjection(f, supported), d)
<1>1. CASE f = Absent \/ ~(f.released /\ ~supported)
  BY <1>1 DEF WithholdProjection
<1>2. CASE f # Absent /\ f.released /\ ~supported
  <2> DEFINE r == Release(f, FALSE, "too_short", Blank)
  <2>0. IsFigure(f)
    BY <1>2 DEF Follows
  <2>1. IsFigure(r) /\ r.released = FALSE /\ r.as = Blank
    BY <2>0, Withholding
  <2> HIDE DEF r
  <2>2. Follows(r, d)
    BY <2>1 DEF Follows, FollowsDecision
  <2> QED BY <1>2, <2>2 DEF WithholdProjection, r, Blank
<1> QED BY <1>1, <1>2

LEMMA DraftedFollows ==
  ASSUME NEW f, NEW d, Follows(f, d), d.as = "draft"
  PROVE  Follows(Drafted(f), d)
<1>1. CASE f = Absent \/ ~ f.released
  BY <1>1 DEF Drafted
<1>2. CASE f # Absent /\ f.released
  <2> DEFINE r == Release(f, TRUE, Blank, "draft")
  <2>0. IsFigure(f)
    BY <1>2 DEF Follows
  <2>1. IsFigure(r) /\ r.released = TRUE /\ r.as = "draft"
    BY <2>0, LabelsAreNotBlank DEF Release, IsFigure, Blank
  <2> HIDE DEF r
  <2>2. Follows(r, d)
    BY <1>2, <2>1 DEF Follows, FollowsDecision
  <2> QED BY <1>2, <2>2 DEF Drafted, r, Blank
<1> QED BY <1>1, <1>2

-----------------------------------------------------------------------------
(* A report.                                                                     *)

\* What Decision can say: a figure is released as something, and reconciled only with
\* an invoice that ties and no assumption.
LEMMA Decided ==
  ASSUME NEW spend, NEW blockers, NEW invoice, NEW allow, NEW assumed
  PROVE  LET d == Decision(spend, blockers, invoice, allow, assumed)
         IN  /\ d.ok \in BOOLEAN /\ d.ties \in BOOLEAN
             /\ d.as \in {"reconciled", "draft"}
             /\ d.ties => d.ok
             /\ d.as = "reconciled" =>
                  d.ties /\ ~assumed /\ invoice # Absent /\ InvoiceFault(invoice) = Blank
BY DEF Decision, DraftOverrideApplies, WithinGate, Blank

\* A decision that a report rests on.
Decides(d) == d.ok \in BOOLEAN /\ d.ties \in BOOLEAN /\ d.as \in {"reconciled", "draft"}
                /\ (d.ties => d.ok)

MaybeFigure(f) == f = Absent \/ IsFigure(f)

\* A finding of a report, its figures as yet undecided, and as the decision leaves it.
IsFinding(q) ==
  /\ DOMAIN q = {"code", "structural", "projectable", "window", "month"}
  /\ q = [field \in DOMAIN q |-> q[field]]

FindingFollows(q, d) == IsFinding(q) /\ Follows(q.window, d) /\ Follows(q.month, d)

LEMMA CostedFinding ==
  ASSUME NEW f, NEW rs, NEW analysed
  PROVE  LET q == Costed(f, rs, analysed)
         IN  IsFinding(q) /\ MaybeFigure(q.window) /\ MaybeFigure(q.month)
<1> DEFINE q == Costed(f, rs, analysed)
<1>1. IsFinding(q)
  BY DEF Costed, IsFinding
<1>2. /\ q.window = (IF f.amount = Absent THEN Absent ELSE Figure(f.amount, FALSE))
      /\ q.month = (IF f.amount = Absent \/ ~HasWindow(rs, analysed) THEN Absent
                    ELSE Figure(f.amount, TRUE))
  BY DEF Costed
<1>3. MaybeFigure(q.window) /\ MaybeFigure(q.month)
  BY <1>2, FigureIsFigure DEF MaybeFigure
<1> QED BY <1>1, <1>3

LEMMA PublishFollows ==
  ASSUME AbsentIsNoFigure, NEW q, IsFinding(q), MaybeFigure(q.window), MaybeFigure(q.month),
         NEW doubt, NEW d, Decides(d)
  PROVE  FindingFollows(Publish(q, doubt, d), d)
<1> DEFINE ok  == d.ok /\ ~(q.structural /\ doubt # "")
           why == IF q.structural /\ doubt # "" THEN doubt ELSE d.why
<1>1. ok \in BOOLEAN /\ (ok => d.ok)
  OBVIOUS
<1>2. d.ok \in BOOLEAN /\ d.as # Blank
  BY LabelsAreNotBlank DEF Decides
<1>3. Publish(q, doubt, d) =
        [q EXCEPT !.window = ReleaseIfAny(@, ok, why, d.as),
                  !.month = WithholdProjection(ReleaseIfAny(@, ok, why, d.as), q.projectable)]
  BY DEF Publish
<1> HIDE DEF ok, why
<1>4. /\ Follows(ReleaseIfAny(q.window, ok, why, d.as), d)
      /\ Follows(ReleaseIfAny(q.month, ok, why, d.as), d)
  BY <1>1, <1>2, ReleaseIfAnyFollows DEF MaybeFigure
<1>5. Follows(WithholdProjection(ReleaseIfAny(q.month, ok, why, d.as), q.projectable), d)
  BY <1>4, WithholdFollows
<1>6. /\ IsFinding(Publish(q, doubt, d))
      /\ Publish(q, doubt, d).window = ReleaseIfAny(q.window, ok, why, d.as)
      /\ Publish(q, doubt, d).month
           = WithholdProjection(ReleaseIfAny(q.month, ok, why, d.as), q.projectable)
  BY <1>3 DEF IsFinding
<1> QED BY <1>4, <1>5, <1>6 DEF FindingFollows

LEMMA SpendFollows ==
  ASSUME AbsentIsNoFigure, NEW spend, NEW uncached, NEW window, NEW supported, NEW d, Decides(d)
  PROVE  LET m == SpendMap(spend, uncached, window, supported, d)
         IN  /\ DOMAIN m = {"input", "uncached", "saved", "month"}
             /\ \A name \in DOMAIN m : Follows(m[name], d)
             /\ m["input"] # Absent /\ m["input"].released = d.ok
<1> DEFINE m == SpendMap(spend, uncached, window, supported, d)
           publish(figure) == Release(figure, d.ok, d.why, d.as)
<1>1. d.ok \in BOOLEAN /\ d.as # Blank
  BY LabelsAreNotBlank DEF Decides
<1>2. ASSUME NEW f, IsFigure(f)
      PROVE  Follows(publish(f), d) /\ publish(f).released = d.ok /\ publish(f) # Absent
  BY <1>1, <1>2, Releasing, ReleaseFollows DEF AbsentIsNoFigure
<1>3. /\ IsFigure(Figure(spend, FALSE)) /\ IsFigure(Figure(uncached, FALSE))
      /\ IsFigure(Figure(uncached - spend, FALSE)) /\ IsFigure(Figure(spend, TRUE))
  BY FigureIsFigure
<1>4. /\ DOMAIN m = {"input", "uncached", "saved", "month"}
      /\ m["input"] = publish(Figure(spend, FALSE))
      /\ m["uncached"] = publish(Figure(uncached, FALSE))
      /\ m["saved"] = publish(Figure(uncached - spend, FALSE))
      /\ m["month"] = IF window THEN WithholdProjection(publish(Figure(spend, TRUE)), supported)
                      ELSE Absent
  BY DEF SpendMap
<1> HIDE DEF m, publish
<1>5. Follows(m["month"], d)
  BY <1>2, <1>3, <1>4, WithholdFollows DEF Follows
<1>6. \A name \in DOMAIN m : Follows(m[name], d)
  BY <1>2, <1>3, <1>4, <1>5
<1>7. m["input"] # Absent /\ m["input"].released = d.ok
  BY <1>2, <1>3, <1>4
<1> QED BY <1>4, <1>6, <1>7 DEF m

\* The figures of the reconciliation are released where they are built only if the
\* invoice ties, and relabelled by the decision.
LEMMA ReconciliationFollows ==
  ASSUME NEW spend, NEW invoice, NEW d, Decides(d)
  PROVE  LET recon == Reconciliation(spend, invoice, d)
         IN  \A k \in DOMAIN recon : Follows(recon[k], d)
<1> DEFINE built(usd) == Release(Figure(usd, FALSE), d.ties, "not_tied", "reconciled")
           relabelled(figure) ==
             IF figure.released THEN Release(figure, TRUE, "", d.as) ELSE figure
<1>1. ASSUME NEW usd PROVE Follows(relabelled(built(usd)), d)
  <2> DEFINE b == built(usd)
  <2>0. IsFigure(Figure(usd, FALSE)) /\ d.ties \in BOOLEAN
    BY FigureIsFigure DEF Decides
  <2>1. IsFigure(b) /\ b.released = d.ties /\ (~d.ties => b.as = Blank) /\ d.ties \in BOOLEAN
    BY <2>0 DEF Release, IsFigure, Blank
  <2> HIDE DEF b
  <2>2. CASE d.ties = FALSE
    <3>1. IsFigure(b) /\ b.released = FALSE /\ b.as = Blank
      BY <2>1, <2>2
    <3>2. Follows(b, d)
      BY <3>1 DEF Follows, FollowsDecision
    <3>3. relabelled(b) = b
      BY <3>1
    <3> QED BY <3>2, <3>3 DEF b
  <2>3. CASE d.ties = TRUE
    <3> DEFINE r == Release(b, TRUE, Blank, d.as)
    <3>1. d.as # Blank /\ d.ok
      BY <2>3, LabelsAreNotBlank DEF Decides
    <3>2. IsFigure(r) /\ r.released = TRUE /\ r.as = d.as
      BY <2>1, <3>1 DEF Release, IsFigure, Blank
    <3>3. relabelled(b) = r
      BY <2>1, <2>3 DEF Blank
    <3> HIDE DEF r
    <3>4. Follows(r, d)
      BY <3>1, <3>2 DEF Follows, FollowsDecision
    <3> QED BY <3>3, <3>4 DEF b
  <2> QED BY <2>1, <2>2, <2>3
<1>2. \/ Reconciliation(spend, invoice, d) = <<>>
      \/ Reconciliation(spend, invoice, d) = <<relabelled(built(spend))>>
      \/ Reconciliation(spend, invoice, d)
           = <<relabelled(built(spend)), relabelled(built(spend - invoice))>>
  BY DEF Reconciliation
<1> HIDE DEF built, relabelled
<1> QED BY <1>1, <1>2

\* The total over the findings is released only if every part of it is.
LEMMA TotalFollows ==
  ASSUME AbsentIsNoFigure, NEW d, Decides(d), NEW findings, \A f \in findings : Follows(f.month, d)
  PROVE  Follows(TotalAvoidable(findings), d)
<1> DEFINE parts == {f \in findings : f.month # Absent /\ f.month.usd # 0}
           held  == {f \in parts : ~f.month.released}
<1>1. ASSUME NEW usd, NEW projected, NEW why
      PROVE  Follows(Release(Figure(usd, projected), FALSE, why, ""), d)
  <2> DEFINE r == Release(Figure(usd, projected), FALSE, why, "")
  <2>1. IsFigure(r) /\ r.released = FALSE /\ r.as = Blank
    BY FigureIsFigure, Withholding
  <2> HIDE DEF r
  <2>2. Follows(r, d)
    BY <2>1 DEF Follows, FollowsDecision
  <2> QED BY <2>2 DEF r
<1>2. CASE parts = {} \/ held # {}
  BY <1>1, <1>2 DEF TotalAvoidable
<1>3. CASE parts # {} /\ held = {}
  <2>1. \A f \in parts : f.month # Absent /\ f.month.released
    BY <1>3
  <2>2. \A f \in parts : d.ok /\ f.month.as = d.as
    BY <2>1 DEF Follows, FollowsDecision
  <2>3. (IF \E f \in parts : f.month.as = "draft" THEN "draft" ELSE "reconciled") = d.as
    BY <1>3, <2>2 DEF Decides
  <2> DEFINE r == Release(Figure(0, TRUE), TRUE, Blank, d.as)
  <2>4. TotalAvoidable(findings) = r
    BY <1>3, <2>3 DEF TotalAvoidable, Blank
  <2>a. IsFigure(Figure(0, TRUE)) /\ d.as # Blank
    BY FigureIsFigure, LabelsAreNotBlank DEF Decides
  <2>5. IsFigure(r) /\ r.released = TRUE /\ r.as = d.as
    BY <2>a, Relabelling
  <2> HIDE DEF r
  <2>6. d.ok
    BY <1>3, <2>2
  <2>7. Follows(r, d)
    BY <2>5, <2>6 DEF Follows, FollowsDecision
  <2> QED BY <2>4, <2>7
<1> QED BY <1>2, <1>3

\* The parts of an analysis.
AnalysisFollows(a, d) ==
  /\ DOMAIN a.spend = {"input", "uncached", "saved", "month"}
  /\ \A name \in DOMAIN a.spend : Follows(a.spend[name], d)
  /\ a.spend["input"] # Absent /\ (a.spend["input"].released <=> d.ok)
  /\ \A k \in DOMAIN a.recon : Follows(a.recon[k], d)
  /\ \A f \in a.findings : FindingFollows(f, d)

LEMMA AnalysisIsDecided ==
  ASSUME AbsentIsNoFigure, NEW setting, NEW invoice, NEW allow, NEW assumed
  PROVE  LET facts == Facts(setting)
             d == Decision(facts.spend, facts.blockers, invoice, allow, assumed)
         IN  Decides(d) /\ AnalysisFollows(Analysis(facts, invoice, allow, assumed), d)
<1> DEFINE facts == Facts(setting)
           d == Decision(facts.spend, facts.blockers, invoice, allow, assumed)
           a == Analysis(facts, invoice, allow, assumed)
<1>1. Decides(d)
  BY Decided DEF Decides
<1>2. \A q \in facts.findings : IsFinding(q) /\ MaybeFigure(q.window) /\ MaybeFigure(q.month)
  BY CostedFinding DEF Facts
<1>3. /\ a.spend = SpendMap(facts.spend, facts.uncached, facts.window, facts.supported, d)
      /\ a.recon = Reconciliation(facts.spend, invoice, d)
      /\ a.findings = {Publish(f, facts.doubt, d) : f \in facts.findings}
  BY DEF Analysis
<1> HIDE DEF facts, d, a
<1>4. \A f \in a.findings : FindingFollows(f, d)
  BY <1>1, <1>2, <1>3, PublishFollows
<1>5. \A k \in DOMAIN a.recon : Follows(a.recon[k], d)
  BY <1>1, <1>3, ReconciliationFollows
<1>6. /\ DOMAIN a.spend = {"input", "uncached", "saved", "month"}
      /\ \A name \in DOMAIN a.spend : Follows(a.spend[name], d)
      /\ a.spend["input"] # Absent /\ (a.spend["input"].released <=> d.ok)
  BY <1>1, <1>3, SpendFollows
<1>7. AnalysisFollows(a, d)
  BY <1>4, <1>5, <1>6 DEF AnalysisFollows
<1> QED BY <1>1, <1>7 DEF a, d, facts

\* Where no surface was named, every figure is a draft already, and stays so.
LEMMA DraftBecauseAssumedFollows ==
  ASSUME AbsentIsNoFigure, NEW a, NEW d, AnalysisFollows(a, d), d.as = "draft"
  PROVE  AnalysisFollows(DraftBecauseAssumed(a), d)
<1> DEFINE b == DraftBecauseAssumed(a)
<1>1. /\ b.spend = [name \in DOMAIN a.spend |-> Drafted(a.spend[name])]
      /\ b.recon = [k \in DOMAIN a.recon |-> Drafted(a.recon[k])]
      /\ b.findings = {[f EXCEPT !.month = Drafted(@)] : f \in a.findings}
  BY DEF DraftBecauseAssumed
<1> HIDE DEF b
<1>2. ASSUME NEW f \in a.findings PROVE FindingFollows([f EXCEPT !.month = Drafted(@)], d)
  <2> DEFINE g == [f EXCEPT !.month = Drafted(@)]
  <2>1. IsFinding(f) /\ Follows(f.window, d) /\ Follows(f.month, d)
    BY <1>2 DEF AnalysisFollows, FindingFollows
  <2>2. IsFinding(g) /\ g.window = f.window /\ g.month = Drafted(f.month)
    BY <2>1 DEF IsFinding
  <2> HIDE DEF g
  <2>3. FindingFollows(g, d)
    BY <2>1, <2>2, DraftedFollows DEF FindingFollows
  <2> QED BY <2>3 DEF g
<1>3. \A f \in b.findings : FindingFollows(f, d)
  BY <1>1, <1>2
<1>4. \A k \in DOMAIN b.recon : Follows(b.recon[k], d)
  BY <1>1, DraftedFollows DEF AnalysisFollows
<1>5. DOMAIN b.spend = DOMAIN a.spend /\ \A name \in DOMAIN b.spend : Follows(b.spend[name], d)
  BY <1>1, DraftedFollows DEF AnalysisFollows
<1>6. b.spend["input"] # Absent /\ (b.spend["input"].released <=> d.ok)
  <2> DEFINE i == a.spend["input"]
  <2>1. Follows(i, d) /\ i # Absent /\ (i.released <=> d.ok) /\ b.spend["input"] = Drafted(i)
    BY <1>1 DEF AnalysisFollows
  <2> HIDE DEF i
  <2>2. IsFigure(i)
    BY <2>1 DEF Follows
  <2>3. CASE i.released
    <3>1. Drafted(i) = Release(i, TRUE, Blank, "draft")
      BY <2>1, <2>3 DEF Drafted, Blank
    <3>2. IsFigure(Release(i, TRUE, Blank, "draft")) /\ Release(i, TRUE, Blank, "draft").released = TRUE
      BY <2>2, LabelsAreNotBlank, Relabelling
    <3> QED BY <2>1, <2>3, <3>1, <3>2 DEF AbsentIsNoFigure
  <2>4. CASE ~i.released
    BY <2>1, <2>4 DEF Drafted
  <2> QED BY <2>3, <2>4
<1> QED BY <1>1, <1>3, <1>4, <1>5, <1>6 DEF AnalysisFollows, b

\* What is printed is an analysis that follows one decision.
ReportFollows(report, d) ==
  /\ Decides(d) /\ AnalysisFollows(report, d) /\ Follows(report.total, d)
  /\ d.as = "reconciled" =>
       /\ d.ties /\ ~report.setting.assumed
       /\ report.invoice # Absent /\ InvoiceFault(report.invoice) = Blank
  /\ report.draft <=> \E name \in DOMAIN report.spend :
                        report.spend[name] # Absent /\ report.spend[name].as = "draft"

LEMMA PrintedFollows ==
  ASSUME AbsentIsNoFigure, NEW setting, NEW invoice, NEW allow
  PROVE  \E d : ReportFollows(Printed(setting, invoice, allow, Facts(setting)), d)
<1> DEFINE facts  == Facts(setting)
           d      == Decision(facts.spend, facts.blockers, invoice, allow, setting.assumed)
           plain  == Analysis(facts, invoice, allow, setting.assumed)
           a      == IF setting.assumed THEN DraftBecauseAssumed(plain) ELSE plain
           report == Printed(setting, invoice, allow, facts)
<1>1. Decides(d) /\ AnalysisFollows(plain, d)
  BY AnalysisIsDecided
<1>2. d.as = "reconciled" =>
        d.ties /\ ~setting.assumed /\ invoice # Absent /\ InvoiceFault(invoice) = Blank
  BY Decided
<1>3. /\ report.setting = setting /\ report.invoice = invoice
      /\ report.spend = a.spend /\ report.recon = a.recon /\ report.findings = a.findings
      /\ report.total = TotalAvoidable(a.findings)
      /\ report.draft <=> \E name \in DOMAIN a.spend : a.spend[name] # Absent
                                                      /\ a.spend[name].as = "draft"
  BY DEF Printed
<1> HIDE DEF facts, d, plain, report
<1>4. AnalysisFollows(a, d)
  <2>1. CASE setting.assumed
    <3>1. d.as = "draft"
      BY <1>1, <1>2, <2>1 DEF Decides
    <3> QED BY <1>1, <2>1, <3>1, DraftBecauseAssumedFollows
  <2>2. CASE ~setting.assumed
    BY <1>1, <2>2
  <2> QED BY <2>1, <2>2
<1> HIDE DEF a
<1>5. Follows(report.total, d)
  BY <1>1, <1>3, <1>4, TotalFollows DEF AnalysisFollows, FindingFollows
<1>6. AnalysisFollows(report, d)
  BY <1>3, <1>4 DEF AnalysisFollows
<1>7. ReportFollows(report, d)
  BY <1>1, <1>2, <1>3, <1>5, <1>6 DEF ReportFollows
<1> QED BY <1>7 DEF report, facts

\* A report that follows a decision has one provenance.
LEMMA FollowingIsOneProvenance ==
  ASSUME AbsentIsNoFigure, NEW d, ReportFollows(shown, d)
  PROVE  OneProvenance
<1> DEFINE figures   == FiguresOf(shown)
           published == {f.as : f \in {g \in figures : g.released}}
<1>1. \A g \in figures : g # Absent /\ Follows(g, d)
  BY DEF FiguresOf, ReportFollows, AnalysisFollows, FindingFollows
<1>2. \A x \in published : x = d.as /\ d.ok
  BY <1>1 DEF Follows, FollowsDecision
<1>3. Cardinality(published) <= 1
  <2>1. CASE published = {}
    BY <2>1, FS_EmptySet
  <2>2. CASE published # {}
    <3>1. published = {d.as}
      BY <1>2, <2>2
    <3>2. Cardinality({d.as}) = 1
      BY FS_Singleton
    <3> HIDE DEF published
    <3> QED BY <3>1, <3>2
  <2> QED BY <2>1, <2>2
<1>4. /\ "input" \in DOMAIN shown.spend /\ shown.spend["input"] # Absent
      /\ Follows(shown.spend["input"], d) /\ (shown.spend["input"].released <=> d.ok)
      /\ \A name \in DOMAIN shown.spend : Follows(shown.spend[name], d)
  BY DEF ReportFollows, AnalysisFollows
<1>5. \A name \in DOMAIN shown.spend : shown.spend[name] # Absent => shown.spend[name] \in figures
  BY DEF FiguresOf
<1>6. "reconciled" \in published =>
        /\ InvoiceFault(shown.invoice) = "" /\ shown.invoice # Absent
        /\ ~shown.setting.assumed
        /\ shown.spend["input"].released
  BY <1>2, <1>4 DEF ReportFollows, Blank
<1>7. (\E name \in DOMAIN shown.spend : shown.spend[name] # Absent /\ shown.spend[name].as = "draft")
        => "draft" \in published
  <2> SUFFICES ASSUME NEW name \in DOMAIN shown.spend, shown.spend[name] # Absent,
                      shown.spend[name].as = "draft"
               PROVE  "draft" \in published
    OBVIOUS
  <2>1. shown.spend[name].released
    BY <1>4, LabelsAreNotBlank DEF Follows, FollowsDecision
  <2> QED BY <1>5, <2>1
<1>8. "draft" \in published
        => \E name \in DOMAIN shown.spend : shown.spend[name] # Absent /\ shown.spend[name].as = "draft"
  <2> SUFFICES ASSUME "draft" \in published
               PROVE  shown.spend["input"].as = "draft"
    BY <1>4
  <2>1. d.as = "draft" /\ d.ok
    BY <1>2
  <2> QED BY <1>4, <2>1 DEF Follows, FollowsDecision
<1>9. shown.draft <=> "draft" \in published
  BY <1>7, <1>8 DEF ReportFollows
<1> HIDE DEF figures
<1> QED BY <1>3, <1>6, <1>9 DEF OneProvenance, figures

ReportInv == shown.kind = "report" => \E d : ReportFollows(shown, d)

\* The other commands print no report.
LEMMA OthersPublishNothing ==
  ASSUME NEW setting, Refuse(setting) \/ Crash(setting) \/ BakeOffAll(setting)
                        \/ BakeOffByAgent(setting)
  PROVE  shown'.kind # "report"
<1>1. CASE Refuse(setting) \/ Crash(setting)
  BY <1>1 DEF Refuse, Crash
<1>2. CASE BakeOffAll(setting)
  <2>1. \E results : shown' = [kind |-> "bakeoff", setting |-> setting, results |-> results]
    BY <1>2, Zenon DEF BakeOffAll
  <2> QED BY <2>1
<1>3. CASE BakeOffByAgent(setting)
  <2>1. \E results : shown' = [kind |-> "by_agent", setting |-> setting, results |-> results]
    BY <1>3, Zenon DEF BakeOffByAgent
  <2> QED BY <2>1
<1> QED BY <1>1, <1>2, <1>3

\* One report never calls one of its figures reconciled and another a draft, calls them
\* reconciled only with an invoice that ties and a named surface, and carries the
\* banner exactly when a figure is a draft: for any export, rules and invoice.
THEOREM FiguresAgree == ASSUME AbsentIsNoFigure PROVE Spec => []OneProvenance
<1>1. Init => ReportInv
  BY DEF Init, ReportInv, Nothing
<1>2. ReportInv /\ [Next]_<<export, shown>> => ReportInv'
  <2> SUFFICES ASSUME ReportInv, [Next]_<<export, shown>> PROVE ReportInv'
    OBVIOUS
  <2>1. CASE shown' = shown
    BY <2>1 DEF ReportInv
  <2>2. ASSUME NEW setting, Report(setting) PROVE ReportInv'
    <3>1. PICK invoice, allow : shown' = Printed(setting, invoice, allow, Facts(setting))
      BY <2>2 DEF Report
    <3> QED BY <3>1, PrintedFollows DEF ReportInv
  <2>3. CASE shown'.kind # "report"
    BY <2>3 DEF ReportInv
  <2> QED BY <2>1, <2>2, <2>3, OthersPublishNothing DEF Next, Write
<1>3. ReportInv => OneProvenance
  <2>1. CASE shown.kind # "report"
    <3>1. ~Publishes("report")
      BY <2>1 DEF Publishes
    <3> QED BY <3>1 DEF OneProvenance
  <2>2. CASE shown.kind = "report" /\ ReportInv
    <3>1. PICK d : ReportFollows(shown, d)
      BY <2>2 DEF ReportInv
    <3> QED BY <3>1, FollowingIsOneProvenance
  <2> QED BY <2>1, <2>2
<1> QED BY <1>1, <1>2, <1>3, PTL DEF Spec

-----------------------------------------------------------------------------
(* Sums over the rows of a file.                                                 *)

LEMMA UpToInduction ==
  ASSUME NEW bound \in Nat, NEW S, 0 \in S,
         \A n \in 0 .. bound - 1 : n \in S => n + 1 \in S
  PROVE  0 .. bound \subseteq S
<1> DEFINE Missing == (0 .. bound) \ S
<1> SUFFICES ASSUME Missing # {} PROVE FALSE
  OBVIOUS
<1>0. Missing \subseteq Nat
  OBVIOUS
<1>1. PICK m \in Missing : \A k \in Missing : <<k, m>> \notin OpToRel(<, Nat)
  <2> HIDE DEF Missing
  <2> QED BY <1>0, NatLessThanWellFounded, WFMin
<1>2. m - 1 \in Missing
  OBVIOUS
<1>3. <<m - 1, m>> \in OpToRel(<, Nat)
  BY <1>2 DEF OpToRel
<1> QED
  BY <1>1, <1>2, <1>3

\* The recursive function of SumTo.
IsTotal(f, terms, n) ==
  f = [i \in 0 .. n |-> IF i = 0 THEN 0 ELSE f[i - 1] + terms[i]]

LEMMA TotalExists ==
  ASSUME NEW g, NEW n \in Nat
  PROVE  \E f : IsTotal(f, g, n)
<1> DEFINE Reached == {k \in 0 .. n : \E f : IsTotal(f, g, k)}
<1>1. 0 \in Reached
  <2> DEFINE f == [k \in 0 .. 0 |-> 0]
  <2>1. IsTotal(f, g, 0)
    BY DEF IsTotal
  <2> QED
    BY <2>1
<1>2. ASSUME NEW k \in 0 .. n - 1, k \in Reached PROVE k + 1 \in Reached
  <2>1. PICK f : IsTotal(f, g, k)
    BY <1>2
  <2> DEFINE h == [j \in 0 .. k + 1 |-> IF j = k + 1 THEN f[k] + g[k + 1] ELSE f[j]]
  <2>2. ASSUME NEW j \in 0 .. k + 1
        PROVE  h[j] = IF j = 0 THEN 0 ELSE h[j - 1] + g[j]
    <3>1. CASE j = k + 1
      BY <3>1
    <3>2. CASE j # k + 1
      <4>1. j \in 0 .. k /\ h[j] = f[j]
        BY <3>2
      <4>2. f[j] = IF j = 0 THEN 0 ELSE f[j - 1] + g[j]
        BY <4>1, <2>1 DEF IsTotal
      <4>3. j # 0 => h[j - 1] = f[j - 1]
        BY <4>1
      <4> QED
        BY <4>1, <4>2, <4>3
    <3> QED
      BY <3>1, <3>2
  <2>3. h = [j \in 0 .. k + 1 |-> h[j]]
    OBVIOUS
  <2>4. IsTotal(h, g, k + 1)
    <3> HIDE DEF h
    <3> QED BY <2>2, <2>3 DEF IsTotal
  <2> HIDE DEF h
  <2> QED
    BY <2>4
<1>3. 0 .. n \subseteq Reached
  <2> HIDE DEF Reached
  <2> QED BY <1>1, <1>2, UpToInduction
<1> QED
  BY <1>3

\* What is smaller row by row has the smaller sum.
LEMMA TotalsCompare ==
  ASSUME NEW n \in Nat, NEW g, NEW h, NEW x, NEW y, IsTotal(x, g, n), IsTotal(y, h, n),
         \A i \in 1 .. n : g[i] \in Nat /\ h[i] \in Nat /\ g[i] <= h[i]
  PROVE  x[n] \in Nat /\ y[n] \in Nat /\ x[n] <= y[n]
<1> DEFINE Reached == {k \in 0 .. n : x[k] \in Nat /\ y[k] \in Nat /\ x[k] <= y[k]}
<1>1. 0 \in Reached
  BY DEF IsTotal
<1>2. ASSUME NEW k \in 0 .. n - 1, k \in Reached PROVE k + 1 \in Reached
  <2>1. x[k + 1] = x[k] + g[k + 1] /\ y[k + 1] = y[k] + h[k + 1]
    BY DEF IsTotal
  <2>2. g[k + 1] \in Nat /\ h[k + 1] \in Nat /\ g[k + 1] <= h[k + 1]
    OBVIOUS
  <2>3. k + 1 \in 0 .. n /\ x[k] \in Nat /\ y[k] \in Nat /\ x[k] <= y[k]
    BY <1>2
  <2>4. x[k + 1] \in Nat /\ y[k + 1] \in Nat /\ x[k + 1] <= y[k + 1]
    BY <2>1, <2>2, <2>3
  <2> QED
    BY <2>3, <2>4
<1>3. 0 .. n \subseteq Reached
  <2> HIDE DEF Reached
  <2> QED BY <1>1, <1>2, UpToInduction
<1> QED
  BY <1>3

LEMMA SumsCompare ==
  ASSUME NEW n \in Nat, NEW g, NEW h,
         \A i \in 1 .. n : g[i] \in Nat /\ h[i] \in Nat /\ g[i] <= h[i]
  PROVE  SumTo(n, g) \in Nat /\ SumTo(n, h) \in Nat /\ SumTo(n, g) <= SumTo(n, h)
<1>1. PICK x : x = (CHOOSE f : IsTotal(f, g, n)) /\ IsTotal(x, g, n)
  BY TotalExists
<1>2. PICK y : y = (CHOOSE f : IsTotal(f, h, n)) /\ IsTotal(y, h, n)
  BY TotalExists
<1>3. SumTo(n, g) = x[n] /\ SumTo(n, h) = y[n]
  BY <1>1, <1>2, Zenon DEF SumTo, IsTotal
<1>4. x[n] \in Nat /\ y[n] \in Nat /\ x[n] <= y[n]
  BY <1>1, <1>2, TotalsCompare
<1> QED
  BY <1>3, <1>4

\* The bill of the rows of a set: of more rows that cost money, it is no smaller.
LEMMA BillsCompare ==
  ASSUME NEW n \in Nat, NEW rows, Len(rows) = n, DOMAIN rows = 1 .. n,
         \A i \in 1 .. n : BilledInput(rows[i].usage) \in Nat,
         NEW S, NEW T,
         \A i \in 1 .. n : i \in S /\ BilledInput(rows[i].usage) # 0 => i \in T
  PROVE  BilledTo(S, rows) \in Nat /\ BilledTo(T, rows) \in Nat
           /\ BilledTo(S, rows) <= BilledTo(T, rows)
<1> DEFINE g == [i \in DOMAIN rows |-> IF i \in S THEN BilledInput(rows[i].usage) ELSE 0]
           h == [i \in DOMAIN rows |-> IF i \in T THEN BilledInput(rows[i].usage) ELSE 0]
<1>1. \A i \in 1 .. n : g[i] \in Nat /\ h[i] \in Nat /\ g[i] <= h[i]
  OBVIOUS
<1>2. BilledTo(S, rows) = SumTo(n, g) /\ BilledTo(T, rows) = SumTo(n, h)
  BY DEF BilledTo
<1> HIDE DEF g, h
<1> QED
  BY <1>1, <1>2, SumsCompare

\* The bill does not look at anything but the counters.
LEMMA BillsAgree ==
  ASSUME NEW n \in Nat, NEW rows, Len(rows) = n, DOMAIN rows = 1 .. n,
         NEW requests, Len(requests) = n, DOMAIN requests = 1 .. n,
         \A i \in 1 .. n : requests[i].usage = rows[i].usage, NEW S
  PROVE  BilledTo(S, requests) = BilledTo(S, rows)
<1>1. [i \in DOMAIN requests |-> IF i \in S THEN BilledInput(requests[i].usage) ELSE 0]
        = [i \in DOMAIN rows |-> IF i \in S THEN BilledInput(rows[i].usage) ELSE 0]
  OBVIOUS
<1> QED
  BY <1>1, Zenon DEF BilledTo

-----------------------------------------------------------------------------
(* The rows of an export.                                                        *)

\* The recursive function of Keep.
IsKeeping(f, s, S, n) ==
  f = [i \in 0 .. n |-> IF i = 0 THEN <<>>
                        ELSE IF i \in S THEN Append(f[i - 1], s[i]) ELSE f[i - 1]]

LEMMA KeepingExists ==
  ASSUME NEW s, NEW S, NEW n \in Nat
  PROVE  \E f : IsKeeping(f, s, S, n)
<1> DEFINE Reached == {k \in 0 .. n : \E f : IsKeeping(f, s, S, k)}
           next(i, kept) == IF i \in S THEN Append(kept, s[i]) ELSE kept
<1>1. 0 \in Reached
  <2> DEFINE f == [k \in 0 .. 0 |-> <<>>]
  <2>1. IsKeeping(f, s, S, 0)
    BY DEF IsKeeping
  <2> QED
    BY <2>1
<1>0. ASSUME NEW f, NEW k
      PROVE  IsKeeping(f, s, S, k) <=> f = [i \in 0 .. k |-> IF i = 0 THEN <<>> ELSE next(i, f[i - 1])]
  BY DEF IsKeeping
<1> HIDE DEF next
<1>2. ASSUME NEW k \in 0 .. n - 1, k \in Reached PROVE k + 1 \in Reached
  <2>1. PICK f : f = [i \in 0 .. k |-> IF i = 0 THEN <<>> ELSE next(i, f[i - 1])]
    BY <1>0, <1>2
  <2> DEFINE h == [j \in 0 .. k + 1 |-> IF j = k + 1 THEN next(k + 1, f[k]) ELSE f[j]]
  <2>2. ASSUME NEW j \in 0 .. k + 1
        PROVE  h[j] = IF j = 0 THEN <<>> ELSE next(j, h[j - 1])
    <3>1. CASE j = k + 1
      BY <3>1
    <3>2. CASE j # k + 1
      <4>1. j \in 0 .. k /\ h[j] = f[j]
        BY <3>2
      <4>2. f[j] = IF j = 0 THEN <<>> ELSE next(j, f[j - 1])
        BY <4>1, <2>1
      <4>3. j # 0 => h[j - 1] = f[j - 1]
        BY <4>1
      <4> QED
        BY <4>1, <4>2, <4>3
    <3> QED
      BY <3>1, <3>2
  <2>3. h = [j \in 0 .. k + 1 |-> h[j]]
    OBVIOUS
  <2>4. h = [j \in 0 .. k + 1 |-> IF j = 0 THEN <<>> ELSE next(j, h[j - 1])]
    <3> HIDE DEF h
    <3> QED BY <2>2, <2>3
  <2>5. IsKeeping(h, s, S, k + 1)
    <3> HIDE DEF h
    <3> QED BY <1>0, <2>4, Zenon
  <2> HIDE DEF h
  <2> QED
    BY <2>5
<1>3. 0 .. n \subseteq Reached
  <2> HIDE DEF Reached
  <2> QED BY <1>1, <1>2, UpToInduction
<1> QED
  BY <1>3

\* What is kept: elements of s, no more of them than s has; each one of S is kept; and
\* if they are as many, they are all of s.
IsKept(kept, s, S, n) ==
  /\ kept \in Seq({s[k] : k \in 1 .. n}) /\ Len(kept) <= n
  /\ \A j \in 1 .. Len(kept) : \E k \in 1 .. n : k \in S /\ kept[j] = s[k]
  /\ \A k \in 1 .. n : k \in S => \E j \in 1 .. Len(kept) : kept[j] = s[k]
  /\ Len(kept) = n => \A k \in 1 .. n : k \in S /\ kept[k] = s[k]

LEMMA KeepsOne ==
  ASSUME NEW n \in Nat, NEW s, NEW S, NEW kept, IsKept(kept, s, S, n), n + 1 \in S
  PROVE  IsKept(Append(kept, s[n + 1]), s, S, n + 1)
<1> DEFINE more  == Append(kept, s[n + 1])
           Below == {s[k] : k \in 1 .. n}
           Upto  == {s[k] : k \in 1 .. n + 1}
<1>1. Below \subseteq Upto /\ s[n + 1] \in Upto
  OBVIOUS
<1>2. kept \in Seq(Below) /\ Len(kept) \in Nat /\ Len(kept) <= n
  BY DEF IsKept
<1> HIDE DEF Below, Upto
<1>3. kept \in Seq(Upto)
  BY <1>1, <1>2
<1>4. /\ more \in Seq(Upto) /\ Len(more) = Len(kept) + 1 /\ more[Len(kept) + 1] = s[n + 1]
      /\ \A j \in 1 .. Len(kept) : more[j] = kept[j]
  BY <1>1, <1>3
<1> HIDE DEF more
<1>5. ASSUME NEW j \in 1 .. Len(more)
      PROVE  \E k \in 1 .. n + 1 : k \in S /\ more[j] = s[k]
  <2>1. CASE j = Len(kept) + 1
    BY <1>4, <2>1
  <2>2. CASE j # Len(kept) + 1
    <3>1. j \in 1 .. Len(kept)
      BY <1>2, <1>4, <2>2
    <3>2. PICK k \in 1 .. n : k \in S /\ kept[j] = s[k]
      BY <3>1 DEF IsKept
    <3> QED BY <1>4, <3>1, <3>2
  <2> QED BY <2>1, <2>2
<1>6. ASSUME NEW k \in 1 .. n + 1, k \in S
      PROVE  \E j \in 1 .. Len(more) : more[j] = s[k]
  <2>1. CASE k = n + 1
    BY <1>2, <1>4, <2>1
  <2>2. CASE k # n + 1
    <3>1. k \in 1 .. n
      BY <2>2
    <3>2. PICK j \in 1 .. Len(kept) : kept[j] = s[k]
      BY <1>6, <3>1 DEF IsKept
    <3> QED BY <1>2, <1>4, <3>2
  <2> QED BY <2>1, <2>2
<1>7. ASSUME Len(more) = n + 1, NEW k \in 1 .. n + 1
      PROVE  k \in S /\ more[k] = s[k]
  <2>1. Len(kept) = n
    BY <1>2, <1>4, <1>7
  <2>2. \A j \in 1 .. n : j \in S /\ kept[j] = s[j]
    BY <2>1 DEF IsKept
  <2>3. CASE k = n + 1
    BY <1>4, <2>1, <2>3
  <2>4. CASE k # n + 1
    BY <1>4, <2>1, <2>2, <2>4
  <2> QED BY <2>3, <2>4
<1>8. more \in Seq(Upto) /\ Len(more) <= n + 1
  BY <1>2, <1>4
<1>9. IsKept(more, s, S, n + 1)
  BY <1>5, <1>6, <1>7, <1>8 DEF IsKept, Upto
<1> QED BY <1>9 DEF more

LEMMA KeepsNone ==
  ASSUME NEW n \in Nat, NEW s, NEW S, NEW kept, IsKept(kept, s, S, n), n + 1 \notin S
  PROVE  IsKept(kept, s, S, n + 1)
<1> DEFINE Below == {s[k] : k \in 1 .. n}
           Upto  == {s[k] : k \in 1 .. n + 1}
<1>1. Below \subseteq Upto
  OBVIOUS
<1>2. kept \in Seq(Below) /\ Len(kept) \in Nat /\ Len(kept) <= n
  BY DEF IsKept
<1> HIDE DEF Below, Upto
<1>3. kept \in Seq(Upto) /\ Len(kept) <= n + 1 /\ Len(kept) # n + 1
  BY <1>1, <1>2
<1>4. \A j \in 1 .. Len(kept) : \E k \in 1 .. n + 1 : k \in S /\ kept[j] = s[k]
  BY DEF IsKept
<1>5. \A k \in 1 .. n + 1 : k \in S => k \in 1 .. n
  OBVIOUS
<1>6. \A k \in 1 .. n + 1 : k \in S => \E j \in 1 .. Len(kept) : kept[j] = s[k]
  BY <1>5 DEF IsKept
<1> QED
  BY <1>3, <1>4, <1>6 DEF IsKept, Upto

LEMMA KeepKeeps ==
  ASSUME NEW n \in Nat, NEW s, Len(s) = n, NEW S
  PROVE  IsKept(Keep(s, S), s, S, n)
<1>1. PICK f : f = (CHOOSE c : IsKeeping(c, s, S, n)) /\ IsKeeping(f, s, S, n)
  BY KeepingExists
<1>2. Keep(s, S) = f[n]
  BY <1>1, Zenon DEF Keep, IsKeeping
<1> DEFINE next(i, kept) == IF i \in S THEN Append(kept, s[i]) ELSE kept
<1>a. f = [i \in 0 .. n |-> IF i = 0 THEN <<>> ELSE next(i, f[i - 1])]
  BY <1>1 DEF IsKeeping
<1> HIDE DEF next
<1>b. f[0] = <<>> /\ \A k \in 0 .. n - 1 : f[k + 1] = next(k + 1, f[k])
  <2>1. f[0] = <<>>
    BY <1>a
  <2>2. ASSUME NEW k \in 0 .. n - 1 PROVE f[k + 1] = next(k + 1, f[k])
    <3>1. k + 1 \in 0 .. n /\ k + 1 # 0 /\ (k + 1) - 1 = k
      OBVIOUS
    <3> QED BY <3>1, <1>a
  <2> QED BY <2>1, <2>2
<1> DEFINE Reached == {k \in 0 .. n : IsKept(f[k], s, S, k)}
<1>3. 0 \in Reached
  <2>1. IsKept(<<>>, s, S, 0)
    BY DEF IsKept
  <2> QED BY <1>b, <2>1
<1>4. ASSUME NEW k \in 0 .. n - 1, k \in Reached PROVE k + 1 \in Reached
  <2>1. IsKept(f[k], s, S, k) /\ k \in Nat /\ k + 1 \in 0 .. n
    BY <1>4
  <2>2. CASE k + 1 \in S
    <3>1. f[k + 1] = Append(f[k], s[k + 1])
      BY <1>b, <2>2 DEF next
    <3> QED BY <2>1, <2>2, <3>1, KeepsOne
  <2>3. CASE k + 1 \notin S
    <3>1. f[k + 1] = f[k]
      BY <1>b, <2>3 DEF next
    <3> QED BY <2>1, <2>3, <3>1, KeepsNone
  <2> QED BY <2>2, <2>3
<1>5. 0 .. n \subseteq Reached
  <2> HIDE DEF Reached
  <2> QED BY <1>3, <1>4, UpToInduction
<1> QED
  BY <1>2, <1>5

\* What is read are lines of the file that are not Unreadable; none was skipped if they
\* are as many.
LEMMA ReadableAreRows ==
  ASSUME NEW n \in Nat, NEW lines, Len(lines) = n, DOMAIN lines = 1 .. n
  PROVE  LET rows == Readable(lines)
         IN  /\ Len(rows) \in Nat /\ DOMAIN rows = 1 .. Len(rows) /\ Len(rows) <= n
             /\ \A i \in 1 .. Len(rows) :
                  \E k \in 1 .. n : lines[k] # Unreadable /\ rows[i] = lines[k]
             /\ Len(rows) = n
                  => \A k \in 1 .. n : lines[k] # Unreadable /\ rows[k] = lines[k]
<1> DEFINE S    == {k \in DOMAIN lines : lines[k] # Unreadable}
           rows == Keep(lines, S)
<1>1. IsKept(rows, lines, S, n)
  BY KeepKeeps
<1>2. Readable(lines) = rows
  BY DEF Readable
<1> HIDE DEF rows
<1>3. rows \in Seq({lines[k] : k \in 1 .. n}) /\ Len(rows) <= n
  BY <1>1 DEF IsKept
<1>4. Len(rows) \in Nat /\ DOMAIN rows = 1 .. Len(rows)
  BY <1>3
<1>5. \A k \in 1 .. n : k \in S <=> lines[k] # Unreadable
  OBVIOUS
<1> HIDE DEF S
<1>6. \A i \in 1 .. Len(rows) : \E k \in 1 .. n : lines[k] # Unreadable /\ rows[i] = lines[k]
  BY <1>1, <1>5 DEF IsKept
<1>7. Len(rows) = n => \A k \in 1 .. n : lines[k] # Unreadable /\ rows[k] = lines[k]
  BY <1>1, <1>5 DEF IsKept
<1> QED
  BY <1>2, <1>3, <1>4, <1>6, <1>7

LEMMA RowsBill ==
  ASSUME NEW row, IsRow(row)
  PROVE  BilledInput(row.usage) \in Nat
<1> DEFINE u == row.usage
<1>1. \A v \in {u.input, u.read, u.created, u.m5, u.h1, u.other} : Valid(v) \in Nat
  BY DEF IsRow, Valid, TokenCount
<1>2. Split(u) \in Nat
  BY <1>1 DEF Split
<1>3. Valid(WriteTokens(u)) \in Nat
  <2>1. WriteTokens(u) = Split(u) \/ WriteTokens(u) = u.created
    BY DEF WriteTokens
  <2>2. Valid(Split(u)) \in Nat
    BY <1>2 DEF Valid
  <2> QED BY <1>1, <2>1, <2>2
<1> QED
  BY <1>1, <1>3 DEF BilledInput

LEMMA RequestOfRow ==
  ASSUME NEW row, IsRow(row), NEW kept, NEW target
  PROVE  LET request == RequestFromRow(row, kept, target)
         IN  /\ request.usage = row.usage /\ request.status = row.status
             /\ request.agent = row.agent /\ request.sent = row.sent
             /\ row.segments = <<>> => request.segments = <<>>
BY DEF RequestFromRow, IsRow

-----------------------------------------------------------------------------
(* Money for a structural finding.                                               *)

LEMMA NoDoubt ==
  ASSUME NEW trace, StructureDoubt(trace) = Blank
  PROVE  /\ trace.publishable /\ trace.tier = "instrumented" /\ trace.counted
         /\ ~ (CoveredBilled(trace.requests) < StructureFloor)
BY Zenon DEF StructureDoubt, Blank

\* A structure without doubt was identified, row by row of agreeing size.
LEMMA InstrumentedIs ==
  ASSUME NEW rows, TierOf(rows) = "instrumented"
  PROVE  StructureKept(rows) /\ Unidentified(rows) = {}
BY DEF TierOf, HasIds

LEMMA SegmentsAreIdentified ==
  ASSUME NEW rows, Unidentified(rows) = {}
  PROVE  \A i \in DOMAIN rows : \A k \in DOMAIN rows[i].segments : Identified(rows[i].segments[k])
BY DEF Unidentified, SegmentsOf

\* Shares of shares.
LEMMA ShareOfTheBill ==
  ASSUME NEW total \in Nat, NEW seen \in Nat, NEW floor \in Nat, total # 0,
         ~ ((100 * seen) \div total < floor)
  PROVE  floor * total <= 100 * seen
<1> DEFINE q == (100 * seen) \div total
<1>1. q \in Int /\ q * total <= 100 * seen
  OBVIOUS
<1>2. floor <= q
  BY <1>1
<1> HIDE DEF q
<1>3. floor * total <= q * total
  BY <1>1, <1>2
<1>4. floor * total \in Int /\ q * total \in Int /\ 100 * seen \in Int
  BY <1>1
<1> QED
  BY <1>1, <1>3, <1>4

LEMMA ShareOfAShare ==
  ASSUME NEW total \in Nat, NEW seen \in Nat, NEW counted \in Nat, NEW a \in Nat, NEW b \in Nat,
         a * total <= 100 * seen, b * seen <= 100 * counted
  PROVE  a * b * total <= 10000 * counted
<1>1. b * (a * total) <= b * (100 * seen)
  OBVIOUS
<1>2. b * (100 * seen) = 100 * (b * seen)
  OBVIOUS
<1>3. 100 * (b * seen) <= 100 * (100 * counted)
  OBVIOUS
<1>4. a * b * total = b * (a * total)
  OBVIOUS
<1>5. b * (a * total) \in Int /\ b * (100 * seen) \in Int /\ b * seen \in Int
  OBVIOUS
<1> QED
  BY <1>1, <1>2, <1>3, <1>4, <1>5

\* A trace without doubt: the rows that are sound bear a share of the share of the bill
\* that its segments cover.
LEMMA LoadedIsCounted ==
  ASSUME NEW n \in Nat, NEW lines, Len(lines) = n, DOMAIN lines = 1 .. n,
         \A k \in 1 .. n : lines[k] # Unreadable => IsRow(lines[k]),
         StructureFloor \in Nat, CountedFloor \in Nat,
         NEW target, StructureDoubt(Load(lines, target)) = Blank
  PROVE  LET rows == Readable(lines)
         IN  10000 * BilledTo(Sound(rows), rows)
               >= StructureFloor * CountedFloor * BilledTo(DOMAIN rows, rows)
<1> DEFINE rows     == Readable(lines)
           m        == Len(rows)
           kept     == StructureKept(rows)
           trace    == Load(lines, target)
           requests == [i \in DOMAIN rows |-> RequestFromRow(rows[i], kept, target)]
           Counting == {i \in WithSegments(rows) : Counted(rows[i])}
<1>1. m \in Nat /\ Len(rows) = m /\ DOMAIN rows = 1 .. m /\ \A i \in 1 .. m : IsRow(rows[i])
  <2>1. /\ m \in Nat /\ DOMAIN rows = 1 .. m
        /\ \A i \in 1 .. m : \E k \in 1 .. n : lines[k] # Unreadable /\ rows[i] = lines[k]
    BY ReadableAreRows
  <2> HIDE DEF rows
  <2> QED BY <2>1
<1>2. /\ trace.requests = requests /\ trace.tier = TierOf(rows)
      /\ trace.publishable = (kept => \A i \in DOMAIN rows : Publishable(rows[i]))
      /\ trace.counted = MostlyCounted(rows)
  BY DEF Load
<1> HIDE DEF trace
<1>3. /\ trace.publishable /\ trace.tier = "instrumented" /\ trace.counted
      /\ ~ (CoveredBilled(trace.requests) < StructureFloor)
  BY NoDoubt DEF trace
<1>4. kept /\ Unidentified(rows) = {}
  BY <1>2, <1>3, InstrumentedIs
<1>5. /\ \A i \in DOMAIN rows : Publishable(rows[i])
      /\ \A i \in DOMAIN rows : \A k \in DOMAIN rows[i].segments : Identified(rows[i].segments[k])
      /\ MostlyCounted(rows) /\ ~ (CoveredBilled(requests) < StructureFloor)
  BY <1>2, <1>3, <1>4, SegmentsAreIdentified
<1> HIDE DEF kept, rows
<1>6. \A i \in 1 .. m : BilledInput(rows[i].usage) \in Nat
  BY <1>1, RowsBill
<1>7. /\ Len(requests) = m /\ DOMAIN requests = 1 .. m
      /\ \A i \in 1 .. m : requests[i].usage = rows[i].usage
      /\ \A i \in 1 .. m : rows[i].segments = <<>> => requests[i].segments = <<>>
  BY <1>1, RequestOfRow
<1> HIDE DEF requests
<1>8. WithSegments(requests) \subseteq WithSegments(rows)
  BY <1>1, <1>7 DEF WithSegments
<1>9. \A i \in 1 .. m : i \in Counting /\ BilledInput(rows[i].usage) # 0 => i \in Sound(rows)
  BY <1>1, <1>5, <1>6 DEF WithSegments, Counted, Comparable, Sound
<1>10. PICK total, seen, counted, sound :
         /\ total = BilledTo(DOMAIN rows, rows) /\ seen = BilledTo(WithSegments(rows), rows)
         /\ counted = BilledTo(Counting, rows) /\ sound = BilledTo(Sound(rows), rows)
  OBVIOUS
<1> HIDE DEF m, Counting
<1>11. total \in Nat /\ sound \in Nat /\ counted \in Nat /\ counted <= sound
  BY <1>1, <1>6, <1>9, <1>10, BillsCompare
<1>12. PICK covered : covered = BilledTo(WithSegments(requests), requests)
  OBVIOUS
<1>13. covered \in Nat /\ seen \in Nat /\ covered <= seen
  <2>1. covered = BilledTo(WithSegments(requests), rows)
    BY <1>1, <1>7, <1>12, BillsAgree
  <2> QED BY <1>1, <1>6, <1>8, <1>10, <2>1, BillsCompare
<1>14. BilledTo(DOMAIN requests, requests) = total
  BY <1>1, <1>7, <1>10, BillsAgree
<1>15. CoveredBilled(requests) = IF total = 0 THEN 100 ELSE (100 * covered) \div total
  BY <1>12, <1>14, Zenon DEF CoveredBilled
<1>16. seen > 0 => 100 * counted >= CountedFloor * seen
  BY <1>5, <1>10 DEF MostlyCounted, Counting
<1>17. 10000 * sound >= StructureFloor * CountedFloor * total
  <2>1. CASE total = 0
    BY <1>11, <2>1
  <2>2. CASE total # 0
    <3>1. StructureFloor * total <= 100 * covered
      BY <1>5, <1>11, <1>13, <1>15, <2>2, ShareOfTheBill
    <3>2. StructureFloor * total <= 100 * seen
      <4>1. StructureFloor * total \in Int
        BY <1>11
      <4> QED BY <1>13, <3>1, <4>1
    <3>3. CountedFloor * seen <= 100 * counted
      <4>1. CASE seen = 0
        BY <1>11, <4>1
      <4>2. CASE seen # 0
        <5>1. CountedFloor * seen \in Int
          BY <1>13
        <5> QED BY <1>11, <1>13, <1>16, <4>2, <5>1
      <4> QED BY <4>1, <4>2
    <3>4. StructureFloor * CountedFloor * total <= 10000 * counted
      BY <1>11, <1>13, <3>2, <3>3, ShareOfAShare
    <3>5. StructureFloor * CountedFloor * total \in Int
      BY <1>11
    <3> QED BY <1>11, <3>4, <3>5
  <2> QED BY <2>1, <2>2
<1> QED
  BY <1>10, <1>17 DEF rows

\* Publish releases the window of a structural finding only where there is no doubt.
LEMMA PublishedIsUndoubted ==
  ASSUME NEW q, IsFinding(q), MaybeFigure(q.window), NEW doubt, NEW d, Decides(d)
  PROVE  LET f == Publish(q, doubt, d)
         IN  IsFinding(f) /\ (f.structural /\ f.window # Absent /\ f.window.released => doubt = Blank)
<1> DEFINE ok  == d.ok /\ ~(q.structural /\ doubt # "")
           why == IF q.structural /\ doubt # "" THEN doubt ELSE d.why
           f   == Publish(q, doubt, d)
<1>1. ok \in BOOLEAN /\ (ok /\ q.structural => doubt = Blank)
  BY Zenon DEF Decides, Blank
<1>2. f = [q EXCEPT !.window = ReleaseIfAny(@, ok, why, d.as),
                    !.month = WithholdProjection(ReleaseIfAny(@, ok, why, d.as), q.projectable)]
  BY DEF Publish
<1> HIDE DEF ok, why, f
<1>3. /\ IsFinding(f) /\ f.structural = q.structural
      /\ f.window = ReleaseIfAny(q.window, ok, why, d.as)
  BY <1>2 DEF IsFinding
<1>4. CASE q.window = Absent
  BY <1>3, <1>4 DEF ReleaseIfAny, f
<1>5. CASE q.window # Absent
  <2>1. f.window = Release(q.window, ok, why, d.as) /\ IsFigure(q.window)
    BY <1>3, <1>5 DEF ReleaseIfAny, MaybeFigure
  <2>2. f.window.released = ok
    BY <1>1, <2>1, Releasing
  <2> QED BY <1>1, <1>3, <2>2 DEF f
<1> QED BY <1>4, <1>5

\* A report publishes structural money only without doubt of the structure.
Backed(report) ==
  \A f \in report.findings : f.structural /\ f.window # Absent /\ f.window.released
                               => StructureDoubt(TraceOf(report.setting)) = Blank

LEMMA PrintedIsBacked ==
  ASSUME NEW setting, NEW invoice, NEW allow
  PROVE  Backed(Printed(setting, invoice, allow, Facts(setting)))
<1> DEFINE facts  == Facts(setting)
           d      == Decision(facts.spend, facts.blockers, invoice, allow, setting.assumed)
           plain  == Analysis(facts, invoice, allow, setting.assumed)
           a      == IF setting.assumed THEN DraftBecauseAssumed(plain) ELSE plain
           report == Printed(setting, invoice, allow, facts)
<1>1. Decides(d)
  BY Decided DEF Decides
<1>2. /\ \A q \in facts.findings : IsFinding(q) /\ MaybeFigure(q.window)
      /\ facts.doubt = StructureDoubt(TraceOf(setting))
  BY CostedFinding DEF Facts
<1>3. plain.findings = {Publish(f, facts.doubt, d) : f \in facts.findings}
  BY DEF Analysis
<1>4. report.setting = setting /\ report.findings = a.findings
  BY DEF Printed
<1> HIDE DEF facts, d, plain, report
<1> DEFINE backed(f) == f.structural /\ f.window # Absent /\ f.window.released
                          => facts.doubt = Blank
<1>5. \A f \in plain.findings : IsFinding(f) /\ backed(f)
  BY <1>1, <1>2, <1>3, PublishedIsUndoubted
<1>6. \A f \in a.findings : backed(f)
  <2>1. CASE setting.assumed
    <3>1. a.findings = {[f EXCEPT !.month = Drafted(@)] : f \in plain.findings}
      BY <2>1 DEF DraftBecauseAssumed
    <3>2. ASSUME NEW f \in plain.findings PROVE backed([f EXCEPT !.month = Drafted(@)])
      <4> DEFINE g == [f EXCEPT !.month = Drafted(@)]
      <4>1. g.structural = f.structural /\ g.window = f.window
        BY <1>5 DEF IsFinding
      <4> HIDE DEF g
      <4>2. backed(g)
        BY <1>5, <4>1
      <4> QED BY <4>2 DEF g
    <3> HIDE DEF backed, a
    <3> QED BY <3>1, <3>2
  <2>2. CASE ~setting.assumed
    BY <1>5, <2>2
  <2> QED BY <2>1, <2>2
<1> QED BY <1>2, <1>4, <1>6 DEF Backed, facts, report

MoneyInv ==
  /\ export \in Seq(Lines)
  /\ shown.kind = "report" => Backed(shown)

\* Money that is published for a structural finding rests on counted segment sizes that
\* agree with the bill and are identified, for a share of a share of what was billed:
\* for any export, setting and invoice, and any two floors.
THEOREM StructuralMoneyIsBacked == Spec => []StructuralMoneyIsCounted
<1>1. Init => MoneyInv
  BY DEF Init, MoneyInv, Nothing
<1>2. MoneyInv /\ [Next]_<<export, shown>> => MoneyInv'
  <2> SUFFICES ASSUME MoneyInv, [Next]_<<export, shown>> PROVE MoneyInv'
    OBVIOUS
  <2>1. CASE UNCHANGED <<export, shown>>
    BY <2>1 DEF MoneyInv, Backed, TraceOf, Rows
  <2>2. ASSUME NEW setting, Report(setting) PROVE MoneyInv'
    <3>1. PICK invoice, allow : shown' = Printed(setting, invoice, allow, Facts(setting))
      BY <2>2 DEF Report
    <3>2. export' = export
      BY <2>2 DEF Report
    <3>3. Backed(shown')
      BY <3>1, PrintedIsBacked
    <3> QED BY <3>2, <3>3 DEF MoneyInv, Backed, TraceOf, Rows
  <2>3. ASSUME NEW line \in Lines, Write(line) PROVE MoneyInv'
    BY <2>3 DEF Write, MoneyInv, Nothing
  <2>4. ASSUME NEW setting, Refuse(setting) \/ Crash(setting) \/ BakeOffAll(setting)
                              \/ BakeOffByAgent(setting)
        PROVE  MoneyInv'
    <3>1. export' = export
      BY <2>4 DEF Refuse, Crash, BakeOffAll, BakeOffByAgent
    <3> QED BY <2>4, <3>1, OthersPublishNothing DEF MoneyInv
  <2> QED BY <2>1, <2>2, <2>3, <2>4 DEF Next
<1>3. MoneyInv => StructuralMoneyIsCounted
  <2> SUFFICES ASSUME MoneyInv, Publishes("report"), NEW f \in shown.findings,
                      f.structural /\ f.window # Absent /\ f.window.released
               PROVE  LET rows == Readable(Rows)
                      IN  10000 * BilledTo(Sound(rows), rows)
                            >= StructureFloor * CountedFloor * BilledTo(DOMAIN rows, rows)
    BY DEF StructuralMoneyIsCounted
  <2> DEFINE trace == TraceOf(shown.setting)
  <2>1. StructureDoubt(trace) = Blank
    BY DEF MoneyInv, Backed, Publishes
  <2>2. trace = Load(Rows, shown.setting.target)
    <3>1. LoadSessions(Rows, shown.setting.target).tier # "instrumented"
      BY DEF LoadSessions
    <3>2. trace.tier = "instrumented"
      BY <2>1, NoDoubt
    <3> QED BY <3>1, <3>2 DEF TraceOf
  <2>3. /\ Len(export) \in Nat /\ Len(Rows) = Len(export) /\ DOMAIN Rows = 1 .. Len(export)
        /\ \A k \in 1 .. Len(export) : Rows[k] # Unreadable => IsRow(Rows[k])
    <3>1. export \in Seq(Lines)
      BY DEF MoneyInv
    <3> QED BY <3>1, LinesAssumption DEF Rows
  <2> QED BY <2>1, <2>2, <2>3, LoadedIsCounted, LinesAssumption
<1> QED BY <1>1, <1>2, <1>3, PTL DEF Spec

-----------------------------------------------------------------------------
(* Comparisons.                                                                  *)

LEMMA NoneExcluded ==
  ASSUME NEW trace, ExcludedBilled(trace) = {}
  PROVE  /\ ~ (trace.skipped > 0)
         /\ \A i \in DOMAIN trace.requests :
              /\ trace.requests[i].status = 200 => HasUsage(trace.requests[i].usage)
              /\ trace.requests[i].status # 200 => ~ (BilledInput(trace.requests[i].usage) > 0)
BY DEF ExcludedBilled, FailedButBilled, BlindRows

\* The same for a trace that was cut to some of its requests.
LEMMA NoneOfThoseExcluded ==
  ASSUME NEW n \in Nat, NEW trace, {"requests", "skipped"} \subseteq DOMAIN trace,
         Len(trace.requests) = n, NEW S,
         ExcludedBilled([trace EXCEPT !.requests = Keep(trace.requests, S)]) = {},
         NEW i \in 1 .. n, i \in S
  PROVE  /\ trace.requests[i].status = 200 => HasUsage(trace.requests[i].usage)
         /\ trace.requests[i].status # 200 => ~ (BilledInput(trace.requests[i].usage) > 0)
<1> DEFINE cut  == [trace EXCEPT !.requests = Keep(trace.requests, S)]
           kept == Keep(trace.requests, S)
<1>1. cut.requests = kept
  OBVIOUS
<1>2. IsKept(kept, trace.requests, S, n)
  BY KeepKeeps
<1> HIDE DEF cut, kept
<1>3. PICK j \in 1 .. Len(kept) : kept[j] = trace.requests[i]
  BY <1>2 DEF IsKept
<1>4. j \in DOMAIN kept
  BY <1>2 DEF IsKept
<1>5. ExcludedBilled(cut) = {}
  BY DEF cut, kept
<1> QED
  BY <1>1, <1>3, <1>4, <1>5, NoneExcluded

LEMMA NoEvidenceDoubt ==
  ASSUME NEW handed, NEW trace, NEW setting, NEW excluded, NEW inherited,
         EvidenceDoubt(handed, trace, setting, excluded, inherited) = Blank
  PROVE  /\ inherited = Blank /\ ExcludedBilled(trace) = {} /\ excluded = {}
         /\ \A k \in DOMAIN handed : ~ Omitted(handed[k], setting)
         /\ StructureDoubt(trace) = Blank
<1>1. /\ inherited = Blank /\ ExcludedBilled(trace) \cup excluded = {}
      /\ \A k \in DOMAIN handed : ~ Omitted(handed[k], setting)
      /\ StructureDoubt(trace) = Blank
  BY Zenon DEF EvidenceDoubt, Blank
<1> QED BY <1>1

LEMMA SpeakingIsUndoubted ==
  ASSUME NEW agents, NEW doubt, NEW setting, NEW settled, NEW allow
  PROVE  LET result == BakeOff(agents, doubt, setting, settled, allow)
         IN  result.agents = agents /\ (Speaks(result) => doubt = Blank)
<1> DEFINE result   == BakeOff(agents, doubt, setting, settled, allow)
           released == /\ doubt = ""
                       /\ \/ settled = "ties"
                          \/ DraftOverrideApplies(settled # "no_invoice", allow)
           why      == IF doubt # "" THEN doubt ELSE settled
           as       == IF settled = "ties" /\ ~setting.assumed THEN "reconciled" ELSE "draft"
<1>1. result.agents = agents /\ result.arms = Release(Figure(1, FALSE), released, why, as)
  BY DEF BakeOff
<1>a. result.compared = (doubt = "" /\ settled # "fails")
  BY DEF BakeOff
<1>2. released \in BOOLEAN /\ (released => doubt = Blank)
  BY Zenon DEF Blank
<1>3. result.compared => doubt = Blank
  BY <1>a, Zenon DEF Blank
<1> HIDE DEF result, released, why, as
<1>b. IsFigure(Figure(1, FALSE))
  BY FigureIsFigure
<1>4. result.arms.released = released
  BY <1>1, <1>b DEF Release, IsFigure
<1> QED BY <1>1, <1>2, <1>3, <1>4 DEF Speaks, result

\* Only an export has structure.
LEMMA InstrumentedIsLoaded ==
  ASSUME NEW setting, TraceOf(setting).tier = "instrumented"
  PROVE  TraceOf(setting) = Load(Rows, setting.target)
<1>1. LoadSessions(Rows, setting.target).tier # "instrumented"
  BY DEF LoadSessions
<1> QED BY <1>1 DEF TraceOf

\* A file none of whose lines was skipped: its requests are its lines.
Aligned(requests) ==
  /\ Len(requests) = Len(export) /\ DOMAIN requests = 1 .. Len(export)
  /\ \A k \in 1 .. Len(export) :
       LET row == export[k].row
       IN  /\ row # Unreadable /\ IsRow(row)
           /\ requests[k].status = row.status /\ requests[k].usage = row.usage
           /\ requests[k].agent = row.agent /\ requests[k].sent = row.sent
           /\ row.segments = <<>> => requests[k].segments = <<>>

LEMMA NothingSkipped ==
  ASSUME export \in Seq(Lines), NEW target, ~ (Load(Rows, target).skipped > 0)
  PROVE  Aligned(Load(Rows, target).requests)
<1> DEFINE rows == Readable(Rows)
           kept == StructureKept(rows)
           n    == Len(export)
<1>1. /\ Load(Rows, target).requests = [i \in DOMAIN rows |-> RequestFromRow(rows[i], kept, target)]
      /\ Load(Rows, target).skipped = Len(Rows) - Len(rows)
  BY DEF Load
<1>2. /\ n \in Nat /\ Len(Rows) = n /\ DOMAIN Rows = 1 .. n
      /\ \A k \in 1 .. n : Rows[k] = export[k].row
      /\ \A k \in 1 .. n : Rows[k] # Unreadable => IsRow(Rows[k])
  BY LinesAssumption DEF Rows
<1> HIDE DEF kept, n
<1>3. /\ Len(rows) \in Nat /\ DOMAIN rows = 1 .. Len(rows) /\ Len(rows) <= n
      /\ Len(rows) = n => \A k \in 1 .. n : Rows[k] # Unreadable /\ rows[k] = Rows[k]
  BY <1>2, ReadableAreRows
<1> HIDE DEF rows
<1>4. Len(rows) = n
  <2>1. PICK skipped : skipped = Load(Rows, target).skipped
    OBVIOUS
  <2>2. skipped = n - Len(rows)
    BY <1>1, <1>2, <2>1
  <2>3. ~ (skipped > 0)
    BY <2>1
  <2>4. PICK read : read = Len(rows)
    OBVIOUS
  <2>5. n \in Nat /\ read \in Nat /\ read <= n
    BY <1>2, <1>3, <2>4
  <2>6. skipped = n - read
    BY <2>2, <2>4
  <2>7. read = n
    BY <2>3, <2>5, <2>6
  <2> QED BY <2>4, <2>7
<1>5. \A k \in 1 .. n : /\ Rows[k] # Unreadable /\ rows[k] = Rows[k] /\ IsRow(rows[k])
                        /\ rows[k] = export[k].row
  BY <1>2, <1>3, <1>4
<1> DEFINE requests == [i \in DOMAIN rows |-> RequestFromRow(rows[i], kept, target)]
<1>6. Len(requests) = n /\ DOMAIN requests = 1 .. n
  BY <1>2, <1>3, <1>4
<1>7. \A k \in 1 .. n : requests[k] = RequestFromRow(rows[k], kept, target)
  BY <1>3, <1>4
<1>8. Load(Rows, target).requests = requests
  BY <1>1
<1> HIDE DEF requests
<1>9. ASSUME NEW k \in 1 .. n
      PROVE  LET row == export[k].row
             IN  /\ row # Unreadable /\ IsRow(row)
                 /\ requests[k].status = row.status /\ requests[k].usage = row.usage
                 /\ requests[k].agent = row.agent /\ requests[k].sent = row.sent
                 /\ row.segments = <<>> => requests[k].segments = <<>>
  BY <1>5, <1>7, RequestOfRow
<1> QED BY <1>6, <1>8, <1>9 DEF Aligned, n

\* An analysable request that is missing among those handed over leaves one over.
LEMMA NotLeftOver ==
  ASSUME NEW n \in Nat, NEW trace, DOMAIN trace.requests = 1 .. n, NEW handed,
         ~ HasLeftover(handed, trace), NEW i \in 1 .. n, Analysable(trace.requests[i])
  PROVE  \E j \in DOMAIN handed : handed[j] = trace.requests[i]
<1> DEFINE r      == trace.requests[i]
           among  == {j \in DOMAIN handed : handed[j] = r}
           within == {k \in Analysed(trace) : trace.requests[k] = r}
<1> SUFFICES ASSUME among = {} PROVE FALSE
  OBVIOUS
<1>1. i \in Analysed(trace)
  BY DEF Analysed
<1>2. ~ (Cardinality(within) > Cardinality(among))
  BY <1>1 DEF HasLeftover, Held, Occurrences
<1>3. IsFiniteSet(within)
  <2>1. within \subseteq 1 .. n
    BY DEF Analysed
  <2>2. IsFiniteSet(1 .. n)
    BY FS_Interval
  <2> HIDE DEF within
  <2> QED BY <2>1, <2>2, FS_Subset
<1>4. within # {}
  BY <1>1
<1>5. Cardinality(within) \in Nat /\ Cardinality(within) # 0
  <2> HIDE DEF within
  <2> QED BY <1>3, <1>4, FS_CardinalityType, FS_EmptySet
<1>6. Cardinality(among) = 0
  BY FS_EmptySet
<1> HIDE DEF among, within
<1> QED BY <1>2, <1>5, <1>6

\* A line that is answered, or passes unseen.
LEMMA LineIsAnswered ==
  ASSUME NEW setting, NEW k \in 1 .. Len(export), ~ PassesUnseen(k, setting),
         export[k].row # Unreadable, IsRow(export[k].row),
         export[k].row.status = 200 => HasUsage(export[k].row.usage),
         export[k].row.status # 200 => ~ (BilledInput(export[k].row.usage) > 0)
  PROVE  Answered(export[k].row)
<1>1. BilledInput(export[k].row.usage) \in Nat
  BY RowsBill
<1>2. export[k].row.status # 200 => BilledInput(export[k].row.usage) = 0
  BY <1>1
<1> QED BY <1>2 DEF PassesUnseen, Answered

LEMMA AllAreAnswered ==
  ASSUME export \in Seq(Lines), NEW setting, NEW handed, NEW settled, NEW allow,
         LET trace == TraceOf(setting)
         IN  Speaks(BakeOff(AgentsOf(trace.requests),
                            EvidenceDoubt(handed, trace, setting, {}, Blank),
                            setting, settled, allow)),
         NEW k \in 1 .. Len(export), ~ PassesUnseen(k, setting)
  PROVE  export[k].row # Unreadable /\ Answered(export[k].row)
<1> DEFINE trace == TraceOf(setting)
<1>1. EvidenceDoubt(handed, trace, setting, {}, Blank) = Blank
  BY SpeakingIsUndoubted
<1>2. ExcludedBilled(trace) = {} /\ StructureDoubt(trace) = Blank
  BY <1>1, NoEvidenceDoubt
<1>3. trace = Load(Rows, setting.target)
  BY <1>2, NoDoubt, InstrumentedIsLoaded
<1> HIDE DEF trace
<1>4. Aligned(trace.requests)
  BY <1>2, <1>3, NoneExcluded, NothingSkipped
<1>5. /\ export[k].row.status = 200 => HasUsage(export[k].row.usage)
      /\ export[k].row.status # 200 => ~ (BilledInput(export[k].row.usage) > 0)
  BY <1>2, <1>4, NoneExcluded DEF Aligned
<1> QED BY <1>4, <1>5, LineIsAnswered DEF Aligned

\* A group of a comparison agent by agent.
GroupDoubt(agents, handed, trace, setting, excluded, inherited) ==
  EvidenceDoubt(Keep(handed, SentBy(handed, agents)), AgentTrace(trace, agents), setting,
                excluded, inherited)

\* The groups: each agent with enough requests, and the others together. What the
\* agents of no group were billed stands in the way of all of them; so does a
\* selection that is not the workload.
AreGroups(results, kept, small, inherited, handed, trace, setting, allow) ==
  LET orphaned == UnreportedExclusions(trace, kept \cup small)
      group(agents) == BakeOff(agents, GroupDoubt(agents, handed, trace, setting,
                                                  orphaned, inherited),
                               setting, "no_invoice", allow)
  IN  /\ results = {group({a}) : a \in kept} \cup (IF small = {} THEN {} ELSE {group(small)})
      /\ inherited = Blank => ~ HasLeftover(handed, trace)

LEMMA GroupsOf ==
  ASSUME NEW handed, NEW trace, NEW setting, NEW settled, NEW allow
  PROVE  \E kept, small, inherited :
           AreGroups(ByAgent(handed, trace, setting, settled, allow), kept, small, inherited,
                     handed, trace, setting, allow)
<1> DEFINE of(agents) == Keep(handed, SentBy(handed, agents))
           kept       == {a \in AgentsOf(handed) : Len(of({a})) >= MinGroup}
           small      == AgentsOf(handed) \ kept
           inherited  == IF settled = "fails" THEN "fails"
                         ELSE IF HasStray(handed, trace) \/ HasLeftover(handed, trace)
                         THEN "not_the_workload" ELSE ""
           orphaned   == UnreportedExclusions(trace, kept \cup small)
           group(agents) == BakeOff(agents, GroupDoubt(agents, handed, trace, setting,
                                                       orphaned, inherited),
                                    setting, "no_invoice", allow)
<1>1. ByAgent(handed, trace, setting, settled, allow)
        = {group({a}) : a \in kept} \cup (IF small = {} THEN {} ELSE {group(small)})
  BY Zenon DEF ByAgent, GroupDoubt
<1>2. inherited = Blank => ~ HasLeftover(handed, trace)
  BY Zenon DEF Blank
<1> HIDE DEF kept, small, inherited
<1>3. AreGroups(ByAgent(handed, trace, setting, settled, allow), kept, small, inherited,
                handed, trace, setting, allow)
  BY <1>1, <1>2, Zenon DEF AreGroups
<1> QED BY <1>3

\* The agents of a group speak for their lines, and for those of agents in no group.
LEMMA GroupsAreAnswered ==
  ASSUME export \in Seq(Lines), NEW setting, NEW handed, NEW m \in Nat, Len(handed) = m,
         DOMAIN handed = 1 .. m,
         NEW agents, NEW reported, NEW inherited, inherited = Blank => ~ HasLeftover(handed, TraceOf(setting)),
         GroupDoubt(agents, handed, TraceOf(setting), setting,
                    UnreportedExclusions(TraceOf(setting), reported), inherited) = Blank,
         NEW k \in 1 .. Len(export), ~ PassesUnseen(k, setting)
  PROVE  LET row == export[k].row
         IN  /\ row # Unreadable
             /\ row.agent \in agents \cup {UnknownAgent} \/ row.agent \notin reported
                  => Answered(row)
             /\ row.agent \in agents => row.segments # <<>> /\ row.sent # Absent
<1> DEFINE trace    == TraceOf(setting)
           n        == Len(export)
           row      == export[k].row
           own      == Keep(handed, SentBy(handed, agents))
           Sent     == SentBy(trace.requests, agents \cup {UnknownAgent})
           Others   == DOMAIN trace.requests \ SentBy(trace.requests, reported)
           orphaned == UnreportedExclusions(trace, reported)
<1>1. /\ inherited = Blank /\ ExcludedBilled(AgentTrace(trace, agents)) = {} /\ orphaned = {}
      /\ \A j \in DOMAIN own : ~ Omitted(own[j], setting)
      /\ StructureDoubt(AgentTrace(trace, agents)) = Blank
  BY NoEvidenceDoubt DEF GroupDoubt
<1>2. /\ {"requests", "skipped", "tier"} \subseteq DOMAIN trace
      /\ AgentTrace(trace, agents) = [trace EXCEPT !.requests = Keep(trace.requests, Sent)]
      /\ orphaned = ExcludedBilled([trace EXCEPT !.requests = Keep(trace.requests, Others)])
  <2>1. {"requests", "skipped", "tier"} \subseteq DOMAIN trace
    BY DEF TraceOf, Load, LoadSessions
  <2> HIDE DEF trace
  <2> QED BY <2>1 DEF AgentTrace, UnreportedExclusions
<1> HIDE DEF trace, orphaned, Sent, Others, own
<1>3. AgentTrace(trace, agents).tier = trace.tier /\ AgentTrace(trace, agents).skipped = trace.skipped
  BY <1>2
<1>4. trace = Load(Rows, setting.target)
  <2>1. AgentTrace(trace, agents).tier = "instrumented"
    BY <1>1, NoDoubt
  <2> QED BY <1>3, <2>1, InstrumentedIsLoaded DEF trace
<1>5. ~ (trace.skipped > 0)
  BY <1>1, <1>3, NoneExcluded
<1>6. Aligned(trace.requests)
  BY <1>4, <1>5, NothingSkipped
<1>7. n \in Nat /\ k \in 1 .. n /\ Len(trace.requests) = n /\ DOMAIN trace.requests = 1 .. n
  BY <1>6 DEF Aligned
<1> DEFINE r == trace.requests[k]
<1>8. /\ row # Unreadable /\ IsRow(row)
      /\ r.status = row.status /\ r.usage = row.usage /\ r.agent = row.agent /\ r.sent = row.sent
      /\ row.segments = <<>> => r.segments = <<>>
  BY <1>6 DEF Aligned
<1>9. ASSUME row.agent \in agents \cup {UnknownAgent} \/ row.agent \notin reported
      PROVE  Answered(row)
  <2>1. PICK S : k \in S /\ ExcludedBilled([trace EXCEPT !.requests = Keep(trace.requests, S)]) = {}
    <3>1. CASE row.agent \in agents \cup {UnknownAgent}
      <4>1. k \in Sent
        BY <1>7, <1>8, <3>1 DEF Sent, SentBy
      <4> QED BY <1>1, <1>2, <4>1
    <3>2. CASE row.agent \notin reported
      <4>1. k \in Others
        BY <1>7, <1>8, <3>2 DEF Others, SentBy
      <4> QED BY <1>1, <1>2, <4>1
    <3> QED BY <1>9, <3>1, <3>2
  <2>2. /\ r.status = 200 => HasUsage(r.usage)
        /\ r.status # 200 => ~ (BilledInput(r.usage) > 0)
    BY <1>2, <1>7, <2>1, NoneOfThoseExcluded
  <2> QED BY <1>8, <2>2, LineIsAnswered
<1>10. ASSUME row.agent \in agents PROVE row.segments # <<>> /\ row.sent # Absent
  <2>1. Analysable(r)
    BY <1>8, <1>9, <1>10 DEF Answered, Analysable
  <2>2. PICK j \in DOMAIN handed : handed[j] = r
    BY <1>1, <1>7, <2>1, NotLeftOver DEF trace
  <2>3. j \in SentBy(handed, agents)
    BY <1>8, <1>10, <2>2 DEF SentBy
  <2>4. IsKept(own, handed, SentBy(handed, agents), m)
    BY KeepKeeps DEF own
  <2>5. PICK i \in DOMAIN own : own[i] = r
    <3>1. j \in 1 .. m
      OBVIOUS
    <3>2. PICK i \in 1 .. Len(own) : own[i] = handed[j]
      BY <2>3, <2>4, <3>1 DEF IsKept
    <3>3. DOMAIN own = 1 .. Len(own)
      BY <2>4 DEF IsKept
    <3> QED BY <2>2, <3>2, <3>3
  <2>6. ~ Omitted(r, setting)
    BY <1>1, <2>5
  <2> QED BY <1>8, <2>6 DEF Omitted
<1> QED BY <1>8, <1>9, <1>10

\* What a caller hands over with a list of requests is a list.
HandsLists ==
  \A requests : Len(requests) \in Nat /\ DOMAIN requests = 1 .. Len(requests) =>
    \A handed \in HandedOf(requests) :
      Len(handed) \in Nat /\ DOMAIN handed = 1 .. Len(handed)

LEMMA TracesAreLists ==
  ASSUME export \in Seq(Lines), NEW setting
  PROVE  LET requests == TraceOf(setting).requests
         IN  Len(requests) \in Nat /\ DOMAIN requests = 1 .. Len(requests)
<1> DEFINE rows == Readable(Rows)
           requests == TraceOf(setting).requests
<1>1. \/ requests = [i \in DOMAIN rows |-> RequestFromRow(rows[i], StructureKept(rows), setting.target)]
      \/ requests = [i \in DOMAIN rows |-> Transcribed(rows[i], setting.target)]
  BY DEF TraceOf, Load, LoadSessions
<1>2. Len(export) \in Nat /\ Len(Rows) = Len(export) /\ DOMAIN Rows = 1 .. Len(export)
  BY DEF Rows
<1>3. Len(rows) \in Nat /\ DOMAIN rows = 1 .. Len(rows)
  BY <1>2, ReadableAreRows
<1> HIDE DEF rows, requests
<1>4. CASE requests = [i \in DOMAIN rows |-> RequestFromRow(rows[i], StructureKept(rows), setting.target)]
  <2>1. Len(requests) = Len(rows) /\ DOMAIN requests = 1 .. Len(rows)
    BY <1>3, <1>4
  <2> QED BY <1>3, <2>1
<1>5. CASE requests = [i \in DOMAIN rows |-> Transcribed(rows[i], setting.target)]
  <2>1. Len(requests) = Len(rows) /\ DOMAIN requests = 1 .. Len(rows)
    BY <1>3, <1>5
  <2> QED BY <1>3, <2>1
<1> QED BY <1>1, <1>4, <1>5 DEF requests

\* What a comparison that answers owes to one line.
Owed(result, results, setting, k) ==
  LET row == export[k].row
  IN  /\ ~ PassesUnseen(k, setting)
      /\ \/ row = Unreadable
         \/ row.agent \in result.agents \cup {UnknownAgent}
         \/ \A other \in results : row.agent \notin other.agents

LEMMA ByAgentOwes ==
  ASSUME HandsLists, export \in Seq(Lines), NEW setting,
         NEW handed \in HandedOf(TraceOf(setting).requests), NEW settled, NEW allow,
         NEW results, results = ByAgent(handed, TraceOf(setting), setting, settled, allow),
         NEW result \in results, Speaks(result),
         NEW k \in 1 .. Len(export), Owed(result, results, setting, k)
  PROVE  LET row == export[k].row
         IN  /\ row # Unreadable /\ Answered(row)
             /\ row.agent \in result.agents => row.segments # <<>> /\ row.sent # Absent
<1> DEFINE trace == TraceOf(setting)
           row   == export[k].row
<1>1. Len(handed) \in Nat /\ DOMAIN handed = 1 .. Len(handed)
  BY TracesAreLists DEF HandsLists
<1>2. PICK kept, small, inherited :
        AreGroups(results, kept, small, inherited, handed, trace, setting, allow)
  BY GroupsOf
<1> DEFINE orphaned == UnreportedExclusions(trace, kept \cup small)
           doubt(agents) == GroupDoubt(agents, handed, trace, setting, orphaned, inherited)
           group(agents) == BakeOff(agents, doubt(agents), setting, "no_invoice", allow)
<1>3. \A agents : group(agents).agents = agents
  BY SpeakingIsUndoubted
<1>4. \A agents : Speaks(group(agents)) => doubt(agents) = Blank
  BY SpeakingIsUndoubted
<1>5. /\ results = {group({a}) : a \in kept} \cup (IF small = {} THEN {} ELSE {group(small)})
      /\ inherited = Blank => ~ HasLeftover(handed, trace)
  BY <1>2, Zenon DEF AreGroups
<1> HIDE DEF group, doubt
<1>6. PICK agents : result = group(agents)
  BY <1>5
<1>7. result.agents = agents /\ doubt(agents) = Blank
  BY <1>3, <1>4, <1>6
<1>8. \A a \in kept \cup small : \E other \in results : a \in other.agents
  <2>1. ASSUME NEW a \in kept PROVE \E other \in results : a \in other.agents
    <3>1. group({a}) \in results
      BY <1>5
    <3>2. group({a}).agents = {a}
      BY <1>3
    <3> QED BY <3>1, <3>2
  <2>2. ASSUME NEW a \in small PROVE \E other \in results : a \in other.agents
    <3>1. group(small) \in results
      BY <1>5
    <3>2. group(small).agents = small
      BY <1>3
    <3> QED BY <3>1, <3>2
  <2> QED BY <2>1, <2>2
<1>9. /\ row # Unreadable
      /\ row.agent \in agents \cup {UnknownAgent} \/ row.agent \notin kept \cup small
           => Answered(row)
      /\ row.agent \in agents => row.segments # <<>> /\ row.sent # Absent
  <2>1. ~ PassesUnseen(k, setting)
    BY DEF Owed
  <2> QED BY <1>1, <1>5, <1>7, <2>1, GroupsAreAnswered DEF doubt
<1> QED BY <1>7, <1>8, <1>9 DEF Owed

ComparisonInv == export \in Seq(Lines) /\ NoArmBesidesAMissingBill

\* A comparison that answers is of an export whose lines it has all: each line the
\* provider charged for was answered, reports what it was billed and could be read, or
\* it belongs to an agent whose own result says nothing: for any export, setting,
\* invoice and selection of requests.
THEOREM ComparisonsAreWhole ==
  ASSUME HandsLists PROVE Spec => []NoArmBesidesAMissingBill
<1>1. Init => ComparisonInv
  BY DEF Init, ComparisonInv, NoArmBesidesAMissingBill, Nothing
<1>2. ComparisonInv /\ [Next]_<<export, shown>> => ComparisonInv'
  <2> SUFFICES ASSUME ComparisonInv, [Next]_<<export, shown>> PROVE ComparisonInv'
    OBVIOUS
  <2>0. export \in Seq(Lines)
    BY DEF ComparisonInv
  <2>1. CASE UNCHANGED <<export, shown>>
    BY <2>1 DEF ComparisonInv, NoArmBesidesAMissingBill, PassesUnseen, SpeaksFor
  <2>2. CASE export' \in Seq(Lines) /\ shown'.kind \notin {"bakeoff", "by_agent"}
    BY <2>2 DEF ComparisonInv, NoArmBesidesAMissingBill
  <2>3. ASSUME NEW line \in Lines, Write(line) PROVE ComparisonInv'
    BY <2>0, <2>2, <2>3 DEF Write, Nothing
  <2>4. ASSUME NEW setting, Refuse(setting) \/ Crash(setting) PROVE ComparisonInv'
    BY <2>0, <2>2, <2>4 DEF Refuse, Crash
  <2>5. ASSUME NEW setting, Report(setting) PROVE ComparisonInv'
    <3>1. PICK invoice, allow : shown' = Printed(setting, invoice, allow, Facts(setting))
      BY <2>5 DEF Report
    <3>2. shown'.kind = "report" /\ export' = export
      BY <2>5, <3>1 DEF Printed, Report
    <3> QED BY <2>0, <2>2, <3>2
  <2>6. ASSUME NEW setting, BakeOffAll(setting) PROVE ComparisonInv'
    <3>1. export' = export
      BY <2>6 DEF BakeOffAll
    <3>2. PICK handed, settled, allow :
            shown' = [kind |-> "bakeoff", setting |-> setting,
                      results |-> {BakeOff(AgentsOf(TraceOf(setting).requests),
                                           EvidenceDoubt(handed, TraceOf(setting), setting, {}, Blank),
                                           setting, settled, allow)}]
      BY <2>6, Zenon DEF BakeOffAll, Blank
    <3>3. /\ shown'.kind = "bakeoff" /\ shown'.setting = setting
          /\ \A result \in shown'.results : Speaks(result)
               => \A k \in 1 .. Len(export) : ~ PassesUnseen(k, setting)
                    => export[k].row # Unreadable /\ Answered(export[k].row)
      BY <2>0, <3>2, AllAreAnswered
    <3> QED BY <2>0, <3>1, <3>3 DEF ComparisonInv, NoArmBesidesAMissingBill, PassesUnseen
  <2>7. ASSUME NEW setting, BakeOffByAgent(setting) PROVE ComparisonInv'
    <3>1. export' = export
      BY <2>7 DEF BakeOffByAgent
    <3>2. PICK handed, settled, allow :
            /\ handed \in HandedOf(TraceOf(setting).requests)
            /\ shown' = [kind |-> "by_agent", setting |-> setting,
                         results |-> ByAgent(handed, TraceOf(setting), setting, settled, allow)]
      BY <2>7, Zenon DEF BakeOffByAgent
    <3>3. /\ shown'.kind = "by_agent" /\ shown'.setting = setting
          /\ shown'.results = ByAgent(handed, TraceOf(setting), setting, settled, allow)
      BY <3>2
    <3>4. \A result \in shown'.results : Speaks(result) =>
            \A k \in 1 .. Len(export) : Owed(result, shown'.results, setting, k) =>
              /\ export[k].row # Unreadable /\ Answered(export[k].row)
              /\ export[k].row.agent \in result.agents
                   => export[k].row.segments # <<>> /\ export[k].row.sent # Absent
      BY <2>0, <3>2, <3>3, ByAgentOwes
    <3> QED BY <2>0, <3>1, <3>3, <3>4 DEF ComparisonInv, NoArmBesidesAMissingBill, PassesUnseen,
                                          SpeaksFor, Owed
  <2> QED BY <2>1, <2>3, <2>4, <2>5, <2>6, <2>7 DEF Next
<1>3. ComparisonInv => NoArmBesidesAMissingBill
  BY DEF ComparisonInv
<1> QED BY <1>1, <1>2, <1>3, PTL DEF Spec

-----------------------------------------------------------------------------
(* The bill: what is reconciled is what was charged.                             *)

\* The lifetime that a request has for its writes is one that its row names.
Told(r, row) == \A ttl \in {"5m", "1h"} : DeclaredTtl(r) = ttl => Names(row, ttl)

LEMMA WritesAreTold ==
  ASSUME NEW r, NEW row, Told(r, row), Provable(r), SplitStated(r.usage) = SplitStated(row.usage),
         r.usage.m5 = row.usage.m5, r.usage.h1 = row.usage.h1,
         Valid(r.usage.created) = Valid(row.usage.created), Valid(row.usage.created) \in Nat,
         NEW five \in Nat, NEW hour \in Nat, WroteFor(row, five, hour)
  PROVE  Wrote(r, "5m") = five /\ Wrote(r, "1h") = hour
<1>1. CASE SplitStated(row.usage)
  BY <1>1 DEF WroteFor, Wrote
<1>2. CASE ~ SplitStated(row.usage)
  <2>1. PICK created : created = Valid(row.usage.created)
    OBVIOUS
  <2>2. created \in Nat /\ five + hour = created
    BY <1>2, <2>1 DEF WroteFor
  <2>3. \A ttl \in {"5m", "1h"} : Wrote(r, ttl) = IF DeclaredTtl(r) = ttl THEN created ELSE 0
    BY <1>2, <2>1 DEF Wrote
  <2>4. CASE created = 0
    BY <2>2, <2>3, <2>4
  <2>5. CASE created > 0
    <3>1. DeclaredTtl(r) \in {"5m", "1h"}
      BY <1>2, <2>1, <2>5 DEF Provable
    <3>2. CASE DeclaredTtl(r) = "5m"
      <4>1. hour = 0
        BY <1>2, <3>2 DEF Told, WroteFor
      <4> QED
        BY <2>2, <2>3, <3>2, <4>1
    <3>3. CASE DeclaredTtl(r) = "1h"
      <4>1. five = 0
        BY <1>2, <3>3 DEF Told, WroteFor
      <4> QED
        BY <2>2, <2>3, <3>3, <4>1
    <3> QED
      BY <3>1, <3>2, <3>3
  <2> QED
    BY <2>2, <2>4, <2>5
<1> QED
  BY <1>1, <1>2

\* A request whose markers are those of its row, or gone.
LEMMA ToldByRow ==
  ASSUME NEW r, NEW row, r.ttl = row.ttl,
         MarkerLifetimes(r) = {} \/ MarkerLifetimes(r) = MarkerLifetimes(row)
  PROVE  Told(r, row)
<1> SUFFICES ASSUME NEW ttl \in {"5m", "1h"}, DeclaredTtl(r) = ttl
             PROVE  Names(row, ttl)
  BY DEF Told
<1>1. PICK said : said = MarkerLifetimes(r)
  OBVIOUS
<1>2. CASE said = {}
  BY <1>1, <1>2 DEF DeclaredTtl, Names
<1>3. CASE said # {} /\ \E t \in said : said = {t} /\ r.ttl \in {t, Absent}
  <2>1. PICK t \in said : said = {t}
    BY <1>3
  <2>2. DeclaredTtl(r) = t
    BY <1>1, <1>3, <2>1 DEF DeclaredTtl
  <2> QED
    BY <1>1, <1>3, <2>1, <2>2 DEF Names
<1>4. CASE said # {} /\ ~ \E t \in said : said = {t} /\ r.ttl \in {t, Absent}
  <2>1. DeclaredTtl(r) = Absent
    BY <1>1, <1>4, Zenon DEF DeclaredTtl
  <2> QED
    BY <2>1, LinesAssumption
<1> QED
  BY <1>2, <1>3, <1>4

\* A request says of its call what its row does.
Carries(r, row) ==
  /\ r.status = row.status /\ r.sent = row.sent /\ r.model = row.model
  /\ row.target \in {r.target, Absent}
  /\ r.usage.m5 = row.usage.m5 /\ r.usage.h1 = row.usage.h1
  /\ Valid(r.usage.input) = Valid(row.usage.input)
  /\ Valid(r.usage.read) = Valid(row.usage.read)
  /\ Valid(r.usage.created) = Valid(row.usage.created)
  /\ HasUsage(r.usage) => HasUsage(row.usage)
  /\ CountersAgree(r.usage) => CountersAgree(row.usage)
  /\ Told(r, row)

LEMMA RequestCarries ==
  ASSUME NEW row, IsRow(row), NEW kept, NEW target
  PROVE  LET r == RequestFromRow(row, kept, target)
         IN  Carries(r, row) /\ r.usage = row.usage
<1>1. PICK r : r = RequestFromRow(row, kept, target)
  OBVIOUS
<1>2. /\ r.usage = row.usage /\ r.status = row.status /\ r.sent = row.sent
      /\ r.model = row.model /\ r.ttl = row.ttl
      /\ r.target = IF row.target = Absent THEN target ELSE row.target
      /\ r.segments = IF kept
                      THEN [k \in DOMAIN row.segments |-> NamedSegment(row.segments[k], row.tenant)]
                      ELSE <<>>
  BY <1>1 DEF IsRow, RequestFromRow
<1>3. MarkerLifetimes(r) = {} \/ MarkerLifetimes(r) = MarkerLifetimes(row)
  <2>1. CASE kept
    <3>1. DOMAIN r.segments = DOMAIN row.segments
      BY <1>2, <2>1
    <3>2. ASSUME NEW k \in DOMAIN row.segments
          PROVE  /\ r.segments[k].marked = row.segments[k].marked
                 /\ r.segments[k].ttl = row.segments[k].ttl
      <4>1. PICK s, name : s = row.segments[k] /\ name = r.segments[k]
        OBVIOUS
      <4>2. {"marked", "ttl"} \subseteq DOMAIN s
        BY <4>1 DEF IsRow
      <4>3. name = NamedSegment(s, row.tenant)
        BY <1>2, <2>1, <4>1
      <4>4. name.marked = s.marked /\ name.ttl = s.ttl
        BY <4>2, <4>3 DEF NamedSegment
      <4> QED
        BY <4>1, <4>4
    <3>3. Markers(r) = Markers(row)
      BY <3>1, <3>2 DEF Markers
    <3>4. {r.segments[k].ttl : k \in Markers(r)} = {row.segments[k].ttl : k \in Markers(row)}
      <4>1. \A k \in Markers(row) : r.segments[k].ttl = row.segments[k].ttl
        BY <3>2 DEF Markers
      <4> QED
        BY <3>3, <4>1
    <3> QED
      BY <3>4 DEF MarkerLifetimes
  <2>2. CASE ~ kept
    <3>1. r.segments = <<>>
      BY <1>2, <2>2
    <3>2. {r.segments[k].ttl : k \in Markers(r)} = {}
      BY <3>1 DEF Markers
    <3> QED
      BY <3>2 DEF MarkerLifetimes
  <2> QED
    BY <2>1, <2>2
<1>4. Told(r, row)
  BY <1>2, <1>3, ToldByRow
<1> QED
  BY <1>1, <1>2, <1>4 DEF Carries

LEMMA TranscribedCarries ==
  ASSUME NEW row, IsRow(row), row.status = 200, row.target = Absent, NEW target
  PROVE  Carries(Transcribed(row, target), row)
<1>1. PICK r, u : r = Transcribed(row, target) /\ u = row.usage
  OBVIOUS
<1>2. /\ r.usage = CountsOrZeros(u)
      /\ r.status = 200 /\ r.sent = row.sent /\ r.model = row.model
      /\ r.ttl = Absent /\ r.segments = <<>>
  BY <1>1 DEF IsRow, Transcribed
<1>3. /\ r.usage.input = (IF u.input = Absent THEN 0 ELSE u.input)
      /\ r.usage.read = (IF u.read = Absent THEN 0 ELSE u.read)
      /\ r.usage.created = (IF u.created = Absent THEN 0 ELSE u.created)
      /\ r.usage.m5 = u.m5 /\ r.usage.h1 = u.h1 /\ r.usage.other = u.other
  BY <1>1, <1>2 DEF IsRow, CountsOrZeros
<1>4. ASSUME NEW v PROVE Valid(IF v = Absent THEN 0 ELSE v) = Valid(v)
  BY DEF Valid, TokenCount
<1>5. HasUsage(r.usage) => HasUsage(u)
  BY <1>3 DEF HasUsage, Positive
<1>6. CountersAgree(r.usage) => CountersAgree(u)
  BY <1>3, LinesAssumption DEF CountersAgree, SplitStated
<1>7. Told(r, row)
  <2>1. {r.segments[k].ttl : k \in Markers(r)} = {}
    BY <1>2 DEF Markers
  <2>2. MarkerLifetimes(r) = {}
    BY <2>1 DEF MarkerLifetimes
  <2>3. DeclaredTtl(r) = Absent
    BY <1>2, <2>2 DEF DeclaredTtl
  <2> QED
    BY <2>3, LinesAssumption DEF Told
<1> QED
  BY <1>1, <1>2, <1>3, <1>4, <1>5, <1>6, <1>7 DEF Carries

LEMMA WritesAreCounts ==
  ASSUME NEW row, IsRow(row)
  PROVE  /\ Valid(row.usage.created) \in Nat
         /\ Split(row.usage) + Valid(row.usage.created) \in Nat
<1> DEFINE u == row.usage
<1>1. \A v \in {u.created, u.m5, u.h1, u.other} : Valid(v) \in Nat
  BY DEF IsRow, Valid, TokenCount
<1>2. Split(u) \in Nat
  BY <1>1 DEF Split
<1> QED
  BY <1>1, <1>2

LEMMA CountsUpTo ==
  ASSUME NEW most \in Nat, NEW n \in 0 .. most
  PROVE  n \in Nat
OBVIOUS

\* What a priced request is held to cost is what the provider charged for its line.
LEMMA PricedAtItsCharge ==
  ASSUME ChargedByTheList, NEW line \in Lines, line.row # Unreadable,
         NEW r, Carries(r, line.row), Analysable(r),
         NEW setting, setting.rate = Absent, setting.date = Absent, Exclusion(r, setting) = ""
  PROVE  SpendRate(r, setting) * Cost(r) = line.charge
<1>1. PICK row : row = line.row
  OBVIOUS
<1>2. /\ Provable(r) /\ PriceDay(r, setting) # Absent
      /\ r.target \in PricedTargets /\ SpendRate(r, setting) # Absent
  BY DEF Exclusion
<1>3. row.sent # Absent /\ PriceDay(r, setting) = row.sent \div Day
  BY <1>1, <1>2 DEF PriceDay, Carries
<1>4. PICK rate : rate = ListRate(row.model, row.sent \div Day)
  OBVIOUS
<1>5. SpendRate(r, setting) = rate /\ rate # Absent
  BY <1>1, <1>2, <1>3, <1>4 DEF SpendRate, RateOn, Carries
<1>6. /\ row.status = 200 /\ HasUsage(row.usage) /\ CountersAgree(row.usage)
      /\ row.target \in PricedTargets \cup {Absent}
  BY <1>1, <1>2 DEF Analysable, Provable, Carries
<1>7. Listed(row)
  BY <1>3, <1>4, <1>5, <1>6 DEF Listed
<1>a. ChargedFor(line)
  BY <1>1, <1>7 DEF ChargedByTheList
<1>b. PICK most : most = Split(row.usage) + Valid(row.usage.created)
  OBVIOUS
<1>e. Valid(row.usage.created) \in Nat /\ most \in Nat
  BY <1>1, <1>b, LinesAssumption, WritesAreCounts
<1>c. PICK five \in 0 .. most, hour \in 0 .. most :
        WroteFor(row, five, hour) /\ line.charge = ListCharge(row, five, hour)
  BY <1>1, <1>a, <1>b, Zenon DEF ChargedFor
<1>d. five \in Nat /\ hour \in Nat
  BY <1>e, CountsUpTo
<1>8. Wrote(r, "5m") = five /\ Wrote(r, "1h") = hour
  <2>5. SplitStated(r.usage) = SplitStated(row.usage)
    BY <1>1 DEF Carries, SplitStated
  <2>6. /\ Told(r, row) /\ r.usage.m5 = row.usage.m5 /\ r.usage.h1 = row.usage.h1
        /\ Valid(r.usage.created) = Valid(row.usage.created)
    BY <1>1 DEF Carries
  <2> QED
    BY <1>2, <1>c, <1>d, <1>e, <2>5, <2>6, WritesAreTold
<1>9. Cost(r) = 100 * Valid(row.usage.input) + ReadPct * Valid(row.usage.read) + 125 * five + 200 * hour
  BY <1>1, <1>8 DEF Cost, Carries
<1> QED
  BY <1>4, <1>5, <1>9, <1>c DEF ListCharge

\* Sums of the same terms, and one whose last term is nothing.
LEMMA SumsAgree ==
  ASSUME NEW n \in Nat, NEW g, NEW h, \A i \in 1 .. n : g[i] \in Nat /\ h[i] = g[i]
  PROVE  SumTo(n, g) = SumTo(n, h)
<1>1. SumTo(n, g) \in Nat /\ SumTo(n, h) \in Nat /\ SumTo(n, g) <= SumTo(n, h)
  BY SumsCompare
<1>2. SumTo(n, h) <= SumTo(n, g)
  BY SumsCompare
<1> QED
  BY <1>1, <1>2

LEMMA NothingLast ==
  ASSUME NEW n \in Nat, NEW g, NEW h,
         \A i \in 1 .. n : g[i] \in Nat /\ h[i] = g[i], h[n + 1] = 0
  PROVE  SumTo(n, g) = SumTo(n + 1, h)
<1>1. PICK f : f = (CHOOSE c : IsTotal(c, h, n + 1)) /\ IsTotal(f, h, n + 1)
  BY TotalExists
<1>2. SumTo(n + 1, h) = f[n + 1]
  BY <1>1, Zenon DEF SumTo, IsTotal
<1>3. f[n + 1] = f[n] + h[n + 1]
  <2>1. n + 1 \in 0 .. n + 1 /\ n + 1 # 0 /\ (n + 1) - 1 = n
    OBVIOUS
  <2> QED
    BY <1>1, <2>1 DEF IsTotal
<1>4. PICK x : x = (CHOOSE c : IsTotal(c, g, n)) /\ IsTotal(x, g, n)
  BY TotalExists
<1>5. SumTo(n, g) = x[n]
  BY <1>4, Zenon DEF SumTo, IsTotal
<1> DEFINE y == [i \in 0 .. n |-> f[i]]
<1>6. IsTotal(y, g, n)
  <2>1. ASSUME NEW i \in 0 .. n PROVE y[i] = IF i = 0 THEN 0 ELSE y[i - 1] + g[i]
    <3>1. i \in 0 .. n + 1 /\ (i # 0 => i - 1 \in 0 .. n /\ i \in 1 .. n)
      OBVIOUS
    <3>2. f[i] = IF i = 0 THEN 0 ELSE f[i - 1] + h[i]
      BY <1>1, <3>1 DEF IsTotal
    <3> QED
      BY <3>1, <3>2
  <2>2. y = [i \in 0 .. n |-> y[i]]
    OBVIOUS
  <2> HIDE DEF y
  <2> QED
    BY <2>1, <2>2 DEF IsTotal
<1>7. y[n] = f[n]
  OBVIOUS
<1> HIDE DEF y
<1>8. x[n] \in Nat /\ y[n] \in Nat /\ x[n] <= y[n] /\ y[n] <= x[n]
  BY <1>4, <1>6, TotalsCompare
<1>9. x[n] = y[n]
  BY <1>8
<1> QED
  BY <1>2, <1>3, <1>5, <1>7, <1>8, <1>9

\* The first m entries of a list, kept whole.
IsFront(kept, s, m) ==
  /\ kept \in Seq({s[k] : k \in 1 .. m}) /\ Len(kept) = m /\ \A k \in 1 .. m : kept[k] = s[k]

LEMMA FrontGrows ==
  ASSUME NEW m \in Nat, NEW s, NEW kept, IsFront(kept, s, m)
  PROVE  IsFront(Append(kept, s[m + 1]), s, m + 1)
<1> DEFINE Upto == {s[k] : k \in 1 .. m + 1}
<1>1. s[m + 1] \in Upto /\ {s[k] : k \in 1 .. m} \subseteq Upto
  OBVIOUS
<1>2. kept \in Seq(Upto) /\ Len(kept) = m
  BY <1>1 DEF IsFront
<1> HIDE DEF Upto
<1>3. Append(kept, s[m + 1]) \in Seq(Upto) /\ Len(Append(kept, s[m + 1])) = m + 1
  BY <1>1, <1>2
<1>4. ASSUME NEW k \in 1 .. m + 1 PROVE Append(kept, s[m + 1])[k] = s[k]
  <2>1. CASE k = m + 1
    BY <1>1, <1>2, <2>1
  <2>2. CASE k # m + 1
    <3>1. k \in 1 .. m
      BY <2>2
    <3>2. kept[k] = s[k]
      BY <3>1 DEF IsFront
    <3> QED
      BY <1>1, <1>2, <3>1, <3>2
  <2> QED
    BY <2>1, <2>2
<1> QED
  BY <1>3, <1>4 DEF IsFront, Upto

LEMMA KeepsFront ==
  ASSUME NEW n \in Nat, NEW s, Len(s) = n, NEW S, NEW m \in 0 .. n,
         \A k \in 1 .. n : k \in S <=> k <= m
  PROVE  IsFront(Keep(s, S), s, m)
<1>1. PICK f : f = (CHOOSE c : IsKeeping(c, s, S, n)) /\ IsKeeping(f, s, S, n)
  BY KeepingExists
<1>2. Keep(s, S) = f[n]
  BY <1>1, Zenon DEF Keep, IsKeeping
<1> DEFINE next(i, kept) == IF i \in S THEN Append(kept, s[i]) ELSE kept
<1>a. f = [i \in 0 .. n |-> IF i = 0 THEN <<>> ELSE next(i, f[i - 1])]
  BY <1>1 DEF IsKeeping
<1> HIDE DEF next
<1>b. f[0] = <<>> /\ \A k \in 0 .. n - 1 : f[k + 1] = next(k + 1, f[k])
  <2>1. f[0] = <<>>
    BY <1>a
  <2>2. ASSUME NEW k \in 0 .. n - 1 PROVE f[k + 1] = next(k + 1, f[k])
    <3>1. k + 1 \in 0 .. n /\ k + 1 # 0 /\ (k + 1) - 1 = k
      OBVIOUS
    <3> QED BY <3>1, <1>a
  <2> QED BY <2>1, <2>2
<1> DEFINE least(k) == IF k <= m THEN k ELSE m
           Reached == {k \in 0 .. n : IsFront(f[k], s, least(k))}
<1>3. 0 \in Reached
  <2>1. IsFront(<<>>, s, 0)
    BY DEF IsFront
  <2> QED BY <1>b, <2>1
<1>4. ASSUME NEW k \in 0 .. n - 1, k \in Reached PROVE k + 1 \in Reached
  <2>1. IsFront(f[k], s, least(k)) /\ k \in Nat /\ k + 1 \in 0 .. n /\ k + 1 \in 1 .. n
    BY <1>4
  <2>2. CASE k + 1 <= m
    <3>1. f[k + 1] = Append(f[k], s[k + 1])
      BY <1>b, <2>1, <2>2 DEF next
    <3>2. least(k) = k /\ least(k + 1) = k + 1
      BY <2>2
    <3>3. IsFront(f[k + 1], s, k + 1)
      BY <2>1, <3>1, <3>2, FrontGrows
    <3> QED BY <2>1, <3>2, <3>3
  <2>3. CASE ~ (k + 1 <= m)
    <3>1. f[k + 1] = f[k]
      BY <1>b, <2>1, <2>3 DEF next
    <3>2. least(k) = least(k + 1)
      BY <2>3
    <3> QED BY <2>1, <3>1, <3>2
  <2> QED BY <2>2, <2>3
<1>5. 0 .. n \subseteq Reached
  <2> HIDE DEF Reached
  <2> QED BY <1>3, <1>4, UpToInduction
<1>6. n \in Reached /\ least(n) = m
  BY <1>5
<1> QED
  BY <1>2, <1>6

\* The first m lines are what the requests of a trace say; the others pass unseen.
Tells(requests, m, setting) ==
  /\ Len(requests) = m /\ DOMAIN requests = 1 .. m
  /\ \A k \in 1 .. m :
       LET row == export[k].row
       IN  /\ row # Unreadable /\ IsRow(row) /\ Carries(requests[k], row)
           /\ requests[k].status # 200 => requests[k].usage = row.usage
  /\ \/ m = Len(export)
     \/ m + 1 = Len(export) /\ PassesUnseen(m + 1, setting)

LEMMA FrontOfExport ==
  ASSUME export \in Seq(Lines), NEW m \in 0 .. Len(export),
         \A k \in 1 .. Len(export) : export[k].row # Unreadable <=> k <= m
  PROVE  LET rows == Readable(Rows)
         IN  /\ Len(rows) = m /\ DOMAIN rows = 1 .. m
             /\ \A k \in 1 .. m : rows[k] = export[k].row /\ rows[k] # Unreadable /\ IsRow(rows[k])
<1> DEFINE n == Len(export)
           S == {k \in DOMAIN Rows : Rows[k] # Unreadable}
           rows == Keep(Rows, S)
<1>1. /\ n \in Nat /\ Len(Rows) = n /\ DOMAIN Rows = 1 .. n
      /\ \A k \in 1 .. n : Rows[k] = export[k].row
      /\ \A k \in 1 .. n : Rows[k] # Unreadable => IsRow(Rows[k])
  BY LinesAssumption DEF Rows
<1>2. \A k \in 1 .. n : k \in S <=> k <= m
  BY <1>1
<1>3. Readable(Rows) = rows
  BY DEF Readable
<1>4. m \in 0 .. n
  OBVIOUS
<1> HIDE DEF n, S
<1>5. IsFront(rows, Rows, m)
  BY <1>1, <1>2, <1>4, KeepsFront
<1> HIDE DEF rows
<1>6. Len(rows) = m /\ DOMAIN rows = 1 .. m /\ \A k \in 1 .. m : rows[k] = Rows[k]
  BY <1>5 DEF IsFront
<1>7. \A k \in 1 .. m : k \in 1 .. n /\ k <= m
  BY <1>1, <1>4
<1>8. ASSUME NEW k \in 1 .. m
      PROVE  rows[k] = export[k].row /\ rows[k] # Unreadable /\ IsRow(rows[k])
  <2>1. k \in 1 .. n /\ k <= m /\ rows[k] = Rows[k]
    BY <1>6, <1>7
  <2>2. export[k].row # Unreadable /\ Rows[k] = export[k].row
    BY <1>1, <2>1 DEF n
  <2> QED
    BY <1>1, <2>1, <2>2
<1> QED
  BY <1>3, <1>6, <1>8

\* A file is read in full when nothing of it was skipped.
LEMMA LoadTells ==
  ASSUME export \in Seq(Lines), NEW setting, ~ (Load(Rows, setting.target).skipped > 0)
  PROVE  Tells(Load(Rows, setting.target).requests, Len(export), setting)
<1> DEFINE rows == Readable(Rows)
           kept == StructureKept(rows)
           n    == Len(export)
           requests == [i \in DOMAIN rows |-> RequestFromRow(rows[i], kept, setting.target)]
<1>1. Load(Rows, setting.target).requests = requests
  BY DEF Load
<1>2. \A k \in 1 .. n : export[k].row # Unreadable
  BY NothingSkipped DEF Aligned
<1>3. n \in Nat
  OBVIOUS
<1>4. /\ Len(rows) = n /\ DOMAIN rows = 1 .. n
      /\ \A k \in 1 .. n : rows[k] = export[k].row /\ rows[k] # Unreadable /\ IsRow(rows[k])
  <2>1. \A k \in 1 .. n : export[k].row # Unreadable <=> k <= n
    BY <1>2, <1>3
  <2> QED
    BY <1>3, <2>1, FrontOfExport, SMTT(30)
<1> HIDE DEF rows, kept, n
<1>5. Len(requests) = n /\ DOMAIN requests = 1 .. n
  BY <1>3, <1>4
<1>6. ASSUME NEW k \in 1 .. n
      PROVE  LET row == export[k].row
             IN  /\ row # Unreadable /\ IsRow(row) /\ Carries(requests[k], row)
                 /\ requests[k].status # 200 => requests[k].usage = row.usage
  <2>1. PICK row : row = export[k].row
    OBVIOUS
  <2>2. requests[k] = RequestFromRow(row, kept, setting.target) /\ row # Unreadable /\ IsRow(row)
    BY <1>4, <2>1
  <2>3. Carries(requests[k], row) /\ requests[k].usage = row.usage
    BY <2>2, RequestCarries
  <2> QED
    BY <2>1, <2>2, <2>3
<1> HIDE DEF requests
<1> QED
  BY <1>1, <1>5, <1>6 DEF Tells, n

\* A transcript is read up to a last record that may still be being written.
LEMMA SessionsTell ==
  ASSUME export \in Seq(Lines), NEW setting, setting.source = "sessions",
         \A k \in DOMAIN export : LET row == export[k].row IN
           row # Unreadable => row.status = 200 /\ row.target = Absent,
         ~ (LoadSessions(Rows, setting.target).skipped > 0)
  PROVE  \E m \in Nat : Tells(LoadSessions(Rows, setting.target).requests, m, setting)
<1> DEFINE rows == Readable(Rows)
           n    == Len(export)
           torn == {i \in DOMAIN Rows : Rows[i] = Unreadable /\ i < Len(Rows)}
           requests == [i \in DOMAIN rows |-> Transcribed(rows[i], setting.target)]
<1>1. /\ LoadSessions(Rows, setting.target).requests = requests
      /\ LoadSessions(Rows, setting.target).skipped = Cardinality(torn)
  BY DEF LoadSessions
<1>2. /\ n \in Nat /\ Len(Rows) = n /\ DOMAIN Rows = 1 .. n
      /\ \A k \in 1 .. n : Rows[k] = export[k].row
  BY DEF Rows
<1>3. torn = {}
  <2>1. IsFiniteSet(torn)
    <3>1. IsFiniteSet(1 .. n) /\ torn \subseteq 1 .. n
      BY <1>2, FS_Interval
    <3> QED
      BY <3>1, FS_Subset
  <2> HIDE DEF torn
  <2>2. PICK c : c = Cardinality(torn)
    OBVIOUS
  <2>3. c \in Nat /\ ~ (c > 0)
    BY <1>1, <2>1, <2>2, FS_CardinalityType
  <2>4. c = 0
    BY <2>3
  <2> QED
    BY <2>1, <2>2, <2>4, FS_EmptySet
<1>4. \A k \in 1 .. n : k < n => export[k].row # Unreadable
  BY <1>2, <1>3
<1>5. PICK m \in 0 .. n : /\ \A k \in 1 .. n : export[k].row # Unreadable <=> k <= m
                          /\ m = n \/ (m + 1 = n /\ export[n].row = Unreadable)
  <2>1. CASE n = 0 \/ export[n].row # Unreadable
    <3>1. \A k \in 1 .. n : export[k].row # Unreadable <=> k <= n
      BY <1>2, <1>4, <2>1
    <3> QED
      BY <1>2, <3>1
  <2>2. CASE n # 0 /\ export[n].row = Unreadable
    <3>1. n - 1 \in 0 .. n /\ (n - 1) + 1 = n
      BY <1>2, <2>2
    <3>2. \A k \in 1 .. n : export[k].row # Unreadable <=> k <= n - 1
      BY <1>2, <1>4, <2>2
    <3> QED
      BY <2>2, <3>1, <3>2
  <2> QED
    BY <2>1, <2>2
<1>6. /\ Len(rows) = m /\ DOMAIN rows = 1 .. m
      /\ \A k \in 1 .. m : rows[k] = export[k].row /\ rows[k] # Unreadable /\ IsRow(rows[k])
  BY <1>5, FrontOfExport
<1>7. m \in Nat /\ \A k \in 1 .. m : k \in DOMAIN export
  BY <1>2, <1>5
<1> HIDE DEF rows
<1>8. Len(requests) = m /\ DOMAIN requests = 1 .. m
  BY <1>6, <1>7
<1>9. ASSUME NEW k \in 1 .. m
      PROVE  LET row == export[k].row
             IN  /\ row # Unreadable /\ IsRow(row) /\ Carries(requests[k], row)
                 /\ requests[k].status # 200 => requests[k].usage = row.usage
  <2>1. PICK row : row = export[k].row
    OBVIOUS
  <2>2. requests[k] = Transcribed(row, setting.target) /\ row # Unreadable /\ IsRow(row)
    BY <1>6, <2>1
  <2>3. row.status = 200 /\ row.target = Absent
    BY <1>7, <2>1, <2>2
  <2>4. Carries(requests[k], row) /\ requests[k].status = 200
    BY <2>2, <2>3, TranscribedCarries DEF Carries
  <2> QED
    BY <2>1, <2>2, <2>4
<1> HIDE DEF requests
<1>a. m = n \/ (m + 1 = n /\ PassesUnseen(m + 1, setting))
  BY <1>5 DEF PassesUnseen
<1>b. Tells(requests, m, setting)
  BY <1>8, <1>9, <1>a DEF Tells
<1> QED
  BY <1>1, <1>7, <1>b

\* What a line adds to the bill, as far as the program can see.
Seen(k, setting) == IF PassesUnseen(k, setting) THEN 0 ELSE export[k].charge

\* What a request adds to the total.
Spent(trace, setting, k) ==
  IF k \in Priced(trace, setting)
  THEN SpendRate(trace.requests[k], setting) * Cost(trace.requests[k]) ELSE 0

LEMMA NothingBlocks ==
  ASSUME NEW trace, NEW setting, Blockers(trace, setting) = {}
  PROVE  /\ ExcludedBilled(trace) = {}
         /\ \A i \in Analysed(trace) : Exclusion(trace.requests[i], setting) = ""
<1>1. /\ ExcludedBilled(trace) = {}
      /\ {Exclusion(trace.requests[i], setting) : i \in Analysed(trace)} \ {""} = {}
  BY DEF Blockers
<1>2. ASSUME NEW i \in Analysed(trace) PROVE Exclusion(trace.requests[i], setting) = ""
  <2>1. Exclusion(trace.requests[i], setting)
          \in {Exclusion(trace.requests[j], setting) : j \in Analysed(trace)}
    OBVIOUS
  <2> QED
    BY <1>1, <2>1, Zenon
<1> QED
  BY <1>1, <1>2

LEMMA SpentIsSeen ==
  ASSUME ChargedByTheList, export \in Seq(Lines), NEW trace, NEW setting,
         Blockers(trace, setting) = {}, setting.rate = Absent, setting.date = Absent,
         NEW m \in Nat, Tells(trace.requests, m, setting), NEW k \in 1 .. m
  PROVE  Spent(trace, setting, k) = Seen(k, setting) /\ Seen(k, setting) \in Nat
<1>1. PICK r, line, row : r = trace.requests[k] /\ line = export[k] /\ row = line.row
  OBVIOUS
<1>2. k \in 1 .. Len(export) /\ k \in DOMAIN trace.requests
  BY DEF Tells
<1>3. line \in Lines /\ line.charge \in Nat
  BY <1>1, <1>2, LinesAssumption
<1>4. /\ row # Unreadable /\ IsRow(row) /\ Carries(r, row)
      /\ r.status # 200 => r.usage = row.usage
  BY <1>1 DEF Tells
<1>5. /\ r.status = 200 => HasUsage(r.usage)
      /\ r.status # 200 => ~ (BilledInput(r.usage) > 0)
  BY <1>1, <1>2, NothingBlocks, NoneExcluded
<1>6. k \in Analysed(trace) <=> Analysable(r)
  BY <1>1, <1>2 DEF Analysed
<1>7. k \in Priced(trace, setting) <=> Analysable(r)
  BY <1>1, <1>6, NothingBlocks DEF Priced
<1>8. CASE r.status = 200
  <2>1. Analysable(r) /\ k \in Analysed(trace)
    BY <1>5, <1>6, <1>8 DEF Analysable
  <2>2. Exclusion(r, setting) = ""
    BY <1>1, <2>1, NothingBlocks
  <2>3. SpendRate(r, setting) * Cost(r) = line.charge
    BY <1>1, <1>3, <1>4, <2>1, <2>2, PricedAtItsCharge
  <2>4. Spent(trace, setting, k) = line.charge
    BY <1>1, <1>7, <2>1, <2>3 DEF Spent
  <2>5. ~ PassesUnseen(k, setting)
    BY <1>1, <1>4, <1>8 DEF PassesUnseen, Carries
  <2> QED
    BY <1>1, <1>3, <2>4, <2>5 DEF Seen
<1>9. CASE r.status # 200
  <2>1. Spent(trace, setting, k) = 0
    BY <1>7, <1>9 DEF Spent, Analysable
  <2>2. PICK billed \in Nat : billed = BilledInput(row.usage)
    BY <1>4, RowsBill
  <2>3. billed = 0
    BY <1>4, <1>5, <1>9, <2>2
  <2>4. PassesUnseen(k, setting)
    BY <1>1, <1>4, <1>9, <2>2, <2>3 DEF PassesUnseen, Carries
  <2> QED
    BY <2>1, <2>4 DEF Seen
<1> QED
  BY <1>8, <1>9

LEMMA SpendIsSeen ==
  ASSUME ChargedByTheList, export \in Seq(Lines), NEW trace, NEW setting,
         Blockers(trace, setting) = {}, setting.rate = Absent, setting.date = Absent,
         NEW m \in Nat, Tells(trace.requests, m, setting)
  PROVE  Spend(trace, setting)
           = SumTo(Len(export), [k \in DOMAIN export |-> Seen(k, setting)])
<1> DEFINE g == [k \in DOMAIN trace.requests |-> Spent(trace, setting, k)]
           h == [k \in DOMAIN export |-> Seen(k, setting)]
<1>1. Spend(trace, setting) = SumTo(Len(trace.requests), g)
  BY Zenon DEF Spend, Total, Spent
<1>2. Len(trace.requests) = m /\ DOMAIN trace.requests = 1 .. m
  BY DEF Tells
<1>3. \A k \in 1 .. m : k \in DOMAIN export
  BY DEF Tells
<1>4. \A k \in 1 .. m : g[k] \in Nat /\ h[k] = g[k]
  BY <1>2, <1>3, SpentIsSeen
<1>5. CASE m = Len(export)
  <2> HIDE DEF g, h
  <2>1. SumTo(m, g) = SumTo(m, h)
    BY <1>4, SumsAgree
  <2> QED
    BY <1>1, <1>2, <1>5, <2>1 DEF h
<1>6. CASE m + 1 = Len(export) /\ PassesUnseen(m + 1, setting)
  <2>1. m + 1 \in DOMAIN export
    BY <1>6
  <2>2. h[m + 1] = 0
    BY <1>6, <2>1 DEF Seen
  <2> HIDE DEF g, h
  <2>3. SumTo(m, g) = SumTo(m + 1, h)
    BY <1>4, <2>2, NothingLast, SMTT(30)
  <2> QED
    BY <1>1, <1>2, <1>6, <2>3 DEF h
<1> QED
  BY <1>5, <1>6 DEF Tells

\* A report is whole: what it calls reconciled is the spend of a trace that nothing blocks.
Whole(report) ==
  report.spend.input.as = "reconciled" =>
    /\ Blockers(TraceOf(report.setting), report.setting) = {}
    /\ report.spend.input.usd = Spend(TraceOf(report.setting), report.setting)

LEMMA PrintedIsWhole ==
  ASSUME NEW setting, NEW invoice, NEW allow
  PROVE  Whole(Printed(setting, invoice, allow, Facts(setting)))
<1> DEFINE facts  == Facts(setting)
           d      == Decision(facts.spend, facts.blockers, invoice, allow, setting.assumed)
           plain  == Analysis(facts, invoice, allow, setting.assumed)
           a      == IF setting.assumed THEN DraftBecauseAssumed(plain) ELSE plain
           report == Printed(setting, invoice, allow, facts)
           figure == Figure(facts.spend, FALSE)
<1>1. d.ok \in BOOLEAN /\ d.as \in {"reconciled", "draft"} /\ (d.as = "reconciled" => d.ties /\ ~ setting.assumed)
  BY Decided
<1>2. d.ties => facts.blockers = {}
  BY Zenon DEF Decision
<1>3. /\ facts.blockers = Blockers(TraceOf(setting), setting)
      /\ facts.spend = Spend(TraceOf(setting), setting)
  BY DEF Facts
<1>4. /\ DOMAIN plain.spend = {"input", "uncached", "saved", "month"}
      /\ plain.spend.input = Release(figure, d.ok, d.why, d.as)
  BY DEF Analysis, SpendMap
<1>5. report.setting = setting /\ report.spend = a.spend
  BY DEF Printed
<1>6. IsFigure(figure) /\ figure.usd = facts.spend
  BY FigureIsFigure DEF Figure
<1> HIDE DEF facts, d, plain, report, figure
<1>7. PICK f : f = plain.spend.input
  OBVIOUS
<1>8. /\ IsFigure(f) /\ f.usd = facts.spend /\ f.released = d.ok
      /\ d.ok => f.as = d.as
      /\ ~ d.ok => f.as = Blank
  <2>1. f = Release(figure, d.ok, d.why, d.as)
    BY <1>4, <1>7
  <2>2. f.usd = figure.usd
    BY <1>6, <2>1 DEF Release, IsFigure
  <2>3. d.as # Blank
    BY <1>1, LabelsAreNotBlank
  <2> QED
    BY <1>1, <1>6, <2>1, <2>2, <2>3, Releasing
<1>9. CASE ~ setting.assumed
  <2>1. report.spend.input = f
    BY <1>5, <1>7, <1>9
  <2>2. f.as = "reconciled" => facts.blockers = {}
    BY <1>1, <1>2, <1>8, LabelsAreNotBlank
  <2> QED
    BY <1>3, <1>5, <1>8, <2>1, <2>2 DEF Whole, report, facts
<1>10. CASE setting.assumed
  <2>1. report.spend.input = Drafted(f)
    BY <1>4, <1>5, <1>7, <1>10 DEF DraftBecauseAssumed
  <2>2. Drafted(f).as # "reconciled"
    <3>1. CASE f = Absent \/ ~ f.released
      <4>1. Drafted(f) = f
        BY <3>1 DEF Drafted
      <4>2. f.as # "reconciled"
        BY <1>1, <1>8, <1>10, LabelsAreNotBlank
      <4> QED
        BY <4>1, <4>2
    <3>2. CASE f # Absent /\ f.released
      <4>1. Drafted(f) = Release(f, TRUE, Blank, "draft")
        BY <3>2, Zenon DEF Drafted, Blank
      <4>2. IsFigure(f) /\ "draft" # Blank
        BY <1>8, LabelsAreNotBlank
      <4>3. Release(f, TRUE, Blank, "draft").as = "draft"
        BY <4>2, Relabelling, Zenon
      <4> QED
        BY <4>1, <4>3
    <3> QED
      BY <3>1, <3>2
  <2> QED
    BY <2>1, <2>2 DEF Whole, report, facts
<1> QED
  BY <1>9, <1>10

BillInv ==
  /\ export \in Seq(Lines) /\ Len(export) <= MaxLines
  /\ shown.kind = "report" => shown.setting \in SettingsOf(export) /\ Whole(shown)

\* A total that is published as reconciled is the sum of what the provider charged for
\* the lines of the export: for any export, settings, rules and invoice, if the provider
\* charges by the list and transcripts hold answered calls only.
THEOREM TotalsAreCharges ==
  ASSUME ChargedByTheList, TranscriptsAreAnswers
  PROVE  Spec => []ReconciledMeansComplete
<1>1. Init => BillInv
  BY LinesAssumption DEF Init, BillInv, Nothing
<1>2. BillInv /\ [Next]_<<export, shown>> => BillInv'
  <2> SUFFICES ASSUME BillInv, [Next]_<<export, shown>> PROVE BillInv'
    OBVIOUS
  <2>1. CASE UNCHANGED <<export, shown>>
    BY <2>1 DEF BillInv, Whole, TraceOf, Rows
  <2>2. ASSUME NEW setting \in SettingsOf(export), Report(setting) PROVE BillInv'
    <3>1. PICK invoice, allow : shown' = Printed(setting, invoice, allow, Facts(setting))
      BY <2>2 DEF Report
    <3>2. export' = export
      BY <2>2 DEF Report
    <3>3. Whole(shown') /\ shown'.setting = setting
      BY <3>1, PrintedIsWhole DEF Printed
    <3> QED BY <3>2, <3>3 DEF BillInv, Whole, TraceOf, Rows
  <2>3. ASSUME NEW line \in Lines, Write(line) PROVE BillInv'
    <3>1. shown' = Nothing /\ export' = Append(export, line) /\ Len(export) < MaxLines
      BY <2>3 DEF Write
    <3>2. export' \in Seq(Lines) /\ Len(export') = Len(export) + 1
      BY <3>1 DEF BillInv
    <3>3. Len(export') <= MaxLines
      BY <3>1, <3>2, LinesAssumption DEF BillInv
    <3> QED BY <3>1, <3>2, <3>3 DEF BillInv, Nothing
  <2>4. ASSUME NEW setting, Refuse(setting) \/ Crash(setting) \/ BakeOffAll(setting)
                              \/ BakeOffByAgent(setting)
        PROVE  BillInv'
    <3>1. export' = export
      BY <2>4 DEF Refuse, Crash, BakeOffAll, BakeOffByAgent
    <3> QED BY <2>4, <3>1, OthersPublishNothing DEF BillInv
  <2> QED BY <2>1, <2>2, <2>3, <2>4 DEF Next
<1>3. ASSUME BillInv PROVE ReconciledMeansComplete
  <2> SUFFICES ASSUME Publishes("report"), shown.spend.input.as = "reconciled",
                      shown.setting.rate = Absent, shown.setting.date = Absent
               PROVE  shown.spend.input.usd
                        = SumTo(Len(export), [k \in DOMAIN export |-> Seen(k, shown.setting)])
    BY Zenon DEF ReconciledMeansComplete, Seen
  <2>1. PICK setting, trace : setting = shown.setting /\ trace = TraceOf(setting)
    OBVIOUS
  <2>2. /\ export \in Seq(Lines) /\ Len(export) <= MaxLines /\ setting \in SettingsOf(export)
        /\ Blockers(trace, setting) = {} /\ shown.spend.input.usd = Spend(trace, setting)
    BY <1>3, <2>1 DEF BillInv, Whole, Publishes
  <2>3. /\ setting.source \in {"trace", "sessions"}
        /\ setting.source = "sessions" =>
             \A k \in DOMAIN export : LET row == export[k].row IN
               row # Unreadable => row.status = 200 /\ row.target = Absent
    <3>1. PICK n : n = Len(export)
      OBVIOUS
    <3>2. n \in 0 .. MaxLines /\ export \in [1 .. n -> Lines]
      BY <2>2, <3>1, LinesAssumption
    <3>3. export \in UNION {[1 .. i -> Lines] : i \in 0 .. MaxLines}
      BY <3>2
    <3> QED
      BY <2>2, <3>3, Zenon DEF TranscriptsAreAnswers
  <2>4. ~ (trace.skipped > 0)
    BY <2>2, NothingBlocks, NoneExcluded
  <2>5. \E m \in Nat : Tells(trace.requests, m, setting)
    <3>1. CASE setting.source = "trace"
      <4>1. trace = Load(Rows, setting.target) /\ Len(export) \in Nat
        BY <2>1, <2>2, <3>1 DEF TraceOf
      <4> QED
        BY <2>2, <2>4, <4>1, LoadTells
    <3>2. CASE setting.source = "sessions"
      <4>1. trace = LoadSessions(Rows, setting.target)
        BY <2>1, <3>2 DEF TraceOf
      <4> QED
        BY <2>2, <2>3, <2>4, <3>2, <4>1, SessionsTell
    <3> QED
      BY <2>3, <3>1, <3>2
  <2> QED
    BY <2>1, <2>2, <2>5, SpendIsSeen
<1> QED BY <1>1, <1>2, <1>3, PTL DEF Spec

=============================================================================
