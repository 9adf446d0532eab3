--------------------------- MODULE CoverageProofs ---------------------------
(***************************************************************************)
(* Lemmas about the extraction and the assessment of coverage gaps.        *)
(***************************************************************************)
EXTENDS Coverage, TLAPS

\* Every incomplete source of a report becomes a gap with the source's status.
LEMMA IncompleteSourceIsGap ==
  ASSUME NEW r \in ReportType, NamesAreUnique(r),
         NEW s \in Entries(r), s.status # "complete"
  PROVE  \E g \in SourceGaps(r) : g.status = s.status
<1> DEFINE Wanted(t) == t.name = s.name /\ t.status # "complete"
<1> DEFINE g == Gap(<<"source", r.domain, s.name>>, s.status, s.notes = "severe")
<1>1. r.sources \in Seq(SourceType)
  BY DEF ReportType
<1>2. PICK i \in DOMAIN r.sources : r.sources[i] = s
  BY DEF Entries
<1>3. i \in 1..Len(r.sources) /\ s \in SourceType
  BY <1>1, <1>2
<1>4. \A j \in 1..(i - 1) : j \in DOMAIN r.sources /\ j # i
  BY <1>1, <1>3
<1>5. \A j \in 1..(i - 1) : ~ Wanted(r.sources[j])
  BY <1>2, <1>4 DEF NamesAreUnique
<1>6. s \in First(r.sources, Wanted)
  BY <1>2, <1>5 DEF First
<1>7. s.name \in Names
  BY <1>3 DEF SourceType
<1>8. g \in SourceGaps(r)
  <2>1. First(r.sources, Wanted)
          = First(r.sources, LAMBDA t : t.name = s.name /\ t.status # "complete")
    OBVIOUS
  <2>2. g \in SourceGap(r, s.name)
    BY <1>6, <2>1 DEF SourceGap
  <2> QED
    BY <1>7, <2>2 DEF SourceGaps
<1>9. g.status = s.status
  BY DEF Gap
<1> QED
  BY <1>8, <1>9

\* Missing telemetry is never assessed as less than critical by the fallback.
LEMMA MissingIsLow ==
  ASSUME NEW gaps, NEW g \in gaps, g.status = "missing"
  PROVE  Confidence(FallbackAssessments(gaps)) = "low"
<1> DEFINE a == Assess(g, "critical", TRUE)
<1>1. a \in FallbackAssessments(gaps)
  BY DEF FallbackAssessments, Critical
<1>2. a.relevance = "critical" /\ a.change
  BY DEF Assess
<1> HIDE DEF a
<1> QED
  BY <1>1, <1>2 DEF Confidence

\* The fallback assesses every gap, so that no gap leaves the confidence high.
LEMMA GapIsNotHigh ==
  ASSUME NEW gaps, NEW g \in gaps, g.status \in {"missing", "partial", "unknown"}
  PROVE  /\ \E a \in FallbackAssessments(gaps) : a.gap = g.id
         /\ Confidence(FallbackAssessments(gaps)) # "high"
<1>1. PICK a \in FallbackAssessments(gaps) :
         a.gap = g.id /\ a.relevance \in {"critical", "relevant"}
  <2>1. CASE Critical(g)
    <3>1. Assess(g, "critical", TRUE) \in FallbackAssessments(gaps)
      BY <2>1 DEF FallbackAssessments
    <3> QED BY <3>1 DEF Assess
  <2>2. CASE ~ Critical(g)
    <3>1. Assess(g, "relevant", FALSE) \in FallbackAssessments(gaps)
      BY <2>2 DEF FallbackAssessments, Critical
    <3> QED BY <3>1 DEF Assess
  <2> QED BY <2>1, <2>2
<1>2. Confidence(FallbackAssessments(gaps)) # "high"
  BY <1>1 DEF Confidence
<1> QED
  BY <1>1, <1>2

\* A gap more never raises the confidence.
THEOREM MoreGapsNeverHelp ==
  ASSUME NEW gaps, NEW more, gaps \subseteq more
  PROVE  BandRank[Confidence(FallbackAssessments(more))]
           <= BandRank[Confidence(FallbackAssessments(gaps))]
<1> DEFINE A == FallbackAssessments(gaps)
<1> DEFINE B == FallbackAssessments(more)
<1>1. A \subseteq B
  BY DEF FallbackAssessments
<1> HIDE DEF A, B
<1>2. Confidence(A) = "low" => Confidence(B) = "low"
  BY <1>1 DEF Confidence
<1>3. Confidence(A) = "medium" => Confidence(B) \in {"low", "medium"}
  BY <1>1 DEF Confidence
<1>4. Confidence(A) \in {"low", "medium", "high"}
  BY DEF Confidence
<1>5. Confidence(B) \in {"low", "medium", "high"}
  BY DEF Confidence
<1>6. BandRank[Confidence(B)] <= BandRank[Confidence(A)]
  BY <1>2, <1>3, <1>4, <1>5 DEF BandRank
<1> QED
  BY <1>6 DEF A, B
=============================================================================
