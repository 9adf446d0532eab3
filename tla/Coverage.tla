------------------------------ MODULE Coverage ------------------------------
(***************************************************************************)
(* How Blindsight turns what it knows about missing telemetry into the     *)
(* confidence of a hypothesis: the coverage report of each evidence        *)
(* domain, the observations the pipeline makes of the tools' answers, the  *)
(* gaps extracted from both, the assessment of each gap and the band.      *)
(*                                                                         *)
(* A source entry keeps its status, whether it lists missing fields, and   *)
(* the one thing the notes are read for: no notes, harmless ones, or notes *)
(* holding a keyword of _SEVERE_PARTIAL_KEYWORDS.  Texts are left out.     *)
(***************************************************************************)
EXTENDS Naturals, Sequences

CONSTANTS Domains,   \* evidence domains
          Names,     \* names of telemetry sources
          NoReport   \* an envelope without a coverage report

Status == {"complete", "partial", "missing", "unknown"}
Notes == {"none", "plain", "severe"}
SourceType == [name : Names, status : Status, notes : Notes, fields : BOOLEAN]
ReportType == [domain : Domains, status : Status, sources : Seq(SourceType),
               fields : BOOLEAN]

ASSUME NoReportAssumption == NoReport \notin ReportType

Entries(r) == {r.sources[i] : i \in DOMAIN r.sources}
\* coverage.yaml lists a source once.
NamesAreUnique(r) ==
  \A i, j \in DOMAIN r.sources : r.sources[i].name = r.sources[j].name => i = j

\* The first entry of a report that satisfies P: at most one element.
First(sources, P(_)) ==
  {sources[i] : i \in {i \in DOMAIN sources :
     P(sources[i]) /\ \A j \in 1..(i - 1) : ~ P(sources[j])}}

-----------------------------------------------------------------------------
(***************************************************************************)
(* Merging the reports of the domains.  The sources keep their domain; the *)
(* top-level missing_fields survive from the first report only.            *)
(***************************************************************************)
StatusRank == [complete |-> 0, unknown |-> 1, partial |-> 2, missing |-> 3]

\* Mutant: the first domain's sources are lost.
LastReportOnly(reports) == {reports[Len(reports)]}

\* A merged report is [status, parts, fields]; parts are the reports whose
\* sources it lists.
WorstStatus(reports) ==
  CHOOSE s \in {reports[i].status : i \in DOMAIN reports} :
    \A i \in DOMAIN reports : StatusRank[reports[i].status] <= StatusRank[s]

MergedSources(reports) == {reports[i] : i \in DOMAIN reports}

Merged(reports) ==
  [status |-> WorstStatus(reports), parts |-> MergedSources(reports),
   fields |-> reports[1].fields]

-----------------------------------------------------------------------------
(***************************************************************************)
(* Gaps.  An id says where the gap was seen; of several candidates with    *)
(* one id the first one is kept.                                           *)
(***************************************************************************)
ObservationTypes == {"coverage_gap", "missing_fields", "limitation"}

Gap(id, status, severe) == [id |-> id, status |-> status, severe |-> severe]

Lacking(s) == s.status \in {"partial", "missing"}

SourceGap(r, n) ==
  {Gap(<<"source", r.domain, n>>, s.status, s.notes = "severe") :
     s \in First(r.sources, LAMBDA t : t.name = n /\ t.status # "complete")}
SourceGaps(r) == UNION {SourceGap(r, n) : n \in Names}

GlobalGap == Gap(<<"global_missing_fields">>, "partial", FALSE)

\* What one tool answer contributes: at most one gap per observation type, all
\* with status "partial".  A missing source without notes is described as
\* "unavailable" by build_limitations, which is a severe keyword.
ObservedGaps(tool, r) ==
  LET Obs(type, ss, Severe(_)) ==
        {Gap(<<"obs", tool, type>>, "partial", Severe(s)) : s \in ss}
  IN Obs("coverage_gap", First(r.sources, Lacking),
         LAMBDA s : s.notes = "severe")
     \cup Obs("missing_fields", First(r.sources, LAMBDA s : s.fields),
              LAMBDA s : FALSE)
     \cup Obs("limitation", First(r.sources, Lacking),
              LAMBDA s : \/ s.notes = "severe"
                         \/ s.notes = "none" /\ s.status = "missing")

ReportGaps(merged) ==
  UNION {SourceGaps(r) : r \in merged.parts}
  \cup (IF merged.fields THEN {GlobalGap} ELSE {})

-----------------------------------------------------------------------------
(***************************************************************************)
(* Assessment and confidence.                                              *)
(***************************************************************************)
Relevance == {"critical", "relevant", "minor", "irrelevant"}

Assess(g, relevance, change) ==
  [gap |-> g.id, relevance |-> relevance, change |-> change]

\* Mutant: a missing source is a partial one.
MissingIsPartial(gaps) ==
  {Assess(g, "critical", TRUE) : g \in {h \in gaps : h.severe}}
  \cup {Assess(g, "relevant", FALSE) : g \in {h \in gaps : ~ h.severe}}

Critical(g) == g.status = "missing" \/ (g.status = "partial" /\ g.severe)

FallbackAssessments(gaps) ==
  {Assess(g, "critical", TRUE) : g \in {h \in gaps : Critical(h)}}
  \cup {Assess(g, "relevant", FALSE) :
          g \in {h \in gaps : ~ Critical(h) /\ h.status \in {"partial", "unknown"}}}

Confidence(assessments) ==
  CASE \E a \in assessments : a.relevance = "critical" /\ a.change -> "low"
    [] /\ ~ \E a \in assessments : a.relevance = "critical" /\ a.change
       /\ \E a \in assessments : a.relevance \in {"critical", "relevant"} -> "medium"
    [] OTHER -> "high"

BandRank == [low |-> 0, medium |-> 1, high |-> 2]
=============================================================================
