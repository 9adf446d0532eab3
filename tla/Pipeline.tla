------------------------------ MODULE Pipeline ------------------------------
(***************************************************************************)
(* run_investigation: one bounded investigation over subprocess MCP        *)
(* servers, the identity domain, optionally the application domain, and    *)
(* the case store.                                                         *)
(*                                                                         *)
(* A tool call is a step.  A domain call made by _call_and_record and the  *)
(* best-effort recording of it are one step, since a recording that fails  *)
(* changes nothing; an ingest is a step of its own.  A call may answer     *)
(* with an error envelope, and a server process may die at any time, after *)
(* which every call to it raises.                                          *)
(*                                                                         *)
(* Entities and relationships are left out but for the number of           *)
(* principals; an event is its id, its date and whether it is a login.     *)
(***************************************************************************)
EXTENDS Coverage, FiniteSets

CONSTANTS
  Scenarios,   \* replay scenarios: what the domain servers answer from
  Configs,     \* [budget, maxEvents, llm]: arguments of run_investigation
  MaxFaults    \* bound: error answers and server deaths in one run

Servers == {"identity", "app", "case"}
ASSUME DomainsAssumption == Domains = {"identity", "app"}

\* A date is 100 * month + day.
Event == [id : STRING, ts : Nat, login : BOOLEAN]
Scenario == [app : BOOLEAN, principals : Nat, tooLong : BOOLEAN,
             events : [Domains -> Seq(Event)], coverage : [Domains -> ReportType]]
Config == [budget : Nat, maxEvents : Nat, llm : BOOLEAN]

EventsOf(s, d) == {s.events[d][i] : i \in DOMAIN s.events[d]}

ASSUME InputsAssumption ==
  /\ \A s \in Scenarios :
       /\ s.app \in BOOLEAN /\ s.principals \in Nat /\ s.tooLong \in BOOLEAN
       /\ \A d \in Domains :
            /\ s.coverage[d] \in ReportType /\ s.coverage[d].domain = d
            /\ NamesAreUnique(s.coverage[d])
            /\ s.events[d] \in Seq(Event)
  /\ \A c \in Configs : c.budget \in Nat /\ c.maxEvents \in Nat /\ c.llm \in BOOLEAN
  /\ MaxFaults \in Nat

NoWindow == [lo |-> 0, hi |-> 0]

Stages == {"create", "coverage", "app_coverage", "principals", "neighbors",
           "domain", "events", "app_events", "focal", "narrow", "timeline",
           "focal_events", "focal_neighbors", "score", "assess", "persist"}
Outcomes == {"running", "report", "no_principals", "error_report", "exception"}

VARIABLES
  scenario, conf,  \* the inputs of the run
  up,              \* server processes alive
  faults,          \* error answers and deaths so far
  pc,              \* the stage the pipeline is at
  ingesting,       \* between a call and the ingest of its answer
  answer,          \* that answer
  count,           \* tool_call_count
  sent,            \* all tool calls sent, recordings included
  cov,             \* the coverage report each domain's describe_coverage gave
  observed,        \* gaps among coverage_observations
  principals, mapped, left,  \* principals found, traversed, and left in the loop at pc
  found,           \* evidence_events
  window,          \* narrow_start and narrow_end
  stored,          \* what the case holds: events and coverage reports
  assessed,        \* gap_assessments
  confidence,
  artifacts,       \* events the persisted evidence items cite
  outcome

vars == <<scenario, conf, up, faults, pc, ingesting, answer, count, sent, cov,
          observed, principals, mapped, left, found, window, stored, assessed,
          confidence, artifacts, outcome>>
inputs == <<scenario, conf>>
work == <<cov, observed, principals, mapped, left, found, window>>
result == <<assessed, confidence, artifacts>>

-----------------------------------------------------------------------------
(***************************************************************************)
(* Answers.                                                                *)
(***************************************************************************)
Reply(events, report, n) == [events |-> events, report |-> report, principals |-> n]
Failed == Reply({}, NoReport, 0)

\* The first conf.maxEvents events of a domain's file.  No answer carries a
\* page token: build_envelope never sets one.
Page(d) == {scenario.events[d][i] :
              i \in {i \in DOMAIN scenario.events[d] : i <= conf.maxEvents}}

DescribeCoverage(d) ==
  IF scenario.tooLong THEN Failed ELSE Reply({}, scenario.coverage[d], 0)
SearchEvents(d) ==
  IF scenario.tooLong \/ conf.maxEvents < 1
  THEN Failed ELSE Reply(Page(d), scenario.coverage[d], 0)
SearchPrincipals == Reply({}, scenario.coverage["identity"], scenario.principals)
GetNeighbors == Reply({}, scenario.coverage["identity"], 0)

SearchWindow(w) ==
  IF w.lo > w.hi THEN Failed
  ELSE Reply({e \in EventsOf(scenario, "identity") : w.lo <= e.ts /\ e.ts <= w.hi},
             scenario.coverage["identity"], 0)

Observations(tool, r) ==
  IF r.report = NoReport THEN {} ELSE ObservedGaps(tool, r.report)

\* What ingest_records stores of an answer.
CoverageRow(d) == [coverage |-> d]
\* Mutant: an answer that carries coverage is stored as coverage only.
CoverageOnly(r) == IF r.report = NoReport THEN r.events ELSE {CoverageRow(r.report.domain)}
Contents(r) ==
  r.events \cup (IF r.report = NoReport THEN {} ELSE {CoverageRow(r.report.domain)})

Evidence(r) == {e \in r.events : ~ e.login}

\* narrow_start and narrow_end: from the first evidence day to two days after
\* the last one, at most the 28th.
Times(events) == {e.ts : e \in events}
Earliest(T) == CHOOSE t \in T : \A u \in T : t <= u
Latest(T) == CHOOSE t \in T : \A u \in T : u <= t
\* Mutant: the day is not moved to the end of the window.
ShortWindow(events) == [lo |-> Earliest(Times(events)), hi |-> Earliest(Times(events)) + 2]
Narrow(events) ==
  LET last == Latest(Times(events))
      day == last % 100
  IN [lo |-> Earliest(Times(events)),
      hi |-> (last - day) + (IF day + 2 <= 28 THEN day + 2 ELSE 28)]

-----------------------------------------------------------------------------
Init ==
  /\ scenario \in Scenarios /\ conf \in Configs
  /\ up = IF scenario.app THEN Servers ELSE {"identity", "case"}
  /\ faults = 0 /\ pc = "create" /\ ingesting = FALSE /\ answer = Failed
  /\ count = 0 /\ sent = 0
  /\ cov = [d \in Domains |-> NoReport] /\ observed = {}
  /\ principals = 0 /\ mapped = 0 /\ left = 0
  /\ found = {} /\ window = NoWindow /\ stored = {}
  /\ assessed = {} /\ confidence = "none" /\ artifacts = {}
  /\ outcome = "running"

CheckBudget == count < conf.budget
Ready(stage) == outcome = "running" /\ pc = stage /\ ~ ingesting

Stop(how) == outcome' = how /\ UNCHANGED <<inputs, up, pc, ingesting, answer, stored>>

\* A server process dies.
Die(s) ==
  /\ outcome = "running" /\ s \in up /\ faults < MaxFaults
  /\ up' = up \ {s} /\ faults' = faults + 1
  /\ UNCHANGED <<inputs, pc, ingesting, answer, count, sent, work, stored, result, outcome>>

\* _call_and_record: the answer r is the good one or an error envelope.
CallAndRecord(stage, server, good, r) ==
  /\ Ready(stage) /\ CheckBudget /\ server \in up
  /\ \/ r = good /\ faults' = faults
     \/ r = Failed /\ faults < MaxFaults /\ faults' = faults + 1
  /\ count' = count + 1 /\ sent' = sent + 2
  /\ UNCHANGED <<inputs, up, stored, result>>

Goto(stage) ==
  pc' = stage /\ ingesting' = FALSE /\ answer' = Failed /\ outcome' = outcome
\* The answer is ingested before the pipeline leaves the stage.
Keep(r) ==
  pc' = pc /\ ingesting' = TRUE /\ answer' = r /\ outcome' = outcome

CreateCase ==
  /\ Ready("create") /\ CheckBudget /\ "case" \in up
  /\ count' = count + 1
  /\ \/ /\ sent' = sent + 2 /\ faults' = faults /\ Goto("coverage")
        /\ UNCHANGED <<inputs, up, stored>>
     \/ /\ faults < MaxFaults /\ faults' = faults + 1
        /\ sent' = sent + 1 /\ Stop("error_report")
  /\ UNCHANGED <<work, result>>

CheckCoverage ==
  \E r \in {DescribeCoverage("identity"), Failed} :
     /\ CallAndRecord("coverage", "identity", DescribeCoverage("identity"), r)
     /\ cov' = [cov EXCEPT !["identity"] = r.report]
     /\ observed' = observed \cup Observations("describe_coverage", r)
     /\ Keep(r)
     /\ UNCHANGED <<principals, mapped, left, found, window>>

CheckAppCoverage ==
  \E r \in {DescribeCoverage("app"), Failed} :
     /\ scenario.app
     /\ CallAndRecord("app_coverage", "app", DescribeCoverage("app"), r)
     /\ cov' = [cov EXCEPT !["app"] = r.report]
     /\ observed' = observed \cup Observations("describe_coverage (app)", r)
     /\ Keep(r)
     /\ UNCHANGED <<principals, mapped, left, found, window>>

DiscoverPrincipals ==
  \E r \in {SearchPrincipals, Failed} :
     /\ CallAndRecord("principals", "identity", SearchPrincipals, r)
     /\ principals' = r.principals /\ left' = r.principals
     /\ IF r.principals = 0
        THEN outcome' = "no_principals" /\ UNCHANGED <<pc, ingesting, answer>>
        ELSE Keep(r)
     /\ UNCHANGED <<cov, observed, mapped, found, window>>

MapRelationships ==
  \E r \in {GetNeighbors, Failed} :
     /\ left > 0
     /\ CallAndRecord("neighbors", "identity", GetNeighbors, r)
     /\ left' = left - 1 /\ mapped' = mapped + 1
     /\ Keep(r)
     /\ UNCHANGED <<cov, observed, principals, found, window>>

\* describe_domain has no validation; its answer only feeds the step's text.
DiscoverActionTypes ==
  /\ CallAndRecord("domain", "identity", Failed, Failed)
  /\ Goto("events")
  /\ UNCHANGED work

SearchForEvidence ==
  \E r \in {SearchEvents("identity"), Failed} :
     /\ CallAndRecord("events", "identity", SearchEvents("identity"), r)
     /\ found' = Evidence(r)
     /\ observed' = observed \cup Observations("search_events", r)
     /\ Keep(r)
     /\ UNCHANGED <<cov, principals, mapped, left, window>>

SearchAppEvents ==
  \E r \in {SearchEvents("app"), Failed} :
     /\ scenario.app
     /\ CallAndRecord("app_events", "app", SearchEvents("app"), r)
     /\ found' = found \cup r.events
     /\ observed' = observed \cup Observations("search_events (app)", r)
     /\ Keep(r)
     /\ UNCHANGED <<cov, principals, mapped, left, window>>

\* resolve_focal_principals is modelled in Analysis: any non-empty number of
\* the principals may be focal.
ResolveFocal ==
  /\ Ready("focal")
  /\ left' \in 1..principals
  /\ Goto("narrow")
  /\ UNCHANGED <<inputs, up, faults, count, sent, cov, observed, principals,
                 mapped, found, window, stored, result>>

NarrowTimeline ==
  /\ found # {}
  /\ \E r \in {SearchWindow(Narrow(found)), Failed} :
     /\ CallAndRecord("narrow", "identity", SearchWindow(Narrow(found)), r)
     /\ window' = Narrow(found)
     /\ Keep(r)
     /\ UNCHANGED <<cov, observed, principals, mapped, left, found>>

\* get_timeline_tool: its answer only feeds the step's text.
GetTimeline ==
  /\ CallAndRecord("timeline", "case", Failed, Failed)
  /\ Goto("focal_events")
  /\ UNCHANGED work

\* query_events_tool and query_neighbors_tool for one focal principal.
CorrelateEvents ==
  /\ left > 0
  /\ CallAndRecord("focal_events", "case", Failed, Failed)
  /\ Goto("focal_neighbors")
  /\ UNCHANGED work

CorrelateNeighbors ==
  /\ CallAndRecord("focal_neighbors", "case", Failed, Failed)
  /\ left' = left - 1
  /\ Goto("focal_events")
  /\ UNCHANGED <<cov, observed, principals, mapped, found, window>>

-----------------------------------------------------------------------------
(***************************************************************************)
(* Ingesting, skipping, stopping.                                          *)
(***************************************************************************)
AfterIngest ==
  [coverage |-> "app_coverage", app_coverage |-> "principals",
   principals |-> "neighbors", neighbors |-> "neighbors",
   events |-> "app_events", app_events |-> "focal", narrow |-> "timeline"]

\* Mutant: the ingest after a traversal is not gated by the budget.
UncheckedIngest == pc = "neighbors" \/ CheckBudget
MayIngest == CheckBudget

IngestAnswer ==
  /\ outcome = "running" /\ ingesting
  /\ MayIngest /\ "case" \in up
  /\ count' = count + 1 /\ sent' = sent + 1
  /\ \/ stored' = stored \cup Contents(answer) /\ faults' = faults
     \/ stored' = stored /\ faults < MaxFaults /\ faults' = faults + 1
  /\ Goto(AfterIngest[pc])
  /\ UNCHANGED <<inputs, up, work, result>>

SkipIngest ==
  /\ outcome = "running" /\ ingesting
  /\ ~ MayIngest
  /\ Goto(AfterIngest[pc])
  /\ UNCHANGED <<inputs, up, faults, count, sent, work, stored, result>>

\* Stages the pipeline passes over, and where it goes on.
Unwanted(stage) ==
  \/ stage \in {"app_coverage", "app_events"} /\ ~ scenario.app
  \/ stage \in {"neighbors", "focal_events"} /\ left = 0
  \/ stage = "narrow" /\ found = {}

\* Mutant: the loop over the focal principals runs once more.
NoLoopEnd(stage) ==
  CASE stage = "app_coverage" -> "principals"
    [] stage = "neighbors" -> "domain"
    [] stage = "app_events" -> "focal"
    [] stage = "focal_events" -> "focal_neighbors"
    [] OTHER -> "focal_events"
\* Mutant: the loop over the principals goes on when the budget is exhausted.
NoBreak(stage) ==
  CASE stage = "neighbors" /\ left > 0 -> "neighbors"
    [] stage = "neighbors" /\ left = 0 -> "domain"
    [] OTHER -> "focal_events"
AfterSkip(stage) ==
  CASE stage = "app_coverage" -> "principals"
    [] stage = "neighbors" -> "domain"
    [] stage = "app_events" -> "focal"
    [] stage \in {"narrow", "timeline", "focal_neighbors"} -> "focal_events"
    [] stage = "focal_events" -> IF left = 0 THEN "score" ELSE "focal_neighbors"

SkipStage ==
  \E stage \in {"app_coverage", "neighbors", "app_events", "narrow", "timeline",
                "focal_events", "focal_neighbors"} :
     /\ Ready(stage) /\ (Unwanted(stage) \/ ~ CheckBudget)
     /\ Goto(AfterSkip(stage))
     /\ left' = IF stage = "focal_neighbors" THEN left - 1 ELSE left
     /\ UNCHANGED <<inputs, up, faults, count, sent, cov, observed, principals,
                    mapped, found, window, stored, result>>

Exhausted ==
  /\ \E stage \in {"create", "coverage", "principals", "domain", "events"} : Ready(stage)
  /\ ~ CheckBudget
  /\ Stop("error_report")
  /\ UNCHANGED <<faults, count, sent, work, result>>

ServerOf(stage) ==
  CASE stage \in {"coverage", "principals", "neighbors", "domain", "events", "narrow"}
         -> "identity"
    [] stage \in {"app_coverage", "app_events"} -> "app"
    [] OTHER -> "case"

\* A call to a dead server raises; only recording and persisting catch that.
Raise ==
  /\ outcome = "running"
  /\ \/ ingesting /\ MayIngest /\ "case" \notin up
     \/ /\ ~ ingesting /\ CheckBudget /\ ServerOf(pc) \notin up /\ ~ Unwanted(pc)
        /\ pc \notin {"focal", "score", "assess", "persist"}
  /\ Stop("exception")
  /\ UNCHANGED <<faults, count, sent, work, result>>

-----------------------------------------------------------------------------
(***************************************************************************)
(* Scoring and persisting.  The claims are modelled in Analysis.           *)
(***************************************************************************)
\* Mutant: only two reports are merged.
BothReports ==
  IF NoReport \in {cov["identity"], cov["app"]} THEN <<>> ELSE <<cov["identity"], cov["app"]>>
Reports ==
  LET id == cov["identity"]  app == cov["app"] IN
  CASE id # NoReport /\ app # NoReport -> <<id, app>>
    [] id # NoReport /\ app = NoReport -> <<id>>
    [] id = NoReport /\ app # NoReport -> <<app>>
    [] id = NoReport /\ app = NoReport -> <<>>

\* build_claims reads coverage_report of the merged envelope.
Score ==
  /\ Ready("score")
  /\ IF Reports = <<>>
     THEN Stop("exception")
     ELSE Goto("assess") /\ UNCHANGED <<inputs, up, stored>>
  /\ UNCHANGED <<faults, count, sent, work, result>>

CoverageGaps == ReportGaps(Merged(Reports)) \cup observed

\* An answer of the language model: it may cover some of the gaps only.  One
\* relevance and one contract value for all of them reach every band.
ModelAssessments(gaps) ==
  {{Assess(g, rel, change) : g \in G} :
     G \in SUBSET gaps, rel \in Relevance, change \in BOOLEAN}

AssessGaps ==
  /\ Ready("assess")
  /\ \/ /\ CoverageGaps # {} /\ conf.llm
        /\ assessed' \in ModelAssessments(CoverageGaps)
     \/ assessed' = FallbackAssessments(CoverageGaps)
  /\ confidence' = Confidence(assessed')
  /\ Goto("persist")
  /\ UNCHANGED <<inputs, up, faults, count, sent, work, stored, artifacts>>

\* Not gated by the budget; a failure is logged and the report is returned.
Persist ==
  /\ Ready("persist")
  /\ \/ /\ "case" \in up /\ count' = count + 1 /\ sent' = sent + 1
        /\ \/ artifacts' = found /\ faults' = faults
           \/ artifacts' = artifacts /\ faults < MaxFaults /\ faults' = faults + 1
     \/ /\ "case" \notin up
        /\ UNCHANGED <<count, sent, faults, artifacts>>
  /\ Stop("report")
  /\ UNCHANGED <<work, assessed, confidence>>

Step ==
  \/ CreateCase \/ CheckCoverage \/ CheckAppCoverage \/ DiscoverPrincipals
  \/ MapRelationships \/ DiscoverActionTypes \/ SearchForEvidence \/ SearchAppEvents
  \/ ResolveFocal \/ NarrowTimeline \/ GetTimeline
  \/ CorrelateEvents \/ CorrelateNeighbors
  \/ IngestAnswer \/ SkipIngest \/ SkipStage \/ Exhausted \/ Raise
  \/ Score \/ AssessGaps \/ Persist

Next == Step \/ \E s \in Servers : Die(s)

Spec == Init /\ [][Next]_vars

-----------------------------------------------------------------------------
(***************************************************************************)
(* Properties.                                                             *)
(***************************************************************************)
AllEvents == UNION {EventsOf(s, d) : s \in Scenarios, d \in Domains}
AllReports == {s.coverage[d] : s \in Scenarios, d \in Domains}
ReplyType == [events : SUBSET AllEvents, report : AllReports \cup {NoReport},
              principals : Nat]

ControlTypes ==
  /\ pc \in Stages /\ ingesting \in BOOLEAN /\ outcome \in Outcomes
  /\ answer \in ReplyType
  /\ ingesting => pc \in DOMAIN AfterIngest
CountTypes ==
  /\ faults \in 0..MaxFaults /\ count \in Nat /\ sent \in Nat
  /\ principals \in Nat /\ mapped \in Nat /\ left \in 0..principals
  /\ pc = "focal_neighbors" => left > 0
DataTypes ==
  /\ scenario \in Scenarios /\ conf \in Configs /\ up \subseteq Servers
  /\ cov \in [Domains -> AllReports \cup {NoReport}]
  /\ found \subseteq AllEvents /\ artifacts \subseteq AllEvents
  /\ stored \subseteq AllEvents \cup {CoverageRow(d) : d \in Domains}
  /\ confidence \in {"none", "low", "medium", "high"}

\* The variables have their types; an answer waits for its ingest only where the
\* pipeline ingests answers, and a loop never overruns its list.
TypeOK == ControlTypes /\ CountTypes /\ DataTypes

\* run_investigation counts at most max_tool_calls calls, and one more for the
\* artifacts it persists before it returns its report; the recordings, which it
\* does not count, at most double the calls it sends.
CountedCalls ==
  /\ count <= conf.budget + (IF outcome = "report" THEN 1 ELSE 0)
  /\ sent <= 2 * count

\* Everything the run was to collect has been collected and stored.
NothingSkipped ==
  LET domains == IF scenario.app THEN Domains ELSE {"identity"} IN
  /\ \A d \in domains : cov[d] # NoReport /\ CoverageRow(d) \in stored
  /\ mapped = scenario.principals
  /\ scenario.app => Page("app") \subseteq found
  /\ found \subseteq stored
  /\ found # {} => window # NoWindow

\* The budget is the only reason to skip work: a report of a run without faults
\* that stayed within max_tool_calls, the persist call included, has asked every
\* domain, traversed every principal and stored all the evidence it cites.
SkipsOnlyAtTheBudget ==
  (outcome = "report" /\ faults = 0 /\ count <= conf.budget) => NothingSkipped

\* The reports the assessment is based on.
Known == {cov[d] : d \in Domains} \ {NoReport}

\* Without the language model, a telemetry source that some domain reported as
\* missing makes the confidence low: no step of the merge, of the extraction or
\* of the fallback assessment loses it.
MissingSourceMeansLow ==
  /\ outcome = "report" /\ ~ conf.llm
  /\ \E r \in Known : \E s \in Entries(r) : s.status = "missing"
  => confidence = "low"

\* Without the language model, a high confidence says that every source of
\* every report that was obtained is complete.
HighMeansCompleteSources ==
  (outcome = "report" /\ ~ conf.llm /\ confidence = "high")
  => \A r \in Known : \A s \in Entries(r) : s.status = "complete"

\* As long as the last evidence is from the first 28 days of its month, the
\* narrowed window contains all the evidence.
WindowHoldsEvidence ==
  (window # NoWindow /\ Latest(Times(found)) % 100 <= 28)
  => \A e \in found : window.lo <= e.ts /\ e.ts <= window.hi

\* run_investigation raises for a reason: a server failed, or the time range of
\* the scenario is longer than the servers accept.  No budget, page size or
\* coverage makes it raise by itself, although the scoring raises when every
\* coverage report is missing and the budget skips stages before it.
RaisesForAReason == outcome = "exception" => faults > 0 \/ scenario.tooLong

\* An investigation ends, in a report or otherwise, although its loops depend on
\* what the servers answer.
Terminates == <>(outcome # "running")

-----------------------------------------------------------------------------
(***************************************************************************)
(* What the documents say and the code does not keep.                      *)
(***************************************************************************)
\* A saved case holds the events its evidence items cite, so that the report
\* can be regenerated from it.
CitedEvidenceIsStored == artifacts \subseteq stored

\* The window is around the evidence events.
WindowAroundEvidence ==
  window # NoWindow => \A e \in found : window.lo <= e.ts /\ e.ts <= window.hi
=============================================================================
