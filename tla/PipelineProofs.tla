--------------------------- MODULE PipelineProofs ---------------------------
(***************************************************************************)
(* Theorems about Pipeline, for every set of scenarios, every budget and   *)
(* every number of faults.                                                 *)
(***************************************************************************)
EXTENDS Pipeline, CoverageProofs, Induction, TLAPS

-----------------------------------------------------------------------------
(***************************************************************************)
(* Types.                                                                  *)
(***************************************************************************)
LEMMA FailedType == Failed \in ReplyType
  BY DEF Failed, Reply, ReplyType

\* What a domain's file holds are events of some scenario.
LEMMA EventsType ==
  ASSUME NEW s \in Scenarios, NEW d \in Domains
  PROVE  EventsOf(s, d) \in SUBSET AllEvents
  BY DEF AllEvents

\* A page is made of events of the scenario's files.
LEMMA PageType ==
  ASSUME scenario \in Scenarios, NEW d \in Domains
  PROVE  Page(d) \in SUBSET AllEvents
<1>1. Page(d) \subseteq EventsOf(scenario, d)
  BY DEF Page, EventsOf
<1> QED
  BY <1>1, EventsType

\* The coverage report of a domain is one of a scenario.
LEMMA ReportsType ==
  ASSUME scenario \in Scenarios, NEW d \in Domains
  PROVE  scenario.coverage[d] \in AllReports
  BY DEF AllReports

\* The answers of the domain servers are answers.
LEMMA RepliesType ==
  ASSUME TypeOK
  PROVE  /\ \A d \in Domains : DescribeCoverage(d) \in ReplyType
         /\ \A d \in Domains : SearchEvents(d) \in ReplyType
         /\ SearchPrincipals \in ReplyType
         /\ GetNeighbors \in ReplyType
         /\ \A w : SearchWindow(w) \in ReplyType
<1>1. scenario \in Scenarios
  BY DEF TypeOK, DataTypes
<1>2. "identity" \in Domains /\ "app" \in Domains
  BY DomainsAssumption
<1>3. \A d \in Domains : scenario.coverage[d] \in AllReports
  BY <1>1, ReportsType
<1>4. scenario.principals \in Nat
  BY <1>1, InputsAssumption
<1>5. ASSUME NEW d \in Domains PROVE DescribeCoverage(d) \in ReplyType
  BY <1>3, FailedType DEF DescribeCoverage, Reply, ReplyType
<1>6. ASSUME NEW d \in Domains PROVE SearchEvents(d) \in ReplyType
  BY <1>1, <1>3, FailedType, PageType DEF SearchEvents, Reply, ReplyType
<1>7. SearchPrincipals \in ReplyType /\ GetNeighbors \in ReplyType
  BY <1>2, <1>3, <1>4 DEF SearchPrincipals, GetNeighbors, Reply, ReplyType
<1>8. ASSUME NEW w PROVE SearchWindow(w) \in ReplyType
  <2> DEFINE S == {e \in EventsOf(scenario, "identity") : w.lo <= e.ts /\ e.ts <= w.hi}
  <2>1. S \in SUBSET AllEvents
    BY <1>1, <1>2, EventsType
  <2>2. SearchWindow(w) = IF w.lo > w.hi THEN Failed
                          ELSE Reply(S, scenario.coverage["identity"], 0)
    BY DEF SearchWindow
  <2> HIDE DEF S
  <2>3. Reply(S, scenario.coverage["identity"], 0) \in ReplyType
    BY <1>2, <1>3, <2>1 DEF Reply, ReplyType
  <2> QED BY <2>2, <2>3, FailedType
<1> QED
  BY <1>5, <1>6, <1>7, <1>8

\* A reply's fields.
LEMMA ReplyFields ==
  ASSUME NEW r \in ReplyType
  PROVE  /\ r.events \subseteq AllEvents
         /\ r.report \in AllReports \cup {NoReport}
         /\ r.principals \in Nat
         /\ Evidence(r) \subseteq AllEvents
         /\ Contents(r) \subseteq AllEvents \cup {CoverageRow(d) : d \in Domains}
<1>1. /\ r.events \subseteq AllEvents
      /\ r.report \in AllReports \cup {NoReport}
      /\ r.principals \in Nat
  BY DEF ReplyType
<1>2. Evidence(r) \subseteq AllEvents
  BY <1>1 DEF Evidence
<1>3. ASSUME r.report # NoReport PROVE r.report.domain \in Domains
  <2>1. PICK s \in Scenarios, d \in Domains : r.report = s.coverage[d]
    BY <1>1, <1>3 DEF AllReports
  <2> QED BY <2>1, InputsAssumption
<1>4. Contents(r) \subseteq AllEvents \cup {CoverageRow(d) : d \in Domains}
  BY <1>1, <1>3 DEF Contents
<1> QED
  BY <1>1, <1>2, <1>4

\* After an ingest the run goes on where the table says.
LEMMA AfterIngestType ==
  /\ DOMAIN AfterIngest = {"coverage", "app_coverage", "principals", "neighbors",
                           "events", "app_events", "narrow"}
  /\ \A stage \in DOMAIN AfterIngest :
       AfterIngest[stage] \in Stages \ {"focal_neighbors"}
  BY DEF AfterIngest, Stages


\* A call made by _call_and_record, with an answer r that is the good one or an
\* error envelope, moves the counters and leaves the case and the result alone.
LEMMA CallType ==
  ASSUME TypeOK, NEW stage, NEW server, NEW good,
         NEW r, CallAndRecord(stage, server, good, r)
  PROVE  /\ pc = stage /\ outcome = "running" /\ ingesting = FALSE
         /\ faults' \in 0..MaxFaults /\ count' \in Nat /\ sent' \in Nat
         /\ scenario' = scenario /\ conf' = conf /\ up' = up /\ stored' = stored
         /\ confidence' = confidence /\ artifacts' = artifacts
<1>1. MaxFaults \in Nat
  BY InputsAssumption
<1>2. ingesting \in BOOLEAN
  BY DEF TypeOK, ControlTypes
<1> QED
  BY <1>1, <1>2 DEF CallAndRecord, Ready, TypeOK, CountTypes, inputs, result

\* Where the pipeline goes next, an answer r waiting or not.
LEMMA GotoType ==
  ASSUME TypeOK, NEW stage \in Stages, Goto(stage) PROVE ControlTypes'
<1>1. Failed \in ReplyType
  BY FailedType
<1> QED
  BY <1>1 DEF Goto, TypeOK, ControlTypes

\* Keeping an answer leaves the control of the run typed.
LEMMA KeepType ==
  ASSUME TypeOK, NEW r \in ReplyType, pc \in DOMAIN AfterIngest, Keep(r)
  PROVE ControlTypes'
  BY DEF Keep, TypeOK, ControlTypes

\* Ending the run leaves its control typed.
LEMMA StopType ==
  ASSUME TypeOK, NEW how \in Outcomes, Stop(how) PROVE ControlTypes'
  BY DEF Stop, TypeOK, ControlTypes

\* The actions that keep the data a run collects.
LEMMA SameData ==
  ASSUME TypeOK, scenario' = scenario, conf' = conf, up' = up, cov' = cov,
         found' = found, stored' = stored, artifacts' = artifacts,
         confidence' = confidence
  PROVE DataTypes'
  BY DEF TypeOK, DataTypes

\* Every step keeps the types.
LEMMA TypesAreKept ==
  ASSUME TypeOK, [Next]_vars PROVE TypeOK'
<1>0. MaxFaults \in Nat
  BY InputsAssumption
<1>a. "identity" \in Domains /\ "app" \in Domains
  BY DomainsAssumption
<1>1. CASE CreateCase
  <2>7. ControlTypes'
    BY <1>1, GotoType, StopType DEF CreateCase, Stages, Outcomes
  <2>8. CountTypes'
    BY <1>0, <1>1 DEF CreateCase, Goto, Stop, TypeOK, CountTypes, Ready, work
  <2>9. DataTypes'
    BY <1>1, SameData DEF CreateCase, Stop, work, result, inputs
  <2> QED
    BY <2>7, <2>8, <2>9 DEF TypeOK
<1>2. CASE CheckCoverage
  <2>1. PICK r \in {DescribeCoverage("identity"), Failed} :
           /\ CallAndRecord("coverage", "identity", DescribeCoverage("identity"), r)
           /\ Keep(r)
           /\ cov' = [cov EXCEPT !["identity"] = r.report]
           /\ UNCHANGED <<principals, mapped, left, found, window>>
    BY <1>2 DEF CheckCoverage
  <2>2. r \in ReplyType
    BY <2>1, <1>a, FailedType, RepliesType
  <2>3. "coverage" \in DOMAIN AfterIngest
    BY AfterIngestType
  <2>7. ControlTypes'
    BY <2>1, <2>2, <2>3, CallType, KeepType
  <2>8. CountTypes'
    BY <2>1, CallType DEF TypeOK, CountTypes, Keep
  <2>9. DataTypes'
    BY <2>1, <2>2, CallType, ReplyFields DEF TypeOK, DataTypes
  <2> QED
    BY <2>7, <2>8, <2>9 DEF TypeOK
<1>3. CASE CheckAppCoverage
  <2>1. PICK r \in {DescribeCoverage("app"), Failed} :
           /\ CallAndRecord("app_coverage", "app", DescribeCoverage("app"), r)
           /\ Keep(r)
           /\ cov' = [cov EXCEPT !["app"] = r.report]
           /\ UNCHANGED <<principals, mapped, left, found, window>>
    BY <1>3 DEF CheckAppCoverage
  <2>2. r \in ReplyType
    BY <2>1, <1>a, FailedType, RepliesType
  <2>3. "app_coverage" \in DOMAIN AfterIngest
    BY AfterIngestType
  <2>7. ControlTypes'
    BY <2>1, <2>2, <2>3, CallType, KeepType
  <2>8. CountTypes'
    BY <2>1, CallType DEF TypeOK, CountTypes, Keep
  <2>9. DataTypes'
    BY <2>1, <2>2, CallType, ReplyFields DEF TypeOK, DataTypes
  <2> QED
    BY <2>7, <2>8, <2>9 DEF TypeOK
<1>4. CASE DiscoverPrincipals
  <2>1. PICK r \in {SearchPrincipals, Failed} :
           /\ CallAndRecord("principals", "identity", SearchPrincipals, r)
           /\ principals' = r.principals /\ left' = r.principals
           /\ IF r.principals = 0
              THEN outcome' = "no_principals" /\ UNCHANGED <<pc, ingesting, answer>>
              ELSE Keep(r)
           /\ UNCHANGED <<cov, observed, mapped, found, window>>
    BY <1>4 DEF DiscoverPrincipals
  <2>2. r \in ReplyType
    BY <2>1, FailedType, RepliesType
  <2>3. "principals" \in DOMAIN AfterIngest
    BY AfterIngestType
  <2>4. r.principals = 0 => ControlTypes'
    <3> SUFFICES ASSUME r.principals = 0 PROVE ControlTypes'
      OBVIOUS
    <3>1. outcome' = "no_principals" /\ UNCHANGED <<pc, ingesting, answer>>
      BY <2>1
    <3> QED
      BY <3>1 DEF TypeOK, ControlTypes, Outcomes
  <2>7. ControlTypes'
    BY <2>1, <2>2, <2>3, <2>4, CallType, KeepType
  <2>8. CountTypes'
    <3>1. r.principals \in Nat
      BY <2>2, ReplyFields
    <3>2. left' \in 0..principals' /\ principals' \in Nat
      BY <2>1, <3>1
    <3>3. pc' = "principals" /\ mapped' \in Nat
      BY <2>1, CallType DEF Keep, TypeOK, CountTypes
    <3> QED
      BY <3>2, <3>3, <2>1, CallType DEF CountTypes
  <2>9. DataTypes'
    BY <2>1, CallType, SameData
  <2> QED
    BY <2>7, <2>8, <2>9 DEF TypeOK
<1>5. CASE MapRelationships
  <2>1. PICK r \in {GetNeighbors, Failed} :
           /\ CallAndRecord("neighbors", "identity", GetNeighbors, r)
           /\ left > 0
           /\ left' = left - 1 /\ mapped' = mapped + 1
           /\ Keep(r)
           /\ UNCHANGED <<cov, observed, principals, found, window>>
    BY <1>5 DEF MapRelationships
  <2>2. r \in ReplyType
    BY <2>1, <1>a, FailedType, RepliesType
  <2>3. "neighbors" \in DOMAIN AfterIngest
    BY AfterIngestType
  <2>7. ControlTypes'
    BY <2>1, <2>2, <2>3, CallType, KeepType
  <2>8. CountTypes'
    <3>1. left \in 0..principals /\ principals \in Nat /\ mapped \in Nat
      BY DEF TypeOK, CountTypes
    <3>2. left' \in 0..principals' /\ mapped' \in Nat /\ principals' \in Nat
      BY <2>1, <3>1
    <3>3. pc' = "neighbors"
      BY <2>1, CallType DEF Keep
    <3> QED
      BY <2>1, <3>2, <3>3, CallType DEF CountTypes
  <2>9. DataTypes'
    BY <2>1, CallType, SameData
  <2> QED
    BY <2>7, <2>8, <2>9 DEF TypeOK
<1>6. CASE DiscoverActionTypes
  <2>1. /\ CallAndRecord("domain", "identity", Failed, Failed)
        /\ Goto("events")
        /\ UNCHANGED <<cov, principals, mapped, found>>
        /\ left' = left
    BY <1>6 DEF DiscoverActionTypes, work
  <2>7. ControlTypes'
    BY <2>1, GotoType DEF Stages
  <2>8. CountTypes'
    BY <1>6, <2>1, CallType DEF DiscoverActionTypes, TypeOK, CountTypes, Goto
  <2>9. DataTypes'
    BY <2>1, CallType, SameData
  <2> QED
    BY <2>7, <2>8, <2>9 DEF TypeOK
<1>7. CASE SearchForEvidence
  <2>1. PICK r \in {SearchEvents("identity"), Failed} :
           /\ CallAndRecord("events", "identity", SearchEvents("identity"), r)
           /\ found' = Evidence(r)
           /\ Keep(r)
           /\ UNCHANGED <<cov, principals, mapped, left, window>>
    BY <1>7 DEF SearchForEvidence
  <2>2. r \in ReplyType
    BY <2>1, <1>a, FailedType, RepliesType
  <2>3. "events" \in DOMAIN AfterIngest
    BY AfterIngestType
  <2>7. ControlTypes'
    BY <2>1, <2>2, <2>3, CallType, KeepType
  <2>8. CountTypes'
    BY <2>1, CallType DEF TypeOK, CountTypes, Keep
  <2>9. DataTypes'
    BY <2>1, <2>2, CallType, ReplyFields DEF TypeOK, DataTypes
  <2> QED
    BY <2>7, <2>8, <2>9 DEF TypeOK
<1>8. CASE SearchAppEvents
  <2>1. PICK r \in {SearchEvents("app"), Failed} :
           /\ CallAndRecord("app_events", "app", SearchEvents("app"), r)
           /\ found' = found \cup r.events
           /\ Keep(r)
           /\ UNCHANGED <<cov, principals, mapped, left, window>>
    BY <1>8 DEF SearchAppEvents
  <2>2. r \in ReplyType
    BY <2>1, <1>a, FailedType, RepliesType
  <2>3. "app_events" \in DOMAIN AfterIngest
    BY AfterIngestType
  <2>7. ControlTypes'
    BY <2>1, <2>2, <2>3, CallType, KeepType
  <2>8. CountTypes'
    BY <2>1, CallType DEF TypeOK, CountTypes, Keep
  <2>9. DataTypes'
    BY <2>1, <2>2, CallType, ReplyFields DEF TypeOK, DataTypes
  <2> QED
    BY <2>7, <2>8, <2>9 DEF TypeOK
<1>9. CASE ResolveFocal
  <2>7. ControlTypes'
    BY <1>9, GotoType DEF ResolveFocal, Stages
  <2>8. CountTypes'
    BY <1>9 DEF ResolveFocal, Goto, TypeOK, CountTypes
  <2>9. DataTypes'
    BY <1>9, SameData DEF ResolveFocal, inputs, result
  <2> QED
    BY <2>7, <2>8, <2>9 DEF TypeOK
<1>10. CASE NarrowTimeline
  <2>1. PICK r \in {SearchWindow(Narrow(found)), Failed} :
           /\ CallAndRecord("narrow", "identity", SearchWindow(Narrow(found)), r)
           /\ Keep(r)
           /\ UNCHANGED <<cov, observed, principals, mapped, left, found>>
    BY <1>10 DEF NarrowTimeline
  <2>2. r \in ReplyType
    BY <2>1, <1>a, FailedType, RepliesType
  <2>3. "narrow" \in DOMAIN AfterIngest
    BY AfterIngestType
  <2>7. ControlTypes'
    BY <2>1, <2>2, <2>3, CallType, KeepType
  <2>8. CountTypes'
    BY <2>1, CallType DEF TypeOK, CountTypes, Keep
  <2>9. DataTypes'
    BY <2>1, CallType, SameData
  <2> QED
    BY <2>7, <2>8, <2>9 DEF TypeOK
<1>11. CASE GetTimeline
  <2>1. /\ CallAndRecord("timeline", "case", Failed, Failed)
        /\ Goto("focal_events")
        /\ UNCHANGED <<cov, principals, mapped, found>>
        /\ left' = left
    BY <1>11 DEF GetTimeline, work
  <2>7. ControlTypes'
    BY <2>1, GotoType DEF Stages
  <2>8. CountTypes'
    BY <1>11, <2>1, CallType DEF GetTimeline, TypeOK, CountTypes, Goto
  <2>9. DataTypes'
    BY <2>1, CallType, SameData
  <2> QED
    BY <2>7, <2>8, <2>9 DEF TypeOK
<1>12. CASE CorrelateEvents
  <2>1. /\ CallAndRecord("focal_events", "case", Failed, Failed)
        /\ Goto("focal_neighbors")
        /\ UNCHANGED <<cov, principals, mapped, found>>
        /\ left' = left
    BY <1>12 DEF CorrelateEvents, work
  <2>7. ControlTypes'
    BY <2>1, GotoType DEF Stages
  <2>8. CountTypes'
    BY <1>12, <2>1, CallType DEF CorrelateEvents, TypeOK, CountTypes, Goto
  <2>9. DataTypes'
    BY <2>1, CallType, SameData
  <2> QED
    BY <2>7, <2>8, <2>9 DEF TypeOK
<1>13. CASE CorrelateNeighbors
  <2>1. /\ CallAndRecord("focal_neighbors", "case", Failed, Failed)
        /\ Goto("focal_events")
        /\ UNCHANGED <<cov, principals, mapped, found>>
        /\ left' = left - 1
    BY <1>13 DEF CorrelateNeighbors, work
  <2>7. ControlTypes'
    BY <2>1, GotoType DEF Stages
  <2>8. CountTypes'
    <3>1. pc = "focal_neighbors" /\ left > 0 /\ left \in 0..principals /\ principals \in Nat
      BY <2>1, CallType DEF TypeOK, CountTypes
    <3>2. left' \in 0..principals'
      BY <2>1, <3>1
    <3>3. pc' = "focal_events"
      BY <2>1 DEF Goto
    <3> QED
      BY <2>1, <3>1, <3>2, <3>3, CallType DEF TypeOK, CountTypes
  <2>9. DataTypes'
    BY <2>1, CallType, SameData
  <2> QED
    BY <2>7, <2>8, <2>9 DEF TypeOK
<1>14. CASE IngestAnswer
  <2>1. pc \in DOMAIN AfterIngest
    BY <1>14 DEF IngestAnswer, TypeOK, ControlTypes
  <2>2. AfterIngest[pc] \in Stages /\ AfterIngest[pc] # "focal_neighbors"
    BY <2>1, AfterIngestType
  <2>3. answer \in ReplyType
    BY DEF TypeOK, ControlTypes
  <2>7. ControlTypes'
    BY <1>14, <2>2, GotoType DEF IngestAnswer
  <2>8. CountTypes'
    BY <1>0, <1>14, <2>2 DEF IngestAnswer, Goto, TypeOK, CountTypes, work
  <2>9. DataTypes'
    BY <1>14, <2>3, ReplyFields DEF IngestAnswer, TypeOK, DataTypes, work, result, inputs
  <2> QED
    BY <2>7, <2>8, <2>9 DEF TypeOK
<1>15. CASE SkipIngest
  <2>1. pc \in DOMAIN AfterIngest
    BY <1>15 DEF SkipIngest, TypeOK, ControlTypes
  <2>2. AfterIngest[pc] \in Stages /\ AfterIngest[pc] # "focal_neighbors"
    BY <2>1, AfterIngestType
  <2>3. answer \in ReplyType
    BY DEF TypeOK, ControlTypes
  <2>7. ControlTypes'
    BY <1>15, <2>2, GotoType DEF SkipIngest
  <2>8. CountTypes'
    BY <1>0, <1>15, <2>2 DEF SkipIngest, Goto, TypeOK, CountTypes, work
  <2>9. DataTypes'
    BY <1>15, <2>3, ReplyFields DEF SkipIngest, TypeOK, DataTypes, work, result, inputs
  <2> QED
    BY <2>7, <2>8, <2>9 DEF TypeOK
<1>16. CASE SkipStage
  <2>1. PICK stage \in {"app_coverage", "neighbors", "app_events", "narrow", "timeline",
                        "focal_events", "focal_neighbors"} :
           /\ Ready(stage) /\ Goto(AfterSkip(stage))
           /\ left' = IF stage = "focal_neighbors" THEN left - 1 ELSE left
           /\ UNCHANGED <<inputs, up, faults, count, sent, cov, observed, principals,
                          mapped, found, window, stored, result>>
    BY <1>16 DEF SkipStage
  <2>2. AfterSkip(stage) \in Stages
    BY DEF AfterSkip, Stages
  <2>3. AfterSkip(stage) = "focal_neighbors" => stage = "focal_events" /\ left # 0
    BY DEF AfterSkip
  <2>7. ControlTypes'
    BY <2>1, <2>2, GotoType
  <2>8. CountTypes'
    BY <2>1, <2>3 DEF Ready, Goto, TypeOK, CountTypes
  <2>9. DataTypes'
    BY <2>1, SameData DEF inputs, result
  <2> QED
    BY <2>7, <2>8, <2>9 DEF TypeOK
<1>17. CASE Exhausted
  <2>7. ControlTypes'
    BY <1>17, StopType DEF Exhausted, Outcomes
  <2>8. CountTypes'
    BY <1>17 DEF Exhausted, Stop, TypeOK, CountTypes, work
  <2>9. DataTypes'
    BY <1>17, SameData DEF Exhausted, Stop, work, result, inputs
  <2> QED
    BY <2>7, <2>8, <2>9 DEF TypeOK
<1>18. CASE Raise
  <2>7. ControlTypes'
    BY <1>18, StopType DEF Raise, Outcomes
  <2>8. CountTypes'
    BY <1>18 DEF Raise, Stop, TypeOK, CountTypes, work
  <2>9. DataTypes'
    BY <1>18, SameData DEF Raise, Stop, work, result, inputs
  <2> QED
    BY <2>7, <2>8, <2>9 DEF TypeOK
<1>19. CASE Score
  <2>7. ControlTypes'
    BY <1>19, StopType, GotoType DEF Score, Outcomes, Stages
  <2>8. CountTypes'
    BY <1>19 DEF Score, Ready, Goto, Stop, TypeOK, CountTypes, work
  <2>9. DataTypes'
    BY <1>19, SameData DEF Score, Stop, work, result, inputs
  <2> QED
    BY <2>7, <2>8, <2>9 DEF TypeOK
<1>20. CASE AssessGaps
  <2>1. confidence' \in {"low", "medium", "high"}
    BY <1>20 DEF AssessGaps, Confidence
  <2>7. ControlTypes'
    BY <1>20, GotoType DEF AssessGaps, Stages
  <2>8. CountTypes'
    BY <1>20 DEF AssessGaps, Goto, TypeOK, CountTypes, work
  <2>9. DataTypes'
    BY <1>20, <2>1 DEF AssessGaps, TypeOK, DataTypes, work, inputs
  <2> QED
    BY <2>7, <2>8, <2>9 DEF TypeOK
<1>21. CASE Persist
  <2>7. ControlTypes'
    BY <1>21, StopType DEF Persist, Outcomes
  <2>8. CountTypes'
    BY <1>0, <1>21 DEF Persist, Stop, TypeOK, CountTypes, work
  <2>9. DataTypes'
    BY <1>21 DEF Persist, Stop, TypeOK, DataTypes, work, inputs
  <2> QED
    BY <2>7, <2>8, <2>9 DEF TypeOK
<1>22. CASE \E s \in Servers : Die(s)
  <2>7. ControlTypes'
    BY <1>22 DEF Die, TypeOK, ControlTypes
  <2>8. CountTypes'
    BY <1>0, <1>22 DEF Die, TypeOK, CountTypes, work
  <2>9. DataTypes'
    BY <1>22 DEF Die, TypeOK, DataTypes, work, result, inputs
  <2> QED
    BY <2>7, <2>8, <2>9 DEF TypeOK
<1>23. CASE UNCHANGED vars
  <2>7. ControlTypes'
    BY <1>23 DEF vars, TypeOK, ControlTypes
  <2>8. CountTypes'
    BY <1>23 DEF vars, TypeOK, CountTypes, work
  <2>9. DataTypes'
    BY <1>23, SameData DEF vars, work, result, inputs
  <2> QED
    BY <2>7, <2>8, <2>9 DEF TypeOK
<1> QED
  BY <1>1, <1>2, <1>3, <1>4, <1>5, <1>6, <1>7, <1>8, <1>9, <1>10, <1>11, <1>12, <1>13, <1>14, <1>15, <1>16, <1>17, <1>18, <1>19, <1>20, <1>21, <1>22, <1>23 DEF Next, Step

\* The initial states have their types.
LEMMA TypesAtFirst ==
  ASSUME Init PROVE TypeOK
<1>1. MaxFaults \in Nat
  BY InputsAssumption
<1>2. ControlTypes
  BY FailedType DEF Init, ControlTypes, Stages, Outcomes
<1>3. CountTypes
  BY <1>1 DEF Init, CountTypes
<1>4. DataTypes
  BY DEF Init, DataTypes, Servers
<1> QED
  BY <1>2, <1>3, <1>4 DEF TypeOK

\* Type correctness of run_investigation; an answer waits for its ingest only
\* where the code ingests, and loops stay within their lists.
THEOREM TypeCorrect == Spec => []TypeOK
<1>1. Init => TypeOK
  BY TypesAtFirst
<1>2. TypeOK /\ [Next]_vars => TypeOK'
  BY TypesAreKept
<1> QED
  BY <1>1, <1>2, PTL DEF Spec

-----------------------------------------------------------------------------
(***************************************************************************)
(* The budget.  A step either checks the budget and counts one call, or    *)
(* counts none, or is the persist step, which ends the run in a report.    *)
(***************************************************************************)
Counts ==
  \/ count < conf.budget /\ count' = count + 1 /\ sent' \in {sent + 1, sent + 2}
  \/ count' = count /\ sent' = sent
  \/ /\ outcome = "running" /\ outcome' = "report"
     /\ count' = count + 1 /\ sent' = sent + 1

\* No step leaves the counters other than the steps of the budget do.
LEMMA StepsCount ==
  ASSUME TypeOK, [Next]_vars
  PROVE  /\ Counts /\ conf' = conf
         /\ outcome = "running" \/ (outcome' = outcome /\ count' = count /\ sent' = sent)
<1> USE DEF Counts
<1>1. CASE CreateCase
  BY <1>1 DEF CreateCase, CheckBudget, Goto, Stop, Ready, inputs
<1>2. CASE CheckCoverage
  BY <1>2 DEF CheckCoverage, CallAndRecord, CheckBudget, Ready, inputs
<1>3. CASE CheckAppCoverage
  BY <1>3 DEF CheckAppCoverage, CallAndRecord, CheckBudget, Ready, inputs
<1>4. CASE DiscoverPrincipals
  BY <1>4 DEF DiscoverPrincipals, CallAndRecord, CheckBudget, Ready, inputs
<1>5. CASE MapRelationships
  BY <1>5 DEF MapRelationships, CallAndRecord, CheckBudget, Ready, inputs
<1>6. CASE DiscoverActionTypes
  BY <1>6 DEF DiscoverActionTypes, CallAndRecord, CheckBudget, Ready, inputs
<1>7. CASE SearchForEvidence
  BY <1>7 DEF SearchForEvidence, CallAndRecord, CheckBudget, Ready, inputs
<1>8. CASE SearchAppEvents
  BY <1>8 DEF SearchAppEvents, CallAndRecord, CheckBudget, Ready, inputs
<1>9. CASE ResolveFocal
  BY <1>9 DEF ResolveFocal, Goto, Stop, Ready, inputs
<1>10. CASE NarrowTimeline
  BY <1>10 DEF NarrowTimeline, CallAndRecord, CheckBudget, Ready, inputs
<1>11. CASE GetTimeline
  BY <1>11 DEF GetTimeline, CallAndRecord, CheckBudget, Ready, inputs
<1>12. CASE CorrelateEvents
  BY <1>12 DEF CorrelateEvents, CallAndRecord, CheckBudget, Ready, inputs
<1>13. CASE CorrelateNeighbors
  BY <1>13 DEF CorrelateNeighbors, CallAndRecord, CheckBudget, Ready, inputs
<1>14. CASE IngestAnswer
  BY <1>14 DEF IngestAnswer, MayIngest, CheckBudget, Goto, inputs
<1>15. CASE SkipIngest
  BY <1>15 DEF SkipIngest, Goto, Stop, Ready, inputs
<1>16. CASE SkipStage
  BY <1>16 DEF SkipStage, Goto, Stop, Ready, inputs
<1>17. CASE Exhausted
  BY <1>17 DEF Exhausted, Goto, Stop, Ready, inputs
<1>18. CASE Raise
  BY <1>18 DEF Raise, Goto, Stop, Ready, inputs
<1>19. CASE Score
  BY <1>19 DEF Score, Goto, Stop, Ready, inputs
<1>20. CASE AssessGaps
  BY <1>20 DEF AssessGaps, Goto, Stop, Ready, inputs
<1>21. CASE Persist
  BY <1>21 DEF Persist, Goto, Stop, Ready, inputs
<1>22. CASE \E s \in Servers : Die(s)
  BY <1>22 DEF Die, inputs
<1>23. CASE UNCHANGED vars
  BY <1>23 DEF vars, inputs
<1> QED
  BY <1>1, <1>2, <1>3, <1>4, <1>5, <1>6, <1>7, <1>8, <1>9, <1>10, <1>11, <1>12, <1>13, <1>14, <1>15, <1>16, <1>17, <1>18, <1>19, <1>20, <1>21, <1>22, <1>23 DEF Next, Step

\* No run counts more than max_tool_calls calls and the persist call, or sends
\* more than twice the calls it counts.
THEOREM BudgetIsKept == Spec => []CountedCalls
<1>1. Init => CountedCalls
  <2> SUFFICES ASSUME Init PROVE CountedCalls
    OBVIOUS
  <2>1. conf.budget \in Nat
    BY InputsAssumption DEF Init
  <2> QED
    BY <2>1 DEF Init, CountedCalls
<1>2. TypeOK /\ CountedCalls /\ [Next]_vars => CountedCalls'
  <2> SUFFICES ASSUME TypeOK, CountedCalls, [Next]_vars PROVE CountedCalls'
    OBVIOUS
  <2>1. conf.budget \in Nat /\ count \in Nat /\ sent \in Nat
    BY InputsAssumption DEF TypeOK, DataTypes, CountTypes
  <2>2. /\ Counts /\ conf' = conf
        /\ outcome = "running" \/ (outcome' = outcome /\ count' = count /\ sent' = sent)
    BY StepsCount
  <2>3. CASE outcome = "running"
    BY <2>1, <2>2, <2>3 DEF CountedCalls, Counts
  <2>4. CASE outcome' = outcome /\ count' = count /\ sent' = sent
    BY <2>2, <2>4 DEF CountedCalls
  <2> QED
    BY <2>2, <2>3, <2>4
<1> QED
  BY <1>1, <1>2, TypeCorrect, PTL DEF Spec

-----------------------------------------------------------------------------
(***************************************************************************)
(* Confidence.  From the assessment of the gaps on, the confidence of a    *)
(* run without the language model is the band of the fallback assessments  *)
(* of the gaps of the coverage reports: nothing they depend on changes     *)
(* between the assessment and the report.                                  *)
(***************************************************************************)
AssessInv ==
  /\ outcome = "report" => pc = "persist"
  /\ (pc = "persist" /\ ~ conf.llm)
       => confidence = Confidence(FallbackAssessments(CoverageGaps))

\* The steps that lead to, or stay at, the persist stage.
LEMMA StepsToPersist ==
  ASSUME TypeOK, [Next]_vars
  PROVE  /\ pc' = "persist" =>
              AssessGaps \/ (pc = "persist" /\ UNCHANGED <<conf, cov, observed, confidence>>)
         /\ outcome' = "report" => (outcome = "report" /\ pc' = pc) \/ pc' = "persist"
<1>0. ingesting \in BOOLEAN /\ (ingesting => AfterIngest[pc] # "persist")
  <2>1. \A stage \in DOMAIN AfterIngest : AfterIngest[stage] # "persist"
    BY DEF AfterIngest
  <2> QED
    BY <2>1 DEF TypeOK, ControlTypes
<1>1. CASE CreateCase
  BY <1>1 DEF CreateCase, Ready, Goto, Stop, work, result, inputs
<1>2. CASE CheckCoverage
  BY <1>2 DEF CheckCoverage, CallAndRecord, Ready, Keep
<1>3. CASE CheckAppCoverage
  BY <1>3 DEF CheckAppCoverage, CallAndRecord, Ready, Keep
<1>4. CASE DiscoverPrincipals
  BY <1>4 DEF DiscoverPrincipals, CallAndRecord, Ready, Keep
<1>5. CASE MapRelationships
  BY <1>5 DEF MapRelationships, CallAndRecord, Ready, Keep
<1>6. CASE DiscoverActionTypes
  BY <1>6 DEF DiscoverActionTypes, CallAndRecord, Ready, Goto
<1>7. CASE SearchForEvidence
  BY <1>7 DEF SearchForEvidence, CallAndRecord, Ready, Keep
<1>8. CASE SearchAppEvents
  BY <1>8 DEF SearchAppEvents, CallAndRecord, Ready, Keep
<1>9. CASE ResolveFocal
  BY <1>9 DEF ResolveFocal, Ready, Goto, Stop, work, result, inputs
<1>10. CASE NarrowTimeline
  BY <1>10 DEF NarrowTimeline, CallAndRecord, Ready, Keep
<1>11. CASE GetTimeline
  BY <1>11 DEF GetTimeline, CallAndRecord, Ready, Goto
<1>12. CASE CorrelateEvents
  BY <1>12 DEF CorrelateEvents, CallAndRecord, Ready, Goto
<1>13. CASE CorrelateNeighbors
  BY <1>13 DEF CorrelateNeighbors, CallAndRecord, Ready, Goto
<1>14. CASE IngestAnswer
  BY <1>0, <1>14 DEF IngestAnswer, Goto
<1>15. CASE SkipIngest
  BY <1>0, <1>15 DEF SkipIngest, Goto
<1>16. CASE SkipStage
  <2>1. PICK stage \in {"app_coverage", "neighbors", "app_events", "narrow", "timeline",
                         "focal_events", "focal_neighbors"} :
           Ready(stage) /\ Goto(AfterSkip(stage))
    BY <1>16 DEF SkipStage
  <2>2. AfterSkip(stage) # "persist"
    BY DEF AfterSkip
  <2> QED
    BY <2>1, <2>2 DEF Goto, Ready
<1>17. CASE Exhausted
  BY <1>17 DEF Exhausted, Ready, Stop, work, result, inputs
<1>18. CASE Raise
  BY <1>18 DEF Raise, Ready, Stop, work, result, inputs
<1>19. CASE Score
  BY <1>19 DEF Score, Ready, Goto, Stop, work, result, inputs
<1>20. CASE AssessGaps
  BY <1>20 DEF AssessGaps, Ready, Goto
<1>21. CASE Persist
  BY <1>21 DEF Persist, Ready, Goto, Stop, work, result, inputs
<1>22. CASE \E s \in Servers : Die(s)
  BY <1>22 DEF Die, work, result, inputs
<1>23. CASE UNCHANGED vars
  BY <1>23 DEF vars, work, result, inputs
<1> QED
  BY <1>1, <1>2, <1>3, <1>4, <1>5, <1>6, <1>7, <1>8, <1>9, <1>10, <1>11, <1>12, <1>13, <1>14, <1>15, <1>16, <1>17, <1>18, <1>19, <1>20, <1>21, <1>22, <1>23 DEF Next, Step

\* What the persist stage relies on stands in every state: only the persist stage
\* ends with a report, and without a language model its confidence is the fallback's.
THEOREM AssessmentStands == Spec => []AssessInv
<1>1. Init => AssessInv
  BY DEF Init, AssessInv
<1>2. TypeOK /\ AssessInv /\ [Next]_vars => AssessInv'
  <2> SUFFICES ASSUME TypeOK, AssessInv, [Next]_vars PROVE AssessInv'
    OBVIOUS
  <2>1. outcome' = "report" => pc' = "persist"
    BY StepsToPersist DEF AssessInv
  <2>2. (pc' = "persist" /\ ~ conf'.llm)
          => confidence' = Confidence(FallbackAssessments(CoverageGaps'))
    <3> SUFFICES ASSUME pc' = "persist", ~ conf'.llm
                 PROVE  confidence' = Confidence(FallbackAssessments(CoverageGaps'))
      OBVIOUS
    <3>1. CASE AssessGaps
      <4>1. conf' = conf /\ UNCHANGED <<cov, observed>>
        BY <3>1 DEF AssessGaps, inputs, work
      <4>2. assessed' = FallbackAssessments(CoverageGaps)
        BY <3>1, <4>1 DEF AssessGaps
      <4>3. confidence' = Confidence(assessed')
        BY <3>1 DEF AssessGaps
      <4>4. CoverageGaps' = CoverageGaps
        BY <4>1 DEF CoverageGaps, Reports
      <4> QED
        BY <4>2, <4>3, <4>4
    <3>2. CASE pc = "persist" /\ UNCHANGED <<conf, cov, observed, confidence>>
      <4>1. CoverageGaps' = CoverageGaps
        BY <3>2 DEF CoverageGaps, Reports
      <4> QED
        BY <3>2, <4>1 DEF AssessInv
    <3> QED
      BY <3>1, <3>2, StepsToPersist
  <2> QED
    BY <2>1, <2>2 DEF AssessInv
<1> QED
  BY <1>1, <1>2, TypeCorrect, PTL DEF Spec

\* An obtained report is part of the merged one, and its entries are well formed.
LEMMA KnownReports ==
  ASSUME TypeOK, NEW r \in Known
  PROVE  /\ r \in ReportType /\ NamesAreUnique(r)
         /\ SourceGaps(r) \subseteq CoverageGaps
<1>1. PICK d \in Domains : r = cov[d] /\ cov[d] # NoReport
  BY DEF Known
<1>2. r \in AllReports
  BY <1>1 DEF TypeOK, DataTypes
<1>3. PICK s \in Scenarios, e \in Domains : r = s.coverage[e]
  BY <1>2 DEF AllReports
<1>4. r \in ReportType /\ NamesAreUnique(r)
  BY <1>3, InputsAssumption
<1>5. d = "identity" \/ d = "app"
  BY DomainsAssumption
<1>6. \E i \in DOMAIN Reports : Reports[i] = r
  <2>1. Reports \in {<<r>>, <<r, cov["app"]>>, <<cov["identity"], r>>}
    BY <1>1, <1>5 DEF Reports
  <2> QED
    BY <2>1
<1>7. r \in MergedSources(Reports)
  BY <1>6 DEF MergedSources
<1>8. r \in Merged(Reports).parts
  BY <1>7 DEF Merged
<1>9. SourceGaps(r) \subseteq ReportGaps(Merged(Reports))
  BY <1>8 DEF ReportGaps
<1> QED
  BY <1>4, <1>9 DEF CoverageGaps

\* A source reported missing makes the confidence low.
THEOREM MissingSourcesCount == Spec => []MissingSourceMeansLow
<1>1. TypeOK /\ AssessInv => MissingSourceMeansLow
  <2> SUFFICES ASSUME TypeOK, AssessInv, outcome = "report", ~ conf.llm,
                      NEW r \in Known, NEW s \in Entries(r), s.status = "missing"
               PROVE  confidence = "low"
    BY DEF MissingSourceMeansLow
  <2>1. PICK g \in SourceGaps(r) : g.status = "missing"
    BY KnownReports, IncompleteSourceIsGap
  <2>2. g \in CoverageGaps
    BY <2>1, KnownReports
  <2>3. Confidence(FallbackAssessments(CoverageGaps)) = "low"
    BY <2>1, <2>2, MissingIsLow
  <2> QED
    BY <2>3 DEF AssessInv
<1> QED
  BY <1>1, TypeCorrect, AssessmentStands, PTL

\* A high confidence says that every reported source is complete.
THEOREM HighConfidenceIsEarned == Spec => []HighMeansCompleteSources
<1>1. TypeOK /\ AssessInv => HighMeansCompleteSources
  <2> SUFFICES ASSUME TypeOK, AssessInv, outcome = "report", ~ conf.llm,
                      NEW r \in Known, NEW s \in Entries(r), s.status # "complete"
               PROVE  confidence # "high"
    BY DEF HighMeansCompleteSources
  <2>1. PICK g \in SourceGaps(r) : g.status = s.status
    BY KnownReports, IncompleteSourceIsGap
  <2>2. s.status \in {"missing", "partial", "unknown"}
    <3>1. r \in ReportType
      BY KnownReports
    <3>2. s \in SourceType
      BY <3>1 DEF ReportType, Entries
    <3> QED
      BY <3>2 DEF SourceType, Status
  <2>3. g \in CoverageGaps
    BY <2>1, KnownReports
  <2>4. Confidence(FallbackAssessments(CoverageGaps)) # "high"
    BY <2>1, <2>2, <2>3, GapIsNotHigh
  <2> QED
    BY <2>4 DEF AssessInv
<1> QED
  BY <1>1, TypeCorrect, AssessmentStands, PTL

-----------------------------------------------------------------------------
(***************************************************************************)
(* Progress.  What a stage leaves undone is due to a fault or to the       *)
(* budget: while there is neither, each stage leaves behind what it was to *)
(* do, so that a report within the budget has skipped nothing.  The budget *)
(* never comes back (Counts), hence a run that has run out of it once      *)
(* cannot count its persist call within max_tool_calls.                    *)
(***************************************************************************)
\* Nothing failed, and there is budget left for the next call.
OnTrack == faults = 0 /\ CheckBudget /\ outcome = "running"

\* Without a fault every server of the run is up.
AllUp == faults = 0 => up = IF scenario.app THEN Servers ELSE {"identity", "case"}

\* The domain d was asked for its coverage, and the answer is in the case.
Asked(d) == cov[d] # NoReport /\ CoverageRow(d) \in stored

\* d was asked at this stage, and the ingest of its answer is due.
AskedAtLeast(d, stage) ==
  pc = stage /\ ingesting => /\ cov[d] # NoReport
                             /\ answer.report # NoReport /\ answer.report.domain = d

\* Which domains have been asked, at each stage.
CoverageProgress ==
  /\ AskedAtLeast("identity", "coverage")
  /\ pc \notin {"create", "coverage"} => Asked("identity")
  /\ scenario.app =>
       /\ AskedAtLeast("app", "app_coverage")
       /\ pc \notin {"create", "coverage", "app_coverage"} => Asked("app")

Discovering == {"create", "coverage", "app_coverage", "principals"}

\* How many principals the loop has traversed: none is forgotten.
LoopProgress ==
  /\ pc \in Discovering => mapped = 0
  /\ pc = "principals" /\ ingesting => left = scenario.principals
  /\ pc = "neighbors" => mapped + left = scenario.principals
  /\ pc \notin Discovering \cup {"neighbors"} => mapped = scenario.principals

Searching == Discovering \cup {"neighbors", "domain", "events"}

\* The evidence is in the case once its answer is ingested.
EvidenceProgress ==
  /\ pc \in Searching => found = {} \/ (pc = "events" /\ ingesting /\ found \subseteq answer.events)
  /\ pc = "app_events" /\ ingesting => found \subseteq stored \cup answer.events
  /\ pc = "app_events" /\ ~ ingesting => found \subseteq stored
  /\ pc \notin Searching \cup {"app_events"} => found \subseteq stored
  /\ pc \notin Searching /\ (pc = "app_events" => ingesting) /\ scenario.app
       => Page("app") \subseteq found

Unnarrowed == Searching \cup {"app_events", "focal"}

\* The window is computed when there is evidence.
WindowProgress ==
  pc \notin Unnarrowed /\ (pc = "narrow" => ingesting) /\ found # {}
    => window # NoWindow

Progress == CoverageProgress /\ LoopProgress /\ EvidenceProgress /\ WindowProgress

\* A run on track has done the work of the stages behind it.
ProgressInv ==
  /\ (OnTrack /\ ~ scenario.tooLong) => Progress
  /\ SkipsOnlyAtTheBudget

\* A scenario that is too long yields no coverage, and no report.
ScoreInv ==
  /\ scenario.tooLong => \A d \in Domains : cov[d] = NoReport
  /\ outcome = "report" => pc = "persist"
  /\ pc \in {"assess", "persist"} => Reports # <<>>
  /\ /\ faults = 0 /\ ~ scenario.tooLong
     /\ pc # "create" /\ (pc = "coverage" => ingesting)
     => cov["identity"] # NoReport
  /\ outcome = "exception" => faults > 0 \/ scenario.tooLong

\* The evidence is from the files of the domains, and the window is around it.
WindowInv ==
  /\ found \subseteq EventsOf(scenario, "identity") \cup EventsOf(scenario, "app")
  /\ pc \in Unnarrowed => window = NoWindow
  /\ window # NoWindow => found # {} /\ window = Narrow(found)

\* The evidence items cite what was found.
ArtInv == artifacts \subseteq found /\ (outcome = "running" => artifacts = {})

\* The times of the events a domain may answer with are finitely many numbers.
LEMMA TimesAreFinite ==
  ASSUME NEW s \in Scenarios, NEW E \in SUBSET (EventsOf(s, "identity") \cup EventsOf(s, "app"))
  PROVE  Times(E) \in SUBSET Nat /\ IsFiniteSet(Times(E))
<1>1. ASSUME NEW d \in Domains
      PROVE  Times(EventsOf(s, d)) \in SUBSET Nat /\ IsFiniteSet(Times(EventsOf(s, d)))
  <2>1. s.events[d] \in Seq(Event)
    BY InputsAssumption
  <2> DEFINE n == Len(s.events[d])
             T == Times(EventsOf(s, d))
             f == [i \in 1..n |-> s.events[d][i].ts]
  <2>2. n \in Nat /\ DOMAIN s.events[d] = 1..n /\ \A i \in 1..n : s.events[d][i] \in Event
    BY <2>1
  <2>3. T \in SUBSET Nat
    BY <2>2 DEF Times, EventsOf, Event
  <2>4. f \in [1..n -> T]
    BY <2>2 DEF Times, EventsOf
  <2>5. \A t \in T : \E i \in 1..n : f[i] = t
    BY <2>2 DEF Times, EventsOf
  <2>6. f \in Surjection(1..n, T)
    BY <2>4, <2>5 DEF Surjection
  <2>7. IsFiniteSet(T)
    BY <2>2, <2>6, FS_NatSurjection DEF ExistsSurjection
  <2> QED
    BY <2>3, <2>7
<1> DEFINE All == Times(EventsOf(s, "identity")) \cup Times(EventsOf(s, "app"))
<1>2. All \in SUBSET Nat /\ IsFiniteSet(All)
  BY <1>1, DomainsAssumption, FS_Union
<1>3. Times(E) \in SUBSET All
  BY DEF Times
<1> HIDE DEF All
<1> QED
  BY <1>2, <1>3, FS_Subset

\* narrow_start and narrow_end enclose the events they are computed from, the
\* last one only if it is from the first 28 days of its month.
LEMMA NarrowEncloses ==
  ASSUME NEW E, E # {}, Times(E) \in SUBSET Nat, IsFiniteSet(Times(E))
  PROVE  /\ Narrow(E) # NoWindow
         /\ Latest(Times(E)) % 100 <= 28
              => \A e \in E : Narrow(E).lo <= e.ts /\ e.ts <= Narrow(E).hi
<1> DEFINE T == Times(E)
<1>1. T # {} /\ T \in SUBSET Nat /\ IsFiniteSet(T)
  BY DEF Times
<1>2. \A e \in E : e.ts \in T
  BY DEF Times
<1>3. Earliest(T) \in T /\ \A t \in T : Earliest(T) <= t
  <2>1. \E t \in T : \A u \in T : t <= u
    <3> HIDE DEF T
    <3> QED
      BY <1>1, LeastNatural
  <2> QED
    BY <2>1 DEF Earliest
<1>4. Latest(T) \in T /\ \A t \in T : t <= Latest(T)
  <2>1. \E t \in T : \A u \in T : u <= t
    <3> HIDE DEF T
    <3> QED
      BY <1>1, GreatestNatural
  <2> QED
    BY <2>1 DEF Latest
<1> DEFINE last == Latest(T)
           day == last % 100
           hi == (last - day) + (IF day + 2 <= 28 THEN day + 2 ELSE 28)
<1>5. last \in Nat /\ day \in 0..99 /\ day <= last
  <2>1. last \in Nat
    BY <1>1, <1>4
  <2> HIDE DEF last
  <2> QED
    BY <2>1
<1>6. Narrow(E) = [lo |-> Earliest(T), hi |-> hi]
  BY DEF Narrow
<1>7. hi \in Nat /\ hi > 0 /\ (day <= 28 => last <= hi)
  <2> HIDE DEF last, day
  <2> QED
    BY <1>5
<1> HIDE DEF hi, day
<1>8. Narrow(E) # NoWindow
  BY <1>6, <1>7 DEF NoWindow
<1>9. ASSUME day <= 28, NEW e \in E PROVE Earliest(T) <= e.ts /\ e.ts <= hi
  <2>1. e.ts \in Nat /\ Earliest(T) <= e.ts /\ e.ts <= last
    BY <1>1, <1>2, <1>3, <1>4
  <2> HIDE DEF last
  <2> QED
    BY <1>5, <1>7, <1>9, <2>1
<1> QED
  BY <1>6, <1>8, <1>9 DEF day

\* The window around some evidence is not the initial one.
LEMMA EvidenceWindow ==
  ASSUME TypeOK, WindowInv, found # {}
  PROVE  Narrow(found) # NoWindow
<1>1. scenario \in Scenarios
  BY DEF TypeOK, DataTypes
<1> QED
  BY <1>1, TimesAreFinite, NarrowEncloses DEF WindowInv

\* A domain that does not fail answers with its coverage, its principals and the
\* first page of its events.
LEMMA GoodAnswers ==
  ASSUME TypeOK, ~ scenario.tooLong
  PROVE  /\ \A d \in Domains : /\ DescribeCoverage(d).report # NoReport
                               /\ DescribeCoverage(d).report.domain = d
                               /\ SearchEvents(d).events = Page(d)
         /\ SearchPrincipals.principals = scenario.principals
<1>1. scenario \in Scenarios /\ conf \in Configs
  BY DEF TypeOK, DataTypes
<1>2. ASSUME NEW d \in Domains
      PROVE  /\ DescribeCoverage(d).report # NoReport
             /\ DescribeCoverage(d).report.domain = d
  <2>1. scenario.coverage[d] \in ReportType /\ scenario.coverage[d].domain = d
    BY <1>1, InputsAssumption
  <2>2. DescribeCoverage(d).report = scenario.coverage[d]
    BY DEF DescribeCoverage, Reply
  <2> QED
    BY <2>1, <2>2, NoReportAssumption
<1>3. ASSUME NEW d \in Domains PROVE SearchEvents(d).events = Page(d)
  <2>1. CASE conf.maxEvents < 1
    <3>1. scenario.events[d] \in Seq(Event)
      BY <1>1, InputsAssumption
    <3>2. \A i \in DOMAIN scenario.events[d] : ~ (i <= conf.maxEvents)
      <4>1. DOMAIN scenario.events[d] = 1..Len(scenario.events[d])
        BY <3>1
      <4>2. conf.maxEvents \in Nat
        BY <1>1, InputsAssumption
      <4> QED
        BY <2>1, <4>1, <4>2
    <3>3. Page(d) = {}
      BY <3>2 DEF Page
    <3> QED
      BY <2>1, <3>3 DEF SearchEvents, Failed, Reply
  <2>2. CASE ~ (conf.maxEvents < 1)
    BY <2>2 DEF SearchEvents, Reply
  <2> QED
    BY <2>1, <2>2
<1>4. SearchPrincipals.principals = scenario.principals
  BY DEF SearchPrincipals, Reply
<1> QED
  BY <1>2, <1>3, <1>4

\* What an ingest stores.
LEMMA StoredContents ==
  ASSUME NEW r
  PROVE  /\ r.events \subseteq Contents(r)
         /\ r.report # NoReport => CoverageRow(r.report.domain) \in Contents(r)
  BY DEF Contents

\* A step that leaves a run without faults on track started on track.
LEMMA TrackIsKept ==
  ASSUME TypeOK, [Next]_vars
  PROVE  /\ faults <= faults' /\ scenario' = scenario /\ conf' = conf
         /\ up' = up \/ faults < faults'
         /\ OnTrack' => OnTrack /\ faults' = faults
<1>a. faults \in Nat /\ MaxFaults \in Nat
  BY InputsAssumption DEF TypeOK, CountTypes
<1>b. /\ faults <= faults' /\ scenario' = scenario
      /\ up' = up \/ faults < faults'
      /\ outcome' = "running" => outcome = "running"
  <2>1. CASE CreateCase
    BY <1>a, <2>1 DEF CreateCase, Ready, Goto, Stop, inputs
  <2>2. CASE CheckCoverage
    BY <1>a, <2>2 DEF CheckCoverage, CallAndRecord, Ready, Keep, inputs
  <2>3. CASE CheckAppCoverage
    <3>1. PICK r : CallAndRecord("app_coverage", "app", DescribeCoverage("app"), r) /\ Keep(r)
      BY <2>3 DEF CheckAppCoverage
    <3> QED
      BY <1>a, <3>1 DEF CallAndRecord, Ready, Keep, inputs
  <2>4. CASE DiscoverPrincipals
    BY <1>a, <2>4 DEF DiscoverPrincipals, CallAndRecord, Ready, Keep, inputs
  <2>5. CASE MapRelationships
    BY <1>a, <2>5 DEF MapRelationships, CallAndRecord, Ready, Keep, inputs
  <2>6. CASE DiscoverActionTypes
    BY <1>a, <2>6 DEF DiscoverActionTypes, CallAndRecord, Ready, Goto, inputs
  <2>7. CASE SearchForEvidence
    BY <1>a, <2>7 DEF SearchForEvidence, CallAndRecord, Ready, Keep, inputs
  <2>8. CASE SearchAppEvents
    <3>1. PICK r : CallAndRecord("app_events", "app", SearchEvents("app"), r) /\ Keep(r)
      BY <2>8 DEF SearchAppEvents
    <3> QED
      BY <1>a, <3>1 DEF CallAndRecord, Ready, Keep, inputs
  <2>9. CASE ResolveFocal
    BY <1>a, <2>9 DEF ResolveFocal, Ready, Goto, inputs
  <2>10. CASE NarrowTimeline
    BY <1>a, <2>10 DEF NarrowTimeline, CallAndRecord, Ready, Keep, inputs
  <2>11. CASE GetTimeline
    BY <1>a, <2>11 DEF GetTimeline, CallAndRecord, Ready, Goto, inputs
  <2>12. CASE CorrelateEvents
    BY <1>a, <2>12 DEF CorrelateEvents, CallAndRecord, Ready, Goto, inputs
  <2>13. CASE CorrelateNeighbors
    BY <1>a, <2>13 DEF CorrelateNeighbors, CallAndRecord, Ready, Goto, inputs
  <2>14. CASE IngestAnswer
    BY <1>a, <2>14 DEF IngestAnswer, Goto, inputs
  <2>15. CASE SkipIngest
    BY <1>a, <2>15 DEF SkipIngest, Goto, inputs
  <2>16. CASE SkipStage
    BY <1>a, <2>16 DEF SkipStage, Ready, Goto, inputs
  <2>17. CASE Exhausted
    BY <1>a, <2>17 DEF Exhausted, Ready, Stop, inputs
  <2>18. CASE Raise
    BY <1>a, <2>18 DEF Raise, Stop, inputs
  <2>19. CASE Score
    BY <1>a, <2>19 DEF Score, Ready, Goto, Stop, inputs
  <2>20. CASE AssessGaps
    BY <1>a, <2>20 DEF AssessGaps, Ready, Goto, inputs
  <2>21. CASE Persist
    BY <1>a, <2>21 DEF Persist, Ready, Stop, inputs
  <2>22. CASE \E s \in Servers : Die(s)
    BY <1>a, <2>22 DEF Die, inputs
  <2>23. CASE UNCHANGED vars
    BY <1>a, <2>23 DEF vars, inputs
  <2> QED
    BY <2>1, <2>2, <2>3, <2>4, <2>5, <2>6, <2>7, <2>8, <2>9, <2>10, <2>11, <2>12, <2>13, <2>14, <2>15, <2>16, <2>17, <2>18, <2>19, <2>20, <2>21, <2>22, <2>23 DEF Next, Step
<1>c. Counts /\ conf' = conf /\ conf.budget \in Nat /\ count \in Nat
  BY StepsCount, InputsAssumption DEF TypeOK, DataTypes, CountTypes
<1>d. OnTrack' => OnTrack
  BY <1>a, <1>b, <1>c DEF OnTrack, CheckBudget, Counts
<1> QED
  BY <1>a, <1>b, <1>c, <1>d DEF OnTrack

\* While nothing fails and the budget lasts, each stage does its part of the work.
LEMMA ProgressSteps ==
  ASSUME TypeOK, ~ scenario.tooLong, OnTrack, OnTrack', Progress, WindowInv, [Next]_vars
  PROVE  Progress'
<1>a. /\ faults' = faults /\ faults \in Nat /\ CheckBudget /\ outcome = "running"
      /\ scenario' = scenario /\ conf' = conf
      /\ outcome' = "running" /\ ingesting \in BOOLEAN
  BY TrackIsKept, InputsAssumption DEF OnTrack, TypeOK, CountTypes, ControlTypes
<1>b. /\ CoverageProgress /\ LoopProgress /\ EvidenceProgress /\ WindowProgress
      /\ Page("app")' = Page("app")
  BY <1>a DEF Progress, Page
<1>c. "identity" \in Domains /\ "app" \in Domains /\ cov \in [Domains -> AllReports \cup {NoReport}]
  BY DomainsAssumption DEF TypeOK, DataTypes
<1>d. principals \in Nat /\ mapped \in Nat /\ left \in 0..principals
  BY DEF TypeOK, CountTypes
<1>1. CASE CreateCase
  <2>1. /\ pc = "create" /\ ~ ingesting /\ stored' = stored /\ pc' = "coverage" /\ ~ ingesting'
        /\ UNCHANGED <<cov, mapped, found, window>>
    BY <1>a, <1>1 DEF CreateCase, Ready, Goto, work
  <2>6. CoverageProgress'
    BY <1>a, <1>b, <1>c, <1>d, <1>1, <2>1 DEF CoverageProgress, Asked, AskedAtLeast, Discovering, Searching, Unnarrowed
  <2>7. LoopProgress'
    BY <1>a, <1>b, <1>c, <1>d, <1>1, <2>1 DEF LoopProgress, Asked, AskedAtLeast, Discovering, Searching, Unnarrowed
  <2>8. EvidenceProgress'
    BY <1>a, <1>b, <1>c, <1>d, <1>1, <2>1 DEF EvidenceProgress, Asked, AskedAtLeast, Discovering, Searching, Unnarrowed
  <2>9. WindowProgress'
    BY <1>a, <1>b, <1>c, <1>d, <1>1, <2>1 DEF WindowProgress, Asked, AskedAtLeast, Discovering, Searching, Unnarrowed
  <2> QED
    BY <2>6, <2>7, <2>8, <2>9 DEF Progress
<1>2. CASE CheckCoverage
  <2>1. PICK r : /\ CallAndRecord("coverage", "identity", DescribeCoverage("identity"), r) /\ Keep(r)
           /\ cov' = [cov EXCEPT !["identity"] = r.report]
           /\ UNCHANGED <<principals, mapped, left, found, window>>
    BY <1>2 DEF CheckCoverage
  <2>2. /\ r = DescribeCoverage("identity") /\ pc = "coverage" /\ ~ ingesting /\ stored' = stored
        /\ pc' = "coverage" /\ ingesting' /\ answer' = r
    BY <1>a, <2>1 DEF CallAndRecord, Ready, Keep
  <2>6. CoverageProgress'
    BY <1>a, <1>b, <1>c, <1>d, <1>2, <2>1, <2>2, GoodAnswers DEF CoverageProgress, Asked, AskedAtLeast, Discovering, Searching, Unnarrowed
  <2>7. LoopProgress'
    BY <1>a, <1>b, <1>c, <1>d, <1>2, <2>1, <2>2, GoodAnswers DEF LoopProgress, Asked, AskedAtLeast, Discovering, Searching, Unnarrowed
  <2>8. EvidenceProgress'
    BY <1>a, <1>b, <1>c, <1>d, <1>2, <2>1, <2>2, GoodAnswers DEF EvidenceProgress, Asked, AskedAtLeast, Discovering, Searching, Unnarrowed
  <2>9. WindowProgress'
    BY <1>a, <1>b, <1>c, <1>d, <1>2, <2>1, <2>2, GoodAnswers DEF WindowProgress, Asked, AskedAtLeast, Discovering, Searching, Unnarrowed
  <2> QED
    BY <2>6, <2>7, <2>8, <2>9 DEF Progress
<1>3. CASE CheckAppCoverage
  <2>1. PICK r : /\ CallAndRecord("app_coverage", "app", DescribeCoverage("app"), r) /\ Keep(r)
           /\ cov' = [cov EXCEPT !["app"] = r.report]
           /\ UNCHANGED <<principals, mapped, left, found, window>>
    BY <1>3 DEF CheckAppCoverage
  <2>2. /\ r = DescribeCoverage("app") /\ pc = "app_coverage" /\ ~ ingesting /\ stored' = stored
        /\ pc' = "app_coverage" /\ ingesting' /\ answer' = r
    BY <1>a, <2>1 DEF CallAndRecord, Ready, Keep
  <2>6. CoverageProgress'
    BY <1>a, <1>b, <1>c, <1>d, <1>3, <2>1, <2>2, GoodAnswers DEF CoverageProgress, Asked, AskedAtLeast, Discovering, Searching, Unnarrowed
  <2>7. LoopProgress'
    BY <1>a, <1>b, <1>c, <1>d, <1>3, <2>1, <2>2, GoodAnswers DEF LoopProgress, Asked, AskedAtLeast, Discovering, Searching, Unnarrowed
  <2>8. EvidenceProgress'
    BY <1>a, <1>b, <1>c, <1>d, <1>3, <2>1, <2>2, GoodAnswers DEF EvidenceProgress, Asked, AskedAtLeast, Discovering, Searching, Unnarrowed
  <2>9. WindowProgress'
    BY <1>a, <1>b, <1>c, <1>d, <1>3, <2>1, <2>2, GoodAnswers DEF WindowProgress, Asked, AskedAtLeast, Discovering, Searching, Unnarrowed
  <2> QED
    BY <2>6, <2>7, <2>8, <2>9 DEF Progress
<1>4. CASE DiscoverPrincipals
  <2>1. PICK r : /\ CallAndRecord("principals", "identity", SearchPrincipals, r)
           /\ left' = r.principals
           /\ UNCHANGED <<cov, mapped, found, window>>
           /\ (outcome' = "no_principals" \/ Keep(r))
    BY <1>4 DEF DiscoverPrincipals
  <2>3. Keep(r)
    BY <1>a, <2>1
  <2>2. /\ r = SearchPrincipals /\ pc = "principals" /\ ~ ingesting /\ stored' = stored
        /\ pc' = "principals" /\ ingesting' /\ answer' = r
    BY <1>a, <2>1, <2>3 DEF CallAndRecord, Ready, Keep
  <2>6. CoverageProgress'
    BY <1>a, <1>b, <1>c, <1>d, <1>4, <2>1, <2>2, GoodAnswers DEF CoverageProgress, Asked, AskedAtLeast, Discovering, Searching, Unnarrowed
  <2>7. LoopProgress'
    BY <1>a, <1>b, <1>c, <1>d, <1>4, <2>1, <2>2, GoodAnswers DEF LoopProgress, Asked, AskedAtLeast, Discovering, Searching, Unnarrowed
  <2>8. EvidenceProgress'
    BY <1>a, <1>b, <1>c, <1>d, <1>4, <2>1, <2>2, GoodAnswers DEF EvidenceProgress, Asked, AskedAtLeast, Discovering, Searching, Unnarrowed
  <2>9. WindowProgress'
    BY <1>a, <1>b, <1>c, <1>d, <1>4, <2>1, <2>2, GoodAnswers DEF WindowProgress, Asked, AskedAtLeast, Discovering, Searching, Unnarrowed
  <2> QED
    BY <2>6, <2>7, <2>8, <2>9 DEF Progress
<1>5. CASE MapRelationships
  <2>1. PICK r : /\ CallAndRecord("neighbors", "identity", GetNeighbors, r) /\ Keep(r)
           /\ left' = left - 1 /\ mapped' = mapped + 1
           /\ UNCHANGED <<cov, principals, found, window>>
    BY <1>5 DEF MapRelationships
  <2>2. /\ r = GetNeighbors /\ pc = "neighbors" /\ ~ ingesting /\ stored' = stored
        /\ pc' = "neighbors" /\ ingesting' /\ answer' = r
    BY <1>a, <2>1 DEF CallAndRecord, Ready, Keep
  <2>6. CoverageProgress'
    BY <1>a, <1>b, <1>c, <1>d, <1>5, <2>1, <2>2, GoodAnswers DEF CoverageProgress, Asked, AskedAtLeast, Discovering, Searching, Unnarrowed
  <2>7. LoopProgress'
    BY <1>a, <1>b, <1>c, <1>d, <1>5, <2>1, <2>2, GoodAnswers DEF LoopProgress, Asked, AskedAtLeast, Discovering, Searching, Unnarrowed
  <2>8. EvidenceProgress'
    BY <1>a, <1>b, <1>c, <1>d, <1>5, <2>1, <2>2, GoodAnswers DEF EvidenceProgress, Asked, AskedAtLeast, Discovering, Searching, Unnarrowed
  <2>9. WindowProgress'
    BY <1>a, <1>b, <1>c, <1>d, <1>5, <2>1, <2>2, GoodAnswers DEF WindowProgress, Asked, AskedAtLeast, Discovering, Searching, Unnarrowed
  <2> QED
    BY <2>6, <2>7, <2>8, <2>9 DEF Progress
<1>6. CASE DiscoverActionTypes
  <2>1. /\ pc = "domain" /\ ~ ingesting /\ stored' = stored /\ pc' = "events" /\ ~ ingesting'
        /\ UNCHANGED <<cov, mapped, left, found, window>>
    BY <1>6 DEF DiscoverActionTypes, CallAndRecord, Ready, Goto, work
  <2>6. CoverageProgress'
    BY <1>a, <1>b, <1>c, <1>d, <1>6, <2>1 DEF CoverageProgress, Asked, AskedAtLeast, Discovering, Searching, Unnarrowed
  <2>7. LoopProgress'
    BY <1>a, <1>b, <1>c, <1>d, <1>6, <2>1 DEF LoopProgress, Asked, AskedAtLeast, Discovering, Searching, Unnarrowed
  <2>8. EvidenceProgress'
    BY <1>a, <1>b, <1>c, <1>d, <1>6, <2>1 DEF EvidenceProgress, Asked, AskedAtLeast, Discovering, Searching, Unnarrowed
  <2>9. WindowProgress'
    BY <1>a, <1>b, <1>c, <1>d, <1>6, <2>1 DEF WindowProgress, Asked, AskedAtLeast, Discovering, Searching, Unnarrowed
  <2> QED
    BY <2>6, <2>7, <2>8, <2>9 DEF Progress
<1>7. CASE SearchForEvidence
  <2>1. PICK r : /\ CallAndRecord("events", "identity", SearchEvents("identity"), r) /\ Keep(r)
           /\ found' = Evidence(r)
           /\ UNCHANGED <<cov, principals, mapped, left, window>>
    BY <1>7 DEF SearchForEvidence
  <2>2. /\ r = SearchEvents("identity") /\ pc = "events" /\ ~ ingesting /\ stored' = stored
        /\ pc' = "events" /\ ingesting' /\ answer' = r
    BY <1>a, <2>1 DEF CallAndRecord, Ready, Keep
  <2>6. CoverageProgress'
    BY <1>a, <1>b, <1>c, <1>d, <1>7, <2>1, <2>2, GoodAnswers DEF CoverageProgress, Asked, AskedAtLeast, Discovering, Searching, Unnarrowed, Evidence
  <2>7. LoopProgress'
    BY <1>a, <1>b, <1>c, <1>d, <1>7, <2>1, <2>2, GoodAnswers DEF LoopProgress, Asked, AskedAtLeast, Discovering, Searching, Unnarrowed, Evidence
  <2>8. EvidenceProgress'
    BY <1>a, <1>b, <1>c, <1>d, <1>7, <2>1, <2>2, GoodAnswers DEF EvidenceProgress, Asked, AskedAtLeast, Discovering, Searching, Unnarrowed, Evidence
  <2>9. WindowProgress'
    BY <1>a, <1>b, <1>c, <1>d, <1>7, <2>1, <2>2, GoodAnswers DEF WindowProgress, Asked, AskedAtLeast, Discovering, Searching, Unnarrowed, Evidence
  <2> QED
    BY <2>6, <2>7, <2>8, <2>9 DEF Progress
<1>8. CASE SearchAppEvents
  <2>1. PICK r : /\ CallAndRecord("app_events", "app", SearchEvents("app"), r) /\ Keep(r)
           /\ found' = found \cup r.events
           /\ UNCHANGED <<cov, principals, mapped, left, window>>
    BY <1>8 DEF SearchAppEvents
  <2>2. /\ r = SearchEvents("app") /\ pc = "app_events" /\ ~ ingesting /\ stored' = stored
        /\ pc' = "app_events" /\ ingesting' /\ answer' = r
    BY <1>a, <2>1 DEF CallAndRecord, Ready, Keep
  <2>6. CoverageProgress'
    BY <1>a, <1>b, <1>c, <1>d, <1>8, <2>1, <2>2, GoodAnswers DEF CoverageProgress, Asked, AskedAtLeast, Discovering, Searching, Unnarrowed
  <2>7. LoopProgress'
    BY <1>a, <1>b, <1>c, <1>d, <1>8, <2>1, <2>2, GoodAnswers DEF LoopProgress, Asked, AskedAtLeast, Discovering, Searching, Unnarrowed
  <2>8. EvidenceProgress'
    BY <1>a, <1>b, <1>c, <1>d, <1>8, <2>1, <2>2, GoodAnswers DEF EvidenceProgress, Asked, AskedAtLeast, Discovering, Searching, Unnarrowed
  <2>9. WindowProgress'
    BY <1>a, <1>b, <1>c, <1>d, <1>8, <2>1, <2>2, GoodAnswers DEF WindowProgress, Asked, AskedAtLeast, Discovering, Searching, Unnarrowed
  <2> QED
    BY <2>6, <2>7, <2>8, <2>9 DEF Progress
<1>9. CASE ResolveFocal
  <2>1. /\ pc = "focal" /\ ~ ingesting /\ stored' = stored /\ pc' = "narrow" /\ ~ ingesting'
        /\ UNCHANGED <<cov, mapped, found, window>>
    BY <1>9 DEF ResolveFocal, Ready, Goto
  <2>6. CoverageProgress'
    BY <1>a, <1>b, <1>c, <1>d, <1>9, <2>1 DEF CoverageProgress, Asked, AskedAtLeast, Discovering, Searching, Unnarrowed
  <2>7. LoopProgress'
    BY <1>a, <1>b, <1>c, <1>d, <1>9, <2>1 DEF LoopProgress, Asked, AskedAtLeast, Discovering, Searching, Unnarrowed
  <2>8. EvidenceProgress'
    BY <1>a, <1>b, <1>c, <1>d, <1>9, <2>1 DEF EvidenceProgress, Asked, AskedAtLeast, Discovering, Searching, Unnarrowed
  <2>9. WindowProgress'
    BY <1>a, <1>b, <1>c, <1>d, <1>9, <2>1 DEF WindowProgress, Asked, AskedAtLeast, Discovering, Searching, Unnarrowed
  <2> QED
    BY <2>6, <2>7, <2>8, <2>9 DEF Progress
<1>10. CASE NarrowTimeline
  <2>1. PICK r : /\ CallAndRecord("narrow", "identity", SearchWindow(Narrow(found)), r) /\ Keep(r)
           /\ window' = Narrow(found) /\ found # {}
           /\ UNCHANGED <<cov, principals, mapped, left, found>>
    BY <1>10 DEF NarrowTimeline
  <2>2. /\ pc = "narrow" /\ ~ ingesting /\ stored' = stored
        /\ pc' = "narrow" /\ ingesting' /\ answer' = r
    BY <1>a, <2>1 DEF CallAndRecord, Ready, Keep
  <2>6. CoverageProgress'
    BY <1>a, <1>b, <1>c, <1>d, <1>10, <2>1, <2>2, EvidenceWindow DEF CoverageProgress, Asked, AskedAtLeast, Discovering, Searching, Unnarrowed
  <2>7. LoopProgress'
    BY <1>a, <1>b, <1>c, <1>d, <1>10, <2>1, <2>2, EvidenceWindow DEF LoopProgress, Asked, AskedAtLeast, Discovering, Searching, Unnarrowed
  <2>8. EvidenceProgress'
    BY <1>a, <1>b, <1>c, <1>d, <1>10, <2>1, <2>2, EvidenceWindow DEF EvidenceProgress, Asked, AskedAtLeast, Discovering, Searching, Unnarrowed
  <2>9. WindowProgress'
    BY <1>a, <1>b, <1>c, <1>d, <1>10, <2>1, <2>2, EvidenceWindow DEF WindowProgress, Asked, AskedAtLeast, Discovering, Searching, Unnarrowed
  <2> QED
    BY <2>6, <2>7, <2>8, <2>9 DEF Progress
<1>11. CASE GetTimeline
  <2>1. /\ pc = "timeline" /\ ~ ingesting /\ stored' = stored /\ pc' = "focal_events" /\ ~ ingesting'
        /\ UNCHANGED <<cov, mapped, left, found, window>>
    BY <1>11 DEF GetTimeline, CallAndRecord, Ready, Goto, work
  <2>6. CoverageProgress'
    BY <1>a, <1>b, <1>c, <1>d, <1>11, <2>1 DEF CoverageProgress, Asked, AskedAtLeast, Discovering, Searching, Unnarrowed
  <2>7. LoopProgress'
    BY <1>a, <1>b, <1>c, <1>d, <1>11, <2>1 DEF LoopProgress, Asked, AskedAtLeast, Discovering, Searching, Unnarrowed
  <2>8. EvidenceProgress'
    BY <1>a, <1>b, <1>c, <1>d, <1>11, <2>1 DEF EvidenceProgress, Asked, AskedAtLeast, Discovering, Searching, Unnarrowed
  <2>9. WindowProgress'
    BY <1>a, <1>b, <1>c, <1>d, <1>11, <2>1 DEF WindowProgress, Asked, AskedAtLeast, Discovering, Searching, Unnarrowed
  <2> QED
    BY <2>6, <2>7, <2>8, <2>9 DEF Progress
<1>12. CASE CorrelateEvents
  <2>1. /\ pc = "focal_events" /\ ~ ingesting /\ stored' = stored /\ pc' = "focal_neighbors" /\ ~ ingesting'
        /\ UNCHANGED <<cov, mapped, left, found, window>>
    BY <1>12 DEF CorrelateEvents, CallAndRecord, Ready, Goto, work
  <2>6. CoverageProgress'
    BY <1>a, <1>b, <1>c, <1>d, <1>12, <2>1 DEF CoverageProgress, Asked, AskedAtLeast, Discovering, Searching, Unnarrowed
  <2>7. LoopProgress'
    BY <1>a, <1>b, <1>c, <1>d, <1>12, <2>1 DEF LoopProgress, Asked, AskedAtLeast, Discovering, Searching, Unnarrowed
  <2>8. EvidenceProgress'
    BY <1>a, <1>b, <1>c, <1>d, <1>12, <2>1 DEF EvidenceProgress, Asked, AskedAtLeast, Discovering, Searching, Unnarrowed
  <2>9. WindowProgress'
    BY <1>a, <1>b, <1>c, <1>d, <1>12, <2>1 DEF WindowProgress, Asked, AskedAtLeast, Discovering, Searching, Unnarrowed
  <2> QED
    BY <2>6, <2>7, <2>8, <2>9 DEF Progress
<1>13. CASE CorrelateNeighbors
  <2>1. /\ pc = "focal_neighbors" /\ ~ ingesting /\ stored' = stored /\ pc' = "focal_events" /\ ~ ingesting'
        /\ UNCHANGED <<cov, mapped, found, window>>
    BY <1>13 DEF CorrelateNeighbors, CallAndRecord, Ready, Goto
  <2>6. CoverageProgress'
    BY <1>a, <1>b, <1>c, <1>d, <1>13, <2>1 DEF CoverageProgress, Asked, AskedAtLeast, Discovering, Searching, Unnarrowed
  <2>7. LoopProgress'
    BY <1>a, <1>b, <1>c, <1>d, <1>13, <2>1 DEF LoopProgress, Asked, AskedAtLeast, Discovering, Searching, Unnarrowed
  <2>8. EvidenceProgress'
    BY <1>a, <1>b, <1>c, <1>d, <1>13, <2>1 DEF EvidenceProgress, Asked, AskedAtLeast, Discovering, Searching, Unnarrowed
  <2>9. WindowProgress'
    BY <1>a, <1>b, <1>c, <1>d, <1>13, <2>1 DEF WindowProgress, Asked, AskedAtLeast, Discovering, Searching, Unnarrowed
  <2> QED
    BY <2>6, <2>7, <2>8, <2>9 DEF Progress
<1>14. CASE IngestAnswer
  <2>1. /\ ingesting /\ pc \in DOMAIN AfterIngest /\ pc' = AfterIngest[pc] /\ ~ ingesting'
        /\ stored' = stored \cup Contents(answer)
        /\ UNCHANGED <<cov, mapped, left, found, window>>
    BY <1>a, <1>14 DEF IngestAnswer, Goto, work, TypeOK, ControlTypes
  <2>2. /\ answer.events \subseteq Contents(answer)
        /\ answer.report # NoReport => CoverageRow(answer.report.domain) \in Contents(answer)
    BY StoredContents
  <2>3. pc \in {"coverage", "app_coverage", "principals", "neighbors", "events", "app_events", "narrow"}
    BY <2>1, AfterIngestType
  <2>6. CoverageProgress'
    BY <1>a, <1>b, <1>c, <1>d, <1>14, <2>1, <2>2, <2>3 DEF CoverageProgress, Asked, AskedAtLeast, Discovering, Searching, Unnarrowed, AfterIngest
  <2>7. LoopProgress'
    BY <1>a, <1>b, <1>c, <1>d, <1>14, <2>1, <2>2, <2>3 DEF LoopProgress, Asked, AskedAtLeast, Discovering, Searching, Unnarrowed, AfterIngest
  <2>8. EvidenceProgress'
    BY <1>a, <1>b, <1>c, <1>d, <1>14, <2>1, <2>2, <2>3 DEF EvidenceProgress, Asked, AskedAtLeast, Discovering, Searching, Unnarrowed, AfterIngest
  <2>9. WindowProgress'
    BY <1>a, <1>b, <1>c, <1>d, <1>14, <2>1, <2>2, <2>3 DEF WindowProgress, Asked, AskedAtLeast, Discovering, Searching, Unnarrowed, AfterIngest
  <2> QED
    BY <2>6, <2>7, <2>8, <2>9 DEF Progress
<1>15. CASE SkipIngest
  BY <1>a, <1>15 DEF SkipIngest, MayIngest
<1>16. CASE SkipStage
  <2>1. PICK stage \in {"app_coverage", "neighbors", "app_events", "narrow", "timeline",
                        "focal_events", "focal_neighbors"} :
           /\ Ready(stage) /\ Unwanted(stage) /\ Goto(AfterSkip(stage))
           /\ left' = IF stage = "focal_neighbors" THEN left - 1 ELSE left
           /\ UNCHANGED <<cov, mapped, found, window, stored>>
    BY <1>a, <1>16 DEF SkipStage
  <2>2. pc = stage /\ ~ ingesting /\ pc' = AfterSkip(stage) /\ ~ ingesting'
    BY <2>1 DEF Ready, Goto
  <2>6. CoverageProgress'
    BY <1>a, <1>b, <1>c, <1>d, <1>16, <2>1, <2>2 DEF CoverageProgress, Asked, AskedAtLeast, Discovering, Searching, Unnarrowed, AfterSkip, Unwanted
  <2>7. LoopProgress'
    BY <1>a, <1>b, <1>c, <1>d, <1>16, <2>1, <2>2 DEF LoopProgress, Asked, AskedAtLeast, Discovering, Searching, Unnarrowed, AfterSkip, Unwanted
  <2>8. EvidenceProgress'
    BY <1>a, <1>b, <1>c, <1>d, <1>16, <2>1, <2>2 DEF EvidenceProgress, Asked, AskedAtLeast, Discovering, Searching, Unnarrowed, AfterSkip, Unwanted
  <2>9. WindowProgress'
    BY <1>a, <1>b, <1>c, <1>d, <1>16, <2>1, <2>2 DEF WindowProgress, Asked, AskedAtLeast, Discovering, Searching, Unnarrowed, AfterSkip, Unwanted
  <2> QED
    BY <2>6, <2>7, <2>8, <2>9 DEF Progress
<1>17. CASE Exhausted
  BY <1>a, <1>17 DEF Exhausted, Stop
<1>18. CASE Raise
  BY <1>a, <1>18 DEF Raise, Stop
<1>19. CASE Score
  <2>1. /\ pc = "score" /\ ~ ingesting /\ stored' = stored /\ pc' = "assess" /\ ~ ingesting'
        /\ UNCHANGED <<cov, mapped, left, found, window>>
    BY <1>a, <1>19 DEF Score, Ready, Goto, Stop, work
  <2>6. CoverageProgress'
    BY <1>a, <1>b, <1>c, <1>d, <1>19, <2>1 DEF CoverageProgress, Asked, AskedAtLeast, Discovering, Searching, Unnarrowed
  <2>7. LoopProgress'
    BY <1>a, <1>b, <1>c, <1>d, <1>19, <2>1 DEF LoopProgress, Asked, AskedAtLeast, Discovering, Searching, Unnarrowed
  <2>8. EvidenceProgress'
    BY <1>a, <1>b, <1>c, <1>d, <1>19, <2>1 DEF EvidenceProgress, Asked, AskedAtLeast, Discovering, Searching, Unnarrowed
  <2>9. WindowProgress'
    BY <1>a, <1>b, <1>c, <1>d, <1>19, <2>1 DEF WindowProgress, Asked, AskedAtLeast, Discovering, Searching, Unnarrowed
  <2> QED
    BY <2>6, <2>7, <2>8, <2>9 DEF Progress
<1>20. CASE AssessGaps
  <2>1. /\ pc = "assess" /\ ~ ingesting /\ stored' = stored /\ pc' = "persist" /\ ~ ingesting'
        /\ UNCHANGED <<cov, mapped, left, found, window>>
    BY <1>a, <1>20 DEF AssessGaps, Ready, Goto, work
  <2>6. CoverageProgress'
    BY <1>a, <1>b, <1>c, <1>d, <1>20, <2>1 DEF CoverageProgress, Asked, AskedAtLeast, Discovering, Searching, Unnarrowed
  <2>7. LoopProgress'
    BY <1>a, <1>b, <1>c, <1>d, <1>20, <2>1 DEF LoopProgress, Asked, AskedAtLeast, Discovering, Searching, Unnarrowed
  <2>8. EvidenceProgress'
    BY <1>a, <1>b, <1>c, <1>d, <1>20, <2>1 DEF EvidenceProgress, Asked, AskedAtLeast, Discovering, Searching, Unnarrowed
  <2>9. WindowProgress'
    BY <1>a, <1>b, <1>c, <1>d, <1>20, <2>1 DEF WindowProgress, Asked, AskedAtLeast, Discovering, Searching, Unnarrowed
  <2> QED
    BY <2>6, <2>7, <2>8, <2>9 DEF Progress
<1>21. CASE Persist
  BY <1>a, <1>21 DEF Persist, Stop
<1>22. CASE \E s \in Servers : Die(s)
  BY <1>a, <1>22 DEF Die
<1>23. CASE UNCHANGED vars
  <2>1. UNCHANGED <<pc, ingesting, answer, cov, mapped, left, found, window, stored>>
    BY <1>23 DEF vars
  <2>6. CoverageProgress'
    BY <1>a, <1>b, <1>c, <1>d, <1>23, <2>1 DEF CoverageProgress, Asked, AskedAtLeast, Discovering, Searching, Unnarrowed
  <2>7. LoopProgress'
    BY <1>a, <1>b, <1>c, <1>d, <1>23, <2>1 DEF LoopProgress, Asked, AskedAtLeast, Discovering, Searching, Unnarrowed
  <2>8. EvidenceProgress'
    BY <1>a, <1>b, <1>c, <1>d, <1>23, <2>1 DEF EvidenceProgress, Asked, AskedAtLeast, Discovering, Searching, Unnarrowed
  <2>9. WindowProgress'
    BY <1>a, <1>b, <1>c, <1>d, <1>23, <2>1 DEF WindowProgress, Asked, AskedAtLeast, Discovering, Searching, Unnarrowed
  <2> QED
    BY <2>6, <2>7, <2>8, <2>9 DEF Progress
<1> QED
  BY <1>1, <1>2, <1>3, <1>4, <1>5, <1>6, <1>7, <1>8, <1>9, <1>10, <1>11, <1>12, <1>13, <1>14, <1>15, <1>16, <1>17, <1>18, <1>19, <1>20, <1>21, <1>22, <1>23 DEF Next, Step

\* A server is lost by a fault only.
LEMMA UpSteps ==
  ASSUME TypeOK, AllUp, [Next]_vars PROVE AllUp'
<1>1. faults \in Nat /\ faults' \in Nat
  BY TypesAreKept, InputsAssumption DEF TypeOK, CountTypes
<1>2. faults <= faults' /\ scenario' = scenario /\ (up' = up \/ faults < faults')
  BY TrackIsKept
<1> QED
  BY <1>1, <1>2 DEF AllUp

\* Coverage is asked for before anything is scored; nothing but a fault or an
\* overlong time range makes the answer, a server or the merged report missing.
LEMMA ScoreSteps ==
  ASSUME TypeOK, AllUp, ScoreInv, [Next]_vars PROVE ScoreInv'
<1>a. /\ faults \in Nat /\ faults' \in Nat /\ faults <= faults' /\ scenario' = scenario
      /\ ingesting \in BOOLEAN /\ pc \in Stages
      /\ scenario \in Scenarios /\ cov \in [Domains -> AllReports \cup {NoReport}]
  BY TypesAreKept, TrackIsKept, InputsAssumption DEF TypeOK, CountTypes, ControlTypes, DataTypes
<1>b. "identity" \in Domains /\ "app" \in Domains /\ Domains = {"identity", "app"}
  BY DomainsAssumption
<1>c. cov' = cov => Reports' = Reports
  BY DEF Reports
<1>d. scenario.tooLong => Reports = <<>>
  BY <1>b DEF ScoreInv, Reports
<1>1. CASE CreateCase
  BY <1>a, <1>c, <1>1 DEF CreateCase, Ready, Goto, Stop, work, ScoreInv
<1>2. CASE CheckCoverage
  <2>1. PICK r \in {DescribeCoverage("identity"), Failed} :
           /\ CallAndRecord("coverage", "identity", DescribeCoverage("identity"), r) /\ Keep(r)
           /\ cov' = [cov EXCEPT !["identity"] = r.report]
           /\ UNCHANGED <<principals, mapped, left, found, window>>
    BY <1>2 DEF CheckCoverage
  <2>2. /\ pc = "coverage" /\ pc' = "coverage" /\ ingesting' /\ outcome' = "running"
        /\ faults' = 0 => r = DescribeCoverage("identity")
    BY <1>a, <2>1 DEF CallAndRecord, Ready, Keep
  <2>3. scenario.tooLong => r.report = NoReport
    BY <2>1 DEF DescribeCoverage, Failed, Reply
  <2> QED
    BY <1>a, <1>b, <2>1, <2>2, <2>3, GoodAnswers DEF ScoreInv
<1>3. CASE CheckAppCoverage
  <2>1. PICK r \in {DescribeCoverage("app"), Failed} :
           /\ CallAndRecord("app_coverage", "app", DescribeCoverage("app"), r) /\ Keep(r)
           /\ cov' = [cov EXCEPT !["app"] = r.report]
           /\ UNCHANGED <<principals, mapped, left, found, window>>
    BY <1>3 DEF CheckAppCoverage
  <2>2. /\ pc = "app_coverage" /\ pc' = "app_coverage" /\ ingesting' /\ outcome' = "running"
        /\ faults' = 0 => r = DescribeCoverage("app")
    BY <1>a, <2>1 DEF CallAndRecord, Ready, Keep
  <2>3. scenario.tooLong => r.report = NoReport
    BY <2>1 DEF DescribeCoverage, Failed, Reply
  <2> QED
    BY <1>a, <1>b, <2>1, <2>2, <2>3, GoodAnswers DEF ScoreInv
<1>4. CASE DiscoverPrincipals
  <2>1. pc = "principals" /\ pc' = "principals" /\ cov' = cov /\ outcome' # "report" /\ outcome' # "exception"
    BY <1>4 DEF DiscoverPrincipals, CallAndRecord, Ready, Keep
  <2> QED
    BY <1>a, <1>c, <2>1 DEF ScoreInv
<1>5. CASE MapRelationships
  <2>1. pc = "neighbors" /\ pc' = "neighbors" /\ cov' = cov /\ outcome' # "report" /\ outcome' # "exception"
    BY <1>5 DEF MapRelationships, CallAndRecord, Ready, Keep
  <2> QED
    BY <1>a, <1>c, <2>1 DEF ScoreInv
<1>6. CASE DiscoverActionTypes
  BY <1>a, <1>c, <1>6 DEF DiscoverActionTypes, CallAndRecord, Ready, Goto, work, ScoreInv
<1>7. CASE SearchForEvidence
  <2>1. pc = "events" /\ pc' = "events" /\ cov' = cov /\ outcome' # "report" /\ outcome' # "exception"
    BY <1>7 DEF SearchForEvidence, CallAndRecord, Ready, Keep
  <2> QED
    BY <1>a, <1>c, <2>1 DEF ScoreInv
<1>8. CASE SearchAppEvents
  <2>1. pc = "app_events" /\ pc' = "app_events" /\ cov' = cov /\ outcome' # "report" /\ outcome' # "exception"
    BY <1>8 DEF SearchAppEvents, CallAndRecord, Ready, Keep
  <2> QED
    BY <1>a, <1>c, <2>1 DEF ScoreInv
<1>9. CASE ResolveFocal
  BY <1>a, <1>c, <1>9 DEF ResolveFocal, Ready, Goto, ScoreInv
<1>10. CASE NarrowTimeline
  <2>1. pc = "narrow" /\ pc' = "narrow" /\ cov' = cov /\ outcome' # "report" /\ outcome' # "exception"
    BY <1>10 DEF NarrowTimeline, CallAndRecord, Ready, Keep
  <2> QED
    BY <1>a, <1>c, <2>1 DEF ScoreInv
<1>11. CASE GetTimeline
  BY <1>a, <1>c, <1>11 DEF GetTimeline, CallAndRecord, Ready, Goto, work, ScoreInv
<1>12. CASE CorrelateEvents
  BY <1>a, <1>c, <1>12 DEF CorrelateEvents, CallAndRecord, Ready, Goto, work, ScoreInv
<1>13. CASE CorrelateNeighbors
  BY <1>a, <1>c, <1>13 DEF CorrelateNeighbors, CallAndRecord, Ready, Goto, ScoreInv
<1>14. CASE IngestAnswer
  <2>1. /\ ingesting /\ pc \in DOMAIN AfterIngest /\ pc' = AfterIngest[pc] /\ cov' = cov
        /\ outcome = "running" /\ outcome' = outcome
    BY <1>14 DEF IngestAnswer, Goto, work, TypeOK, ControlTypes
  <2>2. AfterIngest[pc] \notin {"create", "coverage", "assess", "persist"} /\ pc # "create"
    BY <2>1 DEF AfterIngest
  <2>3. pc = "coverage" => pc' = "app_coverage"
    BY <2>1 DEF AfterIngest
  <2> QED
    BY <1>a, <1>c, <2>1, <2>2, <2>3 DEF ScoreInv
<1>15. CASE SkipIngest
  <2>1. /\ ingesting /\ pc \in DOMAIN AfterIngest /\ pc' = AfterIngest[pc] /\ cov' = cov
        /\ outcome = "running" /\ outcome' = outcome
    BY <1>15 DEF SkipIngest, Goto, work, TypeOK, ControlTypes
  <2>2. AfterIngest[pc] \notin {"create", "coverage", "assess", "persist"} /\ pc # "create"
    BY <2>1 DEF AfterIngest
  <2>3. pc = "coverage" => pc' = "app_coverage"
    BY <2>1 DEF AfterIngest
  <2> QED
    BY <1>a, <1>c, <2>1, <2>2, <2>3 DEF ScoreInv
<1>16. CASE SkipStage
  <2>1. PICK stage \in {"app_coverage", "neighbors", "app_events", "narrow", "timeline",
                        "focal_events", "focal_neighbors"} :
           Ready(stage) /\ Goto(AfterSkip(stage)) /\ UNCHANGED cov
    BY <1>16 DEF SkipStage
  <2>2. pc = stage /\ pc' = AfterSkip(stage) /\ outcome' = "running"
    BY <2>1 DEF Ready, Goto
  <2> QED
    BY <1>a, <1>c, <2>1, <2>2 DEF ScoreInv, AfterSkip
<1>17. CASE Exhausted
  BY <1>a, <1>c, <1>17 DEF Exhausted, Ready, Stop, work, ScoreInv
<1>18. CASE Raise
  <2>1. cov' = cov /\ pc' = pc /\ outcome = "running" /\ outcome' = "exception" /\ faults' = faults
    BY <1>18 DEF Raise, Stop, work
  <2>2. faults # 0
    <3>1. "case" \notin up \/ (ServerOf(pc) \notin up /\ ~ Unwanted(pc))
      BY <1>18 DEF Raise
    <3>2. ServerOf(pc) \in Servers /\ (ServerOf(pc) = "app" => pc \in {"app_coverage", "app_events"})
      BY DEF ServerOf, Servers
    <3> QED
      BY <3>1, <3>2 DEF AllUp, Servers, Unwanted
  <2> QED
    BY <1>a, <1>c, <2>1, <2>2 DEF ScoreInv
<1>19. CASE Score
  <2>1. pc = "score" /\ cov' = cov /\ faults' = faults
    BY <1>19 DEF Score, Ready, work
  <2>2. CASE Reports = <<>>
    <3>1. pc' = "score" /\ outcome' = "exception"
      BY <1>19, <2>1, <2>2 DEF Score, Stop
    <3>2. cov["identity"] = NoReport
      BY <2>2 DEF Reports
    <3> QED
      BY <1>a, <1>c, <2>1, <3>1, <3>2 DEF ScoreInv
  <2>3. CASE Reports # <<>>
    <3>1. pc' = "assess" /\ outcome' = "running"
      BY <1>19, <2>3 DEF Score, Ready, Goto
    <3> QED
      BY <1>a, <1>c, <2>1, <2>3, <3>1 DEF ScoreInv
  <2> QED
    BY <2>2, <2>3
<1>20. CASE AssessGaps
  BY <1>a, <1>c, <1>20 DEF AssessGaps, Ready, Goto, work, ScoreInv
<1>21. CASE Persist
  BY <1>a, <1>c, <1>21 DEF Persist, Ready, Stop, work, ScoreInv
<1>22. CASE \E s \in Servers : Die(s)
  BY <1>a, <1>c, <1>22 DEF Die, work, ScoreInv
<1>23. CASE UNCHANGED vars
  BY <1>a, <1>c, <1>23 DEF vars, ScoreInv
<1> QED
  BY <1>1, <1>2, <1>3, <1>4, <1>5, <1>6, <1>7, <1>8, <1>9, <1>10, <1>11, <1>12, <1>13, <1>14, <1>15, <1>16, <1>17, <1>18, <1>19, <1>20, <1>21, <1>22, <1>23 DEF Next, Step

\* A domain answers with events of its file.
LEMMA AnswersAreEvents ==
  ASSUME NEW d \in Domains, NEW r \in {SearchEvents(d), Failed}
  PROVE  r.events \subseteq EventsOf(scenario, d) /\ Evidence(r) \subseteq r.events
<1>1. Page(d) \subseteq EventsOf(scenario, d)
  BY DEF Page, EventsOf
<1>2. r = Failed \/ r = Reply(Page(d), scenario.coverage[d], 0)
  BY DEF SearchEvents
<1>3. r.events \subseteq EventsOf(scenario, d)
  BY <1>1, <1>2 DEF Failed, Reply
<1> QED
  BY <1>3 DEF Evidence

\* The evidence is gathered before the window is computed, and both stay.
LEMMA WindowSteps ==
  ASSUME TypeOK, WindowInv, ArtInv, [Next]_vars PROVE WindowInv' /\ ArtInv'
<1>a. /\ EventsOf(scenario, "identity")' = EventsOf(scenario, "identity")
      /\ EventsOf(scenario, "app")' = EventsOf(scenario, "app")
      /\ ingesting \in BOOLEAN /\ pc \in Stages
  BY TrackIsKept DEF EventsOf, TypeOK, ControlTypes
<1>b. "identity" \in Domains /\ "app" \in Domains
  BY DomainsAssumption
<1>c. found' = found => Narrow(found)' = Narrow(found)
  OBVIOUS
<1> USE DEF Unnarrowed, Searching, Discovering
<1>1. CASE CreateCase
  BY <1>a, <1>c, <1>1 DEF CreateCase, Ready, Goto, Stop, work, result, WindowInv, ArtInv
<1>2. CASE CheckCoverage
  <2>1. pc = "coverage" /\ pc' = pc /\ outcome = "running" /\ UNCHANGED <<found, window, artifacts>>
    BY <1>2 DEF CheckCoverage, CallAndRecord, Ready, Keep, result
  <2> QED
    BY <1>a, <1>c, <2>1 DEF WindowInv, ArtInv
<1>3. CASE CheckAppCoverage
  <2>1. pc = "app_coverage" /\ pc' = pc /\ outcome = "running" /\ UNCHANGED <<found, window, artifacts>>
    BY <1>3 DEF CheckAppCoverage, CallAndRecord, Ready, Keep, result
  <2> QED
    BY <1>a, <1>c, <2>1 DEF WindowInv, ArtInv
<1>4. CASE DiscoverPrincipals
  <2>1. pc = "principals" /\ pc' = pc /\ outcome = "running" /\ UNCHANGED <<found, window, artifacts>>
    BY <1>4 DEF DiscoverPrincipals, CallAndRecord, Ready, Keep, result
  <2> QED
    BY <1>a, <1>c, <2>1 DEF WindowInv, ArtInv
<1>5. CASE MapRelationships
  <2>1. pc = "neighbors" /\ pc' = pc /\ outcome = "running" /\ UNCHANGED <<found, window, artifacts>>
    BY <1>5 DEF MapRelationships, CallAndRecord, Ready, Keep, result
  <2> QED
    BY <1>a, <1>c, <2>1 DEF WindowInv, ArtInv
<1>6. CASE DiscoverActionTypes
  BY <1>a, <1>c, <1>6 DEF DiscoverActionTypes, CallAndRecord, Ready, Goto, work, result, WindowInv, ArtInv
<1>7. CASE SearchForEvidence
  <2>1. PICK r \in {SearchEvents("identity"), Failed} :
           /\ CallAndRecord("events", "identity", SearchEvents("identity"), r) /\ Keep(r)
           /\ found' = Evidence(r)
           /\ UNCHANGED <<cov, principals, mapped, left, window>>
    BY <1>7 DEF SearchForEvidence
  <2>2. /\ pc = "events" /\ pc' = "events" /\ outcome = "running" /\ outcome' = "running"
        /\ artifacts' = artifacts
    BY <2>1 DEF CallAndRecord, Ready, Keep, result
  <2> QED
    BY <1>a, <1>b, <1>c, <2>1, <2>2, AnswersAreEvents DEF WindowInv, ArtInv
<1>8. CASE SearchAppEvents
  <2>1. PICK r \in {SearchEvents("app"), Failed} :
           /\ CallAndRecord("app_events", "app", SearchEvents("app"), r) /\ Keep(r)
           /\ found' = found \cup r.events
           /\ UNCHANGED <<cov, principals, mapped, left, window>>
    BY <1>8 DEF SearchAppEvents
  <2>2. /\ pc = "app_events" /\ pc' = "app_events" /\ outcome = "running" /\ outcome' = "running"
        /\ artifacts' = artifacts
    BY <2>1 DEF CallAndRecord, Ready, Keep, result
  <2> QED
    BY <1>a, <1>b, <1>c, <2>1, <2>2, AnswersAreEvents DEF WindowInv, ArtInv
<1>9. CASE ResolveFocal
  BY <1>a, <1>c, <1>9 DEF ResolveFocal, Ready, Goto, result, WindowInv, ArtInv
<1>10. CASE NarrowTimeline
  <2>1. PICK r \in {SearchWindow(Narrow(found)), Failed} :
           /\ CallAndRecord("narrow", "identity", SearchWindow(Narrow(found)), r) /\ Keep(r)
           /\ window' = Narrow(found) /\ found # {}
           /\ UNCHANGED <<cov, principals, mapped, left, found>>
    BY <1>10 DEF NarrowTimeline
  <2>2. /\ pc = "narrow" /\ pc' = "narrow" /\ outcome = "running" /\ outcome' = "running"
        /\ artifacts' = artifacts
    BY <2>1 DEF CallAndRecord, Ready, Keep, result
  <2> QED
    BY <1>a, <1>b, <1>c, <2>1, <2>2 DEF WindowInv, ArtInv
<1>11. CASE GetTimeline
  BY <1>a, <1>c, <1>11 DEF GetTimeline, CallAndRecord, Ready, Goto, work, result, WindowInv, ArtInv
<1>12. CASE CorrelateEvents
  BY <1>a, <1>c, <1>12 DEF CorrelateEvents, CallAndRecord, Ready, Goto, work, result, WindowInv, ArtInv
<1>13. CASE CorrelateNeighbors
  BY <1>a, <1>c, <1>13 DEF CorrelateNeighbors, CallAndRecord, Ready, Goto, result, WindowInv, ArtInv
<1>14. CASE IngestAnswer
  <2>1. /\ pc \in DOMAIN AfterIngest /\ pc' = AfterIngest[pc]
        /\ outcome = "running" /\ outcome' = outcome /\ UNCHANGED <<found, window, artifacts>>
    BY <1>14 DEF IngestAnswer, Goto, work, result, TypeOK, ControlTypes
  <2>2. pc' \in Unnarrowed => pc \in Unnarrowed
    BY <2>1 DEF AfterIngest
  <2> QED
    BY <1>a, <1>c, <2>1, <2>2 DEF WindowInv, ArtInv
<1>15. CASE SkipIngest
  <2>1. /\ pc \in DOMAIN AfterIngest /\ pc' = AfterIngest[pc]
        /\ outcome = "running" /\ outcome' = outcome /\ UNCHANGED <<found, window, artifacts>>
    BY <1>15 DEF SkipIngest, Goto, work, result, TypeOK, ControlTypes
  <2>2. pc' \in Unnarrowed => pc \in Unnarrowed
    BY <2>1 DEF AfterIngest
  <2> QED
    BY <1>a, <1>c, <2>1, <2>2 DEF WindowInv, ArtInv
<1>16. CASE SkipStage
  <2>1. PICK stage \in {"app_coverage", "neighbors", "app_events", "narrow", "timeline",
                        "focal_events", "focal_neighbors"} :
           Ready(stage) /\ Goto(AfterSkip(stage)) /\ UNCHANGED <<found, window, artifacts>>
    BY <1>16 DEF SkipStage, result
  <2>2. pc = stage /\ pc' = AfterSkip(stage) /\ outcome = "running" /\ outcome' = "running"
    BY <2>1 DEF Ready, Goto
  <2> QED
    BY <1>a, <1>c, <2>1, <2>2 DEF WindowInv, ArtInv, AfterSkip
<1>17. CASE Exhausted
  BY <1>a, <1>c, <1>17 DEF Exhausted, Ready, Stop, work, result, WindowInv, ArtInv
<1>18. CASE Raise
  BY <1>a, <1>c, <1>18 DEF Raise, Stop, work, result, WindowInv, ArtInv
<1>19. CASE Score
  BY <1>a, <1>c, <1>19 DEF Score, Ready, Goto, Stop, work, result, WindowInv, ArtInv
<1>20. CASE AssessGaps
  BY <1>a, <1>c, <1>20 DEF AssessGaps, Ready, Goto, work, result, WindowInv, ArtInv
<1>21. CASE Persist
  <2>1. pc' = pc /\ outcome = "running" /\ outcome' = "report" /\ UNCHANGED <<found, window>>
    BY <1>21 DEF Persist, Ready, Stop, work
  <2>2. artifacts' \in {found, artifacts}
    BY <1>21 DEF Persist
  <2> QED
    BY <1>a, <1>c, <2>1, <2>2 DEF WindowInv, ArtInv
<1>22. CASE \E s \in Servers : Die(s)
  BY <1>a, <1>c, <1>22 DEF Die, work, result, WindowInv, ArtInv
<1>23. CASE UNCHANGED vars
  BY <1>a, <1>c, <1>23 DEF vars, WindowInv, ArtInv
<1> QED
  BY <1>1, <1>2, <1>3, <1>4, <1>5, <1>6, <1>7, <1>8, <1>9, <1>10, <1>11, <1>12, <1>13, <1>14, <1>15, <1>16, <1>17, <1>18, <1>19, <1>20, <1>21, <1>22, <1>23 DEF Next, Step

\* A run that has ended takes no step; the step that ends it in a report is Persist.
LEMMA EndIsFinal ==
  ASSUME [Next]_vars
  PROVE  /\ outcome # "running" => UNCHANGED vars
         /\ (outcome = "running" /\ outcome' = "report") => Persist
<1>1. CASE CreateCase
  BY <1>1 DEF CreateCase, Ready, Goto, Stop
<1>2. CASE CheckCoverage
  BY <1>2 DEF CheckCoverage, CallAndRecord, Ready, Keep
<1>3. CASE CheckAppCoverage
  BY <1>3 DEF CheckAppCoverage, CallAndRecord, Ready, Keep
<1>4. CASE DiscoverPrincipals
  BY <1>4 DEF DiscoverPrincipals, CallAndRecord, Ready, Keep
<1>5. CASE MapRelationships
  BY <1>5 DEF MapRelationships, CallAndRecord, Ready, Keep
<1>6. CASE DiscoverActionTypes
  BY <1>6 DEF DiscoverActionTypes, CallAndRecord, Ready, Goto
<1>7. CASE SearchForEvidence
  BY <1>7 DEF SearchForEvidence, CallAndRecord, Ready, Keep
<1>8. CASE SearchAppEvents
  BY <1>8 DEF SearchAppEvents, CallAndRecord, Ready, Keep
<1>9. CASE ResolveFocal
  BY <1>9 DEF ResolveFocal, Ready, Goto
<1>10. CASE NarrowTimeline
  BY <1>10 DEF NarrowTimeline, CallAndRecord, Ready, Keep
<1>11. CASE GetTimeline
  BY <1>11 DEF GetTimeline, CallAndRecord, Ready, Goto
<1>12. CASE CorrelateEvents
  BY <1>12 DEF CorrelateEvents, CallAndRecord, Ready, Goto
<1>13. CASE CorrelateNeighbors
  BY <1>13 DEF CorrelateNeighbors, CallAndRecord, Ready, Goto
<1>14. CASE IngestAnswer
  BY <1>14 DEF IngestAnswer, Goto
<1>15. CASE SkipIngest
  BY <1>15 DEF SkipIngest, Goto
<1>16. CASE SkipStage
  BY <1>16 DEF SkipStage, Ready, Goto
<1>17. CASE Exhausted
  BY <1>17 DEF Exhausted, Ready, Stop
<1>18. CASE Raise
  BY <1>18 DEF Raise, Stop
<1>19. CASE Score
  BY <1>19 DEF Score, Ready, Goto, Stop
<1>20. CASE AssessGaps
  BY <1>20 DEF AssessGaps, Ready, Goto
<1>21. CASE Persist
  BY <1>21 DEF Persist, Ready
<1>22. CASE \E s \in Servers : Die(s)
  BY <1>22 DEF Die
<1>23. CASE UNCHANGED vars
  BY <1>23 DEF vars
<1> QED
  BY <1>1, <1>2, <1>3, <1>4, <1>5, <1>6, <1>7, <1>8, <1>9, <1>10, <1>11, <1>12, <1>13, <1>14, <1>15, <1>16, <1>17, <1>18, <1>19, <1>20, <1>21, <1>22, <1>23 DEF Next, Step

\* The persist call fits in the budget only if every stage before it was on track.
LEMMA ReportSteps ==
  ASSUME TypeOK, AllUp, ScoreInv, ProgressInv, Persist
  PROVE  SkipsOnlyAtTheBudget'
<1> SUFFICES ASSUME faults' = 0, count' <= conf'.budget PROVE NothingSkipped'
  BY DEF SkipsOnlyAtTheBudget
<1>1. /\ outcome = "running" /\ pc = "persist"
      /\ UNCHANGED <<scenario, conf, stored, cov, mapped, found, window>>
  BY DEF Persist, Ready, Stop, inputs, work
<1>2. faults = 0
  BY InputsAssumption DEF Persist, TypeOK, CountTypes
<1>3. "case" \in up
  BY <1>2 DEF AllUp, Servers
<1>4. count' = count + 1 /\ count \in Nat /\ conf.budget \in Nat
  BY <1>3, InputsAssumption DEF Persist, TypeOK, CountTypes, DataTypes
<1>5. OnTrack
  BY <1>1, <1>2, <1>4 DEF OnTrack, CheckBudget
<1>6. ~ scenario.tooLong
  <2>1. Reports # <<>>
    BY <1>1 DEF ScoreInv
  <2> QED
    BY <2>1, DomainsAssumption DEF ScoreInv, Reports
<1>7. Progress
  BY <1>5, <1>6 DEF ProgressInv
<1>8. NothingSkipped
  <2>1. \A d \in IF scenario.app THEN Domains ELSE {"identity"} : Asked(d)
    BY <1>1, <1>7, DomainsAssumption DEF Progress, CoverageProgress
  <2>2. mapped = scenario.principals /\ found \subseteq stored
        /\ (scenario.app => Page("app") \subseteq found)
        /\ (found # {} => window # NoWindow)
    BY <1>1, <1>7 DEF Progress, LoopProgress, EvidenceProgress, WindowProgress,
                      Discovering, Searching, Unnarrowed
  <2> QED
    BY <2>1, <2>2 DEF NothingSkipped, Asked
<1> QED
  BY <1>1, <1>8 DEF NothingSkipped, Page

\* What holds of every run.
RunInv == AllUp /\ ScoreInv /\ WindowInv /\ ArtInv

\* Every step keeps it.
LEMMA RunInvSteps ==
  ASSUME TypeOK, RunInv, [Next]_vars PROVE RunInv'
  BY UpSteps, ScoreSteps, WindowSteps DEF RunInv

\* Every step keeps a run on track, or ends it with nothing skipped.
LEMMA ProgressInvSteps ==
  ASSUME TypeOK, RunInv, ProgressInv, [Next]_vars PROVE ProgressInv'
<1>1. ASSUME OnTrack', ~ scenario'.tooLong PROVE Progress'
  <2>1. OnTrack /\ ~ scenario.tooLong
    BY <1>1, TrackIsKept
  <2>2. Progress
    BY <2>1 DEF ProgressInv
  <2> QED
    BY <1>1, <2>1, <2>2, ProgressSteps DEF RunInv
<1>2. SkipsOnlyAtTheBudget'
  <2>1. CASE outcome # "running"
    <3>1. UNCHANGED vars
      BY <2>1, EndIsFinal
    <3>2. NothingSkipped' = NothingSkipped
      BY <3>1 DEF vars, NothingSkipped, Page
    <3> QED
      BY <3>1, <3>2 DEF vars, ProgressInv, SkipsOnlyAtTheBudget
  <2>2. CASE outcome = "running" /\ outcome' = "report"
    <3>1. Persist
      BY <2>2, EndIsFinal
    <3> QED
      BY <3>1, ReportSteps DEF RunInv
  <2>3. CASE outcome' # "report"
    BY <2>3 DEF SkipsOnlyAtTheBudget
  <2> QED
    BY <2>1, <2>2, <2>3
<1> QED
  BY <1>1, <1>2 DEF ProgressInv

\* A run starts with all its servers and nothing done.
LEMMA RunInvAtFirst ==
  ASSUME Init PROVE RunInv /\ ProgressInv
<1>1. scenario \in Scenarios /\ scenario.app \in BOOLEAN
  BY InputsAssumption DEF Init
<1>2. AllUp /\ WindowInv /\ ArtInv
  BY DEF Init, AllUp, WindowInv, ArtInv
<1>3. ScoreInv
  BY DomainsAssumption DEF Init, ScoreInv
<1>4. Progress
  <2>1. CoverageProgress /\ LoopProgress
    BY DEF Init, CoverageProgress, LoopProgress, AskedAtLeast, Discovering
  <2>2. EvidenceProgress /\ WindowProgress
    BY DEF Init, EvidenceProgress, WindowProgress, Searching, Unnarrowed, Discovering
  <2> QED
    BY <2>1, <2>2 DEF Progress
<1>5. SkipsOnlyAtTheBudget
  BY DEF Init, SkipsOnlyAtTheBudget
<1> QED
  BY <1>2, <1>3, <1>4, <1>5 DEF RunInv, ProgressInv

\* The invariant of run_investigation: what is done at each stage.
THEOREM RunInvariant == Spec => [](RunInv /\ ProgressInv)
<1>1. Init => RunInv /\ ProgressInv
  BY RunInvAtFirst
<1>2. TypeOK /\ RunInv /\ ProgressInv /\ [Next]_vars => (RunInv /\ ProgressInv)'
  BY RunInvSteps, ProgressInvSteps
<1> QED
  BY <1>1, <1>2, TypeCorrect, PTL DEF Spec

\* The budget and failures are the only reasons why a reported run may have
\* skipped a domain, a principal or the ingest of evidence it cites (pipeline.py,
\* _check_budget before each call and before each ingest).
THEOREM SkipsAreBudgeted == Spec => []SkipsOnlyAtTheBudget
<1>1. ProgressInv => SkipsOnlyAtTheBudget
  BY DEF ProgressInv
<1> QED
  BY <1>1, RunInvariant, PTL

\* narrow_start and narrow_end enclose all the evidence of both domains when the
\* last evidence is from the first 28 days of its month: the file of either
\* domain may be of any length.
THEOREM WindowEncloses == Spec => []WindowHoldsEvidence
<1>1. TypeOK /\ RunInv => WindowHoldsEvidence
  <2> SUFFICES ASSUME TypeOK, RunInv, window # NoWindow, Latest(Times(found)) % 100 <= 28
               PROVE  \A e \in found : window.lo <= e.ts /\ e.ts <= window.hi
    BY DEF WindowHoldsEvidence
  <2>1. /\ found # {} /\ window = Narrow(found)
        /\ found \in SUBSET (EventsOf(scenario, "identity") \cup EventsOf(scenario, "app"))
    BY DEF RunInv, WindowInv
  <2>2. scenario \in Scenarios
    BY DEF TypeOK, DataTypes
  <2> QED
    BY <2>1, <2>2, TimesAreFinite, NarrowEncloses
<1> QED
  BY <1>1, TypeCorrect, RunInvariant, PTL

\* run_investigation raises only after a failure or for an overlong time range.
THEOREM ExceptionsAreFaults == Spec => []RaisesForAReason
<1>1. RunInv => RaisesForAReason
  BY DEF RunInv, ScoreInv, RaisesForAReason
<1> QED
  BY <1>1, RunInvariant, PTL
=============================================================================
