------------------------ MODULE InvestigationProofs ------------------------
(***************************************************************************)
(* Theorems about Investigation, for every number of analysts, every set   *)
(* of scenarios, every budget and every number of faults.                  *)
(***************************************************************************)
EXTENDS Investigation, PipelineProofs

-----------------------------------------------------------------------------
(***************************************************************************)
(* The pipeline among follow-up calls.                                     *)
(***************************************************************************)
\* A step of the pipeline that is not refused the file leaves "create" or ends
\* the run, and the case only grows.
LEMMA StepsGoOn ==
  ASSUME TypeOK, Step
  PROVE  /\ outcome = "running"
         /\ pc' # "create" \/ outcome' # "running"
         /\ stored \subseteq stored'
<1>0. ingesting \in BOOLEAN /\ (ingesting => AfterIngest[pc] # "create")
  <2>1. \A stage \in DOMAIN AfterIngest : AfterIngest[stage] # "create"
    BY DEF AfterIngest
  <2> QED
    BY <2>1 DEF TypeOK, ControlTypes
<1>1. CASE CreateCase
  BY <1>1 DEF CreateCase, Ready, Goto, Stop
<1>2. CASE CheckCoverage
  BY <1>2 DEF CheckCoverage, CallAndRecord, Ready, Keep
<1>3. CASE CheckAppCoverage
  BY <1>3 DEF CheckAppCoverage, CallAndRecord, Ready, Keep
<1>4. CASE DiscoverPrincipals
  BY <1>4 DEF DiscoverPrincipals, CallAndRecord, Ready, Keep
<1>5. CASE MapRelationships
  BY <1>5 DEF MapRelationships, CallAndRecord, Ready, Keep
<1>6. CASE DiscoverActionTypes
  BY <1>6 DEF DiscoverActionTypes, CallAndRecord, Ready, Goto
<1>7. CASE SearchForEvidence
  BY <1>7 DEF SearchForEvidence, CallAndRecord, Ready, Keep
<1>8. CASE SearchAppEvents
  BY <1>8 DEF SearchAppEvents, CallAndRecord, Ready, Keep
<1>9. CASE ResolveFocal
  BY <1>9 DEF ResolveFocal, Ready, Goto
<1>10. CASE NarrowTimeline
  BY <1>10 DEF NarrowTimeline, CallAndRecord, Ready, Keep
<1>11. CASE GetTimeline
  BY <1>11 DEF GetTimeline, CallAndRecord, Ready, Goto
<1>12. CASE CorrelateEvents
  BY <1>12 DEF CorrelateEvents, CallAndRecord, Ready, Goto
<1>13. CASE CorrelateNeighbors
  BY <1>13 DEF CorrelateNeighbors, CallAndRecord, Ready, Goto
<1>14. CASE IngestAnswer
  BY <1>0, <1>14 DEF IngestAnswer, Goto
<1>15. CASE SkipIngest
  BY <1>0, <1>15 DEF SkipIngest, Goto
<1>16. CASE SkipStage
  <2>1. PICK stage \in {"app_coverage", "neighbors", "app_events", "narrow", "timeline",
                         "focal_events", "focal_neighbors"} :
           Ready(stage) /\ Goto(AfterSkip(stage)) /\ stored' = stored
    BY <1>16 DEF SkipStage
  <2>2. AfterSkip(stage) # "create"
    BY DEF AfterSkip
  <2> QED
    BY <2>1, <2>2 DEF Goto, Ready
<1>17. CASE Exhausted
  BY <1>17 DEF Exhausted, Ready, Stop
<1>18. CASE Raise
  BY <1>18 DEF Raise, Stop
<1>19. CASE Score
  BY <1>19 DEF Score, Ready, Goto, Stop
<1>20. CASE AssessGaps
  BY <1>20 DEF AssessGaps, Ready, Goto
<1>21. CASE Persist
  BY <1>21 DEF Persist, Ready, Stop
<1> QED
  BY <1>1, <1>2, <1>3, <1>4, <1>5, <1>6, <1>7, <1>8, <1>9, <1>10, <1>11, <1>12, <1>13, <1>14, <1>15, <1>16, <1>17, <1>18, <1>19, <1>20, <1>21 DEF Step

\* A write that is refused the file changes nothing but the counters and the stage.
LEMMA RefusedKeeps ==
  ASSUME TypeOK, Refused
  PROVE  /\ TypeOK'
         /\ outcome = "running"
         /\ pc' # "create" \/ outcome' # "running"
         /\ outcome' = "report" => pc' = "persist"
         /\ pc' = "persist" => pc = "persist"
         /\ UNCHANGED <<stored, confidence, created, saved>>
<1>1. CASE Ingesting /\ IngestRefused
  <2>1. pc \in DOMAIN AfterIngest /\ outcome = "running"
    BY <1>1 DEF Ingesting, TypeOK, ControlTypes
  <2>2. AfterIngest[pc] \in Stages \ {"focal_neighbors"}
    BY <2>1, AfterIngestType
  <2>3. AfterIngest[pc] \notin {"create", "persist"}
    BY <2>1 DEF AfterIngest
  <2>4. ControlTypes'
    BY <1>1, <2>2, GotoType DEF IngestRefused
  <2>5. CountTypes'
    BY <1>1, <2>2 DEF IngestRefused, Goto, TypeOK, CountTypes, work
  <2>6. DataTypes'
    BY <1>1, SameData DEF IngestRefused, inputs, work, result
  <2> QED
    BY <1>1, <2>1, <2>3, <2>4, <2>5, <2>6 DEF IngestRefused, Goto, TypeOK, result
<1>2. CASE Persisting /\ PersistRefused
  <2>1. pc = "persist" /\ outcome = "running"
    BY <1>2 DEF Persisting, Ready
  <2>2. ControlTypes'
    BY <1>2, StopType DEF PersistRefused, Outcomes
  <2>3. CountTypes'
    BY <1>2 DEF PersistRefused, Stop, TypeOK, CountTypes, work
  <2>4. DataTypes'
    BY <1>2, SameData DEF PersistRefused, Stop, inputs, work, result
  <2> QED
    BY <1>2, <2>1, <2>2, <2>3, <2>4 DEF PersistRefused, Stop, TypeOK, result
<1> QED
  BY <1>1, <1>2 DEF Refused

\* What a step of the run may do to the case and to the run itself; the
\* confidence is settled by the assessment, before the persist stage.
LEMMA RunSteps ==
  ASSUME TypeOK, PipelineStep
  PROVE  /\ TypeOK'
         /\ outcome = "running"
         /\ pc' # "create" \/ outcome' # "running"
         /\ stored \subseteq stored'
         /\ outcome' = "report" => pc' = "persist"
         /\ pc' = "persist" => AssessGaps \/ (pc = "persist" /\ confidence' = confidence)
<1>1. CASE Refused
  BY <1>1, RefusedKeeps
<1>2. CASE Step
  <2>1. [Next]_vars
    BY <1>2 DEF Next
  <2> QED
    BY <1>2, <2>1, StepsGoOn, StepsToPersist, TypesAreKept
<1>3. Refused \/ Step
  BY DEF PipelineStep, Write, Elsewhere, Step
<1> QED
  BY <1>1, <1>2, <1>3

\* The file of the case, and who waits for it.
FileInv ==
  /\ created \in BOOLEAN
  /\ pc = "create" /\ outcome = "running" => ~ created
  /\ asked \in [Analysts -> Tools \cup {NONE}]
  /\ holder # NONE => holder \in Analysts /\ asked[holder] # NONE
  /\ \A a \in Analysts : asked[a] # NONE => created
  /\ report # NONE => created /\ report.events \subseteq stored

\* What the run says, what it saved, and what was reported of it.
VerdictInv ==
  /\ outcome = "report" => pc = "persist"
  /\ pc = "persist" => confidence \in DOMAIN BandRank
  /\ saved # NONE => outcome = "report" /\ saved = confidence
  /\ report # NONE =>
       \/ report.verdict = "low"
       \/ outcome = "report" /\ report.verdict = confidence

InvestigationInv == TypeOK /\ FileInv /\ VerdictInv

\* Nothing is saved, held or asked before the run.
LEMMA InvHoldsAtFirst ==
  ASSUME InvestigationInit PROVE InvestigationInv
<1>1. Init
  BY DEF InvestigationInit
<1>2. TypeOK
  BY <1>1, TypesAtFirst
<1>3. FileInv
  BY DEF InvestigationInit, FileInv
<1>4. VerdictInv
  BY <1>1 DEF InvestigationInit, Init, VerdictInv
<1> QED
  BY <1>2, <1>3, <1>4 DEF InvestigationInv

\* The file is created once and stays.
LEMMA CreatedStays ==
  ASSUME TypeOK, FileInv, PipelineStep
  PROVE  created' \in BOOLEAN /\ (created => created')
<1>1. CASE Write
  BY <1>1 DEF Write, FileInv
<1>2. CASE Refused
  BY <1>2, RefusedKeeps DEF FileInv
<1>3. CASE Elsewhere
  <2>1. CASE pc = "create" /\ count' > count
    <3>1. outcome = "running"
      BY <1>3, StepsGoOn DEF Elsewhere
    <3>2. ~ created
      BY <2>1, <3>1 DEF FileInv
    <3> QED
      BY <1>3, <2>1, <3>2 DEF Elsewhere, Created
  <2>2. CASE ~ (pc = "create" /\ count' > count)
    BY <1>3, <2>2 DEF Elsewhere, Created, FileInv
  <2> QED
    BY <2>1, <2>2
<1> QED
  BY <1>1, <1>2, <1>3 DEF PipelineStep

\* A hypothesis is saved by the step that ends the run in a report.
LEMMA SavedAtTheEnd ==
  ASSUME TypeOK, VerdictInv, PipelineStep
  PROVE  saved' # NONE => outcome' = "report" /\ saved' = confidence'
<1>1. saved = NONE
  BY RunSteps DEF VerdictInv
<1>2. CASE Write
  <2>1. CASE Persisting
    <3>1. Persist
      BY <1>2, <2>1 DEF Write, Persisting, IngestAnswer, Ready
    <3>2. outcome' = "report" /\ confidence' = confidence
      BY <3>1 DEF Persist, Stop
    <3> QED
      BY <1>1, <1>2, <3>2 DEF Write, Hypothesis
  <2>2. CASE ~ Persisting
    BY <1>1, <1>2, <2>2 DEF Write
  <2> QED
    BY <2>1, <2>2
<1>3. CASE Refused
  BY <1>1, <1>3, RefusedKeeps
<1>4. CASE Elsewhere
  BY <1>1, <1>4 DEF Elsewhere
<1> QED
  BY <1>2, <1>3, <1>4 DEF PipelineStep

\* score_confidence_from_gaps returns one of the three bands.
LEMMA BandIsARank ==
  ASSUME NEW assessments
  PROVE  Confidence(assessments) \in DOMAIN BandRank
  BY DEF Confidence, BandRank

\* A step of the run.
LEMMA RunKeepsInv ==
  ASSUME InvestigationInv, PipelineStep PROVE InvestigationInv'
<1>0. TypeOK /\ FileInv /\ VerdictInv
  BY DEF InvestigationInv
<1>1. TypeOK'
  BY <1>0, RunSteps
<1>2. holder' = holder /\ asked' = asked /\ report' = report
  BY DEF PipelineStep, followUps
<1>3. FileInv'
  <2>1. created' \in BOOLEAN /\ (created => created')
    BY <1>0, CreatedStays
  <2>2. ~ (pc' = "create" /\ outcome' = "running")
    BY <1>0, RunSteps
  <2>3. stored \subseteq stored'
    BY <1>0, RunSteps
  <2> QED
    BY <1>0, <1>2, <2>1, <2>2, <2>3 DEF FileInv
<1>4. VerdictInv'
  <2>1. outcome = "running"
    BY <1>0, RunSteps
  <2>2. outcome' = "report" => pc' = "persist"
    BY <1>0, RunSteps
  <2>3. pc' = "persist" => confidence' \in DOMAIN BandRank
    <3>1. CASE AssessGaps
      <4>1. confidence' = Confidence(assessed')
        BY <3>1 DEF AssessGaps
      <4> QED
        BY <4>1, BandIsARank
    <3>2. CASE pc = "persist" /\ confidence' = confidence
      BY <1>0, <3>2 DEF VerdictInv
    <3> QED
      BY <1>0, <3>1, <3>2, RunSteps
  <2>4. saved' # NONE => outcome' = "report" /\ saved' = confidence'
    BY <1>0, SavedAtTheEnd
  <2>5. report' # NONE => report'.verdict = "low"
    BY <1>0, <1>2, <2>1 DEF VerdictInv
  <2> QED
    BY <2>2, <2>3, <2>4, <2>5 DEF VerdictInv
<1> QED
  BY <1>1, <1>3, <1>4 DEF InvestigationInv

\* A step of a follow-up call leaves the run and the case alone.
LEMMA FollowUpKeepsInv ==
  ASSUME InvestigationInv, NEW a \in Analysts,
         (\E tool \in Tools : Ask(a, tool)) \/ FollowUp(a) \/ FollowUpDies(a)
  PROVE  InvestigationInv'
<1>0. TypeOK /\ FileInv /\ VerdictInv
  BY DEF InvestigationInv
<1>1. UNCHANGED <<vars, created, saved>>
  BY DEF Ask, FollowUp, Open, Answer, FollowUpDies
<1>2. TypeOK'
  <2>1. [Next]_vars
    BY <1>1
  <2> QED
    BY <1>0, <2>1, TypesAreKept
<1>3. /\ pc' = pc /\ outcome' = outcome /\ stored' = stored
      /\ confidence' = confidence /\ created' = created /\ saved' = saved
  BY <1>1 DEF vars
<1>4. FileInv' /\ VerdictInv'
  <2>1. ASSUME NEW tool \in Tools, Ask(a, tool) PROVE FileInv' /\ VerdictInv'
    <3>1. FileInv'
      BY <1>0, <1>3, <2>1 DEF Ask, FileInv
    <3>2. VerdictInv'
      BY <1>0, <1>3, <2>1 DEF Ask, VerdictInv
    <3> QED
      BY <3>1, <3>2
  <2>2. CASE Open(a)
    <3>1. FileInv'
      BY <1>0, <1>3, <2>2 DEF Open, Busy, Fails, FileInv
    <3>2. VerdictInv'
      BY <1>0, <1>3, <2>2 DEF Open, Busy, Fails, VerdictInv
    <3> QED
      BY <3>1, <3>2
  <2>3. CASE Answer(a)
    <3>1. created
      BY <1>0, <2>3, AnalystsAssumption DEF Answer, FileInv
    <3>2. CASE asked[a] = "generate_report"
      <4>1. report'.verdict = Verdict /\ report'.events = stored
        BY <2>3, <3>2 DEF Answer
      <4>2. FileInv'
        BY <1>0, <1>3, <2>3, <3>1, <4>1 DEF Answer, Release, FileInv
      <4>3. VerdictInv'
        BY <1>0, <1>3, <4>1 DEF VerdictInv, Verdict
      <4> QED
        BY <4>2, <4>3
    <3>3. CASE asked[a] # "generate_report"
      <4>1. FileInv'
        BY <1>0, <1>3, <2>3, <3>3 DEF Answer, Release, FileInv
      <4>2. VerdictInv'
        BY <1>0, <1>3, <2>3, <3>3 DEF Answer, VerdictInv
      <4> QED
        BY <4>1, <4>2
    <3> QED
      BY <3>2, <3>3
  <2>4. CASE FollowUpDies(a)
    <3>1. FileInv'
      BY <1>0, <1>3, <2>4 DEF FollowUpDies, Fails, FileInv
    <3>2. VerdictInv'
      BY <1>0, <1>3, <2>4 DEF FollowUpDies, Fails, VerdictInv
    <3> QED
      BY <3>1, <3>2
  <2> QED
    BY <2>1, <2>2, <2>3, <2>4 DEF FollowUp
<1> QED
  BY <1>2, <1>4 DEF InvestigationInv

\* The invariant of the composition.
THEOREM InvestigationInvariant == InvestigationSpec => []InvestigationInv
<1>1. InvestigationInit => InvestigationInv
  BY InvHoldsAtFirst
<1>2. InvestigationInv /\ [InvestigationNext]_allVars => InvestigationInv'
  <2> SUFFICES ASSUME InvestigationInv, [InvestigationNext]_allVars
               PROVE  InvestigationInv'
    OBVIOUS
  <2>1. CASE PipelineStep
    BY <2>1, RunKeepsInv
  <2>2. ASSUME NEW s \in Servers, Die(s), UNCHANGED <<created, saved, collided, followUps>>
        PROVE  InvestigationInv'
    <3>1. TypeOK'
      BY <2>2, TypesAreKept DEF Next, InvestigationInv
    <3>2. /\ pc' = pc /\ outcome' = outcome /\ stored' = stored /\ confidence' = confidence
          /\ created' = created /\ saved' = saved
          /\ holder' = holder /\ asked' = asked /\ report' = report
      BY <2>2 DEF Die, result, followUps
    <3>3. FileInv' /\ VerdictInv'
      BY <3>2 DEF InvestigationInv, FileInv, VerdictInv
    <3> QED
      BY <3>1, <3>3 DEF InvestigationInv
  <2>3. ASSUME NEW a \in Analysts,
               (\E tool \in Tools : Ask(a, tool)) \/ FollowUp(a) \/ FollowUpDies(a)
        PROVE  InvestigationInv'
    BY <2>3, FollowUpKeepsInv
  <2>4. CASE UNCHANGED allVars
    <3>1. TypeOK'
      BY <2>4, TypesAreKept DEF allVars, InvestigationInv
    <3>2. FileInv' /\ VerdictInv'
      BY <2>4 DEF allVars, vars, InvestigationInv, FileInv, VerdictInv
    <3> QED
      BY <3>1, <3>2 DEF InvestigationInv
  <2> QED
    BY <2>1, <2>2, <2>3, <2>4 DEF InvestigationNext
<1> QED
  BY <1>1, <1>2, PTL DEF InvestigationSpec

-----------------------------------------------------------------------------
\* The file of a case that exists is held by an analyst who waits for an answer,
\* and a report was made from what is stored (_call_case_tool, open_case_db).
THEOREM FilesAreHeldByAskers == InvestigationSpec => []InvestigationTypeOK
<1>1. InvestigationInv => InvestigationTypeOK
  BY DEF InvestigationInv, FileInv, VerdictInv, InvestigationTypeOK, BandRank, TypeOK
<1> QED
  BY <1>1, InvestigationInvariant, PTL

\* However many follow-ups and failures meddle with a run, no report generated
\* from its case claims more confidence than the run returned.
THEOREM ReportsNeverOverstate == InvestigationSpec => []ReportNeverOverstates
<1>1. InvestigationInv => ReportNeverOverstates
  <2> SUFFICES ASSUME InvestigationInv, report # NONE, outcome = "report"
               PROVE  BandRank[report.verdict] <= BandRank[confidence]
    BY DEF ReportNeverOverstates
  <2>1. confidence \in {"low", "medium", "high"}
    BY DEF InvestigationInv, VerdictInv, BandRank
  <2>2. report.verdict = "low" \/ report.verdict = confidence
    BY DEF InvestigationInv, VerdictInv
  <2> QED
    BY <2>1, <2>2 DEF BandRank
<1> QED
  BY <1>1, InvestigationInvariant, PTL

-----------------------------------------------------------------------------
(***************************************************************************)
(* What an undisturbed run leaves behind.  A refused write only moves the  *)
(* run on, so that what holds of every run of the pipeline still holds;    *)
(* and as long as no write was refused the run is one of the pipeline      *)
(* alone, on track or out of budget.                                       *)
(***************************************************************************)
\* The run returns after its verdict is saved, and whoever reads the case after
\* the end of an undisturbed run finds that verdict and the whole case.
EndInv ==
  /\ outcome = "report" /\ Undisturbed => saved = confidence
  /\ report # NONE /\ report.final =>
       /\ outcome # "running"
       /\ outcome = "report" /\ Undisturbed
            => report.verdict = confidence /\ report.events = stored

UndisturbedInv == RunInv /\ (collided = {} => ProgressInv) /\ EndInv

\* A refused write leaves the work of the run alone.
LEMMA RefusedKeepsRun ==
  ASSUME TypeOK, RunInv, Refused
  PROVE  RunInv' /\ collided' # {}
<1>a. ingesting \in BOOLEAN /\ faults \in Nat
  BY InputsAssumption DEF TypeOK, ControlTypes, CountTypes
<1>1. CASE Ingesting /\ IngestRefused
  <2>1. /\ ingesting /\ outcome = "running" /\ outcome' = "running"
        /\ pc \in DOMAIN AfterIngest /\ pc' = AfterIngest[pc]
        /\ UNCHANGED <<scenario, conf, up, faults, cov, found, window, artifacts>>
    BY <1>1 DEF Ingesting, IngestRefused, Goto, inputs, work, result, TypeOK, ControlTypes
  <2>2. /\ pc # "create" /\ pc' \notin {"create", "coverage", "assess", "persist"}
        /\ pc' \in Unnarrowed => pc \in Unnarrowed
    BY <2>1 DEF AfterIngest, Unnarrowed, Searching, Discovering
  <2>3. AllUp' /\ ArtInv'
    BY <2>1 DEF RunInv, AllUp, ArtInv
  <2>4. ScoreInv'
    BY <2>1, <2>2 DEF RunInv, ScoreInv
  <2>5. WindowInv'
    BY <2>1, <2>2 DEF RunInv, WindowInv, EventsOf
  <2> QED
    BY <1>1, <2>3, <2>4, <2>5 DEF RunInv, IngestRefused
<1>2. CASE Persisting /\ PersistRefused
  <2>1. /\ outcome = "running" /\ outcome' = "report" /\ pc = "persist" /\ pc' = pc
        /\ UNCHANGED <<scenario, conf, up, faults, cov, found, window, artifacts, ingesting>>
    BY <1>2 DEF Persisting, PersistRefused, Ready, Stop, inputs, work, result
  <2>2. Reports' = Reports
    BY <2>1 DEF Reports
  <2>3. AllUp' /\ ArtInv'
    BY <2>1 DEF RunInv, AllUp, ArtInv
  <2>4. ScoreInv'
    BY <2>1, <2>2 DEF RunInv, ScoreInv
  <2>5. WindowInv'
    BY <2>1 DEF RunInv, WindowInv, EventsOf
  <2> QED
    BY <1>2, <2>3, <2>4, <2>5 DEF RunInv, PersistRefused
<1> QED
  BY <1>1, <1>2 DEF Refused

\* A run that ends undisturbed has saved its verdict.
LEMMA VerdictIsSaved ==
  ASSUME TypeOK, RunInv, PipelineStep, outcome' = "report", Undisturbed'
  PROVE  saved' = confidence'
<1>1. ~ Refused
  BY RefusedKeepsRun DEF Undisturbed
<1>2. Step /\ outcome = "running"
  BY <1>1, RunSteps DEF PipelineStep, Write, Elsewhere, Step
<1>3. [Next]_vars
  BY <1>2 DEF Next
<1>4. Persist
  BY <1>2, <1>3, EndIsFinal
<1>5. faults = 0 /\ faults' = faults
  BY <1>3, TrackIsKept, InputsAssumption DEF Undisturbed, TypeOK, CountTypes
<1>6. Persisting
  BY <1>4, <1>5 DEF RunInv, AllUp, Servers, Persist, Persisting
<1>7. Write
  BY <1>1, <1>6 DEF PipelineStep, Elsewhere
<1> QED
  BY <1>4, <1>5, <1>6, <1>7 DEF Write, Hypothesis, Persist

\* A step of the run.
LEMMA RunKeepsUndisturbed ==
  ASSUME InvestigationInv, UndisturbedInv, PipelineStep
  PROVE  UndisturbedInv'
<1>0. TypeOK /\ RunInv
  BY DEF InvestigationInv, UndisturbedInv
<1>1. RunInv' /\ (collided' = {} => ProgressInv')
  <2>1. CASE Refused
    BY <1>0, <2>1, RefusedKeepsRun
  <2>2. CASE Step /\ collided' = collided
    <3>1. [Next]_vars
      BY <2>2 DEF Next
    <3> QED
      BY <1>0, <2>2, <3>1, RunInvSteps, ProgressInvSteps DEF UndisturbedInv
  <2> QED
    BY <2>1, <2>2 DEF PipelineStep, Write, Elsewhere, Step
<1>2. EndInv'
  <2>1. outcome = "running" /\ report' = report
    BY <1>0, RunSteps DEF PipelineStep, followUps
  <2>2. (outcome' = "report" /\ Undisturbed') => saved' = confidence'
    BY <1>0, VerdictIsSaved
  <2> QED
    BY <2>1, <2>2 DEF UndisturbedInv, EndInv
<1> QED
  BY <1>1, <1>2 DEF UndisturbedInv

\* A step of a follow-up call reads a case that is complete, or one of a run
\* that has not ended.
LEMMA FollowUpKeepsUndisturbed ==
  ASSUME InvestigationInv, UndisturbedInv, NEW a \in Analysts,
         (\E tool \in Tools : Ask(a, tool)) \/ FollowUp(a) \/ FollowUpDies(a)
  PROVE  UndisturbedInv'
<1>1. UNCHANGED <<vars, created, saved, collided>>
  BY DEF Ask, FollowUp, Open, Answer, FollowUpDies
<1>2. TypeOK /\ RunInv /\ [Next]_vars
  BY <1>1 DEF InvestigationInv, UndisturbedInv
<1>3. RunInv' /\ (collided' = {} => ProgressInv')
  BY <1>1, <1>2, RunInvSteps, ProgressInvSteps DEF UndisturbedInv
<1>4. /\ outcome' = outcome /\ saved' = saved /\ confidence' = confidence
      /\ stored' = stored /\ faults' = faults /\ collided' = collided
  BY <1>1 DEF vars
<1>5. EndInv'
  <2>1. CASE report' = report
    BY <1>4, <2>1 DEF UndisturbedInv, EndInv, Undisturbed
  <2>2. CASE Answer(a) /\ asked[a] = "generate_report"
    <3>1. report' = [verdict |-> Verdict, events |-> stored, final |-> outcome # "running"]
      BY <2>2 DEF Answer
    <3>2. (outcome = "report" /\ Undisturbed) => Verdict = confidence
      BY NoneAssumption DEF UndisturbedInv, EndInv, Verdict, InvestigationInv, VerdictInv, BandRank
    <3> QED
      BY <1>4, <3>1, <3>2 DEF UndisturbedInv, EndInv, Undisturbed
  <2> QED
    BY <2>1, <2>2 DEF Ask, FollowUp, Open, Busy, Fails, Answer, FollowUpDies
<1> QED
  BY <1>3, <1>5 DEF UndisturbedInv

\* The second invariant of the composition.
THEOREM UndisturbedInvariant == InvestigationSpec => []UndisturbedInv
<1>1. InvestigationInit => UndisturbedInv
  BY RunInvAtFirst DEF InvestigationInit, Init, UndisturbedInv, EndInv
<1>2. InvestigationInv /\ UndisturbedInv /\ [InvestigationNext]_allVars => UndisturbedInv'
  <2> SUFFICES ASSUME InvestigationInv, UndisturbedInv, [InvestigationNext]_allVars
               PROVE  UndisturbedInv'
    OBVIOUS
  <2>0. TypeOK /\ RunInv
    BY DEF InvestigationInv, UndisturbedInv
  <2>1. CASE PipelineStep
    BY <2>1, RunKeepsUndisturbed
  <2>2. ASSUME NEW s \in Servers, Die(s), UNCHANGED <<created, saved, collided, followUps>>
        PROVE  UndisturbedInv'
    <3>1. [Next]_vars
      BY <2>2 DEF Next
    <3>2. RunInv' /\ (collided' = {} => ProgressInv')
      BY <2>0, <2>2, <3>1, RunInvSteps, ProgressInvSteps DEF UndisturbedInv
    <3>3. outcome = "running" /\ outcome' = "running" /\ report' = report
      BY <2>2 DEF Die, followUps
    <3> QED
      BY <3>2, <3>3 DEF UndisturbedInv, EndInv
  <2>3. ASSUME NEW a \in Analysts,
               (\E tool \in Tools : Ask(a, tool)) \/ FollowUp(a) \/ FollowUpDies(a)
        PROVE  UndisturbedInv'
    BY <2>3, FollowUpKeepsUndisturbed
  <2>4. CASE UNCHANGED allVars
    <3>1. UNCHANGED vars /\ UNCHANGED <<saved, collided, report>>
      BY <2>4 DEF allVars
    <3>2. RunInv' /\ (collided' = {} => ProgressInv')
      BY <2>0, <3>1, RunInvSteps, ProgressInvSteps DEF UndisturbedInv
    <3>3. EndInv'
      BY <3>1 DEF vars, UndisturbedInv, EndInv, Undisturbed
    <3> QED
      BY <3>2, <3>3 DEF UndisturbedInv
  <2> QED
    BY <2>1, <2>2, <2>3, <2>4 DEF InvestigationNext
<1> QED
  BY <1>1, <1>2, InvestigationInvariant, PTL DEF InvestigationSpec

\* Besides the budget and failures, a file held by an analyst is the only reason
\* why a reported investigation may lack what it was to collect.
THEOREM SkipsAreExplained == InvestigationSpec => []SkipsHaveAReason
<1>1. UndisturbedInv => SkipsHaveAReason
  BY DEF UndisturbedInv, ProgressInv, SkipsOnlyAtTheBudget, SkipsHaveAReason, Undisturbed
<1> QED
  BY <1>1, UndisturbedInvariant, PTL

\* A report generated after an undisturbed run repeats its verdict and, within the
\* budget, is made from all the events its evidence cites (_persist_artifacts
\* before the return of run_investigation, build_report_facts).
THEOREM ReportsRepeatTheRun == InvestigationSpec => []ReportRepeatsTheRun
<1>1. UndisturbedInv => ReportRepeatsTheRun
  <2> SUFFICES ASSUME UndisturbedInv, report # NONE, Undisturbed,
                      outcome = "report", report.final
               PROVE  /\ report.verdict = confidence
                      /\ count <= conf.budget => artifacts \subseteq report.events
    BY DEF ReportRepeatsTheRun
  <2>1. report.verdict = confidence /\ report.events = stored
    BY DEF UndisturbedInv, EndInv
  <2>2. ASSUME count <= conf.budget PROVE artifacts \subseteq stored
    <3>1. NothingSkipped
      BY <2>2 DEF UndisturbedInv, ProgressInv, SkipsOnlyAtTheBudget, Undisturbed
    <3> QED
      BY <3>1 DEF UndisturbedInv, RunInv, ArtInv, NothingSkipped
  <2> QED
    BY <2>1, <2>2
<1> QED
  BY <1>1, UndisturbedInvariant, PTL
=============================================================================
