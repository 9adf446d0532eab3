--------------------------- MODULE Investigation ---------------------------
(***************************************************************************)
(* The investigation server: run_investigation together with the follow-up *)
(* tools, which analysts may call while it runs.  Every follow-up call has *)
(* a case server of its own (_call_case_tool), and that server holds the   *)
(* file of the case from open to close.  DuckDB lets one process at a time *)
(* open a file, so that a write of the pipeline may find it held: the call *)
(* answers with an error envelope, which the pipeline never looks at.      *)
(*                                                                         *)
(* A call of the pipeline is one step here; that a follow-up may find the  *)
(* file held by such a call is a choice of Open.  CaseStore has the        *)
(* statements, CaseReport the reading of a report.                         *)
(***************************************************************************)
EXTENDS Pipeline

CONSTANTS
  Analysts,  \* callers of follow-up tools
  NONE       \* nobody

ASSUME AnalystsAssumption == NONE \notin Analysts
\* A row without a confidence, NULL, is not one of a band.
ASSUME NoneAssumption == NONE \notin {"low", "medium", "high"}

\* list_cases and the five queries read rows; generate_report reads the verdict too.
Tools == {"query", "generate_report"}

VARIABLES
  created,  \* the file of the case exists
  saved,    \* the confidence of the stored hypothesis, NONE without one
  holder,   \* the analyst whose case server holds the file
  asked,    \* asked[a]: the tool a waits for
  report,   \* the last report anybody got, NONE before
  collided  \* writes of the pipeline that found the file held (history)

followUps == <<holder, asked, report>>
allVars == <<vars, created, saved, holder, asked, report, collided>>

InvestigationInit ==
  /\ Init
  /\ created = FALSE /\ saved = NONE
  /\ holder = NONE
  /\ asked = [a \in Analysts |-> NONE]
  /\ report = NONE
  /\ collided = {}

-----------------------------------------------------------------------------
(***************************************************************************)
(* The pipeline among follow-up calls.                                     *)
(***************************************************************************)
Ingesting == outcome = "running" /\ ingesting /\ MayIngest /\ "case" \in up
Persisting == Ready("persist") /\ "case" \in up

\* A failed create_case_tool may leave the file behind.
Created ==
  IF pc = "create" /\ count' > count
  THEN created' \in (IF outcome' = "running" THEN {TRUE} ELSE BOOLEAN)
  ELSE UNCHANGED created

\* Mutant: the hypothesis is persisted as it was before its gaps were assessed.
Unassessed == "low"
Hypothesis == confidence

\* A write that finds the file free.
Write ==
  /\ holder = NONE
  /\ IngestAnswer \/ Persist
  /\ saved' = IF Persisting /\ faults' = faults THEN Hypothesis ELSE saved
  /\ UNCHANGED <<created, collided>>

\* A write that finds it held: nothing is stored, and the run goes on.
IngestRefused ==
  /\ count' = count + 1 /\ sent' = sent + 1
  /\ Goto(AfterIngest[pc])
  /\ collided' = collided \cup {"ingest"}
  /\ UNCHANGED <<inputs, up, faults, stored, work, result, created, saved>>
PersistRefused ==
  /\ count' = count + 1 /\ sent' = sent + 1
  /\ Stop("report")
  /\ collided' = collided \cup {"persist"}
  /\ UNCHANGED <<work, faults, result, created, saved>>

Refused ==
  /\ holder # NONE
  /\ \/ Ingesting /\ IngestRefused
     \/ Persisting /\ PersistRefused

\* Everything else is indifferent to the file: recordings may fail, and what
\* the other case tools answer only feeds texts.
Elsewhere ==
  /\ ~ Ingesting /\ ~ Persisting
  /\ Step /\ Created
  /\ UNCHANGED <<saved, collided>>

PipelineStep == (Write \/ Refused \/ Elsewhere) /\ UNCHANGED followUps

-----------------------------------------------------------------------------
(***************************************************************************)
(* Follow-up calls.                                                        *)
(***************************************************************************)
\* A call that names no case, by a malformed id or one without a file, is
\* refused at once; list_cases finds no file to open then.
Ask(a, tool) ==
  /\ asked[a] = NONE
  /\ asked' = IF created THEN [asked EXCEPT ![a] = tool] ELSE asked
  /\ UNCHANGED <<vars, created, saved, collided, holder, report>>

\* An error envelope: what it says is passed on.
Fails(a) == asked' = [asked EXCEPT ![a] = NONE] /\ UNCHANGED report

\* Mutant: the call tries again until the file is free.
Retries(a) == UNCHANGED <<asked, report>>
Busy(a) == Fails(a)

\* The file is opened, or is held by a call of the pipeline or of another analyst.
Open(a) ==
  /\ asked[a] # NONE /\ holder # a
  /\ \/ holder = NONE /\ holder' = a /\ UNCHANGED <<asked, report>>
     \/ /\ holder # NONE \/ outcome = "running"
        /\ Busy(a) /\ UNCHANGED holder
  /\ UNCHANGED <<vars, created, saved, collided>>

\* Mutant: without a hypothesis the confidence is high.
Optimistic == IF saved = NONE THEN "high" ELSE saved
\* build_report_facts: without a hypothesis the confidence is low.
Verdict == IF saved = NONE THEN "low" ELSE saved

\* Mutant: the file stays open when the answer is sent.
KeepsFile == UNCHANGED holder
Release == holder' = NONE

Answer(a) ==
  /\ holder = a
  /\ report' = IF asked[a] = "generate_report"
               THEN [verdict |-> Verdict, events |-> stored, final |-> outcome # "running"]
               ELSE report
  /\ asked' = [asked EXCEPT ![a] = NONE]
  /\ Release
  /\ UNCHANGED <<vars, created, saved, collided>>

\* The case server of the call dies.
FollowUpDies(a) ==
  /\ holder = a
  /\ Fails(a) /\ holder' = NONE
  /\ UNCHANGED <<vars, created, saved, collided>>

FollowUp(a) == Open(a) \/ Answer(a)

InvestigationNext ==
  \/ PipelineStep
  \/ \E s \in Servers : Die(s) /\ UNCHANGED <<created, saved, collided, followUps>>
  \/ \E a \in Analysts : (\E tool \in Tools : Ask(a, tool)) \/ FollowUp(a) \/ FollowUpDies(a)

InvestigationSpec == InvestigationInit /\ [][InvestigationNext]_allVars

\* The coroutine of the run and the process of every follow-up call go on.
FairInvestigation ==
  /\ InvestigationSpec /\ WF_allVars(PipelineStep)
  /\ \A a \in Analysts : WF_allVars(FollowUp(a))

-----------------------------------------------------------------------------
(***************************************************************************)
(* Properties.                                                             *)
(***************************************************************************)
Undisturbed == faults = 0 /\ collided = {}

\* The file of a case that exists is held by an analyst who waits for an
\* answer; a report was made from what is stored.
InvestigationTypeOK ==
  /\ created \in BOOLEAN /\ saved \in {NONE, "low", "medium", "high"}
  /\ holder # NONE => holder \in Analysts /\ asked[holder] # NONE
  /\ report # NONE => created /\ report.events \subseteq stored

\* Besides the budget and failures, a file held by an analyst is the only
\* reason why a reported investigation may lack what it was to collect.
SkipsHaveAReason ==
  outcome = "report" /\ Undisturbed /\ count <= conf.budget => NothingSkipped

\* A report generated after an undisturbed run repeats its verdict, and the run
\* returned only after the verdict was saved; within the budget the events its
\* evidence cites are in the case the report is made from.
ReportRepeatsTheRun ==
  report # NONE /\ Undisturbed /\ outcome = "report" /\ report.final
  => /\ report.verdict = confidence
     /\ count <= conf.budget => artifacts \subseteq report.events

\* Whatever was lost, a report never claims more confidence than the run did:
\* one without a hypothesis is of low confidence.
ReportNeverOverstates ==
  report # NONE /\ outcome = "report" => BandRank[report.verdict] <= BandRank[confidence]

\* Nobody waits for anybody: while analysts keep asking and the run goes on, every
\* call is answered; and Terminates holds of the run as well.
CallsAreAnswered == \A a \in Analysts : asked[a] # NONE ~> asked[a] = NONE

-----------------------------------------------------------------------------
(***************************************************************************)
(* What the documents say and the code does not keep.                      *)
(***************************************************************************)

\* "The report is reproducible from the saved case, not from in-memory pipeline
\* state" (reporting.py): a report generated after the end of a run shows the
\* confidence the run returned.
ReportIsReproducible ==
  report # NONE /\ outcome = "report" /\ report.final => report.verdict = confidence
=============================================================================
