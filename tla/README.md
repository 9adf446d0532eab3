# Blindsight: a TLA+ model, its checks and its proofs

Blindsight answers a security question ("was this reset legitimate?") by running a
bounded investigation: it asks evidence domains over MCP, keeps what they answer in
a case database, states claims about the evidence, classifies them, and reports how
likely its hypothesis is and how far the available telemetry lets anybody be
confident of it. This directory models what of that is a matter of state, order and
arithmetic, and leaves out what is a matter of wording. Every definition that stands
for code is listed with its file and lines in the `map` of `PROJECT.json`.

## 1. Inventory of the system

| Part | State it keeps | Operations | Talks to |
|---|---|---|---|
| Case store (`services/case/store.py`, `ingest.py`, `migrations/`) | one DuckDB file per case; per process, the set of paths whose schema was checked | open and migrate, create a case, ingest a response, record a call, update metadata | the file system |
| Case MCP server (`servers/case_mcp.py`) | none between requests | ten tools: open, work, close | case store, case queries |
| Case queries (`services/case/query.py`) | none | entities, events, neighbors, timeline, history, report facts | case store |
| Pipeline (`services/investigation/pipeline.py`) | the budget counter, what was found so far, coverage observations | eleven steps of one coroutine | three server subprocesses, a language model |
| MCP client (`mcp_client.py`) | a subprocess and a session | open, call | servers |
| Coverage and gaps (`utils/coverage.py`, parts of `pipeline.py` and `scoring.py`) | none | report, observe, merge, extract, assess, band | pipeline |
| Focal principals and ownership (`focal.py`, `resolution.py`) | none | resolve targets, choose the focal principals | pipeline |
| Aggregation (`aggregation.py`) | none | chains, shared indicators, credential sequences, bursts | pipeline |
| Claims and likelihood (`scoring.py`) | none | state claims, classify, assign polarity, score | pipeline |
| Replay domains (`services/replay`, `servers/identity_mcp.py`, `servers/app_mcp.py`) | fixture files, read once | search, traverse, describe coverage | pipeline |
| Investigation server (`servers/investigation_mcp.py`) | none; a subprocess per follow-up | run, list, query, report | pipeline, case server |
| Reporting (`reporting.py`) | none | facts, prose, rendering | case server, a language model |
| Scenario catalog, CLI, configuration, installer | configuration files | list, run, install | everything above |

Where it is hard, and what would make each part right:

* **The case store is shared.** The case server of a running investigation, the
  servers spawned for follow-up questions and the report command open the same file.
  DuckDB lets one process in at a time and commits statement by statement, so a crash
  falls between any two statements of a migration or an ingest. Right means: what a
  caller was told is stored stays stored, no handler works on a half-migrated schema,
  nothing stored cites what is not there, and the lock is always given back.
* **The pipeline runs under a budget and on servers that fail.** The budget may end
  between a call and the ingest of its answer; an answer may be an error envelope; a
  server may die. Right means: the counted calls stay within the budget, nothing but
  the budget makes a run leave work out, the run always ends.
* **Confidence must follow from what is missing.** Two coverage reports and a stream
  of observations pass a merge, a de-duplication by id, an assessment and a band.
  Right means: no missing source gets lost on the way.
* **A case is read while it is written.** A report takes eight SELECTs, a follow-up
  question a subprocess of its own that holds the file while the run goes on. Right
  means: a report is one instant of the case, nothing acknowledged is missing from it
  without a reason, what it says is what the run said or less, and nobody waits for
  ever.
* **What is stored must be enough to go on with.** Domain answers are cut at limits,
  carry no page token, and are filtered again by other code when they are questions to
  the case. Right means: a stored event never refers to somebody the case cannot name,
  a short answer is a complete one, and the case answers what the domain answered.
* **The verdict is decided by counting claims.** Ownership, grouping in time, and half
  a dozen builders feed one classifier. Right means: every evidence event is accounted
  for, the winning pattern is supported, an accusation rests on an event, and what is
  missing changes the confidence and not the pattern.

`PROJECT.json` lists these hazards at the lines where they bite, with the properties
that cover each.

## 2. Modules

| Module | Models | State and actions |
|---|---|---|
| `CaseStore` | `store.py`, `ingest.py`, the migrations, the handlers of `case_mcp.py` | per case a database (schema parts, logged versions, rows); per process the session, its place in a migration, its pending rows and its verified paths. A statement is an action (`Migrate`, `WriteRow`), as are opening (`CreateCase`, `IngestRecords`, `RecordToolCall`, `Query`), ending (`Finish`, `RejectSection`) and a process that is killed and started again (`Restart`) |
| `CaseLedger` | what the store promises: facts that only grow, acknowledged once they are in | `Store`, `Acknowledge`, and `Discard` of what an older release left, before anything was acknowledged |
| `Coverage` | reports, merge, observations, gaps, fallback assessment, band | operators only |
| `Pipeline` | `run_investigation`, `_call_and_record`, `call_tool`, the domain servers as far as it sees them | one action per stage; `IngestAnswer`/`SkipIngest` for the gated ingest after a call, `SkipStage` for a stage passed over, `Exhausted`, `Raise`, and `Die` for a server |
| `Evidence` | `resolution.py`, `focal.py`, `aggregation.py` | operators only |
| `Scoring` | claim builders, classifier, polarities, likelihood | operators only |
| `CaseReading` | what the store promises readers: a report is one instant of the case | `CaseLedger` with a reader (`Report`) |
| `Reporting` | `compute_impact`, the coverage assessment of a rendered report, the first rows of an ordered list | operators only |
| `CaseReport` | `get_report_facts_tool`, `get_report_facts`, `generate_report_for_case` | `CaseStore`, and per process the SELECT its report is at and what it has read: `RequestReport`, `PrepareReport`, `Select`, `Deliver`, `Abandon`, and any other request (`Other`) |
| `ReplayDomain` | the handlers of `identity_mcp.py` and `app_mcp.py`, their validation, and the selections of `domain_integration.py` | operators only |
| `CaseQueries` | the entity, event, neighbor and timeline queries of `query.py` | operators only |
| `Correlation` | asking the domains, ingesting the answers, questioning the case | the files of the domains, the last answer, the rows of the case: `AskEntity`, `AskEntities`, `AskPrincipal`, `AskEvents`, `AskCredentialChanges`, `AskNeighbors`, `Ingest` |
| `Investigation` | `investigation_mcp.py` around `run_investigation` | `Pipeline`, and who holds the file of the case, what each analyst waits for, what was saved and last reported: `Write`, `Refused`, `Elsewhere` for the run; `Ask`, `Open`, `Answer`, `FollowUpDies` for the follow-ups |
| `Analysis` | the choice of focal principals and step 9 of the pipeline, on the collected events | `ResolveFocal`, `Aggregate`, `StateClaims`, `ScoreAndClassify` |
| `MCCaseStore`, `MCCaseReport`, `MCPipeline`, `MCInvestigation`, `MCAnalysis`, `MCCorrelation` | instances for TLC | |
| `CaseStoreProofs`, `CaseReportProofs`, `CoverageProofs`, `PipelineProofs`, `InvestigationProofs`, `AnalysisProofs`, `CorrelationProofs` | theorems | |
| `Induction` | lemmas on finite sets of numbers, and on folds | |

`Pipeline` extends `Coverage`, and `Analysis` extends `Scoring`, which extends
`Evidence`. `CaseStore` implements `CaseLedger` under the mapping `RefinesLedger`
(an `INSTANCE` at the end of `CaseStore`): a fact is a row, or one reference or
optional column of an entity row. `CaseReport` extends `CaseStore` and `Reporting` and
implements `CaseReading`, which extends `CaseLedger` (`RefinesReading`); `Correlation`
extends `CaseQueries`, which extends `ReplayDomain`; `Investigation` extends `Pipeline`.

Abstractions worth knowing:

* *Case store.* An entity row is its set of references, the columns that coalesce and
  one body for the columns an upsert overwrites. Rows of other tables are a key and a
  body. Responses come from a constant set; they are closed under citation, as those
  of the pipeline are (`ResponsesAssumption`). A database may be new, or have been
  left by the release of migration 1 or 2. A null that is given for an attribute is one of
  its values (it overwrites, and the attribute stays); NONE is an attribute not given.
* *Pipeline.* An event is its id, its date (100 * month + day, because `narrow_end`
  does arithmetic on the day) and whether it is a login. Entities are a number of
  principals. The recording of a call is part of the action of the call: a failing
  recording changes nothing. `Analysis` models the choice of focal principals;
  `Pipeline` takes any non-empty number of them.
* *Coverage.* Of a description only one thing is kept: whether it holds one of
  `_SEVERE_PARTIAL_KEYWORDS`. "missing fields" and "limitation" observations follow
  `_coverage_observations_from_response`; the text `build_limitations` gives a missing
  source without notes is one of the severe ones.
* *Evidence and scoring.* Times are minutes, confidences whole percentages compared
  exactly, so a score that is exactly a threshold falls on the side the exact number
  falls on (a float sum may fall on the other). Claims are a set: two claims of a
  category never speak about the same events. A hint is a principal that
  `search_entities` found with others, as a partial hint does.
* *Reports.* A row is a key, and the columns the report reads are functions of the key.
  SELECTs of one report run one by one among the statements of other processes, although
  the file lock keeps those out: `RefinesReading` shows that it does. No SELECT reads the
  relationships of a case, so that `CaseReading` sees the other rows only (`Reportable`). Three lists of
  a report are cut: the timeline at the default limit of `get_timeline` (`TimelineLimit`),
  the entities in the order of their names and the tool calls from the newest on at
  `MAX_LIMIT` (`MaxLimit`). A cut list is any choice among rows of one place in its order
  (`FirstRows`). A case whose row is missing has a report like any other, with "unknown" for
  its id. Amounts are rounded to integers, negative ones included; one that `float` refuses is
  missing. `latest` remembers what had been acknowledged when a report was delivered.
* *Domains and queries.* Text is the set of words it holds; a name holds the empty word.
  A prefix `p.*` is a set of actions, and a second, larger one is what SQL's `LIKE` makes
  of it (`_` is a wildcard); a pattern begins with its own prefix. In the same way `ILike[w]`
  is the set of words that `ILIKE '%w%'` finds, w itself among them. A name is searched by
  the word in a domain and by the pattern in the case. The `domain` filter of `query_events`
  is left out: no tool passes one. The list of an answer is a set with a mark whether a limit was
  reached, and where Python iterates over a set every order is possible. Case queries are
  asked with limits that are natural numbers.
* *Investigation.* A call of the pipeline is one step; that a follow-up finds the file
  held by one is a choice of `Open`. What matters of the case is whether its file exists,
  what the ingests stored and the confidence of its hypothesis.

## 3. Runs

| Run | What it checks |
|---|---|
| `case_store` | two processes, one case that is new or of an earlier release, two conflicting descriptions of an entity, artifacts, rejected sections, crashes at every statement. `AckedIsStored`, `WorkOnCurrentSchema`, `LoggedIsApplied`, `NoDanglingCitation` and the refinement of `CaseLedger` |
| `case_store_live` | two cases and fewer rows: `SessionsEnd`, and `WorkOnCurrentSchema` again for the per-process cache of verified paths |
| `case_report` | two processes (a symmetry set), one case, two responses with an entity, a transaction and conflicting coverage reports, the one with a relationship that no report reads, the other with the hypothesis of a run; a recorded call, and one an earlier release left; limits of one. `ReportTypeOK`, `ReportIsUpToDate`, `ReportShowsWorstCoverage`, `ImpactIsComplete`, and the refinement of `CaseReading` |
| `correlation` | two scenarios of two domains (loops, an entity nobody describes, relationships with missing bounds, events that share a prefix up to a wildcard, names that share a word up to one), limits -1, 0, 1, ample and missing, ranges in order, too long, reversed and half, every order of asking and ingesting. `TypeOK`, `EventsCanBeFollowed`, `ShortAnswerIsComplete`, `TraversalIsExact`, `NeighborsSurviveIngest`, `CaseAnswersLikeDomain` |
| `pipeline` | six scenarios, budgets 0 to 24 (no scenario spends 24), pages of one and of five events, up to two faults, and one configuration with the language model. `CountedCalls`, `SkipsOnlyAtTheBudget`, `MissingSourceMeansLow`, `HighMeansCompleteSources`, `WindowHoldsEvidence`, `RaisesForAReason` |
| `investigation` | one scenario of both domains, a budget that ends in the middle and one that suffices, one fault, two analysts. `SkipsHaveAReason`, `ReportRepeatsTheRun`, `ReportNeverOverstates`; under fairness `Terminates` and `CallsAreAnswered` |
| `analysis` | every set of up to four events out of thirteen, both coverage statuses, with and without a hint and a name (sets of four with both or neither). `ResolutionIsStable`, `ChainsAreMaximal`, `EveryEventIsClaimed`, `VerdictIsSupported`, `AccusationHasAnEvent`, `CoverageKeepsThePattern`, `LikelihoodFollowsBalance` |

Why the bounds are enough. Two processes are what an interleaving on one file needs:
the file lock admits one, the other restarts, is refused, or opens next. Two
references and two values tell a merge from a replacement. Two principals make both
loops of the pipeline run more than once, and every budget up to the most a scenario
spends puts its end between any two calls. Two faults allow an error and a death, or
an error in each domain. Four events are enough for a cluster of three with a
neighbour outside, for two actors on each other, and for two patterns to compete. A
limit of one with two events, two entities and two calls makes each of the three limits of a
report cut (of the calls always the one of the earlier release: a new one is the most recent); a total of several amounts is beyond that limit, and
left to the proof of `ImpactIsComplete`. A
day of two units and a range of at most one day put requests on both sides of the longest
range. Two analysts can collide with the run and with each other.

Fairness. `CaseStore!FairSpec` assumes that a process that has opened a file goes on
with its request (weak fairness of its steps): handlers have no wait inside a session.
`FairInvestigation` assumes that the coroutine of the run goes on (each call returns,
answers with an error or raises) and that the process of every follow-up call does
(weak fairness of `FollowUp` of each analyst): DuckDB answers at once when a file is
held, so that no process waits for another. Nothing is assumed about restarts, deaths or errors; the
number of faults of a run is bounded so that it stays finite. `CHECK_DEADLOCK FALSE`
stands in the configurations of systems that end: an investigation and its analysis
stop when they are done. The case store never stops, and its runs check deadlock.

### Where the code and its documents differ

Each of these is a run that TLC ends with a counterexample to a sentence of the
repository; the sentence and the line are in `findings` of `PROJECT.json`.

| Run | The sentence | What happens |
|---|---|---|
| `case_store_reopen` | opening a case makes its schema current | a crash between the two statements of migration 003 leaves a file that no later open accepts |
| `pipeline_cited` | a report can be regenerated from the saved case | evidence items cite events that were never ingested |
| `pipeline_window` | the window is around the evidence | evidence after the 28th is outside |
| `case_report_timeline` | the timeline of a report has all events | the default limit of 100 cuts the newest |
| `investigation_verdict` | a report is reproducible from the saved case | a follow-up holds the file when the artifacts are persisted, the refusal is not looked at, and the case is reported with a confidence of "low" |

Further differences were met while modelling and have no run of their own, because
their effect is smaller or the sentence is loose.

Case store and reports: an update of metadata that matches no row is acknowledged
(`store.py:144`); the marking of a report looks at the reported rows only, so neither at
entities and coverage reports nor at events beyond the timeline's limit
(`reporting.py:156`); neutral claims are counted but not rendered; every stored principal
counts as affected (`reporting.py:104`); a case without its row is reported as "unknown"
(`reporting.py:164`); `next_page_token` is never set
(`docs/spec/normalized-output-spec.md:25`).

Domains and queries: a prefix is a literal in the domains and a `LIKE` pattern in the case
(`query.py:108`); `display_name_contains` is documented as a substring (`investigation_mcp.py:278`) and is a
pattern, so that "a_" finds names that do not hold it (`query.py:65`);
`list_credential_changes` finds what the principal did and not what was
done to it (`identity_mcp.py:246`); `resolve_principal` looks at names and ids only and
takes a negative limit (`identity_mcp.py:226`); the two lists of a traversal are cut
separately, so that an answer at its limit may hold relationships between entities it does
not hold (`domain_integration.py:261`).

Pipeline and scoring: missing fields that only the second domain reports are dropped by the
merge (`pipeline.py:251`); `build_claims` raises on an envelope without a
coverage report (`scoring.py:314`); activity up to half an hour before a credential
operation is summarised as what followed it (`aggregation.py:191`); the budget counts neither the recordings
nor the persist call (`docs/spec/investigation-mcp-tool-contract.md:31`); gaps that the
language model leaves out count as none (ADR-0009); a high likelihood may
stand beside a 95% contradiction (ADR-0009); a self-grant that is outnumbered is
classified as self-service (`scoring.py:388`); the coverage status enters the
likelihood (`docs/appendix.md:62`); an error envelope has no coverage report
(`docs/spec/normalized-output-spec.md:50`), so that an application domain that only answers with
errors leaves the confidence high whatever it lacks (`pipeline.py:260`); lifecycle chains and bursts compare each event
with the one before it only, neither the actors nor the whole span
(`aggregation.py:46`, `218`); and claims on addresses and coverage may cite no evidence
(`docs/spec/case-store-schema.md:127`).

## 4. Theorems

All are proved for every value of the constants that satisfies the named assumptions
of the modules; nothing else is assumed.

**Case store** (`CaseStoreProofs`). `TypeCorrect`, `HandlersSeeCurrentSchema`
(`WorkOnCurrentSchema`), `VersionsAreApplied` (`LoggedIsApplied`), `AcknowledgedStays`
(`AckedIsStored`), `CitationsHold` (`NoDanglingCitation`) and `StoreImplementsLedger`
(`RefinesLedger`). None of these is inductive. `WorkOnCurrentSchema` needs to know
where a database can rest: `SchemaInv` says that a file that nobody migrates has a
schema that is a prefix of the scripts from which `FirstStatement` either resumes or
fails, that the process in a migration stands exactly behind what it has done, and
that a verified path, or one a handler works on, is a current schema. `AckInv` adds that the facts of a
request are either still pending or stored, and that a database about to lose its
hypotheses has acknowledged nothing; the refinement rests on the same invariant.
`CiteInv` adds that whatever a pending row cites is stored or pending in an earlier
section.

**Case reports** (`CaseReportProofs`). `ReportsReadInSessions` (`ReportTypeOK`),
`ReportsAreUpToDate` (`ReportIsUpToDate`), `ReportsShowWorstCoverage`,
`ImpactsAreComplete` and `ReportsImplementReading` (`RefinesReading`). `ReportInv` adds to
the invariant of the case store that a report reads in a session without pending rows,
that a process at SELECT i has read answers that the first i - 1 SELECTs may give of the file
*now* (`Collected`), that a file holds finitely many rows (three lists are sorted), and
that what was delivered is a view of one set of facts. It is inductive only because of the
file lock: every step of another process leaves the file of a session alone. A view is
complete up to its limits by `RestIsCutOff`: the first rows of an order either are all rows
or are full, and every other row comes no earlier. `SumSplits` says of the total that an
amount can be taken out of it in any order, although the fold that computes it takes its
elements as it chooses.

**Coverage** (`CoverageProofs`). A source that is not complete is a gap whatever the
other entries are; hence `MoreGapsNeverHelp`: more gaps never raise the band.

**Pipeline** (`PipelineProofs`). `TypeCorrect`; `BudgetIsKept` (`CountedCalls`),
because a call is made only below the budget and recorded at most once, and only the
persist call, which ends the run, is made without looking; `MissingSourcesCount` (`MissingSourceMeansLow`) and
`HighConfidenceIsEarned` (`HighMeansCompleteSources`) from `AssessmentStands`: from
the assessment on, the assessments and the band are those of the gaps of the reports
obtained, which no later step touches; the lemmas of `CoverageProofs` do the rest.
`NamesAreUnique` is needed: of two entries with one name only the first would survive.
`SkipsAreBudgeted` (`SkipsOnlyAtTheBudget`) is about the end of a run and needs what every
stage before it has done: `ProgressInv` says, stage by stage, which answers of a run that no
fault or budget touched are already in the case, which pages were fetched, and that the
window was computed. `WindowEncloses` (`WindowHoldsEvidence`) and `ExceptionsAreFaults`
(`RaisesForAReason`) follow from `RunInv`, which holds of every run: without a fault all
servers are up, the first coverage report is there once its stage is over, and a window is
`Narrow` of evidence that is from the files of the domains. That the window has a least and
a greatest time at all rests on `Induction`.

**Investigation** (`InvestigationProofs`). `FilesAreHeldByAskers` (`InvestigationTypeOK`)
and `ReportsNeverOverstate` (`ReportNeverOverstates`), for any number of analysts. The
invariant is `InvestigationInv`: `FileInv` says that nobody waits for a case whose file
was not created, which needs that the file is created by the first stage and no other;
`VerdictInv` says that a hypothesis is saved only by the step that ends the run, with the
confidence of the run, so that a report made earlier says "low". The steps of the run keep
`TypeOK` of `Pipeline` by `TypesAreKept`, those that are refused the file by
`RefusedKeeps`. The assumption `AnalystsAssumption` (nobody is not an analyst) is needed.
`SkipsAreExplained` (`SkipsHaveAReason`) and `ReportsRepeatTheRun` (`ReportRepeatsTheRun`)
reuse the invariants of the pipeline: `UndisturbedInv` says that `RunInv` holds even of a
run that is refused the file, `ProgressInv` of one that no follow-up collided with, and that
the end of an undisturbed run has saved its verdict, so that a report made after it finds
that verdict and the whole case.

**Analysis** (`AnalysisProofs`). All eight properties of the run: `AnalysisIsTyped`,
`ResolutionStaysStable`, `ChainsStayMaximal`, `EventsAreClaimed`, `VerdictsAreSupported`,
`AccusationsHaveAnEvent`, `CoverageLeavesThePattern`, `LikelihoodIsBalanced`. `AnalysisInv`
says that at each stage each variable is what the operators make of the input, so that the
work is in the lemmas on the operators: a sorted sequence of a finite set of events exists,
the groups of neighbours in it cover it and cannot be joined, every builder's claims cite
evidence, and the classifier picks the signalled pattern that most claims speak of. The
coverage status adds claims no pattern speaks of and changes the confidence of others
(`CoverageReweighs`), and the classifier counts claims without weighing them.

**Correlation** (`CorrelationProofs`). `AnswersAreFromFiles` (`TypeOK`),
`StoredEventsCanBeFollowed`, `ShortAnswersAreComplete`, `TraversalsAreExact`,
`NeighborsStay` (the action property `NeighborsSurviveIngest`) and `CasesAnswerLikeDomains`,
for any files, limits and questions. `CorrelationInv`: an answer is what its tool says of
the file of its domain, and names every actor and target of its events that the file knows
(`Sound`); the case is made of such answers only, and is finite. The lemmas say what the
folds over a file collect up to a limit (`HitsAreAppended`, `NewAreAppended`,
`AllAreFollowed`), what a page holds (`PageHolds`), and that the two hops of a traversal
give the same set in every order (`SameTraversal`). `SelectsAlike` compares the two filters on
events clause by clause; a name that holds a word is found by the pattern of the word because a
pattern stands for itself, and the converse is proved for the words that stand for nothing else.

**Induction** (`Induction`). The library states induction over an operator, which none of
the provers takes. Stated over a *set* it can be cited: a set of numbers that holds zero and
every successor up to N holds all of them (`UpTo`), a set of subsets that holds the empty
set and is kept by adding an element holds every subset (`SubsetInduction`). Hence finite
sets of numbers have a least and a greatest element, and the recursion behind the folds of
the community modules has a solution (`FoldExists`): with it, what the folds and sums of
`Evidence`, `Scoring`, `Reporting` and `ReplayDomain` compute is proved and not only checked.

What attempts to prove found in the models. `RefinesReading` and `ReportIsUpToDate` were false of a case
with relationships, which the first instance of the run did not have. `EventsCanBeFollowed`
took for granted that only one domain has an event: two domains may share one, and the case
can name what one of them names. `CaseAnswersLikeDomain` and `NeighborsSurviveIngest` hold
only where no limit cuts, and now say so (of a traversal that its limit cut nothing is
stated: any choice of its neighbours is allowed); where none does, the second speaks of every answer
of the case instead of some. `ShortAnswerIsComplete` needs that a pattern begins with its prefix.

Only model-checked: the liveness properties `SessionsEnd`, `Terminates` and
`CallsAreAnswered`, since ENABLED and fairness are beyond the prover. Every other property
of a passing run is stated by a theorem.

## 5. Not modelled, and the plan

Not modelled because nothing but text depends on it: narrative, report rendering and
prose, the marking of a report, logging, the CLI, the catalog. The installer edits
configuration files of other programs and shares no state with the rest; it is small and
comes last. The details are under `components`.

Left for later, in this order:

1. `Installer`: read, change and write of several configuration files.
2. The tools that list hypotheses, claims and tool calls by themselves.
3. The liveness of the case store and of an investigation for more than the instances
   of the runs: it needs a ranking argument outside this prover.
4. The hazards of `PROJECT.json` without a property; each has a note saying why.

## 6. Running it

    tlc -workers 2 -config MCCaseStore.cfg MCCaseStore
    tlc -workers 2 -config MCPipeline.cfg MCPipeline
    tlc -workers 2 -config MCInvestigation.cfg MCInvestigation
    tlc -workers 2 -config MCCaseReport.cfg MCCaseReport
    tlc -workers 2 -config MCCorrelation.cfg MCCorrelation
    tlc -workers 2 -config MCAnalysis.cfg MCAnalysis
    tlapm CaseStoreProofs.tla
    tlapm CaseReportProofs.tla
    tlapm CoverageProofs.tla
    tlapm PipelineProofs.tla
    tlapm InvestigationProofs.tla
    tlapm AnalysisProofs.tla
    tlapm CorrelationProofs.tla
    tlapm Induction.tla

The operators marked "Mutant" are plausible bugs of the definition that follows
them: put in its place, each makes TLC report the property named in `PROJECT.json`.
