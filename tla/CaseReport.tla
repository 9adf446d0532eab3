----------------------------- MODULE CaseReport -----------------------------
(***************************************************************************)
(* Reports of a case: get_report_facts_tool (for generate_report of the    *)
(* investigation server) and generate_report_for_case (for the command     *)
(* line) open the case file like any other request of CaseStore, read it   *)
(* with eight SELECTs and close it.  Each SELECT is a step, between the    *)
(* statements of every other process.                                      *)
(***************************************************************************)
EXTENDS CaseStore, Reporting, Sequences

CONSTANTS
  MaxLimit,      \* MAX_LIMIT, 2000 in the code: entities and tool calls of a report
  TimelineLimit  \* default limit of get_timeline: at most 100 events, or MaxLimit

ASSUME ReportAssumption ==
  /\ {MaxLimit, TimelineLimit} \subseteq Nat \ {0} /\ TimelineLimit <= MaxLimit
  /\ IsFiniteSet(LegacyKeys)
  /\ DOMAIN EventOf = {k \in Keys : TableOf[k] = "events"}
  /\ DOMAIN CoverageOf = {k \in Keys : TableOf[k] = "coverage_reports"}
  /\ DOMAIN CallOf = {k \in Keys : TableOf[k] = "tool_calls"}
  /\ DOMAIN EntityOf = Entities

\* The tables in the order get_report_facts reads them.
Selects == <<"cases", "hypotheses", "claims", "evidence_items", "events", "entities",
             "coverage_reports", "tool_calls">>

VARIABLES
  next,   \* next[p]: the next SELECT of p's report, 0 outside of a report
  got,    \* got[p]: the facts p has read for it
  latest  \* latest[c]: the last report of c: its facts, and what had been
          \* acknowledged when it was delivered (history)

reading == <<next, got, latest>>
allVars == <<vars, reading>>

RowsOf(facts) == {k \in Keys : Fact("row", k, NONE) \in facts}
RowsIn(facts, table) == {k \in RowsOf(facts) : TableOf[k] = table}
EventsOf(facts) == RowsIn(facts, "events")
CallsOf(facts) == RowsIn(facts, "tool_calls")
StoredEntities(facts) == {e \in Entities : Fact("entity", e, NONE) \in facts}

RowFacts(keys) == {Fact("row", k, NONE) : k \in keys}
\* What the facts say about the entities.
FactsAbout(entities, facts) ==
  {f \in facts : f[1] \in {"entity", "reference", "field"} /\ f[2] \in entities}

\* Mutant: the timeline of a report holds the newest events.
NewestEvents(facts) ==
  {RowFacts(S) : S \in FirstRows(EventsOf(facts), TimelineLimit,
                                 [k \in DOMAIN EventOf |-> - EventOf[k].ts])}

\* get_timeline with its default limit, query_entities and
\* get_tool_call_history with the greatest.
Timeline(facts) == {RowFacts(S) : S \in FirstRows(EventsOf(facts), TimelineLimit, ByTime)}
Listing(facts) ==
  {FactsAbout(S, facts) : S \in FirstRows(StoredEntities(facts), MaxLimit, ByName)}
History(facts) == {RowFacts(S) : S \in FirstRows(CallsOf(facts), MaxLimit, ByRecency)}

\* The possible answers of a SELECT.  A case without its row is no error.
SelectFrom(table, facts) ==
  CASE table = "cases" -> {facts \cap {Fact("case", NONE, NONE)}}
    [] table = "events" -> Timeline(facts)
    [] table = "entities" -> Listing(facts)
    [] table = "tool_calls" -> History(facts)
    [] OTHER -> {RowFacts(RowsIn(facts, table))}

\* No SELECT of a report reads the relationships.
Reportable(facts) == {f \in facts : f[1] = "row" => TableOf[f[2]] # "relationships"}

Reading(p) == next[p] > 0
SelectsDone(p) == next[p] > Len(Selects)

ASSUME NoReportAssumption == NONE \notin [facts : SUBSET AllFacts, told : SUBSET AllFacts]

ReportInit ==
  /\ Init
  /\ next = [p \in Procs |-> 0]
  /\ got = [p \in Procs |-> {}]
  /\ latest = [c \in Cases |-> NONE]

\* Mutant: the answer of a request that failed is kept for the next one.
KeepsReading(p) == UNCHANGED <<next, got, latest>>

Leave(p) ==
  /\ next' = [next EXCEPT ![p] = 0]
  /\ got' = [got EXCEPT ![p] = {}]
  /\ UNCHANGED latest

-----------------------------------------------------------------------------
\* get_report_facts_tool, generate_report_for_case.
RequestReport(p, c) ==
  /\ Query(p, c)
  /\ next' = [next EXCEPT ![p] = IF session'[p] = c THEN 1 ELSE 0]
  /\ UNCHANGED <<got, latest>>

\* The schema check of the open; a failed one ends the request.
PrepareReport(p) ==
  /\ Reading(p)
  /\ \/ SchemaReady(p) /\ UNCHANGED reading
     \/ /\ Migrate(p)
        /\ IF session'[p] = NONE THEN Leave(p) ELSE UNCHANGED reading

Select(p) ==
  /\ Reading(p) /\ pc[p] = "work" /\ ~ SelectsDone(p)
  /\ \E rows \in SelectFrom(Selects[next[p]], FactsIn(db[session[p]])) :
       got' = [got EXCEPT ![p] = @ \cup rows]
  /\ next' = [next EXCEPT ![p] = @ + 1]
  /\ UNCHANGED <<latest, vars>>

Deliver(p) ==
  /\ Reading(p) /\ SelectsDone(p)
  /\ latest' = [latest EXCEPT ![session[p]] =
       [facts |-> got[p],
        told |-> UNION {FactsOf(w) : w \in acked[session[p]]}]]
  /\ Close(p, "success")
  /\ next' = [next EXCEPT ![p] = 0]
  /\ got' = [got EXCEPT ![p] = {}]
  /\ UNCHANGED <<db, at, verified, acked>>

Abandon(p) == Restart(p) /\ Leave(p)

\* Any other request.
Other(p) ==
  /\ ~ Reading(p)
  /\ \/ \E c \in Cases : CreateCase(p, c) \/ IngestRecords(p, c) \/ RecordToolCall(p, c)
     \/ Step(p)
  /\ UNCHANGED reading

ReportStep(p) == PrepareReport(p) \/ Select(p) \/ Deliver(p)

ReportNext ==
  \E p \in Procs : \/ \E c \in Cases : RequestReport(p, c)
                   \/ ReportStep(p) \/ Other(p) \/ Abandon(p)

ReportSpec == ReportInit /\ [][ReportNext]_allVars

-----------------------------------------------------------------------------
(***************************************************************************)
(* The report of a set of facts.                                           *)
(***************************************************************************)
CoverageRows(facts) == RowsIn(facts, "coverage_reports")
Reported == {c \in Cases : latest[c] # NONE}

-----------------------------------------------------------------------------
(***************************************************************************)
(* Properties.                                                             *)
(***************************************************************************)
\* The case row and the rows of the tables that are read without a limit.
Unlimited(facts) ==
  (facts \cap {Fact("case", NONE, NONE)})
  \cup RowFacts({k \in RowsOf(facts) :
        TableOf[k] \in {"hypotheses", "claims", "evidence_items", "coverage_reports"}})

\* What a report of the facts may show.
ViewsOf(facts) ==
  {Unlimited(facts) \cup events \cup entities \cup calls :
     events \in Timeline(facts), entities \in Listing(facts), calls \in History(facts)}

Reader == INSTANCE CaseReading WITH
  Facts <- AllFacts,
  Disposable <- HypothesisFacts,
  View <- ViewsOf,
  Unread <- NONE,
  facts <- [c \in Cases |-> FactsIn(db[c])],
  acked <- [c \in Cases |-> UNION {FactsOf(w) : w \in acked[c]}],
  shown <- [c \in Cases |-> IF latest[c] = NONE THEN NONE ELSE latest[c].facts]

\* The reader keeps the promise of CaseReading: the eight SELECTs of a report
\* see one instant of the case, whatever other processes ask for meanwhile,
\* and the upgrade of an old database discards hypotheses before a report is
\* read from it and never after.
RefinesReading == Reader!ReadingSpec

\* Where a report stands: rows are read in an open session only.
ReportTypeOK ==
  /\ next \in [Procs -> 0..(Len(Selects) + 1)]
  /\ \A p \in Procs : Reading(p) => session[p] # NONE /\ pending[p] = {}
  /\ \A p \in Procs : got[p] \subseteq AllFacts /\ (got[p] # {} => pc[p] = "work")

\* x is not shown because the list is full of rows that come no later than x.
CutOff(shown, limit, place, x) ==
  /\ x \notin shown
  /\ Cardinality(shown) = limit
  /\ \A o \in shown : place[o] <= place[x]

EventIsCutOff(facts, k) == CutOff(EventsOf(facts), TimelineLimit, ByTime, k)
EntityIsCutOff(facts, e) == CutOff(StoredEntities(facts), MaxLimit, ByName, e)
CallIsCutOff(facts, k) == CutOff(CallsOf(facts), MaxLimit, ByRecency, k)

\* A report is up to date: what any caller was told is stored before the
\* report was delivered is in it, but for relationships, which no report has,
\* and for what one of the three limits cuts off: an event that is no older
\* than any of a full timeline, an entity with all that is told of it that
\* comes after MaxLimit others in the alphabet, and a tool call that is no
\* younger than the MaxLimit shown.
ReportIsUpToDate ==
  \A c \in Reported :
    LET report == latest[c].facts
    IN \A f \in Reportable(latest[c].told) \ report :
         \/ \E k \in EventsOf({f}) : EventIsCutOff(report, k)
         \/ \E e \in Entities : f \in FactsAbout({e}, {f}) /\ EntityIsCutOff(report, e)
         \/ \E k \in CallsOf({f}) : CallIsCutOff(report, k)

\* The coverage assessment never looks better than a coverage report that was
\* acknowledged before: of the many answers of a domain the worst status of
\* the domain and of each of its sources is printed.
ReportShowsWorstCoverage ==
  \A c \in Reported : \A k \in CoverageRows(latest[c].told) :
    LET shown == CoverageRows(latest[c].facts)
        d == CoverageOf[k].domain
    IN /\ d \in CoveredDomains(shown)
       /\ StatusRank[CoverageOf[k].status] <= StatusRank[DomainStatus(shown, d)]
       /\ \A s \in CoverageOf[k].sources :
            StatusRank[s.status] <= StatusRank[SourceStatus(shown, d, s.name)]

\* The impact section accounts for every acknowledged event of the application
\* domain that the timeline's limit does not cut off: its actor and its targets
\* are named, a transaction is counted and its amount is in the total, once:
\* the total is the amount and the total without the transaction.
ImpactIsComplete ==
  \A c \in Reported : \A k \in EventsOf(latest[c].told) :
    LET timeline == EventsOf(latest[c].facts)
        entities == StoredEntities(latest[c].facts)
        principals == AffectedPrincipals(timeline, entities)
    IN EventOf[k].domain = "app" /\ ~ EventIsCutOff(latest[c].facts, k) =>
         /\ EventOf[k].actor \in principals
         /\ EventOf[k].targets \subseteq principals \cup AffectedResources(timeline, entities)
         /\ EventOf[k].action \in Transactions =>
              /\ k \in TransactionEvents(timeline)
              /\ EventOf[k].amount # UNSET =>
                   LET rest == TransactionTotal(timeline \ {k})
                   IN TransactionTotal(timeline)
                        = EventOf[k].amount + (IF rest = UNSET THEN 0 ELSE rest)

-----------------------------------------------------------------------------
(***************************************************************************)
(* What the documents say and the code does not keep.                      *)
(***************************************************************************)

\* "Timeline (all events, chronological)" (get_report_facts), "Includes all
\* evidence" (ADR-0011): no acknowledged event is missing from a report.
TimelineIsComplete ==
  \A c \in Reported : EventsOf(latest[c].told) \subseteq EventsOf(latest[c].facts)
=============================================================================
