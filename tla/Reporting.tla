----------------------------- MODULE Reporting -----------------------------
(***************************************************************************)
(* The incident report built from the rows of a case: the deterministic    *)
(* half of reporting.py.  A report is the selection of rows, the impact    *)
(* figures and the coverage assessment; the marking, the wording and the   *)
(* layout are left out.                                                    *)
(*                                                                         *)
(* A row is a key, and the columns the report looks at are a function of   *)
(* the key.                                                                *)
(***************************************************************************)
EXTENDS Integers, FiniteSets, FiniteSetsExt

CONSTANTS
  EventOf,     \* columns of the event rows
  CoverageOf,  \* columns of the coverage report rows
  EntityOf,    \* columns of the entity rows; place: that of the display name
               \* in the alphabet
  CallOf,      \* columns of the tool call rows
  UNSET        \* a missing value

Statuses == {"complete", "unknown", "partial", "missing"}
EntityTypes == {"principal", "resource", "other"}
Transactions == {"app.invoice.create", "app.payment.create"}  \* TRANSACTION_ACTIONS

ASSUME ColumnsAssumption ==
  /\ UNSET \notin Int
  /\ \A k \in DOMAIN EventOf :
       /\ EventOf[k].ts \in Nat /\ EventOf[k].targets \subseteq DOMAIN EntityOf
       /\ EventOf[k].amount \in Int \cup {UNSET} /\ EventOf[k].actor \in DOMAIN EntityOf
  /\ \A k \in DOMAIN CoverageOf :
       /\ CoverageOf[k].status \in Statuses
       /\ \A s \in CoverageOf[k].sources : s.status \in Statuses
  /\ \A e \in DOMAIN EntityOf :
       /\ EntityOf[e].type \in EntityTypes /\ EntityOf[e].prefix \in EntityTypes
       /\ EntityOf[e].place \in Nat
  /\ \A k \in DOMAIN CallOf : CallOf[k].at \in Nat

-----------------------------------------------------------------------------
(***************************************************************************)
(* Selections.                                                             *)
(***************************************************************************)

\* The possible answers of SELECT ... ORDER BY ... LIMIT: the first rows of the
\* order, with any choice among those of the same place.
FirstRows(rows, limit, place) ==
  {S \in SUBSET rows :
     /\ Cardinality(S) = Min({limit, Cardinality(rows)})
     /\ \A s \in S : \A o \in rows \ S : place[s] <= place[o]}

ByTime == [k \in DOMAIN EventOf |-> EventOf[k].ts]      \* the oldest first
ByName == [e \in DOMAIN EntityOf |-> EntityOf[e].place]
ByRecency == [k \in DOMAIN CallOf |-> - CallOf[k].at]   \* the newest first

-----------------------------------------------------------------------------
(***************************************************************************)
(* Impact.                                                                 *)
(***************************************************************************)
AppEvents(timeline) == {k \in timeline : EventOf[k].domain = "app"}

\* A target that is no stored entity is classified by the prefix of its id,
\* and one that is neither a principal nor a resource is a resource.
IsPrincipal(e, entities) ==
  IF e \in entities THEN EntityOf[e].type = "principal" ELSE EntityOf[e].prefix = "principal"

AffectedPrincipals(timeline, entities) ==
  {EventOf[k].actor : k \in AppEvents(timeline)}
  \cup {t \in UNION {EventOf[k].targets : k \in AppEvents(timeline)} : IsPrincipal(t, entities)}
  \cup {e \in entities : EntityOf[e].type = "principal"}

AffectedResources(timeline, entities) ==
  {t \in UNION {EventOf[k].targets : k \in AppEvents(timeline)} : ~ IsPrincipal(t, entities)}

\* Mutant: payments only.
PaymentsOnly(timeline) == {k \in AppEvents(timeline) : EventOf[k].action = "app.payment.create"}
TransactionEvents(timeline) == {k \in AppEvents(timeline) : EventOf[k].action \in Transactions}

\* An amount is rounded to an integer here, and one that float() refuses is
\* missing like none at all.
Amounts(timeline) == {k \in TransactionEvents(timeline) : EventOf[k].amount # UNSET}

\* None when no transaction has an amount.
TransactionTotal(timeline) ==
  IF Amounts(timeline) = {} THEN UNSET
  ELSE MapThenSumSet(LAMBDA k : EventOf[k].amount, Amounts(timeline))

-----------------------------------------------------------------------------
(***************************************************************************)
(* Coverage assessment: one line per domain and one per source, each with  *)
(* the worst status seen.                                                  *)
(***************************************************************************)
StatusRank == [complete |-> 0, unknown |-> 1, partial |-> 2, missing |-> 3]

\* Mutant: the comparison is the wrong way round.
Mildest(statuses) ==
  CHOOSE s \in statuses : \A t \in statuses : StatusRank[s] <= StatusRank[t]

Worst(statuses) ==
  CHOOSE s \in statuses : \A t \in statuses : StatusRank[t] <= StatusRank[s]

ReportsOn(reports, d) == {k \in reports : CoverageOf[k].domain = d}
CoveredDomains(reports) == {CoverageOf[k].domain : k \in reports}

DomainStatus(reports, d) == Worst({CoverageOf[k].status : k \in ReportsOn(reports, d)})

SourcesOf(reports, d) == UNION {CoverageOf[k].sources : k \in ReportsOn(reports, d)}
SourceStatus(reports, d, name) ==
  Worst({s.status : s \in {x \in SourcesOf(reports, d) : x.name = name}})
=============================================================================
