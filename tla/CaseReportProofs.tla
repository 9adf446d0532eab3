-------------------------- MODULE CaseReportProofs --------------------------
(***************************************************************************)
(* Theorems about reports of a case, for any number of processes, cases,   *)
(* rows and responses and any limits of the lists.  They rest on the       *)
(* inductive invariant IInv of the case store: a report adds reads to a    *)
(* session of CaseStore, and all that it reads stands still while it holds *)
(* the file.                                                               *)
(***************************************************************************)
EXTENDS CaseReport, CaseStoreProofs, Induction

-----------------------------------------------------------------------------
(***************************************************************************)
(* What a report has read so far, given the facts of its case: an answer   *)
(* to each of the SELECTs it made.                                         *)
(***************************************************************************)
AreAnswers(pick, i, facts) ==
  /\ pick \in [1..8 -> SUBSET facts]
  /\ \A j \in 1..(i - 1) : pick[j] \in SelectFrom(Selects[j], facts)

Collected(pick, i, facts) == {f \in facts : \E j \in 1..(i - 1) : f \in pick[j]}

HasRead(g, i, facts) ==
  \E pick \in [1..8 -> SUBSET facts] : AreAnswers(pick, i, facts) /\ g = Collected(pick, i, facts)

StoredRows(d) == {k \in Keys : d.records[k] # NONE}
StoredNames(d) == {e \in Entities : d.entities[e] # NONE}

\* A report reads in a session of a request without rows; before the schema is
\* checked it has read nothing, and after that it has read what its SELECTs
\* find in the file now.
ReadOf(p) ==
  /\ ~ Reading(p) => got[p] = {}
  /\ Reading(p) =>
       /\ pc[p] # "idle" /\ pending[p] = {} /\ job[p] = {} /\ bad[p] = NONE
       /\ pc[p] = "migrate" => next[p] = 1
       /\ HasRead(got[p], next[p], FactsIn(db[session[p]]))

ReadInv ==
  /\ next \in [Procs -> 0..9]
  /\ got \in [Procs -> SUBSET AllFacts]
  /\ \A p \in Procs : ReadOf(p)

\* A file holds finitely many rows.
FiniteInv == \A c \in Cases : IsFiniteSet(StoredRows(db[c])) /\ IsFiniteSet(StoredNames(db[c]))

\* What can be the facts of a case: what is said of entities is said of entities
\* that are there, and the lists that a limit may cut are finite.
AreFacts(facts) ==
  /\ facts \subseteq AllFacts
  /\ \A f \in facts : f[1] \in {"entity", "reference", "field"} => f[2] \in StoredEntities(facts)
  /\ IsFiniteSet(RowsOf(facts)) /\ IsFiniteSet(StoredEntities(facts))

\* A delivered report is a view of facts that were in the case together, with
\* all that had been acknowledged.
IsReportOf(report, facts) ==
  /\ AreFacts(facts)
  /\ report.told \subseteq facts
  /\ report.facts \in ViewsOf(facts)

\* A report is delivered from a database of the newest schema only.
LatestInv ==
  /\ latest \in [Cases -> [facts : SUBSET AllFacts, told : SUBSET AllFacts] \cup {NONE}]
  /\ \A c \in Reported :
       /\ SchemaCurrent(db[c])
       /\ \E facts \in SUBSET AllFacts : IsReportOf(latest[c], facts)

ReportInv == IInv /\ ReadInv /\ FiniteInv /\ LatestInv

-----------------------------------------------------------------------------
(***************************************************************************)
(* The SELECTs.                                                            *)
(***************************************************************************)

\* A report has eight SELECTs, each from a table of its own.
LEMMA EightSelects ==
  /\ Len(Selects) = 8
  /\ Selects[1] = "cases" /\ Selects[2] = "hypotheses" /\ Selects[3] = "claims"
  /\ Selects[4] = "evidence_items" /\ Selects[5] = "events" /\ Selects[6] = "entities"
  /\ Selects[7] = "coverage_reports" /\ Selects[8] = "tool_calls"
BY DEF Selects

\* The rows and the entities among the facts of a database are its stored ones.
LEMMA RowsOfFacts ==
  ASSUME NEW d
  PROVE  /\ RowsOf(FactsIn(d)) = StoredRows(d)
         /\ StoredEntities(FactsIn(d)) = StoredNames(d)
<1>1. \A k \in Keys : Fact("row", k, NONE) \in FactsIn(d) <=> k \in StoredRows(d)
  BY DEF FactsIn, StoredRows, EntityFacts, Fact
<1>2. \A e \in Entities : Fact("entity", e, NONE) \in FactsIn(d) <=> e \in StoredNames(d)
  BY DEF FactsIn, StoredNames, EntityFacts, Fact
<1> QED
  BY <1>1, <1>2 DEF RowsOf, StoredRows, StoredEntities, StoredNames

\* The facts of a stored case are what facts can be.
LEMMA StoredAreFacts ==
  ASSUME NEW d \in Database, IsFiniteSet(StoredRows(d)), IsFiniteSet(StoredNames(d))
  PROVE  AreFacts(FactsIn(d))
<1>1. FactsIn(d) \subseteq AllFacts
  BY FactsAreFacts
<1>2. ASSUME NEW f \in FactsIn(d), f[1] \in {"entity", "reference", "field"}
      PROVE  f[2] \in StoredNames(d)
  <2>1. PICK e \in StoredNames(d) : f \in EntityFacts(e, d.entities[e])
    BY <1>2 DEF FactsIn, Fact, StoredNames
  <2> QED
    BY <2>1 DEF EntityFacts, Fact
<1> QED
  BY <1>1, <1>2, RowsOfFacts DEF AreFacts

\* Every SELECT returns stored facts.
LEMMA SelectsFacts ==
  ASSUME NEW facts, NEW table, NEW rows \in SelectFrom(table, facts)
  PROVE  rows \subseteq facts
<1>1. \A keys : keys \subseteq RowsOf(facts) => RowFacts(keys) \subseteq facts
  BY DEF RowFacts, RowsOf
<1>2. \A t : RowsIn(facts, t) \subseteq RowsOf(facts)
  BY DEF RowsIn
<1>3. CASE rows \in Timeline(facts)
  BY <1>1, <1>2, <1>3 DEF Timeline, FirstRows, EventsOf
<1>4. CASE rows \in History(facts)
  BY <1>1, <1>2, <1>4 DEF History, FirstRows, CallsOf
<1>5. CASE rows \in Listing(facts)
  BY <1>5 DEF Listing, FactsAbout
<1>6. CASE rows = facts \cap {Fact("case", NONE, NONE)} \/ rows = RowFacts(RowsIn(facts, table))
  BY <1>1, <1>2, <1>6
<1> QED
  BY <1>3, <1>4, <1>5, <1>6 DEF SelectFrom

\* Before the first SELECT nothing is read.
LEMMA NothingRead ==
  ASSUME NEW facts, NEW g
  PROVE  HasRead(g, 1, facts) <=> g = {}
<1>1. \A pick : Collected(pick, 1, facts) = {}
  BY DEF Collected
<1>2. AreAnswers([j \in 1..8 |-> {}], 1, facts)
  BY DEF AreAnswers
<1>3. [j \in 1..8 |-> {}] \in [1..8 -> SUBSET facts]
  OBVIOUS
<1> QED
  BY <1>1, <1>2, <1>3 DEF HasRead

\* A SELECT adds its answer.
LEMMA ReadsOn ==
  ASSUME NEW facts, NEW i \in 1..8, NEW g, HasRead(g, i, facts),
         NEW rows \in SelectFrom(Selects[i], facts)
  PROVE  HasRead(g \cup rows, i + 1, facts)
<1>1. PICK pick \in [1..8 -> SUBSET facts] :
        AreAnswers(pick, i, facts) /\ g = Collected(pick, i, facts)
  BY DEF HasRead
<1> DEFINE then == [pick EXCEPT ![i] = rows]
<1>2. rows \subseteq facts
  BY SelectsFacts
<1>3. then \in [1..8 -> SUBSET facts] /\ then[i] = rows
  BY <1>2
<1>4. \A j \in 1..(i - 1) : j \in 1..8 /\ then[j] = pick[j]
  OBVIOUS
<1>5. \A j : j \in 1..(i + 1 - 1) <=> j \in 1..(i - 1) \/ j = i
  OBVIOUS
<1> HIDE DEF then
<1>6. AreAnswers(then, i + 1, facts)
  BY <1>1, <1>3, <1>4, <1>5 DEF AreAnswers
<1>7. g \cup rows = Collected(then, i + 1, facts)
  BY <1>1, <1>2, <1>3, <1>4, <1>5 DEF Collected
<1> QED
  BY <1>3, <1>6, <1>7 DEF HasRead

\* After the last SELECT all is read that a report shows.
LEMMA AllRead ==
  ASSUME NEW facts, NEW g, HasRead(g, 9, facts)
  PROVE  g \in ViewsOf(facts)
<1>1. PICK pick \in [1..8 -> SUBSET facts] :
        AreAnswers(pick, 9, facts) /\ g = Collected(pick, 9, facts)
  BY DEF HasRead
<1>2. \A j : j \in 1..(9 - 1) <=> j \in {1, 2, 3, 4, 5, 6, 7, 8}
  <2>1. \A j : j \in 1..8 <=> j \in {1, 2, 3, 4, 5, 6, 7, 8}
    OBVIOUS
  <2> QED
    BY <2>1
<1>3. \A j \in {1, 2, 3, 4, 5, 6, 7, 8} :
        pick[j] \in SelectFrom(Selects[j], facts) /\ pick[j] \subseteq facts
  BY <1>1, <1>2, SelectsFacts DEF AreAnswers
<1>4. g = (((((((pick[1] \cup pick[2]) \cup pick[3]) \cup pick[4]) \cup pick[5])
             \cup pick[6]) \cup pick[7]) \cup pick[8])
  BY <1>1, <1>2, <1>3 DEF Collected
<1>5. /\ pick[1] \in SelectFrom("cases", facts) /\ pick[2] \in SelectFrom("hypotheses", facts)
      /\ pick[3] \in SelectFrom("claims", facts)
      /\ pick[4] \in SelectFrom("evidence_items", facts)
      /\ pick[5] \in SelectFrom("events", facts) /\ pick[6] \in SelectFrom("entities", facts)
      /\ pick[7] \in SelectFrom("coverage_reports", facts)
      /\ pick[8] \in SelectFrom("tool_calls", facts)
  BY <1>3, EightSelects
<1>6. /\ pick[1] = facts \cap {Fact("case", NONE, NONE)}
      /\ pick[2] = RowFacts(RowsIn(facts, "hypotheses"))
      /\ pick[3] = RowFacts(RowsIn(facts, "claims"))
      /\ pick[4] = RowFacts(RowsIn(facts, "evidence_items"))
      /\ pick[7] = RowFacts(RowsIn(facts, "coverage_reports"))
      /\ pick[5] \in Timeline(facts) /\ pick[6] \in Listing(facts) /\ pick[8] \in History(facts)
  BY <1>5 DEF SelectFrom
<1>7. Unlimited(facts) = ((((pick[1] \cup pick[2]) \cup pick[3]) \cup pick[4]) \cup pick[7])
  BY <1>6 DEF Unlimited, RowFacts, RowsIn
<1>8. g = ((Unlimited(facts) \cup pick[5]) \cup pick[6]) \cup pick[8]
  BY <1>4, <1>7
<1> QED
  BY <1>6, <1>8 DEF ViewsOf

-----------------------------------------------------------------------------
(***************************************************************************)
(* What the step of a process does to the case store: it is one of its     *)
(* steps, or it closes a session without a row.                            *)
(***************************************************************************)
Ends(p) ==
  /\ \E r \in Replies : Close(p, r)
  /\ UNCHANGED <<db, at, verified, acked>>

Opens(p) ==
  \/ \E c \in Cases : \/ CreateCase(p, c) \/ IngestRecords(p, c)
                      \/ RecordToolCall(p, c) \/ Query(p, c)
  \/ SchemaReady(p) \/ RejectSection(p) \/ Restart(p)
  \/ Migrate(p) /\ StatementFails(Migrations[at[p]], db[session[p]])

Upgrades(p) == Migrate(p) /\ ~ StatementFails(Migrations[at[p]], db[session[p]])

StoreStep(p) == Opens(p) \/ Upgrades(p) \/ WriteRow(p) \/ Finish(p) \/ Ends(p) \/ UNCHANGED vars

\* Ending a request changes no row, schema or acknowledgement ...
LEMMA EndsOpened ==
  ASSUME IInv, NEW p \in Procs, Ends(p)
  PROVE  Opened(p)
BY DEF Ends, Close, Opened, SameSchema, IInv, TypeInv, TypeOK

\* ... and neither does opening a case, or being refused.
LEMMA OpensOpened ==
  ASSUME IInv, NEW p \in Procs, Opens(p)
  PROVE  Opened(p)
BY OtherStepsOpen DEF IInv, Opens

\* The invariant of the case store is kept.
LEMMA StoreStepInv ==
  ASSUME IInv, NEW p \in Procs, StoreStep(p)
  PROVE  IInv'
<1>1. CASE Ends(p)
  <2>1. TypeInv'
    BY <1>1 DEF Ends, Close, Reply, IInv, TypeInv, TypeOK, SessionOpen, Optional
  <2>2. SchemaInv'
    BY <1>1, CloseSchema DEF Ends, Close, IInv
  <2>3. AckInv'
    BY <1>1, EndsOpened, OpenedAck
  <2> QED
    BY <2>1, <2>2, <2>3 DEF IInv
<1>2. CASE ~ Ends(p)
  <2>1. [Next]_vars
    BY <1>2 DEF StoreStep, Opens, Upgrades, Next, Step
  <2> QED
    BY <2>1, InvariantNext
<1> QED
  BY <1>1, <1>2

\* A step leaves alone what other processes hold: their files are locked.
LEMMA OthersKeep ==
  ASSUME IInv, NEW p \in Procs, StoreStep(p), NEW q \in Procs \ {p}, pc[q] # "idle"
  PROVE  /\ UNCHANGED <<pc[q], session[q], pending[q], job[q], bad[q]>>
         /\ session[q] \in Cases
         /\ db'[session[q]] = db[session[q]]
<1>0. session[q] \in Cases
  BY OpenSession DEF IInv
<1>1. pc[p] # "idle" => session[p] \in Cases /\ session[p] # session[q]
  BY <1>0, OpenSession, NoneAssumption DEF IInv, SchemaInv
<1>2. ASSUME NEW c \in Cases, NEW rows, NEW b, Connect(p, c, rows, b)
      PROVE  /\ UNCHANGED <<pc[q], session[q], pending[q], job[q], bad[q]>>
             /\ db'[session[q]] = db[session[q]]
  <2>1. session[q] # c
    BY <1>2 DEF Connect, Locked
  <2> QED
    BY <1>0, <1>2, <2>1 DEF Connect, IInv, TypeInv, TypeOK
<1>3. ASSUME NEW c \in Cases, NEW rows, NEW b, Request(p, c, rows, b)
      PROVE  /\ UNCHANGED <<pc[q], session[q], pending[q], job[q], bad[q]>>
             /\ db'[session[q]] = db[session[q]]
  BY <1>2, <1>3 DEF Request, Refuse
<1>4. CASE \E c \in Cases : \/ CreateCase(p, c) \/ IngestRecords(p, c)
                            \/ RecordToolCall(p, c) \/ Query(p, c)
  BY <1>0, <1>2, <1>3, <1>4 DEF CreateCase, IngestRecords, RecordToolCall, Query
<1>5. CASE SchemaReady(p) \/ RejectSection(p) \/ Restart(p) \/ Finish(p) \/ Ends(p)
  BY <1>0, <1>5 DEF SchemaReady, RejectSection, Restart, Finish, Ends, Close,
                    IInv, TypeInv, TypeOK
<1>6. CASE Migrate(p)
  BY <1>0, <1>1, <1>6 DEF Migrate, Close, IInv, TypeInv, TypeOK
<1>7. CASE WriteRow(p)
  BY <1>0, <1>1, <1>7 DEF WriteRow, IInv, TypeInv, TypeOK
<1>8. CASE UNCHANGED vars
  BY <1>0, <1>8 DEF vars, local
<1> QED
  BY <1>0, <1>4, <1>5, <1>6, <1>7, <1>8 DEF StoreStep, Opens, Upgrades

\* A case whose schema is current stays so, and it loses no fact.
LEMMA CurrentGrows ==
  ASSUME IInv, NEW p \in Procs, StoreStep(p), NEW c \in Cases, SchemaCurrent(db[c])
  PROVE  SchemaCurrent(db'[c]) /\ FactsIn(db[c]) \subseteq FactsIn(db'[c])
<1>1. CASE Opened(p)
  BY <1>1, SchemaTransfer DEF Opened
<1>2. CASE Upgrades(p)
  <2>1. pc[p] = "migrate" /\ at[p] \in 1..LastStatement
    BY <1>2 DEF Upgrades, Migrate, IInv, TypeInv, TypeOK, LastStatement
  <2>2. c # session[p]
    BY <2>1 DEF IInv, SchemaInv, AtStatement, SchemaCurrent, LastStatement, Versions, PartsAt
  <2>3. db'[c] = db[c]
    BY <1>2, <2>2 DEF Upgrades, Migrate, IInv, TypeInv, TypeOK
  <2> QED
    BY <2>3
<1>3. CASE WriteRow(p)
  <2>1. PICK w \in pending[p] : db' = [db EXCEPT ![session[p]] = Written(w, @)]
    BY <1>3 DEF WriteRow
  <2>2. FactsIn(db[c]) \subseteq FactsIn(db'[c]) /\ SameSchema(db[c], db'[c])
    BY <1>3, <2>1, WriteRowFacts DEF WriteRow, IInv
  <2> QED
    BY <2>2, SchemaTransfer
<1>4. CASE UNCHANGED db
  BY <1>4
<1> QED
  BY <1>1, <1>2, <1>3, <1>4, OpensOpened DEF StoreStep, Finish, Ends, vars

\* A step stores one row and one entity at most.
LEMMA OneRowMore ==
  ASSUME IInv, NEW p \in Procs, StoreStep(p), NEW c \in Cases
  PROVE  /\ \E k : StoredRows(db'[c]) \subseteq StoredRows(db[c]) \cup {k}
         /\ \E e : StoredNames(db'[c]) \subseteq StoredNames(db[c]) \cup {e}
<1>0. db[c] \in Database
  BY DEF IInv, TypeInv, TypeOK
<1>1. CASE Opened(p)
  <2>1. FactsIn(db'[c]) = FactsIn(db[c])
    BY <1>1 DEF Opened
  <2>2. StoredNames(db'[c]) = StoredNames(db[c]) /\ StoredRows(db'[c]) = StoredRows(db[c])
    BY <2>1, RowsOfFacts
  <2> QED
    BY <2>2
<1>2. CASE Upgrades(p) /\ session[p] = c
  <2>1. /\ at[p] \in 1..LastStatement
        /\ db'[c] = Migrated(Migrations[at[p]], db[c])
    BY <1>2 DEF Upgrades, Migrate, IInv, TypeInv, TypeOK, LastStatement
  <2>2. Migrations[at[p]].op \in {"create_if_absent", "create", "drop", "log"}
    BY <2>1 DEF Migrations, LastStatement
  <2>3. /\ \A k \in Keys : db'[c].records[k] # NONE => db[c].records[k] # NONE
        /\ db'[c].entities = db[c].entities
    BY <1>0, <2>1, <2>2 DEF Migrated, Database
  <2> QED
    BY <2>3 DEF StoredRows, StoredNames
<1>3. CASE WriteRow(p) /\ session[p] = c
  <2>1. PICK w \in pending[p] : db' = [db EXCEPT ![c] = Written(w, @)]
    BY <1>3 DEF WriteRow
  <2>2. w \in Writes /\ db'[c] = Written(w, db[c])
    BY <2>1 DEF IInv, TypeInv, TypeOK
  <2>3. CASE w \in RecordWrites
    <3>1. w.sec \in Tables /\ w.id \in Keys
      BY <2>3 DEF RecordWrites
    <3>2. /\ db'[c].records = [db[c].records EXCEPT ![w.id] = w.body]
          /\ db'[c].entities = db[c].entities
      BY <1>0, <2>2, <3>1 DEF Written, UpsertRecord, Tables, Database
    <3>3. \A k \in Keys : db'[c].records[k] # NONE => db[c].records[k] # NONE \/ k = w.id
      BY <1>0, <3>1, <3>2 DEF Database
    <3> QED
      BY <3>2, <3>3 DEF StoredRows, StoredNames
  <2>4. CASE w \in EntityWrites
    <3>1. w.sec = "entities" /\ w.id \in Entities
      BY <2>4 DEF EntityWrites
    <3>2. /\ db'[c].records = db[c].records
          /\ \A e \in Entities \ {w.id} : db'[c].entities[e] = db[c].entities[e]
      BY <1>0, <2>2, <3>1 DEF Written, Tables, Database
    <3> QED
      BY <3>2 DEF StoredRows, StoredNames
  <2>5. CASE w \in MetadataWrites \cup {CaseWrite}
    <3>1. db'[c].records = db[c].records /\ db'[c].entities = db[c].entities
      BY <1>0, <2>2, <2>5 DEF MetadataWrites, CaseWrite, Written, Tables, Database
    <3> QED
      BY <3>1 DEF StoredRows, StoredNames
  <2> QED
    BY <2>2, <2>3, <2>4, <2>5 DEF Writes
<1>4. CASE (Upgrades(p) \/ WriteRow(p)) /\ session[p] # c
  <2>1. db'[c] = db[c]
    BY <1>4 DEF Upgrades, Migrate, WriteRow, IInv, TypeInv, TypeOK
  <2> QED
    BY <2>1
<1>5. CASE UNCHANGED db
  BY <1>5
<1> QED
  BY <1>1, <1>2, <1>3, <1>4, <1>5, OpensOpened DEF StoreStep, Finish, Ends, vars

\* A step stores at most one further row, so that cases stay finite.
LEMMA FiniteSteps ==
  ASSUME IInv, FiniteInv, NEW p \in Procs, StoreStep(p)
  PROVE  FiniteInv'
<1> SUFFICES ASSUME NEW c \in Cases
             PROVE  IsFiniteSet(StoredRows(db'[c])) /\ IsFiniteSet(StoredNames(db'[c]))
  BY DEF FiniteInv
<1>1. PICK k : StoredRows(db'[c]) \subseteq StoredRows(db[c]) \cup {k}
  BY OneRowMore
<1>2. PICK e : StoredNames(db'[c]) \subseteq StoredNames(db[c]) \cup {e}
  BY OneRowMore
<1>3. IsFiniteSet(StoredRows(db[c]) \cup {k})
  BY FS_AddElement DEF FiniteInv
<1>4. IsFiniteSet(StoredNames(db[c]) \cup {e})
  BY FS_AddElement DEF FiniteInv
<1> QED
  BY <1>1, <1>2, <1>3, <1>4, FS_Subset

-----------------------------------------------------------------------------
(***************************************************************************)
(* The steps of a report.                                                  *)
(***************************************************************************)
ReportAction(p) ==
  \/ \E c \in Cases : RequestReport(p, c)
  \/ ReportStep(p) \/ Other(p) \/ Abandon(p)

\* What a report does to the store is a step of the store.
LEMMA ReportStoreStep ==
  ASSUME NEW p \in Procs, ReportAction(p)
  PROVE  StoreStep(p)
<1>1. CASE \E c \in Cases : RequestReport(p, c)
  BY <1>1 DEF RequestReport, StoreStep, Opens
<1>2. CASE PrepareReport(p)
  BY <1>2 DEF PrepareReport, StoreStep, Opens, Upgrades
<1>3. CASE Deliver(p)
  BY <1>3 DEF Deliver, StoreStep, Ends, Replies
<1>4. CASE Select(p)
  BY <1>4 DEF Select, StoreStep
<1>5. CASE Abandon(p)
  BY <1>5 DEF Abandon, StoreStep, Opens
<1>6. CASE Other(p)
  BY <1>6 DEF Other, Step, StoreStep, Opens, Upgrades
<1> QED
  BY <1>1, <1>2, <1>3, <1>4, <1>5, <1>6 DEF ReportAction, ReportStep

\* What other processes have read they could still read.
LEMMA OthersRead ==
  ASSUME IInv, ReadInv, NEW p \in Procs, StoreStep(p), NEW q \in Procs \ {p},
         next'[q] = next[q], got'[q] = got[q]
  PROVE  ReadOf(q)'
<1>1. ReadOf(q)
  BY DEF ReadInv
<1>2. CASE ~ Reading(q)
  BY <1>1, <1>2 DEF ReadOf, Reading
<1>3. CASE Reading(q)
  <2>1. /\ UNCHANGED <<pc[q], session[q], pending[q], job[q], bad[q]>>
        /\ db'[session[q]] = db[session[q]]
    BY <1>1, <1>3, OthersKeep DEF ReadOf
  <2> QED
    BY <1>1, <1>3, <2>1 DEF ReadOf, Reading
<1> QED
  BY <1>2, <1>3

\* A process that leaves has read nothing.
LEMMA LeaveReads ==
  ASSUME IInv, ReadInv, NEW p \in Procs, StoreStep(p),
         next' = [next EXCEPT ![p] = 0], got' = [got EXCEPT ![p] = {}]
  PROVE  ReadInv'
<1>1. next' \in [Procs -> 0..9] /\ got' \in [Procs -> SUBSET AllFacts]
  BY DEF ReadInv
<1>2. next'[p] = 0 /\ got'[p] = {}
  BY DEF ReadInv
<1>3. ReadOf(p)'
  BY <1>2 DEF ReadOf, Reading
<1>4. \A q \in Procs \ {p} : next'[q] = next[q] /\ got'[q] = got[q]
  BY DEF ReadInv
<1> QED
  BY <1>1, <1>3, <1>4, OthersRead DEF ReadInv

\* A report starts before its first SELECT; a refused one does not start.
LEMMA RequestReads ==
  ASSUME IInv, ReadInv, NEW p \in Procs, NEW c \in Cases, RequestReport(p, c)
  PROVE  ReadInv'
<1>1. pc[p] = "idle" /\ StoreStep(p)
  BY ReportStoreStep DEF RequestReport, Query, Request, ReportAction
<1>2. ~ Reading(p) /\ got[p] = {} /\ session[p] = NONE
  BY <1>1 DEF ReadInv, ReadOf, IInv, TypeInv, SessionOpen
<1>3. /\ next' \in [Procs -> 0..9] /\ got' \in [Procs -> SUBSET AllFacts]
      /\ next'[p] = IF session'[p] = c THEN 1 ELSE 0
      /\ \A q \in Procs \ {p} : next'[q] = next[q] /\ got'[q] = got[q]
      /\ got'[p] = {}
  BY <1>2 DEF RequestReport, ReadInv
<1>4. CASE session'[p] = c
  <2>1. Connect(p, c, {}, NONE)
    BY <1>2, <1>4, NoneAssumption DEF RequestReport, Query, Request, Refuse
  <2>2. pc'[p] \in {"work", "migrate"} /\ pending'[p] = {} /\ job'[p] = {} /\ bad'[p] = NONE
    BY <2>1 DEF Connect, IInv, TypeInv, TypeOK
  <2> QED
    BY <1>1, <1>3, <1>4, <2>2, OthersRead, NothingRead DEF ReadInv, ReadOf
<1>5. CASE session'[p] # c
  BY <1>1, <1>3, <1>5, OthersRead DEF ReadInv, ReadOf, Reading
<1> QED
  BY <1>4, <1>5

\* The upgrade of an old database happens before the first SELECT.
LEMMA PrepareReads ==
  ASSUME IInv, ReadInv, NEW p \in Procs, PrepareReport(p)
  PROVE  ReadInv'
<1>1. StoreStep(p) /\ Reading(p) /\ pc[p] = "migrate"
  BY ReportStoreStep DEF PrepareReport, SchemaReady, Migrate, ReportStep, ReportAction
<1>2. next[p] = 1 /\ got[p] = {} /\ pending[p] = {} /\ job[p] = {} /\ bad[p] = NONE
  BY <1>1, NothingRead DEF ReadInv, ReadOf
<1>3. CASE Leave(p)
  BY <1>1, <1>3, LeaveReads DEF Leave
<1>4. CASE UNCHANGED reading
  <2>1. /\ pc'[p] # "idle"
        /\ UNCHANGED <<pending[p], job[p], bad[p]>>
    <3>1. CASE SchemaReady(p)
      BY <3>1 DEF SchemaReady, IInv, TypeInv, TypeOK
    <3>2. CASE Upgrades(p)
      BY <1>1, <3>2 DEF Upgrades, Migrate
    <3>3. CASE Migrate(p) /\ ~ Upgrades(p)
      <4>1. session'[p] = NONE
        BY <3>3 DEF Upgrades, Migrate, Close, IInv, TypeInv, TypeOK
      <4>2. Leave(p)
        BY <3>3, <4>1 DEF PrepareReport, SchemaReady, Migrate, LastStatement, IInv,
                          TypeInv, TypeOK
      <4> QED
        BY <1>2, <1>4, <4>2 DEF Leave, reading, ReadInv
    <3> QED
      BY <3>1, <3>2, <3>3 DEF PrepareReport
  <2>2. ReadOf(p)'
    BY <1>1, <1>2, <1>4, <2>1, NothingRead DEF ReadOf, reading, Reading
  <2> QED
    BY <1>1, <1>4, <2>2, OthersRead DEF ReadInv, reading
<1> QED
  BY <1>3, <1>4 DEF PrepareReport

\* A SELECT reads on.
LEMMA SelectReads ==
  ASSUME IInv, ReadInv, NEW p \in Procs, Select(p)
  PROVE  ReadInv'
<1> DEFINE d == db[session[p]]
<1>1. /\ StoreStep(p) /\ Reading(p) /\ pc[p] = "work" /\ next[p] \in 1..8
      /\ session[p] \in Cases /\ d \in Database
  <2>1. Reading(p) /\ pc[p] = "work" /\ ~ SelectsDone(p)
    BY DEF Select
  <2>2. next[p] \in 1..8
    BY <2>1, EightSelects DEF Reading, SelectsDone, ReadInv
  <2>3. session[p] \in Cases /\ d \in Database
    BY <2>1, OpenSession DEF IInv
  <2> QED
    BY <2>1, <2>2, <2>3, ReportStoreStep DEF ReportStep, ReportAction
<1>2. PICK rows \in SelectFrom(Selects[next[p]], FactsIn(d)) :
        got' = [got EXCEPT ![p] = @ \cup rows]
  BY DEF Select
<1>3. HasRead(got[p], next[p], FactsIn(d))
  BY <1>1 DEF ReadInv, ReadOf
<1>4. HasRead(got[p] \cup rows, next[p] + 1, FactsIn(d))
  BY <1>1, <1>2, <1>3, ReadsOn
<1>5. FactsIn(d) \subseteq AllFacts
  BY <1>1, FactsAreFacts
<1>6. rows \subseteq AllFacts
  BY <1>2, <1>5, SelectsFacts
<1>7. /\ next' \in [Procs -> 0..9] /\ got' \in [Procs -> SUBSET AllFacts]
      /\ next'[p] = next[p] + 1 /\ got'[p] = got[p] \cup rows
      /\ \A q \in Procs \ {p} : next'[q] = next[q] /\ got'[q] = got[q]
  BY <1>1, <1>2, <1>6 DEF Select, ReadInv
<1>8. ReadOf(p)'
  <2>1. UNCHANGED <<pc, pending, job, bad, session, db>>
    BY DEF Select, vars, local
  <2> QED
    BY <1>1, <1>4, <1>7, <2>1 DEF ReadInv, ReadOf, Reading
<1> QED
  BY <1>1, <1>7, <1>8, OthersRead DEF ReadInv

\* Rows already read stay rows of one instant, whoever steps.
LEMMA ReadSteps ==
  ASSUME IInv, ReadInv, NEW p \in Procs, ReportAction(p)
  PROVE  ReadInv'
<1>1. StoreStep(p)
  BY ReportStoreStep
<1>2. CASE \E c \in Cases : RequestReport(p, c)
  BY <1>2, RequestReads
<1>3. CASE PrepareReport(p)
  BY <1>3, PrepareReads
<1>4. CASE Select(p)
  BY <1>4, SelectReads
<1>5. CASE Deliver(p) \/ Abandon(p)
  BY <1>1, <1>5, LeaveReads DEF Deliver, Abandon, Leave
<1>6. CASE Other(p)
  <2>1. ~ Reading(p) /\ UNCHANGED reading
    BY <1>6 DEF Other
  <2>2. ReadOf(p)'
    BY <2>1 DEF ReadInv, ReadOf, Reading, reading
  <2> QED
    BY <1>1, <2>1, <2>2, OthersRead DEF ReadInv, reading
<1> QED
  BY <1>2, <1>3, <1>4, <1>5, <1>6 DEF ReportAction, ReportStep

-----------------------------------------------------------------------------
(***************************************************************************)
(* Delivered reports.                                                      *)
(***************************************************************************)

\* What is delivered is a view of the facts of the case, which hold all that
\* was acknowledged.
LEMMA DeliverShows ==
  ASSUME IInv, ReadInv, FiniteInv, NEW p \in Procs, Deliver(p)
  PROVE  /\ session[p] \in Cases /\ SchemaCurrent(db[session[p]])
         /\ got[p] \in ViewsOf(FactsIn(db[session[p]]))
         /\ IsReportOf([facts |-> got[p],
                        told |-> UNION {FactsOf(w) : w \in acked[session[p]]}],
                       FactsIn(db[session[p]]))
<1> DEFINE c == session[p]
<1>1. next[p] = 9 /\ Reading(p)
  BY EightSelects DEF Deliver, Reading, SelectsDone, ReadInv
<1>2. pc[p] = "work" /\ HasRead(got[p], 9, FactsIn(db[c]))
  BY <1>1 DEF ReadInv, ReadOf, IInv, TypeInv, TypeOK
<1>3. c \in Cases /\ db[c] \in Database /\ SchemaCurrent(db[c])
  BY <1>2, OpenSession DEF IInv, SchemaInv
<1>4. got[p] \in ViewsOf(FactsIn(db[c]))
  BY <1>2, <1>3, AllRead
<1>5. AreFacts(FactsIn(db[c]))
  BY <1>3, StoredAreFacts DEF FiniteInv
<1>7. UNION {FactsOf(w) : w \in acked[c]} \subseteq FactsIn(db[c])
  BY <1>3 DEF IInv, AckInv, AckedIsStored
<1> QED
  BY <1>3, <1>4, <1>5, <1>7 DEF IsReportOf

\* The latest reports stay what reports of their cases are.
LEMMA LatestSteps ==
  ASSUME IInv, ReadInv, FiniteInv, LatestInv, NEW p \in Procs, ReportAction(p)
  PROVE  LatestInv'
<1>1. \A c \in Cases : SchemaCurrent(db[c]) => SchemaCurrent(db'[c])
  BY ReportStoreStep, CurrentGrows
<1>2. CASE UNCHANGED latest
  BY <1>1, <1>2 DEF LatestInv, Reported
<1>3. CASE Deliver(p)
  <2> DEFINE c == session[p]
             report == [facts |-> got[p], told |-> UNION {FactsOf(w) : w \in acked[c]}]
  <2>1. /\ c \in Cases /\ SchemaCurrent(db[c])
        /\ IsReportOf(report, FactsIn(db[c]))
    BY <1>3, DeliverShows
  <2>2. db[c] \in Database /\ FactsIn(db[c]) \in SUBSET AllFacts
    BY <2>1, FactsAreFacts DEF IInv, TypeInv, TypeOK
  <2>3. report \in [facts : SUBSET AllFacts, told : SUBSET AllFacts]
    BY <2>1, <2>2 DEF IsReportOf, ReadInv
  <2>4. latest' = [latest EXCEPT ![c] = report]
    BY <1>3 DEF Deliver
  <2>5. latest' \in [Cases -> [facts : SUBSET AllFacts, told : SUBSET AllFacts] \cup {NONE}]
    BY <2>3, <2>4 DEF LatestInv
  <2>6. ASSUME NEW x \in Cases, latest'[x] # NONE
        PROVE  /\ SchemaCurrent(db'[x])
               /\ \E facts \in SUBSET AllFacts : IsReportOf(latest'[x], facts)
    <3>1. CASE x = c
      BY <1>1, <2>1, <2>2, <2>4, <3>1 DEF LatestInv
    <3>2. CASE x # c
      <4>1. latest'[x] = latest[x]
        BY <2>4, <3>2 DEF LatestInv
      <4> QED
        BY <1>1, <2>6, <4>1 DEF LatestInv, Reported
    <3> QED
      BY <3>1, <3>2
  <2> QED
    BY <2>5, <2>6 DEF LatestInv, Reported
<1> QED
  BY <1>2, <1>3 DEF ReportAction, RequestReport, ReportStep, PrepareReport,
                    Select, Other, Abandon, Leave, reading

\* The inductive invariant of the reports holds at first ...
LEMMA ReportInvInit == ReportInit => ReportInv
<1> SUFFICES ASSUME ReportInit
             PROVE  ReportInv
  OBVIOUS
<1>1. IInv
  BY InvariantInit DEF ReportInit
<1>2. ReadInv
  BY DEF ReportInit, ReadInv, ReadOf, Reading
<1>3. FiniteInv
  <2> SUFFICES ASSUME NEW c \in Cases
               PROVE  IsFiniteSet(StoredRows(db[c])) /\ IsFiniteSet(StoredNames(db[c]))
    BY DEF FiniteInv
  <2>1. CASE db[c] = NoFile
    <3>1. StoredRows(db[c]) = {} /\ StoredNames(db[c]) = {}
      BY <2>1 DEF NoFile, StoredRows, StoredNames
    <3> QED
      BY <3>1, FS_EmptySet
  <2>2. CASE \E v \in 1..2 : db[c] = LegacyFile(v)
    <3>1. /\ db[c].records = [k \in Keys |-> IF k \in LegacyKeys
                                            THEN CHOOSE b \in Bodies : TRUE ELSE NONE]
          /\ db[c].entities = [e \in Entities |-> NONE]
      BY <2>2 DEF LegacyFile, NoFile
    <3>2. StoredRows(db[c]) \subseteq LegacyKeys /\ StoredNames(db[c]) = {}
      BY <3>1 DEF StoredRows, StoredNames
    <3>3. IsFiniteSet(StoredRows(db[c]))
      BY <3>2, ReportAssumption, FS_Subset
    <3> QED
      BY <3>2, <3>3, FS_EmptySet
  <2> QED
    BY <2>1, <2>2 DEF ReportInit, Init
<1>4. LatestInv
  BY DEF ReportInit, LatestInv, Reported
<1> QED
  BY <1>1, <1>2, <1>3, <1>4 DEF ReportInv

\* ... is kept by every step ...
LEMMA ReportInvNext == ReportInv /\ [ReportNext]_allVars => ReportInv'
<1> SUFFICES ASSUME ReportInv, [ReportNext]_allVars
             PROVE  ReportInv'
  OBVIOUS
<1>1. ASSUME NEW p \in Procs, ReportAction(p)
      PROVE  ReportInv'
  BY <1>1, ReportStoreStep, StoreStepInv, ReadSteps, FiniteSteps, LatestSteps DEF ReportInv
<1>2. CASE UNCHANGED allVars
  <2>1. UNCHANGED vars /\ UNCHANGED reading
    BY <1>2 DEF allVars
  <2>2. IInv'
    BY <2>1, InvariantNext DEF ReportInv
  <2>3. ReadInv'
    BY <2>1 DEF vars, local, reading, ReportInv, ReadInv, ReadOf, Reading
  <2>4. FiniteInv' /\ LatestInv'
    BY <2>1 DEF vars, reading, ReportInv, FiniteInv, LatestInv, Reported
  <2> QED
    BY <2>2, <2>3, <2>4 DEF ReportInv
<1> QED
  BY <1>1, <1>2 DEF ReportNext, ReportAction

\* ... and so always holds.
LEMMA ReportInvAlways == ReportSpec => []ReportInv
BY ReportInvInit, ReportInvNext, PTL DEF ReportSpec

\* A report reads rows in an open session of its own only, and keeps nothing
\* of a request that was refused, failed or abandoned.
THEOREM ReportsReadInSessions == ReportSpec => []ReportTypeOK
<1>1. ReportInv => ReportTypeOK
  <2> SUFFICES ASSUME ReportInv
               PROVE  ReportTypeOK
    OBVIOUS
  <2>1. next \in [Procs -> 0..(Len(Selects) + 1)]
    BY EightSelects DEF ReportInv, ReadInv
  <2>2. ASSUME NEW p \in Procs, Reading(p)
        PROVE  session[p] # NONE /\ pending[p] = {}
    BY <2>2 DEF ReportInv, ReadInv, ReadOf, IInv, TypeInv, SessionOpen
  <2>3. ASSUME NEW p \in Procs
        PROVE  got[p] \subseteq AllFacts /\ (got[p] # {} => pc[p] = "work")
    <3>1. ReadOf(p) /\ got[p] \subseteq AllFacts /\ pc[p] \in {"idle", "migrate", "work"}
      BY DEF ReportInv, ReadInv, IInv, TypeInv, TypeOK
    <3> QED
      BY <3>1, NothingRead DEF ReadOf
  <2> QED
    BY <2>1, <2>2, <2>3 DEF ReportTypeOK
<1> QED
  BY <1>1, ReportInvAlways, PTL

-----------------------------------------------------------------------------
(***************************************************************************)
(* What a report leaves out.                                               *)
(***************************************************************************)

\* A row that is not among the first ones is cut off.
LEMMA RestIsCutOff ==
  ASSUME NEW rows, IsFiniteSet(rows), NEW limit \in Nat, NEW place,
         NEW S \in FirstRows(rows, limit, place), NEW x \in rows \ S
  PROVE  CutOff(S, limit, place, x)
<1>1. /\ S \subseteq rows
      /\ Cardinality(S) = Min({limit, Cardinality(rows)})
      /\ \A s \in S : \A o \in rows \ S : place[s] <= place[o]
  BY DEF FirstRows
<1>2. Cardinality(S) \in Nat /\ Cardinality(rows) \in Nat
  BY <1>1, FS_Subset, FS_CardinalityType
<1>3. Cardinality(S) # Cardinality(rows)
  BY <1>1, FS_Subset
<1>4. \E n \in {limit, Cardinality(rows)} : \A m \in {limit, Cardinality(rows)} : n <= m
  BY <1>2
<1>5. Min({limit, Cardinality(rows)}) \in {limit, Cardinality(rows)}
  BY <1>4 DEF Min
<1>6. Cardinality(S) = limit
  BY <1>1, <1>3, <1>5
<1> QED
  BY <1>1, <1>6 DEF CutOff

\* What the lists of a view are: its events, entities and tool calls are the
\* first of those in the facts, and all that the facts say of its entities and
\* all rows of the other tables are shown.
LEMMA ViewParts ==
  ASSUME NEW facts, AreFacts(facts), NEW view \in ViewsOf(facts)
  PROVE  /\ EventsOf(view) \in FirstRows(EventsOf(facts), TimelineLimit, ByTime)
         /\ StoredEntities(view) \in FirstRows(StoredEntities(facts), MaxLimit, ByName)
         /\ CallsOf(view) \in FirstRows(CallsOf(facts), MaxLimit, ByRecency)
         /\ FactsAbout(StoredEntities(view), facts) \subseteq view
         /\ Unlimited(facts) \subseteq view
<1>1. PICK E \in FirstRows(EventsOf(facts), TimelineLimit, ByTime),
           N \in FirstRows(StoredEntities(facts), MaxLimit, ByName),
           C \in FirstRows(CallsOf(facts), MaxLimit, ByRecency) :
        view = ((Unlimited(facts) \cup RowFacts(E)) \cup FactsAbout(N, facts)) \cup RowFacts(C)
  BY DEF ViewsOf, Timeline, Listing, History
<1>2. E \subseteq EventsOf(facts) /\ N \subseteq StoredEntities(facts) /\ C \subseteq CallsOf(facts)
  BY DEF FirstRows
<1>3. /\ EventsOf(facts) \subseteq Keys /\ CallsOf(facts) \subseteq Keys
      /\ \A k \in EventsOf(facts) : TableOf[k] = "events"
      /\ \A k \in CallsOf(facts) : TableOf[k] = "tool_calls"
      /\ StoredEntities(facts) \subseteq Entities
  BY DEF EventsOf, CallsOf, RowsIn, RowsOf, StoredEntities
<1>4. ASSUME NEW k \in Keys
      PROVE  /\ \A keys : Fact("row", k, NONE) \in RowFacts(keys) <=> k \in keys
             /\ Fact("row", k, NONE) \notin FactsAbout(N, facts)
             /\ TableOf[k] \in {"events", "tool_calls"} => Fact("row", k, NONE) \notin Unlimited(facts)
  BY DEF RowFacts, Fact, FactsAbout, Unlimited
<1>5. EventsOf(view) = E
  BY <1>1, <1>2, <1>3, <1>4 DEF EventsOf, RowsIn, RowsOf
<1>6. CallsOf(view) = C
  BY <1>1, <1>2, <1>3, <1>4 DEF CallsOf, RowsIn, RowsOf
<1>7. StoredEntities(view) = N
  <2>1. ASSUME NEW e \in Entities
        PROVE  Fact("entity", e, NONE) \in view <=> e \in N
    <3>1. /\ \A keys : Fact("entity", e, NONE) \notin RowFacts(keys)
          /\ Fact("entity", e, NONE) \notin Unlimited(facts)
      BY DEF RowFacts, Fact, Unlimited
    <3>2. Fact("entity", e, NONE) \in FactsAbout(N, facts) <=> e \in N
      BY <1>2 DEF FactsAbout, Fact, StoredEntities
    <3> QED
      BY <1>1, <3>1, <3>2
  <2> QED
    BY <1>2, <1>3, <2>1 DEF StoredEntities
<1> QED
  BY <1>1, <1>5, <1>6, <1>7

\* A view shows every reportable fact that none of the three limits cuts off,
\* and all rows of the tables without one.
LEMMA ViewIsComplete ==
  ASSUME NEW facts, AreFacts(facts), NEW view \in ViewsOf(facts)
  PROVE  /\ EventsOf(view) \subseteq EventsOf(facts) /\ IsFiniteSet(EventsOf(view))
         /\ \A k \in EventsOf(facts) : k \in EventsOf(view) \/ EventIsCutOff(view, k)
         /\ CoverageRows(facts) \subseteq CoverageRows(view)
         /\ \A f \in Reportable(facts) \ view :
              \/ \E k \in EventsOf({f}) : EventIsCutOff(view, k)
              \/ \E e \in Entities : f \in FactsAbout({e}, {f}) /\ EntityIsCutOff(view, e)
              \/ \E k \in CallsOf({f}) : CallIsCutOff(view, k)
<1>1. TimelineLimit \in Nat /\ MaxLimit \in Nat
  BY ReportAssumption
<1>2. /\ IsFiniteSet(EventsOf(facts)) /\ IsFiniteSet(CallsOf(facts))
      /\ IsFiniteSet(StoredEntities(facts))
  <2>1. EventsOf(facts) \subseteq RowsOf(facts) /\ CallsOf(facts) \subseteq RowsOf(facts)
    BY DEF EventsOf, CallsOf, RowsIn
  <2> QED
    BY <2>1, FS_Subset DEF AreFacts
<1>3. ASSUME NEW k \in EventsOf(facts), k \notin EventsOf(view)
      PROVE  EventIsCutOff(view, k)
  BY <1>1, <1>2, <1>3, ViewParts, RestIsCutOff DEF EventIsCutOff
<1>4. ASSUME NEW e \in StoredEntities(facts), e \notin StoredEntities(view)
      PROVE  EntityIsCutOff(view, e)
  BY <1>1, <1>2, <1>4, ViewParts, RestIsCutOff DEF EntityIsCutOff
<1>5. ASSUME NEW k \in CallsOf(facts), k \notin CallsOf(view)
      PROVE  CallIsCutOff(view, k)
  BY <1>1, <1>2, <1>5, ViewParts, RestIsCutOff DEF CallIsCutOff
<1>6. EventsOf(view) \subseteq EventsOf(facts) /\ IsFiniteSet(EventsOf(view))
  <2>1. EventsOf(view) \subseteq EventsOf(facts)
    BY ViewParts DEF FirstRows
  <2> QED
    BY <1>2, <2>1, FS_Subset
<1>7. ASSUME NEW k \in RowsOf(facts),
             TableOf[k] \in {"hypotheses", "claims", "evidence_items", "coverage_reports"}
      PROVE  Fact("row", k, NONE) \in view
  BY <1>7, ViewParts DEF Unlimited, RowFacts
<1>8. CoverageRows(facts) \subseteq CoverageRows(view)
  BY <1>7 DEF CoverageRows, RowsIn, RowsOf
<1>9. ASSUME NEW f \in Reportable(facts) \ view
      PROVE  \/ \E k \in EventsOf({f}) : EventIsCutOff(view, k)
             \/ \E e \in Entities : f \in FactsAbout({e}, {f}) /\ EntityIsCutOff(view, e)
             \/ \E k \in CallsOf({f}) : CallIsCutOff(view, k)
  <2>1. f \in facts /\ f \in AllFacts
    BY DEF Reportable, AreFacts
  <2>2. CASE f = Fact("case", NONE, NONE)
    BY <2>1, <2>2, ViewParts DEF Unlimited
  <2>3. ASSUME NEW k \in Keys, f = Fact("row", k, NONE)
        PROVE  \/ \E x \in EventsOf({f}) : EventIsCutOff(view, x)
               \/ \E x \in CallsOf({f}) : CallIsCutOff(view, x)
    <3>1. k \in RowsOf(facts) /\ k \in RowsOf({f}) /\ k \notin RowsOf(view)
      BY <2>1, <2>3 DEF RowsOf
    <3>2. TableOf[k] \in Tables /\ TableOf[k] # "relationships"
      BY <2>3, TablesAssumption DEF Reportable, Fact
    <3>3. TableOf[k] \in {"events", "tool_calls"}
      BY <1>7, <2>3, <3>1, <3>2 DEF Tables
    <3>4. CASE TableOf[k] = "events"
      <4>1. k \in EventsOf(facts) /\ k \in EventsOf({f}) /\ k \notin EventsOf(view)
        BY <3>1, <3>4 DEF EventsOf, RowsIn
      <4> QED
        BY <1>3, <4>1
    <3>5. CASE TableOf[k] = "tool_calls"
      <4>1. k \in CallsOf(facts) /\ k \in CallsOf({f}) /\ k \notin CallsOf(view)
        BY <3>1, <3>5 DEF CallsOf, RowsIn
      <4> QED
        BY <1>5, <4>1
    <3> QED
      BY <3>3, <3>4, <3>5
  <2>4. CASE f[1] \in {"entity", "reference", "field"}
    <3>1. f[2] \in StoredEntities(facts) /\ f[2] \in Entities
      BY <2>1, <2>4 DEF AreFacts, StoredEntities
    <3>2. f \in FactsAbout({f[2]}, {f})
      BY <2>4 DEF FactsAbout
    <3>3. f[2] \notin StoredEntities(view)
      BY <2>1, <2>4, ViewParts DEF FactsAbout
    <3> QED
      BY <1>4, <3>1, <3>2, <3>3
  <2>5. \/ f = Fact("case", NONE, NONE)
        \/ \E k \in Keys : f = Fact("row", k, NONE)
        \/ f[1] \in {"entity", "reference", "field"}
    BY <2>1 DEF AllFacts, Fact
  <2> QED
    BY <2>2, <2>3, <2>4, <2>5
<1> QED
  BY <1>3, <1>6, <1>8, <1>9

\* Every report is up to date: what any caller was told is in it, but for
\* relationships and what one of the three limits cuts off.
THEOREM ReportsAreUpToDate == ReportSpec => []ReportIsUpToDate
<1>1. ReportInv => ReportIsUpToDate
  <2> SUFFICES ASSUME ReportInv, NEW c \in Reported,
                      NEW f \in Reportable(latest[c].told) \ latest[c].facts
               PROVE  LET report == latest[c].facts
                      IN \/ \E k \in EventsOf({f}) : EventIsCutOff(report, k)
                         \/ \E e \in Entities : f \in FactsAbout({e}, {f}) /\ EntityIsCutOff(report, e)
                         \/ \E k \in CallsOf({f}) : CallIsCutOff(report, k)
    BY DEF ReportIsUpToDate
  <2>1. PICK facts \in SUBSET AllFacts : IsReportOf(latest[c], facts)
    BY DEF ReportInv, LatestInv
  <2>2. f \in Reportable(facts) \ latest[c].facts
    BY <2>1 DEF IsReportOf, Reportable
  <2> QED
    BY <2>1, <2>2, ViewIsComplete DEF IsReportOf
<1> QED
  BY <1>1, ReportInvAlways, PTL

\* The worst of some statuses is one of them and not better than any.
LEMMA WorstIsWorst ==
  ASSUME NEW statuses, statuses \subseteq Statuses, NEW s \in statuses
  PROVE  /\ Worst(statuses) \in statuses
         /\ StatusRank[s] <= StatusRank[Worst(statuses)]
<1>1. \A x \in Statuses : StatusRank[x] \in 0..3
  BY DEF Statuses, StatusRank
<1>2. \E x \in statuses : \A t \in statuses : StatusRank[t] <= StatusRank[x]
  <2>1. CASE "missing" \in statuses
    BY <1>1, <2>1 DEF Statuses, StatusRank
  <2>2. CASE "missing" \notin statuses /\ "partial" \in statuses
    BY <1>1, <2>2 DEF Statuses, StatusRank
  <2>3. CASE statuses \subseteq {"complete", "unknown"} /\ "unknown" \in statuses
    BY <1>1, <2>3 DEF Statuses, StatusRank
  <2>4. CASE statuses = {"complete"}
    BY <1>1, <2>4 DEF Statuses, StatusRank
  <2> QED
    BY <2>1, <2>2, <2>3, <2>4 DEF Statuses
<1> QED
  BY <1>2 DEF Worst

\* No report makes coverage look better than a coverage report that had been
\* acknowledged.
THEOREM ReportsShowWorstCoverage == ReportSpec => []ReportShowsWorstCoverage
<1>1. ReportInv => ReportShowsWorstCoverage
  <2> SUFFICES ASSUME ReportInv, NEW c \in Reported, NEW k \in CoverageRows(latest[c].told)
               PROVE  LET shown == CoverageRows(latest[c].facts)
                          d == CoverageOf[k].domain
                      IN /\ d \in CoveredDomains(shown)
                         /\ StatusRank[CoverageOf[k].status] <= StatusRank[DomainStatus(shown, d)]
                         /\ \A s \in CoverageOf[k].sources :
                              StatusRank[s.status] <= StatusRank[SourceStatus(shown, d, s.name)]
    BY DEF ReportShowsWorstCoverage
  <2> DEFINE shown == CoverageRows(latest[c].facts)
             d == CoverageOf[k].domain
  <2>1. PICK facts \in SUBSET AllFacts : IsReportOf(latest[c], facts)
    BY DEF ReportInv, LatestInv
  <2>2. k \in Keys /\ TableOf[k] = "coverage_reports" /\ Fact("row", k, NONE) \in facts
    BY <2>1 DEF IsReportOf, CoverageRows, RowsIn, RowsOf
  <2>5. k \in shown
    BY <2>1, <2>2, ViewIsComplete DEF IsReportOf, CoverageRows, RowsIn, RowsOf
  <2>6. k \in ReportsOn(shown, d)
    BY <2>5 DEF ReportsOn
  <2>7. shown \subseteq DOMAIN CoverageOf
    BY ReportAssumption DEF CoverageRows, RowsIn, RowsOf
  <2>8. StatusRank[CoverageOf[k].status] <= StatusRank[DomainStatus(shown, d)]
    <3>1. {CoverageOf[x].status : x \in ReportsOn(shown, d)} \subseteq Statuses
      BY <2>7, ColumnsAssumption DEF ReportsOn
    <3> QED
      BY <2>6, <3>1, WorstIsWorst DEF DomainStatus
  <2>9. ASSUME NEW s \in CoverageOf[k].sources
        PROVE  StatusRank[s.status] <= StatusRank[SourceStatus(shown, d, s.name)]
    <3>1. s \in SourcesOf(shown, d)
      BY <2>6 DEF SourcesOf
    <3>2. {x.status : x \in {y \in SourcesOf(shown, d) : y.name = s.name}} \subseteq Statuses
      BY <2>7, ColumnsAssumption DEF SourcesOf, ReportsOn
    <3> QED
      BY <3>1, <3>2, WorstIsWorst DEF SourceStatus
  <2> QED
    BY <2>5, <2>8, <2>9 DEF CoveredDomains
<1> QED
  BY <1>1, ReportInvAlways, PTL

-----------------------------------------------------------------------------
(***************************************************************************)
(* Refinement: reports implement CaseReading.  To deliver is its Report;   *)
(* every other step is a step of the ledger or a stutter, and prunes no    *)
(* case that was reported.                                                 *)
(***************************************************************************)
ShownMap == [c \in Cases |-> IF latest[c] = NONE THEN NONE ELSE latest[c].facts]

ReadingMap == <<FactsMap, AckedMap, ShownMap>>

\* The initial states map to initial states of CaseReading.
LEMMA ReadingBegins == ReportInv /\ ReportInit => Reader!ReadingInit
<1> SUFFICES ASSUME ReportInv, ReportInit
             PROVE  Reader!ReadingInit
  OBVIOUS
<1>1. Ledger!Init
  BY RefineInit DEF ReportInv, IInv, ReportInit
<1>2. ShownMap = [c \in Cases |-> NONE]
  BY DEF ReportInit, ShownMap
<1> QED
  BY <1>1, <1>2 DEF Reader!ReadingInit, Reader!Init, Ledger!Init, ShownMap

\* A session that ends without a row changes neither facts nor promises.
LEMMA StoreStepRefines ==
  ASSUME IInv, IInv', NEW p \in Procs, StoreStep(p)
  PROVE  Ledger!Next \/ UNCHANGED <<FactsMap, AckedMap>>
<1>1. CASE Ends(p)
  BY <1>1, EndsOpened, OpenedStutters
<1>2. CASE ~ Ends(p)
  <2>1. [Next]_vars
    BY <1>2 DEF StoreStep, Opens, Upgrades, Next, Step
  <2> QED
    BY <2>1, RefineNext
<1> QED
  BY <1>1, <1>2

\* Delivering a report is the atomic reading of CaseReading.
LEMMA DeliverRefines ==
  ASSUME ReportInv, NEW p \in Procs, Deliver(p)
  PROVE  Reader!ReadingNext
<1> DEFINE c == session[p]
           report == [facts |-> got[p], told |-> UNION {FactsOf(w) : w \in acked[c]}]
<1>1. c \in Cases /\ got[p] \in ViewsOf(FactsMap[c])
  BY DeliverShows DEF ReportInv, FactsMap
<1>2. latest' = [latest EXCEPT ![c] = report]
  BY DEF Deliver
<1>3. report \in [facts : SUBSET AllFacts, told : SUBSET AllFacts]
  <2>1. db[c] \in Database
    BY <1>1 DEF ReportInv, IInv, TypeInv, TypeOK
  <2> QED
    BY <2>1, DeliverShows, FactsAreFacts DEF ReportInv, ReadInv, IsReportOf
<1>4. report # NONE
  BY <1>3, NoReportAssumption
<1>5. ShownMap' = [ShownMap EXCEPT ![c] = got[p]]
  BY <1>1, <1>2, <1>4 DEF ShownMap, ReportInv, LatestInv
<1>6. UNCHANGED <<FactsMap, AckedMap>>
  BY DEF Deliver, FactsMap, AckedMap
<1>7. PICK x \in Cases : x = c
  BY <1>1
<1>8. Reader!Report(x)
  BY <1>1, <1>5, <1>6, <1>7 DEF Reader!Report, FactsMap, AckedMap, ShownMap
<1> QED
  BY <1>8 DEF Reader!ReadingNext

\* Every other step maps to a step of CaseReading or to a stutter.
LEMMA ReadingSteps ==
  ReportInv /\ ReportInv' /\ [ReportNext]_allVars => [Reader!ReadingNext]_ReadingMap
<1> SUFFICES ASSUME ReportInv, ReportInv', [ReportNext]_allVars
             PROVE  Reader!ReadingNext \/ UNCHANGED ReadingMap
  OBVIOUS
<1>1. ASSUME NEW p \in Procs, Deliver(p)
      PROVE  Reader!ReadingNext
  BY <1>1, DeliverRefines
<1>2. ASSUME NEW p \in Procs, ReportAction(p), UNCHANGED latest
      PROVE  Reader!ReadingNext \/ UNCHANGED ReadingMap
  <2>1. UNCHANGED ShownMap
    BY <1>2 DEF ShownMap
  <2>2. StoreStep(p)
    BY <1>2, ReportStoreStep
  <2>3. Ledger!Next \/ UNCHANGED <<FactsMap, AckedMap>>
    BY <2>2, StoreStepRefines DEF ReportInv
  <2>4. Reader!Prune
    <3>1. ASSUME NEW c \in Cases, ShownMap[c] # NONE
          PROVE  FactsMap[c] \subseteq FactsMap'[c]
      <4>1. c \in Reported
        BY <3>1 DEF ShownMap, Reported
      <4> QED
        BY <2>2, <4>1, CurrentGrows DEF ReportInv, LatestInv, FactsMap
    <3> QED
      BY <3>1 DEF Reader!Prune, ShownMap, FactsMap
  <2>5. CASE Ledger!Next
    <3>1. Reader!Next
      BY <2>5 DEF Ledger!Next, Ledger!Store, Ledger!Add, Ledger!Acknowledge, Ledger!Discard,
                  Reader!Next, Reader!Store, Reader!Add, Reader!Acknowledge, Reader!Discard
    <3> QED
      BY <2>1, <2>4, <3>1 DEF Reader!ReadingNext, Reader!Write, ShownMap
  <2> QED
    BY <2>1, <2>3, <2>5 DEF ReadingMap
<1>3. CASE UNCHANGED allVars
  BY <1>3 DEF allVars, vars, reading, ReadingMap, FactsMap, AckedMap, ShownMap
<1>4. \A p \in Procs : ReportAction(p) => Deliver(p) \/ UNCHANGED latest
  BY DEF ReportAction, RequestReport, ReportStep, PrepareReport, Select, Other,
         Abandon, Leave, reading
<1> QED
  BY <1>1, <1>2, <1>3, <1>4 DEF ReportNext, ReportAction

\* Reports implement CaseReading: whatever statements, crashes and other
\* processes stand between its SELECTs, a report shows one instant of its case,
\* and nothing is pruned from a case once it was reported.
THEOREM ReportsImplementReading == ReportSpec => RefinesReading
<1>1. ReportInit => ReportInv /\ Reader!ReadingInit
  BY ReportInvInit, ReadingBegins
<1>2. ReportInv /\ [ReportNext]_allVars => ReportInv'
  BY ReportInvNext
<1>3. ReportInv /\ ReportInv' /\ [ReportNext]_allVars => [Reader!ReadingNext]_ReadingMap
  BY ReadingSteps
<1> QED
  BY <1>1, <1>2, <1>3, PTL
  DEF ReportSpec, RefinesReading, Reader!ReadingSpec, ReadingMap, FactsMap, AckedMap, ShownMap

-----------------------------------------------------------------------------
(***************************************************************************)
(* The total of the impact section.                                        *)
(***************************************************************************)

\* h sums the amounts of every subset of S, in the order of CHOOSE.
IsSum(h, S) ==
  h = [T \in SUBSET S |-> IF T = {} THEN 0
                          ELSE EventOf[CHOOSE x \in T : TRUE].amount
                                 + h[T \ {CHOOSE x \in T : TRUE}]]

\* What IsSum says of a subset.
LEMMA SumUnfolds ==
  ASSUME NEW S, NEW h, IsSum(h, S)
  PROVE  /\ h[{}] = 0
         /\ \A T \in (SUBSET S) \ {{}} : \E c \in T : h[T] = EventOf[c].amount + h[T \ {c}]
<1>1. ASSUME NEW T \in (SUBSET S) \ {{}}
      PROVE  \E c \in T : h[T] = EventOf[c].amount + h[T \ {c}]
  <2>1. (CHOOSE x \in T : TRUE) \in T
    OBVIOUS
  <2>2. h[T] = IF T = {} THEN 0
               ELSE EventOf[CHOOSE x \in T : TRUE].amount + h[T \ {CHOOSE x \in T : TRUE}]
    BY DEF IsSum
  <2> QED
    BY <2>1, <2>2
<1>2. h[{}] = 0
  BY DEF IsSum
<1> QED
  BY <1>1, <1>2

\* MapThenSumSet is such a sum.
LEMMA SumExists ==
  ASSUME NEW S, IsFiniteSet(S), \A k \in S : EventOf[k].amount \in Int
  PROVE  \E h : IsSum(h, S) /\ MapThenSumSet(LAMBDA k : EventOf[k].amount, S) = h[S]
<1> DEFINE pick == [T \in SUBSET S |-> CHOOSE x \in T : TRUE]
           plus == [p \in S \X Int |-> EventOf[p[1]].amount + p[2]]
           Sums(h) == h = [T \in SUBSET S |-> IF T = {} THEN 0
                              ELSE EventOf[CHOOSE x \in T : TRUE].amount
                                     + h[T \ {CHOOSE x \in T : TRUE}]]
           sum == CHOOSE h : Sums(h)
<1>1. \A T \in (SUBSET S) \ {{}} : (CHOOSE x \in T : TRUE) \in T
  OBVIOUS
<1>2. \E g \in [SUBSET S -> Int] : Sums(g)
  <2>1. plus \in [S \X Int -> Int]
    OBVIOUS
  <2>2. \A T \in (SUBSET S) \ {{}} : pick[T] \in T
    BY <1>1
  <2>3. PICK g \in [SUBSET S -> Int] : IsFold(g, S, 0, plus, pick)
    <3>1. 0 \in Int
      OBVIOUS
    <3> HIDE DEF plus, pick
    <3> QED
      BY <2>1, <2>2, <3>1, FoldExists
  <2>4. ASSUME NEW T \in (SUBSET S) \ {{}}
        PROVE  plus[<<pick[T], g[T \ {pick[T]}]>>]
                 = EventOf[CHOOSE x \in T : TRUE].amount + g[T \ {CHOOSE x \in T : TRUE}]
    <3>1. pick[T] = CHOOSE x \in T : TRUE
      OBVIOUS
    <3>2. pick[T] \in S /\ g[T \ {pick[T]}] \in Int
      BY <2>2, <2>3
    <3> QED
      BY <3>1, <3>2
  <2>5. Sums(g)
    <3> HIDE DEF plus, pick
    <3> QED
      BY <2>3, <2>4 DEF IsFold
  <2> QED
    BY <2>5
<1>3. Sums(sum)
  <2> HIDE DEF Sums
  <2> QED
    BY <1>2
<1>4. MapThenSumSet(LAMBDA k : EventOf[k].amount, S) = sum[S]
  BY DEF MapThenSumSet, MapThenFoldSet
<1>5. IsSum(sum, S)
  <2> HIDE DEF sum
  <2> QED
    BY <1>3 DEF IsSum
<1> QED
  BY <1>4, <1>5

\* A sum is an integer, and any element of a set may be added last.
LEMMA SumInAnyOrder ==
  ASSUME NEW S, IsFiniteSet(S), \A k \in S : EventOf[k].amount \in Int,
         NEW h, IsSum(h, S)
  PROVE  /\ \A T \in SUBSET S : h[T] \in Int
         /\ \A T \in SUBSET S : \A x \in T : h[T] = EventOf[x].amount + h[T \ {x}]
<1> DEFINE I == {T \in SUBSET S : h[T] \in Int}
           G == {T \in SUBSET S : \A x \in T : h[T] = EventOf[x].amount + h[T \ {x}]}
<1>1. SUBSET S \subseteq I
  <2>1. {} \in I
    BY SumUnfolds
  <2>2. ASSUME NEW T \in (SUBSET S) \ {{}}, \A x \in T : T \ {x} \in I
        PROVE  T \in I
    <3>1. PICK c \in T : h[T] = EventOf[c].amount + h[T \ {c}]
      BY SumUnfolds
    <3>2. h[T \ {c}] \in Int /\ EventOf[c].amount \in Int
      BY <2>2
    <3> QED
      BY <3>1, <3>2
  <2> HIDE DEF I
  <2> QED
    BY <2>1, <2>2, SubsetInduction
<1>2. SUBSET S \subseteq G
  <2>1. {} \in G
    OBVIOUS
  <2>2. ASSUME NEW T \in (SUBSET S) \ {{}}, \A x \in T : T \ {x} \in G
        PROVE  T \in G
    <3>1. PICK c \in T : h[T] = EventOf[c].amount + h[T \ {c}]
      BY SumUnfolds
    <3>2. ASSUME NEW x \in T, x # c
          PROVE  h[T] = EventOf[x].amount + h[T \ {x}]
      <4>1. x \in T \ {c} /\ c \in T \ {x} /\ (T \ {x}) \ {c} = (T \ {c}) \ {x}
        BY <3>2
      <4>2. h[T \ {c}] = EventOf[x].amount + h[(T \ {c}) \ {x}]
        BY <2>2, <4>1
      <4>3. h[T \ {x}] = EventOf[c].amount + h[(T \ {c}) \ {x}]
        BY <2>2, <4>1
      <4>4. /\ h[(T \ {c}) \ {x}] \in Int
            /\ EventOf[x].amount \in Int /\ EventOf[c].amount \in Int
        BY <1>1
      <4> QED
        BY <3>1, <4>2, <4>3, <4>4
    <3> QED
      BY <3>1, <3>2
  <2> HIDE DEF G
  <2> QED
    BY <2>1, <2>2, SubsetInduction
<1> QED
  BY <1>1, <1>2

\* Two sums agree on what both sum.
LEMMA SumsAgree ==
  ASSUME NEW S, IsFiniteSet(S), \A k \in S : EventOf[k].amount \in Int,
         NEW R \in SUBSET S, NEW h, IsSum(h, S), NEW g, IsSum(g, R)
  PROVE  g[R] = h[R]
<1> DEFINE G == {T \in SUBSET R : g[T] = h[T]}
<1>1. IsFiniteSet(R) /\ \A k \in R : EventOf[k].amount \in Int
  BY FS_Subset
<1>2. {} \in G
  BY SumUnfolds
<1>3. ASSUME NEW T \in (SUBSET R) \ {{}}, \A x \in T : T \ {x} \in G
      PROVE  T \in G
  <2>1. PICK x \in T : TRUE
    OBVIOUS
  <2>2. g[T] = EventOf[x].amount + g[T \ {x}]
    BY <1>1, SumInAnyOrder
  <2>3. h[T] = EventOf[x].amount + h[T \ {x}]
    BY SumInAnyOrder
  <2> QED
    BY <1>3, <2>2, <2>3
<1>4. SUBSET R \subseteq G
  <2> HIDE DEF G
  <2> QED
    BY <1>1, <1>2, <1>3, SubsetInduction
<1> QED
  BY <1>4

\* The total of some transactions is the amount of any one of them and the
\* total of the others.
LEMMA SumSplits ==
  ASSUME NEW S, IsFiniteSet(S), \A k \in S : EventOf[k].amount \in Int, NEW i \in S
  PROVE  /\ MapThenSumSet(LAMBDA k : EventOf[k].amount, S)
              = EventOf[i].amount + MapThenSumSet(LAMBDA k : EventOf[k].amount, S \ {i})
         /\ MapThenSumSet(LAMBDA k : EventOf[k].amount, S \ {i}) \in Int
         /\ S = {i} => MapThenSumSet(LAMBDA k : EventOf[k].amount, S) = EventOf[i].amount
<1> DEFINE R == S \ {i}
<1>1. IsFiniteSet(R) /\ \A k \in R : EventOf[k].amount \in Int
  BY FS_Subset
<1>2. PICK h : IsSum(h, S) /\ MapThenSumSet(LAMBDA k : EventOf[k].amount, S) = h[S]
  BY SumExists
<1>3. PICK g : IsSum(g, R) /\ MapThenSumSet(LAMBDA k : EventOf[k].amount, R) = g[R]
  <2> HIDE DEF R
  <2> QED
    BY <1>1, SumExists
<1>4. g[R] = h[R]
  BY <1>2, <1>3, SumsAgree
<1>5. h[S] = EventOf[i].amount + h[R] /\ h[R] \in Int
  BY <1>2, SumInAnyOrder
<1>6. S = {i} => h[R] = 0
  <2>1. h[{}] = 0
    BY <1>2, SumUnfolds
  <2> QED
    BY <2>1
<1>7. EventOf[i].amount \in Int
  OBVIOUS
<1> QED
  BY <1>2, <1>3, <1>4, <1>5, <1>6, <1>7

\* The impact section accounts for every acknowledged event of the application
\* domain that the timeline's limit does not cut off, whatever the number of
\* events, principals and transactions.
THEOREM ImpactsAreComplete == ReportSpec => []ImpactIsComplete
<1>1. ReportInv => ImpactIsComplete
  <2> SUFFICES ASSUME ReportInv, NEW c \in Reported, NEW k \in EventsOf(latest[c].told),
                      EventOf[k].domain = "app", ~ EventIsCutOff(latest[c].facts, k)
               PROVE  LET timeline == EventsOf(latest[c].facts)
                          entities == StoredEntities(latest[c].facts)
                          principals == AffectedPrincipals(timeline, entities)
                      IN /\ EventOf[k].actor \in principals
                         /\ EventOf[k].targets \subseteq
                              principals \cup AffectedResources(timeline, entities)
                         /\ EventOf[k].action \in Transactions =>
                              /\ k \in TransactionEvents(timeline)
                              /\ EventOf[k].amount # UNSET =>
                                   LET rest == TransactionTotal(timeline \ {k})
                                   IN TransactionTotal(timeline)
                                        = EventOf[k].amount + (IF rest = UNSET THEN 0 ELSE rest)
    BY DEF ImpactIsComplete
  <2> DEFINE timeline == EventsOf(latest[c].facts)
             entities == StoredEntities(latest[c].facts)
  <2>1. PICK facts \in SUBSET AllFacts : IsReportOf(latest[c], facts)
    BY DEF ReportInv, LatestInv
  <2>2. k \in EventsOf(facts)
    BY <2>1 DEF IsReportOf, EventsOf, RowsIn, RowsOf
  <2>3. k \in timeline /\ IsFiniteSet(timeline)
    BY <2>1, <2>2, ViewIsComplete DEF IsReportOf
  <2>5. k \in AppEvents(timeline)
    BY <2>3 DEF AppEvents
  <2>6. EventOf[k].actor \in AffectedPrincipals(timeline, entities)
    BY <2>5 DEF AffectedPrincipals
  <2>7. ASSUME NEW t \in EventOf[k].targets
        PROVE  t \in AffectedPrincipals(timeline, entities) \cup AffectedResources(timeline, entities)
    BY <2>5 DEF AffectedPrincipals, AffectedResources
  <2>8. ASSUME EventOf[k].action \in Transactions
        PROVE  k \in TransactionEvents(timeline)
    BY <2>5, <2>8 DEF TransactionEvents
  <2>9. ASSUME EventOf[k].action \in Transactions, EventOf[k].amount # UNSET
        PROVE  LET rest == TransactionTotal(timeline \ {k})
               IN TransactionTotal(timeline)
                    = EventOf[k].amount + (IF rest = UNSET THEN 0 ELSE rest)
    <3> DEFINE paid == Amounts(timeline)
               sum == MapThenSumSet(LAMBDA x : EventOf[x].amount, paid)
               less == MapThenSumSet(LAMBDA x : EventOf[x].amount, paid \ {k})
    <3>1. k \in paid
      BY <2>8, <2>9 DEF Amounts
    <3>2. paid \subseteq timeline
      BY DEF Amounts, TransactionEvents, AppEvents
    <3>3. IsFiniteSet(paid)
      BY <2>3, <3>2, FS_Subset
    <3>4. \A x \in paid : x \in DOMAIN EventOf /\ EventOf[x].amount # UNSET
      BY <3>2, ReportAssumption DEF Amounts, EventsOf, RowsIn, RowsOf
    <3>5. \A x \in paid : EventOf[x].amount \in Int
      BY <3>4, ColumnsAssumption
    <3>6. /\ sum = EventOf[k].amount + less
          /\ less \in Int
          /\ paid = {k} => sum = EventOf[k].amount
      <4> HIDE DEF paid
      <4> QED
        BY <3>1, <3>3, <3>5, SumSplits
    <3>7. Amounts(timeline \ {k}) = paid \ {k}
      BY DEF Amounts, TransactionEvents, AppEvents
    <3>8. TransactionTotal(timeline) = sum
      BY <3>1 DEF TransactionTotal
    <3>9. TransactionTotal(timeline \ {k}) = IF paid \ {k} = {} THEN UNSET ELSE less
      BY <3>7 DEF TransactionTotal
    <3>10. UNSET \notin Int /\ EventOf[k].amount \in Int
      BY <3>1, <3>5, ColumnsAssumption
    <3>11. paid \ {k} = {} => paid = {k}
      BY <3>1
    <3> HIDE DEF paid, sum, less, timeline
    <3> QED
      BY <3>6, <3>8, <3>9, <3>10, <3>11
  <2> QED
    BY <2>6, <2>7, <2>8, <2>9
<1> QED
  BY <1>1, ReportInvAlways, PTL
=============================================================================

