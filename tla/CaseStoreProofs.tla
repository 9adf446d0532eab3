--------------------------- MODULE CaseStoreProofs ---------------------------
(***************************************************************************)
(* Theorems about the case store, for any number of processes, cases,      *)
(* entities, rows and responses.                                           *)
(***************************************************************************)
EXTENDS CaseStore, TLAPS

USE DEF Verified, Remaining

-----------------------------------------------------------------------------
(* Typing. *)

LEMMA NoFileType == NoFile \in Database
BY NoneAssumption DEF NoFile, Database, Optional, Parts, Versions

LEMMA LegacyFileType ==
  ASSUME NEW v \in 1..2
  PROVE  LegacyFile(v) \in Database
<1>1. (CHOOSE b \in Bodies : TRUE) \in Bodies
  BY NoneAssumption
<1>2. PartsAt(v) \subseteq Parts
  BY DEF PartsAt, Parts
<1>3. 1..v \subseteq Versions
  BY DEF Versions
<1> QED
  BY <1>1, <1>2, <1>3, NoFileType DEF LegacyFile, NoFile, Database, Optional

LEMMA MigratedType ==
  ASSUME NEW d \in Database, NEW i \in 1..LastStatement
  PROVE  Migrated(Migrations[i], d) \in Database
<1>0. i \in {1, 2, 3, 4, 5, 6, 7, 8, 9}
  BY DEF LastStatement
<1>1. CASE i = 1
  BY <1>1 DEF Migrated, Migrations, Database, Optional, Parts, Versions
<1>2. CASE i = 2
  BY <1>2 DEF Migrated, Migrations, Database, Optional, Parts, Versions
<1>3. CASE i = 3
  BY <1>3 DEF Migrated, Migrations, Database, Optional, Parts, Versions
<1>4. CASE i = 4
  BY <1>4 DEF Migrated, Migrations, Database, Optional, Parts, Versions
<1>5. CASE i = 5
  BY <1>5 DEF Migrated, Migrations, Database, Optional, Parts, Versions
<1>6. CASE i = 6
  BY <1>6 DEF Migrated, Migrations, Database, Optional, Parts, Versions
<1>7. CASE i = 7
  BY <1>7 DEF Migrated, Migrations, Database, Optional, Parts, Versions
<1>8. CASE i = 8
  BY <1>8 DEF Migrated, Migrations, Database, Optional, Parts, Versions
<1>9. CASE i = 9
  BY <1>9 DEF Migrated, Migrations, Database, Optional, Parts, Versions
<1> QED
  BY <1>0, <1>1, <1>2, <1>3, <1>4, <1>5, <1>6, <1>7, <1>8, <1>9

LEMMA UpsertEntityType ==
  ASSUME NEW old \in Optional(EntityRow), NEW new \in EntityRow
  PROVE  UpsertEntity(old, new) \in EntityRow
<1>1. CASE old = NONE
  BY <1>1 DEF UpsertEntity
<1>2. CASE old # NONE
  <2>1. old \in EntityRow
    BY <1>2 DEF Optional
  <2>2. MergeRefs(old.refs, new.refs) \in SUBSET Refs
    BY <2>1 DEF MergeRefs, EntityRow
  <2>3. Coalesce(old.opts, new.opts) \in [Opts -> Optional(Vals)]
    BY <2>1 DEF Coalesce, EntityRow
  <2> QED
    BY <1>2, <2>1, <2>2, <2>3 DEF UpsertEntity, EntityRow
<1> QED
  BY <1>1, <1>2

LEMMA WrittenType ==
  ASSUME NEW d \in Database, NEW w \in Writes
  PROVE  Written(w, d) \in Database
<1>1. CASE w \in EntityWrites
  <2>1. w.sec = "entities" /\ w.id \in Entities /\ w.row \in EntityRow
    BY <1>1 DEF EntityWrites
  <2>2. UpsertEntity(d.entities[w.id], w.row) \in EntityRow
    BY <2>1, UpsertEntityType DEF Database
  <2> QED
    BY <2>1, <2>2 DEF Written, Tables, Database, Optional
<1>2. CASE w \in RecordWrites
  <2>1. w.sec \in Tables /\ w.id \in Keys /\ w.body \in Bodies
    BY <1>2 DEF RecordWrites
  <2>2. UpsertRecord(d.records, w) \in [Keys -> Optional(Bodies)]
    BY <2>1 DEF UpsertRecord, Database, Optional
  <2> QED
    BY <2>1, <2>2 DEF Written, Tables, Database
<1>3. CASE w \in MetadataWrites
  <2>1. w.sec = "case_metadata" /\ w.body \in Bodies
    BY <1>3 DEF MetadataWrites
  <2>2. SetMetadata(d, w.body) \in Optional(Bodies)
    BY <2>1 DEF SetMetadata, Database, Optional
  <2> QED
    BY <2>1, <2>2 DEF Written, Tables, Database, Optional
<1>4. CASE w = CaseWrite
  BY <1>4 DEF CaseWrite, Written, Tables, Database
<1> QED
  BY <1>1, <1>2, <1>3, <1>4 DEF Writes

LEMMA FirstStatementType ==
  ASSUME NEW d \in Database
  PROVE  FirstStatement(CurrentVersion(d)) \in 1..(LastStatement + 1)
<1>1. CurrentVersion(d) \in 0..3
  <2>1. CASE "schema_migrations" \notin d.parts \/ d.log = {}
    BY <2>1 DEF CurrentVersion
  <2>2. CASE ~("schema_migrations" \notin d.parts \/ d.log = {})
    <3>1. \E v \in d.log : \A u \in d.log : u <= v
      BY <2>2 DEF Database, Versions
    <3> QED
      BY <2>2, <3>1 DEF CurrentVersion, Database, Versions
  <2> QED
    BY <2>1, <2>2
<1> QED
  BY <1>1 DEF FirstStatement, LastStatement

LEMMA ResponseRows ==
  ASSUME NEW r \in Responses
  PROVE  r.rows \in SUBSET Writes /\ r.bad \in Optional(Sections)
BY ResponsesAssumption DEF ResponseType, Writes

\* A process has a file open exactly while it handles a request.
SessionOpen == \A p \in Procs : session[p] # NONE <=> pc[p] # "idle"
TypeInv == TypeOK /\ SessionOpen

LEMMA InitType == Init => TypeInv
BY NoFileType, LegacyFileType
DEF Init, TypeInv, TypeOK, SessionOpen, Optional, LastStatement, Replies

LEMMA OpenSession ==
  ASSUME TypeInv, NEW p \in Procs, pc[p] # "idle"
  PROVE  session[p] \in Cases /\ db[session[p]] \in Database
BY DEF TypeInv, TypeOK, SessionOpen, Optional

LEMMA ConnectType ==
  ASSUME TypeInv, NEW p \in Procs, NEW c \in Cases,
         NEW rows \in SUBSET Writes, NEW b \in Optional(Sections),
         Connect(p, c, rows, b)
  PROVE  TypeInv'
<1>0. db[c] \in Database
  BY DEF TypeInv, TypeOK, SessionOpen
<1>1. [db[c] EXCEPT !.exists = TRUE] \in Database
  BY <1>0 DEF Database
<1>2. db' \in [Cases -> Database]
  BY <1>1 DEF TypeInv, TypeOK, SessionOpen, Connect
<1>3. FirstStatement(CurrentVersion(db[c])) \in 1..(LastStatement + 1)
  BY FirstStatementType DEF TypeInv, TypeOK, SessionOpen
<1>4. at' \in [Procs -> 1..(LastStatement + 1)]
  BY <1>3 DEF TypeInv, TypeOK, SessionOpen, Connect, LastStatement
<1> QED
  BY <1>2, <1>4, NoneAssumption
  DEF TypeInv, TypeOK, SessionOpen, Connect, Reply, Replies, Optional

LEMMA RequestType ==
  ASSUME TypeInv, NEW p \in Procs, NEW c \in Cases,
         NEW rows \in SUBSET Writes, NEW b \in Optional(Sections),
         Request(p, c, rows, b)
  PROVE  TypeInv'
<1>1. CASE Refuse(p, "case_not_found") \/ Refuse(p, "locked")
  BY <1>1 DEF TypeInv, TypeOK, SessionOpen, Refuse, Reply, Replies
<1>2. CASE Connect(p, c, rows, b)
  BY <1>2, ConnectType
<1> QED
  BY <1>1, <1>2 DEF Request

LEMMA NextType == TypeInv /\ [Next]_vars => TypeInv'
<1> SUFFICES ASSUME TypeInv, [Next]_vars
             PROVE  TypeInv'
  OBVIOUS
<1>1. ASSUME NEW p \in Procs, NEW c \in Cases, CreateCase(p, c)
      PROVE  TypeInv'
  BY <1>1, ConnectType DEF CreateCase, Writes, Optional
<1>2. ASSUME NEW p \in Procs, NEW c \in Cases, IngestRecords(p, c)
      PROVE  TypeInv'
  BY <1>2, RequestType, ResponseRows DEF IngestRecords
<1>3. ASSUME NEW p \in Procs, NEW c \in Cases, RecordToolCall(p, c)
      PROVE  TypeInv'
  <2>1. PICK k \in Keys, b \in Bodies :
           /\ FreshCall(k)
           /\ Request(p, c, {[sec |-> "tool_calls", id |-> k, body |-> b]}, NONE)
    BY <1>3 DEF RecordToolCall
  <2>2. [sec |-> "tool_calls", id |-> k, body |-> b] \in Writes
    BY <2>1 DEF FreshCall, Writes, RecordWrites, Tables
  <2> QED
    BY <2>1, <2>2, RequestType DEF Optional
<1>4. ASSUME NEW p \in Procs, NEW c \in Cases, Query(p, c)
      PROVE  TypeInv'
  BY <1>4, RequestType DEF Query, Optional
<1>5. ASSUME NEW p \in Procs, Migrate(p)
      PROVE  TypeInv'
  <2>1. at[p] \in 1..LastStatement
    BY <1>5 DEF Migrate, TypeInv, TypeOK, SessionOpen, LastStatement
  <2>2. session[p] \in Cases /\ db[session[p]] \in Database
    BY <1>5, OpenSession DEF Migrate
  <2>3. Migrated(Migrations[at[p]], db[session[p]]) \in Database
    BY <2>1, <2>2, MigratedType
  <2> QED
    BY <1>5, <2>1, <2>2, <2>3
    DEF Migrate, TypeInv, TypeOK, SessionOpen, Close, Reply, Replies, LastStatement, Optional
<1>6. ASSUME NEW p \in Procs, SchemaReady(p)
      PROVE  TypeInv'
  BY <1>6, OpenSession DEF SchemaReady, TypeInv, TypeOK, SessionOpen, Optional
<1>7. ASSUME NEW p \in Procs, WriteRow(p)
      PROVE  TypeInv'
  <2>1. PICK w \in pending[p] :
           /\ db' = [db EXCEPT ![session[p]] = Written(w, @)]
           /\ pending' = [pending EXCEPT ![p] = @ \ {w}]
    BY <1>7 DEF WriteRow
  <2>2. w \in Writes
    BY <2>1 DEF TypeInv, TypeOK, SessionOpen
  <2>3. db' \in [Cases -> Database]
    BY <2>1, <2>2, WrittenType DEF TypeInv, TypeOK, SessionOpen
  <2> QED
    BY <1>7, <2>1, <2>3 DEF WriteRow, TypeInv, TypeOK, SessionOpen
<1>8. ASSUME NEW p \in Procs, RejectSection(p)
      PROVE  TypeInv'
  BY <1>8 DEF RejectSection, TypeInv, TypeOK, SessionOpen, Close, Reply, Replies, Optional
<1>9. ASSUME NEW p \in Procs, Finish(p)
      PROVE  TypeInv'
  BY <1>9 DEF Finish, TypeInv, TypeOK, SessionOpen, Close, Reply, Replies, Optional
<1>10. ASSUME NEW p \in Procs, Restart(p)
      PROVE  TypeInv'
  BY <1>10 DEF Restart, TypeInv, TypeOK, SessionOpen, Reply, Replies, Optional, LastStatement
<1>11. CASE UNCHANGED vars
  BY <1>11 DEF vars, local, TypeInv, TypeOK, SessionOpen
<1> QED
  BY <1>1, <1>2, <1>3, <1>4, <1>5, <1>6, <1>7, <1>8, <1>9, <1>10, <1>11
  DEF Next, Step

\* Every variable of the case store keeps its type.
THEOREM TypeCorrect == Spec => []TypeOK
<1>1. Init => TypeInv
  BY InitType
<1>2. TypeInv /\ [Next]_vars => TypeInv'
  BY NextType
<1>3. TypeInv => TypeOK
  BY DEF TypeInv
<1> QED
  BY <1>1, <1>2, <1>3, PTL DEF Spec

-----------------------------------------------------------------------------
(***************************************************************************)
(* The schema.  AtStatement(i, d) describes the database just before       *)
(* migration statement i, the states left by earlier crashes included;     *)
(* Resting(d) describes it whoever is looking.                             *)
(***************************************************************************)
Between == {"schema_migrations", "tables"}

AtStatement(i, d) ==
  /\ i \in 1..4 => d.log = {} /\ d.parts \subseteq PartsAt(1)
  /\ i = 2 => "schema_migrations" \in d.parts
  /\ i = 3 => Between \subseteq d.parts
  /\ i = 4 => d.parts = PartsAt(1)
  /\ i \in 5..7 => d.log = {1}
  /\ i = 5 => d.parts \in {PartsAt(1), Between, PartsAt(2)}
  /\ i = 6 => d.parts = Between
  /\ i = 7 => d.parts = PartsAt(2)
  /\ i \in 8..9 => d.log = {1, 2}
  /\ i = 8 => d.parts \in {PartsAt(2), PartsAt(3)}
  /\ i = 9 => d.parts = PartsAt(3)
  /\ i = 10 => d.log = Versions /\ d.parts = PartsAt(3)

Resting(d) ==
  \/ d.log = {} /\ d.parts \subseteq PartsAt(1)
  \/ d.log = {1} /\ d.parts \in {PartsAt(1), Between, PartsAt(2)}
  \/ d.log = {1, 2} /\ d.parts \in {PartsAt(2), PartsAt(3)}
  \/ d.log = Versions /\ d.parts = PartsAt(3)

SchemaInv ==
  /\ \A p, q \in Procs : session[p] # NONE /\ session[q] = session[p] => p = q
  /\ \A c \in Cases : Resting(db[c])
  /\ \A p \in Procs : pc[p] = "migrate" =>
       db[session[p]].exists /\ AtStatement(at[p], db[session[p]])
  /\ \A p \in Procs : \A c \in verified[p] : SchemaCurrent(db[c])
  /\ \A p \in Procs : pc[p] = "work" => SchemaCurrent(db[session[p]])

LEMMA MigrationStep ==
  ASSUME NEW d \in Database, NEW i \in 1..LastStatement,
         AtStatement(i, d), ~StatementFails(Migrations[i], d)
  PROVE  AtStatement(i + 1, Migrated(Migrations[i], d))
<1>0. i \in {1, 2, 3, 4, 5, 6, 7, 8, 9}
  BY DEF LastStatement
<1>1. CASE i = 1
  BY <1>1 DEF AtStatement, Migrations, Migrated, StatementFails, PartsAt, Between,
             Versions, Database, Parts
<1>2. CASE i = 2
  BY <1>2 DEF AtStatement, Migrations, Migrated, StatementFails, PartsAt, Between,
             Versions, Database, Parts
<1>3. CASE i = 3
  BY <1>3 DEF AtStatement, Migrations, Migrated, StatementFails, PartsAt, Between,
             Versions, Database, Parts
<1>4. CASE i = 4
  BY <1>4 DEF AtStatement, Migrations, Migrated, StatementFails, PartsAt, Between,
             Versions, Database, Parts
<1>5. CASE i = 5
  BY <1>5 DEF AtStatement, Migrations, Migrated, StatementFails, PartsAt, Between,
             Versions, Database, Parts
<1>6. CASE i = 6
  BY <1>6 DEF AtStatement, Migrations, Migrated, StatementFails, PartsAt, Between,
             Versions, Database, Parts
<1>7. CASE i = 7
  BY <1>7 DEF AtStatement, Migrations, Migrated, StatementFails, PartsAt, Between,
             Versions, Database, Parts
<1>8. CASE i = 8
  BY <1>8 DEF AtStatement, Migrations, Migrated, StatementFails, PartsAt, Between,
             Versions, Database, Parts
<1>9. CASE i = 9
  BY <1>9 DEF AtStatement, Migrations, Migrated, StatementFails, PartsAt, Between,
             Versions, Database, Parts
<1> QED
  BY <1>0, <1>1, <1>2, <1>3, <1>4, <1>5, <1>6, <1>7, <1>8, <1>9

LEMMA AtIsResting ==
  ASSUME NEW d \in Database, NEW i \in 1..(LastStatement + 1), AtStatement(i, d)
  PROVE  Resting(d)
BY DEF AtStatement, Resting, LastStatement

LEMMA RestartPoint ==
  ASSUME NEW d \in Database, Resting(d)
  PROVE  AtStatement(FirstStatement(CurrentVersion(d)), d)
<1>1. CASE d.log = {}
  <2>1. CurrentVersion(d) = 0
    BY <1>1 DEF CurrentVersion
  <2> QED
    BY <1>1, <2>1 DEF Resting, AtStatement, FirstStatement, Versions
<1>2. CASE d.log = {1}
  <2>1. "schema_migrations" \in d.parts
    BY <1>2 DEF Resting, PartsAt, Between, Versions
  <2>2. CurrentVersion(d) = 1
    BY <1>2, <2>1 DEF CurrentVersion
  <2> QED
    BY <1>2, <2>2 DEF Resting, AtStatement, FirstStatement, Versions
<1>3. CASE d.log = {1, 2}
  <2>1. "schema_migrations" \in d.parts
    BY <1>3 DEF Resting, PartsAt, Versions
  <2>2. CurrentVersion(d) = 2
    BY <1>3, <2>1 DEF CurrentVersion
  <2> QED
    BY <1>3, <2>2 DEF Resting, AtStatement, FirstStatement, Versions
<1>4. CASE d.log = Versions
  <2>1. "schema_migrations" \in d.parts
    BY <1>4 DEF Resting, PartsAt, Versions
  <2>2. CurrentVersion(d) = 3
    BY <1>4, <2>1 DEF CurrentVersion, Versions
  <2> QED
    BY <1>4, <2>2 DEF Resting, AtStatement, FirstStatement, Versions, LastStatement
<1> QED
  BY <1>1, <1>2, <1>3, <1>4 DEF Resting

\* A row write touches no part of the schema.
LEMMA WrittenSchema ==
  ASSUME NEW d \in Database, NEW w \in Writes
  PROVE  /\ Written(w, d).exists = d.exists
         /\ Written(w, d).parts = d.parts
         /\ Written(w, d).log = d.log
BY DEF Written, Writes, EntityWrites, RecordWrites, MetadataWrites, CaseWrite,
       Tables, Database

\* d and e have the same schema, and d's file exists only if e's does.
SameSchema(d, e) == (d.exists => e.exists) /\ e.parts = d.parts /\ e.log = d.log

LEMMA SchemaTransfer ==
  ASSUME NEW d, NEW e, SameSchema(d, e)
  PROVE  /\ Resting(d) => Resting(e)
         /\ SchemaCurrent(d) => SchemaCurrent(e)
         /\ \A i : AtStatement(i, d) => AtStatement(i, e)
BY DEF SameSchema, Resting, SchemaCurrent, AtStatement

LEMMA ConnectSchema ==
  ASSUME TypeInv, SchemaInv, NEW p \in Procs, NEW c \in Cases,
         NEW rows \in SUBSET Writes, NEW b \in Optional(Sections),
         pc[p] = "idle", Connect(p, c, rows, b)
  PROVE  SchemaInv'
<1>1. \A x \in Cases : SameSchema(db[x], db'[x]) /\ db'[c].exists
  BY DEF Connect, SameSchema, TypeInv, TypeOK, Database
<1>2. \A x \in Cases : Resting(db'[x])
  BY <1>1, SchemaTransfer DEF SchemaInv
<1>3. \A q \in Procs : \A x \in verified'[q] : SchemaCurrent(db'[x])
  BY <1>1, SchemaTransfer DEF SchemaInv, Connect, TypeInv, TypeOK
<1>4. ASSUME NEW q \in Procs, NEW r \in Procs,
             session'[q] # NONE, session'[r] = session'[q]
      PROVE  q = r
  BY <1>4 DEF Connect, Locked, SchemaInv, TypeInv, TypeOK
<1>5. ASSUME NEW q \in Procs, pc'[q] = "migrate"
      PROVE  db'[session'[q]].exists /\ AtStatement(at'[q], db'[session'[q]])
  <2>1. CASE q = p
    <3>1. /\ session'[p] = c
          /\ at'[p] = FirstStatement(CurrentVersion(db[c]))
      BY <1>5, <2>1 DEF Connect, TypeInv, TypeOK
    <3>2. AtStatement(FirstStatement(CurrentVersion(db[c])), db[c])
      BY RestartPoint DEF SchemaInv, TypeInv, TypeOK
    <3> QED
      BY <1>1, <2>1, <3>1, <3>2, SchemaTransfer
  <2>2. CASE q # p
    <3>1. /\ pc[q] = "migrate" /\ session'[q] = session[q] /\ at'[q] = at[q]
      BY <1>5, <2>2 DEF Connect, TypeInv, TypeOK
    <3>2. session[q] \in Cases
      BY <3>1, OpenSession
    <3>3. db[session[q]].exists /\ AtStatement(at[q], db[session[q]])
      BY <3>1 DEF SchemaInv
    <3> QED
      BY <1>1, <3>1, <3>2, <3>3, SchemaTransfer DEF SameSchema
  <2> QED
    BY <2>1, <2>2
<1>6. ASSUME NEW q \in Procs, pc'[q] = "work"
      PROVE  SchemaCurrent(db'[session'[q]])
  <2>1. CASE q = p
    <3>1. session'[p] = c /\ c \in verified[p]
      BY <1>6, <2>1 DEF Connect, TypeInv, TypeOK
    <3> QED
      BY <1>1, <2>1, <3>1, SchemaTransfer DEF SchemaInv
  <2>2. CASE q # p
    <3>1. pc[q] = "work" /\ session'[q] = session[q]
      BY <1>6, <2>2 DEF Connect, TypeInv, TypeOK
    <3> QED
      BY <1>1, <3>1, OpenSession, SchemaTransfer DEF SchemaInv
  <2> QED
    BY <2>1, <2>2
<1> QED
  BY <1>2, <1>3, <1>4, <1>5, <1>6 DEF SchemaInv

\* A refused request changes nothing but the reply.
LEMMA RequestSchema ==
  ASSUME TypeInv, SchemaInv, NEW p \in Procs, NEW c \in Cases,
         NEW rows \in SUBSET Writes, NEW b \in Optional(Sections),
         Request(p, c, rows, b)
  PROVE  SchemaInv'
<1>1. CASE Refuse(p, "case_not_found") \/ Refuse(p, "locked")
  BY <1>1 DEF Refuse, SchemaInv
<1>2. CASE Connect(p, c, rows, b)
  BY <1>2, ConnectSchema DEF Request
<1> QED
  BY <1>1, <1>2 DEF Request

\* Closing a session, or losing it, leaves the databases alone.
LEMMA CloseSchema ==
  ASSUME TypeInv, SchemaInv, NEW p \in Procs,
         session' = [session EXCEPT ![p] = NONE],
         pc' = [pc EXCEPT ![p] = "idle"],
         \A q \in Procs \ {p} : at'[q] = at[q],
         \A q \in Procs : verified'[q] \subseteq verified[q],
         UNCHANGED db
  PROVE  SchemaInv'
BY DEF SchemaInv, TypeInv, TypeOK

LEMMA MigrateSchema ==
  ASSUME TypeInv, SchemaInv, NEW p \in Procs, Migrate(p)
  PROVE  SchemaInv'
<1> DEFINE c == session[p]
           s == Migrations[at[p]]
<1>1. at[p] \in 1..LastStatement /\ pc[p] = "migrate"
  BY DEF Migrate, TypeInv, TypeOK, LastStatement
<1>2. c \in Cases /\ db[c] \in Database
  BY <1>1, OpenSession
<1>3. db[c].exists /\ AtStatement(at[p], db[c])
  BY <1>1 DEF SchemaInv
<1>4. CASE StatementFails(s, db[c])
  BY <1>1, <1>4, CloseSchema DEF Migrate, Close
<1>5. CASE ~StatementFails(s, db[c])
  <2>1. /\ db' = [db EXCEPT ![c] = Migrated(s, db[c])]
        /\ at' = [at EXCEPT ![p] = @ + 1]
        /\ UNCHANGED <<session, pc, verified>>
    BY <1>5 DEF Migrate
  <2>2. /\ Migrated(s, db[c]) \in Database
        /\ AtStatement(at[p] + 1, Migrated(s, db[c]))
    BY <1>1, <1>2, <1>3, <1>5, MigratedType, MigrationStep
  <2>3. Migrated(s, db[c]).exists
    <3>1. s.op \in {"create_if_absent", "create", "drop", "log"}
      BY <1>1 DEF Migrations, LastStatement
    <3> QED
      BY <1>2, <1>3, <3>1 DEF Migrated, Database
  <2>4. Resting(Migrated(s, db[c]))
    BY <1>1, <2>2, AtIsResting DEF LastStatement
  <2>5. ~SchemaCurrent(db[c])
    BY <1>1, <1>3 DEF AtStatement, SchemaCurrent, LastStatement, Versions, PartsAt
  <2>6. \A q \in Procs : c \notin verified[q]
    BY <2>5 DEF SchemaInv
  <2>7. \A q \in Procs \ {p} : session[q] # c
    BY <1>2, NoneAssumption DEF SchemaInv
  <2>8. \A x \in Cases \ {c} : db'[x] = db[x]
    BY <2>1 DEF TypeInv, TypeOK
  <2>9. db'[c] = Migrated(s, db[c])
    BY <1>2, <2>1 DEF TypeInv, TypeOK
  <2>10. \A x \in Cases : Resting(db'[x])
    BY <2>4, <2>8, <2>9 DEF SchemaInv
  <2>11. \A q \in Procs : \A x \in verified'[q] : SchemaCurrent(db'[x])
    BY <2>1, <2>6, <2>8 DEF SchemaInv, TypeInv, TypeOK
  <2>12. ASSUME NEW q \in Procs, pc'[q] = "migrate"
         PROVE  db'[session'[q]].exists /\ AtStatement(at'[q], db'[session'[q]])
    <3>1. CASE q = p
      BY <2>1, <2>2, <2>3, <2>9, <3>1 DEF TypeInv, TypeOK
    <3>2. CASE q # p
      BY <2>1, <2>7, <2>8, <2>12, <3>2, OpenSession DEF SchemaInv, TypeInv, TypeOK
    <3> QED
      BY <3>1, <3>2
  <2>13. ASSUME NEW q \in Procs, pc'[q] = "work"
         PROVE  SchemaCurrent(db'[session'[q]])
    BY <1>1, <2>1, <2>7, <2>8, <2>13, OpenSession DEF SchemaInv
  <2> QED
    BY <2>1, <2>10, <2>11, <2>12, <2>13 DEF SchemaInv
<1> QED
  BY <1>4, <1>5

LEMMA WriteRowSchema ==
  ASSUME TypeInv, SchemaInv, NEW p \in Procs, WriteRow(p)
  PROVE  SchemaInv'
<1>1. PICK w \in pending[p] : db' = [db EXCEPT ![session[p]] = Written(w, @)]
  BY DEF WriteRow
<1>2. w \in Writes /\ session[p] \in Cases /\ db[session[p]] \in Database
  BY OpenSession DEF WriteRow, TypeInv, TypeOK
<1>3. \A x \in Cases : SameSchema(db[x], db'[x])
  BY <1>1, <1>2, WrittenSchema DEF SameSchema, TypeInv, TypeOK
<1>4. UNCHANGED <<session, pc, at, verified>>
  BY DEF WriteRow
<1>5. \A q \in Procs : pc[q] # "idle" => session[q] \in Cases
  BY OpenSession
<1>6. \A q \in Procs : verified[q] \subseteq Cases
  BY DEF TypeInv, TypeOK
<1> QED
  BY <1>3, <1>4, <1>5, <1>6, SchemaTransfer DEF SchemaInv, SameSchema

LEMMA SchemaNext == TypeInv /\ SchemaInv /\ [Next]_vars => SchemaInv'
<1> SUFFICES ASSUME TypeInv, SchemaInv, [Next]_vars
             PROVE  SchemaInv'
  OBVIOUS
<1>1. ASSUME NEW p \in Procs, NEW c \in Cases, CreateCase(p, c)
      PROVE  SchemaInv'
  BY <1>1, ConnectSchema DEF CreateCase, Writes, Optional
<1>2. ASSUME NEW p \in Procs, NEW c \in Cases, IngestRecords(p, c)
      PROVE  SchemaInv'
  BY <1>2, RequestSchema, ResponseRows DEF IngestRecords
<1>3. ASSUME NEW p \in Procs, NEW c \in Cases, RecordToolCall(p, c)
      PROVE  SchemaInv'
  <2>1. PICK k \in Keys, b \in Bodies :
           /\ FreshCall(k)
           /\ Request(p, c, {[sec |-> "tool_calls", id |-> k, body |-> b]}, NONE)
    BY <1>3 DEF RecordToolCall
  <2>2. [sec |-> "tool_calls", id |-> k, body |-> b] \in Writes
    BY <2>1 DEF FreshCall, Writes, RecordWrites, Tables
  <2> QED
    BY <2>1, <2>2, RequestSchema DEF Optional
<1>4. ASSUME NEW p \in Procs, NEW c \in Cases, Query(p, c)
      PROVE  SchemaInv'
  BY <1>4, RequestSchema DEF Query, Optional
<1>5. ASSUME NEW p \in Procs, Migrate(p)
      PROVE  SchemaInv'
  BY <1>5, MigrateSchema
<1>6. ASSUME NEW p \in Procs, SchemaReady(p)
      PROVE  SchemaInv'
  <2>1. pc[p] = "migrate" /\ at[p] = 10
    BY <1>6 DEF SchemaReady, TypeInv, TypeOK, LastStatement
  <2>2. SchemaCurrent(db[session[p]])
    BY <2>1 DEF SchemaInv, AtStatement, SchemaCurrent
  <2> QED
    BY <1>6, <2>1, <2>2 DEF SchemaReady, SchemaInv, TypeInv, TypeOK
<1>7. ASSUME NEW p \in Procs, WriteRow(p)
      PROVE  SchemaInv'
  BY <1>7, WriteRowSchema
<1>8. ASSUME NEW p \in Procs, RejectSection(p) \/ Finish(p) \/ Restart(p)
      PROVE  SchemaInv'
  BY <1>8, CloseSchema DEF RejectSection, Finish, Restart, Close, TypeInv, TypeOK
<1>9. CASE UNCHANGED vars
  BY <1>9 DEF vars, local, SchemaInv
<1> QED
  BY <1>1, <1>2, <1>3, <1>4, <1>5, <1>6, <1>7, <1>8, <1>9 DEF Next, Step

LEMMA SchemaInit == Init => SchemaInv
<1> SUFFICES ASSUME Init
             PROVE  SchemaInv
  OBVIOUS
<1>1. Resting(NoFile)
  BY DEF NoFile, Resting
<1>2. ASSUME NEW v \in 1..2
      PROVE  Resting(LegacyFile(v))
  <2>1. LegacyFile(v).log = 1..v /\ LegacyFile(v).parts = PartsAt(v)
    BY DEF LegacyFile, NoFile
  <2>2. 1..1 = {1} /\ 1..2 = {1, 2}
    OBVIOUS
  <2> QED
    BY <2>1, <2>2 DEF Resting
<1>3. \A c \in Cases : Resting(db[c])
  BY <1>1, <1>2 DEF Init
<1> QED
  BY <1>3 DEF Init, SchemaInv

LEMMA SchemaAlways == Spec => [](TypeInv /\ SchemaInv)
<1>1. Init => TypeInv /\ SchemaInv
  BY InitType, SchemaInit
<1>2. (TypeInv /\ SchemaInv) /\ [Next]_vars => (TypeInv /\ SchemaInv)'
  BY NextType, SchemaNext
<1> QED
  BY <1>1, <1>2, PTL DEF Spec

\* A handler only ever runs on the newest schema, although open_case_db trusts
\* its per-process cache of verified paths.
THEOREM HandlersSeeCurrentSchema == Spec => []WorkOnCurrentSchema
<1>1. TypeInv /\ SchemaInv => WorkOnCurrentSchema
  BY DEF SchemaInv, WorkOnCurrentSchema
<1> QED
  BY <1>1, SchemaAlways, PTL

\* A version in schema_migrations means that its script is in.
THEOREM VersionsAreApplied == Spec => []LoggedIsApplied
<1>1. ASSUME SchemaInv, NEW c \in Cases
      PROVE  LET d == db[c]
             IN /\ 1 \in d.log => {"schema_migrations", "tables"} \subseteq d.parts
                /\ 2 \in d.log => 1 \in d.log /\ "hypotheses_v2" \in d.parts
                /\ 3 \in d.log => 2 \in d.log /\ "column" \in d.parts
  BY <1>1 DEF SchemaInv, Resting, PartsAt, Between, Versions
<1>2. TypeInv /\ SchemaInv => LoggedIsApplied
  BY <1>1 DEF LoggedIsApplied
<1> QED
  BY <1>2, SchemaAlways, PTL

-----------------------------------------------------------------------------
(***************************************************************************)
(* Facts: a row write adds its own and forgets none.                       *)
(***************************************************************************)
LEMMA MergeKeepsFacts ==
  ASSUME NEW e, NEW old \in Optional(EntityRow), NEW new \in EntityRow
  PROVE  /\ EntityFacts(e, new) \subseteq EntityFacts(e, UpsertEntity(old, new))
         /\ old # NONE =>
              EntityFacts(e, old) \subseteq EntityFacts(e, UpsertEntity(old, new))
<1>1. CASE old = NONE
  BY <1>1 DEF UpsertEntity
<1>2. CASE old # NONE
  <2> DEFINE row == UpsertEntity(old, new)
  <2>1. old \in EntityRow
    BY <1>2 DEF Optional
  <2>2. /\ row.refs = old.refs \cup new.refs
        /\ row.opts = Coalesce(old.opts, new.opts)
    BY <1>2 DEF UpsertEntity, MergeRefs
  <2>3. \A o \in Opts : old.opts[o] # NONE \/ new.opts[o] # NONE => row.opts[o] # NONE
    BY <2>1, <2>2 DEF Coalesce, EntityRow
  <2> QED
    BY <2>2, <2>3 DEF EntityFacts
<1> QED
  BY <1>1, <1>2

LEMMA WriteKeepsFacts ==
  ASSUME NEW d \in Database, NEW w \in Writes
  PROVE  /\ FactsIn(d) \subseteq FactsIn(Written(w, d))
         /\ FactsOf(w) \subseteq FactsIn(Written(w, d))
<1>1. CASE w \in EntityWrites
  <2>1. w.sec = "entities" /\ w.id \in Entities /\ w.row \in EntityRow
    BY <1>1 DEF EntityWrites
  <2> DEFINE old == d.entities[w.id]
             new == UpsertEntity(old, w.row)
             d2 == Written(w, d)
  <2>2. old \in Optional(EntityRow) /\ new \in EntityRow
    BY <2>1, UpsertEntityType DEF Database
  <2>3. /\ d2.entities = [d.entities EXCEPT ![w.id] = new]
        /\ d2.caseRow = d.caseRow
        /\ d2.records = d.records
    BY <2>1 DEF Written, Tables, Database
  <2>4. new # NONE
    BY <2>2, NoneAssumption
  <2>5. \A x \in Entities : d.entities[x] # NONE =>
          /\ d2.entities[x] # NONE
          /\ EntityFacts(x, d.entities[x]) \subseteq EntityFacts(x, d2.entities[x])
    <3> SUFFICES ASSUME NEW x \in Entities, d.entities[x] # NONE
                 PROVE  /\ d2.entities[x] # NONE
                        /\ EntityFacts(x, d.entities[x]) \subseteq EntityFacts(x, d2.entities[x])
      OBVIOUS
    <3>1. CASE x = w.id
      BY <2>1, <2>2, <2>3, <2>4, <3>1, MergeKeepsFacts DEF Database
    <3>2. CASE x # w.id
      BY <2>3, <3>2 DEF Database
    <3> QED
      BY <3>1, <3>2
  <2>6. EntityFacts(w.id, w.row) \subseteq EntityFacts(w.id, d2.entities[w.id])
    BY <2>1, <2>2, <2>3, MergeKeepsFacts DEF Database
  <2>7. d2.entities[w.id] # NONE
    BY <2>1, <2>3, <2>4 DEF Database
  <2>8. FactsOf(w) = EntityFacts(w.id, w.row)
    BY <2>1 DEF FactsOf, Tables
  <2>9. FactsIn(d) \subseteq FactsIn(d2)
    BY <2>3, <2>5 DEF FactsIn
  <2>10. EntityFacts(w.id, d2.entities[w.id]) \subseteq FactsIn(d2)
    BY <2>1, <2>7 DEF FactsIn
  <2> QED
    BY <2>6, <2>8, <2>9, <2>10
<1>2. CASE w \in RecordWrites
  <2>1. w.sec \in Tables /\ w.id \in Keys /\ w.body \in Bodies
    BY <1>2 DEF RecordWrites
  <2>2. /\ Written(w, d).records = [d.records EXCEPT ![w.id] = w.body]
        /\ Written(w, d).caseRow = d.caseRow
        /\ Written(w, d).entities = d.entities
    BY <2>1 DEF Written, UpsertRecord, Tables, Database
  <2>3. \A k \in Keys : d.records[k] # NONE => Written(w, d).records[k] # NONE
    BY <2>1, <2>2, NoneAssumption DEF Database
  <2>4. Written(w, d).records[w.id] # NONE
    BY <2>1, <2>2, NoneAssumption DEF Database
  <2>5. FactsOf(w) = {Fact("row", w.id, NONE)}
    BY <2>1 DEF FactsOf, Tables
  <2> QED
    BY <2>1, <2>2, <2>3, <2>4, <2>5 DEF FactsIn
<1>3. CASE w \in MetadataWrites
  <2>1. w.sec = "case_metadata"
    BY <1>3 DEF MetadataWrites
  <2>2. /\ Written(w, d).caseRow = d.caseRow
        /\ Written(w, d).records = d.records
        /\ Written(w, d).entities = d.entities
    BY <2>1 DEF Written, Tables, Database
  <2>3. FactsOf(w) = {}
    BY <2>1 DEF FactsOf, Tables
  <2> QED
    BY <2>2, <2>3 DEF FactsIn
<1>4. CASE w = CaseWrite
  <2>1. /\ Written(w, d).caseRow = TRUE
        /\ Written(w, d).records = d.records
        /\ Written(w, d).entities = d.entities
    BY <1>4 DEF CaseWrite, Written, Tables, Database
  <2>2. FactsOf(w) = {Fact("case", NONE, NONE)}
    BY <1>4 DEF CaseWrite, FactsOf, Tables
  <2> QED
    BY <2>1, <2>2 DEF FactsIn
<1> QED
  BY <1>1, <1>2, <1>3, <1>4 DEF Writes

\* Of the migration statements only 5, the DROP of migration 002, removes
\* facts, and only hypotheses.
LEMMA MigrationFacts ==
  ASSUME NEW d \in Database, NEW i \in 1..LastStatement
  PROVE  /\ i # 5 => FactsIn(Migrated(Migrations[i], d)) = FactsIn(d)
         /\ i = 5 => FactsIn(Migrated(Migrations[i], d)) = FactsIn(d) \ HypothesisFacts
<1> DEFINE d2 == Migrated(Migrations[i], d)
<1>1. CASE i # 5
  <2>1. Migrations[i].op \in {"create_if_absent", "create", "log"}
    BY <1>1 DEF Migrations, LastStatement
  <2>2. /\ d2.caseRow = d.caseRow
        /\ d2.records = d.records
        /\ d2.entities = d.entities
    BY <2>1 DEF Migrated, Database
  <2> QED
    BY <1>1, <2>2 DEF FactsIn
<1>2. CASE i = 5
  <2>1. Migrations[i].op = "drop"
    BY <1>2 DEF Migrations
  <2>2. /\ d2.caseRow = d.caseRow
        /\ d2.records = [k \in Keys |-> IF IsHypothesis(k) THEN NONE ELSE d.records[k]]
        /\ d2.entities = d.entities
    BY <2>1 DEF Migrated, Database
  <2>3. \A x \in Keys : d2.records[x] # NONE <=> d.records[x] # NONE /\ ~IsHypothesis(x)
    BY <2>2
  <2>4. \A f \in FactsIn(d2) : f \in FactsIn(d) \ HypothesisFacts
    BY <2>2, <2>3 DEF FactsIn, HypothesisFacts, Fact, EntityFacts
  <2>5. \A f \in FactsIn(d) \ HypothesisFacts : f \in FactsIn(d2)
    BY <2>2, <2>3 DEF FactsIn, HypothesisFacts, Fact
  <2> QED
    BY <1>2, <2>4, <2>5
<1> QED
  BY <1>1, <1>2

-----------------------------------------------------------------------------
(***************************************************************************)
(* Acknowledgements.  Nothing is acknowledged before the schema is         *)
(* current, so the DROP of migration 002 takes nothing that was; and what  *)
(* a handler has written so far is in the file it holds.                   *)
(***************************************************************************)
AckInv ==
  /\ \A c \in Cases : acked[c] # {} => SchemaCurrent(db[c])
  /\ \A p \in Procs : pc[p] = "migrate" => pending[p] = job[p]
  /\ \A p \in Procs : pc[p] = "work" =>
       \A w \in job[p] \ pending[p] : FactsOf(w) \subseteq FactsIn(db[session[p]])
  /\ AckedIsStored

IInv == TypeInv /\ SchemaInv /\ AckInv

\* What a step does to facts, databases and acknowledgements.
Opened(p) ==
  /\ \A c \in Cases : /\ FactsIn(db'[c]) = FactsIn(db[c])
                      /\ SameSchema(db[c], db'[c])
                      /\ db'[c].records = db[c].records
  /\ UNCHANGED acked
  /\ \A q \in Procs \ {p} : UNCHANGED <<pc[q], session[q], pending[q], job[q]>>
  /\ \/ pc'[p] = "idle"
     \/ pending'[p] = job'[p] /\ Closed(pending'[p])
     \/ UNCHANGED <<session[p], pending[p], job[p]>> /\ pc[p] \in {pc'[p], "migrate"}

LEMMA OpenedAck ==
  ASSUME IInv, NEW p \in Procs, Opened(p)
  PROVE  AckInv'
<1>1. \A c \in Cases : acked'[c] # {} => SchemaCurrent(db'[c])
  BY SchemaTransfer DEF IInv, AckInv, Opened
<1>2. \A q \in Procs : pc'[q] = "migrate" => pending'[q] = job'[q]
  BY DEF IInv, AckInv, Opened
<1>3. ASSUME NEW q \in Procs, pc'[q] = "work", NEW w \in job'[q] \ pending'[q]
      PROVE  FactsOf(w) \subseteq FactsIn(db'[session'[q]])
  <2>1. /\ pc[q] \in {"work", "migrate"}
        /\ session'[q] = session[q] /\ job'[q] = job[q] /\ pending'[q] = pending[q]
    BY <1>3 DEF Opened
  <2>2. pc[q] = "work"
    BY <1>3, <2>1 DEF IInv, AckInv
  <2>3. session[q] \in Cases
    BY <2>2, OpenSession DEF IInv
  <2> QED
    BY <1>3, <2>1, <2>2, <2>3 DEF IInv, AckInv, Opened
<1>4. AckedIsStored'
  BY DEF IInv, AckInv, AckedIsStored, Opened
<1> QED
  BY <1>1, <1>2, <1>3, <1>4 DEF AckInv

LEMMA ConnectOpens ==
  ASSUME TypeInv, NEW p \in Procs, NEW c \in Cases, NEW rows, NEW b,
         Closed(rows), Connect(p, c, rows, b)
  PROVE  Opened(p)
<1>1. db[c] \in Database
  BY DEF TypeInv, TypeOK
<1>2. \A x \in Cases \ {c} : db'[x] = db[x]
  BY DEF Connect, TypeInv, TypeOK
<1>3. db'[c] = [db[c] EXCEPT !.exists = TRUE]
  BY DEF Connect, TypeInv, TypeOK
<1>4. /\ FactsIn(db'[c]) = FactsIn(db[c]) /\ SameSchema(db[c], db'[c])
      /\ db'[c].records = db[c].records
  BY <1>1, <1>3 DEF Database, FactsIn, SameSchema
<1>5. \A x \in Cases : /\ FactsIn(db'[x]) = FactsIn(db[x]) /\ SameSchema(db[x], db'[x])
                       /\ db'[x].records = db[x].records
  BY <1>2, <1>4 DEF SameSchema
<1> QED
  BY <1>5 DEF Connect, Opened, TypeInv, TypeOK

LEMMA RequestOpens ==
  ASSUME TypeInv, NEW p \in Procs, NEW c \in Cases, NEW rows, NEW b,
         Closed(rows), Request(p, c, rows, b)
  PROVE  Opened(p)
<1>1. CASE Refuse(p, "case_not_found") \/ Refuse(p, "locked")
  BY <1>1 DEF Request, Refuse, Opened, SameSchema, TypeInv, TypeOK
<1>2. CASE Connect(p, c, rows, b)
  BY <1>2, ConnectOpens
<1> QED
  BY <1>1, <1>2 DEF Request

\* Every action but a migration statement, a row write and Finish.
LEMMA OtherStepsOpen ==
  ASSUME TypeInv, NEW p \in Procs,
         \/ \E c \in Cases : \/ CreateCase(p, c) \/ IngestRecords(p, c)
                             \/ RecordToolCall(p, c) \/ Query(p, c)
         \/ SchemaReady(p) \/ RejectSection(p) \/ Restart(p)
         \/ Migrate(p) /\ StatementFails(Migrations[at[p]], db[session[p]])
  PROVE  Opened(p)
<1>1. ASSUME NEW c \in Cases,
             \/ CreateCase(p, c) \/ IngestRecords(p, c)
             \/ RecordToolCall(p, c) \/ Query(p, c)
      PROVE  Opened(p)
  <2>1. CASE CreateCase(p, c)
    <3>1. Closed({CaseWrite})
      BY DEF Closed, CaseWrite, RecordWrites, Tables
    <3> QED
      BY <2>1, <3>1, ConnectOpens DEF CreateCase
  <2>2. CASE IngestRecords(p, c)
    BY <2>2, RequestOpens, ResponsesAssumption DEF IngestRecords
  <2>3. CASE RecordToolCall(p, c)
    <3>1. PICK k \in Keys, b \in Bodies :
             /\ TableOf[k] = "tool_calls"
             /\ Request(p, c, {[sec |-> "tool_calls", id |-> k, body |-> b]}, NONE)
      BY <2>3 DEF RecordToolCall, FreshCall
    <3>2. Closed({[sec |-> "tool_calls", id |-> k, body |-> b]})
      BY <3>1, BackingAssumption DEF Closed
    <3> QED
      BY <3>1, <3>2, RequestOpens
  <2>4. CASE Query(p, c)
    BY <2>4, RequestOpens DEF Query, Closed
  <2> QED
    BY <1>1, <2>1, <2>2, <2>3, <2>4
<1>2. CASE SchemaReady(p)
  BY <1>2 DEF SchemaReady, Opened, SameSchema, TypeInv, TypeOK
<1>3. CASE RejectSection(p)
  BY <1>3 DEF RejectSection, Close, Opened, SameSchema, TypeInv, TypeOK
<1>4. CASE Restart(p)
  BY <1>4 DEF Restart, Opened, SameSchema, TypeInv, TypeOK
<1>5. CASE Migrate(p) /\ StatementFails(Migrations[at[p]], db[session[p]])
  BY <1>5 DEF Migrate, Close, Opened, SameSchema, TypeInv, TypeOK
<1> QED
  BY <1>1, <1>2, <1>3, <1>4, <1>5

LEMMA MigrateAck ==
  ASSUME IInv, NEW p \in Procs, Migrate(p),
         ~StatementFails(Migrations[at[p]], db[session[p]])
  PROVE  AckInv' /\ acked[session[p]] = {}
<1> DEFINE c == session[p]
<1>1. at[p] \in 1..LastStatement /\ pc[p] = "migrate"
  BY DEF Migrate, IInv, TypeInv, TypeOK, LastStatement
<1>2. c \in Cases /\ db[c] \in Database
  BY <1>1, OpenSession DEF IInv
<1>3. ~SchemaCurrent(db[c])
  BY <1>1 DEF IInv, SchemaInv, AtStatement, SchemaCurrent, LastStatement, Versions, PartsAt
<1>4. acked[c] = {}
  BY <1>2, <1>3 DEF IInv, AckInv
<1>5. \A x \in Cases \ {c} : db'[x] = db[x]
  BY <1>1 DEF Migrate, IInv, TypeInv, TypeOK
<1>6. UNCHANGED <<session, pc, pending, job, acked>>
  BY DEF Migrate
<1>7. \A q \in Procs : pc[q] = "work" => session[q] \in Cases \ {c}
  BY <1>1, <1>2, OpenSession, NoneAssumption DEF IInv, SchemaInv
<1>8. \A x \in Cases : acked'[x] # {} => SchemaCurrent(db'[x])
  BY <1>4, <1>5, <1>6 DEF IInv, AckInv
<1>9. \A q \in Procs : pc'[q] = "work" =>
        \A w \in job'[q] \ pending'[q] : FactsOf(w) \subseteq FactsIn(db'[session'[q]])
  BY <1>5, <1>6, <1>7 DEF IInv, AckInv
<1>10. AckedIsStored'
  BY <1>4, <1>5, <1>6 DEF IInv, AckInv, AckedIsStored
<1> QED
  BY <1>4, <1>6, <1>8, <1>9, <1>10 DEF IInv, AckInv

\* A row write: the databases keep their facts and their schema.
LEMMA WriteRowFacts ==
  ASSUME TypeInv, NEW p \in Procs, NEW w \in pending[p], pc[p] = "work",
         db' = [db EXCEPT ![session[p]] = Written(w, @)]
  PROVE  /\ \A x \in Cases : FactsIn(db[x]) \subseteq FactsIn(db'[x])
         /\ \A x \in Cases : SameSchema(db[x], db'[x])
         /\ FactsOf(w) \subseteq FactsIn(db'[session[p]])
<1>1. w \in Writes /\ session[p] \in Cases /\ db[session[p]] \in Database
  BY OpenSession DEF TypeInv, TypeOK
<1>2. db'[session[p]] = Written(w, db[session[p]])
  BY <1>1 DEF TypeInv, TypeOK
<1>3. \A x \in Cases \ {session[p]} : db'[x] = db[x]
  BY DEF TypeInv, TypeOK
<1>4. /\ FactsIn(db[session[p]]) \subseteq FactsIn(db'[session[p]])
      /\ FactsOf(w) \subseteq FactsIn(db'[session[p]])
  BY <1>1, <1>2, WriteKeepsFacts
<1>5. SameSchema(db[session[p]], db'[session[p]])
  BY <1>1, <1>2, WrittenSchema DEF SameSchema
<1> QED
  BY <1>3, <1>4, <1>5 DEF SameSchema

LEMMA WriteRowAck ==
  ASSUME IInv, NEW p \in Procs, WriteRow(p)
  PROVE  AckInv'
<1>1. PICK w \in pending[p] :
        /\ db' = [db EXCEPT ![session[p]] = Written(w, @)]
        /\ pending' = [pending EXCEPT ![p] = @ \ {w}]
  BY DEF WriteRow
<1>2. pc[p] = "work" /\ UNCHANGED <<session, pc, job, acked>>
  BY DEF WriteRow
<1>3. /\ \A x \in Cases : FactsIn(db[x]) \subseteq FactsIn(db'[x])
      /\ \A x \in Cases : SameSchema(db[x], db'[x])
      /\ FactsOf(w) \subseteq FactsIn(db'[session[p]])
  BY <1>1, <1>2, WriteRowFacts DEF IInv
<1>4. \A x \in Cases : acked'[x] # {} => SchemaCurrent(db'[x])
  BY <1>2, <1>3, SchemaTransfer DEF IInv, AckInv
<1>5. \A q \in Procs : pc'[q] = "migrate" => pending'[q] = job'[q]
  BY <1>1, <1>2 DEF IInv, AckInv, TypeInv, TypeOK
<1>6. ASSUME NEW q \in Procs, pc'[q] = "work", NEW v \in job'[q] \ pending'[q]
      PROVE  FactsOf(v) \subseteq FactsIn(db'[session'[q]])
  <2>1. session[q] \in Cases
    BY <1>2, <1>6, OpenSession DEF IInv
  <2>2. CASE v \in pending[q]
    BY <1>1, <1>2, <1>3, <1>6, <2>2 DEF IInv, TypeInv, TypeOK
  <2>3. CASE v \notin pending[q]
    <3>1. FactsOf(v) \subseteq FactsIn(db[session[q]])
      BY <1>2, <1>6, <2>3 DEF IInv, AckInv
    <3> QED
      BY <1>2, <1>3, <2>1, <3>1
  <2> QED
    BY <2>2, <2>3
<1>7. AckedIsStored'
  BY <1>2, <1>3 DEF IInv, AckInv, AckedIsStored
<1> QED
  BY <1>4, <1>5, <1>6, <1>7 DEF AckInv

LEMMA FinishAck ==
  ASSUME IInv, NEW p \in Procs, Finish(p)
  PROVE  /\ AckInv'
         /\ \A w \in job[p] : FactsOf(w) \subseteq FactsIn(db[session[p]])
<1>1. pc[p] = "work" /\ pending[p] = {} /\ UNCHANGED db
  BY DEF Finish
<1>2. session[p] \in Cases
  BY <1>1, OpenSession DEF IInv
<1>3. SchemaCurrent(db[session[p]])
  BY <1>1 DEF IInv, SchemaInv
<1>4. \A w \in job[p] : FactsOf(w) \subseteq FactsIn(db[session[p]])
  BY <1>1 DEF IInv, AckInv
<1>5. /\ acked'[session[p]] = acked[session[p]] \cup job[p]
      /\ \A x \in Cases \ {session[p]} : acked'[x] = acked[x]
  BY <1>2 DEF Finish, IInv, TypeInv, TypeOK
<1>6. \A x \in Cases : acked'[x] # {} => SchemaCurrent(db'[x])
  BY <1>1, <1>3, <1>5 DEF IInv, AckInv
<1>7. pc'[p] = "idle" /\ \A q \in Procs \ {p} :
        UNCHANGED <<pc[q], pending[q], job[q], session[q]>>
  BY DEF Finish, Close, IInv, TypeInv, TypeOK
<1>8. AckedIsStored'
  BY <1>1, <1>2, <1>4, <1>5 DEF IInv, AckInv, AckedIsStored
<1>9. \A q \in Procs : pc'[q] = "migrate" => pending'[q] = job'[q]
  BY <1>7 DEF IInv, AckInv
<1>10. \A q \in Procs : pc'[q] = "work" =>
         \A w \in job'[q] \ pending'[q] : FactsOf(w) \subseteq FactsIn(db'[session'[q]])
  BY <1>1, <1>7 DEF IInv, AckInv
<1> QED
  BY <1>4, <1>6, <1>8, <1>9, <1>10 DEF AckInv

LEMMA InvariantNext == IInv /\ [Next]_vars => IInv'
<1> SUFFICES ASSUME IInv, [Next]_vars
             PROVE  AckInv'
  BY NextType, SchemaNext DEF IInv
<1>1. ASSUME NEW p \in Procs, Migrate(p),
             ~StatementFails(Migrations[at[p]], db[session[p]])
      PROVE  AckInv'
  BY <1>1, MigrateAck
<1>2. ASSUME NEW p \in Procs, WriteRow(p)
      PROVE  AckInv'
  BY <1>2, WriteRowAck
<1>3. ASSUME NEW p \in Procs, Finish(p)
      PROVE  AckInv'
  BY <1>3, FinishAck
<1>4. ASSUME NEW p \in Procs,
             \/ \E c \in Cases : \/ CreateCase(p, c) \/ IngestRecords(p, c)
                                 \/ RecordToolCall(p, c) \/ Query(p, c)
             \/ SchemaReady(p) \/ RejectSection(p) \/ Restart(p)
             \/ Migrate(p) /\ StatementFails(Migrations[at[p]], db[session[p]])
      PROVE  AckInv'
  BY <1>4, OtherStepsOpen, OpenedAck DEF IInv
<1>5. CASE UNCHANGED vars
  BY <1>5 DEF vars, local, IInv, AckInv, AckedIsStored
<1> QED
  BY <1>1, <1>2, <1>3, <1>4, <1>5 DEF Next, Step

LEMMA InvariantInit == Init => IInv
BY InitType, SchemaInit DEF Init, IInv, AckInv, AckedIsStored

\* What a caller was told is stored is found by every later session.
THEOREM AcknowledgedStays == Spec => []AckedIsStored
<1>1. IInv => AckedIsStored
  BY DEF IInv, AckInv
<1> QED
  BY <1>1, InvariantInit, InvariantNext, PTL DEF Spec
-----------------------------------------------------------------------------
(***************************************************************************)
(* Refinement: the case store implements CaseLedger.  Opening, migrating   *)
(* and closing are stutters of the ledger, except for the DROP of          *)
(* migration 002, which is its Discard.                                    *)
(***************************************************************************)
LEMMA FactsAreFacts ==
  ASSUME NEW d \in Database
  PROVE  FactsIn(d) \subseteq AllFacts
<1>1. \A e \in Entities : d.entities[e] # NONE =>
        EntityFacts(e, d.entities[e]) \subseteq AllFacts
  <2> SUFFICES ASSUME NEW e \in Entities, d.entities[e] # NONE
               PROVE  EntityFacts(e, d.entities[e]) \subseteq AllFacts
    OBVIOUS
  <2>1. d.entities[e].refs \subseteq Refs
    BY DEF Database, Optional, EntityRow
  <2> QED
    BY <2>1 DEF EntityFacts, AllFacts
<1> QED
  BY <1>1 DEF FactsIn, AllFacts

FactsMap == [c \in Cases |-> FactsIn(db[c])]
AckedMap == [c \in Cases |-> UNION {FactsOf(w) : w \in acked[c]}]

LEMMA RefineInit == TypeInv /\ Init => Ledger!Init
<1> SUFFICES ASSUME TypeInv, Init
             PROVE  Ledger!Init
  OBVIOUS
<1>1. \A c \in Cases : FactsIn(db[c]) \subseteq AllFacts
  BY FactsAreFacts DEF TypeInv, TypeOK
<1>2. \A c \in Cases : UNION {FactsOf(w) : w \in acked[c]} = {}
  BY DEF Init
<1> QED
  BY <1>1, <1>2 DEF Ledger!Init

LEMMA OpenedStutters ==
  ASSUME NEW p \in Procs, Opened(p)
  PROVE  UNCHANGED <<FactsMap, AckedMap>>
BY DEF Opened, FactsMap, AckedMap

LEMMA MigrateRefines ==
  ASSUME IInv, NEW p \in Procs, Migrate(p),
         ~StatementFails(Migrations[at[p]], db[session[p]])
  PROVE  Ledger!Next \/ UNCHANGED <<FactsMap, AckedMap>>
<1> DEFINE c == session[p]
<1>1. at[p] \in 1..LastStatement /\ pc[p] = "migrate"
  BY DEF Migrate, IInv, TypeInv, TypeOK, LastStatement
<1>2. c \in Cases /\ db[c] \in Database
  BY <1>1, OpenSession DEF IInv
<1>3. /\ db'[c] = Migrated(Migrations[at[p]], db[c])
      /\ \A x \in Cases \ {c} : db'[x] = db[x]
      /\ UNCHANGED acked
  BY <1>1, <1>2 DEF Migrate, IInv, TypeInv, TypeOK
<1>4. CASE at[p] # 5
  <2>1. FactsIn(db'[c]) = FactsIn(db[c])
    BY <1>1, <1>2, <1>3, <1>4, MigrationFacts
  <2> QED
    BY <1>3, <2>1 DEF FactsMap, AckedMap
<1>5. CASE at[p] = 5
  <2>1. FactsIn(db'[c]) = FactsIn(db[c]) \ HypothesisFacts
    BY <1>1, <1>2, <1>3, <1>5, MigrationFacts
  <2>2. FactsMap' = [FactsMap EXCEPT ![c] = @ \ HypothesisFacts]
    BY <1>2, <1>3, <2>1 DEF FactsMap
  <2>3. AckedMap[c] = {}
    BY <1>2, MigrateAck DEF AckedMap
  <2>4. UNCHANGED AckedMap
    BY <1>3 DEF AckedMap
  <2>5. Ledger!Discard(c)
    BY <2>2, <2>3, <2>4 DEF Ledger!Discard, FactsMap, AckedMap
  <2> QED
    BY <1>2, <2>5 DEF Ledger!Next
<1> QED
  BY <1>4, <1>5

LEMMA WriteRowRefines ==
  ASSUME IInv, TypeInv', NEW p \in Procs, WriteRow(p)
  PROVE  Ledger!Next
<1> DEFINE c == session[p]
<1>1. PICK w \in pending[p] : db' = [db EXCEPT ![c] = Written(w, @)]
  BY DEF WriteRow
<1>2. c \in Cases /\ pc[p] = "work" /\ UNCHANGED acked
  BY OpenSession DEF WriteRow, IInv
<1>3. /\ FactsIn(db[c]) \subseteq FactsIn(db'[c])
      /\ \A x \in Cases \ {c} : db'[x] = db[x]
  BY <1>1, <1>2, WriteRowFacts DEF IInv, TypeInv, TypeOK
<1>4. FactsIn(db'[c]) \in SUBSET AllFacts
  BY <1>2, FactsAreFacts DEF TypeInv, TypeOK
<1>5. FactsMap' = [FactsMap EXCEPT ![c] = @ \cup FactsIn(db'[c])]
  BY <1>2, <1>3 DEF FactsMap
<1>6. UNCHANGED AckedMap
  BY <1>2 DEF AckedMap
<1>7. Ledger!Store(c)
  BY <1>4, <1>5, <1>6 DEF Ledger!Store, Ledger!Add, FactsMap, AckedMap
<1> QED
  BY <1>2, <1>7 DEF Ledger!Next

LEMMA FinishRefines ==
  ASSUME IInv, NEW p \in Procs, Finish(p)
  PROVE  Ledger!Next
<1>1. PICK c \in Cases : c = session[p]
  BY OpenSession DEF Finish, IInv
<1> DEFINE news == UNION {FactsOf(w) : w \in job[p]}
<1>2. news \in SUBSET FactsMap[c]
  BY <1>1, FinishAck DEF FactsMap
<1>3. /\ acked'[c] = acked[c] \cup job[p]
      /\ \A x \in Cases \ {c} : acked'[x] = acked[x]
  BY <1>1 DEF Finish, IInv, TypeInv, TypeOK
<1>4. AckedMap' = [AckedMap EXCEPT ![c] = @ \cup news]
  <2>1. UNION {FactsOf(w) : w \in acked'[c]}
          = (UNION {FactsOf(w) : w \in acked[c]}) \cup news
    BY <1>3
  <2> QED
    BY <1>3, <2>1 DEF AckedMap
<1>5. UNCHANGED FactsMap
  BY DEF Finish, FactsMap
<1>6. Ledger!Acknowledge(c)
  BY <1>2, <1>4, <1>5 DEF Ledger!Acknowledge, FactsMap, AckedMap
<1> QED
  BY <1>6 DEF Ledger!Next

LEMMA RefineNext ==
  IInv /\ IInv' /\ [Next]_vars => [Ledger!Next]_<<FactsMap, AckedMap>>
<1> SUFFICES ASSUME IInv, IInv', [Next]_vars
             PROVE  Ledger!Next \/ UNCHANGED <<FactsMap, AckedMap>>
  OBVIOUS
<1>1. ASSUME NEW p \in Procs, Migrate(p),
             ~StatementFails(Migrations[at[p]], db[session[p]])
      PROVE  Ledger!Next \/ UNCHANGED <<FactsMap, AckedMap>>
  BY <1>1, MigrateRefines
<1>2. ASSUME NEW p \in Procs, WriteRow(p)
      PROVE  Ledger!Next
  BY <1>2, WriteRowRefines DEF IInv
<1>3. ASSUME NEW p \in Procs, Finish(p)
      PROVE  Ledger!Next
  BY <1>3, FinishRefines
<1>4. ASSUME NEW p \in Procs,
             \/ \E c \in Cases : \/ CreateCase(p, c) \/ IngestRecords(p, c)
                                 \/ RecordToolCall(p, c) \/ Query(p, c)
             \/ SchemaReady(p) \/ RejectSection(p) \/ Restart(p)
             \/ Migrate(p) /\ StatementFails(Migrations[at[p]], db[session[p]])
      PROVE  UNCHANGED <<FactsMap, AckedMap>>
  BY <1>4, OtherStepsOpen, OpenedStutters DEF IInv
<1>5. CASE UNCHANGED vars
  BY <1>5 DEF vars, local, FactsMap, AckedMap
<1> QED
  BY <1>1, <1>2, <1>3, <1>4, <1>5 DEF Next, Step

\* The case store implements the ledger: through upserts, merges, migrations,
\* crashes and competing processes no row, reference or field is forgotten and
\* success is reported only for what is stored.
THEOREM StoreImplementsLedger == Spec => RefinesLedger
<1>1. Init => IInv /\ Ledger!Init
  BY InvariantInit, RefineInit DEF IInv
<1>2. IInv /\ [Next]_vars => IInv'
  BY InvariantNext
<1>3. IInv /\ IInv' /\ [Next]_vars => [Ledger!Next]_<<FactsMap, AckedMap>>
  BY RefineNext
<1>4. <<FactsMap, AckedMap>> =
        <<[c \in Cases |-> FactsIn(db[c])],
          [c \in Cases |-> UNION {FactsOf(w) : w \in acked[c]}]>>
  BY DEF FactsMap, AckedMap
<1> QED
  BY <1>1, <1>2, <1>3, PTL DEF Spec, RefinesLedger, Ledger!Spec, FactsMap, AckedMap
-----------------------------------------------------------------------------
(***************************************************************************)
(* Citations.  What a process has still to write is closed under citation  *)
(* relative to what is stored, so the row that is due cites stored rows    *)
(* only.                                                                   *)
(***************************************************************************)
Stored(c, k) == db[c].records[k] # NONE

CitesBackward(c, rows) ==
  \A w \in rows \cap RecordWrites : \A b \in Backing[w.id] :
    \/ Stored(c, b)
    \/ \E v \in rows \cap RecordWrites : v.id = b /\ Rank[v.sec] < Rank[w.sec]

CiteInv ==
  /\ \A p \in Procs : pc[p] = "migrate" => Closed(pending[p])
  /\ \A p \in Procs : pc[p] = "work" => CitesBackward(session[p], pending[p])
  /\ NoDanglingCitation

LEMMA CiteInit == Init => CiteInv
<1> SUFFICES ASSUME Init
             PROVE  NoDanglingCitation
  BY DEF Init, CiteInv
<1> SUFFICES ASSUME NEW c \in Cases, NEW k \in Keys, db[c].records[k] # NONE,
                    NEW b \in Backing[k]
             PROVE  db[c].records[b] # NONE
  BY DEF NoDanglingCitation
<1>1. b \in Keys
  BY TablesAssumption
<1>2. db[c] # NoFile
  BY DEF NoFile
<1>3. PICK v \in 1..2 : db[c] = LegacyFile(v)
  BY <1>2 DEF Init
<1>4. db[c].records = [x \in Keys |-> IF x \in LegacyKeys
                                     THEN CHOOSE y \in Bodies : TRUE ELSE NONE]
  BY <1>3 DEF LegacyFile, NoFile
<1>5. b \in LegacyKeys
  BY <1>4, BackingAssumption
<1>6. (CHOOSE y \in Bodies : TRUE) \in Bodies
  BY NoneAssumption
<1> QED
  BY <1>1, <1>4, <1>5, <1>6, NoneAssumption

LEMMA OpenedCites ==
  ASSUME IInv, CiteInv, NEW p \in Procs, Opened(p)
  PROVE  CiteInv'
<1>1. \A c \in Cases : db'[c].records = db[c].records
  BY DEF Opened
<1>2. ASSUME NEW q \in Procs, pc'[q] = "migrate"
      PROVE  Closed(pending'[q])
  BY <1>2 DEF Opened, CiteInv
<1>3. ASSUME NEW q \in Procs, pc'[q] = "work"
      PROVE  CitesBackward(session[q], pending[q])'
  <2>1. CASE Closed(pending'[q])
    BY <2>1 DEF Closed, CitesBackward
  <2>2. CASE ~Closed(pending'[q])
    <3>1. /\ session'[q] = session[q] /\ pending'[q] = pending[q]
          /\ pc[q] \in {"work", "migrate"}
      BY <1>3, <2>2 DEF Opened
    <3>2. pc[q] = "work"
      BY <2>2, <3>1 DEF CiteInv
    <3>3. session[q] \in Cases
      BY <3>2, OpenSession DEF IInv
    <3> QED
      BY <1>1, <3>1, <3>2, <3>3 DEF CiteInv, CitesBackward, Stored
  <2> QED
    BY <2>1, <2>2
<1>4. NoDanglingCitation'
  BY <1>1 DEF CiteInv, NoDanglingCitation
<1> QED
  BY <1>2, <1>3, <1>4 DEF CiteInv

\* The DROP of migration 002 takes hypotheses, and no row cites one.
LEMMA MigrateCites ==
  ASSUME IInv, CiteInv, NEW p \in Procs, Migrate(p),
         ~StatementFails(Migrations[at[p]], db[session[p]])
  PROVE  CiteInv'
<1>1. PICK c \in Cases : c = session[p]
  BY OpenSession DEF Migrate, IInv
<1>2. at[p] \in 1..LastStatement /\ pc[p] = "migrate" /\ db[c] \in Database
  BY <1>1 DEF Migrate, IInv, TypeInv, TypeOK, LastStatement
<1>3. /\ db'[c] = Migrated(Migrations[at[p]], db[c])
      /\ \A x \in Cases \ {c} : db'[x] = db[x]
      /\ UNCHANGED <<session, pc, pending>>
  BY <1>1 DEF Migrate, IInv, TypeInv, TypeOK
<1>4. \A q \in Procs : pc[q] = "work" => session[q] \in Cases \ {c}
  BY <1>1, <1>2, OpenSession, NoneAssumption DEF IInv, SchemaInv
<1>5. ASSUME NEW k \in Keys
      PROVE  db'[c].records[k] # NONE <=>
               db[c].records[k] # NONE /\ (at[p] = 5 => ~IsHypothesis(k))
  <2>1. CASE at[p] = 5
    <3>1. Migrations[at[p]].op = "drop"
      BY <2>1 DEF Migrations
    <3>2. db'[c].records = [x \in Keys |-> IF IsHypothesis(x) THEN NONE ELSE db[c].records[x]]
      BY <1>2, <1>3, <3>1 DEF Migrated, Database
    <3> QED
      BY <2>1, <3>2
  <2>2. CASE at[p] # 5
    <3>1. Migrations[at[p]].op \in {"create_if_absent", "create", "log"}
      BY <1>2, <2>2 DEF Migrations, LastStatement
    <3> QED
      BY <1>2, <1>3, <2>2, <3>1 DEF Migrated, Database
  <2> QED
    BY <2>1, <2>2
<1>6. \A k \in Keys : \A b \in Backing[k] : b \in Keys /\ ~IsHypothesis(b)
  BY TablesAssumption, BackingAssumption DEF IsHypothesis
<1>7. NoDanglingCitation'
  BY <1>3, <1>5, <1>6 DEF CiteInv, NoDanglingCitation
<1>8. \A q \in Procs : pc'[q] = "migrate" => Closed(pending'[q])
  BY <1>3 DEF CiteInv
<1>9. ASSUME NEW q \in Procs, pc'[q] = "work"
      PROVE  CitesBackward(session[q], pending[q])'
  BY <1>3, <1>4, <1>9 DEF CiteInv, CitesBackward, Stored
<1> QED
  BY <1>7, <1>8, <1>9 DEF CiteInv

LEMMA WriteRowCites ==
  ASSUME IInv, CiteInv, NEW p \in Procs, WriteRow(p)
  PROVE  CiteInv'
<1>1. PICK c \in Cases : c = session[p]
  BY OpenSession DEF WriteRow, IInv
<1>2. PICK w \in pending[p] :
        /\ Due(p, w)
        /\ db' = [db EXCEPT ![c] = Written(w, @)]
        /\ pending' = [pending EXCEPT ![p] = @ \ {w}]
  BY <1>1 DEF WriteRow
<1>3. /\ pc[p] = "work" /\ UNCHANGED <<session, pc>>
      /\ w \in Writes /\ db[c] \in Database
  BY DEF WriteRow, IInv, TypeInv, TypeOK
<1>4. /\ db'[c] = Written(w, db[c])
      /\ \A x \in Cases \ {c} : db'[x] = db[x]
  BY <1>2 DEF IInv, TypeInv, TypeOK
<1>5. CASE w \in RecordWrites
  <2>1. w.sec \in Tables /\ w.id \in Keys /\ w.body \in Bodies
    BY <1>5 DEF RecordWrites
  <2>2. db'[c].records = [db[c].records EXCEPT ![w.id] = w.body]
    BY <1>3, <1>4, <2>1 DEF Written, UpsertRecord, Tables, Database
  <2>3. \A k \in Keys : db'[c].records[k] # NONE <=> db[c].records[k] # NONE \/ k = w.id
    BY <1>3, <2>1, <2>2, NoneAssumption DEF Database
  <2>4. \A b \in Backing[w.id] : db[c].records[b] # NONE
    <3> SUFFICES ASSUME NEW b \in Backing[w.id], db[c].records[b] = NONE
                 PROVE  FALSE
      OBVIOUS
    <3>1. PICK v \in pending[p] : v.sec \in Tables /\ Rank[v.sec] < Rank[w.sec]
      BY <1>1, <1>3, <1>5 DEF CiteInv, CitesBackward, Stored, RecordWrites
    <3>2. Rank[w.sec] <= Rank[v.sec]
      BY <1>2, <3>1 DEF Due
    <3>3. Rank[w.sec] \in Nat /\ Rank[v.sec] \in Nat
      BY <2>1, <3>1 DEF Rank, Tables
    <3> QED
      BY <3>1, <3>2, <3>3
  <2>5. \A k \in Keys : \A b \in Backing[k] : b \in Keys
    BY TablesAssumption
  <2>6. NoDanglingCitation'
    BY <1>4, <2>1, <2>3, <2>4, <2>5 DEF CiteInv, NoDanglingCitation
  <2>7. CitesBackward(session[p], pending[p])'
    <3> SUFFICES ASSUME NEW u \in pending'[p] \cap RecordWrites, NEW b \in Backing[u.id],
                        db'[c].records[b] = NONE
                 PROVE  \E v \in pending'[p] \cap RecordWrites :
                           v.id = b /\ Rank[v.sec] < Rank[u.sec]
      BY <1>1, <1>3 DEF CitesBackward, Stored
    <3>1. u \in pending[p] /\ u.id \in Keys /\ b \in Keys
      BY <1>2, TablesAssumption DEF IInv, TypeInv, TypeOK, RecordWrites
    <3>2. db[c].records[b] = NONE /\ b # w.id
      BY <2>3, <3>1
    <3>3. PICK v \in pending[p] \cap RecordWrites : v.id = b /\ Rank[v.sec] < Rank[u.sec]
      BY <1>1, <1>3, <3>1, <3>2 DEF CiteInv, CitesBackward, Stored
    <3> QED
      BY <1>2, <3>2, <3>3 DEF IInv, TypeInv, TypeOK
  <2> QED
    BY <1>1, <1>2, <1>3, <1>4, <2>6, <2>7, OpenSession, NoneAssumption
    DEF CiteInv, CitesBackward, Stored, IInv, SchemaInv, TypeInv, TypeOK
<1>6. CASE w \notin RecordWrites
  <2>1. db'[c].records = db[c].records
    BY <1>3, <1>4, <1>6 DEF Writes, EntityWrites, MetadataWrites, CaseWrite, Written,
                            Tables, Database
  <2>2. NoDanglingCitation'
    BY <1>4, <2>1 DEF CiteInv, NoDanglingCitation
  <2>3. \A q \in Procs : pending'[q] \cap RecordWrites = pending[q] \cap RecordWrites
    BY <1>2, <1>6 DEF IInv, TypeInv, TypeOK
  <2>4. \A q \in Procs : pc[q] = "work" => session[q] \in Cases
    BY OpenSession DEF IInv
  <2> QED
    BY <1>3, <1>4, <2>1, <2>2, <2>3, <2>4 DEF CiteInv, CitesBackward, Stored, Closed
<1> QED
  BY <1>5, <1>6

LEMMA FinishCites ==
  ASSUME IInv, CiteInv, NEW p \in Procs, Finish(p)
  PROVE  CiteInv'
<1>1. pc'[p] = "idle" /\ UNCHANGED db /\ \A q \in Procs \ {p} :
        UNCHANGED <<pc[q], pending[q], session[q]>>
  BY DEF Finish, Close, IInv, TypeInv, TypeOK
<1> QED
  BY <1>1 DEF CiteInv, CitesBackward, Stored, NoDanglingCitation

LEMMA CiteNext == IInv /\ CiteInv /\ [Next]_vars => CiteInv'
<1> SUFFICES ASSUME IInv, CiteInv, [Next]_vars
             PROVE  CiteInv'
  OBVIOUS
<1>1. ASSUME NEW p \in Procs, Migrate(p),
             ~StatementFails(Migrations[at[p]], db[session[p]])
      PROVE  CiteInv'
  BY <1>1, MigrateCites
<1>2. ASSUME NEW p \in Procs, WriteRow(p)
      PROVE  CiteInv'
  BY <1>2, WriteRowCites
<1>3. ASSUME NEW p \in Procs, Finish(p)
      PROVE  CiteInv'
  BY <1>3, FinishCites
<1>4. ASSUME NEW p \in Procs,
             \/ \E c \in Cases : \/ CreateCase(p, c) \/ IngestRecords(p, c)
                                 \/ RecordToolCall(p, c) \/ Query(p, c)
             \/ SchemaReady(p) \/ RejectSection(p) \/ Restart(p)
             \/ Migrate(p) /\ StatementFails(Migrations[at[p]], db[session[p]])
      PROVE  CiteInv'
  BY <1>4, OtherStepsOpen, OpenedCites DEF IInv
<1>5. CASE UNCHANGED vars
  BY <1>5 DEF vars, local, CiteInv, CitesBackward, Stored, NoDanglingCitation
<1> QED
  BY <1>1, <1>2, <1>3, <1>4, <1>5 DEF Next, Step

\* Neither a crash nor a section that does not validate leaves a stored row
\* that cites a missing one.
THEOREM CitationsHold == Spec => []NoDanglingCitation
<1>1. Init => IInv /\ CiteInv
  BY InvariantInit, CiteInit
<1>2. (IInv /\ CiteInv) /\ [Next]_vars => (IInv /\ CiteInv)'
  BY InvariantNext, CiteNext
<1>3. CiteInv => NoDanglingCitation
  BY DEF CiteInv
<1> QED
  BY <1>1, <1>2, <1>3, PTL DEF Spec
=============================================================================
