------------------------------ MODULE CaseStore ------------------------------
(***************************************************************************)
(* The case store of Blindsight: one DuckDB file per investigation case,   *)
(* opened by any number of operating-system processes (the case server of  *)
(* a running investigation, the case servers spawned for follow-up         *)
(* questions, the report command line), each of which opens the file, runs *)
(* ONE request and closes it.                                              *)
(*                                                                         *)
(* DuckDB commits every statement on its own, so a statement is a step:    *)
(* the migration scripts, an ingest and a crash interleave at that grain.  *)
(* DuckDB also refuses a second process while one holds the file.          *)
(*                                                                         *)
(* Data is abstracted to what the properties tell apart.  An entity row is *)
(* its set of references, the columns and attributes that coalesce (the    *)
(* attributes and first_seen/last_seen: a new value wins, a missing one    *)
(* keeps the old) and one body for the columns that are overwritten.  A    *)
(* row of any other table is a key and a body.                             *)
(***************************************************************************)
EXTENDS Naturals, FiniteSets

CONSTANTS
  Procs,      \* processes that open case databases
  Cases,      \* case ids, one database file each
  Entities,   \* entity ids
  Refs,       \* entity references: (ref_type, system, value) triples
  Opts,       \* attribute names and the first_seen / last_seen columns
  Vals,       \* values of Opts
  Bodies,     \* contents of the columns an upsert replaces
  Keys,       \* ids of the rows of the other tables
  TableOf,    \* the table of each key
  Backing,    \* the rows whose ids a row cites (claim -> evidence items, ...)
  Responses,  \* the domain responses and artifact bundles handed to ingest
  LegacyKeys, \* rows that databases written by an earlier release may hold
  NONE        \* SQL NULL, an absent row, no case

-----------------------------------------------------------------------------
(***************************************************************************)
(* Rows and responses.                                                     *)
(***************************************************************************)

\* The order in which ingest_domain_response handles the sections.  The last
\* two are not sections of a response: they are the single row written by
\* create_case and by record_tool_call.
Rank == [entities |-> 1, events |-> 2, relationships |-> 3,
         coverage_reports |-> 4, evidence_items |-> 5, claims |-> 6,
         hypotheses |-> 7, case_metadata |-> 8, cases |-> 9, tool_calls |-> 10]
Sections == DOMAIN Rank
Tables == {"events", "relationships", "coverage_reports", "evidence_items",
           "claims", "hypotheses", "tool_calls"}

Optional(S) == S \cup {NONE}
EntityRow == [refs : SUBSET Refs, opts : [Opts -> Optional(Vals)], body : Bodies]

\* Rows to be written, tagged with their section.
EntityWrites == [sec : {"entities"}, id : Entities, row : EntityRow]
RecordWrites == {w \in [sec : Tables, id : Keys, body : Bodies] :
                   TableOf[w.id] = w.sec}
MetadataWrites == [sec : {"case_metadata"}, body : Bodies]
CaseWrite == [sec |-> "cases"]
Writes == EntityWrites \cup RecordWrites \cup MetadataWrites \cup {CaseWrite}

\* A response: its rows, and the first section whose objects do not validate.
ResponseType == [rows : SUBSET (EntityWrites \cup RecordWrites \cup MetadataWrites),
                 bad : Optional(Sections)]

\* Every row a response writes comes with the rows it cites, in an earlier
\* section: the pipeline persists claims with their evidence items, and
\* hypotheses with their claims.
Closed(rows) ==
  \A w \in rows \cap RecordWrites : \A b \in Backing[w.id] :
     \E v \in rows \cap RecordWrites : v.id = b /\ Rank[v.sec] < Rank[w.sec]

ASSUME NoneAssumption ==
  /\ NONE \notin Cases
  /\ NONE \notin Bodies
  /\ NONE \notin Vals
  /\ NONE \notin EntityRow
  /\ NONE \notin Sections
  /\ Bodies # {}
ASSUME TablesAssumption ==
  /\ TableOf \in [Keys -> Tables]
  /\ Backing \in [Keys -> SUBSET Keys]
  /\ LegacyKeys \subseteq Keys
ASSUME BackingAssumption ==
  /\ \A k \in Keys : TableOf[k] = "tool_calls" => Backing[k] = {}
  /\ \A k \in LegacyKeys : Backing[k] \subseteq LegacyKeys
  /\ \A k \in Keys : \A b \in Backing[k] : TableOf[b] # "hypotheses"
ASSUME ResponsesAssumption ==
  /\ Responses \subseteq ResponseType
  /\ \A r \in Responses : Closed(r.rows)
  /\ \A r \in Responses : \A w \in r.rows : w.sec # "tool_calls"

-----------------------------------------------------------------------------
(***************************************************************************)
(* One database: its schema objects, the versions its schema_migrations    *)
(* table lists, and its rows.  "tables" stands for the nine tables of      *)
(* migration 001 that no later migration touches; "column" for             *)
(* cases.investigation_metadata.                                           *)
(***************************************************************************)
Parts == {"schema_migrations", "tables", "hypotheses_v1", "hypotheses_v2", "column"}
Versions == 1..3

Database == [exists : BOOLEAN, parts : SUBSET Parts, log : SUBSET Versions,
             caseRow : BOOLEAN, metadata : Optional(Bodies),
             entities : [Entities -> Optional(EntityRow)],
             records : [Keys -> Optional(Bodies)]]

NoFile == [exists |-> FALSE, parts |-> {}, log |-> {}, caseRow |-> FALSE,
           metadata |-> NONE, entities |-> [e \in Entities |-> NONE],
           records |-> [k \in Keys |-> NONE]]

\* What each migration leaves behind, and the databases earlier releases wrote.
PartsAt(v) ==
  CASE v = 0 -> {}
    [] v = 1 -> {"schema_migrations", "tables", "hypotheses_v1"}
    [] v = 2 -> {"schema_migrations", "tables", "hypotheses_v2"}
    [] v = 3 -> {"schema_migrations", "tables", "hypotheses_v2", "column"}

LegacyFile(v) ==
  [NoFile EXCEPT !.exists = TRUE, !.parts = PartsAt(v), !.log = 1..v,
     !.caseRow = TRUE,
     !.records = [k \in Keys |-> IF k \in LegacyKeys
                                 THEN CHOOSE b \in Bodies : TRUE ELSE NONE]]

SchemaCurrent(d) == d.exists /\ d.parts = PartsAt(3) /\ d.log = Versions

\* SELECT MAX(version), 0 when the table is missing or empty.
CurrentVersion(d) ==
  IF "schema_migrations" \notin d.parts \/ d.log = {} THEN 0
  ELSE CHOOSE v \in d.log : \A u \in d.log : u <= v

\* Mutant: 003 records its version before it adds the column.
LogsFirst == <<
  [op |-> "create_if_absent", part |-> "schema_migrations"],
  [op |-> "create_if_absent", part |-> "tables"],
  [op |-> "create_if_absent", part |-> "hypotheses_v1"],
  [op |-> "log", version |-> 1],
  [op |-> "drop", part |-> "hypotheses"],
  [op |-> "create", part |-> "hypotheses_v2"],
  [op |-> "log", version |-> 2],
  [op |-> "log", version |-> 3],
  [op |-> "create", part |-> "column"] >>

(***************************************************************************)
(* The statements of the three migration scripts, one after the other.     *)
(***************************************************************************)
Migrations == <<
  [op |-> "create_if_absent", part |-> "schema_migrations"],  \* 001
  [op |-> "create_if_absent", part |-> "tables"],
  [op |-> "create_if_absent", part |-> "hypotheses_v1"],
  [op |-> "log", version |-> 1],
  [op |-> "drop", part |-> "hypotheses"],                     \* 002
  [op |-> "create", part |-> "hypotheses_v2"],
  [op |-> "log", version |-> 2],
  [op |-> "create", part |-> "column"],                       \* 003
  [op |-> "log", version |-> 3] >>
LastStatement == 9

\* Mutants: a script is skipped; the loop runs off the end.
SkipsScript(version) ==
  CASE version = 0 -> 1
    [] version = 1 -> 8
    [] version = 2 -> 8
    [] version = 3 -> LastStatement + 1
PastTheEnd(version) ==
  CASE version = 0 -> 1
    [] version = 1 -> 5
    [] version = 2 -> 8
    [] version = 3 -> LastStatement + 2

\* Where ensure_schema starts: the first script newer than the database.
FirstStatement(version) ==
  CASE version = 0 -> 1
    [] version = 1 -> 5
    [] version = 2 -> 8
    [] version = 3 -> LastStatement + 1

IsHypothesis(k) == TableOf[k] = "hypotheses"

\* CREATE TABLE and ADD COLUMN fail on an existing object, and the primary
\* key of schema_migrations refuses a version that is listed already.
StatementFails(s, d) ==
  \/ s.op = "create" /\ s.part \in d.parts
  \/ s.op = "log" /\ s.version \in d.log

Migrated(s, d) ==
  CASE s.op = "create_if_absent" -> [d EXCEPT !.parts = @ \cup {s.part}]
    [] s.op = "create" -> [d EXCEPT !.parts = @ \cup {s.part}]
    [] s.op = "drop" ->
         [d EXCEPT !.parts = @ \ {"hypotheses_v1", "hypotheses_v2"},
                   !.records = [k \in Keys |-> IF IsHypothesis(k) THEN NONE ELSE @[k]]]
    [] s.op = "log" -> [d EXCEPT !.log = @ \cup {s.version}]

-----------------------------------------------------------------------------
(***************************************************************************)
(* Row writes.                                                             *)
(***************************************************************************)

\* Mutants: an upsert replaces what it should merge.
ReplaceRefs(old, new) == new
ReplaceOpts(old, new) == new

\* Existing references are kept, new ones added.
MergeRefs(old, new) == old \cup new

\* New values take precedence, a missing value keeps the old one.  A null that is
\* given for an attribute is a value like any other: it overwrites.
Coalesce(old, new) == [o \in Opts |-> IF new[o] = NONE THEN old[o] ELSE new[o]]

\* SELECT refs, attributes; then UPDATE the merged row, or INSERT.
UpsertEntity(old, new) ==
  IF old = NONE THEN new
  ELSE [refs |-> MergeRefs(old.refs, new.refs),
        opts |-> Coalesce(old.opts, new.opts),
        body |-> new.body]

\* INSERT ... ON CONFLICT(id) DO UPDATE in every other table.
UpsertRecord(records, w) == [records EXCEPT ![w.id] = w.body]

\* UPDATE cases SET investigation_metadata ... WHERE id = ?: no row, no error,
\* no effect.
SetMetadata(d, body) == IF d.caseRow THEN body ELSE d.metadata

Written(w, d) ==
  CASE w.sec = "entities" -> [d EXCEPT !.entities[w.id] = UpsertEntity(@, w.row)]
    [] w.sec \in Tables -> [d EXCEPT !.records = UpsertRecord(@, w)]
    [] w.sec = "case_metadata" -> [d EXCEPT !.metadata = SetMetadata(d, w.body)]
    [] w.sec = "cases" -> [d EXCEPT !.caseRow = TRUE]

-----------------------------------------------------------------------------
VARIABLES
  db,       \* db[c]: the database file of case c (durable)
  session,  \* session[p]: the case whose file p holds open, or NONE
  pc,       \* pc[p]: where p is in its request
  at,       \* at[p]: the next migration statement of p
  pending,  \* pending[p]: the rows p has still to write
  bad,      \* bad[p]: the section at which p's response fails to validate
  job,      \* job[p]: all the rows of p's request
  verified, \* verified[p]: _verified_paths, lost when p ends
  reply,    \* reply[p]: the outcome of p's last request
  acked     \* acked[c]: the rows a caller was told are stored (history)

local == <<pc, at, pending, bad, job, reply>>
vars == <<db, session, local, verified, acked>>

Replies == {"none", "success", "case_not_found", "locked", "schema_failed",
            "failed"}

TypeOK ==
  /\ db \in [Cases -> Database]
  /\ session \in [Procs -> Optional(Cases)]
  /\ pc \in [Procs -> {"idle", "migrate", "work"}]
  /\ at \in [Procs -> 1..(LastStatement + 1)]
  /\ pending \in [Procs -> SUBSET Writes]
  /\ bad \in [Procs -> Optional(Sections)]
  /\ job \in [Procs -> SUBSET Writes]
  /\ verified \in [Procs -> SUBSET Cases]
  /\ reply \in [Procs -> Replies]
  /\ acked \in [Cases -> SUBSET Writes]

Init ==
  /\ db \in [Cases -> {NoFile} \cup {LegacyFile(v) : v \in 1..2}]
  /\ session = [p \in Procs |-> NONE]
  /\ pc = [p \in Procs |-> "idle"]
  /\ at = [p \in Procs |-> 1]
  /\ pending = [p \in Procs |-> {}]
  /\ bad = [p \in Procs |-> NONE]
  /\ job = [p \in Procs |-> {}]
  /\ verified = [p \in Procs |-> {}]
  /\ reply = [p \in Procs |-> "none"]
  /\ acked = [c \in Cases |-> {}]

-----------------------------------------------------------------------------
(***************************************************************************)
(* Requests.  open_case_db connects first: DuckDB creates a missing file   *)
(* and refuses one that another process holds.  A path verified by this    *)
(* process skips ensure_schema.                                            *)
(***************************************************************************)
\* Mutant: the file is not locked.
NeverLocked(p, c) == FALSE

Locked(p, c) == \E q \in Procs \ {p} : session[q] = c

Reply(p, r) == reply' = [reply EXCEPT ![p] = r]

Refuse(p, r) ==
  /\ Reply(p, r)
  /\ UNCHANGED <<db, session, pc, at, pending, bad, job, verified, acked>>

\* Mutant: one flag for all paths.
AnyVerified(p, c) == verified[p] # {}

\* This process has checked the schema of this file before.
Verified(p, c) == c \in verified[p]

Connect(p, c, rows, b) ==
  /\ ~Locked(p, c)
  /\ db' = [db EXCEPT ![c].exists = TRUE]
  /\ session' = [session EXCEPT ![p] = c]
  /\ at' = [at EXCEPT ![p] = IF Verified(p, c) THEN LastStatement + 1
                             ELSE FirstStatement(CurrentVersion(db[c]))]
  /\ pc' = [pc EXCEPT ![p] = IF Verified(p, c) THEN "work" ELSE "migrate"]
  /\ pending' = [pending EXCEPT ![p] = rows]
  /\ bad' = [bad EXCEPT ![p] = b]
  /\ job' = [job EXCEPT ![p] = rows]
  /\ Reply(p, "none")
  /\ UNCHANGED <<verified, acked>>

\* create_case_tool: the case id is a new ULID, so its file does not exist.
CreateCase(p, c) ==
  /\ pc[p] = "idle"
  /\ ~db[c].exists
  /\ Connect(p, c, {CaseWrite}, NONE)

\* The other handlers look for the file before they open it.
Request(p, c, rows, b) ==
  /\ pc[p] = "idle"
  /\ \/ ~db[c].exists /\ Refuse(p, "case_not_found")
     \/ db[c].exists /\ Locked(p, c) /\ Refuse(p, "locked")
     \/ db[c].exists /\ Connect(p, c, rows, b)

\* ingest_records.
IngestRecords(p, c) ==
  \E r \in Responses : Request(p, c, r.rows, r.bad)

\* A tool call is recorded under a new ULID, which no earlier release has given.
FreshCall(k) ==
  /\ TableOf[k] = "tool_calls" /\ k \notin LegacyKeys
  /\ \A c \in Cases : db[c].records[k] = NONE
  /\ \A q \in Procs : \A w \in job[q] : w.sec = "tool_calls" => w.id # k

RecordToolCall(p, c) ==
  \E k \in Keys, b \in Bodies :
    /\ FreshCall(k)
    /\ Request(p, c, {[sec |-> "tool_calls", id |-> k, body |-> b]}, NONE)

\* get_case_tool and the query tools write nothing.
Query(p, c) == Request(p, c, {}, NONE)

-----------------------------------------------------------------------------
(***************************************************************************)
(* Inside a session.                                                       *)
(***************************************************************************)
Close(p, r) ==
  /\ session' = [session EXCEPT ![p] = NONE]
  /\ pc' = [pc EXCEPT ![p] = "idle"]
  /\ pending' = [pending EXCEPT ![p] = {}]
  /\ bad' = [bad EXCEPT ![p] = NONE]
  /\ job' = [job EXCEPT ![p] = {}]
  /\ Reply(p, r)

\* One statement of a pending migration.
Migrate(p) ==
  LET c == session[p]
      s == Migrations[at[p]]
  IN /\ pc[p] = "migrate" /\ at[p] <= LastStatement
     /\ IF StatementFails(s, db[c])
        THEN /\ Close(p, "schema_failed")
             /\ UNCHANGED <<db, at>>
        ELSE /\ db' = [db EXCEPT ![c] = Migrated(s, db[c])]
             /\ at' = [at EXCEPT ![p] = @ + 1]
             /\ UNCHANGED <<session, pc, pending, bad, job, reply>>
     /\ UNCHANGED <<verified, acked>>

\* ensure_schema returns: the path is verified and the handler goes on.
SchemaReady(p) ==
  /\ pc[p] = "migrate" /\ at[p] > LastStatement
  /\ verified' = [verified EXCEPT ![p] = @ \cup {session[p]}]
  /\ pc' = [pc EXCEPT ![p] = "work"]
  /\ UNCHANGED <<db, session, at, pending, bad, job, reply, acked>>

\* Mutants: sections in any order; a loop that never advances.
AnyOrder(p, w) == TRUE
StillAll(rows, w) == rows

\* Sections are handled in order, and a section is validated as a whole
\* before its first row is written.
Due(p, w) == \A v \in pending[p] : Rank[w.sec] <= Rank[v.sec]
Valid(p, w) == bad[p] # NONE => Rank[w.sec] < Rank[bad[p]]
Remaining(rows, w) == rows \ {w}

WriteRow(p) ==
  /\ pc[p] = "work"
  /\ \E w \in pending[p] :
       /\ Due(p, w) /\ Valid(p, w)
       /\ db' = [db EXCEPT ![session[p]] = Written(w, @)]
       /\ pending' = [pending EXCEPT ![p] = Remaining(@, w)]
  /\ UNCHANGED <<session, pc, at, bad, job, verified, reply, acked>>

\* A section does not validate: the rows of the earlier ones stay.
RejectSection(p) ==
  /\ pc[p] = "work" /\ bad[p] # NONE
  /\ ~\E w \in pending[p] : Valid(p, w)
  /\ Close(p, "failed")
  /\ UNCHANGED <<db, at, verified, acked>>

\* The last row is in and the caller gets a success envelope.
Finish(p) ==
  /\ pc[p] = "work" /\ bad[p] = NONE /\ pending[p] = {}
  /\ acked' = [acked EXCEPT ![session[p]] = @ \cup job[p]]
  /\ Close(p, "success")
  /\ UNCHANGED <<db, at, verified>>

\* A process ends (killed, or its stdio client closed) and a fresh one takes
\* its place: the file lock and the process's memory go, the file stays.
Restart(p) ==
  /\ session' = [session EXCEPT ![p] = NONE]
  /\ pc' = [pc EXCEPT ![p] = "idle"]
  /\ at' = [at EXCEPT ![p] = 1]
  /\ pending' = [pending EXCEPT ![p] = {}]
  /\ bad' = [bad EXCEPT ![p] = NONE]
  /\ job' = [job EXCEPT ![p] = {}]
  /\ verified' = [verified EXCEPT ![p] = {}]
  /\ Reply(p, "none")
  /\ UNCHANGED <<db, acked>>

Step(p) == Migrate(p) \/ SchemaReady(p) \/ WriteRow(p) \/ RejectSection(p) \/ Finish(p)

Next ==
  \E p \in Procs :
    \/ \E c \in Cases : \/ CreateCase(p, c) \/ IngestRecords(p, c)
                        \/ RecordToolCall(p, c) \/ Query(p, c)
    \/ Step(p)
    \/ Restart(p)

Spec == Init /\ [][Next]_vars

\* A handler has no await between its open and its close, so it runs to its end
\* unless its process does.
FairSpec == Spec /\ \A p \in Procs : WF_vars(Step(p))

-----------------------------------------------------------------------------
(***************************************************************************)
(* Facts: what a row adds to its case, and what a case holds.  The case    *)
(* metadata is no fact: see README.md.                                     *)
(***************************************************************************)
Kinds == {"case", "entity", "reference", "field", "row"}
Fact(kind, id, of) == <<kind, id, of>>

EntityFacts(e, row) ==
  {Fact("entity", e, NONE)}
  \cup {Fact("reference", e, r) : r \in row.refs}
  \cup {Fact("field", e, o) : o \in {x \in Opts : row.opts[x] # NONE}}

FactsOf(w) ==
  CASE w.sec = "entities" -> EntityFacts(w.id, w.row)
    [] w.sec \in Tables -> {Fact("row", w.id, NONE)}
    [] w.sec = "case_metadata" -> {}
    [] w.sec = "cases" -> {Fact("case", NONE, NONE)}

FactsIn(d) ==
  {f \in {Fact("case", NONE, NONE)} : d.caseRow}
  \cup {Fact("row", k, NONE) : k \in {x \in Keys : d.records[x] # NONE}}
  \cup UNION {EntityFacts(e, d.entities[e]) :
                 e \in {x \in Entities : d.entities[x] # NONE}}

AllFacts ==
  {Fact("case", NONE, NONE)}
  \cup {Fact("row", k, NONE) : k \in Keys}
  \cup {Fact("entity", e, NONE) : e \in Entities}
  \cup {Fact("reference", e, r) : e \in Entities, r \in Refs}
  \cup {Fact("field", e, o) : e \in Entities, o \in Opts}

HypothesisFacts == {Fact("row", k, NONE) : k \in {x \in Keys : IsHypothesis(x)}}

Ledger == INSTANCE CaseLedger WITH
  Facts <- AllFacts,
  Disposable <- HypothesisFacts,
  facts <- [c \in Cases |-> FactsIn(db[c])],
  acked <- [c \in Cases |-> UNION {FactsOf(w) : w \in acked[c]}]

-----------------------------------------------------------------------------
(***************************************************************************)
(* Properties.                                                             *)
(***************************************************************************)

\* The store keeps the promise of CaseLedger: through upserts, merges,
\* migrations, crashes and competing processes no row, reference or field is
\* forgotten, and success is reported only for what is stored.
RefinesLedger == Ledger!Spec

\* What a caller was told is stored stays stored: every row of a request that
\* got a success envelope (case_mcp.py) is found by every later session.
AckedIsStored ==
  \A c \in Cases : \A w \in acked[c] : FactsOf(w) \subseteq FactsIn(db[c])

\* A handler never runs its statements on a schema other than the newest one,
\* although open_case_db skips the check for a path it has verified before:
\* neither a crash within a migration, nor a failed one, nor another process
\* makes the cached answer wrong.
WorkOnCurrentSchema ==
  \A p \in Procs : pc[p] = "work" => SchemaCurrent(db[session[p]])

\* schema_migrations lists a version only when that script's statements are
\* in, so the next process never skips one that is still needed.
LoggedIsApplied ==
  \A c \in Cases :
    LET d == db[c]
    IN /\ 1 \in d.log => {"schema_migrations", "tables"} \subseteq d.parts
       /\ 2 \in d.log => 1 \in d.log /\ "hypotheses_v2" \in d.parts
       /\ 3 \in d.log => 2 \in d.log /\ "column" \in d.parts

\* A stored row never cites a row that is not stored: claims come after their
\* evidence items and hypotheses after their claims, so an ingest that is cut
\* short, by a crash or by a section that does not validate, leaves no
\* dangling citation ("Processes in FK order", ingest.py).
NoDanglingCitation ==
  \A c \in Cases : \A k \in Keys :
    db[c].records[k] # NONE =>
      \A b \in Backing[k] : db[c].records[b] # NONE

\* Every request that got the file gives it back: no session waits forever,
\* so the lock it holds is released.
SessionsEnd ==
  \A p \in Procs : (session[p] # NONE) ~> (session[p] = NONE)

\* "Open (or create) a case database and ensure schema is current"
\* (store.py): whatever a crash left behind, opening brings it up to date.
OpeningUpgrades == \A p \in Procs : reply[p] # "schema_failed"
=============================================================================
