---------------------------- MODULE Correlation ----------------------------
(***************************************************************************)
(* From the domains to the case: a caller asks the identity and the        *)
(* application server, ingests answers into a case in any order, or drops  *)
(* them, and questions the case.  CaseStore shows that an ingest stores    *)
(* rows whatever happens meanwhile; here is what the rows are and what the *)
(* queries of the case make of them.                                       *)
(***************************************************************************)
EXTENDS CaseQueries

CONSTANTS
  Domains,           \* the domain servers
  Catalog,           \* functions from Domains to files: the scenarios
  Ids, Words, Types, Kinds, Ranges, Limits,  \* values of arguments
  EventRequests,     \* arguments of search_events
  NeighborRequests   \* arguments of get_neighbors

ASSUME CatalogAssumption ==
  /\ "identity" \in Domains
  /\ \A scenario \in Catalog : \A d \in Domains :
       /\ scenario[d].entities \in Seq(DOMAIN EntityOf)
       /\ scenario[d].events \in Seq(DOMAIN EventOf)
       /\ scenario[d].rels \in Seq(DOMAIN RelOf)

\* What the schemas of the tools admit.
ASSUME RequestAssumption ==
  /\ Words \subseteq DOMAIN ILike
  /\ Limits \subseteq Int \cup {UNSET}
  /\ \A q \in EventRequests :
       /\ q.limit \in Int \cup {UNSET}
       /\ {q.range[1], q.range[2]} \subseteq Times \cup {UNSET}
       /\ IsFiniteSet(q.actors) /\ IsFiniteSet(q.targets)
  /\ \A q \in NeighborRequests :
       q \in [start : {q.start}, types : {q.types}, range : {q.range},
              depth : Int, limit : Int \cup {UNSET}]

VARIABLES
  files,  \* files[d]: what the server of d answers from
  answer, \* the last answer, its domain and its request, until it is ingested
  case    \* the rows of the tables entities, events and relationships

vars == <<files, answer, case>>

NoAnswer == [tool |-> "none"]
EmptyCase == [entities |-> {}, events |-> {}, rels |-> {}]

Init ==
  /\ files \in Catalog
  /\ answer = NoAnswer
  /\ case = EmptyCase

Told(tool, d, q, a) ==
  /\ answer' = [tool |-> tool, domain |-> d, asked |-> q, is |-> a]
  /\ UNCHANGED <<files, case>>

-----------------------------------------------------------------------------
\* get_entity, get_principal.
AskEntity(d) == \E e \in Ids \cup {UNSET} : Told("get_entity", d, e, GetEntity(files[d], e))

AskEntities(d) ==
  \E word \in Words, types \in Types, kinds \in Kinds, n \in Limits :
    Told("search_entities", d, [word |-> word, types |-> types],
         SearchEntities(files[d], word, types, kinds, n))

AskPrincipal ==
  \E word \in Words, n \in Limits \ {UNSET} :
    Told("resolve_principal", "identity", [word |-> word, types |-> {"principal"}],
         ResolvePrincipal(files["identity"], word, n))

AskEvents(d) ==
  \E q \in EventRequests : Told("search_events", d, q, SearchEvents(files[d], q))

AskCredentialChanges ==
  \E p \in Ids, range \in Ranges :
    Told("list_credential_changes", "identity", [actor |-> p, range |-> range],
         ListCredentialChanges(files["identity"], p, range))

AskNeighbors(d) ==
  \E q \in NeighborRequests : \E a \in GetNeighbors(files[d], q) :
    Told("get_neighbors", d, q, a)

\* ingest_records of the answer.
Ingest ==
  /\ answer # NoAnswer
  /\ case' = [entities |-> case.entities \cup answer.is.entities,
              events |-> case.events \cup answer.is.events,
              rels |-> case.rels \cup answer.is.rels]
  /\ answer' = NoAnswer
  /\ UNCHANGED files

Ask ==
  \/ \E d \in Domains : AskEntity(d) \/ AskEntities(d) \/ AskEvents(d) \/ AskNeighbors(d)
  \/ AskPrincipal \/ AskCredentialChanges

Next == (answer = NoAnswer /\ Ask) \/ Ingest

Spec == Init /\ [][Next]_vars

-----------------------------------------------------------------------------
(***************************************************************************)
(* Properties.                                                             *)
(***************************************************************************)
Within(x, f) ==
  /\ x.entities \subseteq Known(f)
  /\ x.events \subseteq ToSet(f.events)
  /\ x.rels \subseteq ToSet(f.rels)

\* Whatever is answered and stored is from the files: no answer describes an
\* entity its domain does not know.
TypeOK ==
  /\ files \in Catalog
  /\ answer # NoAnswer => Within(answer.is, files[answer.domain])
  /\ case.entities \subseteq UNION {Known(files[d]) : d \in Domains}
  /\ case.events \subseteq DOMAIN EventOf /\ case.rels \subseteq DOMAIN RelOf

\* Every stored event is from a domain all of whose entities among its actor and
\* targets are stored, so that follow-up queries can name them: answers are cut in
\* the right place, wherever the limit falls and whatever else was ingested.
EventsCanBeFollowed ==
  \A k \in case.events : \E d \in Domains :
    /\ k \in ToSet(files[d].events)
    /\ Referenced({k}) \cap Known(files[d]) \subseteq case.entities

\* No answer carries a page token, so a caller goes by the number of rows: a
\* list of events that is shorter than its limit holds every event asked for,
\* in the terms of the request and not of the code.
ShortAnswerIsComplete ==
  answer # NoAnswer /\ answer.tool = "search_events" /\ answer.is.ok /\ ~ answer.is.full =>
    LET q == answer.asked
    IN \A k \in ToSet(files[answer.domain].events) :
         /\ q.range[1] <= EventOf[k].ts /\ EventOf[k].ts <= q.range[2]
         /\ \/ q.actions = {} \/ EventOf[k].action \in q.actions
            \/ \E p \in q.actions \cap DOMAIN Begins : EventOf[k].action \in Begins[p]
         /\ q.actors = {} \/ EventOf[k].actor \in q.actors
         /\ q.targets = {} \/ EventOf[k].targets \cap q.targets # {}
         => k \in answer.is.events

\* r connects a and b, in either direction.
Connects(r, a, b) == {RelOf[r].from, RelOf[r].to} = {a, b}

\* A traversal that no limit cut answers the entities at most depth steps away
\* from its start, by relationships of the wanted types and time in either
\* direction, and every relationship it went along.
TraversalIsExact ==
  answer # NoAnswer /\ answer.tool = "get_neighbors" /\ answer.is.ok /\ ~ answer.is.full =>
    LET q == answer.asked
        f == files[answer.domain]
        usable == {r \in ToSet(f.rels) : Wanted(r, q)}
        ends == UNION {{RelOf[r].from, RelOf[r].to} : r \in usable}
        Next2(a, b) == a # b /\ \E r \in usable : Connects(r, a, b)
        near == {b \in ends : Next2(q.start, b)}
        far == IF q.depth >= 2 THEN {b \in ends : \E a \in near : Next2(a, b)} ELSE {}
        visited == {q.start} \cup (IF q.depth >= 2 THEN near ELSE {})
    IN /\ answer.is.entities = ((near \cup far) \ {q.start}) \cap Known(f)
       /\ answer.is.rels = {r \in usable : {RelOf[r].from, RelOf[r].to} \cap visited # {}}

\* The neighbours a caller saw are the neighbours the case names afterwards: a
\* complete one-step answer, once ingested, is found again by
\* query_neighbors_tool although that one joins rows the caller cannot see, as
\* long as its own limit does not cut.
NeighborsSurviveIngest ==
  [][Ingest /\ answer.tool = "get_neighbors" /\ ~ answer.is.full /\ answer.is.ok
     /\ answer.asked.depth < 2
     /\ Cardinality(Joined(case', answer.asked.start, answer.asked.types)) <= MaxLimit
     => \A e \in answer.is.entities :
          \A rows \in QueryNeighbors(case', answer.asked.start, answer.asked.types, MaxLimit) :
            \E r \in answer.is.rels : <<e, r>> \in rows]_vars

\* q as a question to the case: one actor and one target.
Asked(q, outcome) ==
  [range |-> q.range, actions |-> q.actions,
   actor |-> IF q.actors = {} THEN UNSET ELSE CHOOSE a \in q.actors : TRUE,
   target |-> IF q.targets = {} THEN UNSET ELSE CHOOSE t \in q.targets : TRUE,
   outcome |-> outcome]

Outcomes == {UNSET} \cup {EventOf[k].outcome : k \in case.events}

\* A stored event that a domain answers to a question is answered by the case
\* to the same question, and to the question for the events of its outcome;
\* and it is in the timeline of the range and actor.
EventAnswersAgree ==
  \A q \in EventRequests :
    ValidRange(q.range) /\ Cardinality(q.actors) <= 1 /\ Cardinality(q.targets) <= 1 =>
      LET known == UNION {FindEvents(files[d], q, MaxLimit).events : d \in Domains}
      IN /\ \A outcome \in Outcomes : \A rows \in QueryEvents(case, Asked(q, outcome), MaxLimit) :
              Cardinality(rows) < MaxLimit =>
                \A k \in known \cap case.events :
                  outcome = UNSET \/ EventOf[k].outcome = outcome => k \in rows
         /\ \A rows \in GetTimeline(case, q.range, Asked(q, UNSET).actor, MaxLimit) :
              Cardinality(rows) < MaxLimit => known \cap case.events \subseteq rows

\* A stored entity that a domain finds by a word in its name is found by it in
\* the case; and an entity that the case finds is found by a domain, unless the
\* word holds a wildcard.
EntityAnswersAgree ==
  \A word \in Words, types \in Types, kinds \in Kinds :
    LET Found(d) == FindEntities(files[d], word, types, kinds, MaxFound)
    IN \A rows \in QueryEntities(case, word, types, kinds, MaxLimit) :
         /\ Cardinality(rows) < MaxLimit =>
              \A d \in Domains : \A e \in Found(d).entities \cap case.entities :
                word \in EntityOf[e].name => e \in rows
         /\ ILike[word] = {word} =>
              \A e \in rows : \E d \in Domains :
                e \in Found(d).entities \/ (Found(d).full /\ e \in Known(files[d]))

\* The case answers like the domains, although the selections are written twice.
\* Of an answer that its limit may have cut nothing is said: one that has as
\* many rows as the limit admits.
CaseAnswersLikeDomain == answer = NoAnswer => EventAnswersAgree /\ EntityAnswersAgree
=============================================================================
