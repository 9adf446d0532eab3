---------------------------- MODULE ReplayDomain ----------------------------
(***************************************************************************)
(* What the tools of the identity and of the application server answer:    *)
(* the handlers of identity_mcp.py and app_mcp.py, their validation, and   *)
(* the selections of ReplayDomainIntegration from the files of a scenario. *)
(*                                                                         *)
(* A file is a sequence of keys for each of its three tables, in the order *)
(* of its lines; the columns are functions of the key.  Text is abstracted *)
(* to the words it contains.  The lists of an answer are sets: their order *)
(* is read by nobody, but their length may be the limit (full).            *)
(***************************************************************************)
EXTENDS Integers, Sequences, FiniteSets, FiniteSetsExt, SequencesExt

CONSTANTS
  EntityOf,   \* columns of an entity: type, kind, words of its name and of its id
  EventOf,    \* columns of an event: ts, action, actor, targets, outcome
  RelOf,      \* columns of a relationship: type, from, to, first, last
  Begins,     \* Begins[p]: the actions that begin with the prefix of p, "...*"
  Day,        \* length of a day in units of a timestamp
  MaxDays,    \* MAX_TIME_RANGE_DAYS, 90 in the code
  MaxLimit,   \* MAX_LIMIT, 2000 in the code
  MaxFound,   \* max_limit of search_entities, 500 in the code
  DefaultFound, \* its limit when none is given, 100 in the code
  MaxPrincipals, \* limit of resolve_principal, 50 in the code
  UNSET       \* a missing value

Times == Nat \ {0}

ASSUME DomainAssumption ==
  /\ {Day, MaxDays, MaxLimit, MaxFound, DefaultFound, MaxPrincipals} \subseteq Nat \ {0}
  /\ DefaultFound <= MaxFound /\ MaxFound <= MaxLimit
  /\ \A e \in DOMAIN EntityOf : "" \in EntityOf[e].name  \* the empty word is in every name
  /\ \A p \in DOMAIN Begins : p \in Begins[p]  \* a pattern begins with its prefix
  /\ \A k \in DOMAIN EventOf : EventOf[k].ts \in Times
  /\ \A r \in DOMAIN RelOf : {RelOf[r].first, RelOf[r].last} \subseteq Times \cup {UNSET}

Known(f) == ToSet(f.entities)

\* lo and hi of a request; both are UNSET in a request without a range.
NoRange == <<UNSET, UNSET>>

-----------------------------------------------------------------------------
(***************************************************************************)
(* Validation.                                                             *)
(***************************************************************************)
ValidRange(range) ==
  /\ UNSET \notin {range[1], range[2]}
  /\ range[1] <= range[2]
  /\ (range[2] - range[1]) \div Day <= MaxDays

ValidLimit(n) == n = UNSET \/ n >= 1
\* n, or the default of a missing limit, at most max.
Clamp(n, default, max) == IF n = UNSET THEN default ELSE Min({n, max})

ValidId(e) == e # UNSET

-----------------------------------------------------------------------------
(***************************************************************************)
(* Answers.                                                                *)
(***************************************************************************)
Answer(es, evs, rs, full) ==
  [ok |-> TRUE, entities |-> es, events |-> evs, rels |-> rs, full |-> full]
Refused == [ok |-> FALSE, entities |-> {}, events |-> {}, rels |-> {}, full |-> FALSE]

\* s[:n]: a negative n drops elements from the end.
Page(s, n) ==
  ToSet(SubSeq(s, 1, IF n >= 0 THEN Min({n, Len(s)}) ELSE Len(s) + n))

AppendHit(rows, x, hits) == IF x \in hits THEN Append(rows, x) ELSE rows
\* The rows, followed by those of s that are in hits, in the order of s.
WithHits(rows, s, hits) == FoldLeft(LAMBDA l, x : AppendHit(l, x, hits), rows, s)

AppendNew(rows, x) == IF x \in ToSet(rows) THEN rows ELSE Append(rows, x)
\* The rows, followed by those of s that are not yet there.
WithNew(rows, s) == FoldLeft(LAMBDA l, x : AppendNew(l, x), rows, s)

InRange(t, range) == range[1] <= t /\ t <= range[2]

-----------------------------------------------------------------------------
(***************************************************************************)
(* Entities.                                                               *)
(***************************************************************************)
GetEntity(f, e) ==
  IF ValidId(e) /\ e \in Known(f) THEN Answer({e}, {}, {}, FALSE) ELSE Refused

\* An empty filter selects everything.
Selected(x, filter) == filter = {} \/ x \in filter

EntityHits(f, word, types, kinds) ==
  {e \in Known(f) : /\ word \in EntityOf[e].name \cup EntityOf[e].id
                    /\ Selected(EntityOf[e].type, types)
                    /\ Selected(EntityOf[e].kind, kinds)}

FindEntities(f, word, types, kinds, n) ==
  LET hits == WithHits(<<>>, f.entities, EntityHits(f, word, types, kinds))
  IN Answer(Page(hits, n), {}, {}, Len(hits) >= n)

SearchEntities(f, word, types, kinds, limit) ==
  IF ValidLimit(limit)
  THEN FindEntities(f, word, types, kinds, Clamp(limit, DefaultFound, MaxFound))
  ELSE Refused

\* The limit is not validated.
ResolvePrincipal(f, word, limit) ==
  FindEntities(f, word, {"principal"}, {}, Min({limit, MaxPrincipals}))

-----------------------------------------------------------------------------
(***************************************************************************)
(* Events.                                                                 *)
(***************************************************************************)
\* An action is named exactly, or begins with a prefix.
ActionMatches(action, patterns) ==
  \/ patterns = {} \/ action \in patterns \ DOMAIN Begins
  \/ \E p \in patterns \cap DOMAIN Begins : action \in Begins[p]

EventMatches(k, q) ==
  /\ InRange(EventOf[k].ts, q.range)
  /\ ActionMatches(EventOf[k].action, q.actions)
  /\ Selected(EventOf[k].actor, q.actors)
  /\ q.targets = {} \/ EventOf[k].targets \cap q.targets # {}

EventHits(f, q) == {k \in ToSet(f.events) : EventMatches(k, q)}

\* Mutant: the limit is applied to the file, not to what matches.
CutThenFilter(f, q, n) ==
  WithHits(<<>>, SubSeq(f.events, 1, Min({n, Len(f.events)})), EventHits(f, q))
Matching(f, q, n) == WithHits(<<>>, f.events, EventHits(f, q))

Referenced(events) ==
  {EventOf[k].actor : k \in events} \cup (UNION {EventOf[k].targets : k \in events})

\* Mutant: entities the file does not describe are answered too.
AllReferenced(f, events) == Referenced(events)
\* Mutant: only the actors of the events are answered with them.
ActorsOnly(f, events) == {EventOf[k].actor : k \in events} \cap Known(f)
EntitiesOf(f, events) == Referenced(events) \cap Known(f)

FindEvents(f, q, n) ==
  LET hits == Matching(f, q, n)
      events == Page(hits, n)
  IN Answer(EntitiesOf(f, events), events, {}, Len(hits) >= n)

SearchEvents(f, q) ==
  IF ValidRange(q.range) /\ ValidLimit(q.limit)
  THEN FindEvents(f, q, Clamp(q.limit, MaxLimit, MaxLimit))
  ELSE Refused

\* The principal's own credential operations.
ListCredentialChanges(f, p, range) ==
  IF ValidRange(range)
  THEN FindEvents(f, [range |-> range, actions |-> {"credential.*"}, actors |-> {p},
                      targets |-> {}], MaxLimit)
  ELSE Refused

-----------------------------------------------------------------------------
(***************************************************************************)
(* Relationships.                                                          *)
(***************************************************************************)
\* Bounds that are missing match any range or are replaced by the other one.
Overlaps(r, range) ==
  LET first == RelOf[r].first  last == RelOf[r].last
  IN CASE first = UNSET /\ last = UNSET -> TRUE
       [] first # UNSET /\ last # UNSET -> last >= range[1] /\ first <= range[2]
       [] first # UNSET /\ last = UNSET -> InRange(first, range)
       [] first = UNSET /\ last # UNSET -> InRange(last, range)

Wanted(r, q) ==
  /\ Selected(RelOf[r].type, q.types)
  /\ q.range = NoRange \/ Overlaps(r, q.range)

Leaving(f, e, q) == {r \in ToSet(f.rels) : RelOf[r].from = e /\ Wanted(r, q)}
Entering(f, e, q) == {r \in ToSet(f.rels) : RelOf[r].to = e /\ Wanted(r, q)}

\* Mutant: relationships are followed from their first entity only.
Outgoing(f, e, q) == WithHits(<<>>, f.rels, Leaving(f, e, q))
\* Those that leave e, then those that enter it: a loop is in both.
RelsAt(f, e, q) ==
  WithHits(WithHits(<<>>, f.rels, Leaving(f, e, q)), f.rels, Entering(f, e, q))

Others(rels, e) == (UNION {{RelOf[r].from, RelOf[r].to} : r \in rels}) \ {e}

\* The relationships of the second hop, neighbour by neighbour.
FollowAll(f, rels, order, q) ==
  FoldLeft(LAMBDA rows, n : WithNew(rows, RelsAt(f, n, q)), rels, order)

\* The possible answers.  Neighbours are taken from a Python set, whose order
\* decides what the limit cuts; entities and relationships are cut separately.
FindNeighbors(f, q, n) ==
  LET near == RelsAt(f, q.start, q)
      hop1 == Others(ToSet(near), q.start)
      hop2 == hop1 \cup (UNION {Others(ToSet(RelsAt(f, m, q)), m) : m \in hop1})
      ids == (IF q.depth >= 2 THEN hop2 \ {q.start} ELSE hop1) \cap Known(f)
      lists == IF q.depth >= 2 THEN {FollowAll(f, near, o, q) : o \in SetToSeqs(hop1)}
               ELSE {near}
  IN {Answer(es, {}, Page(rels, n), Cardinality(ids) >= n \/ Len(rels) >= n) :
        es \in kSubset(Min({n, Cardinality(ids)}), ids), rels \in lists}

\* A range is given by both of its ends or by none.
GetNeighbors(f, q) ==
  IF /\ ValidId(q.start) /\ ValidLimit(q.limit)
     /\ q.range = NoRange \/ ValidRange(q.range)
  THEN FindNeighbors(f, [q EXCEPT !.depth = Min({q.depth, 2})],
                     Clamp(q.limit, MaxLimit, MaxLimit))
  ELSE {Refused}
=============================================================================
