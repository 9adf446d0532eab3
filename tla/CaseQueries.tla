---------------------------- MODULE CaseQueries ----------------------------
(***************************************************************************)
(* What the correlation queries of the case server answer (query.py):      *)
(* selections from the stored rows, written in SQL and independent of      *)
(* those of the domain servers.  s holds the keys stored in the tables     *)
(* entities, events and relationships.                                     *)
(***************************************************************************)
EXTENDS ReplayDomain

CONSTANTS
  Like,      \* Like[p]: the actions LIKE the prefix of p, where _ is a wildcard
  ILike,     \* ILike[w]: the words that w stands for between two %, as a pattern
  NameOrder  \* NameOrder[e]: place of e's display name in the alphabet

ASSUME QueryAssumption ==
  /\ DOMAIN Like = DOMAIN Begins
  /\ \A p \in DOMAIN Begins : Begins[p] \subseteq Like[p]
  /\ \A w \in DOMAIN ILike : w \in ILike[w]
  /\ \A e \in DOMAIN EntityOf : NameOrder[e] \in Nat

\* The possible answers of ORDER BY ... LIMIT: the first n rows by rank.
\* (A limit is a non-negative number here: the tools pass it on unchecked.)
First(rows, n, Rank(_)) ==
  {S \in kSubset(Min({n, MaxLimit, Cardinality(rows)}), rows) :
     \A a \in S : \A b \in rows \ S : Rank(a) <= Rank(b)}

\* The name is searched, not the id, and _ and % are wildcards in the word.
NamedEntities(s, word, types, kinds) ==
  {e \in s.entities : /\ Selected(EntityOf[e].type, types)
                      /\ Selected(EntityOf[e].kind, kinds)
                      /\ word = "" \/ ILike[word] \cap EntityOf[e].name # {}}

QueryEntities(s, word, types, kinds, n) ==
  First(NamedEntities(s, word, types, kinds), n, LAMBDA e : NameOrder[e])

\* An end of the range may be missing.
StoredInRange(k, range) ==
  /\ range[1] = UNSET \/ range[1] <= EventOf[k].ts
  /\ range[2] = UNSET \/ EventOf[k].ts <= range[2]

\* Mutant: prefixes are looked at only if no action is named exactly.
ExactFirst(action, patterns) ==
  \/ patterns = {} \/ action \in patterns \ DOMAIN Like
  \/ /\ patterns \subseteq DOMAIN Like
     /\ \E p \in patterns : action \in Like[p]
ActionIsLike(action, patterns) ==
  \/ patterns = {} \/ action \in patterns \ DOMAIN Like
  \/ \E p \in patterns \cap DOMAIN Like : action \in Like[p]

\* One actor, one target and one outcome at most.
MatchingRows(s, q) ==
  {k \in s.events : /\ StoredInRange(k, q.range)
                    /\ ActionIsLike(EventOf[k].action, q.actions)
                    /\ q.actor = UNSET \/ EventOf[k].actor = q.actor
                    /\ q.target = UNSET \/ q.target \in EventOf[k].targets
                    /\ q.outcome = UNSET \/ EventOf[k].outcome = q.outcome}

\* The newest first.
QueryEvents(s, q, n) == First(MatchingRows(s, q), n, LAMBDA k : -EventOf[k].ts)

\* The oldest first.
GetTimeline(s, range, actor, n) ==
  First(MatchingRows(s, [range |-> range, actions |-> {}, actor |-> actor,
                         target |-> UNSET, outcome |-> UNSET]),
        n, LAMBDA k : EventOf[k].ts)

\* Mutant: relationships are joined at their second entity only.
EnteredOnly(s, e, types) ==
  {row \in s.entities \X s.rels :
     /\ RelOf[row[2]].from = e /\ RelOf[row[2]].to = row[1]
     /\ Selected(RelOf[row[2]].type, types)}
\* SELECT ... FROM entities JOIN relationships.
Joined(s, e, types) ==
  {row \in s.entities \X s.rels :
     LET r == RelOf[row[2]]
     IN /\ \/ r.to = row[1] /\ r.from = e
           \/ r.from = row[1] /\ r.to = e
        /\ Selected(r.type, types)}

\* LIMIT without ORDER BY.
QueryNeighbors(s, e, types, n) ==
  LET rows == Joined(s, e, types) IN kSubset(Min({n, MaxLimit, Cardinality(rows)}), rows)
=============================================================================
