------------------------------ MODULE Evidence ------------------------------
(***************************************************************************)
(* What Blindsight reads out of the events it collected before it states   *)
(* claims: whom a target belongs to, which principals are focal, and the   *)
(* aggregated facts (lifecycle chains, shared indicators, credential       *)
(* sequences, action bursts).                                              *)
(*                                                                         *)
(* An event is a record with its time in minutes, its action, its actor,   *)
(* its targets, its source address (or NoIP) and two flags: whether it     *)
(* failed and whether its context says cross_account.  Collections of      *)
(* events are sets: the code never looks at an order other than time.      *)
(***************************************************************************)
EXTENDS Naturals, Integers, Sequences, FiniteSets, FiniteSetsExt, SequencesExt

CONSTANTS Principals,     \* principals the identity domain knows
          Relationships,  \* [from, to] of the ownership types, in order
          Nobody,         \* no principal
          NoIP            \* an event without a source address

CredentialActions == {"reset", "enroll", "revoke"}
LifecycleActions == {"create", "delete", "disable"}
PrivilegeActions == {"grant"}

IsEvidence(e) == e.action # "login"
EvidenceOf(events) == {e \in events : IsEvidence(e)}

WithinMinutes(d, e, n) == LET gap == e.ts - d.ts IN gap <= n /\ -gap <= n

-----------------------------------------------------------------------------
(***************************************************************************)
(* Ownership.  A relationship between a principal and something that is    *)
(* not one makes the principal its owner; of several the last one counts.  *)
(***************************************************************************)
Owns(i, p, t, ids) ==
  LET r == Relationships[i] IN
  \/ r.from = p /\ r.to = t /\ p \in ids /\ t \notin ids
  \/ r.to = p /\ r.from = t /\ p \in ids /\ t \notin ids

LastClaim(t, ids) ==
  {i \in DOMAIN Relationships :
     /\ \E p \in ids : Owns(i, p, t, ids)
     /\ \A j \in DOMAIN Relationships : j > i => ~ \E p \in ids : Owns(j, p, t, ids)}

\* The owners of one target: the principal itself, or the one that owns it.
Resolve(t, ids) ==
  IF t \in ids THEN {t}
  ELSE {p \in ids : \E i \in LastClaim(t, ids) : Owns(i, p, t, ids)}

TargetPrincipals(e, ids) == UNION {Resolve(t, ids) : t \in e.targets}

-----------------------------------------------------------------------------
(***************************************************************************)
(* Focal principals: those active in the evidence, those the hint or a     *)
(* unique match of the question names, or all of them when nobody is.      *)
(***************************************************************************)
ActorCount(p, evidence) == Cardinality({e \in evidence : e.actor = p})
\* Mutant: only actors count.
NoTarget(p, evidence) == 0
TargetCount(p, evidence) ==
  Cardinality({x \in evidence \X UNION {e.targets : e \in evidence} :
                 x[2] \in x[1].targets /\ p \in Resolve(x[2], Principals)})
Activity(p, evidence) == ActorCount(p, evidence) + TargetCount(p, evidence)

Involved(evidence) == {p \in Principals : Activity(p, evidence) > 0}

\* hint is a principal or Nobody; named are the principals the question names.
Focal(evidence, hint, named) ==
  LET active == Involved(evidence)
      byHint == hint # Nobody
      byName == {p \in named : ~ byHint /\ Cardinality(named) = 1
                                 /\ (p \in active \/ active = {})}
      chosen == active \cup byName \cup (IF byHint THEN {hint} ELSE {})
      top == {p \in chosen : \A q \in chosen : Activity(q, evidence) <= Activity(p, evidence)}
  IN [ids |-> IF chosen = {} THEN Principals ELSE chosen,
      primary |-> IF byHint THEN hint
                  ELSE IF byName # {} THEN CHOOSE p \in byName : TRUE
                  ELSE IF Cardinality(top) = 1 THEN CHOOSE p \in top : TRUE
                  ELSE Nobody]

-----------------------------------------------------------------------------
(***************************************************************************)
(* Clusters: the events in order of time, cut wherever the next event is   *)
(* more than n minutes after the one before it.                            *)
(***************************************************************************)
InTime(events) ==
  CHOOSE s \in SetToSeqs(events) : \A i, j \in DOMAIN s : i < j => s[i].ts <= s[j].ts

\* Mutant: the next event is compared with the first of the cluster.
NearFirst(cluster, e, n) == WithinMinutes(Head(cluster), e, n)
Continues(cluster, e, n) == WithinMinutes(cluster[Len(cluster)], e, n)

Place(clusters, e, n) ==
  IF Continues(clusters[Len(clusters)], e, n)
  THEN [clusters EXCEPT ![Len(clusters)] = Append(@, e)]
  ELSE Append(clusters, <<e>>)

Clusters(events, n) ==
  LET order == InTime(events)
      clusters == FoldLeft(LAMBDA cs, e : Place(cs, e, n), <<<<Head(order)>>>>, Tail(order))
  IN IF events = {} THEN {} ELSE {ToSet(cluster) : cluster \in ToSet(clusters)}

\* What a cluster is: a set of events joined by gaps of at most n minutes that
\* cannot be extended.
Joined(events, C, n) ==
  /\ C # {} /\ C \subseteq events
  /\ \A d, e \in C : d.ts < e.ts =>
       \E f \in C : d.ts < f.ts /\ WithinMinutes(d, f, n)
  /\ \A e \in events \ C : \A d \in C : ~ WithinMinutes(d, e, n)

-----------------------------------------------------------------------------
(***************************************************************************)
(* Aggregated facts: the events a fact is about, which tell it from the    *)
(* others of its type, and all the events it rests on.                     *)
(***************************************************************************)
Fact(cat, conf, about, of) == [cat |-> cat, conf |-> conf, about |-> about, of |-> of]

LifecycleChains(evidence) ==
  {Fact("lifecycle_chain", 85, C, C) :
     C \in {D \in Clusters({e \in evidence : e.action \in LifecycleActions}, 30) :
              Cardinality(D) >= 2}}

WithIP(events, ip) == {e \in events : e.ip = ip}
IPs(events) == {e.ip : e \in events} \ {NoIP}

SharedIndicators(events, ids) ==
  LET byFocal == {e \in events : e.actor \in ids} IN
  {Fact("shared_indicator", 80, WithIP(byFocal, ip), WithIP(byFocal, ip)) :
     ip \in {i \in IPs(byFocal) : Cardinality({e.actor : e \in WithIP(byFocal, i)}) >= 2}}

FollowOn(op, events, ids) ==
  {e \in events : /\ e.actor \in TargetPrincipals(op, ids)
                  /\ WithinMinutes(op, e, 30) /\ e # op}

CrossAccount(e, ids) ==
  TargetPrincipals(e, ids) # {} /\ e.actor \notin TargetPrincipals(e, ids)

CredentialSequences(evidence, events, ids) ==
  {Fact("credential_sequence", 90, {op}, {op} \cup FollowOn(op, events, ids)) :
     op \in {e \in evidence : /\ e.action \in CredentialActions
                              /\ CrossAccount(e, ids)
                              /\ FollowOn(e, events, ids) # {}}}

ActionBursts(evidence) ==
  UNION {{Fact("action_burst", 70, C, C) :
            C \in {D \in Clusters({e \in evidence : e.action = a}, 15) :
                     Cardinality(D) >= 3}} : a \in {e.action : e \in evidence}}

AggregateEvidence(evidence, events, ids) ==
  LifecycleChains(evidence) \cup SharedIndicators(events, ids)
  \cup CredentialSequences(evidence, events, ids) \cup ActionBursts(evidence)
=============================================================================
