------------------------------ MODULE Scoring ------------------------------
(***************************************************************************)
(* The claims Blindsight states about the evidence, the pattern it         *)
(* classifies them as, and the likelihood it gives that pattern.           *)
(*                                                                         *)
(* Confidences are whole percentages.  A claim carries its category, its   *)
(* confidence, the events it speaks about and the evidence it cites; the   *)
(* two are kept apart because most builders cite all the evidence.  The    *)
(* list of claims is a set: no two claims of a category are about the same *)
(* events.                                                                 *)
(***************************************************************************)
EXTENDS Evidence

Claim(cat, conf, about, backing) ==
  [cat |-> cat, conf |-> conf, about |-> about, backing |-> backing]

When(holds, claims) == {c \in claims : holds}

-----------------------------------------------------------------------------
(***************************************************************************)
(* Claim builders.  ids are the focal principals.                          *)
(***************************************************************************)
\* Mutant: own activity beside cross-actor activity goes unmentioned.
OwnAlone(own, cross) == own # {} /\ cross = {}
OwnActivity(own, cross) == own # {}

ActorClaims(evidence, ids, complete) ==
  LET acts == {e \in evidence : e.action \notin PrivilegeActions}
      own == {e \in acts : TargetPrincipals(e, ids) \subseteq {e.actor}}
      cross == acts \ own
      weight == IF cross # {} THEN 70 ELSE IF complete THEN 95 ELSE 60
  IN When(cross # {}, {Claim("cross_actor", 90, cross, evidence)})
     \cup When(OwnActivity(own, cross), {Claim("self_directed", weight, own, evidence)})

IPClaims(events, evidence, complete) ==
  LET ips == IPs(events)
      many == Cardinality(ips) > 1
      By(a) == {e \in events : e.actor = a}
      ActorsAt(ip) == {e.actor : e \in WithIP(events, ip)}
  IN When(ips = {}, {Claim("no_ip", 50, {}, evidence)})
     \cup When(Cardinality(ips) = 1,
               {Claim("single_ip", IF complete THEN 90 ELSE 50, WithIP(events, ip), evidence) :
                  ip \in ips})
     \cup {Claim("shared_ip", 85, WithIP(events, ip), evidence) :
             ip \in {i \in ips : many /\ Cardinality(ActorsAt(i)) > 1}}
     \cup {Claim("ip_shift", 80, By(a), evidence) :
             a \in {b \in {e.actor : e \in events} : Cardinality(IPs(By(b))) > 1}}

CredentialClaims(evidence, ids) ==
  {IF CrossAccount(e, ids) \/ e.flagged
   THEN Claim("cross_account_credential", 95, {e}, evidence)
   ELSE Claim("self_credential", 80, {e}, evidence) :
     e \in {d \in evidence : d.action \in CredentialActions}}

LifecycleCategory ==
  [create |-> "lifecycle_create", delete |-> "lifecycle_delete",
   disable |-> "lifecycle_disable"]

LifecycleClaims(evidence) ==
  {Claim(LifecycleCategory[e.action], 90, {e}, evidence) :
     e \in {d \in evidence : d.action \in LifecycleActions}}

PrivilegeClaims(evidence, ids) ==
  {IF e.failed THEN Claim("privilege_failed", 85, {e}, evidence)
   ELSE IF e.actor \in TargetPrincipals(e, ids) \cup e.targets
   THEN Claim("privilege_self_grant", 95, {e}, evidence)
   ELSE Claim("privilege_grant", 80, {e}, evidence) :
     e \in {d \in evidence : d.action \in PrivilegeActions}}

TemporalClaims(evidence) ==
  {Claim("temporal_cluster", 70, C, evidence) :
     C \in {D \in Clusters(evidence, 10) : Cardinality(D) >= 3}}

FailedClaims(evidence) ==
  {Claim("failed_outcome", 80, {e}, evidence) : e \in {d \in evidence : d.failed}}

\* The coverage claim cites the last item of the evidence, whose order is that
\* of the source.
CoverageClaims(evidence, complete) ==
  When(~ complete,
       {Claim("coverage_gap", 100, {},
              IF evidence = {} THEN {} ELSE {CHOOSE e \in evidence : TRUE})})

\* Mutant: a fact cites all its events, background logins included.
WholeFact(f, evidence) == f.of
CitedBy(f, evidence) == IF f.of \cap evidence = {} THEN evidence ELSE f.of \cap evidence

FactClaims(facts, evidence) ==
  {Claim(f.cat, f.conf, f.about, CitedBy(f, evidence)) : f \in facts}

BuildClaims(events, ids, facts, complete) ==
  LET evidence == EvidenceOf(events) IN
  ActorClaims(evidence, ids, complete)
  \cup IPClaims(events, evidence, complete)
  \cup CredentialClaims(evidence, ids) \cup LifecycleClaims(evidence)
  \cup PrivilegeClaims(evidence, ids) \cup TemporalClaims(evidence)
  \cup FailedClaims(evidence) \cup CoverageClaims(evidence, complete)
  \cup FactClaims(facts, evidence)

-----------------------------------------------------------------------------
(***************************************************************************)
(* Patterns, in the order the classifier considers them.  A claim whose    *)
(* category a pattern does not mention stays neutral.                      *)
(***************************************************************************)
Patterns == <<"credential_takeover", "privilege_escalation", "account_manipulation",
              "coordinated_cross_account", "cross_account", "legitimate_self_service">>

Lifecycle == {"lifecycle_create", "lifecycle_delete", "lifecycle_disable"}

\* Mutants: the cross-account pattern lost its own category; a coverage gap
\* counts as a sign of it.
WithoutItself == {"temporal_cluster"}
WithGaps == {"cross_actor", "temporal_cluster", "coverage_gap"}
CrossAccountSupport == {"cross_actor", "temporal_cluster"}

Supports(pattern) ==
  CASE pattern = "credential_takeover" ->
         {"cross_account_credential", "cross_actor", "shared_ip", "lifecycle_delete",
          "failed_outcome", "temporal_cluster", "lifecycle_chain", "shared_indicator",
          "credential_sequence", "action_burst"}
    [] pattern = "privilege_escalation" ->
         {"privilege_self_grant", "privilege_grant", "privilege_failed", "cross_actor",
          "temporal_cluster", "action_burst"}
    [] pattern = "account_manipulation" ->
         Lifecycle \cup {"cross_actor", "temporal_cluster", "lifecycle_chain", "action_burst"}
    [] pattern = "coordinated_cross_account" ->
         {"cross_actor", "shared_ip", "temporal_cluster", "shared_indicator", "action_burst"}
    [] pattern = "cross_account" -> CrossAccountSupport
    [] pattern = "legitimate_self_service" -> {"self_directed", "self_credential", "single_ip"}
    [] OTHER -> {}

Contradicts(pattern) ==
  CASE pattern = "legitimate_self_service" ->
         {"cross_actor", "shared_ip", "cross_account_credential"}
    [] pattern = "credential_takeover" -> {"self_directed", "self_credential"}
    [] pattern \in {"account_manipulation", "coordinated_cross_account", "cross_account"} ->
         {"self_directed"}
    [] OTHER -> {}

\* Mutant: a credential operation alone makes a takeover.
OperationOnly == {"cross_account_credential"}
TakeoverSignals == {"cross_account_credential", "cross_actor"}

Signalled(pattern, cats) ==
  CASE pattern = "credential_takeover" -> TakeoverSignals \subseteq cats
    [] pattern = "privilege_escalation" -> "privilege_self_grant" \in cats
    [] pattern = "account_manipulation" -> cats \cap Lifecycle # {}
    [] pattern = "coordinated_cross_account" -> {"cross_actor", "shared_ip"} \subseteq cats
    [] pattern = "cross_account" -> "cross_actor" \in cats /\ "shared_ip" \notin cats
    [] OTHER -> "self_directed" \in cats /\ "cross_actor" \notin cats

Matching(claims, pattern) ==
  Cardinality({c \in claims : c.cat \in Supports(pattern) \cup Contradicts(pattern)})

\* The candidate with most matching claims; of equals the first considered.
ClassifyPattern(claims) ==
  LET candidates == {i \in DOMAIN Patterns : Signalled(Patterns[i], {c.cat : c \in claims})}
      Count(i) == Matching(claims, Patterns[i])
      best == {i \in candidates : \A j \in candidates :
                 Count(j) < Count(i) \/ (Count(j) = Count(i) /\ i <= j)}
  IN IF candidates = {} THEN "unclear" ELSE Patterns[CHOOSE i \in best : TRUE]

-----------------------------------------------------------------------------
(***************************************************************************)
(* Likelihood.                                                             *)
(***************************************************************************)
Supporting(claims, pattern) == {c \in claims : c.cat \in Supports(pattern)}
Contradicting(claims, pattern) == {c \in claims : c.cat \in Contradicts(pattern)}

Weight(claims) == MapThenSumSet(LAMBDA c : c.conf, claims)

\* Mutant: the supporting claims alone.
SupportAlone(pct, claims, pattern, evidence) ==
  LET for == Supporting(claims, pattern) IN
  IF for # {} THEN Weight(for) >= pct * Cardinality(for)
  ELSE (IF evidence # {} THEN 50 ELSE 30) >= pct

\* Whether the score is at least pct percent: the supporting share of the weight
\* when both sides have claims, else the mean confidence of the side that has.
AtLeast(pct, claims, pattern, evidence) ==
  LET for == Supporting(claims, pattern)
      against == Contradicting(claims, pattern)
      one == IF for # {} THEN for ELSE against
  IN IF for # {} /\ against # {}
     THEN 100 * Weight(for) >= pct * (Weight(for) + Weight(against))
     ELSE IF one # {} THEN Weight(one) >= pct * Cardinality(one)
     ELSE (IF evidence # {} THEN 50 ELSE 30) >= pct

ScoreLikelihood(claims, pattern, evidence) ==
  IF AtLeast(70, claims, pattern, evidence) THEN "high"
  ELSE IF AtLeast(50, claims, pattern, evidence) THEN "medium"
  ELSE "low"
=============================================================================
