------------------------------ MODULE Analysis ------------------------------
(***************************************************************************)
(* The analysis half of an investigation: what run_investigation computes  *)
(* from the events, relationships and coverage it collected, in the order  *)
(* it computes it.  Each step is one call of the pipeline; the steps read  *)
(* nothing but what the earlier ones left.                                 *)
(***************************************************************************)
EXTENDS Scoring

CONSTANT Inputs    \* [events, complete, hint, named]: what was collected

\* Pages and files are finite, and a hint or a name that matches is a principal's.
ASSUME InputsAssumption ==
  \A i \in Inputs :
    /\ IsFiniteSet(i.events)
    /\ \A e \in i.events : e.ts \in Nat /\ IsFiniteSet(e.targets)
    /\ i.complete \in BOOLEAN
    /\ i.hint \in Principals \cup {Nobody} /\ i.named \subseteq Principals
ASSUME RelationshipsAssumption == Relationships \in Seq(ToSet(Relationships))

VARIABLES stage,   \* the last step done
          input,   \* the collected input
          ids,     \* the focal principals
          facts,   \* the aggregated facts
          claims,  \* the claims stated
          verdict  \* the pattern and its likelihood

vars == <<stage, input, ids, facts, claims, verdict>>

evidence == EvidenceOf(input.events)

Init ==
  /\ input \in Inputs
  /\ stage = "collected"
  /\ ids = {} /\ facts = {} /\ claims = {}
  /\ verdict = [pattern |-> "unclear", likelihood |-> "low"]

ResolveFocal ==
  /\ stage = "collected" /\ stage' = "focused"
  /\ ids' = Focal(evidence, input.hint, input.named).ids
  /\ UNCHANGED <<input, facts, claims, verdict>>

Aggregate ==
  /\ stage = "focused" /\ stage' = "aggregated"
  /\ facts' = AggregateEvidence(evidence, input.events, ids)
  /\ UNCHANGED <<input, ids, claims, verdict>>

StateClaims ==
  /\ stage = "aggregated" /\ stage' = "claimed"
  /\ claims' = BuildClaims(input.events, ids, facts, input.complete)
  /\ UNCHANGED <<input, ids, facts, verdict>>

ScoreAndClassify ==
  /\ stage = "claimed" /\ stage' = "scored"
  /\ LET pattern == ClassifyPattern(claims) IN
     verdict' = [pattern |-> pattern,
                 likelihood |-> ScoreLikelihood(claims, pattern, evidence)]
  /\ UNCHANGED <<input, ids, facts, claims>>

Next == ResolveFocal \/ Aggregate \/ StateClaims \/ ScoreAndClassify

Spec == Init /\ [][Next]_vars

-----------------------------------------------------------------------------
(***************************************************************************)
(* Properties                                                              *)
(***************************************************************************)
Focused == stage # "collected"
Aggregated == Focused /\ stage # "focused"
Scored == stage = "scored"

Bands == {"low", "medium", "high"}

\* Every step leaves values of the kinds the next one reads: focal principals
\* are principals, and facts and claims are about collected events only.
TypeOK ==
  /\ stage \in {"collected", "focused", "aggregated", "claimed", "scored"}
  /\ input \in Inputs
  /\ ids \subseteq Principals
  /\ \A f \in facts : f.about \subseteq f.of /\ f.of \subseteq input.events
  /\ \A c \in claims : c.about \subseteq input.events /\ c.backing \subseteq evidence
  /\ verdict.pattern \in ToSet(Patterns) \cup {"unclear"} /\ verdict.likelihood \in Bands

\* Aggregation and claims resolve targets among the focal principals only, while
\* those were found by resolving among all of them: the narrower map still says
\* of every evidence event whom it targets.
ResolutionIsStable ==
  Focused => \A e \in evidence : TargetPrincipals(e, ids) = TargetPrincipals(e, Principals)

\* The one pass over the sorted events finds exactly the groups that gaps of up
\* to 30 minutes join, however the events are spaced (_aggregate_lifecycle_chains).
ChainsAreMaximal ==
  Aggregated =>
    LET acts == {e \in evidence : e.action \in LifecycleActions} IN
    {f.about : f \in {g \in facts : g.cat = "lifecycle_chain"}} =
    {C \in SUBSET acts : Joined(acts, C, 30) /\ Cardinality(C) >= 2}

\* No evidence event is dropped on the way to the claims: each is somebody's own
\* activity, cross-actor activity, or a privilege change (build_claims).
EveryEventIsClaimed ==
  stage \in {"claimed", "scored"} =>
    \A e \in evidence : \E c \in claims :
      /\ c.cat \in {"self_directed", "cross_actor", "privilege_failed",
                    "privilege_self_grant", "privilege_grant"}
      /\ e \in c.about

\* Whatever the mixture of signals, the dominant pattern is one that some claim
\* supports, so that its likelihood never rests on contradictions alone.
VerdictIsSupported ==
  Scored /\ verdict.pattern # "unclear" => Supporting(claims, verdict.pattern) # {}

\* A verdict that accuses one principal of acting on another rests on an event
\* whose target is, or is related to, somebody who did not act.
AccusationHasAnEvent ==
  Scored /\ verdict.pattern \in {"credential_takeover", "cross_account",
                                 "coordinated_cross_account"} =>
    \E e \in evidence, p \in Principals : \E t \in e.targets :
      /\ p # e.actor
      /\ \/ t = p
         \/ \E i \in DOMAIN Relationships :
              {Relationships[i].from, Relationships[i].to} = {t, p}

\* Coverage moves weights but not the pattern: the same events under the other
\* coverage status are classified alike (_claims_coverage, _classify_pattern).
CoverageKeepsThePattern ==
  Scored => verdict.pattern =
              ClassifyPattern(BuildClaims(input.events, ids, facts, ~ input.complete))

\* The band speaks for the balance of the claims on the winning pattern: high
\* needs more than twice the weight of what contradicts it, and evidence scores
\* low only where the contradictions outweigh the support (score_likelihood has
\* a branch that would score contradictions alone as support).
LikelihoodFollowsBalance ==
  Scored =>
    LET for == Weight(Supporting(claims, verdict.pattern))
        against == Weight(Contradicting(claims, verdict.pattern)) IN
    /\ verdict.likelihood = "high" => for > 2 * against
    /\ verdict.likelihood = "low" /\ evidence # {} => against > for
=============================================================================
