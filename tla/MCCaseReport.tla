---------------------------- MODULE MCCaseReport ----------------------------
(* Small instances of CaseReport for TLC. *)
EXTENDS CaseReport, TLC

CONSTANTS alice, bob, ref1, opt, v1, b1,
          hypo, invoice, refund, cov1, cov2, rel, call1, call2

RecordRowOf(k) == [sec |-> TableOf[k], id |-> k, body |-> b1]
EntityRowOf(e) ==
  [sec |-> "entities", id |-> e,
   row |-> [refs |-> {ref1}, opts |-> [o \in Opts |-> v1], body |-> b1]]

MCTableOf ==
  [k \in Keys |-> CASE k = hypo -> "hypotheses"
                    [] k \in {invoice, refund} -> "events"
                    [] k \in {cov1, cov2} -> "coverage_reports"
                    [] k = rel -> "relationships"
                    [] k \in {call1, call2} -> "tool_calls"]
MCBacking == [k \in Keys |-> {}]

\* An invoice and a later payment back.
AppEvent(ts, action, actor, amount) ==
  [ts |-> ts, domain |-> "app", action |-> action, actor |-> actor,
   targets |-> {bob}, amount |-> amount]
MCEventOf ==
  [k \in {invoice, refund} \cap Keys |->
     CASE k = invoice -> AppEvent(1, "app.invoice.create", alice, 5)
       [] k = refund -> AppEvent(2, "app.payment.create", bob, -2)]
\* Two coverage reports of one domain.
MCCoverageOf ==
  [k \in {cov1, cov2} \cap Keys |->
     IF k = cov1
     THEN [domain |-> "app", status |-> "partial",
           sources |-> {[name |-> "audit", status |-> "missing"]}]
     ELSE [domain |-> "app", status |-> "unknown",
           sources |-> {[name |-> "audit", status |-> "partial"]}]]
\* call2 is from an earlier release, call1 is recorded by this one.
MCCallOf == [k \in {call1, call2} \cap Keys |-> [at |-> IF k = call1 THEN 2 ELSE 1]]
MCEntityOf ==
  [e \in Entities |-> [type |-> "principal", prefix |-> "principal",
                       place |-> IF e = alice THEN 1 ELSE 2]]

\* Two answers, the second one with the artifacts of a run.
MCResponses ==
  { [rows |-> {EntityRowOf(alice), RecordRowOf(invoice), RecordRowOf(cov1), RecordRowOf(rel)},
     bad |-> NONE],
    [rows |-> {EntityRowOf(bob), RecordRowOf(refund), RecordRowOf(cov2), RecordRowOf(hypo)},
     bad |-> NONE] }

\* No definition tells two processes apart.
AnyProcess == Permutations(Procs)
=============================================================================
