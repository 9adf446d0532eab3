---------------------------- MODULE MCCaseStore ----------------------------
(* Small instances of CaseStore for TLC. *)
EXTENDS CaseStore

CONSTANTS ent, ref1, ref2, opt, v1, v2, b1,
          item, claim, hypo, call, event

EntityRowOf(rs, v) ==
  [sec |-> "entities", id |-> ent,
   row |-> [refs |-> rs, opts |-> [o \in Opts |-> v], body |-> b1]]
RecordRowOf(k) == [sec |-> TableOf[k], id |-> k, body |-> b1]
MetadataRow == [sec |-> "case_metadata", body |-> b1]

MCTableOf ==
  [k \in Keys |-> CASE k = item -> "evidence_items" [] k = claim -> "claims"
                    [] k = hypo -> "hypotheses" [] k = call -> "tool_calls"
                    [] k = event -> "events"]
MCBacking ==
  [k \in Keys |-> CASE k = claim -> {item} [] k = hypo -> {claim} [] OTHER -> {}]

\* Two responses that describe the same entity differently, one of them with an
\* event that does not validate, and the analysis artifacts of a run.
MCResponses ==
  { [rows |-> {EntityRowOf({ref1}, v1)}, bad |-> NONE],
    [rows |-> {EntityRowOf({ref2}, NONE), RecordRowOf(event)}, bad |-> "events"],
    [rows |-> {RecordRowOf(item), RecordRowOf(claim), RecordRowOf(hypo), MetadataRow},
     bad |-> NONE],
    [rows |-> {RecordRowOf(item), RecordRowOf(claim), RecordRowOf(hypo)},
     bad |-> "hypotheses"] }

\* A smaller choice for two cases and for liveness.
MCFewResponses ==
  { [rows |-> {EntityRowOf({ref1}, v1), RecordRowOf(item)}, bad |-> NONE],
    [rows |-> {RecordRowOf(item), RecordRowOf(claim)}, bad |-> "claims"] }
=============================================================================
