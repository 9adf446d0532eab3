----------------------------- MODULE CaseLedger -----------------------------
(***************************************************************************)
(* What the case store promises its callers, whatever the number of        *)
(* processes, statements and crashes behind it: a case is a set of facts   *)
(* (a row exists, an entity has this reference, ...) that only grows, and  *)
(* a request is acknowledged only when all its facts are in.  The one      *)
(* exception is the hypotheses an earlier release left behind, which the   *)
(* schema upgrade discards before anything is acknowledged.                *)
(***************************************************************************)
CONSTANTS Cases, Facts, Disposable

VARIABLES facts, acked

Init ==
  /\ facts \in [Cases -> SUBSET Facts]
  /\ acked = [c \in Cases |-> {}]

Add(c) ==
  \E new \in SUBSET Facts : facts' = [facts EXCEPT ![c] = @ \cup new]

\* Facts enter the ledger before they are acknowledged.
Store(c) == Add(c) /\ UNCHANGED acked

Acknowledge(c) ==
  \E told \in SUBSET facts[c] :
    /\ acked' = [acked EXCEPT ![c] = @ \cup told]
    /\ UNCHANGED facts

Discard(c) ==
  /\ acked[c] = {}
  /\ facts' = [facts EXCEPT ![c] = @ \ Disposable]
  /\ UNCHANGED acked

Next == \E c \in Cases : Store(c) \/ Acknowledge(c) \/ Discard(c)

Spec == Init /\ [][Next]_<<facts, acked>>
=============================================================================
