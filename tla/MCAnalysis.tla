----------------------------- MODULE MCAnalysis -----------------------------
(***************************************************************************)
(* A pool of events of three principals, from which an investigation has   *)
(* collected up to MaxEvents.  bob's device was alice's before; carol      *)
(* created alice's account, so that alice counts as carol's wherever alice *)
(* is not focal.  Nothing tells whose "other" is.                          *)
(***************************************************************************)
EXTENDS Analysis

CONSTANT MaxEvents

MCPrincipals == {"alice", "bob", "carol"}
MCRelationships ==
  <<[from |-> "alice", to |-> "acred"], [from |-> "alice", to |-> "device"],
    [from |-> "bob", to |-> "device"], [from |-> "alice", to |-> "carol"],
    [from |-> "bcred", to |-> "bob"]>>

Event(ts, action, actor, targets, ip) ==
  [ts |-> ts, action |-> action, actor |-> actor, targets |-> targets, ip |-> ip,
   failed |-> FALSE, flagged |-> FALSE]

Pool ==
  {Event(0, "login", "bob", {"device"}, "ip1"),
   Event(33, "login", "alice", {"acred"}, "ip2"),
   Event(10, "reset", "alice", {"bcred"}, "ip1"),
   Event(12, "reset", "alice", {"acred"}, "ip1"),
   [Event(24, "reset", "alice", {"other"}, "ip1") EXCEPT !.flagged = TRUE],
   Event(34, "reset", "bob", {"device"}, NoIP),
   Event(14, "grant", "alice", {"alice"}, "ip1"),
   [Event(15, "grant", "bob", {"carol"}, "ip2") EXCEPT !.failed = TRUE],
   Event(20, "create", "alice", {"carol"}, "ip1"),
   Event(45, "delete", "bob", {"bob"}, "ip2"),
   [Event(75, "disable", "carol", {"alice", "device"}, "ip2") EXCEPT !.failed = TRUE],
   Event(8, "payment", "bob", {"acred"}, "ip1"),
   Event(9, "invoice", "bob", {"acred", "bcred"}, "ip2")}

Collected(n) == UNION {kSubset(k, Pool) : k \in 0..n}

\* Full sets of events with a name and a hint or with neither, smaller ones also
\* with one of them.
MCInputs ==
  {i \in [events : Collected(MaxEvents), complete : BOOLEAN,
          hint : {Nobody, "carol"}, named : {{}, {"bob"}}] :
     Cardinality(i.events) = MaxEvents => (i.hint = Nobody <=> i.named = {})}
=============================================================================
