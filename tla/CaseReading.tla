---------------------------- MODULE CaseReading ----------------------------
(***************************************************************************)
(* What the case store promises the readers of a case: a report is taken   *)
(* at one instant.  Whatever statements, crashes and other processes stand *)
(* between the first SELECT and the last, it shows facts that were all in  *)
(* the case together, a view of them that may leave out what is beyond a   *)
(* limit; and once a report of a case was delivered, nothing is discarded  *)
(* from the case any more.                                                 *)
(***************************************************************************)
EXTENDS CaseLedger

CONSTANTS
  View(_),  \* the possible reports of a set of facts
  Unread    \* the report of a case that has none

VARIABLE shown     \* the facts of the last report of each case

ReadingInit == Init /\ shown = [c \in Cases |-> Unread]

Write == Next /\ UNCHANGED shown

\* Only an unread case is pruned.
Prune == \A c \in Cases : shown[c] # Unread => facts[c] \subseteq facts'[c]

Report(c) ==
  /\ \E view \in View(facts[c]) : shown' = [shown EXCEPT ![c] = view]
  /\ UNCHANGED <<facts, acked>>

ReadingNext == (Write /\ Prune) \/ \E c \in Cases : Report(c)

ReadingSpec == ReadingInit /\ [][ReadingNext]_<<facts, acked, shown>>
=============================================================================
