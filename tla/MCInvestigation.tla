-------------------------- MODULE MCInvestigation --------------------------
(* Small instances of Investigation for TLC: the scenarios of MCPipeline. *)
EXTENDS Investigation, MCPipeline

\* A budget that ends in the middle and one that suffices.
One == {Unsure}
Two == Args({7, 25}, {5}, {FALSE})
=============================================================================
