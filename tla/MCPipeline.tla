----------------------------- MODULE MCPipeline -----------------------------
(***************************************************************************)
(* Small scenarios for Pipeline: a complete identity domain alone, one     *)
(* with an application domain whose sources are degraded, one whose        *)
(* evidence falls at the end of a month, one with an overlong time range.  *)
(***************************************************************************)
EXTENDS Pipeline

MCDomains == {"identity", "app"}
MCNames == {"okta", "audit"}

Source(n, s, notes, f) == [name |-> n, status |-> s, notes |-> notes, fields |-> f]
Report(d, s, sources, f) ==
  [domain |-> d, status |-> s, sources |-> sources, fields |-> f]
Full(d) == Report(d, "complete", <<Source("okta", "complete", "none", FALSE)>>, FALSE)

Evt(id, ts, login) == [id |-> id, ts |-> ts, login |-> login]
Login == Evt("login", 102, TRUE)
Reset == Evt("reset", 105, FALSE)
Enroll == Evt("enroll", 130, FALSE)
Grant == Evt("grant", 203, FALSE)
Invoice == Evt("invoice", 106, FALSE)

Scn(app, n, idEvents, appEvents, idCov, appCov) ==
  [app |-> app, principals |-> n, tooLong |-> FALSE,
   events |-> [d \in MCDomains |-> IF d = "identity" THEN idEvents ELSE appEvents],
   coverage |-> [d \in MCDomains |-> IF d = "identity" THEN idCov ELSE appCov]]

Baseline == Scn(FALSE, 2, <<Login, Reset>>, <<>>, Full("identity"), Full("app"))
\* Two principals, both domains, sources missing or partial in the second one.
Degraded ==
  Scn(TRUE, 2, <<Reset, Login, Grant>>, <<Invoice>>, Full("identity"),
      Report("app", "missing",
             <<Source("audit", "partial", "plain", FALSE),
               Source("okta", "missing", "plain", TRUE)>>, FALSE))
Partial ==
  Scn(TRUE, 1, <<Reset>>, <<Invoice>>,
      Report("identity", "partial", <<Source("okta", "partial", "severe", FALSE)>>, TRUE),
      Report("app", "unknown", <<Source("audit", "unknown", "none", FALSE)>>, FALSE))
NoPrincipals == Scn(FALSE, 0, <<Login>>, <<>>, Full("identity"), Full("app"))
MonthEnd == Scn(FALSE, 1, <<Enroll>>, <<>>, Full("identity"), Full("app"))
Unsure ==
  Scn(TRUE, 1, <<Reset>>, <<Invoice>>,
      Report("identity", "unknown", <<Source("okta", "unknown", "none", FALSE)>>, FALSE),
      Full("app"))
Overlong == [Baseline EXCEPT !.tooLong = TRUE]

MCScenarios == {Baseline, Degraded, Partial, NoPrincipals, Unsure, Overlong}
MonthEnds == {Baseline, MonthEnd}
Small == {Baseline, Partial}

Args(budgets, limits, llms) ==
  [budget : budgets, maxEvents : limits, llm : llms]
\* Every budget from none to more than any of the scenarios can spend.
MCConfigs == Args(0..24, {1, 5}, {FALSE}) \cup Args({25}, {5}, {TRUE})
Ample == Args({25}, {1, 5}, {FALSE})
Scarce == Args(5..15, {5}, {FALSE})
=============================================================================
