----------------------------- MODULE MCRuleBook -----------------------------
(* Two pending items of one merchant and one that names nobody; two workers  *)
(* and two requests run up to three transactions between them.               *)
EXTENDS RuleBook, TLC

CONSTANTS m1, c1

MCMerchants == {m1}
MCItems == {1, 2, 3}
MCMerchantOf == <<m1, m1, NoName>>
MCCandidates == {c1}
MCWorkers == {1, 2}
MCSessions == {2, 3}

\* The broader rule was put in by hand, with a category that is not offered; the
\* exact one was learned before, or not.
MCInit == Init /\ book[Broad] # NoRule /\ book[Broad].category = Hint
MCSpec == MCInit /\ [][Next]_vars /\ WF_vars(\E p \in Processes : Continue(p))

\* Process 2 stands in for a second worker or a second request, when the first
\* is busy.
StandsIn ==
    pc[2] = "idle" /\ pc'[2] # "idle" =>
        pc[IF op'[2].kind \in {"ingest", "batch"} THEN 1 ELSE 3] # "idle"
=============================================================================
