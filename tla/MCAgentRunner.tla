--------------------------- MODULE MCAgentRunner ---------------------------
(* One request (requests share no state), two registered tools and one       *)
(* invented name.                                                            *)
EXTENDS AgentRunner

CONSTANTS r1, summarize_spending, detect_subscriptions, bad_tool

MCOneRun == {r1}
MCTools == {summarize_spending, detect_subscriptions}
MCUnknown == {bad_tool}
=============================================================================
