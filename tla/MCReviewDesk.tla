---------------------------- MODULE MCReviewDesk ----------------------------
(* Two pending items of one merchant, so that a correction of one makes the  *)
(* rule batch pick up the other, and a third of a merchant with no rule,     *)
(* which the rule batch passes over.                                         *)
EXTENDS ReviewDesk, TLC

CONSTANTS m1, m2, c1, c2, s1, s2, w1, w2

MCItems == {1, 2}
MCThreeItems == {1, 2, 3}
MCOneItem == {1}
MCMerchants == {m1}
MCTwoMerchants == {m1, m2}
MCMerchantOf == [i \in MCItems |-> m1]
MCThreeMerchantOf == [i \in MCThreeItems |-> IF i = 3 THEN m2 ELSE m1]
MCOneMerchantOf == [i \in MCOneItem |-> m1]
MCCategories == {c1, c2}
MCOneCategory == {c1}
MCSuggested == [i \in MCItems |-> c1]
MCThreeSuggested == [i \in MCThreeItems |-> c1]
MCOneSuggested == [i \in MCOneItem |-> c1]
OneSession == {s1}
TwoSessions == {s1, s2}
OneWorker == {w1}
TwoWorkers == {w1, w2}
EveryVerb == AllVerbs
RaceVerbs == {"approve_all", "correct", "reject", "reclassify"}
ApprovalVerbs == {"approve", "approve_all", "reject"}
ActorSymmetry == Permutations(TwoWorkers) \union Permutations(TwoSessions)
=============================================================================
