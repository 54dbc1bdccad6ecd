------------------------------ MODULE MCIntake ------------------------------
(* Two Alipay exports of which the later one shows a refund, a WeChat bill    *)
(* with a reference that Alipay uses too, an old export without references,   *)
(* in which two purchases look alike, a file that names both channels, one    *)
(* that cannot be decoded, and two notes of one text and one without amount.  *)
EXTENDS Intake

CONSTANTS shop, cafe, Cafe, r1, r2, r3

MCPurchases == 1 .. 8
MCReferences == {r1, r2, r3, NoRef}
MCMerchants == {shop, cafe, Cafe}
MCNormal == [m \in MCMerchants |-> IF m = Cafe THEN cafe ELSE m]
MCOriginOf ==
    <<"alipay", "alipay", "alipay", "alipay", "wechat", "wechat", "manual", "manual">>

MCRow(about, ref, day, amount, merchant, direction, settled) ==
    [about |-> about, ref |-> ref, day |-> day, amount |-> amount,
     merchant |-> merchant, direction |-> direction, settled |-> settled]

Separator(about) == MCRow(about, NoRef, 0, 0, shop, "neutral", TRUE)

AlipayHeader == {"time", "direction", "amount", "alipay_ref", "alipay_status"}
WeChatHeader == {"time", "direction", "amount", "wechat_ref"}

MCFile(readable, marks, header, rows) ==
    [readable |-> readable, marks |-> marks, header |-> header, rows |-> rows]

MCFiles == 1 .. 6
MCContent ==
    LET first == MCRow(1, r1, 1, 3, shop, "expense", TRUE)
        second == MCRow(2, r2, 1, 3, shop, "expense", TRUE)
        like1 == MCRow(3, NoRef, 1, 3, cafe, "expense", TRUE)
        like2 == MCRow(4, NoRef, 1, 3, cafe, "expense", TRUE)
    IN <<MCFile(TRUE, {"alipay"}, AlipayHeader, <<first, second, Separator(1)>>),
         MCFile(TRUE, {"alipay"}, AlipayHeader,
             <<[first EXCEPT !.settled = FALSE], Separator(1), second>>),
         MCFile(TRUE, {"wechat"}, WeChatHeader,
             <<MCRow(5, r1, 1, 3, shop, "expense", FALSE), MCRow(6, r3, 2, 3, shop, "income", TRUE)>>),
         MCFile(TRUE, {"alipay"}, AlipayHeader \ {"alipay_ref"}, <<like1, like2>>),
         MCFile(TRUE, {"alipay", "wechat"}, AlipayHeader, <<second>>),
         MCFile(FALSE, {"wechat"}, WeChatHeader, <<>>)>>

MCNotes ==
    {[numbers |-> <<2, 3>>, back |-> {}, merchant |-> cafe, about |-> 7],
     [numbers |-> <<2, 3>>, back |-> {}, merchant |-> Cafe, about |-> 8],
     [numbers |-> <<2, 3>>, back |-> {1, 2}, merchant |-> cafe, about |-> 8],
     [numbers |-> <<>>, back |-> {}, merchant |-> cafe, about |-> 8]}

\* Bound: the purchases that come to be reviewed, one that three files show and a
\* note; the others are imported, or fail.
MCReviewed == {2, 7}
ReviewedOnly == \A bill \in pending' \ pending : bill.about \in MCReviewed
=============================================================================
