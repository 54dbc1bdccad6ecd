--------------------------- MODULE MCLedgerReader ---------------------------
(* Nine transactions, newest first, the first six of the week: three pairs of *)
(* which one lies across the end of the week, a withdrawal with no merchant   *)
(* and category, one with no amount, and two deposits.  The name of ma is     *)
(* part of the name of mb.                                                    *)
EXTENDS LedgerReader, TLC

CONSTANTS ma, mb, food, fun

MCNewestFirst == <<1, 2, 3, 4, 5, 6, 7, 8, 9>>
MCWeek == 1 .. 6
MCTypeOf == <<"withdrawal", "withdrawal", "deposit", "withdrawal", "withdrawal", "withdrawal",
              "withdrawal", "deposit", "withdrawal">>
MCMerchantOf == <<ma, mb, mb, ma, NoMerchant, mb, mb, mb, ma>>
MCCategoryOf == <<food, fun, NoCategory, food, NoCategory, food, food, NoCategory, fun>>
MCAmountOf == <<3, 3, 4, 3, 2, NoAmount, 3, 2, 1>>
MCContaining == (ma :> {ma, mb}) @@ (mb :> {mb})
=============================================================================
