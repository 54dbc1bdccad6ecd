--------------------------- MODULE MCFinanceDays ---------------------------
(* Every day of a leap year and of the year after it, so that periods reach  *)
(* back over both kinds of February.                                         *)
EXTENDS FinanceDays

CONSTANTS food, ride

MCCategories == {food, ride}
MCClaims ==
    {<<NoWord, NoWord, NoWord>>, <<"withdrawal", "count", ride>>, <<"deposit", NoWord, NoWord>>}

Worded(forms, numbers) ==
    [form : forms, n : numbers, direction : {NoWord}, metric : {NoWord}, category : {NoWord}]

MCQuestions ==
    Worded({"both_months", "last_two_months", "month_and_a_half", "this_month",
            "last_month", "this_year", "none", "model"}, {0})
    \union Worded({"days"}, {0, 366, 367})
    \union Worded({"months"}, {0, 1, 12, 13})
    \union Worded({"month"}, {0, 2, 12, 13})
    \union [form : {"none"}, n : {0}, direction : {"deposit", NoWord},
            metric : {"count", NoWord}, category : {food, NoWord}]
=============================================================================
