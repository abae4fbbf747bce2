------------------------ MODULE MCSummarizeVouchers -------------------------
(* A small instance of SummarizeVouchers for TLC: five vouchers, two groups, *)
(* a credit note with a negative amount.                                     *)
EXTENDS SummarizeVouchers

MCVouchers == 1..5
MCGroups   == {"sales", "purchase"}
MCGroupOf  == [v \in MCVouchers |-> IF v <= 2 THEN "sales" ELSE "purchase"]
MCAmountOf == [v \in MCVouchers |-> IF v = 2 THEN -3 ELSE 10 * v]
=============================================================================
