--------------------------- MODULE MCAccountReports ---------------------------
(* Two symbols; fills that open, add, reduce, close and flip, and funding.   *)
(* The hours 1 and 73 have the same hour of day, 73 and 242 are on Sundays.  *)
EXTENDS AccountReports
CONSTANTS BTC, ETH
MCFundingPayments == {-1, 2}
=============================================================================
