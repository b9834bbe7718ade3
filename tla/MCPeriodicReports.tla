--------------------------- MODULE MCPeriodicReports ---------------------------
(* The firsts and the Mondays around them at the start of 2024: day 0 is Monday, *)
(* 1 January, 7 the next Monday, 31 and 60 the firsts of February and March.     *)
EXTENDS PeriodicReports
CONSTANTS m1, m2, t1, t2
MCManagers == <<m1, m2>>
MCTenants == <<t1, t2>>
MCDays == <<0, 7, 31, 60>>
MCFirsts == {-31, 0, 31, 60}
=============================================================================
