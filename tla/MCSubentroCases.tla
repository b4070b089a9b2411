-------------------------- MODULE MCSubentroCases --------------------------
(***************************************************************************)
(* The boundaries of every rule around one day of 2019: the past, today,   *)
(* tomorrow, both sides of the 5 and 20 days of notice, and pairs of days  *)
(* exactly 30 and 31 apart (6 and 36, 5 and 36).                           *)
(***************************************************************************)
EXTENDS SubentroCases

D0 == EpochDay + 18000

MCDays  == {D0 + n : n \in {-3, 0, 1, 5, 6, 20, 21, 36}}
MCToday == {D0}
=============================================================================
