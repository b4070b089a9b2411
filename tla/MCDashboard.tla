----------------------------- MODULE MCDashboard -----------------------------
(***************************************************************************)
(* Small instances of Dashboard.                                           *)
(***************************************************************************)
EXTENDS Dashboard

Row(pre, sub, pop, region, province, fornitore) ==
  [on |-> [m \in Migrations |-> IF m = "subentro" THEN sub ELSE pre],
   population |-> pop, region |-> region, province |-> province, fornitore |-> fornitore]

(***************************************************************************)
(* Up to four rows out of seven: both migrations or one, days shared and   *)
(* not, an inactive comune, two regions, and in one of them two provinces. *)
(***************************************************************************)
SomeRows ==
  { Row(1, NULL, 10, "Lazio", "RM", "acme"), Row(2, NULL, 20, "Lazio", "VT", "acme"),
    Row(2, 3, 40, "Lazio", "RM", "beta"), Row(NULL, 3, 80, "Liguria", "GE", "acme"),
    Row(1, 2, 160, "Liguria", "GE", "beta"), Row(NULL, NULL, 320, "Lazio", "VT", "acme"),
    Row(3, 1, 640, "Liguria", "GE", "acme") }

UpToFour == UNION {[1 .. n -> SomeRows] : n \in 0 .. 4}
=============================================================================
