------------------------------ MODULE MCAlerts ------------------------------
(***************************************************************************)
(* Small instances of Alerts.                                              *)
(***************************************************************************)
EXTENDS Alerts

Of(a, b) == [r \in Rows |-> IF ComuneOf[r] = 1 THEN a ELSE b]

\* The second comune has two rows: two first plans raced.
Owner == [r \in Rows |-> IF r = 1 THEN 1 ELSE 2]

Usual ==
  [plan |-> [r \in Rows |-> CASE r = 1 -> 1 [] r = 2 -> 6 [] r = 3 -> 7],
   referente |-> Of("address", "address"), sandbox |-> FALSE,
   processed |-> [k \in Kinds |-> FirstDay - 1]]

(***************************************************************************)
(* A plan about to be over and, in the rows of the other comune, two with  *)
(* time ahead: as they should be, and with each of the things that may be  *)
(* wrong around them.                                                      *)
(***************************************************************************)
FewSettings ==
  { Usual,
    [Usual EXCEPT !.referente = Of("null", "empty"), !.processed["REACTIVE"] = NULL],
    [Usual EXCEPT !.referente = Of("address", "none"), !.sandbox = TRUE] }

\* The first comune puts its plan off.
FewMoves == {<<1, 6>>}
=============================================================================
