------------------------- MODULE MCCheckListImport -------------------------
(***************************************************************************)
(* Two editions of the two files.  The second has lost a comune and moved  *)
(* another to its place; one row is of a comune COMUNE does not have, one  *)
(* date does not parse.                                                    *)
(***************************************************************************)
EXTENDS CheckListImport

ComuneRow(c, d, ip, pec) == [codice |-> c, presubentro |-> d, ip |-> ip, pec |-> pec]
AnomaliaRow(c, t, n)     == [codice |-> c, tipo |-> t, number |-> n]

Roma  == "058091"
Anzio == "058007"
Nuovo == "058999"

TwoComuni == {Roma, Anzio}
OneDate   == {"11/01/2019"}

TwoEditions ==
  << [comuni   |-> << ComuneRow(Roma, "11/01/2019", "SI", "SI"),
                      ComuneRow(Anzio, "", "NO", "NO") >>,
      anomalie |-> << AnomaliaRow(Anzio, "1", 3), AnomaliaRow(Roma, "1", 1) >>],
     [comuni   |-> << ComuneRow(Anzio, "11/01/2019", "SI", "NO"),
                      ComuneRow(Nuovo, "2019", "NO", "SI") >>,
      anomalie |-> << AnomaliaRow(Roma, "1", 2) >>] >>
=============================================================================
