--------------------------- MODULE MCSubentroPage ---------------------------
(***************************************************************************)
(* Small instances of SubentroPage.                                        *)
(***************************************************************************)
EXTENDS SubentroPage, TLC

CONSTANTS c1, c2, r1, a1, n1

\* A file that plans the first comune, with a preferred date.
OneFile == {c1 :> [range |-> r1, at |-> a1]}
=============================================================================
