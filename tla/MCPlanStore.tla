---------------------------- MODULE MCPlanStore ----------------------------
(***************************************************************************)
(* Small instances of PlanStore.  Days are counted from one day of 2019.   *)
(***************************************************************************)
EXTENDS PlanRefinement, TLC

CONSTANTS w1, w2, c1, c2, c3, mario, anna, capo, acme, beta

D(n) == EpochDay + 18000 + n

Day0 == D(0)
Day1 == D(1)
Day2 == D(2)

OneWorker  == {w1}
TwoWorkers == {w1, w2}

P(f, t, p) ==
  [From |-> TimeFrom(D(f)), To |-> TimeFrom(D(t)), PreferredDate |-> TimeFrom(D(p))]
Open(f, t) == [P(f, t, 0) EXCEPT !.PreferredDate = NoTime]
HalfPlan(f) == [NoPlan EXCEPT !.From = TimeFrom(D(f))]

On(c, p)  == [match |-> {c}, plan |-> p, syntax |-> "good"]
Bad(c, p) == [On(c, p) EXCEPT !.syntax = "bad"]
Broken(c, p) == [On(c, p) EXCEPT !.syntax = "broken"]

Form(u, i) == [kind |-> "form", user |-> u, items |-> <<i>>]
Csv(u, is) == [kind |-> "csv", user |-> u, items |-> is]

AcmeWrites == (acme :> {mario}) @@ (beta :> {anna})

WorkerSymmetry == Permutations(TwoWorkers)

Flags(p, c, x) == [presubentro |-> p, consegna |-> c, cessato |-> x]
-----------------------------------------------------------------------------
(***************************************************************************)
(* Two comuni, every kind of request and answer.                           *)
(***************************************************************************)
FewDays == {D(n) : n \in {1, 21, 22, 25}}

MixedRequests ==
  { Form(mario, On(c1, P(21, 25, 22))),
    Form(capo,  On(c1, P(22, 25, 25))),
    Form(capo,  On(c1, P(1, 25, 25))),
    Form(mario, On(c2, Open(21, 22))),
    Form(mario, On(c1, HalfPlan(21))),
    Form(mario, On(c1, NoPlan)),
    Form(mario, Bad(c1, NoPlan)),
    Form(anna,  [On(c1, P(21, 25, 22)) EXCEPT !.match = {c1, c2}]),
    Csv(mario, <<On(c1, Open(21, 25)), On(c2, P(21, 22, 22))>>),
    Csv(mario, <<On(c2, NoPlan), On(c1, P(22, 25, 22)), Bad(c2, NoPlan)>>),
    Csv(anna,  <<On(c1, P(21, 25, 22)), Broken(c2, NoPlan)>>) }

MixedMoves == {<<c1, beta>>, <<c1, acme>>, <<c2, NULL>>}

MixedCheckLists == { c1 :> Flags(TRUE, TRUE, FALSE),
                     (c1 :> Flags(TRUE, FALSE, FALSE)) @@ (c2 :> Flags(FALSE, FALSE, TRUE)) }
-----------------------------------------------------------------------------
(***************************************************************************)
(* Two requests at a time: first plans and changes by the form, an upload  *)
(* of two comuni, and one with a row that is refused; and three comuni     *)
(* that want the same day, by the form and by the upload.                  *)
(***************************************************************************)
RacingRequests ==
  { Form(mario, On(c, P(21, 25, 22))) : c \in {c1, c2, c3} }
  \cup
  { Form(capo,  On(c1, Open(22, 25))),
    Csv(mario, <<On(c1, Open(21, 25)), On(c2, NoPlan), On(c2, P(21, 22, 22))>>),
    Csv(mario, <<On(c2, P(21, 22, 25)), On(c1, P(22, 25, 25))>>) }

AcmeOnly == acme :> {mario}
-----------------------------------------------------------------------------
\* All of these are in the scope of the theorems about one request at a time.
ASSUME FilesOfTheInstances == FilesNameOnce
=============================================================================
