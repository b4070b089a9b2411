--------------------------- MODULE SubentroCases ---------------------------
(***************************************************************************)
(* One judgement of IsWellFormed: a plan is given for a comune on some     *)
(* day, with whatever plan, pre-takeover and smart card delivery the       *)
(* database holds for it, and the verdict is recorded.  Its runs go        *)
(* through every combination and compare the verdict with what the table   *)
(* promises its readers and with the rules the page of the plan states to  *)
(* the operators (templates/subentro.tmpl:342-344): it keeps those of the  *)
(* range and of the preferred date, and that of the notice in two cases of *)
(* three.                                                                  *)
(***************************************************************************)
EXTENDS Subentro

CONSTANT Today      \* the days on which plans are given

ASSUME TodayAssumption == Today \subseteq Nat

VARIABLES
  today,      \* the day of the request
  given,      \* the plan in the request
  comune,     \* what SearchComuni returned for the comune
  verdict     \* "pending", then what IsWellFormed answered

vars == <<today, given, comune, verdict>>

(***************************************************************************)
(* The plans the table can hold: those of the comuni with a row, and none. *)
(***************************************************************************)
StoredRow ==
  {row \in [from : Days, to : Days, final : Days \cup {NULL}] :
     IsInterval(SubentroFromRow(row))}

StoredPlan == {NoPlan} \cup {SubentroFromRow(row) : row \in StoredRow}

Comune ==
  [Subentro : StoredPlan, DataPresubentro : BOOLEAN, DataConsegnaSm : BOOLEAN]

Init ==
  /\ today \in Today
  /\ given \in GivenPlan
  /\ comune \in Comune
  /\ verdict = "pending"

Accept ==
  /\ verdict = "pending"
  /\ IsWellFormed(given, comune, today)
  /\ verdict' = "accepted"
  /\ UNCHANGED <<today, given, comune>>

Refuse ==
  /\ verdict = "pending"
  /\ ~IsWellFormed(given, comune, today)
  /\ verdict' = "refused"
  /\ UNCHANGED <<today, given, comune>>

Next == Accept \/ Refuse

Spec == Init /\ [][Next]_vars

-----------------------------------------------------------------------------
(***************************************************************************)
(* An accepted plan that has any date has both ends, and they are an       *)
(* interval of at most thirty days that holds the preferred date.  The     *)
(* rules never ask whether a date is present: an absent one takes part as  *)
(* the zero time, and SaveOrUpdateSubentro discards in silence a plan      *)
(* without both ends, so a rule that let one through would answer "ok" to  *)
(* a change that is never stored.                                          *)
(***************************************************************************)
AcceptedIsInterval ==
  (verdict = "accepted" /\ HasValidDates(given))
  => given.From.valid /\ given.To.valid /\ IsInterval(given)

(***************************************************************************)
(* The first plan of a comune starts more than 20 days ahead when the      *)
(* pre-takeover did not take place, and more than 5 days ahead when it did *)
(* and the smart cards were delivered: the zero day of the plan it does    *)
(* not have never stands for a first day that stays.  Of a pre-takeover    *)
(* whose smart cards are missing it says nothing: see                      *)
(* MissingCardsNeedTwentyDays.                                             *)
(***************************************************************************)
FirstPlanAccepted ==
  /\ verdict = "accepted"
  /\ HasValidDates(given)
  /\ comune.Subentro = NoPlan

FirstPlanHasNotice ==
  FirstPlanAccepted =>
    /\ ~comune.DataPresubentro => given.From.time > today + 20
    /\ comune.DataPresubentro /\ comune.DataConsegnaSm => given.From.time > today + 5

(***************************************************************************)
(* "La data preferita puo' essere aggiornata successivamente"              *)
(* (templates/subentro.tmpl:344): whatever the day, even inside or after   *)
(* the interval, a plan that only moves the preferred date within the      *)
(* stored interval is accepted.                                            *)
(***************************************************************************)
PreferredDateCanBeUpdated ==
  ( /\ given.PreferredDate.valid
    /\ comune.Subentro # NoPlan
    /\ given.From = comune.Subentro.From
    /\ given.To = comune.Subentro.To
    /\ given.PreferredDate.time \in given.From.time .. given.To.time )
  => verdict # "refused"

(***************************************************************************)
(* A plan without any date is accepted only for a comune that has none.    *)
(* Saving ignores such a plan, so accepting it elsewhere would confirm the *)
(* removal of a plan that stays.                                           *)
(***************************************************************************)
EmptyPlanErasesNothing ==
  (verdict = "accepted" /\ ~HasValidDates(given)) => comune.Subentro = NoPlan

-----------------------------------------------------------------------------
(***************************************************************************)
(* Violated by the code.  templates/subentro.tmpl:342: "La data minima     *)
(* deve essere ad almeno 20 giorni dalla data odierna nel caso il comune   *)
(* non abbia effettuato il presubentro o le smartcard non siano arrivate   *)
(* in prefettura".  No rule of IsWellFormed asks for notice when the       *)
(* pre-takeover took place and the smart cards are missing.                *)
(***************************************************************************)
MissingCardsNeedTwentyDays ==
  (FirstPlanAccepted /\ ~(comune.DataPresubentro /\ comune.DataConsegnaSm))
  => given.From.time >= today + 20
=============================================================================
