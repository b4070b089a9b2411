------------------------ MODULE SubentroCasesProofs ------------------------
(***************************************************************************)
(* Theorems about one judgement of a plan, for any days the clients may    *)
(* name, any day of the judgement and any plan the table can hold: TLC     *)
(* goes through eight days.                                                *)
(***************************************************************************)
EXTENDS SubentroCases, SubentroProofs

(***************************************************************************)
(* The verdict is that of the rules.                                       *)
(***************************************************************************)
Judged ==
  /\ verdict = "accepted" => IsWellFormed(given, comune, today)
  /\ verdict = "refused" => ~IsWellFormed(given, comune, today)

IInv ==
  /\ today \in Today /\ given \in GivenPlan /\ comune \in Comune
  /\ Judged

LEMMA JudgedAlways == Spec => []IInv
<1>1. Init => IInv
  BY DEF Init, IInv, Judged
<1>2. IInv /\ [Next]_vars => IInv'
  <2> SUFFICES ASSUME IInv, [Next]_vars PROVE IInv'
    OBVIOUS
  <2>1. CASE Accept
    BY <2>1 DEF IInv, Judged, Accept
  <2>2. CASE Refuse
    BY <2>2 DEF IInv, Judged, Refuse
  <2>3. CASE UNCHANGED vars
    BY <2>3 DEF IInv, Judged, vars
  <2> QED
    BY <2>1, <2>2, <2>3 DEF Next
<1> QED
  BY <1>1, <1>2, PTL DEF Spec

-----------------------------------------------------------------------------
(***************************************************************************)
(* A stored plan has both ends, days a client may name, and is an interval.*)
(***************************************************************************)
LEMMA StoredPlans ==
  ASSUME NEW s \in StoredPlan, s # NoPlan
  PROVE  /\ s.From.valid /\ s.To.valid
         /\ s.From.time \in Days /\ s.To.time \in Days
         /\ IsInterval(s)
<1>1. PICK row \in StoredRow : s = SubentroFromRow(row)
  BY DEF StoredPlan
<1>2. row.from \in Days /\ row.to \in Days /\ IsInterval(s)
  BY <1>1 DEF StoredRow
<1> QED
  BY <1>1, <1>2 DEF SubentroFromRow, TimeFrom

LEMMA GivenParts ==
  ASSUME IInv
  PROVE  /\ given.From \in GivenTime /\ given.To \in GivenTime
         /\ given.PreferredDate \in GivenTime
         /\ today \in Nat
         /\ comune.Subentro \in StoredPlan
         /\ comune.DataPresubentro \in BOOLEAN /\ comune.DataConsegnaSm \in BOOLEAN
  BY TodayAssumption DEF IInv, GivenPlan, Comune

-----------------------------------------------------------------------------
(***************************************************************************)
(* Whatever is accepted with a date has both ends and is an interval of at *)
(* most thirty days around its preferred date.                             *)
(***************************************************************************)
THEOREM AcceptedAlwaysInterval == Spec => []AcceptedIsInterval
<1>1. IInv => AcceptedIsInterval
  BY WellFormedIsInterval, WellFormedHasEnds DEF IInv, Judged, AcceptedIsInterval
<1> QED
  BY <1>1, JudgedAlways, PTL

(***************************************************************************)
(* The first plan of a comune has the notice that is asked for without a   *)
(* pre-takeover, and for one with its smart cards: its first day is not    *)
(* the zero day of the plan it does not have, so neither rule is passed    *)
(* over.                                                                   *)
(***************************************************************************)
THEOREM FirstPlansHaveNotice == Spec => []FirstPlanHasNotice
<1>1. IInv => FirstPlanHasNotice
  <2> SUFFICES ASSUME IInv, FirstPlanAccepted
               PROVE  /\ ~comune.DataPresubentro => given.From.time > today + 20
                      /\ comune.DataPresubentro /\ comune.DataConsegnaSm
                           => given.From.time > today + 5
    BY DEF FirstPlanHasNotice
  <2>1. IsWellFormed(given, comune, today) /\ HasValidDates(given)
    BY DEF IInv, Judged, FirstPlanAccepted
  <2>2. given.From.valid
    BY <2>1, WellFormedHasEnds DEF IInv
  <2>3. given.From.time \in Nat /\ given.From.time > 60 /\ today \in Nat
    BY <2>2, GivenParts, GivenTimes
  <2>4. ~SameDate(given.From, comune.Subentro.From) /\ ~comune.Subentro.From.valid
    BY <2>3 DEF FirstPlanAccepted, SameDate, NoPlan, NoTime, ZeroDay
  <2>5. IsNewOrAnticipated(given, comune.Subentro)
    BY <2>4 DEF IsNewOrAnticipated
  <2>6. ~comune.DataPresubentro => given.From.time > today + 20
    BY <2>1, <2>3, <2>4, <2>5 DEF IsWellFormed, TwentyDaysNotice, BeforeNowPlus
  <2>7. comune.DataPresubentro /\ comune.DataConsegnaSm => given.From.time > today + 5
    BY <2>1, <2>3, <2>5 DEF IsWellFormed, FiveDaysNotice, BeforeNowPlus
  <2> QED
    BY <2>6, <2>7
<1> QED
  BY <1>1, JudgedAlways, PTL

(***************************************************************************)
(* A plan that only moves the preferred date inside the stored interval is *)
(* never refused, whatever the day.                                        *)
(***************************************************************************)
THEOREM PreferredDateAlwaysUpdates == Spec => []PreferredDateCanBeUpdated
<1>1. IInv => PreferredDateCanBeUpdated
  <2> SUFFICES ASSUME IInv,
                      given.PreferredDate.valid,
                      comune.Subentro # NoPlan,
                      given.From = comune.Subentro.From,
                      given.To = comune.Subentro.To,
                      given.PreferredDate.time \in given.From.time .. given.To.time
               PROVE  IsWellFormed(given, comune, today)
    BY DEF IInv, Judged, PreferredDateCanBeUpdated
  <2>1. /\ comune.Subentro.From.valid
        /\ IsInterval(comune.Subentro)
    BY GivenParts, StoredPlans
  <2>2. /\ given.From.time \in Nat /\ given.To.time \in Nat
        /\ given.PreferredDate.time \in Nat
    BY GivenParts, GivenTimes
  <2>3. given.From.time <= given.To.time /\ given.To.time <= given.From.time + 30
    BY <2>1 DEF IsInterval
  <2>4. SameDate(given.From, comune.Subentro.From)
    BY DEF SameDate
  <2>5. ~IsNewOrAnticipated(given, comune.Subentro)
    BY <2>1, <2>4 DEF IsNewOrAnticipated, IsPresentAndAnticipated
  <2>6. DatesInOrder(given) /\ RangeWithinThirtyDays(given)
    BY <2>2, <2>3 DEF DatesInOrder, RangeWithinThirtyDays
  <2> QED
    BY <2>4, <2>5, <2>6
    DEF IsWellFormed, MovedNotToPast, FiveDaysNotice, TwentyDaysNotice
<1> QED
  BY <1>1, JudgedAlways, PTL

(***************************************************************************)
(* A plan without dates is accepted only where there is none: its absent   *)
(* first day is the zero day, which is in the past and is that of no       *)
(* stored plan.                                                            *)
(***************************************************************************)
THEOREM EmptyPlansEraseNothing == Spec => []EmptyPlanErasesNothing
<1>1. IInv => EmptyPlanErasesNothing
  <2> SUFFICES ASSUME IInv, verdict = "accepted", ~HasValidDates(given),
                      comune.Subentro # NoPlan
               PROVE  FALSE
    BY DEF EmptyPlanErasesNothing
  <2>1. IsWellFormed(given, comune, today)
    BY DEF IInv, Judged
  <2>2. given.From.time = 0 /\ today \in Nat
    BY GivenParts, GivenTimes DEF HasValidDates
  <2>3. comune.Subentro.From.time \in Days
    BY GivenParts, StoredPlans
  <2>4. comune.Subentro.From.time > 0
    BY <2>3, DaysAssumption, EpochIsLate
  <2>5. ~SameDate(given.From, comune.Subentro.From)
    BY <2>2, <2>4 DEF SameDate
  <2> QED
    BY <2>1, <2>2, <2>5 DEF IsWellFormed, MovedNotToPast, BeforeNowPlus
<1> QED
  BY <1>1, JudgedAlways, PTL
=============================================================================
