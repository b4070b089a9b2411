--------------------------- MODULE SubentroProofs ---------------------------
(***************************************************************************)
(* Lemmas about the rules of a plan, which the proofs about the handlers   *)
(* and about a single judgement share.                                     *)
(***************************************************************************)
EXTENDS Subentro, TLAPS

(***************************************************************************)
(* All that matters of the epoch: it is more than a month after the zero   *)
(* day.                                                                    *)
(***************************************************************************)
LEMMA EpochIsLate == EpochDay \in Nat /\ EpochDay > 30
  BY SMT DEF EpochDay

(***************************************************************************)
(* A present date is one of Days, an absent one is the zero day.           *)
(***************************************************************************)
LEMMA GivenTimes ==
  ASSUME NEW t \in GivenTime
  PROVE  /\ t.valid \in BOOLEAN
         /\ t.time \in Nat
         /\ t.valid => t.time \in Days /\ t.time > 60
         /\ ~t.valid => t.time = 0
<1>1. \A d \in Days : d \in Nat /\ d > 60
  BY DaysAssumption, EpochIsLate
<1>2. CASE \E d \in Days : t = TimeFrom(d)
  BY <1>1, <1>2 DEF TimeFrom
<1>3. CASE t = NoTime
  BY <1>3 DEF NoTime, ZeroDay
<1> QED
  BY <1>2, <1>3 DEF GivenTime

(***************************************************************************)
(* What IsWellFormed accepts is an interval of at most thirty days around  *)
(* its preferred date.                                                     *)
(***************************************************************************)
LEMMA WellFormedIsInterval ==
  ASSUME NEW s \in GivenPlan, NEW c, NEW t, IsWellFormed(s, c, t)
  PROVE  IsInterval(s)
<1>1. s.From \in GivenTime /\ s.To \in GivenTime /\ s.PreferredDate \in GivenTime
  BY DEF GivenPlan
<1>2. /\ s.From.time \in Nat /\ s.To.time \in Nat /\ s.PreferredDate.time \in Nat
  BY <1>1, GivenTimes
<1>3. DatesInOrder(s) /\ RangeWithinThirtyDays(s)
  BY DEF IsWellFormed
<1> QED
  BY <1>2, <1>3 DEF DatesInOrder, RangeWithinThirtyDays, IsInterval

(***************************************************************************)
(* What IsWellFormed accepts has both ends as soon as it has any date.     *)
(***************************************************************************)
LEMMA WellFormedHasEnds ==
  ASSUME NEW s \in GivenPlan, NEW c, NEW t, IsWellFormed(s, c, t), HasValidDates(s)
  PROVE  s.From.valid /\ s.To.valid
<1>1. s.From \in GivenTime /\ s.To \in GivenTime /\ s.PreferredDate \in GivenTime
  BY DEF GivenPlan
<1>2. IsInterval(s)
  BY WellFormedIsInterval
<1>3. ASSUME ~s.From.valid PROVE FALSE
  <2>1. s.From.time = 0
    BY <1>1, <1>3, GivenTimes
  <2>2. s.To.time <= 30 /\ s.To.time \in Nat
    BY <1>1, <1>2, <2>1, GivenTimes DEF IsInterval
  <2>3. ~s.To.valid
    BY <1>1, <2>2, GivenTimes
  <2>4. s.PreferredDate.valid
    BY <1>3, <2>3 DEF HasValidDates
  <2> QED
    BY <1>1, <1>2, <2>1, <2>2, <2>4, GivenTimes DEF IsInterval
<1>4. ASSUME s.From.valid, ~s.To.valid PROVE FALSE
  BY <1>1, <1>2, <1>4, GivenTimes DEF IsInterval
<1> QED
  BY <1>1, <1>3, <1>4, GivenTimes
=============================================================================
