------------------------------ MODULE Subentro ------------------------------
(***************************************************************************)
(* The takeover plan ("subentro") of a comune and the rules its dates must *)
(* meet: sqlite/sqlite3_manager.go, type Subentro and IsWellFormed, with   *)
(* the conversions between a plan and its row in the table SUBENTRO.       *)
(*                                                                         *)
(* A date is the number of its day.  The clients send midnights, so a date *)
(* is the first instant of its day, and the present is an instant strictly *)
(* inside the day `today': a date t is Before(now + k days) exactly when   *)
(* t <= today + k.  The IP address of a plan is left out: no rule reads    *)
(* it.                                                                     *)
(***************************************************************************)
EXTENDS Integers

CONSTANTS Days,     \* the days a client may name in a plan
          NULL      \* an absent FINAL_DATE column

ZeroDay  == 0        \* 1 January of the year 1, the zero time.Time
EpochDay == 719162   \* 1 January 1970, time.Unix(0, 0)

(***************************************************************************)
(* Plans concern the present: a month after the epoch or later.            *)
(***************************************************************************)
ASSUME DaysAssumption == Days \subseteq {d \in Nat : d > EpochDay + 30}

ASSUME NullAssumption == NULL \notin Nat

(***************************************************************************)
(* null.Time: a date that may be absent, and still holds a time then.      *)
(***************************************************************************)
NullTime == [valid : BOOLEAN, time : Days \cup {ZeroDay, EpochDay}]

TimeFrom(d) == [valid |-> TRUE, time |-> d]
NoTime      == [valid |-> FALSE, time |-> ZeroDay]

(***************************************************************************)
(* What a client can put in a plan: JSON null, an absent field or an empty *)
(* CSV column leave the zero time.                                         *)
(***************************************************************************)
GivenTime == {TimeFrom(d) : d \in Days} \cup {NoTime}

Plan == [From : NullTime, To : NullTime, PreferredDate : NullTime]

GivenPlan == [From : GivenTime, To : GivenTime, PreferredDate : GivenTime]

NoPlan == [From |-> NoTime, To |-> NoTime, PreferredDate |-> NoTime]

HasValidDates(s) == s.From.valid \/ s.To.valid \/ s.PreferredDate.valid

SameDate(a, b) == a.time = b.time

(***************************************************************************)
(* t is before the present moment plus k days.                             *)
(***************************************************************************)
BeforeNowPlus(t, today, k) == t.time <= today + k

(***************************************************************************)
(* The rules of IsWellFormed, one operator per family of messages.  s is   *)
(* the plan given, comune the record found in the database, with its old   *)
(* plan and whether the pre-takeover took place and the smart cards were   *)
(* delivered.                                                              *)
(***************************************************************************)
\* Faulty variant, for the mutation runs: the preferred date is not bounded above.
PreferredAfterFrom(s) ==
  /\ ~(s.To.time < s.From.time)
  /\ s.PreferredDate.valid => ~(s.PreferredDate.time < s.From.time)

DatesInOrder(s) ==
  /\ ~(s.To.time < s.From.time)
  /\ s.PreferredDate.valid => ~(s.PreferredDate.time < s.From.time)
  /\ s.PreferredDate.valid => ~(s.To.time < s.PreferredDate.time)

\* Faulty variant: one day too many.
RangeWithinThirtyOneDays(s) == ~(s.From.time + 31 < s.To.time)

RangeWithinThirtyDays(s) == ~(s.From.time + 30 < s.To.time)

\* Faulty variant: the past is refused for every plan, moved or not.
NeverInPast(s, old, today) == ~BeforeNowPlus(s.From, today, 0)

\* Faulty variant: it is the last day that must not be past.
EndNotInPast(s, old, today) ==
  ~SameDate(s.From, old.From) => ~BeforeNowPlus(s.To, today, 0)

\* Faulty variant: an absent From is not looked at.
MovedPresentNotToPast(s, old, today) ==
  ( /\ s.From.valid
    /\ ~SameDate(s.From, old.From) ) => ~BeforeNowPlus(s.From, today, 0)

MovedNotToPast(s, old, today) ==
  ~SameDate(s.From, old.From) => ~BeforeNowPlus(s.From, today, 0)

IsPresentAndAnticipated(s, old) ==
  /\ old.From.valid
  /\ ~SameDate(s.From, old.From)
  /\ s.PreferredDate.valid
  /\ s.PreferredDate.time < old.PreferredDate.time

\* Faulty variant: only anticipated plans need notice.
OnlyAnticipated(s, old) == IsPresentAndAnticipated(s, old)

IsNewOrAnticipated(s, old) == ~old.From.valid \/ IsPresentAndAnticipated(s, old)

FiveDaysNotice(s, comune, today) ==
  ( /\ IsNewOrAnticipated(s, comune.Subentro)
    /\ comune.DataPresubentro
    /\ comune.DataConsegnaSm )
  => ~BeforeNowPlus(s.From, today, 5)

TwentyDaysNotice(s, comune, today) ==
  ( /\ IsNewOrAnticipated(s, comune.Subentro)
    /\ ~comune.DataPresubentro
    /\ ~SameDate(s.From, comune.Subentro.From) )
  => ~BeforeNowPlus(s.From, today, 20)

IsWellFormed(s, comune, today) ==
  /\ DatesInOrder(s)
  /\ MovedNotToPast(s, comune.Subentro, today)
  /\ FiveDaysNotice(s, comune, today)
  /\ TwentyDaysNotice(s, comune, today)
  /\ RangeWithinThirtyDays(s)

-----------------------------------------------------------------------------
(***************************************************************************)
(* The columns SaveOrUpdateSubentro writes for a plan, and the plan        *)
(* SearchComuni reads back from them.  A NULL FINAL_DATE comes back as an  *)
(* invalid date that holds the epoch, not the zero time.                   *)
(***************************************************************************)
\* Faulty variant: an absent date is written as the time it holds.
PreferredTime(s) == s.PreferredDate.time

FinalDateColumn(s) == IF s.PreferredDate.valid THEN s.PreferredDate.time ELSE NULL

SubentroFromRow(row) ==
  [From          |-> TimeFrom(row.from),
   To            |-> TimeFrom(row.to),
   PreferredDate |-> IF row.final = NULL
                     THEN [valid |-> FALSE, time |-> EpochDay]
                     ELSE TimeFrom(row.final)]

(***************************************************************************)
(* A plan whose dates, when both ends are present, are an interval of at   *)
(* most thirty days that holds the preferred date.                         *)
(***************************************************************************)
IsInterval(s) ==
  /\ s.From.time <= s.To.time
  /\ s.To.time <= s.From.time + 30
  /\ s.PreferredDate.valid =>
       s.PreferredDate.time \in s.From.time .. s.To.time
=============================================================================
