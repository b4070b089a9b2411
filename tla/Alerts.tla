------------------------------- MODULE Alerts -------------------------------
(***************************************************************************)
(* The alerts of server/alertmanager.go: a goroutine that wakes every      *)
(* twenty-four hours and, for each of two kinds of alert, mails to the     *)
(* fornitori of the comuni found by SearchAlerts: those whose plan ends    *)
(* soon, and those whose plan has ended and that have not taken over.      *)
(*                                                                         *)
(* The search joins COMUNE with SUBENTRO and lists a comune once for each  *)
(* row it has there: the two rows that PlanStore shows two racing first    *)
(* plans to leave are two alerts.  All below is therefore by row.          *)
(*                                                                         *)
(* What was done is remembered in the table ALERTS, by one UPDATE after    *)
(* the last mail.  The server may stop before it, the UPDATE may fail and  *)
(* be only logged, a mail may be lost; plans move and comuni take over     *)
(* meanwhile.  The sleep is counted from the end of a run, so the hour of  *)
(* the runs drifts, and now and then a run falls after midnight.           *)
(*                                                                         *)
(* Time is a day and an hour of it.  A day has Hours hours; hour 0 is the  *)
(* instant of midnight, at which the days of the plans begin.              *)
(***************************************************************************)
EXTENDS Integers, FiniteSets

CONSTANTS
  Rows,         \* the rows of SUBENTRO
  Comuni,       \* by their place in the order of the names
  ComuneOf,     \* the comune of each row
  Hours,        \* hours of a day
  Notice,       \* the days a plan must be left alone to be announced
  LongestRun,   \* hours the mails of one run may take
  FirstDay, LastDay,   \* the days observed
  Moves,        \* the comuni whose plan may move, and to what day
  Settings,     \* what the tables may hold at first, and Environment
  MaxFaults,    \* bound: how many times something fails
  NULL

Kinds == {"PROACTIVE", "REACTIVE"}

\* EMAIL_REFERENTE: an address, the empty text, NULL; or the fornitore has no row.
Referente == {"address", "empty", "null", "none"}

\* sandbox: Environment = TESTENV.  Without a row in ALERTS, processed is NULL.
Setting == [plan : [Rows -> Nat], referente : [Rows -> Referente],
            sandbox : BOOLEAN, processed : [Kinds -> {d \in Int : d < FirstDay} \cup {NULL}]]

RowsOf(c) == {r \in Rows : ComuneOf[r] = c}

ASSUME AlertsAssumption ==
  /\ IsFiniteSet(Rows)
  /\ IsFiniteSet(Comuni) /\ Comuni \subseteq Nat
  /\ ComuneOf \in [Rows -> Comuni]
  /\ Hours \in Nat \ {0}
  /\ LongestRun \in Nat
  /\ FirstDay \in Nat /\ LastDay \in Nat /\ FirstDay <= LastDay
  /\ Moves \subseteq Comuni \X Nat
  /\ NULL \notin Int
  /\ Settings \subseteq Setting
  /\ \A s \in Settings : \A r \in Rows :
       \A q \in RowsOf(ComuneOf[r]) : s.referente[q] = s.referente[r]
  /\ MaxFaults \in Nat

(***************************************************************************)
(* What AnnouncedInTime rests on: the mails of a run are sent in a quarter *)
(* of a day, and a plan is known four days before the day it ends.         *)
(***************************************************************************)
ASSUME NoticeAssumption ==
  /\ 4 * LongestRun <= Hours
  /\ Notice \in Nat /\ Notice >= 4

VARIABLES
  day, hour,
  \* The database.
  plan,        \* RANGE_TO of each row, the day
  gone,        \* the rows of the comuni that took over or ceased
  referente,   \* EMAIL_REFERENTE of the fornitore of the comune of each row
  processed,   \* LAST_PROCESSED_DATE of each kind: its day, NULL without a row
  \* The goroutine.
  sandbox,     \* Environment = TESTENV
  pc,          \* what it does next
  order,       \* the kinds in the order of the map, as a function on 1 .. 2
  at,          \* the kind being processed
  alerting,    \* the rows found and not mailed yet
  slept,       \* hours asleep
  ran,         \* hours since it woke
  \* History.
  told,        \* the mails sent today, by kind and row
  cut,         \* runs of each kind of which ALERTS knows nothing, today
  announced,   \* the rows mailed that their present plan ends soon
  moved,       \* the rows found whose plan moved before their mail
  steady,      \* the rows whose plan was there Notice days before it ends
  waiting,     \* hours each row has been overdue without being told
  faults

clock   == <<day, hour>>
plans   == <<plan, gone, referente>>
runVars == <<pc, order, at, alerting, slept, ran>>
history == <<told, cut, announced, moved, steady, waiting>>
vars    == <<clock, plans, processed, sandbox, runVars, history, faults>>

TypeOK ==
  /\ day \in FirstDay .. LastDay
  /\ hour \in 0 .. Hours - 1
  /\ plan \in [Rows -> Nat]
  /\ gone \in SUBSET Rows
  /\ referente \in [Rows -> Referente]
  /\ processed \in [Kinds -> Int \cup {NULL}]
  /\ sandbox \in BOOLEAN
  /\ pc \in {"check", "search", "send", "sleep", "down"}
  /\ order \in [1 .. 2 -> Kinds]
  /\ at \in 1 .. 3
  /\ alerting \in SUBSET Rows
  /\ slept \in 0 .. Hours
  /\ ran \in 0 .. LongestRun
  /\ told \in [Kinds -> [Rows -> Nat]]
  /\ cut \in [Kinds -> Nat]
  /\ announced \in SUBSET Rows
  /\ moved \in SUBSET Rows
  /\ steady \in SUBSET Rows
  /\ waiting \in [Rows -> Nat]
  /\ faults \in Nat

-----------------------------------------------------------------------------
(***************************************************************************)
(* SearchAlerts.  RANGE_TO is a midnight, now an instant: what is left is  *)
(* counted in seconds and divided by 86400.                                *)
(***************************************************************************)
WholeDaysLeft(r) == plan[r] - day - (IF hour = 0 THEN 0 ELSE 1)

\* RANGE_TO BETWEEN now AND now + 1036800.
EndsSoon(r) == WholeDaysLeft(r) >= 0 /\ plan[r] - day <= 12

\* RANGE_TO < now - 86400.
Overdue(r) == plan[r] < day - 1 \/ (plan[r] = day - 1 /\ hour > 0)

\* The joins: a fornitore without a row in REFERENTI hides its comuni.
Listed(r) == r \notin gone /\ referente[r] # "none"

\* Faulty variant: a plan is announced on one day only.
SearchOnce ==
  [k \in Kinds |->
     IF k = "PROACTIVE" THEN {r \in Rows : Listed(r) /\ EndsSoon(r) /\ WholeDaysLeft(r) = 3}
     ELSE {r \in Rows : Listed(r) /\ Overdue(r)}]

SearchAlerts ==
  [k \in Kinds |->
     IF k = "PROACTIVE" THEN {r \in Rows : Listed(r) /\ EndsSoon(r) /\ WholeDaysLeft(r) % 3 = 0}
     ELSE {r \in Rows : Listed(r) /\ Overdue(r)}]

Orders == {o \in [1 .. 2 -> Kinds] : o[1] # o[2]}

Kind == order[at]

\* The plan has more than Notice days to go.
Ahead(d) == d - Notice > day

-----------------------------------------------------------------------------
Init ==
  /\ day = FirstDay /\ hour \in 0 .. Hours - 1
  /\ gone = {}
  /\ \E s \in Settings :
       /\ plan = s.plan
       /\ referente = s.referente
       /\ processed = s.processed
       /\ sandbox = s.sandbox
  /\ pc = "check" /\ order \in Orders /\ at = 1
  /\ alerting = {} /\ slept = 0 /\ ran = 0
  /\ told = [k \in Kinds |-> [r \in Rows |-> 0]]
  /\ cut = [k \in Kinds |-> 0]
  /\ announced = {} /\ moved = {}
  /\ steady = {r \in Rows : Ahead(plan[r])}
  /\ waiting = [r \in Rows |-> 0]
  /\ faults = 0

(***************************************************************************)
(* One kind after the other.  CheckAlertTable gives the day of its last    *)
(* run, or panics when it has no row; nothing recovers the goroutine, and  *)
(* the whole server stops.                                                 *)
(***************************************************************************)
CheckMissing ==
  /\ pc = "check" /\ at <= 2
  /\ processed[Kind] = NULL
  /\ pc' = "down"
  /\ UNCHANGED <<clock, plans, processed, sandbox, order, at, alerting, slept, ran,
                 history, faults>>

\* Faulty variant: the same day passes.
CheckSameDay ==
  /\ pc = "check" /\ at <= 2
  /\ processed[Kind] # NULL
  /\ processed[Kind] <= day
  /\ pc' = "search"
  /\ UNCHANGED <<clock, plans, processed, sandbox, order, at, alerting, slept, ran,
                 history, faults>>

CheckPassed ==
  /\ pc = "check" /\ at <= 2
  /\ processed[Kind] # NULL
  /\ processed[Kind] < day
  /\ pc' = "search"
  /\ UNCHANGED <<clock, plans, processed, sandbox, order, at, alerting, slept, ran,
                 history, faults>>

CheckDone ==
  /\ pc = "check" /\ at <= 2
  /\ processed[Kind] # NULL
  /\ processed[Kind] >= day
  /\ at' = at + 1
  /\ UNCHANGED <<clock, plans, processed, sandbox, pc, order, alerting, slept, ran,
                 history, faults>>

\* Faulty variant: the loop over the kinds does not begin again.
SleepOn ==
  /\ pc = "check" /\ at = 3
  /\ pc' = "sleep" /\ at' = at + 1
  /\ slept' = 0 /\ ran' = 0
  /\ UNCHANGED <<clock, plans, processed, sandbox, order, alerting, history, faults>>

Sleep ==
  /\ pc = "check" /\ at = 3
  /\ pc' = "sleep" /\ at' = 1
  /\ slept' = 0 /\ ran' = 0
  /\ UNCHANGED <<clock, plans, processed, sandbox, order, alerting, history, faults>>

Wake ==
  /\ pc = "sleep" /\ slept = Hours
  /\ pc' = "check"
  /\ UNCHANGED <<clock, plans, processed, sandbox, order, at, alerting, slept, ran,
                 history, faults>>

\* The rows are read into a list; a NULL among the addresses panics.
Search ==
  /\ pc = "search"
  /\ \A r \in SearchAlerts[Kind] : referente[r] # "null"
  /\ alerting' = SearchAlerts[Kind]
  /\ moved' = {}
  /\ pc' = "send"
  /\ UNCHANGED <<clock, plans, processed, sandbox, order, at, slept, ran,
                 told, cut, announced, steady, waiting, faults>>

SearchPanics ==
  /\ pc = "search"
  /\ \E r \in SearchAlerts[Kind] : referente[r] = "null"
  /\ pc' = "down"
  /\ UNCHANGED <<clock, plans, processed, sandbox, order, at, alerting, slept, ran,
                 history, faults>>

-----------------------------------------------------------------------------
\* ORDER BY COMUNE.NAME: the rows of one comune come in any order.
First(r) == \A q \in alerting : ComuneOf[r] <= ComuneOf[q]

\* TESTENV breaks after the first.
Rest(r) == IF sandbox THEN {} ELSE alerting \ {r}

\* To the fornitore; to the team in TESTENV and when the address is empty.
ToFornitore(r) == ~sandbox /\ referente[r] = "address"

Send ==
  /\ pc = "send"
  /\ \E r \in alerting :
       /\ First(r)
       /\ alerting' = Rest(r)
       /\ told' = [told EXCEPT ![Kind][r] = @ + 1]
       /\ announced' = IF Kind = "PROACTIVE" /\ ToFornitore(r) /\ r \notin moved
                       THEN announced \cup {r} ELSE announced
       /\ waiting' = IF Kind = "REACTIVE" /\ ToFornitore(r)
                     THEN [waiting EXCEPT ![r] = 0] ELSE waiting
  /\ UNCHANGED <<clock, plans, processed, sandbox, pc, order, at, slept, ran, cut,
                 moved, steady, faults>>

\* The error is logged, and the loop goes on.
SendFails ==
  /\ pc = "send"
  /\ faults < MaxFaults
  /\ \E r \in alerting : First(r) /\ alerting' = Rest(r)
  /\ faults' = faults + 1
  /\ UNCHANGED <<clock, plans, processed, sandbox, pc, order, at, slept, ran, history>>

\* Faulty variant: the UPDATE names no kind.
UpdateBothKinds ==
  /\ pc = "send" /\ alerting = {}
  /\ processed' = [k \in Kinds |-> day]
  /\ pc' = "check" /\ at' = at + 1
  /\ UNCHANGED <<clock, plans, sandbox, order, alerting, slept, ran, history, faults>>

UpdateAlertsTable ==
  /\ pc = "send" /\ alerting = {}
  /\ processed' = [processed EXCEPT ![Kind] = day]
  /\ pc' = "check" /\ at' = at + 1
  /\ UNCHANGED <<clock, plans, sandbox, order, alerting, slept, ran, history, faults>>

\* Exec fails and is logged, or Commit fails and is not looked at.
UpdateLost ==
  /\ pc = "send" /\ alerting = {}
  /\ faults < MaxFaults
  /\ faults' = faults + 1
  /\ cut' = [cut EXCEPT ![Kind] = @ + 1]
  /\ pc' = "check" /\ at' = at + 1
  /\ UNCHANGED <<clock, plans, processed, sandbox, order, alerting, slept, ran,
                 told, announced, moved, steady, waiting>>

\* The server stops: its own panics aside, a panic of the import, a new version.
Stop ==
  /\ pc # "down"
  /\ faults < MaxFaults
  /\ faults' = faults + 1
  /\ pc' = "down"
  /\ cut' = IF pc = "send" THEN [cut EXCEPT ![Kind] = @ + 1] ELSE cut
  /\ UNCHANGED <<clock, plans, processed, sandbox, order, at, alerting, slept, ran,
                 told, announced, moved, steady, waiting>>

\* NewAlertManager, without delay; the order of a map is another each time.
Start ==
  /\ pc = "down"
  /\ pc' = "check" /\ order' \in Orders /\ at' = 1
  /\ alerting' = {} /\ slept' = 0 /\ ran' = 0
  /\ UNCHANGED <<clock, plans, processed, sandbox, history, faults>>

-----------------------------------------------------------------------------
(***************************************************************************)
(* The plans, as requests and imports change them.  The UPDATE names the   *)
(* comune, and writes every row it has.                                    *)
(***************************************************************************)
Changed(c, to) == {r \in RowsOf(c) : plan[r] # to}

MovePlan ==
  /\ \E m \in Moves :
       /\ Changed(m[1], m[2]) # {} /\ Changed(m[1], m[2]) \cap gone = {}
       /\ plan' = [r \in Rows |-> IF r \in Changed(m[1], m[2]) THEN m[2] ELSE plan[r]]
       /\ announced' = announced \ Changed(m[1], m[2])
       /\ moved' = moved \cup (Changed(m[1], m[2]) \cap alerting)
       /\ steady' = IF Ahead(m[2]) THEN steady \cup Changed(m[1], m[2])
                    ELSE steady \ Changed(m[1], m[2])
       /\ waiting' = [r \in Rows |-> IF r \in Changed(m[1], m[2]) THEN 0 ELSE waiting[r]]
  /\ UNCHANGED <<clock, gone, referente, processed, sandbox, runVars, told, cut, faults>>

TakeOver ==
  /\ \E c \in Comuni : RowsOf(c) \ gone # {} /\ gone' = gone \cup RowsOf(c)
  /\ UNCHANGED <<clock, plan, referente, processed, sandbox, runVars, history, faults>>

(***************************************************************************)
(* An hour passes.  The goroutine oversleeps by no whole hour, a run takes *)
(* at most LongestRun hours, and a stopped server is started at once.      *)
(***************************************************************************)
NextWaiting ==
  [r \in Rows |-> IF Overdue(r) /\ r \notin gone THEN waiting[r] + 1 ELSE 0]

Tick ==
  /\ day < LastDay \/ hour < Hours - 1
  /\ \/ pc = "sleep" /\ slept < Hours /\ slept' = slept + 1 /\ UNCHANGED ran
     \/ pc \in {"check", "search", "send"} /\ ran < LongestRun
        /\ ran' = ran + 1 /\ UNCHANGED slept
  /\ \/ hour < Hours - 1 /\ hour' = hour + 1 /\ UNCHANGED <<day, told, cut>>
     \/ /\ hour = Hours - 1
        /\ hour' = 0 /\ day' = day + 1
        /\ told' = [k \in Kinds |-> [r \in Rows |-> 0]]
        /\ cut' = [k \in Kinds |-> 0]
  /\ waiting' = NextWaiting
  /\ UNCHANGED <<plans, processed, sandbox, pc, order, at, alerting, announced, moved,
                 steady, faults>>

Next ==
  \/ CheckMissing \/ CheckPassed \/ CheckDone \/ Sleep \/ Wake
  \/ Search \/ SearchPanics \/ Send \/ SendFails
  \/ UpdateAlertsTable \/ UpdateLost \/ Stop \/ Start
  \/ MovePlan \/ TakeOver \/ Tick

Spec == Init /\ [][Next]_vars
-----------------------------------------------------------------------------
(***************************************************************************)
(* A row of SUBENTRO is mailed about twice on one day, for the same kind,  *)
(* only if the server stopped, or the UPDATE of ALERTS was lost, between   *)
(* its mail and the record of it: once more for each time.  A comune is    *)
(* mailed once for each row it has: twice, and nothing cut, when two first *)
(* plans have raced.                                                       *)
(***************************************************************************)
ResentOnlyIfCut ==
  \A k \in Kinds : \A r \in Rows : told[k][r] <= 1 + cut[k]

(***************************************************************************)
(* What the alerts promise rests on both rows of ALERTS and on the         *)
(* addresses: a NULL among the rows found stops the server before        *)
(* anybody is told.                                                        *)
(***************************************************************************)
Sound ==
  /\ ~sandbox
  /\ \A k \in Kinds : processed[k] # NULL
  /\ \A r \in Rows : referente[r] # "null"

(***************************************************************************)
(* A row that is overdue is told so within two days and the length of      *)
(* three runs, although one thing fails: a mail is lost and the next is a  *)
(* day later, or a start finds in ALERTS that the day is done and sleeps   *)
(* a whole day from then.                                                  *)
(***************************************************************************)
OverdueIsTold ==
  Sound /\ faults <= 1 =>
    \A r \in Rows : referente[r] = "address" => waiting[r] <= 2 * Hours + 3 * LongestRun

(***************************************************************************)
(* A plan left alone over its last days, Notice of them, is announced      *)
(* before it ends while nothing fails, with the date it has: the hour of   *)
(* the runs drifts over midnight and a day is skipped, and still one of    *)
(* them finds the whole days left divisible by three.                      *)
(***************************************************************************)
AnnouncedInTime ==
  Sound /\ faults = 0 =>
    \A r \in steady \ gone :
      referente[r] = "address" /\ day > plan[r] => r \in announced
=============================================================================
