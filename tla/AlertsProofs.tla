---------------------------- MODULE AlertsProofs ----------------------------
(***************************************************************************)
(* Proofs about Alerts: its types, that an alert is sent again on the same *)
(* day only after a stop or a lost UPDATE, that the overdue are told and   *)
(* that a plan is announced before it ends, for any number of rows, days   *)
(* and hours.                                                              *)
(***************************************************************************)
EXTENDS Alerts, TLAPS

\* ALERTS says that kind k was processed today.
Done(k) == processed[k] # NULL /\ processed[k] >= day

Sending(k) == pc = "send" /\ k = Kind

(***************************************************************************)
(* While a kind is in hand it is one of the two, and it was not done when  *)
(* the run came to it.                                                     *)
(***************************************************************************)
InHand == pc \in {"search", "send"} => at \in 1 .. 2

SearchedOnce == pc = "search" => ~Done(Kind)

(***************************************************************************)
(* The count of the mails of today against the runs cut today: behind      *)
(* while the kind is not done, one ahead for the rows mailed by the run    *)
(* in progress, and at most one ahead at all times.                        *)
(***************************************************************************)
Behind ==
  \A k \in Kinds : ~Done(k) /\ ~Sending(k) =>
    \A r \in Rows : told[k][r] <= cut[k]

StillToTell ==
  \A k \in Kinds : Sending(k) => \A r \in alerting : told[k][r] <= cut[k]

IInv == TypeOK /\ InHand /\ SearchedOnce /\ Behind /\ StillToTell /\ ResentOnlyIfCut

-----------------------------------------------------------------------------
(***************************************************************************)
(* The types, with InHand, which says that Kind is a kind when it is used. *)
(***************************************************************************)
TypeInv == TypeOK /\ InHand

LEMMA KindTyped == TypeInv /\ at \in 1 .. 2 => Kind \in Kinds
  BY DEF TypeInv, TypeOK, Kind

LEMMA InitTypes == Init => TypeInv
  BY AlertsAssumption DEF Init, TypeInv, TypeOK, InHand, Setting, Orders, Kinds

LEMMA NextTypes == TypeInv /\ [Next]_vars => TypeInv'
<1> SUFFICES ASSUME TypeInv, [Next]_vars PROVE TypeInv'
  OBVIOUS
<1> USE AlertsAssumption DEF TypeInv, TypeOK, InHand, clock, plans, history, runVars
<1>1. CASE CheckMissing
  BY <1>1 DEF CheckMissing
<1>2. CASE CheckPassed
  BY <1>2 DEF CheckPassed
<1>3. CASE CheckDone
  BY <1>3 DEF CheckDone
<1>4. CASE Sleep
  BY <1>4 DEF Sleep
<1>5. CASE Wake
  BY <1>5 DEF Wake
<1>6. CASE Search
  <2>1. Kind \in Kinds
    BY <1>6, KindTyped DEF Search
  <2>2. SearchAlerts[Kind] \subseteq Rows
    BY <2>1 DEF SearchAlerts
  <2> QED
    BY <1>6, <2>2 DEF Search
<1>7. CASE SearchPanics
  BY <1>7 DEF SearchPanics
<1>8. CASE Send
  <2>1. Kind \in Kinds
    BY <1>8, KindTyped DEF Send
  <2>2. PICK r \in alerting :
          /\ alerting' = Rest(r)
          /\ told' = [told EXCEPT ![Kind][r] = @ + 1]
          /\ announced' = IF Kind = "PROACTIVE" /\ ToFornitore(r) /\ r \notin moved
                          THEN announced \cup {r} ELSE announced
          /\ waiting' = IF Kind = "REACTIVE" /\ ToFornitore(r)
                        THEN [waiting EXCEPT ![r] = 0] ELSE waiting
    BY <1>8 DEF Send
  <2>3. alerting' \in SUBSET Rows
    BY <2>2 DEF Rest
  <2>4. told' \in [Kinds -> [Rows -> Nat]]
    BY <2>1, <2>2
  <2>5. announced' \in SUBSET Rows
    BY <2>2
  <2>6. waiting' \in [Rows -> Nat]
    BY <2>2
  <2> QED
    BY <1>8, <2>3, <2>4, <2>5, <2>6 DEF Send
<1>9. CASE SendFails
  <2>1. alerting' \in SUBSET Rows
    BY <1>9 DEF SendFails, Rest
  <2> QED
    BY <1>9, <2>1 DEF SendFails
<1>10. CASE UpdateAlertsTable
  <2>1. at' \in 1 .. 3 /\ day \in Int
    BY <1>10 DEF UpdateAlertsTable
  <2>2. processed' \in [Kinds -> Int \cup {NULL}]
    BY <1>10, <2>1 DEF UpdateAlertsTable
  <2> QED
    BY <1>10, <2>1, <2>2 DEF UpdateAlertsTable
<1>11. CASE UpdateLost
  <2>1. Kind \in Kinds
    BY <1>11, KindTyped DEF UpdateLost
  <2> QED
    BY <1>11, <2>1 DEF UpdateLost
<1>12. CASE Stop
  <2>1. pc = "send" => Kind \in Kinds
    BY KindTyped
  <2>2. cut' \in [Kinds -> Nat]
    BY <1>12, <2>1 DEF Stop
  <2> QED
    BY <1>12, <2>2 DEF Stop
<1>13. CASE Start
  BY <1>13 DEF Start, Orders
<1>14. CASE MovePlan
  <2>1. PICK m \in Moves :
          /\ plan' = [r \in Rows |-> IF r \in Changed(m[1], m[2]) THEN m[2] ELSE plan[r]]
          /\ announced' = announced \ Changed(m[1], m[2])
          /\ moved' = moved \cup (Changed(m[1], m[2]) \cap alerting)
          /\ steady' = IF Ahead(m[2]) THEN steady \cup Changed(m[1], m[2])
                       ELSE steady \ Changed(m[1], m[2])
          /\ waiting' = [r \in Rows |-> IF r \in Changed(m[1], m[2]) THEN 0 ELSE waiting[r]]
    BY <1>14 DEF MovePlan
  <2>2. m \in Comuni \X Nat
    BY AlertsAssumption
  <2>3. m[2] \in Nat /\ Changed(m[1], m[2]) \subseteq Rows
    BY <2>2 DEF Changed, RowsOf
  <2>4. plan' \in [Rows -> Nat] /\ waiting' \in [Rows -> Nat]
    BY <2>1, <2>3
  <2>5. announced' \in SUBSET Rows /\ moved' \in SUBSET Rows
    BY <2>1, <2>3
  <2>6. steady' \in SUBSET Rows
    BY <2>1, <2>3
  <2> QED
    BY <1>14, <2>4, <2>5, <2>6 DEF MovePlan
<1>15. CASE TakeOver
  BY <1>15 DEF TakeOver, RowsOf
<1>16. CASE Tick
  <2>1. NextWaiting \in [Rows -> Nat]
    BY DEF NextWaiting
  <2>2. told' \in [Kinds -> [Rows -> Nat]] /\ cut' \in [Kinds -> Nat]
    BY <1>16 DEF Tick
  <2>3. day' \in FirstDay .. LastDay /\ hour' \in 0 .. Hours - 1
    BY <1>16 DEF Tick
  <2>4. slept' \in 0 .. Hours /\ ran' \in 0 .. LongestRun
    BY <1>16 DEF Tick
  <2> QED
    BY <1>16, <2>1, <2>2, <2>3, <2>4 DEF Tick
<1>17. CASE UNCHANGED vars
  BY <1>17 DEF vars
<1> QED
  BY <1>1, <1>2, <1>3, <1>4, <1>5, <1>6, <1>7, <1>8, <1>9, <1>10, <1>11, <1>12,
     <1>13, <1>14, <1>15, <1>16, <1>17 DEF Next

(***************************************************************************)
(* The clock, the tables and the goroutine keep their types, for any       *)
(* rows, plans and faults.                                                 *)
(***************************************************************************)
THEOREM AlertTypes == Spec => []TypeOK
<1>1. TypeInv => TypeOK
  BY DEF TypeInv
<1> QED
  BY InitTypes, NextTypes, <1>1, PTL DEF Spec
-----------------------------------------------------------------------------
LEMMA InitCounts == Init => IInv
  BY AlertsAssumption, InitTypes
  DEF Init, IInv, TypeInv, SearchedOnce, Behind, StillToTell, ResentOnlyIfCut, Sending, Kinds

(***************************************************************************)
(* What only concerns the plans, the addresses and the sleep leaves the    *)
(* counts alone.                                                           *)
(***************************************************************************)
countVars == <<day, processed, pc, order, at, alerting, told, cut>>

Counts == SearchedOnce /\ Behind /\ StillToTell /\ ResentOnlyIfCut

LEMMA CountsAlone == Counts /\ UNCHANGED countVars => Counts'
  BY DEF Counts, countVars, SearchedOnce, Behind, StillToTell, ResentOnlyIfCut, Done,
         Sending, Kind

LEMMA NextCounts == IInv /\ [Next]_vars => Counts'
<1> SUFFICES ASSUME IInv, [Next]_vars PROVE Counts'
  OBVIOUS
<1>0. TypeInv /\ Counts /\ TypeInv'
  BY NextTypes DEF IInv, TypeInv, Counts
<1> USE <1>0 DEF Counts, SearchedOnce, Behind, StillToTell, ResentOnlyIfCut, Done, Sending, Kind
<1>t. told \in [Kinds -> [Rows -> Nat]] /\ cut \in [Kinds -> Nat] /\ day \in Int
      /\ processed \in [Kinds -> Int \cup {NULL}] /\ alerting \in SUBSET Rows
  BY AlertsAssumption DEF TypeInv, TypeOK
<1>k. at \in 1 .. 2 => order[at] \in Kinds
  BY KindTyped DEF Kind
<1>h. pc \in {"search", "send"} => at \in 1 .. 2
  BY DEF TypeInv, InHand
<1>1. CASE CheckMissing
  BY <1>1, <1>t DEF CheckMissing, clock, plans, history, runVars
<1>2. CASE CheckPassed
  <2>1. Kind \in Kinds /\ processed[Kind] \in Int
    BY <1>2, <1>t, <1>k DEF CheckPassed, TypeInv, TypeOK
  <2>2. ~(processed[Kind] >= day)
    BY <1>2, <2>1, <1>t DEF CheckPassed
  <2> QED
    BY <1>2, <2>2 DEF CheckPassed, clock, plans, history, runVars
<1>3. CASE CheckDone
  BY <1>3 DEF CheckDone, clock, plans, history, runVars
<1>4. CASE Sleep
  BY <1>4 DEF Sleep, clock, plans, history, runVars
<1>5. CASE Wake
  BY <1>5 DEF Wake, clock, plans, history, runVars
<1>6. CASE Search
  BY <1>6, <1>t, <1>k, <1>h DEF Search, SearchAlerts, clock, plans, history, runVars
<1>7. CASE SearchPanics
  BY <1>7 DEF SearchPanics, clock, plans, history, runVars
<1>8. CASE Send
  <2>1. PICK r \in alerting :
          /\ alerting' = Rest(r)
          /\ told' = [told EXCEPT ![Kind][r] = @ + 1]
    BY <1>8 DEF Send
  <2>2. Kind \in Kinds /\ r \in Rows
    BY <1>8, <1>k, <1>h, <1>t DEF Send
  <2>3. alerting' \subseteq alerting \ {r}
    BY <2>1 DEF Rest
  <2>4. \A k \in Kinds : k # Kind => told'[k] = told[k]
    BY <2>1, <1>t
  <2>5. \A d \in Rows : d # r => told'[Kind][d] = told[Kind][d]
    BY <2>1, <2>2, <1>t
  <2>6. told'[Kind][r] = told[Kind][r] + 1
    BY <2>1, <2>2, <1>t
  <2>7. told[Kind][r] <= cut[Kind]
    BY <1>8, <2>2 DEF Send
  <2>8. UNCHANGED <<day, processed, pc, order, at, cut>>
    BY <1>8 DEF Send, clock
  <2>9. \A k \in Kinds : \A d \in Rows : told'[k][d] <= 1 + cut[k]
    BY <2>2, <2>4, <2>5, <2>6, <2>7, <1>t
  <2>10. pc = "send"
    BY <1>8 DEF Send
  <2>11. Behind'
    BY <2>4, <2>8, <2>10
  <2>12. StillToTell'
    BY <2>2, <2>3, <2>5, <2>8, <1>t
  <2> QED
    BY <2>8, <2>9, <2>10, <2>11, <2>12
<1>9. CASE SendFails
  BY <1>9, <1>t DEF SendFails, Rest, clock, plans, history, runVars
<1>10. CASE UpdateAlertsTable
  <2>1. Kind \in Kinds
    BY <1>10, <1>k, <1>h DEF UpdateAlertsTable
  <2>2. processed'[Kind] = day /\ \A k \in Kinds : k # Kind => processed'[k] = processed[k]
    BY <1>10, <2>1, <1>t DEF UpdateAlertsTable
  <2>3. day # NULL
    BY <1>t, AlertsAssumption
  <2> QED
    BY <1>10, <2>1, <2>2, <2>3, <1>t DEF UpdateAlertsTable, clock, history
<1>11. CASE UpdateLost
  <2>1. Kind \in Kinds
    BY <1>11, <1>k, <1>h DEF UpdateLost
  <2>2. cut'[Kind] = cut[Kind] + 1 /\ \A k \in Kinds : k # Kind => cut'[k] = cut[k]
    BY <1>11, <2>1, <1>t DEF UpdateLost
  <2> QED
    BY <1>11, <2>1, <2>2, <1>t DEF UpdateLost, clock
<1>12. CASE Stop
  <2>1. \A k \in Kinds : cut'[k] = IF Sending(k) THEN cut[k] + 1 ELSE cut[k]
    BY <1>12, <1>k, <1>h, <1>t DEF Stop
  <2> QED
    BY <1>12, <2>1, <1>t DEF Stop, clock
<1>13. CASE Start
  BY <1>13 DEF Start, clock, history
<1>14. CASE MovePlan
  BY <1>14, CountsAlone DEF MovePlan, countVars, clock, runVars
<1>15. CASE TakeOver
  BY <1>15, CountsAlone DEF TakeOver, countVars, clock, runVars, history
<1>16. CASE Tick
  <2>1. CASE UNCHANGED <<day, told, cut>>
    BY <1>16, <2>1, CountsAlone DEF Tick, countVars, plans
  <2>2. CASE /\ day' = day + 1
             /\ told' = [k \in Kinds |-> [r \in Rows |-> 0]]
             /\ cut' = [k \in Kinds |-> 0]
    BY <1>16, <2>2, <1>t, <1>k, <1>h DEF Tick, plans
  <2> QED
    BY <1>16, <2>1, <2>2 DEF Tick
<1>17. CASE UNCHANGED vars
  BY <1>17, CountsAlone DEF vars, countVars, clock, runVars, history
<1> QED
  BY <1>1, <1>2, <1>3, <1>4, <1>5, <1>6, <1>7, <1>8, <1>9, <1>10, <1>11, <1>12,
     <1>13, <1>14, <1>15, <1>16, <1>17 DEF Next

(***************************************************************************)
(* Whatever stops, is lost or moves, an alert goes out on one day at most  *)
(* once more than the runs of its kind cut that day.                       *)
(***************************************************************************)
THEOREM AlertsAreNotResent == Spec => []ResentOnlyIfCut
<1>1. IInv /\ [Next]_vars => IInv'
  <2> SUFFICES ASSUME IInv, [Next]_vars PROVE IInv'
    OBVIOUS
  <2>1. TypeInv' /\ Counts'
    BY NextTypes, NextCounts DEF IInv, TypeInv
  <2> QED
    BY <2>1 DEF IInv, TypeInv, Counts
<1>2. IInv => ResentOnlyIfCut
  BY DEF IInv
<1> QED
  BY InitCounts, <1>1, <1>2, PTL DEF Spec
-----------------------------------------------------------------------------
(***************************************************************************)
(* The overdue are told.  Ahead of the run, in hand or behind it is the    *)
(* kind that concerns them, and how long a row may have waited depends     *)
(* on that, on how long the goroutine has run or slept, and on whether a   *)
(* fault has cost it one round.                                            *)
(***************************************************************************)
Before(k) ==
  \/ pc = "check" /\ (at = 1 \/ (at = 2 /\ order[2] = k))
  \/ pc = "search" /\ (at = 1 \/ order[2] = k)
  \/ pc = "send" /\ at = 1 /\ order[1] # k

After(k) == pc \in {"check", "search", "send"} /\ ~Before(k) /\ ~Sending(k)

Placed ==
  /\ order \in Orders
  /\ pc = "sleep" => at = 1
  /\ pc \in {"search", "send"} => processed[Kind] # NULL
  /\ \A k \in Kinds : processed[k] # NULL => processed[k] <= day

\* Hours are counted of the overdue only.
OverdueWait == \A r \in Rows \ gone : waiting[r] > 0 => Overdue(r)

\* Without a fault a run never finds its day done.
Timely(k) ==
  /\ pc = "sleep" => ~Done(k) \/ slept <= hour
  /\ faults = 0 => pc # "down" /\ (Before(k) \/ Sending(k) => ~Done(k))

\* A fault costs a round.
Round == IF faults = 0 THEN 0 ELSE Hours + LongestRun

Within(r) ==
  /\ Before("REACTIVE") =>
       /\ waiting[r] <= Hours + LongestRun + ran + Round
       /\ Done("REACTIVE") => waiting[r] <= ran + Round
  /\ Sending("REACTIVE") =>
       waiting[r] <= (IF r \in alerting THEN Hours + LongestRun ELSE 0) + ran + Round
  /\ After("REACTIVE") => waiting[r] <= ran + Round
  /\ pc = "sleep" => waiting[r] <= LongestRun + slept + Round
  /\ pc = "down" =>
       /\ waiting[r] <= Hours + 2 * LongestRun
       /\ Done("REACTIVE") => waiting[r] <= Hours + LongestRun

ToldInv ==
  /\ Placed /\ OverdueWait
  /\ Sound /\ faults <= 1 =>
       /\ \A k \in Kinds : Timely(k)
       /\ \A r \in Rows \ gone : referente[r] = "address" => Within(r)
  /\ OverdueIsTold

LEMMA InitTold == Init => ToldInv
<1> SUFFICES ASSUME Init PROVE ToldInv
  OBVIOUS
<1>1. day = FirstDay /\ pc = "check" /\ at = 1 /\ ran = 0 /\ faults = 0 /\ order \in Orders
  BY DEF Init
<1>2. processed \in [Kinds -> {d \in Int : d < FirstDay} \cup {NULL}]
  BY AlertsAssumption DEF Init, Setting
<1>3. waiting = [r \in Rows |-> 0]
  BY DEF Init
<1>4. Placed
  BY <1>1, <1>2, AlertsAssumption DEF Placed
<1>5. OverdueWait
  BY <1>3 DEF OverdueWait
<1>6. \A k \in Kinds : Timely(k)
  BY <1>1, <1>2, AlertsAssumption DEF Timely, Done, Kinds
<1>7. \A r \in Rows : Within(r)
  BY <1>1, <1>3, AlertsAssumption DEF Within, Before, Sending, After, Round, Kind
<1>8. OverdueIsTold
  BY <1>3, AlertsAssumption DEF OverdueIsTold
<1> QED
  BY <1>4, <1>5, <1>6, <1>7, <1>8 DEF ToldInv

LEMMA NextPlaced == TypeInv /\ TypeInv' /\ Placed /\ [Next]_vars => Placed'
<1> SUFFICES ASSUME TypeInv, TypeInv', Placed, [Next]_vars PROVE Placed'
  OBVIOUS
<1>t. /\ day \in Int /\ NULL \notin Int /\ at \in 1 .. 3
      /\ processed \in [Kinds -> Int \cup {NULL}]
      /\ pc \in {"search", "send"} => at \in 1 .. 2 /\ order[at] \in Kinds
  BY AlertsAssumption, KindTyped DEF TypeInv, TypeOK, InHand, Kind
<1> USE DEF Placed, Kind, clock, plans, history, runVars
<1>1. CASE CheckMissing
  BY <1>1 DEF CheckMissing
<1>2. CASE CheckPassed
  BY <1>2 DEF CheckPassed
<1>3. CASE CheckDone
  BY <1>3 DEF CheckDone
<1>4. CASE Sleep
  BY <1>4 DEF Sleep
<1>5. CASE Wake
  BY <1>5 DEF Wake
<1>6. CASE Search
  BY <1>6 DEF Search
<1>7. CASE SearchPanics
  BY <1>7 DEF SearchPanics
<1>8. CASE Send
  BY <1>8 DEF Send
<1>9. CASE SendFails
  BY <1>9 DEF SendFails
<1>10. CASE UpdateAlertsTable
  BY <1>10, <1>t DEF UpdateAlertsTable
<1>11. CASE UpdateLost
  BY <1>11 DEF UpdateLost
<1>12. CASE Stop
  BY <1>12 DEF Stop
<1>13. CASE Start
  BY <1>13 DEF Start
<1>14. CASE MovePlan
  BY <1>14 DEF MovePlan
<1>15. CASE TakeOver
  BY <1>15 DEF TakeOver
<1>16. CASE Tick
  <2>1. day' = day \/ day' = day + 1
    BY <1>16 DEF Tick
  <2>2. UNCHANGED <<processed, pc, order, at>>
    BY <1>16 DEF Tick
  <2> QED
    BY <2>1, <2>2, <1>t
<1>17. CASE UNCHANGED vars
  BY <1>17 DEF vars
<1> QED
  BY <1>1, <1>2, <1>3, <1>4, <1>5, <1>6, <1>7, <1>8, <1>9, <1>10, <1>11, <1>12,
     <1>13, <1>14, <1>15, <1>16, <1>17 DEF Next

\* Only an UPDATE writes ALERTS, and never the first row of a kind.
LEMMA SoundBefore == TypeInv /\ Placed /\ [Next]_vars /\ Sound' => Sound
<1> SUFFICES ASSUME TypeInv, Placed, [Next]_vars, Sound' PROVE Sound
  OBVIOUS
<1>1. UNCHANGED <<sandbox, referente>>
  BY DEF Next, CheckMissing, CheckPassed, CheckDone, Sleep, Wake, Search, SearchPanics, Send,
         SendFails, UpdateAlertsTable, UpdateLost, Stop, Start, MovePlan, TakeOver, Tick,
         plans, vars
<1>2. UNCHANGED processed \/ UpdateAlertsTable
  BY DEF Next, CheckMissing, CheckPassed, CheckDone, Sleep, Wake, Search, SearchPanics, Send,
         SendFails, UpdateLost, Stop, Start, MovePlan, TakeOver, Tick, vars
<1>3. CASE UNCHANGED processed
  BY <1>1, <1>3 DEF Sound
<1>4. CASE UpdateAlertsTable
  <2>1. processed[Kind] # NULL
    BY <1>4 DEF UpdateAlertsTable, Placed
  <2>2. \A k \in Kinds : k # Kind => processed'[k] = processed[k]
    BY <1>4 DEF UpdateAlertsTable, TypeInv, TypeOK
  <2> QED
    BY <1>1, <2>1, <2>2 DEF Sound
<1> QED
  BY <1>2, <1>3, <1>4

-----------------------------------------------------------------------------
(***************************************************************************)
(* The hours of the overdue: only Tick counts them, and a plan that moves  *)
(* or a mail sets them back.                                               *)
(***************************************************************************)
LEMMA NextOverdueWait == TypeInv /\ OverdueWait /\ [Next]_vars => OverdueWait'
<1> SUFFICES ASSUME TypeInv, OverdueWait, [Next]_vars,
                    NEW r \in Rows, r \notin gone', waiting'[r] > 0
             PROVE  Overdue(r)'
  BY DEF OverdueWait
<1>t. /\ plan \in [Rows -> Nat] /\ waiting \in [Rows -> Nat]
      /\ day \in Int /\ hour \in 0 .. Hours - 1 /\ Hours \in Nat
  BY AlertsAssumption DEF TypeInv, TypeOK
<1>1. CASE UNCHANGED <<clock, plan, gone, waiting>>
  BY <1>1 DEF OverdueWait, Overdue, clock
<1>2. CASE Send
  <2>1. waiting'[r] > 0 => waiting[r] > 0
    BY <1>2, <1>t DEF Send
  <2> QED
    BY <1>2, <2>1 DEF Send, OverdueWait, Overdue, clock, plans
<1>3. CASE MovePlan
  <2>1. PICK m \in Moves :
          /\ plan' = [q \in Rows |-> IF q \in Changed(m[1], m[2]) THEN m[2] ELSE plan[q]]
          /\ waiting' = [q \in Rows |-> IF q \in Changed(m[1], m[2]) THEN 0 ELSE waiting[q]]
    BY <1>3 DEF MovePlan
  <2>2. r \notin Changed(m[1], m[2])
    BY <2>1, <1>t
  <2>3. plan'[r] = plan[r] /\ waiting'[r] = waiting[r]
    BY <2>1, <2>2, <1>t
  <2>4. Overdue(r)
    BY <1>3, <2>3 DEF MovePlan, OverdueWait
  <2> QED
    BY <1>3, <2>3, <2>4 DEF MovePlan, Overdue, clock
<1>4. CASE TakeOver
  <2>1. r \notin gone
    BY <1>4 DEF TakeOver
  <2> QED
    BY <1>4, <2>1 DEF TakeOver, OverdueWait, Overdue, clock, history
<1>5. CASE Tick
  <2>1. Overdue(r)
    BY <1>5 DEF Tick, NextWaiting
  <2>2. plan' = plan
    BY <1>5 DEF Tick, plans
  <2>3. \/ day' = day /\ hour' = hour + 1
        \/ day' = day + 1 /\ hour' = 0
    BY <1>5 DEF Tick
  <2>4. plan[r] \in Nat
    BY <1>t
  <2> QED
    BY <2>1, <2>2, <2>3, <2>4, <1>t DEF Overdue
<1> QED
  BY <1>1, <1>2, <1>3, <1>4, <1>5
  DEF Next, CheckMissing, CheckPassed, CheckDone, Sleep, Wake, Search, SearchPanics,
      SendFails, UpdateAlertsTable, UpdateLost, Stop, Start, plans, history, vars
-----------------------------------------------------------------------------
(***************************************************************************)
(* What Sound and Placed say of the step: neither panic is possible, the   *)
(* record of the second kind is only read and written in hand.             *)
(***************************************************************************)
Fair == TypeInv /\ Placed /\ Sound

LEMMA FairFacts ==
  Fair => /\ day \in Int /\ hour \in 0 .. Hours - 1 /\ Hours \in Nat \ {0}
          /\ LongestRun \in Nat /\ ran \in 0 .. LongestRun /\ slept \in 0 .. Hours
          /\ faults \in Nat /\ at \in 1 .. 3
          /\ waiting \in [Rows -> Nat]
          /\ order[1] \in Kinds /\ order[2] \in Kinds /\ order[1] # order[2]
          /\ \A k \in Kinds : processed[k] \in Int /\ processed[k] <= day
          /\ "REACTIVE" \in Kinds
  BY AlertsAssumption DEF Fair, TypeInv, TypeOK, Placed, Sound, Orders, Kinds

LEMMA NoPanic == Fair => ~CheckMissing /\ ~SearchPanics
<1> SUFFICES ASSUME Fair PROVE ~CheckMissing /\ ~SearchPanics
  OBVIOUS
<1>1. ~CheckMissing
  BY KindTyped DEF Fair, CheckMissing, Sound, TypeInv, TypeOK
<1>2. ~SearchPanics
  <2>1. pc = "search" => Kind \in Kinds
    BY KindTyped DEF Fair, TypeInv, InHand
  <2>2. pc = "search" => SearchAlerts[Kind] \subseteq Rows
    BY <2>1 DEF SearchAlerts
  <2> QED
    BY <2>2 DEF Fair, SearchPanics, Sound
<1> QED
  BY <1>1, <1>2

LEMMA NextTimely ==
  ASSUME Fair, Fair', [Next]_vars, NEW k \in Kinds, Timely(k)
  PROVE  Timely(k)'
<1>t. /\ day \in Int /\ hour \in 0 .. Hours - 1 /\ Hours \in Nat /\ slept \in 0 .. Hours
      /\ faults \in Nat /\ at \in 1 .. 3
      /\ order[1] \in Kinds /\ order[2] \in Kinds /\ order[1] # order[2]
      /\ processed[k] \in Int /\ processed[k] <= day
  BY FairFacts
<1>h. pc \in {"search", "send"} => at \in 1 .. 2
  BY DEF Fair, TypeInv, InHand
<1>k. \A i, j, l \in Kinds : i = j \/ i = l \/ j = l
  BY DEF Kinds
<1> USE DEF Timely, Before, Sending, Done, Kind, clock, plans, history, runVars
<1>2. CASE CheckPassed
  BY <1>2, <1>t, <1>k DEF CheckPassed
<1>3. CASE CheckDone
  BY <1>3, <1>t, <1>k DEF CheckDone
<1>4. CASE Sleep
  BY <1>4, <1>t, <1>k DEF Sleep
<1>5. CASE Wake
  BY <1>5, <1>t, <1>k DEF Wake
<1>6. CASE Search
  BY <1>6, <1>t, <1>h, <1>k DEF Search
<1>8. CASE Send
  BY <1>8, <1>t DEF Send
<1>9. CASE SendFails
  BY <1>9, <1>t DEF SendFails
<1>10. CASE UpdateAlertsTable
  <2>1. order[at] # k => processed'[k] = processed[k]
    BY <1>10, <1>t DEF UpdateAlertsTable
  <2> QED
    BY <1>10, <2>1, <1>t, <1>h, <1>k DEF UpdateAlertsTable
<1>11. CASE UpdateLost
  BY <1>11, <1>t DEF UpdateLost
<1>12. CASE Stop
  BY <1>12, <1>t DEF Stop
<1>13. CASE Start
  BY <1>13, <1>t DEF Start
<1>14. CASE MovePlan
  BY <1>14, <1>t DEF MovePlan
<1>15. CASE TakeOver
  BY <1>15, <1>t DEF TakeOver
<1>16. CASE Tick
  <2>1. \/ day' = day /\ hour' = hour + 1
        \/ day' = day + 1 /\ hour' = 0
    BY <1>16 DEF Tick
  <2>2. UNCHANGED <<processed, pc, order, at, faults>>
    BY <1>16 DEF Tick
  <2>3. pc = "sleep" => slept' = slept + 1
    BY <1>16 DEF Tick
  <2> QED
    BY <2>1, <2>2, <2>3, <1>t
<1>17. CASE UNCHANGED vars
  BY <1>17 DEF vars
<1> QED
  BY NoPanic, <1>2, <1>3, <1>4, <1>5, <1>6, <1>8, <1>9, <1>10, <1>11, <1>12,
     <1>13, <1>14, <1>15, <1>16, <1>17 DEF Next
-----------------------------------------------------------------------------
(***************************************************************************)
(* The bound of one row with an address, action by action: the kind is     *)
(* found done, done now, or put off by the one fault.                      *)
(***************************************************************************)
LEMMA NextWithin ==
  ASSUME Fair, Fair', faults' <= 1, Timely("REACTIVE"), OverdueWait, [Next]_vars,
         NEW r \in Rows, r \notin gone', referente[r] = "address", Within(r)
  PROVE  Within(r)'
<1>t. /\ day \in Int /\ hour \in 0 .. Hours - 1 /\ Hours \in Nat \ {0}
      /\ LongestRun \in Nat /\ ran \in 0 .. LongestRun /\ slept \in 0 .. Hours
      /\ faults \in Nat /\ at \in 1 .. 3
      /\ waiting[r] \in Nat
      /\ order[1] \in Kinds /\ order[2] \in Kinds /\ order[1] # order[2]
      /\ "REACTIVE" \in Kinds
      /\ processed["REACTIVE"] \in Int /\ processed["REACTIVE"] <= day
  BY FairFacts
<1>h. /\ pc \in {"search", "send"} => at \in 1 .. 2
      /\ at \in 1 .. 2 => order[at] \in Kinds
      /\ pc = "sleep" => at = 1
      /\ pc \in {"check", "search", "send", "sleep", "down"}
  BY <1>t DEF Fair, TypeInv, InHand, TypeOK, Placed
<1>f. faults' \in Nat /\ faults' <= 1
  BY DEF Fair, TypeInv, TypeOK
<1> USE DEF Within, Before, Sending, After, Round, Done, Kind
<1>2. CASE CheckPassed
  BY <1>2, <1>t DEF CheckPassed, clock, history
<1>3. CASE CheckDone
  <2>1. order[at] = "REACTIVE" => Done("REACTIVE")
    BY <1>3 DEF CheckDone
  <2> QED
    BY <1>3, <2>1, <1>t, <1>h DEF CheckDone, clock, history, Kinds
<1>4. CASE Sleep
  BY <1>4, <1>t DEF Sleep, clock, history
<1>5. CASE Wake
  BY <1>5, <1>t, <1>h DEF Wake, clock, history, Timely
<1>6. CASE Search
  <2>1. order[at] = "REACTIVE" => alerting' = {d \in Rows : Listed(d) /\ Overdue(d)}
    BY <1>6, <1>t DEF Search, SearchAlerts
  <2>2. r \notin gone /\ Listed(r)
    BY <1>6 DEF Search, plans, Listed
  <2>3. order[at] = "REACTIVE" /\ r \notin alerting' => waiting[r] = 0
    BY <2>1, <2>2, <1>t DEF OverdueWait
  <2> QED
    BY <1>6, <2>3, <1>t, <1>h DEF Search, clock, history, Kinds
<1>8. CASE Send
  <2>1. PICK d \in alerting :
          /\ alerting' = alerting \ {d}
          /\ waiting' = IF Kind = "REACTIVE" /\ ToFornitore(d)
                        THEN [waiting EXCEPT ![d] = 0] ELSE waiting
    BY <1>8 DEF Send, Rest, Fair, Sound
  <2>2. d \in Rows /\ waiting \in [Rows -> Nat]
    BY DEF Fair, TypeInv, TypeOK
  <2>3. \/ waiting'[r] = waiting[r] /\ (r = d => Kind # "REACTIVE")
        \/ waiting'[r] = 0
    BY <2>1, <2>2 DEF ToFornitore, Fair, Sound
  <2>4. UNCHANGED <<clock, processed, pc, order, at, slept, ran, faults>>
    BY <1>8 DEF Send
  <2> QED
    BY <1>8, <2>1, <2>3, <2>4, <1>t, <1>h DEF clock
<1>9. CASE SendFails
  BY <1>9, <1>f, <1>t DEF SendFails, clock, history
<1>10. CASE UpdateAlertsTable
  <2>1. order[at] # "REACTIVE" => processed'["REACTIVE"] = processed["REACTIVE"]
    BY <1>10, <1>t DEF UpdateAlertsTable
  <2> QED
    BY <1>10, <2>1, <1>t, <1>h DEF UpdateAlertsTable, clock, history, Kinds
<1>11. CASE UpdateLost
  BY <1>11, <1>f, <1>t, <1>h DEF UpdateLost, clock, Kinds
<1>12. CASE Stop
  <2>1. faults = 0 /\ pc' = "down" /\ UNCHANGED <<processed, day, waiting>>
    BY <1>12, <1>f, <1>t DEF Stop, clock
  <2>2. waiting[r] <= Hours + 2 * LongestRun
    BY <1>12, <2>1, <1>t, <1>h DEF Stop
  <2>3. Done("REACTIVE") => waiting[r] <= Hours + LongestRun
    BY <1>12, <2>1, <1>t, <1>h DEF Stop, Timely
  <2> QED
    BY <2>1, <2>2, <2>3
<1>13. CASE Start
  <2>1. faults # 0
    BY <1>13, <1>t DEF Start, Timely
  <2> QED
    BY <1>13, <2>1, <1>t DEF Start, clock, history
<1>14. CASE MovePlan
  <2>1. waiting'[r] = waiting[r] \/ waiting'[r] = 0
    BY <1>14, <1>t DEF MovePlan, Fair, TypeInv, TypeOK
  <2> QED
    BY <1>14, <2>1, <1>t DEF MovePlan, clock, runVars
<1>15. CASE TakeOver
  BY <1>15, <1>t DEF TakeOver, clock, runVars, history
<1>16. CASE Tick
  <2>1. waiting'[r] = waiting[r] + 1 \/ waiting'[r] = 0
    BY <1>16 DEF Tick, NextWaiting
  <2>2. UNCHANGED <<processed, pc, order, at, alerting, faults>>
    BY <1>16 DEF Tick
  <2>3. \/ pc = "sleep" /\ slept' = slept + 1
        \/ pc \in {"check", "search", "send"} /\ ran' = ran + 1
    BY <1>16 DEF Tick
  <2>4. Done("REACTIVE")' => Done("REACTIVE")
    BY <1>16, <2>2, <1>t DEF Tick
  <2> QED
    BY <2>1, <2>2, <2>3, <2>4, <1>t, <1>h
<1>17. CASE UNCHANGED vars
  BY <1>17 DEF vars, clock, runVars, history
<1> QED
  BY NoPanic, <1>2, <1>3, <1>4, <1>5, <1>6, <1>8, <1>9, <1>10, <1>11, <1>12,
     <1>13, <1>14, <1>15, <1>16, <1>17 DEF Next

\* What the bounds of the four places come to.
Bounded ==
  Fair => \A r \in Rows : Within(r) => waiting[r] <= 2 * Hours + 3 * LongestRun

LEMMA WithinTold == Bounded
<1> SUFFICES ASSUME Fair, NEW r \in Rows, Within(r)
             PROVE  waiting[r] <= 2 * Hours + 3 * LongestRun
  BY DEF Bounded
<1>1. pc \in {"check", "search", "send", "sleep", "down"}
  BY DEF Fair, TypeInv, TypeOK
<1>2. /\ Hours \in Nat /\ LongestRun \in Nat /\ waiting[r] \in Nat
      /\ ran \in 0 .. LongestRun /\ slept \in 0 .. Hours
  BY FairFacts
<1>3. Round \in {0, Hours + LongestRun}
  BY DEF Round
<1> QED
  BY <1>1, <1>2, <1>3 DEF Within, After

\* A row whose comune has taken over counts no more hours.
LEMMA GoneWait ==
  ASSUME TypeInv, [Next]_vars, NEW r \in Rows, r \in gone
  PROVE  r \in gone' /\ waiting'[r] <= waiting[r]
<1>t. waiting \in [Rows -> Nat]
  BY DEF TypeInv, TypeOK
<1>1. CASE UNCHANGED <<gone, waiting>>
  BY <1>1, <1>t
<1>2. CASE Send
  BY <1>2, <1>t DEF Send, plans
<1>3. CASE MovePlan
  BY <1>3, <1>t DEF MovePlan
<1>4. CASE TakeOver
  BY <1>4, <1>t DEF TakeOver, history
<1>5. CASE Tick
  BY <1>5, <1>t DEF Tick, NextWaiting, plans
<1> QED
  BY <1>1, <1>2, <1>3, <1>4, <1>5
  DEF Next, CheckMissing, CheckPassed, CheckDone, Sleep, Wake, Search, SearchPanics,
      SendFails, UpdateAlertsTable, UpdateLost, Stop, Start, plans, history, vars

LEMMA NextTold == TypeInv /\ ToldInv /\ [Next]_vars => ToldInv'
<1> SUFFICES ASSUME TypeInv, ToldInv, [Next]_vars PROVE ToldInv'
  OBVIOUS
<1>0. Bounded'
  BY WithinTold, PTL
<1>1. TypeInv' /\ Placed /\ Placed' /\ OverdueWait /\ OverdueWait'
  BY NextTypes, NextPlaced, NextOverdueWait DEF ToldInv
<1>2. ASSUME Sound', faults' <= 1
      PROVE  /\ \A k \in Kinds : Timely(k)'
             /\ \A r \in Rows \ gone' : referente'[r] = "address" => Within(r)'
             /\ \A r \in Rows : referente'[r] = "address" =>
                  waiting'[r] <= 2 * Hours + 3 * LongestRun
  <2>1. Fair /\ Fair'
    BY <1>1, <1>2, SoundBefore DEF Fair
  <2>2. faults <= 1 /\ faults \in Nat
    <3>1. faults \in Nat /\ (faults' = faults \/ faults' = faults + 1)
      BY <2>1, FairFacts
      DEF Next, CheckMissing, CheckPassed, CheckDone, Sleep, Wake, Search, SearchPanics, Send,
          SendFails, UpdateAlertsTable, UpdateLost, Stop, Start, MovePlan, TakeOver, Tick, vars
    <3> QED
      BY <3>1, <1>2
  <2>3. /\ \A k \in Kinds : Timely(k)
        /\ \A r \in Rows \ gone : referente[r] = "address" => Within(r)
        /\ \A r \in Rows : referente[r] = "address" =>
             waiting[r] <= 2 * Hours + 3 * LongestRun
    BY <2>1, <2>2 DEF ToldInv, Fair, OverdueIsTold
  <2>4. referente' = referente
    BY DEF Next, CheckMissing, CheckPassed, CheckDone, Sleep, Wake, Search, SearchPanics, Send,
           SendFails, UpdateAlertsTable, UpdateLost, Stop, Start, MovePlan, TakeOver, Tick,
           plans, vars
  <2>5. \A k \in Kinds : Timely(k)'
    BY <2>1, <2>3, NextTimely
  <2>6. ASSUME NEW r \in Rows \ gone', referente'[r] = "address" PROVE Within(r)'
    <3>1. r \notin gone
      BY <2>6, GoneWait
    <3>2. Timely("REACTIVE")
      BY <2>3 DEF Kinds
    <3> QED
      BY <1>1, <1>2, <2>1, <2>3, <2>4, <2>6, <3>1, <3>2, NextWithin
  <2>7. ASSUME NEW r \in Rows, referente'[r] = "address"
        PROVE  waiting'[r] <= 2 * Hours + 3 * LongestRun
    <3>1. CASE r \in gone
      <4>1. waiting'[r] <= waiting[r]
        BY <3>1, GoneWait
      <4>2. waiting[r] \in Nat /\ waiting'[r] \in Nat /\ Hours \in Nat /\ LongestRun \in Nat
        BY <1>1, AlertsAssumption DEF TypeInv, TypeOK
      <4> QED
        BY <2>3, <2>4, <2>7, <4>1, <4>2
    <3>2. CASE r \notin gone /\ r \in gone'
      <4>1. waiting' = waiting
        BY <3>2 DEF Next, CheckMissing, CheckPassed, CheckDone, Sleep, Wake, Search,
          SearchPanics, Send, SendFails, UpdateAlertsTable, UpdateLost, Stop, Start, MovePlan,
          TakeOver, Tick, plans, history, vars
      <4> QED
        BY <2>3, <2>4, <2>7, <4>1
    <3>3. CASE r \notin gone'
      <4>1. Within(r)'
        BY <2>6, <2>7, <3>3
      <4> QED
        BY <1>0, <2>1, <4>1 DEF Bounded
    <3> QED
      BY <3>1, <3>2, <3>3
  <2> QED
    BY <2>5, <2>6, <2>7
<1> QED
  BY <1>1, <1>2 DEF ToldInv, OverdueIsTold

(***************************************************************************)
(* While both rows of ALERTS and the addresses are there, whatever single  *)
(* thing fails, however the plans move and the hour of the runs drifts, an *)
(* overdue row with an address is told within two days and three runs.     *)
(***************************************************************************)
THEOREM OverdueAreTold == Spec => []OverdueIsTold
<1>1. Init => TypeInv /\ ToldInv
  BY InitTypes, InitTold
<1>2. TypeInv /\ ToldInv /\ [Next]_vars => (TypeInv /\ ToldInv)'
  BY NextTypes, NextTold
<1>3. ToldInv => OverdueIsTold
  BY DEF ToldInv
<1> QED
  BY <1>1, <1>2, <1>3, PTL DEF Spec
-----------------------------------------------------------------------------
(***************************************************************************)
(* The plans are announced.  Left are the hours until the day a plan ends. *)
(* A search finds the plan when they are those of the fourth day before,   *)
(* or of the last one, whatever it finds on other days; the goroutine      *)
(* searches once between two sleeps, and what counts is how many hours     *)
(* were left when it fell asleep.  From Good hours one of the searches to  *)
(* come falls on one of the two days: if the drift has skipped the fourth  *)
(* day, it is used up, and cannot skip the last one too.                   *)
(***************************************************************************)
Left(r) == (plan[r] - day) * Hours - hour

Good(e) ==
  \/ e >= 3 * Hours + 3 * LongestRun
  \/ e \in 2 * Hours + 2 * LongestRun .. 3 * Hours - 1
  \/ e \in Hours + LongestRun .. 2 * Hours - 1

InMail(r) == Sending("PROACTIVE") /\ r \in alerting \ moved

Coming(r) ==
  /\ pc = "sleep" => Good(Left(r) + slept)
  /\ Before("PROACTIVE") => Good(Left(r) + ran + Hours)
  /\ After("PROACTIVE") \/ Sending("PROACTIVE") =>
       \A e \in Left(r) - (LongestRun - ran) .. Left(r) : Good(e)

Announcing(r) == (InMail(r) /\ Left(r) + ran >= 0) \/ Coming(r)

AnnounceInv ==
  /\ pc = "sleep" => ran = 0
  /\ Sound /\ faults = 0 =>
       \A r \in steady \ gone : referente[r] = "address" /\ r \notin announced => Announcing(r)

-----------------------------------------------------------------------------
(***************************************************************************)
(* The hours left, and the days that SearchAlerts makes of them.           *)
(***************************************************************************)
LEMMA Times ==
  ASSUME NEW a \in Int, NEW b \in Int, a <= b
  PROVE  a * Hours \in Int /\ b * Hours \in Int /\ a * Hours <= b * Hours
<1>1. (b - a) * Hours >= 0
  BY AlertsAssumption
<1>2. (b - a) * Hours = b * Hours - a * Hours
  BY AlertsAssumption
<1> QED
  BY <1>1, <1>2, AlertsAssumption

LEMMA LeftType ==
  ASSUME TypeInv, NEW r \in Rows
  PROVE  /\ Left(r) \in Int /\ plan[r] - day \in Int
         /\ hour \in 0 .. Hours - 1 /\ Hours \in Nat \ {0}
         /\ LongestRun \in Nat /\ 4 * LongestRun <= Hours
<1>1. plan[r] - day \in Int /\ hour \in 0 .. Hours - 1 /\ Hours \in Nat \ {0}
  BY AlertsAssumption DEF TypeInv, TypeOK
<1>2. (plan[r] - day) * Hours \in Int
  BY <1>1, Times
<1> QED
  BY <1>1, <1>2, AlertsAssumption, NoticeAssumption DEF Left

LEMMA LeftFound ==
  ASSUME TypeInv, NEW r \in Rows,
         Left(r) \in 3 * Hours .. 4 * Hours - 1 \/ Left(r) \in 0 .. Hours - 1
  PROVE  EndsSoon(r) /\ WholeDaysLeft(r) % 3 = 0
<1> DEFINE d == plan[r] - day
<1>1. /\ d \in Int /\ hour \in 0 .. Hours - 1 /\ Hours \in Nat \ {0}
      /\ Left(r) = d * Hours - hour /\ d * Hours \in Int
  BY LeftType, Times DEF Left
<1>2. WholeDaysLeft(r) = IF hour = 0 THEN d ELSE d - 1
  BY <1>1, AlertsAssumption DEF WholeDaysLeft, TypeInv, TypeOK
<1> HIDE DEF d
<1>3. /\ d <= -1 => d * Hours <= -1 * Hours
      /\ d >= 0 => 0 * Hours <= d * Hours
      /\ d <= 0 => d * Hours <= 0 * Hours
      /\ d >= 1 => 1 * Hours <= d * Hours
      /\ d <= 2 => d * Hours <= 2 * Hours
      /\ d <= 3 => d * Hours <= 3 * Hours
      /\ d >= 4 => 4 * Hours <= d * Hours
      /\ d >= 5 => 5 * Hours <= d * Hours
      /\ d >= 2 => 2 * Hours <= d * Hours
  BY <1>1, Times
<1>4. CASE Left(r) \in 3 * Hours .. 4 * Hours - 1
  <2>1. d \in 3 .. 4 /\ (d = 3 => hour = 0) /\ (d = 4 => hour > 0)
    BY <1>1, <1>3, <1>4
  <2>2. WholeDaysLeft(r) = 3
    BY <1>1, <1>2, <2>1
  <2> QED
    BY <2>1, <2>2 DEF EndsSoon, d
<1>5. CASE Left(r) \in 0 .. Hours - 1
  <2>1. d \in 0 .. 1 /\ (d = 0 => hour = 0) /\ (d = 1 => hour > 0)
    BY <1>1, <1>3, <1>5
  <2>2. WholeDaysLeft(r) = 0
    BY <1>1, <1>2, <2>1
  <2> QED
    BY <2>1, <2>2 DEF EndsSoon, d
<1> QED
  BY <1>4, <1>5

LEMMA LeftSoon ==
  ASSUME TypeInv, NEW r \in Rows, EndsSoon(r)
  PROVE  Left(r) >= 0
<1> DEFINE d == plan[r] - day
<1>1. /\ d \in Int /\ hour \in 0 .. Hours - 1 /\ Hours \in Nat \ {0}
      /\ Left(r) = d * Hours - hour /\ d * Hours \in Int
  BY LeftType, Times DEF Left
<1>2. IF hour = 0 THEN d >= 0 ELSE d >= 1
  BY <1>1, AlertsAssumption DEF EndsSoon, WholeDaysLeft, TypeInv, TypeOK
<1> HIDE DEF d
<1>3. /\ d >= 0 => 0 * Hours <= d * Hours
      /\ d >= 1 => 1 * Hours <= d * Hours
  BY <1>1, Times
<1> QED
  BY <1>1, <1>2, <1>3

LEMMA LeftOver ==
  ASSUME TypeInv, NEW r \in Rows, day > plan[r]
  PROVE  Left(r) <= -Hours
<1> DEFINE d == plan[r] - day
<1>1. d <= -1 /\ d \in Int
  BY AlertsAssumption DEF TypeInv, TypeOK
<1>2. Left(r) = d * Hours - hour
  BY DEF Left
<1> HIDE DEF d
<1>3. d * Hours <= (0 - 1) * Hours /\ d * Hours \in Int
  BY <1>1, Times
<1> QED
  BY <1>2, <1>3, LeftType

LEMMA LeftAhead ==
  ASSUME TypeInv, NEW d \in Nat, Ahead(d)
  PROVE  (d - day) * Hours - hour >= 4 * Hours + 1
<1> DEFINE n == d - day
<1>1. n >= 5 /\ n \in Int
  BY AlertsAssumption, NoticeAssumption DEF TypeInv, TypeOK, Ahead
<1>2. 5 * Hours <= n * Hours /\ n * Hours \in Int
  BY <1>1, Times
<1>3. hour \in 0 .. Hours - 1 /\ Hours \in Nat
  BY AlertsAssumption DEF TypeInv, TypeOK
<1> HIDE DEF n
<1>4. n * Hours - hour >= 4 * Hours + 1
  BY <1>2, <1>3
<1> QED
  BY <1>4 DEF n

LEMMA LeftTick ==
  ASSUME TypeInv, Tick, NEW r \in Rows
  PROVE  Left(r)' = Left(r) - 1
<1> DEFINE d == plan[r] - day
<1>1. plan' = plan
  BY DEF Tick, plans
<1>2. \/ day' = day /\ hour' = hour + 1
      \/ day' = day + 1 /\ hour' = 0 /\ hour = Hours - 1
  BY DEF Tick
<1>3. plan[r] \in Int /\ day \in Int /\ hour \in Int /\ Hours \in Int /\ d \in Int
  BY AlertsAssumption DEF TypeInv, TypeOK
<1>4. d * Hours \in Int /\ (d - 1) * Hours = d * Hours - Hours
  <2> HIDE DEF d
  <2> QED
    BY <1>3, Times
<1>5. plan[r] - (day + 1) = d - 1
  BY <1>3
<1>6. Left(r) = d * Hours - hour /\ Left(r)' = (plan'[r] - day') * Hours' - hour'
  BY DEF Left
<1>7. CASE day' = day /\ hour' = hour + 1
  <2>1. Left(r)' = d * Hours - (hour + 1)
    BY <1>1, <1>6, <1>7
  <2> HIDE DEF d
  <2> QED
    BY <1>3, <1>4, <1>6, <2>1
<1>8. CASE day' = day + 1 /\ hour' = 0 /\ hour = Hours - 1
  <2>1. Left(r)' = (d - 1) * Hours - 0
    BY <1>1, <1>5, <1>6, <1>8
  <2> HIDE DEF d
  <2> QED
    BY <1>3, <1>4, <1>6, <1>8, <2>1
<1> QED
  BY <1>2, <1>7, <1>8

-----------------------------------------------------------------------------
(***************************************************************************)
(* A run that woke with Good hours and has searched in vain will end, at   *)
(* any hour it may, with Good hours.                                       *)
(***************************************************************************)
LEMMA SearchedInVain ==
  ASSUME TypeInv, NEW x \in Int, Good(x + ran + Hours),
         ~(x \in 3 * Hours .. 4 * Hours - 1), ~(x \in 0 .. Hours - 1)
  PROVE  \A e \in x - (LongestRun - ran) .. x : Good(e)
  BY AlertsAssumption, NoticeAssumption DEF Good, TypeInv, TypeOK

\* With more than four days left, all is still to come.
LEMMA FarAhead ==
  ASSUME TypeInv, NEW r \in Rows, Left(r) >= 4 * Hours + 1
  PROVE  Coming(r)
<1>1. /\ Hours \in Nat \ {0} /\ LongestRun \in Nat /\ 4 * LongestRun <= Hours
      /\ slept \in Nat /\ ran \in 0 .. LongestRun /\ Left(r) \in Int
  BY LeftType DEF TypeInv, TypeOK
<1>2. Good(Left(r) + slept) /\ Good(Left(r) + ran + Hours)
  BY <1>1 DEF Good
<1>3. \A e \in Left(r) - (LongestRun - ran) .. Left(r) : Good(e)
  BY <1>1 DEF Good
<1> QED
  BY <1>2, <1>3 DEF Coming

LEMMA AnnouncedWhole ==
  ASSUME TypeInv, Placed, NEW r \in Rows, Announcing(r), pc # "down",
         pc = "sleep" => ran = 0
  PROVE  day <= plan[r]
<1>1. /\ Hours \in Nat \ {0} /\ LongestRun \in Nat /\ 4 * LongestRun <= Hours
      /\ slept \in 0 .. Hours /\ ran \in 0 .. LongestRun /\ Left(r) \in Int
      /\ day \in Int /\ plan[r] \in Int
  BY LeftType, AlertsAssumption DEF TypeInv, TypeOK
<1>2. Left(r) > -Hours
  <2>1. CASE InMail(r) /\ Left(r) + ran >= 0
    BY <1>1, <2>1
  <2>2. CASE Coming(r)
    <3>1. CASE pc = "sleep"
      BY <1>1, <2>2, <3>1 DEF Coming, Good
    <3>2. CASE Before("PROACTIVE")
      BY <1>1, <2>2, <3>2 DEF Coming, Good
    <3>3. CASE pc # "sleep" /\ ~Before("PROACTIVE")
      <4>1. After("PROACTIVE") \/ Sending("PROACTIVE")
        BY <3>3 DEF After, TypeInv, TypeOK
      <4>2. Good(Left(r))
        BY <1>1, <2>2, <4>1 DEF Coming
      <4> QED
        BY <1>1, <4>2 DEF Good
    <3> QED
      BY <3>1, <3>2, <3>3
  <2> QED
    BY <2>1, <2>2 DEF Announcing
<1> QED
  BY <1>1, <1>2, LeftOver

-----------------------------------------------------------------------------
FarAway ==
  TypeInv => \A r \in Rows : Left(r) >= 4 * Hours + 1 => Coming(r)

LEMMA FarAlways == FarAway
  BY FarAhead DEF FarAway

LEMMA InitAnnounce == Init => AnnounceInv
<1> SUFFICES ASSUME Init, NEW r \in Rows, r \in steady PROVE Coming(r)
  BY DEF AnnounceInv, Announcing, Init
<1>1. TypeInv
  BY InitTypes
<1>2. Ahead(plan[r]) /\ plan[r] \in Nat
  BY <1>1 DEF Init, TypeInv, TypeOK
<1>3. Left(r) >= 4 * Hours + 1
  BY <1>1, <1>2, LeftAhead DEF Left
<1> QED
  BY <1>1, <1>3, FarAhead

(***************************************************************************)
(* One row, action by action, while nothing fails.  A search puts it in    *)
(* the mail or was in vain; the mail announces it, unless its plan moves   *)
(* first, and then all is still to come or it is no longer steady.         *)
(***************************************************************************)
LEMMA NextAnnouncing ==
  ASSUME Fair, Fair', Timely("PROACTIVE"), pc = "sleep" => ran = 0, faults' = 0, [Next]_vars,
         NEW r \in Rows, r \in steady', r \notin gone', referente[r] = "address",
         r \notin announced',
         r \in steady /\ r \notin announced => Announcing(r)
  PROVE  Announcing(r)'
<1>t. /\ LongestRun \in Nat /\ Hours \in Nat \ {0}
      /\ ran \in 0 .. LongestRun /\ slept \in 0 .. Hours
      /\ faults \in Nat /\ at \in 1 .. 3 /\ Left(r) \in Int
      /\ order[1] \in Kinds /\ order[2] \in Kinds /\ order[1] # order[2]
  BY FairFacts, LeftType DEF Fair
<1>h. /\ pc \in {"search", "send"} => at \in 1 .. 2
      /\ at \in 1 .. 2 => order[at] \in Kinds
      /\ pc = "sleep" => at = 1
      /\ pc \in {"check", "search", "send", "sleep", "down"}
  BY <1>t DEF Fair, TypeInv, InHand, TypeOK, Placed
<1>l. UNCHANGED <<clock, plan>> => Left(r)' = Left(r)
  BY DEF Left, clock
<1> USE DEF Announcing, Coming, InMail, Before, Sending, After, Kind, Good
<1>2. CASE CheckPassed
  BY <1>2, <1>t, <1>l DEF CheckPassed, plans, history
<1>3. CASE CheckDone
  <2>1. order[at] = "PROACTIVE" => Done("PROACTIVE")
    BY <1>3 DEF CheckDone, Done
  <2>2. order[at] # "PROACTIVE"
    BY <1>3, <2>1, <1>t DEF Timely, CheckDone
  <2> QED
    BY <1>3, <2>2, <1>t, <1>h, <1>l DEF CheckDone, plans, history, Kinds
<1>4. CASE Sleep
  BY <1>4, <1>t, <1>l DEF Sleep, plans, history
<1>5. CASE Wake
  BY <1>5, <1>t, <1>h, <1>l DEF Wake, plans, history
<1>6. CASE Search
  <2>1. UNCHANGED <<clock, plans, order, at, ran, steady, announced>> /\ pc = "search" /\ pc' = "send"
    BY <1>6 DEF Search
  <2>2. Left(r)' = Left(r) /\ Coming(r)
    BY <2>1, <1>l DEF plans
  <2>3. CASE Kind = "PROACTIVE" /\ EndsSoon(r) /\ WholeDaysLeft(r) % 3 = 0
    <3>1. Listed(r) /\ "PROACTIVE" \in Kinds
      BY <2>1 DEF Listed, plans, Kinds
    <3>2. r \in alerting' /\ r \notin moved'
      BY <1>6, <2>3, <3>1 DEF Search, SearchAlerts
    <3>3. Left(r) >= 0
      BY <2>3, LeftSoon DEF Fair
    <3> QED
      BY <2>1, <2>2, <2>3, <3>2, <3>3, <1>t
  <2>4. CASE Kind = "PROACTIVE" /\ ~(EndsSoon(r) /\ WholeDaysLeft(r) % 3 = 0)
    <3>1. ~(Left(r) \in 3 * Hours .. 4 * Hours - 1) /\ ~(Left(r) \in 0 .. Hours - 1)
      BY <2>4, LeftFound DEF Fair
    <3>2. Good(Left(r) + ran + Hours)
      BY <2>1, <2>2, <2>4, <1>t, <1>h
    <3>3. \A e \in Left(r) - (LongestRun - ran) .. Left(r) : Good(e)
      BY <3>1, <3>2, <1>t, SearchedInVain DEF Fair
    <3> QED
      BY <2>1, <2>2, <2>4, <3>3, <1>t, <1>h
  <2>5. CASE Kind # "PROACTIVE"
    BY <2>1, <2>2, <2>5, <1>t, <1>h DEF Kinds
  <2> QED
    BY <2>3, <2>4, <2>5
<1>8. CASE Send
  <2>1. PICK d \in alerting :
          /\ alerting' = alerting \ {d}
          /\ announced' = IF Kind = "PROACTIVE" /\ ToFornitore(d) /\ d \notin moved
                          THEN announced \cup {d} ELSE announced
    BY <1>8 DEF Send, Rest, Fair, Sound
  <2>2. UNCHANGED <<clock, plans, pc, order, at, slept, ran, moved, steady>>
    BY <1>8 DEF Send
  <2>3. Left(r)' = Left(r)
    BY <2>2, <1>l DEF plans
  <2>4. r = d /\ Kind = "PROACTIVE" => r \in moved
    BY <2>1 DEF ToFornitore, Fair, Sound
  <2>5. Announcing(r)
    BY <2>1, <2>2
  <2>6. InMail(r) => InMail(r)'
    BY <2>1, <2>2, <2>4
  <2>7. Coming(r) => Coming(r)'
    BY <2>2, <2>3
  <2> QED
    BY <2>2, <2>3, <2>5, <2>6, <2>7
<1>9. CASE SendFails \/ UpdateLost \/ Stop
  BY <1>9, <1>t DEF SendFails, UpdateLost, Stop
<1>10. CASE UpdateAlertsTable
  BY <1>10, <1>t, <1>h, <1>l DEF UpdateAlertsTable, plans, history, Kinds
<1>13. CASE Start
  BY <1>13 DEF Start, Timely
<1>14. CASE MovePlan
  <2>1. PICK m \in Moves :
          /\ plan' = [q \in Rows |-> IF q \in Changed(m[1], m[2]) THEN m[2] ELSE plan[q]]
          /\ announced' = announced \ Changed(m[1], m[2])
          /\ moved' = moved \cup (Changed(m[1], m[2]) \cap alerting)
          /\ steady' = IF Ahead(m[2]) THEN steady \cup Changed(m[1], m[2])
                       ELSE steady \ Changed(m[1], m[2])
    BY <1>14 DEF MovePlan
  <2>2. UNCHANGED <<clock, runVars>>
    BY <1>14 DEF MovePlan
  <2>3. m \in Comuni \X Nat /\ plan \in [Rows -> Nat] /\ r \in Rows
    BY AlertsAssumption DEF Fair, TypeInv, TypeOK
  <2>4. CASE r \in Changed(m[1], m[2])
    <3>1. Ahead(m[2]) /\ m[2] \in Nat
      BY <2>1, <2>3, <2>4
    <3>2. (m[2] - day) * Hours - hour >= 4 * Hours + 1
      BY <3>1, LeftAhead DEF Fair
    <3>3. plan'[r] = m[2]
      BY <2>1, <2>3, <2>4
    <3>4. Left(r)' >= 4 * Hours + 1
      BY <2>2, <3>2, <3>3 DEF Left, clock
    <3>5. FarAway'
      BY FarAlways, PTL
    <3> QED
      BY <3>4, <3>5, <2>3 DEF FarAway, Fair
  <2>5. CASE r \notin Changed(m[1], m[2])
    <3>1. plan'[r] = plan[r]
      BY <2>1, <2>3, <2>5
    <3>2. Left(r)' = Left(r)
      BY <2>2, <3>1 DEF Left, clock
    <3>3. r \in steady /\ r \notin announced /\ (r \in moved' <=> r \in moved)
      BY <2>1, <2>5
    <3> QED
      BY <2>2, <3>2, <3>3 DEF runVars
  <2> QED
    BY <2>4, <2>5
<1>15. CASE TakeOver
  BY <1>15, <1>l DEF TakeOver, runVars, history
<1>16. CASE Tick
  <2>1. Left(r)' = Left(r) - 1
    BY <1>16, LeftTick DEF Fair
  <2>2. UNCHANGED <<pc, order, at, alerting, announced, moved, steady>>
    BY <1>16 DEF Tick
  <2>3. \/ pc = "sleep" /\ slept' = slept + 1 /\ ran' = ran
        \/ pc \in {"check", "search", "send"} /\ ran' = ran + 1 /\ slept' = slept
    BY <1>16 DEF Tick
  <2>4. Announcing(r)
    BY <2>2
  <2> QED
    BY <2>1, <2>2, <2>3, <2>4, <1>t
<1>17. CASE UNCHANGED vars
  BY <1>17, <1>l DEF vars, plans, runVars, history
<1> QED
  BY NoPanic, <1>2, <1>3, <1>4, <1>5, <1>6, <1>8, <1>9, <1>10, <1>13, <1>14, <1>15,
     <1>16, <1>17 DEF Next

LEMMA NextAnnounce ==
  TypeInv /\ ToldInv /\ AnnounceInv /\ [Next]_vars => AnnounceInv'
<1> SUFFICES ASSUME TypeInv, ToldInv, AnnounceInv, [Next]_vars PROVE AnnounceInv'
  OBVIOUS
<1>1. TypeInv' /\ Placed /\ Placed'
  BY NextTypes, NextPlaced DEF ToldInv
<1>2. pc' = "sleep" => ran' = 0
  BY DEF AnnounceInv, Next, CheckMissing, CheckPassed, CheckDone, Sleep, Wake, Search,
         SearchPanics, Send, SendFails, UpdateAlertsTable, UpdateLost, Stop, Start, MovePlan,
         TakeOver, Tick, runVars, vars
<1>3. ASSUME Sound', faults' = 0, NEW r \in steady' \ gone', referente'[r] = "address",
             r \notin announced'
      PROVE  Announcing(r)'
  <2>1. Fair /\ Fair' /\ r \in Rows
    BY <1>1, <1>3, SoundBefore DEF Fair, TypeInv, TypeOK
  <2>2. faults = 0
    <3>1. faults \in Nat /\ (faults' = faults \/ faults' = faults + 1)
      BY <2>1, FairFacts
      DEF Next, CheckMissing, CheckPassed, CheckDone, Sleep, Wake, Search, SearchPanics, Send,
          SendFails, UpdateAlertsTable, UpdateLost, Stop, Start, MovePlan, TakeOver, Tick, vars
    <3> QED
      BY <3>1, <1>3
  <2>3. referente' = referente
    BY DEF Next, CheckMissing, CheckPassed, CheckDone, Sleep, Wake, Search, SearchPanics, Send,
           SendFails, UpdateAlertsTable, UpdateLost, Stop, Start, MovePlan, TakeOver, Tick,
           plans, vars
  <2>4. Timely("PROACTIVE")
    BY <2>1, <2>2 DEF ToldInv, Fair, Kinds
  <2>5. r \notin gone
    BY <1>3, <2>1, GoneWait
  <2>6. r \in steady /\ r \notin announced => Announcing(r)
    BY <1>3, <2>1, <2>2, <2>3, <2>5 DEF AnnounceInv, Fair
  <2> QED
    BY <1>3, <2>1, <2>3, <2>4, <2>6, NextAnnouncing DEF AnnounceInv
<1> QED
  BY <1>2, <1>3 DEF AnnounceInv

(***************************************************************************)
(* A plan that was there Notice days before it ends has been announced     *)
(* with its date by the time it has ended, at whatever hour the server     *)
(* started and whatever the order of the kinds: for any rows, hours of a   *)
(* day, settings and moves of plans, while nothing fails.                  *)
(***************************************************************************)
THEOREM AnnouncedAlways == Spec => []AnnouncedInTime
<1>1. Init => TypeInv /\ ToldInv /\ AnnounceInv
  BY InitTypes, InitTold, InitAnnounce
<1>2. TypeInv /\ ToldInv /\ AnnounceInv /\ [Next]_vars => (TypeInv /\ ToldInv /\ AnnounceInv)'
  BY NextTypes, NextTold, NextAnnounce
<1>3. TypeInv /\ ToldInv /\ AnnounceInv => AnnouncedInTime
  <2> SUFFICES ASSUME TypeInv, ToldInv, AnnounceInv, Sound, faults = 0,
                      NEW r \in steady \ gone, referente[r] = "address", r \notin announced
               PROVE  ~(day > plan[r])
    BY DEF AnnouncedInTime
  <2>1. r \in Rows /\ Announcing(r) /\ (pc = "sleep" => ran = 0)
    BY DEF AnnounceInv, TypeInv, TypeOK
  <2>2. Placed /\ pc # "down"
    BY DEF ToldInv, Timely, Kinds
  <2>3. day <= plan[r]
    BY <2>1, <2>2, AnnouncedWhole
  <2>4. day \in Int /\ plan[r] \in Int
    BY <2>1, AlertsAssumption DEF TypeInv, TypeOK
  <2> QED
    BY <2>3, <2>4
<1> QED
  BY <1>1, <1>2, <1>3, PTL DEF Spec
=============================================================================
