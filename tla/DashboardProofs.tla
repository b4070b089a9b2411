--------------------------- MODULE DashboardProofs ---------------------------
(***************************************************************************)
(* Theorems about Dashboard, for any rows the search may find: the charts  *)
(* ascend, and in the end every figure of the page counts and sums up what *)
(* it should.  The sums are over finite sets: facts about them come first  *)
(* where they are needed.                                                  *)
(***************************************************************************)
EXTENDS Dashboard, FiniteSetTheorems, WellFoundedInduction, TLAPS

DailyStats == [date : Nat, comuni : Nat, population : Nat]

(***************************************************************************)
(* Why a chart ascends although it is only compared with its top: a row on *)
(* a heap has a day, and none is later than the top of its chart; and no   *)
(* chart is begun before the last row is on its heap.                      *)
(***************************************************************************)
Dated == \A m \in Migrations : \A i \in heap[m] : Day(m, i) \in Nat

NotBegun == pc = "sort" => \A m \in Migrations : charts[m] = << >>

BelowTop ==
  \A m \in Migrations : charts[m] # << >> =>
    \A i \in heap[m] : Day(m, i) <= charts[m][1].date

TypeInv == TypeOK /\ next >= 1 /\ Dated /\ NotBegun

IInv == TypeInv /\ BelowTop /\ ChartsAscend

-----------------------------------------------------------------------------
LEMMA RowsAre ==
  ASSUME comuni \in Inputs, NEW i \in DOMAIN comuni
  PROVE  /\ comuni[i].on \in [Migrations -> Nat \cup {NULL}]
         /\ comuni[i].population \in Nat
         /\ MigrationOf(comuni[i]) \in Migrations \cup {NULL}
  BY DashboardAssumption DEF IsRow, MigrationOf, Migrations

LEMMA IndexIsRow ==
  ASSUME comuni \in Inputs, next \in Nat, next >= 1, next <= Len(comuni)
  PROVE  next \in DOMAIN comuni
  BY DashboardAssumption

LEMMA StatFields ==
  ASSUME NEW e \in DailyStats
  PROVE  e.date \in Nat /\ e.comuni \in Nat /\ e.population \in Nat
  BY DEF DailyStats

LEMMA SumOfNats ==
  ASSUME NEW a, NEW b, a \in Nat, b \in Nat
  PROVE  a + b \in Nat
  OBVIOUS

LEMMA StatOf ==
  ASSUME NEW d \in Nat, NEW c \in Nat, NEW p \in Nat
  PROVE  [date |-> d, comuni |-> c, population |-> p] \in DailyStats
  BY DEF DailyStats

(***************************************************************************)
(* The sums of a comune, and of a map they are added to, are sums.         *)
(***************************************************************************)
LEMMA PlusType ==
  ASSUME comuni \in Inputs, NEW i \in DOMAIN comuni, NEW s \in Sums
  PROVE  Plus(s, i) \in Sums
<1>1. comuni[i].population \in Nat
  BY RowsAre
<1> QED
  BY <1>1 DEF Plus, Sums

LEMMA PlusInType ==
  ASSUME comuni \in Inputs, NEW i \in DOMAIN comuni,
         NEW map, NEW key, NEW m \in Migrations,
         \A k \in DOMAIN map : map[k] \in [Migrations -> Sums],
         NEW k \in DOMAIN PlusIn(map, key, m, i)
  PROVE  PlusIn(map, key, m, i)[k] \in [Migrations -> Sums]
<1> DEFINE old == IF key \in DOMAIN map THEN map[key] ELSE [n \in Migrations |-> Nothing]
<1>1. old \in [Migrations -> Sums]
  BY DEF Nothing, Sums
<1>2. Plus(old[m], i) \in Sums
  BY <1>1, PlusType
<1>3. [old EXCEPT ![m] = Plus(@, i)] \in [Migrations -> Sums]
  BY <1>1, <1>2
<1>4. k \in DOMAIN map \cup {key}
  BY DEF PlusIn
<1>5. PlusIn(map, key, m, i)[k] = IF k = key THEN [old EXCEPT ![m] = Plus(@, i)] ELSE map[k]
  BY <1>4 DEF PlusIn
<1> QED
  BY <1>3, <1>4, <1>5

LEMMA StatType ==
  ASSUME \A f \in DOMAIN stats : stats[f] \in [Statuses -> Nat],
         NEW f, NEW status \in Statuses,
         NEW k \in DOMAIN UpdateFornitoreStat(f, status)
  PROVE  UpdateFornitoreStat(f, status)[k] \in [Statuses -> Nat]
<1> DEFINE old == IF f \in DOMAIN stats THEN stats[f] ELSE [t \in Statuses |-> 0]
<1>1. old \in [Statuses -> Nat]
  OBVIOUS
<1>2. [old EXCEPT ![status] = @ + 1] \in [Statuses -> Nat]
  BY <1>1
<1>3. k \in DOMAIN stats \cup {f}
  BY DEF UpdateFornitoreStat
<1>4. UpdateFornitoreStat(f, status)[k] =
        IF k # f THEN stats[k] ELSE [old EXCEPT ![status] = @ + 1]
  BY <1>3 DEF UpdateFornitoreStat
<1> QED
  BY <1>2, <1>3, <1>4

(***************************************************************************)
(* What pushing a comune makes of its chart: one of its day is on top, and *)
(* the days below are those that were there.                               *)
(***************************************************************************)
LEMMA PushResult ==
  ASSUME comuni \in Inputs, NEW m \in Migrations, NEW i \in DOMAIN comuni, Day(m, i) \in Nat,
         charts[m] \in Seq(DailyStats)
  PROVE  LET new == PushDailyStats(m, i)
             old == charts[m]
         IN  /\ new \in Seq(DailyStats)
             /\ new # << >> /\ new[1].date = Day(m, i)
             /\ \/ /\ old # << >> /\ old[1].date = Day(m, i)
                   /\ Len(new) = Len(old)
                   /\ \A k \in 1 .. Len(new) : new[k].date = old[k].date
                \/ /\ old = << >> \/ old[1].date # Day(m, i)
                   /\ Len(new) = Len(old) + 1
                   /\ \A k \in 2 .. Len(new) : new[k].date = old[k - 1].date
<1> DEFINE old == charts[m]
           e == NewEntry(m, i)
<1>1. comuni[i].population \in Nat
  BY RowsAre
<1>2. CASE old # << >> /\ Head(old).date = Day(m, i)
  <2> DEFINE top == [date |-> Day(m, i), comuni |-> old[1].comuni + 1,
                     population |-> old[1].population + comuni[i].population]
  <2>1. Len(old) \in Nat /\ Len(old) >= 1 /\ old[1] \in DailyStats /\ Head(old) = old[1]
    BY <1>2
  <2>2. top \in DailyStats
    <3>1. old[1].comuni \in Nat /\ old[1].population \in Nat
      BY <2>1, StatFields
    <3>2. old[1].comuni + 1 \in Nat /\ old[1].population + comuni[i].population \in Nat
      BY <1>1, <3>1
    <3> QED
      BY <3>2, StatOf
  <2>3. PushDailyStats(m, i) = [old EXCEPT ![1] = top]
    BY <1>2 DEF PushDailyStats
  <2>4. /\ [old EXCEPT ![1] = top] \in Seq(DailyStats)
        /\ Len([old EXCEPT ![1] = top]) = Len(old)
        /\ \A k \in 1 .. Len(old) : [old EXCEPT ![1] = top][k] = IF k = 1 THEN top ELSE old[k]
    BY <2>1, <2>2
  <2> QED
    BY <1>2, <2>1, <2>3, <2>4
<1>3. CASE ~(old # << >> /\ Head(old).date = Day(m, i))
  <2>1. PushDailyStats(m, i) = <<e>> \o old
    BY <1>3 DEF PushDailyStats
  <2>2. e \in DailyStats /\ e.date = Day(m, i)
    BY <1>1 DEF NewEntry, DailyStats
  <2>3. /\ <<e>> \o old \in Seq(DailyStats)
        /\ Len(<<e>> \o old) = Len(old) + 1
        /\ Len(old) \in Nat
        /\ (<<e>> \o old)[1] = e
        /\ \A k \in 2 .. Len(old) + 1 : (<<e>> \o old)[k] = old[k - 1]
    BY <2>2
  <2>4. old = << >> \/ old[1].date # Day(m, i)
    BY <1>3
  <2> QED
    BY <2>1, <2>2, <2>3, <2>4
<1> QED
  BY <1>2, <1>3

(***************************************************************************)
(* Summing up an entry changes no day.                                     *)
(***************************************************************************)
LEMMA SummedResult ==
  ASSUME next \in Nat, NEW s \in Seq(DailyStats)
  PROVE  /\ Summed(s) \in Seq(DailyStats)
         /\ Len(Summed(s)) = Len(s)
         /\ \A k \in 1 .. Len(s) : Summed(s)[k].date = s[k].date
<1>1. CASE next \notin 2 .. Len(s)
  BY <1>1 DEF Summed
<1>2. CASE next \in 2 .. Len(s)
  <2> DEFINE e == [date |-> s[next].date, comuni |-> s[next].comuni + s[next - 1].comuni,
                   population |-> s[next].population + s[next - 1].population]
  <2>1. s[next] \in DailyStats /\ s[next - 1] \in DailyStats
    BY <1>2
  <2>2. e \in DailyStats /\ e.date = s[next].date
    <3>1. /\ s[next].date \in Nat /\ s[next].comuni \in Nat /\ s[next].population \in Nat
          /\ s[next - 1].comuni \in Nat /\ s[next - 1].population \in Nat
      BY <2>1, StatFields
    <3>2. /\ s[next].comuni + s[next - 1].comuni \in Nat
          /\ s[next].population + s[next - 1].population \in Nat
      BY <3>1, SumOfNats
    <3> QED
      BY <3>1, <3>2, StatOf
  <2>3. Summed(s) = [s EXCEPT ![next] = e]
    BY <1>2 DEF Summed
  <2>4. /\ [s EXCEPT ![next] = e] \in Seq(DailyStats)
        /\ Len([s EXCEPT ![next] = e]) = Len(s)
        /\ \A k \in 1 .. Len(s) : [s EXCEPT ![next] = e][k] = IF k = next THEN e ELSE s[k]
    BY <1>2, <2>2
  <2> QED
    BY <2>2, <2>3, <2>4
<1> QED
  BY <1>1, <1>2

-----------------------------------------------------------------------------
LEMMA TypeInit == Init => TypeInv
<1> SUFFICES ASSUME Init PROVE TypeInv
  OBVIOUS
<1>1. DOMAIN << >> = {}
  OBVIOUS
<1>2. comuni \in Inputs /\ Nothing \in Sums
  BY DEF Init, Nothing, Sums
<1> QED
  BY <1>1, <1>2 DEF Init, TypeInv, TypeOK, Dated, NotBegun

LEMMA TurnKeeps ==
  ASSUME IInv, NEW here, NEW there \in Migrations \cup {"inattivi", "history", "done"},
         Turn(here, there)
  PROVE  IInv'
<1>1. TypeOK'
  BY DEF IInv, TypeInv, TypeOK, Turn, Rows
<1>2. Dated' /\ NotBegun' /\ BelowTop' /\ ChartsAscend' /\ next' >= 1
  BY DEF IInv, TypeInv, Dated, NotBegun, BelowTop, ChartsAscend, Turn, Day, Migrations
<1> QED
  BY <1>1, <1>2 DEF IInv, TypeInv

LEMMA SortKeeps ==
  ASSUME IInv, Sort
  PROVE  IInv'
<1> DEFINE r == comuni[next]
           m == MigrationOf(r)
<1>1. comuni \in Inputs /\ next \in Nat /\ next \in DOMAIN comuni
  BY IndexIsRow DEF IInv, TypeInv, TypeOK, Sort
<1>2. m \in Migrations /\ r.on[m] \in Nat
  BY <1>1, RowsAre, DashboardAssumption DEF Sort, MigrationOf, Migrations
<1>3. TypeOK'
  <2>1. regions' = PlusIn(regions, r.region, m, next) /\ provinces' = PlusIn(provinces, r.province, m, next)
    BY DEF Sort
  <2>2. \A k \in DOMAIN regions' : regions'[k] \in [Migrations -> Sums]
    BY <1>1, <1>2, <2>1, PlusInType DEF IInv, TypeInv, TypeOK
  <2>3. \A k \in DOMAIN provinces' : provinces'[k] \in [Migrations -> Sums]
    BY <1>1, <1>2, <2>1, PlusInType DEF IInv, TypeInv, TypeOK
  <2>4. heap' \in [Migrations -> SUBSET Rows] /\ next' \in Nat
    <3>1. heap \in [Migrations -> SUBSET Rows] /\ next \in Rows
      BY <1>1 DEF IInv, TypeInv, TypeOK, Rows
    <3>2. heap[m] \cup {next} \in SUBSET Rows
      BY <1>2, <3>1
    <3>3. heap' = [heap EXCEPT ![m] = heap[m] \cup {next}] /\ next' = next + 1
      BY DEF Sort
    <3>4. heap' \in [Migrations -> SUBSET Rows]
      BY <3>1, <3>2, <3>3
    <3> QED
      BY <1>1, <3>3, <3>4
  <2> QED
    BY <2>2, <2>3, <2>4 DEF IInv, TypeInv, TypeOK, Sort, Rows
<1>4. Dated'
  <2>1. ASSUME NEW n \in Migrations, NEW i \in heap'[n] PROVE Day(n, i)' \in Nat
    BY <1>1, <1>2, <2>1 DEF IInv, TypeInv, TypeOK, Dated, Sort, Day
  <2> QED
    BY <2>1 DEF Dated
<1>5. NotBegun' /\ BelowTop' /\ ChartsAscend' /\ next' >= 1
  BY <1>1 DEF IInv, TypeInv, NotBegun, BelowTop, ChartsAscend, Sort
<1> QED
  BY <1>3, <1>4, <1>5 DEF IInv, TypeInv

LEMMA SortInattivoKeeps ==
  ASSUME IInv, SortInattivo
  PROVE  IInv'
<1>1. next \in Nat /\ next \in DOMAIN comuni
  BY IndexIsRow DEF IInv, TypeInv, TypeOK, SortInattivo
<1>2. TypeOK'
  BY <1>1 DEF IInv, TypeInv, TypeOK, SortInattivo, Rows
<1> QED
  BY <1>1, <1>2
  DEF IInv, TypeInv, Dated, NotBegun, BelowTop, ChartsAscend, SortInattivo, Day

LEMMA PopKeeps ==
  ASSUME IInv, NEW m \in Migrations, Pop(m)
  PROVE  IInv'
<1> DEFINE old == charts[m]
           new == charts'[m]
<1>1. PICK i \in Latest(m) :
        /\ heap' = [heap EXCEPT ![m] = @ \ {i}]
        /\ summaries' = [summaries EXCEPT ![m] = Plus(@, i)]
        /\ charts' = [charts EXCEPT ![m] = PushDailyStats(m, i)]
        /\ stats' = UpdateFornitoreStat(comuni[i].fornitore, m)
        /\ features' = features \cup {i}
  BY DEF Pop
<1>2. /\ i \in heap[m] /\ i \in DOMAIN comuni /\ Day(m, i) \in Nat /\ comuni \in Inputs
      /\ \A j \in heap[m] : Day(m, j) \in Nat /\ Day(m, j) <= Day(m, i)
  BY DEF Latest, IInv, TypeInv, TypeOK, Dated, Rows
<1>3. charts \in [Migrations -> Seq(DailyStats)]
  BY DEF IInv, TypeInv, TypeOK, DailyStats
<1>4. new = PushDailyStats(m, i) /\ \A n \in Migrations \ {m} : charts'[n] = charts[n]
  BY <1>1, <1>3
<1>5. /\ new \in Seq(DailyStats)
      /\ new # << >> /\ new[1].date = Day(m, i)
      /\ \/ /\ old # << >> /\ old[1].date = Day(m, i)
            /\ Len(new) = Len(old)
            /\ \A k \in 1 .. Len(new) : new[k].date = old[k].date
         \/ /\ old = << >> \/ old[1].date # Day(m, i)
            /\ Len(new) = Len(old) + 1
            /\ \A k \in 2 .. Len(new) : new[k].date = old[k - 1].date
  BY <1>2, <1>3, <1>4, PushResult
<1>6. TypeOK'
  <2>1. charts' \in [Migrations -> Seq(DailyStats)]
    BY <1>1, <1>3, <1>4, <1>5
  <2>2. Plus(summaries[m], i) \in Sums
    BY <1>2, PlusType DEF IInv, TypeInv, TypeOK
  <2>3. \A f \in DOMAIN stats' : stats'[f] \in [Statuses -> Nat]
    BY <1>1, StatType DEF IInv, TypeInv, TypeOK, Statuses
  <2>4. heap' \in [Migrations -> SUBSET Rows] /\ features' \in SUBSET Rows
    BY <1>1, <1>2 DEF IInv, TypeInv, TypeOK, Rows
  <2>5. summaries' \in [Migrations -> Sums]
    BY <1>1, <2>2 DEF IInv, TypeInv, TypeOK
  <2> QED
    BY <2>1, <2>3, <2>4, <2>5 DEF IInv, TypeInv, TypeOK, Pop, Rows, DailyStats
<1>7. Dated'
  BY <1>1, <1>2 DEF IInv, TypeInv, TypeOK, Dated, Pop, Day
<1>8. NotBegun'
  BY DEF Pop, NotBegun, Migrations
<1>9. BelowTop'
  <2>1. ASSUME NEW n \in Migrations, charts'[n] # << >>, NEW j \in heap'[n]
        PROVE  Day(n, j)' <= charts'[n][1].date
    <3>0. Day(n, j)' = Day(n, j)
      BY DEF Pop, Day
    <3>1. CASE n = m
      <4>1. j \in heap[m]
        BY <1>1, <2>1, <3>1 DEF IInv, TypeInv, TypeOK
      <4> QED
        BY <1>2, <1>5, <3>0, <3>1, <4>1
    <3>2. CASE n # m
      <4>1. heap'[n] = heap[n]
        BY <1>1, <3>2 DEF IInv, TypeInv, TypeOK
      <4> QED
        BY <1>4, <2>1, <3>0, <3>2, <4>1 DEF IInv, BelowTop
    <3> QED
      BY <3>1, <3>2
  <2> QED
    BY <2>1 DEF BelowTop
<1>10. ChartsAscend'
  <2>1. ASSUME NEW n \in Migrations, NEW j \in DOMAIN charts'[n], NEW k \in DOMAIN charts'[n],
               j < k
        PROVE  charts'[n][j].date < charts'[n][k].date
    <3>1. CASE n # m
      BY <1>4, <2>1, <3>1 DEF IInv, ChartsAscend
    <3>2. CASE n = m
      <4>1. /\ Len(old) \in Nat /\ DOMAIN old = 1 .. Len(old)
            /\ \A a \in 1 .. Len(old) : old[a].date \in Nat
            /\ DOMAIN new = 1 .. Len(new)
        <5>1. old \in Seq(DailyStats) /\ new \in Seq(DailyStats)
          BY <1>3, <1>5
        <5>2. \A a \in 1 .. Len(old) : old[a] \in DailyStats
          BY <5>1
        <5> QED
          BY <5>1, <5>2, StatFields
      <4>2. \A a, b \in 1 .. Len(old) : a < b => old[a].date < old[b].date
        BY <4>1 DEF IInv, ChartsAscend
      <4>3. CASE Len(new) = Len(old) /\ \A a \in 1 .. Len(new) : new[a].date = old[a].date
        BY <2>1, <3>2, <4>1, <4>2, <4>3
      <4>4. CASE /\ old = << >> \/ old[1].date # Day(m, i)
                 /\ Len(new) = Len(old) + 1
                 /\ \A a \in 2 .. Len(new) : new[a].date = old[a - 1].date
        <5>0. j \in 1 .. Len(new) /\ k \in 1 .. Len(new) /\ charts'[n] = new
          BY <2>1, <3>2, <4>1
        <5>1. CASE j >= 2
          <6>1. j - 1 \in 1 .. Len(old) /\ k - 1 \in 1 .. Len(old) /\ j - 1 < k - 1
            BY <2>1, <4>1, <4>4, <5>0, <5>1
          <6>2. new[j].date = old[j - 1].date /\ new[k].date = old[k - 1].date
            <7>1. \A a \in 2 .. Len(new) : new[a].date = old[a - 1].date
              BY <4>4
            <7>2. j \in 2 .. Len(new) /\ k \in 2 .. Len(new)
              BY <2>1, <4>1, <4>4, <5>0, <5>1
            <7> QED
              BY <7>1, <7>2
          <6> QED
            BY <4>2, <5>0, <6>1, <6>2
        <5>2. CASE j = 1
          <6>1. k >= 2 /\ k - 1 \in 1 .. Len(old) /\ new[k].date = old[k - 1].date
            <7>1. \A a \in 2 .. Len(new) : new[a].date = old[a - 1].date
              BY <4>4
            <7>2. k \in 2 .. Len(new) /\ k - 1 \in 1 .. Len(old)
              BY <2>1, <4>1, <4>4, <5>0, <5>2
            <7> QED
              BY <7>1, <7>2
          <6>2. Day(m, i) < old[1].date
            <7>1. old # << >>
              BY <4>1, <6>1
            <7>2. Day(m, i) <= old[1].date
              BY <1>2, <7>1 DEF IInv, BelowTop
            <7> QED
              BY <1>2, <4>1, <4>4, <6>1, <7>1, <7>2
          <6>3. old[1].date <= old[k - 1].date
            BY <4>1, <4>2, <6>1
          <6> QED
            <7>1. new[j].date = Day(m, i) /\ new[k].date = old[k - 1].date
              BY <1>5, <5>2, <6>1
            <7>2. old[1].date \in Nat /\ old[k - 1].date \in Nat
              BY <4>1, <6>1
            <7> QED
              BY <1>2, <5>0, <6>2, <6>3, <7>1, <7>2
        <5> QED
          BY <5>0, <5>1, <5>2
      <4> QED
        BY <1>5, <4>3, <4>4
    <3> QED
      BY <3>1, <3>2
  <2> QED
    BY <2>1 DEF ChartsAscend
<1>11. next' >= 1
  BY DEF IInv, TypeInv, Pop
<1> QED
  BY <1>6, <1>7, <1>8, <1>9, <1>10, <1>11 DEF IInv, TypeInv

LEMMA AddInattivoKeeps ==
  ASSUME IInv, AddInattivo
  PROVE  IInv'
<1>1. PICK i \in inattivi :
        /\ inattivi' = inattivi \ {i}
        /\ stats' = UpdateFornitoreStat(comuni[i].fornitore, "inattivo")
        /\ features' = features \cup {i}
  BY DEF AddInattivo
<1>2. \A f \in DOMAIN stats' : stats'[f] \in [Statuses -> Nat]
  BY <1>1, StatType DEF IInv, TypeInv, TypeOK, Statuses
<1>3. inattivi' \in SUBSET Rows /\ features' \in SUBSET Rows
  BY <1>1 DEF IInv, TypeInv, TypeOK
<1>4. TypeOK'
  BY <1>2, <1>3 DEF IInv, TypeInv, TypeOK, AddInattivo, Rows
<1> QED
  BY <1>4
  DEF IInv, TypeInv, Dated, NotBegun, BelowTop, ChartsAscend, AddInattivo, Day

LEMMA HistoryKeeps ==
  ASSUME IInv, UpdateHistoricalSequence
  PROVE  IInv'
<1>1. charts \in [Migrations -> Seq(DailyStats)] /\ next \in Nat
  BY DEF IInv, TypeInv, TypeOK, DailyStats
<1>2. charts' = [m \in Migrations |-> Summed(charts[m])]
  BY DEF UpdateHistoricalSequence
<1>3. \A m \in Migrations :
        /\ charts'[m] \in Seq(DailyStats)
        /\ Len(charts'[m]) = Len(charts[m])
        /\ \A k \in 1 .. Len(charts[m]) : charts'[m][k].date = charts[m][k].date
  BY <1>1, <1>2, SummedResult
<1>4. TypeOK'
  <2>1. charts' \in [Migrations -> Seq(DailyStats)] /\ next' \in Nat
    BY <1>1, <1>2, <1>3 DEF UpdateHistoricalSequence
  <2> QED
    BY <2>1 DEF IInv, TypeInv, TypeOK, UpdateHistoricalSequence, Rows, DailyStats
<1>5. Dated' /\ NotBegun' /\ next' >= 1
  BY <1>1 DEF IInv, TypeInv, Dated, NotBegun, UpdateHistoricalSequence, Day
<1>6. BelowTop'
  <2>1. ASSUME NEW m \in Migrations, charts'[m] # << >>, NEW i \in heap'[m]
        PROVE  Day(m, i)' <= charts'[m][1].date
    <3>1. Len(charts[m]) \in Nat /\ Len(charts[m]) >= 1 /\ charts[m] # << >>
      BY <1>1, <1>3, <2>1
    <3>2. charts'[m][1].date = charts[m][1].date
      BY <1>3, <3>1
    <3> QED
      BY <2>1, <3>1, <3>2 DEF IInv, BelowTop, UpdateHistoricalSequence, Day
  <2> QED
    BY <2>1 DEF BelowTop
<1>7. ChartsAscend'
  <2>1. ASSUME NEW m \in Migrations, NEW i \in DOMAIN charts'[m], NEW j \in DOMAIN charts'[m],
               i < j
        PROVE  charts'[m][i].date < charts'[m][j].date
    <3>1. i \in 1 .. Len(charts[m]) /\ j \in 1 .. Len(charts[m])
      BY <1>3
    <3>2. i \in DOMAIN charts[m] /\ j \in DOMAIN charts[m]
      BY <1>1, <3>1
    <3>3. charts[m][i].date < charts[m][j].date
      BY <2>1, <3>2 DEF IInv, ChartsAscend
    <3> QED
      BY <1>3, <3>1, <3>3
  <2> QED
    BY <2>1 DEF ChartsAscend
<1> QED
  BY <1>4, <1>5, <1>6, <1>7 DEF IInv, TypeInv

-----------------------------------------------------------------------------
LEMMA InvInit == Init => IInv
<1> SUFFICES ASSUME Init PROVE IInv
  OBVIOUS
<1>1. BelowTop /\ ChartsAscend
  BY DEF Init, BelowTop, ChartsAscend
<1> QED
  BY <1>1, TypeInit DEF IInv

LEMMA InvNext == IInv /\ [Next]_vars => IInv'
<1> SUFFICES ASSUME IInv, [Next]_vars PROVE IInv'
  OBVIOUS
<1>1. CASE Sort
  BY <1>1, SortKeeps
<1>2. CASE SortInattivo
  BY <1>2, SortInattivoKeeps
<1>3. CASE Sorted \/ Popped \/ Added \/ Updated
  BY <1>3, TurnKeeps DEF Sorted, Popped, Added, Updated, Migrations
<1>4. CASE \E m \in Migrations : Pop(m)
  BY <1>4, PopKeeps
<1>5. CASE AddInattivo
  BY <1>5, AddInattivoKeeps
<1>6. CASE UpdateHistoricalSequence
  BY <1>6, HistoryKeeps
<1>7. CASE UNCHANGED vars
  BY <1>7
  DEF IInv, TypeInv, TypeOK, Dated, NotBegun, BelowTop, ChartsAscend, Rows, Day, vars
<1> QED
  BY <1>1, <1>2, <1>3, <1>4, <1>5, <1>6, <1>7 DEF Next

LEMMA InvHolds == Spec => []IInv
  BY InvInit, InvNext, PTL DEF Spec

(***************************************************************************)
(* The figures of the dashboard keep their types, whatever is found.       *)
(***************************************************************************)
THEOREM DashboardTypes == Spec => []TypeOK
<1>1. IInv => TypeOK
  BY DEF IInv, TypeInv
<1> QED
  BY <1>1, InvHolds, PTL

(***************************************************************************)
(* The charts are strictly ascending, whatever comuni are found and in     *)
(* whatever order the heaps give those of one day.                         *)
(***************************************************************************)
THEOREM ChartsAlwaysAscend == Spec => []ChartsAscend
<1>1. IInv => ChartsAscend
  BY DEF IInv
<1> QED
  BY <1>1, InvHolds, PTL
-----------------------------------------------------------------------------
(***************************************************************************)
(* Sums over finite sets.  The recursive function behind MapThenSumSet     *)
(* takes the elements one by one, as CHOOSE gives them; that it is defined *)
(* at all, and that the order is indifferent, is shown for a smallest      *)
(* counterexample.                                                         *)
(***************************************************************************)
LEMMA LeastNatural ==
  ASSUME NEW T \in SUBSET Nat, T # {}
  PROVE  \E n \in T : \A m \in T : n <= m
<1>1. PICK n \in T : \A m \in T : ~(<<m, n>> \in OpToRel(<, Nat))
  BY NatLessThanWellFounded, WFMin
<1>2. \A m \in T : ~(m < n)
  BY <1>1 DEF OpToRel
<1> QED
  BY <1>2

(***************************************************************************)
(* Induction over the subsets of a finite set: of those in Q, one has no   *)
(* smaller one in Q.                                                       *)
(***************************************************************************)
LEMMA LeastSubset ==
  ASSUME NEW S, IsFiniteSet(S), NEW Q \in SUBSET (SUBSET S), Q # {}
  PROVE  \E T \in Q : \A U \in SUBSET T : U # T => U \notin Q
<1> DEFINE sizes == {Cardinality(T) : T \in Q}
<1>1. sizes \in SUBSET Nat /\ sizes # {}
  BY FS_Subset, FS_CardinalityType
<1>2. PICK n \in sizes : \A m \in sizes : n <= m
  <2> HIDE DEF sizes
  <2> QED
    BY <1>1, LeastNatural
<1>3. PICK T \in Q : n = Cardinality(T)
  BY <1>2
<1>4. ASSUME NEW U \in SUBSET T, U # T, U \in Q PROVE FALSE
  <2>1. IsFiniteSet(T)
    BY <1>3, FS_Subset
  <2>2. Cardinality(U) <= Cardinality(T) /\ Cardinality(U) # Cardinality(T)
    BY <2>1, <1>4, FS_Subset
  <2>3. Cardinality(T) <= Cardinality(U)
    BY <1>2, <1>3, <1>4
  <2>4. Cardinality(T) \in Nat /\ Cardinality(U) \in Nat
    BY <1>1, <1>3, <1>4
  <2> QED
    BY <2>2, <2>3, <2>4
<1> QED
  BY <1>4

Pick(s) == CHOOSE x \in s : TRUE

\* The recursive function behind MapThenSumSet.
IsSum(g, f, S) ==
  g = [s \in SUBSET S |-> IF s = {} THEN 0 ELSE f[Pick(s)] + g[s \ {Pick(s)}]]

SumOf(f, S) == (CHOOSE g : IsSum(g, f, S))[S]

LEMMA PickIn == ASSUME NEW s, s # {} PROVE Pick(s) \in s
  BY DEF Pick

LEMMA SumUnique ==
  ASSUME NEW S, IsFiniteSet(S), NEW f, NEW g, NEW h, IsSum(g, f, S), IsSum(h, f, S)
  PROVE  g = h
<1> DEFINE Q == {s \in SUBSET S : g[s] # h[s]}
<1>1. CASE Q = {}
  BY <1>1 DEF IsSum
<1>2. CASE Q # {}
  <2>0. Q \in SUBSET (SUBSET S)
    OBVIOUS
  <2>1. PICK T \in Q : \A U \in SUBSET T : U # T => U \notin Q
    <3> HIDE DEF Q
    <3> QED
      BY <1>2, <2>0, LeastSubset
  <2>2. CASE T = {}
    BY <2>1, <2>2 DEF IsSum
  <2>3. CASE T # {}
    <3>1. T \ {Pick(T)} # T /\ T \ {Pick(T)} \in SUBSET S
      BY <2>1, <2>3, PickIn
    <3>2. g[T \ {Pick(T)}] = h[T \ {Pick(T)}]
      BY <2>1, <3>1
    <3>3. g[T] = f[Pick(T)] + g[T \ {Pick(T)}] /\ h[T] = f[Pick(T)] + h[T \ {Pick(T)}]
      BY <2>1, <2>3 DEF IsSum
    <3> QED
      BY <2>1, <3>2, <3>3
  <2> QED
    BY <2>2, <2>3
<1> QED
  BY <1>1, <1>2

LEMMA SumRestricts ==
  ASSUME NEW S, NEW f, NEW g, IsSum(g, f, S), NEW T \in SUBSET S
  PROVE  IsSum([s \in SUBSET T |-> g[s]], f, T)
<1>1. ASSUME NEW s \in SUBSET T
      PROVE  g[s] = IF s = {} THEN 0 ELSE f[Pick(s)] + g[s \ {Pick(s)}]
  BY <1>1 DEF IsSum
<1>2. \A s \in SUBSET T : s \ {Pick(s)} \in SUBSET T
  OBVIOUS
<1> QED
  BY <1>1, <1>2 DEF IsSum

LEMMA SumIs ==
  ASSUME NEW S, IsFiniteSet(S), NEW f, NEW g, IsSum(g, f, S), NEW T \in SUBSET S
  PROVE  SumOf(f, T) = g[T]
<1> DEFINE h == [s \in SUBSET T |-> g[s]]
<1>1. IsSum(h, f, T)
  BY SumRestricts
<1>2. IsSum(CHOOSE x : IsSum(x, f, T), f, T)
  BY <1>1
<1>3. h = CHOOSE x : IsSum(x, f, T)
  BY <1>1, <1>2, SumUnique, FS_Subset
<1>4. h[T] = g[T]
  OBVIOUS
<1> QED
  BY <1>3, <1>4 DEF SumOf

LEMMA SumExists ==
  ASSUME NEW S, IsFiniteSet(S), NEW f
  PROVE  \E g : IsSum(g, f, S)
<1> DEFINE Q == {T \in SUBSET S : ~ \E g : IsSum(g, f, T)}
<1>1. ASSUME Q # {} PROVE FALSE
  <2>0. Q \in SUBSET (SUBSET S)
    OBVIOUS
  <2>1. PICK T \in Q : \A U \in SUBSET T : U # T => U \notin Q
    <3> HIDE DEF Q
    <3> QED
      BY <1>1, <2>0, LeastSubset
  <2> DEFINE h == [s \in SUBSET T |-> IF s = {} THEN 0
                                      ELSE f[Pick(s)] + SumOf(f, s \ {Pick(s)})]
  <2>2. ASSUME NEW s \in SUBSET T, s # T PROVE SumOf(f, s) = h[s]
    <3>1. PICK g : IsSum(g, f, s)
      BY <2>1, <2>2
    <3>2. IsFiniteSet(s)
      BY <2>1, <2>2, FS_Subset
    <3>3. SumOf(f, s) = g[s] /\ SumOf(f, s \ {Pick(s)}) = g[s \ {Pick(s)}]
      BY <3>1, <3>2, SumIs
    <3>4. g[s] = IF s = {} THEN 0 ELSE f[Pick(s)] + g[s \ {Pick(s)}]
      BY <3>1 DEF IsSum
    <3> QED
      BY <3>3, <3>4
  <2>3. ASSUME NEW s \in SUBSET T, s # {} PROVE SumOf(f, s \ {Pick(s)}) = h[s \ {Pick(s)}]
    <3>1. s \ {Pick(s)} \in SUBSET T /\ s \ {Pick(s)} # T
      BY <2>3, PickIn
    <3> QED
      BY <2>2, <3>1
  <2>4. h = [s \in SUBSET T |-> IF s = {} THEN 0 ELSE f[Pick(s)] + h[s \ {Pick(s)}]]
    BY <2>3
  <2>5. IsSum(h, f, T)
    <3> HIDE DEF h
    <3> QED BY <2>4 DEF IsSum
  <2> QED
    BY <2>1, <2>5
<1> QED
  BY <1>1

LEMMA SumPick ==
  ASSUME NEW S, IsFiniteSet(S), NEW f
  PROVE  /\ SumOf(f, {}) = 0
         /\ S # {} => SumOf(f, S) = f[Pick(S)] + SumOf(f, S \ {Pick(S)})
<1>1. PICK g : IsSum(g, f, S)
  BY SumExists
<1>2. SumOf(f, {}) = g[{}] /\ SumOf(f, S) = g[S] /\ SumOf(f, S \ {Pick(S)}) = g[S \ {Pick(S)}]
  BY <1>1, SumIs
<1>3. g[{}] = 0 /\ (S # {} => g[S] = f[Pick(S)] + g[S \ {Pick(S)}])
  BY <1>1 DEF IsSum
<1> QED
  BY <1>2, <1>3

LEMMA SumEmpty == \A f : SumOf(f, {}) = 0
  BY SumPick, FS_EmptySet

LEMMA SumType ==
  ASSUME NEW S, IsFiniteSet(S), NEW f, \A x \in S : f[x] \in Nat
  PROVE  SumOf(f, S) \in Nat
<1> DEFINE Q == {T \in SUBSET S : SumOf(f, T) \notin Nat}
<1>1. ASSUME Q # {} PROVE FALSE
  <2>0. Q \in SUBSET (SUBSET S)
    OBVIOUS
  <2>1. PICK T \in Q : \A U \in SUBSET T : U # T => U \notin Q
    <3> HIDE DEF Q
    <3> QED
      BY <1>1, <2>0, LeastSubset
  <2>2. IsFiniteSet(T)
    BY <2>1, FS_Subset
  <2>3. T # {}
    BY <2>1, SumEmpty
  <2>4. Pick(T) \in T /\ SumOf(f, T \ {Pick(T)}) \in Nat
    BY <2>1, <2>3, PickIn
  <2>5. f[Pick(T)] \in Nat
    BY <2>1, <2>4
  <2>6. SumOf(f, T) = f[Pick(T)] + SumOf(f, T \ {Pick(T)})
    BY <2>2, <2>3, SumPick
  <2> QED
    BY <2>1, <2>4, <2>5, <2>6
<1> QED
  BY <1>1

LEMMA SumStep ==
  ASSUME NEW S, IsFiniteSet(S), NEW f, \A x \in S : f[x] \in Nat, NEW y \in S
  PROVE  SumOf(f, S) = f[y] + SumOf(f, S \ {y})
<1> DEFINE Q == {T \in SUBSET S : \E z \in T : SumOf(f, T) # f[z] + SumOf(f, T \ {z})}
<1>1. ASSUME Q # {} PROVE FALSE
  <2>0. Q \in SUBSET (SUBSET S)
    OBVIOUS
  <2>1. PICK T \in Q : \A U \in SUBSET T : U # T => U \notin Q
    <3> HIDE DEF Q
    <3> QED
      BY <1>1, <2>0, LeastSubset
  <2>2. PICK z \in T : SumOf(f, T) # f[z] + SumOf(f, T \ {z})
    BY <2>1
  <2> DEFINE x == Pick(T)
  <2>3. IsFiniteSet(T) /\ IsFiniteSet(T \ {x}) /\ IsFiniteSet(T \ {z})
        /\ IsFiniteSet((T \ {x}) \ {z})
    BY <2>1, FS_Subset
  <2>4. x \in T /\ T # {}
    BY <2>2, PickIn
  <2>5. SumOf(f, T) = f[x] + SumOf(f, T \ {x})
    BY <2>3, <2>4, SumPick
  <2>6. x # z
    BY <2>2, <2>5
  <2>7. SumOf(f, T \ {x}) = f[z] + SumOf(f, (T \ {x}) \ {z})
    <3>1. T \ {x} \in SUBSET T /\ T \ {x} # T /\ z \in T \ {x} /\ T \ {x} \in SUBSET S
      BY <2>1, <2>2, <2>4, <2>6
    <3> QED
      BY <2>1, <3>1
  <2>8. SumOf(f, T \ {z}) = f[x] + SumOf(f, (T \ {z}) \ {x})
    <3>1. T \ {z} \in SUBSET T /\ T \ {z} # T /\ x \in T \ {z} /\ T \ {z} \in SUBSET S
      BY <2>1, <2>2, <2>4, <2>6
    <3> QED
      BY <2>1, <3>1
  <2>9. (T \ {x}) \ {z} = (T \ {z}) \ {x}
    OBVIOUS
  <2>10. f[x] \in Nat /\ f[z] \in Nat /\ SumOf(f, (T \ {x}) \ {z}) \in Nat
    <3>1. \A u \in (T \ {x}) \ {z} : f[u] \in Nat
      BY <2>1
    <3>2. SumOf(f, (T \ {x}) \ {z}) \in Nat
      <4> HIDE DEF x
      <4> QED BY <2>3, <3>1, SumType
    <3> QED
      BY <2>1, <2>2, <2>4, <3>2
  <2> HIDE DEF x
  <2> QED
    BY <2>2, <2>5, <2>7, <2>8, <2>9, <2>10
<1> QED
  BY <1>1

LEMMA SumOverIsSum == \A f, S : SumOver(f, S) = SumOf(f, S)
  BY DEF SumOver, MapThenSumSet, MapThenFoldSet, SumOf, IsSum, Pick

LEMMA SumCongruence ==
  ASSUME NEW S, IsFiniteSet(S), NEW f, NEW h, \A x \in S : f[x] = h[x]
  PROVE  SumOf(f, S) = SumOf(h, S)
<1>1. PICK g : IsSum(g, f, S)
  BY SumExists
<1>2. \A s \in SUBSET S : s # {} => f[Pick(s)] = h[Pick(s)]
  BY PickIn
<1>3. IsSum(g, h, S)
  BY <1>1, <1>2 DEF IsSum
<1> QED
  BY <1>1, <1>3, SumIs

(***************************************************************************)
(* Adding d to one entry of a map, which counts as nothing when missing,   *)
(* adds d to its total.                                                    *)
(***************************************************************************)
LEMMA SumBump ==
  ASSUME NEW D, IsFiniteSet(D), NEW f, \A x \in D : f[x] \in Nat,
         NEW key, NEW d \in Nat, NEW h,
         \A x \in D \ {key} : h[x] = f[x],
         h[key] = (IF key \in D THEN f[key] ELSE 0) + d
  PROVE  SumOf(h, D \cup {key}) = SumOf(f, D) + d
<1> DEFINE old == IF key \in D THEN f[key] ELSE 0
           rest == SumOf(f, D \ {key})
<1>1. IsFiniteSet(D \cup {key}) /\ IsFiniteSet(D \ {key})
  BY FS_AddElement, FS_RemoveElement
<1>2. \A x \in D \cup {key} : h[x] \in Nat
  OBVIOUS
<1>3. SumOf(h, D \cup {key}) = h[key] + SumOf(h, (D \cup {key}) \ {key})
  BY <1>1, <1>2, SumStep
<1>4. (D \cup {key}) \ {key} = D \ {key}
  OBVIOUS
<1>5. SumOf(h, D \ {key}) = SumOf(f, D \ {key})
  BY <1>1, SumCongruence
<1>6. rest \in Nat
  BY <1>1, SumType
<1>7. SumOf(f, D) = old + rest
  <2>1. CASE key \in D
    BY <2>1, SumStep
  <2>2. CASE key \notin D
    <3>1. D \ {key} = D
      BY <2>2
    <3> QED
      BY <2>2, <3>1, <1>6
  <2> QED
    BY <2>1, <2>2
<1>8. SumOf(h, D \cup {key}) = (old + d) + rest /\ old \in Nat
  BY <1>3, <1>4, <1>5
<1> HIDE DEF old, rest
<1> QED
  BY <1>6, <1>7, <1>8

LEMMA SumUnion ==
  ASSUME NEW S, NEW f, IsFiniteSet(S), \A x \in S : f[x] \in Nat,
         NEW A \in SUBSET S, NEW B \in SUBSET S, A \cap B = {}
  PROVE  SumOf(f, A \cup B) = SumOf(f, A) + SumOf(f, B)
<1> DEFINE Q == {T \in SUBSET B : SumOf(f, A \cup T) # SumOf(f, A) + SumOf(f, T)}
<1>1. IsFiniteSet(A) /\ IsFiniteSet(B)
  BY FS_Subset
<1>2. SumOf(f, A) \in Nat
  <2>1. \A x \in A : f[x] \in Nat
    OBVIOUS
  <2> QED
    BY <1>1, <2>1, SumType
<1>3. ASSUME Q # {} PROVE FALSE
  <2>0. Q \in SUBSET (SUBSET B)
    OBVIOUS
  <2>1. PICK T \in Q : \A U \in SUBSET T : U # T => U \notin Q
    <3> HIDE DEF Q
    <3> QED
      BY <1>1, <1>3, <2>0, LeastSubset
  <2>2. T # {}
    <3>1. A \cup {} = A /\ SumOf(f, {}) = 0
      BY SumEmpty
    <3>2. SumOf(f, A \cup {}) = SumOf(f, A) + SumOf(f, {})
      BY <1>2, <3>1
    <3> QED
      BY <2>1, <3>2
  <2>3. PICK x \in T : TRUE
    BY <2>2
  <2>4. /\ IsFiniteSet(T) /\ IsFiniteSet(A \cup T) /\ IsFiniteSet(T \ {x})
        /\ T \ {x} \in SUBSET T /\ T \ {x} # T /\ x \in S
    BY <1>1, <2>1, <2>3, FS_Subset, FS_Union
  <2>5. SumOf(f, A \cup (T \ {x})) = SumOf(f, A) + SumOf(f, T \ {x})
    BY <2>1, <2>4
  <2>6. SumOf(f, T) = f[x] + SumOf(f, T \ {x})
    <3>1. \A y \in T : f[y] \in Nat
      BY <2>1
    <3> QED
      BY <2>3, <2>4, <3>1, SumStep
  <2>7. SumOf(f, A \cup T) = f[x] + SumOf(f, (A \cup T) \ {x})
    <3>1. \A y \in A \cup T : f[y] \in Nat
      BY <2>1
    <3> QED
      BY <2>3, <2>4, <3>1, SumStep
  <2>8. (A \cup T) \ {x} = A \cup (T \ {x})
    BY <2>1, <2>3
  <2>9. SumOf(f, T \ {x}) \in Nat /\ f[x] \in Nat
    <3>1. \A y \in T \ {x} : f[y] \in Nat
      BY <2>1
    <3> QED
      BY <2>4, <3>1, SumType
  <2> QED
    BY <1>2, <2>1, <2>5, <2>6, <2>7, <2>8, <2>9
<1>4. B \notin Q
  BY <1>3
<1> QED
  BY <1>4

-----------------------------------------------------------------------------
(***************************************************************************)
(* What each figure counts at each step: the rows of a status seen so far, *)
(* less those that wait on a heap or in the list of the inactive.          *)
(***************************************************************************)
Seen == IF pc = "sort" THEN 1 .. next - 1 ELSE Rows

KindOf(t) == IF t = "inattivo" THEN NULL ELSE t

SeenOf(t) == {i \in Seen : MigrationOf(comuni[i]) = KindOf(t)}

Waiting(t) == IF t = "inattivo" THEN inattivi ELSE heap[t]

Finished(t) == SeenOf(t) \ Waiting(t)

Placement ==
  /\ pc = "sort" => next <= Len(comuni) + 1
  /\ \A t \in Statuses : Waiting(t) \subseteq SeenOf(t)
  /\ pc = "sort" => \A t \in Statuses : Waiting(t) = SeenOf(t)
  /\ pc \notin {"sort", "presubentro"} => heap["presubentro"] = {}
  /\ pc \in {"inattivi", "history", "done"} => heap["subentro"] = {}
  /\ pc \in {"history", "done"} => inattivi = {}

MapsAddUp ==
  \A map \in {regions, provinces} :
    /\ IsFiniteSet(DOMAIN map)
    /\ \A m \in Migrations : Total(map, m) = SumsOf(SeenOf(m))

SummariesAddUp == \A m \in Migrations : summaries[m] = SumsOf(Finished(m))

StatsAddUp ==
  /\ IsFiniteSet(DOMAIN stats)
  /\ \A t \in Statuses :
       SumOver([f \in DOMAIN stats |-> stats[f][t]], DOMAIN stats) = Cardinality(Finished(t))

Mapped == features = UNION {Finished(t) : t \in Statuses}

(***************************************************************************)
(* An entry of a chart counts the rows of its day, and once the history    *)
(* has reached it those of the days before too.                            *)
(***************************************************************************)
Reached(k) == pc = "done" \/ (pc = "history" /\ k < next)

EntryCounts(m, k) ==
  {i \in Finished(m) : IF Reached(k) THEN Day(m, i) <= charts[m][k].date
                       ELSE Day(m, i) = charts[m][k].date}

EntrySums(e) == [comuni |-> e.comuni, population |-> e.population]

DaysCharted ==
  \A m \in Migrations :
    /\ \A i \in Finished(m) : \E k \in DOMAIN charts[m] : charts[m][k].date = Day(m, i)
    /\ \A k \in DOMAIN charts[m] : \E i \in Finished(m) : charts[m][k].date = Day(m, i)

EntriesAddUp ==
  \A m \in Migrations : \A k \in DOMAIN charts[m] :
    EntrySums(charts[m][k]) = SumsOf(EntryCounts(m, k))

Counts ==
  /\ Placement /\ MapsAddUp /\ SummariesAddUp /\ StatsAddUp /\ Mapped
  /\ DaysCharted /\ EntriesAddUp
-----------------------------------------------------------------------------
(***************************************************************************)
(* The sums of a set of rows.                                              *)
(***************************************************************************)
LEMMA RowsAreFinite ==
  ASSUME comuni \in Inputs
  PROVE  Len(comuni) \in Nat /\ Rows = 1 .. Len(comuni) /\ IsFiniteSet(Rows)
<1>1. Len(comuni) \in Nat /\ Rows = 1 .. Len(comuni)
  BY DashboardAssumption DEF Rows
<1> QED
  BY <1>1, FS_Interval

LEMMA PopulationIsSum ==
  ASSUME NEW S
  PROVE  PopulationOf(S) = SumOf([i \in Rows |-> comuni[i].population], S)
  BY SumOverIsSum DEF PopulationOf

LEMMA SumsType ==
  ASSUME comuni \in Inputs, NEW S \in SUBSET Rows
  PROVE  /\ IsFiniteSet(S) /\ Cardinality(S) \in Nat /\ PopulationOf(S) \in Nat
         /\ SumsOf(S) \in Sums
<1>1. IsFiniteSet(S) /\ Cardinality(S) \in Nat
  BY RowsAreFinite, FS_Subset, FS_CardinalityType
<1> DEFINE f == [i \in Rows |-> comuni[i].population]
<1>2. \A i \in S : f[i] \in Nat
  BY RowsAre DEF Rows
<1>3. PopulationOf(S) = SumOf(f, S)
  BY PopulationIsSum
<1>4. SumOf(f, S) \in Nat
  <2> HIDE DEF f
  <2> QED
    BY <1>1, <1>2, SumType
<1> QED
  BY <1>1, <1>3, <1>4 DEF SumsOf, Sums

LEMMA SumsOfNone == SumsOf({}) = Nothing
<1>1. Cardinality({}) = 0
  BY FS_EmptySet
<1>2. PopulationOf({}) = 0
  BY PopulationIsSum, SumEmpty
<1> QED
  BY <1>1, <1>2 DEF SumsOf, Nothing

LEMMA SumsOfOneMore ==
  ASSUME comuni \in Inputs, NEW S \in SUBSET Rows, NEW i \in Rows \ S
  PROVE  /\ SumsOf(S \cup {i}) = Plus(SumsOf(S), i)
         /\ Cardinality(S \cup {i}) = Cardinality(S) + 1
<1> DEFINE f == [j \in Rows |-> comuni[j].population]
<1>1. IsFiniteSet(S \cup {i}) /\ Cardinality(S \cup {i}) = Cardinality(S) + 1
  BY SumsType, FS_AddElement
<1>2. \A j \in Rows : f[j] \in Nat /\ f[j] = comuni[j].population
  BY RowsAre DEF Rows
<1>3. PopulationOf(S \cup {i}) = SumOf(f, S \cup {i}) /\ PopulationOf(S) = SumOf(f, S)
  BY PopulationIsSum
<1>4. SumOf(f, S \cup {i}) = f[i] + SumOf(f, S)
  <2>1. (S \cup {i}) \ {i} = S /\ i \in S \cup {i}
    OBVIOUS
  <2>2. \A j \in S \cup {i} : f[j] \in Nat
    BY <1>2
  <2> HIDE DEF f
  <2>3. SumOf(f, S \cup {i}) = f[i] + SumOf(f, (S \cup {i}) \ {i})
    BY <1>1, <2>1, <2>2, SumStep
  <2> QED
    BY <2>1, <2>3
<1>5. SumOf(f, S) \in Nat /\ f[i] = comuni[i].population /\ f[i] \in Nat
  BY <1>2, <1>3, SumsType
<1>6. PopulationOf(S \cup {i}) = PopulationOf(S) + comuni[i].population
  <2> HIDE DEF f
  <2> QED
    BY <1>3, <1>4, <1>5
<1> QED
  BY <1>1, <1>6 DEF SumsOf, Plus

LEMMA SumsOfUnion ==
  ASSUME comuni \in Inputs, NEW A \in SUBSET Rows, NEW B \in SUBSET Rows, A \cap B = {}
  PROVE  /\ Cardinality(A \cup B) = Cardinality(A) + Cardinality(B)
         /\ PopulationOf(A \cup B) = PopulationOf(A) + PopulationOf(B)
<1> DEFINE f == [j \in Rows |-> comuni[j].population]
<1>1. Cardinality(A \cup B) = Cardinality(A) + Cardinality(B)
  <2>1. IsFiniteSet(A) /\ IsFiniteSet(B) /\ Cardinality(A) \in Nat /\ Cardinality(B) \in Nat
    BY SumsType
  <2>2. Cardinality(A \cup B) = Cardinality(A) + Cardinality(B) - Cardinality(A \cap B)
    BY <2>1, FS_Union
  <2>3. Cardinality(A \cap B) = 0
    BY FS_EmptySet
  <2> QED
    BY <2>1, <2>2, <2>3
<1>2. \A j \in Rows : f[j] \in Nat
  BY RowsAre DEF Rows
<1>3. SumOf(f, A \cup B) = SumOf(f, A) + SumOf(f, B)
  <2>1. IsFiniteSet(Rows)
    BY RowsAreFinite
  <2> HIDE DEF f
  <2> QED
    BY <1>2, <2>1, SumUnion
<1> QED
  BY <1>1, <1>3, PopulationIsSum

\* The rows are those of the search throughout.
LEMMA SumsAlone ==
  ASSUME comuni' = comuni, NEW S
  PROVE  SumsOf(S)' = SumsOf(S)
  BY DEF SumsOf, PopulationOf, Rows

(***************************************************************************)
(* The totals of a map are sums; adding a comune to one of its entries     *)
(* adds it to one of its totals.                                           *)
(***************************************************************************)
LEMMA TotalIsSum ==
  ASSUME NEW map, NEW m
  PROVE  /\ Total(map, m).comuni = SumOf([k \in DOMAIN map |-> map[k][m].comuni], DOMAIN map)
         /\ Total(map, m).population
              = SumOf([k \in DOMAIN map |-> map[k][m].population], DOMAIN map)
         /\ Total(map, m) = [comuni |-> Total(map, m).comuni,
                             population |-> Total(map, m).population]
  BY SumOverIsSum DEF Total

LEMMA TotalOfPlusIn ==
  ASSUME comuni \in Inputs, NEW i \in Rows, NEW map, NEW key, NEW m \in Migrations,
         IsFiniteSet(DOMAIN map),
         \A k \in DOMAIN map : map[k] \in [Migrations -> Sums],
         NEW n \in Migrations
  PROVE  Total(PlusIn(map, key, m, i), n) = IF n = m THEN Plus(Total(map, n), i) ELSE Total(map, n)
<1> DEFINE D == DOMAIN map
           new == PlusIn(map, key, m, i)
           old == IF key \in D THEN map[key] ELSE [x \in Migrations |-> Nothing]
           c == [k \in D |-> map[k][n].comuni]
           p == [k \in D |-> map[k][n].population]
           cc == [k \in D \cup {key} |-> new[k][n].comuni]
           pp == [k \in D \cup {key} |-> new[k][n].population]
           dc == IF n = m THEN 1 ELSE 0
           dp == IF n = m THEN comuni[i].population ELSE 0
<1>1. comuni[i].population \in Nat
  BY RowsAre DEF Rows
<1>2. DOMAIN new = D \cup {key}
  BY DEF PlusIn
<1>3. \A k \in D \ {key} : new[k] = map[k]
  BY DEF PlusIn
<1>4. new[key] = [old EXCEPT ![m] = Plus(@, i)]
  BY DEF PlusIn
<1>5. old \in [Migrations -> Sums]
  BY DEF Nothing, Sums
<1>6. new[key][n] = IF n = m THEN Plus(old[n], i) ELSE old[n]
  BY <1>4, <1>5
<1>7. /\ new[key][n].comuni = old[n].comuni + dc
      /\ new[key][n].population = old[n].population + dp
  <2>1. old[n].comuni \in Nat /\ old[n].population \in Nat
    BY <1>5 DEF Sums
  <2> QED
    BY <1>1, <1>6, <2>1 DEF Plus
<1>8. /\ old[n].comuni = IF key \in D THEN c[key] ELSE 0
      /\ old[n].population = IF key \in D THEN p[key] ELSE 0
  BY DEF Nothing
<1>9. \A k \in D : c[k] \in Nat /\ p[k] \in Nat
  BY DEF Sums
<1>10. SumOf(cc, D \cup {key}) = SumOf(c, D) + dc
  <2>1. \A k \in D \ {key} : cc[k] = c[k]
    BY <1>3
  <2>2. cc[key] = (IF key \in D THEN c[key] ELSE 0) + dc
    BY <1>7, <1>8
  <2>3. dc \in Nat /\ \A k \in D : c[k] \in Nat
    BY <1>9
  <2> HIDE DEF c, cc, dc, D
  <2> QED
    BY <2>1, <2>2, <2>3, SumBump DEF D
<1>11. SumOf(pp, D \cup {key}) = SumOf(p, D) + dp
  <2>1. \A k \in D \ {key} : pp[k] = p[k]
    BY <1>3
  <2>2. pp[key] = (IF key \in D THEN p[key] ELSE 0) + dp
    BY <1>7, <1>8
  <2>3. dp \in Nat /\ \A k \in D : p[k] \in Nat
    BY <1>1, <1>9
  <2> HIDE DEF p, pp, dp, D
  <2> QED
    BY <2>1, <2>2, <2>3, SumBump DEF D
<1>12. Total(new, n).comuni = SumOf(cc, D \cup {key}) /\ Total(map, n).comuni = SumOf(c, D)
  BY <1>2, TotalIsSum
<1>13. Total(new, n).population = SumOf(pp, D \cup {key}) /\ Total(map, n).population = SumOf(p, D)
  BY <1>2, TotalIsSum
<1>14. SumOf(c, D) \in Nat /\ SumOf(p, D) \in Nat
  <2> HIDE DEF c, p
  <2> QED
    BY <1>9, SumType
<1>15. /\ Total(new, n).comuni = Total(map, n).comuni + dc
       /\ Total(new, n).population = Total(map, n).population + dp
       /\ Total(map, n).comuni \in Nat /\ Total(map, n).population \in Nat
  <2> HIDE DEF c, p, cc, pp, dc, dp, new, D
  <2> QED
    BY <1>10, <1>11, <1>12, <1>13, <1>14
<1>16. /\ Total(new, n) = [comuni |-> Total(new, n).comuni, population |-> Total(new, n).population]
       /\ Total(map, n) = [comuni |-> Total(map, n).comuni, population |-> Total(map, n).population]
  BY TotalIsSum
<1>17. CASE n = m
  BY <1>15, <1>16, <1>17 DEF Plus
<1>18. CASE n # m
  BY <1>15, <1>16, <1>18
<1> QED
  BY <1>17, <1>18
-----------------------------------------------------------------------------
(***************************************************************************)
(* Steps that finish no row, and steps that see none.                      *)
(***************************************************************************)
LEMMA FiguresAlone ==
  ASSUME Counts, UNCHANGED <<comuni, summaries, charts, stats, features>>,
         \A t \in Statuses : Finished(t)' = Finished(t),
         \A m \in Migrations : \A k \in DOMAIN charts[m] : Reached(k)' <=> Reached(k)
  PROVE  SummariesAddUp' /\ StatsAddUp' /\ Mapped' /\ DaysCharted' /\ EntriesAddUp'
<1>1. SummariesAddUp'
  <2>1. \A m \in Migrations : Finished(m)' = Finished(m)
    BY DEF Statuses
  <2> QED
    BY <2>1, SumsAlone DEF Counts, SummariesAddUp
<1>2. StatsAddUp'
  BY DEF Counts, StatsAddUp
<1>3. Mapped'
  <2>1. UNION {Finished(t)' : t \in Statuses} = UNION {Finished(t) : t \in Statuses}
    OBVIOUS
  <2> QED
    BY <2>1 DEF Counts, Mapped
<1>4. \A m \in Migrations : Finished(m)' = Finished(m)
  BY DEF Statuses
<1>5. \A m, i : Day(m, i)' = Day(m, i)
  BY DEF Day
<1>6. DaysCharted'
  BY <1>4, <1>5 DEF Counts, DaysCharted
<1>7. EntriesAddUp'
  <2>1. ASSUME NEW m \in Migrations, NEW k \in DOMAIN charts[m]
        PROVE  EntryCounts(m, k)' = EntryCounts(m, k)
    BY <1>4, <1>5, <2>1 DEF EntryCounts
  <2>2. ASSUME NEW m \in Migrations, NEW k \in DOMAIN charts'[m]
        PROVE  EntrySums(charts'[m][k]) = SumsOf(EntryCounts(m, k))'
    <3>1. EntrySums(charts[m][k]) = SumsOf(EntryCounts(m, k))
      BY <2>2 DEF Counts, EntriesAddUp
    <3>2. SumsOf(EntryCounts(m, k))' = SumsOf(EntryCounts(m, k))
      BY <2>1, <2>2, SumsAlone
    <3> QED
      BY <3>1, <3>2
  <2> QED
    BY <2>2 DEF EntriesAddUp
<1> QED
  BY <1>1, <1>2, <1>3, <1>6, <1>7

LEMMA MapsAlone ==
  ASSUME Counts, UNCHANGED <<comuni, regions, provinces>>,
         \A m \in Migrations : SeenOf(m)' = SeenOf(m)
  PROVE  MapsAddUp'
  BY SumsAlone DEF Counts, MapsAddUp

LEMMA StatusNames ==
  /\ Statuses = {"presubentro", "subentro", "inattivo"}
  /\ Migrations = {"presubentro", "subentro"}
  /\ \A t \in Statuses : t # "inattivo" => t \in Migrations
  /\ \A m \in Migrations : m # "inattivo" /\ m \in Statuses /\ KindOf(m) = m /\ m # NULL
  /\ KindOf("inattivo") = NULL
  BY DashboardAssumption DEF Statuses, Migrations, KindOf

\* A row in hand is new.
LEMMA NextIsNew ==
  ASSUME IInv, Counts, pc = "sort", next <= Len(comuni)
  PROVE  /\ comuni \in Inputs /\ next \in Nat /\ next >= 1 /\ next \in Rows
         /\ next + 1 <= Len(comuni) + 1
         /\ \A t : next \notin SeenOf(t)
         /\ MigrationOf(comuni[next]) \in Migrations \cup {NULL}
<1>1. comuni \in Inputs /\ next \in Nat /\ next >= 1
  BY DEF IInv, TypeInv, TypeOK
<1>2. next \in Rows /\ Len(comuni) \in Nat
  BY <1>1, IndexIsRow, RowsAreFinite DEF Rows
<1>3. MigrationOf(comuni[next]) \in Migrations \cup {NULL}
  BY <1>1, <1>2, RowsAre DEF Rows
<1> QED
  BY <1>1, <1>2, <1>3 DEF Seen, SeenOf

\* What a step of the first loop makes of the sets.
LEMMA SeenGrows ==
  ASSUME IInv, Counts, pc = "sort", next <= Len(comuni), pc' = pc, next' = next + 1,
         comuni' = comuni, NEW t
  PROVE  SeenOf(t)' = IF MigrationOf(comuni[next]) = KindOf(t) THEN SeenOf(t) \cup {next}
                      ELSE SeenOf(t)
<1>1. next \in Nat /\ next >= 1
  BY NextIsNew
<1>2. 1 .. next' - 1 = (1 .. next - 1) \cup {next}
  BY <1>1
<1>3. Seen' = Seen \cup {next}
  BY <1>2 DEF Seen
<1> QED
  BY <1>3 DEF SeenOf, MigrationOf, KindOf

LEMMA SortCounts ==
  ASSUME IInv, Counts, Sort
  PROVE  Counts'
<1> DEFINE r == comuni[next]
           m == MigrationOf(r)
<1>1. /\ comuni \in Inputs /\ next \in Nat /\ next >= 1 /\ next \in Rows
      /\ next + 1 <= Len(comuni) + 1
      /\ \A t : next \notin SeenOf(t)
      /\ m \in Migrations
  BY NextIsNew DEF Sort
<1>2. /\ pc = "sort" /\ next <= Len(comuni) /\ next' = next + 1
      /\ UNCHANGED <<comuni, pc, inattivi, summaries, charts, stats, features>>
      /\ heap' = [heap EXCEPT ![m] = heap[m] \cup {next}]
      /\ regions' = PlusIn(regions, r.region, m, next)
      /\ provinces' = PlusIn(provinces, r.province, m, next)
  BY DEF Sort
<1>3. \A t \in Statuses : SeenOf(t)' = IF t = m THEN SeenOf(t) \cup {next} ELSE SeenOf(t)
  <2>1. \A t \in Statuses : m = KindOf(t) <=> t = m
    BY <1>1, StatusNames DEF KindOf
  <2> QED
    BY <1>2, <2>1, SeenGrows
<1>4. \A t \in Statuses : Waiting(t)' = IF t = m THEN Waiting(t) \cup {next} ELSE Waiting(t)
  <2>1. heap \in [Migrations -> SUBSET Rows]
    BY DEF IInv, TypeInv, TypeOK
  <2>2. \A n \in Migrations : heap'[n] = IF n = m THEN heap[n] \cup {next} ELSE heap[n]
    BY <1>1, <1>2, <2>1
  <2> QED
    BY <1>1, <1>2, <2>2, StatusNames DEF Waiting
<1>5. \A t \in Statuses : Finished(t)' = Finished(t)
  BY <1>1, <1>3, <1>4 DEF Finished, Counts, Placement
<1>6. Placement'
  <2>1. \A t \in Statuses : Waiting(t) = SeenOf(t)
    BY <1>2 DEF Counts, Placement
  <2>2. \A t \in Statuses : Waiting(t)' = SeenOf(t)'
    BY <1>3, <1>4, <2>1
  <2>3. next' <= Len(comuni') + 1
    BY <1>1, <1>2
  <2> QED
    BY <1>2, <2>2, <2>3 DEF Placement
<1>7. MapsAddUp'
  <2> DEFINE added(map, key) == PlusIn(map, key, m, next)
  <2>1. ASSUME NEW map \in {regions, provinces}, NEW key
        PROVE  /\ IsFiniteSet(DOMAIN added(map, key))
               /\ \A n \in Migrations : Total(added(map, key), n) = SumsOf(SeenOf(n))'
    <3>1. IsFiniteSet(DOMAIN map) /\ \A n \in Migrations : Total(map, n) = SumsOf(SeenOf(n))
      BY DEF Counts, MapsAddUp
    <3>2. \A k \in DOMAIN map : map[k] \in [Migrations -> Sums]
      BY DEF IInv, TypeInv, TypeOK
    <3>3. DOMAIN added(map, key) = DOMAIN map \cup {key}
      BY DEF PlusIn
    <3>4. IsFiniteSet(DOMAIN added(map, key))
      BY <3>1, <3>3, FS_AddElement
    <3>5. ASSUME NEW n \in Migrations PROVE Total(added(map, key), n) = SumsOf(SeenOf(n))'
      <4>1. Total(added(map, key), n)
              = IF n = m THEN Plus(Total(map, n), next) ELSE Total(map, n)
        BY <1>1, <3>1, <3>2, TotalOfPlusIn
      <4>2. SumsOf(SeenOf(n))' = SumsOf(IF n = m THEN SeenOf(n) \cup {next} ELSE SeenOf(n))
        BY <1>2, <1>3, SumsAlone, StatusNames
      <4>3. n = m => SumsOf(SeenOf(n) \cup {next}) = Plus(SumsOf(SeenOf(n)), next)
        <5>1. SeenOf(n) \in SUBSET Rows
          BY <1>1, <1>2, RowsAreFinite DEF SeenOf, Seen
        <5> QED
          BY <1>1, <5>1, SumsOfOneMore
      <4> QED
        BY <3>1, <4>1, <4>2, <4>3
    <3> QED
      BY <3>4, <3>5
  <2>2. regions' = added(regions, r.region) /\ provinces' = added(provinces, r.province)
    BY <1>2
  <2> HIDE DEF added
  <2>3. IsFiniteSet(DOMAIN regions') /\ \A n \in Migrations : Total(regions', n) = SumsOf(SeenOf(n))'
    BY <2>1, <2>2
  <2>4. IsFiniteSet(DOMAIN provinces') /\ \A n \in Migrations : Total(provinces', n) = SumsOf(SeenOf(n))'
    BY <2>1, <2>2
  <2> QED
    BY <2>3, <2>4 DEF MapsAddUp
<1>8. SummariesAddUp' /\ StatsAddUp' /\ Mapped' /\ DaysCharted' /\ EntriesAddUp'
  BY <1>2, <1>5, FiguresAlone DEF Reached
<1> QED
  BY <1>6, <1>7, <1>8 DEF Counts

LEMMA SortInattivoCounts ==
  ASSUME IInv, Counts, SortInattivo
  PROVE  Counts'
<1>1. /\ comuni \in Inputs /\ next \in Nat /\ next >= 1 /\ next \in Rows
      /\ next + 1 <= Len(comuni) + 1
      /\ \A t : next \notin SeenOf(t)
  BY NextIsNew DEF SortInattivo
<1>2. /\ pc = "sort" /\ next <= Len(comuni) /\ next' = next + 1
      /\ MigrationOf(comuni[next]) = NULL
      /\ inattivi' = inattivi \cup {next}
      /\ UNCHANGED <<comuni, pc, heap, regions, provinces, summaries, charts, stats, features>>
  BY DEF SortInattivo
<1>3. \A t \in Statuses :
        SeenOf(t)' = IF t = "inattivo" THEN SeenOf(t) \cup {next} ELSE SeenOf(t)
  <2>1. \A t \in Statuses : NULL = KindOf(t) <=> t = "inattivo"
    BY StatusNames DEF KindOf
  <2> QED
    BY <1>2, <2>1, SeenGrows
<1>4. \A t \in Statuses :
        Waiting(t)' = IF t = "inattivo" THEN Waiting(t) \cup {next} ELSE Waiting(t)
  BY <1>2 DEF Waiting
<1>5. \A t \in Statuses : Finished(t)' = Finished(t)
  BY <1>1, <1>3, <1>4 DEF Finished, Counts, Placement
<1>6. Placement'
  <2>1. \A t \in Statuses : Waiting(t) = SeenOf(t)
    BY <1>2 DEF Counts, Placement
  <2>2. \A t \in Statuses : Waiting(t)' = SeenOf(t)'
    BY <1>3, <1>4, <2>1
  <2>3. next' <= Len(comuni') + 1
    BY <1>1, <1>2
  <2> QED
    BY <1>2, <2>2, <2>3 DEF Placement
<1>7. MapsAddUp'
  BY <1>2, <1>3, StatusNames, MapsAlone
<1>8. SummariesAddUp' /\ StatsAddUp' /\ Mapped' /\ DaysCharted' /\ EntriesAddUp'
  BY <1>2, <1>5, FiguresAlone DEF Reached
<1> QED
  BY <1>6, <1>7, <1>8 DEF Counts

LEMMA TurnCounts ==
  ASSUME IInv, Counts, NEW here, NEW there, Turn(here, there),
         \/ here = "sort" /\ there = "presubentro" /\ next > Len(comuni)
         \/ here = "presubentro" /\ there = "subentro" /\ heap["presubentro"] = {}
         \/ here = "subentro" /\ there = "inattivi" /\ heap["subentro"] = {}
         \/ here = "inattivi" /\ there = "history" /\ inattivi = {}
         \/ here = "history" /\ there = "done" /\ next > Longest
  PROVE  Counts'
<1>1. comuni \in Inputs /\ next \in Nat /\ Len(comuni) \in Nat /\ Rows = 1 .. Len(comuni)
  BY RowsAreFinite DEF IInv, TypeInv, TypeOK
<1>2. /\ pc = here /\ pc' = there /\ next' = 1
      /\ UNCHANGED <<comuni, heap, inattivi, regions, provinces, summaries, charts, stats, features>>
  BY DEF Turn
<1>3. Seen' = Seen
  BY <1>1, <1>2 DEF Seen, Rows, Counts, Placement
<1>4. \A t : SeenOf(t)' = SeenOf(t) /\ Waiting(t)' = Waiting(t) /\ Finished(t)' = Finished(t)
  BY <1>2, <1>3 DEF SeenOf, Waiting, Finished, MigrationOf, KindOf
<1>5. Placement'
  BY <1>2, <1>4 DEF Counts, Placement
<1>6. \A m \in Migrations : \A k \in DOMAIN charts[m] : Reached(k)' <=> Reached(k)
  <2>1. ASSUME NEW m \in Migrations, NEW k \in DOMAIN charts[m] PROVE Reached(k)' <=> Reached(k)
    <3>1. charts[m] \in Seq(DailyStats) /\ Len(charts[m]) \in Nat
      BY DEF IInv, TypeInv, TypeOK, DailyStats
    <3>2. k \in Nat /\ k >= 1 /\ k <= Len(charts[m])
      BY <2>1, <3>1
    <3>3. Len(charts[m]) <= Longest /\ Longest \in Nat
      <4>1. Len(charts["subentro"]) \in Nat /\ Len(charts["presubentro"]) \in Nat
        BY DEF IInv, TypeInv, TypeOK, Migrations
      <4> QED
        BY <4>1 DEF Longest, Migrations
    <3> QED
      BY <1>1, <1>2, <3>2, <3>1, <3>3 DEF Reached
  <2> QED
    BY <2>1
<1>7. MapsAddUp' /\ SummariesAddUp' /\ StatsAddUp' /\ Mapped' /\ DaysCharted' /\ EntriesAddUp'
  BY <1>2, <1>4, <1>6, MapsAlone, FiguresAlone
<1> QED
  BY <1>5, <1>7 DEF Counts
-----------------------------------------------------------------------------
(***************************************************************************)
(* What pushing a comune makes of the entries of its chart.                *)
(***************************************************************************)
LEMMA PushEntries ==
  ASSUME comuni \in Inputs, NEW m \in Migrations, NEW i \in Rows, Day(m, i) \in Nat,
         charts[m] \in Seq(DailyStats)
  PROVE  LET new == PushDailyStats(m, i)
             old == charts[m]
         IN  /\ Len(old) \in Nat /\ DOMAIN old = 1 .. Len(old) /\ DOMAIN new = 1 .. Len(new)
             /\ \/ /\ Len(old) >= 1 /\ old[1].date = Day(m, i)
                   /\ Len(new) = Len(old)
                   /\ new[1] = [date |-> Day(m, i), comuni |-> old[1].comuni + 1,
                                population |-> old[1].population + comuni[i].population]
                   /\ \A k \in 2 .. Len(old) : new[k] = old[k]
                \/ /\ Len(old) = 0 \/ old[1].date # Day(m, i)
                   /\ Len(new) = Len(old) + 1
                   /\ new[1] = NewEntry(m, i)
                   /\ \A k \in 2 .. Len(old) + 1 : new[k] = old[k - 1]
<1> DEFINE old == charts[m]
           new == PushDailyStats(m, i)
           e == NewEntry(m, i)
           top == [date |-> Day(m, i), comuni |-> old[1].comuni + 1,
                   population |-> old[1].population + comuni[i].population]
<1>1. /\ Len(old) \in Nat /\ DOMAIN old = 1 .. Len(old)
      /\ old # << >> <=> Len(old) >= 1
      /\ old # << >> => Head(old) = old[1]
  OBVIOUS
<1>2. new \in Seq(DailyStats)
  BY PushResult DEF Rows
<1>3. CASE old # << >> /\ Head(old).date = Day(m, i)
  <2>1. new = [old EXCEPT ![1] = top]
    BY <1>3 DEF PushDailyStats
  <2>2. Len(new) = Len(old) /\ \A k \in 1 .. Len(old) : new[k] = IF k = 1 THEN top ELSE old[k]
    BY <1>1, <1>3, <2>1
  <2> QED
    BY <1>1, <1>2, <1>3, <2>2
<1>4. CASE ~(old # << >> /\ Head(old).date = Day(m, i))
  <2>1. new = <<e>> \o old
    BY <1>4 DEF PushDailyStats
  <2>2. /\ Len(<<e>> \o old) = Len(old) + 1
        /\ (<<e>> \o old)[1] = e
        /\ \A k \in 2 .. Len(old) + 1 : (<<e>> \o old)[k] = old[k - 1]
    BY <1>1
  <2>3. Len(old) = 0 \/ old[1].date # Day(m, i)
    BY <1>1, <1>4
  <2> QED
    BY <1>1, <1>2, <2>1, <2>2, <2>3
<1> QED
  BY <1>3, <1>4

OfDay(S, m, d) == {j \in S : Day(m, j) = d}

\* The entries of a chart, one for each day, count the rows of S.
Charted(chart, S, m) ==
  /\ \A j \in S : \E k \in DOMAIN chart : chart[k].date = Day(m, j)
  /\ \A k \in DOMAIN chart : \E j \in S : chart[k].date = Day(m, j)
  /\ \A k \in DOMAIN chart : EntrySums(chart[k]) = SumsOf(OfDay(S, m, chart[k].date))

(***************************************************************************)
(* A pushed comune of the top's day is counted in the top; one of an       *)
(* earlier day is the only one of its day, whose entry is the new top.     *)
(***************************************************************************)
LEMMA PushCounts ==
  ASSUME comuni \in Inputs, NEW m \in Migrations, NEW i \in Rows, Day(m, i) \in Nat,
         charts[m] \in Seq(DailyStats), ChartsAscend,
         charts[m] # << >> => Day(m, i) <= charts[m][1].date,
         NEW S \in SUBSET Rows, i \notin S, Charted(charts[m], S, m)
  PROVE  Charted(PushDailyStats(m, i), S \cup {i}, m)
<1> DEFINE old == charts[m]
           new == PushDailyStats(m, i)
           T == S \cup {i}
<1>0. comuni[i].population \in Nat
  BY RowsAre DEF Rows
<1>1. /\ Len(old) \in Nat /\ DOMAIN old = 1 .. Len(old) /\ DOMAIN new = 1 .. Len(new)
      /\ \A k \in 1 .. Len(old) : old[k].date \in Nat /\ old[k].comuni \in Nat
                                  /\ old[k].population \in Nat
      /\ \A k \in 1 .. Len(old) : k > 1 => old[1].date < old[k].date
  <2>1. \A k \in 1 .. Len(old) : old[k] \in DailyStats
    OBVIOUS
  <2>2. \A k \in 1 .. Len(old) : old[k].date \in Nat /\ old[k].comuni \in Nat
                                 /\ old[k].population \in Nat
    BY <2>1, StatFields
  <2> QED
    BY <2>2, PushEntries DEF ChartsAscend
<1>2. CASE /\ Len(old) >= 1 /\ old[1].date = Day(m, i)
           /\ Len(new) = Len(old)
           /\ new[1] = [date |-> Day(m, i), comuni |-> old[1].comuni + 1,
                        population |-> old[1].population + comuni[i].population]
           /\ \A k \in 2 .. Len(old) : new[k] = old[k]
  <2>1. \A k \in 1 .. Len(old) : new[k].date = old[k].date
    BY <1>1, <1>2
  <2>2. \A j \in T : \E k \in DOMAIN new : new[k].date = Day(m, j)
    <3>1. ASSUME NEW j \in S PROVE \E k \in DOMAIN new : new[k].date = Day(m, j)
      BY <1>1, <1>2, <2>1 DEF Charted
    <3>2. 1 \in DOMAIN new /\ new[1].date = Day(m, i)
      BY <1>1, <1>2
    <3> HIDE DEF new
    <3> QED
      BY <3>1, <3>2
  <2>3. \A k \in DOMAIN new : \E j \in T : new[k].date = Day(m, j)
    BY <1>1, <1>2, <2>1 DEF Charted
  <2>4. ASSUME NEW k \in DOMAIN new
        PROVE  EntrySums(new[k]) = SumsOf(OfDay(T, m, new[k].date))
    <3>1. k \in 1 .. Len(old) /\ EntrySums(old[k]) = SumsOf(OfDay(S, m, old[k].date))
      BY <1>1, <1>2, <2>4 DEF Charted
    <3>2. CASE k = 1
      <4>1. OfDay(T, m, new[k].date) = OfDay(S, m, old[1].date) \cup {i}
        BY <1>2, <3>2 DEF OfDay
      <4>2. SumsOf(OfDay(T, m, new[k].date)) = Plus(SumsOf(OfDay(S, m, old[1].date)), i)
        <5>1. OfDay(S, m, old[1].date) \in SUBSET Rows /\ i \notin OfDay(S, m, old[1].date)
          BY DEF OfDay
        <5> QED
          BY <4>1, <5>1, SumsOfOneMore
      <4>3. EntrySums(new[1]) = Plus(EntrySums(old[1]), i)
        BY <1>2 DEF EntrySums, Plus
      <4> QED
        BY <3>1, <3>2, <4>2, <4>3
    <3>3. CASE k # 1
      <4>1. k \in 2 .. Len(old)
        BY <1>1, <3>1, <3>3
      <4>2. new[k] = old[k] /\ old[k].date # Day(m, i)
        BY <1>1, <1>2, <4>1
      <4>3. OfDay(T, m, new[k].date) = OfDay(S, m, old[k].date)
        BY <4>2 DEF OfDay
      <4> QED
        BY <3>1, <4>2, <4>3
    <3> QED
      BY <3>2, <3>3
  <2> QED
    BY <2>2, <2>3, <2>4 DEF Charted
<1>3. CASE /\ Len(old) = 0 \/ old[1].date # Day(m, i)
           /\ Len(new) = Len(old) + 1
           /\ new[1] = NewEntry(m, i)
           /\ \A k \in 2 .. Len(old) + 1 : new[k] = old[k - 1]
  <2>1. \A k \in 1 .. Len(old) : old[k].date # Day(m, i)
    <3>1. ASSUME NEW k \in 1 .. Len(old) PROVE old[k].date # Day(m, i)
      <4>1. Len(old) >= 1 /\ old # << >>
        BY <1>1, <3>1
      <4>2. Day(m, i) < old[1].date
        BY <1>1, <1>3, <4>1
      <4>3. old[1].date <= old[k].date
        BY <1>1, <3>1, <4>1
      <4> QED
        BY <1>1, <3>1, <4>1, <4>2, <4>3
    <3> QED
      BY <3>1
  <2>2. new[1].date = Day(m, i) /\ 1 \in DOMAIN new
    BY <1>1, <1>3 DEF NewEntry
  <2>3. \A k \in 1 .. Len(old) : k + 1 \in DOMAIN new /\ new[k + 1] = old[k]
    BY <1>1, <1>3
  <2>4. \A k \in DOMAIN new : k # 1 => k - 1 \in DOMAIN old /\ new[k] = old[k - 1]
    BY <1>1, <1>3
  <2>5. \A j \in T : \E k \in DOMAIN new : new[k].date = Day(m, j)
    <3>1. ASSUME NEW j \in S PROVE \E k \in DOMAIN new : new[k].date = Day(m, j)
      <4>1. PICK k \in DOMAIN old : old[k].date = Day(m, j)
        BY <3>1 DEF Charted
      <4>2. k + 1 \in DOMAIN new /\ new[k + 1].date = Day(m, j)
        BY <1>1, <2>3, <4>1
      <4> HIDE DEF new
      <4> QED
        BY <4>2
    <3> HIDE DEF new
    <3> QED
      BY <2>2, <3>1
  <2>6. \A k \in DOMAIN new : \E j \in T : new[k].date = Day(m, j)
    BY <2>2, <2>4 DEF Charted
  <2>7. ASSUME NEW k \in DOMAIN new
        PROVE  EntrySums(new[k]) = SumsOf(OfDay(T, m, new[k].date))
    <3>1. CASE k = 1
      <4>1. OfDay(S, m, Day(m, i)) = {}
        BY <1>1, <2>1 DEF OfDay, Charted
      <4>2. OfDay(T, m, new[1].date) = {} \cup {i}
        BY <2>2, <4>1 DEF OfDay
      <4>3. SumsOf(OfDay(T, m, new[1].date)) = Plus(Nothing, i)
        BY <4>2, SumsOfOneMore, SumsOfNone
      <4>4. EntrySums(NewEntry(m, i)) = Plus(Nothing, i)
        BY <1>0 DEF EntrySums, NewEntry, Plus, Nothing
      <4> QED
        BY <1>3, <3>1, <4>3, <4>4
    <3>2. CASE k # 1
      <4>1. k - 1 \in DOMAIN old /\ new[k] = old[k - 1]
        BY <2>4, <2>7, <3>2
      <4>2. EntrySums(old[k - 1]) = SumsOf(OfDay(S, m, old[k - 1].date))
        BY <4>1 DEF Charted
      <4>3. OfDay(T, m, new[k].date) = OfDay(S, m, old[k - 1].date)
        BY <1>1, <2>1, <4>1 DEF OfDay
      <4> QED
        BY <4>1, <4>2, <4>3
    <3> QED
      BY <3>1, <3>2
  <2> QED
    BY <2>5, <2>6, <2>7 DEF Charted
<1> QED
  BY <1>2, <1>3, PushEntries

(***************************************************************************)
(* Counting a comune of a fornitore adds one to the total of its status.   *)
(***************************************************************************)
StatTotal(s, t) == SumOver([f \in DOMAIN s |-> s[f][t]], DOMAIN s)

LEMMA StatCounted ==
  ASSUME IsFiniteSet(DOMAIN stats),
         \A f \in DOMAIN stats : stats[f] \in [Statuses -> Nat],
         NEW key, NEW status \in Statuses, NEW t \in Statuses
  PROVE  LET new == UpdateFornitoreStat(key, status)
         IN  /\ IsFiniteSet(DOMAIN new)
             /\ StatTotal(new, t) = StatTotal(stats, t) + (IF t = status THEN 1 ELSE 0)
<1> DEFINE D == DOMAIN stats
           new == UpdateFornitoreStat(key, status)
           old == IF key \in D THEN stats[key] ELSE [x \in Statuses |-> 0]
           c == [f \in D |-> stats[f][t]]
           cc == [f \in D \cup {key} |-> new[f][t]]
           d == IF t = status THEN 1 ELSE 0
<1>1. DOMAIN new = D \cup {key}
  BY DEF UpdateFornitoreStat
<1>2. IsFiniteSet(DOMAIN new)
  BY <1>1, FS_AddElement
<1>3. \A f \in D \ {key} : new[f] = stats[f]
  BY DEF UpdateFornitoreStat
<1>4. new[key] = [old EXCEPT ![status] = @ + 1]
  BY DEF UpdateFornitoreStat
<1>5. old \in [Statuses -> Nat]
  OBVIOUS
<1>6. new[key][t] = old[t] + d
  BY <1>4, <1>5
<1>7. old[t] = IF key \in D THEN c[key] ELSE 0
  OBVIOUS
<1>8. SumOf(cc, D \cup {key}) = SumOf(c, D) + d
  <2>1. \A f \in D \ {key} : cc[f] = c[f]
    BY <1>3
  <2>2. cc[key] = (IF key \in D THEN c[key] ELSE 0) + d
    BY <1>6, <1>7
  <2>3. d \in Nat /\ \A f \in D : c[f] \in Nat
    OBVIOUS
  <2> HIDE DEF c, cc, d, D
  <2> QED
    BY <2>1, <2>2, <2>3, SumBump DEF D
<1>9. StatTotal(new, t) = SumOf(cc, D \cup {key}) /\ StatTotal(stats, t) = SumOf(c, D)
  BY <1>1, SumOverIsSum DEF StatTotal
<1> QED
  BY <1>2, <1>8, <1>9
(***************************************************************************)
(* A step that finishes row i of status s, popped or taken off the list.   *)
(***************************************************************************)
Finishes(s, i) ==
  /\ comuni' = comuni /\ Seen' = Seen
  /\ i \in Waiting(s)
  /\ \A t \in Statuses : Waiting(t)' = IF t = s THEN Waiting(t) \ {i} ELSE Waiting(t)

LEMMA FinishedGrows ==
  ASSUME IInv, Counts, NEW s \in Statuses, NEW i, Finishes(s, i)
  PROVE  /\ comuni \in Inputs
         /\ i \in Rows /\ i \notin Finished(s)
         /\ \A t \in Statuses : /\ SeenOf(t)' = SeenOf(t) /\ Finished(t) \in SUBSET Rows
                                /\ Waiting(t)' \subseteq SeenOf(t)'
                                /\ Finished(t)' = IF t = s THEN Finished(t) \cup {i}
                                                  ELSE Finished(t)
<1>1. comuni \in Inputs
  BY DEF IInv, TypeInv, TypeOK
<1>2. \A t : SeenOf(t)' = SeenOf(t)
  BY DEF Finishes, SeenOf, MigrationOf, KindOf
<1>3. \A t \in Statuses : Waiting(t) \subseteq SeenOf(t)
  BY DEF Counts, Placement
<1>4. \A t \in Statuses : SeenOf(t) \subseteq Rows
  BY <1>1, RowsAreFinite DEF SeenOf, Seen, IInv, TypeInv, TypeOK, Counts, Placement
<1> QED
  BY <1>1, <1>2, <1>3, <1>4 DEF Finished, Finishes

LEMMA StatsGrow ==
  ASSUME IInv, Counts, NEW s \in Statuses, NEW i, Finishes(s, i),
         stats' = UpdateFornitoreStat(comuni[i].fornitore, s),
         features' = features \cup {i}
  PROVE  StatsAddUp' /\ Mapped'
<1>1. IsFiniteSet(DOMAIN stats) /\ \A t \in Statuses : StatTotal(stats, t) = Cardinality(Finished(t))
  BY DEF Counts, StatsAddUp, StatTotal
<1>2. \A f \in DOMAIN stats : stats[f] \in [Statuses -> Nat]
  BY DEF IInv, TypeInv, TypeOK
<1>3. ASSUME NEW t \in Statuses
      PROVE  IsFiniteSet(DOMAIN stats') /\ StatTotal(stats', t) = Cardinality(Finished(t)')
  <2>1. /\ IsFiniteSet(DOMAIN stats')
        /\ StatTotal(stats', t) = StatTotal(stats, t) + (IF t = s THEN 1 ELSE 0)
    BY <1>1, <1>2, <1>3, StatCounted
  <2>2. Finished(t)' = IF t = s THEN Finished(t) \cup {i} ELSE Finished(t)
    BY <1>3, FinishedGrows
  <2>3. Cardinality(Finished(t)) \in Nat
    BY <1>3, FinishedGrows, SumsType
  <2>4. t = s => Cardinality(Finished(t) \cup {i}) = Cardinality(Finished(t)) + 1
    BY FinishedGrows, SumsOfOneMore
  <2>5. StatTotal(stats, t) = Cardinality(Finished(t))
    BY <1>1, <1>3
  <2> QED
    BY <2>1, <2>2, <2>3, <2>4, <2>5
<1>4. StatsAddUp'
  <2>1. IsFiniteSet(DOMAIN stats')
    BY <1>3
  <2> QED
    BY <2>1, <1>3 DEF StatsAddUp, StatTotal
<1>5. Mapped'
  <2>1. features = UNION {Finished(t) : t \in Statuses}
    BY DEF Counts, Mapped
  <2>2. UNION {Finished(t)' : t \in Statuses} = (UNION {Finished(t) : t \in Statuses}) \cup {i}
    BY FinishedGrows
  <2> QED
    BY <2>1, <2>2 DEF Mapped
<1> QED
  BY <1>4, <1>5

\* Until the history is summed up, an entry counts the rows of its day.
LEMMA ChartsAsDays ==
  ASSUME \A k : ~Reached(k)
  PROVE  DaysCharted /\ EntriesAddUp
           <=> \A m \in Migrations : Charted(charts[m], Finished(m), m)
<1>1. \A k : \A m \in Migrations : EntryCounts(m, k) = OfDay(Finished(m), m, charts[m][k].date)
  BY DEF EntryCounts, OfDay
<1> QED
  BY <1>1 DEF DaysCharted, EntriesAddUp, Charted

LEMMA PopCounts ==
  ASSUME IInv, Counts, NEW m \in Migrations, Pop(m)
  PROVE  Counts'
<1>1. PICK i \in Latest(m) :
        /\ heap' = [heap EXCEPT ![m] = @ \ {i}]
        /\ summaries' = [summaries EXCEPT ![m] = Plus(@, i)]
        /\ charts' = [charts EXCEPT ![m] = PushDailyStats(m, i)]
        /\ stats' = UpdateFornitoreStat(comuni[i].fornitore, m)
        /\ features' = features \cup {i}
  BY DEF Pop
<1>2. pc = m /\ pc' = pc /\ UNCHANGED <<comuni, next, inattivi, regions, provinces>>
  BY DEF Pop
<1>3. i \in heap[m] /\ i \in DOMAIN comuni /\ Day(m, i) \in Nat /\ comuni \in Inputs
  BY DEF Latest, IInv, TypeInv, TypeOK, Dated, Rows
<1>4. pc \notin {"sort", "inattivi", "history", "done"} /\ m \in Statuses
  BY <1>2, StatusNames DEF Migrations
<1>5. \A n \in Migrations : heap'[n] = IF n = m THEN heap[n] \ {i} ELSE heap[n]
  BY <1>1 DEF IInv, TypeInv, TypeOK
<1>6. Finishes(m, i)
  <2>1. Seen' = Seen
    BY <1>2, <1>4 DEF Seen, Rows
  <2>2. \A t \in Statuses : Waiting(t)' = IF t = m THEN Waiting(t) \ {i} ELSE Waiting(t)
    BY <1>2, <1>5, StatusNames DEF Waiting
  <2>3. i \in Waiting(m)
    BY <1>3, StatusNames DEF Waiting
  <2> QED
    BY <1>2, <2>1, <2>2, <2>3 DEF Finishes
<1>7. /\ i \in Rows /\ i \notin Finished(m)
      /\ \A t \in Statuses : /\ SeenOf(t)' = SeenOf(t) /\ Finished(t) \in SUBSET Rows
                             /\ Waiting(t)' \subseteq SeenOf(t)'
                             /\ Finished(t)' = IF t = m THEN Finished(t) \cup {i}
                                               ELSE Finished(t)
  BY <1>4, <1>6, FinishedGrows
<1>8. Placement'
  <2>1. pc' \notin {"sort", "presubentro"} => heap'["presubentro"] = {}
    BY <1>2, <1>4, <1>5 DEF Counts, Placement, Migrations
  <2> QED
    BY <1>2, <1>4, <1>7, <2>1 DEF Placement
<1>9. MapsAddUp'
  BY <1>2, <1>7, StatusNames, MapsAlone
<1>10. SummariesAddUp'
  <2>1. ASSUME NEW n \in Migrations PROVE summaries'[n] = SumsOf(Finished(n))'
    <3>1. summaries[n] = SumsOf(Finished(n)) /\ summaries \in [Migrations -> Sums]
      BY DEF Counts, SummariesAddUp, IInv, TypeInv, TypeOK
    <3>2. summaries'[n] = IF n = m THEN Plus(summaries[n], i) ELSE summaries[n]
      BY <1>1, <3>1
    <3>3. SumsOf(Finished(n))' = SumsOf(IF n = m THEN Finished(n) \cup {i} ELSE Finished(n))
      BY <1>2, <1>7, SumsAlone, StatusNames
    <3>4. n = m => SumsOf(Finished(n) \cup {i}) = Plus(SumsOf(Finished(n)), i)
      BY <1>3, <1>4, <1>7, SumsOfOneMore
    <3> QED
      BY <3>1, <3>2, <3>3, <3>4
  <2> QED
    BY <2>1 DEF SummariesAddUp
<1>11. StatsAddUp' /\ Mapped'
  BY <1>1, <1>4, <1>6, StatsGrow
<1>12. DaysCharted' /\ EntriesAddUp'
  <2>1. (\A k : ~Reached(k)) /\ (\A k : ~Reached(k)')
    BY <1>2, <1>4 DEF Reached
  <2>2. \A n \in Migrations : Charted(charts[n], Finished(n), n)
    BY <2>1, ChartsAsDays DEF Counts
  <2>3. \A n \in Migrations : charts'[n] = IF n = m THEN PushDailyStats(n, i) ELSE charts[n]
    BY <1>1 DEF IInv, TypeInv, TypeOK
  <2>4. Charted(PushDailyStats(m, i), Finished(m) \cup {i}, m)
    <3>1. charts[m] \in Seq(DailyStats) /\ ChartsAscend
      BY DEF IInv, TypeInv, TypeOK, DailyStats
    <3>2. charts[m] # << >> => Day(m, i) <= charts[m][1].date
      BY <1>3 DEF IInv, BelowTop
    <3> QED
      BY <1>3, <1>4, <1>7, <2>2, <3>1, <3>2, PushCounts
  <2>5. ASSUME NEW n \in Migrations PROVE Charted(charts[n], Finished(n), n)'
    <3>1. Charted(charts'[n], Finished(n)', n)
      BY <1>7, <2>2, <2>3, <2>4, StatusNames
    <3>2. \A S, d : OfDay(S, n, d)' = OfDay(S, n, d)
      BY <1>2 DEF OfDay, Day
    <3>3. \A S, d : SumsOf(OfDay(S, n, d))' = SumsOf(OfDay(S, n, d))
      BY <1>2, <3>2, SumsAlone
    <3>4. \A j : Day(n, j)' = Day(n, j)
      BY <1>2 DEF Day
    <3> QED
      BY <3>1, <3>3, <3>4 DEF Charted, EntrySums
  <2>6. \A k : \A n \in Migrations : EntryCounts(n, k)' = OfDay(Finished(n), n, charts[n][k].date)'
    BY <2>1 DEF EntryCounts, OfDay
  <2> QED
    BY <2>5, <2>6 DEF DaysCharted, EntriesAddUp, Charted
<1> QED
  BY <1>8, <1>9, <1>10, <1>11, <1>12 DEF Counts

LEMMA AddInattivoCounts ==
  ASSUME IInv, Counts, AddInattivo
  PROVE  Counts'
<1>1. PICK i \in inattivi :
        /\ inattivi' = inattivi \ {i}
        /\ stats' = UpdateFornitoreStat(comuni[i].fornitore, "inattivo")
        /\ features' = features \cup {i}
  BY DEF AddInattivo
<1>2. /\ pc = "inattivi" /\ pc' = pc
      /\ UNCHANGED <<comuni, next, heap, regions, provinces, summaries, charts>>
  BY DEF AddInattivo
<1>3. "inattivo" \in Statuses /\ "inattivo" \notin Migrations
  BY DEF Statuses, Migrations
<1>4. Finishes("inattivo", i)
  BY <1>1, <1>2, StatusNames DEF Finishes, Seen, Waiting, Rows
<1>5. \A t \in Statuses : /\ SeenOf(t)' = SeenOf(t)
                          /\ Waiting(t)' \subseteq SeenOf(t)'
                          /\ t # "inattivo" => Finished(t)' = Finished(t)
  BY <1>3, <1>4, FinishedGrows
<1>6. \A m \in Migrations : SeenOf(m)' = SeenOf(m) /\ Finished(m)' = Finished(m)
  BY <1>5, StatusNames
<1>7. Placement'
  BY <1>2, <1>5 DEF Counts, Placement
<1>8. MapsAddUp'
  BY <1>2, <1>6, MapsAlone
<1>9. SummariesAddUp'
  BY <1>2, <1>6, SumsAlone DEF Counts, SummariesAddUp
<1>10. StatsAddUp' /\ Mapped'
  BY <1>1, <1>3, <1>4, StatsGrow
<1>11. DaysCharted' /\ EntriesAddUp'
  <2>1. \A m, j : Day(m, j)' = Day(m, j)
    BY <1>2 DEF Day
  <2>2. \A k : Reached(k)' <=> Reached(k)
    BY <1>2 DEF Reached
  <2>3. \A k : \A m \in Migrations : EntryCounts(m, k)' = EntryCounts(m, k)
    BY <1>2, <1>6, <2>1, <2>2 DEF EntryCounts
  <2>4. \A k : \A m \in Migrations : SumsOf(EntryCounts(m, k))' = SumsOf(EntryCounts(m, k))
    BY <1>2, <2>3, SumsAlone
  <2> QED
    BY <1>2, <1>6, <2>1, <2>4 DEF Counts, DaysCharted, EntriesAddUp
<1> QED
  BY <1>7, <1>8, <1>9, <1>10, <1>11 DEF Counts
LEMMA SummedEntries ==
  ASSUME next \in Nat, NEW s \in Seq(DailyStats), NEW k \in 1 .. Len(s)
  PROVE  EntrySums(Summed(s)[k]) =
           IF k = next /\ k # 1
           THEN [comuni |-> s[k].comuni + s[k - 1].comuni,
                 population |-> s[k].population + s[k - 1].population]
           ELSE EntrySums(s[k])
<1>1. CASE next \notin 2 .. Len(s)
  BY <1>1 DEF Summed
<1>2. CASE next \in 2 .. Len(s)
  <2> DEFINE e == [date |-> s[next].date, comuni |-> s[next].comuni + s[next - 1].comuni,
                   population |-> s[next].population + s[next - 1].population]
  <2>1. Summed(s) = [s EXCEPT ![next] = e]
    BY <1>2 DEF Summed
  <2>2. Summed(s)[k] = IF k = next THEN e ELSE s[k]
    BY <1>2, <2>1
  <2>3. k = next => k # 1
    BY <1>2
  <2> QED
    BY <2>2, <2>3 DEF EntrySums
<1> QED
  BY <1>1, <1>2

(***************************************************************************)
(* The entry summed up next counted the rows of its day, the one before it *)
(* counts those of all the days before: no day lies between them.          *)
(***************************************************************************)
LEMMA NextEntryCounts ==
  ASSUME IInv, Counts, pc = "history", NEW m \in Migrations, NEW k \in DOMAIN charts[m],
         k = next
  PROVE  EntrySums(Summed(charts[m])[k])
           = SumsOf({i \in Finished(m) : Day(m, i) <= charts[m][k].date})
<1> DEFINE s == charts[m]
           F == Finished(m)
           upTo == {i \in F : Day(m, i) <= s[k].date}
           same == {i \in F : Day(m, i) = s[k].date}
           before == {i \in F : Day(m, i) <= s[k - 1].date}
<1>1. /\ s \in Seq(DailyStats) /\ Len(s) \in Nat /\ DOMAIN s = 1 .. Len(s)
      /\ next \in Nat /\ comuni \in Inputs
  BY DEF IInv, TypeInv, TypeOK, DailyStats
<1>2. \A a \in DOMAIN s : s[a].date \in Nat
  BY <1>1, StatFields
<1>3. \A a, b \in DOMAIN s : a < b => s[a].date < s[b].date
  BY DEF IInv, ChartsAscend
<1>4. \A i \in F : \E a \in DOMAIN s : s[a].date = Day(m, i)
  BY DEF Counts, DaysCharted
<1>5. F \in SUBSET Rows
  <2>1. \A t \in Statuses : SeenOf(t) \subseteq Rows
    BY DEF SeenOf, Seen
  <2> QED
    BY <2>1, StatusNames DEF Finished
<1>6. EntrySums(s[k]) = SumsOf(same)
  <2>1. EntryCounts(m, k) = same
    <3>1. ~Reached(k)
      BY <1>1 DEF Reached
    <3> QED
      BY <3>1 DEF EntryCounts
  <2> QED
    BY <2>1 DEF Counts, EntriesAddUp
<1>7. CASE k = 1
  <2>1. \A i \in F : s[1].date <= Day(m, i)
    <3>1. ASSUME NEW i \in F PROVE s[1].date <= Day(m, i)
      <4>1. PICK a \in DOMAIN s : s[a].date = Day(m, i)
        BY <1>4, <3>1
      <4>2. a = 1 \/ (1 < a /\ s[1].date < s[a].date)
        BY <1>1, <1>3, <1>7, <4>1
      <4> QED
        BY <1>2, <1>7, <4>1, <4>2
    <3> QED
      BY <3>1
  <2>2. upTo = same
    <3>1. \A i \in F : Day(m, i) \in Nat
      BY <1>2, <1>4
    <3> QED
      BY <1>2, <1>7, <2>1, <3>1
  <2> QED
    BY <1>1, <1>6, <1>7, <2>2, SummedEntries
<1>8. CASE k # 1
  <2>1. k - 1 \in DOMAIN s /\ k \in 1 .. Len(s)
    BY <1>1, <1>8
  <2>2. EntrySums(s[k - 1]) = SumsOf(before)
    <3>1. Reached(k - 1)
      BY <1>1 DEF Reached
    <3> QED
      BY <2>1, <3>1 DEF Counts, EntriesAddUp, EntryCounts
  <2>3. upTo = same \cup before /\ same \cap before = {}
    <3>1. s[k - 1].date < s[k].date
      BY <1>1, <1>3, <2>1
    <3>2. ASSUME NEW i \in F
          PROVE  /\ Day(m, i) <= s[k].date => Day(m, i) = s[k].date \/ Day(m, i) <= s[k - 1].date
                 /\ Day(m, i) \in Nat
      <4>1. PICK a \in DOMAIN s : s[a].date = Day(m, i)
        BY <1>4, <3>2
      <4>2. a = k \/ k < a \/ a = k - 1 \/ a < k - 1
        BY <1>1, <2>1, <4>1
      <4>3. k < a => s[k].date < s[a].date
        BY <1>3, <4>1
      <4>4. a < k - 1 => s[a].date < s[k - 1].date
        BY <1>3, <2>1, <4>1
      <4> QED
        BY <1>2, <2>1, <4>1, <4>2, <4>3, <4>4
    <3> QED
      BY <1>2, <2>1, <3>1, <3>2
  <2>4. /\ Cardinality(upTo) = Cardinality(same) + Cardinality(before)
        /\ PopulationOf(upTo) = PopulationOf(same) + PopulationOf(before)
    <3>1. same \in SUBSET Rows /\ before \in SUBSET Rows
      BY <1>5
    <3> HIDE DEF same, before, upTo
    <3> QED
      BY <1>1, <2>3, <3>1, SumsOfUnion
  <2>5. /\ s[k].comuni = Cardinality(same) /\ s[k].population = PopulationOf(same)
        /\ s[k - 1].comuni = Cardinality(before) /\ s[k - 1].population = PopulationOf(before)
    <3> HIDE DEF same, before
    <3> QED
      BY <1>6, <2>2 DEF EntrySums, SumsOf
  <2>6. EntrySums(Summed(s)[k]) = [comuni |-> s[k].comuni + s[k - 1].comuni,
                                   population |-> s[k].population + s[k - 1].population]
    BY <1>1, <1>8, <2>1, SummedEntries
  <2> HIDE DEF same, before, upTo
  <2>7. EntrySums(Summed(s)[k]) = SumsOf(upTo)
    BY <2>4, <2>5, <2>6 DEF SumsOf
  <2> QED
    BY <2>7 DEF upTo
<1> QED
  BY <1>7, <1>8

LEMMA HistoryCounts ==
  ASSUME IInv, Counts, UpdateHistoricalSequence
  PROVE  Counts'
<1>1. /\ pc = "history" /\ pc' = pc /\ next' = next + 1
      /\ UNCHANGED <<comuni, heap, inattivi, regions, provinces, summaries, stats, features>>
      /\ \A m \in Migrations : charts'[m] = Summed(charts[m])
  BY DEF UpdateHistoricalSequence
<1>2. charts \in [Migrations -> Seq(DailyStats)] /\ next \in Nat
  BY DEF IInv, TypeInv, TypeOK, DailyStats
<1>3. \A m \in Migrations :
        /\ DOMAIN charts'[m] = DOMAIN charts[m]
        /\ DOMAIN charts[m] = 1 .. Len(charts[m])
        /\ \A k \in DOMAIN charts[m] : charts'[m][k].date = charts[m][k].date
  BY <1>1, <1>2, SummedResult
<1>4. \A t : SeenOf(t)' = SeenOf(t) /\ Waiting(t)' = Waiting(t) /\ Finished(t)' = Finished(t)
  BY <1>1 DEF SeenOf, Waiting, Finished, MigrationOf, KindOf, Seen, Rows
<1>5. Placement'
  BY <1>1, <1>4 DEF Counts, Placement
<1>6. MapsAddUp'
  BY <1>1, <1>4, MapsAlone
<1>7. SummariesAddUp'
  BY <1>1, <1>4, SumsAlone DEF Counts, SummariesAddUp
<1>8. StatsAddUp' /\ Mapped'
  <2>1. UNION {Finished(t)' : t \in Statuses} = UNION {Finished(t) : t \in Statuses}
    BY <1>4
  <2> QED
    <3>1. StatsAddUp'
      BY <1>1, <1>4 DEF Counts, StatsAddUp
    <3>2. Mapped'
      BY <1>1, <2>1 DEF Counts, Mapped
    <3> QED
      BY <3>1, <3>2
<1>9. \A m, i : Day(m, i)' = Day(m, i)
  BY <1>1 DEF Day
<1>10. DaysCharted'
  <2>1. ASSUME NEW m \in Migrations
        PROVE  /\ \A i \in Finished(m) : \E k \in DOMAIN charts'[m] : charts'[m][k].date = Day(m, i)
               /\ \A k \in DOMAIN charts'[m] : \E i \in Finished(m) : charts'[m][k].date = Day(m, i)
    <3>1. /\ DOMAIN charts'[m] = DOMAIN charts[m]
          /\ \A k \in DOMAIN charts[m] : charts'[m][k].date = charts[m][k].date
      BY <1>3
    <3>2. /\ \A i \in Finished(m) : \E k \in DOMAIN charts[m] : charts[m][k].date = Day(m, i)
          /\ \A k \in DOMAIN charts[m] : \E i \in Finished(m) : charts[m][k].date = Day(m, i)
      BY DEF Counts, DaysCharted
    <3> QED
      BY <3>1, <3>2
  <2> QED
    BY <1>4, <1>9, <2>1 DEF DaysCharted
<1>11. ASSUME NEW m \in Migrations, NEW k \in DOMAIN charts'[m]
       PROVE  EntrySums(charts'[m][k]) = SumsOf(EntryCounts(m, k))'
  <2>1. k \in 1 .. Len(charts[m]) /\ k \in DOMAIN charts[m]
    BY <1>3, <1>11
  <2>2. Reached(k)' <=> Reached(k) \/ k = next
    BY <1>1, <1>2, <2>1 DEF Reached
  <2>3. charts[m] \in Seq(DailyStats)
    BY <1>2
  <2>4. charts'[m][k].date = charts[m][k].date
    BY <1>3, <2>1
  <2>5. CASE k = next
    <3> DEFINE upTo == {i \in Finished(m) : Day(m, i) <= charts[m][k].date}
    <3>1. EntryCounts(m, k)' = upTo
      BY <1>4, <1>9, <2>2, <2>4, <2>5 DEF EntryCounts
    <3>2. SumsOf(EntryCounts(m, k))' = SumsOf(upTo)
      BY <1>1, <3>1, SumsAlone
    <3>3. EntrySums(Summed(charts[m])[k]) = SumsOf(upTo)
      BY <1>1, <2>1, <2>5, NextEntryCounts
    <3> QED
      BY <1>1, <3>2, <3>3
  <2>6. CASE k # next
    <3>1. EntryCounts(m, k)' = EntryCounts(m, k)
      BY <1>4, <1>9, <2>2, <2>4, <2>6 DEF EntryCounts
    <3>2. SumsOf(EntryCounts(m, k))' = SumsOf(EntryCounts(m, k))
      BY <1>1, <3>1, SumsAlone
    <3>3. EntrySums(Summed(charts[m])[k]) = EntrySums(charts[m][k])
      BY <1>2, <2>1, <2>3, <2>6, SummedEntries
    <3> QED
      BY <1>1, <2>1, <3>2, <3>3 DEF Counts, EntriesAddUp
  <2> QED
    BY <2>5, <2>6
<1>12. EntriesAddUp'
  BY <1>11 DEF EntriesAddUp, EntrySums
<1> QED
  BY <1>5, <1>6, <1>7, <1>8, <1>10, <1>12 DEF Counts
-----------------------------------------------------------------------------
LEMMA CountsInit == Init => Counts
<1> SUFFICES ASSUME Init PROVE Counts
  OBVIOUS
<1>1. DOMAIN << >> = {}
  OBVIOUS
<1>2. /\ pc = "sort" /\ next = 1 /\ comuni \in Inputs
      /\ \A m \in Migrations : heap[m] = {} /\ charts[m] = << >> /\ summaries[m] = Nothing
      /\ inattivi = {} /\ features = {}
      /\ regions = << >> /\ provinces = << >> /\ stats = << >>
  BY DEF Init
<1>3. Seen = {} /\ \A t \in Statuses : SeenOf(t) = {} /\ Waiting(t) = {} /\ Finished(t) = {}
  <2>1. Seen = {}
    BY <1>2 DEF Seen
  <2>2. \A t \in Statuses : Waiting(t) = {}
    BY <1>2, StatusNames DEF Waiting
  <2> QED
    BY <2>1, <2>2 DEF SeenOf, Finished
<1>4. Placement
  <2>1. next <= Len(comuni) + 1
    BY <1>2, RowsAreFinite
  <2>2. heap["presubentro"] = {} /\ heap["subentro"] = {}
    BY <1>2, StatusNames
  <2> QED
    BY <1>2, <1>3, <2>1, <2>2 DEF Placement
<1>5. \A m \in Migrations : SeenOf(m) = {} /\ Finished(m) = {}
  BY <1>3, StatusNames
<1>6. MapsAddUp
  <2>1. \A m : Total(<< >>, m) = Nothing
    BY <1>1, SumOverIsSum, SumEmpty DEF Total, Nothing
  <2>2. IsFiniteSet(DOMAIN << >>)
    BY <1>1, FS_EmptySet
  <2> QED
    BY <1>2, <1>5, <2>1, <2>2, SumsOfNone DEF MapsAddUp
<1>7. SummariesAddUp
  BY <1>2, <1>5, SumsOfNone DEF SummariesAddUp
<1>8. StatsAddUp
  <2>1. IsFiniteSet(DOMAIN stats) /\ DOMAIN stats = {} /\ Cardinality({}) = 0
    BY <1>1, <1>2, FS_EmptySet
  <2> QED
    BY <1>3, <2>1, SumOverIsSum, SumEmpty DEF StatsAddUp
<1>9. Mapped
  BY <1>2, <1>3 DEF Mapped
<1>10. DaysCharted /\ EntriesAddUp
  BY <1>1, <1>2, <1>5 DEF DaysCharted, EntriesAddUp
<1> QED
  BY <1>4, <1>6, <1>7, <1>8, <1>9, <1>10 DEF Counts

LEMMA CountsNext == IInv /\ Counts /\ [Next]_vars => Counts'
<1> SUFFICES ASSUME IInv, Counts, [Next]_vars PROVE Counts'
  OBVIOUS
<1>1. CASE Sort
  BY <1>1, SortCounts
<1>2. CASE SortInattivo
  BY <1>2, SortInattivoCounts
<1>3. CASE Sorted \/ Popped \/ Added \/ Updated
  <2>1. CASE Sorted
    BY <2>1, TurnCounts DEF Sorted
  <2>2. CASE Popped
    BY <2>2, TurnCounts DEF Popped
  <2>3. CASE Added
    BY <2>3, TurnCounts DEF Added
  <2>4. CASE Updated
    BY <2>4, TurnCounts DEF Updated
  <2> QED
    BY <1>3, <2>1, <2>2, <2>3, <2>4
<1>4. CASE \E m \in Migrations : Pop(m)
  BY <1>4, PopCounts
<1>5. CASE AddInattivo
  BY <1>5, AddInattivoCounts
<1>6. CASE UpdateHistoricalSequence
  BY <1>6, HistoryCounts
<1>7. CASE UNCHANGED vars
  <2>1. UNCHANGED <<comuni, pc, next, heap, inattivi, regions, provinces, summaries, charts,
                    stats, features>>
    BY <1>7 DEF vars
  <2>2. \A t : SeenOf(t)' = SeenOf(t) /\ Waiting(t)' = Waiting(t) /\ Finished(t)' = Finished(t)
    BY <2>1 DEF SeenOf, Waiting, Finished, MigrationOf, KindOf, Seen, Rows
  <2>3. Placement'
    BY <2>1, <2>2 DEF Counts, Placement
  <2> QED
    BY <2>1, <2>2, <2>3, MapsAlone, FiguresAlone DEF Counts, Reached
<1> QED
  BY <1>1, <1>2, <1>3, <1>4, <1>5, <1>6, <1>7 DEF Next

LEMMA CountsHold == Spec => [](IInv /\ Counts)
<1>1. Init => IInv /\ Counts
  BY InvInit, CountsInit
<1>2. IInv /\ Counts /\ [Next]_vars => (IInv /\ Counts)'
  BY InvNext, CountsNext
<1> QED
  BY <1>1, <1>2, PTL DEF Spec

\* In the end nothing waits: the rows finished are all those of their status.
LEMMA AllFinished ==
  ASSUME IInv, Counts, pc = "done"
  PROVE  /\ \A m \in Migrations : Finished(m) = Migrated(m)
         /\ Finished("inattivo") = Migrated(NULL)
         /\ \A k : Reached(k)
<1>1. \A t \in Statuses : Waiting(t) = {}
  BY StatusNames DEF Counts, Placement, Waiting
<1>2. \A t \in Statuses : Finished(t) = Migrated(KindOf(t))
  BY <1>1 DEF Finished, SeenOf, Seen, Migrated
<1> QED
  BY <1>2, StatusNames DEF Reached, Statuses

(***************************************************************************)
(* In the end each chart has an entry for each day of its migration, with  *)
(* the number and the population of all the comuni migrated up to it,      *)
(* whatever comuni are found and in whatever order the heaps give those of *)
(* one day (updateDailyStats and updateHistoricalSequence).                *)
(***************************************************************************)
THEOREM ChartsAreTheHistory == Spec => []ChartsAreHistory
<1>1. IInv /\ Counts => ChartsAreHistory
  <2> SUFFICES ASSUME IInv, Counts, pc = "done", NEW m \in Migrations
               PROVE  /\ {charts[m][i].date : i \in DOMAIN charts[m]}
                           = {Day(m, i) : i \in Migrated(m)}
                      /\ \A k \in DOMAIN charts[m] :
                           [comuni |-> charts[m][k].comuni,
                            population |-> charts[m][k].population]
                             = SumsOf({i \in Migrated(m) : Day(m, i) <= charts[m][k].date})
    BY DEF ChartsAreHistory
  <2>1. Finished(m) = Migrated(m) /\ \A k : Reached(k)
    BY AllFinished
  <2>2. {charts[m][i].date : i \in DOMAIN charts[m]} = {Day(m, i) : i \in Migrated(m)}
    <3>1. /\ \A i \in Finished(m) : \E k \in DOMAIN charts[m] : charts[m][k].date = Day(m, i)
          /\ \A k \in DOMAIN charts[m] : \E i \in Finished(m) : charts[m][k].date = Day(m, i)
      BY DEF Counts, DaysCharted
    <3> QED
      BY <2>1, <3>1
  <2>3. ASSUME NEW k \in DOMAIN charts[m]
        PROVE  EntrySums(charts[m][k])
                 = SumsOf({i \in Migrated(m) : Day(m, i) <= charts[m][k].date})
    <3>1. EntryCounts(m, k) = {i \in Migrated(m) : Day(m, i) <= charts[m][k].date}
      BY <2>1 DEF EntryCounts
    <3> QED
      BY <2>3, <3>1 DEF Counts, EntriesAddUp
  <2> QED
    BY <2>2, <2>3 DEF EntrySums
<1> QED
  BY <1>1, CountsHold, PTL

(***************************************************************************)
(* In the end the figures of the page agree, whatever comuni are found:    *)
(* the totals of the regions and of the provinces, the summary and the     *)
(* last entry of the chart of each migration; and the map and the          *)
(* fornitori have every comune (GetDashBoardData).                         *)
(***************************************************************************)
THEOREM FiguresAlwaysAgree == Spec => []FiguresAgree
<1>1. IInv /\ Counts => FiguresAgree
  <2> SUFFICES ASSUME IInv, Counts, pc = "done" PROVE FiguresAgree
    BY DEF FiguresAgree
  <2>1. /\ \A m \in Migrations : Finished(m) = Migrated(m)
        /\ Finished("inattivo") = Migrated(NULL)
        /\ \A k : Reached(k)
    BY AllFinished
  <2>2. \A m \in Migrations : summaries[m] = SumsOf(Finished(m))
    BY DEF Counts, SummariesAddUp
  <2>3. \A m \in Migrations : Total(regions, m) = summaries[m] /\ Total(provinces, m) = summaries[m]
    <3>1. \A m \in Migrations : SeenOf(m) = Finished(m)
      BY StatusNames DEF Finished, Counts, Placement, Waiting
    <3> QED
      BY <2>2, <3>1 DEF Counts, MapsAddUp
  <2>4. ASSUME NEW m \in Migrations
        PROVE  LET s == charts[m] IN
               IF s = << >> THEN summaries[m] = Nothing
               ELSE summaries[m] = [comuni |-> s[Len(s)].comuni,
                                    population |-> s[Len(s)].population]
    <3> DEFINE s == charts[m]
    <3>1. /\ s \in Seq(DailyStats) /\ Len(s) \in Nat /\ DOMAIN s = 1 .. Len(s)
          /\ \A k \in DOMAIN s : s[k].date \in Nat
      <4>1. s \in Seq(DailyStats)
        BY DEF IInv, TypeInv, TypeOK, DailyStats
      <4>2. \A k \in DOMAIN s : s[k] \in DailyStats
        BY <4>1
      <4> QED
        BY <4>1, <4>2, StatFields
    <3>2. \A i \in Finished(m) : \E k \in DOMAIN s : s[k].date = Day(m, i)
      BY DEF Counts, DaysCharted
    <3>3. CASE s = << >>
      <4>1. Finished(m) = {}
        BY <3>2, <3>3
      <4> QED
        BY <2>2, <3>3, <4>1, SumsOfNone
    <3>4. CASE s # << >>
      <4>1. Len(s) \in DOMAIN s
        BY <3>1, <3>4
      <4>2. ASSUME NEW i \in Finished(m) PROVE Day(m, i) <= s[Len(s)].date
        <5>1. PICK k \in DOMAIN s : s[k].date = Day(m, i)
          BY <3>2, <4>2
        <5>2. k = Len(s) \/ (k < Len(s) /\ s[k].date < s[Len(s)].date)
          BY <3>1, <4>1, <5>1 DEF IInv, ChartsAscend
        <5> QED
          BY <3>1, <4>1, <5>1, <5>2
      <4>3. EntryCounts(m, Len(s)) = Finished(m)
        BY <2>1, <4>2 DEF EntryCounts
      <4>4. EntrySums(s[Len(s)]) = SumsOf(Finished(m))
        BY <4>1, <4>3 DEF Counts, EntriesAddUp
      <4> QED
        BY <2>2, <3>4, <4>4 DEF EntrySums
    <3> QED
      BY <3>3, <3>4
  <2>5. features = Rows
    <3>1. features = UNION {Finished(t) : t \in Statuses}
      BY DEF Counts, Mapped
    <3>2. ASSUME NEW i \in Rows PROVE \E t \in Statuses : i \in Finished(t)
      <4>1. MigrationOf(comuni[i]) \in Migrations \cup {NULL}
        BY RowsAre DEF Rows, IInv, TypeInv, TypeOK
      <4>2. i \in Migrated(MigrationOf(comuni[i]))
        BY DEF Migrated
      <4> QED
        BY <2>1, <4>1, <4>2, StatusNames
    <3>3. features \subseteq Rows
      BY DEF IInv, TypeInv, TypeOK
    <3> QED
      BY <3>1, <3>2, <3>3
  <2>6. ASSUME NEW t \in Statuses
        PROVE  SumOver([f \in DOMAIN stats |-> stats[f][t]], DOMAIN stats)
                 = IF t = "inattivo" THEN Cardinality(Migrated(NULL)) ELSE summaries[t].comuni
    <3>1. SumOver([f \in DOMAIN stats |-> stats[f][t]], DOMAIN stats) = Cardinality(Finished(t))
      BY <2>6 DEF Counts, StatsAddUp
    <3>2. t # "inattivo" => summaries[t].comuni = Cardinality(Finished(t))
      BY <2>2, <2>6, StatusNames DEF SumsOf
    <3> QED
      BY <2>1, <3>1, <3>2
  <2> QED
    BY <2>3, <2>4, <2>5, <2>6 DEF FiguresAgree
<1> QED
  BY <1>1, CountsHold, PTL
=============================================================================
