------------------------------ MODULE Dashboard ------------------------------
(***************************************************************************)
(* GetDashBoardData of server/dashboard.go: the comuni found by a search   *)
(* become points on a map, totals, totals by region and by province,       *)
(* shares of each fornitore, and two charts with the comuni and the        *)
(* population of each day, summed up from the first.                       *)
(*                                                                         *)
(* The rows are put on two heaps, by day of takeover or of pre-takeover,   *)
(* and popped from the latest; each popped comune is pushed on top of its  *)
(* chart.  The figures of the same comune go thus through several maps and *)
(* sums, one step per loop here.                                           *)
(*                                                                         *)
(* Left out: the residents abroad, treated as the population is, the       *)
(* properties of the points, the names of the provinces, and the shares of *)
(* the fornitori, computed from their counts.                              *)
(***************************************************************************)
EXTENDS Integers, Sequences, FiniteSets, FiniteSetsExt

CONSTANTS
  Inputs,       \* what the search may find: sequences of rows
  NULL

Migrations == {"presubentro", "subentro"}

(***************************************************************************)
(* A row of the search: a comune, twice if it has two plans.  on: its days *)
(* of pre-takeover and of takeover.                                        *)
(***************************************************************************)
IsRow(r) ==
  /\ DOMAIN r = {"on", "population", "region", "province", "fornitore"}
  /\ r.on \in [Migrations -> Nat \cup {NULL}]
  /\ r.population \in Nat

ASSUME DashboardAssumption ==
  /\ NULL \notin Nat \cup Migrations
  /\ \A s \in Inputs : /\ Len(s) \in Nat /\ DOMAIN s = 1 .. Len(s)
                       /\ \A i \in DOMAIN s : IsRow(s[i])

VARIABLES
  comuni,       \* the rows
  pc, next,     \* the loop, and the row or chart entry it is at
  heap,         \* rows not popped yet, by migration
  inattivi,     \* rows with no migration
  regions,      \* AggrByRegion: sums of each region, by migration
  provinces,    \* AggrByProvince
  summaries,    \* Summaries
  charts,       \* Charts: DailyStats, on top the entry pushed last
  stats,        \* FornitoreStats
  features      \* rows on the map

vars == <<comuni, pc, next, heap, inattivi, regions, provinces, summaries, charts,
          stats, features>>

-----------------------------------------------------------------------------
Nothing == [comuni |-> 0, population |-> 0]

Sums == [comuni : Nat, population : Nat]

Plus(s, i) == [comuni |-> s.comuni + 1, population |-> s.population + comuni[i].population]

\* A map entry that is missing counts as nothing.
PlusIn(map, key, m, i) ==
  [k \in DOMAIN map \cup {key} |->
     IF k = key
     THEN LET old == IF key \in DOMAIN map THEN map[key] ELSE [n \in Migrations |-> Nothing]
          IN  [old EXCEPT ![m] = Plus(@, i)]
     ELSE map[k]]

Statuses == Migrations \cup {"inattivo"}

\* Faulty variant: what was counted is forgotten.
StatAnew(f, status) ==
  [k \in DOMAIN stats \cup {f} |->
     IF k = f THEN [t \in Statuses |-> IF t = status THEN 1 ELSE 0] ELSE stats[k]]

UpdateFornitoreStat(f, status) ==
  [k \in DOMAIN stats \cup {f} |->
     IF k # f THEN stats[k]
     ELSE LET old == IF f \in DOMAIN stats THEN stats[f] ELSE [t \in Statuses |-> 0]
          IN  [old EXCEPT ![status] = @ + 1]]

Day(m, i) == comuni[i].on[m]

\* Faulty variant: the earliest first.
Earliest(m) == {i \in heap[m] : \A j \in heap[m] : Day(m, i) <= Day(m, j)}

\* heap.Pop by Less: the latest, any of those of one day.
Latest(m) == {i \in heap[m] : \A j \in heap[m] : Day(m, i) >= Day(m, j)}

NewEntry(m, i) ==
  [date |-> Day(m, i), comuni |-> 1, population |-> comuni[i].population]

\* Faulty variant: the population of a day is that of the last comune.
PushKeepingPopulation(m, i) ==
  LET s == charts[m] IN
  IF s # << >> /\ Head(s).date = Day(m, i)
  THEN [s EXCEPT ![1] = [@ EXCEPT !.comuni = @ + 1]]
  ELSE <<NewEntry(m, i)>> \o s

PushDailyStats(m, i) ==
  LET s == charts[m] IN
  IF s # << >> /\ Head(s).date = Day(m, i)
  THEN [s EXCEPT ![1] = [date |-> Day(m, i), comuni |-> @.comuni + 1,
                         population |-> @.population + comuni[i].population]]
  ELSE <<NewEntry(m, i)>> \o s

-----------------------------------------------------------------------------
Init ==
  /\ comuni \in Inputs
  /\ pc = "sort" /\ next = 1
  /\ heap = [m \in Migrations |-> {}]
  /\ inattivi = {}
  /\ regions = << >> /\ provinces = << >>
  /\ summaries = [m \in Migrations |-> Nothing]
  /\ charts = [m \in Migrations |-> << >>]
  /\ stats = << >>
  /\ features = {}

\* A comune that took over is counted as nothing else.
MigrationOf(r) ==
  IF r.on["subentro"] # NULL THEN "subentro"
  ELSE IF r.on["presubentro"] # NULL THEN "presubentro" ELSE NULL

\* Faulty variant: the rows are counted from zero.
SortFromZero ==
  /\ pc = "sort" /\ next <= Len(comuni)
  /\ LET r == comuni[next]
         m == MigrationOf(r) IN
       /\ m # NULL
       /\ heap' = [heap EXCEPT ![m] = @ \cup {next - 1}]
       /\ regions' = PlusIn(regions, r.region, m, next)
       /\ provinces' = PlusIn(provinces, r.province, m, next)
  /\ next' = next + 1
  /\ UNCHANGED <<comuni, pc, inattivi, summaries, charts, stats, features>>

Sort ==
  /\ pc = "sort" /\ next <= Len(comuni)
  /\ LET r == comuni[next]
         m == MigrationOf(r) IN
       /\ m # NULL
       /\ heap' = [heap EXCEPT ![m] = @ \cup {next}]
       /\ regions' = PlusIn(regions, r.region, m, next)
       /\ provinces' = PlusIn(provinces, r.province, m, next)
  /\ next' = next + 1
  /\ UNCHANGED <<comuni, pc, inattivi, summaries, charts, stats, features>>

SortInattivo ==
  /\ pc = "sort" /\ next <= Len(comuni)
  /\ MigrationOf(comuni[next]) = NULL
  /\ inattivi' = inattivi \cup {next}
  /\ next' = next + 1
  /\ UNCHANGED <<comuni, pc, heap, regions, provinces, summaries, charts, stats, features>>

\* From a loop to the next.
Turn(here, there) ==
  /\ pc = here
  /\ pc' = there /\ next' = 1
  /\ UNCHANGED <<comuni, heap, inattivi, regions, provinces, summaries, charts, stats, features>>

Sorted == next > Len(comuni) /\ Turn("sort", "presubentro")

Pop(m) ==
  /\ pc = m
  /\ \E i \in Latest(m) :
       /\ heap' = [heap EXCEPT ![m] = @ \ {i}]
       /\ summaries' = [summaries EXCEPT ![m] = Plus(@, i)]
       /\ charts' = [charts EXCEPT ![m] = PushDailyStats(m, i)]
       /\ stats' = UpdateFornitoreStat(comuni[i].fornitore, m)
       /\ features' = features \cup {i}
  /\ UNCHANGED <<comuni, pc, next, inattivi, regions, provinces>>

Popped ==
  \/ heap["presubentro"] = {} /\ Turn("presubentro", "subentro")
  \/ heap["subentro"] = {} /\ Turn("subentro", "inattivi")

\* The inactive are in a list; their order shows in nothing but the map.
AddInattivo ==
  /\ pc = "inattivi"
  /\ \E i \in inattivi :
       /\ \A j \in inattivi : i <= j
       /\ inattivi' = inattivi \ {i}
       /\ stats' = UpdateFornitoreStat(comuni[i].fornitore, "inattivo")
       /\ features' = features \cup {i}
  /\ UNCHANGED <<comuni, pc, next, heap, regions, provinces, summaries, charts>>

Added == inattivi = {} /\ Turn("inattivi", "history")

(***************************************************************************)
(* updateHistoricalSequence: each entry of the two charts is given what    *)
(* the one before it has; here they advance together.                      *)
(***************************************************************************)
Longest == IF Len(charts["subentro"]) >= Len(charts["presubentro"])
           THEN Len(charts["subentro"]) ELSE Len(charts["presubentro"])

Summed(s) ==
  IF next \notin 2 .. Len(s) THEN s
  ELSE [s EXCEPT ![next] = [date |-> @.date, comuni |-> @.comuni + s[next - 1].comuni,
                            population |-> @.population + s[next - 1].population]]

UpdateHistoricalSequence ==
  /\ pc = "history" /\ next <= Longest
  /\ charts' = [m \in Migrations |-> Summed(charts[m])]
  /\ next' = next + 1
  /\ UNCHANGED <<comuni, pc, heap, inattivi, regions, provinces, summaries, stats, features>>

Updated == next > Longest /\ Turn("history", "done")

Next ==
  \/ Sort \/ SortInattivo \/ Sorted
  \/ \E m \in Migrations : Pop(m)
  \/ Popped \/ AddInattivo \/ Added \/ UpdateHistoricalSequence \/ Updated

Spec == Init /\ [][Next]_vars
-----------------------------------------------------------------------------
Rows == DOMAIN comuni

TypeOK ==
  /\ comuni \in Inputs
  /\ pc \in Migrations \cup {"sort", "inattivi", "history", "done"}
  /\ next \in Nat
  /\ heap \in [Migrations -> SUBSET Rows]
  /\ inattivi \in SUBSET Rows
  /\ \A map \in {regions, provinces} :
       \A k \in DOMAIN map : map[k] \in [Migrations -> Sums]
  /\ summaries \in [Migrations -> Sums]
  /\ charts \in [Migrations -> Seq([date : Nat, comuni : Nat, population : Nat])]
  /\ \A f \in DOMAIN stats : stats[f] \in [Statuses -> Nat]
  /\ features \in SUBSET Rows

(***************************************************************************)
(* A chart is always strictly ascending, a day having one entry, although  *)
(* it is built from the last day backwards and compares with its top only. *)
(***************************************************************************)
ChartsAscend ==
  \A m \in Migrations : \A i, j \in DOMAIN charts[m] :
    i < j => charts[m][i].date < charts[m][j].date

Migrated(m) == {i \in Rows : MigrationOf(comuni[i]) = m}

\* The values of f on S added up.
SumOver(f, S) == MapThenSumSet(LAMBDA x : f[x], S)

PopulationOf(S) == SumOver([i \in Rows |-> comuni[i].population], S)

SumsOf(S) == [comuni |-> Cardinality(S), population |-> PopulationOf(S)]

(***************************************************************************)
(* In the end each chart has an entry for each day of its migration, with  *)
(* the comuni migrated up to then and their population: no matter in what  *)
(* order the heap gives the comuni of one day.                             *)
(***************************************************************************)
ChartsAreHistory ==
  pc = "done" =>
    \A m \in Migrations :
      /\ {charts[m][i].date : i \in DOMAIN charts[m]} = {Day(m, i) : i \in Migrated(m)}
      /\ \A k \in DOMAIN charts[m] :
           [comuni |-> charts[m][k].comuni, population |-> charts[m][k].population]
             = SumsOf({i \in Migrated(m) : Day(m, i) <= charts[m][k].date})

(***************************************************************************)
(* The figures of the page agree in the end: the last entry of a chart,    *)
(* the summary, and what the regions and the provinces add up to; and the  *)
(* points of the map and the comuni of the fornitori are all the rows.     *)
(***************************************************************************)
Total(map, m) ==
  [comuni     |-> SumOver([k \in DOMAIN map |-> map[k][m].comuni], DOMAIN map),
   population |-> SumOver([k \in DOMAIN map |-> map[k][m].population], DOMAIN map)]

FiguresAgree ==
  pc = "done" =>
    /\ \A m \in Migrations :
         /\ Total(regions, m) = summaries[m]
         /\ Total(provinces, m) = summaries[m]
         /\ LET s == charts[m] IN
            IF s = << >> THEN summaries[m] = Nothing
            ELSE summaries[m] = [comuni |-> s[Len(s)].comuni,
                                 population |-> s[Len(s)].population]
    /\ features = Rows
    /\ \A t \in Statuses :
         SumOver([f \in DOMAIN stats |-> stats[f][t]], DOMAIN stats)
           = IF t = "inattivo" THEN Cardinality(Migrated(NULL)) ELSE summaries[t].comuni
=============================================================================
