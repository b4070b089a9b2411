--------------------------- MODULE PlanRefinement ---------------------------
(***************************************************************************)
(* The tables and handlers of PlanStore as an implementation of            *)
(* PlanRegister: the plans of a comune are its rows, as the searches give  *)
(* them back, and accepted is what the handlers hold between their         *)
(* judgement and their last statement.                                     *)
(***************************************************************************)
EXTENDS PlanStore

PlansInTable == [c \in Comuni |-> {SubentroFromRow(subentro[i]) : i \in RowsOf(c)}]

OffersInProgress ==
  UNION {{[comune |-> todo[w][k].comune, plan |-> todo[w][k].plan, old |-> todo[w][k].old] :
            k \in DOMAIN todo[w]} : w \in Workers}

\* In some state of the checklist columns.
Allowed(s, old, d) ==
  \E p, c \in BOOLEAN :
    IsWellFormed(s, [Subentro |-> old, DataPresubentro |-> p, DataConsegnaSm |-> c], d)

\* A plan without a preferred date comes back with an absent one at the epoch.
AsStored(s) ==
  [From |-> TimeFrom(s.From.time), To |-> TimeFrom(s.To.time),
   PreferredDate |-> IF s.PreferredDate.valid THEN TimeFrom(s.PreferredDate.time)
                     ELSE [valid |-> FALSE, time |-> EpochDay]]

Register == INSTANCE PlanRegister WITH plans <- PlansInTable, accepted <- OffersInProgress

(***************************************************************************)
(* Whatever overlaps, fails or stops, every plan in the table was allowed  *)
(* by the rules on some day in place of one the comune had on that day:    *)
(* the columns, the files, the repeated saves and the rows written by      *)
(* UPDATE add nothing to that and lose nothing of it.                      *)
(***************************************************************************)
ImplementsRegister == Register!Spec

\* No two rows that count can be of one comune.
Counts(item) == item.syntax = "good" /\ HasValidDates(item.plan)

FilesNameOnce ==
  \A r \in Requests : \A i, j \in DOMAIN r.items :
    i # j /\ Counts(r.items[i]) /\ Counts(r.items[j])
    => r.items[i].match \cap r.items[j].match = {}

(***************************************************************************)
(* With one request at a time, whose file names no comune twice, a plan    *)
(* takes the place of the very plan it was judged against, whatever the    *)
(* checklist, the administrator and the calendar do meanwhile.             *)
(***************************************************************************)
ReplacesWhatItJudged == Register!SerialSpec
=============================================================================
