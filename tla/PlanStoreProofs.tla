-------------------------- MODULE PlanStoreProofs --------------------------
(***************************************************************************)
(* Theorems about PlanStore, for any number of requests in progress, any   *)
(* comuni, plans, files, limit and days, with and without database faults, *)
(* and in the last part that it implements PlanRegister.                   *)
(***************************************************************************)
EXTENDS PlanRefinement, SubentroProofs, FiniteSetTheorems, SequenceTheorems

(***************************************************************************)
(* What the statements of a handler leave for those after them: where the  *)
(* program counter is says which handler runs, and that there is a plan to *)
(* save, with both ends when it is about to be written.                    *)
(***************************************************************************)
ControlOf(w) ==
  /\ pc[w] # "idle" => req[w] \in Requests
  /\ pc[w] \in {"search", "capacity", "notify"} => req[w].kind = "form"
  /\ pc[w] = "read" => req[w].kind = "csv" /\ row[w] >= 1
  /\ pc[w] \in {"capacity", "write", "notify"} => todo[w] # << >>
  /\ pc[w] = "write" => HasBothEnds(todo[w][1].plan)

Control == \A w \in Workers : ControlOf(w)

TypeInv == TypeOK /\ Control

-----------------------------------------------------------------------------
(***************************************************************************)
(* Lemmas about the plans the handlers save.                               *)
(***************************************************************************)
LEMMA WellFormedHasBothEnds ==
  ASSUME NEW s \in GivenPlan, NEW c, NEW t, IsWellFormed(s, c, t), HasValidDates(s)
  PROVE  HasBothEnds(s)
  BY WellFormedHasEnds DEF HasBothEnds

(***************************************************************************)
(* A plan with both ends gives a row of the table, and comes back as an    *)
(* interval if it was one.                                                 *)
(***************************************************************************)
LEMMA RowForType ==
  ASSUME NEW w, NEW e \in Entry, HasBothEnds(e.plan), req[w] \in Requests
  PROVE  RowFor(w, e) \in Row
<1>1. e.plan.From \in GivenTime /\ e.plan.To \in GivenTime /\ e.plan.PreferredDate \in GivenTime
  BY DEF Entry, GivenPlan
<1>2. e.plan.From.time \in Days /\ e.plan.To.time \in Days
  BY <1>1, GivenTimes DEF HasBothEnds
<1>3. FinalDateColumn(e.plan) \in Days \cup {NULL}
  BY <1>1, GivenTimes DEF FinalDateColumn
<1>4. req[w].kind \in {"form", "csv"}
  BY ConstantsAssumption DEF Request
<1> QED
  BY <1>2, <1>3, <1>4 DEF RowFor, Row, Entry

LEMMA UpdateRowsType ==
  ASSUME NEW w, NEW e, RowFor(w, e) \in Row, subentro \in Seq(Row)
  PROVE  UpdateRows(w, e) \in Seq(Row)
<1> DEFINE n == Len(subentro)
<1>1. n \in Nat /\ DOMAIN subentro = 1..n /\ \A i \in 1..n : subentro[i] \in Row
  OBVIOUS
<1>2. UpdateRows(w, e) \in [1..n -> Row]
  BY <1>1 DEF UpdateRows
<1> QED
  BY <1>1, <1>2, SeqDef

LEMMA RowForInterval ==
  ASSUME NEW w, NEW e \in Entry, HasBothEnds(e.plan), IsInterval(e.plan)
  PROVE  IsInterval(SubentroFromRow(RowFor(w, e)))
<1>1. e.plan.From \in GivenTime /\ e.plan.To \in GivenTime /\ e.plan.PreferredDate \in GivenTime
  BY DEF Entry, GivenPlan
<1>2. CASE e.plan.PreferredDate.valid
  <2>1. e.plan.PreferredDate.time # NULL
    BY <1>1, GivenTimes, NullAssumption
  <2> QED
    BY <1>2, <2>1 DEF IsInterval, SubentroFromRow, RowFor, FinalDateColumn, TimeFrom
<1>3. CASE ~e.plan.PreferredDate.valid
  BY <1>3 DEF IsInterval, SubentroFromRow, RowFor, FinalDateColumn, TimeFrom
<1> QED
  BY <1>1, <1>2, <1>3, GivenTimes
-----------------------------------------------------------------------------
(***************************************************************************)
(* Type correctness.                                                       *)
(***************************************************************************)
LEMMA ItemTypes ==
  ASSUME NEW r \in Requests
  PROVE  /\ r.kind \in {"form", "csv"}
         /\ r.items \in Seq(Item)
         /\ r.kind = "form" => Len(r.items) = 1
  BY ConstantsAssumption DEF Request

(***************************************************************************)
(* A row is read back as a plan, and a search that finds a comune for an   *)
(* item gives an entry to save.                                            *)
(***************************************************************************)
LEMMA PlanInTableType ==
  ASSUME TypeOK, NEW i \in DOMAIN subentro
  PROVE  SubentroFromRow(subentro[i]) \in Plan
<1>1. subentro[i] \in Row
  BY DEF TypeOK
<1> QED
  BY <1>1 DEF Row, SubentroFromRow, Plan, NullTime, TimeFrom

LEMMA EntryForType ==
  ASSUME TypeOK, NEW item \in Item, NEW r \in SearchComuni(item.match)
  PROVE  EntryFor(r, item) \in Entry
<1>1. r[1] \in Comuni
  BY DEF SearchComuni, Item
<1>2. today \in Nat
  BY ConstantsAssumption DEF TypeOK
<1>3. ComuneOf(r).Subentro \in Plan
  <2>1. CASE r[2] = 0
    BY <2>1 DEF ComuneOf, NoPlan, NoTime, Plan, NullTime
  <2>2. CASE r[2] # 0
    <3>1. r[2] \in DOMAIN subentro
      BY <2>2 DEF SearchComuni, RowsOf
    <3> QED
      BY <2>2, <3>1, PlanInTableType DEF ComuneOf
  <2> QED
    BY <2>1, <2>2
<1> QED
  BY <1>1, <1>2, <1>3 DEF EntryFor, Entry, Item

(***************************************************************************)
(* After a save the handler notifies, or goes on with the next comune.     *)
(***************************************************************************)
LEMMA AfterSaveType ==
  ASSUME TypeInv, NEW w \in Workers, pc[w] \in {"present", "write"}, todo[w] # << >>,
         AfterSave(w), UNCHANGED <<req, row>>
  PROVE  /\ pc' \in [Workers -> PC]
         /\ todo' \in [Workers -> Seq(Entry)]
         /\ Control'
<1>1. todo[w] \in Seq(Entry) /\ Tail(todo[w]) \in Seq(Entry)
  BY DEF TypeInv, TypeOK
<1>2. CASE req[w].kind = "form"
  BY <1>2 DEF TypeInv, TypeOK, Control, ControlOf, PC, AfterSave, Goto
<1>3. CASE req[w].kind = "csv"
  <2>1. /\ pc' = [pc EXCEPT ![w] = "present"]
        /\ todo' = [todo EXCEPT ![w] = Tail(todo[w])]
    BY <1>3 DEF AfterSave, Goto
  <2> QED
    BY <1>1, <1>3, <2>1 DEF TypeInv, TypeOK, Control, ControlOf, PC
<1> QED
  BY <1>2, <1>3 DEF AfterSave

LEMMA TypeInit == Init => TypeInv
  BY ConstantsAssumption
  DEF Init, TypeInv, TypeOK, Control, ControlOf, State, PC, Replies

LEMMA TypeNext == TypeInv /\ [Next]_vars => TypeInv'
<1> SUFFICES ASSUME TypeInv, [Next]_vars PROVE TypeInv'
  OBVIOUS
<1> USE DEF TypeInv, TypeOK, Control, ControlOf, PC, Replies
<1>1. ASSUME NEW w \in Workers, Receive(w) PROVE TypeInv'
  <2> PICK r \in Requests :
        /\ req' = [req EXCEPT ![w] = r]
        /\ pc' = [pc EXCEPT ![w] = IF r.kind = "form" THEN "search" ELSE "read"]
    BY <1>1 DEF Receive
  <2> QED
    BY <1>1, ItemTypes DEF Receive, dbVars, outVars
<1>2. ASSUME NEW w \in Workers, Handle(w) PROVE TypeInv'
  <2>1. CASE UpdateUnparsed(w)
    BY <2>1 DEF UpdateUnparsed, Answer, Goto, dbVars
  <2>2. CASE UpdateNotFound(w)
    BY <2>2 DEF UpdateNotFound, Answer, Goto, dbVars
  <2>3. CASE UpdateForbidden(w)
    BY <2>3 DEF UpdateForbidden, Answer, Goto, dbVars
  <2>4. CASE UpdateMalformed(w)
    BY <2>4 DEF UpdateMalformed, Answer, Goto, dbVars
  <2>5. CASE UpdateAccepted(w)
    <3> DEFINE item == req[w].items[1]
    <3>1. item \in Item
      <4>1. req[w] \in Requests /\ req[w].kind = "form"
        BY <2>5 DEF UpdateAccepted
      <4> QED
        BY <4>1, ItemTypes
    <3>2. PICK r \in SearchComuni(item.match) :
            todo' = [todo EXCEPT ![w] = <<EntryFor(r, item)>>]
      BY <2>5 DEF UpdateAccepted
    <3>3. EntryFor(r, item) \in Entry
      BY <3>1, EntryForType
    <3>4. todo' \in [Workers -> Seq(Entry)] /\ todo'[w] # << >>
      BY <3>2, <3>3
    <3> QED
      BY <2>5, <3>2, <3>4 DEF UpdateAccepted, Goto, dbVars, outVars
  <2>6. CASE UpdateDayFull(w)
    BY <2>6 DEF UpdateDayFull, Answer, Goto, dbVars
  <2>7. CASE UpdateDayFree(w)
    BY <2>7 DEF UpdateDayFree, Goto, dbVars, outVars
  <2>8. CASE SaveIgnored(w)
    BY <2>8, AfterSaveType DEF SaveIgnored, dbVars, outVars
  <2>9. CASE IsPresent(w)
    BY <2>9 DEF IsPresent, Goto, dbVars, outVars
  <2>10. CASE Commit(w)
    <3>1. todo[w] # << >> /\ Head(todo[w]) \in Entry /\ HasBothEnds(Head(todo[w]).plan)
          /\ req[w] \in Requests
      BY <2>10 DEF Commit
    <3>2. RowFor(w, Head(todo[w])) \in Row
      BY <3>1, RowForType
    <3>3. subentro' \in Seq(Row)
      <4>1. UpdateRows(w, Head(todo[w])) \in Seq(Row)
        BY <3>2, UpdateRowsType
      <4>2. InsertRow(w, Head(todo[w])) \in Seq(Row)
        BY <3>2 DEF InsertRow
      <4> QED
        BY <2>10, <4>1, <4>2 DEF Commit
    <3> QED
      BY <2>10, <3>1, <3>3, AfterSaveType DEF Commit
  <2>11. CASE CommitLost(w)
    BY <2>11, AfterSaveType DEF CommitLost, dbVars, outVars
  <2>12. CASE WriteFails(w)
    BY <2>12 DEF WriteFails, Answer, Goto, dbVars
  <2>13. CASE UpdateNotify(w)
    BY <2>13 DEF UpdateNotify, Answer, Goto, dbVars
  <2>14. CASE UploadBroken(w)
    BY <2>14 DEF UploadBroken, Reading, Answer, Goto, dbVars
  <2>15. CASE UploadSkip(w)
    BY <2>15 DEF UploadSkip, Reading, dbVars, outVars
  <2>16. CASE UploadAccept(w)
    <3> DEFINE item == NextItem(w)
    <3>1. item \in Item
      BY <2>16, ItemTypes DEF UploadAccept, Reading, NextItem
    <3>2. PICK r \in SearchComuni(item.match) :
            todo' = IF item.plan.From.valid
                    THEN [todo EXCEPT ![w] = Append(@, EntryFor(r, item))]
                    ELSE todo
      BY <2>16 DEF UploadAccept
    <3>3. EntryFor(r, item) \in Entry
      BY <3>1, EntryForType
    <3>4. todo' \in [Workers -> Seq(Entry)]
      BY <3>2, <3>3
    <3> QED
      BY <2>16, <3>2, <3>4 DEF UploadAccept, Reading, dbVars, outVars
  <2>17. CASE UploadReject(w)
    BY <2>17 DEF UploadReject, Reading, dbVars, outVars
  <2>18. CASE UploadSave(w)
    BY <2>18 DEF UploadSave, Goto, dbVars, outVars
  <2>19. CASE UploadDone(w)
    BY <2>19 DEF UploadDone, Answer, Goto, dbVars
  <2>20. CASE UploadNotify(w)
    BY <2>20 DEF UploadNotify, Answer, Goto, dbVars
  <2>21. CASE Return(w)
    BY <2>21 DEF Return, Goto, dbVars
  <2> QED
    BY <1>2, <2>1, <2>2, <2>3, <2>4, <2>5, <2>6, <2>7, <2>8, <2>9, <2>10, <2>11,
       <2>12, <2>13, <2>14, <2>15, <2>16, <2>17, <2>18, <2>19, <2>20, <2>21
    DEF Handle
<1>3. CASE UpdateComuniCheckList
  <2>1. stato' \in [Comuni -> State]
    BY <1>3, ConstantsAssumption DEF UpdateComuniCheckList
  <2> QED
    BY <1>3, <2>1 DEF UpdateComuniCheckList, localVars, outVars
<1>4. CASE UpdateFornitore
  BY <1>4, ConstantsAssumption DEF UpdateFornitore, localVars, outVars
<1>5. CASE Midnight
  BY <1>5, ConstantsAssumption DEF Midnight, dbVars, localVars, outVars
<1>6. CASE Restart
  BY <1>6 DEF Restart, dbVars
<1>7. CASE UNCHANGED vars
  BY <1>7 DEF vars, dbVars, localVars, outVars
<1> QED
  BY <1>1, <1>2, <1>3, <1>4, <1>5, <1>6, <1>7 DEF Next

LEMMA TypeInvariant == Spec => []TypeInv
  BY TypeInit, TypeNext, PTL DEF Spec

(***************************************************************************)
(* The type invariant of the tables and of the requests in progress.       *)
(***************************************************************************)
THEOREM TypeCorrect == Spec => []TypeOK
<1>1. TypeInv => TypeOK
  BY DEF TypeInv
<1> QED
  BY <1>1, TypeInvariant, PTL

-----------------------------------------------------------------------------
(***************************************************************************)
(* What a step may do to the table and to the plans waiting to be saved.   *)
(***************************************************************************)
(***************************************************************************)
(* Only a commit writes the table.                                         *)
(***************************************************************************)
LEMMA RowsStep ==
  ASSUME [Next]_vars
  PROVE  subentro' = subentro \/ \E w \in Workers : Commit(w)
<1>1. ASSUME NEW w \in Workers, Receive(w) PROVE subentro' = subentro
  BY <1>1 DEF Receive, dbVars
<1>2. ASSUME NEW w \in Workers, Handle(w), ~Commit(w) PROVE subentro' = subentro
  BY <1>2
  DEF Handle, UpdateUnparsed, UpdateNotFound, UpdateForbidden, UpdateMalformed,
      UpdateAccepted, UpdateDayFull, UpdateDayFree, SaveIgnored, IsPresent,
      CommitLost, WriteFails, UpdateNotify, UploadBroken, UploadSkip,
      UploadAccept, UploadReject, UploadSave, UploadDone, UploadNotify, Return,
      dbVars
<1> QED
  BY <1>1, <1>2
  DEF Next, UpdateComuniCheckList, UpdateFornitore, Midnight, Restart, vars, dbVars

(***************************************************************************)
(* A plan waiting to be saved was waiting before, or has just been         *)
(* accepted for the one comune the search found.                           *)
(***************************************************************************)
Accepted(e) ==
  \E item \in Item : \E r \in SearchComuni(item.match) :
    /\ SearchComuni(item.match) = {r}
    /\ IsWellFormed(item.plan, ComuneOf(r), today)
    /\ e = EntryFor(r, item)

LEMMA TodoStep ==
  ASSUME TypeInv, [Next]_vars,
         NEW v \in Workers, NEW k \in DOMAIN todo'[v]
  PROVE  \/ \E j \in DOMAIN todo[v] : todo'[v][k] = todo[v][j]
         \/ Accepted(todo'[v][k])
<1> DEFINE Known == \E j \in DOMAIN todo[v] : todo'[v][k] = todo[v][j]
<1>1. todo \in [Workers -> Seq(Entry)]
  BY DEF TypeInv, TypeOK
<1>2. ASSUME todo' = todo PROVE Known
  BY <1>2
<1>3. ASSUME NEW w \in Workers, Receive(w) PROVE Known
  BY <1>2, <1>3 DEF Receive
<1>4. ASSUME NEW w \in Workers, todo[w] # << >>, AfterSave(w) PROVE Known
  <2>1. CASE todo' = todo
    BY <1>2, <2>1
  <2>2. CASE todo' = [todo EXCEPT ![w] = Tail(todo[w])]
    <3>1. CASE v = w
      <4>1. /\ Tail(todo[w]) \in Seq(Entry)
            /\ Len(Tail(todo[w])) = Len(todo[w]) - 1
            /\ \A i \in 1 .. Len(Tail(todo[w])) : Tail(todo[w])[i] = todo[w][i + 1]
        BY <1>1, <1>4, HeadTailProperties
      <4>2. todo'[v] = Tail(todo[w]) /\ k \in 1 .. Len(Tail(todo[w]))
        BY <1>1, <2>2, <3>1, <4>1
      <4>3. todo[v][k + 1] = todo'[v][k] /\ k + 1 \in DOMAIN todo[v]
        BY <1>1, <3>1, <4>1, <4>2
      <4> QED
        BY <4>3
    <3> QED
      BY <1>1, <2>2, <3>1
  <2> QED
    BY <1>4, <2>1, <2>2 DEF AfterSave
<1>5. ASSUME NEW w \in Workers, Handle(w) PROVE Known \/ Accepted(todo'[v][k])
  <2> USE DEF TypeInv, Control, ControlOf
  <2>1. CASE UpdateAccepted(w)
    <3> DEFINE item == req[w].items[1]
    <3>1. req[w] \in Requests /\ req[w].kind = "form"
      BY <2>1 DEF UpdateAccepted
    <3>2. item \in Item
      BY <3>1, ItemTypes
    <3>3. PICK r \in SearchComuni(item.match) :
            /\ SearchComuni(item.match) = {r}
            /\ IsWellFormed(item.plan, ComuneOf(r), today)
            /\ todo' = [todo EXCEPT ![w] = <<EntryFor(r, item)>>]
      BY <2>1 DEF UpdateAccepted
    <3>4. CASE v = w
      <4>1. todo'[v][k] = EntryFor(r, item)
        BY <1>1, <3>3, <3>4
      <4> QED
        BY <3>2, <3>3, <4>1 DEF Accepted
    <3> QED
      BY <1>1, <3>3, <3>4
  <2>2. CASE UploadAccept(w)
    <3> DEFINE item == NextItem(w)
    <3>1. req[w] \in Requests /\ row[w] \in Nat /\ row[w] >= 1 /\ row[w] <= Len(req[w].items)
      BY <2>2 DEF UploadAccept, Reading, TypeOK
    <3>2. item \in Item
      BY <3>1, ItemTypes DEF NextItem
    <3>3. PICK r \in SearchComuni(item.match) :
            /\ UploadAccepts(w, r)
            /\ todo' = IF item.plan.From.valid
                       THEN [todo EXCEPT ![w] = Append(@, EntryFor(r, item))]
                       ELSE todo
      BY <2>2 DEF UploadAccept
    <3>4. CASE v = w /\ todo' = [todo EXCEPT ![w] = Append(@, EntryFor(r, item))]
      <4>1. todo[w] \in Seq(Entry) /\ todo'[v] = Append(todo[w], EntryFor(r, item))
        BY <1>1, <3>4
      <4>2. k \in 1 .. Len(todo[w]) + 1
        BY <4>1
      <4>3. CASE k = Len(todo[w]) + 1
        <5>1. todo'[v][k] = EntryFor(r, item)
          BY <4>1, <4>3
        <5> QED
          BY <3>2, <3>3, <5>1 DEF Accepted, UploadAccepts
      <4>4. CASE k \in 1 .. Len(todo[w])
        BY <3>4, <4>1, <4>4
      <4> QED
        BY <4>2, <4>3, <4>4, <4>1
    <3> QED
      BY <1>1, <3>3, <3>4
  <2>3. CASE SaveIgnored(w) \/ CommitLost(w) \/ Commit(w)
    BY <1>4, <2>3 DEF SaveIgnored, CommitLost, Commit
  <2>4. CASE Return(w)
    BY <1>1, <2>4 DEF Return
  <2> QED
    BY <1>2, <1>5, <2>1, <2>2, <2>3, <2>4
    DEF Handle, UpdateUnparsed, UpdateNotFound, UpdateForbidden, UpdateMalformed,
        UpdateDayFull, UpdateDayFree, IsPresent, WriteFails, UpdateNotify,
        UploadBroken, UploadSkip, UploadReject, UploadSave, UploadDone,
        UploadNotify, Answer
<1>6. CASE Restart
  BY <1>1, <1>6 DEF Restart
<1> QED
  BY <1>2, <1>3, <1>5, <1>6
  DEF Next, UpdateComuniCheckList, UpdateFornitore, Midnight, vars, localVars

-----------------------------------------------------------------------------
(***************************************************************************)
(* The plans of the table are intervals: so are those waiting to be saved, *)
(* because they were accepted, and a commit writes one of those.           *)
(***************************************************************************)
TodoAreIntervals ==
  \A w \in Workers : \A k \in DOMAIN todo[w] : IsInterval(todo[w][k].plan)

IntervalInv == PlansAreIntervals /\ TodoAreIntervals

\* The row a commit writes, and those it leaves.
LEMMA CommitRows ==
  ASSUME TypeInv, NEW w \in Workers, Commit(w), NEW i \in DOMAIN subentro'
  PROVE  \/ subentro'[i] = RowFor(w, Head(todo[w]))
         \/ i \in DOMAIN subentro /\ subentro'[i] = subentro[i]
<1>1. subentro \in Seq(Row)
  BY DEF TypeInv, TypeOK
<1>2. CASE present[w]
  <2>1. subentro' = UpdateRows(w, Head(todo[w]))
    BY <1>2 DEF Commit
  <2> QED
    BY <1>1, <2>1 DEF UpdateRows
<1>3. CASE ~present[w]
  <2>1. subentro' = Append(subentro, RowFor(w, Head(todo[w])))
    BY <1>3 DEF Commit, InsertRow
  <2>2. i \in 1 .. Len(subentro) + 1
    BY <1>1, <2>1
  <2> QED
    BY <1>1, <2>1, <2>2
<1> QED
  BY <1>2, <1>3

LEMMA CommitEntry ==
  ASSUME TypeInv, NEW w \in Workers, Commit(w)
  PROVE  /\ todo[w] # << >> /\ 1 \in DOMAIN todo[w]
         /\ Head(todo[w]) = todo[w][1]
         /\ Head(todo[w]) \in Entry
         /\ HasBothEnds(Head(todo[w]).plan)
         /\ req[w] \in Requests
  BY DEF TypeInv, TypeOK, Control, ControlOf, Commit

LEMMA IntervalNext ==
  TypeInv /\ IntervalInv /\ [Next]_vars => IntervalInv'
<1> SUFFICES ASSUME TypeInv, IntervalInv, [Next]_vars PROVE IntervalInv'
  OBVIOUS
<1>1. TodoAreIntervals'
  <2> SUFFICES ASSUME NEW w \in Workers, NEW k \in DOMAIN todo'[w]
               PROVE  IsInterval(todo'[w][k].plan)
    BY DEF TodoAreIntervals
  <2>1. CASE \E j \in DOMAIN todo[w] : todo'[w][k] = todo[w][j]
    BY <2>1 DEF IntervalInv, TodoAreIntervals
  <2>2. CASE Accepted(todo'[w][k])
    <3>0. PICK item \in Item : \E r \in SearchComuni(item.match) :
            /\ IsWellFormed(item.plan, ComuneOf(r), today)
            /\ todo'[w][k] = EntryFor(r, item)
      BY <2>2 DEF Accepted
    <3>1. PICK r \in SearchComuni(item.match) :
            /\ IsWellFormed(item.plan, ComuneOf(r), today)
            /\ todo'[w][k] = EntryFor(r, item)
      BY <3>0
    <3>2. item.plan \in GivenPlan
      BY DEF Item
    <3>3. IsInterval(item.plan)
      BY <3>1, <3>2, WellFormedIsInterval
    <3> QED
      BY <3>1, <3>3 DEF EntryFor
  <2> QED
    BY <2>1, <2>2, TodoStep
<1>2. PlansAreIntervals'
  <2>1. CASE subentro' = subentro
    BY <2>1 DEF IntervalInv, PlansAreIntervals
  <2>2. ASSUME NEW w \in Workers, Commit(w) PROVE PlansAreIntervals'
    <3>1. IsInterval(Head(todo[w]).plan)
      BY <2>2, CommitEntry DEF IntervalInv, TodoAreIntervals
    <3>2. IsInterval(SubentroFromRow(RowFor(w, Head(todo[w]))))
      BY <2>2, <3>1, CommitEntry, RowForInterval
    <3> QED
      BY <2>2, <3>2, CommitRows DEF IntervalInv, PlansAreIntervals
  <2> QED
    BY <2>1, <2>2, RowsStep
<1> QED
  BY <1>1, <1>2 DEF IntervalInv

(***************************************************************************)
(* Every stored plan is an interval of at most thirty days around its      *)
(* final date, however many requests run together.                         *)
(***************************************************************************)
THEOREM StoredPlansAreIntervals == Spec => []PlansAreIntervals
<1>1. Init => IntervalInv
  BY DEF Init, IntervalInv, PlansAreIntervals, TodoAreIntervals
<1>2. IntervalInv => PlansAreIntervals
  BY DEF IntervalInv
<1> QED
  BY <1>1, <1>2, IntervalNext, TypeInvariant, PTL DEF Spec

-----------------------------------------------------------------------------
(***************************************************************************)
(* Once duplicated, frozen: a request adds a plan for a comune only when   *)
(* the search found it once, so none is added for a duplicated comune, and *)
(* only a waiting plan of the comune can be committed to its rows.         *)
(***************************************************************************)
LEMMA SearchFindsTwice ==
  ASSUME TypeInv, NEW match, NEW r \in SearchComuni(match), SearchComuni(match) = {r}
  PROVE  ~Duplicated(r[1])
<1> SUFFICES ASSUME Duplicated(r[1]) PROVE FALSE
  OBVIOUS
<1>1. PICK i \in RowsOf(r[1]), j \in RowsOf(r[1]) : i # j
  BY DEF Duplicated
<1>2. i \in 1 .. Len(subentro) /\ j \in 1 .. Len(subentro)
  BY DEF RowsOf, TypeInv, TypeOK
<1>3. r \in match \X (0 .. Len(subentro)) /\ Visible(r[1])
  BY DEF SearchComuni
<1>4. <<r[1], i>> \in SearchComuni(match) /\ <<r[1], j>> \in SearchComuni(match)
  BY <1>1, <1>2, <1>3 DEF SearchComuni
<1> QED
  BY <1>1, <1>4

(***************************************************************************)
(* No request ever changes the rows of a duplicated comune again, once     *)
(* those in progress for it are over.                                      *)
(***************************************************************************)
THEOREM DuplicatedStaysFrozen == Spec => DuplicatedIsFrozen
<1> DEFINE Frozen ==
      \A c \in Comuni :
        Duplicated(c) /\ ~InProgress(c)
        => /\ RowsOf(c)' = RowsOf(c)
           /\ \A i \in RowsOf(c) : subentro'[i] = subentro[i]
           /\ ~InProgress(c)'
<1>1. TypeInv /\ [Next]_vars => [Frozen]_vars
  <2> SUFFICES ASSUME TypeInv, [Next]_vars, NEW c \in Comuni, Duplicated(c), ~InProgress(c)
               PROVE  /\ RowsOf(c)' = RowsOf(c)
                      /\ \A i \in RowsOf(c) : subentro'[i] = subentro[i]
                      /\ ~InProgress(c)'
    OBVIOUS
  <2>1. ~InProgress(c)'
    <3> SUFFICES ASSUME NEW w \in Workers, NEW k \in DOMAIN todo'[w],
                        todo'[w][k].comune = c
                 PROVE  FALSE
      BY DEF InProgress
    <3>1. Accepted(todo'[w][k])
      BY TodoStep DEF InProgress
    <3>0. PICK item \in Item : \E r \in SearchComuni(item.match) :
            SearchComuni(item.match) = {r} /\ todo'[w][k] = EntryFor(r, item)
      BY <3>1 DEF Accepted
    <3>2. PICK r \in SearchComuni(item.match) :
            SearchComuni(item.match) = {r} /\ todo'[w][k] = EntryFor(r, item)
      BY <3>0
    <3>3. r[1] = c
      BY <3>2 DEF EntryFor
    <3> QED
      BY <3>2, <3>3, SearchFindsTwice
  <2>2. CASE subentro' = subentro
    BY <2>1, <2>2 DEF RowsOf
  <2>3. ASSUME NEW w \in Workers, Commit(w)
        PROVE  RowsOf(c)' = RowsOf(c) /\ \A i \in RowsOf(c) : subentro'[i] = subentro[i]
    <3> DEFINE e == Head(todo[w])
    <3>1. e.comune # c
      BY <2>3, CommitEntry DEF InProgress
    <3>2. subentro \in Seq(Row)
      BY DEF TypeInv, TypeOK
    <3>3. RowFor(w, e).comune # c
      BY <3>1 DEF RowFor
    <3>4. CASE present[w]
      <4>1. subentro' = UpdateRows(w, e)
        BY <2>3, <3>4 DEF Commit
      <4> QED
        BY <3>1, <3>2, <3>3, <4>1 DEF UpdateRows, RowsOf
    <3>5. CASE ~present[w]
      <4>1. subentro' = Append(subentro, RowFor(w, e))
        BY <2>3, <3>5 DEF Commit, InsertRow
      <4> QED
        BY <3>2, <3>3, <4>1 DEF RowsOf
    <3> QED
      BY <3>4, <3>5
  <2> QED
    BY <2>1, <2>2, <2>3, RowsStep
<1> QED
  BY <1>1, TypeInvariant, PTL DEF Spec, DuplicatedIsFrozen

-----------------------------------------------------------------------------
(***************************************************************************)
(* The bounds.  A request that has passed a check and not yet written      *)
(* holds a token: the tokens and what is in the table count together.  A   *)
(* check passes when the table holds little, whatever the tokens, and a    *)
(* write turns one token into one row.                                     *)
(***************************************************************************)
(***************************************************************************)
(* Entering the write, and entering the stretch between the count of a day *)
(* and the write, happen by the two checks only.                           *)
(***************************************************************************)
LEMMA ProgressStep ==
  ASSUME TypeInv, [Next]_vars, NEW v \in Workers
  PROVE  /\ pc'[v] = "write" =>
              \/ pc[v] = "write" /\ todo'[v] = todo[v] /\ present'[v] = present[v]
                 /\ ~Commit(v)
              \/ IsPresent(v)
         /\ (pc'[v] \in {"present", "write"} /\ req'[v].kind = "form") =>
              \/ /\ pc[v] \in {"present", "write"} /\ req[v].kind = "form"
                 /\ todo'[v] = todo[v] /\ ~Commit(v)
              \/ UpdateDayFree(v)
              \/ ~Head(todo'[v]).plan.PreferredDate.valid
<1> DEFINE Same == pc'[v] = pc[v] /\ req'[v] = req[v] /\ todo'[v] = todo[v] /\ present'[v] = present[v]
<1> USE DEF TypeInv, TypeOK, Control, ControlOf, PC
<1>1. ASSUME NEW w \in Workers, Receive(w) PROVE v # w => Same
  BY <1>1 DEF Receive
<1>2. ASSUME Receive(v) PROVE pc'[v] \in {"search", "read"}
  BY <1>2 DEF Receive
<1>3. ASSUME NEW w \in Workers, w # v, Handle(w) PROVE Same
  BY <1>3
  DEF Handle, UpdateUnparsed, UpdateNotFound, UpdateForbidden, UpdateMalformed,
      UpdateAccepted, UpdateDayFull, UpdateDayFree, SaveIgnored, IsPresent, Commit,
      CommitLost, WriteFails, UpdateNotify, UploadBroken, UploadSkip,
      UploadAccept, UploadReject, UploadSave, UploadDone, UploadNotify, Return,
      Answer, Goto, AfterSave, Reading
<1>4. ASSUME Same PROVE ~Commit(v)
  BY <1>4 DEF Commit, AfterSave, Goto
<1>5. CASE Handle(v)
  <2>1. CASE UpdateAccepted(v)
    <3>1. PICK r \in SearchComuni(req[v].items[1].match) :
            todo' = [todo EXCEPT ![v] = <<EntryFor(r, req[v].items[1])>>]
      BY <2>1 DEF UpdateAccepted
    <3>2. Head(todo'[v]).plan = req[v].items[1].plan
      BY <3>1 DEF EntryFor
    <3> QED
      BY <2>1, <3>2 DEF UpdateAccepted, Goto
  <2>2. CASE UploadSave(v) \/ UploadSkip(v) \/ UploadAccept(v) \/ UploadReject(v)
    BY <2>2 DEF UploadSave, UploadSkip, UploadAccept, UploadReject, Reading, Goto
  <2>3. CASE SaveIgnored(v) \/ Commit(v) \/ CommitLost(v)
    <3>1. req'[v] = req[v]
      BY <2>3 DEF SaveIgnored, Commit, CommitLost
    <3>2. \/ req[v].kind = "form" /\ pc'[v] = "notify"
          \/ req[v].kind = "csv" /\ pc'[v] = "present"
      BY <2>3 DEF SaveIgnored, Commit, CommitLost, AfterSave, Goto
    <3> QED
      BY <3>1, <3>2
  <2>4. CASE IsPresent(v)
    BY <2>4 DEF IsPresent, Goto, Commit
  <2>5. CASE UpdateDayFree(v)
    BY <2>5 DEF UpdateDayFree, Goto
  <2>6. CASE \/ UpdateUnparsed(v) \/ UpdateNotFound(v) \/ UpdateForbidden(v)
             \/ UpdateMalformed(v) \/ UpdateDayFull(v) \/ WriteFails(v)
             \/ UpdateNotify(v) \/ UploadBroken(v) \/ UploadDone(v)
             \/ UploadNotify(v) \/ Return(v)
    <3>1. pc'[v] \in {"reply", "idle"}
      BY <2>6
      DEF UpdateUnparsed, UpdateNotFound, UpdateForbidden, UpdateMalformed,
          UpdateDayFull, WriteFails, UpdateNotify, UploadBroken, UploadDone,
          UploadNotify, Return, Answer, Goto
    <3> QED
      BY <3>1
  <2> QED
    BY <1>5, <2>1, <2>2, <2>3, <2>4, <2>5, <2>6 DEF Handle
<1>6. CASE UpdateComuniCheckList \/ UpdateFornitore \/ Midnight \/ UNCHANGED vars
  <2>1. Same
    BY <1>6 DEF UpdateComuniCheckList, UpdateFornitore, Midnight, vars, localVars
  <2> QED
    BY <1>4, <2>1
<1>7. CASE Restart
  BY <1>7 DEF Restart
<1> QED
  BY <1>1, <1>2, <1>3, <1>4, <1>5, <1>6, <1>7 DEF Next

\* A commit of one request is no other step of any request.
LEMMA CommitAlone ==
  ASSUME TypeInv, NEW w \in Workers, NEW v \in Workers, Commit(w)
  PROVE  ~IsPresent(v) /\ ~UpdateDayFree(v)
<1> USE DEF TypeInv, TypeOK
<1>1. pc[w] = "write" /\ pc'[w] \in {"notify", "present"}
  BY DEF Commit, AfterSave, Goto
<1>2. ASSUME IsPresent(v) PROVE FALSE
  BY <1>1, <1>2 DEF IsPresent, Goto
<1>3. ASSUME UpdateDayFree(v) PROVE FALSE
  BY <1>1, <1>3 DEF UpdateDayFree, Goto
<1> QED
  BY <1>2, <1>3

LEMMA RowsAreFinite ==
  ASSUME TypeInv
  PROVE  /\ \A c : IsFiniteSet(RowsOf(c)) /\ Cardinality(RowsOf(c)) \in Nat
         /\ \A d : IsFiniteSet(PlannedOn(d)) /\ Cardinality(PlannedOn(d)) \in Nat
<1>1. IsFiniteSet(DOMAIN subentro)
  BY FS_Interval DEF TypeInv, TypeOK
<1> QED
  BY <1>1, FS_Subset, FS_CardinalityType DEF RowsOf, PlannedOn

LEMMA WorkersAreFinite ==
  ASSUME NEW S \in SUBSET Workers
  PROVE  /\ IsFiniteSet(S) /\ Cardinality(S) \in Nat
         /\ Cardinality(Workers) \in Nat
         /\ Cardinality(S) <= Cardinality(Workers)
  BY ConstantsAssumption, FS_Subset, FS_CardinalityType

(***************************************************************************)
(* The requests about to insert a row for c.                               *)
(***************************************************************************)
Inserting(c) ==
  {w \in Workers : pc[w] = "write" /\ ~present[w] /\ Head(todo[w]).comune = c}

RowBound ==
  \A c \in Comuni :
    Cardinality(RowsOf(c)) + Cardinality(Inserting(c)) <= Cardinality(Workers)

LEMMA RowBoundNext ==
  TypeInv /\ TypeInv' /\ RowBound /\ [Next]_vars => RowBound'
<1> SUFFICES ASSUME TypeInv, TypeInv', RowBound, [Next]_vars, NEW c \in Comuni
             PROVE  (Cardinality(RowsOf(c)) + Cardinality(Inserting(c)))'
                      <= Cardinality(Workers)
  BY DEF RowBound
<1> DEFINE I  == Inserting(c)
           I2 == Inserting(c)'
           R  == RowsOf(c)
           R2 == RowsOf(c)'
           N  == Cardinality(Workers)
<1>1. I \in SUBSET Workers /\ I2 \in SUBSET Workers
  BY DEF Inserting
<1>2. /\ IsFiniteSet(I) /\ Cardinality(I) \in Nat
      /\ IsFiniteSet(I2) /\ Cardinality(I2) \in Nat
      /\ Cardinality(I2) <= N /\ N \in Nat
  BY <1>1, WorkersAreFinite
<1>3. /\ IsFiniteSet(R) /\ Cardinality(R) \in Nat
  BY RowsAreFinite
<1>4. Cardinality(R) + Cardinality(I) <= N
  BY DEF RowBound
<1>5. CASE subentro' = subentro
  <2>1. R2 = R
    BY <1>5 DEF RowsOf
  <2>2. CASE R = {}
    BY <1>2, <2>1, <2>2, FS_EmptySet
  <2>3. CASE R # {}
    <3>1. ASSUME NEW v \in I2 PROVE v \in I
      <4>1. v \in Workers /\ pc'[v] = "write" /\ ~present'[v] /\ Head(todo'[v]).comune = c
        BY DEF Inserting
      <4>2. ~IsPresent(v)
        <5> SUFFICES ASSUME IsPresent(v) PROVE FALSE
          OBVIOUS
        <5>1. todo'[v] = todo[v] /\ present'[v] = (RowsOf(Head(todo[v]).comune) # {})
          BY <4>1 DEF IsPresent, TypeInv, TypeOK
        <5> QED
          BY <2>3, <4>1, <5>1
      <4> QED
        BY <4>1, <4>2, ProgressStep DEF Inserting
    <3>2. Cardinality(I2) <= Cardinality(I)
      BY <1>2, <3>1, FS_Subset
    <3> QED
      BY <1>2, <1>3, <1>4, <2>1, <3>2
  <2> QED
    BY <2>2, <2>3
<1>6. ASSUME NEW w \in Workers, Commit(w)
      PROVE  Cardinality(R2) + Cardinality(I2) <= N
  <2> DEFINE e == Head(todo[w])
  <2>1. subentro \in Seq(Row)
    BY DEF TypeInv, TypeOK
  <2>2. ASSUME NEW v \in I2 PROVE v \in I \ {w}
    <3>1. v \in Workers /\ pc'[v] = "write" /\ ~present'[v] /\ Head(todo'[v]).comune = c
      BY DEF Inserting
    <3>2. ~IsPresent(v)
      BY <1>6, <3>1, CommitAlone
    <3> QED
      BY <1>6, <3>1, <3>2, ProgressStep DEF Inserting
  <2>3. /\ IsFiniteSet(I \ {w})
        /\ Cardinality(I \ {w}) = IF w \in I THEN Cardinality(I) - 1 ELSE Cardinality(I)
        /\ Cardinality(I2) <= Cardinality(I \ {w})
    BY <1>2, <2>2, FS_RemoveElement, FS_Subset
  <2>4. RowFor(w, e).comune = e.comune
    BY DEF RowFor
  <2>5. CASE ~present[w] /\ e.comune = c
    <3>1. subentro' = Append(subentro, RowFor(w, e))
      BY <1>6, <2>5 DEF Commit, InsertRow
    <3>2. R2 = R \cup {Len(subentro) + 1}
      BY <2>1, <2>4, <2>5, <3>1 DEF RowsOf
    <3>3. Cardinality(R2) = IF Len(subentro) + 1 \in R THEN Cardinality(R)
                            ELSE Cardinality(R) + 1
      <4> HIDE DEF R, R2
      <4> QED
        BY <1>3, <3>2, FS_AddElement
    <3>4. w \in I
      BY <1>6, <2>5 DEF Commit, Inserting
    <3> QED
      BY <1>2, <1>3, <1>4, <2>3, <3>3, <3>4
  <2>6. CASE ~present[w] /\ e.comune # c
    <3>1. subentro' = Append(subentro, RowFor(w, e))
      BY <1>6, <2>6 DEF Commit, InsertRow
    <3>2. R2 = R
      BY <2>1, <2>4, <2>6, <3>1 DEF RowsOf
    <3> QED
      BY <1>2, <1>3, <1>4, <2>3, <3>2
  <2>7. CASE present[w]
    <3>1. subentro' = UpdateRows(w, e)
      BY <1>6, <2>7 DEF Commit
    <3>2. R2 = R
      BY <2>1, <2>4, <3>1 DEF RowsOf, UpdateRows
    <3> QED
      BY <1>2, <1>3, <1>4, <2>3, <3>2
  <2> QED
    BY <2>5, <2>6, <2>7
<1> QED
  BY <1>5, <1>6, RowsStep

LEMMA RowBoundInvariant == Spec => []RowBound
<1>1. Init => RowBound
  <2> SUFFICES ASSUME Init, NEW c \in Comuni
               PROVE  Cardinality(RowsOf(c)) + Cardinality(Inserting(c)) <= Cardinality(Workers)
    BY DEF RowBound
  <2>1. RowsOf(c) = {} /\ Inserting(c) = {}
    BY DEF Init, RowsOf, Inserting
  <2> QED
    BY <2>1, FS_EmptySet, WorkersAreFinite
<1> QED
  BY <1>1, RowBoundNext, TypeInvariant, PTL DEF Spec

(***************************************************************************)
(* A comune has at most as many rows as requests were in progress at once. *)
(***************************************************************************)
THEOREM RowsStayBounded == Spec => []RowsAreBounded
<1>1. TypeInv /\ RowBound => RowsAreBounded
  <2> SUFFICES ASSUME TypeInv, RowBound, NEW c \in Comuni
               PROVE  Cardinality(RowsOf(c)) <= Cardinality(Workers)
    BY DEF RowsAreBounded
  <2>1. Inserting(c) \in SUBSET Workers
    BY DEF Inserting
  <2> QED
    BY <2>1, WorkersAreFinite, RowsAreFinite DEF RowBound
<1> QED
  BY <1>1, RowBoundInvariant, TypeInvariant, PTL

(***************************************************************************)
(* Requests that do not overlap keep one row per comune: what the check    *)
(* "if a row EXISTS" is for is lost by the concurrency alone.              *)
(***************************************************************************)
THEOREM OneRequestAtATime ==
  ASSUME Cardinality(Workers) = 1
  PROVE  Spec => []OneRowPerComune
<1>1. TypeInv /\ RowsAreBounded => OneRowPerComune
  <2> SUFFICES ASSUME TypeInv, RowsAreBounded, NEW c \in Comuni,
                      NEW i \in RowsOf(c), NEW j \in RowsOf(c), i # j
               PROVE  FALSE
    BY DEF OneRowPerComune, Duplicated
  <2>1. Cardinality(RowsOf(c)) <= 1 /\ IsFiniteSet(RowsOf(c)) /\ Cardinality(RowsOf(c)) \in Nat
    BY RowsAreFinite DEF RowsAreBounded
  <2>2. Cardinality({i, j}) = 2
    <3>1. IsFiniteSet({i}) /\ Cardinality({i}) = 1
      BY FS_Singleton
    <3>2. Cardinality({i} \cup {j}) = IF j \in {i} THEN 1 ELSE 1 + 1
      BY <3>1, FS_AddElement
    <3>3. {i, j} = {i} \cup {j} /\ j \notin {i}
      OBVIOUS
    <3> QED
      BY <3>2, <3>3
  <2>3. Cardinality({i, j}) <= Cardinality(RowsOf(c))
    BY <2>1, FS_Subset
  <2> QED
    BY <2>1, <2>2, <2>3
<1> QED
  BY <1>1, RowsStayBounded, TypeInvariant, PTL

-----------------------------------------------------------------------------
(***************************************************************************)
(* The limit of a day.  The requests that passed the count of day d and    *)
(* have not written hold the tokens.                                       *)
(***************************************************************************)
Checked(d) ==
  {w \in Workers : /\ pc[w] \in {"present", "write"}
                   /\ req[w].kind = "form"
                   /\ Head(todo[w]).plan.PreferredDate.valid
                   /\ Head(todo[w]).plan.PreferredDate.time = d}

DayBound ==
  \A d \in Days :
    Cardinality(FormComuni(d)) + Cardinality(Checked(d)) <= Limit + Cardinality(Workers)

\* A comune the form placed on d has a row there.
LEMMA FormComuniArePlanned ==
  ASSUME TypeInv, NEW d
  PROVE  /\ IsFiniteSet(FormComuni(d)) /\ Cardinality(FormComuni(d)) \in Nat
         /\ Cardinality(FormComuni(d)) <= Cardinality(PlannedOn(d))
<1> DEFINE F == {i \in PlannedOn(d) : subentro[i].via = "form"}
           T == FormComuni(d)
           f == [i \in F |-> subentro[i].comune]
<1>1. \A i \in DOMAIN subentro : subentro[i] \in Row
  BY DEF TypeInv, TypeOK
<1>2. f \in [F -> T]
  BY <1>1 DEF FormComuni, RowsOf, PlannedOn, Row
<1>3. \A c \in T : \E i \in F : f[i] = c
  BY DEF FormComuni, RowsOf, PlannedOn
<1>4. f \in Surjection(F, T)
  BY <1>2, <1>3 DEF Surjection
<1>5. IsFiniteSet(F) /\ Cardinality(F) <= Cardinality(PlannedOn(d))
      /\ Cardinality(F) \in Nat /\ Cardinality(PlannedOn(d)) \in Nat
  BY RowsAreFinite, FS_Subset, FS_CardinalityType
<1>6. IsFiniteSet(T) /\ Cardinality(T) <= Cardinality(F)
  <2> HIDE DEF F, T, f
  <2> QED
    BY <1>4, <1>5, FS_Surjection
<1> QED
  BY <1>5, <1>6, FS_CardinalityType

LEMMA DayBoundNext ==
  TypeInv /\ TypeInv' /\ DayBound /\ [Next]_vars => DayBound'
<1> SUFFICES ASSUME TypeInv, TypeInv', DayBound, [Next]_vars, NEW d \in Days
             PROVE  (Cardinality(FormComuni(d)) + Cardinality(Checked(d)))'
                      <= Limit + Cardinality(Workers)
  BY DEF DayBound
<1> DEFINE K  == Checked(d)
           K2 == Checked(d)'
           T  == FormComuni(d)
           T2 == FormComuni(d)'
           N  == Cardinality(Workers)
<1>1. K \in SUBSET Workers /\ K2 \in SUBSET Workers
  BY DEF Checked
<1>2. /\ IsFiniteSet(K) /\ Cardinality(K) \in Nat
      /\ IsFiniteSet(K2) /\ Cardinality(K2) \in Nat
      /\ Cardinality(K2) <= N /\ N \in Nat /\ Limit \in Nat
  BY <1>1, WorkersAreFinite, ConstantsAssumption
<1>3. /\ IsFiniteSet(T) /\ Cardinality(T) \in Nat
      /\ Cardinality(T) <= Cardinality(PlannedOn(d))
      /\ Cardinality(PlannedOn(d)) \in Nat
  BY FormComuniArePlanned, RowsAreFinite
<1>4. Cardinality(T) + Cardinality(K) <= Limit + N
  BY DEF DayBound
<1>5. ASSUME subentro' = subentro
      PROVE  Cardinality(T2) + Cardinality(K2) <= Limit + N
  <2>1. T2 = T
    BY <1>5 DEF FormComuni, RowsOf
  <2>2. CASE Cardinality(PlannedOn(d)) <= Limit
    <3> HIDE DEF K, K2, T, T2, N
    <3> QED
      BY <1>2, <1>3, <2>1, <2>2
  <2>3. CASE Cardinality(PlannedOn(d)) > Limit
    <3>1. ASSUME NEW v \in K2 PROVE v \in K
      <4>1. /\ v \in Workers /\ pc'[v] \in {"present", "write"} /\ req'[v].kind = "form"
            /\ Head(todo'[v]).plan.PreferredDate.valid
            /\ Head(todo'[v]).plan.PreferredDate.time = d
        BY DEF Checked
      <4>2. ~UpdateDayFree(v)
        <5> SUFFICES ASSUME UpdateDayFree(v) PROVE FALSE
          OBVIOUS
        <5>1. todo'[v] = todo[v]
          BY DEF UpdateDayFree
        <5> QED
          BY <2>3, <4>1, <5>1 DEF UpdateDayFree, PreferredDay
      <4> QED
        BY <4>1, <4>2, ProgressStep DEF Checked
    <3>2. Cardinality(K2) <= Cardinality(K)
      BY <1>2, <3>1, FS_Subset
    <3> HIDE DEF K, K2, T, T2, N
    <3> QED
      BY <1>2, <1>3, <1>4, <2>1, <3>2
  <2> QED
    BY <1>2, <1>3, <2>2, <2>3
<1>6. ASSUME NEW w \in Workers, Commit(w)
      PROVE  Cardinality(T2) + Cardinality(K2) <= Limit + N
  <2> DEFINE e == Head(todo[w])
  <2>1. ASSUME NEW v \in K2 PROVE v \in K \ {w}
    <3>1. /\ v \in Workers /\ pc'[v] \in {"present", "write"} /\ req'[v].kind = "form"
          /\ Head(todo'[v]).plan.PreferredDate.valid
          /\ Head(todo'[v]).plan.PreferredDate.time = d
      BY DEF Checked
    <3>2. ~UpdateDayFree(v)
      BY <1>6, <3>1, CommitAlone
    <3> QED
      BY <1>6, <3>1, <3>2, ProgressStep DEF Checked
  <2>2. /\ IsFiniteSet(K \ {w})
        /\ Cardinality(K \ {w}) = IF w \in K THEN Cardinality(K) - 1 ELSE Cardinality(K)
        /\ Cardinality(K2) <= Cardinality(K \ {w})
    BY <1>2, <2>1, FS_RemoveElement, FS_Subset
  <2>3. \A i \in DOMAIN subentro' :
          \/ subentro'[i] = RowFor(w, e)
          \/ i \in DOMAIN subentro /\ subentro'[i] = subentro[i]
    BY <1>6, CommitRows
  <2>4. IsFiniteSet(T \cup {e.comune})
        /\ Cardinality(T \cup {e.comune}) <= Cardinality(T) + 1
        /\ Cardinality(T \cup {e.comune}) \in Nat
    <3> HIDE DEF T
    <3>1. IsFiniteSet(T \cup {e.comune})
          /\ Cardinality(T \cup {e.comune}) = IF e.comune \in T THEN Cardinality(T)
                                              ELSE Cardinality(T) + 1
      BY <1>3, FS_AddElement
    <3> QED
      BY <1>3, <3>1
  <2>5. CASE w \in K
    <3>1. T2 \subseteq T \cup {e.comune}
      BY <2>3 DEF FormComuni, RowsOf, RowFor
    <3>2. Cardinality(T2) <= Cardinality(T) + 1
      <4> HIDE DEF T, T2
      <4>1. Cardinality(T2) <= Cardinality(T \cup {e.comune})
        BY <2>4, <3>1, FS_Subset
      <4>2. Cardinality(T2) \in Nat
        BY <2>4, <3>1, FS_Subset, FS_CardinalityType
      <4> QED
        BY <1>3, <2>4, <4>1, <4>2
    <3>3. Cardinality(T2) \in Nat
      <4> HIDE DEF T, T2
      <4> QED
        BY <2>4, <3>1, FS_Subset, FS_CardinalityType
    <3> HIDE DEF K, K2, T, T2, N
    <3> QED
      BY <1>2, <1>3, <1>4, <2>2, <2>5, <3>2, <3>3
  <2>6. CASE w \notin K
    <3>1. ~(RowFor(w, e).final = d /\ RowFor(w, e).via = "form")
      <4>1. e.plan.PreferredDate \in GivenTime /\ pc[w] = "write"
        BY <1>6, CommitEntry DEF Entry, GivenPlan, Commit
      <4>2. d # NULL
        BY DaysAssumption, NullAssumption
      <4> QED
        BY <2>6, <4>1, <4>2 DEF RowFor, FinalDateColumn, Checked
    <3>2. T2 \subseteq T
      BY <2>3, <3>1 DEF FormComuni, RowsOf
    <3>3. Cardinality(T2) <= Cardinality(T) /\ Cardinality(T2) \in Nat
      <4> HIDE DEF T, T2
      <4> QED
        BY <1>3, <3>2, FS_Subset, FS_CardinalityType
    <3> HIDE DEF K, K2, T, T2, N
    <3> QED
      BY <1>2, <1>3, <1>4, <2>2, <2>6, <3>3
  <2> QED
    BY <2>5, <2>6
<1>7. Cardinality(T2) + Cardinality(K2) <= Limit + N
  BY <1>5, <1>6, RowsStep
<1> QED
  BY <1>7

(***************************************************************************)
(* The form never places more comuni on a day than the limit plus the      *)
(* requests in progress: with n of them, the 55 comuni can become 55 + n,  *)
(* and no more, whatever the uploads do.                                   *)
(***************************************************************************)
THEOREM OvershootStaysBounded == Spec => []OvershootIsBounded
<1>1. Init => DayBound
  <2> SUFFICES ASSUME Init, NEW d \in Days
               PROVE  Cardinality(FormComuni(d)) + Cardinality(Checked(d))
                        <= Limit + Cardinality(Workers)
    BY DEF DayBound
  <2>1. FormComuni(d) = {} /\ Checked(d) = {}
    BY DEF Init, FormComuni, RowsOf, Checked
  <2> QED
    BY <2>1, FS_EmptySet, WorkersAreFinite, ConstantsAssumption
<1>2. TypeInv /\ DayBound => OvershootIsBounded
  <2> SUFFICES ASSUME TypeInv, DayBound, NEW d \in Days
               PROVE  Cardinality(FormComuni(d)) <= Limit + Cardinality(Workers)
    BY DEF OvershootIsBounded
  <2>1. Checked(d) \in SUBSET Workers
    BY DEF Checked
  <2> QED
    BY <2>1, WorkersAreFinite, FormComuniArePlanned, ConstantsAssumption DEF DayBound
<1> QED
  BY <1>1, <1>2, DayBoundNext, TypeInvariant, PTL DEF Spec

-----------------------------------------------------------------------------
(***************************************************************************)
(* Refusals.  A handler refuses before its first save only, and it has     *)
(* answered only when it returns.                                          *)
(***************************************************************************)
QuietOf(w) ==
  /\ pc[w] # "reply" => reply[w] = "none"
  /\ pc[w] \in {"idle", "search", "capacity", "read"} => saved[w] = {}
  /\ reply[w] \in {"400", "403", "404"} => saved[w] = {}

Quiet == \A w \in Workers : QuietOf(w)

LEMMA QuietNext == TypeInv /\ Quiet /\ [Next]_vars => Quiet'
<1> SUFFICES ASSUME TypeInv, Quiet, [Next]_vars, NEW v \in Workers PROVE QuietOf(v)'
  BY DEF Quiet
<1> USE DEF TypeInv, TypeOK, Quiet, QuietOf, PC, Goto, Answer
<1>1. ASSUME NEW w \in Workers, Receive(w) PROVE QuietOf(v)'
  BY <1>1 DEF Receive, outVars
<1>2. ASSUME NEW w \in Workers, Handle(w) PROVE QuietOf(v)'
  <2>1. CASE \/ UpdateUnparsed(w) \/ UpdateNotFound(w) \/ UpdateForbidden(w)
             \/ UpdateMalformed(w) \/ UpdateDayFull(w) \/ UploadNotify(w)
    BY <2>1
    DEF UpdateUnparsed, UpdateNotFound, UpdateForbidden, UpdateMalformed,
        UpdateDayFull, UploadNotify
  <2>2. CASE WriteFails(w) \/ UpdateNotify(w) \/ UploadBroken(w) \/ UploadDone(w)
    BY <2>2 DEF WriteFails, UpdateNotify, UploadBroken, Reading, UploadDone
  <2>3. CASE UpdateAccepted(w) \/ UpdateDayFree(w) \/ IsPresent(w) \/ UploadSave(w)
    BY <2>3 DEF UpdateAccepted, UpdateDayFree, IsPresent, UploadSave, outVars
  <2>4. CASE SaveIgnored(w) \/ Commit(w) \/ CommitLost(w)
    <3>1. \/ pc' = [pc EXCEPT ![w] = "notify"]
          \/ pc' = [pc EXCEPT ![w] = "present"]
      BY <2>4 DEF SaveIgnored, Commit, CommitLost, AfterSave
    <3>2. reply' = reply /\ reply[w] = "none"
      BY <2>4 DEF SaveIgnored, Commit, CommitLost, outVars
    <3>3. v # w => saved'[v] = saved[v]
      BY <2>4 DEF SaveIgnored, Commit, CommitLost, outVars
    <3> QED
      BY <3>1, <3>2, <3>3
  <2>5. CASE UploadSkip(w) \/ UploadAccept(w) \/ UploadReject(w)
    BY <2>5 DEF UploadSkip, UploadAccept, UploadReject, outVars
  <2>6. CASE Return(w)
    BY <2>6 DEF Return
  <2> QED
    BY <1>2, <2>1, <2>2, <2>3, <2>4, <2>5, <2>6 DEF Handle
<1>3. CASE Restart
  BY <1>3 DEF Restart
<1>4. CASE UpdateComuniCheckList \/ UpdateFornitore \/ Midnight \/ UNCHANGED vars
  BY <1>4 DEF UpdateComuniCheckList, UpdateFornitore, Midnight, vars, localVars, outVars
<1> QED
  BY <1>1, <1>2, <1>3, <1>4 DEF Next

(***************************************************************************)
(* A request that was refused saved nothing: uploads are all or nothing as *)
(* far as the errors of their rows go.                                     *)
(***************************************************************************)
THEOREM RefusalsSaveNothing == Spec => []RefusedSavesNothing
<1>1. Init => Quiet
  BY DEF Init, Quiet, QuietOf
<1>2. Quiet => RefusedSavesNothing
  BY DEF Quiet, QuietOf, RefusedSavesNothing
<1> QED
  BY <1>1, <1>2, QuietNext, TypeInvariant, PTL DEF Spec

-----------------------------------------------------------------------------
(***************************************************************************)
(* Acceptances.  While a request goes on, the plan of each item read so    *)
(* far waits to be saved or is saved, and an accepted plan has both ends,  *)
(* so that saving does not drop it.                                        *)
(***************************************************************************)
Waiting(w) == {todo[w][k] : k \in DOMAIN todo[w]}

Kept(S, item) ==
  HasValidDates(item.plan) => \E e \in S : e.plan = item.plan /\ e.comune \in item.match

ServedOf(w) ==
  /\ \A e \in Waiting(w) : HasValidDates(e.plan) => HasBothEnds(e.plan)
  /\ pc[w] = "read" /\ ~errors[w] =>
       \A k \in DOMAIN req[w].items : k < row[w] => Kept(Waiting(w), req[w].items[k])
  /\ pc[w] \in {"capacity", "present", "write"} =>
       \A k \in DOMAIN req[w].items : Kept(saved[w] \cup Waiting(w), req[w].items[k])
  /\ pc[w] \in {"capacity", "present", "write"} /\ req[w].kind = "form" =>
       Len(todo[w]) = 1
  /\ pc[w] = "notify" \/ reply[w] = "ok" =>
       \A k \in DOMAIN req[w].items : Kept(saved[w], req[w].items[k])

Served == ~Faults => \A w \in Workers : ServedOf(w)

\* The head of a sequence, and the rest.
LEMMA HeadAndRest ==
  ASSUME NEW S, NEW s \in Seq(S), s # << >>
  PROVE  {s[k] : k \in DOMAIN s} = {Head(s)} \cup {Tail(s)[k] : k \in DOMAIN Tail(s)}
<1>1. /\ Tail(s) \in Seq(S) /\ Len(Tail(s)) = Len(s) - 1 /\ Head(s) = s[1]
      /\ \A i \in 1 .. Len(Tail(s)) : Tail(s)[i] = s[i + 1]
  BY HeadTailProperties
<1>2. Len(s) \in Nat /\ Len(s) >= 1 /\ DOMAIN s = 1 .. Len(s)
      /\ DOMAIN Tail(s) = 1 .. Len(s) - 1
  BY <1>1, EmptySeq
<1>3. ASSUME NEW k \in DOMAIN s
      PROVE  s[k] \in {Head(s)} \cup {Tail(s)[j] : j \in DOMAIN Tail(s)}
  <2>1. CASE k = 1
    BY <1>1, <2>1
  <2>2. CASE k # 1
    <3>1. k - 1 \in DOMAIN Tail(s) /\ Tail(s)[k - 1] = s[k]
      BY <1>1, <1>2, <2>2
    <3> QED
      BY <3>1
  <2> QED
    BY <2>1, <2>2
<1>4. ASSUME NEW j \in DOMAIN Tail(s) PROVE \E k \in DOMAIN s : Tail(s)[j] = s[k]
  <2>1. j + 1 \in DOMAIN s /\ Tail(s)[j] = s[j + 1]
    BY <1>1, <1>2
  <2> QED
    BY <2>1
<1>5. 1 \in DOMAIN s
  BY <1>2
<1> DEFINE A == {s[k] : k \in DOMAIN s}
           B == {Head(s)} \cup {Tail(s)[k] : k \in DOMAIN Tail(s)}
<1>6. ASSUME NEW x \in A PROVE x \in B
  BY <1>3
<1>7. ASSUME NEW x \in B PROVE x \in A
  BY <1>1, <1>4, <1>5
<1>8. A = B
  BY <1>6, <1>7
<1> QED
  BY <1>8

\* A request of one goroutine does not touch the state of another.
LEMMA OthersStay ==
  ASSUME TypeInv, NEW w \in Workers, NEW v \in Workers, v # w, Receive(w) \/ Handle(w)
  PROVE  /\ pc'[v] = pc[v] /\ req'[v] = req[v] /\ row'[v] = row[v]
         /\ errors'[v] = errors[v] /\ todo'[v] = todo[v]
         /\ reply'[v] = reply[v] /\ saved'[v] = saved[v]
<1> USE DEF TypeInv, TypeOK, Goto, Answer, AfterSave, outVars
<1>1. CASE Receive(w)
  BY <1>1 DEF Receive
<1>2. CASE \/ UpdateUnparsed(w) \/ UpdateNotFound(w) \/ UpdateForbidden(w)
           \/ UpdateMalformed(w) \/ UpdateDayFull(w) \/ WriteFails(w)
           \/ UpdateNotify(w) \/ UploadBroken(w) \/ UploadDone(w) \/ UploadNotify(w)
  BY <1>2
  DEF UpdateUnparsed, UpdateNotFound, UpdateForbidden, UpdateMalformed, UpdateDayFull,
      WriteFails, UpdateNotify, UploadBroken, UploadDone, UploadNotify
<1>3. CASE \/ UpdateAccepted(w) \/ UpdateDayFree(w) \/ IsPresent(w) \/ UploadSave(w)
           \/ UploadSkip(w) \/ UploadAccept(w) \/ UploadReject(w)
  BY <1>3
  DEF UpdateAccepted, UpdateDayFree, IsPresent, UploadSave, UploadSkip, UploadAccept,
      UploadReject
<1>4. CASE SaveIgnored(w) \/ Commit(w) \/ CommitLost(w) \/ Return(w)
  BY <1>4 DEF SaveIgnored, Commit, CommitLost, Return
<1> QED
  BY <1>1, <1>2, <1>3, <1>4 DEF Handle

LEMMA ServedNext ==
  TypeInv /\ TypeInv' /\ Quiet /\ Served /\ [Next]_vars => Served'
<1> SUFFICES ASSUME TypeInv, TypeInv', Quiet, Served, [Next]_vars, ~Faults,
                    NEW w \in Workers
             PROVE  ServedOf(w)'
  BY DEF Served
<1>0. ServedOf(w) /\ QuietOf(w) /\ ControlOf(w)
  BY DEF Served, Quiet, TypeInv, Control
<1>a. /\ todo[w] \in Seq(Entry) /\ pc[w] \in PC
      /\ (pc[w] # "idle" => req[w] \in Requests)
  BY <1>0 DEF TypeInv, TypeOK, ControlOf
<1>b. ASSUME pc'[w] = pc[w], req'[w] = req[w], row'[w] = row[w], errors'[w] = errors[w],
             todo'[w] = todo[w], reply'[w] = reply[w], saved'[w] = saved[w]
      PROVE  ServedOf(w)'
  BY <1>0, <1>b DEF ServedOf, Waiting
<1>c. ASSUME NEW r \in Requests, NEW k \in DOMAIN r.items
      PROVE  r.items[k] \in Item /\ r.items[k].plan \in GivenPlan
  <2>1. r.items[k] \in Item
    BY ItemTypes
  <2> QED
    BY <2>1 DEF Item
<1>1. ASSUME NEW v \in Workers, v # w, Receive(v) \/ Handle(v) PROVE ServedOf(w)'
  BY <1>1, <1>b, OthersStay
<1>2. CASE Receive(w)
  <2>1. /\ pc[w] = "idle" /\ pc'[w] \in {"search", "read"}
        /\ reply[w] = "none" /\ reply'[w] = reply[w]
        /\ row'[w] = 1 /\ Waiting(w)' = Waiting(w)
    BY <1>0, <1>2 DEF Receive, QuietOf, TypeInv, TypeOK, Waiting, outVars
  <2>2. ASSUME NEW k \in DOMAIN req'[w].items, k < row'[w] PROVE FALSE
    <3>1. req'[w] \in Requests
      BY <1>2, <2>1 DEF Receive, TypeInv, TypeOK
    <3>2. DOMAIN req'[w].items = 1 .. Len(req'[w].items)
      BY <3>1, ItemTypes
    <3> QED
      BY <2>1, <2>2, <3>2
  <2> QED
    BY <1>0, <2>1, <2>2 DEF ServedOf
<1>3. CASE \/ UpdateUnparsed(w) \/ UpdateNotFound(w) \/ UpdateForbidden(w)
           \/ UpdateMalformed(w) \/ UpdateDayFull(w) \/ WriteFails(w)
           \/ UploadBroken(w) \/ UploadNotify(w)
  <2>1. pc'[w] = "reply" /\ reply'[w] # "ok" /\ Waiting(w)' = Waiting(w)
    BY <1>3
    DEF UpdateUnparsed, UpdateNotFound, UpdateForbidden, UpdateMalformed, UpdateDayFull,
        WriteFails, UploadBroken, UploadNotify, Answer, Goto, TypeInv, TypeOK, Waiting
  <2> QED
    BY <1>0, <2>1 DEF ServedOf
<1>4. CASE UpdateAccepted(w)
  <2> DEFINE item == req[w].items[1]
  <2>1. req[w] \in Requests /\ req[w].kind = "form" /\ pc[w] = "search"
    BY <1>0, <1>4 DEF UpdateAccepted, ControlOf
  <2>a. DOMAIN req[w].items = {1}
    BY <2>1, ItemTypes
  <2>2. item \in Item /\ item.plan \in GivenPlan
    BY <1>c, <2>1, <2>a
  <2>3. PICK r \in SearchComuni(item.match) :
          /\ IsWellFormed(item.plan, ComuneOf(r), today)
          /\ todo' = [todo EXCEPT ![w] = <<EntryFor(r, item)>>]
    BY <1>4 DEF UpdateAccepted
  <2>4. /\ todo'[w] = <<EntryFor(r, item)>> /\ Waiting(w)' = {EntryFor(r, item)}
        /\ Len(todo'[w]) = 1
    BY <2>3 DEF TypeInv, TypeOK, Waiting
  <2>5. EntryFor(r, item).plan = item.plan /\ EntryFor(r, item).comune \in item.match
    BY DEF EntryFor, SearchComuni
  <2>6. HasValidDates(item.plan) => HasBothEnds(item.plan)
    BY <2>2, <2>3, WellFormedHasBothEnds
  <2>7. /\ pc'[w] \in {"capacity", "present"} /\ req' = req /\ saved' = saved
        /\ reply'[w] = "none"
    BY <1>0, <1>4 DEF UpdateAccepted, Goto, TypeInv, TypeOK, outVars, QuietOf
  <2> QED
    BY <2>a, <2>2, <2>4, <2>5, <2>6, <2>7 DEF ServedOf, Kept
<1>5. CASE UpdateDayFree(w) \/ IsPresent(w)
  <2>1. /\ pc[w] \in {"capacity", "present"} /\ pc'[w] \in {"present", "write"}
        /\ req' = req /\ todo' = todo /\ saved' = saved /\ reply' = reply
        /\ reply[w] = "none"
    BY <1>0, <1>5 DEF UpdateDayFree, IsPresent, Goto, TypeInv, TypeOK, outVars, QuietOf
  <2> QED
    BY <1>0, <2>1 DEF ServedOf, Waiting
<1>6. CASE SaveIgnored(w) \/ Commit(w)
  <2> DEFINE e == Head(todo[w])
  <2>1. /\ pc[w] \in {"present", "write"} /\ todo[w] # << >> /\ AfterSave(w)
        /\ req' = req /\ reply' = reply /\ reply[w] = "none"
    BY <1>0, <1>6 DEF SaveIgnored, Commit, outVars, QuietOf, ControlOf
  <2>2. Waiting(w) = {e} \cup {Tail(todo[w])[k] : k \in DOMAIN Tail(todo[w])}
    BY <1>a, <2>1, HeadAndRest DEF Waiting
  <2>3. saved[w] \subseteq saved'[w] /\ (HasValidDates(e.plan) => e \in saved'[w])
    <3>1. CASE SaveIgnored(w)
      <4>1. ~HasBothEnds(e.plan) /\ saved' = saved
        BY <3>1 DEF SaveIgnored, outVars
      <4> QED
        BY <1>0, <2>2, <4>1 DEF ServedOf
    <3>2. CASE Commit(w)
      BY <3>2 DEF Commit, TypeInv, TypeOK
    <3> QED
      BY <1>6, <3>1, <3>2
  <2>4. \A k \in DOMAIN req[w].items : Kept(saved[w] \cup Waiting(w), req[w].items[k])
    BY <1>0, <2>1 DEF ServedOf
  <2>5. CASE req[w].kind = "form"
    <3>a. Len(todo[w]) = 1
      BY <1>0, <2>1, <2>5 DEF ServedOf
    <3>1. DOMAIN Tail(todo[w]) = {}
      <4>1. Len(Tail(todo[w])) = Len(todo[w]) - 1
        BY <1>a, <2>1, HeadTailProperties
      <4>2. DOMAIN Tail(todo[w]) = 1 .. Len(Tail(todo[w]))
        BY <1>a, <2>1
      <4>3. Len(Tail(todo[w])) = 0
        BY <3>a, <4>1
      <4>4. 1 .. 0 = {}
        OBVIOUS
      <4>5. DOMAIN Tail(todo[w]) = 1 .. 0
        BY <4>2, <4>3, Zenon
      <4> QED
        BY <4>4, <4>5, Zenon
    <3>2. Waiting(w) = {e}
      BY <2>2, <3>1
    <3>3. pc'[w] = "notify" /\ todo' = todo
      BY <2>1, <2>5 DEF AfterSave, Goto, TypeInv, TypeOK
    <3>4. \A k \in DOMAIN req[w].items : Kept(saved'[w], req[w].items[k])
      BY <2>3, <2>4, <3>2 DEF Kept
    <3>5. Waiting(w)' = Waiting(w)
      BY <3>3 DEF Waiting
    <3> QED
      BY <1>0, <2>1, <3>3, <3>4, <3>5 DEF ServedOf
  <2>6. CASE req[w].kind = "csv"
    <3>1. pc'[w] = "present" /\ todo'[w] = Tail(todo[w])
      BY <2>1, <2>6 DEF AfterSave, Goto, TypeInv, TypeOK
    <3>2. Waiting(w)' = {Tail(todo[w])[k] : k \in DOMAIN Tail(todo[w])}
      BY <3>1 DEF Waiting
    <3>3. Waiting(w)' \subseteq Waiting(w)
      BY <2>2, <3>2
    <3>4. \A k \in DOMAIN req[w].items :
            Kept(saved'[w] \cup Waiting(w)', req[w].items[k])
      BY <2>2, <2>3, <2>4, <3>2 DEF Kept
    <3> QED
      BY <1>0, <2>1, <2>6, <3>1, <3>3, <3>4 DEF ServedOf
  <2>7. req[w].kind \in {"form", "csv"}
    BY <1>a, <2>1, ItemTypes
  <2> QED
    BY <2>5, <2>6, <2>7
<1>7. CASE UpdateNotify(w)
  <2>1. pc[w] = "notify" /\ pc'[w] = "reply" /\ req' = req /\ todo' = todo /\ saved' = saved
    BY <1>7 DEF UpdateNotify, Answer, Goto, TypeInv, TypeOK
  <2> QED
    BY <1>0, <2>1 DEF ServedOf, Waiting
<1>8. CASE UploadSkip(w) \/ UploadReject(w)
  <2> DEFINE item == NextItem(w)
  <2>1. /\ pc[w] = "read" /\ pc' = pc /\ req' = req /\ todo' = todo /\ saved' = saved
        /\ reply' = reply /\ row'[w] = row[w] + 1 /\ row[w] \in Nat
        /\ (errors'[w] = errors[w] /\ ~HasValidDates(item.plan)) \/ errors'[w]
    BY <1>8 DEF UploadSkip, UploadReject, Reading, TypeInv, TypeOK, outVars
  <2>2. ASSUME ~errors'[w], NEW k \in DOMAIN req[w].items, k < row[w] + 1
        PROVE  Kept(Waiting(w), req[w].items[k])
    <3>1. ~HasValidDates(item.plan) /\ ~errors[w]
      BY <2>1, <2>2
    <3>2. k < row[w] \/ k = row[w]
      BY <1>a, <2>1, ItemTypes, <2>2
    <3>3. CASE k = row[w]
      BY <3>1, <3>3 DEF NextItem, Kept
    <3>4. CASE k < row[w]
      BY <1>0, <2>1, <3>1, <3>4 DEF ServedOf
    <3> QED
      BY <3>2, <3>3, <3>4
  <2>3. Waiting(w)' = Waiting(w)
    BY <2>1 DEF Waiting
  <2> QED
    BY <1>0, <2>1, <2>2, <2>3 DEF ServedOf
<1>9. CASE UploadAccept(w)
  <2> DEFINE item == NextItem(w)
  <2>1. /\ pc[w] = "read" /\ pc' = pc /\ req' = req /\ errors' = errors /\ saved' = saved
        /\ reply' = reply /\ row'[w] = row[w] + 1 /\ row[w] \in Nat
        /\ HasValidDates(item.plan) /\ row[w] >= 1 /\ row[w] <= Len(req[w].items)
    BY <1>0, <1>9 DEF UploadAccept, Reading, TypeInv, TypeOK, outVars, ControlOf
  <2>2. row[w] \in DOMAIN req[w].items /\ DOMAIN req[w].items \subseteq Nat
    BY <1>a, <2>1, ItemTypes
  <2>3. item \in Item /\ item.plan \in GivenPlan
    BY <1>a, <1>c, <2>1, <2>2 DEF NextItem
  <2>4. PICK r \in SearchComuni(item.match) :
          /\ IsWellFormed(item.plan, ComuneOf(r), today)
          /\ todo' = IF item.plan.From.valid
                     THEN [todo EXCEPT ![w] = Append(@, EntryFor(r, item))]
                     ELSE todo
    BY <1>9 DEF UploadAccept, UploadAccepts
  <2>5. HasBothEnds(item.plan)
    BY <2>1, <2>3, <2>4, WellFormedHasBothEnds
  <2>6. todo'[w] = Append(todo[w], EntryFor(r, item))
    BY <2>4, <2>5 DEF HasBothEnds, TypeInv, TypeOK
  <2>7. Waiting(w)' = Waiting(w) \cup {EntryFor(r, item)}
    BY <1>a, <2>6 DEF Waiting
  <2>8. /\ EntryFor(r, item).plan = item.plan /\ EntryFor(r, item).comune \in item.match
    BY DEF EntryFor, SearchComuni
  <2>9. ASSUME ~errors[w], NEW k \in DOMAIN req[w].items, k < row[w] + 1
        PROVE  Kept(Waiting(w)', req[w].items[k])
    <3>1. k < row[w] \/ k = row[w]
      BY <2>1, <2>2, <2>9
    <3>2. CASE k = row[w]
      BY <2>7, <2>8, <3>2 DEF NextItem, Kept
    <3>3. CASE k < row[w]
      <4>1. Kept(Waiting(w), req[w].items[k])
        BY <1>0, <2>1, <2>9, <3>3 DEF ServedOf
      <4> QED
        BY <2>7, <4>1 DEF Kept
    <3> QED
      BY <3>1, <3>2, <3>3
  <2>10. reply[w] = "none"
    BY <1>0, <2>1 DEF QuietOf
  <2> QED
    BY <1>0, <2>1, <2>5, <2>7, <2>8, <2>9, <2>10 DEF ServedOf
<1>10. CASE UploadSave(w)
  <2>1. /\ pc[w] = "read" /\ pc'[w] = "present" /\ ~errors[w] /\ row[w] > Len(req[w].items)
        /\ req' = req /\ todo' = todo /\ saved' = saved /\ reply' = reply
        /\ req[w].kind = "csv" /\ reply[w] = "none" /\ row[w] \in Nat
    BY <1>0, <1>10
    DEF UploadSave, Goto, TypeInv, TypeOK, outVars, ControlOf, QuietOf
  <2>2. \A k \in DOMAIN req[w].items : k < row[w]
    BY <1>a, <2>1, ItemTypes
  <2>3. \A k \in DOMAIN req[w].items : Kept(Waiting(w), req[w].items[k])
    BY <1>0, <2>1, <2>2 DEF ServedOf
  <2>4. Waiting(w)' = Waiting(w)
    BY <2>1 DEF Waiting
  <2> QED
    BY <1>0, <2>1, <2>3, <2>4 DEF ServedOf, Kept
<1>11. CASE UploadDone(w)
  <2>1. /\ pc[w] = "present" /\ todo[w] = << >> /\ pc'[w] = "reply"
        /\ req' = req /\ todo' = todo /\ saved' = saved
    BY <1>11 DEF UploadDone, Answer, Goto, TypeInv, TypeOK
  <2>2. Waiting(w) = {} /\ Waiting(w)' = {}
    BY <2>1 DEF Waiting
  <2> QED
    BY <1>0, <2>1, <2>2 DEF ServedOf
<1>12. CASE Return(w) \/ Restart
  <2>1. pc'[w] = "idle" /\ todo'[w] = << >> /\ reply'[w] = "none"
    BY <1>12 DEF Return, Restart, Goto, TypeInv, TypeOK
  <2>2. Waiting(w)' = {}
    BY <2>1 DEF Waiting
  <2> QED
    BY <2>1, <2>2 DEF ServedOf
<1>13. CASE UpdateComuniCheckList \/ UpdateFornitore \/ Midnight \/ UNCHANGED vars
  BY <1>13, <1>b
  DEF UpdateComuniCheckList, UpdateFornitore, Midnight, vars, localVars, outVars
<1>14. ~CommitLost(w)
  BY DEF CommitLost
<1> QED
  BY <1>1, <1>2, <1>3, <1>4, <1>5, <1>6, <1>7, <1>8, <1>9, <1>10, <1>11, <1>12, <1>13, <1>14
  DEF Next, Handle

(***************************************************************************)
(* Unless the database fails, an answer "ok" means that every plan given   *)
(* with a date was saved, whatever else runs: the early return of          *)
(* SaveOrUpdateSubentro never drops an accepted plan that has a date.      *)
(***************************************************************************)
THEOREM OkAnswersSaved == Spec => []OkMeansSaved
<1>1. Init => Served
  BY DEF Init, Served, ServedOf, Waiting
<1>2. Served => OkMeansSaved
  BY DEF Served, ServedOf, Kept, OkMeansSaved
<1>3. Init => Quiet
  BY DEF Init, Quiet, QuietOf
<1> QED
  BY <1>1, <1>2, <1>3, QuietNext, ServedNext, TypeInvariant, PTL DEF Spec
-----------------------------------------------------------------------------
(***************************************************************************)
(* PlanStore implements PlanRegister, for any number of requests in        *)
(* progress, any comuni, plans, files, limit and days, and with database   *)
(* faults and restarts; and the serial register, when requests do not      *)
(* overlap and no file names a comune twice.                               *)
(***************************************************************************)
\* An entry of a handler as the register sees it.
OfferOf(e) == [comune |-> e.comune, plan |-> e.plan, old |-> e.old]

LEMMA OffersAre ==
  ASSUME NEW o
  PROVE  o \in OffersInProgress <=>
           \E w \in Workers : \E k \in DOMAIN todo[w] : o = OfferOf(todo[w][k])
  BY DEF OffersInProgress, OfferOf

LEMMA OffersAreNext ==
  ASSUME NEW o
  PROVE  o \in OffersInProgress' <=>
           \E w \in Workers : \E k \in DOMAIN todo'[w] : o = OfferOf(todo'[w][k])
  BY DEF OffersInProgress, OfferOf

(***************************************************************************)
(* A row is read back as AsStored says.                                    *)
(***************************************************************************)
LEMMA RowIsAsStored ==
  ASSUME NEW w, NEW e \in Entry, HasBothEnds(e.plan)
  PROVE  SubentroFromRow(RowFor(w, e)) = AsStored(e.plan)
<1>1. e.plan.PreferredDate \in GivenTime
  BY DEF Entry, GivenPlan
<1>2. CASE e.plan.PreferredDate.valid
  <2>1. e.plan.PreferredDate.time # NULL
    BY <1>1, GivenTimes, NullAssumption
  <2> QED
    BY <1>2, <2>1 DEF SubentroFromRow, RowFor, FinalDateColumn, AsStored
<1>3. CASE ~e.plan.PreferredDate.valid
  BY <1>3 DEF SubentroFromRow, RowFor, FinalDateColumn, AsStored
<1> QED
  BY <1>2, <1>3

(***************************************************************************)
(* What a handler accepts, the register may accept: the row found is one   *)
(* of the comune, and stands for the plan that is replaced.                *)
(***************************************************************************)
LEMMA AcceptedIsAllowed ==
  ASSUME TypeOK, NEW e, Accepted(e)
  PROVE  /\ e.comune \in Comuni
         /\ e.old \in Register!Present(e.comune)
         /\ Allowed(e.plan, e.old, today)
<1>0. PICK item \in Item : \E r \in SearchComuni(item.match) :
        /\ IsWellFormed(item.plan, ComuneOf(r), today)
        /\ e = EntryFor(r, item)
  BY DEF Accepted
<1>1. PICK r \in SearchComuni(item.match) :
        /\ IsWellFormed(item.plan, ComuneOf(r), today)
        /\ e = EntryFor(r, item)
  BY <1>0
<1>2. /\ r[1] \in Comuni
      /\ IF r[2] = 0 THEN RowsOf(r[1]) = {} ELSE r[2] \in RowsOf(r[1])
  BY DEF SearchComuni, Item
<1>3. e.comune = r[1] /\ e.plan = item.plan /\ e.old = ComuneOf(r).Subentro
  BY <1>1 DEF EntryFor
<1>4. e.old \in Register!Present(e.comune)
  <2>1. PlansInTable[r[1]] = {SubentroFromRow(subentro[i]) : i \in RowsOf(r[1])}
    BY <1>2 DEF PlansInTable
  <2>2. CASE r[2] = 0
    BY <1>2, <1>3, <2>1, <2>2 DEF Register!Present, ComuneOf
  <2>3. CASE r[2] # 0
    BY <1>2, <1>3, <2>1, <2>3 DEF Register!Present, ComuneOf
  <2> QED
    BY <2>2, <2>3
<1>5. Allowed(e.plan, e.old, today)
  <2>1. /\ ComuneOf(r) = [Subentro        |-> e.old,
                          DataPresubentro |-> stato[r[1]].presubentro,
                          DataConsegnaSm  |-> stato[r[1]].consegna]
        /\ stato[r[1]].presubentro \in BOOLEAN
        /\ stato[r[1]].consegna \in BOOLEAN
    BY <1>2, <1>3 DEF ComuneOf, TypeOK, State
  <2> QED
    BY <1>1, <1>3, <2>1 DEF Allowed
<1> QED
  BY <1>2, <1>3, <1>4, <1>5

-----------------------------------------------------------------------------
(***************************************************************************)
(* A step that writes no plan and no day is an Accept, perhaps of nothing. *)
(***************************************************************************)
LEMMA QuietStep ==
  ASSUME TypeInv, [Next]_vars, subentro' = subentro, today' = today
  PROVE  Register!Accept
<1>1. PlansInTable' = PlansInTable
  BY DEF PlansInTable, RowsOf
<1>2. ASSUME NEW o \in OffersInProgress', o \notin OffersInProgress
      PROVE  /\ o.comune \in Comuni
             /\ o.old \in Register!Present(o.comune)
             /\ Allowed(o.plan, o.old, today)
  <2>0. PICK w \in Workers : \E k \in DOMAIN todo'[w] : o = OfferOf(todo'[w][k])
    BY <1>2, OffersAreNext
  <2>1. PICK k \in DOMAIN todo'[w] : o = OfferOf(todo'[w][k])
    BY <2>0
  <2>2. Accepted(todo'[w][k])
    <3>1. ~ \E j \in DOMAIN todo[w] : todo'[w][k] = todo[w][j]
      BY <1>2, <2>1, OffersAre
    <3> QED
      BY <3>1, TodoStep
  <2> QED
    BY <2>1, <2>2, AcceptedIsAllowed DEF OfferOf, TypeInv
<1> QED
  BY <1>1, <1>2 DEF Register!Accept

(***************************************************************************)
(* A commit stores the offer at the head, and leaves no new one.           *)
(***************************************************************************)
LEMMA CommitOffers ==
  ASSUME TypeInv, NEW w \in Workers, Commit(w)
  PROVE  /\ OfferOf(Head(todo[w])) \in OffersInProgress
         /\ OffersInProgress' \subseteq OffersInProgress
<1>1. todo \in [Workers -> Seq(Entry)] /\ todo[w] # << >>
  BY CommitEntry DEF TypeInv, TypeOK
<1>2. OfferOf(Head(todo[w])) \in OffersInProgress
  BY CommitEntry, OffersAre
<1>3. ASSUME NEW o \in OffersInProgress' PROVE o \in OffersInProgress
  <2>0. PICK v \in Workers : \E k \in DOMAIN todo'[v] : o = OfferOf(todo'[v][k])
    BY OffersAreNext
  <2>1. PICK k \in DOMAIN todo'[v] : o = OfferOf(todo'[v][k])
    BY <2>0
  <2>2. CASE todo' = todo
    BY <2>1, <2>2, OffersAre
  <2>3. CASE todo' = [todo EXCEPT ![w] = Tail(todo[w])] /\ v = w
    <3>1. /\ Len(Tail(todo[w])) = Len(todo[w]) - 1
          /\ Tail(todo[w]) \in Seq(Entry)
          /\ \A i \in 1 .. Len(Tail(todo[w])) : Tail(todo[w])[i] = todo[w][i + 1]
      BY <1>1, HeadTailProperties
    <3>2. todo'[v] = Tail(todo[w]) /\ k \in 1 .. Len(Tail(todo[w]))
      BY <1>1, <2>1, <2>3, <3>1
    <3>3. k + 1 \in DOMAIN todo[w] /\ todo'[v][k] = todo[w][k + 1]
      BY <1>1, <3>1, <3>2
    <3> QED
      BY <2>1, <3>3, OffersAre
  <2>4. CASE todo' = [todo EXCEPT ![w] = Tail(todo[w])] /\ v # w
    <3>1. todo'[v] = todo[v]
      BY <1>1, <2>4
    <3> QED
      BY <2>1, <3>1, OffersAre
  <2> QED
    BY <2>2, <2>3, <2>4 DEF Commit, AfterSave
<1> QED
  BY <1>2, <1>3

LEMMA CommitStep ==
  ASSUME TypeInv, NEW w \in Workers, Commit(w)
  PROVE  \/ Register!Accept
         \/ Register!Store(OfferOf(Head(todo[w])))
<1> DEFINE e == Head(todo[w])
           c == e.comune
           New == AsStored(e.plan)
<1>1. /\ e \in Entry /\ c \in Comuni
      /\ SubentroFromRow(RowFor(w, e)) = New
      /\ RowFor(w, e).comune = c
  BY CommitEntry, RowIsAsStored DEF Entry, RowFor
<1>2. subentro \in Seq(Row) /\ today' = today
  BY DEF TypeInv, TypeOK, Commit
<1>3. OfferOf(e) \in OffersInProgress /\ OffersInProgress' \subseteq OffersInProgress
  BY CommitOffers
<1>4. CASE present[w] /\ RowsOf(c) # {}
  <2>1. subentro' = UpdateRows(w, e)
    BY <1>4 DEF Commit
  <2>2. /\ DOMAIN subentro' = DOMAIN subentro
        /\ \A i \in DOMAIN subentro :
             subentro'[i] = IF subentro[i].comune = c THEN RowFor(w, e) ELSE subentro[i]
    BY <2>1 DEF UpdateRows
  <2>3. \A d \in Comuni : RowsOf(d)' = RowsOf(d)
    BY <1>1, <2>2 DEF RowsOf
  <2>4. ASSUME NEW d \in Comuni
        PROVE  PlansInTable'[d] = IF d = c THEN {New} ELSE PlansInTable[d]
    <3>1. PlansInTable'[d] = {SubentroFromRow(subentro'[i]) : i \in RowsOf(d)}
      BY <2>3 DEF PlansInTable
    <3>2. CASE d = c
      <4>1. \A i \in RowsOf(c) : SubentroFromRow(subentro'[i]) = New
        BY <1>1, <2>2 DEF RowsOf
      <4> QED
        BY <1>4, <3>1, <3>2, <4>1
    <3>3. CASE d # c
      <4>1. \A i \in RowsOf(d) : subentro'[i] = subentro[i]
        BY <2>2, <3>3 DEF RowsOf
      <4> QED
        BY <3>1, <3>3, <4>1 DEF PlansInTable
    <3> QED
      BY <3>2, <3>3
  <2>5. PlansInTable' = [PlansInTable EXCEPT ![c] = {New}]
    BY <1>1, <2>4 DEF PlansInTable
  <2> QED
    BY <1>2, <1>3, <2>5 DEF Register!Store, OfferOf
<1>5. CASE present[w] /\ RowsOf(c) = {}
  <2>1. subentro' = UpdateRows(w, e)
    BY <1>5 DEF Commit
  <2>2. UpdateRows(w, e) = [i \in DOMAIN subentro |-> subentro[i]]
    BY <1>5 DEF UpdateRows, RowsOf
  <2>3. subentro' = subentro
    BY <1>2, <2>1, <2>2
  <2>4. Next
    BY DEF Next, Handle
  <2> QED
    BY <1>2, <2>3, <2>4, QuietStep
<1>6. CASE ~present[w]
  <2>1. subentro' = Append(subentro, RowFor(w, e))
    BY <1>6 DEF Commit, InsertRow
  <2>2. /\ DOMAIN subentro = 1 .. Len(subentro) /\ Len(subentro) \in Nat
        /\ DOMAIN subentro' = 1 .. Len(subentro) + 1
        /\ subentro'[Len(subentro) + 1] = RowFor(w, e)
        /\ \A i \in DOMAIN subentro : subentro'[i] = subentro[i]
    BY <1>2, <2>1
  <2>3. ASSUME NEW d \in Comuni
        PROVE  PlansInTable'[d] = IF d = c THEN PlansInTable[d] \cup {New}
                                  ELSE PlansInTable[d]
    <3>1. PlansInTable'[d] = {SubentroFromRow(subentro'[i]) : i \in RowsOf(d)'}
      BY DEF PlansInTable
    <3>2. RowsOf(d)' = IF d = c THEN RowsOf(d) \cup {Len(subentro) + 1} ELSE RowsOf(d)
      BY <1>1, <2>2 DEF RowsOf
    <3>3. \A i \in RowsOf(d) : subentro'[i] = subentro[i]
      BY <2>2 DEF RowsOf
    <3>4. PlansInTable[d] = {SubentroFromRow(subentro[i]) : i \in RowsOf(d)}
      BY DEF PlansInTable
    <3> QED
      BY <1>1, <2>2, <3>1, <3>2, <3>3, <3>4
  <2>4. PlansInTable' = [PlansInTable EXCEPT ![c] = @ \cup {New}]
    BY <1>1, <2>3 DEF PlansInTable
  <2> QED
    BY <1>2, <1>3, <2>4 DEF Register!Store, OfferOf
<1> QED
  BY <1>4, <1>5, <1>6

(***************************************************************************)
(* A midnight moves the day and nothing else.                              *)
(***************************************************************************)
LEMMA MidnightStep ==
  ASSUME Midnight
  PROVE  Register!Day
<1>1. PlansInTable' = PlansInTable
  BY DEF Midnight, dbVars, PlansInTable, RowsOf
<1>2. OffersInProgress' = OffersInProgress
  BY DEF Midnight, localVars, OffersInProgress
<1> QED
  BY <1>1, <1>2 DEF Midnight, Register!Day

LEMMA DayStep ==
  ASSUME [Next]_vars
  PROVE  today' = today \/ Midnight
<1>1. ASSUME NEW w \in Workers, Receive(w) \/ Handle(w) PROVE today' = today
  BY <1>1
  DEF Receive, Handle, UpdateUnparsed, UpdateNotFound, UpdateForbidden, UpdateMalformed,
      UpdateAccepted, UpdateDayFull, UpdateDayFree, SaveIgnored, IsPresent, Commit,
      CommitLost, WriteFails, UpdateNotify, UploadBroken, UploadSkip,
      UploadAccept, UploadReject, UploadSave, UploadDone, UploadNotify, Return
<1> QED
  BY <1>1 DEF Next, UpdateComuniCheckList, UpdateFornitore, Restart, vars

-----------------------------------------------------------------------------
(***************************************************************************)
(* The tables start as an empty register.                                  *)
(***************************************************************************)
LEMMA RegisterInit == Init => Register!Init
<1> SUFFICES ASSUME Init PROVE Register!Init
  OBVIOUS
<1>1. PlansInTable = [c \in Comuni |-> {}]
  BY DEF Init, PlansInTable, RowsOf
<1>2. OffersInProgress = {}
  BY DEF Init, OffersInProgress
<1>3. today \in Nat
  BY ConstantsAssumption DEF Init
<1> QED
  BY <1>1, <1>2, <1>3 DEF Register!Init

LEMMA RegisterNext == TypeInv /\ [Next]_vars => [Register!Next]_(Register!vars)
<1> SUFFICES ASSUME TypeInv, [Next]_vars PROVE Register!Next
  OBVIOUS
<1>1. CASE Midnight
  BY <1>1, MidnightStep DEF Register!Next
<1>2. CASE \E w \in Workers : Commit(w)
  BY <1>2, CommitStep, CommitOffers DEF Register!Next
<1>3. CASE subentro' = subentro /\ today' = today
  BY <1>3, QuietStep DEF Register!Next
<1> QED
  BY <1>1, <1>2, <1>3, RowsStep, DayStep

(***************************************************************************)
(* Every plan in the table was allowed on some day in place of one that    *)
(* its comune had on that day, whatever overlaps, fails or stops.          *)
(***************************************************************************)
THEOREM StoreImplementsRegister == Spec => ImplementsRegister
<1>1. Spec => Register!Spec
  BY RegisterInit, RegisterNext, TypeInvariant, PTL DEF Spec, Register!Spec
<1> QED
  BY <1>1 DEF ImplementsRegister

-----------------------------------------------------------------------------
(***************************************************************************)
(* One request at a time, whose file names no comune twice.  The plans it  *)
(* waits to save were judged against plans that are still in the table,    *)
(* and are of different comuni: a save disturbs none of those after it.    *)
(***************************************************************************)
Fresh(e) ==
  /\ e.old \in Register!Present(e.comune)
  /\ MovedNotToPast(e.plan, e.old, e.judged)

SerialOf(w) ==
  /\ pc[w] = "idle" => todo[w] = << >>
  /\ pc[w] \in {"read", "capacity", "present", "write"} =>
       /\ \A e \in Waiting(w) : Fresh(e)
       /\ \A j, k \in DOMAIN todo[w] : j # k => todo[w][j].comune # todo[w][k].comune
  /\ pc[w] = "read" =>
       \A k \in DOMAIN todo[w] : \E i \in DOMAIN req[w].items :
         /\ i < row[w] /\ Counts(req[w].items[i])
         /\ todo[w][k].comune \in req[w].items[i].match

Serial == \A w \in Workers : SerialOf(w)

LEMMA OneWorkerOnly ==
  ASSUME Cardinality(Workers) = 1, NEW v \in Workers, NEW w \in Workers
  PROVE  v = w
  BY ConstantsAssumption, FS_Singleton

LEMMA AcceptedIsFresh ==
  ASSUME TypeOK, NEW e, Accepted(e)
  PROVE  Fresh(e)
<1>1. e.old \in Register!Present(e.comune)
  BY AcceptedIsAllowed
<1>2. MovedNotToPast(e.plan, e.old, e.judged)
  BY DEF Accepted, EntryFor, IsWellFormed
<1> QED
  BY <1>1, <1>2 DEF Fresh

LEMMA SameTableSamePlans ==
  ASSUME subentro' = subentro
  PROVE  \A e : Fresh(e) => Fresh(e)'
<1>1. PlansInTable' = PlansInTable
  BY DEF PlansInTable, RowsOf
<1> QED
  BY <1>1 DEF Fresh, Register!Present

\* A commit leaves the other comuni as they are.
LEMMA OtherComuniStay ==
  ASSUME TypeInv, NEW w \in Workers, Commit(w),
         NEW e, e.comune \in Comuni, e.comune # Head(todo[w]).comune, Fresh(e)
  PROVE  Fresh(e)'
<1> DEFINE d == e.comune
<1>0. subentro \in Seq(Row) /\ RowFor(w, Head(todo[w])).comune # d
  BY DEF TypeInv, TypeOK, RowFor
<1>1. /\ RowsOf(d)' = RowsOf(d)
      /\ \A i \in RowsOf(d) : subentro'[i] = subentro[i]
  <2>1. CASE present[w]
    <3>1. /\ DOMAIN subentro' = DOMAIN subentro
          /\ \A i \in DOMAIN subentro :
               subentro'[i] = IF subentro[i].comune = Head(todo[w]).comune
                              THEN RowFor(w, Head(todo[w])) ELSE subentro[i]
      BY <2>1 DEF Commit, UpdateRows
    <3> QED
      BY <1>0, <3>1 DEF RowsOf
  <2>2. CASE ~present[w]
    <3>1. subentro' = Append(subentro, RowFor(w, Head(todo[w])))
      BY <2>2 DEF Commit, InsertRow
    <3>2. /\ DOMAIN subentro = 1 .. Len(subentro) /\ Len(subentro) \in Nat
          /\ DOMAIN subentro' = 1 .. Len(subentro) + 1
          /\ subentro'[Len(subentro) + 1] = RowFor(w, Head(todo[w]))
          /\ \A i \in DOMAIN subentro : subentro'[i] = subentro[i]
      BY <1>0, <3>1
    <3> QED
      BY <1>0, <3>2 DEF RowsOf
  <2> QED
    BY <2>1, <2>2
<1>2. PlansInTable'[d] = PlansInTable[d]
  <2>1. PlansInTable'[d] = {SubentroFromRow(subentro'[i]) : i \in RowsOf(d)}
    BY <1>1 DEF PlansInTable
  <2>2. PlansInTable[d] = {SubentroFromRow(subentro[i]) : i \in RowsOf(d)}
    BY DEF PlansInTable
  <2> QED
    BY <1>1, <2>1, <2>2
<1> QED
  BY <1>2 DEF Fresh, Register!Present

\* What waits after the head is saved or dropped.
LEMMA TailStaysSerial ==
  ASSUME TypeInv, NEW w \in Workers, todo[w] # << >>,
         \A j, k \in DOMAIN todo[w] : j # k => todo[w][j].comune # todo[w][k].comune,
         todo' = [todo EXCEPT ![w] = Tail(todo[w])]
  PROVE  /\ \A e \in Waiting(w)' :
              /\ e \in Waiting(w) /\ e.comune \in Comuni
              /\ e.comune # Head(todo[w]).comune
         /\ \A j, k \in DOMAIN todo'[w] : j # k => todo'[w][j].comune # todo'[w][k].comune
<1>1. /\ todo[w] \in Seq(Entry) /\ todo'[w] = Tail(todo[w])
      /\ Tail(todo[w]) \in Seq(Entry)
      /\ Len(Tail(todo[w])) = Len(todo[w]) - 1
      /\ Head(todo[w]) = todo[w][1]
      /\ \A i \in 1 .. Len(Tail(todo[w])) : Tail(todo[w])[i] = todo[w][i + 1]
  BY HeadTailProperties DEF TypeInv, TypeOK
<1>2. /\ Len(todo[w]) \in Nat \ {0}
      /\ DOMAIN todo[w] = 1 .. Len(todo[w])
      /\ DOMAIN todo'[w] = 1 .. Len(todo[w]) - 1
  <2>1. Len(todo[w]) \in Nat /\ DOMAIN todo[w] = 1 .. Len(todo[w])
    BY <1>1
  <2>2. Len(todo[w]) # 0
    BY <1>1, EmptySeq
  <2>3. DOMAIN Tail(todo[w]) = 1 .. Len(Tail(todo[w]))
    BY <1>1
  <2> QED
    BY <1>1, <2>1, <2>2, <2>3
<1>3. ASSUME NEW j \in DOMAIN todo'[w]
      PROVE  /\ j + 1 \in DOMAIN todo[w] /\ j + 1 # 1 /\ 1 \in DOMAIN todo[w]
             /\ todo'[w][j] = todo[w][j + 1]
  BY <1>1, <1>2
<1>4. ASSUME NEW e \in Waiting(w)'
      PROVE  /\ e \in Waiting(w) /\ e.comune \in Comuni
             /\ e.comune # Head(todo[w]).comune
  <2>1. PICK j \in DOMAIN todo'[w] : e = todo'[w][j]
    BY DEF Waiting
  <2>2. e = todo[w][j + 1] /\ j + 1 \in DOMAIN todo[w]
    BY <1>3, <2>1
  <2>3. e \in Entry
    BY <1>1, <2>2
  <2> QED
    BY <1>1, <1>3, <2>2, <2>3 DEF Waiting, Entry
<1>5. ASSUME NEW j \in DOMAIN todo'[w], NEW k \in DOMAIN todo'[w], j # k
      PROVE  todo'[w][j].comune # todo'[w][k].comune
  <2>1. j + 1 # k + 1
    BY <1>2, <1>5
  <2> QED
    BY <1>3, <2>1
<1> QED
  BY <1>4, <1>5

\* An upload accepts a row of a comune that no row before it is of.
LEMMA UploadStaysSerial ==
  ASSUME FilesNameOnce, TypeInv, NEW w \in Workers, SerialOf(w), UploadAccept(w)
  PROVE  SerialOf(w)'
<1> DEFINE item == NextItem(w)
           items == req[w].items
           old == todo[w]
           new == todo'[w]
<1>1. /\ pc[w] = "read" /\ pc' = pc /\ req' = req /\ subentro' = subentro
      /\ row[w] \in Nat /\ row[w] >= 1 /\ row[w] <= Len(items)
      /\ row'[w] = row[w] + 1
      /\ req[w] \in Requests /\ items \in Seq(Item)
      /\ Counts(item) /\ old \in Seq(Entry)
  BY ItemTypes DEF UploadAccept, Reading, dbVars, Counts, TypeInv, TypeOK, Control, ControlOf
<1>2. item \in Item /\ item = items[row[w]] /\ row[w] \in DOMAIN items
      /\ DOMAIN items = 1 .. Len(items) /\ Len(items) \in Nat
  BY <1>1 DEF NextItem
<1>3. PICK r \in SearchComuni(item.match) :
        /\ UploadAccepts(w, r)
        /\ todo' = IF item.plan.From.valid
                   THEN [todo EXCEPT ![w] = Append(@, EntryFor(r, item))]
                   ELSE todo
  BY DEF UploadAccept
<1> DEFINE n == EntryFor(r, item)
<1>4. /\ \A e \in Waiting(w) : Fresh(e)
      /\ \A j, k \in DOMAIN old : j # k => old[j].comune # old[k].comune
      /\ \A k \in DOMAIN old : \E i \in DOMAIN items :
           i < row[w] /\ Counts(items[i]) /\ old[k].comune \in items[i].match
  BY <1>1 DEF SerialOf
<1>5. n \in Entry /\ Accepted(n) /\ n.comune \in item.match
  <2>1. n \in Entry
    BY <1>2, EntryForType DEF TypeInv
  <2>2. Accepted(n)
    BY <1>2, <1>3 DEF Accepted, UploadAccepts
  <2>3. n.comune \in item.match
    BY DEF SearchComuni, EntryFor
  <2> QED
    BY <2>1, <2>2, <2>3
<1>6. \A k \in DOMAIN old : old[k].comune # n.comune
  <2> SUFFICES ASSUME NEW k \in DOMAIN old PROVE old[k].comune # n.comune
    OBVIOUS
  <2>1. PICK i \in DOMAIN items :
          i < row[w] /\ Counts(items[i]) /\ old[k].comune \in items[i].match
    BY <1>4
  <2>2. i # row[w]
    BY <1>1, <1>2, <2>1
  <2>3. items[i].match \cap item.match = {}
    BY <1>1, <1>2, <2>1, <2>2 DEF FilesNameOnce
  <2> QED
    BY <1>5, <2>1, <2>3
<1>7. CASE todo' = todo
  <2>1. \A e \in Waiting(w)' : Fresh(e)'
    BY <1>1, <1>4, <1>7, SameTableSamePlans DEF Waiting
  <2>2. \A k \in DOMAIN new : \E i \in DOMAIN items :
          i < row'[w] /\ Counts(items[i]) /\ new[k].comune \in items[i].match
    BY <1>1, <1>2, <1>4, <1>7
  <2> QED
    BY <1>1, <1>4, <1>7, <2>1, <2>2 DEF SerialOf
<1>8. CASE todo' = [todo EXCEPT ![w] = Append(@, n)]
  <2>1. /\ new = Append(old, n) /\ Len(old) \in Nat
        /\ DOMAIN old = 1 .. Len(old)
        /\ DOMAIN new = 1 .. Len(old) + 1
        /\ new[Len(old) + 1] = n
        /\ \A k \in DOMAIN old : new[k] = old[k]
    BY <1>1, <1>5, <1>8 DEF TypeInv, TypeOK
  <2>2. ASSUME NEW e \in Waiting(w)' PROVE Fresh(e)'
    <3>1. PICK k \in DOMAIN new : e = new[k]
      BY DEF Waiting
    <3>2. Fresh(e)
      <4>1. CASE k = Len(old) + 1
        BY <1>5, <2>1, <3>1, <4>1, AcceptedIsFresh DEF TypeInv
      <4>2. CASE k \in DOMAIN old
        BY <1>4, <2>1, <3>1, <4>2 DEF Waiting
      <4> QED
        BY <2>1, <4>1, <4>2
    <3> QED
      BY <1>1, <3>2, SameTableSamePlans
  <2>3. ASSUME NEW j \in DOMAIN new, NEW k \in DOMAIN new, j # k
        PROVE  new[j].comune # new[k].comune
    <3>1. CASE j \in DOMAIN old /\ k \in DOMAIN old
      BY <1>4, <2>1, <2>3, <3>1
    <3>2. CASE j = Len(old) + 1 /\ k \in DOMAIN old
      BY <1>6, <2>1, <3>2
    <3>3. CASE k = Len(old) + 1 /\ j \in DOMAIN old
      BY <1>6, <2>1, <3>3
    <3> QED
      BY <2>1, <2>3, <3>1, <3>2, <3>3
  <2>4. ASSUME NEW k \in DOMAIN new
        PROVE  \E i \in DOMAIN items :
                 i < row'[w] /\ Counts(items[i]) /\ new[k].comune \in items[i].match
    <3>1. CASE k \in DOMAIN old
      <4>1. PICK i \in DOMAIN items :
              i < row[w] /\ Counts(items[i]) /\ old[k].comune \in items[i].match
        BY <1>4, <3>1
      <4>2. i < row'[w]
        BY <1>1, <1>2, <4>1
      <4> QED
        BY <2>1, <3>1, <4>1, <4>2
    <3>2. CASE k = Len(old) + 1
      <4>1. row[w] < row'[w]
        BY <1>1
      <4> QED
        BY <1>1, <1>2, <1>5, <2>1, <3>2, <4>1
    <3> QED
      BY <2>1, <3>1, <3>2
  <2> QED
    BY <1>1, <2>2, <2>3, <2>4 DEF SerialOf
<1> QED
  BY <1>3, <1>7, <1>8

LEMMA SaveStaysSerial ==
  ASSUME TypeInv, NEW w \in Workers, SerialOf(w),
         SaveIgnored(w) \/ Commit(w) \/ CommitLost(w)
  PROVE  SerialOf(w)'
<1>1. /\ pc[w] \in {"present", "write"} /\ todo[w] # << >> /\ AfterSave(w)
      /\ pc \in [Workers -> PC]
  BY DEF SaveIgnored, Commit, CommitLost, TypeInv, TypeOK, Control, ControlOf
<1>2. CASE pc' = [pc EXCEPT ![w] = "notify"]
  BY <1>1, <1>2 DEF SerialOf
<1>3. CASE /\ pc' = [pc EXCEPT ![w] = "present"]
           /\ todo' = [todo EXCEPT ![w] = Tail(todo[w])]
  <2>1. /\ \A e \in Waiting(w) : Fresh(e)
        /\ \A j, k \in DOMAIN todo[w] : j # k => todo[w][j].comune # todo[w][k].comune
    BY <1>1 DEF SerialOf
  <2>2. ASSUME NEW e \in Waiting(w)' PROVE Fresh(e)'
    <3>1. /\ e \in Waiting(w) /\ e.comune \in Comuni
          /\ e.comune # Head(todo[w]).comune
      BY <1>1, <1>3, <2>1, TailStaysSerial
    <3>2. CASE Commit(w)
      BY <2>1, <3>1, <3>2, OtherComuniStay
    <3>3. CASE SaveIgnored(w) \/ CommitLost(w)
      <4>1. subentro' = subentro
        BY <3>3 DEF SaveIgnored, CommitLost, dbVars
      <4> QED
        BY <2>1, <3>1, <4>1, SameTableSamePlans
    <3> QED
      BY <3>2, <3>3
  <2>3. \A j, k \in DOMAIN todo'[w] : j # k => todo'[w][j].comune # todo'[w][k].comune
    BY <1>1, <1>3, <2>1, TailStaysSerial
  <2>4. pc'[w] = "present"
    BY <1>1, <1>3
  <2> QED
    BY <2>2, <2>3, <2>4 DEF SerialOf
<1> QED
  BY <1>1, <1>2, <1>3 DEF AfterSave, Goto

LEMMA SerialNext ==
  ASSUME Cardinality(Workers) = 1, FilesNameOnce
  PROVE  TypeInv /\ Serial /\ [Next]_vars => Serial'
<1> SUFFICES ASSUME TypeInv, Serial, [Next]_vars, NEW w \in Workers
             PROVE  SerialOf(w)'
  BY DEF Serial
<1>0. /\ pc \in [Workers -> PC] /\ todo \in [Workers -> Seq(Entry)] /\ SerialOf(w)
      /\ \A v \in Workers : v = w
  BY OneWorkerOnly DEF TypeInv, TypeOK, Serial
<1>1. ASSUME todo' = todo, subentro' = subentro, req' = req, row' = row,
             \/ pc' = pc
             \/ /\ pc[w] \in {"read", "capacity", "present", "write"}
                /\ pc'[w] \in {"present", "write"}
      PROVE  SerialOf(w)'
  <2>1. Waiting(w)' = Waiting(w)
    BY <1>1 DEF Waiting
  <2> QED
    BY <1>0, <1>1, <2>1, SameTableSamePlans DEF SerialOf
<1>2. ASSUME pc'[w] \in {"search", "notify", "reply"} PROVE SerialOf(w)'
  BY <1>2 DEF SerialOf
<1>3. ASSUME todo'[w] = << >> PROVE SerialOf(w)'
  BY <1>3 DEF SerialOf, Waiting
<1>4. CASE Receive(w)
  BY <1>0, <1>3, <1>4 DEF Receive, SerialOf
<1>5. CASE Handle(w)
  <2>1. CASE UpdateAccepted(w)
    <3> DEFINE item == req[w].items[1]
    <3>1. req[w] \in Requests /\ item \in Item
      <4>1. req[w] \in Requests /\ req[w].kind = "form"
        BY <2>1 DEF UpdateAccepted, TypeInv, Control, ControlOf
      <4> QED
        BY <4>1, ItemTypes
    <3>2. PICK r \in SearchComuni(item.match) :
            /\ SearchComuni(item.match) = {r}
            /\ IsWellFormed(item.plan, ComuneOf(r), today)
            /\ todo' = [todo EXCEPT ![w] = <<EntryFor(r, item)>>]
      BY <2>1 DEF UpdateAccepted
    <3> DEFINE n == EntryFor(r, item)
    <3>3. Fresh(n)
      BY <3>1, <3>2, AcceptedIsFresh DEF Accepted, TypeInv
    <3>4. todo'[w] = <<n>>
      BY <1>0, <3>2
    <3>5. \A e \in Waiting(w)' : Fresh(e)'
      <4>1. subentro' = subentro
        BY <2>1 DEF UpdateAccepted, dbVars
      <4>2. \A e \in Waiting(w)' : e = n
        BY <3>4 DEF Waiting
      <4> QED
        BY <3>3, <4>1, <4>2, SameTableSamePlans
    <3>6. pc'[w] \in {"capacity", "present"}
      BY <1>0, <2>1 DEF UpdateAccepted, Goto
    <3> QED
      BY <3>4, <3>5, <3>6 DEF SerialOf
  <2>2. CASE UploadAccept(w)
    BY <1>0, <2>2, UploadStaysSerial
  <2>3. CASE SaveIgnored(w) \/ Commit(w) \/ CommitLost(w)
    BY <1>0, <2>3, SaveStaysSerial
  <2>4. CASE UpdateDayFree(w) \/ IsPresent(w) \/ UploadSave(w)
    BY <1>0, <1>1, <2>4 DEF UpdateDayFree, IsPresent, UploadSave, Goto, dbVars
  <2>5. CASE UploadSkip(w) \/ UploadReject(w)
    <3>1. /\ pc' = pc /\ todo' = todo /\ subentro' = subentro /\ req' = req
          /\ row' = [row EXCEPT ![w] = @ + 1] /\ pc[w] = "read"
      BY <2>5 DEF UploadSkip, UploadReject, Reading, dbVars
    <3>2. row'[w] = row[w] + 1 /\ row[w] \in Nat
      BY <3>1 DEF TypeInv, TypeOK
    <3>3. req[w].items \in Seq(Item)
      BY <3>1, ItemTypes DEF TypeInv, Control, ControlOf
    <3>4. ASSUME NEW i \in DOMAIN req[w].items, i < row[w] PROVE i < row'[w]
      BY <3>2, <3>3, <3>4
    <3>5. \A k \in DOMAIN todo'[w] : \E i \in DOMAIN req'[w].items :
            /\ i < row'[w] /\ Counts(req'[w].items[i])
            /\ todo'[w][k].comune \in req'[w].items[i].match
      BY <1>0, <3>1, <3>4 DEF SerialOf
    <3>6. Waiting(w)' = Waiting(w)
      BY <3>1 DEF Waiting
    <3> QED
      BY <1>0, <3>1, <3>5, <3>6, SameTableSamePlans DEF SerialOf
  <2>6. CASE Return(w)
    BY <1>0, <1>3, <2>6 DEF Return
  <2>7. CASE \/ UpdateUnparsed(w) \/ UpdateNotFound(w) \/ UpdateForbidden(w)
             \/ UpdateMalformed(w) \/ UpdateDayFull(w) \/ WriteFails(w)
             \/ UpdateNotify(w) \/ UploadBroken(w) \/ UploadDone(w) \/ UploadNotify(w)
    <3>1. pc'[w] = "reply"
      BY <1>0, <2>7
      DEF UpdateUnparsed, UpdateNotFound, UpdateForbidden, UpdateMalformed, UpdateDayFull,
          WriteFails, UpdateNotify, UploadBroken, UploadDone, UploadNotify, Answer, Goto
    <3> QED
      BY <1>2, <3>1
  <2> QED
    BY <1>5, <2>1, <2>2, <2>3, <2>4, <2>5, <2>6, <2>7 DEF Handle
<1>6. CASE Restart
  BY <1>3, <1>6 DEF Restart
<1>7. CASE UpdateComuniCheckList \/ UpdateFornitore \/ Midnight \/ UNCHANGED vars
  BY <1>1, <1>7
  DEF UpdateComuniCheckList, UpdateFornitore, Midnight, vars, localVars, dbVars
<1> QED
  BY <1>0, <1>4, <1>5, <1>6, <1>7 DEF Next

LEMMA SerialInvariant ==
  ASSUME Cardinality(Workers) = 1, FilesNameOnce
  PROVE  Spec => []Serial
<1>1. Init => Serial
  BY DEF Init, Serial, SerialOf
<1>2. TypeInv /\ Serial /\ [Next]_vars => Serial'
  BY SerialNext
<1> QED
  BY <1>1, <1>2, TypeInvariant, PTL DEF Spec

\* What a commit writes was judged against what it replaces.
LEMMA HeadIsFresh ==
  ASSUME TypeInv, Serial, NEW w \in Workers, Commit(w)
  PROVE  Fresh(Head(todo[w]))
<1>1. Head(todo[w]) \in Waiting(w)
  BY CommitEntry DEF Waiting
<1> QED
  BY <1>1 DEF Serial, SerialOf, Commit

LEMMA RegisterSerialNext ==
  TypeInv /\ Serial /\ [Next]_vars => [Register!SerialNext]_(Register!vars)
<1> SUFFICES ASSUME TypeInv, Serial, [Next]_vars PROVE Register!SerialNext
  OBVIOUS
<1>1. CASE Midnight
  BY <1>1, MidnightStep DEF Register!SerialNext
<1>2. ASSUME NEW w \in Workers, Commit(w) PROVE Register!SerialNext
  <2> DEFINE o == OfferOf(Head(todo[w]))
  <2>1. o.old \in Register!Present(o.comune)
    BY <1>2, HeadIsFresh DEF Fresh, OfferOf
  <2> QED
    BY <1>2, <2>1, CommitStep, CommitOffers DEF Register!SerialNext
<1>3. CASE subentro' = subentro /\ today' = today
  BY <1>3, QuietStep DEF Register!SerialNext
<1> QED
  BY <1>1, <1>2, <1>3, RowsStep, DayStep

(***************************************************************************)
(* One request at a time, whose file names no comune twice, replaces the   *)
(* very plan that the new one was judged against.                          *)
(***************************************************************************)
THEOREM SerialRequestsReplace ==
  ASSUME Cardinality(Workers) = 1, FilesNameOnce
  PROVE  Spec => ReplacesWhatItJudged
<1>1. Spec => Register!SerialSpec
  BY RegisterInit, RegisterSerialNext, SerialInvariant, TypeInvariant, PTL
  DEF Spec, Register!SerialSpec
<1> QED
  BY <1>1 DEF ReplacesWhatItJudged

\* The row a save changes is the only one of its comune, and stands for the plan
\* that was judged against.
LEMMA MoveStep ==
  ASSUME TypeInv, Serial, OneRowPerComune, [Next]_vars,
         NEW i \in DOMAIN subentro, subentro'[i].from # subentro[i].from
  PROVE  subentro'[i].from > subentro'[i].judged
<1>1. PICK w \in Workers : Commit(w)
  BY RowsStep
<1> DEFINE e == Head(todo[w])
<1>2. /\ subentro \in Seq(Row) /\ subentro[i] \in Row
      /\ e \in Entry /\ HasBothEnds(e.plan) /\ Fresh(e)
  BY <1>1, CommitEntry, HeadIsFresh DEF TypeInv, TypeOK
<1>3. present[w]
  <2> SUFFICES ASSUME ~present[w] PROVE FALSE
    OBVIOUS
  <2>1. subentro' = Append(subentro, RowFor(w, e))
    BY <1>1 DEF Commit, InsertRow
  <2> QED
    BY <1>2, <2>1
<1>4. subentro' = UpdateRows(w, e)
  BY <1>1, <1>3 DEF Commit
<1>5. subentro[i].comune = e.comune /\ subentro'[i] = RowFor(w, e)
  BY <1>4 DEF UpdateRows
<1>6. e.old = SubentroFromRow(subentro[i])
  <2>1. i \in RowsOf(e.comune) /\ e.comune \in Comuni
    BY <1>2, <1>5 DEF RowsOf, Entry
  <2>2. RowsOf(e.comune) = {i}
    BY <2>1 DEF OneRowPerComune, Duplicated
  <2>3. PlansInTable[e.comune] = {SubentroFromRow(subentro[i])}
    BY <2>1, <2>2 DEF PlansInTable
  <2>4. Register!Present(e.comune) = {SubentroFromRow(subentro[i])}
    BY <2>3 DEF Register!Present
  <2> QED
    BY <1>2, <2>4 DEF Fresh
<1>7. ~SameDate(e.plan.From, e.old.From)
  BY <1>5, <1>6 DEF RowFor, SubentroFromRow, TimeFrom, SameDate
<1>8. e.plan.From.time \in Nat /\ e.judged \in Nat
  <2>1. e.plan.From \in GivenTime /\ e.judged \in Nat
    BY <1>2 DEF Entry, GivenPlan
  <2> QED
    BY <2>1, GivenTimes
<1>9. ~BeforeNowPlus(e.plan.From, e.judged, 0)
  BY <1>2, <1>7 DEF Fresh, MovedNotToPast
<1> QED
  BY <1>5, <1>8, <1>9 DEF RowFor, BeforeNowPlus

(***************************************************************************)
(* One request at a time moves no plan to a day that was past when the     *)
(* plan was judged: the row it replaces is the one it was judged against.  *)
(***************************************************************************)
THEOREM SerialMovesStartAhead ==
  ASSUME Cardinality(Workers) = 1, FilesNameOnce
  PROVE  Spec => MovedPlansStartAhead
<1>1. /\ TypeInv /\ Serial /\ OneRowPerComune /\ [Next]_vars
      => [\A i \in DOMAIN subentro :
            subentro'[i].from # subentro[i].from
            => subentro'[i].from > subentro'[i].judged]_vars
  BY MoveStep
<1>2. Spec => []OneRowPerComune
  BY OneRequestAtATime
<1> QED
  BY <1>1, <1>2, SerialInvariant, TypeInvariant, PTL DEF Spec, MovedPlansStartAhead
=============================================================================
