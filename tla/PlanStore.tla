----------------------------- MODULE PlanStore -----------------------------
(***************************************************************************)
(* The plans of the comuni and the handlers that change them, run by many  *)
(* requests at once: StorageManager.Update (PUT /comune/update) and        *)
(* StorageManager.PutPianoSubentro (the upload of a CSV file), server/     *)
(* storage.go, over the SQL of sqlite/sqlite3_manager.go.                  *)
(*                                                                         *)
(* Nothing in the program serialises requests: each runs in a goroutine of *)
(* gin, and each SQL statement or transaction is atomic by itself.  So a   *)
(* handler is one action per statement: it searches the comune and judges  *)
(* the plan, counts the plans of the preferred day, asks whether the       *)
(* comune has a row, writes.  Anything may happen between two of these.    *)
(*                                                                         *)
(* The rest of the server takes part as the actions of the environment of  *)
(* these handlers: the hourly import of the checklist, the administrator   *)
(* moving a comune to another fornitore, the calendar.                     *)
(***************************************************************************)
EXTENDS Subentro, Sequences, FiniteSets

CONSTANTS
  Workers,      \* goroutines serving requests
  Comuni,       \* rows of the table COMUNE, by ID
  Fornitori,    \* rows of the table FORNITORE
  Users,        \* who may be logged in
  Admins,       \* the users of the group team_anpr
  Writers,      \* the users the ACL of each fornitore lets write
  Requests,     \* the requests the users may make
  CheckLists,   \* the contents the checklist file may have
  Moves,        \* the comuni the administrator may move, and where
  Limit,        \* the plans of one day beyond which Update refuses (55)
  Faults,       \* whether SQLite may fail to write or commit, and the server stop
  FirstDay, LastDay   \* the days the system is observed

(***************************************************************************)
(* An item of a request is a comune and its plan: the body of an update,   *)
(* or a row of the CSV file.  `match' is the set of comuni its id, name    *)
(* and ISTAT code select together; `syntax' says whether it can be parsed, *)
(* has a field that cannot, or breaks the CSV reader.                      *)
(***************************************************************************)
Item == [match : SUBSET Comuni, plan : GivenPlan,
         syntax : {"good", "bad", "broken"}]

Request == [kind : {"form", "csv"}, user : Users, items : Seq(Item)]

State == [presubentro : BOOLEAN, consegna : BOOLEAN, cessato : BOOLEAN]

ASSUME ConstantsAssumption ==
  /\ IsFiniteSet(Workers) /\ Workers # {}
  /\ Admins \subseteq Users
  /\ Writers \in [Fornitori -> SUBSET Users]
  /\ Requests \subseteq Request
  /\ \A r \in Requests : r.kind = "form" =>
        Len(r.items) = 1 /\ r.items[1].syntax # "broken"
  /\ \A l \in CheckLists : \E C \in SUBSET Comuni : l \in [C -> State]
  /\ Moves \subseteq Comuni \X (Fornitori \cup {NULL})
  /\ Limit \in Nat
  /\ Faults \in BOOLEAN
  /\ FirstDay \in Nat /\ LastDay \in Nat /\ FirstDay <= LastDay

VARIABLES
  \* The database.
  subentro,     \* the table SUBENTRO, in the order of its rowids
  stato,        \* the checklist columns of COMUNE
  fornitore,    \* ID_FORNITORE of each comune
  \* The calendar.
  today,
  \* The local state of each request.
  pc,           \* the next statement of the handler
  req,          \* the request served
  row,          \* the number of the CSV row read next
  errors,       \* whether error_msgs is not empty
  todo,         \* the comuni to save, with their plans
  present,      \* the answer of IsPresent
  \* What the request has shown to the outside.
  reply,        \* the answer, "none" before it
  saved,        \* history: what it committed
  mail          \* the comuni its notification lists

dbVars    == <<subentro, stato, fornitore>>
localVars == <<pc, req, row, errors, todo, present>>
outVars   == <<reply, saved, mail>>
vars      == <<dbVars, today, localVars, outVars>>

(***************************************************************************)
(* A row of SUBENTRO.  Two fields are history: the handler that wrote it   *)
(* last, and the day on which the plan written was judged.                 *)
(***************************************************************************)
Row == [comune : Comuni, from : Days, to : Days, final : Days \cup {NULL},
        via : {"form", "csv"}, judged : Nat]

\* A comune to save with the plan accepted for it; the day of acceptance and the
\* plan the comune had then are history.
Entry == [comune : Comuni, plan : GivenPlan, old : Plan, judged : Nat]

PC == {"idle", "search", "capacity", "present", "write", "notify", "read", "reply"}

Replies == {"none", "ok", "400", "403", "404", "500"}

TypeOK ==
  /\ subentro \in Seq(Row)
  /\ stato \in [Comuni -> State]
  /\ fornitore \in [Comuni -> Fornitori \cup {NULL}]
  /\ today \in FirstDay .. LastDay
  /\ pc \in [Workers -> PC]
  /\ req \in [Workers -> Requests \cup {NULL}]
  /\ row \in [Workers -> Nat]
  /\ errors \in [Workers -> BOOLEAN]
  /\ todo \in [Workers -> Seq(Entry)]
  /\ present \in [Workers -> BOOLEAN]
  /\ reply \in [Workers -> Replies]
  /\ saved \in [Workers -> SUBSET Entry]
  /\ mail \in [Workers -> SUBSET Entry]

-----------------------------------------------------------------------------
(***************************************************************************)
(* The tables, as the statements of sqlite3_manager.go see them.           *)
(***************************************************************************)
RowsOf(c) == {i \in DOMAIN subentro : subentro[i].comune = c}

\* Ceased comuni, but for one merged into a comune of its own name, and comuni of
\* a fornitore that is not in its table are hidden.
Visible(c) == ~stato[c].cessato /\ fornitore[c] \in Fornitori

\* Faulty variant, for the mutation runs: grouped by comune, so that the newest
\* row stands for all.
SearchNewest(match) ==
  {r \in match \X (0 .. Len(subentro)) :
     /\ Visible(r[1])
     /\ r[2] \in RowsOf(r[1]) \cup {0}
     /\ \A i \in RowsOf(r[1]) : i <= r[2]}

(***************************************************************************)
(* SearchComuni: COMUNE LEFT OUTER JOIN SUBENTRO.  A result is a comune    *)
(* with one of its rows, or with 0 when it has none, so a comune with two  *)
(* rows is found twice.                                                    *)
(***************************************************************************)
SearchComuni(match) ==
  {r \in match \X (0 .. Len(subentro)) :
     /\ Visible(r[1])
     /\ IF r[2] = 0 THEN RowsOf(r[1]) = {} ELSE r[2] \in RowsOf(r[1])}

\* Faulty variant: the plan of the first row read stands for all.
FirstPlanOf(r) ==
  [Subentro        |-> IF r[2] = 0 THEN NoPlan ELSE SubentroFromRow(subentro[1]),
   DataPresubentro |-> stato[r[1]].presubentro,
   DataConsegnaSm  |-> stato[r[1]].consegna]

ComuneOf(r) ==
  [Subentro        |-> IF r[2] = 0 THEN NoPlan ELSE SubentroFromRow(subentro[r[2]]),
   DataPresubentro |-> stato[r[1]].presubentro,
   DataConsegnaSm  |-> stato[r[1]].consegna]

\* GetSubentroInfo: the rows, of any comune and handler, planned on day d.
PlannedOn(d) == {i \in DOMAIN subentro : subentro[i].final = d}

IsAdmin(u) == u \in Admins

HasWriteAccess(u, c) == fornitore[c] \in Fornitori /\ u \in Writers[fornitore[c]]

RowFor(w, e) ==
  [comune |-> e.comune, from |-> e.plan.From.time, to |-> e.plan.To.time,
   final |-> FinalDateColumn(e.plan), via |-> req[w].kind, judged |-> e.judged]

-----------------------------------------------------------------------------
(***************************************************************************)
(* The tables as the converter leaves them: InsertComuni writes NULL for   *)
(* the day of the pre-takeover, and for the day of the delivery of the     *)
(* smart cards a zero time, which is a date.                               *)
(***************************************************************************)
Init ==
  /\ subentro = << >>
  /\ stato = [c \in Comuni |-> [presubentro |-> FALSE, consegna |-> TRUE,
                               cessato |-> FALSE]]
  /\ fornitore \in [Comuni -> Fornitori]
  /\ today = FirstDay
  /\ pc = [w \in Workers |-> "idle"]
  /\ req = [w \in Workers |-> NULL]
  /\ row = [w \in Workers |-> 0]
  /\ errors = [w \in Workers |-> FALSE]
  /\ todo = [w \in Workers |-> << >>]
  /\ present = [w \in Workers |-> FALSE]
  /\ reply = [w \in Workers |-> "none"]
  /\ saved = [w \in Workers |-> {}]
  /\ mail = [w \in Workers |-> {}]

(***************************************************************************)
(* gin hands a request to a goroutine.                                     *)
(***************************************************************************)
Receive(w) ==
  /\ pc[w] = "idle"
  /\ \E r \in Requests :
       /\ req' = [req EXCEPT ![w] = r]
       /\ pc' = [pc EXCEPT ![w] = IF r.kind = "form" THEN "search" ELSE "read"]
  /\ row' = [row EXCEPT ![w] = 1]
  /\ UNCHANGED <<dbVars, today, errors, todo, present, outVars>>

Goto(w, p) == pc' = [pc EXCEPT ![w] = p]

(***************************************************************************)
(* The handler writes its answer, or panics and gin.Recovery answers 500.  *)
(***************************************************************************)
Answer(w, code) ==
  /\ Goto(w, "reply")
  /\ reply' = [reply EXCEPT ![w] = code]
  /\ UNCHANGED <<req, row, errors, todo, present>>

\* It returns, and its local state is gone.
Return(w) ==
  /\ pc[w] = "reply"
  /\ Goto(w, "idle")
  /\ req' = [req EXCEPT ![w] = NULL]
  /\ row' = [row EXCEPT ![w] = 0]
  /\ errors' = [errors EXCEPT ![w] = FALSE]
  /\ todo' = [todo EXCEPT ![w] = << >>]
  /\ present' = [present EXCEPT ![w] = FALSE]
  /\ reply' = [reply EXCEPT ![w] = "none"]
  /\ saved' = [saved EXCEPT ![w] = {}]
  /\ mail' = [mail EXCEPT ![w] = {}]
  /\ UNCHANGED <<dbVars, today>>

EntryFor(r, item) ==
  [comune |-> r[1], plan |-> item.plan, old |-> ComuneOf(r).Subentro, judged |-> today]

-----------------------------------------------------------------------------
(***************************************************************************)
(* StorageManager.Update up to its first write.  The comune found decides  *)
(* the access, and its old plan is what the new one is judged against.     *)
(***************************************************************************)
UpdateUnparsed(w) ==
  /\ pc[w] = "search"
  /\ req[w].items[1].syntax = "bad"
  /\ Answer(w, "400")
  /\ UNCHANGED <<dbVars, today, saved, mail>>

UpdateNotFound(w) ==
  /\ pc[w] = "search"
  /\ req[w].items[1].syntax = "good"
  /\ Cardinality(SearchComuni(req[w].items[1].match)) # 1
  /\ Answer(w, "404")
  /\ UNCHANGED <<dbVars, today, saved, mail>>

UpdateForbidden(w) ==
  /\ pc[w] = "search"
  /\ req[w].items[1].syntax = "good"
  /\ \E r \in SearchComuni(req[w].items[1].match) :
       /\ SearchComuni(req[w].items[1].match) = {r}
       /\ ~IsAdmin(req[w].user)
       /\ ~HasWriteAccess(req[w].user, r[1])
  /\ Answer(w, "403")
  /\ UNCHANGED <<dbVars, today, saved, mail>>

UpdateMalformed(w) ==
  /\ pc[w] = "search"
  /\ req[w].items[1].syntax = "good"
  /\ \E r \in SearchComuni(req[w].items[1].match) :
       /\ SearchComuni(req[w].items[1].match) = {r}
       /\ IsAdmin(req[w].user) \/ HasWriteAccess(req[w].user, r[1])
       /\ ~IsWellFormed(req[w].items[1].plan, ComuneOf(r), today)
  /\ Answer(w, "400")
  /\ UNCHANGED <<dbVars, today, saved, mail>>

UpdateAccepted(w) ==
  /\ pc[w] = "search"
  /\ req[w].items[1].syntax = "good"
  /\ \E r \in SearchComuni(req[w].items[1].match) :
       /\ SearchComuni(req[w].items[1].match) = {r}
       /\ IsAdmin(req[w].user) \/ HasWriteAccess(req[w].user, r[1])
       /\ IsWellFormed(req[w].items[1].plan, ComuneOf(r), today)
       /\ todo' = [todo EXCEPT ![w] = <<EntryFor(r, req[w].items[1])>>]
  /\ Goto(w, IF req[w].items[1].plan.PreferredDate.valid
             THEN "capacity" ELSE "present")
  /\ UNCHANGED <<dbVars, today, req, row, errors, present, outVars>>

PreferredDay(w) == Head(todo[w]).plan.PreferredDate.time

\* The limit of the preferred day: a query of its own, after the search.
UpdateDayFull(w) ==
  /\ pc[w] = "capacity"
  /\ Cardinality(PlannedOn(PreferredDay(w))) > Limit
  /\ Answer(w, "400")
  /\ UNCHANGED <<dbVars, today, saved, mail>>

\* Faulty variant: the answer of the query is not looked at.
UpdateDayUnchecked(w) ==
  /\ pc[w] = "capacity"
  /\ Goto(w, "present")
  /\ UNCHANGED <<dbVars, today, req, row, errors, todo, present, outVars>>

UpdateDayFree(w) ==
  /\ pc[w] = "capacity"
  /\ ~(Cardinality(PlannedOn(PreferredDay(w))) > Limit)
  /\ Goto(w, "present")
  /\ UNCHANGED <<dbVars, today, req, row, errors, todo, present, outVars>>

-----------------------------------------------------------------------------
(***************************************************************************)
(* SaveOrUpdateSubentro, for the comune at the head of todo: nothing for a *)
(* plan without both ends, else a query for a row and then, in a           *)
(* transaction of its own, an UPDATE of all the rows of the comune or an   *)
(* INSERT.                                                                 *)
(***************************************************************************)
\* Faulty variant: a plan without a preferred date is not saved.
HasAllDates(s) == s.From.valid /\ s.To.valid /\ s.PreferredDate.valid

HasBothEnds(s) == s.From.valid /\ s.To.valid

\* What follows the save of one comune: an update notifies, an upload goes on.
AfterSave(w) ==
  \/ /\ req[w].kind = "form"
     /\ Goto(w, "notify")
     /\ UNCHANGED todo
  \/ /\ req[w].kind = "csv"
     /\ Goto(w, "present")
     /\ todo' = [todo EXCEPT ![w] = Tail(@)]

SaveIgnored(w) ==
  /\ pc[w] = "present"
  /\ todo[w] # << >>
  /\ ~HasBothEnds(Head(todo[w]).plan)
  /\ AfterSave(w)
  /\ UNCHANGED <<dbVars, today, req, row, errors, present, outVars>>

IsPresent(w) ==
  /\ pc[w] = "present"
  /\ todo[w] # << >>
  /\ HasBothEnds(Head(todo[w]).plan)
  /\ present' = [present EXCEPT ![w] = RowsOf(Head(todo[w]).comune) # {}]
  /\ Goto(w, "write")
  /\ UNCHANGED <<dbVars, today, req, row, errors, todo, outVars>>

InsertRow(w, e) == Append(subentro, RowFor(w, e))

\* Faulty variant: the final date is left as it was.
UpdateInterval(w, e) ==
  [i \in DOMAIN subentro |->
     IF subentro[i].comune = e.comune
     THEN [RowFor(w, e) EXCEPT !.final = subentro[i].final] ELSE subentro[i]]

UpdateRows(w, e) ==
  [i \in DOMAIN subentro |->
     IF subentro[i].comune = e.comune THEN RowFor(w, e) ELSE subentro[i]]

Commit(w) ==
  /\ pc[w] = "write"
  /\ subentro' = IF present[w] THEN UpdateRows(w, Head(todo[w]))
                 ELSE InsertRow(w, Head(todo[w]))
  /\ saved' = [saved EXCEPT ![w] = @ \cup {Head(todo[w])}]
  /\ AfterSave(w)
  /\ UNCHANGED <<stato, fornitore, today, req, row, errors, present, reply, mail>>

\* tx.Commit fails: the driver rolls back, and the error is not looked at.
CommitLost(w) ==
  /\ Faults
  /\ pc[w] = "write"
  /\ AfterSave(w)
  /\ UNCHANGED <<dbVars, today, req, row, errors, present, outVars>>

\* Begin, Prepare or Exec fails: the handler panics.
WriteFails(w) ==
  /\ Faults
  /\ pc[w] = "write"
  /\ Answer(w, "500")
  /\ UNCHANGED <<dbVars, today, saved, mail>>

\* notifyUpdateComuni, then the answer; a mail that fails is only logged.
UpdateNotify(w) ==
  /\ pc[w] = "notify"
  /\ mail' = [mail EXCEPT ![w] = {Head(todo[w])}]
  /\ Answer(w, "ok")
  /\ UNCHANGED <<dbVars, today, saved>>

-----------------------------------------------------------------------------
(***************************************************************************)
(* StorageManager.PutPianoSubentro: every row of the file is read and      *)
(* judged before any is saved.                                             *)
(***************************************************************************)
NextItem(w) == req[w].items[row[w]]

Reading(w) == pc[w] = "read" /\ row[w] <= Len(req[w].items)

\* The CSV reader fails: the handler panics.
UploadBroken(w) ==
  /\ Reading(w)
  /\ NextItem(w).syntax = "broken"
  /\ Answer(w, "500")
  /\ UNCHANGED <<dbVars, today, saved, mail>>

\* Faulty variant: the reader stays on an empty row.
UploadStuck(w) ==
  /\ Reading(w)
  /\ NextItem(w).syntax = "good"
  /\ ~HasValidDates(NextItem(w).plan)
  /\ UNCHANGED vars

\* A row without dates is no row.
UploadSkip(w) ==
  /\ Reading(w)
  /\ NextItem(w).syntax = "good"
  /\ ~HasValidDates(NextItem(w).plan)
  /\ row' = [row EXCEPT ![w] = @ + 1]
  /\ UNCHANGED <<dbVars, today, pc, req, errors, todo, present, outVars>>

\* The row can be saved as far as it is known now; the administrators have no
\* access of their own here.
UploadAccepts(w, r) ==
  /\ SearchComuni(NextItem(w).match) = {r}
  /\ HasWriteAccess(req[w].user, r[1])
  /\ IsWellFormed(NextItem(w).plan, ComuneOf(r), today)

\* Faulty variant: each row is saved as soon as it is accepted.
UploadSaveAtOnce(w) ==
  /\ Reading(w)
  /\ NextItem(w).syntax = "good"
  /\ \E r \in SearchComuni(NextItem(w).match) :
       /\ UploadAccepts(w, r)
       /\ subentro' = Append(subentro, RowFor(w, EntryFor(r, NextItem(w))))
       /\ saved' = [saved EXCEPT ![w] = @ \cup {EntryFor(r, NextItem(w))}]
  /\ row' = [row EXCEPT ![w] = @ + 1]
  /\ UNCHANGED <<stato, fornitore, today, pc, req, errors, todo, present, reply, mail>>

UploadAccept(w) ==
  /\ Reading(w)
  /\ NextItem(w).syntax = "good"
  /\ HasValidDates(NextItem(w).plan)
  /\ \E r \in SearchComuni(NextItem(w).match) :
       /\ UploadAccepts(w, r)
       /\ todo' = IF NextItem(w).plan.From.valid
                  THEN [todo EXCEPT ![w] = Append(@, EntryFor(r, NextItem(w)))]
                  ELSE todo
  /\ row' = [row EXCEPT ![w] = @ + 1]
  /\ UNCHANGED <<dbVars, today, pc, req, errors, present, outVars>>

UploadReject(w) ==
  /\ Reading(w)
  /\ \/ NextItem(w).syntax = "bad"
     \/ /\ NextItem(w).syntax = "good"
        /\ HasValidDates(NextItem(w).plan)
        /\ \A r \in SearchComuni(NextItem(w).match) : ~UploadAccepts(w, r)
  /\ errors' = [errors EXCEPT ![w] = TRUE]
  /\ row' = [row EXCEPT ![w] = @ + 1]
  /\ UNCHANGED <<dbVars, today, pc, req, todo, present, outVars>>

\* The end of the file.
UploadSave(w) ==
  /\ pc[w] = "read"
  /\ row[w] > Len(req[w].items)
  /\ ~errors[w]
  /\ Goto(w, "present")
  /\ UNCHANGED <<dbVars, today, req, row, errors, todo, present, outVars>>

UploadDone(w) ==
  /\ pc[w] = "present"
  /\ todo[w] = << >>
  /\ Answer(w, "ok")
  /\ UNCHANGED <<dbVars, today, saved, mail>>

\* With an error in any row nothing is saved; the rows without one are mailed.
UploadNotify(w) ==
  /\ pc[w] = "read"
  /\ row[w] > Len(req[w].items)
  /\ errors[w]
  /\ mail' = [mail EXCEPT ![w] = {todo[w][k] : k \in DOMAIN todo[w]}]
  /\ Answer(w, "400")
  /\ UNCHANGED <<dbVars, today, saved>>

-----------------------------------------------------------------------------
(***************************************************************************)
(* The environment of the handlers.                                        *)
(***************************************************************************)
\* The hourly import: the comuni of the file, in one transaction.
UpdateComuniCheckList ==
  /\ \E l \in CheckLists :
       stato' = [c \in Comuni |-> IF c \in DOMAIN l THEN l[c] ELSE stato[c]]
  /\ UNCHANGED <<subentro, fornitore, today, localVars, outVars>>

\* The administrator may name an ID that is not in FORNITORE.
UpdateFornitore ==
  /\ \E m \in Moves : fornitore' = [fornitore EXCEPT ![m[1]] = m[2]]
  /\ UNCHANGED <<subentro, stato, today, localVars, outVars>>

Midnight ==
  /\ today < LastDay
  /\ today' = today + 1
  /\ UNCHANGED <<dbVars, localVars, outVars>>

\* The server stops (nothing recovers a panic of the hourly import) and is
\* started again: the requests in progress are gone, what they committed stays.
Restart ==
  /\ Faults
  /\ pc' = [w \in Workers |-> "idle"]
  /\ req' = [w \in Workers |-> NULL]
  /\ row' = [w \in Workers |-> 0]
  /\ errors' = [w \in Workers |-> FALSE]
  /\ todo' = [w \in Workers |-> << >>]
  /\ present' = [w \in Workers |-> FALSE]
  /\ reply' = [w \in Workers |-> "none"]
  /\ saved' = [w \in Workers |-> {}]
  /\ mail' = [w \in Workers |-> {}]
  /\ UNCHANGED <<dbVars, today>>

-----------------------------------------------------------------------------
Handle(w) ==
  \/ UpdateUnparsed(w) \/ UpdateNotFound(w) \/ UpdateForbidden(w)
  \/ UpdateMalformed(w) \/ UpdateAccepted(w)
  \/ UpdateDayFull(w) \/ UpdateDayFree(w)
  \/ SaveIgnored(w) \/ IsPresent(w)
  \/ Commit(w) \/ CommitLost(w) \/ WriteFails(w)
  \/ UpdateNotify(w)
  \/ UploadBroken(w) \/ UploadSkip(w) \/ UploadAccept(w) \/ UploadReject(w)
  \/ UploadSave(w) \/ UploadDone(w) \/ UploadNotify(w)
  \/ Return(w)

Next ==
  \/ \E w \in Workers : Receive(w) \/ Handle(w)
  \/ UpdateComuniCheckList \/ UpdateFornitore \/ Midnight \/ Restart

Spec == Init /\ [][Next]_vars

(***************************************************************************)
(* The Go scheduler runs every goroutine that can go on, and no statement  *)
(* waits for ever: SQLite gives up on a lock after the busy timeout.       *)
(***************************************************************************)
FairSpec == Spec /\ \A w \in Workers : WF_vars(Handle(w))
-----------------------------------------------------------------------------
(***************************************************************************)
(* Every row is an interval of at most thirty days that holds its final    *)
(* date, whatever runs together.  No column constraint of SUBENTRO says    *)
(* so: it rests on the judgement made several statements before the write. *)
(***************************************************************************)
PlansAreIntervals ==
  \A i \in DOMAIN subentro : IsInterval(SubentroFromRow(subentro[i]))

(***************************************************************************)
(* Update counts the plans of a day and writes one later, so updates in    *)
(* progress together overshoot the limit; but they cannot place on a day   *)
(* more comuni than the limit plus the requests in progress.  Uploads are  *)
(* never counted, and the rows they wrote are not either.                  *)
(***************************************************************************)
FormComuni(d) ==
  {c \in Comuni : \E i \in RowsOf(c) : subentro[i].final = d /\ subentro[i].via = "form"}

OvershootIsBounded ==
  \A d \in Days : Cardinality(FormComuni(d)) <= Limit + Cardinality(Workers)

(***************************************************************************)
(* A comune gets at most one row from each request that found it without   *)
(* any: as many as there are requests in progress, and one when there is a *)
(* single one.                                                             *)
(***************************************************************************)
RowsAreBounded ==
  \A c \in Comuni : Cardinality(RowsOf(c)) <= Cardinality(Workers)

(***************************************************************************)
(* Once a comune has two rows, and the requests in progress for it are     *)
(* over, no request changes or removes a row of it ever again: the search  *)
(* finds it twice, and both handlers give up.                              *)
(***************************************************************************)
InProgress(c) ==
  \E w \in Workers : \E k \in DOMAIN todo[w] : todo[w][k].comune = c

Duplicated(c) == \E i, j \in RowsOf(c) : i # j

DuplicatedIsFrozen ==
  [][\A c \in Comuni :
       Duplicated(c) /\ ~InProgress(c)
       => /\ RowsOf(c)' = RowsOf(c)
          /\ \A i \in RowsOf(c) : subentro'[i] = subentro[i]
          /\ ~InProgress(c)']_vars

(***************************************************************************)
(* A request that was refused changed no plan: an upload saves all the     *)
(* rows of its file or none, although it meets the bad one last.           *)
(***************************************************************************)
RefusedSavesNothing ==
  \A w \in Workers : reply[w] \in {"400", "403", "404"} => saved[w] = {}

(***************************************************************************)
(* Unless the database fails, a request answered "ok" saved every plan it  *)
(* gave that has a date.  SaveOrUpdateSubentro drops a plan without both   *)
(* ends and says nothing, so this needs the judgement to refuse them all.  *)
(***************************************************************************)
OkMeansSaved ==
  ~Faults =>
    \A w \in Workers : reply[w] = "ok" =>
      \A k \in DOMAIN req[w].items :
        HasValidDates(req[w].items[k].plan) =>
          \E e \in saved[w] : /\ e.plan = req[w].items[k].plan
                              /\ e.comune \in req[w].items[k].match

(***************************************************************************)
(* When a plan starts to begin on another day, that day was in the future  *)
(* when the plan was judged.  It is judged against the row read by the     *)
(* search, so this holds only while requests do not overlap and no file    *)
(* names a comune twice.                                                   *)
(***************************************************************************)
MovedPlansStartAhead ==
  [][\A i \in DOMAIN subentro :
       subentro'[i].from # subentro[i].from => subentro'[i].from > subentro'[i].judged]_vars

(***************************************************************************)
(* Every request is answered.                                              *)
(***************************************************************************)
EveryRequestAnswered == \A w \in Workers : pc[w] # "idle" ~> pc[w] = "idle"

-----------------------------------------------------------------------------
(***************************************************************************)
(* A statement of the repository that the handlers keep one at a time only.*)
(***************************************************************************)
(***************************************************************************)
(* QUERY_EXAMPLES.md: look in SUBENTRO for the comune, "if so" UPDATE, "if *)
(* not" INSERT; sqlite3_manager.go:451 "Check if a row EXISTS".  One row   *)
(* per comune is what the check is for.                                    *)
(***************************************************************************)
OneRowPerComune == \A c \in Comuni : ~Duplicated(c)
=============================================================================
