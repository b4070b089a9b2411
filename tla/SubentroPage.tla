---------------------------- MODULE SubentroPage ----------------------------
(***************************************************************************)
(* The page on which an operator plans the takeovers: server/static/       *)
(* assets/subentro_rout6.js and the script of server/templates/            *)
(* subentro.tmpl.                                                          *)
(*                                                                         *)
(* The page keeps the list of the comuni it was given, the comune          *)
(* selected, which is an object of a list, a form and some comments.       *)
(* Requests are sent in the background and answered in any order; each     *)
(* answer runs a callback to its end, which reads the selection and the    *)
(* form as they are then, not as they were when the request was sent.      *)
(*                                                                         *)
(* The server is abstract: it saves the plans and the comments, it may     *)
(* refuse a plan by rules that are not those of this module, and an answer *)
(* may be lost.  There is one operator.                                    *)
(***************************************************************************)
EXTENDS Integers, FiniteSets

CONSTANTS
  Comuni,
  Ranges,       \* the intervals the operator may type, From and To together
  Ats,          \* the preferred dates
  Notes,        \* the comments that may be written, each once
  Files,        \* what an uploaded file may plan: some comuni, with a plan each
  Slots,        \* bound: how many requests are in flight
  MaxClicks,    \* bound: how often the operator does something
  MaxLosses,    \* bound: answers lost
  NULL,         \* nothing: no plan, an empty field, no selection
  Garbled       \* a field that shows no date, NaN/NaN/NaN

Plan == [range : Ranges \cup {NULL}, at : Ats \cup {NULL}]

NoPlan == [range |-> NULL, at |-> NULL]

(***************************************************************************)
(* The plan of a list entry.  raw: which of its dates are objects made for *)
(* a request, {Time, Valid}, or no dates at all: they count as dates and   *)
(* show as none.                                                           *)
(***************************************************************************)
Entry == [range : Ranges \cup {NULL}, at : Ats \cup {NULL}, raw : SUBSET {"range", "at"}]

Form == [range : Ranges \cup {NULL, Garbled}, at : Ats \cup {NULL, Garbled}]

Kinds == {"search", "update", "upload", "comments", "save", "delete", "info"}

(***************************************************************************)
(* A request in flight: what it is about, and its answer once there is     *)
(* one.  An answer that is lost, or no JSON, runs the error callback too.  *)
(***************************************************************************)
Flight == [kind : Kinds, comune : Comuni \cup {NULL}, plan : Plan, note : Notes \cup {NULL},
           status : {"sent", "ok", "refused", "lost"},
           plans : [Comuni -> Plan], notes : SUBSET Notes]

ASSUME PageAssumption ==
  /\ IsFiniteSet(Comuni) /\ NULL \notin Comuni \cup Ranges \cup Ats \cup Notes
  /\ Garbled \notin Ranges \cup Ats \cup {NULL}
  /\ NULL \notin Flight
  /\ \A f \in Files : \E C \in SUBSET Comuni :
       f \in [C -> {p \in Plan : p.range # NULL}]
  /\ Slots \in Nat \ {0} /\ MaxClicks \in Nat /\ MaxLosses \in Nat

VARIABLES
  \* The server.
  plan, notes,
  \* The requests.
  flights,
  \* The page.
  list,        \* subentro.comuni; a function, as it is searched by Id
  loaded,      \* whether the list was ever filled
  selected,    \* the Id of subentro.comune
  attached,    \* whether subentro.comune is an element of the present list
  form,        \* interval-from and interval-to, interval-at
  formShown,
  text,        \* the comment being written
  shown,       \* the comments on the page
  planned,     \* "Con Data Pianificata"
  loading,     \* the spinner
  \* History and bounds.
  clicks, losses,
  crossed,     \* the plans were touched while a request about them was in flight
  mixed,       \* likewise the comments
  failed,      \* something was refused, ignored or lost
  unheard,     \* a count of a day was lost
  kept,        \* comuni updated through an object of an earlier list
  written      \* the comments already typed

server == <<plan, notes>>
screen == <<list, loaded, selected, attached, form, formShown, text, shown, planned, loading>>
history == <<crossed, mixed, failed, unheard, kept>>
vars == <<server, flights, screen, clicks, losses, history, written>>

TypeOK ==
  /\ plan \in [Comuni -> Plan]
  /\ notes \in [Comuni -> SUBSET Notes]
  /\ \A s \in 1 .. Slots : flights[s] # NULL => flights[s] \in Flight
  /\ list \in [Comuni -> Entry]
  /\ loaded \in BOOLEAN
  /\ selected \in Comuni \cup {NULL}
  /\ attached \in BOOLEAN
  /\ form \in Form
  /\ formShown \in BOOLEAN
  /\ text \in Notes \cup {NULL}
  /\ shown \in SUBSET Notes
  /\ planned \in Nat
  /\ loading \in BOOLEAN
  /\ clicks \in 0 .. MaxClicks
  /\ losses \in 0 .. MaxLosses
  /\ \A b \in {crossed, mixed, failed, unheard} : b \in BOOLEAN
  /\ kept \in SUBSET Comuni
  /\ written \in SUBSET Notes

-----------------------------------------------------------------------------
InFlight(kinds) == \E s \in 1 .. Slots : flights[s] # NULL /\ flights[s].kind \in kinds

Request(kind) ==
  [kind |-> kind, comune |-> selected, plan |-> NoPlan, note |-> NULL, status |-> "sent",
   plans |-> [c \in Comuni |-> NoPlan], notes |-> {}]

\* $.ajax: the slots only tell the requests apart, and the first free one is taken.
Send(r) ==
  \E s \in 1 .. Slots :
    /\ flights[s] = NULL /\ \A t \in 1 .. s - 1 : flights[t] # NULL
    /\ flights' = [flights EXCEPT ![s] = r]

\* A callback ends, and has sent the request r in its turn.
Follow(s, r) == flights' = [flights EXCEPT ![s] = r]

Land(s) == flights' = [flights EXCEPT ![s] = NULL]

\* calculateComuniWithSubentroDetails; none of the comuni has taken over.
PlannedIn(l) == Cardinality({c \in Comuni : "range" \in l[c].raw \/ l[c].range # NULL})

EntryOf(p) == [range |-> p.range, at |-> p.at, raw |-> {}]

\* dateFormat and getDateFromValue: a field shows the date of an entry, if any.
FieldsOf(e) ==
  [range |-> IF "range" \in e.raw THEN Garbled ELSE e.range,
   at    |-> IF "at" \in e.raw THEN Garbled ELSE e.at]

\* The date in a field, or none if it is not one.
DateIn(field) == IF field = Garbled THEN NULL ELSE field

-----------------------------------------------------------------------------
Init ==
  /\ plan \in [Comuni -> {NoPlan}]
  /\ notes = [c \in Comuni |-> {}]
  /\ list = [c \in Comuni |-> EntryOf(NoPlan)] /\ loaded = FALSE
  /\ selected = NULL /\ attached = FALSE
  /\ form = [range |-> NULL, at |-> NULL] /\ formShown = FALSE
  /\ text = NULL /\ shown = {} /\ planned = 0
  /\ loading = TRUE
  /\ flights = [s \in 1 .. Slots |-> IF s = 1 THEN Request("search") ELSE NULL]
  /\ clicks = 0 /\ losses = 0
  /\ crossed = FALSE /\ mixed = FALSE /\ failed = FALSE /\ unheard = FALSE
  /\ kept = {}
  /\ written = {}

(***************************************************************************)
(* The server answers; a plan without an interval is always refused, and   *)
(* any other may be.                                                       *)
(***************************************************************************)
Served(s, kind) ==
  /\ flights[s] # NULL
  /\ flights[s].kind = kind /\ flights[s].status = "sent"

AnswerIs(s, status) == flights' = [flights EXCEPT ![s].status = status]

unserved == <<screen, clicks, losses, crossed, mixed, unheard, kept, written>>

ServeSearch(s) ==
  /\ Served(s, "search")
  /\ flights' = [flights EXCEPT ![s].status = "ok", ![s].plans = plan]
  /\ UNCHANGED <<server, failed, unserved>>

ServeUpdate(s) ==
  /\ Served(s, "update")
  /\ flights[s].plan.range # NULL
  /\ plan' = [plan EXCEPT ![flights[s].comune] = flights[s].plan]
  /\ AnswerIs(s, "ok")
  /\ UNCHANGED <<notes, failed, unserved>>

ServeUpload(s) ==
  /\ Served(s, "upload")
  /\ \E f \in Files : plan' = [c \in Comuni |-> IF c \in DOMAIN f THEN f[c] ELSE plan[c]]
  /\ AnswerIs(s, "ok")
  /\ UNCHANGED <<notes, failed, unserved>>

\* By the rules; or the comune sent has a date without a time, left in its object
\* by a click on fields that were no dates.
Refuse(s) ==
  /\ \E k \in Kinds \ {"search", "info"} : Served(s, k)
  /\ AnswerIs(s, "refused")
  /\ failed' = TRUE
  /\ UNCHANGED <<server, unserved>>

ServeComments(s) ==
  /\ Served(s, "comments")
  /\ flights' = [flights EXCEPT ![s].status = "ok", ![s].notes = notes[flights[s].comune]]
  /\ UNCHANGED <<server, failed, unserved>>

\* Without read access, as an administrator may be, the answer has none.
HideComments(s) ==
  /\ Served(s, "comments")
  /\ AnswerIs(s, "ok")
  /\ failed' = TRUE
  /\ UNCHANGED <<server, unserved>>

ServeSave(s) ==
  /\ Served(s, "save")
  /\ notes' = [notes EXCEPT ![flights[s].comune] = @ \cup {flights[s].note}]
  /\ AnswerIs(s, "ok")
  /\ UNCHANGED <<plan, failed, unserved>>

\* The comment must be one of the comune.
ServeDelete(s) ==
  /\ Served(s, "delete")
  /\ notes' = [notes EXCEPT ![flights[s].comune] = @ \ {flights[s].note}]
  /\ AnswerIs(s, "ok")
  /\ UNCHANGED <<plan, failed, unserved>>

\* Without write access, or when the INSERT fails, nothing is done and the answer is ok.
Ignore(s) ==
  /\ Served(s, "save") \/ Served(s, "delete")
  /\ AnswerIs(s, "ok")
  /\ failed' = TRUE
  /\ UNCHANGED <<server, unserved>>

ServeInfo(s) ==
  /\ Served(s, "info")
  /\ AnswerIs(s, "ok")
  /\ UNCHANGED <<server, failed, unserved>>

\* The request, or its answer, is lost.
Lose(s) ==
  /\ losses < MaxLosses
  /\ flights[s] # NULL /\ flights[s].status # "lost"
  /\ AnswerIs(s, "lost")
  /\ losses' = losses + 1
  /\ failed' = TRUE
  /\ unheard' = (unheard \/ flights[s].kind = "info")
  /\ UNCHANGED <<server, screen, clicks, crossed, mixed, kept, written>>

Serve(s) ==
  \/ ServeSearch(s) \/ ServeUpdate(s) \/ ServeUpload(s) \/ Refuse(s)
  \/ ServeComments(s) \/ HideComments(s) \/ ServeSave(s) \/ ServeDelete(s) \/ Ignore(s)
  \/ ServeInfo(s)

-----------------------------------------------------------------------------
(***************************************************************************)
(* The callbacks.                                                          *)
(***************************************************************************)
Answered(s, kind, status) ==
  /\ flights[s] # NULL
  /\ flights[s].kind = kind /\ flights[s].status \in status

unanswered == <<server, clicks, losses, crossed, mixed, failed, unheard, written>>

SearchDone(s) ==
  /\ Answered(s, "search", {"ok"})
  /\ list' = [c \in Comuni |-> EntryOf(flights[s].plans[c])]
  /\ loaded' = TRUE
  /\ attached' = FALSE
  /\ planned' = PlannedIn(list')
  /\ loading' = FALSE
  /\ Land(s)
  /\ UNCHANGED <<selected, form, formShown, text, shown, kept, unanswered>>

\* It ends in a ReferenceError, after the spinner.
SearchFailed(s) ==
  /\ Answered(s, "search", {"lost"})
  /\ loading' = FALSE
  /\ Land(s)
  /\ UNCHANGED <<list, loaded, selected, attached, form, formShown, text, shown, planned,
                 kept, unanswered>>

(***************************************************************************)
(* The entry written is that of the comune selected now, with the dates of *)
(* the form now; a field without a date leaves an invalid Date in From and *)
(* To, and PreferredDate as it is.                                         *)
(***************************************************************************)
EntryWritten(e) ==
  [range |-> DateIn(form.range),
   at    |-> IF DateIn(form.at) = NULL THEN e.at ELSE form.at,
   raw   |-> {f \in {"range"} : DateIn(form.range) = NULL}
               \cup {f \in e.raw \ {"range"} : DateIn(form.at) = NULL}]

\* Faulty variant: nothing is written back.
UpdateForgotten(s) ==
  /\ Answered(s, "update", {"ok"})
  /\ planned' = PlannedIn(list)
  /\ loading' = FALSE
  /\ Land(s)
  /\ UNCHANGED <<list, loaded, selected, attached, form, formShown, text, shown, kept,
                 unanswered>>

UpdateDone(s) ==
  /\ Answered(s, "update", {"ok"})
  /\ list' = [list EXCEPT ![selected] = EntryWritten(@)]
  /\ kept' = IF attached THEN kept \ {selected} ELSE kept \cup {selected}
  /\ planned' = PlannedIn(list')
  /\ loading' = FALSE
  /\ Land(s)
  /\ UNCHANGED <<loaded, selected, attached, form, formShown, text, shown, unanswered>>

\* Faulty variant: the spinner goes on.
UpdateRefusedWaits(s) ==
  /\ Answered(s, "update", {"refused"})
  /\ planned' = PlannedIn(list)
  /\ Land(s)
  /\ UNCHANGED <<list, loaded, selected, attached, form, formShown, text, shown, loading,
                 kept, unanswered>>

\* The entry stays as the click left it, and is counted.
UpdateRefused(s) ==
  /\ Answered(s, "update", {"refused"})
  /\ planned' = PlannedIn(list)
  /\ loading' = FALSE
  /\ Land(s)
  /\ UNCHANGED <<list, loaded, selected, attached, form, formShown, text, shown, kept,
                 unanswered>>

\* Without an answer there is no JSON to parse: it throws before the count.
UpdateLost(s) ==
  /\ Answered(s, "update", {"lost"})
  /\ loading' = FALSE
  /\ Land(s)
  /\ UNCHANGED <<list, loaded, selected, attached, form, formShown, text, shown, planned,
                 kept, unanswered>>

\* searchComuni shows the spinner, and toogleWaiting hides it at once.
UploadDone(s) ==
  /\ Answered(s, "upload", {"ok"})
  /\ loading' = FALSE
  /\ Follow(s, Request("search"))
  /\ UNCHANGED <<list, loaded, selected, attached, form, formShown, text, shown, planned,
                 kept, unanswered>>

UploadFailed(s) ==
  /\ Answered(s, "upload", {"refused", "lost"})
  /\ Land(s)
  /\ UNCHANGED <<screen, kept, unanswered>>

\* Faulty variant: the comments are added to those on the page.
CommentsAppended(s) ==
  /\ Answered(s, "comments", {"ok"})
  /\ shown' = shown \cup flights[s].notes
  /\ Land(s)
  /\ UNCHANGED <<list, loaded, selected, attached, form, formShown, text, planned, loading,
                 kept, unanswered>>

CommentsDone(s) ==
  /\ Answered(s, "comments", {"ok"})
  /\ shown' = flights[s].notes
  /\ Land(s)
  /\ UNCHANGED <<list, loaded, selected, attached, form, formShown, text, planned, loading,
                 kept, unanswered>>

\* Clears what was typed meanwhile too.
SaveDone(s) ==
  /\ Answered(s, "save", {"ok"})
  /\ text' = NULL
  /\ Follow(s, Request("comments"))
  /\ UNCHANGED <<list, loaded, selected, attached, form, formShown, shown, planned, loading,
                 kept, unanswered>>

DeleteDone(s) ==
  /\ Answered(s, "delete", {"ok"})
  /\ Follow(s, Request("comments"))
  /\ UNCHANGED <<screen, kept, unanswered>>

InfoDone(s) ==
  /\ Answered(s, "info", {"ok"})
  /\ loading' = FALSE
  /\ Land(s)
  /\ UNCHANGED <<list, loaded, selected, attached, form, formShown, text, shown, planned,
                 kept, unanswered>>

\* No error callback.
Unheard(s) ==
  /\ \E k \in {"comments", "save", "delete", "info"} : Answered(s, k, {"refused", "lost"})
  /\ Land(s)
  /\ UNCHANGED <<screen, kept, unanswered>>

Callback(s) ==
  \/ SearchDone(s) \/ SearchFailed(s) \/ UpdateDone(s) \/ UpdateRefused(s) \/ UpdateLost(s)
  \/ UploadDone(s) \/ UploadFailed(s) \/ CommentsDone(s) \/ SaveDone(s) \/ DeleteDone(s)
  \/ InfoDone(s) \/ Unheard(s)

-----------------------------------------------------------------------------
(***************************************************************************)
(* The operator.                                                           *)
(***************************************************************************)
PlanRequests == {"search", "update", "upload"}
NoteRequests == {"comments", "save", "delete"}

Click ==
  /\ clicks < MaxClicks
  /\ clicks' = clicks + 1
  /\ UNCHANGED <<server, losses, failed, unheard>>

\* onClickEvent of the autocompleter.
Select(c) ==
  /\ Click
  /\ loaded
  /\ selected' = c /\ attached' = TRUE
  /\ form' = FieldsOf(list[c]) /\ formShown' = TRUE
  /\ Send([Request("comments") EXCEPT !.comune = c])
  /\ crossed' = (crossed \/ InFlight(PlanRequests))
  /\ mixed' = (mixed \/ InFlight(NoteRequests))
  /\ UNCHANGED <<list, loaded, text, shown, planned, loading, kept, written>>

EditRange(r) ==
  /\ Click
  /\ formShown /\ form.range # r
  /\ form' = [form EXCEPT !.range = r]
  /\ crossed' = (crossed \/ InFlight(PlanRequests))
  /\ UNCHANGED <<flights, list, loaded, selected, attached, formShown, text, shown, planned,
                 loading, mixed, kept, written>>

\* A change of interval-at asks how many comuni the day has.
EditAt(a) ==
  /\ Click
  /\ formShown /\ form.at # a
  /\ form' = [form EXCEPT !.at = a]
  /\ loading' = TRUE
  /\ Send(Request("info"))
  /\ crossed' = (crossed \/ InFlight(PlanRequests))
  /\ UNCHANGED <<list, loaded, selected, attached, formShown, text, shown, planned,
                 mixed, kept, written>>

\* Faulty variant: the fields are sent as they are.
FieldsInForm == [range |-> form.range, at |-> form.at]

PlanInForm == [range |-> DateIn(form.range), at |-> DateIn(form.at)]

ObjectMade ==
  [range |-> PlanInForm.range, at |-> PlanInForm.at,
   raw   |-> {f \in {"range", "at"} : f = "at" => PlanInForm.at # NULL}]

\* The object selected gets its new plan before the request is sent.
UpdateSubentro ==
  /\ Click
  /\ formShown
  /\ Send([Request("update") EXCEPT !.plan = PlanInForm])
  /\ list' = IF attached
             THEN [list EXCEPT ![selected] = ObjectMade]
             ELSE list
  /\ formShown' = FALSE /\ loading' = TRUE
  /\ crossed' = (crossed \/ InFlight(PlanRequests))
  /\ UNCHANGED <<loaded, selected, attached, form, text, shown, planned, mixed, kept, written>>

UploadSubentro ==
  /\ Click
  /\ loading' = FALSE
  /\ Send(Request("upload"))
  /\ crossed' = (crossed \/ InFlight(PlanRequests))
  /\ UNCHANGED <<list, loaded, selected, attached, form, formShown, text, shown, planned,
                 mixed, kept, written>>

Type(n) ==
  /\ formShown /\ text = NULL /\ n \notin written
  /\ text' = n /\ written' = written \cup {n}
  /\ UNCHANGED <<server, flights, list, loaded, selected, attached, form, formShown, shown,
                 planned, loading, clicks, losses, history>>

UpdateComment ==
  /\ Click
  /\ formShown /\ text # NULL
  /\ Send([Request("save") EXCEPT !.note = text])
  /\ mixed' = (mixed \/ InFlight(NoteRequests))
  /\ UNCHANGED <<screen, crossed, kept, written>>

DeleteComment(n) ==
  /\ Click
  /\ formShown /\ n \in shown
  /\ Send([Request("delete") EXCEPT !.note = n])
  /\ mixed' = (mixed \/ InFlight(NoteRequests))
  /\ UNCHANGED <<screen, crossed, kept, written>>

Operate ==
  \/ \E c \in Comuni : Select(c)
  \/ \E r \in Ranges : EditRange(r)
  \/ \E a \in Ats \cup {NULL} : EditAt(a)
  \/ UpdateSubentro \/ UploadSubentro
  \/ \E n \in Notes : Type(n) \/ DeleteComment(n)
  \/ UpdateComment

Next == Operate \/ \E s \in 1 .. Slots : Serve(s) \/ Lose(s) \/ Callback(s)

Spec == Init /\ [][Next]_vars

(***************************************************************************)
(* Every request is answered or given up by the browser, and every answer  *)
(* runs its callback.                                                      *)
(***************************************************************************)
FairSpec == Spec /\ \A s \in 1 .. Slots : WF_vars(Serve(s)) /\ WF_vars(Callback(s))
-----------------------------------------------------------------------------
Quiet == \A s \in 1 .. Slots : flights[s] = NULL

(***************************************************************************)
(* The page patches its list and its count by hand after each update.  An  *)
(* operator who leaves the plans alone while a request about them is       *)
(* unanswered, and is refused nothing, sees in the end the plans that were *)
(* saved, although comments and days are asked for meanwhile; but for the  *)
(* preferred date of a comune updated through an object of an earlier      *)
(* list, which the page keeps when the update erases it.                   *)
(***************************************************************************)
PlansShownAreSaved ==
  Quiet /\ loaded /\ ~crossed /\ ~failed =>
    /\ \A c \in Comuni : /\ list[c].range = plan[c].range /\ list[c].raw = {}
                         /\ list[c].at # plan[c].at => c \in kept
    /\ planned = Cardinality({c \in Comuni : plan[c].range # NULL})

(***************************************************************************)
(* The comments on the page are those of the comune selected, as they were *)
(* saved, if the operator waits for one request about comments before      *)
(* making the next, whatever is done to the plans meanwhile.               *)
(***************************************************************************)
CommentsShownAreSaved ==
  selected # NULL /\ ~InFlight(NoteRequests) /\ ~mixed /\ ~failed =>
    shown = notes[selected]

(***************************************************************************)
(* The spinner stops: each thing that shows it is followed by an answer    *)
(* that hides it, but for a count of the day that is lost, which has no    *)
(* callback.                                                               *)
(***************************************************************************)
SpinnerStops == loading ~> (~loading \/ unheard)
=============================================================================
