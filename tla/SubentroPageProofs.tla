------------------------- MODULE SubentroPageProofs -------------------------
(***************************************************************************)
(* Theorems about SubentroPage, for any comuni, dates, comments and files, *)
(* any number of requests in flight, clicks and answers lost: a patient    *)
(* operator sees what was saved.                                           *)
(***************************************************************************)
EXTENDS SubentroPage, FiniteSetTheorems, TLAPS

-----------------------------------------------------------------------------
(***************************************************************************)
(* Requests are about a comune that is selected, but for the searches and  *)
(* the uploads; a comment saved or deleted is one.                         *)
(***************************************************************************)
Fits(r, comune) ==
  r # NULL =>
    /\ r \in Flight
    /\ r.kind \notin {"search", "upload"} => comune # NULL /\ r.comune # NULL
    /\ r.kind \in {"save", "delete"} => r.note # NULL

TypeInv ==
  /\ TypeOK
  /\ formShown => selected # NULL
  /\ flights \in [1 .. Slots -> Flight \cup {NULL}]
  /\ \A s \in 1 .. Slots : Fits(flights[s], selected)

-----------------------------------------------------------------------------
(***************************************************************************)
(* What a step may put in a slot.                                          *)
(***************************************************************************)
LEMMA FlightFields ==
  ASSUME NEW r \in Flight
  PROVE  /\ r.kind \in Kinds /\ r.comune \in Comuni \cup {NULL} /\ r.plan \in Plan
         /\ r.note \in Notes \cup {NULL} /\ r.status \in {"sent", "ok", "refused", "lost"}
         /\ r.plans \in [Comuni -> Plan] /\ r.notes \in SUBSET Notes
         /\ r # NULL
  BY PageAssumption DEF Flight

Given(r, status) == [r EXCEPT !.status = status]

LEMMA AnsweredFlight ==
  ASSUME NEW r \in Flight, NEW status \in {"ok", "refused", "lost"}
  PROVE  LET f == Given(r, status) IN
         /\ f \in Flight /\ f.kind = r.kind /\ f.comune = r.comune /\ f.plan = r.plan
         /\ f.note = r.note /\ f.plans = r.plans /\ f.notes = r.notes /\ f.status = status
  BY DEF Flight, Given

LEMMA AnsweredPlans ==
  ASSUME NEW r \in Flight, NEW plans \in [Comuni -> Plan]
  PROVE  LET f == [r EXCEPT !.status = "ok", !.plans = plans] IN
         /\ f \in Flight /\ f.kind = r.kind /\ f.comune = r.comune /\ f.note = r.note
         /\ f.plan = r.plan /\ f.status = "ok" /\ f.plans = plans
  BY DEF Flight

LEMMA AnsweredNotes ==
  ASSUME NEW r \in Flight, NEW ns \in SUBSET Notes
  PROVE  LET f == [r EXCEPT !.status = "ok", !.notes = ns] IN
         /\ f \in Flight /\ f.kind = r.kind /\ f.comune = r.comune /\ f.note = r.note
         /\ f.plan = r.plan /\ f.status = "ok" /\ f.notes = ns
  BY DEF Flight

LEMMA NoPlanType == NoPlan \in Plan
  BY DEF NoPlan, Plan

LEMMA RequestType ==
  ASSUME selected \in Comuni \cup {NULL}, NEW kind \in Kinds
  PROVE  /\ Request(kind) \in Flight
         /\ Request(kind).kind = kind /\ Request(kind).comune = selected
         /\ Request(kind).status = "sent" /\ Request(kind).note = NULL
  BY NoPlanType DEF Request, Flight

LEMMA RequestOf ==
  ASSUME selected \in Comuni \cup {NULL}, NEW c \in Comuni
  PROVE  LET r == [Request("comments") EXCEPT !.comune = c] IN
         r \in Flight /\ r.kind = "comments" /\ r.comune = c /\ r.status = "sent"
  BY NoPlanType DEF Request, Flight, Kinds

LEMMA RequestNote ==
  ASSUME selected \in Comuni \cup {NULL}, NEW kind \in Kinds, NEW n \in Notes
  PROVE  LET r == [Request(kind) EXCEPT !.note = n] IN
         /\ r \in Flight /\ r.kind = kind /\ r.comune = selected /\ r.note = n
         /\ r.status = "sent"
  BY NoPlanType DEF Request, Flight

LEMMA RequestPlan ==
  ASSUME selected \in Comuni \cup {NULL}, NEW p \in Plan
  PROVE  LET r == [Request("update") EXCEPT !.plan = p] IN
         /\ r \in Flight /\ r.kind = "update" /\ r.comune = selected /\ r.plan = p
         /\ r.status = "sent"
  BY NoPlanType DEF Request, Flight, Kinds

LEMMA NullComuni ==
  /\ NULL \notin Comuni /\ NULL \notin Ranges /\ NULL \notin Ats /\ NULL \notin Notes
  /\ NULL \notin Flight /\ Garbled \notin Ranges /\ Garbled \notin Ats /\ Garbled # NULL
  BY PageAssumption

(***************************************************************************)
(* A step that puts r in slot s, and keeps a comune selected.              *)
(***************************************************************************)
LEMMA SlotSet ==
  ASSUME TypeInv, NEW s \in 1 .. Slots, NEW r, flights' = [flights EXCEPT ![s] = r]
  PROVE  \A t \in 1 .. Slots : flights'[t] = IF t = s THEN r ELSE flights[t]
  BY DEF TypeInv

LEMMA SlotsFit ==
  ASSUME TypeInv, NEW s \in 1 .. Slots, NEW r, flights' = [flights EXCEPT ![s] = r],
         selected # NULL => selected' # NULL, Fits(r, selected')
  PROVE  /\ flights' \in [1 .. Slots -> Flight \cup {NULL}]
         /\ \A t \in 1 .. Slots : Fits(flights'[t], selected')
         /\ \A t \in 1 .. Slots : flights'[t] # NULL => flights'[t] \in Flight
<1>1. \A t \in 1 .. Slots : flights'[t] = IF t = s THEN r ELSE flights[t]
  BY SlotSet
<1>2. r \in Flight \cup {NULL}
  BY DEF Fits
<1>3. flights' \in [1 .. Slots -> Flight \cup {NULL}]
  BY <1>2 DEF TypeInv
<1>4. \A t \in 1 .. Slots : Fits(flights'[t], selected')
  BY <1>1 DEF TypeInv, Fits
<1> QED
  BY <1>3, <1>4 DEF Fits

LEMMA NothingFits == \A c : Fits(NULL, c)
  BY DEF Fits

LEMMA InSlot ==
  ASSUME TypeInv, NEW s \in 1 .. Slots, flights[s] # NULL
  PROVE  /\ flights[s] \in Flight
         /\ flights[s].kind \notin {"search", "upload"} =>
              selected \in Comuni /\ flights[s].comune \in Comuni
         /\ flights[s].kind \in {"save", "delete"} => flights[s].note \in Notes
<1>1. flights[s] \in Flight /\ selected \in Comuni \cup {NULL}
  BY DEF TypeInv, TypeOK
<1> QED
  BY <1>1, FlightFields DEF TypeInv, Fits
-----------------------------------------------------------------------------
(***************************************************************************)
(* Types, one lemma for each group of steps.                               *)
(***************************************************************************)
LEMMA TypeInit == Init => TypeInv
<1> SUFFICES ASSUME Init PROVE TypeInv
  OBVIOUS
<1>1. "search" \in Kinds /\ selected \in Comuni \cup {NULL}
  BY DEF Init, Kinds
<1>2. Request("search") \in Flight /\ Request("search").kind = "search"
  BY <1>1, RequestType
<1>3. /\ flights \in [1 .. Slots -> Flight \cup {NULL}]
      /\ \A s \in 1 .. Slots : Fits(flights[s], selected)
  BY <1>2 DEF Init, Fits
<1>4. \A s \in 1 .. Slots : flights[s] # NULL => flights[s] \in Flight
  BY <1>3 DEF Fits
<1>5. list \in [Comuni -> Entry] /\ plan \in [Comuni -> Plan] /\ notes \in [Comuni -> SUBSET Notes]
  BY NoPlanType DEF Init, EntryOf, Entry, NoPlan, Plan
<1>6. form \in Form /\ clicks \in 0 .. MaxClicks /\ losses \in 0 .. MaxLosses
  BY PageAssumption DEF Init, Form
<1> QED
  BY <1>3, <1>4, <1>5, <1>6 DEF Init, TypeInv, TypeOK

LEMMA ServeKeeps ==
  ASSUME TypeInv, NEW s \in 1 .. Slots, Serve(s)
  PROVE  TypeInv'
<1>1. /\ flights[s] # NULL /\ flights[s] \in Flight
      /\ Fits(flights[s], selected)
      /\ plan \in [Comuni -> Plan] /\ notes \in [Comuni -> SUBSET Notes]
  <2>1. flights[s] # NULL
    BY DEF Serve, ServeSearch, ServeUpdate, ServeUpload, Refuse, ServeComments, HideComments,
           ServeSave, ServeDelete, Ignore, ServeInfo, Served
  <2> QED
    BY <2>1, InSlot DEF TypeInv, TypeOK
<1>2. UNCHANGED <<screen, clicks, losses, crossed, mixed, unheard, kept, written>>
  BY DEF Serve, ServeSearch, ServeUpdate, ServeUpload, Refuse, ServeComments, HideComments,
         ServeSave, ServeDelete, Ignore, ServeInfo, unserved
<1>3. failed' \in BOOLEAN
  BY DEF Serve, ServeSearch, ServeUpdate, ServeUpload, Refuse, ServeComments, HideComments,
         ServeSave, ServeDelete, Ignore, ServeInfo, TypeInv, TypeOK
<1>4. \E r : flights' = [flights EXCEPT ![s] = r] /\ Fits(r, selected)
  <2>1. CASE ServeSearch(s)
    <3> DEFINE r == [flights[s] EXCEPT !.status = "ok", !.plans = plan]
    <3>1. flights' = [flights EXCEPT ![s] = r]
      BY <2>1, <1>1 DEF ServeSearch, TypeInv
    <3>2. Fits(r, selected)
      BY <1>1, AnsweredPlans DEF Fits
    <3> QED
      BY <3>1, <3>2
  <2>2. CASE ServeComments(s)
    <3> DEFINE r == [flights[s] EXCEPT !.status = "ok", !.notes = notes[flights[s].comune]]
    <3>1. flights' = [flights EXCEPT ![s] = r]
      BY <2>2, <1>1 DEF ServeComments, TypeInv
    <3>2. flights[s].comune \in Comuni
      BY <1>1, <2>2, InSlot DEF ServeComments, Served
    <3>3. Fits(r, selected)
      <4>1. notes[flights[s].comune] \in SUBSET Notes
        BY <1>1, <3>2
      <4>2. r \in Flight /\ r.kind = flights[s].kind /\ r.comune = flights[s].comune
            /\ r.note = flights[s].note
        BY <1>1, <4>1, AnsweredNotes
      <4> HIDE DEF r
      <4> QED
        BY <1>1, <4>2 DEF Fits
    <3> QED
      BY <3>1, <3>3
  <2>3. ASSUME NEW status \in {"ok", "refused"}, AnswerIs(s, status)
        PROVE  \E r : flights' = [flights EXCEPT ![s] = r] /\ Fits(r, selected)
    <3>1. flights' = [flights EXCEPT ![s] = Given(flights[s], status)]
      BY <2>3, <1>1 DEF AnswerIs, TypeInv, Given
    <3>2. Fits(Given(flights[s], status), selected)
      BY <1>1, AnsweredFlight DEF Fits
    <3> QED
      BY <3>1, <3>2
  <2> QED
    BY <2>1, <2>2, <2>3 DEF Serve, ServeUpdate, ServeUpload, Refuse, HideComments,
                            ServeSave, ServeDelete, Ignore, ServeInfo
<1>5. /\ flights' \in [1 .. Slots -> Flight \cup {NULL}]
      /\ \A t \in 1 .. Slots : Fits(flights'[t], selected')
      /\ \A t \in 1 .. Slots : flights'[t] # NULL => flights'[t] \in Flight
  BY <1>2, <1>4, SlotsFit DEF screen
<1>6. plan' \in [Comuni -> Plan]
  <2>1. CASE ServeUpdate(s)
    BY <1>1, <2>1, FlightFields DEF ServeUpdate
  <2>2. CASE ServeUpload(s)
    <3>1. \A f \in Files : \A c \in DOMAIN f : f[c] \in Plan
      BY PageAssumption
    <3> QED
      BY <1>1, <2>2, <3>1 DEF ServeUpload
  <2> QED
    BY <1>1, <2>1, <2>2 DEF Serve, ServeSearch, Refuse, ServeComments, HideComments,
                            ServeSave, ServeDelete, Ignore, ServeInfo, server
<1>7. notes' \in [Comuni -> SUBSET Notes]
  <2>1. CASE ServeSave(s)
    <3>1. flights[s].note \in Notes
      BY <1>1, <2>1, InSlot DEF ServeSave, Served
    <3> QED
      BY <1>1, <2>1, <3>1 DEF ServeSave
  <2>2. CASE ServeDelete(s)
    BY <1>1, <2>2 DEF ServeDelete
  <2> QED
    BY <1>1, <2>1, <2>2 DEF Serve, ServeSearch, ServeUpdate, ServeUpload, Refuse, ServeComments,
                            HideComments, Ignore, ServeInfo, server
<1> QED
  BY <1>2, <1>3, <1>5, <1>6, <1>7 DEF TypeInv, TypeOK, screen

LEMMA LoseKeeps ==
  ASSUME TypeInv, NEW s \in 1 .. Slots, Lose(s)
  PROVE  TypeInv'
<1> DEFINE r == Given(flights[s], "lost")
<1>1. flights[s] # NULL /\ flights[s] \in Flight /\ Fits(flights[s], selected)
  BY InSlot DEF Lose, TypeInv
<1>2. flights' = [flights EXCEPT ![s] = r] /\ Fits(r, selected)
  <2>1. flights' = [flights EXCEPT ![s] = r]
    BY DEF Lose, AnswerIs, TypeInv, Given
  <2>2. /\ r \in Flight /\ r.kind = flights[s].kind /\ r.comune = flights[s].comune
        /\ r.note = flights[s].note
    BY <1>1, AnsweredFlight
  <2> HIDE DEF r
  <2> QED
    BY <1>1, <2>1, <2>2 DEF Fits
<1>3. UNCHANGED <<server, screen, clicks, crossed, mixed, kept, written>>
  BY DEF Lose
<1>4. /\ flights' \in [1 .. Slots -> Flight \cup {NULL}]
      /\ \A t \in 1 .. Slots : Fits(flights'[t], selected')
      /\ \A t \in 1 .. Slots : flights'[t] # NULL => flights'[t] \in Flight
  BY <1>2, <1>3, SlotsFit DEF screen
<1>5. losses' \in 0 .. MaxLosses /\ failed' \in BOOLEAN /\ unheard' \in BOOLEAN
  BY PageAssumption DEF Lose, TypeInv, TypeOK
<1> QED
  BY <1>3, <1>4, <1>5 DEF TypeInv, TypeOK, server, screen

LEMMA PlannedType ==
  ASSUME NEW l
  PROVE  PlannedIn(l) \in Nat
<1>1. IsFiniteSet({c \in Comuni : "range" \in l[c].raw \/ l[c].range # NULL})
  BY PageAssumption, FS_Subset
<1> QED
  BY <1>1, FS_CardinalityType DEF PlannedIn

LEMMA EntryTypes ==
  ASSUME NEW p \in Plan
  PROVE  EntryOf(p) \in Entry
  BY DEF Plan, EntryOf, Entry

LEMMA FieldsType ==
  ASSUME NEW e \in Entry
  PROVE  FieldsOf(e) \in Form
  BY DEF Entry, FieldsOf, Form

LEMMA FormTypes ==
  ASSUME form \in Form
  PROVE  /\ DateIn(form.range) \in Ranges \cup {NULL}
         /\ DateIn(form.at) \in Ats \cup {NULL}
         /\ PlanInForm \in Plan /\ ObjectMade \in Entry
         /\ \A e \in Entry : EntryWritten(e) \in Entry
<1>1. /\ DateIn(form.range) \in Ranges \cup {NULL}
      /\ DateIn(form.at) \in Ats \cup {NULL}
      /\ DateIn(form.at) # NULL => form.at \in Ats
  BY DEF Form, DateIn
<1>2. PlanInForm \in Plan
  BY <1>1 DEF PlanInForm, Plan
<1>3. ObjectMade \in Entry
  BY <1>2 DEF ObjectMade, Entry, Plan
<1>4. ASSUME NEW e \in Entry PROVE EntryWritten(e) \in Entry
  <2>1. e.at \in Ats \cup {NULL} /\ e.raw \in SUBSET {"range", "at"}
    BY DEF Entry
  <2>2. ({f \in {"range"} : DateIn(form.range) = NULL}
           \cup {f \in e.raw \ {"range"} : DateIn(form.at) = NULL}) \in SUBSET {"range", "at"}
    BY <2>1
  <2>3. (IF DateIn(form.at) = NULL THEN e.at ELSE form.at) \in Ats \cup {NULL}
    BY <1>1, <2>1
  <2> QED
    BY <1>1, <2>2, <2>3 DEF EntryWritten, Entry
<1> QED
  BY <1>1, <1>2, <1>3, <1>4

LEMMA CallbackKeeps ==
  ASSUME TypeInv, NEW s \in 1 .. Slots, Callback(s)
  PROVE  TypeInv'
<1>1. flights[s] # NULL /\ flights[s] \in Flight
  <2>1. flights[s] # NULL
    BY DEF Callback, SearchDone, SearchFailed, UpdateDone, UpdateRefused, UpdateLost, UploadDone,
           UploadFailed, CommentsDone, SaveDone, DeleteDone, InfoDone, Unheard, Answered
  <2> QED
    BY <2>1, InSlot
<1>2. UNCHANGED <<server, clicks, losses, crossed, mixed, failed, unheard, written>>
  BY DEF Callback, SearchDone, SearchFailed, UpdateDone, UpdateRefused, UpdateLost, UploadDone,
         UploadFailed, CommentsDone, SaveDone, DeleteDone, InfoDone, Unheard, unanswered
<1>3. UNCHANGED <<selected, form, formShown>>
  BY DEF Callback, SearchDone, SearchFailed, UpdateDone, UpdateRefused, UpdateLost, UploadDone,
         UploadFailed, CommentsDone, SaveDone, DeleteDone, InfoDone, Unheard, screen
<1>4. \E r : flights' = [flights EXCEPT ![s] = r] /\ Fits(r, selected)
  <2>1. CASE Land(s)
    BY <2>1, NothingFits DEF Land
  <2>2. CASE UploadDone(s)
    <3>1. Fits(Request("search"), selected)
      BY RequestType DEF Fits, Kinds, TypeInv, TypeOK
    <3> QED
      BY <2>2, <3>1 DEF UploadDone, Follow
  <2>3. CASE SaveDone(s) \/ DeleteDone(s)
    <3>1. selected \in Comuni
      BY <1>1, <2>3, InSlot DEF SaveDone, DeleteDone, Answered
    <3>2. Fits(Request("comments"), selected)
      BY <3>1, RequestType, NullComuni DEF Fits, Kinds
    <3> QED
      BY <2>3, <3>2 DEF SaveDone, DeleteDone, Follow
  <2> QED
    BY <2>1, <2>2, <2>3
    DEF Callback, SearchDone, SearchFailed, UpdateDone, UpdateRefused, UpdateLost,
        UploadFailed, CommentsDone, InfoDone, Unheard
<1>5. /\ flights' \in [1 .. Slots -> Flight \cup {NULL}]
      /\ \A t \in 1 .. Slots : Fits(flights'[t], selected')
      /\ \A t \in 1 .. Slots : flights'[t] # NULL => flights'[t] \in Flight
  BY <1>3, <1>4, SlotsFit
<1>6. list' \in [Comuni -> Entry] /\ planned' \in Nat /\ kept' \in SUBSET Comuni
  <2>1. list \in [Comuni -> Entry] /\ planned \in Nat /\ kept \in SUBSET Comuni /\ form \in Form
    BY DEF TypeInv, TypeOK
  <2>2. CASE SearchDone(s)
    <3>1. \A c \in Comuni : EntryOf(flights[s].plans[c]) \in Entry
      BY <1>1, FlightFields, EntryTypes
    <3> QED
      BY <2>1, <2>2, <3>1, PlannedType DEF SearchDone
  <2>3. CASE UpdateDone(s)
    <3>1. selected \in Comuni
      BY <1>1, <2>3, InSlot DEF UpdateDone, Answered
    <3>2. EntryWritten(list[selected]) \in Entry
      BY <2>1, <3>1, FormTypes
    <3>3. list' = [list EXCEPT ![selected] = EntryWritten(list[selected])]
      BY <2>3 DEF UpdateDone
    <3>4. list' \in [Comuni -> Entry]
      BY <2>1, <3>2, <3>3
    <3> QED
      BY <2>1, <2>3, <3>1, <3>4, PlannedType DEF UpdateDone
  <2>4. CASE UpdateRefused(s)
    BY <2>1, <2>4, PlannedType DEF UpdateRefused
  <2> QED
    BY <2>1, <2>2, <2>3, <2>4
    DEF Callback, SearchFailed, UpdateLost, UploadDone, UploadFailed, CommentsDone, SaveDone,
        DeleteDone, InfoDone, Unheard, screen
<1>7. /\ loaded' \in BOOLEAN /\ attached' \in BOOLEAN /\ loading' \in BOOLEAN
      /\ text' \in Notes \cup {NULL} /\ shown' \in SUBSET Notes
  <2>1. flights[s].notes \in SUBSET Notes
    BY <1>1, FlightFields
  <2> QED
    BY <2>1
    DEF Callback, SearchDone, SearchFailed, UpdateDone, UpdateRefused, UpdateLost, UploadDone,
        UploadFailed, CommentsDone, SaveDone, DeleteDone, InfoDone, Unheard, screen,
        TypeInv, TypeOK
<1> QED
  BY <1>2, <1>3, <1>5, <1>6, <1>7 DEF TypeInv, TypeOK, server

(***************************************************************************)
(* A request the operator sends is in the first free slot.                 *)
(***************************************************************************)
LEMMA SendFits ==
  ASSUME TypeInv, NEW r, Send(r), selected # NULL => selected' # NULL, Fits(r, selected')
  PROVE  /\ flights' \in [1 .. Slots -> Flight \cup {NULL}]
         /\ \A t \in 1 .. Slots : Fits(flights'[t], selected')
         /\ \A t \in 1 .. Slots : flights'[t] # NULL => flights'[t] \in Flight
  BY SlotsFit DEF Send

LEMMA ClickTypes ==
  ASSUME TypeInv, Click
  PROVE  /\ clicks' \in 0 .. MaxClicks
         /\ UNCHANGED <<plan, notes, losses, failed, unheard>>
  BY PageAssumption DEF Click, TypeInv, TypeOK, server

LEMMA OperateKeeps ==
  ASSUME TypeInv, Operate
  PROVE  TypeInv'
<1>1. /\ list \in [Comuni -> Entry] /\ form \in Form /\ selected \in Comuni \cup {NULL}
      /\ formShown => selected \in Comuni
  BY DEF TypeInv, TypeOK
<1>2. crossed \in BOOLEAN /\ mixed \in BOOLEAN
      /\ InFlight(PlanRequests) \in BOOLEAN /\ InFlight(NoteRequests) \in BOOLEAN
  BY DEF TypeInv, TypeOK, InFlight
<1>3. ASSUME NEW c \in Comuni, Select(c) PROVE TypeInv'
  <2> DEFINE r == [Request("comments") EXCEPT !.comune = c]
  <2>1. selected' = c /\ Fits(r, selected')
    <3>1. selected' = c /\ r \in Flight /\ r.kind = "comments" /\ r.comune = c
      BY <1>1, <1>3, RequestOf DEF Select
    <3> HIDE DEF r
    <3> QED
      BY <3>1, NullComuni DEF Fits
  <2>2. /\ flights' \in [1 .. Slots -> Flight \cup {NULL}]
        /\ \A t \in 1 .. Slots : Fits(flights'[t], selected')
        /\ \A t \in 1 .. Slots : flights'[t] # NULL => flights'[t] \in Flight
    <3>1. Send(r) /\ selected' # NULL
      BY <1>3, <2>1, NullComuni DEF Select
    <3> HIDE DEF r
    <3> QED
      BY <2>1, <3>1, SendFits
  <2>3. form' \in Form
    BY <1>1, <1>3, FieldsType DEF Select
  <2>4. clicks' \in 0 .. MaxClicks /\ UNCHANGED <<plan, notes, losses, failed, unheard>>
    BY <1>3, ClickTypes DEF Select
  <2> QED
    BY <1>2, <1>3, <2>1, <2>2, <2>3, <2>4, NullComuni DEF Select, TypeInv, TypeOK
<1>4. ASSUME NEW r \in Ranges, EditRange(r) PROVE TypeInv'
  <2>1. form' \in Form
    BY <1>1, <1>4 DEF EditRange, Form
  <2>2. clicks' \in 0 .. MaxClicks /\ UNCHANGED <<plan, notes, losses, failed, unheard>>
    BY <1>4, ClickTypes DEF EditRange
  <2> QED
    BY <1>2, <1>4, <2>1, <2>2 DEF EditRange, TypeInv, TypeOK
<1>5. ASSUME NEW a \in Ats \cup {NULL}, EditAt(a) PROVE TypeInv'
  <2>1. form' \in Form
    BY <1>1, <1>5 DEF EditAt, Form
  <2>2. clicks' \in 0 .. MaxClicks /\ UNCHANGED <<plan, notes, losses, failed, unheard>>
    BY <1>5, ClickTypes DEF EditAt
  <2>3. Fits(Request("info"), selected)
    BY <1>1, <1>5, RequestType, NullComuni DEF EditAt, Fits, Kinds
  <2>4. /\ flights' \in [1 .. Slots -> Flight \cup {NULL}]
        /\ \A t \in 1 .. Slots : Fits(flights'[t], selected')
        /\ \A t \in 1 .. Slots : flights'[t] # NULL => flights'[t] \in Flight
    BY <1>5, <2>3, SendFits DEF EditAt
  <2> QED
    BY <1>2, <1>5, <2>1, <2>2, <2>4 DEF EditAt, TypeInv, TypeOK
<1>6. ASSUME UpdateSubentro PROVE TypeInv'
  <2> DEFINE r == [Request("update") EXCEPT !.plan = PlanInForm]
  <2>1. Fits(r, selected)
    <3>1. r \in Flight /\ r.kind = "update" /\ r.comune = selected
      BY <1>1, FormTypes, RequestPlan
    <3>2. selected # NULL
      BY <1>1, <1>6, NullComuni DEF UpdateSubentro
    <3> HIDE DEF r
    <3> QED
      BY <3>1, <3>2 DEF Fits
  <2>2. /\ flights' \in [1 .. Slots -> Flight \cup {NULL}]
        /\ \A t \in 1 .. Slots : Fits(flights'[t], selected')
        /\ \A t \in 1 .. Slots : flights'[t] # NULL => flights'[t] \in Flight
    <3>1. Send(r) /\ selected' = selected
      BY <1>6 DEF UpdateSubentro
    <3> HIDE DEF r
    <3> QED
      BY <2>1, <3>1, SendFits
  <2>3. list' \in [Comuni -> Entry]
    <3>1. ObjectMade \in Entry
      BY <1>1, FormTypes
    <3> QED
      BY <1>1, <1>6, <3>1 DEF UpdateSubentro
  <2>4. clicks' \in 0 .. MaxClicks /\ UNCHANGED <<plan, notes, losses, failed, unheard>>
    BY <1>6, ClickTypes DEF UpdateSubentro
  <2> QED
    BY <1>2, <1>6, <2>2, <2>3, <2>4 DEF UpdateSubentro, TypeInv, TypeOK
<1>7. ASSUME UploadSubentro PROVE TypeInv'
  <2>1. Fits(Request("upload"), selected)
    BY <1>1, RequestType DEF Fits, Kinds
  <2>2. /\ flights' \in [1 .. Slots -> Flight \cup {NULL}]
        /\ \A t \in 1 .. Slots : Fits(flights'[t], selected')
        /\ \A t \in 1 .. Slots : flights'[t] # NULL => flights'[t] \in Flight
    BY <1>7, <2>1, SendFits DEF UploadSubentro
  <2>3. clicks' \in 0 .. MaxClicks /\ UNCHANGED <<plan, notes, losses, failed, unheard>>
    BY <1>7, ClickTypes DEF UploadSubentro
  <2> QED
    BY <1>2, <1>7, <2>2, <2>3 DEF UploadSubentro, TypeInv, TypeOK
<1>8. ASSUME NEW n \in Notes, Type(n) PROVE TypeInv'
  BY <1>8 DEF Type, TypeInv, TypeOK, server, history
<1>9. ASSUME NEW kind \in {"save", "delete"}, NEW n \in Notes, formShown, Click,
             Send([Request(kind) EXCEPT !.note = n]), mixed' \in BOOLEAN,
             UNCHANGED <<screen, crossed, kept, written>>
      PROVE  TypeInv'
  <2> DEFINE r == [Request(kind) EXCEPT !.note = n]
  <2>1. Fits(r, selected)
    <3>1. r \in Flight /\ r.kind = kind /\ r.comune = selected /\ r.note = n
      BY <1>1, <1>9, RequestNote DEF Kinds
    <3>2. selected # NULL /\ n # NULL
      BY <1>1, <1>9, NullComuni
    <3> HIDE DEF r
    <3> QED
      BY <3>1, <3>2 DEF Fits
  <2>2. /\ flights' \in [1 .. Slots -> Flight \cup {NULL}]
        /\ \A t \in 1 .. Slots : Fits(flights'[t], selected')
        /\ \A t \in 1 .. Slots : flights'[t] # NULL => flights'[t] \in Flight
    <3>1. Send(r) /\ selected' = selected
      BY <1>9 DEF screen
    <3> HIDE DEF r
    <3> QED
      BY <2>1, <3>1, SendFits
  <2>3. clicks' \in 0 .. MaxClicks /\ UNCHANGED <<plan, notes, losses, failed, unheard>>
    BY <1>9, ClickTypes
  <2> QED
    BY <1>9, <2>2, <2>3 DEF TypeInv, TypeOK, screen
<1>10. ASSUME UpdateComment PROVE TypeInv'
  <2>1. text \in Notes
    BY <1>10 DEF UpdateComment, TypeInv, TypeOK
  <2> QED
    BY <1>2, <1>9, <1>10, <2>1 DEF UpdateComment
<1>11. ASSUME NEW n \in Notes, DeleteComment(n) PROVE TypeInv'
  BY <1>2, <1>9, <1>11 DEF DeleteComment
<1> QED
  BY <1>3, <1>4, <1>5, <1>6, <1>7, <1>8, <1>10, <1>11 DEF Operate

LEMMA TypeNext == TypeInv /\ [Next]_vars => TypeInv'
<1> SUFFICES ASSUME TypeInv, [Next]_vars PROVE TypeInv'
  OBVIOUS
<1>1. CASE UNCHANGED vars
  BY <1>1 DEF TypeInv, TypeOK, vars, server, screen, history
<1> QED
  BY <1>1, ServeKeeps, LoseKeeps, CallbackKeeps, OperateKeeps DEF Next

LEMMA TypeHolds == Spec => []TypeInv
  BY TypeInit, TypeNext, PTL DEF Spec

(***************************************************************************)
(* The page, its requests and the server keep their types, in whatever     *)
(* order the requests are answered.                                        *)
(***************************************************************************)
THEOREM PageTypes == Spec => []TypeOK
<1>1. TypeInv => TypeOK
  BY DEF TypeInv
<1> QED
  BY <1>1, TypeHolds, PTL
-----------------------------------------------------------------------------
(***************************************************************************)
(* A patient operator: at most one request about the plans is in flight,   *)
(* and when none is, list and count show what is saved.                    *)
(***************************************************************************)
About(s, kinds) == flights[s] # NULL /\ flights[s].kind \in kinds

Alone(kinds) ==
  \A s, t \in 1 .. Slots : About(s, kinds) /\ About(t, kinds) => s = t

Heard == \A s \in 1 .. Slots : flights[s] # NULL => flights[s].status \in {"sent", "ok"}

ShownAsSaved(c) ==
  /\ list[c].range = plan[c].range /\ list[c].raw = {}
  /\ list[c].at # plan[c].at => c \in kept

ListAsSaved == \A c \in Comuni : ShownAsSaved(c)

(***************************************************************************)
(* While an update is under way the form still holds the plan it is about, *)
(* and the entry is the object made of it, or one with dates that show.    *)
(***************************************************************************)
UpdateUnderWay(s) ==
  /\ loaded
  /\ flights[s].comune = selected /\ flights[s].plan = PlanInForm
  /\ flights[s].status = "ok" => /\ plan[selected] = flights[s].plan
                                 /\ flights[s].plan.range # NULL
  /\ \A c \in Comuni \ {selected} : ShownAsSaved(c)
  /\ attached => list[selected] = ObjectMade
  /\ ~attached => list[selected].raw = {}

PlanInv ==
  ~crossed /\ ~failed =>
    /\ Alone(PlanRequests) /\ Heard
    /\ ~InFlight(PlanRequests) => loaded /\ ListAsSaved /\ planned = PlannedIn(list)
    /\ \A s \in 1 .. Slots : About(s, {"search"}) /\ flights[s].status = "ok" =>
         flights[s].plans = plan
    /\ \A s \in 1 .. Slots : About(s, {"update"}) => UpdateUnderWay(s)

(***************************************************************************)
(* Likewise for the comments, which are those of the comune selected.      *)
(***************************************************************************)
NoteInv ==
  ~mixed /\ ~failed =>
    /\ Alone(NoteRequests) /\ Heard
    /\ \A s \in 1 .. Slots : About(s, NoteRequests) => flights[s].comune = selected
    /\ \A s \in 1 .. Slots : About(s, {"comments"}) /\ flights[s].status = "ok" =>
         flights[s].notes = notes[selected]
    /\ ~InFlight(NoteRequests) /\ selected # NULL => shown = notes[selected]

-----------------------------------------------------------------------------
LEMMA InFlightIs ==
  ASSUME NEW kinds
  PROVE  /\ InFlight(kinds) <=> \E s \in 1 .. Slots : About(s, kinds)
         /\ InFlight(kinds)' <=> \E s \in 1 .. Slots : About(s, kinds)'
  BY DEF InFlight, About

(***************************************************************************)
(* What putting r in slot s does to the requests of some kinds: nothing if *)
(* neither is one of them; and if no slot but s has one, only r may be.    *)
(***************************************************************************)
LEMMA Elsewhere ==
  ASSUME TypeInv, NEW s \in 1 .. Slots, NEW r, flights' = [flights EXCEPT ![s] = r],
         NEW kinds, ~About(s, kinds), r # NULL => r.kind \notin kinds
  PROVE  \A t \in 1 .. Slots :
           /\ About(t, kinds)' <=> About(t, kinds)
           /\ About(t, kinds) => flights'[t] = flights[t]
<1>1. \A t \in 1 .. Slots : flights'[t] = IF t = s THEN r ELSE flights[t]
  BY SlotSet
<1> QED
  BY <1>1 DEF About

LEMMA OnlyOne ==
  ASSUME TypeInv, NEW s \in 1 .. Slots, NEW r, flights' = [flights EXCEPT ![s] = r],
         NEW kinds, \A t \in 1 .. Slots : About(t, kinds) => t = s
  PROVE  \A t \in 1 .. Slots :
           About(t, kinds)' => t = s /\ flights'[t] = r /\ r # NULL /\ r.kind \in kinds
<1>1. \A t \in 1 .. Slots : flights'[t] = IF t = s THEN r ELSE flights[t]
  BY SlotSet
<1> QED
  BY <1>1 DEF About

LEMMA StillHeard ==
  ASSUME TypeInv, NEW s \in 1 .. Slots, NEW r, flights' = [flights EXCEPT ![s] = r],
         Heard, r # NULL => r.status \in {"sent", "ok"}
  PROVE  Heard'
<1>1. \A t \in 1 .. Slots : flights'[t] = IF t = s THEN r ELSE flights[t]
  BY SlotSet
<1> QED
  BY <1>1 DEF Heard

\* A step that touches neither the plans nor the requests about them.
LEMMA PlansAlone ==
  ASSUME TypeInv, PlanInv, ~crossed' => ~crossed, ~failed' => ~failed,
         UNCHANGED <<plan, list, loaded, selected, attached, form, planned, kept>>,
         ~failed' /\ Heard => Heard',
         \A t \in 1 .. Slots : /\ About(t, PlanRequests)' <=> About(t, PlanRequests)
                               /\ About(t, PlanRequests) => flights'[t] = flights[t]
  PROVE  PlanInv'
<1> SUFFICES ASSUME ~crossed', ~failed'
             PROVE  /\ Alone(PlanRequests)' /\ Heard'
                    /\ ~InFlight(PlanRequests)' =>
                         loaded' /\ ListAsSaved' /\ planned' = PlannedIn(list)'
                    /\ \A s \in 1 .. Slots : About(s, {"search"})' /\ flights'[s].status = "ok" =>
                         flights'[s].plans = plan'
                    /\ \A s \in 1 .. Slots : About(s, {"update"})' => UpdateUnderWay(s)'
  BY DEF PlanInv
<1>1. /\ Alone(PlanRequests) /\ Heard
      /\ ~InFlight(PlanRequests) => loaded /\ ListAsSaved /\ planned = PlannedIn(list)
      /\ \A s \in 1 .. Slots : About(s, {"search"}) /\ flights[s].status = "ok" =>
           flights[s].plans = plan
      /\ \A s \in 1 .. Slots : About(s, {"update"}) => UpdateUnderWay(s)
  BY DEF PlanInv
<1>2. Alone(PlanRequests)' /\ Heard'
  BY <1>1 DEF Alone
<1>3. InFlight(PlanRequests)' <=> InFlight(PlanRequests)
  BY InFlightIs
<1>4. PlannedIn(list)' = PlannedIn(list) /\ ListAsSaved' = ListAsSaved
  BY DEF PlannedIn, ListAsSaved, ShownAsSaved
<1>5. \A s \in 1 .. Slots, k \in PlanRequests :
        About(s, {k})' => About(s, {k}) /\ flights'[s] = flights[s]
  BY DEF About
<1>6. ASSUME NEW s \in 1 .. Slots, flights'[s] = flights[s], UpdateUnderWay(s)
      PROVE  UpdateUnderWay(s)'
  BY <1>6 DEF UpdateUnderWay, ShownAsSaved, PlanInForm, ObjectMade
<1> QED
  BY <1>1, <1>2, <1>3, <1>4, <1>5, <1>6 DEF PlanRequests

\* A step that touches neither the comments nor the requests about them.
LEMMA NotesAlone ==
  ASSUME TypeInv, NoteInv, ~mixed' => ~mixed, ~failed' => ~failed,
         UNCHANGED <<notes, selected, shown>>,
         ~failed' /\ Heard => Heard',
         \A t \in 1 .. Slots : /\ About(t, NoteRequests)' <=> About(t, NoteRequests)
                               /\ About(t, NoteRequests) => flights'[t] = flights[t]
  PROVE  NoteInv'
<1>1. InFlight(NoteRequests)' <=> InFlight(NoteRequests)
  BY InFlightIs
<1>2. \A s \in 1 .. Slots :
        About(s, {"comments"})' => About(s, {"comments"}) /\ flights'[s] = flights[s]
  BY DEF About, NoteRequests
<1> QED
  BY <1>1, <1>2 DEF NoteInv, Alone
-----------------------------------------------------------------------------
(***************************************************************************)
(* The answers of the server.                                              *)
(***************************************************************************)
LEMMA ServeEffect ==
  ASSUME TypeInv, NEW s \in 1 .. Slots, Serve(s)
  PROVE  /\ flights[s] # NULL /\ flights[s] \in Flight
         /\ \E r \in Flight :
              /\ flights' = [flights EXCEPT ![s] = r]
              /\ r # NULL /\ r.kind = flights[s].kind /\ r.comune = flights[s].comune
              /\ r.plan = flights[s].plan
              /\ r.status = "ok" \/ Refuse(s)
              /\ ServeSearch(s) => r.plans = plan
              /\ ServeComments(s) => r.notes = notes[flights[s].comune] \/ failed'
<1>1. /\ flights[s] # NULL /\ flights[s] \in Flight
      /\ plan \in [Comuni -> Plan] /\ notes \in [Comuni -> SUBSET Notes]
  <2>1. flights[s] # NULL
    BY DEF Serve, ServeSearch, ServeUpdate, ServeUpload, Refuse, ServeComments, HideComments,
           ServeSave, ServeDelete, Ignore, ServeInfo, Served
  <2> QED
    BY <2>1, InSlot DEF TypeInv, TypeOK
<1>2. CASE ServeSearch(s)
  <2> DEFINE r == [flights[s] EXCEPT !.status = "ok", !.plans = plan]
  <2>1. flights' = [flights EXCEPT ![s] = r] /\ flights[s].kind = "search"
    BY <1>2, <1>1 DEF ServeSearch, Served, TypeInv
  <2>2. /\ r \in Flight /\ r.kind = flights[s].kind /\ r.comune = flights[s].comune
        /\ r.plan = flights[s].plan /\ r.status = "ok" /\ r.plans = plan
    BY <1>1, AnsweredPlans
  <2>3. ~ServeComments(s)
    BY <2>1 DEF ServeComments, Served
  <2> HIDE DEF r
  <2> QED
    BY <1>1, <2>1, <2>2, <2>3, NullComuni
<1>3. CASE ServeComments(s)
  <2> DEFINE r == [flights[s] EXCEPT !.status = "ok", !.notes = notes[flights[s].comune]]
  <2>1. flights' = [flights EXCEPT ![s] = r] /\ flights[s].kind = "comments"
    BY <1>3, <1>1 DEF ServeComments, Served, TypeInv
  <2>2. notes[flights[s].comune] \in SUBSET Notes
    BY <1>1, <2>1, InSlot
  <2>3. /\ r \in Flight /\ r.kind = flights[s].kind /\ r.comune = flights[s].comune
        /\ r.plan = flights[s].plan /\ r.status = "ok" /\ r.notes = notes[flights[s].comune]
    BY <1>1, <2>2, AnsweredNotes
  <2>4. ~ServeSearch(s)
    BY <2>1 DEF ServeSearch, Served
  <2> HIDE DEF r
  <2> QED
    BY <1>1, <2>1, <2>3, <2>4, NullComuni
<1>4. ASSUME ~ServeSearch(s), ~ServeComments(s)
      PROVE  \E r \in Flight :
              /\ flights' = [flights EXCEPT ![s] = r]
              /\ r # NULL /\ r.kind = flights[s].kind /\ r.comune = flights[s].comune
              /\ r.plan = flights[s].plan
              /\ r.status = "ok" \/ Refuse(s)
  <2>1. PICK status \in {"ok", "refused"} : AnswerIs(s, status) /\ (status = "ok" \/ Refuse(s))
    BY <1>4 DEF Serve, ServeUpdate, ServeUpload, Refuse, HideComments, ServeSave, ServeDelete,
                Ignore, ServeInfo
  <2>2. flights' = [flights EXCEPT ![s] = Given(flights[s], status)]
    BY <2>1, <1>1 DEF AnswerIs, TypeInv, Given
  <2>3. LET r == Given(flights[s], status) IN
        /\ r \in Flight /\ r.kind = flights[s].kind /\ r.comune = flights[s].comune
        /\ r.plan = flights[s].plan /\ r.status = status
    BY <1>1, <2>1, AnsweredFlight
  <2> QED
    BY <2>1, <2>2, <2>3, NullComuni
<1> QED
  BY <1>1, <1>2, <1>3, <1>4

LEMMA PatientServe ==
  ASSUME NEW s, Serve(s)
  PROVE  /\ UNCHANGED <<screen, crossed, mixed, kept>>
         /\ Refuse(s) \/ HideComments(s) \/ Ignore(s) => failed' = TRUE
         /\ failed' = failed \/ failed' = TRUE
  BY DEF Serve, ServeSearch, ServeUpdate, ServeUpload, Refuse, ServeComments, HideComments,
         ServeSave, ServeDelete, Ignore, ServeInfo, unserved

LEMMA ServePlans ==
  ASSUME TypeInv, PlanInv, NEW s \in 1 .. Slots, Serve(s)
  PROVE  PlanInv'
<1> SUFFICES ASSUME ~crossed', ~failed' PROVE PlanInv'
  BY DEF PlanInv
<1>1. /\ ~crossed /\ ~failed /\ ~Refuse(s) /\ ~HideComments(s) /\ ~Ignore(s)
      /\ UNCHANGED <<list, loaded, selected, attached, form, planned, crossed, kept>>
  BY PatientServe DEF screen
<1>2. /\ Alone(PlanRequests) /\ Heard
      /\ \A t \in 1 .. Slots : About(t, {"update"}) => UpdateUnderWay(t)
  BY <1>1 DEF PlanInv
<1>3. PICK r \in Flight :
              /\ flights' = [flights EXCEPT ![s] = r]
              /\ r # NULL /\ r.kind = flights[s].kind /\ r.comune = flights[s].comune
              /\ r.plan = flights[s].plan
              /\ r.status = "ok"
              /\ ServeSearch(s) => r.plans = plan
  BY <1>1, ServeEffect
<1>4. flights[s] # NULL /\ Heard' /\ flights'[s] = r
  <2>1. flights[s] # NULL
    BY ServeEffect
  <2>2. Heard'
    BY <1>2, <1>3, StillHeard
  <2>3. flights'[s] = r
    <3>1. \A t \in 1 .. Slots : flights'[t] = IF t = s THEN r ELSE flights[t]
      BY <1>3 DEF TypeInv
    <3> QED
      BY <3>1
  <2> QED
    BY <2>1, <2>2, <2>3
<1>5. CASE flights[s].kind \in PlanRequests
  <2>1. \A t \in 1 .. Slots : About(t, PlanRequests) => t = s
    BY <1>2, <1>4, <1>5 DEF Alone, About
  <2>2. \A t \in 1 .. Slots : About(t, PlanRequests)' => t = s
    BY <1>3, <2>1, OnlyOne
  <2>3. Alone(PlanRequests)'
    BY <2>2 DEF Alone
  <2>4. InFlight(PlanRequests)'
    <3>1. About(s, PlanRequests)'
      BY <1>3, <1>4, <1>5 DEF About
    <3> QED
      BY <3>1, InFlightIs
  <2>5. \A t \in 1 .. Slots, k \in PlanRequests :
          About(t, {k})' => t = s /\ flights[s].kind = k
    BY <1>3, <1>4, <2>2 DEF About
  <2>6. ASSUME flights[s].kind = "search" PROVE r.plans = plan'
    BY <1>1, <1>3, <2>6
    DEF Serve, ServeSearch, ServeUpdate, ServeUpload, ServeComments, ServeSave, ServeDelete,
        ServeInfo, Served, server
  <2>7. ASSUME flights[s].kind = "update" PROVE UpdateUnderWay(s)'
    <3>1. ServeUpdate(s)
      BY <1>1, <2>7
      DEF Serve, ServeSearch, ServeUpload, ServeComments, ServeSave, ServeDelete, ServeInfo,
          Served
    <3>2. UpdateUnderWay(s)
      BY <1>2, <1>4, <2>7 DEF About
    <3>3. /\ flights[s].plan.range # NULL
          /\ plan' = [plan EXCEPT ![selected] = flights[s].plan]
      BY <3>1, <3>2 DEF ServeUpdate, UpdateUnderWay
    <3>4. selected \in Comuni /\ plan \in [Comuni -> Plan]
      BY <1>4, <2>7, InSlot DEF TypeInv, TypeOK
    <3>5. plan'[selected] = flights[s].plan /\ \A c \in Comuni \ {selected} : plan'[c] = plan[c]
      BY <3>3, <3>4
    <3>6. \A c \in Comuni \ {selected} : ShownAsSaved(c)'
      BY <1>1, <3>2, <3>5 DEF UpdateUnderWay, ShownAsSaved
    <3>7. PlanInForm' = PlanInForm /\ ObjectMade' = ObjectMade
      BY <1>1 DEF PlanInForm, ObjectMade
    <3> QED
      BY <1>1, <1>3, <1>4, <3>2, <3>3, <3>5, <3>6, <3>7 DEF UpdateUnderWay
  <2> QED
    BY <1>4, <2>3, <2>4, <2>5, <2>6, <2>7 DEF PlanInv, PlanRequests
<1>6. CASE flights[s].kind \notin PlanRequests
  <2>1. plan' = plan
    BY <1>1, <1>6
    DEF Serve, ServeSearch, ServeUpdate, ServeUpload, ServeComments, ServeSave, ServeDelete,
        ServeInfo, Served, server, PlanRequests
  <2>2. \A t \in 1 .. Slots : /\ About(t, PlanRequests)' <=> About(t, PlanRequests)
                              /\ About(t, PlanRequests) => flights'[t] = flights[t]
    BY <1>3, <1>6, Elsewhere DEF About
  <2> QED
    BY <1>1, <1>4, <2>1, <2>2, PlansAlone
<1> QED
  BY <1>5, <1>6

LEMMA ServeNotes ==
  ASSUME TypeInv, NoteInv, NEW s \in 1 .. Slots, Serve(s)
  PROVE  NoteInv'
<1> SUFFICES ASSUME ~mixed', ~failed' PROVE NoteInv'
  BY DEF NoteInv
<1>1. /\ ~mixed /\ ~failed /\ ~Refuse(s) /\ ~HideComments(s) /\ ~Ignore(s)
      /\ UNCHANGED <<selected, shown, mixed>>
  BY PatientServe DEF screen
<1>2. /\ Alone(NoteRequests) /\ Heard
      /\ \A t \in 1 .. Slots : About(t, NoteRequests) => flights[t].comune = selected
  BY <1>1 DEF NoteInv
<1>3. PICK r \in Flight :
              /\ flights' = [flights EXCEPT ![s] = r]
              /\ r # NULL /\ r.kind = flights[s].kind /\ r.comune = flights[s].comune
              /\ r.status = "ok"
              /\ ServeComments(s) => r.notes = notes[flights[s].comune]
  BY <1>1, ServeEffect
<1>4. flights[s] # NULL /\ Heard' /\ flights'[s] = r
  <2>1. flights[s] # NULL
    BY ServeEffect
  <2>2. Heard'
    BY <1>2, <1>3, StillHeard
  <2>3. flights'[s] = r
    <3>1. \A t \in 1 .. Slots : flights'[t] = IF t = s THEN r ELSE flights[t]
      BY <1>3 DEF TypeInv
    <3> QED
      BY <3>1
  <2> QED
    BY <2>1, <2>2, <2>3
<1>5. CASE flights[s].kind \in NoteRequests
  <2>1. \A t \in 1 .. Slots : About(t, NoteRequests) => t = s
    BY <1>2, <1>4, <1>5 DEF Alone, About
  <2>2. \A t \in 1 .. Slots : About(t, NoteRequests)' => t = s
    BY <1>3, <2>1, OnlyOne
  <2>3. Alone(NoteRequests)'
    BY <2>2 DEF Alone
  <2>4. InFlight(NoteRequests)'
    <3>1. About(s, NoteRequests)'
      BY <1>3, <1>4, <1>5 DEF About
    <3> QED
      BY <3>1, InFlightIs
  <2>5. flights[s].comune = selected
    BY <1>2, <1>4, <1>5 DEF About
  <2>6. \A t \in 1 .. Slots : About(t, {"comments"})' => t = s /\ flights[s].kind = "comments"
    BY <1>3, <1>4, <2>2 DEF About, NoteRequests
  <2>7. ASSUME flights[s].kind = "comments" PROVE r.notes = notes'[selected']
    <3>1. ServeComments(s)
      BY <1>1, <2>7
      DEF Serve, ServeSearch, ServeUpdate, ServeUpload, ServeSave, ServeDelete, ServeInfo,
          Served
    <3> QED
      BY <1>1, <1>3, <2>5, <3>1 DEF ServeComments, server
  <2> QED
    BY <1>1, <1>3, <1>4, <2>2, <2>3, <2>4, <2>5, <2>6, <2>7 DEF NoteInv
<1>6. CASE flights[s].kind \notin NoteRequests
  <2>1. notes' = notes
    BY <1>1, <1>6
    DEF Serve, ServeSearch, ServeUpdate, ServeUpload, ServeComments, ServeSave, ServeDelete,
        ServeInfo, Served, server, NoteRequests
  <2>2. \A t \in 1 .. Slots : /\ About(t, NoteRequests)' <=> About(t, NoteRequests)
                              /\ About(t, NoteRequests) => flights'[t] = flights[t]
    BY <1>3, <1>6, Elsewhere DEF About
  <2> QED
    BY <1>1, <1>4, <2>1, <2>2, NotesAlone
<1> QED
  BY <1>5, <1>6

LEMMA LoseBoth ==
  ASSUME NEW s, Lose(s)
  PROVE  PlanInv' /\ NoteInv'
  BY DEF Lose, PlanInv, NoteInv
-----------------------------------------------------------------------------
(***************************************************************************)
(* The callbacks.                                                          *)
(***************************************************************************)
LEMMA CallbackEffect ==
  ASSUME TypeInv, NEW s \in 1 .. Slots, Callback(s)
  PROVE  /\ flights[s] # NULL /\ flights[s] \in Flight
         /\ UNCHANGED <<plan, notes, selected, form, crossed, mixed, failed>>
<1>1. flights[s] # NULL
  BY DEF Callback, SearchDone, SearchFailed, UpdateDone, UpdateRefused, UpdateLost, UploadDone,
         UploadFailed, CommentsDone, SaveDone, DeleteDone, InfoDone, Unheard, Answered
<1>2. UNCHANGED <<plan, notes, crossed, mixed, failed>>
  BY DEF Callback, SearchDone, SearchFailed, UpdateDone, UpdateRefused, UpdateLost, UploadDone,
         UploadFailed, CommentsDone, SaveDone, DeleteDone, InfoDone, Unheard, unanswered, server
<1>3. UNCHANGED <<selected, form>>
  BY DEF Callback, SearchDone, SearchFailed, UpdateDone, UpdateRefused, UpdateLost, UploadDone,
         UploadFailed, CommentsDone, SaveDone, DeleteDone, InfoDone, Unheard, screen
<1> QED
  BY <1>1, <1>2, <1>3, InSlot

\* Once everything sent so far was heard, no callback of a failure runs.
LEMMA HeardCallback ==
  ASSUME NEW s \in 1 .. Slots, Callback(s), Heard
  PROVE  \/ SearchDone(s) \/ UpdateDone(s) \/ UploadDone(s) \/ CommentsDone(s) \/ SaveDone(s)
         \/ DeleteDone(s) \/ InfoDone(s)
<1>1. flights[s] # NULL => flights[s].status \notin {"refused", "lost"}
  BY DEF Heard
<1> QED
  BY <1>1 DEF Callback, SearchFailed, UpdateRefused, UpdateLost, UploadFailed, Unheard, Answered

\* Only the request s is about these kinds, and it ends.
LEMMA Settled ==
  ASSUME TypeInv, NEW s \in 1 .. Slots, Land(s), NEW kinds, Alone(kinds), About(s, kinds)
  PROVE  \A t \in 1 .. Slots : ~About(t, kinds)'
<1>1. \A t \in 1 .. Slots : About(t, kinds) => t = s
  BY DEF Alone
<1>2. flights' = [flights EXCEPT ![s] = NULL]
  BY DEF Land
<1> QED
  BY <1>1, <1>2, OnlyOne

LEMMA PlansSettled ==
  ASSUME \A t \in 1 .. Slots : ~About(t, PlanRequests)', Heard',
         loaded', ListAsSaved', planned' = PlannedIn(list')
  PROVE  PlanInv'
<1>1. \A t \in 1 .. Slots : ~About(t, {"search"})' /\ ~About(t, {"update"})'
  BY DEF About, PlanRequests
<1>2. PlannedIn(list)' = PlannedIn(list') /\ Alone(PlanRequests)'
  BY DEF PlannedIn, Alone
<1> QED
  BY <1>1, <1>2 DEF PlanInv

(***************************************************************************)
(* What the callback of an update makes of the entry: the plan saved, or   *)
(* that plan with the preferred date of an earlier list.                   *)
(***************************************************************************)
LEMMA WrittenEntry ==
  ASSUME form \in Form, PlanInForm.range # NULL, NEW e \in Entry
  PROVE  /\ EntryWritten(e).range = PlanInForm.range
         /\ e.raw = {} => EntryWritten(e).raw = {}
         /\ e = ObjectMade => EntryWritten(e).raw = {} /\ EntryWritten(e).at = PlanInForm.at
<1>1. DateIn(form.range) # NULL /\ PlanInForm.range = DateIn(form.range)
      /\ PlanInForm.at = DateIn(form.at)
  BY DEF PlanInForm
<1>2. EntryWritten(e).raw = {f \in e.raw \ {"range"} : DateIn(form.at) = NULL}
  BY <1>1 DEF EntryWritten
<1>3. e = ObjectMade => e.at = DateIn(form.at) /\ ("at" \in e.raw => DateIn(form.at) # NULL)
                        /\ e.raw \subseteq {"range", "at"}
  BY <1>1 DEF ObjectMade
<1>4. DateIn(form.at) # NULL => DateIn(form.at) = form.at
  BY DEF DateIn
<1>5. EntryWritten(e).range = DateIn(form.range)
      /\ EntryWritten(e).at = IF DateIn(form.at) = NULL THEN e.at ELSE form.at
  BY DEF EntryWritten
<1>6. e = ObjectMade => EntryWritten(e).raw = {}
  BY <1>2, <1>3
<1>7. e = ObjectMade => EntryWritten(e).at = PlanInForm.at
  BY <1>1, <1>3, <1>4, <1>5
<1> QED
  BY <1>1, <1>2, <1>5, <1>6, <1>7

LEMMA CallbackPlans ==
  ASSUME TypeInv, PlanInv, NEW s \in 1 .. Slots, Callback(s)
  PROVE  PlanInv'
<1> SUFFICES ASSUME ~crossed', ~failed' PROVE PlanInv'
  BY DEF PlanInv
<1>1. /\ flights[s] # NULL /\ flights[s] \in Flight /\ ~crossed /\ ~failed
      /\ UNCHANGED <<plan, notes, selected, form, crossed, mixed, failed>>
  BY CallbackEffect
<1>2. /\ Alone(PlanRequests) /\ Heard
      /\ \A t \in 1 .. Slots : About(t, {"search"}) /\ flights[t].status = "ok" =>
           flights[t].plans = plan
      /\ \A t \in 1 .. Slots : About(t, {"update"}) => UpdateUnderWay(t)
  BY <1>1 DEF PlanInv
<1>3. CASE SearchDone(s)
  <2>1. /\ flights[s].kind = "search" /\ flights[s].status = "ok" /\ Land(s)
        /\ list' = [c \in Comuni |-> EntryOf(flights[s].plans[c])]
        /\ loaded' /\ planned' = PlannedIn(list')
    BY <1>3 DEF SearchDone, Answered
  <2>2. flights[s].plans = plan
    BY <1>1, <1>2, <2>1 DEF About
  <2>3. \A t \in 1 .. Slots : ~About(t, PlanRequests)'
    BY <1>1, <1>2, <2>1, Settled DEF About, PlanRequests
  <2>4. Heard'
    BY <1>2, <2>1, StillHeard DEF Land
  <2>5. ListAsSaved'
    <3>1. \A c \in Comuni : /\ list'[c].range = plan'[c].range /\ list'[c].at = plan'[c].at
                             /\ list'[c].raw = {}
      BY <1>1, <2>1, <2>2 DEF EntryOf
    <3> QED
      BY <3>1 DEF ListAsSaved, ShownAsSaved
  <2> QED
    BY <2>1, <2>3, <2>4, <2>5, PlansSettled
<1>4. CASE UpdateDone(s)
  <2>1. /\ flights[s].kind = "update" /\ flights[s].status = "ok" /\ Land(s)
        /\ list' = [list EXCEPT ![selected] = EntryWritten(list[selected])]
        /\ kept' = IF attached THEN kept \ {selected} ELSE kept \cup {selected}
        /\ planned' = PlannedIn(list') /\ loaded' = loaded
    BY <1>4 DEF UpdateDone, Answered
  <2>2. UpdateUnderWay(s)
    BY <1>1, <1>2, <2>1 DEF About
  <2>3. plan[selected] = PlanInForm /\ PlanInForm.range # NULL
    BY <2>1, <2>2 DEF UpdateUnderWay
  <2>4. /\ selected \in Comuni /\ list \in [Comuni -> Entry] /\ form \in Form
        /\ list[selected] \in Entry
    BY <1>1, <2>1, InSlot DEF TypeInv, TypeOK
  <2>5. \A t \in 1 .. Slots : ~About(t, PlanRequests)'
    BY <1>1, <1>2, <2>1, Settled DEF About, PlanRequests
  <2>6. Heard'
    BY <1>2, <2>1, StillHeard DEF Land
  <2>7. list'[selected] = EntryWritten(list[selected])
        /\ \A c \in Comuni \ {selected} : list'[c] = list[c]
    BY <2>1, <2>4
  <2>8. ShownAsSaved(selected)'
    <3> DEFINE e == EntryWritten(list[selected])
    <3>1. /\ e.range = PlanInForm.range
          /\ list[selected].raw = {} => e.raw = {}
          /\ list[selected] = ObjectMade => e.raw = {} /\ e.at = PlanInForm.at
      BY <2>3, <2>4, WrittenEntry
    <3>2. e.raw = {} /\ (attached => e.at = PlanInForm.at)
      BY <2>2, <3>1 DEF UpdateUnderWay
    <3>3. ~attached => selected \in kept'
      BY <2>1
    <3>4. list'[selected] = e
      BY <2>7
    <3> HIDE DEF e
    <3> QED
      BY <1>1, <2>3, <3>1, <3>2, <3>3, <3>4 DEF ShownAsSaved
  <2>9. \A c \in Comuni \ {selected} : ShownAsSaved(c)'
    <3>1. \A c \in Comuni \ {selected} : c \in kept => c \in kept'
      BY <2>1
    <3> QED
      BY <1>1, <2>2, <2>7, <3>1 DEF ShownAsSaved, UpdateUnderWay
  <2>10. ListAsSaved'
    BY <1>1, <2>8, <2>9 DEF ListAsSaved
  <2>11. loaded'
    BY <2>1, <2>2 DEF UpdateUnderWay
  <2> QED
    BY <2>1, <2>5, <2>6, <2>10, <2>11, PlansSettled
<1>5. CASE UploadDone(s)
  <2> DEFINE r == Request("search")
  <2>1. flights[s].kind = "upload" /\ flights' = [flights EXCEPT ![s] = r]
    BY <1>5 DEF UploadDone, Answered, Follow
  <2>2. r.kind = "search" /\ r.status = "sent" /\ r # NULL
    BY RequestType, NullComuni DEF Kinds, TypeInv, TypeOK
  <2> HIDE DEF r
  <2>3. \A t \in 1 .. Slots : About(t, PlanRequests) => t = s
    BY <1>1, <1>2, <2>1 DEF Alone, About, PlanRequests
  <2>4. \A t \in 1 .. Slots : About(t, PlanRequests)' => t = s /\ flights'[t] = r
    <3>1. \A t \in 1 .. Slots : flights'[t] = IF t = s THEN r ELSE flights[t]
      BY <2>1 DEF TypeInv
    <3> QED
      BY <2>3, <3>1 DEF About
  <2>5. flights'[s] = r
    BY <2>1 DEF TypeInv
  <2>6. Heard'
    BY <1>2, <2>1, <2>2, StillHeard
  <2>7. Alone(PlanRequests)' /\ InFlight(PlanRequests)'
    <3>1. About(s, PlanRequests)'
      BY <2>2, <2>5 DEF About, PlanRequests
    <3> QED
      BY <2>4, <3>1, InFlightIs DEF Alone
  <2>8. \A t \in 1 .. Slots, k \in PlanRequests : About(t, {k})' => flights'[t] = r
    BY <2>4 DEF About
  <2>9. \A t \in 1 .. Slots :
           /\ About(t, {"search"})' => flights'[t].status = "sent"
           /\ ~About(t, {"update"})'
    BY <2>2, <2>8 DEF About, PlanRequests
  <2> QED
    BY <2>6, <2>7, <2>9 DEF PlanInv
<1>6. CASE CommentsDone(s) \/ SaveDone(s) \/ DeleteDone(s) \/ InfoDone(s)
  <2>1. \E r : /\ flights' = [flights EXCEPT ![s] = r]
               /\ r # NULL => r.kind \notin PlanRequests /\ r.status = "sent"
    <3>1. Request("comments").kind = "comments" /\ Request("comments").status = "sent"
      BY RequestType DEF Kinds, TypeInv, TypeOK
    <3> QED
      BY <1>6, <3>1 DEF CommentsDone, SaveDone, DeleteDone, InfoDone, Land, Follow, PlanRequests
  <2>2. Heard'
    BY <1>2, <2>1, StillHeard
  <2>3. flights[s].kind \notin PlanRequests
    BY <1>6 DEF CommentsDone, SaveDone, DeleteDone, InfoDone, Answered, PlanRequests
  <2>4. \A t \in 1 .. Slots : /\ About(t, PlanRequests)' <=> About(t, PlanRequests)
                              /\ About(t, PlanRequests) => flights'[t] = flights[t]
    BY <2>1, <2>3, Elsewhere DEF About
  <2>5. UNCHANGED <<list, loaded, attached, planned, kept>>
    BY <1>6 DEF CommentsDone, SaveDone, DeleteDone, InfoDone, screen
  <2> QED
    BY <1>1, <2>2, <2>4, <2>5, PlansAlone
<1> QED
  BY <1>2, <1>3, <1>4, <1>5, <1>6, HeardCallback

LEMMA CallbackNotes ==
  ASSUME TypeInv, NoteInv, NEW s \in 1 .. Slots, Callback(s)
  PROVE  NoteInv'
<1> SUFFICES ASSUME ~mixed', ~failed' PROVE NoteInv'
  BY DEF NoteInv
<1>1. /\ flights[s] # NULL /\ flights[s] \in Flight /\ ~mixed /\ ~failed
      /\ UNCHANGED <<plan, notes, selected, form, crossed, mixed, failed>>
  BY CallbackEffect
<1>2. /\ Alone(NoteRequests) /\ Heard
      /\ \A t \in 1 .. Slots : About(t, NoteRequests) => flights[t].comune = selected
      /\ \A t \in 1 .. Slots : About(t, {"comments"}) /\ flights[t].status = "ok" =>
           flights[t].notes = notes[selected]
  BY <1>1 DEF NoteInv
<1>3. CASE CommentsDone(s)
  <2>1. /\ flights[s].kind = "comments" /\ flights[s].status = "ok" /\ Land(s)
        /\ shown' = flights[s].notes
    BY <1>3 DEF CommentsDone, Answered
  <2>2. shown' = notes[selected]
    BY <1>1, <1>2, <2>1 DEF About
  <2>3. \A t \in 1 .. Slots : ~About(t, NoteRequests)'
    BY <1>1, <1>2, <2>1, Settled DEF About, NoteRequests
  <2>4. Heard'
    BY <1>2, <2>1, StillHeard DEF Land
  <2>5. \A t \in 1 .. Slots : ~About(t, {"comments"})'
    BY <2>3 DEF About, NoteRequests
  <2>6. Alone(NoteRequests)'
    BY <2>3 DEF Alone
  <2> QED
    BY <1>1, <2>2, <2>3, <2>4, <2>5, <2>6 DEF NoteInv
<1>4. CASE SaveDone(s) \/ DeleteDone(s)
  <2> DEFINE r == Request("comments")
  <2>1. flights[s].kind \in {"save", "delete"} /\ flights' = [flights EXCEPT ![s] = r]
    BY <1>4 DEF SaveDone, DeleteDone, Answered, Follow
  <2>2. r.kind = "comments" /\ r.status = "sent" /\ r.comune = selected /\ r # NULL
    BY RequestType, NullComuni DEF Kinds, TypeInv, TypeOK
  <2> HIDE DEF r
  <2>3. \A t \in 1 .. Slots : About(t, NoteRequests) => t = s
    BY <1>1, <1>2, <2>1 DEF Alone, About, NoteRequests
  <2>4. \A t \in 1 .. Slots : About(t, NoteRequests)' => t = s /\ flights'[t] = r
    <3>1. \A t \in 1 .. Slots : flights'[t] = IF t = s THEN r ELSE flights[t]
      BY <2>1 DEF TypeInv
    <3> QED
      BY <2>3, <3>1 DEF About
  <2>5. flights'[s] = r
    BY <2>1 DEF TypeInv
  <2>6. Heard'
    BY <1>2, <2>1, <2>2, StillHeard
  <2>7. Alone(NoteRequests)' /\ InFlight(NoteRequests)'
    <3>1. About(s, NoteRequests)'
      BY <2>2, <2>5 DEF About, NoteRequests
    <3> QED
      BY <2>4, <3>1, InFlightIs DEF Alone
  <2>8. \A t \in 1 .. Slots : About(t, {"comments"})' => flights'[t].status = "sent"
    BY <2>2, <2>4 DEF About, NoteRequests
  <2> QED
    BY <1>1, <2>2, <2>4, <2>6, <2>7, <2>8 DEF NoteInv
<1>5. CASE SearchDone(s) \/ UpdateDone(s) \/ UploadDone(s) \/ InfoDone(s)
  <2>1. \E r : /\ flights' = [flights EXCEPT ![s] = r]
               /\ r # NULL => r.kind \notin NoteRequests /\ r.status = "sent"
    <3>1. Request("search").kind = "search" /\ Request("search").status = "sent"
      BY RequestType DEF Kinds, TypeInv, TypeOK
    <3> QED
      BY <1>5, <3>1 DEF SearchDone, UpdateDone, UploadDone, InfoDone, Land, Follow, NoteRequests
  <2>2. Heard'
    BY <1>2, <2>1, StillHeard
  <2>3. flights[s].kind \notin NoteRequests
    BY <1>5 DEF SearchDone, UpdateDone, UploadDone, InfoDone, Answered, NoteRequests
  <2>4. \A t \in 1 .. Slots : /\ About(t, NoteRequests)' <=> About(t, NoteRequests)
                              /\ About(t, NoteRequests) => flights'[t] = flights[t]
    BY <2>1, <2>3, Elsewhere DEF About
  <2>5. shown' = shown
    BY <1>5 DEF SearchDone, UpdateDone, UploadDone, InfoDone
  <2> QED
    BY <1>1, <2>2, <2>4, <2>5, NotesAlone
<1> QED
  BY <1>2, <1>3, <1>4, <1>5, HeardCallback
-----------------------------------------------------------------------------
(***************************************************************************)
(* The operator.  A request sent goes to a free slot.                      *)
(***************************************************************************)
LEMMA SendEffect ==
  ASSUME TypeInv, NEW r, Send(r), r # NULL
  PROVE  \E s \in 1 .. Slots :
           /\ flights[s] = NULL /\ flights' = [flights EXCEPT ![s] = r] /\ flights'[s] = r
           /\ \A t \in 1 .. Slots : t # s => flights'[t] = flights[t]
<1>1. PICK s \in 1 .. Slots : flights[s] = NULL /\ flights' = [flights EXCEPT ![s] = r]
  BY DEF Send
<1>2. \A t \in 1 .. Slots : flights'[t] = IF t = s THEN r ELSE flights[t]
  BY <1>1 DEF TypeInv
<1> QED
  BY <1>1, <1>2

\* A request about something else leaves those about these kinds alone.
LEMMA SendElsewhere ==
  ASSUME TypeInv, NEW r, Send(r), r # NULL, NEW kinds, r.kind \notin kinds
  PROVE  \A t \in 1 .. Slots : /\ About(t, kinds)' <=> About(t, kinds)
                               /\ About(t, kinds) => flights'[t] = flights[t]
  BY SendEffect DEF About

\* A request sent when none was in flight is the only one.
LEMMA SendAlone ==
  ASSUME TypeInv, NEW r, Send(r), r # NULL, NEW kinds, r.kind \in kinds, ~InFlight(kinds)
  PROVE  /\ Alone(kinds)' /\ InFlight(kinds)'
         /\ \A t \in 1 .. Slots : About(t, kinds)' => flights'[t] = r
<1>1. PICK s \in 1 .. Slots : /\ flights'[s] = r
                              /\ \A t \in 1 .. Slots : t # s => flights'[t] = flights[t]
  BY SendEffect
<1>2. \A t \in 1 .. Slots : ~About(t, kinds)
  BY InFlightIs
<1>3. \A t \in 1 .. Slots : About(t, kinds)' => t = s
  BY <1>1, <1>2 DEF About
<1>4. About(s, kinds)'
  BY <1>1 DEF About
<1> QED
  BY <1>1, <1>3, <1>4, InFlightIs DEF Alone

LEMMA SendHeard ==
  ASSUME TypeInv, NEW r, Send(r), r # NULL, r.status = "sent", Heard
  PROVE  Heard'
<1>1. PICK s \in 1 .. Slots : flights' = [flights EXCEPT ![s] = r]
  BY DEF Send
<1> QED
  BY <1>1, StillHeard

LEMMA OperateTypes ==
  ASSUME TypeInv, Operate
  PROVE  /\ UNCHANGED <<plan, notes, failed>>
         /\ ~crossed' => ~crossed
         /\ ~mixed' => ~mixed
         /\ selected \in Comuni \cup {NULL} /\ form \in Form /\ list \in [Comuni -> Entry]
         /\ formShown => selected \in Comuni
<1>1. UNCHANGED <<plan, notes, failed>>
  BY DEF Operate, Select, EditRange, EditAt, UpdateSubentro, UploadSubentro, Type, UpdateComment,
         DeleteComment, Click, server, history
<1>2. ~crossed' => ~crossed
  <2>1. crossed' = crossed \/ crossed' = (crossed \/ InFlight(PlanRequests))
    BY Zenon DEF Operate, Select, EditRange, EditAt, UpdateSubentro, UploadSubentro, Type,
                 UpdateComment, DeleteComment, history
  <2> QED
    BY <2>1
<1>3. ~mixed' => ~mixed
  <2>1. mixed' = mixed \/ mixed' = (mixed \/ InFlight(NoteRequests))
    BY Zenon DEF Operate, Select, EditRange, EditAt, UpdateSubentro, UploadSubentro, Type,
                 UpdateComment, DeleteComment, history
  <2> QED
    BY <2>1
<1> QED
  BY <1>1, <1>2, <1>3 DEF TypeInv, TypeOK

LEMMA OperatePlans ==
  ASSUME TypeInv, PlanInv, Operate
  PROVE  PlanInv'
<1> SUFFICES ASSUME ~crossed', ~failed' PROVE PlanInv'
  BY DEF PlanInv
<1>1. /\ ~crossed /\ ~failed /\ UNCHANGED <<plan, notes, failed>>
      /\ selected \in Comuni \cup {NULL} /\ form \in Form /\ list \in [Comuni -> Entry]
      /\ formShown => selected \in Comuni
  BY OperateTypes
<1>2. /\ Heard
      /\ ~InFlight(PlanRequests) => loaded /\ ListAsSaved /\ planned = PlannedIn(list)
  BY <1>1 DEF PlanInv
<1>3. ASSUME ~InFlight(PlanRequests), UNCHANGED <<list, loaded, planned, kept>>, Heard',
             \A t \in 1 .. Slots : About(t, PlanRequests)' <=> About(t, PlanRequests)
      PROVE  PlanInv'
  <2>1. \A t \in 1 .. Slots : ~About(t, PlanRequests)'
    BY <1>3, InFlightIs
  <2>2. ListAsSaved'
    BY <1>1, <1>2, <1>3 DEF ListAsSaved, ShownAsSaved
  <2> QED
    BY <1>2, <1>3, <2>1, <2>2, PlansSettled
<1>4. ASSUME NEW c \in Comuni, Select(c) PROVE PlanInv'
  <2> DEFINE r == [Request("comments") EXCEPT !.comune = c]
  <2>1. r \in Flight /\ r.kind = "comments" /\ r.status = "sent" /\ Send(r)
    BY <1>1, <1>4, RequestOf DEF Select
  <2>2. ~InFlight(PlanRequests) /\ UNCHANGED <<list, loaded, planned, kept>>
    BY <1>4 DEF Select
  <2> HIDE DEF r
  <2>3. r # NULL /\ r.kind \notin PlanRequests
    BY <2>1, NullComuni DEF PlanRequests
  <2>4. Heard'
    BY <1>2, <2>1, <2>3, SendHeard
  <2>5. \A t \in 1 .. Slots : About(t, PlanRequests)' <=> About(t, PlanRequests)
    BY <2>1, <2>3, SendElsewhere
  <2> QED
    BY <1>3, <2>2, <2>4, <2>5
<1>5. ASSUME NEW x \in Ranges, EditRange(x) PROVE PlanInv'
  <2>1. /\ ~InFlight(PlanRequests)
        /\ UNCHANGED <<flights, list, loaded, planned, kept>>
    BY <1>5 DEF EditRange
  <2>2. Heard' /\ \A t \in 1 .. Slots : About(t, PlanRequests)' <=> About(t, PlanRequests)
    BY <1>2, <2>1 DEF Heard, About
  <2> QED
    BY <1>3, <2>1, <2>2
<1>6. ASSUME NEW a \in Ats \cup {NULL}, EditAt(a) PROVE PlanInv'
  <2> DEFINE r == Request("info")
  <2>1. r \in Flight /\ r.kind = "info" /\ r.status = "sent" /\ Send(r)
    BY <1>1, <1>6, RequestType DEF EditAt, Kinds
  <2>2. ~InFlight(PlanRequests) /\ UNCHANGED <<list, loaded, planned, kept>>
    BY <1>6 DEF EditAt
  <2> HIDE DEF r
  <2>3. r # NULL /\ r.kind \notin PlanRequests
    BY <2>1, NullComuni DEF PlanRequests
  <2>4. Heard'
    BY <1>2, <2>1, <2>3, SendHeard
  <2>5. \A t \in 1 .. Slots : About(t, PlanRequests)' <=> About(t, PlanRequests)
    BY <2>1, <2>3, SendElsewhere
  <2> QED
    BY <1>3, <2>2, <2>4, <2>5
<1>7. ASSUME UpdateSubentro PROVE PlanInv'
  <2> DEFINE r == [Request("update") EXCEPT !.plan = PlanInForm]
  <2>1. /\ r \in Flight /\ r.kind = "update" /\ r.status = "sent" /\ r.comune = selected
        /\ r.plan = PlanInForm
    BY <1>1, FormTypes, RequestPlan
  <2>2. /\ Send(r) /\ selected \in Comuni
        /\ ~InFlight(PlanRequests)
        /\ list' = IF attached THEN [list EXCEPT ![selected] = ObjectMade] ELSE list
        /\ UNCHANGED <<loaded, selected, attached, form, kept>>
    BY <1>1, <1>7 DEF UpdateSubentro
  <2> HIDE DEF r
  <2>3. r # NULL /\ r.kind \in PlanRequests
    BY <2>1, NullComuni DEF PlanRequests
  <2>4. Heard'
    BY <1>2, <2>1, <2>2, <2>3, SendHeard
  <2>5. /\ Alone(PlanRequests)' /\ InFlight(PlanRequests)'
        /\ \A t \in 1 .. Slots : About(t, PlanRequests)' => flights'[t] = r
    BY <2>2, <2>3, SendAlone
  <2>6. \A t \in 1 .. Slots, k \in PlanRequests : About(t, {k})' => flights'[t] = r /\ k = "update"
    BY <2>1, <2>5 DEF About
  <2>7. PlanInForm' = PlanInForm /\ ObjectMade' = ObjectMade
    BY <2>2 DEF PlanInForm, ObjectMade
  <2>8. /\ \A c \in Comuni \ {selected} : list'[c] = list[c]
        /\ attached => list'[selected] = ObjectMade
        /\ ~attached => list'[selected].raw = {}
    <3>1. list[selected].raw = {}
      BY <1>2, <2>2 DEF ListAsSaved, ShownAsSaved
    <3> QED
      BY <1>1, <2>2, <3>1
  <2>9. \A c \in Comuni \ {selected} : ShownAsSaved(c)'
    BY <1>1, <1>2, <2>2, <2>8 DEF ListAsSaved, ShownAsSaved
  <2>10. ASSUME NEW t \in 1 .. Slots, flights'[t] = r PROVE UpdateUnderWay(t)'
    BY <1>2, <2>1, <2>2, <2>7, <2>8, <2>9, <2>10 DEF UpdateUnderWay
  <2> QED
    BY <2>4, <2>5, <2>6, <2>10 DEF PlanInv, PlanRequests
<1>8. ASSUME UploadSubentro PROVE PlanInv'
  <2> DEFINE r == Request("upload")
  <2>1. r \in Flight /\ r.kind = "upload" /\ r.status = "sent" /\ Send(r)
    BY <1>1, <1>8, RequestType DEF UploadSubentro, Kinds
  <2>2. ~InFlight(PlanRequests)
    BY <1>8 DEF UploadSubentro
  <2> HIDE DEF r
  <2>3. r # NULL /\ r.kind \in PlanRequests
    BY <2>1, NullComuni DEF PlanRequests
  <2>4. Heard'
    BY <1>2, <2>1, <2>3, SendHeard
  <2>5. /\ Alone(PlanRequests)' /\ InFlight(PlanRequests)'
        /\ \A t \in 1 .. Slots : About(t, PlanRequests)' => flights'[t] = r
    BY <2>1, <2>2, <2>3, SendAlone
  <2>6. \A t \in 1 .. Slots, k \in PlanRequests : About(t, {k})' => k = "upload"
    BY <2>1, <2>5 DEF About
  <2> QED
    BY <2>4, <2>5, <2>6 DEF PlanInv, PlanRequests
<1>9. ASSUME UNCHANGED <<list, loaded, selected, attached, form, planned, kept>>, Heard',
             \A t \in 1 .. Slots : /\ About(t, PlanRequests)' <=> About(t, PlanRequests)
                                   /\ About(t, PlanRequests) => flights'[t] = flights[t]
      PROVE  PlanInv'
  BY <1>1, <1>9, PlansAlone
<1>10. ASSUME NEW n \in Notes, Type(n) PROVE PlanInv'
  <2>1. UNCHANGED <<flights, list, loaded, selected, attached, form, planned, kept>>
    BY <1>10 DEF Type, history
  <2> QED
    BY <1>2, <1>9, <2>1 DEF Heard, About
<1>11. ASSUME NEW kind \in {"save", "delete"}, NEW n \in Notes,
              Send([Request(kind) EXCEPT !.note = n]), UNCHANGED <<screen, kept>>
       PROVE  PlanInv'
  <2> DEFINE r == [Request(kind) EXCEPT !.note = n]
  <2>1. r \in Flight /\ r.kind = kind /\ r.status = "sent" /\ Send(r)
    BY <1>1, <1>11, RequestNote DEF Kinds
  <2> HIDE DEF r
  <2>2. r # NULL /\ r.kind \notin PlanRequests
    BY <2>1, NullComuni DEF PlanRequests
  <2>3. Heard'
    BY <1>2, <2>1, <2>2, SendHeard
  <2>4. \A t \in 1 .. Slots : /\ About(t, PlanRequests)' <=> About(t, PlanRequests)
                              /\ About(t, PlanRequests) => flights'[t] = flights[t]
    BY <2>1, <2>2, SendElsewhere
  <2> QED
    BY <1>9, <1>11, <2>3, <2>4 DEF screen
<1>12. ASSUME UpdateComment PROVE PlanInv'
  <2>1. text \in Notes
    BY <1>12 DEF UpdateComment, TypeInv, TypeOK
  <2> QED
    BY <1>11, <1>12, <2>1 DEF UpdateComment
<1>13. ASSUME NEW n \in Notes, DeleteComment(n) PROVE PlanInv'
  BY <1>11, <1>13 DEF DeleteComment
<1> QED
  BY <1>4, <1>5, <1>6, <1>7, <1>8, <1>10, <1>12, <1>13 DEF Operate

LEMMA OperateNotes ==
  ASSUME TypeInv, NoteInv, Operate
  PROVE  NoteInv'
<1> SUFFICES ASSUME ~mixed', ~failed' PROVE NoteInv'
  BY DEF NoteInv
<1>1. /\ ~mixed /\ ~failed /\ UNCHANGED <<plan, notes, failed>>
      /\ selected \in Comuni \cup {NULL} /\ form \in Form
      /\ formShown => selected \in Comuni
  BY OperateTypes
<1>2. Heard
  BY <1>1 DEF NoteInv
<1>3. ASSUME NEW r \in Flight, Send(r), r.kind \in NoteRequests, r.status = "sent",
             r.comune = selected', ~InFlight(NoteRequests)
      PROVE  NoteInv'
  <2>1. r # NULL
    BY NullComuni
  <2>2. Heard'
    BY <1>2, <1>3, <2>1, SendHeard
  <2>3. /\ Alone(NoteRequests)' /\ InFlight(NoteRequests)'
        /\ \A t \in 1 .. Slots : About(t, NoteRequests)' => flights'[t] = r
    BY <1>3, <2>1, SendAlone
  <2>4. \A t \in 1 .. Slots : About(t, {"comments"})' => flights'[t].status = "sent"
    BY <1>3, <2>3 DEF About, NoteRequests
  <2> QED
    BY <1>3, <2>2, <2>3, <2>4 DEF NoteInv
<1>4. ASSUME NEW c \in Comuni, Select(c) PROVE NoteInv'
  <2> DEFINE r == [Request("comments") EXCEPT !.comune = c]
  <2>1. r \in Flight /\ r.kind = "comments" /\ r.status = "sent" /\ r.comune = c
    BY <1>1, RequestOf
  <2>2. ~InFlight(NoteRequests) /\ selected' = c /\ Send(r)
    BY <1>4 DEF Select
  <2> HIDE DEF r
  <2> QED
    BY <1>3, <2>1, <2>2 DEF NoteRequests
<1>5. ASSUME NEW kind \in {"save", "delete"}, NEW n \in Notes,
             Send([Request(kind) EXCEPT !.note = n]), UNCHANGED screen, ~InFlight(NoteRequests)
      PROVE  NoteInv'
  <2> DEFINE r == [Request(kind) EXCEPT !.note = n]
  <2>1. r \in Flight /\ r.kind = kind /\ r.status = "sent" /\ r.comune = selected
    BY <1>1, <1>5, RequestNote DEF Kinds
  <2>2. Send(r) /\ selected' = selected
    BY <1>5 DEF screen
  <2> HIDE DEF r
  <2> QED
    BY <1>3, <1>5, <2>1, <2>2 DEF NoteRequests
<1>6. ASSUME UpdateComment PROVE NoteInv'
  <2>1. text \in Notes /\ ~InFlight(NoteRequests)
    BY <1>6 DEF UpdateComment, TypeInv, TypeOK
  <2> QED
    BY <1>5, <1>6, <2>1 DEF UpdateComment
<1>7. ASSUME NEW n \in Notes, DeleteComment(n) PROVE NoteInv'
  BY <1>5, <1>7 DEF DeleteComment
<1>8. ASSUME NEW r \in Flight, Send(r), r.kind \notin NoteRequests, r.status = "sent",
             UNCHANGED <<selected, shown>>
      PROVE  NoteInv'
  <2>1. r # NULL
    BY NullComuni
  <2>2. Heard'
    BY <1>2, <1>8, <2>1, SendHeard
  <2>3. \A t \in 1 .. Slots : /\ About(t, NoteRequests)' <=> About(t, NoteRequests)
                              /\ About(t, NoteRequests) => flights'[t] = flights[t]
    BY <1>8, <2>1, SendElsewhere
  <2> QED
    BY <1>1, <1>8, <2>2, <2>3, NotesAlone
<1>9. ASSUME NEW a \in Ats \cup {NULL}, EditAt(a) PROVE NoteInv'
  <2> DEFINE r == Request("info")
  <2>1. r \in Flight /\ r.kind = "info" /\ r.status = "sent"
    BY <1>1, RequestType DEF Kinds
  <2>2. Send(r) /\ UNCHANGED <<selected, shown>>
    BY <1>9 DEF EditAt
  <2> HIDE DEF r
  <2> QED
    BY <1>8, <2>1, <2>2 DEF NoteRequests
<1>10. ASSUME UpdateSubentro PROVE NoteInv'
  <2> DEFINE r == [Request("update") EXCEPT !.plan = PlanInForm]
  <2>1. r \in Flight /\ r.kind = "update" /\ r.status = "sent"
    BY <1>1, FormTypes, RequestPlan
  <2>2. Send(r) /\ UNCHANGED <<selected, shown>>
    BY <1>10 DEF UpdateSubentro
  <2> HIDE DEF r
  <2> QED
    BY <1>8, <2>1, <2>2 DEF NoteRequests
<1>11. ASSUME UploadSubentro PROVE NoteInv'
  <2> DEFINE r == Request("upload")
  <2>1. r \in Flight /\ r.kind = "upload" /\ r.status = "sent"
    BY <1>1, RequestType DEF Kinds
  <2>2. Send(r) /\ UNCHANGED <<selected, shown>>
    BY <1>11 DEF UploadSubentro
  <2> HIDE DEF r
  <2> QED
    BY <1>8, <2>1, <2>2 DEF NoteRequests
<1>12. ASSUME UNCHANGED <<flights, selected, shown>> PROVE NoteInv'
  <2>1. Heard' /\ \A t \in 1 .. Slots : About(t, NoteRequests)' <=> About(t, NoteRequests)
    BY <1>2, <1>12 DEF Heard, About
  <2> QED
    BY <1>1, <1>12, <2>1, NotesAlone
<1>13. ASSUME NEW x \in Ranges, EditRange(x) PROVE NoteInv'
  BY <1>12, <1>13 DEF EditRange
<1>14. ASSUME NEW n \in Notes, Type(n) PROVE NoteInv'
  BY <1>12, <1>14 DEF Type
<1> QED
  BY <1>4, <1>6, <1>7, <1>9, <1>10, <1>11, <1>13, <1>14 DEF Operate
-----------------------------------------------------------------------------
PatientInv == TypeInv /\ PlanInv /\ NoteInv

LEMMA PatientInit == Init => PatientInv
<1> SUFFICES ASSUME Init PROVE PlanInv /\ NoteInv
  BY TypeInit DEF PatientInv
<1> DEFINE r == Request("search")
<1>1. r.kind = "search" /\ r.status = "sent" /\ r # NULL /\ 1 \in 1 .. Slots
  BY RequestType, NullComuni, PageAssumption DEF Init, Kinds
<1>2. flights = [s \in 1 .. Slots |-> IF s = 1 THEN r ELSE NULL] /\ selected = NULL
  BY DEF Init
<1> HIDE DEF r
<1>3. Heard
  BY <1>1, <1>2 DEF Heard
<1>4. \A kinds : \A s \in 1 .. Slots : About(s, kinds) => s = 1 /\ flights[s] = r /\ "search" \in kinds
  BY <1>1, <1>2 DEF About
<1>5. Alone(PlanRequests) /\ Alone(NoteRequests)
  BY <1>4 DEF Alone
<1>6. InFlight(PlanRequests)
  BY <1>1, <1>2 DEF InFlight, PlanRequests
<1>7. \A s \in 1 .. Slots : ~About(s, {"update"}) /\ ~About(s, NoteRequests)
                            /\ ~About(s, {"comments"})
  BY <1>4 DEF NoteRequests
<1>8. \A s \in 1 .. Slots : About(s, {"search"}) => flights[s].status # "ok"
  BY <1>1, <1>4
<1> QED
  BY <1>2, <1>3, <1>5, <1>6, <1>7, <1>8 DEF PlanInv, NoteInv

LEMMA PatientNext == PatientInv /\ [Next]_vars => PatientInv'
<1> SUFFICES ASSUME PatientInv, [Next]_vars PROVE PatientInv'
  OBVIOUS
<1>1. TypeInv /\ PlanInv /\ NoteInv
  BY DEF PatientInv
<1>2. TypeInv'
  BY <1>1, TypeNext
<1>3. PlanInv' /\ NoteInv'
  <2>1. CASE Operate
    BY <1>1, <2>1, OperatePlans, OperateNotes
  <2>2. ASSUME NEW s \in 1 .. Slots, Serve(s) PROVE PlanInv' /\ NoteInv'
    BY <1>1, <2>2, ServePlans, ServeNotes
  <2>3. ASSUME NEW s \in 1 .. Slots, Callback(s) PROVE PlanInv' /\ NoteInv'
    BY <1>1, <2>3, CallbackPlans, CallbackNotes
  <2>4. CASE UNCHANGED vars
    <3>1. /\ UNCHANGED <<plan, notes, flights, list, loaded, selected, attached, form, shown,
                         planned, crossed, mixed, failed, kept>>
      BY <2>4 DEF vars, server, screen, history
    <3>2. (Heard => Heard') /\ \A t \in 1 .. Slots, k \in {PlanRequests, NoteRequests} :
            /\ About(t, k)' <=> About(t, k)
            /\ About(t, k) => flights'[t] = flights[t]
      BY <3>1 DEF Heard, About
    <3>3. PlanInv'
      BY <1>1, <3>1, <3>2, PlansAlone
    <3>4. NoteInv'
      BY <1>1, <3>1, <3>2, NotesAlone
    <3> QED
      BY <3>3, <3>4
  <2> QED
    BY <2>1, <2>2, <2>3, <2>4, LoseBoth DEF Next
<1> QED
  BY <1>2, <1>3 DEF PatientInv

LEMMA PatientHolds == Spec => []PatientInv
  BY PatientInit, PatientNext, PTL DEF Spec

(***************************************************************************)
(* The plans on the page are those that were saved, once nothing is in     *)
(* flight, and so is their count, for an operator who waits for the plans  *)
(* and is refused nothing: the callbacks of subentro_rout6.js, which patch *)
(* the list by hand.                                                       *)
(***************************************************************************)
THEOREM PlansShownAlwaysSaved == Spec => []PlansShownAreSaved
<1>1. PatientInv => PlansShownAreSaved
  <2> SUFFICES ASSUME PatientInv, Quiet, ~crossed, ~failed
               PROVE  /\ ListAsSaved
                      /\ planned = Cardinality({c \in Comuni : plan[c].range # NULL})
    BY DEF PlansShownAreSaved, ListAsSaved, ShownAsSaved
  <2>1. ~InFlight(PlanRequests)
    BY DEF Quiet, InFlight
  <2>2. ListAsSaved /\ planned = PlannedIn(list)
    BY <2>1 DEF PatientInv, PlanInv
  <2>3. \A c \in Comuni : list[c].range = plan[c].range /\ list[c].raw = {}
    BY <2>2 DEF ListAsSaved, ShownAsSaved
  <2>4. {c \in Comuni : "range" \in list[c].raw \/ list[c].range # NULL}
          = {c \in Comuni : plan[c].range # NULL}
    BY <2>3
  <2> QED
    BY <2>2, <2>4 DEF PlannedIn
<1> QED
  BY <1>1, PatientHolds, PTL

(***************************************************************************)
(* The comments on the page are those saved for the comune selected, for   *)
(* an operator who waits for one request about comments before the next:   *)
(* whatever is done to the plans meanwhile, in any order of the answers.   *)
(***************************************************************************)
THEOREM CommentsShownAlwaysSaved == Spec => []CommentsShownAreSaved
<1>1. PatientInv => CommentsShownAreSaved
  BY DEF PatientInv, NoteInv, CommentsShownAreSaved
<1> QED
  BY <1>1, PatientHolds, PTL
=============================================================================
