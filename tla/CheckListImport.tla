-------------------------- MODULE CheckListImport --------------------------
(***************************************************************************)
(* The hourly import of the files of ANPR (server/storage.go,              *)
(* RunPeriodicRoutines) and the script that downloads them                 *)
(* (cronjob/fetch-data.sh).  The script runs curl file by file, and curl   *)
(* writes in place: it empties the file, then fills it as the answer       *)
(* comes.  The import opens the same file when its hour comes and decodes  *)
(* it as it reads.  Nothing keeps one from the other, so an import may     *)
(* meet a file that is short, or one that is rewritten under it.           *)
(*                                                                         *)
(* A decode goes row by row, here as in the XML decoder; a transaction is  *)
(* one action.  PlanStore takes the whole import of the checklist as one   *)
(* action of its environment.                                              *)
(***************************************************************************)
EXTENDS Naturals, Sequences

CONSTANTS
  Comuni,       \* the ISTAT codes in the table COMUNE
  Dates,        \* the strings that parse as a date
  Editions,     \* what ANPR publishes, one edition after the other
  MaxFetches,   \* bound: how many times the script runs
  MaxFaults,    \* bound: how many faults of SQLite and stops of the server
  NULL

Files == {"comuni", "anomalie"}

\* The order of files_to_download, of the two files the server reads.
FirstFile == "anomalie"
LastFile  == "comuni"

\* The attributes of a <ROW> that are told apart here: a date and two flags.
\* The other columns of the UPDATE are dates, flags, numbers and names, each
\* with an attribute of its own (the population with two, that of ISTAT when
\* ANPR has none).
ComuneState   == [codice : STRING, presubentro : STRING, ip : STRING, pec : STRING]
AnomaliaState == [codice : STRING, tipo : STRING, number : Nat]

ASSUME EditionsAssumption ==
  /\ Comuni \subseteq STRING /\ Dates \subseteq STRING
  /\ NULL \notin STRING \cup ComuneState \cup AnomaliaState
  /\ MaxFetches \in Nat /\ MaxFaults \in Nat
  /\ Editions # <<>>
  /\ \A e \in DOMAIN Editions :
       /\ DOMAIN Editions[e] = Files
       /\ Editions[e]["comuni"] \in Seq(ComuneState)
       /\ Editions[e]["anomalie"] \in Seq(AnomaliaState)

\* An edition has one row for a comune.
ASSUME UniqueAssumption ==
  \A e \in DOMAIN Editions :
    LET list == Editions[e]["comuni"]
    IN  \A i, j \in DOMAIN list : list[i].codice = list[j].codice => i = j

(***************************************************************************)
(* The lines of a file: its rows and the end of the root element, without  *)
(* which the decoder returns an error.  Each carries the edition it is of. *)
(***************************************************************************)
End == NULL

Rows(f, e) == [i \in DOMAIN Editions[e][f] |-> [ed |-> e, row |-> Editions[e][f][i]]]

Lines(f, e) == Append(Rows(f, e), [ed |-> e, row |-> End])

Line == [ed : DOMAIN Editions, row : {End} \cup ComuneState \cup AnomaliaState]

VARIABLES
  published,    \* the edition ANPR gives out now
  file,         \* the lines of each file on the disk, NULL when there is none
  fetch,        \* the curl running, NULL when the script is not
  fetches,
  ipc,          \* where the import is
  reading,      \* the file it is at
  rows,         \* the lines the decoder has read: state.Rows, and the end
  comune,       \* the columns of COMUNE the import writes
  anomalie,     \* the table ANOMALIE
  source,       \* history: the lines each table was last written from
  lastupdate,   \* how many rows the table LASTUPDATE has
  misread,      \* history: whether IsPresent took a failed read for no row
  faults

diskVars   == <<published, file, fetch, fetches>>
importVars == <<ipc, reading, rows>>
tableVars  == <<comune, anomalie, source>>
lastVars   == <<lastupdate, misread>>
vars == <<diskVars, importVars, tableVars, lastVars, faults>>

Columns == [presubentro : Dates \cup {NULL}, ip : BOOLEAN, pec : BOOLEAN]

Curl == [f : Files, ed : DOMAIN Editions, opened : BOOLEAN]

TypeOK ==
  /\ published \in DOMAIN Editions
  /\ file \in [Files -> Seq(Line) \cup {NULL}]
  /\ fetch \in Curl \cup {NULL}
  /\ fetches \in 0 .. MaxFetches
  /\ ipc \in {"open", "decode", "save", "lastupdate", "sleep"}
  /\ reading \in Files
  /\ rows \in Seq(Line)
  /\ comune \in [Comuni -> Columns]
  /\ anomalie \in Seq(AnomaliaState)
  /\ source \in [Files -> Seq(Line)]
  /\ lastupdate \in 0 .. 1 + MaxFaults
  /\ misread \in BOOLEAN
  /\ faults \in 0 .. MaxFaults

\* InsertComuni fills COMUNE before the server runs, without any of these data.
Init ==
  /\ published = 1
  /\ file = [f \in Files |-> NULL]
  /\ fetch = NULL /\ fetches = 0
  /\ ipc = "open" /\ reading = "comuni" /\ rows = <<>>
  /\ comune = [c \in Comuni |-> [presubentro |-> NULL, ip |-> FALSE, pec |-> FALSE]]
  /\ anomalie = <<>>
  /\ source = [f \in Files |-> <<>>]
  /\ lastupdate = 0 /\ misread = FALSE
  /\ faults = 0

-----------------------------------------------------------------------------
(***************************************************************************)
(* ANPR and fetch-data.sh.                                                 *)
(***************************************************************************)
Publish ==
  /\ published + 1 \in DOMAIN Editions
  /\ published' = published + 1
  /\ UNCHANGED <<file, fetch, fetches, importVars, tableVars, lastVars, faults>>

CurlOf(f) == [f |-> f, ed |-> published, opened |-> FALSE]

FetchStart ==
  /\ fetch = NULL /\ fetches < MaxFetches
  /\ fetch' = CurlOf(FirstFile)
  /\ fetches' = fetches + 1
  /\ UNCHANGED <<published, file, importVars, tableVars, lastVars, faults>>

\* Whatever the exit status of curl, the loop goes on.
FetchNext ==
  /\ fetch' = IF fetch.f = LastFile THEN NULL ELSE CurlOf(LastFile)
  /\ UNCHANGED <<published, fetches, importVars, tableVars, lastVars, faults>>

\* No connection, or an error status (curl -f): the file is left as it was.
CurlRefused ==
  /\ fetch # NULL /\ ~fetch.opened
  /\ FetchNext
  /\ UNCHANGED file

CurlOpens ==
  /\ fetch # NULL /\ ~fetch.opened
  /\ file' = [file EXCEPT ![fetch.f] = <<>>]
  /\ fetch' = [fetch EXCEPT !.opened = TRUE]
  /\ UNCHANGED <<published, fetches, importVars, tableVars, lastVars, faults>>

Written == Len(file[fetch.f])

CurlWrites ==
  /\ fetch # NULL /\ fetch.opened
  /\ Written < Len(Lines(fetch.f, fetch.ed))
  /\ file' = [file EXCEPT ![fetch.f] =
                Append(@, Lines(fetch.f, fetch.ed)[Written + 1])]
  /\ UNCHANGED <<published, fetch, fetches, importVars, tableVars, lastVars, faults>>

\* The transfer ends, or breaks off and leaves a short file.
CurlEnds ==
  /\ fetch # NULL /\ fetch.opened
  /\ FetchNext
  /\ UNCHANGED file

-----------------------------------------------------------------------------
(***************************************************************************)
(* UpdateComuniCheckList and UpdateAnomalieSchedeSoggetto: open, decode,   *)
(* save; then SaveOrUpdateLastUpdate, whatever came before; then sleep.    *)
(***************************************************************************)
AfterFile ==
  /\ ipc' = IF reading = "comuni" THEN "open" ELSE "lastupdate"
  /\ reading' = "anomalie"
  /\ rows' = <<>>

\* Faulty variants, for the mutation runs: the routine ends at the first file
\* it cannot read, or tries it again at once.
SkipAll ==
  /\ ipc' = "sleep" /\ reading' = "anomalie" /\ rows' = <<>>
  /\ UNCHANGED <<diskVars, tableVars, lastVars, faults>>

SkipRetries ==
  /\ ipc' = "open" /\ reading' = reading /\ rows' = <<>>
  /\ UNCHANGED <<diskVars, tableVars, lastVars, faults>>

Skip ==
  /\ AfterFile
  /\ UNCHANGED <<diskVars, tableVars, lastVars, faults>>

OpenFails ==
  /\ ipc = "open" /\ file[reading] = NULL
  /\ Skip

Open ==
  /\ ipc = "open" /\ file[reading] # NULL
  /\ ipc' = "decode" /\ rows' = <<>>
  /\ UNCHANGED <<reading, diskVars, tableVars, lastVars, faults>>

Position == Len(rows) + 1

AtEOF == Position > Len(file[reading])

NextLine == file[reading][Position]

\* The file was rewritten after the rows before were read.
IsTorn == \E i \in DOMAIN rows : rows[i].ed # NextLine.ed

\* A faulty variant: a decode cut short keeps what it has got.
DecodeCutKept ==
  /\ ipc = "decode" /\ AtEOF
  /\ ipc' = "save"
  /\ UNCHANGED <<reading, rows, diskVars, tableVars, lastVars, faults>>

DecodeCut ==
  /\ ipc = "decode" /\ AtEOF
  /\ Skip

\* Where two editions meet, the bytes seldom make well-formed XML.
DecodeGarbled ==
  /\ ipc = "decode" /\ ~AtEOF
  /\ IsTorn
  /\ Skip

DecodeRow ==
  /\ ipc = "decode" /\ ~AtEOF
  /\ NextLine.row # End
  /\ rows' = Append(rows, NextLine)
  /\ UNCHANGED <<ipc, reading, diskVars, tableVars, lastVars, faults>>

DecodeEnd ==
  /\ ipc = "decode" /\ ~AtEOF
  /\ NextLine.row = End
  /\ rows' = Append(rows, NextLine)
  /\ ipc' = "save"
  /\ UNCHANGED <<reading, diskVars, tableVars, lastVars, faults>>

NullTimeUnparsed(s) == s

NullTimeFromString(s) == IF s \in Dates THEN s ELSE NULL

NullBoolFromString(s) == s = "SI"

(***************************************************************************)
(* ToComune and the UPDATE of UpdateComuneCheckListDate, whose arguments   *)
(* for IPPROVENIENZA and EMAILPEC come in the other order.                 *)
(***************************************************************************)
ColumnsOf(state) ==
  [presubentro |-> NullTimeFromString(state.presubentro),
   ip          |-> NullBoolFromString(state.pec),
   pec         |-> NullBoolFromString(state.ip)]

StateRows == SubSeq(rows, 1, Len(rows) - 1)

\* The rows read for the comune c: the last one wins.
RowsFor(c) == {i \in DOMAIN StateRows : StateRows[i].row.codice = c}

UpdateComuni ==
  comune' = [c \in Comuni |->
               IF RowsFor(c) = {} THEN comune[c]
               ELSE LET i == CHOOSE i \in RowsFor(c) : \A j \in RowsFor(c) : j <= i
                    IN  ColumnsOf(StateRows[i].row)]

AnomalieRead == [i \in DOMAIN StateRows |-> StateRows[i].row]

\* A faulty variant: the new rows are inserted beside the old ones.
InsertAnomalie == anomalie' = anomalie \o AnomalieRead

\* DELETE and INSERT in one transaction.
ReplaceAnomalie == anomalie' = AnomalieRead

SaveComuni ==
  /\ ipc = "save" /\ reading = "comuni"
  /\ UpdateComuni
  /\ source' = [source EXCEPT !["comuni"] = rows]
  /\ AfterFile
  /\ UNCHANGED <<anomalie, diskVars, lastVars, faults>>

SaveAnomalie ==
  /\ ipc = "save" /\ reading = "anomalie"
  /\ ReplaceAnomalie
  /\ source' = [source EXCEPT !["anomalie"] = rows]
  /\ AfterFile
  /\ UNCHANGED <<comune, diskVars, lastVars, faults>>

Fault ==
  /\ faults < MaxFaults
  /\ faults' = faults + 1

\* log.Fatal().Err(err) neither logs nor stops: it lacks the final Send.
CommitLost ==
  /\ ipc = "save"
  /\ Fault
  /\ AfterFile
  /\ UNCHANGED <<diskVars, tableVars, lastVars>>

\* The server starts again, and its import with it.
Started == ipc' = "open" /\ reading' = "comuni" /\ rows' = <<>>

\* A stop of the server, or the panic of a write that fails.
Restart ==
  /\ Fault
  /\ Started
  /\ UNCHANGED <<diskVars, tableVars, lastVars>>

-----------------------------------------------------------------------------
(***************************************************************************)
(* SaveOrUpdateLastUpdate: IsPresent chooses between INSERT and UPDATE.    *)
(***************************************************************************)
\* A faulty variant: every import inserts its time.
LastUpdateInserts ==
  /\ ipc = "lastupdate" /\ lastupdate \in 1 .. MaxFaults
  /\ lastupdate' = lastupdate + 1
  /\ ipc' = "sleep"
  /\ UNCHANGED <<reading, rows, diskVars, tableVars, misread, faults>>

LastUpdateInsert ==
  /\ ipc = "lastupdate" /\ lastupdate = 0
  /\ lastupdate' = 1
  /\ ipc' = "sleep"
  /\ UNCHANGED <<reading, rows, diskVars, tableVars, misread, faults>>

LastUpdateUpdate ==
  /\ ipc = "lastupdate" /\ lastupdate = 1
  /\ ipc' = "sleep"
  /\ UNCHANGED <<reading, rows, diskVars, tableVars, lastVars, faults>>

\* As CommitLost, for the transaction of the INSERT or of the UPDATE.
LastUpdateLost ==
  /\ ipc = "lastupdate" /\ lastupdate < 2
  /\ Fault
  /\ ipc' = "sleep"
  /\ UNCHANGED <<reading, rows, diskVars, tableVars, lastVars>>

\* The error of the read is not looked at: the row that is there is not seen.
LastUpdateMisread ==
  /\ ipc = "lastupdate" /\ lastupdate > 0
  /\ Fault
  /\ lastupdate' = lastupdate + 1
  /\ misread' = TRUE
  /\ ipc' = "sleep"
  /\ UNCHANGED <<reading, rows, diskVars, tableVars>>

\* The UPDATE gives two rows one primary key: it fails, and the server stops.
LastUpdatePanics ==
  /\ ipc = "lastupdate" /\ lastupdate > 1
  /\ Started
  /\ UNCHANGED <<diskVars, tableVars, lastVars, faults>>

Wake ==
  /\ ipc = "sleep"
  /\ Started
  /\ UNCHANGED <<diskVars, tableVars, lastVars, faults>>

-----------------------------------------------------------------------------
Fetch == Publish \/ FetchStart \/ CurlRefused \/ CurlOpens \/ CurlWrites \/ CurlEnds

Import ==
  \/ OpenFails \/ Open \/ DecodeCut \/ DecodeGarbled \/ DecodeRow \/ DecodeEnd
  \/ SaveComuni \/ SaveAnomalie
  \/ LastUpdateInsert \/ LastUpdateUpdate \/ LastUpdatePanics \/ Wake

Next == Fetch \/ Import \/ CommitLost \/ Restart \/ LastUpdateLost \/ LastUpdateMisread

Spec == Init /\ [][Next]_vars

\* The loop of the import has no exit: it goes on as long as the server runs.
FairSpec == Spec /\ WF_vars(Import)

-----------------------------------------------------------------------------
(***************************************************************************)
(* Properties.                                                             *)
(***************************************************************************)
Whole(f, e) == source[f] = Lines(f, e)

\* The lines of two editions were decoded as one file.
Mixed(f) == \E i, j \in DOMAIN source[f] : source[f][i].ed # source[f][j].ed

OfOneEdition(f) == source[f] = <<>> \/ Mixed(f) \/ \E e \in DOMAIN Editions : Whole(f, e)

\* What the file says of a comune, its two flags in their columns or exchanged.
Shown(state, exchanged) ==
  [presubentro |-> NullTimeFromString(state.presubentro),
   ip          |-> NullBoolFromString(IF exchanged THEN state.pec ELSE state.ip),
   pec         |-> NullBoolFromString(IF exchanged THEN state.ip ELSE state.pec)]

\* Which of the two it is, the same for all, is left to IPProvenienzaIsBound.
HasComuni(e) ==
  \E exchanged \in BOOLEAN : \A i \in DOMAIN Editions[e]["comuni"] :
    LET state == Editions[e]["comuni"][i]
    IN  state.codice \in Comuni => comune[state.codice] = Shown(state, exchanged)

HasAnomalie(e) == anomalie = Editions[e]["anomalie"]

(***************************************************************************)
(* However short the files are left and whenever the server stops, the     *)
(* import of a file that was not rewritten while it was read is of a whole *)
(* edition, and COMUNE has the date and the flags of each comune of that   *)
(* edition, save that the two flags may be in each other's column.         *)
(***************************************************************************)
ComuniAreAnEdition ==
  /\ OfOneEdition("comuni")
  /\ \A e \in DOMAIN Editions : Whole("comuni", e) => HasComuni(e)

(***************************************************************************)
(* ANOMALIE, whose numbers the page sums up, holds the rows of the last    *)
(* import and of no other, through faults and stops.                       *)
(***************************************************************************)
AnomalieAreAnEdition ==
  /\ OfOneEdition("anomalie")
  /\ \A e \in DOMAIN Editions : Whole("anomalie", e) => HasAnomalie(e)

(***************************************************************************)
(* LASTUPDATE has more than one row only after IsPresent took a read that  *)
(* failed for an empty table.                                              *)
(***************************************************************************)
DoubledOnlyIfMisread == lastupdate > 1 => misread

(***************************************************************************)
(* An edition that is on the disk for good is in the tables for good,      *)
(* whatever the other file is, the faults before and the rows of           *)
(* LASTUPDATE are.                                                         *)
(***************************************************************************)
EditionsArrive ==
  \A e \in DOMAIN Editions :
    /\ <>[](file["comuni"] = Lines("comuni", e)) => <>[]HasComuni(e)
    /\ <>[](file["anomalie"] = Lines("anomalie", e)) => <>[]HasAnomalie(e)

(***************************************************************************)
(* The import comes round to its sleep for ever, unless LASTUPDATE has got *)
(* two rows: then it stops the server every time.                          *)
(***************************************************************************)
ImportsGoOn == []<>(ipc = "sleep") \/ <>misread

(***************************************************************************)
(* "Ip Provenienza should be binded" (sqlite/sqlite3_manager_test.go:151): *)
(* the column of a comune says what the file said of it.  Not so.          *)
(***************************************************************************)
IPProvenienzaIsBound ==
  \A i \in DOMAIN source["comuni"] :
    LET state == source["comuni"][i].row
    IN  ~Mixed("comuni") /\ state # End /\ state.codice \in Comuni =>
          comune[state.codice].ip = NullBoolFromString(state.ip)
=============================================================================
