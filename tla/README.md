# A verification of the ANPR dashboard server

The server keeps, for each Italian municipality (*comune*), the plan of its
takeover (*subentro*) by the national register ANPR: a first and a last day, and
a preferred date between them.  The suppliers (*fornitori*) of the comuni give
and change the plans with a form or with a CSV file; administrators, an hourly
import and a daily mail work on the same SQLite database.  The same program
serves pages of the file system, which it scans again every minute.

This directory holds TLA+ modules of the parts of the program that carry its
logic, the TLC configurations that check them, theorems that TLAPS checks, and
`PROJECT.json`, which says for every definition the lines it translates.  Paths
below are relative to `src/`.

## 1. Inventory

State and operations of each part, what is hard about it, and what makes it
correct.  The last column is the module, or the plan (section 8).

| Part | State | Operations | Hard | Correct when | Module |
|---|---|---|---|---|---|
| Plan rules, `sqlite/sqlite3_manager.go:374-435` | none | `HasValidDates`, `sameDate`, `IsWellFormed` | absent dates take part as the zero time; limits around midnight; old plan against new | an accepted plan is an interval of at most thirty days, with the notice the rules ask | `Subentro`, `SubentroCases`, `SubentroProofs`, `SubentroCasesProofs` |
| Plan handlers, `server/storage.go:419-625`; store, `sqlite/sqlite3_manager.go:450-495, 607-785, 870-883, 1184-1208` | tables `SUBENTRO`, `COMUNE`, `FORNITORE`; locals of each request | `Update`, `PutPianoSubentro`, `SearchComuni`, `GetSubentroInfo`, `IsPresent`, `SaveOrUpdateSubentro` | nothing serialises requests: check and write are separate statements; errors of the database; upload of many rows | one row per comune; rows are intervals; refused requests save nothing, ok means saved; the limit of a day; every request is answered; a register of plans is implemented | `PlanStore`, `PlanStoreProofs`, `PlanRegister`, `PlanRefinement` |
| Page router, `server/urlmanager.go`, `rawfile.go`, `markdown.go`, `template.go` | the pointer `urlset` under a `sync.RWMutex`; files | `Update` in a goroutine, `Process`, `Debug`, `RegisterFile` | swap of a pointer against readers; files that go while they are scanned; a location found by the longest prefix in bytes; a panic with the lock taken | the swap excludes readers; a page that stays is found, or hidden by a longer directory only; the scan catches up; requests are answered | `UrlManager`, `UrlManagerProofs` |
| Imports, `server/storage.go:757-832`, `sqlite/sqlite3_manager.go:909-932, 1016-1110`, `cronjob/fetch-data.sh` | `COMUNE` columns, `ANOMALIE`, `LASTUPDATE`, files | `RunPeriodicRoutines` each hour, `fetch-data.sh` | the file is replaced in place while it is read; `LASTUPDATE` is set even when nothing was read | the tables hold whole editions of the files; an edition that stays is imported; the loop never ends | `CheckListImport`, `CheckListImportProofs`; one action of `PlanStore` |
| Authorization, `server/authorization.go` | groups | `resolveGroupIDs`, `groupsOverlap`, `HasReadAccess`, `HasWriteAccess`, `IsAdmin` | wildcards and domains | who may write a comune | what `PlanStore` needs of it |
| Comments, `server/storage.go:367-418`, `sqlite/sqlite3_manager.go:935-1005` | table `COMMENTS` | save, delete, search, update | answered ok when nothing was done; the update has four placeholders and three values | ok means saved | `SubentroPage` |
| Page of the plans, `server/static/assets/subentro_rout6.js`, `server/templates/subentro.tmpl:444-712` | list, selection, form, comments, spinner | search, select, edit, update, upload, comment | answers come in any order and use the selection and the form as they are then | what is shown is what was saved; the spinner stops | `SubentroPage`, `SubentroPageProofs` |
| Alerts, `server/alertmanager.go`, `sqlite/sqlite3_manager.go:499-545, 1114-1163` | table `ALERTS`, a goroutine | one batch of each kind a day | a stop between the mails and the table; a sleep that drifts over midnight; a join that lists a comune once per row | each row is alerted once a day; nobody overdue is forgotten; plans are announced before they end | `Alerts`, `AlertsProofs` |
| Authentication, `server/authenticator*.go` | sessions, keys on disk | mail token, its validation, logout, OAuth | expiry, interrupted writing of the key file | a session only after a valid token | not modelled |
| Configuration, `server/config.go` | lists of groups and names | `Merge` | appended lists share their arrays | a directory never changes its sibling | not modelled |
| Dashboard, `server/dashboard.go` | two heaps, two charts of days, totals by region, province, fornitore | `GetDashBoardData` | a chart is built backwards from a heap; the same comune is added to six sums by code written out six times | charts are the history of the rows; the figures agree | `Dashboard`, `DashboardProofs` |
| Converter, `converter/converter.go` | cache of geolocations on disk | `Lookup`, `Save`, `ParseSchede`, `SaveSQLite` | the cache is truncated before it is written | a cached answer is used again | not modelled |
| Province table, `server/provTable.go` | a map | loaded once | `sync.Once` counts a panic as done | the map is complete | not modelled |
| Other templates, mails, `site/`, vendored libraries, deployment, OpenAPI | none of their own | | | | not modelled |

How they interact: `main` (`server/goospel.go:120-315`) builds everything and
gives gin the routes; each request runs in a goroutine of its own, below
`gin.Recovery`, which turns a panic into a 500.  The handlers share one
`*sql.DB`, whose pool gives each statement a connection; they have no lock.
`NewStorageManager` starts the goroutine of the hourly import and
`NewAlertManager` that of the daily mails; neither is recovered: a panic there
stops the process.  `NewUrlManager` starts the
goroutine of the scan, which shares only `urlset` with the requests.  The page in
the browser knows the server by the answers to its requests alone.

## 2. The modules

| Module | What it is |
|---|---|
| `Subentro` | the rules of a plan and its conversion to a row and back, as operators |
| `SubentroCases`, `MCSubentroCases` | one judgement, over all plans, states of a comune and thresholds |
| `PlanStore` | the handlers, one action per SQL statement, with imports, moves, midnight, failing writes and restarts |
| `MCPlanStore` | its instances |
| `PlanRegister` | the abstract register of plans: what the handlers promise, without tables, statements or requests |
| `PlanRefinement` | the refinement mapping from `PlanStore` to `PlanRegister` |
| `PlanStoreProofs` | eleven theorems: eight about `PlanStore`, the refinement, and what holds of requests that do not overlap |
| `SubentroProofs`, `SubentroCasesProofs` | lemmas about the rules, and the four theorems about one judgement |
| `UrlManager` | scan, swap, requests and debug page |
| `MCUrlManager` | its instances |
| `UrlManagerProofs` | three theorems about it |
| `CheckListImport` | the download script and the hourly import, row by row, with faults of the database and stops |
| `MCCheckListImport` | its instance |
| `CheckListImportProofs` | four theorems about it |
| `Alerts`, `MCAlerts` | the goroutine of the daily mails against the clock, with lost mails and updates, panics and stops |
| `AlertsProofs` | four theorems about it |
| `SubentroPage`, `MCSubentroPage` | the script of the page of the plans, with the requests in flight and a server that may refuse or be unreachable |
| `SubentroPageProofs` | three theorems about it |
| `Dashboard`, `MCDashboard` | `GetDashBoardData`, one step per turn of its loops |
| `DashboardProofs` | four theorems about it, and the lemmas about sums over finite sets they rest on |

`PlanStore` extends `Subentro`: the rules judge the plans of the handlers with
the very operators that `SubentroCases` checks and the proofs unfold.
`PlanRefinement` extends `PlanStore` and instantiates `PlanRegister`.
`UrlManager` shares no state with them and stands alone, and so do `Alerts`,
`SubentroPage` and `Dashboard`, each of which has of the rest of the system what it
can see: plans that move, answers, rows.  `CheckListImport` opens up
what is one action in `PlanStore`, the import of a checklist: its tables change by
one transaction for each file, so `PlanStore` sees no more of it than the
contents, which it takes to be any of `CheckLists`, whole or not.

### Subentro

A date is the number of its day.  The clients send midnights, so a date is the
first instant of its day, while *now* is strictly inside the day `today`;
`t.Before(now + k days)` is then `t <= today + k`.  A date is a `null.Time`: a
flag and a time that is there even when the flag is false.  The two ways of
being absent differ, and the code compares them: a plan from a client leaves the
zero time (`ZeroDay`), a `NULL` in the column `FINAL_DATE` comes back as 1 January
1970 (`EpochDay`).  Each rule of `IsWellFormed` is one operator, and
`IsWellFormed` their conjunction; the text of the messages is left out, and so is
the IP of the plan, which no rule reads.  JSON could hold `{"Valid": false}` with a
time that is not zero; no client of the repository sends that, and it is not
among the plans given.

### PlanStore

| In the module | In the code |
|---|---|
| `subentro`, a sequence in the order of the rowids | table `SUBENTRO`, which has no unique key |
| `stato`, `fornitore` | columns of `COMUNE` |
| `pc[w]` | the statement the handler of request `w` executes next |
| `todo[w]`, `errors[w]`, `row[w]`, `present[w]` | its local variables |
| `reply[w]`, `saved[w]`, `mail[w]` | what it showed: the answer, what it committed (history), whom its mail lists |
| fields `via`, `judged` of a row | history: which handler wrote it, on which day it was judged |

`Update` is, in order, the search with access and judgement (`UpdateUnparsed`,
`UpdateNotFound`, `UpdateForbidden`, `UpdateMalformed`, `UpdateAccepted`, whose
guards exclude one another), the count of the preferred day (`UpdateDayFull`,
`UpdateDayFree`), the save and `UpdateNotify`.  `PutPianoSubentro` reads and judges
each row (`UploadBroken`, `UploadSkip`, `UploadAccept`, `UploadReject`) and then
saves all of them or sends the mail (`UploadSave`, `UploadNotify`, `UploadDone`).
The save is common: `SaveIgnored` for a plan without both ends, else `IsPresent`,
and then, in another transaction, `Commit`, `CommitLost` or `WriteFails`.  The
environment is `UpdateComuniCheckList`, `UpdateFornitore`, `Midnight`, `Restart`.

Each action is one statement or one transaction of SQLite, which executes them
atomically; anything may come between two of them.  The judgement has no
statement of its own and is part of the action of the search.  Foreign keys are
not enforced by the driver as the program opens it, so a comune can be moved to a
fornitore that does not exist, and is hidden then.  A mail that fails is only
logged, so the mail is one step that always goes on.

### PlanRegister and PlanRefinement

The register has the plans of each comune and the plans that were accepted and
may still be stored.  `Accept` adds offers, each allowed by the rules on that day
in place of a plan the comune has at that moment; `Store` puts one in the place of
all the plans of its comune, or beside them; `Day` is a midnight.  `Spec` asks
nothing of the moment of the store; `SerialSpec` stores an offer only while the
plan it was accepted in place of is still there.

| In the register | In `PlanStore` |
|---|---|
| `plans` | the rows of each comune, as `SearchComuni` gives them back |
| `accepted` | the entries of `todo`, over all requests in progress |
| `today` | `today` |
| `Allowed` | `IsWellFormed`, for some state of the columns of the checklist |
| `AsStored` | what `FinalDateColumn` and `SubentroFromRow` make of a plan |

`UpdateAccepted` and `UploadAccept` are `Accept`, `Commit` is `Store`; ends of requests,
lost commits and restarts drop offers, which is an `Accept` of nothing.

### UrlManager

| In the module | In the code |
|---|---|
| `Dirs`, `Length` | the directories by their path below the root, `""` for a root itself, and the bytes of that path |
| `Rest` | what `strings.TrimPrefix` leaves of a path asked, without slashes, for each directory it begins with |
| `disk`, `edits` | the files, by root, directory and name, with a version |
| `upd`, `todo`, `cur`, `left`, `building` | `Update`: the directories still to scan, each with its root, the names listed, the new tree |
| `urlset` | the pointer, nil before the first scan |
| `location` | the radix tree: a `WebLocation` for each path, which is in the tree when it has a file |
| `readers`, `pc = "blocked"`, `upd = "waiting"` | `sync.RWMutex`: who has it, who waits |
| `leaked` | a request that panicked still has the lock |
| `treeref[w]`, `match[w]`, `wp[w]` | the tree the request took, the directory and the location it found there |

The listing of a directory (`ScanTree`) and the reading of each file (`Prepare`)
are separate steps, and `Edit` may come between them.  The roots are taken in any
order, as Go goes through a map, and all the directories of one before the next.
Two roots with a directory of the same path share one location of the tree.
`RegisterFile` elects the index before it finds that the url is taken, as the code
does.

A request is for the location whose path is the longest prefix of what was asked
(`LongestPrefix`, `urlmanager.go:221`), compared byte by byte: the location of a
directory `/READ` is found for `/README`, a page of the root.  What is missing there
is not looked for at a shorter prefix.  So a directory does affect others, and
`PagesStay` says how far: a page that is never removed is found, unless the
location found is of a longer path.

### CheckListImport

| In the module | In the code |
|---|---|
| `published` | what ANPR gives out; the editions are a constant |
| `file[f]`, `fetch` | the file on the disk, line by line; the `curl` that runs |
| `ipc`, `reading`, `rows` | where `RunPeriodicRoutines` is, and what its decoder has read |
| `comune`, `anomalie` | the columns of `COMUNE` that the import writes, the date and the flags of each comune; the table `ANOMALIE` |
| `lastupdate` | how many rows `LASTUPDATE` has: the time they hold is left out |
| `ed` of a line, `source`, `misread` | history: the edition of a line, the lines a table was written from, whether `IsPresent` was mistaken |

`curl -f -o` leaves the file alone when there is no connection or the status is an
error (`CurlRefused`), else empties it and fills it (`CurlOpens`, `CurlWrites`) and may
break off anywhere (`CurlEnds`).  The XML decoder returns an error at the end of a
file whose root element is open (`DecodeCut`).  When a file is rewritten under it,
what it reads next is of the new edition at the old position: that may be
ill-formed (`DecodeGarbled`) or go on (`DecodeRow`, `DecodeEnd`); both are possible.
`SaveComuni` and `SaveAnomalie` are a transaction each, which may be lost
(`CommitLost`) or fail, and then the goroutine panics and stops the server
(`Restart`).  `LASTUPDATE` is set on every path.  A comune that is no longer in the
file keeps the columns it had; rows of unknown comuni change nothing.

### Alerts

| In the module | In the code |
|---|---|
| `day`, `hour` | `time.Now`; a day has `Hours` hours, and hour 0 is the instant of midnight |
| `Rows`, `ComuneOf` | the rows of `SUBENTRO`, which the joins list one by one, and the comune of each |
| `plan`, `gone`, `referente` | of each row: `RANGE_TO`, whether its comune is out of the search, `EMAIL_REFERENTE` of its fornitore or no row in `REFERENTI` |
| `processed` | `ALERTS`, one row for each kind, or none |
| `pc`, `order`, `at`, `alerting` | where the goroutine is, the order of its map, the rows found and not mailed yet |
| `slept`, `ran` | how long it has slept, and been at work |
| `told`, `cut`, `announced`, `moved`, `steady`, `waiting` | history: `moved` are the rows found whose plan moved before their mail, which gives the date that was read |

`CheckMissing`, `CheckPassed` and `CheckDone` are `CheckAlertTable`; `Search` and
`SearchPanics` are `SearchAlerts`, whose quotient of seconds by 86400 is
`WholeDaysLeft`; then one `Send` or `SendFails` for each row, `UpdateAlertsTable` or
`UpdateLost`, and `Sleep`.  `Stop` may come after any of them, and `Start` is the start of
a new process, assumed to follow at once.  The server is first started at any hour
of the first day.  The sleep is counted from the end of a
run; a run takes up to `LongestRun` hours.  The time zone of the server is taken to
be UTC, in which SQLite computes.

`SearchAlerts` joins `COMUNE` with `SUBENTRO`, so a comune that two racing first plans
left with two rows is mailed about twice, each time with the date of one of them.
The properties are about rows for that reason.  `MovePlan` is the `UPDATE`, which
writes all the rows of a comune.  A plan far ahead stands for a row not inserted
yet: neither search lists it.

### SubentroPage

| In the module | In the code |
|---|---|
| `plan`, `notes` | what the server has saved |
| `flights` | the requests of `$.ajax`, sent and answered |
| `list`, `planned` | `subentro.comuni`, the count of comuni with a plan |
| `selected`, `attached` | `subentro.comune`, which may be an object of an earlier list |
| `form`, `formShown`, `text`, `shown`, `loading` | the fields, the comments, the spinner |
| `raw` of an entry | its dates are objects `{Time, Valid}` made for a request |

One action for each thing the operator does (`Operate`), for each answer of the
server (`Serve`, `Lose`) and for each callback (`Callback`), which JavaScript runs to
its end.  The list is a function, for it is only ever searched by `Id`.

### Dashboard

`Sort` and `SortInattivo` are the turns of the first loop, `Pop` those of the loops
over the two heaps, `AddInattivo` that over the inactive, `UpdateHistoricalSequence`
the sums; `Turn` goes from a loop to the next.  A heap is the set of the rows it
holds, `Latest` what `heap.Pop` may give by `Less`: of several rows of one day, any.

## 3. Properties

`Subentro`/`SubentroCases`: `AcceptedIsInterval` (an accepted plan with any date has
both ends and is an interval), `FirstPlanHasNotice` (without a pre-takeover more than 20
days, with it and the smart cards more than 5: of a pre-takeover whose smart cards
are missing it says nothing, see section 6), `PreferredDateCanBeUpdated`
(the page promises it, whatever the day), `EmptyPlanErasesNothing`.

`PlanStore`: `PlansAreIntervals` (of the table, while requests race and fail),
`RowsAreBounded` and `DuplicatedIsFrozen` (how bad the duplicates can get, and that
they never go away), `OneRowPerComune` (with one request at a time),
`OvershootIsBounded` (by how much the limit of a day can be passed),
`RefusedSavesNothing`, `OkMeansSaved`, `MovedPlansStartAhead`,
`EveryRequestAnswered`.

`PlanRefinement`: `ImplementsRegister` (every plan in the table was allowed, on some
day, in place of one the comune had on that day, whatever overlaps, fails or
stops) and `ReplacesWhatItJudged` (with one request at a time, it takes the place
of that very plan).

`UrlManager`: `SwapIsExclusive`, `PagesStay` (a file that is never removed is never
"not found", by its url or as an index, whatever its scan meets, unless the location
found is of a longer path), `FreshUnlessLeaked` (once the files stop
changing, what is served is, and stays, what a scan of them should give, by a
definition that does not go through `RegisterFile`), `AnsweredUnlessLeaked`.

`CheckListImport`: `ComuniAreAnEdition` and `AnomalieAreAnEdition` (an import of a file
that was not rewritten while it was read is of a whole edition, and the table
shows it, whatever was cut short, lost or stopped: of `COMUNE` the date and all the
flags, of which those of the address and of the mail may be exchanged, for all the
comuni alike; which order is the question of `ImportSwapped`), `EditionsArrive` (an edition
that stays on the disk is in its table in the end, whatever the other file is),
`DoubledOnlyIfMisread` and `ImportsGoOn` (the table `LASTUPDATE` and the loop, and how
a single failed read breaks both).

`Alerts`, of each row: `ResentOnlyIfCut` (the same alert twice in a day only if its record
was lost or cut off, once more for each time), `OverdueIsTold` (within two days and three
runs, although one thing fails), `AnnouncedInTime` (a plan left alone is announced
with its date before it ends, although the runs drift over midnight and only every third day
counts).

`SubentroPage`: `PlansShownAreSaved` and `CommentsShownAreSaved` (for an operator who
waits for the answers about the same things, and is refused nothing, the page
shows in the end what was saved), `SpinnerStops`.

`Dashboard`: `ChartsAscend` (at every step), `ChartsAreHistory` and `FiguresAgree` (in
the end, against sums over the rows).

Every one of them is broken by a mutant of the code, a "Faulty variant" in the
modules, listed in `PROJECT.json`.

## 4. Runs

| Run | Instance | Shows |
|---|---|---|
| `SubentroRules` | eight days: past, today, tomorrow, 5 and 6, 20 and 21 ahead, and 36, which is 30 after 6 and 31 after 5 | the rules, exhaustively over given and stored plans |
| `SubentroCards` | the same | violation: no notice when the smart cards are missing |
| `PlanMixed` | one request at a time, two comuni, two fornitori, eleven requests of all kinds, moves, two checklists, one midnight, fairness | all answers; what each promises; the serial register; every request ends |
| `PlanRacing` | two requests at a time, three comuni that want one day, forms and files, `Limit` 0, faults and restarts | intervals, bounded and frozen duplicates, the overshoot, the register |
| `PlanDuplicate` | two at a time | violation: two rows for a comune |
| `UrlPages` | two requests at a time, for the root, for `/README`, for `/READ` and the debug page; two files in two roots that claim the url of `/README`, a directory `/READ` with a file, which may come and go; one edit, fairness | swap, pages, freshness, answers |
| `UrlEarly` | one request, no edit, fairness | violation: the leaked lock |
| `ImportHourly` | two editions, two downloads of the two files, one fault, fairness | whole editions, arrival, the loop |
| `ImportSwapped` | same, no fairness | violation: two columns exchanged |
| `AlertsDaily` | seven days of four hours, started at any hour of the first, two comuni, one with two rows, notice of four days, runs of up to an hour, three settings of the tables, one fault | no resending, overdue told, announced in time |
| `PageAnswers` | two comuni, two requests in flight, four clicks, one lost answer, fairness | plans and comments shown, spinner |
| `DashboardRows` | all lists of up to four of seven rows | charts and figures |

The bounds, and why they are enough.  *Days*: the rules compare dates with each
other and with `today` plus 0, 5, 20 and 30; the eight days have both sides of each
comparison, with the past and today.  The handlers use the dates through the rules
only, and four of them (1, 21, 22, 25) give refused, accepted, anticipated and
preferred-only plans.  *Limit* is 55 in the code; the comparison is with a count,
and 1 is the smallest that has a day that is not full, full, and past full.  In
`PlanRacing` it is 0, so that the first plan fills the day and three comuni can pass it.
*Workers*: the races are between two statements of two requests; the theorems
cover any number.  *Comuni*: two for the uploads, three where the limit must be
passed.  `LastDay` bounds the calendar.  `MaxEdits`: one edit replaces the page or
removes the file that makes the longer directory, at any point of a scan or
between two, and each may be missing at first or not; the theorems do not depend
on it.  *Downloads*: two put the
second edition over the first, at any point of a decode; the editions have
different lengths, a comune that goes and one that moves up.  *Faults*: one is
enough for each kind, and a stop may come after any step.  *Alerts*: four hours
are midnight, the hours after it and the last; a run of one hour, the longest that
`NoticeAssumption` allows, moves the next by one, so in seven days the hour goes
round, from whichever it starts, and a day is skipped; one plan ends on the first day
and may be put off to the sixth, the two rows of the other comune end on the
sixth and on the seventh.  Both bounds of `NoticeAssumption`
are needed: with a notice of three days, or runs of a third of a day, TLC finds
`AnnouncedInTime` violated.  *Page*: two requests in flight
are the smallest number that can be answered out of order; four clicks are a
selection, an edit, an update and one thing done meanwhile.  *Dashboard*: three rows
of one migration give two on one day and one on another, with a fourth of the
other migration or of none.

Deadlock is checked, except where a stop is meant: in `SubentroRules` and
`SubentroCards` a behaviour is one judgement and ends; in `DashboardRows` it is one
call and returns; in `AlertsDaily` the days observed end, and in `PageAnswers` the clicks do; in `UrlPages`
and `UrlEarly` a request before the first scan leaves a lock that stops
everything, which is the finding of `UrlEarly`.

## 5. Fairness

`PlanStore!FairSpec` is weak fairness of the handler of each request: the Go
scheduler runs every goroutine that can run, and no statement waits for ever, for
SQLite gives up on a lock after its busy timeout and the handler then panics and
is answered by `gin.Recovery` (`WriteFails`).  `UrlManager!FairSpec` is weak
fairness of the goroutine of `Update`, whose sleep ends, and of the handler of each
request.  `CheckListImport!FairSpec` is weak
fairness of the import, a loop without exit whose sleep ends; the stops, whose
restart is part of the action, are bounded.  `SubentroPage!FairSpec` is weak fairness of the
answer to each request and of its callback: the browser gives up on a request at
last, and runs the callbacks that are due.  Nobody is made to send a request, to
click, to download a file, to edit a file or to stop; midnight, imports and restarts are never
forced.  Weak fairness is enough for the writer,
which no reader can overtake: a waiting writer makes later readers wait, as
`sync.RWMutex` documents.

## 6. Findings

Four statements of the repository are not what the code does; each is the one
property of a run whose counterexample shows it.

1. `PlanDuplicate`: two first plans of one comune, sent together, give it two rows
   (`sqlite3_manager.go:463`, against `QUERY_EXAMPLES.md:89-101`).  `DuplicatedIsFrozen`
   says what follows: no request can change the plan of that comune again.
2. `ImportSwapped`: every hourly import exchanges the flags of the source address and
   of the certified mail (`sqlite3_manager.go:1041-1042`, against the statement at
   1023, the test `sqlite3_manager_test.go:151` and the page `progressi.tmpl:445`).
3. `UrlEarly`: a request before the first scan ends takes the read lock and panics
   (`urlmanager.go:218`); no page is ever served afterwards.
4. `SubentroCards`: of a comune with a pre-takeover whose smart cards have not arrived
   no notice is asked at all (`sqlite3_manager.go:416-421`), where the page says 20 days
   (`subentro.tmpl:342`).

Seen on the way, and followed by the models without a run.

*Plans.*  The 56th comune of a day is accepted (`storage.go:477`, where
`subentro.tmpl:345` says 55), and uploads are not counted at all (`storage.go:610`);
the mail of "updated comuni" is sent when nothing was updated (`storage.go:621`); a
first day exactly 20 days ahead is refused where the page says "at least 20"
(`sqlite3_manager.go:421`).  Two overlapping updates can put back a first day
that is past by then (`storage.go:458`); a file that names a comune twice has its
second row judged against the plan before the file (`storage.go:604`).  An upload
without the preferred date erases the stored one (`sqlite3_manager.go:467`) where the
page says that empty dates are ignored (`subentro.tmpl:389`).

*Pages.*  A directory whose path begins what is asked, byte by byte, hides the pages
of a shorter one: with a file in `/READ`, the page `/README` of the root is not found
(`urlmanager.go:221`).

*Import.*  The times in `LASTUPDATE` say when the import last ran, not that it read
anything (`storage.go:826`); two rows in `LASTUPDATE`, which a single failed read can
leave, stop the server at every import (`sqlite3_manager.go:916-918`); `GetLastUpdate`
and `SearchComment` begin a transaction and never end it (886, 936).

*Alerts.*  The schema of the program does not create `ALERTS` and `REFERENTI`; a kind
without a row, or a `NULL` address among the comuni found, stops the server at
every start (`sqlite3_manager.go:1125, 533`); the inner join hides the comuni of a
fornitore without referente; in the test environment only the first row is
mailed (`alertmanager.go:77-80`); a comune that has the two rows of `PlanDuplicate` is
mailed twice in each run, and so is one whose fornitore has two rows in
`REFERENTI` (`sqlite3_manager.go:516-519`); plans are announced on every third whole day of
the last twelve; a plan that moves between the search and its mail is announced with
the day that was read.

*Page.*  A callback uses the selection and the form of its own time; a refused update
leaves its plan in the list, since the lines that revert it are commented out
(`subentro.tmpl:561-564`); a field that holds no date leaves an object that the
server cannot parse in the next request; saving a comment clears what was typed
meanwhile; a lost count of a day leaves the spinner on.

*Dashboard.*  A comune with two rows in `SUBENTRO` counts twice everywhere.

## 7. Theorems

The modules of proofs hold for every value of the constants that satisfies the
named assumptions (`ConstantsAssumption`, `DaysAssumption`, `NullAssumption`,
`UrlAssumption`, `RestAssumption`, `EditionsAssumption`, `UniqueAssumption`, `AlertsAssumption`,
`NoticeAssumption`, `PageAssumption`, `DashboardAssumption`), which TLC evaluates on
every run: any number of requests, comuni, fornitori, files, directories and roots, any limit,
any requests, any days, any editions of any length, any number of downloads and
faults, any number of requests in flight and of clicks, any rows.  Two of them say
something of the world: `UniqueAssumption`, that an edition names a comune once, and
`NoticeAssumption`, that the mails of a run are sent in a quarter of a day.
`RestAssumption` is a fact about strings: two directories whose paths begin the same
request are one if their paths are equally long.

- `AcceptedAlwaysInterval`, `FirstPlansHaveNotice`, `PreferredDateAlwaysUpdates`,
  `EmptyPlansEraseNothing`: over all plans and all days, where the run has eight.
  The first needs that an absent date is the zero time, which is more than thirty
  days before any other: a plan with only one end is too long or ends before it
  starts.
- `TypeCorrect`: the type invariant needs that a form in progress has an item to
  save, and that each statement finds the variables the earlier ones left.
- `StoredPlansAreIntervals`: inductive only together with "every plan in `todo` was
  accepted by `IsWellFormed`, hence, if it has both ends, is an interval".  The
  old plan it was judged against may be gone by the time of the write; the
  argument shows that the interval does not depend on it.
- `RowsStayBounded`: the rows of a comune and the requests about to insert one are
  together at most the requests (`RowBound`): a request joins them only when there
  is no row at all, and a commit turns one of them into a row.
- `OneRequestAtATime`: the corollary for one worker; the duplicates come from the
  overlap alone.
- `DuplicatedStaysFrozen`: with two rows the search never returns a single result,
  so no request can put the comune in `todo`.
- `OvershootStaysBounded`: the comuni the form has placed on a day and the updates
  past its count are together at most the limit plus the requests (`DayBound`): an
  update joins them only when at most `Limit` rows are planned there.
- `RefusalsSaveNothing`, `OkAnswersSaved`: from what the local state of a request says
  of the statements executed so far.
- `UrlTypes`; `SwapsAreExclusive`: every request between `RLock` and `RUnlock` is a
  reader, and there is none while the writer has the lock.
- `PagesNeverVanish`: `Spec => PagesStay`, of the steps that answer.  A tree *covers* a
  file if its url is taken and there is an index if the file can be one.  During a
  scan each kept file has its directory still to scan, is listed and not
  registered yet (`Ahead`), or is covered; a finished, a published and a taken tree
  cover all of them.  `FoundInv`: a request that a kept file would answer has found
  the location of that file, or one of a longer path.  No bound on the edits is
  used.
- `ImportTypes`, `ComuniAreWhole`, `AnomalieAreWhole`: a line keeps its place (`Placed`:
  the i-th line of a file, of a decode or of a save is the i-th of its own
  edition), since `curl` and the decoder only append at the same position.  A
  save has read an end, and only one (`Ended`); so, if its lines are of one edition,
  they are all of it (`PlacedIsEdition`), and the last row for a comune is its only
  one (`UniqueAssumption`), with its date and all its flags, exchanged or not.
- `DoubledByMisread`: each row of `LASTUPDATE` after the first costs a fault.

- `StoreImplementsRegister`: with the refinement mapping of section 2, by cases on
  what a step does to the table.  A step that leaves the table is an `Accept`: each
  entry new in `todo` was judged against the one row its search found
  (`AcceptedIsAllowed`), or is an old entry at another place.  A `Commit` is the `Store` of
  the entry at the head: an `UPDATE` turns all the rows of the comune into the new
  plan, an `INSERT` puts it beside them, and an `UPDATE` of no row is an `Accept` of
  nothing.
- `SerialRequestsReplace`, `SerialMovesStartAhead`: for one worker and files that name
  no comune twice (`FilesNameOnce`).  The invariant `Serial` says that while a request
  goes on each plan waiting to be saved was judged against a plan still in the
  table, and that those waiting are of different comuni, so that saving one
  leaves the others as they were.  With two workers, or a file that names a comune
  twice, the invariant fails, and so do the properties.
- `AlertTypes`, `AlertsAreNotResent`: the mails of a day are at most the runs cut that
  day while their kind is neither done nor being sent (`Behind`), and likewise for
  the rows a run has still to mail (`StillToTell`); only those it has mailed are one
  ahead, and the kind is done when the run ends, or the run is cut.
- `OverdueAreTold`: for every number of comuni and of their rows, length of the day
  and of a run.  The invariant `ToldInv` bounds the hours of each row by where the goroutine is
  (`Within`): the overdue are ahead of the run, in hand, behind it, or waiting for
  it to wake, and `Timely` says that without a fault a run never comes to them
  on a day that `ALERTS` calls done, because it sleeps for longer than what was left
  of that day.  The one fault costs a `Round`: a day and a run.
- `AnnouncedAlways`: for every hour of the start, length of the day and number of
  comuni and rows.  `Left(r)` are the hours until the day the plan of `r` ends.  A search finds
  the plan for sure when they are those of the fourth day before, or of the last
  one (`LeftFound`); what it finds on other days is not counted on.  The invariant
  `AnnounceInv` follows the hours left since the goroutine last fell asleep
  (`Coming`): from `Good` hours, one of the searches to come falls on one of the two
  days.  Each round costs a day and at most a run, so the drift may jump over the
  whole fourth day, but then at least `Hours + LongestRun` hours are left and the
  last day cannot be jumped over too.  A search in vain keeps `Good`
  (`SearchedInVain`), one that finds the row puts it in the mail (`InMail`), and
  the mail announces it or its plan has moved; a plan moved that is still steady has
  more than four days left, which is `Good` from anywhere (`FarAhead`).
- `DashboardTypes`, `ChartsAlwaysAscend`: by `BelowTop`, the rows still on a heap are not
  later than the top of its chart, and the top is the only entry a pop compares with.
- `ChartsAreTheHistory`, `FiguresAlwaysAgree`: by `Counts`, which says of each figure
  which rows it sums up at every step: the rows seen are on one heap or finished
  (`Placement`), those finished are in the maps of the regions and provinces
  (`MapsAddUp`), the summaries, the fornitori (`StatsAddUp`) and the features
  (`Mapped`); the days of a chart are those of its finished rows (`DaysCharted`), and
  an entry sums up the rows of its day, and of the days before once the last loop
  has reached it (`EntriesAddUp`).  The definition of a sum over a set, a fold of the
  community modules, is recursive on the set: `SumExists` and `SumUnique` show that there is
  one function on the subsets of a finite set that satisfies its equation, by taking a
  smallest subset that would be against it (`LeastSubset`), and give `SumStep`,
  `SumBump` and `SumUnion`, with which each step of the program is followed.
- `PageTypes`; `PlansShownAlwaysSaved`, `CommentsShownAlwaysSaved`: for any comuni, any number of
  requests in flight, and answers in any order.  While the operator has waited
  (not `crossed`) and nothing was refused (not `failed`), at most one request about
  the plans is in flight (`Alone`); with none the list shows what was saved, a search
  that is answered carries the plans as they are, and an update carries what the
  form holds for the comune selected, whose entry is the only one that may differ
  from what was saved (`UpdateUnderWay`, `PlanInv`).  `NoteInv` says the like of the
  comments, which do not depend on what is done to the plans meanwhile.

Model-checked only: liveness (`EveryRequestAnswered`, `FreshUnlessLeaked`,
`AnsweredUnlessLeaked`, `EditionsArrive`, `ImportsGoOn`, `SpinnerStops`), which is beyond
this prover.  Every invariant and every action property that a run checks is also a
theorem.

## 8. Plan

Order, most important first; 1 to 4, 6 and 8 to 10 are done.

1. `Subentro`, its cases and their proofs.
2. `PlanStore`, the core.
3. `PlanStoreProofs`.
4. `UrlManager` and `UrlManagerProofs`.
5. Failing reads: `rows.Next` and `rows.Err` are not looked at
   (`sqlite3_manager.go:877`), so a read that meets a busy database is an empty
   answer.  A constant `ReadFaults` in `PlanStore`, the bounds restated for it.
6. `PlanRegister`, `PlanRefinement` and the proof that the one implements the other.
7. The renderer of raw files, whose readers share a position (`rawfile.go:104-115`),
   composed with `UrlManager`; the merge of configurations with shared arrays.
8. `CheckListImport` and `CheckListImportProofs`.
9. `Alerts` and `AlertsProofs`; `SubentroPage`, with the comments, and `SubentroPageProofs`.
10. `Dashboard` and `DashboardProofs`.
11. Authentication: the token, the session, the key file; group resolution.
12. The pool of connections that `GetLastUpdate` and `SearchComment` drain
    (`sqlite3_manager.go:886, 936`); the cache of the converter; the province table.

Theorems to come: what the modules of steps 5 and 7 will promise, and that `Alerts`
implements an abstract register of what each comune was told.

## 9. Not modelled, and assumed

- Reads do not fail in `PlanStore` (step 5); a failing write, a lost commit and a stop of the
  server are modelled.
- The judgement and the search are one step: a midnight between them is not told
  from one before.
- The comuni, fornitori and files of an instance are fixed sets; rows of `COMUNE`
  are neither added nor removed while the server runs (the program does not).
- `match` stands for the query of a request (id, name and ISTAT code): the set of
  comuni it selects.
- In `UrlManager`: the configuration files of single directories, skipped
  directories, Markdown and templates, and the text of the login pages.
- In `CheckListImport`: the `DELETE` and the `INSERT`s of `ANOMALIE` are one action, as
  they are one transaction; that SQLite keeps it whole is assumed.
- In `Alerts`: a row inserted into `SUBENTRO` while the days are observed, other than
  one that stands for a plan far ahead; doubled rows of `REFERENTI`; the text of the
  mails; a server that stays down, or is started late.
- In `SubentroPage`: several operators at once (the server may refuse or change
  nothing, but no plan moves by itself), the calendars and the autocompleter,
  which are third-party; the update of an existing comment, which no client sends
  and which always fails.
- In `Dashboard`: shares and names computed from the counts, the properties of the
  points of the map, and the residents abroad, treated as the population is.
- Authentication, configuration, converter, province table: steps 7, 11 and 12 of
  the plan.  They are small and sequential, apart from the key file and the arrays
  that merged configurations share, which are listed among the hazards or in the
  plan.
- The pages `progressi.tmpl` and `status.tmpl`, which show one answer, `overrides.js` (the
  scrolling and the login button), text of mails, deployment and the OpenAPI
  description have no state of interest.
- Nearly all the JavaScript of the repository is third-party code kept as it was
  published: Bootstrap (twice), Modernizr, html5shiv, minical, svgxuse and the
  toolkit of the public administration.  None of it is this program's logic and
  none is modelled; the program is written in Go, but for the script of the page
  of the plans, which is.

## 10. Running

    tlc -workers 2 -config SubentroRules.cfg MCSubentroCases.tla
    tlc -workers 2 -config PlanMixed.cfg MCPlanStore.tla
    tlc -workers 2 -config PlanRacing.cfg MCPlanStore.tla
    tlc -workers 2 -config UrlPages.cfg MCUrlManager.tla
    tlc -workers 2 -config ImportHourly.cfg MCCheckListImport.tla
    tlc -workers 2 -config AlertsDaily.cfg MCAlerts.tla
    tlc -workers 2 -config PageAnswers.cfg MCSubentroPage.tla
    tlc -workers 2 -config DashboardRows.cfg MCDashboard.tla
    tlapm PlanStoreProofs.tla
    tlapm SubentroCasesProofs.tla
    tlapm UrlManagerProofs.tla
    tlapm CheckListImportProofs.tla
    tlapm AlertsProofs.tla
    tlapm DashboardProofs.tla
    tlapm SubentroPageProofs.tla

The longest runs are `PlanRacing`, `AlertsDaily` (2.3 million states), `UrlPages` and
`PageAnswers`, of two to three minutes each.  The longest proof is that of
`PlanStoreProofs`, of some minutes; the others take one or two.
