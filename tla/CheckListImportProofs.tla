----------------------- MODULE CheckListImportProofs -----------------------
(***************************************************************************)
(* Theorems about CheckListImport, for any editions of any length, however *)
(* many downloads and faults.                                              *)
(***************************************************************************)
EXTENDS CheckListImport, TLAPS

(***************************************************************************)
(* A line keeps its place: whatever mixture of editions a file, a decode   *)
(* or a table comes from, its i-th line is the i-th of its own edition.    *)
(***************************************************************************)
Placed(f, s) ==
  /\ s \in Seq(Line)
  /\ \A i \in 1 .. Len(s) : i <= Len(Lines(f, s[i].ed)) /\ s[i] = Lines(f, s[i].ed)[i]

Unended(s) == \A i \in 1 .. Len(s) : s[i].row # End

Ended(s) ==
  /\ s # <<>>
  /\ s[Len(s)].row = End
  /\ \A i \in 1 .. Len(s) - 1 : s[i].row # End

DiskInv ==
  /\ \A f \in Files : file[f] = NULL \/ Placed(f, file[f])
  /\ fetch # NULL => (fetch.opened => Placed(fetch.f, file[fetch.f]))

\* A file that is being decoded stays: curl empties it but never removes it.
ReadInv ==
  /\ Placed(reading, rows)
  /\ ipc = "decode" => Placed(reading, file[reading]) /\ Unended(rows)
  /\ ipc = "save" => Ended(rows)

SourceInv ==
  \A f \in Files : Placed(f, source[f]) /\ (source[f] # <<>> => Ended(source[f]))

TablesInv ==
  \A e \in DOMAIN Editions :
    /\ Whole("comuni", e) => HasComuni(e)
    /\ Whole("anomalie", e) => HasAnomalie(e)

CountInv ==
  /\ lastupdate <= 1 + faults
  /\ DoubledOnlyIfMisread

DiskTypes ==
  /\ published \in DOMAIN Editions
  /\ file \in [Files -> Seq(Line) \cup {NULL}]
  /\ fetch \in Curl \cup {NULL}
  /\ fetches \in 0 .. MaxFetches

ReadTypes ==
  /\ ipc \in {"open", "decode", "save", "lastupdate", "sleep"}
  /\ reading \in Files

TableTypes ==
  /\ comune \in [Comuni -> Columns]
  /\ anomalie \in Seq(AnomaliaState)
  /\ source \in [Files -> Seq(Line)]

CountTypes ==
  /\ lastupdate \in 0 .. 1 + MaxFaults
  /\ misread \in BOOLEAN
  /\ faults \in 0 .. MaxFaults

IInv == TypeOK /\ DiskInv /\ ReadInv /\ SourceInv /\ TablesInv /\ CountInv

-----------------------------------------------------------------------------
(***************************************************************************)
(* The lines of an edition.                                                *)
(***************************************************************************)
LEMMA LinesFacts ==
  ASSUME NEW f \in Files, NEW e \in DOMAIN Editions
  PROVE  /\ Editions[e][f] \in Seq(ComuneState \cup AnomaliaState)
         /\ Lines(f, e) \in Seq(Line)
         /\ Len(Lines(f, e)) = Len(Editions[e][f]) + 1
         /\ \A i \in 1 .. Len(Editions[e][f]) :
              /\ Lines(f, e)[i] = [ed |-> e, row |-> Editions[e][f][i]]
              /\ Editions[e][f][i] # End
         /\ Lines(f, e)[Len(Lines(f, e))] = [ed |-> e, row |-> End]
<1>1. Editions[e][f] \in Seq(ComuneState \cup AnomaliaState)
  <2>1. CASE f = "comuni"
    BY <2>1, EditionsAssumption
  <2>2. CASE f = "anomalie"
    BY <2>2, EditionsAssumption
  <2> QED
    BY <2>1, <2>2 DEF Files
<1> DEFINE list == Editions[e][f]
<1>2. list \in Seq(ComuneState \cup AnomaliaState)
  BY <1>1
<1>3. Rows(f, e) = [i \in 1 .. Len(list) |-> [ed |-> e, row |-> list[i]]]
  BY <1>2 DEF Rows
<1>4. \A i \in 1 .. Len(list) : list[i] \in ComuneState \cup AnomaliaState
  BY <1>2
<1> HIDE DEF list
<1>5. /\ Rows(f, e) \in Seq(Line)
      /\ Len(Rows(f, e)) = Len(list)
  <2>1. Len(list) \in Nat
    BY <1>2
  <2>2. Rows(f, e) \in [1 .. Len(list) -> Line]
    BY <1>3, <1>4 DEF Line
  <2> QED
    BY <2>1, <2>2
<1>6. [ed |-> e, row |-> End] \in Line
  BY DEF Line
<1>7. /\ Lines(f, e) \in Seq(Line)
      /\ Len(Lines(f, e)) = Len(list) + 1
      /\ \A i \in 1 .. Len(list) : Lines(f, e)[i] = Rows(f, e)[i]
      /\ Lines(f, e)[Len(list) + 1] = [ed |-> e, row |-> End]
  <2> DEFINE r == Rows(f, e)
  <2> HIDE DEF r
  <2>1. r \in Seq(Line) /\ Len(r) = Len(list)
    BY <1>5 DEF r
  <2>2. Lines(f, e) = Append(r, [ed |-> e, row |-> End])
    BY DEF Lines, r
  <2>3. \A i \in 1 .. Len(list) : Lines(f, e)[i] = r[i]
    BY <2>1, <2>2, <1>6
  <2> QED
    BY <2>1, <2>2, <2>3, <1>6 DEF r
<1>8. \A i \in 1 .. Len(list) : list[i] # End
  BY <1>4, EditionsAssumption DEF End
<1> QED
  BY <1>1, <1>2, <1>3, <1>7, <1>8 DEF list

(***************************************************************************)
(* The same, without the sequence of the edition in the way.               *)
(***************************************************************************)
LEMMA LinesShape ==
  ASSUME NEW f \in Files, NEW e \in DOMAIN Editions
  PROVE  /\ Lines(f, e) \in Seq(Line)
         /\ Len(Lines(f, e)) \in Nat \ {0}
         /\ Len(Editions[e][f]) = Len(Lines(f, e)) - 1
         /\ \A i \in 1 .. Len(Lines(f, e)) : Lines(f, e)[i].ed = e
         /\ \A i \in 1 .. Len(Lines(f, e)) - 1 :
              /\ Lines(f, e)[i].row = Editions[e][f][i]
              /\ Lines(f, e)[i].row # End
         /\ Lines(f, e)[Len(Lines(f, e))].row = End
<1> DEFINE list == Editions[e][f]
           lines == Lines(f, e)
<1>1. /\ list \in Seq(ComuneState \cup AnomaliaState)
      /\ lines \in Seq(Line)
      /\ Len(lines) = Len(list) + 1
      /\ \A i \in 1 .. Len(list) :
           /\ lines[i] = [ed |-> e, row |-> list[i]]
           /\ list[i] # End
      /\ lines[Len(lines)] = [ed |-> e, row |-> End]
  BY LinesFacts, ZenonT(20)
<1> HIDE DEF list, lines
<1>2. Len(list) \in Nat /\ Len(lines) = Len(list) + 1
  BY <1>1
<1>3. \A i \in 1 .. Len(lines) - 1 :
        lines[i].ed = e /\ lines[i].row = list[i] /\ list[i] # End
  <2> TAKE i \in 1 .. Len(lines) - 1
  <2>1. i \in 1 .. Len(list)
    BY <1>2
  <2>2. lines[i] = [ed |-> e, row |-> list[i]] /\ list[i] # End
    BY <1>1, <2>1
  <2> QED
    BY <2>2
<1>4. lines[Len(lines)].ed = e /\ lines[Len(lines)].row = End
  BY <1>1
<1>5. \A i \in 1 .. Len(lines) : lines[i].ed = e
  BY <1>2, <1>3, <1>4
<1>6. /\ lines \in Seq(Line)
      /\ Len(lines) \in Nat \ {0}
      /\ Len(list) = Len(lines) - 1
      /\ \A i \in 1 .. Len(lines) : lines[i].ed = e
      /\ \A i \in 1 .. Len(lines) - 1 : lines[i].row = list[i] /\ lines[i].row # End
      /\ lines[Len(lines)].row = End
  <2>1. \A i \in 1 .. Len(lines) - 1 : lines[i].row = list[i] /\ lines[i].row # End
    BY <1>3
  <2> QED
    BY <1>1, <1>2, <1>4, <1>5, <2>1
<1> QED
  BY <1>6 DEF list, lines

LEMMA PlacedLines ==
  ASSUME NEW f \in Files, NEW e \in DOMAIN Editions
  PROVE  Placed(f, Lines(f, e))
<1> DEFINE lines == Lines(f, e)
<1>1. lines \in Seq(Line) /\ \A i \in 1 .. Len(lines) : lines[i].ed = e
  BY LinesShape
<1>2. SUFFICES ASSUME NEW i \in 1 .. Len(lines)
               PROVE  i <= Len(Lines(f, lines[i].ed)) /\ lines[i] = Lines(f, lines[i].ed)[i]
  BY <1>1 DEF Placed
<1>3. lines[i].ed = e
  BY <1>1
<1>4. i <= Len(lines)
  OBVIOUS
<1> QED
  BY <1>3, <1>4

LEMMA PlacedEmpty ==
  ASSUME NEW f
  PROVE  Placed(f, <<>>)
BY DEF Placed

(***************************************************************************)
(* The next line of a file in place, appended, is in place: curl writes so *)
(* and the decoder reads so.                                               *)
(***************************************************************************)
LEMMA PlacedAppend ==
  ASSUME NEW f, NEW s, NEW t, Placed(f, s), Placed(f, t), Len(s) + 1 <= Len(t)
  PROVE  /\ t[Len(s) + 1] \in Line
         /\ Placed(f, Append(s, t[Len(s) + 1]))
<1>1. s \in Seq(Line) /\ t \in Seq(Line) /\ Len(s) \in Nat /\ Len(t) \in Nat
  BY DEF Placed
<1>2. Len(s) + 1 \in 1 .. Len(t)
  BY <1>1
<1> DEFINE line == t[Len(s) + 1]
<1>3. line \in Line
  BY <1>1, <1>2
<1>4. Len(s) + 1 <= Len(Lines(f, line.ed)) /\ line = Lines(f, line.ed)[Len(s) + 1]
  BY <1>2 DEF Placed
<1> HIDE DEF line
<1>5. /\ Append(s, line) \in Seq(Line)
      /\ Len(Append(s, line)) = Len(s) + 1
      /\ \A i \in 1 .. Len(s) : Append(s, line)[i] = s[i]
      /\ Append(s, line)[Len(s) + 1] = line
  BY <1>1, <1>3
<1>6. ASSUME NEW i \in 1 .. Len(Append(s, line))
      PROVE  /\ i <= Len(Lines(f, Append(s, line)[i].ed))
             /\ Append(s, line)[i] = Lines(f, Append(s, line)[i].ed)[i]
  <2>1. CASE i \in 1 .. Len(s)
    <3>1. Append(s, line)[i] = s[i]
      BY <1>5, <2>1
    <3>2. i <= Len(Lines(f, s[i].ed)) /\ s[i] = Lines(f, s[i].ed)[i]
      BY <2>1 DEF Placed
    <3> QED
      BY <3>1, <3>2
  <2>2. CASE i = Len(s) + 1
    BY <1>4, <1>5, <2>2
  <2> QED
    BY <1>1, <1>5, <2>1, <2>2
<1>7. Placed(f, Append(s, line))
  BY <1>5, <1>6 DEF Placed
<1> QED
  BY <1>3, <1>7 DEF line

(***************************************************************************)
(* A line that is not the end is a row of its edition.                     *)
(***************************************************************************)
LEMMA PlacedRow ==
  ASSUME NEW f \in Files, NEW s, Placed(f, s), NEW i \in 1 .. Len(s), s[i].row # End
  PROVE  /\ s[i].ed \in DOMAIN Editions
         /\ i \in 1 .. Len(Editions[s[i].ed][f])
         /\ s[i].row = Editions[s[i].ed][f][i]
<1> DEFINE e == s[i].ed
<1>1. s[i] \in Line
  BY DEF Placed
<1>2. e \in DOMAIN Editions
  BY <1>1 DEF Line
<1>3. i <= Len(Lines(f, e)) /\ s[i] = Lines(f, e)[i]
  BY DEF Placed
<1>4. /\ Len(Lines(f, e)) \in Nat \ {0}
      /\ Len(Editions[e][f]) = Len(Lines(f, e)) - 1
      /\ \A k \in 1 .. Len(Lines(f, e)) - 1 : Lines(f, e)[k].row = Editions[e][f][k]
      /\ Lines(f, e)[Len(Lines(f, e))].row = End
  BY <1>2, LinesShape
<1> HIDE DEF e
<1>5. i # Len(Lines(f, e))
  BY <1>3, <1>4
<1>6. i \in 1 .. Len(Lines(f, e)) - 1
  <2>1. Len(s) \in Nat
    BY DEF Placed
  <2> QED
    BY <1>3, <1>4, <1>5, <2>1
<1>7. i \in 1 .. Len(Editions[e][f]) /\ s[i].row = Editions[e][f][i]
  BY <1>3, <1>4, <1>6
<1> QED
  BY <1>2, <1>7 DEF e

(***************************************************************************)
(* Lines of one edition, in place and closed by its end, are the edition.  *)
(***************************************************************************)
LEMMA PlacedIsEdition ==
  ASSUME NEW f \in Files, NEW s, Placed(f, s), Ended(s),
         \A i, j \in DOMAIN s : s[i].ed = s[j].ed
  PROVE  \E e \in DOMAIN Editions : s = Lines(f, e)
<1>1. s \in Seq(Line) /\ Len(s) \in Nat \ {0} /\ DOMAIN s = 1 .. Len(s)
  BY DEF Ended, Placed
<1> DEFINE e == s[1].ed
<1>2. e \in DOMAIN Editions
  <2>1. s[1] \in Line
    BY <1>1
  <2> QED
    BY <2>1 DEF Line
<1>3. \A i \in 1 .. Len(s) : i <= Len(Lines(f, e)) /\ s[i] = Lines(f, e)[i]
  <2>1. \A i \in 1 .. Len(s) : s[i].ed = e
    BY <1>1
  <2> QED
    BY <2>1 DEF Placed
<1>4. /\ Lines(f, e) \in Seq(Line)
      /\ Len(Lines(f, e)) \in Nat \ {0}
      /\ \A i \in 1 .. Len(Lines(f, e)) - 1 : Lines(f, e)[i].row # End
  BY <1>2, LinesShape
<1> HIDE DEF e
<1>5. Len(s) <= Len(Lines(f, e)) /\ s[Len(s)] = Lines(f, e)[Len(s)]
  BY <1>1, <1>3
<1>6. Len(s) = Len(Lines(f, e))
  <2>1. Lines(f, e)[Len(s)].row = End
    BY <1>5 DEF Ended
  <2> QED
    BY <1>1, <1>4, <1>5, <2>1
<1>7. s = Lines(f, e)
  <2> DEFINE lines == Lines(f, e)
  <2>1. lines \in Seq(Line) /\ Len(s) = Len(lines) /\ \A i \in 1 .. Len(s) : s[i] = lines[i]
    BY <1>3, <1>4, <1>6
  <2> HIDE DEF lines
  <2>2. s = lines
    BY <1>1, <2>1
  <2> QED
    BY <2>2 DEF lines
<1> QED
  BY <1>2, <1>7

-----------------------------------------------------------------------------
LEMMA InvariantInit == Init => IInv
<1> SUFFICES ASSUME Init
             PROVE  IInv
  OBVIOUS
<1> USE DEF Init
<1>1. TypeOK
  <2>1. 1 \in DOMAIN Editions
    BY EditionsAssumption DEF Files
  <2>2. MaxFetches \in Nat /\ MaxFaults \in Nat
    BY EditionsAssumption
  <2>3. comune \in [Comuni -> Columns]
    BY DEF Columns
  <2>4. /\ file \in [Files -> Seq(Line) \cup {NULL}]
        /\ source \in [Files -> Seq(Line)]
    BY DEF Files
  <2>5. rows \in Seq(Line) /\ anomalie \in Seq(AnomaliaState)
    OBVIOUS
  <2>6. /\ fetches \in 0 .. MaxFetches
        /\ lastupdate \in 0 .. 1 + MaxFaults
        /\ faults \in 0 .. MaxFaults
    BY <2>2
  <2>7. published \in DOMAIN Editions /\ fetch \in Curl \cup {NULL}
    BY <2>1
  <2>8. ipc \in {"open", "decode", "save", "lastupdate", "sleep"} /\ reading \in Files
    BY DEF Files
  <2>9. misread \in BOOLEAN
    OBVIOUS
  <2> QED
    BY <2>3, <2>4, <2>5, <2>6, <2>7, <2>8, <2>9, Zenon DEF TypeOK
<1>2. DiskInv
  BY DEF DiskInv
<1>3. ReadInv
  BY PlacedEmpty DEF ReadInv
<1>4. SourceInv
  BY PlacedEmpty DEF SourceInv
<1>5. TablesInv
  <2> SUFFICES ASSUME NEW e \in DOMAIN Editions, NEW f \in Files, Whole(f, e)
               PROVE  FALSE
    BY DEF TablesInv, Files
  <2>1. Len(Lines(f, e)) # 0
    BY LinesShape
  <2> QED
    BY <2>1 DEF Whole
<1>6. CountInv
  BY DEF CountInv, DoubledOnlyIfMisread
<1> QED
  BY <1>1, <1>2, <1>3, <1>4, <1>5, <1>6 DEF IInv

-----------------------------------------------------------------------------
(***************************************************************************)
(* The types, and what is on the disk.                                     *)
(***************************************************************************)
LEMMA TypeParts ==
  /\ TypeOK => DiskTypes /\ ReadTypes /\ TableTypes /\ CountTypes
  /\ IInv => ReadInv /\ Placed(reading, rows)
  /\ DiskTypes /\ ReadTypes /\ TableTypes /\ CountTypes /\ rows \in Seq(Line) => TypeOK
BY DEF TypeOK, DiskTypes, ReadTypes, TableTypes, CountTypes, IInv, ReadInv

\* A step may write a file, but never takes it away or out of place.
FilesKept == \A f \in Files : Placed(f, file[f]) => Placed(f, file'[f])

LEMMA DiskStep ==
  ASSUME IInv, Fetch
  PROVE  DiskInv' /\ DiskTypes' /\ FilesKept
<1> DEFINE Goal == DiskInv' /\ DiskTypes' /\ FilesKept
<1>1. DiskTypes /\ DiskInv /\ MaxFetches \in Nat
  BY EditionsAssumption, TypeParts DEF IInv
<1>2. CurlOf(FirstFile) \in Curl /\ CurlOf(LastFile) \in Curl
  BY <1>1 DEF DiskTypes, CurlOf, Curl, FirstFile, LastFile, Files
<1>3. CASE Publish
  BY <1>1, <1>3 DEF Publish, DiskTypes, DiskInv, FilesKept
<1>4. CASE FetchStart
  <2>1. fetch' \in Curl /\ ~fetch'.opened
    BY <1>2, <1>4 DEF FetchStart, CurlOf
  <2>2. UNCHANGED <<published, file>> /\ fetches' \in 0 .. MaxFetches
    BY <1>1, <1>4 DEF FetchStart, DiskTypes
  <2> QED
    BY <1>1, <2>1, <2>2 DEF DiskTypes, DiskInv, FilesKept
<1>5. ASSUME FetchNext, UNCHANGED file
      PROVE  Goal
  <2>1. fetch' = NULL \/ (fetch' \in Curl /\ ~fetch'.opened)
    BY <1>2, <1>5 DEF FetchNext, CurlOf
  <2>2. UNCHANGED <<published, fetches, file>>
    BY <1>5 DEF FetchNext
  <2> QED
    BY <1>1, <2>1, <2>2 DEF DiskTypes, DiskInv, FilesKept
<1>6. CASE CurlRefused
  BY <1>5, <1>6 DEF CurlRefused
<1>7. CASE CurlEnds
  BY <1>5, <1>7 DEF CurlEnds
<1>8. CASE CurlOpens
  <2>1. fetch \in Curl /\ fetch.f \in Files
    BY <1>1, <1>8 DEF CurlOpens, DiskTypes, Curl
  <2>2. fetch' \in Curl /\ fetch'.f = fetch.f
    BY <2>1, <1>8 DEF CurlOpens, Curl
  <2>3. file' = [file EXCEPT ![fetch.f] = <<>>] /\ UNCHANGED <<published, fetches>>
    BY <1>8 DEF CurlOpens
  <2>4. /\ file' \in [Files -> Seq(Line) \cup {NULL}]
        /\ file'[fetch.f] = <<>>
        /\ \A f \in Files \ {fetch.f} : file'[f] = file[f]
    <3>1. <<>> \in Seq(Line)
      OBVIOUS
    <3> QED
      BY <1>1, <2>1, <2>3, <3>1 DEF DiskTypes
  <2>5. Placed(fetch.f, file'[fetch.f])
    BY <2>4, PlacedEmpty
  <2>6. DiskInv'
    BY <1>1, <2>2, <2>4, <2>5 DEF DiskInv
  <2>7. FilesKept
    BY <2>4, <2>5 DEF FilesKept
  <2> QED
    BY <1>1, <2>2, <2>3, <2>4, <2>6, <2>7 DEF DiskTypes
<1>9. CASE CurlWrites
  <2> DEFINE f0 == fetch.f
             s0 == file[f0]
             t0 == Lines(f0, fetch.ed)
  <2>1. fetch \in Curl /\ f0 \in Files /\ fetch.ed \in DOMAIN Editions
    BY <1>1, <1>9 DEF CurlWrites, DiskTypes, Curl
  <2>2. Placed(f0, s0) /\ Placed(f0, t0)
    BY <1>1, <1>9, <2>1, PlacedLines DEF CurlWrites, DiskInv
  <2>3. Len(s0) + 1 <= Len(t0)
    <3>1. Len(s0) \in Nat /\ Len(t0) \in Nat /\ Len(s0) < Len(t0)
      BY <1>9, <2>2 DEF CurlWrites, Written, Placed
    <3> QED
      BY <3>1
  <2>4. file' = [file EXCEPT ![f0] = Append(s0, t0[Len(s0) + 1])]
    BY <1>9 DEF CurlWrites, Written
  <2>5. UNCHANGED <<published, fetch, fetches>>
    BY <1>9 DEF CurlWrites
  <2> HIDE DEF t0, s0, f0
  <2>6. Placed(f0, Append(s0, t0[Len(s0) + 1]))
    BY <2>2, <2>3, PlacedAppend
  <2> DEFINE new == Append(s0, t0[Len(s0) + 1])
  <2> HIDE DEF new
  <2>7. Placed(f0, new) /\ new \in Seq(Line) /\ file' = [file EXCEPT ![f0] = new]
    BY <2>4, <2>6 DEF new, Placed
  <2>8. /\ file' \in [Files -> Seq(Line) \cup {NULL}]
        /\ file'[f0] = new
        /\ \A f \in Files \ {f0} : file'[f] = file[f]
    BY <1>1, <2>1, <2>7 DEF DiskTypes
  <2>9. DiskInv'
    BY <1>1, <2>1, <2>5, <2>7, <2>8 DEF DiskInv, f0
  <2>10. FilesKept
    BY <2>7, <2>8 DEF FilesKept
  <2> QED
    BY <1>1, <2>5, <2>8, <2>9, <2>10 DEF DiskTypes
<1> QED
  BY <1>3, <1>4, <1>6, <1>7, <1>8, <1>9 DEF Fetch

-----------------------------------------------------------------------------
(***************************************************************************)
(* What the import has read.                                               *)
(***************************************************************************)
\* A step that leaves the decoder idle, or as it was.
Idle ==
  /\ ipc' \in {"open", "lastupdate", "sleep"}
  /\ reading' \in Files
  /\ rows' = <<>> \/ UNCHANGED <<reading, rows>>

LEMMA IdleActions ==
  ASSUME IInv,
         \/ OpenFails \/ DecodeCut \/ DecodeGarbled \/ SaveComuni \/ SaveAnomalie
         \/ CommitLost \/ Restart
         \/ LastUpdateInsert \/ LastUpdateUpdate \/ LastUpdatePanics
         \/ LastUpdateLost \/ LastUpdateMisread \/ Wake
  PROVE  Idle
<1>1. reading \in Files
  BY TypeParts DEF IInv, ReadTypes
<1>2. AfterFile => Idle
  BY DEF AfterFile, Idle, Files
<1>3. Started => Idle
  BY DEF Started, Idle, Files
<1>4. CASE OpenFails \/ DecodeCut \/ DecodeGarbled
  BY <1>2, <1>4 DEF OpenFails, DecodeCut, DecodeGarbled, Skip
<1>5. CASE SaveComuni \/ SaveAnomalie \/ CommitLost
  BY <1>2, <1>5 DEF SaveComuni, SaveAnomalie, CommitLost
<1>6. CASE Restart \/ LastUpdatePanics \/ Wake
  BY <1>3, <1>6 DEF Restart, LastUpdatePanics, Wake
<1>7. CASE LastUpdateInsert \/ LastUpdateUpdate
  BY <1>1, <1>7 DEF LastUpdateInsert, LastUpdateUpdate, Idle
<1>8. CASE LastUpdateLost \/ LastUpdateMisread
  BY <1>1, <1>8 DEF LastUpdateLost, LastUpdateMisread, Idle
<1> QED
  BY <1>4, <1>5, <1>6, <1>7, <1>8

LEMMA ReadIdle ==
  ASSUME IInv, Idle
  PROVE  ReadInv' /\ ReadTypes'
<1>1. Placed(reading, rows)
  BY TypeParts
<1>2. Placed(reading', rows')
  BY <1>1, PlacedEmpty DEF Idle
<1> QED
  BY <1>2 DEF Idle, ReadInv, ReadTypes

LEMMA ReadLine ==
  ASSUME IInv, ipc = "decode", ~AtEOF
  PROVE  /\ NextLine \in Line
         /\ Placed(reading, Append(rows, NextLine))
<1> DEFINE s == rows
           t == file[reading]
<1>1. Placed(reading, s) /\ Placed(reading, t)
  BY TypeParts DEF ReadInv
<1>2. Len(s) \in Nat /\ Len(t) \in Nat
  BY <1>1 DEF Placed
<1>3. Len(s) + 1 <= Len(t)
  BY <1>2 DEF AtEOF, Position
<1> HIDE DEF s, t
<1>4. /\ t[Len(s) + 1] \in Line
      /\ Placed(reading, Append(s, t[Len(s) + 1]))
  BY <1>1, <1>3, PlacedAppend
<1> QED
  BY <1>4 DEF NextLine, Position, s, t

LEMMA AppendedRows ==
  ASSUME NEW s \in Seq(Line), NEW line \in Line, Unended(s)
  PROVE  /\ line.row # End => Unended(Append(s, line))
         /\ line.row = End => Ended(Append(s, line))
<1>1. /\ Len(Append(s, line)) = Len(s) + 1 /\ Len(s) \in Nat
      /\ \A i \in 1 .. Len(s) : Append(s, line)[i] = s[i]
      /\ Append(s, line)[Len(s) + 1] = line
  OBVIOUS
<1>2. Append(s, line) # <<>>
  BY <1>1
<1> QED
  BY <1>1, <1>2 DEF Unended, Ended

LEMMA ReadStep ==
  ASSUME IInv, Import \/ CommitLost \/ Restart \/ LastUpdateLost \/ LastUpdateMisread
  PROVE  ReadInv' /\ ReadTypes'
<1>1. ReadInv /\ ReadTypes /\ DiskInv /\ Placed(reading, rows) /\ rows \in Seq(Line)
  BY TypeParts DEF IInv, Placed
<1>2. CASE Open
  <2>1. /\ ipc' = "decode" /\ rows' = <<>> /\ UNCHANGED <<reading, file>>
        /\ file[reading] # NULL
    BY <1>2 DEF Open, diskVars
  <2>2. Placed(reading, file[reading]) /\ Placed(reading, <<>>)
    BY <1>1, <2>1, PlacedEmpty DEF DiskInv, ReadTypes
  <2>3. Unended(<<>>)
    BY DEF Unended
  <2> QED
    BY <1>1, <2>1, <2>2, <2>3 DEF ReadInv, ReadTypes
<1>3. CASE DecodeRow
  <2>1. /\ ipc = "decode" /\ ~AtEOF /\ NextLine.row # End
        /\ rows' = Append(rows, NextLine) /\ UNCHANGED <<ipc, reading, file>>
    BY <1>3 DEF DecodeRow, diskVars
  <2>2. NextLine \in Line /\ Placed(reading, Append(rows, NextLine))
    BY <2>1, ReadLine
  <2>3. Unended(rows) /\ Placed(reading, file[reading])
    BY <1>1, <2>1 DEF ReadInv
  <2>4. Unended(Append(rows, NextLine))
    BY <1>1, <2>1, <2>2, <2>3, AppendedRows
  <2> QED
    BY <1>1, <2>1, <2>2, <2>3, <2>4 DEF ReadInv, ReadTypes
<1>4. CASE DecodeEnd
  <2>1. /\ ipc = "decode" /\ ~AtEOF /\ NextLine.row = End
        /\ rows' = Append(rows, NextLine) /\ ipc' = "save" /\ UNCHANGED <<reading, file>>
    BY <1>4 DEF DecodeEnd, diskVars
  <2>2. NextLine \in Line /\ Placed(reading, Append(rows, NextLine))
    BY <2>1, ReadLine
  <2>3. Unended(rows)
    BY <1>1, <2>1 DEF ReadInv
  <2>4. Ended(Append(rows, NextLine))
    BY <1>1, <2>1, <2>2, <2>3, AppendedRows
  <2> QED
    BY <1>1, <2>1, <2>2, <2>4 DEF ReadInv, ReadTypes
<1> QED
  BY <1>2, <1>3, <1>4, IdleActions, ReadIdle DEF Import

-----------------------------------------------------------------------------
(***************************************************************************)
(* The tables.                                                             *)
(***************************************************************************)
LEMMA SavedRows ==
  ASSUME NEW s, s \in Seq(Line), Ended(s), s = rows
  PROVE  /\ Len(s) \in Nat \ {0}
         /\ Len(StateRows) = Len(s) - 1
         /\ DOMAIN StateRows = 1 .. Len(s) - 1
         /\ \A i \in 1 .. Len(s) - 1 : StateRows[i] = s[i] /\ s[i].row # End
<1>1. Len(s) \in Nat \ {0}
  BY DEF Ended
<1>2. StateRows = SubSeq(s, 1, Len(s) - 1)
  BY DEF StateRows
<1>3. /\ Len(SubSeq(s, 1, Len(s) - 1)) = Len(s) - 1
      /\ DOMAIN SubSeq(s, 1, Len(s) - 1) = 1 .. Len(s) - 1
      /\ \A i \in 1 .. Len(s) - 1 : SubSeq(s, 1, Len(s) - 1)[i] = s[i]
  BY <1>1
<1> QED
  BY <1>1, <1>2, <1>3 DEF Ended

LEMMA SavedSource ==
  ASSUME IInv, ipc = "save", source' = [source EXCEPT ![reading] = rows]
  PROVE  SourceInv' /\ source' \in [Files -> Seq(Line)] /\ source'[reading] = rows
<1>1. /\ Placed(reading, rows) /\ rows \in Seq(Line) /\ Ended(rows)
      /\ SourceInv /\ reading \in Files /\ source \in [Files -> Seq(Line)]
  BY TypeParts DEF IInv, Placed, ReadInv, ReadTypes, TableTypes
<1>2. /\ source' \in [Files -> Seq(Line)] /\ source'[reading] = rows
      /\ \A f \in Files \ {reading} : source'[f] = source[f]
  BY <1>1
<1>3. SourceInv'
  BY <1>1, <1>2 DEF SourceInv
<1> QED
  BY <1>2, <1>3

\* The rows saved from a whole edition are those of the edition.
LEMMA SavedEdition ==
  ASSUME NEW f \in Files, NEW e \in DOMAIN Editions, rows = Lines(f, e)
  PROVE  /\ Len(Editions[e][f]) \in Nat
         /\ DOMAIN StateRows = 1 .. Len(Editions[e][f])
         /\ \A i \in 1 .. Len(Editions[e][f]) : StateRows[i].row = Editions[e][f][i]
<1> DEFINE s == Lines(f, e)
<1>1. /\ s \in Seq(Line) /\ Len(s) \in Nat \ {0}
      /\ Len(Editions[e][f]) = Len(s) - 1
      /\ \A i \in 1 .. Len(s) - 1 : s[i].row = Editions[e][f][i] /\ s[i].row # End
      /\ s[Len(s)].row = End
  BY LinesShape
<1> HIDE DEF s
<1>2. Ended(s)
  <2>1. s # <<>>
    BY <1>1
  <2> QED
    BY <1>1, <2>1 DEF Ended
<1>3. /\ DOMAIN StateRows = 1 .. Len(s) - 1
      /\ \A i \in 1 .. Len(s) - 1 : StateRows[i] = s[i]
  <2>1. s = rows
    BY DEF s
  <2> QED
    BY <1>1, <1>2, <2>1, SavedRows
<1> QED
  BY <1>1, <1>3

LEMMA ComuniSaved ==
  ASSUME IInv, UpdateComuni
  PROVE  /\ comune' \in [Comuni -> Columns]
         /\ \A e \in DOMAIN Editions : rows = Lines("comuni", e) => HasComuni(e)'
<1>1. comune \in [Comuni -> Columns]
  BY TypeParts DEF IInv, TableTypes
<1>2. \A state : ColumnsOf(state) \in Columns
  <2> TAKE state
  <2>1. NullTimeFromString(state.presubentro) \in Dates \cup {NULL}
    BY DEF NullTimeFromString
  <2>2. NullBoolFromString(state.pec) \in BOOLEAN /\ NullBoolFromString(state.ip) \in BOOLEAN
    BY DEF NullBoolFromString
  <2> QED
    BY <2>1, <2>2 DEF ColumnsOf, Columns
<1> DEFINE Last(c) == CHOOSE i \in RowsFor(c) : \A j \in RowsFor(c) : j <= i
           New(c) == IF RowsFor(c) = {} THEN comune[c] ELSE ColumnsOf(StateRows[Last(c)].row)
<1>3. comune' = [c \in Comuni |-> New(c)]
  BY DEF UpdateComuni
<1>4. \A c \in Comuni : New(c) \in Columns
  <2> TAKE c \in Comuni
  <2>1. comune[c] \in Columns
    BY <1>1
  <2>2. ColumnsOf(StateRows[Last(c)].row) \in Columns
    BY <1>2
  <2> QED
    BY <2>1, <2>2
<1>5. comune' \in [Comuni -> Columns]
  <2> HIDE DEF New
  <2> QED
    BY <1>3, <1>4
<1>6. ASSUME NEW e \in DOMAIN Editions, rows = Lines("comuni", e)
      PROVE  HasComuni(e)'
  <2> DEFINE list == Editions[e]["comuni"]
  <2>1. /\ Len(list) \in Nat /\ DOMAIN StateRows = 1 .. Len(list)
        /\ \A i \in 1 .. Len(list) : StateRows[i].row = list[i]
    BY <1>6, SavedEdition DEF Files
  <2>2. list \in Seq(ComuneState)
    BY EditionsAssumption
  <2>3. \A i, j \in 1 .. Len(list) : list[i].codice = list[j].codice => i = j
    BY <2>2, UniqueAssumption
  <2> HIDE DEF list
  <2>4. ASSUME NEW i \in 1 .. Len(list), list[i].codice \in Comuni
        PROVE  comune'[list[i].codice] = Shown(list[i], TRUE)
    <3> DEFINE c == list[i].codice
    <3>1. RowsFor(c) = {i}
      BY <2>1, <2>3 DEF RowsFor
    <3>2. Last(c) = i
      <4>1. i <= i
        BY <2>1
      <4> QED
        BY <3>1, <4>1
    <3>3. New(c) = ColumnsOf(list[i])
      BY <2>1, <3>1, <3>2
    <3>4. comune'[c] = ColumnsOf(list[i])
      <4> HIDE DEF New
      <4> QED
        BY <1>3, <2>4, <3>3
    <3> QED
      BY <3>4 DEF ColumnsOf, Shown
  <2>5. DOMAIN list = 1 .. Len(list)
    BY <2>2
  <2>6. \A i \in DOMAIN list : list[i].codice \in Comuni => comune'[list[i].codice] = Shown(list[i], TRUE)
    BY <2>4, <2>5
  <2> QED
    BY <2>6 DEF HasComuni, list, Shown, NullTimeFromString, NullBoolFromString
<1> QED
  BY <1>5, <1>6

LEMMA AnomalieSaved ==
  ASSUME IInv, ipc = "save", reading = "anomalie", ReplaceAnomalie
  PROVE  /\ anomalie' \in Seq(AnomaliaState)
         /\ \A e \in DOMAIN Editions : rows = Lines("anomalie", e) => HasAnomalie(e)'
<1>1. Placed("anomalie", rows) /\ rows \in Seq(Line) /\ Ended(rows) /\ "anomalie" \in Files
  BY TypeParts DEF IInv, Placed, ReadInv, Files
<1> DEFINE n == Len(rows) - 1
<1>2. /\ n \in Nat /\ n = Len(rows) - 1
      /\ DOMAIN StateRows = 1 .. n
      /\ \A i \in 1 .. n : StateRows[i] = rows[i] /\ rows[i].row # End
  BY <1>1, SavedRows
<1> HIDE DEF n
<1>3. anomalie' = [i \in 1 .. n |-> StateRows[i].row]
  BY <1>2 DEF ReplaceAnomalie, AnomalieRead
<1>4. \A i \in 1 .. n : StateRows[i].row \in AnomaliaState
  <2> TAKE i \in 1 .. n
  <2>1. i \in 1 .. Len(rows) /\ rows[i].row # End /\ StateRows[i] = rows[i]
    BY <1>1, <1>2
  <2>2. PICK e \in DOMAIN Editions :
          i \in 1 .. Len(Editions[e]["anomalie"]) /\ rows[i].row = Editions[e]["anomalie"][i]
    BY <1>1, <2>1, PlacedRow
  <2>3. Editions[e]["anomalie"] \in Seq(AnomaliaState)
    BY EditionsAssumption
  <2> QED
    BY <2>1, <2>2, <2>3
<1>5. anomalie' \in Seq(AnomaliaState)
  BY <1>2, <1>3, <1>4
<1>6. ASSUME NEW e \in DOMAIN Editions, rows = Lines("anomalie", e)
      PROVE  HasAnomalie(e)'
  <2> DEFINE list == Editions[e]["anomalie"]
  <2>1. /\ Len(list) \in Nat /\ DOMAIN StateRows = 1 .. Len(list)
        /\ \A i \in 1 .. Len(list) : StateRows[i].row = list[i]
    BY <1>1, <1>6, SavedEdition
  <2>2. list \in Seq(AnomaliaState)
    BY EditionsAssumption
  <2> HIDE DEF list
  <2>3. anomalie' = [i \in 1 .. Len(list) |-> list[i]]
    BY <2>1 DEF ReplaceAnomalie, AnomalieRead
  <2>4. list = [i \in 1 .. Len(list) |-> list[i]]
    BY <2>2
  <2> QED
    BY <2>3, <2>4 DEF HasAnomalie, list
<1> QED
  BY <1>5, <1>6

LEMMA TablesStep ==
  ASSUME IInv, Next
  PROVE  SourceInv' /\ TablesInv' /\ TableTypes'
<1>1. TableTypes /\ ReadTypes /\ SourceInv /\ TablesInv
  BY TypeParts DEF IInv
<1>2. CASE SaveComuni
  <2>1. /\ ipc = "save" /\ reading = "comuni" /\ UpdateComuni
        /\ source' = [source EXCEPT ![reading] = rows] /\ UNCHANGED anomalie
    BY <1>2 DEF SaveComuni
  <2>2. SourceInv' /\ source' \in [Files -> Seq(Line)] /\ source'["comuni"] = rows
    BY <2>1, SavedSource
  <2>3. comune' \in [Comuni -> Columns]
    BY <2>1, ComuniSaved
  <2>4. source'["anomalie"] = source["anomalie"]
    BY <1>1, <2>1 DEF TableTypes, Files
  <2>5. ASSUME NEW e \in DOMAIN Editions
        PROVE  (Whole("comuni", e) => HasComuni(e))' /\ (Whole("anomalie", e) => HasAnomalie(e))'
    <3>1. Whole("comuni", e)' => HasComuni(e)'
      BY <2>1, <2>2, ComuniSaved DEF Whole
    <3>2. Whole("anomalie", e)' => Whole("anomalie", e)
      BY <2>4 DEF Whole
    <3>3. HasAnomalie(e) => HasAnomalie(e)'
      BY <2>1 DEF HasAnomalie
    <3> QED
      BY <1>1, <3>1, <3>2, <3>3 DEF TablesInv
  <2> QED
    BY <1>1, <2>1, <2>2, <2>3, <2>5 DEF TablesInv, TableTypes
<1>3. CASE SaveAnomalie
  <2>1. /\ ipc = "save" /\ reading = "anomalie" /\ ReplaceAnomalie
        /\ source' = [source EXCEPT ![reading] = rows] /\ UNCHANGED comune
    BY <1>3 DEF SaveAnomalie
  <2>2. SourceInv' /\ source' \in [Files -> Seq(Line)] /\ source'["anomalie"] = rows
    BY <2>1, SavedSource
  <2>3. anomalie' \in Seq(AnomaliaState)
    BY <2>1, AnomalieSaved
  <2>4. source'["comuni"] = source["comuni"]
    BY <1>1, <2>1 DEF TableTypes, Files
  <2>5. ASSUME NEW e \in DOMAIN Editions
        PROVE  (Whole("comuni", e) => HasComuni(e))' /\ (Whole("anomalie", e) => HasAnomalie(e))'
    <3>1. Whole("anomalie", e)' => HasAnomalie(e)'
      BY <2>1, <2>2, AnomalieSaved DEF Whole
    <3>2. Whole("comuni", e)' => Whole("comuni", e)
      BY <2>4 DEF Whole
    <3>3. HasComuni(e) => HasComuni(e)'
      BY <2>1 DEF HasComuni
    <3> QED
      BY <1>1, <3>1, <3>2, <3>3 DEF TablesInv
  <2> QED
    BY <1>1, <2>1, <2>2, <2>3, <2>5 DEF TablesInv, TableTypes
<1>4. ASSUME UNCHANGED tableVars
      PROVE  SourceInv' /\ TablesInv' /\ TableTypes'
  <2>1. UNCHANGED <<comune, anomalie, source>>
    BY <1>4 DEF tableVars
  <2>2. TablesInv'
    BY <1>1, <2>1 DEF TablesInv, Whole, HasComuni, HasAnomalie
  <2> QED
    BY <1>1, <2>1, <2>2 DEF SourceInv, TableTypes
<1>5. CASE Fetch
  BY <1>4, <1>5
     DEF Fetch, Publish, FetchStart, FetchNext, CurlRefused, CurlOpens, CurlWrites, CurlEnds
<1>6. CASE \/ OpenFails \/ Open \/ DecodeCut \/ DecodeGarbled \/ DecodeRow \/ DecodeEnd
           \/ CommitLost \/ Restart
  BY <1>4, <1>6
     DEF OpenFails, Open, DecodeCut, DecodeGarbled, DecodeRow, DecodeEnd, Skip, CommitLost, Restart
<1>7. CASE \/ LastUpdateInsert \/ LastUpdateUpdate \/ LastUpdatePanics \/ Wake
           \/ LastUpdateLost \/ LastUpdateMisread
  BY <1>4, <1>7
     DEF LastUpdateInsert, LastUpdateUpdate, LastUpdatePanics, Wake, LastUpdateLost, LastUpdateMisread
<1> QED
  BY <1>2, <1>3, <1>5, <1>6, <1>7 DEF Next, Import

-----------------------------------------------------------------------------
(***************************************************************************)
(* LASTUPDATE.  Every row after the first costs a fault.                   *)
(***************************************************************************)
LEMMA CountStep ==
  ASSUME IInv, Next
  PROVE  CountInv' /\ CountTypes'
<1>1. CountTypes /\ CountInv /\ MaxFaults \in Nat
  BY TypeParts, EditionsAssumption DEF IInv
<1>2. ASSUME UNCHANGED <<lastVars, faults>>
      PROVE  CountInv' /\ CountTypes'
  BY <1>1, <1>2 DEF CountTypes, CountInv, DoubledOnlyIfMisread, lastVars
<1>3. ASSUME Fault, UNCHANGED lastVars
      PROVE  CountInv' /\ CountTypes'
  BY <1>1, <1>3 DEF Fault, CountTypes, CountInv, DoubledOnlyIfMisread, lastVars
<1>4. CASE LastUpdateInsert
  BY <1>1, <1>4 DEF LastUpdateInsert, CountTypes, CountInv, DoubledOnlyIfMisread
<1>5. CASE LastUpdateMisread
  BY <1>1, <1>5 DEF LastUpdateMisread, Fault, CountTypes, CountInv, DoubledOnlyIfMisread
<1>6. CASE CommitLost \/ Restart \/ LastUpdateLost
  BY <1>3, <1>6 DEF CommitLost, Restart, LastUpdateLost
<1>7. CASE Fetch
  BY <1>2, <1>7
     DEF Fetch, Publish, FetchStart, FetchNext, CurlRefused, CurlOpens, CurlWrites, CurlEnds
<1>8. CASE \/ OpenFails \/ Open \/ DecodeCut \/ DecodeGarbled \/ DecodeRow \/ DecodeEnd
           \/ SaveComuni \/ SaveAnomalie \/ LastUpdateUpdate \/ LastUpdatePanics \/ Wake
  BY <1>2, <1>8
     DEF OpenFails, Open, DecodeCut, DecodeGarbled, DecodeRow, DecodeEnd, Skip,
         SaveComuni, SaveAnomalie, LastUpdateUpdate, LastUpdatePanics, Wake
<1> QED
  BY <1>4, <1>5, <1>6, <1>7, <1>8 DEF Next, Import

-----------------------------------------------------------------------------
(***************************************************************************)
(* The import leaves the disk alone, the script what the import has read.  *)
(***************************************************************************)
LEMMA DiskUntouched ==
  ASSUME IInv, Import \/ CommitLost \/ Restart \/ LastUpdateLost \/ LastUpdateMisread
  PROVE  DiskInv' /\ DiskTypes'
<1>1. UNCHANGED diskVars
  <2>1. CASE \/ OpenFails \/ Open \/ DecodeCut \/ DecodeGarbled \/ DecodeRow \/ DecodeEnd
             \/ SaveComuni \/ SaveAnomalie \/ CommitLost \/ Restart
    BY <2>1
       DEF OpenFails, Open, DecodeCut, DecodeGarbled, DecodeRow, DecodeEnd, Skip,
           SaveComuni, SaveAnomalie, CommitLost, Restart
  <2>2. CASE \/ LastUpdateInsert \/ LastUpdateUpdate \/ LastUpdatePanics \/ Wake
             \/ LastUpdateLost \/ LastUpdateMisread
    BY <2>2
       DEF LastUpdateInsert, LastUpdateUpdate, LastUpdatePanics, Wake,
           LastUpdateLost, LastUpdateMisread
  <2> QED
    BY <2>1, <2>2 DEF Import
<1>2. DiskTypes /\ DiskInv
  BY TypeParts DEF IInv
<1> QED
  BY <1>1, <1>2 DEF diskVars, DiskTypes, DiskInv

LEMMA ReadUntouched ==
  ASSUME IInv, Fetch
  PROVE  ReadInv' /\ ReadTypes'
<1>1. ReadInv /\ ReadTypes /\ FilesKept
  BY TypeParts, DiskStep DEF IInv
<1>2. UNCHANGED <<ipc, reading, rows>>
  BY DEF Fetch, Publish, FetchStart, FetchNext, CurlRefused, CurlOpens, CurlWrites, CurlEnds,
         importVars
<1>3. ipc = "decode" => Placed(reading, file'[reading])
  BY <1>1 DEF ReadInv, ReadTypes, FilesKept
<1> QED
  BY <1>1, <1>2, <1>3 DEF ReadInv, ReadTypes

(***************************************************************************)
(* The invariant holds of every behaviour.                                 *)
(***************************************************************************)
LEMMA Inductive == Spec => []IInv
<1>1. IInv /\ [Next]_vars => IInv'
  <2> SUFFICES ASSUME IInv, [Next]_vars
               PROVE  IInv'
    OBVIOUS
  <2>1. CASE Next
    <3>1. DiskInv' /\ DiskTypes' /\ ReadInv' /\ ReadTypes'
      BY <2>1, DiskStep, DiskUntouched, ReadStep, ReadUntouched DEF Next
    <3>2. SourceInv' /\ TablesInv' /\ TableTypes' /\ CountInv' /\ CountTypes'
      BY <2>1, TablesStep, CountStep
    <3>3. rows' \in Seq(Line)
      BY <3>1 DEF ReadInv, Placed
    <3>4. TypeOK'
      BY <3>1, <3>2, <3>3
         DEF TypeOK, DiskTypes, ReadTypes, TableTypes, CountTypes
    <3> QED
      BY <3>1, <3>2, <3>4 DEF IInv
  <2>2. CASE UNCHANGED vars
    <3>1. /\ UNCHANGED <<published, file, fetch, fetches, ipc, reading, rows>>
          /\ UNCHANGED <<comune, anomalie, source, lastupdate, misread, faults>>
      BY <2>2 DEF vars, diskVars, importVars, tableVars, lastVars
    <3>2. TypeOK /\ DiskInv /\ ReadInv /\ SourceInv /\ TablesInv /\ CountInv
      BY DEF IInv
    <3>3. TypeOK'
      BY <3>1, <3>2 DEF TypeOK
    <3>4. DiskInv' /\ ReadInv' /\ SourceInv'
      BY <3>1, <3>2 DEF DiskInv, ReadInv, SourceInv
    <3>5. TablesInv' /\ CountInv'
      BY <3>1, <3>2 DEF TablesInv, Whole, HasComuni, HasAnomalie, CountInv, DoubledOnlyIfMisread
    <3> QED
      BY <3>3, <3>4, <3>5 DEF IInv
  <2> QED
    BY <2>1, <2>2
<1> QED
  BY InvariantInit, <1>1, PTL DEF Spec

-----------------------------------------------------------------------------
(***************************************************************************)
(* Every variable keeps its type: in particular the table ANOMALIE only    *)
(* ever gets rows, never the end of a file, and LASTUPDATE no more rows    *)
(* than there were faults, and one.                                        *)
(***************************************************************************)
THEOREM ImportTypes == Spec => []TypeOK
<1>1. IInv => TypeOK
  BY DEF IInv
<1> QED
  BY <1>1, Inductive, PTL

LEMMA OneEdition ==
  ASSUME IInv, NEW f \in Files
  PROVE  OfOneEdition(f)
<1>1. Placed(f, source[f]) /\ (source[f] # <<>> => Ended(source[f]))
  BY DEF IInv, SourceInv
<1>2. SUFFICES ASSUME source[f] # <<>>, ~Mixed(f)
               PROVE  \E e \in DOMAIN Editions : Whole(f, e)
  BY DEF OfOneEdition
<1> DEFINE s == source[f]
<1>3. Placed(f, s) /\ Ended(s) /\ \A i, j \in DOMAIN s : s[i].ed = s[j].ed
  BY <1>1, <1>2 DEF Mixed
<1> HIDE DEF s
<1>4. \E e \in DOMAIN Editions : s = Lines(f, e)
  BY <1>3, PlacedIsEdition
<1> QED
  BY <1>4 DEF Whole, s

(***************************************************************************)
(* COMUNE is written from a whole edition, or from a file that was         *)
(* rewritten while it was read, and shows the edition it is written from.  *)
(***************************************************************************)
THEOREM ComuniAreWhole == Spec => []ComuniAreAnEdition
<1>1. IInv => ComuniAreAnEdition
  BY OneEdition DEF IInv, TablesInv, ComuniAreAnEdition, Files
<1> QED
  BY <1>1, Inductive, PTL

(***************************************************************************)
(* ANOMALIE likewise, with the rows of the last import and no other.       *)
(***************************************************************************)
THEOREM AnomalieAreWhole == Spec => []AnomalieAreAnEdition
<1>1. IInv => AnomalieAreAnEdition
  BY OneEdition DEF IInv, TablesInv, AnomalieAreAnEdition, Files
<1> QED
  BY <1>1, Inductive, PTL

(***************************************************************************)
(* A second row of LASTUPDATE, which stops every later import, only comes  *)
(* of a read of the table that failed.                                     *)
(***************************************************************************)
THEOREM DoubledByMisread == Spec => []DoubledOnlyIfMisread
<1>1. IInv => DoubledOnlyIfMisread
  BY DEF IInv, CountInv
<1> QED
  BY <1>1, Inductive, PTL
=============================================================================
