-------------------------- MODULE UrlManagerProofs --------------------------
(***************************************************************************)
(* Theorems about UrlManager, for any number of requests, any roots,       *)
(* directories and files, however often they change.                       *)
(***************************************************************************)
EXTENDS UrlManager, TLAPS

(***************************************************************************)
(* Only a scan has names left, and they are files of the current           *)
(* directory; a request has a tree until its location is found, and what   *)
(* it found until it is answered.                                          *)
(***************************************************************************)
Listing ==
  /\ upd # "scan" => left = {}
  /\ \A n \in left : cur \in Trees /\ FileAt(cur, n) \in Files

Serves ==
  \A w \in Workers :
    /\ pc[w] = "runlock" => treeref[w] # NULL
    /\ pc[w] = "serve" => asked[w] # NULL
    /\ match[w] # NULL => pc[w] = "serve" /\ wp[w] # NULL
    /\ wp[w] # NULL => match[w] # NULL
    /\ answer[w] # "" => pc[w] = "reply"

TypeInv == TypeOK /\ Listing /\ Serves

-----------------------------------------------------------------------------
(***************************************************************************)
(* Type correctness.                                                       *)
(***************************************************************************)
LEMMA NoLocationType == NoLocation \in WebLocation
  BY UrlAssumption DEF NoLocation, WebLocation

LEMMA EmptyType == EmptyUrlSet \in UrlSet
  BY NoLocationType DEF EmptyUrlSet, UrlSet

(***************************************************************************)
(* Electing a file gives a WebLocation again; so does registering it.      *)
(***************************************************************************)
LEMMA ElectType ==
  ASSUME NEW l \in WebLocation, NEW f \in FileState
  PROVE  Elect(l, f) \in WebLocation /\ Elect(l, f).urlfiles = l.urlfiles
<1>1. Score[f.name] \in 0 .. NoScore
  BY UrlAssumption DEF FileState
<1> QED
  BY <1>1 DEF Elect, WebLocation

LEMMA RegisterFileType ==
  ASSUME NEW s \in UrlSet, NEW f \in FileState, <<f.root, f.dir, f.name>> \in Files
  PROVE  RegisterFile(s, f) \in UrlSet
<1> DEFINE l == Elect(s.location[f.dir], f)
           k == [l EXCEPT !.urlfiles[UrlOf[f.name]] = IF @ = NULL THEN f ELSE @]
           e == IF l.urlfiles[UrlOf[f.name]] = NULL THEN s.errors
                ELSE s.errors \cup {<<f.root, f.dir, f.name>>}
<1>1. f.dir \in Dirs /\ f.name \in Names /\ UrlOf[f.name] \in Urls
  BY UrlAssumption DEF FileState, Urls
<1>2. s.location \in [Dirs -> WebLocation] /\ s.errors \in SUBSET Files
  BY DEF UrlSet
<1>3. l \in WebLocation
  BY <1>1, <1>2, ElectType
<1>4. k \in WebLocation
  <2>1. [l.urlfiles EXCEPT ![UrlOf[f.name]] = IF @ = NULL THEN f ELSE @]
          \in [Urls -> FileState \cup {NULL}]
    BY <1>1, <1>3 DEF WebLocation
  <2> HIDE DEF l
  <2> QED
    BY <1>3, <2>1 DEF WebLocation
<1>5. e \in SUBSET Files
  BY <1>2
<1>6. RegisterFile(s, f) = [location |-> [s.location EXCEPT ![f.dir] = k], errors |-> e]
  BY DEF RegisterFile
<1> HIDE DEF k, e
<1>7. [s.location EXCEPT ![f.dir] = k] \in [Dirs -> WebLocation]
  BY <1>2, <1>4
<1> QED
  BY <1>5, <1>6, <1>7 DEF UrlSet

(***************************************************************************)
(* A step of Prepare keeps the UrlSet under construction one.              *)
(***************************************************************************)
LEMMA PrepareType ==
  ASSUME TypeInv, NEW n \in left
  PROVE  /\ disk[FileAt(cur, n)] = NULL =>
              [building EXCEPT !.errors = @ \cup {FileAt(cur, n)}] \in UrlSet
         /\ disk[FileAt(cur, n)] # NULL =>
              /\ ReadFile(n) \in FileState
              /\ ReadFile(n).dir = cur[2] /\ ReadFile(n).name = n
              /\ RegisterFile(building, ReadFile(n)) \in UrlSet
<1>1. FileAt(cur, n) \in Files /\ building \in UrlSet
  BY DEF TypeInv, TypeOK, Listing
<1>2. cur[1] \in Roots /\ cur[2] \in Dirs /\ n \in Names
  BY <1>1, UrlAssumption DEF FileAt
<1>3. [building EXCEPT !.errors = @ \cup {FileAt(cur, n)}] \in UrlSet
  BY <1>1 DEF UrlSet
<1>4. ASSUME disk[FileAt(cur, n)] # NULL PROVE ReadFile(n) \in FileState
  <2>1. disk[FileAt(cur, n)] \in Nat
    BY <1>1, <1>4 DEF TypeInv, TypeOK
  <2> QED
    BY <1>2, <2>1 DEF FileState, ReadFile
<1>5. /\ ReadFile(n).dir = cur[2] /\ ReadFile(n).name = n
      /\ <<ReadFile(n).root, ReadFile(n).dir, ReadFile(n).name>> = FileAt(cur, n)
  BY DEF ReadFile, FileAt
<1> QED
  BY <1>1, <1>3, <1>4, <1>5, RegisterFileType

(***************************************************************************)
(* What a request finds is a directory and a location of its tree.         *)
(***************************************************************************)
LEMMA LongestType ==
  ASSUME TypeInv, NEW w \in Workers, pc[w] = "runlock", NEW path,
         LongestPrefix(w, path)
  PROVE  /\ match' \in [Workers -> Dirs \cup {NULL}]
         /\ wp' \in [Workers -> WebLocation \cup {NULL}]
         /\ match'[w] # NULL => wp'[w] # NULL
         /\ wp'[w] # NULL => match'[w] # NULL
         /\ \A v \in Workers \ {w} : match'[v] = match[v] /\ wp'[v] = wp[v]
<1>1. /\ match \in [Workers -> Dirs \cup {NULL}]
      /\ wp \in [Workers -> WebLocation \cup {NULL}]
      /\ treeref[w] \in UrlSet
      /\ match[w] = NULL /\ wp[w] = NULL
  BY DEF TypeInv, TypeOK, Serves
<1>2. CASE UNCHANGED <<match, wp>>
  BY <1>1, <1>2
<1>3. ASSUME NEW d \in Dirs, IsLongest(d, Prefixes(treeref[w], path)),
             match' = [match EXCEPT ![w] = d],
             wp' = [wp EXCEPT ![w] = treeref[w].location[d]]
      PROVE  /\ match' \in [Workers -> Dirs \cup {NULL}]
             /\ wp' \in [Workers -> WebLocation \cup {NULL}]
             /\ match'[w] # NULL /\ wp'[w] # NULL
             /\ \A v \in Workers \ {w} : match'[v] = match[v] /\ wp'[v] = wp[v]
  <2>1. treeref[w].location[d] \in WebLocation
    BY <1>1 DEF UrlSet
  <2>2. d # NULL
    BY UrlAssumption
  <2>3. treeref[w].location[d] # NULL
    BY <2>1, UrlAssumption
  <2> QED
    BY <1>1, <1>3, <2>1, <2>2, <2>3
<1> QED
  BY <1>2, <1>3 DEF LongestPrefix

LEMMA TypeInit == Init => TypeInv
<1> SUFFICES ASSUME Init PROVE TypeInv
  OBVIOUS
<1>1. disk \in [Files -> Nat \cup {NULL}]
  <2>1. disk \in [Files -> {0, NULL}]
    BY DEF Init
  <2> QED
    BY <2>1
<1>2. edits \in 0 .. MaxEdits
  <2>1. edits = 0 /\ MaxEdits \in Nat
    BY UrlAssumption DEF Init
  <2> QED
    BY <2>1
<1>3. /\ building \in UrlSet
      /\ urlset \in UrlSet \cup {NULL}
      /\ treeref \in [Workers -> UrlSet \cup {NULL}]
  BY EmptyType DEF Init
<1>4. /\ asked \in [Workers -> Requests \cup {NULL}]
      /\ match \in [Workers -> Dirs \cup {NULL}]
      /\ wp \in [Workers -> WebLocation \cup {NULL}]
      /\ answer \in [Workers -> Answers]
      /\ pc \in [Workers -> {"idle", "blocked", "read", "runlock", "serve", "reply"}]
  BY DEF Init, Answers
<1>5. TypeOK
  BY <1>1, <1>2, <1>3, <1>4 DEF Init, TypeOK
<1> QED
  BY <1>5 DEF TypeInv, Init, Listing, Serves

LEMMA TypeNext == TypeInv /\ [Next]_vars => TypeInv'
<1> SUFFICES ASSUME TypeInv, [Next]_vars PROVE TypeInv'
  OBVIOUS
<1>0. Edit => edits' \in 0 .. MaxEdits /\ edits + 1 \in Nat
  BY UrlAssumption DEF TypeInv, TypeOK, Edit
<1> USE DEF TypeInv, Listing, Serves, diskVars, scanVars, lockVars, reqVars
<1>1. CASE Edit
  <2>1. disk' \in [Files -> Nat \cup {NULL}]
    <3>1. disk \in [Files -> Nat \cup {NULL}]
      BY DEF TypeOK
    <3>2. PICK e \in Edits : \/ disk' = [disk EXCEPT ![e[1]] = edits + 1]
                             \/ disk' = [disk EXCEPT ![e[1]] = NULL]
      BY <1>1 DEF Edit
    <3> QED
      BY <1>0, <1>1, <3>1, <3>2
  <2> QED
    BY <1>0, <1>1, <2>1 DEF Edit, TypeOK
<1>2. CASE Update
  BY <1>2, EmptyType DEF Update, TypeOK
<1>3. CASE ScanTree
  BY <1>3 DEF ScanTree, TypeOK, Exists
<1>4. CASE Prepare
  <2>1. PICK n \in left :
          /\ left' = left \ {n}
          /\ building' = IF disk[FileAt(cur, n)] = NULL
                         THEN [building EXCEPT !.errors = @ \cup {FileAt(cur, n)}]
                         ELSE RegisterFile(building, ReadFile(n))
    BY <1>4 DEF Prepare
  <2>2. building' \in UrlSet
    BY <2>1, PrepareType
  <2>3. cur' = cur
    BY <1>4 DEF Prepare
  <2>4. Listing'
    BY <1>4, <2>1, <2>3 DEF Prepare, FileAt
  <2>5. TypeOK' /\ Serves'
    BY <1>4, <2>1, <2>2 DEF Prepare, TypeOK
  <2> QED
    BY <2>4, <2>5
<1>5. CASE Lock \/ Locked
  BY <1>5 DEF Lock, Locked, TypeOK
<1>6. CASE Swap
  BY <1>6 DEF Swap, TypeOK
<1>7. CASE Unlock
  BY <1>7, EmptyType DEF Unlock, TypeOK
<1>8. ASSUME NEW w \in Workers, RLock(w) PROVE TypeInv'
  BY <1>8 DEF RLock, TypeOK
<1>9. ASSUME NEW w \in Workers, ReadTree(w) PROVE TypeInv'
  BY <1>9 DEF ReadTree, TypeOK
<1>10. ASSUME NEW w \in Workers, RUnlock(w) PROVE TypeInv'
  <2>1. PICK r \in Requests :
          /\ asked' = [asked EXCEPT ![w] = r]
          /\ LongestPrefix(w, r.path) \/ UNCHANGED <<match, wp>>
    BY <1>10 DEF RUnlock
  <2>2. pc[w] = "runlock"
    BY <1>10 DEF RUnlock
  <2>3. /\ match' \in [Workers -> Dirs \cup {NULL}]
        /\ wp' \in [Workers -> WebLocation \cup {NULL}]
        /\ match'[w] # NULL => wp'[w] # NULL
        /\ wp'[w] # NULL => match'[w] # NULL
        /\ \A v \in Workers \ {w} : match'[v] = match[v] /\ wp'[v] = wp[v]
    BY <2>1, <2>2, LongestType DEF TypeOK
  <2>4. r # NULL
    BY UrlAssumption
  <2>5. TypeOK'
    BY <1>10, <2>1, <2>3 DEF RUnlock, TypeOK
  <2>6. Listing' /\ Serves'
    BY <1>10, <2>1, <2>2, <2>3, <2>4 DEF RUnlock, TypeOK
  <2> QED
    BY <2>5, <2>6
<1>11. ASSUME NEW w \in Workers, ReadNil(w) PROVE TypeInv'
  BY <1>11 DEF ReadNil, TypeOK, Answers
<1>12. ASSUME NEW w \in Workers, NEW code \in Answers, pc[w] = "serve", Reply(w, code)
       PROVE  TypeInv'
  BY <1>12 DEF Reply, TypeOK
<1>13. ASSUME NEW w \in Workers, Dump(w) \/ Process(w) PROVE TypeInv'
  <2>1. Status(w) \in Answers /\ "dump" \in Answers
    BY DEF Status, Answers
  <2> QED
    BY <1>12, <1>13, <2>1 DEF Dump, Process
<1>14. ASSUME NEW w \in Workers, Return(w) PROVE TypeInv'
  BY <1>14 DEF Return, TypeOK, Answers
<1>15. CASE UNCHANGED vars
  BY <1>15 DEF vars, TypeOK
<1> QED
  BY <1>1, <1>2, <1>3, <1>4, <1>5, <1>6, <1>7, <1>8, <1>9, <1>10, <1>11, <1>13,
     <1>14, <1>15
  DEF Next, Scan, Handle

LEMMA TypeInvariant == Spec => []TypeInv
  BY TypeInit, TypeNext, PTL DEF Spec

(***************************************************************************)
(* The type invariant of the scan, of the lock and of the requests.        *)
(***************************************************************************)
THEOREM UrlTypes == Spec => []TypeOK
<1>1. TypeInv => TypeOK
  BY DEF TypeInv
<1> QED
  BY <1>1, TypeInvariant, PTL

-----------------------------------------------------------------------------
(***************************************************************************)
(* The lock: a request between RLock and RUnlock is a reader, and there is *)
(* none from the moment the writer has it until it gives it back.          *)
(***************************************************************************)
LockInv ==
  /\ \A w \in Workers : pc[w] \in {"read", "runlock"} => w \in readers
  /\ upd \in {"swap", "unlock"} => readers = {}

LEMMA LockNext == TypeInv /\ LockInv /\ [Next]_vars => LockInv'
<1> SUFFICES ASSUME TypeInv, LockInv, [Next]_vars PROVE LockInv'
  OBVIOUS
<1> USE DEF LockInv, diskVars, scanVars, lockVars, reqVars
<1>0. pc \in [Workers -> {"idle", "blocked", "read", "runlock", "serve", "reply"}]
  BY DEF TypeInv, TypeOK
<1>1. CASE Edit
  BY <1>1 DEF Edit
<1>2. CASE Update \/ ScanTree \/ Prepare \/ Lock \/ Locked \/ Swap
  BY <1>2 DEF Update, ScanTree, Prepare, Lock, Locked, Swap
<1>3. CASE Unlock
  BY <1>0, <1>3 DEF Unlock
<1>4. ASSUME NEW w \in Workers, RLock(w) PROVE LockInv'
  BY <1>0, <1>4 DEF RLock, WriterPending
<1>5. ASSUME NEW w \in Workers, ReadTree(w) \/ RUnlock(w) PROVE LockInv'
  BY <1>0, <1>5 DEF ReadTree, RUnlock
<1>6. ASSUME NEW w \in Workers, ReadNil(w) PROVE LockInv'
  BY <1>0, <1>6 DEF ReadNil
<1>7. ASSUME NEW w \in Workers, Dump(w) \/ Process(w) PROVE LockInv'
  BY <1>0, <1>7 DEF Dump, Process, Reply
<1>8. ASSUME NEW w \in Workers, Return(w) PROVE LockInv'
  BY <1>0, <1>8 DEF Return
<1>9. CASE UNCHANGED vars
  BY <1>9 DEF vars
<1> QED
  BY <1>1, <1>2, <1>3, <1>4, <1>5, <1>6, <1>7, <1>8, <1>9 DEF Next, Scan, Handle

(***************************************************************************)
(* The pointer to the UrlSet is never swapped while a request reads it.    *)
(***************************************************************************)
THEOREM SwapsAreExclusive == Spec => []SwapIsExclusive
<1>1. Init => LockInv
  BY DEF Init, LockInv
<1>2. LockInv => SwapIsExclusive
  BY DEF LockInv, SwapIsExclusive
<1> QED
  BY <1>1, <1>2, LockNext, TypeInvariant, PTL DEF Spec

-----------------------------------------------------------------------------
(***************************************************************************)
(* Pages stay.  A location covers a file if the url of the file is taken,  *)
(* by that file or by another one, and there is an index if the file can   *)
(* be one.  A scan covers every kept file by the time it has registered    *)
(* it, and what is published, and what a request took, covers them all.    *)
(* Then each location of a kept file that was asked for is there, and the  *)
(* request finds that one or a longer one.                                 *)
(***************************************************************************)
Covered(l, f) ==
  /\ l.urlfiles[UrlOf[f[3]]] # NULL
  /\ Score[f[3]] < NoScore => l.Index # NULL

Complete(s) == \A f \in Kept : Covered(s.location[f[2]], f)

Scored(l) == l.Index = NULL => l.IndexScore = NoScore

KeptInv == \A f \in Kept : disk[f] # NULL

ScoreInv == \A d \in Dirs : Scored(building.location[d])

Ahead(f) ==
  \/ <<f[1], f[2]>> \in todo
  \/ cur = <<f[1], f[2]>> /\ f[3] \in left

ScanInv ==
  /\ upd = "scan" => \A f \in Kept : Ahead(f) \/ Covered(building.location[f[2]], f)
  /\ upd \in {"waiting", "swap"} => Complete(building)

ServeInv ==
  /\ urlset # NULL => Complete(urlset)
  /\ \A w \in Workers : pc[w] = "runlock" => Complete(treeref[w])

FoundInv ==
  \A w \in Workers : pc[w] = "serve" /\ ~asked[w].debug =>
    \A f \in Kept : Asks(asked[w].path, f) =>
      /\ match[w] # NULL
      /\ \/ Length[match[w]] > Length[f[2]]
         \/ match[w] = f[2] /\ Covered(wp[w], f)

PageInv == KeptInv /\ ScoreInv /\ ScanInv /\ ServeInv /\ FoundInv

LEMMA KeptTriple ==
  ASSUME NEW f \in Kept
  PROVE  /\ f \in Files /\ f = <<f[1], f[2], f[3]>> /\ <<f[1], f[2]>> \in Trees
         /\ f[1] \in Roots /\ f[2] \in Dirs /\ f[3] \in Names
         /\ UrlOf[f[3]] \in Urls
<1>1. f \in Files /\ f \in Roots \X Dirs \X Names
  BY UrlAssumption DEF Kept
<1> QED
  BY <1>1, UrlAssumption DEF Urls, Trees

(***************************************************************************)
(* Registering a file covers it, uncovers nothing, and leaves no score     *)
(* without its index.                                                      *)
(***************************************************************************)
LEMMA RegisterCovers ==
  ASSUME NEW s \in UrlSet, NEW f \in FileState, Scored(s.location[f.dir])
  PROVE  LET t == RegisterFile(s, f) IN
         /\ \A d \in Dirs \ {f.dir} : t.location[d] = s.location[d]
         /\ t.location[f.dir].urlfiles[UrlOf[f.name]] # NULL
         /\ Score[f.name] < NoScore => t.location[f.dir].Index # NULL
         /\ Scored(t.location[f.dir])
         /\ \A u \in Urls : s.location[f.dir].urlfiles[u] # NULL
                              => t.location[f.dir].urlfiles[u] # NULL
         /\ s.location[f.dir].Index # NULL => t.location[f.dir].Index # NULL
<1> DEFINE l == s.location[f.dir]
           e == Elect(l, f)
           k == [e EXCEPT !.urlfiles[UrlOf[f.name]] = IF @ = NULL THEN f ELSE @]
           t == RegisterFile(s, f)
<1>1. f # NULL /\ f.name \in Names /\ f.dir \in Dirs
  BY UrlAssumption DEF FileState
<1>2. UrlOf[f.name] \in Urls /\ Score[f.name] \in 0 .. NoScore /\ NoScore \in Nat
  BY <1>1, UrlAssumption DEF Urls
<1>3. s.location \in [Dirs -> WebLocation] /\ l \in WebLocation
  BY <1>1 DEF UrlSet
<1>4. e \in WebLocation /\ e.urlfiles = l.urlfiles
  BY <1>3, ElectType
<1>5. /\ e.Index = IF Score[f.name] < l.IndexScore THEN f ELSE l.Index
      /\ e.IndexScore = IF Score[f.name] < l.IndexScore THEN Score[f.name]
                        ELSE l.IndexScore
  BY <1>3 DEF Elect, WebLocation
<1>6. t.location = [s.location EXCEPT ![f.dir] = k]
  BY DEF RegisterFile
<1> HIDE DEF e, t
<1>7. /\ k.Index = e.Index /\ k.IndexScore = e.IndexScore
      /\ k.urlfiles = [e.urlfiles EXCEPT ![UrlOf[f.name]] = IF @ = NULL THEN f ELSE @]
  BY <1>4 DEF WebLocation
<1> HIDE DEF k
<1>8. t.location[f.dir] = k /\ \A d \in Dirs \ {f.dir} : t.location[d] = s.location[d]
  BY <1>1, <1>3, <1>6
<1>9. l.urlfiles \in [Urls -> FileState \cup {NULL}] /\ l.IndexScore \in 0 .. NoScore
  BY <1>3 DEF WebLocation
<1>10. /\ k.urlfiles[UrlOf[f.name]] # NULL
       /\ \A u \in Urls : l.urlfiles[u] # NULL => k.urlfiles[u] # NULL
  BY <1>1, <1>2, <1>4, <1>7, <1>9
<1>11. /\ Score[f.name] < NoScore => k.Index # NULL
       /\ Scored(k)
       /\ l.Index # NULL => k.Index # NULL
  BY <1>1, <1>2, <1>5, <1>7, <1>9 DEF Scored
<1> QED
  BY <1>8, <1>10, <1>11 DEF t

LEMMA PageInit == Init => PageInv
<1> SUFFICES ASSUME Init PROVE PageInv
  OBVIOUS
<1>1. KeptInv
  <2>1. 0 # NULL
    BY UrlAssumption
  <2> QED
    BY <2>1 DEF Init, KeptInv
<1>2. ScoreInv /\ ScanInv
  BY DEF Init, ScoreInv, Scored, ScanInv, EmptyUrlSet, NoLocation
<1>3. ServeInv /\ FoundInv
  BY DEF Init, ServeInv, FoundInv
<1> QED
  BY <1>1, <1>2, <1>3 DEF PageInv

(***************************************************************************)
(* The step of a scan that registers a file.                               *)
(***************************************************************************)
LEMMA PreparePages == TypeInv /\ PageInv /\ Prepare => ScoreInv' /\ ScanInv'
<1> SUFFICES ASSUME TypeInv, PageInv, Prepare PROVE ScoreInv' /\ ScanInv'
  OBVIOUS
<1>1. PICK n \in left :
        /\ left' = left \ {n}
        /\ building' = IF disk[FileAt(cur, n)] = NULL
                       THEN [building EXCEPT !.errors = @ \cup {FileAt(cur, n)}]
                       ELSE RegisterFile(building, ReadFile(n))
  BY DEF Prepare
<1>2. upd = "scan" /\ upd' = "scan" /\ todo' = todo /\ cur' = cur /\ building \in UrlSet
  BY DEF Prepare, TypeInv, TypeOK
<1>3. ASSUME NEW f \in Kept, Ahead(f), ~Ahead(f)'
      PROVE  cur = <<f[1], f[2]>> /\ f[3] = n /\ f = FileAt(cur, n)
  BY <1>1, <1>2, <1>3, KeptTriple DEF Ahead, FileAt
<1>4. CASE disk[FileAt(cur, n)] = NULL
  <2>1. building'.location = building.location
    BY <1>1, <1>2, <1>4 DEF UrlSet
  <2>2. \A f \in Kept : FileAt(cur, n) # f
    BY <1>4 DEF PageInv, KeptInv
  <2> QED
    BY <1>2, <1>3, <2>1, <2>2 DEF PageInv, ScoreInv, ScanInv
<1>5. CASE disk[FileAt(cur, n)] # NULL
  <2> DEFINE new == ReadFile(n)
  <2>1. new \in FileState /\ new.dir = cur[2] /\ new.name = n
    BY <1>5, PrepareType
  <2>2. cur[2] \in Dirs
    BY <2>1 DEF FileState
  <2>3. building' = RegisterFile(building, new)
    BY <1>1, <1>5
  <2> HIDE DEF new
  <2>4. Scored(building.location[cur[2]])
    BY <2>2 DEF PageInv, ScoreInv
  <2>5. /\ \A d \in Dirs \ {cur[2]} : building'.location[d] = building.location[d]
        /\ building'.location[cur[2]].urlfiles[UrlOf[n]] # NULL
        /\ Score[n] < NoScore => building'.location[cur[2]].Index # NULL
        /\ Scored(building'.location[cur[2]])
        /\ \A u \in Urls : building.location[cur[2]].urlfiles[u] # NULL
                             => building'.location[cur[2]].urlfiles[u] # NULL
        /\ building.location[cur[2]].Index # NULL
             => building'.location[cur[2]].Index # NULL
    BY <1>2, <2>1, <2>3, <2>4, RegisterCovers
  <2>6. ScoreInv'
    BY <2>5 DEF PageInv, ScoreInv
  <2>7. ASSUME NEW f \in Kept, ~Ahead(f)' PROVE Covered(building'.location[f[2]], f)
    <3>1. CASE Ahead(f)
      <4>1. f[2] = cur[2] /\ f[3] = n
        BY <1>3, <2>7, <3>1
      <4> QED
        BY <2>5, <4>1 DEF Covered
    <3>2. CASE ~Ahead(f)
      <4>1. Covered(building.location[f[2]], f) /\ f[2] \in Dirs /\ UrlOf[f[3]] \in Urls
        BY <1>2, <3>2, KeptTriple DEF PageInv, ScanInv
      <4> QED
        BY <2>5, <4>1 DEF Covered
    <3> QED
      BY <3>1, <3>2
  <2> QED
    BY <1>2, <2>6, <2>7 DEF ScanInv
<1> QED
  BY <1>4, <1>5

(***************************************************************************)
(* A kept file that was asked for is in a location of the tree, so what is *)
(* found is that location or a longer one.                                 *)
(***************************************************************************)
LEMMA LongestCovers ==
  ASSUME TypeInv, NEW w \in Workers, pc[w] = "runlock", Complete(treeref[w]),
         NEW path \in Paths, LongestPrefix(w, path),
         NEW f \in Kept, Asks(path, f)
  PROVE  /\ match'[w] # NULL
         /\ \/ Length[match'[w]] > Length[f[2]]
            \/ match'[w] = f[2] /\ Covered(wp'[w], f)
<1>1. f[2] \in Dirs /\ UrlOf[f[3]] \in Urls
  BY KeptTriple
<1>2. Rest[path][f[2]] # NULL
  BY <1>1, UrlAssumption DEF Asks
<1>3. Covered(treeref[w].location[f[2]], f)
  BY DEF Complete
<1>4. f[2] \in Prefixes(treeref[w], path)
  BY <1>1, <1>2, <1>3 DEF Prefixes, Located, Covered
<1>5. /\ match \in [Workers -> Dirs \cup {NULL}]
      /\ wp \in [Workers -> WebLocation \cup {NULL}]
  BY DEF TypeInv, TypeOK
<1>6. PICK d \in Dirs : /\ IsLongest(d, Prefixes(treeref[w], path))
                        /\ match' = [match EXCEPT ![w] = d]
                        /\ wp' = [wp EXCEPT ![w] = treeref[w].location[d]]
  BY <1>4 DEF LongestPrefix
<1>7. match'[w] = d /\ wp'[w] = treeref[w].location[d] /\ d # NULL
  BY <1>5, <1>6, UrlAssumption
<1>8. Length[f[2]] <= Length[d] /\ Rest[path][d] # NULL
  BY <1>4, <1>6 DEF IsLongest, Prefixes
<1>9. Length[f[2]] \in Nat /\ Length[d] \in Nat
  BY <1>1, UrlAssumption
<1>10. CASE Length[d] = Length[f[2]]
  <2>1. d = f[2]
    BY <1>1, <1>2, <1>8, <1>10, RestAssumption
  <2> QED
    BY <1>3, <1>7, <2>1
<1> QED
  BY <1>7, <1>8, <1>9, <1>10

(***************************************************************************)
(* The answer that there is no page is given only for paths that no kept   *)
(* file of the location found stands behind.                               *)
(***************************************************************************)
LEMMA NoneMeansNone ==
  ASSUME NEW w \in Workers, match[w] # NULL, Status(w) = "none",
         NEW f \in Kept, match[w] = f[2], Asks(asked[w].path, f)
  PROVE  ~Covered(wp[w], f)
<1>1. UrlOf[f[3]] \in Urls /\ Itself \notin Urls
  BY KeptTriple, UrlAssumption
<1>2. \/ SubPath(w) = UrlOf[f[3]]
      \/ SubPath(w) = Itself /\ Score[f[3]] < NoScore
  BY DEF Asks, SubPath
<1>3. Lookup(w) = NULL
  BY DEF Status
<1>4. CASE SubPath(w) = Itself /\ Score[f[3]] < NoScore
  <2>1. Lookup(w) = wp[w].Index
    BY <1>1, <1>4 DEF Lookup
  <2> QED
    BY <1>3, <1>4, <2>1 DEF Covered
<1>5. CASE SubPath(w) = UrlOf[f[3]]
  <2>1. Lookup(w) = wp[w].urlfiles[UrlOf[f[3]]]
    BY <1>1, <1>5 DEF Lookup
  <2> QED
    BY <1>3, <2>1 DEF Covered
<1> QED
  BY <1>2, <1>4, <1>5

LEMMA PageNext == TypeInv /\ PageInv /\ [Next]_vars => PageInv'
<1> SUFFICES ASSUME TypeInv, PageInv, [Next]_vars PROVE PageInv'
  OBVIOUS
<1> USE DEF PageInv, diskVars, scanVars, lockVars, reqVars
<1>0. /\ pc \in [Workers -> {"idle", "blocked", "read", "runlock", "serve", "reply"}]
      /\ treeref \in [Workers -> UrlSet \cup {NULL}]
      /\ asked \in [Workers -> Requests \cup {NULL}]
  BY DEF TypeInv, TypeOK
<1>1. CASE Edit
  <2>1. ScoreInv' /\ ScanInv' /\ ServeInv' /\ FoundInv'
    BY <1>1 DEF Edit, ScoreInv, ScanInv, Ahead, ServeInv, FoundInv
  <2>2. edits + 1 # NULL /\ disk \in [Files -> Nat \cup {NULL}]
    BY UrlAssumption DEF TypeInv, TypeOK
  <2>3. PICK e \in Edits :
          \/ e[2] = "write" /\ disk' = [disk EXCEPT ![e[1]] = edits + 1]
          \/ e[2] = "remove" /\ disk' = [disk EXCEPT ![e[1]] = NULL]
    BY <1>1 DEF Edit
  <2>4. e = <<e[1], e[2]>>
    BY UrlAssumption
  <2>5. \A f \in Kept : f \in Files /\ (e[2] = "remove" => f # e[1])
    BY <2>4 DEF Kept
  <2>6. KeptInv'
    BY <2>2, <2>3, <2>5 DEF KeptInv
  <2> QED
    BY <2>1, <2>6
<1>2. CASE Update
  <2>1. KeptInv' /\ ServeInv' /\ FoundInv'
    BY <1>2 DEF Update, KeptInv, ServeInv, FoundInv
  <2>2. ScoreInv'
    BY <1>2 DEF Update, ScoreInv, Scored, EmptyUrlSet, NoLocation
  <2>3. ScanInv'
    BY <1>2, KeptTriple DEF Update, ScanInv, Ahead
  <2> QED
    BY <2>1, <2>2, <2>3
<1>3. CASE ScanTree
  <2>1. KeptInv' /\ ServeInv' /\ FoundInv' /\ ScoreInv'
    BY <1>3 DEF ScanTree, KeptInv, ServeInv, FoundInv, ScoreInv
  <2>2. upd = "scan" /\ upd' = "scan" /\ left = {} /\ building' = building
    BY <1>3 DEF ScanTree
  <2>3. PICK t \in todo : /\ cur' = t
                          /\ todo' = todo \ {t}
                          /\ left' = {n \in Names : Exists(t, n)}
    BY <1>3 DEF ScanTree
  <2>4. ASSUME NEW f \in Kept, Ahead(f) PROVE Ahead(f)'
    <3>1. CASE t = <<f[1], f[2]>>
      <4>1. Exists(t, f[3]) /\ f[3] \in Names
        BY <3>1, KeptTriple DEF Exists, FileAt, KeptInv
      <4> QED
        BY <2>3, <3>1, <4>1 DEF Ahead
    <3>2. CASE t # <<f[1], f[2]>>
      BY <2>2, <2>3, <2>4, <3>2 DEF Ahead
    <3> QED
      BY <3>1, <3>2
  <2>5. ScanInv'
    BY <2>2, <2>4 DEF ScanInv
  <2> QED
    BY <2>1, <2>5
<1>4. CASE Prepare
  <2>1. KeptInv' /\ ServeInv' /\ FoundInv'
    BY <1>4 DEF Prepare, KeptInv, ServeInv, FoundInv
  <2> QED
    BY <1>4, <2>1, PreparePages
<1>5. CASE Lock \/ Locked
  <2>1. KeptInv' /\ ScoreInv' /\ ServeInv' /\ FoundInv'
    BY <1>5 DEF Lock, Locked, KeptInv, ScoreInv, ServeInv, FoundInv
  <2>2. ScanInv'
    BY <1>5 DEF Lock, Locked, ScanInv, Ahead, Complete
  <2> QED
    BY <2>1, <2>2
<1>6. CASE Swap
  BY <1>6 DEF Swap, KeptInv, ScoreInv, ScanInv, ServeInv, FoundInv
<1>7. CASE Unlock
  <2>1. KeptInv' /\ ScoreInv' /\ ScanInv'
    BY <1>7 DEF Unlock, KeptInv, ScoreInv, Scored, ScanInv, EmptyUrlSet, NoLocation
  <2>2. \A w \in Workers : pc'[w] \in {"runlock", "serve"} => pc'[w] = pc[w]
    BY <1>0, <1>7 DEF Unlock
  <2>3. UNCHANGED <<urlset, treeref, asked, match, wp>>
    BY <1>7 DEF Unlock
  <2> QED
    BY <2>1, <2>2, <2>3 DEF ServeInv, FoundInv
<1>8. ASSUME UNCHANGED <<disk, scanVars, urlset>>
      PROVE  KeptInv' /\ ScoreInv' /\ ScanInv' /\ (urlset' # NULL => Complete(urlset'))
  BY <1>8 DEF KeptInv, ScoreInv, ScanInv, Ahead, ServeInv
<1>9. ASSUME NEW w \in Workers, RLock(w) \/ ReadNil(w) \/ Return(w) PROVE PageInv'
  <2>1. /\ UNCHANGED <<disk, scanVars, urlset, asked, treeref, match, wp>>
        /\ \A v \in Workers : pc'[v] \in {"runlock", "serve"} => pc'[v] = pc[v]
    BY <1>0, <1>9 DEF RLock, ReadNil, Return
  <2> QED
    BY <1>8, <2>1 DEF ServeInv, FoundInv
<1>10. ASSUME NEW w \in Workers, ReadTree(w) PROVE PageInv'
  <2>1. UNCHANGED <<disk, scanVars, urlset, asked, match, wp>>
    BY <1>10 DEF ReadTree
  <2>2. \A v \in Workers : pc'[v] = "serve" => pc[v] = "serve"
    BY <1>0, <1>10 DEF ReadTree
  <2>3. \A v \in Workers : pc'[v] = "runlock" => Complete(treeref'[v])
    BY <1>0, <1>10 DEF ReadTree, ServeInv
  <2> QED
    BY <1>8, <2>1, <2>2, <2>3 DEF ServeInv, FoundInv
<1>11. ASSUME NEW w \in Workers, RUnlock(w) PROVE PageInv'
  <2>1. PICK r \in Requests : /\ asked' = [asked EXCEPT ![w] = r]
                              /\ \/ r.debug /\ UNCHANGED <<match, wp>>
                                 \/ ~r.debug /\ LongestPrefix(w, r.path)
    BY <1>11 DEF RUnlock
  <2>2. r.path \in Paths
    BY UrlAssumption DEF Request
  <2>3. /\ UNCHANGED <<disk, scanVars, urlset>>
        /\ pc[w] = "runlock"
        /\ pc' = [pc EXCEPT ![w] = "serve"]
        /\ treeref' = [treeref EXCEPT ![w] = NULL]
    BY <1>11 DEF RUnlock
  <2>4. \A v \in Workers : pc'[v] = "runlock" => v # w /\ pc[v] = "runlock"
                                                 /\ treeref'[v] = treeref[v]
    BY <1>0, <2>3
  <2>5. ServeInv'
    BY <1>8, <2>3, <2>4 DEF ServeInv
  <2>6. Complete(treeref[w])
    BY <2>3 DEF ServeInv
  <2>7. asked'[w] = r
    BY <1>0, <2>1
  <2>8. \A v \in Workers \ {w} : /\ pc'[v] = pc[v] /\ asked'[v] = asked[v]
                                 /\ match'[v] = match[v] /\ wp'[v] = wp[v]
    BY <1>0, <2>1, <2>3, LongestType
  <2>9. ASSUME NEW v \in Workers, pc'[v] = "serve", ~asked'[v].debug,
               NEW f \in Kept, Asks(asked'[v].path, f)
        PROVE  /\ match'[v] # NULL
               /\ \/ Length[match'[v]] > Length[f[2]]
                  \/ match'[v] = f[2] /\ Covered(wp'[v], f)
    <3>1. CASE v = w
      <4>1. ~r.debug /\ LongestPrefix(w, r.path) /\ Asks(r.path, f)
        BY <2>1, <2>7, <2>9, <3>1
      <4> QED
        BY <2>2, <2>3, <2>6, <3>1, <4>1, LongestCovers
    <3>2. CASE v # w
      BY <2>8, <2>9, <3>2 DEF FoundInv
    <3> QED
      BY <3>1, <3>2
  <2>10. FoundInv'
    BY <2>9 DEF FoundInv, Asks, Covered
  <2> QED
    BY <1>8, <2>3, <2>5, <2>10
<1>12. ASSUME NEW w \in Workers, NEW code, Reply(w, code) PROVE PageInv'
  <2>1. UNCHANGED <<disk, scanVars, urlset, treeref>>
    BY <1>12 DEF Reply
  <2>2. \A v \in Workers : pc'[v] \in {"runlock", "serve"} => v # w /\ pc'[v] = pc[v]
    BY <1>0, <1>12 DEF Reply
  <2>3. \A v \in Workers \ {w} : /\ asked'[v] = asked[v]
                                 /\ match'[v] = match[v] /\ wp'[v] = wp[v]
    <3>1. /\ match \in [Workers -> Dirs \cup {NULL}]
          /\ wp \in [Workers -> WebLocation \cup {NULL}]
      BY DEF TypeInv, TypeOK
    <3> QED
      BY <1>0, <1>12, <3>1 DEF Reply
  <2> QED
    BY <1>8, <2>1, <2>2, <2>3 DEF ServeInv, FoundInv
<1>13. ASSUME NEW w \in Workers, Dump(w) \/ Process(w) PROVE PageInv'
  BY <1>12, <1>13 DEF Dump, Process
<1>14. CASE UNCHANGED vars
  BY <1>14 DEF vars, KeptInv, ScoreInv, ScanInv, Ahead, ServeInv, FoundInv
<1> QED
  BY <1>1, <1>2, <1>3, <1>4, <1>5, <1>6, <1>7, <1>9, <1>10, <1>11, <1>13, <1>14
  DEF Next, Scan, Handle

(***************************************************************************)
(* Only Process answers that there is no page.                             *)
(***************************************************************************)
LEMMA OnlyProcessSaysNone ==
  ASSUME TypeInv, [Next]_vars, NEW w \in Workers, pc[w] = "serve", answer'[w] = "none"
  PROVE  ~asked[w].debug /\ Status(w) = "none"
<1> USE DEF diskVars, scanVars, lockVars, reqVars
<1>1. answer \in [Workers -> Answers] /\ answer[w] = ""
  BY DEF TypeInv, TypeOK, Serves
<1>2. ASSUME NEW v \in Workers, Dump(v) \/ Process(v)
      PROVE  v = w /\ Process(v) /\ Status(w) = "none"
  <2>1. PICK code \in {"dump", Status(v)} :
          answer' = [answer EXCEPT ![v] = code] /\ (code = "dump" \/ Process(v))
    BY <1>2 DEF Dump, Process, Reply
  <2>2. v = w /\ code = "none"
    BY <1>1, <2>1
  <2> QED
    BY <2>1, <2>2
<1>3. ASSUME NEW v \in Workers, ReadNil(v) PROVE FALSE
  BY <1>1, <1>3 DEF ReadNil
<1>4. ASSUME NEW v \in Workers, Return(v) PROVE FALSE
  BY <1>1, <1>4 DEF Return
<1>5. ASSUME NEW v \in Workers, RLock(v) \/ ReadTree(v) \/ RUnlock(v) PROVE FALSE
  BY <1>1, <1>5 DEF RLock, ReadTree, RUnlock
<1>6. ~(Edit \/ Scan \/ UNCHANGED vars)
  BY <1>1 DEF Edit, Scan, Update, ScanTree, Prepare, Lock, Locked, Swap, Unlock, vars
<1> QED
  BY <1>2, <1>3, <1>4, <1>5, <1>6 DEF Next, Handle, Process

(***************************************************************************)
(* A page that is never removed is never missing: whatever is scanned,     *)
(* swapped or edited, what is asked for is found, or hidden by a longer    *)
(* directory with which it begins.                                         *)
(***************************************************************************)
THEOREM PagesNeverVanish == Spec => PagesStay
<1>1. TypeInv /\ PageInv /\ [Next]_vars =>
        [ \A w \in Workers : pc[w] = "serve" /\ answer'[w] = "none" =>
            \A f \in Kept : Asks(asked[w].path, f) =>
              match[w] # NULL /\ Length[match[w]] > Length[f[2]] ]_vars
  <2> SUFFICES ASSUME TypeInv, PageInv, [Next]_vars,
                      NEW w \in Workers, pc[w] = "serve", answer'[w] = "none",
                      NEW f \in Kept, Asks(asked[w].path, f)
               PROVE  match[w] # NULL /\ Length[match[w]] > Length[f[2]]
    OBVIOUS
  <2>1. ~asked[w].debug /\ Status(w) = "none"
    BY OnlyProcessSaysNone
  <2> QED
    BY <2>1, NoneMeansNone DEF PageInv, FoundInv
<1> QED
  BY <1>1, PageInit, PageNext, TypeInvariant, PTL DEF Spec, PagesStay
=============================================================================
