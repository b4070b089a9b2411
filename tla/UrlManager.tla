----------------------------- MODULE UrlManager -----------------------------
(***************************************************************************)
(* The pages served from the file system: server/urlmanager.go.  A single  *)
(* goroutine scans the directories of the configuration again and again,   *)
(* builds a new UrlSet and swaps the pointer to it under a lock; requests  *)
(* take the tree under the same lock, and serve from it without.           *)
(*                                                                         *)
(* The tree has a location for each directory with a file, under its path  *)
(* below the root: directories of one path under two roots are one         *)
(* location.  A request is for the location whose path is the longest      *)
(* prefix of what was asked, byte by byte: /READ is one of /README.        *)
(*                                                                         *)
(* The lock is sync.RWMutex: a writer that waits makes the readers that    *)
(* come after it wait too, and all of those go before the next writer.     *)
(***************************************************************************)
EXTENDS Integers, FiniteSets

CONSTANTS
  Workers,        \* goroutines serving requests
  Roots,          \* the keys of options.Paths
  Dirs,           \* the directories below the roots, "" for a root itself
  Length,         \* of the path of each directory, in bytes
  Names,          \* the file names
  Place,          \* their places in the listing of a directory
  UrlOf,          \* the name each file is registered under
  Score,          \* its place in Indexes, and NoScore for none
  NoScore,        \* math.MaxInt32
  Users,          \* who may ask
  Viewers,        \* the users the configuration of each root lets read
  Paths,          \* the paths that may be asked, as path.Clean gives them
  Rest,           \* what is left of a path after that of a directory and
                  \* without slashes, NULL if it does not begin with it
  Requests,       \* the requests that may come
  Files,          \* the files there may be: root, directory and name
  Edits,          \* how they may change: each with what is done to it
  MaxEdits,       \* bound: how often they change
  NULL

Urls == {UrlOf[n] : n \in Names}

\* Nothing is left: the path is that of the directory.
Itself == ""

\* The files that are never removed, though they may be written again.
Kept == {f \in Files : <<f, "remove">> \notin Edits}

\* The directories of each root.
Trees == {<<f[1], f[2]>> : f \in Files}

\* FileState: the file and what the renderer read of it.
FileState == [root : Roots, dir : Dirs, name : Names, version : Nat]

\* A WebLocation with its DirState.
WebLocation == [Index : FileState \cup {NULL}, IndexScore : 0 .. NoScore,
                urlfiles : [Urls -> FileState \cup {NULL}]]

\* The tree, and the errors of the scan.
UrlSet == [location : [Dirs -> WebLocation], errors : SUBSET Files]

\* A directory has no location before its first file.
NoLocation == [Index |-> NULL, IndexScore |-> NoScore, urlfiles |-> [u \in Urls |-> NULL]]

EmptyUrlSet == [location |-> [d \in Dirs |-> NoLocation], errors |-> {}]

\* slash: whether the path ends with one before it is cleaned.
Request == [path : Paths, slash : BOOLEAN, user : Users, debug : BOOLEAN]

ASSUME UrlAssumption ==
  /\ Workers # {} /\ Roots # {}
  /\ Place \in [Names -> Nat]
  /\ \A m, n \in Names : Place[m] = Place[n] => m = n
  /\ DOMAIN UrlOf = Names
  /\ Itself \notin Urls
  /\ Length \in [Dirs -> Nat]
  /\ NoScore \in Nat
  /\ Score \in [Names -> 0 .. NoScore]
  /\ Viewers \in [Roots -> SUBSET Users]
  /\ Requests \subseteq Request
  /\ Files \subseteq Roots \X Dirs \X Names
  /\ Edits \subseteq Files \X {"write", "remove"}
  /\ MaxEdits \in Nat
  /\ NULL \notin Nat \cup FileState \cup WebLocation \cup UrlSet
  /\ NULL \notin Dirs \cup Urls \cup {Itself}
  /\ NULL \notin Trees /\ NULL \notin Requests

\* Two directories that a path begins with are one if they are as long.
ASSUME RestAssumption ==
  /\ \A p \in Paths : DOMAIN Rest[p] = Dirs
  /\ \A p \in Paths : \A d, e \in Dirs :
       Rest[p][d] # NULL /\ Rest[p][e] # NULL /\ Length[d] = Length[e] => d = e

VARIABLES
  disk,       \* the version of each file, NULL if it does not exist
  edits,      \* how often the disk has changed
  \* The goroutine of Update.
  upd,        \* where it is
  todo,       \* the directories to scan, with their roots
  cur,        \* the one being scanned
  left,       \* the names listed there and not registered yet
  building,   \* the UrlSet under construction
  \* Shared by all.
  urlset,     \* the pointer: NULL before the first scan ends
  readers,    \* the requests that hold the lock for reading
  leaked,     \* whether a request that is over still holds it
  \* The local state of each request.
  pc, asked, treeref,
  match, wp,  \* the directory and the location found, NULL if none
  answer

diskVars == <<disk, edits>>
scanVars == <<upd, todo, cur, left, building>>
lockVars == <<urlset, readers, leaked>>
reqVars  == <<pc, asked, treeref, match, wp, answer>>
vars     == <<diskVars, scanVars, lockVars, reqVars>>

Answers == {"", "page", "redirect", "login", "none", "dump", "500"}

TypeOK ==
  /\ disk \in [Files -> Nat \cup {NULL}]
  /\ edits \in 0 .. MaxEdits
  /\ upd \in {"sleep", "scan", "waiting", "swap", "unlock"}
  /\ todo \subseteq Trees
  /\ cur \in Trees \cup {NULL}
  /\ left \subseteq Names
  /\ building \in UrlSet
  /\ urlset \in UrlSet \cup {NULL}
  /\ readers \subseteq Workers
  /\ leaked \in BOOLEAN
  /\ pc \in [Workers -> {"idle", "blocked", "read", "runlock", "serve", "reply"}]
  /\ asked \in [Workers -> Requests \cup {NULL}]
  /\ treeref \in [Workers -> UrlSet \cup {NULL}]
  /\ match \in [Workers -> Dirs \cup {NULL}]
  /\ wp \in [Workers -> WebLocation \cup {NULL}]
  /\ answer \in [Workers -> Answers]

Init ==
  /\ disk \in [Files -> {0, NULL}]
  /\ \A f \in Kept : disk[f] = 0
  /\ edits = 0
  /\ upd = "sleep"
  /\ todo = {}
  /\ cur = NULL
  /\ left = {}
  /\ building = EmptyUrlSet
  /\ urlset = NULL
  /\ readers = {}
  /\ leaked = FALSE
  /\ pc = [w \in Workers |-> "idle"]
  /\ asked = [w \in Workers |-> NULL]
  /\ treeref = [w \in Workers |-> NULL]
  /\ match = [w \in Workers |-> NULL]
  /\ wp = [w \in Workers |-> NULL]
  /\ answer = [w \in Workers |-> ""]

-----------------------------------------------------------------------------
(***************************************************************************)
(* The authors of the pages write, replace and remove files.               *)
(***************************************************************************)
Edit ==
  /\ edits < MaxEdits
  /\ edits' = edits + 1
  /\ \E e \in Edits :
       \/ e[2] = "write" /\ disk' = [disk EXCEPT ![e[1]] = edits + 1]
       \/ /\ e[2] = "remove"
          /\ disk[e[1]] # NULL
          /\ disk' = [disk EXCEPT ![e[1]] = NULL]
  /\ UNCHANGED <<scanVars, lockVars, reqVars>>

-----------------------------------------------------------------------------
(***************************************************************************)
(* RegisterFile: the best index so far is kept, then the file gets its url *)
(* unless another one has it, which is an error of the scan.  So a file    *)
(* that is not registered may still be the index of its directory.         *)
(***************************************************************************)
Elect(l, f) ==
  [l EXCEPT !.Index      = IF Score[f.name] < l.IndexScore THEN f ELSE @,
            !.IndexScore = IF Score[f.name] < l.IndexScore THEN Score[f.name] ELSE @]

\* Faulty variant, for the mutation runs: the newcomer takes the url.
RegisterLast(s, f) ==
  LET l == Elect(s.location[f.dir], f) IN
  [location |-> [s.location EXCEPT ![f.dir] = [l EXCEPT !.urlfiles[UrlOf[f.name]] = f]],
   errors   |-> IF l.urlfiles[UrlOf[f.name]] = NULL THEN s.errors
                ELSE s.errors \cup {<<f.root, f.dir, f.name>>}]

RegisterFile(s, f) ==
  LET l == Elect(s.location[f.dir], f) IN
  [location |-> [s.location EXCEPT ![f.dir] =
                   [l EXCEPT !.urlfiles[UrlOf[f.name]] = IF @ = NULL THEN f ELSE @]],
   errors   |-> IF l.urlfiles[UrlOf[f.name]] = NULL THEN s.errors
                ELSE s.errors \cup {<<f.root, f.dir, f.name>>}]

(***************************************************************************)
(* Update: a scan of every root into a new UrlSet, one after the other in  *)
(* the order in which Go happens to go through the map, then the swap.     *)
(***************************************************************************)
\* Faulty variant: the UrlSet being served is emptied and filled again.
UpdateInPlace ==
  /\ upd = "sleep"
  /\ upd' = "scan"
  /\ todo' = Trees
  /\ building' = EmptyUrlSet
  /\ urlset' = IF urlset = NULL THEN NULL ELSE EmptyUrlSet
  /\ UNCHANGED <<diskVars, cur, left, readers, leaked, reqVars>>

Update ==
  /\ upd = "sleep"
  /\ upd' = "scan"
  /\ todo' = Trees
  /\ building' = EmptyUrlSet
  /\ UNCHANGED <<diskVars, cur, left, lockVars, reqVars>>

\* The file of a name in the directory being scanned.
FileAt(t, n) == <<t[1], t[2], n>>

Exists(t, n) == FileAt(t, n) \in Files /\ disk[FileAt(t, n)] # NULL

ScanTree ==
  /\ upd = "scan"
  /\ left = {}
  /\ \E t \in todo :
       /\ \A s \in todo : cur # NULL /\ s[1] = cur[1] => t[1] = cur[1]
       /\ cur' = t
       /\ todo' = todo \ {t}
       /\ left' = {n \in Names : Exists(t, n)}
  /\ UNCHANGED <<diskVars, upd, building, lockVars, reqVars>>

\* The next file of the listing.
Listed(n) == n \in left /\ \A m \in left : Place[n] <= Place[m]

ReadFile(n) ==
  [root |-> cur[1], dir |-> cur[2], name |-> n, version |-> disk[FileAt(cur, n)]]

\* Faulty variant: the error of the reading is not looked at.
PrepareUnread ==
  /\ upd = "scan"
  /\ \E n \in left :
       /\ Listed(n)
       /\ left' = left \ {n}
       /\ building' = RegisterFile(building, ReadFile(n))
  /\ UNCHANGED <<diskVars, upd, todo, cur, lockVars, reqVars>>

\* Prepare reads the file listed before, which may be gone, and registers it.
Prepare ==
  /\ upd = "scan"
  /\ \E n \in left :
       /\ Listed(n)
       /\ left' = left \ {n}
       /\ building' = IF disk[FileAt(cur, n)] = NULL
                      THEN [building EXCEPT !.errors = @ \cup {FileAt(cur, n)}]
                      ELSE RegisterFile(building, ReadFile(n))
  /\ UNCHANGED <<diskVars, upd, todo, cur, lockVars, reqVars>>

\* The scan is over.  ulock.Lock: from now on readers wait; it waits for those
\* that have the lock.
Lock ==
  /\ upd = "scan"
  /\ left = {}
  /\ todo = {}
  /\ upd' = "waiting"
  /\ UNCHANGED <<diskVars, todo, cur, left, building, lockVars, reqVars>>

Locked ==
  /\ upd = "waiting"
  /\ readers = {}
  /\ ~leaked
  /\ upd' = "swap"
  /\ UNCHANGED <<diskVars, todo, cur, left, building, lockVars, reqVars>>

Swap ==
  /\ upd = "swap"
  /\ urlset' = building
  /\ upd' = "unlock"
  /\ UNCHANGED <<diskVars, todo, cur, left, building, readers, leaked, reqVars>>

\* ulock.Unlock hands the lock to all the readers that wait; then Update
\* returns, its local state is gone, and its goroutine sleeps.
Unlock ==
  /\ upd = "unlock"
  /\ upd' = "sleep"
  /\ cur' = NULL
  /\ building' = EmptyUrlSet
  /\ readers' = {w \in Workers : pc[w] = "blocked"}
  /\ pc' = [w \in Workers |-> IF pc[w] = "blocked" THEN "read" ELSE pc[w]]
  /\ UNCHANGED <<diskVars, todo, left, urlset, leaked, asked, treeref, match, wp, answer>>

-----------------------------------------------------------------------------
(***************************************************************************)
(* A request: Process, or Debug, which does all its reading under the      *)
(* lock.                                                                   *)
(***************************************************************************)
WriterPending == upd \in {"waiting", "swap", "unlock"}

\* Faulty variant: the lock is not taken.
ReadUnlocked(w) ==
  /\ pc[w] = "idle"
  /\ pc' = [pc EXCEPT ![w] = "read"]
  /\ UNCHANGED <<diskVars, scanVars, lockVars, asked, treeref, match, wp, answer>>

\* gin hands a request to a goroutine, which begins with ulock.RLock.
RLock(w) ==
  /\ pc[w] = "idle"
  /\ \/ /\ ~WriterPending
        /\ readers' = readers \cup {w}
        /\ pc' = [pc EXCEPT ![w] = "read"]
     \/ /\ WriterPending
        /\ pc' = [pc EXCEPT ![w] = "blocked"]
        /\ UNCHANGED readers
  /\ UNCHANGED <<diskVars, scanVars, urlset, leaked, asked, treeref, match, wp, answer>>

\* treeref := um.urlset.tree
ReadTree(w) ==
  /\ pc[w] = "read"
  /\ urlset # NULL
  /\ treeref' = [treeref EXCEPT ![w] = urlset]
  /\ pc' = [pc EXCEPT ![w] = "runlock"]
  /\ UNCHANGED <<diskVars, scanVars, lockVars, asked, match, wp, answer>>

\* um.urlset is nil: gin recovers from the panic, and nobody unlocks.
ReadNil(w) ==
  /\ pc[w] = "read"
  /\ urlset = NULL
  /\ readers' = readers \ {w}
  /\ leaked' = TRUE
  /\ pc' = [pc EXCEPT ![w] = "reply"]
  /\ answer' = [answer EXCEPT ![w] = "500"]
  /\ UNCHANGED <<diskVars, scanVars, urlset, asked, treeref, match, wp>>

Located(tree, d) == \E u \in Urls : tree.location[d].urlfiles[u] # NULL

\* The locations whose path the asked one begins with.
Prefixes(tree, path) == {d \in Dirs : Rest[path][d] # NULL /\ Located(tree, d)}

IsLongest(d, S) == d \in S /\ \A e \in S : Length[e] <= Length[d]

\* The location of the longest prefix.  What is missing there is not looked for
\* at a shorter one.
LongestPrefix(w, path) ==
  \/ /\ Prefixes(treeref[w], path) = {}
     /\ UNCHANGED <<match, wp>>
  \/ \E d \in Dirs :
       /\ IsLongest(d, Prefixes(treeref[w], path))
       /\ match' = [match EXCEPT ![w] = d]
       /\ wp' = [wp EXCEPT ![w] = treeref[w].location[d]]

\* Faulty variant: Debug returns with the lock.
DebugKeepsLock(w) ==
  /\ pc[w] = "runlock"
  /\ \E r \in Requests :
       /\ asked' = [asked EXCEPT ![w] = r]
       /\ readers' = IF r.debug THEN readers ELSE readers \ {w}
       /\ \/ r.debug /\ UNCHANGED <<match, wp>>
          \/ ~r.debug /\ LongestPrefix(w, r.path)
  /\ pc' = [pc EXCEPT ![w] = "serve"]
  /\ treeref' = [treeref EXCEPT ![w] = NULL]
  /\ UNCHANGED <<diskVars, scanVars, urlset, leaked, answer>>

\* ulock.RUnlock; then the location is found in the tree taken, which nobody
\* changes any more.  What was asked is not looked at before, and chosen here.
RUnlock(w) ==
  /\ pc[w] = "runlock"
  /\ readers' = readers \ {w}
  /\ \E r \in Requests :
       /\ asked' = [asked EXCEPT ![w] = r]
       /\ \/ r.debug /\ UNCHANGED <<match, wp>>
          \/ ~r.debug /\ LongestPrefix(w, r.path)
  /\ pc' = [pc EXCEPT ![w] = "serve"]
  /\ treeref' = [treeref EXCEPT ![w] = NULL]
  /\ UNCHANGED <<diskVars, scanVars, urlset, leaked, answer>>

\* The answer is written, and the handler has nothing left.
Reply(w, code) ==
  /\ pc' = [pc EXCEPT ![w] = "reply"]
  /\ answer' = [answer EXCEPT ![w] = code]
  /\ asked' = [asked EXCEPT ![w] = NULL]
  /\ match' = [match EXCEPT ![w] = NULL]
  /\ wp' = [wp EXCEPT ![w] = NULL]
  /\ UNCHANGED <<diskVars, scanVars, lockVars, treeref>>

Dump(w) == pc[w] = "serve" /\ asked[w].debug /\ Reply(w, "dump")

\* What is left of the asked path, and the file it stands for, NULL if none.
SubPath(w) == Rest[asked[w].path][match[w]]

Lookup(w) ==
  CASE SubPath(w) = Itself  -> wp[w].Index
    [] SubPath(w) \in Urls -> wp[w].urlfiles[SubPath(w)]
    [] OTHER                -> NULL

\* A directory without its slash; where there is a location there is a file.
IsRedirect(w) == SubPath(w) = Itself /\ ~asked[w].slash

Status(w) ==
  IF match[w] = NULL THEN "none"
  ELSE IF IsRedirect(w) THEN "redirect"
  ELSE IF Lookup(w) = NULL THEN "none"
  ELSE IF asked[w].user \in Viewers[Lookup(w).root] THEN "page" ELSE "login"

Process(w) == pc[w] = "serve" /\ ~asked[w].debug /\ Reply(w, Status(w))

Return(w) ==
  /\ pc[w] = "reply"
  /\ pc' = [pc EXCEPT ![w] = "idle"]
  /\ answer' = [answer EXCEPT ![w] = ""]
  /\ UNCHANGED <<diskVars, scanVars, lockVars, asked, treeref, match, wp>>

-----------------------------------------------------------------------------
Scan == Update \/ ScanTree \/ Prepare \/ Lock \/ Locked \/ Swap \/ Unlock

Handle(w) ==
  \/ ReadTree(w) \/ ReadNil(w) \/ RUnlock(w)
  \/ Dump(w) \/ Process(w) \/ Return(w)

Next == Edit \/ Scan \/ \E w \in Workers : RLock(w) \/ Handle(w)

Spec == Init /\ [][Next]_vars

(***************************************************************************)
(* The Go scheduler runs every goroutine that can go on.  Nothing makes    *)
(* anybody ask for a page, or change a file.                               *)
(***************************************************************************)
FairSpec == Spec /\ WF_vars(Scan) /\ \A w \in Workers : WF_vars(Handle(w))
-----------------------------------------------------------------------------
(***************************************************************************)
(* "to prevent the swap from happening while accessing the pointer"        *)
(* (urlmanager.go:214-216): no request is between its RLock and its        *)
(* RUnlock while Update swaps.                                             *)
(***************************************************************************)
SwapIsExclusive ==
  upd \in {"swap", "unlock"} => \A w \in Workers : pc[w] \notin {"read", "runlock"}

(***************************************************************************)
(* A page that is never removed is never missing, whatever scan or change  *)
(* of the files is going on: its url, and its directory when it can be the *)
(* index, always have something to serve, unless the location found is     *)
(* that of a longer directory with which the asked path begins in bytes.   *)
(***************************************************************************)
Asks(path, f) ==
  \/ Rest[path][f[2]] = UrlOf[f[3]]
  \/ Rest[path][f[2]] = Itself /\ Score[f[3]] < NoScore

PagesStay ==
  [][ \A w \in Workers : pc[w] = "serve" /\ answer'[w] = "none" =>
        \A f \in Kept : Asks(asked[w].path, f) =>
          match[w] # NULL /\ Length[match[w]] > Length[f[2]] ]_vars

(***************************************************************************)
(* What a scan of an undisturbed disk should publish, when the roots are   *)
(* taken in some order: each url of a directory is the first file that     *)
(* claims it, the index is the first of its best scored files, the others  *)
(* are errors.                                                             *)
(***************************************************************************)
OnDisk ==
  {[root |-> x[1], dir |-> x[2], name |-> x[3], version |-> disk[x]] :
     x \in {y \in Files : disk[y] # NULL}}

First(S, order) ==
  CHOOSE f \in S : \A g \in S \ {f} :
    \/ order[f.root] < order[g.root]
    \/ f.root = g.root /\ Place[f.name] < Place[g.name]

Best(d) == {f \in OnDisk : /\ f.dir = d /\ Score[f.name] < NoScore
                           /\ \A g \in OnDisk : g.dir = d => Score[f.name] <= Score[g.name]}

ForUrl(d, u) == {f \in OnDisk : f.dir = d /\ UrlOf[f.name] = u}

Published(order) ==
  /\ \A d \in Dirs :
       /\ urlset.location[d].Index = IF Best(d) = {} THEN NULL ELSE First(Best(d), order)
       /\ urlset.location[d].urlfiles =
            [u \in Urls |-> IF ForUrl(d, u) = {} THEN NULL ELSE First(ForUrl(d, u), order)]
  /\ urlset.errors = {<<f.root, f.dir, f.name>> : f \in
       {g \in OnDisk : g # First(ForUrl(g.dir, UrlOf[g.name]), order)}}

Orders ==
  {order \in [Roots -> 1 .. Cardinality(Roots)] :
     \A r, s \in Roots : order[r] = order[s] => r = s}

(***************************************************************************)
(* Unless a request came before the first scan ended (ReadNil), what is    *)
(* served is, and stays, what the files say once they stop changing,       *)
(* however many requests keep coming.                                      *)
(***************************************************************************)
UpToDate == urlset # NULL /\ \E order \in Orders : Published(order)

FreshUnlessLeaked == <>[](leaked \/ UpToDate)

(***************************************************************************)
(* With the same exception every request is answered: those that wait for  *)
(* the lock behind a writer go before the next one.                        *)
(***************************************************************************)
AnsweredUnlessLeaked ==
  \A w \in Workers : pc[w] # "idle" ~> (pc[w] = "idle" \/ leaked)

(***************************************************************************)
(* Violated by the code.  goospel.go:285-287: the handler "uses an         *)
(* internal router created and updated dynamically from the list of        *)
(* documents".  A request that comes before the first scan ends keeps the  *)
(* lock for ever, and with it Update and every later request.              *)
(***************************************************************************)
FreshInTheEnd == <>[]UpToDate
=============================================================================
