---------------------------- MODULE MCUrlManager ----------------------------
(***************************************************************************)
(* README.html and README.md claim the same url, under two roots, so that  *)
(* either may be scanned first; the default Indexes prefer the second one. *)
(* A directory READ may be there as well, with a README.html of its own:   *)
(* its path is a prefix of that of their page.                             *)
(***************************************************************************)
EXTENDS UrlManager, TLC

CONSTANTS w1, w2, site, docs, html, md

MCDirs     == {"", "/READ"}
MCLength   == ("" :> 0) @@ ("/READ" :> 5)
MCPlace    == (html :> 1) @@ (md :> 2)
MCUrlOf    == [n \in {html, md} |-> "README"]
MCNoScore  == 9
MCScore    == (html :> 3) @@ (md :> 1)
MCFiles    == {<<site, "", html>>, <<docs, "", md>>, <<docs, "/READ", html>>}
MCEdits    == {<< <<docs, "", md>>, "write" >>,
               << <<docs, "/READ", html>>, "remove" >>}
MCUsers    == {"mario", "anna"}
MCViewers  == (site :> {"mario"}) @@ (docs :> {"mario", "anna"})

Left(root, read) == ("" :> root) @@ ("/READ" :> read)

MCPaths == {"/", "/README", "/READ", "/READ/README"}
MCRest ==
  ("/"            :> Left(Itself, NULL)) @@
  ("/README"      :> Left("README", "ME")) @@
  ("/READ"        :> Left("READ", Itself)) @@
  ("/READ/README" :> Left("READ/README", "README"))

Ask(p, s, u) == [path |-> p, slash |-> s, user |-> u, debug |-> FALSE]

MCRequests == { Ask("/", TRUE, "anna"), Ask("/README", FALSE, "mario"),
                Ask("/READ", FALSE, "mario"),
                [path |-> "/", slash |-> TRUE, user |-> "anna", debug |-> TRUE] }
=============================================================================
