CONSTANTS
  w1 = w1  w2 = w2  site = site  docs = docs  html = html  md = md
  NULL = NULL
  Workers = {w1, w2}
  Roots = {site, docs}
  Names = {html, md}
  Dirs <- MCDirs
  Length <- MCLength
  Place <- MCPlace
  UrlOf <- MCUrlOf
  Score <- MCScore
  NoScore <- MCNoScore
  Users <- MCUsers
  Viewers <- MCViewers
  Paths <- MCPaths
  Rest <- MCRest
  Requests <- MCRequests
  Files <- MCFiles
  Edits <- MCEdits
  MaxEdits = 1
SPECIFICATION FairSpec
INVARIANT TypeOK
INVARIANT SwapIsExclusive
PROPERTY PagesStay
PROPERTY FreshUnlessLeaked
PROPERTY AnsweredUnlessLeaked
\* A request before the first scan stops everything: see UrlEarly.
CHECK_DEADLOCK FALSE
