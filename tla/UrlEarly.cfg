CONSTANTS
  w1 = w1  w2 = w2  site = site  docs = docs  html = html  md = md
  NULL = NULL
  Workers = {w1}
  Roots = {site, docs}
  Names = {html, md}
  Dirs <- MCDirs
  Length <- MCLength
  Place <- MCPlace
  UrlOf <- MCUrlOf
  Score <- MCScore
  NoScore <- MCNoScore
  Users <- MCUsers
  Viewers <- MCViewers
  Paths <- MCPaths
  Rest <- MCRest
  Requests <- MCRequests
  Files <- MCFiles
  Edits <- MCEdits
  MaxEdits = 0
SPECIFICATION FairSpec
PROPERTY FreshInTheEnd
CHECK_DEADLOCK FALSE
