SPECIFICATION PagesSpec
CONSTANTS
  Services = {s}
  Machines = {k}
  MaxLines = 1
  Models = {m}
  Default = Default
  MaxGen = 1
  MaxReloads = 1
  f = f
  g = g
  d = d
  Files = {f, g}
  Folders = {d}
  Home <- MCHome
  Stored = {f, g}
  MaxEdits = 2
  MaxAsks = 2
  MaxMoves = 1
  Subjects = {a, b}
  MaxClicks = 3
  MaxDrafts = 2
  MaxVisits = 2
INVARIANTS
  SentAsShown
  RunsAsChosen
  FilesKeepText
  BelongTogether
  EitherSuffices
  SectionsStay
PROPERTIES
  SavesInOrder
CHECK_DEADLOCK FALSE
