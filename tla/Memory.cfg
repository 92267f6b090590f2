SPECIFICATION Spec
CONSTANTS
  Proc = {1, 2}
  FirstProc = 1
  PagesPerBlock = 2
  Page <- Small_Page
  LowPage = 2
  HighPage = 6
  Section = {1, 2, 3, 4, 5}
  BrkBase = 4
  Maps <- Small_Maps
  Ranges <- Small_Ranges
  Prots <- Small_Prots
  Breaks = {4, 5}
  MaxCalls = 3
  MaxEntries = 4
  WildPages = {5}
INVARIANTS EntriesDisjoint ContentMatches WritersOwn FaultsResolved HandlesExact
CHECK_DEADLOCK FALSE
