SPECIFICATION Spec
CONSTANTS
  Proc = {1}
  FirstProc = 1
  PagesPerBlock = 1
  Page <- Wild_Page
  LowPage = 1
  HighPage = 4
  Section = {1, 2, 3}
  BrkBase = 1
  Maps <- Wild_Maps
  Ranges = {}
  Prots = {}
  Breaks = {}
  MaxCalls = 1
  MaxEntries = 2
  WildPages = {2}
INVARIANTS ContentMatches
CHECK_DEADLOCK FALSE
