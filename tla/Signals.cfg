SPECIFICATION FairSpec
CONSTANTS
  t1 = t1  t2 = t2  usr1 = usr1  usr2 = usr2
  None = None
  Thread = {t1, t2}
  ThreadList <- Two_Threads
  Sig = {usr1, usr2}
  Fatal = {usr2}
  Programs <- All_Programs
  MaxCalls = 2
  PipeRoom = 3
INVARIANTS EventMatches HandlerFirst NoReentry MaskRestored
PROPERTIES NoSignalLost ProcmaskDelivers HandlerRuns
CHECK_DEADLOCK FALSE
