SPECIFICATION FairSpec
CONSTANTS
  t1 = t1  t2 = t2
  Null = Null
  Thread = {t1, t2}
  Slot = {s1, s2}
  s1 = s1  s2 = s2
  MaxProcess = 4
  MaxForks = 2
  MaxClones = 1
  Programs <- Deadlock_Programs
  Interruptible = FALSE
PROPERTY DeathNoticed
CHECK_DEADLOCK FALSE
