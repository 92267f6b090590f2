SPECIFICATION Spec
CONSTANTS
  w1 = w1  w2 = w2  k1 = k1  k2 = k2
  a = a  b = b  c = c
  Thread = {w1, w2, k1}
  Addr = {a, c}
  Val <- MC_Val
  NBuckets = 2
  Hash <- MC_Hash
  Null = Null  NoAddr = NoAddr  NoVal = NoVal
  Calls <- Stale_Calls
  Stores = {}
  InitMem <- MC_Zero
INVARIANT AbortRemovesUs
CHECK_DEADLOCK FALSE
