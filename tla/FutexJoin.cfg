SPECIFICATION JSpec
CONSTANTS
  w1 = w1  k1 = k1  k2 = k2  k3 = k3
  a = a  b = b  c = c
  Thread = {w1, k1, k2, k3}
  Addr = {a, b, c}
  Val <- MC_Val
  NBuckets = 2
  Hash <- MC_Hash
  Null = Null  NoAddr = NoAddr  NoVal = NoVal
  Calls <- Join_Calls
  Stores = {}
  InitMem <- MC_InitMem
  MaxCalls = 2
  Joiner = {w1}
PROPERTIES JoinReturns BucketsGranted
CHECK_DEADLOCK FALSE
