SPECIFICATION Spec
CONSTANTS
  w1 = w1  w2 = w2  k1 = k1  k2 = k2
  a = a  b = b  c = c
  Thread = {w1, w2, k1}
  Addr = {a, b, c}
  Val <- MC_Val
  NBuckets = 2
  Hash <- MC_Hash
  Null = Null  NoAddr = NoAddr  NoVal = NoVal
  Calls <- Mixed_Calls
  Stores <- Mixed_Stores
  InitMem <- MC_Zero
INVARIANTS TypeOK BucketExclusion ListsExact NoStaleWake BlocksAlive WakeComplete
PROPERTY ImplementsQueue
CHECK_DEADLOCK FALSE
