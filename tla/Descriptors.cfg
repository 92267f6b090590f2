SPECIFICATION Spec
CONSTANTS
  Fd = {0, 1}
  File = {1, 2}
  NoFile = 0
  Proc = {"parent", "child"}
  Parent = "parent"
  Child = "child"
  Thread <- Threads
  Home <- Homes
  ValueBits = 2
  Counts = {0, 2}
  Inputs = {1}
  Kinds <- AllKinds
  MaxCalls = 5
INVARIANTS   NothingLost
PROPERTY ReadersWake
CHECK_DEADLOCK FALSE
