SPECIFICATION Spec
CONSTANTS
  Node = {1, 2, 3, 4, 5, 6, 7, 8, 9}
  KeyOf <- MCKeyOf
  Probe = {1, 2, 3, 4, 5, 6, 7, 8, 9, 10, 11, 12, 13, 14, 15, 16, 17, 18, 19}
  Block = {1, 2, 3}
  BlockSize = 9
  HeaderSize = 3
  ObjSize <- MCObjSize
  Request = {1, 3, 5}
  SProc = {p1, p2}
  PoolCount = 2
  SharedSlot = {1, 2}
  Bases <- MCBases
  SSize = {8, 16}
  Instr <- MCInstr
  InitReg <- MCReg
  InitMem <- MCMem
  UserPc = {602, 603, 604}
  Insn <- MCInsn
  Prog <- MCProg
  Lost <- MCLost
  Handler = 9
  MaxStack = 2
  CacheSizes = {16, 18}
  MaxSize = 6
  MaxBlocks = 5
  MaxSieves = 2
  Poller = {t1, t2}
  Quota = 2
  PIPE_BUF = 2
  PollSet <- MCPollSet
  SelectSet <- MCSelectSet
  EventSet = {{"in"}, {"out"}}
  ChannelCalls = 3
  MountPoints <- MCMounts
  Trees <- MCTrees
  Asked <- MCAsked
  Cwds <- MCCwds
  MAX_SYMLINK_LEVEL = 3
  MProc = {m1, m2, m3}
  MAX_MOUNT_POINTS = 8
  MountList <- MCMountList
  Rank <- MCRank
  LookupPath <- MCPath
  FThread = {f1, f2}
  MaxFile = 3
  FCalls = 2
  WProc = {w1, w2}
  FName = {na, nb}
  FileId = {1, 2}
  WCalls = 4
  CONSOLE_MAX_PARAMS = 3
  Width = 3
  Heights = {3, 2}
  BufferHeight = 4
  ConsoleWrites <- MCConsoleWrites
  MaxWrites = 3
  Caller = {s1, s2}
  SendRoom = 1
  Arrivals = 2
  SocketCalls = 3
  Runner = {"r1", "r2", "r3"}
  Programs <- MCPrograms
  MaxProcess = 5
  LThread = {l1, l2}
  MainThread = l1
  Stranger = {x1}
  LSignals = 1
  NoOne = NoOne
INVARIANTS
  TreeExact
  HeapsExact
  
  
  
  FilesExact
  ScreenAgrees
  SocketsExact
  ForkSound
  
PROPERTY Executes
CHECK_DEADLOCK FALSE
