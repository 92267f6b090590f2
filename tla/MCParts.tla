------------------------------ MODULE MCParts ------------------------------
(***************************************************************************)
(* The parts of the program that share no state with the components that   *)
(* have a run of their own, nor with each other, checked in one run: an    *)
(* initial state says which of them is exercised, the others rest in a     *)
(* single state.  Nothing is lost by exploring them side by side.          *)
(***************************************************************************)
EXTENDS RBTree, Heaps, CodeRun, Decode, CodeCache,
        Channels, Paths, Mounts, FilePointer, WinFiles, ConsoleScreen, Sockets, Fork, Life, TLC

VARIABLE part

vars == <<part, treeVars, heapVars, sharedVars, codeVars, decodeVars, cacheVars,
          channelVars, look, mountVars, pointerVars, winVars, screenVars, socketVars,
          forkVars, lifeVars>>

-----------------------------------------------------------------------------
\* RBTree, Heap and Shared
MCKeyOf == [n \in Node |-> 2 * n]
MCObjSize == <<2, 4>>
MCBases == <<{11, 12}, {21}>>

-----------------------------------------------------------------------------
\* CodeRun: guest instructions at 600, of two bytes
I(k, r, rm, gs, n) ==
  [k |-> k, r |-> r, rm |-> rm, gs |-> gs, pc |-> 600, next |-> 602, dest |-> 601, n |-> n]
NoRm == modrm_rm_reg("none")
Based(b, d) == modrm_rm_mreg(b, d)

MCInstr ==
  {I("op", r, rm, gs, 0) : r \in {"eax", "ecx"}, gs \in BOOLEAN,
     rm \in {modrm_rm_disp(8), Based("eax", 4), Based("ebx", 8), modrm_rm_reg("ebx")}}
  \cup {I("moffs", "eax", modrm_rm_disp(8), gs, 0) : gs \in BOOLEAN}
  \cup {I(k, "none", NoRm, FALSE, 0) :
          k \in {"call", "ret", "jmp", "jcc", "loop", "jecxz8", "syscall", "cpuid",
                 "signal", "sigreturn", "fork", "run"}}
  \cup {I("retn", "none", NoRm, FALSE, n) : n \in {4, 8}}
  \cup {I(k, "none", rm, FALSE, 0) : k \in {"calli", "jmpi"},
          rm \in {modrm_rm_reg("esi"), Based("esp", 8), Based("ebx", 8)}}
  \cup {I(k, "none", rm, TRUE, 0) : k \in {"calli", "jmpi"},
          rm \in {Based("ebx", 8), modrm_rm_disp(8)}}
  \cup {I("movfs", "none", rm, FALSE, 0) : rm \in {modrm_rm_reg("ecx"), Based("ebx", 8)}}
  \cup {I("movts", "none", rm, FALSE, 0) :
          rm \in {modrm_rm_reg("ecx"), Based("ebx", 8), Based("esp", 8)}}

MCReg ==
  [r \in Reg |-> CASE r = "eax" -> 4 [] r = "ecx" -> 1 [] r = "edx" -> 33 [] r = "ebx" -> 0
                   [] r = "esp" -> 220 [] r = "ebp" -> 55 [] r = "esi" -> 602
                   [] r = "edi" -> 66 [] r = "eflags" -> 1]

\* The stack at 220 holds a context's address, targets are where operands point
MCMem ==
  [a \in {4 * k : k \in 0 .. 100} |->
     CASE a = 224 -> 240 [] a \in {228, 312} -> 603 [] a = 8 -> 604 [] a \in {4, 316} -> 605
       [] a = 0 -> 606 [] a = 308 -> 602 [] a = 264 -> 260
       [] a \in 240 .. 279 \ {264} -> a \div 4
       [] OTHER -> a + 1]

-----------------------------------------------------------------------------
\* Decode: every opcode of every map, the groups with every extension, and
\* every shape of a ModR/M operand
E(mod, r, rm, sib, d) == [mod |-> mod, r |-> r, rm |-> rm, sib |-> sib, disp |-> d]
NoSib == <<0, 0, 0>>
Short(r) == {E(3, r, 3, NoSib, 0), E(0, r, 5, NoSib, 300), E(1, r, 4, <<1, 7, 6>>, 8),
             E(2, r, 0, NoSib, 128), E(0, r, 4, <<0, 4, 4>>, 0)}
Shapes ==
  {E(mod, 0, rm, NoSib, d) : mod \in {0, 1, 2}, rm \in 0 .. 7 \ {4}, d \in {0, 127, -128}}
  \cup {E(mod, 0, 4, <<s, i, b>>, -5) : mod \in {0, 1, 2}, s \in {0, 3}, i \in 0 .. 7, b \in 0 .. 7}
  \cup {E(mod, 0, 4, <<1, i, b>>, 200) : mod \in {0, 2}, i \in 0 .. 7, b \in 0 .. 7}
Prefixes == {<< >>, <<\h66>>, <<\hF3>>, <<\hF2>>, <<\h65>>, <<\h65, \h66>>, <<\hF3, \h65>>,
             <<\hF2, \hF0, \h65>>, <<\h65, \h2E>>}
Groups == {\h80, \hC6, \hC7, \hF6, \hF7, \hFE, \hFF, \h0D, \h18, \h71, \h72, \h73, \hBA, \hAE}

MCInsn ==
  [pre : Prefixes, map : {"1", "0F", "0F38", "0F3A"}, op : 0 .. 255, enc : Short(1)]
  \cup [pre : Prefixes, map : {"1", "0F"}, op : Groups, enc : UNION {Short(r) : r \in 0 .. 7}]
  \cup [pre : {<< >>, <<\h65>>}, map : {"1"}, op : {\h01}, enc : Shapes]

-----------------------------------------------------------------------------
\* CodeCache: nested calls whose return addresses share an entry of the return
\* cache, two indirect destinations, and a function a system call replaces
K(k, to) == [k |-> k, to |-> to]
MCProg ==
  [v \in {0, 1} |-> [a \in 0 .. 9 |->
     CASE a = 0 -> K("call", {4})
       [] a = 1 -> K("jcc", {0})
       [] a = 2 -> K("jmpi", {0, 3})
       [] a = 3 -> K("jcc", {1})
       [] a = 4 -> K("call", {7})
       [] a = 5 -> K("sys", {})
       [] a = 6 -> K("ret", {})
       [] a = 7 -> IF v = 0 THEN K("op", {}) ELSE K("ret", {})
       [] a = 8 -> K("ret", {})
       [] a = 9 -> K("sigreturn", {})]]
MCLost == <<7, 1>>

-----------------------------------------------------------------------------
\* Channels
P(fd, ev) == [fd |-> fd, events |-> ev]
MCPollSet == {<<P("none", {}), P("r", {"in"}), P("w", {"out"})>>}
MCSelectSet == {<<{"r"}, {}, {"r"}>>}

-----------------------------------------------------------------------------
\* Paths: the root is mounted from the directory r of the drive, which is
\* mounted at /c; two names, two levels, links of every kind between them
RelPath(c) == [abs |-> FALSE, comps |-> c, slash |-> FALSE]
AbsPath(c) == [abs |-> TRUE, comps |-> c, slash |-> FALSE]
ADir == [kind |-> "dir", target |-> RelPath(<<>>)]
AFile == [kind |-> "file", target |-> RelPath(<<>>)]
LinkTo(t) == [kind |-> "link", target |-> t]
Absent == [kind |-> "none", target |-> RelPath(<<>>)]
LinkTargets ==
  {RelPath(<<"b">>), RelPath(<<"a", "b">>), RelPath(<<"..">>), RelPath(<<"..", "b">>),
   AbsPath(<<"a">>), AbsPath(<<>>), AbsPath(<<"c", "r", "b">>),
   [RelPath(<<"b">>) EXCEPT !.slash = TRUE]}
Links == {LinkTo(t) : t \in LinkTargets}
MCMounts == <<[at |-> <<"c">>, win |-> <<>>], [at |-> <<>>, win |-> <<"r">>]>>
TreeOf(a, b, ab, ba) ==
  LET all == [w \in {<<>>, <<"r">>, <<"r","a">>, <<"r","b">>, <<"r","a","b">>, <<"r","b","a">>} |->
               CASE Len(w) < 2 -> ADir [] w = <<"r","a">> -> a [] w = <<"r","b">> -> b
                 [] w = <<"r","a","b">> -> ab [] w = <<"r","b","a">> -> ba]
  IN  [w \in {v \in DOMAIN all : all[v] # Absent} |-> all[w]]
MCTrees ==
  {TreeOf(ADir, b, ab, Absent) : b \in {AFile, Absent, ADir} \cup Links, ab \in {ADir, Absent} \cup Links}
  \cup {TreeOf(a, ADir, Absent, ba) : a \in {AFile} \cup Links, ba \in {AFile} \cup Links}
PathNames == {"a", "b", "c", "r", ".", ".."}
MCAsked == {[abs |-> x, comps |-> c, slash |-> s] : x \in BOOLEAN, s \in BOOLEAN,
   c \in {<<>>} \cup {<<n>> : n \in PathNames}
         \cup {<<k, n>> : k \in {"a", "b", ".."}, n \in {"a", "b", "..", "."}}
         \cup {<<"a", "b", n>> : n \in {"a", "b", ".."}} \cup {<<"c", "r", n>> : n \in {"a", "b"}}}
MCCwds == {<<>>,<<"a","b">>,<<"c","r">>}

-----------------------------------------------------------------------------
\* Mounts: as vfs_shared_init mounts them
MCMountList == <<<<>>, <<"c">>, <<"dev">>, <<"dev", "shm">>>>
MCRank == [at \in {<<>>, <<"c">>, <<"dev">>, <<"dev", "shm">>} |->
             CASE at = <<>> -> 0 [] at = <<"c">> -> 1 [] at = <<"dev">> -> 2 [] OTHER -> 3]
MCPath == {<<"dev", "y">>, <<"x">>}

-----------------------------------------------------------------------------
\* ConsoleScreen: every control function, some of them together; sequences and
\* a character cut in two
Csi(s) == <<"ESC", "[">> \o s
Private(s) == Csi(<<"?">> \o s)
MCConsoleWrites ==
  {<<"x", "y", "x", "e1", "e2">>, <<"x", "LF", "y">>, <<"LF", "LF", "LF">>, <<"CR", "y", "BS", "e1">>,
   <<"TAB", "x">>, <<"e1", "e2">>, <<"e2", "x", "ESC">>, <<"[", "H", "x">>,
   <<"ESC", "D">> \o Csi(<<"M">>), <<"ESC", "E", "x">>, <<"ESC", "M">>,
   <<"ESC", "7">>, <<"ESC", "8", "x">>,
   <<"ESC", "#", "8", "ESC", "(", "0", "x", "SO", "y">> \o Csi(<<"2", "0", "l">>),
   <<"ESC", ")", "0">> \o Csi(<<"7", ";", "3", "1", "m", "y">>) \o Csi(<<">", "c">>),
   <<"ESC", "]", "2", ";", "x", "BEL", "y">> \o Csi(<<"A">>) \o Csi(<<"C", "x">>),
   Csi(<<"2", "B">>) \o Csi(<<"D", "x">>), Csi(<<"3", "d">>) \o Csi(<<"2", "G">>),
   Csi(<<"2", ";", "2", "H", "x", "y">>),
   Csi(<<"J">>), Csi(<<"1", "J">>) \o Csi(<<"K">>), Csi(<<"1", "K">>) \o Csi(<<"2", "S">>),
   Csi(<<"L">>) \o Csi(<<"@", "x">>), Csi(<<"P">>) \o Csi(<<"4", "h", "x">>),
   Csi(<<"2", ";", "3", "r">>), Csi(<<"1", ";", "2", "r">>),
   Private(<<"7", "l">>) \o Private(<<"6", "h">>),
   Private(<<"4", "7", "h">>), Private(<<"1", "0", "4", "9", "h">>),
   Private(<<"1", "0", "4", "9", "l">>)}

-----------------------------------------------------------------------------
\* Fork: one that forks and any two other calls, and each kind of two forks.
\* The user's page is shared with an earlier child: who writes first takes it
ForkedWith == <<"kmalloc", "kmalloc block", "munmap", "fault", "load", "maps", "close", "dup2", "read",
           "ioctl", "set_thread_area", "sigaction", "deliver", "wait4", "kmalloc_shared">>
Three(a, b, c) == [r1 |-> a, r2 |-> b, r3 |-> c]
MCPrograms ==
  {Three("fork", ForkedWith[k[1]], ForkedWith[k[2]]) :
     k \in {<<i, j>> \in (DOMAIN ForkedWith) \X (DOMAIN ForkedWith) : i < j}}
  \cup {Three("fork", f, "sigaction") : f \in {"fork", "clone"}}

-----------------------------------------------------------------------------
Init ==
  /\ part \in {"tree", "heap", "shared", "code", "decode", "cache",
              "channels", "paths", "mounts", "pointer", "winfiles", "screen", "sockets", "fork", "life"}
  /\ TreeInit /\ HeapInit /\ SharedInit /\ ChannelsInit /\ MountsInit /\ WinInit
  /\ CacheInit /\ PointerInit /\ SocketsInit /\ LifeInit
  /\ part = "cache" \/ (ver = 0 /\ \A n \in CacheSizes : Cardinality(DOMAIN dbt.mem) <= n)
  /\ part = "pointer" \/ fsize = 0
  /\ IF part = "code" THEN CodeInit
     ELSE ins = [k |-> "rest"] /\ m = [lab |-> "rest"] /\ pre = << >>
  /\ IF part = "decode" THEN DecodeInit ELSE text = << >> /\ inst = << >>
  /\ IF part = "paths" THEN PathsInit ELSE look = [asked |-> FALSE]
  /\ part = "sockets" \/ (net.type = "dgram" /\ net.conn = "up")
  /\ IF part = "fork" THEN ForkInit /\ cow
     ELSE /\ task = << >> /\ step = << >>
          /\ holds = [l \in ForkedLock |-> {}] /\ waiting = [l \in ForkedLock |-> << >>]
          /\ cow = FALSE /\ open = FALSE /\ updating = << >> /\ partial = {} /\ shut = {}
  /\ IF part = "screen" THEN ScreenInit
     ELSE con = << >> /\ vt = << >> /\ window = 0 /\ writes = 0 /\ astray = TRUE

\* Threads, processes and names of a part are interchangeable: as long as
\* nothing tells them apart it is always the same one that acts
First(S) == CHOOSE x \in S : TRUE
Others(S) == S \ {First(S)}
MaxWaiters == 1     \* two that wait meet only in the events, as a transfer does

Next == UNCHANGED part /\
  \/ /\ part = "tree" /\ TreeNext
     /\ UNCHANGED <<heapVars, sharedVars, codeVars, decodeVars, cacheVars, channelVars,
                    look, mountVars, pointerVars, winVars, screenVars, socketVars, forkVars, lifeVars>>
  \/ /\ part = "heap" /\ HeapNext
     /\ UNCHANGED <<treeVars, sharedVars, codeVars, decodeVars, cacheVars, channelVars,
                    look, mountVars, pointerVars, winVars, screenVars, socketVars, forkVars, lifeVars>>
  \/ /\ part = "shared" /\ SharedNext
     /\ UNCHANGED <<treeVars, heapVars, codeVars, decodeVars, cacheVars, channelVars,
                    look, mountVars, pointerVars, winVars, screenVars, socketVars, forkVars, lifeVars>>
  \/ /\ part = "code" /\ CodeNext
     /\ UNCHANGED <<treeVars, heapVars, sharedVars, decodeVars, cacheVars, channelVars,
                    look, mountVars, pointerVars, winVars, screenVars, socketVars, forkVars, lifeVars>>
  \/ /\ part = "decode" /\ DecodeNext
     /\ UNCHANGED <<treeVars, heapVars, sharedVars, codeVars, cacheVars, channelVars,
                    look, mountVars, pointerVars, winVars, screenVars, socketVars, forkVars, lifeVars>>
  \/ /\ part = "cache" /\ CacheNext
     /\ UNCHANGED <<treeVars, heapVars, sharedVars, codeVars, decodeVars, channelVars,
                    look, mountVars, pointerVars, winVars, screenVars, socketVars, forkVars, lifeVars>>
  \/ /\ part = "channels" /\ ChannelsNext
     /\ (\A t \in Poller : cth[t].at = "idle") => \A t \in Others(Poller) : cth'[t].at = "idle"
     /\ Cardinality({t \in Poller : cth'[t].call \in {"poll", "select", "epoll"}}) <= MaxWaiters
     /\ UNCHANGED <<treeVars, heapVars, sharedVars, codeVars, decodeVars, cacheVars,
                    look, mountVars, pointerVars, winVars, screenVars, socketVars, forkVars, lifeVars>>
  \/ /\ part = "paths" /\ PathsNext
     /\ UNCHANGED <<treeVars, heapVars, sharedVars, codeVars, decodeVars, cacheVars,
                    channelVars, mountVars, pointerVars, winVars, screenVars, socketVars, forkVars, lifeVars>>
  \/ /\ part = "mounts" /\ MountsNext
     /\ (\A p \in MProc : mp[p] = MIdle) => \A p \in Others(MProc) : mp'[p] = MIdle
     /\ UNCHANGED <<treeVars, heapVars, sharedVars, codeVars, decodeVars, cacheVars,
                    channelVars, look, pointerVars, winVars, screenVars, socketVars, forkVars, lifeVars>>
  \/ /\ part = "pointer" /\ PointerNext
     /\ (\A t \in FThread : fth[t] = FIdle) => \A t \in Others(FThread) : fth'[t] = FIdle
     /\ UNCHANGED <<treeVars, heapVars, sharedVars, codeVars, decodeVars, cacheVars,
                    channelVars, look, mountVars, winVars, screenVars, socketVars, forkVars, lifeVars>>
  \/ /\ part = "winfiles" /\ WinNext
     /\ (wcalls = WCalls /\ wth = [p \in WProc |-> WIdle])
          => /\ \A p \in Others(WProc) : wth'[p] = WIdle
             /\ \A n \in Others(FName) : wname'[n] = NoId
     /\ UNCHANGED <<treeVars, heapVars, sharedVars, codeVars, decodeVars, cacheVars,
                    channelVars, look, mountVars, pointerVars, screenVars, socketVars, forkVars, lifeVars>>
  \/ /\ part = "screen" /\ ScreenNext
     /\ UNCHANGED <<treeVars, heapVars, sharedVars, codeVars, decodeVars, cacheVars,
                    channelVars, look, mountVars, pointerVars, winVars, socketVars, forkVars, lifeVars>>
  \/ /\ part = "sockets" /\ SocketsNext
     /\ (\A t \in Caller : sth[t] = NoSocketCall)
          => \A t \in Others(Caller) : sth'[t] = NoSocketCall
     /\ UNCHANGED <<treeVars, heapVars, sharedVars, codeVars, decodeVars, cacheVars,
                    channelVars, look, mountVars, pointerVars, winVars, screenVars, forkVars, lifeVars>>
  \/ /\ part = "fork" /\ ForkNext
     /\ UNCHANGED <<treeVars, heapVars, sharedVars, codeVars, decodeVars, cacheVars, channelVars,
                    look, mountVars, pointerVars, winVars, screenVars, socketVars, lifeVars>>
  \/ /\ part = "life" /\ LifeNext
     /\ UNCHANGED <<treeVars, heapVars, sharedVars, codeVars, decodeVars, cacheVars, channelVars,
                    look, mountVars, pointerVars, winVars, screenVars, socketVars, forkVars>>

Spec == Init /\ [][Next]_vars

-----------------------------------------------------------------------------
\* What holds of a part that rests need not be looked at in every state of the others
(***************************************************************************)
(* A path leads to the file POSIX says, for a mount table that every       *)
(* process sees as the first one built it (syscall/vfs.c); the files of a  *)
(* directory and the pointer of an open file are what POSIX has them to    *)
(* be, whoever shares them (fs/winfs.c).                                   *)
(***************************************************************************)
FilesExact ==
  /\ part = "paths" => ResolvesAsPosix
  /\ part = "mounts" => MountsSound
  /\ part = "pointer" => PointerKept
  /\ part = "winfiles" => DirectoryExact
=============================================================================
