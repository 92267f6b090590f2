------------------------------ MODULE WinFiles ------------------------------
(***************************************************************************)
(* The names of a directory on Windows (fs/winfs.c): open, close, unlink,  *)
(* rename, link and symlink by processes that know nothing of each other.  *)
(* Windows deletes a name only when the last handle opened through it is   *)
(* closed, and until then nobody can open or create it.  unlink finds out  *)
(* whether there are such handles by asking for the file without sharing   *)
(* it, and if so renames it into the recycle bin first.                    *)
(*                                                                         *)
(* Every call to Windows is a step.  A call that fails without having      *)
(* changed anything is left out.  rename and link open the old name, which *)
(* gives the process a handle of its own (slot "own") until vfs_release.   *)
(***************************************************************************)
EXTENDS Integers, FiniteSets

CONSTANTS WProc,       \* processes
          FName,       \* names in the directory
          FileId,      \* 1 .. n, files there may be at a time
          WCalls       \* bound: calls started

Bin == FileId \X FName          \* ".flinux<id>_<hash of the path>"
NoId == 0

ASSUME WinAssumption == NoId \notin FileId /\ FName \cap Bin = {} /\ WCalls \in Nat

VARIABLES wname,      \* the name table: [FName \cup Bin -> file id]
          wkind,      \* [FileId -> "file", "link", or "blank": a link not written yet]
          pend,       \* names whose deletion waits for handles to be closed
          hand,       \* open handles: [p, slot, id, name, acc, excl]; acc: it has read or
                      \* write access, excl: it is shared for DELETE only
          wth,        \* the call of each process
          wcalls,     \* calls still to be started
          adir,       \* history: the directory as POSIX has it
          spoilt      \* history: see DirectoryExact

winVars == <<wname, wkind, pend, hand, wth, wcalls, adir, spoilt>>

WIdle == [at |-> "idle", op |-> "none", n |-> NoId, tries |-> 0, nofollow |-> FALSE]

WinInit ==
  /\ wname = [n \in FName \cup Bin |-> NoId] /\ wkind = [i \in FileId |-> "file"]
  /\ pend = {} /\ hand = {} /\ wth = [p \in WProc |-> WIdle] /\ wcalls = WCalls
  /\ adir = [n \in FName |-> NoId] /\ spoilt = FALSE

Handle(p, slot) == {h \in hand : h.p = p /\ h.slot = slot}
Mine(p, slot) == CHOOSE h \in Handle(p, slot) : TRUE
FreeIds == {i \in FileId : (\A n \in DOMAIN wname : wname[n] # i) /\ \A h \in hand : h.id # i}

\* Whether Windows grants a handle: the sharing modes of those there are
Shared(id, acc, excl) == \A h \in hand : h.id = id => ~(h.excl /\ acc) /\ ~(excl /\ h.acc)
Visible(n) == wname[n] # NoId /\ n \notin pend

WBegin(p, c) == wth[p].at = "idle" /\ wcalls > 0 /\ wcalls' = wcalls - 1 /\ wth' = [wth EXCEPT ![p] = c]
WGo(p, from, c) == wth[p].at = from /\ wth' = [wth EXCEPT ![p] = c] /\ UNCHANGED wcalls

\* Handles hs are left: the deletions that waited for the others take place
Closing(hs) ==
  LET gone == {n \in pend : \A h \in hs : h.name # n} IN
  /\ hand' = hs /\ pend' = pend \ gone
  /\ wname' = [n \in DOMAIN wname |-> IF n \in gone THEN NoId ELSE wname[n]]

\* A name moves, with every handle opened through it
Moved(old, new, hs) == {IF h.name = old THEN [h EXCEPT !.name = new] ELSE h : h \in hs}

-----------------------------------------------------------------------------
\* open_file: NtCreateFile, of a file that is there or of a new one.  O_PATH
\* asks for no access.  op: for whom the file is opened, to: the new name
Create(p, op, n, to, opath, nofollow, creat) ==
  LET id == IF Visible(n) THEN wname[n] ELSE CHOOSE i \in FreeIds : TRUE
      slot == IF op = "open" THEN "fd" ELSE "own"
  IN
  /\ Handle(p, slot) = {}
  /\ \/ Visible(n) /\ Shared(wname[n], ~opath, FALSE)
     \/ creat /\ wname[n] = NoId /\ FreeIds # {}
  /\ WBegin(p, [WIdle EXCEPT !.at = "test", !.op = op, !.n = to, !.nofollow = nofollow])
  /\ hand' = hand \cup {[p |-> p, slot |-> slot, id |-> id, name |-> n, acc |-> ~opath, excl |-> FALSE]}
  /\ wname' = [wname EXCEPT ![n] = id]
  /\ adir' = IF wname[n] = NoId THEN [adir EXCEPT ![n] = id] ELSE adir
  /\ wkind' = IF wname[n] = NoId THEN [wkind EXCEPT ![id] = "file"] ELSE wkind
  /\ UNCHANGED <<pend, spoilt>>

Tested(p) == Mine(p, IF wth[p].op = "open" THEN "fd" ELSE "own")

\* The test as it once was: a file without the system attribute is no symbolic
\* link and its handle is left as it is
SymTest_SystemOnly(p) ==
  /\ wth[p].at = "test"
  /\ LET h == Tested(p)
         readable == h.acc \/ (wkind[h.id] # "file" /\ Shared(h.id, TRUE, FALSE) /\ h.name \notin pend)
         dropped == readable /\ wkind[h.id] = "link" /\ (h.acc \/ ~wth[p].nofollow)
     IN  /\ WGo(p, "test", IF wth[p].op = "open" \/ dropped THEN WIdle ELSE [wth[p] EXCEPT !.at = wth[p].op])
         /\ IF dropped THEN Closing(hand \ {h})
            ELSE hand' = (hand \ {h}) \cup {[h EXCEPT !.acc = readable]} /\ UNCHANGED <<wname, pend>>
         /\ spoilt' = (spoilt \/ (~readable /\ wkind[h.id] # "file"))
  /\ UNCHANGED <<wkind, adir>>

\* open_file: to see whether it is a symbolic link the code opens the file
\* again with read access ("Assume not symlink" if that fails).  A link is
\* closed again, to be followed or refused, but for O_PATH with O_NOFOLLOW
SymTest(p) ==
  /\ wth[p].at = "test"
  /\ LET h == Tested(p)
         readable == h.acc \/ (Shared(h.id, TRUE, FALSE) /\ h.name \notin pend)
         dropped == readable /\ wkind[h.id] = "link" /\ (h.acc \/ ~wth[p].nofollow)
     IN  /\ WGo(p, "test", IF wth[p].op = "open" \/ dropped THEN WIdle ELSE [wth[p] EXCEPT !.at = wth[p].op])
         /\ IF dropped THEN Closing(hand \ {h})
            ELSE hand' = (hand \ {h}) \cup {[h EXCEPT !.acc = readable]} /\ UNCHANGED <<wname, pend>>
         /\ spoilt' = (spoilt \/ ~readable)
  /\ UNCHANGED <<wkind, adir>>

winfs_close(p) ==
  /\ Handle(p, "fd") # {} /\ WBegin(p, WIdle)
  /\ Closing(hand \ Handle(p, "fd"))
  /\ UNCHANGED <<wkind, adir, spoilt>>

-----------------------------------------------------------------------------
\* winfs_unlink: NtOpenFile without sharing the file; STATUS_SHARING_VIOLATION
\* means that somebody has it open
Unlink(c, p, n) ==
  /\ Visible(n)
  /\ LET alone == Shared(wname[n], FALSE, TRUE)
         h == [p |-> p, slot |-> "tmp", id |-> wname[n], name |-> n, acc |-> FALSE, excl |-> TRUE]
     IN  /\ wth' = [wth EXCEPT ![p] = [c EXCEPT !.n = n, !.at = IF alone THEN "dispose" ELSE "share"]]
         /\ hand' = IF alone THEN hand \cup {h} ELSE hand
  /\ UNCHANGED <<wname, wkind, pend, adir, spoilt>>

winfs_unlink(p, n) ==
  /\ wth[p].at = "idle" /\ wcalls > 0 /\ wcalls' = wcalls - 1
  /\ Unlink([WIdle EXCEPT !.op = "unlink"], p, n)

\* -EBUSY from winfs_unlink, for unlink or for winfs_rename, which gives up
Busy(p) == IF wth[p].op = "rename" THEN [wth[p] EXCEPT !.at = "release"] ELSE WIdle

\* The second NtOpenFile, which shares the file; it may be gone by now
OpenShared(p) ==
  LET n == wth[p].n IN
  /\ wth[p].at = "share"
  /\ IF Visible(n)
     THEN /\ WGo(p, "share", [wth[p] EXCEPT !.at = "bin"])
          /\ hand' = hand \cup {[p |-> p, slot |-> "tmp", id |-> wname[n], name |-> n, acc |-> FALSE,
                                 excl |-> FALSE]}
     ELSE WGo(p, "share", Busy(p)) /\ UNCHANGED hand
  /\ UNCHANGED <<wname, wkind, pend, adir, spoilt>>

\* move_to_recycle_bin.  The name is made of the file and of the path, so it is
\* taken when the file has been unlinked there before; the handle is not
\* closed then
move_to_recycle_bin(p) ==
  LET h == Mine(p, "tmp")
      bin == <<h.id, wth[p].n>>
      free == wname[bin] = NoId /\ h.name \in FName /\ h.name \notin pend
  IN  \/ /\ WGo(p, "bin", [wth[p] EXCEPT !.at = "dispose"]) /\ free
         /\ hand' = Moved(h.name, bin, hand)
         /\ wname' = [wname EXCEPT ![bin] = h.id, ![h.name] = NoId]
         /\ adir' = [adir EXCEPT ![h.name] = NoId]
         /\ UNCHANGED <<wkind, pend, spoilt>>
      \/ /\ WGo(p, "bin", Busy(p)) /\ ~free
         /\ hand' = (hand \ {h}) \cup {[h EXCEPT !.slot = "leaked"]}
         /\ spoilt' = TRUE
         /\ UNCHANGED <<wname, wkind, pend, adir>>

\* FileDispositionInformation, then NtClose; winfs_rename tries again
Dispose(p) ==
  /\ WGo(p, "dispose", [wth[p] EXCEPT !.at = "close"])
  /\ pend' = pend \cup {Mine(p, "tmp").name}
  /\ UNCHANGED <<wname, wkind, hand, adir, spoilt>>

UnlinkClose(p) ==
  LET h == Mine(p, "tmp") IN
  /\ WGo(p, "close", IF wth[p].op = "rename" THEN [wth[p] EXCEPT !.at = "rename"] ELSE WIdle)
  /\ Closing(hand \ {h})
  /\ adir' = IF h.name \in FName THEN [adir EXCEPT ![h.name] = NoId] ELSE adir
  /\ UNCHANGED <<wkind, spoilt>>

-----------------------------------------------------------------------------
\* winfs_rename: FileRenameInformation replaces a name that nobody has open;
\* else STATUS_ACCESS_DENIED: unlink that name and try again, four times at most
winfs_rename(p) ==
  /\ wth[p].at = "rename"
  /\ LET h == Mine(p, "own")
         c == wth[p]
         over == c.tries = 4 \/ h.name \in pend \/ h.name = c.n
         denied == c.n \in pend \/ (wname[c.n] # NoId /\ \E g \in hand : g.id = wname[c.n])
     IN  \/ /\ over \/ (denied /\ ~Visible(c.n))
            /\ WGo(p, "rename", [c EXCEPT !.at = "release"])
            /\ UNCHANGED <<wname, wkind, pend, hand, adir, spoilt>>
         \/ /\ ~over /\ ~denied /\ WGo(p, "rename", [c EXCEPT !.at = "release"])
            /\ wname' = [wname EXCEPT ![c.n] = h.id, ![h.name] = NoId]
            /\ adir' = [n \in FName |-> IF n = c.n THEN h.id ELSE IF n = h.name THEN NoId ELSE adir[n]]
            /\ hand' = Moved(h.name, c.n, hand)
            /\ spoilt' = (spoilt \/ h.name \notin FName)
            /\ UNCHANGED <<wkind, pend>>
         \/ /\ ~over /\ denied /\ Visible(c.n)
            /\ Unlink([c EXCEPT !.tries = @ + 1], p, c.n) /\ UNCHANGED wcalls

\* winfs_link: FileLinkInformation, which fails if the new name is taken
winfs_link(p) ==
  /\ wth[p].at = "link" /\ WGo(p, "link", [wth[p] EXCEPT !.at = "release"])
  /\ LET h == Mine(p, "own")
         n == wth[p].n
         done == wname[n] = NoId /\ h.name \notin pend
     IN  /\ wname' = IF done THEN [wname EXCEPT ![n] = h.id] ELSE wname
         /\ adir' = IF done THEN [adir EXCEPT ![n] = h.id] ELSE adir
  /\ UNCHANGED <<wkind, pend, hand, spoilt>>

\* The vfs_release of renameat2 and linkat
ReleaseOwn(p) ==
  /\ WGo(p, "release", WIdle) /\ Closing(hand \ Handle(p, "own"))
  /\ UNCHANGED <<wkind, adir, spoilt>>

\* winfs_symlink: a new file with the system attribute, which is no link before
\* the header is written
winfs_symlink(p, n) ==
  /\ wname[n] = NoId /\ FreeIds # {}
  /\ LET id == CHOOSE i \in FreeIds : TRUE IN
     /\ WBegin(p, [WIdle EXCEPT !.at = "write", !.op = "symlink"])
     /\ wname' = [wname EXCEPT ![n] = id] /\ adir' = [adir EXCEPT ![n] = id]
     /\ wkind' = [wkind EXCEPT ![id] = "blank"]
     /\ hand' = hand \cup {[p |-> p, slot |-> "tmp", id |-> id, name |-> n, acc |-> TRUE, excl |-> FALSE]}
  /\ UNCHANGED <<pend, spoilt>>

SymlinkWrite(p) ==
  LET h == Mine(p, "tmp") IN
  /\ WGo(p, "write", WIdle) /\ wkind' = [wkind EXCEPT ![h.id] = "link"]
  /\ Closing(hand \ {h}) /\ UNCHANGED <<adir, spoilt>>

\* Windows closes the handles of a process that is killed
WinKill(p) ==
  /\ wth[p].at # "dead" /\ wth' = [wth EXCEPT ![p] = [WIdle EXCEPT !.at = "dead"]]
  /\ Closing({h \in hand : h.p # p})
  /\ adir' = [n \in FName |-> IF n \in pend /\ wname'[n] = NoId THEN NoId ELSE adir[n]]
  /\ UNCHANGED <<wkind, wcalls, spoilt>>

WinNext ==
  \E p \in WProc :
    \/ \E n \in FName :
         \/ \E opath, nofollow, creat \in BOOLEAN : Create(p, "open", n, NoId, opath, nofollow, creat)
         \/ \E op \in {"rename", "link"}, to \in FName : Create(p, op, n, to, TRUE, TRUE, FALSE)
         \/ winfs_unlink(p, n) \/ winfs_symlink(p, n)
    \/ SymTest(p) \/ winfs_close(p) \/ OpenShared(p) \/ move_to_recycle_bin(p) \/ Dispose(p)
    \/ UnlinkClose(p) \/ winfs_rename(p) \/ winfs_link(p) \/ ReleaseOwn(p) \/ SymlinkWrite(p) \/ WinKill(p)

-----------------------------------------------------------------------------
\* "To make the file disappear from its parent directory immediately, we move
\* the file to Windows recycle bin prior to deletion" (winfs.c, winfs_unlink):
\* whenever no call is under way the directory holds just what the calls that
\* succeeded have left in it, whichever handles are open, and no name is stuck
\* between being deleted and being free; in the recycle bin every file is to be
\* deleted, unless its unlinker was killed.  Not claimed after a process opened a
\* file again for the symlink test just while another was deleting it, and kept
\* a handle that unlink does not see; nor after move_to_recycle_bin failed,
\* which leaves a handle open; nor after rename moved a file that unlink had
\* put into the recycle bin, and not marked for deletion yet
DirectoryExact ==
  ~spoilt /\ (\A p \in WProc : wth[p].at \in {"idle", "dead"}) =>
    /\ pend \cap FName = {} /\ \A n \in FName : wname[n] = adir[n]
    /\ \A b \in Bin : Visible(b) => \E p \in WProc : wth[p].at = "dead"
=============================================================================
