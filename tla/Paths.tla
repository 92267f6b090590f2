-------------------------------- MODULE Paths --------------------------------
(***************************************************************************)
(* Path resolution (syscall/vfs.c) over the mounts of Windows directories  *)
(* (fs/winfs.c).  The code works on strings: it appends component by       *)
(* component to realpath, opens what it has so far to see whether it is a  *)
(* symbolic link, and starts over in a recursive call when it is one.      *)
(*                                                                         *)
(* A POSIX path is a sequence of names from "/", a Windows path one from   *)
(* the root of the drive, a pathname is [abs, comps, slash]: whether it    *)
(* begins with a slash, its components, whether it ends with a slash.      *)
(* Empty components are left out, and so are path lengths.                 *)
(***************************************************************************)
EXTENDS Integers, Sequences, Collections

CONSTANTS MountPoints,              \* the table in list order: [at, win], POSIX and Windows paths
          Trees,               \* trees: [Windows path -> [kind, target]]
          Asked, Cwds,         \* pathnames, and current directories by their paths
          MAX_SYMLINK_LEVEL

ASSUME MountPointsAssumption == \E i \in DOMAIN MountPoints : MountPoints[i].at = <<>>

VARIABLE look                  \* a tree, a current directory, a question and its answer

PathFail(e) == [err |-> e, real |-> <<>>, remain |-> 0]
PathDone(real, remain) == [err |-> "ok", real |-> real, remain |-> remain]

-----------------------------------------------------------------------------
\* find_mountpoint: the first entry whose mount point is the path or a
\* directory above it
find_mountpoint(path) ==
  MountPoints[CHOOSE i \in DOMAIN MountPoints :
           /\ SX!IsPrefix(MountPoints[i].at, path)
           /\ \A j \in 1 .. i - 1 : ~SX!IsPrefix(MountPoints[j].at, path)]

\* filename_to_nt_pathname: where a POSIX path is on the drive
nt_pathname(path) == LET mp == find_mountpoint(path)
                     IN  mp.win \o SubSeq(path, Len(mp.at) + 1, Len(path))

\* The open of a file system, for what it tells resolve_path: an error, a
\* symbolic link, or anything else: the test for a directory never refuses
FileAt(tree, path) == LET w == nt_pathname(path)
                    IN  IF w \in DOMAIN tree THEN tree[w] ELSE [kind |-> "none", target |-> <<>>]

\* winfs_getpath of a file opened below mount mp, in that mount, else below the
\* drive letter.  A drive is mounted as "\??\C:\": no slash is left to put
\* between its letter and the first name
winfs_getpath(w, mp) ==
  IF ~SX!IsPrefix(mp.win, w) THEN <<"c">> \o w
  ELSE IF mp.win = <<>> /\ w # <<>> THEN <<"c" \o w[1]>> \o Tail(w)
  ELSE mp.at \o SubSeq(w, Len(mp.win) + 1, Len(w))

Parent(real) == IF real = <<>> THEN real ELSE SX!Front(real)

RECURSIVE resolve_path(_, _, _, _), PathWalk(_, _, _, _, _), PathComponent(_, _, _)

\* resolve_path: the path with every component resolved but the last
resolve_path(tree, dir, p, remain) ==
  IF ~p.abs /\ p.comps = <<>> THEN PathFail("ENOENT")
  ELSE PathWalk(tree, IF p.abs THEN <<>> ELSE dir, p.comps, p.slash, remain)

PathWalk(tree, real, comps, slash, remain) ==
  IF comps = <<>> THEN PathDone(real, remain)
  ELSE IF comps[1] = "." THEN PathWalk(tree, real, Tail(comps), slash, remain)
  ELSE IF comps[1] = ".." THEN PathWalk(tree, Parent(real), Tail(comps), slash, remain)
  ELSE IF Len(comps) = 1 /\ ~slash THEN PathDone(Append(real, comps[1]), remain)
  ELSE LET c == PathComponent(tree, Append(real, comps[1]), remain)
       IN  IF c.err # "ok" THEN c ELSE PathWalk(tree, c.real, Tail(comps), slash, c.remain)

\* "Resolve component": follows links until what it has is none.  A link to
\* the root leaves the empty string, which is below no mount point
PathComponent(tree, real, remain) ==
  IF real = <<>> THEN PathFail("ENOTDIR") ELSE
  LET n == FileAt(tree, real) IN
  CASE n.kind = "none" -> PathFail("ENOENT")
    [] n.kind # "link" /\ n.kind # "none" -> PathDone(real, remain)
    [] n.kind = "link" ->
         IF remain = 0 THEN PathFail("ELOOP")
         ELSE LET r == resolve_path(tree, SX!Front(real), n.target, remain - 1)
              IN  IF r.err # "ok" THEN r ELSE PathComponent(tree, r.real, r.remain)

\* resolve_pathat: a relative path starts from the path of the directory's file
resolve_pathat(tree, cwd, p) ==
  resolve_path(tree, winfs_getpath(nt_pathname(cwd), find_mountpoint(cwd)), p, MAX_SYMLINK_LEVEL)

\* vfs_openat: follows the last component too, unless O_NOFOLLOW
RECURSIVE OpenLoop(_, _, _)
OpenLoop(tree, r, nofollow) ==
  IF r.err # "ok" THEN r ELSE
  LET n == FileAt(tree, r.real) IN
  CASE n.kind = "none" -> PathFail("ENOENT")
    [] n.kind # "none" /\ (n.kind # "link" \/ nofollow) -> PathDone(nt_pathname(r.real), 0)
    [] n.kind = "link" /\ ~nofollow ->
         IF r.remain = 0 THEN PathFail("ELOOP")
         ELSE OpenLoop(tree, resolve_path(tree, SX!Front(r.real), n.target, r.remain - 1), nofollow)

\* vfs_openat that gives the recursive call the whole path for a directory
RECURSIVE OpenLoop_NoBasename(_, _, _)
OpenLoop_NoBasename(tree, r, nofollow) ==
  IF r.err # "ok" THEN r ELSE
  LET n == FileAt(tree, r.real) IN
  CASE n.kind = "none" -> PathFail("ENOENT")
    [] n.kind # "none" /\ (n.kind # "link" \/ nofollow) -> PathDone(nt_pathname(r.real), 0)
    [] n.kind = "link" /\ ~nofollow ->
         IF r.remain = 0 THEN PathFail("ELOOP")
         ELSE OpenLoop_NoBasename(tree, resolve_path(tree, r.real, n.target, r.remain - 1), nofollow)

vfs_openat_NoBasename(tree, cwd, p, nofollow) ==
  OpenLoop_NoBasename(tree, resolve_pathat(tree, cwd, p), nofollow)

vfs_openat(tree, cwd, p, nofollow) == OpenLoop(tree, resolve_pathat(tree, cwd, p), nofollow)

-----------------------------------------------------------------------------
\* chdir has opened some directory; a call asks for a pathname
PathsInit ==
  \E tree \in Trees : \E cwd \in Cwds :
    /\ FileAt(tree, cwd).kind = "dir"
    /\ look = [tree |-> tree, cwd |-> cwd, asked |-> FALSE, nofollow |-> FALSE,
            p |-> [abs |-> TRUE, comps |-> <<>>, slash |-> FALSE], got |-> PathFail("none")]

OpenAt(p, nofollow) ==
  /\ ~look.asked
  /\ look' = [look EXCEPT !.asked = TRUE, !.p = p, !.nofollow = nofollow,
                          !.got = vfs_openat(look.tree, look.cwd, p, nofollow)]

PathsNext == \E p \in Asked, nofollow \in BOOLEAN : OpenAt(p, nofollow)

-----------------------------------------------------------------------------
\* Resolution as POSIX words it: from a directory that holds no link, one
\* component at a time, the target of a link put before what is left
RECURSIVE Posix(_, _, _, _, _, _)
Posix(tree, cur, comps, slash, links, nofollow) ==
  IF comps = <<>> THEN PathDone(nt_pathname(cur), 0)
  ELSE LET rest == Tail(comps)
           next == Append(cur, comps[1])
           n == FileAt(tree, next)
           last == rest = <<>> /\ ~slash
       IN  CASE comps[1] = "."  -> Posix(tree, cur, rest, slash, links, nofollow)
             [] comps[1] = ".." -> Posix(tree, Parent(cur), rest, slash, links, nofollow)
             [] OTHER ->
                  CASE n.kind = "none" -> PathFail("ENOENT")
                    [] n.kind = "dir" -> Posix(tree, next, rest, slash, links, nofollow)
                    [] n.kind = "file" -> IF last THEN PathDone(nt_pathname(next), 0) ELSE PathFail("ENOTDIR")
                    [] n.kind = "link" ->
                         IF last /\ nofollow THEN PathDone(nt_pathname(next), 0)
                         ELSE IF links = 0 THEN PathFail("ELOOP")
                         ELSE Posix(tree, IF n.target.abs THEN <<>> ELSE cur, n.target.comps \o rest,
                                    slash \/ (rest = <<>> /\ n.target.slash), links - 1, nofollow)

PosixOpen(tree, cwd, p, nofollow) ==
  IF ~p.abs /\ p.comps = <<>> THEN PathFail("ENOENT")
  ELSE Posix(tree, IF p.abs THEN <<>> ELSE cwd, p.comps, p.slash, MAX_SYMLINK_LEVEL, nofollow)

\* Some link leads to the root directory
RootLink(tree) ==
  \E w \in DOMAIN tree :
    /\ tree[w].kind = "link"
    /\ LET at == SX!Front(w)
           dir == SubSeq(at, Len(nt_pathname(<<>>)) + 1, Len(at))
       IN  Posix(tree, IF tree[w].target.abs THEN <<>> ELSE dir, tree[w].target.comps, FALSE,
                 MAX_SYMLINK_LEVEL, FALSE) = PathDone(nt_pathname(<<>>), 0)

\* "Resolve a given path (except the last component), output the real path"
\* (vfs.c, resolve_path) with what vfs_openat adds: for every tree of links and
\* directories, every current directory and every pathname, the file found, or
\* the error, is the one POSIX gives.  Not claimed: paths that go on below a
\* regular file (the test for O_DIRECTORY never refuses), links that lead to a
\* root (refused on the way), and relative paths below a drive (winfs_getpath)
ResolvesAsPosix ==
  look.asked =>
    LET ref == PosixOpen(look.tree, look.cwd, look.p, look.nofollow) IN
    \/ look.got = ref
    \/ ref.err = "ENOTDIR"
    \/ look.got.err = "ENOTDIR" /\ RootLink(look.tree)
    \/ ~look.p.abs /\ find_mountpoint(look.cwd).win = <<>> /\ nt_pathname(look.cwd) # <<>>
=============================================================================
