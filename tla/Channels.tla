------------------------------ MODULE Channels ------------------------------
(***************************************************************************)
(* Waiting for files: pipes (fs/pipe.c), the interest list of an epoll     *)
(* file (fs/epollfd.c) and poll, select and epoll_wait (syscall/vfs.c).    *)
(*                                                                         *)
(* A pipe is two file structures on one Windows pipe, which share two      *)
(* events that the code keeps by hand: after each transfer, and whenever   *)
(* poll asks, it queries the pipe and then sets or clears one event after  *)
(* the other.  Nothing makes these steps atomic: the rw_lock of a file is  *)
(* taken shared, each end has its own, and so has each process after fork. *)
(*                                                                         *)
(* The bytes of a pipe are counted, Quota is what Windows lets it hold     *)
(* (4096 for CreatePipe(.., 0)).  A wait with a limit may time out at any  *)
(* moment.  Argument checks and the swap of the signal mask around a wait  *)
(* are left out; an epoll entry's data is its descriptor.                  *)
(***************************************************************************)
EXTENDS Integers, Sequences, FiniteSets, Collections

CONSTANTS Poller,              \* threads, of one process or several
          Quota, PIPE_BUF,     \* what a pipe holds, what it must write in one go
          PollSet,             \* arrays of [fd, events] that poll is called with
          SelectSet,           \* <<readfds, writefds, exceptfds>> of select
          EventSet,            \* sets of events an entry of an epoll file asks for
          ChannelCalls         \* bound: calls started in a behaviour

ASSUME QuotaAssumption ==
  Quota \in Nat \ {0} /\ PIPE_BUF \in Nat \ {0} /\ ChannelCalls \in Nat

EAGAIN == -11
EBADF == -9
EPIPE == -32
EIO == -5
EINTR == -4
EEXIST == -17
ENOENT == -2
End == {"r", "w"}              \* the descriptors of the two ends
EpollFd == "e"                 \* the descriptor of the epoll file
NoFd == "none"                 \* a negative descriptor
Flag == {"in", "out", "err", "hup", "nval"}

ASSUME ArgumentsAssumption ==
  /\ PollSet \subseteq Seq([fd : End \cup {NoFd}, events : SUBSET Flag])
  /\ SelectSet \subseteq (SUBSET End) \X (SUBSET End) \X (SUBSET End)
  /\ EventSet \subseteq SUBSET Flag

VARIABLES pipe,      \* data: bytes; table: ends with a descriptor; nonblock: ends with O_NONBLOCK
          event,     \* read_event and write_event, by the end that polls them
          efds,      \* fds[0 .. fd_count) of the epoll file: [fd, events]
          cth,       \* the call of each thread
          calls,     \* calls still to be started
          wrong,     \* history: events whose last store was out of date
          was        \* history: what was ready during the call of a thread

channelVars == <<pipe, event, efds, cth, calls, wrong, was>>

NoCall == [at |-> "idle", call |-> "none", then |-> "return", end |-> NoFd, n |-> 0,
           info |-> [data |-> 0, up |-> TRUE], pfds |-> <<>>, i |-> 1, handles |-> <<>>, num |-> 0,
           done |-> FALSE, limited |-> FALSE, holds |-> {}, sets |-> <<{}, {}, {}>>, out |-> {},
           moved |-> FALSE]

\* An end is closed, by pipe_close, with its last reference
Open == pipe.table \cup UNION {cth[t].holds : t \in Poller}

\* NtQueryInformationFile(FilePipeLocalInformation): the bytes queued, and
\* whether NamedPipeState is connected
Info == [data |-> pipe.data, up |-> End \subseteq Open]

\* What pipe_update_events and pipe_get_poll_status store in an end's event:
\* both ends come to the same answer from what they see of one pipe
Signalled(e, info) == \/ e = "r" /\ info.data > 0
                      \/ e = "w" /\ info.data < Quota
                      \/ ~info.up

\* pipe_get_poll_handle: the flag that goes with an end's event
HandleFlags(e) == IF e = "r" THEN {"in"} ELSE {"out"}

\* The flags pipe_get_poll_status returns
Status(e, info) == IF ~info.up THEN {"in", "out", "hup"}
                   ELSE IF Signalled(e, info) THEN HandleFlags(e) ELSE {}

Ready == {r \in End \X {"in", "out", "hup"} : r[2] \in Status(r[1], Info)}

ChannelsInit ==
  /\ pipe = [data |-> 0, table |-> End, nonblock |-> {}]
  /\ event = [e \in End |-> FALSE]
  /\ efds = <<>> /\ cth = [t \in Poller |-> NoCall] /\ calls = ChannelCalls
  /\ wrong = {"w"}                          \* write_event is created clear
  /\ was = [t \in Poller |-> {}]

BeginCall(t, c) == cth[t].at = "idle" /\ calls > 0 /\ calls' = calls - 1 /\ cth' = [cth EXCEPT ![t] = c]
StepCall(t, at, c) == cth[t].at = at /\ cth' = [cth EXCEPT ![t] = c] /\ UNCHANGED calls
\* Ends a transfer with result r: pipe_update_events comes next
Update(t, r) == [cth[t] EXCEPT !.at = "query", !.num = r]

-----------------------------------------------------------------------------
\* pipe_read and pipe_write up to the transfer.  pipe_write on the read end
\* sets -EBADF and goes on
pipe_read(t, e, n) ==
  /\ e \in pipe.table
  /\ LET c == [NoCall EXCEPT !.call = "read", !.end = e, !.n = n, !.holds = {e}]
     IN  BeginCall(t, IF e = "w" THEN [c EXCEPT !.at = "query", !.num = EBADF]
                  ELSE IF e \in pipe.nonblock /\ ~event["r"] THEN [c EXCEPT !.at = "query", !.num = EAGAIN]
                  ELSE [c EXCEPT !.at = "ReadFile"])
  /\ UNCHANGED <<pipe, event, efds, wrong>>

pipe_write(t, e, n) ==
  /\ e \in pipe.table
  /\ LET c == [NoCall EXCEPT !.call = "write", !.end = e, !.n = n, !.holds = {e}]
     IN  BeginCall(t, IF e \notin pipe.nonblock THEN [c EXCEPT !.at = "WriteFile"]
                  ELSE IF ~event["w"] THEN [c EXCEPT !.at = "query", !.num = EAGAIN]
                  ELSE [c EXCEPT !.at = "room"])
  /\ UNCHANGED <<pipe, event, efds, wrong>>

\* A write that may not wait asks for room first
WriteRoom(t) ==
  LET c == cth[t] IN
  /\ StepCall(t, "room", IF ~Info.up THEN Update(t, EPIPE)
                     ELSE IF Quota - pipe.data < FX!Min({PIPE_BUF, c.n}) THEN Update(t, EAGAIN)
                     ELSE [c EXCEPT !.at = "WriteFile"])
  /\ UNCHANGED <<pipe, event, efds, wrong>>

\* ReadFile waits for a byte, or ERROR_BROKEN_PIPE: the read returns 0
ReadFile(t) ==
  LET k == FX!Min({cth[t].n, pipe.data}) IN
  /\ pipe.data > 0 \/ "w" \notin Open
  /\ StepCall(t, "ReadFile", Update(t, k)) /\ pipe' = [pipe EXCEPT !.data = @ - k]
  /\ UNCHANGED <<event, efds, wrong>>

\* WriteFile that is taken to have left the events as they are
WriteFile_NoUpdate(t) ==
  LET c == cth[t] IN
  \/ /\ c.end = "r" \/ "r" \notin Open
     /\ StepCall(t, "WriteFile", Update(t, IF c.end = "r" THEN EIO ELSE EPIPE))
     /\ UNCHANGED <<pipe, event, efds, wrong>>
  \/ /\ c.end = "w" /\ "r" \in Open /\ pipe.data + c.n <= Quota
     /\ StepCall(t, "WriteFile", [c EXCEPT !.at = "return", !.num = c.n])
     /\ pipe' = [pipe EXCEPT !.data = @ + c.n]
     /\ UNCHANGED <<event, efds, wrong>>

\* WriteFile waits for room; a read handle is refused, and so is a pipe
\* without a reader
WriteFile(t) ==
  LET c == cth[t] IN
  \/ /\ c.end = "r" \/ "r" \notin Open
     /\ StepCall(t, "WriteFile", Update(t, IF c.end = "r" THEN EIO ELSE EPIPE))
     /\ UNCHANGED <<pipe, event, efds, wrong>>
  \/ /\ c.end = "w" /\ "r" \in Open /\ pipe.data + c.n <= Quota
     /\ StepCall(t, "WriteFile", Update(t, c.n))
     /\ pipe' = [pipe EXCEPT !.data = @ + c.n]
     /\ UNCHANGED <<event, efds, wrong>>

\* pipe_update_events and pipe_get_poll_status: the query and the two stores
Query(t) ==
  /\ StepCall(t, "query", [cth[t] EXCEPT !.at = "set_r", !.info = Info])
  /\ UNCHANGED <<pipe, event, efds, wrong>>

Store(t, at, e, next) ==
  LET on == Signalled(e, cth[t].info) IN
  /\ StepCall(t, at, [cth[t] EXCEPT !.at = next])
  /\ event' = [event EXCEPT ![e] = on]
  /\ wrong' = IF on = Signalled(e, Info) THEN wrong \ {e} ELSE wrong \cup {e}
  /\ UNCHANGED <<pipe, efds>>
StoreRead(t) == Store(t, "set_r", "r", "set_w")
StoreWrite(t) == Store(t, "set_w", "w", cth[t].then)

\* The call returns and gives its references back; pipe_close, which may be
\* part of that, and close leave the events of the other end alone
Outdated == wrong' = wrong \cup {e \in End : Signalled(e, Info) # Signalled(e, Info')}
ReturnCall(t) ==
  /\ StepCall(t, "return", NoCall) /\ UNCHANGED <<pipe, event, efds>>
  /\ Outdated

Close(t, e) ==
  /\ e \in pipe.table /\ BeginCall(t, NoCall)
  /\ pipe' = [pipe EXCEPT !.table = @ \ {e}]
  /\ Outdated /\ UNCHANGED <<event, efds>>

F_SETFL(t, e) ==
  /\ e \in pipe.table /\ BeginCall(t, NoCall)
  /\ pipe' = [pipe EXCEPT !.nonblock = (@ \cup {e}) \ (@ \cap {e})]
  /\ UNCHANGED <<event, efds, wrong>>

-----------------------------------------------------------------------------
\* epoll_ctl: a descriptor that is closed is refused, for EPOLL_CTL_DEL too.
\* The list changes under the file's lock, which epoll_wait does not take
epoll_ctl(t, list) ==
  /\ cth[t].at = "idle" /\ calls > 0 /\ calls' = calls - 1
  /\ efds' = list
  /\ cth' = [u \in Poller |-> [cth[u] EXCEPT !.moved = cth[u].call = "epoll" \/ @]]
  /\ UNCHANGED <<pipe, event, wrong>>

Entries(fd) == {i \in DOMAIN efds : efds[i].fd = fd}
epollfd_ctl_add(t, fd, ev) ==
  fd \in pipe.table /\ Entries(fd) = {} /\ epoll_ctl(t, Append(efds, [fd |-> fd, events |-> ev]))
epollfd_ctl_mod(t, fd, ev) ==
  /\ fd \in pipe.table
  /\ \E i \in Entries(fd) : efds[i].events # ev /\ epoll_ctl(t, [efds EXCEPT ![i].events = ev])
epollfd_ctl_del(t, fd) ==
  /\ fd \in pipe.table
  /\ \E i \in Entries(fd) : epoll_ctl(t, SubSeq(efds, 1, i - 1) \o SubSeq(efds, i + 1, Len(efds)))

-----------------------------------------------------------------------------
\* The calls that wait.  Each makes an array of pollfds and gives it to
\* vfs_ppoll
PollCall(call, pfds, limited) ==
  [NoCall EXCEPT !.at = "scan", !.call = call, !.limited = limited,
                 !.pfds = [i \in DOMAIN pfds |-> [fd |-> pfds[i].fd, events |-> pfds[i].events, revents |-> {}]]]

poll(t, pfds, limited) ==
  /\ BeginCall(t, PollCall("poll", pfds, limited))
  /\ UNCHANGED <<pipe, event, efds, wrong>>

\* vfs_pselect6: the descriptors of the three sets, in order
AskedOf(s, fd) == {x \in {"in", "out", "err"} : fd \in s[CASE x = "in" -> 1 [] x = "out" -> 2 [] OTHER -> 3]}
AskFor(s, fd) == IF AskedOf(s, fd) = {} THEN <<>> ELSE <<[fd |-> fd, events |-> AskedOf(s, fd)]>>
select(t, s, limited) ==
  /\ BeginCall(t, [PollCall("select", AskFor(s, "r") \o AskFor(s, "w"), limited) EXCEPT !.sets = s])
  /\ UNCHANGED <<pipe, event, efds, wrong>>

\* epoll_pwait reads fd_count for the size of the array and then the list, both
\* without the lock: entries that are gone by then stay as the stack was
epoll_wait(t, max, limited) ==
  /\ BeginCall(t, [NoCall EXCEPT !.at = "copy", !.call = "epoll", !.limited = limited, !.n = max, !.i = Len(efds)])
  /\ UNCHANGED <<pipe, event, efds, wrong>>

epollfd_to_pollfds(t) ==
  /\ \E junk \in [fd : End \cup {NoFd}, events : {{}, {"in"}}] :
       LET Copied(i) == IF i <= Len(efds) THEN efds[i] ELSE junk
           n == cth[t].i
       IN  StepCall(t, "copy", [PollCall("epoll", [i \in 1 .. n |-> Copied(i)], cth[t].limited) EXCEPT
                              !.n = cth[t].n, !.moved = cth[t].moved])
  /\ UNCHANGED <<pipe, event, efds, wrong>>

-----------------------------------------------------------------------------
\* vfs_ppoll: one descriptor after the other
Scan(t) ==
  LET c == cth[t]
      fd == c.pfds[c.i].fd
  IN  /\ c.at = "scan" /\ c.i <= Len(c.pfds)
      /\ StepCall(t, "scan",
              IF fd = NoFd THEN [c EXCEPT !.i = @ + 1]
              ELSE IF fd \notin pipe.table
                THEN [c EXCEPT !.i = @ + 1, !.num = @ + 1, !.pfds[c.i].revents = {"nval"}]
              ELSE [c EXCEPT !.at = "query", !.then = "scanned", !.end = fd, !.holds = @ \cup {fd}])
      /\ UNCHANGED <<pipe, event, efds, wrong>>

\* The answer of get_poll_status: ready, or one more handle to wait for
Scanned(t) ==
  LET c == cth[t]
      p == c.pfds[c.i]
      e == p.events \cap Status(c.end, c.info)
  IN  /\ StepCall(t, "scanned",
              IF e # {} THEN [c EXCEPT !.at = "scan", !.i = @ + 1, !.num = @ + 1, !.done = TRUE,
                                       !.pfds[c.i].revents = e]
              ELSE [c EXCEPT !.at = "scan", !.i = @ + 1,
                      !.handles = IF p.events \cap HandleFlags(c.end) # {} THEN Append(@, c.i) ELSE @])
      /\ UNCHANGED <<pipe, event, efds, wrong>>

ScanEnd(t) ==
  LET c == cth[t] IN
  /\ c.at = "scan" /\ c.i > Len(c.pfds)
  /\ StepCall(t, "scan", [c EXCEPT !.at = IF c.handles # <<>> /\ ~c.done THEN "wait" ELSE "answer"])
  /\ UNCHANGED <<pipe, event, efds, wrong>>

\* signal_wait: the first handle that is signalled, the limit, or a signal
Hit(c) == {k \in DOMAIN c.handles : event[c.pfds[c.handles[k]].fd]}
WaitObject(t) ==
  LET c == cth[t]
      i == c.handles[FX!Min(Hit(c))]
  IN  /\ c.at = "wait" /\ Hit(c) # {}
      /\ StepCall(t, "wait", [c EXCEPT !.at = "query", !.then = "checked", !.i = i, !.end = c.pfds[i].fd])
      /\ UNCHANGED <<pipe, event, efds, wrong>>
WaitTimeout(t) ==
  /\ cth[t].at = "wait" /\ cth[t].limited /\ Hit(cth[t]) = {}
  /\ StepCall(t, "wait", [cth[t] EXCEPT !.at = "answer", !.num = 0])
  /\ UNCHANGED <<pipe, event, efds, wrong>>
WaitSignal(t) ==
  /\ StepCall(t, "wait", [cth[t] EXCEPT !.at = "answer", !.num = EINTR])
  /\ UNCHANGED <<pipe, event, efds, wrong>>

\* The state is queried again after the wait; if it was for nothing the wait
\* goes on, or gives up when the limit has passed meanwhile
Checked(t) ==
  LET c == cth[t]
      e == c.pfds[c.i].events \cap Status(c.end, c.info)
  IN  /\ c.at = "checked"
      /\ \/ e # {} /\ StepCall(t, "checked", [c EXCEPT !.at = "answer", !.num = @ + 1, !.pfds[c.i].revents = e])
         \/ e = {} /\ StepCall(t, "checked", [c EXCEPT !.at = "wait"])
         \/ e = {} /\ c.limited /\ StepCall(t, "checked", [c EXCEPT !.at = "answer"])
      /\ UNCHANGED <<pipe, event, efds, wrong>>

-----------------------------------------------------------------------------
\* The answers.  select clears its sets in any case and refills them
AnswerPoll(t) ==
  /\ cth[t].call = "poll" /\ StepCall(t, "answer", [cth[t] EXCEPT !.at = "return"])
  /\ UNCHANGED <<pipe, event, efds, wrong>>

AnswerSelect(t) ==
  LET c == cth[t]
      Bits(k, x) == {fd \in c.sets[k] : c.num > 0 /\ \E i \in DOMAIN c.pfds :
                                          c.pfds[i].fd = fd /\ x \in c.pfds[i].revents}
  IN  /\ c.call = "select"
      /\ StepCall(t, "answer", [c EXCEPT !.at = "return", !.sets = <<Bits(1, "in"), Bits(2, "out"), Bits(3, "err")>>])
      /\ UNCHANGED <<pipe, event, efds, wrong>>

\* The events epollfd_to_events copies out, at most max, walking the list as it
\* is now over the array as it was
Reported(pfds, max) ==
  LET hits == {i \in DOMAIN pfds \cap DOMAIN efds : pfds[i].revents # {}}
  IN  {[entry |-> i, events |-> pfds[i].revents, data |-> efds[i].fd] :
         i \in {k \in hits : Cardinality({j \in hits : j <= k}) <= max}}
AnswerEpoll(t) ==
  LET c == cth[t]
      out == Reported(c.pfds, c.n)
  IN  /\ c.call = "epoll"
      /\ StepCall(t, "answer", IF c.num < 0 THEN [c EXCEPT !.at = "return"]
                              ELSE [c EXCEPT !.at = "return", !.out = out, !.num = Cardinality(out)])
      /\ UNCHANGED <<pipe, event, efds, wrong>>

Thread(t) ==
  \/ \E e \in End, n \in 1 .. Quota : pipe_read(t, e, n) \/ pipe_write(t, e, n)
  \/ \E e \in End : Close(t, e) \/ F_SETFL(t, e) \/ epollfd_ctl_del(t, e)
  \/ \E e \in End, ev \in EventSet : epollfd_ctl_add(t, e, ev) \/ epollfd_ctl_mod(t, e, ev)
  \/ \E limited \in BOOLEAN :
       \/ \E p \in PollSet : poll(t, p, limited)
       \/ \E s \in SelectSet : select(t, s, limited)
       \/ \E max \in 1 .. 2 : epoll_wait(t, max, limited)
  \/ WriteRoom(t) \/ ReadFile(t) \/ WriteFile(t)
  \/ Query(t) \/ StoreRead(t) \/ StoreWrite(t) \/ ReturnCall(t)
  \/ epollfd_to_pollfds(t) \/ Scan(t) \/ Scanned(t) \/ ScanEnd(t)
  \/ WaitObject(t) \/ WaitTimeout(t) \/ WaitSignal(t) \/ Checked(t)
  \/ AnswerPoll(t) \/ AnswerSelect(t) \/ AnswerEpoll(t)

ChannelsNext ==
  /\ \E t \in Poller : Thread(t)
  /\ was' = [t \in Poller |-> IF cth'[t].at = "idle" THEN {} ELSE was[t] \cup Ready \cup Ready']

ChannelsSpec == ChannelsInit /\ [][ChannelsNext]_channelVars

-----------------------------------------------------------------------------
\* "Signaled when there is read data available", "Signaled when there is write
\* data available" (pipe.c, struct pipe_file): unless the last store of an event
\* was made from a query that another transfer had overtaken, or an end was
\* closed since, an event tells the truth whenever no transfer is under way; so
\* a wait for it is not for ever
EventsAgree ==
  (\A t \in Poller : cth[t].at \notin {"query", "set_r", "set_w"} \/ cth[t].then # "return")
    => \A e \in End \ wrong : event[e] = Signalled(e, Info)

\* What poll, select and epoll_wait report was asked for and was so at some
\* moment of the call, though the event that ended the wait may have been stale;
\* an entry of epoll is reported once, under its own data, as long as no
\* epoll_ctl changed the list meanwhile, and never more entries than asked for
PollAnswers ==
  \A t \in Poller : LET c == cth[t] IN c.at = "return" =>
    /\ \A i \in DOMAIN c.pfds : \A x \in c.pfds[i].revents :
         x = "nval" \/ (x \in c.pfds[i].events /\ <<c.pfds[i].fd, x>> \in was[t])
    /\ c.call = "poll" /\ c.num > 0 => c.num = Cardinality({i \in DOMAIN c.pfds : c.pfds[i].revents # {}})
    /\ c.call = "select" => \A fd \in c.sets[1] : <<fd, "in">> \in was[t]
    /\ c.call = "epoll" => Cardinality(c.out) <= c.n
    /\ ~c.moved => \A k \in c.out :
         /\ \A x \in k.events : x = "nval" \/ <<k.data, x>> \in was[t]
         /\ \A j \in c.out : j.data = k.data => j = k
\* Waiting for pipes (vfs_ppoll, pipe.c): the events threads sleep on are right
\* and so are the answers they wake up with
PollExact == EventsAgree /\ PollAnswers
=============================================================================
