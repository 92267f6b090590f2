------------------------------- MODULE Sockets -------------------------------
(***************************************************************************)
(* The readiness of a socket (fs/socket.c).  Winsock announces a network   *)
(* event once, and again only after the call that answers it; the program  *)
(* collects the announcements with WSAEnumNetworkEvents, which forgets     *)
(* them and resets the socket's Windows event, into a word shared by the   *)
(* processes that share the socket.  Reads, writes, accept and connect     *)
(* hold the socket's mutex, while they sleep too; poll collects without it.*)
(*                                                                         *)
(* One socket, used by threads that may be in different processes, each of *)
(* which may be killed at any step.  Data and connections are counts.      *)
(* UNIX sockets are TCP over the loopback, whose port is in a file.        *)
(***************************************************************************)
EXTENDS Integers, FiniteSets

CONSTANTS Caller,        \* threads that share the socket
          SendRoom,      \* what the send buffer takes
          Arrivals,      \* bound: data or connections that arrive
          SocketCalls    \* bound: calls of all the threads

ASSUME SocketsAssumption ==
  /\ SendRoom \in Nat \ {0} /\ Arrivals \in Nat /\ SocketCalls \in Nat
  /\ "none" \notin Caller

VARIABLES net,             \* the socket as Winsock and the peer have it
          events,          \* shared->events
          connect_error,   \* shared->connect_error: TRUE when the peer refused
          smutex,          \* the thread with the socket's mutex, or "none"
          sth,             \* the call of each thread
          scalls,          \* calls left
          lost             \* history: events lost in a way that is known

socketVars == <<net, events, connect_error, smutex, sth, scalls, lost>>

-----------------------------------------------------------------------------
\* Winsock.  What may be received: data, or connections of a listening socket
Incoming(type) == IF type = "listening" THEN "ACCEPT" ELSE "READ"

\* An event that is armed is announced, and disarmed
Announce(n, e) ==
  IF e \in n.armed THEN [n EXCEPT !.recorded = @ \cup {e}, !.armed = @ \ {e}] ELSE n

\* A receiving call arms its event again, and announces it when more is there
Rearm(n) ==
  LET e == Incoming(n.type)
      a == [n EXCEPT !.armed = @ \cup {e}]
  IN  IF n.in > 0 THEN Announce(a, e) ELSE a

Present(e) ==
  CASE e = "READ" -> net.type # "listening" /\ net.in > 0
    [] e = "ACCEPT" -> net.type = "listening" /\ net.in > 0
    [] e = "WRITE" -> net.type # "listening" /\ net.conn = "up" /\ net.room > 0
    [] e = "CLOSE" -> net.closed
    [] e = "CONNECT" -> net.news

Arrive ==
  /\ net.conn = "up" /\ ~net.closed /\ net.left > 0
  /\ net' = Announce([net EXCEPT !.in = @ + 1, !.left = @ - 1], Incoming(net.type))
  /\ UNCHANGED <<events, connect_error, smutex, sth, scalls, lost>>

SendBufferDrains ==
  /\ net.conn = "up" /\ net.type # "listening" /\ net.room < SendRoom
  /\ net' = Announce([net EXCEPT !.room = @ + 1], "WRITE")
  /\ UNCHANGED <<events, connect_error, smutex, sth, scalls, lost>>

PeerCloses ==
  /\ net.conn = "up" /\ net.type = "stream" /\ ~net.closed
  /\ net' = Announce([net EXCEPT !.closed = TRUE], "CLOSE")
  /\ UNCHANGED <<events, connect_error, smutex, sth, scalls, lost>>

PeerAnswers ==
  /\ net.conn = "trying"
  /\ \/ net' = Announce(Announce([net EXCEPT !.conn = "up", !.news = TRUE], "CONNECT"), "WRITE")
     \/ net' = Announce([net EXCEPT !.conn = "refused", !.news = TRUE], "CONNECT")
  /\ UNCHANGED <<events, connect_error, smutex, sth, scalls, lost>>

-----------------------------------------------------------------------------
NoSocketCall == [at |-> "idle", op |-> "none", peek |-> FALSE, block |-> TRUE, e |-> {},
                 seen |-> FALSE, robbed |-> FALSE, res |-> "none"]

\* A socket that is connected or listens, or has yet to connect
SocketsInit ==
  /\ \E type \in {"stream", "dgram", "listening"}, c \in {"new", "up"} :
       /\ c = "new" => type = "stream"
       /\ net = [type |-> type, conn |-> c, in |-> 0, room |-> SendRoom, closed |-> FALSE,
                 news |-> FALSE, left |-> Arrivals,
                 recorded |-> IF c = "up" /\ type # "listening" THEN {"WRITE"} ELSE {},
                 armed |-> {"READ", "ACCEPT", "CLOSE", "CONNECT"}
                             \cup IF c = "new" THEN {"WRITE"} ELSE {}]
  /\ events = {} /\ connect_error = FALSE /\ smutex = "none" /\ lost = {} /\ scalls = SocketCalls
  /\ sth = [t \in Caller |-> NoSocketCall]

SGo(t, from, c) == sth[t].at = from /\ sth' = [sth EXCEPT ![t] = c]

\* What socket_wait_event waits for in each call
Wanted(op) ==
  CASE op \in {"recvfrom", "recvmsg"} -> {"READ", "CLOSE"}
    [] op \in {"sendto", "sendmsg"} -> {"WRITE"}
    [] op = "accept4" -> {"ACCEPT"}
    [] op = "connect" -> {"CONNECT"}
    [] OTHER -> {}

\* The event a call takes out of the word: recvfrom before it receives, unless
\* it peeks, the others when Winsock has nothing for them
ClearsFirst(c) == c.op = "recvfrom" /\ ~c.peek
Cleared(op) ==
  CASE op \in {"recvfrom", "recvmsg"} -> "READ"
    [] op \in {"sendto", "sendmsg"} -> "WRITE"
    [] op = "accept4" -> "ACCEPT"

\* recvmsg of a stream is recvfrom
CallsOf(type) ==
  CASE type = "listening" -> {"accept4", "poll"}
    [] type = "stream" -> {"recvfrom", "sendto", "poll"}
    [] type = "dgram" -> {"recvfrom", "recvmsg", "sendmsg", "poll"}

BeginSocketCall(t, op, peek, block) ==
  /\ scalls > 0 /\ scalls' = scalls - 1
  /\ IF net.conn = "up" THEN op \in CallsOf(net.type)
     ELSE op = "poll" \/ (op = "connect" /\ net.conn = "new")
  /\ op # "recvfrom" => ~peek
  /\ SGo(t, "idle", [NoSocketCall EXCEPT !.at = IF op = "poll" THEN "enumerate" ELSE "lock",
                        !.op = op, !.peek = peek, !.block = block])
  /\ UNCHANGED <<net, events, connect_error, smutex, lost>>

\* WaitForSingleObject(mutex)
LockSocket(t) ==
  /\ smutex = "none" /\ smutex' = t
  /\ SGo(t, "lock", [sth[t] EXCEPT !.at = IF sth[t].op = "connect" THEN "connect" ELSE "enumerate"])
  /\ UNCHANGED <<net, events, connect_error, scalls, lost>>

\* socket_update_events_unsafe: WSAEnumNetworkEvents and the error of a connect.
\* A thread that is about to sleep on the Windows event, or sleeps, is robbed of
\* what another collects, or has collected and not yet put into the word
Collect(t) ==
  /\ sth[t].at = "enumerate"
  /\ sth' = [u \in Caller |->
       IF u = t THEN [sth[t] EXCEPT !.at = "or", !.e = net.recorded,
                                         !.robbed = \E v \in Caller : sth[v].e # {}]
       ELSE IF sth[u].at \in {"or", "wait"} /\ net.recorded # {}
            THEN [sth[u] EXCEPT !.robbed = TRUE] ELSE sth[u]]
  /\ net' = [net EXCEPT !.recorded = {}]
  /\ connect_error' = IF "CONNECT" \in net.recorded THEN net.conn = "refused" ELSE connect_error
  /\ lost' = lost \ net.recorded
  /\ UNCHANGED <<events, smutex, scalls>>

\* The rest of socket_wait_event: where a call goes on once the word is `now`
AfterUpdate(c, now) ==
  IF c.op = "poll" THEN NoSocketCall
  ELSE IF Wanted(c.op) \cap now = {}
       THEN IF c.block THEN [c EXCEPT !.at = "wait"]
            ELSE [c EXCEPT !.at = "unlock", !.res = "EWOULDBLOCK"]
  ELSE [c EXCEPT !.at = CASE c.op = "connect" -> "unlock"
                          [] ClearsFirst(c) -> "clear"
                          [] OTHER -> "call",
                 !.res = IF c.op # "connect" THEN c.res
                         ELSE IF connect_error THEN "error" ELSE "ok"]

\* The word becomes `now`: what a thread that is about to clear its event has
\* not seen, the report of a connect, and what the call makes of it
UpdateEvents(t, now) ==
  LET c == sth[t]
      reported == c.op = "connect" /\ "CONNECT" \in now
  IN  /\ c.at = "or"
      /\ sth' = [u \in Caller |->
           IF u = t THEN [AfterUpdate(c, now) EXCEPT !.e = {}]
           ELSE [sth[u] EXCEPT !.seen = @ \/ (sth[u].at = "clear" /\ Cleared(sth[u].op) \in c.e)]]
      /\ events' = IF reported THEN now \ {"CONNECT"} ELSE now
      /\ connect_error' = (connect_error /\ ~reported)
      /\ net' = [net EXCEPT !.news = @ /\ ~reported]
      /\ UNCHANGED <<smutex, scalls, lost>>

\* A word that forgets what was collected before
MergeEvents_Stores(t) == UpdateEvents(t, sth[t].e)

\* InterlockedOr
MergeEvents(t) == UpdateEvents(t, events \cup sth[t].e)

\* signal_wait on the Windows event, which is set while events are recorded
Woken(t) ==
  /\ net.recorded # {} /\ SGo(t, "wait", [sth[t] EXCEPT !.at = "enumerate"])
  /\ UNCHANGED <<net, events, connect_error, smutex, scalls, lost>>

\* A signal; connect returns the error that its own call left
Interrupted(t) ==
  /\ SGo(t, "wait", [sth[t] EXCEPT !.at = "unlock",
                        !.res = IF sth[t].op = "connect" THEN "EWOULDBLOCK" ELSE "EINTR"])
  /\ UNCHANGED <<net, events, connect_error, smutex, scalls, lost>>

\* InterlockedAnd.  After a call that found nothing, what came since is lost when
\* another thread has put it into the word
ClearEvent(t) ==
  LET c == sth[t]  e == Cleared(c.op)  first == ClearsFirst(c)  IN
  /\ SGo(t, "clear", [c EXCEPT !.at = IF first THEN "call"
                                      ELSE IF c.res = "error" THEN "unlock" ELSE "enumerate",
                               !.seen = FALSE])
  /\ events' = events \ {e}
  /\ lost' = IF ~first /\ c.seen THEN lost \cup {e} ELSE lost
  /\ UNCHANGED <<net, connect_error, smutex, scalls>>

\* recvfrom and WSARecvMsg: something, the end of the stream, or nothing
Receive(t) ==
  LET c == sth[t]  IN
  /\ c.op \in {"recvfrom", "recvmsg"}
  /\ IF net.in > 0
     THEN /\ net' = Rearm([net EXCEPT !.in = IF c.peek THEN @ ELSE @ - 1])
          /\ SGo(t, "call", [c EXCEPT !.at = "unlock", !.res = "ok"])
     ELSE /\ net' = Rearm(net)
          /\ SGo(t, "call", [c EXCEPT !.at = IF net.closed THEN "unlock"
                                             ELSE IF c.op = "recvfrom" THEN "enumerate" ELSE "clear"])
  /\ UNCHANGED <<events, connect_error, smutex, scalls, lost>>

\* Any other error: recvmsg still clears its event
ReceiveFails(t) ==
  LET c == sth[t]  IN
  /\ c.op \in {"recvfrom", "recvmsg"}
  /\ net' = Rearm(net)
  /\ SGo(t, "call", [c EXCEPT !.at = IF c.op = "recvmsg" THEN "clear" ELSE "unlock", !.res = "error"])
  /\ UNCHANGED <<events, connect_error, smutex, scalls, lost>>

\* accept: a connection becomes a socket of its own, or is closed when there is
\* no event or descriptor for it; or an error, or nothing
Accept(t) ==
  LET c == sth[t]  IN
  /\ c.op = "accept4"
  /\ \/ /\ net.in > 0 /\ net' = Rearm([net EXCEPT !.in = @ - 1])
        /\ \E r \in {"ok", "error"} : SGo(t, "call", [c EXCEPT !.at = "unlock", !.res = r])
     \/ /\ net' = Rearm(net)
        /\ SGo(t, "call", [c EXCEPT !.at = "unlock", !.res = "error"])
     \/ /\ net.in = 0 /\ net' = Rearm(net)
        /\ SGo(t, "call", [c EXCEPT !.at = "clear"])
  /\ UNCHANGED <<events, connect_error, smutex, scalls, lost>>

\* sendto, WSASendMsg
Send(t) ==
  LET c == sth[t]  IN
  /\ c.op \in {"sendto", "sendmsg"}
  /\ IF net.room > 0
     THEN /\ net' = [net EXCEPT !.room = @ - 1]
          /\ SGo(t, "call", [c EXCEPT !.at = "unlock", !.res = "ok"])
     ELSE /\ net' = [net EXCEPT !.armed = @ \cup {"WRITE"}]
          /\ SGo(t, "call", [c EXCEPT !.at = "clear"])
  /\ UNCHANGED <<events, connect_error, smutex, scalls, lost>>

\* connect: an error at once, or an answer to wait for
Connect(t) ==
  /\ \/ /\ net.conn = "new" /\ net' = [net EXCEPT !.conn = "trying"]
        /\ SGo(t, "connect", IF sth[t].block THEN [sth[t] EXCEPT !.at = "enumerate"]
                             ELSE [sth[t] EXCEPT !.at = "unlock", !.res = "EINPROGRESS"])
     \/ SGo(t, "connect", [sth[t] EXCEPT !.at = "unlock", !.res = "error"]) /\ UNCHANGED net
  /\ UNCHANGED <<events, connect_error, smutex, scalls, lost>>

UnlockSocket(t) ==
  /\ smutex' = "none"
  /\ SGo(t, "unlock", IF sth[t].op = "connect" THEN [NoSocketCall EXCEPT !.op = "connect", !.res = sth[t].res]
                     ELSE NoSocketCall)
  /\ UNCHANGED <<net, events, connect_error, scalls, lost>>

\* The process of a thread is killed: the mutex is abandoned to the next, and
\* what the thread had collected, or cleared to receive, is lost
KillCaller(t) ==
  LET c == sth[t]  IN
  /\ c.at \notin {"idle", "dead"} /\ (\E u \in Caller : u # t /\ sth[u].at # "dead")
  /\ sth' = [sth EXCEPT ![t] = [NoSocketCall EXCEPT !.at = "dead"]]
  /\ smutex' = IF smutex = t THEN "none" ELSE smutex
  /\ lost' = lost \cup c.e \cup IF c.at = "call" /\ ClearsFirst(c) THEN {"READ"} ELSE {}
  /\ UNCHANGED <<net, events, connect_error, scalls>>

SocketsNext ==
  \/ Arrive \/ SendBufferDrains \/ PeerCloses \/ PeerAnswers
  \/ \E t \in Caller :
       \/ \E op \in {"recvfrom", "recvmsg", "sendto", "sendmsg", "accept4", "connect"},
             peek, block \in BOOLEAN : BeginSocketCall(t, op, peek, block)
       \/ BeginSocketCall(t, "poll", FALSE, FALSE)
       \/ LockSocket(t) \/ Collect(t) \/ MergeEvents(t) \/ Woken(t) \/ Interrupted(t)
       \/ ClearEvent(t) \/ Receive(t) \/ ReceiveFails(t) \/ Accept(t) \/ Send(t) \/ Connect(t)
       \/ UnlockSocket(t) \/ KillCaller(t)

-----------------------------------------------------------------------------
\* Data, room, connections and the peer's answer stay visible to whoever looks
\* next, in the word, in Winsock's record, or in the hands of a thread that is
\* on its way: nothing is announced twice, so an event that falls between two
\* processes is never seen again
ReadinessKept ==
  \A e \in {"READ", "WRITE", "ACCEPT", "CLOSE", "CONNECT"} :
    Present(e) /\ e \notin lost =>
      \/ e \in events \cup net.recorded
      \/ \E t \in Caller : e \in sth[t].e
      \/ \E t \in Caller : e = "READ" /\ sth[t].at = "call" /\ ClearsFirst(sth[t])

\* A call does not sleep while what it waits for is there, unless another thread
\* took the announcement (socket_wait_event)
SleepersWoken ==
  \A t \in Caller :
    sth[t].at = "wait" /\ (\E e \in Wanted(sth[t].op) : Present(e) /\ e \notin lost)
      => net.recorded # {} \/ sth[t].robbed

\* A connect that returns 0 is connected, whoever collected the answer
ConnectTruthful ==
  \A t \in Caller : sth[t].op = "connect" /\ sth[t].res = "ok" => net.conn = "up"

\* socket.c keeps the readiness of a socket
SocketsExact == ReadinessKept /\ SleepersWoken /\ ConnectTruthful
=============================================================================
