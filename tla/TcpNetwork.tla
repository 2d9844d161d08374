------------------------------ MODULE TcpNetwork ------------------------------
(***************************************************************************)
(* The TCP connector: the Network service of a core (common/network.hpp)   *)
(* with its five callbacks, the TcpClient and TcpServer actors of that core*)
(* (client/client.hpp, server/server.hpp) and the server processes, which  *)
(* are clients that a server creates for the connections it accepts.       *)
(*                                                                         *)
(* All of them run in one thread.  A callback takes several steps, one per *)
(* queue element, epoll event or read; between two of them run the handlers*)
(* of the clients, which may call anything, and the sockets change.        *)
(* Bytes are counted; CircularBuffer and Receiver model what becomes of    *)
(* them.  A call that throws is no step.                                   *)
(***************************************************************************)
EXTENDS Integers, Sequences, FiniteSets, SequencesExt, Functions

CONSTANTS
  Clients, Processes, Servers,
  Casts,      \* which clients and servers there are: one of these sets
  MaxFd,      \* bound: sockets
  SendBufferSize, MaxSendPerLoop, MaxReceivePerLoop,
  MaxUnread,  \* bound: full reads that wait in a socket
  Talkers,    \* bound: those whose other end sends
  Timeouts,   \* clients with a timeout
  Faults      \* system calls that may fail, and what users may do: see below

\* socket, connect, accept, modify: the system call fails
\* atonce: connect() succeeds at once;  partial: send() takes a part
\* giveUp: a client is disconnected or destroyed while its connection is pending
\* again: registerConnect() of a client whose data was not all sent before
\* listenTwice: stopListening() while the server is in the queue
ASSUME TcpAssumption ==
  /\ Clients \cap Processes = {} /\ Timeouts \subseteq Clients
  /\ MaxFd \in Nat /\ SendBufferSize \in Nat \ {0} /\ MaxSendPerLoop \in Nat \ {0} /\ MaxReceivePerLoop \in Nat \ {0}
  /\ Faults \subseteq {"socket", "connect", "accept", "modify", "atonce", "partial",
                       "giveUp", "again", "listenTwice"}

Fds       == 1 .. MaxFd
Peers     == Clients \cup Processes
Closed    == 0                \* FD_DISCONNECTED; no descriptor of Fds
Callbacks == {"connect", "pending", "send", "epoll", "listen"}

VARIABLES
  client,              \* members of the TcpClients
  server,              \* members of the TcpServers
  m_clientBySocket, m_serverBySocket,
  m_connectionPending, \* socket -> whether its connection may time out
  m_connectQueue, m_listenQueue, m_sendQueue, m_readQueue,
  registration,        \* m_isRegisteredFlag, and whether the actor will call
  running,             \* the callback under way, and what is left of its loops
  socket               \* external: the kernel's sockets

queues  == <<m_connectQueue, m_listenQueue, m_sendQueue, m_readQueue>>
tables  == <<m_clientBySocket, m_serverBySocket, m_connectionPending>>
tcpVars == <<client, server, tables, queues, registration, running, socket>>

NewClient ==
  [m_fd |-> Closed, m_connectingFlag |-> FALSE, m_inSendQueueFlag |-> FALSE,
   m_autoreadFlag |-> TRUE, m_messageToReadFlag |-> FALSE, m_inConnectQueueFlag |-> FALSE,
   content |-> 0, actor |-> "live"]   \* bytes in m_sender; state of the actor

NoSocket == [state |-> "free", out |-> FALSE, edge |-> FALSE, unread |-> 0]
Idle     == [callback |-> "none", events |-> {}, count |-> 0]
Nothing  == [f \in {} |-> 0]

TcpInit ==
  /\ \E cast \in Casts :
       /\ client = [c \in Peers |-> IF c \in cast THEN NewClient ELSE [NewClient EXCEPT !.actor = "none"]]
       /\ server = [s \in Servers |-> [m_fd |-> Closed, m_registeredListen |-> FALSE, m_serverProcesses |-> {},
                                       actor |-> IF s \in cast THEN "live" ELSE "gone"]]
  /\ m_clientBySocket = Nothing /\ m_serverBySocket = Nothing /\ m_connectionPending = Nothing
  /\ m_connectQueue = << >> /\ m_listenQueue = << >> /\ m_sendQueue = << >> /\ m_readQueue = << >>
  /\ registration = [m_isRegisteredFlag |-> {}, chain |-> {}]
  /\ running = Idle
  /\ socket = [f \in Fds |-> NoSocket]

-----------------------------------------------------------------------------
(* Maps from sockets, callbacks, members.                                  *)

Dropped(map, fds)     == [f \in DOMAIN map \ fds |-> map[f]]
Emplaced(map, f, x)   == IF f \in DOMAIN map THEN map ELSE [g \in DOMAIN map \cup {f} |-> IF g = f THEN x ELSE map[g]]
\* the kernel gives the lowest descriptor that is free
FreeFds               == {f \in Fds : socket[f].state = "free" /\ \A g \in 1 .. f - 1 : socket[g].state # "free"}
CloseAll(sockets, fds) == [f \in Fds |-> IF f \in fds THEN NoSocket ELSE sockets[f]]

registerCallbackOnce(r, callback) ==
  IF callback \in r.m_isRegisteredFlag THEN r
  ELSE [m_isRegisteredFlag |-> r.m_isRegisteredFlag \cup {callback}, chain |-> r.chain \cup {callback}]

\* The end of disconnect(), onConnectionTimedOut(), onConnectionLost() and
\* onDisconnected(): callbacks that nobody needs are taken out of the actor's
\* chain.  Callback::unregister() knows nothing of m_isRegisteredFlag.
Unregistered(r, clients, servers) ==
  [r EXCEPT !.chain = @ \ IF DOMAIN clients # {} THEN {}
                          ELSE IF DOMAIN servers # {} THEN {"send"} ELSE {"send", "epoll"}]

\* onConnectFailedBase(), onConnectTimedOutBase()
ConnectFailed(m)  == [m EXCEPT !.m_connectingFlag = FALSE, !.m_fd = Closed, !.content = 0]
\* onConnectionLostBase(), onDisconnectBase()
ConnectionLost(m) == [m EXCEPT !.m_fd = Closed, !.content = 0]
onConnectBase(m, f) == [m EXCEPT !.m_connectingFlag = FALSE, !.m_fd = f]
onListenStoppedBase(m) == [m EXCEPT !.m_fd = Closed]

-----------------------------------------------------------------------------
(* What a client or a server is called with.                               *)

\* User code runs between the callbacks and in the handlers of the epoll callback;
\* what handlers of the others call is called after them.
Live(c) == client[c].actor = "live" /\ running.callback \in {"none", "epoll"}

registerConnect(c) ==
  /\ Live(c) /\ client[c].m_fd = Closed /\ ~client[c].m_connectingFlag
  /\ "again" \notin Faults => ~client[c].m_inSendQueueFlag
  /\ c \in Clients
  /\ client' = [client EXCEPT ![c].m_connectingFlag = TRUE, ![c].m_inConnectQueueFlag = TRUE]
  /\ IF client[c].m_inConnectQueueFlag THEN UNCHANGED <<m_connectQueue, registration>>
     ELSE /\ m_connectQueue' = Append(m_connectQueue, c)
          /\ registration' = registerCallbackOnce(registration, "connect")
  /\ UNCHANGED <<server, tables, m_listenQueue, m_sendQueue, m_readQueue, running, socket>>

sendBase(c, size) ==
  /\ Live(c) /\ client[c].m_fd # Closed
  /\ client[c].content + size <= SendBufferSize
  /\ client' = [client EXCEPT ![c].content = @ + size, ![c].m_inSendQueueFlag = TRUE]
  /\ IF client[c].m_inSendQueueFlag THEN UNCHANGED <<m_sendQueue, registration>>
     ELSE /\ m_sendQueue' = Append(m_sendQueue, client[c].m_fd)
          /\ registration' = registerCallbackOnce(registration, "send")
  /\ UNCHANGED <<server, tables, m_connectQueue, m_listenQueue, m_readQueue, running, socket>>

setAutoRead(c, autoread) ==
  /\ Live(c) /\ c \in Talkers
  /\ client' = [client EXCEPT ![c].m_autoreadFlag = autoread]
  /\ UNCHANGED <<server, tables, queues, registration, running, socket>>

\* Mutant of disconnect: the socket stays in the table.
disconnectKeeps(fds) ==
  /\ socket' = CloseAll(socket, fds)
  /\ registration' = Unregistered(registration, Dropped(m_clientBySocket, fds), Dropped(m_serverBySocket, fds))
  /\ UNCHANGED <<m_clientBySocket, m_serverBySocket, m_connectionPending>>

\* Network::disconnect() of one socket or, one after the other, of several.  The
\* entry in m_connectionPending stays.
disconnect(fds) ==
  /\ socket' = CloseAll(socket, fds)
  /\ m_clientBySocket' = Dropped(m_clientBySocket, fds)
  /\ m_serverBySocket' = Dropped(m_serverBySocket, fds)
  /\ registration' = Unregistered(registration, m_clientBySocket', m_serverBySocket')
  /\ UNCHANGED m_connectionPending

\* The client is neither waiting for a connection nor is its socket still pending.
Settled(c) == ~client[c].m_connectingFlag /\ client[c].m_fd \notin DOMAIN m_connectionPending

\* The client after selfDestroy(), with the disconnectBase() it leads to when there
\* is a socket: requestDestroy() was called, and m_destroyCallback calls it again.
selfDestroyed(m) ==
  IF m.m_fd = Closed THEN [m EXCEPT !.actor = "leaving"]
  ELSE [m EXCEPT !.content = 0, !.m_fd = Closed, !.m_connectingFlag = FALSE, !.actor = "leaving"]

\* destroy() and DestroyRequestEvent
selfDestroy(c) ==
  /\ Live(c)
  /\ "giveUp" \notin Faults => Settled(c)
  /\ client' = [client EXCEPT ![c] = selfDestroyed(@)]
  /\ IF client[c].m_fd = Closed THEN UNCHANGED <<socket, tables, registration>> ELSE disconnect({client[c].m_fd})
  /\ UNCHANGED <<server, queues, running>>

\* disconnect() of a client always ends in selfDestroy()
disconnectBase(c) ==
  /\ Live(c)
  /\ "giveUp" \notin Faults => Settled(c)
  /\ client' = [client EXCEPT ![c] = [selfDestroyed(@) EXCEPT !.content = 0, !.m_connectingFlag = FALSE]]
  /\ IF client[c].m_fd = Closed THEN UNCHANGED <<socket, tables, registration>> ELSE disconnect({client[c].m_fd})
  /\ UNCHANGED <<server, queues, running>>

\* The actor is destroyed: onDestroyRequest() closes what was opened since, and accepts.
onDestroyRequest(c) ==
  /\ client[c].actor = "leaving" /\ running = Idle
  /\ client' = [client EXCEPT ![c] = [NewClient EXCEPT !.actor = "gone"]]
  /\ IF client[c].m_fd = Closed THEN UNCHANGED <<socket, tables, registration>> ELSE disconnect({client[c].m_fd})
  /\ UNCHANGED <<server, queues, running>>

-----------------------------------------------------------------------------

registerListen(s) ==
  /\ server[s].actor = "live" /\ running.callback \in {"none", "epoll"}
  /\ ~server[s].m_registeredListen /\ server[s].m_fd = Closed
  /\ server' = [server EXCEPT ![s].m_registeredListen = TRUE]
  /\ m_listenQueue' = Append(m_listenQueue, s)
  /\ registration' = registerCallbackOnce(registration, "listen")
  /\ UNCHANGED <<client, tables, m_connectQueue, m_sendQueue, m_readQueue, running, socket>>

\* disconnect() also when there is no socket: of FD_DISCONNECTED, which is not open.
stopListening(s) ==
  /\ server[s].actor = "live" /\ running.callback \in {"none", "epoll"}
  /\ "listenTwice" \notin Faults => ~server[s].m_registeredListen
  /\ server' = [server EXCEPT ![s].m_registeredListen = FALSE, ![s].m_fd = Closed]
  /\ disconnect({server[s].m_fd})
  /\ UNCHANGED <<client, queues, running>>

\* onDestroyRequest() of a server: stopListening(), then destroy() of the processes.
ServerDestroyed(s) ==
  LET ends == {p \in server[s].m_serverProcesses : client[p].actor # "gone"}
  IN
  /\ server[s].actor = "live" /\ running = Idle
  /\ "listenTwice" \notin Faults => ~server[s].m_registeredListen
  /\ "giveUp" \notin Faults => \A p \in ends : Settled(p)
  /\ server' = [server EXCEPT ![s].m_registeredListen = FALSE, ![s].m_fd = Closed, ![s].actor = "gone"]
  /\ client' = [c \in Peers |-> IF c \in ends THEN selfDestroyed(client[c]) ELSE client[c]]
  /\ disconnect({server[s].m_fd} \cup {client[p].m_fd : p \in ends})
  /\ UNCHANGED <<queues, running>>

\* onEvent(DestroyNotificationEvent), which selfDestroy() of the process pushed
DestroyNotification(s, p) ==
  /\ running = Idle /\ server[s].actor = "live"
  /\ p \in server[s].m_serverProcesses /\ client[p].actor \in {"leaving", "gone"}
  /\ server' = [server EXCEPT ![s].m_serverProcesses = @ \ {p}]
  /\ UNCHANGED <<client, tables, queues, registration, running, socket>>

-----------------------------------------------------------------------------
(* Callbacks.                                                              *)

\* onCallback() of one of the five
Call(callback) ==
  /\ running = Idle /\ callback \in registration.chain
  /\ registration' = [m_isRegisteredFlag |-> registration.m_isRegisteredFlag \ {callback},
                      chain |-> registration.chain \ {callback}]
  /\ running' = [Idle EXCEPT !.callback = callback, !.count = IF callback = "send" THEN MaxSendPerLoop ELSE 0]
  /\ UNCHANGED <<client, server, tables, queues, socket>>

\* onConnectCallback(), one client: what fails before the socket is known
ConnectFails ==
  LET c == Head(m_connectQueue) IN
  /\ running.callback = "connect" /\ m_connectQueue # << >> /\ "socket" \in Faults
  /\ m_connectQueue' = Tail(m_connectQueue)
  /\ client' = [client EXCEPT ![c] = [ConnectFailed(@) EXCEPT !.m_inConnectQueueFlag = FALSE]]
  /\ UNCHANGED <<server, tables, m_listenQueue, m_sendQueue, m_readQueue, registration, running, socket>>

\* connect() fails: the socket is known and goes at once, with onDisconnected()
ConnectRefused ==
  LET c == Head(m_connectQueue) IN
  /\ running.callback = "connect" /\ m_connectQueue # << >> /\ "connect" \in Faults
  /\ m_connectQueue' = Tail(m_connectQueue)
  /\ \E f \in FreeFds :
       /\ client' = [[client EXCEPT ![c].m_inConnectQueueFlag = FALSE]
                       EXCEPT ![Emplaced(m_clientBySocket, f, c)[f]] = ConnectFailed(@)]
       /\ m_clientBySocket' = Dropped(m_clientBySocket, {f})
       /\ m_connectionPending' = Dropped(m_connectionPending, {f})
  /\ registration' = Unregistered(registration, m_clientBySocket', m_serverBySocket)
  /\ UNCHANGED <<server, m_serverBySocket, m_listenQueue, m_sendQueue, m_readQueue, running, socket>>

\* connect() is under way or, with atonce, done, and with it onCompleteConnection()
Connect(atonce) ==
  LET c == Head(m_connectQueue) IN
  /\ running.callback = "connect" /\ m_connectQueue # << >>
  /\ atonce => "atonce" \in Faults
  /\ m_connectQueue' = Tail(m_connectQueue)
  /\ \E f \in FreeFds :
       /\ socket' = [socket EXCEPT ![f] = [NoSocket EXCEPT !.state = IF atonce THEN "up" ELSE "connecting", !.out = TRUE]]
       /\ m_clientBySocket' = Emplaced(m_clientBySocket, f, c)
       /\ m_connectionPending' = Emplaced(m_connectionPending, f, c \in Timeouts)
       /\ client' = [client EXCEPT ![c] =
            [(IF atonce THEN onConnectBase(@, f) ELSE @) EXCEPT !.m_inConnectQueueFlag = FALSE]]
  /\ registration' = registerCallbackOnce(registerCallbackOnce(registration, "epoll"), "pending")
  /\ UNCHANGED <<server, m_serverBySocket, m_listenQueue, m_sendQueue, m_readQueue, running>>

ConnectEnd ==
  /\ running.callback = "connect" /\ m_connectQueue = << >>
  /\ running' = Idle
  /\ UNCHANGED <<client, server, tables, queues, registration, socket>>

\* onPendingConnectionCallback(): late are the connections that timed out, each
\* of which onConnectionTimedOut() ends.
onPendingConnectionCallback ==
  /\ running.callback = "pending"
  /\ \E late \in SUBSET {f \in DOMAIN m_connectionPending : m_connectionPending[f]} :
       LET called == {m_clientBySocket[f] : f \in late \cap DOMAIN m_clientBySocket} IN
       /\ socket' = CloseAll(socket, late)
       /\ m_clientBySocket' = Dropped(m_clientBySocket, late)
       /\ client' = [c \in Peers |-> IF c \in called THEN ConnectFailed(client[c]) ELSE client[c]]
       /\ m_connectionPending' = Dropped(m_connectionPending, late)
       /\ registration' =
            LET r == IF late = {} THEN registration
                     ELSE Unregistered(registration, m_clientBySocket', m_serverBySocket)
            IN IF DOMAIN m_connectionPending' = {} THEN r ELSE registerCallbackOnce(r, "pending")
  /\ running' = Idle
  /\ UNCHANGED <<server, m_serverBySocket, queues>>

\* onListenCallback(), one server
Listen(f) ==
  LET s == Head(m_listenQueue) IN
  /\ running.callback = "listen" /\ m_listenQueue # << >>
  /\ m_listenQueue' = Tail(m_listenQueue)
  /\ \/ /\ "socket" \in Faults
        /\ server' = [server EXCEPT ![s].m_registeredListen = FALSE]
        /\ UNCHANGED <<socket, m_serverBySocket>>
     \/ /\ f \in FreeFds
        /\ server' = [server EXCEPT ![s].m_registeredListen = FALSE, ![s].m_fd = f]
        /\ socket' = [socket EXCEPT ![f] = [NoSocket EXCEPT !.state = "listening"]]
        /\ m_serverBySocket' = Emplaced(m_serverBySocket, f, s)
  /\ UNCHANGED <<client, m_clientBySocket, m_connectionPending, m_connectQueue, m_sendQueue, m_readQueue,
                 registration, running>>

ListenEnd ==
  /\ running.callback = "listen" /\ m_listenQueue = << >>
  /\ registration' = IF DOMAIN m_serverBySocket = {} THEN registration
                     ELSE registerCallbackOnce(registration, "epoll")
  /\ running' = Idle
  /\ UNCHANGED <<client, server, tables, queues, socket>>

\* onSendCallback(), one socket: sent is what send() takes
Send(sent) ==
  LET f == Head(m_sendQueue)
      c == m_clientBySocket[f]
      known == f \in DOMAIN m_clientBySocket
      left  == client[c].content - sent
  IN
  /\ running.callback = "send" /\ m_sendQueue # << >> /\ running.count > 0
  /\ IF known /\ client[c].content > 0
     THEN /\ sent \in 1 .. client[c].content
          /\ "partial" \in Faults \/ left = 0
          /\ client' = [client EXCEPT ![c].content = left,
                          ![c].m_inSendQueueFlag = IF left = 0 THEN FALSE ELSE @]
          /\ m_sendQueue' = IF left > 0 THEN Append(Tail(m_sendQueue), f) ELSE Tail(m_sendQueue)
          /\ running' = [running EXCEPT !.count = @ - 1]
     ELSE m_sendQueue' = Tail(m_sendQueue) /\ UNCHANGED <<client, running>>
  /\ UNCHANGED <<server, tables, m_connectQueue, m_listenQueue, m_readQueue, registration, socket>>

SendEnd ==
  /\ running.callback = "send" /\ (m_sendQueue = << >> \/ running.count = 0)
  /\ running' = Idle
  /\ UNCHANGED <<client, server, tables, queues, registration, socket>>

-----------------------------------------------------------------------------
(* onEpollCallback().                                                      *)

\* epoll_wait(): up to _MaxReceivePerLoop sockets that have something to tell, each
\* with the test of the loop that it meets first
Ready(f) ==
  {what \in {"error", "out", "in"} :
     \/ what = "error" /\ socket[f].state = "broken"
     \/ what = "out" /\ socket[f].state \in {"up", "eof"} /\ socket[f].out
     \/ what = "in" /\ socket[f].state \in {"up", "eof"} /\ ~socket[f].out /\ socket[f].edge
     \/ what = "in" /\ socket[f].state = "listening" /\ socket[f].unread > 0}

epoll_wait ==
  /\ running.callback = "epoll" /\ running.count = 0
  /\ \E fds \in SUBSET {f \in Fds : Ready(f) # {}} :
       /\ Cardinality(fds) <= MaxReceivePerLoop
       /\ (\E f \in Fds : Ready(f) # {}) => fds # {}
       /\ running' = [running EXCEPT !.count = 1,
                        !.events = {<<f, CHOOSE what \in Ready(f) : TRUE>> : f \in fds}]
       /\ socket' = [f \in Fds |-> IF f \in fds THEN [socket[f] EXCEPT !.edge = FALSE] ELSE socket[f]]
  /\ UNCHANGED <<client, server, tables, queues, registration>>

\* onConnectionLost(), onDisconnected(): they differ in the handler they call last
End(f) ==
  /\ socket' = CloseAll(socket, {f})
  /\ client' = IF f \notin DOMAIN m_clientBySocket THEN client
               ELSE [client EXCEPT ![m_clientBySocket[f]] =
                       IF f \in DOMAIN m_connectionPending THEN ConnectFailed(@) ELSE ConnectionLost(@)]
  /\ server' = IF f \notin DOMAIN m_serverBySocket THEN server
               ELSE [server EXCEPT ![m_serverBySocket[f]] = onListenStoppedBase(@)]
  /\ m_clientBySocket' = Dropped(m_clientBySocket, {f})
  /\ m_serverBySocket' = Dropped(m_serverBySocket, {f})
  /\ m_connectionPending' = IF f \in DOMAIN m_clientBySocket THEN Dropped(m_connectionPending, {f})
                            ELSE m_connectionPending
  /\ registration' = Unregistered(registration, m_clientBySocket', m_serverBySocket')

\* EPOLLERR, with EPOLLHUP or without
Broken(f) ==
  /\ <<f, "error">> \in running.events
  /\ End(f)
  /\ UNCHANGED queues

\* The socket f is pending and its client is known.
Connecting(f) == f \in DOMAIN m_connectionPending /\ f \in DOMAIN m_clientBySocket

\* EPOLLOUT.  Of a socket that is pending: onCompleteConnection() and then EPOLLIN is
\* asked for, of a socket that the client's handler may have closed.
onCompleteConnection(f) ==
  /\ <<f, "out">> \in running.events
  /\ m_connectionPending' = Dropped(m_connectionPending, {f})
  /\ IF Connecting(f)
     THEN /\ client' = [client EXCEPT ![m_clientBySocket[f]] = onConnectBase(@, f)]
          /\ socket' = [socket EXCEPT ![f].out = FALSE, ![f].edge = socket[f].unread > 0]
          /\ registration' = registerCallbackOnce(registration, "epoll")
     ELSE UNCHANGED <<client, socket, registration>>
  /\ UNCHANGED <<server, m_clientBySocket, m_serverBySocket, queues>>

\* ... epoll_ctl() fails: onConnectionLost()
NotModified(f) ==
  /\ "modify" \in Faults
  /\ <<f, "out">> \in running.events /\ Connecting(f)
  /\ m_connectionPending' = Dropped(m_connectionPending, {f})
  /\ client' = [client EXCEPT ![m_clientBySocket[f]] = ConnectionLost(onConnectBase(@, f))]
  /\ socket' = CloseAll(socket, {f})
  /\ m_clientBySocket' = Dropped(m_clientBySocket, {f})
  /\ registration' = Unregistered(registerCallbackOnce(registration, "epoll"), m_clientBySocket', m_serverBySocket)
  /\ UNCHANGED <<server, m_serverBySocket, queues>>

\* EPOLLIN of a server: onNewConnection(), onNewConnectionBase() and setFd().  The
\* timeout of the new process is whatever its memory holds.
onNewConnection(f) ==
  LET s == m_serverBySocket[f] IN
  /\ <<f, "in">> \in running.events /\ f \in DOMAIN m_serverBySocket
  /\ \/ /\ "accept" \in Faults \/ socket[f].unread = 0
        /\ UNCHANGED <<client, server, m_clientBySocket, m_connectionPending, registration, socket>>
     \/ \E p \in {q \in Processes : client[q].actor = "none"}, g \in FreeFds, mayTimeOut \in BOOLEAN :
          /\ socket[f].unread > 0
          /\ socket' = [socket EXCEPT ![f].unread = @ - 1, ![g] = [NoSocket EXCEPT !.state = "up", !.out = TRUE]]
          /\ server' = [server EXCEPT ![s].m_serverProcesses = @ \cup {p}]
          /\ client' = [client EXCEPT ![p] = [NewClient EXCEPT !.m_fd = g]]
          /\ m_clientBySocket' = Emplaced(m_clientBySocket, g, p)
          /\ m_connectionPending' = Emplaced(m_connectionPending, g, mayTimeOut)
          /\ registration' = registerCallbackOnce(registerCallbackOnce(registration, "pending"), "epoll")
  /\ UNCHANGED <<m_serverBySocket, queues>>

\* addToReadQueue(f): the client is to read, or is told that there is something to read
addToReadQueue(f) ==
  IF f \notin DOMAIN m_clientBySocket THEN UNCHANGED <<client, m_readQueue>>
  ELSE IF client[m_clientBySocket[f]].m_autoreadFlag
  THEN m_readQueue' = Append(m_readQueue, f) /\ UNCHANGED client
  ELSE /\ client' = [client EXCEPT ![m_clientBySocket[f]].m_messageToReadFlag = TRUE]
       /\ UNCHANGED m_readQueue

Readable(f) ==
  /\ <<f, "in">> \in running.events /\ f \notin DOMAIN m_serverBySocket
  /\ addToReadQueue(f)
  /\ UNCHANGED <<server, tables, m_connectQueue, m_listenQueue, m_sendQueue, registration, socket>>

\* One event of the loop.
Event(f) ==
  /\ running.callback = "epoll" /\ running.count = 1
  /\ \/ Broken(f) \/ onCompleteConnection(f) \/ NotModified(f) \/ onNewConnection(f) \/ Readable(f)
  /\ running' = [running EXCEPT !.events = {e \in @ : e[1] # f}]

\* The events are done: readSockets() begins.
EventsEnd ==
  /\ running.callback = "epoll" /\ running.count = 1 /\ running.events = {}
  /\ running' = [running EXCEPT !.count = 2 + MaxReceivePerLoop]
  /\ UNCHANGED <<client, server, tables, queues, registration, socket>>

\* Mutant of recv: a socket that was not read to its end is not queued again.
recvOnce(f, queue) ==
  /\ socket' = IF f \in Fds /\ socket[f].unread > 0 THEN [socket EXCEPT ![f].unread = @ - 1] ELSE socket
  /\ m_readQueue' = queue
  /\ UNCHANGED client

\* Network::readSocket(): one recv().  A read that fills the array is followed by
\* another, and so is one that would block, since EAGAIN is EWOULDBLOCK.  The end of
\* the stream and an error are ignored.
recv(f, queue) ==
  \E full \in BOOLEAN :
    LET open  == f \in DOMAIN m_clientBySocket /\ socket[f].state = "up"
        again == open /\ full
    IN
    /\ (open /\ socket[f].unread # 1) => full
    /\ socket' = IF f \in Fds /\ socket[f].unread > 0 THEN [socket EXCEPT ![f].unread = @ - 1] ELSE socket
    /\ IF again /\ client[m_clientBySocket[f]].m_autoreadFlag
       THEN m_readQueue' = Append(queue, f) /\ UNCHANGED client
       ELSE /\ m_readQueue' = queue
            /\ client' = IF again THEN [client EXCEPT ![m_clientBySocket[f]].m_messageToReadFlag = TRUE] ELSE client

readSockets ==
  /\ running.callback = "epoll" /\ running.count > 2 /\ m_readQueue # << >>
  /\ recv(Head(m_readQueue), Tail(m_readQueue))
  /\ running' = [running EXCEPT !.count = @ - 1]
  /\ UNCHANGED <<server, tables, m_connectQueue, m_listenQueue, m_sendQueue, registration>>

\* EpollCallback::onCallback() registers itself again, whether there are sockets or not.
EpollEnd ==
  /\ running.callback = "epoll" /\ (running.count = 2 \/ (running.count > 2 /\ m_readQueue = << >>))
  /\ registration' = registerCallbackOnce(registration, "epoll")
  /\ running' = Idle
  /\ UNCHANGED <<client, server, tables, queues, socket>>

\* readSocket() of a client that does not read by itself: the flag, then one recv()
readSocket(c) ==
  LET f == client[c].m_fd IN
  /\ Live(c) /\ client[c].m_messageToReadFlag
  /\ \E more \in BOOLEAN :
       LET open == f \in Fds /\ socket[f].state = "up" IN
       /\ (open /\ socket[f].unread # 1) => more
       /\ socket' = IF f \in Fds /\ socket[f].unread > 0 THEN [socket EXCEPT ![f].unread = @ - 1] ELSE socket
       /\ m_readQueue' = IF open /\ more /\ client[c].m_autoreadFlag THEN Append(m_readQueue, f) ELSE m_readQueue
       /\ client' = [client EXCEPT ![c].m_messageToReadFlag = open /\ more /\ ~client[c].m_autoreadFlag]
  /\ UNCHANGED <<server, tables, m_connectQueue, m_listenQueue, m_sendQueue, registration, running>>

\* Nobody holds a reference to the network any more: stopNetwork(), the destructor
NetworkDestroyed ==
  /\ running = Idle
  /\ \A c \in Peers : client[c].actor \in {"none", "gone"}
  /\ \A s \in Servers : server[s].actor = "gone"
  /\ running' = [Idle EXCEPT !.callback = "destroyed"]
  /\ socket' = CloseAll(socket, DOMAIN m_clientBySocket \cup DOMAIN m_serverBySocket)
  /\ m_clientBySocket' = Nothing /\ m_serverBySocket' = Nothing
  /\ m_connectionPending' = Dropped(m_connectionPending, DOMAIN m_clientBySocket)
  /\ registration' = [registration EXCEPT !.chain = {}]
  /\ UNCHANGED <<client, server, queues>>

-----------------------------------------------------------------------------
(* External: what the kernel and the other ends do.                        *)

ToState(f, from, to) ==
  /\ socket[f].state = from
  /\ socket' = [socket EXCEPT ![f] = IF to = "broken" THEN [NoSocket EXCEPT !.state = to]
                                    ELSE [@ EXCEPT !.state = to, !.edge = (to = "eof")]]
  /\ UNCHANGED <<client, server, tables, queues, registration, running>>

Talks(f) == f \in DOMAIN m_clientBySocket /\ m_clientBySocket[f] \in Talkers

\* a connection is made, refused, broken, or closed by the other end
Remote(f) ==
  \/ ToState(f, "connecting", "up")
  \/ \E from \in {"connecting", "up"} : ToState(f, from, "broken")
  \/ Talks(f) /\ ToState(f, "up", "eof")

\* data arrives, or somebody wants to connect
Arrive(f) ==
  /\ (socket[f].state = "up" /\ Talks(f)) \/ socket[f].state = "listening"
  /\ socket[f].unread < MaxUnread
  /\ \A i \in DOMAIN m_readQueue : m_readQueue[i] # f
  /\ socket' = [socket EXCEPT ![f].unread = @ + 1, ![f].edge = (socket[f].state = "up")]
  /\ UNCHANGED <<client, server, tables, queues, registration, running>>

ClientCalls ==
  \E c \in Peers :
    \/ registerConnect(c) \/ disconnectBase(c) \/ selfDestroy(c) \/ onDestroyRequest(c)
    \/ readSocket(c)
    \/ \E size \in 1 .. SendBufferSize : sendBase(c, size)
    \/ \E autoread \in BOOLEAN : setAutoRead(c, autoread)

ServerCalls ==
  \E s \in Servers :
    \/ registerListen(s) \/ stopListening(s) \/ ServerDestroyed(s)
    \/ \E p \in Processes : DestroyNotification(s, p)

NetworkStep ==
  \/ \E callback \in Callbacks : Call(callback)
  \/ ConnectFails \/ ConnectRefused \/ (\E atonce \in BOOLEAN : Connect(atonce)) \/ ConnectEnd
  \/ onPendingConnectionCallback
  \/ (\E f \in Fds : Listen(f)) \/ ListenEnd
  \/ (\E sent \in 0 .. SendBufferSize : Send(sent)) \/ SendEnd
  \/ epoll_wait \/ (\E f \in Fds : Event(f)) \/ EventsEnd \/ readSockets \/ EpollEnd
  \/ NetworkDestroyed

TcpNext == ClientCalls \/ ServerCalls \/ NetworkStep \/ \E f \in Fds : Remote(f) \/ Arrive(f)

TcpSpec == TcpInit /\ [][TcpNext]_tcpVars

-----------------------------------------------------------------------------
(* Properties.                                                             *)

TcpTypeOK ==
  /\ \A c \in Peers : /\ client[c].m_fd \in Fds \cup {Closed} /\ client[c].content \in 0 .. SendBufferSize
                     /\ client[c].actor \in {"none", "live", "leaving", "gone"}
  /\ DOMAIN m_clientBySocket \subseteq Fds /\ Range(m_clientBySocket) \subseteq Peers
  /\ DOMAIN m_serverBySocket \subseteq Fds /\ Range(m_serverBySocket) \subseteq Servers
  /\ DOMAIN m_connectionPending \subseteq Fds
  /\ registration.chain \cup registration.m_isRegisteredFlag \subseteq Callbacks

\* Network, actors and kernel agree on who has which socket: what is in a table is
\* open and belongs to an actor that exists; a client that has a socket is found by
\* it; one that is connecting is in the queue or has one socket that is pending; a
\* server that has a socket is found by it.
SocketsAgree ==
  /\ TcpTypeOK
  /\ \A f \in DOMAIN m_clientBySocket :
       LET c == m_clientBySocket[f] IN
       /\ socket[f].state # "free" /\ client[c].actor \in {"live", "leaving"}
       /\ client[c].m_fd = f \/ (client[c].m_connectingFlag /\ f \in DOMAIN m_connectionPending)
  /\ \A c \in Peers :
       /\ client[c].m_fd # Closed =>
            client[c].m_fd \in DOMAIN m_clientBySocket /\ m_clientBySocket[client[c].m_fd] = c
       /\ client[c].m_connectingFlag =>
            (client[c].m_inConnectQueueFlag <=> ~\E f \in DOMAIN m_clientBySocket : m_clientBySocket[f] = c)
       /\ client[c].m_inConnectQueueFlag <=> c \in Range(m_connectQueue)
  /\ \A s \in Servers :
       /\ server[s].m_fd # Closed =>
            server[s].m_fd \in DOMAIN m_serverBySocket /\ m_serverBySocket[server[s].m_fd] = s
       /\ s \in Range(m_listenQueue) => server[s].m_registeredListen
  /\ \A f \in DOMAIN m_serverBySocket : socket[f].state = "listening" /\ server[m_serverBySocket[f]].m_fd = f

Forgotten == registration.m_isRegisteredFlag \ registration.chain

\* Whatever waits has a callback that will come for it: clients and servers in a
\* queue, connections that are pending, sockets to be polled, and the bytes of a
\* client that are to be sent.  Data that has come for a client that reads by itself is
\* seen by epoll or waits to be read; a client that does not read is told.  Callbacks
\* that the network has forgotten (see NothingForgotten) are left out.
Served ==
  /\ \A c \in Peers : client[c].m_fd # Closed /\ client[c].content > 0 => client[c].m_fd \in Range(m_sendQueue)
  /\ running = Idle =>
       /\ m_connectQueue # << >> => "connect" \in registration.chain
       /\ m_listenQueue # << >> => "listen" \in registration.chain
       /\ DOMAIN m_connectionPending \cap DOMAIN m_clientBySocket # {} => "pending" \in registration.chain
       /\ DOMAIN m_clientBySocket \cup DOMAIN m_serverBySocket # {} => "epoll" \in registration.chain \cup Forgotten
       /\ (\E c \in Peers : client[c].m_fd # Closed /\ client[c].content > 0) =>
            "send" \in registration.chain \cup Forgotten
  /\ \A f \in DOMAIN m_clientBySocket :
       socket[f].state = "up" /\ ~socket[f].out /\ socket[f].unread > 0 =>
         \/ socket[f].edge \/ <<f, "in">> \in running.events \/ f \in Range(m_readQueue)
         \/ client[m_clientBySocket[f]].m_messageToReadFlag

\* The network knows whether its callbacks are registered, as registerCallbackOnce()
\* takes for granted.
NothingForgotten == running = Idle => Forgotten = {}
=============================================================================
