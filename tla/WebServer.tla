------------------------------ MODULE WebServer ------------------------------
(***************************************************************************)
(* The tasks of the web server (webserver.c) and of the websockets         *)
(* (websocket.c): serverTask accepts connections and starts a              *)
(* serverclientTask for each, two at a time (semclient); one that asks for *)
(* a websocket is passed on to a websocketTask, which keeps its socket in  *)
(* webserverclients as long as the websocket is open.                      *)
(*                                                                         *)
(* Data.  How a request is read is the subject of WebRequest: here it is   *)
(* answered, or passed on, or the task waits for the rest of it.  A task   *)
(* is named by its socket.  A socket number is used again after close.     *)
(*                                                                         *)
(* Scheduling.  serverTask and the websocket tasks have priority 4 and     *)
(* share the time; serverclientTask has 3.                                 *)
(*                                                                         *)
(* overrun is history: the websockets whose entry another task has taken.  *)
(***************************************************************************)
EXTENDS Integers, FiniteSets

CONSTANTS FD,        \* socket numbers
          CLIENTS,   \* of semclient (2)
          NBCLIENT   \* entries of webserverclients (4)

ASSUME ServerAssumption ==
    /\ FD \subseteq Nat /\ IsFiniteSet(FD)
    /\ CLIENTS \in Nat \ {0} /\ NBCLIENT \in Nat \ {0}

NoSocket == -1
Entries  == 1..NBCLIENT

VARIABLES net,        \* of each socket: free, or what the browser has done
          srv, sock,  \* serverTask: where it is, client_sock
          semclient,
          web,        \* serverclientTask of a socket: where it is
          givers,     \* those that have only semclient to give
          ws,         \* websocketTask of a socket: where it is
          clients,    \* webserverclients
          found,      \* of a websocketTask: the entry it has found free
          leaked,     \* sockets that no task will close
          overrun

server  == <<srv, sock>>
sockets == <<ws, clients, found>>
vars    == <<net, server, semclient, web, givers, sockets, leaked, overrun>>

Init == /\ net = [f \in FD |-> "free"]
        /\ srv = "accept" /\ sock = NoSocket
        /\ semclient = CLIENTS /\ givers = 0
        /\ web = [f \in FD |-> "none"] /\ ws = [f \in FD |-> "none"]
        /\ clients = [i \in Entries |-> NoSocket]
        /\ found = [f \in FD |-> 1]
        /\ leaked = {} /\ overrun = {}

Goto(task, f, place) == [task EXCEPT ![f] = place]

-----------------------------------------------------------------------------
(* The browser of socket f *)

\* It closes or resets the connection; what is written to a closed one resets it.
\* A close frame is read before the end of the connection.  It makes no difference
\* but to a task that reads.
Away(f) == /\ web[f] \in {"serve", "part"} \/ ws[f] \in {"loop", "frame"}
           /\ \/ net[f] = "up" /\ net' = Goto(net, f, "fin")
              \/ net[f] \in {"up", "bye", "fin"} /\ net' = Goto(net, f, "rst")
           /\ UNCHANGED <<server, semclient, web, givers, sockets, leaked, overrun>>

\* It sends the close frame of its websocket.
Bye(f) == /\ net[f] = "up" /\ ws[f] = "loop"
          /\ net' = Goto(net, f, "bye")
          /\ UNCHANGED <<server, semclient, web, givers, sockets, leaked, overrun>>

-----------------------------------------------------------------------------
(* serverTask *)

Accept ==
    /\ srv = "accept"
    /\ \E f \in FD : /\ net[f] = "free"
                     /\ net' = Goto(net, f, "up")
                     /\ sock' = f
    /\ srv' = "take"
    /\ UNCHANGED <<semclient, web, givers, sockets, leaked, overrun>>

\* Too little heap, twice.
LowMemory ==
    /\ srv = "take"
    /\ net' = Goto(net, sock, "free")
    /\ srv' = "accept" /\ sock' = NoSocket
    /\ UNCHANGED <<semclient, web, givers, sockets, leaked, overrun>>

\* xSemaphoreTake; when it times out it is called again.  Mutant: the task is
\* started all the same.
TakeAnyway ==
    /\ srv = "take"
    /\ semclient' = IF semclient > 0 THEN semclient - 1 ELSE 0
    /\ srv' = "create"
    /\ UNCHANGED <<net, sock, web, givers, sockets, leaked, overrun>>
Take ==
    /\ srv = "take" /\ semclient > 0
    /\ semclient' = semclient - 1
    /\ srv' = "create"
    /\ UNCHANGED <<net, sock, web, givers, sockets, leaked, overrun>>

\* xTaskCreate, again and again until there is the memory.
Create ==
    /\ srv = "create"
    /\ web' = Goto(web, sock, "serve")
    /\ srv' = "accept" /\ sock' = NoSocket
    /\ UNCHANGED <<net, semclient, givers, sockets, leaked, overrun>>

Server == Take \/ Create

-----------------------------------------------------------------------------
(* serverclientTask of socket f *)

\* A websocketTask that is in the middle of a frame when the connection goes
\* reads on without a pause, and nothing of a lower priority runs.
Spins(f) == ws[f] = "frame" /\ net[f] \in {"fin", "rst"}
WebRuns  == \A f \in FD : ~Spins(f)

\* Its requests are answered, or there is no memory for its buffer: it shuts the
\* connection down and sleeps.
Served(f) ==
    /\ web[f] = "serve"
    /\ web' = Goto(web, f, "closing")
    /\ UNCHANGED <<net, server, semclient, givers, sockets, leaked, overrun>>

\* It has a part of a request, and waits for the rest.
Part(f) ==
    /\ web[f] = "serve" /\ net[f] \in {"up", "fin"}
    /\ web' = Goto(web, f, "part")
    /\ UNCHANGED <<net, server, semclient, givers, sockets, leaked, overrun>>

\* The rest comes, or the connection is reset; when it is closed, never.
Rest(f) ==
    /\ web[f] = "part" /\ net[f] # "fin"
    /\ web' = Goto(web, f, "serve")
    /\ UNCHANGED <<net, server, semclient, givers, sockets, leaked, overrun>>

\* A request for a websocket: a task for it is created, which has the socket from
\* now on.  Mutants: true is returned, and the socket closed; the permit is kept.
UpgradeCloses(f) ==
    /\ web[f] = "serve"
    /\ ws' = Goto(ws, f, "begin")
    /\ web' = Goto(web, f, "closing")
    /\ UNCHANGED <<net, server, semclient, givers, clients, found, leaked, overrun>>
UpgradeKeeps(f) ==
    /\ web[f] = "serve"
    /\ ws' = Goto(ws, f, "begin")
    /\ web' = Goto(web, f, "none")
    /\ UNCHANGED <<net, server, semclient, givers, clients, found, leaked, overrun>>
Upgrade(f) ==
    /\ web[f] = "serve"
    /\ ws' = Goto(ws, f, "begin")
    /\ web' = Goto(web, f, "none")
    /\ givers' = givers + 1
    /\ UNCHANGED <<net, server, semclient, clients, found, leaked, overrun>>

\* A name of more than 32 characters: what httpServerHandleConnection returns is
\* not defined.  When it is false, the socket is not closed.
BadName(f) ==
    /\ web[f] = "serve"
    /\ web' = Goto(web, f, "none")
    /\ givers' = givers + 1
    /\ leaked' = leaked \cup {f}
    /\ UNCHANGED <<net, server, semclient, sockets, overrun>>

CloseWeb(f) ==
    /\ web[f] = "closing"
    /\ net' = Goto(net, f, "free")
    /\ web' = Goto(web, f, "none")
    /\ givers' = givers + 1
    /\ UNCHANGED <<server, semclient, sockets, leaked, overrun>>

Give ==
    /\ givers > 0
    /\ givers' = givers - 1
    /\ semclient' = semclient + 1
    /\ UNCHANGED <<net, server, web, sockets, leaked, overrun>>

Answer(f) == Served(f) \/ Upgrade(f) \/ BadName(f)

-----------------------------------------------------------------------------
(* websocketTask of socket f *)

iswebsocket(f) == \E i \in Entries : clients[i] = f

\* websocketnewclient finds a free entry; there is none, or no memory for the
\* task's buffer.
WsFind(f) ==
    /\ ws[f] = "begin" /\ ~iswebsocket(f)
    /\ \E i \in Entries : /\ clients[i] = NoSocket
                          /\ \A j \in 1..i - 1 : clients[j] # NoSocket
                          /\ found' = [found EXCEPT ![f] = i]
    /\ ws' = Goto(ws, f, "store")
    /\ UNCHANGED <<net, server, semclient, web, givers, clients, leaked, overrun>>

WsNoRoom(f) ==
    /\ ws[f] = "begin"
    /\ iswebsocket(f) \/ \A i \in Entries : clients[i] # NoSocket
    /\ ws' = Goto(ws, f, "leave")
    /\ UNCHANGED <<net, server, semclient, web, givers, clients, found, leaked, overrun>>

WsNoMemory(f) ==
    /\ ws[f] = "begin"
    /\ ws' = Goto(ws, f, "leave")
    /\ UNCHANGED <<net, server, semclient, web, givers, clients, found, leaked, overrun>>

\* It takes the entry; the browser is told that the websocket is open.
WsStore(f) ==
    /\ ws[f] = "store"
    /\ clients' = [clients EXCEPT ![found[f]] = f]
    /\ ws' = Goto(ws, f, "loop")
    /\ found' = [found EXCEPT ![f] = 1]
    /\ overrun' = overrun \cup ({clients[found[f]]} \ {NoSocket})
    /\ UNCHANGED <<net, server, semclient, web, givers, leaked>>

\* websocketremoveclient.  Mutant: it removes nothing.
WithoutNone(f) == clients
Without(f) == [i \in Entries |-> IF clients[i] = f THEN NoSocket ELSE clients[i]]

\* A frame has begun; its rest comes; when the connection is closed or reset, never.
WsPart(f) ==
    /\ ws[f] = "loop" /\ iswebsocket(f) /\ net[f] = "up"
    /\ ws' = Goto(ws, f, "frame")
    /\ UNCHANGED <<net, server, semclient, web, givers, clients, found, leaked, overrun>>

WsRest(f) ==
    /\ ws[f] = "frame" /\ net[f] = "up"
    /\ ws' = Goto(ws, f, "loop")
    /\ UNCHANGED <<net, server, semclient, web, givers, clients, found, leaked, overrun>>

\* What ends a websocket: the close frame, a reset, or a frame it does not take
\* (wsclientDisconnect).  When the connection is closed without a close frame,
\* read returns 0 again and again.  Mutant: a reset does not end it.
EndsByFrame(f) == net[f] \in {"up", "bye"}
Ends(f) == net[f] \in {"up", "bye", "rst"}

WsEnd(f) ==
    /\ ws[f] = "loop" /\ iswebsocket(f) /\ Ends(f)
    /\ clients' = Without(f)
    /\ ws' = Goto(ws, f, "leave")
    /\ UNCHANGED <<net, server, semclient, web, givers, found, leaked, overrun>>

\* Its entry was taken by another: it is not a websocket any more.
WsLost(f) ==
    /\ ws[f] = "loop" /\ ~iswebsocket(f)
    /\ ws' = Goto(ws, f, "leave")
    /\ overrun' = overrun \ {f}
    /\ UNCHANGED <<net, server, semclient, web, givers, clients, found, leaked>>

\* It is removed (again) and shut down; after a pause it is closed.
WsClose(f) ==
    /\ ws[f] = "leave"
    /\ clients' = Without(f)
    /\ net' = Goto(net, f, "free")
    /\ ws' = Goto(ws, f, "none")
    /\ UNCHANGED <<server, semclient, web, givers, found, leaked, overrun>>

WsStep(f) == \/ WsFind(f) \/ WsNoRoom(f) \/ WsStore(f) \/ WsEnd(f) \/ WsLost(f)
             \/ WsClose(f)

-----------------------------------------------------------------------------
Next ==
    \/ Accept \/ LowMemory \/ Server
    \/ WebRuns /\ Give
    \/ \E f \in FD :
         \/ Away(f) \/ Bye(f)
         \/ WebRuns /\ (Answer(f) \/ Part(f) \/ Rest(f) \/ CloseWeb(f))
         \/ WsStep(f) \/ WsNoMemory(f) \/ WsPart(f) \/ WsRest(f)

\* The scheduler runs every task that may run.  Strong fairness of Answer: a
\* browser may leave a request unfinished, but does not ask for ever.
Spec == /\ Init /\ [][Next]_vars
        /\ WF_vars(Server)
        /\ WF_vars(WebRuns /\ Give)
        /\ \A f \in FD : /\ SF_vars(WebRuns /\ Answer(f))
                         /\ WF_vars(WebRuns /\ CloseWeb(f))
                         /\ WF_vars(WsStep(f))

-----------------------------------------------------------------------------
(* Properties *)

TypeOK ==
    /\ net \in [FD -> {"free", "up", "bye", "fin", "rst"}]
    /\ srv \in {"accept", "take", "create"} /\ sock \in FD \cup {NoSocket}
    /\ semclient \in 0..CLIENTS /\ givers \in 0..CLIENTS
    /\ web \in [FD -> {"none", "serve", "part", "closing"}]
    /\ ws \in [FD -> {"none", "begin", "store", "loop", "frame", "leave"}]
    /\ clients \in [Entries -> FD \cup {NoSocket}]
    /\ found \in [FD -> Entries]
    /\ leaked \subseteq FD /\ overrun \subseteq FD

\* Every permit of semclient is there, or with one task that will give it.
WebTasks == {f \in FD : web[f] # "none"}
PermitsAdd ==
    semclient + givers + Cardinality(WebTasks) + (IF srv = "create" THEN 1 ELSE 0) = CLIENTS

\* Who has socket f and will close it; or nobody ever will.
Owners(f) == {o \in {"server", "web", "ws", "nobody"} :
                CASE o = "server" -> srv # "accept" /\ sock = f
                  [] o = "web"    -> web[f] # "none"
                  [] o = "ws"     -> ws[f] # "none"
                  [] o = "nobody" -> f \in leaked}

\* Every open socket has one owner, and no task has a socket that is closed, the
\* number of which may soon be another connection's.
OneOwner ==
    \A f \in FD : /\ net[f] # "free" <=> Owners(f) # {}
                  /\ \A o, p \in Owners(f) : o = p

\* What is broadcast goes to every open websocket, unless another task has taken
\* its entry between test and store; it goes to no other connection, and to none
\* twice.
EntriesAreWebsockets ==
    /\ \A f \in FD \ overrun : ws[f] \in {"loop", "frame"} => iswebsocket(f)
    /\ \A i \in Entries : clients[i] # NoSocket => ws[clients[i]] \in {"loop", "frame"}
    /\ \A i, j \in Entries : clients[i] = clients[j] => i = j \/ clients[i] = NoSocket

\* A connection is given a task, or closed for want of memory, unless every permit
\* is with a task that waits for the rest of a request, or a websocketTask spins.
ConnectionIsTaken ==
    srv = "take" ~> (\/ srv = "accept" \/ ~WebRuns
                     \/ Cardinality({f \in FD : web[f] = "part"}) = CLIENTS)

\* A websocket that the browser has ended or reset between two frames is closed.
WebsocketEnds ==
    \A f \in FD : ws[f] = "loop" /\ net[f] \in {"bye", "rst"} ~> net[f] = "free"
=============================================================================
