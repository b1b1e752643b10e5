----------------------------- MODULE Web_proofs -----------------------------
(***************************************************************************)
(* Proofs about WebServer and WebRequest.                                  *)
(*                                                                         *)
(* WebServer: for every set of sockets and any numbers of                  *)
(* permits and entries the permits add up, every open socket has one       *)
(* owner, and webserverclients lists the open websockets.                  *)
(*                                                                         *)
(* Owned says of each socket what OneOwner says with a set of names.  That *)
(* the permits add up needs it: the task that Create starts is a new one.  *)
(* Listed adds to EntriesAreWebsockets that an entry is overrun only by a  *)
(* task that is not in the list yet.                                       *)
(*                                                                         *)
(* WebRequest: for bodies of any length and any number of requests, a POST *)
(* that comes smoothly is handed over as it was sent.  Progress says what  *)
(* of it is in the buffer wherever the task waits: before it, the first    *)
(* half of its header, its header, all of it.  Requests is what Progress   *)
(* needs of every request: the buffer is empty before the first, and one   *)
(* that has begun to arrive and is not all there was cut there.            *)
(***************************************************************************)
EXTENDS WebServer, WebRequest, FiniteSetTheorems, TLAPS

Types ==
    /\ net \in [FD -> {"free", "up", "bye", "fin", "rst"}]
    /\ srv \in {"accept", "take", "create"} /\ sock \in FD \cup {NoSocket}
    /\ srv # "accept" => sock \in FD
    /\ semclient \in Nat /\ givers \in Nat
    /\ web \in [FD -> {"none", "serve", "part", "closing"}]
    /\ ws \in [FD -> {"none", "begin", "store", "loop", "frame", "leave"}]
    /\ clients \in [Entries -> FD \cup {NoSocket}]
    /\ found \in [FD -> Entries]
    /\ leaked \subseteq FD /\ overrun \subseteq FD

\* serverTask has socket f.
Has(f) == srv # "accept" /\ sock = f

Owned ==
    \A f \in FD :
        /\ net[f] = "free" <=> ~Has(f) /\ web[f] = "none" /\ ws[f] = "none" /\ f \notin leaked
        /\ Has(f) => web[f] = "none" /\ ws[f] = "none" /\ f \notin leaked
        /\ web[f] # "none" => ws[f] = "none" /\ f \notin leaked
        /\ ws[f] # "none" => f \notin leaked

Listed ==
    /\ \A f \in FD \ overrun : ws[f] \in {"loop", "frame"} => \E i \in Entries : clients[i] = f
    /\ \A i \in Entries : clients[i] # NoSocket => ws[clients[i]] \in {"loop", "frame"}
    /\ \A i, j \in Entries : clients[i] = clients[j] => i = j \/ clients[i] = NoSocket

IInv == Types /\ Owned /\ PermitsAdd /\ Listed

LEMMA NoSocketIsNone == NoSocket \notin FD
BY ServerAssumption DEF NoSocket

LEMMA InitIInv == Init => IInv
<1> SUFFICES ASSUME Init PROVE IInv
  OBVIOUS
<1>1. Types
  BY ServerAssumption DEF Init, Types, Entries
<1>2. Owned
  BY DEF Init, Owned, Has
<1>3. PermitsAdd
  <2>1. WebTasks = {}
    BY DEF Init, WebTasks
  <2> QED
    BY <2>1, FS_EmptySet, ServerAssumption DEF Init, PermitsAdd
<1>4. Listed
  BY NoSocketIsNone DEF Init, Listed
<1> QED
  BY <1>1, <1>2, <1>3, <1>4 DEF IInv

-----------------------------------------------------------------------------
\* The steps by name, without the guard of the scheduling.
Actions ==
    \/ Accept \/ LowMemory \/ Take \/ Create \/ Give
    \/ \E f \in FD :
         \/ Away(f) \/ Bye(f)
         \/ Served(f) \/ Part(f) \/ Rest(f) \/ Upgrade(f) \/ BadName(f) \/ CloseWeb(f)
         \/ WsFind(f) \/ WsNoRoom(f) \/ WsNoMemory(f) \/ WsStore(f) \/ WsPart(f)
         \/ WsRest(f) \/ WsEnd(f) \/ WsLost(f) \/ WsClose(f)

LEMMA NextIsActions == Next => Actions
BY DEF Next, Actions, Server, Answer, WsStep

LEMMA TypesStep == IInv /\ Actions => Types'
<1> SUFFICES ASSUME IInv, Actions PROVE Types'
  OBVIOUS
<1> USE DEF IInv, Types, Goto
<1>1. CASE Accept      BY <1>1 DEF Accept, sockets
<1>2. CASE LowMemory   BY <1>2 DEF LowMemory, sockets
<1>3. CASE Take        BY <1>3 DEF Take, sockets
<1>4. CASE Create      BY <1>4 DEF Create, sockets
<1>5. CASE Give        BY <1>5 DEF Give, server, sockets
<1>6. ASSUME NEW f \in FD PROVE
        \/ Away(f) \/ Bye(f) \/ Served(f) \/ Part(f) \/ Rest(f) \/ Upgrade(f)
        \/ BadName(f) \/ CloseWeb(f)
        => Types'
  BY <1>6 DEF Away, Bye, Served, Part, Rest, Upgrade, BadName, CloseWeb, server, sockets
<1>7. ASSUME NEW f \in FD PROVE
        \/ WsFind(f) \/ WsNoRoom(f) \/ WsNoMemory(f) \/ WsStore(f) \/ WsPart(f)
        \/ WsRest(f) \/ WsEnd(f) \/ WsLost(f) \/ WsClose(f)
        => Types'
  <2>1. CASE WsFind(f) \/ WsNoRoom(f) \/ WsNoMemory(f) \/ WsPart(f) \/ WsRest(f) \/ WsLost(f)
    BY <2>1 DEF WsFind, WsNoRoom, WsNoMemory, WsPart, WsRest, WsLost, server
  <2>2. CASE WsStore(f)
    <3>1. 1 \in Entries
      BY ServerAssumption DEF Entries
    <3>2. clients[found[f]] \in FD \cup {NoSocket}
      OBVIOUS
    <3> QED
      BY <2>2, <3>1, <3>2 DEF WsStore, server
  <2>3. CASE WsEnd(f) \/ WsClose(f)
    BY <2>3 DEF WsEnd, WsClose, Without, server
  <2> QED
    BY <2>1, <2>2, <2>3
<1> QED
  BY <1>1, <1>2, <1>3, <1>4, <1>5, <1>6, <1>7 DEF Actions

LEMMA OwnedStep == IInv /\ Actions => Owned'
<1> SUFFICES ASSUME IInv, Actions PROVE Owned'
  OBVIOUS
<1> USE DEF IInv, Types, Owned, Has, Goto
<1>1. CASE Accept      BY <1>1, NoSocketIsNone DEF Accept, sockets
<1>2. CASE LowMemory   BY <1>2, NoSocketIsNone DEF LowMemory, sockets
<1>3. CASE Take        BY <1>3 DEF Take, sockets
<1>4. CASE Create      BY <1>4, NoSocketIsNone DEF Create, sockets
<1>5. CASE Give        BY <1>5 DEF Give, server, sockets
<1>6. ASSUME NEW f \in FD PROVE
        Away(f) \/ Bye(f) \/ Served(f) \/ Part(f) \/ Rest(f) => Owned'
  BY <1>6 DEF Away, Bye, Served, Part, Rest, server, sockets
<1>7. ASSUME NEW f \in FD PROVE
        Upgrade(f) \/ BadName(f) \/ CloseWeb(f) => Owned'
  BY <1>7 DEF Upgrade, BadName, CloseWeb, server, sockets
<1>8. ASSUME NEW f \in FD PROVE
        \/ WsFind(f) \/ WsNoRoom(f) \/ WsNoMemory(f) \/ WsStore(f) \/ WsPart(f)
        \/ WsRest(f) \/ WsEnd(f) \/ WsLost(f) \/ WsClose(f)
        => Owned'
  BY <1>8 DEF WsFind, WsNoRoom, WsNoMemory, WsStore, WsPart, WsRest, WsEnd, WsLost,
              WsClose, server
<1> QED
  BY <1>1, <1>2, <1>3, <1>4, <1>5, <1>6, <1>7, <1>8 DEF Actions

-----------------------------------------------------------------------------
LEMMA WebTasksFinite == IsFiniteSet(WebTasks) /\ Cardinality(WebTasks) \in Nat
<1>1. WebTasks \in SUBSET FD
  BY DEF WebTasks
<1> QED
  BY <1>1, FS_Subset, FS_CardinalityType, ServerAssumption

LEMMA PermitsStep == IInv /\ Actions => PermitsAdd'
<1> SUFFICES ASSUME IInv, Actions PROVE PermitsAdd'
  OBVIOUS
<1> USE DEF IInv, Types, PermitsAdd
<1>0. IsFiniteSet(WebTasks) /\ Cardinality(WebTasks) \in Nat /\ CLIENTS \in Nat
  BY WebTasksFinite, ServerAssumption
<1>1. CASE UNCHANGED <<semclient, givers, web>> /\ (srv' = "create") = (srv = "create")
  <2>1. WebTasks' = WebTasks
    BY <1>1 DEF WebTasks
  <2> QED
    BY <1>1, <2>1
<1>2. CASE Take
  <2>1. WebTasks' = WebTasks
    BY <1>2 DEF WebTasks, Take
  <2> QED
    BY <1>0, <1>2, <2>1 DEF Take
<1>3. CASE Create
  <2>1. sock \in FD \ WebTasks
    BY <1>3 DEF Create, WebTasks, Owned, Has
  <2>2. WebTasks' = WebTasks \cup {sock}
    BY <1>3, <2>1 DEF Create, WebTasks, Goto
  <2>3. Cardinality(WebTasks') = Cardinality(WebTasks) + 1
    BY <1>0, <2>1, <2>2, FS_AddElement
  <2> QED
    BY <1>0, <1>3, <2>3 DEF Create
<1>4. CASE Give
  <2>1. WebTasks' = WebTasks
    BY <1>4 DEF WebTasks, Give
  <2> QED
    BY <1>0, <1>4, <2>1 DEF Give, server
<1>5. ASSUME NEW f \in FD, Served(f) \/ Part(f) \/ Rest(f) PROVE PermitsAdd'
  <2>1. WebTasks' = WebTasks
    BY <1>5 DEF WebTasks, Served, Part, Rest, Goto
  <2> QED
    BY <1>5, <2>1 DEF Served, Part, Rest, server
<1>6. ASSUME NEW f \in FD, Upgrade(f) \/ BadName(f) \/ CloseWeb(f) PROVE PermitsAdd'
  <2>1. f \in WebTasks /\ WebTasks' = WebTasks \ {f}
    BY <1>6 DEF WebTasks, Upgrade, BadName, CloseWeb, Goto
  <2>2. Cardinality(WebTasks') = Cardinality(WebTasks) - 1
    BY <1>0, <2>1, FS_RemoveElement
  <2> QED
    BY <1>0, <1>6, <2>2 DEF Upgrade, BadName, CloseWeb, server
<1>7. CASE Accept \/ LowMemory
  BY <1>1, <1>7 DEF Accept, LowMemory
<1>8. ASSUME NEW f \in FD,
             \/ Away(f) \/ Bye(f)
             \/ WsFind(f) \/ WsNoRoom(f) \/ WsNoMemory(f) \/ WsStore(f) \/ WsPart(f)
             \/ WsRest(f) \/ WsEnd(f) \/ WsLost(f) \/ WsClose(f)
      PROVE PermitsAdd'
  BY <1>1, <1>8 DEF Away, Bye, WsFind, WsNoRoom, WsNoMemory, WsStore, WsPart, WsRest,
                    WsEnd, WsLost, WsClose, server
<1> QED
  BY <1>2, <1>3, <1>4, <1>5, <1>6, <1>7, <1>8 DEF Actions

LEMMA ListedStep == IInv /\ Actions => Listed'
<1> SUFFICES ASSUME IInv, Actions PROVE Listed'
  OBVIOUS
<1> USE DEF IInv, Types
<1>1. CASE UNCHANGED <<ws, clients, overrun>>
  BY <1>1 DEF Listed
<1>2. ASSUME NEW f \in FD, Away(f) \/ Bye(f) \/ Served(f) \/ Part(f) \/ Rest(f)
                           \/ BadName(f) \/ CloseWeb(f)
      PROVE  Listed'
  BY <1>1, <1>2 DEF Away, Bye, Served, Part, Rest, BadName, CloseWeb, sockets
<1>3. CASE Accept \/ LowMemory \/ Take \/ Create \/ Give
  BY <1>1, <1>3 DEF Accept, LowMemory, Take, Create, Give, sockets
<1>4. ASSUME NEW f \in FD, Upgrade(f) PROVE Listed'
  <2>1. ws[f] = "none"
    BY <1>4 DEF Upgrade, Owned
  <2> QED
    BY <1>4, <2>1 DEF Upgrade, Listed, Goto
<1>5. ASSUME NEW f \in FD, WsFind(f) \/ WsNoRoom(f) \/ WsNoMemory(f) PROVE Listed'
  BY <1>5 DEF WsFind, WsNoRoom, WsNoMemory, Listed, Goto
<1>6. ASSUME NEW f \in FD, WsPart(f) \/ WsRest(f) PROVE Listed'
  BY <1>6 DEF WsPart, WsRest, Listed, Goto
<1>7. ASSUME NEW f \in FD, WsStore(f) PROVE Listed'
  <2> DEFINE i == found[f]
             g == clients[i]
  <2>1. /\ i \in Entries /\ ws[f] = "store"
        /\ clients' = [clients EXCEPT ![i] = f]
        /\ ws' = [ws EXCEPT ![f] = "loop"]
        /\ overrun' = overrun \cup ({g} \ {NoSocket})
    BY <1>7 DEF WsStore, Goto
  <2>2. \A j \in Entries : clients[j] # f
    BY <2>1, NoSocketIsNone DEF Listed
  <2>3. ASSUME NEW h \in FD \ overrun', ws'[h] \in {"loop", "frame"}
        PROVE  \E j \in Entries : clients'[j] = h
    <3>1. CASE h = f
      BY <2>1, <3>1
    <3>2. CASE h # f
      <4>1. PICK j \in Entries : clients[j] = h
        BY <2>1, <2>3, <3>2 DEF Listed
      <4>2. j # i
        BY <2>1, <2>3, <4>1, NoSocketIsNone
      <4> QED
        BY <2>1, <4>1, <4>2
    <3> QED
      BY <3>1, <3>2
  <2>4. \A j \in Entries : clients'[j] # NoSocket => ws'[clients'[j]] \in {"loop", "frame"}
    BY <2>1, <2>2 DEF Listed
  <2>5. \A j, k \in Entries : clients'[j] = clients'[k] => j = k \/ clients'[j] = NoSocket
    BY <2>1, <2>2 DEF Listed
  <2> QED
    BY <2>3, <2>4, <2>5 DEF Listed
<1>8. ASSUME NEW f \in FD, WsEnd(f) \/ WsClose(f) PROVE Listed'
  <2>1. /\ clients' = [i \in Entries |-> IF clients[i] = f THEN NoSocket ELSE clients[i]]
        /\ ws' = [ws EXCEPT ![f] = IF WsEnd(f) THEN "leave" ELSE "none"]
        /\ overrun' = overrun
    BY <1>8 DEF WsEnd, WsClose, Without, Goto
  <2> QED
    BY <2>1, NoSocketIsNone DEF Listed
<1>9. ASSUME NEW f \in FD, WsLost(f) PROVE Listed'
  <2>1. \A i \in Entries : clients[i] # f
    BY <1>9 DEF WsLost, iswebsocket
  <2> QED
    BY <1>9, <2>1 DEF WsLost, Listed, Goto
<1> QED
  BY <1>2, <1>3, <1>4, <1>5, <1>6, <1>7, <1>8, <1>9 DEF Actions

LEMMA StutterKeeps == IInv /\ UNCHANGED vars => IInv'
BY DEF IInv, Types, Owned, Has, PermitsAdd, WebTasks, Listed, vars, server, sockets

-----------------------------------------------------------------------------
(* Theorems *)

\* The inductive invariant.
THEOREM Invariance == Spec => []IInv
<1>1. IInv /\ [Next]_vars => IInv'
  BY NextIsActions, TypesStep, OwnedStep, PermitsStep, ListedStep, StutterKeeps DEF IInv
<1> QED
  BY <1>1, InitIInv, PTL DEF Spec

\* Every permit of semclient is there, or with one task that will give it.
THEOREM PermitsCorrect == Spec => []PermitsAdd
<1>1. IInv => PermitsAdd
  BY DEF IInv
<1> QED
  BY <1>1, Invariance, PTL

\* Every open socket has one owner, and no task has one that is closed.
THEOREM OwnersCorrect == Spec => []OneOwner
<1>1. Owned => OneOwner
  BY DEF Owned, Has, OneOwner, Owners
<1>2. IInv => OneOwner
  BY <1>1 DEF IInv
<1> QED
  BY <1>2, Invariance, PTL

\* webserverclients lists the open websockets, each once, but for those overrun.
THEOREM EntriesCorrect == Spec => []EntriesAreWebsockets
<1>1. IInv => EntriesAreWebsockets
  BY DEF IInv, Listed, EntriesAreWebsockets, iswebsocket
<1> QED
  BY <1>1, Invariance, PTL

\* Types; no more permits are there, or about to be given, than semclient has.
THEOREM TypeCorrect == Spec => []TypeOK
<1>1. IInv => TypeOK
  <2> SUFFICES ASSUME IInv PROVE TypeOK
    OBVIOUS
  <2>1. semclient \in 0..CLIENTS /\ givers \in 0..CLIENTS
    BY WebTasksFinite, ServerAssumption DEF IInv, Types, PermitsAdd
  <2> QED
    BY <2>1 DEF IInv, Types, TypeOK
<1> QED
  BY <1>1, Invariance, PTL

-----------------------------------------------------------------------------
(* The requests of a connection: WebRequest *)

\* What is known of a request in every state: a request begins in an empty buffer
\* if it is the first of its connection, and wherever it stops it was cut.
Requests ==
    /\ IF nth = 0 THEN size = 0 /\ kind = "get" ELSE size >= 2
    /\ kind = "post" => size \in 3..BODY + 2
    /\ nth = 0 \/ (nth = 1 /\ taken = 0) => \A p \in Units : buf[p] = Empty
    /\ pc = "begin" => taken = 0 /\ nth \in 0..1
    /\ 0 < taken /\ taken < size => taken \in cuts
    /\ pc \in {"head", "body"} => rec <= taken

\* A POST that comes smoothly on a connection that is not reset.
SmoothPost == kind = "post" /\ Smooth /\ conn # "rst"

\* Where the task is with a smooth POST: before or after it, after the first
\* half of its header, after its header, after all of it.
HalfHeader == /\ nth = 1 /\ taken = 1 /\ rec = 1 /\ ~short
              /\ \A p \in Units : buf[p] = IF p = 1 THEN 1 ELSE Empty
HeaderOnly == /\ taken = 2 /\ rec = 2 /\ ~short /\ bend = 3 /\ cl = size - 2
              /\ buf[1] = 1 /\ buf[2] = 2
Whole      == /\ taken = size /\ rec = size /\ ~short /\ bend = 3
              /\ \A p \in 1..size : buf[p] = p

Progress ==
    SmoothPost => /\ pc = "read"   => taken \in {0, size}
                  /\ pc = "head"   => HalfHeader
                  /\ pc = "body"   => HeaderOnly
                  /\ pc = "handle" => Whole

RequestInv == RequestTypeOK /\ Requests /\ Progress

\* What a place of the buffer may hold.
Content == Units \cup {Empty, Old, Torn}

LEMMA InitRequestInv == RequestInit => RequestInv
<1> SUFFICES ASSUME RequestInit PROVE RequestInv
  OBVIOUS
<1>1. RequestTypeOK
  <2>1. buf \in [Units -> Units \cup {Empty, Old, Torn}]
    BY DEF RequestInit
  <2>2. 0 \in 0..0 /\ 0 \in 0..BODY + 2 /\ 0 \in 0..BODY + 3 /\ 0 \in 0..BODY /\ 0 \in 0..REQUESTS
    BY RequestAssumption
  <2> QED
    BY <2>1, <2>2, Zenon DEF RequestInit, RequestTypeOK
<1>2. Requests
  BY DEF RequestInit, Requests
<1>3. Progress
  BY DEF RequestInit, Progress, SmoothPost
<1> QED
  BY <1>1, <1>2, <1>3 DEF RequestInv

\* Two units of a header and one of a body have a place.
LEMMA Places == 1 \in Units /\ 2 \in Units /\ BODY + 2 \in Nat
BY RequestAssumption DEF Units

\* read() returns at most what was sent, and at most what there is room for.
LEMMA CountBounds ==
    ASSUME RequestTypeOK, NEW room \in Nat
    PROVE  /\ Count(room) \in 0..room
           /\ Count(room) <= sent - taken
           /\ sent - taken <= room => Count(room) = sent - taken
BY RequestAssumption DEF RequestTypeOK, Count

LEMMA ReceivedBounds ==
    ASSUME RequestTypeOK, NEW room \in Nat, Received(room)
    PROVE  /\ taken' = taken + Count(room) /\ taken < taken' /\ taken' \in 0..sent
           /\ cuts' \subseteq Units
           /\ taken' < size => taken' \in cuts'
<1>1. taken' = taken + Count(room) /\ taken < taken' /\ taken' \in 0..sent
  BY CountBounds DEF Received, RequestTypeOK
<1>2. taken' < size => taken' \in Units
  BY <1>1, RequestAssumption DEF RequestTypeOK, Units
<1> QED
  BY <1>1, <1>2 DEF Received, RequestTypeOK

\* What is read into the buffer are units of the request.
LEMMA PutContent ==
    ASSUME RequestTypeOK, NEW b \in [Units -> Content], NEW at \in Nat, NEW room \in Nat
    PROVE  Put(b, at, room) \in [Units -> Content]
<1>1. Count(room) \in Nat /\ Count(room) <= sent - taken
  BY CountBounds
<1>2. ASSUME NEW p \in Units, p \in at..at + Count(room) - 1
      PROVE  taken + 1 + (p - at) \in Units
  BY <1>1, <1>2, RequestAssumption DEF RequestTypeOK, Units
<1> QED
  BY <1>2 DEF Put, Content

\* Look leaves the header's bounds in their range.
LEMMA LookTypes ==
    ASSUME RequestTypeOK, Requests, NEW b, NEW r, Look(b, r)
    PROVE  /\ pc' \in {"head", "body", "handle", "fault"}
           /\ bend' \in 0..BODY + 3 /\ cl' \in 0..BODY
<1>1. CASE EndPlaces(b) = {}
  BY <1>1, RequestAssumption DEF Look, RequestTypeOK
<1>2. ASSUME NEW p \in EndPlaces(b), bend' = p + 1,
             \/ ~IsPost(b) /\ pc' = "handle" /\ UNCHANGED cl
             \/ /\ IsPost(b)
                /\ cl' \in IF b[HeaderEnd] = HeaderEnd THEN {size - 2} ELSE 0..BODY
                /\ pc' \in {IF p + cl' > r THEN "body" ELSE "handle", "fault"}
      PROVE  /\ pc' \in {"head", "body", "handle", "fault"}
             /\ bend' \in 0..BODY + 3 /\ cl' \in 0..BODY
  <2>1. p \in Units
    BY DEF EndPlaces
  <2>2. bend' \in 0..BODY + 3
    BY <1>2, <2>1, RequestAssumption DEF Units
  <2>3. cl' \in 0..BODY
    BY <1>2, RequestAssumption DEF RequestTypeOK, Requests, IsPost
  <2> QED
    BY <1>2, <2>2, <2>3
<1> QED
  BY <1>1, <1>2 DEF Look

\* With the first half of a header alone, its end is still to come.
LEMMA LookHalf ==
    ASSUME NEW b, NEW r, Look(b, r), b[1] = 1, \A p \in Units \ {1} : b[p] = Empty
    PROVE  pc' \in {"head", "fault"}
<1>1. EndPlaces(b) = {}
  BY DEF EndPlaces, HeaderEnd, Empty, Old
<1> QED
  BY <1>1 DEF Look

\* With all of a header at the beginning, its one end is found in its place, and
\* of a POST the length it has.
LEMMA LookHeader ==
    ASSUME kind = "post", size \in 3..BODY + 2, NEW b, NEW r \in 2..size, Look(b, r),
           \A p \in 1..r : b[p] = p,
           \A p \in Units : p > r => b[p] \in {Empty, Old}
    PROVE  /\ bend' = 3 /\ cl' = size - 2
           /\ pc' \in {IF r < size THEN "body" ELSE "handle", "fault"}
<1>1. b[1] = 1 /\ b[2] = 2
  OBVIOUS
<1>2. ASSUME NEW p \in Units PROVE b[p] = 2 \/ (p = 2 /\ b[p] = Old) <=> p = 2
  <2>1. p \in Int /\ p >= 1
    BY RequestAssumption DEF Units
  <2>2. CASE p <= r
    BY <1>1, <2>1, <2>2
  <2>3. CASE p > r
    BY <1>1, <2>1, <2>3 DEF Empty, Old
  <2> QED
    BY <2>1, <2>2, <2>3
<1>3. EndPlaces(b) = {2}
  BY <1>2, Places DEF EndPlaces, HeaderEnd
<1>4. IsPost(b)
  BY <1>1 DEF IsPost
<1>5. bend' = 3 /\ cl' = size - 2 /\ pc' \in {IF 2 + cl' > r THEN "body" ELSE "handle", "fault"}
  BY <1>1, <1>3, <1>4 DEF Look, HeaderEnd
<1> QED
  BY <1>5

LEMMA RequestTypesStep == RequestInv /\ RequestNext => RequestTypeOK'
<1> SUFFICES ASSUME RequestInv, RequestNext PROVE RequestTypeOK'
  OBVIOUS
<1> USE DEF RequestInv
<1>1. CASE Ask
  <2>1. size' \in 0..BODY + 2 /\ sent' \in 0..size' /\ nth' \in 0..REQUESTS
    BY <1>1, RequestAssumption DEF Ask, RequestTypeOK
  <2>2. taken' \in 0..sent'
    BY <1>1, <2>1 DEF Ask
  <2> QED
    BY <1>1, <2>1, <2>2 DEF Ask, RequestTypeOK
<1>2. CASE SendMore \/ Close
  BY <1>2 DEF SendMore, Close, RequestTypeOK, task, hist
<1>3. CASE Start \/ ReadEnds \/ Handle \/ Finish
  BY <1>3 DEF Start, ReadEnds, Handle, Finish, RequestTypeOK, browser, hist
<1>4. CASE Read
  <2>1. BODY + 2 \in Nat
    BY Places
  <2>2. buf' \in [Units -> Content]
    <3>1. PICK left \in {Old, Empty} :
            buf' = Put([p \in Units |-> IF buf[p] = Empty THEN Empty ELSE left], 1, BODY + 2)
      BY <1>4 DEF Read
    <3> DEFINE b == [p \in Units |-> IF buf[p] = Empty THEN Empty ELSE left]
    <3>2. b \in [Units -> Content]
      BY DEF Content
    <3> HIDE DEF b
    <3>3. Put(b, 1, BODY + 2) \in [Units -> Content]
      BY <2>1, <3>2, PutContent
    <3> QED
      BY <3>1, <3>3 DEF b
  <2>3. rec' \in 0..BODY + 2 /\ taken' \in 0..sent /\ cuts' \subseteq Units
    <3>1. Received(BODY + 2) /\ rec' = Count(BODY + 2)
      BY <1>4 DEF Read, FirstLength
    <3> QED
      BY <2>1, <3>1, CountBounds, ReceivedBounds
  <2>4. Look(buf', rec')
    BY <1>4 DEF Read
  <2>5. pc' \in {"head", "body", "handle", "fault"} /\ bend' \in 0..BODY + 3 /\ cl' \in 0..BODY
    BY <2>4, LookTypes
  <2> QED
    BY <1>4, <2>2, <2>3, <2>5 DEF Read, RequestTypeOK, Content, browser
<1>5. CASE ReadHeader
  <2> DEFINE room == BODY + 2 - rec
             b == Put(buf, rec + 1, room)
  <2>1. room \in Nat /\ rec + 1 \in Nat /\ rec \in Nat
    BY RequestAssumption DEF RequestTypeOK
  <2>2. b \in [Units -> Content]
    BY <2>1, PutContent DEF RequestTypeOK, Content
  <2>3. buf' \in [Units -> Content]
    <3>1. buf' = IF short THEN [b EXCEPT ![rec] = Torn] ELSE b
      BY <1>5 DEF ReadHeader
    <3> HIDE DEF b
    <3> QED
      BY <2>2, <3>1 DEF Content
  <2>4. rec' \in 0..BODY + 2 /\ taken' \in 0..sent /\ cuts' \subseteq Units
    <3>1. Received(room) /\ rec' = rec + Count(room)
      BY <1>5 DEF ReadHeader
    <3>2. Count(room) \in 0..room
      BY <2>1, CountBounds
    <3>3. rec' \in 0..BODY + 2
      BY <2>1, <3>1, <3>2, RequestAssumption
    <3> HIDE DEF room
    <3> QED
      BY <2>1, <3>1, <3>3, ReceivedBounds
  <2>5. Look(buf', rec')
    BY <1>5 DEF ReadHeader
  <2>6. pc' \in {"head", "body", "handle", "fault"} /\ bend' \in 0..BODY + 3 /\ cl' \in 0..BODY
    BY <2>5, LookTypes
  <2> QED
    BY <1>5, <2>3, <2>4, <2>6 DEF ReadHeader, RequestTypeOK, Content, browser
<1>6. CASE ReadBody
  <2>1. cl \in Nat /\ BodyPlace \in Nat /\ rec \in Nat /\ rec <= taken
    BY <1>6, RequestAssumption DEF ReadBody, RequestTypeOK, Requests, BodyPlace
  <2>2. buf' \in [Units -> Content]
    BY <1>6, <2>1, PutContent DEF ReadBody, RequestTypeOK, Content
  <2>3. rec' \in 0..BODY + 2 /\ taken' \in 0..sent /\ cuts' \subseteq Units
    <3>1. Received(cl) /\ rec' = rec + Count(cl)
      BY <1>6 DEF ReadBody
    <3>2. Count(cl) \in Nat /\ taken' = taken + Count(cl) /\ taken' \in 0..sent /\ cuts' \subseteq Units
      BY <2>1, <3>1, CountBounds, ReceivedBounds
    <3> QED
      BY <2>1, <3>1, <3>2, RequestAssumption DEF RequestTypeOK
  <2> QED
    BY <1>6, <2>2, <2>3 DEF ReadBody, RequestTypeOK, Content, browser
<1>7. CASE HeaderNothing \/ BodyNothing
  BY <1>7 DEF HeaderNothing, BodyNothing, RequestTypeOK, browser
<1> QED
  BY <1>1, <1>2, <1>3, <1>4, <1>5, <1>6, <1>7 DEF RequestNext, Task

LEMMA RequestsStep == RequestInv /\ RequestNext => Requests'
<1> SUFFICES ASSUME RequestInv, RequestNext PROVE Requests'
  OBVIOUS
<1> USE DEF RequestInv
\* What is received, and that it is of a request.
<1>1. ASSUME NEW room \in Nat, Received(room)
      PROVE  nth # 0 /\ taken' > 0 /\ (taken' < size => taken' \in cuts')
             /\ (rec <= taken => rec + Count(room) <= taken') /\ Count(room) <= taken'
  <2>1. taken' = taken + Count(room) /\ taken < taken' /\ taken' \in 0..sent
    BY <1>1, ReceivedBounds
  <2>2. taken' < size => taken' \in cuts'
    BY <1>1, ReceivedBounds
  <2> QED
    BY <1>1, <2>1, <2>2, CountBounds, RequestAssumption DEF RequestTypeOK, Requests
<1>2. CASE Ask
  <2>1. nth' = nth + 1 /\ taken' = 0 /\ size' \in Nat /\ size' >= 2 /\ nth \in Nat
        /\ (kind' = "post" => size' \in 3..BODY + 2)
    BY <1>2, RequestAssumption DEF Ask, RequestTypeOK
  <2>2. pc = "begin" => nth = 0
    BY <1>2 DEF Ask, RequestTypeOK, Requests
  <2> QED
    BY <1>2, <2>1, <2>2 DEF Ask, Requests
<1>3. CASE SendMore \/ Close
  BY <1>3 DEF SendMore, Close, Requests, task, hist
<1>4. CASE Start \/ ReadEnds \/ HeaderNothing \/ BodyNothing \/ Handle \/ Finish
  <2>1. UNCHANGED <<browser, buf, rec, taken, cuts>> /\ pc' \notin {"begin", "body"}
        /\ (pc' = "head" => pc = "head")
    BY <1>4 DEF Start, ReadEnds, HeaderNothing, BodyNothing, Handle, Finish, RequestTypeOK, hist
  <2> QED
    BY <2>1 DEF Requests, browser
<1>5. CASE Read
  <2>1. taken' > 0 /\ nth # 0 /\ (taken' < size => taken' \in cuts') /\ rec' <= taken'
    <3>1. BODY + 2 \in Nat /\ Received(BODY + 2) /\ rec' = Count(BODY + 2)
      BY <1>5, Places DEF Read, FirstLength
    <3> QED
      BY <3>1, <1>1
  <2>2. pc' \in {"head", "body", "handle", "fault"}
    BY <1>5, LookTypes DEF Read
  <2> QED
    BY <1>5, <2>1, <2>2 DEF Read, Requests, browser
<1>6. CASE ReadHeader
  <2> DEFINE room == BODY + 2 - rec
  <2>1. Received(room) /\ room \in Nat /\ rec' = rec + Count(room) /\ rec <= taken
    BY <1>6, RequestAssumption DEF ReadHeader, RequestTypeOK, Requests
  <2> HIDE DEF room
  <2>2. taken' > 0 /\ nth # 0 /\ (taken' < size => taken' \in cuts') /\ rec' <= taken'
    BY <2>1, <1>1
  <2>3. pc' \in {"head", "body", "handle", "fault"}
    BY <1>6, LookTypes DEF ReadHeader
  <2> QED
    BY <1>6, <2>2, <2>3 DEF ReadHeader, Requests, browser
<1>7. CASE ReadBody
  <2>1. Received(cl) /\ cl \in Nat /\ rec <= taken
    BY <1>7, RequestAssumption DEF ReadBody, RequestTypeOK, Requests
  <2>2. taken' > 0 /\ nth # 0 /\ (taken' < size => taken' \in cuts')
    BY <2>1, <1>1
  <2> QED
    BY <1>7, <2>2 DEF ReadBody, Requests, browser
<1> QED
  BY <1>2, <1>3, <1>4, <1>5, <1>6, <1>7 DEF RequestNext, Task

\* Only Ask forgets that a request did not come smoothly.
LEMMA SmoothBefore == RequestInv /\ RequestNext /\ ~Ask /\ SmoothPost' => SmoothPost /\ ~late'
BY DEF RequestNext, Task, SendMore, Close, Start, Read, ReadEnds, ReadHeader, HeaderNothing,
   ReadBody, BodyNothing, Handle, Finish, Received, SmoothPost, Smooth, browser, task, hist

\* Where the task is when it has read the header, whole or in two parts, and
\* perhaps more, to the end of what was sent.
LEMMA AfterHeader ==
    ASSUME RequestInv, SmoothPost', UNCHANGED <<kind, size, sent, nth>>, Look(buf', taken'),
           taken' = sent, rec' = taken', ~short', taken' \in 1..size,
           taken' < size => taken' \in cuts',
           buf' \in [Units -> Content],
           \A p \in 1..taken' : buf'[p] = p,
           \A p \in Units : p > taken' => buf'[p] \in {Empty, Old},
           nth = 1 => \A p \in Units : p > taken' => buf'[p] = Empty
    PROVE  Progress'
<1>1. kind = "post" /\ size \in 3..BODY + 2 /\ size' = size
  BY DEF SmoothPost, RequestInv, Requests
<1>2. taken' < size => taken' = 2 \/ (taken' = 1 /\ nth = 1)
  BY DEF SmoothPost, Smooth
<1>3. CASE taken' = 1
  <2>1. nth = 1 /\ buf'[1] = 1 /\ \A p \in Units \ {1} : buf'[p] = Empty
    BY <1>1, <1>2, <1>3 DEF Units
  <2>2. pc' \in {"head", "fault"}
    BY <2>1, LookHalf
  <2> QED
    BY <1>3, <2>1, <2>2 DEF Progress, HalfHeader
<1>4. CASE taken' # 1
  <2>1. taken' \in 2..size
    BY <1>1, <1>4
  <2>2. bend' = 3 /\ cl' = size - 2
        /\ pc' \in {IF taken' < size THEN "body" ELSE "handle", "fault"}
    BY <1>1, <2>1, LookHeader
  <2>3. CASE taken' < size
    <3>1. taken' = 2 /\ pc' \in {"body", "fault"} /\ buf'[1] = 1 /\ buf'[2] = 2
      BY <1>2, <2>1, <2>2, <2>3
    <3> QED
      BY <1>1, <2>2, <3>1 DEF Progress, HeaderOnly
  <2>4. CASE taken' = size
    <3>1. pc' \in {"handle", "fault"}
      BY <1>1, <2>2, <2>4
    <3> QED
      BY <1>1, <2>2, <2>4, <3>1 DEF Progress, Whole
  <2> QED
    BY <1>1, <2>1, <2>3, <2>4
<1> QED
  BY <1>3, <1>4

LEMMA ProgressStep == RequestInv /\ RequestNext => Progress'
<1> SUFFICES ASSUME RequestInv, RequestNext, SmoothPost' PROVE Progress'
  BY DEF Progress
<1> USE DEF RequestInv
<1>1. CASE Ask
  BY <1>1 DEF Ask, Progress
<1>2. ASSUME ~Ask PROVE SmoothPost /\ Progress /\ ~late'
  BY <1>2, SmoothBefore
<1>3. CASE SendMore \/ Close
  BY <1>2, <1>3 DEF SendMore, Close, Ask, Progress, HalfHeader, HeaderOnly, Whole, task, hist
<1>4. CASE Start
  <2>1. ~Ask /\ taken = 0
    BY <1>4 DEF Start, Ask, Requests, browser
  <2> QED
    BY <1>4, <2>1 DEF Start, Progress
<1>5. CASE ~Ask /\ Read
  <2>1. UNCHANGED <<kind, size, sent, nth>> /\ pc = "read" /\ rec' = Count(BODY + 2) /\ ~short'
        /\ Received(BODY + 2) /\ Look(buf', rec')
    BY <1>5 DEF Read, FirstLength, browser
  <2>2. BODY + 2 \in Nat /\ sent \in 0..BODY + 2 /\ taken \in 0..sent /\ size \in 3..BODY + 2
        /\ sent <= size
    BY <1>2, <1>5, RequestAssumption DEF RequestTypeOK, Requests, SmoothPost
  <2>3. taken' = taken + Count(BODY + 2) /\ taken < taken'
        /\ (taken' < size => taken' \in cuts')
    BY <2>1, <2>2, ReceivedBounds
  <2>4. Count(BODY + 2) = sent - taken
    BY <2>2, CountBounds
  <2>5. taken = 0
    BY <1>2, <1>5, <2>1, <2>2, <2>3, <2>4 DEF Progress
  <2>6. taken' = sent /\ rec' = taken' /\ taken' \in 1..size
    BY <2>1, <2>2, <2>3, <2>4, <2>5
  <2>7. PICK left \in {Old, Empty} :
          buf' = Put([p \in Units |-> IF buf[p] = Empty THEN Empty ELSE left], 1, BODY + 2)
    BY <1>5 DEF Read
  <2>8. ASSUME NEW p \in Units
        PROVE  buf'[p] = IF p <= taken' THEN p ELSE IF buf[p] = Empty THEN Empty ELSE left
    <3>1. p \in 1..1 + Count(BODY + 2) - 1 <=> p <= taken'
      BY <2>2, <2>4, <2>5, <2>6 DEF Units
    <3>2. taken + 1 + (p - 1) = p
      BY <2>2, <2>5 DEF Units
    <3> QED
      BY <2>7, <3>1, <3>2 DEF Put
  <2>9. nth = 1 => \A p \in Units : buf[p] = Empty
    BY <2>5 DEF Requests
  <2>10. \A p \in 1..taken' : p \in Units
    BY <2>2, <2>6, RequestAssumption DEF Units
  <2>11. buf' \in [Units -> Content]
    BY RequestTypesStep DEF RequestTypeOK, Content, Units
  <2>12. Look(buf', taken')
    BY <2>1, <2>6
  <2>13. /\ \A p \in 1..taken' : buf'[p] = p
         /\ \A p \in Units : p > taken' => buf'[p] \in {Empty, Old}
         /\ nth = 1 => \A p \in Units : p > taken' => buf'[p] = Empty
    BY <2>1, <2>6, <2>8, <2>9, <2>10, <2>6 DEF Units
  <2> QED
    BY <2>1, <2>3, <2>6, <2>7, <2>8, <2>11, <2>12, <2>13, AfterHeader
<1>6. CASE ~Ask /\ ReadHeader
  <2> DEFINE room == BODY + 2 - rec
             b == Put(buf, rec + 1, room)
  <2>1. UNCHANGED <<kind, size, sent, nth>> /\ pc = "head" /\ rec' = rec + Count(room) /\ ~short'
        /\ Received(room) /\ Look(buf', rec') /\ buf' = IF short THEN [b EXCEPT ![rec] = Torn] ELSE b
    BY <1>6 DEF ReadHeader, browser
  <2>2. HalfHeader /\ kind = "post"
    BY <1>2, <1>6, <2>1 DEF Progress, SmoothPost
  <2>3. nth = 1 /\ taken = 1 /\ rec = 1 /\ room = BODY + 1 /\ BODY + 1 \in Nat /\ buf' = Put(buf, 2, BODY + 1)
    BY <2>1, <2>2, RequestAssumption DEF HalfHeader
  <2>4. sent \in 0..size /\ size \in 3..BODY + 2 /\ taken \in 0..sent
    BY <2>2, RequestAssumption DEF RequestTypeOK, Requests
  <2>5. Received(BODY + 1) /\ rec' = 1 + Count(BODY + 1)
    BY <2>1, <2>3
  <2> HIDE DEF room, b
  <2>6. Count(BODY + 1) = sent - 1
    BY <2>3, <2>4, CountBounds, RequestAssumption
  <2>7. taken' = taken + Count(BODY + 1) /\ taken < taken' /\ (taken' < size => taken' \in cuts')
    BY <2>3, <2>5, ReceivedBounds
  <2>8. taken' = sent /\ rec' = taken' /\ taken' \in 1..size
    BY <2>3, <2>4, <2>5, <2>6, <2>7
  <2>9. ASSUME NEW p \in Units
        PROVE  buf'[p] = IF p <= taken' THEN p ELSE Empty
    <3>1. p \in 2..2 + Count(BODY + 1) - 1 <=> p <= taken' /\ p # 1
      BY <2>4, <2>6, <2>8 DEF Units
    <3>2. taken + 1 + (p - 2) = p
      BY <2>3 DEF Units
    <3>3. buf[p] = IF p = 1 THEN 1 ELSE Empty
      BY <2>2 DEF HalfHeader
    <3> QED
      BY <2>3, <2>8, <3>1, <3>2, <3>3 DEF Put
  <2>10. \A p \in 1..taken' : p \in Units
    BY <2>4, <2>8, RequestAssumption DEF Units
  <2>11. buf' \in [Units -> Content]
    BY RequestTypesStep DEF RequestTypeOK, Content, Units
  <2>12. Look(buf', taken')
    BY <2>1, <2>8
  <2>13. /\ \A p \in 1..taken' : buf'[p] = p
         /\ \A p \in Units : p > taken' => buf'[p] \in {Empty, Old}
         /\ nth = 1 => \A p \in Units : p > taken' => buf'[p] = Empty
    BY <2>1, <2>3, <2>8, <2>9, <2>10, <2>6 DEF Units
  <2> QED
    BY <2>1, <2>3, <2>6, <2>7, <2>8, <2>11, <2>12, <2>13, AfterHeader
<1>7. CASE ~Ask /\ ReadBody
  <2>1. HeaderOnly /\ kind = "post" /\ size \in 3..BODY + 2 /\ sent \in 0..size
    BY <1>2, <1>7, RequestAssumption DEF ReadBody, Progress, SmoothPost, Requests, RequestTypeOK
  <2>2. taken = 2 /\ rec = 2 /\ ~short /\ bend = 3 /\ cl = size - 2 /\ cl \in Nat
    BY <2>1 DEF HeaderOnly
  <2>3. Received(cl) /\ buf' = Put(buf, 3, cl) /\ rec' = rec + Count(cl) /\ pc' = "handle"
        /\ UNCHANGED <<kind, size, sent, nth, short, bend>>
    BY <1>7, <2>2 DEF ReadBody, BodyPlace, browser
  <2>4. Count(cl) = sent - 2
    BY <2>1, <2>2, CountBounds
  <2>5. taken' = sent /\ taken < taken' /\ (taken' < size => taken' \in cuts')
    BY <2>1, <2>2, <2>3, <2>4, ReceivedBounds
  <2>6. sent = size
    BY <2>1, <2>2, <2>3, <2>5 DEF SmoothPost, Smooth
  <2>7. ASSUME NEW p \in 1..size PROVE buf'[p] = p
    <3>1. p \in Units
      BY <2>1, RequestAssumption DEF Units
    <3>2. p \in 3..3 + Count(cl) - 1 <=> p > 2
      BY <2>1, <2>4, <2>6
    <3>3. taken + 1 + (p - 3) = p
      BY <2>2
    <3>4. p \in {1, 2} => buf[p] = p
      BY <2>1 DEF HeaderOnly
    <3>5. p > 2 \/ p \in {1, 2}
      BY <2>1
    <3> QED
      BY <2>3, <3>1, <3>2, <3>3, <3>4, <3>5 DEF Put
  <2> QED
    BY <2>1, <2>2, <2>3, <2>4, <2>5, <2>6, <2>7 DEF Progress, Whole
<1>8. CASE ~Ask /\ (ReadEnds \/ HeaderNothing \/ BodyNothing \/ Finish)
  BY <1>2, <1>8 DEF ReadEnds, HeaderNothing, BodyNothing, Finish, Progress, SmoothPost, Smooth,
     browser, hist
<1>9. CASE ~Ask /\ Handle
  <2>1. taken = size /\ UNCHANGED <<browser, taken>>
    BY <1>2, <1>9 DEF Handle, Progress, Whole
  <2>2. pc' \notin {"head", "body", "handle"}
    BY <1>9 DEF Handle, RequestTypeOK
  <2> QED
    BY <2>1, <2>2 DEF Progress, browser
<1> QED
  BY <1>1, <1>3, <1>4, <1>5, <1>6, <1>7, <1>8, <1>9 DEF RequestNext, Task

LEMMA RequestStutter == RequestInv /\ UNCHANGED requestVars => RequestInv'
BY DEF requestVars, browser, task, hist, RequestInv, RequestTypeOK, Requests, Progress,
   SmoothPost, Smooth, HalfHeader, HeaderOnly, Whole

THEOREM RequestInvariance == RequestSpec => []RequestInv
<1>1. RequestInv /\ [RequestNext]_requestVars => RequestInv'
  <2> SUFFICES ASSUME RequestInv, [RequestNext]_requestVars PROVE RequestInv'
    OBVIOUS
  <2>1. CASE RequestNext
    BY <2>1, RequestTypesStep, RequestsStep, ProgressStep DEF RequestInv
  <2>2. CASE UNCHANGED requestVars
    BY <2>2, RequestStutter
  <2> QED
    BY <2>1, <2>2
<1> QED
  BY InitRequestInv, <1>1, PTL DEF RequestSpec

\* The buffer, its length and the lengths of a request are what they may be.
THEOREM RequestTypeCorrect == RequestSpec => []RequestTypeOK
<1>1. RequestInv => RequestTypeOK
  BY DEF RequestInv
<1> QED
  BY <1>1, RequestInvariance, PTL

\* httpServerHandleConnection has a POST that came smoothly as it was sent.
THEOREM PostCorrect == RequestSpec => []PostAsSent
<1>1. RequestInv => PostAsSent
  BY DEF RequestInv, Progress, SmoothPost, Whole, PostAsSent
<1> QED
  BY <1>1, RequestInvariance, PTL
=============================================================================
