--------------------------- MODULE ClientControl ---------------------------
(***************************************************************************)
(* How the radio is told to play and to stop: clientTask (webclient.c),    *)
(* the binary semaphores sConnect, sDisconnect and sConnected, the station *)
(* fields clientURL, clientPath and clientPort that everybody writes, and  *)
(* the tasks that give commands: web server tasks (playStation, /stop) and *)
(* the serial console (cli.play, cli.start, cli.stop, cli.url/path/port).  *)
(*                                                                         *)
(* Scheduling.  clientTask has the highest priority of the program: what it*)
(* does between two places where it blocks (sConnect, connect, recv, a name*)
(* lookup, vTaskDelay) is one action.  A command loses the processor       *)
(* between any two accesses to shared state, so it is one action for each. *)
(*                                                                         *)
(* Data.  A station is one value, and stands for its URL, its path and its *)
(* port when they are looked at one by one; None is an empty one, as flash *)
(* that was cleared holds, and Blank one that was erased and never written *)
(* (0xFF).  The network is any network: a lookup or a connection may fail, *)
(* a connection may end at any time.                                       *)
(*                                                                         *)
(* sess, want, named and slip are history: what the connection was made    *)
(* with; the target of the session that there should be; the one that the  *)
(* commands, playlists and redirections have named, piece by piece or as a *)
(* whole; and the first thing since the control was last at rest that the  *)
(* handshake cannot cope with.  After that there is no telling who wants   *)
(* what, and the other three are empty.                                    *)
(***************************************************************************)
EXTENDS Naturals, FiniteSets

CONSTANTS Station,    \* what a connection can be made to
          Playlists,  \* the stations whose path has .m3u, .pls or .xspf
          None,       \* NULL, or no station
          Blank,      \* a station that was never written
          Recorded,   \* what the station list in flash holds
          Web,        \* tasks that serve web requests
          Console     \* tasks that run console commands: uartInterfaceTask

ASSUME ControlAssumption ==
    /\ Playlists \subseteq Station
    /\ None \notin Station /\ Blank \notin Station \cup {None}
    /\ Recorded \subseteq Station \cup {None, Blank}
    /\ Web \cap Console = {}

Callers == Web \cup Console

Fields  == Station \cup {None}
Targets == [url : Fields, path : Fields, port : Fields \cup {Blank}]
Whole(s) == [url |-> s, path |-> s, port |-> s]
NoTarget == Whole(None)

VARIABLES
    sConnect, sConnected, sDisconnect,    \* the semaphores: TRUE when given
    cstatus,                              \* what clientTask expects to receive
    server,                               \* the address looked up, or NULL
    clientURL, clientPath, clientPort,    \* the station to connect to
    playing,
    ct,           \* where clientTask blocks
    lookup,       \* the name clientTask is looking up
    pc, cmd, tgt, \* a command: where it is, which it is, its station
    name,         \* the name it is looking up
    sess, want, named, slip    \* history

sems   == <<sConnect, sConnected, sDisconnect>>
target == <<clientURL, clientPath, clientPort>>
client == <<playing, ct, lookup>>
calls  == <<pc, cmd, tgt, name>>
hist   == <<sess, want, named, slip>>
vars   == <<sems, cstatus, server, target, client, calls, hist>>

Idle   == [c \in Callers |-> "idle"]
NoName == [c \in Callers |-> None]

Init == /\ sConnect = FALSE /\ sConnected = TRUE /\ sDisconnect = FALSE
        /\ cstatus = "header"
        /\ server = None
        /\ clientURL = None /\ clientPath = None /\ clientPort = None
        /\ playing = FALSE /\ ct = "wait" /\ lookup = None
        /\ pc = Idle /\ cmd = Idle /\ tgt = NoName /\ name = NoName
        /\ sess = NoTarget /\ want = NoTarget /\ named = NoTarget /\ slip = "none"

\* The history after a step: the session, the wanted one, the named one, what
\* went wrong.
Record(s, w, n, cause) ==
    LET all     == IF slip = "none" THEN cause ELSE slip
        Kept(t) == IF all = "none" THEN t ELSE NoTarget
    IN  slip' = all /\ sess' = Kept(s) /\ want' = Kept(w) /\ named' = Kept(n)

\* A step that names nothing.
History(s, w, cause) == Record(s, w, named, cause)

Current == [url |-> clientURL, path |-> clientPath, port |-> clientPort]

\* A clientIsConnected that has taken sConnected and is to give it back.
Probing(c) == pc[c] \in {"back0", "back1", "back2"}

-----------------------------------------------------------------------------
(* clientTask *)

\* Take sConnect, forget an older sDisconnect, dereference server, connect().
\* A NULL server is a fault.
Open ==
    /\ ct = "wait" /\ sConnect
    /\ sConnect' = FALSE /\ sDisconnect' = FALSE
    /\ ct' = IF server = None THEN "fault" ELSE "opening"
    /\ History([url |-> server, path |-> None, port |-> clientPort], want, "none")
    /\ UNCHANGED <<sConnected, cstatus, server, target, playing, lookup, calls>>

\* Mutant: sConnected is not taken.
ConnectedUnsaid ==
    /\ ct = "opening"
    /\ cstatus' = IF clientPath \in Playlists THEN "playlist" ELSE cstatus
    /\ ct' = "recv"
    /\ History([sess EXCEPT !.path = clientPath], want,
               IF \E c \in Callers : Probing(c) THEN "probeSpansOpen" ELSE "none")
    /\ UNCHANGED <<sems, server, target, playing, lookup, calls>>

\* connect() succeeded: the path is read, the request sent, sConnected taken
\* if it is given.  Somebody who holds it at that moment gives it later.
Connected ==
    /\ ct = "opening"
    /\ cstatus' = IF clientPath \in Playlists THEN "playlist" ELSE cstatus
    /\ sConnected' = FALSE
    /\ ct' = "recv"
    /\ History([sess EXCEPT !.path = clientPath], want,
               IF \E c \in Callers : Probing(c) THEN "probeSpansOpen" ELSE "none")
    /\ UNCHANGED <<sConnect, sDisconnect, server, target, playing, lookup, calls>>

\* connect() failed.  bytes_read, never set or left from an older session,
\* decides whether clientDisconnect is called.
ConnectFails ==
    /\ ct = "opening"
    /\ ct' = "close"
    /\ sDisconnect' \in {sDisconnect, TRUE}
    /\ History(NoTarget, NoTarget, "none")
    /\ UNCHANGED <<sConnect, sConnected, cstatus, server, target, playing,
                   lookup, calls>>

\* Out of the receive loop, to bufferReset, playing = 0 and vTaskDelay.
Leave == ct' = "close" /\ playing' = FALSE

\* Mutant: sDisconnect is taken and the loop goes on.
StayWhenTold ==
    /\ sDisconnect' = FALSE
    /\ ct' = "recv" /\ UNCHANGED <<playing, hist>>

\* The end of the receive loop after a chunk: take sDisconnect if it is given,
\* and leave.
LeaveIfTold ==
    /\ sDisconnect' = FALSE
    /\ IF sDisconnect THEN Leave /\ History(NoTarget, want, "none")
       ELSE ct' = "recv" /\ UNCHANGED <<playing, hist>>

\* The session is over and clientTask, if it was told so by cstatus, will make
\* one to w; n is named.  It takes a stop that it was given for its own.
LeaveFor(w, n) ==
    /\ Leave
    /\ Record(NoTarget, w, n, IF sDisconnect /\ cstatus' = "playlist"
                              THEN "stopMeetsPlaylist" ELSE "none")

\* clientParsePlaylist finds an address in what came in, or does not.  The host
\* localhost is the one that is set already.
Found(t) ==
    \E local \in BOOLEAN :
        LET n == [Whole(t) EXCEPT !.url = IF local THEN named.url ELSE t] IN
        /\ clientURL' = IF local THEN clientURL ELSE t
        /\ clientPath' = t /\ clientPort' = t
        /\ LeaveFor(IF want = NoTarget THEN NoTarget ELSE n, n)
NotFound == UNCHANGED target /\ LeaveFor(want, named)
Parse == NotFound \/ \E t \in Station : Found(t)

\* A chunk in state C_PLAYLIST or C_PLAYLIST1.  When there is something to
\* connect to, or no hope of it, clientTask stops itself; cstatus says that it
\* shall connect again.
Playlist ==
    /\ ct = "recv" /\ cstatus \in {"playlist", "playlist1"}
    /\ cstatus' = "playlist" /\ sDisconnect' = FALSE
    /\ (\E t \in Station : Found(t)) \/ (cstatus = "playlist1" /\ NotFound)
    /\ UNCHANGED <<sConnect, sConnected, server, lookup, calls>>

PlaylistMore ==
    /\ ct = "recv" /\ cstatus = "playlist"
    /\ cstatus' = "playlist1" /\ LeaveIfTold
    /\ UNCHANGED <<sConnect, sConnected, server, target, lookup, calls>>

\* A header that says 301 or 302.
Redirect ==
    /\ ct = "recv" /\ cstatus = "header"
    /\ cstatus' = "playlist" /\ sDisconnect' = FALSE
    /\ Parse
    /\ UNCHANGED <<sConnect, sConnected, server, lookup, calls>>

\* Any other first chunk: the header ends in it, or clientReceiveCallback
\* enters a loop of its own that receives until it does.
Header ==
    /\ ct = "recv" /\ cstatus \in {"header", "header1"}
    /\ \/ cstatus' = "data" /\ LeaveIfTold
       \/ cstatus' = "header1" /\ ct' = "hdr" /\ UNCHANGED <<sDisconnect, playing, hist>>
    /\ UNCHANGED <<sConnect, sConnected, server, target, lookup, calls>>

\* The loop gets the rest of the header.
HeaderEnds ==
    /\ ct = "hdr"
    /\ cstatus' = "data" /\ LeaveIfTold
    /\ UNCHANGED <<sConnect, sConnected, server, target, lookup, calls>>

\* The connection ends, or RECEIVE bytes are in without the end of the header:
\* recv returns at once from now on, and the loop never ends.
HeaderSpins ==
    /\ ct = "hdr"
    /\ ct' = "spin"
    /\ UNCHANGED <<sems, cstatus, server, target, playing, lookup, calls, hist>>

\* Audio bytes; with enough of them in the buffer playback starts.
Data ==
    /\ ct = "recv" /\ cstatus = "data"
    /\ \/ LeaveIfTold
       \/ ~sDisconnect /\ playing' = TRUE /\ UNCHANGED <<sDisconnect, ct, hist>>
    /\ UNCHANGED <<sConnect, sConnected, cstatus, server, target, lookup, calls>>

\* recv returns an error, or 0 before playback started; in the second case
\* clientTask gives sDisconnect ("Not Found").  Only a session for a playlist
\* is followed by another one.
Fail ==
    /\ ct = "recv"
    /\ sDisconnect' \in {FALSE, ~playing}
    /\ UNCHANGED cstatus
    /\ LeaveFor(IF cstatus = "playlist" THEN want ELSE NoTarget, named)
    /\ UNCHANGED <<sConnect, sConnected, server, target, lookup, calls>>

\* recv returns 0 while playing: clientDisconnect, then clientConnect up to
\* its name lookup.
EndOfStream ==
    /\ ct = "recv" /\ playing
    /\ sDisconnect' = TRUE
    /\ cstatus' = "header" /\ lookup' = clientURL
    /\ ct' = "redns"
    /\ History(NoTarget, want, IF sDisconnect THEN "stopMeetsEnd" ELSE "none")
    /\ UNCHANGED <<sConnect, sConnected, server, target, playing, calls>>

\* No name is looked up without one, and a lookup may fail.
Outcome(n) == {FALSE} \cup {n # None}

\* Mutant: sConnect is not given.
ResolveSilently ==
    /\ lookup' = None
    /\ \E ok \in Outcome(lookup) :
         /\ server' = IF ok THEN lookup ELSE None
         /\ sDisconnect' = (sDisconnect \/ ~ok)
         /\ History(NoTarget, IF ok THEN want ELSE NoTarget, "none")
    /\ UNCHANGED sConnect

\* The lookup of clientConnect in clientTask: give sConnect, or disconnect.
Resolve ==
    /\ lookup' = None
    /\ \E ok \in Outcome(lookup) :
         /\ server' = IF ok THEN lookup ELSE None
         /\ sConnect' = (sConnect \/ ok)
         /\ sDisconnect' = (sDisconnect \/ ~ok)
         /\ History(NoTarget, IF ok THEN want ELSE NoTarget, "none")

Reconnect ==
    /\ ct = "redns"
    /\ Resolve /\ Leave
    /\ UNCHANGED <<sConnected, cstatus, target, calls>>

\* After vTaskDelay(10) and close(): a session for a playlist or a redirection
\* is followed by clientConnect, any other by the top of the loop.
Close ==
    /\ ct = "close"
    /\ IF cstatus = "playlist"
       THEN /\ cstatus' = "header" /\ lookup' = clientURL /\ ct' = "pldns"
            /\ UNCHANGED sConnected
       ELSE /\ sConnected' = TRUE /\ ct' = "wait"
            /\ UNCHANGED <<cstatus, lookup>>
    /\ UNCHANGED <<sConnect, sDisconnect, server, target, playing, calls, hist>>

PlaylistConnect ==
    /\ ct = "pldns"
    /\ Resolve
    /\ sConnected' = TRUE /\ ct' = "wait"
    /\ UNCHANGED <<cstatus, target, playing, calls>>

\* A fault, or the watchdog on a task that spins: everything starts again.
Reboot ==
    /\ ct \in {"fault", "spin"}
    /\ sConnect' = FALSE /\ sConnected' = TRUE /\ sDisconnect' = FALSE
    /\ cstatus' = "header" /\ server' = None
    /\ clientURL' = None /\ clientPath' = None /\ clientPort' = None
    /\ playing' = FALSE /\ ct' = "wait" /\ lookup' = None
    /\ pc' = Idle /\ cmd' = Idle /\ tgt' = NoName /\ name' = NoName
    /\ sess' = NoTarget /\ want' = NoTarget /\ named' = NoTarget /\ slip' = "none"

Chunk == Playlist \/ PlaylistMore \/ Redirect \/ Header \/ HeaderEnds \/ Data
StreamEnds == HeaderSpins \/ Fail \/ EndOfStream

ClientTask == Open \/ Connected \/ ConnectFails \/ Chunk \/ StreamEnds
                \/ Reconnect \/ Close \/ PlaylistConnect \/ Reboot

-----------------------------------------------------------------------------
(* The commands.  They run only while clientTask is blocked. *)

ClientBlocked == ct \notin {"fault", "spin"} /\ ~(ct = "wait" /\ sConnect)

\* clientTask is between two sessions and has nothing to do.
AtRest == ct = "wait" /\ ~sConnect

\* clientTask has a connection to make once it is done with what it does.
WillConnect == \/ sConnect
               \/ ct \in {"redns", "pldns"}
               \/ ct = "close" /\ cstatus = "playlist"

\* c is at work on the station, or to make clientTask connect to it.
Setting(c)    == pc[c] \in {"url", "path", "port", "connect", "dns", "give"}
Connecting(c) == pc[c] \in {"dns", "give"}

Goto(c, l) == pc' = [pc EXCEPT ![c] = l]
Done(c) == Goto(c, "idle") /\ cmd' = [cmd EXCEPT ![c] = "idle"]
                           /\ tgt' = [tgt EXCEPT ![c] = None]

\* What is wrong when c starts to set the station, or to connect to it.
SetSlip(c, cause) == IF \E d \in Callers \ {c} : Setting(d) THEN "settersOverlap"
                     ELSE IF AtRest THEN "none" ELSE cause

\* The control is at rest: no session, no command; and the station is all of a
\* piece if there is no telling what was named.
Quiet == /\ AtRest /\ sConnected /\ pc = Idle
         /\ slip = "none" \/ Current = Whole(clientURL)

FirstStep == [play  |-> "stop",    \* playStation (/play, cli.play, cli.next ...),
                                   \* /instant_play
              stop  |-> "ask",     \* /stop
              start |-> "connect", \* cli.start
              halt  |-> "stop",    \* cli.stop
              url   |-> "url",     \* cli.url, cli.path, cli.port: each by itself
              path  |-> "path",
              port  |-> "port"]

Setters == {"url", "path", "port"}

Commands(c) == IF c \in Web THEN {"play", "stop"}
               ELSE {"play", "start", "halt"} \cup Setters

\* What command k is given: what is recorded, or what somebody types.
Given(k) == IF k = "play" THEN Recorded
            ELSE IF k \in Setters THEN Station ELSE {None}

Begin(c) ==
    /\ pc[c] = "idle"
    /\ \E k \in Commands(c) :
         /\ cmd' = [cmd EXCEPT ![c] = k]
         /\ Goto(c, FirstStep[k])
         /\ \E s \in Given(k) : tgt' = [tgt EXCEPT ![c] = s]
         /\ IF Quiet
            THEN /\ slip' = "none" /\ want' = NoTarget /\ UNCHANGED sess
                 /\ named' = IF slip = "none" THEN named ELSE Current
            ELSE History(sess, want, IF FirstStep[k] \in Setters \cup {"connect"}
                                     THEN SetSlip(c, "startWhileBusy") ELSE "none")
    /\ UNCHANGED <<sems, cstatus, server, target, client, name>>

\* clientIsConnected, in /stop and in the two waiting loops: take sConnected;
\* if that worked, give it back and answer no, else answer yes.
Take(c) ==
    /\ pc[c] \in {"ask", "poll", "poll2"} /\ sConnected
    /\ sConnected' = FALSE
    /\ Goto(c, CASE pc[c] = "ask"   -> "back0"
                 [] pc[c] = "poll"  -> "back1"
                 [] pc[c] = "poll2" -> "back2")
    /\ UNCHANGED <<sConnect, sDisconnect, cstatus, server, target, client, cmd,
                   tgt, name, hist>>

\* No session: /stop has nothing to do, playStation goes on to set the station,
\* and its second loop goes on waiting.
GiveBack(c) ==
    /\ Probing(c)
    /\ sConnected' = TRUE
    /\ CASE pc[c] = "back2" -> Goto(c, "poll2") /\ UNCHANGED <<cmd, tgt, hist>>
         [] pc[c] = "back1" /\ cmd[c] = "play" ->
              /\ Goto(c, "url") /\ UNCHANGED <<cmd, tgt>>
              /\ History(sess, want, SetSlip(c, "openingLooksIdle"))
         [] OTHER -> Done(c) /\ UNCHANGED hist
    /\ UNCHANGED <<sConnect, sDisconnect, cstatus, server, target, client, name>>

\* clientIsConnected answers yes: /stop stops, playStation's second loop ends.
Yes(c) ==
    /\ ~sConnected
    /\ \/ pc[c] = "ask" /\ Goto(c, "stop") /\ UNCHANGED <<cmd, tgt>>
       \/ pc[c] = "poll2" /\ Done(c)
    /\ UNCHANGED <<sems, cstatus, server, target, client, name, hist>>

\* Mutant: playStation's second loop has no bound.
GiveUpStop(c) ==
    /\ pc[c] = "poll"
    /\ IF cmd[c] = "play"
       THEN /\ Goto(c, "url") /\ UNCHANGED <<cmd, tgt>>
            /\ History(sess, want, SetSlip(c, "gaveUp"))
       ELSE Done(c) /\ UNCHANGED hist
    /\ UNCHANGED <<sems, cstatus, server, target, client, name>>

\* A waiting loop ends after 100 rounds whatever the answers were.
GiveUp(c) ==
    /\ \/ pc[c] = "poll" /\ cmd[c] = "play"
          /\ Goto(c, "url") /\ UNCHANGED <<cmd, tgt>>
          /\ History(sess, want, SetSlip(c, "gaveUp"))
       \/ /\ pc[c] = "poll2" \/ (pc[c] = "poll" /\ cmd[c] = "stop")
          /\ Done(c) /\ UNCHANGED hist
    /\ UNCHANGED <<sems, cstatus, server, target, client, name>>

\* clientDisconnect.
Stop(c) ==
    /\ pc[c] = "stop"
    /\ sDisconnect' = TRUE
    /\ IF cmd[c] = "halt" THEN Done(c) ELSE Goto(c, "poll") /\ UNCHANGED <<cmd, tgt>>
    /\ History(sess, NoTarget,
               IF WillConnect THEN "stopWhileReconnecting"
               ELSE IF \E d \in Callers : Connecting(d) THEN "stopBeforeOpen"
               ELSE "none")
    /\ UNCHANGED <<sConnect, sConnected, cstatus, server, target, client, name>>

\* clientSetURL and clientSetPath leave alone what was set before when they are
\* given 0xFF.
Set(old, new) == IF new = Blank THEN old ELSE new

\* A play goes on to the next piece, a setter is done.
Then(c, l) == IF cmd[c] = "play" THEN Goto(c, l) /\ UNCHANGED <<cmd, tgt>> ELSE Done(c)

\* A play names a station as a whole, and a setter the piece of its name.
Name(c, n) ==
    Record(sess, want, IF cmd[c] = "play" THEN Whole(tgt[c]) ELSE n,
           IF tgt[c] = Blank THEN "blankStation" ELSE "none")

SetURL(c) ==
    /\ pc[c] = "url" /\ Then(c, "path")
    /\ clientURL' = Set(clientURL, tgt[c])
    /\ Name(c, [named EXCEPT !.url = tgt[c]])
    /\ UNCHANGED <<sems, cstatus, server, clientPath, clientPort, client, name>>

\* Mutant of SetPath: the path stays the one of the station before.
SetNoPath(c) ==
    /\ pc[c] = "path" /\ Then(c, "port")
    /\ Name(c, [named EXCEPT !.path = tgt[c]])
    /\ UNCHANGED <<sems, cstatus, server, target, client, name>>

SetPath(c) ==
    /\ pc[c] = "path" /\ Then(c, "port")
    /\ clientPath' = Set(clientPath, tgt[c])
    /\ Name(c, [named EXCEPT !.path = tgt[c]])
    /\ UNCHANGED <<sems, cstatus, server, clientURL, clientPort, client, name>>

SetPort(c) ==
    /\ pc[c] = "port"
    /\ IF cmd[c] = "play"
       THEN Goto(c, "connect") /\ UNCHANGED cmd /\ tgt' = [tgt EXCEPT ![c] = None]
       ELSE Done(c)
    /\ clientPort' = tgt[c]
    /\ Name(c, [named EXCEPT !.port = tgt[c]])
    /\ UNCHANGED <<sems, cstatus, server, clientURL, clientPath, client, name>>

\* clientConnect: cstatus, then the lookup, then server, then sConnect.
Connect(c) ==
    /\ pc[c] = "connect" /\ Goto(c, "dns")
    /\ cstatus' = "header"
    /\ name' = [name EXCEPT ![c] = clientURL]
    /\ History(sess, named, "none")
    /\ UNCHANGED <<sems, server, target, client, cmd, tgt>>

Lookup(c) ==
    /\ pc[c] = "dns"
    /\ \E ok \in Outcome(name[c]) :
         /\ server' = IF ok THEN name[c] ELSE None
         /\ Goto(c, IF ok THEN "give" ELSE "drop")
         /\ History(sess, IF ok THEN want ELSE NoTarget, "none")
    /\ name' = [name EXCEPT ![c] = None]
    /\ UNCHANGED <<sems, cstatus, target, client, cmd, tgt>>

\* Mutant: sConnect is given whatever the lookup said.
GiveAnyway(c) ==
    /\ pc[c] \in {"give", "drop"}
    /\ sConnect' = TRUE
    /\ IF cmd[c] = "play" THEN Goto(c, "poll2") /\ UNCHANGED <<cmd, tgt>>
       ELSE Done(c)
    /\ UNCHANGED <<sConnected, sDisconnect, cstatus, server, target, client,
                   name, hist>>

\* sConnect, or clientDisconnect if the lookup failed; then playStation waits
\* for the session, cli.start is done.
Give(c) ==
    /\ pc[c] \in {"give", "drop"}
    /\ IF pc[c] = "give" THEN sConnect' = TRUE /\ UNCHANGED sDisconnect
       ELSE sDisconnect' = TRUE /\ UNCHANGED sConnect
    /\ IF cmd[c] = "play" THEN Goto(c, "poll2") /\ UNCHANGED <<cmd, tgt>>
       ELSE Done(c)
    /\ UNCHANGED <<sConnected, cstatus, server, target, client, name, hist>>

Command(c) == \/ Take(c) \/ GiveBack(c) \/ Yes(c) \/ GiveUp(c) \/ Stop(c)
              \/ SetURL(c) \/ SetPath(c) \/ SetPort(c)
              \/ Connect(c) \/ Lookup(c) \/ Give(c)

Call(c) == ClientBlocked /\ (Begin(c) \/ Command(c))

Next == ClientTask \/ \E c \in Callers : Call(c)

\* clientTask goes on when what it waits for is there; a lookup and connect()
\* come to an end, and so does recv, because the station sends or leaves (recv
\* has no timeout: this is the network's merit).  A command runs whenever
\* clientTask blocks, which it does again and again; its waiting loops have 100
\* rounds.  Nothing obliges anybody to give a command.
Fairness == /\ WF_vars(ClientTask)
            /\ \A c \in Callers : /\ SF_vars(ClientBlocked /\ Command(c))
                                  /\ SF_vars(ClientBlocked /\ GiveUp(c))

Spec == Init /\ [][Next]_vars
FairSpec == Spec /\ Fairness

-----------------------------------------------------------------------------
(* Properties *)

CPC == {"wait", "opening", "recv", "hdr", "redns", "close", "pldns", "spin",
        "fault"}
PC == {"idle", "ask", "back0", "stop", "poll", "back1", "url", "path", "port",
       "connect", "dns", "give", "drop", "poll2", "back2"}
Slips == {"none", "probeSpansOpen", "stopMeetsPlaylist", "stopMeetsEnd",
          "stopWhileReconnecting", "stopBeforeOpen", "settersOverlap",
          "startWhileBusy", "openingLooksIdle", "gaveUp", "blankStation"}

\* Types; and vsTask is told to play only while there is a session, or until
\* the lookup that follows its end is done.
TypeOK ==
    /\ sConnect \in BOOLEAN /\ sConnected \in BOOLEAN /\ sDisconnect \in BOOLEAN
    /\ cstatus \in {"header", "header1", "data", "playlist", "playlist1"}
    /\ server \in Fields
    /\ clientURL \in Fields /\ clientPath \in Fields /\ clientPort \in Fields \cup {Blank}
    /\ playing \in BOOLEAN /\ ct \in CPC /\ lookup \in Fields
    /\ pc \in [Callers -> PC]
    /\ cmd \in [Callers -> {"idle"} \cup DOMAIN FirstStep]
    /\ tgt \in [Callers -> Fields \cup {Blank}] /\ name \in [Callers -> Fields]
    /\ sess \in Targets /\ want \in Targets /\ named \in Targets /\ slip \in Slips
    /\ playing => ct \in {"recv", "hdr", "spin", "redns"}

InSession == ct \in {"recv", "hdr", "spin"}

\* Outside the hazards clientTask receives the station it was last told to
\* play, or the one that station's playlist or redirection led to, unless a stop
\* is on its way to it.
SessionIsWanted ==
    slip = "none" /\ InSession =>
        IF want = NoTarget THEN sDisconnect ELSE sess = want

\* Outside the hazards a request is made to the address, for the path and at
\* the port that were named last, as a whole by a play, a playlist or a
\* redirection, or one by one by the console, although the three fields are set
\* by one task and read by another, one at a time.
TargetIsNamed == slip = "none" /\ InSession => sess = named

\* Outside the hazards nobody makes clientTask connect after a stop, or after
\* a session that failed for good: no sConnect is left over, no attempt to
\* connect again is under way.
NothingUnwanted ==
    slip = "none" /\ want = NoTarget => ~WillConnect

\* Outside the hazards clientTask has an address to connect to when it is told
\* to connect, although a failed lookup of any task takes it away.
NoFault == slip = "none" => ct # "fault"

\* Outside the hazards a clientIsConnected that finds sConnected given is told
\* the truth: no session is on.
ConnectedIsTrue == slip = "none" /\ InSession => ~sConnected

\* What clientTask hands to the decoder: of the session it is in, if playing is set.
Heard == IF playing /\ InSession THEN sess ELSE NoTarget

\* Outside the hazards commands, playlists, redirections, reconnects and lookups
\* that fail make up a player: playback begins only of what is asked for at that
\* moment, which is what was named then, and never between a stop and the next
\* command.
Radio == INSTANCE Player WITH Station <- Targets \ {NoTarget},
                              None    <- NoTarget,
                              asked   <- want,
                              heard   <- Heard,
                              kept    <- slip = "none"
PlayerSpec == Radio!Spec

\* A stop that is given to a session ends it, be it in the middle of a playlist,
\* a header or the audio (and be it by the watchdog).
StopEndsSession ==
    (sDisconnect /\ ct \in {"recv", "hdr"}) ~> ct \notin {"recv", "hdr"}

\* A station that somebody asked for gets a session, unless the lookup or the
\* connection fails or something else is asked for.
AskedIsPlayed ==
    \A s \in Station :
        (want = Whole(s)) ~> (want # Whole(s) \/ (InSession /\ sess = Whole(s)))

\* A command comes to an end, whatever becomes of the station.
CommandReturns ==
    \A c \in Callers : (pc[c] # "idle") ~> (pc[c] = "idle")

-----------------------------------------------------------------------------
(* What the documents say, and the code does not do. *)

\* "cli.stop : stop the playing station" (uartInterface.txt:59): after cli.stop
\* clientTask comes to rest, unless another command is given.
CliStopStops ==
    \A c \in Console :
        (pc[c] = "stop" /\ cmd[c] = "halt")
          ~> (AtRest \/ pc[c] \notin {"stop", "idle"})
=============================================================================
