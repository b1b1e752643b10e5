------------------------ MODULE ClientControl_proofs ------------------------
(***************************************************************************)
(* Proofs about ClientControl: for every set of stations and tasks, what   *)
(* the runs check of the handshake between the commands and clientTask.    *)
(*                                                                         *)
(* Outside the hazards (slip = "none") the handshake is Calm: one command  *)
(* at most is at work on the station, and only while clientTask is at rest *)
(* (OneSetter); the three fields are what was named, but for those that a  *)
(* play has yet to set (FieldsNamed); whoever makes clientTask connect has *)
(* looked up the station that is wanted (Wanted, Told); and a session is   *)
(* with that station, or sDisconnect is given (Session).  PlayerInv adds   *)
(* what it takes to see a Player in it.                                    *)
(***************************************************************************)
EXTENDS ClientControl, TLAPS

OneSetter ==
    \A c \in Callers : Setting(c) => AtRest /\ \A d \in Callers \ {c} : ~Setting(d)

\* c has begun to set the three fields to its station.
Halfway(c) == cmd[c] = "play" /\ pc[c] \in {"path", "port"}

FieldsNamed ==
    /\ (\A c \in Callers : ~Halfway(c)) => Current = named
    /\ \A c \in Callers : Halfway(c) =>
          /\ named = Whole(tgt[c]) /\ clientURL = tgt[c]
          /\ pc[c] = "port" => clientPath = tgt[c]

\* c is to make clientTask connect.
Wanted ==
    \A c \in Callers : Connecting(c) =>
        /\ want = Current /\ cstatus = "header"
        /\ IF pc[c] = "dns" THEN name[c] = clientURL
           ELSE server = clientURL /\ server # None

\* clientTask is to connect.
Told ==
    /\ sConnect => /\ ct \in {"wait", "close"} /\ cstatus = "header"
                   /\ server = clientURL
    /\ ct \in {"redns", "pldns"} => lookup = clientURL /\ cstatus = "header"
    /\ WillConnect => want = Current /\ clientURL # None

Session ==
    ct = "opening" \/ InSession =>
        /\ clientURL # None
        /\ IF want = NoTarget THEN sDisconnect ELSE want = Current
        /\ sess = [Current EXCEPT !.path = IF ct = "opening" THEN None ELSE @]
        /\ ct = "opening" => cstatus = "header"
        /\ InSession => ~sConnected /\ \A c \in Callers : ~Probing(c)

Calm == OneSetter /\ FieldsNamed /\ Wanted /\ Told /\ Session /\ ct # "fault"

IInv == TypeOK /\ (slip = "none" => Calm)

-----------------------------------------------------------------------------
\* What Record does when nothing goes wrong; and its types.
LEMMA RecordKept ==
    ASSUME NEW s, NEW w, NEW n, NEW cause, Record(s, w, n, cause), slip' = "none"
    PROVE  slip = "none" /\ cause = "none" /\ sess' = s /\ want' = w /\ named' = n
BY DEF Record

LEMMA HistoryKept ==
    ASSUME NEW s, NEW w, NEW cause, History(s, w, cause), slip' = "none"
    PROVE  slip = "none" /\ cause = "none" /\ sess' = s /\ want' = w /\ named' = named
BY RecordKept DEF History

HistTypes == sess' \in Targets /\ want' \in Targets /\ named' \in Targets /\ slip' \in Slips

LEMMA RecordTypes ==
    ASSUME TypeOK, NEW s \in Targets, NEW w \in Targets, NEW n, NEW cause \in Slips,
           cause = "none" => n \in Targets, Record(s, w, n, cause)
    PROVE  HistTypes
<1>1. NoTarget \in Targets
  BY DEF NoTarget, Whole, Targets, Fields
<1> QED
  BY <1>1 DEF Record, TypeOK, HistTypes, Slips

LEMMA HistoryTypes ==
    ASSUME TypeOK, NEW s \in Targets, NEW w \in Targets, NEW cause \in Slips,
           History(s, w, cause)
    PROVE  HistTypes
BY RecordTypes DEF History, TypeOK

LEMMA SomeTargets ==
    ASSUME TypeOK
    PROVE  /\ NoTarget \in Targets /\ Current \in Targets /\ None \in Fields
           /\ Station \subseteq Fields /\ sess \in Targets /\ want \in Targets
           /\ named \in Targets
           /\ \A t \in Fields : /\ Whole(t) \in Targets
                                /\ [Whole(t) EXCEPT !.url = named.url] \in Targets
                                /\ [url |-> t, path |-> None, port |-> clientPort] \in Targets
                                /\ [sess EXCEPT !.path = t] \in Targets
                                /\ [named EXCEPT !.url = t] \in Targets
                                /\ [named EXCEPT !.path = t] \in Targets
                                /\ [named EXCEPT !.port = t] \in Targets
           /\ clientURL # None => Current # NoTarget
BY DEF TypeOK, Targets, NoTarget, Current, Fields, Whole

LEMMA InitIInv == Init => IInv
<1> SUFFICES ASSUME Init PROVE IInv
  OBVIOUS
<1>1. TypeOK
  BY DEF Init, TypeOK, Idle, NoName, NoTarget, Whole, Targets, CPC, PC, Slips, Fields
<1>2. Calm
  BY DEF Init, Calm, OneSetter, FieldsNamed, Halfway, Current, NoTarget, Whole, Wanted,
         Told, Session, Setting, Connecting, Idle, InSession, WillConnect
<1> QED
  BY <1>1, <1>2 DEF IInv

-----------------------------------------------------------------------------
\* The types, in the steps of clientTask.
LEMMA ClientTypes == TypeOK /\ ClientTask => TypeOK'
<1> SUFFICES ASSUME TypeOK, ClientTask PROVE TypeOK'
  OBVIOUS
<1> DEFINE Rest == HistTypes
<1>a. {"none", "probeSpansOpen", "stopMeetsPlaylist", "stopMeetsEnd"} \subseteq Slips
  BY DEF Slips
<1>b. ASSUME NEW w \in Targets, NEW n \in Targets, LeaveFor(w, n)
      PROVE  ct' = "close" /\ playing' = FALSE /\ Rest
  BY <1>a, <1>b, RecordTypes, SomeTargets DEF LeaveFor, Leave
<1>c. ASSUME LeaveIfTold
      PROVE  Rest /\ sDisconnect' = FALSE /\ \/ ct' = "close" /\ playing' = FALSE
                                             \/ ct' = "recv" /\ playing' = playing
  <2>1. CASE sDisconnect
    BY <2>1, <1>a, <1>c, HistoryTypes, SomeTargets DEF LeaveIfTold, Leave
  <2>2. CASE ~sDisconnect
    BY <2>2, <1>c, SomeTargets DEF LeaveIfTold, hist, TypeOK, HistTypes
  <2> QED
    BY <2>1, <2>2
<1>d. ASSUME NEW t \in Station, Found(t)
      PROVE  /\ clientURL' \in {t, clientURL} /\ clientPath' = t /\ clientPort' = t
             /\ ct' = "close" /\ playing' = FALSE /\ Rest
  <2>1. PICK local \in BOOLEAN :
           LET n == [Whole(t) EXCEPT !.url = IF local THEN named.url ELSE t] IN
           /\ clientURL' = IF local THEN clientURL ELSE t
           /\ clientPath' = t /\ clientPort' = t
           /\ LeaveFor(IF want = NoTarget THEN NoTarget ELSE n, n)
    BY <1>d DEF Found
  <2>2. [Whole(t) EXCEPT !.url = IF local THEN named.url ELSE t] \in Targets
    <3>1. t \in Fields /\ [Whole(t) EXCEPT !.url = t] = Whole(t)
      BY SomeTargets DEF Whole
    <3>2. Whole(t) \in Targets /\ [Whole(t) EXCEPT !.url = named.url] \in Targets
      BY <3>1, SomeTargets
    <3> QED
      BY <3>1, <3>2
  <2> QED
    BY <1>b, <2>1, <2>2, SomeTargets
<1>e. ASSUME NotFound
      PROVE  UNCHANGED target /\ ct' = "close" /\ playing' = FALSE /\ Rest
  BY <1>b, <1>e, SomeTargets DEF NotFound
<1>f. ASSUME Resolve
      PROVE  /\ lookup' = None /\ server' \in Fields /\ sConnect' \in BOOLEAN
             /\ sDisconnect' \in BOOLEAN /\ Rest
  <2>1. PICK ok \in Outcome(lookup) :
           /\ server' = IF ok THEN lookup ELSE None
           /\ sConnect' = (sConnect \/ ok)
           /\ sDisconnect' = (sDisconnect \/ ~ok)
           /\ History(NoTarget, IF ok THEN want ELSE NoTarget, "none")
    BY <1>f DEF Resolve
  <2>2. ok \in BOOLEAN
    BY DEF Outcome
  <2> QED
    BY <1>f, <1>a, <2>1, <2>2, HistoryTypes, SomeTargets DEF Resolve, TypeOK
<1> USE DEF TypeOK, sems, target, client, calls, hist
<1> HIDE DEF Rest
<1>1. CASE Open
  <2>1. Rest
    BY <1>1, <1>a, HistoryTypes, SomeTargets DEF Open, Rest
  <2> QED
    BY <1>1, <2>1 DEF Open, Rest, HistTypes, CPC
<1>2. CASE Connected
  <2>1. Rest
    BY <1>2, <1>a, HistoryTypes, SomeTargets DEF Connected, Rest
  <2> QED
    BY <1>2, <2>1 DEF Connected, Rest, HistTypes, CPC
<1>3. CASE ConnectFails
  <2>1. Rest
    BY <1>3, <1>a, HistoryTypes, SomeTargets DEF ConnectFails, Rest
  <2> QED
    BY <1>3, <2>1 DEF ConnectFails, Rest, HistTypes, CPC
<1>4. CASE Playlist
  BY <1>4, <1>d, <1>e, SomeTargets DEF Playlist, Rest, HistTypes, CPC
<1>5. CASE PlaylistMore
  BY <1>5, <1>c DEF PlaylistMore, Rest, HistTypes, CPC
<1>6. CASE Redirect
  BY <1>6, <1>d, <1>e, SomeTargets DEF Redirect, Parse, Rest, HistTypes, CPC
<1>7. CASE Header
  BY <1>7, <1>c DEF Header, Rest, HistTypes, CPC
<1>8. CASE HeaderEnds
  BY <1>8, <1>c DEF HeaderEnds, Rest, HistTypes, CPC
<1>9. CASE Data
  BY <1>9, <1>c DEF Data, Rest, HistTypes, CPC
<1>10. CASE HeaderSpins
  BY <1>10 DEF HeaderSpins, CPC
<1>11. CASE Fail
  BY <1>11, <1>b, SomeTargets DEF Fail, Rest, HistTypes, CPC
<1>12. CASE EndOfStream
  <2>1. Rest
    BY <1>12, <1>a, HistoryTypes, SomeTargets DEF EndOfStream, Rest
  <2> QED
    BY <1>12, <2>1 DEF EndOfStream, Rest, HistTypes, CPC
<1>13. CASE Reconnect
  BY <1>13, <1>f, SomeTargets DEF Reconnect, Leave, Rest, HistTypes, CPC
<1>14. CASE Close
  BY <1>14 DEF Close, CPC
<1>15. CASE PlaylistConnect
  BY <1>15, <1>f, SomeTargets DEF PlaylistConnect, Rest, HistTypes, CPC
<1>16. CASE Reboot
  BY <1>16 DEF Reboot, Idle, NoName, NoTarget, Whole, Targets, CPC, PC, Slips, Fields, Rest,
               HistTypes
<1> QED
  BY <1>1, <1>2, <1>3, <1>4, <1>5, <1>6, <1>7, <1>8, <1>9, <1>10, <1>11, <1>12, <1>13,
     <1>14, <1>15, <1>16 DEF ClientTask, Chunk, StreamEnds

\* Where the answer of clientIsConnected leads.
LEMMA TakeGoes ==
    ASSUME NEW c \in Callers, Take(c)
    PROVE  \E l \in {"back0", "back1", "back2"} : Goto(c, l)
<1>1. CASE pc[c] = "ask"   BY <1>1, Zenon DEF Take
<1>2. CASE pc[c] = "poll"  BY <1>2, Zenon DEF Take
<1>3. CASE pc[c] = "poll2" BY <1>3, Zenon DEF Take
<1> QED
  BY <1>1, <1>2, <1>3 DEF Take

LEMMA GiveBackGoes ==
    ASSUME NEW c \in Callers, GiveBack(c)
    PROVE  \/ Goto(c, "poll2") /\ UNCHANGED <<cmd, tgt, hist>>
           \/ /\ Goto(c, "url") /\ UNCHANGED <<cmd, tgt>>
              /\ History(sess, want, SetSlip(c, "openingLooksIdle"))
           \/ Done(c) /\ UNCHANGED hist
<1>1. CASE pc[c] = "back2" BY <1>1, Zenon DEF GiveBack
<1>2. CASE pc[c] = "back1" /\ cmd[c] = "play" BY <1>2, Zenon DEF GiveBack
<1>3. CASE pc[c] # "back2" /\ ~(pc[c] = "back1" /\ cmd[c] = "play")
  BY <1>3, Zenon DEF GiveBack
<1> QED
  BY <1>1, <1>2, <1>3

\* The types, in the steps of a command.
LEMMA CallTypes == ASSUME TypeOK, NEW c \in Callers, Call(c) PROVE TypeOK'
<1> DEFINE Rest == HistTypes
<1>a. ASSUME NEW d \in Callers, NEW cause \in Slips PROVE SetSlip(d, cause) \in Slips
  BY DEF SetSlip, Slips
<1>b. {"none", "startWhileBusy", "openingLooksIdle", "gaveUp", "stopWhileReconnecting",
       "stopBeforeOpen"} \subseteq Slips
  BY DEF Slips
<1>c. UNCHANGED hist => Rest
  BY DEF hist, TypeOK, HistTypes
<1>d. ASSUME NEW l \in PC, Goto(c, l) PROVE pc' \in [Callers -> PC]
  BY <1>d DEF Goto, TypeOK
<1>e. ASSUME Done(c)
      PROVE  /\ pc' \in [Callers -> PC] /\ tgt' \in [Callers -> Fields \cup {Blank}]
             /\ cmd' \in [Callers -> {"idle"} \cup DOMAIN FirstStep]
  BY <1>e, SomeTargets DEF Done, Goto, TypeOK, PC
<1>f. PC = PC \cup {"idle", "ask", "back0", "stop", "poll", "back1", "url", "path", "port",
                    "connect", "dns", "give", "drop", "poll2", "back2"}
  BY DEF PC
<1> USE DEF TypeOK, sems, target, client, calls
<1> HIDE DEF Rest
<1>1. CASE Begin(c)
  <2>1. PICK k \in DOMAIN FirstStep :
          /\ cmd' = [cmd EXCEPT ![c] = k]
          /\ Goto(c, FirstStep[k])
          /\ \E s \in Given(k) : tgt' = [tgt EXCEPT ![c] = s]
          /\ IF Quiet THEN /\ slip' = "none" /\ want' = NoTarget /\ UNCHANGED sess
                           /\ named' = IF slip = "none" THEN named ELSE Current
             ELSE History(sess, want, IF FirstStep[k] \in Setters \cup {"connect"}
                                      THEN SetSlip(c, "startWhileBusy") ELSE "none")
    BY <1>1 DEF Begin, Commands, FirstStep, Setters
  <2>2. FirstStep[k] \in PC
    BY DEF FirstStep, PC
  <2>3. Rest
    BY <2>1, <1>a, <1>b, HistoryTypes, SomeTargets DEF Rest, HistTypes, Slips
  <2>4. Given(k) \subseteq Fields \cup {Blank}
    BY ControlAssumption DEF Given, Fields
  <2>5. /\ cmd' \in [Callers -> {"idle"} \cup DOMAIN FirstStep]
        /\ tgt' \in [Callers -> Fields \cup {Blank}]
    BY <2>1, <2>4
  <2> QED
    BY <1>1, <1>d, <2>1, <2>2, <2>3, <2>5 DEF Begin, Rest, HistTypes
<1>2. CASE Take(c)
  BY <1>2, <1>c, <1>d, <1>f, TakeGoes DEF Take, Rest, HistTypes
<1>3. CASE GiveBack(c)
  <2>1. (UNCHANGED cmd /\ UNCHANGED tgt) \/ Done(c)
    BY <1>3, GiveBackGoes
  <2>2. Rest
    BY <1>3, <1>a, <1>b, <1>c, GiveBackGoes, HistoryTypes, SomeTargets DEF Rest
  <2>3. pc' \in [Callers -> PC]
    BY <1>3, <1>d, <1>e, <1>f, GiveBackGoes
  <2> QED
    BY <1>3, <1>e, <2>1, <2>2, <2>3 DEF GiveBack, Rest, HistTypes
<1>4. CASE Yes(c)
  BY <1>4, <1>c, <1>d, <1>e, <1>f DEF Yes, Rest, HistTypes
<1>5. CASE GiveUp(c)
  <2>1. Rest
    BY <1>5, <1>a, <1>b, <1>c, HistoryTypes, SomeTargets DEF GiveUp, Rest, HistTypes
  <2> QED
    BY <1>5, <1>d, <1>e, <1>f, <2>1 DEF GiveUp, Rest, HistTypes
<1>6. CASE Stop(c)
  <2>1. Rest
    BY <1>6, <1>b, HistoryTypes, SomeTargets DEF Stop, Rest, HistTypes
  <2> QED
    BY <1>6, <1>d, <1>e, <1>f, <2>1 DEF Stop, Rest, HistTypes
<1>g. ASSUME NEW n, tgt[c] \in Fields => n \in Targets, Name(c, n) PROVE Rest
  <2>1. "blankStation" \in Slips /\ tgt[c] \in Fields \cup {Blank}
    BY DEF Slips
  <2>2. tgt[c] # Blank => Whole(tgt[c]) \in Targets
    BY <2>1, SomeTargets
  <2> DEFINE whole == IF cmd[c] = "play" THEN Whole(tgt[c]) ELSE n
             cause == IF tgt[c] = Blank THEN "blankStation" ELSE "none"
  <2>3. cause = "none" => whole \in Targets
    BY <1>g, <2>1, <2>2
  <2>4. cause \in Slips /\ Record(sess, want, whole, cause)
    BY <1>b, <1>g, <2>1 DEF Name
  <2> HIDE DEF whole, cause
  <2> QED
    BY <2>3, <2>4, RecordTypes, SomeTargets DEF Rest
<1>h. ASSUME NEW l \in PC, Then(c, l)
      PROVE  /\ pc' \in [Callers -> PC] /\ tgt' \in [Callers -> Fields \cup {Blank}]
             /\ cmd' \in [Callers -> {"idle"} \cup DOMAIN FirstStep]
  BY <1>d, <1>e, <1>h DEF Then
<1>i. \A old \in Fields : Set(old, tgt[c]) \in Fields
  BY DEF Set
<1>7. CASE SetURL(c)
  <2>1. Rest
    BY <1>7, <1>g, SomeTargets DEF SetURL
  <2> QED
    BY <1>7, <1>f, <1>h, <1>i, <2>1 DEF SetURL, Rest, HistTypes
<1>8. CASE SetPath(c)
  <2>1. Rest
    BY <1>8, <1>g, SomeTargets DEF SetPath
  <2> QED
    BY <1>8, <1>f, <1>h, <1>i, <2>1 DEF SetPath, Rest, HistTypes
<1>9. CASE SetPort(c)
  <2>1. Rest
    BY <1>9, <1>g, SomeTargets DEF SetPort
  <2>2. /\ cmd' \in [Callers -> {"idle"} \cup DOMAIN FirstStep]
        /\ pc' \in [Callers -> PC] /\ tgt' \in [Callers -> Fields \cup {Blank}]
    BY <1>9, <1>d, <1>e, <1>f, SomeTargets DEF SetPort
  <2> QED
    BY <1>9, <2>1, <2>2 DEF SetPort, Rest, HistTypes
<1>10. CASE Connect(c)
  <2>1. Rest
    BY <1>10, <1>b, HistoryTypes, SomeTargets DEF Connect, Rest, HistTypes
  <2> QED
    BY <1>10, <1>d, <1>f, <2>1 DEF Connect, Rest, HistTypes
<1>11. CASE Lookup(c)
  <2>1. PICK ok \in BOOLEAN :
           /\ server' = IF ok THEN name[c] ELSE None
           /\ Goto(c, IF ok THEN "give" ELSE "drop")
           /\ History(sess, IF ok THEN want ELSE NoTarget, "none")
    BY <1>11 DEF Lookup, Outcome
  <2>2. Rest
    BY <1>b, <2>1, HistoryTypes, SomeTargets DEF Rest
  <2>3. pc' \in [Callers -> PC] /\ server' \in Fields /\ name' \in [Callers -> Fields]
    BY <1>11, <1>d, <1>f, <2>1, SomeTargets DEF Lookup
  <2> QED
    BY <1>11, <2>2, <2>3 DEF Lookup, Rest, HistTypes
<1>12. CASE Give(c)
  BY <1>12, <1>c, <1>d, <1>e, <1>f DEF Give, Rest, HistTypes
<1> QED
  BY <1>1, <1>2, <1>3, <1>4, <1>5, <1>6, <1>7, <1>8, <1>9, <1>10, <1>11, <1>12
     DEF Call, Command

-----------------------------------------------------------------------------
\* A step of clientTask leaves the handshake calm.  No command is at work on the
\* station then: clientTask is not at rest.
LEMMA ClientCalm ==
    ASSUME TypeOK, slip = "none" => Calm, ClientTask, slip' = "none"
    PROVE  Calm'
<1>1. CASE Reboot
  BY <1>1 DEF Reboot, Calm, OneSetter, FieldsNamed, Halfway, Current, NoTarget, Whole, Wanted,
              Told, Session, Setting, Connecting, Idle, InSession, WillConnect
<1> SUFFICES ASSUME ~Reboot PROVE Calm'
  BY <1>1
<1>2. slip = "none" /\ UNCHANGED calls
  BY DEF ClientTask, Chunk, StreamEnds, Open, Connected, ConnectFails, Playlist, PlaylistMore,
         Redirect, Parse, Found, NotFound, LeaveFor, LeaveIfTold, Header, HeaderEnds, Data,
         HeaderSpins, Fail, EndOfStream, Reconnect, Resolve, Close, PlaylistConnect, History,
         Record, hist
<1>3. Calm /\ ~AtRest
  BY <1>2 DEF ClientTask, Chunk, StreamEnds, Open, Connected, ConnectFails, Playlist,
              PlaylistMore, Redirect, Header, HeaderEnds, Data, HeaderSpins, Fail,
              EndOfStream, Reconnect, Close, PlaylistConnect, AtRest
<1>4. Current = named /\ \A c \in Callers : ~Setting(c)
  BY <1>3 DEF Calm, OneSetter, FieldsNamed, Halfway, Setting
<1>5. OneSetter' /\ Wanted' /\ ((Current = named)' => FieldsNamed')
  BY <1>2, <1>4 DEF calls, OneSetter, Wanted, FieldsNamed, Halfway, Setting, Connecting
<1> SUFFICES (Current = named)' /\ Told' /\ Session' /\ ct' # "fault"
  BY <1>5 DEF Calm
<1>6. /\ Told /\ Session /\ Current = named /\ ct # "fault"
      /\ sess \in Targets /\ want \in Targets
  BY <1>3, <1>4 DEF Calm, TypeOK
<1> USE <1>6 DEF Told, Session, WillConnect, InSession, target, Current, NoTarget, Whole
<1>7. CASE Open
  <2>1. /\ sess' = [url |-> server, path |-> None, port |-> clientPort] /\ want' = want
        /\ named' = named
    BY <1>7, HistoryKept DEF Open
  <2> QED
    BY <1>7, <2>1 DEF Open
<1>8. CASE Connected
  <2>1. /\ sess' = [sess EXCEPT !.path = clientPath] /\ want' = want /\ named' = named
        /\ \A c \in Callers : ~Probing(c)
    BY <1>8, HistoryKept DEF Connected
  <2>2. \A c \in Callers : ~Probing(c)'
    BY <2>1, <1>2 DEF Probing, calls
  <2> QED
    BY <1>8, <2>1, <2>2 DEF Connected
<1>9. CASE ConnectFails
  BY <1>9, HistoryKept DEF ConnectFails
<1>10. ASSUME NEW w, NEW n, LeaveFor(w, n)
       PROVE  /\ ct' = "close" /\ want' = w /\ named' = n
              /\ ~(sDisconnect /\ cstatus' = "playlist")
  BY <1>10, RecordKept DEF LeaveFor, Leave
\* The loop goes on, or is left without cause to connect.
<1>11. ASSUME LeaveIfTold, ct \in {"recv", "hdr"}, cstatus' # "playlist",
              UNCHANGED <<sConnect, sConnected, server, target, lookup>>
       PROVE  (Current = named)' /\ Told' /\ Session' /\ ct' # "fault"
  <2>1. CASE sDisconnect
    BY <2>1, <1>11, HistoryKept DEF LeaveIfTold, Leave
  <2>2. CASE ~sDisconnect
    BY <2>2, <1>2, <1>11 DEF LeaveIfTold, hist, calls, Probing
  <2> QED
    BY <2>1, <2>2
<1>12. CASE Playlist \/ Redirect
  <2>1. /\ ct = "recv" /\ cstatus' = "playlist"
        /\ UNCHANGED <<sConnect, sConnected, server, lookup>>
        /\ NotFound \/ \E t \in Station : Found(t)
    BY <1>12 DEF Playlist, Redirect, Parse
  <2>2. CASE NotFound
    BY <2>1, <2>2, <1>10 DEF NotFound
  <2>3. ASSUME NEW t \in Station, Found(t)
        PROVE  (Current = named)' /\ Told' /\ Session' /\ ct' # "fault"
    <3>1. PICK local \in BOOLEAN :
             LET n == [Whole(t) EXCEPT !.url = IF local THEN named.url ELSE t] IN
             /\ clientURL' = IF local THEN clientURL ELSE t
             /\ clientPath' = t /\ clientPort' = t
             /\ LeaveFor(IF want = NoTarget THEN NoTarget ELSE n, n)
      BY <2>3 DEF Found
    <3> DEFINE n == [Whole(t) EXCEPT !.url = IF local THEN named.url ELSE t]
    <3>2. /\ ct' = "close" /\ named' = n /\ ~sDisconnect
          /\ want' = IF want = NoTarget THEN NoTarget ELSE n
      BY <2>1, <3>1, <1>10
    <3>3. Current' = n
      BY <3>1
    <3>4. clientURL' # None
      BY <2>1, <3>1, ControlAssumption
    <3>5. want # NoTarget
      BY <2>1, <3>2
    <3> HIDE DEF n
    <3> QED
      BY <2>1, <3>2, <3>3, <3>4, <3>5
  <2> QED
    BY <2>1, <2>2, <2>3
<1>13. CASE PlaylistMore \/ HeaderEnds
  BY <1>11, <1>13 DEF PlaylistMore, HeaderEnds
<1>14. CASE Header
  <2>1. CASE cstatus' = "data" /\ LeaveIfTold
    BY <1>11, <1>14, <2>1 DEF Header
  <2>2. CASE cstatus' = "header1" /\ ct' = "hdr" /\ UNCHANGED <<sDisconnect, playing, hist>>
    BY <1>2, <1>14, <2>2 DEF Header, hist, calls, Probing
  <2> QED
    BY <1>14, <2>1, <2>2 DEF Header
<1>15. CASE Data
  <2>1. CASE LeaveIfTold
    BY <1>11, <1>15, <2>1 DEF Data
  <2>2. CASE ~sDisconnect /\ playing' = TRUE /\ UNCHANGED <<sDisconnect, ct, hist>>
    BY <1>2, <1>15, <2>2 DEF Data, hist, calls, Probing
  <2> QED
    BY <1>15, <2>1, <2>2 DEF Data
<1>16. CASE HeaderSpins
  BY <1>2, <1>16 DEF HeaderSpins, hist, calls, sems, Probing
<1>17. CASE Fail
  <2>1. /\ ct' = "close" /\ ~(sDisconnect /\ cstatus' = "playlist") /\ named' = named
        /\ want' = IF cstatus = "playlist" THEN want ELSE NoTarget
    BY <1>10, <1>17 DEF Fail
  <2> QED
    BY <1>17, <2>1 DEF Fail
<1>18. CASE EndOfStream
  <2>1. ~sDisconnect /\ want' = want /\ named' = named
    BY <1>18, HistoryKept DEF EndOfStream
  <2> QED
    BY <1>18, <2>1 DEF EndOfStream
<1>19. ASSUME Resolve
       PROVE  \E ok \in Outcome(lookup) : /\ server' = IF ok THEN lookup ELSE None
                                          /\ sConnect' = (sConnect \/ ok)
                                          /\ want' = IF ok THEN want ELSE NoTarget
                                          /\ named' = named
  BY <1>19, HistoryKept DEF Resolve
<1>20. CASE Reconnect \/ PlaylistConnect
  <2>1. /\ ct \in {"redns", "pldns"} /\ ct' \in {"close", "wait"}
        /\ UNCHANGED <<cstatus, target>>
    BY <1>20 DEF Reconnect, PlaylistConnect, Leave
  <2>2. PICK ok \in BOOLEAN : /\ server' = IF ok THEN lookup ELSE None
                              /\ sConnect' = (sConnect \/ ok)
                              /\ want' = IF ok THEN want ELSE NoTarget
                              /\ named' = named
    BY <1>19, <1>20 DEF Reconnect, PlaylistConnect, Outcome
  <2> QED
    BY <2>1, <2>2
<1>21. CASE Close
  BY <1>2, <1>21 DEF Close, hist
<1> QED
  BY <1>3, <1>7, <1>8, <1>9, <1>12, <1>13, <1>14, <1>15, <1>16, <1>17, <1>18, <1>20, <1>21
     DEF ClientTask, Chunk, StreamEnds

-----------------------------------------------------------------------------
\* A command c is the only one at work on the station, and clientTask at rest.
Alone(c) == AtRest /\ \A d \in Callers \ {c} : ~Setting(d)

\* While clientTask is at rest the handshake is calm when the station is what was
\* named, or as much of it as c, alone at work on it, has set so far.
LEMMA AloneIsCalm ==
    ASSUME NEW c \in Callers, pc \in [Callers -> PC], NEW l, pc' = [pc EXCEPT ![c] = l],
           Alone(c), UNCHANGED ct, sConnect' => l = "poll2" \/ l = "idle",
           IF l \in {"path", "port"} /\ cmd'[c] = "play"
           THEN /\ named' = Whole(tgt'[c]) /\ clientURL' = tgt'[c]
                /\ l = "port" => clientPath' = tgt'[c]
           ELSE (Current = named)',
           l \in {"dns", "give"} =>
               /\ want' = Current' /\ cstatus' = "header"
               /\ IF l = "dns" THEN name'[c] = clientURL'
                  ELSE server' = clientURL' /\ server' # None,
           sConnect' => /\ cstatus' = "header" /\ server' = clientURL'
                        /\ want' = Current' /\ clientURL' # None
    PROVE  Calm'
<1>1. pc'[c] = l /\ \A d \in Callers \ {c} : pc'[d] = pc[d] /\ ~Setting(d)
  BY DEF Alone
<1>2. ct = "wait" /\ ct' = "wait"
  BY DEF Alone, AtRest
<1>3. \A d \in Callers \ {c} : pc'[d] \notin {"url", "path", "port", "connect", "dns", "give"}
  BY <1>1 DEF Setting
<1>4. OneSetter' /\ FieldsNamed' /\ Wanted'
  BY <1>1, <1>2, <1>3 DEF OneSetter, FieldsNamed, Halfway, Wanted, Setting, Connecting, AtRest
<1>5. Told' /\ Session' /\ ct' # "fault"
  BY <1>2 DEF Told, Session, WillConnect, InSession
<1> QED
  BY <1>4, <1>5 DEF Calm

\* A step of a command that is not at work on the station.
LEMMA AsideIsCalm ==
    ASSUME NEW c \in Callers, pc \in [Callers -> PC], NEW l, pc' = [pc EXCEPT ![c] = l], Calm,
           ~Setting(c), l \notin {"url", "path", "port", "connect", "dns", "give"},
           UNCHANGED <<sConnect, cstatus, server, target, client, name>>,
           \A d \in Callers \ {c} : tgt'[d] = tgt[d] /\ cmd'[d] = cmd[d],
           sDisconnect => sDisconnect',
           sess' = sess, named' = named,
           \/ want' = want
           \/ want' = NoTarget /\ sDisconnect' /\ ~WillConnect
                /\ \A d \in Callers : ~Connecting(d),
           InSession => ~sConnected' /\ l \notin {"back0", "back1", "back2"}
    PROVE  Calm'
<1>1. /\ pc'[c] = l
      /\ \A d \in Callers \ {c} : pc'[d] = pc[d] /\ tgt'[d] = tgt[d] /\ cmd'[d] = cmd[d]
  OBVIOUS
<1>2. UNCHANGED <<sConnect, cstatus, server, clientURL, clientPath, clientPort, ct, lookup,
                  playing, name>>
  BY DEF target, client
<1>3. OneSetter' /\ FieldsNamed'
  BY <1>1, <1>2 DEF Calm, OneSetter, FieldsNamed, Halfway, Current, Setting, AtRest
<1>4. Wanted'
  BY <1>1, <1>2 DEF Calm, Wanted, Setting, Connecting, Current
<1>5. Told'
  BY <1>1, <1>2 DEF Calm, Told, WillConnect, Current
<1>6. Session' /\ ct' # "fault"
  BY <1>1, <1>2 DEF Calm, Session, InSession, Current, Probing
<1> QED
  BY <1>3, <1>4, <1>5, <1>6 DEF Calm

\* The beginning of a command.
LEMMA BeginCalm ==
    ASSUME TypeOK, slip = "none" => Calm, NEW c \in Callers, Begin(c), slip' = "none"
    PROVE  Calm'
<1>1. PICK k \in DOMAIN FirstStep :
        /\ cmd' = [cmd EXCEPT ![c] = k]
        /\ Goto(c, FirstStep[k])
        /\ \E s : tgt' = [tgt EXCEPT ![c] = s]
        /\ IF Quiet THEN /\ slip' = "none" /\ want' = NoTarget /\ UNCHANGED sess
                         /\ named' = IF slip = "none" THEN named ELSE Current
           ELSE History(sess, want, IF FirstStep[k] \in Setters \cup {"connect"}
                                    THEN SetSlip(c, "startWhileBusy") ELSE "none")
  BY DEF Begin, Commands, FirstStep, Setters
<1> DEFINE l == FirstStep[k]
<1>2. /\ l \in Setters \cup {"connect", "stop", "ask"}
      /\ l \in Setters => k # "play"
  BY DEF FirstStep, Setters
<1>3. /\ pc \in [Callers -> PC] /\ pc' = [pc EXCEPT ![c] = l] /\ pc[c] = "idle"
      /\ cmd'[c] = k
      /\ UNCHANGED <<sems, cstatus, server, target, client, name>>
      /\ \A d \in Callers \ {c} : tgt'[d] = tgt[d] /\ cmd'[d] = cmd[d]
  BY <1>1 DEF Begin, Goto, TypeOK
<1> HIDE DEF l
<1>4. CASE Quiet
  <2>1. Alone(c) /\ ~sConnect' /\ UNCHANGED ct
    BY <1>3, <1>4 DEF Quiet, Alone, Idle, Setting, AtRest, sems, target, client
  <2>2. slip = "none" => Current = named
    BY <1>4 DEF Calm, FieldsNamed, Halfway, Quiet, Idle
  <2>3. (Current = named)'
    BY <1>1, <1>3, <1>4, <2>2 DEF Current, target
  <2> QED
    BY <1>2, <1>3, <2>1, <2>3, AloneIsCalm DEF Setters
<1>5. CASE ~Quiet /\ l \in Setters \cup {"connect"}
  <2>1. slip = "none" /\ SetSlip(c, "startWhileBusy") = "none" /\ named' = named
    BY <1>1, <1>5, HistoryKept DEF l
  <2>2. Alone(c)
    BY <2>1 DEF SetSlip, Alone
  <2>3. Current = named
    BY <1>3, <2>1, <2>2 DEF Calm, FieldsNamed, Halfway, Alone, Setting
  <2>4. (Current = named)' /\ ~sConnect' /\ UNCHANGED ct
    BY <1>3, <2>1, <2>2, <2>3 DEF Current, Alone, AtRest, sems, target, client
  <2> QED
    BY <1>2, <1>3, <1>5, <2>2, <2>4, AloneIsCalm DEF Setters
<1>6. CASE ~Quiet /\ l \in {"stop", "ask"}
  <2>1. slip = "none" /\ sess' = sess /\ want' = want /\ named' = named
    BY <1>1, <1>6, HistoryKept DEF l, Setters
  <2>2. Calm /\ ~Setting(c) /\ (InSession => ~sConnected)
    BY <1>3, <2>1 DEF Setting, Calm, Session
  <2>3. UNCHANGED <<sConnect, sConnected, sDisconnect>>
    BY <1>3 DEF sems
  <2> QED
    BY <1>3, <1>6, <2>1, <2>2, <2>3, AsideIsCalm
<1> QED
  BY <1>2, <1>4, <1>5, <1>6

\* The steps of a command.
LEMMA CommandCalm ==
    ASSUME TypeOK, slip = "none" => Calm, NEW c \in Callers, Command(c), slip' = "none"
    PROVE  Calm'
<1>1. slip = "none"
  <2>1. CASE GiveBack(c)
    BY <2>1, GiveBackGoes, HistoryKept DEF hist
  <2>2. CASE ~GiveBack(c)
    BY <2>2, HistoryKept, RecordKept DEF Command, Take, Yes, GiveUp, Stop, SetURL, SetPath,
                             SetPort, Name, Connect, Lookup, Give, hist
  <2> QED
    BY <2>1, <2>2
<1>2. Calm /\ pc \in [Callers -> PC]
  BY <1>1 DEF TypeOK
<1>3. ASSUME Done(c)
      PROVE  /\ pc' = [pc EXCEPT ![c] = "idle"]
             /\ \A d \in Callers \ {c} : tgt'[d] = tgt[d] /\ cmd'[d] = cmd[d]
  BY <1>3 DEF Done, Goto, TypeOK
\* A task that was not at work on the station begins to be.
<1>4. ASSUME ~Setting(c), Goto(c, "url"), NEW cause, cause # "none",
             History(sess, want, SetSlip(c, cause)), UNCHANGED <<sConnect, target, client>>
      PROVE  Calm'
  <2>1. SetSlip(c, cause) = "none" /\ named' = named
    BY <1>4, HistoryKept
  <2>2. Alone(c)
    BY <1>4, <2>1 DEF SetSlip, Alone
  <2>3. Current = named
    BY <1>2, <1>4, <2>2 DEF Calm, FieldsNamed, Halfway, Alone, Setting
  <2>4. (Current = named)' /\ ~sConnect' /\ UNCHANGED ct
    BY <1>4, <2>1, <2>2, <2>3 DEF Current, Alone, AtRest, target, client
  <2> QED
    BY <1>2, <1>4, <2>2, <2>4, AloneIsCalm DEF Goto
<1>5. CASE Take(c)
  <2>1. PICK l \in {"back0", "back1", "back2"} : pc' = [pc EXCEPT ![c] = l]
    BY <1>5, TakeGoes DEF Goto
  <2>2. ~Setting(c) /\ ~InSession
    BY <1>2, <1>5 DEF Take, Setting, Calm, Session
  <2> QED
    BY <1>2, <1>5, <2>1, <2>2, AsideIsCalm DEF Take, hist
<1>6. CASE GiveBack(c)
  <2>1. /\ ~Setting(c) /\ ~InSession
        /\ UNCHANGED <<sConnect, sDisconnect, cstatus, server, target, client, name>>
    BY <1>2, <1>6 DEF GiveBack, Probing, Setting, Calm, Session
  <2>2. CASE Goto(c, "poll2") /\ UNCHANGED <<cmd, tgt, hist>>
    BY <1>2, <2>1, <2>2, AsideIsCalm DEF Goto, hist
  <2>3. CASE /\ Goto(c, "url") /\ UNCHANGED <<cmd, tgt>>
             /\ History(sess, want, SetSlip(c, "openingLooksIdle"))
    BY <1>4, <2>1, <2>3
  <2>4. CASE Done(c) /\ UNCHANGED hist
    BY <1>2, <1>3, <2>1, <2>4, AsideIsCalm DEF hist
  <2> QED
    BY <1>6, <2>2, <2>3, <2>4, GiveBackGoes
<1>7. CASE Yes(c)
  <2>1. ~Setting(c) /\ ~sConnected' /\ UNCHANGED <<sConnect, sDisconnect>>
    BY <1>7 DEF Yes, Setting, sems
  <2>2. CASE pc[c] = "ask" /\ Goto(c, "stop") /\ UNCHANGED <<cmd, tgt>>
    BY <1>2, <1>7, <2>1, <2>2, AsideIsCalm DEF Yes, Goto, hist
  <2>3. CASE pc[c] = "poll2" /\ Done(c)
    BY <1>2, <1>3, <1>7, <2>1, <2>3, AsideIsCalm DEF Yes, hist
  <2> QED
    BY <1>7, <2>2, <2>3 DEF Yes
<1>8. CASE GiveUp(c)
  <2>1. /\ ~Setting(c) /\ UNCHANGED <<sConnect, sDisconnect, sConnected>>
        /\ InSession => ~sConnected
    BY <1>2, <1>8 DEF GiveUp, Setting, sems, Calm, Session
  <2>2. CASE Goto(c, "url") /\ History(sess, want, SetSlip(c, "gaveUp"))
    BY <1>4, <1>8, <2>1, <2>2 DEF GiveUp
  <2>3. CASE Done(c) /\ UNCHANGED hist
    BY <1>2, <1>3, <1>8, <2>1, <2>3, AsideIsCalm DEF GiveUp, hist
  <2> QED
    BY <1>8, <2>2, <2>3 DEF GiveUp
<1>9. CASE Stop(c)
  <2>1. /\ ~Setting(c) /\ sDisconnect' /\ UNCHANGED <<sConnect, sConnected>>
        /\ InSession => ~sConnected
    BY <1>2, <1>9 DEF Stop, Setting, Calm, Session
  <2>2. /\ sess' = sess /\ want' = NoTarget /\ named' = named
        /\ ~WillConnect /\ \A d \in Callers : ~Connecting(d)
    BY <1>9, HistoryKept DEF Stop
  <2>3. \E l \in {"idle", "poll"} :
           /\ pc' = [pc EXCEPT ![c] = l]
           /\ \A d \in Callers \ {c} : tgt'[d] = tgt[d] /\ cmd'[d] = cmd[d]
    BY <1>3, <1>9 DEF Stop, Goto
  <2>4. UNCHANGED <<sConnect, cstatus, server, target, client, name>>
    BY <1>9 DEF Stop
  <2> QED
    BY <1>2, <2>1, <2>2, <2>3, <2>4, AsideIsCalm
\* The only task at work on the station.
<1>10. ASSUME Setting(c)
       PROVE  Alone(c) /\ ~sConnect /\ (~Halfway(c) => Current = named)
  BY <1>2, <1>10 DEF Calm, OneSetter, FieldsNamed, Halfway, Alone, AtRest, Setting
<1>11. ASSUME NEW n, Name(c, n)
       PROVE  tgt[c] # Blank /\ named' = IF cmd[c] = "play" THEN Whole(tgt[c]) ELSE n
  BY <1>11, RecordKept DEF Name
<1>12. ASSUME NEW l, Then(c, l)
       PROVE  IF cmd[c] = "play"
              THEN pc' = [pc EXCEPT ![c] = l] /\ cmd'[c] = "play" /\ tgt'[c] = tgt[c]
              ELSE pc' = [pc EXCEPT ![c] = "idle"]
  BY <1>3, <1>12 DEF Then, Goto
<1>13. CASE SetURL(c) \/ SetPath(c) \/ SetPort(c)
  <2>1. Setting(c) /\ UNCHANGED <<sConnect, ct>>
    BY <1>13 DEF SetURL, SetPath, SetPort, Setting, sems, client
  <2>2. Alone(c) /\ ~sConnect' /\ (~Halfway(c) => Current = named)
    BY <1>10, <2>1
  <2>3. Halfway(c) => /\ named = Whole(tgt[c]) /\ clientURL = tgt[c]
                      /\ pc[c] = "port" => clientPath = tgt[c]
    BY <1>2 DEF Calm, FieldsNamed
  <2>4. named \in Targets
    BY DEF TypeOK
  <2>5. CASE SetURL(c)
    <3>1. /\ pc[c] = "url" /\ clientURL' = tgt[c] /\ UNCHANGED <<clientPath, clientPort>>
          /\ named' = IF cmd[c] = "play" THEN Whole(tgt[c]) ELSE [named EXCEPT !.url = tgt[c]]
      BY <1>11, <2>5 DEF SetURL, Set
    <3>2. cmd[c] # "play" => (Current = named)'
      BY <2>2, <2>4, <3>1 DEF Current, Halfway, Targets
    <3> QED
      BY <1>2, <1>12, <2>1, <2>2, <2>5, <3>1, <3>2, AloneIsCalm DEF SetURL
  <2>6. CASE SetPath(c)
    <3>1. /\ pc[c] = "path" /\ clientPath' = tgt[c] /\ UNCHANGED <<clientURL, clientPort>>
          /\ named' = IF cmd[c] = "play" THEN Whole(tgt[c]) ELSE [named EXCEPT !.path = tgt[c]]
      BY <1>11, <2>6 DEF SetPath, Set
    <3>2. cmd[c] # "play" => (Current = named)'
      BY <2>2, <2>4, <3>1 DEF Current, Halfway, Targets
    <3>3. cmd[c] = "play" => clientURL' = tgt[c]
      BY <2>3, <3>1 DEF Halfway
    <3> QED
      BY <1>2, <1>12, <2>1, <2>2, <2>6, <3>1, <3>2, <3>3, AloneIsCalm DEF SetPath
  <2>7. CASE SetPort(c)
    <3>1. /\ pc[c] = "port" /\ clientPort' = tgt[c] /\ UNCHANGED <<clientURL, clientPath>>
          /\ named' = IF cmd[c] = "play" THEN Whole(tgt[c]) ELSE [named EXCEPT !.port = tgt[c]]
      BY <1>11, <2>7 DEF SetPort
    <3>2. (Current = named)'
      BY <2>2, <2>3, <2>4, <3>1 DEF Current, Halfway, Targets, Whole
    <3>3. \E l \in {"connect", "idle"} : pc' = [pc EXCEPT ![c] = l]
      BY <1>3, <2>7 DEF SetPort, Goto
    <3> QED
      BY <1>2, <2>1, <2>2, <3>2, <3>3, AloneIsCalm
  <2> QED
    BY <1>13, <2>5, <2>6, <2>7
<1>16. CASE Connect(c)
  <2>1. Setting(c) /\ UNCHANGED <<sConnect, ct, clientURL, clientPath, clientPort>>
    BY <1>16 DEF Connect, Setting, sems, client, target
  <2>2. want' = named /\ named' = named
    BY <1>16, HistoryKept DEF Connect
  <2>3. Current = named
    BY <1>10, <1>16, <2>1 DEF Connect, Halfway
  <2>4. (Current = named)' /\ want' = Current' /\ name'[c] = clientURL'
    BY <1>16, <2>1, <2>2, <2>3 DEF Connect, Current, TypeOK
  <2> QED
    BY <1>2, <1>10, <1>16, <2>1, <2>4, AloneIsCalm DEF Connect, Goto
<1>14. CASE Lookup(c)
  <2>1. /\ Setting(c) /\ UNCHANGED <<sConnect, ct, cstatus, clientURL, clientPath, clientPort>>
        /\ cstatus = "header" /\ want = Current /\ name[c] = clientURL
    BY <1>2, <1>14 DEF Lookup, Setting, Connecting, sems, client, target, Calm, Wanted
  <2>2. Current = named
    BY <1>10, <1>14, <2>1 DEF Lookup, Halfway
  <2>3. PICK ok \in Outcome(name[c]) :
           /\ server' = IF ok THEN name[c] ELSE None
           /\ pc' = [pc EXCEPT ![c] = IF ok THEN "give" ELSE "drop"]
           /\ want' = IF ok THEN want ELSE NoTarget
           /\ named' = named
    BY <1>14, HistoryKept DEF Lookup, Goto
  <2>4. /\ (Current = named)'
        /\ ok => /\ want' = Current' /\ server' = clientURL' /\ server' # None
    BY <2>1, <2>2, <2>3 DEF Current, Outcome
  <2>5. CASE ok
    BY <1>2, <1>10, <2>1, <2>3, <2>4, <2>5, AloneIsCalm
  <2>6. CASE ~ok
    BY <1>2, <1>10, <2>1, <2>3, <2>4, <2>6, AloneIsCalm
  <2> QED
    BY <2>5, <2>6
<1>15. CASE Give(c)
  <2>1. PICK l \in {"poll2", "idle"} :
           /\ pc' = [pc EXCEPT ![c] = l]
           /\ \A d \in Callers \ {c} : tgt'[d] = tgt[d] /\ cmd'[d] = cmd[d]
    BY <1>3, <1>15 DEF Give, Goto
  <2>2. CASE pc[c] = "give"
    <3>1. /\ Setting(c) /\ UNCHANGED <<ct, cstatus, server, clientURL, clientPath, clientPort>>
          /\ cstatus = "header" /\ want = Current /\ server = clientURL /\ clientURL # None
      BY <1>2, <1>15, <2>2 DEF Give, Setting, Connecting, client, target, Calm, Wanted
    <3>2. (Current = named)' /\ want' = Current'
      BY <1>10, <1>15, <2>2, <3>1 DEF Give, Halfway, Current, hist
    <3> QED
      BY <1>2, <1>10, <2>1, <3>1, <3>2, AloneIsCalm
  <2>3. CASE pc[c] = "drop"
    <3>1. /\ ~Setting(c) /\ sDisconnect' /\ UNCHANGED <<sConnect, sConnected>>
          /\ InSession => ~sConnected
      BY <1>2, <1>15, <2>3 DEF Give, Setting, Calm, Session
    <3>2. UNCHANGED <<sConnect, cstatus, server, target, client, name>> /\ UNCHANGED <<sess, want, named>>
      BY <1>15, <2>3 DEF Give, hist
    <3> QED
      BY <1>2, <2>1, <3>1, <3>2, AsideIsCalm
  <2> QED
    BY <1>15, <2>2, <2>3 DEF Give
<1> QED
  BY <1>5, <1>6, <1>7, <1>8, <1>9, <1>13, <1>14, <1>15, <1>16 DEF Command

-----------------------------------------------------------------------------
\* IInv is an invariant, for every number of tasks and stations.
THEOREM Invariance == Spec => []IInv
<1>1. IInv /\ [Next]_vars => IInv'
  <2> SUFFICES ASSUME IInv, [Next]_vars PROVE IInv'
    OBVIOUS
  <2>1. CASE UNCHANGED vars
    <3>1. UNCHANGED <<sConnect, sConnected, sDisconnect, cstatus, server, clientURL,
                      clientPath, clientPort, playing, ct, lookup, pc, cmd, tgt, name,
                      sess, want, named, slip>>
      BY <2>1 DEF vars, sems, target, client, calls, hist
    <3>2. TypeOK'
      BY <3>1 DEF IInv, TypeOK
    <3>3. Calm => Calm'
      BY <3>1 DEF Calm, OneSetter, FieldsNamed, Halfway, Wanted, Told, Session, Setting,
                  Connecting, Probing, InSession, WillConnect, AtRest, Current
    <3> QED
      BY <3>1, <3>2, <3>3 DEF IInv
  <2>2. CASE ClientTask
    BY <2>2, ClientTypes, ClientCalm DEF IInv
  <2>3. ASSUME NEW c \in Callers, Call(c) PROVE IInv'
    BY <2>3, CallTypes, BeginCalm, CommandCalm DEF IInv, Call
  <2> QED
    BY <2>1, <2>2, <2>3 DEF Next
<1> QED
  BY <1>1, InitIInv, PTL DEF Spec

\* Types, and that vsTask is told to play only while there is a session.
THEOREM TypeCorrect == Spec => []TypeOK
<1>1. IInv => TypeOK
  BY DEF IInv
<1> QED
  BY <1>1, Invariance, PTL

\* What a session receives is what was last asked for, or a stop is on its way.
THEOREM SessionCorrect == Spec => []SessionIsWanted
<1>1. IInv => SessionIsWanted
  BY DEF IInv, Calm, Session, SessionIsWanted, InSession, Current
<1> QED
  BY <1>1, Invariance, PTL

\* A request is made with the address, the path and the port that were named last.
THEOREM TargetNamed == Spec => []TargetIsNamed
<1>1. IInv => TargetIsNamed
  <2> SUFFICES ASSUME IInv, slip = "none", InSession PROVE sess = named
    BY DEF TargetIsNamed
  <2>1. Calm /\ ~AtRest /\ ct # "opening"
    BY DEF IInv, InSession, AtRest
  <2>2. Current = named /\ sess = Current
    BY <2>1 DEF Calm, OneSetter, FieldsNamed, Halfway, Setting, Session, Current
  <2> QED
    BY <2>2
<1> QED
  BY <1>1, Invariance, PTL

\* Nobody makes clientTask connect after a stop, or a failure for good.
THEOREM NoneUnwanted == Spec => []NothingUnwanted
<1>1. IInv => NothingUnwanted
  BY DEF IInv, Calm, Told, NothingUnwanted, Current, NoTarget, Whole
<1> QED
  BY <1>1, Invariance, PTL

\* clientTask does not dereference NULL.
THEOREM FaultFree == Spec => []NoFault
<1>1. IInv => NoFault
  BY DEF IInv, Calm, NoFault
<1> QED
  BY <1>1, Invariance, PTL

\* clientIsConnected tells who asks it during a session that there is one.
THEOREM ConnectedTrue == Spec => []ConnectedIsTrue
<1>1. IInv => ConnectedIsTrue
  BY DEF IInv, Calm, Session, ConnectedIsTrue
<1> QED
  BY <1>1, Invariance, PTL
-----------------------------------------------------------------------------
(* The player *)

\* What Player needs beyond IInv: playing is set in the last state of a session
\* only, and when the history is lost, it is empty.
PlayerInv ==
    /\ slip = "none" /\ playing /\ InSession => ct = "recv" /\ cstatus = "data"
    /\ slip # "none" => sess = NoTarget /\ want = NoTarget

\* A step of the player, or none.
PlayerStep == \/ Radio!Name \/ Radio!Ask \/ Radio!Forget \/ Radio!Play \/ Radio!Fade
              \/ UNCHANGED <<named, want, Heard>>
PlayedData == playing' /\ InSession' => ct' = "recv" /\ cstatus' = "data"

LEMMA RecordEmpties ==
    ASSUME NEW s, NEW w, NEW n, NEW cause, Record(s, w, n, cause), slip' # "none"
    PROVE  sess' = NoTarget /\ want' = NoTarget
BY DEF Record

LEMMA SilentOutside == ~(playing /\ InSession) => Heard = NoTarget
BY DEF Heard

\* clientTask leaves the session, and then wants what it wanted, or nothing.
LEMMA LeavesFade ==
    ASSUME ct' \notin {"recv", "hdr", "spin"}, want' \in {want, NoTarget},
           named' = named
    PROVE  PlayerStep /\ PlayedData
BY DEF PlayerStep, Radio!Fade, Heard, InSession, PlayedData

LEMMA LeaveForFades ==
    ASSUME NEW w \in {want, NoTarget}, LeaveFor(w, named), slip' = "none"
    PROVE  PlayerStep /\ PlayedData
<1>1. ct' = "close" /\ want' = w /\ named' = named
  BY RecordKept DEF LeaveFor, Leave
<1> QED
  BY <1>1, LeavesFade

LEMMA LeaveIfToldPlays ==
    ASSUME LeaveIfTold, slip = "none", slip' = "none",
           playing => ct = "recv" /\ cstatus = "data",
           playing => cstatus' = "data"
    PROVE  PlayerStep /\ PlayedData
<1>1. CASE sDisconnect
  <2>1. ct' = "close" /\ want' = want /\ named' = named
    BY <1>1, HistoryKept DEF LeaveIfTold, Leave
  <2> QED
    BY <2>1, LeavesFade
<1>2. CASE ~sDisconnect
  <2>1. ct' = "recv" /\ UNCHANGED <<playing, sess, want, named>>
    BY <1>2 DEF LeaveIfTold, hist
  <2> QED
    BY <2>1 DEF PlayerStep, Heard, InSession, PlayedData
<1> QED
  BY <1>1, <1>2

\* A playlist or a redirection, which come before there is anything to play.
LEMMA FoundAsks ==
    ASSUME TypeOK, NEW t \in Station, Found(t), ~playing, slip' = "none"
    PROVE  PlayerStep /\ PlayedData
<1>1. PICK local \in BOOLEAN :
         LET n == [Whole(t) EXCEPT !.url = IF local THEN named.url ELSE t] IN
         LeaveFor(IF want = NoTarget THEN NoTarget ELSE n, n)
  BY DEF Found
<1> DEFINE n == [Whole(t) EXCEPT !.url = IF local THEN named.url ELSE t]
<1>2. n \in Targets
  <2>1. t \in Fields /\ [Whole(t) EXCEPT !.url = t] = Whole(t)
    BY SomeTargets DEF Whole
  <2>2. Whole(t) \in Targets /\ [Whole(t) EXCEPT !.url = named.url] \in Targets
    BY <2>1, SomeTargets
  <2> QED
    BY <2>1, <2>2
<1>3. n # NoTarget
  <2>1. n.path = t /\ NoTarget.path = None /\ t # None
    BY ControlAssumption DEF Whole, NoTarget
  <2> QED
    BY <2>1
<1>4. /\ ct' = "close" /\ playing' = FALSE /\ named' = n
      /\ want' = IF want = NoTarget THEN NoTarget ELSE n
  BY <1>1, RecordKept DEF LeaveFor, Leave
<1> HIDE DEF n
<1>5. Heard = NoTarget /\ Heard' = NoTarget
  BY <1>4 DEF Heard
<1> QED
  BY <1>2, <1>3, <1>4, <1>5 DEF PlayerStep, Radio!Ask, Radio!Forget, PlayedData

LEMMA ClientPlays ==
    ASSUME IInv, PlayerInv, ClientTask, slip = "none", slip' = "none"
    PROVE  PlayerStep /\ PlayedData
<1>1. Calm /\ TypeOK
  BY DEF IInv
<1>2. playing /\ InSession => ct = "recv" /\ cstatus = "data"
  BY DEF PlayerInv
<1>3. playing => ct \in {"recv", "hdr", "spin", "redns"}
  BY <1>1 DEF TypeOK
<1>4. CASE Open
  <2>1. ct' \in {"fault", "opening"} /\ want' = want /\ named' = named
    BY <1>4, HistoryKept DEF Open
  <2> QED
    BY <2>1, LeavesFade
<1>5. CASE Connected
  <2>1. ct = "opening" /\ UNCHANGED playing /\ want' = want /\ named' = named
    BY <1>5, HistoryKept DEF Connected
  <2>2. ~playing /\ ~playing'
    BY <1>3, <2>1
  <2> QED
    BY <2>1, <2>2 DEF PlayerStep, PlayedData, Heard
<1>6. CASE ConnectFails
  <2>1. ct' = "close" /\ want' = NoTarget /\ named' = named
    BY <1>6, HistoryKept DEF ConnectFails
  <2> QED
    BY <2>1, LeavesFade
<1>7. CASE Playlist
  <2>1. ~playing
    BY <1>2, <1>7 DEF Playlist, InSession
  <2> QED
    BY <1>1, <1>7, <2>1, FoundAsks, LeaveForFades DEF Playlist, NotFound
<1>8. CASE PlaylistMore
  <2>1. ~playing
    BY <1>2, <1>8 DEF PlaylistMore, InSession
  <2> QED
    BY <1>8, <2>1, LeaveIfToldPlays DEF PlaylistMore
<1>9. CASE Redirect
  <2>1. ~playing
    BY <1>2, <1>9 DEF Redirect, InSession
  <2> QED
    BY <1>1, <1>9, <2>1, FoundAsks, LeaveForFades DEF Redirect, Parse, NotFound
<1>10. CASE Header
  <2>1. ~playing
    BY <1>2, <1>10 DEF Header, InSession
  <2>2. CASE LeaveIfTold
    BY <1>10, <2>1, <2>2, LeaveIfToldPlays
  <2>3. CASE UNCHANGED <<sDisconnect, playing, hist>>
    BY <2>1, <2>3 DEF PlayerStep, PlayedData, Heard, hist
  <2> QED
    BY <1>10, <2>2, <2>3 DEF Header
<1>11. CASE HeaderEnds
  <2>1. ~playing
    BY <1>2, <1>11 DEF HeaderEnds, InSession
  <2> QED
    BY <1>11, <2>1, LeaveIfToldPlays DEF HeaderEnds
<1>12. CASE HeaderSpins
  <2>1. ~playing /\ ~playing' /\ want' = want /\ named' = named
    BY <1>2, <1>12 DEF HeaderSpins, InSession, hist
  <2> QED
    BY <2>1 DEF PlayerStep, PlayedData, Heard
\* Playback begins: there is no stop, so the session is with the station wanted.
<1>13. CASE Data
  <2>1. ct = "recv" /\ cstatus = "data" /\ cstatus' = "data"
    BY <1>13 DEF Data
  <2>2. CASE LeaveIfTold
    BY <2>1, <2>2, LeaveIfToldPlays
  <2>3. CASE ~sDisconnect /\ playing' = TRUE /\ UNCHANGED <<sDisconnect, ct, hist>>
    <3>1. /\ want' = want /\ sess' = sess /\ named' = named
          /\ InSession /\ InSession' /\ ct' = "recv"
      BY <2>1, <2>3 DEF hist, InSession
    <3>2. want # NoTarget /\ want = Current /\ sess = Current
      BY <1>1, <2>1, <2>3, <3>1 DEF Calm, Session, Current
    <3>3. Heard' = want
      BY <2>3, <3>1, <3>2 DEF Heard
    <3>4. Heard \in {want, NoTarget}
      BY <3>2 DEF Heard
    <3> QED
      BY <2>1, <3>1, <3>2, <3>3, <3>4 DEF PlayerStep, Radio!Play, PlayedData
  <2> QED
    BY <1>13, <2>2, <2>3 DEF Data
<1>14. CASE Fail
  BY <1>14, LeaveForFades DEF Fail
<1>15. CASE EndOfStream
  <2>1. ct' = "redns" /\ want' = want /\ named' = named
    BY <1>15, HistoryKept DEF EndOfStream
  <2> QED
    BY <2>1, LeavesFade
<1>16. CASE Reconnect \/ PlaylistConnect
  <2>1. Resolve /\ ct' \in {"close", "wait"}
    BY <1>16 DEF Reconnect, PlaylistConnect, Leave
  <2>2. want' \in {want, NoTarget} /\ named' = named
    BY <2>1, HistoryKept DEF Resolve
  <2> QED
    BY <2>1, <2>2, LeavesFade
<1>17. CASE Close
  <2>1. ct' \in {"pldns", "wait"} /\ want' = want /\ named' = named
    BY <1>17 DEF Close, hist
  <2> QED
    BY <2>1, LeavesFade
<1>18. CASE Reboot
  <2>1. ct' = "wait" /\ want' = NoTarget /\ named' = NoTarget /\ playing' = FALSE
    BY <1>18 DEF Reboot
  <2>2. Heard = NoTarget /\ Heard' = NoTarget
    BY <1>2, <1>18, <2>1 DEF Reboot, Heard
  <2> QED
    BY <1>1, <2>1, <2>2, SomeTargets DEF PlayerStep, PlayedData, Radio!Forget
<1> QED
  BY <1>4, <1>5, <1>6, <1>7, <1>8, <1>9, <1>10, <1>11, <1>12, <1>13, <1>14, <1>15, <1>16,
     <1>17, <1>18 DEF ClientTask, Chunk, StreamEnds

\* A command, which changes nothing of what clientTask does.
LEMMA CallPlays ==
    ASSUME IInv, PlayerInv, NEW c \in Callers, Call(c), slip = "none", slip' = "none"
    PROVE  PlayerStep /\ PlayedData
<1>1. Calm /\ TypeOK
  BY DEF IInv
<1>2. UNCHANGED <<playing, ct>>
  BY DEF Call, Begin, Command, Take, GiveBack, Yes, GiveUp, Stop, SetURL, SetPath, SetPort,
     Connect, Lookup, Give, client
<1>3. playing /\ InSession => ct = "recv" /\ cstatus = "data"
  BY DEF PlayerInv
<1>4. CASE Connect(c)
  <2>1. AtRest
    BY <1>1, <1>4 DEF Connect, Calm, OneSetter, Setting
  <2>2. want' = named /\ named' = named /\ named \in Targets
    BY <1>1, <1>4, HistoryKept DEF Connect, TypeOK
  <2>3. ~InSession /\ ~InSession'
    BY <1>2, <2>1 DEF AtRest, InSession
  <2> QED
    BY <2>2, <2>3 DEF PlayerStep, Radio!Ask, Radio!Forget, PlayedData, Heard
<1>5. CASE ~Connect(c)
  <2>1. UNCHANGED cstatus
    BY <1>5 DEF Call, Begin, Command, Take, GiveBack, Yes, GiveUp, Stop, SetURL, SetPath,
       SetPort, Lookup, Give
  <2>2. want' \in {want, NoTarget} /\ sess' = sess /\ (named' # named => want' = want)
    <3>1. CASE Begin(c)
      <4>1. PICK cause : \/ want' = NoTarget /\ UNCHANGED <<sess, named>>
                         \/ History(sess, want, cause)
        BY <3>1 DEF Begin
      <4> QED
        BY <4>1, HistoryKept
    <3>2. CASE GiveBack(c)
      <4>1. UNCHANGED hist \/ History(sess, want, SetSlip(c, "openingLooksIdle"))
        BY <3>2, GiveBackGoes
      <4> QED
        BY <4>1, HistoryKept DEF hist
    <3>3. CASE GiveUp(c)
      <4>1. UNCHANGED hist \/ History(sess, want, SetSlip(c, "gaveUp"))
        BY <3>3 DEF GiveUp
      <4> QED
        BY <4>1, HistoryKept DEF hist
    <3>4. CASE Stop(c)
      BY <3>4, HistoryKept DEF Stop
    <3>5. CASE Lookup(c)
      BY <3>5, HistoryKept DEF Lookup
    <3>6. CASE Take(c) \/ Yes(c) \/ Give(c)
      BY <3>6 DEF Take, Yes, Give, hist
    <3>7. CASE SetURL(c) \/ SetPath(c) \/ SetPort(c)
      BY <3>7, RecordKept DEF SetURL, SetPath, SetPort, Name
    <3> QED
      BY <1>5, <3>1, <3>2, <3>3, <3>4, <3>5, <3>6, <3>7 DEF Call, Command
  <2>3. UNCHANGED Heard
    BY <1>2, <2>2 DEF Heard, InSession
  <2>4. named' \in Targets
    BY <1>1, CallTypes DEF TypeOK
  <2> QED
    BY <1>2, <1>3, <2>1, <2>2, <2>3, <2>4
       DEF PlayerStep, Radio!Forget, Radio!Name, PlayedData, InSession
<1> QED
  BY <1>4, <1>5

\* Once the history is lost, it is empty until all is at rest, or anew.
LEMMA LostStaysEmpty ==
    ASSUME slip # "none" => sess = NoTarget /\ want = NoTarget, Next
    PROVE  /\ slip' # "none" => sess' = NoTarget /\ want' = NoTarget
           /\ slip # "none" /\ slip' = "none" => want' = NoTarget /\ ct' = "wait"
<1>1. ASSUME UNCHANGED hist \/ \E s, w, n, cause : Record(s, w, n, cause)
      PROVE  /\ slip' # "none" => sess' = NoTarget /\ want' = NoTarget
             /\ slip # "none" => slip' # "none"
  BY <1>1 DEF hist, Record
<1>2. CASE Reboot
  BY <1>2 DEF Reboot
<1>3. CASE ClientTask /\ ~Reboot
  <2>1. UNCHANGED hist \/ \E s, w, n, cause : Record(s, w, n, cause)
    BY <1>3 DEF ClientTask, Chunk, StreamEnds, Open, Connected, ConnectFails, Playlist,
           PlaylistMore, Redirect, Parse, Found, NotFound, LeaveFor, LeaveIfTold, Header,
           HeaderEnds, Data, HeaderSpins, Fail, EndOfStream, Reconnect, Resolve, Close,
           PlaylistConnect, History
  <2> QED
    BY <1>1, <2>1
<1>4. ASSUME NEW c \in Callers, Begin(c), Quiet
      PROVE  slip' = "none" /\ want' = NoTarget /\ ct' = "wait"
  BY <1>4 DEF Begin, Quiet, AtRest, client
<1>5. ASSUME NEW c \in Callers, Begin(c), ~Quiet
      PROVE  \E s, w, n, cause : Record(s, w, n, cause)
  BY <1>5 DEF Begin, History
<1>6. ASSUME NEW c \in Callers, Command(c)
      PROVE  UNCHANGED hist \/ \E s, w, n, cause : Record(s, w, n, cause)
  <2>1. CASE GiveBack(c)
    BY <2>1, GiveBackGoes DEF History
  <2>2. CASE GiveUp(c)
    BY <2>2 DEF GiveUp, History
  <2>3. CASE Stop(c)
    BY <2>3 DEF Stop, History
  <2>4. CASE SetURL(c) \/ SetPath(c) \/ SetPort(c)
    BY <2>4 DEF SetURL, SetPath, SetPort, Name
  <2>5. CASE Connect(c)
    BY <2>5 DEF Connect, History
  <2>6. CASE Lookup(c)
    BY <2>6 DEF Lookup, History
  <2>7. CASE Take(c) \/ Yes(c) \/ Give(c)
    BY <2>7 DEF Take, Yes, Give
  <2> QED
    BY <1>6, <2>1, <2>2, <2>3, <2>4, <2>5, <2>6, <2>7 DEF Command
<1> QED
  BY <1>1, <1>2, <1>3, <1>4, <1>5, <1>6 DEF Next, Call

\* Every step of the code is one of the player, and leaves PlayerInv true.
LEMMA NextPlays ==
    ASSUME IInv, PlayerInv, [Next]_vars
    PROVE  PlayerInv' /\ [Radio!Next]_(Radio!player)
<1>0. named' \in Targets
  <2>1. CASE UNCHANGED vars
    BY <2>1 DEF vars, hist, IInv, TypeOK
  <2>2. CASE ClientTask
    BY <2>2, ClientTypes DEF IInv, TypeOK
  <2>3. ASSUME NEW c \in Callers, Call(c) PROVE named' \in Targets
    BY <2>3, CallTypes DEF IInv, TypeOK
  <2> QED
    BY <2>1, <2>2, <2>3 DEF Next
<1>1. CASE UNCHANGED vars
  BY <1>1 DEF vars, hist, client, PlayerInv, InSession, Heard, Radio!player
<1>2. CASE Next
  <2>1. /\ slip' # "none" => sess' = NoTarget /\ want' = NoTarget
        /\ slip # "none" /\ slip' = "none" => want' = NoTarget /\ ct' = "wait"
    BY <1>2, LostStaysEmpty DEF PlayerInv
  <2>2. CASE slip' # "none"
    <3>1. Heard' = NoTarget
      BY <2>1, <2>2 DEF Heard
    <3> QED
      BY <1>0, <2>1, <2>2, <3>1 DEF PlayerInv, Radio!Next, Radio!Break, Radio!Silence
  <2>3. CASE slip # "none" /\ slip' = "none"
    <3>1. Heard' = NoTarget /\ ~InSession'
      BY <2>1, <2>3 DEF Heard, InSession
    <3> QED
      BY <1>0, <2>1, <2>3, <3>1 DEF PlayerInv, Radio!Next, Radio!Mend, Radio!Silence
  <2>4. CASE slip = "none" /\ slip' = "none"
    <3>1. PlayerStep /\ PlayedData
      BY <1>2, <2>4, ClientPlays, CallPlays DEF Next
    <3> QED
      BY <2>4, <3>1 DEF PlayerInv, PlayerStep, PlayedData, Radio!Next, Radio!player
  <2> QED
    BY <2>2, <2>3, <2>4
<1> QED
  BY <1>1, <1>2

\* The tasks, the semaphores and the fields implement the player: until commands and
\* sessions meet in a way that the handshake cannot cope with, and again from the next
\* command at rest on, playback begins only of what is asked for at that moment and
\* was named, never over another session, and never between a stop and a command.
THEOREM PlayerImplemented == Spec => PlayerSpec
<1>1. Init => PlayerInv /\ Radio!Init
  BY DEF Init, PlayerInv, Radio!Init, Heard
<1>2. IInv /\ PlayerInv /\ [Next]_vars => PlayerInv' /\ [Radio!Next]_(Radio!player)
  BY NextPlays
<1> QED
  BY <1>1, <1>2, Invariance, PTL DEF Spec, PlayerSpec, Radio!Spec
=============================================================================
