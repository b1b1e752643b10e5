------------------------------ MODULE Stations ------------------------------
(***************************************************************************)
(* The choice of a station: currentStation, and the commands that change   *)
(* it.  Web server tasks play a station (/play), the console plays one     *)
(* (cli.play) or steps to the next or the previous (wsStationNext,         *)
(* wsStationPrev in webclient.c); all of them by playStation               *)
(* (webserver.c).  /instant_play and cli.url, cli.path, cli.port and       *)
(* cli.start play what is no station of the list, past currentStation.     *)
(* Any task may run between two steps of another.                          *)
(*                                                                         *)
(* currentStation has 16 bits, the argument of getStation 8.               *)
(*                                                                         *)
(* Data.  A station is its number, and recorded or not; what flash was     *)
(* erased of and nobody wrote (blank) reads as recorded, 0xFF.  How        *)
(* clientTask is made to play a station is the subject of ClientControl:   *)
(* here the three parts of its target are set in one step.                 *)
(*                                                                         *)
(* The actions are composed in Console.  alone, from, sure, told and short *)
(* are history, see the properties.                                        *)
(***************************************************************************)
EXTENDS Integers

CONSTANTS STATIONS,   \* NBSTATIONS (192)
          BYTE, WORD, \* 2^8, 2^16
          Numbers,    \* what play can be given, as an uint16_t
          Web, Cli,   \* the tasks of the web server; that of the console
          None,
          Other,      \* a target that is no station of the list
          PLAYS       \* bound: of /play and /instant_play

ASSUME StationsAssumption ==
    /\ STATIONS \in Nat \ {0} /\ BYTE \in Nat /\ STATIONS < BYTE
    /\ WORD \in Nat \ {0} /\ WORD % BYTE = 0
    /\ Numbers \subseteq 0..WORD - 1 /\ PLAYS \in Nat
    /\ Cli \notin Web /\ None \notin 0..WORD - 1 /\ Other \notin 0..WORD - 1

Tasks    == Web \cup {Cli}
List     == 0..STATIONS - 1
CliNext == -1
CliPrev == -2
Retarget == -3
Plays    == Numbers \cup {Retarget}            \* a number is a play
Commands == {CliNext, CliPrev} \cup Plays

VARIABLES recorded,     \* the stations that have a domain and a file
          blank,        \* those of them that were never written
          current,      \* currentStation
          target,       \* what clientTask was last told to play
          shown,        \* the station last broadcast to the web pages
          pc, cmd,      \* of each task: where it is, its command
          id,           \* the station it plays, read from currentStation
          si,           \* the station it has got, or None
          plays,
          alone, from, sure, told, short   \* history

work  == <<cmd, id, si>>
hist  == <<alone, from, sure, told, short>>
svars == <<recorded, blank, current, target, shown, pc, work, plays, hist>>

SInit == /\ recorded \in SUBSET List /\ blank \in SUBSET recorded
         /\ current = 0 /\ target = None /\ shown = None
         /\ pc = [t \in Tasks |-> "idle"] /\ cmd = [t \in Tasks |-> CliNext]
         /\ id = [t \in Tasks |-> 0] /\ si = [t \in Tasks |-> None]
         /\ plays = 0
         /\ alone = [t \in Tasks |-> FALSE] /\ from = [t \in Tasks |-> 0]
         /\ sure = FALSE /\ told = FALSE /\ short = FALSE

Idle(t) == pc[t] = "idle"
Busy(t) == pc[t] # "idle"
Goto(t, place) == pc' = [pc EXCEPT ![t] = place]

\* The station that getStation(n) is about: its argument is cut to eight bits.
Number(n) == n % BYTE

\* getStation(n): None when there is no such station, or for want of memory.
getStation(t, n) ==
    LET s == IF Number(n) \in List THEN Number(n) ELSE None IN
    /\ \E got \in {s, None} : si' = [si EXCEPT ![t] = got]
    /\ short' = (short \/ si'[t] # s)

Begin(t, c) ==
    /\ Idle(t)
    /\ cmd' = [cmd EXCEPT ![t] = c]
    /\ id' = [id EXCEPT ![t] = IF c \in Numbers THEN c ELSE 0]
    /\ Goto(t, IF c \in Numbers THEN "play" ELSE IF c = Retarget THEN "set" ELSE "step")
    /\ alone' = [u \in Tasks |-> u = t /\ \A v \in Tasks : Idle(v)]
    /\ from' = [from EXCEPT ![t] = current]
    /\ sure' = (sure /\ alone'[t])
    /\ told' = FALSE
    /\ short' = (short /\ ~alone'[t])
    /\ UNCHANGED <<recorded, blank, current, target, shown, si>>

\* The number of the station after n.  Mutant: the end of the list is not seen.
AfterUnbounded(n) == IF n < STATIONS THEN n + 1 ELSE 0
After(n) == IF n < STATIONS - 1 THEN n + 1 ELSE 0

\* One to the next or the previous; at 0 wsStationPrev returns.
Step(t) ==
    /\ pc[t] = "step"
    /\ \/ /\ cmd[t] = CliPrev /\ current = 0
          /\ Goto(t, "idle")
          /\ UNCHANGED <<current, si, short>>
       \/ /\ cmd[t] = CliNext \/ current > 0
          /\ current' = IF cmd[t] = CliNext THEN After(current) ELSE current - 1
          /\ getStation(t, current')
          /\ Goto(t, "got")
    /\ UNCHANGED <<recorded, blank, target, shown, cmd, id, plays, alone, from, sure, told>>

\* The station is recorded: what currentStation is by now is played.  It is not:
\* one step back.
\* Mutant: the step is not taken back.
BackNowhere(t) == current
Back(t) == (IF cmd[t] = CliNext THEN current - 1 ELSE current + 1) % WORD

Got(t) ==
    /\ pc[t] = "got"
    /\ \/ /\ si[t] \in recorded
          /\ id' = [id EXCEPT ![t] = current]
          /\ Goto(t, "play")
          /\ UNCHANGED current
       \/ /\ si[t] \notin recorded
          /\ current' = Back(t)
          /\ Goto(t, "tell")
          /\ UNCHANGED id
    /\ si' = [si EXCEPT ![t] = None]
    /\ UNCHANGED <<recorded, blank, target, shown, cmd, plays, hist>>

\* playStation: currentStation is set before it is known that there is one.
Play(t) ==
    /\ pc[t] = "play"
    /\ getStation(t, id[t])
    /\ current' = id[t]
    /\ id' = [id EXCEPT ![t] = 0]
    /\ Goto(t, IF si'[t] # None THEN "set"
               ELSE IF cmd[t] \in Plays THEN "idle" ELSE "tell")
    /\ sure' = (sure /\ ~short')
    /\ UNCHANGED <<recorded, blank, target, shown, cmd, plays, alone, from, told>>

\* What is played now is stopped, and what the command is for is started: a blank
\* station by the URL and the path of what was before, at another port.
SetTarget(t) ==
    /\ pc[t] = "set"
    /\ target' = IF cmd[t] = Retarget \/ si[t] \in blank THEN Other ELSE si[t]
    /\ Goto(t, IF cmd[t] \in Plays THEN "idle" ELSE "tell")
    /\ si' = [si EXCEPT ![t] = None]
    /\ sure' = (alone[t] /\ cmd[t] # Retarget)
    /\ UNCHANGED <<recorded, blank, current, shown, cmd, id, plays, alone, from, told, short>>

\* The number is broadcast.
Tell(t) ==
    /\ pc[t] = "tell"
    /\ shown' = current
    /\ Goto(t, "idle")
    /\ told' = alone[t]
    /\ UNCHANGED <<recorded, blank, current, target, work, plays, alone, from, sure, short>>

StationStep(t) == Step(t) \/ Got(t) \/ Play(t) \/ SetTarget(t) \/ Tell(t)

\* A browser plays a station, or what it names itself.
WebPlay(t) == /\ plays < PLAYS
              /\ plays' = plays + 1
              /\ \E c \in Plays : Begin(t, c)

-----------------------------------------------------------------------------
(* Properties *)

AtRest == \A t \in Tasks : Idle(t)

StationsTypeOK ==
    /\ recorded \subseteq List /\ blank \subseteq recorded /\ current \in 0..WORD - 1
    /\ target \in List \cup {None, Other} /\ shown \in 0..WORD - 1 \cup {None}
    /\ pc \in [Tasks -> {"idle", "step", "got", "play", "set", "tell"}]
    /\ cmd \in [Tasks -> Commands] /\ id \in [Tasks -> 0..WORD - 1]
    /\ si \in [Tasks -> List \cup {None}]
    /\ alone \in [Tasks -> BOOLEAN] /\ from \in [Tasks -> 0..WORD - 1]
    /\ sure \in BOOLEAN /\ told \in BOOLEAN /\ short \in BOOLEAN

\* At rest the station that was told to clientTask is currentStation (as getStation
\* takes it), or currentStation is none: unless what was played last is no station
\* of the list, commands have overlapped since one had the station to itself, or
\* there was no memory to play it.  Of a blank station it is told something else.
CurrentIsPlayed ==
    AtRest /\ sure =>
        \/ Number(current) \notin List
        \/ target = IF Number(current) \in blank THEN Other ELSE Number(current)

\* cli.next and cli.prev by themselves, with the memory they need, select the
\* neighbour in the list if it is recorded, or stay where they are, and tell the
\* web pages.  But cli.next onto a station 0 that is not recorded selects none,
\* from where neither of them gets away.
NeighbourSelected ==
    LET t == Cli
        n == IF cmd[t] = CliNext THEN (from[t] + 1) % STATIONS ELSE from[t] - 1
    IN  told /\ AtRest /\ ~short /\ from[t] \in List =>
            /\ shown = current
            /\ current = IF n \in recorded THEN n
                         ELSE IF n = 0 /\ cmd[t] = CliNext THEN WORD - 1 ELSE from[t]
=============================================================================
