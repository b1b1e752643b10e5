---------------------------- MODULE Console_proofs ----------------------------
(***************************************************************************)
(* Proofs about Console and Stations: for every list of stations, every    *)
(* width of the numbers, every size of the queue and of the line, and      *)
(* every number of lines and of commands.                                  *)
(*                                                                         *)
(* The stations.  CurrentIsPlayed and NeighbourSelected are about the end  *)
(* of a command; SureInv and NeighbourInv say what holds at each place of  *)
(* it while no other command overlaps.                                     *)
(*                                                                         *)
(* The line.  Coming are the characters that are still to be read: those   *)
(* of the queue, and the one that is typed next.  They are in the order in *)
(* which they were typed (OrderInv), so that the beginning of a line that  *)
(* was run does not come again (OnceInv); and before a character of a line *)
(* of which nothing was dropped comes the one that was typed before it, in *)
(* the queue or, read already, in the line (FollowInv).                    *)
(***************************************************************************)
EXTENDS Console, SequenceTheorems, TLAPS

-----------------------------------------------------------------------------
(* The stations: the invariant *)

Stepping == {CliNext, CliPrev}

\* Only the console steps.
CommandInv ==
    /\ \A t \in Web : Busy(t) => cmd[t] \in Plays
    /\ \A t \in Tasks : pc[t] = "play" => cmd[t] # Retarget
    /\ \A t \in Tasks : pc[t] \in {"step", "got", "tell"} => cmd[t] \in Stepping

\* A command that was alone when it began, and that none has joined.
AloneInv == \A t \in Tasks : alone[t] => \A u \in Tasks : u = t \/ Idle(u)

Matches(c) == \/ Number(c) \notin List
              \/ target = IF Number(c) \in blank THEN Other ELSE Number(c)

\* currentStation is one after, or before, the one that t began with.
Stepped(t) == \/ cmd[t] = CliNext /\ current = After(from[t])
              \/ cmd[t] = CliPrev /\ current = from[t] - 1 /\ from[t] > 0

PlaceOf(t) ==
    alone[t] => /\ pc[t] = "step" => from[t] = current
                /\ pc[t] = "got" => Stepped(t)
                /\ pc[t] = "set" /\ cmd[t] # Retarget => si[t] = Number(current)
PlaceInv == \A t \in Tasks : PlaceOf(t)

SureInv ==
    sure => /\ \A t \in Tasks : Busy(t) => alone[t]
            /\ \A t \in Tasks : pc[t] = "got" => Matches(from[t])
            /\ (\A t \in Tasks : pc[t] \in {"idle", "step", "tell"}) => Matches(current)

Neighbour == IF cmd[Cli] = CliNext THEN (from[Cli] + 1) % STATIONS ELSE from[Cli] - 1
Selected ==
    current = IF Neighbour \in recorded THEN Neighbour
              ELSE IF Neighbour = 0 /\ cmd[Cli] = CliNext THEN WORD - 1 ELSE from[Cli]

NeighbourInv ==
    /\ alone[Cli] /\ ~short /\ from[Cli] \in List /\ cmd[Cli] \in Stepping =>
         /\ pc[Cli] = "got" => si[Cli] = current /\ current = Neighbour
         /\ pc[Cli] = "play" => id[Cli] = current
         /\ pc[Cli] \in {"play", "set"} => current = Neighbour /\ current \in recorded
         /\ pc[Cli] = "tell" => Selected
    /\ told => AtRest /\ shown = current /\ (~short /\ from[Cli] \in List => Selected)

SInv == StationsTypeOK /\ CommandInv /\ AloneInv /\ PlaceInv /\ SureInv /\ NeighbourInv

\* What the steps of the system are for the stations.
chosen == <<recorded, blank, current, target, shown, pc, work, hist>>
Moves == \/ \E t \in Tasks, c \in Commands : (t \in Web => c \in Plays) /\ Begin(t, c)
         \/ \E t \in Tasks : StationStep(t)
         \/ UNCHANGED chosen

-----------------------------------------------------------------------------
(* Arithmetic *)

LEMMA Widths ==
    /\ STATIONS \in Int /\ BYTE \in Int /\ WORD \in Int
    /\ 0 < STATIONS /\ STATIONS < BYTE /\ BYTE <= WORD
<1>1. WORD % BYTE = 0 /\ BYTE \in Int /\ WORD \in Int /\ 0 < BYTE /\ 0 < WORD
  BY StationsAssumption
<1> DEFINE b == BYTE  w == WORD
<1>2. b \in Int /\ w \in Int /\ 0 < b /\ 0 < w /\ w % b = 0
  BY <1>1
<1> HIDE DEF b, w
<1>3. b <= w
  BY <1>2
<1> QED
  BY <1>1, <1>3, StationsAssumption DEF b, w

LEMMA NumberFacts ==
  ASSUME NEW c \in Int
  PROVE  /\ Number(c) \in 0..BYTE - 1
         /\ c \in 0..BYTE - 1 => Number(c) = c
<1> DEFINE b == BYTE
<1>1. b \in Int /\ 0 < b
  BY Widths
<1> HIDE DEF b
<1>2. c % b \in 0..b - 1 /\ (c \in 0..b - 1 => c % b = c)
  BY <1>1
<1> QED
  BY <1>2 DEF b, Number

LEMMA LastRest ==
  ASSUME NEW b \in Int, NEW w \in Int, 0 < b, w % b = 0
  PROVE  (w - 1) % b = b - 1
<1> DEFINE q == w \div b  p == (w - 1) \div b  r == (w - 1) % b
<1>1. q \in Int /\ w = b * q
  BY SMT
<1>2. p \in Int /\ r \in 0..b - 1 /\ w - 1 = b * p + r
  BY SMT
<1> HIDE DEF q, p, r
<1>3. b * (q - p) = r + 1
  BY <1>1, <1>2
<1> DEFINE d == q - p
<1>4. d \in Int /\ b * d = r + 1
  BY <1>1, <1>2, <1>3
<1> HIDE DEF d
<1>5. d > 0
  BY <1>2, <1>4
<1>6. d < 2
  <2>1. SUFFICES ASSUME d >= 2 PROVE FALSE
    BY <1>4
  <2>2. b * d >= b * 2
    BY <2>1, <1>4
  <2> QED
    BY <2>2, <1>2, <1>4
<1>7. d = 1
  BY <1>4, <1>5, <1>6
<1>8. r = b - 1
  BY <1>7, <1>4, <1>2
<1> QED
  BY <1>8 DEF r

LEMMA LastNumber == Number(WORD - 1) = BYTE - 1
BY Widths, StationsAssumption, LastRest DEF Number

LEMMA WrapFacts ==
  ASSUME NEW c \in 0..WORD - 1
  PROVE  /\ (c - 1) % WORD = IF c = 0 THEN WORD - 1 ELSE c - 1
         /\ (c + 1) % WORD = IF c = WORD - 1 THEN 0 ELSE c + 1
<1> DEFINE w == WORD
<1>1. w \in Int /\ 0 < w /\ c \in 0..w - 1
  BY Widths
<1> HIDE DEF w
<1>2. (c - 1) % w = IF c = 0 THEN w - 1 ELSE c - 1
  BY <1>1
<1>3. (c + 1) % w = IF c = w - 1 THEN 0 ELSE c + 1
  BY <1>1
<1> QED
  BY <1>2, <1>3 DEF w
LEMMA NextFacts ==
  ASSUME NEW c \in List
  PROVE  (c + 1) % STATIONS = IF c = STATIONS - 1 THEN 0 ELSE c + 1
<1> DEFINE w == STATIONS
<1>1. w \in Int /\ 0 < w /\ c \in 0..w - 1
  BY Widths DEF List
<1> HIDE DEF w
<1>2. (c + 1) % w = IF c = w - 1 THEN 0 ELSE c + 1
  BY <1>1
<1> QED
  BY <1>2 DEF w

\* The number one past or before the list is of no station.
LEMMA NoneBesides == None \notin List /\ List \subseteq 0..BYTE - 1 /\ BYTE - 1 \notin List
BY Widths, StationsAssumption DEF List

\* What After and Back do with a number of 16 bits.
LEMMA AfterFacts ==
  ASSUME NEW c \in 0..WORD - 1
  PROVE  /\ After(c) \in 0..WORD - 1
         /\ After(c) = 0 \/ After(c) = c + 1
         /\ c \in List => After(c) = (c + 1) % STATIONS
BY Widths, NextFacts DEF After, List

-----------------------------------------------------------------------------
(* The stations: the steps *)

LEMMA InitSInv == SInit => SInv
<1> SUFFICES ASSUME SInit PROVE SInv
  OBVIOUS
<1> USE DEF SInit
<1>1. StationsTypeOK
  <2>1. 0 \in 0..WORD - 1 /\ CliNext \in Commands
    BY Widths DEF Commands
  <2>2. alone \in [Tasks -> BOOLEAN]
    BY Zenon
  <2> QED
    BY <2>1, <2>2 DEF StationsTypeOK
<1>2. CommandInv /\ AloneInv /\ PlaceInv /\ SureInv /\ NeighbourInv
  BY StationsAssumption DEF CommandInv, AloneInv, PlaceInv, PlaceOf, SureInv, NeighbourInv, Idle, Busy, Tasks
<1> QED
  BY <1>1, <1>2 DEF SInv

\* A station that is got is in the list, and the one asked for unless there was no memory.
LEMMA GotStation ==
  ASSUME NEW t \in Tasks, si \in [Tasks -> List \cup {None}], NEW c \in 0..WORD - 1,
         getStation(t, c)
  PROVE  /\ si' \in [Tasks -> List \cup {None}]
         /\ \A u \in Tasks \ {t} : si'[u] = si[u]
         /\ si'[t] = None \/ (si'[t] = Number(c) /\ Number(c) \in List)
         /\ ~short' => ~short /\ (Number(c) \in List => si'[t] = Number(c))
         /\ short => short'
<1>1. Number(c) \in 0..BYTE - 1
  BY NumberFacts
<1> QED
  BY <1>1 DEF getStation

LEMMA BeginStation ==
  ASSUME NEW t \in Tasks, NEW c \in Commands, t \in Web => c \in Plays, SInv, Begin(t, c)
  PROVE  SInv'
<1> USE DEF SInv
<1> DEFINE s == IF c \in Numbers THEN "play" ELSE IF c = Retarget THEN "set" ELSE "step"
<1>0. /\ pc' = [pc EXCEPT ![t] = s] /\ cmd' = [cmd EXCEPT ![t] = c]
      /\ pc \in [Tasks -> {"idle", "step", "got", "play", "set", "tell"}]
      /\ cmd \in [Tasks -> Commands]
      /\ pc[t] = "idle"
  BY DEF Begin, Goto, Idle, StationsTypeOK
<1>1. StationsTypeOK'
  <2>1. (IF c \in Numbers THEN c ELSE 0) \in 0..WORD - 1
    <3>1. Numbers \subseteq 0..WORD - 1
      BY StationsAssumption
    <3>2. 0 \in 0..WORD - 1
      BY Widths
    <3> QED
      BY <3>1, <3>2
  <2> QED
    BY <2>1 DEF Begin, Goto, StationsTypeOK
<1>2. CommandInv'
  BY <1>0, StationsAssumption DEF CommandInv, Busy, Commands, Plays, Stepping, Retarget
<1>3. AloneInv'
  BY <1>0 DEF AloneInv, Begin, Idle
<1>4. PlaceInv'
  <2>1. alone' = [u \in Tasks |-> u = t /\ \A v \in Tasks : Idle(v)]
    BY DEF Begin
  <2>2. from'[t] = current /\ current' = current
    BY DEF Begin, StationsTypeOK
  <2>3. pc'[t] \in {"play", "step"} \/ (pc'[t] = "set" /\ cmd'[t] = Retarget)
    BY <1>0 DEF StationsTypeOK
  <2> QED
    BY <2>1, <2>2, <2>3 DEF PlaceInv, PlaceOf
<1>5. SureInv'
  <2>1. /\ alone' = [u \in Tasks |-> u = t /\ \A v \in Tasks : Idle(v)]
        /\ sure' = (sure /\ alone'[t]) /\ UNCHANGED <<blank, current, target>>
    BY DEF Begin
  <2>2. sure' => sure /\ \A v \in Tasks : Idle(v)
    BY <2>1
  <2>3. sure' => Matches(current)'
    BY <2>1, <2>2 DEF SureInv, Matches, Idle
  <2>4. sure' => \A u \in Tasks : (Busy(u)' => alone'[u]) /\ pc'[u] # "got"
    BY <1>0, <2>1, <2>2 DEF Busy, Idle
  <2> QED
    BY <2>3, <2>4 DEF SureInv
<1>6. NeighbourInv'
  <2>1. alone' = [u \in Tasks |-> u = t /\ \A v \in Tasks : Idle(v)] /\ ~told'
    BY DEF Begin
  <2>2. alone'[Cli] => t = Cli
    BY <2>1 DEF Tasks
  <2>3. t = Cli /\ c \in Stepping => pc'[Cli] = "step"
    BY <1>0, StationsAssumption DEF Stepping, CliNext, CliPrev, Retarget
  <2> QED
    BY <1>0, <2>1, <2>2, <2>3 DEF NeighbourInv
<1> QED
  BY <1>1, <1>2, <1>3, <1>4, <1>5, <1>6

\* The steps of a command leave these alone, and the rest of the other tasks.
LEMMA TypesKept ==
  ASSUME NEW t \in Tasks, StationsTypeOK, StationStep(t)
  PROVE  StationsTypeOK' /\ UNCHANGED <<recorded, blank, cmd, alone, from>>
<1> USE DEF StationsTypeOK, Goto
<1>0. current \in 0..WORD - 1 /\ id[t] \in 0..WORD - 1
  OBVIOUS
<1>1. CASE Step(t)
  <2>1. CASE UNCHANGED <<current, si, short>> /\ Goto(t, "idle")
    BY <1>1, <2>1 DEF Step
  <2>2. CASE /\ cmd[t] = CliNext \/ current > 0
             /\ current' = IF cmd[t] = CliNext THEN After(current) ELSE current - 1
             /\ getStation(t, current')
             /\ Goto(t, "got")
    <3>1. current' \in 0..WORD - 1
      BY <2>2, <1>0, AfterFacts, Widths
    <3>2. si' \in [Tasks -> List \cup {None}]
      BY <3>1, <2>2, GotStation
    <3>3. short' \in BOOLEAN
      BY <2>2 DEF getStation
    <3> QED
      BY <1>1, <2>2, <3>1, <3>2, <3>3 DEF Step
  <2> QED
    BY <1>1, <2>1, <2>2 DEF Step
<1>2. CASE Got(t)
  <2>1. current' \in 0..WORD - 1
    BY <1>2, <1>0, WrapFacts, Widths DEF Got, Back
  <2> QED
    BY <1>2, <2>1 DEF Got, hist
<1>3. CASE Play(t)
  <2>1. si' \in [Tasks -> List \cup {None}] /\ short' \in BOOLEAN
    BY <1>3, <1>0, GotStation DEF Play, getStation
  <2>2. current' \in 0..WORD - 1 /\ 0 \in 0..WORD - 1
    BY <1>3, <1>0, Widths DEF Play
  <2>3. pc' \in [Tasks -> {"idle", "step", "got", "play", "set", "tell"}]
    BY <1>3 DEF Play
  <2> QED
    BY <1>3, <2>1, <2>2, <2>3 DEF Play
<1>4. CASE SetTarget(t)
  <2>1. target' \in List \cup {None, Other} /\ sure' \in BOOLEAN
    BY <1>4 DEF SetTarget
  <2>2. pc' \in [Tasks -> {"idle", "step", "got", "play", "set", "tell"}]
    BY <1>4 DEF SetTarget
  <2> QED
    BY <1>4, <2>1, <2>2 DEF SetTarget
<1>5. CASE Tell(t)
  BY <1>5 DEF Tell, work
<1> QED
  BY <1>1, <1>2, <1>3, <1>4, <1>5 DEF StationStep

\* Where t goes to.
LEMMA Places ==
  ASSUME NEW t \in Tasks, StationsTypeOK, CommandInv, StationStep(t)
  PROVE  /\ Busy(t)
         /\ pc' = [pc EXCEPT ![t] = pc'[t]]
         /\ pc[t] \in {"step", "got", "tell"} => cmd[t] \in Stepping
         /\ pc'[t] \in {"got", "tell"} => cmd[t] \in Stepping
         /\ pc'[t] # "step"
         /\ pc'[t] = "play" => cmd[t] # Retarget
<1> USE DEF Goto, StationsTypeOK
<1>1. CASE Step(t)
  BY <1>1 DEF Step, CommandInv, Busy
<1>2. CASE Got(t)
  BY <1>2 DEF Got, CommandInv, Busy, Stepping, CliNext, CliPrev, Retarget
<1>3. CASE Play(t)
  BY <1>3 DEF Play, CommandInv, Busy, Commands, Plays, Stepping
<1>4. CASE SetTarget(t)
  BY <1>4 DEF SetTarget, CommandInv, Busy, Commands, Plays, Stepping
<1>5. CASE Tell(t)
  BY <1>5 DEF Tell, CommandInv, Busy
<1> QED
  BY <1>1, <1>2, <1>3, <1>4, <1>5 DEF StationStep

LEMMA OrderKept ==
  ASSUME NEW t \in Tasks, StationsTypeOK, CommandInv, AloneInv, StationStep(t)
  PROVE  CommandInv' /\ AloneInv'
<1>1. /\ Busy(t) /\ pc' = [pc EXCEPT ![t] = pc'[t]]
      /\ pc'[t] \in {"step", "got", "tell"} => cmd[t] \in Stepping
      /\ pc'[t] = "play" => cmd[t] # Retarget
      /\ UNCHANGED <<cmd, alone>> /\ pc \in [Tasks -> {"idle", "step", "got", "play", "set", "tell"}]
  BY Places, TypesKept DEF StationsTypeOK
<1>2. CommandInv'
  BY <1>1 DEF CommandInv, Busy, Tasks
<1>3. AloneInv'
  BY <1>1 DEF AloneInv, Idle, Busy
<1> QED
  BY <1>2, <1>3

\* One step back leads to where t began, or to the number before the list.
LEMMA BackFacts ==
  ASSUME NEW t \in Tasks, StationsTypeOK, Stepped(t)
  PROVE  /\ Back(t) = IF cmd[t] = CliNext /\ current = 0 THEN WORD - 1 ELSE from[t]
         /\ Number(WORD - 1) \notin List
<1>1. Number(WORD - 1) \notin List
  BY LastNumber, NoneBesides
<1>2. from[t] \in 0..WORD - 1 /\ current \in 0..WORD - 1
  BY DEF StationsTypeOK
<1>3. CASE cmd[t] = CliNext
  <2>1. current = After(from[t])
    BY <1>3 DEF Stepped, CliNext, CliPrev
  <2>2. current = 0 \/ current = from[t] + 1
    BY <2>1, <1>2, AfterFacts
  <2> QED
    BY <1>1, <1>2, <1>3, <2>2, WrapFacts DEF Back
<1>4. CASE cmd[t] # CliNext
  <2>1. current = from[t] - 1
    BY <1>4 DEF Stepped
  <2>2. current # WORD - 1
    BY <2>1, <1>2, Widths
  <2> QED
    BY <1>1, <1>2, <1>4, <2>1, <2>2, WrapFacts DEF Back
<1> QED
  BY <1>3, <1>4

\* While t is busy no other task is alone.
LEMMA OnlyAlone ==
  ASSUME NEW t \in Tasks, Busy(t), AloneInv
  PROVE  /\ \A u \in Tasks : alone[u] => u = t
         /\ alone[t] => \A u \in Tasks \ {t} : Idle(u)
BY DEF AloneInv, Busy, Idle

LEMMA PlacesKept ==
  ASSUME NEW t \in Tasks, SInv, StationStep(t)
  PROVE  PlaceInv'
<1> USE DEF SInv
<1>1. /\ UNCHANGED <<cmd, alone, from>> /\ Busy(t) /\ pc'[t] # "step"
      /\ \A u \in Tasks : alone[u] => u = t
  BY TypesKept, Places, OnlyAlone
<1>2. \A u \in Tasks \ {t} : PlaceOf(u)'
  BY <1>1 DEF PlaceOf
<1>3. PlaceOf(t)'
  <2>1. PlaceOf(t)
    BY DEF PlaceInv
  <2> USE DEF Goto, StationsTypeOK
  <2>2. CASE Step(t)
    <3>1. alone[t] => from[t] = current
      BY <2>1, <2>2 DEF Step, PlaceOf
    <3>2. /\ alone'[t] = alone[t] /\ cmd'[t] = cmd[t] /\ from'[t] = from[t]
          /\ pc'[t] \in {"idle", "got"}
      BY <1>1, <2>2 DEF Step
    <3>3. pc'[t] = "got" /\ from[t] = current => Stepped(t)'
      <4>1. cmd[t] \in Stepping
        BY <2>2 DEF CommandInv, Step
      <4>2. pc'[t] = "got" => /\ cmd[t] = CliNext \/ current > 0
                             /\ current' = IF cmd[t] = CliNext THEN After(current) ELSE current - 1
        BY <2>2 DEF Step
      <4> QED
        BY <4>1, <4>2, <3>2 DEF Stepped, Stepping, After
    <3> QED
      BY <3>1, <3>2, <3>3 DEF PlaceOf
  <2>3. CASE Got(t)
    BY <2>3 DEF Got, PlaceOf
  <2>4. CASE Play(t)
    <3>1. id[t] \in 0..WORD - 1
      OBVIOUS
    <3>2. si'[t] = None \/ si'[t] = Number(id[t])
      BY <2>4, <3>1, GotStation DEF Play
    <3> QED
      BY <2>4, <3>2 DEF Play, PlaceOf, Number
  <2>5. CASE SetTarget(t)
    BY <2>5 DEF SetTarget, PlaceOf
  <2>6. CASE Tell(t)
    BY <2>6 DEF Tell, PlaceOf
  <2> QED
    BY <2>2, <2>3, <2>4, <2>5, <2>6 DEF StationStep
<1> QED
  BY <1>2, <1>3 DEF PlaceInv

LEMMA SureKept ==
  ASSUME NEW t \in Tasks, SInv, StationStep(t)
  PROVE  SureInv'
<1> USE DEF SInv
<1>1. /\ UNCHANGED <<blank, cmd, alone, from>> /\ Busy(t)
      /\ pc' = [pc EXCEPT ![t] = pc'[t]]
      /\ alone[t] => \A u \in Tasks \ {t} : Idle(u)
      /\ pc \in [Tasks -> {"idle", "step", "got", "play", "set", "tell"}]
  BY TypesKept, Places, OnlyAlone DEF StationsTypeOK
<1>2. SUFFICES ASSUME sure'
               PROVE  /\ alone[t]
                      /\ pc'[t] = "got" => Matches(from[t])'
                      /\ pc'[t] \in {"idle", "step", "tell"} => Matches(current)'
  BY <1>1 DEF SureInv, Busy, Idle
<1>3. sure => /\ alone[t]
              /\ pc[t] \in {"step", "tell"} => Matches(current)
              /\ pc[t] = "got" => Matches(from[t])
  BY <1>1 DEF SureInv, Busy, Idle
<1>9. alone[t] => /\ pc[t] = "step" => from[t] = current
                  /\ pc[t] = "got" => Stepped(t)
                  /\ pc[t] = "set" /\ cmd[t] # Retarget => si[t] = Number(current)
  BY DEF PlaceInv, PlaceOf
<1> USE DEF Goto, StationsTypeOK
<1>4. CASE Step(t)
  <2>1. sure /\ target' = target /\ pc[t] = "step"
    BY <1>2, <1>4 DEF Step
  <2>2. from[t] = current
    BY <1>3, <1>9, <2>1
  <2>3. Matches(current)
    BY <1>3, <2>1
  <2> QED
    BY <1>1, <1>3, <1>4, <2>1, <2>2, <2>3 DEF Step, Matches, Number
<1>5. CASE Got(t)
  <2>1. sure /\ target' = target /\ pc[t] = "got" /\ pc'[t] \in {"play", "tell"}
    BY <1>2, <1>5 DEF Got, hist
  <2>2. pc'[t] = "tell" => current' = Back(t)
    BY <1>5 DEF Got
  <2>3. Stepped(t)
    BY <1>3, <1>9, <2>1
  <2>4. Back(t) = from[t] \/ Number(Back(t)) \notin List
    BY <2>3, BackFacts
  <2>5. Matches(Back(t))
    BY <2>1, <2>4, <1>3 DEF Matches
  <2> QED
    BY <1>1, <1>3, <2>1, <2>2, <2>5 DEF Matches, Number
<1>6. CASE Play(t)
  <2>1. id[t] \in 0..WORD - 1
    OBVIOUS
  <2>2. ~short' => (Number(id[t]) \in List => si'[t] = Number(id[t]))
    BY <1>6, <2>1, GotStation DEF Play
  <2>3. sure /\ ~short' /\ current' = id[t]
    BY <1>2, <1>6 DEF Play
  <2>4. pc'[t] = IF si'[t] # None THEN "set" ELSE IF cmd[t] \in Plays THEN "idle" ELSE "tell"
    BY <1>6 DEF Play
  <2>5. pc'[t] \in {"idle", "step", "tell"} => Number(id[t]) \notin List
    BY <2>2, <2>3, <2>4, NoneBesides
  <2> QED
    BY <1>1, <1>3, <2>3, <2>4, <2>5 DEF Matches, Number
<1>7. CASE SetTarget(t)
  <2>1. /\ alone[t] /\ cmd[t] # Retarget /\ current' = current /\ pc[t] = "set"
        /\ target' = IF si[t] \in blank THEN Other ELSE si[t]
    BY <1>2, <1>7 DEF SetTarget
  <2>2. si[t] = Number(current)
    BY <1>9, <2>1
  <2> QED
    BY <1>1, <1>7, <2>1, <2>2 DEF SetTarget, Matches, Number
<1>8. CASE Tell(t)
  <2>1. sure /\ UNCHANGED <<target, current>> /\ pc[t] = "tell" /\ pc'[t] = "idle"
    BY <1>2, <1>8 DEF Tell
  <2> QED
    BY <1>1, <1>3, <2>1 DEF Matches
<1> QED
  BY <1>4, <1>5, <1>6, <1>7, <1>8 DEF StationStep

\* Of the steps of a command that is alone.
LEMMA NeighbourKept ==
  ASSUME NEW t \in Tasks, SInv, StationStep(t)
  PROVE  NeighbourInv'
<1> USE DEF SInv
<1>1. /\ UNCHANGED <<recorded, cmd, alone, from>> /\ Busy(t)
      /\ pc' = [pc EXCEPT ![t] = pc'[t]] /\ pc'[t] # "step"
      /\ pc \in [Tasks -> {"idle", "step", "got", "play", "set", "tell"}]
      /\ alone[Cli] => t = Cli
      /\ alone[t] => \A u \in Tasks \ {t} : Idle(u)
      /\ Cli \in Tasks
  BY TypesKept, Places, OnlyAlone DEF StationsTypeOK, Tasks
<1>2. ~told
  BY <1>1 DEF NeighbourInv, AtRest, Idle, Busy
<1>3. Neighbour' = Neighbour
  BY <1>1 DEF Neighbour
<1>4. short => short'
  <2>1. id[t] \in 0..WORD - 1 /\ current \in 0..WORD - 1
    BY DEF StationsTypeOK
  <2> QED
    BY DEF StationStep, Step, Got, Play, SetTarget, Tell, getStation, hist
<1>5. ASSUME alone[Cli], ~short', from[Cli] \in List, cmd[Cli] \in Stepping
      PROVE  /\ pc'[Cli] = "got" => si'[Cli] = current' /\ current' = Neighbour
             /\ pc'[Cli] = "play" => id'[Cli] = current'
             /\ pc'[Cli] \in {"play", "set"} => current' = Neighbour /\ current' \in recorded
             /\ pc'[Cli] = "tell" => Selected'
  <2>1. t = Cli /\ ~short
    BY <1>1, <1>4, <1>5
  <2>2. /\ pc[Cli] = "got" => si[Cli] = current /\ current = Neighbour
        /\ pc[Cli] = "play" => id[Cli] = current
        /\ pc[Cli] \in {"play", "set"} => current = Neighbour /\ current \in recorded
    BY <1>5, <2>1 DEF NeighbourInv
  <2>3. /\ pc[Cli] = "step" => from[Cli] = current
        /\ pc[Cli] = "got" => Stepped(Cli)
    BY <1>1, <1>5 DEF PlaceInv, PlaceOf
  <2>4. cmd[Cli] = CliNext \/ (cmd[Cli] = CliPrev /\ cmd[Cli] # CliNext)
    BY <1>5 DEF Stepping, CliNext, CliPrev
  <2>5. cmd[Cli] \notin Plays
    BY <2>4, StationsAssumption DEF CliNext, CliPrev, Plays, Retarget
  <2> USE DEF Goto, StationsTypeOK
  <2>6. CASE Step(Cli) /\ pc'[Cli] # "idle"
    <3>1. /\ pc[Cli] = "step" /\ pc'[Cli] = "got"
          /\ cmd[Cli] = CliNext \/ current > 0
          /\ current' = IF cmd[Cli] = CliNext THEN After(current) ELSE current - 1
          /\ getStation(Cli, current')
      BY <2>6, <1>1 DEF Step
    <3>2. current = from[Cli]
      BY <2>3, <3>1
    <3>3. current' \in List /\ current' = Neighbour
      BY <3>1, <3>2, <1>5, <2>4, AfterFacts, NextFacts, Widths DEF Neighbour, List
    <3>4. current' \in 0..BYTE - 1 /\ current' \in 0..WORD - 1
      BY <3>3, NoneBesides, Widths
    <3>5. Number(current') = current'
      BY <3>4, NumberFacts
    <3>6. si'[Cli] = current'
      BY <3>1, <3>3, <3>4, <3>5, <1>1, <1>5, GotStation
    <3> QED
      BY <3>1, <3>3, <3>6
  <2>7. CASE Got(Cli) /\ pc'[Cli] = "play"
    BY <2>7, <2>2, <1>1 DEF Got
  <2>8. CASE Got(Cli) /\ pc'[Cli] = "tell"
    <3>1. pc[Cli] = "got" /\ si[Cli] \notin recorded /\ current' = Back(Cli)
      BY <2>8, <1>1 DEF Got
    <3>2. Stepped(Cli) /\ current \notin recorded /\ current = Neighbour
      BY <3>1, <2>2, <2>3
    <3>3. current' = IF cmd[Cli] = CliNext /\ Neighbour = 0 THEN WORD - 1 ELSE from[Cli]
      BY <3>1, <3>2, <1>1, BackFacts
    <3> QED
      BY <2>8, <3>2, <3>3, <1>1, <1>3 DEF Selected
  <2>9. CASE Play(Cli)
    <3>1. current = id[Cli] /\ current = Neighbour /\ current \in recorded /\ current' = current
      BY <2>9, <2>2 DEF Play
    <3>2. current \in List /\ current \in 0..BYTE - 1 /\ current \in 0..WORD - 1
      BY <3>1, NoneBesides
    <3>3. Number(current) = current
      BY <3>2, NumberFacts
    <3>4. si'[Cli] = current
      BY <2>9, <3>1, <3>2, <3>3, <1>1, <1>5, GotStation DEF Play
    <3>5. pc'[Cli] = "set"
      BY <2>9, <3>4, <3>2, <1>1, NoneBesides DEF Play
    <3> QED
      BY <3>1, <3>5, <1>1
  <2>10. CASE SetTarget(Cli)
    <3>1. pc[Cli] = "set" /\ pc'[Cli] = "tell" /\ current' = current
      BY <2>10, <2>5, <1>1 DEF SetTarget
    <3> QED
      BY <3>1, <2>2, <1>1, <1>3 DEF Selected
  <2>11. CASE Tell(Cli) \/ pc'[Cli] = "idle"
    BY <2>11, <1>1 DEF Tell
  <2>12. Got(Cli) => pc'[Cli] \in {"play", "tell"}
    BY <1>1 DEF Got
  <2> QED
    BY <2>1, <2>6, <2>7, <2>8, <2>9, <2>10, <2>11, <2>12 DEF StationStep
<1>6. ASSUME told'
      PROVE  AtRest' /\ shown' = current' /\ (~short' /\ from'[Cli] \in List => Selected')
  <2>1. Tell(t)
    BY <1>2, <1>6 DEF StationStep, Step, Got, Play, SetTarget, hist
  <2>2. alone[t] /\ shown' = current /\ pc'[t] = "idle" /\ pc[t] = "tell"
        /\ UNCHANGED <<current, short>>
    BY <2>1, <1>6, <1>1 DEF Tell, Goto
  <2>3. t = Cli
    <3>1. cmd[t] \in Stepping
      BY <2>2 DEF CommandInv
    <3>2. cmd[t] \notin Plays
      BY <3>1, StationsAssumption DEF Stepping, CliNext, CliPrev, Plays, Retarget
    <3> QED
      BY <3>2, <1>1 DEF CommandInv, Tasks
  <2>4. AtRest'
    BY <1>1, <2>2 DEF AtRest, Idle
  <2>5. cmd[Cli] \in Stepping
    BY <2>2, <2>3 DEF CommandInv
  <2>6. ~short /\ from[Cli] \in List => Selected
    BY <2>2, <2>3, <2>5 DEF NeighbourInv
  <2> QED
    BY <2>2, <2>4, <2>6, <1>1, <1>3 DEF Selected
<1> QED
  BY <1>1, <1>3, <1>5, <1>6 DEF NeighbourInv

LEMMA MovesSInv == SInv /\ Moves => SInv'
<1> SUFFICES ASSUME SInv, Moves PROVE SInv'
  OBVIOUS
<1>1. ASSUME NEW t \in Tasks, NEW c \in Commands, t \in Web => c \in Plays, Begin(t, c)
      PROVE  SInv'
  BY <1>1, BeginStation
<1>2. ASSUME NEW t \in Tasks, StationStep(t)
      PROVE  SInv'
  BY <1>2, TypesKept, OrderKept, PlacesKept, SureKept, NeighbourKept DEF SInv
<1>3. CASE UNCHANGED chosen
  <2> USE <1>3 DEF SInv, chosen, work, hist
  <2>1. StationsTypeOK'
    BY DEF StationsTypeOK
  <2>2. CommandInv' /\ AloneInv'
    BY DEF CommandInv, AloneInv, Idle, Busy
  <2>3. PlaceInv'
    BY DEF PlaceInv, PlaceOf, Stepped
  <2>4. SureInv'
    BY DEF SureInv, Busy, Matches
  <2>5. NeighbourInv'
    BY DEF NeighbourInv, AtRest, Idle, Selected, Neighbour
  <2> QED
    BY <2>1, <2>2, <2>3, <2>4, <2>5
<1> QED
  BY <1>1, <1>2, <1>3 DEF Moves

\* What the properties say follows.
LEMMA SInvProperties == SInv => CurrentIsPlayed /\ NeighbourSelected
<1> SUFFICES ASSUME SInv PROVE CurrentIsPlayed /\ NeighbourSelected
  OBVIOUS
<1>1. CurrentIsPlayed
  BY DEF SInv, SureInv, CurrentIsPlayed, AtRest, Idle, Matches
<1>2. NeighbourSelected
  BY DEF SInv, NeighbourInv, NeighbourSelected, Selected, Neighbour
<1> QED
  BY <1>1, <1>2

-----------------------------------------------------------------------------
(* The line: the invariant *)

\* The character that is typed next.
NextChar ==
    IF at = 0 THEN <<Len(typed) + 1, 1>>
              ELSE <<Len(typed), IF at > typed[Len(typed)].len THEN 0 ELSE at>>

\* The characters that are still to be read.
Coming == Append(uart_rx_queue, NextChar)
Turns == 1..Len(Coming)

\* c is typed before d.
Before(c, d) == \/ c[1] < d[1]
                \/ c[1] = d[1] /\ c[2] # 0 /\ (d[2] = 0 \/ c[2] < d[2])

OrderInv ==
    /\ \A i, j \in Turns : i < j => Before(Coming[i], Coming[j])
    /\ \A i \in 0..LINE - 1, j \in Turns : Before(tmp[i], Coming[j])

LengthInv ==
    \A j \in Turns : Coming[j][1] <= Len(typed) => Coming[j][2] <= typed[Coming[j][1]].len

OnceInv ==
    \A l \in 1..TYPED :
        /\ ran[l] <= 1
        /\ ran[l] = 1 => /\ \A j \in Turns : Before(<<l, 1>>, Coming[j])
                         /\ \A i \in 0..LINE - 1 : tmp[i] # <<l, 1>>

\* What is typed before c.
Pred(c) == IF c[2] = 1 THEN <<c[1] - 1, 0>>
           ELSE <<c[1], IF c[2] = 0 THEN typed[c[1]].len ELSE c[2] - 1>>

\* tmp holds what is typed of a line up to c, if the line fits.
Holds(c) ==
    IF c[2] = 0 THEN n = 0
    ELSE typed[c[1]].len < LINE => n = c[2] /\ \A i \in 0..n - 1 : tmp[i] = <<c[1], i + 1>>

FollowInv ==
    \A j \in Turns : Coming[j][1] \notin hurt =>
        IF j = 1 THEN Holds(Pred(Coming[1])) ELSE Coming[j - 1] = Pred(Coming[j])

LInv == OrderInv /\ LengthInv /\ OnceInv /\ FollowInv /\ LinesAreRun

LEMMA LineFacts ==
  /\ \A l \in Lines : l.len \in Nat \ {0} /\ l.cmd \in Commands
  /\ \A l \in 1..Len(typed) : typed \in Seq(Lines) => typed[l].len \in Nat \ {0} /\ typed[l].cmd \in Commands
<1>1. \A l \in Lines : l.len \in Nat \ {0} /\ l.cmd \in Commands
  BY ConsoleAssumption
<1>2. ASSUME NEW l \in 1..Len(typed), typed \in Seq(Lines) PROVE typed[l] \in Lines
  BY <1>2, ElementOfSeq
<1> QED
  BY <1>1, <1>2

\* Places of Coming; its last character is the one that is typed next.
LEMMA ComingFacts ==
  ASSUME TypeOK
  PROVE  /\ Len(uart_rx_queue) \in Nat
         /\ NextChar \in (1..TYPED + 1) \X Nat
         /\ Coming \in Seq((1..TYPED + 1) \X Nat)
         /\ Len(Coming) = Len(uart_rx_queue) + 1
         /\ \A j \in 1..Len(uart_rx_queue) : Coming[j] = uart_rx_queue[j] /\ Coming[j] \in Chars
         /\ Coming[Len(Coming)] = NextChar
<1> DEFINE C == (1..TYPED + 1) \X Nat
<1>1. TYPED \in Nat /\ Chars \subseteq C
  BY ConsoleAssumption DEF Chars
<1>2. typed \in Seq(Lines) /\ Len(typed) \in Nat /\ Len(typed) <= TYPED
  BY LenProperties DEF TypeOK
<1>3. NextChar \in C
  <2>1. CASE at = 0
    BY <2>1, <1>1, <1>2 DEF NextChar
  <2>2. CASE at # 0
    <3>1. at \in Nat /\ typed # <<>>
      <4>1. typed # <<>> /\ at \in 1..typed[Len(typed)].len + 1
        BY <2>2 DEF TypeOK
      <4> QED
        BY <4>1
    <3>2. Len(typed) \in 1..TYPED
      BY <3>1, <1>2, EmptySeq
    <3> QED
      BY <2>2, <3>1, <3>2, <1>1 DEF NextChar
  <2> QED
    BY <2>1, <2>2
<1>4. uart_rx_queue \in Seq(C) /\ uart_rx_queue \in Seq(Chars)
  BY <1>1, SeqMonotonic DEF TypeOK
<1>5. Len(uart_rx_queue) \in Nat
  BY <1>4, LenProperties
<1>6. \A j \in 1..Len(uart_rx_queue) : uart_rx_queue[j] \in Chars
  BY <1>4, ElementOfSeq
<1> HIDE DEF C
<1>7. /\ Coming \in Seq(C) /\ Len(Coming) = Len(uart_rx_queue) + 1
      /\ \A j \in 1..Len(uart_rx_queue) : Coming[j] = uart_rx_queue[j]
      /\ Coming[Len(uart_rx_queue) + 1] = NextChar
  BY <1>3, <1>4, AppendProperties DEF Coming
<1> QED
  BY <1>3, <1>5, <1>6, <1>7 DEF C

\* The next character of a line, and that no line is begun twice.
LEMMA Typed ==
  ASSUME TypeOK
  PROVE  /\ typed \in Seq(Lines) /\ Len(typed) \in 0..TYPED
         /\ at # 0 => Len(typed) \in 1..TYPED /\ at \in 1..typed[Len(typed)].len + 1
         /\ \A l \in 1..Len(typed) : typed[l].len \in Nat \ {0} /\ typed[l].cmd \in Commands
<1>1. typed \in Seq(Lines) /\ Len(typed) \in Nat /\ Len(typed) <= TYPED
  BY LenProperties DEF TypeOK
<1>2. at # 0 => typed # <<>> /\ at \in 1..typed[Len(typed)].len + 1
  BY DEF TypeOK
<1>3. typed # <<>> => Len(typed) > 0
  BY <1>1, EmptySeq
<1> QED
  BY <1>1, <1>2, <1>3, LineFacts, ConsoleAssumption

-----------------------------------------------------------------------------
(* The line: the characters that come *)

CharType == (1..TYPED + 1) \X Nat

\* The order in which they are typed.
LEMMA OrderFacts ==
  ASSUME NEW c \in (0..TYPED + 1) \X Nat, NEW d \in CharType
  PROVE  /\ ~Before(d, d)
         /\ Before(<<0, 0>>, d)
         /\ \A e \in CharType : Before(c, d) /\ Before(d, e) => Before(c, e)
BY ConsoleAssumption DEF Before, CharType

LEMMA Older ==
  ASSUME NEW c \in CharType, NEW m \in Nat, Before(c, <<m + 1, 1>>)
  PROVE  c[1] <= m
BY ConsoleAssumption DEF Before, CharType

\* A character is read.
LEMMA Popped ==
  ASSUME TypeOK, uart_rx_queue # <<>>, uart_rx_queue' = Tail(uart_rx_queue), UNCHANGED keyboard
  PROVE  /\ Head(uart_rx_queue) = Coming[1] /\ Coming[1] \in Chars /\ 1 \in Turns
         /\ uart_rx_queue' \in Seq(Chars) /\ Len(uart_rx_queue') \in Nat
         /\ Len(uart_rx_queue') <= QUEUE
         /\ \A i \in 1..Len(uart_rx_queue) :
              i = 1 \/ (i - 1 \in 1..Len(uart_rx_queue') /\ uart_rx_queue'[i - 1] = uart_rx_queue[i])
         /\ Turns' = 1..Len(uart_rx_queue)
         /\ \A j \in Turns' : j \in Turns /\ j + 1 \in Turns /\ Coming'[j] = Coming[j + 1]
<1>1. uart_rx_queue \in Seq(Chars) /\ Len(uart_rx_queue) <= QUEUE /\ QUEUE \in Nat
  BY ConsoleAssumption DEF TypeOK
<1>2. /\ uart_rx_queue' \in Seq(Chars)
      /\ Len(uart_rx_queue') = Len(uart_rx_queue) - 1
      /\ \A i \in 1..Len(uart_rx_queue') : uart_rx_queue'[i] = uart_rx_queue[i + 1]
  BY <1>1, HeadTailProperties
<1>3. Len(uart_rx_queue) \in Nat \ {0}
  BY <1>1, EmptySeq
<1>4. Head(uart_rx_queue) = uart_rx_queue[1]
  BY <1>1
<1>5. NextChar' = NextChar
  BY DEF NextChar, keyboard
<1>6. Chars \subseteq CharType /\ NextChar \in CharType
  BY ComingFacts, ConsoleAssumption DEF Chars, CharType
<1>7. /\ Len(Coming') = Len(uart_rx_queue') + 1
      /\ \A j \in 1..Len(uart_rx_queue') : Coming'[j] = uart_rx_queue'[j]
      /\ Coming'[Len(uart_rx_queue') + 1] = NextChar
  BY <1>2, <1>5, <1>6, SeqMonotonic, AppendProperties DEF Coming
<1>8. /\ Len(Coming) = Len(uart_rx_queue) + 1
      /\ \A j \in 1..Len(uart_rx_queue) : Coming[j] = uart_rx_queue[j] /\ Coming[j] \in Chars
      /\ Coming[Len(uart_rx_queue) + 1] = NextChar
  BY ComingFacts
<1>9. Turns = 1..Len(uart_rx_queue) + 1 /\ Turns' = 1..Len(uart_rx_queue)
  BY <1>2, <1>3, <1>7, <1>8 DEF Turns
<1>10. ASSUME NEW j \in 1..Len(uart_rx_queue)
       PROVE  Coming'[j] = Coming[j + 1]
  <2>1. CASE j = Len(uart_rx_queue)
    BY <2>1, <1>2, <1>3, <1>7, <1>8
  <2>2. CASE j # Len(uart_rx_queue)
    <3>1. j \in 1..Len(uart_rx_queue') /\ j + 1 \in 1..Len(uart_rx_queue)
      <4> DEFINE a == Len(uart_rx_queue)  b == Len(uart_rx_queue')
      <4>1. a \in Nat /\ b = a - 1 /\ j \in 1..a /\ j # a
        BY <2>2, <1>2, <1>3
      <4> HIDE DEF a, b
      <4>2. j \in 1..b /\ j + 1 \in 1..a
        BY <4>1
      <4> QED
        BY <4>2 DEF a, b
    <3> QED
      BY <3>1, <1>2, <1>7, <1>8
  <2> QED
    BY <2>1, <2>2
<1>11. ASSUME NEW i \in 1..Len(uart_rx_queue), i # 1
       PROVE  i - 1 \in 1..Len(uart_rx_queue') /\ uart_rx_queue'[i - 1] = uart_rx_queue[i]
  <2> DEFINE a == Len(uart_rx_queue)  b == Len(uart_rx_queue')
  <2>1. a \in Nat /\ b = a - 1 /\ i \in 1..a /\ \A k \in 1..b : uart_rx_queue'[k] = uart_rx_queue[k + 1]
    BY <1>2, <1>3, <1>11
  <2> HIDE DEF a, b
  <2>2. i - 1 \in 1..b /\ (i - 1) + 1 = i
    BY <2>1, <1>11
  <2>3. uart_rx_queue'[i - 1] = uart_rx_queue[(i - 1) + 1]
    BY <2>1, <2>2
  <2> QED
    BY <2>2, <2>3 DEF b
<1> QED
  BY <1>1, <1>2, <1>3, <1>4, <1>8, <1>9, <1>10, <1>11

\* The line of a character in the queue was begun.
LEMMA QueuedLine ==
  ASSUME TypeOK, OrderInv, NEW j \in 1..Len(uart_rx_queue)
  PROVE  Coming[j][1] \in 1..Len(typed)
<1>1. /\ Coming[j] \in Chars /\ Chars \subseteq CharType /\ Len(typed) \in Nat
      /\ j \in Turns /\ Len(Coming) \in Turns /\ j < Len(Coming) /\ Coming[Len(Coming)] = NextChar
  <2>1. Chars \subseteq CharType
    BY ConsoleAssumption DEF Chars, CharType
  <2>2. Len(Coming) = Len(uart_rx_queue) + 1 /\ Len(uart_rx_queue) \in Nat
    BY ComingFacts
  <2>3. j \in Turns /\ Len(Coming) \in Turns /\ j < Len(Coming)
    BY <2>2 DEF Turns
  <2>4. Len(typed) \in Nat
    BY Typed
  <2> QED
    BY <2>1, <2>3, <2>4, ComingFacts
<1>2. Before(Coming[j], NextChar)
  BY <1>1 DEF OrderInv
<1>3. CASE at = 0
  BY <1>1, <1>2, <1>3, Older DEF NextChar, Chars
<1>4. CASE at # 0
  BY <1>1, <1>2, <1>4 DEF NextChar, Chars, Before
<1> QED
  BY <1>3, <1>4

\* A character is typed, and comes after all others.
LEMMA Struck ==
  ASSUME TypeOK, uart_isr
  PROVE  /\ NextChar' \in CharType /\ Before(NextChar, NextChar')
         /\ Pred(NextChar') = NextChar
         /\ NextChar[1] = Len(typed)
         /\ NextChar'[1] = IF at' = 0 THEN Len(typed) + 1 ELSE Len(typed)
         /\ at' # 0 => at' \in 1..typed[Len(typed)].len + 1
         /\ at' # 0 => NextChar'[2] <= typed[Len(typed)].len
         /\ at' = 0 => NextChar = <<Len(typed), 0>>
         /\ typed' = typed
         /\ \/ uart_rx_queue' = Append(uart_rx_queue, NextChar) /\ hurt' = hurt
                /\ Len(uart_rx_queue) < QUEUE
            \/ uart_rx_queue' = uart_rx_queue
                /\ hurt' = hurt \cup {Len(typed)} \cup (IF at' = 0 THEN {Len(typed) + 1} ELSE {})
<1> DEFINE l == Len(typed)
           k == typed[l].len
<1>1. at > 0 /\ typed' = typed /\ at' = IF at > k THEN 0 ELSE at + 1
  BY DEF uart_isr
<1>2. l \in 1..TYPED /\ at \in 1..k + 1 /\ k \in Nat \ {0} /\ TYPED \in Nat
  BY <1>1, Typed, ConsoleAssumption
<1>3. NextChar = <<l, IF at > k THEN 0 ELSE at>>
  BY <1>1 DEF NextChar
<1>4. NextChar' = IF at > k THEN <<l + 1, 1>> ELSE <<l, IF at + 1 > k THEN 0 ELSE at + 1>>
  BY <1>1, <1>2 DEF NextChar
<1>5. \/ uart_rx_queue' = Append(uart_rx_queue, NextChar) /\ hurt' = hurt
          /\ Len(uart_rx_queue) < QUEUE
      \/ uart_rx_queue' = uart_rx_queue
          /\ hurt' = hurt \cup {l} \cup (IF at > k THEN {l + 1} ELSE {})
  BY <1>3 DEF uart_isr
<1> HIDE DEF l, k
<1>6. at' = 0 <=> at > k
  BY <1>1, <1>2
<1>7. CASE at > k
  <2>1. NextChar = <<l, 0>> /\ NextChar' = <<l + 1, 1>> /\ at' = 0
    BY <1>1, <1>3, <1>4, <1>7
  <2> QED
    BY <2>1, <1>1, <1>2, <1>5, <1>7 DEF l, CharType, Before, Pred
<1>8. CASE at <= k
  <2>1. NextChar = <<l, at>> /\ at' = at + 1
        /\ NextChar' = <<l, IF at + 1 > k THEN 0 ELSE at + 1>>
    BY <1>1, <1>2, <1>3, <1>4, <1>8
  <2>2. at + 1 > k => at = k
    BY <1>2, <1>8
  <2>3. Pred(NextChar') = NextChar
    BY <2>1, <2>2, <1>2 DEF Pred, k, l
  <2>4. NextChar' \in CharType /\ Before(NextChar, NextChar')
    BY <2>1, <1>2 DEF CharType, Before
  <2>5. at' \in 1..k + 1 /\ NextChar'[2] <= k /\ at' # 0 /\ ~(at > k)
    BY <2>1, <1>2, <1>8
  <2> QED
    BY <2>1, <2>3, <2>4, <2>5, <1>1, <1>5 DEF l, k
<1> QED
  BY <1>2, <1>7, <1>8

-----------------------------------------------------------------------------
(* The line: the steps *)

\* TypeOK but for the stations.
LineTypeOK ==
    /\ typed \in Seq(Lines) /\ Len(typed) <= TYPED
    /\ at = 0 \/ (typed # <<>> /\ at \in 1..typed[Len(typed)].len + 1)
    /\ uart_rx_queue \in Seq(Chars) /\ Len(uart_rx_queue) <= QUEUE
    /\ tmp \in [0..LINE - 1 -> Chars \cup {<<0, 0>>}] /\ n \in 0..LINE - 1
    /\ ran \in [1..TYPED -> Nat] /\ hurt \subseteq 1..TYPED + 1

LEMMA LineSizes ==
  /\ LINE \in Nat \ {0} /\ QUEUE \in Nat \ {0} /\ TYPED \in Nat
  /\ 0 \in 0..LINE - 1
  /\ \A i \in 0..LINE - 1 : /\ (i + 1) % LINE \in 0..LINE - 1
                            /\ i + 1 < LINE => (i + 1) % LINE = i + 1
<1> DEFINE w == LINE
<1>1. w \in Nat \ {0}
  BY ConsoleAssumption
<1> HIDE DEF w
<1>2. \A i \in 0..w - 1 : (i + 1) % w \in 0..w - 1 /\ (i + 1 < w => (i + 1) % w = i + 1)
  BY <1>1
<1> QED
  BY <1>1, <1>2, ConsoleAssumption DEF w

LEMMA InitLine == Init => LineTypeOK /\ LInv
<1> SUFFICES ASSUME Init PROVE LineTypeOK /\ LInv
  OBVIOUS
<1> USE DEF Init
<1>1. LineTypeOK
  <2>1. typed \in Seq(Lines) /\ Len(typed) = 0 /\ uart_rx_queue \in Seq(Chars) /\ Len(uart_rx_queue) = 0
    BY EmptySeq
  <2>2. tmp \in [0..LINE - 1 -> Chars \cup {<<0, 0>>}]
    BY DEF Blank
  <2> QED
    BY <2>1, <2>2, LineSizes DEF LineTypeOK
<1>2. NextChar = <<1, 1>> /\ Coming = <<<<1, 1>>>> /\ Len(typed) = 0
  BY DEF NextChar, Coming
<1>3. Turns = {1} /\ Coming[1] = <<1, 1>>
  BY <1>2 DEF Turns
<1>4. OrderInv
  BY <1>3, LineSizes DEF OrderInv, Before, Blank
<1>5. LengthInv /\ LinesAreRun
  BY <1>2, <1>3 DEF LengthInv, LinesAreRun
<1>6. OnceInv
  BY DEF OnceInv
<1>7. FollowInv
  BY <1>3 DEF FollowInv, Pred, Holds
<1> QED
  BY <1>1, <1>4, <1>5, <1>6, <1>7 DEF LInv

LEMMA BeginLineStep ==
  ASSUME TypeOK, LInv, BeginLine
  PROVE  LineTypeOK' /\ LInv'
<1> USE DEF LInv
<1>1. PICK l \in Lines : typed' = Append(typed, l)
  BY DEF BeginLine
<1>2. /\ at = 0 /\ at' = 1 /\ Len(typed) < TYPED
      /\ UNCHANGED <<uart_rx_queue, tmp, n, ran, hurt>>
  BY DEF BeginLine
<1>3. l.len \in Nat \ {0} /\ typed \in Seq(Lines) /\ Len(typed) \in Nat
  BY Typed, LineFacts, ConsoleAssumption
<1>4. /\ typed' \in Seq(Lines) /\ Len(typed') = Len(typed) + 1 /\ typed' # <<>>
      /\ \A i \in 1..Len(typed) : typed'[i] = typed[i]
      /\ typed'[Len(typed) + 1] = l
  BY <1>1, <1>3, AppendProperties
<1>5. LineTypeOK'
  <2>1. 1 \in 1..l.len + 1 /\ Len(typed) + 1 <= TYPED
    BY <1>2, <1>3, LineSizes
  <2> QED
    BY <1>2, <1>4, <2>1 DEF TypeOK, LineTypeOK
<1>6. NextChar' = NextChar /\ NextChar = <<Len(typed) + 1, 1>>
  BY <1>2, <1>3, <1>4 DEF NextChar
<1>7. Coming' = Coming /\ Turns' = Turns
  BY <1>2, <1>6 DEF Coming, Turns
<1>8. \A j \in Turns : Coming[j] \in CharType /\ (Coming[j][1] <= Len(typed) \/ Coming[j] = NextChar)
  <2>1. ASSUME NEW j \in Turns, Coming[j] # NextChar
        PROVE  Coming[j] \in Chars /\ Before(Coming[j], NextChar)
    <3>1. j \in 1..Len(uart_rx_queue) /\ Len(Coming) \in Turns /\ j < Len(Coming)
      BY <2>1, ComingFacts DEF Turns
    <3> QED
      BY <3>1, ComingFacts DEF OrderInv
  <2>2. Chars \subseteq CharType /\ NextChar \in CharType
    BY ComingFacts, LineSizes DEF Chars, CharType
  <2> QED
    BY <2>1, <2>2, <1>3, <1>6, Older
<1>9. OrderInv' /\ OnceInv'
  BY <1>2, <1>7 DEF OrderInv, OnceInv
<1>10. LengthInv'
  BY <1>2, <1>3, <1>4, <1>6, <1>7, <1>8 DEF LengthInv, CharType
<1>11. FollowInv'
  <2>1. ASSUME NEW j \in Turns PROVE Pred(Coming[j])' = Pred(Coming[j])
    <3>1. Coming'[j] = Coming[j]
      BY <1>7
    <3>2. Coming[j][2] = 1 \/ Coming[j][1] \in 1..Len(typed)
      BY <1>3, <1>6, <1>8 DEF CharType
    <3> QED
      BY <3>1, <3>2, <1>4 DEF Pred
  <2>2. Holds(Pred(Coming[1]))' = Holds(Pred(Coming[1]))
    <3>1. 1 \in Turns
      BY ComingFacts DEF Turns
    <3>2. Coming[1] \in CharType /\ (Coming[1][1] <= Len(typed) \/ Coming[1] = NextChar)
      BY <3>1, <1>8
    <3>3. Pred(Coming[1])[2] # 0 => Pred(Coming[1])[1] \in 1..Len(typed)
      BY <3>2, <1>3, <1>6 DEF Pred, CharType
    <3>4. Pred(Coming[1])' = Pred(Coming[1])
      BY <2>1, <3>1
    <3> QED
      BY <3>3, <3>4, <1>2, <1>4 DEF Holds
  <2> QED
    BY <2>1, <2>2, <1>2, <1>7 DEF FollowInv
<1>12. LinesAreRun'
  <2>1. Len(typed') \in 1..TYPED /\ \A i \in 1..Len(typed) : i \in 1..TYPED
    BY <1>2, <1>3, <1>4, LineSizes
  <2>2. ASSUME NEW i \in 1..Len(typed)
        PROVE  typed'[i].len < LINE /\ i \notin hurt => ran[i] = 1 \/ \E j \in 1..Len(uart_rx_queue) : uart_rx_queue[j] = <<i, 0>>
    BY <2>2, <1>2, <1>4 DEF LinesAreRun
  <2>3. \A i \in 1..Len(typed') : i \in 1..TYPED /\ (i < Len(typed') => i \in 1..Len(typed))
    BY <2>1, <1>2, <1>3, <1>4
  <2>4. \A i \in 1..Len(typed') : ran'[i] <= 1
    BY <2>3, <1>2 DEF OnceInv
  <2>5. at' # 0 /\ UNCHANGED <<uart_rx_queue, ran, hurt>>
    BY <1>2
  <2> HIDE DEF LInv
  <2> QED
    BY <2>2, <2>3, <2>4, <2>5 DEF LinesAreRun
<1> QED
  BY <1>5, <1>9, <1>10, <1>11, <1>12

LEMMA IsrStep ==
  ASSUME TypeOK, LInv, uart_isr
  PROVE  LineTypeOK' /\ LInv'
<1> USE DEF LInv
<1> DEFINE q == Len(uart_rx_queue)
           last == Len(Coming')
           drop == uart_rx_queue' = uart_rx_queue
                   /\ hurt' = hurt \cup {Len(typed)} \cup (IF at' = 0 THEN {Len(typed) + 1} ELSE {})
           keep == uart_rx_queue' = Append(uart_rx_queue, NextChar) /\ hurt' = hurt /\ q < QUEUE
<1>1. /\ q \in Nat /\ q <= QUEUE
      /\ NextChar \in CharType /\ NextChar' \in CharType
      /\ uart_rx_queue \in Seq(Chars) /\ Chars \subseteq CharType
      /\ Coming \in Seq(CharType) /\ Len(Coming) = q + 1 /\ Turns = 1..q + 1
      /\ \A j \in 1..q : Coming[j] = uart_rx_queue[j] /\ Coming[j] \in Chars
      /\ Coming[q + 1] = NextChar
  <2>1. q \in Nat /\ q <= QUEUE /\ uart_rx_queue \in Seq(Chars)
    BY ComingFacts DEF TypeOK
  <2>2. NextChar \in CharType /\ NextChar' \in CharType /\ Chars \subseteq CharType
    BY ComingFacts, Struck, LineSizes DEF CharType, Chars
  <2>3. Coming \in Seq(CharType) /\ Len(Coming) = q + 1 /\ Turns = 1..q + 1
        /\ \A j \in 1..q : Coming[j] = uart_rx_queue[j] /\ Coming[j] \in Chars
    BY ComingFacts DEF CharType, Turns
  <2>4. Coming[q + 1] = NextChar
    BY ComingFacts
  <2> QED
    BY <2>1, <2>2, <2>3, <2>4
<1>0. CharType \subseteq (0..TYPED + 1) \X Nat
  BY LineSizes DEF CharType
<1>2. keep \/ drop
  BY Struck
<1>3. UNCHANGED <<typed, tmp, n, ran>> /\ at # 0 /\ Len(typed) \in 1..TYPED
  BY Typed DEF uart_isr
<1>4. keep => /\ last = q + 2 /\ Turns' = 1..q + 2
              /\ \A j \in 1..q + 1 : Coming'[j] = Coming[j]
              /\ Coming'[q + 2] = NextChar'
              /\ uart_rx_queue' \in Seq(Chars) /\ Len(uart_rx_queue') = q + 1
              /\ \A j \in 1..q : uart_rx_queue'[j] = uart_rx_queue[j]
              /\ uart_rx_queue'[q + 1] = NextChar
  <2> SUFFICES ASSUME keep PROVE <1>4!2
    OBVIOUS
  <2>1. uart_rx_queue' = Coming
    BY DEF Coming
  <2>2. NextChar \in Chars
    <3>1. NextChar[1] = Len(typed) /\ NextChar \in (1..TYPED + 1) \X Nat
      BY Struck, ComingFacts
    <3> QED
      BY <3>1, <1>3 DEF Chars
  <2>3. /\ uart_rx_queue' \in Seq(Chars) /\ Len(uart_rx_queue') = q + 1
        /\ \A j \in 1..q : uart_rx_queue'[j] = uart_rx_queue[j]
        /\ uart_rx_queue'[q + 1] = NextChar
    BY <1>1, <2>2, AppendProperties
  <2>4. Coming' = Append(Coming, NextChar')
    BY <2>1 DEF Coming
  <2>5. /\ last = q + 2 /\ \A j \in 1..q + 1 : Coming'[j] = Coming[j]
        /\ Coming'[q + 2] = NextChar'
    <3>1. /\ last = Len(Coming) + 1 /\ \A j \in 1..Len(Coming) : Coming'[j] = Coming[j]
          /\ Coming'[Len(Coming) + 1] = NextChar'
      BY <2>4, <1>1, AppendProperties
    <3>2. Len(Coming) + 1 = q + 2
      BY <1>1
    <3> QED
      BY <3>1, <3>2, <1>1
  <2> QED
    BY <2>3, <2>5 DEF Turns
<1>5. drop => /\ last = q + 1 /\ Turns' = 1..q + 1
              /\ \A j \in 1..q : Coming'[j] = Coming[j]
              /\ Coming'[q + 1] = NextChar'
  <2> SUFFICES ASSUME drop PROVE <1>5!2
    OBVIOUS
  <2>1. Coming' = Append(uart_rx_queue, NextChar')
    BY DEF Coming
  <2>2. uart_rx_queue \in Seq(CharType)
    BY <1>1, SeqMonotonic
  <2>3. /\ last = q + 1 /\ \A j \in 1..q : Coming'[j] = uart_rx_queue[j]
        /\ Coming'[q + 1] = NextChar'
    BY <2>1, <2>2, <1>1, AppendProperties
  <2> QED
    BY <2>3, <1>1 DEF Turns
<1> HIDE DEF q, last, drop, keep
<1>6. /\ last \in Turns' /\ Coming'[last] = NextChar'
      /\ \A j \in Turns' \ {last} : j \in Turns /\ Coming'[j] = Coming[j] /\ j < last
      /\ \A j \in Turns' \ {last} : Coming'[j] = NextChar \/ (Coming'[j] \in CharType /\ Before(Coming'[j], NextChar))
  <2>1. \A j \in 1..q : Before(Coming[j], NextChar) /\ Coming[j] \in CharType
    <3>1. q + 1 \in Turns /\ \A j \in 1..q : j \in Turns /\ j < q + 1
      BY <1>1
    <3> QED
      BY <3>1, <1>1 DEF OrderInv
  <2>2. CASE keep
    BY <2>1, <2>2, <1>1, <1>4
  <2>3. CASE drop
    BY <2>1, <2>3, <1>1, <1>5
  <2> QED
    BY <2>2, <2>3, <1>2
<1>7. LineTypeOK'
  <2>1. at' = 0 \/ at' \in 1..typed[Len(typed)].len + 1
    BY Struck
  <2>2. hurt' \subseteq 1..TYPED + 1
    <3>1. Len(typed) \in 1..TYPED + 1 /\ Len(typed) + 1 \in 1..TYPED + 1 /\ hurt \subseteq 1..TYPED + 1
      BY <1>3, LineSizes DEF TypeOK
    <3> QED
      BY <3>1, <1>2 DEF keep, drop
  <2>3. uart_rx_queue' \in Seq(Chars) /\ Len(uart_rx_queue') <= QUEUE
    BY <1>1, <1>2, <1>4, LineSizes DEF keep, drop, q
  <2> QED
    BY <2>1, <2>2, <2>3, <1>3 DEF TypeOK, LineTypeOK
<1>8. Before(NextChar, NextChar')
  BY Struck
<1>9. OrderInv'
  <2>1. ASSUME NEW i \in Turns', NEW j \in Turns', i < j PROVE Before(Coming'[i], Coming'[j])
    <3>1. i # last
      BY <2>1, <1>6, <1>1 DEF Turns
    <3>2. CASE j = last
      <4>1. i \in Turns' \ {last}
        BY <3>1
      <4>2. CASE Coming'[i] = NextChar
        BY <3>2, <4>2, <1>6, <1>8
      <4>3. CASE Coming'[i] \in CharType /\ Before(Coming'[i], NextChar)
        BY <3>2, <4>3, <1>0, <1>1, <1>6, <1>8, OrderFacts
      <4> QED
        BY <4>1, <4>2, <4>3, <1>6
    <3>3. CASE j # last
      BY <2>1, <3>1, <3>3, <1>6 DEF OrderInv
    <3> QED
      BY <3>2, <3>3
  <2>2. ASSUME NEW i \in 0..LINE - 1, NEW j \in Turns' PROVE Before(tmp[i], Coming'[j])
    <3>1. CASE j = last
      <4>1. q + 1 \in Turns /\ Coming[q + 1] = NextChar
        BY <1>1
      <4>2. Before(tmp[i], NextChar)
        BY <4>1 DEF OrderInv
      <4>3. tmp[i] \in (0..TYPED + 1) \X Nat
        BY LineSizes DEF TypeOK, Chars
      <4> QED
        BY <3>1, <4>2, <4>3, <1>1, <1>6, <1>8, OrderFacts
    <3>2. CASE j # last
      BY <3>2, <1>6 DEF OrderInv
    <3> QED
      BY <3>1, <3>2
  <2> QED
    BY <2>1, <2>2, <1>3 DEF OrderInv
<1>10. LengthInv'
  <2>1. NextChar'[1] <= Len(typed) => NextChar'[2] <= typed[NextChar'[1]].len
    BY Struck, <1>3
  <2> QED
    BY <2>1, <1>3, <1>6 DEF LengthInv
<1>11. OnceInv'
  <2>1. ASSUME NEW l \in 1..TYPED, ran[l] = 1, NEW j \in Turns' PROVE Before(<<l, 1>>, Coming'[j])
    <3>1. CASE j = last
      <4>1. q + 1 \in Turns /\ Coming[q + 1] = NextChar
        BY <1>1
      <4>2. Before(<<l, 1>>, NextChar)
        BY <2>1, <4>1 DEF OnceInv
      <4>3. <<l, 1>> \in (0..TYPED + 1) \X Nat
        BY LineSizes
      <4> QED
        BY <3>1, <4>2, <4>3, <1>1, <1>6, <1>8, OrderFacts
    <3>2. CASE j # last
      BY <2>1, <3>2, <1>6 DEF OnceInv
    <3> QED
      BY <3>1, <3>2
  <2> QED
    BY <2>1, <1>3 DEF OnceInv
<1>12. FollowInv'
  <2>1. ASSUME NEW j \in Turns', Coming'[j][1] \notin hurt', j # last
        PROVE (IF j = 1 THEN Holds(Pred(Coming[1])) ELSE Coming[j - 1] = Pred(Coming[j]))'
    <3>1. j \in Turns /\ Coming'[j] = Coming[j] /\ Coming[j][1] \notin hurt
      BY <2>1, <1>2, <1>6 DEF keep, drop
    <3>2. IF j = 1 THEN Holds(Pred(Coming[1])) ELSE Coming[j - 1] = Pred(Coming[j])
      BY <3>1 DEF FollowInv
    <3>3. j # 1 => j - 1 \in Turns' \ {last}
      BY <2>1, <1>2, <1>4, <1>5, <1>1
    <3> QED
      BY <3>1, <3>2, <3>3, <1>3, <1>6 DEF Holds, Pred
  <2>2. ASSUME NEW j \in Turns', Coming'[j][1] \notin hurt', j = last
        PROVE (IF j = 1 THEN Holds(Pred(Coming[1])) ELSE Coming[j - 1] = Pred(Coming[j]))'
    <3>1. CASE keep
      <4>1. j # 1 /\ j - 1 = q + 1 /\ Coming'[q + 1] = NextChar /\ Coming'[j] = NextChar'
        BY <2>2, <3>1, <1>1, <1>4
      <4>2. Pred(NextChar') = NextChar
        BY Struck
      <4>3. Pred(Coming[j])' = Pred(NextChar')
        BY <4>1, <1>3 DEF Pred
      <4> QED
        BY <4>1, <4>2, <4>3
    <3>2. CASE drop
      BY <2>2, <3>2, <1>6, Struck DEF drop
    <3> QED
      BY <3>1, <3>2, <1>2
  <2> QED
    BY <2>1, <2>2 DEF FollowInv
<1>13. LinesAreRun'
  <2>1. ASSUME NEW l \in 1..Len(typed), l < Len(typed) \/ at' = 0, l \notin hurt', typed[l].len < LINE
        PROVE  ran[l] = 1 \/ \E i \in 1..Len(uart_rx_queue') : uart_rx_queue'[i] = <<l, 0>>
    <3>1. CASE l < Len(typed)
      <4>1. l \notin hurt
        BY <2>1, <1>2 DEF keep, drop
      <4>2. ran[l] = 1 \/ \E i \in 1..Len(uart_rx_queue) : uart_rx_queue[i] = <<l, 0>>
        BY <2>1, <3>1, <4>1 DEF LinesAreRun
      <4> QED
        BY <4>2, <1>1, <1>2, <1>4 DEF keep, drop, q
    <3>2. CASE l = Len(typed)
      <4>1. keep
        BY <2>1, <3>2, <1>2 DEF drop
      <4>2. NextChar = <<l, 0>>
        BY <2>1, <3>2, Struck, <1>3
      <4> QED
        BY <4>1, <4>2, <1>1, <1>4
    <3> QED
      BY <3>1, <3>2, <1>3
  <2> HIDE DEF LInv
  <2>2. \A l \in 1..Len(typed) : ran[l] <= 1
    BY DEF LInv, LinesAreRun
  <2> QED
    BY <2>1, <2>2, <1>3 DEF LinesAreRun
<1> QED
  BY <1>7, <1>9, <1>10, <1>11, <1>12, <1>13

LEMMA GetcharStep ==
  ASSUME TypeOK, LInv, uart_getchar
  PROVE  LineTypeOK' /\ LInv'
<1> USE DEF LInv
<1>1. /\ uart_rx_queue # <<>> /\ uart_rx_queue' = Tail(uart_rx_queue)
      /\ UNCHANGED <<keyboard, typed, at, ran, hurt>>
      /\ tmp' = [tmp EXCEPT ![n] = Head(uart_rx_queue)] /\ n' = (n + 1) % LINE
      /\ Head(uart_rx_queue)[2] # 0
  BY DEF uart_getchar, keyboard, NextPlace
<1> DEFINE c == Coming[1]
<1>2. /\ Head(uart_rx_queue) = c /\ c \in Chars /\ 1 \in Turns
      /\ uart_rx_queue' \in Seq(Chars) /\ Len(uart_rx_queue') <= QUEUE
      /\ \A i \in 1..Len(uart_rx_queue) :
           i = 1 \/ (i - 1 \in 1..Len(uart_rx_queue') /\ uart_rx_queue'[i - 1] = uart_rx_queue[i])
      /\ Turns' = 1..Len(uart_rx_queue) /\ Len(uart_rx_queue) \in Nat
      /\ \A j \in Turns' : j \in Turns /\ j + 1 \in Turns /\ Coming'[j] = Coming[j + 1]
  BY <1>1, Popped, ComingFacts
<1>3. /\ n \in 0..LINE - 1 /\ (n + 1) % LINE \in 0..LINE - 1
      /\ (n + 1 < LINE => (n + 1) % LINE = n + 1)
      /\ tmp \in [0..LINE - 1 -> Chars \cup {<<0, 0>>}] /\ LINE \in Nat
  BY LineSizes DEF TypeOK
<1>4. LineTypeOK'
  BY <1>1, <1>2, <1>3 DEF TypeOK, LineTypeOK
<1>5. c \in CharType /\ \A j \in Turns : Coming[j] \in CharType
  BY <1>2, ComingFacts, LineSizes DEF Turns, CharType, Chars
<1>6. \A j \in Turns' : Before(c, Coming[j + 1])
  BY <1>2 DEF OrderInv
<1>7. OrderInv'
  <2>1. \A i, j \in Turns' : i < j => Before(Coming'[i], Coming'[j])
    BY <1>2 DEF OrderInv
  <2>2. ASSUME NEW i \in 0..LINE - 1, NEW j \in Turns' PROVE Before(tmp'[i], Coming'[j])
    <3>1. CASE i = n
      BY <3>1, <1>1, <1>2, <1>3, <1>6
    <3>2. CASE i # n
      BY <3>2, <1>1, <1>2, <1>3 DEF OrderInv
    <3> QED
      BY <3>1, <3>2
  <2> QED
    BY <2>1, <2>2 DEF OrderInv
<1>8. LengthInv'
  BY <1>1, <1>2 DEF LengthInv
<1>9. OnceInv'
  <2>1. ASSUME NEW l \in 1..TYPED, ran[l] = 1
        PROVE  /\ \A j \in Turns' : Before(<<l, 1>>, Coming'[j])
               /\ \A i \in 0..LINE - 1 : tmp'[i] # <<l, 1>>
    <3>1. Before(<<l, 1>>, c) /\ ~Before(c, c)
      <4>1. Before(<<l, 1>>, c)
        BY <2>1, <1>2 DEF OnceInv
      <4>2. ~Before(c, c)
        BY <1>5, LineSizes DEF Before, CharType
      <4> QED
        BY <4>1, <4>2
    <3>2. c # <<l, 1>>
      BY <3>1
    <3> QED
      BY <2>1, <3>2, <1>1, <1>2, <1>3 DEF OnceInv
  <2> QED
    BY <2>1, <1>1 DEF OnceInv
<1>10. FollowInv'
  <2>1. ASSUME NEW j \in Turns', Coming[j + 1][1] \notin hurt
        PROVE  Coming[j] = Pred(Coming[j + 1]) /\ Pred(Coming[j])' = Pred(Coming[j + 1])
    <3>1. j + 1 \in Turns /\ j + 1 # 1 /\ (j + 1) - 1 = j
      BY <1>2
    <3>2. Coming[j] = Pred(Coming[j + 1])
      BY <2>1, <3>1 DEF FollowInv
    <3> QED
      BY <3>2, <1>1, <1>2 DEF Pred
  <2>2. ASSUME 1 \in Turns', Coming[2][1] \notin hurt
        PROVE  Holds(Pred(Coming[1]))'
    <3> DEFINE d == Coming[2]
    <3>1. c = Pred(d) /\ Pred(Coming[1])' = c /\ d \in CharType
      BY <2>1, <2>2, <1>2, <1>5
    <3>2. c[2] # 0
      BY <1>1, <1>2
    <3>3. c[1] = d[1] /\ c[1] \notin hurt
      BY <2>2, <3>1, <3>2 DEF Pred
    <3>4. Holds(Pred(c))
      BY <3>3, <1>2 DEF FollowInv
    <3>5. c[1] \in 1..Len(typed) /\ c[2] <= typed[c[1]].len
      <4>1. 1 \in 1..Len(uart_rx_queue)
        BY <2>2, <1>2
      <4> QED
        BY <4>1, QueuedLine, <1>2 DEF LengthInv
    <3>6. typed[c[1]].len \in Nat
      BY <3>5, Typed
    <3>7. ASSUME typed[c[1]].len < LINE
          PROVE  n + 1 = c[2] /\ \A i \in 0..n - 1 : tmp[i] = <<c[1], i + 1>>
      <4>1. CASE c[2] = 1
        BY <4>1, <3>4, <1>3 DEF Holds, Pred
      <4>2. CASE c[2] # 1
        <5>1. Pred(c) = <<c[1], c[2] - 1>> /\ c[2] - 1 # 0 /\ c[2] \in Nat
          BY <4>2, <3>2, <1>5 DEF Pred, CharType
        <5> QED
          BY <5>1, <3>4, <3>7, <1>3 DEF Holds
      <4> QED
        BY <4>1, <4>2
    <3>8. ASSUME typed[c[1]].len < LINE
          PROVE  n' = c[2] /\ \A i \in 0..n' - 1 : tmp'[i] = <<c[1], i + 1>>
      <4>1. n + 1 = c[2] /\ \A i \in 0..n - 1 : tmp[i] = <<c[1], i + 1>>
        BY <3>7, <3>8
      <4>2. n' = n + 1
        BY <4>1, <3>5, <3>6, <3>8, <1>1, <1>3
      <4>3. tmp'[n] = c /\ \A i \in 0..n - 1 : tmp'[i] = tmp[i]
        BY <1>1, <1>2, <1>3
      <4>4. c = <<c[1], n + 1>>
        BY <4>1, <1>5 DEF CharType
      <4>5. ASSUME NEW i \in 0..n' - 1 PROVE tmp'[i] = <<c[1], i + 1>>
        <5>1. i = n \/ i \in 0..n - 1
          BY <4>2, <4>5, <1>3
        <5> QED
          BY <5>1, <4>1, <4>3, <4>4
      <4> QED
        BY <4>1, <4>2, <4>5
    <3> HIDE DEF c
    <3> QED
      BY <3>1, <3>2, <3>8, <1>1 DEF Holds
  <2>3. ASSUME NEW j \in Turns', Coming'[j][1] \notin hurt'
        PROVE (IF j = 1 THEN Holds(Pred(Coming[1])) ELSE Coming[j - 1] = Pred(Coming[j]))'
    <3>1. Coming[j + 1][1] \notin hurt
      BY <2>3, <1>1, <1>2
    <3>2. CASE j = 1
      BY <3>1, <3>2, <2>2
    <3>3. CASE j # 1
      <4>1. j - 1 \in Turns' /\ (j - 1) + 1 = j
        BY <3>3, <1>2
      <4>2. Coming'[j - 1] = Coming[j]
        BY <4>1, <1>2
      <4> QED
        BY <4>2, <3>1, <3>3, <2>1
    <3> QED
      BY <3>2, <3>3
  <2> QED
    BY <2>3 DEF FollowInv
<1>11. LinesAreRun'
  <2>1. ASSUME NEW l \in 1..Len(typed), NEW i \in 1..Len(uart_rx_queue), uart_rx_queue[i] = <<l, 0>>
        PROVE  \E k \in 1..Len(uart_rx_queue') : uart_rx_queue'[k] = <<l, 0>>
    <3>1. i # 1
      BY <2>1, <1>1, <1>2, ComingFacts
    <3> QED
      BY <2>1, <3>1, <1>2
  <2> QED
    BY <2>1, <1>1 DEF LinesAreRun
<1> QED
  BY <1>4, <1>7, <1>8, <1>9, <1>10, <1>11

LEMMA CheckStep ==
  ASSUME TypeOK, LInv, checkCommand
  PROVE  LineTypeOK' /\ LInv'
<1> USE DEF LInv
<1>1. /\ uart_rx_queue # <<>> /\ uart_rx_queue' = Tail(uart_rx_queue)
      /\ UNCHANGED <<keyboard, typed, at, hurt>>
      /\ tmp' = Blank /\ n' = 0
      /\ Head(uart_rx_queue)[2] = 0
  BY DEF checkCommand, keyboard, PlaceReset
<1>2. \/ \E l \in 1..Len(typed) : Whole(l) /\ ran' = [ran EXCEPT ![l] = @ + 1]
      \/ (~\E l \in 1..Len(typed) : Whole(l)) /\ ran' = ran
  BY DEF checkCommand
<1> DEFINE c == Coming[1]
<1>3. /\ Head(uart_rx_queue) = c /\ c \in Chars /\ 1 \in Turns
      /\ uart_rx_queue' \in Seq(Chars) /\ Len(uart_rx_queue') <= QUEUE
      /\ \A i \in 1..Len(uart_rx_queue) :
           i = 1 \/ (i - 1 \in 1..Len(uart_rx_queue') /\ uart_rx_queue'[i - 1] = uart_rx_queue[i])
      /\ Turns' = 1..Len(uart_rx_queue) /\ Len(uart_rx_queue) \in Nat
      /\ \A j \in Turns' : j \in Turns /\ j + 1 \in Turns /\ Coming'[j] = Coming[j + 1]
  BY <1>1, Popped, ComingFacts
<1>4. ran \in [1..TYPED -> Nat] /\ Len(typed) \in 0..TYPED /\ TYPED \in Nat
  BY Typed, LineSizes DEF TypeOK
<1>5. tmp' \in [0..LINE - 1 -> Chars \cup {<<0, 0>>}] /\ \A i \in 0..LINE - 1 : tmp'[i] = <<0, 0>>
  BY <1>1 DEF Blank
\* A line that is run has not been, and does not come again.
<1>6. ASSUME NEW l \in 1..Len(typed), Whole(l)
      PROVE  /\ l \in 1..TYPED /\ ran[l] = 0
             /\ tmp[0] = <<l, 1>>
             /\ \A j \in Turns' : Before(<<l, 1>>, Coming'[j])
  <2>1. tmp[0] = <<l, 1>> /\ 0 \in 0..LINE - 1
    <3>1. typed[l].len \in Nat \ {0}
      BY Typed
    <3>2. 0 \in 0..n - 1
      BY <3>1, <1>6 DEF Whole
    <3> QED
      BY <3>2, <1>6, LineSizes DEF Whole
  <2>2. l \in 1..TYPED /\ ran[l] \in Nat
    BY <1>4
  <2>3. ran[l] = 0
    <3>1. ran[l] <= 1
      BY <2>2 DEF OnceInv
    <3>2. ran[l] # 1
      BY <2>1, <2>2 DEF OnceInv
    <3> QED
      BY <3>1, <3>2, <2>2
  <2>4. \A j \in Turns' : Before(tmp[0], Coming'[j])
    BY <2>1, <1>3 DEF OrderInv
  <2> QED
    BY <2>1, <2>2, <2>3, <2>4
<1>7. LineTypeOK'
  <2>1. ran' \in [1..TYPED -> Nat]
    BY <1>2, <1>4
  <2> QED
    BY <2>1, <1>1, <1>3, <1>5, LineSizes DEF TypeOK, LineTypeOK
<1>8. OrderInv'
  <2>1. \A j \in Turns' : Before(<<0, 0>>, Coming'[j])
    <3>1. \A j \in Turns : Coming[j] \in CharType
      BY ComingFacts DEF Turns, CharType
    <3>2. \A d \in CharType : Before(<<0, 0>>, d)
      BY LineSizes DEF Before, CharType
    <3> QED
      BY <3>1, <3>2, <1>3
  <2>2. \A i, j \in Turns' : i < j => Before(Coming'[i], Coming'[j])
    BY <1>3 DEF OrderInv
  <2> QED
    BY <2>1, <2>2, <1>5 DEF OrderInv
<1>9. LengthInv'
  BY <1>1, <1>3 DEF LengthInv
<1>10. OnceInv'
  <2>1. ASSUME NEW l \in 1..TYPED
        PROVE  ran'[l] <= 1 /\ (ran'[l] = 1 => \A j \in Turns' : Before(<<l, 1>>, Coming'[j]))
    <3>1. CASE ran'[l] = ran[l]
      BY <3>1, <1>3 DEF OnceInv
    <3>2. CASE l \in 1..Len(typed) /\ Whole(l) /\ ran'[l] = ran[l] + 1
      BY <3>2, <1>6
    <3> QED
      BY <3>1, <3>2, <1>2, <1>4
  <2>2. \A l \in 1..TYPED, i \in 0..LINE - 1 : tmp'[i] # <<l, 1>>
    BY <1>5
  <2> QED
    BY <2>1, <2>2 DEF OnceInv
<1>11. FollowInv'
  <2>1. ASSUME NEW j \in Turns', Coming'[j][1] \notin hurt'
        PROVE (IF j = 1 THEN Holds(Pred(Coming[1])) ELSE Coming[j - 1] = Pred(Coming[j]))'
    <3>1. j + 1 \in Turns /\ j + 1 # 1 /\ (j + 1) - 1 = j /\ Coming[j + 1][1] \notin hurt
      BY <2>1, <1>1, <1>3
    <3>2. Coming[j] = Pred(Coming[j + 1]) /\ Pred(Coming[j])' = Pred(Coming[j + 1])
      <4>1. Coming[j] = Pred(Coming[j + 1])
        BY <3>1 DEF FollowInv
      <4> QED
        BY <4>1, <1>1, <1>3 DEF Pred
    <3>3. CASE j = 1
      BY <3>2, <3>3, <1>1, <1>3 DEF Holds
    <3>4. CASE j # 1
      <4>1. j - 1 \in Turns' /\ (j - 1) + 1 = j
        BY <3>4, <1>3
      <4>2. Coming'[j - 1] = Coming[j]
        BY <4>1, <1>3
      <4> QED
        BY <4>2, <3>2, <3>4
    <3> QED
      BY <3>3, <3>4
  <2> QED
    BY <2>1 DEF FollowInv
<1>12. LinesAreRun'
  <2>1. ASSUME NEW l \in 1..Len(typed) PROVE ran'[l] <= 1 /\ (ran[l] = 1 => ran'[l] = 1)
    <3>1. l \in 1..TYPED /\ ran[l] \in Nat /\ ran'[l] \in Nat /\ ran[l] <= ran'[l]
      BY <1>2, <1>4
    <3>2. ran'[l] <= 1
      BY <3>1, <1>10 DEF OnceInv
    <3> QED
      BY <3>1, <3>2
  <2>2. ASSUME NEW l \in 1..Len(typed), l \notin hurt, typed[l].len < LINE, c = <<l, 0>>
        PROVE  ran'[l] = 1
    <3>1. Holds(Pred(c))
      BY <2>2, <1>3 DEF FollowInv
    <3>2. Pred(c) = <<l, typed[l].len>> /\ typed[l].len # 0
      BY <2>2, Typed DEF Pred
    <3>3. Whole(l)
      BY <3>1, <3>2, <2>2 DEF Holds, Whole
    <3>4. PICK k \in 1..Len(typed) : Whole(k) /\ ran' = [ran EXCEPT ![k] = @ + 1]
      BY <3>3, <1>2
    <3>5. k = l
      <4>1. tmp[0] = <<l, 1>>
        BY <3>3, <1>6
      <4>2. tmp[0] = <<k, 1>>
        BY <3>4, <1>6
      <4> QED
        BY <4>1, <4>2
    <3>6. l \in 1..TYPED /\ ran[l] = 0
      BY <3>3, <1>6
    <3> QED
      BY <3>4, <3>5, <3>6, <1>4
  <2>3. ASSUME NEW l \in 1..Len(typed), l \notin hurt, typed[l].len < LINE,
               NEW i \in 1..Len(uart_rx_queue), uart_rx_queue[i] = <<l, 0>>
        PROVE  ran'[l] = 1 \/ \E k \in 1..Len(uart_rx_queue') : uart_rx_queue'[k] = <<l, 0>>
    <3>1. CASE i = 1
      BY <3>1, <2>2, <2>3, ComingFacts
    <3>2. CASE i # 1
      BY <3>2, <2>3, <1>3
    <3> QED
      BY <3>1, <3>2
  <2> QED
    BY <2>1, <2>3, <1>1 DEF LinesAreRun
<1> QED
  BY <1>7, <1>8, <1>9, <1>10, <1>11, <1>12

-----------------------------------------------------------------------------
(* The composition *)

IInv == TypeOK /\ SInv /\ LInv

LEMMA TypeParts == TypeOK <=> StationsTypeOK /\ LineTypeOK
BY DEF TypeOK, LineTypeOK

\* What the console does is a step of a command, or none; what is typed may be any
\* command, of the web only a number is played.
LEMMA NextMoves == TypeOK /\ LInv /\ Next => Moves
<1> SUFFICES ASSUME TypeOK, LInv, Next PROVE Moves
  OBVIOUS
<1>1. CASE BeginLine \/ uart_isr \/ uart_getchar
  <2>1. UNCHANGED svars
    BY <1>1 DEF BeginLine, uart_isr, uart_getchar
  <2> QED
    BY <2>1 DEF svars, chosen, Moves
<1>2. CASE checkCommand
  <2>1. Cli \in Tasks /\ Cli \notin Web
    BY StationsAssumption DEF Tasks
  <2>2. ASSUME NEW i \in 0..n - 1, tmp[i] # <<0, 0>>
        PROVE  tmp[i][1] \in 1..Len(typed)
    <3>1. i \in 0..LINE - 1
      BY LineSizes DEF TypeOK
    <3>2. tmp[i] \in Chars
      BY <2>2, <3>1 DEF TypeOK
    <3>3. 1 \in 1..Len(uart_rx_queue) /\ 1 \in Turns
      <4>1. uart_rx_queue # <<>> /\ uart_rx_queue \in Seq(Chars)
        BY <1>2 DEF checkCommand, TypeOK
      <4>2. Len(uart_rx_queue) \in Nat \ {0}
        BY <4>1, EmptySeq
      <4> QED
        BY <4>2, ComingFacts DEF Turns
    <3>4. Before(tmp[i], Coming[1])
      BY <3>1, <3>3 DEF LInv, OrderInv
    <3>5. Coming[1][1] \in 1..Len(typed)
      BY <3>3, QueuedLine DEF LInv
    <3> QED
      BY <3>2, <3>4, <3>5, Typed DEF Before, Chars
  <2>3. \/ \E c \in Commands : Begin(Cli, c)
        \/ UNCHANGED <<pc, cmd, id, si, recorded, blank, current, target, shown, hist>>
    BY <1>2, <2>2, Typed DEF checkCommand
  <2> QED
    BY <2>1, <2>3 DEF Moves, chosen, work
<1>3. ASSUME NEW t \in Web, WebPlay(t) PROVE Moves
  BY <1>3 DEF WebPlay, Moves, Commands, Tasks
<1>4. ASSUME NEW t \in Tasks, StationStep(t) PROVE Moves
  BY <1>4 DEF Moves
<1> QED
  BY <1>1, <1>2, <1>3, <1>4 DEF Next

LEMMA InitIInv == Init => IInv
BY InitSInv, InitLine, TypeParts DEF Init, IInv, SInv

LEMMA StepIInv == IInv /\ [Next]_vars => IInv'
<1> SUFFICES ASSUME IInv, [Next]_vars PROVE IInv'
  OBVIOUS
<1> USE DEF IInv
<1>1. SInv'
  <2>1. Moves
    BY NextMoves DEF vars, svars, chosen, Moves
  <2> QED
    BY <2>1, MovesSInv
<1>2. LineTypeOK' /\ LInv'
  <2>1. CASE BeginLine     BY <2>1, BeginLineStep
  <2>2. CASE uart_isr      BY <2>2, IsrStep
  <2>3. CASE uart_getchar  BY <2>3, GetcharStep
  <2>4. CASE checkCommand  BY <2>4, CheckStep
  <2>5. CASE UNCHANGED console
    <3> USE <2>5 DEF console, keyboard
    <3>1. LineTypeOK'
      BY DEF TypeOK, LineTypeOK
    <3>2. Coming' = Coming /\ Turns' = Turns
      BY DEF Coming, NextChar, Turns
    <3>3. OrderInv' /\ LengthInv' /\ OnceInv' /\ LinesAreRun'
      BY <3>2 DEF LInv, OrderInv, LengthInv, OnceInv, LinesAreRun
    <3>4. FollowInv'
      BY <3>2 DEF LInv, FollowInv, Holds, Pred
    <3> QED
      BY <3>1, <3>3, <3>4 DEF LInv
  <2> QED
    BY <2>1, <2>2, <2>3, <2>4, <2>5 DEF Next, vars
<1>3. TypeOK'
  BY <1>1, <1>2 DEF SInv, TypeOK, LineTypeOK
<1> QED
  BY <1>1, <1>2, <1>3

\* The inductive invariant: the types, the command of a task at each of its places,
\* and the order of the characters from the keyboard to the line.
THEOREM Invariance == Spec => []IInv
<1>1. Init => IInv
  BY InitIInv
<1>2. IInv /\ [Next]_vars => IInv'
  BY StepIInv
<1> QED
  BY <1>1, <1>2, PTL DEF Spec

\* Types: no character is stored past tmp (uart_getchar) or past the queue of the
\* UART (uart_isr), and getStation gives no station that is not in the list.
THEOREM TypeCorrect == Spec => []TypeOK
<1>1. IInv => TypeOK
  BY DEF IInv
<1> QED
  BY <1>1, Invariance, PTL

\* clientTask was told the station that currentStation names (playStation), or not
\* that station if it is blank; unless what was played last is no station of the list
\* (/instant_play, cli.start), commands have overlapped, or there was no memory.
THEOREM StationCorrect == Spec => []CurrentIsPlayed
<1>1. IInv => CurrentIsPlayed
  BY SInvProperties DEF IInv
<1> QED
  BY <1>1, Invariance, PTL

\* wsStationNext and wsStationPrev select the neighbour or stay, but for a station 0
\* that is not recorded.
THEOREM NeighbourCorrect == Spec => []NeighbourSelected
<1>1. IInv => NeighbourSelected
  BY SInvProperties DEF IInv
<1> QED
  BY <1>1, Invariance, PTL

\* A line of which uart_isr dropped nothing is run by checkCommand, once.
THEOREM LinesCorrect == Spec => []LinesAreRun
<1>1. IInv => LinesAreRun
  BY DEF IInv, LInv
<1> QED
  BY <1>1, Invariance, PTL
=============================================================================
