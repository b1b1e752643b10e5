------------------------------- MODULE Eeprom -------------------------------
(***************************************************************************)
(* eeprom.c, and the tasks that keep settings and stations with it: the    *)
(* flash chip's last sectors hold a block of 256 bytes of settings and one *)
(* for each station.  eeSetData copies a sector to the heap, erases it,    *)
(* and writes it back with the new bytes; nothing makes that atomic, and   *)
(* there is no lock.                                                       *)
(*                                                                         *)
(* Scheduling.  Websocket tasks have priority 4, web server tasks 3, the   *)
(* console (which is also the boot sequence) 2.  Tasks of one priority are *)
(* time-sliced; a lower one runs only while the higher ones are blocked.   *)
(* Each call of the flash driver is atomic.                                *)
(*                                                                         *)
(* Data.  The contents of a station's block, and of each of the groups of  *)
(* settings that commands change (network, volume, tone), is one value:    *)
(* Blank for 0xFF bytes, Zero for 0 bytes, a value that somebody gave, or  *)
(* Mixed, when two writes after one erase left their bitwise AND.          *)
(*                                                                         *)
(* meant, clash and stale are history: what was last written to a cell on  *)
(* purpose, or Lost when an overlap of two commands or a loss of power may *)
(* have spoilt it since; the tasks whose eeSetData overlapped with another *)
(* one in their sector; those whose copy of the settings is out of date.   *)
(***************************************************************************)
EXTENDS Integers

CONSTANTS NBSTATIONS,  \* 192
          PER_SECTOR,  \* blocks of 256 bytes in a sector (16)
          ERASED,      \* sectors below EEPROM_SIZE (12)
          Web, Ws,     \* tasks that serve web requests, websockets
          Console,     \* the task that boots, then runs console commands
          Value,       \* what a user, or DHCP, can set something to
          Blank, Zero, Mixed, Lost

ASSUME EepromAssumption ==
    /\ NBSTATIONS \in Nat \ {0} /\ PER_SECTOR \in Nat \ {0} /\ ERASED \in Nat
    /\ Web \cap Ws = {} /\ Web \cap Console = {} /\ Ws \cap Console = {}
    /\ {Blank, Zero, Mixed, Lost} \cap Value = {}
    /\ Blank \notin {Zero, Mixed, Lost} /\ Zero \notin {Mixed, Lost} /\ Mixed # Lost

Tasks   == Web \cup Ws \cup Console
Content == Value \cup {Blank, Zero, Mixed}

\* Three groups of settings in block 0, station p in block p + 1.
Net      == -3
Volume   == -2
Tone     == -1
Settings == {Net, Volume, Tone}
Station  == 0..NBSTATIONS - 1
Cells    == Settings \cup Station

Sector(c)   == IF c < 0 THEN 0 ELSE (c + 1) \div PER_SECTOR
InSector(s) == {c \in Cells : Sector(c) = s}

VARIABLES flash,
          pc, op,   \* of each task: where it is, what it does
          cell,     \* the setting, station or sector it changes
          dev,      \* its copy of what it is to write
          eebuf,    \* its copy of a sector
          meant, clash, stale    \* history

task == <<pc, op, cell, dev, eebuf>>
hist == <<meant, clash, stale>>
vars == <<flash, task, hist>>

Nothing == [c \in {} |-> Blank]

\* The tasks when power comes on.
On == [t \in Tasks |-> IF t \in Console THEN "boot" ELSE "idle"]

Init == /\ flash = [c \in Cells |-> Blank]
        /\ pc = On /\ op = [t \in Tasks |-> "none"] /\ cell = [t \in Tasks |-> 0]
        /\ dev = [t \in Tasks |-> Nothing] /\ eebuf = [t \in Tasks |-> Nothing]
        /\ meant = flash /\ clash = {} /\ stale = {}

-----------------------------------------------------------------------------
Prio(t) == IF t \in Ws THEN 4 ELSE IF t \in Web THEN 3 ELSE 2

\* t waits: for a request, a tick, the WiFi, or (between getDeviceSettings and
\* saveDeviceSettings of a volume or tone) the SPI bus.
Blocked(t) == \/ pc[t] \in {"idle", "delay", "connect"}
              \/ pc[t] = "change" /\ cell[t] # Net

Runs(t) == \A u \in Tasks : Prio(u) > Prio(t) => Blocked(u)

\* The network is up: user_main.c:107 was reached.
Up == \A c \in Console : pc[c] # "boot" /\ op[c] # "first"

\* The tasks with a copy of the settings.
HoldsSettings == {t \in Tasks : op[t] \in {"settings", "first", "last"}}

\* The sector eeSetData of t is for, and the cells it is to change.
SectorOf(t) == IF op[t] = "eraseAll" THEN cell[t] ELSE Sector(cell[t])
Target(t)   == IF op[t] = "eraseAll" THEN InSector(cell[t])
               ELSE IF t \in HoldsSettings THEN Settings ELSE {cell[t]}
\* The part of that which the command is about.
Purpose(t)  == IF t \in HoldsSettings THEN {cell[t]} ELSE Target(t)

InSetData(t)  == pc[t] \in {"copied", "erased"}
Erasing(s)    == \E t \in Tasks : pc[t] = "erased" /\ SectorOf(t) = s

Goto(t, l) == pc' = [pc EXCEPT ![t] = l]

Done(t) == /\ Goto(t, "idle")
           /\ op' = [op EXCEPT ![t] = "none"] /\ cell' = [cell EXCEPT ![t] = 0]
           /\ dev' = [dev EXCEPT ![t] = Nothing]

\* What erases station or sector x.
Zeros(o, x) == [c \in IF o = "eraseAll" THEN InSector(x) ELSE {x} |-> Zero]

\* There is more for t to erase.
More(t) == \/ op[t] = "clear" /\ cell[t] < NBSTATIONS - 1
           \/ op[t] = "eraseAll" /\ cell[t] < ERASED - 1

\* Where a command goes on after eeSetData.
Continue(t) ==
    \/ /\ More(t)
       /\ Goto(t, IF op[t] = "clear" THEN "delay" ELSE "save")
       /\ cell' = [cell EXCEPT ![t] = @ + 1]
       /\ dev' = [dev EXCEPT ![t] = Zeros(op[t], cell[t] + 1)]
       /\ UNCHANGED op
    \/ /\ op[t] = "first"
       /\ Goto(t, "connect") /\ op' = [op EXCEPT ![t] = "last"]
       /\ UNCHANGED <<cell, dev>>
    \/ ~More(t) /\ op[t] # "first" /\ Done(t)

-----------------------------------------------------------------------------
(* Commands up to eeSetData *)

\* t starts what writes image to cell c.
Start(t, o, c, image, l) ==
    /\ Goto(t, l)
    /\ op' = [op EXCEPT ![t] = o] /\ cell' = [cell EXCEPT ![t] = c]
    /\ dev' = [dev EXCEPT ![t] = image]

SettingsNow == [c \in Settings |-> flash[c]]
GetStale(t) == stale' = IF Erasing(0) THEN stale \cup {t} ELSE stale

\* getDeviceSettings for volume (setVolume), tone (/sound) and network (/wifi,
\* wifi.con).
GetSettings(t) ==
    /\ pc[t] = "idle"
    /\ \E c \in IF t \in Web THEN Settings
                ELSE IF t \in Ws THEN {Volume} ELSE {Volume, Net} :
          Start(t, "settings", c, SettingsNow, "change")
    /\ GetStale(t)
    /\ UNCHANGED <<flash, eebuf, meant, clash>>

\* The change; nothing is saved when it is none (volume and tone).
Change(t) ==
    /\ pc[t] = "change"
    /\ \E v \in Value :
         IF cell[t] # Net /\ dev[t][cell[t]] = v
         THEN Done(t) /\ stale' = stale \ {t}
         ELSE /\ dev' = [dev EXCEPT ![t] = [@ EXCEPT ![cell[t]] = v]]
              /\ Goto(t, "save") /\ UNCHANGED <<op, cell, stale>>
    /\ UNCHANGED <<flash, eebuf, meant, clash>>

\* /setStation: saveStation.
SetStation(t) ==
    /\ pc[t] = "idle" /\ t \in Web
    /\ \E p \in Station, v \in Value :
          Start(t, "station", p, [c \in {p} |-> v], "save")
    /\ UNCHANGED <<flash, eebuf, hist>>

\* /clear: eeEraseStations.
Clear(t) ==
    /\ pc[t] = "idle" /\ t \in Web
    /\ Start(t, "clear", 0, Zeros("clear", 0), "save")
    /\ UNCHANGED <<flash, eebuf, hist>>

\* sys.erase: eeEraseAll.
EraseAll(t) ==
    /\ pc[t] = "idle" /\ t \in Console
    /\ Start(t, "eraseAll", 0, Zeros("eraseAll", 0), "save")
    /\ UNCHANGED <<flash, eebuf, hist>>

\* The boot sequence reads the settings; the first time, or when they are gone,
\* it takes the network from the SDK and saves.
Boot(t) ==
    /\ pc[t] = "boot"
    /\ IF flash[Net] \in {Blank, Zero}
       THEN \E v \in Value \cup {Zero} :
               Start(t, "first", Net, [SettingsNow EXCEPT ![Net] = v], "save")
       ELSE Start(t, "last", Net, SettingsNow, "connect")
    /\ GetStale(t)
    /\ UNCHANGED <<flash, eebuf, meant, clash>>

\* The WiFi is there, or is not to be had: the network of the copy is updated,
\* and all of it saved.
WifiUp(t) ==
    /\ pc[t] = "connect"
    /\ \E v \in Value \cup {dev[t][Net]} :
          dev' = [dev EXCEPT ![t] = [@ EXCEPT ![Net] = v]]
    /\ Goto(t, "save")
    /\ UNCHANGED <<flash, op, cell, eebuf, hist>>

\* eeEraseStations sleeps a tick between two stations.
Wake(t) == /\ pc[t] = "delay" /\ Goto(t, "save")
           /\ UNCHANGED <<flash, op, cell, dev, eebuf, hist>>

-----------------------------------------------------------------------------
(* eeSetData *)

\* No heap for a sector: nothing is written, and nobody is told.
NoHeap(t) ==
    /\ pc[t] = "save"
    /\ Continue(t)
    /\ stale' = IF op'[t] = "none" THEN stale \ {t} ELSE stale
    /\ UNCHANGED <<flash, eebuf, meant, clash>>

ReadSector(t) ==
    /\ pc[t] = "save" /\ Goto(t, "copied")
    /\ eebuf' = [eebuf EXCEPT ![t] = [c \in InSector(SectorOf(t)) |-> flash[c]]]
    /\ LET others == {u \in Tasks \ {t} : InSetData(u) /\ SectorOf(u) = SectorOf(t)}
       IN  clash' = IF others = {} THEN clash ELSE clash \cup others \cup {t}
    /\ UNCHANGED <<flash, op, cell, dev, meant, stale>>

EraseSector(t) ==
    /\ pc[t] = "copied" /\ Goto(t, "erased")
    /\ flash' = [c \in Cells |-> IF Sector(c) = SectorOf(t) THEN Blank ELSE flash[c]]
    /\ UNCHANGED <<op, cell, dev, eebuf, hist>>

\* Writing can only clear bits.
Clears(old, new) ==
    IF old = Blank \/ old = new THEN new
    ELSE IF new = Blank THEN old
    ELSE IF Zero \in {old, new} THEN Zero ELSE Mixed

\* Mutant of MergedAt: the rest of the sector is not written back.
MergedAlone(t, c) == IF c \in DOMAIN dev[t] THEN dev[t][c] ELSE Blank
MergedAt(t, c) == IF c \in DOMAIN dev[t] THEN dev[t][c] ELSE eebuf[t][c]

\* What a write of t spoils, or may spoil.
Spoilt(t) == IF t \in clash THEN InSector(SectorOf(t))
             ELSE IF t \in stale THEN Target(t) \ Purpose(t) ELSE {}

WriteSector(t) ==
    /\ pc[t] = "erased"
    /\ flash' = [c \in Cells |-> IF Sector(c) = SectorOf(t)
                                 THEN Clears(flash[c], MergedAt(t, c)) ELSE flash[c]]
    /\ eebuf' = [eebuf EXCEPT ![t] = Nothing]
    /\ meant' = [c \in Cells |-> IF c \in Spoilt(t) THEN Lost
                                 ELSE IF c \in Purpose(t) THEN dev[t][c] ELSE meant[c]]
    /\ clash' = clash \ {t}
    /\ stale' = (stale \cup (IF Settings \subseteq Target(t) THEN HoldsSettings ELSE {}))
                  \ {t}
    /\ Continue(t)

-----------------------------------------------------------------------------
\* Power is lost, the program crashes, or /wifi restarts it: all tasks are gone.
Reset ==
    /\ pc' = On /\ op' = [t \in Tasks |-> "none"] /\ cell' = [t \in Tasks |-> 0]
    /\ dev' = [t \in Tasks |-> Nothing] /\ eebuf' = [t \in Tasks |-> Nothing]
    /\ meant' = [c \in Cells |-> IF Erasing(Sector(c)) THEN Lost ELSE meant[c]]
    /\ clash' = {} /\ stale' = {}
    /\ UNCHANGED flash

Command(t) == \/ GetSettings(t) \/ SetStation(t) \/ Clear(t) \/ EraseAll(t)
SetData(t) == NoHeap(t) \/ ReadSector(t) \/ EraseSector(t) \/ WriteSector(t)
Step(t)    == Change(t) \/ Boot(t) \/ WifiUp(t) \/ Wake(t) \/ SetData(t)

Next == \/ \E t \in Tasks : Runs(t) /\ ((Up /\ Command(t)) \/ Step(t))
        \/ Reset

Spec == Init /\ [][Next]_vars

-----------------------------------------------------------------------------
(* Properties *)

\* Types; and a task in eeSetData has the sector it is going to write back.
TypeOK ==
    /\ flash \in [Cells -> Content] /\ meant \in [Cells -> Content \cup {Lost}]
    /\ \A t \in Tasks :
         /\ pc[t] \in {"boot", "idle", "change", "connect", "delay", "save",
                       "copied", "erased"}
         /\ op[t] \in {"none", "settings", "station", "clear", "eraseAll",
                       "first", "last"}
         /\ cell[t] \in Cells \cup Nat   \* Nat: a sector
         /\ InSetData(t) => /\ DOMAIN eebuf[t] = InSector(SectorOf(t))
                            /\ DOMAIN dev[t] = Target(t)
    /\ clash \subseteq Tasks /\ stale \subseteq Tasks

\* Whatever the tasks do and whenever power is lost, a setting or station that
\* is in a sector nobody is rewriting has the value last saved to it, but for
\* what was lost: the sector that was erased when power was lost, the sector that
\* two tasks rewrote at the same time, the other settings in a block that was
\* saved from an out-of-date copy.
FlashIsMeant ==
    \A c \in Cells : flash[c] = meant[c] \/ meant[c] = Lost \/ Erasing(Sector(c))
=============================================================================
