-------------------------------- MODULE Sound --------------------------------
(***************************************************************************)
(* The tone and the volume: the registers of the VS1053 (vs1053.c), the    *)
(* semaphore sSPI of the bus to it, the settings kept in flash, and the    *)
(* tasks that change them: web server tasks (/sound, /soundvol), websocket *)
(* tasks (wsvol) and the console (cli.vol); /wifi, wifi.con and the boot,  *)
(* which save a whole copy of the settings for what they hold of the WiFi; *)
(* and sys.erase.  clientTask makes the chip cancel the stream before when *)
(* a new one begins (VS1053_flush_cancel), and restarts it if that does    *)
(* not help.                                                               *)
(*                                                                         *)
(* Scheduling.  clientTask has priority 5, websocket tasks 4, web server   *)
(* tasks 3, the console 2.  The highest one that is ready runs; waiting for*)
(* the chip's DREQ does not block a task, waiting for sSPI does.  sSPI is  *)
(* held for one access to a register; a setter of the tone reads the       *)
(* register and writes it back in two accesses.  vsTask and the RAM, which *)
(* use sSPI to move audio, are in AudioBuffer: they touch no register.     *)
(*                                                                         *)
(* Data.  Parameters are numbers, cut to the byte they are kept in; what   *)
(* the chip has of one after a reset is Cold.  The register of the volume  *)
(* holds a function of it (log10): here, the volume itself.  Reading and   *)
(* writing the settings is one step: what can happen within is the subject *)
(* of Eeprom.                                                              *)
(*                                                                         *)
(* spoilt, mine, late, clash and stale are history, see SettingsAgree.     *)
(***************************************************************************)
EXTENDS Integers

CONSTANTS Web, Ws, Console,   \* tasks that run commands
          Blocks,             \* the settings there can be at first
          Cold,               \* a parameter of the chip that is not set
          Request,            \* the /sound requests: numbers for some parameters
          Volumes,            \* the numbers volume commands come with
          POLLS,              \* how often flush_cancel looks for CANCEL (513)
          EVENTS,             \* bound: of commands and new streams
          Client, None        \* clientTask, nobody

Callers == Web \cup Ws \cup Console
Tasks   == Callers \cup {Client}

\* Which parameters share a register: SPI_BASS, SPI_MODE and SPI_VOL.
Bass == {"bass", "treble", "bassfreq", "treblefreq"}
Register(p) == IF p \in Bass THEN Bass ELSE {p}
Tone  == Bass \cup {"spacial"}
Param == Tone \cup {"vol"}

\* In which order /sound treats them.
Place == [bass |-> 1, treble |-> 2, bassfreq |-> 3, treblefreq |-> 4,
          spacial |-> 5, vol |-> 6]

\* struct device_settings: the treble and its frequency are int8, the others
\* uint8.
Field(p) == IF p \in {"treble", "treblefreq"} THEN -128..127 ELSE 0..255
Block    == {f \in [Param -> Int] : \A p \in Param : f[p] \in Field(p)}

\* What becomes of a number when it is kept.
Stored(p, n) == IF p \in {"treble", "treblefreq"} THEN ((n + 128) % 256) - 128
                                                 ELSE n % 256

\* What the setters accept.  That of the bass makes 15 of more, the others do
\* nothing.
Valid == [bass |-> 0..15, treble |-> -8..7, bassfreq |-> 2..15,
          treblefreq |-> 0..15, spacial |-> 0..3, vol |-> 0..255]
Takes(p, v) == p = "bass" \/ v \in Valid[p]
AsSet(p, v) == IF v \in Valid[p] THEN v ELSE IF p = "bass" THEN 15 ELSE Cold

ASSUME SoundAssumption ==
    /\ Cold \notin Int /\ POLLS \in Nat /\ EVENTS \in Nat
    /\ Blocks \subseteq Block /\ Volumes \subseteq Int
    /\ \A r \in Request : r \in [DOMAIN r -> Int] /\ DOMAIN r \in (SUBSET Tone) \ {{}}
    /\ {Client, None} \cap Callers = {} /\ Client # None

VARIABLES chip, cancel,   \* the registers; the bit CANCEL of SPI_MODE
          flash,          \* the settings
          sSPI,           \* the task that holds it, or None
          pc,             \* of each task: where it is
          req,            \* the parameters it has yet to set
          dev, changed,   \* its copy of the settings, is it to be saved
          reg, bit,       \* its copy of a register; of CANCEL
          polls,          \* y in flush_cancel
          begun,          \* commands and streams so far
          spoilt, mine, late, clash, stale    \* history, see SettingsAgree

local == <<req, dev, changed, reg, bit>>
hist  == <<spoilt, mine, late, clash, stale>>
vars  == <<chip, cancel, flash, sSPI, pc, local, polls, begun, hist>>

Nothing == [p \in {} |-> Cold]
NoCopy  == [t \in Callers |-> Nothing]
NoSet   == [t \in Callers |-> {}]

\* What vsTask has done at boot: every parameter set as the settings say.
Booted(f) == [p \in Param |-> AsSet(p, f[p])]

\* After the boot the task of the console has the settings it began with, and
\* saves them when the WiFi is up.
AtBoot  == [t \in Tasks |-> IF t \in Console THEN "save" ELSE "idle"]
Loaded(f) == [t \in Callers |-> IF t \in Console THEN f ELSE Nothing]
Dirty   == [t \in Callers |-> t \in Console]
No      == [t \in Callers |-> FALSE]

Init == /\ flash \in Blocks
        /\ chip = Booted(flash) /\ cancel = FALSE /\ sSPI = None
        /\ pc = AtBoot /\ req = NoCopy /\ dev = Loaded(flash) /\ reg = NoCopy
        /\ changed = Dirty /\ bit = No /\ polls = 0 /\ begun = 0
        /\ spoilt = {} /\ mine = NoSet /\ late = NoSet /\ clash = {} /\ stale = {}

-----------------------------------------------------------------------------
(* Scheduling, and sSPI *)

\* Mutant: clientTask runs like a web server task.
PrioLow(t) == IF t \in Ws THEN 4 ELSE IF t \in Console THEN 2 ELSE 3
Prio(t) == IF t = Client THEN 5
           ELSE IF t \in Ws THEN 4
           ELSE IF t \in Web THEN 3 ELSE 2

\* Where a task waits for sSPI, and where it is when it has it.
Held == [read |-> "reading", write |-> "writing",
         wram |-> "addressing", modeRead |-> "modeReading",
         modeWrite |-> "modeWriting", poll |-> "polling", nudge |-> "nudging",
         fill |-> "filling"]

Ready(t) == /\ pc[t] # "idle"
            /\ pc[t] \in DOMAIN Held => sSPI = None
Runs(t)  == Ready(t) /\ \A u \in Tasks : Ready(u) => Prio(u) <= Prio(t)

Goto(t, place) == pc' = [pc EXCEPT ![t] = place]

\* spi_take_semaphore
Take(t) == /\ pc[t] \in DOMAIN Held
           /\ sSPI' = t
           /\ Goto(t, Held[pc[t]])
           /\ UNCHANGED <<chip, cancel, flash, local, polls, begun, hist>>

-----------------------------------------------------------------------------
(* Commands: /sound sets parameters of the tone one after the other; /wifi  *)
(* and wifi.con save the settings and set nothing, sys.erase clears them;   *)
(* all others set the volume.                                               *)

\* The parameter that is next; where it is set.  A setter of the tone reads
\* its register first, that of the volume does not.
Todo(t) == CHOOSE p \in DOMAIN req[t] : \A q \in DOMAIN req[t] : Place[p] <= Place[q]
SetterOf(r) == IF r = Nothing THEN "save"
               ELSE IF "vol" \in DOMAIN r THEN "write" ELSE "read"

\* The commands of a task; cli.vol checks its number.
Sets(t) == [{"vol"} -> IF t \in Console THEN Volumes \cap 0..254 ELSE Volumes]
           \cup (IF t \in Web THEN Request ELSE {})
           \cup (IF t \in Web \cup Console THEN {Nothing} ELSE {})

\* A command arrives.
Begin(t) ==
    /\ pc[t] = "idle" /\ begun < EVENTS
    /\ begun' = begun + 1
    /\ \/ \E r \in Sets(t) : req' = [req EXCEPT ![t] = r] /\ Goto(t, "get")
       \/ t \in Console /\ req' = [req EXCEPT ![t] = Nothing] /\ Goto(t, "erase")
    /\ UNCHANGED <<chip, cancel, flash, sSPI, dev, changed, reg, bit, polls, hist>>

\* getDeviceSettings.  setVolume copes with NULL for want of memory; for the
\* others that is a crash.
Get(t) ==
    /\ pc[t] = "get"
    /\ \/ dev' = [dev EXCEPT ![t] = flash]
       \/ "vol" \in DOMAIN req[t] /\ dev' = [dev EXCEPT ![t] = Nothing]
    /\ changed' = [changed EXCEPT ![t] = (req[t] = Nothing)]
    /\ Goto(t, SetterOf(req[t]))
    /\ mine' = [mine EXCEPT ![t] = DOMAIN req[t]]
    /\ UNCHANGED <<chip, cancel, flash, sSPI, req, reg, bit, polls, begun,
                   spoilt, late, clash, stale>>

\* VS1053_ReadRegister; the setter goes on to write.
Read(t) ==
    /\ pc[t] = "reading" /\ Takes(Todo(t), Stored(Todo(t), req[t][Todo(t)]))
    /\ sSPI' = None
    /\ reg' = [reg EXCEPT ![t] = [q \in Register(Todo(t)) |-> chip[q]]]
    /\ bit' = [bit EXCEPT ![t] = cancel]
    /\ Goto(t, "write")
    /\ clash' = clash \ {t}
    /\ UNCHANGED <<chip, cancel, flash, req, dev, changed, polls, begun,
                   spoilt, mine, late, stale>>

\* The change is noted, whether the chip has taken the number or not.
Note(t, p) ==
    LET rest == [q \in DOMAIN req[t] \ {p} |-> req[t][q]]
    IN  /\ IF dev[t] = Nothing THEN UNCHANGED <<dev, changed>>
           ELSE /\ dev' = [dev EXCEPT ![t][p] = Stored(p, req[t][p])]
                /\ changed' = [changed EXCEPT ![t] = @ \/ dev[t][p] # req[t][p]]
        /\ req' = [req EXCEPT ![t] = rest]
        /\ Goto(t, SetterOf(rest))

\* VS1053_ReadRegister in a setter that refuses the number.
Refuse(t) ==
    LET p == Todo(t)
    IN  /\ pc[t] = "reading" /\ ~Takes(p, Stored(p, req[t][p]))
        /\ sSPI' = None
        /\ Note(t, p)
        /\ late' = [late EXCEPT ![t] = @ \cup {p}]
        /\ UNCHANGED <<chip, cancel, flash, reg, bit, polls, begun,
                       spoilt, mine, clash, stale>>

\* What is written to the register of the parameter.
Back(t, q) == IF q = Todo(t) THEN AsSet(q, Stored(q, req[t][q])) ELSE reg[t][q]

\* VS1053_WriteRegister.
Write(t) ==
    LET p   == Todo(t)
        hit == IF t \in clash THEN Register(p) ELSE {p}
    IN  /\ pc[t] = "writing"
        /\ sSPI' = None
        /\ chip' = [q \in Param |-> IF q \in Register(p) THEN Back(t, q) ELSE chip[q]]
        /\ cancel' = IF p = "spacial" THEN bit[t] ELSE cancel
        /\ Note(t, p)
        /\ late' = [u \in Callers |-> IF u = t THEN late[t] \ {p}
                                              ELSE late[u] \cup (hit \cap mine[u])]
        /\ clash' = (clash \ {t}) \cup
                    {u \in Callers \ {t} : p \in DOMAIN reg[u] \cap Bass}
        /\ spoilt' = spoilt \cup (hit \ {p})
        /\ reg' = [reg EXCEPT ![t] = Nothing] /\ bit' = [bit EXCEPT ![t] = FALSE]
        /\ UNCHANGED <<flash, polls, begun, mine, stale>>

\* Mutant: the tone's settings are saved, the volume's are not.
SaveTone(t) == IF changed[t] /\ mine[t] # {"vol"} THEN dev[t] ELSE flash
\* saveDeviceSettings, if something has changed.
Saved(t) == IF changed[t] THEN dev[t] ELSE flash

\* Who has a copy of the settings.
Holders == {u \in Callers : dev[u] # Nothing}

Save(t) ==
    /\ pc[t] = "save"
    /\ flash' = Saved(t)
    /\ Goto(t, "idle")
    /\ stale' = (IF changed[t] THEN Holders ELSE stale) \ {t}
    /\ LET bad == late[t] \cup
                  (IF dev[t] = Nothing \/ (~changed[t] /\ t \in stale) THEN Param ELSE {})
       IN  spoilt' = (spoilt \ mine[t]) \cup (mine[t] \cap bad) \cup
                     (IF changed[t] /\ t \in stale THEN Param \ mine[t] ELSE {})
    /\ dev' = [dev EXCEPT ![t] = Nothing]
    /\ changed' = [changed EXCEPT ![t] = FALSE]
    /\ mine' = [mine EXCEPT ![t] = {}] /\ late' = [late EXCEPT ![t] = {}]
    /\ UNCHANGED <<chip, cancel, sSPI, req, reg, bit, polls, begun, clash>>

\* eeEraseAll
Erase(t) ==
    /\ pc[t] = "erase"
    /\ flash' = [p \in Param |-> 0]
    /\ Goto(t, "idle")
    /\ stale' = Holders /\ spoilt' = Param
    /\ UNCHANGED <<chip, cancel, sSPI, local, polls, begun, mine, late, clash>>

-----------------------------------------------------------------------------
(* clientTask *)

\* A header has come: flush_cancel(1).  (The calls in clientTask's clean up are
\* dead code: playing has just been cleared.)
Flush == /\ pc[Client] = "idle" /\ begun < EVENTS
         /\ begun' = begun + 1
         /\ Goto(Client, "wram")
         /\ polls' = 0
         /\ UNCHANGED <<chip, cancel, flash, sSPI, local, hist>>

\* A step of flush_cancel that ends with giving sSPI.
Give(here, there) == /\ pc[Client] = here
                     /\ sSPI' = None
                     /\ Goto(Client, there)
                     /\ UNCHANGED <<flash, local, begun>>

\* The byte to fill with is read from the chip's memory; SPI_MODE is read; and
\* written with CANCEL set.
ReadFillByte == /\ Give("addressing", "modeRead")
                /\ UNCHANGED <<chip, cancel, polls, hist>>
ReadMode     == /\ Give("modeReading", "modeWrite")
                /\ UNCHANGED <<chip, cancel, polls, hist>>
SetCancel    == /\ Give("modeWriting", "poll")
                /\ cancel' = TRUE
                /\ UNCHANGED <<chip, polls, hist>>

\* Mutant: y is not counted.
NudgeUncounted == /\ polls <= POLLS
                  /\ Give("nudging", "poll")
                  /\ UNCHANGED <<chip, cancel, polls, hist>>

\* Is CANCEL clear?  If not, 32 bytes are sent.
Poll  == /\ Give("polling", IF cancel THEN "nudge" ELSE "fill")
         /\ polls' = IF cancel THEN polls ELSE 0
         /\ UNCHANGED <<chip, cancel, hist>>
Nudge == /\ polls <= POLLS
         /\ Give("nudging", "poll")
         /\ polls' = polls + 1
         /\ UNCHANGED <<chip, cancel, hist>>

\* Too often: VS1053_Start, which resets the chip without sSPI.
Restart == /\ polls > POLLS
           /\ Give("nudging", "fill")
           /\ chip' = [p \in Param |-> Cold] /\ cancel' = FALSE
           /\ spoilt' = Param
           /\ late' = mine /\ polls' = 0
           /\ UNCHANGED <<mine, clash, stale>>
Fill == /\ Give("filling", "idle")
        /\ UNCHANGED <<chip, cancel, polls, hist>>

\* The chip has cancelled its stream.
ChipCancels == /\ cancel
               /\ cancel' = FALSE
               /\ UNCHANGED <<chip, flash, sSPI, pc, local, polls, begun, hist>>

-----------------------------------------------------------------------------
\* A crash, or the power was off.
Reboot == /\ chip' = Booted(flash) /\ cancel' = FALSE /\ sSPI' = None
          /\ pc' = AtBoot /\ req' = NoCopy /\ dev' = Loaded(flash) /\ reg' = NoCopy
          /\ changed' = Dirty /\ bit' = No /\ polls' = 0
          /\ spoilt' = {} /\ mine' = NoSet /\ late' = NoSet /\ clash' = {}
          /\ stale' = {}
          /\ UNCHANGED <<flash, begun>>

Command(t) == Runs(t) /\ (\/ Take(t) \/ Get(t) \/ Read(t) \/ Refuse(t) \/ Write(t)
                          \/ Save(t) \/ Erase(t))
FlushStep  == Runs(Client) /\ (\/ Take(Client) \/ ReadFillByte \/ ReadMode \/ SetCancel
                               \/ Poll \/ Nudge \/ Restart \/ Fill)

Next == \/ \E t \in Callers : Begin(t) \/ Command(t)
        \/ Flush \/ FlushStep \/ ChipCancels
        \/ Reboot

\* The processor always runs a ready task of the highest priority.
Spec == /\ Init /\ [][Next]_vars
        /\ \A t \in Callers : WF_vars(Command(t))
        /\ WF_vars(FlushStep)

-----------------------------------------------------------------------------
(* Properties *)

Places == {"idle", "get", "save", "erase"} \cup DOMAIN Held \cup {Held[p] : p \in DOMAIN Held}
Copy   == Block \cup {Nothing}

\* Types; sSPI is held by the task that is at an access, and by no other.
TypeOK ==
    /\ chip \in [Param -> Int \cup {Cold}] /\ flash \in Block
    /\ cancel \in BOOLEAN /\ polls \in 0..POLLS + 1 /\ begun \in 0..EVENTS
    /\ pc \in [Tasks -> Places]
    /\ dev \in [Callers -> Copy]
    /\ \A t \in Callers : DOMAIN req[t] \subseteq mine[t] \cup {"vol"} \cup Tone
    /\ \A t \in Tasks : (sSPI = t) = (pc[t] \in {Held[p] : p \in DOMAIN Held})

\* At rest the chip is set as a restart would set it from the settings, but for
\* parameters that are spoilt: they were last set by a command
\*   - after whose access another one set them, before it saved;
\*   - with a number their setter refuses, which is saved all the same;
\*   - that did not save them for want of memory, or because they were the same
\*     in a copy of the settings which was out of date;
\* or an old value came back with a register or a copy of the settings that was
\* out of date when it was written; or the chip was restarted, or the settings
\* were cleared since.  The next command that sets a parameter alone, to a number
\* its setter takes, repairs it.
SettingsAgree ==
    (\A t \in Tasks : pc[t] = "idle") =>
        \A p \in Param \ spoilt : chip[p] = AsSet(p, flash[p])

\* While clientTask looks for CANCEL nobody else is at the bus.  VS1053_Start,
\* which does not take sSPI, breaks into no access, and no setter of SPI_MODE
\* sets or clears CANCEL.
FlushUndisturbed ==
    /\ pc[Client] \notin {"idle", "wram"} => sSPI \in {None, Client}
    /\ cancel => pc[Client] \in {"poll", "polling", "nudge", "nudging"}

\* flush_cancel comes to an end, whatever the chip does.
FlushEnds == pc[Client] = "wram" ~> pc[Client] = "idle"
=============================================================================
