----------------------------- MODULE Sound_proofs -----------------------------
(***************************************************************************)
(* Proofs about Sound: for every set of tasks, settings to begin with and  *)
(* numbers that come with commands, the chip is at rest as a restart would *)
(* set it, but for what SettingsAgree calls spoilt, and the flush of a     *)
(* stream is not disturbed.                                                *)
(*                                                                         *)
(* The second is a matter of priorities (Bus): when another task runs,     *)
(* clientTask is idle or waits for its first access.  The first is not:    *)
(* it needs, for each command, what its copies of the settings (Mine, Kept)*)
(* and of a register (Copied, Owned) are worth.                            *)
(***************************************************************************)
EXTENDS Sound, TLAPS

CallerPlaces == {"idle", "get", "read", "reading", "write", "writing", "save",
                 "erase"}
ClientPlaces == {"idle", "wram", "addressing", "modeRead", "modeReading", "modeWrite",
                 "modeWriting", "poll", "polling", "nudge", "nudging", "fill", "filling"}
AtAccess     == {"reading", "writing", "addressing", "modeReading", "modeWriting",
                 "polling", "nudging", "filling"}

Shape ==
    /\ chip \in [Param -> Int \cup {Cold}] /\ flash \in Block
    /\ cancel \in BOOLEAN /\ polls \in 0..POLLS + 1 /\ begun \in 0..EVENTS
    /\ pc \in [Tasks -> CallerPlaces \cup ClientPlaces] /\ pc[Client] \in ClientPlaces
    /\ \A t \in Callers : pc[t] \in CallerPlaces
    /\ DOMAIN req = Callers /\ dev \in [Callers -> Copy] /\ changed \in [Callers -> BOOLEAN]
    /\ DOMAIN reg = Callers /\ DOMAIN bit = Callers
    /\ spoilt \subseteq Param /\ clash \subseteq Callers /\ stale \subseteq Callers
    /\ mine \in [Callers -> SUBSET Param] /\ late \in [Callers -> SUBSET Param]

\* What the local variables of a command are for.
TaskInv(t) ==
    /\ DOMAIN req[t] \subseteq Tone \/ DOMAIN req[t] = {"vol"}
    /\ req[t] \in [DOMAIN req[t] -> Int]
    /\ pc[t] \in {"idle", "get", "erase"} => mine[t] = {} /\ dev[t] = Nothing
    /\ pc[t] \notin {"idle", "get", "erase"} => DOMAIN req[t] \subseteq mine[t]
    /\ pc[t] \in {"read", "reading", "write", "writing"} => DOMAIN req[t] # {}
    /\ pc[t] \in {"read", "reading"} => DOMAIN req[t] \subseteq Tone
    /\ pc[t] = "save" => DOMAIN req[t] = {}
    /\ changed[t] \/ t \in stale => dev[t] # Nothing
    /\ late[t] # {} => mine[t] # {}
    /\ pc[t] \notin {"write", "writing"} => reg[t] = Nothing
    /\ \/ reg[t] = Nothing
       \/ reg[t] \in [Register(Todo(t)) -> Int \cup {Cold}]
    /\ pc[t] \in {"write", "writing"} /\ DOMAIN req[t] # {"vol"} => reg[t] # Nothing

\* What t has set, or tried to, and not saved yet.
Written(t) == mine[t] \ DOMAIN req[t]

Agree ==
    \A p \in Param \ spoilt :
        (\A t \in Callers : p \notin Written(t)) => chip[p] = AsSet(p, flash[p])

\* What t was the last to set is in its copy of the settings.
Mine(t) ==
    dev[t] # Nothing =>
        \A p \in Written(t) \ late[t] : chip[p] = AsSet(p, dev[t][p])

\* The rest of its copy is what is in flash.
Kept(t) ==
    dev[t] # Nothing /\ t \notin stale =>
        \A p \in Param : p \notin Written(t) \/ ~changed[t] => dev[t][p] = flash[p]

\* Nobody relies on what the chip has of p.
Given(p) == p \in spoilt /\ \A t \in Callers : p \in Written(t) => p \in late[t]

\* Its copy of a register is what the chip has.
Copied(t) ==
    t \notin clash => \A q \in DOMAIN reg[t] \cap Bass : reg[t][q] = chip[q] \/ Given(q)

\* What t was the last to set is in its copy of the register.
Owned(t) ==
    dev[t] # Nothing =>
        \A q \in (DOMAIN reg[t] \cap Bass \cap Written(t)) \ late[t] :
            reg[t][q] = AsSet(q, dev[t][q])

Bus ==
    /\ sSPI \in Tasks \cup {None}
    /\ \A t \in Tasks : sSPI = t <=> pc[t] \in AtAccess
    /\ FlushUndisturbed
    /\ \A t \in Callers : bit[t] = FALSE

Data == Agree /\ \A t \in Callers : /\ TaskInv(t) /\ Mine(t) /\ Kept(t)
                                    /\ Copied(t) /\ Owned(t)

IInv == Shape /\ Bus /\ Data

-----------------------------------------------------------------------------
LEMMA Params ==
    /\ Param = {"bass", "treble", "bassfreq", "treblefreq", "spacial", "vol"}
    /\ Bass \subseteq Tone /\ Tone \subseteq Param /\ "vol" \notin Tone
    /\ \A p \in Param : p \in Register(p) /\ Register(p) \subseteq Param
    /\ \A p \in Param : Register(p) \ {p} # {} => Register(p) = Bass /\ p \in Bass
    /\ \A p \in Bass : Register(p) = Bass
BY DEF Param, Tone, Bass, Register

\* There is a next parameter.
LEMMA Todos ==
    ASSUME NEW t \in Callers, DOMAIN req[t] # {}, DOMAIN req[t] \subseteq Param
    PROVE  Todo(t) \in DOMAIN req[t]
<1> DEFINE S == DOMAIN req[t]
<1>1. \E p \in S : \A q \in S : Place[p] <= Place[q]
  <2>1. \A q \in S : Place[q] \in 1..6 /\ (q = "bass" <=> Place[q] = 1)
                     /\ (q = "treble" <=> Place[q] = 2) /\ (q = "bassfreq" <=> Place[q] = 3)
                     /\ (q = "treblefreq" <=> Place[q] = 4) /\ (q = "spacial" <=> Place[q] = 5)
    BY Params DEF Place
  <2>2. CASE "bass" \in S       BY <2>1, <2>2
  <2>3. CASE "bass" \notin S /\ "treble" \in S       BY <2>1, <2>3
  <2>4. CASE "bass" \notin S /\ "treble" \notin S /\ "bassfreq" \in S       BY <2>1, <2>4
  <2>5. CASE S \cap {"bass", "treble", "bassfreq"} = {} /\ "treblefreq" \in S
    BY <2>1, <2>5
  <2>6. CASE S \cap {"bass", "treble", "bassfreq", "treblefreq"} = {}
    BY <2>1, <2>6, Params
  <2> QED
    BY <2>2, <2>3, <2>4, <2>5, <2>6
<1> QED
  BY <1>1, Zenon DEF Todo

\* The places of the semaphore.
LEMMA HeldPlaces ==
    /\ DOMAIN Held = {"read", "write", "wram", "modeRead", "modeWrite", "poll", "nudge", "fill"}
    /\ \A p \in DOMAIN Held : Held[p] \in AtAccess
    /\ {Held[p] : p \in DOMAIN Held} = AtAccess
    /\ DOMAIN Held \cap AtAccess = {}
    /\ Held["read"] = "reading" /\ Held["write"] = "writing"
    /\ \A p \in DOMAIN Held \cap ClientPlaces : Held[p] \in ClientPlaces \ {"idle", "wram"}
    /\ \A p \in DOMAIN Held \cap CallerPlaces : Held[p] \in CallerPlaces
BY DEF Held, AtAccess, ClientPlaces, CallerPlaces

LEMMA Setters ==
    ASSUME NEW S \in SUBSET Param, NEW r \in [S -> Int]
    PROVE  /\ S = {} => SetterOf(r) = "save"
           /\ S = {"vol"} => SetterOf(r) = "write"
           /\ S # {} /\ S \subseteq Tone => SetterOf(r) = "read"
<1>1. r = Nothing <=> S = {}
  BY DEF Nothing
<1> QED
  BY <1>1, Params DEF SetterOf

LEMMA People ==
    /\ Client \notin Callers /\ None \notin Tasks /\ Client \in Tasks
    /\ Callers \subseteq Tasks /\ Tasks = Callers \cup {Client}
    /\ \A t \in Callers : Prio(t) < Prio(Client)
BY SoundAssumption DEF Callers, Tasks, Prio

\* Numbers: what is kept is a field's, and a field's is kept as it is.
LEMMA Numbers ==
    ASSUME NEW p \in Param, NEW n \in Int
    PROVE  /\ Stored(p, n) \in Field(p) /\ Field(p) \subseteq Int
           /\ n \in Field(p) => Stored(p, n) = n
           /\ AsSet(p, n) \in Int \cup {Cold}
<1>1. CASE p \in {"treble", "treblefreq"}
  BY <1>1, Params DEF Stored, Field, AsSet, Valid
<1>2. CASE p \notin {"treble", "treblefreq"}
  BY <1>2, Params DEF Stored, Field, AsSet, Valid
<1> QED
  BY <1>1, <1>2

\* A copy of the settings, or none.
LEMMA Copies == /\ Nothing \notin Block /\ DOMAIN Nothing = {}
                /\ \A d \in Copy : d # Nothing => d \in Block
                /\ \A f \in Block : f \in Copy /\ f # Nothing /\ f \in [Param -> Int]
<1>1. Param # {} /\ DOMAIN Nothing = {}
  BY Params DEF Nothing
<1> QED
  BY <1>1 DEF Copy, Block

LEMMA Bounds == POLLS \in Nat /\ EVENTS \in Nat
BY SoundAssumption, Zenon

LEMMA Requests == \A r \in Request : r \in [DOMAIN r -> Int] /\ DOMAIN r \subseteq Tone
BY SoundAssumption, Zenon

\* The state after a boot; the console's task has still to save.
Fresh == /\ flash \in Block /\ begun \in 0..EVENTS
         /\ chip = Booted(flash) /\ cancel = FALSE /\ sSPI = None
         /\ pc = AtBoot /\ req = NoCopy /\ dev = Loaded(flash) /\ reg = NoCopy
         /\ changed = Dirty /\ bit = No /\ polls = 0
         /\ spoilt = {} /\ mine = NoSet /\ late = NoSet /\ clash = {} /\ stale = {}

LEMMA FreshInv == Fresh => IInv
<1> SUFFICES ASSUME Fresh PROVE IInv
  OBVIOUS
<1> USE DEF Fresh
<1>1. Shape
  <2>1. cancel \in BOOLEAN /\ polls \in 0..POLLS + 1
    <3>1. 0 \in 0..POLLS + 1
      BY Bounds
    <3> QED
      BY <3>1
  <2>2. /\ pc \in [Tasks -> CallerPlaces \cup ClientPlaces] /\ pc[Client] \in ClientPlaces
        /\ \A t \in Callers : pc[t] \in CallerPlaces
    BY People DEF AtBoot, ClientPlaces, CallerPlaces, Callers
  <2>3. chip \in [Param -> Int \cup {Cold}]
    <3>1. \A p \in Param : AsSet(p, flash[p]) \in Int \cup {Cold}
      BY Copies, Numbers
    <3> QED
      BY <3>1 DEF Booted
  <2>4. dev \in [Callers -> Copy] /\ changed \in [Callers -> BOOLEAN]
    BY DEF Loaded, Dirty, Copy
  <2>5. mine \in [Callers -> SUBSET Param] /\ late \in [Callers -> SUBSET Param]
    BY DEF NoSet
  <2> QED
    BY <2>1, <2>2, <2>3, <2>4, <2>5 DEF Shape, NoCopy, No
<1>2. Bus
  BY People DEF Bus, AtBoot, No, AtAccess, FlushUndisturbed
<1>3. Agree
  BY DEF Agree, Booted
<1>4. ASSUME NEW t \in Callers
      PROVE  TaskInv(t) /\ Mine(t) /\ Kept(t) /\ Copied(t) /\ Owned(t)
  <2>1. /\ req[t] = Nothing /\ reg[t] = Nothing /\ mine[t] = {} /\ late[t] = {}
        /\ stale = {} /\ pc[t] = (IF t \in Console THEN "save" ELSE "idle")
        /\ dev[t] = (IF t \in Console THEN flash ELSE Nothing) /\ changed[t] = (t \in Console)
    BY People DEF NoCopy, NoSet, Loaded, Dirty, AtBoot
  <2>2. DOMAIN req[t] = {} /\ DOMAIN reg[t] = {} /\ req[t] \in [DOMAIN req[t] -> Int]
    BY <2>1 DEF Nothing
  <2>3. Written(t) = {}
    BY <2>1 DEF Written
  <2>4. TaskInv(t)
    BY <2>1, <2>2, Copies DEF TaskInv
  <2>5. Mine(t) /\ Kept(t) /\ Copied(t) /\ Owned(t)
    BY <2>1, <2>2, <2>3 DEF Mine, Kept, Copied, Owned
  <2> QED
    BY <2>4, <2>5
<1> QED
  BY <1>1, <1>2, <1>3, <1>4 DEF IInv, Data

LEMMA InitIInv == Init => IInv
<1> SUFFICES ASSUME Init PROVE IInv
  OBVIOUS
<1>1. Fresh
  BY SoundAssumption, Bounds DEF Init, Fresh
<1> QED
  BY <1>1, FreshInv

-----------------------------------------------------------------------------
\* Another task runs only while clientTask has not begun to cancel a stream.
LEMMA ClientWaits ==
    ASSUME Shape, Bus, NEW t \in Callers, Runs(t)
    PROVE  pc[Client] \in {"idle", "wram"} /\ cancel = FALSE
<1>1. ~Ready(Client)
  BY People DEF Runs, Prio
<1>2. pc[Client] = "idle" \/ (pc[Client] \in DOMAIN Held /\ sSPI # None)
  BY <1>1 DEF Ready
<1>3. CASE pc[Client] \notin {"idle", "wram"}
  <2>1. sSPI = Client /\ pc[Client] \in DOMAIN Held
    BY <1>2, <1>3 DEF Bus, FlushUndisturbed
  <2> QED
    BY <2>1, People, HeldPlaces DEF Bus
<1>4. CASE pc[Client] \in {"idle", "wram"}
  BY <1>4 DEF Bus, FlushUndisturbed, Shape
<1> QED
  BY <1>3, <1>4

LEMMA BusStep == Shape /\ Bus /\ Next => Bus'
<1> SUFFICES ASSUME Shape, Bus, Next PROVE Bus'
  OBVIOUS
<1> USE DEF Bus, FlushUndisturbed, Goto, local
<1>1. ASSUME NEW t \in Callers, Begin(t) PROVE Bus'
  <2>1. PICK l \in {"get", "erase"} :
           pc[t] = "idle" /\ pc' = [pc EXCEPT ![t] = l] /\ UNCHANGED <<sSPI, bit, cancel>>
    BY <1>1 DEF Begin
  <2> QED
    BY <2>1, People DEF Shape, AtAccess
<1>2. ASSUME NEW t \in Tasks, Runs(t), Take(t) PROVE Bus'
  <2>1. /\ pc[t] \in DOMAIN Held /\ sSPI = None /\ sSPI' = t
        /\ pc' = [pc EXCEPT ![t] = Held[pc[t]]] /\ UNCHANGED <<bit, cancel>>
    BY <1>2 DEF Take, Runs, Ready
  <2>2. Held[pc[t]] \in AtAccess /\ (t = Client => Held[pc[t]] \notin {"idle", "wram"})
    BY <2>1, HeldPlaces DEF Shape
  <2>3. t = Client /\ cancel => Held[pc[t]] \in {"polling", "nudging"}
    BY <2>1, HeldPlaces DEF Held
  <2>4. pc'[t] = Held[pc[t]] /\ \A u \in Tasks \ {t} : pc'[u] = pc[u]
    BY <2>1 DEF Shape
  <2>5. t # Client => pc[Client] \in {"idle", "wram"} /\ cancel = FALSE
    BY <1>2, ClientWaits, People
  <2>6. \A u \in Tasks : sSPI' = u <=> pc'[u] \in AtAccess
    BY <2>1, <2>2, <2>4, People
  <2> QED
    BY <1>2, <2>1, <2>2, <2>3, <2>4, <2>5, <2>6, People
<1>3. ASSUME NEW t \in Callers, Runs(t),
             Get(t) \/ Read(t) \/ Refuse(t) \/ Write(t) \/ Save(t) \/ Erase(t)
      PROVE  Bus'
  <2>1. pc[Client] \in {"idle", "wram"} /\ cancel = FALSE
    BY <1>3, ClientWaits
  <2>2. \E l \in {"save", "write", "read", "idle"} : pc' = [pc EXCEPT ![t] = l]
    BY <1>3 DEF Get, Read, Refuse, Note, Write, Save, Erase, SetterOf
  <2>3. pc'[t] \notin AtAccess /\ \A u \in Tasks \ {t} : pc'[u] = pc[u]
    BY <2>2, People DEF Shape, AtAccess
  <2>4. \/ pc[t] \in AtAccess /\ sSPI' = None
        \/ pc[t] \notin AtAccess /\ sSPI' = sSPI
    BY <1>3 DEF Get, Read, Refuse, Write, Save, Erase, AtAccess
  <2>5. \A u \in Callers : bit'[u] = FALSE
    BY <1>3, <2>1 DEF Get, Read, Refuse, Write, Save, Erase, Shape
  <2>6. cancel' = FALSE
    BY <1>3, <2>1 DEF Get, Read, Refuse, Write, Save, Erase
  <2>7. \A u \in Tasks : sSPI' = u <=> pc'[u] \in AtAccess
    BY <2>3, <2>4, People
  <2> QED
    BY <2>1, <2>3, <2>4, <2>5, <2>6, <2>7, People
<1>4. CASE Flush
  <2>1. /\ pc[Client] = "idle" /\ pc' = [pc EXCEPT ![Client] = "wram"]
        /\ UNCHANGED <<sSPI, bit, cancel>>
    BY <1>4 DEF Flush
  <2> QED
    BY <2>1, People DEF Shape, AtAccess
<1>5. ASSUME \/ ReadFillByte \/ ReadMode \/ SetCancel \/ Poll \/ Nudge \/ Restart \/ Fill
      PROVE  Bus'
  <2>1. PICK l \in {"modeRead", "modeWrite", "poll", "nudge", "fill", "idle"} :
           /\ pc[Client] \in AtAccess /\ sSPI' = None /\ pc' = [pc EXCEPT ![Client] = l]
           /\ bit' = bit /\ (cancel' => l \in {"poll", "nudge"})
    BY <1>5, People DEF ReadFillByte, ReadMode, SetCancel, Poll, Nudge, Restart, Fill, Give, AtAccess
  <2>2. pc'[Client] \notin AtAccess /\ \A u \in Tasks \ {Client} : pc'[u] = pc[u]
    BY <2>1, People DEF Shape, AtAccess
  <2>3. \A u \in Tasks : sSPI' = u <=> pc'[u] \in AtAccess
    BY <2>1, <2>2, People
  <2> QED
    BY <2>1, <2>2, <2>3, People DEF Shape
<1>6. CASE ChipCancels
  BY <1>6 DEF ChipCancels
<1>7. CASE Reboot
  BY <1>7, People DEF Reboot, AtBoot, No, AtAccess
<1> QED
  BY <1>1, <1>2, <1>3, <1>4, <1>5, <1>6, <1>7, People DEF Next, Command, FlushStep

-----------------------------------------------------------------------------
\* Steps that take or give the bus for clientTask, or take it for a command.
LEMMA DataKept ==
    ASSUME Data, UNCHANGED <<chip, flash, req, dev, changed, reg, hist>>,
           \A t \in Callers : \/ pc'[t] = pc[t]
                              \/ pc[t] = "read" /\ pc'[t] = "reading"
                              \/ pc[t] = "write" /\ pc'[t] = "writing"
    PROVE  Data'
<1>1. UNCHANGED <<spoilt, mine, late, clash, stale>>
  BY DEF hist
<1>2. Agree'
  BY <1>1 DEF Data, Agree, Written
<1>3. ASSUME NEW t \in Callers
      PROVE  TaskInv(t)' /\ Mine(t)' /\ Kept(t)' /\ Copied(t)' /\ Owned(t)'
  <2>1. TaskInv(t)'
    BY <1>1 DEF Data, TaskInv, Todo
  <2>2. Mine(t)' /\ Kept(t)' /\ Owned(t)'
    BY <1>1 DEF Data, Mine, Kept, Owned, Written
  <2>3. Copied(t)'
    BY <1>1 DEF Data, Copied, Given, Written
  <2> QED
    BY <2>1, <2>2, <2>3
<1> QED
  BY <1>2, <1>3 DEF Data

LEMMA TakeKeeps == ASSUME Shape, Data, NEW t \in Tasks, Take(t) PROVE Shape' /\ Data'
<1>1. /\ pc[t] \in DOMAIN Held /\ pc' = [pc EXCEPT ![t] = Held[pc[t]]]
      /\ UNCHANGED <<chip, cancel, flash, polls, begun>>
      /\ UNCHANGED <<req, dev, changed, reg, bit>> /\ UNCHANGED hist
  BY DEF Take, Goto, local
<1>2. \A u \in Tasks : IF u = t THEN pc'[u] = Held[pc[u]] ELSE pc'[u] = pc[u]
  BY <1>1 DEF Shape
<1>3. Shape'
  <2>1. pc'[Client] \in ClientPlaces /\ \A u \in Callers : pc'[u] \in CallerPlaces
    BY <1>1, <1>2, HeldPlaces, People DEF Shape
  <2>2. pc' \in [Tasks -> CallerPlaces \cup ClientPlaces]
    <3>1. Held[pc[t]] \in CallerPlaces \cup ClientPlaces
      BY <1>1, <1>2, <2>1, People
    <3> QED
      BY <1>1, <3>1 DEF Shape
  <2> QED
    BY <1>1, <2>1, <2>2 DEF Shape, hist
<1>4. \A u \in Callers : \/ pc'[u] = pc[u]
                         \/ pc[u] = "read" /\ pc'[u] = "reading"
                         \/ pc[u] = "write" /\ pc'[u] = "writing"
  BY <1>1, <1>2, HeldPlaces, People DEF Shape, CallerPlaces
<1> QED
  BY <1>1, <1>3, <1>4, DataKept

LEMMA ClientKeeps ==
    ASSUME Shape, Data,
           Flush \/ ReadFillByte \/ ReadMode \/ SetCancel \/ Poll \/ Nudge \/ Fill \/ ChipCancels
    PROVE  Shape' /\ Data'
<1>1. /\ pc'[Client] \in ClientPlaces
      /\ pc' = [pc EXCEPT ![Client] = pc'[Client]] /\ \A u \in Callers : pc'[u] = pc[u]
  BY People DEF Shape, Flush, ReadFillByte, ReadMode, SetCancel, Poll, Nudge, Fill, ChipCancels,
                Give, Goto, ClientPlaces
<1>2. pc' \in [Tasks -> CallerPlaces \cup ClientPlaces]
  BY <1>1 DEF Shape
<1>3. /\ UNCHANGED <<chip, flash>> /\ UNCHANGED <<req, dev, changed, reg, bit>>
      /\ UNCHANGED hist
  BY DEF Flush, ReadFillByte, ReadMode, SetCancel, Poll, Nudge, Fill, ChipCancels, Give, local
<1>4. polls' \in 0..POLLS + 1
  BY Bounds DEF Shape, Flush, ReadFillByte, ReadMode, SetCancel, Poll, Nudge, Fill, ChipCancels, Give
<1>5. begun' \in 0..EVENTS
  BY Bounds DEF Shape, Flush, ReadFillByte, ReadMode, SetCancel, Poll, Nudge, Fill, ChipCancels, Give
<1>6. cancel' \in BOOLEAN
  BY DEF Shape, Flush, ReadFillByte, ReadMode, SetCancel, Poll, Nudge, Fill, ChipCancels, Give
<1>7. Shape'
  BY <1>1, <1>2, <1>3, <1>4, <1>5, <1>6 DEF Shape, hist
<1>8. Data'
  BY <1>1, <1>3, DataKept
<1> QED
  BY <1>7, <1>8

\* VS1053_Start: everything is spoilt, and nobody was the last to set anything.
LEMMA RestartKeeps == ASSUME Shape, Data, Restart PROVE Shape' /\ Data'
<1>1. /\ UNCHANGED <<flash, begun>> /\ UNCHANGED <<req, dev, changed, reg, bit>>
      /\ UNCHANGED <<mine, clash, stale>> /\ pc' = [pc EXCEPT ![Client] = "fill"]
      /\ chip' = [p \in Param |-> Cold] /\ cancel' = FALSE /\ spoilt' = Param
      /\ late' = mine /\ polls' = 0
  BY DEF Restart, Give, Goto, local
<1>2. \A u \in Callers : pc'[u] = pc[u]
  BY <1>1, People DEF Shape
<1>3. polls' \in 0..POLLS + 1 /\ cancel' \in BOOLEAN
  <2>1. 0 \in 0..POLLS + 1
    BY Bounds
  <2> QED
    BY <1>1, <2>1
<1>4. Shape'
  BY <1>1, <1>2, <1>3, People DEF Shape, ClientPlaces
<1>5. Agree'
  BY <1>1 DEF Agree
<1>6. ASSUME NEW t \in Callers
      PROVE  TaskInv(t)' /\ Mine(t)' /\ Kept(t)' /\ Copied(t)' /\ Owned(t)'
  <2>1. TaskInv(t)'
    BY <1>1, <1>2 DEF Data, TaskInv, Todo
  <2>2. Mine(t)' /\ Kept(t)' /\ Owned(t)'
    BY <1>1 DEF Data, Mine, Kept, Owned, Written
  <2>3. Copied(t)'
    BY <1>1, Params DEF Copied, Given, Written
  <2> QED
    BY <2>1, <2>2, <2>3
<1> QED
  BY <1>4, <1>5, <1>6 DEF Data

LEMMA RebootKeeps == ASSUME Shape, Reboot PROVE Shape' /\ Data'
<1>1. Fresh'
  BY DEF Shape, Reboot, Fresh
<1>2. Fresh' => IInv'
  BY FreshInv, PTL
<1> QED
  BY <1>1, <1>2 DEF IInv

-----------------------------------------------------------------------------
\* The variables of u stay.
Same(u) == /\ pc'[u] = pc[u] /\ req'[u] = req[u] /\ dev'[u] = dev[u]
           /\ changed'[u] = changed[u] /\ reg'[u] = reg[u] /\ mine'[u] = mine[u]
           /\ (u \in clash' <=> u \in clash)

\* A step of t that sets nothing leaves the others what they rely on.
LEMMA OthersKept ==
    ASSUME Data, NEW t \in Callers, UNCHANGED <<chip, flash, spoilt, stale, late>>,
           \A u \in Callers \ {t} : Same(u), Written(t)' = Written(t)
    PROVE  /\ Agree'
           /\ \A u \in Callers \ {t} : /\ TaskInv(u)' /\ Mine(u)' /\ Kept(u)'
                                       /\ Copied(u)' /\ Owned(u)'
<1>1. \A u \in Callers : Written(u)' = Written(u)
  BY DEF Same, Written
<1>2. Agree'
  BY <1>1 DEF Data, Agree
<1>3. ASSUME NEW u \in Callers \ {t}
      PROVE  TaskInv(u)' /\ Mine(u)' /\ Kept(u)' /\ Copied(u)' /\ Owned(u)'
  <2>1. Same(u) /\ Written(u)' = Written(u)
    BY <1>1
  <2>2. TaskInv(u)'
    BY <2>1 DEF Data, TaskInv, Todo, Same
  <2>3. Mine(u)' /\ Kept(u)' /\ Owned(u)'
    BY <2>1 DEF Data, Mine, Kept, Owned, Same
  <2>4. Copied(u)'
    BY <1>1, <2>1 DEF Data, Copied, Given, Same
  <2> QED
    BY <2>2, <2>3, <2>4
<1> QED
  BY <1>2, <1>3

LEMMA BeginKeeps == ASSUME Shape, Data, NEW t \in Callers, Begin(t) PROVE Shape' /\ Data'
<1> DEFINE Comes(r) == /\ DOMAIN r \subseteq Tone \/ DOMAIN r = {"vol"}
                       /\ r \in [DOMAIN r -> Int] /\ req' = [req EXCEPT ![t] = r]
                       /\ \E l \in {"get", "erase"} : pc' = [pc EXCEPT ![t] = l]
<1>0. \E r : Comes(r)
  <2>1. CASE \E r \in Sets(t) : req' = [req EXCEPT ![t] = r] /\ Goto(t, "get")
    <3>1. PICK r \in Sets(t) : req' = [req EXCEPT ![t] = r] /\ Goto(t, "get")
      BY <2>1
    <3>2. CASE r \in [{"vol"} -> IF t \in Console THEN Volumes \cap 0..254 ELSE Volumes]
      <4>1. r \in [{"vol"} -> Int]
        BY <3>2, SoundAssumption
      <4> QED
        BY <3>1, <4>1 DEF Goto
    <3>3. CASE r \in Request
      BY <3>1, <3>3, Requests DEF Goto
    <3>4. CASE r = Nothing
      BY <3>1, <3>4 DEF Goto, Nothing
    <3> QED
      BY <3>2, <3>3, <3>4 DEF Sets
  <2>2. CASE t \in Console /\ req' = [req EXCEPT ![t] = Nothing] /\ Goto(t, "erase")
    BY <2>2 DEF Goto, Nothing
  <2> QED
    BY <2>1, <2>2 DEF Begin
<1>1. PICK r, l : /\ DOMAIN r \subseteq Tone \/ DOMAIN r = {"vol"}
                  /\ r \in [DOMAIN r -> Int] /\ req' = [req EXCEPT ![t] = r]
                  /\ l \in {"get", "erase"} /\ pc' = [pc EXCEPT ![t] = l]
  BY <1>0
<1> HIDE DEF Comes
<1>2. /\ pc[t] = "idle" /\ begun < EVENTS /\ begun' = begun + 1
      /\ UNCHANGED <<chip, cancel, flash, sSPI, dev, changed, reg, bit, polls,
                     spoilt, mine, late, clash, stale>>
  BY DEF Begin, hist
<1>3. begun' \in 0..EVENTS
  BY <1>2, Bounds DEF Shape
<1>4. Shape'
  BY <1>1, <1>2, <1>3, People DEF Shape, CallerPlaces
<1>5. TaskInv(t) /\ mine[t] = {} /\ dev[t] = Nothing /\ reg[t] = Nothing
  BY <1>2 DEF Data, TaskInv
<1>6. Written(t) = {} /\ Written(t)' = {}
  BY <1>2, <1>5 DEF Written
<1>7. \A u \in Callers \ {t} : Same(u)
  BY <1>1, <1>2, People DEF Shape, Same
<1>8. pc'[t] = l /\ req'[t] = r
  BY <1>1, <1>2, People DEF Shape
<1>9. TaskInv(t)'
  BY <1>1, <1>2, <1>5, <1>8 DEF TaskInv
<1>10. Mine(t)' /\ Kept(t)' /\ Copied(t)' /\ Owned(t)'
  BY <1>2, <1>5, <1>6, <1>9 DEF TaskInv, Mine, Kept, Copied, Owned, Nothing
<1> QED
  BY <1>2, <1>4, <1>6, <1>7, <1>9, <1>10, OthersKept DEF Data

LEMMA GetKeeps == ASSUME Shape, Data, NEW t \in Callers, Get(t) PROVE Shape' /\ Data'
<1>1. PICK d \in {flash, Nothing} : dev' = [dev EXCEPT ![t] = d]
  BY DEF Get
<1>2. /\ pc[t] = "get" /\ pc' = [pc EXCEPT ![t] = SetterOf(req[t])]
      /\ mine' = [mine EXCEPT ![t] = DOMAIN req[t]]
      /\ changed' = [changed EXCEPT ![t] = (req[t] = Nothing)]
      /\ (d = Nothing => "vol" \in DOMAIN req[t])
      /\ UNCHANGED <<chip, cancel, flash, sSPI, req, reg, bit, polls, begun,
                     spoilt, late, clash, stale>>
  <2>1. DOMAIN dev = Callers
    BY DEF Shape
  <2>2. dev'[t] = d
    BY <1>1, <2>1
  <2>3. \/ dev' = [dev EXCEPT ![t] = flash]
        \/ "vol" \in DOMAIN req[t] /\ dev' = [dev EXCEPT ![t] = Nothing]
    BY DEF Get
  <2>4. d = Nothing => "vol" \in DOMAIN req[t]
    BY <2>1, <2>2, <2>3, Copies DEF Shape
  <2> QED
    BY <2>4 DEF Get, Goto
<1>3. /\ TaskInv(t) /\ mine[t] = {} /\ reg[t] = Nothing
      /\ DOMAIN req[t] \subseteq Param
  <2>1. TaskInv(t) /\ mine[t] = {} /\ reg[t] = Nothing /\ dev[t] = Nothing
    BY <1>2 DEF Data, TaskInv
  <2>2. "vol" \in Param /\ Tone \subseteq Param
    BY Params
  <2> QED
    BY <2>1, <2>2 DEF TaskInv
<1>4. /\ pc'[t] = SetterOf(req[t]) /\ mine'[t] = DOMAIN req[t] /\ dev'[t] = d
      /\ changed'[t] = (req[t] = Nothing) /\ (changed'[t] => d # Nothing)
      /\ SetterOf(req[t]) \in {"save", "write", "read"}
  <2>1. req[t] = Nothing => "vol" \notin DOMAIN req[t]
    BY Copies
  <2> QED
    BY <1>1, <1>2, <2>1, People DEF Shape, SetterOf
<1>5. Shape'
  BY <1>1, <1>2, <1>3, <1>4, Copies, People DEF Shape, CallerPlaces, Copy
<1>6. Written(t) = {} /\ Written(t)' = {}
  BY <1>2, <1>3, <1>4 DEF Written
<1>7. \A u \in Callers \ {t} : Same(u)
  BY <1>1, <1>2, People DEF Shape, Same
<1>8. /\ DOMAIN req[t] = {} => SetterOf(req[t]) = "save"
      /\ DOMAIN req[t] = {"vol"} => SetterOf(req[t]) = "write"
      /\ DOMAIN req[t] # {} /\ DOMAIN req[t] \subseteq Tone => SetterOf(req[t]) = "read"
  BY <1>3, Setters DEF TaskInv
<1>9. TaskInv(t)'
  BY <1>2, <1>3, <1>4, <1>8, Params DEF TaskInv
<1>10. Mine(t)' /\ Kept(t)' /\ Copied(t)' /\ Owned(t)'
  BY <1>1, <1>2, <1>3, <1>4, <1>6, Copies DEF TaskInv, Mine, Kept, Copied, Owned
<1> QED
  BY <1>2, <1>5, <1>6, <1>7, <1>9, <1>10, OthersKept DEF Data

LEMMA ReadKeeps == ASSUME Shape, Data, NEW t \in Callers, Read(t) PROVE Shape' /\ Data'
<1> DEFINE R == Register(Todo(t))
<1>1. /\ pc[t] = "reading" /\ pc' = [pc EXCEPT ![t] = "write"]
      /\ reg' = [reg EXCEPT ![t] = [q \in R |-> chip[q]]]
      /\ bit' = [bit EXCEPT ![t] = cancel] /\ clash' = clash \ {t}
      /\ UNCHANGED <<chip, cancel, flash, req, dev, changed, polls, begun,
                     spoilt, mine, late, stale>>
  BY DEF Read, Goto
<1>2. /\ TaskInv(t) /\ Mine(t) /\ Kept(t) /\ DOMAIN req[t] # {} /\ DOMAIN req[t] \subseteq Param
      /\ DOMAIN req[t] \subseteq Tone
  BY <1>1, Params DEF Data, TaskInv
<1>3. Todo(t) \in DOMAIN req[t] /\ R \subseteq Param
  BY <1>2, Todos, Params
<1>4. pc'[t] = "write" /\ reg'[t] = [q \in R |-> chip[q]] /\ Todo(t)' = Todo(t)
  BY <1>1, People DEF Shape, Todo
<1> HIDE DEF R
<1>5. Shape'
  BY <1>1, <1>4, People DEF Shape, CallerPlaces
<1>6. Written(t)' = Written(t)
  BY <1>1 DEF Written
<1>7. \A u \in Callers \ {t} : Same(u)
  BY <1>1, People DEF Shape, Same
<1>8. DOMAIN reg'[t] = R /\ (\A q \in R : reg'[t][q] = chip[q])
      /\ reg'[t] \in [R -> Int \cup {Cold}]
  BY <1>3, <1>4 DEF Shape
<1>9. R # {} /\ reg'[t] # Nothing
  <2>1. Todo(t) \in R
    BY <1>2, <1>3, Params DEF R
  <2> QED
    BY <1>8, <2>1, Copies
<1>10. TaskInv(t)'
  BY <1>1, <1>2, <1>4, <1>8, <1>9 DEF TaskInv, R
<1>11. Mine(t)' /\ Kept(t)' /\ Copied(t)' /\ Owned(t)'
  BY <1>1, <1>2, <1>6, <1>8 DEF Mine, Kept, Copied, Owned
<1> QED
  BY <1>1, <1>5, <1>6, <1>7, <1>10, <1>11, OthersKept DEF Data

-----------------------------------------------------------------------------
\* What noting a change does to the variables of the command.
LEMMA Noted ==
    ASSUME Shape, NEW t \in Callers, NEW p \in Param, TaskInv(t), Note(t, p),
           p \in DOMAIN req[t], DOMAIN req[t] \subseteq mine[t], mine' = mine,
           stale' = stale, flash' = flash, reg'[t] = Nothing,
           late'[t] \subseteq late[t] \cup mine[t]
    PROVE  /\ \A u \in Callers \ {t} : /\ pc'[u] = pc[u] /\ req'[u] = req[u]
                                        /\ dev'[u] = dev[u] /\ changed'[u] = changed[u]
           /\ DOMAIN req' = Callers /\ dev' \in [Callers -> Copy]
           /\ changed' \in [Callers -> BOOLEAN]
           /\ pc' = [u \in Tasks |-> pc'[u]] /\ pc'[Client] = pc[Client] /\ pc'[t] \in CallerPlaces
           /\ Written(t)' = Written(t) \cup {p}
           /\ \A u \in Callers \ {t} : Written(u)' = Written(u)
           /\ dev'[t] = Nothing <=> dev[t] = Nothing
           /\ dev[t] # Nothing => /\ dev'[t][p] = Stored(p, req[t][p])
                                  /\ \A q \in Param \ {p} : dev'[t][q] = dev[t][q]
           /\ TaskInv(t)'
           /\ Kept(t) => Kept(t)'
<1> DEFINE rest == [q \in DOMAIN req[t] \ {p} |-> req[t][q]]
<1>1. /\ \/ /\ dev[t] # Nothing
            /\ dev' = [dev EXCEPT ![t][p] = Stored(p, req[t][p])]
            /\ changed' = [changed EXCEPT ![t] = changed[t] \/ dev[t][p] # req[t][p]]
         \/ dev[t] = Nothing /\ dev' = dev /\ changed' = changed
      /\ req' = [req EXCEPT ![t] = rest]
      /\ pc' = [pc EXCEPT ![t] = SetterOf(rest)]
  BY DEF Note, Goto
<1>2. req[t][p] \in Int /\ rest \in [DOMAIN req[t] \ {p} -> Int]
  BY DEF TaskInv
<1>3. DOMAIN rest = DOMAIN req[t] \ {p}
  OBVIOUS
<1> HIDE DEF rest
<1>4. Stored(p, req[t][p]) \in Field(p) /\ Stored(p, req[t][p]) \in Int
      /\ (req[t][p] \in Field(p) => Stored(p, req[t][p]) = req[t][p])
  BY <1>2, Numbers
<1>5. /\ dev'[t] = Nothing <=> dev[t] = Nothing
      /\ dev[t] # Nothing => /\ dev'[t] \in Block /\ dev[t] \in Block
                             /\ dev'[t][p] = Stored(p, req[t][p])
                             /\ \A q \in Param \ {p} : dev'[t][q] = dev[t][q]
                             /\ changed'[t] = (changed[t] \/ dev[t][p] # req[t][p])
      /\ dev[t] = Nothing => changed'[t] = changed[t]
  <2>1. CASE dev[t] # Nothing
    <3>1. dev[t] \in Block
      BY <2>1, Copies DEF Shape
    <3>2. dev'[t] = [dev[t] EXCEPT ![p] = Stored(p, req[t][p])]
      BY <1>1, <2>1 DEF Shape
    <3>3. dev'[t] \in Block
      BY <1>4, <3>1, <3>2 DEF Block
    <3>4. changed'[t] = (changed[t] \/ dev[t][p] # req[t][p])
      BY <1>1, <2>1 DEF Shape
    <3>5. dev'[t] # Nothing
      BY <3>3, Copies
    <3>6. \A q \in Param : dev'[t][q] = IF q = p THEN Stored(p, req[t][p]) ELSE dev[t][q]
      BY <3>1, <3>2 DEF Block
    <3> QED
      BY <2>1, <3>1, <3>3, <3>4, <3>5, <3>6
  <2>2. CASE dev[t] = Nothing
    BY <1>1, <2>2 DEF Shape
  <2> QED
    BY <2>1, <2>2
<1>6. /\ \A u \in Callers \ {t} : /\ pc'[u] = pc[u] /\ req'[u] = req[u]
                                  /\ dev'[u] = dev[u] /\ changed'[u] = changed[u]
      /\ req'[t] = rest /\ pc'[t] = SetterOf(rest)
  <2>1. ASSUME NEW u \in Callers \ {t} PROVE dev'[u] = dev[u] /\ changed'[u] = changed[u]
    BY <1>1 DEF Shape
  <2> QED
    BY <1>1, <2>1, People DEF Shape
<1>7. /\ DOMAIN req' = Callers /\ dev' \in [Callers -> Copy]
      /\ changed' \in [Callers -> BOOLEAN]
  <2>1. DOMAIN req' = Callers
    BY <1>1 DEF Shape
  <2>2. dev' \in [Callers -> Copy]
    BY <1>1, <1>5, Copies DEF Shape
  <2>3. changed' \in [Callers -> BOOLEAN]
    BY <1>1 DEF Shape
  <2> QED
    BY <2>1, <2>2, <2>3
<1>8. SetterOf(rest) \in {"save", "write", "read"}
  BY DEF SetterOf
<1>9. pc' = [u \in Tasks |-> pc'[u]] /\ pc'[Client] = pc[Client] /\ pc'[t] \in CallerPlaces
  BY <1>1, <1>6, <1>8, People DEF Shape, CallerPlaces
<1>10. Written(t)' = Written(t) \cup {p} /\ \A u \in Callers \ {t} : Written(u)' = Written(u)
  BY <1>3, <1>6 DEF Written, Shape
<1>11. TaskInv(t)'
  <2>1. DOMAIN rest \subseteq Tone /\ DOMAIN rest # {"vol"}
    BY <1>3, Params DEF TaskInv
  <2>2. /\ DOMAIN rest = {} => SetterOf(rest) = "save"
        /\ DOMAIN rest # {} => SetterOf(rest) = "read"
    <3>1. DOMAIN rest \in SUBSET Param /\ rest \in [DOMAIN rest -> Int]
      BY <1>2, <1>3, <2>1, Params
    <3> QED
      BY <2>1, <3>1, Setters
  <2>3. mine[t] # {} /\ DOMAIN rest \subseteq mine'[t]
    BY <1>3
  <2>4. changed'[t] \/ t \in stale' => dev'[t] # Nothing
    BY <1>5 DEF TaskInv
  <2>5. rest \in [DOMAIN rest -> Int]
    BY <1>2, <1>3
  <2> QED
    BY <1>6, <2>1, <2>2, <2>3, <2>4, <2>5 DEF TaskInv
<1>12. ASSUME Kept(t) PROVE Kept(t)'
  <2> SUFFICES ASSUME dev[t] # Nothing, t \notin stale, NEW q \in Param,
                      q \notin Written(t) \cup {p} \/ ~changed'[t]
               PROVE  dev'[t][q] = flash[q]
    BY <1>5, <1>10 DEF Kept
  <2>1. CASE q = p
    <3>1. ~changed[t] /\ dev[t][p] = req[t][p]
      BY <1>5, <2>1
    <3>2. dev[t][p] \in Field(p)
      BY <1>5 DEF Block
    <3> QED
      BY <1>4, <1>5, <1>12, <2>1, <3>1, <3>2 DEF Kept
  <2>2. CASE q # p
    BY <1>5, <1>12, <2>2 DEF Kept
  <2> QED
    BY <2>1, <2>2
<1> QED
  BY <1>5, <1>6, <1>7, <1>9, <1>10, <1>11, <1>12

\* A number the setter refuses: nothing is set, but it will be saved.
LEMMA RefuseKeeps == ASSUME Shape, Data, NEW t \in Callers, Refuse(t) PROVE Shape' /\ Data'
<1> DEFINE p == Todo(t)
<1>1. /\ pc[t] = "reading" /\ Note(t, p) /\ late' = [late EXCEPT ![t] = @ \cup {p}]
      /\ UNCHANGED <<chip, cancel, flash, reg, bit, polls, begun,
                     spoilt, mine, clash, stale>>
  BY DEF Refuse
<1>2. /\ TaskInv(t) /\ Mine(t) /\ Kept(t) /\ reg[t] = Nothing
      /\ DOMAIN req[t] # {} /\ DOMAIN req[t] \subseteq mine[t] /\ mine[t] \subseteq Param
  BY <1>1 DEF Data, TaskInv, Shape
<1>3. p \in DOMAIN req[t] /\ p \in Param
  BY <1>2, Todos
<1> HIDE DEF p
<1>4. late'[t] = late[t] \cup {p} /\ \A u \in Callers \ {t} : late'[u] = late[u]
  BY <1>1 DEF Shape
<1>5. /\ \A u \in Callers \ {t} : /\ pc'[u] = pc[u] /\ req'[u] = req[u]
                                  /\ dev'[u] = dev[u] /\ changed'[u] = changed[u]
      /\ DOMAIN req' = Callers /\ dev' \in [Callers -> Copy]
      /\ changed' \in [Callers -> BOOLEAN]
      /\ pc' = [u \in Tasks |-> pc'[u]] /\ pc'[Client] = pc[Client] /\ pc'[t] \in CallerPlaces
      /\ Written(t)' = Written(t) \cup {p}
      /\ \A u \in Callers \ {t} : Written(u)' = Written(u)
      /\ dev'[t] = Nothing <=> dev[t] = Nothing
      /\ dev[t] # Nothing => \A q \in Param \ {p} : dev'[t][q] = dev[t][q]
      /\ TaskInv(t)' /\ Kept(t)'
  <2>1. late'[t] \subseteq late[t] \cup mine[t]
    BY <1>2, <1>3, <1>4
  <2> QED
    BY <1>1, <1>2, <1>3, <2>1, Noted
<1>6. Shape'
  <2>1. \A u \in Callers : pc'[u] \in CallerPlaces
    BY <1>5 DEF Shape
  <2>2. pc' \in [Tasks -> CallerPlaces \cup ClientPlaces] /\ pc'[Client] \in ClientPlaces
    BY <1>5, <2>1, People DEF Shape
  <2>3. late' \in [Callers -> SUBSET Param]
    BY <1>1, <1>3 DEF Shape
  <2> QED
    BY <1>1, <1>5, <2>1, <2>2, <2>3 DEF Shape
<1>7. Agree'
  BY <1>1, <1>5 DEF Data, Agree
<1>8. ASSUME NEW q, Given(q) PROVE Given(q)'
  BY <1>1, <1>4, <1>5, <1>8 DEF Given
<1>9. ASSUME NEW u \in Callers \ {t}
      PROVE  TaskInv(u)' /\ Mine(u)' /\ Kept(u)' /\ Copied(u)' /\ Owned(u)'
  <2>1. TaskInv(u)'
    BY <1>1, <1>4, <1>5 DEF Data, TaskInv, Todo
  <2>2. Mine(u)' /\ Kept(u)' /\ Owned(u)'
    BY <1>1, <1>4, <1>5 DEF Data, Mine, Kept, Owned
  <2>3. Copied(u)'
    BY <1>1, <1>8 DEF Data, Copied
  <2> QED
    BY <2>1, <2>2, <2>3
<1>10. Mine(t)'
  BY <1>1, <1>2, <1>4, <1>5 DEF Mine, Written
<1>11. Copied(t)' /\ Owned(t)'
  BY <1>1, <1>2, Copies DEF Copied, Owned
<1> QED
  BY <1>5, <1>6, <1>7, <1>9, <1>10, <1>11 DEF Data

LEMMA WriteKeeps == ASSUME Shape, Bus, Data, NEW t \in Callers, Write(t) PROVE Shape' /\ Data'
<1> DEFINE p   == Todo(t)
           n   == Stored(p, req[t][p])
           R   == Register(p)
           hit == IF t \in clash THEN R ELSE {p}
<1>1. /\ pc[t] = "writing" /\ Note(t, p)
      /\ chip' = [q \in Param |-> IF q \in R THEN Back(t, q) ELSE chip[q]]
      /\ cancel' = (IF p = "spacial" THEN bit[t] ELSE cancel)
      /\ late' = [u \in Callers |-> IF u = t THEN late[t] \ {p}
                                            ELSE late[u] \cup (hit \cap mine[u])]
      /\ clash' = (clash \ {t}) \cup {u \in Callers \ {t} : p \in DOMAIN reg[u] \cap Bass}
      /\ spoilt' = spoilt \cup (hit \ {p})
      /\ reg' = [reg EXCEPT ![t] = Nothing] /\ bit' = [bit EXCEPT ![t] = FALSE]
      /\ UNCHANGED <<flash, polls, begun, mine, stale>>
  BY DEF Write
<1>2. /\ TaskInv(t) /\ Mine(t) /\ Kept(t) /\ Copied(t) /\ Owned(t) /\ Agree
      /\ DOMAIN req[t] # {} /\ DOMAIN req[t] \subseteq mine[t] /\ mine[t] \subseteq Param
  BY <1>1 DEF Data, TaskInv, Shape
<1>3. p \in DOMAIN req[t] /\ p \in Param /\ p \in R /\ R \subseteq Param
  <2>1. p \in DOMAIN req[t] /\ p \in Param
    BY <1>2, Todos
  <2> QED
    BY <2>1, Params
<1>4. n \in Int /\ AsSet(p, n) \in Int \cup {Cold}
  <2>1. req[t][p] \in Int
    BY <1>2, <1>3 DEF TaskInv
  <2>2. n \in Int
    BY <1>3, <2>1, Numbers
  <2> QED
    BY <1>3, <2>2, Numbers
<1>5. ASSUME NEW q \in R \ {p}
      PROVE  q \in Bass /\ p \in Bass /\ R = Bass /\ q \in DOMAIN reg[t] /\ reg[t][q] \in Int \cup {Cold}
  <2>1. q \in Bass /\ p \in Bass /\ R = Bass
    BY <1>3, <1>5, Params
  <2>2. DOMAIN req[t] # {"vol"}
    BY <1>3, <2>1, Params
  <2>3. reg[t] \in [R -> Int \cup {Cold}]
    BY <1>1, <1>2, <2>2 DEF TaskInv
  <2> QED
    BY <1>5, <2>1, <2>3
<1>6. \A q \in R : Back(t, q) = IF q = p THEN AsSet(p, n) ELSE reg[t][q]
  BY DEF Back
<1> HIDE DEF p, n, R
<1>7. /\ chip'[p] = AsSet(p, n)
      /\ \A q \in Param \ R : chip'[q] = chip[q]
      /\ \A q \in R \ {p} : chip'[q] = reg[t][q]
      /\ chip' \in [Param -> Int \cup {Cold}]
  BY <1>1, <1>3, <1>4, <1>5, <1>6 DEF Shape
<1>8. hit \subseteq R /\ p \in hit
  BY <1>3
<1>9. late'[t] = late[t] \ {p} /\ reg'[t] = Nothing
  BY <1>1 DEF Shape
<1>10. /\ \A u \in Callers \ {t} : /\ pc'[u] = pc[u] /\ req'[u] = req[u]
                                   /\ dev'[u] = dev[u] /\ changed'[u] = changed[u]
       /\ DOMAIN req' = Callers /\ dev' \in [Callers -> Copy]
       /\ changed' \in [Callers -> BOOLEAN]
       /\ pc' = [u \in Tasks |-> pc'[u]] /\ pc'[Client] = pc[Client] /\ pc'[t] \in CallerPlaces
       /\ Written(t)' = Written(t) \cup {p}
       /\ \A u \in Callers \ {t} : Written(u)' = Written(u)
       /\ dev'[t] = Nothing <=> dev[t] = Nothing
       /\ dev[t] # Nothing => /\ dev'[t][p] = n
                              /\ \A q \in Param \ {p} : dev'[t][q] = dev[t][q]
       /\ TaskInv(t)' /\ Kept(t)'
  <2>1. late'[t] \subseteq late[t] \cup mine[t]
    BY <1>9
  <2> QED
    BY <1>1, <1>2, <1>3, <1>9, <2>1, Noted DEF n
<1>11. \A u \in Callers \ {t} : reg'[u] = reg[u] /\ late'[u] = late[u] \cup (hit \cap mine[u])
  BY <1>1 DEF Shape
<1> HIDE DEF hit
<1>12. Shape'
  <2>1. \A u \in Callers : pc'[u] \in CallerPlaces
    BY <1>10 DEF Shape
  <2>2. pc' \in [Tasks -> CallerPlaces \cup ClientPlaces] /\ pc'[Client] \in ClientPlaces
    BY <1>10, <2>1, People DEF Shape
  <2>3. spoilt' \subseteq Param /\ late' \in [Callers -> SUBSET Param]
    BY <1>1, <1>3, <1>8 DEF Shape
  <2>4. cancel' \in BOOLEAN
    BY <1>1 DEF Shape, Bus
  <2>5. /\ DOMAIN reg' = Callers /\ DOMAIN bit' = Callers /\ clash' \subseteq Callers
    BY <1>1 DEF Shape
  <2> QED
    BY <1>1, <1>7, <1>10, <2>1, <2>2, <2>3, <2>4, <2>5 DEF Shape
\* What the rest of the register is after the write.
<1>13. ASSUME NEW q \in Param, q # p
       PROVE  q \in hit \/ chip'[q] = chip[q] \/ Given(q)
  <2>1. CASE q \notin R
    BY <1>7, <2>1
  <2>2. CASE q \in R /\ t \in clash
    BY <2>2 DEF hit
  <2>3. CASE q \in R /\ t \notin clash
    BY <1>2, <1>5, <1>7, <1>13, <2>3 DEF Copied
  <2> QED
    BY <2>1, <2>2, <2>3
<1>14. Agree'
  <2> SUFFICES ASSUME NEW q \in Param \ spoilt', \A u \in Callers : q \notin Written(u)'
               PROVE  chip'[q] = AsSet(q, flash[q])
    BY <1>1 DEF Agree
  <2>1. q # p /\ q \notin spoilt /\ q \notin hit
    BY <1>1, <1>10
  <2>2. chip'[q] = chip[q]
    BY <1>13, <2>1 DEF Given
  <2>3. \A u \in Callers : q \notin Written(u)
    BY <1>10
  <2> QED
    BY <1>2, <2>1, <2>2, <2>3 DEF Agree
\* What nobody relied on nobody relies on, unless it was set now.
<1>15. ASSUME NEW q \in Param, q # p, Given(q) PROVE Given(q)'
  BY <1>1, <1>9, <1>10, <1>11, <1>15 DEF Given
<1>16. ASSUME NEW u \in Callers \ {t}
       PROVE  TaskInv(u)' /\ Mine(u)' /\ Kept(u)' /\ Copied(u)' /\ Owned(u)'
  <2>1. /\ TaskInv(u) /\ Mine(u) /\ Kept(u) /\ Copied(u) /\ Owned(u)
        /\ Written(u)' = Written(u) /\ Written(u) \subseteq mine[u]
        /\ mine[u] \subseteq Param
    BY <1>10 DEF Data, Written, Shape
  <2>2. TaskInv(u)'
    <3>1. Todo(u)' = Todo(u)
      BY <1>10 DEF Todo
    <3>2. late'[u] # {} => late[u] # {} \/ mine[u] # {}
      BY <1>11
    <3> QED
      BY <1>1, <1>10, <1>11, <2>1, <3>1, <3>2 DEF TaskInv
  <2>3. Mine(u)'
    <3> SUFFICES ASSUME dev[u] # Nothing, NEW q \in Written(u) \ late'[u]
                 PROVE  chip'[q] = AsSet(q, dev[u][q])
      BY <1>10, <2>1 DEF Mine
    <3>1. q \notin hit /\ q \notin late[u] /\ q \in Param
      BY <1>11, <2>1
    <3>2. chip'[q] = chip[q]
      BY <1>8, <1>13, <2>1, <3>1 DEF Given
    <3> QED
      BY <2>1, <3>1, <3>2 DEF Mine
  <2>4. Kept(u)'
    BY <1>1, <1>10, <2>1 DEF Kept
  <2>5. Copied(u)'
    <3> SUFFICES ASSUME u \notin clash', NEW q \in DOMAIN reg[u] \cap Bass
                 PROVE  reg[u][q] = chip'[q] \/ Given(q)'
      BY <1>11 DEF Copied
    <3>1. u \notin clash /\ p \notin DOMAIN reg[u] \cap Bass /\ q \in Param /\ q # p
      <4>1. u \notin clash /\ p \notin DOMAIN reg[u] \cap Bass
        BY <1>1
      <4> QED
        BY <4>1, Params
    <3>2. reg[u][q] = chip[q] \/ Given(q)
      BY <2>1, <3>1 DEF Copied
    <3>3. p \notin Bass
      <4>1. reg[u] # Nothing
        BY Copies
      <4>2. reg[u] \in [Register(Todo(u)) -> Int \cup {Cold}]
        BY <2>1, <4>1 DEF TaskInv
      <4>3. DOMAIN reg[u] = Bass
        BY <4>2, Params DEF Register
      <4> QED
        BY <3>1, <4>3
    <3>4. q \notin R
      BY <1>3, <3>1, <3>3, <1>5
    <3> QED
      BY <1>7, <1>15, <3>1, <3>2, <3>4
  <2>6. Owned(u)'
    BY <1>10, <1>11, <2>1 DEF Owned
  <2> QED
    BY <2>2, <2>3, <2>4, <2>5, <2>6
<1>17. Mine(t)'
  <2> SUFFICES ASSUME dev[t] # Nothing, NEW q \in (Written(t) \cup {p}) \ (late[t] \ {p})
               PROVE  chip'[q] = AsSet(q, dev'[t][q])
    BY <1>9, <1>10 DEF Mine
  <2>1. CASE q = p
    BY <1>7, <1>10, <2>1
  <2>2. CASE q # p
    <3>1. q \in Written(t) \ late[t] /\ q \in Param /\ dev'[t][q] = dev[t][q]
      BY <1>2, <1>10, <2>2 DEF Written
    <3>2. CASE q \in R
      <4>1. chip'[q] = reg[t][q] /\ q \in DOMAIN reg[t] \cap Bass
        BY <1>5, <1>7, <2>2, <3>2
      <4> QED
        BY <1>2, <3>1, <4>1 DEF Owned
    <3>3. CASE q \notin R
      BY <1>2, <1>7, <3>1, <3>3 DEF Mine
    <3> QED
      BY <3>2, <3>3
  <2> QED
    BY <2>1, <2>2
<1>18. Copied(t)' /\ Owned(t)'
  BY <1>9, Copies DEF Copied, Owned
<1> QED
  BY <1>10, <1>12, <1>14, <1>16, <1>17, <1>18 DEF Data

LEMMA SaveKeeps == ASSUME Shape, Data, NEW t \in Callers, Save(t) PROVE Shape' /\ Data'
<1> DEFINE bad == late[t] \cup
                  (IF dev[t] = Nothing \/ (~changed[t] /\ t \in stale) THEN Param ELSE {})
<1>1. /\ pc[t] = "save" /\ pc' = [pc EXCEPT ![t] = "idle"]
      /\ flash' = (IF changed[t] THEN dev[t] ELSE flash)
      /\ stale' = (IF changed[t] THEN {u \in Callers : dev[u] # Nothing} ELSE stale) \ {t}
      /\ spoilt' = (spoilt \ mine[t]) \cup (mine[t] \cap bad) \cup
                     (IF changed[t] /\ t \in stale THEN Param \ mine[t] ELSE {})
      /\ dev' = [dev EXCEPT ![t] = Nothing] /\ changed' = [changed EXCEPT ![t] = FALSE]
      /\ mine' = [mine EXCEPT ![t] = {}] /\ late' = [late EXCEPT ![t] = {}]
      /\ UNCHANGED <<chip, cancel, sSPI, req, reg, bit, polls, begun, clash>>
  BY DEF Save, Saved, Holders, Goto
<1> HIDE DEF bad
<1>2. /\ TaskInv(t) /\ Mine(t) /\ Kept(t) /\ Agree
      /\ DOMAIN req[t] = {} /\ reg[t] = Nothing /\ mine[t] \subseteq Param
      /\ Written(t) = mine[t]
  BY <1>1 DEF Data, TaskInv, Written, Shape
<1>3. /\ pc'[t] = "idle" /\ dev'[t] = Nothing /\ changed'[t] = FALSE
      /\ mine'[t] = {} /\ late'[t] = {} /\ req'[t] = req[t] /\ reg'[t] = Nothing
      /\ \A u \in Callers \ {t} : /\ pc'[u] = pc[u] /\ dev'[u] = dev[u]
                                  /\ changed'[u] = changed[u]
                                  /\ mine'[u] = mine[u] /\ late'[u] = late[u]
  BY <1>1, <1>2, People DEF Shape
<1>4. Written(t)' = {} /\ \A u \in Callers \ {t} : Written(u)' = Written(u)
  BY <1>1, <1>3 DEF Written
<1>5. changed[t] => dev[t] \in Block /\ dev[t] # Nothing
  BY <1>2, Copies DEF TaskInv, Shape
<1>6. Shape'
  <2>1. flash' \in Block
    BY <1>1, <1>5 DEF Shape
  <2>2. dev' \in [Callers -> Copy] /\ changed' \in [Callers -> BOOLEAN]
    BY <1>1 DEF Shape, Copy
  <2>3. /\ DOMAIN pc' = Tasks /\ pc'[Client] \in ClientPlaces
        /\ \A u \in Callers : pc'[u] \in CallerPlaces
    BY <1>1, <1>3, People DEF Shape, CallerPlaces
  <2>4. spoilt' \subseteq Param /\ stale' \subseteq Callers
    BY <1>1, <1>2 DEF Shape
  <2> QED
    BY <1>1, <2>1, <2>2, <2>3, <2>4 DEF Shape
<1>7. Agree'
  <2> SUFFICES ASSUME NEW q \in Param \ spoilt', \A u \in Callers : q \notin Written(u)'
               PROVE  chip[q] = AsSet(q, flash'[q])
    BY <1>1 DEF Agree
  <2>1. CASE q \in mine[t]
    <3>1. q \notin bad
      BY <1>1, <2>1
    <3>2. dev[t] # Nothing /\ q \notin late[t] /\ (changed[t] \/ t \notin stale)
      BY <3>1 DEF bad
    <3>3. chip[q] = AsSet(q, dev[t][q])
      BY <1>2, <2>1, <3>2 DEF Mine
    <3>4. CASE changed[t]
      BY <1>1, <3>3, <3>4
    <3>5. CASE ~changed[t]
      BY <1>1, <1>2, <2>1, <3>2, <3>3, <3>5 DEF Kept
    <3> QED
      BY <3>4, <3>5
  <2>2. CASE q \notin mine[t]
    <3>1. q \notin spoilt /\ ~(changed[t] /\ t \in stale)
      BY <1>1, <2>2
    <3>2. \A u \in Callers : q \notin Written(u)
      BY <1>2, <1>4, <2>2
    <3>3. chip[q] = AsSet(q, flash[q])
      BY <1>2, <3>1, <3>2 DEF Agree
    <3>4. changed[t] => dev[t][q] = flash[q]
      BY <1>2, <1>5, <2>2, <3>1 DEF Kept
    <3> QED
      BY <1>1, <3>3, <3>4
  <2> QED
    BY <2>1, <2>2
<1>8. ASSUME NEW q \in Param, Given(q) PROVE Given(q)'
  <2>1. q \in mine[t] => q \in bad
    BY <1>2, <1>8 DEF Given, bad
  <2>2. q \in spoilt'
    BY <1>1, <1>8, <2>1 DEF Given
  <2> QED
    BY <1>3, <1>4, <1>8, <2>2 DEF Given
<1>9. ASSUME NEW u \in Callers \ {t}
      PROVE  TaskInv(u)' /\ Mine(u)' /\ Kept(u)' /\ Copied(u)' /\ Owned(u)'
  <2>1. /\ TaskInv(u) /\ Mine(u) /\ Kept(u) /\ Copied(u) /\ Owned(u)
        /\ Written(u)' = Written(u)
    BY <1>4 DEF Data
  <2>2. u \in stale' => u \in stale \/ dev[u] # Nothing
    BY <1>1
  <2>3. TaskInv(u)'
    BY <1>1, <1>3, <2>1, <2>2 DEF TaskInv, Todo
  <2>4. Mine(u)' /\ Owned(u)'
    BY <1>1, <1>3, <2>1 DEF Mine, Owned
  <2>5. Kept(u)'
    BY <1>1, <1>3, <2>1 DEF Kept
  <2>6. Copied(u)'
    BY <1>1, <1>8, <2>1, Params DEF Copied
  <2> QED
    BY <2>3, <2>4, <2>5, <2>6
<1>10. TaskInv(t)'
  BY <1>1, <1>2, <1>3 DEF TaskInv
<1>11. Mine(t)' /\ Kept(t)' /\ Copied(t)' /\ Owned(t)'
  BY <1>3, Copies DEF Mine, Kept, Copied, Owned
<1> QED
  BY <1>6, <1>7, <1>9, <1>10, <1>11 DEF Data

LEMMA EraseKeeps == ASSUME Shape, Data, NEW t \in Callers, Erase(t) PROVE Shape' /\ Data'
<1>1. /\ pc[t] = "erase" /\ pc' = [pc EXCEPT ![t] = "idle"]
      /\ flash' = [p \in Param |-> 0] /\ spoilt' = Param
      /\ stale' = {u \in Callers : dev[u] # Nothing}
      /\ UNCHANGED <<req, dev, changed, reg, bit>>
      /\ UNCHANGED <<chip, cancel, polls, begun, mine, late, clash>>
  BY DEF Erase, Holders, Goto, local
<1>2. pc'[t] = "idle" /\ \A u \in Callers \ {t} : pc'[u] = pc[u]
  BY <1>1, People DEF Shape
<1>3. Shape'
  <2>1. flash' \in Block
    BY <1>1, Params DEF Block, Field
  <2>2. /\ pc' \in [Tasks -> CallerPlaces \cup ClientPlaces] /\ pc'[Client] \in ClientPlaces
        /\ \A u \in Callers : pc'[u] \in CallerPlaces
    BY <1>1, People DEF Shape, CallerPlaces
  <2> QED
    BY <1>1, <2>1, <2>2 DEF Shape
<1>4. Agree'
  BY <1>1 DEF Agree
<1>5. ASSUME NEW u \in Callers
      PROVE  TaskInv(u)' /\ Mine(u)' /\ Kept(u)' /\ Copied(u)' /\ Owned(u)'
  <2>1. TaskInv(u)'
    <3>1. CASE u = t
      BY <1>1, <1>2, <3>1 DEF Data, TaskInv, Todo
    <3>2. CASE u # t
      BY <1>1, <1>2, <3>2 DEF Data, TaskInv, Todo
    <3> QED
      BY <3>1, <3>2
  <2>2. Mine(u)' /\ Kept(u)' /\ Owned(u)'
    BY <1>1 DEF Data, Mine, Kept, Owned, Written
  <2>3. Copied(u)'
    BY <1>1, Params DEF Data, Copied, Given, Written
  <2> QED
    BY <2>1, <2>2, <2>3
<1> QED
  BY <1>3, <1>4, <1>5 DEF Data

-----------------------------------------------------------------------------
\* IInv is an invariant, for every set of tasks, settings to begin with and
\* numbers commands come with.
THEOREM Invariance == Spec => []IInv
<1>1. IInv /\ [Next]_vars => IInv'
  <2> SUFFICES ASSUME IInv, [Next]_vars PROVE IInv'
    OBVIOUS
  <2>1. CASE UNCHANGED vars
    <3>1. /\ UNCHANGED <<chip, cancel, flash, sSPI, pc, polls, begun>>
          /\ UNCHANGED <<req, dev, changed, reg, bit>> /\ UNCHANGED hist
      BY <2>1 DEF vars, local
    <3>2. Shape' /\ Bus'
      BY <3>1 DEF IInv, Shape, Bus, FlushUndisturbed, hist
    <3>3. Data'
      BY <3>1, DataKept DEF IInv
    <3> QED
      BY <3>2, <3>3 DEF IInv
  <2>2. CASE Next
    <3>1. Bus'
      BY <2>2, BusStep DEF IInv
    <3>2. ASSUME NEW t \in Callers, Begin(t) \/ Command(t) PROVE Shape' /\ Data'
      BY <3>2, People, BeginKeeps, TakeKeeps, GetKeeps, ReadKeeps, RefuseKeeps, WriteKeeps,
         SaveKeeps, EraseKeeps DEF IInv, Command
    <3>3. ASSUME Flush \/ FlushStep \/ ChipCancels PROVE Shape' /\ Data'
      <4>1. Shape /\ Data
        BY DEF IInv
      <4>2. CASE Restart
        BY <4>1, <4>2, RestartKeeps
      <4>3. CASE Take(Client)
        BY <4>1, <4>3, People, TakeKeeps
      <4>4. CASE ~Restart /\ ~Take(Client)
        BY <3>3, <4>1, <4>4, ClientKeeps DEF FlushStep
      <4> QED
        BY <4>2, <4>3, <4>4
    <3>4. ASSUME Reboot PROVE Shape' /\ Data'
      BY <3>4, RebootKeeps DEF IInv
    <3> QED
      BY <2>2, <3>1, <3>2, <3>3, <3>4 DEF IInv, Next
  <2> QED
    BY <2>1, <2>2
<1> QED
  BY <1>1, InitIInv, PTL DEF Spec

\* At rest the chip is as a restart would set it from the settings, but for what
\* is spoilt.
THEOREM SettingsCorrect == Spec => []SettingsAgree
<1>1. IInv => SettingsAgree
  <2> SUFFICES ASSUME IInv, \A t \in Tasks : pc[t] = "idle"
               PROVE  \A p \in Param \ spoilt : chip[p] = AsSet(p, flash[p])
    BY DEF SettingsAgree
  <2>1. \A t \in Callers : Written(t) = {}
    BY People DEF IInv, Data, TaskInv, Written
  <2> QED
    BY <2>1 DEF IInv, Data, Agree
<1> QED
  BY <1>1, Invariance, PTL

\* Nobody is at the bus, or changes CANCEL, while clientTask waits for the chip.
THEOREM FlushCorrect == Spec => []FlushUndisturbed
<1>1. IInv => FlushUndisturbed
  BY DEF IInv, Bus
<1> QED
  BY <1>1, Invariance, PTL

\* Types, and that sSPI is with the task that is at an access.
THEOREM TypeCorrect == Spec => []TypeOK
<1>1. IInv => TypeOK
  <2> SUFFICES ASSUME IInv PROVE TypeOK
    OBVIOUS
  <2>1. /\ chip \in [Param -> Int \cup {Cold}] /\ flash \in Block
        /\ cancel \in BOOLEAN /\ polls \in 0..POLLS + 1 /\ begun \in 0..EVENTS
        /\ dev \in [Callers -> Copy]
    BY DEF IInv, Shape
  <2>2. pc \in [Tasks -> Places]
    <3>1. CallerPlaces \cup ClientPlaces \subseteq Places
      BY HeldPlaces DEF Places, CallerPlaces, ClientPlaces, AtAccess
    <3> QED
      BY <3>1, People DEF IInv, Shape
  <2>3. \A t \in Callers : DOMAIN req[t] \subseteq mine[t] \cup {"vol"} \cup Tone
    BY DEF IInv, Data, TaskInv
  <2>4. \A t \in Tasks : (sSPI = t) = (pc[t] \in {Held[p] : p \in DOMAIN Held})
    BY HeldPlaces DEF IInv, Bus
  <2> QED
    BY <2>1, <2>2, <2>3, <2>4 DEF TypeOK
<1> QED
  BY <1>1, Invariance, PTL
=============================================================================
