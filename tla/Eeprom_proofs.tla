---------------------------- MODULE Eeprom_proofs ----------------------------
(***************************************************************************)
(* Proofs about Eeprom: for every number of stations and sectors, every    *)
(* set of tasks and values, what was saved is in the flash, but for the    *)
(* losses FlashIsMeant names.                                              *)
(*                                                                         *)
(* IInv adds to it, for each task, what its local variables are for        *)
(* (TaskInv); that two tasks which rewrite one sector know of each other   *)
(* (AloneInv); that else the copy of the sector is what is meant, and the  *)
(* flash is blank while it is erased (CopyInv); and that a copy of the     *)
(* settings which is not stale holds what is meant (FreshInv).             *)
(***************************************************************************)
EXTENDS Eeprom, TLAPS

Places == {"boot", "idle", "change", "connect", "delay", "save", "copied", "erased"}
Ops    == {"none", "settings", "station", "clear", "eraseAll", "first", "last"}

Shape ==
    /\ flash \in [Cells -> Content] /\ meant \in [Cells -> Content \cup {Lost}]
    /\ pc \in [Tasks -> Places] /\ op \in [Tasks -> Ops]
    /\ DOMAIN cell = Tasks /\ DOMAIN dev = Tasks /\ DOMAIN eebuf = Tasks
    /\ clash \subseteq Tasks /\ stale \subseteq Tasks

TaskInv(t) ==
    /\ op[t] = "none" <=> pc[t] \in {"boot", "idle"}
    /\ pc[t] = "change" => op[t] = "settings"
    /\ pc[t] = "connect" => op[t] = "last"
    /\ pc[t] = "delay" => op[t] = "clear"
    /\ cell[t] \in Cells \cup Nat
    /\ t \in HoldsSettings => cell[t] \in Settings
    /\ op[t] \in {"first", "last"} => cell[t] = Net
    /\ op[t] \in {"station", "clear"} => cell[t] \in Station
    /\ op[t] = "eraseAll" => cell[t] \in Nat
    /\ op[t] # "none" => dev[t] \in [Target(t) -> Content]
    /\ InSetData(t) => eebuf[t] \in [InSector(SectorOf(t)) -> Content]
    /\ t \in clash => InSetData(t)

AloneInv(t, u) ==
    InSetData(t) /\ InSetData(u) /\ SectorOf(t) = SectorOf(u) /\ t # u => t \in clash

Meant(c, v) == v = meant[c] \/ meant[c] = Lost

CopyInv(t) ==
    InSetData(t) /\ t \notin clash =>
        \A c \in InSector(SectorOf(t)) :
            /\ Meant(c, eebuf[t][c])
            /\ pc[t] = "erased" => flash[c] = Blank

FreshInv(t) ==
    t \in HoldsSettings /\ t \notin stale =>
        \A c \in Settings \ {cell[t]} : Meant(c, dev[t][c])

IInv ==
    /\ Shape
    /\ \A t \in Tasks : TaskInv(t) /\ CopyInv(t) /\ FreshInv(t)
    /\ \A t, u \in Tasks : AloneInv(t, u)
    /\ FlashIsMeant

-----------------------------------------------------------------------------
\* Where settings and stations are.
LEMMA SettingsFirst == /\ Settings \subseteq Cells /\ Station \subseteq Cells
                       /\ \A c \in Settings : Sector(c) = 0
                       /\ Settings \cap Nat = {} /\ Net \in Settings
                       /\ \A c, d \in Settings : Sector(c) = Sector(d)
                       /\ Cells \subseteq Int /\ Station \subseteq Nat
BY EepromAssumption DEF Settings, Station, Cells, Sector, Net, Volume, Tone

LEMMA Values == /\ Value \subseteq Content /\ Blank \in Content /\ Zero \in Content
                /\ Mixed \in Content /\ Lost \notin Content
BY EepromAssumption DEF Content

\* What a command writes is in the sector it rewrites, and what it is about is
\* among that; of the settings it writes all or none.
LEMMA Targets ==
    ASSUME NEW t \in Tasks, TaskInv(t), op[t] \in Ops, op[t] # "none"
    PROVE  /\ Target(t) \subseteq InSector(SectorOf(t))
           /\ Purpose(t) \subseteq Target(t)
           /\ t \in HoldsSettings => Target(t) = Settings
           /\ Settings \subseteq Target(t) \/ Settings \cap Target(t) = {}
<1>1. CASE t \in HoldsSettings
  BY <1>1, SettingsFirst DEF TaskInv, Target, Purpose, SectorOf, InSector, HoldsSettings
<1>2. CASE op[t] \in {"station", "clear"}
  BY <1>2, SettingsFirst DEF TaskInv, Target, Purpose, SectorOf, InSector, HoldsSettings
<1>3. CASE op[t] = "eraseAll"
  BY <1>3, SettingsFirst DEF TaskInv, Target, Purpose, SectorOf, InSector, HoldsSettings
<1> QED
  BY <1>1, <1>2, <1>3 DEF Ops, HoldsSettings

LEMMA InitIInv == Init => IInv
<1> SUFFICES ASSUME Init PROVE IInv
  OBVIOUS
<1>1. Shape
  BY Values DEF Init, Shape, On, Places, Ops
<1>2. ASSUME NEW t \in Tasks PROVE TaskInv(t) /\ CopyInv(t) /\ FreshInv(t) /\ ~InSetData(t)
  BY SettingsFirst DEF Init, On, TaskInv, CopyInv, FreshInv, HoldsSettings, InSetData
<1>3. FlashIsMeant
  BY DEF Init, FlashIsMeant
<1> QED
  BY <1>1, <1>2, <1>3 DEF IInv, AloneInv

-----------------------------------------------------------------------------
\* t does something, the variables of the other tasks stay.
Alone(t) == \A u \in Tasks \ {t} : /\ pc'[u] = pc[u] /\ op'[u] = op[u]
                                   /\ cell'[u] = cell[u] /\ dev'[u] = dev[u]
                                   /\ eebuf'[u] = eebuf[u]

\* What another task does leaves what is known of the rest of the variables.
LEMMA OthersKept ==
    ASSUME NEW t \in Tasks, NEW u \in Tasks \ {t}, Alone(t)
    PROVE  /\ InSetData(u)' = InSetData(u) /\ SectorOf(u)' = SectorOf(u)
           /\ Target(u)' = Target(u)
           /\ (u \in HoldsSettings)' <=> u \in HoldsSettings
           /\ TaskInv(u) /\ ((u \in clash)' => u \in clash \/ InSetData(u)) => TaskInv(u)'
BY DEF Alone, InSetData, SectorOf, Target, HoldsSettings, TaskInv, InSector

\* A step of t outside eeSetData: it may change what t is about to write.
LEMMA LocalStep ==
    ASSUME IInv, NEW t \in Tasks, ~InSetData(t), ~InSetData(t)', Alone(t),
           UNCHANGED <<flash, eebuf, meant, clash>>,
           pc' \in [Tasks -> Places], op' \in [Tasks -> Ops],
           DOMAIN cell' = Tasks, DOMAIN dev' = Tasks,
           stale' \subseteq Tasks, stale \ {t} \subseteq stale',
           TaskInv(t)', FreshInv(t)'
    PROVE  IInv'
<1>1. Shape'
  BY DEF IInv, Shape
<1>2. ASSUME NEW u \in Tasks \ {t} PROVE TaskInv(u)' /\ CopyInv(u)' /\ FreshInv(u)'
  <2>1. /\ InSetData(u)' = InSetData(u) /\ SectorOf(u)' = SectorOf(u) /\ TaskInv(u)'
        /\ (u \in HoldsSettings)' <=> u \in HoldsSettings
    BY OthersKept DEF IInv
  <2>2. CopyInv(u)'
    BY <2>1 DEF IInv, CopyInv, Alone, Meant, InSector
  <2>3. FreshInv(u)'
    BY <2>1 DEF IInv, FreshInv, Alone, Meant
  <2> QED
    BY <2>1, <2>2, <2>3
<1>3. CopyInv(t)'
  BY DEF CopyInv
<1>4. ASSUME NEW u \in Tasks, NEW w \in Tasks PROVE AloneInv(u, w)'
  <2>1. CASE u = t \/ w = t
    BY <2>1 DEF AloneInv
  <2>2. CASE u # t /\ w # t
    <3>1. /\ InSetData(u)' = InSetData(u) /\ SectorOf(u)' = SectorOf(u)
          /\ InSetData(w)' = InSetData(w) /\ SectorOf(w)' = SectorOf(w)
      BY <2>2, OthersKept
    <3> QED
      BY <3>1 DEF IInv, AloneInv
  <2> QED
    BY <2>1, <2>2
<1>5. ASSUME NEW s PROVE Erasing(s) => Erasing(s)'
  <2> SUFFICES ASSUME NEW u \in Tasks, pc[u] = "erased", SectorOf(u) = s
               PROVE  Erasing(s)'
    BY DEF Erasing
  <2>1. u # t
    BY DEF InSetData
  <2>2. pc'[u] = "erased" /\ SectorOf(u)' = s
    BY <2>1, OthersKept DEF Alone
  <2> QED
    BY <2>2 DEF Erasing
<1>6. FlashIsMeant'
  BY <1>5 DEF IInv, FlashIsMeant
<1> QED
  BY <1>1, <1>2, <1>3, <1>4, <1>6 DEF IInv

-----------------------------------------------------------------------------
\* How a command goes on after eeSetData.
LEMMA Continues ==
    ASSUME Shape, NEW t \in Tasks, TaskInv(t), pc[t] \in {"save", "erased"},
           Continue(t), t \notin clash'
    PROVE  /\ pc' \in [Tasks -> Places] /\ op' \in [Tasks -> Ops]
           /\ DOMAIN cell' = Tasks /\ DOMAIN dev' = Tasks
           /\ \A u \in Tasks \ {t} : /\ pc'[u] = pc[u] /\ op'[u] = op[u]
                                     /\ cell'[u] = cell[u] /\ dev'[u] = dev[u]
           /\ ~InSetData(t)' /\ TaskInv(t)'
           /\ (t \in HoldsSettings)' => /\ t \in HoldsSettings /\ op'[t] # "none"
                                        /\ cell' = cell /\ dev' = dev
<1>1. op[t] # "none"
  BY DEF TaskInv
<1>2. CASE More(t) /\ op[t] = "clear"
  <2>1. /\ pc' = [pc EXCEPT ![t] = "delay"] /\ op' = op
        /\ cell' = [cell EXCEPT ![t] = cell[t] + 1]
        /\ dev' = [dev EXCEPT ![t] = [c \in {cell[t] + 1} |-> Zero]]
    BY <1>2 DEF Shape, Continue, Goto, Zeros
  <2>2. cell[t] + 1 \in Station
    BY <1>2, EepromAssumption DEF TaskInv, More, Station
  <2>3. /\ pc'[t] = "delay" /\ op'[t] = "clear" /\ cell'[t] = cell[t] + 1
        /\ dev'[t] \in [{cell[t] + 1} -> Content]
    BY <1>2, <2>1, Values DEF Shape
  <2>4. TaskInv(t)'
    BY <2>2, <2>3, SettingsFirst DEF TaskInv, Target, HoldsSettings, InSetData
  <2> QED
    BY <2>1, <2>3, <2>4 DEF Shape, Places, InSetData, HoldsSettings
<1>3. CASE More(t) /\ op[t] = "eraseAll"
  <2>1. /\ pc' = [pc EXCEPT ![t] = "save"] /\ op' = op
        /\ cell' = [cell EXCEPT ![t] = cell[t] + 1]
        /\ dev' = [dev EXCEPT ![t] = [c \in InSector(cell[t] + 1) |-> Zero]]
    BY <1>3 DEF Shape, Continue, Goto, Zeros
  <2>2. cell[t] + 1 \in Nat
    BY <1>3 DEF TaskInv
  <2>3. /\ pc'[t] = "save" /\ op'[t] = "eraseAll" /\ cell'[t] = cell[t] + 1
        /\ dev'[t] \in [InSector(cell[t] + 1) -> Content]
    BY <1>3, <2>1, Values DEF Shape
  <2>4. TaskInv(t)'
    BY <2>2, <2>3 DEF TaskInv, Target, HoldsSettings, InSetData, InSector
  <2> QED
    BY <2>1, <2>3, <2>4 DEF Shape, Places, InSetData, HoldsSettings
<1>4. CASE ~More(t) /\ op[t] = "first"
  <2>1. /\ pc' = [pc EXCEPT ![t] = "connect"] /\ op' = [op EXCEPT ![t] = "last"]
        /\ cell' = cell /\ dev' = dev
    BY <1>4 DEF Continue, Goto, Done
  <2>2. pc'[t] = "connect" /\ op'[t] = "last"
    BY <2>1 DEF Shape
  <2>3. TaskInv(t)'
    BY <1>4, <2>1, <2>2, SettingsFirst DEF TaskInv, Target, HoldsSettings, InSetData
  <2> QED
    BY <1>4, <2>1, <2>2, <2>3 DEF Shape, Places, Ops, InSetData, HoldsSettings
<1>5. CASE ~More(t) /\ op[t] # "first"
  <2>1. /\ pc' = [pc EXCEPT ![t] = "idle"] /\ op' = [op EXCEPT ![t] = "none"]
        /\ cell' = [cell EXCEPT ![t] = 0] /\ dev' = [dev EXCEPT ![t] = Nothing]
    BY <1>5 DEF Continue, Goto, Done
  <2>2. pc'[t] = "idle" /\ op'[t] = "none" /\ cell'[t] = 0
    BY <2>1 DEF Shape
  <2>3. TaskInv(t)'
    BY <2>2 DEF TaskInv, HoldsSettings, InSetData
  <2> QED
    BY <2>1, <2>2, <2>3 DEF Shape, Places, Ops, InSetData, HoldsSettings
<1> QED
  BY <1>2, <1>3, <1>4, <1>5 DEF More

LEMMA NoHeapKeeps == ASSUME IInv, NEW t \in Tasks, NoHeap(t) PROVE IInv'
<1>1. Shape /\ TaskInv(t) /\ FreshInv(t) /\ ~InSetData(t) /\ t \notin clash'
  BY DEF IInv, NoHeap, InSetData, TaskInv
<1>2. /\ pc' \in [Tasks -> Places] /\ op' \in [Tasks -> Ops]
      /\ DOMAIN cell' = Tasks /\ DOMAIN dev' = Tasks
      /\ Alone(t) /\ ~InSetData(t)' /\ TaskInv(t)'
      /\ (t \in HoldsSettings)' => /\ t \in HoldsSettings /\ op'[t] # "none"
                                   /\ cell' = cell /\ dev' = dev
  <2>1. pc[t] = "save" /\ Continue(t) /\ eebuf' = eebuf
    BY DEF NoHeap
  <2> QED
    BY <1>1, <2>1, Continues DEF Alone
<1>3. FreshInv(t)'
  BY <1>1, <1>2 DEF FreshInv, NoHeap, Meant
<1>4. stale' \subseteq Tasks /\ stale \ {t} \subseteq stale'
  BY <1>1 DEF NoHeap, Shape
<1> QED
  BY <1>1, <1>2, <1>3, <1>4, LocalStep DEF NoHeap

-----------------------------------------------------------------------------
\* What Start leaves behind.
LEMMA Starts ==
    ASSUME Shape, NEW t \in Tasks, NEW o \in Ops \ {"none"}, NEW c \in Cells \cup Nat,
           NEW image, NEW l \in {"change", "save", "connect"}, Start(t, o, c, image, l),
           l = "change" => o = "settings", l = "connect" => o = "last",
           o \in {"first", "last"} => c = Net,
           o \in {"settings", "first", "last"} => c \in Settings /\ image \in [Settings -> Content],
           o \in {"station", "clear"} => c \in Station /\ image \in [{c} -> Content],
           o = "eraseAll" => c \in Nat /\ image \in [InSector(c) -> Content],
           eebuf' = eebuf, t \notin clash'
    PROVE  /\ pc' \in [Tasks -> Places] /\ op' \in [Tasks -> Ops]
           /\ DOMAIN cell' = Tasks /\ DOMAIN dev' = Tasks
           /\ Alone(t) /\ ~InSetData(t)' /\ TaskInv(t)'
           /\ op'[t] = o /\ cell'[t] = c /\ dev'[t] = image
<1>1. /\ pc' = [pc EXCEPT ![t] = l] /\ op' = [op EXCEPT ![t] = o]
      /\ cell' = [cell EXCEPT ![t] = c] /\ dev' = [dev EXCEPT ![t] = image]
  BY DEF Start, Goto
<1>2. pc'[t] = l /\ op'[t] = o /\ cell'[t] = c /\ dev'[t] = image
  BY <1>1 DEF Shape
<1>3. TaskInv(t)'
  BY <1>2 DEF TaskInv, HoldsSettings, InSetData, Target, SectorOf, Ops, InSector
<1>4. pc' \in [Tasks -> Places] /\ op' \in [Tasks -> Ops]
  BY <1>1 DEF Shape, Places
<1>5. Alone(t) /\ DOMAIN cell' = Tasks /\ DOMAIN dev' = Tasks
  BY <1>1 DEF Shape, Alone
<1> QED
  BY <1>2, <1>3, <1>4, <1>5 DEF InSetData

\* The settings as they are in the flash, read while nobody erases their sector.
LEMMA SettingsRead ==
    ASSUME IInv
    PROVE  /\ SettingsNow \in [Settings -> Content]
           /\ ~Erasing(0) => \A c \in Settings : Meant(c, SettingsNow[c])
BY SettingsFirst DEF IInv, Shape, SettingsNow, FlashIsMeant, Meant

LEMMA GetSettingsKeeps == ASSUME IInv, NEW t \in Tasks, GetSettings(t) PROVE IInv'
<1>1. PICK c \in Settings : Start(t, "settings", c, SettingsNow, "change")
  BY DEF GetSettings, Settings
<1>2. Shape /\ t \notin clash' /\ ~InSetData(t)
  BY DEF IInv, GetSettings, InSetData, TaskInv
<1>3. /\ pc' \in [Tasks -> Places] /\ op' \in [Tasks -> Ops]
      /\ DOMAIN cell' = Tasks /\ DOMAIN dev' = Tasks
      /\ Alone(t) /\ ~InSetData(t)' /\ TaskInv(t)'
      /\ dev'[t] = SettingsNow
  <2>1. /\ "settings" \in Ops \ {"none"} /\ c \in Cells \cup Nat /\ eebuf' = eebuf
        /\ SettingsNow \in [Settings -> Content]
    BY SettingsRead, SettingsFirst DEF GetSettings, Ops
  <2> QED
    BY <1>1, <1>2, <2>1, Starts
<1>4. FreshInv(t)'
  BY <1>3, SettingsRead DEF GetSettings, GetStale, FreshInv, Meant
<1>5. stale' \subseteq Tasks /\ stale \ {t} \subseteq stale'
  BY <1>2 DEF GetSettings, GetStale, Shape
<1> QED
  BY <1>2, <1>3, <1>4, <1>5, LocalStep DEF GetSettings

LEMMA BootKeeps == ASSUME IInv, NEW t \in Tasks, Boot(t) PROVE IInv'
<1>1. PICK v \in Content :
         \/ Start(t, "first", Net, [SettingsNow EXCEPT ![Net] = v], "save")
         \/ Start(t, "last", Net, SettingsNow, "connect")
  BY Values DEF Boot
<1>2. Shape /\ t \notin clash' /\ ~InSetData(t)
  BY DEF IInv, Boot, InSetData, TaskInv
<1>3. PICK image \in [Settings -> Content] :
         /\ \/ Start(t, "first", Net, image, "save")
            \/ Start(t, "last", Net, image, "connect")
         /\ \A c \in Settings \ {Net} : image[c] = SettingsNow[c]
  <2>1. [SettingsNow EXCEPT ![Net] = v] \in [Settings -> Content]
    BY SettingsRead
  <2>2. \A c \in Settings \ {Net} : [SettingsNow EXCEPT ![Net] = v][c] = SettingsNow[c]
    BY SettingsRead
  <2> QED
    BY <1>1, <2>1, <2>2, SettingsRead
<1>4. /\ pc' \in [Tasks -> Places] /\ op' \in [Tasks -> Ops]
      /\ DOMAIN cell' = Tasks /\ DOMAIN dev' = Tasks
      /\ Alone(t) /\ ~InSetData(t)' /\ TaskInv(t)'
      /\ cell'[t] = Net /\ dev'[t] = image
  <2>1. Net \in Cells \cup Nat /\ Net \in Settings /\ eebuf' = eebuf
    BY SettingsFirst DEF Boot
  <2>2. "first" \in Ops \ {"none"} /\ "last" \in Ops \ {"none"}
    BY DEF Ops
  <2>3. CASE Start(t, "first", Net, image, "save")
    BY <1>2, <2>1, <2>2, <2>3, Starts
  <2>4. CASE Start(t, "last", Net, image, "connect")
    BY <1>2, <2>1, <2>2, <2>4, Starts
  <2> QED
    BY <1>3, <2>3, <2>4
<1>5. FreshInv(t)'
  BY <1>3, <1>4, SettingsRead DEF Boot, GetStale, FreshInv, Meant
<1>6. stale' \subseteq Tasks /\ stale \ {t} \subseteq stale'
  BY <1>2 DEF Boot, GetStale, Shape
<1> QED
  BY <1>2, <1>4, <1>5, <1>6, LocalStep DEF Boot

\* The commands that write zeros or a station.
LEMMA StartsWrite ==
    ASSUME IInv, NEW t \in Tasks, SetStation(t) \/ Clear(t) \/ EraseAll(t)
    PROVE  IInv'
<1>0. \E o \in {"station", "clear", "eraseAll"}, c \in Cells \cup Nat : \E image :
         /\ Start(t, o, c, image, "save")
         /\ o \in {"station", "clear"} => c \in Station /\ image \in [{c} -> Content]
         /\ o = "eraseAll" => c \in Nat /\ image \in [InSector(c) -> Content]
  <2>1. CASE SetStation(t)
    <3>1. PICK p \in Station, v \in Value : Start(t, "station", p, [c \in {p} |-> v], "save")
      BY <2>1 DEF SetStation
    <3>2. [c \in {p} |-> v] \in [{p} -> Content]
      BY Values
    <3> QED
      BY <3>1, <3>2, SettingsFirst
  <2>2. CASE Clear(t)
    <3>1. Zeros("clear", 0) \in [{0} -> Content]
      BY Values DEF Zeros
    <3>2. 0 \in Station
      BY EepromAssumption DEF Station
    <3> QED
      BY <2>2, <3>1, <3>2, SettingsFirst DEF Clear
  <2>3. CASE EraseAll(t)
    <3>1. Zeros("eraseAll", 0) \in [InSector(0) -> Content]
      BY Values DEF Zeros
    <3> QED
      BY <2>3, <3>1 DEF EraseAll
  <2> QED
    BY <2>1, <2>2, <2>3
<1>1. PICK o \in {"station", "clear", "eraseAll"}, c \in Cells \cup Nat : \E image :
         /\ Start(t, o, c, image, "save")
         /\ o \in {"station", "clear"} => c \in Station /\ image \in [{c} -> Content]
         /\ o = "eraseAll" => c \in Nat /\ image \in [InSector(c) -> Content]
  BY <1>0
<1>2. /\ Shape /\ t \notin clash' /\ ~InSetData(t)
      /\ UNCHANGED <<flash, eebuf, meant, clash, stale>>
  BY DEF IInv, SetStation, Clear, EraseAll, InSetData, TaskInv, hist
<1>3. /\ pc' \in [Tasks -> Places] /\ op' \in [Tasks -> Ops]
      /\ DOMAIN cell' = Tasks /\ DOMAIN dev' = Tasks
      /\ Alone(t) /\ ~InSetData(t)' /\ TaskInv(t)'
      /\ op'[t] = o
  BY <1>1, <1>2, Starts DEF Ops
<1>4. FreshInv(t)'
  BY <1>3 DEF FreshInv, HoldsSettings
<1> QED
  BY <1>2, <1>3, <1>4, LocalStep DEF Shape

LEMMA ChangeKeeps == ASSUME IInv, NEW t \in Tasks, Change(t) PROVE IInv'
<1>1. /\ Shape /\ TaskInv(t) /\ FreshInv(t) /\ ~InSetData(t)
      /\ op[t] = "settings" /\ pc[t] = "change" /\ t \in HoldsSettings
      /\ cell[t] \in Settings /\ dev[t] \in [Settings -> Content]
  BY DEF IInv, Change, InSetData, TaskInv, HoldsSettings, Target
<1>2. PICK v \in Value :
         \/ Done(t) /\ stale' = stale \ {t}
         \/ /\ dev' = [dev EXCEPT ![t] = [dev[t] EXCEPT ![cell[t]] = v]]
            /\ pc' = [pc EXCEPT ![t] = "save"] /\ UNCHANGED <<op, cell, stale>>
  BY DEF Change, Goto
<1>3. UNCHANGED <<flash, eebuf, meant, clash>>
  BY DEF Change
<1>4. CASE Done(t) /\ stale' = stale \ {t}
  <2>1. /\ pc' = [pc EXCEPT ![t] = "idle"] /\ op' = [op EXCEPT ![t] = "none"]
        /\ cell' = [cell EXCEPT ![t] = 0] /\ dev' = [dev EXCEPT ![t] = Nothing]
    BY <1>4 DEF Done, Goto
  <2>2. pc'[t] = "idle" /\ op'[t] = "none" /\ cell'[t] = 0
    BY <1>1, <2>1 DEF Shape
  <2>3. TaskInv(t)' /\ FreshInv(t)' /\ ~InSetData(t)'
    BY <1>1, <1>3, <2>2 DEF TaskInv, FreshInv, HoldsSettings, InSetData
  <2>4. pc' \in [Tasks -> Places] /\ op' \in [Tasks -> Ops] /\ Alone(t)
    BY <1>1, <1>3, <2>1 DEF Shape, Places, Ops, Alone
  <2> QED
    BY <1>1, <1>3, <1>4, <2>1, <2>3, <2>4, LocalStep DEF Shape
<1>5. CASE /\ dev' = [dev EXCEPT ![t] = [dev[t] EXCEPT ![cell[t]] = v]]
           /\ pc' = [pc EXCEPT ![t] = "save"] /\ UNCHANGED <<op, cell, stale>>
  <2>1. /\ pc'[t] = "save" /\ dev'[t] \in [Settings -> Content]
        /\ \A c \in Settings \ {cell[t]} : dev'[t][c] = dev[t][c]
    BY <1>1, <1>5, Values DEF Shape
  <2>2. TaskInv(t)'
    BY <1>1, <1>3, <1>5, <2>1 DEF TaskInv, HoldsSettings, InSetData, Target
  <2>3. FreshInv(t)' /\ ~InSetData(t)'
    BY <1>1, <1>3, <1>5, <2>1 DEF FreshInv, HoldsSettings, InSetData, Meant
  <2>4. pc' \in [Tasks -> Places] /\ op' \in [Tasks -> Ops] /\ Alone(t)
    BY <1>1, <1>3, <1>5 DEF Shape, Places, Alone
  <2> QED
    BY <1>1, <1>3, <1>5, <2>2, <2>3, <2>4, LocalStep DEF Shape
<1> QED
  BY <1>2, <1>4, <1>5

LEMMA WifiUpKeeps == ASSUME IInv, NEW t \in Tasks, WifiUp(t) PROVE IInv'
<1>1. /\ Shape /\ TaskInv(t) /\ FreshInv(t) /\ ~InSetData(t)
      /\ op[t] = "last" /\ pc[t] = "connect" /\ t \in HoldsSettings
      /\ cell[t] = Net /\ dev[t] \in [Settings -> Content]
  BY DEF IInv, WifiUp, InSetData, TaskInv, HoldsSettings, Target
<1>2. PICK v \in Content : dev' = [dev EXCEPT ![t] = [dev[t] EXCEPT ![Net] = v]]
  BY <1>1, Values, SettingsFirst DEF WifiUp
<1>3. /\ pc' = [pc EXCEPT ![t] = "save"]
      /\ UNCHANGED <<flash, op, cell, eebuf, meant, clash, stale>>
  BY DEF WifiUp, Goto, hist
<1>4. /\ pc'[t] = "save" /\ dev'[t] \in [Settings -> Content]
      /\ \A c \in Settings \ {Net} : dev'[t][c] = dev[t][c]
  BY <1>1, <1>2, <1>3 DEF Shape
<1>5. TaskInv(t)'
  BY <1>1, <1>3, <1>4 DEF TaskInv, HoldsSettings, InSetData, Target
<1>6. FreshInv(t)' /\ ~InSetData(t)'
  BY <1>1, <1>3, <1>4 DEF FreshInv, HoldsSettings, InSetData, Meant
<1>7. pc' \in [Tasks -> Places] /\ op' \in [Tasks -> Ops] /\ Alone(t)
  BY <1>1, <1>2, <1>3 DEF Shape, Places, Alone
<1> QED
  BY <1>1, <1>2, <1>3, <1>5, <1>6, <1>7, LocalStep DEF Shape

LEMMA WakeKeeps == ASSUME IInv, NEW t \in Tasks, Wake(t) PROVE IInv'
<1>1. Shape /\ TaskInv(t) /\ FreshInv(t) /\ ~InSetData(t) /\ op[t] = "clear"
  BY DEF IInv, Wake, InSetData, TaskInv
<1>2. /\ pc' = [pc EXCEPT ![t] = "save"]
      /\ UNCHANGED <<flash, op, cell, dev, eebuf, meant, clash, stale>>
  BY DEF Wake, Goto, hist
<1>3. pc'[t] = "save" /\ TaskInv(t)' /\ FreshInv(t)' /\ ~InSetData(t)'
  BY <1>1, <1>2 DEF Shape, TaskInv, FreshInv, HoldsSettings, InSetData, Target
<1>4. pc' \in [Tasks -> Places] /\ op' \in [Tasks -> Ops] /\ Alone(t)
  BY <1>1, <1>2 DEF Shape, Places, Alone
<1> QED
  BY <1>1, <1>2, <1>3, <1>4, LocalStep DEF Shape

-----------------------------------------------------------------------------
\* Steps of eeSetData: what the command is stays.
LEMMA SetDataKept ==
    ASSUME Shape, NEW t \in Tasks, NEW l \in Places, pc' = [pc EXCEPT ![t] = l],
           UNCHANGED <<op, cell, dev>>
    PROVE  /\ pc' \in [Tasks -> Places] /\ pc'[t] = l
           /\ \A u \in Tasks : /\ SectorOf(u)' = SectorOf(u) /\ Target(u)' = Target(u)
                               /\ (u \in HoldsSettings)' <=> u \in HoldsSettings
                               /\ u # t => pc'[u] = pc[u] /\ InSetData(u)' = InSetData(u)
BY DEF Shape, SectorOf, Target, HoldsSettings, InSector, InSetData

LEMMA ReadSectorKeeps == ASSUME IInv, NEW t \in Tasks, ReadSector(t) PROVE IInv'
<1> DEFINE others == {u \in Tasks \ {t} : InSetData(u) /\ SectorOf(u) = SectorOf(t)}
           copy   == [c \in InSector(SectorOf(t)) |-> flash[c]]
<1>1. /\ pc[t] = "save" /\ pc' = [pc EXCEPT ![t] = "copied"]
      /\ UNCHANGED <<op, cell, dev>> /\ UNCHANGED <<flash, meant, stale>>
      /\ eebuf' = [eebuf EXCEPT ![t] = copy]
      /\ clash' = IF others = {} THEN clash ELSE clash \cup others \cup {t}
  BY DEF ReadSector, Goto
<1>2. Shape /\ ~InSetData(t) /\ t \notin clash
  BY <1>1 DEF IInv, InSetData, TaskInv
<1> HIDE DEF others, copy
<1>3. /\ pc' \in [Tasks -> Places] /\ pc'[t] = "copied"
      /\ \A u \in Tasks : /\ SectorOf(u)' = SectorOf(u) /\ Target(u)' = Target(u)
                          /\ (u \in HoldsSettings)' <=> u \in HoldsSettings
                          /\ u # t => pc'[u] = pc[u] /\ InSetData(u)' = InSetData(u)
  BY <1>1, <1>2, SetDataKept DEF Places
<1>4. /\ InSetData(t)' /\ eebuf'[t] = copy
      /\ \A u \in Tasks \ {t} : eebuf'[u] = eebuf[u]
      /\ copy \in [InSector(SectorOf(t)) -> Content]
      /\ \A c \in InSector(SectorOf(t)) : copy[c] = flash[c]
  BY <1>1, <1>2, <1>3 DEF Shape, InSetData, copy, InSector
<1>5. /\ others \subseteq Tasks /\ clash \subseteq clash' /\ clash' \subseteq Tasks
      /\ others # {} => t \in clash' /\ others \subseteq clash'
      /\ t \in clash' => others # {}
  BY <1>1, <1>2 DEF others, Shape
<1>6. Shape'
  BY <1>1, <1>2, <1>3, <1>5 DEF Shape
<1>7. ASSUME NEW u \in Tasks PROVE TaskInv(u)'
  <2>1. CASE u = t
    <3>1. TaskInv(t) /\ pc'[t] = "copied" /\ InSetData(t)'
      BY <1>3, <1>4 DEF IInv
    <3>2. eebuf'[t] \in [InSector(SectorOf(t))' -> Content]
      BY <1>3, <1>4 DEF InSector
    <3>3. UNCHANGED <<op[t], cell[t], dev[t], Target(t), t \in HoldsSettings>>
      BY <1>1, <1>3 DEF HoldsSettings
    <3> QED
      BY <2>1, <1>1, <3>1, <3>2, <3>3 DEF TaskInv
  <2>2. CASE u # t
    <3>1. u \in clash' => InSetData(u)
      BY <2>2, <1>1 DEF others, IInv, TaskInv
    <3>2. eebuf'[u] = eebuf[u] /\ pc'[u] = pc[u] /\ InSetData(u)' = InSetData(u)
      BY <2>2, <1>3, <1>4
    <3> QED
      BY <3>1, <3>2, <1>1, <1>3 DEF IInv, TaskInv, InSector
  <2> QED
    BY <2>1, <2>2
<1>8. ASSUME NEW u \in Tasks PROVE CopyInv(u)'
  <2>1. CASE u = t
    <3> SUFFICES ASSUME t \notin clash', NEW c \in InSector(SectorOf(t))
                 PROVE  Meant(c, copy[c])
      BY <2>1, <1>1, <1>3, <1>4 DEF CopyInv, Meant, InSector
    <3>1. others = {}
      BY <1>5
    <3>2. ~Erasing(SectorOf(t))
      BY <3>1, <1>1 DEF others, Erasing, InSetData
    <3>3. c \in Cells /\ Sector(c) = SectorOf(t)
      BY DEF InSector
    <3> QED
      BY <1>4, <3>2, <3>3 DEF IInv, FlashIsMeant, Meant
  <2>2. CASE u # t
    <3>1. eebuf'[u] = eebuf[u] /\ pc'[u] = pc[u] /\ InSetData(u)' = InSetData(u)
      BY <2>2, <1>3, <1>4
    <3> QED
      BY <3>1, <1>1, <1>3, <1>5 DEF IInv, CopyInv, Meant, InSector
  <2> QED
    BY <2>1, <2>2
<1>9. ASSUME NEW u \in Tasks PROVE FreshInv(u)'
  BY <1>1, <1>3 DEF IInv, FreshInv, Meant
<1>10. ASSUME NEW u \in Tasks, NEW w \in Tasks PROVE AloneInv(u, w)'
  <2>1. CASE u = t
    BY <2>1, <1>3, <1>5 DEF AloneInv, others
  <2>2. CASE w = t
    BY <2>2, <1>3, <1>5 DEF AloneInv, others
  <2>3. CASE u # t /\ w # t
    BY <2>3, <1>3, <1>5 DEF AloneInv, IInv
  <2> QED
    BY <2>1, <2>2, <2>3
<1>11. FlashIsMeant'
  <2>1. \A s : Erasing(s) => Erasing(s)'
    BY <1>1, <1>3 DEF Erasing
  <2> QED
    BY <2>1, <1>1 DEF IInv, FlashIsMeant
<1> QED
  BY <1>6, <1>7, <1>8, <1>9, <1>10, <1>11 DEF IInv

LEMMA EraseSectorKeeps == ASSUME IInv, NEW t \in Tasks, EraseSector(t) PROVE IInv'
<1>1. /\ pc[t] = "copied" /\ pc' = [pc EXCEPT ![t] = "erased"]
      /\ UNCHANGED <<op, cell, dev>> /\ UNCHANGED <<eebuf, meant, clash, stale>>
  BY DEF EraseSector, Goto, hist
<1>2. Shape /\ InSetData(t)
  BY <1>1 DEF IInv, InSetData
<1>3. /\ pc' \in [Tasks -> Places] /\ pc'[t] = "erased" /\ InSetData(t)'
      /\ \A u \in Tasks : /\ SectorOf(u)' = SectorOf(u) /\ Target(u)' = Target(u)
                          /\ (u \in HoldsSettings)' <=> u \in HoldsSettings
                          /\ u # t => pc'[u] = pc[u]
                          /\ InSetData(u)' = InSetData(u)
  <2>1. /\ pc' \in [Tasks -> Places] /\ pc'[t] = "erased"
        /\ \A u \in Tasks : /\ SectorOf(u)' = SectorOf(u) /\ Target(u)' = Target(u)
                            /\ (u \in HoldsSettings)' <=> u \in HoldsSettings
                            /\ u # t => pc'[u] = pc[u] /\ InSetData(u)' = InSetData(u)
    BY <1>1, <1>2, SetDataKept DEF Places
  <2>2. InSetData(t)' /\ InSetData(t)' = InSetData(t)
    BY <1>2, <2>1 DEF InSetData
  <2> QED
    BY <2>1, <2>2
<1>4. \A c \in Cells : flash'[c] = IF Sector(c) = SectorOf(t) THEN Blank ELSE flash[c]
  BY DEF EraseSector
<1>5. Shape'
  BY <1>1, <1>2, <1>3, Values DEF Shape, EraseSector
<1>6. ASSUME NEW u \in Tasks PROVE TaskInv(u)'
  BY <1>1, <1>3 DEF IInv, TaskInv, InSector
<1>7. ASSUME NEW u \in Tasks PROVE CopyInv(u)'
  <2> SUFFICES ASSUME InSetData(u), u \notin clash, NEW c \in InSector(SectorOf(u))
               PROVE  Meant(c, eebuf[u][c]) /\ (pc'[u] = "erased" => flash'[c] = Blank)
    BY <1>1, <1>3 DEF CopyInv, Meant, InSector
  <2>1. /\ Meant(c, eebuf[u][c]) /\ (pc[u] = "erased" => flash[c] = Blank)
        /\ c \in Cells /\ Sector(c) = SectorOf(u)
    BY DEF IInv, CopyInv, InSector
  <2>2. u = t \/ SectorOf(u) # SectorOf(t)
    BY <1>2 DEF IInv, AloneInv
  <2> QED
    BY <2>1, <2>2, <1>3, <1>4
<1>8. ASSUME NEW u \in Tasks PROVE FreshInv(u)'
  BY <1>1, <1>3 DEF IInv, FreshInv, Meant
<1>9. ASSUME NEW u \in Tasks, NEW w \in Tasks PROVE AloneInv(u, w)'
  BY <1>1, <1>3 DEF IInv, AloneInv
<1>10. FlashIsMeant'
  <2>1. \A s : Erasing(s) \/ s = SectorOf(t) => Erasing(s)'
    BY <1>1, <1>3 DEF Erasing
  <2> QED
    BY <2>1, <1>1, <1>4 DEF IInv, FlashIsMeant
<1> QED
  BY <1>5, <1>6, <1>7, <1>8, <1>9, <1>10 DEF IInv

\* What is written onto erased flash is what is then there.
LEMMA Clearing ==
    ASSUME NEW old \in Content, NEW new \in Content
    PROVE  Clears(old, new) \in Content /\ (old = Blank => Clears(old, new) = new)
BY Values DEF Clears

LEMMA WriteSectorKeeps == ASSUME IInv, NEW t \in Tasks, WriteSector(t) PROVE IInv'
<1> DEFINE S == SectorOf(t)
<1>1. /\ pc[t] = "erased" /\ Continue(t) /\ clash' = clash \ {t}
      /\ eebuf' = [eebuf EXCEPT ![t] = Nothing]
      /\ flash' = [c \in Cells |-> IF Sector(c) = S
                                   THEN Clears(flash[c], MergedAt(t, c)) ELSE flash[c]]
      /\ meant' = [c \in Cells |-> IF c \in Spoilt(t) THEN Lost
                                   ELSE IF c \in Purpose(t) THEN dev[t][c] ELSE meant[c]]
      /\ stale' = (stale \cup (IF Settings \subseteq Target(t) THEN HoldsSettings ELSE {}))
                    \ {t}
  BY DEF WriteSector
<1>2. /\ Shape /\ TaskInv(t) /\ CopyInv(t) /\ FreshInv(t) /\ InSetData(t)
      /\ op[t] \in Ops /\ op[t] # "none"
      /\ dev[t] \in [Target(t) -> Content] /\ eebuf[t] \in [InSector(S) -> Content]
  BY <1>1 DEF IInv, Shape, InSetData, TaskInv
<1>3. /\ Target(t) \subseteq InSector(S) /\ Purpose(t) \subseteq Target(t)
      /\ t \in HoldsSettings => Target(t) = Settings
      /\ Settings \subseteq Target(t) \/ Settings \cap Target(t) = {}
  BY <1>2, Targets
<1>4. /\ pc' \in [Tasks -> Places] /\ op' \in [Tasks -> Ops]
      /\ DOMAIN cell' = Tasks /\ DOMAIN dev' = Tasks /\ Alone(t)
      /\ ~InSetData(t)' /\ TaskInv(t)'
      /\ (t \in HoldsSettings)' => /\ t \in HoldsSettings /\ op'[t] # "none"
                                   /\ cell' = cell /\ dev' = dev
  BY <1>1, <1>2, Continues DEF Alone
<1>5. Spoilt(t) \subseteq InSector(S)
  BY <1>3 DEF Spoilt
<1>6. \A c \in Cells : Sector(c) # S => flash'[c] = flash[c] /\ meant'[c] = meant[c]
  BY <1>1, <1>3, <1>5 DEF InSector
<1>7. \A c \in InSector(S) : MergedAt(t, c) \in Content
  BY <1>2, <1>3 DEF MergedAt
<1>8. flash' \in [Cells -> Content]
  <2> SUFFICES ASSUME NEW c \in Cells
               PROVE  (IF Sector(c) = S THEN Clears(flash[c], MergedAt(t, c)) ELSE flash[c])
                        \in Content
    BY <1>1
  <2>1. flash[c] \in Content
    BY <1>2 DEF Shape
  <2>2. CASE Sector(c) = S
    <3>1. MergedAt(t, c) \in Content
      BY <2>2, <1>7 DEF InSector
    <3>2. Clears(flash[c], MergedAt(t, c)) \in Content
      BY <2>1, <3>1, Clearing
    <3> QED
      BY <2>2, <3>2
  <2> QED
    BY <2>1, <2>2
<1>9. meant' \in [Cells -> Content \cup {Lost}]
  <2>1. \A c \in Purpose(t) : dev[t][c] \in Content
    BY <1>2, <1>3
  <2> QED
    BY <2>1, <1>1, <1>2 DEF Shape
<1>10. Shape'
  BY <1>1, <1>2, <1>4, <1>8, <1>9 DEF Shape, HoldsSettings
<1>11. ASSUME t \notin clash, NEW c \in InSector(S) PROVE flash'[c] = MergedAt(t, c)
  <2>1. c \in Cells /\ Sector(c) = S /\ flash[c] = Blank
    BY <1>1, <1>2, <1>11 DEF CopyInv, InSector
  <2>2. Clears(Blank, MergedAt(t, c)) = MergedAt(t, c)
    BY <1>7, Values, Clearing
  <2> QED
    BY <1>1, <2>1, <2>2
<1>12. ASSUME t \notin clash, NEW c \in InSector(S) \ Target(t)
       PROVE  meant'[c] = meant[c] /\ Meant(c, eebuf[t][c]) /\ MergedAt(t, c) = eebuf[t][c]
  BY <1>1, <1>2, <1>3, <1>12 DEF Spoilt, CopyInv, InSector, MergedAt
\* What is written of the command is meant now.
<1>13. ASSUME t \notin clash, NEW c \in Target(t) PROVE meant'[c] = dev[t][c] \/ meant'[c] = Lost
  <2>1. c \in Cells
    BY <1>3, <1>13 DEF InSector
  <2>2. CASE c \in Purpose(t)
    BY <2>1, <2>2, <1>1, <1>13 DEF Spoilt
  <2>3. CASE c \notin Purpose(t)
    <3>1. t \in HoldsSettings /\ c \in Settings \ {cell[t]}
      BY <2>3, <1>3, <1>13 DEF Purpose
    <3>2. CASE t \in stale
      BY <3>2, <2>1, <2>3, <1>1, <1>13 DEF Spoilt
    <3>3. CASE t \notin stale
      BY <3>1, <3>3, <2>1, <2>3, <1>1, <1>2, <1>13 DEF Spoilt, FreshInv, Meant
    <3> QED
      BY <3>2, <3>3
  <2> QED
    BY <2>2, <2>3
<1>14. ASSUME NEW u \in Tasks \ {t}
       PROVE  /\ InSetData(u)' = InSetData(u) /\ SectorOf(u)' = SectorOf(u)
              /\ Target(u)' = Target(u) /\ ((u \in HoldsSettings)' <=> u \in HoldsSettings)
              /\ TaskInv(u)' /\ pc'[u] = pc[u] /\ eebuf'[u] = eebuf[u]
              /\ cell'[u] = cell[u] /\ dev'[u] = dev[u]
  <2>1. TaskInv(u) /\ ((u \in clash)' => u \in clash)
    BY <1>1 DEF IInv
  <2> QED
    BY <1>4, <2>1, OthersKept DEF Alone
<1>15. ASSUME NEW u \in Tasks PROVE CopyInv(u)'
  <2>1. CASE u = t
    BY <2>1, <1>4 DEF CopyInv
  <2>2. CASE u # t
    <3> SUFFICES ASSUME InSetData(u), u \notin clash, NEW c \in InSector(SectorOf(u))
                 PROVE  Meant(c, eebuf[u][c])' /\ (pc[u] = "erased" => flash'[c] = Blank)
      BY <2>2, <1>1, <1>14 DEF CopyInv, InSector
    <3>1. SectorOf(u) # S
      BY <2>2, <1>2 DEF IInv, AloneInv
    <3>2. /\ Meant(c, eebuf[u][c]) /\ (pc[u] = "erased" => flash[c] = Blank)
          /\ c \in Cells /\ Sector(c) = SectorOf(u)
      BY DEF IInv, CopyInv, InSector
    <3> QED
      BY <2>2, <3>1, <3>2, <1>6, <1>14 DEF Meant
  <2> QED
    BY <2>1, <2>2
<1>16. ASSUME NEW u \in Tasks PROVE FreshInv(u)'
  <2>1. CASE u = t
    <3> SUFFICES ASSUME (t \in HoldsSettings)', NEW c \in Settings \ {cell[t]}
                 PROVE  meant'[c] = dev[t][c] \/ meant'[c] = Lost
      BY <2>1, <1>4 DEF FreshInv, Meant
    <3>1. t \in HoldsSettings /\ c \in Target(t) /\ c \in InSector(S)
      BY <1>3, <1>4
    <3>2. CASE t \in clash
      BY <3>1, <3>2, <1>1 DEF Spoilt, InSector
    <3>3. CASE t \notin clash
      BY <3>1, <3>3, <1>13
    <3> QED
      BY <3>2, <3>3
  <2>2. CASE u # t
    <3> SUFFICES ASSUME u \in HoldsSettings, u \notin stale', NEW c \in Settings \ {cell[u]}
                 PROVE  Meant(c, dev[u][c])'
      BY <2>2, <1>14 DEF FreshInv
    <3>1. c \notin Purpose(t) /\ u \notin stale /\ c \in Cells
      BY <2>2, <1>1, <1>3, SettingsFirst
    <3>2. meant'[c] \in {meant[c], Lost}
      BY <3>1, <1>1
    <3>3. Meant(c, dev[u][c])
      BY <3>1 DEF IInv, FreshInv
    <3> QED
      BY <2>2, <3>2, <3>3, <1>14 DEF Meant
  <2> QED
    BY <2>1, <2>2
<1>17. ASSUME NEW u \in Tasks, NEW w \in Tasks PROVE AloneInv(u, w)'
  <2>1. CASE u = t \/ w = t
    BY <2>1, <1>4 DEF AloneInv
  <2>2. CASE u # t /\ w # t
    BY <2>2, <1>1, <1>14 DEF IInv, AloneInv
  <2> QED
    BY <2>1, <2>2
<1>18. FlashIsMeant'
  <2> SUFFICES ASSUME NEW c \in Cells
               PROVE  flash'[c] = meant'[c] \/ meant'[c] = Lost \/ Erasing(Sector(c))'
    BY DEF FlashIsMeant
  <2>1. CASE Sector(c) # S
    <3>1. Erasing(Sector(c)) => Erasing(Sector(c))'
      BY <2>1, <1>14 DEF Erasing
    <3> QED
      BY <2>1, <3>1, <1>6 DEF IInv, FlashIsMeant
  <2>2. CASE Sector(c) = S /\ t \in clash
    BY <2>2, <1>1 DEF Spoilt, InSector
  <2>3. CASE Sector(c) = S /\ t \notin clash /\ c \in Target(t)
    <3>1. flash'[c] = dev[t][c]
      BY <2>3, <1>2, <1>3, <1>11 DEF MergedAt
    <3> QED
      BY <2>3, <3>1, <1>13
  <2>4. CASE Sector(c) = S /\ t \notin clash /\ c \notin Target(t)
    BY <2>4, <1>11, <1>12 DEF InSector, Meant
  <2> QED
    BY <2>1, <2>2, <2>3, <2>4
<1>19. ASSUME NEW u \in Tasks PROVE TaskInv(u)'
  BY <1>4, <1>14
<1> QED
  BY <1>10, <1>15, <1>16, <1>17, <1>18, <1>19 DEF IInv

LEMMA ResetKeeps == ASSUME IInv, Reset PROVE IInv'
<1>1. /\ pc' = On /\ op' = [t \in Tasks |-> "none"] /\ cell' = [t \in Tasks |-> 0]
      /\ dev' = [t \in Tasks |-> Nothing] /\ eebuf' = [t \in Tasks |-> Nothing]
      /\ meant' = [c \in Cells |-> IF Erasing(Sector(c)) THEN Lost ELSE meant[c]]
      /\ clash' = {} /\ stale' = {} /\ flash' = flash
  BY DEF Reset
<1>2. Shape'
  BY <1>1 DEF IInv, Shape, On, Places, Ops
<1>3. ASSUME NEW t \in Tasks PROVE TaskInv(t)' /\ CopyInv(t)' /\ FreshInv(t)' /\ ~InSetData(t)'
  BY <1>1 DEF On, TaskInv, CopyInv, FreshInv, HoldsSettings, InSetData
<1>4. FlashIsMeant'
  BY <1>1 DEF IInv, FlashIsMeant
<1> QED
  BY <1>2, <1>3, <1>4 DEF IInv, AloneInv

-----------------------------------------------------------------------------
\* IInv is an invariant, whatever the tasks do and whenever power is lost.
THEOREM Invariance == Spec => []IInv
<1>1. IInv /\ [Next]_vars => IInv'
  <2> SUFFICES ASSUME IInv, [Next]_vars PROVE IInv'
    OBVIOUS
  <2>1. CASE UNCHANGED vars
    <3>1. UNCHANGED <<flash, pc, op, cell, dev, eebuf, meant, clash, stale>>
      BY <2>1 DEF vars, task, hist
    <3>2. Shape' /\ FlashIsMeant'
      BY <3>1 DEF IInv, Shape, FlashIsMeant, Erasing, SectorOf
    <3>3. ASSUME NEW t \in Tasks PROVE TaskInv(t)'
      BY <3>1 DEF IInv, TaskInv, HoldsSettings, InSetData, Target, SectorOf, InSector
    <3>4. ASSUME NEW t \in Tasks PROVE CopyInv(t)' /\ FreshInv(t)'
      BY <3>1 DEF IInv, CopyInv, FreshInv, HoldsSettings, InSetData, SectorOf, InSector, Meant
    <3>5. \A t, u \in Tasks : AloneInv(t, u)'
      BY <3>1 DEF IInv, AloneInv, InSetData, SectorOf
    <3> QED
      BY <3>2, <3>3, <3>4, <3>5 DEF IInv
  <2>2. ASSUME NEW t \in Tasks, Command(t) \/ Step(t) PROVE IInv'
    BY <2>2, GetSettingsKeeps, StartsWrite, ChangeKeeps, BootKeeps, WifiUpKeeps, WakeKeeps,
       NoHeapKeeps, ReadSectorKeeps, EraseSectorKeeps, WriteSectorKeeps
       DEF Command, Step, SetData
  <2>3. CASE Reset
    BY <2>3, ResetKeeps
  <2> QED
    BY <2>1, <2>2, <2>3 DEF Next
<1> QED
  BY <1>1, InitIInv, PTL DEF Spec

\* Where nobody is erasing, a block holds what was last saved to it, except in
\* the three cases in which saveDeviceSettings and saveStation lose something.
THEOREM FlashCorrect == Spec => []FlashIsMeant
<1>1. IInv => FlashIsMeant
  BY DEF IInv
<1> QED
  BY <1>1, Invariance, PTL

\* Types, and that eeSetData writes back what it has read.
THEOREM TypeCorrect == Spec => []TypeOK
<1>1. IInv => TypeOK
  <2> SUFFICES ASSUME IInv PROVE TypeOK
    OBVIOUS
  <2>1. ASSUME NEW t \in Tasks
        PROVE  /\ pc[t] \in Places /\ op[t] \in Ops /\ cell[t] \in Cells \cup Nat
               /\ InSetData(t) => /\ DOMAIN eebuf[t] = InSector(SectorOf(t))
                                  /\ DOMAIN dev[t] = Target(t)
    <3>1. InSetData(t) => op[t] # "none"
      BY DEF IInv, TaskInv, InSetData
    <3> QED
      BY <3>1 DEF IInv, Shape, TaskInv
  <2> QED
    BY <2>1 DEF IInv, Shape, TypeOK, Places, Ops
<1> QED
  BY <1>1, Invariance, PTL
=============================================================================
