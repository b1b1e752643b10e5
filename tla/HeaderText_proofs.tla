--------------------------- MODULE HeaderText_proofs ---------------------------
(***************************************************************************)
(* Proofs about HeaderText: for any number of tasks, sessions, commands    *)
(* and shortages of memory, the texts are the station's, the pages show    *)
(* them, what was measured is enough, and a title to be continued is there.*)
(*                                                                         *)
(* The invariant says for each task what its local variables are worth     *)
(* while the texts have not changed (Room, Fresh); for each text who is    *)
(* going to tell it (Known); and what becomes of the texts from the moment *)
(* they are emptied: they stay so until the header is parsed (Playing), or *)
(* if a stop was given, are empty or about to be emptied (Cleared).        *)
(***************************************************************************)
EXTENDS HeaderText, TLAPS

Places == {"idle", "clear", "zero", "metaint", "measure", "format", "send"}
Kind   == {"emptied", "saved"}

Shape ==
    /\ TypeOK
    /\ sent \in Fields /\ sentInt \in BOOLEAN /\ old \in [Callers -> BOOLEAN]
    /\ late \in BOOLEAN /\ hurt \subseteq Field \cup {"metaint"}
    /\ moved \in [Callers \cup {Client} -> SUBSET Kind] /\ untold \subseteq Field
    /\ short \in Nat /\ astray \in BOOLEAN

Size(f) == Len(Text(head[f]))

\* While nothing was saved since it began to measure, json_length is enough.
Room(t) ==
    /\ pc[t] \in {"idle", "clear", "zero", "metaint"} => len[t] = 0
    /\ pc[t] = "measure" /\ at[t] = "name" => len[t] = 0
    /\ "saved" \notin moved[t] =>
         /\ pc[t] = "measure" /\ at[t] = "meta" => Size("name") <= len[t]
         /\ pc[t] = "format" /\ at[t] = "name" => Size("name") + Size("meta") <= len[t]
         /\ pc[t] = "format" /\ at[t] = "meta" => Len(msg[t]["name"]) + Size("meta") <= len[t]
         /\ pc[t] = "send" => Len(msg[t]["name"]) + Len(msg[t]["meta"]) <= len[t]

\* While the texts have not changed, what is formatted, or being broadcast by
\* clientTask, are the texts.
Fresh(t) ==
    moved[t] = {} =>
        /\ pc[t] = "format" /\ at[t] = "meta" => msg[t]["name"] = Text(head["name"])
        /\ pc[t] = "send" => \A f \in Field : msg[t][f] = Text(head[f])
ClientFresh ==
    /\ ct \in {"rest", "open", "data", "fault"} => news = NoNews
    /\ moved[Client] = {} => \A f \in DOMAIN news : news[f] = Text(head[f])

\* Task t is going to tell the texts.
Telling(t) == pc[t] # "idle" /\ ~icy[t]
Known(f) == shown[f] = Text(head[f]) \/ f \in DOMAIN news \/ \E t \in Callers : Telling(t)
Tells == /\ \A t \in Callers : icy[t] => pc[t] \in {"measure", "format", "send"}
         /\ \A f \in Field \ untold : Known(f)

\* In a session that was not told to stop.
Playing ==
    ct \in {"open", "header", "headed", "told", "data"} /\ ~sDisconnect =>
        /\ \A t \in Callers : Stopping(t) => old[t]
        /\ ct = "header" => \A f \in Field : Text(head[f]) = Empty
        /\ ct \in {"headed", "told", "data"} =>
             /\ \A f \in Field \ hurt : Text(head[f]) = sent[f]
             /\ "metaint" \notin hurt => metaint = sentInt
             /\ cut /\ "meta" \notin hurt => sent["meta"] # Empty

\* Text f is empty, or a stop has still to empty it.
Cleared(f) ==
    \/ Text(head[f]) = Empty
    \/ \E t \in Callers : pc[t] \in {"clear", "zero"} /\ (at[t] = f \/ at[t] = "name")

Stopped ==
    ~astray =>
        /\ ct = "end" => \A f \in Field : Text(head[f]) = Empty
        /\ ct \in {"open", "header", "headed", "told", "data"} /\ sDisconnect /\ ~late =>
             \A f \in Field : Cleared(f)
        /\ ct = "rest" /\ how \notin {"none", "broken"} /\ ~late =>
             /\ Cleared("meta")
             /\ Cleared("name") \/ (how = "ended" /\ head["name"] = NotFound)

Continued == cut /\ head["meta"] = Null => short > 0

IInv == /\ Shape /\ ClientFresh /\ Tells /\ Playing /\ Stopped /\ Continued /\ TitleIsThere
        /\ \A t \in Callers : Room(t) /\ Fresh(t)
-----------------------------------------------------------------------------
(* Texts and types *)

LEMMA Texts ==
    /\ Field = {"name", "meta"} /\ Empty \in Seq(Nat) /\ NotFound \in Seq(Nat)
    /\ Null \notin Seq(Nat) /\ Text(Null) = Empty /\ Len(Empty) = 0
    /\ \A x \in Seq(Nat) : Text(x) = x
    /\ \A x \in Seq(Nat) \cup {Null} : Text(x) \in Seq(Nat) /\ Len(Text(x)) \in Nat
    /\ \A n \in Nat : <<n>> \in Seq(Nat) /\ <<n>> # Empty
    /\ \A x \in Seq(Nat), n \in Nat : Append(x, n) \in Seq(Nat) /\ Append(x, n) # Empty
<1>1. ASSUME NEW x \in Seq(Nat), NEW n \in Nat
      PROVE  Append(x, n) \in Seq(Nat) /\ Append(x, n) # Empty
  <2>1. Append(x, n) \in Seq(Nat) /\ Len(Append(x, n)) = Len(x) + 1 /\ Len(x) \in Nat
    OBVIOUS
  <2> QED
    BY <2>1 DEF Empty
<1> QED
  BY <1>1, HeaderAssumption DEF Field, Empty, NotFound, Text

LEMMA Maps ==
    /\ Blank \in Fields /\ \A f \in Field : Blank[f] = Empty
    /\ NoNews \in [{} -> Seq(Nat)] /\ DOMAIN NoNews = {}
BY Texts DEF Blank, Fields, NoNews

LEMMA EmptiedTexts ==
    ASSUME TypeOK
    PROVE  /\ Emptied \in [Field -> Seq(Nat) \cup {Null}]
           /\ \A f \in Field : Text(Emptied[f]) = Empty /\ (Emptied[f] = Null <=> head[f] = Null)
BY Texts DEF TypeOK, Emptied

LEMMA Passes ==
    ASSUME Shape, NEW k \in Kind
    PROVE  /\ Pass(k) \in [Callers \cup {Client} -> SUBSET Kind]
           /\ PassOthers(k) \in [Callers \cup {Client} -> SUBSET Kind]
           /\ PassOthers(k)[Client] = {} /\ Client \notin Callers
           /\ \A t \in Callers :
                /\ PassOthers(k)[t] = Pass(k)[t]
                /\ Pass(k)[t] = IF pc[t] \in {"measure", "format", "send"}
                                THEN moved[t] \cup {k} ELSE moved[t]
           /\ Pass(k)[Client] = IF news # NoNews THEN moved[Client] \cup {k} ELSE moved[Client]
BY HeaderAssumption DEF Shape, Pass, PassOthers, Callers

LEMMA InitIInv == Init => IInv
<1> SUFFICES ASSUME Init PROVE IInv
  OBVIOUS
<1> USE Texts, Maps
<1>1. TypeOK
  <2>1. head \in [Field -> Seq(Nat) \cup {Null}] /\ shown \in Fields
    BY DEF Init
  <2>2. session \in 0..SESSIONS /\ given \in 0..COMMANDS
    BY HeaderAssumption DEF Init
  <2>3. /\ icy \in [Callers -> BOOLEAN] /\ live \in [Callers -> BOOLEAN]
        /\ metaint \in BOOLEAN /\ cut \in BOOLEAN /\ sDisconnect \in BOOLEAN
    BY DEF Init, No
  <2>4. /\ pc \in [Callers -> Places] /\ at \in [Callers -> Field]
        /\ len \in [Callers -> Nat] /\ msg \in [Callers -> Fields]
    BY DEF Init, Places
  <2>5. ct = "rest" /\ news = NoNews
    BY DEF Init
  <2> QED
    BY <2>1, <2>2, <2>3, <2>4, <2>5 DEF TypeOK, Places
<1>2. Shape
  BY <1>1 DEF Init, Shape, No, Kind, Fields
<1>3. ClientFresh /\ Tells /\ Playing /\ Stopped /\ Continued /\ TitleIsThere
  BY DEF Init, ClientFresh, Tells, Known, Playing, Stopped, Continued, TitleIsThere, Stopping, No
<1>4. ASSUME NEW t \in Callers PROVE Room(t) /\ Fresh(t)
  BY DEF Init, Room, Fresh
<1> QED
  BY <1>2, <1>3, <1>4 DEF IInv

NewsSet == Fields \cup [{"meta"} -> Seq(Nat)] \cup {NoNews}
Steps   == {"rest", "open", "header", "headed", "told", "data", "end", "fault"}

\* What the actions are built of keeps the types.
LEMMA ClearTypes ==
    ASSUME Shape, Clear
    PROVE  /\ head' \in [Field -> Seq(Nat) \cup {Null}] /\ metaint' = FALSE
           /\ moved' \in [Callers \cup {Client} -> SUBSET Kind]
           /\ news' \in NewsSet /\ untold' \subseteq Field /\ short' \in Nat
BY EmptiedTexts, Passes, Maps DEF Clear, Short, Shape, NewsSet, Kind

LEMMA SaveTypes ==
    ASSUME Shape, NEW f \in Field, NEW x \in Seq(Nat) \cup {Null}, Save(f, x)
    PROVE  /\ head' \in [Field -> Seq(Nat) \cup {Null}] /\ live' \in [Callers -> BOOLEAN]
           /\ moved' \in [Callers \cup {Client} -> SUBSET Kind]
<1>1. live' \in [Callers -> BOOLEAN]
  BY Zenon DEF Save
<1> QED
  BY <1>1, Passes DEF Save, Shape, TypeOK, Kind

LEMMA ReturnTypes ==
    ASSUME Shape, Return
    PROVE  /\ sDisconnect' = FALSE /\ ct' \in {"rest", "data"}
           /\ sent' \in Fields /\ sentInt' \in BOOLEAN /\ hurt' \subseteq Field \cup {"metaint"}
BY Maps DEF Return, Over, Shape

LEMMA TellTypes ==
    ASSUME Shape, NEW m \in NewsSet, NEW t \in Callers \cup {Client}
    PROVE  Shown(m) \in Fields /\ Untold(t, m) \subseteq Field
<1>1. Shown(m) \in Fields
  BY Texts, Maps DEF Shown, NewsSet, Shape, TypeOK, Fields
<1>2. DOMAIN m \subseteq Field
  BY Texts, Maps DEF NewsSet, Fields
<1> QED
  BY <1>1, <1>2 DEF Untold, Shape

LEMMA TitleTypes ==
    ASSUME Shape, NEW x \in Seq(Nat), NEW h \in SUBSET (Field \cup {"metaint"}), Title(x, h)
    PROVE  /\ head' \in [Field -> Seq(Nat) \cup {Null}] /\ live' \in [Callers -> BOOLEAN]
           /\ moved' \in [Callers \cup {Client} -> SUBSET Kind]
           /\ hurt' \subseteq Field \cup {"metaint"} /\ untold' \subseteq Field
           /\ news' \in NewsSet /\ short' \in Nat /\ late' \in BOOLEAN
<1> USE Texts, Maps
<1>1. /\ Save("meta", x) \/ Save("meta", Null)
      /\ hurt' \in {h, hurt \cup {"meta"}} /\ untold' \in {untold, untold \cup {"meta"}}
      /\ news' \in {NoNews, [f \in {"meta"} |-> x]} /\ short' \in {short, short + 1}
  BY DEF Title, Short
<1>2. late' \in BOOLEAN
  BY Zenon DEF Title, Shape, TypeOK
<1>3. [f \in {"meta"} |-> x] \in [{"meta"} -> Seq(Nat)]
  OBVIOUS
<1>4. /\ head' \in [Field -> Seq(Nat) \cup {Null}] /\ live' \in [Callers -> BOOLEAN]
      /\ moved' \in [Callers \cup {Client} -> SUBSET Kind]
  BY <1>1, SaveTypes
<1>5. hurt' \subseteq Field \cup {"metaint"} /\ untold' \subseteq Field
  BY <1>1 DEF Shape
<1>6. news' \in NewsSet
  BY <1>1, <1>3 DEF NewsSet
<1>7. short' \in Nat
  BY <1>1 DEF Shape
<1> QED
  BY <1>2, <1>4, <1>5, <1>6, <1>7

\* clientTask's steps keep the types.
LEMMA ClientTypes == ASSUME Shape, ClientTask PROVE Shape'
<1> USE Texts, Maps DEF client, tasks, texts, hist, Steps
<1> DEFINE Rest == UNCHANGED <<pc, at, icy, len, msg, given>>
<1>0. /\ news \in NewsSet /\ NoNews \in NewsSet
  BY DEF Shape, TypeOK, NewsSet
<1>1. CASE Open
  <2>1. session' \in 0..SESSIONS
    BY <1>1, HeaderAssumption DEF Open, Shape, TypeOK
  <2>2. old' \in [Callers -> BOOLEAN]
    BY <1>1 DEF Open, Stopping
  <2> QED
    BY <1>1, <2>1, <2>2 DEF Open, Over, Shape, TypeOK
<1>2. CASE HeaderBegins
  BY <1>2, ClearTypes DEF HeaderBegins, Shape, TypeOK, NewsSet
<1>4. CASE Told
  <2>1. sent' \in Fields /\ sentInt' \in BOOLEAN /\ hurt' \subseteq Field \cup {"metaint"}
    BY <1>4, ReturnTypes DEF Told, Shape
  <2>2. sDisconnect' \in BOOLEAN /\ ct' \in Steps
    BY <1>4, ReturnTypes DEF Told, Shape, TypeOK
  <2>3. shown' \in Fields /\ untold' \subseteq Field
    BY <1>0, <1>4, TellTypes DEF Told
  <2> QED
    BY <1>4, <2>1, <2>2, <2>3 DEF Told, Shape, TypeOK
<1>5. CASE Chunk
  BY <1>5, ReturnTypes DEF Chunk, Shape, TypeOK
<1>6. CASE NewTitle
  <2>1. session \in Nat /\ <<session>> \in Seq(Nat)
    BY HeaderAssumption DEF Shape, TypeOK
  <2>2. hurt \ {"meta"} \subseteq Field \cup {"metaint"}
    BY DEF Shape
  <2>3. Title(<<session>>, hurt \ {"meta"})
    BY <1>6 DEF NewTitle
  <2>4. sent' \in Fields /\ cut' \in BOOLEAN
    BY <1>6, <2>1 DEF NewTitle, Shape, Fields
  <2>5. /\ head' \in [Field -> Seq(Nat) \cup {Null}] /\ live' \in [Callers -> BOOLEAN]
        /\ moved' \in [Callers \cup {Client} -> SUBSET Kind]
        /\ hurt' \subseteq Field \cup {"metaint"} /\ untold' \subseteq Field
        /\ news' \in NewsSet /\ short' \in Nat /\ late' \in BOOLEAN
    BY <2>1, <2>2, <2>3, TitleTypes
  <2> QED
    BY <2>3, <2>4, <2>5 DEF Title, Shape, TypeOK, NewsSet
<1>7. CASE RestOfTitle
  <2>1. session \in Nat /\ head["meta"] \in Seq(Nat)
    BY <1>7, HeaderAssumption DEF RestOfTitle, Shape, TypeOK
  <2>3. Title(Append(head["meta"], session), hurt)
    BY <1>7 DEF RestOfTitle
  <2>4. sent' \in Fields /\ cut' \in BOOLEAN
    BY <1>7, <2>1 DEF RestOfTitle, Shape, Fields
  <2>5. hurt \subseteq Field \cup {"metaint"} /\ Append(head["meta"], session) \in Seq(Nat)
    BY <2>1 DEF Shape
  <2>6. /\ head' \in [Field -> Seq(Nat) \cup {Null}] /\ live' \in [Callers -> BOOLEAN]
        /\ moved' \in [Callers \cup {Client} -> SUBSET Kind]
        /\ hurt' \subseteq Field \cup {"metaint"} /\ untold' \subseteq Field
        /\ news' \in NewsSet /\ short' \in Nat /\ late' \in BOOLEAN
    BY <2>1, <2>3, <2>5, TitleTypes
  <2> QED
    BY <2>3, <2>4, <2>6 DEF Title, Shape, TypeOK, NewsSet
<1>8. CASE NoTitle
  BY <1>8 DEF NoTitle, Shape, TypeOK
<1>9. CASE Disconnect
  BY <1>9, ClearTypes DEF Disconnect, Over, Shape, TypeOK, NewsSet
<1>10. CASE Leave
  <2>1. \/ UNCHANGED <<head, live, short>> /\ moved' = [moved EXCEPT ![Client] = {}]
           /\ untold' = Untold(Client, news)
        \/ \E x \in {NotFound, Null} :
             Save("name", x) /\ untold' = Untold(Client, news) \cup {"name"}
             /\ short' \in {short, short + 1}
    BY <1>10 DEF Leave, Short
  <2>2. shown' \in Fields /\ Untold(Client, news) \subseteq Field
    BY <1>0, <1>10, TellTypes DEF Leave
  <2>3. untold' \subseteq Field /\ short' \in Nat
    BY <2>1, <2>2 DEF Shape
  <2>4. /\ head' \in [Field -> Seq(Nat) \cup {Null}] /\ live' \in [Callers -> BOOLEAN]
        /\ moved' \in [Callers \cup {Client} -> SUBSET Kind]
    <3>1. ASSUME NEW x \in {NotFound, Null}, Save("name", x) 
          PROVE  /\ head' \in [Field -> Seq(Nat) \cup {Null}] /\ live' \in [Callers -> BOOLEAN]
                 /\ moved' \in [Callers \cup {Client} -> SUBSET Kind]
      BY <3>1, SaveTypes
    <3>2. CASE UNCHANGED <<head, live>> /\ moved' = [moved EXCEPT ![Client] = {}]
      BY <3>2 DEF Shape, TypeOK
    <3> QED
      BY <2>1, <3>1, <3>2
  <2>5. sDisconnect' \in BOOLEAN
    BY <1>10 DEF Leave, Shape, TypeOK
  <2> QED
    BY <1>10, <2>2, <2>3, <2>4, <2>5 DEF Leave, Shape, TypeOK, NewsSet
<1>3. CASE Parse
  <2>1. PICK named \in BOOLEAN, int \in BOOLEAN, saved \in BOOLEAN, made \in BOOLEAN :
          LET name  == IF named THEN <<session>> ELSE Empty
              ret   == int \/ (named /\ saved)
              fails == (named /\ ~saved) \/ (ret /\ ~made)
          IN  /\ sent' = [name |-> name, meta |-> Empty] /\ sentInt' = int /\ metaint' = int
              /\ IF named THEN Save("name", IF saved THEN name ELSE Null)
                 ELSE moved' = [moved EXCEPT ![Client] = {}] /\ UNCHANGED <<head, live>>
              /\ late' = (late \/ (named /\ sDisconnect))
              /\ hurt' = {f \in Field : IF f = "name" THEN named /\ ~saved ELSE cut}
              /\ shown' = Shown(news)
              /\ news' = IF ret /\ made THEN [f \in Field |-> Text(head'[f])] ELSE NoNews
              /\ untold' = IF fails THEN Field ELSE Untold(Client, news)
              /\ IF fails THEN Short ELSE UNCHANGED short
    BY <1>3 DEF Parse
  <2>2. <<session>> \in Seq(Nat)
    BY HeaderAssumption DEF Shape, TypeOK
  <2>3. /\ head' \in [Field -> Seq(Nat) \cup {Null}] /\ live' \in [Callers -> BOOLEAN]
        /\ moved' \in [Callers \cup {Client} -> SUBSET Kind]
    <3>1. CASE named /\ saved
      BY <2>1, <2>2, <3>1, SaveTypes
    <3>2. CASE named /\ ~saved
      BY <2>1, <2>2, <3>2, SaveTypes
    <3>3. CASE ~named
      BY <2>1, <3>3 DEF Shape, TypeOK
    <3> QED
      BY <3>1, <3>2, <3>3
  <2>4. sent' \in Fields /\ sentInt' \in BOOLEAN /\ metaint' \in BOOLEAN
    <3>1. \E x \in Seq(Nat) : sent' = [name |-> x, meta |-> Empty]
      BY <2>1, <2>2
    <3>2. ASSUME NEW x \in Seq(Nat) PROVE [name |-> x, meta |-> Empty] \in [Field -> Seq(Nat)]
      OBVIOUS
    <3>3. sentInt' \in BOOLEAN /\ metaint' \in BOOLEAN
      BY <2>1
    <3> QED
      BY <3>1, <3>2, <3>3 DEF Fields
  <2>5. shown' \in Fields /\ untold' \subseteq Field
    BY <1>0, <2>1, TellTypes
  <2>6. [f \in Field |-> Text(head'[f])] \in Fields
    BY <2>3 DEF Fields
  <2>7. news' \in NewsSet
    BY <2>1, <2>6 DEF NewsSet
  <2>8. late' \in BOOLEAN
    BY <2>1
  <2>9. short' \in Nat
    BY <2>1 DEF Short, Shape
  <2>10. hurt' \subseteq Field \cup {"metaint"}
    BY <2>1
  <2> QED
    BY <1>3, <2>3, <2>4, <2>5, <2>7, <2>8, <2>9, <2>10 DEF Parse, Shape, TypeOK, NewsSet
<1>11. CASE Break
  BY <1>11 DEF Break, Over, Shape, TypeOK
<1> QED
  BY <1>1, <1>2, <1>3, <1>4, <1>5, <1>6, <1>7, <1>8, <1>9, <1>10, <1>11 DEF ClientTask

LEMMA Goes ==
    ASSUME Shape, NEW t \in Callers, NEW place \in Places, NEW next \in Places,
           NEW f \in Field, Goto(t, place, f) \/ ThenMeta(t, place, next)
    PROVE  /\ pc' \in [Callers -> Places] /\ at' \in [Callers -> Field]
           /\ \A u \in Callers \ {t} : pc'[u] = pc[u] /\ at'[u] = at[u]
<1>1. PICK p \in Places, g \in Field : Goto(t, p, g)
  BY Texts DEF ThenMeta
<1> QED
  BY <1>1 DEF Goto, Shape, TypeOK, Places

LEMMA Dones ==
    ASSUME Shape, NEW t \in Callers, Done(t)
    PROVE  /\ pc' = [pc EXCEPT ![t] = "idle"] /\ at' = [at EXCEPT ![t] = "name"]
           /\ pc' \in [Callers -> Places] /\ at' \in [Callers -> Field]
           /\ icy' \in [Callers -> BOOLEAN] /\ len' \in [Callers -> Nat]
           /\ msg' \in [Callers -> Fields]
           /\ moved' \in [Callers \cup {Client} -> SUBSET Kind]
BY Texts, Maps DEF Done, Goto, Shape, TypeOK, Places

\* The other tasks' steps keep the types.
LEMMA CallTypes == ASSUME Shape, NEW t \in Callers, Call(t) PROVE Shape'
<1> USE Texts, Maps DEF client, tasks, texts, hist, Places
<1>1. CASE Stop(t)
  <2>1. pc' \in [Callers -> Places] /\ at' \in [Callers -> Field]
    BY <1>1, Goes DEF Stop
  <2>2. given' \in 0..COMMANDS
    BY <1>1, HeaderAssumption DEF Stop, Shape, TypeOK
  <2> QED
    BY <1>1, <2>1, <2>2 DEF Stop, Shape, TypeOK
<1>2. CASE Load(t)
  <2>1. pc' \in [Callers -> Places] /\ at' \in [Callers -> Field]
    <3>1. at[t] \in Field
      BY DEF Shape, TypeOK
    <3> QED
      BY <1>2, <3>1, Goes DEF Load
  <2>2. live' \in [Callers -> BOOLEAN]
    BY <1>2 DEF Load, Shape, TypeOK
  <2> QED
    BY <1>2, <2>1, <2>2 DEF Load, Shape, TypeOK
<1>3. CASE Zero(t)
  <2>1. pc' \in [Callers -> Places] /\ at' \in [Callers -> Field]
    BY <1>3, Goes DEF Zero
  <2>2. live' \in [Callers -> BOOLEAN]
    BY <1>3 DEF Zero, Shape, TypeOK
  <2>3. head' \in [Field -> Seq(Nat) \cup {Null}] /\ hurt' \subseteq Field \cup {"metaint"}
        /\ astray' \in BOOLEAN
    <3>1. at[t] \in Field
      BY DEF Shape, TypeOK
    <3>2. CASE head' = [head EXCEPT ![at[t]] = Empty] /\ UNCHANGED astray
               /\ hurt' = IF old[t] THEN hurt \cup {at[t]} ELSE hurt
      BY <3>1, <3>2 DEF Shape, TypeOK
    <3>3. CASE astray' = TRUE /\ UNCHANGED <<head, hurt>>
      BY <3>1, <3>3 DEF Shape, TypeOK
    <3> QED
      BY <1>3, <3>2, <3>3 DEF Zero
  <2>4. moved' \in [Callers \cup {Client} -> SUBSET Kind]
    BY <1>3, Passes DEF Zero, Kind
  <2> QED
    BY <1>3, <2>1, <2>2, <2>3, <2>4 DEF Zero, Shape, TypeOK
<1>4. CASE Metaint(t)
  <2>1. pc' \in [Callers -> Places] /\ at' \in [Callers -> Field]
    BY <1>4, Goes DEF Metaint, Begin
  <2>2. old' \in [Callers -> BOOLEAN] /\ hurt' \subseteq Field \cup {"metaint"}
    BY <1>4 DEF Metaint, Shape
  <2> QED
    BY <1>4, <2>1, <2>2 DEF Metaint, Begin, Shape, TypeOK
<1>5. CASE AskIcy(t)
  <2>1. pc' \in [Callers -> Places] /\ at' \in [Callers -> Field]
    BY <1>5, Goes DEF AskIcy, Begin
  <2>2. given' \in 0..COMMANDS
    BY <1>5, HeaderAssumption DEF AskIcy, Shape, TypeOK
  <2>3. icy' \in [Callers -> BOOLEAN]
    BY <1>5 DEF AskIcy, Shape, TypeOK
  <2> QED
    BY <1>5, <2>1, <2>2, <2>3 DEF AskIcy, Begin, Shape, TypeOK
<1>6. CASE Measure(t)
  <2>1. pc' \in [Callers -> Places] /\ at' \in [Callers -> Field]
    BY <1>6, Goes DEF Measure
  <2>2. len' \in [Callers -> Nat]
    <3>1. at[t] \in Field /\ len[t] \in Nat
      BY DEF Shape, TypeOK
    <3>2. Len(Text(head[at[t]])) \in Nat
      BY <3>1 DEF Shape, TypeOK
    <3> QED
      BY <1>6, <3>1, <3>2 DEF Measure, Shape, TypeOK
  <2> QED
    BY <1>6, <2>1, <2>2 DEF Measure, Shape, TypeOK
<1>7. CASE Fails(t)
  <2>0. /\ pc' \in [Callers -> Places] /\ at' \in [Callers -> Field]
        /\ icy' \in [Callers -> BOOLEAN] /\ len' \in [Callers -> Nat]
        /\ msg' \in [Callers -> Fields]
        /\ moved' \in [Callers \cup {Client} -> SUBSET Kind]
    BY <1>7, Dones DEF Fails
  <2>1. short' \in Nat /\ untold' \subseteq Field
    BY <1>7 DEF Fails, Short, Shape
  <2> QED
    BY <1>7, <2>0, <2>1 DEF Fails, Shape, TypeOK
<1>8. CASE Format(t)
  <2>1. pc' \in [Callers -> Places] /\ at' \in [Callers -> Field]
    BY <1>8, Goes DEF Format
  <2>2. msg' \in [Callers -> Fields]
    <3>1. at[t] \in Field /\ msg[t] \in Fields
      BY DEF Shape, TypeOK
    <3>2. Text(head[at[t]]) \in Seq(Nat)
      BY <3>1 DEF Shape, TypeOK
    <3>3. [msg[t] EXCEPT ![at[t]] = Text(head[at[t]])] \in Fields
      BY <3>1, <3>2 DEF Fields
    <3> QED
      BY <1>8, <3>3 DEF Format, Shape, TypeOK
  <2> QED
    BY <1>8, <2>1, <2>2 DEF Format, Shape, TypeOK
<1>9. CASE Sent(t)
  <2>0. /\ pc' \in [Callers -> Places] /\ at' \in [Callers -> Field]
        /\ icy' \in [Callers -> BOOLEAN] /\ len' \in [Callers -> Nat]
        /\ msg' \in [Callers -> Fields]
        /\ moved' \in [Callers \cup {Client} -> SUBSET Kind]
    BY <1>9, Dones DEF Sent
  <2>1. shown' \in Fields /\ untold' \subseteq Field
    <3>1. msg[t] \in NewsSet
      BY DEF Shape, TypeOK, NewsSet
    <3>2. Shown(msg[t]) \in Fields /\ Untold(t, msg[t]) \subseteq Field
      BY <3>1, TellTypes
    <3>3. shown \in Fields /\ untold \subseteq Field
      BY DEF Shape, TypeOK
    <3> QED
      BY <1>9, <3>1, <3>2, <3>3 DEF Sent
  <2> QED
    BY <1>9, <2>0, <2>1 DEF Sent, Shape, TypeOK
<1> QED
  BY <1>1, <1>2, <1>3, <1>4, <1>5, <1>6, <1>7, <1>8, <1>9 DEF Call

-----------------------------------------------------------------------------
(* Local variables: Room and Fresh *)

\* A step that is not u's.
Same(u) == /\ pc'[u] = pc[u] /\ at'[u] = at[u] /\ icy'[u] = icy[u]
           /\ len'[u] = len[u] /\ msg'[u] = msg[u]

\* What becomes of the texts in it, and what u knows of that.
Heads(u) ==
    \/ head' = head /\ moved'[u] = moved[u]
    \/ \E k \in Kind :
         /\ moved'[u] = IF pc[u] \in {"measure", "format", "send"} THEN moved[u] \cup {k}
                        ELSE moved[u]
         /\ k = "emptied" => \A f \in Field : Text(head'[f]) \in {Text(head[f]), Empty}

LEMMA Sizes ==
    ASSUME Shape
    PROVE  /\ \A f \in Field : Size(f) \in Nat /\ Text(head[f]) \in Seq(Nat)
           /\ \A t \in Callers, f \in Field : Len(msg[t][f]) \in Nat
           /\ \A t \in Callers : len[t] \in Nat /\ at[t] \in {"name", "meta"} /\ pc[t] \in Places
BY Texts DEF Shape, TypeOK, Size, Fields, Places

LEMMA LessSum == \A a, b, c, d, l \in Nat : c <= a /\ d <= b /\ a + b <= l => c + d <= l
OBVIOUS

LEMMA Bystander ==
    ASSUME Shape, Shape', NEW u \in Callers, Same(u), Heads(u), Room(u), Fresh(u)
    PROVE  Room(u)' /\ Fresh(u)'
<1>1. CASE head' = head /\ moved'[u] = moved[u]
  BY <1>1 DEF Same, Room, Fresh, Size
<1>2. CASE pc[u] \notin {"measure", "format", "send"}
  BY <1>2 DEF Same, Room, Fresh
<1>3. ASSUME pc[u] \in {"measure", "format", "send"}, NEW k \in Kind,
             moved'[u] = moved[u] \cup {k},
             k = "emptied" => \A f \in Field : Text(head'[f]) \in {Text(head[f]), Empty}
      PROVE  Room(u)' /\ Fresh(u)'
  <2>1. moved'[u] # {} /\ ("saved" \notin moved'[u] => k = "emptied" /\ "saved" \notin moved[u])
    BY <1>3 DEF Kind
  <2>2. k = "emptied" => Size("name")' <= Size("name") /\ Size("meta")' <= Size("meta")
    BY <1>3, Texts, Sizes DEF Size
  <2>3. Fresh(u)'
    BY <2>1 DEF Fresh
  <2>4. Room(u)'
    <3>1. CASE "saved" \in moved'[u]
      BY <1>3, <3>1 DEF Room, Same
    <3>2. CASE "saved" \notin moved'[u]
      <4>1. /\ Size("name") \in Nat /\ Size("meta") \in Nat
            /\ Size("name")' \in Nat /\ Size("meta")' \in Nat
            /\ len[u] \in Nat /\ Len(msg[u]["name"]) \in Nat /\ Len(msg[u]["meta"]) \in Nat
        BY Sizes, Texts DEF Shape, TypeOK, Size
      <4>2. Size("name")' <= Size("name") /\ Size("meta")' <= Size("meta")
        BY <2>1, <2>2, <3>2
      <4>3. "saved" \notin moved[u]
        BY <2>1, <3>2
      <4>4. pc[u] = "measure" /\ at[u] = "name" => len[u] = 0
        BY DEF Room
      <4>5. pc[u] = "measure" /\ at[u] = "meta" => Size("name")' <= len[u]
        BY <4>1, <4>2, <4>3 DEF Room
      <4>6. pc[u] = "format" /\ at[u] = "name" => Size("name")' + Size("meta")' <= len[u]
        <5>1. pc[u] = "format" /\ at[u] = "name" => Size("name") + Size("meta") <= len[u]
          BY <4>3 DEF Room
        <5> QED
          BY <4>1, <4>2, <5>1, LessSum
      <4>7. pc[u] = "format" /\ at[u] = "meta" => Len(msg[u]["name"]) + Size("meta")' <= len[u]
        <5>1. pc[u] = "format" /\ at[u] = "meta" =>
                Len(msg[u]["name"]) + Size("meta") <= len[u]
          BY <4>3 DEF Room
        <5> QED
          BY <4>1, <4>2, <5>1, LessSum
      <4>8. pc[u] = "send" => Len(msg[u]["name"]) + Len(msg[u]["meta"]) <= len[u]
        BY <4>3 DEF Room
      <4> QED
        BY <1>3, <4>4, <4>5, <4>6, <4>7, <4>8 DEF Room, Same
    <3> QED
      BY <3>1, <3>2
  <2> QED
    BY <2>3, <2>4
<1> QED
  BY <1>1, <1>2, <1>3 DEF Heads

\* clientTask empties all the texts, or saves one.
LEMMA ClientHeads ==
    ASSUME Shape, ClientTask, NEW u \in Callers
    PROVE  Same(u) /\ Heads(u)
<1> USE DEF client, tasks, texts, hist
<1>1. ASSUME Clear PROVE Heads(u)
  <2>1. \A f \in Field : Text(head'[f]) = Empty
    BY <1>1, EmptiedTexts DEF Clear, Shape
  <2> QED
    BY <1>1, <2>1, Passes DEF Clear, Heads, Kind
<1>2. ASSUME NEW f, NEW x, Save(f, x) PROVE Heads(u)
  BY <1>2, Passes DEF Save, Heads, Kind
<1>3. ASSUME moved' = [moved EXCEPT ![Client] = {}] \/ moved' = moved, head' = head
      PROVE  Heads(u)
  BY <1>3, HeaderAssumption DEF Heads, Callers, Shape
<1>4. Same(u)
  BY DEF ClientTask, Same, Open, HeaderBegins, Parse, Told, Chunk, NewTitle, RestOfTitle, Title,
         NoTitle, Disconnect, Leave, Break
<1>5. Heads(u)
  <2>1. CASE Open \/ Chunk \/ NoTitle \/ Break \/ Told
    BY <1>3, <2>1 DEF Open, Chunk, NoTitle, Break, Told
  <2>2. CASE HeaderBegins \/ Disconnect
    BY <1>1, <2>2 DEF HeaderBegins, Disconnect
  <2>3. CASE NewTitle \/ RestOfTitle
    BY <1>2, <2>3 DEF NewTitle, RestOfTitle, Title
  <2>4. CASE Leave
    BY <1>2, <1>3, <2>4 DEF Leave
  <2>5. CASE Parse
    BY <1>2, <1>3, <2>5 DEF Parse
  <2> QED
    BY <2>1, <2>2, <2>3, <2>4, <2>5 DEF ClientTask
<1> QED
  BY <1>4, <1>5

\* Another task empties one text at most.
LEMMA CallHeads ==
    ASSUME Shape, NEW t \in Callers, Call(t), NEW u \in Callers \ {t}
    PROVE  Same(u) /\ Heads(u)
<1> USE DEF client, tasks, texts, hist
<1>0. /\ \A p, f : Goto(t, p, f) => pc'[u] = pc[u] /\ at'[u] = at[u]
      /\ \A p, q : ThenMeta(t, p, q) => pc'[u] = pc[u] /\ at'[u] = at[u]
  BY DEF ThenMeta, Goto, Shape, TypeOK
<1>1. Done(t) => Same(u) /\ moved'[u] = moved[u]
  BY <1>0 DEF Done, Same, Shape, TypeOK
<1>2. CASE Zero(t)
  <2>1. Same(u)
    BY <1>0, <1>2 DEF Zero, Same
  <2>2. \A f \in Field : Text(head'[f]) \in {Text(head[f]), Empty}
    BY <1>2, Texts DEF Zero, Shape, TypeOK
  <2> QED
    BY <1>2, <2>1, <2>2, Passes DEF Zero, Heads, Kind
<1>3. CASE Fails(t) \/ Sent(t)
  BY <1>1, <1>3 DEF Fails, Sent, Heads
<1>4. CASE Stop(t) \/ Load(t) \/ Metaint(t) \/ AskIcy(t) \/ Measure(t) \/ Format(t)
  BY <1>0, <1>4 DEF Stop, Load, Metaint, AskIcy, Measure, Format, Begin, Same, Heads, Shape, TypeOK
<1> QED
  BY <1>2, <1>3, <1>4 DEF Call

\* Its own steps.
LEMMA OwnLocals ==
    ASSUME Shape, NEW t \in Callers, Room(t), Fresh(t), Call(t)
    PROVE  Room(t)' /\ Fresh(t)'
<1> USE Texts DEF client, tasks, texts, hist
<1>0. /\ t \in DOMAIN pc /\ t \in DOMAIN at /\ t \in DOMAIN len /\ t \in DOMAIN msg
      /\ at[t] \in {"name", "meta"} /\ pc[t] \in Places
  BY DEF Shape, TypeOK, Places
<1>1. CASE Stop(t)
  BY <1>0, <1>1 DEF Stop, Goto, Room, Fresh
<1>2. CASE Load(t)
  BY <1>0, <1>2 DEF Load, ThenMeta, Goto, Room, Fresh
<1>3. CASE Zero(t)
  BY <1>0, <1>3 DEF Zero, ThenMeta, Goto, Room, Fresh
<1>4. CASE Metaint(t)
  BY <1>0, <1>4 DEF Metaint, Begin, Goto, Room, Fresh
<1>5. CASE AskIcy(t)
  BY <1>0, <1>5 DEF AskIcy, Begin, Goto, Room, Fresh
<1>6. CASE Measure(t)
  <2>0. /\ Size("name") \in Nat /\ Size("meta") \in Nat /\ len[t] \in Nat
        /\ len'[t] = len[t] + Size(at[t]) /\ head' = head /\ moved' = moved
    BY <1>0, <1>6, Sizes DEF Measure, Size
  <2>1. CASE at[t] = "name"
    <3>1. pc'[t] = "measure" /\ at'[t] = "meta" /\ len[t] = 0
      BY <1>0, <1>6, <2>1 DEF Measure, ThenMeta, Goto, Room
    <3>2. Size("name")' <= len'[t]
      BY <2>0, <2>1, <3>1 DEF Size
    <3> QED
      BY <3>1, <3>2 DEF Room, Fresh
  <2>2. CASE at[t] = "meta"
    <3>1. pc'[t] = "format" /\ at'[t] = "name"
      BY <1>0, <1>6, <2>2 DEF Measure, ThenMeta, Goto
    <3>2. "saved" \notin moved[t] => Size("name") + Size("meta") <= len[t] + Size("meta")
      <4>1. "saved" \notin moved[t] => Size("name") <= len[t]
        BY <1>6, <2>2 DEF Measure, Room
      <4> QED
        BY <2>0, <4>1
    <3>3. Size("name")' = Size("name") /\ Size("meta")' = Size("meta")
      BY <2>0 DEF Size
    <3> QED
      BY <2>0, <2>2, <3>1, <3>2, <3>3 DEF Room, Fresh
  <2> QED
    BY <1>0, <2>1, <2>2
<1>7. CASE Fails(t) \/ Sent(t)
  <2>1. pc'[t] = "idle" /\ len'[t] = 0
    BY <1>0, <1>7 DEF Fails, Sent, Done, Goto
  <2> QED
    BY <2>1 DEF Room, Fresh
<1>8. CASE Format(t)
  <2>0. /\ msg'[t] = [msg[t] EXCEPT ![at[t]] = Text(head[at[t]])] /\ DOMAIN msg[t] = Field
        /\ head' = head /\ moved' = moved /\ len' = len /\ pc[t] = "format"
    BY <1>0, <1>8 DEF Format, Shape, TypeOK, Fields
  <2>1. CASE at[t] = "name"
    <3>1. /\ pc'[t] = "format" /\ at'[t] = "meta" /\ msg'[t]["name"] = Text(head["name"])
      BY <1>0, <1>8, <2>0, <2>1 DEF Format, ThenMeta, Goto
    <3>2. "saved" \notin moved[t] => Len(msg'[t]["name"]) + Size("meta") <= len[t]
      BY <2>0, <2>1, <3>1 DEF Room, Size
    <3>3. Size("meta")' = Size("meta")
      BY <2>0 DEF Size
    <3> QED
      BY <2>0, <3>1, <3>2, <3>3 DEF Room, Fresh
  <2>2. CASE at[t] = "meta"
    <3>1. /\ pc'[t] = "send" /\ at'[t] = "name" /\ msg'[t]["name"] = msg[t]["name"]
          /\ msg'[t]["meta"] = Text(head["meta"])
      BY <1>0, <1>8, <2>0, <2>2 DEF Format, ThenMeta, Goto
    <3>2. "saved" \notin moved[t] => Len(msg'[t]["name"]) + Len(msg'[t]["meta"]) <= len[t]
      BY <2>0, <2>2, <3>1 DEF Room, Size
    <3>3. moved[t] = {} => msg[t]["name"] = Text(head["name"])
      BY <2>0, <2>2 DEF Fresh
    <3> QED
      BY <2>0, <3>1, <3>2, <3>3 DEF Room, Fresh
  <2> QED
    BY <1>0, <2>1, <2>2
<1> QED
  BY <1>1, <1>2, <1>3, <1>4, <1>5, <1>6, <1>7, <1>8 DEF Call

-----------------------------------------------------------------------------
(* Who tells the texts: ClientFresh and Tells *)

LEMMA ClearTells ==
    ASSUME Shape, Shape', Clear
    PROVE  /\ moved'[Client] = {} /\ \A f \in DOMAIN news' : news'[f] = Text(head'[f])
           /\ \A f \in Field \ untold' : f \in DOMAIN news'
<1>1. \A f \in Field : Text(head'[f]) = Empty
  BY EmptiedTexts DEF Clear, Shape
<1>2. DOMAIN Blank = Field
  BY DEF Blank
<1> QED
  BY <1>1, <1>2, Maps, Passes DEF Clear, Kind

\* What clientTask had to tell it has told.
LEMMA ToldKnown ==
    ASSUME Shape, ClientFresh, Tells, shown' = Shown(news), NEW f \in Field,
           f \notin Untold(Client, news)
    PROVE  \/ shown'[f] = Text(head[f]) \/ \E t \in Callers : Telling(t)
<1>1. CASE f \in DOMAIN news
  <2>1. moved[Client] = {}
    BY <1>1 DEF Untold
  <2> QED
    BY <1>1, <2>1 DEF ClientFresh, Shown
<1>2. CASE f \notin DOMAIN news
  <2>1. f \notin untold /\ shown'[f] = shown[f]
    BY <1>2 DEF Untold, Shown
  <2> QED
    BY <1>2, <2>1 DEF Tells, Known
<1> QED
  BY <1>1, <1>2

LEMMA ClientTells ==
    ASSUME Shape, Shape', ClientFresh, Tells, ClientTask
    PROVE  ClientFresh' /\ Tells'
<1> USE Texts, Maps DEF client, tasks, texts, hist
<1>0. /\ \A t \in Callers : Same(t)
      /\ \A t \in Callers : Telling(t)' <=> Telling(t)
      /\ \A t \in Callers : icy'[t] => pc'[t] \in {"measure", "format", "send"}
  BY ClientHeads DEF Same, Telling, Tells
<1>a. ASSUME ct' \in {"rest", "open", "data", "fault"} => news' = NoNews,
             moved'[Client] = {} => \A f \in DOMAIN news' : news'[f] = Text(head'[f]),
             \A f \in Field \ untold' : \/ shown'[f] = Text(head'[f]) \/ f \in DOMAIN news'
                                        \/ \E t \in Callers : Telling(t)
      PROVE  ClientFresh' /\ Tells'
  BY <1>0, <1>a DEF ClientFresh, Tells, Known
<1>1. CASE Open \/ Chunk \/ NoTitle \/ Break
  <2>1. /\ UNCHANGED <<head, news, moved, shown, untold>> /\ news = NoNews
    BY <1>1 DEF Open, Chunk, NoTitle, Break, ClientFresh
  <2> QED
    BY <1>a, <2>1 DEF Tells, Known
<1>2. CASE HeaderBegins \/ Disconnect
  BY <1>a, <1>2, ClearTells DEF HeaderBegins, Disconnect
<1>3. CASE Told
  <2>1. /\ news' = NoNews /\ head' = head /\ untold' = Untold(Client, news)
        /\ shown' = Shown(news)
    BY <1>3 DEF Told
  <2> QED
    BY <1>a, <2>1, ToldKnown
<1>4. CASE NewTitle \/ RestOfTitle
  <2>1. PICK x, h : Title(x, h)
    BY <1>4 DEF NewTitle, RestOfTitle
  <2>2. /\ news = NoNews /\ ct' = "told" /\ shown' = shown /\ moved'[Client] = {}
        /\ head' = [head EXCEPT !["meta"] = head'["meta"]]
    BY <1>4, <2>1, Passes DEF NewTitle, RestOfTitle, Title, Save, ClientFresh, Kind, Shape, TypeOK
  <2>3. /\ \A f \in DOMAIN news' : news'[f] = Text(head'[f])
        /\ untold \subseteq untold' /\ "meta" \in untold' \cup DOMAIN news'
    <3>1. CASE news' = NoNews /\ untold' = untold \cup {"meta"}
      BY <3>1
    <3>2. CASE Save("meta", x) /\ news' = [f \in {"meta"} |-> x] /\ UNCHANGED untold
      <4>1. x \in Seq(Nat)
        BY <3>2, <2>2 DEF Shape, TypeOK, Fields, NoNews
      <4> QED
        BY <3>2, <4>1 DEF Save, Shape, TypeOK
    <3> QED
      BY <2>1, <3>1, <3>2 DEF Title
  <2>4. head'["name"] = head["name"]
    BY <2>2 DEF Shape, TypeOK
  <2>5. ASSUME NEW f \in Field \ untold'
        PROVE  shown'[f] = Text(head'[f]) \/ f \in DOMAIN news' \/ \E t \in Callers : Telling(t)
    <3>1. CASE f = "meta"
      BY <2>3, <2>5, <3>1
    <3>2. CASE f = "name"
      <4>1. Known("name") /\ "name" \notin DOMAIN news
        BY <2>2, <2>3, <2>5, <3>2 DEF Tells
      <4> QED
        BY <2>2, <2>4, <3>2, <4>1 DEF Known
    <3> QED
      BY <3>1, <3>2
  <2> QED
    BY <1>a, <2>2, <2>3, <2>5
<1>5. CASE Leave
  <2>1. /\ news' = NoNews /\ shown' = Shown(news) /\ Untold(Client, news) \subseteq untold'
        /\ \A f \in Field \ untold' : head'[f] = head[f]
    <3>1. CASE UNCHANGED head /\ untold' = Untold(Client, news)
      BY <1>5, <3>1 DEF Leave
    <3>2. ASSUME NEW x, Save("name", x), untold' = Untold(Client, news) \cup {"name"}
          PROVE  \A f \in Field \ untold' : head'[f] = head[f]
      BY <3>2 DEF Save, Shape, TypeOK
    <3> QED
      BY <1>5, <3>1, <3>2 DEF Leave
  <2>2. ASSUME NEW f \in Field \ untold'
        PROVE  shown'[f] = Text(head'[f]) \/ \E t \in Callers : Telling(t)
    BY <2>1, <2>2, ToldKnown
  <2>3. ct' = "rest" /\ DOMAIN news' = {}
    BY <1>5, <2>1 DEF Leave
  <2> QED
    BY <1>a, <2>1, <2>2, <2>3
<1>6. CASE Parse
  <2>1. PICK named \in BOOLEAN, int \in BOOLEAN, saved \in BOOLEAN, made \in BOOLEAN :
          LET name  == IF named THEN <<session>> ELSE Empty
              ret   == int \/ (named /\ saved)
              fails == (named /\ ~saved) \/ (ret /\ ~made)
          IN  /\ sent' = [name |-> name, meta |-> Empty] /\ sentInt' = int /\ metaint' = int
              /\ IF named THEN Save("name", IF saved THEN name ELSE Null)
                 ELSE moved' = [moved EXCEPT ![Client] = {}] /\ UNCHANGED <<head, live>>
              /\ late' = (late \/ (named /\ sDisconnect))
              /\ hurt' = {f \in Field : IF f = "name" THEN named /\ ~saved ELSE cut}
              /\ shown' = Shown(news)
              /\ news' = IF ret /\ made THEN [f \in Field |-> Text(head'[f])] ELSE NoNews
              /\ untold' = IF fails THEN Field ELSE Untold(Client, news)
              /\ IF fails THEN Short ELSE UNCHANGED short
    BY <1>6 DEF Parse
  <2>2. CASE (int \/ (named /\ saved)) /\ made
    BY <1>a, <1>6, <2>1, <2>2 DEF Parse
  <2>3. CASE ~((int \/ (named /\ saved)) /\ made)
    <3>1. news' = NoNews /\ ct' = "headed"
      BY <1>6, <2>1, <2>3 DEF Parse
    <3>2. untold' = Field \/ (untold' = Untold(Client, news) /\ head' = head)
      BY <2>1, <2>3
    <3> QED
      BY <1>a, <2>1, <3>1, <3>2, ToldKnown
  <2> QED
    BY <2>2, <2>3
<1> QED
  BY <1>1, <1>2, <1>3, <1>4, <1>5, <1>6 DEF ClientTask

LEMMA CallTells ==
    ASSUME Shape, Shape', ClientFresh, Tells, NEW t \in Callers, Fresh(t), Call(t)
    PROVE  ClientFresh' /\ Tells'
<1> USE Texts, Maps DEF client, tasks, texts, hist
<1>0. /\ \A u \in Callers \ {t} : Same(u)
      /\ \A u \in Callers \ {t} : Telling(u)' <=> Telling(u)
      /\ t \in DOMAIN pc /\ t \in DOMAIN at /\ t \in DOMAIN icy /\ t # Client
      /\ at[t] \in {"name", "meta"} /\ ct' = ct /\ news' = news
  <2>1. ct' = ct /\ news' = news
    BY DEF Call, Stop, Load, Zero, Metaint, AskIcy, Measure, Fails, Format, Sent
  <2> QED
    BY <2>1, CallHeads, HeaderAssumption DEF Same, Telling, Shape, TypeOK, Callers
<1>1. ClientFresh'
  <2>1. CASE Zero(t)
    <3>1. news # NoNews => moved'[Client] # {}
      BY <2>1, Passes DEF Zero, Kind
    <3> QED
      BY <1>0, <3>1 DEF ClientFresh
  <2>2. CASE ~Zero(t)
    <3>1. head' = head /\ moved'[Client] = moved[Client]
      BY <1>0, <2>2 DEF Call, Stop, Load, Metaint, AskIcy, Begin, Measure, Fails, Format, Sent,
                        Done, Shape
    <3> QED
      BY <1>0, <3>1 DEF ClientFresh
  <2> QED
    BY <2>1, <2>2
<1>2. \A u \in Callers : icy'[u] => pc'[u] \in {"measure", "format", "send"}
  <2>1. icy'[t] => pc'[t] \in {"measure", "format", "send"}
    BY <1>0 DEF Call, Stop, Load, Zero, Metaint, AskIcy, Begin, Measure, Fails, Format, Sent,
                Done, ThenMeta, Goto, Tells
  <2> QED
    BY <1>0, <2>1 DEF Same, Tells
<1>3. ASSUME NEW f \in Field \ untold' PROVE Known(f)'
  <2>1. CASE Stop(t) \/ Load(t) \/ Zero(t) \/ Metaint(t)
    <3>1. Telling(t)'
      BY <1>0, <2>1 DEF Stop, Load, Zero, Metaint, Begin, ThenMeta, Goto, Telling, Tells
    <3> QED
      BY <3>1 DEF Known
  <2>2. CASE AskIcy(t) \/ Measure(t) \/ Format(t)
    <3>1. Telling(t) => Telling(t)'
      BY <1>0, <2>2 DEF AskIcy, Measure, Format, Begin, ThenMeta, Goto, Telling
    <3>2. head' = head /\ shown' = shown /\ untold' = untold
      BY <2>2 DEF AskIcy, Measure, Format
    <3> QED
      BY <1>0, <3>1, <3>2 DEF Known, Tells
  <2>3. CASE (Fails(t) \/ Sent(t)) /\ icy[t]
    <3>1. head' = head /\ shown' = shown /\ untold' = untold /\ ~Telling(t)
      BY <2>3 DEF Fails, Sent, Telling
    <3> QED
      BY <1>0, <3>1 DEF Known, Tells
  <2>4. CASE Fails(t) /\ ~icy[t]
    BY <2>4 DEF Fails
  <2>5. CASE Sent(t) /\ ~icy[t]
    <3>1. DOMAIN msg[t] = Field /\ head' = head
      BY <2>5 DEF Sent, Shape, TypeOK, Fields
    <3>2. moved[t] = {} /\ pc[t] = "send"
      BY <2>5, <3>1 DEF Sent, Untold
    <3>3. shown'[f] = msg[t][f]
      BY <2>5, <3>1 DEF Sent, Shown
    <3> QED
      BY <3>1, <3>2, <3>3 DEF Fresh, Known
  <2> QED
    BY <2>1, <2>2, <2>3, <2>4, <2>5 DEF Call
<1> QED
  BY <1>1, <1>2, <1>3 DEF Tells

-----------------------------------------------------------------------------
(* What is shown of a station that plays: Playing *)

LEMMA TitleSaves ==
    ASSUME Shape, NEW x \in Seq(Nat), NEW h, Title(x, h)
    PROVE  /\ head'["name"] = head["name"]
           /\ \/ head'["meta"] = x /\ hurt' = h
              \/ head'["meta"] = Null /\ hurt' = hurt \cup {"meta"} /\ short' = short + 1
           /\ short' \in {short, short + 1} /\ late' = (late \/ sDisconnect)
           /\ ct' = "told" /\ UNCHANGED <<metaint, sDisconnect, sentInt, how>>
BY Texts DEF Title, Save, Short, Shape, TypeOK

LEMMA ClientPlays ==
    ASSUME Shape, Shape', Playing, ClientTask
    PROVE  Playing'
<1> USE Texts, Maps DEF client, tasks, texts, hist
<1> DEFINE Shows == /\ \A f \in Field \ hurt : Text(head[f]) = sent[f]
                    /\ "metaint" \notin hurt => metaint = sentInt
                    /\ cut /\ "meta" \notin hurt => sent["meta"] # Empty
           In    == {"open", "header", "headed", "told", "data"}
<1>0. /\ \A t \in Callers : Stopping(t)' <=> Stopping(t)
      /\ ct # "rest" => old' = old
  <2>1. pc' = pc /\ (ct # "rest" => old' = old)
    BY DEF ClientTask, Open, HeaderBegins, Parse, Told, Chunk, NewTitle, RestOfTitle, Title,
           NoTitle, Disconnect, Leave, Break
  <2> QED
    BY <2>1 DEF Stopping
<1>a. ASSUME ct \in In, ~sDisconnect,
             ct' = "header" => \A f \in Field : Text(head'[f]) = Empty,
             ct' \in {"headed", "told", "data"} => Shows'
      PROVE  Playing'
  <2>1. \A t \in Callers : Stopping(t)' => old'[t]
    BY <1>0, <1>a DEF Playing
  <2> QED
    BY <1>a, <2>1 DEF Playing
<1>1. CASE Open
  <2>1. \A t \in Callers : Stopping(t)' => old'[t]
    BY <1>0, <1>1 DEF Open
  <2>2. ct' = "open"
    BY <1>1 DEF Open
  <2> QED
    BY <2>1, <2>2 DEF Playing
<1>2. CASE HeaderBegins
  <2>1. ct = "open" /\ ct' = "header" /\ sDisconnect' = sDisconnect
    BY <1>2 DEF HeaderBegins
  <2>2. \A f \in Field : Text(head'[f]) = Empty
    BY <1>2, EmptiedTexts DEF HeaderBegins, Clear, Shape
  <2>3. CASE sDisconnect
    BY <2>1, <2>3 DEF Playing
  <2> QED
    BY <1>a, <2>1, <2>2, <2>3
<1>3. CASE Parse
  <2>1. PICK named \in BOOLEAN, int \in BOOLEAN, saved \in BOOLEAN, made \in BOOLEAN :
          LET name  == IF named THEN <<session>> ELSE Empty
              ret   == int \/ (named /\ saved)
              fails == (named /\ ~saved) \/ (ret /\ ~made)
          IN  /\ sent' = [name |-> name, meta |-> Empty] /\ sentInt' = int /\ metaint' = int
              /\ IF named THEN Save("name", IF saved THEN name ELSE Null)
                 ELSE moved' = [moved EXCEPT ![Client] = {}] /\ UNCHANGED <<head, live>>
              /\ late' = (late \/ (named /\ sDisconnect))
              /\ hurt' = {f \in Field : IF f = "name" THEN named /\ ~saved ELSE cut}
              /\ shown' = Shown(news)
              /\ news' = IF ret /\ made THEN [f \in Field |-> Text(head'[f])] ELSE NoNews
              /\ untold' = IF fails THEN Field ELSE Untold(Client, news)
              /\ IF fails THEN Short ELSE UNCHANGED short
    BY <1>3 DEF Parse
  <2>2. /\ ct = "header" /\ ct' = "headed" /\ sDisconnect' = sDisconnect /\ cut' = cut
        /\ <<session>> \in Seq(Nat)
    BY <1>3, HeaderAssumption DEF Parse, Shape, TypeOK
  <2>3. CASE sDisconnect
    BY <2>2, <2>3 DEF Playing
  <2>4. CASE ~sDisconnect
    <3>1. \A f \in Field : Text(head[f]) = Empty
      BY <2>2, <2>4 DEF Playing
    <3>2. metaint' = sentInt' /\ (cut' => "meta" \in hurt') /\ sent'["meta"] = Empty
      BY <2>1, <2>2
    <3>3. Text(head'["meta"]) = sent'["meta"]
      <4>1. head'["meta"] = head["meta"]
        BY <2>1 DEF Save, Shape, TypeOK
      <4> QED
        BY <3>1, <3>2, <4>1
    <3>4. "name" \notin hurt' => Text(head'["name"]) = sent'["name"]
      <4>1. CASE named
        <5>1. CASE saved
          <6>1. head'["name"] = <<session>>
            BY <2>1, <4>1, <5>1 DEF Save, Shape, TypeOK
          <6>2. sent'["name"] = <<session>> /\ Text(<<session>>) = <<session>>
            BY <2>1, <2>2, <4>1
          <6> QED
            BY <6>1, <6>2
        <5>2. CASE ~saved
          BY <2>1, <4>1, <5>2
        <5> QED
          BY <5>1, <5>2
      <4>2. CASE ~named
        BY <2>1, <3>1, <4>2
      <4> QED
        BY <4>1, <4>2
    <3> QED
      BY <1>a, <2>2, <2>4, <3>2, <3>3, <3>4
  <2> QED
    BY <2>3, <2>4
<1>4. CASE Told \/ Chunk
  <2>1. ct \in {"headed", "told", "data"} /\ UNCHANGED <<head, metaint, cut>>
    BY <1>4 DEF Told, Chunk
  <2>2. CASE ct' = "rest"
    BY <2>2 DEF Playing
  <2>3. CASE ct' # "rest" /\ sDisconnect
    <3>1. ct' = "data" /\ sDisconnect' /\ UNCHANGED <<sDisconnect>>
      BY <1>4, <2>3 DEF Told, Chunk, Return
    <3> QED
      BY <3>1 DEF Playing
  <2>4. CASE ct' # "rest" /\ ~sDisconnect
    <3>1. ct' = "data" /\ UNCHANGED <<hurt, sent, sentInt>>
      BY <1>4, <2>4 DEF Told, Chunk, Return
    <3>2. Shows
      BY <2>1, <2>4 DEF Playing
    <3> QED
      BY <1>a, <2>1, <2>4, <3>1, <3>2
  <2> QED
    BY <2>2, <2>3, <2>4
<1>5. CASE NewTitle
  <2>1. /\ session \in Nat /\ <<session>> \in Seq(Nat) /\ <<session>> # Empty /\ ct = "data"
        /\ Title(<<session>>, hurt \ {"meta"}) /\ DOMAIN sent = Field
        /\ sent' = [sent EXCEPT !["meta"] = <<session>>]
    BY <1>5, HeaderAssumption DEF NewTitle, Shape, TypeOK, Fields
  <2>2. CASE sDisconnect
    BY <2>1, <2>2, TitleSaves DEF Playing
  <2>3. CASE ~sDisconnect
    <3>1. Shows
      BY <2>1, <2>3 DEF Playing
    <3>2. sent'["meta"] = <<session>> /\ sent'["name"] = sent["name"]
      BY <2>1
    <3>3. /\ head'["name"] = head["name"] /\ UNCHANGED <<metaint, sentInt>> /\ ct' = "told"
          /\ \/ head'["meta"] = <<session>> /\ hurt' = hurt \ {"meta"}
             \/ hurt' = hurt \cup {"meta"}
      BY <2>1, TitleSaves
    <3> QED
      BY <1>a, <2>1, <2>3, <3>1, <3>2, <3>3
  <2> QED
    BY <2>2, <2>3
<1>6. CASE RestOfTitle
  <2>1. /\ session \in Nat /\ head["meta"] \in Seq(Nat) /\ ct = "data" /\ cut
        /\ Title(Append(head["meta"], session), hurt) /\ DOMAIN sent = Field
        /\ sent' = IF sent["meta"] = Empty THEN sent
                   ELSE [sent EXCEPT !["meta"] = Append(@, session)]
        /\ cut' = FALSE
    BY <1>6, HeaderAssumption DEF RestOfTitle, Shape, TypeOK, Fields
  <2>2. CASE sDisconnect
    BY <2>1, <2>2, TitleSaves DEF Playing
  <2>3. CASE ~sDisconnect
    <3>1. Shows
      BY <2>1, <2>3 DEF Playing
    <3>2. /\ head'["name"] = head["name"] /\ UNCHANGED <<metaint, sentInt>> /\ ct' = "told"
          /\ \/ head'["meta"] = Append(head["meta"], session) /\ hurt' = hurt
             \/ hurt' = hurt \cup {"meta"}
      BY <2>1, TitleSaves
    <3>3. sent'["name"] = sent["name"]
      BY <2>1
    <3>4. "meta" \notin hurt' => Text(head'["meta"]) = sent'["meta"]
      <4>1. "meta" \notin hurt' => sent["meta"] # Empty /\ sent["meta"] = head["meta"]
        BY <2>1, <3>1, <3>2
      <4> QED
        BY <2>1, <3>2, <4>1
    <3> QED
      BY <1>a, <2>1, <2>3, <3>1, <3>2, <3>3, <3>4
  <2> QED
    BY <2>2, <2>3
<1>7. CASE NoTitle \/ Disconnect \/ Leave \/ Break
  BY <1>7 DEF NoTitle, Disconnect, Leave, Break, Playing
<1> QED
  BY <1>1, <1>2, <1>3, <1>4, <1>5, <1>6, <1>7 DEF ClientTask

LEMMA CallPlays ==
    ASSUME Shape, Shape', Playing, NEW t \in Callers, Call(t)
    PROVE  Playing'
<1> USE Texts, Maps DEF client, tasks, texts, hist
<1>0. /\ ct' = ct /\ t \in DOMAIN pc /\ t \in DOMAIN old
      /\ \A u \in Callers \ {t} : Stopping(u)' <=> Stopping(u)
  <2>1. ct' = ct
    BY DEF Call, Stop, Load, Zero, Metaint, AskIcy, Measure, Fails, Format, Sent
  <2> QED
    BY <2>1, CallHeads DEF Same, Stopping, Shape, TypeOK
<1>1. CASE Stop(t)
  BY <1>1 DEF Stop, Playing
<1>2. CASE Zero(t)
  <2>1. /\ UNCHANGED <<sDisconnect, old, metaint, cut, sent, sentInt>> /\ Stopping(t)
        /\ at[t] \in Field
    BY <1>2 DEF Zero, Stopping, Shape, TypeOK
  <2>2. /\ \A f \in Field : Text(head'[f]) \in {Text(head[f]), Empty}
        /\ \A f \in Field \ {at[t]} : head'[f] = head[f]
        /\ head' = head \/ head[at[t]] # Null
    BY <1>2 DEF Zero, Shape, TypeOK
  <2>3. /\ hurt \subseteq hurt'
        /\ old[t] => head' = head \/ at[t] \in hurt'
    BY <1>2 DEF Zero
  <2>4. \A f \in Field \ hurt' : old[t] => Text(head'[f]) = Text(head[f])
    BY <2>2, <2>3
  <2> QED
    BY <1>0, <2>1, <2>2, <2>3, <2>4 DEF Playing
<1>3. CASE Metaint(t)
  <2>1. /\ UNCHANGED <<sDisconnect, head, cut, sent, sentInt>> /\ Stopping(t)
        /\ hurt' = IF old[t] THEN hurt \cup {"metaint"} ELSE hurt
        /\ ~Stopping(t)' /\ \A u \in Callers \ {t} : old'[u] = old[u]
    BY <1>0, <1>3 DEF Metaint, Begin, Goto, Stopping, Shape
  <2> QED
    BY <1>0, <2>1 DEF Playing
<1>4. CASE Load(t) \/ AskIcy(t) \/ Measure(t) \/ Fails(t) \/ Format(t) \/ Sent(t)
  <2>1. /\ UNCHANGED <<sDisconnect, head, metaint, cut, sent, sentInt, hurt, old>>
    BY <1>4 DEF Load, AskIcy, Measure, Fails, Format, Sent
  <2>2. Stopping(t)' => Stopping(t)
    BY <1>0, <1>4 DEF Load, AskIcy, Measure, Fails, Format, Sent, Done, Begin, ThenMeta, Goto, Stopping
  <2> QED
    BY <1>0, <2>1, <2>2 DEF Playing
<1> QED
  BY <1>1, <1>2, <1>3, <1>4 DEF Call

-----------------------------------------------------------------------------
(* What is shown when none plays, and the title to be continued *)

LEMMA ClientStops ==
    ASSUME Shape, Shape', ~astray, Stopped, ClientTask
    PROVE  Stopped'
<1> USE Texts, Maps DEF client, tasks, texts, hist
<1>0. /\ pc' = pc /\ at' = at
  BY DEF ClientTask, Open, HeaderBegins, Parse, Told, Chunk, NewTitle, RestOfTitle, Title,
         NoTitle, Disconnect, Leave, Break
<1>a. \A f \in Field : /\ Text(head'[f]) = Empty => Cleared(f)'
                       /\ Cleared(f) /\ head'[f] = head[f] => Cleared(f)'
  BY <1>0 DEF Cleared
<1>1. CASE Open \/ NoTitle \/ Break
  BY <1>1 DEF Open, NoTitle, Break, Stopped
<1>2. CASE HeaderBegins \/ Disconnect
  <2>1. \A f \in Field : Text(head'[f]) = Empty
    BY <1>2, EmptiedTexts DEF HeaderBegins, Disconnect, Clear, Shape
  <2>2. ct' \in {"header", "end"}
    BY <1>2 DEF HeaderBegins, Disconnect
  <2> QED
    BY <1>a, <2>1, <2>2 DEF Stopped
<1>3. CASE Parse
  <2>1. /\ ct = "header" /\ ct' = "headed" /\ sDisconnect' = sDisconnect
        /\ sDisconnect /\ ~late' => ~late /\ head' = head
    <3>1. PICK named \in BOOLEAN, int \in BOOLEAN, saved \in BOOLEAN, made \in BOOLEAN :
            LET name  == IF named THEN <<session>> ELSE Empty
                ret   == int \/ (named /\ saved)
                fails == (named /\ ~saved) \/ (ret /\ ~made)
            IN  /\ sent' = [name |-> name, meta |-> Empty] /\ sentInt' = int /\ metaint' = int
                /\ IF named THEN Save("name", IF saved THEN name ELSE Null)
                   ELSE moved' = [moved EXCEPT ![Client] = {}] /\ UNCHANGED <<head, live>>
                /\ late' = (late \/ (named /\ sDisconnect))
                /\ hurt' = {f \in Field : IF f = "name" THEN named /\ ~saved ELSE cut}
                /\ shown' = Shown(news)
                /\ news' = IF ret /\ made THEN [f \in Field |-> Text(head'[f])] ELSE NoNews
                /\ untold' = IF fails THEN Field ELSE Untold(Client, news)
                /\ IF fails THEN Short ELSE UNCHANGED short
      BY <1>3 DEF Parse
    <3>2. late' = (late \/ (named /\ sDisconnect)) /\ (~named => head' = head)
      BY <3>1
    <3>3. ct = "header" /\ ct' = "headed" /\ sDisconnect' = sDisconnect
      BY <1>3 DEF Parse
    <3> QED
      BY <3>2, <3>3
  <2> QED
    BY <1>a, <2>1 DEF Stopped
<1>4. CASE Told \/ Chunk
  <2>1. ct \in {"headed", "told", "data"} /\ UNCHANGED <<head, late>>
    BY <1>4 DEF Told, Chunk
  <2>2. \/ sDisconnect /\ ct' = "rest" /\ sDisconnect' = FALSE
        \/ ct' = "data" /\ sDisconnect' = FALSE
        \/ ct' = "data" /\ sDisconnect' = sDisconnect
    BY <1>4 DEF Told, Chunk, Return
  <2>3. sDisconnect /\ ~late => \A f \in Field : Cleared(f)'
    BY <1>a, <2>1 DEF Stopped
  <2> QED
    BY <2>1, <2>2, <2>3 DEF Stopped
<1>5. CASE NewTitle \/ RestOfTitle
  <2>1. ct' = "told" /\ sDisconnect' = sDisconnect /\ late' = (late \/ sDisconnect)
    BY <1>5 DEF NewTitle, RestOfTitle, Title
  <2> QED
    BY <2>1 DEF Stopped
<1>6. CASE Leave
  <2>1. /\ ct' = "rest" /\ how' = how /\ \A f \in Field : Text(head[f]) = Empty
    BY <1>6 DEF Leave, Stopped
  <2>2. CASE head' = head
    BY <1>a, <2>1, <2>2 DEF Stopped
  <2>3. ASSUME NEW x \in {NotFound, Null}, how = "ended", Save("name", x) PROVE Stopped'
    <3>1. head'["meta"] = head["meta"] /\ head'["name"] = x
      BY <2>3 DEF Save, Shape, TypeOK
    <3>2. Cleared("meta")'
      BY <1>a, <2>1, <3>1
    <3>3. head'["name"] = NotFound \/ Cleared("name")'
      BY <1>a, <2>3, <3>1
    <3> QED
      BY <2>1, <2>3, <3>2, <3>3 DEF Stopped
  <2> QED
    BY <1>6, <2>2, <2>3 DEF Leave
<1> QED
  BY <1>1, <1>2, <1>3, <1>4, <1>5, <1>6 DEF ClientTask

LEMMA CallStops ==
    ASSUME Shape, Shape', ~astray, Stopped, NEW t \in Callers, Call(t)
    PROVE  Stopped'
<1> USE Texts DEF client, tasks, texts, hist
<1>0. /\ ct' = ct /\ how' = how /\ late' = late /\ (~Stop(t) => sDisconnect' = sDisconnect)
      /\ \A u \in Callers \ {t} : pc'[u] = pc[u] /\ at'[u] = at[u]
      /\ t \in DOMAIN pc /\ t \in DOMAIN at /\ at[t] \in {"name", "meta"}
  <2>1. ct' = ct /\ how' = how /\ late' = late /\ (~Stop(t) => sDisconnect' = sDisconnect)
    BY DEF Call, Stop, Load, Zero, Metaint, AskIcy, Measure, Fails, Format, Sent
  <2> QED
    BY <2>1, CallHeads DEF Same, Shape, TypeOK
<1>1. SUFFICES ASSUME ~astray' PROVE Stopped'
  BY DEF Stopped
<1>2. \A f \in Field : head'[f] = head[f] \/ Text(head'[f]) = Empty
  <2>1. CASE Zero(t)
    BY <2>1 DEF Zero, Shape, TypeOK
  <2>2. CASE ~Zero(t)
    BY <2>2 DEF Call, Stop, Load, Metaint, AskIcy, Measure, Fails, Format, Sent
  <2> QED
    BY <2>1, <2>2
<1>3. ASSUME NEW f \in Field, Cleared(f) PROVE Cleared(f)'
  <2>1. CASE Text(head[f]) = Empty
    BY <1>2, <2>1 DEF Cleared
  <2>2. ASSUME NEW u \in Callers \ {t}, pc[u] \in {"clear", "zero"}, at[u] = f \/ at[u] = "name"
        PROVE  Cleared(f)'
    BY <1>0, <2>2 DEF Cleared
  <2>3. CASE pc[t] \in {"clear", "zero"} /\ (at[t] = f \/ at[t] = "name")
    <3>1. CASE Load(t)
      <4>1. CASE head[at[t]] = Null /\ at[t] = f
        BY <1>2, <4>1 DEF Cleared
      <4>2. CASE head[at[t]] = Null /\ at[t] # f
        <5>1. pc'[t] = "clear" /\ at'[t] = f
          BY <1>0, <2>3, <3>1, <4>2 DEF Load, ThenMeta, Goto
        <5> QED
          BY <5>1 DEF Cleared
      <4>3. CASE head[at[t]] # Null
        <5>1. pc'[t] = "zero" /\ at'[t] = at[t]
          BY <1>0, <3>1, <4>3 DEF Load, Goto
        <5> QED
          BY <2>3, <5>1 DEF Cleared
      <4> QED
        BY <4>1, <4>2, <4>3
    <3>2. CASE Zero(t)
      <4>1. CASE at[t] = f
        <5>1. head'[f] = Empty
          BY <1>1, <3>2, <4>1 DEF Zero, Shape, TypeOK
        <5> QED
          BY <5>1 DEF Cleared
      <4>2. CASE at[t] # f
        <5>1. pc'[t] = "clear" /\ at'[t] = f
          BY <1>0, <2>3, <3>2, <4>2 DEF Zero, ThenMeta, Goto
        <5> QED
          BY <5>1 DEF Cleared
      <4> QED
        BY <4>1, <4>2
    <3>3. Load(t) \/ Zero(t)
      BY <2>3 DEF Call, Stop, Metaint, AskIcy, Measure, Fails, Format, Sent
    <3> QED
      BY <3>1, <3>2, <3>3
  <2> QED
    BY <1>3, <2>1, <2>2, <2>3 DEF Cleared
<1>4. head["name"] = NotFound => head'["name"] = NotFound \/ Cleared("name")'
  BY <1>2 DEF Cleared
<1>5. ct = "end" => ct' = "end" /\ \A f \in Field : Text(head'[f]) = Empty
  BY <1>0, <1>2 DEF Stopped
<1>6. CASE Stop(t)
  <2>1. \A f \in Field : Cleared(f)'
    BY <1>0, <1>6 DEF Stop, Goto, Cleared
  <2> QED
    BY <1>0, <1>5, <2>1 DEF Stopped
<1>7. CASE ~Stop(t)
  BY <1>0, <1>3, <1>4, <1>5, <1>7 DEF Stopped
<1> QED
  BY <1>6, <1>7

LEMMA ClientContinues ==
    ASSUME Shape, Shape', Continued, TitleIsThere, ClientTask
    PROVE  Continued' /\ TitleIsThere'
<1> USE Texts DEF client, tasks, texts, hist
<1>a. ASSUME short' \in {short, short + 1}, ct # "fault", ct' # "fault",
             cut' /\ head'["meta"] = Null => short' = short + 1 \/ (cut /\ head["meta"] = Null)
      PROVE  Continued' /\ TitleIsThere'
  <2>1. short \in Nat /\ (short > 0 => short' > 0) /\ (short' = short + 1 => short' > 0)
    BY <1>a DEF Shape
  <2> QED
    BY <1>a, <2>1 DEF Continued, TitleIsThere
<1>1. CASE Open \/ Told \/ Chunk \/ Break
  BY <1>a, <1>1 DEF Open, Told, Chunk, Break, Return
<1>2. CASE HeaderBegins \/ Disconnect
  <2>1. head'["meta"] = Null <=> head["meta"] = Null
    BY <1>2, EmptiedTexts DEF HeaderBegins, Disconnect, Clear, Shape
  <2> QED
    BY <1>a, <1>2, <2>1 DEF HeaderBegins, Disconnect, Clear, Short
<1>3. CASE Parse \/ Leave
  <2>1. head'["meta"] = head["meta"] /\ short' \in {short, short + 1} /\ cut' = cut
    <3>1. ASSUME NEW x, Save("name", x) PROVE head'["meta"] = head["meta"]
      BY <3>1 DEF Save, Shape, TypeOK
    <3>2. CASE Parse
      <4>1. short' \in {short, short + 1} /\ cut' = cut
        BY <3>2 DEF Parse, Short
      <4>2. head' = head \/ \E x : Save("name", x)
        BY <3>2 DEF Parse
      <4> QED
        BY <3>1, <4>1, <4>2
    <3>3. CASE Leave
      <4>1. short' \in {short, short + 1} /\ cut' = cut
        BY <3>3 DEF Leave, Short
      <4>2. head' = head \/ \E x : Save("name", x)
        BY <3>3 DEF Leave
      <4> QED
        BY <3>1, <4>1, <4>2
    <3> QED
      BY <1>3, <3>2, <3>3
  <2>2. ct # "fault" /\ ct' # "fault"
    BY <1>3 DEF Parse, Leave
  <2> QED
    BY <1>a, <2>1, <2>2
<1>4. CASE NewTitle
  <2>1. <<session>> \in Seq(Nat) /\ Title(<<session>>, hurt \ {"meta"}) /\ ct = "data"
    BY <1>4, HeaderAssumption DEF NewTitle, Shape, TypeOK
  <2> QED
    BY <1>a, <2>1, TitleSaves
<1>5. CASE RestOfTitle
  <2>1. /\ Append(head["meta"], session) \in Seq(Nat) /\ ct = "data"
        /\ Title(Append(head["meta"], session), hurt)
    BY <1>5, HeaderAssumption DEF RestOfTitle, Shape, TypeOK
  <2> QED
    BY <1>a, <2>1, TitleSaves
<1>6. CASE NoTitle
  BY <1>6 DEF NoTitle, Continued, TitleIsThere
<1> QED
  BY <1>1, <1>2, <1>3, <1>4, <1>5, <1>6 DEF ClientTask

LEMMA CallContinues ==
    ASSUME Shape, Shape', Continued, TitleIsThere, NEW t \in Callers, Call(t)
    PROVE  Continued' /\ TitleIsThere'
<1> USE Texts DEF client, tasks, texts, hist
<1>1. ct' = ct /\ cut' = cut /\ short' \in {short, short + 1}
  BY DEF Call, Stop, Load, Zero, Metaint, AskIcy, Measure, Fails, Format, Sent, Short
<1>2. head'["meta"] = Null => head["meta"] = Null
  <2>1. CASE Zero(t)
    BY <2>1 DEF Zero, Shape, TypeOK
  <2>2. CASE ~Zero(t)
    BY <2>2 DEF Call, Stop, Load, Metaint, AskIcy, Measure, Fails, Format, Sent
  <2> QED
    BY <2>1, <2>2
<1>3. short > 0 => short' > 0
  BY <1>1 DEF Shape
<1> QED
  BY <1>1, <1>2, <1>3 DEF Continued, TitleIsThere

-----------------------------------------------------------------------------
(* The theorems *)

\* What is said above of each task, each text and each session always holds.
THEOREM Invariance == Spec => []IInv
<1>1. ASSUME IInv, Next PROVE IInv'
  <2>0. Shape /\ ~astray
    BY <1>1 DEF IInv, Next
  <2>1. CASE ClientTask
    <3>1. Shape'
      BY <2>0, <2>1, ClientTypes
    <3>2. ASSUME NEW u \in Callers PROVE Room(u)' /\ Fresh(u)'
      BY <1>1, <2>0, <2>1, <3>1, ClientHeads, Bystander DEF IInv
    <3> QED
      BY <1>1, <2>0, <2>1, <3>1, <3>2, ClientTells, ClientPlays, ClientStops, ClientContinues
      DEF IInv
  <2>2. ASSUME NEW t \in Callers, Call(t) PROVE IInv'
    <3>1. Shape'
      BY <2>0, <2>2, CallTypes
    <3>2. ASSUME NEW u \in Callers PROVE Room(u)' /\ Fresh(u)'
      <4>1. CASE u = t
        BY <1>1, <2>0, <2>2, <4>1, OwnLocals DEF IInv
      <4>2. CASE u # t
        BY <1>1, <2>0, <2>2, <3>1, <4>2, CallHeads, Bystander DEF IInv
      <4> QED
        BY <4>1, <4>2
    <3> QED
      BY <1>1, <2>0, <2>2, <3>1, <3>2, CallTells, CallPlays, CallStops, CallContinues DEF IInv
  <2> QED
    BY <1>1, <2>1, <2>2 DEF Next
<1>2. ASSUME IInv, UNCHANGED vars PROVE IInv'
  <2> USE <1>2 DEF IInv, vars, client, tasks, texts, hist
  <2>1. Shape'
    BY DEF Shape, TypeOK
  <2>2. ClientFresh' /\ Tells'
    BY DEF ClientFresh, Tells, Known, Telling
  <2>3. Playing'
    BY DEF Playing, Stopping
  <2>4. Stopped'
    BY DEF Stopped, Cleared
  <2>5. Continued' /\ TitleIsThere'
    BY DEF Continued, TitleIsThere
  <2>6. ASSUME NEW u \in Callers PROVE Room(u)' /\ Fresh(u)'
    BY DEF Room, Fresh, Size
  <2> QED
    BY <2>1, <2>2, <2>3, <2>4, <2>5, <2>6
<1> QED
  BY <1>1, <1>2, InitIInv, PTL DEF Spec

\* The texts are sequences of pieces or NULL, and the tasks where the code has places.
THEOREM TypeCorrect == Spec => []TypeOK
BY Invariance, PTL DEF IInv, Shape

\* The texts of a station that plays are what it has sent; when none plays they are
\* empty or say that nothing was found.
THEOREM TextsCorrect == Spec => []TextsAreStations
<1>1. ASSUME IInv, ~astray PROVE PlayingIsShown
  BY <1>1 DEF IInv, Playing, PlayingIsShown
<1>2. ASSUME IInv, ~astray PROVE RestIsShown
  <2>1. ASSUME \A t \in Callers : ~Stopping(t), NEW f, Cleared(f) PROVE Text(head[f]) = Empty
    BY <2>1 DEF Cleared, Stopping
  <2> QED
    BY <1>2, <2>1, Texts DEF IInv, Stopped, RestIsShown
<1>3. IInv => TextsAreStations
  BY <1>1, <1>2 DEF TextsAreStations
<1> QED
  BY <1>3, Invariance, PTL

\* The web pages know the texts once nobody is about to tell them.
THEOREM PagesCorrect == Spec => []PagesKnow
<1>1. IInv => PagesKnow
  BY Maps DEF IInv, ClientFresh, Tells, Known, Telling, PagesKnow
<1> QED
  BY <1>1, Invariance, PTL

\* json_length is enough for the message, unless clientTask saves a text in between.
THEOREM RoomCorrect == Spec => []MessageFits
<1>1. IInv => MessageFits
  BY DEF IInv, Room, MessageFits
<1> QED
  BY <1>1, Invariance, PTL

\* strlen gets no NULL title to continue, unless memory was short.
THEOREM TitleCorrect == Spec => []TitleIsThere
<1>1. IInv => TitleIsThere
  BY DEF IInv
<1> QED
  BY <1>1, Invariance, PTL
=============================================================================
