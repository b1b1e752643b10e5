------------------------------ MODULE HeaderText ------------------------------
(***************************************************************************)
(* What the station says of itself (webclient.c): the texts of its header  *)
(* and the titles in its stream, which clientTask keeps on the heap; and   *)
(* who else handles them.  clientDisconnect of any task empties them and   *)
(* broadcasts that (clearHeaders, wsHeaders); /icy answers with them       *)
(* (webserver.c).  sHeader is taken by clientTask only and protects        *)
(* nothing.                                                                *)
(*                                                                         *)
(* Scheduling.  clientTask (priority 5) goes from one blocking call to the *)
(* next in one action; web server tasks (3) and the console (2) may lose   *)
(* the processor between two accesses, and block while they write to a     *)
(* socket.                                                                 *)
(*                                                                         *)
(* Data.  "name" stands for the eight texts of the header; which of two    *)
(* notices is told, and the strlen of the first when it is NULL (282), are *)
(* left out.  A text is a sequence of pieces, each the number of the       *)
(* session it comes from, or Null, no heap block.  A title that is cut by  *)
(* recv comes in two pieces.  When a session is opened and stopped is the  *)
(* subject of ClientControl, where titles are in the stream that of        *)
(* IcyDemux.                                                               *)
(*                                                                         *)
(* sent, sentInt, how, old, late, hurt, moved, untold, short and astray    *)
(* are history, see the properties.                                        *)
(***************************************************************************)
EXTENDS Naturals, Sequences

CONSTANTS Web, Console, Client,   \* tasks
          Null,
          SESSIONS,       \* bound: of sessions
          COMMANDS,       \* bound: of stops and /icy
          SHORTAGES       \* bound: how often memory is short

ASSUME HeaderAssumption ==
    /\ {SESSIONS, COMMANDS, SHORTAGES} \subseteq Nat /\ Null \notin Seq(Nat)
    /\ Web \cap Console = {} /\ Client \notin Web \cup Console

Callers  == Web \cup Console
Field    == {"name", "meta"}
Empty    == <<>>
NotFound == <<0>>
Blank    == [f \in Field |-> Empty]
NoNews   == [f \in {} |-> Empty]

VARIABLES head,          \* header.members: the texts
          metaint,       \* is it other than 0
          cut,           \* rest < 0: the title goes on in the next chunk
          ct, session,   \* clientTask: where it is, the number of its session
          news,          \* what clientTask is broadcasting: some of the texts
          sDisconnect,
          pc, at,        \* of each task: where it is, at which text
          icy,           \* does it answer /icy
          live,          \* the block it has loaded is still that text's
          len, msg,      \* json_length, and what it has formatted
          given,         \* commands so far
          shown,         \* what the web pages show
          sent, sentInt, how, old, late, hurt, moved, untold, short, astray

texts  == <<head, metaint, cut>>
client == <<ct, session, news>>
tasks  == <<pc, at, icy, live, len, msg, given>>
hist   == <<sent, sentInt, how, old, late, hurt, moved, untold, short, astray>>
vars   == <<texts, client, sDisconnect, tasks, shown, hist>>

No == [t \in Callers |-> FALSE]

Init == /\ head = [f \in Field |-> Null] /\ metaint = FALSE /\ cut = FALSE
        /\ ct = "rest" /\ news = NoNews /\ sDisconnect = FALSE
        /\ pc = [t \in Callers |-> "idle"] /\ at = [t \in Callers |-> "name"]
        /\ icy = No /\ live = No
        /\ len = [t \in Callers |-> 0] /\ msg = [t \in Callers |-> Blank]
        /\ sent = Blank /\ sentInt = FALSE /\ how = "none" /\ old = No
        /\ late = FALSE /\ hurt = {} /\ short = 0 /\ astray = FALSE
        /\ moved = [t \in Callers \cup {Client} |-> {}]
        /\ session = 0 /\ given = 0 /\ shown = Blank /\ untold = {}

-----------------------------------------------------------------------------
Text(x) == IF x = Null THEN Empty ELSE x

\* t is in clearHeaders.
Stopping(t) == pc[t] \in {"clear", "zero", "metaint"}

\* clearHeaders leaves the blocks and empties the texts.
Emptied == [f \in Field |-> IF head[f] = Null THEN Null ELSE Empty]

\* The texts change (k is how) while others are about to tell them.
Pass(k) == [t \in Callers \cup {Client} |->
              IF (IF t = Client THEN news # NoNews ELSE pc[t] \in {"measure", "format", "send"})
              THEN moved[t] \cup {k} ELSE moved[t]]
PassOthers(k) == [Pass(k) EXCEPT ![Client] = {}]

\* Task t tells message m, which is all of the texts or some, to the pages.
Shown(m)      == [f \in Field |-> IF f \in DOMAIN m THEN m[f] ELSE shown[f]]
Untold(t, m)  == (untold \ DOMAIN m) \cup (IF moved[t] = {} THEN {} ELSE DOMAIN m)

\* There is no memory.
Short == short < SHORTAGES /\ short' = short + 1

\* clientTask empties the texts and has all of them to tell, if there is memory.
Clear == /\ head' = Emptied /\ metaint' = FALSE
         /\ moved' = PassOthers("emptied")
         /\ \/ news' = Blank /\ UNCHANGED <<untold, short>>
            \/ news' = NoNews /\ untold' = Field /\ Short

\* clientTask frees text f and puts x in its place; nobody's block is f's any more.
Save(f, x) ==
    /\ head' = [head EXCEPT ![f] = x]
    /\ live' = [t \in Callers |-> live[t] /\ at[t] # f]
    /\ moved' = PassOthers("saved")

\* The session is over.
Over == sent' = Blank /\ sentInt' = FALSE /\ hurt' = {}

\* The callback returns to clientTask's loop, which looks for a stop.
Return == /\ sDisconnect' = FALSE
          /\ IF sDisconnect THEN ct' = "rest" /\ how' = "stopped" /\ Over
                            ELSE ct' = "data" /\ UNCHANGED <<how, sent, sentInt, hurt>>

-----------------------------------------------------------------------------
(* clientTask *)

\* It takes sConnect, and a stop that was left; connects, or fails to.
Open == /\ ct = "rest" /\ session < SESSIONS
        /\ ct' = "open" /\ session' = session + 1 /\ sDisconnect' = FALSE
        /\ how' = "open" /\ late' = FALSE /\ old' = [t \in Callers |-> Stopping(t)]
        /\ Over
        /\ UNCHANGED <<texts, news, tasks, shown, moved, untold, short, astray>>

\* C_HEADER: the texts are emptied, and that is broadcast.
HeaderBegins ==
    /\ ct = "open" /\ ct' = "header"
    /\ Clear
    /\ UNCHANGED <<cut, session, sDisconnect, tasks, shown>>
    /\ UNCHANGED <<sent, sentInt, how, old, late, hurt, astray>>

\* clientParseHeader: the station may have a name, for which there may be no
\* memory, and may announce titles.  What comes last decides whether it is told,
\* for which there may be no memory either.
Parse ==
    /\ ct = "header"
    /\ \E named, int, saved, made \in BOOLEAN :
         LET name  == IF named THEN <<session>> ELSE Empty
             ret   == int \/ (named /\ saved)
             fails == (named /\ ~saved) \/ (ret /\ ~made)
         IN  /\ sent' = [name |-> name, meta |-> Empty] /\ sentInt' = int /\ metaint' = int
             /\ IF named THEN Save("name", IF saved THEN name ELSE Null)
                ELSE moved' = [moved EXCEPT ![Client] = {}] /\ UNCHANGED <<head, live>>
             /\ late' = (late \/ (named /\ sDisconnect))
             /\ hurt' = {f \in Field : IF f = "name" THEN named /\ ~saved ELSE cut}
             /\ shown' = Shown(news)
             /\ news' = IF ret /\ made THEN [f \in Field |-> Text(head'[f])] ELSE NoNews
             /\ untold' = IF fails THEN Field ELSE Untold(Client, news)
             /\ IF fails THEN Short ELSE UNCHANGED short
    /\ ct' = "headed"
    /\ UNCHANGED <<cut, session, sDisconnect, pc, at, icy, len, msg, given, how, old, astray>>

\* It has broadcast the header, or a title.  What is in the buffer after a header is
\* handled before clientTask looks for a stop.
Told == /\ ct \in {"headed", "told"}
        /\ shown' = Shown(news) /\ untold' = Untold(Client, news) /\ news' = NoNews
        /\ moved' = [moved EXCEPT ![Client] = {}]
        /\ \/ Return
           \/ /\ ct = "headed" /\ ct' = "data"
              /\ UNCHANGED <<sDisconnect, how, sent, sentInt, hurt>>
        /\ UNCHANGED <<texts, session, tasks, old, late, short, astray>>

\* A chunk of audio.
Chunk == /\ ct = "data" /\ ~cut
         /\ Return
         /\ UNCHANGED <<texts, session, news, tasks, shown>>
         /\ UNCHANGED <<old, late, moved, untold, short, astray>>

\* Mutant: it is not broadcast.
TitleUntold(x, h) ==
    /\ \/ Save("meta", x) /\ hurt' = h /\ UNCHANGED <<untold, short>>
       \/ /\ Save("meta", Null) /\ hurt' = hurt \cup {"meta"}
          /\ untold' = untold \cup {"meta"} /\ Short
    /\ ct' = "told" /\ news' = NoNews /\ late' = (late \/ sDisconnect)
    /\ UNCHANGED <<metaint, session, sDisconnect, pc, at, icy, len, msg, given, shown>>
    /\ UNCHANGED <<sentInt, how, old, astray>>

\* clientSaveMetadata leaves x as the title and broadcasts it, with the memory
\* for both.  h is hurt then.
Title(x, h) ==
    /\ \/ /\ Save("meta", x) /\ hurt' = h
          /\ \/ news' = [f \in {"meta"} |-> x] /\ UNCHANGED <<untold, short>>
             \/ news' = NoNews /\ untold' = untold \cup {"meta"} /\ Short
       \/ /\ Save("meta", Null) /\ hurt' = hurt \cup {"meta"}
          /\ news' = NoNews /\ untold' = untold \cup {"meta"} /\ Short
    /\ ct' = "told" /\ late' = (late \/ sDisconnect)
    /\ UNCHANGED <<metaint, session, sDisconnect, pc, at, icy, len, msg, given, shown>>
    /\ UNCHANGED <<sentInt, how, old, astray>>

\* A chunk with a title or the beginning of one.
NewTitle == /\ ct = "data" /\ ~cut /\ metaint
            /\ sent' = [sent EXCEPT !["meta"] = <<session>>]
            /\ cut' \in BOOLEAN
            /\ Title(<<session>>, hurt \ {"meta"})

\* The chunk after: the rest is appended.  rest is static, and a title of the
\* session before may have been cut.  strlen takes no NULL.
RestOfTitle ==
    /\ ct = "data" /\ cut /\ head["meta"] # Null
    /\ sent' = IF sent["meta"] = Empty THEN sent
               ELSE [sent EXCEPT !["meta"] = Append(@, session)]
    /\ cut' = FALSE
    /\ Title(Append(head["meta"], session), hurt)

\* ... The exception handler restarts the radio.
NoTitle == /\ ct = "data" /\ cut /\ head["meta"] = Null
           /\ ct' = "fault"
           /\ UNCHANGED <<texts, session, news, sDisconnect, tasks, shown, hist>>

\* Mutant: it only gives sDisconnect.
DisconnectBare ==
    /\ ct \in {"open", "data"}
    /\ how' \in {"ended"} \cup (IF ct = "open" THEN {"moved"} ELSE {})
    /\ ct' = "end" /\ sDisconnect' = TRUE
    /\ Over
    /\ UNCHANGED <<texts, news, session, tasks, shown, old, late, moved, untold, short, astray>>

\* clientTask's own clientDisconnect, when the stream ends; in a playlist, or when
\* the station has moved.
Disconnect ==
    /\ ct \in {"open", "data"}
    /\ how' \in {"ended"} \cup (IF ct = "open" THEN {"moved"} ELSE {})
    /\ ct' = "end" /\ sDisconnect' = TRUE
    /\ Clear /\ Over
    /\ UNCHANGED <<cut, session, tasks, shown, old, late, astray>>

\* ... which it has broadcast.  If nothing was played, the name tells that nothing
\* was found.
Leave ==
    /\ ct = "end" /\ ct' = "rest" /\ news' = NoNews
    /\ shown' = Shown(news)
    /\ \/ /\ untold' = Untold(Client, news)
          /\ moved' = [moved EXCEPT ![Client] = {}]
          /\ UNCHANGED <<head, live, short>>
       \/ \E x \in {NotFound, Null} :
            /\ how = "ended" /\ Save("name", x)
            /\ untold' = Untold(Client, news) \cup {"name"}
            /\ IF x = Null THEN Short ELSE UNCHANGED short
    /\ sDisconnect' \in {sDisconnect, FALSE}
    /\ UNCHANGED <<metaint, cut, session, pc, at, icy, len, msg, given>>
    /\ UNCHANGED <<sent, sentInt, how, old, late, hurt, astray>>

\* recv, or connect, has failed: nothing is emptied, and nobody is told.
Break == /\ ct \in {"open", "data"}
         /\ ct' = "rest" /\ how' = "broken"
         /\ sDisconnect' \in {FALSE} \cup (IF ct = "open" THEN {sDisconnect} ELSE {})
         /\ Over
         /\ UNCHANGED <<texts, session, news, tasks, shown, old, late, moved, untold, short, astray>>

ClientTask == \/ Open \/ HeaderBegins \/ Parse \/ Told \/ Chunk \/ NewTitle
              \/ RestOfTitle \/ NoTitle \/ Disconnect \/ Leave \/ Break

-----------------------------------------------------------------------------
(* Task t of the web server or the console *)

Goto(t, place, f) == pc' = [pc EXCEPT ![t] = place] /\ at' = [at EXCEPT ![t] = f]

\* After the name the metadata, then what comes next.
ThenMeta(t, place, next) == IF at[t] = "name" THEN Goto(t, place, "meta") ELSE Goto(t, next, "name")

\* It begins clientDisconnect: a stop, or the beginning of a play.
Stop(t) == /\ pc[t] = "idle" /\ given < COMMANDS /\ given' = given + 1
           /\ sDisconnect' = TRUE
           /\ Goto(t, "clear", "name")
           /\ UNCHANGED <<texts, client, icy, live, len, msg, shown, hist>>

\* clearHeaders loads a text's address,
Load(t) == /\ pc[t] = "clear"
           /\ IF head[at[t]] = Null
              THEN ThenMeta(t, "clear", "metaint") /\ UNCHANGED live
              ELSE Goto(t, "zero", at[t]) /\ live' = [live EXCEPT ![t] = TRUE]
           /\ UNCHANGED <<texts, client, sDisconnect, icy, len, msg, given, shown, hist>>

\* Mutant: clearHeaders frees the blocks.
ZeroFrees(t) ==
    /\ pc[t] = "zero"
    /\ head' = [head EXCEPT ![at[t]] = Null]
    /\ hurt' = IF old[t] THEN hurt \cup {at[t]} ELSE hurt
    /\ moved' = Pass("emptied") /\ live' = [live EXCEPT ![t] = FALSE]
    /\ ThenMeta(t, "clear", "metaint")
    /\ UNCHANGED <<metaint, cut, client, sDisconnect, icy, len, msg, given, shown>>
    /\ UNCHANGED <<sent, sentInt, how, old, late, untold, short, astray>>

\* and stores a 0 there, although the block may have been freed meanwhile, or be
\* another text's.
Zero(t) == /\ pc[t] = "zero"
           /\ \/ /\ head[at[t]] # Null
                 /\ head' = [head EXCEPT ![at[t]] = Empty]
                 /\ hurt' = IF old[t] THEN hurt \cup {at[t]} ELSE hurt
                 /\ UNCHANGED astray
              \/ ~live[t] /\ astray' = TRUE /\ UNCHANGED <<head, hurt>>
           /\ moved' = Pass("emptied") /\ live' = [live EXCEPT ![t] = FALSE]
           /\ ThenMeta(t, "clear", "metaint")
           /\ UNCHANGED <<metaint, cut, client, sDisconnect, icy, len, msg, given, shown>>
           /\ UNCHANGED <<sent, sentInt, how, old, late, untold, short>>

\* It begins to measure the texts, in wsHeaders or for /icy.
Begin(t) == Goto(t, "measure", "name") /\ UNCHANGED <<len, moved>>

\* It has done, and forgets its local variables.
Done(t) == /\ Goto(t, "idle", "name")
           /\ icy' = [icy EXCEPT ![t] = FALSE] /\ len' = [len EXCEPT ![t] = 0]
           /\ msg' = [msg EXCEPT ![t] = Blank] /\ moved' = [moved EXCEPT ![t] = {}]

Metaint(t) == /\ pc[t] = "metaint"
              /\ metaint' = FALSE
              /\ hurt' = IF old[t] THEN hurt \cup {"metaint"} ELSE hurt
              /\ Begin(t) /\ old' = [old EXCEPT ![t] = FALSE]
              /\ UNCHANGED <<head, cut, client, sDisconnect, icy, live, msg, given, shown>>
              /\ UNCHANGED <<sent, sentInt, how, late, untold, short, astray>>

AskIcy(t) == /\ t \in Web /\ pc[t] = "idle" /\ given < COMMANDS /\ given' = given + 1
             /\ icy' = [icy EXCEPT ![t] = TRUE]
             /\ Begin(t)
             /\ UNCHANGED <<texts, client, sDisconnect, live, msg, shown>>
             /\ UNCHANGED <<sent, sentInt, how, old, late, hurt, untold, short, astray>>

\* Mutant: json_length is that of the header only.
MeasureName(t) ==
    /\ pc[t] = "measure"
    /\ len' = [len EXCEPT ![t] = Len(Text(head["name"]))]
    /\ ThenMeta(t, "measure", "format")
    /\ UNCHANGED <<texts, client, sDisconnect, icy, live, msg, given, shown, hist>>

Measure(t) == /\ pc[t] = "measure"
              /\ len' = [len EXCEPT ![t] = @ + Len(Text(head[at[t]]))]
              /\ ThenMeta(t, "measure", "format")
              /\ UNCHANGED <<texts, client, sDisconnect, icy, live, msg, given, shown, hist>>

\* No memory for the message.
Fails(t) == /\ pc[t] = "format" /\ at[t] = "name"
            /\ Done(t) /\ Short
            /\ untold' = IF icy[t] THEN untold ELSE Field
            /\ UNCHANGED <<texts, client, sDisconnect, live, given, shown>>
            /\ UNCHANGED <<sent, sentInt, how, old, late, hurt, astray>>

Format(t) == /\ pc[t] = "format"
             /\ msg' = [msg EXCEPT ![t][at[t]] = Text(head[at[t]])]
             /\ ThenMeta(t, "format", "send")
             /\ UNCHANGED <<texts, client, sDisconnect, icy, live, len, given, shown, hist>>

\* It has broadcast the message, or answered with it.
Sent(t) == /\ pc[t] = "send"
           /\ Done(t)
           /\ IF icy[t] THEN UNCHANGED <<shown, untold>>
              ELSE shown' = Shown(msg[t]) /\ untold' = Untold(t, msg[t])
           /\ UNCHANGED <<texts, client, sDisconnect, live, given>>
           /\ UNCHANGED <<sent, sentInt, how, old, late, hurt, short, astray>>

\* A web server task that is not blocked keeps the console from running.
Runs(t) == t \in Web \/ \A w \in Web : pc[w] \in {"idle", "send"}

Call(t) == Runs(t) /\ (\/ Stop(t) \/ Load(t) \/ Zero(t) \/ Metaint(t) \/ AskIcy(t)
                       \/ Measure(t) \/ Fails(t) \/ Format(t) \/ Sent(t))

\* After a fault the radio restarts, as in Init; of a heap that a 0 went astray in
\* nothing is known.
Next == ~astray /\ (ClientTask \/ \E t \in Callers : ct # "fault" /\ Call(t))

Spec == Init /\ [][Next]_vars

-----------------------------------------------------------------------------
(* Properties.  Nothing is said after a 0 went astray. *)

Fields == [Field -> Seq(Nat)]

TypeOK ==
    /\ head \in [Field -> Seq(Nat) \cup {Null}] /\ metaint \in BOOLEAN /\ cut \in BOOLEAN
    /\ ct \in {"rest", "open", "header", "headed", "told", "data", "end", "fault"}
    /\ session \in 0..SESSIONS /\ given \in 0..COMMANDS /\ news \in Fields \cup [{"meta"} -> Seq(Nat)] \cup {NoNews}
    /\ sDisconnect \in BOOLEAN
    /\ pc \in [Callers -> {"idle", "clear", "zero", "metaint", "measure", "format", "send"}]
    /\ at \in [Callers -> Field] /\ icy \in [Callers -> BOOLEAN] /\ live \in [Callers -> BOOLEAN]
    /\ len \in [Callers -> Nat] /\ msg \in [Callers -> Fields] /\ shown \in Fields

\* While a station plays and no stop is on its way, its texts and its metaint are
\* what it has sent: nothing of another station, no half of a title.  But they are
\* hurt for want of memory; when the session before ended in a title; or by a stop
\* that was given in an earlier session and empties the texts only now.
PlayingIsShown ==
    ct = "data" /\ ~sDisconnect =>
        /\ \A f \in Field \ hurt : Text(head[f]) = sent[f]
        /\ "metaint" \notin hurt => metaint = sentInt

\* When clientTask is at rest, they are empty, or say that nothing was found: unless
\* recv failed, or clientTask saved some in a session that was told to stop.
RestIsShown ==
    ct = "rest" /\ how \notin {"none", "broken"} /\ ~late
       /\ (\A t \in Callers : ~Stopping(t)) =>
        /\ Text(head["meta"]) = Empty
        /\ Text(head["name"]) \in {Empty} \cup (IF how = "ended" THEN {NotFound} ELSE {})

TextsAreStations == ~astray => PlayingIsShown /\ RestIsShown

\* The web pages show the texts, when nobody is about to change or tell them.  But
\* they do not know of "Not Found", and of nothing there was no memory for or that
\* changed while it was told.
PagesKnow ==
    ct \in {"rest", "open", "data"} /\ ~astray
       /\ (\A t \in Callers : pc[t] = "idle" \/ icy[t]) =>
        \A f \in Field \ untold : shown[f] = Text(head[f])

\* What was measured is enough for what is formatted, unless clientTask saved a text
\* in between; that the texts are emptied does no harm.
MessageFits ==
    \A t \in Callers :
        pc[t] = "send" /\ "saved" \notin moved[t] /\ ~astray =>
            Len(msg[t]["name"]) + Len(msg[t]["meta"]) <= len[t]

\* The rest of a title meets no NULL unless memory was short.
TitleIsThere == ct = "fault" => short > 0
=============================================================================
