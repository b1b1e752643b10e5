------------------------------ MODULE WebRequest ------------------------------
(***************************************************************************)
(* How serverclientTask (webserver.c) reads the requests of one connection *)
(* into its buffer, and hands them to httpServerHandleConnection: it reads *)
(* until the end of a header is in the buffer, and of a POST once more for *)
(* the body.  recv cuts the stream anywhere; after two seconds of silence  *)
(* it returns -1 (SO_RCVTIMEO), after the browser's FIN always 0.  The     *)
(* buffer is cleared once: the next request on a connection is written     *)
(* over the one before.                                                    *)
(*                                                                         *)
(* Data.  A request is a header of two units, its beginning (1) and its    *)
(* end (2, the empty line), and for a POST a body of up to BODY units.  A  *)
(* place of the buffer holds the number of a unit of the request; Empty;   *)
(* Old, something of an earlier request; or Torn, a unit the last byte of  *)
(* which was written over.                                                 *)
(*                                                                         *)
(* late and cuts are history: recv timed out in this request; after which  *)
(* units it was cut.                                                       *)
(*                                                                         *)
(* Some names begin with Request so that WebServer can be extended beside  *)
(* this module.                                                            *)
(***************************************************************************)
EXTENDS Integers

CONSTANTS BODY,     \* units of a body at most
          REQUESTS  \* bound: requests of a connection

ASSUME RequestAssumption == BODY \in Nat \ {0} /\ REQUESTS \in Nat \ {0}

Empty == 0
Old   == -1
Torn  == -2
Units  == 1..BODY + 2
HeaderEnd == 2

VARIABLES conn,             \* the connection: up, closed or reset by the browser
          kind, size, sent, \* the request: which, its units, those that are sent
          nth,              \* how many there have been
          pc, buf, rec,     \* serverclientTask: where it is, buf, recbytes
          short,            \* recbytes is a byte less than rec units
          taken,            \* units it has received
          bend, cl,         \* where the body belongs, its Content-Length
          late, cuts        \* history

browser     == <<conn, kind, size, sent, nth>>
task        == <<pc, buf, rec, short, taken, bend, cl>>
hist        == <<late, cuts>>
requestVars == <<browser, task, hist>>

RequestInit ==
    /\ conn = "up" /\ kind = "get" /\ size = 0 /\ sent = 0 /\ nth = 0
    /\ pc = "begin" /\ buf = [p \in Units |-> Empty] /\ rec = 0
    /\ short = FALSE /\ taken = 0 /\ bend = 0 /\ cl = 0
    /\ late = FALSE /\ cuts = {}

-----------------------------------------------------------------------------
(* The browser *)

\* It sends the (beginning of the) next request when it has its answer.
Ask == /\ conn = "up" /\ pc \in {"begin", "read"}
       /\ sent = size /\ taken = size /\ nth < REQUESTS
       /\ kind' \in {"get", "post", "bad", "upgrade"}
       /\ size' \in IF kind' = "post" THEN 3..BODY + 2 ELSE {2}
       /\ sent' \in 1..size'
       /\ nth' = nth + 1 /\ taken' = 0
       /\ late' = FALSE /\ cuts' = {}
       /\ UNCHANGED <<conn, pc, buf, rec, short, bend, cl>>

SendMore == /\ conn = "up" /\ sent < size
            /\ sent' \in sent + 1..size
            /\ UNCHANGED <<conn, kind, size, nth, task, hist>>

Close == /\ conn = "up"
         /\ conn' \in {"fin", "rst"}
         /\ UNCHANGED <<kind, size, sent, nth, task, hist>>

-----------------------------------------------------------------------------
(* serverclientTask *)

\* read() with room for that many units, into b from place at on: what it
\* leaves in the buffer, and how much.
Count(room) == IF sent - taken < room THEN sent - taken ELSE room
Put(b, at, room) == [p \in Units |-> IF p \in at..at + Count(room) - 1
                                     THEN taken + 1 + (p - at) ELSE b[p]]
\* SO_RCVTIMEO.  Mutant: it is not set.
NeverSilent == FALSE
Silent == conn = "up" /\ sent = taken
Closed == conn = "fin" /\ sent = taken

Received(room) ==
    /\ conn # "rst" /\ Count(room) > 0
    /\ taken' = taken + Count(room)
    /\ cuts' = IF taken' < size THEN cuts \cup {taken'} ELSE cuts

\* The places where strstr finds the empty line; is it a POST?
EndPlaces(b) == {p \in Units : b[p] = HeaderEnd \/ (p = HeaderEnd /\ b[p] = Old)}
IsPost(b)    == kind = "post" /\ b[1] \in {1, Torn}

\* Where the task goes when buf and recbytes are b and r.  The Content-Length
\* of a header that is not complete may be an older one's, or none, which is a
\* crash; no memory for a larger buffer is a crash too.
Look(b, r) ==
    \/ /\ EndPlaces(b) = {}
       /\ pc' \in {"head", "fault"}
       /\ UNCHANGED <<bend, cl>>
    \/ \E p \in EndPlaces(b) :
         /\ \A q \in EndPlaces(b) : p <= q
         /\ bend' = p + 1
         /\ \/ ~IsPost(b) /\ pc' = "handle" /\ UNCHANGED cl
            \/ /\ IsPost(b)
               /\ cl' \in IF b[HeaderEnd] = HeaderEnd THEN {size - 2} ELSE 0..BODY
               /\ pc' \in {IF p + cl' > r THEN "body" ELSE "handle", "fault"}

\* The buffer is allocated and cleared, or there is no memory.
Start == /\ pc = "begin"
         /\ pc' \in {"read", "close"}
         /\ UNCHANGED <<browser, buf, rec, short, taken, bend, cl, hist>>

\* recbytes.
FirstLength == Count(BODY + 2)

\* The first part of a request, over what is left of the one before: some of that
\* may be longer.
Read ==
    /\ pc = "read" /\ Received(BODY + 2)
    /\ \E left \in {Old, Empty} :
         buf' = Put([p \in Units |-> IF buf[p] = Empty THEN Empty ELSE left], 1, BODY + 2)
    /\ rec' = FirstLength
    /\ Look(buf', rec')
    /\ short' = FALSE
    /\ UNCHANGED <<browser, late>>

\* Nothing came in two seconds, or never will.
ReadEnds == /\ pc = "read"
            /\ Silent \/ Closed \/ conn = "rst"
            /\ pc' = "close"
            /\ UNCHANGED <<browser, buf, rec, short, taken, bend, cl, hist>>

\* The end of the header is still to come: more of it is appended, over a byte
\* for each time that there was nothing.
ReadHeader ==
    /\ pc = "head" /\ Received(BODY + 2 - rec)
    /\ LET b == Put(buf, rec + 1, BODY + 2 - rec) IN
       buf' = IF short THEN [b EXCEPT ![rec] = Torn] ELSE b
    /\ rec' = rec + Count(BODY + 2 - rec)
    /\ Look(buf', rec')
    /\ short' = FALSE
    /\ UNCHANGED <<browser, late>>

\* recbytes += -1; when the connection is reset, what there is is handled.  When
\* it is closed, read() returns 0 again and again.
HeaderNothing ==
    /\ pc = "head"
    /\ \/ Silent /\ late' = TRUE /\ short' = TRUE /\ UNCHANGED pc
       \/ conn = "rst" /\ pc' = "handle" /\ UNCHANGED <<late, short>>
    /\ UNCHANGED <<browser, buf, rec, taken, bend, cl, cuts>>

\* Where the rest of a body goes: to the beginning of the body.  Mutant: one
\* place after it.
BodyPlaceLate == bend + 1
BodyPlace == bend

ReadBody ==
    /\ pc = "body" /\ cl > 0 /\ Received(cl)
    /\ buf' = Put(buf, BodyPlace, cl)
    /\ rec' = rec + Count(cl)
    /\ pc' = "handle"
    /\ UNCHANGED <<browser, short, bend, cl, late>>

BodyNothing ==
    /\ pc = "body"
    /\ \/ Silent /\ late' = TRUE /\ short' = TRUE
       \/ conn = "rst" /\ UNCHANGED <<late, short>>
    /\ pc' = "handle"
    /\ UNCHANGED <<browser, buf, rec, taken, bend, cl, cuts>>

\* httpServerHandleConnection.  A request for a name of more than 32 characters
\* (bad) returns without a value; one for a websocket is passed to a task of its
\* own, or answered for want of memory.
Handle ==
    /\ pc = "handle"
    /\ pc' \in CASE buf[1] \notin {1, Torn} -> {"read"}
                 [] kind \in {"get", "post"} -> {"read"}
                 [] kind = "bad"            -> {"read", "leaked"}
                 [] kind = "upgrade"        -> {"read", "passed"}
    /\ UNCHANGED <<browser, buf, rec, short, taken, bend, cl, hist>>

\* shutdown, close; the permit is given.
Finish == /\ pc = "close"
          /\ pc' = "done"
          /\ UNCHANGED <<browser, buf, rec, short, taken, bend, cl, hist>>

Task == Start \/ Read \/ ReadEnds \/ ReadHeader \/ HeaderNothing
        \/ ReadBody \/ BodyNothing \/ Handle \/ Finish
RequestNext == Ask \/ SendMore \/ Close \/ Task

RequestSpec == RequestInit /\ [][RequestNext]_requestVars /\ WF_requestVars(Task)

-----------------------------------------------------------------------------
(* Properties *)

RequestTypeOK ==
    /\ conn \in {"up", "fin", "rst"}
    /\ kind \in {"get", "post", "bad", "upgrade"}
    /\ size \in 0..BODY + 2 /\ sent \in 0..size /\ nth \in 0..REQUESTS
    /\ pc \in {"begin", "read", "head", "body", "handle", "close",
               "done", "leaked", "passed", "fault"}
    /\ buf \in [Units -> Units \cup {Empty, Old, Torn}]
    /\ rec \in 0..BODY + 2 /\ short \in BOOLEAN
    /\ taken \in 0..sent /\ bend \in 0..BODY + 3 /\ cl \in 0..BODY
    /\ late \in BOOLEAN /\ cuts \subseteq Units

\* The request came without a pause, and was cut at most where its body begins
\* or, if it is the first of the connection, in its header.
Smooth == ~late /\ cuts \subseteq (IF nth = 1 THEN {1, 2} ELSE {2})

\* Such a POST is handed over as it was sent, unless the connection is reset:
\* header and body in their places, and of the length it has.
PostAsSent ==
    pc = "handle" /\ kind = "post" /\ Smooth /\ conn # "rst" =>
        /\ \A p \in 1..size : buf[p] = p
        /\ rec = size /\ ~short /\ bend = 3

\* A connection does not keep its task, and so one of the two permits, for ever,
\* unless the browser leaves a header unfinished, closes within a request, or sent
\* one that did not come smoothly: what is left of a body is then taken for the
\* next header.
TaskEnds ==
    <>[](\/ pc \in {"done", "passed", "leaked", "fault"}
         \/ taken = 1
         \/ conn = "fin" /\ taken < size
         \/ ~Smooth)
=============================================================================
