----------------------------- MODULE ChunkedDemux -----------------------------
(***************************************************************************)
(* How clientReceiveCallback (webclient.c) takes the framing of HTTP's     *)
(* chunked transfer encoding out of the stream: a size line, so many bytes *)
(* of payload, CR LF, the next size line.  recv cuts this anywhere into    *)
(* buffers of at most RECV bytes.  cchunk counts the bytes up to the       *)
(* next size line, CR LF included.  A buffer that reaches a size line is   *)
(* filled up until SECURE bytes follow the old chunk, which is enough for  *)
(* the line; then the payload is moved together.  One size line is looked  *)
(* for in each buffer.  What remains goes to the metadata part (IcyDemux). *)
(*                                                                         *)
(* Data.  A byte of a buffer is its index; togo, where the station is, and *)
(* payload, the indices of payload bytes, say what the bytes are, passed   *)
(* the ones that are passed on.  memcpy moves forward, so what overlaps is *)
(* moved whole.                                                            *)
(*                                                                         *)
(* Some names begin with Chunk so that IcyDemux can be extended beside     *)
(* this module.                                                            *)
(***************************************************************************)
EXTENDS Integers

CONSTANTS RECV,       \* bytes of a recv at most (2000)
          SECURE,     \* bytes wanted after the end of a chunk (10)
          LineLens,   \* lengths of a size line, CR LF included
          Sizes,      \* sizes of a chunk
          WORD        \* 2^32

ASSUME ChunkedAssumption ==
    /\ RECV \in Nat \ {0} /\ SECURE \in Nat
    /\ LineLens \subseteq 1..SECURE
    /\ Sizes \subseteq Nat \ {0}
    /\ WORD \in Nat /\ WORD > RECV + SECURE
    /\ \A s \in Sizes : s + 2 < WORD

VARIABLES chunked, cchunk,   \* static variables of the callback
          cpc, bytes_read,   \* where it is, bytes in its buffer
          encoded, togo,     \* the station: does it use the encoding, bytes up
                             \* to its next size line
          ended,             \* it has closed the connection
          payload, passed,   \* of this buffer
          lost,              \* a whole chunk was overlooked in this session
          tail               \* bytes of CR LF passed on with this buffer

coding    == <<chunked, cchunk, cpc, bytes_read>>
source    == <<encoded, togo, ended>>
chunkVars == <<coding, source, payload, passed, lost, tail>>

Lesser(x, y) == IF x < y THEN x ELSE y

ChunkInit == /\ chunked = 0 /\ cchunk = 0 /\ cpc = "over" /\ bytes_read = 0
             /\ encoded = FALSE /\ togo = 0 /\ ended = FALSE
             /\ payload = {} /\ passed = {} /\ lost = FALSE /\ tail = 0

-----------------------------------------------------------------------------
\* The session before is over, or was left; the end of a header was received.
\* With chunks the first size line must be in the same buffer: strchr finds no
\* LF otherwise, and NULL is written to.
\* What else is in the buffer is handled at once, as if it were received next.
HeaderEnds ==
    /\ cpc \in {"over", "idle"}
    /\ encoded' \in BOOLEAN
    /\ \E s \in Sizes, line \in BOOLEAN :
         /\ chunked' = IF encoded' THEN s + 2 ELSE 0
         /\ togo' = chunked'
         /\ cpc' = IF encoded' /\ ~line THEN "fault" ELSE "idle"
    /\ cchunk' = chunked'
    /\ bytes_read' = 0 /\ ended' = FALSE
    /\ payload' = {} /\ passed' = {} /\ lost' = FALSE /\ tail' = 0

\* The station is still m bytes before a size line, or does not use them.
Within(m) ==
    /\ togo' = IF encoded /\ ~lost THEN togo - m ELSE togo
    /\ payload' = 0..(IF encoded THEN Lesser(m, togo - 2) ELSE m) - 1
    /\ tail' = 0
    /\ UNCHANGED <<encoded, ended, lost>>

\* len bytes are left of the buffer.  getBufferFree is unsigned: for a negative
\* length there is never room.
PassOn(len) == /\ passed' = 0..len - 1
               /\ cpc' = IF len < 0 THEN "wait" ELSE "idle"

\* Mutant of AtCr: the LF that is still to come is forgotten.
AtCrIsEnd(m) == /\ m = cchunk - 1
                /\ cchunk' = 0 /\ PassOn(m - 1)
\* Mutant of AtCr: LF is taken off although it is still to come.
AtCrTakesTwo(m) == /\ m = cchunk - 1
                   /\ cchunk' = 1 /\ PassOn(m - 2)

\* The buffer of m bytes ends with the LF of the chunk; with its CR; or before.
AtLf(m) == /\ m = cchunk
           /\ cchunk' = 0 /\ PassOn(m - 2)
AtCr(m) == /\ m = cchunk - 1
           /\ cchunk' = 1 /\ PassOn(m - 1)
Inside(m) == /\ cchunk # 0 /\ m < cchunk - 1
             /\ cchunk' = cchunk - m /\ PassOn(m)
Plain(m) == /\ chunked = 0
            /\ PassOn(m) /\ UNCHANGED cchunk

\* A buffer without a size line.
ReceiveWithin ==
    /\ cpc = "idle" /\ ~ended
    /\ \E m \in 1..RECV :
         /\ bytes_read' = m
         /\ \/ Plain(m)
            \/ chunked # 0 /\ (AtLf(m) \/ AtCr(m) \/ Inside(m))
         /\ Within(m)
    /\ UNCHANGED chunked

\* A buffer that reaches a size line.
ReceiveLine ==
    /\ cpc = "idle" /\ ~ended /\ chunked # 0
    /\ \E m \in 1..RECV : m > cchunk /\ bytes_read' = m
    /\ cpc' = "more"
    /\ payload' = {} /\ passed' = {} /\ tail' = 0
    /\ UNCHANGED <<chunked, cchunk, source, lost>>

\* The buffer is too short to hold the size line for sure.  Mutant: or just long
\* enough.
ShortOrEqual == bytes_read <= cchunk + SECURE
Short == bytes_read < cchunk + SECURE

\* recv again.  When the station has closed it returns 0 or -1, and the loop
\* goes round without end.
More ==
    /\ cpc = "more" /\ Short /\ ~ended
    /\ bytes_read' \in bytes_read + 1..RECV + SECURE
    /\ UNCHANGED <<chunked, cchunk, cpc, source, payload, passed, lost, tail>>

\* Bytes of payload in the buffer before the size line.
Kept == IF cchunk > 1 THEN cchunk - 2 ELSE 0

\* The length of the buffer without the size line and CR LF.  Mutant: without
\* two bytes even if only the LF is left.
LenAlways(h) == bytes_read - h - 2
Len(h) == bytes_read - h - (IF cchunk > 1 THEN 2 ELSE cchunk)

\* What cchunk is after a chunk of size s of which lc bytes are in the buffer:
\* it wraps if they are more than the chunk has.
Rest(s, lc) == (s + 2 - lc) % WORD

\* The size line has h bytes and says s; lc bytes follow it.  The station is in
\* the new chunk, or, if that is over too, somewhere: what is taken for a size
\* line from then on may have any length and size.
Parse ==
    /\ cpc = "more" /\ ~Short
    /\ \E h \in LineLens, s \in Sizes :
         LET lc == bytes_read - cchunk - h IN
         /\ chunked' = s + 2
         /\ cchunk' = Rest(s, lc)
         /\ passed' = 0..Kept - 1 \cup
                      {i + (bytes_read - lc) - Kept : i \in Kept..Len(h) - 1}
         /\ payload' = 0..togo - 3 \cup togo + h..togo + h + Lesser(s, lc) - 1
         /\ lost' = (lost \/ lc > s + 2)
         /\ togo' = IF lost' THEN 0 ELSE s + 2 - lc
         /\ tail' = IF lc > s THEN Lesser(2, lc - s) ELSE 0
    /\ cpc' = "idle"
    /\ UNCHANGED <<bytes_read, encoded, ended>>

\* The station closes; clientTask sees it when it next waits for a buffer.
End == /\ cpc \in {"idle", "more"} /\ ~ended
       /\ ended' = TRUE
       /\ UNCHANGED <<coding, encoded, togo, payload, passed, lost, tail>>
SeeEnd == /\ cpc = "idle" /\ ended
          /\ cpc' = "over"
          /\ UNCHANGED <<chunked, cchunk, bytes_read, source, payload, passed, lost, tail>>

ChunkNext == HeaderEnds \/ ReceiveWithin \/ ReceiveLine \/ More \/ Parse \/ End \/ SeeEnd

\* clientTask has the highest priority of the radio's tasks.
ChunkSpec == ChunkInit /\ [][ChunkNext]_chunkVars /\ WF_chunkVars(Parse) /\ WF_chunkVars(SeeEnd)

-----------------------------------------------------------------------------
(* Properties *)

\* Types.  No buffer is larger than bufrec.
ChunkTypeOK ==
    /\ chunked \in 0..WORD - 1 /\ cchunk \in 0..WORD - 1
    /\ cpc \in {"idle", "more", "wait", "fault", "over"}
    /\ bytes_read \in 0..RECV + SECURE
    /\ encoded \in BOOLEAN /\ ended \in BOOLEAN /\ lost \in BOOLEAN
    /\ togo \in Nat /\ tail \in 0..2
    /\ payload \subseteq 0..bytes_read - 1

\* However recv cuts the stream, the callback knows where the next size line is
\* when it waits for a buffer, unless a chunk began and ended in one buffer.
InStep == encoded /\ ~lost /\ cpc \in {"idle", "more"} => cchunk = togo

\* Up to there exactly the payload is passed on; when the new chunk's CR or CR LF
\* is the end of the buffer, it is passed on too.
PayloadPassed ==
    cpc = "idle" /\ ~lost =>
        passed = payload \cup (IF tail > 0 THEN bytes_read - tail..bytes_read - 1 ELSE {})

\* The callback waits for room for a negative length, for ever, only when an LF
\* came alone.
WaitsForLoneLf == cpc = "wait" /\ ~lost => bytes_read = 1 /\ payload = {} /\ togo = 0

\* When the station closes, clientTask leaves the session, unless it closes in
\* the SECURE bytes after a chunk, as every station does after its last chunk:
\* 0, CR LF, CR LF.
EndIsSeen ==
    ended ~> \/ cpc \in {"over", "fault", "wait"} \/ ~ended
             \/ cpc = "more" /\ bytes_read - cchunk < SECURE
=============================================================================
