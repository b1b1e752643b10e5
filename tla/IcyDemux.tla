------------------------------ MODULE IcyDemux ------------------------------
(***************************************************************************)
(* How clientReceiveCallback (webclient.c, state C_DATA, no transfer       *)
(* encoding) takes the ICY metadata out of the stream.  In a session with  *)
(* metadata the station sends METAINT audio bytes, a length byte, so many  *)
(* times 16 bytes of metadata, METAINT audio bytes, and so on; TCP cuts    *)
(* this into chunks anywhere.  The callback keeps metad, the audio bytes to*)
(* the next length byte, and rest, which when negative is what is missing  *)
(* of a metadata block that a chunk cut in two.                            *)
(*                                                                         *)
(* Data.  A byte of a chunk is its index in the chunk; what counts is which*)
(* of them are audio (known from where the station is: left, mleft) and    *)
(* which go to the ring.  The ring may be full: before every write         *)
(* clientTask sleeps and another task runs.  clientDisconnect of such a    *)
(* task clears the header, metaint with it, and tells clientTask to leave. *)
(***************************************************************************)
EXTENDS Integers

CONSTANTS METAINT,   \* audio bytes between two metadata blocks
          RECEIVE,   \* bytes of a chunk at most (2000)
          MetaLens   \* lengths of a metadata block (multiples of 16)

\* A chunk has at most one length byte.
ASSUME DemuxAssumption ==
    /\ RECEIVE \in Nat \ {0} /\ METAINT \in Nat /\ RECEIVE <= METAINT
    /\ MetaLens \subseteq Nat

VARIABLES metad, rest, metaint,  \* static variables of the callback, header
          dpc, len,              \* where it sleeps, its length of the chunk
          told,                  \* clientTask was told to disconnect
          icy, left, mleft,      \* the station: does it send metadata, audio
                                 \* bytes to its next length byte, metadata
                                 \* bytes to its next audio byte
          audio, wrote,          \* of this chunk: audio bytes, bytes written
          harm                   \* what is wrong with this chunk, or "none"

code    == <<metad, rest, metaint, dpc, len>>
station == <<icy, left, mleft>>
vars    == <<code, told, station, audio, wrote, harm>>

Least(x, y) == IF x < y THEN x ELSE y

Init == /\ metad = -1 /\ rest = 0 /\ metaint = 0
        /\ dpc = "over" /\ len = 0 /\ told = FALSE
        /\ icy = FALSE /\ left = 0 /\ mleft = 0
        /\ audio = {} /\ wrote = {} /\ harm = "none"

-----------------------------------------------------------------------------
\* A connection begins: its header, with or without icy-metaint, was received.
\* rest keeps its value.
NewSession ==
    /\ dpc \in {"idle", "over"}
    /\ icy' \in BOOLEAN
    /\ metaint' = IF icy' THEN METAINT ELSE 0
    /\ metad' = IF icy' THEN METAINT ELSE -1
    /\ left' = (IF icy' THEN METAINT ELSE 0) /\ mleft' = 0
    /\ dpc' = "idle" /\ len' = 0 /\ told' = FALSE
    /\ audio' = {} /\ wrote' = {} /\ harm' = "none"
    /\ UNCHANGED rest

\* What the station sends in n bytes, its next metadata block having l.
Send(n, l) ==
    IF ~icy THEN audio' = 0..n - 1 /\ UNCHANGED station
    ELSE LET m0 == Least(mleft, n)            \* the end of a metadata block
             a0 == Least(left, n - m0)        \* audio
             m1 == Least(l, n - m0 - a0 - 1)  \* a length byte, metadata
         IN  IF m0 + a0 = n
             THEN /\ audio' = m0..n - 1
                  /\ left' = left - a0 /\ mleft' = mleft - m0
                  /\ UNCHANGED icy
             ELSE /\ audio' = (m0..m0 + a0 - 1) \cup (m0 + a0 + 1 + m1..n - 1)
                  /\ left' = METAINT - (n - m0 - a0 - 1 - m1)
                  /\ mleft' = l - m1
                  /\ UNCHANGED icy

\* The byte of the chunk that has the length of a metadata block, if any.
LengthByte == IF icy THEN mleft + left ELSE -1

\* A chunk with the end of a metadata block, or one that is taken for such, or
\* one that is not searched for metadata although it may have some.
Harm == IF icy /\ metaint = 0 THEN "cleared"
        ELSE IF mleft > 0 THEN "split"
        ELSE IF rest < 0 THEN "staleRest" ELSE "none"

\* n bytes reach beyond the audio.
Reaches(n) == metaint # 0 /\ n > metad

\* The bytes after a metadata block of v bytes.  Mutants: the length byte is not
\* counted; the length is taken twice.
RestWithLength(n, v) == n - metad - v
RestTwice(n, v) == n - metad - 2 * v - 1
RestOf(n, v) == n - metad - v - 1

\* clientReceiveCallback up to where it waits for room in the ring.  Nothing is
\* left of a chunk that was only the framing of a transfer encoding.
Receive ==
    /\ dpc = "idle"
    /\ \E n \in 0..RECEIVE, l \in MetaLens :
         /\ Send(n, l)
         /\ IF Reaches(n)
            THEN \E v \in IF metad = LengthByte THEN {l} ELSE MetaLens :
                   /\ rest' = RestOf(n, v)
                   /\ dpc' = "first" /\ len' = n
                   /\ UNCHANGED metad
            ELSE /\ dpc' = "plain"
                 /\ len' = n + Least(rest, 0)
                 /\ metad' = metad + Least(rest, 0) - (IF metaint # 0 THEN len' ELSE 0)
                 /\ rest' = IF rest < 0 THEN 0 ELSE rest
    /\ wrote' = {} /\ harm' = Harm
    /\ UNCHANGED <<metaint, told>>

\* The callback returns; clientTask leaves if it was told to.
Return == dpc' = IF told THEN "over" ELSE "idle"

\* Mutant of WriteFirst: the audio after the metadata is not subtracted.
WriteFirstOnly ==
    /\ dpc = "first"
    /\ wrote' = 0..metad - 1
    /\ metad' = metaint
    /\ IF rest > 0 THEN dpc' = "second" ELSE Return
    /\ UNCHANGED <<rest, metaint, len, told, station, audio, harm>>

\* The audio before the length byte.
WriteFirst ==
    /\ dpc = "first"
    /\ wrote' = 0..metad - 1
    /\ metad' = metaint - rest
    /\ IF rest > 0 THEN dpc' = "second" ELSE Return
    /\ UNCHANGED <<rest, metaint, len, told, station, audio, harm>>

\* The audio after the metadata.
WriteRest ==
    /\ dpc = "second"
    /\ wrote' = wrote \cup (len - rest..len - 1)
    /\ rest' = 0
    /\ Return
    /\ UNCHANGED <<metad, metaint, len, told, station, audio, harm>>

\* A chunk without a length byte.  getBufferFree is unsigned: there is never
\* room for a negative length.
WritePlain ==
    /\ dpc = "plain" /\ len >= 0
    /\ wrote' = rest..rest + len - 1
    /\ Return
    /\ UNCHANGED <<metad, rest, metaint, len, told, station, audio, harm>>

\* clientDisconnect of another task, while clientTask sleeps: sDisconnect,
\* clearHeaders.
Disconnect ==
    /\ dpc # "over" /\ ~told
    /\ told' = TRUE /\ metaint' = 0
    /\ UNCHANGED <<metad, rest, dpc, len, station, audio, wrote, harm>>

Write == WriteFirst \/ WriteRest \/ WritePlain
Next == NewSession \/ Receive \/ Write \/ Disconnect

\* vsTask makes room.
Spec == Init /\ [][Next]_vars /\ WF_vars(Write)

-----------------------------------------------------------------------------
(* Properties *)

\* Types.  Where the callback looks for a length byte, there is one in the
\* chunk, and what it writes is in the chunk: no index is out of bounds.
TypeOK ==
    /\ metad \in Int /\ rest \in Int /\ metaint \in {0, METAINT}
    /\ dpc \in {"idle", "first", "second", "plain", "over"}
    /\ len \in Int /\ len <= RECEIVE
    /\ told \in BOOLEAN /\ icy \in BOOLEAN
    /\ left \in 0..METAINT /\ mleft \in Nat
    /\ harm \in {"none", "split", "staleRest", "cleared"}
    /\ dpc = "first" => metad \in 0..len - 1 /\ rest < len - metad
    /\ dpc = "second" => rest \in 1..len

\* The callback never loses its place in the stream, however TCP cuts it, even
\* where it writes the wrong bytes: when it waits for a chunk, metad tells where
\* the next length byte is and a negative rest how much of a metadata block is
\* missing (or was, in the session before).
InSync ==
    icy /\ ~told /\ dpc = "idle" =>
        /\ metaint = METAINT
        /\ \/ mleft = 0 /\ metad = left
           \/ mleft = -rest /\ left = METAINT /\ metad = METAINT + mleft

\* Of a chunk that does not begin with the end of a metadata block exactly the
\* audio bytes go to the ring.
OnlyAudio ==
    dpc \in {"idle", "over"} /\ harm = "none" => wrote = audio

\* clientTask waits for room for a negative length, which never comes, only
\* when a chunk is metadata throughout, or rest is left from another session.
WaitCanEnd ==
    dpc = "plain" /\ len < 0 => \/ harm = "split" /\ audio = {}
                                \/ harm \in {"staleRest", "cleared"}
=============================================================================
