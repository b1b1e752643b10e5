---------------------------- MODULE AudioBuffer ----------------------------
(***************************************************************************)
(* The audio path: buffer.c's ring buffer in the external serial RAM, its  *)
(* writer (clientTask, priority 5, through clientReceiveCallback) and its  *)
(* reader (vsTask, priority 4), which share wptr, rptr, bempty, playing    *)
(* and the SPI bus.  Only the bus has a lock.                              *)
(*                                                                         *)
(* Scheduling.  clientTask has the highest application priority: it is     *)
(* never interrupted by vsTask except where it blocks (recv, vTaskDelay,   *)
(* the SPI semaphore), so what it does between two of these is one action. *)
(* vsTask can lose the processor between any two accesses to a shared      *)
(* variable, so its bufferRead is one action per access.                   *)
(*                                                                         *)
(* Data.  A byte is labelled with its position in the stream of the current*)
(* connection, or Stale when a connection that is over left it behind.     *)
(* The labels, wpos, rpos, heard and slip are history: no action depends on*)
(* them, except that wpos ends a stream after StreamLen bytes.  slip is the*)
(* first task switch since the last clean reset that hurt the ring; after  *)
(* it the labels mean nothing and are forgotten.                           *)
(***************************************************************************)
EXTENDS Integers, Sequences

CONSTANTS BUFFER_SIZE,  \* bytes in the ring (131072)
          VSTASKBUF,    \* bytes of vsTask's local buffer (1000)
          RECEIVE,      \* most audio bytes of one received chunk (2000)
          SDI_BURST,    \* bytes the decoder takes per DREQ (32)
          StreamLen     \* bytes a connection delivers before it ends

ASSUME BufferAssumption ==
    /\ BUFFER_SIZE \in Nat \ {0}
    /\ VSTASKBUF \in Nat \ {0}
    /\ SDI_BURST \in Nat \ {0}
    /\ StreamLen \in Nat
    \* One chunk fits in the third of the buffer that is free before playing.
    /\ RECEIVE \in Nat \ {0} /\ RECEIVE <= BUFFER_SIZE \div 3
    /\ VSTASKBUF <= BUFFER_SIZE

Stale == -1

\* Playback starts when less than this is free.  Mutant: only when it is full.
StartWhenFull == 1
StartLevel == BUFFER_SIZE \div 3

Slots == 0..BUFFER_SIZE - 1

VARIABLES
    \* buffer.c, extram.c, webclient.c, spi.c
    wptr, rptr, bempty,   \* the ring's indices and its "empty" flag
    sram,                 \* the external RAM: slot -> byte
    playing,              \* set by clientTask, polled by vsTask
    sSPI,                 \* holder of the SPI semaphore, or "free"
    \* clientTask: where it blocks, the write it is in, the one that follows
    cpc, csize, crest,
    \* vsTask: where it is, its size and pointer register, its local buffer b
    vpc, vsize, vreg, b,
    \* history
    wpos, rpos, heard,    \* bytes written, read and sent to the decoder
    slip                  \* the window a task switch fell into, or "none"

ring  == <<wptr, rptr, bempty, sram>>
cvars == <<cpc, csize, crest>>
vvars == <<vpc, vsize, vreg, b>>
hist  == <<wpos, rpos, heard, slip>>
vars  == <<ring, playing, sSPI, cvars, vvars, hist>>

\* Mutant: the clamp is forgotten.
LeastFirst(x, y) == x
Least(x, y) == IF x < y THEN x ELSE y

\* `if (p >= BUFFER_SIZE) p -= BUFFER_SIZE', and how the RAM's sequential mode
\* addresses the byte after its last one.
Wrap(p) == IF p >= BUFFER_SIZE THEN p - BUFFER_SIZE ELSE p

\* Mutant: equal indices always mean an empty ring.
FreeIgnoresFlag(w, r, e) ==
    IF w > r THEN BUFFER_SIZE - w + r
    ELSE IF w < r THEN r - w
    ELSE BUFFER_SIZE

getBufferFree(w, r, e) ==
    IF w > r THEN BUFFER_SIZE - w + r
    ELSE IF w < r THEN r - w
    ELSE IF e THEN BUFFER_SIZE ELSE 0

Free == getBufferFree(wptr, rptr, bempty)

Init == /\ wptr = 0 /\ rptr = 0 /\ bempty = TRUE
        /\ sram = [s \in Slots |-> Stale]
        /\ playing = FALSE
        /\ sSPI = "free"
        /\ cpc = "idle" /\ csize = 0 /\ crest = 0
        /\ vpc = "poll" /\ vsize = 0 /\ vreg = 0 /\ b = <<>>
        /\ wpos = 0 /\ rpos = 0 /\ heard = 0 /\ slip = "none"

-----------------------------------------------------------------------------
(* clientTask *)

\* bufferRead has its last value of rptr, and its test `rptr == wptr' to come.
RptrFinal == \/ vpc \in {"wrap", "check", "mark"}
             \/ vpc \in {"take", "xfer", "add", "store"} /\ vsize = 0

\* The windows in which a write goes wrong.  A write of nothing into an empty
\* ring needs no second task.  The others fall into vsTask's bufferRead: the
\* empty flag is about to be loaded for indices that were equal; rptr is stored
\* but not yet wrapped; the write fills the ring up to an rptr that bufferRead
\* is about to compare with wptr.
WriteSlip(n) ==
    IF n = 0 /\ wptr = rptr /\ bempty THEN "emptyWrite"
    ELSE IF vpc = "test" /\ n > 0 THEN "writeBeforeTest"
    ELSE IF vpc = "wrap" /\ wptr + n >= BUFFER_SIZE THEN "writeBeforeWrap"
    ELSE IF RptrFinal /\ n > 0 /\ Wrap(wptr + n) = Wrap(rptr)
         THEN "fullBeforeMark"
    ELSE "none"

Forget == /\ sram' = [s \in Slots |-> Stale]
          /\ b' = [i \in 1..Len(b) |-> Stale]
          /\ wpos' = 0 /\ rpos' = 0 /\ heard' = 0

\* The slots from wptr on that n bytes fill: slot s gets byte wpos + Ahead(s).
\* Mutant: the transfer misses its first slot.
AheadOneFewer(s) == IF s > wptr THEN s - wptr ELSE s + BUFFER_SIZE - wptr
Ahead(s) == IF s >= wptr THEN s - wptr ELSE s + BUFFER_SIZE - wptr

\* bufferWrite once it holds the bus: the transfer, then wptr and bempty.
Commit(n) ==
    /\ wptr' = Wrap(wptr + n)
    /\ bempty' = FALSE
    /\ slip' = IF slip = "none" THEN WriteSlip(n) ELSE slip
    /\ IF slip' = "none"
       THEN /\ sram' = [s \in Slots |->
                          IF Ahead(s) < n THEN wpos + Ahead(s) ELSE sram[s]]
            /\ wpos' = wpos + n
            /\ UNCHANGED <<b, rpos, heard>>
       ELSE Forget

\* What clientReceiveCallback does after a write: the second part of the
\* chunk if there is one, else the start of playback and back to recv.
AfterWrite(rest) ==
    IF rest > 0
    THEN cpc' = "space" /\ csize' = rest /\ crest' = 0 /\ UNCHANGED playing
    ELSE /\ cpc' = "idle" /\ csize' = 0 /\ crest' = 0
         /\ playing' = (playing \/ getBufferFree(wptr', rptr, bempty') < StartLevel)

\* A chunk of audio bytes came in.  With metadata its first part, which may be
\* empty, goes to the buffer even so; without, an empty chunk is not written.
Receive ==
    /\ cpc = "idle"
    /\ \E n1 \in 0..RECEIVE, n2 \in 0..RECEIVE, meta \in BOOLEAN :
         /\ n1 + n2 <= RECEIVE /\ wpos + n1 + n2 <= StreamLen
         /\ meta \/ (n1 > 0 /\ n2 = 0)
         /\ cpc' = "space" /\ csize' = n1 /\ crest' = n2
    /\ UNCHANGED <<ring, playing, sSPI, vvars, hist>>

\* `while (getBufferFree() < n) vTaskDelay(1);' then bufferWrite up to the bus:
\* the size is clamped and the address is fixed; if the bus is free the write
\* is done at once, else clientTask blocks on the semaphore.
Poll ==
    /\ cpc = "space"
    /\ Free >= csize
    /\ LET n == Least(csize, Free) IN
       IF sSPI = "free"
       THEN Commit(n) /\ AfterWrite(crest)
       ELSE /\ cpc' = "bus" /\ csize' = n
            /\ UNCHANGED <<wptr, bempty, sram, playing, crest, b, hist>>
    /\ UNCHANGED <<rptr, sSPI, vpc, vsize, vreg>>

\* The semaphore was given back: clientTask takes it before anyone else runs.
WriteWhenFree ==
    /\ cpc = "bus" /\ sSPI = "free"
    /\ Commit(csize) /\ AfterWrite(crest)
    /\ UNCHANGED <<rptr, sSPI, vpc, vsize, vreg>>

InRead == {"take", "xfer", "add", "store", "wrap"}

\* The end of clientTask's loop: bufferReset(); playing = 0.  Every byte still
\* in the RAM or in vsTask's hands belongs to a connection that is over.  A
\* reset that meets a read between its size and its last store of rptr leaves
\* rptr beyond a wptr of 0: a ring that looks almost full.
Disconnect ==
    /\ cpc = "idle"
    /\ wptr' = 0 /\ rptr' = 0 /\ bempty' = TRUE
    /\ playing' = FALSE
    /\ Forget
    /\ slip' = IF vpc \in InRead THEN "resetInRead" ELSE "none"
    /\ UNCHANGED <<sSPI, cvars, vpc, vsize, vreg>>

Client == Receive \/ Poll \/ WriteWhenFree \/ Disconnect

-----------------------------------------------------------------------------
(* vsTask.  It runs only while clientTask is blocked. *)

ClientBlocked == ~(cpc = "bus" /\ sSPI = "free")

\* while (1): look at playing, or sleep.
Look == /\ vpc = "poll" /\ playing
        /\ vpc' = "load"
        /\ UNCHANGED <<vsize, vreg, b, ring, sSPI, hist>>

\* bufferRead, getBufferFilled: both indices are loaded and compared.  The
\* size is known unless they are equal.  rptr becomes the address to read.
Load == /\ vpc = "load"
        /\ vreg' = rptr
        /\ IF wptr = rptr
           THEN vpc' = "test" /\ UNCHANGED vsize
           ELSE /\ vpc' = "take"
                /\ vsize' = Least(VSTASKBUF, BUFFER_SIZE - Free)
        /\ UNCHANGED <<b, ring, sSPI, hist>>

\* getBufferFree's last line: bempty, loaded after the comparison.
Test == /\ vpc = "test"
        /\ vsize' = IF bempty THEN 0 ELSE Least(VSTASKBUF, BUFFER_SIZE)
        /\ vpc' = "take"
        /\ UNCHANGED <<vreg, b, ring, sSPI, hist>>

\* extramRead: take the bus, clock the bytes out of the RAM, give the bus.
TakeBus == /\ vpc = "take" /\ sSPI = "free"
           /\ sSPI' = "vs" /\ vpc' = "xfer"
           /\ UNCHANGED <<vsize, vreg, b, ring, hist>>

Transfer == /\ vpc = "xfer"
            /\ b' = [i \in 1..vsize |-> sram[Wrap(vreg + i - 1)]]
            /\ sSPI' = "free" /\ vpc' = "add"
            /\ UNCHANGED <<vsize, vreg, ring, hist>>

\* rptr += size: the load and the sum ...
Add == /\ vpc = "add"
       /\ vreg' = rptr + vsize /\ vpc' = "store"
       /\ UNCHANGED <<vsize, b, ring, sSPI, hist>>

\* ... and the store.  The compiler may store the sum and then its wrapped
\* value, or only the latter.
Store == /\ vpc = "store"
         /\ \/ rptr' = vreg /\ vpc' = "wrap" /\ UNCHANGED vreg
            \/ rptr' = Wrap(vreg) /\ vreg' = Wrap(vreg) /\ vpc' = "check"
         /\ rpos' = IF slip = "none" THEN rpos + vsize ELSE rpos
         /\ UNCHANGED <<vsize, b, wptr, bempty, sram, sSPI, wpos, heard, slip>>

WrapPtr == /\ vpc = "wrap"
           /\ vreg' = Wrap(vreg)
           /\ rptr' = IF vreg >= BUFFER_SIZE THEN Wrap(vreg) ELSE rptr
           /\ vpc' = "check"
           /\ UNCHANGED <<vsize, b, wptr, bempty, sram, sSPI, hist>>

\* if (rptr == wptr) bempty = 1: the test and the store.
Check == /\ vpc = "check"
         /\ vpc' = IF vreg = wptr THEN "mark" ELSE "send"
         /\ UNCHANGED <<vsize, vreg, b, ring, sSPI, hist>>

\* Mutant: the flag of an emptied ring stays down.
MarkLost == /\ vpc = "mark" /\ vpc' = "send"
            /\ UNCHANGED <<vsize, vreg, b, ring, sSPI, hist>>

Mark == /\ vpc = "mark"
        /\ bempty' = TRUE /\ vpc' = "send"
        /\ UNCHANGED <<vsize, vreg, b, wptr, rptr, sram, sSPI, hist>>

\* VS1053_SendMusicBytes: nothing to send, or take the bus and keep it until
\* the decoder has asked for the last burst.
Send == /\ vpc = "send"
        /\ IF b = <<>> THEN vpc' = "poll" /\ UNCHANGED sSPI
           ELSE sSPI = "free" /\ sSPI' = "vs" /\ vpc' = "burst"
        /\ UNCHANGED <<vsize, vreg, b, ring, hist>>

\* Mutant: the last burst does not give the bus back.
BurstKeepsBus ==
    /\ vpc = "burst"
    /\ LET t == Least(SDI_BURST, Len(b)) IN
       /\ b' = SubSeq(b, t + 1, Len(b))
       /\ heard' = heard + (IF b[1] = Stale THEN 0 ELSE t)
    /\ vpc' = IF b' = <<>> THEN "poll" ELSE vpc
    /\ UNCHANGED <<sSPI, vsize, vreg, ring, wpos, rpos, slip>>

Burst == /\ vpc = "burst"
         /\ LET t == Least(SDI_BURST, Len(b)) IN
            /\ b' = SubSeq(b, t + 1, Len(b))
            /\ heard' = heard + (IF b[1] = Stale THEN 0 ELSE t)
         /\ IF b' = <<>> THEN vpc' = "poll" /\ sSPI' = "free"
            ELSE UNCHANGED <<vpc, sSPI>>
         /\ UNCHANGED <<vsize, vreg, ring, wpos, rpos, slip>>

VsStep == Look \/ Load \/ Test \/ TakeBus \/ Transfer \/ Add \/ Store
            \/ WrapPtr \/ Check \/ Mark \/ Send \/ Burst

VsTask == ClientBlocked /\ VsStep /\ UNCHANGED <<playing, cvars>>

-----------------------------------------------------------------------------
(* Any other task that talks to the decoder's registers (volume, tone). *)

OtherTake == /\ ClientBlocked /\ sSPI = "free" /\ sSPI' = "other"
             /\ UNCHANGED <<ring, playing, cvars, vvars, hist>>

OtherGive == /\ sSPI = "other" /\ sSPI' = "free"
             /\ UNCHANGED <<ring, playing, cvars, vvars, hist>>

Next == Client \/ VsTask \/ OtherTake \/ OtherGive

\* clientTask polls every tick and takes a bus that is given back; vsTask gets
\* the processor whenever clientTask blocks, though it may lose it again and
\* may find the bus taken, any number of times but not for ever, since the
\* other tasks make a few transfers per request; and a transfer ends.  Nothing
\* obliges the network to deliver, nor a connection to end.
Fairness == /\ WF_vars(Poll) /\ WF_vars(WriteWhenFree)
            /\ SF_vars(VsTask) /\ WF_vars(OtherGive)

Spec == Init /\ [][Next]_vars
FairSpec == Spec /\ Fairness

-----------------------------------------------------------------------------
(* Properties *)

ClientPC == {"idle", "space", "bus"}
VsPC == {"poll", "load", "test", "take", "xfer", "add", "store", "wrap",
         "check", "mark", "send", "burst"}
Slips == {"none", "emptyWrite", "writeBeforeTest", "writeBeforeWrap",
          "fullBeforeMark", "resetInRead"}
Bytes == {Stale} \cup Nat

\* Types and ranges, in every interleaving: wptr always is a slot, rptr is one
\* but for the instant before its wrap, and a read fits vsTask's local buffer.
TypeOK ==
    /\ wptr \in Slots
    /\ rptr \in 0..2 * BUFFER_SIZE - 1 /\ (vpc # "wrap" => rptr \in Slots)
    /\ bempty \in BOOLEAN /\ playing \in BOOLEAN
    /\ sram \in [Slots -> Bytes]
    /\ sSPI \in {"free", "vs", "other"}
    /\ cpc \in ClientPC /\ csize \in 0..RECEIVE /\ crest \in 0..RECEIVE
    /\ vpc \in VsPC /\ vsize \in 0..VSTASKBUF
    /\ vreg \in 0..2 * BUFFER_SIZE - 1
    /\ b \in Seq(Bytes) /\ Len(b) <= VSTASKBUF
    /\ wpos \in Nat /\ rpos \in Nat /\ heard \in Nat
    /\ slip \in Slips

Held == wpos - rpos

\* Between bufferRead's store of rptr and the end of its test of `rptr ==
\* wptr', a ring that the read emptied still has its flag down.
Unmarked == vpc \in {"wrap", "check", "mark"}

\* Outside the five windows the indices and the flag tell the writer the truth
\* (or, before the flag is up, that less room is left than there is), so the
\* ring never holds more than BUFFER_SIZE bytes nor less than none, and the
\* held slots have the unread bytes of this connection in stream order.
RingHoldsStream ==
    slip = "none" =>
      /\ Held \in 0..BUFFER_SIZE
      /\ \/ Free = BUFFER_SIZE - Held
         \/ Unmarked /\ Held = 0 /\ Free = 0
      /\ \A i \in 0..Held - 1 : sram[Wrap(Wrap(rptr) + i)] = rpos + i

\* What vsTask holds to send is the stream without a gap or a repetition: the
\* bytes that follow those the decoder has heard, or (if the connection was
\* reset meanwhile) bytes of the connection that is over.
DecoderHearsStream ==
    slip = "none" =>
      \/ \A i \in 1..Len(b) : b[i] = heard + i - 1
      \/ \A i \in 1..Len(b) : b[i] = Stale

\* clientTask waits for room only while vsTask is playing, or is about to raise
\* the flag of a ring it emptied: else nobody would make room, and clientTask,
\* the only task that starts the decoder and resets the buffer, would sleep
\* for ever.
WaitsOnlyWhilePlaying ==
    slip = "none" /\ cpc = "space" /\ Free < csize => playing \/ Unmarked

\* A chunk that waits for room or for the bus is stored in the end.
ChunkIsStored ==
    [](cpc # "idle" => <>(cpc = "idle" \/ slip # "none"))

\* While the decoder runs, each byte in the ring reaches it, unless the
\* connection ends.
BytesAreHeard ==
    \A p \in 0..StreamLen - 1 :
        (playing /\ heard <= p /\ p < wpos)
          ~> (heard > p \/ ~playing \/ slip # "none")

\* The ring implements the bounded pipe: it is the pipe until a task switch
\* falls into a window, and again after a reset that meets no read.
Pipe == INSTANCE AudioPipe WITH put   <- wpos,
                                taken <- rpos,
                                sound <- (slip = "none")

PipeSpec == Pipe!Spec
=============================================================================
