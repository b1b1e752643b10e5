------------------------- MODULE AudioBuffer_proofs -------------------------
(***************************************************************************)
(* For every buffer, read, chunk and burst size: in every interleaving the *)
(* indices stay in the ring and a read fits vsTask's local buffer (TypeOK),*)
(* and until a task switch falls into one of the named windows the ring    *)
(* holds the stream, vsTask holds the stream, clientTask never waits for a *)
(* stopped decoder, and the ring implements the bounded pipe.              *)
(***************************************************************************)
EXTENDS AudioBuffer, TLAPS

\* How far slot s is ahead of the slot to read next.
Off(s) == IF s >= Wrap(rptr) THEN s - Wrap(rptr)
          ELSE s + BUFFER_SIZE - Wrap(rptr)

BeforeStore == vpc \in {"take", "xfer", "add", "store"}
NoData == vpc \in {"poll", "load", "test", "take", "xfer"}

\* clientTask's chunk, in every interleaving: between two chunks there is none.
ChunkInv == /\ csize + crest <= RECEIVE
            /\ cpc = "idle" => csize = 0 /\ crest = 0

\* vsTask's local buffer, in every interleaving: it is sent to the last byte.
EmptyInv == /\ NoData => b = <<>>
            /\ vpc = "burst" => b # <<>>

\* A write that waits for the bus still fits.
RoomInv == cpc = "bus" => csize <= BUFFER_SIZE - Held

\* wptr and the flag against the number of bytes held.
IndexInv ==
    /\ Held \in 0..BUFFER_SIZE
    /\ wptr = Wrap(Wrap(rptr) + Held)
    /\ vpc = "wrap" /\ rptr >= BUFFER_SIZE => wptr = rptr - BUFFER_SIZE + Held
    /\ wptr = Wrap(rptr) => /\ bempty => Held = 0
                            /\ ~bempty => Held = BUFFER_SIZE \/ Unmarked
    /\ Unmarked \/ (BeforeStore /\ vsize = 0) => Held < BUFFER_SIZE

\* vsTask's registers against the variables they were loaded from.
RegisterInv ==
    \* A reset may come between the load and the test of the flag: the flag is up.
    /\ vpc = "test" => wptr = rptr /\ (~bempty => vreg = rptr)
    /\ BeforeStore => vsize <= Held
    /\ vpc \in {"take", "xfer"} /\ vsize > 0 => vreg = rptr
    /\ vpc = "store" => vreg = rptr + vsize
    /\ vpc = "wrap" => vreg = rptr
    \* A reset may come between the store of rptr and its test, which then uses
    \* the old value; but then the flag is already up.
    /\ vpc = "check" /\ wptr = rptr /\ ~bempty => vreg = rptr

ContentInv == \A s \in Slots : Off(s) < Held => sram[s] = rpos + Off(s)

\* vsTask's local buffer against what was read and heard.
LocalInv ==
    /\ NoData => heard = rpos
    /\ vpc \in {"add", "store"} => Len(b) = vsize /\ heard = rpos
                                   /\ \A i \in 1..Len(b) : b[i] = heard + i - 1
    /\ ~NoData /\ vpc \notin {"add", "store"} =>
         \/ heard + Len(b) = rpos /\ \A i \in 1..Len(b) : b[i] = heard + i - 1
         \/ heard = rpos /\ \A i \in 1..Len(b) : b[i] = Stale

\* Before playback starts a third of the ring is free between two chunks.
StartInv ==
    ~playing => Held + csize + crest <=
                  IF cpc = "idle" THEN BUFFER_SIZE - StartLevel
                  ELSE BUFFER_SIZE

SoundInv == /\ IndexInv
            /\ RoomInv
            /\ RegisterInv
            /\ ContentInv
            /\ LocalInv
            /\ StartInv

\* The store of a wrapped value overwrites the unwrapped one, or a reset; and
\* the address of a transfer is a slot.
WrapInv == /\ vpc = "wrap" => rptr = vreg \/ rptr = 0
           /\ vpc \in {"test", "take", "xfer"} => vreg \in Slots

TypeInv == TypeOK /\ WrapInv

\* The inductive invariant: what holds in every interleaving, and what holds
\* until a task switch falls into a window.
IInv == /\ TypeInv /\ ChunkInv /\ EmptyInv
        /\ slip = "none" => SoundInv

-----------------------------------------------------------------------------
\* The VsStep actions leave clientTask's variables alone, and clientTask's
\* actions vsTask's registers: one name for each list.
USE DEF ring, cvars, vvars, hist

\* Wrapping brings an index that is at most one lap ahead back to a slot.
LEMMA WrapSlot ==
    ASSUME NEW p \in 0..2 * BUFFER_SIZE - 1
    PROVE  Wrap(p) \in Slots
  BY BufferAssumption DEF Wrap, Slots

\* getBufferFree is between 0 and the capacity for indices that are slots.
LEMMA FreeRange ==
    ASSUME NEW w \in Slots, NEW r \in Slots, NEW e \in BOOLEAN
    PROVE  getBufferFree(w, r, e) \in 0..BUFFER_SIZE
  BY BufferAssumption DEF getBufferFree, Slots

LEMMA StaleSeq ==
    ASSUME NEW q \in Seq(Bytes)
    PROVE  /\ [i \in 1..Len(q) |-> Stale] \in Seq(Bytes)
           /\ Len([i \in 1..Len(q) |-> Stale]) = Len(q)
  BY DEF Bytes, Stale

LEMMA CommitType ==
    ASSUME TypeInv, NEW n \in 0..RECEIVE, Commit(n)
    PROVE  /\ wptr' \in Slots
           /\ bempty' \in BOOLEAN
           /\ sram' \in [Slots -> Bytes]
           /\ b' \in Seq(Bytes) /\ Len(b') = Len(b)
           /\ wpos' \in Nat /\ rpos' \in Nat /\ heard' \in Nat
           /\ slip' \in Slips
  <1>1. wptr' \in Slots
    BY BufferAssumption, WrapSlot DEF Commit, TypeInv, TypeOK, Slots
  <1>2. slip' \in Slips
    BY DEF Commit, WriteSlip, TypeInv, TypeOK, Slips
  <1>3. CASE slip' = "none"
    <2>1. \A s \in Slots : Ahead(s) \in Nat
      BY BufferAssumption DEF Ahead, Slots, TypeInv, TypeOK
    <2>2. \A s \in Slots : wpos + Ahead(s) \in Bytes
      BY <2>1 DEF Bytes, TypeInv, TypeOK
    <2>3. sram' \in [Slots -> Bytes]
      BY <1>3, <2>2 DEF Commit, TypeInv, TypeOK
    <2>4. /\ bempty' = FALSE /\ wpos' = wpos + n
          /\ b' = b /\ rpos' = rpos /\ heard' = heard
      BY <1>3 DEF Commit
    <2>5. bempty' \in BOOLEAN
      BY <2>4
    <2>6. b' \in Seq(Bytes) /\ Len(b') = Len(b)
      BY <2>4 DEF TypeInv, TypeOK
    <2>7. wpos' \in Nat /\ rpos' \in Nat /\ heard' \in Nat
      BY <2>4, BufferAssumption DEF TypeInv, TypeOK
    <2> QED BY <1>1, <1>2, <2>3, <2>5, <2>6, <2>7
  <1>4. CASE slip' # "none"
    <2>1. Forget /\ bempty' = FALSE
      BY <1>4 DEF Commit
    <2>2. b' \in Seq(Bytes) /\ Len(b') = Len(b)
      BY <2>1, StaleSeq DEF Forget, TypeInv, TypeOK
    <2> QED BY <1>1, <1>2, <2>1, <2>2 DEF Forget, Bytes
  <1> QED BY <1>3, <1>4

\* TypeOK and WrapInv hold initially and every action keeps them.
LEMMA TypeStep == TypeInv /\ [Next]_vars => TypeInv'
  <1> SUFFICES ASSUME TypeInv, [Next]_vars PROVE TypeInv'
    OBVIOUS
  <1> USE DEF TypeInv
  <1>1. CASE Receive
    BY <1>1 DEF Receive, TypeOK, WrapInv, ClientPC
  <1>2. CASE Poll
    <2> DEFINE n == Least(csize, Free)
    <2>1. n \in 0..RECEIVE
      <3>1. Free \in Int
        BY BufferAssumption DEF Free, getBufferFree, TypeOK, Slots
      <3> QED BY <1>2, <3>1 DEF Poll, Least, TypeOK
    <2>2. CASE sSPI = "free"
      <3>1. Commit(n) /\ AfterWrite(crest)
        BY <1>2, <2>2 DEF Poll
      <3>2. UNCHANGED <<rptr, sSPI, vpc, vsize, vreg>>
        BY <1>2, <2>2 DEF Poll
      <3>3. cpc' \in ClientPC /\ csize' \in 0..RECEIVE /\ crest' \in 0..RECEIVE
        BY <3>1, BufferAssumption DEF AfterWrite, TypeOK, ClientPC
      <3>4. playing' \in BOOLEAN
        BY <3>1 DEF AfterWrite, TypeOK
      <3> HIDE DEF n
      <3> QED BY <2>1, <3>1, <3>2, <3>3, <3>4, CommitType DEF TypeOK, WrapInv
    <2>3. CASE sSPI # "free"
      BY <1>2, <2>1, <2>3 DEF Poll, TypeOK, WrapInv, ClientPC
    <2> QED BY <2>2, <2>3
  <1>3. CASE WriteWhenFree
    <2>1. csize \in 0..RECEIVE /\ Commit(csize) /\ AfterWrite(crest)
      BY <1>3 DEF WriteWhenFree, TypeOK
    <2>2. UNCHANGED <<rptr, sSPI, vpc, vsize, vreg>>
      BY <1>3 DEF WriteWhenFree
    <2>3. cpc' \in ClientPC /\ csize' \in 0..RECEIVE /\ crest' \in 0..RECEIVE
      BY <2>1, BufferAssumption DEF AfterWrite, TypeOK, ClientPC
    <2>4. playing' \in BOOLEAN
      BY <2>1 DEF AfterWrite, TypeOK
    <2> QED BY <2>1, <2>2, <2>3, <2>4, CommitType DEF TypeOK, WrapInv
  <1>4. CASE Disconnect
    <2>1. b' \in Seq(Bytes) /\ Len(b') = Len(b)
      BY <1>4, StaleSeq DEF Disconnect, Forget, TypeOK
    <2>2. bempty' \in BOOLEAN /\ playing' \in BOOLEAN
      BY <1>4 DEF Disconnect
    <2>3. sram' \in [Slots -> Bytes] /\ wpos' \in Nat /\ rpos' \in Nat /\ heard' \in Nat
      BY <1>4 DEF Disconnect, Forget, Bytes
    <2> QED BY <1>4, <2>1, <2>2, <2>3, BufferAssumption
            DEF Disconnect, Forget, TypeOK, WrapInv, Slots, Bytes, Stale, Slips
  <1>5. CASE VsTask
    <2> USE <1>5 DEF VsTask
    <2>1. CASE Look
      BY <2>1 DEF Look, TypeOK, WrapInv, VsPC
    <2>2. CASE Load
      <3>1. Free \in 0..BUFFER_SIZE
        BY <2>2, FreeRange DEF Load, Free, TypeOK
      <3>2. Least(VSTASKBUF, BUFFER_SIZE - Free) \in 0..VSTASKBUF
        BY <3>1, BufferAssumption DEF Least
      <3> QED BY <2>2, <3>2, BufferAssumption DEF Load, TypeOK, WrapInv, VsPC, Slots
    <2>3. CASE Test
      BY <2>3, BufferAssumption DEF Test, TypeOK, WrapInv, VsPC, Least
    <2>4. CASE TakeBus
      BY <2>4 DEF TakeBus, TypeOK, WrapInv, VsPC
    <2>5. CASE Transfer
      <3>1. \A i \in 1..vsize : sram[Wrap(vreg + i - 1)] \in Bytes
        BY <2>5, WrapSlot, BufferAssumption DEF Transfer, TypeOK, WrapInv, Slots
      <3>2. b' \in Seq(Bytes) /\ Len(b') = vsize
        BY <2>5, <3>1 DEF Transfer, TypeOK
      <3> QED BY <2>5, <3>2, BufferAssumption DEF Transfer, TypeOK, WrapInv, VsPC
    <2>6. CASE Add
      BY <2>6, BufferAssumption DEF Add, TypeOK, WrapInv, VsPC, Slots
    <2>7. CASE Store
      BY <2>7, WrapSlot, BufferAssumption DEF Store, TypeOK, WrapInv, VsPC, Slots
    <2>8. CASE WrapPtr
      BY <2>8, WrapSlot, BufferAssumption DEF WrapPtr, TypeOK, WrapInv, VsPC, Slots
    <2>9. CASE Check
      BY <2>9 DEF Check, TypeOK, WrapInv, VsPC
    <2>10. CASE Mark
      BY <2>10 DEF Mark, TypeOK, WrapInv, VsPC
    <2>11. CASE Send
      BY <2>11 DEF Send, TypeOK, WrapInv, VsPC
    <2>12. CASE Burst
      <3> DEFINE t == Least(SDI_BURST, Len(b))
      <3>1. t \in 0..Len(b)
        BY BufferAssumption DEF Least, TypeOK
      <3>2. b' \in Seq(Bytes) /\ Len(b') <= Len(b)
        BY <2>12, <3>1 DEF Burst, TypeOK
      <3>3. heard' \in Nat
        BY <2>12, <3>1 DEF Burst, TypeOK
      <3>4. vpc = "burst" /\ vpc' \in {"burst", "poll"} /\ sSPI' \in {"free", "vs", "other"}
        BY <2>12 DEF Burst, TypeOK
      <3>5. UNCHANGED <<vsize, vreg, ring, wpos, rpos, slip>>
        BY <2>12 DEF Burst
      <3> HIDE DEF t
      <3>6. TypeOK'
        BY <3>2, <3>3, <3>4, <3>5, BufferAssumption DEF TypeOK, VsPC
      <3>7. WrapInv'
        BY <3>4, <3>5 DEF WrapInv
      <3> QED BY <3>6, <3>7
    <2> QED BY <2>1, <2>2, <2>3, <2>4, <2>5, <2>6, <2>7, <2>8, <2>9, <2>10,
               <2>11, <2>12 DEF VsStep
  <1>6. CASE OtherTake
    BY <1>6 DEF OtherTake, TypeOK, WrapInv
  <1>7. CASE OtherGive
    BY <1>7 DEF OtherGive, TypeOK, WrapInv
  <1>8. CASE UNCHANGED vars
    BY <1>8 DEF vars, TypeOK, WrapInv
  <1> QED BY <1>1, <1>2, <1>3, <1>4, <1>5, <1>6, <1>7, <1>8 DEF Next, Client

-----------------------------------------------------------------------------
\* What the invariant says of the indices, in the terms the actions use: rptr,
\* once wrapped, is a slot; getBufferFree is exact or, before the flag of an
\* emptied ring is up, says that there is no room.
LEMMA FreeHeld ==
    ASSUME TypeInv, IndexInv
    PROVE  /\ Wrap(rptr) \in Slots
           /\ vpc # "wrap" => Wrap(rptr) = rptr
           /\ Free = BUFFER_SIZE - Held \/ (Unmarked /\ Held = 0 /\ Free = 0)
  <1>1. Wrap(rptr) \in Slots
    BY WrapSlot DEF TypeInv, TypeOK
  <1>2. vpc # "wrap" => Wrap(rptr) = rptr
    BY BufferAssumption DEF TypeInv, TypeOK, Wrap, Slots
  <1>3. Free = BUFFER_SIZE - Held \/ (Unmarked /\ Held = 0 /\ Free = 0)
    BY <1>1, <1>2, BufferAssumption
    DEF IndexInv, TypeInv, TypeOK, Wrap, Slots, Free, getBufferFree, Unmarked
  <1> QED BY <1>1, <1>2, <1>3

\* The slots that a write fills lie right behind the held ones.
LEMMA AheadOff ==
    ASSUME TypeInv, IndexInv, NEW s \in Slots
    PROVE  /\ Off(s) \in Slots
           /\ Ahead(s) = IF Off(s) < Held THEN Off(s) - Held + BUFFER_SIZE
                                          ELSE Off(s) - Held
  <1>1. Wrap(rptr) \in Slots
    BY FreeHeld
  <1> QED BY <1>1, BufferAssumption DEF IndexInv, TypeInv, TypeOK, Off, Ahead, Wrap, Slots, Held

\* A write that fits and falls into no window appends to the stream.
LEMMA CommitSound ==
    ASSUME TypeInv, SoundInv, slip = "none",
           NEW n \in 0..RECEIVE, n <= BUFFER_SIZE - Held,
           Commit(n), slip' = "none",
           UNCHANGED <<rptr, vpc, vsize, vreg>>
    PROVE  /\ IndexInv' /\ RegisterInv' /\ ContentInv' /\ LocalInv'
           /\ Held' = Held + n
  <1>1. /\ wptr' = Wrap(wptr + n) /\ bempty' = FALSE
        /\ wpos' = wpos + n /\ b' = b /\ rpos' = rpos /\ heard' = heard
        /\ sram' = [s \in Slots |->
                      IF Ahead(s) < n THEN wpos + Ahead(s) ELSE sram[s]]
    BY DEF Commit
  <1>2. WriteSlip(n) = "none"
    BY DEF Commit
  <1>3. Held' = Held + n /\ Held \in 0..BUFFER_SIZE /\ Held' \in 0..BUFFER_SIZE
    BY <1>1, BufferAssumption DEF Held, TypeInv, TypeOK, SoundInv, IndexInv
  <1>4. Wrap(rptr) \in Slots /\ Wrap(rptr') = Wrap(rptr) /\ wptr \in Slots
    BY FreeHeld DEF SoundInv, TypeInv, TypeOK
  <1>5. /\ n = 0 => ~(wptr = rptr /\ bempty)
        /\ n > 0 => vpc # "test"
        /\ n > 0 /\ vpc = "wrap" => wptr + n < BUFFER_SIZE
        /\ n > 0 /\ RptrFinal => Wrap(wptr + n) # Wrap(rptr)
    BY <1>2, <1>4, BufferAssumption DEF WriteSlip, Slots
  <1>6. wptr' = Wrap(Wrap(rptr) + Held')
    BY <1>1, <1>3, <1>4, BufferAssumption DEF SoundInv, IndexInv, Wrap, Slots
  <1>7. n = 0 => wptr' = wptr
    BY <1>1, <1>4, BufferAssumption DEF Wrap, Slots
  <1>8. Unmarked \/ (BeforeStore /\ vsize = 0) => Held' < BUFFER_SIZE
    <2>1. Unmarked \/ (BeforeStore /\ vsize = 0) => RptrFinal
      BY DEF Unmarked, BeforeStore, RptrFinal
    <2>2. Held' = BUFFER_SIZE => wptr' = Wrap(rptr)
      BY <1>4, <1>6, BufferAssumption DEF Wrap, Slots
    <2>3. CASE n = 0
      BY <1>3, <2>3, BufferAssumption DEF SoundInv, IndexInv
    <2>4. CASE n > 0
      BY <1>1, <1>3, <1>5, <2>1, <2>2, <2>4, BufferAssumption
    <2> QED BY <2>3, <2>4, BufferAssumption
  <1>9. IndexInv'
    <2>1. vpc' = "wrap" /\ rptr' >= BUFFER_SIZE => wptr' = rptr' - BUFFER_SIZE + Held'
      BY <1>1, <1>3, <1>4, <1>5, <1>7, BufferAssumption DEF SoundInv, IndexInv, Wrap, Slots
    <2>2. wptr' = Wrap(rptr') => Held' = BUFFER_SIZE \/ Unmarked'
      <3> SUFFICES ASSUME wptr' = Wrap(rptr), Held' # BUFFER_SIZE PROVE Unmarked
        BY <1>4 DEF Unmarked
      <3>1. Held' = 0 /\ n = 0 /\ Held = 0
        BY <1>3, <1>4, <1>6, BufferAssumption DEF Wrap, Slots
      <3>2. wptr = Wrap(rptr)
        BY <1>7, <3>1
      <3>3. CASE bempty
        BY <1>5, <3>1, <3>2, <3>3, FreeHeld DEF Unmarked, SoundInv
      <3>4. CASE ~bempty
        BY <3>1, <3>2, <3>4, BufferAssumption DEF SoundInv, IndexInv
      <3> QED BY <3>3, <3>4
    <2>3. (Unmarked \/ (BeforeStore /\ vsize = 0))' => Held' < BUFFER_SIZE
      BY <1>8 DEF Unmarked, BeforeStore
    <2> QED BY <1>1, <1>3, <1>4, <1>6, <2>1, <2>2, <2>3 DEF IndexInv
  <1>10. RegisterInv'
    <2>1. vpc' = "test" => wptr' = rptr' /\ (~bempty' => vreg' = rptr')
      BY <1>5, <1>7 DEF SoundInv, RegisterInv
    <2>2. vpc' = "check" /\ wptr' = rptr' /\ ~bempty' => vreg' = rptr'
      BY <1>1, <1>4, <1>5, <1>7, FreeHeld DEF SoundInv, RegisterInv, RptrFinal
    <2>3. BeforeStore' => vsize' <= Held'
      BY <1>3 DEF SoundInv, RegisterInv, BeforeStore, TypeInv, TypeOK
    <2> QED BY <2>1, <2>2, <2>3 DEF SoundInv, RegisterInv
  <1>11. ContentInv'
    <2> SUFFICES ASSUME NEW s \in Slots, Off(s)' < Held'
                 PROVE  sram'[s] = rpos' + Off(s)'
      BY DEF ContentInv
    <2>1. Off(s)' = Off(s) /\ Off(s) \in Slots
      BY <1>4, AheadOff DEF Off, SoundInv
    <2>2. CASE Off(s) < Held
      <3>1. ~(Ahead(s) < n)
        BY <1>3, <2>1, <2>2, AheadOff, BufferAssumption DEF SoundInv, Slots
      <3> QED BY <1>1, <2>1, <2>2, <3>1 DEF SoundInv, ContentInv
    <2>3. CASE ~(Off(s) < Held)
      <3>1. Ahead(s) = Off(s) - Held
        BY <2>3, AheadOff DEF SoundInv
      <3>2. Ahead(s) < n /\ wpos + Ahead(s) = rpos + Off(s)
        BY <1>3, <2>1, <3>1, BufferAssumption DEF Held, TypeInv, TypeOK, Slots
      <3> QED BY <1>1, <2>1, <3>2
    <2> QED BY <2>2, <2>3
  <1>12. LocalInv'
    BY <1>1 DEF SoundInv, LocalInv, NoData
  <1> QED BY <1>3, <1>9, <1>10, <1>11, <1>12

\* A poll writes exactly the chunk that was asked for.
LEMMA PollSize ==
    ASSUME TypeInv, Poll
    PROVE  /\ Least(csize, Free) = csize /\ csize \in 0..RECEIVE
           /\ crest \in 0..RECEIVE
  <1>1. Free \in Int
    BY BufferAssumption DEF Free, getBufferFree, TypeInv, TypeOK, Slots
  <1> QED BY <1>1, BufferAssumption DEF Poll, Least, TypeInv, TypeOK

\* ChunkInv and EmptyInv hold in every interleaving.
LEMMA LoopStep ==
    ASSUME TypeInv, ChunkInv, EmptyInv, [Next]_vars
    PROVE  ChunkInv' /\ EmptyInv'
  <1>1. CASE Receive
    BY <1>1 DEF Receive, ChunkInv, EmptyInv, NoData
  <1>2. ASSUME NEW n \in 0..RECEIVE, Commit(n), AfterWrite(crest), UNCHANGED vpc
        PROVE  ChunkInv' /\ EmptyInv'
    <2>1. ChunkInv'
      BY <1>2, BufferAssumption DEF AfterWrite, ChunkInv, TypeInv, TypeOK
    <2>2. b' = b \/ b' = [i \in 1..Len(b) |-> Stale]
      BY <1>2 DEF Commit, Forget
    <2>3. b' \in Seq(Bytes) /\ Len(b') = Len(b)
      BY <1>2, CommitType
    <2>4. b = <<>> <=> b' = <<>>
      BY <2>3 DEF TypeInv, TypeOK
    <2> QED BY <1>2, <2>1, <2>4 DEF EmptyInv, NoData
  <1>3. CASE Poll
    <2>1. CASE sSPI = "free"
      BY <1>2, <1>3, <2>1, PollSize DEF Poll
    <2>2. CASE sSPI # "free"
      BY <1>3, <2>2, PollSize DEF Poll, ChunkInv, EmptyInv, NoData
    <2> QED BY <2>1, <2>2
  <1>4. CASE WriteWhenFree
    BY <1>2, <1>4 DEF WriteWhenFree, TypeInv, TypeOK
  <1>5. CASE Disconnect
    <2>1. b' \in Seq(Bytes) /\ Len(b') = Len(b)
      BY <1>5, StaleSeq DEF Disconnect, Forget, TypeInv, TypeOK
    <2>2. b = <<>> <=> b' = <<>>
      BY <2>1 DEF TypeInv, TypeOK
    <2> QED BY <1>5, <2>2 DEF Disconnect, ChunkInv, EmptyInv, NoData
  <1>6. CASE VsTask
    <2>1. ChunkInv'
      BY <1>6 DEF VsTask, ChunkInv
    <2>2. EmptyInv'
      BY <1>6 DEF VsTask, VsStep, Look, Load, Test, TakeBus, Transfer, Add, Store,
                  WrapPtr, Check, Mark, Send, Burst, EmptyInv, NoData
    <2> QED BY <2>1, <2>2
  <1>7. CASE OtherTake \/ OtherGive \/ UNCHANGED vars
    BY <1>7 DEF OtherTake, OtherGive, vars, ChunkInv, EmptyInv, NoData
  <1> QED BY <1>1, <1>3, <1>4, <1>5, <1>6, <1>7 DEF Next, Client

-----------------------------------------------------------------------------
\* What clientTask does.

LEMMA Third ==
    /\ BUFFER_SIZE \in Int /\ RECEIVE \in Int /\ StartLevel \in Int
    /\ 0 < StartLevel /\ RECEIVE <= StartLevel /\ StartLevel <= BUFFER_SIZE
  BY BufferAssumption DEF StartLevel

LEMMA SumBelow ==
    ASSUME NEW h \in Int, NEW c \in Int, NEW size \in Int, NEW third \in Int,
           h <= size - third, c <= third
    PROVE  h + c <= size
  OBVIOUS

LEMMA Below ==
    ASSUME NEW c \in Int, NEW receive \in Int, NEW third \in Int,
           c <= receive, receive <= third
    PROVE  c <= third
  OBVIOUS

LEMMA NothingLeft ==
    ASSUME NEW h \in Int, NEW c, NEW r, c = 0, r = 0
    PROVE  h + c + r = h
  OBVIOUS

LEMMA RoomBelow ==
    ASSUME NEW h \in Int, NEW f \in Int, NEW size \in Int, NEW third \in Int,
           ~(f < third), 0 < third, f = size - h \/ f = 0
    PROVE  h <= size - third
  OBVIOUS

LEMMA WriteSound ==
    ASSUME TypeInv, ChunkInv, SoundInv, slip = "none", slip' = "none",
           cpc \in {"space", "bus"}, csize <= BUFFER_SIZE - Held,
           csize \in 0..RECEIVE, crest \in 0..RECEIVE,
           Commit(csize), AfterWrite(crest), TypeInv',
           UNCHANGED <<rptr, vpc, vsize, vreg>>
    PROVE  SoundInv'
  <1>1. /\ IndexInv' /\ RegisterInv' /\ ContentInv' /\ LocalInv'
        /\ Held' = Held + csize
    BY CommitSound
  <1>2. RoomInv'
    BY DEF AfterWrite, RoomInv
  <1>3. StartInv'
    <2>1. CASE crest > 0
      <3>1. /\ cpc' = "space" /\ csize' = crest /\ crest' = 0
            /\ playing' = playing /\ cpc # "idle"
        BY <2>1 DEF AfterWrite
      <3>2. ~playing => Held + csize + crest <= BUFFER_SIZE
        BY <3>1 DEF SoundInv, StartInv
      <3>3. Held \in Int /\ csize \in Int /\ crest \in Int
        BY BufferAssumption DEF SoundInv, IndexInv
      <3>4. Held' + csize' + crest' = Held + csize + crest
        BY <1>1, <3>1, <3>3
      <3> QED BY <3>1, <3>2, <3>4 DEF StartInv
    <2>2. CASE ~(crest > 0)
      <3>1. cpc' = "idle" /\ csize' = 0 /\ crest' = 0
        BY <2>2 DEF AfterWrite
      <3>2. ~playing' => ~(Free' < StartLevel)
        BY <2>2 DEF AfterWrite, Free
      <3>3. Free' = BUFFER_SIZE - Held' \/ Free' = 0
        <4>1. rptr' \in 0..2 * BUFFER_SIZE - 1 /\ (vpc' # "wrap" => rptr' \in Slots)
          BY DEF TypeInv, TypeOK
        <4>2. Wrap(rptr') \in Slots /\ (rptr' \in Slots => Wrap(rptr') = rptr')
          BY <4>1, WrapSlot, BufferAssumption DEF Wrap, Slots
        <4> QED BY <1>1, <4>1, <4>2, BufferAssumption
                DEF IndexInv, Wrap, Slots, Free, getBufferFree, Unmarked
      <3>4. Held' \in 0..BUFFER_SIZE
        BY <1>1 DEF IndexInv
      <3>5. Held' \in Int /\ Free' \in Int
        BY <3>3, <3>4, Third
      <3>6. ~playing' => Held' <= BUFFER_SIZE - StartLevel
        <4> SUFFICES ASSUME ~playing'
                     PROVE  Held' <= BUFFER_SIZE - StartLevel
          OBVIOUS
        <4>1. ~(Free' < StartLevel)
          BY <3>2
        <4> QED BY <3>3, <3>5, <4>1, Third, RoomBelow
      <3>7. Held' + csize' + crest' = Held'
        BY <3>1, <3>5, NothingLeft
      <3> QED BY <3>1, <3>6, <3>7 DEF StartInv
    <2> QED BY <2>1, <2>2
  <1> QED BY <1>1, <1>2, <1>3 DEF SoundInv

LEMMA ClientSound ==
    ASSUME TypeInv, ChunkInv, EmptyInv, slip = "none" => SoundInv,
           TypeInv', Client
    PROVE  slip' = "none" => SoundInv'
  <1> SUFFICES ASSUME slip' = "none" PROVE SoundInv'
    OBVIOUS
  <1>1. CASE Receive
    <2>1. slip = "none" /\ SoundInv
      BY <1>1 DEF Receive
    <2>2. UNCHANGED <<ring, playing, vvars, hist>>
      BY <1>1 DEF Receive
    <2>3. cpc = "idle" /\ cpc' = "space" /\ csize' + crest' <= RECEIVE
          /\ csize' \in Nat /\ crest' \in Nat
      BY <1>1, BufferAssumption DEF Receive
    <2>4. IndexInv' /\ RegisterInv' /\ ContentInv' /\ LocalInv'
      BY <2>1, <2>2 DEF SoundInv, IndexInv, RegisterInv, ContentInv, LocalInv, Held,
                        Off, Unmarked, BeforeStore, NoData
    <2>5. StartInv' /\ RoomInv'
      <3>1. Held' = Held /\ Held \in 0..BUFFER_SIZE /\ csize = 0 /\ crest = 0
        BY <2>1, <2>2, <2>3 DEF SoundInv, IndexInv, Held, ChunkInv
      <3>2. ~playing => Held <= BUFFER_SIZE - StartLevel
        BY <2>1, <2>3, <3>1, Third DEF SoundInv, StartInv
      <3>3. ~playing => Held' + csize' + crest' <= BUFFER_SIZE
        <4>1. csize' + crest' \in Int /\ csize' + crest' <= StartLevel
          <5>1. csize' + crest' \in Int
            BY <2>3
          <5> QED BY <2>3, <5>1, Third, Below
        <4>2. ~playing => Held + (csize' + crest') <= BUFFER_SIZE
          BY <3>1, <3>2, <4>1, Third, SumBelow
        <4> QED BY <2>3, <3>1, <4>2
      <3> QED BY <2>2, <2>3, <3>3 DEF StartInv, RoomInv
    <2> QED BY <2>4, <2>5 DEF SoundInv
  <1>2. CASE Poll
    <2>1. slip = "none" /\ SoundInv
      BY <1>2 DEF Poll, Commit, hist
    <2>2. csize <= BUFFER_SIZE - Held
      BY <1>2, <2>1, FreeHeld, BufferAssumption
      DEF Poll, SoundInv, IndexInv, TypeInv, TypeOK
    <2>3. CASE sSPI = "free"
      BY <1>2, <2>1, <2>2, <2>3, PollSize, WriteSound DEF Poll
    <2>4. CASE sSPI # "free"
      <3>1. /\ UNCHANGED <<ring, playing, crest, vvars, hist>>
            /\ cpc = "space" /\ cpc' = "bus" /\ csize' = csize
        BY <1>2, <2>4, PollSize DEF Poll
      <3>2. IndexInv' /\ RegisterInv' /\ ContentInv' /\ LocalInv'
        BY <2>1, <3>1 DEF SoundInv, IndexInv, RegisterInv, ContentInv, LocalInv, Held,
                          Off, Unmarked, BeforeStore, NoData
      <3>3. StartInv' /\ RoomInv'
        BY <2>1, <2>2, <3>1 DEF SoundInv, StartInv, RoomInv, Held
      <3> QED BY <3>2, <3>3 DEF SoundInv
    <2> QED BY <2>3, <2>4
  <1>3. CASE WriteWhenFree
    <2>1. slip = "none" /\ SoundInv
      BY <1>3 DEF WriteWhenFree, Commit
    <2>2. csize <= BUFFER_SIZE - Held
      BY <1>3, <2>1 DEF WriteWhenFree, SoundInv, RoomInv
    <2> QED BY <1>3, <2>1, <2>2, WriteSound DEF WriteWhenFree, TypeInv, TypeOK
  <1>4. CASE Disconnect
    <2>1. /\ vpc \notin InRead /\ UNCHANGED <<cpc, csize, crest, vpc, vsize, vreg>>
          /\ wptr' = 0 /\ rptr' = 0 /\ bempty' = TRUE
          /\ wpos' = 0 /\ rpos' = 0 /\ heard' = 0
          /\ b' = [i \in 1..Len(b) |-> Stale]
          /\ cpc = "idle" /\ csize = 0 /\ crest = 0
      BY <1>4 DEF Disconnect, Forget, ChunkInv
    <2>2. Held' = 0 /\ Wrap(rptr') = 0
      BY <2>1, BufferAssumption DEF Held, Wrap
    <2>3. IndexInv'
      BY <2>1, <2>2, BufferAssumption
      DEF IndexInv, Wrap, Unmarked, BeforeStore, InRead
    <2>4. RegisterInv'
      BY <2>1 DEF RegisterInv, BeforeStore, InRead
    <2>5. ContentInv'
      BY <2>1, <2>2, BufferAssumption DEF ContentInv, Off, Slots
    <2>6. LocalInv'
      BY <2>1 DEF LocalInv, InRead, NoData
    <2>7. StartInv' /\ RoomInv'
      <3>1. Held' + csize' + crest' = 0
        BY <2>1, <2>2
      <3>2. 0 <= BUFFER_SIZE - StartLevel
        BY Third
      <3> QED BY <2>1, <3>1, <3>2 DEF StartInv, RoomInv
    <2> QED BY <2>3, <2>4, <2>5, <2>6, <2>7 DEF SoundInv
  <1> QED BY <1>1, <1>2, <1>3, <1>4 DEF Client

-----------------------------------------------------------------------------
\* What vsTask does.  Only Store changes the number of bytes held, only Store
\* and WrapPtr rptr, only Transfer and Burst the local buffer.

LEMMA StoreSound ==
    ASSUME TypeInv, SoundInv, slip = "none", Store, UNCHANGED <<playing, cvars>>
    PROVE  SoundInv' /\ Held' = Held - vsize /\ vsize <= Held
  <1>1. /\ vpc = "store" /\ vreg = rptr + vsize /\ vsize <= Held /\ vsize \in Nat
        /\ vsize = 0 => Held < BUFFER_SIZE
        /\ rptr \in Slots /\ Wrap(rptr) = rptr /\ Held \in 0..BUFFER_SIZE
    BY FreeHeld, BufferAssumption
    DEF Store, SoundInv, RegisterInv, IndexInv, BeforeStore, TypeInv, TypeOK
  <1>2. /\ UNCHANGED <<vsize, b, wptr, bempty, sram, wpos, heard, playing, cvars>>
        /\ rpos' = rpos + vsize
        /\ \/ rptr' = rptr + vsize /\ vpc' = "wrap" /\ vreg' = vreg
           \/ rptr' = Wrap(rptr + vsize) /\ vreg' = rptr' /\ vpc' = "check"
    BY <1>1 DEF Store
  <1>3. Held' = Held - vsize /\ Held' \in 0..BUFFER_SIZE
    BY <1>1, <1>2, BufferAssumption DEF Held, TypeInv, TypeOK
  <1>4. Wrap(rptr') = Wrap(rptr + vsize) /\ Wrap(rptr') \in Slots
    BY <1>1, <1>2, BufferAssumption DEF Wrap, Slots
  <1>5. IndexInv'
    <2>1. wptr' = Wrap(Wrap(rptr') + Held')
      BY <1>1, <1>2, <1>3, <1>4, BufferAssumption DEF SoundInv, IndexInv, Wrap, Slots
    <2>2. vpc' = "wrap" /\ rptr' >= BUFFER_SIZE => wptr' = rptr' - BUFFER_SIZE + Held'
      BY <1>1, <1>2, <1>3, BufferAssumption DEF SoundInv, IndexInv, Wrap, Slots
    <2>3. Held' < BUFFER_SIZE
      BY <1>1, <1>3, BufferAssumption
    <2>4. wptr' = Wrap(rptr') => Held' = 0
      BY <1>3, <1>4, <2>1, <2>3, BufferAssumption DEF Wrap, Slots
    <2>5. Unmarked'
      BY <1>2 DEF Unmarked
    <2> QED BY <1>3, <2>1, <2>2, <2>3, <2>4, <2>5 DEF IndexInv
  <1>6. RegisterInv'
    BY <1>1, <1>2 DEF RegisterInv, BeforeStore
  <1>7. ContentInv'
    <2> SUFFICES ASSUME NEW s \in Slots, Off(s)' < Held'
                 PROVE  sram'[s] = rpos' + Off(s)'
      BY DEF ContentInv
    <2>1. Off(s) = Off(s)' + vsize
      BY <1>1, <1>3, <1>4, BufferAssumption DEF Off, Wrap, Slots
    <2>2. Off(s) < Held /\ Off(s)' \in Int
      BY <1>1, <1>3, <1>4, <2>1, BufferAssumption DEF Off, Slots
    <2> QED BY <1>1, <1>2, <2>1, <2>2 DEF SoundInv, ContentInv, TypeInv, TypeOK
  <1>8. LocalInv'
    BY <1>1, <1>2, BufferAssumption DEF SoundInv, LocalInv, NoData, TypeInv, TypeOK
  <1>9. RoomInv' /\ StartInv'
    <2>1. csize \in Int /\ crest \in Int /\ csize' = csize /\ crest' = crest /\ cpc' = cpc
      BY <1>2, Third DEF TypeInv, TypeOK
    <2>2. RoomInv'
      BY <1>1, <1>3, <2>1, Third DEF SoundInv, RoomInv
    <2>3. Held' + csize' + crest' = Held + csize + crest - vsize
      BY <1>1, <1>3, <2>1, Third
    <2>4. Held + csize + crest \in Int
      BY <1>1, <2>1
    <2>5. StartInv'
      BY <1>1, <1>2, <2>1, <2>3, <2>4, Third DEF SoundInv, StartInv
    <2> QED BY <2>2, <2>5
  <1> QED BY <1>1, <1>3, <1>5, <1>6, <1>7, <1>8, <1>9 DEF SoundInv

\* The reads of vsTask that change neither the ring nor the history.
LEMMA LookSound ==
    ASSUME TypeInv, EmptyInv, SoundInv, slip = "none",
           Look \/ Load \/ Test \/ TakeBus \/ Add \/ Check \/ Send,
           UNCHANGED <<playing, cvars>>
    PROVE  SoundInv'
  <1>1. UNCHANGED <<b, ring, hist, playing, cvars>>
    BY DEF Look, Load, Test, TakeBus, Add, Check, Send
  <1>2. Held' = Held /\ Held \in 0..BUFFER_SIZE
    BY <1>1 DEF Held, SoundInv, IndexInv
  <1>3. ContentInv' /\ RoomInv' /\ StartInv'
    BY <1>1, <1>2 DEF SoundInv, ContentInv, RoomInv, StartInv, Off
  <1>4. LocalInv'
    BY <1>1 DEF Look, Load, Test, TakeBus, Add, Check, Send, SoundInv, LocalInv, NoData,
                EmptyInv, TypeInv, TypeOK
  <1> USE DEF SoundInv
  <1>5. CASE Look \/ TakeBus \/ Add \/ Send
    <2>1. IndexInv'
      BY <1>1, <1>2, <1>5, BufferAssumption
      DEF Look, TakeBus, Add, Send, IndexInv, Unmarked, BeforeStore
    <2>2. RegisterInv'
      BY <1>1, <1>2, <1>5, BufferAssumption
      DEF Look, TakeBus, Add, Send, RegisterInv, BeforeStore
    <2> QED BY <1>3, <1>4, <2>1, <2>2
  <1>6. CASE Load
    <2>1. vpc = "load" /\ Free = BUFFER_SIZE - Held /\ rptr \in Slots
          /\ Wrap(rptr) = rptr /\ wptr \in Slots
      BY <1>6, FreeHeld DEF Load, Unmarked, TypeInv, TypeOK
    <2>2. wptr # rptr => Held # 0 /\ Least(VSTASKBUF, BUFFER_SIZE - Free) \in 1..Held
      BY <1>2, <2>1, BufferAssumption DEF IndexInv, Wrap, Slots, Least
    <2>3. IndexInv'
      BY <1>1, <1>2, <1>6, <2>1, <2>2, BufferAssumption
      DEF Load, IndexInv, Unmarked, BeforeStore
    <2>4. RegisterInv'
      BY <1>1, <1>2, <1>6, <2>1, <2>2, BufferAssumption
      DEF Load, RegisterInv, BeforeStore
    <2> QED BY <1>3, <1>4, <2>3, <2>4
  <1>7. CASE Test
    <2>1. vpc = "test" /\ wptr = rptr /\ Wrap(rptr) = rptr
      BY <1>7, FreeHeld DEF Test, RegisterInv
    <2>2. (bempty => Held = 0) /\ (~bempty => Held = BUFFER_SIZE)
      BY <2>1 DEF IndexInv, Unmarked
    <2>3. vsize' \in 0..Held /\ (vsize' = 0 => Held < BUFFER_SIZE)
      BY <1>7, <2>2, BufferAssumption DEF Test, Least
    <2>4. IndexInv'
      BY <1>1, <1>2, <1>7, <2>3, BufferAssumption
      DEF Test, IndexInv, Unmarked, BeforeStore
    <2>5. RegisterInv'
      BY <1>1, <1>2, <1>7, <2>1, <2>2, <2>3, BufferAssumption
      DEF Test, RegisterInv, BeforeStore
    <2> QED BY <1>3, <1>4, <2>4, <2>5
  <1>8. CASE Check
    <2>1. vpc = "check" /\ Wrap(rptr) = rptr
      BY <1>8, FreeHeld DEF Check
    <2>2. vreg # wptr /\ wptr = rptr => bempty
      BY <2>1 DEF RegisterInv
    <2>3. IndexInv'
      BY <1>1, <1>2, <1>8, <2>1, <2>2, BufferAssumption
      DEF Check, IndexInv, Unmarked, BeforeStore
    <2>4. RegisterInv'
      BY <1>1, <1>8 DEF Check, RegisterInv, BeforeStore
    <2> QED BY <1>3, <1>4, <2>3, <2>4
  <1> QED BY <1>5, <1>6, <1>7, <1>8

LEMMA WrapPtrSound ==
    ASSUME TypeInv, SoundInv, slip = "none", WrapPtr, UNCHANGED <<playing, cvars>>
    PROVE  SoundInv'
  <1>1. /\ vpc = "wrap" /\ vpc' = "check" /\ vreg = rptr
        /\ rptr' = Wrap(rptr) /\ vreg' = rptr'
        /\ UNCHANGED <<vsize, b, wptr, bempty, sram, hist, playing, cvars>>
    BY BufferAssumption DEF WrapPtr, SoundInv, RegisterInv, TypeInv, TypeOK, Wrap
  <1>2. Wrap(rptr) \in Slots /\ Wrap(rptr') = Wrap(rptr)
    BY <1>1, FreeHeld, BufferAssumption DEF SoundInv, Wrap, Slots
  <1>3. IndexInv'
    BY <1>1, <1>2 DEF SoundInv, IndexInv, Held, Unmarked, BeforeStore
  <1>4. RegisterInv'
    BY <1>1 DEF RegisterInv, BeforeStore
  <1>5. ContentInv'
    BY <1>1, <1>2 DEF SoundInv, ContentInv, Off, Held
  <1>6. LocalInv' /\ RoomInv' /\ StartInv'
    BY <1>1 DEF SoundInv, LocalInv, RoomInv, StartInv, Held, NoData
  <1> QED BY <1>3, <1>4, <1>5, <1>6 DEF SoundInv

LEMMA MarkSound ==
    ASSUME TypeInv, SoundInv, slip = "none", Mark, UNCHANGED <<playing, cvars>>
    PROVE  SoundInv'
  <1>1. /\ vpc = "mark" /\ vpc' = "send" /\ bempty' = TRUE
        /\ UNCHANGED <<vsize, vreg, b, wptr, rptr, sram, hist, playing, cvars>>
    BY DEF Mark
  <1>2. Held' = Held /\ Held \in 0..BUFFER_SIZE /\ Held < BUFFER_SIZE
    BY <1>1 DEF SoundInv, IndexInv, Held, Unmarked
  <1>3. wptr = Wrap(rptr) => Held = 0
    BY <1>2, FreeHeld, BufferAssumption DEF SoundInv, IndexInv, Wrap, Slots
  <1>4. IndexInv'
    BY <1>1, <1>2, <1>3 DEF SoundInv, IndexInv, Unmarked, BeforeStore
  <1>5. RegisterInv'
    BY <1>1 DEF RegisterInv, BeforeStore
  <1>6. ContentInv' /\ LocalInv' /\ RoomInv' /\ StartInv'
    BY <1>1, <1>2 DEF SoundInv, ContentInv, LocalInv, RoomInv, StartInv, Off, NoData
  <1> QED BY <1>4, <1>5, <1>6 DEF SoundInv

LEMMA TransferSound ==
    ASSUME TypeInv, SoundInv, slip = "none", Transfer, UNCHANGED <<playing, cvars>>
    PROVE  SoundInv'
  <1>1. /\ vpc = "xfer" /\ vpc' = "add"
        /\ b' = [i \in 1..vsize |-> sram[Wrap(vreg + i - 1)]]
        /\ UNCHANGED <<vsize, vreg, ring, hist, playing, cvars>>
    BY DEF Transfer
  <1>2. /\ vsize \in Nat /\ vsize <= Held /\ (vsize > 0 => vreg = rptr)
        /\ rptr \in Slots /\ Wrap(rptr) = rptr /\ heard = rpos
        /\ Held \in 0..BUFFER_SIZE
    BY <1>1, FreeHeld, BufferAssumption
    DEF SoundInv, RegisterInv, LocalInv, IndexInv, BeforeStore, NoData, TypeInv, TypeOK
  <1>3. ASSUME NEW i \in 1..vsize
        PROVE  sram[Wrap(vreg + i - 1)] = heard + i - 1
    <2> DEFINE s == Wrap(rptr + i - 1)
    <2>1. s \in Slots /\ Off(s) = i - 1
      BY <1>2, BufferAssumption DEF Wrap, Off, Slots
    <2>2. sram[s] = rpos + Off(s)
      BY <1>2, <2>1 DEF SoundInv, ContentInv
    <2> HIDE DEF s
    <2>3. sram[s] = heard + (i - 1)
      BY <1>2, <2>1, <2>2
    <2>4. vreg = rptr
      BY <1>2
    <2> QED BY <1>2, <2>3, <2>4 DEF s, TypeInv, TypeOK
  <1>4. Len(b') = vsize
    BY <1>1, <1>2
  <1>5. \A i \in 1..Len(b') : b'[i] = heard' + i - 1
    BY <1>1, <1>3, <1>4
  <1>6. LocalInv'
    BY <1>1, <1>2, <1>4, <1>5 DEF LocalInv, NoData
  <1>7. IndexInv' /\ RegisterInv'
    BY <1>1 DEF SoundInv, IndexInv, RegisterInv, Held, Unmarked, BeforeStore
  <1>8. ContentInv' /\ RoomInv' /\ StartInv'
    BY <1>1 DEF SoundInv, ContentInv, RoomInv, StartInv, Held, Off
  <1> QED BY <1>6, <1>7, <1>8 DEF SoundInv

LEMMA Shift ==
    ASSUME NEW h \in Int, NEW l \in Int, NEW t \in Int, NEW h1, NEW l1,
           h1 = h + t, l1 = l - t
    PROVE  h1 + l1 = h + l
  OBVIOUS

LEMMA BurstSound ==
    ASSUME TypeInv, EmptyInv, SoundInv, slip = "none", Burst,
           UNCHANGED <<playing, cvars>>
    PROVE  SoundInv'
  <1> DEFINE t == Least(SDI_BURST, Len(b))
  <1>1. /\ vpc = "burst" /\ vpc' \in {"burst", "poll"}
        /\ vpc' = "poll" => b' = <<>>
        /\ b' = SubSeq(b, t + 1, Len(b))
        /\ heard' = heard + (IF b[1] = Stale THEN 0 ELSE t)
        /\ UNCHANGED <<vsize, vreg, ring, wpos, rpos, slip, playing, cvars>>
    BY DEF Burst
  <1>2. b \in Seq(Bytes) /\ b # <<>> /\ heard \in Nat /\ rpos \in Nat
    BY <1>1 DEF EmptyInv, TypeInv, TypeOK
  <1>3. t \in 1..Len(b)
    BY <1>2, BufferAssumption DEF Least
  <1> HIDE DEF t
  <1>4. /\ b' \in Seq(Bytes) /\ Len(b') = Len(b) - t
        /\ \A i \in 1..Len(b') : b'[i] = b[t + i]
    BY <1>1, <1>2, <1>3
  <1>5. LocalInv'
    <2>1. CASE heard + Len(b) = rpos /\ \A i \in 1..Len(b) : b[i] = heard + i - 1
      <3>1. heard' = heard + t
        BY <1>1, <1>2, <2>1 DEF Stale
      <3>2. heard' + Len(b') = rpos'
        <4>1. Len(b) \in Int /\ t \in Int /\ Len(b') = Len(b) - t
          BY <1>2, <1>3, <1>4
        <4>2. heard + Len(b) = rpos /\ rpos' = rpos
          BY <1>1, <2>1
        <4> QED BY <1>2, <3>1, <4>1, <4>2, Shift
      <3>3. ASSUME NEW i \in 1..Len(b')
            PROVE  b'[i] = heard' + i - 1
        <4>1. t + i \in 1..Len(b) /\ b'[i] = b[t + i]
          BY <1>2, <1>3, <1>4
        <4> QED BY <1>2, <1>3, <2>1, <3>1, <4>1
      <3>4. b' = <<>> => heard' = rpos'
        BY <1>2, <3>1, <3>2, <1>3
      <3> QED BY <1>1, <3>2, <3>3, <3>4 DEF LocalInv, NoData
    <2>2. CASE heard = rpos /\ \A i \in 1..Len(b) : b[i] = Stale
      <3>1. heard' = rpos'
        BY <1>1, <1>2, <2>2
      <3>2. \A i \in 1..Len(b') : b'[i] = Stale
        BY <1>2, <1>3, <1>4, <2>2
      <3> QED BY <1>1, <3>1, <3>2 DEF LocalInv, NoData
    <2> QED BY <1>1, <2>1, <2>2 DEF SoundInv, LocalInv, NoData
  <1>6. IndexInv' /\ RegisterInv'
    BY <1>1 DEF SoundInv, IndexInv, RegisterInv, Held, Unmarked, BeforeStore
  <1>7. ContentInv' /\ RoomInv' /\ StartInv'
    BY <1>1 DEF SoundInv, ContentInv, RoomInv, StartInv, Held, Off
  <1> QED BY <1>5, <1>6, <1>7 DEF SoundInv
-----------------------------------------------------------------------------
\* The invariant is inductive.

LEMMA InitInv == Init => IInv
  <1> SUFFICES ASSUME Init PROVE IInv
    OBVIOUS
  <1>1. TypeInv
    <2>1. sram \in [Slots -> Bytes] /\ b \in Seq(Bytes) /\ Len(b) <= VSTASKBUF
      BY BufferAssumption DEF Init, Bytes, Stale
    <2>2. TypeOK
      <3>1. /\ wptr \in Slots /\ rptr \in 0..2 * BUFFER_SIZE - 1 /\ rptr \in Slots
            /\ csize \in 0..RECEIVE /\ crest \in 0..RECEIVE
            /\ vsize \in 0..VSTASKBUF /\ vreg \in 0..2 * BUFFER_SIZE - 1
        BY BufferAssumption DEF Init, Slots
      <3>2. /\ bempty \in BOOLEAN /\ playing \in BOOLEAN
            /\ sSPI \in {"free", "vs", "other"} /\ cpc \in ClientPC
            /\ vpc \in VsPC /\ slip \in Slips
        BY DEF Init, ClientPC, VsPC, Slips
      <3>3. wpos \in Nat /\ rpos \in Nat /\ heard \in Nat
        BY DEF Init
      <3> QED BY <2>1, <3>1, <3>2, <3>3 DEF TypeOK
    <2>3. WrapInv
      BY DEF Init, WrapInv
    <2> QED BY <2>2, <2>3 DEF TypeInv
  <1>2. ChunkInv /\ EmptyInv
    BY BufferAssumption DEF Init, ChunkInv, EmptyInv
  <1>3. IndexInv /\ RegisterInv /\ ContentInv /\ LocalInv /\ RoomInv
    BY BufferAssumption
    DEF Init, IndexInv, RegisterInv, ContentInv, LocalInv, RoomInv, Held, Wrap, Off,
        Slots, Unmarked, BeforeStore, NoData
  <1>4. StartInv
    BY Third DEF Init, StartInv, Held
  <1> QED BY <1>1, <1>2, <1>3, <1>4 DEF IInv, SoundInv

LEMMA NextInv == IInv /\ [Next]_vars => IInv'
  <1> SUFFICES ASSUME IInv, [Next]_vars PROVE IInv'
    OBVIOUS
  <1>1. TypeInv' /\ ChunkInv' /\ EmptyInv'
    BY TypeStep, LoopStep DEF IInv
  <1>2. slip' = "none" => SoundInv'
    <2>1. CASE Client
      BY <1>1, <2>1, ClientSound DEF IInv
    <2>2. ASSUME slip' = "none", VsTask PROVE SoundInv'
      <3>1. slip = "none" /\ UNCHANGED <<playing, cvars>> /\ VsStep
        BY <2>2 DEF VsTask, VsStep, Look, Load, Test, TakeBus, Transfer, Add, Store,
                    WrapPtr, Check, Mark, Send, Burst
      <3>2. TypeInv /\ EmptyInv /\ SoundInv
        BY <3>1 DEF IInv
      <3> QED BY <3>1, <3>2, StoreSound, LookSound, WrapPtrSound, MarkSound,
                 TransferSound, BurstSound DEF VsStep
    <2>3. CASE OtherTake \/ OtherGive \/ UNCHANGED vars
      <3>1. UNCHANGED <<ring, playing, cvars, vvars, hist>>
        BY <2>3 DEF OtherTake, OtherGive, vars
      <3> QED BY <3>1 DEF IInv, SoundInv, IndexInv, RegisterInv, ContentInv, LocalInv,
                          RoomInv, StartInv, Held, Off, Unmarked, BeforeStore, NoData
    <2> QED BY <2>1, <2>2, <2>3 DEF Next
  <1> QED BY <1>1, <1>2 DEF IInv

\* Every reachable state satisfies the inductive invariant.
THEOREM Invariance == Spec => []IInv
  <1>1. Init => IInv
    BY InitInv
  <1>2. IInv /\ [Next]_vars => IInv'
    BY NextInv
  <1> QED BY <1>1, <1>2, PTL DEF Spec

-----------------------------------------------------------------------------
(* Theorems *)

\* In every interleaving of clientTask and vsTask, also after a task switch fell
\* into a window, wptr is a slot, rptr is one but before its wrap, and
\* bufferRead never returns more than vsTask's local array holds.
THEOREM TypeCorrect == Spec => []TypeOK
  <1>1. IInv => TypeOK
    BY DEF IInv, TypeInv
  <1> QED BY <1>1, Invariance, PTL

\* Outside the windows the indices, the flag and the external RAM hold exactly
\* the unread bytes of the stream, in order (buffer.c).
THEOREM RingCorrect == Spec => []RingHoldsStream
  <1>1. IInv => RingHoldsStream
    <2> SUFFICES ASSUME IInv, slip = "none"
                 PROVE  /\ Held \in 0..BUFFER_SIZE
                        /\ \/ Free = BUFFER_SIZE - Held
                           \/ Unmarked /\ Held = 0 /\ Free = 0
                        /\ \A i \in 0..Held - 1 : sram[Wrap(Wrap(rptr) + i)] = rpos + i
      BY DEF RingHoldsStream
    <2>1. TypeInv /\ SoundInv
      BY DEF IInv
    <2>2. Wrap(rptr) \in Slots /\ Held \in 0..BUFFER_SIZE
      BY <2>1, FreeHeld DEF SoundInv, IndexInv
    <2>3. ASSUME NEW i \in 0..Held - 1
          PROVE  sram[Wrap(Wrap(rptr) + i)] = rpos + i
      <3> DEFINE s == Wrap(Wrap(rptr) + i)
      <3>1. s \in Slots /\ Off(s) = i
        <4>1. PICK r \in Slots : r = Wrap(rptr)
          BY <2>2
        <4>2. Off(s) = IF s >= r THEN s - r ELSE s + BUFFER_SIZE - r
          BY <4>1 DEF Off
        <4>3. s = Wrap(r + i)
          BY <4>1
        <4> HIDE DEF s
        <4> QED BY <2>2, <4>1, <4>2, <4>3, BufferAssumption DEF Wrap, Slots
      <3>2. Off(s) < Held
        BY <2>2, <3>1, BufferAssumption
      <3> QED BY <2>1, <3>1, <3>2 DEF SoundInv, ContentInv
    <2> QED BY <2>1, <2>2, <2>3, FreeHeld DEF SoundInv
  <1> QED BY <1>1, Invariance, PTL

\* Outside the windows what vsTask sends to the decoder is the stream, without
\* a gap or a repetition, or the tail of the connection that was reset.
THEOREM DecoderCorrect == Spec => []DecoderHearsStream
  <1>1. IInv => DecoderHearsStream
    <2> SUFFICES ASSUME IInv, slip = "none"
                 PROVE  \/ \A i \in 1..Len(b) : b[i] = heard + i - 1
                        \/ \A i \in 1..Len(b) : b[i] = Stale
      BY DEF DecoderHearsStream
    <2>1. LocalInv /\ (NoData => b = <<>>)
      BY DEF IInv, SoundInv, EmptyInv
    <2>2. CASE NoData
      BY <2>1, <2>2
    <2>3. CASE ~NoData
      BY <2>1, <2>3 DEF LocalInv
    <2> QED BY <2>2, <2>3
  <1> QED BY <1>1, Invariance, PTL

\* Outside the windows clientTask never sleeps for room in the ring while the
\* decoder is stopped and nobody could make that room.
THEOREM NoStoppedWait == Spec => []WaitsOnlyWhilePlaying
  <1>1. IInv => WaitsOnlyWhilePlaying
    <2> SUFFICES ASSUME IInv, slip = "none", cpc = "space", Free < csize, ~playing,
                        ~Unmarked
                 PROVE  FALSE
      BY DEF WaitsOnlyWhilePlaying
    <2>1. TypeInv /\ SoundInv
      BY DEF IInv
    <2>2. Free = BUFFER_SIZE - Held /\ Held \in 0..BUFFER_SIZE
      BY <2>1, FreeHeld DEF SoundInv, IndexInv
    <2>3. Held + csize + crest <= BUFFER_SIZE
      BY <2>1 DEF SoundInv, StartInv
    <2>4. csize \in Nat /\ crest \in Nat
      BY <2>1, BufferAssumption DEF TypeInv, TypeOK
    <2> QED BY <2>2, <2>3, <2>4, BufferAssumption
  <1> QED BY <1>1, Invariance, PTL

\* Commit is a Put, a stutter (nothing written) or a Break.
LEMMA CommitPut ==
    ASSUME IInv, NEW n \in 0..RECEIVE, slip = "none" => n <= BUFFER_SIZE - Held,
           Commit(n)
    PROVE  [Pipe!Next]_(Pipe!pipe)
  <1>1. CASE slip' # "none"
    BY <1>1 DEF Commit, Forget, Pipe!Next, Pipe!Break
  <1>2. CASE slip' = "none"
    <2>1. slip = "none" /\ wpos' = wpos + n /\ rpos' = rpos
      BY <1>2 DEF Commit
    <2>2. wpos \in Nat /\ rpos \in Nat /\ Held = wpos - rpos
      BY DEF IInv, TypeInv, TypeOK, Held
    <2>3. CASE n = 0
      BY <1>2, <2>1, <2>2, <2>3 DEF Pipe!pipe
    <2>4. CASE n # 0
      <3>1. n \in 1..RECEIVE /\ wpos + n - rpos <= BUFFER_SIZE
        BY <2>1, <2>2, <2>4, BufferAssumption
      <3> QED BY <1>2, <2>1, <3>1 DEF Pipe!Next, Pipe!Put
    <2> QED BY <2>3, <2>4
  <1> QED BY <1>1, <1>2

LEMMA PipeStep == IInv /\ [Next]_vars => [Pipe!Next]_(Pipe!pipe)
  <1> SUFFICES ASSUME IInv, [Next]_vars PROVE [Pipe!Next]_(Pipe!pipe)
    OBVIOUS
  <1>1. TypeInv /\ (slip = "none" => SoundInv)
    BY DEF IInv
  <1>2. ASSUME UNCHANGED hist PROVE [Pipe!Next]_(Pipe!pipe)
    BY <1>2 DEF Pipe!pipe
  <1>3. CASE Poll
    <2>1. slip = "none" => csize <= BUFFER_SIZE - Held
      BY <1>1, <1>3, FreeHeld, BufferAssumption
      DEF Poll, SoundInv, IndexInv, TypeInv, TypeOK
    <2> QED BY <1>1, <1>2, <1>3, <2>1, PollSize, CommitPut DEF Poll
  <1>4. CASE WriteWhenFree
    <2>1. slip = "none" => csize <= BUFFER_SIZE - Held
      BY <1>1, <1>4 DEF WriteWhenFree, SoundInv, RoomInv
    <2> QED BY <1>1, <1>4, <2>1, CommitPut DEF WriteWhenFree, TypeInv, TypeOK
  <1>5. CASE Disconnect
    BY <1>5 DEF Disconnect, Forget, Pipe!Next, Pipe!Reset, Pipe!Break, InRead
  <1>6. CASE VsTask /\ Store
    <2>1. UNCHANGED <<wpos, slip>>
      BY <1>6 DEF Store
    <2>2. CASE slip # "none" \/ vsize = 0
      BY <1>1, <1>6, <2>1, <2>2 DEF Store, Pipe!pipe, TypeInv, TypeOK
    <2>3. CASE slip = "none" /\ vsize # 0
      <3>1. vsize <= Held
        BY <1>1, <1>6, <2>3, StoreSound DEF VsTask
      <3>2. vsize \in 1..VSTASKBUF /\ rpos + vsize <= wpos /\ rpos' = rpos + vsize
        BY <1>1, <1>6, <2>3, <3>1, BufferAssumption DEF Store, Held, TypeInv, TypeOK
      <3> QED BY <2>1, <2>3, <3>2 DEF Pipe!Next, Pipe!Take
    <2> QED BY <2>2, <2>3
  <1>7. CASE VsTask /\ Burst
    BY <1>7 DEF Burst, Pipe!pipe
  <1>8. CASE VsTask /\ ~Store /\ ~Burst
    BY <1>2, <1>8 DEF VsTask, VsStep, Look, Load, Test, TakeBus, Transfer, Add,
                      WrapPtr, Check, Mark, Send
  <1>9. CASE Receive \/ OtherTake \/ OtherGive \/ UNCHANGED vars
    BY <1>2, <1>9 DEF Receive, OtherTake, OtherGive, vars
  <1> QED BY <1>3, <1>4, <1>5, <1>6, <1>7, <1>8, <1>9 DEF Next, Client

\* The ring, its writer and its reader implement the bounded pipe: until a task
\* switch falls into a window, and again from the next clean reset on, what goes
\* in comes out, in order, and never more than BUFFER_SIZE bytes are inside.
THEOREM PipeImplemented == Spec => PipeSpec
  <1>1. Init => Pipe!Init
    BY DEF Init, Pipe!Init
  <1>2. IInv /\ [Next]_vars => [Pipe!Next]_(Pipe!pipe)
    BY PipeStep
  <1> QED BY <1>1, <1>2, Invariance, PTL DEF Spec, PipeSpec, Pipe!Spec
=============================================================================
