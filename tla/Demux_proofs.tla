---------------------------- MODULE Demux_proofs ----------------------------
(***************************************************************************)
(* Proofs about IcyDemux and ChunkedDemux, which take the framing of the   *)
(* stream apart.                                                           *)
(*                                                                         *)
(* IcyDemux: for every METAINT, RECEIVE and MetaLens of the assumption the *)
(* callback keeps its place in the stream, reads and writes inside the     *)
(* chunk, and stores exactly the audio bytes of a chunk that does not      *)
(* begin in the middle of a metadata block.  The invariant says for each   *)
(* place where the callback sleeps what it has worked out already: in      *)
(* "first" rest is what is left of the chunk or missing of the block, in   *)
(* "second" metad is up to date, in "plain" rest is used up.               *)
(*                                                                         *)
(* ChunkedDemux: for all sizes of buffers, chunks and size lines of the    *)
(* assumption the callback knows where the next size line is, passes on    *)
(* exactly the payload, and waits for ever only for a lone LF, as long as  *)
(* no chunk begins and ends in one buffer.  The invariant: cchunk is togo  *)
(* whenever the callback waits for bytes; a buffer that is being filled up *)
(* reaches beyond the old chunk.                                           *)
(***************************************************************************)
EXTENDS IcyDemux, ChunkedDemux, TLAPS

\* The callback's numbers and the station agree on where the stream is.
Behind == mleft = -rest /\ left = METAINT /\ metad = METAINT + mleft
Level  == mleft = 0 /\ metad = left

TypeInv ==
    /\ metad \in Int /\ rest \in Int /\ metaint \in {0, METAINT}
    /\ dpc \in {"idle", "first", "second", "plain", "over"}
    /\ len \in Int /\ len <= RECEIVE
    /\ told \in BOOLEAN /\ icy \in BOOLEAN
    /\ left \in 0..METAINT /\ mleft \in Nat /\ (icy \/ mleft = 0)
    /\ harm \in {"none", "split", "staleRest", "cleared"}

\* metaint is METAINT in an undisturbed session with metadata, else 0.
HeaderInv == dpc # "over" => metaint = IF icy /\ ~told THEN METAINT ELSE 0

IdleInv ==
    dpc = "idle" => /\ rest <= 0
                    /\ icy /\ ~told => Level \/ Behind
                    /\ harm = "none" => wrote = audio

FirstInv ==
    dpc = "first" =>
        /\ icy /\ metad \in 0..len - 1 /\ rest < len - metad
        /\ IF rest >= 0 THEN mleft = 0 /\ left = METAINT - rest
                        ELSE mleft = -rest /\ left = METAINT
        /\ harm = "none" => audio = (0..metad - 1) \cup (len - rest..len - 1)

SecondInv ==
    dpc = "second" =>
        /\ icy /\ rest \in 1..len
        /\ ~told => Level
        /\ harm = "none" => audio = wrote \cup (len - rest..len - 1)

PlainInv ==
    dpc = "plain" =>
        /\ rest = 0
        /\ icy /\ ~told =>
             \/ Level
             \/ len < 0 /\ left = METAINT /\ metad = METAINT + mleft
        /\ harm = "none" => len >= 0 /\ audio = 0..len - 1
        /\ harm = "split" /\ len < 0 => audio = {}

OverInv ==
    dpc = "over" => rest <= 0 /\ (harm = "none" => wrote = audio)

IInv == TypeInv /\ HeaderInv /\ IdleInv /\ FirstInv /\ SecondInv /\ PlainInv /\ OverInv

LEMMA InitInv == Init => IInv
<1> SUFFICES ASSUME Init PROVE IInv
  OBVIOUS
<1>1. -1 \in Int /\ 0 \in 0..METAINT /\ 0 <= RECEIVE
  BY DemuxAssumption
<1>2. /\ metad \in Int /\ rest \in Int /\ metaint \in {0, METAINT} /\ len \in Int
      /\ len <= RECEIVE /\ left \in 0..METAINT /\ mleft \in Nat
  BY <1>1 DEF Init
<1>3. TypeInv
  BY <1>2 DEF Init, TypeInv
<1> QED
  BY <1>3 DEF Init, IInv, HeaderInv, IdleInv, FirstInv, SecondInv, PlainInv, OverInv

\* What a chunk does to the station's state and to what is audio in it.
LEMMA SendFacts ==
  ASSUME TypeInv, NEW n \in 0..RECEIVE, NEW l \in MetaLens, Send(n, l)
  PROVE  /\ icy' = icy /\ left' \in 0..METAINT /\ mleft' \in Nat
         /\ ~icy => audio' = 0..n - 1 /\ mleft' = mleft
         /\ icy /\ mleft >= n =>
              left' = left /\ mleft' = mleft - n /\ audio' = {}
         /\ icy /\ mleft < n /\ n <= mleft + left =>
              left' = left - (n - mleft) /\ mleft' = 0 /\ audio' = mleft..n - 1
         /\ icy /\ mleft + left < n =>
              LET after == n - mleft - left - 1 IN
              IF after >= l
              THEN /\ left' = METAINT - (after - l) /\ mleft' = 0
                   /\ audio' = (mleft..mleft + left - 1)
                                 \cup (mleft + left + 1 + l..n - 1)
              ELSE /\ left' = METAINT /\ mleft' = l - after
                   /\ audio' = mleft..mleft + left - 1
<1>0. n \in Nat /\ n <= METAINT /\ l \in Nat /\ METAINT \in Nat
  BY DemuxAssumption
<1>1. CASE ~icy
  BY <1>1, <1>0 DEF Send, station, TypeInv
<1>2. CASE icy /\ mleft >= n
  <2>1. Least(mleft, n) = n /\ n - n = 0 /\ Least(left, 0) = 0 /\ n + 0 = n
    BY <1>2, <1>0 DEF Least, TypeInv
  <2>2. /\ audio' = n..n - 1 /\ left' = left - 0 /\ mleft' = mleft - n
        /\ icy' = icy
    BY <1>2, <2>1 DEF Send
  <2>3. n..n - 1 = {}
    BY <1>0
  <2> QED
    BY <1>2, <2>2, <2>3, <1>0 DEF TypeInv
<1>3. CASE icy /\ mleft < n /\ n <= mleft + left
  <2>1. /\ Least(mleft, n) = mleft /\ Least(left, n - mleft) = n - mleft
        /\ mleft + (n - mleft) = n
    BY <1>3, <1>0 DEF Least, TypeInv
  <2>2. /\ audio' = mleft..n - 1 /\ left' = left - (n - mleft)
        /\ mleft' = mleft - mleft /\ icy' = icy
    BY <1>3, <2>1 DEF Send
  <2> QED
    BY <1>3, <2>2, <1>0 DEF TypeInv
<1>4. CASE icy /\ mleft + left < n
  <2> DEFINE after == n - mleft - left - 1
             m1 == Least(l, after)
  <2>1. /\ Least(mleft, n) = mleft /\ Least(left, n - mleft) = left
        /\ mleft + left # n
    BY <1>4, <1>0 DEF Least, TypeInv
  <2>2. /\ audio' = (mleft..mleft + left - 1) \cup (mleft + left + 1 + m1..n - 1)
        /\ left' = METAINT - (n - mleft - left - 1 - m1)
        /\ mleft' = l - m1 /\ icy' = icy
    BY <1>4, <2>1 DEF Send
  <2>3. after \in Int /\ after >= 0 /\ after < METAINT
    BY <1>4, <1>0 DEF TypeInv
  <2>4. ASSUME after >= l
        PROVE  /\ left' = METAINT - (after - l) /\ mleft' = 0
               /\ left' \in 0..METAINT
               /\ audio' = (mleft..mleft + left - 1)
                              \cup (mleft + left + 1 + l..n - 1)
    <3>1. m1 = l
      BY <2>4, <2>3, <1>0 DEF Least
    <3>2. left' = METAINT - (after - l) /\ mleft' = 0
      BY <3>1, <2>2, <1>0, <2>3
    <3>3. left' \in 0..METAINT
      BY <3>2, <2>4, <2>3, <1>0
    <3> QED
      BY <2>2, <3>1, <3>2, <3>3
  <2>5. ASSUME after < l
        PROVE  /\ left' = METAINT /\ mleft' = l - after
               /\ mleft' \in Nat /\ left' \in 0..METAINT
               /\ audio' = mleft..mleft + left - 1
    <3>1. m1 = after
      BY <2>5, <2>3, <1>0 DEF Least
    <3>2. /\ left' = METAINT /\ mleft' = l - after
          /\ mleft + left + 1 + m1 = n
      BY <3>1, <2>2, <2>3, <1>0 DEF TypeInv
    <3>3. audio' = mleft..mleft + left - 1
      <4>1. n..n - 1 = {}
        BY <1>0
      <4> QED
        BY <4>1, <3>2, <2>2
    <3>4. mleft' \in Nat /\ left' \in 0..METAINT
      BY <3>2, <2>3, <2>5, <1>0
    <3> QED
      BY <3>2, <3>3, <3>4
  <2>6. ~(mleft >= n) /\ ~(n <= mleft + left) /\ (after >= l \/ after < l)
    BY <1>4, <1>0, <2>3 DEF TypeInv
  <2> QED
    BY <1>4, <2>2, <2>4, <2>5, <2>6, <1>0
<1> QED
  BY <1>1, <1>2, <1>3, <1>4, <1>0 DEF TypeInv

\* A chunk of a session without metadata, or of one that was told to end: it is
\* stored as it is.
LEMMA PlainReceiveInv ==
  ASSUME IInv, Receive, ~icy \/ told
  PROVE  IInv'
<1>1. metaint = 0 /\ rest <= 0 /\ dpc = "idle" /\ TypeInv
  BY DEF IInv, HeaderInv, IdleInv, Receive
<1>2. PICK n \in 0..RECEIVE, l \in MetaLens :
         /\ Send(n, l)
         /\ dpc' = "plain"
         /\ len' = n + Least(rest, 0)
         /\ metad' = metad + Least(rest, 0) - 0
         /\ rest' = IF rest < 0 THEN 0 ELSE rest
  BY <1>1 DEF Receive, Reaches
<1>3. wrote' = {} /\ harm' = Harm /\ metaint' = metaint /\ told' = told
  BY DEF Receive
<1>4. /\ icy' = icy /\ left' \in 0..METAINT /\ mleft' \in Nat
      /\ ~icy => audio' = 0..n - 1 /\ mleft' = mleft
  BY <1>1, <1>2, SendFacts
<1>5. /\ Harm \in {"none", "split", "staleRest", "cleared"}
      /\ icy => Harm = "cleared"
      /\ Harm = "none" => rest = 0
  BY <1>1 DEF Harm, TypeInv
<1>6. n \in Int /\ 0 <= n /\ n <= RECEIVE /\ RECEIVE \in Int
  BY DemuxAssumption
<1>7. /\ rest' = 0 /\ len' \in Int /\ metad' \in Int /\ len' <= RECEIVE
      /\ rest = 0 => len' = n
  BY <1>1, <1>2, <1>6 DEF Least, TypeInv
<1>8. TypeInv'
  BY <1>1, <1>2, <1>3, <1>4, <1>5, <1>7 DEF TypeInv
<1>9. PlainInv'
  <2>1. icy' /\ ~told' => FALSE
    BY <1>3, <1>4
  <2>2. harm' = "none" => len' >= 0 /\ audio' = 0..len' - 1
    BY <1>3, <1>4, <1>5, <1>6, <1>7
  <2>3. harm' # "split"
    <3>1. CASE icy
      BY <3>1, <1>5, <1>3
    <3>2. CASE ~icy
      BY <3>2, <1>1, <1>3 DEF Harm, TypeInv
    <3> QED
      BY <3>1, <3>2
  <2> QED
    BY <2>1, <2>2, <2>3, <1>7 DEF PlainInv
<1> QED
  BY <1>1, <1>2, <1>3, <1>4, <1>8, <1>9
     DEF IInv, HeaderInv, IdleInv, FirstInv, SecondInv, OverInv

\* What holds of every chunk of an undisturbed session with metadata.
LEMMA ChunkFacts ==
  ASSUME IInv, Receive, icy, ~told
  PROVE  /\ TypeInv /\ metaint = METAINT /\ METAINT # 0 /\ rest \in Int /\ rest <= 0
         /\ Level \/ (Behind /\ mleft > 0)
         /\ icy' = icy /\ told' = told /\ metaint' = metaint
         /\ wrote' = {} /\ harm' = Harm
         /\ harm' \in {"none", "split", "staleRest"}
         /\ harm' = "none" => rest = 0 /\ mleft = 0
         /\ harm' = "split" => mleft > 0
         /\ METAINT \in Nat /\ RECEIVE \in Nat /\ RECEIVE <= METAINT
<1>1. /\ TypeInv /\ metaint = METAINT /\ rest <= 0 /\ dpc = "idle"
      /\ Level \/ Behind
  BY DEF IInv, HeaderInv, IdleInv, Receive
<1>2. METAINT # 0 /\ METAINT \in Nat /\ RECEIVE \in Nat /\ RECEIVE <= METAINT
  BY DemuxAssumption
<1>3. /\ icy' = icy /\ told' = told /\ metaint' = metaint
      /\ wrote' = {} /\ harm' = Harm
  <2>1. \E n \in 0..RECEIVE, l \in MetaLens : Send(n, l)
    BY DEF Receive
  <2>2. icy' = icy
    BY <2>1, <1>1, SendFacts
  <2> QED
    BY <2>2 DEF Receive
<1>4. /\ harm' \in {"none", "split", "staleRest"}
      /\ harm' = "none" => rest = 0 /\ mleft = 0
      /\ harm' = "split" => mleft > 0
  BY <1>1, <1>2, <1>3 DEF Harm, TypeInv
<1>5. Level \/ (Behind /\ mleft > 0)
  BY <1>1, <1>2 DEF Level, Behind, TypeInv
<1> QED
  BY <1>1, <1>2, <1>3, <1>4, <1>5 DEF TypeInv

\* A chunk with a length byte, found where metad says.
LEMMA SearchedReceiveInv ==
  ASSUME IInv, Receive, icy, ~told, dpc' = "first"
  PROVE  IInv'
<1>1. PICK n \in 0..RECEIVE, l \in MetaLens :
         /\ Send(n, l) /\ Reaches(n)
         /\ \E v \in IF metad = LengthByte THEN {l} ELSE MetaLens : rest' = RestOf(n, v)
         /\ len' = n /\ metad' = metad
  BY DEF Receive
<1>2. n \in Nat /\ n <= RECEIVE /\ l \in Nat
  BY DemuxAssumption
<1>3. Level /\ n > metad
  BY <1>1, <1>2, ChunkFacts DEF Reaches, Behind
<1>4. metad = LengthByte
  BY <1>3, ChunkFacts DEF Level, LengthByte, TypeInv
<1>5. rest' = n - metad - l - 1
  BY <1>1, <1>4 DEF RestOf
<1>6. /\ mleft = 0 /\ left = metad /\ metad \in Nat
      /\ mleft + left = metad /\ mleft + left < n
      /\ n - mleft - left - 1 = n - metad - 1
  BY <1>2, <1>3, ChunkFacts DEF Level, TypeInv
<1>7. IF n - metad - 1 >= l
      THEN /\ left' = METAINT - (n - metad - 1 - l) /\ mleft' = 0
           /\ audio' = (0..metad - 1) \cup (metad + 1 + l..n - 1)
      ELSE /\ left' = METAINT /\ mleft' = l - (n - metad - 1)
           /\ audio' = 0..metad - 1
  BY <1>1, <1>6, ChunkFacts, SendFacts
<1>8. /\ IF rest' >= 0 THEN mleft' = 0 /\ left' = METAINT - rest'
                       ELSE mleft' = -rest' /\ left' = METAINT
      /\ metad' \in 0..len' - 1 /\ rest' < len' - metad' /\ rest' \in Int
  BY <1>1, <1>2, <1>3, <1>5, <1>6, <1>7, ChunkFacts
<1>9. audio' = (0..metad' - 1) \cup (len' - rest'..len' - 1)
  <2>1. CASE n - metad - 1 >= l
    <3>1. metad + 1 + l = len' - rest'
      BY <1>1, <1>2, <1>5, <1>6
    <3> QED
      BY <2>1, <3>1, <1>1, <1>7
  <2>2. CASE n - metad - 1 < l
    <3>1. (len' - rest'..len' - 1) = {}
      BY <2>2, <1>1, <1>2, <1>5, <1>6
    <3>2. audio' = 0..metad - 1
      BY <2>2, <1>2, <1>6, <1>7
    <3> QED
      BY <3>1, <3>2, <1>1
  <2> QED
    BY <2>1, <2>2, <1>2, <1>6
<1>10. /\ left' \in 0..METAINT /\ mleft' \in Nat
  BY <1>1, ChunkFacts, SendFacts
<1>11. TypeInv'
  BY <1>1, <1>2, <1>8, <1>10, <1>6, ChunkFacts DEF TypeInv
<1>12. icy' /\ ~told' /\ metaint' = METAINT
  BY ChunkFacts
<1>13. FirstInv'
  BY <1>8, <1>9, <1>12 DEF FirstInv
<1>14. HeaderInv'
  BY <1>12 DEF HeaderInv
<1>15. IdleInv' /\ SecondInv' /\ PlainInv' /\ OverInv'
  BY DEF IdleInv, SecondInv, PlainInv, OverInv
<1> QED
  BY <1>11, <1>13, <1>14, <1>15 DEF IInv

\* A chunk without a length byte.
LEMMA UnsearchedReceiveInv ==
  ASSUME IInv, Receive, icy, ~told, dpc' # "first"
  PROVE  IInv'
<1>1. PICK n \in 0..RECEIVE, l \in MetaLens :
         /\ Send(n, l) /\ ~Reaches(n) /\ dpc' = "plain"
         /\ len' = n + Least(rest, 0)
         /\ metad' = metad + Least(rest, 0) - len'
         /\ rest' = IF rest < 0 THEN 0 ELSE rest
  BY ChunkFacts DEF Receive
<1>2. n \in Nat /\ n <= RECEIVE
  BY DemuxAssumption
<1>3. n <= metad /\ metad \in Int
  BY <1>1, <1>2, ChunkFacts DEF Reaches, TypeInv
<1>4. /\ len' = n + rest /\ metad' = metad - n /\ rest' = 0
      /\ len' \in Int /\ len' <= RECEIVE /\ metad' \in Int
  BY <1>1, <1>2, <1>3, ChunkFacts DEF Least
<1>5. /\ left' \in 0..METAINT /\ mleft' \in Nat
  BY <1>1, ChunkFacts, SendFacts
<1>6. ASSUME Level
      PROVE  /\ Level'
             /\ harm' = "none" => len' >= 0 /\ audio' = 0..len' - 1
             /\ harm' = "split" /\ len' < 0 => audio' = {}
  <2>1. mleft <= n /\ n <= mleft + left /\ mleft = 0 /\ metad = left
    BY <1>6, <1>2, <1>3, ChunkFacts DEF Level, TypeInv
  <2>2. left' = left - (n - mleft) /\ mleft' = 0 /\ audio' = mleft..n - 1
    <3>1. CASE n = 0
      <4>1. left' = left /\ mleft' = mleft - n /\ audio' = {}
        BY <1>1, <2>1, <3>1, ChunkFacts, SendFacts
      <4>2. left - (n - mleft) = left /\ mleft - n = 0 /\ mleft..n - 1 = {}
        BY <2>1, <3>1, <4>1, ChunkFacts DEF TypeInv
      <4> QED
        BY <4>1, <4>2
    <3>2. CASE n # 0
      <4>1. mleft < n
        BY <2>1, <3>2, <1>2
      <4> QED
        BY <1>1, <2>1, <4>1, ChunkFacts, SendFacts
    <3> QED
      BY <3>1, <3>2
  <2>3. Level' /\ audio' = 0..n - 1
    BY <2>1, <2>2, <1>2, <1>4 DEF Level
  <2>4. ASSUME harm' = "none" PROVE len' = n
    <3>1. rest = 0
      BY <2>4, ChunkFacts
    <3> QED
      BY <3>1, <1>2, <1>4
  <2>5. harm' # "split"
    <3>1. harm' = "split" => mleft > 0
      BY ChunkFacts
    <3> QED
      BY <2>1, <3>1
  <2> QED
    BY <2>3, <2>4, <2>5, <1>2
<1>7. ASSUME Behind, mleft > 0
      PROVE  /\ \/ Level'
                \/ len' < 0 /\ left' = METAINT /\ metad' = METAINT + mleft'
             /\ harm' # "none"
             /\ len' < 0 => audio' = {}
  <2>1. /\ left = METAINT /\ metad = METAINT + mleft /\ rest = -mleft
        /\ mleft \in Nat /\ METAINT \in Nat /\ n <= METAINT
    BY <1>7, <1>2, ChunkFacts DEF Behind, TypeInv
  <2>2. harm' # "none"
    <3>1. harm' = "none" => mleft = 0
      BY ChunkFacts
    <3> QED
      BY <3>1, <1>7
  <2>3. ASSUME mleft >= n
        PROVE  /\ \/ Level'
                  \/ len' < 0 /\ left' = METAINT /\ metad' = METAINT + mleft'
               /\ audio' = {}
    <3>1. left' = left /\ mleft' = mleft - n /\ audio' = {}
      BY <1>1, <2>3, ChunkFacts, SendFacts
    <3> QED
      BY <2>1, <2>3, <3>1, <1>2, <1>4 DEF Level
  <2>4. ASSUME mleft < n
        PROVE  Level' /\ ~(len' < 0)
    <3>1. n <= mleft + left
      BY <2>1, <2>4, <1>2
    <3>2. left' = left - (n - mleft) /\ mleft' = 0
      BY <1>1, <2>4, <3>1, ChunkFacts, SendFacts
    <3> QED
      BY <2>1, <2>4, <3>2, <1>2, <1>4 DEF Level
  <2>5. mleft >= n \/ mleft < n
    BY <2>1, <1>2
  <2> QED
    BY <2>2, <2>3, <2>4, <2>5
<1>8. PlainInv'
  BY <1>4, <1>6, <1>7, ChunkFacts DEF PlainInv
<1>9. TypeInv'
  <2>1. /\ metad' \in Int /\ rest' \in Int /\ metaint' \in {0, METAINT}
        /\ len' \in Int /\ len' <= RECEIVE
    BY <1>4, ChunkFacts
  <2>2. told' \in BOOLEAN /\ icy' \in BOOLEAN /\ icy'
    BY ChunkFacts DEF TypeInv
  <2>3. harm' \in {"none", "split", "staleRest", "cleared"}
    <3>1. harm' \in {"none", "split", "staleRest"}
      BY ChunkFacts
    <3> QED
      BY <3>1
  <2> QED
    BY <1>1, <1>5, <2>1, <2>2, <2>3 DEF TypeInv
<1>10. icy' /\ ~told' /\ metaint' = METAINT
  BY ChunkFacts
<1>11. HeaderInv'
  BY <1>10 DEF HeaderInv
<1>12. IdleInv' /\ FirstInv' /\ SecondInv' /\ OverInv'
  BY <1>1 DEF IdleInv, FirstInv, SecondInv, OverInv
<1> QED
  BY <1>8, <1>9, <1>11, <1>12 DEF IInv

LEMMA ReceiveInv == IInv /\ Receive => IInv'
<1> SUFFICES ASSUME IInv, Receive PROVE IInv'
  OBVIOUS
<1>1. CASE ~icy \/ told
  BY <1>1, PlainReceiveInv
<1>2. CASE icy /\ ~told /\ dpc' = "first"
  BY <1>2, SearchedReceiveInv
<1>3. CASE icy /\ ~told /\ dpc' # "first"
  BY <1>3, UnsearchedReceiveInv
<1> QED
  BY <1>1, <1>2, <1>3

LEMMA NewSessionInv == IInv /\ NewSession => IInv'
<1> SUFFICES ASSUME IInv, NewSession PROVE IInv'
  OBVIOUS
<1>1. TypeInv /\ rest <= 0
  BY DEF IInv, IdleInv, OverInv, NewSession
<1>2. METAINT \in Nat /\ RECEIVE \in Nat
  BY DemuxAssumption
<1>3. TypeInv'
  <2>1. /\ metad' \in Int /\ metaint' \in {0, METAINT} /\ left' \in 0..METAINT
        /\ mleft' = 0 /\ len' \in Int /\ len' <= RECEIVE
    BY <1>2 DEF NewSession
  <2>2. /\ icy' \in BOOLEAN /\ told' \in BOOLEAN /\ rest' \in Int
        /\ dpc' = "idle" /\ harm' = "none" /\ mleft' \in Nat
    BY <1>1 DEF NewSession, TypeInv
  <2> QED
    BY <2>1, <2>2 DEF TypeInv
<1>4. HeaderInv'
  BY DEF NewSession, HeaderInv
<1>5. IdleInv'
  <2>1. rest' <= 0
    BY <1>1 DEF NewSession
  <2>2. icy' => Level'
    BY DEF NewSession, Level
  <2>3. wrote' = audio'
    BY DEF NewSession
  <2> QED
    BY <2>1, <2>2, <2>3 DEF IdleInv
<1> QED
  BY <1>3, <1>4, <1>5 DEF NewSession, IInv, FirstInv, SecondInv, PlainInv, OverInv

LEMMA WriteFirstInv == IInv /\ WriteFirst => IInv'
<1> SUFFICES ASSUME IInv, WriteFirst PROVE IInv'
  OBVIOUS
<1>1. TypeInv /\ HeaderInv /\ FirstInv /\ dpc = "first"
  BY DEF IInv, WriteFirst
<1>2. /\ icy /\ metad \in 0..len - 1 /\ rest < len - metad
      /\ IF rest >= 0 THEN mleft = 0 /\ left = METAINT - rest
                      ELSE mleft = -rest /\ left = METAINT
      /\ harm = "none" => audio = (0..metad - 1) \cup (len - rest..len - 1)
  BY <1>1 DEF FirstInv
<1>3. /\ rest \in Int /\ metaint \in Int /\ len \in Int /\ METAINT \in Nat
      /\ ~told => metaint = METAINT
  BY <1>1, <1>2, DemuxAssumption DEF TypeInv, HeaderInv
<1>4. /\ metad' = metaint - rest /\ metad' \in Int /\ wrote' = 0..metad - 1
      /\ UNCHANGED <<rest, metaint, len, told, icy, left, mleft, audio, harm>>
  BY <1>3 DEF WriteFirst, station
<1>5. /\ rest > 0 => dpc' = "second"
      /\ ~(rest > 0) => dpc' = IF told THEN "over" ELSE "idle"
  BY DEF WriteFirst, Return
<1>6. TypeInv'
  <2>1. dpc' \in {"idle", "first", "second", "plain", "over"}
    BY <1>5
  <2> QED
    BY <1>1, <1>4, <2>1 DEF TypeInv
<1>7. HeaderInv'
  BY <1>1, <1>4 DEF HeaderInv
<1>8. CASE rest > 0
  <2>1. rest \in 1..len
    BY <1>2, <1>3, <1>8
  <2>2. ~told' => Level'
    BY <1>2, <1>3, <1>4, <1>8 DEF Level
  <2>3. harm' = "none" => audio' = wrote' \cup (len' - rest'..len' - 1)
    BY <1>2, <1>4
  <2>4. SecondInv'
    BY <1>2, <1>4, <2>1, <2>2, <2>3 DEF SecondInv
  <2> QED
    BY <1>5, <1>6, <1>7, <1>8, <2>4 DEF IInv, IdleInv, FirstInv, PlainInv, OverInv
<1>9. CASE ~(rest > 0)
  <2>1. rest <= 0
    BY <1>3, <1>9
  <2>2. len - rest..len - 1 = {}
    BY <1>3, <2>1
  <2>3. harm' = "none" => wrote' = audio'
    BY <1>2, <1>4, <2>2
  <2>4. ~told' => Level' \/ Behind'
    BY <1>2, <1>3, <1>4, <2>1 DEF Level, Behind
  <2>5. IdleInv' /\ OverInv'
    BY <1>4, <2>1, <2>3, <2>4 DEF IdleInv, OverInv
  <2>6. dpc' \in {"idle", "over"}
    BY <1>5, <1>9
  <2> QED
    BY <1>6, <1>7, <2>5, <2>6 DEF IInv, FirstInv, SecondInv, PlainInv
<1> QED
  BY <1>8, <1>9

LEMMA WriteRestInv == IInv /\ WriteRest => IInv'
<1> SUFFICES ASSUME IInv, WriteRest PROVE IInv'
  OBVIOUS
<1>1. TypeInv /\ HeaderInv /\ SecondInv /\ dpc = "second"
  BY DEF IInv, WriteRest
<1>2. /\ rest' = 0 /\ wrote' = wrote \cup (len - rest..len - 1)
      /\ dpc' = IF told THEN "over" ELSE "idle"
      /\ UNCHANGED <<metad, metaint, len, told, icy, left, mleft, audio, harm>>
  BY DEF WriteRest, Return, station
<1>3. TypeInv'
  BY <1>1, <1>2 DEF TypeInv
<1>4. HeaderInv'
  BY <1>1, <1>2 DEF HeaderInv
<1>5. IdleInv' /\ OverInv'
  BY <1>1, <1>2 DEF SecondInv, IdleInv, OverInv, Level
<1> QED
  BY <1>2, <1>3, <1>4, <1>5 DEF IInv, FirstInv, SecondInv, PlainInv

LEMMA WritePlainInv == IInv /\ WritePlain => IInv'
<1> SUFFICES ASSUME IInv, WritePlain PROVE IInv'
  OBVIOUS
<1>1. TypeInv /\ HeaderInv /\ PlainInv /\ dpc = "plain" /\ len >= 0
  BY DEF IInv, WritePlain
<1>2. /\ wrote' = rest..rest + len - 1
      /\ dpc' = IF told THEN "over" ELSE "idle"
      /\ UNCHANGED <<metad, rest, metaint, len, told, icy, left, mleft, audio, harm>>
  BY DEF WritePlain, Return, station
<1>3. rest = 0 /\ len \in Int /\ ~(len < 0)
  BY <1>1 DEF PlainInv, TypeInv
<1>4. wrote' = 0..len - 1
  BY <1>2, <1>3
<1>5. TypeInv'
  BY <1>1, <1>2 DEF TypeInv
<1>6. HeaderInv'
  BY <1>1, <1>2 DEF HeaderInv
<1>7. rest' <= 0
  BY <1>2, <1>3
<1>8. /\ icy' /\ ~told' => Level'
      /\ harm' = "none" => wrote' = audio'
  BY <1>1, <1>2, <1>3, <1>4 DEF PlainInv, Level
<1>9. IdleInv' /\ OverInv'
  BY <1>7, <1>8 DEF IdleInv, OverInv
<1> QED
  BY <1>2, <1>5, <1>6, <1>9 DEF IInv, FirstInv, SecondInv, PlainInv

LEMMA DisconnectInv == IInv /\ Disconnect => IInv'
<1> SUFFICES ASSUME IInv, Disconnect PROVE IInv'
  OBVIOUS
<1>1. /\ told' /\ told' \in BOOLEAN /\ metaint' = 0
      /\ UNCHANGED <<metad, rest, dpc, len, icy, left, mleft, audio, wrote, harm>>
  BY DEF Disconnect, station
<1>2. TypeInv'
  BY <1>1 DEF IInv, TypeInv
<1>3. HeaderInv'
  BY <1>1 DEF HeaderInv
<1>4. IdleInv' /\ OverInv'
  BY <1>1 DEF IInv, IdleInv, OverInv
<1>5. FirstInv' /\ SecondInv'
  BY <1>1 DEF IInv, FirstInv, SecondInv
<1>6. PlainInv'
  BY <1>1 DEF IInv, PlainInv
<1> QED
  BY <1>2, <1>3, <1>4, <1>5, <1>6 DEF IInv

LEMMA StutterInv == IInv /\ UNCHANGED vars => IInv'
BY DEF vars, code, station, IInv, TypeInv, HeaderInv, IdleInv, FirstInv, SecondInv,
       PlainInv, OverInv, Level, Behind

\* The invariant: at every place where the callback sleeps its numbers and the
\* station agree.
THEOREM Invariance == Spec => []IInv
<1>1. IInv /\ [Next]_vars => IInv'
  BY NewSessionInv, ReceiveInv, WriteFirstInv, WriteRestInv, WritePlainInv,
     DisconnectInv, StutterInv DEF Next, Write
<1> QED
  BY <1>1, InitInv, PTL DEF Spec

\* Types; the callback reads a length byte, and writes, only inside the chunk
\* (webclient.c:561-578).
THEOREM InBounds == Spec => []TypeOK
<1>1. IInv => TypeOK
  BY DEF IInv, TypeInv, FirstInv, SecondInv, TypeOK
<1> QED
  BY <1>1, Invariance, PTL

\* However TCP cuts the stream, metad and a negative rest tell the callback of an
\* undisturbed session where it is in it (webclient.c:561-592).
THEOREM SyncKept == Spec => []InSync
<1>1. IInv => InSync
  <2> SUFFICES ASSUME IInv, icy, ~told, dpc = "idle"
               PROVE  metaint = METAINT /\ (Level \/ Behind)
    BY DEF InSync, Level, Behind
  <2> QED
    BY DEF IInv, HeaderInv, IdleInv
<1> QED
  BY <1>1, Invariance, PTL

\* Of a chunk that does not begin in a metadata block exactly the audio bytes go
\* to the ring (webclient.c:570-591).
THEOREM AudioStored == Spec => []OnlyAudio
<1>1. IInv => OnlyAudio
  BY DEF IInv, IdleInv, OverInv, OnlyAudio
<1> QED
  BY <1>1, Invariance, PTL

\* clientTask waits for room for a negative length only after a chunk that is
\* metadata throughout or was not searched for it (webclient.c:588-590).
THEOREM WaitsEnd == Spec => []WaitCanEnd
<1>1. IInv => WaitCanEnd
  <2> SUFFICES ASSUME IInv, dpc = "plain", len < 0
               PROVE  \/ harm = "split" /\ audio = {}
                      \/ harm \in {"staleRest", "cleared"}
    BY DEF WaitCanEnd
  <2>1. /\ harm \in {"none", "split", "staleRest", "cleared"}
        /\ harm = "none" => len >= 0
        /\ harm = "split" => audio = {}
        /\ len \in Int
    BY DEF IInv, TypeInv, PlainInv
  <2>2. harm # "none"
    BY <2>1
  <2> QED
    BY <2>1, <2>2
<1> QED
  BY <1>1, Invariance, PTL

-----------------------------------------------------------------------------
(* The chunks of a transfer encoding: ChunkedDemux *)

ChunkTypeInv ==
    /\ chunked \in 0..WORD - 1 /\ cchunk \in 0..WORD - 1
    /\ cpc \in {"idle", "more", "wait", "fault", "over"}
    /\ bytes_read \in 0..RECV + SECURE
    /\ encoded \in BOOLEAN /\ ended \in BOOLEAN /\ lost \in BOOLEAN
    /\ togo \in Nat /\ tail \in 0..2

CodingInv == IF encoded THEN chunked # 0
                        ELSE chunked = 0 /\ cchunk = 0 /\ togo = 0 /\ ~lost /\ cpc # "more"
PlaceInv  == lost => togo = 0
LineInv   == cpc = "more" => bytes_read > cchunk /\ payload = {}
BufferInv == payload \subseteq 0..bytes_read - 1

ChunkInv == ChunkTypeInv /\ CodingInv /\ PlaceInv /\ LineInv /\ BufferInv /\
        InStep /\ PayloadPassed /\ WaitsForLoneLf

\* The modulus is what it should be.
LEMMA ModFacts ==
  ASSUME NEW i \in Int
  PROVE  /\ i % WORD \in 0..WORD - 1
         /\ 0 <= i /\ i < WORD => i % WORD = i
<1>1. WORD \in Nat /\ WORD > 0
  BY ChunkedAssumption
<1>2. DEFINE W == WORD
<1>3. W \in Int /\ W > 0
  BY <1>1
<1> HIDE DEF W
<1>4. i % W \in 0..W - 1
  BY <1>3
<1>5. 0 <= i /\ i < W => i % W = i
  BY <1>3
<1> QED
  BY <1>4, <1>5 DEF W

LEMMA Params ==
  /\ WORD \in Int /\ RECV \in Int /\ SECURE \in Int
  /\ WORD > 0 /\ RECV > 0 /\ SECURE >= 0
  BY ChunkedAssumption

LEMMA ChunkInitInv == ChunkInit => ChunkInv
<1> SUFFICES ASSUME ChunkInit PROVE ChunkInv
  OBVIOUS
<1>1. ChunkTypeInv
  <2>1. 0 \in 0..WORD - 1 /\ 0 \in 0..RECV + SECURE /\ 0 \in 0..2 /\ 0 \in Nat
    BY Params
  <2> QED
    BY <2>1 DEF ChunkInit, ChunkTypeInv
<1>2. BufferInv
  BY DEF ChunkInit, BufferInv
<1> QED
  BY <1>1, <1>2 DEF ChunkInit, ChunkInv, CodingInv, PlaceInv, LineInv, InStep, PayloadPassed,
     WaitsForLoneLf

LEMMA HeaderEndsInv == ChunkInv /\ HeaderEnds => ChunkInv'
<1> SUFFICES ASSUME ChunkInv, HeaderEnds PROVE ChunkInv'
  OBVIOUS
<1>1. PICK s \in Sizes, line \in BOOLEAN :
         /\ chunked' = IF encoded' THEN s + 2 ELSE 0
         /\ togo' = chunked'
         /\ cpc' = IF encoded' /\ ~line THEN "fault" ELSE "idle"
  BY DEF HeaderEnds
<1>2. /\ encoded' \in BOOLEAN /\ cchunk' = chunked' /\ bytes_read' = 0 /\ ended' = FALSE
      /\ payload' = {} /\ passed' = {} /\ lost' = FALSE /\ tail' = 0
  BY DEF HeaderEnds
<1>3. s \in Nat /\ s > 0 /\ s + 2 < WORD /\ WORD \in Nat /\ RECV \in Nat /\ SECURE \in Nat
  BY ChunkedAssumption
<1>4. ChunkTypeInv'
  <2>1. chunked' \in 0..WORD - 1 /\ chunked' \in Nat
    BY <1>1, <1>2, <1>3
  <2>2. bytes_read' \in 0..RECV + SECURE /\ tail' \in 0..2
    BY <1>2, <1>3
  <2> QED
    BY <1>1, <1>2, <2>1, <2>2 DEF ChunkTypeInv
<1>5. CodingInv' /\ PlaceInv' /\ LineInv' /\ BufferInv'
  BY <1>1, <1>2, <1>3 DEF CodingInv, PlaceInv, LineInv, BufferInv
<1>6. InStep' /\ PayloadPassed' /\ WaitsForLoneLf'
  BY <1>1, <1>2 DEF InStep, PayloadPassed, WaitsForLoneLf
<1> QED
  BY <1>4, <1>5, <1>6 DEF ChunkInv

\* Sessions without chunks.
LEMMA PlainBufferInv ==
  ASSUME ChunkInv, cpc = "idle", NEW m \in 1..RECV, bytes_read' = m, Plain(m), Within(m),
         UNCHANGED chunked
  PROVE  ChunkInv'
<1>1. m \in Nat /\ m >= 1 /\ RECV \in Nat /\ SECURE \in Nat
  BY ChunkedAssumption
<1>2. ~encoded /\ chunked = 0 /\ cchunk = 0 /\ togo = 0 /\ ~lost
  BY DEF ChunkInv, CodingInv, Plain
<1>3. /\ passed' = 0..m - 1 /\ cpc' = "idle" /\ cchunk' = 0
  BY <1>1, <1>2 DEF Plain, PassOn
<1>4. /\ togo' = 0 /\ payload' = 0..m - 1 /\ tail' = 0
      /\ encoded' = encoded /\ ended' = ended /\ lost' = lost
  BY <1>2 DEF Within
<1>5. ChunkTypeInv'
  BY <1>1, <1>2, <1>3, <1>4 DEF ChunkInv, ChunkTypeInv
<1>6. CodingInv' /\ PlaceInv' /\ LineInv' /\ BufferInv'
  BY <1>1, <1>2, <1>3, <1>4 DEF CodingInv, PlaceInv, LineInv, BufferInv
<1>7. InStep' /\ PayloadPassed' /\ WaitsForLoneLf'
  BY <1>2, <1>3, <1>4 DEF InStep, PayloadPassed, WaitsForLoneLf
<1> QED
  BY <1>5, <1>6, <1>7 DEF ChunkInv

\* A buffer of m bytes that does not reach the next size line.
LEMMA WithinBufferInv ==
  ASSUME ChunkInv, cpc = "idle", chunked # 0, NEW m \in 1..RECV, bytes_read' = m,
         AtLf(m) \/ AtCr(m) \/ Inside(m), Within(m), UNCHANGED chunked
  PROVE  ChunkInv'
<1>1. /\ m \in Int /\ m >= 1 /\ m <= RECV /\ RECV \in Int /\ SECURE \in Nat
      /\ cchunk \in Int /\ cchunk >= 0 /\ cchunk <= WORD - 1 /\ WORD \in Int
      /\ togo \in Int /\ togo >= 0
  BY ChunkedAssumption DEF ChunkInv, ChunkTypeInv
<1>2. encoded /\ (lost => togo = 0) /\ (~lost => cchunk = togo)
  BY DEF ChunkInv, CodingInv, PlaceInv, InStep
<1>3. /\ togo' = IF ~lost THEN togo - m ELSE togo
      /\ payload' = 0..Lesser(m, togo - 2) - 1
      /\ tail' = 0 /\ encoded' = encoded /\ ended' = ended /\ lost' = lost
  BY <1>2 DEF Within
<1> DEFINE ahead == cchunk - m
           held  == IF m = cchunk THEN m - 2 ELSE IF m = cchunk - 1 THEN m - 1 ELSE m
<1>4. /\ ahead >= 0 /\ cchunk' = ahead
      /\ passed' = 0..held - 1
      /\ cpc' = IF held < 0 THEN "wait" ELSE "idle"
  <2>1. CASE AtLf(m)
    BY <2>1, <1>1 DEF AtLf, PassOn
  <2>2. CASE AtCr(m)
    BY <2>2, <1>1 DEF AtCr, PassOn
  <2>3. CASE Inside(m)
    BY <2>3, <1>1 DEF Inside, PassOn
  <2> QED
    BY <2>1, <2>2, <2>3
<1>5. ~lost => held = Lesser(m, togo - 2)
  BY <1>1, <1>2, <1>4 DEF Lesser
<1>6. ChunkTypeInv'
  BY <1>1, <1>2, <1>3, <1>4 DEF ChunkInv, ChunkTypeInv
<1>7. BufferInv'
  BY <1>1, <1>3 DEF BufferInv, Lesser
<1>8. CodingInv' /\ PlaceInv' /\ LineInv'
  BY <1>2, <1>3, <1>4 DEF CodingInv, PlaceInv, LineInv
<1>9. InStep'
  BY <1>2, <1>3, <1>4 DEF InStep
<1>10. PayloadPassed'
  <2>1. ~lost => passed' = payload' /\ ~(tail' > 0)
    BY <1>3, <1>4, <1>5
  <2> QED
    BY <2>1, <1>3 DEF PayloadPassed
<1>11. WaitsForLoneLf'
  <2>1. held < 0 => m = 1 /\ ahead = 0
    BY <1>1
  <2>2. held < 0 /\ ~lost => payload' = {} /\ togo' = 0
    BY <2>1, <1>1, <1>2, <1>3, <1>5
  <2> QED
    BY <2>1, <2>2, <1>3, <1>4 DEF WaitsForLoneLf
<1> QED
  BY <1>6, <1>7, <1>8, <1>9, <1>10, <1>11 DEF ChunkInv

LEMMA ReceiveWithinInv == ChunkInv /\ ReceiveWithin => ChunkInv'
<1> SUFFICES ASSUME ChunkInv, ReceiveWithin PROVE ChunkInv'
  OBVIOUS
<1>1. PICK m \in 1..RECV :
         /\ bytes_read' = m /\ Within(m) /\ chunked' = chunked
         /\ \/ Plain(m)
            \/ chunked # 0 /\ (AtLf(m) \/ AtCr(m) \/ Inside(m))
  BY DEF ReceiveWithin
<1> QED
  BY <1>1, PlainBufferInv, WithinBufferInv DEF ReceiveWithin

LEMMA ReceiveLineInv == ChunkInv /\ ReceiveLine => ChunkInv'
<1> SUFFICES ASSUME ChunkInv, ReceiveLine PROVE ChunkInv'
  OBVIOUS
<1>1. /\ bytes_read' \in 1..RECV /\ bytes_read' > cchunk /\ cpc' = "more" /\ cpc = "idle"
      /\ chunked # 0 /\ payload' = {} /\ passed' = {} /\ tail' = 0
      /\ chunked' = chunked /\ cchunk' = cchunk /\ lost' = lost
      /\ encoded' = encoded /\ togo' = togo /\ ended' = ended
  BY DEF ReceiveLine, source
<1>2. ChunkTypeInv'
  BY <1>1, ChunkedAssumption DEF ChunkInv, ChunkTypeInv
<1>3. CodingInv' /\ PlaceInv' /\ LineInv' /\ BufferInv'
  BY <1>1 DEF ChunkInv, CodingInv, PlaceInv, LineInv, BufferInv
<1>4. InStep' /\ PayloadPassed' /\ WaitsForLoneLf'
  BY <1>1 DEF ChunkInv, InStep, PayloadPassed, WaitsForLoneLf
<1> QED
  BY <1>2, <1>3, <1>4 DEF ChunkInv

LEMMA MoreInv == ChunkInv /\ More => ChunkInv'
<1> SUFFICES ASSUME ChunkInv, More PROVE ChunkInv'
  OBVIOUS
<1>1. /\ bytes_read' \in bytes_read + 1..RECV + SECURE /\ cpc' = "more" /\ cpc = "more"
      /\ chunked' = chunked /\ cchunk' = cchunk /\ lost' = lost
      /\ encoded' = encoded /\ togo' = togo /\ ended' = ended
      /\ payload' = payload /\ passed' = passed /\ tail' = tail
  BY DEF More, source
<1>2. /\ bytes_read \in Nat /\ bytes_read' \in Nat
      /\ bytes_read' > bytes_read /\ bytes_read' <= RECV + SECURE
      /\ cchunk \in Nat /\ bytes_read > cchunk
  BY <1>1, ChunkedAssumption DEF ChunkInv, ChunkTypeInv, LineInv
<1>3. ChunkTypeInv'
  BY <1>1, <1>2, ChunkedAssumption DEF ChunkInv, ChunkTypeInv
<1>4. CodingInv' /\ PlaceInv' /\ LineInv' /\ BufferInv'
  <2>1. bytes_read' > cchunk' /\ payload' = {}
    BY <1>1, <1>2 DEF ChunkInv, LineInv
  <2>2. CodingInv' /\ PlaceInv'
    BY <1>1 DEF ChunkInv, CodingInv, PlaceInv
  <2> QED
    BY <2>1, <2>2 DEF LineInv, BufferInv
<1>5. InStep' /\ PayloadPassed' /\ WaitsForLoneLf'
  BY <1>1 DEF ChunkInv, InStep, PayloadPassed, WaitsForLoneLf
<1> QED
  BY <1>3, <1>4, <1>5 DEF ChunkInv

\* What the last lc bytes of a buffer of k bytes are when they are moved to the
\* place after the kept ones.
After(kept, held, k, lc) == {i + (k - lc) - kept : i \in kept..held - 1}

LEMMA Moved ==
  ASSUME NEW k \in Nat, NEW kept \in Nat, NEW lc \in Nat
  PROVE  After(kept, kept + lc, k, lc) = k - lc..k - 1
<1> DEFINE f(i) == i + (k - lc) - kept
<1>1. ASSUME NEW i \in kept..(kept + lc) - 1
      PROVE  f(i) \in k - lc..k - 1
  OBVIOUS
<1>2. ASSUME NEW j \in k - lc..k - 1
      PROVE  \E i \in kept..(kept + lc) - 1 : j = f(i)
  <2>1. j - (k - lc) + kept \in kept..(kept + lc) - 1
    OBVIOUS
  <2>2. j = f(j - (k - lc) + kept)
    OBVIOUS
  <2> HIDE DEF f
  <2> QED
    BY <2>1, <2>2
<1> HIDE DEF f
<1>3. {f(i) : i \in kept..(kept + lc) - 1} = k - lc..k - 1
  BY <1>1, <1>2
<1> QED
  BY <1>3 DEF f, After

LEMMA ParseInv == ChunkInv /\ Parse => ChunkInv'
<1> SUFFICES ASSUME ChunkInv, Parse PROVE ChunkInv'
  OBVIOUS
<1>1. PICK h \in LineLens, s \in Sizes :
         LET lc == bytes_read - cchunk - h IN
         /\ chunked' = s + 2
         /\ cchunk' = Rest(s, lc)
         /\ passed' = 0..Kept - 1 \cup
                      {i + (bytes_read - lc) - Kept : i \in Kept..Len(h) - 1}
         /\ payload' = 0..togo - 3 \cup togo + h..togo + h + Lesser(s, lc) - 1
         /\ lost' = (lost \/ lc > s + 2)
         /\ togo' = IF lost' THEN 0 ELSE s + 2 - lc
         /\ tail' = IF lc > s THEN Lesser(2, lc - s) ELSE 0
  BY DEF Parse
<1> DEFINE lc == bytes_read - cchunk - h
<1>2. /\ cpc = "more" /\ ~Short /\ cpc' = "idle"
      /\ bytes_read' = bytes_read /\ encoded' = encoded /\ ended' = ended
  BY DEF Parse
<1>3. /\ h \in Nat /\ h >= 1 /\ h <= SECURE /\ SECURE \in Nat /\ RECV \in Nat
      /\ s \in Nat /\ s >= 1 /\ s + 2 < WORD /\ WORD \in Nat
  BY ChunkedAssumption
<1>4. /\ bytes_read \in Nat /\ cchunk \in Nat /\ togo \in Nat /\ bytes_read >= cchunk + SECURE
      /\ bytes_read <= RECV + SECURE
  BY <1>2, <1>3 DEF ChunkInv, ChunkTypeInv, Short
<1>5. lc \in Nat /\ cchunk + h <= bytes_read /\ lc = bytes_read - cchunk - h
  BY <1>3, <1>4
<1>6. encoded /\ (lost => togo = 0) /\ (~lost => cchunk = togo) /\ lost \in BOOLEAN
  BY <1>2 DEF ChunkInv, ChunkTypeInv, CodingInv, PlaceInv, InStep
<1>7. chunked' = s + 2 /\ cchunk' = Rest(s, lc)
  BY <1>1
<1>8. passed' = 0..Kept - 1 \cup {i + (bytes_read - lc) - Kept : i \in Kept..Len(h) - 1}
  BY <1>1
<1>9. payload' = 0..togo - 3 \cup togo + h..togo + h + Lesser(s, lc) - 1
  BY <1>1
<1>10. /\ lost' = (lost \/ lc > s + 2)
       /\ togo' = IF lost' THEN 0 ELSE s + 2 - lc
       /\ tail' = IF lc > s THEN Lesser(2, lc - s) ELSE 0
  BY <1>1
<1> HIDE DEF lc
<1>11. lost' \in BOOLEAN /\ (~lost' => ~lost /\ lc <= s + 2 /\ togo' = s + 2 - lc)
  <2>1. lc > s + 2 \/ lc <= s + 2
    BY <1>3, <1>5
  <2>2. CASE lc > s + 2
    BY <2>2, <1>10
  <2>3. CASE ~(lc > s + 2)
    <3>1. lost' = lost
      BY <2>3, <1>6, <1>10
    <3> QED
      BY <3>1, <2>1, <2>3, <1>6, <1>10
  <2> QED
    BY <2>2, <2>3
<1>12. cchunk' \in 0..WORD - 1 /\ (lc <= s + 2 => cchunk' = s + 2 - lc)
  <2>1. s + 2 - lc \in Int /\ s + 2 - lc < WORD
    BY <1>3, <1>5
  <2>2. cchunk' = (s + 2 - lc) % WORD
    BY <1>7 DEF Rest
  <2> QED
    BY <2>1, <2>2, <1>3, <1>5, ModFacts
<1>13. ChunkTypeInv'
  <2>1. /\ chunked' \in 0..WORD - 1 /\ bytes_read' \in 0..RECV + SECURE
        /\ encoded' \in BOOLEAN /\ ended' \in BOOLEAN
    BY <1>7, <1>2, <1>3, <1>4, <1>6 DEF ChunkInv, ChunkTypeInv
  <2>2. togo' \in Nat
    BY <1>3, <1>5, <1>10, <1>11
  <2>3. tail' \in 0..2
    BY <1>3, <1>5, <1>10 DEF Lesser
  <2> QED
    BY <2>1, <2>2, <2>3, <1>2, <1>11, <1>12 DEF ChunkTypeInv
<1>14. BufferInv'
  <2>1. togo + h + Lesser(s, lc) <= bytes_read /\ togo <= bytes_read /\ Lesser(s, lc) \in Nat
    BY <1>3, <1>4, <1>5, <1>6 DEF Lesser
  <2>2. payload' \subseteq 0..bytes_read - 1
    BY <1>9, <1>3, <1>4, <2>1
  <2> QED
    BY <2>2, <1>2 DEF BufferInv
<1>15. CodingInv' /\ PlaceInv' /\ LineInv'
  BY <1>7, <1>2, <1>3, <1>6, <1>10 DEF CodingInv, PlaceInv, LineInv
<1>16. InStep'
  BY <1>11, <1>12 DEF InStep
<1>17. passed' = 0..Kept - 1 \cup cchunk + h..bytes_read - 1
  <2>1. Kept \in Nat /\ Len(h) = Kept + lc /\ bytes_read - lc = cchunk + h
    BY <1>3, <1>4, <1>5 DEF Kept, Len
  <2>2. After(Kept, Kept + lc, bytes_read, lc) = bytes_read - lc..bytes_read - 1
    BY <2>1, <1>4, <1>5, Moved
  <2>3. passed' = 0..Kept - 1 \cup After(Kept, Len(h), bytes_read, lc)
    BY <1>8 DEF After
  <2> QED
    BY <2>1, <2>2, <2>3
<1>18. PayloadPassed'
  <2> SUFFICES ASSUME ~lost'
               PROVE  passed' = payload' \cup
                        (IF tail' > 0 THEN bytes_read' - tail'..bytes_read' - 1 ELSE {})
    BY DEF PayloadPassed
  <2>1. lc <= s + 2 /\ cchunk = togo
    BY <1>6, <1>11
  <2>2. 0..Kept - 1 = 0..togo - 3
    BY <2>1, <1>4 DEF Kept
  <2>3. CASE lc <= s
    <3>1. tail' = 0 /\ togo + h + Lesser(s, lc) - 1 = bytes_read - 1
      BY <2>1, <2>3, <1>10, <1>3, <1>4, <1>5 DEF Lesser
    <3>2. payload' = 0..togo - 3 \cup togo + h..bytes_read - 1
      BY <3>1, <1>9
    <3>3. ~(tail' > 0)
      BY <3>1
    <3> QED
      BY <3>1, <3>2, <3>3, <2>1, <2>2, <1>17
  <2>4. CASE lc > s
    <3>1. tail' = lc - s /\ tail' > 0 /\ tail' \in Nat
      BY <2>1, <2>4, <1>10, <1>3, <1>5 DEF Lesser
    <3>2. /\ togo + h + Lesser(s, lc) = bytes_read - tail' /\ bytes_read - tail' <= bytes_read
          /\ togo + h + Lesser(s, lc) - 1 = bytes_read - tail' - 1
      BY <3>1, <2>1, <2>4, <1>3, <1>4, <1>5 DEF Lesser
    <3>3. togo + h <= bytes_read - tail' /\ bytes_read - tail' \in Int /\ togo + h \in Int
      BY <3>1, <3>2, <2>1, <2>4, <1>3, <1>4, <1>5 DEF Lesser
    <3>4. togo + h..bytes_read - 1 = togo + h..bytes_read - tail' - 1 \cup bytes_read - tail'..bytes_read - 1
      BY <3>2, <3>3, <3>1, <1>4
    <3>5. payload' = 0..togo - 3 \cup togo + h..bytes_read - tail' - 1
      BY <3>2, <1>9
    <3>6. passed' = payload' \cup bytes_read - tail'..bytes_read - 1
      BY <3>4, <3>5, <2>1, <2>2, <1>17
    <3> QED
      BY <3>1, <3>6, <1>2
  <2> QED
    BY <2>3, <2>4, <1>3, <1>5
<1>19. WaitsForLoneLf'
  BY <1>2 DEF WaitsForLoneLf
<1> QED
  BY <1>13, <1>14, <1>15, <1>16, <1>18, <1>19 DEF ChunkInv

\* The station closes, clientTask notices it, or nothing happens.
LEMMA RestInv == ChunkInv /\ (End \/ SeeEnd \/ UNCHANGED chunkVars) => ChunkInv'
<1> SUFFICES ASSUME ChunkInv, End \/ SeeEnd \/ UNCHANGED chunkVars PROVE ChunkInv'
  OBVIOUS
<1>1. /\ chunked' = chunked /\ cchunk' = cchunk /\ bytes_read' = bytes_read /\ encoded' = encoded
      /\ togo' = togo /\ payload' = payload /\ passed' = passed
      /\ lost' = lost /\ tail' = tail /\ ended' \in BOOLEAN
      /\ cpc' = cpc \/ cpc' = "over"
  BY DEF ChunkInv, ChunkTypeInv, End, SeeEnd, chunkVars, coding, source
<1>2. ChunkTypeInv'
  BY <1>1 DEF ChunkInv, ChunkTypeInv
<1>3. CodingInv' /\ PlaceInv' /\ LineInv' /\ BufferInv'
  BY <1>1 DEF ChunkInv, CodingInv, PlaceInv, LineInv, BufferInv
<1>4. InStep' /\ PayloadPassed' /\ WaitsForLoneLf'
  BY <1>1 DEF ChunkInv, InStep, PayloadPassed, WaitsForLoneLf
<1> QED
  BY <1>2, <1>3, <1>4 DEF ChunkInv

THEOREM ChunkInvariance == ChunkSpec => []ChunkInv
<1>1. ChunkInv /\ [ChunkNext]_chunkVars => ChunkInv'
  BY HeaderEndsInv, ReceiveWithinInv, ReceiveLineInv, MoreInv, ParseInv, RestInv DEF ChunkNext
<1> QED
  BY ChunkInitInv, <1>1, PTL DEF ChunkSpec

\* Types; no buffer is larger than bufrec.
THEOREM ChunkTypeCorrect == ChunkSpec => []ChunkTypeOK
<1>1. ChunkInv => ChunkTypeOK
  BY DEF ChunkInv, ChunkTypeInv, BufferInv, ChunkTypeOK
<1> QED
  BY ChunkInvariance, <1>1, PTL

\* The callback knows where the next size line is.
THEOREM StaysInStep == ChunkSpec => []InStep
<1>1. ChunkInv => InStep
  BY DEF ChunkInv
<1> QED
  BY ChunkInvariance, <1>1, PTL

\* Exactly the payload is passed on, and a CR LF that ends the buffer.
THEOREM PayloadCorrect == ChunkSpec => []PayloadPassed
<1>1. ChunkInv => PayloadPassed
  BY DEF ChunkInv
<1> QED
  BY ChunkInvariance, <1>1, PTL

\* The callback waits for ever only for a lone LF.
THEOREM WaitCorrect == ChunkSpec => []WaitsForLoneLf
<1>1. ChunkInv => WaitsForLoneLf
  BY DEF ChunkInv
<1> QED
  BY ChunkInvariance, <1>1, PTL
=============================================================================
