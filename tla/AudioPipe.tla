----------------------------- MODULE AudioPipe -----------------------------
(***************************************************************************)
(* What the audio buffer promises to the two tasks that use it: a bounded  *)
(* pipe.  The client task puts the bytes of the current connection in, the *)
(* decoder task takes them out in the order they arrived, never more than  *)
(* are there, and a reset empties the pipe.                                *)
(*                                                                         *)
(* The code keeps this promise with three unsynchronised globals (wptr,    *)
(* rptr, bempty), so it keeps it only until a task switch falls into one   *)
(* of a few windows (AudioBuffer names them).  From then on, until a reset *)
(* that meets no read in progress, the pipe promises nothing: ~sound.      *)
(***************************************************************************)
EXTENDS Integers

CONSTANTS BUFFER_SIZE,  \* capacity in bytes
          VSTASKBUF,    \* most bytes one read takes
          RECEIVE       \* most bytes one write puts

VARIABLES put,    \* bytes of this connection put so far
          taken,  \* bytes of this connection taken so far
          sound   \* the promise holds

pipe == <<put, taken, sound>>

Init == put = 0 /\ taken = 0 /\ sound = TRUE

Put == /\ sound
       /\ \E n \in 1..RECEIVE : /\ put + n - taken <= BUFFER_SIZE
                                /\ put' = put + n
       /\ UNCHANGED <<taken, sound>>

Take == /\ sound
        /\ \E n \in 1..VSTASKBUF : /\ taken + n <= put
                                   /\ taken' = taken + n
        /\ UNCHANGED <<put, sound>>

Reset == put' = 0 /\ taken' = 0 /\ sound' = TRUE

\* A task switch fell into a window: nothing is known of the pipe's contents.
Break == sound' = FALSE /\ put' = 0 /\ taken' = 0

Next == Put \/ Take \/ Reset \/ Break

Spec == Init /\ [][Next]_pipe
=============================================================================
