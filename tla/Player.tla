------------------------------- MODULE Player -------------------------------
(***************************************************************************)
(* What the control of the radio promises to who listens and to who gives  *)
(* commands: nothing is ever heard but what was named and then asked for,  *)
(* what is asked for last decides, and after a stop nothing begins until   *)
(* something is asked for again.                                           *)
(*                                                                         *)
(* Only the beginning of what is heard is tied to a request: a stop takes  *)
(* its time to be heard, and meanwhile nothing else can be asked for.      *)
(*                                                                         *)
(* The code keeps the promise with binary semaphores and fields that all   *)
(* write, so only until commands and sessions meet in one of ten ways      *)
(* (ClientControl names them).  From then on, until a command begins when  *)
(* all is at rest or the radio is started again, nothing is promised:      *)
(* ~kept.                                                                  *)
(***************************************************************************)
CONSTANTS Station,  \* what can be heard
          None

VARIABLES named,    \* the station that was named last, in pieces or as a whole
          asked,    \* the station that is to be heard, or None
          heard,    \* the one that is, or None
          kept      \* the promise holds

player == <<named, asked, heard, kept>>

Init == named = None /\ asked = None /\ heard = None /\ kept = TRUE

Name == /\ named' \in Station \cup {None}
        /\ UNCHANGED <<asked, heard>>

\* A command, a playlist or a redirection asks for what is named, maybe by itself:
\* in silence.
Ask == /\ heard = None
       /\ named' \in Station /\ asked' = named'
       /\ UNCHANGED heard

\* A stop; or the station cannot be found, or has nothing to play, or names another
\* one that nobody wants any more.
Forget == /\ asked' = None
          /\ named' \in Station \cup {None}
          /\ UNCHANGED heard

Play == /\ heard = None /\ asked # None
        /\ heard' = asked
        /\ UNCHANGED <<named, asked>>

\* The sound ends, for a while or for good.
Fade == /\ heard' = None
        /\ asked' \in {asked, None}
        /\ UNCHANGED named

Silence == named' \in Station \cup {None} /\ asked' = None /\ heard' = None

Break == Silence /\ kept' = FALSE
Mend  == Silence /\ kept' = TRUE

Next == \/ kept /\ UNCHANGED kept /\ (Name \/ Ask \/ Forget \/ Play \/ Fade)
        \/ Break \/ Mend

Spec == Init /\ [][Next]_player
=============================================================================
