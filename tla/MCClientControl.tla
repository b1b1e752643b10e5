-------------------------- MODULE MCClientControl --------------------------
(* ClientControl for TLC: two callers, two stations and a playlist. *)
EXTENDS ClientControl, TLC

Stations == Permutations(Station)

\* What went wrong first makes no difference to what comes after it.
SlipOrNot == <<sems, cstatus, server, target, client, calls, sess, want, named,
               slip = "none">>
=============================================================================
