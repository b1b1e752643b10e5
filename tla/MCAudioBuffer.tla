--------------------------- MODULE MCAudioBuffer ---------------------------
(* AudioBuffer for TLC; the sizes are in the .cfg files.  StreamLen bounds  *)
(* a connection, not the run: connections follow one another for ever.      *)
EXTENDS AudioBuffer
=============================================================================
