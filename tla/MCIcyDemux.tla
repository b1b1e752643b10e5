----------------------------- MODULE MCIcyDemux -----------------------------
(* IcyDemux for TLC: chunks of at most 8 bytes, metadata after every 9, blocks *)
(* of 0, 1, 4 and 10 bytes: less and more than a chunk.                        *)
EXTENDS IcyDemux
=============================================================================
