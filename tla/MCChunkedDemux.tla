---------------------------- MODULE MCChunkedDemux ----------------------------
(* ChunkedDemux for TLC: buffers of at most 9 bytes and 6 more, size lines of  *)
(* 3 and 4 bytes, chunks smaller and larger than a buffer.  The last chunk's 5 *)
(* bytes are fewer than SECURE, as in the code.                                *)
EXTENDS ChunkedDemux
=============================================================================
