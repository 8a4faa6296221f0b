-------------------------- MODULE MCDeflateBuffer --------------------------
(* Small instances of DeflateBuffer.                                       *)
EXTENDS DeflateBuffer

MCFlushes == {NO_FLUSH, SYNC_FLUSH, FULL_FLUSH}
=============================================================================
