--------------------------- MODULE MCForwardCall ---------------------------
(* Finite instance of ForwardCall: two distinct requests, one of them with *)
(* enable_cache, batches of up to two rows.                                *)
EXTENDS ForwardCall

CONSTANTS r1, r2

MCReqs == {r1, r2}
MCCacheable == {r1}
=============================================================================
