--------------------------- MODULE MCAsyncRequest ---------------------------
(* Small instances of AsyncRequest for TLC. *)
EXTENDS AsyncRequest

CONSTANTS r1, r2, t1, t2
=============================================================================
