---------------------------- MODULE MCAsyncPool -----------------------------
(* Small instance of the I/O pool: either both threads start or none does.  *)
EXTENDS AsyncPool

CONSTANTS j1, j2, j3, w1, w2

MCSpawnable == {{}, {w1, w2}}
=============================================================================
