--------------------------- MODULE MCAsyncKeyLock ---------------------------
(* Three acquire calls over two names: the smallest instance in which a    *)
(* release wakes two waiters and an unrelated name is locked meanwhile.    *)
EXTENDS AsyncKeyLock
=============================================================================
