--------------------------- MODULE PoolParameters ---------------------------
(* The sizes of a CRYPTO_BUFFER pool and of the program that uses it.      *)
EXTENDS Integers, FiniteSets

CONSTANTS
    Threads,
    Slots,               \* references each thread may own
    Bufs,                \* addresses of CRYPTO_BUFFER objects
    Datas,               \* contents
    CRYPTO_REFCOUNT_MAX, \* 2^32 - 1 in the code
    NULL

ASSUME PoolAssumption ==
    /\ IsFiniteSet(Threads) /\ IsFiniteSet(Slots)
    /\ CRYPTO_REFCOUNT_MAX \in Nat \ {0, 1}
    /\ NULL \notin Bufs /\ NULL \notin Threads
=============================================================================
