-------------------------- MODULE CryptoBufferPool --------------------------
(***************************************************************************)
(* CRYPTO_BUFFER and CRYPTO_BUFFER_POOL (crypto/pool/pool.cc) with the     *)
(* saturating reference counts of crypto/refcount.cc, called by several    *)
(* threads.  A step is what a thread does between two points where another *)
(* may interleave: each lock operation, each atomic operation on a         *)
(* reference count, and each critical section.                             *)
(*                                                                         *)
(* A buffer is an address; addresses are reused after they are freed.  The *)
(* contents are one value of Datas, which is also its key in the table.    *)
(* handle records which references the application owns.                   *)
(***************************************************************************)
EXTENDS PoolParameters

Handles == Threads \X Slots

VARIABLES
    live,            \* the allocated buffers
    contents,        \* their data
    data_is_static,
    pooled,          \* buf->pool is not NULL
    references,
    bufs,            \* the table of the pool
    writer, readers, \* pool->lock
    handle,          \* owned references
    pc, arg,         \* per thread: the next step, and [slot, data, static]
    ptr              \* per thread: |duplicate| or |buf| while still used

heap   == <<live, contents, data_is_static, pooled>>
lock   == <<writer, readers>>
PoolVars   == <<live, contents, data_is_static, pooled, references, bufs, writer,
            readers, handle, pc, arg, ptr>>

Args == [slot : Slots, data : Datas, static : BOOLEAN]

PoolInit ==
    /\ live = {} /\ pooled = [b \in Bufs |-> FALSE]
    /\ contents \in [Bufs -> Datas]
    /\ data_is_static = [b \in Bufs |-> FALSE]
    /\ references = [b \in Bufs |-> 0]
    /\ bufs = [d \in Datas |-> NULL]
    /\ writer = NULL /\ readers = {}
    /\ handle = [h \in Handles |-> NULL]
    /\ pc = [t \in Threads |-> "idle"]
    /\ arg \in [Threads -> Args]
    /\ ptr = [t \in Threads |-> NULL]

Goto(t, where) == pc' = [pc EXCEPT ![t] = where]
Point(t, b)    == ptr' = [ptr EXCEPT ![t] = b]
Own(t, b)      == handle' = [handle EXCEPT ![<<t, arg[t].slot>>] = b]

CRYPTO_refcount_inc(b) ==
    references' = [references EXCEPT
                      ![b] = IF @ = CRYPTO_REFCOUNT_MAX THEN @ ELSE @ + 1]

\* The code aborts at zero, which PoolTypeOK rules out.
CRYPTO_refcount_dec(b) ==
    references' = [references EXCEPT
                      ![b] = IF @ = CRYPTO_REFCOUNT_MAX THEN @ ELSE @ - 1]

LastReference(b) == references[b] = 1

-----------------------------------------------------------------------------
(* crypto_buffer_new                                                       *)

\* CRYPTO_BUFFER_new and CRYPTO_BUFFER_new_from_static_data_unsafe.
crypto_buffer_new(t, a) ==
    /\ pc[t] = "idle" /\ handle[<<t, a.slot>>] = NULL
    /\ arg' = [arg EXCEPT ![t] = a]
    /\ Goto(t, "lock_read")
    /\ UNCHANGED <<heap, references, bufs, lock, handle, ptr>>

\* The buffer of an allocation, private to the thread until it is shared.
NewObject(t, b, a, in_pool) ==
    /\ b \notin live
    /\ live' = live \cup {b}
    /\ contents' = [contents EXCEPT ![b] = a.data]
    /\ data_is_static' = [data_is_static EXCEPT ![b] = a.static]
    /\ pooled' = [pooled EXCEPT ![b] = in_pool]
    /\ references' = [references EXCEPT ![b] = 1]

\* crypto_buffer_new without a pool, and CRYPTO_BUFFER_alloc.
CRYPTO_BUFFER_alloc(t, a, b) ==
    /\ pc[t] = "idle" /\ handle[<<t, a.slot>>] = NULL
    /\ NewObject(t, b, a, FALSE)
    /\ handle' = [handle EXCEPT ![<<t, a.slot>>] = b]
    /\ UNCHANGED <<bufs, lock, pc, arg, ptr>>

LockRead(t) ==
    /\ pc[t] = "lock_read" /\ writer = NULL
    /\ readers' = readers \cup {t}
    /\ Goto(t, "lookup")
    /\ UNCHANGED <<heap, references, bufs, writer, handle, arg, ptr>>

\* The entry for the contents, unless a static one is to replace it.
Duplicate(t) ==
    LET b == bufs[arg[t].data] IN
    IF b = NULL THEN NULL
    ELSE IF arg[t].static /\ ~data_is_static[b] THEN NULL ELSE b

\* Mutant: the lock is released between the lookup and the increment.
Lookup_Unlocked(t) ==
    /\ pc[t] = "lookup"
    /\ Point(t, Duplicate(t))
    /\ Goto(t, IF Duplicate(t) = NULL THEN "unlock_read" ELSE "take")
    /\ readers' = readers \ {t}
    /\ UNCHANGED <<heap, references, bufs, writer, handle, arg>>

Lookup(t) ==
    /\ pc[t] = "lookup"
    /\ Point(t, Duplicate(t))
    /\ Goto(t, IF Duplicate(t) = NULL THEN "unlock_read" ELSE "take")
    /\ UNCHANGED <<heap, references, bufs, lock, handle, arg>>

TakeDuplicate(t) ==
    /\ pc[t] = "take"
    /\ CRYPTO_refcount_inc(ptr[t])
    /\ Own(t, ptr[t])
    /\ Goto(t, "unlock_taken")
    /\ Point(t, NULL)
    /\ UNCHANGED <<heap, bufs, lock, arg>>

UnlockRead(t) ==
    /\ pc[t] \in {"unlock_read", "unlock_taken"}
    /\ readers' = readers \ {t}
    /\ Goto(t, IF pc[t] = "unlock_read" THEN "alloc" ELSE "idle")
    /\ UNCHANGED <<heap, references, bufs, writer, handle, arg, ptr>>

Alloc(t, b) ==
    /\ pc[t] = "alloc"
    /\ NewObject(t, b, arg[t], TRUE)
    /\ Point(t, b)
    /\ Goto(t, "lock_insert")
    /\ UNCHANGED <<bufs, lock, handle, arg>>

AllocFails(t) ==
    /\ pc[t] = "alloc"
    /\ Goto(t, "idle")
    /\ UNCHANGED <<heap, references, bufs, lock, handle, arg, ptr>>

\* Inserting replaces an entry that was found but ignored.
Insert(t) ==
    /\ pc[t] = "insert" /\ Duplicate(t) = NULL
    /\ bufs' = [bufs EXCEPT ![arg[t].data] = ptr[t]]
    /\ Own(t, ptr[t])
    /\ Goto(t, "unlock_write")
    /\ Point(t, NULL)
    /\ UNCHANGED <<heap, references, lock, arg>>

\* lh_insert allocates only for a new key.
InsertFails(t) ==
    /\ pc[t] = "insert" /\ bufs[arg[t].data] = NULL
    /\ Goto(t, "unlock_lost")
    /\ UNCHANGED <<heap, references, bufs, lock, handle, arg, ptr>>

\* Another thread inserted the contents since the first lookup.
LoseRace(t) ==
    /\ pc[t] = "insert" /\ Duplicate(t) # NULL
    /\ CRYPTO_refcount_inc(Duplicate(t))
    /\ Own(t, Duplicate(t))
    /\ Goto(t, "unlock_lost")
    /\ UNCHANGED <<heap, bufs, lock, arg, ptr>>

-----------------------------------------------------------------------------
(* CRYPTO_BUFFER_free and CRYPTO_BUFFER_up_ref                             *)

CRYPTO_BUFFER_free(t, s) ==
    LET b == handle[<<t, s>>] IN
    /\ pc[t] = "idle" /\ b # NULL
    /\ arg' = [arg EXCEPT ![t].slot = s]
    /\ Point(t, b)
    /\ Goto(t, IF pooled[b] THEN "lock_dec" ELSE "dec")
    /\ UNCHANGED <<heap, references, bufs, lock, handle>>

LockWrite(t) ==
    /\ pc[t] \in {"lock_insert", "lock_dec"}
    /\ writer = NULL /\ readers = {}
    /\ writer' = t
    /\ Goto(t, IF pc[t] = "lock_insert" THEN "insert" ELSE "dec_locked")
    /\ UNCHANGED <<heap, references, bufs, readers, handle, arg, ptr>>

\* Without a pool there is no lock.
DecUnpooled(t) ==
    /\ pc[t] = "dec"
    /\ CRYPTO_refcount_dec(ptr[t])
    /\ Own(t, NULL)
    /\ Goto(t, IF LastReference(ptr[t]) THEN "free_object" ELSE "idle")
    /\ Point(t, IF LastReference(ptr[t]) THEN ptr[t] ELSE NULL)
    /\ UNCHANGED <<heap, bufs, lock, arg>>

DecLocked(t) ==
    /\ pc[t] = "dec_locked"
    /\ CRYPTO_refcount_dec(ptr[t])
    /\ Own(t, NULL)
    /\ Goto(t, IF LastReference(ptr[t]) THEN "delete" ELSE "unlock_dec")
    /\ UNCHANGED <<heap, bufs, lock, arg, ptr>>

\* Mutant: the entry stays in the table.
Delete_Never(t) ==
    /\ pc[t] = "delete"
    /\ Goto(t, "unlock_lost")
    /\ UNCHANGED <<heap, references, bufs, lock, handle, arg, ptr>>

\* The table may hold a static replacement, or nothing.
Delete(t) ==
    LET d == contents[ptr[t]] IN
    /\ pc[t] = "delete"
    /\ bufs' = [bufs EXCEPT ![d] = IF @ = ptr[t] THEN NULL ELSE @]
    /\ Goto(t, "unlock_lost")
    /\ UNCHANGED <<heap, references, lock, handle, arg, ptr>>

\* CRYPTO_BUFFER_free reaches the lock through buf->pool, also after it gave
\* up its reference ("unlock_dec").
UnlockWrite(t) ==
    /\ pc[t] \in {"unlock_write", "unlock_dec", "unlock_lost"}
    /\ writer' = NULL
    /\ Goto(t, IF pc[t] = "unlock_lost" THEN "free_object" ELSE "idle")
    /\ Point(t, IF pc[t] = "unlock_lost" THEN ptr[t] ELSE NULL)
    /\ UNCHANGED <<heap, references, bufs, readers, handle, arg>>

crypto_buffer_free_object(t) ==
    /\ pc[t] = "free_object"
    /\ live' = live \ {ptr[t]}
    /\ Point(t, NULL)
    /\ Goto(t, "idle")
    /\ UNCHANGED <<contents, data_is_static, pooled, references, bufs, lock,
                   handle, arg>>

\* Thread t takes a reference and gives it to u, which may be t itself.
CRYPTO_BUFFER_up_ref(t, s, u, s2) ==
    LET b == handle[<<t, s>>] IN
    /\ pc[t] = "idle" /\ b # NULL
    /\ pc[u] = "idle" /\ handle[<<u, s2>>] = NULL
    /\ CRYPTO_refcount_inc(b)
    /\ handle' = [handle EXCEPT ![<<u, s2>>] = b]
    /\ UNCHANGED <<heap, bufs, lock, pc, arg, ptr>>

-----------------------------------------------------------------------------
New(t)    == \E a \in Args : \/ crypto_buffer_new(t, a)
                             \/ \E b \in Bufs : CRYPTO_BUFFER_alloc(t, a, b)
NewStep(t) == \/ LockRead(t) \/ Lookup(t) \/ TakeDuplicate(t) \/ UnlockRead(t)
              \/ (\E b \in Bufs : Alloc(t, b)) \/ AllocFails(t)
              \/ Insert(t) \/ InsertFails(t) \/ LoseRace(t)
FreeStep(t) == \/ LockWrite(t) \/ DecUnpooled(t) \/ DecLocked(t) \/ Delete(t)
               \/ UnlockWrite(t) \/ crypto_buffer_free_object(t)

PoolNext ==
    \E t \in Threads :
        \/ New(t) \/ NewStep(t) \/ FreeStep(t)
        \/ \E s \in Slots :
             \/ CRYPTO_BUFFER_free(t, s)
             \/ \E u \in Threads, s2 \in Slots :
                  CRYPTO_BUFFER_up_ref(t, s, u, s2)

PoolSpec == PoolInit /\ [][PoolNext]_PoolVars

-----------------------------------------------------------------------------
PCs == {"idle", "lock_read", "lookup", "take", "unlock_read",
        "unlock_taken", "alloc", "lock_insert", "insert", "lock_dec", "dec", "dec_locked", "delete",
        "unlock_write", "unlock_dec", "unlock_lost", "free_object"}

\* The types of the buffers, the pool, its lock and the threads' calls.
PoolTypeOK ==
    /\ live \in SUBSET Bufs
    /\ contents \in [Bufs -> Datas]
    /\ data_is_static \in [Bufs -> BOOLEAN]
    /\ pooled \in [Bufs -> BOOLEAN]
    /\ references \in [Bufs -> 0 .. CRYPTO_REFCOUNT_MAX]
    /\ bufs \in [Datas -> Bufs \cup {NULL}]
    /\ writer \in Threads \cup {NULL} /\ readers \in SUBSET Threads
    /\ handle \in [Handles -> Bufs \cup {NULL}]
    /\ pc \in [Threads -> PCs]
    /\ arg \in [Threads -> Args]
    /\ ptr \in [Threads -> Bufs \cup {NULL}]

\* No thread uses a buffer after it was freed: what the application owns,
\* what the table holds and what a call works on are allocated.
NoUseAfterFree ==
    /\ \A h \in Handles : handle[h] # NULL => handle[h] \in live
    /\ \A d \in Datas : bufs[d] # NULL => bufs[d] \in live
    /\ \A t \in Threads : ptr[t] # NULL => ptr[t] \in live

Holders(b) == {h \in Handles : handle[h] = b}

\* A count that is not saturated is the number of references owned, except
\* for a buffer no other thread knows yet.
CountExact ==
    \A b \in live :
        \/ references[b] = CRYPTO_REFCOUNT_MAX
        \/ references[b] = Cardinality(Holders(b))
        \/ \E t \in Threads : ptr[t] = b /\ references[b] = 1 /\
                              pc[t] \in {"lock_insert", "insert",
                                         "unlock_lost", "free_object"}

\* Nothing leaks, and the assertion of CRYPTO_BUFFER_POOL_free that the table
\* is empty holds: without references and calls in progress only buffers
\* whose count has saturated are left.
NothingLeaks ==
    ((\A t \in Threads : pc[t] = "idle") /\ (\A h \in Handles : handle[h] = NULL))
        => /\ \A b \in live : references[b] = CRYPTO_REFCOUNT_MAX
           /\ \A d \in Datas : bufs[d] # NULL =>
                 references[bufs[d]] = CRYPTO_REFCOUNT_MAX

\* The table finds a buffer under its own contents, and deleting a replaced
\* buffer never removes its replacement: whoever owns a static buffer that is
\* in the pool is found by the next lookup.
StaticStaysFound ==
    \A h \in Handles :
        LET b == handle[h] IN
        (b # NULL /\ pooled[b] /\ data_is_static[b]) =>
            bufs[contents[b]] = b
=============================================================================
