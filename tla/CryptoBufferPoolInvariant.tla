--------------------- MODULE CryptoBufferPoolInvariant ---------------------
(***************************************************************************)
(* The inductive invariant of CryptoBufferPool, and that the steps of      *)
(* crypto_buffer_new preserve it.  A buffer is shared, or in transit:      *)
(* known to the one thread that creates or destroys it.  The count of a    *)
(* shared buffer is the number of owned references until it saturates.     *)
(***************************************************************************)
EXTENDS CryptoBufferPool, FiniteSetTheorems, TLAPS

\* Steps of a thread that alone knows the buffer it works on.
Exclusive == {"lock_insert", "insert", "delete", "unlock_lost", "free_object"}
Reading   == {"lookup", "take", "unlock_read", "unlock_taken"}
Writing   == {"insert", "dec_locked", "delete", "unlock_write",
              "unlock_dec", "unlock_lost"}
Creating  == {"lock_read", "lookup", "take", "unlock_read", "alloc",
              "lock_insert", "insert"}
Releasing == {"lock_dec", "dec", "dec_locked"}

\* pool->lock is held exactly in the critical sections, and excludes.
LockInv ==
    /\ \A t \in Threads : t \in readers <=> pc[t] \in Reading
    /\ \A t \in Threads : writer = t <=> pc[t] \in Writing
    /\ writer = NULL \/ readers = {}

\* What each thread's pointer is at each step.
PointerInv ==
    \A t \in Threads :
        /\ pc[t] \notin Exclusive \cup Releasing \cup {"take", "unlock_dec"} =>
               ptr[t] = NULL
        /\ pc[t] = "take" =>
               ptr[t] # NULL /\ ptr[t] = bufs[arg[t].data]
        /\ pc[t] \in Releasing =>
               /\ ptr[t] # NULL /\ ptr[t] = handle[<<t, arg[t].slot>>]
               /\ pooled[ptr[t]] <=> pc[t] # "dec"
        /\ pc[t] \in Creating => handle[<<t, arg[t].slot>>] = NULL

\* A buffer that is being created or destroyed is known to one thread only.
ExclusiveInv ==
    \A t \in Threads : pc[t] \in Exclusive =>
        /\ ptr[t] \in live
        /\ \/ references[ptr[t]] = 0
           \/ references[ptr[t]] = 1 /\ pc[t] # "delete"
        /\ \A h \in Handles : handle[h] # ptr[t]
        /\ pc[t] # "delete" => \A d \in Datas : bufs[d] # ptr[t]
        /\ \A u \in Threads \ {t} : pc[u] \in Exclusive => ptr[u] # ptr[t]
        /\ pc[t] \in {"lock_insert", "insert"} =>
               /\ references[ptr[t]] = 1 /\ pooled[ptr[t]]
               /\ contents[ptr[t]] = arg[t].data
               /\ data_is_static[ptr[t]] = arg[t].static

\* The table holds allocated buffers of the pool under their contents.
TableInv ==
    \A d \in Datas : bufs[d] # NULL =>
        bufs[d] \in live /\ contents[bufs[d]] = d /\ pooled[bufs[d]]

HandleInv == \A h \in Handles : handle[h] # NULL => handle[h] \in live

InTransit(b) == \E t \in Threads : pc[t] \in Exclusive /\ ptr[t] = b

\* The count of a shared buffer.
CountInv ==
    \A b \in live :
        \/ InTransit(b)
        \/ references[b] = CRYPTO_REFCOUNT_MAX
        \/ references[b] = Cardinality(Holders(b)) /\ references[b] > 0

\* Between giving up a reference and releasing the lock, a thread still reads
\* the buffer it no longer owns: the lock keeps its other owners from freeing
\* it.
BorrowInv ==
    \A t \in Threads : pc[t] = "unlock_dec" =>
        ptr[t] \in live /\ pooled[ptr[t]] /\ ~InTransit(ptr[t])

IInv ==
    /\ PoolTypeOK /\ LockInv /\ PointerInv /\ ExclusiveInv /\ TableInv
    /\ HandleInv /\ CountInv /\ StaticStaysFound /\ BorrowInv

-----------------------------------------------------------------------------
\* A buffer has finitely many holders.
LEMMA HoldersFinite ==
  ASSUME NEW b
  PROVE  IsFiniteSet(Holders(b)) /\ Cardinality(Holders(b)) \in Nat
<1>1. IsFiniteSet(Handles)
  BY PoolAssumption, FS_Product DEF Handles
<1>2. Holders(b) \in SUBSET Handles
  BY DEF Holders
<1> QED
  BY <1>1, <1>2, FS_Subset, FS_CardinalityType

\* A count that is incremented, or saturated, stays within its width.
LEMMA IncType ==
  ASSUME PoolTypeOK, NEW b \in Bufs, CRYPTO_refcount_inc(b)
  PROVE  references' \in [Bufs -> 0 .. CRYPTO_REFCOUNT_MAX]
<1>1. references[b] \in 0 .. CRYPTO_REFCOUNT_MAX
  BY DEF PoolTypeOK
<1>2. (IF references[b] = CRYPTO_REFCOUNT_MAX THEN references[b]
       ELSE references[b] + 1) \in 0 .. CRYPTO_REFCOUNT_MAX
  BY <1>1, PoolAssumption
<1> QED
  BY <1>2 DEF PoolTypeOK, CRYPTO_refcount_inc

\* Counts and references that a step leaves alone stay right.
LEMMA KeepCount ==
  ASSUME CountInv, handle' = handle, references' = references,
         live' \subseteq live,
         \A b \in live' : InTransit(b) => InTransit(b)'
  PROVE  CountInv'
<1>1. \A b : Holders(b)' = Holders(b)
  BY DEF Holders
<1> QED
  BY <1>1 DEF CountInv

\* Taking a reference to a shared buffer.
LEMMA GainReference ==
  ASSUME PoolTypeOK, CountInv, NEW h \in Handles, NEW b \in live,
         handle[h] = NULL, handle' = [handle EXCEPT ![h] = b],
         CRYPTO_refcount_inc(b), live' = live, ~InTransit(b),
         \A c \in live : InTransit(c) => InTransit(c)'
  PROVE  CountInv'
<1> SUFFICES ASSUME NEW c \in live
             PROVE  \/ InTransit(c)' \/ references'[c] = CRYPTO_REFCOUNT_MAX
                    \/ /\ references'[c] = Cardinality(Holders(c)')
                       /\ references'[c] > 0
  BY DEF CountInv
<1>0. b \in Bufs /\ c \in Bufs /\ b # NULL /\ c # NULL
  BY PoolAssumption DEF PoolTypeOK
<1>1. CASE c = b
  <2>1. Holders(b)' = Holders(b) \cup {h} /\ h \notin Holders(b)
    BY <1>0 DEF Holders, PoolTypeOK
  <2>2. Cardinality(Holders(b)') = Cardinality(Holders(b)) + 1
    BY <2>1, HoldersFinite, FS_AddElement, SMTT(30)
  <2>3. \/ references[b] = CRYPTO_REFCOUNT_MAX
        \/ references[b] = Cardinality(Holders(b)) /\ references[b] > 0
    BY DEF CountInv
  <2>4. references'[b] = IF references[b] = CRYPTO_REFCOUNT_MAX
                         THEN references[b] ELSE references[b] + 1
    BY <1>0 DEF CRYPTO_refcount_inc, PoolTypeOK
  <2>5. Cardinality(Holders(b)) \in Nat
    BY HoldersFinite
  <2> QED
    BY <1>1, <2>2, <2>3, <2>4, <2>5
<1>2. CASE c # b
  <2>1. Holders(c)' = Holders(c)
    BY <1>0, <1>2 DEF Holders, PoolTypeOK
  <2>2. references'[c] = references[c]
    BY <1>0, <1>2 DEF CRYPTO_refcount_inc, PoolTypeOK
  <2> QED
    BY <2>1, <2>2 DEF CountInv
<1> QED
  BY <1>1, <1>2

\* A count of 1 means one owner.
LEMMA OneHolder ==
  ASSUME PoolTypeOK, CountInv, NEW h \in Handles, handle[h] \in live,
         ~InTransit(handle[h]), LastReference(handle[h])
  PROVE  \A g \in Handles : handle[g] = handle[h] => g = h
<1> DEFINE b == handle[h]
<1>1. Cardinality(Holders(b)) = 1
  BY PoolAssumption DEF CountInv, LastReference
<1>2. PICK x : Holders(b) = {x}
  BY <1>1, HoldersFinite, FS_Singleton, ZenonT(30)
<1> QED
  BY <1>2 DEF Holders

\* Giving up a reference to a shared buffer.
LEMMA LoseReference ==
  ASSUME PoolTypeOK, CountInv, NEW h \in Handles, NEW b \in live,
         handle[h] = b, handle' = [handle EXCEPT ![h] = NULL],
         CRYPTO_refcount_dec(b), live' = live, ~InTransit(b),
         LastReference(b) => InTransit(b)',
         \A c \in live : InTransit(c) => InTransit(c)'
  PROVE  CountInv'
<1> SUFFICES ASSUME NEW c \in live
             PROVE  \/ InTransit(c)' \/ references'[c] = CRYPTO_REFCOUNT_MAX
                    \/ /\ references'[c] = Cardinality(Holders(c)')
                       /\ references'[c] > 0
  BY DEF CountInv
<1>0. b \in Bufs /\ c \in Bufs /\ b # NULL /\ c # NULL
  BY PoolAssumption DEF PoolTypeOK
<1>1. CASE c = b
  <2>1. Holders(b)' = Holders(b) \ {h} /\ h \in Holders(b)
    BY <1>0 DEF Holders, PoolTypeOK
  <2>2. Cardinality(Holders(b)') = Cardinality(Holders(b)) - 1
    BY <2>1, HoldersFinite, FS_RemoveElement, ZenonT(30)
  <2>3. \/ references[b] = CRYPTO_REFCOUNT_MAX
        \/ references[b] = Cardinality(Holders(b)) /\ references[b] > 0
    BY DEF CountInv
  <2>4. references'[b] = IF references[b] = CRYPTO_REFCOUNT_MAX
                         THEN references[b] ELSE references[b] - 1
    BY <1>0 DEF CRYPTO_refcount_dec, PoolTypeOK
  <2>5. Cardinality(Holders(b)) \in Nat /\ references[b] \in Nat
    BY <1>0, HoldersFinite, PoolAssumption DEF PoolTypeOK
  <2>6. CASE references[b] = 1
    BY <1>1, <2>6 DEF LastReference
  <2>7. CASE references[b] # 1
    BY <1>1, <2>2, <2>3, <2>4, <2>5, <2>7
  <2> QED
    BY <2>6, <2>7
<1>2. CASE c # b
  <2>1. Holders(c)' = Holders(c)
    BY <1>0, <1>2 DEF Holders, PoolTypeOK
  <2>2. references'[c] = references[c]
    BY <1>0, <1>2 DEF CRYPTO_refcount_dec, PoolTypeOK
  <2> QED
    BY <2>1, <2>2 DEF CountInv
<1> QED
  BY <1>1, <1>2

\* A buffer's first reference, when its thread shares it.
LEMMA FirstReference ==
  ASSUME PoolTypeOK, CountInv, NEW h \in Handles, NEW b \in Bufs,
         \A g \in Handles : handle[g] # b, handle[h] = NULL,
         handle' = [handle EXCEPT ![h] = b], references'[b] = 1,
         live' = live \cup {b},
         \A c \in live \ {b} : /\ references'[c] = references[c]
                               /\ InTransit(c) => InTransit(c)'
  PROVE  CountInv'
<1> SUFFICES ASSUME NEW c \in live \cup {b}
             PROVE  \/ InTransit(c)' \/ references'[c] = CRYPTO_REFCOUNT_MAX
                    \/ /\ references'[c] = Cardinality(Holders(c)')
                       /\ references'[c] > 0
  BY DEF CountInv
<1>0. b \in Bufs /\ c \in Bufs /\ b # NULL /\ c # NULL
  BY PoolAssumption DEF PoolTypeOK
<1>1. CASE c = b
  <2>1. Holders(b)' = {h}
    BY <1>0 DEF Holders, PoolTypeOK
  <2>2. Cardinality(Holders(b)') = 1
    BY <2>1, FS_Singleton
  <2> QED
    BY <1>1, <2>2
<1>2. CASE c # b
  <2>1. Holders(c)' = Holders(c)
    BY <1>0, <1>2 DEF Holders, PoolTypeOK
  <2> QED
    BY <1>2, <2>1 DEF CountInv
<1> QED
  BY <1>1, <1>2

-----------------------------------------------------------------------------
\* One lemma per step of crypto_buffer_new: the step preserves IInv.
LEMMA crypto_buffer_new_IInv ==
  ASSUME IInv, NEW t \in Threads, NEW a \in Args,
         crypto_buffer_new(t, a)
  PROVE  IInv'
<1> USE DEF IInv, PoolTypeOK, Args, Handles, heap, lock, crypto_buffer_new, Goto
<1>1. PoolTypeOK'
  BY PoolAssumption DEF PCs
<1>2. LockInv'
  BY PoolAssumption DEF LockInv, Reading, Writing
<1>3. PointerInv'
  <2>1. arg'[t] = a /\ \A u \in Threads \ {t} : arg'[u] = arg[u]
    OBVIOUS
  <2> QED
    BY <2>1, ZenonT(30) DEF PointerInv, Exclusive, Releasing, Creating
<1>4. ExclusiveInv'
  BY PoolAssumption DEF ExclusiveInv, Exclusive
<1>5. TableInv'
  BY PoolAssumption DEF TableInv
<1>6. HandleInv'
  BY PoolAssumption DEF HandleInv
<1>7. CountInv'
  <2>1. \A c \in live' : InTransit(c) => InTransit(c)'
    BY DEF InTransit, Exclusive, PointerInv, Releasing
  <2> QED
    BY <2>1, KeepCount
<1>8. StaticStaysFound'
  BY PoolAssumption DEF StaticStaysFound
<1>9. BorrowInv'
  BY PoolAssumption DEF BorrowInv, InTransit, Exclusive
<1> QED
  BY <1>1, <1>2, <1>3, <1>4, <1>5, <1>6, <1>7, <1>8, <1>9

LEMMA CRYPTO_BUFFER_alloc_IInv ==
  ASSUME IInv, NEW t \in Threads, NEW a \in Args, NEW b \in Bufs,
         CRYPTO_BUFFER_alloc(t, a, b)
  PROVE  IInv'
<1> USE DEF IInv, PoolTypeOK, Args, Handles, heap, lock, CRYPTO_BUFFER_alloc,
      NewObject
<1>1. PoolTypeOK'
  BY PoolAssumption DEF PCs
<1>2. LockInv'
  BY PoolAssumption DEF LockInv, Reading, Writing
<1>3. PointerInv'
  BY PoolAssumption DEF PointerInv, Exclusive, Releasing, Creating, HandleInv
<1>4. ExclusiveInv'
  BY PoolAssumption DEF ExclusiveInv, Exclusive
<1>5. TableInv'
  BY PoolAssumption DEF TableInv
<1>6. HandleInv'
  BY PoolAssumption DEF HandleInv
<1>7. CountInv'
  <2>1. \A g \in Handles : handle[g] # b
    BY PoolAssumption DEF HandleInv
  <2>2. \A c \in live \ {b} : InTransit(c) => InTransit(c)'
    BY DEF InTransit
  <2> QED
    BY <2>1, <2>2, FirstReference, ZenonT(30)
<1>8. StaticStaysFound'
  BY PoolAssumption DEF StaticStaysFound
<1>9. BorrowInv'
  BY PoolAssumption DEF BorrowInv, InTransit, Exclusive
<1> QED
  BY <1>1, <1>2, <1>3, <1>4, <1>5, <1>6, <1>7, <1>8, <1>9

LEMMA LockRead_IInv ==
  ASSUME IInv, NEW t \in Threads,
         LockRead(t)
  PROVE  IInv'
<1> USE DEF IInv, PoolTypeOK, Args, Handles, heap, lock, LockRead, Goto
<1>1. PoolTypeOK'
  BY PoolAssumption DEF PCs
<1>2. LockInv'
  BY PoolAssumption DEF LockInv, Reading, Writing
<1>3. PointerInv'
  BY PoolAssumption DEF PointerInv, Exclusive, Releasing, Creating
<1>4. ExclusiveInv'
  BY PoolAssumption DEF ExclusiveInv, Exclusive
<1>5. TableInv'
  BY PoolAssumption DEF TableInv
<1>6. HandleInv'
  BY PoolAssumption DEF HandleInv
<1>7. CountInv'
  <2>1. \A c \in live' : InTransit(c) => InTransit(c)'
    BY DEF InTransit, Exclusive, PointerInv, Releasing
  <2> QED
    BY <2>1, KeepCount
<1>8. StaticStaysFound'
  BY PoolAssumption DEF StaticStaysFound
<1>9. BorrowInv'
  BY PoolAssumption, SMTT(30) DEF BorrowInv, InTransit, Exclusive
<1> QED
  BY <1>1, <1>2, <1>3, <1>4, <1>5, <1>6, <1>7, <1>8, <1>9

LEMMA Lookup_IInv ==
  ASSUME IInv, NEW t \in Threads,
         Lookup(t)
  PROVE  IInv'
<1> USE DEF IInv, PoolTypeOK, Args, Handles, heap, lock, Lookup, Goto, Point,
      Duplicate
<1>1. PoolTypeOK'
  BY PoolAssumption DEF PCs
<1>2. LockInv'
  BY PoolAssumption, SMTT(30) DEF LockInv, Reading, Writing
<1>3. PointerInv'
  BY PoolAssumption, SMTT(30) DEF PointerInv, Exclusive, Releasing, Creating
<1>4. ExclusiveInv'
  <2>1. \A u \in Threads : pc'[u] \in Exclusive =>
            u # t /\ pc'[u] = pc[u] /\ ptr'[u] = ptr[u]
    BY DEF Exclusive
  <2> HIDE DEF Lookup, PoolTypeOK
  <2>2. UNCHANGED <<heap, references, bufs, handle, arg>>
    BY DEF Lookup
  <2> QED
    BY <2>1, <2>2 DEF ExclusiveInv
<1>5. TableInv'
  BY PoolAssumption DEF TableInv
<1>6. HandleInv'
  BY PoolAssumption DEF HandleInv
<1>7. CountInv'
  <2>1. \A c \in live' : InTransit(c) => InTransit(c)'
    BY DEF InTransit, Exclusive, PointerInv, Releasing
  <2> QED
    BY <2>1, KeepCount
<1>8. StaticStaysFound'
  BY PoolAssumption, SMTT(30) DEF StaticStaysFound
<1>9. BorrowInv'
  BY PoolAssumption DEF BorrowInv, InTransit, Exclusive
<1> QED
  BY <1>1, <1>2, <1>3, <1>4, <1>5, <1>6, <1>7, <1>8, <1>9, SMTT(30)

LEMMA TakeDuplicate_IInv ==
  ASSUME IInv, NEW t \in Threads,
         TakeDuplicate(t)
  PROVE  IInv'
<1> USE DEF IInv, PoolTypeOK, Args, Handles, heap, lock, TakeDuplicate, Goto,
      Point, Own, CRYPTO_refcount_inc
<1> DEFINE b == ptr[t]
<1>0. /\ b \in live /\ b \in Bufs /\ b # NULL /\ b = bufs[arg[t].data]
      /\ contents[b] = arg[t].data
  BY DEF PointerInv, TableInv
<1>a. ~InTransit(b)
  BY <1>0, PoolAssumption, SMTT(30) DEF InTransit, ExclusiveInv, LockInv,
      Reading, Writing
<1>1. PoolTypeOK'
  <2>1. references' \in [Bufs -> 0 .. CRYPTO_REFCOUNT_MAX]
    BY <1>0, IncType, ZenonT(30)
  <2> QED
    BY <1>0, <2>1, SMTT(30) DEF PCs
<1>2. LockInv'
  BY PoolAssumption DEF LockInv, Reading, Writing
<1>3. PointerInv'
  BY PoolAssumption, SMTT(30) DEF PointerInv, Exclusive, Releasing, Creating
<1>4. ExclusiveInv'
  BY <1>0, <1>a, PoolAssumption DEF ExclusiveInv, Exclusive, InTransit
<1>5. TableInv'
  BY PoolAssumption DEF TableInv
<1>6. HandleInv'
  BY <1>0, SMTT(30) DEF HandleInv
<1>7. CountInv'
  <2>1. \A c \in live : InTransit(c) => InTransit(c)'
    BY DEF InTransit, Exclusive
  <2>2. handle[<<t, arg[t].slot>>] = NULL
    BY DEF PointerInv, Creating
  <2> QED
    BY <1>0, <1>a, <2>1, <2>2, GainReference, ZenonT(30)
<1>8. StaticStaysFound'
  BY <1>0, ZenonT(30) DEF StaticStaysFound
<1>9. BorrowInv'
  BY PoolAssumption DEF BorrowInv, InTransit, Exclusive
<1> QED
  BY <1>1, <1>2, <1>3, <1>4, <1>5, <1>6, <1>7, <1>8, <1>9

LEMMA UnlockRead_IInv ==
  ASSUME IInv, NEW t \in Threads,
         UnlockRead(t)
  PROVE  IInv'
<1> USE DEF IInv, PoolTypeOK, Args, Handles, heap, lock, UnlockRead, Goto
<1>1. PoolTypeOK'
  BY PoolAssumption DEF PCs
<1>2. LockInv'
  BY PoolAssumption DEF LockInv, Reading, Writing
<1>3. PointerInv'
  BY PoolAssumption DEF PointerInv, Exclusive, Releasing, Creating
<1>4. ExclusiveInv'
  BY PoolAssumption DEF ExclusiveInv, Exclusive
<1>5. TableInv'
  BY PoolAssumption DEF TableInv
<1>6. HandleInv'
  BY PoolAssumption DEF HandleInv
<1>7. CountInv'
  <2>1. \A c \in live' : InTransit(c) => InTransit(c)'
    BY DEF InTransit, Exclusive, PointerInv, Releasing
  <2> QED
    BY <2>1, KeepCount
<1>8. StaticStaysFound'
  BY PoolAssumption DEF StaticStaysFound
<1>9. BorrowInv'
  BY PoolAssumption DEF BorrowInv, InTransit, Exclusive
<1> QED
  BY <1>1, <1>2, <1>3, <1>4, <1>5, <1>6, <1>7, <1>8, <1>9

LEMMA Alloc_IInv ==
  ASSUME IInv, NEW t \in Threads, NEW b \in Bufs,
         Alloc(t, b)
  PROVE  IInv'
<1> USE DEF IInv, PoolTypeOK, Args, Handles, heap, lock, Alloc, Goto, Point,
      NewObject
<1>1. PoolTypeOK'
  BY PoolAssumption DEF PCs
<1>2. LockInv'
  BY PoolAssumption DEF LockInv, Reading, Writing
<1>3. PointerInv'
  BY PoolAssumption DEF PointerInv, Exclusive, Releasing, Creating, HandleInv
<1>4. ExclusiveInv'
  BY PoolAssumption DEF ExclusiveInv, Exclusive, HandleInv, TableInv
<1>5. TableInv'
  BY PoolAssumption DEF TableInv
<1>6. HandleInv'
  BY PoolAssumption DEF HandleInv
<1>7. CountInv'
  <2>1. InTransit(b)'
    BY DEF InTransit, Exclusive
  <2>2. \A c \in live : /\ references'[c] = references[c]
                        /\ InTransit(c) => InTransit(c)'
    BY DEF InTransit, Exclusive
  <2>3. \A c : Holders(c)' = Holders(c)
    BY DEF Holders
  <2> QED
    BY <2>1, <2>2, <2>3 DEF CountInv
<1>8. StaticStaysFound'
  BY PoolAssumption DEF StaticStaysFound, HandleInv
<1>9. BorrowInv'
  BY PoolAssumption, SMTT(30) DEF BorrowInv, InTransit, Exclusive
<1> QED
  BY <1>1, <1>2, <1>3, <1>4, <1>5, <1>6, <1>7, <1>8, <1>9, SMTT(30)

LEMMA AllocFails_IInv ==
  ASSUME IInv, NEW t \in Threads,
         AllocFails(t)
  PROVE  IInv'
<1> USE DEF IInv, PoolTypeOK, Args, Handles, heap, lock, AllocFails, Goto
<1>1. PoolTypeOK'
  BY PoolAssumption DEF PCs
<1>2. LockInv'
  BY PoolAssumption DEF LockInv, Reading, Writing
<1>3. PointerInv'
  BY PoolAssumption DEF PointerInv, Exclusive, Releasing, Creating
<1>4. ExclusiveInv'
  BY PoolAssumption DEF ExclusiveInv, Exclusive
<1>5. TableInv'
  BY PoolAssumption DEF TableInv
<1>6. HandleInv'
  BY PoolAssumption DEF HandleInv
<1>7. CountInv'
  <2>1. \A c \in live' : InTransit(c) => InTransit(c)'
    BY DEF InTransit, Exclusive, PointerInv, Releasing
  <2> QED
    BY <2>1, KeepCount
<1>8. StaticStaysFound'
  BY PoolAssumption DEF StaticStaysFound
<1>9. BorrowInv'
  BY PoolAssumption DEF BorrowInv, InTransit, Exclusive
<1> QED
  BY <1>1, <1>2, <1>3, <1>4, <1>5, <1>6, <1>7, <1>8, <1>9

LEMMA Insert_IInv ==
  ASSUME IInv, NEW t \in Threads,
         Insert(t)
  PROVE  IInv'
<1> USE DEF IInv, PoolTypeOK, Args, Handles, heap, lock, Insert, Goto, Point,
      Own, Duplicate
<1>1. PoolTypeOK'
  BY PoolAssumption DEF PCs
<1>2. LockInv'
  BY PoolAssumption, SMTT(30) DEF LockInv, Reading, Writing
<1>3. PointerInv'
  BY PoolAssumption, SMTT(30) DEF PointerInv, Exclusive, Releasing,
      Creating, LockInv, Reading, Writing
<1>4. ExclusiveInv'
  BY PoolAssumption, SMTT(30) DEF ExclusiveInv, Exclusive
<1>5. TableInv'
  BY PoolAssumption DEF TableInv, ExclusiveInv, Exclusive
<1>6. HandleInv'
  BY PoolAssumption, SMTT(30) DEF HandleInv, ExclusiveInv, Exclusive
<1>7. CountInv'
  <2> DEFINE b == ptr[t]
  <2>1. /\ b \in live /\ references[b] = 1
        /\ \A g \in Handles : handle[g] # b
    BY DEF ExclusiveInv, Exclusive
  <2>2. \A c \in live \ {b} : InTransit(c) => InTransit(c)'
    BY DEF InTransit, Exclusive
  <2>3. handle[<<t, arg[t].slot>>] = NULL
    BY DEF PointerInv, Creating
  <2>4. handle' = [handle EXCEPT ![<<t, arg[t].slot>>] = b]
    OBVIOUS
  <2>5. live' = live \cup {b} /\ references' = references /\ b \in Bufs
    BY <2>1
  <2>6. <<t, arg[t].slot>> \in Handles
    OBVIOUS
  <2>7. PoolTypeOK /\ CountInv
    BY SMTT(30)
  <2> HIDE DEF b, IInv, PoolTypeOK, Handles, Insert, Own, Duplicate
  <2> QED
    BY <2>1, <2>2, <2>3, <2>4, <2>5, <2>6, <2>7, ZenonT(30),
       FirstReference
<1>8. StaticStaysFound'
  BY PoolAssumption DEF StaticStaysFound, ExclusiveInv, Exclusive, TableInv
<1>9. BorrowInv'
  BY PoolAssumption, SMTT(30) DEF BorrowInv, InTransit, Exclusive
<1> QED
  BY <1>1, <1>2, <1>3, <1>4, <1>5, <1>6, <1>7, <1>8, <1>9

LEMMA InsertFails_IInv ==
  ASSUME IInv, NEW t \in Threads,
         InsertFails(t)
  PROVE  IInv'
<1> USE DEF IInv, PoolTypeOK, Args, Handles, heap, lock, InsertFails, Goto
<1>1. PoolTypeOK'
  BY PoolAssumption DEF PCs
<1>2. LockInv'
  BY PoolAssumption DEF LockInv, Reading, Writing
<1>3. PointerInv'
  BY PoolAssumption DEF PointerInv, Exclusive, Releasing, Creating
<1>4. ExclusiveInv'
  BY PoolAssumption DEF ExclusiveInv, Exclusive
<1>5. TableInv'
  BY PoolAssumption DEF TableInv
<1>6. HandleInv'
  BY PoolAssumption DEF HandleInv
<1>7. CountInv'
  <2>1. \A c \in live' : InTransit(c) => InTransit(c)'
    BY DEF InTransit, Exclusive, PointerInv, Releasing
  <2> QED
    BY <2>1, KeepCount
<1>8. StaticStaysFound'
  BY PoolAssumption DEF StaticStaysFound
<1>9. BorrowInv'
  BY PoolAssumption, SMTT(30) DEF BorrowInv, InTransit, Exclusive
<1> QED
  BY <1>1, <1>2, <1>3, <1>4, <1>5, <1>6, <1>7, <1>8, <1>9

LEMMA LoseRace_IInv ==
  ASSUME IInv, NEW t \in Threads,
         LoseRace(t)
  PROVE  IInv'
<1> USE DEF IInv, PoolTypeOK, Args, Handles, heap, lock, LoseRace, Goto, Own,
      Duplicate, CRYPTO_refcount_inc
<1> DEFINE b == bufs[arg[t].data]
<1>0. /\ b \in live /\ b \in Bufs /\ b # NULL
      /\ contents[b] = arg[t].data /\ pooled[b] /\ b # ptr[t]
      /\ handle' = [handle EXCEPT ![<<t, arg[t].slot>>] = b]
      /\ CRYPTO_refcount_inc(b)
  BY ZenonT(30) DEF TableInv, ExclusiveInv, Exclusive
<1>b. arg[t].data \in Datas /\ pc[t] = "insert" /\ b = bufs[arg[t].data]
  BY ZenonT(30)
<1> USE PoolAssumption
<1> HIDE DEF b, Duplicate, CRYPTO_refcount_inc
<1>a. ~InTransit(b)
  <2> SUFFICES ASSUME NEW u \in Threads, pc[u] \in Exclusive, ptr[u] = b
               PROVE  FALSE
    BY SMTT(30) DEF InTransit
  <2> HIDE DEF LoseRace, PoolTypeOK
  <2>1. pc[u] = "delete"
    <3>1. pc[u] # "delete" => \A d \in Datas : bufs[d] # ptr[u]
      BY Zenon DEF ExclusiveInv
    <3> QED BY <1>b, <3>1, Zenon
  <2>2. writer = t /\ writer = u
    BY <1>b, <2>1 DEF LockInv, Writing
  <2> QED
    BY <1>b, <2>1, <2>2
<1>1. PoolTypeOK'
  <2>1. references' \in [Bufs -> 0 .. CRYPTO_REFCOUNT_MAX]
    BY <1>0, IncType
  <2> QED
    BY <1>0, <2>1 DEF PCs
<1>2. LockInv'
  BY <1>0 DEF LockInv, Reading, Writing
<1>3. PointerInv'
  BY <1>0 DEF PointerInv, Exclusive, Releasing, Creating
<1>4. ExclusiveInv'
  BY <1>0, <1>a, SMTT(30) DEF ExclusiveInv, Exclusive, InTransit,
      CRYPTO_refcount_inc
<1>5. TableInv'
  BY <1>0 DEF TableInv
<1>6. HandleInv'
  BY <1>0, SMTT(30) DEF HandleInv
<1>7. CountInv'
  <2>1. \A c \in live : InTransit(c) => InTransit(c)'
    BY DEF InTransit, Exclusive
  <2>2. handle[<<t, arg[t].slot>>] = NULL
    BY DEF PointerInv, Creating
  <2> QED
    BY <1>0, <1>a, <2>1, <2>2, GainReference, ZenonT(30)
<1>8. StaticStaysFound'
  BY <1>0 DEF StaticStaysFound, b
<1>9. BorrowInv'
  BY PoolAssumption DEF BorrowInv, InTransit, Exclusive
<1> QED
  BY <1>1, <1>2, <1>3, <1>4, <1>5, <1>6, <1>7, <1>8, <1>9, SMTT(30)
=============================================================================
