----------------------- MODULE CryptoBufferPoolProofs -----------------------
(***************************************************************************)
(* The steps of CRYPTO_BUFFER_free and CRYPTO_BUFFER_up_ref preserve the   *)
(* invariant of CryptoBufferPool, and what follows from it.                *)
(***************************************************************************)
EXTENDS CryptoBufferPoolInvariant

\* One lemma per step of CRYPTO_BUFFER_free, and one for
\* CRYPTO_BUFFER_up_ref: the step preserves IInv.
LEMMA CRYPTO_BUFFER_free_IInv ==
  ASSUME IInv, NEW t \in Threads, NEW s \in Slots,
         CRYPTO_BUFFER_free(t, s)
  PROVE  IInv'
<1> USE DEF IInv, PoolTypeOK, Args, Handles, heap, lock, CRYPTO_BUFFER_free,
      Goto, Point
<1>1. PoolTypeOK'
  <2>1. arg' \in [Threads -> Args]
    BY ZenonT(30) DEF Args
  <2> QED
    BY <2>1 DEF PCs
<1>2. LockInv'
  BY PoolAssumption DEF LockInv, Reading, Writing
<1>3. PointerInv'
  <2>1. arg'[t].slot = s /\ \A u \in Threads \ {t} : arg'[u] = arg[u]
    OBVIOUS
  <2> QED
    BY <2>1, ZenonT(30) DEF PointerInv, Exclusive, Releasing, Creating
<1>4. ExclusiveInv'
  BY PoolAssumption DEF ExclusiveInv, Exclusive
<1>5. TableInv'
  BY PoolAssumption DEF TableInv
<1>6. HandleInv'
  BY PoolAssumption DEF HandleInv
<1>7. CountInv'
  <2>1. \A c \in live' : InTransit(c) => InTransit(c)'
    BY DEF InTransit, Exclusive, PointerInv, Releasing
  <2> QED
    BY <2>1, KeepCount
<1>8. StaticStaysFound'
  BY PoolAssumption DEF StaticStaysFound
<1>9. BorrowInv'
  BY PoolAssumption DEF BorrowInv, InTransit, Exclusive
<1> QED
  BY <1>1, <1>2, <1>3, <1>4, <1>5, <1>6, <1>7, <1>8, <1>9

LEMMA LockWrite_IInv ==
  ASSUME IInv, NEW t \in Threads,
         LockWrite(t)
  PROVE  IInv'
<1> USE DEF IInv, PoolTypeOK, Args, Handles, heap, lock, LockWrite, Goto
<1>1. PoolTypeOK'
  BY PoolAssumption DEF PCs
<1>2. LockInv'
  BY PoolAssumption DEF LockInv, Reading, Writing
<1>3. PointerInv'
  BY PoolAssumption DEF PointerInv, Exclusive, Releasing, Creating
<1>4. ExclusiveInv'
  BY PoolAssumption DEF ExclusiveInv, Exclusive
<1>5. TableInv'
  BY PoolAssumption DEF TableInv
<1>6. HandleInv'
  BY PoolAssumption DEF HandleInv
<1>7. CountInv'
  <2>1. \A c \in live' : InTransit(c) => InTransit(c)'
    BY DEF InTransit, Exclusive, PointerInv, Releasing
  <2> QED
    BY <2>1, KeepCount
<1>8. StaticStaysFound'
  BY PoolAssumption DEF StaticStaysFound
<1>9. BorrowInv'
  BY PoolAssumption DEF BorrowInv, InTransit, Exclusive
<1> QED
  BY <1>1, <1>2, <1>3, <1>4, <1>5, <1>6, <1>7, <1>8, <1>9

LEMMA DecUnpooled_IInv ==
  ASSUME IInv, NEW t \in Threads,
         DecUnpooled(t)
  PROVE  IInv'
<1> USE DEF IInv, PoolTypeOK, Args, Handles, heap, lock, DecUnpooled, Goto,
      Point, Own, CRYPTO_refcount_dec, LastReference
<1> DEFINE b == ptr[t]
<1> DEFINE h == <<t, arg[t].slot>>
<1>0. b \in live /\ b \in Bufs /\ b # NULL /\ h \in Handles /\ handle[h] = b
  BY DEF PointerInv, Releasing, HandleInv
<1>a. ~InTransit(b)
  BY <1>0 DEF InTransit, ExclusiveInv
<1>b. references[b] > 0
  BY <1>0, <1>a, PoolAssumption, HoldersFinite DEF CountInv
<1>1. PoolTypeOK'
  <2>1. references' \in [Bufs -> 0 .. CRYPTO_REFCOUNT_MAX]
    BY <1>0, <1>b, PoolAssumption
  <2> QED
    BY <1>0, <2>1 DEF PCs
<1>2. LockInv'
  BY PoolAssumption DEF LockInv, Reading, Writing
<1>3. PointerInv'
  BY PoolAssumption, SMTT(30) DEF PointerInv, Exclusive, Releasing, Creating
<1>4. ExclusiveInv'
  <2>1. LastReference(b) => \A g \in Handles : handle'[g] # b
    BY <1>0, <1>a, OneHolder, PoolAssumption
  <2>2. /\ LastReference(b) => references'[b] = 0
        /\ \A c \in Bufs \ {b} : references'[c] = references[c]
    BY <1>0, PoolAssumption
  <2> HIDE DEF CRYPTO_refcount_dec
  <2> QED
    BY <1>0, <1>a, <2>1, <2>2, PoolAssumption
    DEF ExclusiveInv, Exclusive, InTransit, TableInv, PointerInv, Releasing
<1>5. TableInv'
  BY PoolAssumption DEF TableInv
<1>6. HandleInv'
  BY PoolAssumption DEF HandleInv
<1>7. CountInv'
  <2>1. LastReference(b) => InTransit(b)'
    BY DEF InTransit, Exclusive
  <2>2. \A c \in live : InTransit(c) => InTransit(c)'
    BY <1>a DEF InTransit, Exclusive
  <2> QED
    BY <1>0, <1>a, <2>1, <2>2, LoseReference, ZenonT(30)
<1>8. StaticStaysFound'
  BY PoolAssumption DEF StaticStaysFound
<1>9. BorrowInv'
  BY <1>0, PoolAssumption DEF BorrowInv, InTransit, Exclusive, PointerInv,
      Releasing
<1> QED
  BY <1>1, <1>2, <1>3, <1>4, <1>5, <1>6, <1>7, <1>8, <1>9

LEMMA DecLocked_IInv ==
  ASSUME IInv, NEW t \in Threads,
         DecLocked(t)
  PROVE  IInv'
<1> USE DEF IInv, PoolTypeOK, Args, Handles, heap, lock, DecLocked, Goto, Point,
      Own, CRYPTO_refcount_dec, LastReference
<1> DEFINE b == ptr[t]
<1> DEFINE h == <<t, arg[t].slot>>
<1>0. b \in live /\ b \in Bufs /\ b # NULL /\ h \in Handles /\ handle[h] = b
  BY DEF PointerInv, Releasing, HandleInv
<1>a. ~InTransit(b)
  BY <1>0 DEF InTransit, ExclusiveInv
<1>b. references[b] > 0
  BY <1>0, <1>a, PoolAssumption, HoldersFinite DEF CountInv
<1>1. PoolTypeOK'
  <2>1. references' \in [Bufs -> 0 .. CRYPTO_REFCOUNT_MAX]
    BY <1>0, <1>b, PoolAssumption
  <2> QED
    BY <1>0, <2>1 DEF PCs
<1>2. LockInv'
  BY PoolAssumption DEF LockInv, Reading, Writing
<1>3. PointerInv'
  BY PoolAssumption DEF PointerInv, Exclusive, Releasing, Creating
<1>4. ExclusiveInv'
  <2>1. LastReference(b) => \A g \in Handles : handle'[g] # b
    BY <1>0, <1>a, OneHolder, PoolAssumption
  <2>2. /\ LastReference(b) => references'[b] = 0
        /\ \A c \in Bufs \ {b} : references'[c] = references[c]
    BY <1>0, PoolAssumption
  <2> HIDE DEF CRYPTO_refcount_dec
  <2> QED
    BY <1>0, <1>a, <2>1, <2>2, PoolAssumption
    DEF ExclusiveInv, Exclusive, InTransit
<1>5. TableInv'
  BY PoolAssumption DEF TableInv
<1>6. HandleInv'
  BY PoolAssumption DEF HandleInv
<1>7. CountInv'
  <2>1. LastReference(b) => InTransit(b)'
    BY DEF InTransit, Exclusive
  <2>2. \A c \in live : InTransit(c) => InTransit(c)'
    BY <1>a DEF InTransit, Exclusive
  <2> QED
    BY <1>0, <1>a, <2>1, <2>2, LoseReference, ZenonT(30)
<1>8. StaticStaysFound'
  BY PoolAssumption DEF StaticStaysFound
<1>9. BorrowInv'
  <2>1. pooled[b]
    BY DEF PointerInv, Releasing
  <2>2. \A u \in Threads \ {t} : pc[u] # "unlock_dec"
    BY PoolAssumption DEF LockInv, Writing
  <2> QED
    BY <1>0, <1>a, <2>1, <2>2 DEF BorrowInv, InTransit, Exclusive
<1> QED
  BY <1>1, <1>2, <1>3, <1>4, <1>5, <1>6, <1>7, <1>8, <1>9

LEMMA Delete_IInv ==
  ASSUME IInv, NEW t \in Threads,
         Delete(t)
  PROVE  IInv'
<1> USE DEF IInv, PoolTypeOK, Args, Handles, heap, lock, Delete, Goto
<1>1. PoolTypeOK'
  BY PoolAssumption, ZenonT(30) DEF PCs
<1>2. LockInv'
  BY PoolAssumption DEF LockInv, Reading, Writing
<1>3. PointerInv'
  BY PoolAssumption DEF PointerInv, Exclusive, Releasing, Creating, LockInv,
      Reading, Writing
<1>4. ExclusiveInv'
  BY PoolAssumption DEF ExclusiveInv, Exclusive, TableInv
<1>5. TableInv'
  BY PoolAssumption DEF TableInv
<1>6. HandleInv'
  BY PoolAssumption DEF HandleInv
<1>7. CountInv'
  <2>1. \A c \in live' : InTransit(c) => InTransit(c)'
    BY DEF InTransit, Exclusive, PointerInv, Releasing
  <2> QED
    BY <2>1, KeepCount
<1>8. StaticStaysFound'
  BY PoolAssumption DEF StaticStaysFound, ExclusiveInv, Exclusive
<1>9. BorrowInv'
  BY PoolAssumption DEF BorrowInv, InTransit, Exclusive
<1> QED
  BY <1>1, <1>2, <1>3, <1>4, <1>5, <1>6, <1>7, <1>8, <1>9

LEMMA UnlockWrite_IInv ==
  ASSUME IInv, NEW t \in Threads,
         UnlockWrite(t)
  PROVE  IInv'
<1> USE DEF IInv, PoolTypeOK, Args, Handles, heap, lock, UnlockWrite, Goto, Point
<1>1. PoolTypeOK'
  BY PoolAssumption DEF PCs
<1>2. LockInv'
  BY PoolAssumption DEF LockInv, Reading, Writing
<1>3. PointerInv'
  BY PoolAssumption DEF PointerInv, Exclusive, Releasing, Creating
<1>4. ExclusiveInv'
  BY PoolAssumption DEF ExclusiveInv, Exclusive
<1>5. TableInv'
  BY PoolAssumption DEF TableInv
<1>6. HandleInv'
  BY PoolAssumption DEF HandleInv
<1>7. CountInv'
  <2>1. \A c \in live' : InTransit(c) => InTransit(c)'
    BY DEF InTransit, Exclusive, PointerInv, Releasing
  <2> QED
    BY <2>1, KeepCount
<1>8. StaticStaysFound'
  BY PoolAssumption DEF StaticStaysFound
<1>9. BorrowInv'
  BY PoolAssumption DEF BorrowInv, InTransit, Exclusive
<1> QED
  BY <1>1, <1>2, <1>3, <1>4, <1>5, <1>6, <1>7, <1>8, <1>9

LEMMA crypto_buffer_free_object_IInv ==
  ASSUME IInv, NEW t \in Threads,
         crypto_buffer_free_object(t)
  PROVE  IInv'
<1> USE DEF IInv, PoolTypeOK, Args, Handles, heap, lock,
      crypto_buffer_free_object, Goto, Point
<1>1. PoolTypeOK'
  BY PoolAssumption DEF PCs
<1>2. LockInv'
  BY PoolAssumption DEF LockInv, Reading, Writing
<1>3. PointerInv'
  BY PoolAssumption DEF PointerInv, Exclusive, Releasing, Creating
<1>4. ExclusiveInv'
  BY PoolAssumption DEF ExclusiveInv, Exclusive
<1>5. TableInv'
  BY PoolAssumption DEF TableInv, ExclusiveInv, Exclusive
<1>6. HandleInv'
  BY PoolAssumption DEF HandleInv, ExclusiveInv, Exclusive
<1>7. CountInv'
  <2>1. \A c \in live' : InTransit(c) => InTransit(c)'
    BY DEF InTransit, Exclusive, PointerInv, Releasing
  <2> QED
    BY <2>1, KeepCount
<1>8. StaticStaysFound'
  BY PoolAssumption DEF StaticStaysFound
<1>9. BorrowInv'
  BY PoolAssumption DEF BorrowInv, InTransit, Exclusive
<1> QED
  BY <1>1, <1>2, <1>3, <1>4, <1>5, <1>6, <1>7, <1>8, <1>9

LEMMA CRYPTO_BUFFER_up_ref_IInv ==
  ASSUME IInv, NEW t \in Threads, NEW s \in Slots, NEW u \in Threads,
         NEW s2 \in Slots, CRYPTO_BUFFER_up_ref(t, s, u, s2)
  PROVE  IInv'
<1> USE DEF IInv, PoolTypeOK, Args, Handles, heap, lock, CRYPTO_BUFFER_up_ref,
      CRYPTO_refcount_inc
<1>1. PoolTypeOK'
  <2>1. references' \in [Bufs -> 0 .. CRYPTO_REFCOUNT_MAX]
    BY IncType, ZenonT(30)
  <2> QED
    BY <2>1
<1>2. LockInv'
  BY PoolAssumption DEF LockInv, Reading, Writing
<1>3. PointerInv'
  BY PoolAssumption DEF PointerInv, Exclusive, Releasing, Creating
<1>4. ExclusiveInv'
  BY PoolAssumption DEF ExclusiveInv, Exclusive
<1>5. TableInv'
  BY PoolAssumption DEF TableInv
<1>6. HandleInv'
  BY PoolAssumption DEF HandleInv
<1>7. CountInv'
  <2> DEFINE b == handle[<<t, s>>]
  <2>1. b \in live /\ ~InTransit(b)
    BY DEF HandleInv, ExclusiveInv, InTransit
  <2>2. \A c \in live : InTransit(c) => InTransit(c)'
    BY DEF InTransit
  <2> QED
    BY <2>1, <2>2, GainReference, ZenonT(30)
<1>8. StaticStaysFound'
  BY PoolAssumption DEF StaticStaysFound
<1>9. BorrowInv'
  BY PoolAssumption DEF BorrowInv, InTransit, Exclusive
<1> QED
  BY <1>1, <1>2, <1>3, <1>4, <1>5, <1>6, <1>7, <1>8, <1>9

-----------------------------------------------------------------------------
\* IInv holds of an empty pool, and every step preserves it.
LEMMA InitIInv == PoolInit => IInv
<1> SUFFICES ASSUME PoolInit PROVE IInv
  OBVIOUS
<1>1. PoolTypeOK
  BY PoolAssumption DEF PoolInit, PoolTypeOK, PCs
<1>2. LockInv /\ PointerInv /\ ExclusiveInv
  BY PoolAssumption DEF PoolInit, LockInv, PointerInv, ExclusiveInv, Exclusive,
      Reading, Writing, Creating, Releasing, Handles
<1>3. TableInv /\ HandleInv /\ CountInv /\ StaticStaysFound /\ BorrowInv
  BY DEF PoolInit, TableInv, HandleInv, CountInv, StaticStaysFound, BorrowInv
<1> QED
  BY <1>1, <1>2, <1>3 DEF IInv

LEMMA StutterIInv ==
  ASSUME IInv, UNCHANGED PoolVars
  PROVE  IInv'
<1> USE DEF IInv, PoolVars
<1>1. PoolTypeOK'
  BY DEF PoolTypeOK
<1>2. LockInv'
  BY DEF LockInv
<1>3. PointerInv'
  BY DEF PointerInv
<1>4. ExclusiveInv'
  BY DEF ExclusiveInv
<1>5. TableInv'
  BY DEF TableInv
<1>6. HandleInv'
  BY DEF HandleInv
<1>7. StaticStaysFound'
  BY DEF StaticStaysFound
<1>8. \A c : InTransit(c)' <=> InTransit(c)
  BY DEF InTransit
<1>9. CountInv'
  BY <1>8, KeepCount
<1>10. BorrowInv'
  BY <1>8 DEF BorrowInv
<1> QED
  BY <1>1, <1>2, <1>3, <1>4, <1>5, <1>6, <1>7, <1>9, <1>10

LEMMA NextIInv ==
  ASSUME IInv, PoolNext
  PROVE  IInv'
<1> PICK t \in Threads :
      \/ New(t) \/ NewStep(t) \/ FreeStep(t)
      \/ \E s \in Slots :
           \/ CRYPTO_BUFFER_free(t, s)
           \/ \E u \in Threads, s2 \in Slots :
                CRYPTO_BUFFER_up_ref(t, s, u, s2)
  BY DEF PoolNext
<1>1. CASE New(t)
  BY <1>1, crypto_buffer_new_IInv, CRYPTO_BUFFER_alloc_IInv DEF New
<1>2. CASE NewStep(t)
  BY <1>2, LockRead_IInv, Lookup_IInv, TakeDuplicate_IInv, UnlockRead_IInv,
      Alloc_IInv, AllocFails_IInv, Insert_IInv, InsertFails_IInv,
      LoseRace_IInv DEF NewStep
<1>3. CASE FreeStep(t)
  BY <1>3, LockWrite_IInv, DecUnpooled_IInv, DecLocked_IInv, Delete_IInv,
      UnlockWrite_IInv, crypto_buffer_free_object_IInv DEF FreeStep
<1>4. CASE \E s \in Slots : CRYPTO_BUFFER_free(t, s)
  BY <1>4, CRYPTO_BUFFER_free_IInv
<1>5. CASE \E s \in Slots, u \in Threads, s2 \in Slots :
             CRYPTO_BUFFER_up_ref(t, s, u, s2)
  BY <1>5, CRYPTO_BUFFER_up_ref_IInv
<1> QED
  BY <1>1, <1>2, <1>3, <1>4, <1>5

LEMMA Inductive == PoolSpec => []IInv
<1>1. IInv /\ [PoolNext]_PoolVars => IInv'
  BY NextIInv, StutterIInv
<1> QED
  BY InitIInv, <1>1, PTL DEF PoolSpec

-----------------------------------------------------------------------------
\* The variables keep their types; a reference count stays within its width.
THEOREM TypeCorrect == PoolSpec => []PoolTypeOK
<1>1. IInv => PoolTypeOK
  BY DEF IInv
<1> QED
  BY <1>1, Inductive, PTL

\* No owner, table entry or call in progress ever refers to a freed buffer.
THEOREM FreeSafe == PoolSpec => []NoUseAfterFree
<1>1. IInv => NoUseAfterFree
  <2> SUFFICES ASSUME IInv PROVE NoUseAfterFree
    OBVIOUS
  <2>1. ASSUME NEW t \in Threads, ptr[t] # NULL PROVE ptr[t] \in live
    <3>1. CASE pc[t] \in Exclusive
      BY <3>1 DEF IInv, ExclusiveInv
    <3>2. CASE pc[t] = "take"
      BY <3>2, ZenonT(30) DEF IInv, PoolTypeOK, Args, PointerInv, TableInv
    <3>3. CASE pc[t] \in Releasing
      BY <3>3, ZenonT(30) DEF IInv, PoolTypeOK, Args, Handles, PointerInv, HandleInv
    <3>4. CASE pc[t] = "unlock_dec"
      BY <3>4 DEF IInv, BorrowInv
    <3> QED
      BY <2>1, <3>1, <3>2, <3>3, <3>4, ZenonT(30) DEF IInv, PointerInv
  <2> QED
    BY <2>1 DEF IInv, NoUseAfterFree, HandleInv, TableInv
<1> QED
  BY <1>1, Inductive, PTL

\* A count below the maximum is the number of references owned, except for
\* the count of 1 a thread's private buffer starts with.
THEOREM CountSafe == PoolSpec => []CountExact
<1>1. IInv => CountExact
  <2> SUFFICES ASSUME IInv, NEW t \in Threads, pc[t] \in Exclusive
               PROVE  \/ references[ptr[t]] = Cardinality(Holders(ptr[t]))
                      \/ references[ptr[t]] = 1 /\ pc[t] # "delete"
    BY DEF CountExact, IInv, CountInv, InTransit, Exclusive
  <2>1. Holders(ptr[t]) = {}
    BY DEF IInv, ExclusiveInv, Holders
  <2>2. Cardinality(Holders(ptr[t])) = 0
    BY <2>1, FS_EmptySet
  <2> QED
    BY <2>2 DEF IInv, ExclusiveInv
<1> QED
  BY <1>1, Inductive, PTL

\* Without owners and calls in progress, only saturated buffers remain: the
\* assertion of CRYPTO_BUFFER_POOL_free holds and nothing else leaks.
THEOREM LeakSafe == PoolSpec => []NothingLeaks
<1>1. IInv => NothingLeaks
  <2> SUFFICES ASSUME IInv, \A t \in Threads : pc[t] = "idle",
                      \A h \in Handles : handle[h] = NULL,
                      NEW b \in live
               PROVE  references[b] = CRYPTO_REFCOUNT_MAX
    BY DEF NothingLeaks, IInv, TableInv
  <2>1. Holders(b) = {}
    BY PoolAssumption DEF Holders, IInv, PoolTypeOK
  <2>2. Cardinality(Holders(b)) = 0
    BY <2>1, FS_EmptySet
  <2>3. ~InTransit(b)
    BY DEF InTransit, Exclusive
  <2> QED
    BY <2>2, <2>3 DEF IInv, CountInv
<1> QED
  BY <1>1, Inductive, PTL

\* A static buffer that is owned is the one the table returns.
THEOREM StaticSafe == PoolSpec => []StaticStaysFound
<1>1. IInv => StaticStaysFound
  BY DEF IInv
<1> QED
  BY <1>1, Inductive, PTL
=============================================================================
