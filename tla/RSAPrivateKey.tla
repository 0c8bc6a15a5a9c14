---------------------------- MODULE RSAPrivateKey ---------------------------
(***************************************************************************)
(* Threads that use one RSA private key (rsa_default_private_transform in  *)
(* crypto/fipsmodule/rsa/rsa_impl.cc.inc) share what is derived from it,   *)
(* computed once by freeze_private_key, and a cache of blindings           *)
(* (rsa_blinding_get, blinding.cc.inc).  A section under rsa->lock is one  *)
(* step; between steps other threads run.  A process forks when no thread  *)
(* uses the key, and the behaviour goes on in the child.                   *)
(*                                                                         *)
(* A blinding factor is the draw of randomness it was made from and how    *)
(* often it was squared since; two uses of one factor are linkable.        *)
(* inverse says whether Ai is the inverse of A.                            *)
(***************************************************************************)
EXTENDS Integers, Sequences, Functions

CONSTANTS
    Users,
    BlindingIds,            \* addresses of BN_BLINDING objects
    MAX_BLINDINGS_PER_RSA,
    BN_BLINDING_COUNTER,
    MaxDraws, MaxForks      \* bounds

NoBlinding == 0

ASSUME KeyAssumption ==
    /\ NoBlinding \notin BlindingIds /\ MAX_BLINDINGS_PER_RSA \in Nat \ {0}
    /\ BN_BLINDING_COUNTER \in Nat \ {0} /\ MaxDraws \in Nat /\ MaxForks \in Nat

VARIABLES
    frozen,       \* private_key_frozen
    derived,      \* how much of mont_n, d_fixed, mont_p ... iqmp_mont exists
    blindings,    \* the array: BlindingIds in use order
    inuse,        \* blindings_inuse
    blinding_fork_generation,
    objects,      \* the allocated BN_BLINDING objects and their contents
    generation,   \* CRYPTO_get_fork_generation
    draws,        \* draws of randomness so far
    used,         \* the factors that hid an input, those of the parent included
    relinked,     \* a factor was used twice
    call          \* per thread: where it is, its blinding and index

KeyVars == <<frozen, derived, blindings, inuse, blinding_fork_generation, objects,
          generation, draws, used, relinked, call>>

Idle == [pc |-> "idle", blinding |-> NoBlinding, index |-> 0]

\* The values freeze_private_key derives, in its order.
Steps == 7

KeyInit ==
    /\ frozen = FALSE /\ derived = 0
    /\ blindings = <<>> /\ inuse = <<>> /\ blinding_fork_generation = 0
    /\ objects = [b \in {} |-> NoBlinding]
    /\ generation = 1 /\ draws = 0 /\ used = {} /\ relinked = FALSE
    /\ call = [t \in Users |-> Idle]

Proceed(t, pc) == call' = [call EXCEPT ![t].pc = pc]

CacheVars == <<blindings, inuse, blinding_fork_generation, objects>>
FactorVars == <<draws, used, relinked>>

-----------------------------------------------------------------------------
(***************************************************************************)
(* freeze_private_key                                                      *)
(***************************************************************************)
ReadFrozen(t) ==
    /\ call[t] = Idle
    /\ Proceed(t, IF frozen THEN "get" ELSE "freeze")
    /\ UNCHANGED <<frozen, derived, generation, CacheVars, FactorVars>>

\* private_key_frozen after n of the values were made
FrozenAfter(n) == n = Steps

\* Each value is made unless it is there, so a call that runs out of memory
\* leaves a prefix that the next one completes.
Freeze(t) ==
    /\ call[t].pc = "freeze"
    /\ \/ /\ ~frozen
          /\ derived' \in derived..Steps /\ frozen' = FrozenAfter(derived')
          /\ call' = IF derived' = Steps THEN [call EXCEPT ![t].pc = "get"]
                     ELSE [call EXCEPT ![t] = Idle]
       \/ /\ frozen
          /\ Proceed(t, "get")
          /\ UNCHANGED <<frozen, derived>>
    /\ UNCHANGED <<generation, CacheVars, FactorVars>>

-----------------------------------------------------------------------------
(***************************************************************************)
(* The blinding cache                                                      *)
(***************************************************************************)
\* BN_BLINDING_invalidate, and a new blinding: the next use makes the factor.
Unusable == [counter |-> BN_BLINDING_COUNTER - 1, draw |-> 0, squared |-> 0,
             inverse |-> FALSE]

\* Mutant: a fork leaves the cache as it is.
Wiped_Kept(h, g) == h

\* "Wipe the blinding cache on |fork|."
Wiped(h, g) ==
    IF blinding_fork_generation = g THEN h
    ELSE [b \in DOMAIN h |->
            IF \E i \in DOMAIN blindings : blindings[i] = b
            THEN Unusable ELSE h[b]]

Free == {i \in DOMAIN inuse : ~inuse[i]}

NewSize ==
    IF Len(blindings) = 0 THEN 1
    ELSE IF 2 * Len(blindings) > MAX_BLINDINGS_PER_RSA
    THEN MAX_BLINDINGS_PER_RSA ELSE 2 * Len(blindings)

Allocated(h, bs) ==
    [b \in DOMAIN h \cup bs |-> IF b \in DOMAIN h THEN h[b] ELSE Unusable]

\* Which free addresses malloc returns is not seen.
Unallocated(n) == Injection(1 .. n, BlindingIds \ DOMAIN objects)

Fresh(n) == CHOOSE bs \in Unallocated(n) : TRUE

CanAllocate(n) == Unallocated(n) # {}

Take(t, b, i) ==
    call' = [call EXCEPT ![t] = [pc |-> "convert", blinding |-> b, index |-> i]]

Reserved(i) == [inuse EXCEPT ![i] = TRUE]

TakeFree(t, h) ==
    /\ \E i \in Free :
         /\ \A k \in Free : i <= k
         /\ inuse' = Reserved(i) /\ Take(t, blindings[i], i)
    /\ objects' = h
    /\ UNCHANGED blindings

\* index_used is MAX_BLINDINGS_PER_RSA: the blinding is not in the array.
TakeUncached(t, h) ==
    /\ Free = {} /\ Len(blindings) >= MAX_BLINDINGS_PER_RSA
    /\ CanAllocate(1)
    /\ LET b == Fresh(1)[1] IN
       /\ objects' = Allocated(h, {b})
       /\ Take(t, b, MAX_BLINDINGS_PER_RSA + 1)
    /\ UNCHANGED <<blindings, inuse>>

TakeExtended(t, h) ==
    /\ Free = {} /\ Len(blindings) < MAX_BLINDINGS_PER_RSA
    /\ CanAllocate(NewSize - Len(blindings))
    /\ LET n  == Len(blindings)
           bs == Fresh(NewSize - n)
       IN  /\ blindings' = blindings \o bs
           /\ inuse' = inuse \o [i \in 1..(NewSize - n) |-> i = 1]
           /\ objects' = Allocated(h, {bs[i] : i \in DOMAIN bs})
           /\ Take(t, bs[1], n + 1)

\* Memory runs out: what was allocated is freed again and NULL is returned.
TakeNothing(t, h) ==
    /\ Free = {}
    /\ objects' = h
    /\ call' = [call EXCEPT ![t] = Idle]
    /\ UNCHANGED <<blindings, inuse>>

rsa_blinding_get(t) ==
    /\ call[t].pc = "get"
    /\ blinding_fork_generation' = generation
    /\ LET h == Wiped(objects, generation) IN
       \/ TakeFree(t, h)
       \/ TakeUncached(t, h)
       \/ TakeExtended(t, h)
       \/ TakeNothing(t, h)
    /\ UNCHANGED <<frozen, derived, generation, FactorVars>>

-----------------------------------------------------------------------------
(***************************************************************************)
(* Using a blinding, outside the lock                                      *)
(***************************************************************************)
Factor(b) == [draw |-> b.draw, squared |-> b.squared]

Squared(b) == [b EXCEPT !.counter = @ + 1, !.squared = @ + 1]

\* "|A| and |Ai| may be in an inconsistent state"
Failed(b) == [b EXCEPT !.counter = BN_BLINDING_COUNTER - 1, !.inverse = FALSE]

\* bn_blinding_update, which re-creates the factor or squares it
Updated(b) ==
    IF b.counter + 1 = BN_BLINDING_COUNTER
    THEN [counter |-> 0, draw |-> draws + 1, squared |-> 0, inverse |-> TRUE]
    ELSE Squared(b)

\* The update succeeds and draws when it re-creates the factor.
Update(id, b) ==
    /\ b.draw <= MaxDraws
    /\ objects' = [objects EXCEPT ![id] = b]
    /\ draws' = IF b.counter = 0 THEN draws + 1 ELSE draws

Hide(t, id, b) ==
    /\ Update(id, b)
    /\ used' = used \cup {Factor(b)}
    /\ relinked' = (relinked \/ Factor(b) \in used)
    /\ Proceed(t, "invert")

\* The update fails, or the multiplication after it.
BN_BLINDING_convert(t) ==
    /\ call[t].pc = "convert"
    /\ LET id == call[t].blinding IN
       \/ Hide(t, id, Updated(objects[id]))
       \/ /\ objects' = [objects EXCEPT ![id] = Failed(objects[id])]
          /\ Proceed(t, "release")
          /\ UNCHANGED FactorVars
       \/ /\ Update(id, Updated(objects[id]))
          /\ Proceed(t, "release")
          /\ UNCHANGED <<used, relinked>>
    /\ UNCHANGED <<frozen, derived, blindings, inuse, blinding_fork_generation,
                   generation>>

\* The exponentiation, the check of its result, and BN_BLINDING_invert.
Transform(t) ==
    /\ call[t].pc = "invert"
    /\ Proceed(t, "release")
    /\ UNCHANGED <<frozen, derived, generation, CacheVars, FactorVars>>

\* BN_BLINDING_free
Without(h, b) == [x \in DOMAIN h \ {b} |-> h[x]]

\* rsa_blinding_release, on success and on every error
rsa_blinding_release(t) ==
    /\ call[t].pc = "release"
    /\ call' = [call EXCEPT ![t] = Idle]
    /\ IF call[t].index > MAX_BLINDINGS_PER_RSA
       THEN /\ objects' = Without(objects, call[t].blinding)
            /\ UNCHANGED inuse
       ELSE /\ inuse' = [inuse EXCEPT ![call[t].index] = FALSE]
            /\ UNCHANGED objects
    /\ UNCHANGED <<frozen, derived, blindings, blinding_fork_generation,
                   generation, FactorVars>>

-----------------------------------------------------------------------------
Exclusive == \A t \in Users : call[t] = Idle

\* External: fork(2).  The parent goes on squaring the factors it has cached.
Fork ==
    /\ Exclusive /\ generation <= MaxForks
    /\ generation' = generation + 1
    /\ used' = used \cup {[draw |-> objects[b].draw, squared |-> n] :
                            b \in {x \in DOMAIN objects : objects[x].draw # 0},
                            n \in 0..(BN_BLINDING_COUNTER - 1)}
    /\ UNCHANGED <<frozen, derived, CacheVars, draws, relinked, call>>

\* rsa_invalidate_key assumes exclusive access.
rsa_invalidate_key ==
    /\ Exclusive
    /\ frozen' = FALSE /\ derived' = 0
    /\ blindings' = <<>> /\ inuse' = <<>> /\ blinding_fork_generation' = 0
    /\ objects' = [b \in DOMAIN objects \ {blindings[i] : i \in DOMAIN blindings} |->
                  objects[b]]
    /\ UNCHANGED <<generation, FactorVars, call>>

KeyNext ==
    \/ Fork
    \/ rsa_invalidate_key
    \/ \E t \in Users :
         \/ ReadFrozen(t)
         \/ Freeze(t)
         \/ rsa_blinding_get(t)
         \/ BN_BLINDING_convert(t)
         \/ Transform(t)
         \/ rsa_blinding_release(t)

KeySpec == KeyInit /\ [][KeyNext]_KeyVars

-----------------------------------------------------------------------------
\* The types of the key, its cache of blindings and the calls
KeyTypeOK ==
    /\ frozen \in BOOLEAN /\ derived \in 0..Steps
    /\ Len(blindings) = Len(inuse) /\ Len(blindings) <= MAX_BLINDINGS_PER_RSA
    /\ DOMAIN objects \subseteq BlindingIds
    /\ \A b \in DOMAIN objects : objects[b].counter \in 0..(BN_BLINDING_COUNTER - 1)
    /\ \A t \in Users : call[t].blinding \in DOMAIN objects \cup {NoBlinding}

\* Two threads never use one blinding: the reservation in blindings_inuse, the
\* growth of the arrays and the blindings outside them keep them apart.
BlindingNotShared ==
    \A t, u \in Users :
        call[t].blinding = call[u].blinding /\ call[t].blinding # NoBlinding => t = u

\* No blinding factor hides two inputs, in this process or in the one it was
\* forked from, where forks are detected.
FactorUsedOnce == ~relinked

\* The factor a result is multiplied with is the inverse of the one that hid
\* the input, whatever failed before: the check of the result comes before
\* BN_BLINDING_invert and would not notice.
InverseMatches ==
    \A t \in Users :
        call[t].pc = "invert" => objects[call[t].blinding].inverse

\* A thread past freeze_private_key finds every derived value, also when it
\* saw private_key_frozen without the write lock or an earlier call failed.
DerivedWhenUsed ==
    \A t \in Users :
        call[t].pc \notin {"idle", "freeze"} => derived = Steps

\* When no thread uses the key, the blindings that are allocated are those of
\* the array and none of them is reserved.
CacheAtRest ==
    Exclusive => /\ DOMAIN objects = {blindings[i] : i \in DOMAIN blindings}
                 /\ \A i \in DOMAIN inuse : ~inuse[i]
=============================================================================
