------------------------------- MODULE LHash --------------------------------
(***************************************************************************)
(* The hash table of crypto/lhash/lhash.cc, with the iteration that calls  *)
(* back: a callback may add elements and remove the one it was called for, *)
(* as timeout_doall_arg in ssl/ssl_session.cc does.  Chains are sequences  *)
(* of items; no two items have the same key.                               *)
(***************************************************************************)
EXTENDS Integers, Sequences, SequencesExt

CONSTANTS
    Keys, Values,
    kMinNumBuckets, kMaxAverageChainLength, kMinAverageChainLength

VARIABLES
    buckets, num_items, callback_depth,
    iter,     \* the iteration in progress
    contents, \* what was inserted and not deleted since
    visit     \* per key: what the iteration in progress owes it

vars == <<buckets, num_items, callback_depth, iter, contents, visit>>

NULL == -1

Hash(k) == k

Bucket(bs, k) == (Hash(k) % Len(bs)) + 1

NoIteration == [at |-> "none", bucket |-> 0, cur |-> NULL, next |-> NULL]

\* OPENSSL_lh_new
Init ==
    /\ buckets = [i \in 1..kMinNumBuckets |-> <<>>]
    /\ num_items = 0 /\ callback_depth = 0
    /\ iter = NoIteration
    /\ contents = [k \in Keys |-> NULL]
    /\ visit = [k \in Keys |-> "new"]

\* The position of k in its chain: get_next_ptr_and_hash and _by_key
Position(bs, k) ==
    LET chain == bs[Bucket(bs, k)]
    IN  SelectInSeq(chain, LAMBDA item : item.key = k)

OPENSSL_lh_retrieve(k) ==
    IF Position(buckets, k) = 0 THEN NULL
    ELSE buckets[Bucket(buckets, k)][Position(buckets, k)].value

-----------------------------------------------------------------------------
\* Mutant: the number of buckets is updated too late.
NewBucket_Old(bs, k, n) == Bucket(bs, k)

NewBucket(bs, k, n) == (Hash(k) % n) + 1

\* Each item, in order, is put before its new chain.
lh_rebucket(bs, n) ==
    [b \in 1..n |->
       Reverse(SelectSeq(FlattenSeq(bs),
                         LAMBDA item : NewBucket(bs, item.key, n) = b))]

MayResize(depth) == depth = 0

\* The sizes lh_maybe_resize may leave; an allocation that fails leaves it.
NewSizes(bs, items, depth) ==
    {Len(bs)} \cup
    (IF ~MayResize(depth) THEN {}
     ELSE IF items \div Len(bs) > kMaxAverageChainLength THEN {2 * Len(bs)}
     ELSE IF items \div Len(bs) < kMinAverageChainLength
     THEN {IF Len(bs) \div 2 < kMinNumBuckets THEN kMinNumBuckets
           ELSE Len(bs) \div 2}
     ELSE {})

Resized(bs, items, depth) ==
    \E n \in NewSizes(bs, items, depth) :
        buckets' = IF n = Len(bs) THEN bs ELSE lh_rebucket(bs, n)

-----------------------------------------------------------------------------
\* Outside an iteration, or in its callback.
Callable == iter.at \in {"none", "callback"}

OPENSSL_lh_insert(k, v) ==
    LET b == Bucket(buckets, k)
        p == Position(buckets, k)
    IN  /\ Callable
        /\ contents' = [contents EXCEPT ![k] = v]
        /\ IF p # 0
           THEN /\ buckets' = [buckets EXCEPT ![b][p].value = v]
                /\ UNCHANGED num_items
                /\ UNCHANGED visit
           ELSE /\ num_items' = num_items + 1
                /\ visit' = [visit EXCEPT ![k] = "new"]
                /\ Resized([buckets EXCEPT ![b] = Append(@, [key |-> k, value |-> v])],
                           num_items + 1, callback_depth)
        /\ UNCHANGED <<callback_depth, iter>>

OPENSSL_lh_delete(k) ==
    LET b == Bucket(buckets, k)
        p == Position(buckets, k)
    IN  /\ Callable /\ p # 0
        /\ iter.at = "callback" => k = iter.cur
        /\ contents' = [contents EXCEPT ![k] = NULL]
        /\ num_items' = num_items - 1
        /\ Resized([buckets EXCEPT ![b] = RemoveAt(@, p)], num_items - 1,
                   callback_depth)
        /\ UNCHANGED <<callback_depth, iter, visit>>

-----------------------------------------------------------------------------
(***************************************************************************)
(* OPENSSL_lh_doall_arg                                                    *)
(***************************************************************************)
BeginDoall ==
    /\ iter.at = "none"
    /\ callback_depth' = callback_depth + 1
    /\ iter' = [NoIteration EXCEPT !.at = "loop"]
    /\ visit' = [k \in Keys |-> IF contents[k] = NULL THEN "new" ELSE "due"]
    /\ UNCHANGED <<buckets, num_items, contents>>

KeyAt(chain, p) == IF p \in DOMAIN chain THEN chain[p].key ELSE NULL

\* next is read before the callback is called.
Visit(k) ==
    /\ iter' = [iter EXCEPT !.at = "callback", !.cur = k,
                  !.next = KeyAt(buckets[Bucket(buckets, k)],
                                 Position(buckets, k) + 1)]
    /\ visit' = [visit EXCEPT ![k] = CASE @ = "due" -> "done"
                                        [] @ = "new" -> "new"
                                        [] OTHER     -> "again"]
    /\ UNCHANGED <<buckets, num_items, callback_depth, contents>>

\* On along the chain, on to the next bucket, or the end.
Advance ==
    /\ iter.at = "loop"
    /\ IF iter.next # NULL THEN Visit(iter.next)
       ELSE IF iter.bucket < Len(buckets)
       THEN /\ iter' = [iter EXCEPT !.bucket = @ + 1,
                          !.next = KeyAt(buckets[iter.bucket + 1], 1)]
            /\ UNCHANGED <<buckets, num_items, callback_depth, contents, visit>>
       ELSE /\ iter' = [NoIteration EXCEPT !.at = "done"]
            /\ callback_depth' = callback_depth - 1
            /\ Resized(buckets, num_items, callback_depth - 1)
            /\ UNCHANGED <<num_items, contents, visit>>

CallbackReturns ==
    /\ iter.at = "callback"
    /\ iter' = [iter EXCEPT !.at = "loop", !.cur = NULL]
    /\ UNCHANGED <<buckets, num_items, callback_depth, contents, visit>>

\* The callback iterates itself, without changes; the table would be resized
\* at the end of that.
InnerDoall ==
    /\ iter.at = "callback"
    /\ Resized(buckets, num_items, (callback_depth + 1) - 1)
    /\ UNCHANGED <<num_items, callback_depth, iter, contents, visit>>

Return ==
    /\ iter.at = "done"
    /\ iter' = NoIteration
    /\ visit' = [k \in Keys |-> "new"]
    /\ UNCHANGED <<buckets, num_items, callback_depth, contents>>

Next ==
    \/ \E k \in Keys, v \in Values : OPENSSL_lh_insert(k, v)
    \/ \E k \in Keys : OPENSSL_lh_delete(k)
    \/ BeginDoall
    \/ Advance
    \/ CallbackReturns
    \/ InnerDoall
    \/ Return

Spec == Init /\ [][Next]_vars

-----------------------------------------------------------------------------
\* The types of the table and of the iteration over it
TypeOK ==
    /\ Len(buckets) >= kMinNumBuckets
    /\ num_items \in 0..Cardinality(Keys)
    /\ callback_depth \in 0..1
    /\ contents \in [Keys -> Values \cup {NULL}]

\* Every key is found with the value it was last given, whatever was
\* inserted, deleted and moved to other buckets since, and num_items counts
\* them.
LookupExact ==
    /\ \A k \in Keys : OPENSSL_lh_retrieve(k) = contents[k]
    /\ num_items = Cardinality({k \in Keys : contents[k] # NULL})

\* An iteration calls back exactly once for every element that was there when
\* it began, although its callbacks add elements and remove their own.
VisitsOnce ==
    \A k \in Keys :
        /\ visit[k] # "again"
        /\ iter.at = "done" => visit[k] # "due"
=============================================================================
