------------------------------- MODULE Stack --------------------------------
(***************************************************************************)
(* OPENSSL_STACK (crypto/stack/stack.cc): an array of pointers that can be *)
(* sorted and then searched by bisection.  An element is a number; what    *)
(* the comparison functions see of it is its key, which others may share.  *)
(* Indices start at 0, as in the code; data[i] is at i + 1.                *)
(***************************************************************************)
EXTENDS Integers, Sequences, SequencesExt, FiniteSetsExt

CONSTANTS
    Elements,  \* a set of numbers
    kMinSize,
    MaxNum     \* bound: elements on the stack

VARIABLES
    data, sorted, num_alloc,
    comp  \* "none", or the comparison function

vars == <<data, sorted, num_alloc, comp>>

Key(x) == x \div 2

\* comp(a, b), negative, zero or positive
Compare(c, a, b) == IF c = "ascending" THEN Key(a) - Key(b) ELSE Key(b) - Key(a)

\* OPENSSL_sk_new
Init ==
    /\ data = <<>> /\ sorted = FALSE /\ num_alloc = kMinSize
    /\ comp \in {"none", "ascending", "descending"}

-----------------------------------------------------------------------------
(***************************************************************************)
(* The heap sort                                                           *)
(***************************************************************************)
At(d, i) == d[i + 1]
Swap(d, i, j) == [d EXCEPT ![i + 1] = d[j + 1], ![j + 1] = d[i + 1]]

parent_idx(i) == (i - 1) \div 2
left_idx(i) == 2 * i + 1

\* The larger of i and j, which counts only when it is below num.
Larger(d, i, j, num) ==
    IF j < num /\ Compare(comp, At(d, i), At(d, j)) < 0 THEN j ELSE i

Largest(d, i, num) ==
    Larger(d, Larger(d, i, left_idx(i), num), left_idx(i) + 1, num)

RECURSIVE down_heap(_, _, _)
down_heap(d, i, num) ==
    LET next == Largest(d, i, num)
    IN  IF next = i THEN d ELSE down_heap(Swap(d, i, next), next, num)

RECURSIVE BuildHeap(_, _)
BuildHeap(d, i) ==
    IF i < 0 THEN d ELSE BuildHeap(down_heap(d, i, Len(d)), i - 1)

RECURSIVE TakeMaxima(_, _)
TakeMaxima(d, i) ==
    IF i = 0 THEN d ELSE TakeMaxima(down_heap(Swap(d, 0, i), 0, i), i - 1)

HeapSorted(d) ==
    IF Len(d) < 2 THEN d
    ELSE TakeMaxima(BuildHeap(d, parent_idx(Len(d) - 1)), Len(d) - 1)

OPENSSL_sk_sort ==
    /\ comp # "none" /\ ~sorted
    /\ data' = HeapSorted(data)
    /\ sorted' = TRUE
    /\ UNCHANGED <<num_alloc, comp>>

-----------------------------------------------------------------------------
(***************************************************************************)
(* The search                                                              *)
(***************************************************************************)
NotFound == -1

OPENSSL_sk_is_sorted == sorted \/ (comp # "none" /\ Len(data) < 2)

Matches(p, x) == IF comp = "none" THEN x = p ELSE Compare(comp, p, x) = 0

FirstMatch(p) ==
    Min({i - 1 : i \in {j \in DOMAIN data : Matches(p, data[j])}} \cup {MaxNum})

\* Mutant: any match is the answer.
Settled_Always(lo, hi) == TRUE

\* A match is the earliest one only when the range has size one.
Settled(lo, hi) == hi - lo = 1

\* The middle is biased towards lo, so that hi moves.
RECURSIVE Bisect(_, _, _)
Bisect(p, lo, hi) ==
    IF lo >= hi THEN NotFound
    ELSE LET mid == lo + (hi - lo - 1) \div 2
             r   == Compare(comp, p, At(data, mid))
         IN  IF r > 0 THEN Bisect(p, mid + 1, hi)
             ELSE IF r < 0 THEN Bisect(p, lo, mid)
             ELSE IF Settled(lo, hi) THEN mid
             ELSE Bisect(p, lo, mid + 1)

OPENSSL_sk_find(p) ==
    IF comp # "none" /\ OPENSSL_sk_is_sorted THEN Bisect(p, 0, Len(data))
    ELSE IF FirstMatch(p) = MaxNum THEN NotFound ELSE FirstMatch(p)

-----------------------------------------------------------------------------
(***************************************************************************)
(* The other calls                                                         *)
(***************************************************************************)
\* Also OPENSSL_sk_push.  The array doubles when only one slot is left;
\* realloc may fail, and then nothing changes.
OPENSSL_sk_insert(p, where) ==
    /\ Len(data) < MaxNum
    /\ num_alloc' = IF num_alloc <= Len(data) + 1 THEN 2 * num_alloc ELSE num_alloc
    /\ data' = IF where >= Len(data) THEN Append(data, p)
               ELSE InsertAt(data, where + 1, p)
    /\ sorted' = FALSE
    /\ UNCHANGED comp

\* Also OPENSSL_sk_shift, _pop and _delete_ptr.
OPENSSL_sk_delete(where) ==
    /\ where < Len(data)
    /\ data' = RemoveAt(data, where + 1)
    /\ UNCHANGED <<sorted, num_alloc, comp>>

OPENSSL_sk_delete_if(S) ==
    /\ data' = SelectSeq(data, LAMBDA x : x \notin S)
    /\ UNCHANGED <<sorted, num_alloc, comp>>

\* The flag stays as it is, whatever the value.
OPENSSL_sk_set(i, value) ==
    /\ i < Len(data)
    /\ data' = [data EXCEPT ![i + 1] = value]
    /\ UNCHANGED <<sorted, num_alloc, comp>>

OPENSSL_sk_zero ==
    /\ data # <<>>
    /\ data' = <<>> /\ sorted' = FALSE
    /\ UNCHANGED <<num_alloc, comp>>

StillSorted(c) == sorted /\ comp = c

OPENSSL_sk_set_cmp_func(c) ==
    /\ sorted' = StillSorted(c)
    /\ comp' = c
    /\ UNCHANGED <<data, num_alloc>>

Next ==
    \/ OPENSSL_sk_sort
    \/ OPENSSL_sk_zero
    \/ \E c \in {"none", "ascending", "descending"} : OPENSSL_sk_set_cmp_func(c)
    \/ \E S \in SUBSET Elements : OPENSSL_sk_delete_if(S)
    \/ \E i \in 0..(MaxNum - 1) :
         \/ OPENSSL_sk_delete(i)
         \/ \E p \in Elements : OPENSSL_sk_insert(p, i) \/ OPENSSL_sk_set(i, p)

Spec == Init /\ [][Next]_vars

-----------------------------------------------------------------------------
\* The types of the stack and its comparison function
TypeOK ==
    /\ data \in BoundedSeq(Elements, MaxNum)
    /\ sorted \in BOOLEAN
    /\ Len(data) < num_alloc
    /\ comp \in {"none", "ascending", "descending"}

Count(d, x) == Cardinality({i \in DOMAIN d : d[i] = x})

Ascending ==
    \A i \in 1..(Len(data) - 1) : Compare(comp, data[i], data[i + 1]) <= 0

\* What the comment on the field says: sorted "is non-zero if the values
\* pointed to by data are in ascending order, based on comp".
FlagRight == sorted => Ascending

\* As long as the flag is right, OPENSSL_sk_find returns the index of the first
\* element that matches, and finds one exactly when there is one, by bisection
\* as by a scan.
FindsFirst ==
    FlagRight =>
        \A p \in Elements :
            OPENSSL_sk_find(p) = IF FirstMatch(p) = MaxNum THEN NotFound
                                 ELSE FirstMatch(p)

\* Only OPENSSL_sk_set makes the flag wrong, by a value that is out of place;
\* every other call that moves elements or changes their order keeps it right,
\* deletions from a sorted stack included.
FlagKept ==
    [][FlagRight => \/ FlagRight'
                    \/ \E i \in 0..(MaxNum - 1), p \in Elements :
                          OPENSSL_sk_set(i, p)]_vars

\* OPENSSL_sk_sort keeps the elements and puts them in order.
SortExact ==
    [][~sorted /\ sorted' =>
         /\ Ascending'
         /\ \A x \in Elements : Count(data', x) = Count(data, x)]_vars
=============================================================================
