----------------------------- MODULE ErrorQueue -----------------------------
(***************************************************************************)
(* The error queue of one thread (crypto/err/err.cc): a ring of errors,    *)
(* the strings they own, and a saved copy as SSL keeps one in read_error.  *)
(*                                                                         *)
(* A string is the address malloc gave it; the file and line travel with   *)
(* the packed code.  malloc fails at will.                                 *)
(***************************************************************************)
EXTENDS Integers, Sequences, SequencesExt, FiniteSets, FiniteSetsExt

CONSTANTS
    ERR_NUM_ERRORS,  \* 16 in the code
    Codes,           \* packed errors, not 0
    Strings          \* addresses of strings; malloc fails when all are taken

NoString == 0

VARIABLES
    errors, top, bottom, to_free,  \* ERR_STATE
    saved,   \* an ERR_SAVE_STATE, <<>> for NULL
    heap,    \* the allocated strings
    lent,    \* the string last returned, while the caller may use it
    result   \* what the last call returned

vars == <<errors, top, bottom, to_free, saved, heap, lent, result>>

Cleared == [packed |-> 0, data |-> NoString, mark |-> FALSE]

Init ==
    /\ errors = [i \in 0 .. (ERR_NUM_ERRORS - 1) |-> Cleared]
    /\ top = 0 /\ bottom = 0 /\ to_free = NoString
    /\ saved = <<>> /\ heap = {} /\ lent = NoString /\ result = 0

After(i, n) == (i + n) % ERR_NUM_ERRORS

\* Errors are stored in the range (bottom, top].
NumErrors == (top - bottom) % ERR_NUM_ERRORS
Empty     == top = bottom

\* The strings that go when the slots in is are cleared.
DataOf(is) == {errors[i].data : i \in is}

Fresh == Strings \ heap
Affected == lent' = NoString
Void     == result' = 0

-----------------------------------------------------------------------------
\* Mutant: the mark of the error that was in the slot stays.
ErrorIn_KeepsMark(slot, code) == [errors[slot] EXCEPT !.packed = code, !.data = NoString]

\* err_clear, then the new error.
ErrorIn(slot, code) == [Cleared EXCEPT !.packed = code]

ERR_put_error(code) ==
    LET slot == After(top, 1) IN
    /\ top' = slot
    /\ bottom' = IF slot = bottom THEN After(bottom, 1) ELSE bottom
    /\ errors' = [errors EXCEPT ![slot] = ErrorIn(slot, code)]
    /\ heap' = heap \ DataOf({slot})
    /\ Affected /\ Void /\ UNCHANGED <<to_free, saved>>

\* err_set_error_data: the new string replaces one of the newest error, or is
\* freed at once.
err_set_error_data ==
    /\ Fresh # {}
    /\ IF Empty THEN UNCHANGED <<errors, heap>>
       ELSE LET data == Min(Fresh) IN
            /\ errors' = [errors EXCEPT ![top].data = data]
            /\ heap' = (heap \ DataOf({top})) \cup {data}
    /\ Affected /\ Void /\ UNCHANGED <<top, bottom, to_free, saved>>

Returned(i) == IF Empty THEN 0 ELSE errors[i].packed

\* get_error_values without a place for the data: the string is freed.
ERR_get_error ==
    LET i == After(bottom, 1) IN
    /\ result' = Returned(i)
    /\ IF Empty THEN UNCHANGED <<errors, bottom, heap>>
       ELSE /\ errors' = [errors EXCEPT ![i] = Cleared]
            /\ bottom' = i
            /\ heap' = heap \ DataOf({i})
    /\ Affected /\ UNCHANGED <<top, to_free, saved>>

\* Mutant: the error that is removed still owns the string.
HandedOver_Freed(i) == [freed |-> {to_free, errors[i].data}, to_free |-> errors[i].data]

\* to_free takes over the string of an error that is removed, if it has one.
HandedOver(i) ==
    IF errors[i].data = NoString THEN [freed |-> {}, to_free |-> to_free]
    ELSE [freed |-> {to_free}, to_free |-> errors[i].data]

ERR_get_error_line_data ==
    LET i == After(bottom, 1) IN
    /\ result' = Returned(i)
    /\ IF Empty THEN Affected /\ UNCHANGED <<errors, bottom, heap, to_free>>
       ELSE /\ errors' = [errors EXCEPT ![i] = Cleared]
            /\ bottom' = i
            /\ heap' = heap \ HandedOver(i).freed
            /\ to_free' = HandedOver(i).to_free
            /\ lent' = errors[i].data
    /\ UNCHANGED <<top, saved>>

\* ERR_peek_error_line_data and ERR_peek_last_error_line_data.
ERR_peek_error(i) ==
    /\ result' = Returned(i)
    /\ lent' = IF Empty THEN lent ELSE errors[i].data
    /\ UNCHANGED <<errors, top, bottom, to_free, saved, heap>>

ERR_clear_error ==
    /\ errors' = [i \in DOMAIN errors |-> Cleared]
    /\ heap' = heap \ (DataOf(DOMAIN errors) \cup {to_free})
    /\ to_free' = NoString /\ top' = 0 /\ bottom' = 0
    /\ Affected /\ Void /\ UNCHANGED <<saved>>

ERR_set_mark ==
    /\ result' = IF Empty THEN 0 ELSE 1
    /\ errors' = IF Empty THEN errors ELSE [errors EXCEPT ![top].mark = TRUE]
    /\ UNCHANGED <<top, bottom, to_free, saved, heap, lent>>

ERR_pop_to_mark ==
    LET marked == {k \in 1 .. NumErrors : errors[After(bottom, k)].mark}
        keep   == IF marked = {} THEN 0 ELSE Max(marked)
        popped == {After(bottom, k) : k \in (keep + 1) .. NumErrors}
        newest == After(bottom, keep)
    IN  /\ errors' = [i \in DOMAIN errors |->
                        IF i \in popped THEN Cleared
                        ELSE IF keep > 0 /\ i = newest
                             THEN [errors[i] EXCEPT !.mark = FALSE]
                        ELSE errors[i]]
        /\ heap' = heap \ DataOf(popped)
        /\ top' = newest /\ result' = IF keep > 0 THEN 1 ELSE 0
        /\ Affected /\ UNCHANGED <<bottom, to_free, saved>>

-----------------------------------------------------------------------------
\* err_copy of several errors; those in ok get a copy of their string, for
\* the others there was none or malloc failed.  Marks are not copied.
err_copy(src, ok) ==
    LET free == SetToSortSeq(Fresh, <)
        rank(i) == Cardinality({j \in ok : j <= i})
    IN  [i \in DOMAIN src |->
           [packed |-> src[i].packed, mark |-> FALSE,
            data |-> IF i \in ok THEN free[rank(i)] ELSE NoString]]

Copies(src) ==
    {err_copy(src, ok) :
       ok \in {s \in SUBSET {i \in DOMAIN src : src[i].data # NoString} :
                 Cardinality(s) <= Cardinality(Fresh)}}

StringsOf(src) == {src[i].data : i \in DOMAIN src} \ {NoString}

Queued == [k \in 1 .. NumErrors |-> errors[After(bottom, k)]]

ERR_save_state ==
    /\ saved = <<>>
    /\ saved' \in Copies(Queued)
    /\ heap' = heap \cup StringsOf(saved')
    /\ Void /\ UNCHANGED <<errors, top, bottom, to_free, lent>>

ERR_SAVE_STATE_free ==
    /\ saved # <<>>
    /\ saved' = <<>> /\ heap' = heap \ StringsOf(saved)
    /\ Void /\ UNCHANGED <<errors, top, bottom, to_free, lent>>

RestoredBottom == ERR_NUM_ERRORS - 1

\* The slots past the restored errors keep what they hold.
ERR_restore_state ==
    /\ saved # <<>>
    /\ \E copy \in Copies(saved) :
         /\ errors' = [i \in DOMAIN errors |->
                         IF i < Len(copy) THEN copy[i + 1] ELSE errors[i]]
         /\ heap' = (heap \ DataOf(0 .. (Len(copy) - 1))) \cup StringsOf(copy)
    /\ top' = Len(saved) - 1 /\ bottom' = RestoredBottom
    /\ Affected /\ Void /\ UNCHANGED <<to_free, saved>>

Next ==
    \/ \E code \in Codes : ERR_put_error(code)
    \/ err_set_error_data \/ ERR_get_error \/ ERR_get_error_line_data
    \/ \E i \in {top, After(bottom, 1)} : ERR_peek_error(i)
    \/ ERR_clear_error \/ ERR_set_mark \/ ERR_pop_to_mark
    \/ ERR_save_state \/ ERR_SAVE_STATE_free \/ ERR_restore_state

Spec == Init /\ [][Next]_vars

-----------------------------------------------------------------------------
\* The types of ERR_STATE and of a saved state.
TypeOK ==
    /\ top \in DOMAIN errors /\ bottom \in DOMAIN errors
    /\ \A i \in DOMAIN errors :
         errors[i] \in [packed : Codes \cup {0}, data : Strings \cup {NoString},
                        mark : BOOLEAN]
    /\ Len(saved) < ERR_NUM_ERRORS
    /\ heap \subseteq Strings /\ {to_free, lent} \subseteq Strings \cup {NoString}

\* Every place that will free a string, with the string.
Owners ==
    {<<"error", i, errors[i].data>> : i \in DOMAIN errors} \cup
    {<<"saved", i, saved[i].data>> : i \in DOMAIN saved} \cup
    {<<"to_free", 0, to_free>>}

\* Every allocated string has exactly one owner, also in the slots outside the
\* queue and after a restore: nothing leaks, nothing is freed twice.
OwnedOnce ==
    /\ \A o \in Owners : o[3] # NoString => o[3] \in heap
    /\ \A str \in heap : Cardinality({o \in Owners : o[3] = str}) = 1

\* "The pointer becomes invalid after the next call that affects the same
\* thread's error queue" (include/openssl/err.h), and not before.
LentIsAllocated == lent # NoString => lent \in heap

Log == INSTANCE ErrorLog
    WITH Limit <- ERR_NUM_ERRORS - 1,
         log <- [k \in 1 .. NumErrors |->
                   [packed |-> Queued[k].packed, mark |-> Queued[k].mark]],
         kept <- [i \in DOMAIN saved |->
                    [packed |-> saved[i].packed, mark |-> FALSE]]

\* The ring implements the log: the newest errors in order, whatever wraps
\* around, is overwritten, popped to a mark, saved or restored.
LogSpec == Log!Spec
=============================================================================
