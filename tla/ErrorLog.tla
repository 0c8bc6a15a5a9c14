------------------------------ MODULE ErrorLog ------------------------------
(***************************************************************************)
(* What the error queue of a thread promises (include/openssl/err.h): the  *)
(* most recent errors in order, read from the oldest, with marks to which  *)
(* the newest can be taken back, and a copy that can be put back.          *)
(***************************************************************************)
EXTENDS Integers, Sequences

CONSTANTS Codes, Limit

VARIABLES
    log,     \* [packed, mark], oldest first
    kept,    \* the errors of a saved state, <<>> when there is none
    result   \* what the last call returned

vars == <<log, kept, result>>

Init == log = <<>> /\ kept = <<>> /\ result = 0

Unmarked(l) == [i \in DOMAIN l |-> [l[i] EXCEPT !.mark = FALSE]]

Put(code) ==
    LET added == Append(log, [packed |-> code, mark |-> FALSE])
    IN  log' = IF Len(added) > Limit THEN Tail(added) ELSE added

Get == /\ result' = IF log = <<>> THEN 0 ELSE Head(log).packed
       /\ log' = IF log = <<>> THEN log ELSE Tail(log)

Peek == \/ result' = IF log = <<>> THEN 0 ELSE Head(log).packed
        \/ result' = IF log = <<>> THEN 0 ELSE log[Len(log)].packed

Mark == /\ result' = IF log = <<>> THEN 0 ELSE 1
        /\ log' = [i \in DOMAIN log |->
                     IF i = Len(log) THEN [log[i] EXCEPT !.mark = TRUE]
                                     ELSE log[i]]

\* Everything after the last mark goes, and so does the mark.
PopToMark ==
    \/ /\ \A i \in DOMAIN log : ~log[i].mark
       /\ log' = <<>> /\ result' = 0
    \/ \E i \in DOMAIN log :
         /\ log[i].mark /\ \A j \in DOMAIN log : j > i => ~log[j].mark
         /\ log' = [SubSeq(log, 1, i) EXCEPT ![i].mark = FALSE]
         /\ result' = 1

Next ==
    \/ (\E code \in Codes : Put(code)) /\ result' = 0 /\ UNCHANGED kept
    \/ (Get \/ Mark \/ PopToMark) /\ UNCHANGED kept
    \/ Peek /\ UNCHANGED <<log, kept>>
    \/ result' = 0 /\ UNCHANGED <<log, kept>>  \* data is added to an error
    \/ log' = <<>> /\ result' = 0 /\ UNCHANGED kept
    \/ kept' \in {Unmarked(log), <<>>} /\ result' = 0 /\ UNCHANGED log
    \/ log' = kept /\ result' = 0 /\ UNCHANGED kept

Spec == Init /\ [][Next]_vars
=============================================================================
