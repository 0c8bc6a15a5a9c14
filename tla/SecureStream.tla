---------------------------- MODULE SecureStream ----------------------------
(***************************************************************************)
(* What a TLS connection promises its two applications: a stream of bytes  *)
(* in each direction, delivered in order, each byte once, and an end that  *)
(* is reported only after every byte before it was read.  A byte is named  *)
(* by its position in the stream it belongs to.                            *)
(***************************************************************************)
EXTENDS Integers, Sequences

CONSTANTS Ends, Peer(_)

VARIABLES
    written,  \* how many bytes each end has put into its stream
    got,      \* the bytes each end has read from its peer's
    shut,     \* the end will write no more
    reported  \* the end was told that its peer's stream is over

vars == <<written, got, shut, reported>>

Init ==
    /\ written = [e \in Ends |-> 0] /\ got = [e \in Ends |-> << >>]
    /\ shut = [e \in Ends |-> FALSE] /\ reported = [e \in Ends |-> FALSE]

Unread(e) == written[Peer(e)] - Len(got[e])

Write(e) ==
    /\ ~shut[e] /\ written'[e] > written[e]
    /\ written' = [written EXCEPT ![e] = written'[e]]
    /\ UNCHANGED <<got, shut, reported>>

Read(e) ==
    /\ \E n \in 1 .. Unread(e) :
           got' = [got EXCEPT ![e] = @ \o [i \in 1 .. n |-> Len(got[e]) + i]]
    /\ UNCHANGED <<written, shut, reported>>

Shut(e) ==
    /\ shut' = [shut EXCEPT ![e] = TRUE]
    /\ UNCHANGED <<written, got, reported>>

End(e) ==
    /\ shut[Peer(e)] /\ Unread(e) = 0
    /\ reported' = [reported EXCEPT ![e] = TRUE]
    /\ UNCHANGED <<written, got, shut>>

Next == \E e \in Ends : Write(e) \/ Read(e) \/ Shut(e) \/ End(e)

Spec == Init /\ [][Next]_vars
=============================================================================
