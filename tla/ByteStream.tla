----------------------------- MODULE ByteStream -----------------------------
(***************************************************************************)
(* What a BIO pair promises: two bounded first-in first-out byte streams,  *)
(* one in each direction, that end together.  queue[e] is what end e wrote *)
(* and the other end has not read; user is the caller's buffer, with the   *)
(* bytes to write or the bytes read.                                       *)
(***************************************************************************)
EXTENDS Integers, Sequences

CONSTANTS Ends, Other(_), Bytes, Size, MaxCall

VARIABLES queue, closed, open, live, ret, user

vars == <<queue, closed, open, live, ret, user>>

Datas == UNION {[1 .. n -> Bytes] : n \in 0 .. MaxCall}

Init ==
    /\ queue = [e \in Ends |-> << >>]
    /\ closed = [e \in Ends |-> FALSE]
    /\ live = [e \in Ends |-> TRUE]
    /\ open = TRUE
    /\ ret = [n |-> 0, retry |-> FALSE]
    /\ user = << >>

Returns(n, retry) == ret' = [n |-> n, retry |-> retry]

\* A write takes as much as fits, in order.
Write(e, data) ==
    LET room == Size[e] - Len(queue[e])
        num  == IF Len(data) <= room THEN Len(data) ELSE room
    IN  /\ live[e] /\ user' = data
        /\ UNCHANGED <<closed, open, live>>
        /\ \/ /\ ~open \/ data = << >>
              /\ Returns(0, FALSE) /\ UNCHANGED queue
           \/ /\ open /\ data # << >> /\ closed[e]
              /\ Returns(-1, FALSE) /\ UNCHANGED queue
           \/ /\ open /\ data # << >> /\ ~closed[e] /\ room = 0
              /\ Returns(-1, TRUE) /\ UNCHANGED queue
           \/ /\ open /\ data # << >> /\ ~closed[e] /\ room > 0
              /\ Returns(num, FALSE)
              /\ queue' = [queue EXCEPT ![e] = @ \o SubSeq(data, 1, num)]

\* A read returns the oldest bytes, and the end of the stream only once
\* everything written before it was read.
Read(e, n) ==
    LET q    == queue[Other(e)]
        size == IF Len(q) < n THEN Len(q) ELSE n
    IN  /\ live[e]
        /\ UNCHANGED <<closed, open, live>>
        /\ \/ /\ ~open \/ n = 0 \/ (q = << >> /\ closed[Other(e)])
              /\ Returns(0, FALSE) /\ user' = << >> /\ UNCHANGED queue
           \/ /\ open /\ n > 0 /\ q = << >> /\ ~closed[Other(e)]
              /\ Returns(-1, TRUE) /\ user' = << >> /\ UNCHANGED queue
           \/ /\ open /\ n > 0 /\ q # << >>
              /\ Returns(size, FALSE) /\ user' = SubSeq(q, 1, size)
              /\ queue' = [queue EXCEPT
                              ![Other(e)] = SubSeq(q, size + 1, Len(q))]

Shutdown(e) ==
    /\ live[e]
    /\ closed' = [closed EXCEPT ![e] = TRUE]
    /\ Returns(1, FALSE) /\ user' = << >>
    /\ UNCHANGED <<queue, open, live>>

\* Freeing one end drops what is buffered in both directions.
Free(e) ==
    /\ live[e]
    /\ live' = [live EXCEPT ![e] = FALSE]
    /\ open' = FALSE
    /\ queue' = [x \in Ends |-> << >>]
    /\ Returns(1, FALSE) /\ user' = << >>
    /\ UNCHANGED closed

Next ==
    \E e \in Ends :
        \/ \E data \in Datas : Write(e, data)
        \/ \E n \in 0 .. MaxCall : Read(e, n)
        \/ Shutdown(e) \/ Free(e)

Spec == Init /\ [][Next]_vars
=============================================================================
