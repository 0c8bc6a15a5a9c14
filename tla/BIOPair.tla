------------------------------ MODULE BIOPair -------------------------------
(***************************************************************************)
(* BIO_new_bio_pair (crypto/bio/pair.cc): two BIOs, each with a ring       *)
(* buffer for what it writes, that the other one reads from.  The buffers  *)
(* are indexed from 0 as in the code; the calls are made one at a time.    *)
(***************************************************************************)
EXTENDS Integers, Sequences

CONSTANTS
    Bytes,
    Size1, Size2, \* writebuf1_len and writebuf2_len; zero stands for 17 kB
    MaxCall       \* the longest read or write

Ends     == {1, 2}
Other(e) == 3 - e
Size     == [e \in Ends |-> IF e = 1 THEN Size1 ELSE Size2]

VARIABLES
    init,    \* bio->init, and b->peer is not NULL
    live,    \* not freed
    closed, len, offset, buf, request,
    ret,     \* what the last call returned, and its retry flag
    user     \* the caller's buffer: what it writes, or what it read

PairVars == <<init, live, closed, len, offset, buf, request, ret, user>>

Datas == UNION {[1 .. n -> Bytes] : n \in 0 .. MaxCall}

\* bio_make_pair does not clear the buffers.
PairInit ==
    /\ init = [e \in Ends |-> TRUE] /\ live = [e \in Ends |-> TRUE]
    /\ closed = [e \in Ends |-> FALSE]
    /\ len = [e \in Ends |-> 0] /\ offset = [e \in Ends |-> 0]
    /\ buf \in {f \in [Ends -> UNION {[0 .. (Size[e] - 1) -> Bytes] : e \in Ends}] :
                  \A e \in Ends : f[e] \in [0 .. (Size[e] - 1) -> Bytes]}
    /\ request = [e \in Ends |-> 0]
    /\ ret = [n |-> 0, retry |-> FALSE] /\ user = << >>

Returns(n, retry) == ret' = [n |-> n, retry |-> retry]

\* The first free byte, after |done| bytes of this call.
WriteOffset(e, done) ==
    LET write_offset == offset[e] + len[e] + done
    IN  IF write_offset >= Size[e] THEN write_offset - Size[e]
        ELSE write_offset

\* The bytes that fit before the end of the buffer.
Chunk(e, start, rest) ==
    IF start + rest <= Size[e] THEN rest ELSE Size[e] - start

\* memcpy of |chunk| bytes of data, from its byte done + 1.
Copied(b, start, chunk, data, done) ==
    [i \in DOMAIN b |-> IF start <= i /\ i < start + chunk
                        THEN data[done + (i - start) + 1] ELSE b[i]]

\* Mutant: the loop ends after its first iteration.
BufferWritten_Once(e, data, num) ==
    LET start1 == WriteOffset(e, 0)
        chunk1 == Chunk(e, start1, num)
    IN  Copied(buf[e], start1, chunk1, data, 0)

\* The loop runs once, or twice around the end of the buffer.
BufferWritten(e, data, num) ==
    LET start1 == WriteOffset(e, 0)
        chunk1 == Chunk(e, start1, num)
        b1     == Copied(buf[e], start1, chunk1, data, 0)
        start2 == WriteOffset(e, chunk1)
        chunk2 == Chunk(e, start2, num - chunk1)
    IN  IF chunk1 = num THEN b1
        ELSE Copied(b1, start2, chunk2, data, chunk1)

WriteRoom(e) == Size[e] - len[e]

bio_write(e, data) ==
    LET num == IF Len(data) > WriteRoom(e) THEN WriteRoom(e) ELSE Len(data)
    IN  /\ live[e] /\ user' = data
        /\ UNCHANGED <<init, live, closed, offset>>
        /\ \/ /\ ~init[e] \/ data = << >>
              /\ Returns(0, FALSE) /\ UNCHANGED <<len, buf, request>>
           \/ /\ init[e] /\ data # << >>
              /\ request' = [request EXCEPT ![e] = 0]
              /\ \/ /\ closed[e]
                    /\ Returns(-1, FALSE) /\ UNCHANGED <<len, buf>>
                 \/ /\ ~closed[e] /\ WriteRoom(e) = 0
                    /\ Returns(-1, TRUE) /\ UNCHANGED <<len, buf>>
                 \/ /\ ~closed[e] /\ WriteRoom(e) # 0
                    /\ buf' = [buf EXCEPT ![e] = BufferWritten(e, data, num)]
                    /\ len' = [len EXCEPT ![e] = @ + num]
                    /\ Returns(num, FALSE)

\* The offset after a chunk was read and |left| bytes remain.
Advanced(p, off, chunk, left) ==
    IF left = 0 \/ off + chunk = Size[p] THEN 0 ELSE off + chunk

Part(p, off, chunk) == [i \in 1 .. chunk |-> buf[p][off + i - 1]]

bio_read(e, n) ==
    LET p      == Other(e)
        size   == IF len[p] < n THEN len[p] ELSE n
        chunk1 == Chunk(p, offset[p], size)
        off1   == Advanced(p, offset[p], chunk1, len[p] - chunk1)
        chunk2 == Chunk(p, off1, size - chunk1)
    IN  /\ live[e]
        /\ UNCHANGED <<init, live, closed, buf>>
        /\ \/ /\ ~init[e]
              /\ Returns(0, FALSE) /\ user' = << >>
              /\ UNCHANGED <<len, offset, request>>
           \/ /\ init[e] /\ (n = 0 \/ (len[p] = 0 /\ closed[p]))
              /\ request' = [request EXCEPT ![p] = 0]
              /\ Returns(0, FALSE) /\ user' = << >> /\ UNCHANGED <<len, offset>>
           \/ /\ init[e] /\ n # 0 /\ len[p] = 0 /\ ~closed[p]
              /\ request' = [request EXCEPT
                                ![p] = IF n <= Size[p] THEN n ELSE Size[p]]
              /\ Returns(-1, TRUE) /\ user' = << >> /\ UNCHANGED <<len, offset>>
           \/ /\ init[e] /\ n # 0 /\ len[p] # 0
              /\ request' = [request EXCEPT ![p] = 0]
              /\ len' = [len EXCEPT ![p] = @ - size]
              /\ IF chunk1 = size
                 THEN /\ user' = Part(p, offset[p], chunk1)
                      /\ offset' = [offset EXCEPT ![p] = off1]
                 ELSE /\ user' = Part(p, offset[p], chunk1) \o
                                    Part(p, off1, chunk2)
                      /\ offset' = [offset EXCEPT
                             ![p] = Advanced(p, off1, chunk2, len[p] - size)]
              /\ Returns(size, FALSE)

\* BIO_C_SHUTDOWN_WR.
BIO_shutdown_wr(e) ==
    /\ live[e]
    /\ closed' = [closed EXCEPT ![e] = TRUE]
    /\ Returns(1, FALSE) /\ user' = << >>
    /\ UNCHANGED <<init, live, len, offset, buf, request>>

\* BIO_C_RESET_READ_REQUEST.
ResetReadRequest(e) ==
    /\ live[e] /\ request[e] # 0
    /\ request' = [request EXCEPT ![e] = 0]
    /\ UNCHANGED <<init, live, closed, len, offset, buf, ret, user>>

\* Both lengths are cleared while the ends are paired.
Emptied(e) == [x \in Ends |-> 0]

bio_free(e) ==
    /\ live[e]
    /\ live' = [live EXCEPT ![e] = FALSE]
    /\ IF init[e]
       THEN /\ init' = [x \in Ends |-> FALSE]
            /\ len' = Emptied(e) /\ offset' = [x \in Ends |-> 0]
       ELSE UNCHANGED <<init, len, offset>>
    /\ Returns(1, FALSE) /\ user' = << >>
    /\ UNCHANGED <<closed, buf, request>>

PairNext ==
    \E e \in Ends :
        \/ \E data \in Datas : bio_write(e, data)
        \/ \E n \in 0 .. MaxCall : bio_read(e, n)
        \/ BIO_shutdown_wr(e) \/ ResetReadRequest(e) \/ bio_free(e)

PairSpec == PairInit /\ [][PairNext]_PairVars

-----------------------------------------------------------------------------
\* The types; no buffer of a pair holds more than its size.
PairTypeOK ==
    /\ init \in [Ends -> BOOLEAN] /\ live \in [Ends -> BOOLEAN]
    /\ closed \in [Ends -> BOOLEAN]
    /\ len \in [Ends -> Nat] /\ offset \in [Ends -> Nat]
    /\ request \in [Ends -> Nat]
    /\ \A e \in Ends : /\ len[e] <= Size[e] /\ offset[e] < Size[e]
                       /\ buf[e] \in [0 .. (Size[e] - 1) -> Bytes]

\* What the struct's comments say: a request is outstanding only while the
\* buffer is empty, and never for more than it can hold; an empty buffer
\* starts over at its beginning; an end without its peer has nothing buffered.
StructExact ==
    \A e \in Ends :
        /\ request[e] # 0 /\ init[e] => len[e] = 0 /\ request[e] <= Size[e]
        /\ len[e] = 0 => offset[e] = 0
        /\ init[e] = init[Other(e)]
        /\ ~init[e] => len[e] = 0
        /\ init[e] => live[e]

\* The bytes end e has written and its peer has not read.
Queue(e) == [i \in 1 .. len[e] |->
                LET k == offset[e] + i - 1
                IN  buf[e][IF k >= Size[e] THEN k - Size[e] ELSE k]]

Stream == INSTANCE ByteStream
    WITH queue <- [e \in Ends |-> Queue(e)], open <- init[1]

\* The ring buffers implement two first-in first-out streams, with the same
\* return values, retry flags and bytes, across every wrap around.
StreamSpec == Stream!Spec
=============================================================================
