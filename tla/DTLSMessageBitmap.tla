------------------------- MODULE DTLSMessageBitmap --------------------------
(***************************************************************************)
(* DTLSMessageBitmap (ssl/d1_both.cc): the bytes of a handshake message    *)
(* that have been received, or ACKed, packed into bytes of bits.           *)
(*                                                                         *)
(* A byte is the set of its marked bits.  marked is a history variable:    *)
(* the bits a caller has marked, which the packed form must reproduce.     *)
(***************************************************************************)
EXTENDS DTLSParameters, Sequences, FiniteSetsExt

VARIABLES
    bytes_,                \* <<set of marked bits, ...>>, <<>> when complete
    first_unmarked_byte_,  \* index, from 0, of the first byte that is not full
    num_bits,              \* the argument of Init
    marked                 \* history: every bit marked so far

vars == <<bytes_, first_unmarked_byte_, num_bits, marked>>

FullByte == 0 .. (BitsPerByte - 1)

BitRange(start, end) == start .. (end - 1)

\* bytes_[idx], idx counted from 0.
Byte(bytes, idx) == bytes[idx + 1]

\* The bits MarkRange sets in byte idx: a mask in the first and the last byte
\* of the range, and all bits of the bytes between them.
Mask(idx, start, end) ==
    LET first == start \div BitsPerByte
        last  == end \div BitsPerByte
    IN  CASE idx = first /\ first = last ->
               BitRange(start % BitsPerByte, end % BitsPerByte)
          [] idx = first /\ first # last ->
               BitRange(start % BitsPerByte, BitsPerByte)
          [] first < idx /\ idx < last -> FullByte
          [] idx = last /\ first # last -> BitRange(0, end % BitsPerByte)
          [] OTHER -> {}

\* The loop that restores first_unmarked_byte_.
Advance(bytes, from) ==
    Min({i \in from .. Len(bytes) :
           i = Len(bytes) \/ Byte(bytes, i) # FullByte})

\* DTLSMessageBitmap::MarkRange on a bitmap [bytes, first].
MarkRange(bitmap, start0, end0) ==
    LET size  == BitsPerByte * Len(bitmap.bytes)
        start == Min({Max({start0, BitsPerByte * bitmap.first}), size})
        end   == Min({end0, size})
        bytes == [i \in DOMAIN bitmap.bytes |->
                    bitmap.bytes[i] \cup Mask(i - 1, start, end)]
        first == Advance(bytes, bitmap.first)
    IN  IF start >= end
          THEN bitmap
        ELSE IF first >= Len(bytes)
          THEN [bytes |-> <<>>, first |-> 0]
        ELSE [bytes |-> bytes, first |-> first]

\* DTLSMessageBitmap::Init: the bits past the end of the last byte are marked.
\* Init resets first_unmarked_byte_, which MarkRange may not have moved.
InitBitmap(n) ==
    LET num_bytes == (n + BitsPerByte - 1) \div BitsPerByte
        zero == [bytes |-> [i \in 1 .. num_bytes |-> {}], first |-> 0]
    IN  [MarkRange(zero, n, num_bytes * BitsPerByte) EXCEPT !.first = 0]

FirstUnmarkedRangeInByte(b) ==
    LET start == Min((FullByte \ b) \cup {BitsPerByte})
        end   == Min({i \in b : i >= start} \cup {BitsPerByte})
    IN  [start |-> start, end |-> end]

EmptyRange == [start |-> 0, end |-> 0]

\* Mutant: the bits of the byte after the whole bytes are left out.
NextUnmarkedRange_NoExtra(bitmap, start0) ==
    LET bytes == bitmap.bytes
        n     == Len(bytes)
        start == Max({start0, BitsPerByte * bitmap.first})
        idx0  == start \div BitsPerByte
        byte0 == Byte(bytes, idx0) \cup BitRange(0, start % BitsPerByte)
        idx   == IF byte0 # FullByte
                   THEN idx0
                   ELSE Min({i \in idx0 + 1 .. n :
                               i = n \/ Byte(bytes, i) # FullByte})
        range == FirstUnmarkedRangeInByte(
                   IF idx = idx0 THEN byte0 ELSE Byte(bytes, idx))
        stop  == Min({i \in idx + 1 .. n : i = n \/ Byte(bytes, i) # {}})
    IN  IF idx0 >= n \/ idx >= n
          THEN EmptyRange
        ELSE [start |-> idx * BitsPerByte + range.start,
              end   |-> IF range.end < BitsPerByte
                          THEN idx * BitsPerByte + range.end
                          ELSE stop * BitsPerByte]

\* DTLSMessageBitmap::NextUnmarkedRange: a range inside one byte, or one that
\* reaches the end of its byte, runs over whole unmarked bytes and takes the
\* first bits of the byte after them.
NextUnmarkedRange(bitmap, start0) ==
    LET bytes == bitmap.bytes
        n     == Len(bytes)
        start == Max({start0, BitsPerByte * bitmap.first})
        idx0  == start \div BitsPerByte
        byte0 == Byte(bytes, idx0) \cup BitRange(0, start % BitsPerByte)
        idx   == IF byte0 # FullByte
                   THEN idx0
                   ELSE Min({i \in idx0 + 1 .. n :
                               i = n \/ Byte(bytes, i) # FullByte})
        range == FirstUnmarkedRangeInByte(
                   IF idx = idx0 THEN byte0 ELSE Byte(bytes, idx))
        stop  == Min({i \in idx + 1 .. n : i = n \/ Byte(bytes, i) # {}})
        extra == IF stop < n THEN FirstUnmarkedRangeInByte(Byte(bytes, stop))
                             ELSE EmptyRange
    IN  IF idx0 >= n \/ idx >= n
          THEN EmptyRange
        ELSE IF range.end < BitsPerByte
          THEN [start |-> idx * BitsPerByte + range.start,
                end   |-> idx * BitsPerByte + range.end]
        ELSE [start |-> idx * BitsPerByte + range.start,
              end   |-> stop * BitsPerByte +
                        (IF extra.start = 0 THEN extra.end ELSE 0)]

IsComplete(bitmap) == bitmap.bytes = <<>>

-----------------------------------------------------------------------------
bitmap_ == [bytes |-> bytes_, first |-> first_unmarked_byte_]

Init ==
    /\ num_bits \in 0 .. MaxMessageBits
    /\ bytes_ = InitBitmap(num_bits).bytes
    /\ first_unmarked_byte_ = InitBitmap(num_bits).first
    /\ marked = {}

\* A caller marks a range; dtls1_process_ack passes SIZE_MAX as an open end,
\* for which any end past the last byte stands.
Mark(start, end) ==
    LET m == MarkRange(bitmap_, start, end) IN
    /\ bytes_' = m.bytes
    /\ first_unmarked_byte_' = m.first
    /\ marked' = marked \cup ((start .. (end - 1)) \cap 0 .. (num_bits - 1))
    /\ UNCHANGED num_bits

Next == \E start, end \in 0 .. (MaxMessageBits + BitsPerByte) :
          start <= end /\ Mark(start, end)

Spec == Init /\ [][Next]_vars

-----------------------------------------------------------------------------
\* The types of the bitmap's bytes and of the first unmarked byte.
TypeOK ==
    /\ bytes_ \in Seq(SUBSET FullByte)
    /\ first_unmarked_byte_ \in 0 .. Len(bytes_)
    /\ num_bits \in 0 .. MaxMessageBits
    /\ marked \subseteq 0 .. (num_bits - 1)

\* IsComplete, which only looks at whether bytes_ was released, is true
\* exactly when every bit of the message has been marked.
CompleteExact == IsComplete(bitmap_) <=> marked = 0 .. (num_bits - 1)

\* NextUnmarkedRange returns, from any start, the first maximal run of
\* unmarked bits: what seal_next_record retransmits is neither ACKed bytes
\* nor, through the padding of the last byte, bytes past the message.
NextRangeExact ==
    \A start \in 0 .. (MaxMessageBits + BitsPerByte) :
        LET unmarked == (start .. (num_bits - 1)) \ marked
            s == Min(unmarked)
            e == Min({i \in s .. num_bits : i \notin unmarked})
        IN  NextUnmarkedRange(bitmap_, start) =
              IF unmarked = {} THEN EmptyRange ELSE [start |-> s, end |-> e]

\* first_unmarked_byte_ is the first byte that is not full, as internal.h
\* says, so that skipping below it never skips an unmarked bit.
FirstUnmarkedExact ==
    bytes_ # <<>> =>
      /\ first_unmarked_byte_ < Len(bytes_)
      /\ Byte(bytes_, first_unmarked_byte_) # FullByte
      /\ \A i \in 0 .. (first_unmarked_byte_ - 1) : Byte(bytes_, i) = FullByte
=============================================================================
