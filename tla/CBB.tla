-------------------------------- MODULE CBB --------------------------------
(***************************************************************************)
(* The builder of length-prefixed and DER data, crypto/bytestring/cbb.cc,  *)
(* and the parsers that read the data back, crypto/bytestring/cbs.cc.      *)
(*                                                                         *)
(* A CBB is the root or the child of a CBB; every write to a CBB first     *)
(* flushes the children that are open below it, deepest first, and a flush *)
(* writes the length prefix that was left open.  A DER length takes one    *)
(* byte until the contents turn out to be longer, and then the contents    *)
(* move along.  The open CBBs form a chain; CBB 0 is the root.             *)
(*                                                                         *)
(* A byte has Radix values instead of 256; half of them have the high bit  *)
(* set.  realloc gives blocks up to a size that each call chooses.  Only   *)
(* attached CBBs are used: a flushed one has no base and every call on it  *)
(* returns zero.                                                           *)
(***************************************************************************)
EXTENDS Naturals, Sequences, SequencesExt, FiniteSets

CONSTANTS
    Radix,        \* the values of a byte, a power of two and at least 8
    MaxLenBytes,  \* the most bytes of a long-form length, 4 in the code
    Capacities,   \* the sizes of the fixed buffers
    HeapLimits,   \* the largest block that realloc gives
    Chunks,       \* what a caller adds at once
    Tags,         \* the tags in use: class bits and number
    MaxDepth,     \* bound: open children
    MaxLen        \* bound: bytes in the buffer before a call

VARIABLES
    base,      \* cbb_buffer_st: buf (up to len), cap, can_resize, error
    children,  \* the open children, each cbb_child_st
    space,     \* the CBB and the bytes of the last CBB_reserve
    frames,    \* what was added to each open CBB since it was opened
    last       \* the outermost child that the last call closed

vars == <<base, children, space, frames, last>>

High == Radix \div 2

NoSpace == [cbb |-> 0, len |-> 0]
NoElement == [kind |-> "none", width |-> 0, tag |-> 0, contents |-> <<>>]

(* The number portion of a tag byte with all its bits set, 0x1f *)
NumberMask == High - 1

-----------------------------------------------------------------------------
(***************************************************************************)
(* Numbers as bytes                                                        *)
(***************************************************************************)

(* The n low digits of v, the most significant first *)
Digits(v, r, n) == [i \in 1..n |-> (v \div r^(n - i)) % r]

RECURSIVE NumDigits(_, _)
NumDigits(v, r) == IF v < r THEN 1 ELSE 1 + NumDigits(v \div r, r)

(* add_base128_integer: all but the last byte have the high bit. *)
add_base128_integer(v) ==
    LET n == NumDigits(v, High)
    IN  [i \in 1..n |-> Digits(v, High, n)[i] + (IF i < n THEN High ELSE 0)]

TagBytes(tag) ==
    IF tag.number >= NumberMask
    THEN <<tag.bits + NumberMask>> \o add_base128_integer(tag.number)
    ELSE <<tag.bits + tag.number>>

(* The bytes that a DER length takes *)
LenLen(len) == IF len < High THEN 1 ELSE 1 + NumDigits(len, Radix)

-----------------------------------------------------------------------------
(***************************************************************************)
(* The buffer                                                              *)
(***************************************************************************)
OnError(b) == [b EXCEPT !.error = TRUE]

Larger(x, y) == IF x > y THEN x ELSE y

cbb_buffer_reserve(b, n, heap) ==
    LET newlen == Len(b.buf) + n
        newcap == Larger(2 * b.cap, newlen)
    IN  CASE b.error \/ newlen <= b.cap -> b
          [] ~b.can_resize \/ newcap > heap -> OnError(b)
          [] OTHER -> [b EXCEPT !.cap = newcap]

(* The bytes are appended if there is room for them. *)
Appended(b, bytes) == IF b.error THEN b ELSE [b EXCEPT !.buf = @ \o bytes]
cbb_buffer_add(b, bytes, heap) ==
    Appended(cbb_buffer_reserve(b, Len(bytes), heap), bytes)

(* memmove: the bytes from start on move extra bytes along. *)
Moved(b, start, extra) ==
    IF b.error THEN b
    ELSE [b EXCEPT !.buf =
            SubSeq(@, 1, start) \o [i \in 1..extra |-> 0] \o
            SubSeq(@, start + 1, Len(@) - extra)]

Overwritten(b, at, bytes) ==
    IF b.error THEN b
    ELSE [b EXCEPT !.buf = [i \in 1..Len(@) |->
            IF i - at \in 1..Len(bytes) THEN bytes[i - at] ELSE @[i]]]

(***************************************************************************)
(* Write the length prefix of the child c, whose own children are flushed. *)
(***************************************************************************)
FlushedASN1(b, c, len, heap) ==
    LET len_len == LenLen(len)
        start   == c.offset + c.pending_len_len
        prefix  == IF len_len = 1 THEN <<len>>
                   ELSE <<High + len_len - 1>> \o
                        Digits(len, Radix, len_len - 1)
    IN  IF len > Radix^MaxLenBytes - 2 THEN OnError(b)
        ELSE Overwritten(
                 Moved(cbb_buffer_add(b, [i \in 1..(len_len - 1) |-> 0], heap),
                       start, len_len - 1),
                 c.offset, prefix)

(* Mutant: the length is cut to the bytes that were reserved. *)
FlushedPrefix_Cut(b, c, len) ==
    Overwritten(b, c.offset, Digits(len, Radix, c.pending_len_len))

FlushedPrefix(b, c, len) ==
    IF len >= Radix^c.pending_len_len THEN OnError(b)
    ELSE Overwritten(b, c.offset, Digits(len, Radix, c.pending_len_len))

Flushed(b, c, heap) ==
    IF b.error THEN b
    ELSE LET len == Len(b.buf) - (c.offset + c.pending_len_len)
         IN  IF c.pending_is_asn1 THEN FlushedASN1(b, c, len, heap)
             ELSE FlushedPrefix(b, c, len)

(* CBB_flush of CBB l: the children below it, deepest first *)
RECURSIVE CBB_flush(_, _, _)
CBB_flush(b, l, heap) ==
    IF l >= Len(children) THEN b
    ELSE Flushed(CBB_flush(b, l + 1, heap), children[l + 1], heap)

-----------------------------------------------------------------------------
(***************************************************************************)
(* What the caller meant: the contents of every open CBB.  Flushing CBB l  *)
(* puts the contents of the ones below it behind their lengths.            *)
(***************************************************************************)
DERLength(n) ==
    IF n < High THEN <<n>>
    ELSE LET k == CHOOSE j \in 1..n : n < Radix^j /\ n >= Radix^(j - 1)
         IN  <<High + k>> \o Digits(n, Radix, k)

Prefixed(f) ==
    (IF f.kind = "asn1" THEN DERLength(Len(f.contents))
     ELSE Digits(Len(f.contents), Radix, f.width)) \o f.contents

(* The contents of CBB l once everything below it is closed *)
RECURSIVE Closed(_)
Closed(l) ==
    frames[l + 1].contents \o
    (IF l + 1 = Len(frames) THEN <<>>
     ELSE Prefixed([frames[l + 2] EXCEPT !.contents = Closed(l + 1)]))

(* CBB l after it was flushed and more was added to it *)
AddedTo(l, bytes) ==
    Append(SubSeq(frames, 1, l),
           [frames[l + 1] EXCEPT !.contents = Closed(l) \o bytes])

(* The element that flushing CBB l closes just below it *)
ElementBelow(l) ==
    IF l + 1 >= Len(frames) THEN NoElement
    ELSE [frames[l + 2] EXCEPT !.contents = Closed(l + 1)]

-----------------------------------------------------------------------------
NewBase(cap, resize) ==
    [buf |-> <<>>, cap |-> cap, can_resize |-> resize, error |-> FALSE]

(* CBB_init without an initial capacity, and CBB_init_fixed *)
Init ==
    /\ base \in {NewBase(0, TRUE)} \cup {NewBase(c, FALSE) : c \in Capacities}
    /\ children = <<>>
    /\ space = NoSpace
    /\ frames = <<[kind |-> "root", width |-> 0, tag |-> 0, contents |-> <<>>]>>
    /\ last = NoElement

(* A call on CBB l; after an error every call returns zero. *)
Callable(l) == l \in 0..Len(children) /\ ~base.error

Grows == Len(base.buf) <= MaxLen

(***************************************************************************)
(* After an error the call fails and every later one does, so what is open *)
(* no longer matters; otherwise CBB l is the last of the chain.            *)
(***************************************************************************)
Keep(b, kept, f) ==
    /\ base' = b
    /\ children' = kept
    /\ frames' = f

(* CBB_add_bytes, CBB_add_zeros, CBB_add_space and the integers *)
CBB_add_bytes(l, bytes, heap) ==
    /\ Callable(l)
    /\ bytes # <<>> => Grows
    /\ Keep(cbb_buffer_add(CBB_flush(base, l, heap), bytes, heap),
            SubSeq(children, 1, l), AddedTo(l, bytes))
    /\ last' = IF bytes = <<>> THEN ElementBelow(l) ELSE NoElement
    /\ space' = NoSpace

NewChild(b, width, asn1) ==
    [offset |-> Len(b.buf), pending_len_len |-> width,
     pending_is_asn1 |-> asn1]

(* cbb_add_child once CBB l is flushed and before has been written *)
cbb_add_child(l, b, before, kind, width, tag, heap) ==
    /\ Keep(cbb_buffer_add(b, [i \in 1..width |-> 0], heap),
            Append(SubSeq(children, 1, l), NewChild(b, width, kind = "asn1")),
            Append(AddedTo(l, before),
                   [kind |-> kind, width |-> width, tag |-> tag,
                    contents |-> <<>>]))
    /\ last' = NoElement
    /\ space' = NoSpace

(* CBB_add_u8_length_prefixed and CBB_add_u16_length_prefixed *)
cbb_add_length_prefixed(l, width, heap) ==
    /\ Callable(l)
    /\ Grows /\ l < MaxDepth
    /\ cbb_add_child(l, CBB_flush(base, l, heap), <<>>, "prefixed", width, 0,
                     heap)

CBB_add_asn1(l, tag, heap) ==
    /\ Callable(l)
    /\ Grows /\ l < MaxDepth
    /\ cbb_add_child(l, cbb_buffer_add(CBB_flush(base, l, heap), TagBytes(tag),
                                       heap),
                     TagBytes(tag), "asn1", 1, tag, heap)

(* CBB_reserve, after which the caller may write into the space *)
CBB_reserve(l, n, heap) ==
    /\ Callable(l) /\ Grows
    /\ Keep(cbb_buffer_reserve(CBB_flush(base, l, heap), n, heap),
            SubSeq(children, 1, l), AddedTo(l, <<>>))
    /\ last' = NoElement
    /\ space' = IF base'.error THEN NoSpace ELSE [cbb |-> l, len |-> n]

(* The caller wrote bytes into the space and says so. *)
CBB_did_write(l, bytes) ==
    /\ Callable(l)
    /\ l = Len(children) /\ space.cbb = l /\ Len(bytes) \in 1..space.len
    /\ Len(base.buf) + Len(bytes) <= base.cap
    /\ Keep([base EXCEPT !.buf = @ \o bytes], children, AddedTo(l, bytes))
    /\ last' = NoElement
    /\ space' = NoSpace

(* The tag of a discarded DER child is not part of the child and stays. *)
CBB_discard_child(l) ==
    /\ Callable(l)
    /\ l < Len(children)
    /\ Keep([base EXCEPT !.buf = SubSeq(@, 1, children[l + 1].offset)],
            SubSeq(children, 1, l), SubSeq(frames, 1, l + 1))
    /\ last' = NoElement
    /\ space' = NoSpace

Next ==
    \E l \in 0..MaxDepth, heap \in HeapLimits :
        \/ \E bytes \in Chunks \cup {<<>>} : CBB_add_bytes(l, bytes, heap)
        \/ \E width \in {1, 2} : cbb_add_length_prefixed(l, width, heap)
        \/ \E tag \in Tags : CBB_add_asn1(l, tag, heap)
        \/ CBB_reserve(l, 2, heap)
        \/ \E bytes \in Chunks : CBB_did_write(l, bytes)
        \/ CBB_discard_child(l)

Spec == Init /\ [][Next]_vars

-----------------------------------------------------------------------------
(***************************************************************************)
(* The parsers.  Each returns whether it succeeded, what it read and the   *)
(* rest.                                                                   *)
(***************************************************************************)
NotParsed == [ok |-> FALSE, out |-> 0, rest |-> <<>>]
Parsed(out, rest) == [ok |-> TRUE, out |-> out, rest |-> rest]

(* CBS_get_bytes *)
CBS_get_bytes(cbs, n) ==
    IF n > Len(cbs) THEN NotParsed
    ELSE Parsed(SubSeq(cbs, 1, n), SubSeq(cbs, n + 1, Len(cbs)))

(* cbs_get_u: a big-endian integer of n bytes *)
cbs_get_u(cbs, n) ==
    IF n > Len(cbs) THEN NotParsed
    ELSE Parsed(FoldLeft(LAMBDA v, d : v * Radix + d, 0, SubSeq(cbs, 1, n)),
                SubSeq(cbs, n + 1, Len(cbs)))

cbs_get_length_prefixed(cbs, width) ==
    LET len == cbs_get_u(cbs, width)
    IN  IF len.ok THEN CBS_get_bytes(len.rest, len.out) ELSE NotParsed

RECURSIVE parse_base128_integer(_, _)
parse_base128_integer(cbs, v) ==
    IF cbs = <<>> \/ (v = 0 /\ Head(cbs) = High) THEN NotParsed
    ELSE LET next == v * High + (Head(cbs) % High)
         IN  IF Head(cbs) >= High THEN parse_base128_integer(Tail(cbs), next)
             ELSE Parsed(next, Tail(cbs))

TagOf(bits, number) ==
    IF number.ok /\ ~(bits = 0 /\ number.out = 0)
    THEN Parsed([bits |-> bits, number |-> number.out], number.rest)
    ELSE NotParsed

parse_asn1_tag(cbs) ==
    IF cbs = <<>> THEN NotParsed
    ELSE LET bits == (Head(cbs) \div High) * High
             high == parse_base128_integer(Tail(cbs), 0)
         IN  IF Head(cbs) % High # NumberMask
             THEN TagOf(bits, Parsed(Head(cbs) % High, Tail(cbs)))
             ELSE IF high.ok /\ high.out >= NumberMask THEN TagOf(bits, high)
             ELSE NotParsed

(* The length and the contents of a DER element, without ber_ok *)
ParseLength(cbs) ==
    LET num_bytes == Head(cbs) % High
        len       == cbs_get_u(Tail(cbs), num_bytes)
    IN  IF cbs = <<>> THEN NotParsed
        ELSE IF Head(cbs) < High THEN CBS_get_bytes(Tail(cbs), Head(cbs))
        ELSE IF \/ num_bytes = 0 \/ num_bytes > MaxLenBytes \/ ~len.ok
                \/ len.out < High \/ len.out \div Radix^(num_bytes - 1) = 0
             THEN NotParsed
        ELSE CBS_get_bytes(len.rest, len.out)

(* CBS_get_asn1 of an element with this tag *)
CBS_get_asn1(cbs, tag) ==
    LET parsed == parse_asn1_tag(cbs)
    IN  IF parsed.ok /\ parsed.out = tag THEN ParseLength(parsed.rest)
        ELSE NotParsed

-----------------------------------------------------------------------------
ByteValues == 0..(Radix - 1)

(* The buffer never outgrows its capacity, and the chain its frames. *)
TypeOK ==
    /\ base.buf \in Seq(ByteValues)
    /\ base.cap \in Nat /\ Len(base.buf) <= base.cap
    /\ base.can_resize \in BOOLEAN /\ base.error \in BOOLEAN
    /\ Len(children) <= MaxDepth
    /\ Len(frames) = Len(children) + 1
    /\ space.cbb \in 0..MaxDepth /\ space.len \in Nat

(***************************************************************************)
(* The buffer is what was added, in order: the contents of the root, and   *)
(* for each open child the room for its prefix and its contents.  This     *)
(* includes that every length that CBB_flush wrote is right, that the      *)
(* contents it moved arrived whole, and that CBB_discard_child takes back  *)
(* the child and nothing else.                                             *)
(***************************************************************************)
Layout(i) ==
    (IF i = 1 THEN <<>> ELSE [j \in 1..frames[i].width |-> 0]) \o
    frames[i].contents

BufferExact ==
    ~base.error =>
        base.buf = FlattenSeq([i \in 1..Len(frames) |-> Layout(i)])

(***************************************************************************)
(* The parsers read back what was built: from the end of the buffer, the   *)
(* child that a flush has just closed parses as one element that leaves    *)
(* nothing behind and has the contents that were written to it.            *)
(***************************************************************************)
ElementLen ==
    Len(Prefixed(last)) +
    (IF last.kind = "asn1" THEN Len(TagBytes(last.tag)) ELSE 0)

ParsesBack ==
    last.kind # "none" /\ ~base.error =>
        LET end == SubSeq(base.buf, Len(base.buf) - ElementLen + 1,
                          Len(base.buf))
        IN  (IF last.kind = "asn1" THEN CBS_get_asn1(end, last.tag)
             ELSE cbs_get_length_prefixed(end, last.width))
                = Parsed(last.contents, <<>>)
=============================================================================
