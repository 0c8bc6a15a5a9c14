---------------------------- MODULE DTLSEndpoint ----------------------------
(***************************************************************************)
(* One DTLS 1.3 endpoint: the state of DTLS1_STATE (ssl/internal.h) and    *)
(* the functions of ssl/d1_both.cc, d1_pkt.cc, d1_lib.cc, dtls_method.cc   *)
(* and dtls_record.cc that act on it.  Every operator takes the endpoint d *)
(* and returns the endpoint the C++ function leaves behind, so that        *)
(* DTLSConnection can run two of them against each other.                  *)
(*                                                                         *)
(* A record is [epoch, num, type, frags, acks]; ciphers are abstract: a    *)
(* record opens exactly under the epoch it was sealed in.  Message bodies  *)
(* are only their length.  The replay window (DTLSReplay) is the set of    *)
(* numbers seen: the runs stay far below its 256 entries.                  *)
(***************************************************************************)
EXTENDS Integers, Sequences, FiniteSets, FiniteSetsExt, SequencesExt

CONSTANTS
    SSL_MAX_HANDSHAKE_FLIGHT,     \* ring and flight size, 7 in the code
    DTLS_MAX_EXTRA_WRITE_EPOCHS,  \* 2 in the code
    DTLS_MAX_ACK_BUFFER,          \* 32 in the code
    DTLS1_MAX_TIMEOUTS,           \* 12 in the code
    DTLS1_HM_HEADER_LENGTH,       \* 12 bytes in the code
    RecordOverhead,               \* record header, AEAD tag and type byte
    Mtu,                          \* bytes of a packet
    MaxAcksPerRecord              \* (max_plaintext - 2) / 16 in send_ack

ASSUME EndpointAssumption ==
    /\ {SSL_MAX_HANDSHAKE_FLIGHT, DTLS_MAX_ACK_BUFFER, MaxAcksPerRecord}
         \subseteq Nat \ {0}
    /\ {DTLS_MAX_EXTRA_WRITE_EPOCHS, DTLS1_MAX_TIMEOUTS,
        DTLS1_HM_HEADER_LENGTH, RecordOverhead} \subseteq Nat
    /\ Mtu > RecordOverhead + DTLS1_HM_HEADER_LENGTH

\* ssl_encryption_level_t, which DTLS 1.3 uses as its first epochs.
ssl_encryption_initial     == 0
ssl_encryption_handshake   == 2
ssl_encryption_application == 3

NoEpoch   == [epoch |-> -1, seen |-> {}]
NoMessage == [seq |-> -1, type |-> "none", len |-> 0, reassembly |-> {}]

\* What dtls1_new leaves behind; hs is the state of the handshake driver.
NewEndpoint(hs) ==
    [hs |-> hs, version_final |-> FALSE, error |-> "none",
     handshake_write_seq |-> 0, handshake_read_seq |-> 0,
     read_epoch |-> [epoch |-> 0, seen |-> {}],
     next_read_epoch |-> NoEpoch, prev_read_epoch |-> NoEpoch,
     write_epoch |-> [epoch |-> 0, next |-> 0], extra_write_epochs |-> {},
     incoming_messages |->
         [i \in 0 .. (SSL_MAX_HANDSHAKE_FLIGHT - 1) |-> NoMessage],
     outgoing_messages |-> <<>>, outgoing_messages_complete |-> FALSE,
     outgoing_written |-> 0, outgoing_offset |-> 0,
     sent_records |-> <<>>, records_to_ack |-> <<>>,
     sending_flight |-> FALSE, sending_ack |-> FALSE,
     retransmit_timer |-> FALSE, ack_timer |-> FALSE, num_timeouts |-> 0,
     key_update_pending |-> FALSE, queued_key_update |-> "none",
     read_buffer |-> <<>>]

\* A fatal alert, a failed assert or an aborting BSSL_CHECK: the endpoint
\* takes no further step.
Fail(d, why) == [d EXCEPT !.error = why]

\* MRUQueue::PushBack with room for N elements.
PushBack(q, x, N) ==
    IF Len(q) < N THEN Append(q, x) ELSE Append(Tail(q), x)

-----------------------------------------------------------------------------
(* The outgoing flight.                                                    *)

dtls1_stop_timer(d) ==
    [d EXCEPT !.num_timeouts = 0, !.retransmit_timer = FALSE]

\* acked holds the ACKed bytes of the body.
IsFullyAcked(m) == m.acked = 0 .. (m.len - 1)

\* Mutant: every epoch but the current one is dropped.
dtls_clear_unused_write_epochs_All(d) ==
    [d EXCEPT !.extra_write_epochs = {}]

dtls_clear_unused_write_epochs(d) ==
    LET InUse(w) == \E i \in DOMAIN d.outgoing_messages :
                      /\ d.outgoing_messages[i].epoch = w.epoch
                      /\ ~IsFullyAcked(d.outgoing_messages[i])
    IN  [d EXCEPT !.extra_write_epochs = {w \in @ : InUse(w)}]

dtls_clear_outgoing_messages(d) ==
    dtls_clear_unused_write_epochs(
        [d EXCEPT !.outgoing_messages = <<>>, !.sent_records = <<>>,
                  !.outgoing_written = 0, !.outgoing_offset = 0,
                  !.outgoing_messages_complete = FALSE,
                  !.sending_flight = FALSE])

\* add_outgoing, behind dtls1_add_message.
add_outgoing(d, type, len) ==
    LET c == IF d.outgoing_messages_complete
               THEN dtls_clear_outgoing_messages(dtls1_stop_timer(d))
               ELSE d
        m == [seq |-> c.handshake_write_seq, type |-> type, len |-> len,
              epoch |-> c.write_epoch.epoch, acked |-> {}]
    IN  IF Len(c.outgoing_messages) = SSL_MAX_HANDSHAKE_FLIGHT
          THEN Fail(c, "outgoing flight full")
          ELSE [c EXCEPT !.outgoing_messages = Append(@, m),
                         !.handshake_write_seq = @ + 1]

dtls1_finish_flight(d) ==
    IF d.outgoing_messages = <<>> \/ d.outgoing_messages_complete
      THEN d
      ELSE LET implicit == Head(d.outgoing_messages).epoch <= 2
               c == IF implicit
                      THEN [d EXCEPT !.records_to_ack = <<>>,
                                     !.ack_timer = FALSE,
                                     !.sending_ack = FALSE]
                      ELSE d
           IN  dtls1_stop_timer([c EXCEPT !.outgoing_messages_complete = TRUE,
                                          !.sending_flight = TRUE])

dtls1_schedule_ack(d) ==
    [d EXCEPT !.ack_timer = FALSE, !.sending_ack = d.records_to_ack # <<>>]

-----------------------------------------------------------------------------
(* Sealing.                                                                *)

get_write_epoch(d, epoch) ==
    {w \in {d.write_epoch} \cup d.extra_write_epochs : w.epoch = epoch}

\* dtls_seal_record: the next number of the epoch, which must be available.
dtls_seal_record(d, epoch) ==
    LET w == CHOOSE x \in get_write_epoch(d, epoch) : TRUE
    IN  IF d.write_epoch.epoch = epoch
          THEN [d EXCEPT !.write_epoch.next = @ + 1]
          ELSE [d EXCEPT !.extra_write_epochs =
                    (@ \ {w}) \cup {[w EXCEPT !.next = @ + 1]}]

NextRecordNumber(d, epoch) ==
    LET w == CHOOSE x \in get_write_epoch(d, epoch) : TRUE
    IN  [epoch |-> epoch, num |-> w.next]

dtls_seal_max_input_len(d, epoch, room) ==
    IF get_write_epoch(d, epoch) = {} \/ room <= RecordOverhead
      THEN 0
      ELSE room - RecordOverhead

\* DTLSMessageBitmap::NextUnmarkedRange; DTLSMessageBitmap checks the code.
NextUnmarkedRange(m, start) ==
    LET unmarked == (start .. (m.len - 1)) \ m.acked IN
    IF unmarked = {}
      THEN [start |-> 0, size |-> 0]
      ELSE LET s == Min(unmarked)
               e == Min({i \in m.acked : i > s} \cup {m.len})
           IN  [start |-> s, size |-> e - s]

\* The packing loop of seal_next_record: fragments of one epoch, and of one
\* message only in epoch 0, until the capacity is used up.
RECURSIVE PackFragments(_, _, _, _)
PackFragments(d, epoch, capacity, frags) ==
    LET m     == d.outgoing_messages[d.outgoing_written + 1]
        range == NextUnmarkedRange(m, d.outgoing_offset)
        todo  == Min({range.size, capacity - DTLS1_HM_HEADER_LENGTH})
        next  == [d EXCEPT !.outgoing_offset = 0, !.outgoing_written = @ + 1]
        sent  == [d EXCEPT !.outgoing_offset = range.start + todo]
        packed == Append(frags, [seq |-> m.seq, type |-> m.type,
                                 msg_len |-> m.len, frag_off |-> range.start,
                                 frag_len |-> todo])
        Stop(e, f, continue) == [d |-> e, frags |-> f, continue |-> continue]
    IN  IF d.outgoing_written = Len(d.outgoing_messages)
          THEN Stop(d, frags, FALSE)
        ELSE IF m.epoch # epoch
          THEN Stop(d, frags, TRUE)
        ELSE IF range.size = 0
          THEN IF epoch = 0 THEN Stop(next, frags, TRUE)
                            ELSE PackFragments(next, epoch, capacity, frags)
        ELSE IF capacity < DTLS1_HM_HEADER_LENGTH + 1
          THEN Stop(d, frags, FALSE)
        ELSE IF todo < range.size
          THEN Stop(sent, packed, FALSE)
        ELSE PackFragments(sent, epoch,
                           capacity - DTLS1_HM_HEADER_LENGTH - todo, packed)

\* Skip the fully ACKed messages.
SkipAcked(d) ==
    LET n == Len(d.outgoing_messages)
        w == Min({i \in d.outgoing_written .. n :
                    i = n \/ ~IsFullyAcked(d.outgoing_messages[i + 1])})
    IN  IF w = d.outgoing_written
          THEN d
          ELSE [d EXCEPT !.outgoing_written = w, !.outgoing_offset = 0]

FragmentsLen(frags) ==
    FoldLeft(LAMBDA n, f : n + DTLS1_HM_HEADER_LENGTH + f.frag_len, 0, frags)

RECURSIVE seal_next_packet(_, _, _)

\* seal_next_record with the fragments of p: the record and the endpoint after it.
seal_next_record(d, p, epoch, number) ==
    LET sent == [number |-> number,
                 first_msg |-> d.outgoing_written,
                 first_msg_start |-> d.outgoing_offset,
                 last_msg |-> p.d.outgoing_written,
                 last_msg_end |-> p.d.outgoing_offset]
    IN  [d   |-> [dtls_seal_record(p.d, epoch) EXCEPT
                    !.sent_records = PushBack(@, sent, DTLS_MAX_ACK_BUFFER)],
         rec |-> [epoch |-> epoch, num |-> number.num, type |-> "handshake",
                  frags |-> p.frags, acks |-> <<>>]]

\* The end of seal_next_record and the loop of seal_next_packet: whether another
\* record follows in what is left of the packet.
AfterRecord(sealed, p, room, recs) ==
    IF p.continue
      THEN seal_next_packet(sealed.d,
                            room - RecordOverhead - FragmentsLen(p.frags),
                            Append(recs, sealed.rec))
      ELSE [d |-> sealed.d, recs |-> Append(recs, sealed.rec)]

SealFragments(d, p, epoch, room, recs) ==
    IF p.frags = <<>>
      THEN [d |-> IF p.continue THEN Fail(p.d, "assert !should_continue")
                                ELSE p.d,
            recs |-> recs]
      ELSE AfterRecord(seal_next_record(d, p, epoch, NextRecordNumber(p.d, epoch)),
                       p, room, recs)

\* d is past the ACKed messages.
SealUnacked(d, room, recs) ==
    LET epoch == d.outgoing_messages[d.outgoing_written + 1].epoch
        max_in_len == dtls_seal_max_input_len(d, epoch, room)
    IN  IF d.outgoing_written = Len(d.outgoing_messages) \/ max_in_len = 0
          THEN [d |-> d, recs |-> recs]
          ELSE SealFragments(d, PackFragments(d, epoch, max_in_len, <<>>),
                             epoch, room, recs)

\* seal_next_packet: recs are the records of the packet so far, room what is
\* left of it.
seal_next_packet(d, room, recs) == SealUnacked(SkipAcked(d), room, recs)

\* send_flight.  The first `writes` calls of the transport succeed, the next one
\* fails: a BIO_write, which rewinds the flight to the packet p that was not
\* taken, or the BIO_flush after the last packet.
RECURSIVE SendPackets(_, _, _)
SendPacket(d, p, writes, packets) ==
    LET done == p.d.outgoing_written = Len(p.d.outgoing_messages)
        Result(e, ok) == [d |-> e, packets |-> packets, ok |-> ok]
    IN  IF p.d.error # "none"
          THEN Result(p.d, FALSE)
        ELSE IF p.recs = <<>>
          THEN IF done THEN Result(p.d, TRUE)
                       ELSE Result(Fail(p.d, "MTU too small"), FALSE)
        ELSE IF writes = 0
          THEN Result([p.d EXCEPT !.outgoing_written = d.outgoing_written,
                                  !.outgoing_offset = d.outgoing_offset],
                      FALSE)
        ELSE SendPackets(p.d, writes - 1, packets \cup {p.recs})

SendPackets(d, writes, packets) ==
    IF d.outgoing_written = Len(d.outgoing_messages)
      THEN [d |-> d, packets |-> packets, ok |-> writes # 0]
      ELSE SendPacket(d, seal_next_packet(d, Mtu, <<>>), writes, packets)

send_flight(d, writes) ==
    IF d.num_timeouts > DTLS1_MAX_TIMEOUTS
      THEN [d |-> Fail(d, "read timeout expired"), packets |-> {},
            ok |-> FALSE]
      ELSE SendPackets(d, writes, {})

\* send_ack: the most recent records, in one packet of the current epoch.
send_ack(d) ==
    LET number == NextRecordNumber(d, d.write_epoch.epoch)
        n == Min({MaxAcksPerRecord, Len(d.records_to_ack)})
        acks == SubSeq(d.records_to_ack, Len(d.records_to_ack) - n + 1,
                       Len(d.records_to_ack))
    IN  [d   |-> dtls_seal_record(d, d.write_epoch.epoch),
         rec |-> [epoch |-> number.epoch, num |-> number.num, type |-> "ack",
                  frags |-> <<>>, acks |-> acks]]

\* The end of dtls1_flush, after send_flight returned f: the retransmit timer
\* starts when the whole flight is out.
FlightSent(f, out) ==
    IF f.ok
      THEN [d |-> [f.d EXCEPT !.outgoing_written = 0, !.outgoing_offset = 0,
                              !.sending_flight = FALSE,
                              !.retransmit_timer = TRUE],
            packets |-> out \cup f.packets]
      ELSE [d |-> f.d, packets |-> out \cup f.packets]

FlushFlight(d, writes, out) ==
    IF d.sending_flight THEN FlightSent(send_flight(d, writes), out)
                        ELSE [d |-> d, packets |-> out]

\* The BIO_write and the BIO_flush of send_ack.
FlushAck(a, writes) ==
    IF writes < 2
      THEN [d |-> a.d, packets |-> IF writes = 0 THEN {} ELSE {<<a.rec>>}]
      ELSE FlushFlight([a.d EXCEPT !.sending_ack = FALSE], writes - 2, {<<a.rec>>})

\* dtls1_flush: the pending ACK first, then the pending flight.
dtls1_flush(d, writes) ==
    IF d.sending_ack THEN FlushAck(send_ack(d), writes)
                     ELSE FlushFlight(d, writes, {})

\* DTLSv1_handle_timeout, when the timers in `expired` have run out.
DTLSv1_handle_timeout(d, expired, writes) ==
    LET a == IF "ack" \in expired
               THEN [d EXCEPT !.sending_ack = TRUE, !.ack_timer = FALSE]
               ELSE d
        r == IF "retransmit" \in expired
               THEN [a EXCEPT !.sending_flight = TRUE,
                              !.retransmit_timer = FALSE,
                              !.num_timeouts = @ + 1]
               ELSE a
    IN  dtls1_flush(r, writes)

-----------------------------------------------------------------------------
(* Keys.                                                                   *)

next_epoch(level, prev) ==
    IF level < ssl_encryption_application \/ prev < ssl_encryption_application
      THEN level
      ELSE prev + 1

CurrentIndex(d) == d.handshake_read_seq % SSL_MAX_HANDSHAKE_FLIGHT

dtls_has_unprocessed_handshake_data(d, has_message) ==
    \E i \in DOMAIN d.incoming_messages :
        /\ d.incoming_messages[i] # NoMessage
        /\ ~(has_message /\ i = CurrentIndex(d))

\* dtls1_set_read_state: the new epoch waits in next_read_epoch.
dtls1_set_read_state(d, level, has_message) ==
    IF dtls_has_unprocessed_handshake_data(d, has_message)
      THEN Fail(d, "excess handshake data")
    ELSE IF d.next_read_epoch # NoEpoch
      THEN Fail(d, "assert next_read_epoch == nullptr")
    ELSE [d EXCEPT !.next_read_epoch =
             [epoch |-> next_epoch(level, d.read_epoch.epoch), seen |-> {}]]

\* dtls1_set_write_state: the old epoch is kept while a message needs it.
\* extra_write_epochs.PushBack aborts when the vector is full.
dtls1_set_write_state(d, level) ==
    IF Cardinality(d.extra_write_epochs) = DTLS_MAX_EXTRA_WRITE_EPOCHS
      THEN Fail(d, "too many write epochs")
      ELSE dtls_clear_unused_write_epochs(
             [d EXCEPT !.write_epoch =
                         [epoch |-> next_epoch(level, d.write_epoch.epoch),
                          next |-> 0],
                       !.extra_write_epochs = @ \cup {d.write_epoch}])

\* tls13_add_key_update.
tls13_add_key_update(d, request_type) ==
    IF d.key_update_pending
      THEN d
    ELSE IF d.outgoing_messages # <<>>
      THEN [d EXCEPT !.queued_key_update = request_type]
    ELSE dtls1_finish_flight(
           [add_outgoing(d, request_type, 1) EXCEPT
               !.key_update_pending = TRUE])

-----------------------------------------------------------------------------
(* Receiving.                                                              *)

\* Mutant: the current epoch itself counts as too large.
reconstruct_epoch_Current(wire_epoch, current_epoch) ==
    LET high  == current_epoch - (current_epoch % 4)
        epoch == high + wire_epoch
    IN  IF epoch >= current_epoch /\ high > 0 THEN epoch - 4 ELSE epoch

reconstruct_epoch(wire_epoch, current_epoch) ==
    LET high  == current_epoch - (current_epoch % 4)
        epoch == high + wire_epoch
    IN  IF epoch > current_epoch /\ high > 0 THEN epoch - 4 ELSE epoch

\* parse_dtls_record: the read epoch a record is matched with.  Epoch 0 has
\* its own header and only matches the current epoch; the others carry two
\* bits of the epoch, and match nothing before the version is known.
MatchedEpoch(d, rec) ==
    LET newest == Max({d.read_epoch.epoch, d.next_read_epoch.epoch})
        epoch  == reconstruct_epoch(rec.epoch % 4, newest)
        known  == {d.read_epoch.epoch, d.next_read_epoch.epoch,
                   d.prev_read_epoch.epoch} \ {0}
    IN  IF rec.epoch = 0
          THEN IF d.read_epoch.epoch = 0 THEN 0 ELSE -1
          ELSE IF d.version_final /\ epoch \in known THEN epoch ELSE -1

\* dtls_open_record: discards records of unknown epochs, records that do not
\* decrypt and replays.  The first record of the next epoch makes it the
\* current one.
dtls_open_record(d, rec) ==
    LET e == MatchedEpoch(d, rec)
        slot == CASE e = d.read_epoch.epoch -> "read"
                  [] e = d.next_read_epoch.epoch -> "next"
                  [] OTHER -> "prev"
        seen == CASE slot = "read" -> d.read_epoch.seen
                  [] slot = "next" -> d.next_read_epoch.seen
                  [] OTHER -> d.prev_read_epoch.seen
        forbidden == rec.type = "app" /\ e < ssl_encryption_application
        opened == CASE slot = "read" -> [d EXCEPT !.read_epoch.seen =
                                            @ \cup {rec.num}]
                    [] slot = "next" ->
                         [d EXCEPT !.prev_read_epoch = d.read_epoch,
                                   !.read_epoch = [d.next_read_epoch EXCEPT
                                                     !.seen = @ \cup {rec.num}],
                                   !.next_read_epoch = NoEpoch]
                    [] OTHER -> [d EXCEPT !.prev_read_epoch.seen =
                                    @ \cup {rec.num}]
    IN  IF e = -1 \/ e # rec.epoch \/ rec.num \in seen
          THEN [d |-> d, ret |-> "discard"]
        ELSE IF forbidden
          THEN [d |-> Fail(opened, "unexpected record"), ret |-> "error"]
        ELSE [d |-> opened, ret |-> "success"]

\* IsComplete of the message at an index.
IsComplete(m) == m # NoMessage /\ m.reassembly = 0 .. (m.len - 1)

dtls1_is_current_message_complete(d) ==
    IsComplete(d.incoming_messages[CurrentIndex(d)])

\* dtls1_get_incoming_message and the marking of the fragment's bytes.
StoreFragment(d, f) ==
    LET idx == f.seq % SSL_MAX_HANDSHAKE_FLIGHT
        m   == d.incoming_messages[idx]
        new == [seq |-> f.seq, type |-> f.type, len |-> f.msg_len,
                reassembly |-> {}]
        bytes == f.frag_off .. (f.frag_off + f.frag_len - 1)
        Stored(x) == [d EXCEPT !.incoming_messages[idx] =
                         [x EXCEPT !.reassembly = @ \cup bytes]]
    IN  IF f.seq - d.handshake_read_seq >= SSL_MAX_HANDSHAKE_FLIGHT
          THEN Fail(d, "fragment outside the ring")
        ELSE IF m = NoMessage
          THEN Stored(new)
        ELSE IF m.seq # f.seq
          THEN Fail(d, "assert frag->seq == msg_hdr->seq")
        ELSE IF m.type # f.type \/ m.len # f.msg_len
          THEN Fail(d, "fragment mismatch")
        ELSE Stored(m)

\* Mutant: fragments from the past are not ignored.
ProcessFragment_NoPastCheck(acc, epoch, f) ==
    LET d == acc.d IN
    IF d.error # "none"
      THEN acc
    ELSE IF epoch # d.read_epoch.epoch \/ d.next_read_epoch # NoEpoch
      THEN [acc EXCEPT !.d = Fail(d, "excess handshake data")]
    ELSE [acc EXCEPT !.implicit_ack = @ \/ (d.hs # "done" /\ d.version_final),
                     !.d = StoreFragment(d, f)]

\* One iteration of the loop of dtls1_process_handshake_fragments.
ProcessFragment(acc, epoch, f) ==
    LET d == acc.d IN
    IF d.error # "none" \/ f.seq < d.handshake_read_seq
      THEN acc
    ELSE IF epoch # d.read_epoch.epoch \/ d.next_read_epoch # NoEpoch
      THEN [acc EXCEPT !.d = Fail(d, "excess handshake data")]
    ELSE LET i == [acc EXCEPT !.implicit_ack =
                       @ \/ (d.hs # "done" /\ d.version_final)]
         IN  IF f.seq - d.handshake_read_seq > SSL_MAX_HANDSHAKE_FLIGHT
               THEN [i EXCEPT !.skipped_fragments = TRUE]
               ELSE [i EXCEPT !.d = StoreFragment(d, f)]

\* Mutant: a record that brings nothing new is not ACKed.
dtls1_process_handshake_fragments_NewOnly(d, rec) ==
    LET acc == FoldLeft(LAMBDA a, f : ProcessFragment(a, rec.epoch, f),
                        [d |-> d, implicit_ack |-> FALSE,
                         skipped_fragments |-> FALSE],
                        rec.frags)
        c == IF acc.implicit_ack
               THEN dtls_clear_outgoing_messages(dtls1_stop_timer(acc.d))
               ELSE acc.d
        number == [epoch |-> rec.epoch, num |-> rec.num]
    IN  IF acc.d = d
          THEN d
          ELSE [c EXCEPT !.records_to_ack =
                             PushBack(@, number, DTLS_MAX_ACK_BUFFER),
                         !.ack_timer = @ \/ (c.version_final /\ ~c.sending_ack)]

dtls1_process_handshake_fragments(d, rec) ==
    LET acc == FoldLeft(LAMBDA a, f : ProcessFragment(a, rec.epoch, f),
                        [d |-> d, implicit_ack |-> FALSE,
                         skipped_fragments |-> FALSE],
                        rec.frags)
        c == IF acc.implicit_ack
               THEN dtls_clear_outgoing_messages(dtls1_stop_timer(acc.d))
               ELSE acc.d
        number == [epoch |-> rec.epoch, num |-> rec.num]
    IN  IF acc.d.error # "none" \/ acc.skipped_fragments
          THEN IF acc.d.error # "none" THEN acc.d ELSE c
          ELSE [c EXCEPT !.records_to_ack =
                             PushBack(@, number, DTLS_MAX_ACK_BUFFER),
                         !.ack_timer = @ \/ (c.version_final /\ ~c.sending_ack)]

\* Mutant: the last message of the record is taken to be whole.
AckedBytes_WholeLast(s, i, len) ==
    {b \in 0 .. (len - 1) :
        /\ i \in s.first_msg .. s.last_msg
        /\ i = s.first_msg => b >= s.first_msg_start}

\* The bytes one ACKed record marks in outgoing message i (counted from 0).
AckedBytes(s, i, len) ==
    {b \in 0 .. (len - 1) :
        /\ i \in s.first_msg .. s.last_msg
        /\ i = s.first_msg => b >= s.first_msg_start
        /\ i = s.last_msg => b < s.last_msg_end}

\* One iteration of the loop of dtls1_process_ack.
ProcessAckedRecord(d, ack_epoch, number) ==
    LET hits == {i \in DOMAIN d.sent_records :
                   d.sent_records[i].number = number}
        h == Min(hits)
        s == d.sent_records[h]
        cleared == [s EXCEPT !.first_msg = 0, !.first_msg_start = 0,
                             !.last_msg = 0, !.last_msg_end = 0]
    IN  IF d.error # "none"
          THEN d
        ELSE IF /\ ack_epoch < ssl_encryption_application
                /\ number.epoch > ack_epoch
          THEN Fail(d, "ACK below the epoch of the record")
        ELSE IF hits = {}
          THEN d
        ELSE [d EXCEPT !.sent_records[h] = cleared,
                       !.outgoing_messages =
                         [i \in DOMAIN @ |->
                            [@[i] EXCEPT !.acked =
                               @ \cup AckedBytes(s, i - 1,
                                   d.outgoing_messages[i].len)]]]

\* Mutant: one ACKed message ends the retransmission of the whole flight.
dtls1_process_ack_AnyAcked(d, rec) ==
    LET a == FoldLeft(LAMBDA e, n : ProcessAckedRecord(e, rec.epoch, n),
                      d, rec.acks)
    IN  IF \E i \in DOMAIN a.outgoing_messages :
             IsFullyAcked(a.outgoing_messages[i])
          THEN dtls_clear_outgoing_messages(dtls1_stop_timer(a))
          ELSE a

\* Mutant: the queued KeyUpdate is not picked up when the flight is ACKed.
dtls1_process_ack_NoQueue(d, rec) ==
    LET a == FoldLeft(LAMBDA e, n : ProcessAckedRecord(e, rec.epoch, n),
                      d, rec.acks)
        c == dtls_clear_outgoing_messages(dtls1_stop_timer(a))
    IN  IF ~d.version_final \/ a.error # "none"
          THEN a
        ELSE IF \E i \in DOMAIN a.outgoing_messages :
                  ~IsFullyAcked(a.outgoing_messages[i])
          THEN dtls_clear_unused_write_epochs(a)
        ELSE IF c.key_update_pending
          THEN [dtls1_set_write_state(c, ssl_encryption_application)
                   EXCEPT !.key_update_pending = FALSE]
        ELSE c

dtls1_process_ack(d, rec) ==
    LET a == FoldLeft(LAMBDA e, n : ProcessAckedRecord(e, rec.epoch, n),
                      d, rec.acks)
        c == dtls_clear_outgoing_messages(dtls1_stop_timer(a))
        r == IF c.key_update_pending
               THEN [dtls1_set_write_state(c, ssl_encryption_application)
                        EXCEPT !.key_update_pending = FALSE]
               ELSE c
    IN  IF ~d.version_final \/ a.error # "none"
          THEN IF d.version_final THEN a ELSE d
        ELSE IF \E i \in DOMAIN a.outgoing_messages :
                  ~IsFullyAcked(a.outgoing_messages[i])
          THEN dtls_clear_unused_write_epochs(a)
        ELSE IF r.queued_key_update # "none" /\ r.error = "none"
          THEN tls13_add_key_update([r EXCEPT !.queued_key_update = "none"],
                                    r.queued_key_update)
        ELSE r

\* dtls1_next_message.
dtls1_next_message(d) ==
    [d EXCEPT !.incoming_messages[CurrentIndex(d)] = NoMessage,
              !.handshake_read_seq = @ + 1]
=============================================================================
