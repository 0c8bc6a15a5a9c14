--------------------------- MODULE DTLSConnection ---------------------------
(***************************************************************************)
(* A DTLS 1.3 client and server connected by a datagram network.           *)
(*                                                                         *)
(* Each endpoint is a DTLSEndpoint driven as ssl_run_handshake and         *)
(* ssl_read_impl drive it: pending ACKs and flights are flushed before     *)
(* anything else, complete messages are handled before more records are    *)
(* read, and records are read one at a time out of the current packet.     *)
(* The network reorders freely, and loses and duplicates packets; timers   *)
(* may fire early; the transport may refuse a write.                       *)
(***************************************************************************)
EXTENDS DTLSEndpoint

CONSTANTS
    Client, Server,
    ServerFlight,    \* <<[type, len], ...>> ServerHello .. Finished
    ClientFlight,    \* <<[type, len], ...>> of the client, ends in Finished
    NumTickets,      \* NewSessionTickets the server sends
    HelloLen,        \* bytes of the ClientHello
    RequestTypes,    \* arguments the application gives SSL_key_update
    MaxLoss,         \* packets the network may lose
    MaxDup,          \* packets the network may duplicate
    MaxEarlyTimeouts,\* retransmit timers that fire before the network is quiet
    MaxBioFailures,  \* calls of the transport that may fail
    MaxKeyUpdates,   \* SSL_key_update calls per endpoint
    MaxAppData,      \* SSL_write calls per endpoint
    MaxExpiry        \* previous read epochs dropped by their time limit

VARIABLES
    ssl,             \* the two endpoints
    net,             \* packets in flight
    used             \* how much of each budget is spent

vars == <<ssl, net, used>>

Endpoints == {Client, Server}
Peer(p) == IF p = Client THEN Server ELSE Client

NothingUsed == [loss |-> 0, dup |-> 0, early |-> 0, bio |-> 0, expiry |-> 0,
                tickets |-> 0, update |-> [p \in Endpoints |-> 0],
                app |-> [p \in Endpoints |-> 0]]

Init ==
    /\ ssl = [p \in Endpoints |-> NewEndpoint(IF p = Client THEN "start"
                                                          ELSE "CH")]
    /\ net = {}
    /\ used = NothingUsed

Up(p) == ssl[p].error = "none"

\* Nothing waits to be flushed: the top of both loops.
Flushed(d) == ~d.sending_flight /\ ~d.sending_ack

\* Waiting for the transport after ssl_hs_flush.
AwaitsFlush(d) == d.hs \in {"flush flight", "flush ack", "flush tickets",
                            "flush finished"}

\* p becomes d and hands packets to the network.
Update(p, d, packets) ==
    /\ ssl' = [ssl EXCEPT ![p] = d]
    /\ net' = net \cup {[to |-> Peer(p), recs |-> r] : r \in packets}

\* What a flush leaves behind and sends.
Sent(p, f) == Update(p, f.d, f.packets)

\* AllWrites: the transport takes everything.
AllWrites == 100
Writes == {AllWrites} \cup
          (IF used.bio < MaxBioFailures THEN 0 .. 3 ELSE {})
SpendBio(writes) ==
    [used EXCEPT !.bio = IF writes = AllWrites THEN @ ELSE @ + 1]

-----------------------------------------------------------------------------
(* The handshake driver.                                                   *)

AddAll(d, msgs) ==
    FoldLeft(LAMBDA e, m : add_outgoing(e, m.type, m.len), d, msgs)

\* The message after type in a flight.
Following(flight, type) ==
    flight[1 + CHOOSE i \in DOMAIN flight : flight[i].type = type].type

\* Client: the first flight (state_start_connect .. ssl_hs_flush).
StartHandshake ==
    /\ ssl[Client].hs = "start"
    /\ Update(Client,
              [dtls1_finish_flight(add_outgoing(ssl[Client], "CH", HelloLen))
                  EXCEPT !.hs = "SH"],
              {})
    /\ UNCHANGED used

\* Server, on ClientHello (do_select_session .. do_send_half_rtt_ticket).
HandleClientHello(d) ==
    LET a == add_outgoing(dtls1_next_message([d EXCEPT !.version_final = TRUE]),
                          Head(ServerFlight).type, Head(ServerFlight).len)
        b == dtls1_set_write_state(a, ssl_encryption_handshake)
        c == dtls1_set_write_state(AddAll(b, Tail(ServerFlight)),
                                   ssl_encryption_application)
    IN  [dtls1_finish_flight(c) EXCEPT !.hs = "flush flight"]

\* Client, on ServerHello (do_read_server_hello).
HandleServerHello(d) ==
    LET a == dtls1_set_write_state([d EXCEPT !.version_final = TRUE],
                                   ssl_encryption_handshake)
        b == dtls1_set_read_state(a, ssl_encryption_handshake, TRUE)
    IN  [dtls1_next_message(b) EXCEPT !.hs = Following(ServerFlight, "SH")]

\* Client, on the server's Finished (do_read_server_finished ..
\* do_complete_second_flight).
HandleServerFinished(d) ==
    LET a == dtls1_set_write_state(AddAll(dtls1_next_message(d), ClientFlight),
                                   ssl_encryption_application)
        b == dtls1_set_read_state(a, ssl_encryption_application, FALSE)
    IN  [dtls1_finish_flight(b) EXCEPT !.hs = "flush finished"]

\* Server, on the client's Finished (do_read_client_finished).
HandleClientFinished(d) ==
    LET a == dtls1_set_read_state(d, ssl_encryption_application, TRUE)
        b == dtls1_schedule_ack(dtls1_next_message(a))
    IN  [dtls1_finish_flight(b) EXCEPT !.hs = "flush ack"]

\* tls13_receive_key_update: new read keys, and a reply if one is asked for.
tls13_receive_key_update(d, request_type) ==
    LET a == dtls1_set_read_state(d, ssl_encryption_application, TRUE)
    IN  IF a.error = "none" /\ request_type = "KU requested"
          THEN tls13_add_key_update(a, "KU")
          ELSE a

\* tls13_post_handshake, then next_message in ssl_read_impl.
tls13_post_handshake(p, d, type) ==
    CASE type = "NST" /\ p = Client -> dtls1_next_message(d)
      [] type \in {"KU", "KU requested"} ->
           dtls1_next_message(tls13_receive_key_update(d, type))
      [] OTHER -> Fail(d, "unexpected message")

\* The current message is complete and nothing waits to be flushed.
HandleMessage(p) ==
    LET d == ssl[p]
        type == d.incoming_messages[CurrentIndex(d)].type
        flight == IF p = Client THEN ServerFlight ELSE ClientFlight
        handled ==
          CASE d.hs = "done" -> tls13_post_handshake(p, d, type)
            [] d.hs # "done" /\ type # d.hs -> Fail(d, "unexpected message")
            [] type = d.hs /\ type = "CH"  -> HandleClientHello(d)
            [] type = d.hs /\ type = "SH"  -> HandleServerHello(d)
            [] type = d.hs /\ type = "FIN" /\ p = Client ->
                 HandleServerFinished(d)
            [] type = d.hs /\ type = "FIN" /\ p = Server ->
                 HandleClientFinished(d)
            [] OTHER -> [dtls1_next_message(d) EXCEPT
                            !.hs = Following(flight, type)]
    IN  /\ Up(p) /\ Flushed(d) /\ ~AwaitsFlush(d)
        /\ dtls1_is_current_message_complete(d)
        /\ Update(p, handled, {})
        /\ UNCHANGED used

\* ssl_hs_flush is resolved and the state machine runs again.
ResumeAfterFlush(p) ==
    LET d == ssl[p]
        num_tickets == NumTickets - used.tickets
        tickets == AddAll(d, [i \in 1 .. num_tickets |->
                                 [type |-> "NST", len |-> 1]])
        resumed ==
          CASE d.hs = "flush flight" ->
                 [dtls1_set_read_state(d, ssl_encryption_handshake, FALSE)
                     EXCEPT !.hs = Head(ClientFlight).type]
            [] d.hs = "flush ack" /\ num_tickets > 0 ->
                 [dtls1_finish_flight(tickets) EXCEPT !.hs = "flush tickets"]
            [] OTHER -> [d EXCEPT !.hs = "done"]
    IN  /\ Up(p) /\ Flushed(d) /\ AwaitsFlush(d)
        /\ Update(p, resumed, {})
        /\ UNCHANGED used

-----------------------------------------------------------------------------
(* Flushing, timers, reading and the application's calls.                  *)

\* The flush at the top of ssl_run_handshake and ssl_read_impl.
Flush(p) ==
    /\ Up(p) /\ ~Flushed(ssl[p])
    /\ \E w \in Writes :
         /\ Sent(p, dtls1_flush(ssl[p], w))
         /\ used' = SpendBio(w)

\* Ready to read a record (ssl_hs_read_message, or ssl_read_impl).
Reading(d) ==
    /\ d.error = "none" /\ Flushed(d) /\ ~AwaitsFlush(d) /\ d.hs # "start"
    /\ ~dtls1_is_current_message_complete(d)

\* The network is quiet, no endpoint can go on without a timer, and no ACK
\* timer, which is four times shorter, is running.
Quiet ==
    /\ net = {}
    /\ \A p \in Endpoints : /\ Reading(ssl[p]) /\ ssl[p].read_buffer = <<>>
                            /\ ~ssl[p].ack_timer

\* p's retransmit timer is the next to run out: after each timeout dtls1_flush
\* doubles the duration, so the endpoint with fewer timeouts comes first.
IsDue(p) ==
    /\ Quiet
    /\ ssl[Peer(p)].retransmit_timer =>
         ssl[p].num_timeouts <= ssl[Peer(p)].num_timeouts

\* The application calls DTLSv1_handle_timeout.  An ACK timer may fire at
\* any time, and a retransmit timer too as long as the budget lasts; one that
\* is due costs nothing.
Timeout(p) ==
    LET running == {t \in {"ack", "retransmit"} :
                      IF t = "ack" THEN ssl[p].ack_timer
                                   ELSE ssl[p].retransmit_timer}
    IN  /\ Up(p)
        /\ \E expired \in SUBSET running \ {{}}, w \in Writes :
             LET early == "retransmit" \in expired /\ ~IsDue(p)
             IN  /\ early => used.early < MaxEarlyTimeouts
                 /\ Sent(p, DTLSv1_handle_timeout(ssl[p], expired, w))
                 /\ used' = [SpendBio(w) EXCEPT
                                !.early = IF early THEN @ + 1 ELSE @]

\* dtls1_open_handshake and dtls1_open_app_data: one record of the packet.
OpenRecord(d, rec) ==
    LET o == dtls_open_record(d, rec) IN
    IF o.ret # "success" \/ rec.type = "app"
      THEN o.d
    ELSE IF rec.type = "ack"
      THEN dtls1_process_ack(o.d, rec)
      ELSE dtls1_process_handshake_fragments(o.d, rec)

\* The rest of the packet in the read buffer comes before the next packet.
ReadRecord(p) ==
    /\ Reading(ssl[p]) /\ ssl[p].read_buffer # <<>>
    /\ ssl' = [ssl EXCEPT ![p] =
                 OpenRecord([@ EXCEPT !.read_buffer = Tail(@)],
                            Head(ssl[p].read_buffer))]
    /\ UNCHANGED <<net, used>>

\* A packet arrives, and may arrive again later.
ReadPacket(p) ==
    /\ Reading(ssl[p]) /\ ssl[p].read_buffer = <<>>
    /\ \E packet \in {q \in net : q.to = p}, again \in BOOLEAN :
         /\ again => used.dup < MaxDup
         /\ ssl' = [ssl EXCEPT ![p] =
                      OpenRecord([@ EXCEPT !.read_buffer = Tail(packet.recs)],
                                 Head(packet.recs))]
         /\ net' = IF again THEN net ELSE net \ {packet}
         /\ used' = [used EXCEPT !.dup = IF again THEN @ + 1 ELSE @]

Lose ==
    /\ used.loss < MaxLoss
    /\ \E packet \in net : net' = net \ {packet}
    /\ used' = [used EXCEPT !.loss = @ + 1]
    /\ UNCHANGED ssl

\* parse_dtls13_record drops the previous read epoch after four minutes, chosen
\* so that the peer has stopped retransmitting in it by then.
ExpirePrevReadEpoch(p) ==
    /\ Up(p) /\ ssl[p].prev_read_epoch # NoEpoch
    /\ \A i \in DOMAIN ssl[Peer(p)].outgoing_messages :
         ssl[Peer(p)].outgoing_messages[i].epoch # ssl[p].prev_read_epoch.epoch
    /\ used.expiry < MaxExpiry
    /\ ssl' = [ssl EXCEPT ![p].prev_read_epoch = NoEpoch]
    /\ used' = [used EXCEPT !.expiry = @ + 1]
    /\ UNCHANGED net

SSL_key_update(p) ==
    /\ Up(p) /\ ssl[p].hs = "done" /\ used.update[p] < MaxKeyUpdates
    /\ \E request_type \in RequestTypes :
         Update(p, tls13_add_key_update(ssl[p], request_type), {})
    /\ used' = [used EXCEPT !.update[p] = @ + 1]

\* SSL_write: dtls1_write_app_data seals one record in the current epoch and
\* hands it to the transport.  It flushes nothing else.
SSL_write(p) ==
    LET d == ssl[p]
        number == NextRecordNumber(d, d.write_epoch.epoch)
    IN  /\ Up(p) /\ d.hs = "done" /\ used.app[p] < MaxAppData
        /\ Update(p, dtls_seal_record(d, d.write_epoch.epoch),
                  {<<[epoch |-> number.epoch, num |-> number.num,
                      type |-> "app", frags |-> <<>>, acks |-> <<>>]>>})
        /\ used' = [used EXCEPT !.app[p] = @ + 1]

Step(p) == HandleMessage(p) \/ ResumeAfterFlush(p) \/ ReadRecord(p)

Next ==
    \/ StartHandshake
    \/ Lose
    \/ \E p \in Endpoints :
         \/ Step(p) \/ Flush(p) \/ Timeout(p) \/ ReadPacket(p)
         \/ ExpirePrevReadEpoch(p) \/ SSL_key_update(p) \/ SSL_write(p)

Spec == Init /\ [][Next]_vars

\* The application keeps calling SSL_do_handshake or SSL_read, and
\* DTLSv1_handle_timeout when a timer is due; the network keeps delivering
\* what it does not lose.  Each line is weak fairness of the action, with its
\* enabling condition written out.
CanStep(p) == /\ Up(p) /\ Flushed(ssl[p]) /\ ssl[p].hs # "start"
              /\ \/ AwaitsFlush(ssl[p])
                 \/ dtls1_is_current_message_complete(ssl[p])
                 \/ ssl[p].read_buffer # <<>>
CanRead(p) == /\ Reading(ssl[p]) /\ ssl[p].read_buffer = <<>>
              /\ \E q \in net : q.to = p
TimerDue(p) == /\ Up(p)
               /\ ssl[p].ack_timer \/ (ssl[p].retransmit_timer /\ IsDue(p))

Fairness ==
    /\ []<>(ssl[Client].hs # "start") \/ []<><<StartHandshake>>_vars
    /\ \A p \in Endpoints :
         /\ []<>~CanStep(p) \/ []<><<Step(p)>>_vars
         /\ []<>(Flushed(ssl[p]) \/ ~Up(p)) \/ []<><<Flush(p)>>_vars
         /\ []<>~CanRead(p) \/ []<><<ReadPacket(p)>>_vars
         /\ []<>~TimerDue(p) \/ []<><<Timeout(p)>>_vars

FairSpec == Spec /\ Fairness

-----------------------------------------------------------------------------
(* Properties.                                                             *)

\* The types of both endpoints; the bounded queues stay within their bounds.
TypeOK ==
    /\ net \subseteq [to : Endpoints, recs : Seq([epoch : Nat, num : Nat,
                        type : {"handshake", "ack", "app"},
                        frags : Seq([seq : Nat, type : STRING, msg_len : Nat,
                                     frag_off : Nat, frag_len : Nat]),
                        acks : Seq([epoch : Nat, num : Nat])])]
    /\ \A p \in Endpoints :
         LET d == ssl[p] IN
         /\ d.outgoing_written \in 0 .. Len(d.outgoing_messages)
         /\ Len(d.sent_records) <= DTLS_MAX_ACK_BUFFER
         /\ Len(d.records_to_ack) <= DTLS_MAX_ACK_BUFFER
         /\ DOMAIN d.incoming_messages = 0 .. (SSL_MAX_HANDSHAKE_FLIGHT - 1)

\* Two correct endpoints never fail, whatever the network does: no fatal
\* alert, no failed assert, no full container.  This covers the epoch check
\* on new messages, the epoch check on ACKs, the assertion that no
\* next_read_epoch is pending when keys change, the leftover-data check, the
\* ring of incoming messages and the two extra write epochs.
NoSpuriousFailure == TypeOK /\ \A p \in Endpoints : Up(p)

\* q holds byte b of p's message m, or is past the message.
HasByte(q, m, b) ==
    LET x == ssl[q].incoming_messages[m.seq % SSL_MAX_HANDSHAKE_FLIGHT] IN
    \/ ssl[q].handshake_read_seq > m.seq
    \/ x.seq = m.seq /\ b \in x.reassembly

\* A byte is marked ACKed only if the peer has it, although ACKs name
\* records, records hold several fragments, and sent_records forgets.
AckedIsReceived ==
    \A p \in Endpoints : \A i \in DOMAIN ssl[p].outgoing_messages :
        LET m == ssl[p].outgoing_messages[i] IN
        \A b \in m.acked : HasByte(Peer(p), m, b)

\* A message leaves the retransmit queue (ACKed, implicitly ACKed by the
\* next flight, or displaced by a new flight) only if the peer has all of it.
NothingForgotten ==
    [][\A p \in Endpoints : \A i \in DOMAIN ssl[p].outgoing_messages :
         LET m == ssl[p].outgoing_messages[i] IN
         \/ \E j \in DOMAIN ssl'[p].outgoing_messages :
                ssl'[p].outgoing_messages[j].seq = m.seq
         \/ \A b \in 0 .. (m.len - 1) : HasByte(Peer(p), m, b)]_vars

\* Every message that may still be retransmitted has the keys of its epoch.
RetransmitKeysKept ==
    \A p \in Endpoints : \A i \in DOMAIN ssl[p].outgoing_messages :
        LET m == ssl[p].outgoing_messages[i] IN
        IsFullyAcked(m) \/ get_write_epoch(ssl[p], m.epoch) # {}

NewestReadEpoch(d) == Max({d.read_epoch.epoch, d.next_read_epoch.epoch})

\* When an endpoint waits for a message its peer still retransmits, the
\* newest epoch it can read is the epoch of that message.
WaitsInTheRightEpoch ==
    \A p \in Endpoints : \A i \in DOMAIN ssl[p].outgoing_messages :
        LET m == ssl[p].outgoing_messages[i]
            q == ssl[Peer(p)]
        IN  (q.handshake_read_seq = m.seq /\ Reading(q)) =>
                NewestReadEpoch(q) = m.epoch

\* After the handshake the two ends of a direction are at most one key
\* update apart: the writer lags only while its KeyUpdate is pending, the
\* reader only while a complete KeyUpdate waits to be handled.
KeysInStep ==
    \A p \in Endpoints :
        LET w == ssl[p]
            r == ssl[Peer(p)]
            diff == w.write_epoch.epoch - NewestReadEpoch(r)
        IN  (w.hs = "done" /\ r.hs = "done") =>
              /\ diff \in -1 .. 1
              /\ diff = -1 => w.key_update_pending
              /\ diff = 1 => dtls1_is_current_message_complete(r)

\* The epochs of the two ends fit together: what may be sent again has its
\* keys, a reader waits in the epoch of what it waits for, and after the
\* handshake key updates keep the directions in step.
EpochsAgree == RetransmitKeysKept /\ WaitsInTheRightEpoch /\ KeysInStep

\* A complete flight is being sent or has its retransmit timer running, a
\* key update in progress has its message in the flight, and a queued one
\* has a flight to wait for: nothing that was started can stall for good.
NothingStalls ==
    \A p \in Endpoints :
        LET d == ssl[p] IN
        d.error = "none" =>
          /\ (d.outgoing_messages # <<>>) = d.outgoing_messages_complete
          /\ d.outgoing_messages_complete =>
               d.sending_flight \/ d.retransmit_timer
          /\ d.sending_flight \/ d.retransmit_timer =>
               d.outgoing_messages # <<>>
          /\ d.sending_ack \/ d.ack_timer => d.records_to_ack # <<>>
          /\ d.key_update_pending =>
               \E i \in DOMAIN d.outgoing_messages :
                  d.outgoing_messages[i].type \in {"KU", "KU requested"}
          /\ d.queued_key_update # "none" => d.outgoing_messages # <<>>

\* Application data is readable when it is sent: the peer finds the epoch of
\* the record from its two bits and has the keys, or will have them once it
\* handles the KeyUpdate it has already received in full.
AppDataReadable ==
    [][\A p \in Endpoints :
         LET r == ssl[Peer(p)]
             epoch == ssl[p].write_epoch.epoch
         IN  (used'.app[p] # used.app[p] /\ r.hs = "done") =>
               \/ MatchedEpoch(r, [epoch |-> epoch]) = epoch
               \/ dtls1_is_current_message_complete(r)]_vars

\* SSL_key_update(3): "The next call to SSL_write will cause the message to be
\* sent" (include/openssl/ssl.h:319).
WriteSendsKeyUpdate ==
    [][\A p \in Endpoints :
         used'.app[p] # used.app[p] => ~ssl'[p].sending_flight]_vars

\* SSL_key_update(3) queues a KeyUpdate "if one is not already queued"
\* (include/openssl/ssl.h:314): one that is queued, by the application or to
\* answer the peer, is not replaced by another before it is sent.
QueuedStays ==
    [][\A p \in Endpoints :
         ssl[p].queued_key_update # "none" =>
           ssl'[p].queued_key_update \in {ssl[p].queued_key_update, "none"}]_vars

\* The handshake completes although packets are lost, duplicated and
\* reordered, and then no flight stays unacknowledged and no key update
\* stays pending or queued.
Completes == <>[](\A p \in Endpoints :
                    /\ ssl[p].hs = "done"
                    /\ ssl[p].outgoing_messages = <<>>
                    /\ ~ssl[p].key_update_pending
                    /\ ssl[p].queued_key_update = "none")
=============================================================================
