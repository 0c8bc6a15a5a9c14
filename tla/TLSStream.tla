----------------------------- MODULE TLSStream ------------------------------
(***************************************************************************)
(* A TLS 1.3 connection after its handshake: SSL_write, SSL_read,          *)
(* SSL_key_update, SSL_shutdown and alerts (ssl/ssl_lib.cc, ssl/s3_pkt.cc, *)
(* ssl/tls_record.cc, ssl/ssl_buffer.cc, ssl/s3_both.cc).                  *)
(*                                                                         *)
(* s3[e] holds the fields of ssl->s3 of end e, and out, the transport that *)
(* takes what e sends: it holds at most Capacity cells and BIO_write takes *)
(* as many as there is room for.  A record is two cells, its header and    *)
(* its body, so that both writes and reads may stop inside a record.       *)
(*                                                                         *)
(* A byte is its position in the sender's stream.  The AEAD opens a record *)
(* exactly when the receiver's key and sequence number are the ones it was *)
(* sealed with.  A KeyUpdate is two units of handshake data, a             *)
(* NewSessionTicket one; max_send_fragment counts units and bytes alike.   *)
(* A call that loops takes one step per iteration.                         *)
(***************************************************************************)
EXTENDS Integers, Sequences

CONSTANTS
    Capacity,
    max_send_fragment,
    kMaxEmptyRecords, kMaxWarningAlerts, kMaxKeyUpdates,
    PartialWrite,      \* the ends with SSL_MODE_ENABLE_PARTIAL_WRITE
    Limits             \* bounds: what the two ends may do, see limit

Ends    == {"client", "server"}
Peer(e) == IF e = "client" THEN "server" ELSE "client"

ASSUME StreamAssumption ==
    /\ Capacity \in Nat \ {0} /\ max_send_fragment \in Nat \ {0}
    /\ kMaxEmptyRecords \in Nat /\ kMaxWarningAlerts \in Nat
    /\ kMaxKeyUpdates \in Nat /\ PartialWrite \subseteq Ends
    /\ Limits \subseteq [Ends -> [bytes : Nat, updates : Nat, others : Nat]]

VARIABLES
    s3,
    call,      \* the looping call each end is in
    accepted,  \* bytes SSL_write has reported as written
    got,       \* bytes SSL_read has returned
    ended,     \* SSL_read or SSL_shutdown reported SSL_ERROR_ZERO_RETURN
    open,      \* the application still holds the connection
    updates, others,  \* how often each end updated its keys and sent records
                      \* of other implementations
    limit      \* bounds: the bytes an end wants to write, and the largest
               \* values of its counters

vars == <<s3, call, accepted, got, ended, open, updates, others, limit>>

NoWrite == [type |-> "none", size |-> 0]
Idle    == [op |-> "idle"]

\* The state a handshake ends in.  A server has queued its NewSessionTicket,
\* which goes out with its first write.
Init ==
    /\ s3 = [e \in Ends |->
         [write_buffer |-> << >>, pending_flight |-> << >>,
          pending_hs_data |-> IF e = "server" THEN <<"ticket">> ELSE << >>,
          pending_write |-> NoWrite, unreported_bytes_written |-> 0,
          write_key |-> 0, write_sequence |-> 0, key_update_pending |-> FALSE,
          write_shutdown |-> "none", alert_dispatch |-> FALSE,
          send_alert |-> "none", out |-> << >>,
          read_buffer |-> << >>, hs_buf |-> << >>, pending_app_data |-> << >>,
          read_key |-> 0, read_sequence |-> 0, read_shutdown |-> "none",
          read_error |-> "none",
          key_update_count |-> 0, empty_record_count |-> 0,
          warning_alert_count |-> 0, sealed |-> 0]]
    /\ call = [e \in Ends |-> Idle]
    /\ accepted = [e \in Ends |-> 0] /\ got = [e \in Ends |-> << >>]
    /\ ended = [e \in Ends |-> FALSE] /\ open = [e \in Ends |-> TRUE]
    /\ updates = [e \in Ends |-> 0] /\ others = [e \in Ends |-> 0]
    /\ limit \in Limits

Least(a, b) == IF a <= b THEN a ELSE b

-----------------------------------------------------------------------------
(* Writing.                                                                *)

Record(s, type, body) ==
    [type |-> type, key |-> s.write_key, sequence |-> s.write_sequence,
     body |-> body]

Cells(r) == <<[part |-> "header", record |-> r], [part |-> "body", record |-> r]>>

\* tls_seal_record appends to |buffer|, which is the write buffer or the
\* pending flight; sealed counts the application bytes sealed.
tls_seal_record(s, buffer, type, body) ==
    [s EXCEPT ![buffer] = @ \o Cells(Record(s, type, body)),
              !.write_sequence = @ + 1,
              !.sealed = IF type = "application_data" THEN @ + Len(body) ELSE @]

tls_flush_pending_hs_data(s) ==
    IF s.pending_hs_data = << >> THEN s
    ELSE [tls_seal_record(s, "pending_flight", "handshake", s.pending_hs_data)
             EXCEPT !.pending_hs_data = << >>]

\* ssl_write_buffer_flush: what the transport has room for.
FlushedBy(s, k) ==
    [s EXCEPT !.out = @ \o SubSeq(s.write_buffer, 1, k),
              !.write_buffer = SubSeq(@, k + 1, Len(@))]

ssl_write_buffer_flush(s) ==
    FlushedBy(s, Least(Capacity - Len(s.out), Len(s.write_buffer)))

\* The pending flight goes before the record.
FlightCopied(s) ==
    [s EXCEPT !.write_buffer = @ \o s.pending_flight, !.pending_flight = << >>]

Result(s, ret, n) == [s |-> s, ret |-> ret, n |-> n]

\* Mutant: an unfinished write is forgotten.
TrackUnfinished_Not(s, type, in) ==
    IF s.write_buffer = << >> THEN Result(s, "ok", Len(in))
    ELSE Result(s, "want_write", 0)

\* Mutant: a write that the transport took a part of is reported.
TrackUnfinished_Early(s, type, in) == Result(s, "ok", Len(in))

TrackUnfinished(s, type, in) ==
    IF s.write_buffer = << >> THEN Result(s, "ok", Len(in))
    ELSE IF in = << >> THEN Result(s, "want_write", 0)
    ELSE Result([s EXCEPT !.pending_write = [type |-> type, size |-> Len(in)]],
                "want_write", 0)

\* What follows tls_flush_pending_hs_data.
WriteNew(s, type, in) ==
    IF in = << >> /\ s.pending_flight = << >> THEN Result(s, "ok", 0)
    ELSE TrackUnfinished(
             ssl_write_buffer_flush(
                 [(IF in = << >> THEN FlightCopied(s)
                   ELSE tls_seal_record(FlightCopied(s), "write_buffer", type, in))
                      EXCEPT !.key_update_pending = FALSE]),
             type, in)

\* What follows the flush of the earlier record.
AfterFlush(s, type, in) ==
    IF s.write_buffer # << >> THEN Result(s, "want_write", 0)
    ELSE IF s.pending_write # NoWrite
    THEN Result([s EXCEPT !.pending_write = NoWrite], "ok", s.pending_write.size)
    ELSE WriteNew(tls_flush_pending_hs_data(s), type, in)

\* Mutant: the type of the pending write is not compared.
BadWriteRetry_AnyType(s, type, in, moved) ==
    s.pending_write # NoWrite /\ (s.pending_write.size > Len(in) \/ moved)

\* Without SSL_MODE_ACCEPT_MOVING_WRITE_BUFFER, a retry uses the same buffer.
BadWriteRetry(s, type, in, moved) ==
    /\ s.pending_write # NoWrite
    /\ s.pending_write.size > Len(in) \/ moved \/ s.pending_write.type # type

do_tls_write(s, type, in, moved) ==
    IF BadWriteRetry(s, type, in, moved) THEN Result(s, "ssl", 0)
    ELSE AfterFlush(ssl_write_buffer_flush(s), type, in)

Stream(from, n) == [i \in 1 .. n |-> from + i]

\* One iteration of the loop of tls_write_app_data, in a call for num bytes of
\* which total were written, ends with result r.
WriteReturned(e, num, total, r) ==
    LET written == total + r.n
        done    == written = num \/ e \in PartialWrite
    IN  \/ /\ r.ret # "ok"
           /\ s3' = [s3 EXCEPT ![e] =
                        [r.s EXCEPT !.unreported_bytes_written = total]]
           /\ call' = [call EXCEPT ![e] = Idle]
           /\ UNCHANGED accepted
        \/ /\ r.ret = "ok" /\ ~done
           /\ s3' = [s3 EXCEPT ![e] = r.s]
           /\ call' = [call EXCEPT ![e] =
                          [op |-> "write", num |-> num, total |-> written]]
           /\ UNCHANGED accepted
        \/ /\ r.ret = "ok" /\ done
           /\ s3' = [s3 EXCEPT ![e] =
                        [r.s EXCEPT !.unreported_bytes_written = 0]]
           /\ call' = [call EXCEPT ![e] = Idle]
           /\ accepted' = [accepted EXCEPT ![e] = @ + written]

WriteIteration(e, num, total, moved) ==
    /\ WriteReturned(e, num, total,
           do_tls_write(s3[e], "application_data",
               Stream(accepted[e] + total, Least(max_send_fragment, num - total)),
               moved))
    /\ UNCHANGED <<got, ended, open, updates, others, limit>>

\* SSL_write of the next num bytes, with its first iteration; moved says that
\* the buffer is not the one of the last call.
SSL_write(e, num, moved) ==
    /\ open[e] /\ call[e] = Idle
    /\ s3[e].write_shutdown = "none" /\ num >= s3[e].unreported_bytes_written
    /\ WriteIteration(e, num, s3[e].unreported_bytes_written, moved)

\* Its later iterations.
tls_write_app_data(e) ==
    /\ call[e].op = "write"
    /\ WriteIteration(e, call[e].num, call[e].total, FALSE)

-----------------------------------------------------------------------------
(* Alerts and key updates.                                                 *)

\* tls_dispatch_alert: the alert stays pending unless it was written whole.
AlertWritten(r) ==
    IF r.ret = "ok" THEN Result([r.s EXCEPT !.alert_dispatch = FALSE], "ok", 0)
    ELSE r

tls_dispatch_alert(s) ==
    AlertWritten(do_tls_write(s, "alert", <<s.send_alert>>, FALSE))

\* ssl_send_alert_impl with write_shutdown set.
SendOrDefer(s) ==
    IF s.write_buffer = << >> THEN tls_dispatch_alert(s) ELSE Result(s, "ssl", 0)

\* Mutant: another alert may follow a closing one.
ssl_send_alert_impl_Twice(s, alert) ==
    SendOrDefer([s EXCEPT
        !.write_shutdown = IF alert = "close_notify" THEN alert ELSE "error",
        !.alert_dispatch = TRUE, !.send_alert = alert])

ssl_send_alert_impl(s, alert) ==
    IF s.write_shutdown # "none" THEN Result(s, "ssl", 0)
    ELSE SendOrDefer([s EXCEPT
        !.write_shutdown = IF alert = "close_notify" THEN alert ELSE "error",
        !.alert_dispatch = TRUE, !.send_alert = alert])

\* ssl_send_alert(SSL3_AL_FATAL, ...) ignores failures.
Fatal(s) == ssl_send_alert_impl(s, "fatal").s

\* ssl_set_read_error and the alert; reason names the error.
ReadError(s, reason) ==
    [Fatal(s) EXCEPT !.read_shutdown = "error", !.read_error = reason]

\* tls_add_message: messages share records, and may be split between two.
AddedPart(s, part) ==
    [s EXCEPT !.pending_hs_data = Append(@, part)]

FullFlushed(s) ==
    IF Len(s.pending_hs_data) >= max_send_fragment
    THEN tls_flush_pending_hs_data(s) ELSE s

tls_add_message(s, message) ==
    AddedPart(FullFlushed(AddedPart(FullFlushed(s), "update")), message)

\* tls13_rotate_traffic_key for writing: tls_set_write_state seals what is
\* queued under the old key first.
Rotated(s) ==
    [s EXCEPT !.write_key = @ + 1, !.write_sequence = 0, !.key_update_pending = TRUE]

\* Mutant: the key changes before the message is sealed.
tls13_add_key_update_Early(s, message) ==
    IF s.key_update_pending THEN s
    ELSE tls_flush_pending_hs_data(tls_add_message(Rotated(s), message))

tls13_add_key_update(s, message) ==
    IF s.key_update_pending THEN s
    ELSE Rotated(tls_flush_pending_hs_data(tls_add_message(s, message)))

SSL_key_update(e, message) ==
    /\ open[e] /\ call[e] = Idle /\ updates[e] < limit[e].updates
    /\ ~s3[e].key_update_pending
    /\ s3' = [s3 EXCEPT ![e] = tls13_add_key_update(@, message)]
    /\ updates' = [updates EXCEPT ![e] = @ + 1]
    /\ UNCHANGED <<call, accepted, got, ended, open, others, limit>>

\* An alert already on its way may only be sent again.
SSL_send_fatal_alert(e) ==
    /\ open[e] /\ call[e] = Idle
    /\ s3[e].alert_dispatch => s3[e].send_alert = "fatal"
    /\ s3' = [s3 EXCEPT ![e] = IF @.alert_dispatch THEN tls_dispatch_alert(@).s
                               ELSE ssl_send_alert_impl(@, "fatal").s]
    /\ UNCHANGED <<call, accepted, got, ended, open, updates, others, limit>>

-----------------------------------------------------------------------------
(* Reading.                                                                *)

\* tls_get_message: the buffered data begins with a whole message.
HasMessage(s) ==
    \/ Len(s.hs_buf) >= 1 /\ s.hs_buf[1] = "ticket"
    \/ Len(s.hs_buf) >= 2

\* tls_next_message.
NextMessage(s, len) == [s EXCEPT !.hs_buf = SubSeq(@, len + 1, Len(@))]

tls13_receive_key_update(s, message) ==
    IF message = "update_requested"
    THEN tls13_add_key_update([s EXCEPT !.read_key = @ + 1, !.read_sequence = 0],
                              "update_not_requested")
    ELSE [s EXCEPT !.read_key = @ + 1, !.read_sequence = 0]

\* tls_set_read_state refuses to change keys in front of more handshake data.
KeyUpdateReceived(s) ==
    IF s.key_update_count > kMaxKeyUpdates THEN ReadError(s, "updates")
    ELSE IF Len(s.hs_buf) > 2 THEN ReadError(s, "excess")
    ELSE NextMessage(tls13_receive_key_update(s, s.hs_buf[2]), 2)

tls13_post_handshake(e, s) ==
    IF s.hs_buf[1] # "ticket"
    THEN KeyUpdateReceived([s EXCEPT !.key_update_count = @ + 1])
    ELSE IF e = "client" THEN NextMessage(s, 1) ELSE ReadError(s, "ticket")

\* ssl_process_alert.
ssl_process_alert(s, alert) ==
    IF alert = "close_notify" THEN [s EXCEPT !.read_shutdown = "close_notify"]
    ELSE IF alert = "fatal"
    THEN [s EXCEPT !.read_shutdown = "error", !.read_error = "alert"]
    ELSE IF s.warning_alert_count >= kMaxWarningAlerts
    THEN ReadError(s, "warnings")
    ELSE [s EXCEPT !.warning_alert_count = @ + 1]

\* tls_open_app_data for a record that tls_open_record returns.
tls_open_app_data(s, r) ==
    IF r.type # "handshake" /\ s.hs_buf # << >>
    THEN ReadError(s, "interleaved")
    ELSE IF r.type = "handshake"
    THEN [s EXCEPT !.hs_buf = @ \o r.body, !.warning_alert_count = 0]
    ELSE [s EXCEPT !.pending_app_data = r.body, !.warning_alert_count = 0,
                   !.key_update_count = IF r.body = << >> THEN @ ELSE 0]

CountedEmpty(s, r) ==
    [s EXCEPT !.empty_record_count = IF r.body = << >> THEN @ + 1 ELSE 0]

Opened(s, r) ==
    IF s.empty_record_count > kMaxEmptyRecords THEN ReadError(s, "empty")
    ELSE IF r.type = "alert" THEN ssl_process_alert(s, r.body[1])
    ELSE tls_open_app_data(s, r)

\* tls_open_record of a whole record, with the rest of ssl_handle_open_record.
tls_open_record(s, r) ==
    IF r.key # s.read_key \/ r.sequence # s.read_sequence
    THEN ReadError([s EXCEPT !.read_buffer = << >>], "mac")
    ELSE Opened(CountedEmpty([s EXCEPT !.read_buffer = << >>,
                                       !.read_sequence = @ + 1], r), r)

\* tls_read_buffer_extend_to: the cells of the record that have arrived.
Extended(e, k) ==
    [s3 EXCEPT ![e].read_buffer = @ \o SubSeq(s3[Peer(e)].out, 1, k),
               ![Peer(e)].out = SubSeq(@, k + 1, Len(@))]

Arrived(e) == Least(2 - Len(s3[e].read_buffer), Len(s3[Peer(e)].out))

Return(e)         == call' = [call EXCEPT ![e] = Idle]
Continue(e, op)   == call' = [call EXCEPT ![e] = [op |-> op]]
ReturnOrNot(e, op, s) ==
    IF s.read_shutdown = "error" THEN Return(e) ELSE Continue(e, op)

\* Mutant: what the caller has no room for is dropped.
ReadData_Dropped(e, op) ==
    /\ s3[e].pending_app_data # << >> /\ Return(e)
    /\ \/ /\ op = "read"
          /\ \E n \in 1 .. Len(s3[e].pending_app_data) :
                got' = [got EXCEPT ![e] =
                           @ \o SubSeq(s3[e].pending_app_data, 1, n)]
          /\ s3' = [s3 EXCEPT ![e].pending_app_data = << >>]
       \/ op = "shutdown" /\ UNCHANGED <<s3, got>>
    /\ UNCHANGED ended

\* ssl_read_impl succeeds.  SSL_read takes some of the bytes; SSL_shutdown
\* leaves them and fails with SSL_R_APPLICATION_DATA_ON_SHUTDOWN.
ReadData(e, op) ==
    /\ s3[e].pending_app_data # << >> /\ Return(e)
    /\ \/ /\ op = "read"
          /\ \E n \in 1 .. Len(s3[e].pending_app_data) :
                /\ got' = [got EXCEPT ![e] =
                              @ \o SubSeq(s3[e].pending_app_data, 1, n)]
                /\ s3' = [s3 EXCEPT ![e].pending_app_data =
                              SubSeq(@, n + 1, Len(@))]
       \/ op = "shutdown" /\ UNCHANGED <<s3, got>>
    /\ UNCHANGED ended

\* A post-handshake message; on failure the call returns -1.
ReadMessage(e, op) ==
    LET s == tls13_post_handshake(e, s3[e])
    IN  /\ s3[e].pending_app_data = << >> /\ HasMessage(s3[e])
        /\ s3' = [s3 EXCEPT ![e] = s] /\ ReturnOrNot(e, op, s)
        /\ UNCHANGED <<got, ended>>

\* The peer's close_notify was received: rwstate is SSL_ERROR_ZERO_RETURN.
ReadEnd(e) ==
    /\ s3[e].pending_app_data = << >> /\ ~HasMessage(s3[e])
    /\ s3[e].read_shutdown = "close_notify"
    /\ Return(e) /\ ended' = [ended EXCEPT ![e] = TRUE]
    /\ UNCHANGED <<s3, got>>

\* The record is not complete: SSL_ERROR_WANT_READ, or SSL_ERROR_SYSCALL when
\* the transport has ended.
ReadPartial(e) ==
    /\ s3[e].pending_app_data = << >> /\ ~HasMessage(s3[e])
    /\ s3[e].read_shutdown = "none"
    /\ Len(s3[e].read_buffer) + Arrived(e) < 2
    /\ s3' = Extended(e, Arrived(e)) /\ Return(e)
    /\ UNCHANGED <<got, ended>>

ReadRecord(e, op) ==
    /\ s3[e].pending_app_data = << >> /\ ~HasMessage(s3[e])
    /\ s3[e].read_shutdown = "none"
    /\ Len(s3[e].read_buffer) + Arrived(e) = 2
    /\ LET t == Extended(e, Arrived(e))
           s == tls_open_record(t[e], t[e].read_buffer[1].record)
       IN  s3' = [t EXCEPT ![e] = s] /\ ReturnOrNot(e, op, s)
    /\ UNCHANGED <<got, ended>>

\* One iteration of the loop of ssl_read_impl.
ssl_read_impl(e, op) ==
    /\ \/ ReadData(e, op) \/ ReadMessage(e, op) \/ ReadEnd(e)
       \/ ReadPartial(e) \/ ReadRecord(e, op)
    /\ UNCHANGED <<accepted, open, updates, others, limit>>

SSL_read(e) ==
    /\ open[e] /\ call[e] = Idle
    /\ s3[e].read_shutdown # "error" \* check_read_error
    /\ ssl_read_impl(e, "read")

\* The later iterations of SSL_read, or of SSL_shutdown.
KeepReading(e) ==
    call[e].op \in {"read", "shutdown"} /\ ssl_read_impl(e, call[e].op)

-----------------------------------------------------------------------------
(* Shutdown.                                                               *)

\* The first stage: send a close_notify, or finish sending it.
ShutdownSend(e) ==
    /\ open[e] /\ call[e] = Idle
    /\ \/ /\ s3[e].write_shutdown # "close_notify"
          /\ s3' = [s3 EXCEPT ![e] = ssl_send_alert_impl(@, "close_notify").s]
       \/ /\ s3[e].write_shutdown = "close_notify" /\ s3[e].alert_dispatch
          /\ s3' = [s3 EXCEPT ![e] = tls_dispatch_alert(@).s]
    /\ UNCHANGED <<call, accepted, got, ended, open, updates, others, limit>>

\* The second stage: wait for the peer's.
ShutdownWait(e) ==
    /\ open[e] /\ call[e] = Idle
    /\ s3[e].write_shutdown = "close_notify" /\ ~s3[e].alert_dispatch
    /\ s3[e].read_shutdown = "none"
    /\ ssl_read_impl(e, "shutdown")

SSL_shutdown(e) == ShutdownSend(e) \/ ShutdownWait(e)

\* The application gives up the connection and its transport.
SSL_free(e) ==
    /\ open[e] /\ call[e] = Idle
    /\ open' = [open EXCEPT ![e] = FALSE]
    /\ UNCHANGED <<s3, call, accepted, got, ended, updates, others, limit>>

\* Records that other implementations send and this one skips: an empty
\* application data record, or the warning user_canceled.
OtherRecord(e) ==
    /\ open[e] /\ call[e] = Idle /\ others[e] < limit[e].others
    /\ s3[e].write_shutdown = "none" /\ s3[e].write_buffer = << >>
    /\ s3[e].pending_flight = << >> /\ Len(s3[e].out) + 2 <= Capacity
    /\ \E body \in {<< >>, <<"user_canceled">>} :
         s3' = [s3 EXCEPT ![e] = tls_seal_record(@, "out",
                    IF body = << >> THEN "application_data" ELSE "alert", body)]
    /\ others' = [others EXCEPT ![e] = @ + 1]
    /\ UNCHANGED <<call, accepted, got, ended, open, updates, limit>>

-----------------------------------------------------------------------------
Updates == {"update_requested", "update_not_requested"}

Next ==
    \E e \in Ends :
        \/ \E num \in 0 .. (limit[e].bytes - accepted[e]), moved \in BOOLEAN :
              SSL_write(e, num, moved)
        \/ tls_write_app_data(e) \/ SSL_read(e) \/ KeepReading(e)
        \/ \E message \in Updates : SSL_key_update(e, message)
        \/ SSL_send_fatal_alert(e) \/ SSL_shutdown(e) \/ SSL_free(e)
        \/ OtherRecord(e)

Spec == Init /\ [][Next]_vars

\* A call in progress goes on; the applications keep reading, and repeat
\* SSL_shutdown until its close_notify is sent.
Fairness ==
    \A e \in Ends :
        /\ WF_vars(tls_write_app_data(e)) /\ WF_vars(KeepReading(e))
        /\ WF_vars(SSL_read(e))
        /\ WF_vars(s3[e].write_shutdown = "close_notify" /\ ShutdownSend(e))

FairSpec == Spec /\ Fairness

-----------------------------------------------------------------------------
Types == {"application_data", "handshake", "alert"}

Sent(e)   == s3[e].out \o s3[e].write_buffer
Queued(e) == Sent(e) \o s3[e].pending_flight

\* The types; the transport, the buffers and the records stay within their
\* bounds.
TypeOK ==
    \A e \in Ends :
        /\ Len(s3[e].out) <= Capacity /\ Len(s3[e].read_buffer) <= 1
        /\ s3[e].pending_write.type \in Types \cup {"none"}
        /\ s3[e].write_shutdown \in {"none", "close_notify", "error"}
        /\ s3[e].read_shutdown \in {"none", "close_notify", "error"}
        /\ s3[e].unreported_bytes_written \in 0 .. limit[e].bytes
        /\ \A i \in DOMAIN Queued(e) :
              Len(Queued(e)[i].record.body) <= max_send_fragment
        /\ call[e].op \in {"idle", "read", "shutdown", "write"}

Unfinished(e) ==
    IF s3[e].pending_write.type = "application_data"
    THEN s3[e].pending_write.size ELSE 0

InProgress(e) ==
    IF call[e].op = "write" THEN call[e].total
    ELSE s3[e].unreported_bytes_written

\* Every byte sealed was reported to the application, will be by the call in
\* progress or by the next one, or is the record of the pending write: however
\* often a write is repeated, with more bytes or with fewer, none is sealed
\* twice and none is reported that was not sealed.
WritesAccounted ==
    \A e \in Ends :
        s3[e].sealed = accepted[e] + InProgress(e) + Unfinished(e)

\* Each end can open whatever the other one sends: records arrive under the
\* key they were sealed with, keys change between messages, and no record
\* comes between two halves of a message.  An end gives up on its peer only
\* after a fatal alert, or after more empty records, warnings or key updates
\* than it puts up with.
FailureJustified ==
    \A e \in Ends :
        LET p == Peer(e)
            r == s3[e].read_error
        IN  /\ r \notin {"mac", "excess", "interleaved", "ticket"}
            /\ r = "alert" => s3[p].write_shutdown = "error"
            /\ r = "empty" => others[p] > kMaxEmptyRecords
            /\ r = "warnings" => others[p] > kMaxWarningAlerts
            /\ r = "updates" => updates[p] + updates[e] > kMaxKeyUpdates

Closing(c) == c.record.type = "alert" /\ c.record.body # <<"user_canceled">>

\* A close_notify or a fatal alert is the last record an end sends, and it is
\* sent once, whatever is still queued and whatever is called afterwards.
AlertIsLast ==
    \A e \in Ends :
        /\ \A i, j \in DOMAIN Sent(e) :
              Closing(Sent(e)[i]) /\ i < j => Sent(e)[j].record = Sent(e)[i].record
        /\ s3[Peer(e)].read_shutdown = "close_notify" => Sent(e) = << >>

Promise == INSTANCE SecureStream WITH
    written  <- [e \in Ends |-> s3[e].sealed],
    shut     <- [e \in Ends |-> s3[e].write_shutdown # "none"],
    reported <- ended

\* Records, key updates, partial writes, retries, tickets, alerts and shutdown
\* together implement a stream in each direction; an end hears of the end of
\* its peer's stream only after it has read all of it.
StreamPromise == Promise!Spec

Alive(e) == open[e] /\ s3[e].read_shutdown # "error"

\* What SSL_write reported as written is read in the end, as long as the peer
\* stays and does not fail.
WrittenIsRead ==
    \A e \in Ends :
        Len(got[Peer(e)]) < accepted[e]
            ~> (Len(got[Peer(e)]) >= accepted[e] \/ ~Alive(Peer(e)))

\* An end that closes: its close_notify is on its way or still to be sent.
Closes(e) == s3[e].write_shutdown = "close_notify"

\* A close_notify reaches the peer, however often SSL_shutdown has to be
\* repeated for it: also one that the transport took half of, and one that
\* waits for tickets or key updates to be flushed.  Only one that comes behind
\* an SSL_write that was not finished is left to AlertDispatched.
CloseIsHeard ==
    \A e \in Ends :
        (Closes(e) /\ s3[e].pending_write.type # "application_data")
            ~> (ended[Peer(e)] \/ ~Alive(Peer(e)) \/ ~open[e])

\* ssl_send_alert_impl, of an alert that finds the write buffer in use: "The
\* alert will be dispatched later" (ssl/s3_pkt.cc:354).  A close_notify that was
\* deferred is sent in the end, when SSL_shutdown is repeated and the peer
\* keeps reading.
AlertDispatched ==
    \A e \in Ends :
        (Closes(e) /\ s3[e].alert_dispatch)
            ~> (~s3[e].alert_dispatch \/ ~Alive(Peer(e)) \/ ~open[e])
=============================================================================
