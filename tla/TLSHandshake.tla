---------------------------- MODULE TLSHandshake ----------------------------
(***************************************************************************)
(* The TLS handshake of a client and a server of this library over a       *)
(* reliable transport, from SSL_new to the first application data.         *)
(*                                                                         *)
(* ssl_run_handshake (ssl/handshake.cc) alternates between resolving what  *)
(* the state machine waits for and running it; each of the two is a step   *)
(* here, so the ends interleave between any two states.  The application   *)
(* of each end keeps calling: SSL_do_handshake whenever it can make        *)
(* progress, SSL_write and SSL_read whenever the connection allows them,   *)
(* early data, False Start and half-RTT data included.  A callback         *)
(* (verification, private key, session and ticket lookup, certificate      *)
(* selection) may ask to be called again.                                  *)
(***************************************************************************)
EXTENDS TLS12Handshake, TLS13Handshake

CONSTANTS
    WriteSizes,  \* lengths of the application's SSL_write calls
    MaxBytes     \* bytes each application writes, per life of the connection

ASSUME WriteAssumption == WriteSizes \subseteq Nat \ {0} /\ MaxBytes \in Nat

(***************************************************************************)
(* What SSL_CTX, SSL and the session of the last connection determine      *)
(***************************************************************************)
Config ==
    [cmax : {12, 13}, smax : {12, 13},          \* max_version of the ends
     session : {"none", "id", "ticket", "psk"}, \* what the client can offer
     resumes : BOOLEAN,     \* the server still knows the session
     early : BOOLEAN,       \* the client offers early data
     server_early : BOOLEAN,  \* and the server would accept it
     share : BOOLEAN,       \* the first hello has a usable key share
     reverify : BOOLEAN,    \* reverify_on_resume
     alps : BOOLEAN, channel_id : BOOLEAN, npn : BOOLEAN, ocsp : BOOLEAN,
     verify : {"none", "request", "require"},   \* the server's verify_mode
     if_no_obc : BOOLEAN,   \* SSL_VERIFY_PEER_IF_NO_OBC
     credential : BOOLEAN,  \* the client has a certificate
     invalid : SUBSET Ends, \* whose certificate is rejected
     num_tickets : 0..2,    \* tickets a TLS 1.3 server sends
     kx : {"ecdhe", "rsa", "psk", "ecdhe_psk"}, \* of a TLS 1.2 cipher
     psk_hint : BOOLEAN, tickets : BOOLEAN, renew : BOOLEAN,
     empty_ticket : BOOLEAN, session_has_hashes : BOOLEAN,
     false_start : BOOLEAN,
     capacity : Nat \ {0}]  \* cells the transport holds in each direction

-----------------------------------------------------------------------------
(***************************************************************************)
(* The states before the version is known, and the last one                *)
(***************************************************************************)
do_start_connect(h) ==
    Wait(ssl_add_client_hello([h EXCEPT !.session = config.session,
                                        !.early_offered = config.early]),
         "enter_early_data", "flush")

do_enter_early_data(h) ==
    IF h.early_offered
    THEN Goto([h EXCEPT !.version = 13, !.early_version = TRUE],
              "early_reverify_server_certificate")
    ELSE Goto(h, "read_server_hello")

(* An alert here would be in the clear: none is sent. *)
do_early_reverify_server_certificate(h, r) ==
    CASE config.reverify /\ r = "retry" -> Retried(h, "certificate_verify")
      [] config.reverify /\ "server" \in config.invalid
           -> Failed(h, "CERTIFICATE_VERIFY_FAILED")
      [] OTHER
           -> Wait([tls_set_write_state(tls_add_change_cipher_spec(h),
                                        EarlyKey(h))
                    EXCEPT !.in_early_data = TRUE, !.can_early_write = TRUE],
                   "read_server_hello", "early_return")

do_read_server_hello(h) ==
    IF ~get_message(h) THEN [h EXCEPT !.wait = "read_server_hello"]
    ELSE LET g == [h EXCEPT !.has_message = TRUE,
                            !.version = IF "tls13" \in msg(h).ext THEN 13
                                        ELSE 12,
                            !.early_version = FALSE]
         IN  CASE msg(g).type # "server_hello"
                    -> FailedWithAlert(h, "UNEXPECTED_MESSAGE")
               [] g.version > config.cmax
                    -> FailedWithAlert(g, "UNSUPPORTED_PROTOCOL")
               [] g.early_offered /\ g.version # 13
                    -> FailedWithAlert([g EXCEPT !.can_early_write = FALSE],
                                       "WRONG_VERSION_ON_EARLY_DATA")
               [] g.version = 13 -> Goto(g, "read_hello_retry_request")
               [] OTHER -> ReadServerHello12(g)

do_start_accept(h) == Goto(h, "read_client_hello")

do_read_client_hello(h) ==
    Expecting(h, "client_hello", LAMBDA g :
        EndOfFlight(g, Goto(g, "read_client_hello_after_ech")))

negotiate_version(h) ==
    IF "tls13" \in msg(h).ext /\ config.smax = 13 THEN 13 ELSE 12

do_read_client_hello_after_ech(h, r) ==
    IF r = "retry" THEN Retried(h, "certificate_selection_pending")
    ELSE Goto([h EXCEPT !.version = negotiate_version(h),
                        !.channel_id = config.channel_id], "cert_callback")

do_cert_callback(h, r) ==
    IF r = "retry" THEN Retried(h, "x509_lookup")
    ELSE Goto(h, IF h.version = 13 THEN "select_parameters_13"
                 ELSE "select_parameters")

do_finish_handshake(h) == [Goto(h, "done") EXCEPT !.done = TRUE]

ClientStates ==
    {"start_connect", "enter_early_data", "early_reverify_server_certificate",
     "read_server_hello", "finish_client_handshake"}

ssl_client_handshake(h, r) ==
    CASE h.state = "start_connect" -> do_start_connect(h)
      [] h.state = "enter_early_data" -> do_enter_early_data(h)
      [] h.state = "early_reverify_server_certificate"
           -> do_early_reverify_server_certificate(h, r)
      [] h.state = "read_server_hello" -> do_read_server_hello(h)
      [] h.state = "finish_client_handshake" -> do_finish_handshake(h)
      [] h.state \in ClientStates12 -> ssl_client_handshake_12(h, r)
      [] h.state \in ClientStates13 -> tls13_client_handshake(h, r)

ServerStates ==
    {"start_accept", "read_client_hello", "read_client_hello_after_ech",
     "cert_callback", "finish_server_handshake"}

ssl_server_handshake(h, r) ==
    CASE h.state = "start_accept" -> do_start_accept(h)
      [] h.state = "read_client_hello" -> do_read_client_hello(h)
      [] h.state = "read_client_hello_after_ech"
           -> do_read_client_hello_after_ech(h, r)
      [] h.state = "cert_callback" -> do_cert_callback(h, r)
      [] h.state = "finish_server_handshake" -> do_finish_handshake(h)
      [] h.state \in ServerStates12 -> ssl_server_handshake_12(h, r)
      [] h.state \in ServerStates13 -> tls13_server_handshake(h, r)

RetryStates ==
    RetryStates12 \cup RetryStates13
    \cup {"early_reverify_server_certificate", "read_client_hello_after_ech",
          "cert_callback"}

-----------------------------------------------------------------------------
(***************************************************************************)
(* SSL_new, and the two ends of the transport                              *)
(***************************************************************************)
SSL_new(e) ==
    [state |-> IF e = "client" THEN "start_connect" ELSE "start_accept",
     wait |-> "ok", error |-> "none", done |-> FALSE,
     version |-> 0, early_version |-> FALSE,
     session |-> "none", reused |-> FALSE, retries |-> 0,
     transcript |-> <<>>, buffer |-> TRUE, master |-> <<>>,
     hs_hash |-> <<>>, ap_hash |-> <<>>, resumption |-> <<>>,
     expected_finished |-> <<>>, tickets |-> {},
     key_w |-> NullKey, key_r |-> NullKey, seq_w |-> 0, seq_r |-> 0,
     pending |-> <<>>, flight |-> <<>>, wbuf |-> <<>>,
     pending_write |-> <<>>, unreported |-> 0,
     header |-> FALSE, hs_buf |-> <<>>, has_message |-> FALSE,
     skip_early |-> FALSE, early_skipped |-> 0,
     early_offered |-> FALSE, in_early_data |-> FALSE, accepted |-> FALSE,
     can_early_write |-> FALSE, can_early_read |-> FALSE,
     early_written |-> 0, early_read |-> 0, in_false_start |-> FALSE,
     used_hrr |-> FALSE, cert_request |-> FALSE, credential |-> FALSE,
     peer_cert |-> FALSE, ticket_expected |-> FALSE, channel_id |-> FALSE,
     alps |-> FALSE]

Init ==
    /\ config \in Configs
    /\ s = [e \in Ends |-> SSL_new(e)]
    /\ wire = [e \in Ends |-> <<>>]
    /\ app = [e \in Ends |-> [life |-> 0, next |-> 1, buf |-> <<>>,
                              got |-> <<>>, failed |-> FALSE]]

(* An alert that was put in the write buffer goes out as far as it can. *)
Drained(e, h) ==
    IF h.wbuf = s[e].wbuf THEN h ELSE [h EXCEPT !.wbuf = Rest(@, wire[e])]

Written(e, h) ==
    IF h.wbuf = s[e].wbuf THEN wire[e] ELSE Sent(h.wbuf, wire[e])

Stepped(e, h) ==
    /\ s' = [s EXCEPT ![e] = Drained(e, h)]
    /\ wire' = [wire EXCEPT ![e] = Written(e, h)]

(***************************************************************************)
(* tls_read_buffer_extend_to: the cells of the next record that have       *)
(* arrived go into the read buffer; header says that it holds the first.   *)
(***************************************************************************)
Missing(e) == IF s[e].header THEN 1 ELSE 2
HasRecord(e) == Len(wire[Peer(e)]) >= Missing(e)
NextRecord(e) == wire[Peer(e)][Missing(e)]

(* The record is not complete: the call returns SSL_ERROR_WANT_READ. *)
ReadPartial(e) ==
    /\ ~HasRecord(e) /\ wire[Peer(e)] # <<>>
    /\ s' = [s EXCEPT ![e].header = TRUE]
    /\ wire' = [wire EXCEPT ![Peer(e)] = <<>>]
    /\ UNCHANGED app

(* As Stepped, after taking a record from the peer *)
SteppedReading(e, h) ==
    /\ s' = [s EXCEPT ![e] = [Drained(e, h) EXCEPT !.header = FALSE]]
    /\ wire' = [wire EXCEPT ![Peer(e)] = SubSeq(@, Missing(e) + 1, Len(@)),
                            ![e] = Written(e, h)]

-----------------------------------------------------------------------------
(***************************************************************************)
(* ssl_run_handshake                                                       *)
(***************************************************************************)
RunStateMachine(e) ==
    /\ s[e].wait = "ok"
    /\ ~s[e].done
    /\ \E r \in {"ok", "retry"} :
         /\ r = "retry" => s[e].state \in RetryStates /\ s[e].retries < kMaxRetries
         /\ Stepped(e, IF e = "client" THEN ssl_client_handshake(s[e], r)
                       ELSE ssl_server_handshake(s[e], r))
    /\ UNCHANGED <<config, app>>

(* tls_flush: the write buffer, then the flight, as far as the transport   *)
(* takes them; what is left of the flight is what pending_flight_offset    *)
(* marks.  Without a flight the code returns at once, but a state that     *)
(* asks for a flush queued one.                                            *)
Flushed(h, w) ==
    LET sent == Taken(h.wbuf \o h.flight, w)
        sent_wbuf == IF sent <= Len(h.wbuf) THEN sent ELSE Len(h.wbuf)
    IN  [h EXCEPT !.wbuf = SubSeq(@, sent_wbuf + 1, Len(@)),
                  !.flight = SubSeq(@, sent - sent_wbuf + 1, Len(@)),
                  !.wait = IF sent = Len(h.wbuf) + Len(h.flight) THEN "ok"
                           ELSE @]

tls_flush(e) ==
    LET h == tls_flush_pending_hs_data(s[e])
    IN  /\ s[e].wait = "flush"
        /\ h.flight # <<>> /\ Room(wire[e]) > 0
        /\ s' = [s EXCEPT ![e] = Flushed(h, wire[e])]
        /\ wire' = [wire EXCEPT ![e] = Sent(h.wbuf \o h.flight, @)]
        /\ UNCHANGED <<config, app>>

(* ssl_open_handshake and ssl_open_change_cipher_spec, on one record *)
OpenHandshake(h, r, wanted) ==
    LET result == tls_open_record(h, r)
        got == Received(h)
    IN  CASE result = "discard" -> h
          [] result = "skip" -> skip_early_data(h, r)
          [] result = "too_much_skipped"
               -> FailedWithAlert(h, "TOO_MUCH_SKIPPED_EARLY_DATA")
          [] result = "error" -> FailedWithAlert(h, "BAD_RECORD")
          [] result = "alert" -> Failed(got, "ALERT")
          [] r.type # wanted -> FailedWithAlert(got, "UNEXPECTED_RECORD")
          [] OTHER -> [got EXCEPT !.hs_buf = @ \o r.body, !.wait = "ok"]

OpenRecord(e) ==
    /\ s[e].wait \in {"read_server_hello", "read_message",
                      "read_change_cipher_spec"}
    /\ \/ ReadPartial(e)
       \/ /\ HasRecord(e)
          /\ SteppedReading(e, OpenHandshake(s[e], NextRecord(e),
                                   IF s[e].wait = "read_change_cipher_spec"
                                   THEN "ccs" ELSE "handshake"))
          /\ UNCHANGED app
    /\ UNCHANGED config

(* What is left set until the next call, or cleared at once *)
ResolveWait(e) ==
    /\ \/ s[e].wait \in {"x509_lookup", "private_key_operation",
                         "pending_session", "pending_ticket",
                         "certificate_verify", "certificate_selection_pending",
                         "early_return"}
       \/ s[e].wait = "read_end_of_early_data" /\ ~s[e].can_early_read
    /\ s' = [s EXCEPT ![e].wait = "ok"]
    /\ UNCHANGED <<config, wire, app>>

(* Mutant: the pending write survives. *)
SSL_reset_early_data_reject_Keep(e) ==
    /\ s[e].wait = "early_data_rejected"
    /\ s' = [s EXCEPT ![e].wait = "ok", ![e].in_early_data = FALSE]
    /\ app' = [app EXCEPT ![e].life = @ + 1, ![e].next = 1, ![e].buf = <<>>]
    /\ UNCHANGED <<config, wire>>

(* The application rewinds to the start of what it has to say. *)
SSL_reset_early_data_reject(e) ==
    /\ s[e].wait = "early_data_rejected"
    /\ s' = [s EXCEPT ![e].wait = "ok", ![e].in_early_data = FALSE,
                      ![e].pending_write = <<>>]
    /\ app' = [app EXCEPT ![e].life = @ + 1, ![e].next = 1, ![e].buf = <<>>]
    /\ UNCHANGED <<config, wire>>

-----------------------------------------------------------------------------
(***************************************************************************)
(* SSL_write.  A call is a record: the end's state, the transport, what is *)
(* left of the argument, the bytes written so far and what came of it.     *)
(***************************************************************************)
ssl_write_buffer_flush(c) ==
    [c EXCEPT !.h.wbuf = Rest(@, c.w), !.w = Sent(c.h.wbuf, @)]

(* A write that was pending is complete: report it. *)
PendingDone(c) ==
    [c EXCEPT !.h.pending_write = <<>>, !.total = @ + Len(c.h.pending_write),
              !.rest = SubSeq(@, Len(c.h.pending_write) + 1, Len(@)),
              !.last = Len(c.h.pending_write)]

(* The new record was flushed, or stays pending. *)
NewDone(c, n) ==
    IF c.h.wbuf = <<>>
    THEN [c EXCEPT !.total = @ + n, !.rest = SubSeq(@, n + 1, Len(@)),
                   !.last = n]
    ELSE [c EXCEPT !.h.pending_write = SubSeq(c.rest, 1, n),
                   !.ret = "blocked"]

(* The flight goes into the write buffer before the new record. *)
WithRecord(c, n) ==
    LET q == add_record_to_flight(tls_flush_pending_hs_data(c.h),
                                  "application_data", SubSeq(c.rest, 1, n))
    IN  [c EXCEPT !.h = [q EXCEPT !.wbuf = q.flight, !.flight = <<>>]]

do_tls_write(c, n) ==
    LET flushed == ssl_write_buffer_flush(c)
    IN  CASE Len(c.h.pending_write) > n -> [c EXCEPT !.ret = "error"]
          [] flushed.h.wbuf # <<>> -> [flushed EXCEPT !.ret = "blocked"]
          [] c.h.pending_write # <<>> -> PendingDone(flushed)
          [] OTHER -> NewDone(ssl_write_buffer_flush(WithRecord(flushed, n)), n)

is_early_data_write(e, h) ==
    e = "client" /\ h.in_early_data /\ h.can_early_write

(* One turn of the loop of tls_write_app_data *)
WriteTurn(e, c) ==
    LET early == is_early_data_write(e, c.h)
        left == MaxEarlyData - c.h.early_written
        n == IF early /\ left < Len(c.rest) THEN left ELSE Len(c.rest)
        written == do_tls_write([c EXCEPT !.last = 0], n)
        counted == IF early
                   THEN [written EXCEPT !.h.early_written = @ + written.last]
                   ELSE written
    IN  CASE c.ret # "more" -> c
          [] early /\ left = 0
               -> [c EXCEPT !.h.unreported = c.total,
                            !.h.can_early_write = FALSE,
                            !.ret = "needs_handshake"]
          [] counted.ret # "more" -> [counted EXCEPT !.h.unreported = c.total]
          [] counted.rest = <<>> -> [counted EXCEPT !.h.unreported = 0,
                                                    !.ret = "written"]
          [] OTHER -> counted

tls_write_app_data(e, in) ==
    LET skipped == s[e].unreported
        start == [h |-> s[e], w |-> wire[e], total |-> skipped, last |-> 0,
                  rest |-> SubSeq(in, skipped + 1, Len(in)), ret |-> "more"]
    IN  IF Len(in) < skipped THEN [start EXCEPT !.ret = "error"]
        ELSE FoldLeft(LAMBDA c, i : WriteTurn(e, c), start,
                      [i \in 1..(Len(in) + 1) |-> i])

(* A byte is what its application numbers it, in its current life. *)
NewArgument(e, n) == [i \in 1..n |-> <<app[e].life, app[e].next + i - 1>>]

ssl_can_write(h) == h.done \/ h.can_early_write

WriteReturned(e, in, c) ==
    /\ s' = [s EXCEPT ![e] = c.h]
    /\ wire' = [wire EXCEPT ![e] = c.w]
    /\ app' = [app EXCEPT
                 ![e].buf = IF c.ret = "written" THEN <<>> ELSE in,
                 ![e].next = IF c.ret = "written" THEN @ + Len(in) ELSE @,
                 ![e].failed = c.ret = "error"]
    /\ UNCHANGED config

(* A blocked call is made again with the same argument. *)
SSL_write(e) ==
    /\ ssl_can_write(s[e])
    /\ s[e].wait # "error" \/ s[e].error = "ALERT"
    /\ ~app[e].failed
    /\ IF app[e].buf # <<>>
       THEN WriteReturned(e, app[e].buf, tls_write_app_data(e, app[e].buf))
       ELSE \E n \in WriteSizes :
              /\ app[e].next + n - 1 <= MaxBytes
              /\ LET in == NewArgument(e, n)
                 IN  WriteReturned(e, in, tls_write_app_data(e, in))

-----------------------------------------------------------------------------
(***************************************************************************)
(* SSL_read: a turn of the loop of ssl_read_impl                           *)
(***************************************************************************)
ssl_can_read(h) == h.done \/ h.can_early_read

(* EndOfEarlyData stops the early read; a ticket is the only other one. *)
ReadMessage(h) ==
    CASE ~h.done -> [h EXCEPT !.can_early_read = FALSE, !.has_message = TRUE]
      [] msg(h).type = "new_session_ticket" /\ h.version = 13
           -> [tls_next_message(h) EXCEPT !.tickets = @ \cup {msg(h).mac}]
      [] OTHER -> FailedWithAlert(h, "UNEXPECTED_MESSAGE")

(* ssl_open_app_data on one record *)
OpenAppData(h, r) ==
    LET result == tls_open_record(h, r)
        got == Received(h)
        counted == [got EXCEPT !.early_read = @ + Len(r.body)]
    IN  CASE result = "discard" -> h
          [] result = "alert" -> Failed(got, "ALERT")
          [] result # "success" -> FailedWithAlert(h, "BAD_RECORD")
          [] r.type = "handshake" -> [got EXCEPT !.hs_buf = @ \o r.body]
          [] r.type # "application_data"
               -> FailedWithAlert(got, "UNEXPECTED_RECORD")
          [] h.done -> got
          [] counted.early_read > MaxEarlyData
               -> FailedWithAlert(got, "TOO_MUCH_READ_EARLY_DATA")
          [] OTHER -> counted

ReadBuffered(e) ==
    /\ Stepped(e, ReadMessage(s[e]))
    /\ UNCHANGED app

ReadRecord(e) ==
    LET r == NextRecord(e)
        h == OpenAppData(s[e], r)
    IN  /\ SteppedReading(e, h)
        /\ app' = IF r.type = "application_data" /\ h.wait # "error"
                  THEN [app EXCEPT ![e].got = @ \o r.body] ELSE app

SSL_read(e) ==
    /\ ssl_can_read(s[e])
    /\ s[e].wait # "error"
    /\ IF get_message(s[e]) THEN ReadBuffered(e)
       ELSE ReadPartial(e) \/ (HasRecord(e) /\ ReadRecord(e))
    /\ UNCHANGED config

-----------------------------------------------------------------------------
Next == \E e \in Ends :
    \/ RunStateMachine(e)
    \/ tls_flush(e)
    \/ OpenRecord(e)
    \/ ResolveWait(e)
    \/ SSL_reset_early_data_reject(e)
    \/ SSL_write(e)
    \/ SSL_read(e)

Spec == Init /\ [][Next]_vars

(***************************************************************************)
(* Each application keeps driving its connection: it calls                 *)
(* SSL_do_handshake or SSL_read again whenever the last call could make    *)
(* progress, handles a rejection of early data, and its callbacks end in   *)
(* an answer (retries are bounded).  It need not write.                    *)
(***************************************************************************)
Fairness == \A e \in Ends :
    /\ WF_vars(RunStateMachine(e))
    /\ WF_vars(tls_flush(e))
    /\ WF_vars(OpenRecord(e))
    /\ WF_vars(ResolveWait(e))
    /\ WF_vars(SSL_reset_early_data_reject(e))
    /\ WF_vars(SSL_read(e))

FairSpec == Spec /\ Fairness

-----------------------------------------------------------------------------
(***************************************************************************)
(* Properties                                                              *)
(***************************************************************************)
States ==
    ClientStates \cup ServerStates \cup ClientStates12 \cup ServerStates12
    \cup ClientStates13 \cup ServerStates13 \cup {"done"}

(* The state of each end is one of its machine's, and what a call leaves   *)
(* behind is consistent: done only in the last state, an error recorded    *)
(* exactly when the handshake has failed, no early write once a rejection  *)
(* is reported (the assertion in ssl_run_handshake).                       *)
TypeOK ==
    /\ config \in Config
    /\ \A e \in Ends :
         LET h == s[e]
         IN  /\ h.state \in States
             /\ h.done <=> h.state = "done"
             /\ h.wait = "error" <=> h.error # "none"
             /\ h.wait = "early_data_rejected" => ~h.can_early_write
             /\ Len(wire[e]) <= config.capacity

(* Whatever the interleaving, the retries and the bound of the transport,  *)
(* a handshake fails only for a reason its configuration gives: a rejected *)
(* certificate, a missing client certificate, early data offered to a      *)
(* TLS 1.2 server, or the peer's own failure.                              *)
Justified(e, why) ==
    CASE why = "none" -> TRUE
      [] why = "CERTIFICATE_VERIFY_FAILED" -> Peer(e) \in config.invalid
      [] why = "PEER_DID_NOT_RETURN_A_CERTIFICATE"
           -> e = "server" /\ config.verify = "require" /\ ~config.credential
      [] why = "WRONG_VERSION_ON_EARLY_DATA"
           -> e = "client" /\ config.early /\ config.smax = 12
      [] why = "BAD_RECORD" \/ why = "UNEXPECTED_RECORD"
           -> \/ e = "server" /\ config.early /\ config.smax = 12
              \/ s[Peer(e)].error # "none"
      [] why = "ALERT" -> s[Peer(e)].error # "none"
      [] OTHER -> FALSE

NoSpuriousFailure ==
    /\ TypeOK
    /\ \A e \in Ends : Justified(e, s[e].error) /\ ~app[e].failed

(* Two ends that completed agree on everything the handshake negotiates:   *)
(* version, resumption, the keys of both directions, early data, Channel   *)
(* ID, whether a client certificate was asked for and given, ALPS and, in  *)
(* TLS 1.3, the resumption secret (which a server that accepted early data *)
(* computed from a Finished it had not yet received).  A ticket holds the  *)
(* resumption secret of the connection it came on.                         *)
Agreement ==
    LET c == s["client"]  v == s["server"]
    IN  /\ c.done /\ v.done =>
             /\ c.version = v.version /\ c.reused = v.reused
             /\ c.key_w = v.key_r /\ c.key_r = v.key_w
             /\ c.master = v.master /\ c.resumption = v.resumption
             /\ c.accepted = v.accepted /\ c.channel_id = v.channel_id
             /\ c.cert_request = v.cert_request
             /\ ~v.reused => v.peer_cert = (v.cert_request /\ config.credential)
             /\ c.version = 13 => c.alps = v.alps
        /\ \A t \in c.tickets : t = c.resumption

(* A complete handshake is authenticated: a client whose session is new    *)
(* accepted the server's certificate, one that resumed with                *)
(* reverify_on_resume accepted it again, and a server that requires a      *)
(* certificate has an accepted one (or a Channel ID, or the session's).    *)
Authenticated ==
    /\ s["client"].done =>
         /\ ~s["client"].reused /\ (s["client"].version = 13
                                    \/ ssl_cipher_uses_certificate_auth)
              => "server" \notin config.invalid
         /\ s["client"].reused /\ config.reverify
            /\ (s["client"].version = 13 \/ ssl_cipher_uses_certificate_auth)
              => "server" \notin config.invalid
    /\ s["server"].done /\ s["server"].cert_request /\ config.verify = "require"
         => s["server"].peer_cert /\ "client" \notin config.invalid

(* What an application reads is a prefix of what its peer wrote in its     *)
(* current life: nothing is lost, repeated or reordered between early      *)
(* data, half-RTT data, False Start and the rest, early data is delivered  *)
(* only when it was accepted, and rejected early data never is.            *)
DataExact ==
    \A e \in Ends :
        LET got == app[e].got  p == app[Peer(e)]
        IN  /\ Len(got) < p.next + Len(p.buf)
            /\ got = [i \in 1..Len(got) |-> <<p.life, i>>]
            /\ got # <<>> /\ ~s[e].done => s[e].accepted

(* A key never comes back: while an end keeps its write key the sequence   *)
(* number only grows, and it only moves on to keys of a later level, or    *)
(* back to the unprotected state when early data is rejected by a          *)
(* HelloRetryRequest.  No two records share a key and a nonce.             *)
Rank(k) == CASE k.level = "initial" -> 0 [] k.level = "early" -> 1
             [] k.level = "handshake" -> 2 [] OTHER -> 3

NoncesFresh ==
    [][\A e \in Ends :
         LET old == s[e]  new == s'[e]
         IN  IF new.key_w = old.key_w THEN new.seq_w >= old.seq_w
             ELSE \/ Rank(new.key_w) > Rank(old.key_w)
                  \/ /\ new.key_w = NullKey
                     /\ old.key_w.level = "early"
                     /\ new.used_hrr]_vars

(* An end that flushes does not read.  In a transport that holds less than *)
(* a record this stops both ends in two places, where the client answers   *)
(* while the server still writes: the server's ChangeCipherSpec after a    *)
(* HelloRetryRequest, and the tickets it sends before the client's flight  *)
(* when it accepted early data.                                            *)
BothFlushing ==
    /\ config.capacity < Len(Cells(Header))
    /\ \A e \in Ends : s[e].wait = "flush" /\ Room(wire[e]) = 0
    /\ \/ s["server"].state = "read_second_client_hello"
       \/ s["server"].state = "read_second_client_flight" /\ s["server"].accepted

(* The two ends never wait for each other for good: once each application  *)
(* keeps driving its end, a handshake that neither end gives up completes  *)
(* at both.  It does so though the transport holds less than a record      *)
(* (ssl_test.cc, "Test that all versions survive tiny write buffers"),     *)
(* except where BothFlushing says.                                         *)
HandshakeCompletes ==
    <>(\/ \E e \in Ends : s[e].wait = "error"
       \/ \A e \in Ends : s[e].done
       \/ BothFlushing)

(* include/openssl/ssl.h on SSL_reset_early_data_reject: "All 0-RTT state  *)
(* is discarded, including any pending SSL_write calls.  The caller should *)
(* treat ssl as a logically fresh connection": what the peer first reads   *)
(* is the first byte written after the reset, and no write fails.          *)
FreshAfterReset ==
    \A e \in Ends :
        LET got == app[Peer(e)].got
        IN  app[e].life > 0 =>
              /\ ~app[e].failed
              /\ got # <<>> => got[1] = <<app[e].life, 1>>

(* include/openssl/ssl.h on SSL_VERIFY_PEER_IF_NO_OBC: "configures a       *)
(* server to request a client certificate if and only if Channel ID is not *)
(* negotiated".                                                            *)
RequestedIffNoChannelID ==
    LET v == s["server"]
        applies == /\ v.done /\ ~v.reused
                   /\ config.verify # "none" /\ config.if_no_obc
                   /\ v.version = 13 \/ ssl_cipher_uses_certificate_auth
    IN  applies => (v.cert_request <=> ~v.channel_id)

=============================================================================
