--------------------------- MODULE TLS13Handshake ---------------------------
(***************************************************************************)
(* The TLS 1.3 state machines of both ends: ssl/tls13_client.cc and        *)
(* ssl/tls13_server.cc, one definition per state.  A definition maps the   *)
(* end's state h to its state after the handler; r is what the callback    *)
(* the handler calls returns ("ok" or "retry").                            *)
(***************************************************************************)
EXTENDS TLSHandshakeBase

-----------------------------------------------------------------------------
(***************************************************************************)
(* The key schedule (ssl/tls13_enc.cc): which transcript each secret is    *)
(* derived from                                                            *)
(***************************************************************************)
tls13_derive_handshake_secrets(h) == [h EXCEPT !.hs_hash = h.transcript]
tls13_derive_application_secrets(h) == [h EXCEPT !.ap_hash = h.transcript]
tls13_derive_resumption_secret(h) == [h EXCEPT !.resumption = h.transcript]

Secret(level, from, h, hash) ==
    [level |-> level, from |-> from, psk |-> h.reused, hash |-> hash]

HandshakeKey(h, from) == Secret("handshake", from, h, h.hs_hash)
ApplicationKey(h, from) == Secret("application", from, h, h.ap_hash)

(* The early traffic secret always has the PSK in it. *)
EarlyKey(h) ==
    [level |-> "early", from |-> "client", psk |-> TRUE,
     hash |-> SubSeq(h.transcript, 1, 1)]

(* The first ClientHello becomes a synthetic message. *)
UpdateForHelloRetryRequest(h) ==
    [h EXCEPT !.transcript = <<<<"message_hash", @[1][2]>>>>]

tls13_add_finished(h) ==
    tls_add_message(h, Message("finished", {}, h.transcript))

(* tls13_process_finished: against the transcript, or the predicted value *)
FinishedMatches(h, use_saved_value) ==
    msg(h).mac = (IF use_saved_value THEN h.expected_finished
                  ELSE h.transcript)

tls13_add_certificate(h, has_credential) ==
    tls_add_message(h, Message("certificate",
                               IF has_credential THEN {"chain"} ELSE {}, <<>>))

tls13_add_certificate_verify(h) ==
    tls_add_message(h, Message("certificate_verify", {}, h.transcript))

-----------------------------------------------------------------------------
(***************************************************************************)
(* Client                                                                  *)
(***************************************************************************)
close_early_data(h, level) ==
    tls_set_write_state([h EXCEPT !.can_early_write = FALSE],
                        IF level = "initial" THEN NullKey
                        ELSE HandshakeKey(h, "client"))

(* ssl_add_client_hello; the second hello offers no early data. *)
ClientHelloExt(h) ==
    (IF config.cmax = 13 THEN {"tls13"} ELSE {})
    \cup (IF h.session = "none" THEN {} ELSE {h.session})
    \cup (IF h.early_offered /\ ~h.used_hrr THEN {"early_data"} ELSE {})
    \cup (IF h.used_hrr \/ config.share THEN {"share"} ELSE {})

ssl_add_client_hello(h) ==
    tls_add_message(h, Message("client_hello", ClientHelloExt(h), <<>>))

do_read_hello_retry_request(h0) ==
    Reading(h0, LAMBDA g :
        LET h == IF g.early_offered THEN g ELSE tls_add_change_cipher_spec(g)
            retry == [tls_next_message(ssl_hash_message(
                         UpdateForHelloRetryRequest(h)))
                      EXCEPT !.used_hrr = TRUE,
                             !.state = "send_second_client_hello"]
        IN  CASE msg(h).type # "server_hello"
                   -> FailedWithAlert(h, "UNEXPECTED_MESSAGE")
              [] "retry" \notin msg(h).ext -> Goto(h, "read_server_hello_13")
              [] OTHER -> EndOfFlight(h,
                   IF h.in_early_data
                   THEN [close_early_data(retry, "initial")
                         EXCEPT !.wait = "early_data_rejected"]
                   ELSE retry))

do_send_second_client_hello(h) ==
    Wait(ssl_add_client_hello(h), "read_server_hello_13", "flush")

(* Mutant: the key is installed under early data, and again after it. *)
HandshakeWriteKey_Always(h) ==
    tls_set_write_state(h, HandshakeKey(h, "client"))

(* Installed later while early data is being written *)
HandshakeWriteKey(h) ==
    IF h.in_early_data THEN h
    ELSE tls_set_write_state(h, HandshakeKey(h, "client"))

do_read_server_hello_13(h0) ==
    Expecting(h0, "server_hello", LAMBDA g :
        LET reused == "psk" \in msg(g).ext
            hashed == tls13_derive_handshake_secrets(ssl_hash_message(
                          [g EXCEPT !.reused = reused, !.session = "none"]))
            reading == tls_set_read_state(HandshakeWriteKey(hashed),
                                          HandshakeKey(hashed, "server"))
        IN  CASE "retry" \in msg(g).ext
                   -> FailedWithAlert(g, "UNEXPECTED_MESSAGE")
              [] reused /\ g.session # "psk"
                   -> FailedWithAlert(g, "UNEXPECTED_EXTENSION")
              [] reading.wait = "error" -> reading
              [] OTHER -> Goto(tls_next_message(reading),
                               "read_encrypted_extensions"))

do_read_encrypted_extensions(h0) ==
    Expecting(h0, "encrypted_extensions", LAMBDA g :
        LET accepted == "early_data" \in msg(g).ext
            parsed == [g EXCEPT !.accepted = accepted,
                                !.channel_id = "channel_id" \in msg(g).ext,
                                !.alps = "alps" \in msg(g).ext]
            next == [tls_next_message(ssl_hash_message(parsed))
                     EXCEPT !.state = "read_certificate_request_13",
                            !.alps = @ \/ (accepted /\ config.alps)]
        IN  CASE accepted /\ (~g.reused \/ ~g.early_offered \/ g.used_hrr)
                   -> FailedWithAlert(g, "UNEXPECTED_EXTENSION")
              [] accepted /\ (parsed.channel_id \/ parsed.alps)
                   -> FailedWithAlert(g, "UNEXPECTED_EXTENSION_ON_EARLY_DATA")
              [] g.in_early_data /\ ~accepted
                   -> [close_early_data(next, "handshake")
                       EXCEPT !.wait = "early_data_rejected"]
              [] OTHER -> next)

do_read_certificate_request_13(h) ==
    IF h.reused
    THEN Goto(h, IF config.reverify /\ ~h.accepted
                 THEN "server_certificate_reverify" ELSE "read_server_finished_13")
    ELSE Reading(h, LAMBDA g :
             IF msg(g).type # "certificate_request"
             THEN Goto(g, "read_server_certificate_13")
             ELSE Goto([tls_next_message(ssl_hash_message(g))
                        EXCEPT !.cert_request = TRUE],
                       "read_server_certificate_13"))

do_read_server_certificate_13(h) ==
    Expecting(h, "certificate", LAMBDA g :
        IF msg(g).ext = {} THEN FailedWithAlert(g, "NO_CERTIFICATE")
        ELSE Goto([tls_next_message(ssl_hash_message(g))
                   EXCEPT !.peer_cert = TRUE], "read_server_certificate_verify"))

(* ssl_verify_peer_cert, and then the signature *)
VerifyPeer(h, r, from, next) ==
    Reading(h, LAMBDA g :
        CASE r = "retry" -> Retried(g, "certificate_verify")
          [] from \in config.invalid
               -> FailedWithAlert(g, "CERTIFICATE_VERIFY_FAILED")
          [] msg(g).type # "certificate_verify"
               -> FailedWithAlert(g, "UNEXPECTED_MESSAGE")
          [] msg(g).mac # g.transcript -> FailedWithAlert(g, "BAD_SIGNATURE")
          [] OTHER -> Goto(tls_next_message(ssl_hash_message(g)), next))

do_read_server_certificate_verify(h, r) ==
    VerifyPeer(h, r, "server", "read_server_finished_13")

do_server_certificate_reverify(h, r) ==
    CASE r = "retry" -> Retried(h, "certificate_verify")
      [] "server" \in config.invalid
           -> FailedWithAlert(h, "CERTIFICATE_VERIFY_FAILED")
      [] OTHER -> Goto(h, "read_server_finished_13")

do_read_server_finished_13(h) ==
    Expecting(h, "finished", LAMBDA g :
        IF ~FinishedMatches(g, FALSE)
        THEN FailedWithAlert(g, "DIGEST_CHECK_FAILED")
        ELSE EndOfFlight(g,
                 Goto(tls_next_message(tls13_derive_application_secrets(
                          ssl_hash_message(g))), "send_end_of_early_data")))

do_send_end_of_early_data(h) ==
    Goto(IF h.accepted
         THEN close_early_data(tls_add_message(h,
                  Message("end_of_early_data", {}, <<>>)), "handshake")
         ELSE h, "send_client_encrypted_extensions")

do_send_client_encrypted_extensions(h) ==
    Goto(IF h.alps /\ ~h.accepted
         THEN tls_add_message(h, Message("encrypted_extensions", {"alps"}, <<>>))
         ELSE h, "send_client_certificate_13")

do_send_client_certificate_13(h, r) ==
    CASE ~h.cert_request -> Goto(h, "complete_second_flight")
      [] r = "retry" -> Retried(h, "x509_lookup")
      [] OTHER -> Goto([tls13_add_certificate(h, config.credential)
                        EXCEPT !.credential = config.credential],
                       "send_client_certificate_verify_13")

do_send_client_certificate_verify_13(h, r) ==
    CASE ~h.credential -> Goto(h, "complete_second_flight")
      [] r = "retry" -> Retried(h, "private_key_operation")
      [] OTHER -> Goto(tls13_add_certificate_verify(h), "complete_second_flight")

do_complete_second_flight(h) ==
    LET identified == IF h.channel_id
                      THEN tls_add_message(h, Message("channel_id", {},
                                                      h.transcript))
                      ELSE h
        finished == tls13_add_finished(identified)
        keyed == tls_set_read_state(
                     tls_set_write_state(finished, ApplicationKey(h, "client")),
                     ApplicationKey(h, "server"))
    IN  IF keyed.wait = "error" THEN keyed
        ELSE Wait(tls13_derive_resumption_secret(keyed),
                  "finish_client_handshake", "flush")

ClientStates13 ==
    {"read_hello_retry_request", "send_second_client_hello",
     "read_server_hello_13", "read_encrypted_extensions",
     "read_certificate_request_13", "read_server_certificate_13",
     "read_server_certificate_verify", "server_certificate_reverify",
     "read_server_finished_13", "send_end_of_early_data",
     "send_client_encrypted_extensions", "send_client_certificate_13",
     "send_client_certificate_verify_13", "complete_second_flight"}

tls13_client_handshake(h, r) ==
    CASE h.state = "read_hello_retry_request" -> do_read_hello_retry_request(h)
      [] h.state = "send_second_client_hello" -> do_send_second_client_hello(h)
      [] h.state = "read_server_hello_13" -> do_read_server_hello_13(h)
      [] h.state = "read_encrypted_extensions" -> do_read_encrypted_extensions(h)
      [] h.state = "read_certificate_request_13" -> do_read_certificate_request_13(h)
      [] h.state = "read_server_certificate_13" -> do_read_server_certificate_13(h)
      [] h.state = "read_server_certificate_verify"
           -> do_read_server_certificate_verify(h, r)
      [] h.state = "server_certificate_reverify"
           -> do_server_certificate_reverify(h, r)
      [] h.state = "read_server_finished_13" -> do_read_server_finished_13(h)
      [] h.state = "send_end_of_early_data" -> do_send_end_of_early_data(h)
      [] h.state = "send_client_encrypted_extensions"
           -> do_send_client_encrypted_extensions(h)
      [] h.state = "send_client_certificate_13"
           -> do_send_client_certificate_13(h, r)
      [] h.state = "send_client_certificate_verify_13"
           -> do_send_client_certificate_verify_13(h, r)
      [] h.state = "complete_second_flight" -> do_complete_second_flight(h)

-----------------------------------------------------------------------------
(***************************************************************************)
(* Server                                                                  *)
(***************************************************************************)
do_select_parameters_13(h) == Goto(h, "select_session")

(***************************************************************************)
(* The chain of conditions that decides 0-RTT; server_early stands for the *)
(* ones that only depend on the server and the ticket (enabled, a ticket   *)
(* with early data, ALPN and ALPS as in the ticket, the age of the ticket).*)
(***************************************************************************)
AcceptsEarlyData(h, offered, resumed) ==
    /\ config.server_early
    /\ resumed
    /\ "early_data" \in offered
    /\ ~h.channel_id
    /\ "share" \in offered

do_select_session(h, r) ==
    LET offered == msg(h).ext
        resumed == "psk" \in offered /\ config.resumes
        accepted == AcceptsEarlyData(h, offered, resumed)
        next == tls_next_message(ssl_hash_message(
                    [h EXCEPT !.reused = resumed, !.accepted = accepted,
                              !.alps = config.alps,
                              !.skip_early = "early_data" \in offered
                                             /\ ~accepted]))
    IN  CASE "psk" \in offered /\ r = "retry" -> Retried(h, "pending_ticket")
          [] "share" \in offered -> Goto(next, "send_server_hello_13")
          [] OTHER -> Goto(UpdateForHelloRetryRequest(next),
                           "send_hello_retry_request")

do_send_hello_retry_request(h) ==
    Wait([tls_add_change_cipher_spec(tls_add_message(h,
             Message("server_hello", {"tls13", "retry"}, <<>>)))
          EXCEPT !.used_hrr = TRUE], "read_second_client_hello", "flush")

do_read_second_client_hello(h) ==
    Expecting(h, "client_hello", LAMBDA g :
        CASE g.reused /\ "psk" \notin msg(g).ext
               -> FailedWithAlert(g, "INCONSISTENT_CLIENT_HELLO")
          [] "share" \notin msg(g).ext
               -> FailedWithAlert(g, "WRONG_CURVE")
          [] OTHER -> EndOfFlight(g, Goto(tls_next_message(ssl_hash_message(g)),
                                          "send_server_hello_13")))

EncryptedExtensions(h) ==
    Message("encrypted_extensions",
            (IF h.accepted THEN {"early_data"} ELSE {})
            \cup (IF h.channel_id THEN {"channel_id"} ELSE {})
            \cup (IF h.alps /\ ~h.accepted THEN {"alps"} ELSE {}), <<>>)

do_send_server_hello_13(h) ==
    LET hello == tls_add_message(h, Message("server_hello",
                     {"tls13"} \cup (IF h.reused THEN {"psk"} ELSE {}), <<>>))
        compat == IF h.used_hrr THEN hello ELSE tls_add_change_cipher_spec(hello)
        derived == tls13_derive_handshake_secrets(compat)
        extended == tls_add_message(
                        tls_set_write_state(derived,
                            HandshakeKey(derived, "server")),
                        EncryptedExtensions(h))
        asks == /\ ~h.reused
                /\ config.verify # "none"
                /\ ~(config.if_no_obc /\ h.channel_id)
        asked == IF asks
                 THEN tls_add_message([extended EXCEPT !.cert_request = TRUE],
                          Message("certificate_request", {}, <<>>))
                 ELSE extended
    IN  IF h.reused THEN Goto(asked, "send_server_finished_13")
        ELSE Goto(tls13_add_certificate(asked, TRUE),
                  "send_server_certificate_verify")

do_send_server_certificate_verify(h, r) ==
    IF r = "retry" THEN Retried(h, "private_key_operation")
    ELSE Goto(tls13_add_certificate_verify(h), "send_server_finished_13")

do_send_server_finished_13(h) ==
    LET derived == tls13_derive_application_secrets(tls13_add_finished(h))
    IN  Goto(tls_set_write_state(derived, ApplicationKey(derived, "server")),
             "send_half_rtt_ticket")

add_new_session_tickets(h) ==
    FoldLeft(tls_add_message, h,
             [i \in 1..config.num_tickets |->
                Message("new_session_ticket", {}, h.resumption)])

(* Mutant: the resumption secret is derived without EndOfEarlyData. *)
do_send_half_rtt_ticket_NoEnd(h) ==
    LET ended == Append(h.transcript, <<"end_of_early_data", {}>>)
        predicted == [h EXCEPT !.transcript = Append(@, <<"finished", {}>>),
                               !.expected_finished = ended]
    IN  Wait(IF h.accepted
             THEN add_new_session_tickets(
                      tls13_derive_resumption_secret(predicted))
             ELSE h, "read_second_client_flight", "flush")

(* The client's Finished is predicted, to derive what the tickets hold. *)
do_send_half_rtt_ticket(h) ==
    LET ended == Append(h.transcript, <<"end_of_early_data", {}>>)
        predicted == [h EXCEPT !.transcript = Append(ended, <<"finished", {}>>),
                               !.expected_finished = ended]
    IN  Wait(IF h.accepted
             THEN add_new_session_tickets(
                      tls13_derive_resumption_secret(predicted))
             ELSE h, "read_second_client_flight", "flush")

do_read_second_client_flight(h) ==
    LET early == tls_set_read_state(h, EarlyKey(h))
    IN  CASE ~h.accepted -> Goto(h, "process_end_of_early_data")
          [] early.wait = "error" -> early
          [] OTHER -> [early EXCEPT !.can_early_write = TRUE,
                                    !.can_early_read = TRUE,
                                    !.in_early_data = TRUE,
                                    !.state = "process_end_of_early_data",
                                    !.wait = "read_end_of_early_data"]

do_process_end_of_early_data(h) ==
    LET Switch(g) == Goto(tls_set_read_state(g, HandshakeKey(g, "client")),
                          "read_client_encrypted_extensions")
    IN  IF h.accepted
        THEN Expecting(h, "end_of_early_data",
                       LAMBDA g : Switch(tls_next_message(g)))
        ELSE Switch(h)

do_read_client_encrypted_extensions(h) ==
    IF h.alps /\ ~h.accepted
    THEN Expecting(h, "encrypted_extensions", LAMBDA g :
             IF "alps" \notin msg(g).ext
             THEN FailedWithAlert(g, "MISSING_EXTENSION")
             ELSE Goto(tls_next_message(ssl_hash_message(g)),
                       "read_client_certificate_13"))
    ELSE Goto(h, "read_client_certificate_13")

do_read_client_certificate_13(h) ==
    IF ~h.cert_request THEN Goto(h, "read_channel_id_13")
    ELSE Expecting(h, "certificate", LAMBDA g :
             IF msg(g).ext = {} /\ config.verify = "require"
             THEN FailedWithAlert(g, "PEER_DID_NOT_RETURN_A_CERTIFICATE")
             ELSE Goto([tls_next_message(ssl_hash_message(g))
                        EXCEPT !.peer_cert = msg(g).ext # {}],
                       "read_client_certificate_verify_13"))

do_read_client_certificate_verify_13(h, r) ==
    IF ~h.peer_cert THEN Goto(h, "read_channel_id_13")
    ELSE VerifyPeer(h, r, "client", "read_channel_id_13")

do_read_channel_id_13(h) ==
    IF ~h.channel_id THEN Goto(h, "read_client_finished_13")
    ELSE Expecting(h, "channel_id", LAMBDA g :
             IF msg(g).mac # g.transcript
             THEN FailedWithAlert(g, "CHANNEL_ID_SIGNATURE_INVALID")
             ELSE Goto(tls_next_message(ssl_hash_message(g)),
                       "read_client_finished_13"))

do_read_client_finished_13(h) ==
    Expecting(h, "finished", LAMBDA g :
        LET keyed == tls_set_read_state(g, ApplicationKey(g, "client"))
        IN  CASE ~FinishedMatches(g, g.accepted)
                   -> FailedWithAlert(g, "DIGEST_CHECK_FAILED")
              [] keyed.wait = "error" -> keyed
              [] g.accepted -> Goto(tls_next_message(keyed),
                                 "finish_server_handshake")
              [] OTHER -> Goto(tls_next_message(tls13_derive_resumption_secret(
                                   ssl_hash_message(keyed))),
                               "send_new_session_ticket"))

(* Queued, and left for the server's next write *)
do_send_new_session_ticket(h) ==
    Goto(add_new_session_tickets(h), "finish_server_handshake")

ServerStates13 ==
    {"select_parameters_13", "select_session", "send_hello_retry_request",
     "read_second_client_hello", "send_server_hello_13",
     "send_server_certificate_verify", "send_server_finished_13",
     "send_half_rtt_ticket", "read_second_client_flight",
     "process_end_of_early_data", "read_client_encrypted_extensions",
     "read_client_certificate_13", "read_client_certificate_verify_13",
     "read_channel_id_13", "read_client_finished_13",
     "send_new_session_ticket"}

tls13_server_handshake(h, r) ==
    CASE h.state = "select_parameters_13" -> do_select_parameters_13(h)
      [] h.state = "select_session" -> do_select_session(h, r)
      [] h.state = "send_hello_retry_request" -> do_send_hello_retry_request(h)
      [] h.state = "read_second_client_hello" -> do_read_second_client_hello(h)
      [] h.state = "send_server_hello_13" -> do_send_server_hello_13(h)
      [] h.state = "send_server_certificate_verify"
           -> do_send_server_certificate_verify(h, r)
      [] h.state = "send_server_finished_13" -> do_send_server_finished_13(h)
      [] h.state = "send_half_rtt_ticket" -> do_send_half_rtt_ticket(h)
      [] h.state = "read_second_client_flight" -> do_read_second_client_flight(h)
      [] h.state = "process_end_of_early_data" -> do_process_end_of_early_data(h)
      [] h.state = "read_client_encrypted_extensions"
           -> do_read_client_encrypted_extensions(h)
      [] h.state = "read_client_certificate_13" -> do_read_client_certificate_13(h)
      [] h.state = "read_client_certificate_verify_13"
           -> do_read_client_certificate_verify_13(h, r)
      [] h.state = "read_channel_id_13" -> do_read_channel_id_13(h)
      [] h.state = "read_client_finished_13" -> do_read_client_finished_13(h)
      [] h.state = "send_new_session_ticket" -> do_send_new_session_ticket(h)

(* The states whose callback may ask to be called again *)
RetryStates13 ==
    {"read_server_certificate_verify", "server_certificate_reverify",
     "send_client_certificate_13", "send_client_certificate_verify_13",
     "select_session", "send_server_certificate_verify",
     "read_client_certificate_verify_13"}

=============================================================================
