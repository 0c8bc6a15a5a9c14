--------------------------- MODULE TLS12Handshake ---------------------------
(***************************************************************************)
(* The TLS 1.2 states of both ends: ssl/handshake_client.cc after the      *)
(* ServerHello and ssl/handshake_server.cc after the ClientHello, one      *)
(* definition per state, in the style of TLS13Handshake.                   *)
(*                                                                         *)
(* buffer says whether the transcript still keeps its raw messages         *)
(* (SSLTranscript::FreeBuffer): a CertificateVerify signs the buffer, and  *)
(* a freed buffer is an empty one.                                         *)
(***************************************************************************)
EXTENDS TLSHandshakeBase

FreeBuffer(h) == [h EXCEPT !.buffer = FALSE]

TranscriptBuffer(h) == IF h.buffer THEN h.transcript ELSE <<>>

ECDHE == config.kx \in {"ecdhe", "ecdhe_psk"}
ssl_cipher_uses_certificate_auth == config.kx \in {"ecdhe", "rsa"}
ssl_cipher_requires_server_key_exchange == ECDHE

(* Keys come from the master secret, which a resumed session brings along. *)
tls1_generate_master_secret(h) == [h EXCEPT !.master = h.transcript]

SessionMaster == <<<<"session">>>>

KeyBlock(h, from) ==
    [level |-> "tls12", from |-> from, psk |-> h.reused, hash |-> h.master]

ssl_send_tls12_certificate(h, has_credential) ==
    tls_add_message(h, Message("certificate",
                               IF has_credential THEN {"chain"} ELSE {}, <<>>))

ssl_send_finished(h) ==
    tls_add_message(h, Message("finished", {}, h.transcript))

ssl_get_finished(h, next) ==
    Expecting(h, "finished", LAMBDA g :
        IF msg(g).mac # g.transcript
        THEN FailedWithAlert(ssl_hash_message(g), "DIGEST_CHECK_FAILED")
        ELSE EndOfFlight(ssl_hash_message(g),
                         Goto(tls_next_message(ssl_hash_message(g)), next)))

ChannelID(h) == Message("channel_id", {}, h.transcript)

-----------------------------------------------------------------------------
(***************************************************************************)
(* Client                                                                  *)
(***************************************************************************)
(* The second half of do_read_server_hello: a TLS 1.2 ServerHello *)
ReadServerHello12(g) ==
    LET ext == msg(g).ext
        resumed == "echo" \in ext
        chosen == [g EXCEPT !.reused = resumed,
                            !.session = IF resumed THEN @ ELSE "none",
                            !.master = IF resumed THEN SessionMaster ELSE @,
                            !.buffer = ~resumed
                                       /\ ssl_cipher_uses_certificate_auth,
                            !.ticket_expected = "ticket" \in ext,
                            !.channel_id = "channel_id" \in ext]
        next == tls_next_message(ssl_hash_message(chosen))
    IN  CASE config.cmax = 13 /\ "downgrade" \in ext
               -> FailedWithAlert(g, "TLS13_DOWNGRADE")
          [] resumed /\ g.session \notin {"id", "ticket"}
               -> FailedWithAlert(g, "SERVER_ECHOED_INVALID_SESSION_ID")
          [] ~resumed -> Goto(next, "read_server_certificate")
          [] config.reverify /\ ssl_cipher_uses_certificate_auth
               -> Goto(next, "reverify_server_certificate")
          [] OTHER -> Goto(next, "read_session_ticket")

do_read_server_certificate(h) ==
    IF ~ssl_cipher_uses_certificate_auth THEN Goto(h, "read_certificate_status")
    ELSE Expecting(h, "certificate", LAMBDA g :
             IF msg(g).ext = {} THEN FailedWithAlert(g, "DECODE_ERROR")
             ELSE Goto([tls_next_message(ssl_hash_message(g))
                        EXCEPT !.peer_cert = TRUE], "read_certificate_status"))

(* A server may promise a status and not send one. *)
do_read_certificate_status(h) ==
    IF ~(config.ocsp /\ ssl_cipher_uses_certificate_auth)
    THEN Goto(h, "verify_server_certificate")
    ELSE Reading(h, LAMBDA g :
             Goto(IF msg(g).type = "certificate_status"
                  THEN tls_next_message(ssl_hash_message(g)) ELSE g,
                  "verify_server_certificate"))

(* Mutant: the answer to a verification that was retried is not awaited. *)
VerifyCertificate_Once(h, r, from, next) ==
    CASE r = "retry" -> Goto(Retried(h, "certificate_verify"), next)
      [] from \in config.invalid
           -> FailedWithAlert(h, "CERTIFICATE_VERIFY_FAILED")
      [] OTHER -> Goto(h, next)

(* ssl_verify_peer_cert and ssl_reverify_peer_cert, which send the alert *)
VerifyCertificate(h, r, from, next) ==
    CASE r = "retry" -> Retried(h, "certificate_verify")
      [] from \in config.invalid
           -> FailedWithAlert(h, "CERTIFICATE_VERIFY_FAILED")
      [] OTHER -> Goto(h, next)

do_verify_server_certificate(h, r) ==
    IF ssl_cipher_uses_certificate_auth
    THEN VerifyCertificate(h, r, "server", "read_server_key_exchange")
    ELSE Goto(h, "read_server_key_exchange")

do_reverify_server_certificate(h, r) ==
    VerifyCertificate(h, r, "server", "read_session_ticket")

do_read_server_key_exchange(h) ==
    Reading(h, LAMBDA g :
        CASE msg(g).type = "server_key_exchange"
               -> Goto(tls_next_message(ssl_hash_message(g)),
                       "read_certificate_request")
          [] ssl_cipher_requires_server_key_exchange
               -> FailedWithAlert(g, "UNEXPECTED_MESSAGE")
          [] OTHER -> Goto(g, "read_certificate_request"))

do_read_certificate_request(h) ==
    IF ~ssl_cipher_uses_certificate_auth THEN Goto(h, "read_server_hello_done")
    ELSE Reading(h, LAMBDA g :
        CASE msg(g).type = "server_hello_done"
               -> Goto(FreeBuffer(g), "read_server_hello_done")
          [] msg(g).type = "certificate_request"
               -> Goto([tls_next_message(ssl_hash_message(g))
                        EXCEPT !.cert_request = TRUE], "read_server_hello_done")
          [] OTHER -> FailedWithAlert(g, "UNEXPECTED_MESSAGE"))

do_read_server_hello_done(h) ==
    Expecting(h, "server_hello_done", LAMBDA g :
        EndOfFlight(ssl_hash_message(g),
                    Goto(tls_next_message(ssl_hash_message(g)),
                         "send_client_certificate")))

do_send_client_certificate(h, r) ==
    CASE ~h.cert_request -> Goto(h, "send_client_key_exchange")
      [] r = "retry" -> Retried(h, "x509_lookup")
      [] OTHER
           -> Goto(ssl_send_tls12_certificate(
                       [h EXCEPT !.credential = config.credential,
                                 !.buffer = @ /\ config.credential],
                       config.credential), "send_client_key_exchange")

do_send_client_key_exchange(h) ==
    Goto(tls1_generate_master_secret(
             tls_add_message(h, Message("client_key_exchange", {}, <<>>))),
         "send_client_certificate_verify")

do_send_client_certificate_verify(h, r) ==
    CASE ~h.cert_request \/ ~h.credential -> Goto(h, "send_client_finished")
      [] r = "retry" -> Retried(h, "private_key_operation")
      [] OTHER -> Goto(FreeBuffer(tls_add_message(h,
                           Message("certificate_verify", {},
                                   TranscriptBuffer(h)))),
                       "send_client_finished")

do_send_client_finished(h) ==
    LET keyed == tls_set_write_state(tls_add_change_cipher_spec(h),
                                     KeyBlock(h, "client"))
        chosen == IF config.npn
                  THEN tls_add_message(keyed, Message("next_proto", {}, <<>>))
                  ELSE keyed
        identified == IF h.channel_id
                      THEN tls_add_message(chosen, ChannelID(chosen))
                      ELSE chosen
    IN  Wait(ssl_send_finished(identified), "finish_flight", "flush")

can_false_start == config.false_start /\ ECDHE

do_finish_flight(h) ==
    CASE h.reused -> Goto(h, "finish_client_handshake")
      [] can_false_start
           -> Wait([h EXCEPT !.can_early_write = TRUE, !.in_false_start = TRUE],
                   "read_session_ticket", "early_return")
      [] OTHER -> Goto(h, "read_session_ticket")

(* A server may promise a ticket and send an empty one. *)
do_read_session_ticket(h) ==
    IF ~h.ticket_expected
    THEN Wait(h, "process_change_cipher_spec", "read_change_cipher_spec")
    ELSE Expecting(h, "new_session_ticket", LAMBDA g :
             Wait([tls_next_message(ssl_hash_message(g))
                   EXCEPT !.ticket_expected = msg(g).ext # {}],
                  "process_change_cipher_spec", "read_change_cipher_spec"))

do_process_change_cipher_spec(h) ==
    Goto(tls_set_read_state(h, KeyBlock(h, "server")), "read_server_finished")

do_read_server_finished(h) ==
    ssl_get_finished(h, IF h.reused THEN "send_client_finished"
                        ELSE "finish_client_handshake")

ClientStates12 ==
    {"read_server_certificate", "read_certificate_status",
     "verify_server_certificate", "reverify_server_certificate",
     "read_server_key_exchange", "read_certificate_request",
     "read_server_hello_done", "send_client_certificate",
     "send_client_key_exchange", "send_client_certificate_verify",
     "send_client_finished", "finish_flight", "read_session_ticket",
     "process_change_cipher_spec", "read_server_finished"}

ssl_client_handshake_12(h, r) ==
    CASE h.state = "read_server_certificate" -> do_read_server_certificate(h)
      [] h.state = "read_certificate_status" -> do_read_certificate_status(h)
      [] h.state = "verify_server_certificate"
           -> do_verify_server_certificate(h, r)
      [] h.state = "reverify_server_certificate"
           -> do_reverify_server_certificate(h, r)
      [] h.state = "read_server_key_exchange" -> do_read_server_key_exchange(h)
      [] h.state = "read_certificate_request" -> do_read_certificate_request(h)
      [] h.state = "read_server_hello_done" -> do_read_server_hello_done(h)
      [] h.state = "send_client_certificate" -> do_send_client_certificate(h, r)
      [] h.state = "send_client_key_exchange" -> do_send_client_key_exchange(h)
      [] h.state = "send_client_certificate_verify"
           -> do_send_client_certificate_verify(h, r)
      [] h.state = "send_client_finished" -> do_send_client_finished(h)
      [] h.state = "finish_flight" -> do_finish_flight(h)
      [] h.state = "read_session_ticket" -> do_read_session_ticket(h)
      [] h.state = "process_change_cipher_spec"
           -> do_process_change_cipher_spec(h)
      [] h.state = "read_server_finished" -> do_read_server_finished(h)

-----------------------------------------------------------------------------
(***************************************************************************)
(* Server                                                                  *)
(***************************************************************************)
(* ssl_get_prev_session: the lookup may be pending. *)
do_select_parameters(h, r) ==
    LET offered == msg(h).ext \cap {"id", "ticket"}
        resumed == offered # {} /\ config.resumes
        asks == /\ ~resumed
                /\ config.verify # "none"
                /\ ~(config.if_no_obc /\ h.channel_id)
                /\ ssl_cipher_uses_certificate_auth
        chosen == [h EXCEPT !.reused = resumed,
                            !.master = IF resumed THEN SessionMaster ELSE @,
                            !.ticket_expected = IF resumed THEN config.renew
                                                ELSE config.tickets,
                            !.cert_request = asks,
                            !.buffer = asks]
    IN  IF offered # {} /\ r = "retry"
        THEN Retried(h, IF "ticket" \in offered THEN "pending_ticket"
                        ELSE "pending_session")
        ELSE Goto(tls_next_message(ssl_hash_message(chosen)),
                  "send_server_hello")

(* Channel ID needs ECDHE, and the hashes of the original handshake. *)
do_send_server_hello(h) ==
    LET channel_id == /\ h.channel_id
                      /\ ECDHE
                      /\ h.reused => config.session_has_hashes
        hello == Message("server_hello",
                     (IF h.reused THEN {"echo"} ELSE {})
                     \cup (IF config.smax = 13 THEN {"downgrade"} ELSE {})
                     \cup (IF h.ticket_expected THEN {"ticket"} ELSE {})
                     \cup (IF channel_id THEN {"channel_id"} ELSE {}), <<>>)
    IN  Goto(tls_add_message([h EXCEPT !.channel_id = channel_id], hello),
             IF h.reused THEN "send_server_finished"
             ELSE "send_server_certificate")

do_send_server_certificate(h) ==
    LET certified == ssl_send_tls12_certificate(h, TRUE)
        stapled == IF config.ocsp
                   THEN tls_add_message(certified,
                            Message("certificate_status", {}, <<>>))
                   ELSE certified
    IN  Goto(IF ssl_cipher_uses_certificate_auth THEN stapled ELSE h,
             "send_server_key_exchange")

(* Signed when the cipher has a certificate: the key may be slow. *)
do_send_server_key_exchange(h, r) ==
    CASE ~ssl_cipher_requires_server_key_exchange /\ ~config.psk_hint
           -> Goto(h, "send_server_hello_done")
      [] ssl_cipher_uses_certificate_auth /\ r = "retry"
           -> Retried(h, "private_key_operation")
      [] OTHER -> Goto(tls_add_message(h,
                           Message("server_key_exchange", {}, <<>>)),
                       "send_server_hello_done")

(* Mutant: the flight is not flushed. *)
do_send_server_hello_done_NoFlush(h) ==
    LET asked == IF h.cert_request
                 THEN tls_add_message(h, Message("certificate_request", {}, <<>>))
                 ELSE h
    IN  Goto(tls_add_message(asked, Message("server_hello_done", {}, <<>>)),
             "read_client_certificate")

do_send_server_hello_done(h) ==
    LET asked == IF h.cert_request
                 THEN tls_add_message(h, Message("certificate_request", {}, <<>>))
                 ELSE h
    IN  Wait(tls_add_message(asked, Message("server_hello_done", {}, <<>>)),
             "read_client_certificate", "flush")

do_read_client_certificate(h) ==
    IF ~h.cert_request THEN Goto(h, "verify_client_certificate")
    ELSE Expecting(h, "certificate", LAMBDA g :
        LET has == msg(g).ext # {}
            read == [ssl_hash_message(g) EXCEPT !.peer_cert = has,
                                                !.buffer = @ /\ has]
        IN  IF ~has /\ config.verify = "require"
            THEN FailedWithAlert(read, "PEER_DID_NOT_RETURN_A_CERTIFICATE")
            ELSE Goto(tls_next_message(read), "verify_client_certificate"))

do_verify_client_certificate(h, r) ==
    IF h.peer_cert
    THEN VerifyCertificate(h, r, "client", "read_client_key_exchange")
    ELSE Goto(h, "read_client_key_exchange")

(* The RSA decryption may be slow. *)
do_read_client_key_exchange(h, r) ==
    Expecting(h, "client_key_exchange", LAMBDA g :
        IF config.kx = "rsa" /\ r = "retry"
        THEN Retried(g, "private_key_operation")
        ELSE Goto(tls_next_message(tls1_generate_master_secret(
                      ssl_hash_message(g))), "read_client_certificate_verify"))

do_read_client_certificate_verify(h) ==
    IF ~h.peer_cert THEN Goto(FreeBuffer(h), "read_change_cipher_spec")
    ELSE Expecting(h, "certificate_verify", LAMBDA g :
             IF msg(g).mac # TranscriptBuffer(g)
             THEN FailedWithAlert(g, "BAD_SIGNATURE")
             ELSE Goto(tls_next_message(ssl_hash_message(FreeBuffer(g))),
                       "read_change_cipher_spec"))

do_read_change_cipher_spec(h) ==
    Wait(h, "process_change_cipher_spec_12", "read_change_cipher_spec")

do_process_change_cipher_spec_12(h) ==
    Goto(tls_set_read_state(h, KeyBlock(h, "client")), "read_next_proto")

do_read_next_proto(h) ==
    IF ~config.npn THEN Goto(h, "read_channel_id")
    ELSE Expecting(h, "next_proto", LAMBDA g :
             Goto(tls_next_message(ssl_hash_message(g)), "read_channel_id"))

do_read_channel_id(h) ==
    IF ~h.channel_id THEN Goto(h, "read_client_finished")
    ELSE Expecting(h, "channel_id", LAMBDA g :
             IF msg(g).mac # g.transcript
             THEN FailedWithAlert(g, "CHANNEL_ID_SIGNATURE_INVALID")
             ELSE Goto(tls_next_message(ssl_hash_message(g)),
                       "read_client_finished"))

do_read_client_finished(h) ==
    ssl_get_finished(h, IF h.reused THEN "finish_server_handshake"
                        ELSE "send_server_finished")

(* ssl_encrypt_ticket may leave the ticket empty. *)
do_send_server_finished(h) ==
    LET ticketed == IF h.ticket_expected
                    THEN tls_add_message(h, Message("new_session_ticket",
                             IF config.empty_ticket THEN {} ELSE {"ticket"},
                             <<>>))
                    ELSE h
        keyed == tls_set_write_state(tls_add_change_cipher_spec(ticketed),
                                     KeyBlock(h, "server"))
    IN  Wait(ssl_send_finished(keyed),
             IF h.reused THEN "read_change_cipher_spec"
             ELSE "finish_server_handshake", "flush")

ServerStates12 ==
    {"select_parameters", "send_server_hello", "send_server_certificate",
     "send_server_key_exchange", "send_server_hello_done",
     "read_client_certificate", "verify_client_certificate",
     "read_client_key_exchange", "read_client_certificate_verify",
     "read_change_cipher_spec", "process_change_cipher_spec_12",
     "read_next_proto", "read_channel_id", "read_client_finished",
     "send_server_finished"}

ssl_server_handshake_12(h, r) ==
    CASE h.state = "select_parameters" -> do_select_parameters(h, r)
      [] h.state = "send_server_hello" -> do_send_server_hello(h)
      [] h.state = "send_server_certificate" -> do_send_server_certificate(h)
      [] h.state = "send_server_key_exchange"
           -> do_send_server_key_exchange(h, r)
      [] h.state = "send_server_hello_done" -> do_send_server_hello_done(h)
      [] h.state = "read_client_certificate" -> do_read_client_certificate(h)
      [] h.state = "verify_client_certificate"
           -> do_verify_client_certificate(h, r)
      [] h.state = "read_client_key_exchange"
           -> do_read_client_key_exchange(h, r)
      [] h.state = "read_client_certificate_verify"
           -> do_read_client_certificate_verify(h)
      [] h.state = "read_change_cipher_spec" -> do_read_change_cipher_spec(h)
      [] h.state = "process_change_cipher_spec_12"
           -> do_process_change_cipher_spec_12(h)
      [] h.state = "read_next_proto" -> do_read_next_proto(h)
      [] h.state = "read_channel_id" -> do_read_channel_id(h)
      [] h.state = "read_client_finished" -> do_read_client_finished(h)
      [] h.state = "send_server_finished" -> do_send_server_finished(h)

(* The states whose callback may ask to be called again *)
RetryStates12 ==
    {"verify_server_certificate", "reverify_server_certificate",
     "send_client_certificate", "send_client_certificate_verify",
     "select_parameters", "send_server_key_exchange",
     "verify_client_certificate", "read_client_key_exchange"}

=============================================================================
