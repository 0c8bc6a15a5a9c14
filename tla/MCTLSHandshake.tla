--------------------------- MODULE MCTLSHandshake ---------------------------
(***************************************************************************)
(* Instances of TLSHandshake.  Each configuration changes a few choices of *)
(* a plain one, so that every branch of both state machines is taken by    *)
(* some configuration; the choices that interact are varied together.      *)
(***************************************************************************)
EXTENDS TLSHandshake

(* A full TLS 1.3 handshake with nothing optional *)
Plain13 ==
    [cmax |-> 13, smax |-> 13, session |-> "none", resumes |-> FALSE,
     early |-> FALSE, server_early |-> FALSE, share |-> TRUE,
     reverify |-> FALSE, alps |-> FALSE, channel_id |-> FALSE, npn |-> FALSE,
     ocsp |-> FALSE, verify |-> "none", if_no_obc |-> FALSE,
     credential |-> FALSE, invalid |-> {}, num_tickets |-> 1,
     kx |-> "ecdhe", psk_hint |-> FALSE, tickets |-> FALSE, renew |-> FALSE,
     empty_ticket |-> FALSE, session_has_hashes |-> TRUE,
     false_start |-> FALSE, capacity |-> 8]

(* The server's verify_mode, the client's credential, whose certificate is *)
(* rejected                                                                *)
Certificates ==
    {<<"none", FALSE, {}>>, <<"request", FALSE, {}>>, <<"require", FALSE, {}>>,
     <<"require", TRUE, {}>>, <<"require", TRUE, {"client"}>>,
     <<"none", FALSE, {"server"}>>}

With(c, cert) ==
    [c EXCEPT !.verify = cert[1], !.credential = cert[2], !.invalid = cert[3]]

(* Full TLS 1.3 handshakes: retry, client certificates, ALPS, Channel ID *)
Full13 ==
    {With([Plain13 EXCEPT !.share = sh, !.channel_id = x, !.alps = x,
                          !.if_no_obc = x], cert) :
        sh \in BOOLEAN, x \in BOOLEAN, cert \in Certificates}

(* Resumption, and early data accepted and rejected in each way *)
Psk13 == [Plain13 EXCEPT !.session = "psk", !.num_tickets = 2]

Resumed13 ==
    {[Psk13 EXCEPT !.resumes = res, !.early = TRUE, !.server_early = se,
                   !.share = sh, !.alps = res] :
        res \in BOOLEAN, se \in BOOLEAN, sh \in BOOLEAN}
    \cup {[Psk13 EXCEPT !.resumes = TRUE, !.reverify = TRUE, !.early = e,
                        !.server_early = TRUE, !.invalid = bad] :
             e \in BOOLEAN, bad \in {{}, {"server"}}}
    \cup {[Psk13 EXCEPT !.resumes = TRUE, !.reverify = TRUE, !.early = TRUE],
          [Psk13 EXCEPT !.resumes = TRUE, !.early = TRUE, !.server_early = TRUE,
                        !.channel_id = TRUE],
          [Psk13 EXCEPT !.early = TRUE, !.smax = 12],
          [Psk13 EXCEPT !.smax = 12]}

(* Full TLS 1.2 handshakes *)
Full12 ==
    {With([Plain13 EXCEPT !.smax = 12, !.kx = k, !.channel_id = x, !.npn = x,
                          !.ocsp = x, !.tickets = t, !.empty_ticket = x,
                          !.false_start = t], cert) :
        k \in {"ecdhe", "rsa"}, x \in BOOLEAN, t \in BOOLEAN,
        cert \in Certificates}
    \cup {[Plain13 EXCEPT !.cmax = 12, !.kx = k, !.psk_hint = x,
                          !.channel_id = x, !.tickets = t, !.verify = "require"] :
             k \in {"psk", "ecdhe_psk"}, x \in BOOLEAN, t \in BOOLEAN}

(* TLS 1.2 resumption, by session ID and by ticket *)
Resumed12 ==
    {[Plain13 EXCEPT !.cmax = 12, !.session = x, !.resumes = res, !.kx = k,
                     !.channel_id = id, !.session_has_hashes = has,
                     !.tickets = has, !.renew = has, !.npn = has] :
        x \in {"id", "ticket"}, res \in BOOLEAN, k \in {"ecdhe", "psk"},
        id \in BOOLEAN, has \in BOOLEAN}
    \cup {[Plain13 EXCEPT !.cmax = 12, !.session = "id", !.resumes = TRUE,
                          !.reverify = TRUE, !.invalid = bad] :
             bad \in {{}, {"server"}}}

(* Transports that hold less than a record and one record, and two where
   early data makes an end run ahead *)
MCConfigs ==
    {[c EXCEPT !.capacity = n] :
        c \in Full13 \cup Resumed13 \cup Full12 \cup Resumed12, n \in {1, 2}}
    \cup {[c EXCEPT !.capacity = 4] : c \in Resumed13}

(* Early data that the server rejects *)
MCRejectConfigs == {[Psk13 EXCEPT !.early = TRUE]}

(* A server that asks for a certificate unless the client has a Channel ID *)
MCChannelIDConfigs ==
    {[Plain13 EXCEPT !.smax = 12, !.kx = k, !.verify = "request",
                     !.credential = TRUE, !.if_no_obc = TRUE,
                     !.channel_id = x] :
        k \in {"ecdhe", "rsa"}, x \in BOOLEAN}

=============================================================================
