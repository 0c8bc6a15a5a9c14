-------------------------- MODULE TLSHandshakeBase --------------------------
(***************************************************************************)
(* What the TLS 1.2 and the TLS 1.3 handshake share: the state of the two  *)
(* ends of a connection over a reliable, bounded transport, the record and *)
(* message layers as the handshake uses them (ssl/s3_both.cc,              *)
(* ssl/tls_method.cc, ssl/tls_record.cc), and the loop of                  *)
(* ssl_run_handshake (ssl/handshake.cc) that resolves what a state machine *)
(* waits for.                                                              *)
(*                                                                         *)
(* A message is its type, the set of the extensions and choices it         *)
(* carries, and the hash of the transcript that it signs or MACs.  A key   *)
(* is the level it protects, the end that seals with it, whether a PSK     *)
(* went into it and the transcript it was derived from, so that two ends   *)
(* hold the same key exactly when they saw the same messages.              *)
(*                                                                         *)
(* The transport moves cells.  A record is two of them, its header and its *)
(* body, so that writes and reads may stop inside a record, and a          *)
(* transport of one cell holds no record at all.                           *)
(***************************************************************************)
EXTENDS Naturals, Sequences, SequencesExt, FiniteSets

CONSTANTS
    Configs,      \* the configurations of the two ends (see Config)
    kMaxRetries,  \* bound: times an end's callbacks ask to be called again
    MaxEarlyData, \* ticket_max_early_data and kMaxEarlyDataAccepted, in bytes
    kMaxEarlyDataSkipped  \* what a server skips, in the size of records

ASSUME BaseAssumption ==
    /\ kMaxRetries \in Nat
    /\ MaxEarlyData \in Nat
    /\ kMaxEarlyDataSkipped \in Nat

VARIABLES
    config,  \* how the two ends are configured
    s,       \* s[e]: SSL, SSL3_STATE and SSL_HANDSHAKE of end e
    wire,    \* wire[e]: the cells e has written and its peer has not read
    app      \* app[e]: what the application of e wrote and read

vars == <<config, s, wire, app>>

Ends == {"client", "server"}
Peer(e) == IF e = "client" THEN "server" ELSE "client"

-----------------------------------------------------------------------------
(***************************************************************************)
(* Keys, records and messages                                              *)
(***************************************************************************)
NullKey == [level |-> "initial", from |-> "none", psk |-> FALSE, hash |-> <<>>]

Message(type, ext, mac) == [type |-> type, ext |-> ext, mac |-> mac]

(* What a message adds to the transcript hash *)
Hashed(m) == <<m.type, m.ext>>

(* do_seal_record: seal with the current write key and sequence number *)
do_seal_record(h, type, body) ==
    [key |-> h.key_w, seq |-> h.seq_w, type |-> type, body |-> body]

(* The body cell stands for the record; its header is like any other. *)
Header == [key |-> NullKey, seq |-> 0, type |-> "header", body |-> <<>>]
Cells(r) == <<Header, r>>

add_record_to_flight(h, type, body) ==
    [h EXCEPT !.flight = @ \o Cells(do_seal_record(h, type, body)),
              !.seq_w = @ + 1]

tls_flush_pending_hs_data(h) ==
    IF h.pending = <<>> THEN h
    ELSE add_record_to_flight([h EXCEPT !.pending = <<>>], "handshake",
                              h.pending)

(* The null cipher is not packed; every message enters the transcript. *)
tls_add_message(h, m) ==
    LET added == IF h.key_w = NullKey
                 THEN add_record_to_flight(h, "handshake", <<m>>)
                 ELSE [h EXCEPT !.pending = Append(@, m)]
    IN  [added EXCEPT !.transcript = Append(@, Hashed(m))]

tls_add_change_cipher_spec(h) ==
    add_record_to_flight(tls_flush_pending_hs_data(h), "ccs", <<>>)

(* Mutant: what is pending is sealed with the new key. *)
tls_set_write_state_NoFlush(h, key) == [h EXCEPT !.key_w = key, !.seq_w = 0]

tls_set_write_state(h, key) ==
    [tls_flush_pending_hs_data(h) EXCEPT !.key_w = key, !.seq_w = 0]

(* tls_get_message; the message is the head of hs_buf *)
get_message(h) == h.hs_buf # <<>>
msg(h) == Head(h.hs_buf)

tls_next_message(h) ==
    [h EXCEPT !.hs_buf = Tail(@), !.has_message = FALSE]

tls_has_unprocessed_handshake_data(h) ==
    Len(h.hs_buf) > (IF h.has_message THEN 1 ELSE 0)

ssl_hash_message(h) ==
    [h EXCEPT !.transcript = Append(@, Hashed(msg(h)))]

(***************************************************************************)
(* The handshake fails: wait becomes ssl_hs_error for good.  The alert,    *)
(* when there is one, goes through do_tls_write, which puts the queued     *)
(* flight before it; while the write buffer holds something it stays       *)
(* unsent.                                                                 *)
(***************************************************************************)
ssl_send_alert(h) ==
    IF h.wbuf # <<>> THEN h
    ELSE LET q == add_record_to_flight(tls_flush_pending_hs_data(h), "alert",
                                       <<>>)
         IN  [q EXCEPT !.wbuf = q.flight, !.flight = <<>>]

Failed(h, why) == [h EXCEPT !.wait = "error", !.error = why]
FailedWithAlert(h, why) == Failed(ssl_send_alert(h), why)

(* Cipher changes are forbidden if the epoch has leftover data. *)
tls_set_read_state(h, key) ==
    IF tls_has_unprocessed_handshake_data(h)
    THEN FailedWithAlert(h, "EXCESS_HANDSHAKE_DATA")
    ELSE [h EXCEPT !.key_r = key, !.seq_r = 0]

(* The transport takes what it has room for, part of a record included. *)
Room(w) == config.capacity - Len(w)
Taken(q, w) == IF Len(q) <= Room(w) THEN Len(q) ELSE Room(w)
Rest(q, w) == SubSeq(q, Taken(q, w) + 1, Len(q))
Sent(q, w) == w \o SubSeq(q, 1, Taken(q, w))

-----------------------------------------------------------------------------
(***************************************************************************)
(* tls_open_record on a record that has arrived: what it returns.          *)
(* While rejected early data is skipped, an unprotected reader skips the   *)
(* protected records and a protected one the records that do not open; the *)
(* sequence number does not move.                                          *)
(***************************************************************************)
Opens(h, r) == h.key_r = r.key /\ (r.key = NullKey \/ h.seq_r = r.seq)

RecordSize(r) == 1 + Len(r.body)

skip_early_data(h, r) ==
    [h EXCEPT !.early_skipped = @ + RecordSize(r)]

tls_open_record(h, r) ==
    CASE h.version = 13 /\ ~h.early_version /\ ~h.done /\ r.type = "ccs"
           -> "discard"
      [] /\ h.skip_early
         /\ IF h.key_r = NullKey THEN r.key # NullKey ELSE ~Opens(h, r)
           -> IF skip_early_data(h, r).early_skipped > kMaxEarlyDataSkipped
              THEN "too_much_skipped" ELSE "skip"
      [] ~Opens(h, r) -> "error"
      [] r.type = "alert" -> "alert"
      [] r.type # "handshake" /\ tls_has_unprocessed_handshake_data(h)
           -> "error"
      [] OTHER -> "success"

(* The reader after a record that opened *)
Received(h) == [h EXCEPT !.skip_early = FALSE, !.seq_r = @ + 1]

-----------------------------------------------------------------------------
(***************************************************************************)
(* What the states of both state machines do: move to a state, wait for    *)
(* something, read the next message.                                       *)
(***************************************************************************)
Goto(h, st) == [h EXCEPT !.state = st]
Wait(h, st, w) == [h EXCEPT !.state = st, !.wait = w]

(* A callback asked to be called again. *)
Retried(h, w) == [h EXCEPT !.wait = w, !.retries = @ + 1]

(* get_message, or wait for more *)
Reading(h, Handle(_)) ==
    IF get_message(h) THEN Handle([h EXCEPT !.has_message = TRUE])
    ELSE [h EXCEPT !.wait = "read_message"]

ssl_check_message_type(h, type, next) ==
    IF msg(h).type = type THEN next ELSE FailedWithAlert(h, "UNEXPECTED_MESSAGE")

(* Read a message that must be of one type. *)
Expecting(h, type, Handle(_)) ==
    Reading(h, LAMBDA g : ssl_check_message_type(g, type, Handle(g)))

(* The message must be the last one of its flight. *)
EndOfFlight(h, next) ==
    IF tls_has_unprocessed_handshake_data(h)
    THEN FailedWithAlert(h, "EXCESS_HANDSHAKE_DATA") ELSE next

=============================================================================
