--------------------------- MODULE DTLSReassembly ---------------------------
(***************************************************************************)
(* The ring of incoming handshake messages (ssl/d1_both.cc): fragments of  *)
(* any message arrive in any order, overlap and contradict each other;     *)
(* the handshake takes the messages one by one, in sequence.               *)
(*                                                                         *)
(* A fragment is [seq, type, msg_len, body] with body a function from the  *)
(* positions it covers to values.  The received bitmap is the set          *)
(* reassembly (DTLSMessageBitmap checks the packed form of it).            *)
(***************************************************************************)
EXTENDS DTLSParameters

N == SSL_MAX_HANDSHAKE_FLIGHT

VARIABLES
    handshake_read_seq,       \* next message to process, a uint16_t
    handshake_read_overflow,  \* it wrapped around
    incoming_messages,        \* the ring
    has_message,              \* the current message was handed out
    alert                     \* the fatal alert sent, if any

ReassemblyVars == <<handshake_read_seq, handshake_read_overflow, incoming_messages,
          has_message, alert>>

\* Every fragment dtls1_parse_fragment and the bounds check let through:
\* the body covers frag_off .. frag_off + frag_len - 1 inside the message.
Bodies(len) == UNION {[o .. (e - 1) -> Values] : o, e \in 0 .. len}

Fragments ==
    UNION {[seq : 0 .. MaxSeq, type : Types, msg_len : {len},
            body : Bodies(len)] : len \in 0 .. MaxLen}

NULL == [seq |-> -1]

Message(seq, type, data, reassembly) ==
    [seq |-> seq, type |-> type, data |-> data, reassembly |-> reassembly]

\* dtls_new_incoming_message: uninitialised body, empty bitmap.
dtls_new_incoming_message(f) ==
    Message(f.seq, f.type, [i \in 0 .. (f.msg_len - 1) |-> Uninit], {})

IsComplete(m) == m.reassembly = DOMAIN m.data

Current == handshake_read_seq % N

dtls1_is_current_message_complete ==
    /\ incoming_messages[Current] # NULL
    /\ IsComplete(incoming_messages[Current])

ReassemblyInit ==
    /\ handshake_read_seq = 0 /\ handshake_read_overflow = FALSE
    /\ incoming_messages = [i \in 0 .. (N - 1) |-> NULL]
    /\ has_message = FALSE
    /\ alert = "none"

-----------------------------------------------------------------------------
Fail(why) ==
    /\ alert' = why
    /\ UNCHANGED <<handshake_read_seq, handshake_read_overflow,
                   incoming_messages, has_message>>

\* A fragment from the past, or after the last message number.
IgnorePast(f) ==
    /\ f.seq < handshake_read_seq \/ handshake_read_overflow
    /\ UNCHANGED ReassemblyVars

\* Ignore fragments too far in the future.
IgnoreFuture(f) ==
    /\ f.seq >= handshake_read_seq /\ ~handshake_read_overflow
    /\ f.seq - handshake_read_seq > N
    /\ UNCHANGED ReassemblyVars

InRing(f) ==
    /\ f.seq >= handshake_read_seq /\ ~handshake_read_overflow
    /\ f.seq - handshake_read_seq <= N

\* dtls1_get_incoming_message refuses a number outside the ring ...
OutsideRing(f) ==
    /\ InRing(f) /\ f.seq - handshake_read_seq >= N
    /\ Fail("internal_error")

\* ... and a fragment that contradicts an earlier one.
FragmentMismatch(f) ==
    LET m == incoming_messages[f.seq % N] IN
    /\ InRing(f) /\ f.seq - handshake_read_seq < N
    /\ m # NULL
    /\ m.type # f.type \/ DOMAIN m.data # 0 .. (f.msg_len - 1)
    /\ Fail("illegal_parameter")

\* Mutant: the body of a complete message is overwritten.
StoreFragment_Rewrite(m, f) ==
    Message(m.seq, m.type,
            [i \in DOMAIN m.data |-> IF i \in DOMAIN f.body THEN f.body[i]
                                                            ELSE m.data[i]],
            m.reassembly \cup DOMAIN f.body)

\* Mutant: one more byte is marked than was copied.
StoreFragment_MarkMore(m, f) ==
    IF IsComplete(m)
      THEN m
      ELSE Message(m.seq, m.type,
             [i \in DOMAIN m.data |-> IF i \in DOMAIN f.body THEN f.body[i]
                                                             ELSE m.data[i]],
             m.reassembly \cup
                 (DOMAIN m.data \cap UNION {{j, j + 1} : j \in DOMAIN f.body}))

\* The body is copied into a message that is not yet complete.
StoreFragment(m, f) ==
    IF IsComplete(m)
      THEN m
      ELSE Message(m.seq, m.type,
             [i \in DOMAIN m.data |-> IF i \in DOMAIN f.body THEN f.body[i]
                                                             ELSE m.data[i]],
             m.reassembly \cup DOMAIN f.body)

\* The rest of the loop body of dtls1_process_handshake_fragments.
ProcessFragment(f) ==
    LET idx == f.seq % N
        m   == incoming_messages[idx]
        x   == IF m = NULL THEN dtls_new_incoming_message(f) ELSE m
    IN  /\ InRing(f) /\ f.seq - handshake_read_seq < N
        /\ m # NULL => m.type = f.type /\ DOMAIN m.data = 0 .. (f.msg_len - 1)
        /\ incoming_messages' = [incoming_messages EXCEPT
                                    ![idx] = StoreFragment(x, f)]
        /\ UNCHANGED <<handshake_read_seq, handshake_read_overflow,
                       has_message, alert>>

dtls1_get_message ==
    /\ dtls1_is_current_message_complete
    /\ has_message' = TRUE
    /\ UNCHANGED <<handshake_read_seq, handshake_read_overflow,
                   incoming_messages, alert>>

dtls1_next_message ==
    /\ has_message
    /\ incoming_messages' = [incoming_messages EXCEPT ![Current] = NULL]
    /\ handshake_read_seq' = (handshake_read_seq + 1) % (MaxSeq + 1)
    /\ handshake_read_overflow' =
         (handshake_read_overflow \/ handshake_read_seq' = 0)
    /\ has_message' = FALSE
    /\ UNCHANGED alert

ReassemblyNext ==
    /\ alert = "none"
    /\ \/ \E f \in Fragments :
            \/ IgnorePast(f) \/ IgnoreFuture(f) \/ OutsideRing(f)
            \/ FragmentMismatch(f) \/ ProcessFragment(f)
       \/ dtls1_get_message
       \/ dtls1_next_message

ReassemblySpec == ReassemblyInit /\ [][ReassemblyNext]_ReassemblyVars

-----------------------------------------------------------------------------
\* A DTLSIncomingMessage of some length.
IsMessage(m) ==
    \E len \in 0 .. MaxLen :
        /\ m.seq \in 0 .. MaxSeq /\ m.type \in Types
        /\ m.data \in [0 .. (len - 1) -> Values \cup {Uninit}]
        /\ m.reassembly \subseteq 0 .. (len - 1)

\* The types of the ring and of the messages dtls1_get_incoming_message makes.
ReassemblyTypeOK ==
    /\ handshake_read_seq \in 0 .. MaxSeq
    /\ handshake_read_overflow \in BOOLEAN /\ has_message \in BOOLEAN
    /\ incoming_messages = [i \in 0 .. (N - 1) |-> incoming_messages[i]]
    /\ \A i \in 0 .. (N - 1) :
         incoming_messages[i] = NULL \/ IsMessage(incoming_messages[i])
    /\ alert \in {"none", "internal_error", "illegal_parameter"}

\* A slot holds the one message of the window that belongs there, also where
\* the message number wraps around and 2^16 is no multiple of the ring.
RingExact ==
    \A i \in 0 .. (N - 1) : incoming_messages[i] # NULL =>
        /\ ~handshake_read_overflow
        /\ incoming_messages[i].seq \in
             handshake_read_seq .. (handshake_read_seq + N - 1)
        /\ incoming_messages[i].seq % N = i

\* The assertion frag->seq == msg_hdr->seq of dtls1_get_incoming_message: a
\* number that passes the window check finds its own message or none.
SlotMatches ==
    \A seq \in handshake_read_seq .. (handshake_read_seq + N - 1) :
        incoming_messages[seq % N] # NULL =>
            incoming_messages[seq % N].seq = seq

\* No byte that was never written is handed to the handshake.
CompleteIsWritten ==
    \A i \in 0 .. (N - 1) :
        (incoming_messages[i] # NULL /\ IsComplete(incoming_messages[i])) =>
            \A b \in DOMAIN incoming_messages[i].data :
                incoming_messages[i].data[b] \in Values

\* has_message is only set over a complete current message: the assertions
\* of dtls1_next_message and dtls_has_unprocessed_handshake_data hold.
HasMessageExact == has_message => dtls1_is_current_message_complete

\* A complete message does not change until next_message releases it: the
\* spans of SSLMessage stay valid while late fragments keep coming in.
CompleteIsStable ==
    [][\A i \in 0 .. (N - 1) :
         (incoming_messages[i] # NULL /\ IsComplete(incoming_messages[i])) =>
             \/ incoming_messages'[i] = incoming_messages[i]
             \/ has_message /\ i = Current /\ incoming_messages'[i] = NULL]_ReassemblyVars

\* "Ignore fragments too far in the future." (ssl/d1_both.cc:315): a message
\* number the ring has no room for is not an error.
FutureIgnored == alert # "internal_error"
=============================================================================
