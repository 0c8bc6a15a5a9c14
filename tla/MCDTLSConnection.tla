-------------------------- MODULE MCDTLSConnection --------------------------
(* Flights for the model-checking runs of DTLSConnection.                  *)
EXTENDS DTLSConnection

Msg(type, len) == [type |-> type, len |-> len]

ResumptionFlight  == <<Msg("SH", 1), Msg("EE", 1), Msg("FIN", 1)>>
FragmentedFlight  == <<Msg("SH", 1), Msg("EE", 3), Msg("FIN", 1)>>
CertificateFlight == <<Msg("SH", 1), Msg("EE", 1), Msg("CERT", 3),
                       Msg("FIN", 1)>>
FinishedOnly      == <<Msg("FIN", 1)>>
ClientAuthFlight  == <<Msg("CERT", 2), Msg("FIN", 1)>>

\* The connection as an undisturbed handshake with ResumptionFlight,
\* FinishedOnly and Mtu = 6 leaves it when the client has sent its Finished
\* and the server has just sent the ACK of it: the client's flight is still
\* outstanding, the server is about to send its tickets.
ClientFinished ==
    [NewEndpoint("done") EXCEPT
        !.version_final = TRUE,
        !.handshake_write_seq = 2, !.handshake_read_seq = 3,
        !.write_epoch = [epoch |-> 3, next |-> 0],
        !.extra_write_epochs = {[epoch |-> 2, next |-> 1]},
        !.prev_read_epoch = [epoch |-> 0, seen |-> {0}],
        !.read_epoch = [epoch |-> 2, seen |-> {0, 1}],
        !.next_read_epoch = [epoch |-> 3, seen |-> {}],
        !.outgoing_messages = <<[seq |-> 1, type |-> "FIN", len |-> 1,
                                 epoch |-> 2, acked |-> {}]>>,
        !.outgoing_messages_complete = TRUE,
        !.sent_records = <<[number |-> [epoch |-> 2, num |-> 0],
                            first_msg |-> 0, first_msg_start |-> 0,
                            last_msg |-> 1, last_msg_end |-> 0]>>,
        !.retransmit_timer = TRUE]

ServerFinished ==
    [NewEndpoint("flush ack") EXCEPT
        !.version_final = TRUE,
        !.handshake_write_seq = 3, !.handshake_read_seq = 2,
        !.write_epoch = [epoch |-> 3, next |-> 1],
        !.prev_read_epoch = [epoch |-> 0, seen |-> {0}],
        !.read_epoch = [epoch |-> 2, seen |-> {0}],
        !.next_read_epoch = [epoch |-> 3, seen |-> {}],
        !.records_to_ack = <<[epoch |-> 2, num |-> 0]>>]

FinishedAck == [epoch |-> 3, num |-> 0, type |-> "ack", frags |-> <<>>,
                acks |-> <<[epoch |-> 2, num |-> 0]>>]

Finished ==
    /\ ssl = [p \in Endpoints |-> IF p = Client THEN ClientFinished
                                                ELSE ServerFinished]
    /\ net = {[to |-> Client, recs |-> <<FinishedAck>>]}

FinishedInit == Finished /\ used = NothingUsed
FinishedSpec == FinishedInit /\ [][Next]_vars

\* What a scenario does without.  All at once is too large.
NoData(u)    == [u EXCEPT !.app = [p \in Endpoints |-> MaxAppData]]
NoUpdate(u)  == [u EXCEPT !.update = [p \in Endpoints |-> MaxKeyUpdates]]
OneUpdate(u) == [u EXCEPT !.update = [p \in Endpoints |-> 1]]
NoLoss(u)    == [u EXCEPT !.loss = MaxLoss]
NoDup(u)     == [u EXCEPT !.dup = MaxDup]
NoExpiry(u)  == [u EXCEPT !.expiry = MaxExpiry]
NoTicket(u)  == [u EXCEPT !.tickets = NumTickets]
NoBioFailure == [NothingUsed EXCEPT !.bio = MaxBioFailures]
OnTime       == [NothingUsed EXCEPT !.early = MaxEarlyTimeouts]
Reliable     == NoLoss(NoDup(NoExpiry(OnTime)))

\* A server that sends no tickets is done with its handshake.
NoTickets ==
    /\ ssl = [p \in Endpoints |->
                IF p = Client THEN ClientFinished
                              ELSE [ServerFinished EXCEPT !.hs = "done"]]
    /\ net = {[to |-> Client, recs |-> <<FinishedAck>>]}

Started ==
    /\ ssl = [p \in Endpoints |-> NewEndpoint(IF p = Client THEN "start"
                                                          ELSE "CH")]
    /\ net = {}

\* A handshake over a network that loses a packet, with a timer that fires
\* early; with a ticket, one key update of each endpoint over a network that
\* loses a packet, or of one endpoint over one that duplicates a packet;
\* without a ticket and over a network that does neither, two key updates of
\* one endpoint and one of the other, or one and data of both.
ScenarioInit ==
    \/ Started /\ used = NoUpdate(NoData(NoTicket(NoDup(NoExpiry(NothingUsed)))))
    \/ Finished /\ used = OneUpdate(NoData(NoDup(OnTime)))
    \/ Finished /\ \E p \in Endpoints :
         used = [NoUpdate(NoData(NoLoss(OnTime))) EXCEPT !.update[p] = 1]
    \/ NoTickets /\ \E p \in Endpoints :
         used \in {[NoData(Reliable) EXCEPT !.update[p] = 1],
                  [NoUpdate(Reliable) EXCEPT !.update[p] = 1]}

ScenarioSpec == ScenarioInit /\ [][Next]_vars

\* The start of a handshake that no key update follows, or its end with no
\* failure of the transport to come; or, without a ticket, data and a key
\* update of one endpoint while the other may drop an old epoch.
EitherInit ==
    \/ Finished /\ used = NoData(NoExpiry(NoBioFailure))
    \/ Started /\ used = NoUpdate(NoData(NoExpiry(NothingUsed)))
    \/ NoTickets /\ \E p \in Endpoints :
         used = [NoUpdate(NoData(NoBioFailure)) EXCEPT !.update[p] = 0,
                                                       !.app[p] = 0]

FairEitherSpec == EitherInit /\ [][Next]_vars /\ Fairness
=============================================================================
