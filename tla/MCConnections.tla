--------------------------- MODULE MCConnections ----------------------------
(***************************************************************************)
(* The safety of the two kinds of connection, for TLC: a behaviour chooses *)
(* one of them, the kind, and takes its steps; the other stays as it       *)
(* starts, where its properties hold.                                      *)
(***************************************************************************)
EXTENDS MCDTLSConnection, StreamScenarios

CONSTANTS
    Capacity, max_send_fragment,
    kMaxEmptyRecords, kMaxWarningAlerts, kMaxKeyUpdates, PartialWrite, Limits

VARIABLES
    kind,
    s3, call, accepted, got, ended, open, updates, others, limit

TLS == INSTANCE TLSStream

StreamVars == <<s3, call, accepted, got, ended, open, updates, others, limit>>

ConnectionsInit ==
    /\ TLS!Init
    /\ \/ kind = "dtls" /\ ScenarioInit /\ limit = CHOOSE l \in Limits : TRUE
       \/ kind = "tls" /\ FinishedInit

ConnectionsNext ==
    \/ kind = "dtls" /\ Next /\ UNCHANGED <<kind, StreamVars>>
    \/ kind = "tls" /\ TLS!Next /\ UNCHANGED <<kind, vars>>

ConnectionsSpec ==
    ConnectionsInit /\ [][ConnectionsNext]_<<kind, vars, StreamVars>>

-----------------------------------------------------------------------------
\* TLSStream: however writes are cut short and repeated, each byte sealed is
\* reported to the application once.
WritesAccounted == kind = "tls" => TLS!TypeOK /\ TLS!WritesAccounted

\* TLSStream: each end can open whatever the other one sends, and gives up
\* only for a reason.
FailureJustified == kind = "tls" => TLS!FailureJustified

\* TLSStream: a closing alert is the last record an end sends.
AlertIsLast == kind = "tls" => TLS!AlertIsLast

\* TLSStream: the connection implements a stream in each direction.
StreamPromise ==
    /\ TLS!Promise!Init
    /\ [][kind = "tls" => [TLS!Promise!Next]_(TLS!Promise!vars)]_StreamVars
=============================================================================
