--------------------------- MODULE DTLSParameters ---------------------------
(***************************************************************************)
(* The sizes and limits of the DTLS receive path, for DTLSReplay,          *)
(* DTLSMessageBitmap and DTLSReassembly.                                   *)
(***************************************************************************)
EXTENDS Integers

CONSTANTS
    kWindowSize,    \* bits of DTLSReplayBitmap::map_, 256 in the code
    kMaxSequence,   \* DTLSRecordNumber::kMaxSequence, 2^48 - 1 in the code
    Step,           \* seq_mask + 1; 2^16 for every record this code seals
    BitsPerByte,    \* bits to a byte of DTLSMessageBitmap, 8 in the code
    MaxMessageBits,        \* the longest message of DTLSMessageBitmap
    SSL_MAX_HANDSHAKE_FLIGHT,  \* size of the ring of messages, 7 in the code
    MaxSeq,                    \* largest message number, 2^16 - 1 in the code
    MaxLen,                    \* longest message of DTLSReassembly
    Types, Values,             \* message types and byte values
    Uninit                     \* what a freshly allocated buffer holds

\* The window fits in half a step (256 < 2^15), so a number inside it is
\* always the closest candidate.
ASSUME ReplayAssumption ==
    /\ kWindowSize \in Nat \ {0}
    /\ kMaxSequence \in Nat
    /\ Step \in Nat \ {0}
    /\ kWindowSize < Step \div 2

ASSUME BitmapAssumption == BitsPerByte \in Nat \ {0} /\ MaxMessageBits \in Nat

ASSUME ReassemblyAssumption ==
    /\ SSL_MAX_HANDSHAKE_FLIGHT \in Nat \ {0} /\ MaxSeq \in Nat
    /\ MaxLen \in Nat /\ Uninit \notin Values
=============================================================================
