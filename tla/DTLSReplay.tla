----------------------------- MODULE DTLSReplay -----------------------------
(***************************************************************************)
(* Record numbers and replay protection inside one DTLS 1.3 epoch          *)
(* (ssl/dtls_record.cc).                                                   *)
(*                                                                         *)
(* The sender numbers its records in dtls_seal_record and puts only the    *)
(* low bits of the number on the wire.  The network may lose, duplicate    *)
(* and reorder: any record sealed so far may reach dtls_open_record at any *)
(* time and any number of times.  The receiver guesses the full number     *)
(* with reconstruct_seqnum, asks the sliding window ShouldDiscard, opens   *)
(* the AEAD, and only then Records the number.                             *)
(*                                                                         *)
(* Ciphers are abstract: the AEAD opens exactly when the reconstructed     *)
(* number is the one the record was sealed under, because the number is    *)
(* the nonce.                                                              *)
(***************************************************************************)
EXTENDS DTLSParameters

VARIABLES
    next_record,    \* sender: sequence of DTLSWriteEpoch::next_record
    max_seq_num,    \* receiver: DTLSReplayBitmap::max_seq_num_
    map,            \* receiver: indices of the bits set in map_
    delivered,      \* how often each number was returned to the caller
    out             \* number and verdict of the last dtls_open_record

ReplayVars == <<next_record, max_seq_num, map, delivered, out>>

Numbers == 0 .. kMaxSequence

-----------------------------------------------------------------------------
\* Mutant: the tie between two candidates goes to the lower one.
ReconstructSeqnum_Tie(wire_seq, max_valid) ==
    LET diff   == (wire_seq - (max_valid + 1)) % Step
        seqnum == max_valid + 1 + diff
    IN  IF seqnum > kMaxSequence \/ (diff >= Step \div 2 /\ seqnum >= Step)
          THEN seqnum - Step
          ELSE seqnum

\* reconstruct_seqnum: the candidate closest to max_valid + 1.
ReconstructSeqnum(wire_seq, max_valid) ==
    LET diff   == (wire_seq - (max_valid + 1)) % Step
        seqnum == max_valid + 1 + diff
        too_large       == seqnum > kMaxSequence
        closer_is_less  == diff > Step \div 2
        would_underflow == seqnum < Step
    IN  IF too_large \/ (closer_is_less /\ ~would_underflow)
          THEN seqnum - Step
          ELSE seqnum

\* DTLSReplayBitmap::ShouldDiscard.
ShouldDiscard(seq_num) ==
    /\ seq_num <= max_seq_num
    /\ \/ max_seq_num - seq_num >= kWindowSize
       \/ (max_seq_num - seq_num) \in map

\* Mutant: the window is not shifted when the maximum moves.
ShiftedMap_Unshifted(shift) == map

\* map_ <<= shift, or reset() when everything is shifted out.
ShiftedMap(shift) ==
    {i \in 0 .. (kWindowSize - 1) : i >= shift /\ (i - shift) \in map}

\* DTLSReplayBitmap::Record.
Record(seq_num) ==
    LET max == IF seq_num > max_seq_num THEN seq_num ELSE max_seq_num
        idx == max - seq_num
    IN  /\ max_seq_num' = max
        /\ map' = ShiftedMap(max - max_seq_num)
                    \cup (IF idx < kWindowSize THEN {idx} ELSE {})

-----------------------------------------------------------------------------
ReplayInit ==
    /\ next_record = 0
    /\ max_seq_num = 0
    /\ map = {}
    /\ delivered = [n \in Numbers |-> 0]
    /\ out = [number |-> 0, ret |-> "none"]

\* dtls_seal_record: fails with ERR_R_OVERFLOW, changing nothing, once the
\* number has no successor.
dtls_seal_record ==
    /\ next_record < kMaxSequence
    /\ next_record' = next_record + 1
    /\ UNCHANGED <<max_seq_num, map, delivered, out>>

\* The record sealed under n arrives; full is what the receiver takes its
\* number to be.
dtls_open_record(n) ==
    LET full == ReconstructSeqnum(n % Step, max_seq_num) IN
    IF ShouldDiscard(full) \/ full # n
      THEN /\ out' = [number |-> n, ret |-> "discard"]
           /\ UNCHANGED <<next_record, max_seq_num, map, delivered>>
      ELSE /\ Record(full)
           /\ delivered' = [delivered EXCEPT ![n] = @ + 1]
           /\ out' = [number |-> n, ret |-> "success"]
           /\ UNCHANGED next_record

ReplayNext ==
    \/ dtls_seal_record
    \/ \E n \in 0 .. (next_record - 1) : dtls_open_record(n)

ReplaySpec == ReplayInit /\ [][ReplayNext]_ReplayVars

-----------------------------------------------------------------------------
\* The types; the sender's number never passes the limit of dtls_seal_record.
ReplayTypeOK ==
    /\ next_record \in Numbers
    /\ max_seq_num \in Numbers
    /\ map \subseteq 0 .. (kWindowSize - 1)
    /\ delivered \in [Numbers -> Nat]
    /\ out \in [number : Numbers, ret : {"none", "success", "discard"}]

\* The receiver never returns the same record twice, whatever the network
\* duplicates, however far the window has slid (the purpose of
\* DTLSReplayBitmap).
NoReplay == \A n \in Numbers : delivered[n] <= 1

\* A record is dropped only for a reason: it was delivered already, it fell
\* out of the window, or it is more than half a step ahead.  Reconstruction
\* from the truncated number never costs a record that is in reach.
DiscardJustified ==
    out.ret = "discard" =>
        \/ delivered[out.number] > 0
        \/ max_seq_num - out.number >= kWindowSize
        \/ out.number > max_seq_num + 1 + Step \div 2

\* The window says about every number in reach exactly whether it was
\* delivered, and nothing above the maximum was: NoReplay's inductive core.
WindowExact ==
    /\ \A n \in Numbers : n > max_seq_num => delivered[n] = 0
    /\ \A n \in Numbers :
         (n <= max_seq_num /\ max_seq_num - n < kWindowSize) =>
             ((max_seq_num - n) \in map <=> delivered[n] > 0)
=============================================================================
