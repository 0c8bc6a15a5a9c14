-------------------------- MODULE DTLSReplayProofs --------------------------
(***************************************************************************)
(* Proofs about DTLSReplay for every window size, sequence limit and step. *)
(***************************************************************************)
EXTENDS DTLSReplay, TLAPS

\* The inductive invariant: the window is exact for the numbers in reach, and
\* no number was delivered twice.
IInv == ReplayTypeOK /\ WindowExact /\ NoReplay

LEMMA InitIInv == ReplayInit => IInv
<1> SUFFICES ASSUME ReplayInit PROVE IInv
  OBVIOUS
<1> USE ReplayAssumption DEF Numbers
<1>1. ReplayTypeOK
  BY DEF ReplayInit, ReplayTypeOK
<1>2. WindowExact /\ NoReplay
  BY DEF ReplayInit, WindowExact, NoReplay
<1> QED
  BY <1>1, <1>2 DEF IInv

\* What a successful dtls_open_record leaves behind: the new number is the
\* only one whose delivery count and window bit change.
LEMMA OpenIInv ==
  ASSUME IInv, NEW n \in 0 .. (next_record - 1), dtls_open_record(n)
  PROVE  IInv'
<1> USE ReplayAssumption DEF Numbers
<1> DEFINE full == ReconstructSeqnum(n % Step, max_seq_num)
<1>0. n \in Numbers /\ n < kMaxSequence + 1
  BY DEF IInv, ReplayTypeOK
<1>1. CASE ShouldDiscard(full) \/ full # n
  <2>1. /\ out' = [number |-> n, ret |-> "discard"]
        /\ UNCHANGED <<next_record, max_seq_num, map, delivered>>
    BY <1>1 DEF dtls_open_record
  <2> QED
    BY <1>0, <2>1, SMTT(30) DEF IInv, ReplayTypeOK, WindowExact, NoReplay
<1>2. CASE ~ShouldDiscard(full) /\ full = n
  <2> DEFINE max == IF n > max_seq_num THEN n ELSE max_seq_num
  <2>1. /\ ~ShouldDiscard(n)
        /\ Record(n)
        /\ delivered' = [delivered EXCEPT ![n] = @ + 1]
        /\ out' = [number |-> n, ret |-> "success"]
        /\ next_record' = next_record
    BY <1>2 DEF dtls_open_record
  <2>2. /\ max_seq_num' = max
        /\ map' = ShiftedMap(max - max_seq_num)
                    \cup (IF max - n < kWindowSize THEN {max - n} ELSE {})
    BY <2>1 DEF Record
  <2>3. max \in Numbers /\ max >= n /\ max >= max_seq_num
    BY <1>0 DEF IInv, ReplayTypeOK
  <2>4. ReplayTypeOK'
    <3>1. map' \subseteq 0 .. (kWindowSize - 1)
      BY <1>0, <2>2, <2>3 DEF ShiftedMap
    <3> QED
      BY <1>0, <2>1, <2>2, <2>3, <3>1 DEF IInv, ReplayTypeOK
  <2>5. delivered[n] = 0
    BY <1>0, <2>1 DEF IInv, ReplayTypeOK, WindowExact, ShouldDiscard
  <2>6. NoReplay'
    BY <1>0, <2>1, <2>5 DEF IInv, ReplayTypeOK, NoReplay
  <2>7. WindowExact'
    <3>1. ASSUME NEW m \in Numbers, m > max
          PROVE  delivered'[m] = 0
      BY <1>0, <2>1, <2>3, <3>1 DEF IInv, ReplayTypeOK, WindowExact
    <3>2. ASSUME NEW m \in Numbers, m <= max, max - m < kWindowSize
          PROVE  (max - m) \in map' <=> delivered'[m] > 0
      <4>1. CASE m = n
        <5>1. delivered'[n] = 1
          BY <1>0, <2>1, <2>5 DEF IInv, ReplayTypeOK
        <5>2. (max - n) \in map'
          BY <2>2, <3>2, <4>1
        <5> QED
          BY <4>1, <5>1, <5>2
      <4>2. CASE m # n
        <5>1. delivered'[m] = delivered[m]
          BY <1>0, <2>1, <4>2 DEF IInv, ReplayTypeOK
        <5>2. (max - m) \in map' <=> (max - m) \in ShiftedMap(max - max_seq_num)
          BY <1>0, <2>2, <2>3, <4>2
        <5>3. (max - m) \in ShiftedMap(max - max_seq_num)
                <=> (m <= max_seq_num /\ (max_seq_num - m) \in map)
          BY <2>3, <3>2 DEF ShiftedMap, IInv, ReplayTypeOK
        <5>4. CASE m <= max_seq_num
          <6>1. max_seq_num - m < kWindowSize
            BY <2>3, <3>2, <5>4 DEF IInv, ReplayTypeOK
          <6> QED
            BY <5>1, <5>2, <5>3, <5>4, <6>1 DEF IInv, WindowExact
        <5>5. CASE m > max_seq_num
          BY <5>1, <5>2, <5>3, <5>5 DEF IInv, ReplayTypeOK, WindowExact
        <5> QED
          BY <5>4, <5>5 DEF IInv, ReplayTypeOK
      <4> QED
        BY <4>1, <4>2
    <3> QED
      BY <2>2, <3>1, <3>2 DEF WindowExact
  <2> QED
    BY <2>4, <2>6, <2>7 DEF IInv
<1> QED
  BY <1>1, <1>2

LEMMA StepIInv == IInv /\ [ReplayNext]_ReplayVars => IInv'
<1> SUFFICES ASSUME IInv, [ReplayNext]_ReplayVars PROVE IInv'
  OBVIOUS
<1>1. CASE dtls_seal_record
  BY <1>1, ReplayAssumption
     DEF dtls_seal_record, IInv, ReplayTypeOK, WindowExact, NoReplay, Numbers
<1>2. ASSUME NEW n \in 0 .. (next_record - 1), dtls_open_record(n)
      PROVE  IInv'
  BY <1>2, OpenIInv
<1>3. CASE UNCHANGED ReplayVars
  BY <1>3 DEF ReplayVars, IInv, ReplayTypeOK, WindowExact, NoReplay
<1> QED
  BY <1>1, <1>2, <1>3 DEF ReplayNext

\* dtls_open_record keeps its state well-typed; in particular the numbers it
\* reconstructs and records never exceed kMaxSequence.
THEOREM TypeCorrect == ReplaySpec => []ReplayTypeOK
<1>1. IInv => ReplayTypeOK
  BY DEF IInv
<1> QED
  BY InitIInv, StepIInv, <1>1, PTL DEF ReplaySpec

\* No record is returned to the caller twice, for any window size and any
\* network.
THEOREM ReplaySafe == ReplaySpec => []NoReplay
<1>1. IInv => NoReplay
  BY DEF IInv
<1> QED
  BY InitIInv, StepIInv, <1>1, PTL DEF ReplaySpec

\* The window of the receiver is what it returned, as far as it reaches.
THEOREM WindowSafe == ReplaySpec => []WindowExact
<1>1. IInv => WindowExact
  BY DEF IInv
<1> QED
  BY InitIInv, StepIInv, <1>1, PTL DEF ReplaySpec

-----------------------------------------------------------------------------
\* Division with remainder: what % returns, and that it is the only remainder.
LEMMA ModDef ==
  ASSUME NEW S \in Nat, S > 0, NEW a \in Int
  PROVE  /\ a \div S \in Int
         /\ a % S = a - S * (a \div S)
OBVIOUS

LEMMA ModUnique ==
  ASSUME NEW S \in Nat, S > 0, NEW a \in Int, NEW d \in 0 .. (S - 1),
         NEW k \in Int, a = d + k * S
  PROVE  a % S = d
OBVIOUS

\* reconstruct_seqnum undoes the truncation of every number that is inside
\* the window or at most half a step ahead.
LEMMA ReconstructInReach ==
  ASSUME NEW n \in Numbers, NEW m \in Numbers,
         m - n < kWindowSize, n <= m + 1 + Step \div 2
  PROVE  ReconstructSeqnum(n % Step, m) = n
<1> DEFINE q == n \div Step
           a == (n % Step) - (m + 1)
           h == Step \div 2
<1>0. /\ n \in Int /\ m \in Int /\ Step \in Nat /\ Step > 0
      /\ n >= 0 /\ n <= kMaxSequence /\ m >= 0 /\ kMaxSequence \in Nat
  BY ReplayAssumption DEF Numbers
<1>1. h \in Int /\ 0 <= h /\ 2 * h <= Step /\ kWindowSize \in Int /\ 0 < kWindowSize
      /\ kWindowSize < h
  BY ReplayAssumption
<1>2. q \in Int /\ a = n - Step * q - (m + 1)
  BY <1>0, ModDef
<1>3. a \in Int /\ -q \in Int /\ -q - 1 \in Int
  <2>1. Step * q \in Int
    BY <1>0, <1>2
  <2> QED
    BY <1>0, <1>2, <2>1
<1>4. CASE n >= m + 1
  <2>1. a = (n - (m + 1)) + (-q) * Step
    BY <1>0, <1>2
  <2>2. (n - (m + 1)) \in 0 .. (Step - 1)
    BY <1>0, <1>1, <1>4
  <2>3. a % Step = n - (m + 1)
    <3> HIDE DEF a, q
    <3> QED
      BY <1>0, <1>3, <2>1, <2>2, ModUnique, ZenonT(30)
  <2>4. ~(a % Step > h)
    BY <1>0, <1>1, <2>3
  <2> QED
    BY <1>0, <2>3, <2>4 DEF ReconstructSeqnum
<1>5. CASE n < m + 1
  <2>1. a = (n - (m + 1) + Step) + (-q - 1) * Step
    BY <1>0, <1>2
  <2>2. (n - (m + 1) + Step) \in 0 .. (Step - 1)
    BY <1>0, <1>1, <1>5
  <2>3. a % Step = n - (m + 1) + Step
    <3> HIDE DEF a, q
    <3> QED
      BY <1>0, <1>3, <2>1, <2>2, ModUnique, ZenonT(30)
  <2>4. a % Step > h
    BY <1>0, <1>1, <2>3
  <2> QED
    BY <1>0, <2>3, <2>4 DEF ReconstructSeqnum
<1> QED
  BY <1>0, <1>4, <1>5

\* dtls_open_record drops no record that is new, inside the window and at most
\* half a step ahead: sending two bytes of the number loses nothing.
THEOREM DiscardSafe == ReplaySpec => []DiscardJustified
<1> DEFINE Inv == IInv /\ DiscardJustified
<1>1. ReplayInit => Inv
  BY InitIInv DEF ReplayInit, DiscardJustified
<1>2. Inv /\ [ReplayNext]_ReplayVars => Inv'
  <2> SUFFICES ASSUME Inv, [ReplayNext]_ReplayVars PROVE DiscardJustified'
    BY StepIInv
  <2>1. CASE dtls_seal_record
    BY <2>1 DEF dtls_seal_record, DiscardJustified
  <2>2. ASSUME NEW n \in 0 .. (next_record - 1), dtls_open_record(n)
        PROVE  DiscardJustified'
    <3> DEFINE full == ReconstructSeqnum(n % Step, max_seq_num)
    <3>1. CASE ~(ShouldDiscard(full) \/ full # n)
      <4>1. out'.ret = "success"
        BY <2>2, <3>1 DEF dtls_open_record
      <4> QED
        BY <4>1 DEF DiscardJustified
    <3>2. CASE ShouldDiscard(full) \/ full # n
      <4>1. /\ out' = [number |-> n, ret |-> "discard"]
            /\ UNCHANGED <<max_seq_num, map, delivered>>
        BY <2>2, <3>2 DEF dtls_open_record
      <4>2. n \in Numbers /\ max_seq_num \in Numbers
        BY ReplayAssumption DEF IInv, ReplayTypeOK, Numbers
      <4> SUFFICES ASSUME max_seq_num - n < kWindowSize,
                          n <= max_seq_num + 1 + Step \div 2
                   PROVE  delivered[n] > 0
        BY <4>1, <4>2, ReplayAssumption DEF DiscardJustified, Numbers
      <4>3. full = n
        BY <4>2, ReconstructInReach
      <4>4. ShouldDiscard(n)
        BY <3>2, <4>3
      <4> QED
        BY <4>2, <4>4, ReplayAssumption
           DEF ShouldDiscard, IInv, WindowExact, Numbers
    <3> QED
      BY <3>1, <3>2
  <2>3. CASE UNCHANGED ReplayVars
    BY <2>3 DEF ReplayVars, DiscardJustified
  <2> QED
    BY <2>1, <2>2, <2>3 DEF ReplayNext
<1>3. Inv => DiscardJustified
  OBVIOUS
<1> QED
  BY <1>1, <1>2, <1>3, PTL DEF ReplaySpec
=============================================================================
