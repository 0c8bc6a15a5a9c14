------------------------ MODULE DTLSReassemblyProofs ------------------------
(***************************************************************************)
(* Proofs about DTLSReassembly for every ring size, message length and     *)
(* range of message numbers.                                               *)
(***************************************************************************)
EXTENDS DTLSReassembly, TLAPS

Slots == 0 .. (N - 1)

\* Only bytes that were copied are marked.
MarkedIsWritten ==
    \A i \in Slots : incoming_messages[i] # NULL =>
        \A b \in incoming_messages[i].reassembly :
            incoming_messages[i].data[b] \in Values

\* The inductive invariant.  Completeness says nothing about a message that
\* still misses bytes, hence MarkedIsWritten.
IInv == ReassemblyTypeOK /\ RingExact /\ MarkedIsWritten /\ HasMessageExact

-----------------------------------------------------------------------------
\* The slot of a number is a slot.
LEMMA SlotOf ==
  ASSUME NEW s \in Nat
  PROVE  s % N \in Slots
BY ReassemblyAssumption DEF N, Slots

\* Two numbers of one window that share a slot are the same number.
LEMMA SlotInjective ==
  ASSUME NEW r \in Nat, NEW a \in r .. (r + N - 1), NEW b \in r .. (r + N - 1),
         a % N = b % N
  PROVE  a = b
<1> DEFINE p == a \div N
           q == b \div N
<1>0. N \in Nat /\ N > 0 /\ a \in Int /\ b \in Int
  BY ReassemblyAssumption DEF N
<1>1. /\ p \in Int /\ a % N = a - N * p
      /\ q \in Int /\ b % N = b - N * q
  BY <1>0
<1>2. a - b = N * (p - q) /\ a - b < N /\ b - a < N
  BY <1>0, <1>1
<1> HIDE DEF p, q
<1>3. ~(p - q >= 1)
  <2> SUFFICES ASSUME p - q >= 1 PROVE FALSE
    OBVIOUS
  <2>1. N * (p - q) >= N
    BY <1>0, <1>1
  <2> QED
    BY <1>0, <1>2, <2>1
<1>4. ~(q - p >= 1)
  <2> SUFFICES ASSUME q - p >= 1 PROVE FALSE
    OBVIOUS
  <2>1. N * (q - p) >= N
    BY <1>0, <1>1
  <2>2. b - a = N * (q - p)
    BY <1>0, <1>1, <1>2
  <2> QED
    BY <1>0, <1>2, <2>1, <2>2
<1>5. p = q
  BY <1>1, <1>3, <1>4
<1> QED
  BY <1>0, <1>1, <1>2, <1>5

\* What the bounds check lets through.
LEMMA FragmentFacts ==
  ASSUME NEW f \in Fragments
  PROVE  /\ f.seq \in 0 .. MaxSeq /\ f.type \in Types
         /\ f.msg_len \in 0 .. MaxLen
         /\ DOMAIN f.body \subseteq 0 .. (f.msg_len - 1)
         /\ \A b \in DOMAIN f.body : f.body[b] \in Values
<1>1. PICK len \in 0 .. MaxLen :
        f \in [seq : 0 .. MaxSeq, type : Types, msg_len : {len},
               body : Bodies(len)]
  BY DEF Fragments
<1>2. PICK o \in 0 .. len, e \in 0 .. len : f.body \in [o .. (e - 1) -> Values]
  BY <1>1 DEF Bodies
<1>3. o .. (e - 1) \subseteq 0 .. (len - 1)
  BY ReassemblyAssumption
<1> QED
  BY <1>1, <1>2, <1>3

\* A message of the fragment's length stays a message, with only copied bytes
\* marked, when the fragment is stored.
LEMMA StoreFacts ==
  ASSUME NEW f \in Fragments, NEW m,
         m.seq \in 0 .. MaxSeq, m.type \in Types,
         m.data \in [0 .. (f.msg_len - 1) -> Values \cup {Uninit}],
         m.reassembly \subseteq 0 .. (f.msg_len - 1),
         \A b \in m.reassembly : m.data[b] \in Values
  PROVE  LET s == StoreFragment(m, f) IN
         /\ IsMessage(s)
         /\ s.seq = m.seq
         /\ \A b \in s.reassembly : s.data[b] \in Values
         /\ IsComplete(m) => s = m
<1> DEFINE data == [i \in DOMAIN m.data |->
                      IF i \in DOMAIN f.body THEN f.body[i] ELSE m.data[i]]
           marks == m.reassembly \cup DOMAIN f.body
<1>0. f.msg_len \in 0 .. MaxLen /\ DOMAIN m.data = 0 .. (f.msg_len - 1)
  BY FragmentFacts
<1>1. CASE IsComplete(m)
  BY <1>0, <1>1 DEF StoreFragment, IsMessage
<1>2. CASE ~IsComplete(m)
  <2>1. data \in [0 .. (f.msg_len - 1) -> Values \cup {Uninit}]
    BY <1>0, FragmentFacts
  <2>2. marks \subseteq 0 .. (f.msg_len - 1)
    BY FragmentFacts
  <2>3. \A b \in marks : data[b] \in Values
    BY <1>0, <2>2, FragmentFacts
  <2>4. StoreFragment(m, f) = [seq |-> m.seq, type |-> m.type,
                               data |-> data, reassembly |-> marks]
    BY <1>2 DEF StoreFragment, Message
  <2> HIDE DEF data, marks
  <2>5. IsMessage([seq |-> m.seq, type |-> m.type,
                   data |-> data, reassembly |-> marks])
    BY <1>0, <2>1, <2>2, ZenonT(30) DEF IsMessage
  <2> QED
    BY <1>2, <2>3, <2>4, <2>5
<1> QED
  BY <1>1, <1>2

-----------------------------------------------------------------------------
LEMMA InitIInv == ReassemblyInit => IInv
<1> SUFFICES ASSUME ReassemblyInit PROVE IInv
  OBVIOUS
<1>1. \A i \in Slots : incoming_messages[i] = NULL
  BY DEF ReassemblyInit, Slots
<1>2. incoming_messages = [i \in 0 .. (N - 1) |-> incoming_messages[i]]
  BY DEF ReassemblyInit
<1>3. handshake_read_seq \in 0 .. MaxSeq
  BY ReassemblyAssumption DEF ReassemblyInit
<1>4. ReassemblyTypeOK
  BY <1>1, <1>2, <1>3, ZenonT(30) DEF ReassemblyInit, ReassemblyTypeOK, Slots
<1> QED
  BY <1>1, <1>4
     DEF ReassemblyInit, IInv, RingExact, MarkedIsWritten, HasMessageExact, Slots

\* ProcessFragment changes one slot, to a message of the same window.
LEMMA ProcessIInv ==
  ASSUME IInv, NEW f \in Fragments, ProcessFragment(f)
  PROVE  IInv'
<1> DEFINE idx == f.seq % N
           m == incoming_messages[idx]
           x == IF m = NULL THEN dtls_new_incoming_message(f) ELSE m
           s == StoreFragment(x, f)
<1>0. /\ N \in Nat /\ N > 0 /\ handshake_read_seq \in Nat /\ f.seq \in Nat
      /\ f.seq >= handshake_read_seq /\ f.seq - handshake_read_seq < N
      /\ ~handshake_read_overflow
  BY ReassemblyAssumption, FragmentFacts
     DEF ProcessFragment, InRing, IInv, ReassemblyTypeOK, N
<1>1. /\ incoming_messages' = [incoming_messages EXCEPT ![idx] = s]
      /\ UNCHANGED <<handshake_read_seq, handshake_read_overflow,
                     has_message, alert>>
  BY DEF ProcessFragment
<1>2. idx \in Slots
  BY <1>0, SlotOf
<1>3. /\ x.seq = f.seq \/ (m # NULL /\ x = m)
      /\ x.seq \in 0 .. MaxSeq /\ x.type \in Types
      /\ x.data \in [0 .. (f.msg_len - 1) -> Values \cup {Uninit}]
      /\ x.reassembly \subseteq 0 .. (f.msg_len - 1)
      /\ \A b \in x.reassembly : x.data[b] \in Values
  <2>1. CASE m = NULL
    BY <2>1, FragmentFacts DEF dtls_new_incoming_message, Message
  <2>2. CASE m # NULL
    <3>1. IsMessage(m) /\ DOMAIN m.data = 0 .. (f.msg_len - 1)
      BY <1>2, <2>2 DEF IInv, ReassemblyTypeOK, Slots, ProcessFragment
    <3>2. PICK len \in 0 .. MaxLen :
             /\ m.seq \in 0 .. MaxSeq /\ m.type \in Types
             /\ m.data \in [0 .. (len - 1) -> Values \cup {Uninit}]
             /\ m.reassembly \subseteq 0 .. (len - 1)
      BY <3>1 DEF IsMessage
    <3>3. 0 .. (len - 1) = 0 .. (f.msg_len - 1)
      BY <3>1, <3>2
    <3>4. \A b \in m.reassembly : m.data[b] \in Values
      BY <1>2, <2>2 DEF IInv, MarkedIsWritten
    <3> QED
      BY <2>2, <3>2, <3>3, <3>4, ZenonT(30)
  <2> QED
    BY <2>1, <2>2
<1>4. /\ IsMessage(s) /\ s.seq = x.seq
      /\ \A b \in s.reassembly : s.data[b] \in Values
      /\ IsComplete(x) => s = x
  BY <1>3, StoreFacts
<1>5. s # NULL
  <2>1. NULL.seq = -1
    BY DEF NULL
  <2> HIDE DEF x, s
  <2>2. s.seq \in 0 .. MaxSeq
    BY <1>3, <1>4
  <2>3. s.seq # NULL.seq
    BY <2>1, <2>2, SMTT(30)
  <2> QED
    BY <2>3
<1>6. s.seq \in handshake_read_seq .. (handshake_read_seq + N - 1)
      /\ s.seq % N = idx
  <2>1. CASE m # NULL /\ x = m
    BY <1>0, <1>2, <1>4, <2>1 DEF IInv, RingExact, Slots
  <2>2. CASE x.seq = f.seq
    BY <1>0, <1>4, <2>2
  <2> QED
    BY <1>3, <2>1, <2>2
<1> HIDE DEF idx, m, x, s
<1>7. \A i \in Slots : incoming_messages'[i] =
                         IF i = idx THEN s ELSE incoming_messages[i]
  BY <1>1 DEF IInv, ReassemblyTypeOK, Slots
<1>8. ReassemblyTypeOK'
  <2>1. incoming_messages' = [i \in 0 .. (N - 1) |-> incoming_messages'[i]]
    BY <1>1, ZenonT(30) DEF IInv, ReassemblyTypeOK
  <2> QED
    BY <1>1, <1>4, <1>7, <2>1 DEF IInv, ReassemblyTypeOK, Slots
<1>9. RingExact'
  BY <1>0, <1>1, <1>6, <1>7 DEF IInv, RingExact, Slots
<1>10. MarkedIsWritten'
  BY <1>4, <1>7 DEF IInv, MarkedIsWritten
<1>11. HasMessageExact'
  <2>1. handshake_read_seq % N \in Slots
    BY <1>0, SlotOf
  <2>2. ASSUME dtls1_is_current_message_complete
        PROVE  incoming_messages'[Current] = incoming_messages[Current]
    BY <1>4, <1>7, <2>1, <2>2
       DEF dtls1_is_current_message_complete, Current, idx, m, x
  <2> QED
    BY <1>1, <2>2
       DEF IInv, HasMessageExact, dtls1_is_current_message_complete, Current
<1> QED
  BY <1>8, <1>9, <1>10, <1>11 DEF IInv

\* dtls1_next_message frees the slot the window leaves behind.
LEMMA NextMessageIInv ==
  ASSUME IInv, dtls1_next_message
  PROVE  IInv'
<1> DEFINE r == handshake_read_seq
<1>0. /\ N \in Nat /\ N > 0 /\ r \in 0 .. MaxSeq /\ MaxSeq \in Nat
  BY ReassemblyAssumption DEF IInv, ReassemblyTypeOK, N
<1>1. /\ incoming_messages' = [incoming_messages EXCEPT ![Current] = NULL]
      /\ r' = (r + 1) % (MaxSeq + 1)
      /\ handshake_read_overflow' = (handshake_read_overflow \/ r' = 0)
      /\ has_message' = FALSE /\ alert' = alert
  BY DEF dtls1_next_message
<1>2. IF r = MaxSeq THEN r' = 0 ELSE r' = r + 1
  BY <1>0, <1>1
<1>3. \A i \in Slots : incoming_messages'[i] =
                         IF i = r % N THEN NULL ELSE incoming_messages[i]
  BY <1>1 DEF IInv, ReassemblyTypeOK, Slots, Current
<1>4. ReassemblyTypeOK'
  <2>1. incoming_messages' = [i \in 0 .. (N - 1) |-> incoming_messages'[i]]
    BY <1>1, ZenonT(30) DEF IInv, ReassemblyTypeOK
  <2>2. r' \in 0 .. MaxSeq
    BY <1>0, <1>2
  <2>3. handshake_read_overflow' \in BOOLEAN
    BY <1>1
  <2> QED
    BY <1>1, <1>3, <2>1, <2>2, <2>3, ZenonT(30) DEF IInv, ReassemblyTypeOK, Slots
<1>5. RingExact'
  <2> SUFFICES ASSUME NEW i \in Slots, incoming_messages'[i] # NULL
               PROVE  /\ ~handshake_read_overflow'
                      /\ incoming_messages'[i].seq \in r' .. (r' + N - 1)
                      /\ incoming_messages'[i].seq % N = i
    BY DEF RingExact, Slots
  <2> DEFINE k == incoming_messages[i].seq
  <2>1. incoming_messages'[i] = incoming_messages[i] /\ i # r % N
    BY <1>3
  <2>2. /\ ~handshake_read_overflow
        /\ k \in r .. (r + N - 1) /\ k % N = i /\ k \in 0 .. MaxSeq
    BY <2>1 DEF IInv, RingExact, ReassemblyTypeOK, IsMessage, Slots
  <2>3. k # r
    BY <2>1, <2>2
  <2>4. r # MaxSeq /\ r' = r + 1
    BY <1>0, <1>2, <2>2, <2>3
  <2>5. ~handshake_read_overflow'
    <3>1. r' # 0
      BY <1>0, <2>4
    <3> QED
      BY <1>1, <2>2, <3>1, ZenonT(30)
  <2>6. k \in r' .. (r' + N - 1)
    BY <1>0, <2>2, <2>3, <2>4
  <2> QED
    BY <2>1, <2>2, <2>5, <2>6
<1>6. MarkedIsWritten'
  BY <1>3 DEF IInv, MarkedIsWritten
<1>7. HasMessageExact'
  BY <1>1 DEF HasMessageExact
<1> QED
  BY <1>4, <1>5, <1>6, <1>7 DEF IInv

\* The ring and the window stay; has_message may be set over a complete
\* message.
LEMMA KeepIInv ==
  ASSUME IInv,
         UNCHANGED <<handshake_read_seq, handshake_read_overflow,
                     incoming_messages>>,
         alert' \in {"none", "internal_error", "illegal_parameter"},
         has_message' = has_message \/ (has_message' = TRUE /\
                                        dtls1_is_current_message_complete)
  PROVE  IInv'
<1>1. ReassemblyTypeOK'
  BY ZenonT(30) DEF IInv, ReassemblyTypeOK
<1>2. RingExact' /\ MarkedIsWritten'
  BY DEF IInv, RingExact, MarkedIsWritten
<1>3. dtls1_is_current_message_complete' = dtls1_is_current_message_complete
  BY DEF dtls1_is_current_message_complete, Current
<1>4. HasMessageExact'
  BY <1>3, ZenonT(30) DEF IInv, HasMessageExact
<1> QED
  BY <1>1, <1>2, <1>4 DEF IInv

LEMMA StepIInv == IInv /\ [ReassemblyNext]_ReassemblyVars => IInv'
<1> SUFFICES ASSUME IInv, [ReassemblyNext]_ReassemblyVars PROVE IInv'
  OBVIOUS
<1>0. alert \in {"none", "internal_error", "illegal_parameter"}
  BY DEF IInv, ReassemblyTypeOK
<1>1. ASSUME NEW f \in Fragments, IgnorePast(f) \/ IgnoreFuture(f)
      PROVE  IInv'
  BY <1>0, <1>1, KeepIInv, ZenonT(30) DEF IgnorePast, IgnoreFuture, ReassemblyVars
<1>2. ASSUME NEW f \in Fragments, OutsideRing(f) \/ FragmentMismatch(f)
      PROVE  IInv'
  BY <1>2, KeepIInv, ZenonT(30) DEF OutsideRing, FragmentMismatch, Fail
<1>3. ASSUME NEW f \in Fragments, ProcessFragment(f)
      PROVE  IInv'
  BY <1>3, ProcessIInv
<1>4. CASE dtls1_get_message
  BY <1>0, <1>4, KeepIInv DEF dtls1_get_message
<1>5. CASE dtls1_next_message
  BY <1>5, NextMessageIInv
<1>6. CASE UNCHANGED ReassemblyVars
  BY <1>0, <1>6, KeepIInv DEF ReassemblyVars
<1> QED
  BY <1>1, <1>2, <1>3, <1>4, <1>5, <1>6 DEF ReassemblyNext

-----------------------------------------------------------------------------
\* The types of the state hold for every ring and message size.
THEOREM TypeCorrect == ReassemblySpec => []ReassemblyTypeOK
BY InitIInv, StepIInv, PTL DEF ReassemblySpec, IInv

\* Every slot of the ring holds the message of the window that belongs there.
THEOREM RingSafe == ReassemblySpec => []RingExact
BY InitIInv, StepIInv, PTL DEF ReassemblySpec, IInv

\* has_message is set only while the next message is there in full.
THEOREM HasMessageSafe == ReassemblySpec => []HasMessageExact
BY InitIInv, StepIInv, PTL DEF ReassemblySpec, IInv

\* dtls1_get_incoming_message never finds another message in the slot.
THEOREM SlotSafe == ReassemblySpec => []SlotMatches
<1>1. IInv => SlotMatches
  <2> SUFFICES ASSUME IInv,
                      NEW seq \in handshake_read_seq ..
                                    (handshake_read_seq + N - 1),
                      incoming_messages[seq % N] # NULL
               PROVE  incoming_messages[seq % N].seq = seq
    BY DEF SlotMatches
  <2>1. handshake_read_seq \in Nat /\ seq \in Nat
    BY DEF IInv, ReassemblyTypeOK
  <2>2. seq % N \in Slots
    BY <2>1, SlotOf
  <2>3. /\ incoming_messages[seq % N].seq \in
             handshake_read_seq .. (handshake_read_seq + N - 1)
        /\ incoming_messages[seq % N].seq % N = seq % N
    BY <2>2 DEF IInv, RingExact, Slots
  <2> QED
    BY <2>1, <2>3, SlotInjective
<1> QED
  BY <1>1, InitIInv, StepIInv, PTL DEF ReassemblySpec

\* A message handed to the handshake has no byte that was never written.
THEOREM WrittenSafe == ReassemblySpec => []CompleteIsWritten
<1>1. IInv => CompleteIsWritten
  BY DEF IInv, CompleteIsWritten, MarkedIsWritten, IsComplete, Slots
<1> QED
  BY <1>1, InitIInv, StepIInv, PTL DEF ReassemblySpec

\* A complete message stays as it is until dtls1_next_message releases it.
THEOREM StableSafe == ReassemblySpec => CompleteIsStable
<1> DEFINE Stable(i) ==
      (incoming_messages[i] # NULL /\ IsComplete(incoming_messages[i])) =>
          \/ incoming_messages'[i] = incoming_messages[i]
          \/ has_message /\ i = Current /\ incoming_messages'[i] = NULL
<1>1. IInv /\ [ReassemblyNext]_ReassemblyVars => \A i \in 0 .. (N - 1) : Stable(i)
  <2> SUFFICES ASSUME IInv, [ReassemblyNext]_ReassemblyVars, NEW i \in 0 .. (N - 1),
                      incoming_messages[i] # NULL,
                      IsComplete(incoming_messages[i])
               PROVE  \/ incoming_messages'[i] = incoming_messages[i]
                      \/ /\ has_message /\ i = Current
                         /\ incoming_messages'[i] = NULL
    OBVIOUS
  <2>0. incoming_messages = [j \in 0 .. (N - 1) |-> incoming_messages[j]]
    BY DEF IInv, ReassemblyTypeOK
  <2>1. ASSUME NEW f \in Fragments, ProcessFragment(f)
        PROVE  incoming_messages'[i] = incoming_messages[i]
    BY <2>0, <2>1, ZenonT(30) DEF ProcessFragment, StoreFragment
  <2>2. ASSUME NEW f \in Fragments,
               IgnorePast(f) \/ IgnoreFuture(f) \/ OutsideRing(f)
                 \/ FragmentMismatch(f)
        PROVE  incoming_messages'[i] = incoming_messages[i]
    BY <2>2 DEF IgnorePast, IgnoreFuture, OutsideRing, FragmentMismatch,
                Fail, ReassemblyVars
  <2>3. CASE dtls1_get_message
    BY <2>3 DEF dtls1_get_message
  <2>4. CASE dtls1_next_message
    BY <2>0, <2>4 DEF dtls1_next_message
  <2>5. CASE UNCHANGED ReassemblyVars
    BY <2>5 DEF ReassemblyVars
  <2> QED
    BY <2>1, <2>2, <2>3, <2>4, <2>5 DEF ReassemblyNext
<1>2. IInv /\ [ReassemblyNext]_ReassemblyVars =>
        [\A i \in 0 .. (N - 1) :
           (incoming_messages[i] # NULL /\ IsComplete(incoming_messages[i])) =>
             \/ incoming_messages'[i] = incoming_messages[i]
             \/ has_message /\ i = Current /\ incoming_messages'[i] = NULL]_ReassemblyVars
  BY <1>1
<1> QED
  BY <1>2, InitIInv, StepIInv, PTL DEF ReassemblySpec, CompleteIsStable
=============================================================================
