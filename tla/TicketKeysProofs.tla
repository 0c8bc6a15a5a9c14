-------------------------- MODULE TicketKeysProofs --------------------------
(***************************************************************************)
(* Proofs about TicketKeys, for every number of threads and of keys and    *)
(* every rotation interval.  TicketsInv is the inductive invariant: a key  *)
(* is current for one interval and previous for another; the two overlap   *)
(* as the lock and the stale clock readings allow; and a thread that was   *)
(* told the keys are up to date may rely on it whoever rotates them next.  *)
(***************************************************************************)
EXTENDS TicketKeys, TLAPS

KeyRecords == [key : 0..MaxKeys, made : 0..MaxTime, next_rotation : Nat]
Names      == [key : 1..MaxKeys, made : 1..MaxTime]
Calls      == [pc : {"idle", "check", "rotate", "use"},
               op : {"none", "seal", "open"}, now : 0..MaxTime]

TypeInv ==
    /\ clock \in 1..MaxTime /\ keys \in 0..MaxKeys
    /\ ticket_key_current \in KeyRecords /\ ticket_key_prev \in KeyRecords
    /\ sealed \subseteq Names
    /\ call \in [Threads -> Calls]
    /\ \A t \in Threads :
         call[t].now <= clock /\ (call[t].pc # "idle" => call[t].now >= 1)

\* A key is made at a time that has passed and rotates one interval later,
\* or never when the application set it.
CurrentInv ==
    ticket_key_current # NoKey =>
        /\ ticket_key_current.key >= 1
        /\ ticket_key_current.made \in 1..clock
        /\ ticket_key_current.next_rotation
             \in {0, ticket_key_current.made + Interval}

\* The previous key is at least one interval older than the current one, and
\* expires two intervals after it was made.
PrevInv ==
    ticket_key_prev # NoKey =>
        /\ ticket_key_current # NoKey
        /\ ticket_key_prev.key >= 1 /\ ticket_key_prev.made >= 1
        /\ ticket_key_prev.next_rotation = ticket_key_prev.made + 2 * Interval
        /\ ticket_key_prev.made + Interval <= ticket_key_current.made
        /\ ticket_key_current.next_rotation = ticket_key_current.made + Interval

\* A ticket whose key is neither of the two is two intervals old.
SealedInv ==
    \A name \in sealed :
        /\ ticket_key_current # NoKey
        /\ \/ name = Name(ticket_key_current)
           \/ ticket_key_prev # NoKey /\ name = Name(ticket_key_prev)
           \/ name.made + 2 * Interval <= clock

\* What the check or the rotation established still holds at the use.
UseInv == \A t \in Threads : call[t].pc = "use" => UpToDate(call[t].now)

TicketsInv ==
    /\ TypeInv /\ CurrentInv /\ PrevInv /\ SealedInv /\ UseInv
    /\ TicketLifetime

-----------------------------------------------------------------------------
\* No key, no ticket and no call: the invariant holds when SSL_CTX_new returns.
LEMMA TicketsInitInv == TicketsInit => TicketsInv
<1> SUFFICES ASSUME TicketsInit PROVE TicketsInv
  OBVIOUS
<1> USE TicketsAssumption DEF TicketsInit, NoKey
<1>1. TypeInv
  BY DEF TypeInv, KeyRecords, Names, Calls, Idle
<1>2. CurrentInv /\ PrevInv /\ SealedInv
  BY DEF CurrentInv, PrevInv, SealedInv
<1>3. UseInv
  BY DEF UseInv, Idle
<1>4. TicketLifetime
  BY DEF TicketLifetime, IgnoredOnlyWhenOld, OldNeverOpens, NoResult
<1> QED
  BY <1>1, <1>2, <1>3, <1>4 DEF TicketsInv

\* A step that opens no ticket says nothing about one.
LEMMA NoResultLifetime == result' = NoResult => TicketLifetime'
  BY DEF TicketLifetime, IgnoredOnlyWhenOld, OldNeverOpens, NoResult

\* Time passes: the calls keep the time they have read.
LEMMA TickInv == TicketsInv /\ Tick => TicketsInv'
<1> SUFFICES ASSUME TicketsInv, Tick PROVE TicketsInv'
  OBVIOUS
<1> USE TicketsAssumption DEF TicketsInv, Tick
<1>1. TypeInv'
  BY DEF TypeInv, KeyRecords, Names, Calls
<1>2. CurrentInv' /\ PrevInv' /\ SealedInv'
  BY DEF TypeInv, CurrentInv, PrevInv, SealedInv, KeyRecords, Names
<1>3. UseInv'
  BY DEF UseInv, UpToDate, Expired
<1> QED
  BY <1>1, <1>2, <1>3, NoResultLifetime

\* The application sets a key: the tickets of the others are given up.
LEMMA SetInv ==
    TicketsInv /\ SSL_CTX_set_tlsext_ticket_keys => TicketsInv'
<1> SUFFICES ASSUME TicketsInv, SSL_CTX_set_tlsext_ticket_keys
             PROVE  TicketsInv'
  OBVIOUS
<1> USE TicketsAssumption DEF TicketsInv, SSL_CTX_set_tlsext_ticket_keys
<1>1. TypeInv'
  BY DEF TypeInv, KeyRecords, Names, Calls, NoKey
<1>2. CurrentInv' /\ PrevInv' /\ SealedInv'
  BY DEF TypeInv, CurrentInv, PrevInv, SealedInv
<1>3. UseInv'
  BY DEF UseInv, Idle
<1> QED
  BY <1>1, <1>2, <1>3, NoResultLifetime

\* A call reads the clock.
LEMMA BeginInv ==
    ASSUME TicketsInv, NEW t \in Threads, NEW op \in {"seal", "open"},
           Begin(t, op)
    PROVE  TicketsInv'
<1> USE TicketsAssumption DEF TicketsInv, Begin
<1>1. TypeInv'
  BY DEF TypeInv, Calls
<1>2. CurrentInv' /\ PrevInv' /\ SealedInv'
  BY DEF CurrentInv, PrevInv, SealedInv
<1>3. UseInv'
  BY DEF TypeInv, UseInv, UpToDate, Expired
<1> QED
  BY <1>1, <1>2, <1>3, NoResultLifetime

\* The check under the read lock.
LEMMA CheckInv ==
    ASSUME TicketsInv, NEW t \in Threads, Check(t)
    PROVE  TicketsInv'
<1> USE TicketsAssumption DEF TicketsInv, Check
<1>1. TypeInv'
  BY DEF TypeInv, Calls
<1>2. CurrentInv' /\ PrevInv' /\ SealedInv'
  BY DEF CurrentInv, PrevInv, SealedInv
<1>3. UseInv'
  BY DEF TypeInv, UseInv, UpToDate, Expired
<1> QED
  BY <1>1, <1>2, <1>3, NoResultLifetime

\* A ticket is sealed with the current key.
LEMMA SealInv ==
    ASSUME TicketsInv, NEW t \in Threads, Seal(t)
    PROVE  TicketsInv'
<1> USE TicketsAssumption DEF TicketsInv, Seal
<1>0. ticket_key_current # NoKey
  BY DEF UseInv, UpToDate
<1>1. TypeInv'
  BY <1>0 DEF TypeInv, CurrentInv, KeyRecords, Names, Name, Calls, Idle
<1>2. CurrentInv' /\ PrevInv' /\ SealedInv'
  BY <1>0 DEF CurrentInv, PrevInv, SealedInv, Name
<1>3. UseInv'
  BY DEF TypeInv, UseInv, UpToDate, Expired, Idle
<1> QED
  BY <1>1, <1>2, <1>3, NoResultLifetime

\* A ticket opens when its key is one of the two, and these are not expired.
LEMMA OpenInv ==
    ASSUME TicketsInv, NEW t \in Threads, NEW name \in sealed, Open(t, name)
    PROVE  TicketsInv'
<1> USE TicketsAssumption DEF TicketsInv, Open
<1>1. TypeInv'
  BY DEF TypeInv, Calls, Idle
<1>2. CurrentInv' /\ PrevInv' /\ SealedInv'
  BY DEF CurrentInv, PrevInv, SealedInv
<1>3. UseInv'
  BY DEF TypeInv, UseInv, UpToDate, Expired, Idle
<1>4. IgnoredOnlyWhenOld'
  BY DEF SealedInv, IgnoredOnlyWhenOld, Name
<1>5. UpToDate(call[t].now)
  BY DEF UseInv
<1>6. OldNeverOpens'
  BY <1>5 DEF TypeInv, CurrentInv, PrevInv, UpToDate, Expired, OldNeverOpens,
              Name, KeyRecords, Names, Calls
<1> QED
  BY <1>1, <1>2, <1>3, <1>4, <1>6 DEF TicketLifetime

\* A new key is made: the current one was an interval old, so that the one
\* before it was two, and every other call in its use read an earlier time.
LEMMA NewKeyInv ==
    ASSUME TicketsInv, NEW t \in Threads, NEW now, now = call[t].now,
           call[t].pc = "rotate", MustRotate(now), keys < MaxKeys,
           keys' = keys + 1,
           ticket_key_current' = [key |-> keys + 1, made |-> now,
                                  next_rotation |-> now + Interval],
           ticket_key_prev' = DropExpired(Retired(ticket_key_current), now),
           call' = [call EXCEPT ![t].pc = "use"],
           result' = NoResult, UNCHANGED <<clock, sealed>>
    PROVE  TicketsInv'
<1> USE TicketsAssumption DEF TicketsInv
<1>1. now \in 1..clock /\ clock \in 1..MaxTime
  BY DEF TypeInv, Calls
<1>2. CASE ticket_key_current = NoKey
  <2>1. ticket_key_prev = NoKey /\ ticket_key_prev' = NoKey /\ sealed = {}
    BY <1>2 DEF PrevInv, SealedInv, DropExpired, Retired
  <2>2. TypeInv'
    BY <1>1, <2>1 DEF TypeInv, KeyRecords, Names, Calls, NoKey
  <2>3. CurrentInv' /\ PrevInv' /\ SealedInv'
    BY <1>1, <2>1 DEF TypeInv, CurrentInv, PrevInv, SealedInv
  <2>4. UseInv'
    BY <1>1, <1>2, <2>1 DEF TypeInv, UseInv, UpToDate, Expired, NoKey
  <2> QED
    BY <2>2, <2>3, <2>4, NoResultLifetime
<1>3. CASE ticket_key_current # NoKey
  <2> DEFINE c == ticket_key_current
             k == [c EXCEPT !.next_rotation = @ + Interval]
  <2>1. /\ c \in KeyRecords /\ c.key >= 1 /\ c.made \in 1..clock
        /\ c.next_rotation = c.made + Interval /\ c.made + Interval <= now
    BY <1>3 DEF TypeInv, CurrentInv, MustRotate, Expired
  <2>2. /\ k = [key |-> c.key, made |-> c.made,
                next_rotation |-> c.made + 2 * Interval]
        /\ k # NoKey
    BY <2>1 DEF KeyRecords, NoKey
  <2> HIDE DEF k, c
  <2>3. \/ ticket_key_prev' = k /\ now < c.made + 2 * Interval
        \/ ticket_key_prev' = NoKey /\ c.made + 2 * Interval <= now
    BY <1>1, <1>3, <2>1, <2>2 DEF DropExpired, Retired, Expired, KeyRecords, c, k
  <2>4. TypeInv'
    BY <1>1, <2>1, <2>2, <2>3 DEF TypeInv, KeyRecords, Names, Calls, NoKey
  <2>5. CurrentInv' /\ PrevInv'
    BY <1>1, <2>1, <2>2, <2>3 DEF TypeInv, CurrentInv, PrevInv, KeyRecords, NoKey
  <2>6. ticket_key_current' # NoKey
    BY DEF TypeInv, NoKey
  <2>7. ASSUME NEW name \in sealed
        PROVE  \/ ticket_key_prev' # NoKey /\ name = Name(ticket_key_prev')
               \/ name.made + 2 * Interval <= clock
    <3>1. CASE name = Name(c)
      BY <1>1, <2>1, <2>2, <2>3, <3>1 DEF Name, KeyRecords
    <3>2. CASE ticket_key_prev # NoKey /\ name = Name(ticket_key_prev)
      BY <1>1, <2>1, <3>2 DEF PrevInv, Name, KeyRecords, TypeInv, c
    <3>3. CASE name.made + 2 * Interval <= clock
      BY <3>3
    <3> QED
      BY <3>1, <3>2, <3>3 DEF SealedInv, c
  <2>8. SealedInv'
    BY <2>6, <2>7 DEF SealedInv
  <2>9. ASSUME NEW u \in Threads, call'[u].pc = "use"
        PROVE  UpToDate(call[u].now)'
    <3>1. call'[u].now = call[u].now /\ call[u].now \in 0..MaxTime
      BY DEF TypeInv, Calls
    <3>2. call'[u].now < now + Interval
      BY <1>1, <2>1, <2>9, <3>1
         DEF TypeInv, UseInv, UpToDate, Expired, Calls, KeyRecords, c
    <3>3. call'[u].now < c.made + 2 * Interval \/ ticket_key_prev' = NoKey
      BY <1>1, <2>1, <2>3, <2>9, <3>1
         DEF TypeInv, UseInv, UpToDate, Expired, Calls, KeyRecords, c
    <3> QED
      BY <1>1, <2>1, <2>2, <2>3, <2>6, <3>1, <3>2, <3>3
         DEF UpToDate, Expired, KeyRecords
  <2>10. UseInv'
    BY <2>9 DEF UseInv
  <2> QED
    BY <2>4, <2>5, <2>8, <2>10, NoResultLifetime
<1> QED
  BY <1>2, <1>3

\* ssl_ctx_rotate_ticket_encryption_key under the write lock: whichever thread
\* gets there first makes the key, and the others find it.
LEMMA RotateInv ==
    ASSUME TicketsInv, NEW t \in Threads, Rotate(t)
    PROVE  TicketsInv'
<1> USE TicketsAssumption DEF TicketsInv
<1> DEFINE now == call[t].now
<1>1. CASE /\ MustRotate(now) /\ keys < MaxKeys
           /\ keys' = keys + 1
           /\ ticket_key_current' = [key |-> keys + 1, made |-> now,
                                     next_rotation |-> now + Interval]
           /\ ticket_key_prev' = DropExpired(Retired(ticket_key_current), now)
           /\ call' = [call EXCEPT ![t].pc = "use"]
  <2> HIDE DEF TicketsInv
  <2> QED
    BY <1>1, NewKeyInv DEF Rotate
<1>2. CASE /\ call' = [call EXCEPT ![t] = Idle]
           /\ UNCHANGED <<ticket_key_current, ticket_key_prev, keys>>
  <2>1. TypeInv'
    BY <1>2 DEF Rotate, TypeInv, Calls, Idle
  <2>2. CurrentInv' /\ PrevInv' /\ SealedInv'
    BY <1>2 DEF Rotate, CurrentInv, PrevInv, SealedInv
  <2>3. UseInv'
    BY <1>2 DEF Rotate, TypeInv, UseInv, UpToDate, Expired, Idle
  <2> QED
    BY <2>1, <2>2, <2>3, NoResultLifetime DEF Rotate
<1>3. CASE /\ ~MustRotate(now)
           /\ ticket_key_prev' = DropExpired(ticket_key_prev, now)
           /\ call' = [call EXCEPT ![t].pc = "use"]
           /\ UNCHANGED <<ticket_key_current, keys>>
  <2>1. UNCHANGED <<clock, sealed>> /\ result' = NoResult
    BY DEF Rotate
  <2>2. \/ ticket_key_prev' = ticket_key_prev
             /\ (ticket_key_prev # NoKey => ~Expired(ticket_key_prev, now))
        \/ ticket_key_prev' = NoKey /\ ticket_key_prev # NoKey
             /\ Expired(ticket_key_prev, now)
    BY <1>3 DEF DropExpired
  <2>3. TypeInv'
    <3>1. ticket_key_prev' \in KeyRecords
      BY <2>2 DEF TypeInv, KeyRecords, NoKey
    <3>2. /\ call' \in [Threads -> Calls]
          /\ \A u \in Threads :
               call'[u].now <= clock /\ (call'[u].pc # "idle" => call'[u].now >= 1)
      <4>1. call[t].pc # "idle"
        BY DEF Rotate
      <4> QED
        BY <1>3, <4>1 DEF TypeInv, Calls
    <3> QED
      BY <1>3, <2>1, <3>1, <3>2 DEF TypeInv
  <2>4. CurrentInv' /\ PrevInv'
    BY <1>3, <2>1, <2>2 DEF CurrentInv, PrevInv
  <2>5. SealedInv'
    BY <1>3, <2>1, <2>2
       DEF TypeInv, PrevInv, SealedInv, Expired, Name, KeyRecords, Calls, Names
  <2>6. UseInv'
    BY <1>3, <2>1, <2>2 DEF TypeInv, UseInv, UpToDate, MustRotate, Expired, Calls
  <2> QED
    BY <2>1, <2>3, <2>4, <2>5, <2>6, NoResultLifetime
<1> QED
  BY <1>1, <1>2, <1>3 DEF Rotate

\* Every step of the keys keeps the invariant.
LEMMA TicketsStepInv == TicketsInv /\ [TicketsNext]_TicketsVars => TicketsInv'
<1> SUFFICES ASSUME TicketsInv, [TicketsNext]_TicketsVars PROVE TicketsInv'
  OBVIOUS
<1>1. CASE UNCHANGED TicketsVars
  BY <1>1 DEF TicketsVars, TicketsInv, TypeInv, CurrentInv, PrevInv, SealedInv,
              UseInv, UpToDate, Expired, TicketLifetime, IgnoredOnlyWhenOld,
              OldNeverOpens
<1>2. CASE Tick
  BY <1>2, TickInv
<1>3. CASE SSL_CTX_set_tlsext_ticket_keys
  BY <1>3, SetInv
<1>4. ASSUME NEW t \in Threads, NEW op \in {"seal", "open"}, Begin(t, op)
      PROVE  TicketsInv'
  BY <1>4, BeginInv
<1>5. ASSUME NEW t \in Threads, Check(t) \/ Rotate(t) \/ Seal(t)
      PROVE  TicketsInv'
  BY <1>5, CheckInv, RotateInv, SealInv
<1>6. ASSUME NEW t \in Threads, NEW name \in sealed, Open(t, name)
      PROVE  TicketsInv'
  BY <1>6, OpenInv
<1> QED
  BY <1>1, <1>2, <1>3, <1>4, <1>5, <1>6 DEF TicketsNext

\* ssl_ctx_rotate_ticket_encryption_key and its callers keep the inductive
\* invariant, whatever the threads and the clock do.
THEOREM TicketsInvariant == TicketsSpec => []TicketsInv
  BY TicketsInitInv, TicketsStepInv, PTL DEF TicketsSpec

\* A ticket is ignored only when its key is two intervals old, and one that
\* old does not open for a call that starts then: for any number of threads,
\* each acting on a time it read earlier.
THEOREM TicketLifetimeHolds == TicketsSpec => []TicketLifetime
<1>1. TicketsInv => TicketLifetime
  BY DEF TicketsInv
<1> QED
  BY <1>1, TicketsInvariant, PTL

\* ssl_encrypt_ticket_with_cipher_ctx never seals with a key that had expired
\* when its call started, although another thread may rotate between the
\* check and the use.
THEOREM SealsWithLiveKeyHolds == TicketsSpec => []SealsWithLiveKey
<1>1. TicketsInv => SealsWithLiveKey
  BY DEF TicketsInv, UseInv, UpToDate, SealsWithLiveKey
<1> QED
  BY <1>1, TicketsInvariant, PTL

\* The keys, the tickets and the calls keep their types.
THEOREM TicketsTyped == TicketsSpec => []TicketsTypeOK
<1>1. TicketsInv => TicketsTypeOK
  BY TicketsAssumption
     DEF TicketsInv, TypeInv, CurrentInv, PrevInv, TicketsTypeOK, KeyRecords,
         Names, Calls, NoKey
<1> QED
  BY <1>1, TicketsInvariant, PTL
=============================================================================
