----------------------------- MODULE TicketKeys -----------------------------
(***************************************************************************)
(* The keys that seal session tickets (ssl_ctx_rotate_ticket_encryption_key*)
(* in ssl/ssl_session.cc and its callers).  Threads that share an SSL_CTX  *)
(* seal and open tickets while time passes; each call reads the clock once,*)
(* before it takes the lock.  A section under ctx->lock is one step.       *)
(***************************************************************************)
EXTENDS Integers

CONSTANTS
    Threads,
    Interval,  \* SSL_DEFAULT_TICKET_KEY_ROTATION_INTERVAL
    MaxTime,   \* bound: the last reading of the clock
    MaxKeys    \* bound: keys ever made

ASSUME TicketsAssumption ==
    Interval \in Nat \ {0} /\ MaxTime \in Nat \ {0} /\ MaxKeys \in Nat

VARIABLES
    clock,               \* the current time
    ticket_key_current, ticket_key_prev,
    keys,                \* keys made so far; they are numbered
    sealed,              \* the keys that tickets were sealed with
    call,                \* per thread: the call in progress
    result               \* what the last step did to a ticket it opened

TicketsVars == <<clock, ticket_key_current, ticket_key_prev, keys, sealed, call,
          result>>

NoKey == [key |-> 0, made |-> 0, next_rotation |-> 0]

NoResult == [opened |-> TRUE, key |-> NoKey, began |-> 0, at |-> 0]

Idle == [pc |-> "idle", op |-> "none", now |-> 0]

TicketsInit ==
    /\ clock = 1 /\ keys = 0 /\ sealed = {}
    /\ ticket_key_current = NoKey /\ ticket_key_prev = NoKey
    /\ call = [t \in Threads |-> Idle]
    /\ result = NoResult

Tick ==
    /\ clock < MaxTime /\ clock' = clock + 1
    /\ result' = NoResult
    /\ UNCHANGED <<ticket_key_current, ticket_key_prev, keys, sealed, call>>

Expired(k, now) == k.next_rotation <= now

\* ssl_ctx_get_current_time
Begin(t, op) ==
    /\ call[t] = Idle
    /\ call' = [call EXCEPT ![t] = [pc |-> "check", op |-> op, now |-> clock]]
    /\ result' = NoResult
    /\ UNCHANGED <<clock, ticket_key_current, ticket_key_prev, keys, sealed>>

\* Mutant: an expired prev does not send the caller to the write lock.
UpToDate_CurrentOnly(now) ==
    /\ ticket_key_current # NoKey
    /\ ticket_key_current.next_rotation = 0 \/ ~Expired(ticket_key_current, now)

UpToDate(now) ==
    /\ ticket_key_current # NoKey
    /\ ticket_key_current.next_rotation = 0 \/ ~Expired(ticket_key_current, now)
    /\ ticket_key_prev # NoKey => ~Expired(ticket_key_prev, now)

\* Under the read lock.
Check(t) ==
    /\ call[t].pc = "check"
    /\ call' = [call EXCEPT ![t].pc = IF UpToDate(call[t].now) THEN "use"
                                      ELSE "rotate"]
    /\ result' = NoResult
    /\ UNCHANGED <<clock, ticket_key_current, ticket_key_prev, keys, sealed>>

MustRotate(now) ==
    \/ ticket_key_current = NoKey
    \/ /\ ticket_key_current.next_rotation # 0
       /\ Expired(ticket_key_current, now)

Retired(k) ==
    IF k = NoKey THEN ticket_key_prev
    ELSE [k EXCEPT !.next_rotation = @ + Interval]

DropExpired(k, now) == IF k # NoKey /\ Expired(k, now) THEN NoKey ELSE k

\* Under the write lock; the new key may fail to be allocated.
Rotate(t) ==
    /\ call[t].pc = "rotate"
    /\ LET now == call[t].now IN
       \/ /\ MustRotate(now) /\ keys < MaxKeys
          /\ keys' = keys + 1
          /\ ticket_key_current' = [key |-> keys + 1, made |-> now,
                                    next_rotation |-> now + Interval]
          /\ ticket_key_prev' = DropExpired(Retired(ticket_key_current), now)
          /\ call' = [call EXCEPT ![t].pc = "use"]
       \/ /\ MustRotate(now)
          /\ call' = [call EXCEPT ![t] = Idle]
          /\ UNCHANGED <<ticket_key_current, ticket_key_prev, keys>>
       \/ /\ ~MustRotate(now)
          /\ ticket_key_prev' = DropExpired(ticket_key_prev, now)
          /\ call' = [call EXCEPT ![t].pc = "use"]
          /\ UNCHANGED <<ticket_key_current, keys>>
    /\ result' = NoResult
    /\ UNCHANGED <<clock, sealed>>

\* A key as a ticket names it.
Name(k) == [key |-> k.key, made |-> k.made]

\* ssl_encrypt_ticket_with_cipher_ctx, under the read lock.
Seal(t) ==
    /\ call[t].pc = "use" /\ call[t].op = "seal"
    /\ sealed' = sealed \cup {Name(ticket_key_current)}
    /\ call' = [call EXCEPT ![t] = Idle]
    /\ result' = NoResult
    /\ UNCHANGED <<clock, ticket_key_current, ticket_key_prev, keys>>

\* ssl_decrypt_ticket_with_ticket_keys, under the read lock.
Open(t, name) ==
    /\ call[t].pc = "use" /\ call[t].op = "open"
    /\ result' = [opened |-> \E k \in {ticket_key_current, ticket_key_prev} :
                               k # NoKey /\ Name(k) = name,
                  key |-> name, began |-> call[t].now, at |-> clock]
    /\ call' = [call EXCEPT ![t] = Idle]
    /\ UNCHANGED <<clock, ticket_key_current, ticket_key_prev, keys, sealed>>

\* SSL_CTX_set_tlsext_ticket_keys takes no lock: no other call is in progress.
\* The tickets of the keys before it are given up.
SSL_CTX_set_tlsext_ticket_keys ==
    /\ \A t \in Threads : call[t] = Idle
    /\ keys < MaxKeys /\ keys' = keys + 1
    /\ ticket_key_current' = [key |-> keys + 1, made |-> clock,
                              next_rotation |-> 0]
    /\ ticket_key_prev' = NoKey
    /\ sealed' = {}
    /\ result' = NoResult
    /\ UNCHANGED <<clock, call>>

TicketsNext ==
    \/ Tick
    \/ SSL_CTX_set_tlsext_ticket_keys
    \/ \E t \in Threads :
         \/ \E op \in {"seal", "open"} : Begin(t, op)
         \/ Check(t)
         \/ Rotate(t)
         \/ Seal(t)
         \/ \E name \in sealed : Open(t, name)

TicketsSpec == TicketsInit /\ [][TicketsNext]_TicketsVars

-----------------------------------------------------------------------------
\* The types of the two keys, the tickets and the calls
TicketsTypeOK ==
    /\ clock \in 1..MaxTime /\ keys \in 0..MaxKeys
    /\ \A k \in {ticket_key_current, ticket_key_prev} :
         k.key \in 0..MaxKeys /\ k.next_rotation \in 0..(MaxTime + 2 * Interval)
    /\ sealed \subseteq [key : 1..MaxKeys, made : 1..MaxTime]
    /\ \A t \in Threads : call[t].now \in 0..clock

\* A ticket is ignored only when two intervals have passed since its key was
\* made, whichever threads rotated the keys in between and however late they
\* acted on the time they had read.
IgnoredOnlyWhenOld ==
    ~result.opened => result.at >= result.key.made + 2 * Interval

\* A call that starts two intervals after the ticket's key was made does not
\* open it, unless the application set that key itself.
OldNeverOpens ==
    result.opened /\ result.key # NoKey =>
        \/ result.began < result.key.made + 2 * Interval
        \/ ticket_key_current.next_rotation = 0

\* What a ticket is worth: ssl_ctx_rotate_ticket_encryption_key keeps it
\* readable for one interval at least and two at most after its key.
TicketLifetime == IgnoredOnlyWhenOld /\ OldNeverOpens

\* No call seals with a key that had expired when the call started.
SealsWithLiveKey ==
    \A t \in Threads : call[t].pc = "use" =>
        \/ ticket_key_current.next_rotation = 0
        \/ ~Expired(ticket_key_current, call[t].now)
=============================================================================
