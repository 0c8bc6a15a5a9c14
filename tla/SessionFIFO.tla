----------------------------- MODULE SessionFIFO ----------------------------
(***************************************************************************)
(* What the internal session cache of an SSL_CTX promises: a queue of      *)
(* sessions, newest first, with one session for each session ID, from      *)
(* which the oldest are dropped when it grows beyond its limit.            *)
(***************************************************************************)
EXTENDS Integers, Sequences

CONSTANTS Sessions, Limits

VARIABLES
    SessionId, \* of each session; never changes
    order, \* the sessions, newest first
    limit, \* the largest number of them after a session is added; 0 for none
    age,   \* of each session
    named  \* the sessions whose removal is asked for

vars == <<SessionId, order, limit, age, named>>

Init ==
    /\ order = << >> /\ limit \in Limits /\ named = {}
    /\ age = [s \in Sessions |-> "valid"]

Cached(s) == \E i \in DOMAIN order : order[i] = s

Without(gone) ==
    LET stays(x) == x \notin gone IN SelectSeq(order, stays)

\* Adding replaces the session with the same ID and drops the oldest.
Add(s) ==
    LET longer == <<s>> \o Without({x \in Sessions : SessionId[x] = SessionId[s]})
        size   == IF limit = 0 \/ Len(longer) < limit THEN Len(longer) ELSE limit
    IN  /\ ~Cached(s)
        /\ order' = SubSeq(longer, 1, size)
        /\ UNCHANGED <<limit, age, named>>

\* A removal takes the session that was asked for and no other.
Remove(s) ==
    /\ s \in named /\ Cached(s)
    /\ order' = Without({s})
    /\ named' \subseteq named
    /\ UNCHANGED <<limit, age>>

Flush(all) ==
    /\ order' = Without({s \in Sessions : all \/ age[s] = "expired"})
    /\ UNCHANGED <<limit, age, named>>

\* What happens around the cache.
Environment ==
    /\ UNCHANGED order /\ named' \subseteq Sessions
    /\ \/ UNCHANGED <<limit, age>>
       \/ limit' \in Limits /\ UNCHANGED age
       \/ age' \in [Sessions -> {"valid", "ended", "expired"}] /\ UNCHANGED limit

Next ==
    /\ UNCHANGED SessionId
    /\ \/ Environment
       \/ \E s \in Sessions : Add(s) \/ Remove(s)
       \/ \E all \in BOOLEAN : Flush(all)

Spec == Init /\ [][Next]_vars
=============================================================================
