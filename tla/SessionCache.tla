---------------------------- MODULE SessionCache ----------------------------
(***************************************************************************)
(* The internal session cache of an SSL_CTX (ssl/ssl_session.cc): a hash   *)
(* table by session ID and a doubly linked list, newest first, that share  *)
(* one reference to each session, used by several threads.  A step is a    *)
(* critical section of ctx->lock, or an atomic change of a reference count *)
(* outside it.                                                             *)
(***************************************************************************)
EXTENDS Integers, FiniteSets, SequencesExt

CONSTANTS
    Threads,
    Sessions,   \* addresses of SSL_SESSION objects
    Ids,
    Limits,     \* values of SSL_CTX_sess_set_cache_size
    FlushEvery, \* 255 in the code
    HEAD, TAIL, \* the addresses of session_cache_head and session_cache_tail
    NULL

VARIABLES
    SessionId,  \* the session ID of each session; never changes
    ctx,        \* the cache: table, list and the limit
    references, \* of each session; 0 when it is freed
    age,        \* "valid", "ended" (exactly at its timeout) or "expired"
    pc,         \* per thread: the next step of its call
    session,    \* per thread: the session of its connection
    extra       \* per thread: a further reference held during a call

vars == <<SessionId, ctx, references, age, pc, session, extra>>

Nobody == [t \in Threads |-> NULL]

Init ==
    /\ SessionId \in [Sessions -> Ids]
    /\ \E n \in Limits :
          ctx = [sessions |-> [i \in Ids |-> NULL],
                 head |-> NULL, tail |-> NULL,
                 next |-> [s \in Sessions |-> NULL],
                 prev |-> [s \in Sessions |-> NULL],
                 session_cache_size |-> n, handshakes |-> 0]
    /\ references = [s \in Sessions |-> 0]
    /\ age = [s \in Sessions |-> "valid"]
    /\ pc = [t \in Threads |-> "idle"]
    /\ session = Nobody /\ extra = Nobody

-----------------------------------------------------------------------------
(* The structures.  Each operator takes a cache and returns it changed.    *)

InTable(c, s) == c.sessions[SessionId[s]] = s

NumItems(c) == Cardinality({i \in DOMAIN c.sessions : c.sessions[i] # NULL})

SSL_SESSION_list_remove(c, s) ==
    LET n == c.next[s]  p == c.prev[s]
        c1 == IF n = TAIL THEN [c EXCEPT !.tail = IF p = HEAD THEN NULL ELSE p]
              ELSE [c EXCEPT !.prev[n] = p]
        c2 == IF p = HEAD THEN [c1 EXCEPT !.head = IF n = TAIL THEN NULL ELSE n]
              ELSE [c1 EXCEPT !.next[p] = n]
    IN  IF n = NULL \/ p = NULL THEN c
        ELSE [c2 EXCEPT !.prev[s] = NULL, !.next[s] = NULL]

SSL_SESSION_list_add(c, s) ==
    LET d == IF c.next[s] # NULL /\ c.prev[s] # NULL
             THEN SSL_SESSION_list_remove(c, s) ELSE c
    IN  IF d.head = NULL
        THEN [d EXCEPT !.head = s, !.tail = s, !.prev[s] = HEAD, !.next[s] = TAIL]
        ELSE [d EXCEPT !.next[s] = d.head, !.prev[d.head] = s, !.prev[s] = HEAD,
                       !.head = s]

\* Mutant: whatever session has this ID is removed.
Unlinked_ById(c, s) ==
    LET found == c.sessions[SessionId[s]]
    IN  IF found = NULL THEN c
        ELSE SSL_SESSION_list_remove(
                [c EXCEPT !.sessions[SessionId[s]] = NULL], found)

\* The two structures without s, if s is the session they hold.
Unlinked(c, s) ==
    IF InTable(c, s)
    THEN SSL_SESSION_list_remove([c EXCEPT !.sessions[SessionId[s]] = NULL], s)
    ELSE c

\* The size limit: the oldest leave.
RECURSIVE Evict(_)
Evict(c) ==
    IF /\ c.session_cache_size > 0 /\ NumItems(c) > c.session_cache_size
       /\ c.tail # NULL /\ InTable(c, c.tail)
    THEN Evict(Unlinked(c, c.tail)) ELSE c

\* add_session_locked: the table and the list with s.
Linked(c, s) ==
    LET old == c.sessions[SessionId[s]]
        c1  == [c EXCEPT !.sessions[SessionId[s]] = s]
        c2  == IF old = NULL THEN c1 ELSE SSL_SESSION_list_remove(c1, old)
    IN  IF old = s THEN c ELSE Evict(SSL_SESSION_list_add(c2, s))

\* The sessions whose reference the cache gave up.
Dropped(c, d) == {s \in Sessions : InTable(c, s) /\ ~InTable(d, s)}

-----------------------------------------------------------------------------
(* The calls.                                                              *)

Goto(t, where) == pc' = [pc EXCEPT ![t] = where]

Fresh(t, s) ==
    /\ pc[t] = "idle" /\ session[t] = NULL /\ references[s] = 0
    /\ references' = [references EXCEPT ![s] = 1]
    /\ session' = [session EXCEPT ![t] = s]
    /\ UNCHANGED <<ctx, extra>>

\* A full handshake makes a new session.
NewSession(t, s) ==
    /\ Fresh(t, s)
    /\ age' = [age EXCEPT ![s] = "valid"]
    /\ Goto(t, "handshake")

\* The internal cache has no such session, but get_session_cb returns one, of
\* any age, with a reference for the lookup.
ExternalSession(t, s) ==
    /\ ctx.sessions[SessionId[s]] = NULL
    /\ Fresh(t, s)
    /\ \E a \in {"valid", "ended", "expired"} : age' = [age EXCEPT ![s] = a]
    /\ Goto(t, "external")

\* The clock advances.
Age(s) ==
    /\ references[s] > 0 /\ age[s] # "expired"
    /\ age' = [age EXCEPT ![s] = IF @ = "valid" THEN "ended" ELSE "expired"]
    /\ UNCHANGED <<ctx, references, pc, session, extra>>

\* The cache's reference is taken before the lock, by SSL_CTX_add_session, from
\* the application ("add") or the lookup ("add_external"), and by
\* ssl_update_cache at the end of a full handshake ("update").
UpRef(t) ==
    /\ session[t] # NULL /\ pc[t] \in {"idle", "external", "handshake"}
    /\ references' = [references EXCEPT ![session[t]] = @ + 1]
    /\ extra' = [extra EXCEPT ![t] = session[t]]
    /\ Goto(t, CASE pc[t] = "idle" -> "add"
                 [] pc[t] = "external" -> "add_external"
                 [] pc[t] = "handshake" -> "update")
    /\ UNCHANGED <<ctx, age, session>>

\* handshakes_since_cache_flush, back to 0 when a flush is due.
Counted(c, call) ==
    IF call = "update" THEN [c EXCEPT !.handshakes = (@ + 1) % FlushEvery] ELSE c

AfterAdd(call) ==
    CASE call = "add_external" -> "check"
      [] call = "update" /\ ctx.handshakes + 1 >= FlushEvery -> "flush"
      [] OTHER -> "idle"

\* Mutant: a session that was in the cache already keeps the second reference.
Released_OnlyOthers(c, d, s) ==
    [x \in Sessions |-> references[x] - (IF x \in Dropped(c, d) THEN 1 ELSE 0)]

\* The reference taken for s goes back when the cache already had one.
Released(c, d, s) ==
    [x \in Sessions |->
        references[x] - (IF x \in Dropped(c, d) THEN 1 ELSE 0)
                      - (IF x = s /\ InTable(c, s) THEN 1 ELSE 0)]

add_session_locked(t) ==
    LET s == extra[t]  d == Linked(ctx, s)
    IN  /\ pc[t] \in {"add", "add_external", "update"}
        /\ ctx' = Counted(d, pc[t])
        /\ references' = Released(ctx, d, s)
        /\ extra' = [extra EXCEPT ![t] = NULL]
        /\ Goto(t, AfterAdd(pc[t]))
        /\ UNCHANGED <<age, session>>

\* lh_insert could not allocate an entry: the reference is given up.
AddFails(t) ==
    /\ pc[t] \in {"add", "add_external", "update"}
    /\ ctx.sessions[SessionId[extra[t]]] = NULL
    /\ ctx' = Counted(ctx, pc[t])
    /\ references' = [references EXCEPT ![extra[t]] = @ - 1]
    /\ extra' = [extra EXCEPT ![t] = NULL]
    /\ Goto(t, AfterAdd(pc[t]))
    /\ UNCHANGED <<age, session>>

\* timeout_doall_arg for every session.
RECURSIVE UnlinkedAll(_, _)
UnlinkedAll(c, gone) ==
    IF gone = {} THEN c
    ELSE LET s == CHOOSE x \in gone : TRUE
         IN  UnlinkedAll(Unlinked(c, s), gone \ {s})

\* SSL_CTX_flush_sessions with the current time, also from ssl_update_cache,
\* or with 0, for every session.
SSL_CTX_flush_sessions(t, all) ==
    LET gone == {s \in Sessions : InTable(ctx, s) /\ (all \/ age[s] = "expired")}
    IN  /\ pc[t] = "idle" \/ (pc[t] = "flush" /\ ~all)
        /\ ctx' = UnlinkedAll(ctx, gone)
        /\ references' = [s \in Sessions |->
                             IF s \in gone THEN references[s] - 1 ELSE references[s]]
        /\ Goto(t, "idle")
        /\ UNCHANGED <<age, session, extra>>

\* The lookup takes its reference under the lock and looks at the time after.
ssl_lookup_session(t, i) ==
    LET s == ctx.sessions[i] IN
    /\ pc[t] = "idle" /\ session[t] = NULL /\ s # NULL
    /\ references' = [references EXCEPT ![s] = @ + 1]
    /\ session' = [session EXCEPT ![t] = s]
    /\ Goto(t, "check")
    /\ UNCHANGED <<ctx, age, extra>>

ssl_session_is_time_valid(t) ==
    /\ pc[t] = "check"
    /\ Goto(t, IF age[session[t]] = "valid" THEN "idle" ELSE "remove_expired")
    /\ UNCHANGED <<ctx, references, age, session, extra>>

\* SSL_CTX_remove_session.
BeginRemove(t) ==
    /\ pc[t] = "idle" /\ session[t] # NULL
    /\ Goto(t, "remove")
    /\ UNCHANGED <<ctx, references, age, session, extra>>

\* The cache's reference is given up after the lock is released.
remove_session(t) ==
    LET s == session[t] IN
    /\ pc[t] \in {"remove", "remove_expired"}
    /\ ctx' = Unlinked(ctx, s)
    /\ extra' = [extra EXCEPT ![t] = IF InTable(ctx, s) THEN s ELSE NULL]
    /\ Goto(t, IF pc[t] = "remove" THEN "free_found" ELSE "free_both")
    /\ UNCHANGED <<references, age, session>>

\* SSL_SESSION_free of what remove_session found; an expired session is then
\* dropped by the lookup as well.
FreeFound(t) ==
    /\ pc[t] \in {"free_found", "free_both"}
    /\ references' = IF extra[t] = NULL THEN references
                     ELSE [references EXCEPT ![extra[t]] = @ - 1]
    /\ extra' = [extra EXCEPT ![t] = NULL]
    /\ Goto(t, IF pc[t] = "free_found" THEN "idle" ELSE "drop")
    /\ UNCHANGED <<ctx, age, session>>

\* The connection, a failed handshake or the lookup gives up its reference.
SSL_SESSION_free(t) ==
    /\ pc[t] \in {"idle", "handshake", "drop"} /\ session[t] # NULL
    /\ references' = [references EXCEPT ![session[t]] = @ - 1]
    /\ session' = [session EXCEPT ![t] = NULL]
    /\ Goto(t, "idle")
    /\ UNCHANGED <<ctx, age, extra>>

SSL_CTX_sess_set_cache_size(n) ==
    /\ n # ctx.session_cache_size
    /\ ctx' = [ctx EXCEPT !.session_cache_size = n]
    /\ UNCHANGED <<references, age, pc, session, extra>>

Step(t) ==
    \/ \E s \in Sessions : NewSession(t, s) \/ ExternalSession(t, s)
    \/ UpRef(t) \/ add_session_locked(t) \/ AddFails(t)
    \/ \E all \in BOOLEAN : SSL_CTX_flush_sessions(t, all)
    \/ \E i \in Ids : ssl_lookup_session(t, i)
    \/ ssl_session_is_time_valid(t)
    \/ BeginRemove(t) \/ remove_session(t) \/ FreeFound(t) \/ SSL_SESSION_free(t)

Next ==
    /\ \/ \E t \in Threads : Step(t)
       \/ \E s \in Sessions : Age(s)
       \/ \E n \in Limits : SSL_CTX_sess_set_cache_size(n)
    /\ UNCHANGED SessionId

Spec == Init /\ [][Next]_vars

-----------------------------------------------------------------------------
Nodes == Sessions \cup {HEAD, TAIL, NULL}

\* The types of the cache, the counts and the threads' calls.
TypeOK ==
    /\ SessionId \in [Sessions -> Ids]
    /\ ctx.sessions \in [Ids -> Sessions \cup {NULL}]
    /\ ctx.head \in Sessions \cup {NULL} /\ ctx.tail \in Sessions \cup {NULL}
    /\ ctx.next \in [Sessions -> Nodes] /\ ctx.prev \in [Sessions -> Nodes]
    /\ ctx.session_cache_size \in Limits /\ ctx.handshakes \in 0 .. FlushEvery - 1
    /\ references \in [Sessions -> Nat]
    /\ age \in [Sessions -> {"valid", "ended", "expired"}]
    /\ pc \in [Threads -> {"idle", "handshake", "external", "add", "add_external",
                         "update", "flush", "check", "remove", "remove_expired",
                         "free_found", "free_both", "drop"}]
    /\ session \in [Threads -> Sessions \cup {NULL}]
    /\ extra \in [Threads -> Sessions \cup {NULL}]

Owners(s) == Cardinality({t \in Threads : session[t] = s})
               + Cardinality({t \in Threads : extra[t] = s})
               + (IF InTable(ctx, s) THEN 1 ELSE 0)

\* A session's count is the number of connections, calls in progress and the
\* cache (once, although it is in two structures) that refer to it, so it is
\* freed neither early nor never.
ReferencesExact == \A s \in Sessions : references[s] = Owners(s)

\* The list as its next pointers give it, and as its prev pointers give it.
Forwards ==
    LET walk[n \in 0 .. Cardinality(Sessions)] ==
            IF n = 0 THEN << >>
            ELSE LET w == walk[n - 1]
                     q == IF w = << >> THEN ctx.head ELSE ctx.next[Last(w)]
                 IN  IF q \in Sessions THEN Append(w, q) ELSE w
    IN  walk[Cardinality(Sessions)]

Backwards ==
    LET walk[n \in 0 .. Cardinality(Sessions)] ==
            IF n = 0 THEN << >>
            ELSE LET w == walk[n - 1]
                     p == IF w = << >> THEN ctx.tail ELSE ctx.prev[Head(w)]
                 IN  IF p \in Sessions THEN <<p>> \o w ELSE w
    IN  walk[Cardinality(Sessions)]

\* The list reads the same in both directions, holds each session of the table
\* once, and a session that is not in the table has no pointers into it, after
\* any mix of collisions, evictions, flushes and removals by several threads.
ListMatchesTable ==
    LET list == Forwards
        held == {s \in Sessions : InTable(ctx, s)}
    IN  /\ list = Backwards
        /\ Range(list) = held /\ Len(list) = Cardinality(held)
        /\ \A s \in Sessions \ held : ctx.next[s] = NULL /\ ctx.prev[s] = NULL

\* The sessions that SSL_CTX_remove_session is called with.
Named == {session[t] : t \in {u \in Threads : pc[u] \in {"remove", "remove_expired"}}}

Queue == INSTANCE SessionFIFO
    WITH order <- Forwards, limit <- ctx.session_cache_size, named <- Named

\* The table and the list implement a bounded queue with one session for each
\* ID.  A session leaves only when a thread removes that very session, it
\* expired and the cache is flushed, it is replaced, or it is the oldest of too
\* many; a thread that removes a session it looked up earlier never removes the
\* one that replaced it.
QueueSpec == Queue!Spec
=============================================================================
