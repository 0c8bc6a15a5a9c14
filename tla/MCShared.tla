------------------------------ MODULE MCShared ------------------------------
(***************************************************************************)
(* The components that several threads, or processes, share, for TLC: a    *)
(* behaviour chooses one of them, the focus, and takes its steps; the      *)
(* others stay as they start. The properties are those of the component in *)
(* focus.                                                                  *)
(***************************************************************************)
EXTENDS CryptoBufferPool, RSAPrivateKey, TLC

CONSTANTS
    Pair, SessionObjects, Ids, Limits, FlushEvery, HEAD, TAIL,
    Procs, Root, kReseedInterval, MaxEntropy, MaxCalls, MaxBusy, MaxEnables

VARIABLES
    focus,
    SessionId, ctx, refcount, age, step, session, extra,
    detection, proc, thread, entropy, outputs, repeated

\* One thread at a time uses a long list.
Busy(t) == step'[t] # "idle" \/ session'[t] # NULL
AtMostOneBusy == \A t, u \in Pair : Busy(t) /\ Busy(u) => t = u

\* IDs are interchangeable.  Sessions have one of two, or of a long list each
\* its own.
SomeIds == IF focus = "session_list"
           THEN \A s, t \in SessionObjects : SessionId[s] = SessionId[t] => s = t
           ELSE Cardinality({s \in SessionObjects : SessionId[s] = 1}) >= 2

Sessions == INSTANCE SessionCache
    WITH Threads <- Pair, Sessions <- SessionObjects, references <- refcount,
         pc <- step
Random   == INSTANCE RandomState
    WITH Threads <- Pair

SessionsVars == <<SessionId, ctx, refcount, age, step, session, extra>>
RandomVars == <<detection, proc, thread, entropy, outputs, repeated>>

vars == <<focus, PoolVars, SessionsVars, RandomVars, KeyVars>>

Init ==
    /\ focus \in {"pool", "sessions", "session_list", "random", "key"}
    /\ PoolInit /\ (focus # "pool" =>
         \A t \in Threads : ~arg[t].static)
    /\ Sessions!Init /\ (focus \notin {"sessions", "session_list"} =>
         /\ \A s \in SessionObjects : SessionId[s] = 1
         /\ ctx.session_cache_size = 1)
    /\ SomeIds
    /\ Random!Init /\ (focus # "random" =>
         detection = "none")
    /\ KeyInit

Next ==
    \/ /\ focus = "pool" /\ PoolNext
       /\ UNCHANGED <<focus, SessionsVars, RandomVars, KeyVars>>
    \/ /\ focus = "sessions" /\ Sessions!Next
       /\ ctx'.session_cache_size = 1
       /\ UNCHANGED <<focus, PoolVars, RandomVars, KeyVars>>
    \/ /\ focus = "session_list" /\ Sessions!Next
       /\ AtMostOneBusy
       /\ UNCHANGED <<focus, PoolVars, RandomVars, KeyVars>>
    \/ /\ focus = "random" /\ Random!Next
       /\ UNCHANGED <<focus, PoolVars, SessionsVars, KeyVars>>
    \/ /\ focus = "key" /\ KeyNext
       /\ UNCHANGED <<focus, PoolVars, SessionsVars, RandomVars>>

Spec == Init /\ [][Next]_vars

\* Threads and addresses are only compared for equality.  The
\* components share the names of theirs: Threads and SessionObjects are the
\* same three, Pair and Bufs the same two, which keeps the group small.
Symmetry == Permutations(Threads) \cup Permutations(Pair)

-----------------------------------------------------------------------------
\* SessionCache: a session is freed with its last reference, and the list
\* and the table hold the same sessions.
SessionsExact ==
    focus \in {"sessions", "session_list"} =>
        /\ Sessions!TypeOK
        /\ Sessions!ReferencesExact
        /\ Sessions!ListMatchesTable

\* SessionCache: the list of ssl_session.cc implements a bounded first-in
\* first-out queue, whichever threads add, remove and flush.
QueueSpec ==
    /\ Sessions!Queue!Init
    /\ [][(focus \in {"sessions", "session_list"}) =>
            [Sessions!Queue!Next]_(Sessions!Queue!vars)]_vars

\* RandomState: no two processes generate the same output, and a process
\* sees one fork generation.
NoRepeatedOutput ==
    /\ [](focus = "random" =>
            /\ Random!TypeOK
            /\ Random!NoRepeatedOutput)
    /\ Random!GenerationFixed
=============================================================================
