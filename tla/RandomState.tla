---------------------------- MODULE RandomState -----------------------------
(***************************************************************************)
(* The random numbers of a program that forks (BCM_rand_bytes in           *)
(* crypto/fipsmodule/rand/rand.cc.inc without FIPS,                        *)
(* CRYPTO_get_fork_generation in crypto/rand/fork_detect.cc).              *)
(*                                                                         *)
(* A CTR-DRBG is the sequence of what was mixed into it: seeds, and the    *)
(* additional data of each call, 0 when there is none.  What it generates  *)
(* is its state after the call, so equal states give equal output.         *)
(* Entropy is numbered: no two draws are equal.                            *)
(***************************************************************************)
EXTENDS Integers, Sequences, FiniteSets

CONSTANTS
    Procs, Threads,   \* address spaces, and the threads of each
    Root,             \* the address space that is there first
    kReseedInterval,  \* 4096 in the code
    MaxEntropy,       \* bound: draws of entropy
    MaxCalls,         \* bound: calls of BCM_rand_bytes
    MaxBusy,          \* bound: calls in progress at a time
    MaxEnables        \* bound: times fork-unsafe buffering is enabled in an
                      \* address space and those it was cloned from

VARIABLES
    detection,  \* how this platform detects forks
    proc,       \* per address space: see NewProcess
    thread,     \* per address space and thread: see NewThread
    entropy,    \* draws of entropy so far
    outputs,    \* everything generated
    repeated    \* some output was generated twice

vars == <<detection, proc, thread, entropy, outputs, repeated>>

NoState == [drbg |-> <<>>, generation |-> 0, calls |-> 0, unsafe |-> FALSE]

\* init_fork_detect and init_pthread_fork_detection; 0 without detection.
NewProcess ==
    [alive |-> TRUE, flag |-> TRUE, lock |-> FALSE, unsafe |-> FALSE,
     enables |-> 0,
     generation |-> IF detection = "none" THEN 0 ELSE 1]

NewThread == [pc |-> "idle", generation |-> 0, state |-> NoState]

Init ==
    /\ detection \in {"madvise", "atfork", "none"}
    /\ proc = [p \in Procs |-> [NewProcess EXCEPT !.alive = (p = Root)]]
    /\ thread = [p \in Procs |-> [t \in Threads |-> NewThread]]
    /\ entropy = 0 /\ outputs = {} /\ repeated = FALSE

At(p, t, where) == proc[p].alive /\ thread[p][t].pc = where

Busy == {pt \in Procs \X Threads : thread[pt[1]][pt[2]].pc # "idle"}

Step(p, t, th) == thread' = [thread EXCEPT ![p][t] = th]

-----------------------------------------------------------------------------
(***************************************************************************)
(* CRYPTO_get_fork_generation.  The kernel clears the flag in the child.   *)
(***************************************************************************)
LoadFlag(p, t) ==
    /\ At(p, t, "idle")
    /\ Cardinality(Busy) < MaxBusy
    /\ Cardinality(Busy) + Cardinality(outputs) < MaxCalls
    /\ Step(p, t, [thread[p][t] EXCEPT
                     !.pc = IF detection # "madvise" \/ proc[p].flag
                            THEN "read" ELSE "lock"])
    /\ UNCHANGED <<detection, proc, entropy, outputs, repeated>>

ReadGeneration(p, t) ==
    /\ At(p, t, "read")
    /\ Step(p, t, [thread[p][t] EXCEPT !.pc = "generate",
                                       !.generation = proc[p].generation])
    /\ UNCHANGED <<detection, proc, entropy, outputs, repeated>>

LockWrite(p, t) ==
    /\ At(p, t, "lock") /\ ~proc[p].lock
    /\ proc' = [proc EXCEPT ![p].lock = TRUE]
    /\ Step(p, t, [thread[p][t] EXCEPT !.pc = "check"])
    /\ UNCHANGED <<detection, entropy, outputs, repeated>>

ForkSeen(p) == ~proc[p].flag

CheckFlag(p, t) ==
    /\ At(p, t, "check")
    /\ Step(p, t, [thread[p][t] EXCEPT
                     !.pc = IF ForkSeen(p) THEN "first store" ELSE "unlock",
                     !.generation = proc[p].generation + (IF ForkSeen(p) THEN 1 ELSE 0)])
    /\ UNCHANGED <<detection, proc, entropy, outputs, repeated>>

\* "We must update |generation_ptr| before |flag_ptr|."
StoreOrder == <<"generation", "flag">>

Store(p, t) ==
    \E i \in DOMAIN StoreOrder :
      /\ At(p, t, <<"first store", "second store">>[i])
      /\ proc' = IF StoreOrder[i] = "flag"
                 THEN [proc EXCEPT ![p].flag = TRUE]
                 ELSE [proc EXCEPT ![p].generation = thread[p][t].generation]
      /\ Step(p, t, [thread[p][t] EXCEPT
                       !.pc = <<"second store", "unlock">>[i]])
      /\ UNCHANGED <<detection, entropy, outputs, repeated>>

UnlockWrite(p, t) ==
    /\ At(p, t, "unlock")
    /\ proc' = [proc EXCEPT ![p].lock = FALSE]
    /\ Step(p, t, [thread[p][t] EXCEPT !.pc = "generate"])
    /\ UNCHANGED <<detection, entropy, outputs, repeated>>

-----------------------------------------------------------------------------
(***************************************************************************)
(* The rest of BCM_rand_bytes_with_additional_data is of the thread's own  *)
(* state: st is what it starts from, seeded or not, and n the entropy      *)
(* drawn before.                                                           *)
(***************************************************************************)
\* Mutant: a state that was seeded with other preferences is kept.
MustReseed_AnyPreference(st, generation, unsafe) ==
    st.calls >= kReseedInterval \/ st.generation # generation

MustReseed(st, generation, unsafe) ==
    \/ st.calls >= kReseedInterval
    \/ st.generation # generation
    \/ st.unsafe # unsafe

\* CTR_DRBG_init and CTR_DRBG_reseed
Seeded(drbg, n, generation, unsafe) ==
    [drbg |-> Append(drbg, n + 1), generation |-> generation, calls |-> 0,
     unsafe |-> unsafe]

\* Additional data is drawn when a fork could go unnoticed.
DrawsAdditional(generation, unsafe) == generation = 0 /\ ~unsafe

Generated(st, additional) ==
    [st EXCEPT !.drbg = Append(@, additional), !.calls = @ + 1]

\* keep: whether the thread could allocate and register its state.
Output(p, t, st, n, keep) ==
    /\ n <= MaxEntropy
    /\ entropy' = n
    /\ outputs' = outputs \cup {st.drbg}
    /\ repeated' = (repeated \/ st.drbg \in outputs)
    /\ Step(p, t, [NewThread EXCEPT !.state = IF keep THEN st ELSE NoState])
    /\ UNCHANGED <<detection, proc>>

GenerateFrom(p, t, st, n, generation, unsafe, keep) ==
    IF DrawsAdditional(generation, unsafe)
    THEN Output(p, t, Generated(st, n + 1), n + 1, keep)
    ELSE Output(p, t, Generated(st, 0), n, keep)

Generate(p, t, unsafe) ==
    LET st == thread[p][t].state
        g  == thread[p][t].generation
    IN  IF st = NoState
        THEN \E keep \in BOOLEAN :
               GenerateFrom(p, t, Seeded(<<>>, entropy, g, unsafe),
                            entropy + 1, g, unsafe, keep)
        ELSE IF MustReseed(st, g, unsafe)
        THEN GenerateFrom(p, t, Seeded(st.drbg, entropy, g, unsafe),
                          entropy + 1, g, unsafe, TRUE)
        ELSE GenerateFrom(p, t, st, entropy, g, unsafe, TRUE)

BCM_rand_bytes(p, t) ==
    /\ At(p, t, "generate")
    /\ Generate(p, t, proc[p].unsafe)

\* rand_thread_state_free when the thread exits; another may take its place.
ThreadExit(p, t) ==
    /\ At(p, t, "idle") /\ thread[p][t].state # NoState
    /\ Step(p, t, NewThread)
    /\ UNCHANGED <<detection, proc, entropy, outputs, repeated>>

-----------------------------------------------------------------------------
(***************************************************************************)
(* External: the application and fork(2).  While fork-unsafe buffering is  *)
(* enabled the application keeps its word that clones of the address space *)
(* "will never call into BoringSSL" (include/openssl/rand.h:36), so those  *)
(* are left out; RAND_disable_fork_unsafe_buffering "restores BoringSSL's  *)
(* default fork-safety protections", so it may fork again after it.  A     *)
(* process forks when none of its threads holds the lock: the child of one *)
(* that does could never take it.                                          *)
(***************************************************************************)
SetForkUnsafe(p, on) ==
    /\ proc[p].alive /\ proc[p].unsafe # on
    /\ on => proc[p].enables < MaxEnables
    /\ proc' = [proc EXCEPT ![p].unsafe = on,
                            ![p].enables = IF on THEN @ + 1 ELSE @]
    /\ UNCHANGED <<detection, thread, entropy, outputs, repeated>>

\* The child's copy: the kernel wipes the flag, or we_are_forked runs.
Forked(parent) ==
    CASE detection = "madvise" -> [parent EXCEPT !.flag = FALSE]
      [] detection = "atfork"  -> [parent EXCEPT !.generation = @ + 1]
      [] OTHER                 -> parent

Fork(p, t, child) ==
    /\ At(p, t, "idle") /\ ~proc[p].unsafe /\ ~proc[p].lock
    /\ ~proc[child].alive
    /\ proc' = [proc EXCEPT ![child] = Forked(proc[p])]
    /\ thread' = [thread EXCEPT ![child][t] = thread[p][t]]
    /\ UNCHANGED <<detection, entropy, outputs, repeated>>

Next ==
    \E p \in Procs :
      \/ \E on \in BOOLEAN : SetForkUnsafe(p, on)
      \/ \E t \in Threads :
           \/ LoadFlag(p, t)
           \/ ReadGeneration(p, t)
           \/ LockWrite(p, t)
           \/ CheckFlag(p, t)
           \/ Store(p, t)
           \/ UnlockWrite(p, t)
           \/ BCM_rand_bytes(p, t)
           \/ ThreadExit(p, t)
           \/ \E child \in Procs : Fork(p, t, child)

Spec == Init /\ [][Next]_vars

-----------------------------------------------------------------------------
\* The types of the processes, their threads and what was generated
TypeOK ==
    /\ detection \in {"madvise", "atfork", "none"}
    /\ \A p \in Procs :
         /\ proc[p].generation \in Nat
         /\ \A f \in {"alive", "flag", "lock", "unsafe"} : proc[p][f] \in BOOLEAN
         /\ \A t \in Threads : thread[p][t].state.calls \in 0..kReseedInterval
    /\ entropy \in 0..MaxEntropy
    /\ repeated \in BOOLEAN

\* Whatever forks, before fork-unsafe buffering is enabled or after it was
\* disabled again, and whichever thread of the child asks first: no two calls
\* of BCM_rand_bytes, of any threads of any of the processes, generate the same
\* output.  MaxEnables = 1 is what this takes on a platform without fork
\* detection.  Two clones of a process that disabled the buffering, if both
\* enable it again, go on from one state that was seeded with it enabled.
NoRepeatedOutput == ~repeated

\* "The flag and generation number are fixed for this copy of the address
\* space": once the flag is set, neither changes.
GenerationFixed ==
    [][\A p \in Procs :
         proc[p].alive /\ proc[p].flag =>
             proc'[p].flag /\ proc'[p].generation = proc[p].generation]_vars
=============================================================================
