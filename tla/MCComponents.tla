---------------------------- MODULE MCComponents ----------------------------
(***************************************************************************)
(* The components that one thread uses at a time, for TLC: a behaviour     *)
(* chooses one of them, the focus, and takes its steps; the others stay as *)
(* they start. The properties are those of the component in focus.         *)
(***************************************************************************)
EXTENDS DTLSReplay, DTLSReassembly, BIOPair, BNModInverse, TicketKeys, TLC

CONSTANTS
    ERR_NUM_ERRORS, Codes, Strings,
    Elements, kMinSize, MaxNum,
    Keys, kMinNumBuckets, kMaxAverageChainLength, kMinAverageChainLength,
    Radix, MaxLenBytes, Capacities, HeapLimits, MaxDepth,
    M, PerMs, Slack, Max64, TvSecMax, MaxDuration, Durations, Clocks

VARIABLES
    focus,
    bytes_, first_unmarked_byte_, num_bits, marked,
    errors, top, bottom, to_free, saved, heap, lent, popped,
    data, sorted, num_alloc, comp,
    buckets, num_items, callback_depth, iter, contents, visit,
    base, children, space, frames, last,
    now, retransmit_timer, ack_timer, timeout_duration_ms, num_timeouts,
    slept

MCChunks == {<<1>>, <<2, 0, 7, 3, 5>>}
MCTags == {[bits |-> 0, number |-> 1], [bits |-> 4, number |-> 9]}
MCPow == [k \in 0..MaxBits |-> 2^k]

Bitmap  == INSTANCE DTLSMessageBitmap
Errors  == INSTANCE ErrorQueue
    WITH result <- popped
Stack   == INSTANCE Stack
Hash    == INSTANCE LHash
    WITH Values <- {1, 2}
Builder == INSTANCE CBB
    WITH MaxLen <- 4, Chunks <- MCChunks, Tags <- MCTags
Timer   == INSTANCE DTLSTimer

BitmapVars == <<bytes_, first_unmarked_byte_, num_bits, marked>>
ErrorsVars == <<errors, top, bottom, to_free, saved, heap, lent, popped>>
StackVars == <<data, sorted, num_alloc, comp>>
HashVars == <<buckets, num_items, callback_depth, iter, contents, visit>>
BuilderVars == <<base, children, space, frames, last>>
TimerVars == <<now, retransmit_timer, ack_timer, timeout_duration_ms,
               num_timeouts, slept>>

vars == <<focus, ReplayVars, BitmapVars, ReassemblyVars, PairVars,
          ErrorsVars, StackVars, HashVars, BuilderVars, TimerVars,
          InverseVars, TicketsVars>>

Init ==
    /\ focus \in {"replay", "bitmap", "reassembly", "pair", "errors",
                  "error_data", "stack", "hash", "builder", "timer",
                  "inverse", "tickets"}
    /\ ReplayInit
    /\ Bitmap!Init /\ (focus # "bitmap" =>
         num_bits = 0)
    /\ ReassemblyInit
    /\ PairInit /\ (focus # "pair" =>
         \A e \in {1, 2} : \A k \in DOMAIN buf[e] : buf[e][k] = 0)
    /\ Errors!Init
    /\ Stack!Init /\ (focus # "stack" =>
         comp = "none")
    /\ Hash!Init
    /\ Builder!Init /\ (focus # "builder" =>
         base.can_resize)
    /\ Timer!Init /\ (focus # "timer" =>
         now = 1 /\ timeout_duration_ms = 1)
    /\ InverseInit /\ (focus # "inverse" =>
         a = 0 /\ n = 1 /\ a_bits = 2 /\ n_bits = 2)
    /\ TicketsInit

Next ==
    \/ /\ focus = "replay" /\ ReplayNext
       /\ UNCHANGED <<focus, BitmapVars, ReassemblyVars, PairVars,
                      ErrorsVars, StackVars, HashVars, BuilderVars, TimerVars,
                      InverseVars, TicketsVars>>
    \/ /\ focus = "bitmap" /\ Bitmap!Next
       /\ UNCHANGED <<focus, ReplayVars, ReassemblyVars, PairVars,
                      ErrorsVars, StackVars, HashVars, BuilderVars, TimerVars,
                      InverseVars, TicketsVars>>
    \/ /\ focus = "reassembly" /\ ReassemblyNext
       /\ UNCHANGED <<focus, ReplayVars, BitmapVars, PairVars, ErrorsVars,
                      StackVars, HashVars, BuilderVars, TimerVars, InverseVars,
                      TicketsVars>>
    \/ /\ focus = "pair" /\ PairNext
       /\ UNCHANGED <<focus, ReplayVars, BitmapVars, ReassemblyVars,
                      ErrorsVars, StackVars, HashVars, BuilderVars, TimerVars,
                      InverseVars, TicketsVars>>
    \/ /\ focus = "errors" /\ Errors!Next
       /\ heap' = {}
       /\ UNCHANGED <<focus, ReplayVars, BitmapVars, ReassemblyVars,
                      PairVars, StackVars, HashVars, BuilderVars, TimerVars,
                      InverseVars, TicketsVars>>
    \/ /\ focus = "error_data" /\ Errors!Next
       /\ errors'[top'].packed \in {0, 1}
       /\ UNCHANGED <<focus, ReplayVars, BitmapVars, ReassemblyVars,
                      PairVars, StackVars, HashVars, BuilderVars, TimerVars,
                      InverseVars, TicketsVars>>
    \/ /\ focus = "stack" /\ Stack!Next
       /\ UNCHANGED <<focus, ReplayVars, BitmapVars, ReassemblyVars,
                      PairVars, ErrorsVars, HashVars, BuilderVars, TimerVars,
                      InverseVars, TicketsVars>>
    \/ /\ focus = "hash" /\ Hash!Next
       /\ UNCHANGED <<focus, ReplayVars, BitmapVars, ReassemblyVars,
                      PairVars, ErrorsVars, StackVars, BuilderVars, TimerVars,
                      InverseVars, TicketsVars>>
    \/ /\ focus = "builder" /\ Builder!Next
       /\ UNCHANGED <<focus, ReplayVars, BitmapVars, ReassemblyVars,
                      PairVars, ErrorsVars, StackVars, HashVars, TimerVars,
                      InverseVars, TicketsVars>>
    \/ /\ focus = "timer" /\ Timer!Next
       /\ UNCHANGED <<focus, ReplayVars, BitmapVars, ReassemblyVars,
                      PairVars, ErrorsVars, StackVars, HashVars, BuilderVars,
                      InverseVars, TicketsVars>>
    \/ /\ focus = "inverse" /\ InverseNext
       /\ UNCHANGED <<focus, ReplayVars, BitmapVars, ReassemblyVars,
                      PairVars, ErrorsVars, StackVars, HashVars, BuilderVars,
                      TimerVars, TicketsVars>>
    \/ /\ focus = "tickets" /\ TicketsNext
       /\ UNCHANGED <<focus, ReplayVars, BitmapVars, ReassemblyVars,
                      PairVars, ErrorsVars, StackVars, HashVars, BuilderVars,
                      TimerVars, InverseVars>>

Spec == Init /\ [][Next]_vars

-----------------------------------------------------------------------------
\* DTLSMessageBitmap: completion and the next range to send are those of
\* the plain set of marked bits, and first_unmarked_byte_ is what it says.
BitmapExact ==
    focus = "bitmap" =>
        /\ Bitmap!TypeOK
        /\ Bitmap!CompleteExact
        /\ Bitmap!NextRangeExact
        /\ Bitmap!FirstUnmarkedExact

\* ErrorQueue: every string has one owner, and a string on loan is
\* allocated.
StringsOwned ==
    focus \in {"errors", "error_data"} =>
        /\ Errors!TypeOK
        /\ Errors!OwnedOnce
        /\ Errors!LentIsAllocated

\* ErrorQueue: the ring of err.cc implements the log of the newest errors,
\* with its marks and saved states.
LogSpec ==
    /\ Errors!Log!Init
    /\ [][(focus \in {"errors", "error_data"}) =>
            [Errors!Log!Next]_(Errors!Log!vars)]_vars

\* Stack: a search finds the first match whether or not it may bisect, unless
\* OPENSSL_sk_set put an element out of place in a sorted stack; no other call
\* makes the flag that allows bisecting wrong, and a sort is a sort.
FindsFirst ==
    /\ [](focus = "stack" =>
            /\ Stack!TypeOK
            /\ Stack!FindsFirst)
    /\ Stack!SortExact
    /\ Stack!FlagKept

\* LHash: a lookup finds what was put there, and an iteration visits each
\* item once although its callback changes the table.
TableExact ==
    focus = "hash" =>
        /\ Hash!TypeOK
        /\ Hash!LookupExact
        /\ Hash!VisitsOnce

\* CBB: the buffer holds what was added, wherever prefixes were put in
\* later, and a finished element parses back to its contents.
BuilderExact ==
    focus = "builder" =>
        /\ Builder!TypeOK
        /\ Builder!BufferExact
        /\ Builder!ParsesBack

\* DTLSTimer: an application that sleeps as long as it is told finds a
\* timer expired, the remaining time is exact, and so is the time a timer
\* is set to.
TimersExact ==
    /\ [](focus = "timer" =>
            /\ Timer!TypeOK
            /\ Timer!WakesOnTime
            /\ Timer!RemainingExact)
    /\ Timer!StartExact
=============================================================================
