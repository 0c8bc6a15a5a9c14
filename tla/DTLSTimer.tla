----------------------------- MODULE DTLSTimer -----------------------------
(***************************************************************************)
(* The DTLS timers, ssl/d1_lib.cc: the arithmetic of DTLSTimer on times    *)
(* that are split into seconds and microseconds, DTLSv1_get_timeout and    *)
(* DTLSv1_handle_timeout over the retransmit and the ACK timer, and the    *)
(* application's loop that sleeps in between.                              *)
(*                                                                         *)
(* A second has M microseconds, and UINT64_MAX and the largest time_t are  *)
(* small, so that all the boundaries are reached.  The clock is the one of *)
(* gettimeofday, which may be set.                                         *)
(***************************************************************************)
EXTENDS Naturals, FiniteSets

CONSTANTS
    M,            \* microseconds in a second, 1000000
    PerMs,        \* microseconds in a millisecond, 1000
    Slack,        \* 15000: a timer this close has expired
    Max64,        \* UINT64_MAX
    TvSecMax,     \* the largest tv_sec of struct timeval
    MaxDuration,  \* 60000, in milliseconds
    Durations,    \* initial_timeout_duration_ms
    Clocks        \* bound: the clock, in microseconds, but for a sleep

VARIABLES
    now,                  \* the clock, in microseconds
    retransmit_timer,     \* expire_time_ of the timers
    ack_timer,
    timeout_duration_ms,
    num_timeouts,         \* whether it is zero
    slept                 \* what the application did since its last call

vars == <<now, retransmit_timer, ack_timer, timeout_duration_ms, num_timeouts,
          slept>>

kNever == Max64
Time(us) == [sec |-> us \div M, usec |-> us % M]
Micros(t) == t.sec * M + t.usec

Awake == [by |-> "no", from |-> 0, saturated |-> FALSE]

-----------------------------------------------------------------------------
(***************************************************************************)
(* DTLSTimer                                                               *)
(***************************************************************************)
Stop == [sec |-> 0, usec |-> 0]
IsSet(t) == t.sec # 0 \/ t.usec # 0

Carry(usec) == IF usec >= M THEN 1 ELSE 0

StartMicroseconds(at, us) ==
    LET usec    == at.usec + (us % M)
        seconds == us \div M + Carry(usec)
    IN  IF at.sec > Max64 - seconds THEN Stop
        ELSE [sec |-> at.sec + seconds, usec |-> usec % M]

(* Seconds and microseconds from at to the later time t *)
Difference(t, at) ==
    IF t.usec >= at.usec
    THEN [sec |-> t.sec - at.sec, usec |-> t.usec - at.usec]
    ELSE [sec |-> t.sec - at.sec - 1, usec |-> t.usec + M - at.usec]

InMicros(d) ==
    IF d.sec = 0 /\ d.usec < Slack THEN 0
    ELSE IF d.sec > Max64 \div M \/ d.sec * M > Max64 - d.usec THEN kNever
    ELSE d.sec * M + d.usec

MicrosecondsRemaining(t, at) ==
    IF ~IsSet(t) THEN kNever
    ELSE IF at.sec > t.sec \/ (at.sec = t.sec /\ at.usec >= t.usec) THEN 0
    ELSE InMicros(Difference(t, at))

IsExpired(t) == MicrosecondsRemaining(t, Time(now)) = 0

-----------------------------------------------------------------------------
Init ==
    /\ now \in Clocks
    /\ retransmit_timer = Stop
    /\ ack_timer = Stop
    /\ timeout_duration_ms \in Durations
    /\ num_timeouts = FALSE
    /\ slept = Awake

(***************************************************************************)
(* The end of dtls1_flush once a flight is out: the timeout doubles with   *)
(* every retransmission.                                                   *)
(***************************************************************************)
Smaller(x, y) == IF x < y THEN x ELSE y

Backoff(initial) ==
    IF num_timeouts THEN Smaller(2 * timeout_duration_ms, MaxDuration)
    ELSE initial

FlightSent ==
    /\ \E initial \in Durations :
         /\ timeout_duration_ms' = Backoff(initial)
         /\ retransmit_timer' =
              StartMicroseconds(Time(now), Backoff(initial) * PerMs)
    /\ slept' = Awake
    /\ UNCHANGED <<now, ack_timer, num_timeouts>>

(* A record to acknowledge arrives while no ACK is scheduled. *)
ScheduleAck ==
    /\ ~IsSet(ack_timer)
    /\ ack_timer' = StartMicroseconds(Time(now),
                                      (timeout_duration_ms * PerMs) \div 4)
    /\ slept' = Awake
    /\ UNCHANGED <<now, retransmit_timer, timeout_duration_ms, num_timeouts>>

(* The flight was acknowledged. *)
dtls1_stop_timer ==
    /\ \E initial \in Durations : timeout_duration_ms' = initial
    /\ retransmit_timer' = Stop
    /\ num_timeouts' = FALSE
    /\ slept' = Awake
    /\ UNCHANGED <<now, ack_timer>>

(* Mutant: the ACK timer is left out. *)
NextExpiry_Retransmit(at) == MicrosecondsRemaining(retransmit_timer, at)

NextExpiry(at) == Smaller(MicrosecondsRemaining(retransmit_timer, at),
                          MicrosecondsRemaining(ack_timer, at))

(* What DTLSv1_get_timeout stores; the microseconds do not saturate. *)
Timeval(us) == [sec |-> Smaller(us \div M, TvSecMax), usec |-> us % M]

(***************************************************************************)
(* DTLSv1_get_timeout, after which the application sleeps for the time it  *)
(* was told.                                                               *)
(***************************************************************************)
DTLSv1_get_timeout ==
    LET us == NextExpiry(Time(now))
    IN  /\ us # kNever
        /\ slept = Awake /\ now \in Clocks
        /\ now' = now + Micros(Timeval(us))
        /\ slept' = [by |-> "timeout", from |-> now,
                     saturated |-> us \div M > TvSecMax]
        /\ UNCHANGED <<retransmit_timer, ack_timer, timeout_duration_ms,
                       num_timeouts>>

(* Another event arrives, or someone sets the clock. *)
Elapse ==
    /\ now' \in Clocks
    /\ slept' = Awake
    /\ UNCHANGED <<retransmit_timer, ack_timer, timeout_duration_ms,
                   num_timeouts>>

(***************************************************************************)
(* DTLSv1_handle_timeout: the timers that expired stop, and a timeout is   *)
(* counted.  Nothing happens while none has.                               *)
(***************************************************************************)
DTLSv1_handle_timeout ==
    /\ IsSet(retransmit_timer) \/ IsSet(ack_timer)
    /\ ack_timer' = IF IsExpired(ack_timer) THEN Stop ELSE ack_timer
    /\ retransmit_timer' = IF IsExpired(retransmit_timer) THEN Stop
                           ELSE retransmit_timer
    /\ num_timeouts' = (num_timeouts \/ IsExpired(retransmit_timer))
    /\ slept' = Awake
    /\ UNCHANGED <<now, timeout_duration_ms>>

Next ==
    \/ FlightSent
    \/ ScheduleAck
    \/ dtls1_stop_timer
    \/ DTLSv1_get_timeout
    \/ Elapse
    \/ DTLSv1_handle_timeout

Spec == Init /\ [][Next]_vars

-----------------------------------------------------------------------------
\* The types of the clock, the timers and the durations
TypeOK ==
    /\ now \in Nat
    /\ \A t \in {retransmit_timer, ack_timer} :
         t.sec \in 0..Max64 /\ t.usec \in 0..(M - 1)
    /\ timeout_duration_ms \in 0..MaxDuration
    /\ num_timeouts \in BOOLEAN

(***************************************************************************)
(* The application is in step with the timers.  When it slept for what     *)
(* DTLSv1_get_timeout told it, it has not slept past the time of any       *)
(* timer, and a timer has expired, so that DTLSv1_handle_timeout does      *)
(* something; only a time that did not fit the struct may wake it early.   *)
(***************************************************************************)
WakesOnTime ==
    slept.by = "timeout" =>
        /\ \A t \in {retransmit_timer, ack_timer} :
             IsSet(t) => now = slept.from \/ now <= Micros(t)
        /\ \/ slept.saturated
           \/ IsExpired(retransmit_timer) \/ IsExpired(ack_timer)

(***************************************************************************)
(* The time that remains is the difference of the two times, whatever      *)
(* their split, up to the slack; it is never for a stopped timer and where *)
(* it does not fit.                                                        *)
(***************************************************************************)
RemainingExact ==
    \A t \in {retransmit_timer, ack_timer} :
        MicrosecondsRemaining(t, Time(now)) =
            IF ~IsSet(t) THEN kNever
            ELSE IF Micros(t) < now + Slack THEN 0
            ELSE Smaller(Micros(t) - now, kNever)

(***************************************************************************)
(* A timer started at some time expires that many microseconds later, and  *)
(* is not set at all when that is past the last time there is.             *)
(***************************************************************************)
StartExact ==
    [][FlightSent =>
         LET due == now + timeout_duration_ms' * PerMs
         IN  IF due \div M > Max64 THEN ~IsSet(retransmit_timer')
             ELSE Micros(retransmit_timer') = due]_vars
=============================================================================
