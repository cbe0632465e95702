---------------------------- MODULE RetryBackoff ----------------------------
(***************************************************************************)
(* How long an execution waits for its next retry.  The strategies compute *)
(* in signed integers of fixed width, from a float64 power, and may wrap   *)
(* round.  The exponential one remembers that it has reached its longest   *)
(* interval, but updateRetryState builds a fresh one for every report and  *)
(* passes the retry count of the record instead.  A record's retries are   *)
(* always exponential; NewRetry also makes strategies of fixed interval,   *)
(* and refuses any other type.                                             *)
(*                                                                         *)
(* Source: pkg/retry, internal/domain/task.go (RetryConfig),               *)
(* internal/service/task/execution_service.go (updateRetryState).          *)
(***************************************************************************)
EXTENDS Integers

CONSTANTS
    Width,       \* bits of a time.Duration: 64 in the program
    Unit,        \* nanoseconds per millisecond
    Saturates,   \* what converting too large a float gives: the largest
                 \* integer (arm64) or the smallest (amd64)
    Intervals,   \* configured intervals, milliseconds
    Limits,      \* configured MaxRetries, zero or less for no limit
    MaxCalls     \* bound: reports, and calls of Next

ASSUME BackoffAssumption ==
    /\ Width \in Nat \ {0} /\ Unit \in Nat \ {0} /\ Saturates \in BOOLEAN
    /\ Intervals \subseteq Nat /\ Limits \subseteq Int /\ MaxCalls \in Nat

VARIABLES
    config,      \* the task's RetryConfig
    retryCount,  \* retry_count of the record
    wait,        \* the last wait written to next_retry_time, 0 before
    strategy,    \* a strategy NewRetry has made, kept and asked by Next
    interval     \* the last interval Next returned, 0 before

vars == <<config, retryCount, wait, strategy, interval>>

Smallest == -(2^(Width - 1))
Largest == 2^(Width - 1) - 1

\* The value an operation on integers of Width bits leaves.
Wrap(x) == ((x - Smallest) % 2^Width) + Smallest

\* time.Duration(math.Pow(2, k)).
Power(k) == IF k < Width - 1 THEN 2^k ELSE IF Saturates THEN Largest ELSE Smallest

ToRetryComponentConfig(c) ==
    [initial |-> Wrap(c.initial * Unit), max |-> Wrap(c.max * Unit), maxRetries |-> c.maxRetries]

\* Mutant of ShouldRetry: one retry more than configured.
ShouldRetryOneMore(c, retries) == c.maxRetries <= 0 \/ retries <= c.maxRetries + 1

ShouldRetry(c, retries) == c.maxRetries <= 0 \/ retries <= c.maxRetries

\* nextWithRetries of the exponential strategy, for a retry that is allowed:
\* the interval, and whether the longest one is reached.
Raw(c, retries) == Wrap(c.initial * Power(retries - 1))

\* Mutant of Interval: zero and negative intervals pass.
IntervalUnchecked(c, reached, retries) ==
    IF reached \/ Raw(c, retries) > c.max THEN [wait |-> c.max, reached |-> TRUE]
    ELSE [wait |-> Raw(c, retries), reached |-> reached]

\* Mutant of Interval: beyond the longest interval it starts over.
IntervalStartsOver(c, reached, retries) ==
    [wait |-> IF reached \/ Raw(c, retries) <= 0 \/ Raw(c, retries) > c.max
              THEN c.initial ELSE Raw(c, retries),
     reached |-> reached]

Interval(c, reached, retries) ==
    IF reached \/ Raw(c, retries) <= 0 \/ Raw(c, retries) > c.max
    THEN [wait |-> c.max, reached |-> TRUE]
    ELSE [wait |-> Raw(c, retries), reached |-> reached]

\* nextWithRetries of the fixed strategy.
FixedInterval(c) == [wait |-> c.initial, reached |-> FALSE]

\* What NewRetry makes of a configuration.
NewRetry(kind) == [kind |-> kind, retries |-> 0, reached |-> FALSE]

Kinds == {"fixed", "exponential"}

Init ==
    /\ config \in [initial : Intervals, max : Intervals, maxRetries : Limits]
    /\ retryCount = 0 /\ wait = 0
    /\ strategy \in {NewRetry(kind) : kind \in Kinds}
    /\ interval = 0

\* A report of FAILED_RETRYABLE: NextWithRetries(retry_count + 1) of a fresh
\* strategy.  Beyond the limit nothing is written.
UpdateRetryState ==
    LET c == ToRetryComponentConfig(config)
    IN  /\ retryCount < MaxCalls
        /\ ShouldRetry(c, retryCount + 1)
        /\ wait' = Interval(c, FALSE, retryCount + 1).wait
        /\ retryCount' = retryCount + 1
        /\ UNCHANGED <<config, strategy, interval>>

\* Next of a strategy that is kept: it counts, a refused call too, and it
\* remembers.
NextInterval ==
    LET c == ToRetryComponentConfig(config)
        next == IF strategy.kind = "fixed" THEN FixedInterval(c)
                ELSE Interval(c, strategy.reached, strategy.retries + 1)
        allowed == ShouldRetry(c, strategy.retries + 1)
    IN  /\ strategy.retries < MaxCalls
        /\ strategy' = [strategy EXCEPT !.retries = @ + 1,
                                       !.reached = IF allowed THEN next.reached ELSE @]
        /\ interval' = IF allowed THEN next.wait ELSE interval
        /\ UNCHANGED <<config, retryCount, wait>>

Next == UpdateRetryState \/ NextInterval

Spec == Init /\ [][Next]_vars

----------------------------------------------------------------------------
(* Properties. *)

Durations == Smallest..Largest

\* Type invariant; what is stored is of the program's width, and a configured
\* limit bounds the retries of a record.
TypeOK ==
    /\ config \in [initial : Intervals, max : Intervals, maxRetries : Limits]
    /\ retryCount \in 0..MaxCalls
    /\ config.maxRetries > 0 => retryCount <= config.maxRetries
    /\ strategy \in [kind : Kinds, retries : 0..MaxCalls, reached : BOOLEAN]
    /\ {wait, interval} \subseteq Durations

\* A configured maximum that fits bounds every wait of the exponential strategy,
\* whatever overflows on the way, and no retry is due at once.
WaitIsBounded ==
    LET longest == Wrap(config.max * Unit)
    IN  longest > 0 => /\ retryCount > 0 => wait \in 1..longest
                       /\ strategy.kind = "exponential" /\ strategy.retries > 0
                              => interval \in 1..longest

\* The fresh strategy of each report gets more impatient only where the first
\* interval, before it is converted, times the longest one does not fit in a
\* Duration: there a power wraps round to a short positive interval.
ShrinkIsOverflow ==
    [][retryCount > 0 /\ wait' < wait =>
          LET c == ToRetryComponentConfig(config)
          IN  config.initial * Unit * c.max > Largest]_vars
=============================================================================
