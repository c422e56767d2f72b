--------------------------- MODULE CircuitBreaker ---------------------------
(***************************************************************************)
(* The circuit breaker every provider owns (providers/base.py), as         *)
(* operators on one breaker value, so that the modules that share breakers *)
(* between concurrent callers can apply them inside their own actions.     *)
(*                                                                         *)
(* Abstractions.  opened_at is kept as `age', the clock ticks since the    *)
(* breaker opened, saturated at Cooldown: the code only asks whether       *)
(* now - opened_at has reached the cooldown.  consecutive_failures is      *)
(* saturated at FailureThreshold: the code only asks whether it has been   *)
(* reached.  last_error feeds log lines alone and is left out.             *)
(***************************************************************************)
EXTENDS Naturals

CONSTANTS
    FailureThreshold,   \* failure_threshold of the provider's configuration
    Cooldown            \* cooldown_s, in clock ticks

ASSUME BreakerAssumption ==
    /\ FailureThreshold \in Nat \ {0}
    /\ Cooldown \in Nat

CircuitState == {"closed", "open", "half_open"}

BreakerType == [state    : CircuitState,
                failures : 0 .. FailureThreshold,
                age      : 0 .. Cooldown]

NewBreaker == [state |-> "closed", failures |-> 0, age |-> 0]

\* Mutant of Allows: an open circuit is never probed.
AllowsNeverProbes(b) == b.state # "open"

\* The answer of allows().
Allows(b) == b.state = "open" => b.age >= Cooldown

\* What allows() does to a breaker it answers True for: an open breaker whose
\* cooldown has elapsed becomes half-open, any other stays as it is.
Admitted(b) == IF b.state = "open" THEN [b EXCEPT !.state = "half_open"] ELSE b

\* Mutant of RecordSuccess: closes the circuit without resetting the count.
RecordSuccessKeepsCount(b) == [b EXCEPT !.state = "closed"]

RecordSuccess(b) == NewBreaker

OneMoreFailure(b) ==
    IF b.failures < FailureThreshold THEN b.failures + 1 ELSE FailureThreshold

\* Mutant of RecordFailure: a failed probe does not open the circuit again.
RecordFailureOfProbeIgnored(b) ==
    IF b.state = "closed" /\ OneMoreFailure(b) = FailureThreshold
    THEN [state |-> "open", failures |-> OneMoreFailure(b), age |-> 0]
    ELSE [b EXCEPT !.failures = OneMoreFailure(b)]

RecordFailure(b) ==
    IF b.state = "half_open" \/ OneMoreFailure(b) = FailureThreshold
    THEN [state |-> "open", failures |-> OneMoreFailure(b), age |-> 0]
    ELSE [b EXCEPT !.failures = OneMoreFailure(b)]

\* One tick of time.monotonic().
Aged(b) == IF b.age < Cooldown THEN [b EXCEPT !.age = b.age + 1] ELSE b

=============================================================================
