------------------------------- MODULE Throttle -------------------------------
(***************************************************************************)
(* The requests of one process to one exchange (providers/base.py): the    *)
(* token bucket, whose lock is held while a caller sleeps for its token,   *)
(* and the retries of HttpProvider._get, each of which goes through the    *)
(* bucket again.  Another process has a bucket of its own.                 *)
(*                                                                         *)
(* Abstractions.  Time is an integer, and a token is Unit parts, of which  *)
(* Refill come back in a time unit.  How long a backoff or a Retry-After   *)
(* pauses is any of Pauses.  Waking may be late, as the event loop's is.   *)
(***************************************************************************)
EXTENDS Integers, Sequences

CONSTANTS
    Requesters,  \* the tasks that fetch from this exchange
    Burst,       \* tokens the bucket holds: rate_limit.burst
    Unit,        \* parts of a token
    Refill,      \* parts that come back in a time unit
    Attempts,    \* max_retries
    Pauses,      \* lengths of a pause between attempts
    LastInstant  \* bound on time

ASSUME ThrottleAssumption ==
    /\ {Burst, Unit, Refill, Attempts} \subseteq Nat \ {0}
    /\ Pauses \subseteq Nat /\ LastInstant \in Nat

\* bucket.sent, the moments requests left at, is kept for the property alone.
VARIABLES moment, bucket, line, requests

throttleVars == <<moment, bucket, line, requests>>

Capacity == Burst * Unit
Idle == [state |-> "idle", attempt |-> 0, wake |-> 0]

ThrottleInit ==
    /\ moment = 0 /\ bucket = [tokens |-> Capacity, last |-> 0, sent |-> <<>>] /\ line = <<>>
    /\ requests = [c \in Requesters |-> Idle]

\* Mutant of Refilled: nothing caps what a quiet exchange saves up.
RefilledUncapped == bucket.tokens + (moment - bucket.last) * Refill

Refilled ==
    LET whole == bucket.tokens + (moment - bucket.last) * Refill IN
    IF whole < Capacity THEN whole ELSE Capacity

\* A task calls _get, and stands in line for the lock.
Request(c) ==
    /\ requests[c].state = "idle"
    /\ requests' = [requests EXCEPT ![c] = [state |-> "waiting", attempt |-> 1, wake |-> 0]]
    /\ line' = Append(line, c)
    /\ UNCHANGED <<moment, bucket>>

\* The holder of the lock has a token and the request leaves; the lock passes on.
Send(c) ==
    /\ line # <<>> /\ c = Head(line) /\ requests[c].wake <= moment /\ Refilled >= Unit
    /\ bucket' = [tokens |-> Refilled - Unit, last |-> moment, sent |-> Append(bucket.sent, moment)]
    /\ line' = Tail(line)
    /\ requests' = [requests EXCEPT ![c].state = "sent"]
    /\ UNCHANGED moment

\* It has none: it sleeps for what is missing, and keeps the lock.
SleepForToken(c) ==
    /\ line # <<>> /\ c = Head(line) /\ requests[c].wake <= moment /\ Refilled < Unit
    /\ bucket' = [bucket EXCEPT !.tokens = Refilled, !.last = moment]
    /\ requests' = [requests EXCEPT ![c].wake = moment + (Unit - Refilled + Refill - 1) \div Refill]
    /\ UNCHANGED <<moment, line>>

\* An answer, or an error that is not worth a retry.
Answer(c) ==
    /\ requests[c].state = "sent"
    /\ requests' = [requests EXCEPT ![c] = Idle]
    /\ UNCHANGED <<moment, bucket, line>>

\* A timeout, a transport error or a server error on the last attempt.
GiveUp(c) ==
    /\ requests[c].state = "sent" /\ requests[c].attempt = Attempts
    /\ requests' = [requests EXCEPT ![c] = Idle]
    /\ UNCHANGED <<moment, bucket, line>>

\* Any of them earlier, or a 429 on any attempt: a pause before what comes next.
Pause(c) ==
    /\ requests[c].state = "sent"
    /\ \E length \in Pauses :
           requests' = [requests EXCEPT ![c].state = "resting", ![c].wake = moment + length]
    /\ UNCHANGED <<moment, bucket, line>>

\* After the pause: in line once more, or, where a 429 was the last attempt, the error.
Retry(c) ==
    /\ requests[c].state = "resting" /\ requests[c].wake <= moment
    /\ IF requests[c].attempt < Attempts
       THEN /\ requests' = [requests EXCEPT ![c] =
                    [state |-> "waiting", attempt |-> requests[c].attempt + 1, wake |-> 0]]
            /\ line' = Append(line, c)
       ELSE requests' = [requests EXCEPT ![c] = Idle] /\ UNCHANGED line
    /\ UNCHANGED <<moment, bucket>>

\* The task is cancelled wherever it is; a holder of the lock releases it.
CancelRequest(c) ==
    /\ requests[c].state # "idle"
    /\ requests' = [requests EXCEPT ![c] = Idle]
    /\ line' = SelectSeq(line, LAMBDA d : d # c)
    /\ UNCHANGED <<moment, bucket>>

TimePasses ==
    /\ moment < LastInstant /\ moment' = moment + 1
    /\ UNCHANGED <<bucket, line, requests>>

ThrottleNext ==
    \/ TimePasses
    \/ \E c \in Requesters :
           \/ Request(c) \/ Send(c) \/ SleepForToken(c) \/ Answer(c) \/ GiveUp(c)
           \/ Pause(c) \/ Retry(c) \/ CancelRequest(c)
ThrottleSpec == ThrottleInit /\ [][ThrottleNext]_throttleVars

\* A process keeps to its limit: between any two of its requests to the exchange, however
\* long it was quiet before and whoever retries, sleeps with the lock or is cancelled in
\* it, no more leave than the burst and what came back in the time between.
RateKept ==
    \A i, j \in DOMAIN bucket.sent : i <= j =>
        (j - i + 1) * Unit <= Capacity + (bucket.sent[j] - bucket.sent[i]) * Refill
=============================================================================
