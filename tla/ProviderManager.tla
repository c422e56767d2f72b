-------------------------- MODULE ProviderManager --------------------------
(***************************************************************************)
(* The provider manager (providers/manager.py): priority-ordered failover  *)
(* of concurrent asyncio callers over providers that share one circuit     *)
(* breaker each.                                                           *)
(*                                                                         *)
(* asyncio switches tasks only at an await, so everything a caller does    *)
(* between two awaits is one action: the answer of a provider is recorded  *)
(* in its breaker, and the loop moves on to the next candidate its breaker *)
(* admits, or returns, in the same step.                                   *)
(*                                                                         *)
(* Providers are numbered in the order of (priority, name), the order the  *)
(* constructor sorts them into.  Candles are abstracted to the verdict of  *)
(* an attempt, quality events to the attempts they restate.  `up' is the   *)
(* world outside: whether a provider's endpoint is answering.  `charged'   *)
(* is a history variable: the failures recorded against a provider since   *)
(* it last succeeded or was last probed.                                   *)
(***************************************************************************)
EXTENDS CircuitBreaker, FiniteSets

CONSTANTS
    NProviders,  \* number of configured providers
    Callers,     \* asyncio tasks that use the manager
    Routes,      \* what candidates() returns for the requests in use
    Capable,     \* the providers with a capability such as funding rates
    Limited      \* providers that may raise NotSupported for a request

Providers == 1 .. NProviders

ASSUME ManagerAssumption ==
    /\ NProviders \in Nat \ {0}
    /\ IsFiniteSet(Callers)
    /\ Routes \subseteq SUBSET Providers
    /\ Capable \subseteq SUBSET Providers
    /\ Limited \subseteq Providers

VARIABLES
    breaker,  \* provider.breaker, by provider
    call,     \* the progress of each caller through fetch_*
    up,       \* does the provider's endpoint answer?
    charged   \* history: failures recorded since the last success or probe

vars == <<breaker, call, up, charged>>

Phase == {"idle", "ohlcv", "other", "served", "failed"}
Verdict == {"untried", "circuit_open", "not_supported", "error", "empty", "ok"}

\* `at' is the provider an "ohlcv" or "other" caller awaits.
CallType == [phase : Phase,
             cands : SUBSET Providers,
             at    : 0 .. NProviders,
             log   : [Providers -> Verdict]]

NoAttempt == [p \in Providers |-> "untried"]
IdleCall == [phase |-> "idle", cands |-> {}, at |-> 0, log |-> NoAttempt]

Waiting(c, p) == call[c].phase \in {"ohlcv", "other"} /\ call[c].at = p
InFlight(p) == {c \in Callers : Waiting(c, p)}

TypeOK ==
    /\ breaker \in [Providers -> BreakerType]
    /\ call \in [Callers -> CallType]
    /\ up \in [Providers -> BOOLEAN]
    /\ charged \in [Providers -> Nat]

Init ==
    /\ breaker = [p \in Providers |-> NewBreaker]
    /\ call = [c \in Callers |-> IdleCall]
    /\ up \in [Providers -> BOOLEAN]
    /\ charged = [p \in Providers |-> 0]

-----------------------------------------------------------------------------

\* The attempts list once the candidates between i and p are found open; only
\* fetch_ohlcv keeps one.
Skipping(phase, log, S, i, p) ==
    [q \in Providers |-> IF phase = "ohlcv" /\ q \in S /\ i < q /\ q < p
                         THEN "circuit_open" ELSE log[q]]

\* The candidate loop from position i on, over breakers b: call the first
\* candidate whose breaker admits it.
CallNext(c, phase, S, i, log, b, owed) ==
    \E p \in S :
        /\ i < p
        /\ Allows(b[p])
        /\ \A q \in S : i < q /\ q < p => ~Allows(b[q])
        /\ breaker' = [b EXCEPT ![p] = Admitted(b[p])]
        /\ charged' = [owed EXCEPT ![p] = IF b[p].state = "open" THEN 0 ELSE owed[p]]
        /\ call' = [call EXCEPT ![c] = [phase |-> phase, cands |-> S, at |-> p,
                                        log |-> Skipping(phase, log, S, i, p)]]

\* ... or run off the end of the list and return without data.
NoneLeft(c, phase, S, i, log, b, owed) ==
    /\ \A q \in S : i < q => ~Allows(b[q])
    /\ breaker' = b
    /\ charged' = owed
    /\ call' = [call EXCEPT ![c] =
                    IF phase = "other" THEN IdleCall
                    ELSE [phase |-> "failed", cands |-> S, at |-> 0,
                          log |-> Skipping(phase, log, S, i, NProviders + 1)]]

TryFrom(c, phase, S, i, log, b, owed) ==
    \/ CallNext(c, phase, S, i, log, b, owed)
    \/ NoneLeft(c, phase, S, i, log, b, owed)

Free(c) == call[c].phase \in {"idle", "served", "failed"}

\* fetch_ohlcv: S is what candidates() returns for the request, the capable
\* providers or the preferred one alone.
StartOhlcv(c, S) ==
    /\ Free(c)
    /\ S \in Routes
    /\ TryFrom(c, "ohlcv", S, 0, NoAttempt, breaker, charged)
    /\ UNCHANGED up

\* fetch_funding, fetch_open_interest and fetch_global_metrics: the same loop
\* over the providers with that capability, recording no outcome.
StartOther(c, S) ==
    /\ Free(c)
    /\ S \in Capable
    /\ TryFrom(c, "other", S, 0, NoAttempt, breaker, charged)
    /\ UNCHANGED up

\* compare_sources asks every capable breaker at once; nothing it does with the
\* answers touches a breaker.
CompareSources(S) ==
    /\ breaker' = [p \in Providers |-> IF p \in S /\ Allows(breaker[p])
                                       THEN Admitted(breaker[p]) ELSE breaker[p]]
    /\ charged' = [p \in Providers |-> IF p \in S /\ Allows(breaker[p])
                                             /\ breaker[p].state = "open"
                                       THEN 0 ELSE charged[p]]
    /\ UNCHANGED <<call, up>>

-----------------------------------------------------------------------------

\* What an awaited request may come to.  The retries inside the provider are
\* over by then: timeouts, HTTP errors and malformed bodies are all "error".
Answers(p) ==
    (IF up[p] THEN {"ok", "empty"} ELSE {"error"})
        \cup (IF p \in Limited THEN {"not_supported"} ELSE {})

\* The breaker and the history variable after an answer to fetch_ohlcv.
Recorded(p, v) ==
    [breaker EXCEPT ![p] = CASE v \in {"ok", "empty"} -> RecordSuccess(breaker[p])
                             [] v = "error"           -> RecordFailure(breaker[p])
                             [] OTHER                 -> breaker[p]]

Charged(p, v) ==
    [charged EXCEPT ![p] = CASE v \in {"ok", "empty"} -> 0
                             [] v = "error"           -> charged[p] + 1
                             [] OTHER                 -> charged[p]]

\* Mutant of AnswerOhlcv: the first answer decides, there is no failover.
AnswerOhlcvNoFailover(c, p, v) ==
    /\ call[c].phase = "ohlcv"
    /\ call[c].at = p
    /\ v \in Answers(p)
    /\ breaker' = Recorded(p, v)
    /\ charged' = Charged(p, v)
    /\ call' = [call EXCEPT ![c].phase = IF v = "ok" THEN "served" ELSE "failed",
                            ![c].at = 0, ![c].log[p] = v]
    /\ UNCHANGED up

\* The await of provider.fetch_ohlcv completes with verdict v.
AnswerOhlcv(c, p, v) ==
    /\ call[c].phase = "ohlcv"
    /\ call[c].at = p
    /\ v \in Answers(p)
    /\ \/ /\ v = "ok"
          /\ breaker' = Recorded(p, v)
          /\ charged' = Charged(p, v)
          /\ call' = [call EXCEPT ![c].phase = "served", ![c].at = 0, ![c].log[p] = "ok"]
       \/ /\ v # "ok"
          /\ TryFrom(c, "ohlcv", call[c].cands, p, [call[c].log EXCEPT ![p] = v],
                     Recorded(p, v), Charged(p, v))
    /\ UNCHANGED up

\* The await of one of the other fetches completes: any data is returned as it
\* is, an error moves on, and the breaker is told of neither.
AnswerOther(c, p, v) ==
    /\ call[c].phase = "other"
    /\ call[c].at = p
    /\ v \in Answers(p)
    /\ \/ /\ v \in {"ok", "empty"}
          /\ call' = [call EXCEPT ![c] = IdleCall]
          /\ UNCHANGED <<breaker, charged>>
       \/ /\ v \in {"error", "not_supported"}
          /\ TryFrom(c, "other", call[c].cands, p, NoAttempt, breaker, charged)
    /\ UNCHANGED up

\* The await ends in an exception the loop does not catch: the task is
\* cancelled, or the provider let something other than ProviderError escape.
Abandon(c) ==
    /\ call[c].phase \in {"ohlcv", "other"}
    /\ call' = [call EXCEPT ![c] = IdleCall]
    /\ UNCHANGED <<breaker, up, charged>>

Tick ==
    /\ breaker' = [p \in Providers |-> Aged(breaker[p])]
    /\ UNCHANGED <<call, up, charged>>

\* External: an endpoint goes down or comes back.
Outage(p) ==
    /\ up' = [up EXCEPT ![p] = ~up[p]]
    /\ UNCHANGED <<breaker, call, charged>>

Next ==
    \/ \E c \in Callers, S \in Routes : StartOhlcv(c, S)
    \/ \E c \in Callers, S \in Capable : StartOther(c, S)
    \/ \E S \in Routes : CompareSources(S)
    \/ \E c \in Callers, p \in Providers, v \in Verdict :
            AnswerOhlcv(c, p, v) \/ AnswerOther(c, p, v)
    \/ \E c \in Callers : Abandon(c)
    \/ Tick
    \/ \E p \in Providers : Outage(p)

Spec == Init /\ [][Next]_vars

(***************************************************************************)
(* Fairness: time passes; the pollers ask for candles again and again, of  *)
(* the whole candidate list; every await ends, because requests time out;  *)
(* and a caller that keeps awaiting the primary is not cancelled each time.*)
(***************************************************************************)
Finish(c) == \E p \in Providers, v \in Verdict : AnswerOhlcv(c, p, v) \/ AnswerOther(c, p, v)

Fairness ==
    /\ WF_vars(Tick)
    /\ \A c \in Callers :
        /\ SF_vars(StartOhlcv(c, Providers))
        /\ WF_vars(Finish(c))
        /\ SF_vars(\E v \in Verdict : AnswerOhlcv(c, 1, v))

FairSpec == Spec /\ Fairness

-----------------------------------------------------------------------------
(* Properties                                                              *)

\* A circuit is closed exactly while fewer consecutive failures than the
\* threshold have been recorded: whatever order answers arrive in, no breaker
\* that has counted the threshold out is closed, and none below it is open.
ClosedBelowThreshold ==
    \A p \in Providers :
        (breaker[p].state = "closed") <=> (breaker[p].failures < FailureThreshold)

\* What the breaker is for: between two successes or probes of a provider, a
\* dead endpoint costs at most the threshold's failures and one more for each
\* caller that was already waiting on it when the circuit opened.
WastedCallsBounded ==
    \A p \in Providers :
        charged[p] + Cardinality({c \in InFlight(p) : call[c].phase = "ohlcv"})
            <= FailureThreshold - 1 + Cardinality(Callers)

\* A request is served by the first candidate that can, and is given up only
\* when every candidate was found open or answered without data: one dead or
\* empty provider never hides a healthy one further down the list.
EveryCandidateAccounted ==
    \A c \in Callers :
        /\ call[c].phase = "failed" =>
            \A p \in call[c].cands : call[c].log[p] \notin {"untried", "ok"}
        /\ call[c].phase = "served" =>
            \E p \in call[c].cands :
                /\ call[c].log[p] = "ok"
                /\ \A q \in call[c].cands :
                    IF q < p THEN call[c].log[q] \notin {"untried", "ok"}
                             ELSE q > p => call[c].log[q] = "untried"

\* An outage ends: once the first-choice provider answers for good, its circuit
\* closes for good, whatever calls were under way and whoever probed it.
PrimaryRecovers == <>[]up[1] => <>[](breaker[1].state = "closed")

=============================================================================
