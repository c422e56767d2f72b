----------------------------- MODULE AlertBudget -----------------------------
(***************************************************************************)
(* One alert engine and its rate budget (alerts/engine.py,                 *)
(* alerts/budget.py): a run takes the alerts its rules raised, admits them *)
(* most severe first against deduplication, cooldown, the hourly and the   *)
(* daily budget and the critical reserve, and adds a digest of what was    *)
(* held back.                                                              *)
(*                                                                         *)
(* A run makes all its decisions before its first await, so runs do not    *)
(* interleave; admission is still an action of its own, and the properties *)
(* hold in the middle of a batch too.                                      *)
(*                                                                         *)
(* Abstractions.  An alert is its dedup key.  Moments are kept as ages in  *)
(* clock ticks, saturated where the code only asks whether an age has      *)
(* reached a window; a delivery older than a day, which nothing counts any *)
(* more, is dropped by the clock rather than by the next delivery.  The    *)
(* suppression counters are reduced to the reasons they are not zero for.  *)
(* Channels report back to nobody and are left out.                        *)
(***************************************************************************)
EXTENDS Naturals, FiniteSets

CONSTANTS
    Keys,          \* the alerts there can be, by dedup key
    Scopes,        \* the pairs of a kind and an asset
    ScopeOf,       \* the scope of each alert
    Level,         \* its Severity
    PerHour, PerDay,              \* the ordinary budget
    ReservePerHour, ReservePerDay,\* critical_reserve_per_hour and _per_day
    Hour, Day, Cooldown, DedupWindow, DigestEvery  \* in clock ticks

INFO == 10
CRITICAL == 40

ASSUME BudgetAssumption ==
    /\ IsFiniteSet(Keys)
    /\ ScopeOf \in [Keys -> Scopes]
    /\ Level \in [Keys -> INFO .. CRITICAL]
    /\ PerHour \in Nat /\ PerDay \in Nat
    /\ ReservePerHour \in Nat /\ ReservePerDay \in Nat
    /\ Hour \in Nat /\ Day \in Nat /\ Hour <= Day
    /\ Cooldown \in Nat
    /\ DedupWindow \in Nat \ {0} /\ DigestEvery \in Nat \ {0}

Digest == "digest"

ASSUME DigestAssumption == Digest \notin Keys

VARIABLES
    delivered,   \* what was delivered within a day, with its age
    sinceScope,  \* age of the last delivery per scope
    sinceKey,    \* age of the last delivery per key
    sinceDigest, \* age of the last digest
    suppressed,  \* the reasons with a non-zero suppression counter
    run          \* the batch being admitted, and the decisions so far

vars == <<delivered, sinceScope, sinceKey, sinceDigest, suppressed, run>>

Reasons == {"duplicate", "cooldown", "hourly", "daily"}

IdleRun == [phase |-> "idle", batch |-> {}, sent |-> {}, overBudget |-> {}]

TypeOK ==
    /\ delivered \subseteq (Keys \cup {Digest}) \X (0 .. Day)
    /\ sinceScope \in [Scopes -> 0 .. Cooldown]
    /\ sinceKey \in [Keys -> 0 .. DedupWindow]
    /\ sinceDigest \in 0 .. DigestEvery
    /\ suppressed \subseteq Reasons
    /\ run \in [phase : {"idle", "admit"}, batch : SUBSET Keys,
                sent : SUBSET Keys, overBudget : SUBSET Keys]

\* A moment that never came is as good as one that is long past.
Init ==
    /\ delivered = {}
    /\ sinceScope = [s \in Scopes |-> Cooldown]
    /\ sinceKey = [k \in Keys |-> DedupWindow]
    /\ sinceDigest = DigestEvery
    /\ suppressed = {}
    /\ run = IdleRun

-----------------------------------------------------------------------------

\* _count_since, for a window that ends now.
Within(window) == {d \in delivered : d[2] <= window}
Criticals(window) == {d \in Within(window) : d[1] # Digest /\ Level[d[1]] >= CRITICAL}

\* Mutant of HasReserve: the reserve is open to everybody.
HasReserveAnyone(k, window, allowance) == Cardinality(Criticals(window)) < allowance

HasReserve(k, window, allowance) ==
    /\ Level[k] >= CRITICAL
    /\ Cardinality(Criticals(window)) < allowance

Overdrawn(k, window, budget, allowance) ==
    /\ Cardinality(Within(window)) >= budget
    /\ ~HasReserve(k, window, allowance)

Duplicate(k) == sinceKey[k] < DedupWindow
CoolingDown(k) == sinceScope[ScopeOf[k]] < Cooldown

\* The reason admit() holds an alert back for, the first that applies, or "delivered".
Verdict(k) ==
    IF Duplicate(k) THEN "duplicate"
    ELSE IF CoolingDown(k) THEN "cooldown"
    ELSE IF Overdrawn(k, Hour, PerHour, ReservePerHour) THEN "hourly"
    ELSE IF Overdrawn(k, Day, PerDay, ReservePerDay) THEN "daily"
    ELSE "delivered"

Deliver(k) ==
    /\ Verdict(k) = "delivered"
    /\ delivered' = delivered \cup {<<k, 0>>}
    /\ sinceScope' = [sinceScope EXCEPT ![ScopeOf[k]] = 0]
    /\ sinceKey' = [sinceKey EXCEPT ![k] = 0]
    /\ run' = [run EXCEPT !.batch = @ \ {k}, !.sent = @ \cup {k}]
    /\ UNCHANGED suppressed

Hold(k) ==
    /\ Verdict(k) # "delivered"
    /\ suppressed' = suppressed \cup {Verdict(k)}
    /\ run' = [run EXCEPT !.batch = @ \ {k},
                          !.overBudget = IF Verdict(k) \in {"hourly", "daily"}
                                         THEN @ \cup {k} ELSE @]
    /\ UNCHANGED <<delivered, sinceScope, sinceKey>>

\* The rules are evaluated, and whatever alerts they raise form the batch.
StartRun(batch) ==
    /\ run.phase = "idle"
    /\ run' = [IdleRun EXCEPT !.phase = "admit", !.batch = batch]
    /\ UNCHANGED <<delivered, sinceScope, sinceKey, sinceDigest, suppressed>>

\* Mutant of First: in the order in which the rules raised them.
FirstRaised(k, batch) == TRUE

\* admit_all takes the most severe first.
First(k, batch) == \A j \in batch : Level[j] <= Level[k]

Admit(k) ==
    /\ run.phase = "admit"
    /\ k \in run.batch
    /\ First(k, run.batch)
    /\ Deliver(k) \/ Hold(k)
    /\ UNCHANGED sinceDigest

\* pending_digest: something was suppressed, and the last digest is long enough ago.
DigestDue == suppressed # {} /\ sinceDigest >= DigestEvery

\* Mutant of FinishRun: asking for a digest counts as having sent one.
FinishRunAsked ==
    /\ run.phase = "admit" /\ run.batch = {}
    /\ run' = IdleRun
    /\ sinceDigest' = 0
    /\ IF DigestDue
       THEN /\ delivered' = delivered \cup {<<Digest, 0>>} /\ suppressed' = {}
       ELSE UNCHANGED <<delivered, suppressed>>
    /\ UNCHANGED <<sinceScope, sinceKey>>

\* The batch is through: a digest that is due goes out past the budget, though it
\* is counted in it.
FinishRun ==
    /\ run.phase = "admit" /\ run.batch = {}
    /\ run' = IdleRun
    /\ \/ /\ DigestDue
          /\ delivered' = delivered \cup {<<Digest, 0>>}
          /\ suppressed' = {}
          /\ sinceDigest' = 0
       \/ /\ ~DigestDue
          /\ UNCHANGED <<delivered, suppressed, sinceDigest>>
    /\ UNCHANGED <<sinceScope, sinceKey>>

Older(age, window) == IF age < window THEN age + 1 ELSE window

Tick ==
    /\ run.phase = "idle"
    /\ delivered' = {<<d[1], d[2] + 1>> : d \in {e \in delivered : e[2] < Day}}
    /\ sinceScope' = [s \in Scopes |-> Older(sinceScope[s], Cooldown)]
    /\ sinceKey' = [k \in Keys |-> Older(sinceKey[k], DedupWindow)]
    /\ sinceDigest' = Older(sinceDigest, DigestEvery)
    /\ UNCHANGED <<suppressed, run>>

Next ==
    \/ \E batch \in SUBSET Keys : StartRun(batch)
    \/ \E k \in Keys : Admit(k)
    \/ FinishRun
    \/ Tick

Spec == Init /\ [][Next]_vars

\* Time passes between runs, and the engine is run again and again.
Fairness ==
    /\ SF_vars(Tick)
    /\ WF_vars(\E batch \in SUBSET Keys : StartRun(batch))
    /\ WF_vars(\E k \in Keys : Admit(k))
    /\ WF_vars(FinishRun)

FairSpec == Spec /\ Fairness

-----------------------------------------------------------------------------
(* Properties                                                              *)

\* The ceiling is hard: whatever the rules raise, and however the batches fall,
\* no hour and no day carries more alerts than the budget and the whole reserve,
\* the digests apart.
HardCeiling ==
    LET Alerts(window) == {d \in Within(window) : d[1] # Digest}
    IN  /\ Cardinality(Alerts(Hour)) <= PerHour + ReservePerHour
        /\ Cardinality(Alerts(Day)) <= PerDay + ReservePerDay

\* No alert is held for want of budget while a less severe one of its batch is
\* delivered: routine notices cannot use up the hour ahead of a critical one.
NoInversion ==
    \A held \in run.overBudget, sent \in run.sent : Level[held] <= Level[sent]

\* Suppression is never silent for good: whatever has been held back is reported
\* in a digest in the end, even while every budget stays exhausted.
HeldIsReported == []<>(suppressed = {})

=============================================================================
