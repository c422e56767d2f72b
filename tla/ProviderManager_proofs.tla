----------------------- MODULE ProviderManager_proofs -----------------------
(***************************************************************************)
(* For every number of providers and callers, every threshold and every    *)
(* cooldown: the manager is well typed, a circuit is closed exactly while  *)
(* fewer failures than the threshold have been recorded, and an outage     *)
(* costs a bounded number of calls.                                        *)
(*                                                                         *)
(* The bound is not inductive alone.  The invariant adds why it holds: a   *)
(* closed circuit has counted every failure charged to it, a half-open one *)
(* has been charged none, and an open one admits nobody, so that from then *)
(* on a failure charged is a call that was already waiting.                *)
(***************************************************************************)
EXTENDS ProviderManager, FiniteSetTheorems, TLAPS

\* What ties a breaker to the failures charged to its provider.
Sound(b, owed) ==
    /\ b.state = "closed" <=> b.failures < FailureThreshold
    /\ b.state = "closed" => owed <= b.failures
    /\ b.state = "half_open" => owed = 0

AllSound(b, owed) == \A p \in Providers : Sound(b[p], owed[p])

Breakers == [Providers -> BreakerType]

IInv == TypeOK /\ AllSound(breaker, charged) /\ WastedCallsBounded

-----------------------------------------------------------------------------
(* The operations of one breaker                                           *)

\* Letting a caller through keeps a breaker sound, and a probe starts a new count.
LEMMA AdmittedSound ==
    ASSUME NEW b \in BreakerType, NEW owed \in Nat, Sound(b, owed)
    PROVE  /\ Admitted(b) \in BreakerType
           /\ Admitted(b).state # "open"
           /\ Sound(Admitted(b), IF b.state = "open" THEN 0 ELSE owed)
  BY BreakerAssumption DEF BreakerType, CircuitState, Admitted, Sound

\* A recorded success leaves a sound breaker, with nothing charged.
LEMMA SuccessSound ==
    ASSUME NEW b
    PROVE  RecordSuccess(b) \in BreakerType /\ Sound(RecordSuccess(b), 0)
  BY BreakerAssumption DEF BreakerType, CircuitState, RecordSuccess, NewBreaker, Sound

\* A recorded failure is counted and charged alike.
LEMMA FailureSound ==
    ASSUME NEW b \in BreakerType, NEW owed \in Nat, Sound(b, owed)
    PROVE  RecordFailure(b) \in BreakerType /\ Sound(RecordFailure(b), owed + 1)
  BY BreakerAssumption
     DEF BreakerType, CircuitState, RecordFailure, OneMoreFailure, Sound

\* The passing of time touches neither the state nor the count.
LEMMA AgedSound ==
    ASSUME NEW b \in BreakerType, NEW owed \in Nat, Sound(b, owed)
    PROVE  /\ Aged(b) \in BreakerType /\ Aged(b).state = b.state
           /\ Sound(Aged(b), owed)
  BY BreakerAssumption DEF BreakerType, CircuitState, Aged, Sound

-----------------------------------------------------------------------------
(* The candidate loop                                                      *)

\* Noting the candidates whose circuit is open leaves a list of verdicts.
LEMMA SkippingType ==
    ASSUME NEW phase, NEW log \in [Providers -> Verdict], NEW S, NEW i, NEW j
    PROVE  Skipping(phase, log, S, i, j) \in [Providers -> Verdict]
  BY DEF Skipping, Verdict

\* Wherever the loop stops, types and soundness carry over from the breakers it
\* started with.
LEMMA TryFromSound ==
    ASSUME NEW c \in Callers, NEW phase \in {"ohlcv", "other"}, NEW S \in SUBSET Providers,
           NEW i, NEW log \in [Providers -> Verdict],
           NEW b \in Breakers, NEW owed \in [Providers -> Nat], AllSound(b, owed),
           call \in [Callers -> CallType],
           TryFrom(c, phase, S, i, log, b, owed)
    PROVE  /\ breaker' \in Breakers /\ charged' \in [Providers -> Nat]
           /\ call' \in [Callers -> CallType]
           /\ AllSound(breaker, charged)'
  <1>1. ASSUME NEW p \in S, breaker' = [b EXCEPT ![p] = Admitted(b[p])],
               charged' = [owed EXCEPT ![p] = IF b[p].state = "open" THEN 0 ELSE owed[p]],
               call' = [call EXCEPT ![c] = [phase |-> phase, cands |-> S, at |-> p,
                                            log |-> Skipping(phase, log, S, i, p)]]
        PROVE  /\ breaker' \in Breakers /\ charged' \in [Providers -> Nat]
               /\ call' \in [Callers -> CallType]
               /\ AllSound(breaker, charged)'
    <2>1. b[p] \in BreakerType /\ owed[p] \in Nat /\ Sound(b[p], owed[p])
      BY DEF Breakers, AllSound
    <2>2. /\ Admitted(b[p]) \in BreakerType
          /\ Sound(Admitted(b[p]), IF b[p].state = "open" THEN 0 ELSE owed[p])
      BY <2>1, AdmittedSound
    <2>3. breaker' \in Breakers /\ charged' \in [Providers -> Nat]
      BY <1>1, <2>1, <2>2 DEF Breakers
    <2>4. AllSound(breaker', charged')
      BY <1>1, <2>2 DEF AllSound, Breakers
    <2>5. p \in 0 .. NProviders
      BY ManagerAssumption DEF Providers
    <2>6. [phase |-> phase, cands |-> S, at |-> p,
           log |-> Skipping(phase, log, S, i, p)] \in CallType
      BY <2>5, SkippingType DEF CallType, Phase
    <2>7. call' \in [Callers -> CallType]
      BY <1>1, <2>6
    <2> QED BY <2>3, <2>4, <2>7 DEF AllSound
  <1>2. CASE CallNext(c, phase, S, i, log, b, owed)
    BY <1>1, <1>2 DEF CallNext
  <1>3. CASE NoneLeft(c, phase, S, i, log, b, owed)
    <2>1. IdleCall \in CallType
      BY ManagerAssumption DEF IdleCall, NoAttempt, CallType, Phase, Verdict
    <2>2. [phase |-> "failed", cands |-> S, at |-> 0,
           log |-> Skipping(phase, log, S, i, NProviders + 1)] \in CallType
      BY ManagerAssumption, SkippingType DEF CallType, Phase
    <2>3. call' \in [Callers -> CallType]
      BY <1>3, <2>1, <2>2 DEF NoneLeft
    <2> QED BY <1>3, <2>3 DEF NoneLeft, AllSound
  <1> QED BY <1>2, <1>3 DEF TryFrom

\* The callers of fetch_ohlcv that await p.
Costly(p) == {c \in InFlight(p) : call[c].phase = "ohlcv"}

\* A provider whose circuit is open once the loop has stopped was not called by
\* it: it is as it was, and the caller does not await it.
LEMMA OpenIsLeftAlone ==
    ASSUME NEW c \in Callers, NEW phase, NEW S \in SUBSET Providers,
           NEW i, NEW log, NEW b \in Breakers, NEW owed \in [Providers -> Nat],
           AllSound(b, owed), call \in [Callers -> CallType],
           TryFrom(c, phase, S, i, log, b, owed)
    PROVE  \A p \in Providers : breaker'[p].state = "open" =>
               /\ b[p].state = "open" /\ charged'[p] = owed[p]
               /\ Costly(p)' = Costly(p) \ {c}
  <1> SUFFICES ASSUME NEW p \in Providers, breaker'[p].state = "open"
               PROVE  /\ b[p].state = "open" /\ charged'[p] = owed[p]
                      /\ Costly(p)' = Costly(p) \ {c}
    OBVIOUS
  <1>1. CASE CallNext(c, phase, S, i, log, b, owed)
    <2>1. PICK q \in S :
            /\ breaker' = [b EXCEPT ![q] = Admitted(b[q])]
            /\ charged' = [owed EXCEPT ![q] = IF b[q].state = "open" THEN 0 ELSE owed[q]]
            /\ call' = [call EXCEPT ![c] = [phase |-> phase, cands |-> S, at |-> q,
                                            log |-> Skipping(phase, log, S, i, q)]]
      BY <1>1 DEF CallNext
    <2>2. Admitted(b[q]).state # "open"
      BY AdmittedSound DEF AllSound, Breakers
    <2>3. p # q
      BY <2>1, <2>2 DEF Breakers
    <2>4. \A d \in Callers : call'[d] = IF d = c THEN call'[c] ELSE call[d]
      BY <2>1
    <2>5. call'[c].at = q
      BY <2>1
    <2>6. Costly(p)' = Costly(p) \ {c}
      BY <2>3, <2>4, <2>5 DEF Costly, InFlight, Waiting
    <2> QED BY <2>1, <2>3, <2>6 DEF Breakers
  <1>2. CASE NoneLeft(c, phase, S, i, log, b, owed)
    <2>1. call'[c].phase \in {"idle", "failed"}
      BY <1>2 DEF NoneLeft, IdleCall
    <2>2. \A d \in Callers : call'[d] = IF d = c THEN call'[c] ELSE call[d]
      BY <1>2 DEF NoneLeft
    <2>3. Costly(p)' = Costly(p) \ {c}
      BY <2>1, <2>2 DEF Costly, InFlight, Waiting
    <2> QED BY <1>2, <2>3 DEF NoneLeft
  <1> QED BY <1>1, <1>2 DEF TryFrom

-----------------------------------------------------------------------------
(* Counting the waste                                                      *)

\* Sets of callers are finite, and smaller by one without a member.
LEMMA CallersCount ==
    /\ \A S \in SUBSET Callers : IsFiniteSet(S) /\ Cardinality(S) \in Nat
                                /\ Cardinality(S) <= Cardinality(Callers)
    /\ \A S \in SUBSET Callers : \A c \in S : Cardinality(S \ {c}) = Cardinality(S) - 1
    /\ \A S \in SUBSET Callers : \A R \in SUBSET S : Cardinality(R) <= Cardinality(S)
  BY ManagerAssumption, FS_Subset, FS_CardinalityType, FS_RemoveElement

\* Where a circuit admits calls the bound holds by what has been charged: at most
\* the threshold less one, and every caller may be waiting.
LEMMA AdmittingIsBounded ==
    ASSUME NEW b \in BreakerType, NEW owed \in Nat, Sound(b, owed), b.state # "open",
           NEW W \in SUBSET Callers
    PROVE  owed + Cardinality(W) <= FailureThreshold - 1 + Cardinality(Callers)
  <1>1. owed <= FailureThreshold - 1
    BY BreakerAssumption DEF BreakerType, CircuitState, Sound
  <1>2. /\ Cardinality(W) \in Nat /\ Cardinality(Callers) \in Nat
        /\ Cardinality(W) <= Cardinality(Callers)
    BY CallersCount
  <1> QED BY <1>1, <1>2, BreakerAssumption

\* So only circuits that are open after a step need an argument: nobody has begun
\* to wait there, and a failure charged is a caller that has stopped waiting.
LEMMA BoundKept ==
    ASSUME TypeOK, WastedCallsBounded, TypeOK', AllSound(breaker, charged)',
           \A p \in Providers : breaker'[p].state = "open" =>
              \/ charged'[p] = charged[p] /\ Costly(p)' \subseteq Costly(p)
              \/ \E c \in Costly(p) :
                    charged'[p] = charged[p] + 1 /\ Costly(p)' = Costly(p) \ {c}
    PROVE  WastedCallsBounded'
  <1> SUFFICES ASSUME NEW p \in Providers
               PROVE  charged'[p] + Cardinality(Costly(p)')
                        <= FailureThreshold - 1 + Cardinality(Callers)
    BY DEF WastedCallsBounded, Costly
  <1>1. CASE breaker'[p].state # "open"
    <2>1. breaker'[p] \in BreakerType /\ charged'[p] \in Nat /\ Sound(breaker'[p], charged'[p])
      BY DEF TypeOK, AllSound
    <2>2. Costly(p)' \in SUBSET Callers
      BY DEF Costly, InFlight
    <2> QED BY <1>1, <2>1, <2>2, AdmittingIsBounded
  <1>2. CASE breaker'[p].state = "open"
    <2>1. charged[p] + Cardinality(Costly(p)) <= FailureThreshold - 1 + Cardinality(Callers)
      BY DEF WastedCallsBounded, Costly
    <2>2. Costly(p) \in SUBSET Callers /\ charged[p] \in Nat /\ charged'[p] \in Nat
      BY DEF Costly, InFlight, TypeOK
    <2>3. /\ Cardinality(Costly(p)) \in Nat /\ Cardinality(Callers) \in Nat
      BY <2>2, CallersCount
    <2>4. CASE charged'[p] = charged[p] /\ Costly(p)' \subseteq Costly(p)
      <3>1. Cardinality(Costly(p)') <= Cardinality(Costly(p)) /\ Cardinality(Costly(p)') \in Nat
        BY <2>2, <2>4, CallersCount
      <3> QED BY <2>1, <2>2, <2>3, <2>4, <3>1, BreakerAssumption
    <2>5. ASSUME NEW c \in Costly(p), charged'[p] = charged[p] + 1,
                 Costly(p)' = Costly(p) \ {c}
          PROVE  charged'[p] + Cardinality(Costly(p)')
                   <= FailureThreshold - 1 + Cardinality(Callers)
      <3>1. Cardinality(Costly(p)') = Cardinality(Costly(p)) - 1
        BY <2>2, <2>5, CallersCount
      <3> QED BY <2>1, <2>2, <2>3, <2>5, <3>1, BreakerAssumption
    <2> QED BY <1>2, <2>4, <2>5
  <1> QED BY <1>1, <1>2

-----------------------------------------------------------------------------

\* A fresh manager: every circuit closed, nothing charged, nobody waiting.
LEMMA InitInv == Init => IInv
  <1> SUFFICES ASSUME Init PROVE IInv
    OBVIOUS
  <1>1. NewBreaker \in BreakerType /\ Sound(NewBreaker, 0)
    BY SuccessSound DEF RecordSuccess
  <1>2. IdleCall \in CallType
    BY ManagerAssumption DEF IdleCall, NoAttempt, CallType, Phase, Verdict
  <1>3. TypeOK
    BY <1>1, <1>2 DEF Init, TypeOK
  <1>4. AllSound(breaker, charged)
    BY <1>1 DEF Init, AllSound
  <1>5. \A p \in Providers : breaker[p].state # "open"
    BY DEF Init, NewBreaker
  <1>6. WastedCallsBounded
    <2> SUFFICES ASSUME NEW p \in Providers
                 PROVE  charged[p] + Cardinality(Costly(p))
                          <= FailureThreshold - 1 + Cardinality(Callers)
      BY DEF WastedCallsBounded, Costly
    <2>1. breaker[p] \in BreakerType /\ charged[p] \in Nat /\ Sound(breaker[p], charged[p])
      BY <1>3, <1>4 DEF TypeOK, AllSound
    <2>2. Costly(p) \in SUBSET Callers
      BY DEF Costly, InFlight
    <2> QED BY <1>5, <2>1, <2>2, AdmittingIsBounded
  <1> QED BY <1>3, <1>4, <1>6 DEF IInv

-----------------------------------------------------------------------------
(* One lemma per action                                                    *)

\* Starting a request, of either kind, keeps the invariant.
LEMMA StartInv ==
    ASSUME IInv, NEW c \in Callers, NEW S \in SUBSET Providers,
           NEW phase \in {"ohlcv", "other"}, NEW i,
           TryFrom(c, phase, S, i, NoAttempt, breaker, charged), UNCHANGED up
    PROVE  IInv'
  <1>1. NoAttempt \in [Providers -> Verdict]
    BY DEF NoAttempt, Verdict
  <1>2. /\ breaker \in Breakers /\ charged \in [Providers -> Nat]
        /\ call \in [Callers -> CallType] /\ AllSound(breaker, charged)
    BY DEF IInv, TypeOK, Breakers
  <1>3. TypeOK' /\ AllSound(breaker, charged)'
    BY <1>1, <1>2, TryFromSound DEF IInv, TypeOK, Breakers
  <1>4. \A p \in Providers : breaker'[p].state = "open" =>
            charged'[p] = charged[p] /\ Costly(p)' \subseteq Costly(p)
    <2>1. \A p \in Providers : breaker'[p].state = "open" =>
              /\ breaker[p].state = "open" /\ charged'[p] = charged[p]
              /\ Costly(p)' = Costly(p) \ {c}
      BY <1>2, OpenIsLeftAlone
    <2> QED BY <2>1
  <1>5. WastedCallsBounded'
    BY <1>3, <1>4, BoundKept DEF IInv
  <1> QED BY <1>3, <1>5 DEF IInv

\* What recording a verdict does to breakers and charges.
LEMMA RecordedSound ==
    ASSUME IInv, NEW p \in Providers, NEW v \in Verdict
    PROVE  /\ Recorded(p, v) \in Breakers /\ Charged(p, v) \in [Providers -> Nat]
           /\ AllSound(Recorded(p, v), Charged(p, v))
  <1>1. \A q \in Providers : /\ breaker[q] \in BreakerType /\ charged[q] \in Nat
                             /\ Sound(breaker[q], charged[q])
    BY DEF IInv, TypeOK, AllSound
  <1>2. /\ RecordSuccess(breaker[p]) \in BreakerType
        /\ Sound(RecordSuccess(breaker[p]), 0)
        /\ RecordFailure(breaker[p]) \in BreakerType
        /\ Sound(RecordFailure(breaker[p]), charged[p] + 1)
    BY <1>1, SuccessSound, FailureSound
  <1>3. breaker \in [Providers -> BreakerType] /\ charged \in [Providers -> Nat]
    BY DEF IInv, TypeOK
  <1>4. CASE v \in {"ok", "empty"}
    <2>1. /\ Recorded(p, v) = [breaker EXCEPT ![p] = RecordSuccess(breaker[p])]
          /\ Charged(p, v) = [charged EXCEPT ![p] = 0]
      BY <1>4 DEF Recorded, Charged
    <2> QED BY <1>1, <1>2, <1>3, <2>1 DEF Breakers, AllSound
  <1>5. CASE v = "error"
    <2>1. /\ Recorded(p, v) = [breaker EXCEPT ![p] = RecordFailure(breaker[p])]
          /\ Charged(p, v) = [charged EXCEPT ![p] = charged[p] + 1]
      BY <1>5 DEF Recorded, Charged
    <2> QED BY <1>1, <1>2, <1>3, <2>1 DEF Breakers, AllSound
  <1>6. CASE v \notin {"ok", "empty", "error"}
    <2>1. Recorded(p, v) = breaker /\ Charged(p, v) = charged
      BY <1>3, <1>6 DEF Recorded, Charged
    <2> QED BY <1>1, <1>3, <2>1 DEF Breakers, AllSound
  <1> QED BY <1>4, <1>5, <1>6

\* An answer to a request for candles keeps the invariant, whether it is returned
\* or the next candidate is called.
LEMMA AnswerOhlcvInv ==
    ASSUME IInv, NEW c \in Callers, NEW p \in Providers, NEW v \in Verdict,
           AnswerOhlcv(c, p, v)
    PROVE  IInv'
  <1> DEFINE b == Recorded(p, v)
             owed == Charged(p, v)
             log == [call[c].log EXCEPT ![p] = v]
  <1>1. /\ b \in Breakers /\ owed \in [Providers -> Nat] /\ AllSound(b, owed)
    BY RecordedSound
  <1>2. /\ call \in [Callers -> CallType] /\ call[c] \in CallType /\ up' \in [Providers -> BOOLEAN]
        /\ breaker \in Breakers /\ charged \in [Providers -> Nat]
    BY DEF IInv, TypeOK, AnswerOhlcv, Breakers
  <1>3. c \in Costly(p)
    BY DEF AnswerOhlcv, Costly, InFlight, Waiting
  <1>4. \A q \in Providers \ {p} : b[q] = breaker[q] /\ owed[q] = charged[q]
    BY <1>2 DEF Recorded, Charged, Breakers
  <1>5. b[p].state = "open" =>
            \/ owed[p] = charged[p] + 1
            \/ owed[p] = charged[p]
    <2>1. CASE v \in {"ok", "empty"}
      BY <1>2, <2>1 DEF Recorded, RecordSuccess, NewBreaker, Breakers
    <2>2. CASE v = "error"
      BY <1>2, <2>2 DEF Charged
    <2>3. CASE v \notin {"ok", "empty", "error"}
      BY <1>2, <2>3 DEF Charged
    <2> QED BY <2>1, <2>2, <2>3
  <1> HIDE DEF b, owed
  <1>6. CASE v = "ok"
    <2>1. /\ breaker' = b /\ charged' = owed
          /\ call' = [call EXCEPT ![c].phase = "served", ![c].at = 0, ![c].log[p] = "ok"]
      BY <1>6 DEF AnswerOhlcv, b, owed
    <2>2. call'[c] \in CallType
      <3>1. call'[c] = [phase |-> "served", cands |-> call[c].cands, at |-> 0,
                        log |-> [call[c].log EXCEPT ![p] = "ok"]]
        BY <1>2, <2>1 DEF CallType
      <3>2. [call[c].log EXCEPT ![p] = "ok"] \in [Providers -> Verdict]
        BY <1>2 DEF CallType, Verdict
      <3>3. call[c].cands \in SUBSET Providers
        BY <1>2 DEF CallType
      <3> QED BY <3>1, <3>2, <3>3, ManagerAssumption DEF CallType, Phase
    <2>3. call' \in [Callers -> CallType]
      BY <1>2, <2>1, <2>2
    <2>4. TypeOK' /\ AllSound(breaker, charged)'
      BY <1>1, <1>2, <2>1, <2>3 DEF TypeOK, Breakers, AllSound
    <2>5. b[p].state # "open"
      BY <1>2, <1>6 DEF b, Recorded, RecordSuccess, NewBreaker, Breakers
    <2>6. call'[c].phase = "served" /\ \A d \in Callers \ {c} : call'[d] = call[d]
      BY <1>2, <2>1 DEF CallType
    <2>7. \A q \in Providers : Costly(q)' \subseteq Costly(q)
      BY <2>6 DEF Costly, InFlight, Waiting
    <2>8. WastedCallsBounded'
      BY <1>4, <2>1, <2>4, <2>5, <2>7, BoundKept DEF IInv
    <2> QED BY <2>4, <2>8 DEF IInv
  <1>7. CASE v # "ok"
    <2>1. TryFrom(c, "ohlcv", call[c].cands, p, log, b, owed)
      BY <1>7 DEF AnswerOhlcv, b, owed
    <2>2. call[c].cands \in SUBSET Providers /\ log \in [Providers -> Verdict]
      BY <1>2 DEF CallType
    <2> HIDE DEF log
    <2>3. TypeOK' /\ AllSound(breaker, charged)'
      BY <1>1, <1>2, <2>1, <2>2, TryFromSound DEF TypeOK, Breakers
    <2>4. \A q \in Providers : breaker'[q].state = "open" =>
              /\ b[q].state = "open" /\ charged'[q] = owed[q]
              /\ Costly(q)' = Costly(q) \ {c}
      BY <1>1, <1>2, <2>1, <2>2, OpenIsLeftAlone
    <2>5. WastedCallsBounded'
      BY <1>3, <1>4, <1>5, <2>3, <2>4, BoundKept DEF IInv
    <2> QED BY <2>3, <2>5 DEF IInv
  <1> QED BY <1>6, <1>7

\* An answer to one of the other requests, which the breaker is not told of.
LEMMA AnswerOtherInv ==
    ASSUME IInv, NEW c \in Callers, NEW p \in Providers, NEW v \in Verdict,
           AnswerOther(c, p, v)
    PROVE  IInv'
  <1>1. /\ breaker \in Breakers /\ charged \in [Providers -> Nat]
        /\ call \in [Callers -> CallType] /\ AllSound(breaker, charged)
        /\ up' \in [Providers -> BOOLEAN]
    BY DEF IInv, TypeOK, Breakers, AnswerOther
  <1>2. CASE call' = [call EXCEPT ![c] = IdleCall] /\ UNCHANGED <<breaker, charged>>
    <2>1. IdleCall \in CallType
      BY ManagerAssumption DEF IdleCall, NoAttempt, CallType, Phase, Verdict
    <2>2. TypeOK' /\ AllSound(breaker, charged)'
      BY <1>1, <1>2, <2>1 DEF TypeOK, Breakers, AllSound
    <2>3. \A q \in Providers : Costly(q)' \subseteq Costly(q)
      BY <1>1, <1>2 DEF Costly, InFlight, Waiting, IdleCall
    <2>4. WastedCallsBounded'
      BY <1>2, <2>2, <2>3, BoundKept DEF IInv
    <2> QED BY <2>2, <2>4 DEF IInv
  <1>3. CASE TryFrom(c, "other", call[c].cands, p, NoAttempt, breaker, charged)
    <2>1. call[c].cands \in SUBSET Providers /\ NoAttempt \in [Providers -> Verdict]
      BY <1>1 DEF CallType, NoAttempt, Verdict
    <2>2. TypeOK' /\ AllSound(breaker, charged)'
      BY <1>1, <1>3, <2>1, TryFromSound DEF TypeOK, Breakers
    <2>3. \A q \in Providers : breaker'[q].state = "open" =>
              charged'[q] = charged[q] /\ Costly(q)' \subseteq Costly(q)
      <3>1. \A r \in Providers : breaker'[r].state = "open" =>
                /\ breaker[r].state = "open" /\ charged'[r] = charged[r]
                /\ Costly(r)' = Costly(r) \ {c}
        BY <1>1, <1>3, <2>1, OpenIsLeftAlone
      <3> QED BY <3>1
    <2>4. WastedCallsBounded'
      BY <2>2, <2>3, BoundKept DEF IInv
    <2> QED BY <2>2, <2>4 DEF IInv
  <1> QED BY <1>2, <1>3 DEF AnswerOther

\* Comparing sources admits probes that nobody will report on.
LEMMA CompareInv ==
    ASSUME IInv, NEW S \in Routes, CompareSources(S)
    PROVE  IInv'
  <1>1. \A q \in Providers : /\ breaker[q] \in BreakerType /\ charged[q] \in Nat
                             /\ Sound(breaker[q], charged[q])
    BY DEF IInv, TypeOK, AllSound
  <1>2. \A q \in Providers :
            \/ breaker'[q] = Admitted(breaker[q])
                  /\ charged'[q] = IF breaker[q].state = "open" THEN 0 ELSE charged[q]
            \/ breaker'[q] = breaker[q] /\ charged'[q] = charged[q]
    BY DEF CompareSources
  <1>3. \A q \in Providers : /\ breaker'[q] \in BreakerType /\ charged'[q] \in Nat
                             /\ Sound(breaker'[q], charged'[q])
    BY <1>1, <1>2, AdmittedSound
  <1>4. \A q \in Providers : breaker'[q].state = "open" => charged'[q] = charged[q]
    BY <1>1, <1>2, AdmittedSound
  <1>5. TypeOK' /\ AllSound(breaker, charged)'
    BY <1>3 DEF CompareSources, IInv, TypeOK, AllSound
  <1>6. \A q \in Providers : Costly(q)' = Costly(q)
    BY DEF CompareSources, Costly, InFlight, Waiting
  <1>7. WastedCallsBounded'
    BY <1>4, <1>5, <1>6, BoundKept DEF IInv
  <1> QED BY <1>5, <1>7 DEF IInv

\* A cancelled caller stops waiting; nothing else changes.
LEMMA AbandonInv ==
    ASSUME IInv, NEW c \in Callers, Abandon(c)
    PROVE  IInv'
  <1>1. IdleCall \in CallType
    BY ManagerAssumption DEF IdleCall, NoAttempt, CallType, Phase, Verdict
  <1>2. call \in [Callers -> CallType] /\ call' = [call EXCEPT ![c] = IdleCall]
    BY DEF IInv, TypeOK, Abandon
  <1>3. TypeOK' /\ AllSound(breaker, charged)'
    BY <1>1, <1>2 DEF IInv, TypeOK, AllSound, Abandon
  <1>4. \A q \in Providers : charged'[q] = charged[q] /\ Costly(q)' \subseteq Costly(q)
    BY <1>2 DEF Abandon, Costly, InFlight, Waiting, IdleCall
  <1>5. WastedCallsBounded'
    BY <1>3, <1>4, BoundKept DEF IInv
  <1> QED BY <1>3, <1>5 DEF IInv

\* The clock ages every breaker at once.
LEMMA TickInv ==
    ASSUME IInv, Tick
    PROVE  IInv'
  <1>1. \A q \in Providers : /\ breaker[q] \in BreakerType /\ charged[q] \in Nat
                             /\ Sound(breaker[q], charged[q])
    BY DEF IInv, TypeOK, AllSound
  <1>2. \A q \in Providers : /\ Aged(breaker[q]) \in BreakerType
                             /\ Sound(Aged(breaker[q]), charged[q])
    BY <1>1, AgedSound
  <1>3. TypeOK' /\ AllSound(breaker, charged)'
    BY <1>1, <1>2 DEF Tick, IInv, TypeOK, AllSound
  <1>4. \A q \in Providers : charged'[q] = charged[q] /\ Costly(q)' = Costly(q)
    BY DEF Tick, Costly, InFlight, Waiting
  <1>5. WastedCallsBounded'
    BY <1>3, <1>4, BoundKept DEF IInv
  <1> QED BY <1>3, <1>5 DEF IInv

\* What happens to the endpoints themselves is seen by no breaker.
LEMMA OutsideInv ==
    ASSUME IInv, UNCHANGED <<breaker, call, charged>>, up' \in [Providers -> BOOLEAN]
    PROVE  IInv'
  BY DEF IInv, TypeOK, AllSound, WastedCallsBounded, InFlight, Waiting

-----------------------------------------------------------------------------

\* No step of any caller, the clock or an outage breaks the invariant.
THEOREM NextInv == IInv /\ [Next]_vars => IInv'
  <1> SUFFICES ASSUME IInv, [Next]_vars PROVE IInv'
    OBVIOUS
  <1>1. ASSUME NEW c \in Callers, NEW S \in Routes, StartOhlcv(c, S) PROVE IInv'
    BY <1>1, StartInv, ManagerAssumption DEF StartOhlcv
  <1>2. ASSUME NEW c \in Callers, NEW S \in Capable, StartOther(c, S) PROVE IInv'
    BY <1>2, StartInv, ManagerAssumption DEF StartOther
  <1>3. ASSUME NEW S \in Routes, CompareSources(S) PROVE IInv'
    BY <1>3, CompareInv
  <1>4. ASSUME NEW c \in Callers, NEW p \in Providers, NEW v \in Verdict,
               AnswerOhlcv(c, p, v) \/ AnswerOther(c, p, v)
        PROVE  IInv'
    BY <1>4, AnswerOhlcvInv, AnswerOtherInv
  <1>5. ASSUME NEW c \in Callers, Abandon(c) PROVE IInv'
    BY <1>5, AbandonInv
  <1>6. CASE Tick
    BY <1>6, TickInv
  <1>7. ASSUME NEW p \in Providers, Outage(p) PROVE IInv'
    <2>1. up' \in [Providers -> BOOLEAN]
      BY <1>7 DEF Outage, IInv, TypeOK
    <2> QED BY <1>7, <2>1, OutsideInv DEF Outage
  <1>8. CASE UNCHANGED vars
    <2>1. up' \in [Providers -> BOOLEAN]
      BY <1>8 DEF vars, IInv, TypeOK
    <2> QED BY <1>8, <2>1, OutsideInv DEF vars
  <1> QED BY <1>1, <1>2, <1>3, <1>4, <1>5, <1>6, <1>7, <1>8 DEF Next

\* Every reachable state of the manager satisfies the inductive invariant.
THEOREM Invariance == Spec => []IInv
  BY InitInv, NextInv, PTL DEF Spec

\* Every breaker, caller and charge stays within its type.
THEOREM TypeCorrect == Spec => []TypeOK
  <1>1. IInv => TypeOK
    BY DEF IInv
  <1> QED BY <1>1, Invariance, PTL

\* A circuit is closed exactly while fewer consecutive failures than the threshold
\* are on record, in whatever order concurrent callers report their answers.
THEOREM ClosedMeansFewFailures == Spec => []ClosedBelowThreshold
  <1>1. IInv => ClosedBelowThreshold
    BY DEF IInv, AllSound, Sound, ClosedBelowThreshold
  <1> QED BY <1>1, Invariance, PTL

\* Between two successes or probes, a dead provider costs at most the threshold's
\* failures and one for each caller that was already waiting.
THEOREM OutageCostsLittle == Spec => []WastedCallsBounded
  <1>1. IInv => WastedCallsBounded
    BY DEF IInv
  <1> QED BY <1>1, Invariance, PTL

-----------------------------------------------------------------------------
(* Failover                                                                *)
(*                                                                         *)
(* How a request ends is decided by what its caller knows while it waits:  *)
(* every candidate before the one awaited was found open or has answered   *)
(* without data, and none from there on was tried.                         *)

\* The verdicts that send a request on to the next candidate.
Passed(v) == v \notin {"untried", "ok"}

\* The attempts list of a loop that has settled the candidates before p, no more.
SettledBefore(S, log, p) ==
    \A q \in S : IF q < p THEN Passed(log[q]) ELSE log[q] = "untried"

Progress(r) == r.phase = "ohlcv" => r.at \in r.cands /\ SettledBefore(r.cands, r.log, r.at)

\* One caller's part of EveryCandidateAccounted.
Outcome(r) ==
    /\ r.phase = "failed" => \A p \in r.cands : Passed(r.log[p])
    /\ r.phase = "served" =>
        \E p \in r.cands :
            /\ r.log[p] = "ok"
            /\ \A q \in r.cands : IF q < p THEN Passed(r.log[q])
                                  ELSE q > p => r.log[q] = "untried"

Failover == \A c \in Callers : Progress(call[c]) /\ Outcome(call[c])

FInv == TypeOK /\ Failover

\* Providers are ordered as the integers are.
LEMMA ProvidersAreNumbers ==
    /\ \A p \in Providers : p \in Int /\ 0 < p /\ p < NProviders + 1
    /\ NProviders \in Int
  BY ManagerAssumption DEF Providers

\* The loop over the candidates after i takes up where the list left off: where it
\* stops to wait, and where it ends, all it passed by is accounted for.
LEMMA LoopAccounts ==
    ASSUME NEW c \in Callers, NEW phase \in {"ohlcv", "other"}, NEW S \in SUBSET Providers,
           NEW i \in Int, NEW log \in [Providers -> Verdict], NEW b, NEW owed,
           call \in [Callers -> CallType],
           phase = "ohlcv" => SettledBefore(S, log, i + 1),
           TryFrom(c, phase, S, i, log, b, owed)
    PROVE  /\ Progress(call'[c]) /\ Outcome(call'[c])
           /\ \A d \in Callers \ {c} : call'[d] = call[d]
  <1>1. \A q \in S : q \in Int /\ q \in Providers /\ 0 < q /\ q < NProviders + 1
    BY ProvidersAreNumbers
  <1>2. ASSUME NEW j \in Int, phase = "ohlcv", i < j
        PROVE  \A q \in S : IF q < j THEN Passed(Skipping(phase, log, S, i, j)[q])
                            ELSE Skipping(phase, log, S, i, j)[q] = "untried"
    <2> SUFFICES ASSUME NEW q \in S
                 PROVE  IF q < j THEN Passed(Skipping(phase, log, S, i, j)[q])
                        ELSE Skipping(phase, log, S, i, j)[q] = "untried"
      OBVIOUS
    <2>1. Skipping(phase, log, S, i, j)[q] =
              IF i < q /\ q < j THEN "circuit_open" ELSE log[q]
      BY <1>2 DEF Skipping
    <2>2. IF q < i + 1 THEN Passed(log[q]) ELSE log[q] = "untried"
      BY <1>2 DEF SettledBefore
    <2> QED BY <1>1, <1>2, <2>1, <2>2 DEF Passed
  <1>3. CASE CallNext(c, phase, S, i, log, b, owed)
    <2>1. PICK p \in S :
            /\ i < p
            /\ call' = [call EXCEPT ![c] = [phase |-> phase, cands |-> S, at |-> p,
                                            log |-> Skipping(phase, log, S, i, p)]]
      BY <1>3 DEF CallNext
    <2>2. call'[c] = [phase |-> phase, cands |-> S, at |-> p,
                      log |-> Skipping(phase, log, S, i, p)]
      BY <2>1
    <2>3. Progress(call'[c])
      BY <1>1, <1>2, <2>1, <2>2 DEF Progress, SettledBefore
    <2> QED BY <2>1, <2>2, <2>3 DEF Outcome
  <1>4. CASE NoneLeft(c, phase, S, i, log, b, owed)
    <2>1. call' = [call EXCEPT ![c] =
                      IF phase = "other" THEN IdleCall
                      ELSE [phase |-> "failed", cands |-> S, at |-> 0,
                            log |-> Skipping(phase, log, S, i, NProviders + 1)]]
      BY <1>4 DEF NoneLeft
    <2>2. CASE phase = "other"
      BY <2>1, <2>2 DEF IdleCall, Progress, Outcome
    <2>3. CASE phase = "ohlcv"
      <3>1. call'[c] = [phase |-> "failed", cands |-> S, at |-> 0,
                        log |-> Skipping(phase, log, S, i, NProviders + 1)]
        BY <2>1, <2>3
      <3>2. \A q \in S : Passed(Skipping(phase, log, S, i, NProviders + 1)[q])
        <4> SUFFICES ASSUME NEW q \in S
                     PROVE  Passed(Skipping(phase, log, S, i, NProviders + 1)[q])
          OBVIOUS
        <4>1. Skipping(phase, log, S, i, NProviders + 1)[q] =
                  IF i < q /\ q < NProviders + 1 THEN "circuit_open" ELSE log[q]
          BY <2>3 DEF Skipping
        <4>2. IF q < i + 1 THEN Passed(log[q]) ELSE log[q] = "untried"
          BY <2>3 DEF SettledBefore
        <4> QED BY <1>1, <4>1, <4>2 DEF Passed
      <3> QED BY <2>1, <3>1, <3>2 DEF Progress, Outcome
    <2> QED BY <2>2, <2>3
  <1> QED BY <1>3, <1>4 DEF TryFrom

\* A caller that stops, for whatever reason, says nothing of any candidate.
LEMMA IdleOwesNothing == Progress(IdleCall) /\ Outcome(IdleCall)
  BY DEF IdleCall, Progress, Outcome

\* A new request has asked nobody.
LEMMA StartAccounts ==
    ASSUME FInv, NEW c \in Callers, NEW S \in SUBSET Providers,
           NEW phase \in {"ohlcv", "other"},
           TryFrom(c, phase, S, 0, NoAttempt, breaker, charged)
    PROVE  Failover'
  <1>1. NoAttempt \in [Providers -> Verdict]
    BY DEF NoAttempt, Verdict
  <1>2. SettledBefore(S, NoAttempt, 0 + 1)
    BY ProvidersAreNumbers DEF SettledBefore, NoAttempt
  <1> QED BY <1>1, <1>2, LoopAccounts DEF FInv, TypeOK, Failover

\* An answer settles the candidate that was awaited, and no other.
LEMMA AnswerOhlcvAccounts ==
    ASSUME FInv, NEW c \in Callers, NEW p \in Providers, NEW v \in Verdict,
           AnswerOhlcv(c, p, v)
    PROVE  Failover'
  <1> DEFINE log == [call[c].log EXCEPT ![p] = v]
  <1>1. call \in [Callers -> CallType] /\ call[c] \in CallType
    BY DEF FInv, TypeOK
  <1>2. call[c].phase = "ohlcv" /\ call[c].at = p /\ v \in {"ok", "empty", "error", "not_supported"}
    BY DEF AnswerOhlcv, Answers
  <1>3. p \in call[c].cands /\ SettledBefore(call[c].cands, call[c].log, p)
    BY <1>2 DEF FInv, Failover, Progress
  <1>4. call[c].cands \in SUBSET Providers /\ call[c].log \in [Providers -> Verdict]
    BY <1>1 DEF CallType
  <1>5. \A q \in Providers : log[q] = IF q = p THEN v ELSE call[c].log[q]
    BY <1>4
  <1>6. log \in [Providers -> Verdict]
    BY <1>4
  <1> HIDE DEF log
  <1>7. CASE v = "ok"
    <2>1. /\ call'[c] = [phase |-> "served", cands |-> call[c].cands, at |-> 0, log |-> log]
          /\ \A d \in Callers \ {c} : call'[d] = call[d]
      BY <1>1, <1>7 DEF AnswerOhlcv, CallType, log
    <2>2. \A q \in call[c].cands : IF q < p THEN Passed(log[q])
                                   ELSE q > p => log[q] = "untried"
      BY <1>3, <1>4, <1>5, ProvidersAreNumbers DEF SettledBefore
    <2>3. Outcome(call'[c])
      BY <1>3, <1>5, <1>7, <2>1, <2>2 DEF Outcome
    <2>4. Progress(call'[c])
      BY <2>1 DEF Progress
    <2> QED BY <2>1, <2>3, <2>4 DEF FInv, Failover
  <1>8. CASE v # "ok"
    <2>1. TryFrom(c, "ohlcv", call[c].cands, p, log, Recorded(p, v), Charged(p, v))
      BY <1>8 DEF AnswerOhlcv, log
    <2>2. SettledBefore(call[c].cands, log, p + 1)
      <3> SUFFICES ASSUME NEW q \in call[c].cands
                   PROVE  IF q < p + 1 THEN Passed(log[q]) ELSE log[q] = "untried"
        BY DEF SettledBefore
      <3>1. q \in Int /\ p \in Int /\ q \in Providers
        BY <1>4, ProvidersAreNumbers
      <3>2. IF q < p THEN Passed(call[c].log[q]) ELSE call[c].log[q] = "untried"
        BY <1>3 DEF SettledBefore
      <3>3. Passed(v)
        BY <1>2, <1>8 DEF Passed
      <3> QED BY <1>5, <3>1, <3>2, <3>3
    <2>3. p \in Int
      BY ProvidersAreNumbers
    <2>4. /\ Progress(call'[c]) /\ Outcome(call'[c])
          /\ \A d \in Callers \ {c} : call'[d] = call[d]
      BY <1>1, <1>4, <1>6, <2>1, <2>2, <2>3, LoopAccounts
    <2> QED BY <2>4 DEF FInv, Failover
  <1> QED BY <1>7, <1>8

\* The other fetches keep no list, and what they end in claims nothing.
LEMMA AnswerOtherAccounts ==
    ASSUME FInv, NEW c \in Callers, NEW p \in Providers, NEW v \in Verdict,
           AnswerOther(c, p, v)
    PROVE  Failover'
  <1>1. call \in [Callers -> CallType] /\ call[c] \in CallType
    BY DEF FInv, TypeOK
  <1>2. CASE call' = [call EXCEPT ![c] = IdleCall]
    BY <1>1, <1>2, IdleOwesNothing DEF FInv, Failover
  <1>3. CASE TryFrom(c, "other", call[c].cands, p, NoAttempt, breaker, charged)
    <2>1. /\ call[c].cands \in SUBSET Providers /\ p \in Int
          /\ NoAttempt \in [Providers -> Verdict]
      BY <1>1, ProvidersAreNumbers DEF CallType, NoAttempt, Verdict
    <2>2. /\ Progress(call'[c]) /\ Outcome(call'[c])
          /\ \A d \in Callers \ {c} : call'[d] = call[d]
      BY <1>1, <1>3, <2>1, LoopAccounts
    <2> QED BY <2>2 DEF FInv, Failover
  <1> QED BY <1>2, <1>3 DEF AnswerOther

\* Whatever the callers, the clock and the endpoints do, no caller loses count of
\* the candidates it has passed by.
THEOREM FailoverKept == FInv /\ [Next]_vars /\ TypeOK' => FInv'
  <1> SUFFICES ASSUME FInv, [Next]_vars PROVE Failover'
    BY DEF FInv
  <1>1. ASSUME NEW c \in Callers, NEW S \in Routes, StartOhlcv(c, S) PROVE Failover'
    BY <1>1, StartAccounts, ManagerAssumption DEF StartOhlcv
  <1>2. ASSUME NEW c \in Callers, NEW S \in Capable, StartOther(c, S) PROVE Failover'
    BY <1>2, StartAccounts, ManagerAssumption DEF StartOther
  <1>3. ASSUME NEW c \in Callers, NEW p \in Providers, NEW v \in Verdict,
               AnswerOhlcv(c, p, v) \/ AnswerOther(c, p, v)
        PROVE  Failover'
    BY <1>3, AnswerOhlcvAccounts, AnswerOtherAccounts
  <1>4. ASSUME NEW c \in Callers, Abandon(c) PROVE Failover'
    <2>1. call' = [call EXCEPT ![c] = IdleCall] /\ call \in [Callers -> CallType]
      BY <1>4 DEF Abandon, FInv, TypeOK
    <2> QED BY <2>1, IdleOwesNothing DEF FInv, Failover
  <1>5. CASE UNCHANGED call
    BY <1>5 DEF FInv, Failover
  <1> QED BY <1>1, <1>2, <1>3, <1>4, <1>5 DEF Next, CompareSources, Tick, Outage, vars

\* No provider is skipped: a request fails only when every candidate was open or
\* had no data, and is served by the first that has any.
THEOREM NobodyIsSkipped == Spec => []EveryCandidateAccounted
  <1>1. Init => Failover
    BY IdleOwesNothing DEF Init, Failover
  <1>2. Failover => EveryCandidateAccounted
    BY DEF Failover, Outcome, Passed, EveryCandidateAccounted
  <1> QED BY <1>1, <1>2, FailoverKept, TypeCorrect, PTL DEF Spec, FInv
=============================================================================
