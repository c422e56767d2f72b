------------------------- MODULE AlertBudget_proofs -------------------------
(***************************************************************************)
(* For every set of alerts, every budget, reserve and window: the rate     *)
(* budget is well typed, its ceiling is hard, and no alert is held for     *)
(* want of budget while a less severe one of its batch goes out.           *)
(*                                                                         *)
(* The ceiling is not inductive alone: what makes room for the reserve is  *)
(* that alerts which may not draw on it never fill more than the ordinary  *)
(* budget.  The order of a batch rests on what is left of it being no more *)
(* severe than what has been decided, and on a budget once used up staying *)
(* so for the rest of the batch.                                           *)
(*                                                                         *)
(* And for the rules that come before the budget: whatever contexts they   *)
(* are given, an alert that is refused silences no other.                  *)
(***************************************************************************)
EXTENDS AlertBudget, AlertRules, FiniteSetTheorems, TLAPS

Alerts(window) == {d \in Within(window) : d[1] # Digest}
Routine(window) == {d \in Alerts(window) : Level[d[1]] < CRITICAL}

Bounded(window, budget, allowance) ==
    /\ Cardinality(Routine(window)) <= budget
    /\ Cardinality(Alerts(window)) <= budget + allowance

Full == \/ Cardinality(Within(Hour)) >= PerHour
        \/ Cardinality(Within(Day)) >= PerDay

\* What is left of a batch is no more severe than what has been decided of it.
InOrder ==
    /\ \A j \in run.batch : \A k \in run.sent \cup run.overBudget : Level[j] <= Level[k]
    /\ run.overBudget # {} => Full

\* A run's decisions end with it.
BetweenRuns == run.phase = "idle" => run.sent = {} /\ run.overBudget = {}

IInv ==
    /\ TypeOK
    /\ BetweenRuns
    /\ Bounded(Hour, PerHour, ReservePerHour)
    /\ Bounded(Day, PerDay, ReservePerDay)
    /\ InOrder
    /\ NoInversion

-----------------------------------------------------------------------------
(* Finite sets of deliveries                                               *)

\* Only finitely many deliveries are remembered.
LEMMA DeliveredFinite == TypeOK => IsFiniteSet(delivered)
  <1> SUFFICES ASSUME TypeOK PROVE IsFiniteSet(delivered)
    OBVIOUS
  <1>1. IsFiniteSet(Keys \cup {Digest})
    BY BudgetAssumption, FS_AddElement
  <1>2. IsFiniteSet(0 .. Day)
    BY BudgetAssumption, FS_Interval, SMT
  <1>3. IsFiniteSet((Keys \cup {Digest}) \X (0 .. Day))
    BY <1>1, <1>2, FS_Product
  <1> QED BY <1>3, FS_Subset DEF TypeOK

\* A set of deliveries that has grown older is no larger.
LEMMA OlderNoLarger ==
    ASSUME NEW S, NEW T, IsFiniteSet(S), T \subseteq {<<d[1], d[2] + 1>> : d \in S}
    PROVE  Cardinality(T) <= Cardinality(S)
  <1> DEFINE U == {<<d[1], d[2] + 1>> : d \in S}
             f == [d \in S |-> <<d[1], d[2] + 1>>]
  <1>1. f \in Surjection(S, U)
    BY DEF Surjection
  <1> HIDE DEF U, f
  <1>2. IsFiniteSet(U) /\ Cardinality(U) <= Cardinality(S)
    BY <1>1, FS_Surjection
  <1>3. T \in SUBSET U
    BY DEF U
  <1>4. IsFiniteSet(T) /\ Cardinality(T) <= Cardinality(U)
    BY <1>2, <1>3, FS_Subset
  <1> QED BY <1>2, <1>4, FS_CardinalityType

\* The parts a window of deliveries falls into.
LEMMA Parts ==
    ASSUME TypeOK, NEW w
    PROVE  /\ \A S \in SUBSET Within(w) : IsFiniteSet(S) /\ Cardinality(S) \in Nat
                                          /\ Cardinality(S) <= Cardinality(Within(w))
           /\ Routine(w) \subseteq Within(w) /\ Alerts(w) \subseteq Within(w)
           /\ Criticals(w) \subseteq Within(w)
           /\ Cardinality(Alerts(w)) <= Cardinality(Routine(w)) + Cardinality(Criticals(w))
  <1>1. IsFiniteSet(Within(w))
    BY DeliveredFinite, FS_Subset DEF Within
  <1>2. \A S \in SUBSET Within(w) : IsFiniteSet(S) /\ Cardinality(S) \in Nat
                                    /\ Cardinality(S) <= Cardinality(Within(w))
    BY <1>1, FS_Subset, FS_CardinalityType
  <1>3. /\ Routine(w) \subseteq Within(w) /\ Alerts(w) \subseteq Within(w)
        /\ Criticals(w) \subseteq Within(w)
    BY DEF Routine, Alerts, Criticals
  <1>4. Alerts(w) = Routine(w) \cup Criticals(w)
    <2>1. \A d \in Alerts(w) : Level[d[1]] \in Int
      BY BudgetAssumption DEF Alerts, Within, TypeOK, INFO, CRITICAL
    <2> QED BY <2>1 DEF Routine, Alerts, Criticals, CRITICAL
  <1>5. Cardinality(Routine(w) \cup Criticals(w)) =
            Cardinality(Routine(w)) + Cardinality(Criticals(w))
            - Cardinality(Routine(w) \cap Criticals(w))
    BY <1>2, <1>3, FS_Union
  <1>6. /\ Cardinality(Routine(w) \cap Criticals(w)) \in Nat
        /\ Cardinality(Routine(w)) \in Nat /\ Cardinality(Criticals(w)) \in Nat
    BY <1>2, <1>3
  <1>7. Cardinality(Alerts(w)) <= Cardinality(Routine(w)) + Cardinality(Criticals(w))
    BY <1>4, <1>5, <1>6
  <1> QED BY <1>2, <1>3, <1>7

-----------------------------------------------------------------------------
(* The ceiling of one window                                               *)

\* An alert that is not over the budget leaves its window within bounds.
LEMMA DeliverBounded ==
    ASSUME TypeOK, NEW CONSTANT w \in Nat, NEW CONSTANT b \in Nat, NEW CONSTANT r \in Nat,
           NEW CONSTANT k \in Keys, Bounded(w, b, r), ~Overdrawn(k, w, b, r),
           delivered' = delivered \cup {<<k, 0>>}
    PROVE  Bounded(w, b, r)'
  <1>1. k # Digest /\ Level[k] \in Int
    BY BudgetAssumption, DigestAssumption DEF INFO, CRITICAL
  <1>2. Alerts(w)' = Alerts(w) \cup {<<k, 0>>}
    BY <1>1 DEF Alerts, Within
  <1>3. Routine(w)' = IF Level[k] < CRITICAL THEN Routine(w) \cup {<<k, 0>>} ELSE Routine(w)
    BY <1>1 DEF Routine, Alerts, Within
  <1>4. /\ IsFiniteSet(Alerts(w)) /\ IsFiniteSet(Routine(w))
        /\ Cardinality(Alerts(w)) \in Nat /\ Cardinality(Routine(w)) \in Nat
        /\ Cardinality(Criticals(w)) \in Nat /\ Cardinality(Within(w)) \in Nat
        /\ Cardinality(Alerts(w)) <= Cardinality(Within(w))
        /\ Cardinality(Routine(w)) <= Cardinality(Within(w))
        /\ Cardinality(Alerts(w)) <= Cardinality(Routine(w)) + Cardinality(Criticals(w))
    BY Parts
  <1>5. /\ Cardinality(Alerts(w)') <= Cardinality(Alerts(w)) + 1
        /\ Cardinality(Routine(w) \cup {<<k, 0>>}) <= Cardinality(Routine(w)) + 1
    <2>1. \A S : IsFiniteSet(S) =>
            Cardinality(S \cup {<<k, 0>>}) = IF <<k, 0>> \in S THEN Cardinality(S)
                                            ELSE Cardinality(S) + 1
      BY FS_AddElement
    <2>2. \A S : IsFiniteSet(S) /\ Cardinality(S) \in Nat =>
            Cardinality(S \cup {<<k, 0>>}) <= Cardinality(S) + 1
      BY <2>1
    <2> QED BY <1>2, <1>4, <2>2
  <1>6. /\ Cardinality(Alerts(w)') \in Nat /\ Cardinality(Routine(w) \cup {<<k, 0>>}) \in Nat
    BY <1>2, <1>4, FS_AddElement, FS_CardinalityType
  <1>7. CASE Cardinality(Within(w)) < b
    BY <1>3, <1>4, <1>5, <1>6, <1>7 DEF Bounded
  <1>8. CASE HasReserve(k, w, r)
    <2>1. ~(Level[k] < CRITICAL) /\ Cardinality(Criticals(w)) < r
      BY <1>1, <1>8 DEF HasReserve, CRITICAL
    <2> QED BY <1>3, <1>4, <1>5, <1>6, <2>1 DEF Bounded
  <1> QED BY <1>4, <1>7, <1>8 DEF Overdrawn

\* Nothing but a digest has been added: digests are not alerts.
LEMMA DigestBounded ==
    ASSUME NEW CONSTANT w, NEW CONSTANT b, NEW CONSTANT r, Bounded(w, b, r),
           delivered' \in {delivered, delivered \cup {<<Digest, 0>>}}
    PROVE  Bounded(w, b, r)'
  <1>1. Alerts(w)' = Alerts(w)
    BY DEF Alerts, Within
  <1>2. Routine(w)' = Routine(w)
    BY <1>1 DEF Routine
  <1> QED BY <1>1, <1>2 DEF Bounded

\* As time passes alerts only leave a window.
LEMMA TickBounded ==
    ASSUME TypeOK, NEW CONSTANT w \in Nat, NEW CONSTANT b \in Nat, NEW CONSTANT r \in Nat,
           Bounded(w, b, r), Tick, TypeOK'
    PROVE  Bounded(w, b, r)'
  <1>1. \A d \in delivered : d[2] \in Int
    BY BudgetAssumption DEF TypeOK
  <1>2. Alerts(w)' \subseteq {<<d[1], d[2] + 1>> : d \in Alerts(w)}
    BY <1>1 DEF Tick, Alerts, Within
  <1>3. Routine(w)' \subseteq {<<d[1], d[2] + 1>> : d \in Routine(w)}
    BY <1>1 DEF Tick, Routine, Alerts, Within
  <1>4. /\ IsFiniteSet(Alerts(w)) /\ IsFiniteSet(Routine(w))
        /\ Cardinality(Alerts(w)) \in Nat /\ Cardinality(Routine(w)) \in Nat
    BY Parts
  <1>5. /\ Cardinality(Alerts(w)') <= Cardinality(Alerts(w))
        /\ Cardinality(Routine(w)') <= Cardinality(Routine(w))
    BY <1>2, <1>3, <1>4, OlderNoLarger
  <1>6. Cardinality(Alerts(w))' \in Nat /\ Cardinality(Routine(w))' \in Nat
    <2>1. IsFiniteSet(delivered)'
      BY DeliveredFinite, PTL
    <2>2. IsFiniteSet(Alerts(w)') /\ IsFiniteSet(Routine(w)')
      BY <2>1, FS_Subset DEF Alerts, Routine, Within
    <2> QED BY <2>2, FS_CardinalityType
  <1> QED BY <1>4, <1>5, <1>6 DEF Bounded

-----------------------------------------------------------------------------
(* The verdicts                                                            *)

\* An alert is delivered only if neither window is overdrawn for it.
LEMMA DeliveredWithinBudget ==
    ASSUME NEW k, Verdict(k) = "delivered"
    PROVE  /\ ~Overdrawn(k, Hour, PerHour, ReservePerHour)
           /\ ~Overdrawn(k, Day, PerDay, ReservePerDay)
  BY DEF Verdict

\* An alert is over the budget only if a budget is used up.
LEMMA HeldMeansFull ==
    ASSUME NEW k, Verdict(k) \in {"hourly", "daily"}
    PROVE  Full
  BY DEF Verdict, Overdrawn, Full

\* Every verdict is a reason or none.
LEMMA VerdictType == ASSUME NEW k PROVE Verdict(k) \in Reasons \cup {"delivered"}
  BY DEF Verdict, Reasons

\* Once a budget is used up only the most severe alerts there are still go out.
LEMMA FullLetsCriticalsOut ==
    ASSUME NEW k \in Keys, Full, Verdict(k) = "delivered"
    PROVE  \A j \in Keys : Level[j] <= Level[k]
  <1>1. Level[k] >= CRITICAL
    BY DeliveredWithinBudget DEF Full, Overdrawn, HasReserve
  <1>2. \A j \in Keys : Level[j] \in Int /\ Level[j] <= CRITICAL
    BY BudgetAssumption DEF INFO, CRITICAL
  <1> QED BY <1>1, <1>2 DEF CRITICAL

-----------------------------------------------------------------------------
(* The invariant                                                           *)

\* A new engine has delivered nothing and holds nothing.
LEMMA InitInv == Init => IInv
  <1> SUFFICES ASSUME Init PROVE IInv
    OBVIOUS
  <1>1. TypeOK
    BY BudgetAssumption DEF Init, TypeOK, IdleRun
  <1>2. \A w : Alerts(w) = {} /\ Routine(w) = {}
    BY DEF Init, Alerts, Routine, Within
  <1>3. /\ Bounded(Hour, PerHour, ReservePerHour)
        /\ Bounded(Day, PerDay, ReservePerDay)
    <2>1. Cardinality({}) = 0
      BY FS_EmptySet
    <2>2. /\ PerHour \in Nat /\ PerDay \in Nat
          /\ ReservePerHour \in Nat /\ ReservePerDay \in Nat
      BY BudgetAssumption
    <2>3. \A w : Cardinality(Alerts(w)) = 0 /\ Cardinality(Routine(w)) = 0
      BY <1>2, <2>1
    <2>4. 0 <= PerHour /\ 0 <= PerDay
          /\ 0 <= PerHour + ReservePerHour /\ 0 <= PerDay + ReservePerDay
      BY <2>2
    <2> QED BY <2>3, <2>4, Zenon DEF Bounded
  <1>4. InOrder /\ NoInversion /\ BetweenRuns
    BY DEF Init, InOrder, NoInversion, BetweenRuns, IdleRun
  <1> QED BY <1>1, <1>3, <1>4 DEF IInv

\* Delivering an alert of the batch.
LEMMA DeliverInv ==
    ASSUME IInv, NEW CONSTANT k \in Keys, Admit(k), Deliver(k)
    PROVE  IInv'
  <1>1. TypeOK'
    <2>1. delivered' \subseteq (Keys \cup {Digest}) \X (0 .. Day)
      BY BudgetAssumption DEF IInv, TypeOK, Deliver
    <2>2. /\ sinceScope' \in [Scopes -> 0 .. Cooldown]
          /\ sinceKey' \in [Keys -> 0 .. DedupWindow]
      <3>1. /\ sinceScope \in [Scopes -> 0 .. Cooldown]
            /\ sinceKey \in [Keys -> 0 .. DedupWindow]
            /\ sinceScope' = [sinceScope EXCEPT ![ScopeOf[k]] = 0]
            /\ sinceKey' = [sinceKey EXCEPT ![k] = 0]
        BY DEF IInv, TypeOK, Deliver
      <3>2. 0 \in 0 .. Cooldown /\ 0 \in 0 .. DedupWindow
        BY BudgetAssumption
      <3> QED BY <3>1, <3>2
    <2>3. run' \in [phase : {"idle", "admit"}, batch : SUBSET Keys,
                    sent : SUBSET Keys, overBudget : SUBSET Keys]
      BY DEF IInv, TypeOK, Deliver
    <2> QED BY <2>1, <2>2, <2>3 DEF IInv, TypeOK, Admit, Deliver
  <1>2. Bounded(Hour, PerHour, ReservePerHour)'
    BY BudgetAssumption, DeliveredWithinBudget, DeliverBounded DEF IInv, Deliver
  <1>3. Bounded(Day, PerDay, ReservePerDay)'
    BY BudgetAssumption, DeliveredWithinBudget, DeliverBounded DEF IInv, Deliver
  <1>4. /\ run.batch \subseteq Keys /\ run.sent \subseteq Keys /\ run.overBudget \subseteq Keys
        /\ run'.batch = run.batch \ {k} /\ run'.sent = run.sent \cup {k}
        /\ run'.overBudget = run.overBudget
    BY DEF IInv, TypeOK, Deliver
  <1>5. \A j \in run.batch : Level[j] <= Level[k]
    BY DEF Admit, First
  <1>6. Full => Full'
    <2>2. \A w : Within(w) \in SUBSET (Within(w)')
      BY DEF Deliver, Within
    <2>3. IsFiniteSet(delivered)'
      BY <1>1, DeliveredFinite, PTL
    <2>4. \A w : IsFiniteSet(Within(w)')
      BY <2>3, FS_Subset DEF Within
    <2>5. \A w : /\ Cardinality(Within(w)) <= Cardinality(Within(w)')
                 /\ Cardinality(Within(w)) \in Nat /\ Cardinality(Within(w)') \in Nat
      BY <2>2, <2>4, FS_Subset, FS_CardinalityType
    <2>6. PerHour \in Nat /\ PerDay \in Nat
      BY BudgetAssumption
    <2> HIDE DEF Within
    <2> QED BY <2>5, <2>6 DEF Full
  <1>7. InOrder'
    BY <1>4, <1>5, <1>6 DEF IInv, InOrder
  <1>8. NoInversion'
    <2>1. \A held \in run.overBudget : Level[held] <= Level[k]
      BY <1>4, FullLetsCriticalsOut DEF IInv, InOrder, Deliver
    <2> QED BY <1>4, <2>1 DEF IInv, NoInversion
  <1>9. BetweenRuns'
    BY DEF Admit, Deliver, IInv, TypeOK, BetweenRuns
  <1> QED BY <1>1, <1>2, <1>3, <1>7, <1>8, <1>9 DEF IInv

\* Holding one back.
LEMMA HoldInv ==
    ASSUME IInv, NEW CONSTANT k \in Keys, Admit(k), Hold(k)
    PROVE  IInv'
  <1>1. TypeOK'
    <2>1. Verdict(k) \in Reasons
      BY VerdictType DEF Hold
    <2> QED BY <2>1 DEF IInv, TypeOK, Admit, Hold
  <1>2. delivered' = delivered
    BY DEF Hold
  <1>3. /\ Bounded(Hour, PerHour, ReservePerHour)'
        /\ Bounded(Day, PerDay, ReservePerDay)'
    BY <1>2 DEF IInv, Bounded, Routine, Alerts, Within
  <1>4. /\ run'.batch = run.batch \ {k} /\ run'.sent = run.sent
        /\ \/ run'.overBudget = run.overBudget
           \/ run'.overBudget = run.overBudget \cup {k} /\ Full
    <2>1. CASE Verdict(k) \in {"hourly", "daily"}
      BY <2>1, HeldMeansFull DEF IInv, TypeOK, Hold
    <2>2. CASE Verdict(k) \notin {"hourly", "daily"}
      BY <2>2 DEF IInv, TypeOK, Hold
    <2> QED BY <2>1, <2>2
  <1>5. \A j \in run.batch : Level[j] <= Level[k]
    BY DEF Admit, First
  <1>6. Full' <=> Full
    BY <1>2 DEF Full, Within
  <1>7. InOrder'
    BY <1>4, <1>5, <1>6 DEF IInv, InOrder
  <1>8. NoInversion'
    <2>1. \A sent \in run.sent : Level[k] <= Level[sent]
      BY DEF IInv, InOrder, Admit
    <2> QED BY <1>4, <2>1 DEF IInv, NoInversion
  <1>9. BetweenRuns'
    BY DEF Admit, Hold, IInv, TypeOK, BetweenRuns
  <1> QED BY <1>1, <1>3, <1>7, <1>8, <1>9 DEF IInv

\* The steps at either end of a run, with nothing decided in the batch yet.
LEMMA RunInv ==
    ASSUME IInv, NEW CONSTANT batch \in SUBSET Keys, StartRun(batch) \/ FinishRun
    PROVE  IInv'
  <1>1. TypeOK'
    <2>1. CASE StartRun(batch)
      BY <2>1 DEF IInv, TypeOK, StartRun, IdleRun
    <2>2. CASE FinishRun
      <3>1. delivered' \subseteq (Keys \cup {Digest}) \X (0 .. Day)
        BY <2>2, BudgetAssumption DEF IInv, TypeOK, FinishRun
      <3>2. run' \in [phase : {"idle", "admit"}, batch : SUBSET Keys,
                      sent : SUBSET Keys, overBudget : SUBSET Keys]
        BY <2>2 DEF FinishRun, IdleRun
      <3>3. suppressed' \subseteq Reasons /\ sinceDigest' \in 0 .. DigestEvery
        BY <2>2, BudgetAssumption DEF IInv, TypeOK, FinishRun
      <3> QED BY <2>2, <3>1, <3>2, <3>3 DEF IInv, TypeOK, FinishRun
    <2> QED BY <2>1, <2>2
  <1>2. delivered' \in {delivered, delivered \cup {<<Digest, 0>>}}
    BY DEF StartRun, FinishRun
  <1>3. /\ Bounded(Hour, PerHour, ReservePerHour)'
        /\ Bounded(Day, PerDay, ReservePerDay)'
    BY <1>2, DigestBounded DEF IInv
  <1>4. run'.sent = {} /\ run'.overBudget = {}
    <2>1. CASE StartRun(batch)
      BY <2>1 DEF StartRun, IdleRun
    <2>2. CASE FinishRun
      BY <2>2 DEF FinishRun, IdleRun
    <2> QED BY <2>1, <2>2
  <1>5. InOrder'
    BY <1>4 DEF InOrder
  <1>6. NoInversion' /\ BetweenRuns'
    BY <1>4 DEF NoInversion, BetweenRuns
  <1> QED BY <1>1, <1>3, <1>5, <1>6 DEF IInv

\* Between runs time passes.
LEMMA TickInv == ASSUME IInv, Tick PROVE IInv'
  <1>1. TypeOK'
    <2>1. delivered' \subseteq (Keys \cup {Digest}) \X (0 .. Day)
      BY BudgetAssumption DEF IInv, TypeOK, Tick
    <2>2. \A w \in Nat : \A age \in 0 .. w : Older(age, w) \in 0 .. w
      BY DEF Older
    <2>3. /\ sinceScope' \in [Scopes -> 0 .. Cooldown]
          /\ sinceKey' \in [Keys -> 0 .. DedupWindow]
          /\ sinceDigest' \in 0 .. DigestEvery
      BY <2>2, BudgetAssumption DEF IInv, TypeOK, Tick
    <2> QED BY <2>1, <2>3 DEF IInv, TypeOK, Tick
  <1>2. /\ Bounded(Hour, PerHour, ReservePerHour)'
        /\ Bounded(Day, PerDay, ReservePerDay)'
    BY <1>1, TickBounded, BudgetAssumption DEF IInv
  <1>3. run' = run /\ run.phase = "idle"
    BY DEF Tick
  <1>4. run.sent = {} /\ run.overBudget = {}
    BY <1>3 DEF IInv, BetweenRuns
  <1> QED BY <1>1, <1>2, <1>3, <1>4 DEF IInv, InOrder, NoInversion, BetweenRuns

\* No step of a run and no tick of the clock breaks the invariant.
THEOREM NextInv == IInv /\ [Next]_vars => IInv'
  <1> SUFFICES ASSUME IInv, [Next]_vars PROVE IInv'
    OBVIOUS
  <1>1. CASE \E batch \in SUBSET Keys : StartRun(batch)
    BY <1>1, RunInv
  <1>2. CASE \E k \in Keys : Admit(k)
    BY <1>2, DeliverInv, HoldInv DEF Admit
  <1>3. CASE FinishRun
    BY <1>3, RunInv
  <1>4. CASE Tick
    BY <1>4, TickInv
  <1>5. CASE UNCHANGED vars
    BY <1>5 DEF vars, IInv, TypeOK, Bounded, Routine, Alerts, Within, InOrder, Full,
                NoInversion, BetweenRuns
  <1> QED BY <1>1, <1>2, <1>3, <1>4, <1>5 DEF Next

\* Every reachable state of the engine satisfies the inductive invariant.
THEOREM Invariance == Spec => []IInv
  BY InitInv, NextInv, PTL DEF Spec

\* The budget's records stay within their types.
THEOREM BudgetTyped == Spec => []TypeOK
  <1>1. IInv => TypeOK
    BY DEF IInv
  <1> QED BY <1>1, Invariance, PTL

\* No hour and no day carries more alerts than the budget and the reserve of
\* admit(), digests apart, whatever is raised and in whatever batches.
THEOREM CeilingIsHard == Spec => []HardCeiling
  <1>1. IInv => HardCeiling
    BY DEF IInv, HardCeiling, Bounded, Alerts
  <1> QED BY <1>1, Invariance, PTL

\* admit_all never lets a less severe alert of a batch out after it has held a
\* more severe one for want of budget, nor before.
THEOREM MostSevereFirst == Spec => []NoInversion
  <1>1. IInv => NoInversion
    BY DEF IInv
  <1> QED BY <1>1, Invariance, PTL

-----------------------------------------------------------------------------
(* The rules before the budget                                             *)
(*                                                                         *)
(* What a run has raised is what each context of its batch raises for      *)
(* itself; the rest is that a rule whose alert is no prediction cannot be  *)
(* refused.                                                                *)

RaisedByRules ==
    /\ desk.raised = UNION {Raised(c) : c \in desk.watch}
    /\ \A c \in desk.watch : \E watch \in Watches : c \in watch

\* A rule that has something to say, none of it a claim that may be refused, is heard.
LEMMA UnrefusedIsRaised ==
    ASSUME NEW c, NEW i \in 1 .. 11, NEW a \in RuleAlerts(c)[i],
           \A b \in RuleAlerts(c)[i] : b.kind \notin DirectionalKinds
    PROVE  a \in Raised(c)
  <1>1. i \in DOMAIN RuleAlerts(c)
    BY DEF RuleAlerts
  <1>2. \A b \in RuleAlerts(c)[i] : Constructible(b)
    BY DEF Constructible
  <1> QED BY <1>1, <1>2 DEF Raised

\* A notice says what it is and of whom.
LEMMA NoticeNames ==
    ASSUME NEW c, NEW kind
    PROVE  Notice(c, kind).kind = kind /\ Notice(c, kind).asset = c.asset
  BY DEF Notice

\* Four of the rules claim no direction, so that nothing they raise can be refused.
LEMMA PlainRules ==
    ASSUME NEW c
    PROVE  /\ \A a \in QualityRule(c) : a.kind \notin DirectionalKinds
           /\ \A a \in InvalidatedRule(c) : a.kind \notin DirectionalKinds
           /\ \A a \in RegimeRule(c) : a.kind \notin DirectionalKinds
           /\ \A a \in CorrelationRule(c) : a.kind \notin DirectionalKinds
  <1>1. \A a \in QualityRule(c) : a.kind = "data_quality"
    BY DEF QualityRule, Notice
  <1>2. \A a \in InvalidatedRule(c) : a.kind = "prediction_invalidated"
    <2> SUFFICES ASSUME NEW a \in InvalidatedRule(c) PROVE a.kind = "prediction_invalidated"
      OBVIOUS
    <2>1. a = Notice(c, "prediction_invalidated")
      BY DEF InvalidatedRule
    <2> QED BY <2>1, NoticeNames
  <1>3. \A a \in RegimeRule(c) : a.kind = "regime_change"
    BY NoticeNames DEF RegimeRule
  <1>4. \A a \in CorrelationRule(c) : a.kind = "correlation_breakdown"
    <2> SUFFICES ASSUME NEW a \in CorrelationRule(c) PROVE a.kind = "correlation_breakdown"
      OBVIOUS
    <2>1. a = Notice(c, "correlation_breakdown")
      BY DEF CorrelationRule
    <2> QED BY <2>1, NoticeNames
  <1> QED BY <1>1, <1>2, <1>3, <1>4 DEF DirectionalKinds

\* An alert of a kind about a context, raised by the context's own rules.
RaisedFor(c, kind) == \E a \in Raised(c) : a.kind = kind /\ a.asset = c.asset

\* The same of the batch: what the property asks of the engine.
Heard(c, kind) == \E a \in desk.raised : a.kind = kind /\ a.asset = c.asset

\* Each condition that RefusalSilencesNothingElse names has its alert raised.
LEMMA ConditionsAreRaised ==
    ASSUME NEW c, \A p \in DOMAIN c.peers : c.peers[p] \in [baseline : Int, now : Int]
    PROVE  /\ c.quality < 70 => RaisedFor(c, "data_quality")
           /\ (\E call \in c.calls : Breached(call, c.price))
                  => RaisedFor(c, "prediction_invalidated")
           /\ ("none" \notin {c.previous, c.regime} /\ c.previous # c.regime)
                  => RaisedFor(c, "regime_change")
           /\ (\E p \in DOMAIN c.peers : c.peers[p].baseline >= 50 /\ c.peers[p].now < 15)
                  => RaisedFor(c, "correlation_breakdown")
  <1>1. /\ RuleAlerts(c)[1] = QualityRule(c) /\ RuleAlerts(c)[2] = InvalidatedRule(c)
        /\ RuleAlerts(c)[5] = RegimeRule(c) /\ RuleAlerts(c)[6] = CorrelationRule(c)
    BY DEF RuleAlerts
  <1>2. ASSUME NEW kind, NEW i \in 1 .. 11, Notice(c, kind) \in RuleAlerts(c)[i],
               \A b \in RuleAlerts(c)[i] : b.kind \notin DirectionalKinds
        PROVE  RaisedFor(c, kind)
    <2>1. Notice(c, kind) \in Raised(c)
      BY <1>2, UnrefusedIsRaised
    <2> QED BY <2>1, NoticeNames DEF RaisedFor
  <1>3. /\ \A b \in RuleAlerts(c)[1] : b.kind \notin DirectionalKinds
        /\ \A b \in RuleAlerts(c)[2] : b.kind \notin DirectionalKinds
        /\ \A b \in RuleAlerts(c)[5] : b.kind \notin DirectionalKinds
        /\ \A b \in RuleAlerts(c)[6] : b.kind \notin DirectionalKinds
    BY <1>1, PlainRules
  <1>4. ASSUME c.quality < 70 PROVE RaisedFor(c, "data_quality")
    <2>1. Notice(c, "data_quality") \in RuleAlerts(c)[1]
      BY <1>1, <1>4 DEF QualityRule
    <2> QED BY <1>2, <1>3, <2>1
  <1>5. ASSUME NEW call \in c.calls, Breached(call, c.price) PROVE RaisedFor(c, "prediction_invalidated")
    <2>1. Notice(c, "prediction_invalidated") \in RuleAlerts(c)[2]
      BY <1>1, <1>5 DEF InvalidatedRule
    <2> QED BY <1>2, <1>3, <2>1
  <1>6. ASSUME "none" \notin {c.previous, c.regime}, c.previous # c.regime
        PROVE  RaisedFor(c, "regime_change")
    <2>1. Notice(c, "regime_change") \in RuleAlerts(c)[5]
      BY <1>1, <1>6 DEF RegimeRule
    <2> QED BY <1>2, <1>3, <2>1
  <1>7. ASSUME NEW p \in DOMAIN c.peers, c.peers[p].baseline >= 50, c.peers[p].now < 15
        PROVE  RaisedFor(c, "correlation_breakdown")
    <2>1. c.peers[p].baseline - c.peers[p].now >= 35
      BY <1>7
    <2>2. Notice(c, "correlation_breakdown") \in RuleAlerts(c)[6]
      BY <1>1, <1>7, <2>1 DEF CorrelationRule
    <2> QED BY <1>2, <1>3, <2>2
  <1> QED BY <1>4, <1>5, <1>6, <1>7

\* What is raised is what the rules raise of the batch at hand.
LEMMA RulesInductive == RaisedByRules /\ [AlertNext]_desk => RaisedByRules'
  <1> SUFFICES ASSUME RaisedByRules, [AlertNext]_desk PROVE RaisedByRules'
    OBVIOUS
  <1>1. CASE Evaluate
    <2>0. PICK watch \in Watches : \E contexts \in {watch, Gathered(watch)} :
              desk' = [watch |-> contexts, raised |-> UNION {Raised(c) : c \in contexts}]
      BY <1>1 DEF Evaluate
    <2>1. PICK contexts \in {watch, Gathered(watch)} :
              desk' = [watch |-> contexts, raised |-> UNION {Raised(c) : c \in contexts}]
      BY <2>0
    <2>2. contexts \subseteq watch
      BY <2>1 DEF Gathered
    <2> QED BY <2>1, <2>2 DEF RaisedByRules
  <1>2. CASE UNCHANGED desk
    BY <1>2 DEF RaisedByRules
  <1> QED BY <1>1, <1>2 DEF AlertNext

\* A claim that is refused for want of evidence takes nothing with it: a degraded feed,
\* a falsified call, a change of regime and a broken correlation of any context of the
\* batch are raised, whatever else the engine was given to judge.
THEOREM NothingElseIsSilenced == AlertSpec => []RefusalSilencesNothingElse
  <1>1. AlertInit => RaisedByRules
    BY DEF AlertInit, RaisedByRules
  <1>2. RaisedByRules => RefusalSilencesNothingElse
    <2> SUFFICES ASSUME RaisedByRules, NEW c \in desk.watch
                 PROVE  /\ c.quality < 70 => Heard(c, "data_quality")
                        /\ (\E call \in c.calls : Breached(call, c.price))
                               => Heard(c, "prediction_invalidated")
                        /\ ("none" \notin {c.previous, c.regime} /\ c.previous # c.regime)
                               => Heard(c, "regime_change")
                        /\ (\E p \in DOMAIN c.peers :
                               c.peers[p].baseline >= 50 /\ c.peers[p].now < 15)
                               => Heard(c, "correlation_breakdown")
      BY DEF RefusalSilencesNothingElse, Heard
    <2>1. \A p \in DOMAIN c.peers : c.peers[p] \in [baseline : Int, now : Int]
      BY AlertRulesAssumption DEF RaisedByRules
    <2>2. Raised(c) \subseteq desk.raised
      BY DEF RaisedByRules
    <2>3. \A kind : RaisedFor(c, kind) => Heard(c, kind)
      BY <2>2 DEF RaisedFor, Heard
    <2> QED BY <2>1, <2>3, ConditionsAreRaised
  <1> QED BY <1>1, <1>2, RulesInductive, PTL DEF AlertSpec
=============================================================================
