------------------------ MODULE AccountStateProofs -------------------------
(* Theorems about AccountState, for every set of actors and all times.     *)
EXTENDS AccountState, TLAPS

(***************************************************************************)
(* Whoever is about to degrade the account renewed the streak at most      *)
(* waited[a] ticks ago, unless a reset came in between.                    *)
(***************************************************************************)
Renewed ==
    \A a \in Actors : Degrading(a) /\ fresh[a] => streak > 0 /\ quiet + waited[a] >= StreakTTL

IInv == TypeOK /\ Renewed /\ StreakOutlivesDegradation

LEMMA WindowCapped ==
    ASSUME NEW n
    PROVE  DegradeWindow(n) \in 0 .. DegradedMax
  BY AccountAssumption DEF DegradeWindow

LEMMA ConstantsNat ==
    /\ DegradedMax \in Nat /\ DbTimeout \in Nat /\ StreakTTL \in Nat /\ CacheTTL \in Nat
    /\ MaxStreak \in Nat /\ RateLimits \subseteq Nat
    /\ 0 \in 0 .. MaxStreak /\ 0 \in 0 .. DbTimeout /\ 0 \in 0 .. Forever /\ 0 \in 0 .. CacheTTL
    /\ CacheTTL \in 0 .. CacheTTL /\ StreakTTL \in 0 .. Forever /\ Forever \in 0 .. Forever
    /\ StreakTTL # Forever
    /\ DegradedMax + DbTimeout < StreakTTL
  BY AccountAssumption DEF Forever

LEMMA InitHolds == Init => IInv
  <1> SUFFICES ASSUME Init PROVE IInv
    OBVIOUS
  <1>1. TypeOK
    BY ConstantsNat DEF Init, TypeOK, States, Steps
  <1>2. Renewed /\ StreakOutlivesDegradation
    BY DEF Init, Renewed, Degrading, StreakOutlivesDegradation
  <1> QED
    BY <1>1, <1>2 DEF IInv

----------------------------------------------------------------------------
(* Types.                                                                  *)

LEMMA GoesType ==
    ASSUME TypeOK, NEW a \in Actors, NEW next \in Steps, Goes(a, next)
    PROVE  step' \in [Actors -> Steps]
  BY DEF TypeOK, Goes

LEMMA EndsType ==
    ASSUME TypeOK, NEW a \in Actors, NEW next \in Steps, Ends(a, next)
    PROVE  /\ step' \in [Actors -> Steps]
           /\ seen' \in [Actors -> States]
           /\ count' \in [Actors -> 0 .. MaxStreak]
           /\ waited' \in [Actors -> 0 .. DbTimeout]
           /\ fresh' \in [Actors -> BOOLEAN]
  BY ConstantsNat DEF TypeOK, Ends, Goes, States

LEMMA TransitionType ==
    ASSUME TypeOK, NEW a \in Actors, NEW new \in {"rate_limited", "disabled"}, NEW ttl \in Nat,
           Transition(a, new, ttl), UNCHANGED <<isPool, streakVars, cacheVars>>
    PROVE  TypeOK'
  <1>1. PICK next \in {"notify", "idle"} : Ends(a, next)
    BY DEF Transition
  <1>2. next \in Steps
    BY DEF Steps
  <1>3. CASE SetState(new, ttl)
    BY <1>1, <1>2, <1>3, EndsType DEF SetState, TypeOK, States, streakVars, cacheVars
  <1>4. CASE UNCHANGED <<rowVars, warranted>>
    BY <1>1, <1>2, <1>4, EndsType DEF rowVars, TypeOK, streakVars, cacheVars
  <1> QED
    BY <1>3, <1>4 DEF Transition

LEMMA ResetType ==
    ASSUME TypeOK, ResetStreak
    PROVE  /\ streak' \in 0 .. MaxStreak /\ quiet' \in 0 .. Forever
           /\ fresh' \in [Actors -> BOOLEAN] /\ warranted' \in BOOLEAN
  BY ConstantsNat DEF TypeOK, ResetStreak, streakVars

LEMMA ReadType ==
    ASSUME TypeOK, NEW a \in Actors, Read(a)
    PROVE  seen' \in [Actors -> States]
  BY DEF TypeOK, Read, States

LEMMA BumpType ==
    ASSUME TypeOK, NEW a \in Actors, Bump(a)
    PROVE  /\ streak' \in 0 .. MaxStreak /\ quiet' \in 0 .. Forever
           /\ count' \in [Actors -> 0 .. MaxStreak]
           /\ fresh' \in [Actors -> BOOLEAN]
  <1>1. streak < MaxStreak => streak + 1 \in 0 .. MaxStreak
    BY ConstantsNat DEF TypeOK
  <1> QED
    BY <1>1, ConstantsNat DEF TypeOK, Bump, streakVars

LEMMA JudgeType ==
    ASSUME TypeOK, NEW a \in Actors, Judge(a)
    PROVE  TypeOK'
  <1> USE DEF rowVars, streakVars, cacheVars, readVars
  <1>1. CASE Success(a)
    <2>1. /\ streak' \in 0 .. MaxStreak /\ quiet' \in 0 .. Forever
          /\ fresh' \in [Actors -> BOOLEAN] /\ warranted' \in BOOLEAN
      BY <1>1, ResetType DEF Success, TypeOK
    <2>2. seen' \in [Actors -> States] /\ step' \in [Actors -> Steps]
      BY <1>1, ReadType, GoesType DEF Success, Steps
    <2> QED
      BY <1>1, <2>1, <2>2 DEF Success, TypeOK
  <1>2. CASE Activate(a)
    <2>1. PICK next \in {"notify", "idle"} : Ends(a, next)
      BY <1>2 DEF Activate
    <2>2. next \in Steps
      BY DEF Steps
    <2>3. CASE SetState("active", 0)
      BY <1>2, <2>1, <2>2, <2>3, EndsType DEF Activate, SetState, TypeOK, States
    <2>4. CASE UNCHANGED <<rowVars, warranted>>
      BY <1>2, <2>1, <2>2, <2>4, EndsType DEF Activate, TypeOK
    <2> QED
      BY <1>2, <2>3, <2>4 DEF Activate
  <1>3. CASE Notify(a)
    BY <1>3, GoesType, ConstantsNat DEF Notify, InvalidateAll, TypeOK, Steps
  <1>4. CASE RateLimited(a)
    BY <1>4, TransitionType, ConstantsNat DEF RateLimited
  <1>5. CASE Dead(a)
    <2>1. CASE Transition(a, "disabled", 0)
      BY <1>5, <2>1, TransitionType DEF Dead
    <2>2. CASE Ends(a, "notify") /\ UNCHANGED <<rowVars, warranted>>
      BY <1>5, <2>2, EndsType DEF Dead, TypeOK, Steps
    <2> QED
      BY <1>5, <2>1, <2>2 DEF Dead
  <1>6. CASE PoolFailure(a)
    <2>1. step' \in [Actors -> Steps]
      BY <1>6, GoesType DEF PoolFailure, Steps
    <2>2. waited' \in [Actors -> 0 .. DbTimeout]
      BY <1>6, ConstantsNat DEF PoolFailure, TypeOK
    <2> QED
      BY <1>6, <2>1, <2>2, BumpType DEF PoolFailure, TypeOK
  <1>7. CASE Degrade(a)
    <2>1. \/ UNCHANGED <<rowVars, warranted>>
          \/ /\ state' = "degraded" /\ until' \in Nat /\ until' <= DegradedMax
             /\ warranted' \in BOOLEAN
      BY <1>7, WindowCapped, ConstantsNat DEF Degrade, TypeOK
    <2>2. /\ step' \in [Actors -> Steps]
          /\ seen' \in [Actors -> States]
          /\ count' \in [Actors -> 0 .. MaxStreak]
          /\ waited' \in [Actors -> 0 .. DbTimeout]
          /\ fresh' \in [Actors -> BOOLEAN]
      BY <1>7, EndsType DEF Degrade, Steps
    <2> QED
      BY <1>7, <2>1, <2>2 DEF Degrade, TypeOK, States
  <1>8. CASE Tolerate(a)
    BY <1>8, EndsType DEF Tolerate, TypeOK, Steps
  <1> QED
    BY <1>1, <1>2, <1>3, <1>4, <1>5, <1>6, <1>7, <1>8 DEF Judge

LEMMA OperateType ==
    ASSUME TypeOK, NEW a \in Actors, Operate(a)
    PROVE  TypeOK'
  <1> USE DEF rowVars, streakVars, cacheVars, readVars
  <1>1. CASE Toggle(a)
    BY <1>1, GoesType DEF Toggle, TypeOK, Steps
  <1>2. CASE ManualRecover(a)
    <2>1. CASE SetState("active", 0) /\ Ends(a, "recovered")
      BY <1>2, <2>1, EndsType DEF ManualRecover, SetState, TypeOK, States, Steps
    <2>2. CASE Ends(a, "idle") /\ UNCHANGED <<rowVars, warranted>>
      BY <1>2, <2>2, EndsType DEF ManualRecover, TypeOK, Steps
    <2> QED
      BY <1>2, <2>1, <2>2 DEF ManualRecover
  <1>3. CASE Recovered(a)
    BY <1>3, ResetType, GoesType DEF Recovered, TypeOK, Steps
  <1>4. CASE ManualDisable(a)
    BY <1>4, TransitionType DEF ManualDisable
  <1>5. CASE ClearMarkers(a)
    BY <1>5, GoesType DEF ClearMarkers, TypeOK, Steps
  <1>6. CASE Cleared(a)
    <2>1. step' \in [Actors -> Steps] /\ seen' \in [Actors -> States]
      BY <1>6, ReadType, GoesType DEF Cleared, Steps
    <2> QED
      BY <1>6, <2>1, ResetType DEF Cleared, TypeOK
  <1> QED
    BY <1>1, <1>2, <1>3, <1>4, <1>5, <1>6 DEF Operate

LEMMA SelectType ==
    ASSUME TypeOK, NEW a \in Actors, Select(a)
    PROVE  TypeOK'
  <1> USE DEF rowVars, streakVars, cacheVars, readVars
  <1>1. CASE Query(a)
    BY <1>1, GoesType DEF Query, TypeOK, Steps
  <1>2. CASE Store(a)
    BY <1>2, EndsType, ConstantsNat DEF Store, TypeOK, Steps
  <1> QED
    BY <1>1, <1>2 DEF Select

LEMMA TickType ==
    ASSUME TypeOK, Tick
    PROVE  TypeOK'
  <1>1. until' \in Nat /\ (state = "degraded" => until' <= DegradedMax)
    BY ConstantsNat DEF Tick, Less, TypeOK
  <1>2. quiet' \in 0 .. Forever /\ cachedFor' \in 0 .. CacheTTL
    BY ConstantsNat DEF Tick, Less, TypeOK, Forever
  <1>3. streak' \in 0 .. MaxStreak /\ cached' \in States \cup {NotCached}
    BY ConstantsNat DEF Tick, TypeOK
  <1>4. \A a \in Actors :
          (IF Degrading(a) THEN waited[a] + 1 ELSE waited[a]) \in 0 .. DbTimeout
    BY ConstantsNat DEF Tick, TypeOK
  <1>5. waited' \in [Actors -> 0 .. DbTimeout]
    BY <1>4 DEF Tick
  <1> QED
    BY <1>1, <1>2, <1>3, <1>5 DEF Tick, TypeOK

LEMMA TypeStep == TypeOK /\ [Next]_vars => TypeOK'
  <1> SUFFICES ASSUME TypeOK, [Next]_vars PROVE TypeOK'
    OBVIOUS
  <1>1. CASE UNCHANGED vars
    BY <1>1 DEF vars, rowVars, streakVars, cacheVars, readVars, TypeOK
  <1> QED
    BY <1>1, JudgeType, OperateType, SelectType, TickType DEF Next

(***************************************************************************)
(* Every variable keeps its type; a degradation is never longer than       *)
(* degradedMax.                                                            *)
(***************************************************************************)
THEOREM TypeCorrect == Spec => []TypeOK
  <1>1. Init => TypeOK
    BY InitHolds DEF IInv
  <1> QED
    BY <1>1, TypeStep, PTL DEF Spec

----------------------------------------------------------------------------
(* The streak outlives the degradation it chose.                           *)

\* What an actor that moves on, or is reset, leaves of Renewed to the others.
LEMMA EndsKeeps ==
    ASSUME IInv, NEW a \in Actors, NEW next \in {"idle", "notify", "recovered"},
           Ends(a, next), UNCHANGED streakVars
    PROVE  Renewed'
  BY DEF IInv, TypeOK, Renewed, Ends, Goes, Degrading, streakVars

LEMMA GoesKeeps ==
    ASSUME IInv, NEW a \in Actors, NEW next \in Steps \ {"degrade", "degradeIfStreak"},
           Goes(a, next), UNCHANGED <<streakVars, waited, fresh>>
    PROVE  Renewed'
  BY DEF IInv, TypeOK, Renewed, Goes, Degrading, streakVars

LEMMA ResetKeeps ==
    ASSUME IInv, NEW a \in Actors, NEW next \in Steps \ {"degrade", "degradeIfStreak"},
           Goes(a, next), ResetStreak, UNCHANGED <<rowVars, waited>>
    PROVE  Renewed' /\ StreakOutlivesDegradation'
  <1>1. CASE fresh' = [b \in Actors |-> FALSE] /\ warranted' = FALSE
    BY <1>1 DEF Renewed, StreakOutlivesDegradation
  <1>2. CASE UNCHANGED <<streakVars, fresh, warranted>>
    BY <1>2, GoesKeeps DEF IInv, StreakOutlivesDegradation, streakVars, rowVars
  <1> QED
    BY <1>1, <1>2 DEF ResetStreak

\* The row is written without a warrant, or left alone.
LEMMA RowKeeps ==
    ASSUME IInv, UNCHANGED streakVars,
           warranted' = FALSE \/ UNCHANGED <<rowVars, warranted>>
    PROVE  StreakOutlivesDegradation'
  BY DEF IInv, StreakOutlivesDegradation, streakVars, rowVars

LEMMA BumpKeeps ==
    ASSUME IInv, NEW a \in Actors, PoolFailure(a)
    PROVE  Renewed' /\ StreakOutlivesDegradation'
  <1>1. /\ streak' >= streak /\ streak' \in Nat /\ streak \in Nat
        /\ quiet' \in Nat /\ quiet \in Nat
        /\ streak > 0 => quiet' >= quiet \/ quiet' = StreakTTL
        /\ fresh'[a] => streak' > 0 /\ quiet' = StreakTTL
    BY ConstantsNat DEF IInv, TypeOK, PoolFailure, Bump, streakVars, Forever
  <1>2. ASSUME NEW b \in Actors, Degrading(b)', fresh'[b]
        PROVE  streak' > 0 /\ quiet' + waited'[b] >= StreakTTL
    <2>1. CASE b = a
      <3>1. waited'[a] = 0
        BY DEF PoolFailure, IInv, TypeOK
      <3>2. streak' > 0 /\ quiet' = StreakTTL
        BY <1>1, <1>2, <2>1
      <3>3. StreakTTL + 0 >= StreakTTL
        BY ConstantsNat
      <3> QED
        BY <2>1, <3>1, <3>2, <3>3
    <2>2. CASE b # a
      <3>1. Degrading(b) /\ fresh[b] /\ waited'[b] = waited[b] /\ waited[b] \in Nat
        BY <1>2, <2>2, ConstantsNat
           DEF PoolFailure, Bump, Goes, Degrading, IInv, TypeOK, streakVars
      <3>2. streak > 0 /\ quiet + waited[b] >= StreakTTL
        BY <3>1 DEF IInv, Renewed
      <3> QED
        BY <1>1, <3>1, <3>2, ConstantsNat
    <2> QED
      BY <2>1, <2>2
  <1>3. StreakOutlivesDegradation'
    <2> SUFFICES ASSUME state' = "degraded", warranted', until' > 0
                 PROVE  streak' > 0 /\ quiet' > until'
      BY DEF StreakOutlivesDegradation
    <2>1. state = "degraded" /\ warranted /\ until' = until /\ until > 0
      BY DEF PoolFailure, rowVars
    <2>2. streak > 0 /\ quiet > until /\ until <= DegradedMax /\ until \in Nat
      BY <2>1 DEF IInv, StreakOutlivesDegradation, TypeOK
    <2> QED
      BY <1>1, <2>1, <2>2, ConstantsNat
  <1> QED
    BY <1>2, <1>3 DEF Renewed

LEMMA DegradeKeeps ==
    ASSUME IInv, NEW a \in Actors, Degrade(a)
    PROVE  Renewed' /\ StreakOutlivesDegradation'
  <1>1. Renewed'
    BY EndsKeeps DEF Degrade
  <1>2. CASE UNCHANGED <<rowVars, warranted>>
    BY <1>1, <1>2, RowKeeps DEF Degrade
  <1>3. CASE until' = DegradeWindow(count[a]) /\ warranted' = fresh[a]
    <2>1. until' \in Nat /\ until' <= DegradedMax
      BY <1>3, WindowCapped, ConstantsNat
    <2>2. ASSUME fresh[a] PROVE streak' > 0 /\ quiet' > until'
      <3>1. Degrading(a) /\ UNCHANGED <<streak, quiet>>
        BY DEF Degrade, Degrading, streakVars
      <3>2. streak > 0 /\ quiet + waited[a] >= StreakTTL
        BY <2>2, <3>1 DEF IInv, Renewed
      <3>3. waited[a] \in Nat /\ waited[a] <= DbTimeout /\ quiet \in Nat
        BY ConstantsNat DEF IInv, TypeOK, Forever
      <3> QED
        BY <2>1, <3>1, <3>2, <3>3, ConstantsNat
    <2> QED
      BY <1>1, <1>3, <2>2 DEF StreakOutlivesDegradation
  <1> QED
    BY <1>2, <1>3 DEF Degrade

LEMMA TickKeeps ==
    ASSUME IInv, Tick
    PROVE  Renewed' /\ StreakOutlivesDegradation'
  <1>1. /\ quiet \in Nat /\ quiet' \in Nat /\ until \in Nat
        /\ quiet > 0 => quiet' >= quiet - 1
        /\ quiet' > 0 => streak' = streak
    BY ConstantsNat DEF IInv, TypeOK, Tick, Less, Forever
  <1>2. ASSUME NEW a \in Actors, Degrading(a)', fresh'[a]
        PROVE  streak' > 0 /\ quiet' + waited'[a] >= StreakTTL
    <2>1. Degrading(a) /\ fresh[a]
      BY <1>2 DEF Tick, Degrading
    <2>2. waited[a] < DbTimeout /\ waited'[a] = waited[a] + 1 /\ waited[a] \in Nat
      BY <2>1, ConstantsNat DEF Tick, IInv, TypeOK
    <2>3. streak > 0 /\ quiet + waited[a] >= StreakTTL
      BY <2>1 DEF IInv, Renewed
    <2>4. quiet' >= quiet - 1 /\ quiet' > 0
      BY <1>1, <2>2, <2>3, ConstantsNat
    <2> QED
      BY <1>1, <2>2, <2>3, <2>4, ConstantsNat
  <1>3. ASSUME state' = "degraded", warranted', until' > 0
        PROVE  streak' > 0 /\ quiet' > until'
    <2>1. state = "degraded" /\ warranted /\ until > 0 /\ until' = until - 1
      BY <1>1, <1>3 DEF Tick, Less
    <2>2. streak > 0 /\ quiet > until
      BY <2>1 DEF IInv, StreakOutlivesDegradation
    <2> QED
      BY <1>1, <2>1, <2>2
  <1> QED
    BY <1>2, <1>3 DEF Renewed, StreakOutlivesDegradation

LEMMA JudgeKeeps ==
    ASSUME IInv, NEW a \in Actors, Judge(a)
    PROVE  Renewed' /\ StreakOutlivesDegradation'
  <1>1. CASE Success(a)
    <2>1. Goes(a, "activate") /\ "activate" \in Steps \ {"degrade", "degradeIfStreak"}
      BY <1>1 DEF Success, Steps
    <2>2. CASE ResetStreak
      BY <1>1, <2>1, <2>2, ResetKeeps DEF Success
    <2>3. CASE UNCHANGED <<streakVars, fresh, warranted>>
      BY <1>1, <2>1, <2>3, GoesKeeps, RowKeeps DEF Success
    <2> QED
      BY <1>1, <2>2, <2>3 DEF Success
  <1>2. CASE Activate(a)
    BY <1>2, EndsKeeps, RowKeeps DEF Activate, SetState
  <1>3. CASE Notify(a)
    <2>1. "idle" \in Steps \ {"degrade", "degradeIfStreak"}
      BY DEF Steps
    <2> QED
      BY <1>3, <2>1, GoesKeeps, RowKeeps DEF Notify, readVars
  <1>4. CASE RateLimited(a)
    BY <1>4, EndsKeeps, RowKeeps DEF RateLimited, Transition, SetState
  <1>5. CASE Dead(a)
    BY <1>5, EndsKeeps, RowKeeps DEF Dead, Transition, SetState
  <1>6. CASE Tolerate(a)
    BY <1>6, EndsKeeps, RowKeeps DEF Tolerate
  <1> QED
    BY <1>1, <1>2, <1>3, <1>4, <1>5, <1>6, BumpKeeps, DegradeKeeps DEF Judge

LEMMA OperateKeeps ==
    ASSUME IInv, NEW a \in Actors, Operate(a)
    PROVE  Renewed' /\ StreakOutlivesDegradation'
  <1>0. \A next \in {"toggle", "notify", "markers", "activate"} :
           next \in Steps \ {"degrade", "degradeIfStreak"}
    BY DEF Steps
  <1>1. CASE Toggle(a) \/ ClearMarkers(a)
    BY <1>0, <1>1, GoesKeeps, RowKeeps DEF Toggle, ClearMarkers, readVars
  <1>2. CASE ManualRecover(a)
    BY <1>2, EndsKeeps, RowKeeps DEF ManualRecover, SetState
  <1>3. CASE Recovered(a)
    BY <1>0, <1>3, ResetKeeps DEF Recovered
  <1>4. CASE ManualDisable(a)
    BY <1>4, EndsKeeps, RowKeeps DEF ManualDisable, Transition, SetState
  <1>5. CASE Cleared(a)
    BY <1>0, <1>5, ResetKeeps DEF Cleared
  <1> QED
    BY <1>1, <1>2, <1>3, <1>4, <1>5 DEF Operate

LEMMA SelectKeeps ==
    ASSUME IInv, NEW a \in Actors, Select(a)
    PROVE  Renewed' /\ StreakOutlivesDegradation'
  <1>1. "load" \in Steps \ {"degrade", "degradeIfStreak"}
    BY DEF Steps
  <1>2. CASE Query(a)
    BY <1>1, <1>2, GoesKeeps, RowKeeps DEF Query
  <1>3. CASE Store(a)
    BY <1>3, EndsKeeps, RowKeeps DEF Store
  <1> QED
    BY <1>2, <1>3 DEF Select

LEMMA InvStep == IInv /\ [Next]_vars => IInv'
  <1> SUFFICES ASSUME IInv, [Next]_vars PROVE Renewed' /\ StreakOutlivesDegradation'
    BY TypeStep DEF IInv
  <1>1. CASE UNCHANGED vars
    BY <1>1 DEF vars, rowVars, streakVars, readVars, IInv, Renewed, Degrading,
                StreakOutlivesDegradation
  <1> QED
    BY <1>1, JudgeKeeps, OperateKeeps, SelectKeeps, TickKeeps DEF Next

(***************************************************************************)
(* If degradedMax and the time a write may take fit in the streak's time   *)
(* to live, no degradation outlives the streak that chose it.              *)
(***************************************************************************)
THEOREM StreakRemembered == Spec => []StreakOutlivesDegradation
  <1>1. IInv => StreakOutlivesDegradation
    BY DEF IInv
  <1> QED
    BY <1>1, InitHolds, InvStep, PTL DEF Spec
=============================================================================
