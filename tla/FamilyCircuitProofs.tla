------------------------ MODULE FamilyCircuitProofs ------------------------
(* Theorems about FamilyCircuit, for every set of attempts and all times.  *)
EXTENDS FamilyCircuit, TLAPS

(***************************************************************************)
(* The inductive invariant.  A keeper runs only during its call, so nobody *)
(* who claims or gives up at the gate has one; a circuit of the retired    *)
(* kind has no probe to lose; a probe was claimed since the last Mark.     *)
(***************************************************************************)
KeeperCalls == \A a \in Attempts : keeper[a] # "none" => at[a] = "calling"

TransientUnprobed == transient => probe = NoAttempt

ProbeIsRecent == probe # NoAttempt => probe \in sinceMark

IInv ==
    /\ TypeOK
    /\ KeeperCalls
    /\ TransientUnprobed
    /\ ProbeIsRecent
    /\ KeptProbeHasTime

(* One tick of the keeper's clock against one unit of the lease.           *)
LEMMA OneRetryLess ==
    ASSUME NEW f \in Nat, f < MaxFailures
    PROVE  (MaxFailures - f) * RetryEvery
              = RetryEvery + (MaxFailures - (f + 1)) * RetryEvery
  <1>1. MaxFailures \in Nat /\ RetryEvery \in Nat
    BY CircuitAssumption
  <1>2. \A m, r \in Nat : m * r = r + (m - 1) * r
    OBVIOUS
  <1>3. MaxFailures - f \in Nat /\ MaxFailures - (f + 1) = (MaxFailures - f) - 1
    BY <1>1
  <1> QED
    BY <1>1, <1>2, <1>3

LEMMA RetriesNat ==
    ASSUME NEW f \in 0 .. MaxFailures
    PROVE  (MaxFailures - f) * RetryEvery \in Nat
  <1>1. MaxFailures \in Nat /\ RetryEvery \in Nat
    BY CircuitAssumption
  <1>2. \A m, r \in Nat : m * r \in Nat
    OBVIOUS
  <1> QED
    BY <1>1, <1>2

LEMMA LeaseLongEnough ==
    RenewEvery + (MaxFailures - 0) * RetryEvery < Lease
  BY CircuitAssumption

(* The assumption on the times, without the product.                       *)
LEMMA TimesNat ==
    /\ NoAttempt \notin Attempts
    /\ Cooldowns \subseteq Nat
    /\ Lease \in 0 .. Lease /\ Lease # 0 /\ 0 \in 0 .. Lease
    /\ RenewEvery \in 0 .. RenewEvery /\ 0 \in 0 .. RenewEvery
    /\ RetryEvery \in 0 .. RenewEvery
    /\ 0 \in 0 .. MaxFailures
  BY CircuitAssumption

LEMMA InitHolds == Init => IInv
  <1> SUFFICES ASSUME Init PROVE IInv
    OBVIOUS
  <1>1. TypeOK
    <2>1. cooldown \in Nat
      <3>1. cooldown = 0 \/ cooldown \in Cooldowns \cup {0}
        BY Zenon DEF Init
      <3>2. Cooldowns \subseteq Nat
        BY Zenon, TimesNat
      <3>3. ASSUME cooldown \in Cooldowns PROVE cooldown \in Nat
        BY Zenon, <3>2, <3>3
      <3> QED
        BY <3>1, <3>3
    <2>3. recovery \in BOOLEAN /\ transient \in BOOLEAN
      BY Zenon DEF Init
    <2>2. lease \in 0 .. Lease /\ RenewEvery \in Nat /\ MaxFailures \in Nat
      BY CircuitAssumption DEF Init
    <2> QED
      BY <2>1, <2>2, <2>3 DEF Init, TypeOK
  <1>2. KeeperCalls /\ KeptProbeHasTime
    BY DEF Init, KeeperCalls, KeptProbeHasTime
  <1>3. TransientUnprobed /\ ProbeIsRecent
    BY DEF Init, TransientUnprobed, ProbeIsRecent
  <1> QED
    BY <1>1, <1>2, <1>3 DEF IInv

LEMMA DropType ==
    ASSUME DropProbe
    PROVE  /\ probe' \in Attempts \cup {NoAttempt}
           /\ lease' \in 0 .. Lease
           /\ (lease' = 0) <=> (probe' = NoAttempt)
  BY TimesNat DEF DropProbe

(* What the gate's script leaves of the keys, whatever it answers.         *)
LEMMA ClaimType ==
    ASSUME TypeOK, NEW a \in Attempts, NEW w \in BOOLEAN, ClaimProbe(a, w)
    PROVE  /\ cooldown' \in Nat /\ recovery' \in BOOLEAN /\ transient' \in BOOLEAN
           /\ probe' \in Attempts \cup {NoAttempt}
           /\ lease' \in 0 .. Lease
           /\ (lease' = 0) <=> (probe' = NoAttempt)
           /\ sinceMark' \in SUBSET Attempts
  <1>1. CASE TakeProbe(a)
    BY <1>1, TimesNat DEF TypeOK, TakeProbe, HalfOpen
  <1>2. CASE DropTransient
    BY <1>2, DropType DEF TypeOK, DropTransient
  <1>3. CASE UNCHANGED <<keyVars, sinceMark>>
    BY <1>3 DEF TypeOK, keyVars
  <1> QED
    BY <1>1, <1>2, <1>3 DEF ClaimProbe

LEMMA RenewType ==
    ASSUME TypeOK, NEW a \in Attempts, RenewProbe(a)
    PROVE  /\ lease' \in 0 .. Lease
           /\ (lease' = 0) <=> (probe = NoAttempt)
           /\ keeper' \in [Attempts -> {"none", "trying", "renewed"}]
           /\ renewIn' \in [Attempts -> 0 .. RenewEvery]
           /\ failures' \in [Attempts -> 0 .. MaxFailures]
  <1>1. CASE RenewSucceeds(a)
    BY <1>1, TimesNat DEF TypeOK, RenewSucceeds, Owns
  <1>2. CASE RenewRefused(a)
    BY <1>2 DEF TypeOK, RenewRefused
  <1>3. CASE RenewFails(a)
    <2>1. lease' \in 0 .. Lease /\ ((lease' = 0) <=> (probe = NoAttempt))
      BY <1>3, CircuitAssumption DEF TypeOK, RenewFails, Owns
    <2>2. RetryEvery \in 0 .. RenewEvery /\ failures[a] + 1 \in 0 .. MaxFailures
      BY <1>3, CircuitAssumption DEF TypeOK, RenewFails
    <2> QED
      BY <1>3, <2>1, <2>2 DEF TypeOK, RenewFails
  <1> QED
    BY <1>1, <1>2, <1>3 DEF RenewProbe

LEMMA EndsType ==
    ASSUME TypeOK, NEW a \in Attempts, Ends(a)
    PROVE  /\ at' \in [Attempts -> {"idle", "picked", "gated", "calling"}]
           /\ won' \in [Attempts -> BOOLEAN]
           /\ keeper' \in [Attempts -> {"none", "trying", "renewed"}]
           /\ renewIn' \in [Attempts -> 0 .. RenewEvery]
           /\ failures' \in [Attempts -> 0 .. MaxFailures]
           /\ clearing' = clearing
  BY CircuitAssumption DEF TypeOK, Ends, Goes

LEMMA TypeStep == TypeOK /\ [Next]_vars => TypeOK'
  <1> SUFFICES ASSUME TypeOK, [Next]_vars PROVE TypeOK'
    OBVIOUS
  <1> USE DEF keyVars, attemptVars
  <1>1. ASSUME NEW a \in Attempts, Pick(a) PROVE TypeOK'
    BY <1>1, ClaimType DEF Pick, TypeOK, Goes
  <1>2. ASSUME NEW a \in Attempts, Gate(a) PROVE TypeOK'
    BY <1>2, ClaimType DEF Gate, TypeOK, Goes
  <1>3. ASSUME NEW a \in Attempts, GiveUp(a) PROVE TypeOK'
    BY <1>3, DropType DEF GiveUp, ReleaseProbe, TypeOK, Goes
  <1>4. ASSUME NEW a \in Attempts, Call(a) PROVE TypeOK'
    <2>1. CASE won[a]
      BY <1>4, <2>1, RenewType DEF Call, TypeOK, Goes
    <2>2. CASE ~won[a]
      BY <1>4, <2>2 DEF Call, TypeOK, Goes
    <2> QED
      BY <2>1, <2>2
  <1>5. ASSUME NEW a \in Attempts, Renew(a) PROVE TypeOK'
    BY <1>5, RenewType DEF Renew, TypeOK
  <1>6. ASSUME NEW a \in Attempts, Succeeds(a) PROVE TypeOK'
    <2>1. Ends(a) /\ Recover(a)
      BY <1>6 DEF Succeeds
    <2>2. CASE Owns(a)
      BY <2>1, <2>2, EndsType, DropType DEF Recover, TypeOK
    <2>3. CASE ~Owns(a)
      BY <2>1, <2>3, EndsType DEF Recover, TypeOK
    <2> QED
      BY <2>2, <2>3
  <1>7. ASSUME NEW a \in Attempts, RateLimited(a) PROVE TypeOK'
    <2> PICK ttl \in Cooldowns : Mark(ttl)
      BY <1>7 DEF RateLimited
    <2>1. Ends(a) /\ cooldown' \in Nat
      BY <1>7, TimesNat DEF RateLimited, Mark, Maximum, TypeOK
    <2> QED
      BY <2>1, EndsType, DropType DEF Mark, TypeOK
  <1>8. ASSUME NEW a \in Attempts, Declined(a) PROVE TypeOK'
    BY <1>8, EndsType, DropType DEF Declined, ReleaseProbe, TypeOK
  <1>9. ASSUME NEW a \in Attempts, Fails(a) PROVE TypeOK'
    BY <1>9, EndsType DEF Fails, TypeOK
  <1>10. ASSUME NEW a \in Attempts, Dies(a) PROVE TypeOK'
    BY <1>10, CircuitAssumption DEF Dies, Goes, TypeOK
  <1>11. CASE Peek
    BY <1>11, DropType DEF Peek, DropTransient, TypeOK
  <1>12. CASE Clear
    <2>1. CASE ClearCooldown
      BY <2>1 DEF ClearCooldown, TypeOK
    <2>2. CASE ClearRecovery
      BY <2>2 DEF ClearRecovery, TypeOK
    <2>3. CASE ClearProbe
      BY <2>3, DropType DEF ClearProbe, TypeOK
    <2>4. CASE ClearFails
      BY <2>4 DEF ClearFails, TypeOK
    <2> QED
      BY <1>12, <2>1, <2>2, <2>3, <2>4 DEF Clear
  <1>13. CASE Tick
    <2>1. cooldown' \in Nat /\ lease' \in 0 .. Lease
      BY <1>13, CircuitAssumption DEF Tick, Less, TypeOK
    <2>2. \A n \in 0 .. RenewEvery : Less(n) \in 0 .. RenewEvery
      BY CircuitAssumption DEF Less
    <2>3. renewIn' \in [Attempts -> 0 .. RenewEvery]
      BY <1>13, <2>2 DEF Tick, TypeOK
    <2>4. (lease' = 0) <=> (probe' = NoAttempt)
      BY <1>13, CircuitAssumption DEF Tick, Less, TypeOK
    <2> QED
      BY <1>13, <2>1, <2>3, <2>4 DEF Tick, TypeOK
  <1>14. CASE UNCHANGED vars
    BY <1>14 DEF vars, TypeOK
  <1> QED
    BY <1>1, <1>2, <1>3, <1>4, <1>5, <1>6, <1>7, <1>8, <1>9, <1>10, <1>11, <1>12,
       <1>13, <1>14 DEF Next, Attempt

(***************************************************************************)
(* Every variable keeps its type, however long the circuit lives.          *)
(***************************************************************************)
THEOREM TypeCorrect == Spec => []TypeOK
  <1>1. Init => TypeOK
    BY InitHolds DEF IInv
  <1> QED
    BY <1>1, TypeStep, PTL DEF Spec

----------------------------------------------------------------------------
(* The rest of the invariant.                                              *)

\* Renewing needs the probe; whoever renews, no other attempt is kept.
LEMMA KeptByOne ==
    ASSUME IInv, NEW a \in Attempts, NEW b \in Attempts,
           keeper[b] = "renewed", b \in sinceMark, probe = a
    PROVE  a = b
  BY DEF IInv, KeptProbeHasTime

LEMMA ClaimKeeps ==
    ASSUME IInv, NEW a \in Attempts, keeper[a] = "none",
           NEW w \in BOOLEAN, ClaimProbe(a, w),
           UNCHANGED <<keeper, renewIn, failures>>
    PROVE  /\ TransientUnprobed'
           /\ ProbeIsRecent'
           /\ KeptProbeHasTime'
  <1>1. CASE TakeProbe(a)
    <2>1. ASSUME NEW b \in Attempts, keeper[b] = "renewed", b \in sinceMark'
          PROVE  b \in sinceMark /\ probe = b
      BY <1>1, <2>1 DEF TakeProbe, IInv, KeptProbeHasTime
    <2>2. ASSUME NEW b \in Attempts, keeper[b] = "renewed", b \in sinceMark'
          PROVE  probe' = probe /\ lease' = lease
      BY <1>1, <2>1, <2>2, TimesNat DEF TakeProbe
    <2>3. KeptProbeHasTime'
      BY <2>1, <2>2 DEF IInv, KeptProbeHasTime
    <2>4. TransientUnprobed' /\ ProbeIsRecent'
      BY <1>1 DEF TakeProbe, HalfOpen, IInv, TransientUnprobed, ProbeIsRecent
    <2> QED
      BY <2>3, <2>4
  <1>2. CASE DropTransient
    <2>1. probe = NoAttempt
      BY <1>2 DEF DropTransient, IInv, TransientUnprobed
    <2>2. \A b \in Attempts : ~(keeper[b] = "renewed" /\ b \in sinceMark)
      BY <2>1, TimesNat DEF IInv, KeptProbeHasTime
    <2>3. KeptProbeHasTime'
      BY <1>2, <2>2 DEF DropTransient, KeptProbeHasTime
    <2> QED
      BY <1>2, <2>3 DEF DropTransient, DropProbe, TransientUnprobed, ProbeIsRecent
  <1>3. CASE UNCHANGED <<keyVars, sinceMark>>
    BY <1>3 DEF keyVars, IInv, TransientUnprobed, ProbeIsRecent, KeptProbeHasTime
  <1> QED
    BY <1>1, <1>2, <1>3 DEF ClaimProbe

\* A renewal leaves the attempt, if it is kept, the time its next tries need.
LEMMA RenewKeeps ==
    ASSUME IInv, NEW a \in Attempts, RenewProbe(a), UNCHANGED <<probe, sinceMark>>,
           keeper[a] # "none" => renewIn[a] = 0
    PROVE  KeptProbeHasTime'
  <1> DEFINE Left(b) == (MaxFailures - failures[b]) * RetryEvery
  <1>1. ASSUME NEW b \in Attempts, keeper'[b] = "renewed", b \in sinceMark, b # a
        PROVE  /\ probe' = b
               /\ lease' > renewIn'[b] + (MaxFailures - failures'[b]) * RetryEvery
    <2>1. /\ keeper[b] = "renewed"
          /\ renewIn'[b] = renewIn[b] /\ failures'[b] = failures[b]
      BY <1>1 DEF RenewProbe, RenewSucceeds, RenewRefused, RenewFails, IInv, TypeOK
    <2>2. probe = b /\ lease > renewIn[b] + Left(b)
      BY <1>1, <2>1 DEF IInv, KeptProbeHasTime
    <2>3. lease' = lease
      BY <1>1, <2>2 DEF RenewProbe, RenewSucceeds, RenewRefused, RenewFails, Owns
    <2> QED
      BY <2>1, <2>2, <2>3
  <1>2. ASSUME keeper'[a] = "renewed", a \in sinceMark
        PROVE  /\ probe' = a
               /\ lease' > renewIn'[a] + (MaxFailures - failures'[a]) * RetryEvery
    <2>1. CASE RenewSucceeds(a)
      <3>1. lease' = Lease /\ renewIn'[a] = RenewEvery /\ failures'[a] = 0
        BY <2>1 DEF RenewSucceeds, IInv, TypeOK
      <3>2. probe' = a
        BY <2>1 DEF RenewSucceeds, Owns
      <3>3. PICK t : t = (MaxFailures - 0) * RetryEvery
        OBVIOUS
      <3>4. t \in Nat /\ RenewEvery + t < Lease /\ Lease \in Nat /\ RenewEvery \in Nat
        <4>1. Lease \in Nat /\ RenewEvery \in Nat /\ RenewEvery + t < Lease
          BY <3>3, LeaseLongEnough, CircuitAssumption
        <4>2. t \in Nat
          BY <3>3, RetriesNat, TimesNat
        <4> QED
          BY <4>1, <4>2
      <3>5. Lease > RenewEvery + t
        BY <3>4
      <3> QED
        BY <3>1, <3>2, <3>3, <3>5
    <2>2. CASE RenewRefused(a)
      BY <1>2, <2>2 DEF RenewRefused, IInv, TypeOK
    <2>3. CASE RenewFails(a)
      <3>1. /\ failures[a] < MaxFailures /\ failures[a] \in Nat
            /\ renewIn'[a] = RetryEvery /\ failures'[a] = failures[a] + 1
            /\ keeper[a] = "renewed"
        BY <1>2, <2>3, TimesNat DEF RenewFails, IInv, TypeOK
      <3>2. probe = a /\ lease > 0 + Left(a)
        BY <1>2, <3>1 DEF IInv, KeptProbeHasTime
      <3>3. PICK s : s = Left(a)
        OBVIOUS
      <3>4. PICK t : t = (MaxFailures - (failures[a] + 1)) * RetryEvery
        OBVIOUS
      <3>5. s = RetryEvery + t
        BY <3>1, <3>3, <3>4, OneRetryLess
      <3>6. lease \in Nat /\ lease' \in Nat /\ lease' >= lease
        BY <2>3, CircuitAssumption DEF RenewFails, Owns, IInv, TypeOK
      <3>7. s \in Nat /\ lease > 0 + s
        BY <3>1, <3>2, <3>3, RetriesNat, CircuitAssumption
      <3>8. lease' > s
        BY <3>6, <3>7
      <3> QED
        BY <3>1, <3>2, <3>4, <3>5, <3>8
    <2> QED
      BY <2>1, <2>2, <2>3 DEF RenewProbe
  <1> QED
    BY <1>1, <1>2 DEF KeptProbeHasTime

\* An attempt that ends loses its keeper; the others keep theirs.
LEMMA EndsKeeper ==
    ASSUME IInv, NEW a \in Attempts, Ends(a)
    PROVE  /\ KeeperCalls'
           /\ \A b \in Attempts : keeper'[b] = "renewed" =>
                /\ b # a /\ keeper[b] = "renewed"
                /\ renewIn'[b] = renewIn[b] /\ failures'[b] = failures[b]
  BY DEF Ends, Goes, IInv, TypeOK, KeeperCalls

LEMMA EndsKeeps ==
    ASSUME IInv, NEW a \in Attempts, Ends(a),
           \/ UNCHANGED <<probe, lease, sinceMark>>
           \/ probe = a /\ UNCHANGED sinceMark
           \/ sinceMark' = {}
    PROVE  KeptProbeHasTime'
  <1> SUFFICES ASSUME NEW b \in Attempts, keeper'[b] = "renewed", b \in sinceMark'
               PROVE  /\ probe' = b
                      /\ lease' > renewIn'[b] + (MaxFailures - failures'[b]) * RetryEvery
    BY DEF KeptProbeHasTime
  <1>1. /\ b # a /\ keeper[b] = "renewed"
        /\ renewIn'[b] = renewIn[b] /\ failures'[b] = failures[b]
    BY EndsKeeper
  <1>2. b \in sinceMark /\ UNCHANGED <<probe, lease>>
    BY <1>1, KeptByOne
  <1> QED
    BY <1>1, <1>2 DEF IInv, KeptProbeHasTime

LEMMA KeeperStep == IInv /\ [Next]_vars => KeeperCalls'
  <1> SUFFICES ASSUME IInv, [Next]_vars PROVE KeeperCalls'
    OBVIOUS
  <1> USE DEF IInv, TypeOK, KeeperCalls
  <1>1. ASSUME NEW a \in Attempts, Pick(a) \/ Gate(a) \/ GiveUp(a) PROVE KeeperCalls'
    BY <1>1 DEF Pick, Gate, GiveUp, Fresh, Goes
  <1>2. ASSUME NEW a \in Attempts, Call(a) PROVE KeeperCalls'
    BY <1>2 DEF Call, RenewProbe, RenewSucceeds, RenewRefused, RenewFails, Goes
  <1>3. ASSUME NEW a \in Attempts, Renew(a) PROVE KeeperCalls'
    BY <1>3 DEF Renew, RenewProbe, RenewSucceeds, RenewRefused, RenewFails
  <1>4. ASSUME NEW a \in Attempts, Ends(a) PROVE KeeperCalls'
    BY <1>4, EndsKeeper
  <1>5. ASSUME NEW a \in Attempts, Dies(a) PROVE KeeperCalls'
    BY <1>5 DEF Dies, Goes
  <1>6. CASE Peek \/ Clear \/ Tick \/ UNCHANGED vars
    BY <1>6 DEF Peek, Clear, ClearCooldown, ClearRecovery, ClearProbe, ClearFails, Tick,
                vars, attemptVars
  <1> QED
    BY <1>1, <1>2, <1>3, <1>4, <1>5, <1>6
       DEF Next, Attempt, Succeeds, RateLimited, Declined, Fails

LEMMA InvStep == IInv /\ [Next]_vars => IInv'
  <1> SUFFICES ASSUME IInv, [Next]_vars
               PROVE  TransientUnprobed' /\ ProbeIsRecent' /\ KeptProbeHasTime'
    BY TypeStep, KeeperStep DEF IInv
  <1> DEFINE Good == TransientUnprobed' /\ ProbeIsRecent' /\ KeptProbeHasTime'
  <1> USE DEF TransientUnprobed, ProbeIsRecent
  <1>1. ASSUME NEW a \in Attempts, Pick(a) PROVE Good
    BY <1>1, ClaimKeeps DEF Pick, Fresh, IInv, KeeperCalls
  <1>2. ASSUME NEW a \in Attempts, Gate(a) PROVE Good
    BY <1>2, ClaimKeeps DEF Gate, Fresh, IInv, KeeperCalls
  <1>3. ASSUME NEW a \in Attempts, GiveUp(a) PROVE Good
    <2>1. ASSUME NEW b \in Attempts, keeper[b] = "renewed", b \in sinceMark
          PROVE  UNCHANGED <<probe, lease>>
      BY <1>3, <2>1, KeptByOne DEF GiveUp, ReleaseProbe, IInv, KeeperCalls
    <2>2. KeptProbeHasTime'
      BY <1>3, <2>1 DEF GiveUp, ReleaseProbe, IInv, KeptProbeHasTime
    <2> QED
      BY <1>3, <2>2 DEF GiveUp, ReleaseProbe, DropProbe, IInv
  <1>4. ASSUME NEW a \in Attempts, Call(a) PROVE Good
    <2>1. KeptProbeHasTime'
      <3>1. CASE won[a]
        BY <1>4, <3>1, RenewKeeps DEF Call, IInv, KeeperCalls
      <3>2. CASE ~won[a]
        BY <1>4, <3>2 DEF Call, IInv, KeptProbeHasTime
      <3> QED
        BY <3>1, <3>2
    <2> QED
      BY <1>4, <2>1 DEF Call, IInv
  <1>5. ASSUME NEW a \in Attempts, Renew(a) PROVE Good
    BY <1>5, RenewKeeps DEF Renew, IInv
  <1>6. ASSUME NEW a \in Attempts, Succeeds(a) PROVE Good
    <2>1. KeptProbeHasTime'
      BY <1>6, EndsKeeps DEF Succeeds, Recover, Owns
    <2> QED
      BY <1>6, <2>1 DEF Succeeds, Recover, DropProbe, IInv
  <1>7. ASSUME NEW a \in Attempts, RateLimited(a) PROVE Good
    <2>1. PICK ttl \in Cooldowns : Ends(a) /\ Mark(ttl)
      BY <1>7 DEF RateLimited
    <2>2. KeptProbeHasTime'
      BY <2>1, EndsKeeps DEF Mark
    <2> QED
      BY <2>1, <2>2 DEF Mark, DropProbe, IInv
  <1>8. ASSUME NEW a \in Attempts, Declined(a) PROVE Good
    <2>1. KeptProbeHasTime'
      BY <1>8, EndsKeeps DEF Declined, ReleaseProbe
    <2> QED
      BY <1>8, <2>1 DEF Declined, ReleaseProbe, DropProbe, IInv
  <1>9. ASSUME NEW a \in Attempts, Fails(a) PROVE Good
    <2>1. KeptProbeHasTime'
      BY <1>9, EndsKeeps DEF Fails, keyVars
    <2> QED
      BY <1>9, <2>1 DEF Fails, keyVars, IInv
  <1>10. ASSUME NEW a \in Attempts, Dies(a) PROVE Good
    <2>1. \A b \in Attempts : keeper'[b] = "renewed" =>
             /\ keeper[b] = "renewed"
             /\ renewIn'[b] = renewIn[b] /\ failures'[b] = failures[b]
      BY <1>10 DEF Dies, IInv, TypeOK
    <2>2. KeptProbeHasTime'
      BY <1>10, <2>1 DEF Dies, keyVars, IInv, KeptProbeHasTime
    <2> QED
      BY <1>10, <2>2 DEF Dies, keyVars, IInv
  <1>11. CASE Peek
    <2>1. \A b \in Attempts : ~(keeper[b] = "renewed" /\ b \in sinceMark)
      BY <1>11, TimesNat DEF Peek, DropTransient, IInv, KeptProbeHasTime
    <2>2. KeptProbeHasTime'
      BY <1>11, <2>1 DEF Peek, DropTransient, attemptVars, KeptProbeHasTime
    <2> QED
      BY <1>11, <2>2 DEF Peek, DropTransient, DropProbe, IInv
  <1>12. CASE Clear
    <2>1. CASE ClearCooldown \/ ClearRecovery \/ ClearFails
      BY <2>1 DEF ClearCooldown, ClearRecovery, ClearFails, keyVars, attemptVars, IInv,
                  KeptProbeHasTime
    <2>2. CASE ClearProbe
      BY <2>2 DEF ClearProbe, DropProbe, attemptVars, IInv, KeptProbeHasTime
    <2> QED
      BY <1>12, <2>1, <2>2 DEF Clear
  <1>13. CASE Tick
    <2>1. ASSUME NEW b \in Attempts, keeper'[b] = "renewed", b \in sinceMark'
          PROVE  /\ probe' = b
                 /\ lease' > renewIn'[b] + (MaxFailures - failures'[b]) * RetryEvery
      <3>1. /\ keeper[b] = "renewed" /\ b \in sinceMark
            /\ failures'[b] = failures[b] /\ renewIn[b] \in Nat /\ failures[b] \in 0 .. MaxFailures
            /\ renewIn[b] > 0 /\ renewIn'[b] = renewIn[b] - 1
        BY <1>13, <2>1, CircuitAssumption DEF Tick, Less, IInv, TypeOK
      <3>2. PICK t : t = (MaxFailures - failures[b]) * RetryEvery
        OBVIOUS
      <3>3. t \in Nat
        BY <3>1, <3>2, RetriesNat
      <3>4. probe = b /\ lease > renewIn[b] + t
        BY <3>1, <3>2 DEF IInv, KeptProbeHasTime
      <3>5. lease \in Nat /\ lease' = IF lease = 0 THEN 0 ELSE lease - 1
        BY <1>13, CircuitAssumption DEF Tick, Less, IInv, TypeOK
      <3>6. lease' > renewIn'[b] + t /\ lease' # 0
        BY <3>1, <3>3, <3>4, <3>5
      <3> QED
        BY <1>13, <3>1, <3>2, <3>4, <3>6 DEF Tick
    <2>2. KeptProbeHasTime'
      BY <2>1 DEF KeptProbeHasTime
    <2> QED
      BY <1>13, <2>2 DEF Tick, IInv
  <1>14. CASE UNCHANGED vars
    BY <1>14 DEF vars, keyVars, attemptVars, IInv, KeptProbeHasTime
  <1> QED
    BY <1>1, <1>2, <1>3, <1>4, <1>5, <1>6, <1>7, <1>8, <1>9, <1>10, <1>11, <1>12,
       <1>13, <1>14 DEF Next, Attempt

(***************************************************************************)
(* The inductive invariant holds.                                          *)
(***************************************************************************)
THEOREM Invariant == Spec => []IInv
  BY InitHolds, InvStep, PTL DEF Spec

(***************************************************************************)
(* A maintained probe stays the only one, whatever RenewEvery, RetryEvery  *)
(* and the failures tolerated, if a period and the retries fit the lease.  *)
(***************************************************************************)
THEOREM KeptProbe == Spec => []KeptProbeHolds
  <1>1. IInv => KeptProbeHolds
    BY DEF IInv, KeptProbeHasTime, KeptProbeHolds
  <1> QED
    BY <1>1, Invariant, PTL

----------------------------------------------------------------------------
(* What a step may not do.                                                 *)

(***************************************************************************)
(* Only the success of an attempt that claimed the probe since the latest  *)
(* Mark closes the circuit.                                                *)
(***************************************************************************)
THEOREM ClosedByItsProbe == Spec => ClosedOnlyByItsProbe
  <1> DEFINE Opened == recovery /\ ~recovery' /\ ~transient /\ clearing # "recovery"
             Passed == \E a \in sinceMark : probe = a /\ at[a] = "calling" /\ at'[a] = "idle"
  <1>1. ASSUME IInv, [Next]_vars, Opened PROVE Passed
    <2>1. PICK a \in Attempts : Succeeds(a)
      <3>1. ASSUME NEW a \in Attempts, NEW w \in BOOLEAN, ClaimProbe(a, w) PROVE FALSE
        BY <3>1, <1>1 DEF ClaimProbe, TakeProbe, DropTransient, keyVars
      <3>2. ASSUME NEW a \in Attempts, Attempt(a) PROVE Succeeds(a)
        BY <3>1, <3>2, <1>1
           DEF Attempt, Pick, Gate, GiveUp, Call, Renew, RateLimited, Declined, Fails, Dies,
               ReleaseProbe, Mark, keyVars
      <3>3. ~(Peek \/ Clear \/ Tick \/ UNCHANGED vars)
        BY <1>1 DEF Peek, DropTransient, Clear, ClearCooldown, ClearRecovery, ClearProbe,
                    ClearFails, Tick, vars, keyVars
      <3> QED
        BY <1>1, <3>2, <3>3 DEF Next
    <2>2. probe = a /\ at[a] = "calling" /\ at'[a] = "idle"
      BY <1>1, <2>1 DEF Succeeds, Recover, Owns, Ends, Goes, IInv, TypeOK
    <2>3. a \in sinceMark
      BY <1>1, <2>2, TimesNat DEF IInv, ProbeIsRecent
    <2> QED
      BY <2>2, <2>3
  <1>2. IInv /\ [Next]_vars => [Opened => Passed]_vars
    BY <1>1
  <1> QED
    BY <1>2, Invariant, PTL DEF Spec, ClosedOnlyByItsProbe

(***************************************************************************)
(* A rate limit never shortens the cooldown of another.                    *)
(***************************************************************************)
THEOREM CooldownIsKept == Spec => CooldownKept
  <1> DEFINE Shorter == cooldown' < cooldown
             ByRight == \/ clearing = "cooldown" /\ clearing' = "recovery"
                        \/ cooldown' = cooldown - 1 /\ at' = at
  <1>1. ASSUME TypeOK, [Next]_vars, Shorter PROVE ByRight
    <2>1. cooldown \in Nat /\ cooldown' # cooldown
      BY <1>1 DEF TypeOK
    <2>2. ASSUME NEW a \in Attempts, NEW w \in BOOLEAN, ClaimProbe(a, w) PROVE FALSE
      BY <2>1, <2>2 DEF ClaimProbe, TakeProbe, DropTransient, keyVars
    <2>3. ASSUME NEW ttl \in Cooldowns, Mark(ttl) PROVE FALSE
      BY <1>1, <2>1, <2>3, TimesNat DEF Mark, Maximum
    <2>4. ASSUME NEW a \in Attempts, Attempt(a) PROVE FALSE
      BY <2>1, <2>2, <2>3, <2>4
         DEF Attempt, Pick, Gate, GiveUp, Call, Renew, Succeeds, RateLimited, Declined, Fails,
             Dies, ReleaseProbe, Recover, keyVars
    <2>5. CASE Tick
      BY <2>1, <2>5 DEF Tick, Less
    <2>6. CASE Peek \/ Clear \/ UNCHANGED vars
      BY <2>1, <2>6 DEF Peek, DropTransient, Clear, ClearCooldown, ClearRecovery, ClearProbe,
                        ClearFails, vars, keyVars
    <2> QED
      BY <1>1, <2>4, <2>5, <2>6 DEF Next
  <1>2. TypeOK /\ [Next]_vars => [Shorter => ByRight]_vars
    BY <1>1
  <1> QED
    BY <1>2, TypeCorrect, PTL DEF Spec, CooldownKept

(***************************************************************************)
(* Without an operator's ClearAccount the marker outlives every cooldown.  *)
(***************************************************************************)
THEOREM RecoveryStays ==
    ASSUME ~AdminClears
    PROVE  Spec => []RecoveryOutlivesCooldown
  <1> DEFINE J == TypeOK /\ clearing = "cooldown" /\ RecoveryOutlivesCooldown
  <1>1. Init => J
    <2> SUFFICES ASSUME Init PROVE clearing = "cooldown" /\ RecoveryOutlivesCooldown
      BY InitHolds DEF IInv
    <2>1. cooldown = 0 \/ recovery
      BY Zenon DEF Init
    <2> QED
      BY <2>1 DEF Init, RecoveryOutlivesCooldown
  <1>2. ASSUME J, [Next]_vars PROVE J'
    <2>1. TypeOK'
      BY <1>2, TypeStep
    <2>2. ASSUME NEW a \in Attempts, NEW w \in BOOLEAN, ClaimProbe(a, w)
          PROVE  RecoveryOutlivesCooldown'
      BY <1>2, <2>2 DEF ClaimProbe, TakeProbe, DropTransient, keyVars, RecoveryOutlivesCooldown
    <2>3. ASSUME NEW a \in Attempts, Attempt(a) PROVE RecoveryOutlivesCooldown'
      BY <1>2, <2>2, <2>3
         DEF Attempt, Pick, Gate, GiveUp, Call, Renew, Succeeds, RateLimited, Declined, Fails,
             Dies, ReleaseProbe, Recover, Owns, Mark, keyVars, RecoveryOutlivesCooldown
    <2>4. ASSUME NEW a \in Attempts, Attempt(a) PROVE clearing' = clearing
      BY <2>4 DEF Attempt, Pick, Gate, GiveUp, Call, Renew, Succeeds, RateLimited, Declined,
                  Fails, Dies, Ends
    <2>5. CASE Tick
      BY <1>2, <2>1, <2>5 DEF Tick, Less, RecoveryOutlivesCooldown, TypeOK
    <2>6. CASE Peek \/ Clear \/ UNCHANGED vars
      BY <1>2, <2>1, <2>6
         DEF Peek, DropTransient, Clear, ClearCooldown, ClearRecovery, ClearProbe, ClearFails,
             vars, keyVars, RecoveryOutlivesCooldown
    <2> QED
      BY <1>2, <2>1, <2>3, <2>4, <2>5, <2>6 DEF Next
  <1>3. J => RecoveryOutlivesCooldown
    OBVIOUS
  <1> QED
    BY <1>1, <1>2, <1>3, PTL DEF Spec
=============================================================================
