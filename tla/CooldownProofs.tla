----------------------------- MODULE CooldownProofs -----------------------------
(***************************************************************************)
(* Proofs about Cooldown: the types, the half hour an endpoint is left     *)
(* alone, and the pauses.                                                  *)
(***************************************************************************)
EXTENDS Cooldown, TLAPS

(* What keeps the worker from asking an endpoint that refused: the circuit, *)
(* the answer it has still to record, or the pause.                        *)
Covered ==
    \A x \in refused :
        \/ x = "native" /\ mode = "fallback" /\ circuit
        \/ pc = "limited"
        \/ left > 0

(* A job runs only while there is no pause, and with an open circuit only  *)
(* in the fallback mode and not at the native endpoint.                    *)
Awake ==
    /\ pc \in Asking \union {"limited", "succeeded"} => left = 0
    /\ circuit => mode = "fallback" /\ pc # "native"
    /\ pc = "limited" => strikes < MaxStrikes

LookupInv == TypeOK /\ Covered /\ Awake

(* What the recorded answers have earned is in front of the worker or      *)
(* behind it.                                                              *)
Earned ==
    answers > 0 =>
        /\ strikes >= answers
        /\ left + since >= Schedule(answers) \/ since >= Schedule(answers)

-----------------------------------------------------------------------------
(* The powers the pause is made of. *)
LEMMA PowerRange ==
    ASSUME NEW k \in 0..15
    PROVE  /\ 2 ^ k \in Nat \ {0}
           /\ k = 0 => 2 ^ k = 1
           /\ k = 1 => 2 ^ k = 2
           /\ k = 2 => 2 ^ k = 4
           /\ k = 3 => 2 ^ k = 8
           /\ k >= 4 => 2 ^ k >= 16
<1>1. \/ k = 0 \/ k = 1 \/ k = 2 \/ k = 3 \/ k = 4 \/ k = 5 \/ k = 6 \/ k = 7
      \/ k = 8 \/ k = 9 \/ k = 10 \/ k = 11 \/ k = 12 \/ k = 13 \/ k = 14 \/ k = 15
  BY SMT
<1>2. CASE k = 0
  <2>1. 2 ^ k = 1
    BY <1>2, SMT
  <2>. QED
    BY <2>1, <1>2
<1>3. CASE k = 1
  <2>1. 2 ^ k = 2
    BY <1>3, SMT
  <2>. QED
    BY <2>1, <1>3
<1>4. CASE k = 2
  <2>1. 2 ^ k = 4
    BY <1>4, SMT
  <2>. QED
    BY <2>1, <1>4
<1>5. CASE k = 3
  <2>1. 2 ^ k = 8
    BY <1>5, SMT
  <2>. QED
    BY <2>1, <1>5
<1>6. CASE k = 4
  <2>1. 2 ^ k = 16
    BY <1>6, SMT
  <2>. QED
    BY <2>1, <1>6
<1>7. CASE k = 5
  <2>1. 2 ^ k = 32
    BY <1>7, SMT
  <2>. QED
    BY <2>1, <1>7
<1>8. CASE k = 6
  <2>1. 2 ^ k = 64
    BY <1>8, SMT
  <2>. QED
    BY <2>1, <1>8
<1>9. CASE k = 7
  <2>1. 2 ^ k = 128
    BY <1>9, SMT
  <2>. QED
    BY <2>1, <1>9
<1>10. CASE k = 8
  <2>1. 2 ^ k = 256
    BY <1>10, SMT
  <2>. QED
    BY <2>1, <1>10
<1>11. CASE k = 9
  <2>1. 2 ^ k = 512
    BY <1>11, SMT
  <2>. QED
    BY <2>1, <1>11
<1>12. CASE k = 10
  <2>1. 2 ^ k = 1024
    BY <1>12, SMT
  <2>. QED
    BY <2>1, <1>12
<1>13. CASE k = 11
  <2>1. 2 ^ k = 2048
    BY <1>13, SMT
  <2>. QED
    BY <2>1, <1>13
<1>14. CASE k = 12
  <2>1. 2 ^ k = 4096
    BY <1>14, SMT
  <2>. QED
    BY <2>1, <1>14
<1>15. CASE k = 13
  <2>1. 2 ^ k = 8192
    BY <1>15, SMT
  <2>. QED
    BY <2>1, <1>15
<1>16. CASE k = 14
  <2>1. 2 ^ k = 16384
    BY <1>16, SMT
  <2>. QED
    BY <2>1, <1>16
<1>17. CASE k = 15
  <2>1. 2 ^ k = 32768
    BY <1>17, SMT
  <2>. QED
    BY <2>1, <1>17
<1>. QED
  BY <1>1, <1>2, <1>3, <1>4, <1>5, <1>6, <1>7, <1>8, <1>9, <1>10, <1>11, <1>12, <1>13, <1>14, <1>15, <1>16, <1>17

LEMMA DelayRange == \A n \in Nat \ {0} : Delay(n) \in 1..Longest
<1>. SUFFICES ASSUME NEW n \in Nat \ {0} PROVE Delay(n) \in 1..Longest
  OBVIOUS
<1>1. Least(n, 16) - 1 \in 0..15
  BY DEF Least
<1>2. 2 ^ (Least(n, 16) - 1) \in Nat \ {0}
  BY <1>1, PowerRange
<1>. QED
  BY <1>2, CooldownAssumption DEF Delay, Least

LEMMA CodeOfError ==
    ASSUME NEW e \in Errors
    PROVE  /\ Refusal(e) => Code(e) = "limit" /\ Blocks(e)
           /\ Refusal(e) \in BOOLEAN
BY DEF Refusal, Code, Blocks, Errors

(* The types, the cover and the awakening hold at first and after each step. *)
LEMMA LookupInvInit == Init => LookupInv
<1>. SUFFICES ASSUME Init PROVE LookupInv
  OBVIOUS
<1>1. TypeOK
  <2>1. refused \subseteq Asking
    BY DEF Init
  <2>2. circuit \in BOOLEAN
    BY DEF Init
  <2>3. pc \in Asking \union {"idle", "limited", "succeeded", "dead"}
    BY DEF Init
  <2>4. mode \in {"native", "fallback", "legacy"}
    BY DEF Init
  <2>. QED
    BY <2>1, <2>2, <2>3, <2>4, CooldownAssumption DEF Init, TypeOK
<1>2. Covered /\ Awake
  BY DEF Init, Covered, Awake, Asking
<1>. QED
  BY <1>1, <1>2 DEF LookupInv

LEMMA LookupInvStep == LookupInv /\ [Next]_vars => LookupInv'
<1>. SUFFICES ASSUME LookupInv, [Next]_vars PROVE LookupInv'
  OBVIOUS
<1>. USE CooldownAssumption DEF file, lookup, bounds, history
<1>1. CASE Claim
  BY <1>1 DEF Claim, LookupInv, TypeOK, Covered, Awake, Asking
<1>2. CASE Resolve
  BY <1>2 DEF Resolve, LookupInv, TypeOK, Covered, Awake, Asking
<1>3. CASE Found
  BY <1>3 DEF Found, LookupInv, TypeOK, Covered, Awake, Asking
<1>4. CASE Fail
  BY <1>4 DEF Fail, LookupInv, TypeOK, Covered, Awake, Asking
<1>5. CASE Succeed
  BY <1>5 DEF Succeed, LookupInv, TypeOK, Covered, Awake, Asking
<1>6. CASE RecordRateLimit
  <2>1. strikes + 1 \in Nat \ {0} /\ strikes + 1 \in 0..MaxStrikes
    BY <1>6 DEF RecordRateLimit, Recorded, LookupInv, TypeOK, Awake
  <2>2. Delay(strikes + 1) \in 1..Longest
    BY <2>1, DelayRange
  <2>. QED
    BY <1>6, <2>1, <2>2 DEF RecordRateLimit, Recorded, LookupInv, TypeOK, Covered, Awake, Asking
<1>7. CASE FailToRecord
  <2>1. strikes + 1 \in Nat \ {0} /\ strikes + 1 \in 0..MaxStrikes
    BY <1>7 DEF FailToRecord, LookupInv, TypeOK, Awake
  <2>2. Delay(strikes + 1) \in 1..Longest
    BY <2>1, DelayRange
  <2>3. TypeOK'
    <3>1. refused' \subseteq Asking
      BY <1>7 DEF FailToRecord, LookupInv, TypeOK
    <3>. QED
      BY <1>7, <2>1, <2>2, <3>1 DEF FailToRecord, LookupInv, TypeOK
  <2>4. Covered'
    BY <1>7, <2>1, <2>2 DEF FailToRecord, LookupInv, TypeOK, Covered, Awake
  <2>5. Awake'
    BY <1>7 DEF FailToRecord, LookupInv, Awake, Asking
  <2>. QED
    BY <2>3, <2>4, <2>5 DEF LookupInv
<1>8. CASE Overflow
  BY <1>8 DEF Overflow, Died, LookupInv, TypeOK, Covered, Awake, Asking
<1>9. CASE RecordSuccess
  BY <1>9 DEF RecordSuccess, LookupInv, TypeOK, Covered, Awake, Asking
<1>10. CASE FailToReset
  BY <1>10 DEF FailToReset, LookupInv, TypeOK, Covered, Awake, Asking
<1>11. CASE Restart
  BY <1>11 DEF Restart, LookupInv, TypeOK, Covered, Awake, Asking
<1>12. ASSUME NEW e \in Errors, NativeFails(e) PROVE LookupInv'
  BY <1>12, CodeOfError DEF NativeFails, EndsJob, Noted, Refusal, PermitsFallback, LookupInv, TypeOK, Covered, Awake, Asking
<1>13. ASSUME NEW e \in Errors, LookupFails(e) PROVE LookupInv'
  BY <1>13, CodeOfError DEF LookupFails, EndsJob, Noted, Refusal, PermitsFallback, LookupInv, TypeOK, Covered, Awake, Asking
<1>14. ASSUME NEW e \in Errors, ItemFails(e) PROVE LookupInv'
  BY <1>14, CodeOfError DEF ItemFails, EndsJob, Noted, Refusal, PermitsFallback, LookupInv, TypeOK, Covered, Awake, Asking
<1>15. ASSUME NEW e \in Errors, RequestFails(e) PROVE LookupInv'
  BY <1>15, CodeOfError DEF RequestFails, EndsJob, Noted, Refusal, PermitsFallback, LookupInv, TypeOK, Covered, Awake, Asking
<1>16. CASE Crash
  <2>1. TypeOK'
    <3>1. refused' \subseteq Asking
      BY <1>16 DEF Crash, Died, LookupInv, TypeOK
    <3>2. circuit' \in BOOLEAN
      BY <1>16 DEF Crash, Died
    <3>3. pc' \in Asking \union {"idle", "limited", "succeeded", "dead"}
      BY <1>16 DEF Crash, Died, LookupInv, TypeOK
    <3>. QED
      BY <1>16, <3>1, <3>2, <3>3 DEF Crash, Died, LookupInv, TypeOK
  <2>2. Covered'
    BY <1>16 DEF Crash, Died, LookupInv, TypeOK, Covered, Awake
  <2>3. Awake'
    BY <1>16 DEF Crash, Died, LookupInv, TypeOK, Awake, Asking
  <2>. QED
    BY <2>1, <2>2, <2>3 DEF LookupInv
<1>17. CASE Tick
  <2>1. TypeOK'
    <3>1. refused' \subseteq Asking
      BY <1>17 DEF Tick, Least, LookupInv, TypeOK
    <3>2. circuit' \in BOOLEAN
      BY <1>17 DEF Tick, Least
    <3>3. pc' \in Asking \union {"idle", "limited", "succeeded", "dead"}
      BY <1>17 DEF Tick, Least, LookupInv, TypeOK
    <3>. QED
      BY <1>17, <3>1, <3>2, <3>3 DEF Tick, Least, LookupInv, TypeOK
  <2>2. Covered'
    BY <1>17 DEF Tick, Least, LookupInv, TypeOK, Covered, Awake
  <2>3. Awake'
    BY <1>17 DEF Tick, Least, LookupInv, TypeOK, Awake, Asking
  <2>. QED
    BY <2>1, <2>2, <2>3 DEF LookupInv
<1>18. CASE UNCHANGED vars
  BY <1>18 DEF vars, LookupInv, TypeOK, Covered, Awake
<1>. QED
  BY <1>1, <1>2, <1>3, <1>4, <1>5, <1>6, <1>7, <1>8, <1>9, <1>10, <1>11, <1>12, <1>13, <1>14, <1>15, <1>16, <1>17, <1>18 DEF Next, WorkerStep

(* Every variable keeps to its type, for any cap, bounds and errors. *)
THEOREM TypesHold == Spec => []TypeOK
<1>1. LookupInv => TypeOK
  BY DEF LookupInv
<1>. QED
  BY <1>1, LookupInvInit, LookupInvStep, PTL DEF Spec

(* An endpoint that answered 429 is left alone for half an hour, by the    *)
(* circuit or by the pause, for any cap, any chain length the classifier   *)
(* trusts and any number of crashes and failures.                          *)
THEOREM EndpointsAreLeftAlone == Spec => []NotAskedAgain
<1>1. LookupInv => NotAskedAgain
  BY DEF LookupInv, TypeOK, Covered, Awake, NotAskedAgain, Asking
<1>. QED
  BY <1>1, LookupInvInit, LookupInvStep, PTL DEF Spec

(* The real schedule, of a cap of six hours, is covered by what is recorded. *)
LEMMA DelayCovers ==
    ASSUME Longest >= 12, NEW n \in Nat \ {0}, NEW k \in Nat \ {0}, k =< n
    PROVE  Schedule(k) \in 1..12 /\ Delay(n) >= Schedule(k)
<1>. DEFINE p == Least(n, 16) - 1
<1>1. /\ p \in 0..15
      /\ n = 1 => p = 0
      /\ n = 2 => p = 1
      /\ n = 3 => p = 2
      /\ n = 4 => p = 3
      /\ n >= 5 => p >= 4
  BY DEF Least
<1>2. /\ 2 ^ p \in Nat \ {0}
      /\ p = 0 => 2 ^ p = 1
      /\ p = 1 => 2 ^ p = 2
      /\ p = 2 => 2 ^ p = 4
      /\ p = 3 => 2 ^ p = 8
      /\ p >= 4 => 2 ^ p >= 16
  BY <1>1, PowerRange
<1>3. Delay(n) = Least(2 ^ p, Longest)
  BY DEF Delay
<1>. HIDE DEF p
<1>4. /\ n = 1 => Delay(n) >= 1
      /\ n = 2 => Delay(n) >= 2
      /\ n = 3 => Delay(n) >= 4
      /\ n = 4 => Delay(n) >= 8
      /\ n >= 5 => Delay(n) >= 12
  BY <1>1, <1>2, <1>3, CooldownAssumption DEF Least
<1>5. /\ k = 1 => Schedule(k) = 1
      /\ k = 2 => Schedule(k) = 2
      /\ k = 3 => Schedule(k) = 4
      /\ k = 4 => Schedule(k) = 8
      /\ k >= 5 => Schedule(k) = 12
  BY DEF Schedule
<1>6. Delay(n) \in 1..Longest
  BY DelayRange
<1>. QED
  BY <1>4, <1>5, <1>6, CooldownAssumption

LEMMA EarnedStep ==
    ASSUME Longest >= 12, LookupInv, Earned, [Next]_vars
    PROVE  Earned'
<1>. USE CooldownAssumption DEF file, lookup, bounds, history
<1>1. /\ strikes \in Nat /\ left \in Nat /\ since \in 0..Longest /\ answers \in Nat
  BY DEF LookupInv, TypeOK
<1>2. \A k \in Nat \ {0} : Schedule(k) \in 1..12
  BY DelayCovers
<1>3. CASE Claim
  BY <1>3 DEF Claim, Earned
<1>4. CASE Resolve
  BY <1>4 DEF Resolve, Earned
<1>5. CASE Found
  BY <1>5 DEF Found, Earned
<1>6. CASE Fail
  BY <1>6 DEF Fail, Earned
<1>7. CASE Succeed
  BY <1>7 DEF Succeed, Earned
<1>8. CASE Overflow
  BY <1>8 DEF Overflow, Earned
<1>9. CASE Restart
  BY <1>9 DEF Restart, Earned
<1>10. CASE RecordSuccess
  BY <1>10 DEF RecordSuccess, Earned
<1>11. CASE FailToReset
  BY <1>11 DEF FailToReset, Earned
<1>12. CASE RecordRateLimit
  <2>1. answers' > 0 /\ answers' \in Nat \ {0} /\ strikes' \in Nat \ {0} /\ strikes' >= answers'
    BY <1>12, <1>1 DEF RecordRateLimit, Recorded, Earned
  <2>2. left' = Delay(strikes') /\ since' = 0
    BY <1>12 DEF RecordRateLimit, Recorded
  <2>3. Delay(strikes') >= Schedule(answers')
    BY <2>1, DelayCovers
  <2>4. Delay(strikes') \in Nat /\ Schedule(answers') \in Nat
    BY <2>1, <1>2, DelayRange
  <2>5. left' + since' >= Schedule(answers')
    BY <2>2, <2>3, <2>4
  <2>. QED
    BY <2>1, <2>5 DEF Earned, Schedule
<1>13. CASE FailToRecord
  <2>1. left = 0
    BY <1>13 DEF FailToRecord, LookupInv, Awake
  <2>2. answers > 0 => since >= Schedule(answers)
    BY <2>1, <1>1 DEF Earned
  <2>3. strikes' >= strikes /\ strikes' \in Nat /\ answers' = answers /\ since' = since
    BY <1>13, <1>1 DEF FailToRecord
  <2>. QED
    BY <2>2, <2>3, <1>1 DEF Earned, Schedule
<1>14. ASSUME NEW e \in Errors, NativeFails(e) PROVE Earned'
  BY <1>14 DEF NativeFails, Earned
<1>15. ASSUME NEW e \in Errors, LookupFails(e) PROVE Earned'
  BY <1>15 DEF LookupFails, Earned
<1>16. ASSUME NEW e \in Errors, ItemFails(e) PROVE Earned'
  BY <1>16 DEF ItemFails, Earned
<1>17. ASSUME NEW e \in Errors, RequestFails(e) PROVE Earned'
  BY <1>17 DEF RequestFails, Earned
<1>18. CASE Crash
  BY <1>18 DEF Crash, Earned
<1>19. CASE Tick
  <2>1. answers' = answers /\ strikes' = strikes
    BY <1>19 DEF Tick
  <2>2. since' = Least(since + 1, Longest) /\ left' = IF left > 0 THEN left - 1 ELSE 0
    BY <1>19 DEF Tick
  <2>3. ASSUME answers > 0
        PROVE  left' + since' >= Schedule(answers) \/ since' >= Schedule(answers)
    <3>1. Schedule(answers) \in 1..12
      BY <2>3, <1>1, <1>2
    <3>2. left + since >= Schedule(answers) \/ since >= Schedule(answers)
      BY <2>3 DEF Earned
    <3>. QED
      BY <3>1, <3>2, <2>2, <1>1 DEF Least
  <2>. QED
    BY <2>1, <2>3 DEF Earned, Schedule
<1>20. CASE UNCHANGED vars
  BY <1>20 DEF vars, Earned
<1>. QED
  BY <1>3, <1>4, <1>5, <1>6, <1>7, <1>8, <1>9, <1>10, <1>11, <1>12, <1>13, <1>14, <1>15, <1>16, <1>17, <1>18, <1>19, <1>20 DEF Next, WorkerStep

(* With a cap of six hours or more the pauses are those of the schedule:   *)
(* whatever crashes, errors and failures happen in between, Instagram is   *)
(* not asked again before the last recorded answers have been waited for.  *)
THEOREM PausesAreEarned == ASSUME Longest >= 12 PROVE Spec => []BacksOff
<1>1. Init => LookupInv /\ Earned
  BY LookupInvInit DEF Init, Earned
<1>2. LookupInv /\ Earned /\ [Next]_vars => (LookupInv /\ Earned)'
  BY LookupInvStep, EarnedStep
<1>3. LookupInv /\ Earned => BacksOff
  <2>1. ASSUME LookupInv, Earned, pc \in Asking, answers > 0 PROVE since >= Schedule(answers)
    <3>1. left = 0 /\ since \in Nat
      BY <2>1, CooldownAssumption DEF LookupInv, TypeOK, Awake
    <3>. QED
      BY <2>1, <3>1 DEF Earned
  <2>. QED
    BY <2>1 DEF BacksOff
<1>. QED
  BY <1>1, <1>2, <1>3, PTL DEF Spec

=============================================================================
