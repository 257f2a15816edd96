--------------------------- MODULE AttemptLimitProofs ---------------------------
(***************************************************************************)
(* What AttemptLimit promises holds of it, for any attempts, buckets and   *)
(* limits.                                                                 *)
(***************************************************************************)
EXTENDS AttemptLimit, FiniteSetTheorems, TLAPS

LimitTypeOK ==
    /\ attempt \in [Attempts -> {"none", "open", "excused"}]
    /\ failed \in [Buckets -> Nat]

(* The attempts that count in a bucket are finite in number; where none is *)
(* added their number does not grow, and one that leaves makes room.       *)
LEMMA OpenAttempts ==
    ASSUME LimitAssumption, NEW b \in Buckets
    PROVE  /\ IsFiniteSet(Open(b)) /\ Cardinality(Open(b)) \in Nat
           /\ Open(b)' \subseteq Open(b) =>
                /\ IsFiniteSet(Open(b)') /\ Cardinality(Open(b)') \in Nat
                /\ Cardinality(Open(b)') =< Cardinality(Open(b))
                /\ Open(b)' # Open(b) => Cardinality(Open(b)') < Cardinality(Open(b))
<1>1. IsFiniteSet(Open(b)) /\ Cardinality(Open(b)) \in Nat
  BY FS_Subset, FS_CardinalityType, IsFiniteSet(Attempts), Open(b) \in SUBSET Attempts
  DEF LimitAssumption, Open
<1>2. ASSUME Open(b)' \subseteq Open(b)
      PROVE  /\ IsFiniteSet(Open(b)') /\ Cardinality(Open(b)') \in Nat
             /\ Cardinality(Open(b)') =< Cardinality(Open(b))
             /\ Open(b)' # Open(b) => Cardinality(Open(b)') < Cardinality(Open(b))
  <2>1. Open(b)' \in SUBSET Open(b)
    BY <1>2
  <2>2. /\ IsFiniteSet(Open(b)')
        /\ Cardinality(Open(b)') =< Cardinality(Open(b))
        /\ Cardinality(Open(b)) = Cardinality(Open(b)') => Open(b) = Open(b)'
    BY <2>1, <1>1, FS_Subset
  <2> QED
    BY <2>2, <1>1, FS_CardinalityType
<1> QED
  BY <1>1, <1>2

LEMMA InitWithin ==
    ASSUME LimitAssumption, Init
    PROVE  LimitTypeOK /\ Within
<1>1. \A b \in Buckets : Open(b) = {}
  BY DEF Init, Open
<1>2. \A b \in Buckets : Cardinality(Open(b)) = 0
  BY <1>1, FS_EmptySet
<1>3. LimitTypeOK
  BY DEF Init, LimitTypeOK
<1>4. \A b \in Buckets : failed[b] = 0 /\ Max[b] \in Nat
  BY DEF Init, LimitAssumption
<1> QED
  BY <1>2, <1>3, <1>4 DEF Within

LEMMA NextWithin ==
    ASSUME LimitAssumption, LimitTypeOK, Within, [Next]_limitVars
    PROVE  LimitTypeOK' /\ Within'
<1> DEFINE Fits(b) == Cardinality(Open(b)') + failed'[b] =< Max[b]
<1>0. \A b \in Buckets : /\ Cardinality(Open(b)) + failed[b] =< Max[b]
                         /\ failed[b] \in Nat /\ Max[b] \in Nat
                         /\ Cardinality(Open(b)) \in Nat
  BY OpenAttempts DEF Within, LimitTypeOK, LimitAssumption
<1>1. CASE UNCHANGED <<attempt, failed>>
  <2>1. \A b \in Buckets : Open(b)' = Open(b)
    BY <1>1 DEF Open
  <2> QED
    BY <1>1, <2>1 DEF Within, LimitTypeOK
<1>2. CASE Forget
  <2>1. LimitTypeOK'
    BY <1>2 DEF Forget, Typed, LimitTypeOK
  <2>2. ASSUME NEW b \in Buckets PROVE Fits(b)
    <3>1. Open(b)' \subseteq Open(b)
      BY <1>2 DEF Forget, MayLapse, Open
    <3>2. failed'[b] =< failed[b] /\ failed'[b] \in Nat
      BY <1>2, <1>0 DEF Forget, MayForget, Same
    <3> QED
      BY <3>1, <3>2, <1>0, OpenAttempts
  <2> QED
    BY <2>1, <2>2 DEF Within
<1>3. ASSUME NEW a \in Attempts, Admit(a) PROVE LimitTypeOK' /\ Within'
  <2>1. LimitTypeOK'
    BY <1>3 DEF Admit, Typed, LimitTypeOK
  <2>2. ASSUME NEW b \in Buckets PROVE Fits(b)
    <3>1. failed'[b] =< failed[b] /\ failed'[b] \in Nat
      BY <1>3, <1>0 DEF Admit, MayForget, Same
    <3>2. CASE b \in BucketsOf[a]
      <4>1. Open(b)' \ {a} \in SUBSET Attempts
        BY DEF Open
      <4>2. /\ IsFiniteSet(Open(b)' \ {a}) /\ Cardinality(Open(b)' \ {a}) \in Nat
        BY <4>1, FS_Subset, FS_CardinalityType DEF LimitAssumption
      <4>3. Open(b)' = (Open(b)' \ {a}) \cup {a}
        BY <1>3, <3>2 DEF Admit, Open
      <4>4. Cardinality(Open(b)') = Cardinality(Open(b)' \ {a}) + 1
        BY <4>2, <4>3, FS_AddElement
      <4>5. Cardinality(Open(b)' \ {a}) + failed'[b] < Max[b]
        BY <1>3, <3>2 DEF Admit
      <4> QED
        BY <4>2, <4>4, <4>5, <3>1, <1>0
    <3>3. CASE b \notin BucketsOf[a]
      <4>1. Open(b)' \subseteq Open(b)
        BY <1>3, <3>3 DEF Admit, MayLapse, Open
      <4> QED
        BY <4>1, <3>1, <1>0, OpenAttempts
    <3> QED
      BY <3>2, <3>3
  <2> QED
    BY <2>1, <2>2 DEF Within
<1>4. ASSUME NEW a \in Attempts, Fail(a) PROVE LimitTypeOK' /\ Within'
  <2>1. LimitTypeOK'
    BY <1>4 DEF Fail, Typed, LimitTypeOK
  <2>2. ASSUME NEW b \in Buckets PROVE Fits(b)
    <3>1. Open(b)' \subseteq Open(b)
      BY <1>4 DEF Fail, Open
    <3>2. CASE b \in BucketsOf[a]
      <4>1. a \in Open(b) /\ a \notin Open(b)'
        BY <1>4, <3>2 DEF Fail, Open
      <4>2. Cardinality(Open(b)') < Cardinality(Open(b)) /\ Cardinality(Open(b)') \in Nat
        BY <3>1, <4>1, OpenAttempts
      <4>3. failed'[b] \in {failed[b], failed[b] + 1, 1}
        BY <1>4, <3>2 DEF Fail, Same
      <4> QED
        BY <4>2, <4>3, <1>0
    <3>3. CASE b \notin BucketsOf[a]
      <4>1. failed'[b] = failed[b]
        BY <1>4, <3>3 DEF Fail, Same
      <4> QED
        BY <4>1, <3>1, <1>0, OpenAttempts
    <3> QED
      BY <3>2, <3>3
  <2> QED
    BY <2>1, <2>2 DEF Within
<1>5. ASSUME NEW a \in Attempts, Enter(a) PROVE LimitTypeOK' /\ Within'
  <2>1. LimitTypeOK'
    BY <1>5 DEF Enter, Typed, LimitTypeOK
  <2>2. ASSUME NEW b \in Buckets PROVE Fits(b)
    <3>1. Open(b)' \subseteq Open(b)
      BY <1>5 DEF Enter, Open
    <3>2. failed'[b] \in {0, failed[b]}
      BY <1>5 DEF Enter, LimitTypeOK
    <3> QED
      BY <3>1, <3>2, <1>0, OpenAttempts
  <2> QED
    BY <2>1, <2>2 DEF Within
<1> QED
  BY <1>1, <1>2, <1>3, <1>4, <1>5 DEF Next, Tick, limitVars

(* Attempts under way and failures remembered never exceed a limit         *)
(* together.                                                               *)
THEOREM LimitHolds ==
    ASSUME LimitAssumption
    PROVE  Spec => []Within
<1>1. Init => LimitTypeOK /\ Within
  BY InitWithin
<1>2. LimitTypeOK /\ Within /\ [Next]_limitVars => (LimitTypeOK /\ Within)'
  BY NextWithin
<1> QED
  BY <1>1, <1>2, PTL DEF Spec

=============================================================================
