------------------------------ MODULE AttemptLimit ------------------------------
(***************************************************************************)
(* What limiting login attempts promises.  An attempt is checked only once *)
(* it was admitted; each account, each address and all of them together    *)
(* have a limit, which the attempts under way and the failures remembered  *)
(* never exceed together.  Failures are remembered for the whole window.   *)
(***************************************************************************)
EXTENDS Integers, FiniteSets

CONSTANTS Attempts,
          Buckets,    (* accounts, addresses and the one for all            *)
          BucketsOf,  (* the buckets of an attempt                          *)
          AccountOf,  (* the one among them that a login empties            *)
          Max,        (* the limit of each bucket                           *)
          Window      (* how long a failure is remembered                   *)

(* What the module takes of its constants. *)
LimitAssumption ==
    /\ IsFiniteSet(Attempts)
    /\ BucketsOf \in [Attempts -> SUBSET Buckets]
    /\ \A a \in Attempts : AccountOf[a] \in BucketsOf[a]
    /\ Max \in [Buckets -> Nat]
    /\ Window \in Nat

VARIABLES
    attempt,  (* none, open: a failure will count; excused: it will not     *)
    failed,   (* the failures a bucket remembers                            *)
    began,    (* the time of the first of them                              *)
    entered,  (* attempts that logged in                                    *)
    clock

limitVars == <<attempt, failed, began, entered, clock>>

Open(b) == {a \in Attempts : attempt[a] = "open" /\ b \in BucketsOf[a]}

-----------------------------------------------------------------------------
Init ==
    /\ attempt = [a \in Attempts |-> "none"]
    /\ failed = [b \in Buckets |-> 0]
    /\ began = [b \in Buckets |-> 0]
    /\ entered = {}
    /\ clock = 0

(* What may happen to the others, whoever acts: an attempt under way lapses *)
(* and will neither count nor log in; the failures of a bucket are         *)
(* forgotten when the window is over.                                      *)
MayLapse(a) == attempt'[a] \in {attempt[a], "none"}

Same(b) == failed'[b] = failed[b] /\ began'[b] = began[b]

MayForget(b) ==
    \/ Same(b)
    \/ began[b] + Window =< clock /\ failed'[b] = 0 /\ began'[b] = 0

Typed ==
    /\ attempt' \in [Attempts -> {"none", "open", "excused"}]
    /\ failed' \in [Buckets -> Nat]
    /\ began' \in [Buckets -> Nat]

Forget ==
    /\ UNCHANGED <<entered, clock>>
    /\ \A a \in Attempts : MayLapse(a)
    /\ \A b \in Buckets : MayForget(b)
    /\ Typed

(* There is room for a in all its buckets. *)
Admit(a) ==
    /\ attempt[a] = "none" /\ attempt'[a] = "open"
    /\ Typed
    /\ \A x \in Attempts \ {a} : MayLapse(x)
    /\ \A b \in Buckets : MayForget(b)
    /\ \A b \in BucketsOf[a] : Cardinality(Open(b)' \ {a}) + failed'[b] < Max[b]
    /\ UNCHANGED <<entered, clock>>

(* The failure of a counts in each of its buckets, but in one that is full; *)
(* where none is remembered or the window is over it is the first.         *)
Fail(a) ==
    /\ attempt[a] = "open" /\ attempt'[a] = "none"
    /\ Typed
    /\ \A x \in Attempts \ {a} : attempt'[x] = attempt[x]
    /\ \A b \in BucketsOf[a] :
         \/ failed[b] > 0 /\ failed'[b] = failed[b] + 1 /\ began'[b] = began[b]
         \/ /\ failed[b] = 0 \/ began[b] + Window =< clock
            /\ failed'[b] = 1 /\ began'[b] =< clock
         \/ failed[b] >= Max[b] /\ Same(b)
    /\ \A b \in Buckets \ BucketsOf[a] : Same(b)
    /\ UNCHANGED <<entered, clock>>

(* An attempt that was admitted and has not lapsed logs in: the failures of *)
(* its account are forgiven, and attempts of the account may be excused.   *)
Enter(a) ==
    /\ attempt[a] # "none" /\ attempt'[a] = "none"
    /\ Typed
    /\ \A x \in Attempts \ {a} :
         \/ attempt'[x] = attempt[x]
         \/ AccountOf[x] = AccountOf[a] /\ attempt[x] # "none" /\ attempt'[x] = "excused"
    /\ failed' = [failed EXCEPT ![AccountOf[a]] = 0]
    /\ began' = [began EXCEPT ![AccountOf[a]] = 0]
    /\ entered' = entered \cup {a}
    /\ UNCHANGED clock

Tick ==
    /\ clock' = clock + 1
    /\ UNCHANGED <<attempt, failed, began, entered>>

Next ==
    \/ Tick
    \/ Forget
    \/ \E a \in Attempts : Admit(a) \/ Fail(a) \/ Enter(a)

Spec == Init /\ [][Next]_limitVars

-----------------------------------------------------------------------------
(* The promise: what is under way and what is remembered stay within the   *)
(* limit of every bucket together.                                         *)
Within == \A b \in Buckets : Cardinality(Open(b)) + failed[b] =< Max[b]

=============================================================================
