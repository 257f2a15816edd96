--------------------------- MODULE JobQueueProofs ---------------------------
(***************************************************************************)
(* Proofs about JobQueue, for any profiles, names, clients and bounds.     *)
(***************************************************************************)
EXTENDS JobQueue, SequenceTheorems, TLAPS

(* What the worker has in hand at each of its places. *)
OutcomeFits ==
    /\ pc \in {"down", "poll", "enqueue", "claim", "run", "owner"}
           => outcome = "none"
    /\ pc = "record" => outcome = "failed"
    /\ pc = "finish" => outcome \in Board!EndStates

(* Jobs about profiles name one. *)
AboutProfiles == {"profile_sync", "delete_profile"}

TargetFits ==
    \A i \in DOMAIN jobs :
        jobs[i].type \in AboutProfiles => jobs[i].target \in Profiles

(* The invariant the induction needs for the types: a row takes its last   *)
(* state from `outcome`, and a deletion the index of a status from a row.  *)
TypeInv == TypeOK /\ RunningIsHeld /\ OutcomeFits /\ TargetFits

-----------------------------------------------------------------------------
(* What the steps do to the table.                                         *)

(* Rows are only added, pending, behind the others. *)
OnlyNewRows ==
    /\ jobs' \in Seq(Board!Row)
    /\ Len(jobs) =< Len(jobs')
    /\ \A i \in DOMAIN jobs : jobs'[i] = jobs[i]
    /\ \A i \in DOMAIN jobs' \ DOMAIN jobs :
          /\ jobs'[i].state = "pending"
          /\ jobs'[i].type \in AboutProfiles => jobs'[i].target \in Profiles

LEMMA NewJobIsRow ==
    ASSUME NEW type \in Board!JobTypes, NEW p \in Profiles \cup {NoProfile}
    PROVE  /\ Board!NewJob(type, p) \in Board!Row
           /\ Board!NewJob(type, p).type = type
           /\ Board!NewJob(type, p).target = p
           /\ Board!NewJob(type, p).state = "pending"
  BY DEF Board!NewJob, Board!Row, Board!JobStates

LEMMA EnqueueAddsRow ==
    ASSUME TypeInv, NEW type \in Board!JobTypes, NEW p \in Profiles \cup {NoProfile},
           type \in AboutProfiles => p \in Profiles,
           Enqueue(type, p)
    PROVE  OnlyNewRows
<1> DEFINE row == Board!NewJob(type, p)
<1>1. /\ row \in Board!Row /\ row.type = type
      /\ row.target = p /\ row.state = "pending"
  BY NewJobIsRow
<1>2. jobs \in Seq(Board!Row) /\ jobs' = Append(jobs, row)
  BY DEF TypeInv, TypeOK, Enqueue
<1> HIDE DEF row
<1> QED
  BY <1>1, <1>2 DEF OnlyNewRows

LEMMA SyncAddsRow ==
    ASSUME TypeInv, NEW p \in Profiles, EnqueueProfileSync(p)
    PROVE  OnlyNewRows
<1>1. CASE UNCHANGED jobs
  BY <1>1 DEF OnlyNewRows, TypeInv, TypeOK
<1>2. CASE Enqueue("profile_sync", p)
  BY <1>2, EnqueueAddsRow DEF AboutProfiles, Board!JobTypes
<1> QED
  BY <1>1, <1>2 DEF EnqueueProfileSync

LEMMA ImportAddsRows ==
    ASSUME TypeInv, NEW chosen \in Selections, ImportFollowees(chosen)
    PROVE  /\ OnlyNewRows
           /\ chosen \in Seq(Profiles)
           /\ Len(jobs') = Len(jobs) + Len(chosen)
           /\ \A k \in 1..Len(chosen) :
                 /\ jobs'[Len(jobs) + k].type = "profile_sync"
                 /\ jobs'[Len(jobs) + k].target = chosen[k]
<1> DEFINE rows == [k \in DOMAIN chosen |-> Board!NewJob("profile_sync", chosen[k])]
<1>1. PICK n \in Nat : chosen \in [1..n -> Profiles]
  BY DEF Selections
<1>2. chosen \in Seq(Profiles) /\ Len(chosen) = n
  BY <1>1
<1>3. \A k \in 1..n : /\ rows[k] \in Board!Row
                      /\ rows[k].type = "profile_sync"
                      /\ rows[k].target = chosen[k]
                      /\ rows[k].state = "pending"
  BY <1>1, NewJobIsRow DEF Board!JobTypes
<1>4. rows \in Seq(Board!Row) /\ Len(rows) = n /\ DOMAIN rows = 1..n
  BY <1>1, <1>3 DEF rows
<1>5. jobs \in Seq(Board!Row) /\ jobs' = jobs \o rows
  BY DEF TypeInv, TypeOK, ImportFollowees
<1> HIDE DEF rows
<1>6. jobs' \in Seq(Board!Row) /\ Len(jobs') = Len(jobs) + n
  BY <1>4, <1>5, ConcatProperties
<1>7. \A i \in DOMAIN jobs : jobs'[i] = jobs[i]
  BY <1>4, <1>5
<1>8. \A k \in 1..n : jobs'[Len(jobs) + k] = rows[k]
  BY <1>4, <1>5
<1>9. \A i \in DOMAIN jobs' \ DOMAIN jobs :
         /\ jobs'[i].state = "pending"
         /\ jobs'[i].target \in Profiles
  <2> TAKE i \in DOMAIN jobs' \ DOMAIN jobs
  <2>1. i - Len(jobs) \in 1..n
    BY <1>5, <1>6
  <2>2. jobs'[i] = rows[i - Len(jobs)]
    BY <2>1, <1>8, <1>5
  <2> QED
    BY <2>1, <2>2, <1>3, <1>1
<1> QED
  BY <1>2, <1>3, <1>5, <1>6, <1>7, <1>8, <1>9 DEF OnlyNewRows

(* New rows disturb nothing the worker relies on, as long as it stays with *)
(* the job it has.                                                         *)
LEMMA NewRowsKeepHold ==
    ASSUME TypeInv, OnlyNewRows,
           current' = current, outcome' = outcome,
           \/ pc' = pc
           \/ pc = "enqueue" /\ pc' \in {"enqueue", "claim"}
    PROVE  (RunningIsHeld /\ OutcomeFits /\ TargetFits)'
<1>1. RunningIsHeld'
  BY DEF TypeInv, TypeOK, OnlyNewRows, RunningIsHeld, HasJob
<1>2. OutcomeFits'
  BY DEF TypeInv, OutcomeFits
<1>3. TargetFits'
  BY DEF TypeInv, TypeOK, OnlyNewRows, TargetFits
<1> QED
  BY <1>1, <1>2, <1>3

-----------------------------------------------------------------------------
(* Type correctness.                                                       *)

LEMMA InitTypeInv == Init => TypeInv
<1> SUFFICES ASSUME Init PROVE TypeInv
  OBVIOUS
<1>0. Idle \in Flights /\ << >> \in Seq(Board!Row)
  BY DEF Idle, Flights
<1>1. TypeOK
  BY <1>0 DEF Init, TypeOK, Statuses, WorkerStates, Outcomes, Schedule
<1>2. RunningIsHeld /\ TargetFits /\ OutcomeFits
  BY DEF Init, RunningIsHeld, HasJob, TargetFits, OutcomeFits
<1> QED
  BY <1>1, <1>2 DEF TypeInv

(* The requests of the web process add rows and leave the worker alone. *)
WebEffect == TypeInv' /\ OnlyNewRows /\ UNCHANGED worker

LEMMA WebStepTypeInv ==
    ASSUME TypeInv, WebStep
    PROVE  WebEffect
<1> USE DEF Statuses, LiveStatuses, Schedule
<1>0. TypeOK
  BY DEF TypeInv
<1> DEFINE Rest == /\ status' \in [Profiles -> Statuses]
                   /\ tracked' \in [Profiles -> BOOLEAN]
                   /\ unrecorded' \in SUBSET Profiles
                   /\ nextSync' \in Schedule /\ cooling' \in BOOLEAN
                   /\ request' \in [Clients -> Flights]
                   /\ workerCrashes' \in Nat /\ webCrashes' \in Nat
                   /\ UNCHANGED worker
<1>1. ASSUME OnlyNewRows, Rest
      PROVE  WebEffect
  <2>1. TypeOK'
    BY <1>0, <1>1 DEF TypeOK, OnlyNewRows, worker
  <2> QED
    BY <1>1, <2>1, NewRowsKeepHold DEF WebEffect, TypeInv, worker
<1>2. UNCHANGED jobs => OnlyNewRows
  BY <1>0 DEF OnlyNewRows, TypeOK
<1>3. Idle \in Flights
  BY DEF Idle, Flights
<1>4. ASSUME NEW c \in Clients, NEW p \in Profiles, BeginAdd(c, p)
      PROVE  WebEffect
  <2>1. [op |-> "add", todo |-> {p}] \in Flights
    BY DEF Flights
  <2> QED
    BY <1>0, <1>1, <1>2, <1>4, <2>1
    DEF BeginAdd, UpsertProfileStub, Begin, TypeOK, crashes, worker
<1>5. ASSUME NEW c \in Clients, NEW p \in Profiles, BeginDelete(c, p)
      PROVE  WebEffect
  <2>1. [op |-> "delete", todo |-> {p}] \in Flights
    BY DEF Flights
  <2> QED
    BY <1>0, <1>1, <1>2, <1>5, <2>1 DEF BeginDelete, Begin, TypeOK, crashes, worker
<1>6. ASSUME NEW c \in Clients, BeginSyncAll(c)
      PROVE  WebEffect
  <2> DEFINE listed == {p \in Profiles : Syncable(p)}
  <2>1. [op |-> "sync_all", todo |-> listed] \in Flights
    BY DEF Flights
  <2> QED
    BY <1>0, <1>1, <1>2, <1>6, <2>1
    DEF BeginSyncAll, Begin, TypeOK, crashes, library, worker
<1>7. ASSUME NEW c \in Clients, NEW p \in Profiles, FinishAdd(c, p)
      PROVE  WebEffect
  <2>1. OnlyNewRows
    BY <1>2, <1>7, SyncAddsRow DEF FinishAdd
  <2> QED
    BY <1>0, <1>1, <1>3, <1>7, <2>1 DEF FinishAdd, End, TypeOK, crashes, library, worker
<1>8. ASSUME NEW c \in Clients, NEW p \in Profiles, SyncNext(c, p)
      PROVE  WebEffect
  <2>1. OnlyNewRows
    BY <1>2, <1>8, SyncAddsRow DEF SyncNext
  <2>2. request' \in [Clients -> Flights]
    <3>1. CASE End(c)
      BY <1>0, <1>3, <3>1 DEF End, TypeOK
    <3>2. CASE request' = [request EXCEPT ![c].todo = @ \ {p}]
      BY <1>0, <3>2 DEF TypeOK, Flights
    <3> QED
      BY <1>8, <3>1, <3>2 DEF SyncNext
  <2> QED
    BY <1>0, <1>1, <1>8, <2>1, <2>2 DEF SyncNext, TypeOK, crashes, library, worker
<1>9. ASSUME NEW c \in Clients, NEW p \in Profiles, FinishDelete(c, p)
      PROVE  WebEffect
  <2>1. OnlyNewRows
    BY <1>9, EnqueueAddsRow DEF FinishDelete, Board!JobTypes
  <2> QED
    BY <1>0, <1>1, <1>3, <1>9, <2>1
    DEF FinishDelete, End, TypeOK, crashes, library, worker
<1>10. ASSUME NEW p \in Profiles, SyncProfile(p)
       PROVE  WebEffect
  <2>1. OnlyNewRows
    BY <1>10, SyncAddsRow DEF SyncProfile
  <2> QED
    BY <1>0, <1>1, <1>10, <2>1 DEF SyncProfile, TypeOK, crashes, library, worker
<1>11. ASSUME NEW p \in Profiles, NEW enabled \in BOOLEAN, SetSyncEnabled(p, enabled)
       PROVE  WebEffect
  BY <1>0, <1>1, <1>2, <1>11 DEF SetSyncEnabled, TypeOK, crashes, worker
<1>12. ASSUME NEW kind, NEW type \in Board!JobTypes \ AboutProfiles, Submit(kind, type)
       PROVE  WebEffect
  <2>1. OnlyNewRows
    BY <1>12, EnqueueAddsRow DEF Submit
  <2> QED
    BY <1>0, <1>1, <1>12, <2>1 DEF Submit, TypeOK, crashes, library, worker
<1>13. AddMedia \/ DeleteMedia \/ DiscoverFollowees => WebEffect
  BY <1>12 DEF AddMedia, DeleteMedia, DiscoverFollowees, Board!JobTypes, AboutProfiles
<1>14. ASSUME NEW chosen \in Selections, ImportFollowees(chosen)
       PROVE  WebEffect
  <2>1. OnlyNewRows
    BY <1>14, ImportAddsRows
  <2>2. /\ status' \in [Profiles -> Statuses]
        /\ tracked' \in [Profiles -> BOOLEAN]
    BY <1>0, <1>14 DEF ImportFollowees, TypeOK
  <2> QED
    BY <1>0, <1>1, <1>14, <2>1, <2>2 DEF ImportFollowees, TypeOK, crashes, worker
<1>15. ASSUME WebCrash
       PROVE  WebEffect
  BY <1>0, <1>1, <1>2, <1>3, <1>15 DEF WebCrash, TypeOK, library, worker
<1>16. ASSUME UpdateInterval
       PROVE  WebEffect
  BY <1>0, <1>1, <1>2, <1>16 DEF UpdateInterval, TypeOK, library, crashes
<1> QED
  BY <1>4, <1>5, <1>6, <1>7, <1>8, <1>9, <1>10, <1>11, <1>13, <1>14, <1>15, <1>16
  DEF WebStep, Arrive, Answer

(* The worker starts, schedules, and claims. *)
LEMMA LoopTypeInv ==
    ASSUME TypeInv,
           \/ Recover \/ ClaimDueSync \/ Sleep
           \/ \E p \in Profiles : EnqueueScheduled(p)
           \/ \E i \in DOMAIN jobs : Claim(i)
    PROVE  TypeInv'
<1>0. TypeOK /\ RunningIsHeld /\ OutcomeFits /\ TargetFits
  BY DEF TypeInv
<1>1. CASE Recover
  <2>1. /\ jobs' \in Seq(Board!Row) /\ DOMAIN jobs' = DOMAIN jobs
        /\ \A i \in DOMAIN jobs :
              /\ jobs'[i].state # "running"
              /\ jobs'[i].type = jobs[i].type
              /\ jobs'[i].target = jobs[i].target
    <3>0. \A i \in DOMAIN jobs : jobs[i] \in Board!Row
      BY <1>0 DEF TypeOK
    <3>1. \A row \in Board!Row : [row EXCEPT !.state = "pending"] \in Board!Row
      BY DEF Board!Row, Board!JobStates
    <3>2. \A i \in DOMAIN jobs : jobs'[i] \in Board!Row
      BY <1>0, <1>1, <3>0, <3>1 DEF TypeOK, Recover
    <3>3. DOMAIN jobs' = 1..Len(jobs)
      BY <1>0, <1>1 DEF TypeOK, Recover
    <3>4. jobs' \in Seq(Board!Row)
      BY <1>0, <1>1, <3>2, <3>3, IsASeq DEF TypeOK, Recover
    <3> QED
      BY <1>0, <1>1, <3>3, <3>4 DEF TypeOK, Recover, Board!Row
  <2>2. TypeOK'
    BY <1>0, <1>1, <2>1
    DEF TypeOK, Recover, GoTo, WorkerStates, library, crashes
  <2>3. RunningIsHeld'
    BY <1>0, <1>1, <2>1 DEF RunningIsHeld, HasJob, Recover, GoTo
  <2>4. OutcomeFits' /\ TargetFits'
    BY <1>0, <1>1, <2>1 DEF OutcomeFits, TargetFits, Recover, GoTo
  <2> QED
    BY <2>2, <2>3, <2>4 DEF TypeInv
<1>2. CASE ClaimDueSync
  <2>1. TypeOK'
    BY <1>0, <1>2 DEF TypeOK, Schedule, ClaimDueSync, GoTo, WorkerStates, library, crashes
  <2> QED
    BY <1>0, <1>2, <2>1
    DEF TypeInv, RunningIsHeld, HasJob, OutcomeFits, TargetFits, ClaimDueSync, GoTo
<1>3. CASE Sleep
  <2>1. TypeOK'
    BY <1>0, <1>3 DEF TypeOK, Sleep, GoTo, WorkerStates, library, crashes
  <2> QED
    BY <1>0, <1>3, <2>1
    DEF TypeInv, RunningIsHeld, HasJob, OutcomeFits, TargetFits, Sleep, GoTo
<1>4. ASSUME NEW p \in Profiles, EnqueueScheduled(p)
      PROVE  TypeInv'
  <2>1. OnlyNewRows
    BY <1>4, SyncAddsRow DEF EnqueueScheduled
  <2>2. TypeOK'
    BY <1>0, <1>4, <2>1
    DEF TypeOK, OnlyNewRows, EnqueueScheduled, GoTo, WorkerStates, library, crashes
  <2> QED
    BY <1>4, <2>1, <2>2, NewRowsKeepHold DEF TypeInv, EnqueueScheduled, GoTo
<1>5. ASSUME NEW i \in DOMAIN jobs, Claim(i)
      PROVE  TypeInv'
  <2>1. /\ jobs' \in Seq(Board!Row) /\ DOMAIN jobs' = DOMAIN jobs
        /\ jobs'[i] = [jobs[i] EXCEPT !.state = "running"]
        /\ \A k \in DOMAIN jobs \ {i} : jobs'[k] = jobs[k]
    <3>0. jobs[i] \in Board!Row
      BY <1>0 DEF TypeOK
    <3>1. [jobs[i] EXCEPT !.state = "running"] \in Board!Row
      BY <3>0 DEF Board!Row, Board!JobStates
    <3> QED
      BY <1>0, <1>5, <3>1, ExceptSeq DEF TypeOK, Claim
  <2>2. TypeOK'
    BY <1>0, <1>5, <2>1 DEF TypeOK, Claim, GoTo, WorkerStates, library, crashes
  <2>3. jobs[i] \in Board!Row
    BY <1>0 DEF TypeOK
  <2>4. RunningIsHeld'
    BY <1>0, <1>5, <2>1, <2>3 DEF TypeOK, RunningIsHeld, HasJob, Claim, GoTo, Board!Row
  <2>5. OutcomeFits'
    BY <1>0, <1>5 DEF OutcomeFits, Claim, GoTo
  <2>6. TargetFits'
    BY <1>0, <2>1, <2>3 DEF TargetFits, Board!Row
  <2> QED
    BY <2>2, <2>4, <2>5, <2>6 DEF TypeInv
<1> QED
  BY <1>1, <1>2, <1>3, <1>4, <1>5

(* The worker runs its job. *)
LEMMA RunTypeInv ==
    ASSUME TypeInv, RunJob \/ ActivateCooldown \/ RecordFailure \/ FailToRecord
    PROVE  TypeInv' /\ UNCHANGED jobs
<1> USE DEF Statuses, LiveStatuses
<1>0. TypeOK /\ RunningIsHeld /\ OutcomeFits /\ TargetFits
  BY DEF TypeInv
<1> DEFINE Rest == /\ status' \in [Profiles -> Statuses]
                   /\ tracked' \in [Profiles -> BOOLEAN]
                   /\ cooling' \in BOOLEAN
                   /\ todo' \in SUBSET Profiles
                   /\ unrecorded' \in SUBSET Profiles
                   /\ UNCHANGED <<jobs, nextSync, current, request, crashes>>
<1>1. ASSUME Rest, HasJob, pc' \in {"run", "owner", "cool", "record", "finish"},
             outcome' \in Outcomes, OutcomeFits'
      PROVE  TypeInv' /\ UNCHANGED jobs
  <2>1. TypeOK'
    BY <1>0, <1>1 DEF TypeOK, WorkerStates, crashes
  <2> QED
    BY <1>0, <1>1, <2>1 DEF TypeInv, RunningIsHeld, HasJob, TargetFits
<1>2. ASSUME NEW result \in {"succeeded", "completed_with_warnings", "failed",
                             "rate_limited"},
             EndsWith(result), Rest, HasJob
      PROVE  TypeInv' /\ UNCHANGED jobs
  <2>1. /\ pc' \in {"cool", "record", "finish"} /\ outcome' = result
        /\ pc' = "record" => result = "failed"
        /\ pc' = "finish" => result \in {"succeeded", "completed_with_warnings"}
    BY <1>2 DEF EndsWith, GoTo
  <2> QED
    BY <1>1, <1>2, <2>1 DEF OutcomeFits, Outcomes, Board!EndStates
<1>3. CASE RunProfileSync
  BY <1>0, <1>2, <1>3
  DEF RunProfileSync, Runs, HasJob, TypeOK, library, crashes
<1>4. CASE RunSingleMedia
  BY <1>0, <1>2, <1>4
  DEF RunSingleMedia, Runs, HasJob, TypeOK, library, crashes
<1>5. CASE RunDeleteMedia
  BY <1>0, <1>2, <1>5
  DEF RunDeleteMedia, Runs, HasJob, TypeOK, library, crashes
<1>6. CASE RunDiscovery
  BY <1>0, <1>2, <1>6
  DEF RunDiscovery, Runs, HasJob, TypeOK, library, crashes
<1>7. CASE RunDeleteProfile
  BY <1>0, <1>2, <1>7 DEF RunDeleteProfile, Runs, HasJob, TypeOK, crashes
<1>8. ASSUME NEW p \in Profiles, MissOwner(p)
      PROVE  TypeInv' /\ UNCHANGED jobs
  BY <1>0, <1>1, <1>8
  DEF MissOwner, Runs, HasJob, GoTo, TypeOK, OutcomeFits, library, crashes
<1>9. ASSUME NEW p \in Profiles, StubOwner(p)
      PROVE  TypeInv' /\ UNCHANGED jobs
  BY <1>0, <1>2, <1>9
  DEF StubOwner, UpsertProfileStub, HasJob, TypeOK, crashes
<1>10. CASE ActivateCooldown
  BY <1>0, <1>1, <1>10
  DEF ActivateCooldown, HasJob, GoTo, TypeOK, OutcomeFits, Outcomes,
      Board!EndStates, library, crashes
<1>11. CASE RecordFailure
  BY <1>0, <1>1, <1>11
  DEF RecordFailure, HasJob, GoTo, TypeOK, OutcomeFits, Board!EndStates, crashes
<1>12. CASE FailToRecord
  <2>1. Target \in Profiles
    BY <1>0, <1>12
    DEF FailToRecord, Target, RunningIsHeld, HasJob, TargetFits, AboutProfiles
  <2>2. Rest
    BY <1>0, <1>12, <2>1 DEF FailToRecord, TypeOK
  <2> QED
    BY <1>0, <1>1, <1>12, <2>2
    DEF FailToRecord, HasJob, GoTo, TypeOK, OutcomeFits, Board!EndStates
<1> QED
  BY <1>3, <1>4, <1>5, <1>6, <1>7, <1>8, <1>9, <1>10, <1>11, <1>12 DEF RunJob

(* The job ends. *)
LEMMA FinishTypeInv ==
    ASSUME TypeInv, FinishJob
    PROVE  /\ TypeInv'
           /\ jobs[current].state = "running"
           /\ current \in DOMAIN jobs
           /\ outcome \in Board!EndStates
           /\ DOMAIN jobs' = DOMAIN jobs
           /\ jobs'[current] = [jobs[current] EXCEPT !.state = outcome]
           /\ \A k \in DOMAIN jobs \ {current} : jobs'[k] = jobs[k]
<1>0. TypeOK /\ RunningIsHeld /\ OutcomeFits /\ TargetFits
  BY DEF TypeInv
<1>1. /\ current \in DOMAIN jobs /\ jobs[current].state = "running"
      /\ outcome \in Board!EndStates
  BY <1>0 DEF FinishJob, RunningIsHeld, HasJob, OutcomeFits
<1>2. jobs[current] \in Board!Row
  BY <1>0, <1>1 DEF TypeOK
<1>3. [jobs[current] EXCEPT !.state = outcome] \in Board!Row
  BY <1>1, <1>2 DEF Board!Row, Board!JobStates
<1>4. /\ jobs' \in Seq(Board!Row) /\ DOMAIN jobs' = DOMAIN jobs
      /\ jobs'[current] = [jobs[current] EXCEPT !.state = outcome]
      /\ \A k \in DOMAIN jobs \ {current} : jobs'[k] = jobs[k]
  BY <1>0, <1>1, <1>3, ExceptSeq DEF TypeOK, FinishJob
<1>5. TypeOK'
  BY <1>0, <1>4 DEF TypeOK, FinishJob, GoTo, WorkerStates, Outcomes, library, crashes
<1>6. RunningIsHeld'
  BY <1>0, <1>1, <1>2, <1>4
  DEF RunningIsHeld, HasJob, FinishJob, GoTo, Board!Row, Board!EndStates
<1>7. OutcomeFits'
  BY DEF OutcomeFits, FinishJob, GoTo
<1>8. TargetFits'
  BY <1>0, <1>2, <1>4 DEF TargetFits, Board!Row
<1> QED
  BY <1>1, <1>4, <1>5, <1>6, <1>7, <1>8 DEF TypeInv

(* The worker dies, and time passes. *)
LEMMA OtherTypeInv ==
    ASSUME TypeInv, WorkerCrash \/ ScheduleFallsDue \/ CooldownEnds
    PROVE  TypeInv'
<1>0. TypeOK /\ RunningIsHeld /\ OutcomeFits /\ TargetFits
  BY DEF TypeInv
<1>1. CASE WorkerCrash
  <2>1. TypeOK'
    BY <1>0, <1>1
    DEF TypeOK, WorkerCrash, GoTo, WorkerStates, Outcomes, library, crashes
  <2> QED
    BY <1>0, <1>1, <2>1
    DEF TypeInv, RunningIsHeld, HasJob, OutcomeFits, TargetFits, WorkerCrash, GoTo
<1>2. CASE ScheduleFallsDue
  BY <1>0, <1>2
  DEF TypeInv, TypeOK, RunningIsHeld, HasJob, OutcomeFits, TargetFits,
      ScheduleFallsDue, Schedule, library, worker, crashes
<1>3. CASE CooldownEnds
  BY <1>0, <1>3
  DEF TypeInv, TypeOK, RunningIsHeld, HasJob, OutcomeFits, TargetFits,
      CooldownEnds, library, worker, crashes
<1> QED
  BY <1>1, <1>2, <1>3

LEMMA NextTypeInv == TypeInv /\ [Next]_vars => TypeInv'
<1> SUFFICES ASSUME TypeInv, [Next]_vars PROVE TypeInv'
  OBVIOUS
<1>1. CASE UNCHANGED vars
  BY <1>1
  DEF TypeInv, TypeOK, RunningIsHeld, HasJob, OutcomeFits, TargetFits,
      vars, library, worker, crashes
<1>2. CASE Next
  BY <1>2, WebStepTypeInv, LoopTypeInv, RunTypeInv, FinishTypeInv, OtherTypeInv
  DEF Next, WorkerStep, WebEffect
<1> QED
  BY <1>1, <1>2

LEMMA TypeInvHolds == Spec => []TypeInv
  BY InitTypeInv, NextTypeInv, PTL DEF Spec

(* The variables keep their types. *)
THEOREM TypeCorrect == Spec => []TypeOK
<1>1. TypeInv => TypeOK
  BY DEF TypeInv
<1> QED
  BY <1>1, TypeInvHolds, PTL

(* A running row is the one the worker holds, unless the worker is down:   *)
(* claims, crashes and recoveries leave no row running for nobody.         *)
THEOREM WorkerHoldsRunningRow == Spec => []RunningIsHeld
<1>1. TypeInv => RunningIsHeld
  BY DEF TypeInv
<1> QED
  BY <1>1, TypeInvHolds, PTL

-----------------------------------------------------------------------------
(* The promises of the table.                                              *)

(* Work is only ever queued for profiles that exist or existed: neither a  *)
(* row, nor the schedule's list, nor a request to delete names a profile   *)
(* that an import may still create.                                        *)
Born(p) == status[p] # "unborn"

NamesBorn ==
    /\ \A i \in DOMAIN jobs : jobs[i].type \in AboutProfiles => Born(jobs[i].target)
    /\ pc = "enqueue" => \A p \in todo : Born(p)
    /\ \A c \in Clients : request[c].op = "delete" => \A p \in request[c].todo : Born(p)

(* One synchronization per profile is inductive only with NamesBorn: an    *)
(* import adds rows without looking for an active one.                     *)
BoardInv == TypeInv /\ NamesBorn /\ OneActiveSync /\ Board!OneRunning

(* A profile is born once, and once erased it stays erased. *)
StatusMoves ==
    \A p \in Profiles :
        /\ Born(p) => status'[p] # "unborn"
        /\ status[p] = "gone" => status'[p] = "gone"

LEMMA StatusStep ==
    ASSUME TypeInv, [Next]_vars
    PROVE  StatusMoves
<1> USE DEF StatusMoves, Born, Live, LiveStatuses
<1>0. TypeOK /\ TargetFits
  BY DEF TypeInv
<1>1. ASSUME UNCHANGED status PROVE StatusMoves
  BY <1>1
<1>2. ASSUME NEW p \in Profiles, NEW track \in BOOLEAN, UpsertProfileStub(p, track)
      PROVE  StatusMoves
  BY <1>0, <1>2 DEF UpsertProfileStub, TypeOK
<1>3. ASSUME NEW c \in Clients, NEW p \in Profiles, BeginDelete(c, p)
      PROVE  StatusMoves
  BY <1>0, <1>3 DEF BeginDelete, TypeOK
<1>4. ASSUME NEW chosen \in Selections, ImportFollowees(chosen)
      PROVE  StatusMoves
  <2> DEFINE new == {chosen[k] : k \in DOMAIN chosen}
  <2>1. \A p \in new : status[p] = "unborn"
    BY DEF Selections
  <2>2. \A p \in Profiles : status'[p] = IF p \in new THEN "active" ELSE status[p]
    BY <1>4 DEF ImportFollowees
  <2> HIDE DEF new
  <2> QED
    BY <2>1, <2>2
<1>5. CASE RunDeleteProfile
  BY <1>0, <1>5 DEF RunDeleteProfile, TypeOK
<1>6. CASE RecordFailure
  BY <1>0, <1>6 DEF RecordFailure, TypeOK
<1>7. CASE WebStep
  <2>1. \A c \in Clients, p \in Profiles : BeginAdd(c, p) => StatusMoves
    BY <1>2 DEF BeginAdd
  <2>2. \A c \in Clients, p \in Profiles :
           FinishAdd(c, p) \/ SyncNext(c, p) \/ FinishDelete(c, p) => UNCHANGED status
    BY DEF FinishAdd, SyncNext, FinishDelete, library
  <2>3. \A c \in Clients : BeginSyncAll(c) => UNCHANGED status
    BY DEF BeginSyncAll, library
  <2>4. \A p \in Profiles : SyncProfile(p) => UNCHANGED status
    BY DEF SyncProfile, library
  <2>5. \A p \in Profiles, enabled \in BOOLEAN :
           SetSyncEnabled(p, enabled) => UNCHANGED status
    BY DEF SetSyncEnabled
  <2>6. AddMedia \/ DeleteMedia \/ DiscoverFollowees \/ UpdateInterval \/ WebCrash
           => UNCHANGED status
    BY DEF AddMedia, DeleteMedia, DiscoverFollowees, Submit, UpdateInterval, WebCrash,
       library
  <2> QED
    BY <1>1, <1>3, <1>4, <1>7, <2>1, <2>2, <2>3, <2>4, <2>5, <2>6
    DEF WebStep, Arrive, Answer
<1>8. CASE WorkerStep
  <2>1. \A p \in Profiles : StubOwner(p) => StatusMoves
    BY <1>2 DEF StubOwner
  <2>2. \A p \in Profiles : MissOwner(p) \/ EnqueueScheduled(p) => UNCHANGED status
    BY DEF MissOwner, EnqueueScheduled, library
  <2>3. \A i \in DOMAIN jobs : Claim(i) => UNCHANGED status
    BY DEF Claim, library
  <2>4. Recover \/ ClaimDueSync \/ Sleep \/ ActivateCooldown \/ FailToRecord \/ FinishJob
            => UNCHANGED status
    BY DEF Recover, ClaimDueSync, Sleep, ActivateCooldown, FailToRecord, FinishJob, library
  <2>5. RunProfileSync \/ RunSingleMedia \/ RunDeleteMedia \/ RunDiscovery
            => UNCHANGED status
    BY DEF RunProfileSync, RunSingleMedia, RunDeleteMedia, RunDiscovery, library
  <2> QED
    BY <1>1, <1>5, <1>6, <1>8, <2>1, <2>2, <2>3, <2>4, <2>5 DEF WorkerStep, RunJob
<1>9. CASE WorkerCrash \/ ScheduleFallsDue \/ CooldownEnds \/ UNCHANGED vars
  BY <1>1, <1>9 DEF WorkerCrash, ScheduleFallsDue, CooldownEnds, vars, library
<1> QED
  BY <1>7, <1>8, <1>9 DEF Next

-----------------------------------------------------------------------------

(* What adding rows has to respect. *)
FreshRows ==
    /\ OnlyNewRows
    /\ OneActiveSync'
    /\ \A i \in DOMAIN jobs' \ DOMAIN jobs :
          jobs'[i].type \in AboutProfiles => status'[jobs'[i].target] # "unborn"

(* A synchronization joins the active one of its profile. *)
LEMMA SyncIsFresh ==
    ASSUME BoardInv, StatusMoves, NEW p \in Profiles, Born(p), EnqueueProfileSync(p)
    PROVE  FreshRows
<1>1. OnlyNewRows
  BY SyncAddsRow DEF BoardInv
<1>2. CASE UNCHANGED jobs
  BY <1>1, <1>2 DEF FreshRows, BoardInv, OneActiveSync, Board!OneActiveSync
<1>3. CASE ~ActiveSync(p) /\ Enqueue("profile_sync", p)
  <2> DEFINE row == Board!NewJob("profile_sync", p)
  <2>1. row.type = "profile_sync" /\ row.target = p
    BY DEF Board!NewJob
  <2>2. /\ jobs \in Seq(Board!Row) /\ jobs' = Append(jobs, row)
        /\ DOMAIN jobs = 1..Len(jobs) /\ DOMAIN jobs' = 1..(Len(jobs) + 1)
        /\ jobs'[Len(jobs) + 1] = row
        /\ \A i \in DOMAIN jobs : jobs'[i] = jobs[i]
    BY <1>3 DEF BoardInv, TypeInv, TypeOK, Enqueue
  <2> HIDE DEF row
  <2>3. OneActiveSync'
    BY <1>3, <2>1, <2>2
    DEF BoardInv, OneActiveSync, Board!OneActiveSync, ActiveSync, Board!IsSyncOf
  <2>4. status'[p] # "unborn"
    BY DEF StatusMoves
  <2> QED
    BY <1>1, <2>1, <2>2, <2>3, <2>4 DEF FreshRows
<1> QED
  BY <1>2, <1>3 DEF EnqueueProfileSync

(* Other jobs are no synchronizations. *)
LEMMA OtherIsFresh ==
    ASSUME BoardInv, StatusMoves,
           NEW type \in Board!JobTypes \ {"profile_sync"},
           NEW p \in Profiles \cup {NoProfile},
           type \in AboutProfiles => p \in Profiles /\ Born(p),
           Enqueue(type, p)
    PROVE  FreshRows
<1> DEFINE row == Board!NewJob(type, p)
<1>1. OnlyNewRows
  BY EnqueueAddsRow DEF BoardInv
<1>2. row.type = type /\ row.target = p
  BY DEF Board!NewJob
<1>3. /\ jobs \in Seq(Board!Row) /\ jobs' = Append(jobs, row)
      /\ DOMAIN jobs = 1..Len(jobs) /\ DOMAIN jobs' = 1..(Len(jobs) + 1)
      /\ jobs'[Len(jobs) + 1] = row
      /\ \A i \in DOMAIN jobs : jobs'[i] = jobs[i]
  BY DEF BoardInv, TypeInv, TypeOK, Enqueue
<1> HIDE DEF row
<1>4. OneActiveSync'
  BY <1>2, <1>3 DEF BoardInv, OneActiveSync, Board!OneActiveSync
<1>5. type \in AboutProfiles => status'[p] # "unborn"
  BY DEF StatusMoves
<1> QED
  BY <1>1, <1>2, <1>3, <1>4, <1>5 DEF FreshRows

(* An import only synchronizes profiles nobody could synchronize before. *)
LEMMA ImportIsFresh ==
    ASSUME BoardInv, NEW chosen \in Selections, ImportFollowees(chosen)
    PROVE  FreshRows
<1>1. /\ OnlyNewRows /\ chosen \in Seq(Profiles)
      /\ Len(jobs') = Len(jobs) + Len(chosen)
      /\ \A k \in 1..Len(chosen) :
            /\ jobs'[Len(jobs) + k].type = "profile_sync"
            /\ jobs'[Len(jobs) + k].target = chosen[k]
  BY ImportAddsRows DEF BoardInv
<1>2. /\ jobs \in Seq(Board!Row) /\ jobs' \in Seq(Board!Row)
      /\ DOMAIN jobs = 1..Len(jobs) /\ DOMAIN jobs' = 1..(Len(jobs) + Len(chosen))
      /\ Len(jobs) \in Nat /\ Len(chosen) \in Nat /\ DOMAIN chosen = 1..Len(chosen)
      /\ \A i \in DOMAIN jobs : jobs'[i] = jobs[i]
  BY <1>1 DEF BoardInv, TypeInv, TypeOK, OnlyNewRows
<1>3. \A i \in DOMAIN jobs' \ DOMAIN jobs :
         /\ i - Len(jobs) \in 1..Len(chosen)
         /\ jobs'[i].type = "profile_sync"
         /\ jobs'[i].target = chosen[i - Len(jobs)]
         /\ ~Born(jobs'[i].target)
  <2> TAKE i \in DOMAIN jobs' \ DOMAIN jobs
  <2>1. i - Len(jobs) \in 1..Len(chosen) /\ i = Len(jobs) + (i - Len(jobs))
    BY <1>2
  <2>2. ~Born(chosen[i - Len(jobs)])
    BY <1>2, <2>1 DEF Selections, Born
  <2> QED
    BY <1>1, <2>1, <2>2
<1>4. \A i, j \in DOMAIN jobs' \ DOMAIN jobs :
         jobs'[i].target = jobs'[j].target => i = j
  <2> TAKE i, j \in DOMAIN jobs' \ DOMAIN jobs
  <2> DEFINE k == i - Len(jobs)
             l == j - Len(jobs)
  <2>1. k \in DOMAIN chosen /\ l \in DOMAIN chosen /\ i \in Int /\ j \in Int
    BY <1>2, <1>3
  <2>2. chosen[k] = chosen[l] => k = l
    BY <2>1 DEF Selections
  <2>3. jobs'[i].target = chosen[k] /\ jobs'[j].target = chosen[l]
    BY <1>3
  <2>4. k = l => i = j
    BY <2>1, <1>2
  <2> QED
    BY <2>2, <2>3, <2>4
<1>5. \A i \in DOMAIN jobs : jobs[i].type = "profile_sync" => Born(jobs[i].target)
  BY DEF BoardInv, NamesBorn, AboutProfiles
<1>6. OneActiveSync'
  BY <1>2, <1>3, <1>4, <1>5 DEF BoardInv, OneActiveSync, Board!OneActiveSync
<1>7. \A i \in DOMAIN jobs' \ DOMAIN jobs : status'[jobs'[i].target] # "unborn"
  BY <1>1, <1>2, <1>3 DEF ImportFollowees
<1> QED
  BY <1>1, <1>6, <1>7 DEF FreshRows

(* Adding fresh rows is a submission to the board. *)
LEMMA FreshRowsKeepBoard ==
    ASSUME BoardInv, StatusMoves, FreshRows
    PROVE  /\ Board!Submit
           /\ OneActiveSync' /\ Board!OneRunning'
           /\ \A i \in DOMAIN jobs' :
                 jobs'[i].type \in AboutProfiles => status'[jobs'[i].target] # "unborn"
<1>1. /\ jobs \in Seq(Board!Row) /\ jobs' \in Seq(Board!Row)
      /\ Len(jobs') >= Len(jobs)
      /\ \A i \in DOMAIN jobs : jobs'[i] = jobs[i] /\ i \in DOMAIN jobs'
      /\ \A i \in DOMAIN jobs' \ DOMAIN jobs : jobs'[i].state = "pending"
  BY DEF BoardInv, TypeInv, TypeOK, FreshRows, OnlyNewRows
<1>2. Board!Submit
  BY <1>1 DEF Board!Submit, FreshRows, OneActiveSync
<1>3. Board!OneRunning'
  BY <1>1 DEF BoardInv, Board!OneRunning
<1>4. \A i \in DOMAIN jobs :
         jobs[i].type \in AboutProfiles => status'[jobs[i].target] # "unborn"
  BY DEF BoardInv, TypeInv, TargetFits, NamesBorn, StatusMoves
<1> QED
  BY <1>1, <1>2, <1>3, <1>4 DEF FreshRows

(* A row that starts, ends or is interrupted keeps its profile and does    *)
(* not come back to life.                                                  *)
RowsMove ==
    /\ DOMAIN jobs' = DOMAIN jobs
    /\ \A i \in DOMAIN jobs :
          /\ jobs'[i].type = jobs[i].type
          /\ jobs'[i].target = jobs[i].target
          /\ Board!Unfinished(jobs[i])' => Board!Unfinished(jobs[i])

LEMMA RowsMoveKeepBoard ==
    ASSUME BoardInv, StatusMoves, RowsMove
    PROVE  /\ OneActiveSync'
           /\ \A i \in DOMAIN jobs' :
                 jobs'[i].type \in AboutProfiles => status'[jobs'[i].target] # "unborn"
<1>1. OneActiveSync'
  BY DEF BoardInv, RowsMove, OneActiveSync, Board!OneActiveSync
<1>2. \A i \in DOMAIN jobs' :
         jobs'[i].type \in AboutProfiles => status'[jobs'[i].target] # "unborn"
  BY DEF BoardInv, RowsMove, TypeInv, TargetFits, NamesBorn, StatusMoves
<1> QED
  BY <1>1, <1>2

(* What each step is on the board. *)
BoardStep ==
    /\ [Board!Next]_jobs
    /\ OneActiveSync' /\ Board!OneRunning'
    /\ \A i \in DOMAIN jobs' :
          jobs'[i].type \in AboutProfiles => status'[jobs'[i].target] # "unborn"

LEMMA FreshRowsStep ==
    ASSUME BoardInv, StatusMoves, FreshRows
    PROVE  BoardStep
  BY FreshRowsKeepBoard DEF BoardStep, Board!Next

LEMMA SameRowsStep ==
    ASSUME BoardInv, StatusMoves, UNCHANGED jobs
    PROVE  BoardStep
<1>1. RowsMove
  BY DEF RowsMove
<1>2. Board!OneRunning'
  BY DEF BoardInv, Board!OneRunning
<1> QED
  BY <1>1, <1>2, RowsMoveKeepBoard DEF BoardStep

LEMMA WebBoardStep ==
    ASSUME BoardInv, StatusMoves, WebStep
    PROVE  BoardStep /\ NamesBorn'
<1> USE DEF Born
<1>0. TypeOK /\ NamesBorn
  BY DEF BoardInv, TypeInv
<1> DEFINE Deletions == \A c \in Clients :
                           request'[c].op = "delete"
                               => \A p \in request'[c].todo : status'[p] # "unborn"
<1>1. ASSUME FreshRows, Deletions, UNCHANGED worker
      PROVE  BoardStep /\ NamesBorn'
  <2>1. BoardStep
    BY <1>1, FreshRowsStep
  <2>2. pc' = "enqueue" => \A p \in todo' : status'[p] # "unborn"
    BY <1>0, <1>1 DEF NamesBorn, StatusMoves, worker, TypeOK
  <2> QED
    BY <1>1, <2>1, <2>2 DEF NamesBorn, BoardStep
<1>2. ASSUME UNCHANGED jobs, Deletions, UNCHANGED worker
      PROVE  BoardStep /\ NamesBorn'
  <2>1. BoardStep
    BY <1>2, SameRowsStep
  <2>2. pc' = "enqueue" => \A p \in todo' : status'[p] # "unborn"
    BY <1>0, <1>2 DEF NamesBorn, StatusMoves, worker, TypeOK
  <2> QED
    BY <1>2, <2>1, <2>2 DEF NamesBorn, BoardStep
<1>3. ASSUME UNCHANGED request PROVE Deletions
  BY <1>0, <1>3 DEF NamesBorn, StatusMoves, TypeOK, Flights
<1>4. ASSUME NEW c \in Clients, End(c) PROVE Deletions
  BY <1>0, <1>4 DEF End, Idle, NamesBorn, StatusMoves, TypeOK, Flights
<1>5. ASSUME NEW c \in Clients, NEW op, NEW S \in SUBSET Profiles, Begin(c, op, S),
             op = "delete" => \A p \in S : Born(p)
      PROVE  Deletions
  BY <1>0, <1>5 DEF Begin, NamesBorn, StatusMoves, TypeOK, Flights
<1>6. ASSUME NEW c \in Clients, NEW p \in Profiles, BeginAdd(c, p)
      PROVE  BoardStep /\ NamesBorn'
  BY <1>2, <1>5, <1>6 DEF BeginAdd
<1>7. ASSUME NEW c \in Clients, BeginSyncAll(c)
      PROVE  BoardStep /\ NamesBorn'
  BY <1>2, <1>5, <1>7 DEF BeginSyncAll
<1>8. ASSUME NEW c \in Clients, NEW p \in Profiles, BeginDelete(c, p)
      PROVE  BoardStep /\ NamesBorn'
  BY <1>2, <1>5, <1>8 DEF BeginDelete, Live, LiveStatuses
<1>9. ASSUME NEW p \in Profiles, Syncable(p), EnqueueProfileSync(p)
      PROVE  FreshRows
  BY <1>9, SyncIsFresh DEF Syncable
<1>10. ASSUME NEW c \in Clients, NEW p \in Profiles, FinishAdd(c, p)
       PROVE  BoardStep /\ NamesBorn'
  BY <1>1, <1>2, <1>4, <1>9, <1>10 DEF FinishAdd
<1>11. ASSUME NEW c \in Clients, NEW p \in Profiles, SyncNext(c, p)
       PROVE  BoardStep /\ NamesBorn'
  <2>1. Deletions
    <3>1. CASE End(c)
      BY <1>4, <3>1
    <3>2. CASE request' = [request EXCEPT ![c].todo = @ \ {p}]
      BY <1>0, <1>11, <3>2 DEF SyncNext, NamesBorn, StatusMoves, TypeOK, Flights
    <3> QED
      BY <1>11, <3>1, <3>2 DEF SyncNext
  <2> QED
    BY <1>1, <1>2, <1>9, <1>11, <2>1 DEF SyncNext
<1>12. ASSUME NEW c \in Clients, NEW p \in Profiles, FinishDelete(c, p)
       PROVE  BoardStep /\ NamesBorn'
  <2>1. Born(p)
    BY <1>0, <1>12 DEF FinishDelete, NamesBorn
  <2>2. FreshRows
    BY <1>12, <2>1, OtherIsFresh DEF FinishDelete, Board!JobTypes
  <2> QED
    BY <1>1, <1>4, <1>12, <2>2 DEF FinishDelete
<1>13. ASSUME NEW p \in Profiles, SyncProfile(p)
       PROVE  BoardStep /\ NamesBorn'
  BY <1>1, <1>3, <1>9, <1>13 DEF SyncProfile
<1>14. ASSUME NEW p \in Profiles, NEW enabled \in BOOLEAN, SetSyncEnabled(p, enabled)
       PROVE  BoardStep /\ NamesBorn'
  BY <1>2, <1>3, <1>14 DEF SetSyncEnabled
<1>15. ASSUME NEW kind, NEW type \in Board!JobTypes \ AboutProfiles, Submit(kind, type)
       PROVE  BoardStep /\ NamesBorn'
  <2>1. FreshRows
    BY <1>15, OtherIsFresh DEF Submit, AboutProfiles
  <2> QED
    BY <1>1, <1>3, <1>15, <2>1 DEF Submit
<1>16. AddMedia \/ DeleteMedia \/ DiscoverFollowees => BoardStep /\ NamesBorn'
  BY <1>15 DEF AddMedia, DeleteMedia, DiscoverFollowees, Board!JobTypes, AboutProfiles
<1>17. ASSUME NEW chosen \in Selections, ImportFollowees(chosen)
       PROVE  BoardStep /\ NamesBorn'
  BY <1>1, <1>3, <1>17, ImportIsFresh DEF ImportFollowees
<1>18. ASSUME WebCrash
       PROVE  BoardStep /\ NamesBorn'
  BY <1>2, <1>18 DEF WebCrash, Idle
<1>19. ASSUME UpdateInterval
       PROVE  BoardStep /\ NamesBorn'
  BY <1>2, <1>3, <1>19 DEF UpdateInterval
<1> QED
  BY <1>6, <1>7, <1>8, <1>10, <1>11, <1>12, <1>13, <1>14, <1>16, <1>17, <1>18, <1>19
  DEF WebStep, Arrive, Answer

(* The recovery interrupts the one row that was running, if any. *)
LEMMA RecoverBoardStep ==
    ASSUME BoardInv, StatusMoves, Recover
    PROVE  BoardStep
<1>0. jobs \in Seq(Board!Row) /\ \A i \in DOMAIN jobs : jobs[i] \in Board!Row
  BY DEF BoardInv, TypeInv, TypeOK
<1>1. /\ DOMAIN jobs' = DOMAIN jobs
      /\ \A i \in DOMAIN jobs :
            jobs'[i] = IF jobs[i].state = "running"
                       THEN [jobs[i] EXCEPT !.state = "pending"] ELSE jobs[i]
  BY DEF Recover
<1>2. RowsMove
  BY <1>0, <1>1 DEF RowsMove, Board!Row, Board!Unfinished
<1>3. Board!OneRunning'
  BY <1>0, <1>1 DEF Board!OneRunning, Board!Row
<1>4. [Board!Next]_jobs
  <2>1. CASE \A i \in DOMAIN jobs : jobs[i].state # "running"
    <3>1. jobs' = jobs
      BY <1>0, <2>1 DEF Recover
    <3> QED
      BY <3>1
  <2>2. ASSUME NEW i \in DOMAIN jobs, jobs[i].state = "running"
        PROVE  [Board!Next]_jobs
    <3>1. \A k \in DOMAIN jobs \ {i} : jobs[k].state # "running"
      BY <2>2 DEF BoardInv, Board!OneRunning
    <3>2. jobs' = [jobs EXCEPT ![i].state = "pending"]
      BY <1>0, <2>2, <3>1 DEF Recover
    <3> QED
      BY <2>2, <3>2 DEF Board!Next, Board!Interrupt
  <2> QED
    BY <2>1, <2>2
<1> QED
  BY <1>2, <1>3, <1>4, RowsMoveKeepBoard DEF BoardStep

(* A claim finds no row running. *)
LEMMA ClaimBoardStep ==
    ASSUME BoardInv, StatusMoves, NEW i \in DOMAIN jobs, Claim(i)
    PROVE  BoardStep
<1>0. jobs \in Seq(Board!Row) /\ \A k \in DOMAIN jobs : jobs[k] \in Board!Row
  BY DEF BoardInv, TypeInv, TypeOK
<1>1. jobs[i].state = "pending" /\ jobs' = [jobs EXCEPT ![i].state = "running"]
  BY DEF Claim, Eligible
<1>2. \A k \in DOMAIN jobs : jobs[k].state # "running"
  BY <1>0 DEF BoardInv, TypeInv, RunningIsHeld, HasJob, Claim
<1>3. RowsMove
  BY <1>0, <1>1 DEF RowsMove, Board!Row, Board!Unfinished
<1>4. Board!OneRunning'
  BY <1>0, <1>1, <1>2 DEF Board!OneRunning
<1>5. Board!Next
  BY <1>1, <1>2 DEF Board!Next, Board!Start
<1> QED
  BY <1>3, <1>4, <1>5, RowsMoveKeepBoard DEF BoardStep

LEMMA FinishBoardStep ==
    ASSUME BoardInv, StatusMoves, FinishJob
    PROVE  BoardStep
<1>0. jobs \in Seq(Board!Row) /\ \A k \in DOMAIN jobs : jobs[k] \in Board!Row
  BY DEF BoardInv, TypeInv, TypeOK
<1>1. /\ current \in DOMAIN jobs /\ jobs[current].state = "running"
      /\ outcome \in Board!EndStates
      /\ jobs' = [jobs EXCEPT ![current].state = outcome]
  BY FinishTypeInv DEF BoardInv, FinishJob
<1>2. RowsMove
  BY <1>0, <1>1 DEF RowsMove, Board!Row, Board!Unfinished, Board!EndStates
<1>3. Board!OneRunning'
  BY <1>0, <1>1 DEF BoardInv, Board!OneRunning, Board!EndStates
<1>4. Board!Next
  BY <1>1 DEF Board!Next, Board!Finish
<1> QED
  BY <1>2, <1>3, <1>4, RowsMoveKeepBoard DEF BoardStep

LEMMA WorkerBoardStep ==
    ASSUME BoardInv, StatusMoves, WorkerStep
    PROVE  BoardStep /\ NamesBorn'
<1> USE DEF Born
<1>0. TypeOK /\ NamesBorn
  BY DEF BoardInv, TypeInv
<1>1. ASSUME BoardStep, UNCHANGED request,
             pc' = "enqueue" => \A p \in todo' : status'[p] # "unborn"
      PROVE  BoardStep /\ NamesBorn'
  <2>1. \A c \in Clients : request[c].op = "delete"
                           => \A p \in request[c].todo : status'[p] # "unborn"
    BY <1>0 DEF NamesBorn, StatusMoves, TypeOK, Flights
  <2> QED
    BY <1>1, <2>1 DEF NamesBorn, BoardStep
<1>2. CASE Recover
  BY <1>1, <1>2, RecoverBoardStep DEF Recover, GoTo
<1>3. CASE ClaimDueSync
  BY <1>1, <1>3, SameRowsStep DEF ClaimDueSync, GoTo, Syncable, library
<1>4. CASE Sleep
  BY <1>1, <1>4, SameRowsStep DEF Sleep, GoTo
<1>5. ASSUME NEW p \in Profiles, EnqueueScheduled(p)
      PROVE  BoardStep /\ NamesBorn'
  <2>1. Born(p)
    BY <1>0, <1>5 DEF EnqueueScheduled, NamesBorn
  <2>2. BoardStep
    BY <1>5, <2>1, SyncIsFresh, FreshRowsStep DEF EnqueueScheduled
  <2> QED
    BY <1>0, <1>1, <1>5, <2>2 DEF EnqueueScheduled, NamesBorn, library
<1>6. ASSUME NEW i \in DOMAIN jobs, Claim(i)
      PROVE  BoardStep /\ NamesBorn'
  BY <1>1, <1>6, ClaimBoardStep DEF Claim, GoTo
<1>7. CASE RunJob \/ ActivateCooldown \/ RecordFailure \/ FailToRecord
  <2>1. BoardStep
    BY <1>7, RunTypeInv, SameRowsStep DEF BoardInv
  <2>2. \A result \in {"succeeded", "completed_with_warnings", "failed",
                       "rate_limited"} : EndsWith(result) => pc' # "enqueue"
    BY DEF EndsWith, GoTo
  <2>3. pc' # "enqueue" /\ UNCHANGED request
    <3>1. RunProfileSync \/ RunSingleMedia \/ RunDeleteMedia \/ RunDiscovery
              \/ RunDeleteProfile => pc' # "enqueue" /\ UNCHANGED request
      BY <2>2
      DEF RunProfileSync, RunSingleMedia, RunDeleteMedia, RunDiscovery, RunDeleteProfile
    <3>2. \A p \in Profiles : MissOwner(p) \/ StubOwner(p)
              => pc' # "enqueue" /\ UNCHANGED request
      BY <2>2 DEF MissOwner, StubOwner, GoTo
    <3>3. ActivateCooldown \/ RecordFailure \/ FailToRecord
              => pc' # "enqueue" /\ UNCHANGED request
      BY DEF ActivateCooldown, RecordFailure, FailToRecord, GoTo
    <3> QED
      BY <1>7, <3>1, <3>2, <3>3 DEF RunJob
  <2> QED
    BY <1>1, <2>1, <2>3
<1>8. CASE FinishJob
  BY <1>1, <1>8, FinishBoardStep DEF FinishJob, GoTo
<1> QED
  BY <1>2, <1>3, <1>4, <1>5, <1>6, <1>7, <1>8 DEF WorkerStep

LEMMA OtherBoardStep ==
    ASSUME BoardInv, StatusMoves,
           WorkerCrash \/ ScheduleFallsDue \/ CooldownEnds \/ UNCHANGED vars
    PROVE  BoardStep /\ NamesBorn'
<1>1. BoardStep
  BY SameRowsStep DEF WorkerCrash, ScheduleFallsDue, CooldownEnds, vars
<1>2. NamesBorn'
  BY DEF BoardInv, NamesBorn, Born, WorkerCrash, ScheduleFallsDue, CooldownEnds,
         GoTo, vars, library, worker
<1> QED
  BY <1>1, <1>2

LEMMA InitBoardInv == Init => BoardInv
<1> SUFFICES ASSUME Init PROVE BoardInv
  OBVIOUS
<1>1. NamesBorn /\ OneActiveSync /\ Board!OneRunning
  BY DEF Init, NamesBorn, OneActiveSync, Board!OneActiveSync, Board!OneRunning, Idle
<1> QED
  BY <1>1, InitTypeInv DEF BoardInv

LEMMA NextBoardInv ==
    ASSUME BoardInv, [Next]_vars
    PROVE  BoardInv' /\ [Board!Next]_jobs
<1>1. TypeInv' /\ StatusMoves
  BY NextTypeInv, StatusStep DEF BoardInv
<1>2. BoardStep /\ NamesBorn'
  BY <1>1, WebBoardStep, WorkerBoardStep, OtherBoardStep DEF Next
<1> QED
  BY <1>1, <1>2 DEF BoardInv, BoardStep

(* However requests, the schedule, imports and recoveries meet, a profile  *)
(* has at most one profile_sync job that has not ended.                    *)
THEOREM OneSyncPerProfile == Spec => []OneActiveSync
<1>1. BoardInv => OneActiveSync
  BY DEF BoardInv
<1>2. BoardInv /\ [Next]_vars => BoardInv'
  BY NextBoardInv
<1> QED
  BY <1>1, <1>2, InitBoardInv, PTL DEF Spec

(* The queue implements the board: no row is lost, rows only start, end,   *)
(* wait again or are added, and only one runs.                             *)
THEOREM QueueImplementsBoard == Spec => ImplementsBoard
<1>1. Init => Board!Init
  BY DEF Init, Board!Init
<1>2. BoardInv /\ [Next]_vars => BoardInv' /\ [Board!Next]_jobs
  BY NextBoardInv
<1> QED
  BY <1>1, <1>2, InitBoardInv, PTL DEF Spec, ImplementsBoard, Board!Spec

(* A job that ended stays as it ended. *)
THEOREM EndedStayEnded == Spec => OutcomesStay
<1> DEFINE Stay == \A i \in DOMAIN jobs :
                      jobs[i].state \in Board!EndStates => jobs'[i] = jobs[i]
<1>1. ASSUME BoardInv, [Board!Next]_jobs PROVE Stay
  <2>1. CASE UNCHANGED jobs
    BY <2>1
  <2>2. CASE Board!Submit
    BY <2>2 DEF Board!Submit
  <2>3. ASSUME NEW i \in DOMAIN jobs, NEW result \in Board!JobStates,
               jobs[i].state \notin Board!EndStates,
               jobs' = [jobs EXCEPT ![i].state = result]
        PROVE  Stay
    BY <2>3
  <2> QED
    BY <1>1, <2>1, <2>2, <2>3
    DEF Board!Next, Board!Start, Board!Finish, Board!Interrupt,
        Board!EndStates, Board!JobStates
<1>2. BoardInv /\ [Next]_vars => BoardInv' /\ [Stay]_vars
  BY <1>1, NextBoardInv
<1> QED
  BY <1>2, InitBoardInv, PTL DEF Spec, OutcomesStay

-----------------------------------------------------------------------------
(* Deletion.                                                               *)

(* Between the erasure and the update of its row, a deletion that is going *)
(* to succeed has erased its profile; NamesBorn keeps a deletion from      *)
(* succeeding before its profile exists.                                   *)
ErasedInv ==
    /\ BoardInv
    /\ ErasedWhenDeleted
    /\ pc = "owner" => jobs[current].type = "single_media"
    /\ (pc = "finish" /\ outcome = "succeeded" /\ jobs[current].type = "delete_profile")
           => status[Target] = "gone"

(* Only the end of a job writes "succeeded" to a row. *)
NoneSucceeds ==
    \A i \in DOMAIN jobs' :
        jobs'[i].state = "succeeded" => i \in DOMAIN jobs /\ jobs'[i] = jobs[i]

LEMMA OnlyFinishSucceeds ==
    ASSUME TypeInv, [Next]_vars, ~FinishJob
    PROVE  NoneSucceeds
<1>0. \A i \in DOMAIN jobs : jobs[i] \in Board!Row
  BY DEF TypeInv, TypeOK
<1>1. OnlyNewRows => NoneSucceeds
  BY DEF OnlyNewRows, NoneSucceeds
<1>2. UNCHANGED jobs => NoneSucceeds
  BY DEF NoneSucceeds
<1>3. CASE WebStep
  BY <1>1, <1>3, WebStepTypeInv DEF WebEffect
<1>4. CASE Recover
  BY <1>0, <1>4 DEF Recover, NoneSucceeds, Board!Row
<1>5. ASSUME NEW p \in Profiles, EnqueueScheduled(p) PROVE NoneSucceeds
  BY <1>1, <1>5, SyncAddsRow DEF EnqueueScheduled
<1>6. ASSUME NEW i \in DOMAIN jobs, Claim(i) PROVE NoneSucceeds
  BY <1>0, <1>6 DEF Claim, NoneSucceeds, Board!Row
<1>7. CASE RunJob \/ ActivateCooldown \/ RecordFailure \/ FailToRecord
  BY <1>2, <1>7, RunTypeInv
<1>8. CASE \/ ClaimDueSync \/ Sleep
           \/ WorkerCrash \/ ScheduleFallsDue \/ CooldownEnds \/ UNCHANGED vars
  BY <1>2, <1>8
  DEF ClaimDueSync, Sleep, WorkerCrash, ScheduleFallsDue, CooldownEnds, vars
<1> QED
  BY <1>3, <1>4, <1>5, <1>6, <1>7, <1>8 DEF Next, WorkerStep

LEMMA NextErasedInv ==
    ASSUME ErasedInv, [Next]_vars
    PROVE  ErasedInv'
<1> DEFINE AtOwner == pc = "owner" => jobs[current].type = "single_media"
           AtFinish == (/\ pc = "finish" /\ outcome = "succeeded"
                        /\ jobs[current].type = "delete_profile")
                           => status[Target] = "gone"
<1>0. /\ TypeInv /\ TypeOK /\ TargetFits /\ NamesBorn /\ RunningIsHeld /\ OutcomeFits
      /\ BoardInv' /\ TypeInv' /\ StatusMoves
  BY NextBoardInv, StatusStep DEF ErasedInv, BoardInv, TypeInv
<1>1. \A i \in DOMAIN jobs : jobs[i] \in Board!Row
  BY <1>0 DEF TypeOK
<1>2. ASSUME NoneSucceeds PROVE ErasedWhenDeleted'
  BY <1>0, <1>2
  DEF ErasedInv, ErasedWhenDeleted, NoneSucceeds, TargetFits, AboutProfiles, StatusMoves
<1>3. CASE FinishJob
  <2>1. /\ current \in DOMAIN jobs /\ DOMAIN jobs' = DOMAIN jobs
        /\ jobs'[current] = [jobs[current] EXCEPT !.state = outcome]
        /\ \A k \in DOMAIN jobs \ {current} : jobs'[k] = jobs[k]
    BY <1>0, <1>3, FinishTypeInv
  <2>2. /\ jobs'[current].type = jobs[current].type
        /\ jobs'[current].target = jobs[current].target
        /\ jobs'[current].state = outcome
    BY <1>1, <2>1 DEF Board!Row
  <2>3. ErasedWhenDeleted'
    BY <1>3, <2>1, <2>2 DEF ErasedInv, ErasedWhenDeleted, FinishJob, Target, library
  <2> QED
    BY <1>0, <1>3, <2>3 DEF ErasedInv, FinishJob, GoTo
<1>4. ASSUME ~FinishJob, AtOwner', AtFinish' PROVE ErasedInv'
  BY <1>0, <1>2, <1>4, OnlyFinishSucceeds DEF ErasedInv
<1>5. ASSUME UNCHANGED worker, current # 0 => jobs'[current] = jobs[current]
      PROVE  AtOwner' /\ AtFinish'
  <2>1. HasJob => current # 0 /\ current \in DOMAIN jobs
    BY <1>0 DEF RunningIsHeld
  <2> QED
    BY <1>0, <1>5, <2>1
    DEF ErasedInv, HasJob, Target, worker, TargetFits, AboutProfiles, StatusMoves
<1>6. CASE WebStep
  <2>1. OnlyNewRows /\ UNCHANGED worker
    BY <1>0, <1>6, WebStepTypeInv DEF WebEffect
  <2>2. current # 0 => jobs'[current] = jobs[current]
    BY <1>0, <2>1 DEF OnlyNewRows, RunningIsHeld
  <2>3. ~FinishJob
    BY <2>1 DEF FinishJob, GoTo, worker
  <2> QED
    BY <1>4, <1>5, <2>1, <2>2, <2>3
<1>7. CASE ScheduleFallsDue \/ CooldownEnds \/ UNCHANGED vars
  <2>1. UNCHANGED worker /\ UNCHANGED jobs
    BY <1>7 DEF ScheduleFallsDue, CooldownEnds, vars
  <2>2. ~FinishJob
    BY <2>1 DEF FinishJob, GoTo, worker
  <2> QED
    BY <1>4, <1>5, <2>1, <2>2
<1>8. ASSUME ~FinishJob, pc' \notin {"owner", "finish"} PROVE ErasedInv'
  BY <1>4, <1>8
<1>9. CASE WorkerCrash \/ Recover \/ ClaimDueSync \/ Sleep
  BY <1>8, <1>9 DEF WorkerCrash, Recover, ClaimDueSync, Sleep, FinishJob, GoTo
<1>10. ASSUME NEW p \in Profiles, EnqueueScheduled(p) PROVE ErasedInv'
  BY <1>8, <1>10 DEF EnqueueScheduled, FinishJob, GoTo
<1>11. ASSUME NEW i \in DOMAIN jobs, Claim(i) PROVE ErasedInv'
  BY <1>8, <1>11 DEF Claim, FinishJob, GoTo
<1>12. CASE RunDeleteProfile
  <2>1. /\ ~FinishJob /\ pc' # "owner" /\ outcome' \in {"succeeded", "failed"}
        /\ UNCHANGED <<jobs, current>>
    BY <1>12 DEF RunDeleteProfile, Runs, EndsWith, FinishJob, GoTo
  <2>2. current \in DOMAIN jobs /\ jobs[current].type = "delete_profile"
    BY <1>0, <1>12 DEF RunDeleteProfile, Runs, RunningIsHeld, HasJob
  <2>3. Target \in Profiles /\ Born(Target)
    BY <1>0, <2>2 DEF Target, TargetFits, NamesBorn, AboutProfiles
  <2>4. status[Target] \in Statuses
    BY <1>0, <2>3 DEF TypeOK
  <2>5. outcome' = "succeeded" => status'[Target] = "gone"
    BY <1>0, <1>12, <2>3, <2>4
    DEF RunDeleteProfile, EndsWith, TypeOK, Live, Born, Statuses
  <2>6. AtFinish'
    BY <2>1, <2>5 DEF Target
  <2> QED
    BY <1>4, <2>1, <2>6
<1>13. ASSUME ~FinishJob, UNCHANGED <<jobs, current>>,
              jobs[current].type # "delete_profile", pc' # "owner"
       PROVE  ErasedInv'
  BY <1>4, <1>13
<1>14. CASE RunProfileSync \/ RunSingleMedia \/ RunDeleteMedia \/ RunDiscovery
  <2>1. /\ ~FinishJob /\ UNCHANGED <<jobs, current>>
        /\ jobs[current].type # "delete_profile"
    BY <1>14
    DEF RunProfileSync, RunSingleMedia, RunDeleteMedia, RunDiscovery, Runs, FinishJob
  <2>2. pc' # "owner"
    BY <1>14
    DEF RunProfileSync, RunSingleMedia, RunDeleteMedia, RunDiscovery, EndsWith, GoTo
  <2> QED
    BY <1>13, <2>1, <2>2
<1>15. ASSUME NEW p \in Profiles, MissOwner(p) PROVE ErasedInv'
  <2>1. /\ ~FinishJob /\ pc' = "owner" /\ jobs[current].type = "single_media"
        /\ UNCHANGED <<jobs, current>>
    BY <1>15 DEF MissOwner, Runs, FinishJob, GoTo
  <2> QED
    BY <1>4, <2>1
<1>16. ASSUME NEW p \in Profiles, StubOwner(p) PROVE ErasedInv'
  <2>1. /\ ~FinishJob /\ pc' # "owner" /\ UNCHANGED <<jobs, current>>
        /\ jobs[current].type = "single_media"
    BY <1>16 DEF ErasedInv, StubOwner, EndsWith, FinishJob, GoTo
  <2> QED
    BY <1>13, <2>1
<1>17. CASE ActivateCooldown
  BY <1>8, <1>17 DEF ActivateCooldown, FinishJob, GoTo
<1>18. CASE RecordFailure
  <2>1. /\ ~FinishJob /\ pc' # "owner" /\ outcome' = "failed"
    BY <1>0, <1>18 DEF RecordFailure, FinishJob, GoTo, OutcomeFits
  <2> QED
    BY <1>4, <2>1
<1>19. CASE FailToRecord
  <2>1. /\ ~FinishJob /\ pc' # "owner" /\ outcome' = "failed"
    BY <1>0, <1>19 DEF FailToRecord, FinishJob, GoTo, OutcomeFits
  <2> QED
    BY <1>4, <2>1
<1> QED
  BY <1>3, <1>6, <1>7, <1>9, <1>10, <1>11, <1>12, <1>14, <1>15, <1>16, <1>17, <1>18,
     <1>19
  DEF Next, WorkerStep, RunJob

(* A delete_profile job that succeeded has erased its profile for good,    *)
(* whatever else ran, crashed or added the name again.                     *)
THEOREM DeletedStaysErased == Spec => []ErasedWhenDeleted
<1>1. Init => ErasedInv
  BY InitBoardInv DEF Init, ErasedInv, ErasedWhenDeleted
<1>2. ErasedInv /\ [Next]_vars => ErasedInv'
  BY NextErasedInv
<1>3. ErasedInv => ErasedWhenDeleted
  BY DEF ErasedInv
<1> QED
  BY <1>1, <1>2, <1>3, PTL DEF Spec

-----------------------------------------------------------------------------
(* A deletion that is shown is under way.                                  *)

(* A row that will still have its say about the deletion of p: a job that  *)
(* has not ended, except the one whose outcome is already decided.         *)
DeletionRow(i, p) ==
    /\ jobs[i].type = "delete_profile" /\ jobs[i].target = p
    /\ Board!Unfinished(jobs[i])

Undecided(i) == pc = "finish" => i # current

UnderWay(p) ==
    \/ DeletionInFlight(p)
    \/ \E i \in DOMAIN jobs : DeletionRow(i, p) /\ Undecided(i)

PendingInv ==
    \A p \in Profiles :
        status[p] = "deletion_pending" => UnderWay(p) \/ p \in unrecorded

(* A request to delete ends with its job, or not at all. *)
LEMMA RequestsKeepDeletions ==
    ASSUME TypeInv, WebStep, MaxWebCrashes = 0, NEW p \in Profiles, DeletionInFlight(p)
    PROVE  \/ DeletionInFlight(p)'
           \/ \E i \in DOMAIN jobs' \ DOMAIN jobs : DeletionRow(i, p)'
<1>0. TypeOK /\ OnlyNewRows
  BY WebStepTypeInv DEF TypeInv, WebEffect
<1>1. PICK d \in Clients : request[d] = [op |-> "delete", todo |-> {p}]
  BY DEF DeletionInFlight
<1>2. request[d].op = "delete" /\ request[d].todo = {p} /\ request[d] # Idle
  BY <1>1 DEF Idle
<1>3. ASSUME request'[d] = request[d] PROVE DeletionInFlight(p)'
  BY <1>1, <1>3 DEF DeletionInFlight
<1>4. request \in [Clients -> Flights]
  BY <1>0 DEF TypeOK
<1>5. ASSUME NEW c \in Clients, Arrive(c) PROVE DeletionInFlight(p)'
  <2>1. request[c] = Idle /\ \E new : request' = [request EXCEPT ![c] = new]
    BY <1>5 DEF Arrive, BeginSyncAll, BeginAdd, BeginDelete, Begin
  <2> QED
    BY <1>2, <1>3, <1>4, <2>1
<1>6. ASSUME NEW c \in Clients, NEW q \in Profiles, FinishAdd(c, q) \/ SyncNext(c, q)
      PROVE  DeletionInFlight(p)'
  <2>1. /\ request[c].op # "delete"
        /\ \E new : request' = [request EXCEPT ![c] = new]
    BY <1>6 DEF FinishAdd, SyncNext, End
  <2> QED
    BY <1>2, <1>3, <1>4, <2>1
<1>7. ASSUME NEW c \in Clients, NEW q \in Profiles, FinishDelete(c, q)
      PROVE  \/ DeletionInFlight(p)'
             \/ \E i \in DOMAIN jobs' \ DOMAIN jobs : DeletionRow(i, p)'
  <2>1. CASE c # d
    BY <1>3, <1>4, <1>7, <2>1 DEF FinishDelete, End
  <2>2. CASE c = d
    <3>1. q = p /\ jobs' = Append(jobs, Board!NewJob("delete_profile", p))
      BY <1>2, <1>7, <2>2 DEF FinishDelete, Enqueue
    <3>2. /\ Len(jobs) + 1 \in DOMAIN jobs' \ DOMAIN jobs
          /\ jobs'[Len(jobs) + 1] = Board!NewJob("delete_profile", p)
      BY <1>0, <3>1 DEF TypeOK
    <3>3. /\ jobs'[Len(jobs) + 1].type = "delete_profile"
          /\ jobs'[Len(jobs) + 1].target = p
          /\ jobs'[Len(jobs) + 1].state = "pending"
      BY <3>2 DEF Board!NewJob
    <3> QED
      BY <3>2, <3>3 DEF DeletionRow, Board!Unfinished
  <2> QED
    BY <2>1, <2>2
<1>8. ASSUME UNCHANGED request PROVE DeletionInFlight(p)'
  BY <1>3, <1>8
<1>9. ~WebCrash
  BY <1>0 DEF WebCrash, TypeOK
<1>10. \A q \in Profiles : SyncProfile(q) => UNCHANGED request
  BY DEF SyncProfile
<1>11. \A q \in Profiles, enabled \in BOOLEAN : SetSyncEnabled(q, enabled) => UNCHANGED request
  BY DEF SetSyncEnabled
<1>12. AddMedia \/ DeleteMedia \/ DiscoverFollowees \/ UpdateInterval => UNCHANGED request
  BY DEF AddMedia, DeleteMedia, DiscoverFollowees, UpdateInterval, Submit
<1>13. \A chosen \in Selections : ImportFollowees(chosen) => UNCHANGED request
  BY DEF ImportFollowees
<1> QED
  BY <1>5, <1>6, <1>7, <1>8, <1>9, <1>10, <1>11, <1>12, <1>13 DEF WebStep, Answer

(* Only a request marks a profile, or takes back that its last failure was *)
(* not recorded, and it has its job still to queue.                        *)
LEMMA OnlyRequestsMark ==
    ASSUME TypeInv, [Next]_vars, NEW p \in Profiles,
           status'[p] = "deletion_pending",
           \/ status[p] # "deletion_pending"
           \/ p \in unrecorded /\ p \notin unrecorded'
    PROVE  DeletionInFlight(p)'
<1>0. TypeOK
  BY DEF TypeInv
<1>1. ~UNCHANGED <<status, unrecorded>>
  OBVIOUS
<1>2. ASSUME NEW c \in Clients, NEW q \in Profiles, BeginDelete(c, q)
      PROVE  DeletionInFlight(p)'
  <2>1. q = p
    BY <1>0, <1>2 DEF BeginDelete, TypeOK
  <2>2. request'[c] = [op |-> "delete", todo |-> {p}]
    BY <1>0, <1>2, <2>1 DEF BeginDelete, Begin, TypeOK
  <2> QED
    BY <2>2 DEF DeletionInFlight
<1>3. \A q \in Profiles, track \in BOOLEAN : ~UpsertProfileStub(q, track)
  BY <1>0 DEF UpsertProfileStub, TypeOK
<1>4. \A c \in Clients, q \in Profiles :
         ~BeginAdd(c, q) /\ ~FinishAdd(c, q) /\ ~SyncNext(c, q) /\ ~FinishDelete(c, q)
  BY <1>1, <1>3 DEF BeginAdd, FinishAdd, SyncNext, FinishDelete, library
<1>5. \A c \in Clients : ~BeginSyncAll(c)
  BY <1>1 DEF BeginSyncAll, library
<1>6. \A q \in Profiles : ~SyncProfile(q)
  BY <1>1 DEF SyncProfile, library
<1>7. \A q \in Profiles, enabled \in BOOLEAN : ~SetSyncEnabled(q, enabled)
  BY <1>1 DEF SetSyncEnabled
<1>8. ~AddMedia /\ ~DeleteMedia /\ ~DiscoverFollowees /\ ~UpdateInterval /\ ~WebCrash
  BY <1>1
  DEF AddMedia, DeleteMedia, DiscoverFollowees, Submit, UpdateInterval, WebCrash, library
<1>9. \A chosen \in Selections : ~ImportFollowees(chosen)
  <2> SUFFICES ASSUME NEW chosen \in Selections, ImportFollowees(chosen) PROVE FALSE
    OBVIOUS
  <2>1. status'[p] \in {"active", status[p]} /\ UNCHANGED unrecorded
    BY DEF ImportFollowees
  <2> QED
    BY <2>1
<1>10. CASE WebStep
  BY <1>2, <1>4, <1>5, <1>6, <1>7, <1>8, <1>9, <1>10 DEF WebStep, Arrive, Answer
<1>11. ~RunDeleteProfile /\ ~RecordFailure /\ ~FailToRecord
  BY <1>0, <1>1 DEF RunDeleteProfile, RecordFailure, FailToRecord, TypeOK
<1>12. \A q \in Profiles : ~StubOwner(q) /\ ~MissOwner(q) /\ ~EnqueueScheduled(q)
  BY <1>1, <1>3 DEF StubOwner, MissOwner, EnqueueScheduled, library
<1>13. \A i \in DOMAIN jobs : ~Claim(i)
  BY <1>1 DEF Claim, library
<1>14. /\ ~Recover /\ ~ClaimDueSync /\ ~Sleep /\ ~ActivateCooldown /\ ~FinishJob
       /\ ~RunProfileSync /\ ~RunSingleMedia /\ ~RunDeleteMedia /\ ~RunDiscovery
       /\ ~WorkerCrash /\ ~ScheduleFallsDue /\ ~CooldownEnds /\ ~UNCHANGED vars
  BY <1>1
  DEF Recover, ClaimDueSync, Sleep, ActivateCooldown, FinishJob, RunProfileSync,
      RunSingleMedia, RunDeleteMedia, RunDiscovery, WorkerCrash, ScheduleFallsDue,
      CooldownEnds, vars, library
<1> QED
  BY <1>10, <1>11, <1>12, <1>13, <1>14 DEF Next, WorkerStep, RunJob

(* A row stays as it is, or is claimed or recovered. *)
RowsKeep ==
    /\ DOMAIN jobs \subseteq DOMAIN jobs'
    /\ \A i \in DOMAIN jobs :
          /\ jobs'[i].type = jobs[i].type
          /\ jobs'[i].target = jobs[i].target
          /\ Board!Unfinished(jobs[i]) => Board!Unfinished(jobs'[i])

LEMMA RowsAreKept ==
    ASSUME TypeInv, [Next]_vars, ~FinishJob
    PROVE  RowsKeep
<1>0. TypeOK /\ \A i \in DOMAIN jobs : jobs[i] \in Board!Row
  BY DEF TypeInv, TypeOK
<1>1. OnlyNewRows => RowsKeep
  BY <1>0 DEF OnlyNewRows, RowsKeep, TypeOK
<1>2. UNCHANGED jobs => RowsKeep
  BY DEF RowsKeep
<1>3. CASE WebStep
  BY <1>1, <1>3, WebStepTypeInv DEF WebEffect
<1>4. CASE Recover
  BY <1>0, <1>4 DEF Recover, RowsKeep, Board!Row, Board!Unfinished
<1>5. ASSUME NEW p \in Profiles, EnqueueScheduled(p) PROVE RowsKeep
  BY <1>1, <1>5, SyncAddsRow DEF EnqueueScheduled
<1>6. ASSUME NEW i \in DOMAIN jobs, Claim(i) PROVE RowsKeep
  BY <1>0, <1>6 DEF Claim, RowsKeep, Board!Row, Board!Unfinished
<1>7. CASE RunJob \/ ActivateCooldown \/ RecordFailure \/ FailToRecord
  BY <1>2, <1>7, RunTypeInv
<1>8. CASE \/ ClaimDueSync \/ Sleep
           \/ WorkerCrash \/ ScheduleFallsDue \/ CooldownEnds \/ UNCHANGED vars
  BY <1>2, <1>8
  DEF ClaimDueSync, Sleep, WorkerCrash, ScheduleFallsDue, CooldownEnds, vars
<1> QED
  BY <1>3, <1>4, <1>5, <1>6, <1>7, <1>8 DEF Next, WorkerStep

(* A deletion is decided only when it has erased its profile, when its     *)
(* failure has been recorded, or when the database has refused that.       *)
LEMMA DecidedIsNotPending ==
    ASSUME ErasedInv, [Next]_vars, NEW p \in Profiles, NEW i \in DOMAIN jobs,
           DeletionRow(i, p), Undecided(i), ~Undecided(i)'
    PROVE  status'[p] # "deletion_pending" \/ p \in unrecorded'
<1>0. TypeOK /\ RunningIsHeld /\ pc' = "finish" /\ current' = i
  BY DEF ErasedInv, BoardInv, TypeInv, Undecided
<1>1. ~(pc = "finish" /\ current = i)
  BY DEF Undecided
<1>2. jobs[i].type = "delete_profile" /\ jobs[i].target = p
  BY DEF DeletionRow
<1>3. CASE RunDeleteProfile
  <2>1. current = i /\ Target = p
    BY <1>0, <1>2, <1>3 DEF RunDeleteProfile, Target
  <2>2. ~EndsWith("failed")
    BY <1>0 DEF EndsWith, GoTo
  <2>3. status' = [status EXCEPT ![p] = IF Live(p) THEN "gone" ELSE @]
    BY <1>3, <2>1, <2>2 DEF RunDeleteProfile
  <2> QED
    BY <1>0, <2>3 DEF TypeOK, Live, LiveStatuses
<1>4. CASE RecordFailure
  <2>1. current = i /\ Target = p
    BY <1>0, <1>2, <1>4 DEF RecordFailure, Target
  <2>2. status' = IF Live(p) THEN [status EXCEPT ![p] = "deletion_failed"] ELSE status
    BY <1>2, <1>4, <2>1 DEF RecordFailure
  <2> QED
    BY <1>0, <2>2 DEF TypeOK, Live, LiveStatuses
<1>5. CASE RunProfileSync \/ RunSingleMedia \/ RunDeleteMedia \/ RunDiscovery
  <2>1. current' = current /\ jobs[current].type # "delete_profile"
    BY <1>5 DEF RunProfileSync, RunSingleMedia, RunDeleteMedia, RunDiscovery, Runs
  <2> QED
    BY <1>0, <1>2, <2>1
<1>6. ASSUME NEW q \in Profiles, StubOwner(q) PROVE FALSE
  <2>1. current' = current /\ jobs[current].type = "single_media"
    BY <1>6 DEF StubOwner, ErasedInv
  <2> QED
    BY <1>0, <1>2, <2>1
<1>7. ~Recover /\ ~ClaimDueSync /\ ~Sleep /\ ~ActivateCooldown /\ ~FinishJob /\ ~WorkerCrash
  BY <1>0
  DEF Recover, ClaimDueSync, Sleep, ActivateCooldown, FinishJob, WorkerCrash, GoTo
<1>8. \A q \in Profiles : ~EnqueueScheduled(q) /\ ~MissOwner(q)
  BY <1>0 DEF EnqueueScheduled, MissOwner, GoTo
<1>9. \A k \in DOMAIN jobs : ~Claim(k)
  BY <1>0 DEF Claim, GoTo
<1>10. ~UNCHANGED worker
  BY <1>0, <1>1 DEF worker
<1>11. ~WebStep
  BY <1>10, WebStepTypeInv DEF WebEffect, ErasedInv, BoardInv
<1>12. ~ScheduleFallsDue /\ ~CooldownEnds /\ ~UNCHANGED vars
  BY <1>10 DEF ScheduleFallsDue, CooldownEnds, vars
<1>13. CASE FailToRecord
  <2>1. current = i /\ Target = p
    BY <1>0, <1>2, <1>13 DEF FailToRecord, Target
  <2> QED
    BY <1>13, <2>1 DEF FailToRecord
<1> QED
  BY <1>3, <1>4, <1>5, <1>6, <1>7, <1>8, <1>9, <1>11, <1>12, <1>13
  DEF Next, WorkerStep, RunJob

LEMMA NextPendingInv ==
    ASSUME MaxWebCrashes = 0, ErasedInv, PendingInv, [Next]_vars
    PROVE  PendingInv'
<1>0. TypeInv /\ TypeOK /\ RunningIsHeld
  BY DEF ErasedInv, BoardInv, TypeInv
<1> SUFFICES ASSUME NEW p \in Profiles, status'[p] = "deletion_pending",
                    p \notin unrecorded'
             PROVE  UnderWay(p)'
  BY DEF PendingInv
<1>1. CASE status[p] # "deletion_pending" \/ p \in unrecorded
  BY <1>0, <1>1, OnlyRequestsMark DEF UnderWay
<1>2. CASE DeletionInFlight(p)
  <2>1. CASE WebStep
    <3>1. ASSUME NEW i \in DOMAIN jobs' \ DOMAIN jobs, DeletionRow(i, p)'
          PROVE  UnderWay(p)'
      <4>1. pc' = pc /\ current' = current
        BY <1>0, <2>1, WebStepTypeInv DEF WebEffect, worker
      <4>2. Undecided(i)'
        BY <1>0, <3>1, <4>1 DEF Undecided, RunningIsHeld, HasJob
      <4> QED
        BY <3>1, <4>2 DEF UnderWay
    <3> QED
      BY <1>0, <1>2, <2>1, <3>1, RequestsKeepDeletions DEF UnderWay
  <2>2. ASSUME UNCHANGED request PROVE UnderWay(p)'
    BY <1>2, <2>2 DEF UnderWay, DeletionInFlight
  <2>3. RunJob \/ ActivateCooldown \/ RecordFailure \/ FailToRecord
           \/ FinishJob => UNCHANGED request
    BY DEF RunJob, RunProfileSync, RunSingleMedia, RunDeleteMedia, RunDiscovery,
       RunDeleteProfile, MissOwner, StubOwner, ActivateCooldown, RecordFailure, FailToRecord,
       FinishJob
  <2>4. /\ \A q \in Profiles : EnqueueScheduled(q) => UNCHANGED request
        /\ \A i \in DOMAIN jobs : Claim(i) => UNCHANGED request
        /\ Recover \/ ClaimDueSync \/ Sleep \/ WorkerCrash \/ ScheduleFallsDue
             \/ CooldownEnds \/ UNCHANGED vars => UNCHANGED request
    BY DEF EnqueueScheduled, Claim, Recover, ClaimDueSync, Sleep, WorkerCrash,
       ScheduleFallsDue, CooldownEnds, vars
  <2> QED
    BY <2>1, <2>2, <2>3, <2>4 DEF Next, WorkerStep
<1>3. ASSUME NEW i \in DOMAIN jobs, DeletionRow(i, p), Undecided(i)
      PROVE  UnderWay(p)'
  <2>1. CASE ~FinishJob
    <3>1. i \in DOMAIN jobs' /\ DeletionRow(i, p)'
      BY <1>0, <1>3, <2>1, RowsAreKept DEF RowsKeep, DeletionRow
    <3>2. Undecided(i)'
      BY <1>3, DecidedIsNotPending
    <3> QED
      BY <3>1, <3>2 DEF UnderWay
  <2>2. CASE FinishJob
    <3>1. i # current /\ pc' = "poll"
      BY <1>3, <2>2 DEF FinishJob, GoTo, Undecided
    <3>2. i \in DOMAIN jobs' /\ jobs'[i] = jobs[i]
      BY <1>0, <1>3, <2>2, <3>1, FinishTypeInv
    <3> QED
      BY <1>3, <3>1, <3>2 DEF UnderWay, DeletionRow, Undecided
  <2> QED
    BY <2>1, <2>2
<1> QED
  BY <1>1, <1>2, <1>3 DEF PendingInv, UnderWay

(* A profile shown as being deleted has a deletion under way, as long as   *)
(* the web process does not die between its two transactions, and unless   *)
(* the database refused to record how its last deletion failed.            *)
THEOREM ShownDeletionsAreUnderWay ==
    ASSUME MaxWebCrashes = 0
    PROVE  Spec => []PendingDeletionHasJob
<1>1. Init => ErasedInv /\ PendingInv
  BY InitBoardInv DEF Init, ErasedInv, ErasedWhenDeleted, PendingInv
<1>2. ErasedInv /\ PendingInv /\ [Next]_vars => ErasedInv' /\ PendingInv'
  BY NextErasedInv, NextPendingInv
<1>3. PendingInv => PendingDeletionHasJob
  BY DEF PendingInv, UnderWay, DeletionRow, PendingDeletionHasJob, ActiveDeletion
<1> QED
  BY <1>1, <1>2, <1>3, PTL DEF Spec

=============================================================================
