------------------------------ MODULE JobQueue ------------------------------
(***************************************************************************)
(* The job table of the library, the web process that fills it, the        *)
(* profiles its jobs are about, and the one worker process that empties it.*)
(*                                                                         *)
(*   db/library_repositories.py     JobRepository, and the profile rows of *)
(*                                  LibraryRepository                      *)
(*   services/library_service.py    the operations of the web process      *)
(*   services/job_runner.py         JobRunner and the schedule             *)
(*   worker.py                      the loop of the worker                 *)
(*                                                                         *)
(* An action is one database transaction, or a step of a process between   *)
(* two of them.  Both processes may die between any two steps: the web     *)
(* process loses its requests, the worker loses the job it runs.           *)
(*                                                                         *)
(* Simplifications:                                                        *)
(*  - created_at orders the rows; it is read just before the insert, so    *)
(*    here the order is that of the inserts;                               *)
(*  - the two clocks of the worker are what they have reached: nextSync    *)
(*    says whether next_sync_at has passed, `cooling` whether the          *)
(*    rate-limit cooldown is on;                                           *)
(*  - what a job does to media is left to other modules: here it only has  *)
(*    an outcome, chosen freely;                                           *)
(*  - a profile keeps the username it was created with.                    *)
(***************************************************************************)
EXTENDS Naturals, Sequences, FiniteSets

CONSTANTS Profiles,         (* identifiers profiles may be given           *)
          Names,            (* Instagram usernames                         *)
          NameOf,           (* the username each identifier is used for    *)
          NoProfile,        (* the target of a job about no profile        *)
          Clients,          (* web requests that can be in flight at once  *)
          Requests,         (* the requests users send, see Kinds          *)
          MaxJobs,          (* bound: rows of the job table                *)
          MaxWorkerCrashes, (* bound: crashes of the worker                *)
          MaxWebCrashes     (* bound: crashes of the web process           *)

Kinds == {"add", "sync", "sync_all", "switch", "delete", "media",
          "delete_media", "discover", "import", "schedule", "settings"}

ASSUME ConstantsAssumption ==
    /\ NoProfile \notin Profiles
    /\ NameOf \in [Profiles -> Names]
    /\ IsFiniteSet(Clients)
    /\ Requests \subseteq Kinds
    /\ MaxJobs \in Nat
    /\ MaxWorkerCrashes \in Nat
    /\ MaxWebCrashes \in Nat

VARIABLES
    jobs,          (* the rows of table jobs, oldest first                 *)
    status,        (* profiles.status; "unborn" before, "gone" after       *)
    tracked,       (* profiles.tracked                                     *)
    nextSync,      (* app_settings.next_sync_at, see Schedule              *)
    cooling,       (* state/instagram_cooldown.json holds a future deadline*)
    pc,            (* where the worker is                                  *)
    current,       (* the row it runs, 0 for none                          *)
    todo,          (* profiles a step of the worker still has to handle    *)
    outcome,       (* how the job it runs is going to end                  *)
    request,       (* the request each client has in flight                *)
    workerCrashes, (* crashes so far                                       *)
    webCrashes,
    unrecorded     (* history: deletions whose failure was not recorded    *)

library == <<status, tracked, unrecorded>>
worker  == <<pc, current, todo, outcome>>
crashes == <<workerCrashes, webCrashes>>
vars    == <<jobs, library, nextSync, cooling, worker, request, crashes>>

Board == INSTANCE JobBoard

-----------------------------------------------------------------------------
(* Rows of the two tables.                                                 *)

InstagramTypes == {"profile_sync", "single_media", "followee_discovery"}

LiveStatuses == {"active", "deletion_pending", "deletion_failed"}
Statuses == LiveStatuses \cup {"unborn", "gone"}

Outcomes == Board!EndStates \cup {"none", "rate_limited"}

WorkerStates == {"down", "poll", "enqueue", "claim", "run", "owner",
                 "cool", "record", "finish"}

(* next_sync_at has passed, "due", or lies ahead; "moved": it lies ahead   *)
(* because the settings were changed when it had passed, and the worker    *)
(* has not looked since.                                                   *)
Schedule == {"ahead", "due", "moved"}

due == nextSync = "due"

Idle == [op |-> "idle", todo |-> {}]

Flights == [op: {"idle", "add", "delete", "sync_all"}, todo: SUBSET Profiles]

Live(p) == status[p] \in LiveStatuses

Syncable(p) == status[p] = "active" /\ tracked[p]

NameFree(n) == \A p \in Profiles : NameOf[p] = n => ~Live(p)

ActiveSync(p) ==
    \E i \in DOMAIN jobs :
        Board!IsSyncOf(jobs[i], p) /\ Board!Unfinished(jobs[i])

ActiveDeletion(p) ==
    \E i \in DOMAIN jobs :
        /\ jobs[i].type = "delete_profile" /\ jobs[i].target = p
        /\ Board!Unfinished(jobs[i])

-----------------------------------------------------------------------------
(* JobRepository and LibraryRepository, used by both processes.            *)

Enqueue(type, p) == jobs' = Append(jobs, Board!NewJob(type, p))

(* Mistake: a running synchronization does not count as the active one.    *)
EnqueueUnlessPending(p) ==
    IF \E i \in DOMAIN jobs :
          Board!IsSyncOf(jobs[i], p) /\ jobs[i].state = "pending"
    THEN UNCHANGED jobs
    ELSE Enqueue("profile_sync", p)

(* enqueue_profile_sync: the active job of the profile, or a new one.      *)
EnqueueProfileSync(p) ==
    IF ActiveSync(p) THEN UNCHANGED jobs ELSE Enqueue("profile_sync", p)

(* upsert_profile_stub: whoever has the name is active again, or a new     *)
(* profile is.                                                             *)
UpsertProfileStub(p, track) ==
    /\ \/ Live(p)
       \/ status[p] = "unborn" /\ NameFree(NameOf[p])
    /\ status' = [status EXCEPT ![p] = "active"]
    /\ tracked' = [tracked EXCEPT ![p] = (Live(p) /\ tracked[p]) \/ track]
    /\ unrecorded' = unrecorded \ {p}

(* Rows the requests in flight, the schedule and the worker may yet add:   *)
(* nothing is begun unless the table has room for all of them.             *)
Promised ==
    Cardinality(UNION {{c} \X request[c].todo : c \in Clients})
      + Cardinality(todo)
      + (IF due THEN Cardinality(Names) ELSE 0)

Room(n) == Len(jobs) + Promised + n =< MaxJobs

-----------------------------------------------------------------------------
(* The web process.                                                        *)

Arrives(kind, rows) == kind \in Requests /\ Room(rows)

Begin(c, op, S) ==
    /\ request[c] = Idle
    /\ request' = [request EXCEPT ![c] = [op |-> op, todo |-> S]]

End(c) == request' = [request EXCEPT ![c] = Idle]

(* POST /api/profiles, first transaction ... *)
BeginAdd(c, p) ==
    /\ Arrives("add", 1)
    /\ UpsertProfileStub(p, TRUE)
    /\ Begin(c, "add", {p})
    /\ UNCHANGED <<jobs, nextSync, cooling, worker, crashes>>

(* ... and second: a profile stopped, marked or erased meanwhile gets no   *)
(* job, and the request an error.                                          *)
FinishAdd(c, p) ==
    /\ request[c].op = "add" /\ p \in request[c].todo
    /\ IF Syncable(p) THEN EnqueueProfileSync(p) ELSE UNCHANGED jobs
    /\ End(c)
    /\ UNCHANGED <<library, nextSync, cooling, worker, crashes>>

(* POST /api/profiles/{id}/sync *)
SyncProfile(p) ==
    /\ Arrives("sync", 1)
    /\ Syncable(p)
    /\ EnqueueProfileSync(p)
    /\ UNCHANGED <<library, nextSync, cooling, worker, request, crashes>>

(* POST /api/settings/sync-all: the list is read once ... *)
BeginSyncAll(c) ==
    LET listed == {p \in Profiles : Syncable(p)}
    IN /\ listed # {}
       /\ Arrives("sync_all", Cardinality(listed))
       /\ Begin(c, "sync_all", listed)
       /\ UNCHANGED <<jobs, library, nextSync, cooling, worker, crashes>>

(* ... then each profile has a transaction of its own.  One that is no     *)
(* longer syncable raises out of the loop and ends the request.            *)
SyncNext(c, p) ==
    /\ request[c].op = "sync_all" /\ p \in request[c].todo
    /\ IF Syncable(p)
       THEN /\ EnqueueProfileSync(p)
            /\ IF request[c].todo = {p}
               THEN End(c)
               ELSE request' = [request EXCEPT ![c].todo = @ \ {p}]
       ELSE UNCHANGED jobs /\ End(c)
    /\ UNCHANGED <<library, nextSync, cooling, worker, crashes>>

(* PATCH /api/profiles/{id}/sync: Stop Sync and Resume Sync *)
SetSyncEnabled(p, enabled) ==
    /\ "switch" \in Requests
    /\ status[p] = "active"
    /\ tracked' = [tracked EXCEPT ![p] = enabled]
    /\ UNCHANGED <<jobs, status, unrecorded, nextSync, cooling, worker, request, crashes>>

(* DELETE /api/profiles/{id}, first transaction ... *)
BeginDelete(c, p) ==
    /\ Arrives("delete", 1)
    /\ Live(p)
    /\ status' = [status EXCEPT ![p] = "deletion_pending"]
    /\ unrecorded' = unrecorded \ {p}
    /\ Begin(c, "delete", {p})
    /\ UNCHANGED <<jobs, tracked, nextSync, cooling, worker, crashes>>

(* ... and second. *)
FinishDelete(c, p) ==
    /\ request[c].op = "delete" /\ p \in request[c].todo
    /\ Enqueue("delete_profile", p)
    /\ End(c)
    /\ UNCHANGED <<library, nextSync, cooling, worker, crashes>>

(* PATCH /api/settings: the next round is an interval away from now, also  *)
(* when the worker has yet to see that the last one is due.                *)
UpdateInterval ==
    /\ "settings" \in Requests
    /\ nextSync' = IF due THEN "moved" ELSE nextSync
    /\ UNCHANGED <<jobs, library, cooling, worker, request, crashes>>

(* POST /api/media, DELETE /api/media/{id}, POST /api/followee-imports *)
Submit(kind, type) ==
    /\ Arrives(kind, 1)
    /\ Enqueue(type, NoProfile)
    /\ UNCHANGED <<library, nextSync, cooling, worker, request, crashes>>

AddMedia == Submit("media", "single_media")
DeleteMedia == Submit("delete_media", "delete_media")
DiscoverFollowees == Submit("discover", "followee_discovery")

(* Selections of followees nobody has a profile for, in the order given.   *)
Selections ==
    {s \in UNION {[1..n -> Profiles] : n \in 1..Cardinality(Names)} :
        /\ \A k \in DOMAIN s : status[s[k]] = "unborn" /\ NameFree(NameOf[s[k]])
        /\ \A k, l \in DOMAIN s : NameOf[s[k]] = NameOf[s[l]] => k = l}

(* POST /api/followee-imports/{id}/commit: one transaction creates the     *)
(* chosen profiles, each with its first synchronization.                   *)
ImportFollowees(chosen) ==
    /\ Arrives("import", Len(chosen))
    /\ jobs' = jobs \o [k \in DOMAIN chosen |->
                            Board!NewJob("profile_sync", chosen[k])]
    /\ LET new == {chosen[k] : k \in DOMAIN chosen}
       IN /\ status' = [p \in Profiles |->
                            IF p \in new THEN "active" ELSE status[p]]
          /\ tracked' = [p \in Profiles |-> p \in new \/ tracked[p]]
    /\ UNCHANGED <<unrecorded, nextSync, cooling, worker, request, crashes>>

WebCrash ==
    /\ webCrashes < MaxWebCrashes
    /\ \E c \in Clients : request[c] # Idle
    /\ request' = [c \in Clients |-> Idle]
    /\ webCrashes' = webCrashes + 1
    /\ UNCHANGED <<jobs, library, nextSync, cooling, worker, workerCrashes>>

-----------------------------------------------------------------------------
(* The worker: recovery, schedule and claim.                               *)

GoTo(place) == pc' = place

(* Mistakes: the recovery forgets the running rows, takes the failed ones  *)
(* up again, or drops what was interrupted.                                *)
RecoverNothing ==
    /\ pc = "down"
    /\ GoTo("poll")
    /\ UNCHANGED <<jobs, library, nextSync, cooling, current, todo, outcome, request, crashes>>

RecoverFailed ==
    /\ pc = "down"
    /\ jobs' = [i \in DOMAIN jobs |->
                   IF jobs[i].state \in {"running", "failed"}
                   THEN [jobs[i] EXCEPT !.state = "pending"]
                   ELSE jobs[i]]
    /\ GoTo("poll")
    /\ UNCHANGED <<library, nextSync, cooling, current, todo, outcome, request, crashes>>

RecoverByDropping ==
    /\ pc = "down"
    /\ jobs' = SelectSeq(jobs, LAMBDA row : row.state # "running")
    /\ GoTo("poll")
    /\ UNCHANGED <<library, nextSync, cooling, current, todo, outcome, request, crashes>>

(* recover_interrupted *)
Recover ==
    /\ pc = "down"
    /\ jobs' = [i \in DOMAIN jobs |->
                   IF jobs[i].state = "running"
                   THEN [jobs[i] EXCEPT !.state = "pending"]
                   ELSE jobs[i]]
    /\ GoTo("poll")
    /\ UNCHANGED <<library, nextSync, cooling, current, todo, outcome, request, crashes>>

(* claim_due_sync moves next_sync_at on, then list_profiles is read once.  *)
(* A request between the two writes profiles, which the claim does not     *)
(* touch, or next_sync_at, which the list does not read: it could as well  *)
(* have come before both, or after both, so the two are one step.          *)
ClaimDueSync ==
    /\ pc = "poll"
    /\ nextSync' = "ahead"
    /\ todo' = IF due THEN {p \in Profiles : Syncable(p)} ELSE {}
    /\ GoTo(IF todo' = {} THEN "claim" ELSE "enqueue")
    /\ UNCHANGED <<jobs, library, cooling, current, outcome, request, crashes>>

(* Mistake: the loop returns after its first profile. *)
EnqueueFirstScheduled(p) ==
    /\ pc = "enqueue" /\ p \in todo
    /\ EnqueueProfileSync(p)
    /\ todo' = {}
    /\ GoTo("claim")
    /\ UNCHANGED <<library, nextSync, cooling, current, outcome, request, crashes>>

(* The profile may have been stopped, marked or erased since it was listed.*)
EnqueueScheduled(p) ==
    /\ pc = "enqueue" /\ p \in todo
    /\ EnqueueProfileSync(p)
    /\ todo' = todo \ {p}
    /\ GoTo(IF todo' = {} THEN "claim" ELSE "enqueue")
    /\ UNCHANGED <<library, nextSync, cooling, current, outcome, request, crashes>>

Excluded == IF cooling THEN InstagramTypes ELSE {}

Eligible == {i \in DOMAIN jobs : jobs[i].state = "pending"
                                 /\ jobs[i].type \notin Excluded}

(* Mistake: the oldest pending row is taken first and looked at afterwards. *)
ClaimHeadOfLine(i) ==
    /\ pc = "claim"
    /\ jobs[i].state = "pending"
    /\ \A k \in 1..(i - 1) : jobs[k].state # "pending"
    /\ jobs[i].type \notin Excluded
    /\ jobs' = [jobs EXCEPT ![i].state = "running"]
    /\ current' = i
    /\ GoTo("run")
    /\ UNCHANGED <<library, nextSync, cooling, todo, outcome, request, crashes>>

(* _claim_next_job: the oldest pending row whose type is not excluded.     *)
Claim(i) ==
    /\ pc = "claim"
    /\ i \in Eligible
    /\ \A k \in Eligible : i =< k
    /\ jobs' = [jobs EXCEPT ![i].state = "running"]
    /\ current' = i
    /\ GoTo("run")
    /\ UNCHANGED <<library, nextSync, cooling, todo, outcome, request, crashes>>

(* Nothing to do: time.sleep(2). *)
Sleep ==
    /\ pc = "claim"
    /\ Eligible = {}
    /\ GoTo("poll")
    /\ UNCHANGED <<jobs, library, nextSync, cooling, current, todo, outcome, request, crashes>>

-----------------------------------------------------------------------------
(* The worker: JobRunner.run.                                              *)

Runs(type) == pc = "run" /\ jobs[current].type = type

Target == jobs[current].target

(* A job whose operation returned or raised goes on to its epilogue: the   *)
(* cooldown after a 429, the failure of a deletion, or straight to the     *)
(* terminal update.                                                        *)
EndsWith(result) ==
    /\ outcome' = result
    /\ GoTo(CASE result = "rate_limited" -> "cool"
              [] result = "failed" -> "record"
              [] OTHER -> "finish")

(* sync_profile: a stopped or marked profile is left alone and the job     *)
(* succeeds, an erased one fails it; otherwise Instagram decides.          *)
RunProfileSync ==
    /\ Runs("profile_sync")
    /\ \/ ~Live(Target) /\ EndsWith("failed")
       \/ Live(Target) /\ ~Syncable(Target) /\ EndsWith("succeeded")
       \/ /\ Syncable(Target)
          /\ \E result \in {"succeeded", "completed_with_warnings",
                            "failed", "rate_limited"} : EndsWith(result)
    /\ UNCHANGED <<jobs, library, nextSync, cooling, current, todo, request, crashes>>

(* download_input, with an owner the library knows, or before it needs one *)
RunSingleMedia ==
    /\ Runs("single_media")
    /\ \E result \in {"succeeded", "failed", "rate_limited"} : EndsWith(result)
    /\ UNCHANGED <<jobs, library, nextSync, cooling, current, todo, request, crashes>>

(* _upsert_owner: nobody has the owner's name ... *)
MissOwner(p) ==
    /\ Runs("single_media")
    /\ status[p] = "unborn" /\ NameFree(NameOf[p])
    /\ todo' = {p}
    /\ GoTo("owner")
    /\ UNCHANGED <<jobs, library, nextSync, cooling, current, outcome, request, crashes>>

(* ... so the name gets a profile, unless a request just gave it one.      *)
StubOwner(p) ==
    /\ pc = "owner"
    /\ \E missed \in todo : NameOf[p] = NameOf[missed]
    /\ UpsertProfileStub(p, FALSE)
    /\ todo' = {}
    /\ \E result \in {"succeeded", "failed", "rate_limited"} : EndsWith(result)
    /\ UNCHANGED <<jobs, nextSync, cooling, current, request, crashes>>

(* delete_media only touches media and their files. *)
RunDeleteMedia ==
    /\ Runs("delete_media")
    /\ \E result \in {"succeeded", "failed"} : EndsWith(result)
    /\ UNCHANGED <<jobs, library, nextSync, cooling, current, todo, request, crashes>>

RunDiscovery ==
    /\ Runs("followee_discovery")
    /\ \E result \in {"succeeded", "failed", "rate_limited"} : EndsWith(result)
    /\ UNCHANGED <<jobs, library, nextSync, cooling, current, todo, request, crashes>>

(* Mistake: a file that cannot be removed is skipped over. *)
RunDeleteProfileLeniently ==
    /\ Runs("delete_profile")
    /\ EndsWith("succeeded")
    /\ status' \in {status,
                   [status EXCEPT ![Target] = IF Live(Target) THEN "gone" ELSE @]}
    /\ UNCHANGED <<jobs, tracked, unrecorded, nextSync, cooling, current, todo, request, crashes>>

(* _delete_profile: files first, then the records.  It does not look at    *)
(* the status: a profile made active again is erased all the same.  A file *)
(* that cannot be removed fails the job before any record goes.            *)
RunDeleteProfile ==
    /\ Runs("delete_profile")
    /\ \/ /\ EndsWith("succeeded")
          /\ status' = [status EXCEPT ![Target] = IF Live(Target) THEN "gone" ELSE @]
       \/ /\ Live(Target)
          /\ EndsWith("failed")
          /\ UNCHANGED status
    /\ UNCHANGED <<jobs, tracked, unrecorded, nextSync, cooling, current, todo, request, crashes>>

(* Mistake: the kind of failure is written to the row. *)
ActivateCooldownAndKeep ==
    /\ pc = "cool"
    /\ cooling' \in {TRUE, cooling}
    /\ GoTo("record")
    /\ UNCHANGED <<jobs, library, nextSync, current, todo, outcome, request, crashes>>

(* _activate_rate_limit_cooldown.  A store that cannot write is only       *)
(* logged.                                                                 *)
ActivateCooldown ==
    /\ pc = "cool"
    /\ cooling' \in {TRUE, cooling}
    /\ outcome' = "failed"
    /\ GoTo("record")
    /\ UNCHANGED <<jobs, library, nextSync, current, todo, request, crashes>>

(* Mistake: the failed deletion is not recorded. *)
SkipRecordFailure ==
    /\ pc = "record"
    /\ GoTo("finish")
    /\ UNCHANGED <<jobs, library, nextSync, cooling, current, todo, outcome, request, crashes>>

(* _record_profile_deletion_failure *)
RecordFailure ==
    /\ pc = "record"
    /\ status' = IF jobs[current].type = "delete_profile" /\ Live(Target)
                 THEN [status EXCEPT ![Target] = "deletion_failed"]
                 ELSE status
    /\ GoTo("finish")
    /\ UNCHANGED <<jobs, tracked, unrecorded, nextSync, cooling, current, todo,
                   outcome, request, crashes>>

(* _fail_job passes over an exception of the recording: the job ends, the  *)
(* profile stays as it is.                                                 *)
FailToRecord ==
    /\ pc = "record"
    /\ jobs[current].type = "delete_profile" /\ Live(Target)
    /\ unrecorded' = IF status[Target] = "deletion_pending"
                     THEN unrecorded \cup {Target} ELSE unrecorded
    /\ GoTo("finish")
    /\ UNCHANGED <<jobs, status, tracked, nextSync, cooling, current, todo,
                   outcome, request, crashes>>

(* succeed, complete_with_warnings, fail *)
FinishJob ==
    /\ pc = "finish"
    /\ jobs' = [jobs EXCEPT ![current].state = outcome]
    /\ current' = 0
    /\ outcome' = "none"
    /\ GoTo("poll")
    /\ UNCHANGED <<library, nextSync, cooling, todo, request, crashes>>

(* The process dies, or an exception leaves its loop. *)
WorkerCrash ==
    /\ pc # "down"
    /\ workerCrashes < MaxWorkerCrashes
    /\ workerCrashes' = workerCrashes + 1
    /\ GoTo("down")
    /\ current' = 0
    /\ todo' = {}
    /\ outcome' = "none"
    /\ UNCHANGED <<jobs, library, nextSync, cooling, request, webCrashes>>

-----------------------------------------------------------------------------
(* Time.                                                                   *)

(* next_sync_at passes *)
ScheduleFallsDue ==
    /\ "schedule" \in Requests
    /\ ~due
    /\ Room(Cardinality(Names))
    /\ nextSync' = "due"
    /\ UNCHANGED <<jobs, library, cooling, worker, request, crashes>>

CooldownEnds ==
    /\ cooling
    /\ cooling' = FALSE
    /\ UNCHANGED <<jobs, library, nextSync, worker, request, crashes>>

-----------------------------------------------------------------------------

Init ==
    /\ jobs = << >>
    /\ status = [p \in Profiles |-> "unborn"]
    /\ tracked = [p \in Profiles |-> FALSE]
    /\ nextSync = "ahead"
    /\ cooling = FALSE
    /\ pc = "down"
    /\ current = 0
    /\ todo = {}
    /\ outcome = "none"
    /\ request = [c \in Clients |-> Idle]
    /\ workerCrashes = 0
    /\ webCrashes = 0
    /\ unrecorded = {}

(* A request in flight goes on. *)
Answer(c) ==
    \E p \in Profiles : FinishAdd(c, p) \/ SyncNext(c, p) \/ FinishDelete(c, p)

Arrive(c) ==
    \/ BeginSyncAll(c)
    \/ \E p \in Profiles : BeginAdd(c, p) \/ BeginDelete(c, p)

WebStep ==
    \/ \E c \in Clients : Arrive(c) \/ Answer(c)
    \/ \E p \in Profiles :
          SyncProfile(p) \/ \E enabled \in BOOLEAN : SetSyncEnabled(p, enabled)
    \/ AddMedia \/ DeleteMedia \/ DiscoverFollowees \/ UpdateInterval
    \/ \E chosen \in Selections : ImportFollowees(chosen)
    \/ WebCrash

RunJob ==
    \/ RunProfileSync \/ RunSingleMedia \/ RunDeleteMedia
    \/ RunDiscovery \/ RunDeleteProfile
    \/ \E p \in Profiles : MissOwner(p) \/ StubOwner(p)

WorkerStep ==
    \/ Recover \/ ClaimDueSync \/ Sleep
    \/ \E p \in Profiles : EnqueueScheduled(p)
    \/ \E i \in DOMAIN jobs : Claim(i)
    \/ RunJob
    \/ ActivateCooldown \/ RecordFailure \/ FailToRecord \/ FinishJob

Next == WebStep \/ WorkerStep \/ WorkerCrash \/ ScheduleFallsDue \/ CooldownEnds

Spec == Init /\ [][Next]_vars

-----------------------------------------------------------------------------
(* Fairness.  The worker loops until it dies and compose.yaml restarts it  *)
(* (restart: unless-stopped); a request in flight runs to its end.  Users  *)
(* owe nothing.                                                            *)

Fairness == WF_vars(WorkerStep) /\ \A c \in Clients : WF_vars(Answer(c))

(* Nothing is assumed of the cooldown: Instagram may keep it on forever.   *)
FairSpec == Spec /\ Fairness

-----------------------------------------------------------------------------
(* Safety.                                                                 *)

TypeOK ==
    /\ jobs \in Seq(Board!Row)
    /\ status \in [Profiles -> Statuses]
    /\ tracked \in [Profiles -> BOOLEAN]
    /\ nextSync \in Schedule
    /\ cooling \in BOOLEAN
    /\ pc \in WorkerStates
    /\ current \in Nat
    /\ todo \in SUBSET Profiles
    /\ outcome \in Outcomes
    /\ request \in [Clients -> Flights]
    /\ workerCrashes \in Nat
    /\ webCrashes \in Nat
    /\ unrecorded \in SUBSET Profiles

(* A profile never has two profile_sync jobs that have not ended, however  *)
(* Add, Sync Now, Sync All, the schedule, an import and a recovery meet.   *)
OneActiveSync == Board!OneActiveSync

(* The worker works on a row that is marked running, and no other row is,  *)
(* except after a crash and before the recovery: a job is neither run      *)
(* without being claimed nor left running by nobody.                       *)
HasJob == pc \in {"run", "owner", "cool", "record", "finish"}

RunningIsHeld ==
    /\ HasJob <=> current # 0
    /\ HasJob => current \in DOMAIN jobs /\ jobs[current].state = "running"
    /\ \A i \in DOMAIN jobs :
          jobs[i].state = "running" => pc = "down" \/ i = current

(* A job that ended stays as it ended, through recoveries too: Activity    *)
(* never shows an outcome that is taken back.                              *)
OutcomesStay ==
    [][\A i \in DOMAIN jobs :
          jobs[i].state \in Board!EndStates => jobs'[i] = jobs[i]]_vars

(* A delete_profile job that succeeded has erased its profile, and nothing *)
(* brought the same profile back since: neither a synchronization that was *)
(* queued, nor an owner of single media, nor a crash in the middle.        *)
ErasedWhenDeleted ==
    \A i \in DOMAIN jobs :
        jobs[i].type = "delete_profile" /\ jobs[i].state = "succeeded"
            => status[jobs[i].target] = "gone"

(* A profile shown as being deleted is being deleted: a job for it has not *)
(* ended, or the request that marked it has not queued it yet.  Left out   *)
(* by name is the deletion whose failure the database refused to record.   *)
DeletionInFlight(p) == \E c \in Clients : request[c] = [op |-> "delete", todo |-> {p}]

PendingDeletionHasJob ==
    \A p \in Profiles :
        status[p] = "deletion_pending"
            => ActiveDeletion(p) \/ DeletionInFlight(p) \/ p \in unrecorded

(* The job table keeps its promises. *)
ImplementsBoard == Board!Spec

-----------------------------------------------------------------------------
(* Liveness.                                                               *)

Ended(i) == jobs[i].state \in Board!EndStates

CooldownsEnd == []<>~cooling

(* Every job that was queued ends, whatever the crashes before it, as long *)
(* as no cooldown lasts forever.                                           *)
EveryJobEnds ==
    CooldownsEnd =>
        \A i \in 1..MaxJobs : (i \in DOMAIN jobs) ~> (i \in DOMAIN jobs /\ Ended(i))

(* Local deletions end even if the cooldown never does: Instagram jobs in  *)
(* front of them do not block the queue.                                   *)
LocalJobsEnd ==
    \A i \in 1..MaxJobs :
        (i \in DOMAIN jobs /\ jobs[i].type \notin InstagramTypes)
            ~> (i \in DOMAIN jobs /\ Ended(i))

(* A profile does not stay "deletion pending", through deaths of the       *)
(* worker and a failing job, unless that failure could not be recorded.    *)
DeletionSettles ==
    \A p \in Profiles :
        status[p] = "deletion_pending"
            ~> (status[p] # "deletion_pending" \/ p \in unrecorded)

(* When the schedule falls due each profile that is synchronized gets a    *)
(* job, unless it stops being synchronized, the worker dies (what is left  *)
(* of its round waits for the next interval), or a change of the settings  *)
(* puts off a round the worker has not seen yet.                           *)
DueReachesEveryProfile ==
    \A p \in Profiles :
        (due /\ Syncable(p))
            ~> (ActiveSync(p) \/ ~Syncable(p) \/ workerCrashes > 0
                  \/ nextSync = "moved")

=============================================================================
