# A verification project for Instaloader WebUI

Instaloader WebUI keeps a local library of Instagram profiles. A **web process** (FastAPI) takes
requests and writes SQLite; one **worker process** claims jobs from a table of that database and talks
to Instagram; the two share the database, the media directory and two small files. This directory
models the parts of it in which several steps, processes or crashes decide what happens, checks them
with TLC on small instances, and proves the main results with TLAPS for every instance.

Paths below are under `src/backend/src/instaloader_webui/` unless they begin with `src/`.

## 1. Inventory

| Component | State it keeps | Operations | Interacts with | What is hard | What makes it correct |
|---|---|---|---|---|---|
| Job table (`db/library_repositories.py`, `JobRepository`) | rows of `jobs` with type, payload, state | enqueue, coalescing enqueue, claim, progress, end, recover | written by both processes | interleaved transactions, a worker that dies with a row | no row lost, one runs, outcomes final, one active synchronization per profile |
| Library commands (`services/library_service.py`, `api/routes/`) | none of their own; several transactions per request | add, Sync Now, Sync All, Stop/Resume, delete profile, add and delete media | profile rows, job table | another request or the worker between two transactions; the web process dies between them | a pending deletion has its job |
| Profiles (`LibraryRepository`) | status, `tracked`, username | upsert a stub, mark for deletion, mark as failed, erase | both processes | the same name added while it is deleted, or found by the worker as an owner | what was deleted stays deleted |
| Worker loop (`worker.py`, `services/job_runner.py`) | the job in hand | recover, schedule, claim, run, record the end | all others | crashes at any point, failures while recording a failure | every job ends; local jobs run during a cooldown |
| Schedule (`SettingsRepository.claim_due_sync`, `update_interval`) | `next_sync_at` | claim when due, queue the profiles; change the interval | job table, settings page | stale list of profiles; the web process moves the next round as well | a round reaches each profile that stays synchronized |
| Profile synchronization (`instagram/profile_sync.py`) | heads and cursors of two lists; checkpoints and boundary exclusions in the database | recent pass, historical pass, freeze, thaw, mark complete, reset | Instagram, media processor, direct downloads | stops, failures and kills at any item; new items meanwhile | nothing is skipped; everything is reached in the end; a stop is prompt |
| Cooldown (`instagram/cooldown.py`) | a file: deadline and count of 429 answers | record, reset, status | worker loop | crash between answer and record, failing file, arithmetic | Instagram is not asked before an earned pause is over |
| Media files (`instagram/media_processor.py`) | staging, `.partial`, `.backup` and final directories; rows of assets | download, replace, roll back, commit | library, deletion jobs | a crash between two renames | a row that looks complete has the files it names |
| Followee import (`db/followee_import_repositories.py`) | batches, their discovered accounts | start, discover, complete, fail, commit | job table, stored cookies | a worker that ends with a batch replaced; double commit | one open batch; it is committed once, for the cookies it was read with; every scan ends |
| Login (`services/auth_service.py`, `db/repositories.py`) | password hash, sessions, failures by account, address and all, reservations with leases | login, revoke, change password, reserve, cancel and complete an attempt | none | requests that come late to the database, Argon2 outside of transactions, leases that end | no session stands for a password that was replaced; attempts under way and failures never exceed a limit; the wait told is enough |
| Media feed (`api/routes/media.py`, `library/MediaViewerPage.tsx`) | the feed in the browser with its two cursors and the pages under way | window around an anchor, pages newer and older, retry, move | library | items saved and deleted between any two reads, pages of both directions and of an earlier feed arriving in any order | in order, nothing repeated or omitted of what stays, the place is kept |
| Stored Instagram session (`instagram/session_store.py`, `worker_runtime.py`) | an encrypted file, a loader cached for its revision | import, load, remove | worker | replaced while the worker uses it | a job never uses cookies that were replaced before it began |
| Profile lookup (`instagram/profile_lookup.py`) | mode of the lookup, a circuit of half an hour | native and legacy endpoint | cooldown, by the error it raises | which of two errors counts; two memories of one refusal | an endpoint that answered 429 is left alone |
| Classification of errors (`instagram/safe_issues.py`) | none | code of a chain of exceptions | synchronization, worker loop, lookup | several marks in one chain | what must end a job does |
| Frontend (`src/frontend/src/`) | polled data, the feed, current session | poll, act, log out | web process | late answers | an older answer never replaces a newer one |

Every component, with what is left out of it, is a row of `PROJECT.json` "components"; the hazards of the
code, each at its line and with the property that watches it, are under "hazards".

## 2. Plan

Order, and what composes what:

1. **Done.** `JobBoard` (abstract) and `JobQueue` (both processes, profiles, schedule, cooldown as a flag);
   `JobQueueProofs`.
2. **Done.** `ProfileSync`, the inside of the `profile_sync` job; `ProfileSyncProofs` (first theorem).
3. **Done.** `Cooldown`, the inside of the flag `cooling` of `JobQueue`.
4. **Done.** `MediaFiles`: one media item, its four directories and its row, with an error or a kill at any file
   operation, repair and deletion. It is the inside of the outcomes that `JobQueue` and `ProfileSync` choose freely.
5. **Done.** `FolloweeImport`: batches with their revision of the cookies, requests and the worker with the loader it
   keeps; `FolloweeImportProofs`. It has its own job per batch; what a commit queues is in `JobQueue`.
6. **Done.** `AttemptLimit` (abstract) and `Login`: the throttle with its reservations, sessions and the change of the
   password; `AttemptLimitProofs`, `LoginProofs` (the refinement is proved).
7. **Done.** `InstagramErrors`, and in `Cooldown` the lookup of profiles with its circuit and every error that ends a
   job or an item; `CooldownProofs`.
8. **Done.** `MediaFeed`: the window, the pages and the feed in the browser, with items saved and deleted in between.
9. **Done.** `MediaFilesProofs`: the safety properties of `MediaFiles`. Further `PendingDeletionHasJob`, the types of
   `ProfileSync`, `NothingSkipped` and `RetryIsEnough`.
10. **Done.** `Polling`: what a page shows while its requests overlap.
11. **Done.** `FrontendProofs`: the theorems about `MediaFeed` and `Polling`, what the browser keeps on the screen.

What remains: a run of `Polling` of its own, of which there are theorems only. Every safety property a run checks is
proved, `NothingSkipped` where nothing breaks the order of a list (`Calm`); what the provers cannot reach is said in section 5.

## 3. Modules

### JobBoard and JobQueue

`JobBoard` is the promise of the job table: rows are only appended, one runs at a time, states move forward,
`recover_interrupted` puts a running row back. `JobQueue` implements it (`ImplementsBoard`), with the same
variable `jobs`. It is the flat version of what the other models look into: `ProfileSync`, `MediaFiles` and
`FolloweeImport` are the inside of one kind of job each, `Cooldown` of its flag `cooling`.

An action of `JobQueue` is one transaction, or one step of a process between two. Where the code makes two
transactions in one request (`add_profile`, `delete_profile`, `sync_all`) there are a *Begin* and a *Finish*
action and a request in flight between them (`request[c]`). The worker's `pc` follows `worker.main` and
`JobRunner.run`: `down`, `poll`, `enqueue` (the profiles of a due round, one by one), `claim`, `run`, `owner`
(between looking an owner up and creating it), `cool` and `record` (the two things done before a failure is
stored) and `finish`. `WorkerCrash` and `WebCrash` may happen at any of them. `status` has two values the
table does not: `unborn` for an identifier not yet used and `gone` for one that was erased.

Only some sessions say `BEGIN IMMEDIATE`; `db/engine.py` leaves the driver as it is, which opens a transaction before
the first write, so what the other sessions read may be stale when they write. In the transactions of `JobQueue` this
changes nothing: they write the columns they changed of one row, found by its identifier, and in each case the result is that of one
order or the other (an update of a row erased in between is an error). In `start_discovery` it does; see `FolloweeImport`.

`nextSync` is what `next_sync_at` has come to: `ahead`, `due`, or `moved` when a change of the settings (`UpdateInterval`, the
web process) put off a round that was due before the worker claimed it (`ClaimDueSync`). `_fail_job` passes over an exception
of the recording of a failed deletion; that is `FailToRecord`, beside `RecordFailure`.

History: `unrecorded`, profiles whose deletion failed and was not recorded, until they are added or deleted again.

Simplified: the deadline of the cooldown is a flag, `cooling`; what a job does to media is an outcome chosen freely; a
profile keeps its username. That no two rows of `profiles` share a name is a UNIQUE constraint of the table
(`db/models.py:125`); `UpsertProfileStub` takes it for granted and nothing is claimed of it.

### ProfileSync

One profile and its runs. Items are numbered by publication, and a list's cursor is the set of items below
it, which is what a frozen iterator amounts to: what is published later goes above. `scan[s]` is the
`_FeedState` of a source (active, head, the cursor before the head, stop_on_existing, needs_historical,
source_scanned, existing_boundary_seen), `checkpoint[s]` the row of the database. The steps of a run are
those of `run`, `_scan_states` and `_merge` with everything that can end it: a stop, an item or page that
fails, a checkpoint that cannot be saved or thawed, a kill. Around a run there are publication, Stop and
Resume, deletions of media and direct downloads. Of these the media is saved in one transaction (`SaveDirectly`) and
the boundary exclusion added in another (`AddBoundaryExclusion`); `direct` is the item in between. The second may fail
(`FailToExclude`), as it does when the worker is killed there and the rerun fails.

Histories: `tried`, what was dealt with in any way (saved, found, recorded as an issue); `caught`, what the
lists of the last completed run held when it opened them; `late`, items begun since a stop; `unexcluded`, items saved
directly whose exclusion failed. What lies below one of those in a list of both is `Hidden`.

### MediaFiles

A directory, or the assets of the row, is a function from positions of the post to the version its file was
downloaded from. `staging[j]`, `partial[j]` and `backup[j]` are the directories named after a job, which its rerun finds again.
Each `pc` is a place between two file operations of `MediaProcessor.process` and `_finalize_assets`
(`check`, `fetch`, `map`, `prepare`, `move`, `preserve`, `install`, `measure`, `persist`, `commit`, `cleanup`), of their
exception handlers (`undo`, `rollback`, `restore`) or of a deletion (`list`, `unlink`, `erase`); `Handler` says which
handler an exception at each of them reaches. `preserved`, `installed` are the local variables of `_finalize_assets`.

Histories: `before`, the files and the row when the run began; `cut`, jobs that were killed or failed while tidying up;
`orphaned`, that files were left in place for which no row was written.

### FolloweeImport

`stored` is the revision of the cookies in the file, `batch[b]` a row of `followee_import_batches` with its candidates,
`job[b]` its job. A request reads the cookies first (`Begin…`) and enters its transaction later (`Finish…`), since the file
is no part of the database. The worker's `pc` follows `_discover_followees`: `start` and `mark` are the read and the
update of `start_discovery`, then `acquire`, `read`, `complete`, `succeed`, or `fail` (recording the failure in the batch) and
`end`. `loader` is the revision the authenticated loader was built for.

Histories: `source` and `asked`, the revisions a batch was read and committed with; `forgotten`, batches whose failure the
database refused to record; `revived`, that a batch was marked as running after it had been given up.

### InstagramErrors and Cooldown

`InstagramErrors` holds operators: an error is its chain, by what it says (`marks`), whether one of it is a typed 429, and its
length; `Code` is the order of `_classify_error`, `Blocks` what ends a synchronization, `PermitsFallback` what lets a
lookup go on with the other endpoint.

`Cooldown` is the file (`strikes`, `left`) in units of half an hour, the lookup of profiles (`mode`, `circuit`) and the
worker from claiming a job to recording its result. An error may come from either endpoint (`NativeFails`, `LookupFails`),
from one item of a synchronization, which goes on unless the error blocks (`ItemFails`), or from any other request
(`RequestFails`). `Overflow` is the arithmetic of Python: `_BASE_COOLDOWN * 2 ** (n - 1)` is computed before `min`,
and for n = 37 the product is no `timedelta`. `LastProduct` is that limit, 36, and the runs use it and the real cap of
12 half hours. The circuit lives in the process (`time.monotonic`) and dies with it; the file does not.

Histories: `answers` and `since`, the 429 answers in a row that were recorded and the time since the last; `refused`, the
endpoints that answered 429 within half an hour, as far as the worker lived to take note.

### AttemptLimit and Login

`AttemptLimit` is the promise of the throttle: an attempt is admitted while the failures remembered and the attempts under
way leave room in its account, its address and the one bucket of all; it then fails, and counts, or logs in. What is
under way may lapse, what is remembered may be forgotten when the window is over.

`Login` implements it with the rows of `login_attempt_reservations` and `login_failures`. An action is one transaction, all of which
say `BEGIN IMMEDIATE`, or the start or the end of an Argon2 operation, of which two run at a time. A request takes the time once and uses
it whenever its transactions come to run (`at`), so a later one may come first. `login[a].pc` follows `AuthService.login`
(`new`, `verify`, `checking`, `busy` when no Argon2 operation was free, `done`), `change[c].pc` the change of the
password. A request that goes no further is one whose process died: its reservation ends with its lease. A request may be refused
for two reasons, and `RetryAfter` has the answer to both: the longest wait that its buckets ask for (`LongestWait`), or, if
they ask for none, one second when the rows of both tables are at their cap (`Crowded`). The cap is a variable, `cap`, that
no step changes, so that one run has a cap that is reached and one that is not.

### MediaFeed

An item is its place in the order of publication and id. `opening` is the request for the window around an anchor, step by
step: `list_media_feed` makes up to four reads in a session that never begins a transaction for them, so items may come
and go in between. `feed` is the feed on the screen, `current` that it is the one of `feedStateRef`; `generation`, `failed` and
`loads` are the refs of the viewer. The effect that asks for the next page (`LoadCursor`) may run at any time its
condition holds, not only when React runs it. `pageError` is the page that failed last, and `Retry` the button beside it, which
asks for that page once more, under the number of the feed that is current then; an error of the earlier feed is not cleared when the
next one is shown.

Histories: `kept`, what is stored ever since the feed was opened; `watched`, the item the user moved to; `mixed`, that a
page was merged which was asked for by a cursor of an earlier feed and not by one of this.

### Polling

`usePolling`, by which the pages load what they show. A controller is made when its effect runs (`Enable`), and is cancelled when the
page is left for another source or closed (`Disable`). `poll[c].flight` is its request: sent, answered by the server (which reads what it
knows, `world`, at that moment), or none. The answer reaches the page in `Answered`; `Failed` is an error as well as an abort, which an
answer under way may still outrun. `Settled` is the `finally` that both share. `reload[r]` is the promise of one
call of `reload`, with the state of the library at that call; what follows its resolution is left to the page. It has theorems
and no run: they hold for any number of controllers, calls and changes, and are in `FrontendProofs`, which takes the module by
`INSTANCE` (`Polled!`) beside `MediaFeed`; no page shares state with the viewer.

## 4. Runs

All with `tlc -config X.cfg M`. Deadlock is not checked: users may stop sending requests, bounds run out.

| Run | Module, cfg | Shows | Bounds and why they are enough |
|---|---|---|---|
| lives | MCJobQueue, JobQueueLives | `TypeOK`, `OneActiveSync`, `RunningIsHeld`, `ErasedWhenDeleted`, `OutcomesStay`, `ImplementsBoard` | one name and two identifiers: add, delete, add again, and the worker meeting the name as an owner; all eleven kinds of requests, two in flight at a time, 3 rows, a crash of each process: two enqueues of one profile can interleave with each other, the schedule and a recovery |
| live | MCJobQueue, JobQueueLive | `PendingDeletionHasJob`, `DueReachesEveryProfile`, `EveryJobEnds`, `LocalJobsEnd`, `DeletionSettles` | two profiles; imports, Sync Now, the schedule, changes of its interval and deletions, one request in flight, 4 rows, so that a round for both profiles meets jobs that are there; one worker crash, which may lose a round (`claim_due_sync` has moved the schedule on), and none of the web process (lost_deletion); a failed deletion may go unrecorded; the cooldown may last for ever, and only `EveryJobEnds` assumes it does not |
| lost_deletion | JobQueueLostDeletion | violation, see 6 | |
| sync_lists | MCProfileSync, ProfileSyncLists | `TypeOK`, `NothingSkipped`, `StopTakesEffect` | five items over two lists with one in both, pages of 2, bursts of up to 3, one story, one failure, one direct download or deletion: the failure may be that of its exclusion |
| sync_kills | ProfileSyncKills | `NothingSkipped`, `EverythingIsTried` | one kill and one failure, a pin, pages of 3; a burst fits on the page beside the pin. Beyond that it does not hold: sync_crash, and section 6 on pins |
| sync_crash | ProfileSyncCrash | violation, see 6 | |
| media | MCMediaFiles, MediaFiles | `TypeOK`, `SuccessIsWhole`, `AllOrNothing`, `CompleteIsLeft`, `FilesMatchRow`, `NothingStray` | three jobs, so that one can leave a state, a second meet it and a third judge it; two versions of the post, of two files and of one; two errors in a run (one more than `AllOrNothing` allows), two kills, one lost file; jobs are symmetric |
| imports | FolloweeImport, FolloweeImport | `TypeOK`, `OneOpenBatch`, `OwnCookies`, `ActiveHasJob`, `ScansAreKept`, `ScansEnd` | two requests in flight, two revisions that may be stored in either order, two batches, one account, one kill, one failure to record |
| cooldown | Cooldown, Cooldown | `TypeOK`, `BacksOff`, `NotAskedAgain`, `WorkResumes` | the real constants, the three modes, chains of 1, 8 and 9 errors with every mark, up to 37 answers, two crashes, two failures of the file |
| cooldown_overflow | Cooldown, CooldownOverflow | violation, see 6 | |
| login | MCLogin, Login | `TypeOK`, `RetryIsEnough`, `OnlyCurrentPassword`, `ImplementsLimit` | four attempts, three as the administrator, two addresses: buckets of two, and three for all, can be full, blocked, lapse and fill again while a password changes; requests up to one unit late, of a lease of one, a window and a block of two; a cap of 5 rows, which one attempt and what its failure leaves reach, and one of 12, which leaves the limits to decide |
| feed | MediaFeed, MediaFeed | `TypeOK`, `FeedIsWhole` | five items and pages of three: a window that is cut at either end, a page beyond it and one item more; two feeds, two changes of the library, one request that fails, which is enough for a page of the first feed to fail and be retried in the second; the next page is asked for at the end itself, so that pages of both directions can be under way |

The page size of the code is 12; with pages of 2 or 3 the boundary, the page count and the page save still meet
and part, and a burst can be smaller, equal or larger than a page. The real lease of a login is half a minute,
window and block are a quarter of an hour, the limits 5, 5 and 20; what the runs of `login` need of them is that they can be reached and end, and `LoginProofs` needs no values. Each property has a mutant in `PROJECT.json`:
a definition changed the way a bug would change it, under which the run fails.

**Fairness.** The worker loops until it dies and `src/compose.yaml:24` restarts it (`restart: unless-stopped`),
so its steps are weakly fair, and so is a request in flight. Users owe nothing: no request ever has to come. Nothing is
assumed of the cooldown in `JobQueue`, except where a property says so. In `ProfileSync` a run goes on and another is asked
for; `EverythingIsTried` assumes that the user leaves synchronization on. In `Cooldown` time passes. In `FolloweeImport` the
worker's steps are fair, restarts included; requests are not. `Login` and `MediaFeed` have safety properties only: a request may
stop anywhere.

## 5. Proofs

The theorems hold for any profiles, names, clients, attempts, buckets, lists, jobs, versions and bounds. The assumptions are the
named ones on the constants, and three that a theorem states for itself: for `PausesAreEarned` that the cap is six hours or
more, as it is; for `ShownDeletionsAreUnderWay` that the web process is not restarted; for `NothingIsSkipped` what `Calm` says.
The last two are needed: without them TLC finds the violations of section 6. Beside assumptions, four theorems except states
by name, which the code does not avoid and section 6 lists: `unrecorded` in `ShownDeletionsAreUnderWay`, `Hidden` in
`NothingIsSkipped`, `mixed` in `FeedStaysWhole`, and `forgotten` and `revived` in those of `FolloweeImport`.

- `TypeCorrect`, `WorkerHoldsRunningRow`. `TypeOK` alone is not inductive: `FinishJob` stores `outcome` in a row and a
  deletion indexes `status` by the target of a row. `TypeInv` adds what the worker holds at each `pc` (`OutcomeFits`),
  that the row it runs is the running one (`RunningIsHeld`), and that a job about a profile names one (`TargetFits`).
- `OneSyncPerProfile`, `QueueImplementsBoard`, `EndedStayEnded`. `BoardInv` adds that a profile with a job was born, since
  an import queues jobs without looking for active ones, which is right only because it does so for profiles it has
  just created, and that at most one row runs. The steps are first abstracted to what they do to `jobs` (fresh rows, or one row
  moved), and the board's invariant and actions follow from that.
- `DeletedStaysErased`. `ErasedInv` follows a deletion from the erasure to its end: between the two the worker's outcome
  already says succeeded while the row still runs, and a crash there must not lose what was done.
- `StopIsPrompt` (`ProfileSync`): the test of `is_syncable` stands between any two items. `StopTakesEffect` needs that
  nothing is counted while synchronization is on and that an item about to be processed was taken then.
- `OwnCookiesHold`, `JobsOfActive` (`FolloweeImport`). `Inv` adds what the worker may rely on although requests change
  its batch under it: nobody else settles the job it runs (`AtStep`), a batch without a job does not exist (`Linked`), so no
  revision changes under a run, and the loader it reads with is of that revision from `acquire` to `complete`. The steps of
  the web process are first abstracted to what they do to one batch (`Touched`), those of the worker to the batch in hand.
- `OneOpen`, `ScansKept`. A request for a scan looks at the oldest active and the newest ready batch only; that this is
  all there is to give up follows from the invariant itself (`ScanOpens`). A batch that `Mark` revives may be
  pending or failed and never one that is ready or imported, which is why `ScansKept` needs no exception for it.
- `TypesHold`, `SessionsKnowThePassword` (`Login`). The hash is compared again in the transaction that stores the session, and
  the change of the password revokes all others in its own.
- `ThrottleImplementsLimit`: each transaction is mapped to steps of `AttemptLimit`. `ThrottleInv` adds that a row of
  failures is not of the future (`Timely`) and that a request that has not begun holds no reservation. A reservation whose
  lease is over, and failures whose window is over, stay in the tables until a transaction drops them, which is why
  the abstract throttle may forget but need not. `LimitHolds` says what this gives: the limit of each bucket, for
  `AttemptLimit` alone; `TablesWithin` carries it over to the tables.
- `WaitIsEnough` (`Login`). A bucket asks for the end of its block, for the end of the first lease or, where nobody is under way, for
  the end of the window. That the first lease makes room is no matter of the tables alone: it needs that no limit is exceeded,
  which is `LimitHolds` carried over by the refinement (`TablesWithin`). That is said of `LongestWait`; what is answered is that
wait or, below all limits, the second of the cap, after which there is room as before. That a row of the tables is gone by
then is not claimed, and not so.
- `EndpointsAreLeftAlone` (`Cooldown`). `Covered` says what stands for each endpoint that refused: the pause, the answer still to
  be recorded or, for the native one, the circuit; `Awake` that no job asks while there is a pause.
- `PausesAreEarned`. `Earned` keeps, with each recorded answer, that the pause left and the time since cover the schedule; a
  crash loses an answer but never a recorded one.
- `ShownDeletionsAreUnderWay`. A profile is marked in one transaction and its job queued in another; `PendingInv` says that
  until the second the request is still in flight (`UnderWay`), and that a deletion is decided only when the profile was
  erased or its failure was recorded with it (`Undecided`), or noted as `unrecorded`.
- `TypesHold` (`ProfileSync`). What is in a list was published, so what is left of one is a set of numbers and has a newest item.
  A step only turns to lists of its pass, freezes those only that are not done, and no run begins while a direct download is half
  done (`Bonds`).
- `NothingIsSkipped`. For each list and each `pc`, `SkipInv` says that what the run has yet to read is the end of the list
  (`Shape`), that whatever lies below an item that may become a boundary, or was there when the run opened its lists, was
  dealt with, or is `Hidden` (`Dealt`), or is still to come (`Covered`), that a run stops at a boundary only when that holds of it (`Stopping`), and what
  a list has been brought to that is not part of the pass (`Settled`). Two lists may share an item, and dealing with it
  through the one makes it a boundary of the other; `Shared` says that such an item is known there too. A pin breaks `Shape`,
  a kill leaves saved items above a cursor that was not stored, and a cursor that is refused makes the historical pass read
  items that were published after the run began.
- `MediaFiles`: `TypesHold`, and each of its five properties from one invariant. It says where the files of the version at hand are at
  each step (`Arriving`), where those of the item as it was are (`Kept`), what the end of a run came to (`Settled`), that no
  directory mixes versions (`Pure`), that files without a row are told apart (`Named`), and that a job which was never cut off
  leaves no directory of its own (`Tidy`). `AllOrNothing` needs that a row is always that of a whole version, so that files
  of that version which match it are all of them.
- `PageIsKeptUp`, `NothingOlder` (`Polling`). `PollInv` says that a controller sends one request at a time and lives while it is the
  current one (`Lives`), that what is shown is no newer than an answer on its way (`Shows`), and that an open promise has
  a request to come, or one under way that was sent after it (`Promised`). A reload during a request
  queues another: that request may have been answered before the change which the reload is to show.

- `FeedTypesHold`, `FeedStaysWhole` (`MediaFeed`). `FeedIsWhole` says nothing of pages under way, and is not inductive without: a
  page may be merged long after it was read. `Inv` adds that a cursor is the item at its end of the feed (`Whole`);
  that a page read beyond an item holds all that was there ever since and lies in its reach, or has more behind it,
  whatever was saved and deleted since (`Covers`, for pages `Served` and for the halves of a window, `Halved`), which stays true
  because what is kept only shrinks; that a page for the open feed goes on from the cursor that is still at that end
  (`GoesOn`), which it does because no cursor is asked for twice at a time (`Apart`) and the pages of the other direction
  leave this end alone; that the same holds of the page the Retry button would ask for, which is not under way (`Fits`); and that while a window is being read no feed is open. `MergedIsWhole` is the heart: such a page is new as a whole
  and lies beyond the end, so that merging it keeps order, place and completeness, and an empty page is one
  behind which nothing is left. That there is a sorted list of a set at all (`SortedExists`), which the `CHOOSE` of
  `NewestFirst` needs, follows without induction: ranking the items is an injection of a finite set into a range of the
  same size, hence a bijection, and its inverse is the list.

Only model-checked: liveness, which the provers have no rules of fairness for (`DueReachesEveryProfile`, `EveryJobEnds`,
`LocalJobsEnd`, `DeletionSettles`, `EverythingIsTried`, `ScansEnd`, `WorkResumes`), and `NothingSkipped` where a pin, a kill or a
refused cursor does no harm, as in the bounds of `sync_kills`.

## 6. Where code and documents part

Each of the first three is a run with `expect: violation` and a finding in `PROJECT.json`.

- `PendingDeletionHasJob` with a web crash: marked, never queued, never resumed.
- `NothingSkipped` with a kill: the newest items of an interrupted first page become the boundary of the next run.
- `EveryAnswerPauses`: the 37th answer 429 in a row overflows before the cap.

More that the models contain. Six of them would falsify a property in the bounds of its run; the property excepts them by name:

- `_fail_job` (`services/job_runner.py:152`) passes over an exception of `mark_profile_deletion_failed` and ends the job: the profile
  stays in `deletion_pending` with no job, though nothing crashed, until somebody deletes it again. `PendingDeletionHasJob` and
  `DeletionSettles` except these profiles (`unrecorded`); the design promises a deletion that resumes (see the first finding).
- The same `try` passes over a failure to record that a scan of followees failed: its batch stays active with no job, and
  later scans with the same cookies return it. `ActiveHasJob` and `ScansEnd` except these batches (`forgotten`).
- A change of the settings (`db/library_repositories.py:1349`) sets the next round an interval ahead even if the last one
  is due and not yet claimed, so that round does not take place. `DueReachesEveryProfile` excepts it (`moved`).
- A direct download is saved before its exclusion is added (`instagram/public_adapter.py:446`). If the second transaction fails,
  the item is there without an exclusion, and the next run takes it for a boundary: what was published below it since
  the last run is not looked at. No kill is needed. `NothingSkipped` excepts these items (`Hidden`).
- `start_discovery` reads a batch before its transaction begins and then updates it by its identifier: one that
  `create_or_get_active` has given up in between is marked as running again, beside the batch that replaced it, although
  `db/followee_import_repositories.py:289` refuses batches that are "no longer active". `OneOpenBatch` therefore speaks of the time
  before a batch was revived (`revived`).
- While the viewer loads the next feed the old one stays on the screen; scrolling in it asks for a page by the old
  cursor under the new generation, and that page is merged into the new feed, whose cursor moves past items nobody has
  seen. If the page fails, its error stays beside the new feed, and the Retry button (`MediaViewerPage.tsx:627`) asks by the old
  cursor again. `FeedIsWhole` leaves these feeds out (`mixed`); `src/docs/superpowers/specs/2026-08-04-immersive-media-feed-design.md:170`
  asks for "newer and older cursor traversal without duplicates or omissions". For the same reason a feed that cannot be
  loaded leaves the old one on the screen instead of the error.

And these, which no property contradicts:

- A login that is refused for the cap on the tables is told to wait one second (`db/repositories.py:469`), which frees nothing by itself;
  `RetryIsEnough` says so much of the buckets only. A reservation that turns into a failure meanwhile can also
  make the wait too short: the property speaks of a client that meets no other attempt.
- A chain of errors that says both 429 and challenge is classified as a challenge, which pauses nothing: it is no plain
  refusal for `NotAskedAgain`.
- A 429 to the avatar of a direct download, or to the number of followees, is swallowed and pauses nothing.
- The worker ends the segment of its job in the database before it records the pause (`services/job_runner.py:106`); a failure
  there ends the worker and loses the answer. The histories of `Cooldown` count what it lived to take note of.
- Sync All (`SyncNext`) ends at the first profile that was stopped since the list was read; those behind it get no job.
- A saved pin is a boundary too (`Noted`), and hides what is new beyond the first page.
- A stored cursor that Instagram no longer takes is reset and the list read from its top (`Thaw`), in the pass that counts
  nothing as a boundary. Items published since the run began are read there. If such an item is in both lists, it is a
  boundary of the other one before what lies below it there was read, and the next run stops above it: with six items and lists
  that share three, `NothingSkipped` fails, which is why `Calm` excludes the two together.

And three of the file system, which the properties of `MediaFiles` leave out by name:

- A kill between the two renames leaves an item only in its `.backup`; the rerun removes it, and no code puts it back if
  Instagram refuses then.
- A kill between the row and the removal of the backup leaves the backup for ever: the rerun finds complete media.
- A kill between the files and the row leaves files that no row names (`orphaned`).

## 7. Not modelled, and why

Metadata of profiles and media, progress and wording of jobs, parsing of addresses and cookies, the wording of error
messages, avatars, start-up, the schema and static files carry no protocol: a test reaches them as well as a model would.
`services/profile_avatars.py` replaces one file as a whole, and nothing else depends on it. The repository methods of the
throttle that nothing calls, and the time a session was last seen, change nothing that is modelled. The frontend's pages
present what the interface returns; of its session (`auth/useSession.tsx`) nothing is modelled.
