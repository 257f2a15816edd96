------------------------------ MODULE MediaFiles ------------------------------
(***************************************************************************)
(* One media item of the library: its row, its files, and the jobs that    *)
(* download it, repair it and delete it.                                   *)
(*                                                                         *)
(*   instagram/media_processor.py     MediaProcessor                       *)
(*   services/job_runner.py           deletion of media and of profiles    *)
(*   db/library_repositories.py       upsert_media, delete_media_records   *)
(*                                                                         *)
(* The database and the disk have no common transaction: the files of a    *)
(* new download take the place of the old ones by renaming directories,    *)
(* then the row is written, and what goes wrong in between is undone by    *)
(* hand.  The worker can die between any two of these steps; its job is    *)
(* put back into the queue and runs again with the same identifier.        *)
(*                                                                         *)
(* A directory, and the assets of the row, map each position of the post   *)
(* to the download its file comes from.                                    *)
(*                                                                         *)
(* Simplifications:                                                        *)
(*  - a directory without files counts as none; removing a directory and   *)
(*    moving a file is one step;                                           *)
(*  - files of different downloads differ in size, which is how the code   *)
(*    recognises a file;                                                   *)
(*  - posters and image formats are part of the file at their position;    *)
(*  - a job looks at the item once each time it runs.                      *)
(***************************************************************************)
EXTENDS Naturals

CONSTANTS Jobs,      (* identifiers of jobs                                *)
          Versions,  (* the post as Instagram serves it, edits included    *)
          Size,      (* number of its files in each of them                *)
          Longest,   (* bound on that number                               *)
          NoVersion,
          NoJob,
          MaxErrors, (* bound: errors of the disk or database in one run   *)
          MaxKills,  (* bound: deaths of the worker                        *)
          MaxLosses  (* bound: files that get lost between jobs            *)

ASSUME MediaAssumption ==
    /\ Longest \in Nat
    /\ Size \in [Versions -> 1..Longest]
    /\ NoVersion \notin Versions
    /\ NoJob \notin Jobs
    /\ MaxErrors \in Nat
    /\ MaxKills \in Nat
    /\ MaxLosses \in Nat

VARIABLES
    jobs,      (* kind and state of each job                               *)
    row,       (* assets of the row in media_assets, Nothing without row   *)
    final,     (* media/profiles/<user>/<identity>                         *)
    staging,   (* per job: tmp/jobs/<job>/<identity>                       *)
    partial,   (* per job: .<identity>-<job>.partial beside final          *)
    backup,    (* per job: .<identity>-<job>.backup beside final           *)
    pc,        (* what the worker does next                                *)
    job,       (* the job it runs                                          *)
    version,   (* what the job resolved on Instagram                       *)
    preserved, (* preserved_directory is not None                          *)
    installed, (* new_final_installed                                      *)
    failed,    (* an exception is on its way                               *)
    listed,    (* assets a deletion has still to remove                    *)
    errors,    (* errors of the disk or database in this run               *)
    kills,
    losses,
    (* history *)
    before,    (* final and row when the run in hand began                 *)
    cut,       (* jobs that were killed or could not tidy up               *)
    orphaned   (* files were left in final for which no row was written    *)

disk    == <<final, staging, partial, backup>>
local   == <<version, preserved, installed, failed, listed>>
bounds  == <<errors, kills, losses>>
history == <<before, cut, orphaned>>
vars    == <<jobs, row, disk, pc, job, local, bounds, history>>

-----------------------------------------------------------------------------
Positions == 1..Longest

Files == [Positions -> Versions \cup {NoVersion}]

Nothing == [p \in Positions |-> NoVersion]

Has(files, p) == files[p] # NoVersion

(* All files of the post. *)
Whole(v) == [p \in Positions |-> IF p =< Size[v] THEN v ELSE NoVersion]

(* Mistake: the row alone is taken for the media.                          *)
CompleteByRow(files, assets) == assets # Nothing

(* _has_complete_local_assets *)
Complete(files, assets) ==
    /\ assets # Nothing
    /\ \A p \in Positions : Has(assets, p) => files[p] = assets[p]
    /\ \A p, q \in Positions : Has(assets, p) /\ q < p => Has(assets, q)

JobStates == {"unused", "pending", "running", "succeeded", "failed"}

Steps == {"idle", "check", "fetch", "map", "prepare", "move", "preserve",
          "install", "measure", "persist", "commit", "undo", "rollback",
          "restore", "cleanup", "list", "unlink", "erase", "finish"}

TypeOK ==
    /\ jobs \in [Jobs -> [kind: {"download", "delete"}, state: JobStates]]
    /\ row \in Files
    /\ final \in Files
    /\ staging \in [Jobs -> Files]
    /\ partial \in [Jobs -> Files]
    /\ backup \in [Jobs -> Files]
    /\ pc \in Steps
    /\ job \in Jobs \cup {NoJob}
    /\ version \in Versions \cup {NoVersion}
    /\ preserved \in BOOLEAN
    /\ installed \in BOOLEAN
    /\ failed \in BOOLEAN
    /\ listed \subseteq Positions
    /\ errors \in 0..MaxErrors
    /\ kills \in 0..MaxKills
    /\ losses \in 0..MaxLosses
    /\ before \in [final: Files, row: Files]
    /\ cut \subseteq Jobs
    /\ orphaned \in BOOLEAN

Init ==
    /\ jobs = [j \in Jobs |-> [kind |-> "download", state |-> "unused"]]
    /\ row = Nothing
    /\ final = Nothing
    /\ staging = [j \in Jobs |-> Nothing]
    /\ partial = [j \in Jobs |-> Nothing]
    /\ backup = [j \in Jobs |-> Nothing]
    /\ pc = "idle"
    /\ job = NoJob
    /\ version = NoVersion
    /\ preserved = FALSE
    /\ installed = FALSE
    /\ failed = FALSE
    /\ listed = {}
    /\ errors = 0
    /\ kills = 0
    /\ losses = 0
    /\ before = [final |-> Nothing, row |-> Nothing]
    /\ cut = {}
    /\ orphaned = FALSE

-----------------------------------------------------------------------------
(* Around the worker.                                                      *)

(* A request to download the item, alone or with its profile, or to        *)
(* delete it.                                                              *)
Request(j, kind) ==
    /\ jobs[j].state = "unused"
    /\ jobs' = [jobs EXCEPT ![j] = [kind |-> kind, state |-> "pending"]]
    /\ UNCHANGED <<row, disk, pc, job, local, bounds, history>>

(* A file disappears from the library. *)
LoseFile(p) ==
    /\ pc = "idle"
    /\ Has(final, p)
    /\ losses < MaxLosses
    /\ final' = [final EXCEPT ![p] = NoVersion]
    /\ losses' = losses + 1
    /\ UNCHANGED <<jobs, row, staging, partial, backup, pc, job, local, errors,
                   kills, history>>

(* claim_next and the dispatch on the kind of the job *)
Claim(j) ==
    /\ pc = "idle"
    /\ jobs[j].state = "pending"
    /\ jobs' = [jobs EXCEPT ![j].state = "running"]
    /\ job' = j
    /\ pc' = IF jobs[j].kind = "delete" THEN "list" ELSE "check"
    /\ before' = [final |-> final, row |-> row]
    /\ UNCHANGED <<row, disk, local, bounds, cut, orphaned>>

(* The run is over, and with it what it held in memory. *)
LeaveRun ==
    /\ pc' = "idle"
    /\ job' = NoJob
    /\ version' = NoVersion
    /\ preserved' = FALSE
    /\ installed' = FALSE
    /\ failed' = FALSE
    /\ listed' = {}
    /\ errors' = 0
    /\ before' = [final |-> Nothing, row |-> Nothing]

(* The job is marked in its own transaction, after its work. *)
Finish ==
    /\ pc = "finish"
    /\ jobs' = [jobs EXCEPT ![job].state =
                    IF failed THEN "failed" ELSE "succeeded"]
    /\ LeaveRun
    /\ UNCHANGED <<row, disk, kills, losses, cut, orphaned>>

(* The new files are in place and the row does not know it. *)
Unrecorded ==
    \/ pc \in {"measure", "persist"}
    \/ pc \in {"undo", "rollback"} /\ installed

(* The worker dies and recover_interrupted puts its job back. *)
Kill ==
    /\ pc # "idle"
    /\ kills < MaxKills
    /\ kills' = kills + 1
    /\ jobs' = [jobs EXCEPT ![job].state = "pending"]
    /\ LeaveRun
    /\ cut' = cut \cup {job}
    /\ orphaned' = (orphaned \/ Unrecorded)
    /\ UNCHANGED <<row, disk, losses>>

-----------------------------------------------------------------------------
(* process, when nothing goes wrong.                                       *)

(* Mistake: complete media is downloaded again.                            *)
CheckNothing ==
    /\ pc = "check"
    /\ pc' = "fetch"
    /\ staging' = [staging EXCEPT ![job] = Nothing]
    /\ UNCHANGED <<jobs, row, final, partial, backup, job, local, bounds,
                   history>>

CheckExisting ==
    /\ pc = "check"
    /\ IF Complete(final, row)
       THEN /\ pc' = "finish"
            /\ UNCHANGED staging
       ELSE /\ pc' = "fetch"
            /\ staging' = [staging EXCEPT ![job] = Nothing]
    /\ UNCHANGED <<jobs, row, final, partial, backup, job, local, bounds,
                   history>>

(* _resolve and _download: Instaloader may leave out files of the post. *)
Fetch(v, got) ==
    /\ pc = "fetch"
    /\ version' = v
    /\ staging' = [staging EXCEPT ![job] =
                       [p \in Positions |->
                            IF p \in got /\ p =< Size[v] THEN v ELSE NoVersion]]
    /\ pc' = "map"
    /\ UNCHANGED <<jobs, row, final, partial, backup, job, preserved, installed,
                   failed, listed, bounds, history>>

(* _map_staged_assets: a content at each position *)
MapStagedAssets ==
    /\ pc = "map"
    /\ \A p \in 1..Size[version] : Has(staging[job], p)
    /\ pc' = "prepare"
    /\ UNCHANGED <<jobs, row, disk, job, local, bounds, history>>

(* _finalize_assets removes what an earlier run of the job has left. *)
Prepare ==
    /\ pc = "prepare"
    /\ backup' = [backup EXCEPT ![job] = Nothing]
    /\ partial' = [partial EXCEPT ![job] = Nothing]
    /\ pc' = "move"
    /\ UNCHANGED <<jobs, row, final, staging, job, local, bounds, history>>

MoveAsset(p) ==
    /\ pc = "move"
    /\ Has(staging[job], p)
    /\ partial' = [partial EXCEPT ![job][p] = staging[job][p]]
    /\ staging' = [staging EXCEPT ![job][p] = NoVersion]
    /\ UNCHANGED <<jobs, row, final, backup, pc, job, local, bounds, history>>

AllMoved ==
    /\ pc = "move"
    /\ staging[job] = Nothing
    /\ pc' = "preserve"
    /\ UNCHANGED <<jobs, row, disk, job, local, bounds, history>>

Preserve ==
    /\ pc = "preserve"
    /\ IF final # Nothing
       THEN /\ backup' = [backup EXCEPT ![job] = final]
            /\ final' = Nothing
            /\ preserved' = TRUE
       ELSE UNCHANGED <<backup, final, preserved>>
    /\ pc' = "install"
    /\ UNCHANGED <<jobs, row, staging, partial, job, version, installed, failed,
                   listed, bounds, history>>

Install ==
    /\ pc = "install"
    /\ final' = partial[job]
    /\ partial' = [partial EXCEPT ![job] = Nothing]
    /\ installed' = TRUE
    /\ pc' = "measure"
    /\ UNCHANGED <<jobs, row, staging, backup, job, version, preserved, failed,
                   listed, bounds, history>>

Measure ==
    /\ pc = "measure"
    /\ pc' = "persist"
    /\ UNCHANGED <<jobs, row, disk, job, local, bounds, history>>

(* upsert_media, with the assets that were measured *)
Persist ==
    /\ pc = "persist"
    /\ row' = final
    /\ orphaned' = FALSE
    /\ pc' = "commit"
    /\ UNCHANGED <<jobs, disk, job, local, bounds, before, cut>>

(* Mistake: the backup stays.                                              *)
CommitNothing ==
    /\ pc = "commit"
    /\ pc' = "cleanup"
    /\ UNCHANGED <<jobs, row, disk, job, local, bounds, history>>

(* _commit_asset_finalization *)
Commit ==
    /\ pc = "commit"
    /\ backup' = [backup EXCEPT ![job] = IF preserved THEN Nothing ELSE @]
    /\ pc' = "cleanup"
    /\ UNCHANGED <<jobs, row, final, staging, partial, job, local, bounds,
                   history>>

(* The finally clause of process. *)
Cleanup ==
    /\ pc = "cleanup"
    /\ staging' = [staging EXCEPT ![job] = Nothing]
    /\ pc' = "finish"
    /\ UNCHANGED <<jobs, row, final, partial, backup, job, local, bounds,
                   history>>

-----------------------------------------------------------------------------
(* What goes wrong, and how it is undone.                                  *)

(* An exception goes on from here, to a handler or to the finally clause. *)
Raise(handler) ==
    /\ failed' = TRUE
    /\ pc' = handler
    /\ UNCHANGED <<version, preserved, installed, listed>>

(* Instagram does not deliver, or not all files of the post. *)
FailItem ==
    /\ \/ pc = "fetch"
       \/ pc = "map" /\ \E p \in 1..Size[version] : ~Has(staging[job], p)
    /\ Raise("cleanup")
    /\ UNCHANGED <<jobs, row, disk, job, bounds, history>>

(* Where an error of the disk or the database leads. *)
Handler ==
    CASE pc \in {"move", "preserve", "install", "measure"} -> "undo"
      [] pc = "persist" -> "rollback"
      [] pc \in {"check", "cleanup", "list", "unlink", "erase"} -> "finish"
      [] OTHER -> "cleanup"

Fallible == {"check", "prepare", "move", "preserve", "install", "measure",
             "persist", "commit", "undo", "rollback", "restore", "cleanup",
             "list", "unlink", "erase"}

Tidying == {"prepare", "commit", "undo", "rollback", "restore", "cleanup"}

Error ==
    /\ pc \in Fallible
    /\ errors < MaxErrors
    /\ errors' = errors + 1
    /\ Raise(Handler)
    /\ cut' = IF pc \in Tidying THEN cut \cup {job} ELSE cut
    /\ orphaned' = (orphaned \/ (pc \in {"undo", "rollback"} /\ installed))
    /\ UNCHANGED <<jobs, row, disk, job, kills, losses, before>>

(* The except clause of _finalize_assets. *)
Undo ==
    /\ pc = "undo"
    /\ partial' = [partial EXCEPT ![job] = Nothing]
    /\ pc' = IF installed \/ preserved THEN "rollback" ELSE "cleanup"
    /\ UNCHANGED <<jobs, row, final, staging, backup, job, local, bounds,
                   history>>

(* Mistake: the old files are not put back.                                *)
RollbackOnly ==
    /\ pc = "rollback"
    /\ final' = Nothing
    /\ pc' = "cleanup"
    /\ UNCHANGED <<jobs, row, staging, partial, backup, job, local, bounds,
                   history>>

(* _rollback_asset_finalization: first the new files *)
Rollback ==
    /\ pc = "rollback"
    /\ final' = Nothing
    /\ pc' = IF preserved THEN "restore" ELSE "cleanup"
    /\ UNCHANGED <<jobs, row, staging, partial, backup, job, local, bounds,
                   history>>

(* then the old ones *)
Restore ==
    /\ pc = "restore"
    /\ final' = backup[job]
    /\ backup' = [backup EXCEPT ![job] = Nothing]
    /\ pc' = "cleanup"
    /\ UNCHANGED <<jobs, row, staging, partial, job, local, bounds, history>>

-----------------------------------------------------------------------------
(* _delete_media and _delete_profile: the files one by one, then the row.  *)

(* Mistake: positions counted from 0.                                      *)
ListFromZero ==
    /\ pc = "list"
    /\ listed' = {p \in 0..(Longest - 1) : Has(row, p + 1)}
    /\ pc' = IF row = Nothing THEN "finish" ELSE "unlink"
    /\ UNCHANGED <<jobs, row, disk, job, version, preserved, installed, failed,
                   bounds, history>>

(* Mistake: the row goes first.                                            *)
EraseFirst ==
    /\ pc = "list"
    /\ listed' = {p \in Positions : Has(row, p)}
    /\ row' = Nothing
    /\ pc' = "unlink"
    /\ UNCHANGED <<jobs, disk, job, version, preserved, installed, failed,
                   bounds, history>>

ListAssets ==
    /\ pc = "list"
    /\ listed' = {p \in Positions : Has(row, p)}
    /\ pc' = IF row = Nothing THEN "finish" ELSE "unlink"
    /\ UNCHANGED <<jobs, row, disk, job, version, preserved, installed, failed,
                   bounds, history>>

DeleteAsset(p) ==
    /\ pc = "unlink"
    /\ p \in listed
    /\ final' = [final EXCEPT ![p] = NoVersion]
    /\ listed' = listed \ {p}
    /\ UNCHANGED <<jobs, row, staging, partial, backup, pc, job, version,
                   preserved, installed, failed, bounds, history>>

AllDeleted ==
    /\ pc = "unlink"
    /\ listed = {}
    /\ pc' = "erase"
    /\ UNCHANGED <<jobs, row, disk, job, local, bounds, history>>

(* delete_media_records *)
EraseRecords ==
    /\ pc = "erase"
    /\ row' = Nothing
    /\ pc' = "finish"
    /\ UNCHANGED <<jobs, disk, job, local, bounds, history>>

-----------------------------------------------------------------------------
Process ==
    \/ CheckExisting
    \/ \E v \in Versions, got \in SUBSET Positions : Fetch(v, got)
    \/ MapStagedAssets \/ Prepare
    \/ \E p \in Positions : MoveAsset(p)
    \/ AllMoved \/ Preserve \/ Install \/ Measure \/ Persist \/ Commit
    \/ Cleanup \/ FailItem \/ Undo \/ Rollback \/ Restore

Delete ==
    \/ ListAssets
    \/ \E p \in Positions : DeleteAsset(p)
    \/ AllDeleted \/ EraseRecords

Next ==
    \/ \E j \in Jobs, kind \in {"download", "delete"} : Request(j, kind)
    \/ \E p \in Positions : LoseFile(p)
    \/ \E j \in Jobs : Claim(j)
    \/ Process \/ Delete \/ Error \/ Finish \/ Kill

Spec == Init /\ [][Next]_vars

-----------------------------------------------------------------------------
(* What the library relies on.                                             *)

Downloading == job # NoJob /\ jobs[job].kind = "download"

(* A download that reports success, whether it saved the item or found it, *)
(* leaves a row and files that are all of one and the same download, with  *)
(* no file missing.  (process, _map_staged_assets,                         *)
(* _has_complete_local_assets)                                             *)
SuccessIsWhole ==
    pc = "finish" /\ Downloading /\ ~failed =>
        \E v \in Versions : row = Whole(v) /\ final = Whole(v)

(* A download in which at most one thing failed leaves the row and files   *)
(* of before, or complete new ones: the exception handlers of              *)
(* _finalize_assets and process undo what was done wherever it happened.   *)
AllOrNothing ==
    pc = "finish" /\ Downloading /\ errors =< 1 =>
        \/ row = before.row /\ final = before.final
        \/ Complete(final, row)

(* Complete media is never touched again by a download, not even while it  *)
(* runs: a browser can read it all the time.  (process, get_asset)         *)
CompleteIsLeft ==
    Downloading
      /\ (\A p \in Positions :
             Has(before.row, p) => before.final[p] = before.row[p])
      /\ before.row # Nothing
      => row = before.row /\ final = before.final

(* Between jobs the library directory has no file that the row does not    *)
(* name, nor another version of one, unless a run was cut off after it     *)
(* installed its files and before it wrote the row.  In particular no file *)
(* outlives the row when media is deleted.  (_delete_media, upsert_media)  *)
FilesMatchRow ==
    pc = "idle" /\ ~orphaned =>
        \A p \in Positions : Has(final, p) => final[p] = row[p]

(* A job that ended without having been killed, or hindered while it tidied*)
(* up, leaves nothing in its staging, partial and backup directories.      *)
(* (_commit_asset_finalization, _finalize_assets, the finally clauses)     *)
NothingStray ==
    \A j \in Jobs \ cut : jobs[j].state \in {"succeeded", "failed"} =>
        /\ staging[j] = Nothing
        /\ partial[j] = Nothing
        /\ backup[j] = Nothing

=============================================================================
