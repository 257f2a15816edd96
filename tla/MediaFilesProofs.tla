--------------------------- MODULE MediaFilesProofs ---------------------------
(* Proofs about MediaFiles, for any jobs, versions, sizes and bounds. *)
EXTENDS MediaFiles, TLAPS

-----------------------------------------------------------------------------
(* The inductive invariant.                                                *)

Saving == {"check", "fetch", "map", "prepare", "move", "preserve", "install",
           "measure", "persist", "commit", "undo", "rollback", "restore", "cleanup"}

Deleting == {"list", "unlink", "erase"}

Undoing == {"undo", "rollback", "restore"}

(* The worker has a running job at each step but idle, of the right kind.  *)
Held ==
    /\ pc = "idle" <=> job = NoJob
    /\ job # NoJob => jobs[job].state = "running"
    /\ pc \in Saving => jobs[job].kind = "download"
    /\ pc \in Deleting => jobs[job].kind = "delete"

(* What its local variables say at each step. *)
Locals ==
    /\ pc \in {"idle", "check", "fetch", "map", "prepare", "move", "preserve"} \cup Deleting
         => ~preserved /\ ~installed
    /\ pc = "install" => ~installed
    /\ pc \in {"measure", "persist", "commit"} => installed
    /\ pc = "rollback" => installed \/ preserved
    /\ pc = "restore" => preserved
    /\ pc \in {"map", "prepare", "move", "preserve", "install", "measure", "persist", "commit"}
         => version \in Versions
    /\ pc \in Undoing => failed
    /\ pc \in {"idle"} \cup (Saving \ (Undoing \cup {"cleanup"})) => ~failed
    /\ pc \in Undoing => errors >= 1

(* The files of one version, some of them missing perhaps. *)
OfOne(files) ==
    /\ \A p \in Positions : Has(files, p) => p =< Size[files[p]]
    /\ \A p, q \in Positions : Has(files, p) /\ Has(files, q) => files[p] = files[q]

Pure ==
    /\ OfOne(final) /\ OfOne(before.final)
    /\ row = Nothing \/ \E v \in Versions : row = Whole(v)
    /\ before.row = Nothing \/ \E v \in Versions : before.row = Whole(v)

(* What the job has of the new files, step by step. *)
Arriving ==
    /\ pc = "map" => \A p \in Positions : Has(staging[job], p) => staging[job][p] = Whole(version)[p]
    /\ pc = "prepare" => staging[job] = Whole(version)
    /\ pc = "move" =>
         \A p \in Positions :
           \/ staging[job][p] = Whole(version)[p] /\ partial[job][p] = NoVersion
           \/ staging[job][p] = NoVersion /\ partial[job][p] = Whole(version)[p]
    /\ pc \in {"preserve", "install"} => partial[job] = Whole(version)
    /\ pc \in {"measure", "persist", "commit"} => final = Whole(version)
    /\ pc = "commit" => row = final

(* Where the old files are: still in place, in the backup, or nowhere if   *)
(* there were none.                                                        *)
Kept ==
    /\ pc \in (Saving \ {"commit", "cleanup"}) => row = before.row
    /\ pc \in {"check", "fetch", "map", "prepare", "move", "preserve"} => final = before.final
    /\ pc \in {"install", "restore"} => final = Nothing
    /\ pc \in {"install", "measure", "persist"} \cup Undoing =>
         /\ preserved => backup[job] = before.final
         /\ preserved /\ ~installed => final = Nothing
         /\ ~preserved /\ installed => before.final = Nothing
         /\ ~preserved /\ ~installed => final = before.final

(* What the end of a download has come to. *)
Settled ==
    pc \in {"cleanup", "finish"} /\ Downloading =>
        /\ ~failed => Complete(final, row)
        /\ errors =< 1 => (row = before.row /\ final = before.final) \/ Complete(final, row)

(* Complete media ends a download at its first step. *)
LeftAlone ==
    Downloading /\ Complete(before.final, before.row) =>
        pc \in {"check", "finish"} /\ row = before.row /\ final = before.final

Matches(files, assets) == \A p \in Positions : Has(files, p) => files[p] = assets[p]

(* The files are those the row names, while none are known to be others;   *)
(* so were the old ones, as long as they may come back.                    *)
Named ==
    /\ ~orphaned /\ ~Unrecorded => Matches(final, row)
    /\ ~orphaned /\ pc \in (Saving \ {"commit", "cleanup"}) => Matches(before.final, before.row)
    /\ pc = "unlink" => \A p \in Positions : Has(row, p) => p \in listed \/ ~Has(final, p)
    /\ pc = "erase" => \A p \in Positions : Has(row, p) => ~Has(final, p)

(* What is in the directories of a job that was never cut off. *)
Tidy ==
    \A j \in Jobs \ cut :
        /\ staging[j] # Nothing =>
             j = job /\ pc \in (Saving \ {"check", "fetch"})
        /\ partial[j] # Nothing =>
             j = job /\ pc \in {"move", "preserve", "install", "undo"}
        /\ backup[j] # Nothing =>
             j = job /\ preserved /\ pc \in {"install", "measure", "persist", "commit"} \cup Undoing

Inv ==
    /\ TypeOK
    /\ Held /\ Locals /\ Pure /\ Arriving /\ Kept
    /\ Settled /\ LeftAlone /\ Named /\ Tidy


-----------------------------------------------------------------------------
(* Types.                                                                  *)

LEMMA FilesFacts ==
    /\ Nothing \in Files
    /\ \A v \in Versions : Whole(v) \in Files
    /\ \A f \in Files, p \in Positions :
         /\ [f EXCEPT ![p] = NoVersion] \in Files
         /\ f[p] \in Versions \cup {NoVersion}
    /\ \A f, g \in Files, p \in Positions : [f EXCEPT ![p] = g[p]] \in Files
BY DEF Files, Nothing, Whole

LEMMA DirectoriesFacts ==
    ASSUME NEW d \in [Jobs -> Files], NEW j, NEW f \in Files
    PROVE  [d EXCEPT ![j] = f] \in [Jobs -> Files]
OBVIOUS

LEMMA JobsFacts ==
    ASSUME NEW s \in [Jobs -> [kind : {"download", "delete"}, state : JobStates]], NEW j
    PROVE  /\ \A t \in JobStates : [s EXCEPT ![j].state = t] \in [Jobs -> [kind : {"download", "delete"}, state : JobStates]]
           /\ \A k \in {"download", "delete"}, t \in JobStates :
                [s EXCEPT ![j] = [kind |-> k, state |-> t]] \in [Jobs -> [kind : {"download", "delete"}, state : JobStates]]
OBVIOUS

LEMMA InitType == Init => TypeOK
<1> SUFFICES ASSUME Init PROVE TypeOK
  OBVIOUS
<1>1. jobs \in [Jobs -> [kind : {"download", "delete"}, state : JobStates]]
  BY DEF Init, JobStates
<1>2. row \in Files /\ final \in Files /\ before \in [final : Files, row : Files]
  BY FilesFacts DEF Init
<1>3. staging \in [Jobs -> Files] /\ partial \in [Jobs -> Files] /\ backup \in [Jobs -> Files]
  BY FilesFacts DEF Init
<1>4. pc \in Steps /\ listed \subseteq Positions /\ cut \subseteq Jobs
  BY DEF Init, Steps
<1>5. errors \in 0..MaxErrors /\ kills \in 0..MaxKills /\ losses \in 0..MaxLosses
  BY MediaAssumption DEF Init
<1> QED
  BY <1>1, <1>2, <1>3, <1>4, <1>5 DEF Init, TypeOK

(* The end of a run. *)
LEMMA LeaveRunType ==
    ASSUME TypeOK, LeaveRun
    PROVE  /\ pc' \in Steps /\ job' \in Jobs \cup {NoJob} /\ version' \in Versions \cup {NoVersion}
           /\ preserved' \in BOOLEAN /\ installed' \in BOOLEAN /\ failed' \in BOOLEAN
           /\ listed' \subseteq Positions /\ errors' \in 0..MaxErrors
           /\ before' \in [final : Files, row : Files]
<1>1. before' \in [final : Files, row : Files]
  BY FilesFacts DEF LeaveRun
<1>2. errors' \in 0..MaxErrors
  BY MediaAssumption DEF LeaveRun
<1>3. preserved' \in BOOLEAN /\ installed' \in BOOLEAN /\ failed' \in BOOLEAN
  BY DEF LeaveRun
<1> QED
  BY <1>1, <1>2, <1>3 DEF LeaveRun, Steps

LEMMA NextType == TypeOK /\ Held /\ [Next]_vars => TypeOK'
<1> SUFFICES ASSUME TypeOK, Held, [Next]_vars PROVE TypeOK'
  OBVIOUS
<1>1. ASSUME NEW j \in Jobs, NEW kind \in {"download", "delete"}, Request(j, kind) PROVE TypeOK'
  <2>1. jobs' \in [Jobs -> [kind : {"download", "delete"}, state : JobStates]]
    BY <1>1, JobsFacts DEF Request, TypeOK, JobStates
  <2> QED
    BY <1>1, <2>1 DEF Request, TypeOK, disk, local, bounds, history
<1>2. ASSUME NEW p \in Positions, LoseFile(p) PROVE TypeOK'
  <2>1. final' \in Files
    BY <1>2, FilesFacts DEF LoseFile, TypeOK
  <2>2. losses' \in 0..MaxLosses
    BY <1>2, MediaAssumption DEF LoseFile, TypeOK
  <2> QED
    BY <1>2, <2>1, <2>2 DEF LoseFile, TypeOK, local, history
<1>3. ASSUME NEW j \in Jobs, Claim(j) PROVE TypeOK'
  <2>1. jobs' \in [Jobs -> [kind : {"download", "delete"}, state : JobStates]]
    BY <1>3, JobsFacts DEF Claim, TypeOK, JobStates
  <2>2. pc' \in Steps /\ job' \in Jobs \cup {NoJob} /\ before' \in [final : Files, row : Files]
    BY <1>3 DEF Claim, TypeOK, Steps
  <2> QED
    BY <1>3, <2>1, <2>2 DEF Claim, TypeOK, disk, local, bounds
<1>4. CASE CheckExisting
  <2>1. staging' \in [Jobs -> Files]
    BY <1>4, FilesFacts, DirectoriesFacts DEF CheckExisting, TypeOK
  <2>2. pc' \in Steps
    BY <1>4 DEF CheckExisting, Steps
  <2> QED
    BY <1>4, <2>1, <2>2 DEF CheckExisting, TypeOK, local, bounds, history
<1>5. ASSUME NEW v \in Versions, NEW got \in SUBSET Positions, Fetch(v, got) PROVE TypeOK'
  <2>1. [p \in Positions |-> IF p \in got /\ p =< Size[v] THEN v ELSE NoVersion] \in Files
    BY DEF Files
  <2>2. staging' \in [Jobs -> Files]
    BY <1>5, <2>1, DirectoriesFacts DEF Fetch, TypeOK
  <2>3. pc' \in Steps /\ version' \in Versions \cup {NoVersion}
    BY <1>5 DEF Fetch, Steps
  <2> QED
    BY <1>5, <2>2, <2>3 DEF Fetch, TypeOK, bounds, history
<1>6. CASE MapStagedAssets
  BY <1>6 DEF MapStagedAssets, TypeOK, disk, local, bounds, history, Steps
<1>7. CASE Prepare
  <2>1. backup' \in [Jobs -> Files] /\ partial' \in [Jobs -> Files]
    BY <1>7, FilesFacts, DirectoriesFacts DEF Prepare, TypeOK
  <2>2. pc' \in Steps
    BY <1>7 DEF Prepare, Steps
  <2> QED
    BY <1>7, <2>1, <2>2 DEF Prepare, TypeOK, local, bounds, history
<1>8. ASSUME NEW p \in Positions, MoveAsset(p) PROVE TypeOK'
  <2>0. job \in Jobs
    BY <1>8 DEF MoveAsset, Held, TypeOK
  <2>1. [staging[job] EXCEPT ![p] = NoVersion] \in Files /\ [partial[job] EXCEPT ![p] = staging[job][p]] \in Files
    BY <2>0, FilesFacts DEF TypeOK
  <2>2. staging' = [staging EXCEPT ![job] = [staging[job] EXCEPT ![p] = NoVersion]]
    BY <1>8 DEF MoveAsset
  <2>3. partial' = [partial EXCEPT ![job] = [partial[job] EXCEPT ![p] = staging[job][p]]]
    BY <1>8 DEF MoveAsset
  <2>4. staging' \in [Jobs -> Files] /\ partial' \in [Jobs -> Files]
    BY <2>1, <2>2, <2>3, DirectoriesFacts DEF TypeOK
  <2> QED
    BY <1>8, <2>4 DEF MoveAsset, TypeOK, local, bounds, history
<1>9. CASE AllMoved
  BY <1>9 DEF AllMoved, TypeOK, disk, local, bounds, history, Steps
<1>10. CASE Preserve
  <2>1. backup' \in [Jobs -> Files] /\ final' \in Files
    <3>1. CASE final # Nothing
      <4>1. backup' = [backup EXCEPT ![job] = final] /\ final' = Nothing
        BY <1>10, <3>1 DEF Preserve
      <4> QED
        BY <4>1, FilesFacts, DirectoriesFacts DEF TypeOK
    <3>2. CASE final = Nothing
      BY <1>10, <3>2 DEF Preserve, TypeOK
    <3> QED
      BY <3>1, <3>2
  <2>2. preserved' \in BOOLEAN
    <3>1. CASE final # Nothing
      BY <1>10, <3>1 DEF Preserve
    <3>2. CASE final = Nothing
      BY <1>10, <3>2 DEF Preserve, TypeOK
    <3> QED
      BY <3>1, <3>2
  <2>3. pc' \in Steps
    BY <1>10 DEF Preserve, Steps
  <2> QED
    BY <1>10, <2>1, <2>2, <2>3 DEF Preserve, TypeOK, bounds, history
<1>11. CASE Install
  <2>0. job \in Jobs
    BY <1>11 DEF Install, Held, TypeOK
  <2>1. partial' \in [Jobs -> Files] /\ final' \in Files
    BY <1>11, <2>0, FilesFacts, DirectoriesFacts DEF Install, TypeOK
  <2>2. installed' \in BOOLEAN /\ pc' \in Steps
    BY <1>11 DEF Install, Steps
  <2> QED
    BY <1>11, <2>1, <2>2 DEF Install, TypeOK, bounds, history
<1>12. CASE Measure
  BY <1>12 DEF Measure, TypeOK, disk, local, bounds, history, Steps
<1>13. CASE Persist
  BY <1>13 DEF Persist, TypeOK, disk, local, bounds, Steps
<1>14. CASE Commit
  <2>1. backup' \in [Jobs -> Files]
    <3>1. CASE preserved
      BY <1>14, <3>1, FilesFacts, DirectoriesFacts DEF Commit, TypeOK
    <3>2. CASE ~preserved
      BY <1>14, <3>2 DEF Commit, TypeOK
    <3> QED
      BY <3>1, <3>2
  <2>2. pc' \in Steps
    BY <1>14 DEF Commit, Steps
  <2> QED
    BY <1>14, <2>1, <2>2 DEF Commit, TypeOK, local, bounds, history
<1>15. CASE Cleanup
  <2>1. staging' \in [Jobs -> Files]
    BY <1>15, FilesFacts, DirectoriesFacts DEF Cleanup, TypeOK
  <2>2. pc' \in Steps
    BY <1>15 DEF Cleanup, Steps
  <2> QED
    BY <1>15, <2>1, <2>2 DEF Cleanup, TypeOK, local, bounds, history
<1>16. CASE FailItem
  BY <1>16 DEF FailItem, Raise, TypeOK, disk, bounds, history, Steps
<1>17. CASE Undo
  <2>1. partial' \in [Jobs -> Files]
    BY <1>17, FilesFacts, DirectoriesFacts DEF Undo, TypeOK
  <2>2. pc' \in Steps
    BY <1>17 DEF Undo, Steps
  <2> QED
    BY <1>17, <2>1, <2>2 DEF Undo, TypeOK, local, bounds, history
<1>18. CASE Rollback
  <2>1. final' \in Files /\ pc' \in Steps
    BY <1>18, FilesFacts DEF Rollback, Steps
  <2> QED
    BY <1>18, <2>1 DEF Rollback, TypeOK, local, bounds, history
<1>19. CASE Restore
  <2>0. job \in Jobs
    BY <1>19 DEF Restore, Held, TypeOK
  <2>1. backup' \in [Jobs -> Files] /\ final' \in Files
    BY <1>19, <2>0, FilesFacts, DirectoriesFacts DEF Restore, TypeOK
  <2>2. pc' \in Steps
    BY <1>19 DEF Restore, Steps
  <2> QED
    BY <1>19, <2>1, <2>2 DEF Restore, TypeOK, local, bounds, history
<1>20. CASE ListAssets
  <2>1. listed' \subseteq Positions /\ pc' \in Steps
    BY <1>20 DEF ListAssets, Steps
  <2> QED
    BY <1>20, <2>1 DEF ListAssets, TypeOK, disk, bounds, history
<1>21. ASSUME NEW p \in Positions, DeleteAsset(p) PROVE TypeOK'
  <2>1. final' \in Files /\ listed' \subseteq Positions
    BY <1>21, FilesFacts DEF DeleteAsset, TypeOK
  <2> QED
    BY <1>21, <2>1 DEF DeleteAsset, TypeOK, bounds, history
<1>22. CASE AllDeleted
  BY <1>22 DEF AllDeleted, TypeOK, disk, local, bounds, history, Steps
<1>23. CASE EraseRecords
  BY <1>23, FilesFacts DEF EraseRecords, TypeOK, disk, local, bounds, history, Steps
<1>24. CASE Error
  <2>1. Handler \in Steps
    BY DEF Handler, Steps
  <2>2. errors' \in 0..MaxErrors /\ cut' \subseteq Jobs
    BY <1>24, MediaAssumption DEF Error, TypeOK, Held, Fallible
  <2>3. orphaned' \in BOOLEAN
    BY <1>24 DEF Error, TypeOK
  <2> QED
    BY <1>24, <2>1, <2>2, <2>3 DEF Error, Raise, TypeOK, disk
<1>25. CASE Finish
  <2>1. jobs' \in [Jobs -> [kind : {"download", "delete"}, state : JobStates]]
    BY <1>25, JobsFacts DEF Finish, TypeOK, JobStates
  <2> QED
    BY <1>25, <2>1, LeaveRunType DEF Finish, TypeOK, disk
<1>26. CASE Kill
  <2>1. jobs' \in [Jobs -> [kind : {"download", "delete"}, state : JobStates]]
    BY <1>26, JobsFacts DEF Kill, TypeOK, JobStates
  <2>2. kills' \in 0..MaxKills /\ cut' \subseteq Jobs
    BY <1>26, MediaAssumption DEF Kill, TypeOK, Held
  <2>3. orphaned' \in BOOLEAN
    BY <1>26 DEF Kill, TypeOK
  <2> QED
    BY <1>26, <2>1, <2>2, <2>3, LeaveRunType DEF Kill, TypeOK, disk
<1>27. CASE UNCHANGED vars
  BY <1>27 DEF vars, TypeOK, disk, local, bounds, history
<1> QED
  BY <1>1, <1>2, <1>3, <1>4, <1>5, <1>6, <1>7, <1>8, <1>9, <1>10, <1>11, <1>12, <1>13, <1>14, <1>15, <1>16,
     <1>17, <1>18, <1>19, <1>20, <1>21, <1>22, <1>23, <1>24, <1>25, <1>26, <1>27 DEF Next, Process, Delete

(* The job in hand and the local variables. *)
LEMMA NextHeld == TypeOK /\ Held /\ Locals /\ [Next]_vars => Held' /\ Locals'
<1> SUFFICES ASSUME TypeOK, Held, Locals, [Next]_vars PROVE Held' /\ Locals'
  OBVIOUS
<1>1. ASSUME NEW j \in Jobs, NEW kind \in {"download", "delete"}, Request(j, kind) PROVE Held' /\ Locals'
  <2>1. Held'
    <3>1. job # NoJob => job \in Jobs /\ job # j
      BY <1>1 DEF Request, Held, TypeOK
    <3>2. job # NoJob => jobs'[job] = jobs[job]
      BY <1>1, <3>1 DEF Request, TypeOK
    <3> QED
      BY <1>1, <3>2 DEF Request, Held, Saving, Deleting
  <2>2. Locals'
    BY <1>1 DEF Request, Locals, local, bounds
  <2> QED
    BY <2>1, <2>2
<1>2. ASSUME NEW p \in Positions, LoseFile(p) PROVE Held' /\ Locals'
  BY <1>2, MediaAssumption DEF LoseFile, Held, Locals, Saving, Deleting, Undoing, TypeOK, local, bounds, history
<1>3. ASSUME NEW j \in Jobs, Claim(j) PROVE Held' /\ Locals'
  <2>1. jobs'[j].state = "running" /\ jobs'[j].kind = jobs[j].kind /\ jobs[j].kind \in {"download", "delete"}
    BY <1>3 DEF Claim, TypeOK
  <2>2. pc' \in {"list", "check"} /\ j # NoJob /\ (pc' = "list" <=> jobs[j].kind = "delete")
    BY <1>3, MediaAssumption DEF Claim
  <2>3. Held'
    BY <1>3, <2>1, <2>2 DEF Claim, Held, Saving, Deleting
  <2>4. Locals'
    BY <1>3, <2>2 DEF Claim, Locals, local, Saving, Deleting, Undoing
  <2> QED
    BY <2>3, <2>4
<1>4. CASE CheckExisting
  BY <1>4, MediaAssumption DEF CheckExisting, Held, Locals, Saving, Deleting, Undoing, TypeOK, local, bounds, history
<1>5. ASSUME NEW v \in Versions, NEW got \in SUBSET Positions, Fetch(v, got) PROVE Held' /\ Locals'
  BY <1>5, MediaAssumption DEF Fetch, Held, Locals, Saving, Deleting, Undoing, TypeOK, local, bounds, history
<1>6. CASE MapStagedAssets
  BY <1>6, MediaAssumption DEF MapStagedAssets, Held, Locals, Saving, Deleting, Undoing, TypeOK, local, bounds, history
<1>7. CASE Prepare
  BY <1>7, MediaAssumption DEF Prepare, Held, Locals, Saving, Deleting, Undoing, TypeOK, local, bounds, history
<1>8. ASSUME NEW p \in Positions, MoveAsset(p) PROVE Held' /\ Locals'
  BY <1>8, MediaAssumption DEF MoveAsset, Held, Locals, Saving, Deleting, Undoing, TypeOK, local, bounds, history
<1>9. CASE AllMoved
  BY <1>9, MediaAssumption DEF AllMoved, Held, Locals, Saving, Deleting, Undoing, TypeOK, local, bounds, history
<1>10. CASE Preserve
  BY <1>10, MediaAssumption DEF Preserve, Held, Locals, Saving, Deleting, Undoing, TypeOK, local, bounds, history
<1>11. CASE Install
  BY <1>11, MediaAssumption DEF Install, Held, Locals, Saving, Deleting, Undoing, TypeOK, local, bounds, history
<1>12. CASE Measure
  BY <1>12, MediaAssumption DEF Measure, Held, Locals, Saving, Deleting, Undoing, TypeOK, local, bounds, history
<1>13. CASE Persist
  BY <1>13, MediaAssumption DEF Persist, Held, Locals, Saving, Deleting, Undoing, TypeOK, local, bounds, history
<1>14. CASE Commit
  BY <1>14, MediaAssumption DEF Commit, Held, Locals, Saving, Deleting, Undoing, TypeOK, local, bounds, history
<1>15. CASE Cleanup
  BY <1>15, MediaAssumption DEF Cleanup, Held, Locals, Saving, Deleting, Undoing, TypeOK, local, bounds, history
<1>16. CASE FailItem
  BY <1>16, MediaAssumption DEF FailItem, Raise, Held, Locals, Saving, Deleting, Undoing, TypeOK, local, bounds, history
<1>17. CASE Undo
  BY <1>17, MediaAssumption DEF Undo, Held, Locals, Saving, Deleting, Undoing, TypeOK, local, bounds, history
<1>18. CASE Rollback
  BY <1>18, MediaAssumption DEF Rollback, Held, Locals, Saving, Deleting, Undoing, TypeOK, local, bounds, history
<1>19. CASE Restore
  BY <1>19, MediaAssumption DEF Restore, Held, Locals, Saving, Deleting, Undoing, TypeOK, local, bounds, history
<1>20. CASE ListAssets
  BY <1>20, MediaAssumption DEF ListAssets, Held, Locals, Saving, Deleting, Undoing, TypeOK, local, bounds, history
<1>21. ASSUME NEW p \in Positions, DeleteAsset(p) PROVE Held' /\ Locals'
  BY <1>21, MediaAssumption DEF DeleteAsset, Held, Locals, Saving, Deleting, Undoing, TypeOK, local, bounds, history
<1>22. CASE AllDeleted
  BY <1>22, MediaAssumption DEF AllDeleted, Held, Locals, Saving, Deleting, Undoing, TypeOK, local, bounds, history
<1>23. CASE EraseRecords
  BY <1>23, MediaAssumption DEF EraseRecords, Held, Locals, Saving, Deleting, Undoing, TypeOK, local, bounds, history
<1>24. CASE Error
  BY <1>24, MediaAssumption DEF Error, Raise, Handler, Fallible, Held, Locals, Saving, Deleting, Undoing, TypeOK, local, bounds, history
<1>25. CASE Finish
  BY <1>25, MediaAssumption DEF Finish, LeaveRun, Held, Locals, Saving, Deleting, Undoing, TypeOK, local, bounds, history
<1>26. CASE Kill
  BY <1>26, MediaAssumption DEF Kill, LeaveRun, Held, Locals, Saving, Deleting, Undoing, TypeOK, local, bounds, history
<1>27. CASE UNCHANGED vars
  BY <1>27 DEF vars, Held, Locals, local, bounds, history
<1> QED
  BY <1>1, <1>2, <1>3, <1>4, <1>5, <1>6, <1>7, <1>8, <1>9, <1>10, <1>11, <1>12, <1>13, <1>14, <1>15, <1>16, <1>17, <1>18, <1>19, <1>20, <1>21, <1>22, <1>23, <1>24, <1>25, <1>26, <1>27
     DEF Next, Process, Delete
(* What files of one version are. *)
LEMMA WholeFacts ==
    ASSUME NEW v \in Versions
    PROVE  /\ \A p \in Positions : Whole(v)[p] = (IF p =< Size[v] THEN v ELSE NoVersion)
           /\ \A p \in Positions : Has(Whole(v), p) <=> p =< Size[v]
           /\ 1 \in Positions /\ Size[v] \in 1..Longest
           /\ Whole(v) \in Files /\ Whole(v) # Nothing
           /\ OfOne(Whole(v))
           /\ Complete(Whole(v), Whole(v))
<1>1. Size[v] \in 1..Longest /\ 1 \in Positions /\ v # NoVersion
  BY MediaAssumption DEF Positions
<1>2. \A p \in Positions : Whole(v)[p] = (IF p =< Size[v] THEN v ELSE NoVersion)
  BY DEF Whole
<1>3. \A p \in Positions : Has(Whole(v), p) <=> p =< Size[v]
  BY <1>1, <1>2 DEF Has
<1>4. Whole(v) # Nothing
  BY <1>1, <1>2 DEF Nothing
<1>5. OfOne(Whole(v))
  BY <1>2, <1>3 DEF OfOne
<1>6. Complete(Whole(v), Whole(v))
  BY <1>1, <1>3, <1>4 DEF Complete, Positions
<1> QED
  BY <1>1, <1>2, <1>3, <1>4, <1>5, <1>6, FilesFacts

LEMMA OfOneFacts ==
    /\ OfOne(Nothing)
    /\ \A f \in Files, p \in Positions : OfOne(f) => OfOne([f EXCEPT ![p] = NoVersion])
    /\ \A p \in Positions : ~Has(Nothing, p)
    /\ \A f \in Files : (\A p \in Positions : ~Has(f, p)) => f = Nothing
BY DEF OfOne, Files, Nothing, Has

(* Files of one version that are complete for the row of a version are     *)
(* all of its files.                                                       *)
LEMMA CompleteIsWhole ==
    ASSUME NEW f \in Files, OfOne(f), NEW v \in Versions, Complete(f, Whole(v))
    PROVE  f = Whole(v)
<1>1. \A p \in Positions : p =< Size[v] => f[p] = v
  BY WholeFacts DEF Complete
<1>2. f[1] = v /\ Has(f, 1) /\ 1 \in Positions
  BY <1>1, WholeFacts, MediaAssumption DEF Has
<1>3. \A p \in Positions : Has(f, p) => f[p] = v /\ p =< Size[v]
  BY <1>2 DEF OfOne
<1>4. \A p \in Positions : f[p] = Whole(v)[p]
  BY <1>1, <1>3, WholeFacts DEF Has
<1> QED
  BY <1>4, WholeFacts DEF Files

(* The files in the library are of one version, and so is the row. *)
LEMMA NextPure == TypeOK /\ Held /\ Locals /\ Pure /\ Arriving /\ Kept /\ [Next]_vars => Pure'
<1> SUFFICES ASSUME TypeOK, Held, Locals, Pure, Arriving, Kept, [Next]_vars PROVE Pure'
  OBVIOUS
<1>1. ASSUME NEW j \in Jobs, NEW kind \in {"download", "delete"}, Request(j, kind) PROVE Pure'
  BY <1>1, OfOneFacts DEF Request, Pure, disk, local, bounds, history
<1>2. ASSUME NEW p \in Positions, LoseFile(p) PROVE Pure'
  <2>1. OfOne(final')
    BY <1>2, OfOneFacts DEF LoseFile, Pure, TypeOK
  <2> QED
    BY <1>2, <2>1 DEF LoseFile, Pure, history
<1>3. ASSUME NEW j \in Jobs, Claim(j) PROVE Pure'
  BY <1>3, OfOneFacts DEF Claim, Pure, disk, local, bounds, history
<1>4. CASE CheckExisting
  BY <1>4, OfOneFacts DEF CheckExisting, Pure, disk, local, bounds, history
<1>5. ASSUME NEW v \in Versions, NEW got \in SUBSET Positions, Fetch(v, got) PROVE Pure'
  BY <1>5, OfOneFacts DEF Fetch, Pure, disk, local, bounds, history
<1>6. CASE MapStagedAssets
  BY <1>6, OfOneFacts DEF MapStagedAssets, Pure, disk, local, bounds, history
<1>7. CASE Prepare
  BY <1>7, OfOneFacts DEF Prepare, Pure, disk, local, bounds, history
<1>8. ASSUME NEW p \in Positions, MoveAsset(p) PROVE Pure'
  BY <1>8, OfOneFacts DEF MoveAsset, Pure, disk, local, bounds, history
<1>9. CASE AllMoved
  BY <1>9, OfOneFacts DEF AllMoved, Pure, disk, local, bounds, history
<1>10. CASE Preserve
  <2>1. final' \in {final, Nothing} /\ UNCHANGED <<row, before>>
    BY <1>10 DEF Preserve, history
  <2> QED
    BY <2>1, OfOneFacts DEF Pure
<1>11. CASE Install
  <2>1. version \in Versions /\ final' = Whole(version)
    BY <1>11 DEF Install, Locals, Arriving
  <2> QED
    BY <1>11, <2>1, WholeFacts DEF Install, Pure, history
<1>12. CASE Measure
  BY <1>12, OfOneFacts DEF Measure, Pure, disk, local, bounds, history
<1>13. CASE Persist
  <2>1. version \in Versions /\ row' = Whole(version)
    BY <1>13 DEF Persist, Locals, Arriving
  <2> QED
    BY <1>13, <2>1 DEF Persist, Pure, disk
<1>14. CASE Commit
  BY <1>14, OfOneFacts DEF Commit, Pure, disk, local, bounds, history
<1>15. CASE Cleanup
  BY <1>15, OfOneFacts DEF Cleanup, Pure, disk, local, bounds, history
<1>16. CASE FailItem
  BY <1>16, OfOneFacts DEF FailItem, Raise, Pure, disk, local, bounds, history
<1>17. CASE Undo
  BY <1>17, OfOneFacts DEF Undo, Pure, disk, local, bounds, history
<1>18. CASE Rollback
  BY <1>18, OfOneFacts DEF Rollback, Pure, disk, local, bounds, history
<1>19. CASE Restore
  <2>1. final' = before.final
    BY <1>19 DEF Restore, Locals, Kept, Undoing
  <2> QED
    BY <1>19, <2>1 DEF Restore, Pure, history
<1>20. CASE ListAssets
  BY <1>20, OfOneFacts DEF ListAssets, Pure, disk, local, bounds, history
<1>21. ASSUME NEW p \in Positions, DeleteAsset(p) PROVE Pure'
  <2>1. OfOne(final')
    BY <1>21, OfOneFacts DEF DeleteAsset, Pure, TypeOK
  <2> QED
    BY <1>21, <2>1 DEF DeleteAsset, Pure, history
<1>22. CASE AllDeleted
  BY <1>22, OfOneFacts DEF AllDeleted, Pure, disk, local, bounds, history
<1>23. CASE EraseRecords
  BY <1>23, OfOneFacts DEF EraseRecords, Pure, disk, local, bounds, history
<1>24. CASE Error
  BY <1>24, OfOneFacts DEF Error, Raise, Handler, Fallible, Tidying, Pure, disk, local, bounds, history
<1>25. CASE Finish
  BY <1>25, OfOneFacts DEF Finish, LeaveRun, Pure, disk, local, bounds, history
<1>26. CASE Kill
  BY <1>26, OfOneFacts DEF Kill, LeaveRun, Pure, disk, local, bounds, history
<1>27. CASE UNCHANGED vars
  BY <1>27 DEF vars, Pure, disk, local, bounds, history
<1> QED
  BY <1>1, <1>2, <1>3, <1>4, <1>5, <1>6, <1>7, <1>8, <1>9, <1>10, <1>11, <1>12, <1>13, <1>14, <1>15, <1>16, <1>17, <1>18, <1>19, <1>20, <1>21, <1>22, <1>23, <1>24, <1>25, <1>26, <1>27
     DEF Next, Process, Delete

(* The new files, step by step. *)
LEMMA NextArriving == TypeOK /\ Held /\ Locals /\ Arriving /\ [Next]_vars => Arriving'
<1> SUFFICES ASSUME TypeOK, Held, Locals, Arriving, [Next]_vars PROVE Arriving'
  OBVIOUS
<1>1. ASSUME NEW j \in Jobs, NEW kind \in {"download", "delete"}, Request(j, kind) PROVE Arriving'
  BY <1>1, MediaAssumption DEF Request, Arriving, disk, local, bounds, history
<1>2. ASSUME NEW p \in Positions, LoseFile(p) PROVE Arriving'
  BY <1>2, MediaAssumption DEF LoseFile, Arriving, disk, local, bounds, history
<1>3. ASSUME NEW j \in Jobs, Claim(j) PROVE Arriving'
  BY <1>3, MediaAssumption DEF Claim, Arriving, disk, local, bounds, history
<1>4. CASE CheckExisting
  BY <1>4, MediaAssumption DEF CheckExisting, Arriving, disk, local, bounds, history
<1>5. ASSUME NEW v \in Versions, NEW got \in SUBSET Positions, Fetch(v, got) PROVE Arriving'
  <2>1. pc' = "map" /\ version' = v /\ job' = job /\ job \in Jobs
    BY <1>5 DEF Fetch, Held, TypeOK
  <2>2. staging'[job] = [p \in Positions |-> IF p \in got /\ p =< Size[v] THEN v ELSE NoVersion]
    BY <1>5, <2>1 DEF Fetch, TypeOK
  <2>3. \A p \in Positions : Has(staging'[job], p) => staging'[job][p] = Whole(v)[p]
    BY <2>2, WholeFacts DEF Has
  <2> QED
    BY <2>1, <2>3 DEF Arriving, Has, Whole
<1>6. CASE MapStagedAssets
  <2>1. job \in Jobs /\ version \in Versions
    BY <1>6 DEF MapStagedAssets, Held, TypeOK, Locals
  <2>2. \A p \in Positions : staging[job][p] = Whole(version)[p]
    <3> TAKE p \in Positions
    <3>1. CASE p =< Size[version]
      BY <3>1, <2>1, <1>6, WholeFacts DEF MapStagedAssets, Arriving, Positions
    <3>2. CASE ~(p =< Size[version])
      BY <3>2, <2>1, <1>6, WholeFacts, MediaAssumption DEF MapStagedAssets, Arriving, Has
    <3> QED
      BY <3>1, <3>2
  <2>3. staging[job] = Whole(version)
    BY <2>1, <2>2, WholeFacts DEF TypeOK, Files
  <2> QED
    BY <1>6, <2>3 DEF MapStagedAssets, Arriving, disk, local
<1>7. CASE Prepare
  <2>1. job \in Jobs
    BY <1>7 DEF Prepare, Held, TypeOK
  <2>2. partial'[job] = Nothing /\ pc' = "move" /\ UNCHANGED <<staging, job, version>>
    BY <1>7, <2>1 DEF Prepare, TypeOK, local
  <2>3. \A p \in Positions : Nothing[p] = NoVersion
    BY DEF Nothing
  <2> QED
    BY <1>7, <2>2, <2>3 DEF Prepare, Arriving, Whole
<1>8. ASSUME NEW p \in Positions, MoveAsset(p) PROVE Arriving'
  <2>1. job \in Jobs /\ pc = "move" /\ staging[job] \in Files /\ partial[job] \in Files
    BY <1>8 DEF MoveAsset, Held, TypeOK
  <2>2. staging'[job] = [staging[job] EXCEPT ![p] = NoVersion]
        /\ partial'[job] = [partial[job] EXCEPT ![p] = staging[job][p]]
    BY <1>8, <2>1 DEF MoveAsset, TypeOK
  <2>3. \A q \in Positions :
          /\ staging'[job][q] = IF q = p THEN NoVersion ELSE staging[job][q]
          /\ partial'[job][q] = IF q = p THEN staging[job][p] ELSE partial[job][q]
    BY <2>1, <2>2 DEF Files
  <2>4. pc' = "move" /\ job' = job /\ version' = version /\ Has(staging[job], p)
    BY <1>8 DEF MoveAsset, local
  <2> QED
    BY <2>1, <2>3, <2>4 DEF Arriving, Has, Whole
<1>9. CASE AllMoved
  <2>1. job \in Jobs /\ version \in Versions /\ staging[job] = Nothing
    BY <1>9 DEF AllMoved, Held, TypeOK, Locals
  <2>2. \A p \in Positions : partial[job][p] = Whole(version)[p]
    BY <1>9, <2>1 DEF AllMoved, Arriving, Nothing
  <2>3. partial[job] = Whole(version)
    BY <2>1, <2>2, WholeFacts DEF TypeOK, Files
  <2> QED
    BY <1>9, <2>3 DEF AllMoved, Arriving, disk, local
<1>10. CASE Preserve
  BY <1>10, MediaAssumption DEF Preserve, Arriving, disk, local, bounds, history
<1>11. CASE Install
  BY <1>11, MediaAssumption DEF Install, Arriving, disk, local, bounds, history
<1>12. CASE Measure
  BY <1>12, MediaAssumption DEF Measure, Arriving, disk, local, bounds, history
<1>13. CASE Persist
  BY <1>13, MediaAssumption DEF Persist, Arriving, disk, local, bounds, history
<1>14. CASE Commit
  BY <1>14, MediaAssumption DEF Commit, Arriving, disk, local, bounds, history
<1>15. CASE Cleanup
  BY <1>15, MediaAssumption DEF Cleanup, Arriving, disk, local, bounds, history
<1>16. CASE FailItem
  BY <1>16, MediaAssumption DEF FailItem, Raise, Arriving, disk, local, bounds, history
<1>17. CASE Undo
  BY <1>17, MediaAssumption DEF Undo, Arriving, disk, local, bounds, history
<1>18. CASE Rollback
  BY <1>18, MediaAssumption DEF Rollback, Arriving, disk, local, bounds, history
<1>19. CASE Restore
  BY <1>19, MediaAssumption DEF Restore, Arriving, disk, local, bounds, history
<1>20. CASE ListAssets
  BY <1>20, MediaAssumption DEF ListAssets, Arriving, disk, local, bounds, history
<1>21. ASSUME NEW p \in Positions, DeleteAsset(p) PROVE Arriving'
  BY <1>21, MediaAssumption DEF DeleteAsset, Arriving, disk, local, bounds, history
<1>22. CASE AllDeleted
  BY <1>22, MediaAssumption DEF AllDeleted, Arriving, disk, local, bounds, history
<1>23. CASE EraseRecords
  BY <1>23, MediaAssumption DEF EraseRecords, Arriving, disk, local, bounds, history
<1>24. CASE Error
  BY <1>24, MediaAssumption DEF Error, Raise, Handler, Fallible, Tidying, Arriving, disk, local, bounds, history
<1>25. CASE Finish
  BY <1>25, MediaAssumption DEF Finish, LeaveRun, Arriving, disk, local, bounds, history
<1>26. CASE Kill
  BY <1>26, MediaAssumption DEF Kill, LeaveRun, Arriving, disk, local, bounds, history
<1>27. CASE UNCHANGED vars
  BY <1>27 DEF vars, Arriving, disk, local, bounds, history
<1> QED
  BY <1>1, <1>2, <1>3, <1>4, <1>5, <1>6, <1>7, <1>8, <1>9, <1>10, <1>11, <1>12, <1>13, <1>14, <1>15, <1>16, <1>17, <1>18, <1>19, <1>20, <1>21, <1>22, <1>23, <1>24, <1>25, <1>26, <1>27
     DEF Next, Process, Delete

(* Where the old files are. *)
LEMMA NextKept == TypeOK /\ Held /\ Locals /\ Arriving /\ Kept /\ [Next]_vars => Kept'
<1> SUFFICES ASSUME TypeOK, Held, Locals, Arriving, Kept, [Next]_vars PROVE Kept'
  OBVIOUS
<1>1. ASSUME NEW j \in Jobs, NEW kind \in {"download", "delete"}, Request(j, kind) PROVE Kept'
  BY <1>1, MediaAssumption DEF Request, Kept, Saving, Undoing, Deleting, disk, local, bounds, history
<1>2. ASSUME NEW p \in Positions, LoseFile(p) PROVE Kept'
  BY <1>2, MediaAssumption DEF LoseFile, Kept, Saving, Undoing, Deleting, disk, local, bounds, history
<1>3. ASSUME NEW j \in Jobs, Claim(j) PROVE Kept'
  BY <1>3, MediaAssumption DEF Claim, Kept, Saving, Undoing, Deleting, disk, local, bounds, history
<1>4. CASE CheckExisting
  BY <1>4, MediaAssumption DEF CheckExisting, Kept, Saving, Undoing, Deleting, disk, local, bounds, history
<1>5. ASSUME NEW v \in Versions, NEW got \in SUBSET Positions, Fetch(v, got) PROVE Kept'
  BY <1>5, MediaAssumption DEF Fetch, Kept, Saving, Undoing, Deleting, disk, local, bounds, history
<1>6. CASE MapStagedAssets
  BY <1>6, MediaAssumption DEF MapStagedAssets, Kept, Saving, Undoing, Deleting, disk, local, bounds, history
<1>7. CASE Prepare
  BY <1>7, MediaAssumption DEF Prepare, Kept, Saving, Undoing, Deleting, disk, local, bounds, history
<1>8. ASSUME NEW p \in Positions, MoveAsset(p) PROVE Kept'
  BY <1>8, MediaAssumption DEF MoveAsset, Kept, Saving, Undoing, Deleting, disk, local, bounds, history
<1>9. CASE AllMoved
  BY <1>9, MediaAssumption DEF AllMoved, Kept, Saving, Undoing, Deleting, disk, local, bounds, history
<1>10. CASE Preserve
  <2>1. job \in Jobs /\ pc = "preserve" /\ pc' = "install" /\ job' = job
        /\ UNCHANGED <<row, before, installed>>
    BY <1>10 DEF Preserve, Held, TypeOK, history
  <2>2. row = before.row /\ final = before.final /\ ~installed /\ ~preserved
    BY <2>1 DEF Kept, Saving, Locals
  <2>3. final' = Nothing
    BY <1>10 DEF Preserve
  <2>4. IF preserved' THEN backup'[job] = before.final ELSE before.final = Nothing
    BY <1>10, <2>1, <2>2 DEF Preserve, TypeOK
  <2> QED
    BY <2>1, <2>2, <2>3, <2>4 DEF Kept, Undoing
<1>11. CASE Install
  BY <1>11, MediaAssumption DEF Install, Kept, Saving, Undoing, Deleting, disk, local, bounds, history
<1>12. CASE Measure
  BY <1>12, MediaAssumption DEF Measure, Kept, Saving, Undoing, Deleting, disk, local, bounds, history
<1>13. CASE Persist
  BY <1>13, MediaAssumption DEF Persist, Kept, Saving, Undoing, Deleting, disk, local, bounds, history
<1>14. CASE Commit
  BY <1>14, MediaAssumption DEF Commit, Kept, Saving, Undoing, Deleting, disk, local, bounds, history
<1>15. CASE Cleanup
  BY <1>15, MediaAssumption DEF Cleanup, Kept, Saving, Undoing, Deleting, disk, local, bounds, history
<1>16. CASE FailItem
  BY <1>16, MediaAssumption DEF FailItem, Raise, Kept, Saving, Undoing, Deleting, disk, local, bounds, history
<1>17. CASE Undo
  BY <1>17, MediaAssumption DEF Undo, Kept, Saving, Undoing, Deleting, disk, local, bounds, history
<1>18. CASE Rollback
  BY <1>18, MediaAssumption DEF Rollback, Kept, Saving, Undoing, Deleting, disk, local, bounds, history
<1>19. CASE Restore
  BY <1>19, MediaAssumption DEF Restore, Kept, Saving, Undoing, Deleting, disk, local, bounds, history
<1>20. CASE ListAssets
  BY <1>20, MediaAssumption DEF ListAssets, Kept, Saving, Undoing, Deleting, disk, local, bounds, history
<1>21. ASSUME NEW p \in Positions, DeleteAsset(p) PROVE Kept'
  BY <1>21, MediaAssumption DEF DeleteAsset, Kept, Saving, Undoing, Deleting, disk, local, bounds, history
<1>22. CASE AllDeleted
  BY <1>22, MediaAssumption DEF AllDeleted, Kept, Saving, Undoing, Deleting, disk, local, bounds, history
<1>23. CASE EraseRecords
  BY <1>23, MediaAssumption DEF EraseRecords, Kept, Saving, Undoing, Deleting, disk, local, bounds, history
<1>24. CASE Error
  <2>1. UNCHANGED <<row, final, backup, before, job, preserved, installed>> /\ pc' = Handler /\ pc \in Fallible
    BY <1>24 DEF Error, Raise, disk
  <2>2. CASE pc \in {"move", "preserve", "install", "measure", "persist"}
    <3>1. pc' \in {"undo", "rollback"} /\ row = before.row
      BY <2>1, <2>2 DEF Handler, Kept, Saving
    <3> QED
      BY <2>1, <2>2, <3>1 DEF Kept, Locals, Undoing
  <2>3. CASE pc \notin {"move", "preserve", "install", "measure", "persist"}
    BY <2>1, <2>3 DEF Handler, Fallible, Kept, Saving, Undoing
  <2> QED
    BY <2>2, <2>3
<1>25. CASE Finish
  BY <1>25, MediaAssumption DEF Finish, LeaveRun, Kept, Saving, Undoing, Deleting, disk, local, bounds, history
<1>26. CASE Kill
  BY <1>26, MediaAssumption DEF Kill, LeaveRun, Kept, Saving, Undoing, Deleting, disk, local, bounds, history
<1>27. CASE UNCHANGED vars
  BY <1>27 DEF vars, Kept, Saving, Undoing, Deleting, disk, local, bounds, history
<1> QED
  BY <1>1, <1>2, <1>3, <1>4, <1>5, <1>6, <1>7, <1>8, <1>9, <1>10, <1>11, <1>12, <1>13, <1>14, <1>15, <1>16, <1>17, <1>18, <1>19, <1>20, <1>21, <1>22, <1>23, <1>24, <1>25, <1>26, <1>27
     DEF Next, Process, Delete

(* What a download comes to. *)
LEMMA NextSettled == TypeOK /\ Held /\ Locals /\ Arriving /\ Kept /\ Settled /\ [Next]_vars => Settled'
<1> SUFFICES ASSUME TypeOK, Held, Locals, Arriving, Kept, Settled, [Next]_vars PROVE Settled'
  OBVIOUS
<1>1. ASSUME NEW j \in Jobs, NEW kind \in {"download", "delete"}, Request(j, kind) PROVE Settled'
  BY <1>1, MediaAssumption DEF Request, Settled, Downloading, Held, Locals, Saving, Undoing, Deleting, disk, local, bounds, history
<1>2. ASSUME NEW p \in Positions, LoseFile(p) PROVE Settled'
  BY <1>2, MediaAssumption DEF LoseFile, Settled, Downloading, Held, Locals, Saving, Undoing, Deleting, disk, local, bounds, history
<1>3. ASSUME NEW j \in Jobs, Claim(j) PROVE Settled'
  BY <1>3, MediaAssumption DEF Claim, Settled, Downloading, Held, Locals, Saving, Undoing, Deleting, disk, local, bounds, history
<1>4. CASE CheckExisting
  BY <1>4, MediaAssumption DEF CheckExisting, Settled, Downloading, Held, Locals, Saving, Undoing, Deleting, disk, local, bounds, history
<1>5. ASSUME NEW v \in Versions, NEW got \in SUBSET Positions, Fetch(v, got) PROVE Settled'
  BY <1>5, MediaAssumption DEF Fetch, Settled, Downloading, Held, Locals, Saving, Undoing, Deleting, disk, local, bounds, history
<1>6. CASE MapStagedAssets
  BY <1>6, MediaAssumption DEF MapStagedAssets, Settled, Downloading, Held, Locals, Saving, Undoing, Deleting, disk, local, bounds, history
<1>7. CASE Prepare
  BY <1>7, MediaAssumption DEF Prepare, Settled, Downloading, Held, Locals, Saving, Undoing, Deleting, disk, local, bounds, history
<1>8. ASSUME NEW p \in Positions, MoveAsset(p) PROVE Settled'
  BY <1>8, MediaAssumption DEF MoveAsset, Settled, Downloading, Held, Locals, Saving, Undoing, Deleting, disk, local, bounds, history
<1>9. CASE AllMoved
  BY <1>9, MediaAssumption DEF AllMoved, Settled, Downloading, Held, Locals, Saving, Undoing, Deleting, disk, local, bounds, history
<1>10. CASE Preserve
  BY <1>10, MediaAssumption DEF Preserve, Settled, Downloading, Held, Locals, Saving, Undoing, Deleting, disk, local, bounds, history
<1>11. CASE Install
  BY <1>11, MediaAssumption DEF Install, Settled, Downloading, Held, Locals, Saving, Undoing, Deleting, disk, local, bounds, history
<1>12. CASE Measure
  BY <1>12, MediaAssumption DEF Measure, Settled, Downloading, Held, Locals, Saving, Undoing, Deleting, disk, local, bounds, history
<1>13. CASE Persist
  BY <1>13, MediaAssumption DEF Persist, Settled, Downloading, Held, Locals, Saving, Undoing, Deleting, disk, local, bounds, history
<1>14. CASE Commit
  <2>1. Complete(final, row)
    BY <1>14, WholeFacts DEF Commit, Locals, Arriving
  <2> QED
    BY <1>14, <2>1 DEF Commit, Settled
<1>15. CASE Cleanup
  BY <1>15, MediaAssumption DEF Cleanup, Settled, Downloading, Held, Locals, Saving, Undoing, Deleting, disk, local, bounds, history
<1>16. CASE FailItem
  <2>1. row = before.row /\ final = before.final
    BY <1>16 DEF FailItem, Kept, Saving
  <2> QED
    BY <1>16, <2>1 DEF FailItem, Raise, Settled, disk, history
<1>17. CASE Undo
  <2>1. ~installed /\ ~preserved => row = before.row /\ final = before.final
    BY <1>17 DEF Undo, Kept, Saving, Undoing
  <2>2. failed
    BY <1>17 DEF Undo, Locals, Undoing
  <2> QED
    BY <1>17, <2>1, <2>2 DEF Undo, Settled, local, history
<1>18. CASE Rollback
  <2>1. row = before.row /\ failed /\ (~preserved => before.final = Nothing)
    BY <1>18 DEF Rollback, Kept, Locals, Saving, Undoing
  <2> QED
    BY <1>18, <2>1 DEF Rollback, Settled, local, history
<1>19. CASE Restore
  <2>1. row = before.row /\ failed /\ final' = before.final
    BY <1>19 DEF Restore, Kept, Locals, Saving, Undoing
  <2> QED
    BY <1>19, <2>1 DEF Restore, Settled, local, history
<1>20. CASE ListAssets
  BY <1>20, MediaAssumption DEF ListAssets, Settled, Downloading, Held, Locals, Saving, Undoing, Deleting, disk, local, bounds, history
<1>21. ASSUME NEW p \in Positions, DeleteAsset(p) PROVE Settled'
  BY <1>21, MediaAssumption DEF DeleteAsset, Settled, Downloading, Held, Locals, Saving, Undoing, Deleting, disk, local, bounds, history
<1>22. CASE AllDeleted
  BY <1>22, MediaAssumption DEF AllDeleted, Settled, Downloading, Held, Locals, Saving, Undoing, Deleting, disk, local, bounds, history
<1>23. CASE EraseRecords
  BY <1>23, MediaAssumption DEF EraseRecords, Settled, Downloading, Held, Locals, Saving, Undoing, Deleting, disk, local, bounds, history
<1>24. CASE Error
  <2>1. UNCHANGED <<row, final, before, job, jobs>> /\ pc' = Handler /\ pc \in Fallible /\ failed' /\ errors' = errors + 1
    BY <1>24 DEF Error, Raise, disk
  <2>2. CASE pc \in {"check", "prepare"}
    BY <2>1, <2>2 DEF Settled, Kept, Saving
  <2>3. CASE pc = "commit"
    <3>1. Complete(final, row)
      BY <2>3, WholeFacts DEF Locals, Arriving
    <3> QED
      BY <2>1, <3>1 DEF Settled
  <2>4. CASE pc \in Undoing
    BY <2>1, <2>4 DEF Locals, Settled, TypeOK
  <2>5. CASE pc = "cleanup"
    BY <2>1, <2>5 DEF Settled, Held, Saving, Downloading, TypeOK
  <2>6. CASE pc \in Deleting
    BY <2>1, <2>6, MediaAssumption DEF Settled, Held, Downloading, Deleting, Handler
  <2>7. CASE pc \in {"move", "preserve", "install", "measure", "persist"}
    BY <2>1, <2>7 DEF Settled, Handler
  <2> QED
    BY <2>1, <2>2, <2>3, <2>4, <2>5, <2>6, <2>7 DEF Fallible, Undoing, Deleting
<1>25. CASE Finish
  BY <1>25, MediaAssumption DEF Finish, LeaveRun, Settled, Downloading, Held, Locals, Saving, Undoing, Deleting, disk, local, bounds, history
<1>26. CASE Kill
  BY <1>26, MediaAssumption DEF Kill, LeaveRun, Settled, Downloading, Held, Locals, Saving, Undoing, Deleting, disk, local, bounds, history
<1>27. CASE UNCHANGED vars
  BY <1>27 DEF vars, Settled, Downloading, Held, Locals, Saving, Undoing, Deleting, disk, local, bounds, history
<1> QED
  BY <1>1, <1>2, <1>3, <1>4, <1>5, <1>6, <1>7, <1>8, <1>9, <1>10, <1>11, <1>12, <1>13, <1>14, <1>15, <1>16, <1>17, <1>18, <1>19, <1>20, <1>21, <1>22, <1>23, <1>24, <1>25, <1>26, <1>27
     DEF Next, Process, Delete

(* Complete media is left alone. *)
LEMMA NextLeftAlone == TypeOK /\ Held /\ Kept /\ LeftAlone /\ [Next]_vars => LeftAlone'
<1> SUFFICES ASSUME TypeOK, Held, Kept, LeftAlone, [Next]_vars PROVE LeftAlone'
  OBVIOUS
<1>1. ASSUME NEW j \in Jobs, NEW kind \in {"download", "delete"}, Request(j, kind) PROVE LeftAlone'
  BY <1>1, MediaAssumption DEF Request, LeftAlone, Downloading, Held, disk, local, bounds, history
<1>2. ASSUME NEW p \in Positions, LoseFile(p) PROVE LeftAlone'
  BY <1>2, MediaAssumption DEF LoseFile, LeftAlone, Downloading, Held, disk, local, bounds, history
<1>3. ASSUME NEW j \in Jobs, Claim(j) PROVE LeftAlone'
  BY <1>3, MediaAssumption DEF Claim, LeftAlone, Downloading, Held, disk, local, bounds, history
<1>4. CASE CheckExisting
  BY <1>4, MediaAssumption DEF CheckExisting, LeftAlone, Downloading, Held, disk, local, bounds, history
<1>5. ASSUME NEW v \in Versions, NEW got \in SUBSET Positions, Fetch(v, got) PROVE LeftAlone'
  BY <1>5, MediaAssumption DEF Fetch, LeftAlone, Downloading, Held, disk, local, bounds, history
<1>6. CASE MapStagedAssets
  BY <1>6, MediaAssumption DEF MapStagedAssets, LeftAlone, Downloading, Held, disk, local, bounds, history
<1>7. CASE Prepare
  BY <1>7, MediaAssumption DEF Prepare, LeftAlone, Downloading, Held, disk, local, bounds, history
<1>8. ASSUME NEW p \in Positions, MoveAsset(p) PROVE LeftAlone'
  BY <1>8, MediaAssumption DEF MoveAsset, LeftAlone, Downloading, Held, disk, local, bounds, history
<1>9. CASE AllMoved
  BY <1>9, MediaAssumption DEF AllMoved, LeftAlone, Downloading, Held, disk, local, bounds, history
<1>10. CASE Preserve
  BY <1>10, MediaAssumption DEF Preserve, LeftAlone, Downloading, Held, disk, local, bounds, history
<1>11. CASE Install
  BY <1>11, MediaAssumption DEF Install, LeftAlone, Downloading, Held, disk, local, bounds, history
<1>12. CASE Measure
  BY <1>12, MediaAssumption DEF Measure, LeftAlone, Downloading, Held, disk, local, bounds, history
<1>13. CASE Persist
  BY <1>13, MediaAssumption DEF Persist, LeftAlone, Downloading, Held, disk, local, bounds, history
<1>14. CASE Commit
  BY <1>14, MediaAssumption DEF Commit, LeftAlone, Downloading, Held, disk, local, bounds, history
<1>15. CASE Cleanup
  BY <1>15, MediaAssumption DEF Cleanup, LeftAlone, Downloading, Held, disk, local, bounds, history
<1>16. CASE FailItem
  BY <1>16, MediaAssumption DEF FailItem, Raise, LeftAlone, Downloading, Held, disk, local, bounds, history
<1>17. CASE Undo
  BY <1>17, MediaAssumption DEF Undo, LeftAlone, Downloading, Held, disk, local, bounds, history
<1>18. CASE Rollback
  BY <1>18, MediaAssumption DEF Rollback, LeftAlone, Downloading, Held, disk, local, bounds, history
<1>19. CASE Restore
  BY <1>19, MediaAssumption DEF Restore, LeftAlone, Downloading, Held, disk, local, bounds, history
<1>20. CASE ListAssets
  BY <1>20, MediaAssumption DEF ListAssets, LeftAlone, Downloading, Held, disk, local, bounds, history
<1>21. ASSUME NEW p \in Positions, DeleteAsset(p) PROVE LeftAlone'
  BY <1>21, MediaAssumption DEF DeleteAsset, LeftAlone, Downloading, Held, disk, local, bounds, history
<1>22. CASE AllDeleted
  BY <1>22, MediaAssumption DEF AllDeleted, LeftAlone, Downloading, Held, disk, local, bounds, history
<1>23. CASE EraseRecords
  BY <1>23, MediaAssumption DEF EraseRecords, LeftAlone, Downloading, Held, disk, local, bounds, history
<1>24. CASE Error
  BY <1>24, MediaAssumption DEF Error, Raise, Handler, Fallible, Tidying, LeftAlone, Downloading, Held, disk, local, bounds, history
<1>25. CASE Finish
  BY <1>25, MediaAssumption DEF Finish, LeaveRun, LeftAlone, Downloading, Held, disk, local, bounds, history
<1>26. CASE Kill
  BY <1>26, MediaAssumption DEF Kill, LeaveRun, LeftAlone, Downloading, Held, disk, local, bounds, history
<1>27. CASE UNCHANGED vars
  BY <1>27 DEF vars, LeftAlone, Downloading, Held, disk, local, bounds, history
<1> QED
  BY <1>1, <1>2, <1>3, <1>4, <1>5, <1>6, <1>7, <1>8, <1>9, <1>10, <1>11, <1>12, <1>13, <1>14, <1>15, <1>16, <1>17, <1>18, <1>19, <1>20, <1>21, <1>22, <1>23, <1>24, <1>25, <1>26, <1>27
     DEF Next, Process, Delete

LEMMA MatchesFacts ==
    /\ \A a : Matches(Nothing, a)
    /\ \A f : Matches(f, f)
    /\ \A f \in Files, p \in Positions : \A a : Matches(f, a) => Matches([f EXCEPT ![p] = NoVersion], a)
BY DEF Matches, Nothing, Files, Has

(* The files are those the row names. *)
LEMMA NextNamed == TypeOK /\ Held /\ Locals /\ Arriving /\ Kept /\ Named /\ [Next]_vars => Named'
<1> SUFFICES ASSUME TypeOK, Held, Locals, Arriving, Kept, Named, [Next]_vars PROVE Named'
  OBVIOUS
<1>1. ASSUME NEW j \in Jobs, NEW kind \in {"download", "delete"}, Request(j, kind) PROVE Named'
  BY <1>1, MediaAssumption DEF Request, Named, Unrecorded, Saving, Undoing, Deleting, disk, local, bounds, history
<1>2. ASSUME NEW p \in Positions, LoseFile(p) PROVE Named'
  <2>1. pc = "idle" /\ UNCHANGED <<row, pc, orphaned>> /\ final' = [final EXCEPT ![p] = NoVersion]
    BY <1>2 DEF LoseFile, history
  <2>2. ~orphaned => Matches(final', row')
    BY <2>1, MatchesFacts DEF Named, Unrecorded, TypeOK
  <2> QED
    BY <2>1, <2>2 DEF Named, Saving
<1>3. ASSUME NEW j \in Jobs, Claim(j) PROVE Named'
  BY <1>3, MediaAssumption DEF Claim, Named, Unrecorded, Saving, Undoing, Deleting, disk, local, bounds, history
<1>4. CASE CheckExisting
  BY <1>4, MediaAssumption DEF CheckExisting, Named, Unrecorded, Saving, Undoing, Deleting, disk, local, bounds, history
<1>5. ASSUME NEW v \in Versions, NEW got \in SUBSET Positions, Fetch(v, got) PROVE Named'
  BY <1>5, MediaAssumption DEF Fetch, Named, Unrecorded, Saving, Undoing, Deleting, disk, local, bounds, history
<1>6. CASE MapStagedAssets
  BY <1>6, MediaAssumption DEF MapStagedAssets, Named, Unrecorded, Saving, Undoing, Deleting, disk, local, bounds, history
<1>7. CASE Prepare
  BY <1>7, MediaAssumption DEF Prepare, Named, Unrecorded, Saving, Undoing, Deleting, disk, local, bounds, history
<1>8. ASSUME NEW p \in Positions, MoveAsset(p) PROVE Named'
  BY <1>8, MediaAssumption DEF MoveAsset, Named, Unrecorded, Saving, Undoing, Deleting, disk, local, bounds, history
<1>9. CASE AllMoved
  BY <1>9, MediaAssumption DEF AllMoved, Named, Unrecorded, Saving, Undoing, Deleting, disk, local, bounds, history
<1>10. CASE Preserve
  <2>1. final' \in {final, Nothing} /\ UNCHANGED <<row, before, orphaned>> /\ pc = "preserve" /\ pc' = "install"
    BY <1>10 DEF Preserve, history
  <2>2. ~orphaned' => Matches(final', row')
    BY <2>1, MatchesFacts DEF Named, Unrecorded
  <2> QED
    BY <2>1, <2>2 DEF Named, Saving
<1>11. CASE Install
  BY <1>11, MediaAssumption DEF Install, Named, Unrecorded, Saving, Undoing, Deleting, disk, local, bounds, history
<1>12. CASE Measure
  BY <1>12, MediaAssumption DEF Measure, Named, Unrecorded, Saving, Undoing, Deleting, disk, local, bounds, history
<1>13. CASE Persist
  <2>1. Matches(final', row') /\ pc' = "commit"
    BY <1>13, MatchesFacts DEF Persist, disk
  <2> QED
    BY <2>1 DEF Named, Saving
<1>14. CASE Commit
  BY <1>14, MediaAssumption DEF Commit, Named, Unrecorded, Saving, Undoing, Deleting, disk, local, bounds, history
<1>15. CASE Cleanup
  BY <1>15, MediaAssumption DEF Cleanup, Named, Unrecorded, Saving, Undoing, Deleting, disk, local, bounds, history
<1>16. CASE FailItem
  BY <1>16, MediaAssumption DEF FailItem, Raise, Named, Unrecorded, Saving, Undoing, Deleting, disk, local, bounds, history
<1>17. CASE Undo
  BY <1>17, MediaAssumption DEF Undo, Named, Unrecorded, Saving, Undoing, Deleting, disk, local, bounds, history
<1>18. CASE Rollback
  <2>1. pc = "rollback" /\ pc' \in {"restore", "cleanup"} /\ UNCHANGED <<row, before, orphaned>> /\ Matches(final', row')
    BY <1>18, MatchesFacts DEF Rollback, history
  <2> QED
    BY <2>1 DEF Named, Saving
<1>19. CASE Restore
  <2>1. pc = "restore" /\ pc' = "cleanup" /\ UNCHANGED <<row, before, orphaned>>
    BY <1>19 DEF Restore, history
  <2>2. final' = before.final /\ row' = before.row
    BY <1>19 DEF Restore, Kept, Locals, Saving, Undoing
  <2> QED
    BY <2>1, <2>2 DEF Named, Saving
<1>20. CASE ListAssets
  BY <1>20, MediaAssumption DEF ListAssets, Named, Unrecorded, Saving, Undoing, Deleting, disk, local, bounds, history
<1>21. ASSUME NEW p \in Positions, DeleteAsset(p) PROVE Named'
  <2>1. UNCHANGED <<row, before, orphaned, pc, installed>> /\ pc = "unlink" /\ final \in Files
        /\ final' = [final EXCEPT ![p] = NoVersion] /\ listed' = listed \ {p}
    BY <1>21 DEF DeleteAsset, history, TypeOK
  <2>2. ~orphaned => Matches(final', row')
    BY <2>1, MatchesFacts DEF Named, Unrecorded
  <2>3. \A q \in Positions : final'[q] = IF q = p THEN NoVersion ELSE final[q]
    BY <2>1 DEF Files
  <2>4. \A q \in Positions : Has(row, q) => q \in listed' \/ ~Has(final', q)
    BY <2>1, <2>3 DEF Named, Has
  <2> QED
    BY <2>1, <2>2, <2>4 DEF Named, Saving, Has
<1>22. CASE AllDeleted
  BY <1>22, MediaAssumption DEF AllDeleted, Named, Unrecorded, Saving, Undoing, Deleting, disk, local, bounds, history
<1>23. CASE EraseRecords
  <2>1. UNCHANGED <<final, orphaned>> /\ row' = Nothing /\ pc = "erase" /\ pc' = "finish" /\ row \in Files /\ final \in Files
    BY <1>23 DEF EraseRecords, disk, history, TypeOK
  <2>2. ~orphaned => \A p \in Positions : ~Has(final, p)
    BY <2>1 DEF Named, Unrecorded, Matches, Has
  <2>3. ~orphaned => Matches(final', row')
    BY <2>1, <2>2 DEF Matches
  <2> QED
    BY <2>1, <2>3 DEF Named, Saving
<1>24. CASE Error
  <2>1. UNCHANGED <<row, final, before, installed, listed>> /\ pc' = Handler /\ pc \in Fallible
        /\ orphaned' = (orphaned \/ (pc \in {"undo", "rollback"} /\ installed))
    BY <1>24 DEF Error, Raise, disk
  <2>2. CASE pc \in {"move", "preserve", "install"}
    BY <2>1, <2>2 DEF Handler, Named, Unrecorded, Saving
  <2>3. CASE pc \in {"measure", "persist"}
    BY <2>1, <2>3 DEF Handler, Named, Unrecorded, Saving, Locals
  <2>4. CASE pc \in {"undo", "rollback"}
    BY <2>1, <2>4 DEF Handler, Named, Unrecorded, Saving
  <2>5. CASE pc \notin {"move", "preserve", "install", "measure", "persist", "undo", "rollback"}
    <3>1. pc' \in {"cleanup", "finish"} /\ ~Unrecorded
      BY <2>1, <2>5 DEF Handler, Fallible, Unrecorded
    <3> QED
      BY <2>1, <2>5, <3>1 DEF Named, Unrecorded, Saving
  <2> QED
    BY <2>2, <2>3, <2>4, <2>5
<1>25. CASE Finish
  BY <1>25, MediaAssumption DEF Finish, LeaveRun, Named, Unrecorded, Saving, Undoing, Deleting, disk, local, bounds, history
<1>26. CASE Kill
  BY <1>26, MediaAssumption DEF Kill, LeaveRun, Named, Unrecorded, Saving, Undoing, Deleting, disk, local, bounds, history
<1>27. CASE UNCHANGED vars
  BY <1>27 DEF vars, Named, Unrecorded, Saving, Undoing, Deleting, disk, local, bounds, history
<1> QED
  BY <1>1, <1>2, <1>3, <1>4, <1>5, <1>6, <1>7, <1>8, <1>9, <1>10, <1>11, <1>12, <1>13, <1>14, <1>15, <1>16, <1>17, <1>18, <1>19, <1>20, <1>21, <1>22, <1>23, <1>24, <1>25, <1>26, <1>27
     DEF Next, Process, Delete

(* The directories of jobs. *)
LEMMA NextTidy == TypeOK /\ Held /\ Locals /\ Arriving /\ Tidy /\ [Next]_vars => Tidy'
<1> SUFFICES ASSUME TypeOK, Held, Locals, Arriving, Tidy, [Next]_vars PROVE Tidy'
  OBVIOUS
<1>1. ASSUME NEW j \in Jobs, NEW kind \in {"download", "delete"}, Request(j, kind) PROVE Tidy'
  BY <1>1, MediaAssumption DEF Request, Tidy, Saving, Undoing, Deleting, disk, local, bounds, history
<1>2. ASSUME NEW p \in Positions, LoseFile(p) PROVE Tidy'
  BY <1>2, MediaAssumption DEF LoseFile, Tidy, Saving, Undoing, Deleting, disk, local, bounds, history
<1>3. ASSUME NEW j \in Jobs, Claim(j) PROVE Tidy'
  BY <1>3, MediaAssumption DEF Claim, Tidy, Saving, Undoing, Deleting, disk, local, bounds, history
<1>4. CASE CheckExisting
  <2>1. CASE pc' = "finish"
    BY <1>4, <2>1 DEF CheckExisting, Tidy, Saving, Undoing, local, history
  <2>2. CASE pc' = "fetch"
    <3>1. \A j \in Jobs : staging'[j] = IF j = job THEN Nothing ELSE staging[j]
      BY <1>4, <2>2 DEF CheckExisting, TypeOK
    <3> QED
      BY <1>4, <2>2, <3>1 DEF CheckExisting, Tidy, Saving, Undoing, local, history
  <2> QED
    BY <1>4, <2>1, <2>2 DEF CheckExisting
<1>5. ASSUME NEW v \in Versions, NEW got \in SUBSET Positions, Fetch(v, got) PROVE Tidy'
  BY <1>5, MediaAssumption DEF Fetch, Tidy, Saving, Undoing, Deleting, disk, local, bounds, history
<1>6. CASE MapStagedAssets
  BY <1>6, MediaAssumption DEF MapStagedAssets, Tidy, Saving, Undoing, Deleting, disk, local, bounds, history
<1>7. CASE Prepare
  BY <1>7, MediaAssumption DEF Prepare, Tidy, Saving, Undoing, Deleting, disk, local, bounds, history
<1>8. ASSUME NEW p \in Positions, MoveAsset(p) PROVE Tidy'
  BY <1>8, MediaAssumption DEF MoveAsset, Tidy, Saving, Undoing, Deleting, disk, local, bounds, history
<1>9. CASE AllMoved
  BY <1>9, MediaAssumption DEF AllMoved, Tidy, Saving, Undoing, Deleting, disk, local, bounds, history
<1>10. CASE Preserve
  <2>1. CASE final = Nothing
    BY <1>10, <2>1 DEF Preserve, Tidy, Saving, Undoing, history
  <2>2. CASE final # Nothing
    <3>1. \A j \in Jobs : j # job => backup'[j] = backup[j]
      BY <1>10, <2>2 DEF Preserve, TypeOK
    <3>2. preserved' /\ UNCHANGED <<staging, partial, job, cut>> /\ pc = "preserve" /\ pc' = "install"
      BY <1>10, <2>2 DEF Preserve, history
    <3> QED
      BY <3>1, <3>2 DEF Tidy, Saving
  <2> QED
    BY <2>1, <2>2
<1>11. CASE Install
  <2>1. \A j \in Jobs : partial'[j] = IF j = job THEN Nothing ELSE partial[j]
    BY <1>11 DEF Install, TypeOK
  <2>2. UNCHANGED <<staging, backup, preserved, job, cut>> /\ pc = "install" /\ pc' = "measure"
    BY <1>11 DEF Install, history
  <2> QED
    BY <2>1, <2>2 DEF Tidy, Saving
<1>12. CASE Measure
  BY <1>12, MediaAssumption DEF Measure, Tidy, Saving, Undoing, Deleting, disk, local, bounds, history
<1>13. CASE Persist
  BY <1>13, MediaAssumption DEF Persist, Tidy, Saving, Undoing, Deleting, disk, local, bounds, history
<1>14. CASE Commit
  <2>1. \A j \in Jobs : backup'[j] = IF j = job /\ preserved THEN Nothing ELSE backup[j]
    <3>1. CASE preserved
      BY <1>14, <3>1 DEF Commit, TypeOK
    <3>2. CASE ~preserved
      BY <1>14, <3>2 DEF Commit, TypeOK
    <3> QED
      BY <3>1, <3>2
  <2>2. UNCHANGED <<staging, partial, preserved, job, cut>> /\ pc = "commit" /\ pc' = "cleanup"
    BY <1>14 DEF Commit, local, history
  <2> QED
    BY <2>1, <2>2 DEF Tidy, Saving
<1>15. CASE Cleanup
  <2>1. \A j \in Jobs : staging'[j] = IF j = job THEN Nothing ELSE staging[j]
    BY <1>15 DEF Cleanup, TypeOK
  <2>2. UNCHANGED <<backup, partial, preserved, job, cut>> /\ pc = "cleanup"
    BY <1>15 DEF Cleanup, local, history
  <2> QED
    BY <2>1, <2>2 DEF Tidy, Saving, Undoing
<1>16. CASE FailItem
  BY <1>16, MediaAssumption DEF FailItem, Raise, Tidy, Saving, Undoing, Deleting, disk, local, bounds, history
<1>17. CASE Undo
  <2>1. \A j \in Jobs : partial'[j] = IF j = job THEN Nothing ELSE partial[j]
    BY <1>17 DEF Undo, TypeOK
  <2>2. UNCHANGED <<backup, staging, preserved, job, cut>> /\ pc = "undo" /\ pc' \in {"rollback", "cleanup"}
        /\ (preserved => pc' = "rollback")
    BY <1>17 DEF Undo, local, history
  <2> QED
    BY <2>1, <2>2 DEF Tidy, Saving, Undoing
<1>18. CASE Rollback
  BY <1>18, MediaAssumption DEF Rollback, Tidy, Saving, Undoing, Deleting, disk, local, bounds, history
<1>19. CASE Restore
  <2>1. \A j \in Jobs : backup'[j] = IF j = job THEN Nothing ELSE backup[j]
    BY <1>19 DEF Restore, TypeOK
  <2>2. UNCHANGED <<partial, staging, preserved, job, cut>> /\ pc = "restore" /\ pc' = "cleanup"
    BY <1>19 DEF Restore, local, history
  <2> QED
    BY <2>1, <2>2 DEF Tidy, Saving, Undoing
<1>20. CASE ListAssets
  BY <1>20, MediaAssumption DEF ListAssets, Tidy, Saving, Undoing, Deleting, disk, local, bounds, history
<1>21. ASSUME NEW p \in Positions, DeleteAsset(p) PROVE Tidy'
  BY <1>21, MediaAssumption DEF DeleteAsset, Tidy, Saving, Undoing, Deleting, disk, local, bounds, history
<1>22. CASE AllDeleted
  BY <1>22, MediaAssumption DEF AllDeleted, Tidy, Saving, Undoing, Deleting, disk, local, bounds, history
<1>23. CASE EraseRecords
  BY <1>23, MediaAssumption DEF EraseRecords, Tidy, Saving, Undoing, Deleting, disk, local, bounds, history
<1>24. CASE Error
  BY <1>24, MediaAssumption DEF Error, Raise, Handler, Fallible, Tidying, Tidy, Saving, Undoing, Deleting, disk, local, bounds, history
<1>25. CASE Finish
  BY <1>25, MediaAssumption DEF Finish, LeaveRun, Tidy, Saving, Undoing, Deleting, disk, local, bounds, history
<1>26. CASE Kill
  BY <1>26, MediaAssumption DEF Kill, LeaveRun, Tidy, Saving, Undoing, Deleting, disk, local, bounds, history
<1>27. CASE UNCHANGED vars
  BY <1>27 DEF vars, Tidy, Saving, Undoing, Deleting, disk, local, bounds, history
<1> QED
  BY <1>1, <1>2, <1>3, <1>4, <1>5, <1>6, <1>7, <1>8, <1>9, <1>10, <1>11, <1>12, <1>13, <1>14, <1>15, <1>16, <1>17, <1>18, <1>19, <1>20, <1>21, <1>22, <1>23, <1>24, <1>25, <1>26, <1>27
     DEF Next, Process, Delete

-----------------------------------------------------------------------------
(* The theorems.                                                           *)

LEMMA InitInv == Init => Inv
<1> SUFFICES ASSUME Init PROVE Inv
  OBVIOUS
<1>1. TypeOK
  BY InitType
<1>2. Held /\ Locals /\ Arriving /\ Kept /\ Settled /\ LeftAlone
  BY DEF Init, Held, Locals, Arriving, Kept, Settled, LeftAlone, Downloading, Saving, Deleting, Undoing
<1>3. Pure
  BY OfOneFacts DEF Init, Pure
<1>4. Named
  BY MatchesFacts DEF Init, Named, Saving
<1>5. Tidy
  BY DEF Init, Tidy
<1> QED
  BY <1>1, <1>2, <1>3, <1>4, <1>5 DEF Inv

LEMMA NextInv == Inv /\ [Next]_vars => Inv'
BY NextType, NextHeld, NextPure, NextArriving, NextKept, NextSettled, NextLeftAlone, NextNamed, NextTidy DEF Inv

LEMMA AlwaysInv == Spec => []Inv
BY InitInv, NextInv, PTL DEF Spec

(* Every variable keeps to its type. *)
THEOREM TypesHold == Spec => []TypeOK
BY AlwaysInv, PTL DEF Inv

(* Whatever was killed, lost or refused before, a download that reports    *)
(* success leaves the row and the files of one and the same version, all   *)
(* of them.                                                                *)
THEOREM DownloadsAreWhole == Spec => []SuccessIsWhole
<1>1. Inv => SuccessIsWhole
  <2> SUFFICES ASSUME Inv, pc = "finish", Downloading, ~failed
               PROVE  \E v \in Versions : row = Whole(v) /\ final = Whole(v)
    BY DEF SuccessIsWhole
  <2>1. Complete(final, row)
    BY DEF Inv, Settled
  <2>2. PICK v \in Versions : row = Whole(v)
    BY <2>1 DEF Inv, Pure, Complete
  <2> QED
    BY <2>1, <2>2, CompleteIsWhole DEF Inv, Pure, TypeOK
<1> QED
  BY <1>1, AlwaysInv, PTL

(* One error of the disk or the database, wherever it strikes, leaves the  *)
(* old item or a complete one.                                             *)
THEOREM ErrorsAreUndone == Spec => []AllOrNothing
<1>1. Inv => AllOrNothing
  BY DEF Inv, Settled, AllOrNothing
<1> QED
  BY <1>1, AlwaysInv, PTL

(* Complete media is not touched by a download. *)
THEOREM CompleteMediaStays == Spec => []CompleteIsLeft
<1>1. Inv => CompleteIsLeft
  <2> SUFFICES ASSUME Inv, Downloading, before.row # Nothing,
                      \A p \in Positions : Has(before.row, p) => before.final[p] = before.row[p]
               PROVE  row = before.row /\ final = before.final
    BY DEF CompleteIsLeft
  <2>1. PICK v \in Versions : before.row = Whole(v)
    BY DEF Inv, Pure
  <2>2. Complete(before.final, before.row)
    BY <2>1, WholeFacts DEF Complete
  <2> QED
    BY <2>2 DEF Inv, LeftAlone
<1> QED
  BY <1>1, AlwaysInv, PTL

(* Between jobs the files are those the row names, unless a run was cut    *)
(* off between the two.                                                    *)
THEOREM LibraryMatchesRow == Spec => []FilesMatchRow
<1>1. Inv => FilesMatchRow
  BY DEF Inv, Named, Matches, Unrecorded, FilesMatchRow
<1> QED
  BY <1>1, AlwaysInv, PTL

(* A job that was not cut off leaves no directory of its own behind.       *)
THEOREM JobsTidyUp == Spec => []NothingStray
<1>1. Inv => NothingStray
  <2> SUFFICES ASSUME Inv, NEW j \in Jobs \ cut, jobs[j].state \in {"succeeded", "failed"}
               PROVE  staging[j] = Nothing /\ partial[j] = Nothing /\ backup[j] = Nothing
    BY DEF NothingStray
  <2>1. j # NoJob
    BY MediaAssumption
  <2>2. j # job
    BY <2>1 DEF Inv, Held
  <2> QED
    BY <2>2 DEF Inv, Tidy
<1> QED
  BY <1>1, AlwaysInv, PTL

=============================================================================
