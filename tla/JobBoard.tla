------------------------------ MODULE JobBoard ------------------------------
(***************************************************************************)
(* What the job table promises its users, whoever reads and writes it: a   *)
(* job is never lost, at most one job runs at a time, a job that ended     *)
(* stays as it ended, and a profile has at most one profile_sync job that  *)
(* has not ended.  JobQueue implements this specification.                 *)
(*                                                                         *)
(* The table is the sequence of its rows in order of creation.  The rows   *)
(* of ended jobs stay (Activity lists them), so the sequence only grows.   *)
(***************************************************************************)
EXTENDS Naturals, Sequences

CONSTANTS Profiles,   (* profile identifiers                              *)
          NoProfile   (* the target of a job that is not about a profile  *)

VARIABLE jobs

-----------------------------------------------------------------------------

(* Job.type, ck_jobs_type *)
JobTypes == {"profile_sync", "single_media", "delete_media",
             "delete_profile", "followee_discovery"}

(* Job.state, ck_jobs_state *)
EndStates == {"succeeded", "completed_with_warnings", "failed"}
JobStates == {"pending", "running"} \cup EndStates

(* A row: what to do, for which profile, and how far it is. *)
Row == [type: JobTypes, target: Profiles \cup {NoProfile}, state: JobStates]

NewJob(type, target) == [type |-> type, target |-> target, state |-> "pending"]

Unfinished(row) == row.state \in {"pending", "running"}

IsSyncOf(row, p) == row.type = "profile_sync" /\ row.target = p

-----------------------------------------------------------------------------

(* At most one profile_sync job of a profile has not ended. *)
OneActiveSync ==
    \A i, j \in DOMAIN jobs :
        /\ jobs[i].type = "profile_sync"
        /\ jobs[j].type = "profile_sync"
        /\ jobs[i].target = jobs[j].target
        /\ Unfinished(jobs[i])
        /\ Unfinished(jobs[j])
        => i = j

(* At most one job runs. *)
OneRunning ==
    \A i, j \in DOMAIN jobs :
        jobs[i].state = "running" /\ jobs[j].state = "running" => i = j

-----------------------------------------------------------------------------

Init == jobs = << >>

(* New rows go behind the others, and never give a profile a second active *)
(* profile_sync job.                                                       *)
Submit ==
    /\ jobs' \in Seq(Row)
    /\ Len(jobs') >= Len(jobs)
    /\ \A i \in DOMAIN jobs : jobs'[i] = jobs[i]
    /\ \A i \in DOMAIN jobs' \ DOMAIN jobs : jobs'[i].state = "pending"
    /\ OneActiveSync'

(* A job starts when no other runs. *)
Start(i) ==
    /\ jobs[i].state = "pending"
    /\ \A k \in DOMAIN jobs : jobs[k].state # "running"
    /\ jobs' = [jobs EXCEPT ![i].state = "running"]

Finish(i, outcome) ==
    /\ jobs[i].state = "running"
    /\ jobs' = [jobs EXCEPT ![i].state = outcome]

(* After a crash of the process that ran it, a job waits again. *)
Interrupt(i) ==
    /\ jobs[i].state = "running"
    /\ jobs' = [jobs EXCEPT ![i].state = "pending"]

Next ==
    \/ Submit
    \/ \E i \in DOMAIN jobs :
          \/ Start(i)
          \/ Interrupt(i)
          \/ \E outcome \in EndStates : Finish(i, outcome)

Spec == Init /\ [][Next]_jobs

=============================================================================
