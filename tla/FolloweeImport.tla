---------------------------- MODULE FolloweeImport ----------------------------
(***************************************************************************)
(* Import of the accounts that the owner of the stored cookies follows.    *)
(*                                                                         *)
(*   db/followee_import_repositories.py   the batches and candidates       *)
(*   services/followee_import_service.py  reads the cookies, then calls it *)
(*   services/job_runner.py               the followee_discovery job       *)
(*   instagram/followee_discovery.py      what the job does                *)
(*   instagram/worker_runtime.py          the loader the worker keeps      *)
(*   instagram/session_store.py           the stored cookies               *)
(*                                                                         *)
(* A scan is asked for in the web process, made by the worker, looked at   *)
(* and committed in the web process again.  All that time the cookies can  *)
(* be replaced or removed, by a rename of one file that no transaction of  *)
(* the database knows of.  Batches carry the revision of the cookies they  *)
(* are for, and every step compares it with what it read itself.           *)
(*                                                                         *)
(* An action is one transaction, where the code makes one: a session that  *)
(* does not say BEGIN IMMEDIATE reads before SQLite opens the transaction  *)
(* of its first write, so start_discovery is two actions.                  *)
(*                                                                         *)
(* A batch and its job share one number, given in order of creation.  A    *)
(* revision is the time of its import, which is never given twice.         *)
(*                                                                         *)
(* Simplifications:                                                        *)
(*  - which candidates have a profile already is left to the commit's      *)
(*    model in JobQueue;                                                   *)
(*  - the file of the cookies can always be read and written;              *)
(*  - a job is taken whenever it is pending: the cooldown is in JobQueue.  *)
(***************************************************************************)
EXTENDS Naturals

CONSTANTS Clients,    (* requests that can be in flight at a time          *)
          Accounts,   (* accounts that may be followed                     *)
          MaxBatches, (* bound: batches ever created                       *)
          MaxImports, (* bound: imports of cookies                         *)
          MaxKills,   (* bound: deaths of the worker                       *)
          MaxErrors   (* bound: failures to record that a scan failed      *)

ASSUME ImportAssumption ==
    /\ MaxBatches \in Nat
    /\ MaxImports \in Nat
    /\ MaxKills \in Nat
    /\ MaxErrors \in Nat

Batches == 1..MaxBatches
NoBatch == 0

Revisions == 1..MaxImports
NoCookies == 0

VARIABLES
    stored,    (* revision of the cookies in the file                      *)
    imports,   (* revisions given                                          *)
    batch,     (* rows of followee_import_batches, with their candidates   *)
    job,       (* state of the job of each batch                           *)
    request,   (* per client: the request in flight                        *)
    pc,        (* what the worker does next                                *)
    current,   (* the batch whose job it runs                              *)
    loader,    (* revision of the authenticated loader it keeps            *)
    read,      (* accounts read from Instagram                             *)
    kills,
    errors,
    (* history *)
    source,    (* per batch: revision of the loader that read its accounts *)
    asked,     (* per batch: revision its commit was asked with            *)
    forgotten, (* batches whose failure was not recorded                   *)
    revived    (* a batch was started after it had been given up           *)

worker  == <<pc, current, loader, read>>
bounds  == <<kills, errors>>
history == <<source, asked, forgotten, revived>>
vars    == <<stored, imports, batch, job, request, worker, bounds, history>>

-----------------------------------------------------------------------------
Active == {"pending", "running"}

Open == Active \cup {"ready"}

BatchStates == {"unused"} \cup Open \cup {"imported", "failed", "deleted"}

JobStates == {"unused", "pending", "running", "succeeded", "failed"}

Steps == {"idle", "start", "mark", "acquire", "read", "complete", "succeed",
          "fail", "end"}

NoRequest == [kind |-> "none", revision |-> NoCookies, of |-> NoBatch,
              chosen |-> {}]

Requests == [kind: {"none", "import", "scan", "commit"},
             revision: Revisions \cup {NoCookies}, of: Batches \cup {NoBatch},
             chosen: SUBSET Accounts]

Rows == [state: BatchStates, revision: Revisions \cup {NoCookies},
         found: SUBSET Accounts]

In(states) == {b \in Batches : batch[b].state \in states}

TypeOK ==
    /\ stored \in Revisions \cup {NoCookies}
    /\ imports \in 0..MaxImports
    /\ batch \in [Batches -> Rows]
    /\ job \in [Batches -> JobStates]
    /\ request \in [Clients -> Requests]
    /\ pc \in Steps
    /\ current \in Batches \cup {NoBatch}
    /\ loader \in Revisions \cup {NoCookies}
    /\ read \subseteq Accounts
    /\ kills \in 0..MaxKills
    /\ errors \in 0..MaxErrors
    /\ source \in [Batches -> Revisions \cup {NoCookies}]
    /\ asked \in [Batches -> Revisions \cup {NoCookies}]
    /\ forgotten \subseteq Batches
    /\ revived \in BOOLEAN

Init ==
    /\ stored = NoCookies
    /\ imports = 0
    /\ batch = [b \in Batches |->
                   [state |-> "unused", revision |-> NoCookies, found |-> {}]]
    /\ job = [b \in Batches |-> "unused"]
    /\ request = [c \in Clients |-> NoRequest]
    /\ pc = "idle"
    /\ current = NoBatch
    /\ loader = NoCookies
    /\ read = {}
    /\ kills = 0
    /\ errors = 0
    /\ source = [b \in Batches |-> NoCookies]
    /\ asked = [b \in Batches |-> NoCookies]
    /\ forgotten = {}
    /\ revived = FALSE

-----------------------------------------------------------------------------
(* The stored cookies.                                                     *)

Begin(c, r) ==
    /\ request[c] = NoRequest
    /\ request' = [request EXCEPT ![c] = r]

Answer(c) == request' = [request EXCEPT ![c] = NoRequest]

(* import_netscape: the time of the import is taken before the cookies are *)
(* tried out on Instagram.                                                 *)
BeginImport(c) ==
    /\ imports < MaxImports
    /\ imports' = imports + 1
    /\ Begin(c, [NoRequest EXCEPT !.kind = "import", !.revision = imports + 1])
    /\ UNCHANGED <<stored, batch, job, worker, bounds, history>>

(* Instagram refuses them, or replace renames the new file over the old. *)
FinishImport(c, accepted) ==
    /\ request[c].kind = "import"
    /\ stored' = IF accepted THEN request[c].revision ELSE stored
    /\ Answer(c)
    /\ UNCHANGED <<imports, batch, job, worker, bounds, history>>

RemoveCookies ==
    /\ stored # NoCookies
    /\ stored' = NoCookies
    /\ UNCHANGED <<imports, batch, job, request, worker, bounds,
                   history>>

-----------------------------------------------------------------------------
(* Requests for a scan: the service reads the cookies, and then the        *)
(* repository looks for a batch of theirs.                                 *)

BeginScan(c) ==
    /\ stored # NoCookies
    /\ Begin(c, [NoRequest EXCEPT !.kind = "scan", !.revision = stored])
    /\ UNCHANGED <<stored, imports, batch, job, worker, bounds,
                   history>>

Oldest(S) == CHOOSE b \in S : \A other \in S : b =< other
Newest(S) == CHOOSE b \in S : \A other \in S : b >= other

(* The batches it looks at: the oldest that is active, the newest ready. *)
Seen ==
    {b \in In(Active)    : b = Oldest(In(Active))}
      \cup {b \in In({"ready"}) : b = Newest(In({"ready"}))}

Discard(b) ==
    IF batch[b].state = "ready"
    THEN [batch[b] EXCEPT !.state = "deleted", !.found = {}]
    ELSE [batch[b] EXCEPT !.state = "failed"]

(* Those of them that are for the cookies of the request, and those that   *)
(* it gives up: none once it has found its own among the active ones.      *)
Own(revision) == {b \in Seen : batch[b].revision = revision}

GivenUp(revision) ==
    IF Own(revision) \cap In(Active) # {} THEN {} ELSE Seen \ Own(revision)

(* The next batch is added to these, with its job. *)
Create(batches, revision) ==
    \E b \in In({"unused"}) :
        /\ \A other \in In({"unused"}) : b =< other
        /\ batch' = [batches EXCEPT ![b].state = "pending",
                                    ![b].revision = revision]
        /\ job' = [job EXCEPT ![b] = "pending"]

(* Mistake: a batch of other cookies stays as it is.                       *)
FinishScanBeside(c) ==
    LET revision == request[c].revision
    IN  /\ request[c].kind = "scan"
        /\ IF Own(revision) # {}
           THEN UNCHANGED <<batch, job>>
           ELSE Create(batch, revision)
        /\ Answer(c)
        /\ UNCHANGED <<stored, imports, worker, bounds, history>>

(* create_or_get_active *)
FinishScan(c) ==
    LET revision == request[c].revision
        cleared  == [b \in Batches |->
                        IF b \in GivenUp(revision) THEN Discard(b)
                                                   ELSE batch[b]]
    IN  /\ request[c].kind = "scan"
        /\ IF Own(revision) # {}
           THEN batch' = cleared /\ UNCHANGED job
           ELSE Create(cleared, revision)
        /\ Answer(c)
        /\ UNCHANGED <<stored, imports, worker, bounds, history>>

-----------------------------------------------------------------------------
(* Requests to import candidates of a batch.                               *)

BeginCommit(c, b, chosen) ==
    /\ batch[b].state \notin {"unused", "deleted"}
    /\ stored # NoCookies
    /\ chosen # {}
    /\ Begin(c, [kind |-> "commit", revision |-> stored, of |-> b,
                 chosen |-> chosen])
    /\ UNCHANGED <<stored, imports, batch, job, worker, bounds,
                   history>>

Imported(b) ==
    batch' = [batch EXCEPT ![b].state = "imported", ![b].found = {}]

(* commit: one transaction.  The profiles it creates for accounts that     *)
(* have none, and their jobs, are in JobQueue.                             *)
FinishCommit(c) ==
    LET b == request[c].of
    IN  /\ request[c].kind = "commit"
        /\ batch[b].state = "ready"
        /\ batch[b].revision = request[c].revision
        /\ request[c].chosen \subseteq batch[b].found
        /\ Imported(b)
        /\ asked' = [asked EXCEPT ![b] = request[c].revision]
        /\ Answer(c)
        /\ UNCHANGED <<stored, imports, job, worker, bounds, source, forgotten,
                       revived>>

(* Not ready any more, for other cookies, or not its candidates. *)
RefuseCommit(c) ==
    LET b == request[c].of
    IN  /\ request[c].kind = "commit"
        /\ \/ batch[b].state # "ready"
           \/ batch[b].revision # request[c].revision
           \/ ~(request[c].chosen \subseteq batch[b].found)
        /\ Answer(c)
        /\ UNCHANGED <<stored, imports, batch, job, worker, bounds,
                       history>>

-----------------------------------------------------------------------------
(* The worker.                                                             *)

Unchanged == UNCHANGED <<stored, imports, request>>

Claim(b) ==
    /\ pc = "idle"
    /\ job[b] = "pending"
    /\ job' = [job EXCEPT ![b] = "running"]
    /\ pc' = "start"
    /\ current' = b
    /\ Unchanged
    /\ UNCHANGED <<batch, loader, read, bounds, history>>

(* Mistake: any batch is taken up.                                         *)
StartAny ==
    /\ pc = "start"
    /\ pc' = "mark"
    /\ Unchanged
    /\ UNCHANGED <<batch, job, current, loader, read, bounds, history>>

(* start_discovery reads the batch.  A batch already marked as running by  *)
(* a run that was killed needs no update ...                               *)
Start ==
    /\ pc = "start"
    /\ pc' = CASE batch[current].state = "pending" -> "mark"
                [] batch[current].state = "running" -> "acquire"
                [] OTHER                            -> "fail"
    /\ Unchanged
    /\ UNCHANGED <<batch, job, current, loader, read, bounds, history>>

(* ... and otherwise is updated whatever became of it since it was read:   *)
(* the UPDATE names its identifier only.                                   *)
Mark ==
    /\ pc = "mark"
    /\ batch' = [batch EXCEPT ![current].state = "running"]
    /\ revived' = (revived \/ batch[current].state # "pending")
    /\ pc' = "acquire"
    /\ Unchanged
    /\ UNCHANGED <<job, current, loader, read, bounds, source, asked, forgotten>>

(* Mistake: a loader the worker already has is used for any cookies.       *)
AcquireCached ==
    /\ pc = "acquire"
    /\ IF stored = batch[current].revision
       THEN /\ loader' = IF loader = NoCookies THEN stored ELSE loader
            /\ pc' = "read"
       ELSE /\ loader' = NoCookies
            /\ pc' = "fail"
    /\ Unchanged
    /\ UNCHANGED <<batch, job, current, read, bounds, history>>

(* acquire_authenticated *)
Acquire ==
    /\ pc = "acquire"
    /\ IF stored = batch[current].revision
       THEN /\ loader' = stored
            /\ pc' = "read"
       ELSE /\ loader' = NoCookies
            /\ pc' = "fail"
    /\ Unchanged
    /\ UNCHANGED <<batch, job, current, read, bounds, history>>

(* discover: all followed accounts or, when anything fails, none *)
Read(found) ==
    /\ pc = "read"
    /\ read' = found
    /\ pc' = "complete"
    /\ Unchanged
    /\ UNCHANGED <<batch, job, current, loader, bounds, history>>

FailToRead ==
    /\ pc = "read"
    /\ pc' = "fail"
    /\ Unchanged
    /\ UNCHANGED <<batch, job, current, loader, read, bounds, history>>

(* complete_discovery *)
Complete ==
    /\ pc = "complete"
    /\ IF batch[current].state = "running"
       THEN /\ batch' = [batch EXCEPT ![current].state = "ready",
                                      ![current].found = read]
            /\ source' = [source EXCEPT ![current] = loader]
            /\ pc' = "succeed"
       ELSE /\ pc' = "fail"
            /\ UNCHANGED <<batch, source>>
    /\ read' = {}
    /\ Unchanged
    /\ UNCHANGED <<job, current, loader, bounds, asked, forgotten, revived>>

EndJob(state) ==
    /\ job' = [job EXCEPT ![current] = state]
    /\ pc' = "idle"
    /\ current' = NoBatch

Succeed ==
    /\ pc = "succeed"
    /\ EndJob("succeeded")
    /\ Unchanged
    /\ UNCHANGED <<batch, loader, read, bounds, history>>

(* Mistake: the batch is not told.                                         *)
RecordNothing ==
    /\ pc = "fail"
    /\ pc' = "end"
    /\ Unchanged
    /\ UNCHANGED <<batch, job, current, loader, read, bounds, history>>

(* fail_discovery; when the database refuses it, the worker goes on. *)
RecordFailure ==
    /\ pc = "fail"
    /\ batch' = IF batch[current].state \in Active
                THEN [batch EXCEPT ![current].state = "failed"]
                ELSE batch
    /\ pc' = "end"
    /\ Unchanged
    /\ UNCHANGED <<job, current, loader, read, bounds, history>>

FailToRecord ==
    /\ pc = "fail"
    /\ errors < MaxErrors
    /\ errors' = errors + 1
    /\ forgotten' = forgotten \cup {current}
    /\ pc' = "end"
    /\ Unchanged
    /\ UNCHANGED <<batch, job, current, loader, read, kills, source,
                   asked, revived>>

FailJob ==
    /\ pc = "end"
    /\ EndJob("failed")
    /\ Unchanged
    /\ UNCHANGED <<batch, loader, read, bounds, history>>

(* Other jobs leave the loader of the cookies they found. *)
OtherJob ==
    /\ pc = "idle"
    /\ loader # stored
    /\ loader' = stored
    /\ Unchanged
    /\ UNCHANGED <<batch, job, pc, current, read, bounds, history>>

Died ==
    /\ pc # "idle"
    /\ kills < MaxKills
    /\ kills' = kills + 1
    /\ loader' = NoCookies
    /\ read' = {}
    /\ Unchanged
    /\ UNCHANGED <<batch, errors, history>>

(* Mistakes: the job is given a state of its own, or stays as it is.       *)
KillInterrupted == Died /\ EndJob("interrupted")

KillForgotten == Died /\ EndJob("running")

(* The worker dies, starts again and recover_interrupted queues its job. *)
Kill == Died /\ EndJob("pending")

-----------------------------------------------------------------------------
Work ==
    \/ \E b \in Batches : Claim(b)
    \/ Start \/ Mark \/ Acquire
    \/ \E found \in SUBSET Accounts : Read(found)
    \/ FailToRead \/ Complete \/ Succeed \/ RecordFailure \/ FailToRecord
    \/ FailJob

Web ==
    \/ RemoveCookies
    \/ \E c \in Clients :
           \/ BeginImport(c) \/ BeginScan(c)
           \/ \E accepted \in BOOLEAN : FinishImport(c, accepted)
           \/ FinishScan(c)
           \/ \E b \in Batches, chosen \in SUBSET Accounts :
                  BeginCommit(c, b, chosen)
           \/ FinishCommit(c) \/ RefuseCommit(c)

Next == Work \/ OtherJob \/ Kill \/ Web

(* The worker loops, and Docker restarts it. *)
Spec == Init /\ [][Next]_vars /\ WF_vars(Work)

-----------------------------------------------------------------------------
(* What an import promises.                                                *)

(* There is never more than one batch to wait for or to choose from, with  *)
(* whatever cookies come and go while requests and the worker are on their *)
(* way, until a batch is revived.  (create_or_get_active,                  *)
(* complete_discovery)                                                     *)
OneOpenBatch == revived \/ \A b, other \in In(Open) : b = other

(* What is imported was read with the cookies the batch is for, and asked  *)
(* for while these were stored: not with those of a loader kept from an    *)
(* earlier job, nor after they were replaced.  (acquire_authenticated,     *)
(* complete_discovery, commit)                                             *)
OwnCookies ==
    \A b \in Batches :
        /\ batch[b].state \in {"ready", "imported"} =>
               source[b] = batch[b].revision
        /\ batch[b].state = "imported" => asked[b] = batch[b].revision

(* While a page waits for a batch there is a job that will settle it,      *)
(* unless the database refused to record a failure: then a scan with the   *)
(* same cookies returns that batch for ever.  (_fail_job, fail_discovery)  *)
ActiveHasJob ==
    \A b \in In(Active) \ forgotten : job[b] \in Active

(* A finished scan is lost only to a request that found other cookies than *)
(* its own, and what was imported or deleted stays so.  The request may    *)
(* have found them before they were replaced: then it gives up a batch of  *)
(* the cookies that are stored now.  (create_or_get_active,                *)
(* complete_discovery, commit)                                             *)
ScansAreKept ==
    [][\A b \in Batches :
           /\ batch[b].state = "ready" /\ batch'[b].state # "ready" =>
                  \/ batch'[b].state = "imported"
                  \/ \E c \in Clients :
                         /\ request[c].kind = "scan"
                         /\ request[c].revision # batch[b].revision
                         /\ request'[c] = NoRequest
           /\ batch[b].state \in {"imported", "deleted"} =>
                  batch'[b].state = batch[b].state
      ]_vars

(* Every scan ends: ready, failed or given up.  (run, recover_interrupted) *)
ScansEnd ==
    \A b \in Batches :
        batch[b].state \in Active ~>
            batch[b].state \notin Active \/ b \in forgotten

=============================================================================
