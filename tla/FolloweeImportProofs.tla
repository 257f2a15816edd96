------------------------ MODULE FolloweeImportProofs ------------------------
(***************************************************************************)
(* Theorems about FolloweeImport, for any clients, accounts and bounds.    *)
(***************************************************************************)
EXTENDS FolloweeImport, TLAPS

-----------------------------------------------------------------------------
(* Types.                                                                  *)

(* The worker has a batch in hand unless it waits for one. *)
TypeInv == TypeOK /\ (pc # "idle" => current \in Batches)

(* What the types of the fields and of the steps contain. *)
LEMMA RequestTypes ==
    /\ NoRequest \in Requests
    /\ \A revision \in Revisions \cup {NoCookies} :
           /\ [NoRequest EXCEPT !.kind = "import", !.revision = revision]
                  \in Requests
           /\ [NoRequest EXCEPT !.kind = "scan", !.revision = revision]
                  \in Requests
           /\ \A b \in Batches, S \in SUBSET Accounts :
                  [kind |-> "commit", revision |-> revision, of |-> b,
                   chosen |-> S] \in Requests
BY DEF Requests, NoRequest

LEMMA RequestFields ==
    ASSUME NEW r \in Requests
    PROVE  /\ r.revision \in Revisions \cup {NoCookies}
           /\ r.of \in Batches \cup {NoBatch}
BY DEF Requests

LEMMA RowTypes ==
    ASSUME NEW row \in Rows
    PROVE  /\ \A s \in BatchStates : [row EXCEPT !.state = s] \in Rows
           /\ \A s \in BatchStates, r \in Revisions \cup {NoCookies} :
                  [row EXCEPT !.state = s, !.revision = r] \in Rows
           /\ \A s \in BatchStates, S \in SUBSET Accounts :
                  [row EXCEPT !.state = s, !.found = S] \in Rows
BY DEF Rows

LEMMA StateTypes ==
    /\ {"pending", "running", "ready", "imported", "failed", "deleted"}
           \subseteq BatchStates
    /\ {"pending", "running", "succeeded", "failed"} \subseteq JobStates
    /\ {"idle", "start", "mark", "acquire", "read", "complete", "succeed",
        "fail", "end"} \subseteq Steps
BY DEF BatchStates, Open, Active, JobStates, Steps

LEMMA InitType == Init => TypeInv
<1> SUFFICES ASSUME Init PROVE TypeInv
  OBVIOUS
<1>1. /\ imports \in 0..MaxImports
      /\ kills \in 0..MaxKills
      /\ errors \in 0..MaxErrors
  BY ImportAssumption DEF Init
<1>2. request \in [Clients -> Requests]
  BY RequestTypes DEF Init
<1>3. job \in [Batches -> JobStates]
  BY DEF Init, JobStates
<1>4. batch \in [Batches -> Rows]
  BY DEF Init, Rows, BatchStates
<1> QED
  BY <1>1, <1>2, <1>3, <1>4, StateTypes DEF Init, TypeInv, TypeOK

(* Requests for cookies and for scans. *)
LEMMA CookiesType ==
    ASSUME TypeOK, NEW c \in Clients,
           \/ BeginImport(c)
           \/ \E accepted \in BOOLEAN : FinishImport(c, accepted)
           \/ BeginScan(c)
    PROVE  TypeOK'
<1> USE DEF worker, bounds, history
<1>1. CASE BeginImport(c)
  <2>1. imports + 1 \in Revisions /\ imports' \in 0..MaxImports
    BY <1>1, ImportAssumption DEF BeginImport, Revisions, TypeOK
  <2>2. request' \in [Clients -> Requests]
    BY <1>1, <2>1, RequestTypes DEF BeginImport, Begin, TypeOK
  <2> QED
    BY <1>1, <2>1, <2>2 DEF BeginImport, TypeOK
<1>2. ASSUME NEW accepted \in BOOLEAN, FinishImport(c, accepted)
      PROVE  TypeOK'
  <2>1. request' \in [Clients -> Requests]
    BY <1>2, RequestTypes DEF FinishImport, Answer, TypeOK
  <2>2. stored' \in Revisions \cup {NoCookies}
    BY <1>2, RequestFields DEF FinishImport, TypeOK
  <2> QED
    BY <1>2, <2>1, <2>2 DEF FinishImport, TypeOK
<1>3. CASE BeginScan(c)
  <2>1. request' \in [Clients -> Requests]
    BY <1>3, RequestTypes DEF BeginScan, Begin, TypeOK
  <2> QED
    BY <1>3, <2>1 DEF BeginScan, TypeOK
<1> QED
  BY <1>1, <1>2, <1>3

LEMMA ScanType ==
    ASSUME TypeOK, NEW c \in Clients, FinishScan(c)
    PROVE  TypeOK'
<1> DEFINE revision == request[c].revision
           cleared == [b \in Batches |->
                          IF b \in GivenUp(revision) THEN Discard(b)
                                                     ELSE batch[b]]
<1>1. revision \in Revisions \cup {NoCookies}
  BY RequestFields DEF TypeOK
<1>2. \A b \in Batches : Discard(b) \in Rows
  BY RowTypes, StateTypes DEF TypeOK, Discard
<1>3. cleared \in [Batches -> Rows]
  BY <1>2 DEF TypeOK
<1>4. batch' \in [Batches -> Rows] /\ job' \in [Batches -> JobStates]
  <2>1. CASE batch' = cleared /\ UNCHANGED job
    BY <1>3, <2>1 DEF TypeOK
  <2>2. CASE Create(cleared, revision)
    <3> HIDE DEF cleared, revision
    <3>1. PICK b \in Batches :
              /\ batch' = [cleared EXCEPT ![b].state = "pending",
                                          ![b].revision = revision]
              /\ job' = [job EXCEPT ![b] = "pending"]
      BY <2>2 DEF Create, In
    <3>2. batch' = [cleared EXCEPT
                       ![b] = [cleared[b] EXCEPT !.state = "pending",
                                                 !.revision = revision]]
      BY <1>3, <3>1
    <3>3. [cleared[b] EXCEPT !.state = "pending", !.revision = revision] \in Rows
      BY <1>1, <1>3, RowTypes, StateTypes
    <3> QED
      BY <1>3, <3>1, <3>2, <3>3, StateTypes DEF TypeOK
  <2> QED
    BY <2>1, <2>2 DEF FinishScan
<1>5. request' \in [Clients -> Requests]
  BY RequestTypes DEF FinishScan, Answer, TypeOK
<1> QED
  BY <1>4, <1>5 DEF FinishScan, TypeOK, worker, bounds, history

(* Requests to import candidates. *)
LEMMA CommitType ==
    ASSUME TypeOK, NEW c \in Clients,
           \/ \E b \in Batches, chosen \in SUBSET Accounts :
                  BeginCommit(c, b, chosen)
           \/ FinishCommit(c) \/ RefuseCommit(c)
    PROVE  TypeOK'
<1> USE DEF worker, bounds, history
<1>1. ASSUME NEW b \in Batches, NEW chosen \in SUBSET Accounts,
             BeginCommit(c, b, chosen)
      PROVE  TypeOK'
  <2>1. request' \in [Clients -> Requests]
    BY <1>1, RequestTypes DEF BeginCommit, Begin, TypeOK
  <2> QED
    BY <1>1, <2>1 DEF BeginCommit, TypeOK
<1>2. CASE FinishCommit(c)
  <2> DEFINE of == request[c].of
  <2>1. request' \in [Clients -> Requests]
    BY <1>2, RequestTypes DEF FinishCommit, Answer, TypeOK
  <2>3. /\ request[c].of \in Batches \cup {NoBatch}
        /\ request[c].revision \in Revisions \cup {NoCookies}
    BY RequestFields DEF TypeOK
  <2>4. batch' \in [Batches -> Rows]
    <3> HIDE DEF of
    <3>1. batch' = [batch EXCEPT ![of].state = "imported", ![of].found = {}]
      BY <1>2 DEF FinishCommit, Imported, of
    <3>2. CASE of \in Batches
      <4>1. [batch[of] EXCEPT !.state = "imported", !.found = {}] \in Rows
        BY <3>2, RowTypes, StateTypes DEF TypeOK
      <4>2. batch' = [batch EXCEPT ![of] =
                         [batch[of] EXCEPT !.state = "imported", !.found = {}]]
        BY <3>1, <3>2 DEF TypeOK
      <4> QED
        BY <4>1, <4>2 DEF TypeOK
    <3>3. CASE of \notin Batches
      BY <3>1, <3>3 DEF TypeOK
    <3> QED
      BY <3>2, <3>3
  <2>5. asked' \in [Batches -> Revisions \cup {NoCookies}]
    BY <1>2, <2>3 DEF FinishCommit, TypeOK
  <2> QED
    BY <1>2, <2>1, <2>4, <2>5 DEF FinishCommit, TypeOK
<1>3. CASE RefuseCommit(c)
  <2>1. request' \in [Clients -> Requests]
    BY <1>3, RequestTypes DEF RefuseCommit, Answer, TypeOK
  <2> QED
    BY <1>3, <2>1 DEF RefuseCommit, TypeOK
<1> QED
  BY <1>1, <1>2, <1>3

LEMMA WebType == TypeInv /\ Web => TypeInv'
<1> SUFFICES ASSUME TypeInv, Web PROVE TypeOK'
  BY DEF TypeInv, Web, RemoveCookies, BeginImport, BeginScan,
     FinishImport, FinishScan, BeginCommit, FinishCommit, RefuseCommit, worker
<1> USE DEF TypeInv
<1>1. CASE RemoveCookies
  BY <1>1 DEF RemoveCookies, TypeOK, worker, bounds, history
<1> QED
  BY <1>1, CookiesType, ScanType, CommitType DEF Web

(* The worker. *)
LEMMA WorkType == TypeInv /\ Work => TypeInv'
<1> SUFFICES ASSUME TypeInv, Work PROVE TypeInv'
  OBVIOUS
<1>0. TypeInv
  OBVIOUS
<1> USE DEF Unchanged, worker, bounds, history
<1>1. ASSUME NEW b \in Batches, Claim(b) PROVE TypeInv'
  BY <1>1, StateTypes DEF Claim, TypeInv, TypeOK
<1>2. CASE Start
  <2>1. pc' \in Steps
    BY <1>2, StateTypes DEF Start
  <2> QED
    BY <1>2, <2>1 DEF Start, TypeInv, TypeOK
<1>3. CASE Mark
  <2>1. current \in Batches
    BY <1>3 DEF Mark, TypeInv
  <2>2. batch' \in [Batches -> Rows]
    BY <1>3, <2>1, RowTypes, StateTypes DEF Mark, TypeInv, TypeOK
  <2>3. revived' \in BOOLEAN
    BY <1>3 DEF Mark, TypeInv, TypeOK
  <2> QED
    BY <1>3, <2>1, <2>2, <2>3, StateTypes DEF Mark, TypeInv, TypeOK
<1>4. CASE Acquire
  BY <1>4, StateTypes DEF Acquire, TypeInv, TypeOK
<1>5. ASSUME NEW found \in SUBSET Accounts, Read(found) PROVE TypeInv'
  BY <1>5, StateTypes DEF Read, TypeInv, TypeOK
<1>6. CASE FailToRead
  BY <1>6, StateTypes DEF FailToRead, TypeInv, TypeOK
<1>7. CASE Complete
  <2>1. current \in Batches
    BY <1>7 DEF Complete, TypeInv
  <2>2. batch' \in [Batches -> Rows]
    <3>1. [batch[current] EXCEPT !.state = "ready", !.found = read] \in Rows
      BY <2>1, RowTypes, StateTypes DEF TypeInv, TypeOK
    <3>2. \/ UNCHANGED batch
          \/ batch' = [batch EXCEPT ![current] = [batch[current] EXCEPT
                                       !.state = "ready", !.found = read]]
      BY <1>7, <2>1 DEF Complete, TypeInv, TypeOK
    <3> QED
      BY <3>1, <3>2 DEF TypeInv, TypeOK
  <2>3. source' \in [Batches -> Revisions \cup {NoCookies}]
    BY <1>7 DEF Complete, TypeInv, TypeOK
  <2>4. pc' \in Steps
    BY <1>7, StateTypes DEF Complete
  <2> QED
    BY <1>7, <2>1, <2>2, <2>3, <2>4 DEF Complete, TypeInv, TypeOK
<1>8. CASE Succeed
  BY <1>8, StateTypes DEF Succeed, EndJob, TypeInv, TypeOK
<1>9. CASE FailJob
  BY <1>9, StateTypes DEF FailJob, EndJob, TypeInv, TypeOK
<1>10. CASE RecordFailure
  <2>1. current \in Batches
    BY <1>10 DEF RecordFailure, TypeInv
  <2>2. batch' \in [Batches -> Rows]
    BY <1>10, <2>1, RowTypes, StateTypes DEF RecordFailure, TypeInv, TypeOK
  <2> QED
    BY <1>10, <2>1, <2>2, StateTypes DEF RecordFailure, TypeInv, TypeOK
<1>11. CASE FailToRecord
  <2>1. errors' \in 0..MaxErrors
    BY <1>11, ImportAssumption DEF FailToRecord, TypeInv, TypeOK
  <2>2. current \in Batches
    BY <1>11 DEF FailToRecord, TypeInv
  <2> QED
    BY <1>11, <2>1, <2>2, StateTypes DEF FailToRecord, TypeInv, TypeOK
<1> QED
  BY <1>1, <1>2, <1>3, <1>4, <1>5, <1>6, <1>7, <1>8, <1>9, <1>10, <1>11 DEF Work

LEMMA OtherType == TypeInv /\ (OtherJob \/ Kill \/ UNCHANGED vars) => TypeInv'
<1> USE DEF Unchanged, worker, bounds, history
<1>1. ASSUME TypeInv, OtherJob PROVE TypeInv'
  BY <1>1 DEF OtherJob, TypeInv, TypeOK
<1>2. ASSUME TypeInv, Kill PROVE TypeInv'
  <2>1. kills' \in 0..MaxKills
    BY <1>2, ImportAssumption DEF Kill, Died, TypeInv, TypeOK
  <2> QED
    BY <1>2, <2>1, StateTypes DEF Kill, Died, EndJob, TypeInv, TypeOK
<1>3. ASSUME TypeInv, UNCHANGED vars PROVE TypeInv'
  BY <1>3 DEF vars, TypeInv, TypeOK
<1> QED
  BY <1>1, <1>2, <1>3

LEMMA Types == Spec => []TypeInv
<1>1. TypeInv /\ [Next]_vars => TypeInv'
  BY WebType, WorkType, OtherType DEF Next
<1> QED
  BY <1>1, InitType, PTL DEF Spec

(* Every variable keeps to its type.                                       *)
THEOREM TypeCorrect == Spec => []TypeOK
<1>1. TypeInv => TypeOK
  BY DEF TypeInv
<1> QED
  BY <1>1, Types, PTL

-----------------------------------------------------------------------------
(* What a step of the web process does to a batch: nothing, give it up for *)
(* a scan with other cookies, create it, or import it.                     *)

Kept(b) == batch'[b] = batch[b] /\ job'[b] = job[b] /\ asked'[b] = asked[b]

Dropped(b) ==
    /\ batch[b].state \in Open
    /\ batch'[b].state = IF batch[b].state = "ready" THEN "deleted" ELSE "failed"
    /\ batch'[b].revision = batch[b].revision
    /\ job'[b] = job[b] /\ asked'[b] = asked[b]
    /\ \E c \in Clients : /\ request[c].kind = "scan"
                          /\ request[c].revision # batch[b].revision
                          /\ request'[c] = NoRequest

Created(b) ==
    /\ batch[b].state = "unused"
    /\ batch'[b].state = "pending"
    /\ job'[b] = "pending" /\ asked'[b] = asked[b]

Taken(b) ==
    /\ batch[b].state = "ready"
    /\ batch'[b].state = "imported"
    /\ batch'[b].revision = batch[b].revision
    /\ job'[b] = job[b] /\ asked'[b] = batch[b].revision

Touched(b) == Kept(b) \/ Dropped(b) \/ Created(b) \/ Taken(b)

(* A scan gives up open batches of other cookies only. *)
LEMMA GivenUpFacts ==
    ASSUME NEW r, NEW b \in GivenUp(r)
    PROVE  b \in Batches /\ batch[b].state \in Open /\ batch[b].revision # r
BY DEF GivenUp, Own, Seen, In, Open

LEMMA DiscardFacts ==
    ASSUME TypeOK, NEW b \in Batches
    PROVE  /\ Discard(b).state =
                  IF batch[b].state = "ready" THEN "deleted" ELSE "failed"
           /\ Discard(b).revision = batch[b].revision
BY DEF TypeOK, Rows, Discard

LEMMA ScanStep ==
    ASSUME TypeOK, NEW c \in Clients, FinishScan(c), NEW b \in Batches
    PROVE  Touched(b)
<1> DEFINE revision == request[c].revision
           cleared == [k \in Batches |->
                          IF k \in GivenUp(revision) THEN Discard(k)
                                                     ELSE batch[k]]
<1>1. UNCHANGED asked
  BY DEF FinishScan, history
<1>2. request'[c] = NoRequest
  BY DEF FinishScan, Answer, TypeOK
<1>3. CASE batch' = cleared /\ UNCHANGED job
  <2>1. CASE b \in GivenUp(revision)
    <3>1. batch'[b] = Discard(b)
      BY <1>3, <2>1
    <3>2. batch[b].state \in Open /\ batch[b].revision # revision
      BY <2>1, GivenUpFacts
    <3> QED
      BY <1>1, <1>2, <1>3, <3>1, <3>2, DiscardFacts
         DEF FinishScan, Touched, Dropped
  <2>2. CASE b \notin GivenUp(revision)
    BY <1>1, <1>3, <2>2 DEF Touched, Kept
  <2> QED
    BY <2>1, <2>2
<1>4. CASE Create(cleared, revision)
  <2>1. PICK n \in Batches :
            /\ batch[n].state = "unused"
            /\ batch' = [cleared EXCEPT ![n].state = "pending",
                                        ![n].revision = revision]
            /\ job' = [job EXCEPT ![n] = "pending"]
    BY <1>4 DEF Create, In
  <2>2. n \notin GivenUp(revision)
    BY <2>1, GivenUpFacts DEF Open, Active
  <2>3. CASE b = n
    <3>1. cleared[n] = batch[n] /\ batch[n] \in Rows
      BY <2>2 DEF TypeOK
    <3>2. batch'[n] = [batch[n] EXCEPT !.state = "pending",
                                       !.revision = revision]
      BY <2>1, <3>1
    <3>3. batch'[n].state = "pending"
      BY <3>1, <3>2 DEF Rows
    <3> QED
      BY <1>1, <2>1, <2>3, <3>3 DEF Touched, Created, TypeOK
  <2>4. CASE b # n
    <3>1. batch'[b] = cleared[b] /\ job'[b] = job[b]
      BY <2>1, <2>4 DEF TypeOK
    <3>2. CASE b \in GivenUp(revision)
      <4>1. batch'[b] = Discard(b)
        BY <3>1, <3>2
      <4>2. batch[b].state \in Open /\ batch[b].revision # revision
        BY <3>2, GivenUpFacts
      <4> QED
        BY <1>1, <1>2, <3>1, <4>1, <4>2, DiscardFacts
           DEF FinishScan, Touched, Dropped
    <3>3. CASE b \notin GivenUp(revision)
      BY <1>1, <3>1, <3>3 DEF Touched, Kept
    <3> QED
      BY <3>2, <3>3
  <2> QED
    BY <2>3, <2>4
<1> QED
  BY <1>3, <1>4 DEF FinishScan

LEMMA CommitStep ==
    ASSUME TypeOK, NEW c \in Clients, FinishCommit(c), NEW b \in Batches
    PROVE  Touched(b)
<1> DEFINE n == request[c].of
<1>1. /\ UNCHANGED job
      /\ asked' = [asked EXCEPT ![n] = request[c].revision]
      /\ batch' = [batch EXCEPT ![n].state = "imported", ![n].found = {}]
  BY DEF FinishCommit, Imported
<1>2. batch[n].state = "ready" /\ batch[n].revision = request[c].revision
  BY DEF FinishCommit
<1>3. CASE b = n
  <2>1. batch[b] \in Rows
    BY DEF TypeOK
  <2>2. batch'[b] = [batch[b] EXCEPT !.state = "imported", !.found = {}]
    BY <1>1, <1>3 DEF TypeOK
  <2>3. /\ batch'[b].state = "imported"
        /\ batch'[b].revision = batch[b].revision
    BY <2>1, <2>2 DEF Rows
  <2>4. asked'[b] = request[c].revision
    BY <1>1, <1>3 DEF TypeOK
  <2> HIDE DEF n
  <2> QED
    BY <1>1, <1>2, <1>3, <2>3, <2>4 DEF Touched, Taken
<1>4. CASE b # n
  BY <1>1, <1>4 DEF Touched, Kept, TypeOK
<1> QED
  BY <1>3, <1>4

LEMMA WebStep ==
    ASSUME TypeOK, Web
    PROVE  /\ UNCHANGED <<worker, source, forgotten, revived>>
           /\ \A b \in Batches : Touched(b)
<1>1. CASE RemoveCookies
  BY <1>1 DEF RemoveCookies, history, Touched, Kept
<1>3. ASSUME NEW c \in Clients,
             \/ BeginImport(c) \/ BeginScan(c)
             \/ \E accepted \in BOOLEAN : FinishImport(c, accepted)
             \/ \E b \in Batches, chosen \in SUBSET Accounts :
                    BeginCommit(c, b, chosen)
             \/ RefuseCommit(c)
      PROVE  /\ UNCHANGED <<worker, source, forgotten, revived>>
             /\ \A b \in Batches : Touched(b)
  BY <1>3 DEF BeginImport, BeginScan, FinishImport, BeginCommit, RefuseCommit,
     history, Touched, Kept
<1>4. ASSUME NEW c \in Clients, FinishScan(c)
      PROVE  /\ UNCHANGED <<worker, source, forgotten, revived>>
             /\ \A b \in Batches : Touched(b)
  BY <1>4, ScanStep DEF FinishScan, history
<1>5. ASSUME NEW c \in Clients, FinishCommit(c)
      PROVE  /\ UNCHANGED <<worker, source, forgotten, revived>>
             /\ \A b \in Batches : Touched(b)
  BY <1>5, CommitStep DEF FinishCommit
<1> QED
  BY <1>1, <1>3, <1>4, <1>5 DEF Web

-----------------------------------------------------------------------------
(* What the worker can rely on: nobody else settles the job it runs or     *)
(* makes its batch active again, and the revision of a batch that has been *)
(* created does not change.                                                *)

Linked == \A b \in Batches : job[b] = "unused" <=> batch[b].state = "unused"

AtStep ==
    /\ pc # "idle" => job[current] = "running"
    /\ pc = "mark" => batch[current].state \in {"pending", "failed"}
    /\ pc \in {"read", "complete"} => loader = batch[current].revision
    /\ pc = "succeed" => batch[current].state \notin Active
    /\ pc = "end" => \/ batch[current].state \notin Active
                     \/ current \in forgotten

Inv == TypeInv /\ Linked /\ AtStep /\ OwnCookies /\ ActiveHasJob

LEMMA InitInv == Init => Inv
BY InitType DEF Init, Inv, Linked, AtStep, OwnCookies, ActiveHasJob, In, Active

LEMMA WebInv == Inv /\ Web => Inv'
<1> SUFFICES ASSUME Inv, Web PROVE Inv'
  OBVIOUS
<1>1. TypeInv'
  BY WebType DEF Inv
<1>2. /\ UNCHANGED <<pc, current, loader, source, forgotten>>
      /\ \A b \in Batches : Touched(b)
  BY WebStep DEF Inv, TypeInv, worker
<1>3. \A b \in Batches : batch[b] \in Rows /\ batch'[b] \in Rows
  BY <1>1 DEF Inv, TypeInv, TypeOK
<1> USE DEF Touched, Kept, Dropped, Created, Taken, Open, Active
<1>4. Linked'
  BY <1>2 DEF Inv, Linked
<1>5. AtStep'
  <2>1. CASE pc = "idle"
    BY <1>2, <2>1 DEF AtStep
  <2>2. CASE pc # "idle"
    <3>1. current \in Batches /\ job[current] = "running"
      BY <2>2 DEF Inv, TypeInv, AtStep
    <3>2. batch[current].state # "unused"
      BY <3>1 DEF Inv, Linked
    <3> QED
      BY <1>2, <3>1, <3>2 DEF Inv, AtStep
  <2> QED
    BY <2>1, <2>2
<1>6. OwnCookies'
  BY <1>2 DEF Inv, OwnCookies
<1>7. ActiveHasJob'
  BY <1>2 DEF Inv, ActiveHasJob, In
<1> QED
  BY <1>1, <1>4, <1>5, <1>6, <1>7 DEF Inv

(* A step that touches one batch keeps the invariant if it does so of that *)
(* batch.                                                                  *)
Sound(b) ==
    /\ job[b] = "unused" <=> batch[b].state = "unused"
    /\ batch[b].state \in {"ready", "imported"} => source[b] = batch[b].revision
    /\ batch[b].state = "imported" => asked[b] = batch[b].revision
    /\ batch[b].state \in Active => job[b] \in Active \/ b \in forgotten

LEMMA SoundBatches ==
    (\A b \in Batches : Sound(b)) <=> Linked /\ OwnCookies /\ ActiveHasJob
BY DEF Sound, Linked, OwnCookies, ActiveHasJob, In

LEMMA OneBatch ==
    ASSUME Inv, NEW k \in Batches, Sound(k)',
           \A b \in Batches \ {k} :
               /\ batch'[b] = batch[b]
               /\ job'[b] = job[b]
               /\ source'[b] = source[b]
               /\ asked'[b] = asked[b],
           forgotten \subseteq forgotten'
    PROVE  (Linked /\ OwnCookies /\ ActiveHasJob)'
<1>1. ASSUME NEW b \in Batches PROVE Sound(b)'
  <2>1. CASE b = k
    BY <2>1
  <2>2. CASE b # k
    <3>1. Sound(b)
      BY SoundBatches DEF Inv
    <3> QED
      BY <2>2, <3>1 DEF Sound
  <2> QED
    BY <2>1, <2>2
<1>2. (\A b \in Batches : Sound(b))'
  BY <1>1
<1> QED
  BY <1>2, SoundBatches, PTL

(* What a step of the worker does to the batch in hand. *)
LEMMA WorkInv == Inv /\ Work => Inv'
<1> SUFFICES ASSUME Inv, Work PROVE Inv'
  OBVIOUS
<1>0. TypeInv'
  BY WorkType DEF Inv
<1>s. \A b \in Batches : Sound(b)
  BY SoundBatches DEF Inv
<1> USE DEF Active
<1>1. ASSUME NEW b \in Batches, Claim(b)
      PROVE  (Linked /\ AtStep /\ OwnCookies /\ ActiveHasJob)'
  <2>1. /\ UNCHANGED <<batch, source, asked, forgotten>>
        /\ pc' = "start" /\ current' = b
        /\ job[b] = "pending" /\ job' = [job EXCEPT ![b] = "running"]
    BY <1>1 DEF Claim, history
  <2>2. job'[b] = "running" /\ \A k \in Batches \ {b} : job'[k] = job[k]
    BY <2>1 DEF Inv, TypeInv, TypeOK
  <2>s. Sound(b)'
    BY <1>s, <2>1, <2>2 DEF Sound
  <2>a. AtStep'
    BY <2>1, <2>2 DEF AtStep
  <2> QED
    BY <2>1, <2>2, <2>s, <2>a, OneBatch
<1>2. CASE \/ Start \/ Acquire \/ FailToRead
           \/ \E found \in SUBSET Accounts : Read(found)
  <2>1. UNCHANGED <<batch, job, source, asked, forgotten, current>>
    BY <1>2 DEF Start, Acquire, FailToRead, Read, history
  <2>2. AtStep'
    BY <1>2, <2>1 DEF Inv, AtStep, Start, Acquire, FailToRead, Read
  <2> QED
    BY <1>0, <2>1, <2>2 DEF Inv, Linked, OwnCookies, ActiveHasJob, In
<1>3. CASE Mark
  <2>1. /\ current \in Batches
        /\ batch[current].state \in {"pending", "failed"}
        /\ job[current] = "running"
    BY <1>3 DEF Mark, Inv, TypeInv, AtStep
  <2>2. /\ batch'[current].state = "running"
        /\ batch'[current].revision = batch[current].revision
        /\ \A b \in Batches \ {current} : batch'[b] = batch[b]
    BY <1>3, <2>1 DEF Mark, Inv, TypeInv, TypeOK, Rows
  <2>3. UNCHANGED <<job, source, asked, forgotten, current>> /\ pc' = "acquire"
    BY <1>3 DEF Mark
  <2>p. PICK k \in Batches : k = current
    BY <2>1
  <2>s. Sound(k)'
    BY <1>s, <2>p, <2>1, <2>2, <2>3 DEF Sound
  <2>a. AtStep'
    BY <2>1, <2>2, <2>3 DEF Inv, AtStep
  <2> QED
    BY <1>0, <2>1, <2>2, <2>3, <2>p, <2>s, <2>a, OneBatch DEF Inv
<1>4. CASE Complete
  <2>1. /\ current \in Batches
        /\ job[current] = "running"
        /\ loader = batch[current].revision
    BY <1>4 DEF Complete, Inv, TypeInv, AtStep
  <2>2. CASE batch[current].state = "running"
    <3>1. /\ batch'[current].state = "ready"
          /\ batch'[current].revision = batch[current].revision
          /\ source'[current] = loader
          /\ \A b \in Batches \ {current} : /\ batch'[b] = batch[b]
                                            /\ source'[b] = source[b]
      BY <1>4, <2>1, <2>2 DEF Complete, Inv, TypeInv, TypeOK, Rows
    <3>2. UNCHANGED <<job, asked, forgotten, current>> /\ pc' = "succeed"
      BY <1>4, <2>2 DEF Complete
    <3>p. PICK k \in Batches : k = current
      BY <2>1
    <3>s. Sound(k)'
      BY <1>s, <3>p, <2>1, <3>1, <3>2 DEF Sound
    <3>a. AtStep'
      BY <2>1, <3>1, <3>2 DEF Inv, AtStep
    <3> QED
      BY <1>0, <2>1, <3>1, <3>2, <3>p, <3>s, <3>a, OneBatch DEF Inv
  <2>3. CASE batch[current].state # "running"
    <3>1. /\ UNCHANGED <<batch, job, source, asked, forgotten, current>>
          /\ pc' = "fail"
      BY <1>4, <2>3 DEF Complete
    <3>p. PICK k \in Batches : k = current
      BY <2>1
    <3>s. Sound(k)'
      BY <1>s, <3>p, <3>1, <2>1 DEF Sound
    <3>a. AtStep'
      BY <3>1, <2>1 DEF Inv, AtStep
    <3> QED
      BY <1>0, <3>1, <2>1, <3>p, <3>s, <3>a, OneBatch DEF Inv
  <2> QED
    BY <2>2, <2>3
<1>5. CASE Succeed \/ FailJob
  <2>1. /\ current \in Batches
        /\ job[current] = "running"
        /\ batch[current].state \notin Active \/ current \in forgotten
    BY <1>5 DEF Succeed, FailJob, Inv, TypeInv, AtStep
  <2>2. /\ UNCHANGED <<batch, source, asked, forgotten>>
        /\ pc' = "idle"
        /\ job'[current] \in {"succeeded", "failed"}
        /\ \A b \in Batches \ {current} : job'[b] = job[b]
    BY <1>5, <2>1 DEF Succeed, FailJob, EndJob, history, Inv, TypeInv, TypeOK
  <2>p. PICK k \in Batches : k = current
    BY <2>1
  <2>s. Sound(k)'
    BY <1>s, <2>p, <2>1, <2>2 DEF Sound
  <2>a. AtStep'
    BY <2>1, <2>2 DEF Inv, AtStep
  <2> QED
    BY <1>0, <2>1, <2>2, <2>p, <2>s, <2>a, OneBatch DEF Inv
<1>6. CASE RecordFailure
  <2>1. current \in Batches /\ job[current] = "running"
    BY <1>6 DEF RecordFailure, Inv, TypeInv, AtStep
  <2>2. /\ UNCHANGED <<job, source, asked, forgotten, current>>
        /\ pc' = "end"
    BY <1>6 DEF RecordFailure, history
  <2>3. /\ batch'[current].state =
               IF batch[current].state \in Active
               THEN "failed" ELSE batch[current].state
        /\ batch'[current].revision = batch[current].revision
        /\ \A b \in Batches \ {current} : batch'[b] = batch[b]
    BY <1>6, <2>1 DEF RecordFailure, Inv, TypeInv, TypeOK, Rows
  <2>p. PICK k \in Batches : k = current
    BY <2>1
  <2>s. Sound(k)'
    BY <1>s, <2>p, <2>1, <2>2, <2>3 DEF Sound
  <2>a. AtStep'
    BY <2>1, <2>2, <2>3 DEF Inv, AtStep
  <2> QED
    BY <1>0, <2>1, <2>2, <2>3, <2>p, <2>s, <2>a, OneBatch DEF Inv
<1>7. CASE FailToRecord
  <2>1. /\ UNCHANGED <<batch, job, source, asked, current>>
        /\ pc # "idle" /\ pc' = "end"
        /\ forgotten' = forgotten \cup {current}
    BY <1>7 DEF FailToRecord
  <2>2. current \in Batches /\ job[current] = "running"
    BY <2>1 DEF Inv, TypeInv, AtStep
  <2>p. PICK k \in Batches : k = current
    BY <2>2
  <2>s. Sound(k)'
    BY <1>s, <2>p, <2>1, <2>2 DEF Sound
  <2>a. AtStep'
    BY <2>1, <2>2 DEF Inv, AtStep
  <2> QED
    BY <1>0, <2>1, <2>2, <2>p, <2>s, <2>a, OneBatch DEF Inv
<1> QED
  BY <1>0, <1>1, <1>2, <1>3, <1>4, <1>5, <1>6, <1>7 DEF Inv, Work

LEMMA OtherInv == Inv /\ (OtherJob \/ Kill \/ UNCHANGED vars) => Inv'
<1> SUFFICES ASSUME Inv, OtherJob \/ Kill \/ UNCHANGED vars PROVE Inv'
  OBVIOUS
<1>0. TypeInv'
  BY OtherType DEF Inv
<1>1. CASE OtherJob
  BY <1>0, <1>1 DEF OtherJob, history, Inv, Linked, AtStep, OwnCookies,
     ActiveHasJob, In
<1>2. CASE Kill
  <2>1. current \in Batches /\ job[current] = "running"
    BY <1>2 DEF Kill, Died, Inv, TypeInv, AtStep
  <2>2. /\ UNCHANGED <<batch, source, asked, forgotten>>
        /\ pc' = "idle"
        /\ job'[current] = "pending"
        /\ \A b \in Batches \ {current} : job'[b] = job[b]
    BY <1>2, <2>1 DEF Kill, Died, EndJob, history, Inv, TypeInv, TypeOK
  <2>p. PICK k \in Batches : k = current
    BY <2>1
  <2>s. Sound(k)'
    BY <2>1, <2>2, SoundBatches DEF Sound, Inv, Active
  <2>a. AtStep'
    BY <2>2 DEF AtStep
  <2> QED
    BY <1>0, <2>1, <2>2, <2>p, <2>s, <2>a, OneBatch DEF Inv
<1>3. CASE UNCHANGED vars
  BY <1>0, <1>3 DEF vars, worker, history, Inv, Linked, AtStep, OwnCookies,
     ActiveHasJob, In
<1> QED
  BY <1>1, <1>2, <1>3

LEMMA Invariant == Spec => []Inv
<1>1. Inv /\ [Next]_vars => Inv'
  BY WebInv, WorkInv, OtherInv DEF Next
<1> QED
  BY <1>1, InitInv, PTL DEF Spec

(* What is imported was read with the cookies its batch is for, and asked  *)
(* for with these: whatever cookies come and go.  (acquire_authenticated,  *)
(* complete_discovery, commit)                                             *)
THEOREM OwnCookiesHold == Spec => []OwnCookies
<1>1. Inv => OwnCookies
  BY DEF Inv
<1> QED
  BY <1>1, Invariant, PTL

(* A batch somebody waits for has a job that waits or runs, unless the     *)
(* failure of its job could not be recorded.  (_fail_job, fail_discovery)  *)
THEOREM JobsOfActive == Spec => []ActiveHasJob
<1>1. Inv => ActiveHasJob
  BY DEF Inv
<1> QED
  BY <1>1, Invariant, PTL

-----------------------------------------------------------------------------
(* What becomes of batches that are finished or open.                      *)

LEMMA WorkStep ==
    ASSUME Inv, Work, NEW b \in Batches
    PROVE  /\ batch[b].state \in {"ready", "imported", "deleted"} =>
                  batch'[b].state = batch[b].state
           /\ batch'[b].state \in Open => batch[b].state \in Open \/ revived'
           /\ revived => revived'
<1> USE DEF Open, Active
<1>1. CASE Mark
  <2>1. /\ current \in Batches
        /\ batch[current].state \in {"pending", "failed"}
    BY <1>1 DEF Mark, Inv, TypeInv, AtStep
  <2>2. \A k \in Batches \ {current} : batch'[k] = batch[k]
    BY <1>1 DEF Mark, Inv, TypeInv, TypeOK
  <2>3. revived' = (revived \/ batch[current].state # "pending")
    BY <1>1 DEF Mark
  <2> QED
    BY <2>1, <2>2, <2>3
<1>2. CASE Complete
  <2>1. /\ \/ UNCHANGED batch
           \/ /\ batch[current].state = "running"
              /\ \A k \in Batches \ {current} : batch'[k] = batch[k]
        /\ UNCHANGED revived
    BY <1>2 DEF Complete, Inv, TypeInv, TypeOK
  <2> QED
    BY <2>1
<1>3. CASE RecordFailure
  <2>1. current \in Batches
    BY <1>3 DEF RecordFailure, Inv, TypeInv
  <2>2. /\ \/ UNCHANGED batch
           \/ /\ batch[current].state \in Active
              /\ batch'[current].state = "failed"
              /\ \A k \in Batches \ {current} : batch'[k] = batch[k]
        /\ UNCHANGED revived
    BY <1>3, <2>1 DEF RecordFailure, history, Inv, TypeInv, TypeOK, Rows
  <2> QED
    BY <2>2
<1>4. CASE \/ \E k \in Batches : Claim(k)
           \/ Start \/ Acquire \/ FailToRead
           \/ \E found \in SUBSET Accounts : Read(found)
           \/ Succeed \/ FailToRecord \/ FailJob
  <2>1. UNCHANGED <<batch, revived>>
    BY <1>4 DEF Claim, Start, Acquire, FailToRead, Read, Succeed, FailToRecord,
       FailJob, history
  <2> QED
    BY <2>1
<1> QED
  BY <1>1, <1>2, <1>3, <1>4 DEF Work

LEMMA OtherStep ==
    OtherJob \/ Kill \/ UNCHANGED vars => UNCHANGED <<batch, revived>>
BY DEF OtherJob, Kill, Died, vars, history

(* A scan gives up everything that is open before it adds a batch.         *)
LEMMA ScanOpens ==
    ASSUME TypeOK, NEW c \in Clients, FinishScan(c),
           \A b, other \in In(Open) : b = other
    PROVE  \A b, other \in In(Open)' : b = other
<1> DEFINE revision == request[c].revision
<1>1. \A b \in Batches : batch[b].state \in Open => b \in Seen
  <2> SUFFICES ASSUME NEW b \in Batches, batch[b].state \in Open
               PROVE  b \in Seen
    OBVIOUS
  <2>1. \A other \in In(Active) \cup In({"ready"}) : other = b
    BY DEF In, Open
  <2>2. CASE batch[b].state \in Active
    <3>1. In(Active) = {b}
      BY <2>1, <2>2 DEF In
    <3>2. Oldest({b}) = b
      BY DEF Oldest, Batches
    <3> QED
      BY <3>1, <3>2 DEF Seen
  <2>3. CASE batch[b].state = "ready"
    <3>1. In({"ready"}) = {b}
      BY <2>1, <2>3 DEF In
    <3>2. Newest({b}) = b
      BY DEF Newest, Batches
    <3> QED
      BY <3>1, <3>2 DEF Seen
  <2> QED
    BY <2>2, <2>3 DEF Open
<1>2. CASE Own(revision) # {}
  <2>1. UNCHANGED job
    BY <1>2 DEF FinishScan
  <2>2. batch' = [b \in Batches |-> IF b \in GivenUp(revision) THEN Discard(b)
                                                              ELSE batch[b]]
    BY <1>2 DEF FinishScan
  <2>3. \A b \in Batches : batch'[b].state \in Open => batch[b].state \in Open
    BY <2>2, GivenUpFacts
  <2> QED
    BY <2>3 DEF In
<1>3. CASE Own(revision) = {}
  <2> DEFINE cleared == [b \in Batches |->
                            IF b \in GivenUp(revision) THEN Discard(b)
                                                       ELSE batch[b]]
  <2>1. PICK n \in Batches :
            batch' = [cleared EXCEPT ![n].state = "pending",
                                     ![n].revision = revision]
    BY <1>3 DEF FinishScan, Create, In
  <2>2. GivenUp(revision) = Seen
    BY <1>3 DEF GivenUp
  <2>3. \A b \in Batches \ {n} : batch'[b].state \notin Open
    <3> SUFFICES ASSUME NEW b \in Batches, b # n
                 PROVE  batch'[b].state \notin Open
      OBVIOUS
    <3>1. batch'[b] = cleared[b]
      BY <2>1
    <3>2. CASE b \in Seen
      <4>1. batch'[b] = Discard(b)
        BY <2>2, <3>1, <3>2
      <4> QED
        BY <4>1, DiscardFacts DEF Open, Active
    <3>3. CASE b \notin Seen
      BY <1>1, <2>2, <3>1, <3>3
    <3> QED
      BY <3>2, <3>3
  <2> QED
    BY <2>3 DEF In
<1> QED
  BY <1>2, <1>3

LEMMA WebOpens == Inv /\ OneOpenBatch /\ Web => OneOpenBatch'
<1> SUFFICES ASSUME Inv, OneOpenBatch, Web, ~revived
             PROVE  \A b, other \in In(Open)' : b = other
  BY WebStep DEF Inv, TypeInv, OneOpenBatch
<1>1. \A b, other \in In(Open) : b = other
  BY DEF OneOpenBatch
<1>2. ASSUME NEW c \in Clients, FinishScan(c)
      PROVE  \A b, other \in In(Open)' : b = other
  BY <1>1, <1>2, ScanOpens DEF Inv, TypeInv
<1>3. ASSUME NEW c \in Clients, FinishCommit(c)
      PROVE  \A b, other \in In(Open)' : b = other
  <2>1. \A b \in Batches : batch'[b].state \in Open => batch[b].state \in Open
    <3> SUFFICES ASSUME NEW b \in Batches, batch'[b].state \in Open
                 PROVE  batch[b].state \in Open
      OBVIOUS
    <3>1. UNCHANGED job
      BY <1>3 DEF FinishCommit
    <3>2. \/ Kept(b) \/ Dropped(b) \/ Created(b) \/ Taken(b)
      BY <1>3, CommitStep DEF Inv, TypeInv, Touched
    <3>3. ~Created(b)
      BY <3>1 DEF Created, Inv, Linked
    <3> QED
      BY <3>2, <3>3 DEF Kept, Dropped, Taken, Open, Active
  <2> QED
    BY <1>1, <2>1 DEF In
<1>4. CASE UNCHANGED batch
  BY <1>1, <1>4 DEF In
<1> QED
  BY <1>2, <1>3, <1>4 DEF Web, RemoveCookies, BeginImport,
     BeginScan, FinishImport, BeginCommit, RefuseCommit

(* There is never more than one batch to wait for or to choose from, until *)
(* one is revived.  (create_or_get_active, complete_discovery)             *)
THEOREM OneOpen == Spec => []OneOpenBatch
<1>1. Init => OneOpenBatch
  BY DEF Init, OneOpenBatch, In, Open, Active
<1>2. Inv /\ OneOpenBatch /\ [Next]_vars => OneOpenBatch'
  <2> SUFFICES ASSUME Inv, OneOpenBatch, [Next]_vars PROVE OneOpenBatch'
    OBVIOUS
  <2>1. CASE Web
    BY <2>1, WebOpens
  <2>2. CASE Work
    <3>1. \A b \in Batches :
              /\ batch'[b].state \in Open => batch[b].state \in Open \/ revived'
              /\ revived => revived'
      BY <2>2, WorkStep
    <3> QED
      BY <3>1 DEF OneOpenBatch, In
  <2>3. CASE OtherJob \/ Kill \/ UNCHANGED vars
    BY <2>3, OtherStep DEF OneOpenBatch, In
  <2> QED
    BY <2>1, <2>2, <2>3 DEF Next
<1> QED
  BY <1>1, <1>2, Invariant, PTL DEF Spec

(* A finished scan is lost only to a request that found other cookies than *)
(* its own, and what was imported or deleted stays so.                     *)
(* (create_or_get_active, complete_discovery, commit)                      *)
THEOREM ScansKept == Spec => ScansAreKept
<1> DEFINE Stays(b) ==
               /\ batch[b].state = "ready" /\ batch'[b].state # "ready" =>
                      \/ batch'[b].state = "imported"
                      \/ \E c \in Clients :
                             /\ request[c].kind = "scan"
                             /\ request[c].revision # batch[b].revision
                             /\ request'[c] = NoRequest
               /\ batch[b].state \in {"imported", "deleted"} =>
                      batch'[b].state = batch[b].state
<1>1. Inv /\ [Next]_vars => [\A b \in Batches : Stays(b)]_vars
  <2> SUFFICES ASSUME Inv, Next, NEW b \in Batches PROVE Stays(b)
    OBVIOUS
  <2>1. CASE Web
    <3>1. Touched(b)
      BY <2>1, WebStep DEF Inv, TypeInv
    <3> QED
      BY <3>1 DEF Touched, Kept, Dropped, Created, Taken, Open, Active
  <2>2. CASE Work
    BY <2>2, WorkStep
  <2>3. CASE OtherJob \/ Kill
    BY <2>3, OtherStep
  <2> QED
    BY <2>1, <2>2, <2>3 DEF Next
<1> QED
  BY <1>1, Invariant, PTL DEF Spec, ScansAreKept

=============================================================================
