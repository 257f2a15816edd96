--------------------------- MODULE ProfileSyncProofs ---------------------------
(* Theorems about ProfileSync, for any lists, pages and bounds. *)
EXTENDS ProfileSync, WellFoundedInduction, TLAPS

(* At most one item is begun while synchronization is off; and nothing is  *)
(* counted while it is on, nor before an item that was taken is processed: *)
(* it was taken while it was on.                                           *)
StopInv ==
    /\ late \in {0, 1}
    /\ syncable => late = 0
    /\ pc = "process" => late = 0

USE DEF vars, run, stored, mishaps, history

LEMMA InitStop == Init => StopInv
BY DEF Init, StopInv

(* The steps of a run before and after it deals with an item. *)
LEMMA RunKeepsStop ==
    ASSUME StopInv,
           \/ StartRun \/ SaveStory \/ OpenFeed \/ Stop \/ Note \/ EndPass
           \/ EndRecent \/ OpenHistory \/ EndRun \/ EndFrozen
           \/ \E s \in Sources : LoadHead(s) \/ MarkComplete(s) \/ Thaw(s) \/ Freeze(s)
    PROVE  StopInv'
<1>1. CASE StartRun \/ OpenFeed \/ Stop \/ EndPass \/ EndRecent \/ OpenHistory
  BY <1>1 DEF StopInv, StartRun, OpenFeed, Stop, EndPass, EndRecent, OpenHistory
<1>2. CASE SaveStory \/ EndRun \/ EndFrozen
  BY <1>2 DEF StopInv, SaveStory, EndRun, EndFrozen, Idle
<1>3. CASE Note
  <2>1. late' = late /\ syncable' = syncable /\ pc' # "process"
    BY <1>3 DEF Note
  <2>2. QED
    BY <2>1 DEF StopInv
<1>4. CASE \E s \in Sources : LoadHead(s) \/ MarkComplete(s) \/ Thaw(s) \/ Freeze(s)
  <2>1. late' = late /\ syncable' = syncable /\ pc' # "process"
    BY <1>4 DEF LoadHead, MarkComplete, Thaw, Freeze
  <2>2. QED
    BY <2>1 DEF StopInv
<1>5. QED
  BY <1>1, <1>2, <1>3, <1>4

(* Taking an item needs synchronization on, and dealing with it counts one. *)
LEMMA ItemKeepsStop ==
    ASSUME StopInv,
           \/ \E s \in Sources : Take(s)
           \/ \E outcome \in Outcomes : Process(outcome)
    PROVE  StopInv'
<1>1. CASE \E s \in Sources : Take(s)
  <2>1. syncable /\ late' = late /\ syncable' = syncable
    BY <1>1 DEF Take
  <2>2. QED
    BY <2>1 DEF StopInv
<1>2. CASE \E outcome \in Outcomes : Process(outcome)
  <2>1. /\ pc = "process" /\ pc' = "note"
        /\ syncable' = syncable
        /\ late' = IF syncable THEN 0 ELSE late + 1
    BY <1>2 DEF Process
  <2>2. QED
    BY <2>1 DEF StopInv
<1>3. QED
  BY <1>1, <1>2

(* Failures and what goes on around a run. *)
LEMMA RestKeepsStop ==
    ASSUME StopInv,
           \/ FailStory \/ FailProcess \/ Kill \/ Publish \/ SwitchSync
           \/ AddBoundaryExclusion \/ FailToExclude
           \/ \E s \in Sources : FailLoad(s)
           \/ \E i \in Items : SaveDirectly(i) \/ DeleteMedia(i)
    PROVE  StopInv'
<1>1. CASE FailStory \/ Kill
  BY <1>1 DEF StopInv, FailStory, Kill, Idle
<1>2. CASE FailProcess \/ \E s \in Sources : FailLoad(s)
  <2>1. late' = late /\ syncable' = syncable /\ pc' = "freeze"
    BY <1>2 DEF FailProcess, FailLoad
  <2>2. QED
    BY <2>1 DEF StopInv
<1>3. CASE \/ Publish \/ AddBoundaryExclusion \/ FailToExclude
           \/ \E i \in Items : SaveDirectly(i) \/ DeleteMedia(i)
  <2>1. UNCHANGED <<late, syncable, pc>>
    BY <1>3 DEF Publish, AddBoundaryExclusion, FailToExclude, SaveDirectly, DeleteMedia
  <2>2. QED
    BY <2>1 DEF StopInv
<1>4. CASE SwitchSync
  <2>1. late' = 0 /\ pc' = pc
    BY <1>4 DEF SwitchSync
  <2>2. QED
    BY <2>1 DEF StopInv
<1>5. QED
  BY <1>1, <1>2, <1>3, <1>4

(* Switching synchronization off takes effect before the next item: the    *)
(* test of _scan_states stands between any two items of a run.             *)
THEOREM StopIsPrompt == Spec => []StopTakesEffect
<1>1. StopInv /\ [Next]_vars => StopInv'
  <2>1. SUFFICES ASSUME StopInv, [Next]_vars PROVE StopInv'
    OBVIOUS
  <2>2. CASE Next
    BY <2>1, <2>2, RunKeepsStop, ItemKeepsStop, RestKeepsStop DEF Next, RunStep
  <2>3. CASE UNCHANGED vars
    BY <2>1, <2>3 DEF StopInv
  <2>4. QED
    BY <2>1, <2>2, <2>3
<1>2. StopInv => StopTakesEffect
  BY DEF StopInv, StopTakesEffect
<1>3. QED
  BY InitStop, <1>1, <1>2, PTL DEF Spec

-----------------------------------------------------------------------------
(* The types.  They hold only because lists are of what is published: a    *)
(* list without end would have no newest item to be its head.              *)

Old == {i \in Items : i =< published}

OldScans == {state \in Scans : state.rest \subseteq Old /\ state.cursor \subseteq Old}

OldCheckpoints == {c \in Checkpoints : c.below \subseteq Old}

ListsInv ==
    /\ DOMAIN scan \subseteq Sources
    /\ scan \in [DOMAIN scan -> OldScans]
    /\ checkpoint \in [Sources -> OldCheckpoints]

(* The sources a step still has to deal with are those of the pass, and    *)
(* what is in hand is the head of a list.                                  *)
HandInv ==
    /\ todo \subseteq DOMAIN scan
    /\ pc \in {"process", "note"}
           => picked \in DOMAIN scan /\ scan[picked].head \in Items

TypeInv == TypeOK /\ ListsInv /\ HandInv

LEMMA ItemsAreNumbers == Items \subseteq Nat \ {NoItem}
BY SyncAssumption DEF Items

(* A set of numbers that are not beyond n has a greatest one. *)
LEMMA GreatestExists ==
    ASSUME NEW n \in Nat, NEW S \in SUBSET (0..n), S # {}
    PROVE  \E m \in S : \A j \in S : j =< m
<1> DEFINE T == {n - i : i \in S}
<1>0. \A i \in S : i \in Nat /\ i =< n /\ n - i \in Nat
  OBVIOUS
<1>1. T \subseteq Nat /\ T # {}
  BY <1>0
<1>2. PICK d \in T : \A e \in T : <<e, d>> \notin OpToRel(<, Nat)
  <2> HIDE DEF T
  <2> QED
    BY <1>1, WFMin, NatLessThanWellFounded, Zenon
<1>3. \A e \in T : ~(e < d)
  <2> HIDE DEF T
  <2> QED
    BY <1>1, <1>2, Zenon DEF OpToRel
<1>4. PICK m \in S : d = n - m
  OBVIOUS
<1>5. ASSUME NEW j \in S PROVE j =< m
  <2>1. ~(n - j < n - m)
    BY <1>3, <1>4
  <2>2. j \in Nat /\ m \in Nat
    BY <1>0
  <2> QED
    BY <2>1, <2>2
<1> QED
  BY <1>5

(* What is shown first: the newest of the pinned items, or of the others.  *)
LEMMA TopIsThere ==
    ASSUME published \in Nat, NEW S \in SUBSET Old, S # {}
    PROVE  Top(S) \in S /\ \A j \in S \ {Top(S)} : Above(Top(S), j)
<1> DEFINE pins == S \cap Pinned
           first == IF pins # {} THEN pins ELSE S
<1>0. \A j \in S : j \in Nat /\ j =< published
  BY ItemsAreNumbers DEF Old
<1>1. first \in SUBSET (0..published) /\ first # {} /\ first \subseteq S
  BY <1>0
<1>2. PICK m \in first : \A j \in first : j =< m
  <2> HIDE DEF first
  <2> QED
    BY <1>1, GreatestExists
<1>3. \A j \in S : j \in Nat
  BY ItemsAreNumbers DEF Old
<1>4. \A j \in S \ {m} : Above(m, j)
  BY <1>1, <1>2, <1>3 DEF Above
<1> QED
  BY <1>1, <1>4 DEF Top

LEMMA OpenType ==
    ASSUME NEW rest \in SUBSET Old, NEW stop \in BOOLEAN, NEW resume \in BOOLEAN
    PROVE  Open(rest, stop, resume) \in OldScans
BY DEF Open, OldScans, Scans, Old

LEMMA ShownType == ASSUME NEW s \in Sources PROVE Shown(s) \in SUBSET Old
BY DEF Shown, List, Old, Items, Sources

LEMMA ScanFields ==
    ASSUME NEW state \in OldScans
    PROVE  /\ state \in Scans
           /\ state.active \in BOOLEAN /\ state.head \in Items \cup {NoItem}
           /\ state.cursor \in SUBSET Old /\ state.rest \in SUBSET Old
           /\ state.stop \in BOOLEAN /\ state.resume \in BOOLEAN
           /\ state.scanned \in Nat /\ state.boundary \in BOOLEAN
BY DEF OldScans, Scans

LEMMA WithHeadType ==
    ASSUME published \in Nat, NEW state \in OldScans
    PROVE  WithHead(state) \in OldScans
<1>0. /\ state \in Scans /\ state.rest \in SUBSET Old /\ state.cursor \in SUBSET Old
  BY ScanFields
<1>1. CASE state.rest = {}
  BY <1>0, <1>1 DEF WithHead, OldScans, Scans, Old
<1>2. CASE state.rest # {}
  <2> DEFINE i == Top(state.rest)
  <2>1. i \in state.rest
    BY <1>0, <1>2, TopIsThere
  <2>2. i \in Items
    BY <1>0, <2>1 DEF Old
  <2>3. WithHead(state) = [state EXCEPT !.cursor = state.rest, !.head = i,
                                        !.rest = state.rest \ {i}]
    BY <1>2 DEF WithHead
  <2> HIDE DEF i
  <2> QED
    BY <1>0, <2>2, <2>3 DEF OldScans, Scans, Old
<1> QED
  BY <1>1, <1>2

LEMMA NotedType ==
    ASSUME NEW state \in OldScans, NEW i
    PROVE  /\ Noted(state, i) \in OldScans
           /\ Noted(state, i).active \in BOOLEAN
           /\ Noted(state, i).rest \in SUBSET Old
           /\ [Noted(state, i) EXCEPT !.head = NoItem] \in OldScans
<1> DEFINE boundary == state.boundary
                        \/ (seen[i] = "existing" /\ state.stop /\ i \notin exclusions)
           scanned == state.scanned + 1
           active == ~(state.stop /\ boundary /\ scanned >= PageSize)
<1>1. boundary \in BOOLEAN /\ scanned \in Nat /\ active \in BOOLEAN
  BY ScanFields
<1>2. Noted(state, i) = [state EXCEPT !.boundary = boundary, !.scanned = scanned,
                                      !.active = active]
  BY DEF Noted
<1> HIDE DEF boundary, scanned, active
<1> QED
  BY <1>1, <1>2 DEF OldScans, Scans

LEMMA CheckpointTypes ==
    /\ NoCheckpoint \in OldCheckpoints /\ Complete \in OldCheckpoints
    /\ \A below \in SUBSET Old : Frozen(below) \in OldCheckpoints
BY DEF NoCheckpoint, Complete, Frozen, OldCheckpoints, Checkpoints, Old

LEMMA FreshType ==
    ASSUME ListsInv, NEW s \in Sources
    PROVE  Fresh(s) \in OldScans
<1>1. checkpoint[s].complete \in BOOLEAN /\ checkpoint[s].stored \in BOOLEAN
  BY DEF ListsInv, OldCheckpoints, Checkpoints
<1> QED
  BY <1>1, ShownType, OpenType DEF Fresh

LEMMA HistoricalType ==
    ASSUME ListsInv, NEW s \in Sources, NEW thawed \in BOOLEAN
    PROVE  Historical(s, thawed) \in OldScans
<1>1. checkpoint[s].below \in SUBSET Old
  BY DEF ListsInv, OldCheckpoints
<1> QED
  BY <1>1, ShownType, OpenType DEF Historical

(* An idle worker holds nothing. *)
LEMMA IdleLists ==
    ASSUME ListsInv, Idle, UNCHANGED <<published, checkpoint>>
    PROVE  ListsInv' /\ HandInv'
<1>1. DOMAIN scan' = {} /\ scan' \in [DOMAIN scan' -> OldScans'] /\ todo' = {} /\ pc' = "idle"
  BY DEF Idle
<1>2. OldCheckpoints' = OldCheckpoints
  BY DEF OldCheckpoints, Old
<1> QED
  BY <1>1, <1>2 DEF ListsInv, HandInv

(* Steps that leave the lists and what is in hand alone. *)
LEMMA SameLists ==
    ASSUME ListsInv, UNCHANGED <<published, scan, checkpoint>>
    PROVE  ListsInv'
BY DEF ListsInv, OldScans, OldCheckpoints, Old

LEMMA ListsStep ==
    ASSUME TypeInv, Next
    PROVE  ListsInv' /\ HandInv'
<1>0. ListsInv /\ HandInv /\ TypeOK /\ published \in Nat
  BY DEF TypeInv, TypeOK
<1>a. \A s \in DOMAIN scan : s \in Sources /\ scan[s] \in OldScans
  BY <1>0 DEF ListsInv
<1>b. published' = published => OldScans' = OldScans /\ OldCheckpoints' = OldCheckpoints
  BY DEF OldScans, OldCheckpoints, Old
<1>c. Active \subseteq DOMAIN scan /\ Ready \subseteq DOMAIN scan /\ Resuming \subseteq DOMAIN scan
  BY DEF Active, Ready, Resuming
<1>0a. CASE AddBoundaryExclusion \/ FailToExclude
  BY <1>0, <1>0a, SameLists DEF AddBoundaryExclusion, FailToExclude, HandInv
<1>1. CASE FailStory \/ EndFrozen \/ Kill \/ EndRun
  BY <1>0, <1>1, IdleLists DEF FailStory, EndFrozen, Kill, EndRun
<1>2. CASE SaveStory
  <2>1. CASE syncable
    BY <1>0, <1>2, <2>1, SameLists DEF SaveStory, HandInv
  <2>2. CASE ~syncable
    BY <1>0, <1>2, <2>2, IdleLists DEF SaveStory
  <2> QED
    BY <2>1, <2>2
<1>3. CASE StartRun
  BY <1>0, <1>3, SameLists DEF StartRun, HandInv
<1>4. CASE SwitchSync
  BY <1>0, <1>4, SameLists DEF SwitchSync, HandInv
<1>5. CASE Stop \/ FailProcess \/ EndPass \/ EndRecent
  <2>1. /\ UNCHANGED <<published, scan, checkpoint>>
        /\ pc' \notin {"process", "note"} /\ todo' \subseteq DOMAIN scan
    BY <1>5, <1>c DEF Stop, FailProcess, EndPass, EndRecent
  <2> QED
    BY <1>0, <2>1, SameLists DEF HandInv
<1>6. ASSUME NEW i \in Items, SaveDirectly(i) \/ DeleteMedia(i)
      PROVE  ListsInv' /\ HandInv'
  BY <1>0, <1>6, SameLists DEF SaveDirectly, DeleteMedia, HandInv
<1>7. ASSUME NEW s \in Sources, Take(s) PROVE ListsInv' /\ HandInv'
  <2>1. s \in DOMAIN scan /\ scan[s].head \in Items
    BY <1>7, <1>a, ScanFields DEF Take, Newest, Ready, Active
  <2>2. UNCHANGED <<published, scan, checkpoint, todo>> /\ picked' = s
    BY <1>7 DEF Take
  <2> QED
    BY <1>0, <2>1, <2>2, SameLists DEF HandInv
<1>8. ASSUME NEW outcome \in Outcomes, Process(outcome) PROVE ListsInv' /\ HandInv'
  <2>1. UNCHANGED <<published, scan, checkpoint, todo, picked>> /\ pc = "process"
    BY <1>8 DEF Process
  <2> QED
    BY <1>0, <2>1, SameLists DEF HandInv
<1>9. CASE OpenFeed
  <2>1. scan' = [s \in Sources |-> Fresh(s)] /\ todo' = Sources /\ pc' = "load"
        /\ UNCHANGED <<published, checkpoint>>
    BY <1>9 DEF OpenFeed
  <2> QED
    BY <1>0, <1>b, <2>1, FreshType DEF ListsInv, HandInv
<1>10. ASSUME NEW s \in Sources, LoadHead(s) PROVE ListsInv' /\ HandInv'
  <2>1. /\ scan' = [scan EXCEPT ![s] = WithHead(scan[s])]
        /\ todo' = todo \ {s} /\ pc' \in {"take", "load"} /\ s \in todo
        /\ UNCHANGED <<published, checkpoint>>
    BY <1>10 DEF LoadHead, Turn
  <2>2. s \in DOMAIN scan
    BY <1>0, <2>1 DEF HandInv
  <2>3. WithHead(scan[s]) \in OldScans
    BY <1>0, <1>a, <2>2, WithHeadType
  <2>4. DOMAIN scan' = DOMAIN scan /\ scan' \in [DOMAIN scan -> OldScans]
    BY <1>0, <2>1, <2>3 DEF ListsInv
  <2> QED
    BY <1>0, <1>b, <2>1, <2>4 DEF ListsInv, HandInv
<1>11. ASSUME NEW s \in Sources, FailLoad(s) PROVE ListsInv' /\ HandInv'
  <2>1. /\ scan' = [scan EXCEPT ![s].cursor = scan[s].rest]
        /\ todo' = Active /\ pc' = "freeze" /\ s \in todo
        /\ UNCHANGED <<published, checkpoint>>
    BY <1>11 DEF FailLoad, Turn
  <2>2. s \in DOMAIN scan
    BY <1>0, <2>1 DEF HandInv
  <2>3. [scan[s] EXCEPT !.cursor = scan[s].rest] \in OldScans
    BY <1>a, <2>2 DEF OldScans, Scans
  <2>4. DOMAIN scan' = DOMAIN scan /\ scan' \in [DOMAIN scan -> OldScans]
    BY <1>0, <2>1, <2>3 DEF ListsInv
  <2> QED
    BY <1>0, <1>b, <1>c, <2>1, <2>4 DEF ListsInv, HandInv
<1>12. CASE Note
  <2> DEFINE noted == Noted(scan[picked], scan[picked].head)
             new == IF noted.active THEN noted ELSE [noted EXCEPT !.head = NoItem]
  <2>1. picked \in DOMAIN scan /\ scan[picked] \in OldScans
    BY <1>0, <1>12, <1>a DEF Note, HandInv
  <2>2. noted \in OldScans /\ noted.rest \in SUBSET Old /\ new \in OldScans
    BY <2>1, NotedType
  <2>3. /\ scan' = [scan EXCEPT ![picked] = new]
        /\ checkpoint' \in {checkpoint, [checkpoint EXCEPT ![picked] = Frozen(noted.rest)]}
        /\ todo' \subseteq {picked} /\ pc' \in {"load", "take"}
        /\ published' = published
    BY <1>12 DEF Note
  <2> HIDE DEF noted, new
  <2>4. DOMAIN scan' = DOMAIN scan /\ scan' \in [DOMAIN scan -> OldScans]
    BY <1>0, <2>2, <2>3 DEF ListsInv
  <2>5. Frozen(noted.rest) \in OldCheckpoints
    BY <2>2, CheckpointTypes
  <2>6. checkpoint' \in [Sources -> OldCheckpoints]
    BY <1>0, <2>3, <2>5 DEF ListsInv
  <2> QED
    BY <1>0, <1>b, <2>1, <2>3, <2>4, <2>6 DEF ListsInv, HandInv
<1>13. ASSUME NEW s \in Sources, MarkComplete(s) PROVE ListsInv' /\ HandInv'
  <2>1. /\ checkpoint' = [checkpoint EXCEPT ![s] = Complete]
        /\ todo' = todo \ {s} /\ pc = "mark" /\ UNCHANGED <<published, pc, scan, picked>>
    BY <1>13 DEF MarkComplete
  <2>2. checkpoint' \in [Sources -> OldCheckpoints]
    BY <1>0, <2>1, CheckpointTypes DEF ListsInv
  <2> QED
    BY <1>0, <1>b, <2>1, <2>2 DEF ListsInv, HandInv
<1>14. ASSUME NEW s \in Sources, Thaw(s) PROVE ListsInv' /\ HandInv'
  <2>1. /\ \E thawed \in BOOLEAN : scan' = [scan EXCEPT ![s] = Historical(s, thawed)]
        /\ checkpoint' \in {checkpoint, [checkpoint EXCEPT ![s] = NoCheckpoint]}
        /\ todo' = todo \ {s} /\ pc = "thaw" /\ UNCHANGED <<published, pc, picked>>
    BY <1>14 DEF Thaw
  <2>2. DOMAIN scan' = DOMAIN scan /\ scan' \in [DOMAIN scan -> OldScans]
    BY <1>0, <2>1, HistoricalType DEF ListsInv
  <2>3. checkpoint' \in [Sources -> OldCheckpoints]
    BY <1>0, <2>1, CheckpointTypes DEF ListsInv
  <2> QED
    BY <1>0, <1>b, <2>1, <2>2, <2>3 DEF ListsInv, HandInv
<1>15. CASE OpenHistory
  <2>1. /\ scan' = [s \in Active |-> scan[s]] /\ todo' = Active /\ pc' = "load"
        /\ UNCHANGED <<published, checkpoint>>
    BY <1>15 DEF OpenHistory
  <2>2. DOMAIN scan' = Active /\ scan' \in [Active -> OldScans]
    BY <1>a, <1>c, <2>1
  <2> QED
    BY <1>0, <1>b, <1>c, <2>1, <2>2 DEF ListsInv, HandInv
<1>16. ASSUME NEW s \in Sources, Freeze(s) PROVE ListsInv' /\ HandInv'
  <2> DEFINE below == IF scan[s].head # NoItem THEN scan[s].cursor ELSE scan[s].rest
  <2>1. /\ checkpoint' \in {[checkpoint EXCEPT ![s] = Frozen(below)],
                            [checkpoint EXCEPT ![s] = NoCheckpoint]}
        /\ todo' = todo \ {s} /\ s \in todo /\ pc = "freeze"
        /\ UNCHANGED <<published, pc, scan, picked>>
    BY <1>16 DEF Freeze, Turn
  <2>2. below \in SUBSET Old
    BY <1>0, <1>a, <2>1, ScanFields DEF HandInv
  <2> HIDE DEF below
  <2>3. checkpoint' \in [Sources -> OldCheckpoints]
    BY <1>0, <2>1, <2>2, CheckpointTypes DEF ListsInv
  <2> QED
    BY <1>0, <1>b, <2>1, <2>3 DEF ListsInv, HandInv
<1>17. CASE Publish
  <2>1. published' = published + 1 /\ UNCHANGED <<scan, checkpoint, todo, pc, picked>>
    BY <1>17 DEF Publish
  <2>0. \A i \in Items : i \in Nat
    BY ItemsAreNumbers
  <2>2. Old \subseteq Old'
    BY <1>0, <2>0, <2>1 DEF Old
  <2>3. OldScans \subseteq OldScans' /\ OldCheckpoints \subseteq OldCheckpoints'
    BY <2>2 DEF OldScans, OldCheckpoints
  <2> QED
    BY <1>0, <2>1, <2>3 DEF ListsInv, HandInv
<1> QED
  BY <1>0a, <1>1, <1>2, <1>3, <1>4, <1>5, <1>6, <1>7, <1>8, <1>9, <1>10, <1>11, <1>12,
     <1>13, <1>14, <1>15, <1>16, <1>17 DEF Next, RunStep

(* The types of the lists are those of TypeOK. *)
ListTypes ==
    /\ checkpoint \in [Sources -> Checkpoints]
    /\ DOMAIN scan \subseteq Sources
    /\ scan \in [DOMAIN scan -> Scans]
    /\ todo \subseteq Sources

LEMMA ListsHaveTypes == ListsInv /\ HandInv => ListTypes
BY DEF ListsInv, HandInv, ListTypes, OldScans, OldCheckpoints

(* The other variables. *)
PlainTypes ==
    /\ published \in Nat /\ have \subseteq Items /\ syncable \in BOOLEAN
    /\ exclusions \subseteq Items /\ pc \in Steps /\ picked \in Sources
    /\ seen \in [Items -> Outcomes] /\ stories \in 0..MaxStories /\ opened \subseteq Items
    /\ failures \in 0..MaxFailures /\ kills \in 0..MaxKills /\ others \in 0..MaxOthers
    /\ tried \subseteq Items /\ caught \subseteq Items /\ late \in Nat
    /\ direct \in Items \cup {NoItem} /\ unexcluded \subseteq Items

(* Only lists that are not done are frozen, and a run is alone.            *)
Bonds ==
    /\ pc = "freeze" => todo \subseteq Active
    /\ direct # NoItem => pc = "idle"

LEMMA TypesSplit == TypeOK <=> PlainTypes /\ ListTypes /\ HandInv /\ Bonds
BY DEF TypeOK, InHand, PlainTypes, ListTypes, HandInv, Bonds

LEMMA BondsStep ==
    ASSUME TypeInv, Next
    PROVE  Bonds'
<1>0. Bonds /\ HandInv /\ \A s \in DOMAIN scan : scan[s] \in OldScans
  BY TypesSplit DEF TypeInv, ListsInv
<1>1. CASE Stop \/ FailProcess
  BY <1>0, <1>1 DEF Bonds, Stop, FailProcess, Active
<1>2. ASSUME NEW s \in Sources, FailLoad(s) PROVE Bonds'
  <2>1. /\ scan' = [scan EXCEPT ![s].cursor = scan[s].rest] /\ s \in DOMAIN scan
        /\ todo' = Active /\ pc' = "freeze" /\ direct' = direct /\ pc = "load"
    BY <1>0, <1>2 DEF FailLoad, Turn, HandInv
  <2>2. scan'[s].active = scan[s].active
    BY <1>0, <2>1 DEF OldScans, Scans
  <2>3. Active' = Active
    BY <2>1, <2>2 DEF Active
  <2> QED
    BY <1>0, <2>1, <2>3 DEF Bonds
<1>3. ASSUME NEW s \in Sources, Freeze(s) PROVE Bonds'
  BY <1>0, <1>3 DEF Bonds, Freeze, Active
<1>4. CASE \/ Publish \/ SwitchSync \/ AddBoundaryExclusion \/ FailToExclude
           \/ \E i \in Items : SaveDirectly(i) \/ DeleteMedia(i)
  BY <1>0, <1>4
  DEF Bonds, Publish, SwitchSync, AddBoundaryExclusion, FailToExclude, SaveDirectly,
      DeleteMedia, Active
<1>5. CASE FailStory \/ EndFrozen \/ Kill \/ EndRun
  BY <1>0, <1>5 DEF Bonds, FailStory, EndFrozen, Kill, EndRun, Idle
<1>6. CASE SaveStory
  BY <1>0, <1>6 DEF Bonds, SaveStory, Idle
<1>7. CASE StartRun \/ OpenFeed \/ EndPass \/ EndRecent \/ OpenHistory \/ Note
  <2>1. direct' = NoItem /\ pc' # "freeze"
    BY <1>0, <1>7 DEF Bonds, StartRun, OpenFeed, EndPass, EndRecent, OpenHistory, Note
  <2> QED
    BY <2>1 DEF Bonds
<1>8. CASE \/ \E s \in Sources : LoadHead(s) \/ Take(s) \/ MarkComplete(s) \/ Thaw(s)
           \/ \E outcome \in Outcomes : Process(outcome)
  <2>1. direct' = NoItem /\ pc' # "freeze"
    BY <1>0, <1>8 DEF Bonds, LoadHead, Take, MarkComplete, Thaw, Process
  <2> QED
    BY <2>1 DEF Bonds
<1> QED
  BY <1>1, <1>2, <1>3, <1>4, <1>5, <1>6, <1>7, <1>8 DEF Next, RunStep

LEMMA PlainStep ==
    ASSUME TypeInv, Next
    PROVE  PlainTypes'
<1> USE SyncAssumption DEF PlainTypes, Steps
<1>0. PlainTypes /\ HandInv /\ ListsInv
  BY TypesSplit DEF TypeInv
<1>a. ASSUME Idle PROVE /\ pc' \in Steps /\ picked' \in Sources /\ seen' \in [Items -> Outcomes]
                        /\ stories' \in 0..MaxStories /\ opened' \subseteq Items
  BY <1>a DEF Idle, Sources, Outcomes
<1>0a. CASE AddBoundaryExclusion \/ FailToExclude
  BY <1>0, <1>0a DEF AddBoundaryExclusion, FailToExclude
<1>1. CASE FailStory
  BY <1>0, <1>1, <1>a DEF FailStory
<1>2. CASE EndFrozen
  BY <1>0, <1>2, <1>a DEF EndFrozen
<1>3. CASE Kill
  BY <1>0, <1>3, <1>a DEF Kill
<1>4. CASE EndRun
  BY <1>0, <1>4, <1>a DEF EndRun
<1>5. CASE SaveStory
  <2>1. CASE syncable
    BY <1>0, <1>5, <2>1 DEF SaveStory
  <2>2. CASE ~syncable
    BY <1>0, <1>5, <2>2, <1>a DEF SaveStory
  <2> QED
    BY <2>1, <2>2
<1>6. CASE StartRun
  BY <1>0, <1>6 DEF StartRun
<1>7. CASE SwitchSync
  BY <1>0, <1>7 DEF SwitchSync
<1>8. CASE Stop
  BY <1>0, <1>8 DEF Stop
<1>9. CASE FailProcess
  BY <1>0, <1>9 DEF FailProcess
<1>10. CASE EndPass \/ EndRecent \/ OpenHistory
  BY <1>0, <1>10 DEF EndPass, EndRecent, OpenHistory
<1>11. ASSUME NEW i \in Items, SaveDirectly(i) \/ DeleteMedia(i) PROVE PlainTypes'
  BY <1>0, <1>11 DEF SaveDirectly, DeleteMedia
<1>12. ASSUME NEW s \in Sources, Take(s) PROVE PlainTypes'
  <2>1. pc' \in {"process", "note"}
    BY <1>12 DEF Take
  <2> QED
    BY <1>0, <1>12, <2>1 DEF Take
<1>13. ASSUME NEW outcome \in Outcomes, Process(outcome) PROVE PlainTypes'
  <2> DEFINE i == scan[picked].head
  <2>1. i \in Items
    BY <1>0, <1>13 DEF Process, HandInv
  <2>2. /\ outcome = "warning" => failures < MaxFailures
        /\ failures' = IF outcome = "warning" THEN failures + 1 ELSE failures
        /\ have' = IF outcome = "saved" THEN have \cup {i} ELSE have
        /\ seen' = [seen EXCEPT ![i] = outcome]
        /\ tried' = tried \cup {i}
        /\ late' = IF syncable THEN 0 ELSE late + 1
        /\ pc' = "note"
        /\ UNCHANGED <<published, syncable, direct, picked, stories, opened, exclusions,
                       kills, others, caught, unexcluded>>
    BY <1>13 DEF Process
  <2> HIDE DEF i
  <2>3. failures' \in 0..MaxFailures
    BY <1>0, <2>2
  <2>4. have' \subseteq Items /\ tried' \subseteq Items
    BY <1>0, <2>1, <2>2
  <2>5. seen' \in [Items -> Outcomes]
    BY <1>0, <2>1, <2>2
  <2>6. late' \in Nat
    BY <1>0, <2>2
  <2> QED
    BY <1>0, <2>2, <2>3, <2>4, <2>5, <2>6
<1>14. CASE OpenFeed
  <2>1. opened' \subseteq Items
    BY <1>14, ShownType DEF OpenFeed, Old
  <2> QED
    BY <1>0, <1>14, <2>1 DEF OpenFeed
<1>15. ASSUME NEW s \in Sources, LoadHead(s) PROVE PlainTypes'
  <2>1. pc' \in {"take", "load"}
    BY <1>15 DEF LoadHead
  <2> QED
    BY <1>0, <1>15, <2>1 DEF LoadHead
<1>16. ASSUME NEW s \in Sources, FailLoad(s) PROVE PlainTypes'
  BY <1>0, <1>16 DEF FailLoad
<1>17. CASE Note
  <2>1. pc' \in {"load", "take"}
    BY <1>17 DEF Note
  <2> QED
    BY <1>0, <1>17, <2>1 DEF Note
<1>18. ASSUME NEW s \in Sources, MarkComplete(s) PROVE PlainTypes'
  BY <1>0, <1>18 DEF MarkComplete
<1>19. ASSUME NEW s \in Sources, Thaw(s) PROVE PlainTypes'
  <2>1. failures' = failures \/ (failures < MaxFailures /\ failures' = failures + 1)
    BY <1>19 DEF Thaw
  <2> QED
    BY <1>0, <1>19, <2>1 DEF Thaw
<1>20. ASSUME NEW s \in Sources, Freeze(s) PROVE PlainTypes'
  <2>1. failures' \in 0..MaxFailures
    BY <1>0, <1>20 DEF Freeze
  <2> QED
    BY <1>0, <1>20, <2>1 DEF Freeze
<1>21. CASE Publish
  BY <1>0, <1>21 DEF Publish
<1> QED
  BY <1>1, <1>2, <1>3, <1>4, <1>5, <1>6, <1>7, <1>8, <1>9, <1>10, <1>11, <1>12, <1>13,
     <1>14, <1>15, <1>16, <1>17, <1>18, <1>19, <1>20, <1>21, <1>0a DEF Next, RunStep

LEMMA InitTypes == Init => TypeInv
<1> SUFFICES ASSUME Init PROVE TypeInv
  OBVIOUS
<1> USE SyncAssumption
<1>1. PlainTypes
  BY DEF Init, PlainTypes, Steps, Sources, Outcomes
<1>2. ListsInv
  <2>1. NoCheckpoint \in OldCheckpoints
    BY CheckpointTypes
  <2>2. DOMAIN scan = {} /\ scan \in [DOMAIN scan -> OldScans]
    BY DEF Init
  <2>3. checkpoint = [s \in Sources |-> NoCheckpoint]
    BY DEF Init
  <2> QED
    BY <2>1, <2>2, <2>3 DEF ListsInv
<1>3. HandInv
  BY DEF Init, HandInv
<1>4. Bonds
  BY DEF Init, Bonds
<1> QED
  BY <1>1, <1>2, <1>3, <1>4, ListsHaveTypes, TypesSplit DEF TypeInv

LEMMA NextTypes == TypeInv /\ [Next]_vars => TypeInv'
<1> SUFFICES ASSUME TypeInv, [Next]_vars PROVE TypeInv'
  OBVIOUS
<1>1. CASE Next
  <2>1. ListsInv' /\ HandInv' /\ PlainTypes' /\ Bonds'
    BY <1>1, ListsStep, PlainStep, BondsStep
  <2>2. ListsInv' /\ HandInv' => ListTypes'
    BY ListsHaveTypes, PTL
  <2>3. TypeOK'
    BY <2>1, <2>2 DEF TypeOK, InHand, PlainTypes, ListTypes, HandInv, Bonds
  <2> QED
    BY <2>1, <2>3 DEF TypeInv
<1>2. CASE UNCHANGED vars
  <2>1. ListsInv' /\ TypeOK'
    BY <1>2, SameLists DEF TypeInv, TypeOK, InHand, Active
  <2> QED
    BY <1>2, <2>1 DEF TypeInv, HandInv
<1> QED
  BY <1>1, <1>2

(* The variables keep their types: a run never deals with an item that is  *)
(* not at the head of a list it has open, nor freezes a list it has not.   *)
THEOREM TypesHold == Spec => []TypeOK
<1>1. TypeInv => TypeOK
  BY DEF TypeInv
<1> QED
  BY InitTypes, NextTypes, <1>1, PTL DEF Spec

-----------------------------------------------------------------------------
(* Nothing is skipped.                                                     *)
(*                                                                         *)
(* It holds without pins, which break the order of a list, and without     *)
(* kills, which lose what a run was about to write down.  And a cursor     *)
(* that is refused makes a run read a list as it is by then: items         *)
(* published since the run opened its lists become known through the one   *)
(* list, and a boundary of the other.                                      *)
Calm ==
    /\ Pinned = {}
    /\ MaxKills = 0
    /\ Posts \cap Reels = {} \/ MaxFailures = 0

Under(i, s) == {j \in List(s) : j < i}

(* The end of a list: with an item it has all that are older. *)
Suffix(S, s) == S \subseteq List(s) /\ \A i \in S : Under(i, s) \subseteq S

(* What need not be looked at any more. *)
Dealt == tried \cup Hidden

LEMMA SameDealt == UNCHANGED <<tried, unexcluded>> => Dealt' = Dealt
BY DEF Dealt, Hidden

LEMMA MoreDealt ==
    tried \subseteq tried' /\ unexcluded \subseteq unexcluded' => Dealt \subseteq Dealt'
BY DEF Dealt, Hidden

(* What the pass has yet to deal with, its head included. *)
Pending(s) == scan[s].rest \cup ({scan[s].head} \ {NoItem})

(* What was dealt with, or will be by following the stored cursor. *)
Known(s) == Dealt \cup checkpoint[s].below

(* The same, where this run follows the cursor. *)
Reach(s) == IF scan[s].resume THEN Known(s) ELSE Dealt

(* Whether a run may stop at a boundary. *)
Bounded(s) == checkpoint[s].complete \/ checkpoint[s].stored

(* Where it may stop.  A job between the two transactions of a direct      *)
(* download will add to the one or to the other.                           *)
Marks(s) == (have \cap List(s)) \ (exclusions \cup {direct})

Running == pc \notin {"idle", "stories"}

(* Of a source that is no part of the pass. *)
Settled(s) ==
    /\ Bounded(s) => \A i \in Marks(s) : Under(i, s) \subseteq Known(s)
    /\ opened \cap List(s) \subseteq Dealt

(* Of a cursor. *)
Cursor(s) ==
    /\ Suffix(checkpoint[s].below, s)
    /\ ~checkpoint[s].stored => checkpoint[s].below = {}

(* Of a source in the pass: how far its list is read ... *)
Shape(s) ==
    /\ Suffix(scan[s].rest, s)
    /\ scan[s].head # NoItem =>
          /\ scan[s].head \in Old \cap List(s)
          /\ scan[s].rest = Under(scan[s].head, s)
          /\ \/ scan[s].cursor = Pending(s)
             \/ scan[s].cursor = scan[s].rest /\ scan[s].head \in Dealt
    /\ ~scan[s].active => scan[s].head = NoItem
    /\ ~scan[s].active /\ ~scan[s].stop => scan[s].rest = {}

(* ... what is done between two items, or after the last ...               *)
Place(s) ==
    /\ pc = "load" =>
          IF s \in todo
          THEN scan[s].active /\ (scan[s].head = NoItem \/ scan[s].head \in Dealt)
          ELSE scan[s].active => scan[s].head # NoItem
    /\ pc \in {"take", "process", "note"} => (scan[s].active => scan[s].head # NoItem)
    /\ pc = "mark" =>
          ~scan[s].active /\ (s \in todo => ~scan[s].stop /\ ~scan[s].resume)
    /\ pc = "thaw" =>
          /\ scan[s].head = NoItem
          /\ IF s \in todo THEN scan[s].resume /\ ~scan[s].active ELSE ~scan[s].resume

(* ... that the pass leaves nothing behind, neither of what the stored     *)
(* cursor leads to, nor of what the run opened, nor below what it saves    *)
(* itself ...                                                              *)
Covered(s) ==
    /\ checkpoint[s].below \subseteq Dealt \cup Pending(s)
    /\ opened \cap List(s) \subseteq Dealt \cup Pending(s)
    /\ \A i \in Marks(s) : Under(i, s) \subseteq Dealt \cup Pending(s)

(* ... that it stops where nothing is left below ...                       *)
Stopping(s) ==
    /\ scan[s].resume => checkpoint[s].stored
    /\ scan[s].stop => Bounded(s)
    /\ ~scan[s].active \/ (scan[s].stop /\ scan[s].boundary)
           => scan[s].rest \subseteq Reach(s)
    /\ scan[s].stop =>
          \A i \in Marks(s) : seen[i] \in {"none", "existing"} => Under(i, s) \subseteq Reach(s)

(* ... and that it freezes all that is left. *)
Freezing(s) == Bounded(s) => Pending(s) \subseteq Known(s)

OfPass(s) ==
    /\ Shape(s) /\ Place(s) /\ Covered(s)
    /\ pc # "freeze" => Stopping(s)
    /\ pc = "freeze" /\ s \notin todo => Freezing(s)

SourceInv(s) ==
    /\ Cursor(s)
    /\ s \in DOMAIN scan => OfPass(s)
    /\ s \notin DOMAIN scan => Settled(s)

Records ==
    /\ have \subseteq Old /\ exclusions \subseteq Old /\ opened \subseteq Old
    /\ direct # NoItem => direct \in Old
    /\ caught \subseteq Dealt
    /\ \A i \in Items : /\ seen[i] # "none" => i \in Dealt
                        /\ seen[i] = "existing" => i \in have
    /\ pc = "process" => seen[scan[picked].head] = "none"
    /\ pc = "note" => seen[scan[picked].head] # "none"
    /\ ~Running => /\ DOMAIN scan = {} /\ opened = {}
                   /\ \A i \in Items : seen[i] = "none"

(* What a run opened has all that is older, too. *)
Opened ==
    /\ \A i \in opened, j \in Items : j < i => j \in opened
    /\ Running => exclusions \subseteq opened

(* If the lists share items, a run only sees what it opened. *)
Shared ==
    \/ Posts \cap Reels = {}
    \/ ~Running
    \/ /\ \A s \in DOMAIN scan : Pending(s) \subseteq opened
       /\ \A s \in Sources : checkpoint[s].below \subseteq opened

SkipInv == Records /\ Opened /\ Shared /\ \A s \in Sources : SourceInv(s)

LEMMA InitSkip == Init => SkipInv
<1> SUFFICES ASSUME Init PROVE SkipInv
  OBVIOUS
<1>1. /\ DOMAIN scan = {} /\ have = {} /\ opened = {} /\ caught = {} /\ exclusions = {}
      /\ pc = "idle" /\ direct = NoItem /\ \A i \in Items : seen[i] = "none"
  BY DEF Init
<1>2. ASSUME NEW s \in Sources
      PROVE  checkpoint[s].below = {} /\ ~checkpoint[s].stored
  BY DEF Init, NoCheckpoint
<1> QED
  BY <1>1, <1>2
  DEF SkipInv, Records, Opened, Shared, SourceInv, Running, Cursor, Suffix, Settled, Marks

(* The facts about a source that every step below relies on. *)
LEMMA SourceFacts ==
    ASSUME TypeInv, SkipInv
    PROVE  /\ \A s \in DOMAIN scan : /\ s \in Sources /\ OfPass(s) /\ scan[s] \in OldScans
                                     /\ scan[s].head \in Items \cup {NoItem}
                                     /\ scan[s].rest \subseteq Old
                                     /\ scan[s].active \in BOOLEAN
           /\ \A s \in Sources : /\ Cursor(s) /\ checkpoint[s] \in OldCheckpoints
                                 /\ checkpoint[s].below \subseteq Old
           /\ \A s \in Sources \ DOMAIN scan : Settled(s)
           /\ todo \subseteq DOMAIN scan
           /\ published \in Nat
<1>1. \A s \in DOMAIN scan : s \in Sources /\ scan[s] \in OldScans
  BY DEF TypeInv, ListsInv
<1>2. \A s \in Sources : checkpoint[s] \in OldCheckpoints
  BY DEF TypeInv, ListsInv
<1> QED
  BY <1>1, <1>2, ScanFields DEF SkipInv, SourceInv, OldCheckpoints, TypeInv, TypeOK, HandInv

(* A source the step does not touch stays as sound as it is, whatever else *)
(* is dealt with, if below what it saves there is nothing new to see.      *)
LEMMA Untouched ==
    ASSUME NEW s \in Sources, SourceInv(s),
           s \in DOMAIN scan <=> s \in DOMAIN scan',
           s \in DOMAIN scan => scan'[s] = scan[s],
           checkpoint'[s] = checkpoint[s],
           opened' = opened, Dealt \subseteq Dealt', Old \subseteq Old',
           \A i \in Marks(s)' :
              \/ /\ i \in Marks(s)
                 /\ seen'[i] \in {"none", "existing"} => seen[i] \in {"none", "existing"}
              \/ /\ seen'[i] \notin {"none", "existing"}
                 /\ s \in DOMAIN scan => Under(i, s) \subseteq Dealt \cup Pending(s)
                 /\ s \notin DOMAIN scan => Under(i, s) \subseteq Dealt
    PROVE  /\ Cursor(s)'
           /\ s \in DOMAIN scan =>
                 /\ Shape(s)' /\ Covered(s)'
                 /\ Stopping(s) => Stopping(s)'
                 /\ Freezing(s) => Freezing(s)'
           /\ s \notin DOMAIN scan => Settled(s)'
<1>1. Cursor(s)'
  BY DEF SourceInv, Cursor
<1>2. Bounded(s)' = Bounded(s) /\ Known(s) \subseteq Known(s)' /\ Dealt \subseteq Known(s)'
  BY DEF Bounded, Known
<1>3. s \notin DOMAIN scan => Settled(s)'
  BY <1>2 DEF SourceInv, Settled
<1>4. ASSUME s \in DOMAIN scan
      PROVE  /\ Shape(s)' /\ Covered(s)'
             /\ Stopping(s) => Stopping(s)'
             /\ Freezing(s) => Freezing(s)'
  <2>1. Pending(s)' = Pending(s) /\ Reach(s) \subseteq Reach(s)'
    BY <1>2, <1>4 DEF Pending, Reach
  <2>2. Shape(s)'
    BY <1>4, <2>1 DEF SourceInv, OfPass, Shape
  <2>3. Covered(s)'
    BY <1>4, <2>1 DEF SourceInv, OfPass, Covered
  <2>4. Stopping(s) => Stopping(s)'
    BY <1>2, <1>4, <2>1 DEF Stopping
  <2>5. Freezing(s) => Freezing(s)'
    BY <1>2, <1>4, <2>1 DEF Freezing
  <2> QED
    BY <2>2, <2>3, <2>4, <2>5
<1> QED
  BY <1>1, <1>3, <1>4

(* Steps that touch no source at all. *)
LEMMA StillSkip ==
    ASSUME TypeInv, SkipInv, Old \subseteq Old', Running' = Running,
           UNCHANGED <<have, checkpoint, exclusions, scan, seen, opened, Dealt, caught, direct>>,
           pc' = "process" => seen[scan'[picked'].head] = "none",
           pc' = "note" => seen[scan'[picked'].head] # "none",
           \A s \in DOMAIN scan :
              /\ Place(s)'
              /\ pc' # "freeze" => Stopping(s)
              /\ pc' = "freeze" /\ s \notin todo' => Freezing(s)
    PROVE  SkipInv'
<1>1. Records'
  BY DEF SkipInv, Records
<1>2. Opened'
  BY DEF SkipInv, Opened
<1>3. Shared'
  BY DEF SkipInv, Shared, Pending
<1>4. ASSUME NEW s \in Sources PROVE SourceInv(s)'
  <2>1. SourceInv(s) /\ Marks(s)' = Marks(s)
    BY DEF SkipInv, Marks
  <2>2. /\ Cursor(s)'
        /\ s \in DOMAIN scan =>
              /\ Shape(s)' /\ Covered(s)'
              /\ Stopping(s) => Stopping(s)'
              /\ Freezing(s) => Freezing(s)'
        /\ s \notin DOMAIN scan => Settled(s)'
    BY <2>1, Untouched
  <2> QED
    BY <2>2 DEF SourceInv, OfPass
<1> QED
  BY <1>1, <1>2, <1>3, <1>4 DEF SkipInv

(* Steps around a run, and those between its passes. *)
LEMMA QuietSkip ==
    ASSUME TypeInv, SkipInv,
           \/ StartRun \/ (SaveStory /\ syncable) \/ SwitchSync \/ Publish
           \/ Stop \/ FailProcess \/ EndPass \/ EndRecent
           \/ \E s \in Sources : Take(s)
    PROVE  SkipInv'
<1>0. /\ \A s \in DOMAIN scan : OfPass(s) /\ scan[s].active \in BOOLEAN
      /\ published \in Nat
      /\ pc = "process" => seen[scan[picked].head] = "none"
      /\ pc = "note" => seen[scan[picked].head] # "none"
      /\ ~Running => DOMAIN scan = {}
  BY SourceFacts DEF SkipInv, Records
<1>1. UNCHANGED <<have, checkpoint, exclusions, scan, seen, opened, Dealt, caught, direct>>
  BY SameDealt
  DEF StartRun, SaveStory, SwitchSync, Publish, Stop, FailProcess, EndPass, EndRecent, Take
<1>2. published' = published => Old' = Old
  BY DEF Old
<1>3. CASE StartRun \/ (SaveStory /\ syncable)
  <2>1. published' = published /\ pc' = "stories" /\ pc \in {"idle", "stories"}
    BY <1>3 DEF StartRun, SaveStory
  <2>2. Running' = Running /\ ~Running
    BY <2>1 DEF Running
  <2>3. \A s \in DOMAIN scan : FALSE
    BY <1>0, <2>2
  <2> QED
    BY <1>1, <1>2, <2>1, <2>2, <2>3, StillSkip
<1>4. CASE SwitchSync \/ Publish
  <2>1. UNCHANGED <<pc, todo, picked>> /\ published' \in {published, published + 1}
    BY <1>4 DEF SwitchSync, Publish
  <2>2. Old \subseteq Old'
    <3>1. \A i \in Items : i \in Nat
      BY ItemsAreNumbers
    <3> QED
      BY <1>0, <2>1, <3>1 DEF Old
  <2>3. Running' = Running
    BY <2>1 DEF Running
  <2>4. ASSUME NEW s \in DOMAIN scan
        PROVE  /\ Place(s)'
               /\ pc' # "freeze" => Stopping(s)
               /\ pc' = "freeze" /\ s \notin todo' => Freezing(s)
    BY <1>0, <1>1, <2>1 DEF OfPass, Place
  <2> QED
    BY <1>0, <1>1, <2>1, <2>2, <2>3, <2>4, StillSkip
<1>5. CASE Stop \/ FailProcess
  <2>1. /\ published' = published /\ pc' = "freeze" /\ pc \in {"take", "process"}
        /\ todo' = Active
    BY <1>5 DEF Stop, FailProcess
  <2>2. Running /\ Running'
    BY <2>1 DEF Running
  <2>3. ASSUME NEW s \in DOMAIN scan PROVE Place(s)' /\ (s \notin todo' => Freezing(s))
    <3>1. Place(s)'
      BY <2>1 DEF Place
    <3>2. ASSUME ~scan[s].active PROVE Freezing(s)
      <4>1. Pending(s) \subseteq Reach(s)
        BY <1>0, <2>1, <3>2 DEF OfPass, Shape, Stopping, Pending
      <4> QED
        BY <4>1 DEF Freezing, Reach, Known
    <3> QED
      BY <2>1, <3>1, <3>2 DEF Active
  <2> QED
    BY <1>1, <1>2, <2>1, <2>2, <2>3, StillSkip
<1>6. CASE EndPass
  <2>1. /\ published' = published /\ pc' = "mark" /\ pc = "take" /\ Ready = {}
        /\ todo' = {s \in DOMAIN scan : ~scan[s].stop /\ ~scan[s].resume}
    BY <1>6 DEF EndPass
  <2>2. Running /\ Running'
    BY <2>1 DEF Running
  <2>3. ASSUME NEW s \in DOMAIN scan PROVE Place(s)' /\ Stopping(s)
    <3>1. ~scan[s].active
      BY <1>0, <2>1 DEF OfPass, Place, Ready, Active
    <3> QED
      BY <1>0, <1>1, <2>1, <3>1 DEF OfPass, Place
  <2> QED
    BY <1>1, <1>2, <2>1, <2>2, <2>3, StillSkip
<1>7. CASE EndRecent
  <2>1. /\ published' = published /\ pc' = "thaw" /\ pc = "mark" /\ todo' = Resuming
    BY <1>7 DEF EndRecent
  <2>2. Running /\ Running'
    BY <2>1 DEF Running
  <2>3. ASSUME NEW s \in DOMAIN scan PROVE Place(s)' /\ Stopping(s)
    <3>1. ~scan[s].active /\ scan[s].head = NoItem /\ Stopping(s)
      BY <1>0, <2>1 DEF OfPass, Place, Shape
    <3>2. s \in todo' <=> scan[s].resume /\ checkpoint[s].stored
      BY <2>1 DEF Resuming
    <3> QED
      BY <1>1, <2>1, <3>1, <3>2 DEF Place, Stopping
  <2> QED
    BY <1>1, <1>2, <2>1, <2>2, <2>3, StillSkip
<1>8. ASSUME NEW s \in Sources, Take(s) PROVE SkipInv'
  <2>1. /\ published' = published /\ pc = "take" /\ picked' = s
        /\ pc' = IF seen[scan[s].head] = "none" THEN "process" ELSE "note"
        /\ todo' = todo
    BY <1>8 DEF Take
  <2>2. Running /\ Running'
    BY <2>1 DEF Running
  <2>3. ASSUME NEW t \in DOMAIN scan PROVE Place(t)' /\ Stopping(t)
    <3>1. Place(t) /\ Stopping(t)
      BY <1>0, <2>1 DEF OfPass
    <3> QED
      BY <1>1, <2>1, <3>1 DEF Place
  <2> QED
    BY <1>1, <1>2, <2>1, <2>2, <2>3, StillSkip
<1> QED
  BY <1>3, <1>4, <1>5, <1>6, <1>7, <1>8

(* The end of a run, whichever: what is stored and what was dealt with has *)
(* to be enough.                                                           *)
LEMMA IdleSkip ==
    ASSUME TypeInv, SkipInv, Idle, UNCHANGED <<published, have, checkpoint, Dealt, direct>>,
           exclusions' \subseteq exclusions, caught' \subseteq Dealt,
           \A s \in Sources : Bounded(s) => \A i \in Marks(s)' : Under(i, s) \subseteq Known(s)
    PROVE  SkipInv'
<1>1. /\ DOMAIN scan' = {} /\ opened' = {} /\ pc' = "idle"
      /\ \A i \in Items : seen'[i] = "none"
  BY DEF Idle
<1>2. Old' = Old
  BY DEF Old
<1>3. Records'
  BY <1>1, <1>2 DEF SkipInv, Records
<1>4. Opened' /\ Shared'
  BY <1>1 DEF Opened, Shared, Running
<1>5. ASSUME NEW s \in Sources PROVE SourceInv(s)'
  <2>1. Cursor(s)'
    BY DEF SkipInv, SourceInv, Cursor
  <2>2. Settled(s)'
    BY <1>1 DEF Settled, Bounded, Known
  <2> QED
    BY <1>1, <2>1, <2>2 DEF SourceInv
<1> QED
  BY <1>3, <1>4, <1>5 DEF SkipInv

LEMMA EndSkip ==
    ASSUME TypeInv, SkipInv, (SaveStory /\ ~syncable) \/ FailStory \/ EndFrozen \/ EndRun
    PROVE  SkipInv'
<1>0. /\ \A s \in DOMAIN scan : OfPass(s)
      /\ \A s \in Sources \ DOMAIN scan : Settled(s)
      /\ caught \subseteq Dealt /\ opened \subseteq Items
      /\ ~Running => DOMAIN scan = {}
  BY SourceFacts DEF SkipInv, Records, Old
<1>1. CASE (SaveStory /\ ~syncable) \/ FailStory
  <2>1. Idle /\ UNCHANGED <<published, have, checkpoint, Dealt, exclusions, caught, direct>>
        /\ DOMAIN scan = {}
    BY <1>0, <1>1, SameDealt DEF SaveStory, FailStory, Running
  <2>2. \A s \in Sources : Marks(s)' = Marks(s)
    BY <2>1 DEF Marks
  <2> QED
    BY <1>0, <2>1, <2>2, IdleSkip DEF Settled
<1>2. CASE EndFrozen
  <2>1. Idle /\ UNCHANGED <<published, have, checkpoint, Dealt, exclusions, caught, direct>>
        /\ pc = "freeze" /\ todo = {}
    BY <1>2, SameDealt DEF EndFrozen
  <2>2. ASSUME NEW s \in Sources, Bounded(s), NEW i \in Marks(s)'
        PROVE  Under(i, s) \subseteq Known(s)
    <3>1. i \in Marks(s)
      BY <2>1 DEF Marks
    <3>2. CASE s \in DOMAIN scan
      <4>1. Under(i, s) \subseteq Dealt \cup Pending(s) /\ Pending(s) \subseteq Known(s)
        BY <1>0, <2>1, <2>2, <3>1, <3>2 DEF OfPass, Covered, Freezing
      <4> QED
        BY <4>1 DEF Known
    <3>3. CASE s \notin DOMAIN scan
      BY <1>0, <2>2, <3>1, <3>3 DEF Settled
    <3> QED
      BY <3>2, <3>3
  <2> QED
    BY <1>0, <2>1, <2>2, IdleSkip
<1>3. CASE EndRun
  <2>1. /\ Idle /\ UNCHANGED <<published, have, checkpoint, Dealt, direct>>
        /\ exclusions' = {} /\ caught' = opened
        /\ pc = "mark" /\ todo = {} /\ Resuming = {}
    BY <1>3, SameDealt DEF EndRun
  <2>2. ASSUME NEW s \in DOMAIN scan PROVE Pending(s) \subseteq Dealt
    <3>1. Place(s) /\ Shape(s) /\ Stopping(s)
      BY <1>0, <2>1 DEF OfPass
    <3>2. ~scan[s].active /\ ~scan[s].resume /\ scan[s].head = NoItem
      BY <2>1, <3>1 DEF Place, Shape, Stopping, Resuming
    <3> QED
      BY <3>1, <3>2 DEF Stopping, Reach, Pending
  <2>3. ASSUME NEW s \in Sources PROVE opened \cap List(s) \subseteq Dealt
    <3>1. CASE s \in DOMAIN scan
      BY <1>0, <2>2, <3>1 DEF OfPass, Covered
    <3>2. CASE s \notin DOMAIN scan
      BY <1>0, <3>2 DEF Settled
    <3> QED
      BY <3>1, <3>2
  <2>4. opened \subseteq Dealt
    <3>1. Items = List("reels") \cup List("posts")
      BY DEF Items, List
    <3> QED
      BY <1>0, <2>3, <3>1 DEF Sources
  <2>5. ASSUME NEW s \in Sources, Bounded(s), NEW i \in Marks(s)'
        PROVE  Under(i, s) \subseteq Known(s)
    <3>1. i \in have /\ i \in List(s) /\ i # direct
      BY <2>1, <2>5 DEF Marks
    <3>2. CASE i \in exclusions
      <4>1. i \in opened
        BY <2>1, <3>2 DEF SkipInv, Opened, Running
      <4>2. Under(i, s) \subseteq opened
        BY <4>1 DEF SkipInv, Opened, Under, List, Items
      <4> QED
        BY <2>4, <4>2 DEF Known
    <3>3. CASE i \notin exclusions
      <4>1. i \in Marks(s)
        BY <3>1, <3>3 DEF Marks
      <4>2. CASE s \in DOMAIN scan
        BY <1>0, <2>2, <4>1, <4>2 DEF OfPass, Covered, Known
      <4>3. CASE s \notin DOMAIN scan
        BY <1>0, <2>5, <4>1, <4>3 DEF Settled
      <4> QED
        BY <4>2, <4>3
    <3> QED
      BY <3>2, <3>3
  <2> QED
    BY <2>1, <2>4, <2>5, IdleSkip
<1> QED
  BY <1>1, <1>2, <1>3

(* A list without pins is read in the order of its numbers. *)
LEMMA WithHeadFields ==
    ASSUME Calm, published \in Nat, NEW s \in Sources, NEW state \in OldScans,
           Suffix(state.rest, s)
    PROVE  LET new == WithHead(state)
           IN  /\ new.stop = state.stop /\ new.resume = state.resume
               /\ new.boundary = state.boundary
               /\ state.rest = {} => new.rest = {} /\ new.head = NoItem /\ ~new.active
               /\ state.rest # {} => /\ new.active = state.active
                                     /\ new.head \in state.rest /\ new.head # NoItem
                                     /\ new.rest = Under(new.head, s)
                                     /\ new.cursor = state.rest
                                     /\ state.rest = new.rest \cup {new.head}
<1>0. /\ state \in Scans /\ state.rest \in SUBSET Old
  BY ScanFields
<1>1. CASE state.rest = {}
  <2>1. WithHead(state) = [state EXCEPT !.cursor = {}, !.active = FALSE, !.head = NoItem]
    BY <1>1 DEF WithHead
  <2> QED
    BY <1>0, <1>1, <2>1 DEF Scans
<1>2. CASE state.rest # {}
  <2> DEFINE i == Top(state.rest)
  <2>1. WithHead(state) = [state EXCEPT !.cursor = state.rest, !.head = i,
                                        !.rest = state.rest \ {i}]
    BY <1>2 DEF WithHead
  <2>2. i \in state.rest /\ \A j \in state.rest \ {i} : Above(i, j)
    BY <1>0, <1>2, TopIsThere
  <2>3. \A j \in state.rest \ {i} : j < i
    <3>1. \A j \in state.rest : j \in Nat
      BY <1>0, ItemsAreNumbers DEF Old
    <3> QED
      BY <2>2, <3>1 DEF Above, Calm
  <2> HIDE DEF i
  <2>4. state.rest \ {i} = Under(i, s)
    <3>1. \A j \in state.rest : j \in Nat /\ j \in List(s)
      BY <1>0, ItemsAreNumbers DEF Old, Suffix
    <3>2. Under(i, s) \subseteq state.rest
      BY <2>2 DEF Suffix
    <3>3. i \notin Under(i, s)
      BY <2>2, <3>1 DEF Under
    <3> QED
      BY <2>3, <3>1, <3>2, <3>3 DEF Under
  <2>5. i # NoItem
    BY <1>0, <2>2, ItemsAreNumbers DEF Old
  <2> QED
    BY <1>0, <1>2, <2>1, <2>2, <2>4, <2>5 DEF Scans
<1> QED
  BY <1>1, <1>2

LEMMA NotedFields ==
    ASSUME NEW state \in OldScans, NEW i
    PROVE  LET new == Noted(state, i)
           IN  /\ new.stop = state.stop /\ new.resume = state.resume
               /\ new.rest = state.rest /\ new.cursor = state.cursor
               /\ new.head = state.head
               /\ new.boundary
                     => state.boundary \/ (seen[i] = "existing" /\ i \notin exclusions)
               /\ ~new.active => new.stop /\ new.boundary
               /\ LET done == [new EXCEPT !.head = NoItem]
                  IN  /\ done.stop = state.stop /\ done.resume = state.resume
                      /\ done.rest = state.rest /\ done.head = NoItem
                      /\ done.active = new.active /\ done.boundary = new.boundary
<1> DEFINE boundary == state.boundary
                        \/ (seen[i] = "existing" /\ state.stop /\ i \notin exclusions)
           scanned == state.scanned + 1
           active == ~(state.stop /\ boundary /\ scanned >= PageSize)
<1>1. state \in Scans /\ state.boundary \in BOOLEAN
  BY ScanFields
<1>2. Noted(state, i) = [state EXCEPT !.boundary = boundary, !.scanned = scanned,
                                      !.active = active]
  BY DEF Noted
<1>3. /\ boundary => state.boundary \/ (seen[i] = "existing" /\ i \notin exclusions)
      /\ ~active => state.stop /\ boundary
  OBVIOUS
<1> HIDE DEF boundary, scanned, active
<1> QED
  BY <1>1, <1>2, <1>3 DEF Scans

LEMMA OpenFields ==
    ASSUME NEW rest, NEW stop, NEW resume
    PROVE  LET new == Open(rest, stop, resume)
           IN  /\ new.active /\ new.head = NoItem /\ new.rest = rest
               /\ new.stop = stop /\ new.resume = resume /\ ~new.boundary
BY DEF Open

LEMMA ShownSuffix ==
    ASSUME published \in Nat, NEW s \in Sources
    PROVE  Suffix(Shown(s), s) /\ Shown(s) = Old \cap List(s)
<1>1. \A i \in List(s) : i \in Nat /\ i \in Items
  BY ItemsAreNumbers DEF List, Items
<1> QED
  BY <1>1 DEF Suffix, Shown, Under, Old

(* A run opens both lists at their top. *)
LEMMA OpenFeedSkip == TypeInv /\ SkipInv /\ OpenFeed => SkipInv'
<1> SUFFICES ASSUME TypeInv, SkipInv, OpenFeed PROVE SkipInv'
  OBVIOUS
<1>0. /\ pc = "stories" /\ pc' = "load" /\ todo' = Sources
      /\ scan' = [s \in Sources |-> Fresh(s)]
      /\ opened' = UNION {Shown(s) : s \in Sources}
      /\ UNCHANGED <<published, have, checkpoint, exclusions, seen, Dealt, caught, direct>>
  BY SameDealt DEF OpenFeed
<1>1. /\ published \in Nat /\ DOMAIN scan = {} /\ have \subseteq Old
      /\ \A i \in Items : seen[i] = "none"
      /\ \A s \in Sources : Cursor(s) /\ Settled(s) /\ checkpoint[s].below \subseteq Old
  BY <1>0, SourceFacts DEF SkipInv, Records, Running
<1>2. Old' = Old /\ \A s \in Sources : Marks(s)' = Marks(s)
  BY <1>0 DEF Old, Marks
<1>3. opened' = Old
  <2>1. Items = List("reels") \cup List("posts")
    BY DEF Items, List
  <2> QED
    BY <1>0, <1>1, <2>1, ShownSuffix DEF Old, Sources
<1>4. ASSUME NEW s \in Sources
      PROVE  /\ scan'[s].active /\ scan'[s].head = NoItem /\ scan'[s].rest = Old \cap List(s)
             /\ scan'[s].stop = Bounded(s) /\ scan'[s].resume = checkpoint[s].stored
             /\ ~scan'[s].boundary
             /\ Suffix(scan'[s].rest, s)
  BY <1>0, <1>1, OpenFields, ShownSuffix DEF Fresh, Bounded
<1>5. ASSUME NEW s \in Sources PROVE SourceInv(s)'
  <2>1. Pending(s)' = Old \cap List(s)
    BY <1>4 DEF Pending
  <2>2. \A i \in Marks(s) : Under(i, s) \subseteq Old
    <3>1. \A i \in Items : i \in Nat
      BY ItemsAreNumbers
    <3> QED
      BY <1>1, <3>1 DEF Marks, Under, Old, List, Items
  <2>3. Shape(s)'
    BY <1>4 DEF Shape
  <2>4. Place(s)'
    BY <1>0, <1>4 DEF Place
  <2>5. Covered(s)'
    BY <1>0, <1>1, <1>2, <1>3, <2>1, <2>2 DEF Covered, Cursor, Suffix, Under
  <2>6. Bounded(s)' = Bounded(s) /\ Known(s)' = Known(s)
    BY <1>0 DEF Bounded, Known
  <2>7. Reach(s)' = Known(s)
    BY <1>0, <1>1, <1>4 DEF Reach, Known, Cursor
  <2>8. Stopping(s)'
    BY <1>0, <1>1, <1>2, <1>4, <2>6, <2>7 DEF Stopping, Settled
  <2> QED
    BY <1>0, <1>1, <2>3, <2>4, <2>5, <2>8 DEF SourceInv, OfPass, Cursor
<1>6. Records'
  BY <1>0, <1>2, <1>3 DEF SkipInv, Records, Running
<1>7. Opened'
  <2>1. \A i \in Items : i \in Nat
    BY ItemsAreNumbers
  <2>2. exclusions \subseteq Old
    BY DEF SkipInv, Records
  <2> QED
    BY <1>0, <1>1, <1>3, <2>1, <2>2 DEF Opened, Old
<1>8. Shared'
  <2>1. DOMAIN scan' = Sources
    BY <1>0
  <2> QED
    BY <1>0, <1>1, <1>3, <1>4, <2>1 DEF Shared, Pending
<1> QED
  BY <1>5, <1>6, <1>7, <1>8 DEF SkipInv

(* Reading on: the new head is the first of what was left. *)
LEMMA LoadHeadSkip ==
    ASSUME Calm, TypeInv, SkipInv, NEW s \in Sources, LoadHead(s)
    PROVE  SkipInv'
<1>0. /\ pc = "load" /\ s \in todo /\ todo' = todo \ {s}
      /\ scan' = [scan EXCEPT ![s] = WithHead(scan[s])]
      /\ pc' = IF todo' = {} THEN "take" ELSE "load"
      /\ UNCHANGED <<published, have, checkpoint, exclusions, seen, opened, Dealt, caught, direct>>
  BY SameDealt DEF LoadHead, Turn
<1>1. /\ s \in DOMAIN scan /\ published \in Nat
      /\ \A t \in DOMAIN scan : t \in Sources /\ OfPass(t) /\ scan[t] \in OldScans
  BY <1>0, SourceFacts
<1>2. DOMAIN scan' = DOMAIN scan /\ \A t \in DOMAIN scan \ {s} : scan'[t] = scan[t]
  BY <1>0
<1>3. scan'[s] = WithHead(scan[s])
  BY <1>0, <1>1
<1> DEFINE old == scan[s]
           new == scan'[s]
<1>4. Shape(s) /\ Place(s) /\ Covered(s) /\ Stopping(s) /\ Cursor(s)
  BY <1>0, <1>1 DEF OfPass, SkipInv, SourceInv
<1>5. Suffix(old.rest, s) /\ (old.head = NoItem \/ old.head \in Dealt)
  BY <1>0, <1>4 DEF Shape, Place
<1>6. /\ new.stop = old.stop /\ new.resume = old.resume /\ new.boundary = old.boundary
      /\ old.rest = {} => new.rest = {} /\ new.head = NoItem /\ ~new.active
      /\ old.rest # {} => /\ new.active = old.active
                          /\ new.head \in old.rest /\ new.head # NoItem
                          /\ new.rest = Under(new.head, s)
                          /\ new.cursor = old.rest
                          /\ old.rest = new.rest \cup {new.head}
  BY <1>1, <1>3, <1>5, WithHeadFields
<1>7. /\ Dealt \cup Pending(s)' = Dealt \cup Pending(s)
      /\ Pending(s)' \subseteq Pending(s)
      /\ new.rest \subseteq old.rest
  BY <1>5, <1>6 DEF Pending
<1>8. Bounded(s)' = Bounded(s) /\ Reach(s)' = Reach(s) /\ Marks(s)' = Marks(s)
  BY <1>0, <1>6 DEF Bounded, Reach, Known, Marks
<1>9. Shape(s)'
  <2>1. Suffix(new.rest, s)
    <3>1. \A j \in List(s) : j \in Nat
      BY ItemsAreNumbers DEF List, Items
    <3>2. new.rest = {} \/ (new.head \in List(s) /\ new.rest = Under(new.head, s))
      BY <1>5, <1>6 DEF Suffix
    <3> QED
      BY <3>1, <3>2 DEF Suffix, Under
  <2>2. CASE old.rest = {}
    BY <1>0, <1>6, <2>1, <2>2 DEF Shape
  <2>3. CASE old.rest # {}
    <3>1. new.head \in Old' /\ new.head \in List(s)
      BY <1>0, <1>1, <1>5, <1>6, <2>3 DEF Suffix, OldScans, Old
    <3>2. new.cursor = Pending(s)'
      BY <1>6, <2>3 DEF Pending
    <3>3. new.active
      BY <1>0, <1>4, <1>6, <2>3 DEF Place
    <3> QED
      BY <1>6, <2>1, <2>3, <3>1, <3>2, <3>3 DEF Shape
  <2> QED
    BY <2>2, <2>3
<1>10. Place(s)'
  BY <1>0, <1>6 DEF Place
<1>11. Covered(s)'
  BY <1>0, <1>4, <1>7, <1>8 DEF Covered
<1>12. Stopping(s)'
  BY <1>0, <1>4, <1>6, <1>7, <1>8 DEF Stopping
<1>13. SourceInv(s)'
  BY <1>0, <1>1, <1>2, <1>4, <1>9, <1>10, <1>11, <1>12 DEF SourceInv, OfPass, Cursor
<1>14. ASSUME NEW t \in Sources, t # s PROVE SourceInv(t)'
  <2>1. SourceInv(t) /\ Marks(t)' = Marks(t) /\ Old' = Old
    BY <1>0 DEF SkipInv, Marks, Old
  <2>2. /\ Cursor(t)'
        /\ t \in DOMAIN scan => Shape(t)' /\ Covered(t)' /\ (Stopping(t) => Stopping(t)')
        /\ t \notin DOMAIN scan => Settled(t)'
    BY <1>0, <1>2, <1>14, <2>1, Untouched
  <2>3. t \in DOMAIN scan => Place(t)'
    BY <1>0, <1>1, <1>2, <1>14 DEF OfPass, Place
  <2> QED
    BY <1>0, <1>1, <1>2, <2>2, <2>3 DEF SourceInv, OfPass
<1>15. Records' /\ Opened'
  <2>1. Running /\ Running' /\ Old' = Old
    BY <1>0 DEF Running, Old
  <2> QED
    BY <1>0, <2>1 DEF SkipInv, Records, Opened
<1>16. Shared'
  <2>1. Running
    BY <1>0 DEF Running
  <2>2. \A t \in DOMAIN scan \ {s} : Pending(t)' = Pending(t)
    BY <1>2 DEF Pending
  <2> QED
    BY <1>0, <1>1, <1>2, <1>7, <2>1, <2>2 DEF SkipInv, Shared
<1> QED
  BY <1>13, <1>14, <1>15, <1>16 DEF SkipInv

(* A page that is refused: the list stays where it is. *)
LEMMA FailLoadSkip ==
    ASSUME TypeInv, SkipInv, NEW s \in Sources, FailLoad(s)
    PROVE  SkipInv'
<1>0. /\ pc = "load" /\ s \in todo /\ todo' = Active /\ pc' = "freeze"
      /\ scan' = [scan EXCEPT ![s].cursor = scan[s].rest]
      /\ UNCHANGED <<published, have, checkpoint, exclusions, seen, opened, Dealt, caught, direct>>
  BY SameDealt DEF FailLoad, Turn
<1>1. /\ s \in DOMAIN scan
      /\ \A t \in DOMAIN scan : /\ t \in Sources /\ OfPass(t) /\ scan[t] \in OldScans
                                /\ scan[t].active \in BOOLEAN
  BY <1>0, SourceFacts
<1>2. DOMAIN scan' = DOMAIN scan /\ \A t \in DOMAIN scan \ {s} : scan'[t] = scan[t]
  BY <1>0
<1>3. /\ scan'[s].cursor = scan[s].rest /\ scan'[s].rest = scan[s].rest
      /\ scan'[s].head = scan[s].head /\ scan'[s].active = scan[s].active
      /\ scan'[s].stop = scan[s].stop
  BY <1>0, <1>1 DEF OldScans, Scans
<1>4. \A t \in DOMAIN scan : Pending(t)' = Pending(t)
  BY <1>2, <1>3 DEF Pending
<1>5. ASSUME NEW t \in DOMAIN scan PROVE SourceInv(t)'
  <2>1. Cursor(t) /\ Shape(t) /\ Place(t) /\ Covered(t) /\ Stopping(t)
    BY <1>0, <1>1 DEF SkipInv, SourceInv, OfPass
  <2>2. Shape(t)'
    <3>1. CASE t # s
      BY <1>0, <1>2, <1>4, <2>1, <3>1 DEF Shape, Old
    <3>2. CASE t = s
      BY <1>0, <1>3, <1>4, <2>1, <3>2 DEF Shape, Place, Old
    <3> QED
      BY <3>1, <3>2
  <2>3. Place(t)'
    BY <1>0 DEF Place
  <2>4. Covered(t)'
    BY <1>0, <1>4, <2>1 DEF Covered, Marks
  <2>5. t \notin todo' => Freezing(t)'
    <3>1. ~scan[t].active => Pending(t) \subseteq Reach(t)
      BY <2>1 DEF Shape, Stopping, Pending
    <3> QED
      BY <1>0, <1>4, <3>1 DEF Active, Freezing, Reach, Known, Bounded
  <2> QED
    BY <1>0, <1>2, <2>1, <2>2, <2>3, <2>4, <2>5 DEF SourceInv, OfPass, Cursor
<1>6. ASSUME NEW t \in Sources, t \notin DOMAIN scan PROVE SourceInv(t)'
  <2>1. SourceInv(t) /\ Marks(t)' = Marks(t) /\ Old' = Old
    BY <1>0 DEF SkipInv, Marks, Old
  <2> QED
    BY <1>0, <1>2, <1>6, <2>1, Untouched DEF SourceInv
<1>7. Running /\ Running' /\ Old' = Old
  BY <1>0 DEF Running, Old
<1>8. Records' /\ Opened'
  BY <1>0, <1>7 DEF SkipInv, Records, Opened
<1>9. Shared'
  BY <1>0, <1>2, <1>4, <1>7 DEF SkipInv, Shared
<1> QED
  BY <1>5, <1>6, <1>8, <1>9 DEF SkipInv

(* An item is dealt with.  What lies below one that is saved is still to   *)
(* come, in its own list by the order of the list; in the other, because   *)
(* the run opened both at once.                                            *)
LEMMA ProcessSkip ==
    ASSUME Calm, TypeInv, SkipInv, NEW outcome \in Outcomes, Process(outcome)
    PROVE  SkipInv'
<1> DEFINE i == scan[picked].head
<1>0. /\ pc = "process" /\ pc' = "note"
      /\ outcome \in IF i \in have THEN {"existing"} ELSE {"saved", "warning"}
      /\ have' = IF outcome = "saved" THEN have \cup {i} ELSE have
      /\ seen' = [seen EXCEPT ![i] = outcome]
      /\ Dealt' = Dealt \cup {i}
      /\ UNCHANGED <<published, direct, scan, todo, picked, opened, checkpoint, exclusions,
                     caught>>
  BY DEF Process, Dealt, Hidden
<1>1. /\ picked \in DOMAIN scan /\ i \in Items /\ i # NoItem
      /\ \A t \in DOMAIN scan : t \in Sources /\ OfPass(t)
  BY <1>0, ItemsAreNumbers, SourceFacts DEF TypeInv, HandInv
<1>2. /\ i \in Old /\ i \in List(picked) /\ scan[picked].rest = Under(i, picked)
      /\ seen \in [Items -> Outcomes] /\ seen[i] = "none"
  BY <1>0, <1>1 DEF OfPass, Shape, TypeInv, TypeOK, SkipInv, Records
<1>3. Old' = Old /\ Running /\ Running'
  BY <1>0 DEF Old, Running
<1> HIDE DEF i
<1>4. /\ seen'[i] = outcome /\ \A j \in Items \ {i} : seen'[j] = seen[j]
      /\ outcome \in {"existing", "saved", "warning"}
      /\ outcome = "existing" => i \in have
  BY <1>0, <1>1, <1>2
<1>5. Records'
  <2>1. have' \subseteq Old' /\ caught' \subseteq Dealt'
    BY <1>0, <1>2, <1>3 DEF SkipInv, Records
  <2>2. \A j \in Items : /\ seen'[j] # "none" => j \in Dealt'
                         /\ seen'[j] = "existing" => j \in have'
    BY <1>0, <1>4 DEF SkipInv, Records
  <2>3. seen'[scan'[picked'].head] # "none"
    BY <1>0, <1>4 DEF i
  <2> QED
    BY <1>0, <1>3, <2>1, <2>2, <2>3 DEF SkipInv, Records
<1>6. Opened' /\ Shared'
  BY <1>0, <1>3 DEF SkipInv, Opened, Shared, Pending
<1>7. ASSUME NEW t \in Sources, i \in List(t)
      PROVE  /\ t \in DOMAIN scan => Under(i, t) \subseteq Dealt \cup Pending(t)
             /\ t \notin DOMAIN scan => Under(i, t) \subseteq Dealt
  <2>1. CASE t = picked
    BY <1>1, <1>2, <2>1 DEF Pending
  <2>2. CASE t # picked
    <3>1. i \in Posts \cap Reels
      BY <1>1, <1>2, <1>7, <2>2 DEF List, Sources
    <3>2. i \in opened
      BY <1>1, <1>3, <3>1 DEF SkipInv, Shared, Pending, i
    <3>3. Under(i, t) \subseteq opened \cap List(t)
      BY <3>2 DEF SkipInv, Opened, Under, List, Items
    <3> QED
      BY <1>1, <3>3 DEF OfPass, Covered, SkipInv, SourceInv, Settled
  <2> QED
    BY <2>1, <2>2
<1>8. ASSUME NEW t \in Sources PROVE SourceInv(t)'
  <2>1. ASSUME NEW j \in Marks(t)'
        PROVE  \/ /\ j \in Marks(t)
                  /\ seen'[j] \in {"none", "existing"} => seen[j] \in {"none", "existing"}
               \/ /\ seen'[j] \notin {"none", "existing"}
                  /\ t \in DOMAIN scan => Under(j, t) \subseteq Dealt \cup Pending(t)
                  /\ t \notin DOMAIN scan => Under(j, t) \subseteq Dealt
    <3>1. j \in have' /\ j \in List(t) /\ j \notin exclusions
      BY <1>0, <2>1 DEF Marks
    <3>2. j \in Items
      BY <3>1 DEF List, Items
    <3>3. CASE j = i
      BY <1>0, <1>2, <1>4, <1>7, <3>1, <3>3 DEF Marks
    <3>4. CASE j # i
      BY <1>0, <1>4, <3>1, <3>2, <3>4 DEF Marks
    <3> QED
      BY <3>3, <3>4
  <2>2. SourceInv(t)
    BY DEF SkipInv
  <2>3. /\ Cursor(t)'
        /\ t \in DOMAIN scan => Shape(t)' /\ Covered(t)' /\ (Stopping(t) => Stopping(t)')
        /\ t \notin DOMAIN scan => Settled(t)'
    BY <1>0, <1>3, <2>1, <2>2, Untouched
  <2>4. t \in DOMAIN scan => Place(t)'
    BY <1>0, <1>1 DEF OfPass, Place
  <2> QED
    BY <1>0, <1>1, <2>3, <2>4 DEF SourceInv, OfPass
<1> QED
  BY <1>5, <1>6, <1>8 DEF SkipInv

(* A boundary ends a list: below an item the library had there is nothing  *)
(* left, or only what the stored cursor leads to.  And a page that is      *)
(* saved leads to all the cursor before it did.                            *)
LEMMA NoteSkip ==
    ASSUME TypeInv, SkipInv, NEW s \in Sources, picked = s, Note
    PROVE  SkipInv'
<1> DEFINE old == scan[s]
           i == old.head
           noted == Noted(old, i)
           done == [noted EXCEPT !.head = NoItem]
           new == scan'[s]
<1>0. /\ pc = "note"
      /\ scan' = [scan EXCEPT ![s] = IF noted.active THEN noted ELSE done]
      /\ \/ checkpoint' = checkpoint
         \/ noted.active /\ checkpoint' = [checkpoint EXCEPT ![s] = Frozen(noted.rest)]
      /\ todo' = IF noted.active THEN {s} ELSE {}
      /\ pc' = IF noted.active THEN "load" ELSE "take"
      /\ UNCHANGED <<published, have, exclusions, seen, opened, Dealt, caught, direct>>
  BY SameDealt DEF Note
<1>1. /\ s \in DOMAIN scan /\ i \in Items /\ i # NoItem
      /\ old \in OldScans
      /\ \A t \in DOMAIN scan : t \in Sources /\ OfPass(t)
      /\ checkpoint \in [Sources -> OldCheckpoints]
  BY <1>0, ItemsAreNumbers, SourceFacts DEF TypeInv, HandInv, ListsInv
<1>2. /\ Shape(s) /\ Place(s) /\ Covered(s) /\ Stopping(s)
      /\ Cursor(s)
  BY <1>0, <1>1 DEF OfPass, SkipInv, SourceInv
<1>2a. i # direct
  BY <1>0, <1>1, TypesSplit DEF TypeInv, Bonds
<1>3. /\ i \in Dealt /\ (seen[i] = "existing" => i \in have)
      /\ i \in Old /\ i \in List(s) /\ old.rest = Under(i, s)
      /\ old.active
  BY <1>0, <1>1, <1>2, SourceFacts DEF SkipInv, Records, Shape
<1>4. /\ noted.stop = old.stop /\ noted.resume = old.resume
      /\ noted.rest = old.rest /\ noted.cursor = old.cursor /\ noted.head = i
      /\ noted.boundary => old.boundary \/ (seen[i] = "existing" /\ i \notin exclusions)
      /\ ~noted.active => noted.stop /\ noted.boundary
      /\ done.stop = old.stop /\ done.resume = old.resume
      /\ done.rest = old.rest /\ done.head = NoItem
      /\ done.active = noted.active /\ done.boundary = noted.boundary
  BY <1>1, NotedFields
<1> HIDE DEF noted, done, i
<1>5. new = IF noted.active THEN noted ELSE done
  BY <1>0, <1>1
<1>6. /\ new.stop = old.stop /\ new.resume = old.resume /\ new.rest = old.rest
      /\ new.active = noted.active /\ new.boundary = noted.boundary
      /\ IF noted.active THEN new.head = i /\ new.cursor = old.cursor
         ELSE new.head = NoItem /\ new.stop /\ new.boundary
  BY <1>4, <1>5
<1>7. DOMAIN scan' = DOMAIN scan /\ \A t \in DOMAIN scan \ {s} : scan'[t] = scan[t]
  BY <1>0
<1>8. \A t \in Sources \ {s} : checkpoint'[t] = checkpoint[t]
  BY <1>0, <1>1
<1>9. \/ checkpoint'[s] = checkpoint[s]
      \/ checkpoint'[s].stored /\ checkpoint'[s].below = old.rest
  BY <1>0, <1>1, <1>4 DEF Frozen
<1>10. /\ Dealt \cup Pending(s)' = Dealt \cup Pending(s)
       /\ Pending(s)' \subseteq Pending(s)
       /\ Pending(s) \ Dealt \subseteq old.rest
  BY <1>3, <1>6 DEF Pending, i
<1>11. Known(s) \subseteq Known(s)'
  BY <1>0, <1>2, <1>9, <1>10 DEF Known, Covered
<1>12. Reach(s) \subseteq Reach(s)'
  BY <1>0, <1>6, <1>11 DEF Reach
<1>13. Bounded(s) => Bounded(s)'
  BY <1>9 DEF Bounded
<1>14. \A t \in Sources : Marks(t)' = Marks(t)
  BY <1>0 DEF Marks
<1>15. Old' = Old /\ Running /\ Running'
  BY <1>0 DEF Old, Running
<1>16. Cursor(s)'
  BY <1>2, <1>3, <1>9 DEF Cursor, Shape
<1>17. Shape(s)'
  <2>1. CASE noted.active
    <3>1. Pending(s)' = Pending(s)
      BY <1>6, <2>1 DEF Pending, i
    <3> QED
      BY <1>0, <1>2, <1>3, <1>6, <1>15, <2>1, <3>1 DEF Shape, i
  <2>2. CASE ~noted.active
    BY <1>2, <1>6, <2>2 DEF Shape
  <2> QED
    BY <2>1, <2>2
<1>18. Place(s)'
  BY <1>0, <1>3, <1>6 DEF Place
<1>19. Covered(s)'
  BY <1>0, <1>2, <1>9, <1>10, <1>14 DEF Covered, Pending
<1>20. Stopping(s)'
  <2>1. old.resume => checkpoint'[s].stored
    BY <1>2, <1>9 DEF Stopping
  <2>2. new.stop /\ new.boundary => old.rest \subseteq Reach(s)'
    <3>1. CASE old.boundary
      BY <1>2, <1>6, <1>12, <3>1 DEF Stopping
    <3>2. CASE ~old.boundary
      <4>1. new.boundary => i \in Marks(s) /\ seen[i] = "existing"
        BY <1>2a, <1>3, <1>4, <1>6, <3>2 DEF Marks
      <4> QED
        BY <1>2, <1>3, <1>6, <1>12, <4>1 DEF Stopping
    <3> QED
      BY <3>1, <3>2
  <2> QED
    BY <1>0, <1>2, <1>6, <1>12, <1>13, <1>14, <2>1, <2>2 DEF Stopping
<1>21. SourceInv(s)'
  BY <1>0, <1>1, <1>7, <1>16, <1>17, <1>18, <1>19, <1>20 DEF SourceInv, OfPass
<1>22. ASSUME NEW t \in Sources, t # s PROVE SourceInv(t)'
  <2>1. SourceInv(t)
    BY DEF SkipInv
  <2>2. /\ Cursor(t)'
        /\ t \in DOMAIN scan => Shape(t)' /\ Covered(t)' /\ (Stopping(t) => Stopping(t)')
        /\ t \notin DOMAIN scan => Settled(t)'
    BY <1>0, <1>7, <1>8, <1>14, <1>15, <1>22, <2>1, Untouched
  <2>3. t \in DOMAIN scan => Place(t)'
    BY <1>0, <1>1, <1>7, <1>22 DEF OfPass, Place
  <2> QED
    BY <1>0, <1>1, <1>7, <2>2, <2>3 DEF SourceInv, OfPass
<1>23. Records' /\ Opened'
  BY <1>0, <1>15 DEF SkipInv, Records, Opened
<1>24. Shared'
  <2>1. \A t \in DOMAIN scan \ {s} : Pending(t)' = Pending(t)
    BY <1>7 DEF Pending
  <2>2. old.rest \subseteq Pending(s)
    BY DEF Pending
  <2> QED
    BY <1>0, <1>1, <1>7, <1>8, <1>9, <1>10, <1>15, <2>1, <2>2 DEF SkipInv, Shared
<1> QED
  BY <1>21, <1>22, <1>23, <1>24 DEF SkipInv

(* A list that was read to its end is marked: there is nothing below.      *)
LEMMA MarkSkip ==
    ASSUME TypeInv, SkipInv, NEW s \in Sources, MarkComplete(s)
    PROVE  SkipInv'
<1>0. /\ pc = "mark" /\ pc' = "mark" /\ s \in todo /\ todo' = todo \ {s}
      /\ checkpoint' = [checkpoint EXCEPT ![s] = Complete]
      /\ UNCHANGED <<published, scan, have, exclusions, seen, opened, Dealt, caught, direct>>
  BY SameDealt DEF MarkComplete, Turn
<1>1. /\ s \in DOMAIN scan
      /\ \A t \in DOMAIN scan : t \in Sources /\ OfPass(t)
      /\ checkpoint \in [Sources -> OldCheckpoints]
  BY <1>0, SourceFacts DEF TypeInv, ListsInv
<1>2. /\ checkpoint'[s].below = {} /\ checkpoint'[s].complete
      /\ \A t \in Sources \ {s} : checkpoint'[t] = checkpoint[t]
  BY <1>0, <1>1 DEF Complete
<1>3. Old' = Old /\ Running /\ Running' /\ \A t \in Sources : Marks(t)' = Marks(t)
  BY <1>0 DEF Old, Running, Marks
<1>4. /\ Shape(s) /\ Covered(s)
      /\ ~scan[s].active /\ ~scan[s].stop /\ ~scan[s].resume
  BY <1>0, <1>1 DEF OfPass, Place
<1>5. SourceInv(s)'
  <2>1. Cursor(s)'
    BY <1>2 DEF Cursor, Suffix
  <2>2. Shape(s)'
    BY <1>0, <1>3, <1>4 DEF Shape, Pending
  <2>3. Place(s)'
    BY <1>0, <1>4 DEF Place
  <2>4. Covered(s)'
    BY <1>0, <1>2, <1>3, <1>4 DEF Covered, Pending
  <2>5. Stopping(s)'
    BY <1>0, <1>4 DEF Stopping, Shape
  <2> QED
    BY <1>0, <1>1, <2>1, <2>2, <2>3, <2>4, <2>5 DEF SourceInv, OfPass
<1>6. ASSUME NEW t \in Sources, t # s PROVE SourceInv(t)'
  <2>1. SourceInv(t)
    BY DEF SkipInv
  <2>2. /\ Cursor(t)'
        /\ t \in DOMAIN scan => Shape(t)' /\ Covered(t)' /\ (Stopping(t) => Stopping(t)')
        /\ t \notin DOMAIN scan => Settled(t)'
    BY <1>0, <1>2, <1>3, <1>6, <2>1, Untouched
  <2>3. t \in DOMAIN scan => Place(t)'
    BY <1>0, <1>1, <1>6 DEF OfPass, Place
  <2> QED
    BY <1>0, <1>1, <2>2, <2>3 DEF SourceInv, OfPass
<1>7. Records' /\ Opened'
  BY <1>0, <1>3 DEF SkipInv, Records, Opened
<1>8. Shared'
  BY <1>0, <1>2, <1>3 DEF SkipInv, Shared, Pending
<1> QED
  BY <1>5, <1>6, <1>7, <1>8 DEF SkipInv

(* A frozen list leads to all that is left of it; or it is as if it had    *)
(* never been read.                                                        *)
LEMMA FreezeSkip ==
    ASSUME TypeInv, SkipInv, NEW s \in Sources, Freeze(s)
    PROVE  SkipInv'
<1> DEFINE below == IF scan[s].head # NoItem THEN scan[s].cursor ELSE scan[s].rest
<1>0. /\ pc = "freeze" /\ pc' = "freeze" /\ s \in todo /\ todo' = todo \ {s}
      /\ checkpoint' \in {[checkpoint EXCEPT ![s] = Frozen(below)],
                          [checkpoint EXCEPT ![s] = NoCheckpoint]}
      /\ UNCHANGED <<published, scan, have, exclusions, seen, opened, Dealt, caught, direct>>
  BY SameDealt DEF Freeze, Turn
<1>1. /\ s \in DOMAIN scan
      /\ \A t \in DOMAIN scan : t \in Sources /\ OfPass(t)
      /\ checkpoint \in [Sources -> OldCheckpoints]
  BY <1>0, SourceFacts DEF TypeInv, ListsInv
<1>2. Shape(s) /\ Covered(s)
  BY <1>1 DEF OfPass
<1>3. /\ Suffix(below, s) /\ below \subseteq Pending(s)
      /\ Pending(s) \subseteq Dealt \cup below
  <2>1. CASE scan[s].head = NoItem
    BY <1>2, <2>1 DEF Shape, Pending
  <2>2. CASE scan[s].head # NoItem
    <3>1. Suffix(Pending(s), s)
      BY <1>2, <2>2 DEF Shape, Pending, Suffix
    <3> QED
      BY <1>2, <2>2, <3>1 DEF Shape, Pending
  <2> QED
    BY <2>1, <2>2
<1> HIDE DEF below
<1>4. /\ \/ checkpoint'[s].stored /\ checkpoint'[s].below = below
         \/ /\ checkpoint'[s].below = {}
            /\ ~checkpoint'[s].stored /\ ~checkpoint'[s].complete
      /\ \A t \in Sources \ {s} : checkpoint'[t] = checkpoint[t]
  BY <1>0, <1>1 DEF Frozen, NoCheckpoint
<1>5. Old' = Old /\ Running /\ Running' /\ \A t \in Sources : Marks(t)' = Marks(t)
  BY <1>0 DEF Old, Running, Marks
<1>6. SourceInv(s)'
  <2>1. Cursor(s)'
    BY <1>3, <1>4 DEF Cursor, Suffix
  <2>2. Shape(s)' /\ Pending(s)' = Pending(s)
    BY <1>0, <1>2, <1>5 DEF Shape, Pending
  <2>3. Place(s)'
    BY <1>0 DEF Place
  <2>4. Covered(s)'
    BY <1>0, <1>2, <1>3, <1>4, <1>5, <2>2 DEF Covered
  <2>5. Freezing(s)'
    BY <1>0, <1>3, <1>4, <2>2 DEF Freezing, Bounded, Known
  <2> QED
    BY <1>0, <1>1, <2>1, <2>2, <2>3, <2>4, <2>5 DEF SourceInv, OfPass
<1>7. ASSUME NEW t \in Sources, t # s PROVE SourceInv(t)'
  <2>1. SourceInv(t)
    BY DEF SkipInv
  <2>2. /\ Cursor(t)'
        /\ t \in DOMAIN scan => Shape(t)' /\ Covered(t)' /\ (Freezing(t) => Freezing(t)')
        /\ t \notin DOMAIN scan => Settled(t)'
    BY <1>0, <1>4, <1>5, <1>7, <2>1, Untouched
  <2>3. Place(t)'
    BY <1>0 DEF Place
  <2>4. t \in todo <=> t \in todo'
    BY <1>0, <1>7
  <2> QED
    BY <1>0, <1>1, <2>2, <2>3, <2>4 DEF SourceInv, OfPass
<1>8. Records' /\ Opened'
  BY <1>0, <1>5 DEF SkipInv, Records, Opened
<1>9. Shared'
  <2>1. \A t \in Sources : Pending(t)' = Pending(t)
    BY <1>0 DEF Pending
  <2> QED
    BY <1>0, <1>1, <1>3, <1>4, <1>5, <2>1 DEF SkipInv, Shared
<1> QED
  BY <1>6, <1>7, <1>8, <1>9 DEF SkipInv

(* The historical pass takes a list up where its cursor is, and what the   *)
(* recent one left of it lies below; or it reads the list from its top.    *)
LEMMA ThawSkip ==
    ASSUME Calm, TypeInv, SkipInv, NEW s \in Sources, Thaw(s)
    PROVE  SkipInv'
<1> DEFINE new == scan'[s]
<1>0. /\ pc = "thaw" /\ pc' = "thaw" /\ s \in todo /\ todo' = todo \ {s}
      /\ \/ /\ scan' = [scan EXCEPT ![s] = Historical(s, TRUE)]
            /\ checkpoint' = checkpoint
         \/ /\ failures < MaxFailures
            /\ scan' = [scan EXCEPT ![s] = Historical(s, FALSE)]
            /\ checkpoint' = [checkpoint EXCEPT ![s] = NoCheckpoint]
      /\ UNCHANGED <<published, have, exclusions, seen, opened, Dealt, caught, direct>>
  BY SameDealt DEF Thaw, Turn
<1>1. /\ s \in DOMAIN scan /\ published \in Nat
      /\ \A t \in DOMAIN scan : t \in Sources /\ OfPass(t)
      /\ checkpoint \in [Sources -> OldCheckpoints] /\ Cursor(s)
  BY <1>0, SourceFacts DEF TypeInv, ListsInv
<1>2. /\ DOMAIN scan' = DOMAIN scan /\ \A t \in DOMAIN scan \ {s} : scan'[t] = scan[t]
      /\ \A t \in Sources \ {s} : checkpoint'[t] = checkpoint[t]
  BY <1>0, <1>1
<1>3. /\ new.active /\ new.head = NoItem /\ ~new.stop /\ ~new.resume /\ ~new.boundary
      /\ \/ /\ checkpoint' = checkpoint
            /\ new.rest = checkpoint[s].below
         \/ /\ failures < MaxFailures
            /\ checkpoint'[s].below = {}
            /\ new.rest = Old \cap List(s)
  <2>1. CASE scan' = [scan EXCEPT ![s] = Historical(s, TRUE)] /\ checkpoint' = checkpoint
    <3>1. new = Open(checkpoint[s].below, FALSE, FALSE)
      BY <1>1, <2>1 DEF Historical
    <3>2. LET o == Open(checkpoint[s].below, FALSE, FALSE)
          IN  /\ o.active /\ o.head = NoItem /\ ~o.stop /\ ~o.resume /\ ~o.boundary
              /\ o.rest = checkpoint[s].below
      BY DEF Open
    <3> QED
      BY <2>1, <3>1, <3>2
  <2>2. CASE /\ failures < MaxFailures
             /\ scan' = [scan EXCEPT ![s] = Historical(s, FALSE)]
             /\ checkpoint' = [checkpoint EXCEPT ![s] = NoCheckpoint]
    <3>1. new = Open(Shown(s), FALSE, FALSE)
      BY <1>1, <2>2 DEF Historical
    <3>2. checkpoint'[s].below = {}
      BY <1>1, <2>2 DEF NoCheckpoint
    <3>3. LET o == Open(Shown(s), FALSE, FALSE)
          IN  /\ o.active /\ o.head = NoItem /\ ~o.stop /\ ~o.resume /\ ~o.boundary
              /\ o.rest = Shown(s)
      BY DEF Open
    <3>4. Shown(s) = Old \cap List(s)
      BY <1>1, ShownSuffix
    <3> QED
      BY <2>2, <3>1, <3>2, <3>3, <3>4
  <2> QED
    BY <1>0, <2>1, <2>2
<1>4. /\ Covered(s) /\ Stopping(s) /\ scan[s].resume /\ ~scan[s].active
      /\ scan[s].head = NoItem
  BY <1>0, <1>1 DEF OfPass, Place
<1>5. Old' = Old /\ Running /\ Running' /\ \A t \in Sources : Marks(t)' = Marks(t)
  BY <1>0 DEF Old, Running, Marks
<1>6. Pending(s) = scan[s].rest /\ Pending(s) \subseteq Known(s) /\ Pending(s)' = new.rest
  BY <1>3, <1>4 DEF Pending, Stopping, Reach
<1>7. SourceInv(s)'
  <2>1. Cursor(s)' /\ Suffix(new.rest, s)
    <3>1. Suffix(Old \cap List(s), s)
      BY <1>1, ShownSuffix
    <3> QED
      BY <1>1, <1>3, <3>1 DEF Cursor, Suffix
  <2>2. Shape(s)'
    BY <1>3, <2>1 DEF Shape
  <2>3. Place(s)'
    BY <1>0, <1>3 DEF Place
  <2>4. Covered(s)'
    <3>1. CASE new.rest = checkpoint[s].below /\ checkpoint' = checkpoint
      BY <1>0, <1>4, <1>5, <1>6, <3>1 DEF Covered, Known
    <3>2. CASE new.rest = Old \cap List(s) /\ checkpoint'[s].below = {}
      <4>1. \A j \in Items : j \in Nat
        BY ItemsAreNumbers
      <4>2. \A i \in Marks(s) : Under(i, s) \subseteq Old \cap List(s)
        BY <1>1, <4>1 DEF SkipInv, Records, Marks, Under, Old, List, Items
      <4>3. opened \cap List(s) \subseteq Old \cap List(s)
        BY DEF SkipInv, Records
      <4> QED
        BY <1>0, <1>5, <1>6, <3>2, <4>2, <4>3 DEF Covered
    <3> QED
      BY <1>3, <3>1, <3>2
  <2>5. Stopping(s)'
    BY <1>3 DEF Stopping
  <2> QED
    BY <1>0, <1>1, <1>2, <2>1, <2>2, <2>3, <2>4, <2>5 DEF SourceInv, OfPass
<1>8. ASSUME NEW t \in Sources, t # s PROVE SourceInv(t)'
  <2>1. SourceInv(t)
    BY DEF SkipInv
  <2>2. /\ Cursor(t)'
        /\ t \in DOMAIN scan => Shape(t)' /\ Covered(t)' /\ (Stopping(t) => Stopping(t)')
        /\ t \notin DOMAIN scan => Settled(t)'
    BY <1>0, <1>2, <1>5, <1>8, <2>1, Untouched
  <2>3. t \in DOMAIN scan => Place(t)'
    BY <1>0, <1>1, <1>2, <1>8 DEF OfPass, Place
  <2> QED
    BY <1>0, <1>1, <1>2, <2>2, <2>3 DEF SourceInv, OfPass
<1>9. Records' /\ Opened'
  BY <1>0, <1>2, <1>5 DEF SkipInv, Records, Opened
<1>10. Shared'
  <2>1. CASE Posts \cap Reels = {}
    BY <2>1 DEF Shared
  <2>2. CASE Posts \cap Reels # {}
    <3>1. ~(failures < MaxFailures)
      BY <2>2, SyncAssumption DEF Calm, TypeInv, TypeOK
    <3>2. /\ \A t \in DOMAIN scan : Pending(t) \subseteq opened
          /\ \A t \in Sources : checkpoint[t].below \subseteq opened
      BY <1>5, <2>2 DEF SkipInv, Shared
    <3>3. \A t \in DOMAIN scan \ {s} : Pending(t)' = Pending(t)
      BY <1>2 DEF Pending
    <3> QED
      BY <1>0, <1>2, <1>3, <1>6, <3>1, <3>2, <3>3 DEF Shared
  <2> QED
    BY <2>1, <2>2
<1> QED
  BY <1>7, <1>8, <1>9, <1>10 DEF SkipInv

(* The lists that are not taken up again are done.                         *)
LEMMA OpenHistorySkip ==
    ASSUME TypeInv, SkipInv, OpenHistory
    PROVE  SkipInv'
<1>0. /\ pc = "thaw" /\ pc' = "load" /\ todo = {} /\ todo' = Active
      /\ scan' = [s \in Active |-> scan[s]]
      /\ UNCHANGED <<published, have, checkpoint, exclusions, seen, opened, Dealt, caught, direct>>
  BY SameDealt DEF OpenHistory
<1>1. /\ Active \subseteq DOMAIN scan
      /\ \A t \in DOMAIN scan : t \in Sources /\ OfPass(t) /\ Cursor(t)
  BY SourceFacts DEF Active
<1>2. DOMAIN scan' = Active /\ \A t \in Active : scan'[t] = scan[t] /\ Pending(t)' = Pending(t)
  BY <1>0 DEF Pending
<1>3. Old' = Old /\ Running /\ Running' /\ \A t \in Sources : Marks(t)' = Marks(t)
  BY <1>0 DEF Old, Running, Marks
<1>4. ASSUME NEW t \in Active PROVE SourceInv(t)'
  <2>1. /\ t \in Sources /\ Cursor(t) /\ Shape(t) /\ Place(t) /\ Covered(t) /\ Stopping(t)
        /\ scan[t].active
    BY <1>0, <1>1 DEF OfPass, Active
  <2>2. Cursor(t)'
    BY <1>0, <2>1 DEF Cursor
  <2>3. Shape(t)'
    BY <1>0, <1>2, <1>3, <2>1 DEF Shape
  <2>4. Place(t)'
    BY <1>0, <1>2, <2>1 DEF Place
  <2>5. Covered(t)'
    BY <1>0, <1>2, <1>3, <2>1 DEF Covered
  <2>6. Reach(t)' = Reach(t) /\ Bounded(t)' = Bounded(t)
    BY <1>0, <1>2 DEF Reach, Known, Bounded
  <2>7. Stopping(t)'
    BY <1>0, <1>2, <1>3, <2>1, <2>6 DEF Stopping
  <2> QED
    BY <1>0, <1>2, <2>2, <2>3, <2>4, <2>5, <2>7 DEF SourceInv, OfPass
<1>5. ASSUME NEW t \in DOMAIN scan \ Active PROVE SourceInv(t)'
  <2>1. t \in Sources /\ Cursor(t) /\ Shape(t) /\ Covered(t) /\ Stopping(t)
    BY <1>0, <1>1 DEF OfPass
  <2>2. ~scan[t].active /\ ~scan[t].resume /\ scan[t].head = NoItem
    BY <1>0, <1>1, SourceFacts DEF OfPass, Place, Active
  <2>3. Pending(t) \subseteq Dealt
    BY <2>1, <2>2 DEF Stopping, Reach, Pending
  <2>4. Cursor(t)'
    BY <1>0, <2>1 DEF Cursor
  <2>5. Settled(t)'
    BY <1>0, <1>3, <2>1, <2>3 DEF Covered, Settled, Known
  <2> QED
    BY <1>2, <2>4, <2>5 DEF SourceInv
<1>6. ASSUME NEW t \in Sources \ DOMAIN scan PROVE SourceInv(t)'
  <2>1. SourceInv(t) /\ t \notin DOMAIN scan'
    BY <1>1, <1>2 DEF SkipInv
  <2> QED
    BY <1>0, <1>3, <2>1, Untouched DEF SourceInv
<1>7. Records' /\ Opened'
  BY <1>0, <1>3 DEF SkipInv, Records, Opened
<1>8. Shared'
  BY <1>0, <1>1, <1>2, <1>3 DEF SkipInv, Shared
<1> QED
  BY <1>4, <1>5, <1>6, <1>7, <1>8 DEF SkipInv

(* Between runs: what is downloaded directly is no boundary, or what it    *)
(* hides counts as looked at.                                              *)
LEMMA OthersSkip ==
    ASSUME Calm, TypeInv, SkipInv,
           \/ AddBoundaryExclusion \/ FailToExclude
           \/ \E i \in Items : SaveDirectly(i) \/ DeleteMedia(i)
    PROVE  SkipInv'
<1>0. /\ pc = "idle" /\ direct \in Items \cup {NoItem} /\ published \in Nat
      /\ UNCHANGED <<published, pc, scan, seen, opened, checkpoint, caught, todo>>
  BY TypesSplit
  DEF AddBoundaryExclusion, FailToExclude, SaveDirectly, DeleteMedia, TypeInv, TypeOK, InHand
<1>1. DOMAIN scan = {} /\ opened = {} /\ \A j \in Items : seen[j] = "none"
  BY <1>0 DEF SkipInv, Records, Running
<1>2. Old' = Old /\ Dealt \subseteq Dealt'
  BY <1>0, MoreDealt DEF Old, AddBoundaryExclusion, FailToExclude, SaveDirectly, DeleteMedia
<1>3. /\ have' \subseteq Old /\ exclusions' \subseteq Old
      /\ direct' # NoItem => direct' \in Old
  BY <1>0
  DEF AddBoundaryExclusion, FailToExclude, SaveDirectly, DeleteMedia, SkipInv, Records, Old
<1>4. Records'
  BY <1>0, <1>1, <1>2, <1>3 DEF SkipInv, Records, Old
<1>5. Opened' /\ Shared'
  BY <1>0, <1>1 DEF Opened, Shared, Running
<1>6. ASSUME NEW s \in Sources, NEW i \in Marks(s)'
      PROVE  i \in Marks(s) \/ Under(i, s) \subseteq Dealt'
  <2>1. CASE FailToExclude
    <3>1. i \in Marks(s) \/ i = direct
      BY <1>6, <2>1 DEF FailToExclude, Marks
    <3>2. ASSUME i = direct PROVE Under(i, s) \subseteq Hidden'
      <4>1. i \in unexcluded' /\ i \in List(s) /\ i \in Nat
        BY <1>6, <2>1, <3>2, ItemsAreNumbers DEF FailToExclude, Marks, List, Items
      <4>2. \A j \in Under(i, s) : j \in List(s) /\ j \in Items /\ j < i /\ j \in Nat
        BY ItemsAreNumbers DEF Under, List, Items
      <4>3. \A j \in Under(i, s) : Above(i, j)
        BY <4>1, <4>2 DEF Above, Calm
      <4> QED
        BY <4>1, <4>2, <4>3 DEF Hidden
    <3> QED
      BY <3>1, <3>2 DEF Dealt
  <2>2. CASE AddBoundaryExclusion
    BY <1>6, <2>2 DEF AddBoundaryExclusion, Marks
  <2>3. CASE \E x \in Items : SaveDirectly(x) \/ DeleteMedia(x)
    <3>1. i \in Items /\ i # NoItem
      BY <1>6, ItemsAreNumbers DEF Marks, List, Items
    <3> QED
      BY <1>6, <2>3, <3>1 DEF SaveDirectly, DeleteMedia, Marks
  <2> QED
    BY <2>1, <2>2, <2>3
<1>7. ASSUME NEW s \in Sources PROVE SourceInv(s)'
  <2>1. Cursor(s) /\ Settled(s)
    BY <1>1 DEF SkipInv, SourceInv
  <2>2. Cursor(s)'
    BY <1>0, <2>1 DEF Cursor
  <2>3. Known(s) \subseteq Known(s)' /\ Dealt' \subseteq Known(s)' /\ Bounded(s)' = Bounded(s)
    BY <1>0, <1>2 DEF Known, Bounded
  <2>4. Settled(s)'
    BY <1>0, <1>1, <1>6, <2>1, <2>3 DEF Settled
  <2> QED
    BY <1>0, <1>1, <2>2, <2>4 DEF SourceInv
<1> QED
  BY <1>4, <1>5, <1>7 DEF SkipInv

LEMMA NextSkip == Calm /\ TypeInv /\ SkipInv /\ [Next]_vars => SkipInv'
<1> SUFFICES ASSUME Calm, TypeInv, SkipInv, [Next]_vars PROVE SkipInv'
  OBVIOUS
<1>1. CASE UNCHANGED vars
  <2>1. UNCHANGED <<have, checkpoint, exclusions, scan, seen, opened, Dealt, caught, direct>>
    BY <1>1, SameDealt
  <2>2. \A s \in DOMAIN scan : Place(s)' /\ OfPass(s)
    BY <1>1, <2>1, SourceFacts DEF OfPass, Place
  <2>3. /\ pc = "process" => seen[scan[picked].head] = "none"
        /\ pc = "note" => seen[scan[picked].head] # "none"
    BY DEF SkipInv, Records
  <2>4. Old' = Old /\ Running' = Running
    BY <1>1 DEF Old, Running
  <2> QED
    BY <1>1, <2>1, <2>2, <2>3, <2>4, StillSkip DEF OfPass
<1>2. ~Kill
  BY DEF Kill, Calm, TypeInv, TypeOK
<1>3. Note => \E s \in Sources : picked = s
  BY DEF TypeInv, TypeOK
<1>4. CASE RunStep
  BY <1>3, <1>4, QuietSkip, EndSkip, OpenFeedSkip, NoteSkip, OpenHistorySkip, LoadHeadSkip,
     MarkSkip, ThawSkip, FreezeSkip, ProcessSkip, OthersSkip
  DEF RunStep
<1> QED
  BY <1>1, <1>2, <1>4, QuietSkip, EndSkip, FailLoadSkip, OthersSkip DEF Next

(* A run that completed has dealt with every item its lists held when it   *)
(* opened them, whatever was stopped, refused, frozen or reset before and  *)
(* whatever was published, downloaded directly or deleted meanwhile; but   *)
(* for what lies below a direct download whose exclusion failed.           *)
THEOREM NothingIsSkipped == ASSUME Calm PROVE Spec => []NothingSkipped
<1>1. SkipInv => NothingSkipped
  BY DEF SkipInv, Records, NothingSkipped, Dealt
<1>2. Init => TypeInv /\ SkipInv
  BY InitTypes, InitSkip
<1>3. TypeInv /\ SkipInv /\ [Next]_vars => TypeInv' /\ SkipInv'
  BY NextTypes, NextSkip
<1> QED
  BY <1>1, <1>2, <1>3, PTL DEF Spec

=============================================================================
