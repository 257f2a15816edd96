------------------------------ MODULE ProfileSync ------------------------------
(***************************************************************************)
(* Synchronization of one profile: which posts and reels a run looks at,   *)
(* where it stops, and what it leaves for the next run.                    *)
(*                                                                         *)
(*   instagram/profile_sync.py               ProfileSyncCoordinator        *)
(*   instagram/profile_sync_checkpoints.py   the checkpoints and boundary  *)
(*                                           exclusions it keeps           *)
(*   instagram/feed_manifest.py              the two lists it reads        *)
(*                                                                         *)
(* A run merges two lists of Instagram, posts and reels, newest first.  It *)
(* makes up to two passes: a recent one from the top of both lists, which  *)
(* may stop at media the library already has, and a historical one from    *)
(* where an earlier run was interrupted.                                   *)
(*                                                                         *)
(* Items are numbered in the order of their publication.  A list is read   *)
(* through a cursor, which is here the set of the items below it: what is  *)
(* published later goes on top, where an open cursor never looks.          *)
(*                                                                         *)
(* Simplifications:                                                        *)
(*  - runs, direct downloads and deletions of media are sequential, as the *)
(*    worker is; what the coordinator reports as progress is left out;     *)
(*  - items do not disappear from Instagram and pins do not change;        *)
(*  - a direct download that the worker was killed in runs again before    *)
(*    any other job, and comes back to where it was or fails.              *)
(***************************************************************************)
EXTENDS Naturals, FiniteSets

CONSTANTS Posts,       (* items of the posts list, all that will ever be   *)
          Reels,       (* items of the reels list                          *)
          Pinned,      (* items shown at the top whatever their age        *)
          PageSize,    (* _CHECKPOINT_PAGE_SIZE                            *)
          Backlog,     (* items 1..Backlog are there from the start        *)
          Burst,       (* bound: items published until a run completes     *)
          MaxStories,  (* bound: current stories of the profile            *)
          MaxFailures, (* bound: failures of items, lists, checkpoints and *)
                       (* exclusions                                       *)
          MaxKills,    (* bound: deaths of the worker in the middle of one *)
          MaxOthers    (* bound: direct downloads and deletions of media   *)

Sources == {"reels", "posts"}
Items == Posts \cup Reels
NoItem == 0

ASSUME SyncAssumption ==
    /\ Posts \subseteq Nat \ {NoItem}
    /\ Reels \subseteq Nat \ {NoItem}
    /\ Pinned \subseteq Items
    /\ PageSize \in Nat \ {0}
    /\ Backlog \in Nat
    /\ Burst \in Nat
    /\ MaxStories \in Nat
    /\ MaxFailures \in Nat
    /\ MaxKills \in Nat
    /\ MaxOthers \in Nat

VARIABLES
    published,  (* items up to this one are on Instagram                   *)
    have,       (* items with complete local media                         *)
    syncable,   (* the profile is active and tracked                       *)
    checkpoint, (* per source: is a cursor stored, which, backfill_complete*)
    exclusions, (* items downloaded directly, which are no boundary        *)
    pc,         (* what the run does next: Steps                           *)
    scan,       (* the _FeedState of each source of the pass               *)
    todo,       (* sources whose turn is still to come in this step        *)
    picked,     (* the source whose head is processed                      *)
    seen,       (* outcome of each item in this run                        *)
    stories,    (* stories left                                            *)
    opened,     (* items in the lists when the run opened them             *)
    direct,     (* an item just downloaded directly, not yet excluded      *)
    failures,
    kills,
    others,
    (* history *)
    tried,      (* items a run or a direct download has dealt with         *)
    caught,     (* items the last completed run had before it              *)
    late,       (* items begun since synchronization was switched off      *)
    unexcluded  (* items downloaded directly whose exclusion failed        *)

run     == <<pc, scan, todo, picked, seen, stories, opened>>
stored  == <<have, checkpoint, exclusions>>
mishaps == <<failures, kills, others>>
history == <<tried, caught, late, unexcluded>>
vars    == <<published, syncable, direct, run, stored, mishaps, history>>

-----------------------------------------------------------------------------
(* The lists.                                                              *)

List(s) == IF s = "reels" THEN Reels ELSE Posts

Shown(s) == {i \in List(s) : i =< published}

Above(i, j) ==
    \/ i \in Pinned /\ j \notin Pinned
    \/ (i \in Pinned <=> j \in Pinned) /\ i > j

Top(S) == CHOOSE i \in S : \A j \in S \ {i} : Above(i, j)

-----------------------------------------------------------------------------
(* Checkpoints.                                                            *)

(* reset: as if the source had never been read *)
NoCheckpoint == [stored |-> FALSE, below |-> {}, complete |-> FALSE]

(* mark_complete *)
Complete == [stored |-> FALSE, below |-> {}, complete |-> TRUE]

(* save_frozen *)
Frozen(below) == [stored |-> TRUE, below |-> below, complete |-> FALSE]

Steps == {"idle", "stories", "load", "take", "process", "note", "mark", "thaw",
          "freeze"}

Checkpoints == [stored: BOOLEAN, below: SUBSET Items, complete: BOOLEAN]

-----------------------------------------------------------------------------
(* The state of a source in a pass: what is left of the list below its     *)
(* head, and the cursor from which the head can be read again.             *)

Outcomes == {"none", "saved", "existing", "warning"}

Scans == [active: BOOLEAN, head: Items \cup {NoItem}, cursor: SUBSET Items,
          rest: SUBSET Items, stop: BOOLEAN, resume: BOOLEAN, scanned: Nat,
          boundary: BOOLEAN]

(* A source as a pass opens it. *)
Open(rest, stop, resume) ==
    [active |-> TRUE, head |-> NoItem, cursor |-> rest, rest |-> rest,
     stop |-> stop, resume |-> resume, scanned |-> 0, boundary |-> FALSE]

(* _fresh_states: media the library has is a boundary as soon as the list  *)
(* was read once, to its end or to a cursor.                               *)
Fresh(s) ==
    Open(Shown(s), checkpoint[s].complete \/ checkpoint[s].stored,
         checkpoint[s].stored)

(* _historical_states: the cursor as it is now; one that cannot be thawed  *)
(* is reset and the list read from its top.                                *)
Resuming == {s \in DOMAIN scan : scan[s].resume /\ checkpoint[s].stored}

Historical(s, thawed) ==
    Open(IF thawed THEN checkpoint[s].below ELSE Shown(s), FALSE, FALSE)

Idle ==
    /\ pc' = "idle"
    /\ scan' = [s \in {} |-> Fresh(s)]
    /\ todo' = {}
    /\ picked' = "reels"
    /\ seen' = [i \in Items |-> "none"]
    /\ stories' = 0
    /\ opened' = {}

Active == {s \in DOMAIN scan : scan[s].active}

Ready == {s \in Active : scan[s].head # NoItem}

(* Reels before posts, whatever is done with the two in turn. *)
Turn(s) == s \in todo /\ (s = "reels" \/ "reels" \notin todo)

(* The newest head; reels come first if both lists show the same item.     *)
Newest(s) ==
    /\ s \in Ready
    /\ \A t \in Ready :
          \/ scan[t].head < scan[s].head
          \/ scan[t].head = scan[s].head /\ (s = t \/ s = "reels")

-----------------------------------------------------------------------------
(* A run: stories first.                                                   *)

StartRun ==
    /\ pc = "idle"
    /\ direct = NoItem
    /\ syncable
    /\ pc' = "stories"
    /\ stories' \in 0..MaxStories
    /\ UNCHANGED <<published, syncable, direct, scan, todo, picked, seen,
                   opened, stored, mishaps, history>>

(* Stopped between two stories: there is nothing to freeze yet.            *)
SaveStory ==
    /\ pc = "stories"
    /\ stories > 0
    /\ IF syncable
       THEN /\ stories' = stories - 1
            /\ UNCHANGED <<pc, scan, todo, picked, seen, opened>>
       ELSE Idle
    /\ UNCHANGED <<published, syncable, direct, stored, mishaps, history>>

FailStory ==
    /\ pc = "stories"
    /\ failures < MaxFailures
    /\ failures' = failures + 1
    /\ Idle
    /\ UNCHANGED <<published, syncable, direct, stored, kills, others, history>>

OpenFeed ==
    /\ pc = "stories"
    /\ stories = 0
    /\ pc' = "load"
    /\ scan' = [s \in Sources |-> Fresh(s)]
    /\ todo' = Sources
    /\ opened' = UNION {Shown(s) : s \in Sources}
    /\ UNCHANGED <<published, syncable, direct, picked, seen, stories, stored,
                   mishaps, history>>

-----------------------------------------------------------------------------
(* A pass over the lists: _scan_states and _merge.                         *)

(* The list is frozen before its next item is read.                        *)
WithHead(state) ==
    IF state.rest = {}
    THEN [state EXCEPT !.cursor = {}, !.active = FALSE, !.head = NoItem]
    ELSE LET i == Top(state.rest)
         IN [state EXCEPT !.cursor = state.rest, !.head = i,
                          !.rest = state.rest \ {i}]

(* _load_head, reels before posts *)
LoadHead(s) ==
    /\ pc = "load"
    /\ Turn(s)
    /\ scan' = [scan EXCEPT ![s] = WithHead(scan[s])]
    /\ todo' = todo \ {s}
    /\ pc' = IF todo' = {} THEN "take" ELSE "load"
    /\ UNCHANGED <<published, syncable, direct, picked, seen, stories, opened,
                   stored, mishaps, history>>

(* Instagram refuses the page: the list stays frozen in front of it.       *)
FailLoad(s) ==
    /\ pc = "load"
    /\ Turn(s)
    /\ failures < MaxFailures
    /\ failures' = failures + 1
    /\ scan' = [scan EXCEPT ![s].cursor = scan[s].rest]
    /\ todo' = Active
    /\ pc' = "freeze"
    /\ UNCHANGED <<published, syncable, direct, picked, seen, stories, opened,
                   stored, kills, others, history>>

(* Mistake: only the start of a pass looks whether synchronization is on.  *)
TakeBlindly(s) ==
    /\ pc = "take"
    /\ syncable \/ \E t \in DOMAIN scan : scan[t].scanned > 0
    /\ Newest(s)
    /\ picked' = s
    /\ pc' = IF seen[scan[s].head] = "none" THEN "process" ELSE "note"
    /\ UNCHANGED <<published, syncable, direct, scan, todo, seen, stories,
                   opened, stored, mishaps, history>>

Take(s) ==
    /\ pc = "take"
    /\ syncable
    /\ Newest(s)
    /\ picked' = s
    /\ pc' = IF seen[scan[s].head] = "none" THEN "process" ELSE "note"
    /\ UNCHANGED <<published, syncable, direct, scan, todo, seen, stories,
                   opened, stored, mishaps, history>>

(* Mistake: the lists that are done already are frozen with the others.    *)
StopAll ==
    /\ pc = "take"
    /\ ~syncable
    /\ Ready # {}
    /\ todo' = DOMAIN scan
    /\ pc' = "freeze"
    /\ UNCHANGED <<published, syncable, direct, scan, picked, seen, stories,
                   opened, stored, mishaps, history>>

(* Synchronization was switched off. *)
Stop ==
    /\ pc = "take"
    /\ ~syncable
    /\ Ready # {}
    /\ todo' = Active
    /\ pc' = "freeze"
    /\ UNCHANGED <<published, syncable, direct, scan, picked, seen, stories,
                   opened, stored, mishaps, history>>

(* _process: what the library has is left alone, the rest is downloaded or *)
(* recorded as an issue.                                                   *)
Process(outcome) ==
    LET i == scan[picked].head
    IN /\ pc = "process"
       /\ outcome \in IF i \in have THEN {"existing"} ELSE {"saved", "warning"}
       /\ outcome = "warning" => failures < MaxFailures
       /\ failures' = IF outcome = "warning" THEN failures + 1 ELSE failures
       /\ have' = IF outcome = "saved" THEN have \cup {i} ELSE have
       /\ seen' = [seen EXCEPT ![i] = outcome]
       /\ tried' = tried \cup {i}
       /\ late' = IF syncable THEN 0 ELSE late + 1
       /\ pc' = "note"
       /\ UNCHANGED <<published, syncable, direct, scan, todo, picked, stories,
                      opened, checkpoint, exclusions, kills, others, caught,
                      unexcluded>>

(* A rate limit, a challenge or a rejected session, or any other exception *)
(* than a failure of this item alone.                                      *)
FailProcess ==
    /\ pc = "process"
    /\ scan[picked].head \notin have
    /\ failures < MaxFailures
    /\ failures' = failures + 1
    /\ todo' = Active
    /\ pc' = "freeze"
    /\ UNCHANGED <<published, syncable, direct, scan, picked, seen, stories,
                   opened, stored, kills, others, history>>

(* Mistake: the first known item ends the list at once. *)
NotedAtOnce(state, i) ==
    LET boundary == state.boundary
                      \/ (seen[i] = "existing" /\ state.stop /\ i \notin exclusions)
    IN [state EXCEPT !.boundary = boundary, !.scanned = @ + 1,
                     !.active = ~(state.stop /\ boundary)]

(* Mistake: exclusions are ignored. *)
NotedRegardless(state, i) ==
    LET boundary == state.boundary \/ (seen[i] = "existing" /\ state.stop)
        scanned  == state.scanned + 1
    IN [state EXCEPT !.boundary = boundary, !.scanned = scanned,
                     !.active = ~(state.stop /\ boundary /\ scanned >= PageSize)]

(* What an item means for its list: a boundary ends the list once a whole  *)
(* page was read, and each page read before is saved.                      *)
Noted(state, i) ==
    LET boundary == state.boundary
                      \/ (seen[i] = "existing" /\ state.stop /\ i \notin exclusions)
        scanned  == state.scanned + 1
    IN [state EXCEPT !.boundary = boundary, !.scanned = scanned,
                     !.active = ~(state.stop /\ boundary /\ scanned >= PageSize)]

Note ==
    LET noted == Noted(scan[picked], scan[picked].head)
        page  == noted.active /\ noted.scanned % PageSize = 0
    IN /\ pc = "note"
       /\ scan' = [scan EXCEPT ![picked] =
                       IF noted.active THEN noted ELSE [noted EXCEPT !.head = NoItem]]
       /\ checkpoint' = IF page
                        THEN [checkpoint EXCEPT ![picked] = Frozen(noted.rest)]
                        ELSE checkpoint
       /\ todo' = IF noted.active THEN {picked} ELSE {}
       /\ pc' = IF noted.active THEN "load" ELSE "take"
       /\ UNCHANGED <<published, syncable, direct, picked, seen, stories,
                      opened, have, exclusions, mishaps, history>>

(* Mistake: a list left at its boundary counts as read to its end.         *)
EndPassAnyhow ==
    /\ pc = "take"
    /\ Ready = {}
    /\ pc' = "mark"
    /\ todo' = DOMAIN scan
    /\ UNCHANGED <<published, syncable, direct, scan, picked, seen, stories,
                   opened, stored, mishaps, history>>

(* Both lists are done: the ones read to their end are marked ...          *)
EndPass ==
    /\ pc = "take"
    /\ Ready = {}
    /\ pc' = "mark"
    /\ todo' = {s \in DOMAIN scan : ~scan[s].stop /\ ~scan[s].resume}
    /\ UNCHANGED <<published, syncable, direct, scan, picked, seen, stories,
                   opened, stored, mishaps, history>>

MarkComplete(s) ==
    /\ pc = "mark"
    /\ Turn(s)
    /\ checkpoint' = [checkpoint EXCEPT ![s] = Complete]
    /\ todo' = todo \ {s}
    /\ UNCHANGED <<published, syncable, direct, pc, scan, picked, seen, stories,
                   opened, have, exclusions, mishaps, history>>

(* ... and the cursors of earlier runs are taken up: _historical_states.   *)
EndRecent ==
    /\ pc = "mark"
    /\ todo = {}
    /\ Resuming # {}
    /\ pc' = "thaw"
    /\ todo' = Resuming
    /\ UNCHANGED <<published, syncable, direct, scan, picked, seen, stories,
                   opened, stored, mishaps, history>>

(* A cursor that Instagram no longer takes is reset.                       *)
Thaw(s) ==
    /\ pc = "thaw"
    /\ Turn(s)
    /\ \/ /\ scan' = [scan EXCEPT ![s] = Historical(s, TRUE)]
          /\ UNCHANGED <<checkpoint, failures>>
       \/ /\ failures < MaxFailures
          /\ failures' = failures + 1
          /\ scan' = [scan EXCEPT ![s] = Historical(s, FALSE)]
          /\ checkpoint' = [checkpoint EXCEPT ![s] = NoCheckpoint]
    /\ todo' = todo \ {s}
    /\ UNCHANGED <<published, syncable, direct, pc, picked, seen, stories,
                   opened, have, exclusions, kills, others, history>>

OpenHistory ==
    /\ pc = "thaw"
    /\ todo = {}
    /\ pc' = "load"
    /\ scan' = [s \in Active |-> scan[s]]
    /\ todo' = Active
    /\ UNCHANGED <<published, syncable, direct, picked, seen, stories, opened,
                   stored, mishaps, history>>

(* _clear_boundary_exclusions: what was downloaded directly is now among   *)
(* media that have all been looked at.                                     *)
EndRun ==
    /\ pc = "mark"
    /\ todo = {}
    /\ Resuming = {}
    /\ exclusions' = {}
    /\ caught' = opened
    /\ Idle
    /\ UNCHANGED <<published, syncable, direct, have, checkpoint, mishaps,
                   tried, late, unexcluded>>

-----------------------------------------------------------------------------
(* A run that ends early.                                                  *)

(* _freeze_active: the list as it was before its head.                     *)
Freeze(s) ==
    /\ pc = "freeze"
    /\ Turn(s)
    /\ \/ /\ checkpoint' = [checkpoint EXCEPT ![s] =
                               Frozen(IF scan[s].head # NoItem
                                      THEN scan[s].cursor ELSE scan[s].rest)]
          /\ UNCHANGED failures
       \/ /\ failures < MaxFailures
          /\ failures' = failures + 1
          /\ checkpoint' = [checkpoint EXCEPT ![s] = NoCheckpoint]
    /\ todo' = todo \ {s}
    /\ UNCHANGED <<published, syncable, direct, pc, scan, picked, seen, stories,
                   opened, have, exclusions, kills, others, history>>

EndFrozen ==
    /\ pc = "freeze"
    /\ todo = {}
    /\ Idle
    /\ UNCHANGED <<published, syncable, direct, stored, mishaps, history>>

(* The worker is killed.  It recovers the job and starts it again.         *)
Kill ==
    /\ pc # "idle"
    /\ kills < MaxKills
    /\ kills' = kills + 1
    /\ Idle
    /\ UNCHANGED <<published, syncable, direct, stored, failures, others,
                   history>>

-----------------------------------------------------------------------------
(* Around it.                                                              *)

Publish ==
    /\ published + 1 \in Items
    /\ Cardinality({i \in Items : Backlog < i /\ i =< published} \ caught) < Burst
    /\ published' = published + 1
    /\ UNCHANGED <<syncable, direct, run, stored, mishaps, history>>

SwitchSync ==
    /\ syncable' = ~syncable
    /\ late' = 0
    /\ UNCHANGED <<published, direct, run, stored, mishaps, tried, caught,
                   unexcluded>>

(* download_input, a job of its own for one item: its media is stored ...  *)
SaveDirectly(i) ==
    /\ pc = "idle"
    /\ direct = NoItem
    /\ i =< published
    /\ others < MaxOthers
    /\ others' = others + 1
    /\ have' = have \cup {i}
    /\ tried' = tried \cup {i}
    /\ direct' = i
    /\ UNCHANGED <<published, syncable, run, checkpoint, exclusions, failures,
                   kills, caught, late, unexcluded>>

(* ... and then, in a transaction of its own, its exclusion: it is no      *)
(* boundary, for what is above it was not looked at.                       *)
AddBoundaryExclusion ==
    /\ direct # NoItem
    /\ exclusions' = exclusions \cup {direct}
    /\ direct' = NoItem
    /\ UNCHANGED <<published, syncable, run, have, checkpoint, mishaps,
                   history>>

(* The second transaction fails, or the worker was killed before it and    *)
(* the job fails when it runs again: the media stays, with no exclusion.   *)
FailToExclude ==
    /\ direct # NoItem
    /\ failures < MaxFailures
    /\ failures' = failures + 1
    /\ unexcluded' = unexcluded \cup {direct}
    /\ direct' = NoItem
    /\ UNCHANGED <<published, syncable, run, stored, kills, others, tried,
                   caught, late>>

(* A delete_media job.  The user no longer wants it, so it was dealt with. *)
DeleteMedia(i) ==
    /\ pc = "idle"
    /\ direct = NoItem
    /\ i \in have
    /\ others < MaxOthers
    /\ others' = others + 1
    /\ have' = have \ {i}
    /\ UNCHANGED <<published, syncable, direct, run, checkpoint, exclusions,
                   failures, kills, history>>

-----------------------------------------------------------------------------
Init ==
    /\ published = Backlog
    /\ have = {}
    /\ syncable = TRUE
    /\ checkpoint = [s \in Sources |-> NoCheckpoint]
    /\ exclusions = {}
    /\ pc = "idle"
    /\ scan = [s \in {} |-> Fresh(s)]
    /\ todo = {}
    /\ picked = "reels"
    /\ seen = [i \in Items |-> "none"]
    /\ stories = 0
    /\ opened = {}
    /\ direct = NoItem
    /\ failures = 0
    /\ kills = 0
    /\ others = 0
    /\ tried = {}
    /\ caught = {}
    /\ late = 0
    /\ unexcluded = {}

(* What the worker does by itself. *)
RunStep ==
    \/ StartRun \/ SaveStory \/ OpenFeed \/ Stop \/ Note \/ EndPass
    \/ EndRecent \/ OpenHistory \/ EndRun \/ EndFrozen \/ AddBoundaryExclusion
    \/ \E s \in Sources :
          LoadHead(s) \/ Take(s) \/ MarkComplete(s) \/ Thaw(s) \/ Freeze(s)
    \/ \E outcome \in Outcomes : Process(outcome)

Next ==
    \/ RunStep
    \/ FailStory \/ FailProcess \/ FailToExclude \/ Kill \/ Publish \/ SwitchSync
    \/ \E s \in Sources : FailLoad(s)
    \/ \E i \in Items : SaveDirectly(i) \/ DeleteMedia(i)

Spec == Init /\ [][Next]_vars

(* The worker goes on with what it has claimed, and the schedule, or the   *)
(* user, asks for another run.                                             *)
FairSpec == Spec /\ WF_vars(RunStep)

-----------------------------------------------------------------------------
(* Properties.                                                             *)

(* What is in hand: a step turns to lists of the pass only, deals with the *)
(* head of one of them, and freezes those only that are not done; and the  *)
(* worker has one job at a time.                                           *)
InHand ==
    /\ todo \subseteq DOMAIN scan
    /\ pc \in {"process", "note"}
           => picked \in DOMAIN scan /\ scan[picked].head \in Items
    /\ pc = "freeze" => todo \subseteq Active
    /\ direct # NoItem => pc = "idle"

(* The values each variable may take, with what is in hand.                *)
TypeOK ==
    /\ published \in Nat
    /\ have \subseteq Items
    /\ syncable \in BOOLEAN
    /\ checkpoint \in [Sources -> Checkpoints]
    /\ exclusions \subseteq Items
    /\ pc \in Steps
    /\ DOMAIN scan \subseteq Sources
    /\ scan \in [DOMAIN scan -> Scans]
    /\ InHand
    /\ picked \in Sources
    /\ seen \in [Items -> Outcomes]
    /\ stories \in 0..MaxStories
    /\ opened \subseteq Items
    /\ direct \in Items \cup {NoItem}
    /\ failures \in 0..MaxFailures
    /\ kills \in 0..MaxKills
    /\ others \in 0..MaxOthers
    /\ tried \subseteq Items
    /\ caught \subseteq Items
    /\ late \in Nat
    /\ unexcluded \subseteq Items

(* What lies below an item whose exclusion failed, in a list of both.      *)
Hidden ==
    {i \in Items : \E s \in Sources : \E u \in unexcluded :
                      {i, u} \subseteq List(s) /\ Above(u, i)}

(* A run that completed has dealt with every item its lists held when it   *)
(* opened them: boundaries, cursors and checkpoints never hide one.  A     *)
(* direct download whose exclusion fails does, and the code has nothing    *)
(* against it: those items, Hidden, are left out.                          *)
NothingSkipped == caught \subseteq tried \cup Hidden

(* Once synchronization is switched off, a run finishes the item it is at  *)
(* and begins no other.                                                    *)
StopTakesEffect == late =< 1

(* While synchronization stays on, whatever was published is dealt with,   *)
(* however often runs were stopped or failed before; but for what is       *)
(* Hidden.                                                                 *)
EverythingIsTried ==
    <>[]syncable =>
        \A i \in Items : [](i =< published => <>(i \in tried \cup Hidden))

=============================================================================
