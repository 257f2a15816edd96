-------------------------------- MODULE MediaFeed --------------------------------
(***************************************************************************)
(* The feed of the media viewer, read page by page in both directions      *)
(* while items are saved and deleted.                                      *)
(*                                                                         *)
(*   api/routes/media.py            pages and their cursors                *)
(*   db/library_repositories.py     list_media_feed: the window around an  *)
(*                                  anchor, in reads of their own, and the *)
(*                                  page beyond a cursor, in one           *)
(*   library/MediaViewerPage.tsx    the feed in the browser, its pages in  *)
(*                                  flight, and the item looked at         *)
(*                                                                         *)
(* An item is its place in the order of publication and id, larger is      *)
(* newer.  All items match the filter of the feed, as the cursor names the *)
(* filter it was made for.                                                 *)
(*                                                                         *)
(* Simplifications: saving an item again does not change when it was       *)
(* published; a page and the profiles of its items arrive, or fail,        *)
(* together; what React does for one change of its state is one step.      *)
(***************************************************************************)
EXTENDS Integers, FiniteSets, Sequences, SequencesExt

CONSTANTS Places,      (* how many items there may be                      *)
          Limit,       (* FEED_PAGE_SIZE                                   *)
          Near,        (* how near to an end the next page is asked for: 2 *)
          MaxChanges,  (* bound: items saved or deleted                    *)
          MaxOpens,    (* bound: feeds opened                              *)
          MaxFailures  (* bound: requests that fail                        *)

ASSUME FeedAssumption ==
    /\ Places \in Nat \ {0}
    /\ Limit \in Nat \ {0}
    /\ Near \in Nat
    /\ MaxChanges \in Nat
    /\ MaxOpens \in Nat
    /\ MaxFailures \in Nat

Items      == 1..Places
Directions == {"newer", "older"}
Nothing    == 0

VARIABLES
    stored,      (* the items in the database                              *)
    generation,  (* feedGenerationRef                                      *)
    opening,     (* {} or the request for the window around an anchor      *)
    feed,        (* {} or the feed on the screen: its items, its cursors   *)
    current,     (* it is the one of feedStateRef, not of a page left      *)
    active,      (* activeIndex, from 1                                    *)
    loads,       (* pages asked for and not dealt with                     *)
    failed,      (* failedCursorsRef                                       *)
    pageError,   (* {} or the request that failed last, to be retried      *)
    changes,
    failures,
    (* history *)
    kept,        (* items stored ever since the last feed was opened       *)
    mixed,       (* a page beyond a cursor of an earlier feed, and of none *)
                 (* of its own, was merged into the feed                   *)
    watched      (* the item the user moved to last                        *)

bounds  == <<changes, failures>>
screen  == <<feed, current, active, watched>>
pages   == <<loads, failed, pageError>>
vars    == <<stored, generation, opening, screen, pages, bounds, kept, mixed>>

Beyond(d, p) == {m \in stored : IF d = "newer" THEN m > p ELSE m < p}

(* The n of S that lie nearest, in the direction d they are read in. *)
Nearest(d, S, n) ==
    {m \in S : Cardinality({k \in S : IF d = "newer" THEN k < m ELSE k > m}) < n}

(* load_newer, load_older: a page of n and whether there is more behind it. *)
PageBeyond(d, p, n) ==
    [items |-> Nearest(d, Beyond(d, p), n), more |-> Cardinality(Beyond(d, p)) > n]

(* The cursor that goes on from a page, an item at its far end.            *)
CursorAfter(d, page) ==
    IF page.more /\ page.items # {}
    THEN CHOOSE m \in page.items : \A k \in page.items : IF d = "newer" THEN m >= k ELSE m =< k
    ELSE Nothing

NewestFirst(S) ==
    CHOOSE s \in [1..Cardinality(S) -> S] : \A i, j \in 1..Cardinality(S) : i < j => s[i] > s[j]

-----------------------------------------------------------------------------
(* The window around an anchor.                                            *)

(* The page is opened, or left for another item: what is under way for the *)
(* old feed is not waited for, and the old feed stays on the screen.       *)
Open(m) ==
    /\ generation < MaxOpens
    /\ generation' = generation + 1
    /\ opening' = {[anchor |-> m, step |-> "anchor",
                    newer |-> [items |-> {}, more |-> FALSE],
                    older |-> [items |-> {}, more |-> FALSE]]}
    /\ current' = FALSE
    /\ failed' = {}
    /\ pageError' = {}
    /\ kept' = stored
    /\ mixed' = FALSE
    /\ UNCHANGED <<stored, feed, active, watched, loads, bounds>>

Goes(o, next) ==
    /\ opening' = {next}
    /\ UNCHANGED <<stored, generation, screen, pages, bounds, kept, mixed>>

ReadAnchor ==
    \E o \in opening :
        /\ o.step = "anchor"
        /\ o.anchor \in stored
        /\ Goes(o, [o EXCEPT !.step = "newer"])

ReadNewer ==
    \E o \in opening :
        /\ o.step = "newer"
        /\ Goes(o, [o EXCEPT !.newer = PageBeyond("newer", o.anchor, (Limit - 1) \div 2),
                             !.step = "older"])

(* What the newer half left over goes to the older one.                    *)
ReadOlder ==
    \E o \in opening :
        LET n == Limit - 1 - Cardinality(o.newer.items)
            page == PageBeyond("older", o.anchor, n)
        IN  /\ o.step = "older"
            /\ Goes(o, [o EXCEPT !.older = page,
                                 !.step = IF Cardinality(page.items) < n THEN "again" ELSE "sent"])

(* And what the older half left over to the newer one, read again.         *)
ReadAgain ==
    \E o \in opening :
        /\ o.step = "again"
        /\ Goes(o, [o EXCEPT !.newer = PageBeyond("newer", o.anchor, Limit - 1 - Cardinality(o.older.items)),
                             !.step = "sent"])

Window(o) == o.newer.items \union {o.anchor} \union o.older.items

(* A cursor is made from the first and from the last item of the window.   *)
Show(o) ==
    /\ opening' = {}
    /\ feed' = {[items |-> NewestFirst(Window(o)),
                 newer |-> CursorAfter("newer", [items |-> Window(o), more |-> o.newer.more]),
                 older |-> CursorAfter("older", [items |-> Window(o), more |-> o.older.more])]}
    /\ current' = TRUE
    /\ watched' = o.anchor
    /\ UNCHANGED <<stored, generation, pages, bounds, kept, mixed>>

(* Mistake: the position on the screen is not that of the anchor.          *)
ShowWhereItWas ==
    \E o \in opening :
        /\ o.step = "sent"
        /\ active' = active
        /\ Show(o)

ShowWindow ==
    \E o \in opening :
        /\ o.step = "sent"
        /\ active' = Cardinality({m \in Window(o) : m >= o.anchor})
        /\ Show(o)

(* The anchor is gone, or a request fails.                                 *)
FailToOpen ==
    \E o \in opening :
        /\ \/ o.step = "anchor" /\ o.anchor \notin stored /\ UNCHANGED failures
           \/ failures < MaxFailures /\ failures' = failures + 1
        /\ opening' = {}
        /\ UNCHANGED <<stored, generation, screen, pages, changes, kept, mixed>>

-----------------------------------------------------------------------------
(* The pages beyond it.                                                    *)

UnderWay(d, cursor) ==
    \E l \in loads : l.generation = generation /\ l.direction = d /\ l.cursor = cursor

(* A page beyond a cursor, which may be one of an earlier feed, is asked   *)
(* for under the number of the last one that was opened.                   *)
Ask(d, cursor, stray) ==
    /\ cursor # Nothing
    /\ ~UnderWay(d, cursor)
    /\ loads' = loads \union {[generation |-> generation, direction |-> d, cursor |-> cursor,
                               page |-> {}, stray |-> stray]}
    /\ failed' = failed \ {<<d, cursor>>}
    /\ pageError' = {e \in pageError : e.direction # d \/ e.cursor # cursor}
    /\ UNCHANGED <<stored, generation, opening, screen, bounds, kept, mixed>>

(* The item looked at is near an end of the feed on the screen, which may  *)
(* no longer be the one that is opened.                                    *)
LoadCursor(d) ==
    \E f \in feed :
        /\ IF d = "newer" THEN active =< Near + 1 ELSE active >= Len(f.items) - Near
        /\ <<d, f[d]>> \notin failed
        /\ Ask(d, f[d], ~current)

(* The button beside the error, which stays when another feed is shown.    *)
Retry == \E e \in pageError : Ask(e.direction, e.cursor, e.stray)

Serve(l) ==
    /\ l.page = {}
    /\ loads' = (loads \ {l}) \union {[l EXCEPT !.page = {PageBeyond(l.direction, l.cursor, Limit)}]}
    /\ UNCHANGED <<stored, generation, opening, screen, failed, pageError, bounds, kept, mixed>>

(* mergeItems, and the cursor of that end moves on, whether or not the     *)
(* page goes on from it.                                                   *)
Merge(l, f, page) ==
    LET new == page.items \ ToSet(f.items)
        newest == NewestFirst(new)
    IN  /\ feed' = {[[f EXCEPT !.items = IF l.direction = "newer" THEN newest \o @ ELSE @ \o newest]
                        EXCEPT ![l.direction] = CursorAfter(l.direction, page)]}
        /\ active' = IF l.direction = "newer" THEN active + Cardinality(new) ELSE active
        /\ mixed' = (mixed \/ (l.stray /\ l.cursor # f[l.direction]))

(* Mistake: the generation is not looked at.                               *)
DeliverAny(l) ==
    /\ l.page # {}
    /\ loads' = loads \ {l}
    /\ IF current
       THEN \E f \in feed, page \in l.page : Merge(l, f, page)
       ELSE UNCHANGED <<feed, active, mixed>>
    /\ UNCHANGED <<stored, generation, opening, current, watched, failed, pageError, bounds, kept>>

(* A page is dropped if another feed was opened after it was asked for, or *)
(* if there is none.                                                       *)
Deliver(l) ==
    /\ l.page # {}
    /\ loads' = loads \ {l}
    /\ IF l.generation = generation /\ current
       THEN \E f \in feed, page \in l.page : Merge(l, f, page)
       ELSE UNCHANGED <<feed, active, mixed>>
    /\ UNCHANGED <<stored, generation, opening, current, watched, failed, pageError, bounds, kept>>

FailToLoad(l) ==
    /\ failures < MaxFailures
    /\ failures' = failures + 1
    /\ loads' = loads \ {l}
    /\ IF l.generation = generation
       THEN /\ failed' = failed \union {<<l.direction, l.cursor>>}
            /\ pageError' = {[direction |-> l.direction, cursor |-> l.cursor, stray |-> l.stray]}
       ELSE UNCHANGED <<failed, pageError>>
    /\ UNCHANGED <<stored, generation, opening, screen, changes, kept, mixed>>

-----------------------------------------------------------------------------
(* moveTo, and scrolling by hand. *)
Move(i) ==
    /\ \E f \in feed : i \in 1..Len(f.items) /\ watched' = f.items[i]
    /\ active' = i
    /\ UNCHANGED <<stored, generation, opening, feed, current, pages, bounds, kept, mixed>>

(* The worker saves an item, however old, or deletes one. *)
Change(m) ==
    /\ changes < MaxChanges
    /\ changes' = changes + 1
    /\ stored' = IF m \in stored THEN stored \ {m} ELSE stored \union {m}
    /\ kept' = kept \ {m}
    /\ UNCHANGED <<generation, opening, screen, pages, failures, mixed>>

Init ==
    /\ stored \in SUBSET Items
    /\ generation = 0
    /\ opening = {}
    /\ feed = {}
    /\ current = FALSE
    /\ active = 1
    /\ loads = {}
    /\ failed = {}
    /\ pageError = {}
    /\ changes = 0
    /\ failures = 0
    /\ kept = {}
    /\ mixed = FALSE
    /\ watched = Nothing

Next ==
    \/ \E m \in Items : Open(m) \/ Change(m)
    \/ ReadAnchor \/ ReadNewer \/ ReadOlder \/ ReadAgain \/ ShowWindow \/ FailToOpen
    \/ Retry \/ \E d \in Directions : LoadCursor(d)
    \/ \E l \in loads : Serve(l) \/ Deliver(l) \/ FailToLoad(l)
    \/ \E i \in Items : Move(i)

Spec == Init /\ [][Next]_vars

-----------------------------------------------------------------------------
(* Properties.                                                             *)

(* The values each variable may take; the position is always on an item.   *)
TypeOK ==
    LET found == [items : SUBSET Items, more : BOOLEAN]
    IN  /\ stored \subseteq Items
        /\ generation \in 0..MaxOpens
        /\ \A o \in opening :
               o \in [anchor : Items, step : {"anchor", "newer", "older", "again", "sent"},
                      newer : found, older : found]
        /\ \A f \in feed :
               /\ f.items \in Seq(Items)
               /\ f.newer \in Items \union {Nothing} /\ f.older \in Items \union {Nothing}
               /\ active \in 1..Len(f.items)
        /\ Cardinality(opening) =< 1 /\ Cardinality(feed) =< 1
        /\ current \in BOOLEAN /\ mixed \in BOOLEAN
        /\ \A l \in loads :
               /\ l.generation \in 1..generation /\ l.direction \in Directions /\ l.cursor \in Items
               /\ l.page \subseteq found /\ l.stray \in BOOLEAN
        /\ failed \subseteq Directions \X Items
        /\ pageError \subseteq [direction : Directions, cursor : Items, stray : BOOLEAN]
        /\ changes \in 0..MaxChanges
        /\ failures \in 0..MaxFailures
        /\ kept \subseteq stored
        /\ watched \in Items \union {Nothing}

(* No item twice, none in the wrong place. *)
Ordered(f) == \A i, j \in 1..Len(f.items) : i < j => f.items[i] > f.items[j]

(* An item that has been there all the time is shown, or lies beyond an    *)
(* end that has a cursor.                                                  *)
NoneMissing(f) ==
    \A m \in kept :
        \/ m \in ToSet(f.items)
        \/ f.newer # Nothing /\ m > f.items[1]
        \/ f.older # Nothing /\ m < Last(f.items)

(* Whatever is saved and deleted while a feed is read in both directions,  *)
(* and in whatever order its pages arrive, it is in order, omits nothing   *)
(* between its ends, ends only where the library does, and stays at the    *)
(* item that is looked at.  Nothing is promised of a feed that a page of   *)
(* an earlier one got into: the viewer merges those it asked for, from the *)
(* feed still on the screen or by the button, once another was opened.     *)
FeedIsWhole ==
    current /\ ~mixed => \A f \in feed : Ordered(f) /\ NoneMissing(f) /\ f.items[active] = watched

=============================================================================
