--------------------------------- MODULE Polling ---------------------------------
(***************************************************************************)
(* How a page of the browser keeps what it shows up to date.               *)
(*                                                                         *)
(*   library/usePolling.ts   one controller for each source and setting a  *)
(*                           page loads, polling and reloading on demand   *)
(*                                                                         *)
(* What the server knows is a number that grows with each change, so a     *)
(* larger one is newer.  A step is what runs between two awaits of the     *)
(* page, or the reading of the answer by the server.                       *)
(*                                                                         *)
(* Simplifications: a controller is its number, which stands for the       *)
(* reference and the version that isCurrent compares; what is shown of     *)
(* progress and errors is left out.                                        *)
(***************************************************************************)
EXTENDS Integers

CONSTANTS Reloads,     (* calls of reload: after an action of the user     *)
          Polls,       (* intervalMs > 0                                   *)
          MaxEffects,  (* bound: controllers made                          *)
          MaxChanges   (* bound: changes of the library                    *)

(* What the module takes of its constants. *)
PollingAssumption ==
    /\ Polls \in BOOLEAN
    /\ MaxEffects \in Nat
    /\ MaxChanges \in Nat

Controllers == 1..MaxEffects
NoOne       == 0

VARIABLES
    world,    (* what the server knows                                     *)
    made,     (* the controllers made: 1..made                             *)
    current,  (* controllerRef: the one of the effect that runs, or NoOne  *)
    poll,     (* the controllers                                           *)
    shown,    (* data: the controller it came from and how new it is       *)
    reload    (* the promises of reload                                    *)

vars == <<world, made, current, poll, shown, reload>>

Nothing == [owner |-> NoOne, seen |-> 0]
Idle    == [cancelled |-> FALSE, flight |-> "none", seen |-> 0, queued |-> FALSE,
            reloading |-> FALSE, timer |-> FALSE]

IsCurrent(c) == ~poll[c].cancelled /\ current = c

(* run: a request is sent. *)
Running(state) ==
    [state EXCEPT !.flight = "asked", !.reloading = state.queued, !.queued = FALSE, !.timer = FALSE]

(* The waiters of c are resolved; fresh: by the answer that is now shown.  *)
Resolved(c, as) ==
    [r \in Reloads |->
        IF reload[r].status = "waiting" /\ reload[r].owner = c THEN [reload[r] EXCEPT !.status = as] ELSE reload[r]]

-----------------------------------------------------------------------------
(* The page is left for another source or closed: the effect is cleaned up *)
(* and, if the page is to poll, starts anew.  Where it is not, the data of *)
(* before stay.                                                            *)
Cleaned(c) ==
    IF c = current THEN [poll[c] EXCEPT !.cancelled = TRUE, !.timer = FALSE] ELSE poll[c]

Disable ==
    /\ current # NoOne
    /\ current' = NoOne
    /\ poll' = [c \in Controllers |-> Cleaned(c)]
    /\ reload' = Resolved(current, "released")
    /\ UNCHANGED <<world, made, shown>>

Enable ==
    /\ made < MaxEffects
    /\ made' = made + 1
    /\ current' = made'
    /\ poll' = [c \in Controllers |-> IF c = made' THEN Running(Idle) ELSE Cleaned(c)]
    /\ shown' = Nothing
    /\ reload' = Resolved(current, "released")
    /\ UNCHANGED world

(* The timer is cleared and a request sent, unless one is under way: then  *)
(* another will follow it.                                                 *)
Reload(r) ==
    /\ reload[r].status = "new"
    /\ IF current = NoOne
       THEN /\ reload' = [reload EXCEPT ![r].status = "released"]
            /\ UNCHANGED poll
       ELSE LET queued == [poll[current] EXCEPT !.queued = TRUE, !.timer = FALSE]
            IN  /\ reload' = [reload EXCEPT ![r] = [status |-> "waiting", owner |-> current, asked |-> world]]
                /\ poll' = [poll EXCEPT ![current] =
                               IF queued.flight = "none" THEN Running(queued) ELSE queued]
    /\ UNCHANGED <<world, made, current, shown>>

Timer(c) ==
    /\ poll[c].timer
    /\ poll' = [poll EXCEPT ![c] = Running(@)]
    /\ UNCHANGED <<world, made, current, shown, reload>>

(* The server reads what it answers with. *)
Serve(c) ==
    /\ poll[c].flight = "asked"
    /\ poll' = [poll EXCEPT ![c].flight = "answered", ![c].seen = world]
    /\ UNCHANGED <<world, made, current, shown, reload>>

(* The finally of run. *)
Settled(c, as) ==
    LET over == [poll[c] EXCEPT !.flight = "none", !.seen = 0]
    IN  /\ poll' = [poll EXCEPT ![c] =
                       IF over.cancelled THEN over
                       ELSE IF over.queued THEN Running(over)
                       ELSE [over EXCEPT !.timer = Polls /\ IsCurrent(c)]]
        /\ reload' = IF over.cancelled \/ (~over.queued /\ over.reloading)
                     THEN Resolved(c, as) ELSE reload
        /\ UNCHANGED <<world, made, current>>

Answered(c) ==
    /\ poll[c].flight = "answered"
    /\ shown' = IF IsCurrent(c) THEN [owner |-> c, seen |-> poll[c].seen] ELSE shown
    /\ Settled(c, "fresh")

(* The request fails, or was aborted. *)
Failed(c) ==
    /\ poll[c].flight # "none"
    /\ shown' = shown
    /\ Settled(c, "released")

(* The user or the worker changes the library. *)
Change ==
    /\ world < MaxChanges
    /\ world' = world + 1
    /\ UNCHANGED <<made, current, poll, shown, reload>>

Init ==
    /\ world = 0
    /\ made = 0
    /\ current = NoOne
    /\ poll = [c \in Controllers |-> Idle]
    /\ shown = Nothing
    /\ reload = [r \in Reloads |-> [status |-> "new", owner |-> NoOne, asked |-> 0]]

Next ==
    \/ Disable \/ Enable \/ Change
    \/ \E r \in Reloads : Reload(r)
    \/ \E c \in Controllers : Timer(c) \/ Serve(c) \/ Answered(c) \/ Failed(c)

Spec == Init /\ [][Next]_vars

-----------------------------------------------------------------------------
(* Properties.                                                             *)

States == [cancelled : BOOLEAN, flight : {"none", "asked", "answered"}, seen : 0..MaxChanges,
           queued : BOOLEAN, reloading : BOOLEAN, timer : BOOLEAN]
Promises == [status : {"new", "waiting", "fresh", "released"}, owner : 0..MaxEffects, asked : 0..MaxChanges]

(* The values each variable may take.                                      *)
TypeOK ==
    /\ world \in 0..MaxChanges
    /\ made \in 0..MaxEffects
    /\ current \in 0..made
    /\ poll \in [Controllers -> States]
    /\ shown \in [owner : 0..MaxEffects, seen : 0..MaxChanges]
    /\ reload \in [Reloads -> Promises]

(* What a page shows is of its source, not of one it was left for, however *)
(* late the answers to that one come; and an older answer never replaces a *)
(* newer one.                                                              *)
ShownIsCurrent == current # NoOne => shown.owner \in {current, NoOne}

NeverOlder == [][shown'.owner = shown.owner => shown'.seen >= shown.seen]_vars

(* A reload that ends with an answer shows what its caller had changed,    *)
(* even if it was asked for while an earlier request was under way.        *)
ReloadIsFresh ==
    \A r \in Reloads :
        reload[r].status = "fresh" /\ reload[r].owner = current =>
            shown.owner = current /\ shown.seen >= reload[r].asked

(* No caller waits for a request that nobody will send, and a page that    *)
(* polls never stops: a request is under way or the timer runs.            *)
NobodyIsForgotten ==
    /\ \A r \in Reloads :
          reload[r].status = "waiting" =>
              LET state == poll[reload[r].owner]
              IN  IsCurrent(reload[r].owner) /\ state.flight # "none" /\ (state.queued \/ state.reloading)
    /\ Polls /\ current # NoOne => poll[current].flight # "none" \/ poll[current].timer

=============================================================================
