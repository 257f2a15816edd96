--------------------------------- MODULE Login ---------------------------------
(***************************************************************************)
(* Logging in, the throttle of login attempts, browser sessions and the    *)
(* change of the password.                                                 *)
(*                                                                         *)
(*   services/auth_service.py   login, authenticate_session,               *)
(*                              change_password, logout                    *)
(*   auth/throttle.py           the three buckets of an attempt            *)
(*   auth/passwords.py          two Argon2 operations at a time            *)
(*   db/repositories.py         the transactions (BEGIN IMMEDIATE)         *)
(*   api/routes/auth.py         what a request answers                     *)
(*                                                                         *)
(* A request takes the time once, when it begins, and uses it in all its   *)
(* transactions, however late they run.  An action is one transaction, or  *)
(* the start or the end of an Argon2 operation.  The password is the       *)
(* number of its hash; whether what was typed matches the hash that was    *)
(* read is chosen freely.                                                  *)
(*                                                                         *)
(* A request that goes no further stands for one that died with the web    *)
(* process too: its reservation stays until its lease ends.                *)
(*                                                                         *)
(* Left out: the time a session was last seen, which nothing reads; the    *)
(* other requests that authenticate_session lets through, which change     *)
(* nothing here.                                                           *)
(***************************************************************************)
EXTENDS Integers, FiniteSets

CONSTANTS
    Attempts,    (* login requests; each makes one reservation, one session *)
    Changes,     (* requests to change the password                         *)
    Buckets,
    AccountOf,   (* [Attempts -> Buckets]: the digests of an attempt        *)
    AddressOf,
    Everyone,    (* the global bucket                                       *)
    Known,       (* attempts with the administrator's username              *)
    Max,         (* *_MAXIMUM_FAILURES, by bucket                           *)
    Window,      (* FAILURE_WINDOW                                          *)
    Block,       (* BLOCK_DURATION                                          *)
    Lease,       (* RESERVATION_LEASE                                       *)
    Lifetime,    (* SESSION_LIFETIME                                        *)
    Caps,        (* the values LOGIN_STATE_CARDINALITY_CAP may have: one    *)
                 (* is taken for good, so that a run sees a tight one and   *)
                 (* an ample one                                            *)
    Permits,     (* MAXIMUM_CONCURRENT_ARGON2_OPERATIONS                    *)
    NoRow,
    MaxDelay,    (* bound: how long a request waits for its first transaction *)
    MaxTime      (* bound: the clock                                        *)

ASSUME LoginAssumption ==
    /\ IsFiniteSet(Attempts)
    /\ AccountOf \in [Attempts -> Buckets]
    /\ AddressOf \in [Attempts -> Buckets]
    /\ Everyone \in Buckets
    /\ Known \subseteq Attempts
    /\ Max \in [Buckets -> Nat \ {0, 1}]
    /\ Window \in Nat
    /\ Block \in Nat
    /\ Lease \in Nat \ {0}
    /\ Lifetime \in Nat
    /\ Caps \subseteq Nat
    /\ Permits \in Nat
    /\ NoRow \notin [expires : Int, valid : BOOLEAN]
    /\ NoRow \notin [count : Int, first : Int, blocked : Int]
    /\ NoRow \notin [since : Int, revoked : BOOLEAN, proved : Int]
    /\ MaxDelay \in Nat
    /\ MaxTime \in Nat

VARIABLES
    cap,          (* LOGIN_STATE_CARDINALITY_CAP: no step changes it          *)
    clock,
    login,        (* a login request: where it is, its time, the hash it read *)
    reservation,  (* login_attempt_reservations                               *)
    failure,      (* login_failures, by bucket                                *)
    password,     (* the administrator's hash                                 *)
    session,      (* web_sessions, by the login that made them                *)
    change        (* a request to change the password                         *)

throttle == <<reservation, failure>>
vars     == <<cap, clock, login, reservation, failure, password, session, change>>

BucketsOf == [a \in Attempts |-> {AccountOf[a], AddressOf[a], Everyone}]

-----------------------------------------------------------------------------
(* The throttle.                                                           *)

(* What the first two deletes of reserve_attempt leave at the time now.    *)
Unexpired(now) ==
    [a \in Attempts |->
       IF reservation[a] # NoRow /\ reservation[a].expires > now THEN reservation[a] ELSE NoRow]

Recent(now) ==
    [b \in Buckets |->
       IF failure[b] # NoRow /\ ~(failure[b].first =< now - Window /\ failure[b].blocked =< now)
       THEN failure[b] ELSE NoRow]

Count(b, rows) == IF rows[b] = NoRow THEN 0 ELSE rows[b].count

(* The reservations whose failure would count in b. *)
Active(b, held) == {a \in Attempts : held[a] # NoRow /\ held[a].valid /\ b \in BucketsOf[a]}

Blocked(b, rows, now) == rows[b] # NoRow /\ rows[b].blocked > now

(* Mistake: reservations take no room.                                     *)
FullOfFailures(b, rows, held) == Count(b, rows) >= Max[b]

Full(b, rows, held) == Count(b, rows) + Cardinality(Active(b, held)) >= Max[b]

(* None of the three buckets of an attempt is blocked or full.             *)
HasRoom(a, now) ==
    LET rows == Recent(now)
        held == Unexpired(now)
    IN \A b \in BucketsOf[a] : ~Blocked(b, rows, now) /\ ~Full(b, rows, held)

(* The waits that bucket b asks for. *)
Waits(b, rows, held, now) ==
    LET active == Active(b, held)
        first == {a \in active : \A x \in active : held[a].expires =< held[x].expires}
    IN (IF Blocked(b, rows, now) THEN {rows[b].blocked - now} ELSE {})
       \cup (IF Full(b, rows, held)
             THEN IF active # {} THEN {held[a].expires - now : a \in first}
                  ELSE {rows[b].first + Window - now}
             ELSE {})

AllWaits(a, now) ==
    LET rows == Recent(now)
        held == Unexpired(now)
    IN {0} \cup UNION {Waits(b, rows, held, now) : b \in BucketsOf[a]}

(* Mistake: the shortest wait is answered, not the longest.                *)
ShortestWait(a, now) ==
    LET waits == AllWaits(a, now) \ {0}
    IN IF waits = {} THEN 0 ELSE CHOOSE w \in waits : \A v \in waits : w =< v

LongestWait(a, now) ==
    LET waits == AllWaits(a, now)
    IN CHOOSE w \in waits : \A v \in waits : v =< w

(* The rows of both tables, at three for a reservation, are at their cap. *)
Crowded(now) ==
    LET rows == Recent(now)
        held == Unexpired(now)
    IN Cardinality({b \in Buckets : rows[b] # NoRow})
         + 3 * Cardinality({a \in Attempts : held[a] # NoRow}) + 3 > cap

(* The wait that reserve_attempt answers: 0 for an attempt it admits.      *)
RetryAfter(a, now) ==
    LET longest == LongestWait(a, now)
    IN IF longest > 0 THEN longest ELSE IF Crowded(now) THEN 1 ELSE 0

(* _record_failure_locked, in the bucket b. *)
Recorded(b, now) ==
    LET row == failure[b]
    IN IF row = NoRow \/ now - row.first >= Window
       THEN [count |-> 1, first |-> now, blocked |-> 0]
       ELSE IF row.blocked > now THEN row
       ELSE [count |-> row.count + 1, first |-> row.first,
             blocked |-> IF row.count + 1 >= Max[b] THEN now + Block ELSE 0]

-----------------------------------------------------------------------------
(* Logging in.                                                             *)

Start == [pc |-> "new", at |-> 0, read |-> 0]
Over  == [pc |-> "done", at |-> 0, read |-> 0]

(* All permits may be taken: by those that have entered an Argon2 operation *)
(* and not yet acted on its result, each of which may have left it by now. *)
MayBeBusy == Cardinality({a \in Attempts : login[a].pc = "checking"})
               + Cardinality({c \in Changes : change[c].pc \in {"checking", "hashing"}}) >= Permits

(* When a request may have begun that enters its first transaction now.    *)
Lately == {now \in 0..clock : clock =< now + MaxDelay}

(* reserve_attempt, for a request that began at the time now and may have  *)
(* waited for the database since.                                          *)
Reserve(a, now) ==
    LET allowed == RetryAfter(a, now) = 0
    IN /\ login[a].pc = "new"
       /\ failure' = Recent(now)
       /\ reservation' = IF allowed
                         THEN [Unexpired(now) EXCEPT ![a] = [expires |-> now + Lease, valid |-> TRUE]]
                         ELSE Unexpired(now)
       /\ login' = [login EXCEPT ![a] = IF allowed THEN [pc |-> "verify", at |-> now, read |-> 0] ELSE Over]
       /\ UNCHANGED <<cap, clock, password, session, change>>

(* get_single, and verify is entered unless it is busy. *)
Verify(a, busy) ==
    /\ login[a].pc = "verify"
    /\ busy => MayBeBusy
    /\ login' = [login EXCEPT ![a].pc = IF busy THEN "busy" ELSE "checking", ![a].read = password]
    /\ UNCHANGED <<cap, clock, throttle, password, session, change>>

(* cancel_reservation *)
CancelReservation(a) ==
    /\ login[a].pc = "busy"
    /\ reservation' = [reservation EXCEPT ![a] = NoRow]
    /\ login' = [login EXCEPT ![a] = Over]
    /\ UNCHANGED <<cap, clock, failure, password, session, change>>

Admitted(a) == reservation[a] # NoRow /\ reservation[a].expires > login[a].at

(* The username or the password was wrong: complete_reserved_failure.  An  *)
(* attempt whose reservation lapsed or was invalidated meanwhile counts    *)
(* nowhere.                                                                *)
CompleteFailure(a) ==
    /\ login[a].pc = "checking"
    /\ failure' = IF Admitted(a) /\ reservation[a].valid
                  THEN [b \in Buckets |-> IF b \in BucketsOf[a]
                                         THEN Recorded(b, login[a].at) ELSE failure[b]]
                  ELSE failure
    /\ reservation' = [reservation EXCEPT ![a] = NoRow]
    /\ login' = [login EXCEPT ![a] = Over]
    /\ UNCHANGED <<cap, clock, password, session, change>>

(* The session of a, since then.  The failures of its account are forgiven, *)
(* and other attempts of the same account and address will not count.      *)
OpenSession(a, then) ==
    LET same(x) == AccountOf[x] = AccountOf[a] /\ AddressOf[x] = AddressOf[a]
    IN /\ session' = [session EXCEPT ![a] =
                         [since |-> then, revoked |-> FALSE, proved |-> login[a].read]]
       /\ failure' = [failure EXCEPT ![AccountOf[a]] = NoRow]
       /\ reservation' = [x \in Attempts |->
                            IF x = a \/ reservation[x] = NoRow THEN NoRow
                            ELSE IF same(x) THEN [reservation[x] EXCEPT !.valid = FALSE]
                            ELSE reservation[x]]

Refuse(a) ==
    /\ reservation' = [reservation EXCEPT ![a] = NoRow]
    /\ UNCHANGED <<session, failure>>

(* Mistake: the hash is not compared again.                                *)
CreateSessionUnchecked(a) ==
    /\ login[a].pc = "checking"
    /\ a \in Known
    /\ IF Admitted(a) THEN OpenSession(a, login[a].at) ELSE Refuse(a)
    /\ login' = [login EXCEPT ![a] = Over]
    /\ UNCHANGED <<cap, clock, password, change>>

(* Mistake: the end of the session is stored as its beginning.             *)
CreateSessionFromItsEnd(a) ==
    /\ login[a].pc = "checking"
    /\ a \in Known
    /\ IF Admitted(a) THEN OpenSession(a, login[a].at + Lifetime) ELSE Refuse(a)
    /\ login' = [login EXCEPT ![a] = Over]
    /\ UNCHANGED <<cap, clock, password, change>>

(* Both were right: create_session_if_password_hash_matches. *)
CreateSession(a) ==
    /\ login[a].pc = "checking"
    /\ a \in Known
    /\ IF Admitted(a) /\ password = login[a].read
       THEN OpenSession(a, login[a].at)
       ELSE Refuse(a)
    /\ login' = [login EXCEPT ![a] = Over]
    /\ UNCHANGED <<cap, clock, password, change>>

-----------------------------------------------------------------------------
(* Sessions and the password.                                              *)

(* The session a is neither revoked nor expired at the time now. *)
Valid(a, now) ==
    session[a] # NoRow /\ ~session[a].revoked /\ session[a].since + Lifetime > now

NoChange == [pc |-> "done", at |-> 0, by |-> NoRow, read |-> 0]

Logout(a) ==
    /\ Valid(a, clock)
    /\ session' = [session EXCEPT ![a].revoked = TRUE]
    /\ UNCHANGED <<cap, clock, login, throttle, password, change>>

(* authenticate_session lets the request of session a in. *)
BeginChange(c, a) ==
    /\ change[c].pc = "new"
    /\ Valid(a, clock)
    /\ change' = [change EXCEPT ![c] = [pc |-> "verify", at |-> clock, by |-> a, read |-> 0]]
    /\ UNCHANGED <<cap, clock, login, throttle, password, session>>

VerifyCurrent(c, busy) ==
    /\ change[c].pc = "verify"
    /\ busy => MayBeBusy
    /\ change' = [change EXCEPT ![c] =
                    IF busy THEN NoChange ELSE [@ EXCEPT !.pc = "checking", !.read = password]]
    /\ UNCHANGED <<cap, clock, login, throttle, password, session>>

(* The current password was right, and hash is entered. *)
Hash(c) ==
    /\ change[c].pc = "checking"
    /\ change' = [change EXCEPT ![c].pc = "hashing"]
    /\ UNCHANGED <<cap, clock, login, throttle, password, session>>

(* The current password was wrong, or hash is busy. *)
GiveUp(c) ==
    /\ change[c].pc = "checking"
    /\ change' = [change EXCEPT ![c] = NoChange]
    /\ UNCHANGED <<cap, clock, login, throttle, password, session>>

(* change_password_and_revoke_other_sessions *)
ReplacePassword(c) ==
    LET by == change[c].by
    IN /\ change[c].pc = "hashing"
       /\ IF password = change[c].read /\ Valid(by, change[c].at)
          THEN /\ password' = password + 1
               /\ session' = [a \in Attempts |->
                                IF session[a] = NoRow THEN NoRow
                                ELSE IF a = by THEN [session[a] EXCEPT !.proved = password + 1]
                                ELSE [session[a] EXCEPT !.revoked = TRUE]]
          ELSE UNCHANGED <<password, session>>
       /\ change' = [change EXCEPT ![c] = NoChange]
       /\ UNCHANGED <<cap, clock, login, throttle>>

-----------------------------------------------------------------------------
Tick ==
    /\ clock < MaxTime
    /\ clock' = clock + 1
    /\ UNCHANGED <<cap, login, throttle, password, session, change>>

Init ==
    /\ cap \in Caps
    /\ clock = 0
    /\ login = [a \in Attempts |-> Start]
    /\ reservation = [a \in Attempts |-> NoRow]
    /\ failure = [b \in Buckets |-> NoRow]
    /\ password = 1
    /\ session = [a \in Attempts |-> NoRow]
    /\ change = [c \in Changes |-> [pc |-> "new", at |-> 0, by |-> NoRow, read |-> 0]]

LoginStep(a) ==
    \/ \E now \in Lately : Reserve(a, now)
    \/ \E busy \in BOOLEAN : Verify(a, busy)
    \/ CancelReservation(a) \/ CompleteFailure(a) \/ CreateSession(a)

ChangeStep(c) ==
    \/ \E a \in Attempts : BeginChange(c, a)
    \/ \E busy \in BOOLEAN : VerifyCurrent(c, busy)
    \/ Hash(c) \/ GiveUp(c) \/ ReplacePassword(c)

Next ==
    \/ \E a \in Attempts : LoginStep(a) \/ Logout(a)
    \/ \E c \in Changes : ChangeStep(c)
    \/ Tick

Spec == Init /\ [][Next]_vars

-----------------------------------------------------------------------------
(* Properties.                                                             *)

Logins == [pc : {"new", "verify", "checking", "busy", "done"}, at : 0..MaxTime, read : Nat]
ReservationRows == [expires : Nat, valid : BOOLEAN]
FailureRows == [count : Nat, first : 0..MaxTime, blocked : Nat]
SessionRows == [since : 0..MaxTime, revoked : BOOLEAN, proved : Nat]
ChangeRequests == [pc : {"new", "verify", "checking", "hashing", "done"}, at : 0..MaxTime,
                   by : Attempts \cup {NoRow}, read : Nat]

(* The values each variable may take.                                      *)
TypeOK ==
    /\ cap \in Caps
    /\ clock \in 0..MaxTime
    /\ login \in [Attempts -> Logins]
    /\ reservation \in [Attempts -> ReservationRows \cup {NoRow}]
    /\ failure \in [Buckets -> FailureRows \cup {NoRow}]
    /\ password \in Nat
    /\ session \in [Attempts -> SessionRows \cup {NoRow}]
    /\ change \in [Changes -> ChangeRequests]

Standing == [a \in Attempts |-> IF reservation[a] = NoRow THEN "none"
                               ELSE IF reservation[a].valid THEN "open" ELSE "excused"]

(* The throttle with its stored reservations, leases and counters keeps    *)
(* what AttemptLimit promises: the attempts under way and the failures     *)
(* remembered never exceed a limit together, failures are remembered for   *)
(* the window, and only an admitted attempt logs in.                       *)
Limit == INSTANCE AttemptLimit WITH
    attempt <- Standing,
    failed  <- [b \in Buckets |-> Count(b, failure)],
    began   <- [b \in Buckets |-> IF failure[b] = NoRow THEN 0 ELSE failure[b].first],
    entered <- {a \in Attempts : session[a] # NoRow}

ImplementsLimit == Limit!Spec

(* An attempt is told to wait exactly if a bucket of it has no room or the *)
(* tables are at their cap.  A client that waits as long as it was told    *)
(* to, and meets no other attempt meanwhile, finds room in all three       *)
(* buckets: the wait is the longest of theirs, and covers a lease, a block *)
(* and a window that began later than the block.  Of the cap itself        *)
(* nothing is promised: the one second told for it frees no row.           *)
RetryIsEnough ==
    \A a \in Attempts, now \in Lately :
        login[a].pc = "new" =>
            /\ RetryAfter(a, now) = 0 <=> HasRoom(a, now) /\ ~Crowded(now)
            /\ HasRoom(a, now + RetryAfter(a, now))

(* A browser session that is not revoked was opened with the password of   *)
(* now, or made the change to it; a login that verified the password       *)
(* before it was changed opens none afterwards.                            *)
OnlyCurrentPassword ==
    \A a \in Attempts :
        session[a] # NoRow /\ ~session[a].revoked => session[a].proved = password

=============================================================================
