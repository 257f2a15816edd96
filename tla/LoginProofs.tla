------------------------------- MODULE LoginProofs -------------------------------
(***************************************************************************)
(* Theorems about Login, for any attempts, buckets, limits and durations.  *)
(***************************************************************************)
EXTENDS Login, FiniteSetTheorems, WellFoundedInduction, TLAPS

-----------------------------------------------------------------------------
(* Types.                                                                  *)

(* NoRow is no row of any table. *)
LEMMA NoRowIsNoRow ==
    NoRow \notin ReservationRows /\ NoRow \notin FailureRows /\ NoRow \notin SessionRows
BY LoginAssumption DEF ReservationRows, FailureRows, SessionRows

LEMMA RecordTypes ==
    /\ Start \in Logins /\ Over \in Logins
    /\ \A pc \in {"new", "verify", "checking", "busy", "done"}, at \in 0..MaxTime, read \in Nat :
           [pc |-> pc, at |-> at, read |-> read] \in Logins
    /\ \A l \in Logins : l.at \in 0..MaxTime /\ l.read \in Nat
    /\ NoChange \in ChangeRequests
    /\ \A r \in ChangeRequests : r.at \in 0..MaxTime /\ r.read \in Nat
BY LoginAssumption DEF Logins, Start, Over, ChangeRequests, NoChange

LEMMA RecentTypes ==
    ASSUME TypeOK, NEW now \in 0..clock
    PROVE  /\ Recent(now) \in [Buckets -> FailureRows \cup {NoRow}]
           /\ \A b \in Buckets :
                \/ Recent(now)[b] = failure[b]
                \/ Recent(now)[b] = NoRow /\ failure[b] # NoRow /\ failure[b].first + Window =< now
<1>1. \A b \in Buckets : failure[b] # NoRow => failure[b].first \in Int
  BY DEF TypeOK, FailureRows
<1> QED
  BY <1>1, LoginAssumption DEF TypeOK, Recent

LEMMA UnexpiredTypes ==
    ASSUME TypeOK, NEW now \in 0..clock
    PROVE  /\ Unexpired(now) \in [Attempts -> ReservationRows \cup {NoRow}]
           /\ \A a \in Attempts : Unexpired(now)[a] \in {reservation[a], NoRow}
BY DEF TypeOK, Unexpired

LEMMA RecordedType ==
    ASSUME TypeOK, NEW b \in Buckets, NEW now \in 0..MaxTime
    PROVE  Recorded(b, now) \in FailureRows
<1>1. failure[b] # NoRow => failure[b] \in FailureRows
  BY DEF TypeOK
<1>2. now \in Nat /\ Block \in Nat
  BY LoginAssumption
<1> QED
  BY <1>1, <1>2 DEF Recorded, FailureRows

LEMMA InitType == Init => TypeOK
BY RecordTypes, LoginAssumption DEF Init, TypeOK, Start, ChangeRequests

LEMMA NextType == TypeOK /\ [Next]_vars => TypeOK'
<1> SUFFICES ASSUME TypeOK, [Next]_vars PROVE TypeOK'
  OBVIOUS
<1>0. /\ clock \in 0..MaxTime /\ MaxTime \in Nat
      /\ \A a \in Attempts : login[a] \in Logins /\ login[a].at \in 0..MaxTime /\ login[a].read \in Nat
      /\ password \in Nat /\ password + 1 \in Nat
  BY RecordTypes, LoginAssumption DEF TypeOK
<1>1. ASSUME NEW a \in Attempts, NEW now \in Lately, Reserve(a, now) PROVE TypeOK'
  <2>1. now \in 0..clock /\ now \in 0..MaxTime
    BY <1>0 DEF Lately
  <2>2. failure' \in [Buckets -> FailureRows \cup {NoRow}]
    BY <1>1, <2>1, RecentTypes DEF Reserve
  <2>3. [expires |-> now + Lease, valid |-> TRUE] \in ReservationRows
    BY <2>1, <1>0, LoginAssumption DEF ReservationRows
  <2>4. reservation' \in [Attempts -> ReservationRows \cup {NoRow}]
    BY <1>1, <2>1, <2>3, UnexpiredTypes DEF Reserve
  <2>5. login' \in [Attempts -> Logins]
    BY <1>1, <2>1, RecordTypes DEF Reserve, TypeOK
  <2> QED
    BY <1>1, <2>2, <2>4, <2>5 DEF Reserve, TypeOK
<1>2. ASSUME NEW a \in Attempts, NEW busy \in BOOLEAN, Verify(a, busy) PROVE TypeOK'
  <2>1. login' \in [Attempts -> Logins]
    BY <1>2, <1>0 DEF Verify, TypeOK, Logins
  <2> QED
    BY <1>2, <2>1 DEF Verify, TypeOK, throttle
<1>3. ASSUME NEW a \in Attempts, CancelReservation(a) PROVE TypeOK'
  BY <1>3, RecordTypes DEF CancelReservation, TypeOK
<1>4. ASSUME NEW a \in Attempts, CompleteFailure(a) PROVE TypeOK'
  <2>1. failure' \in [Buckets -> FailureRows \cup {NoRow}]
    BY <1>4, <1>0, RecordedType DEF CompleteFailure, TypeOK
  <2> QED
    BY <1>4, <2>1, RecordTypes DEF CompleteFailure, TypeOK
<1>5. ASSUME NEW a \in Attempts, CreateSession(a) PROVE TypeOK'
  <2>1. CASE Refuse(a)
    BY <1>5, <2>1, RecordTypes DEF CreateSession, Refuse, TypeOK
  <2>2. CASE OpenSession(a, login[a].at)
    <3>1. [since |-> login[a].at, revoked |-> FALSE, proved |-> login[a].read] \in SessionRows
      BY <1>0 DEF SessionRows
    <3>2. session' \in [Attempts -> SessionRows \cup {NoRow}]
      BY <2>2, <3>1 DEF OpenSession, TypeOK
    <3>3. \A x \in Attempts : reservation[x] # NoRow =>
              [reservation[x] EXCEPT !.valid = FALSE] \in ReservationRows
      BY DEF TypeOK, ReservationRows
    <3>4. reservation' \in [Attempts -> ReservationRows \cup {NoRow}]
      BY <2>2, <3>3 DEF OpenSession, TypeOK
    <3>5. failure' \in [Buckets -> FailureRows \cup {NoRow}]
      BY <2>2 DEF OpenSession, TypeOK
    <3> QED
      BY <1>5, <3>2, <3>4, <3>5, RecordTypes DEF CreateSession, TypeOK
  <2> QED
    BY <1>5, <2>1, <2>2 DEF CreateSession
<1>6. ASSUME NEW a \in Attempts, Logout(a) PROVE TypeOK'
  <2>1. session[a] \in SessionRows
    BY <1>6 DEF Logout, Valid, TypeOK
  <2>2. session' \in [Attempts -> SessionRows \cup {NoRow}]
    BY <1>6, <2>1 DEF Logout, TypeOK, SessionRows
  <2> QED
    BY <1>6, <2>2 DEF Logout, TypeOK, throttle
<1>7. ASSUME NEW c \in Changes, ChangeStep(c), UNCHANGED <<password, session>> PROVE TypeOK'
  <2>1. change' \in [Changes -> ChangeRequests]
    <3>1. ASSUME NEW a \in Attempts, BeginChange(c, a) PROVE change' \in [Changes -> ChangeRequests]
      BY <3>1, <1>0 DEF BeginChange, TypeOK, ChangeRequests
    <3>2. ASSUME NEW busy \in BOOLEAN, VerifyCurrent(c, busy)
          PROVE  change' \in [Changes -> ChangeRequests]
      <4>1. [change[c] EXCEPT !.pc = "checking", !.read = password] \in ChangeRequests
        BY <1>0 DEF TypeOK, ChangeRequests
      <4> QED
        BY <3>2, <4>1, RecordTypes DEF VerifyCurrent, TypeOK
    <3>3. CASE Hash(c)
      BY <3>3 DEF Hash, TypeOK, ChangeRequests
    <3>4. CASE GiveUp(c)
      BY <3>4, RecordTypes DEF GiveUp, TypeOK
    <3>5. CASE ReplacePassword(c)
      BY <3>5, RecordTypes DEF ReplacePassword, TypeOK
    <3> QED
      BY <1>7, <3>1, <3>2, <3>3, <3>4, <3>5 DEF ChangeStep
  <2>2. UNCHANGED <<cap, clock, login, throttle>>
    BY <1>7 DEF ChangeStep, BeginChange, VerifyCurrent, Hash, GiveUp, ReplacePassword
  <2>3. UNCHANGED <<cap, clock, login, reservation, failure>>
    BY <2>2 DEF throttle
  <2> QED
    BY <1>7, <2>1, <2>3 DEF TypeOK
<1>8. ASSUME NEW c \in Changes, ReplacePassword(c) PROVE TypeOK'
  <2>1. session' \in [Attempts -> SessionRows \cup {NoRow}]
    <3>1. \A a \in Attempts : session[a] # NoRow =>
              /\ [session[a] EXCEPT !.proved = password + 1] \in SessionRows
              /\ [session[a] EXCEPT !.revoked = TRUE] \in SessionRows
      BY <1>0 DEF TypeOK, SessionRows
    <3> QED
      BY <1>8, <3>1 DEF ReplacePassword, TypeOK
  <2> QED
    BY <1>8, <2>1, <1>0, RecordTypes DEF ReplacePassword, TypeOK, throttle
<1>9. CASE Tick
  <2>1. clock' \in 0..MaxTime
    BY <1>9, <1>0 DEF Tick
  <2> QED
    BY <1>9, <2>1 DEF Tick, TypeOK, throttle
<1>10. CASE UNCHANGED vars
  BY <1>10 DEF vars, TypeOK
<1>11. ASSUME NEW c \in Changes, ChangeStep(c) PROVE TypeOK'
  <2>1. CASE ReplacePassword(c)
    BY <2>1, <1>8
  <2>2. CASE ~ReplacePassword(c)
    <3>1. UNCHANGED <<password, session>>
      BY <1>11, <2>2 DEF ChangeStep, BeginChange, VerifyCurrent, Hash, GiveUp
    <3> QED
      BY <1>11, <3>1, <1>7
  <2> QED
    BY <2>1, <2>2
<1> QED
  BY <1>1, <1>2, <1>3, <1>4, <1>5, <1>6, <1>9, <1>10, <1>11 DEF Next, LoginStep

(* Every variable keeps its type. *)
THEOREM TypesHold == Spec => []TypeOK
BY InitType, NextType, PTL DEF Spec

-----------------------------------------------------------------------------
(* Sessions and the password.                                              *)

SessionInv == TypeOK /\ OnlyCurrentPassword

LEMMA NextSession == SessionInv /\ [Next]_vars => SessionInv'
<1> SUFFICES ASSUME SessionInv, [Next]_vars PROVE SessionInv'
  OBVIOUS
<1>0. TypeOK /\ TypeOK' /\ OnlyCurrentPassword
  BY NextType DEF SessionInv
<1>1. CASE UNCHANGED <<password, session>>
  BY <1>0, <1>1 DEF SessionInv, OnlyCurrentPassword
<1>2. ASSUME NEW a \in Attempts, CreateSession(a) PROVE OnlyCurrentPassword'
  <2>1. CASE Refuse(a)
    BY <1>2, <2>1, <1>0 DEF CreateSession, Refuse, OnlyCurrentPassword
  <2>2. CASE OpenSession(a, login[a].at) /\ password = login[a].read
    <3>1. session' = [session EXCEPT ![a] =
              [since |-> login[a].at, revoked |-> FALSE, proved |-> password]]
      BY <2>2 DEF OpenSession
    <3>2. password' = password
      BY <1>2 DEF CreateSession
    <3> QED
      BY <3>1, <3>2, <1>0 DEF OnlyCurrentPassword, TypeOK
  <2> QED
    BY <1>2, <2>1, <2>2 DEF CreateSession
<1>3. ASSUME NEW a \in Attempts, Logout(a) PROVE OnlyCurrentPassword'
  <2>1. session[a] \in SessionRows /\ session \in [Attempts -> SessionRows \cup {NoRow}]
    BY <1>3, <1>0 DEF Logout, Valid, TypeOK
  <2>2. session'[a].revoked
    BY <1>3, <2>1 DEF Logout, SessionRows
  <2>3. \A x \in Attempts \ {a} : session'[x] = session[x]
    BY <1>3, <2>1 DEF Logout
  <2> QED
    BY <1>3, <1>0, <2>2, <2>3 DEF Logout, OnlyCurrentPassword
<1>4. ASSUME NEW c \in Changes, ReplacePassword(c) PROVE OnlyCurrentPassword'
  <2>1. CASE UNCHANGED <<password, session>>
    BY <2>1, <1>0 DEF OnlyCurrentPassword
  <2>2. ASSUME NEW x \in Attempts,
               password' = password + 1,
               session' = [a \in Attempts |->
                             IF session[a] = NoRow THEN NoRow
                             ELSE IF a = change[c].by
                                  THEN [session[a] EXCEPT !.proved = password + 1]
                             ELSE [session[a] EXCEPT !.revoked = TRUE]],
               session'[x] # NoRow, ~session'[x].revoked
        PROVE  session'[x].proved = password'
    <3>1. session[x] \in SessionRows
      BY <2>2, <1>0 DEF TypeOK
    <3>2. x = change[c].by
      BY <2>2, <3>1 DEF SessionRows
    <3> QED
      BY <2>2, <3>1, <3>2 DEF SessionRows
  <2> QED
    BY <1>4, <2>1, <2>2 DEF ReplacePassword, OnlyCurrentPassword
<1>5. ASSUME NEW a \in Attempts, LoginStep(a) PROVE SessionInv'
  <2>1. CASE CreateSession(a)
    BY <2>1, <1>0, <1>2 DEF SessionInv
  <2>2. CASE ~CreateSession(a)
    BY <1>5, <2>2, <1>1 DEF LoginStep, Reserve, Verify, CancelReservation, CompleteFailure
  <2> QED
    BY <2>1, <2>2
<1>6. ASSUME NEW c \in Changes, ChangeStep(c) PROVE SessionInv'
  <2>1. CASE ReplacePassword(c)
    BY <2>1, <1>0, <1>4 DEF SessionInv
  <2>2. CASE ~ReplacePassword(c)
    BY <1>6, <2>2, <1>1 DEF ChangeStep, BeginChange, VerifyCurrent, Hash, GiveUp
  <2> QED
    BY <2>1, <2>2
<1> QED
  BY <1>0, <1>1, <1>3, <1>5, <1>6 DEF Next, Tick, vars, SessionInv

(* No session outlives the password it was opened with. *)
THEOREM SessionsKnowThePassword == Spec => []OnlyCurrentPassword
<1>1. Init => SessionInv
  BY InitType DEF Init, SessionInv, OnlyCurrentPassword
<1> QED
  BY <1>1, NextSession, PTL DEF Spec, SessionInv

-----------------------------------------------------------------------------
(* The throttle implements the limit.                                      *)

(* Times lie in the past, and a bucket is blocked only if it is full.      *)
Timely ==
    /\ \A a \in Attempts : login[a].at =< clock
    /\ \A b \in Buckets :
         failure[b] # NoRow =>
             /\ failure[b].first =< clock
             /\ failure[b].count > 0
             /\ failure[b].blocked > 0 => failure[b].count >= Max[b]

(* A request that has not reached the throttle holds no reservation.       *)
Unreserved == \A a \in Attempts : login[a].pc = "new" => reservation[a] = NoRow

ThrottleInv == TypeOK /\ Timely /\ Unreserved

(* Recorded counts a failure, starts anew after the window, or leaves a    *)
(* bucket that is full.                                                    *)
LEMMA RecordedCounts ==
    ASSUME ThrottleInv, NEW b \in Buckets, NEW now \in 0..clock
    PROVE  LET row == Recorded(b, now)
           IN /\ row \in FailureRows
              /\ row.first =< clock /\ row.count > 0
              /\ row.blocked > 0 => row.count >= Max[b]
              /\ \/ /\ failure[b] # NoRow /\ row.count = failure[b].count + 1
                    /\ row.first = failure[b].first
                 \/ /\ failure[b] = NoRow \/ failure[b].first + Window =< clock
                    /\ row.count = 1
                 \/ failure[b] # NoRow /\ failure[b].count >= Max[b] /\ row = failure[b]
<1>0. /\ failure[b] # NoRow =>
            /\ failure[b] \in FailureRows /\ failure[b].first =< clock /\ failure[b].count > 0
            /\ failure[b].blocked > 0 => failure[b].count >= Max[b]
      /\ Max[b] \in Nat /\ Window \in Nat /\ Block \in Nat /\ clock \in Nat /\ now \in 0..MaxTime
      /\ TypeOK
  BY LoginAssumption DEF ThrottleInv, TypeOK, Timely
<1>1. Recorded(b, now) \in FailureRows
  BY <1>0, RecordedType
<1>2. CASE failure[b] = NoRow \/ now - failure[b].first >= Window
  <2>1. Recorded(b, now) = [count |-> 1, first |-> now, blocked |-> 0]
    BY <1>2 DEF Recorded
  <2> QED
    BY <1>0, <1>1, <1>2, <2>1 DEF FailureRows
<1>3. CASE /\ failure[b] # NoRow /\ ~(now - failure[b].first >= Window)
           /\ failure[b].blocked > now
  <2>1. Recorded(b, now) = failure[b]
    BY <1>3 DEF Recorded
  <2>2. failure[b].blocked > 0
    BY <1>0, <1>3 DEF FailureRows
  <2> QED
    BY <1>0, <1>1, <1>3, <2>1, <2>2
<1>4. CASE /\ failure[b] # NoRow /\ ~(now - failure[b].first >= Window)
           /\ ~(failure[b].blocked > now)
  <2>1. Recorded(b, now) =
          [count |-> failure[b].count + 1, first |-> failure[b].first,
           blocked |-> IF failure[b].count + 1 >= Max[b] THEN now + Block ELSE 0]
    BY <1>4 DEF Recorded
  <2> QED
    BY <1>0, <1>1, <1>4, <2>1 DEF FailureRows
<1> QED
  BY <1>2, <1>3, <1>4

LEMMA NextThrottle == ThrottleInv /\ [Next]_vars => ThrottleInv'
<1> SUFFICES ASSUME ThrottleInv, [Next]_vars PROVE ThrottleInv'
  OBVIOUS
<1>0. TypeOK /\ TypeOK' /\ Timely /\ Unreserved
  BY NextType DEF ThrottleInv
<1>t. /\ clock \in Nat /\ login \in [Attempts -> Logins]
      /\ \A a \in Attempts : login[a].at \in 0..clock
      /\ Start.at = 0 /\ Over.at = 0 /\ Over.pc = "done"
  BY <1>0, RecordTypes, LoginAssumption DEF TypeOK, Timely, Start, Over
<1>1. ASSUME NEW a \in Attempts, NEW now \in Lately, Reserve(a, now) PROVE Timely' /\ Unreserved'
  <2>1. now \in 0..clock
    BY DEF Lately
  <2>2. \A x \in Attempts : login'[x].at =< clock
    BY <1>1, <2>1, <1>t DEF Reserve
  <2>3. Timely'
    BY <1>1, <2>1, <2>2, <1>0, RecentTypes DEF Reserve, Timely
  <2>4. \A x \in Attempts : login'[x].pc = "new" => x # a /\ login[x].pc = "new"
    BY <1>1, <1>t DEF Reserve
  <2>5. \A x \in Attempts \ {a} : reservation'[x] \in {reservation[x], NoRow}
    BY <1>1, <2>1, <1>0, UnexpiredTypes DEF Reserve
  <2> QED
    BY <2>3, <2>4, <2>5, <1>0 DEF Unreserved
<1>2. ASSUME NEW a \in Attempts, login[a].pc # "new",
             \/ login' = [login EXCEPT ![a] = Over]
             \/ \E busy \in BOOLEAN : Verify(a, busy),
             clock' = clock,
             \A x \in Attempts : reservation[x] = NoRow => reservation'[x] = NoRow
      PROVE  /\ \A x \in Attempts : login'[x].at =< clock'
             /\ Unreserved'
  <2>1. \A x \in Attempts : login'[x].at \in {0, login[x].at}
    <3>1. CASE login' = [login EXCEPT ![a] = Over]
      BY <3>1, <1>t
    <3>2. ASSUME NEW busy \in BOOLEAN, Verify(a, busy)
          PROVE  \A x \in Attempts : login'[x].at = login[x].at
      <4>1. login[a] \in Logins /\ login \in [Attempts -> Logins]
        BY <1>t
      <4>2. login'[a].at = login[a].at
        BY <3>2, <4>1 DEF Verify, Logins
      <4>3. \A x \in Attempts \ {a} : login'[x] = login[x]
        BY <3>2, <4>1 DEF Verify
      <4> QED
        BY <4>2, <4>3
    <3> QED
      BY <1>2, <3>1, <3>2
  <2>2. \A x \in Attempts : login'[x].pc = "new" => login[x].pc = "new"
    <3>1. \A x \in Attempts \ {a} : login'[x] = login[x]
      BY <1>2, <1>t DEF Verify
    <3>2. ASSUME NEW busy \in BOOLEAN, Verify(a, busy) PROVE login'[a].pc # "new"
      <4>1. login[a] \in Logins /\ login \in [Attempts -> Logins]
        BY <1>t
      <4> QED
        BY <3>2, <4>1 DEF Verify, Logins
    <3>3. login'[a].pc # "new"
      BY <1>2, <1>t, <3>2
    <3> QED
      BY <3>1, <3>3
  <2> QED
    BY <1>2, <2>1, <2>2, <1>t, <1>0 DEF Unreserved
<1>3. ASSUME NEW a \in Attempts, \E busy \in BOOLEAN : Verify(a, busy)
      PROVE  Timely' /\ Unreserved'
  <2>1. UNCHANGED <<clock, failure, reservation>> /\ login[a].pc # "new"
    BY <1>3 DEF Verify, throttle
  <2> QED
    BY <1>3, <2>1, <1>2, <1>0 DEF Timely
<1>4. ASSUME NEW a \in Attempts, CancelReservation(a) PROVE Timely' /\ Unreserved'
  <2>1. /\ UNCHANGED <<clock, failure>> /\ login[a].pc # "new"
        /\ \A x \in Attempts : reservation[x] = NoRow => reservation'[x] = NoRow
        /\ login' = [login EXCEPT ![a] = Over]
    BY <1>4, <1>0 DEF CancelReservation, TypeOK
  <2> QED
    BY <2>1, <1>2, <1>0 DEF Timely
<1>5. ASSUME NEW a \in Attempts, CompleteFailure(a) PROVE Timely' /\ Unreserved'
  <2>1. /\ UNCHANGED clock /\ login[a].pc # "new"
        /\ \A x \in Attempts : reservation[x] = NoRow => reservation'[x] = NoRow
        /\ login' = [login EXCEPT ![a] = Over]
    BY <1>5, <1>0 DEF CompleteFailure, TypeOK
  <2>2. \A b \in Buckets : failure'[b] \in {failure[b], Recorded(b, login[a].at)}
    BY <1>5 DEF CompleteFailure
  <2>3. \A b \in Buckets :
            failure'[b] # NoRow =>
                /\ failure'[b].first =< clock
                /\ failure'[b].count > 0
                /\ failure'[b].blocked > 0 => failure'[b].count >= Max[b]
    BY <2>2, <1>0, <1>t, RecordedCounts DEF Timely, ThrottleInv
  <2> QED
    BY <2>1, <2>3, <1>2 DEF Timely
<1>6. ASSUME NEW a \in Attempts, CreateSession(a) PROVE Timely' /\ Unreserved'
  <2>1. /\ UNCHANGED clock /\ login[a].pc # "new"
        /\ login' = [login EXCEPT ![a] = Over]
    BY <1>6 DEF CreateSession
  <2>2. /\ \A x \in Attempts : reservation[x] = NoRow => reservation'[x] = NoRow
        /\ \A b \in Buckets : failure'[b] \in {failure[b], NoRow}
    BY <1>6, <1>0 DEF CreateSession, OpenSession, Refuse, TypeOK
  <2> QED
    BY <2>1, <2>2, <1>2, <1>0 DEF Timely
<1>7. ASSUME Tick PROVE Timely' /\ Unreserved'
  <2>1. UNCHANGED <<login, failure, reservation>> /\ clock' = clock + 1
    BY <1>7 DEF Tick, throttle
  <2>2. \A b \in Buckets : failure[b] # NoRow => failure[b].first \in Nat
    BY <1>0 DEF TypeOK, FailureRows
  <2> QED
    BY <2>1, <2>2, <1>0, <1>t DEF Timely, Unreserved
<1>8. ASSUME UNCHANGED <<clock, login, throttle>> PROVE Timely' /\ Unreserved'
  BY <1>8, <1>0 DEF Timely, Unreserved, throttle
<1>9. ASSUME NEW a \in Attempts, LoginStep(a) PROVE Timely' /\ Unreserved'
  BY <1>9, <1>1, <1>3, <1>4, <1>5, <1>6 DEF LoginStep
<1>10. ASSUME NEW a \in Attempts, Logout(a) PROVE Timely' /\ Unreserved'
  BY <1>10, <1>8 DEF Logout
<1>11. ASSUME NEW c \in Changes, ChangeStep(c) PROVE Timely' /\ Unreserved'
  BY <1>11, <1>8 DEF ChangeStep, BeginChange, VerifyCurrent, Hash, GiveUp, ReplacePassword
<1> QED
  BY <1>0, <1>7, <1>8, <1>9, <1>10, <1>11 DEF Next, vars, throttle, ThrottleInv

(* Where the throttle stands in the terms of AttemptLimit.                 *)
Failed == [b \in Buckets |-> Count(b, failure)]
Began == [b \in Buckets |-> IF failure[b] = NoRow THEN 0 ELSE failure[b].first]
Entered == {a \in Attempts : session[a] # NoRow}

(* What a row of a bucket becomes in those terms: it stays, is forgotten   *)
(* when its window is over, or is dropped.                                 *)
LEMMA LimitTyped == TypeOK' => Limit!Typed
<1> SUFFICES ASSUME TypeOK' PROVE Limit!Typed
  OBVIOUS
<1>1. Standing' \in [Attempts -> {"none", "open", "excused"}]
  BY DEF Standing
<1>2. \A b \in Buckets : failure'[b] # NoRow =>
          failure'[b].count \in Nat /\ failure'[b].first \in Nat
  BY LoginAssumption DEF TypeOK, FailureRows
<1>3. Failed' \in [Buckets -> Nat]
  BY <1>2 DEF Failed, Count
<1>4. Began' \in [Buckets -> Nat]
  BY <1>2 DEF Began
<1> QED
  BY <1>1, <1>3, <1>4 DEF Limit!Typed, Failed, Began

(* Dropping reservations and old failures is what AttemptLimit lets happen. *)
LEMMA ReserveForgets ==
    ASSUME ThrottleInv, NEW now \in Lately, failure' = Recent(now),
           NEW a \in Attempts,
           \A x \in Attempts \ {a} : reservation'[x] = Unexpired(now)[x]
    PROVE  /\ \A x \in Attempts \ {a} : Limit!MayLapse(x)
           /\ reservation'[a] = Unexpired(now)[a] => Limit!MayLapse(a)
           /\ \A b \in Buckets : Limit!MayForget(b)
<1>0. TypeOK /\ now \in 0..clock /\ Window \in Nat /\ clock \in Nat
  BY LoginAssumption DEF ThrottleInv, TypeOK, Lately
<1>1. \A x \in Attempts : Unexpired(now)[x] \in {reservation[x], NoRow}
  BY <1>0, UnexpiredTypes
<1>2. \A x \in Attempts : reservation'[x] = Unexpired(now)[x] => Limit!MayLapse(x)
  BY <1>1 DEF Limit!MayLapse, Standing
<1>3. ASSUME NEW b \in Buckets PROVE Limit!MayForget(b)
  <2>1. \/ failure'[b] = failure[b]
        \/ failure'[b] = NoRow /\ failure[b] # NoRow /\ failure[b].first + Window =< now
    BY <1>0, RecentTypes
  <2>2. failure[b] # NoRow => failure[b].first \in Nat
    BY <1>0, LoginAssumption DEF TypeOK, FailureRows
  <2> QED
    BY <2>1, <2>2, <1>0 DEF Limit!MayForget, Limit!Same, Count
<1> QED
  BY <1>2, <1>3

(* Numbers have a least one; and a greatest one, if they are bounded.      *)
LEMMA LeastExists ==
    ASSUME NEW S \in SUBSET Nat, S # {}
    PROVE  \E m \in S : \A j \in S : m =< j
<1>1. PICK m \in S : \A j \in S : <<j, m>> \notin OpToRel(<, Nat)
  BY WFMin, NatLessThanWellFounded, Zenon
<1>2. \A j \in S : ~(j < m)
  BY <1>1, Zenon DEF OpToRel
<1> QED
  BY <1>2

LEMMA GreatestExists ==
    ASSUME NEW S \in SUBSET Int, NEW n \in Nat, 0 \in S, \A w \in S : w =< n
    PROVE  \E m \in S : \A w \in S : w =< m
<1> DEFINE T == {n - w : w \in S}
<1>1. T \in SUBSET Nat /\ T # {}
  OBVIOUS
<1>2. PICK d \in T : \A e \in T : d =< e
  <2> HIDE DEF T
  <2> QED
    BY <1>1, LeastExists
<1>3. PICK m \in S : d = n - m
  OBVIOUS
<1>4. ASSUME NEW w \in S PROVE w =< m
  <2>1. n - m =< n - w
    BY <1>2, <1>3
  <2>2. m \in Int /\ w \in Int
    OBVIOUS
  <2> QED
    BY <2>1, <2>2
<1> QED
  BY <1>4

LEMMA EarliestExists ==
    ASSUME NEW A, A # {}, NEW f, \A a \in A : f[a] \in Nat
    PROVE  \E a \in A : \A x \in A : f[a] =< f[x]
<1> DEFINE S == {f[a] : a \in A}
<1>1. S \in SUBSET Nat /\ S # {}
  OBVIOUS
<1>2. PICK m \in S : \A j \in S : m =< j
  <2> HIDE DEF S
  <2> QED
    BY <1>1, LeastExists
<1>3. PICK a \in A : m = f[a]
  OBVIOUS
<1> QED
  BY <1>2, <1>3

(* What a bucket asks for: numbers, bounded, one of them positive exactly  *)
(* if the bucket is blocked or full.                                       *)
LEMMA WaitsAreBounded ==
    ASSUME TypeOK, NEW b \in Buckets, NEW now \in Nat
    PROVE  LET W == Waits(b, Recent(now), Unexpired(now), now)
           IN  /\ W \subseteq Int
               /\ \E n \in Nat : \A w \in W : w =< n
               /\ (\E w \in W : w > 0)
                    <=> \/ Blocked(b, Recent(now), now)
                        \/ Full(b, Recent(now), Unexpired(now))
               /\ ~Blocked(b, Recent(now), now) /\ ~Full(b, Recent(now), Unexpired(now))
                    => W = {}
<1> DEFINE rows == Recent(now)
           held == Unexpired(now)
           active == Active(b, held)
           first == {a \in active : \A x \in active : held[a].expires =< held[x].expires}
           W == Waits(b, rows, held, now)
<1>0. /\ rows[b] # NoRow => /\ rows[b].count \in Nat /\ rows[b].first \in Nat
                            /\ rows[b].blocked \in Nat
                            /\ ~(rows[b].first =< now - Window /\ rows[b].blocked =< now)
      /\ Window \in Nat /\ Max[b] \in Nat \ {0, 1}
  <2>1. failure[b] # NoRow => /\ failure[b].count \in Nat /\ failure[b].first \in Nat
                             /\ failure[b].blocked \in Nat
    BY DEF TypeOK, FailureRows
  <2> QED
    BY <2>1, LoginAssumption DEF Recent
<1>1. \A a \in active : held[a].expires \in Nat /\ held[a].expires > now
  BY DEF TypeOK, ReservationRows, Active, Unexpired
<1>2. active # {} => first # {}
  <2>1. SUFFICES ASSUME active # {} PROVE first # {}
    OBVIOUS
  <2> DEFINE f == [a \in active |-> held[a].expires]
  <2>2. \A a \in active : f[a] \in Nat /\ f[a] = held[a].expires
    BY <1>1
  <2>3. PICK a \in active : \A x \in active : f[a] =< f[x]
    <3> HIDE DEF f, active
    <3> QED
      BY <2>1, <2>2, EarliestExists
  <2> QED
    BY <2>2, <2>3
<1> HIDE DEF rows, held, active, first
<1>3. W = (IF Blocked(b, rows, now) THEN {rows[b].blocked - now} ELSE {})
          \cup (IF Full(b, rows, held)
                THEN IF active # {} THEN {held[a].expires - now : a \in first}
                     ELSE {rows[b].first + Window - now}
                ELSE {})
  BY DEF Waits, active, first
<1>4. first \subseteq active
  BY DEF first
<1>5. Full(b, rows, held) /\ active = {} => rows[b] # NoRow
  BY <1>0, FS_EmptySet DEF Full, Count, active
<1>6. \A a, x \in first : held[a].expires = held[x].expires
  BY <1>1 DEF first
<1> HIDE DEF W
<1>7. ASSUME NEW w \in W PROVE w \in Int
  BY <1>0, <1>1, <1>3, <1>4, <1>5 DEF Blocked
<1>8. \E n \in Nat : \A w \in W : w =< n
  <2>1. \E n \in Nat : Blocked(b, rows, now) => rows[b].blocked - now =< n
    BY <1>0 DEF Blocked
  <2>2. \E n \in Nat : \A a \in first : held[a].expires - now =< n
    BY <1>1, <1>4, <1>6
  <2>3. \E n \in Nat : Full(b, rows, held) /\ active = {} => rows[b].first + Window - now =< n
    <3>1. CASE Full(b, rows, held) /\ active = {}
      <4>1. rows[b].first + Window \in Nat /\ rows[b].first + Window - now =< rows[b].first + Window
        BY <1>0, <1>5, <3>1
      <4> QED
        BY <4>1
    <3> QED
      BY <3>1
  <2>4. PICK n \in Nat : Blocked(b, rows, now) => rows[b].blocked - now =< n
    BY <2>1
  <2>5. PICK m \in Nat : \A a \in first : held[a].expires - now =< m
    BY <2>2
  <2>6. PICK k \in Nat : Full(b, rows, held) /\ active = {} => rows[b].first + Window - now =< k
    BY <2>3
  <2>7. ASSUME NEW w \in W PROVE w =< n + m + k
    <3>1. w =< n \/ w =< m \/ w =< k
      BY <1>3, <2>4, <2>5, <2>6
    <3> QED
      BY <3>1, <1>7
  <2>8. n + m + k \in Nat
    OBVIOUS
  <2> QED
    BY <2>7, <2>8
<1>9. ~Blocked(b, rows, now) /\ ~Full(b, rows, held) => W = {}
  BY <1>3
<1>10. CASE Blocked(b, rows, now)
  <2>1. rows[b].blocked - now > 0 /\ rows[b].blocked - now \in W
    BY <1>0, <1>3, <1>10 DEF Blocked
  <2> QED
    BY <2>1, <1>7, <1>8, <1>10 DEF W, rows, held
<1>11. CASE ~Blocked(b, rows, now) /\ Full(b, rows, held)
  <2>1. CASE active # {}
    <3>1. PICK a \in first : TRUE
      BY <1>2, <2>1
    <3>2. held[a].expires - now > 0 /\ held[a].expires - now \in W
      BY <1>1, <1>3, <1>4, <1>11, <2>1
    <3> QED
      BY <3>2, <1>7, <1>8, <1>11 DEF W, rows, held
  <2>2. CASE active = {}
    <3>1. rows[b].first + Window - now > 0
      BY <1>0, <1>5, <1>11, <2>2 DEF Blocked
    <3>2. rows[b].first + Window - now \in W
      BY <1>3, <1>11, <2>2
    <3> QED
      BY <3>1, <3>2, <1>7, <1>8, <1>11 DEF W, rows, held
  <2> QED
    BY <2>1, <2>2
<1>12. CASE ~Blocked(b, rows, now) /\ ~Full(b, rows, held)
  BY <1>9, <1>12 DEF W, rows, held
<1> QED
  BY <1>10, <1>11, <1>12

(* The waits of the three buckets, and none. *)
LEMMA WaitsOfBuckets ==
    ASSUME NEW a \in Attempts, NEW now \in Nat, NEW w
    PROVE  w \in AllWaits(a, now) <=>
             w = 0 \/ \E b \in BucketsOf[a] : w \in Waits(b, Recent(now), Unexpired(now), now)
<1> DEFINE F == {Waits(b, Recent(now), Unexpired(now), now) : b \in BucketsOf[a]}
<1>1. AllWaits(a, now) = {0} \cup UNION F
  BY DEF AllWaits
<1>2. (\E X \in F : w \in X)
        <=> \E b \in BucketsOf[a] : w \in Waits(b, Recent(now), Unexpired(now), now)
  OBVIOUS
<1> HIDE DEF F
<1>3. w \in {0} \cup UNION F <=> w = 0 \/ \E X \in F : w \in X
  OBVIOUS
<1> QED
  BY <1>1, <1>2, <1>3

(* There is a longest wait.                                                *)
LEMMA LongestIsLongest ==
    ASSUME TypeOK, NEW a \in Attempts, NEW now \in Nat
    PROVE  /\ LongestWait(a, now) \in AllWaits(a, now) /\ LongestWait(a, now) \in Nat
           /\ \A w \in AllWaits(a, now) : w \in Int /\ w =< LongestWait(a, now)
<1> DEFINE W(b) == Waits(b, Recent(now), Unexpired(now), now)
           S == AllWaits(a, now)
<1>1. S = {0} \cup UNION {W(b) : b \in BucketsOf[a]}
  BY DEF AllWaits
<1>2. AccountOf[a] \in Buckets /\ AddressOf[a] \in Buckets /\ Everyone \in Buckets
  BY LoginAssumption
<1>3. S = W(AccountOf[a]) \cup W(AddressOf[a]) \cup W(Everyone) \cup {0}
  <2> HIDE DEF W, S
  <2>1. BucketsOf[a] = {AccountOf[a], AddressOf[a], Everyone}
    BY DEF BucketsOf
  <2>2. \A x : x \in S <=> x = 0 \/ \E b \in BucketsOf[a] : x \in W(b)
    BY WaitsOfBuckets DEF S, W
  <2>3. \A x : x \in S <=> x \in W(AccountOf[a]) \cup W(AddressOf[a]) \cup W(Everyone) \cup {0}
    BY <2>1, <2>2
  <2> QED
    BY <2>3
<1>4. \A b \in Buckets : W(b) \subseteq Int /\ \E n \in Nat : \A w \in W(b) : w =< n
  BY WaitsAreBounded
<1> HIDE DEF W, S
<1>5. PICK n \in Nat : \A w \in W(AccountOf[a]) : w =< n
  BY <1>2, <1>4
<1>6. PICK m \in Nat : \A w \in W(AddressOf[a]) : w =< m
  BY <1>2, <1>4
<1>7. PICK k \in Nat : \A w \in W(Everyone) : w =< k
  BY <1>2, <1>4
<1>8. S \in SUBSET Int /\ 0 \in S
  BY <1>2, <1>3, <1>4
<1>9. n + m + k \in Nat /\ \A w \in S : w =< n + m + k
  BY <1>3, <1>5, <1>6, <1>7, <1>8
<1>10. \E x \in S : \A w \in S : w =< x
  BY <1>8, <1>9, GreatestExists
<1>11. LongestWait(a, now) \in S /\ \A w \in S : w =< LongestWait(a, now)
  BY <1>10 DEF LongestWait, S
<1> QED
  BY <1>8, <1>11 DEF S

(* An attempt is admitted exactly if its buckets have room and the tables  *)
(* are not at their cap.                                                   *)
LEMMA RoomIsNoWait ==
    ASSUME TypeOK, NEW a \in Attempts, NEW now \in Nat
    PROVE  /\ LongestWait(a, now) = 0 <=> HasRoom(a, now)
           /\ RetryAfter(a, now) = 0 <=> HasRoom(a, now) /\ ~Crowded(now)
<1> DEFINE wait == LongestWait(a, now)
           W(b) == Waits(b, Recent(now), Unexpired(now), now)
<1>1. \A b \in BucketsOf[a] : b \in Buckets
  BY LoginAssumption DEF BucketsOf
<1>2. /\ wait \in AllWaits(a, now) /\ wait \in Nat
      /\ \A w \in AllWaits(a, now) : w \in Int /\ w =< wait
  BY LongestIsLongest
<1>3. \A w : w \in AllWaits(a, now) <=> w = 0 \/ \E b \in BucketsOf[a] : w \in W(b)
  BY WaitsOfBuckets
<1>4. \A b \in BucketsOf[a] :
        /\ (\E w \in W(b) : w > 0)
              <=> \/ Blocked(b, Recent(now), now)
                  \/ Full(b, Recent(now), Unexpired(now))
        /\ ~Blocked(b, Recent(now), now) /\ ~Full(b, Recent(now), Unexpired(now))
              => W(b) = {}
  BY <1>1, WaitsAreBounded
<1> HIDE DEF wait, W
<1>5. ASSUME wait = 0 PROVE HasRoom(a, now)
  <2>1. ASSUME NEW b \in BucketsOf[a]
        PROVE  ~Blocked(b, Recent(now), now) /\ ~Full(b, Recent(now), Unexpired(now))
    <3>1. \A w \in W(b) : w =< 0 /\ w \in Int
      BY <1>2, <1>3, <1>5
    <3>2. ~\E w \in W(b) : w > 0
      BY <3>1
    <3> QED
      BY <1>4, <3>2
  <2> QED
    BY <2>1 DEF HasRoom
<1>6. ASSUME HasRoom(a, now) PROVE wait = 0
  <2>1. \A b \in BucketsOf[a] : W(b) = {}
    BY <1>4, <1>6 DEF HasRoom
  <2> QED
    BY <1>2, <1>3, <2>1
<1>7. RetryAfter(a, now) = 0 <=> wait = 0 /\ ~Crowded(now)
  BY <1>2 DEF RetryAfter, wait
<1> QED
  BY <1>5, <1>6, <1>7 DEF wait

LEMMA ReserveRefines ==
    ASSUME ThrottleInv, TypeOK', NEW a \in Attempts, NEW now \in Lately, Reserve(a, now)
    PROVE  Limit!Next
<1> DEFINE allowed == RetryAfter(a, now) = 0
<1>0. TypeOK /\ now \in 0..clock /\ clock \in Nat /\ Lease \in Nat \ {0}
  BY LoginAssumption DEF ThrottleInv, TypeOK, Lately
<1>1. Unexpired(now) \in [Attempts -> ReservationRows \cup {NoRow}]
  BY <1>0, UnexpiredTypes
<1>2. /\ failure' = Recent(now)
      /\ UNCHANGED <<clock, session>>
      /\ \A x \in Attempts \ {a} : reservation'[x] = Unexpired(now)[x]
  BY <1>1 DEF Reserve
<1>3. Limit!Typed /\ Entered' = Entered
  BY <1>2, LimitTyped DEF Entered
<1>4. CASE ~allowed
  <2>1. reservation' = Unexpired(now)
    BY <1>4 DEF Reserve
  <2>2. Limit!Forget
    BY <1>2, <1>3, <2>1, ReserveForgets DEF Limit!Forget, Entered
  <2> QED
    BY <2>2 DEF Limit!Next
<1>5. CASE allowed
  <2>1. reservation' = [Unexpired(now) EXCEPT ![a] = [expires |-> now + Lease, valid |-> TRUE]]
    BY <1>5 DEF Reserve
  <2>2. [expires |-> now + Lease, valid |-> TRUE] \in ReservationRows
    BY <1>0 DEF ReservationRows
  <2>3. reservation'[a] # NoRow /\ reservation'[a].valid
    BY <2>1, <2>2, <1>1, NoRowIsNoRow
  <2>4. reservation[a] = NoRow
    BY DEF ThrottleInv, Unreserved, Reserve
  <2>5. Standing[a] = "none" /\ Standing'[a] = "open"
    BY <2>3, <2>4 DEF Standing
  <2>6. ASSUME NEW b \in BucketsOf[a]
        PROVE  Cardinality(Limit!Open(b)' \ {a}) + Failed'[b] < Max[b]
    <3>0. b \in Buckets
      BY LoginAssumption DEF BucketsOf
    <3>1. Limit!Open(b)' \ {a} \subseteq Active(b, Unexpired(now))
      BY <1>2 DEF Limit!Open, Standing, Active
    <3>2. Active(b, Unexpired(now)) \subseteq Limit!Open(b)' \ {a}
      <4>1. Unexpired(now)[a] = NoRow
        BY <2>4, <1>0, UnexpiredTypes
      <4> QED
        BY <4>1, <1>2 DEF Limit!Open, Standing, Active
    <3>3. Failed'[b] = Count(b, Recent(now))
      BY <1>2, <3>0 DEF Failed, Count
    <3>4. ~Full(b, Recent(now), Unexpired(now))
      <4>1. HasRoom(a, now)
        BY <1>0, <1>5, RoomIsNoWait
      <4> QED
        BY <4>1 DEF HasRoom
    <3>5. Cardinality(Active(b, Unexpired(now))) \in Nat
      BY FS_Subset, FS_CardinalityType, LoginAssumption,
         Active(b, Unexpired(now)) \in SUBSET Attempts
      DEF Active
    <3>6. Count(b, Recent(now)) \in Nat /\ Max[b] \in Nat
      BY <3>0, <1>0, RecentTypes, LoginAssumption DEF Count, FailureRows
    <3>7. Limit!Open(b)' \ {a} = Active(b, Unexpired(now))
      BY <3>1, <3>2
    <3> QED
      BY <3>3, <3>4, <3>5, <3>6, <3>7 DEF Full
  <2>7. Limit!Admit(a)
    BY <1>2, <1>3, <2>5, <2>6, ReserveForgets
    DEF Limit!Admit, Entered, Failed, Limit!Cardinality, Cardinality
  <2> QED
    BY <2>7 DEF Limit!Next
<1> QED
  BY <1>4, <1>5

(* A request that only gives up its reservation. *)
LEMMA ReleaseRefines ==
    ASSUME ThrottleInv, TypeOK', NEW a \in Attempts,
           reservation' = [reservation EXCEPT ![a] = NoRow],
           UNCHANGED <<failure, session, clock>>
    PROVE  Limit!Next
<1>1. \A x \in Attempts : Limit!MayLapse(x)
  BY DEF Limit!MayLapse, Standing, ThrottleInv, TypeOK
<1>2. \A b \in Buckets : Limit!MayForget(b)
  BY DEF Limit!MayForget, Limit!Same, Count
<1>3. Limit!Forget
  BY <1>1, <1>2, LimitTyped DEF Limit!Forget
<1> QED
  BY <1>3 DEF Limit!Next

LEMMA FailureRefines ==
    ASSUME ThrottleInv, TypeOK', NEW a \in Attempts, CompleteFailure(a)
    PROVE  Limit!Next
<1>0. /\ TypeOK /\ login[a].at \in 0..clock
      /\ UNCHANGED <<clock, session>>
      /\ reservation' = [reservation EXCEPT ![a] = NoRow]
  BY RecordTypes, LoginAssumption DEF ThrottleInv, TypeOK, Timely, CompleteFailure
<1>1. CASE ~(Admitted(a) /\ reservation[a].valid)
  BY <1>0, <1>1, ReleaseRefines DEF CompleteFailure
<1>2. CASE Admitted(a) /\ reservation[a].valid
  <2>1. failure' = [b \in Buckets |-> IF b \in BucketsOf[a]
                                     THEN Recorded(b, login[a].at) ELSE failure[b]]
    BY <1>2 DEF CompleteFailure
  <2>2. Standing[a] = "open" /\ Standing'[a] = "none"
    BY <1>0, <1>2 DEF Admitted, Standing, TypeOK
  <2>3. \A x \in Attempts \ {a} : Standing'[x] = Standing[x]
    BY <1>0 DEF Standing, TypeOK
  <2>4. ASSUME NEW b \in BucketsOf[a]
        PROVE  \/ Failed[b] > 0 /\ Failed'[b] = Failed[b] + 1 /\ Began'[b] = Began[b]
               \/ /\ Failed[b] = 0 \/ Began[b] + Window =< clock
                  /\ Failed'[b] = 1 /\ Began'[b] =< clock
               \/ Failed[b] >= Max[b] /\ Failed'[b] = Failed[b] /\ Began'[b] = Began[b]
    <3>0. b \in Buckets
      BY LoginAssumption DEF BucketsOf
    <3>1. failure'[b] = Recorded(b, login[a].at) /\ failure'[b] # NoRow
      BY <2>1, <3>0, <1>0, RecordedCounts, NoRowIsNoRow
    <3>2. /\ Failed'[b] = failure'[b].count /\ Began'[b] = failure'[b].first
          /\ Failed[b] = (IF failure[b] = NoRow THEN 0 ELSE failure[b].count)
          /\ Began[b] = (IF failure[b] = NoRow THEN 0 ELSE failure[b].first)
      BY <3>0, <3>1 DEF Failed, Began, Count
    <3>3. failure[b] # NoRow => failure[b].count > 0
      BY <3>0 DEF ThrottleInv, Timely
    <3> QED
      BY <3>0, <3>1, <3>2, <3>3, <1>0, RecordedCounts
  <2>5. \A b \in Buckets \ BucketsOf[a] : Limit!Same(b)
    BY <2>1 DEF Limit!Same, Count
  <2>6. Limit!Fail(a)
    <3>1. BucketsOf[a] \subseteq Buckets
      BY LoginAssumption DEF BucketsOf
    <3> QED
      BY <1>0, <2>2, <2>3, <2>4, <2>5, <3>1, LimitTyped
      DEF Limit!Fail, Limit!Same, Failed, Began
  <2> QED
    BY <2>6 DEF Limit!Next
<1> QED
  BY <1>1, <1>2

LEMMA SessionRefines ==
    ASSUME ThrottleInv, TypeOK', NEW a \in Attempts, CreateSession(a)
    PROVE  Limit!Next
<1>0. TypeOK /\ UNCHANGED clock /\ AccountOf[a] \in Buckets
  BY LoginAssumption DEF ThrottleInv, CreateSession
<1>1. CASE Refuse(a)
  BY <1>0, <1>1, ReleaseRefines DEF Refuse
<1>2. CASE OpenSession(a, login[a].at) /\ Admitted(a)
  <2>1. Standing[a] # "none" /\ Standing'[a] = "none"
    BY <1>2 DEF Admitted, OpenSession, Standing
  <2>2. ASSUME NEW x \in Attempts \ {a}
        PROVE  \/ Standing'[x] = Standing[x]
               \/ AccountOf[x] = AccountOf[a] /\ Standing[x] # "none" /\ Standing'[x] = "excused"
    <3>1. CASE reservation'[x] = reservation[x]
      BY <3>1 DEF Standing
    <3>2. CASE /\ AccountOf[x] = AccountOf[a] /\ reservation[x] # NoRow
               /\ reservation'[x] = [reservation[x] EXCEPT !.valid = FALSE]
      <4>1. reservation[x] \in ReservationRows
        BY <3>2, <1>0 DEF TypeOK
      <4>2. reservation'[x] \in ReservationRows /\ ~reservation'[x].valid
        BY <3>2, <4>1 DEF ReservationRows
      <4> QED
        BY <3>2, <4>2, NoRowIsNoRow DEF Standing
    <3> QED
      BY <3>1, <3>2, <1>2 DEF OpenSession
  <2>3. /\ Failed' = [Failed EXCEPT ![AccountOf[a]] = 0]
        /\ Began' = [Began EXCEPT ![AccountOf[a]] = 0]
    BY <1>0, <1>2 DEF OpenSession, Failed, Began, Count, TypeOK
  <2>4. Entered' = Entered \cup {a}
    <3>1. \A x \in Attempts \ {a} : session'[x] = session[x]
      BY <1>2, <1>0 DEF OpenSession, TypeOK
    <3>2. session'[a] = [since |-> login[a].at, revoked |-> FALSE, proved |-> login[a].read]
      BY <1>2, <1>0 DEF OpenSession, TypeOK
    <3>3. session'[a] \in SessionRows
      BY <3>2, <1>0, RecordTypes DEF SessionRows, TypeOK
    <3> QED
      BY <3>1, <3>3, NoRowIsNoRow DEF Entered
  <2>5. Limit!Enter(a)
    BY <1>0, <2>1, <2>2, <2>3, <2>4, LimitTyped DEF Limit!Enter, Failed, Began, Entered
  <2> QED
    BY <2>5 DEF Limit!Next
<1> QED
  BY <1>1, <1>2 DEF CreateSession

(* Sessions are revoked, never removed. *)
LEMMA SessionsStay ==
    ASSUME TypeOK, TypeOK',
           \/ \E a \in Attempts : Logout(a)
           \/ \E c \in Changes : ReplacePassword(c)
    PROVE  Entered' = Entered
<1>1. ASSUME NEW a \in Attempts, Logout(a) PROVE Entered' = Entered
  <2>1. session[a] \in SessionRows /\ session \in [Attempts -> SessionRows \cup {NoRow}]
    BY <1>1 DEF Logout, Valid, TypeOK
  <2>2. session'[a] \in SessionRows
    BY <1>1, <2>1 DEF Logout, SessionRows
  <2>3. \A x \in Attempts \ {a} : session'[x] = session[x]
    BY <1>1, <2>1 DEF Logout
  <2> QED
    BY <2>1, <2>2, <2>3, NoRowIsNoRow DEF Entered
<1>2. ASSUME NEW c \in Changes, ReplacePassword(c) PROVE Entered' = Entered
  <2>1. CASE UNCHANGED session
    BY <2>1 DEF Entered
  <2>2. ASSUME NEW x \in Attempts, ~UNCHANGED session
        PROVE  session'[x] = NoRow <=> session[x] = NoRow
    <3>0. password + 1 \in Nat
      BY DEF TypeOK
    <3>1. session[x] # NoRow => session[x] \in SessionRows
      BY DEF TypeOK
    <3>2. session[x] # NoRow =>
            /\ [session[x] EXCEPT !.revoked = TRUE] \in SessionRows
            /\ [session[x] EXCEPT !.proved = password + 1] \in SessionRows
      BY <3>0, <3>1 DEF SessionRows
    <3> QED
      BY <1>2, <2>2, <3>2, NoRowIsNoRow DEF ReplacePassword
  <2> QED
    BY <2>1, <2>2 DEF Entered
<1> QED
  BY <1>1, <1>2

LEMMA StepRefines == ThrottleInv /\ [Next]_vars => [Limit!Next]_(Limit!limitVars)
<1> SUFFICES ASSUME ThrottleInv, [Next]_vars
             PROVE  Limit!Next \/ UNCHANGED <<Standing, Failed, Began, Entered, clock>>
  BY DEF Limit!limitVars, Failed, Began, Entered
<1>0. TypeOK /\ TypeOK'
  BY NextType DEF ThrottleInv
<1>1. CASE UNCHANGED <<clock, throttle>> /\ Entered' = Entered
  BY <1>1 DEF throttle, Standing, Failed, Began, Count
<1>2. ASSUME NEW a \in Attempts, LoginStep(a) PROVE Limit!Next \/ UNCHANGED <<clock, throttle, session>>
  <2>1. ASSUME NEW now \in Lately, Reserve(a, now) PROVE Limit!Next
    BY <2>1, <1>0, ReserveRefines
  <2>2. CASE CancelReservation(a)
    BY <2>2, <1>0, ReleaseRefines DEF CancelReservation
  <2>3. CASE CompleteFailure(a)
    BY <2>3, <1>0, FailureRefines
  <2>4. CASE CreateSession(a)
    BY <2>4, <1>0, SessionRefines
  <2> QED
    BY <1>2, <2>1, <2>2, <2>3, <2>4 DEF LoginStep, Verify
<1>3. CASE UNCHANGED <<clock, throttle, session>>
  BY <1>3, <1>1 DEF Entered
<1>4. ASSUME NEW a \in Attempts, Logout(a)
      PROVE  UNCHANGED <<clock, throttle>> /\ Entered' = Entered
  BY <1>4, <1>0, SessionsStay DEF Logout
<1>5. ASSUME NEW c \in Changes, ChangeStep(c)
      PROVE  UNCHANGED <<clock, throttle>> /\ Entered' = Entered
  <2>1. CASE ReplacePassword(c)
    BY <2>1, <1>0, SessionsStay DEF ReplacePassword
  <2>2. CASE ~ReplacePassword(c)
    BY <1>5, <2>2 DEF ChangeStep, BeginChange, VerifyCurrent, Hash, GiveUp, Entered
  <2> QED
    BY <2>1, <2>2
<1>6. CASE Tick
  <2>1. UNCHANGED <<Standing, Failed, Began, Entered>> /\ clock' = clock + 1
    BY <1>6 DEF Tick, throttle, Standing, Failed, Began, Entered, Count
  <2>2. Limit!Tick
    BY <2>1 DEF Limit!Tick, Failed, Began, Entered
  <2> QED
    BY <2>2 DEF Limit!Next
<1> QED
  BY <1>1, <1>2, <1>3, <1>4, <1>5, <1>6 DEF Next, vars, throttle

LEMMA InitThrottle == Init => ThrottleInv /\ Limit!Init
<1> SUFFICES ASSUME Init PROVE ThrottleInv /\ Limit!Init
  OBVIOUS
<1>1. ThrottleInv
  BY InitType DEF Init, ThrottleInv, Timely, Unreserved, Start
<1>2. Limit!Init
  BY DEF Init, Limit!Init, Standing, Count
<1> QED
  BY <1>1, <1>2

(* The throttle keeps what AttemptLimit promises. *)
THEOREM ThrottleImplementsLimit == Spec => ImplementsLimit
<1>1. ThrottleInv /\ [Next]_vars => ThrottleInv' /\ [Limit!Next]_(Limit!limitVars)
  BY NextThrottle, StepRefines
<1> QED
  BY <1>1, InitThrottle, PTL DEF Spec, ImplementsLimit, Limit!Spec

-----------------------------------------------------------------------------
(* The wait that is told.                                                  *)

(* What the abstract throttle promises, of the tables.                     *)
Promise == INSTANCE AttemptLimitProofs WITH
    attempt <- Standing,
    failed  <- [b \in Buckets |-> Count(b, failure)],
    began   <- [b \in Buckets |-> IF failure[b] = NoRow THEN 0 ELSE failure[b].first],
    entered <- {a \in Attempts : session[a] # NoRow}

Within ==
    \A b \in Buckets : Cardinality(Active(b, reservation)) + Count(b, failure) =< Max[b]

(* AttemptLimit has one meaning, with its theorems and without. *)
LEMMA SameLimit ==
    /\ Limit!Init => Promise!Init
    /\ [Limit!Next]_(Limit!limitVars) => [Promise!Next]_(Promise!limitVars)
<1>1. Limit!Init => Promise!Init
  BY DEF Limit!Init, Promise!Init
<1>2. Limit!limitVars = Promise!limitVars /\ Limit!limitVars' = Promise!limitVars'
  BY DEF Limit!limitVars, Promise!limitVars
<1>3. Limit!Tick => Promise!Tick
  BY DEF Limit!Tick, Promise!Tick
<1>4. Limit!Typed <=> Promise!Typed
  BY DEF Limit!Typed, Promise!Typed
<1>5. \A a \in Attempts : Limit!MayLapse(a) <=> Promise!MayLapse(a)
  BY DEF Limit!MayLapse, Promise!MayLapse
<1>6. \A b \in Buckets : Limit!Same(b) <=> Promise!Same(b)
  BY DEF Limit!Same, Promise!Same
<1>7. \A b \in Buckets : Limit!MayForget(b) <=> Promise!MayForget(b)
  BY <1>6 DEF Limit!MayForget, Promise!MayForget
<1>8. \A b \in Buckets : Limit!Open(b)' = Promise!Open(b)'
  BY DEF Limit!Open, Promise!Open
<1>9. \A S : Limit!Cardinality(S) = Promise!Cardinality(S)
  BY DEF Limit!Cardinality, Promise!Cardinality
<1>10. Limit!Forget => Promise!Forget
  BY <1>4, <1>5, <1>7 DEF Limit!Forget, Promise!Forget
<1>11. ASSUME NEW a \in Attempts, Limit!Admit(a) PROVE Promise!Admit(a)
  <2>1. \A b \in BucketsOf[a] : b \in Buckets
    BY LoginAssumption DEF BucketsOf
  <2>2. \A b \in BucketsOf[a] : Limit!Cardinality(Limit!Open(b)' \ {a})
                                  = Promise!Cardinality(Promise!Open(b)' \ {a})
    BY <1>8, <1>9, <2>1
  <2> QED
    BY <1>4, <1>5, <1>7, <1>11, <2>1, <2>2 DEF Limit!Admit, Promise!Admit
<1>12. ASSUME NEW a \in Attempts, Limit!Fail(a) PROVE Promise!Fail(a)
  BY <1>4, <1>6, <1>12, LoginAssumption DEF Limit!Fail, Promise!Fail, BucketsOf
<1>13. ASSUME NEW a \in Attempts, Limit!Enter(a) PROVE Promise!Enter(a)
  BY <1>4, <1>13 DEF Limit!Enter, Promise!Enter
<1> QED
  BY <1>1, <1>2, <1>3, <1>10, <1>11, <1>12, <1>13 DEF Limit!Next, Promise!Next

(* In no bucket do the reservations that count and the failures that the   *)
(* tables hold ever exceed its limit together, however late the requests   *)
(* come to the database (reserve_attempt, complete_reserved_failure).      *)
THEOREM TablesWithin == Spec => [](TypeOK /\ Within)
<1>1. Promise!LimitAssumption
  <2>1. IsFiniteSet(Attempts) => Promise!IsFiniteSet(Attempts)
    BY DEF Promise!IsFiniteSet, IsFiniteSet
  <2>2. /\ BucketsOf \in [Attempts -> SUBSET Buckets]
        /\ \A a \in Attempts : AccountOf[a] \in BucketsOf[a]
        /\ Max \in [Buckets -> Nat] /\ Window \in Nat
    BY LoginAssumption DEF BucketsOf
  <2> QED
    BY <2>1, <2>2, LoginAssumption DEF Promise!LimitAssumption
<1> DEFINE I == ThrottleInv /\ Promise!LimitTypeOK /\ Promise!Within
<1>2. Init => I
  BY <1>1, InitThrottle, SameLimit, Promise!InitWithin
<1>3. I /\ [Next]_vars => I'
  BY <1>1, NextThrottle, StepRefines, SameLimit, Promise!NextWithin
<1>4. Promise!Within => Within
  <2>1. ASSUME NEW b \in Buckets
        PROVE  Promise!Open(b) = Active(b, reservation)
    BY DEF Promise!Open, Active, Standing
  <2> QED
    BY <2>1 DEF Promise!Within, Within, Promise!Cardinality, Cardinality
<1>5. I => TypeOK /\ Within
  BY <1>4 DEF ThrottleInv
<1> HIDE DEF I
<1> QED
  BY <1>2, <1>3, <1>5, PTL DEF Spec

(* Later there are no more rows of either table than now, of those there   *)
(* are, and no less room.                                                  *)
LEMMA LaterThereIsMoreRoom ==
    ASSUME TypeOK, NEW b \in Buckets, NEW now \in Nat, NEW later \in Nat, now =< later
    PROVE  /\ Active(b, Unexpired(later)) \subseteq Active(b, Unexpired(now))
           /\ Active(b, Unexpired(now)) \subseteq Active(b, reservation)
           /\ Recent(later)[b] \in {Recent(now)[b], NoRow}
           /\ Recent(now)[b] \in {failure[b], NoRow}
<1>1. /\ \A a \in Attempts : reservation[a] # NoRow => reservation[a].expires \in Nat
      /\ failure[b] # NoRow => failure[b].first \in Nat /\ failure[b].blocked \in Nat
      /\ Window \in Nat
  BY LoginAssumption DEF TypeOK, ReservationRows, FailureRows
<1>2. Active(b, Unexpired(later)) \subseteq Active(b, Unexpired(now))
  BY <1>1 DEF Active, Unexpired
<1>3. Active(b, Unexpired(now)) \subseteq Active(b, reservation)
  BY <1>1 DEF Active, Unexpired
<1>4. Recent(now)[b] \in {failure[b], NoRow} /\ Recent(later)[b] \in {Recent(now)[b], NoRow}
  BY <1>1 DEF Recent
<1> QED
  BY <1>2, <1>3, <1>4

LEMMA ActiveIsFinite ==
    ASSUME NEW b \in Buckets, NEW held, NEW S \in SUBSET Active(b, held)
    PROVE  /\ IsFiniteSet(S) /\ IsFiniteSet(Active(b, held))
           /\ Cardinality(S) \in Nat /\ Cardinality(Active(b, held)) \in Nat
           /\ Cardinality(S) =< Cardinality(Active(b, held))
           /\ S # Active(b, held) => Cardinality(S) < Cardinality(Active(b, held))
<1>1. Active(b, held) \in SUBSET Attempts
  BY DEF Active
<1>2. IsFiniteSet(Active(b, held)) /\ Cardinality(Active(b, held)) \in Nat
  BY <1>1, FS_Subset, FS_CardinalityType, LoginAssumption
<1>3. /\ IsFiniteSet(S) /\ Cardinality(S) =< Cardinality(Active(b, held))
      /\ Cardinality(S) = Cardinality(Active(b, held)) => S = Active(b, held)
  BY <1>2, FS_Subset
<1> QED
  BY <1>2, <1>3, FS_CardinalityType

(* Whoever waits as long as a bucket asks for finds it neither blocked nor *)
(* full.                                                                   *)
LEMMA WaitingIsEnough ==
    ASSUME TypeOK, Within, NEW b \in Buckets, NEW now \in Nat, NEW wait \in Nat,
           \A w \in Waits(b, Recent(now), Unexpired(now), now) : w =< wait
    PROVE  /\ ~Blocked(b, Recent(now + wait), now + wait)
           /\ ~Full(b, Recent(now + wait), Unexpired(now + wait))
<1> DEFINE later == now + wait
           rows == Recent(now)
           active == Active(b, Unexpired(now))
           still == Active(b, Unexpired(later))
<1>0. later \in Nat /\ now =< later /\ Max[b] \in Nat \ {0, 1} /\ Window \in Nat
  BY LoginAssumption
<1>1. /\ still \subseteq active /\ active \subseteq Active(b, reservation)
      /\ Recent(later)[b] \in {rows[b], NoRow} /\ rows[b] \in {failure[b], NoRow}
  BY <1>0, LaterThereIsMoreRoom
<1>2. failure[b] # NoRow =>
         failure[b].count \in Nat /\ failure[b].first \in Nat /\ failure[b].blocked \in Nat
  BY DEF TypeOK, FailureRows
<1>3. /\ Count(b, rows) \in Nat /\ Count(b, rows) =< Count(b, failure)
      /\ Count(b, Recent(later)) \in Nat /\ Count(b, Recent(later)) =< Count(b, rows)
      /\ Count(b, failure) \in Nat
  BY <1>1, <1>2 DEF Count
<1>4. /\ Cardinality(still) \in Nat /\ Cardinality(still) =< Cardinality(active)
      /\ still # active => Cardinality(still) < Cardinality(active)
      /\ Cardinality(active) \in Nat /\ Cardinality(active) =< Cardinality(Active(b, reservation))
      /\ Cardinality(Active(b, reservation)) \in Nat
  BY <1>1, ActiveIsFinite
<1>5. Cardinality(active) + Count(b, rows) =< Max[b]
  BY <1>0, <1>3, <1>4 DEF Within
<1>6. ~Blocked(b, Recent(later), later)
  <2>1. SUFFICES ASSUME Recent(later)[b] # NoRow, rows[b].blocked > later PROVE FALSE
    BY <1>1 DEF Blocked
  <2>2. rows[b] # NoRow /\ rows[b] = failure[b] /\ rows[b].blocked \in Nat
    BY <1>1, <1>2, <2>1
  <2>3. Blocked(b, rows, now)
    BY <1>0, <2>1, <2>2 DEF Blocked
  <2>4. rows[b].blocked - now =< wait
    BY <2>3 DEF Waits
  <2> QED
    BY <2>1, <2>2, <2>4
<1>7. ~Full(b, Recent(later), Unexpired(later))
  <2>1. CASE ~Full(b, rows, Unexpired(now))
    BY <2>1, <1>0, <1>3, <1>4 DEF Full
  <2>2. CASE Full(b, rows, Unexpired(now)) /\ active # {}
    <3>1. \A a \in active : reservation[a].expires \in Nat /\ Unexpired(now)[a] = reservation[a]
      BY DEF TypeOK, ReservationRows, Active, Unexpired
    <3>2. PICK a \in active : \A x \in active : reservation[a].expires =< reservation[x].expires
      <4> DEFINE f == [a \in active |-> reservation[a].expires]
      <4>1. \A a \in active : f[a] \in Nat /\ f[a] = reservation[a].expires
        BY <3>1
      <4>2. PICK a \in active : \A x \in active : f[a] =< f[x]
        <5> HIDE DEF f, active
        <5> QED
          BY <2>2, <4>1, EarliestExists
      <4> QED
        BY <4>1, <4>2
    <3>3. reservation[a].expires - now =< wait
      <4>1. Unexpired(now)[a].expires - now \in Waits(b, rows, Unexpired(now), now)
        BY <2>2, <3>1, <3>2 DEF Waits
      <4> QED
        BY <3>1, <4>1
    <3>4. a \notin still
      BY <3>1, <3>3, <1>0 DEF Active, Unexpired
    <3>5. Cardinality(still) < Cardinality(active)
      BY <1>4, <3>4
    <3> QED
      BY <1>0, <1>3, <1>4, <1>5, <3>5 DEF Full
  <2>3. CASE Full(b, rows, Unexpired(now)) /\ active = {}
    <3>1. Cardinality(active) = 0 /\ Cardinality(still) = 0
      BY <2>3, <1>1, FS_EmptySet
    <3>2. Count(b, rows) >= Max[b]
      BY <2>3, <3>1, <1>0, <1>3 DEF Full
    <3>3. rows[b] # NoRow /\ rows[b] = failure[b]
      BY <3>2, <1>0, <1>1 DEF Count
    <3>4. rows[b].first + Window - now =< wait
      BY <2>3 DEF Waits
    <3>5. Recent(later)[b] = NoRow
      <4>1. failure[b].first =< later - Window
        BY <3>3, <3>4, <1>0, <1>2
      <4>2. failure[b].blocked =< later \/ Recent(later)[b] = NoRow
        BY <1>6, <1>1, <1>2, <3>3, <1>0 DEF Blocked
      <4> QED
        BY <4>1, <4>2 DEF Recent
    <3>6. Count(b, Recent(later)) = 0
      BY <3>5 DEF Count
    <3> QED
      BY <3>1, <3>6, <1>0 DEF Full
  <2> QED
    BY <2>1, <2>2, <2>3
<1> QED
  BY <1>6, <1>7

(* An attempt is told to wait exactly if a bucket of it has no room or the *)
(* tables are at their cap (reserve_attempt), and who waits so long and    *)
(* meets no other attempt finds room in its buckets.                       *)
THEOREM WaitIsEnough == Spec => []RetryIsEnough
<1>1. TypeOK /\ Within => RetryIsEnough
  <2>1. SUFFICES ASSUME TypeOK, Within, NEW a \in Attempts, NEW now \in Lately
                 PROVE  /\ RetryAfter(a, now) = 0 <=> HasRoom(a, now) /\ ~Crowded(now)
                        /\ HasRoom(a, now + RetryAfter(a, now))
    BY DEF RetryIsEnough
  <2>2. now \in Nat /\ \A b \in BucketsOf[a] : b \in Buckets
    BY LoginAssumption DEF Lately, TypeOK, BucketsOf
  <2>3. RetryAfter(a, now) = 0 <=> HasRoom(a, now) /\ ~Crowded(now)
    BY <2>1, <2>2, RoomIsNoWait
  <2>4. /\ RetryAfter(a, now) \in Nat
        /\ \A w \in AllWaits(a, now) : w =< RetryAfter(a, now)
    <3>1. /\ LongestWait(a, now) \in Nat
          /\ \A w \in AllWaits(a, now) : w \in Int /\ w =< LongestWait(a, now)
      BY <2>1, <2>2, LongestIsLongest
    <3>2. RetryAfter(a, now) \in Nat /\ LongestWait(a, now) =< RetryAfter(a, now)
      BY <3>1 DEF RetryAfter
    <3> QED
      BY <3>1, <3>2
  <2>5. HasRoom(a, now + RetryAfter(a, now))
    <3> DEFINE wait == RetryAfter(a, now)
    <3>1. ASSUME NEW b \in BucketsOf[a]
          PROVE  /\ ~Blocked(b, Recent(now + wait), now + wait)
                 /\ ~Full(b, Recent(now + wait), Unexpired(now + wait))
      <4>1. \A w \in Waits(b, Recent(now), Unexpired(now), now) : w =< wait
        BY <2>2, <2>4, WaitsOfBuckets
      <4> HIDE DEF wait
      <4> QED
        BY <2>1, <2>2, <2>4, <4>1, WaitingIsEnough DEF wait
    <3> HIDE DEF wait
    <3> QED
      BY <3>1 DEF HasRoom, wait
  <2> QED
    BY <2>3, <2>5
<1> QED
  BY <1>1, TablesWithin, PTL

=============================================================================
