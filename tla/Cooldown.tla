-------------------------------- MODULE Cooldown --------------------------------
(***************************************************************************)
(* The pause of all Instagram jobs after Instagram answered 429, and the   *)
(* pause of one way to look up a profile.                                  *)
(*                                                                         *)
(*   instagram/cooldown.py         InstagramCooldownStore, a file that     *)
(*                                 holds a deadline and a count of answers *)
(*   instagram/profile_lookup.py   ProfileLookupResolver, which asks a     *)
(*                                 second endpoint when the first answers  *)
(*                                 429, and leaves the first one alone for *)
(*                                 half an hour                            *)
(*   services/job_runner.py        what the worker records after a job     *)
(*   worker.py                     when it claims an Instagram job         *)
(*                                                                         *)
(* Time passes in units of _BASE_COOLDOWN, half an hour, which is also     *)
(* _NATIVE_CIRCUIT_SECONDS; a deadline is kept as the time left to it.     *)
(* There is always an Instagram job to claim.                              *)
(*                                                                         *)
(* Simplifications: the clock does not go backwards; a file that cannot be *)
(* read at all, at which the worker stops, is left out: the store itself   *)
(* replaces its file as a whole.  A job may look up profiles at any time.  *)
(* What asks for a picture or a count only to go on without it (the avatar *)
(* of a direct download, the number of followees) is not one of its        *)
(* requests.  The error of a request is Instaloader's, or in a lookup that *)
(* of the HTTP library; any other error says nothing of Instagram.         *)
(***************************************************************************)
EXTENDS InstagramErrors, Integers

CONSTANTS Longest,     (* _MAX_COOLDOWN                                    *)
          LastProduct, (* the last count whose product is a timedelta: 36  *)
          MaxStrikes,  (* bound: 429 answers in a row                      *)
          MaxCrashes,  (* bound: deaths of the worker from outside         *)
          MaxFailures  (* bound: failures to write or to remove the file   *)

ASSUME CooldownAssumption ==
    /\ Longest \in Nat \ {0}
    /\ LastProduct \in Nat
    /\ MaxStrikes \in Nat
    /\ MaxCrashes \in Nat
    /\ MaxFailures \in Nat

VARIABLES
    strikes,  (* consecutive_rate_limits of the file, 0 if there is none    *)
    left,     (* time to its deadline                                       *)
    mode,     (* instagram_profile_lookup_mode                              *)
    circuit,  (* _native_blocked_until lies ahead                           *)
    pc,       (* idle; native, legacy: looking up a profile; asking for     *)
              (* anything else; limited, succeeded, dead                    *)
    crashes,
    failures,
    (* history *)
    answers,  (* 429 answers in a row that the worker lived to record      *)
    since,    (* time since the last of them                                *)
    refused   (* where it answered 429 within the last half hour, and the   *)
              (* worker lived to take note                                  *)

file    == <<strikes, left>>
lookup  == <<mode, circuit>>
bounds  == <<crashes, failures>>
history == <<answers, since, refused>>
vars    == <<file, lookup, pc, bounds, history>>

Asking == {"native", "legacy", "asking"}

Least(a, b) == IF a < b THEN a ELSE b

-----------------------------------------------------------------------------
(* Mistake: the pause has no longest.                                      *)
DelayUncapped(n) == 2 ^ (Least(n, 6) - 1)

(* _BASE_COOLDOWN doubled with each answer after the first.  Where the     *)
(* power is past the cap its value does not matter.                        *)
Delay(n) == Least(2 ^ (Least(n, 16) - 1), Longest)

(* Mistake: a deadline that has passed still counts.                       *)
ClaimWithoutStrikes ==
    /\ pc = "idle"
    /\ strikes = 0
    /\ pc' = "asking"
    /\ UNCHANGED <<file, lookup, bounds, history>>

(* _claim_next_job *)
Claim ==
    /\ pc = "idle"
    /\ left = 0
    /\ pc' = "asking"
    /\ UNCHANGED <<file, lookup, bounds, history>>

(* resolve: the native endpoint, unless it is not to be asked.             *)
Resolve ==
    /\ pc = "asking"
    /\ pc' = IF mode = "legacy" \/ (mode = "fallback" /\ circuit) THEN "legacy" ELSE "native"
    /\ UNCHANGED <<file, lookup, bounds, history>>

Found ==
    /\ pc \in {"native", "legacy"}
    /\ circuit' = (circuit /\ pc # "native")
    /\ pc' = "asking"
    /\ UNCHANGED <<file, mode, bounds, history>>

(* A plain 429. *)
Refusal(e) == e.typed /\ Code(e) = "limit"

Noted(e) == refused' = IF Refusal(e) THEN refused \union {pc} ELSE refused

(* The error ends the job, and counts as an answer if it is classified as  *)
(* a rate limit, whatever its type.                                        *)
EndsJob(e) ==
    /\ Code(e) = "limit" => strikes < MaxStrikes
    /\ pc' = IF Code(e) = "limit" THEN "limited" ELSE "idle"

(* Mistake: the circuit is not opened.                                     *)
NativeFailsForNow(e) ==
    /\ pc = "native" /\ mode = "fallback" /\ PermitsFallback(e)
    /\ pc' = "legacy"
    /\ Noted(e)
    /\ UNCHANGED <<file, lookup, bounds, answers, since>>

(* The native endpoint answers 429, and the other one is asked instead.    *)
NativeFails(e) ==
    /\ pc = "native" /\ mode = "fallback" /\ PermitsFallback(e)
    /\ circuit' = TRUE
    /\ pc' = "legacy"
    /\ Noted(e)
    /\ UNCHANGED <<file, mode, bounds, answers, since>>

(* The lookup fails.  After both endpoints failed the error of the second  *)
(* one counts, and not the 429 of the first.                               *)
LookupFails(e) ==
    /\ \/ pc = "native" /\ ~(mode = "fallback" /\ PermitsFallback(e))
       \/ pc = "legacy"
    /\ EndsJob(e)
    /\ Noted(e)
    /\ UNCHANGED <<file, lookup, bounds, answers, since>>

(* One item of a synchronization fails, a warning or the end of the job.   *)
ItemFails(e) ==
    /\ pc = "asking"
    /\ IF Blocks(e) THEN EndsJob(e) ELSE UNCHANGED pc
    /\ Noted(e)
    /\ UNCHANGED <<file, lookup, bounds, answers, since>>

(* Another request fails, and the job. *)
RequestFails(e) ==
    /\ pc = "asking"
    /\ EndsJob(e)
    /\ Noted(e)
    /\ UNCHANGED <<file, lookup, bounds, answers, since>>

(* The job fails by itself, or by an error that nobody classifies. *)
Fail ==
    /\ pc \in Asking
    /\ pc' = "idle"
    /\ UNCHANGED <<file, lookup, bounds, history>>

Succeed ==
    /\ pc = "asking"
    /\ pc' = "succeeded"
    /\ UNCHANGED <<file, lookup, bounds, history>>

Recorded ==
    /\ answers' = answers + 1
    /\ since' = 0

(* Mistake: a count whose deadline has passed starts again.                *)
RecordRateLimitAnew ==
    /\ pc = "limited"
    /\ strikes < LastProduct
    /\ strikes' = IF left = 0 THEN 1 ELSE strikes + 1
    /\ left' = Delay(strikes')
    /\ pc' = "idle"
    /\ Recorded
    /\ UNCHANGED <<lookup, bounds, refused>>

(* record_rate_limit *)
RecordRateLimit ==
    /\ pc = "limited"
    /\ strikes < LastProduct
    /\ strikes' = strikes + 1
    /\ left' = Delay(strikes')
    /\ pc' = "idle"
    /\ Recorded
    /\ UNCHANGED <<lookup, bounds, refused>>

(* The store fails before it replaced the file, and the job fails with no  *)
(* pause after it; or after that, when only the directory is not synced.   *)
FailToRecord ==
    /\ pc = "limited"
    /\ strikes < LastProduct
    /\ failures < MaxFailures
    /\ failures' = failures + 1
    /\ \/ UNCHANGED file /\ refused' = IF circuit THEN refused \intersect {"native"} ELSE {}
       \/ strikes' = strikes + 1 /\ left' = Delay(strikes') /\ UNCHANGED refused
    /\ pc' = "idle"
    /\ UNCHANGED <<lookup, crashes, answers, since>>

(* The circuit ends with the process, and so does what was not recorded.   *)
Died ==
    /\ pc' = "dead"
    /\ circuit' = FALSE
    /\ refused' = IF pc = "limited" THEN {}
                  ELSE IF circuit THEN refused \ {"native"}
                  ELSE refused
    /\ UNCHANGED mode

(* The product is no timedelta.  Nobody catches the OverflowError: the     *)
(* worker ends with its job still running.                                 *)
Overflow ==
    /\ pc = "limited"
    /\ strikes >= LastProduct
    /\ Died
    /\ UNCHANGED <<file, bounds, answers, since>>

(* record_success *)
RecordSuccess ==
    /\ pc = "succeeded"
    /\ strikes' = 0
    /\ left' = 0
    /\ answers' = 0
    /\ pc' = "idle"
    /\ UNCHANGED <<lookup, bounds, since, refused>>

(* The file cannot be removed and the count goes on, or its removal is not *)
(* synced.                                                                 *)
FailToReset ==
    /\ pc = "succeeded"
    /\ failures < MaxFailures
    /\ failures' = failures + 1
    /\ \/ UNCHANGED file
       \/ strikes' = 0 /\ left' = 0
    /\ answers' = 0
    /\ pc' = "idle"
    /\ UNCHANGED <<lookup, crashes, since, refused>>

Crash ==
    /\ pc # "dead"
    /\ crashes < MaxCrashes
    /\ crashes' = crashes + 1
    /\ Died
    /\ UNCHANGED <<file, failures, answers, since>>

(* recover_interrupted: the job waits again. *)
Restart ==
    /\ pc = "dead"
    /\ pc' = "idle"
    /\ UNCHANGED <<file, lookup, bounds, history>>

Tick ==
    /\ left > 0 \/ since < Longest \/ circuit \/ refused # {}
    /\ left' = IF left > 0 THEN left - 1 ELSE 0
    /\ circuit' = FALSE
    /\ since' = Least(since + 1, Longest)
    /\ refused' = {}
    /\ UNCHANGED <<strikes, mode, pc, bounds, answers>>

-----------------------------------------------------------------------------
Init ==
    /\ strikes = 0
    /\ left = 0
    /\ mode \in {"native", "fallback", "legacy"}
    /\ circuit = FALSE
    /\ pc = "idle"
    /\ crashes = 0
    /\ failures = 0
    /\ answers = 0
    /\ since = 0
    /\ refused = {}

WorkerStep ==
    \/ Claim \/ Resolve \/ Found \/ Fail \/ Succeed
    \/ RecordRateLimit \/ FailToRecord \/ Overflow
    \/ RecordSuccess \/ FailToReset \/ Restart
    \/ \E e \in Errors : NativeFails(e) \/ LookupFails(e) \/ ItemFails(e) \/ RequestFails(e)

Next == WorkerStep \/ Crash \/ Tick

Spec == Init /\ [][Next]_vars

(* The worker goes on, is restarted when it died, and time passes.         *)
FairSpec == Spec /\ WF_vars(WorkerStep) /\ WF_vars(Tick)

-----------------------------------------------------------------------------
(* Properties.                                                             *)

(* The values each variable may take.                                      *)
TypeOK ==
    /\ strikes \in 0..MaxStrikes
    /\ left \in 0..Longest
    /\ mode \in {"native", "fallback", "legacy"}
    /\ circuit \in BOOLEAN
    /\ pc \in Asking \union {"idle", "limited", "succeeded", "dead"}
    /\ crashes \in 0..MaxCrashes
    /\ failures \in 0..MaxFailures
    /\ answers \in Nat
    /\ since \in 0..Longest
    /\ refused \subseteq Asking

(* The pauses after the first 429 answers, in half hours: 30 minutes, 60,  *)
(* 2 hours, 4 hours, then 6.                                               *)
Schedule(n) == IF n =< 4 THEN <<1, 2, 4, 8>>[n] ELSE 12

(* Whatever happened in between, a crash and a restart too, Instagram is   *)
(* not asked again before the pause its last answers have earned is over.  *)
BacksOff == pc \in Asking /\ answers > 0 => since >= Schedule(answers)

(* An endpoint that answered 429 is left alone for half an hour: by the    *)
(* circuit of the lookup if the other one could be asked instead, by the   *)
(* pause of all jobs if not, in each mode and however the error looks.     *)
NotAskedAgain == pc \notin refused

(* However often Instagram refused, it is asked again one day.             *)
WorkResumes == []<>(pc \in Asking)

(* Every 429 answer is followed by a pause.                                *)
EveryAnswerPauses == [][pc = "limited" /\ pc' # "limited" => left' > 0]_vars

=============================================================================
