--------------------------- MODULE LoginThrottle ---------------------------
(***************************************************************************)
(* The limits on failed sign-ins of the member API and of the admin API,   *)
(* for one peer.  (member_api.cpp and admin_api.cpp, IsThrottled,          *)
(* RegisterFailure / NoteLoginFailure, ClearFailures)                      *)
(*                                                                         *)
(* The member API counts failures that are close together; the admin API   *)
(* counts all since the last success.  A change of the password is not     *)
(* throttled, but a failure of it counts.                                  *)
(***************************************************************************)
EXTENDS Integers, FiniteSets, Sequences

CONSTANTS
  MaxFailuresPerPeer, FailureWindowSeconds, BlockSeconds, \* member API
  kMaxLoginFailures, kLoginBlockSeconds,                  \* admin API
  Never,                                                  \* a null date
  MaxSeconds                                              \* bound on the clock

\* A member's block is longer than the window in which failures are counted
\* (member_api.cpp:31).
ASSUME ThrottleConstants ==
  /\ MaxFailuresPerPeer \in Nat \ {0, 1} /\ kMaxLoginFailures \in Nat \ {0}
  /\ {FailureWindowSeconds, BlockSeconds, kLoginBlockSeconds, MaxSeconds} \subseteq Nat
  /\ FailureWindowSeconds < BlockSeconds
  /\ Never \notin Nat

VARIABLES
  api,      \* the API the peer asks
  record,   \* FailureRecord or LoginThrottle of the peer; a fresh one if there is none
  failed,   \* history: when a throttled request failed, since the last success
  clock

throttleVars == <<api, record, failed, clock>>

Fresh == [firstAt |-> Never, count |-> 0, blockedUntil |-> Never]

IsThrottled == record.blockedUntil # Never /\ record.blockedUntil > clock

\* The record once its block is over.
Looked == IF record.blockedUntil # Never /\ ~IsThrottled THEN Fresh ELSE record

CountedMember(r) ==
  IF r.firstAt = Never \/ clock - r.firstAt > FailureWindowSeconds
  THEN [r EXCEPT !.firstAt = clock, !.count = 1]
  ELSE [r EXCEPT !.count = @ + 1]

RegisterFailure(r) ==
  LET counted == CountedMember(r) IN
  IF counted.count >= MaxFailuresPerPeer
  THEN [firstAt |-> Never, count |-> 0, blockedUntil |-> clock + BlockSeconds]
  ELSE counted

\* Mutant: one failure too many is let through.
NoteLoginFailure_OneMore(r) ==
  IF r.count >= kMaxLoginFailures
  THEN [r EXCEPT !.count = 0, !.blockedUntil = clock + kLoginBlockSeconds]
  ELSE [r EXCEPT !.count = @ + 1]

NoteLoginFailure(r) ==
  IF r.count + 1 >= kMaxLoginFailures
  THEN [r EXCEPT !.count = 0, !.blockedUntil = clock + kLoginBlockSeconds]
  ELSE [r EXCEPT !.count = @ + 1]

Failure(r) == IF api = "member" THEN RegisterFailure(r) ELSE NoteLoginFailure(r)

SignInFails ==
  /\ ~IsThrottled
  /\ record' = Failure(Looked)
  /\ failed' = Append(failed, clock)
  /\ UNCHANGED <<api, clock>>

SignInSucceeds ==
  /\ ~IsThrottled
  /\ record' = Fresh
  /\ failed' = <<>>
  /\ UNCHANGED <<api, clock>>

\* POST /member/v1/me/password with the wrong present password; the record is not
\* looked at first.
ChangePasswordFails ==
  /\ api = "member"
  /\ record' = RegisterFailure(record)
  /\ UNCHANGED <<api, failed, clock>>

\* 429, with the seconds that are left.
SignInRefused == IsThrottled /\ UNCHANGED throttleVars

ClockTicks ==
  /\ clock < MaxSeconds
  /\ clock' = clock + 1
  /\ UNCHANGED <<api, record, failed>>

ThrottleInit == api \in {"member", "admin"} /\ record = Fresh /\ failed = <<>> /\ clock = 0

ThrottleNext == SignInFails \/ SignInSucceeds \/ SignInRefused \/ ChangePasswordFails \/ ClockTicks

ThrottleSpec == ThrottleInit /\ [][ThrottleNext]_throttleVars

-----------------------------------------------------------------------------
ThrottleTyped ==
  /\ api \in {"member", "admin"} /\ clock \in 0 .. MaxSeconds
  /\ record \in [firstAt: Nat \cup {Never}, count: Nat, blockedUntil: Nat \cup {Never}]
  /\ failed \in Seq(0 .. MaxSeconds)

FailedWithin(from, to) == {i \in DOMAIN failed : failed[i] \in from .. to}

\* A peer that never succeeds gets no more than a bounded number of answers: of the
\* admin API as many as it allows for each block, of the member API less than twice
\* as many for each window, since a window that is half over may be followed by another
\* (member_api.cpp:330, admin_api.cpp:585).
GuessesBounded ==
  \A t \in 0 .. clock :
    IF api = "admin"
    THEN Cardinality(FailedWithin(t, t + kLoginBlockSeconds - 1)) <= kMaxLoginFailures
    ELSE Cardinality(FailedWithin(t, t + FailureWindowSeconds)) <= 2 * MaxFailuresPerPeer - 2
=============================================================================
