---------------------------- MODULE SignInLimits ----------------------------
(* The two limiters in front of the sign-in routes, for one client address  *)
(* and one login subject.                                                   *)
(*                                                                          *)
(* PublicAuthRateLimiter counts the attempts of an address in windows of    *)
(* the process's clock with one upsert; LoginAttemptLimiter reads the       *)
(* number of recent failures before the credential is looked at and records *)
(* a failure after it. Nothing is held between the two.                     *)
EXTENDS Integers, FiniteSets

CONSTANTS
    Tries,          \* calls of a sign-in route
    MaxAttempts,    \* maximumProviderLogins and its likes
    MaxFailures,    \* maximumFailures
    LastWindow      \* bound of the windows

ASSUME LimitsAssumption ==
    /\ {MaxAttempts, MaxFailures} \subseteq Nat \ {0}
    /\ LastWindow \in Nat
    /\ IsFiniteSet(Tries)

VARIABLES
    present,    \* the window of the process's clock
    limit,      \* the address's row of public_auth_rate_limits
    try,        \* where each call is, and the window it read
    admitted,   \* history: how many calls each window let in
    returns,    \* history: how often the row came back to a window it had left
    failures,   \* the subject's rows of auth_login_failures, the recent ones
    peak        \* history: the most calls that were ever past the check at once

limitVars == <<present, limit, try, admitted, returns, failures, peak>>

Windows == 0..LastWindow
TrySteps == {"idle", "stamped", "admitted", "allowed", "right", "over"}

LimitsTypeOK ==
    /\ present \in Windows
    /\ limit \in [at : Windows, count : Nat]
    /\ try \in [Tries -> [step : TrySteps, at : Windows]]
    /\ admitted \in [Windows -> Nat]
    /\ returns \in [Windows -> Nat]
    /\ failures \in Nat
    /\ peak \in 0..Cardinality(Tries)

\* A count of zero stands for no row.
LimitsInit ==
    /\ present = 0
    /\ limit = [at |-> 0, count |-> 0]
    /\ try = [t \in Tries |-> [step |-> "idle", at |-> 0]]
    /\ admitted = [w \in Windows |-> 0]
    /\ returns = [w \in Windows |-> 0]
    /\ failures = 0
    /\ peak = 0

TryGoes(t, from, to) ==
    /\ try[t].step = from
    /\ try' = [try EXCEPT ![t].step = to]

\* windowStartedAt: the call reads its clock, then waits for a connection.
StampTry(t) ==
    /\ try[t].step = "idle"
    /\ try' = [try EXCEPT ![t] = [step |-> "stamped", at |-> present]]
    /\ UNCHANGED <<present, limit, admitted, returns, failures, peak>>

\* Mutant: a call of an earlier window restarts the count of the row's window.
RestartForEarlier(w) ==
    IF limit.at <= w THEN [at |-> w, count |-> IF limit.at = w THEN limit.count + 1 ELSE 1]
    ELSE [limit EXCEPT !.count = 1]

\* The upsert of reservePublicAuthAttempt: another window, earlier or later,
\* starts again at one.
CountAttempt(w) ==
    [at |-> w, count |-> IF limit.at = w THEN limit.count + 1 ELSE 1]

\* The cleanup that follows takes only rows a day old, which no call of the
\* bounded time here can still meet.
ReservePublicAuthAttempt(t) ==
    LET w == try[t].at
        row == CountAttempt(w)
    IN  /\ limit' = row
        /\ returns' = IF w # limit.at /\ admitted[w] > 0
                      THEN [returns EXCEPT ![w] = @ + 1] ELSE returns
        /\ IF row.count > MaxAttempts
           THEN TryGoes(t, "stamped", "over") /\ UNCHANGED admitted
           ELSE TryGoes(t, "stamped", "admitted")
                /\ admitted' = [admitted EXCEPT ![w] = @ + 1]
        /\ UNCHANGED <<present, failures, peak>>

Allowed == {t \in Tries : try[t].step \in {"allowed", "right"}}

\* Mutant: one failure more is let pass.
TooManyFailuresLate == failures > MaxFailures

TooManyFailures == failures >= MaxFailures

\* assertAllowed: a count of rows, and nothing kept of it.
AssertAllowed(t) ==
    /\ IF TooManyFailures
       THEN TryGoes(t, "admitted", "over") /\ UNCHANGED peak
       ELSE /\ TryGoes(t, "admitted", "allowed")
            /\ peak' = IF Cardinality(Allowed) < peak THEN peak
                       ELSE Cardinality(Allowed) + 1
    /\ UNCHANGED <<present, limit, admitted, returns, failures>>

\* The credential is wrong: recordFailure.
RecordFailure(t) ==
    /\ TryGoes(t, "allowed", "over")
    /\ failures' = failures + 1
    /\ UNCHANGED <<present, limit, admitted, returns, peak>>

\* The credential is right and the session is made.
CredentialIsRight(t) ==
    /\ TryGoes(t, "allowed", "right")
    /\ UNCHANGED <<present, limit, admitted, returns, failures, peak>>

ClearFailures(t) ==
    /\ TryGoes(t, "right", "over")
    /\ failures' = 0
    /\ UNCHANGED <<present, limit, admitted, returns, peak>>

\* An error or a dead process: the call goes no further.
TryFails(t) ==
    /\ try[t].step \in {"stamped", "admitted", "allowed", "right"}
    /\ try' = [try EXCEPT ![t].step = "over"]
    /\ UNCHANGED <<present, limit, admitted, returns, failures, peak>>

\* The oldest failure leaves the window assertAllowed looks back over.
FailureAges ==
    /\ failures > 0
    /\ failures' = failures - 1
    /\ UNCHANGED <<present, limit, try, admitted, returns, peak>>

WindowEnds ==
    /\ present < LastWindow
    /\ present' = present + 1
    /\ UNCHANGED <<limit, try, admitted, returns, failures, peak>>

LimitsNext ==
    \/ \E t \in Tries :
        \/ StampTry(t) \/ ReservePublicAuthAttempt(t)
        \/ AssertAllowed(t) \/ RecordFailure(t)
        \/ CredentialIsRight(t) \/ ClearFailures(t) \/ TryFails(t)
    \/ FailureAges \/ WindowEnds

LimitsSpec == LimitsInit /\ [][LimitsNext]_limitVars

-----------------------------------------------------------------------------
(* A window lets in as many calls as the maximum, and as many again each    *)
(* time the row comes back to it: a call that read the clock before the     *)
(* window turned and arrives after it moves the row back and starts the     *)
(* count of both windows anew.                                              *)
PublicWindow ==
    \A w \in Windows : admitted[w] <= MaxAttempts * (1 + returns[w])

(* Failures go past the maximum only by the calls that were let through     *)
(* together: the check and the record are apart, so each call past the      *)
(* check adds one, and never more than were past it at once.                *)
FailuresAreLimited == failures < MaxFailures + peak

(* What the two limiters promise together: the attempts of an address and   *)
(* the failures of a login subject stay within what their races allow.      *)
SignInLimitsHold == PublicWindow /\ FailuresAreLimited

=============================================================================
