--------------------------- MODULE CustomerSignIn ---------------------------
(* One-time codes and customer sessions.                                    *)
(*                                                                          *)
(* CustomerAuthService.requestOtp and verifyOtp are chains of awaits with   *)
(* no transaction around them: each statement of the repository and each    *)
(* call of the OTP provider is one action here, any number of calls run at  *)
(* once, and a call may stop (an error, a dead process) between any two.    *)
(* An ask is a call of requestOtp and names the challenge it makes; a check *)
(* is a call of verifyOtp and names the session it makes.                   *)
(* Time is a counter. A call reads it once, when it starts, and the row it  *)
(* writes later carries what it read.                                       *)
EXTENDS Integers, Sequences, FiniteSets

CONSTANTS
    Phones,     \* phone numbers
    Asks,       \* calls of requestOtp
    Checks,     \* calls of verifyOtp
    Cooldown,   \* RESEND_COOLDOWN_MS
    Ttl,        \* OTP_CHALLENGE_TTL_MS
    Window,     \* OTP_REQUEST_WINDOW_MS
    AskCap,     \* MAX_OTP_REQUESTS_PER_PHONE_PER_WINDOW
    TryCap,     \* MAX_VERIFICATION_ATTEMPTS
    MaxTime     \* bound of the clock

ASSUME SignInAssumption ==
    /\ {Cooldown, Ttl, Window, AskCap, TryCap} \subseteq Nat \ {0}
    /\ Cooldown <= Window
    /\ MaxTime \in Nat

VARIABLES
    clock,      \* the time, in the processes and in the database
    ask,        \* where each call of requestOtp is
    attempts,   \* customer_otp_request_attempts
    accepted,   \* history: the asks that were accepted, in order
    codes,      \* the phones the OTP provider has sent a code to
    challenges, \* customer_otp_challenges, by the ask that made the row
    tries,      \* its failed_attempts
    guesses,    \* history: the provider checks made for each challenge
    check,      \* where each call of verifyOtp is
    customers,  \* customers
    sessions,   \* customer_sessions, by the check that made the row
    opened      \* history: every session ever made

askVars == <<ask, attempts, accepted>>
checkVars == <<tries, guesses, check, customers, sessions, opened>>
signInVars == <<clock, askVars, codes, challenges, checkVars>>

AskSteps == {"idle", "asked", "accepted", "sent", "answered", "over"}
CheckSteps == {"idle", "counted", "approved", "consumed", "known", "answered",
               "over"}

SignInTypeOK ==
    /\ clock \in 0..MaxTime
    /\ ask \in [Asks -> [step : AskSteps, phone : Phones \cup {"none"},
                      at : 0..MaxTime]]
    /\ attempts \subseteq [phone : Phones, at : 0..MaxTime]
    /\ accepted \in Seq(Asks)
    /\ codes \subseteq Phones
    /\ challenges \subseteq Asks
    /\ tries \in [Asks -> 0..TryCap]
    /\ guesses \in [Asks -> Nat]
    /\ check \in [Checks -> [step : CheckSteps, of : Asks \cup {"none"}]]
    /\ customers \subseteq Phones
    /\ sessions \subseteq opened
    /\ opened \subseteq Checks

SignInInit ==
    /\ clock = 0
    /\ ask = [a \in Asks |-> [step |-> "idle", phone |-> "none", at |-> 0]]
    /\ attempts = {}
    /\ accepted = <<>>
    /\ codes = {}
    /\ challenges = {}
    /\ tries = [a \in Asks |-> 0]
    /\ guesses = [a \in Asks |-> 0]
    /\ check = [v \in Checks |-> [step |-> "idle", of |-> "none"]]
    /\ customers = {}
    /\ sessions = {}
    /\ opened = {}

-----------------------------------------------------------------------------
(* requestOtp *)

AskGoes(a, from, to) ==
    /\ ask[a].step = from
    /\ ask' = [ask EXCEPT ![a].step = to]

\* The call reads the time; the rest of it waits for a connection and for the
\* phone's advisory lock.
RequestOtp(a, p) ==
    /\ ask[a].step = "idle"
    /\ ask' = [ask EXCEPT ![a] = [step |-> "asked", phone |-> p, at |-> clock]]
    /\ UNCHANGED <<clock, attempts, accepted, codes, challenges, checkVars>>

\* Mutant: only the cooldown is looked back over.
AttemptsInCooldown(a) ==
    {r \in attempts : r.phone = ask[a].phone /\ r.at > ask[a].at - Cooldown}

\* The attempts of the ask's phone in the window that ends when it was made.
RecentAttempts(a) ==
    {r \in attempts : r.phone = ask[a].phone /\ r.at > ask[a].at - Window}

\* Mutant: an attempt made before the one on record is let through.
CoolingUnlessLate(a) ==
    \E r \in RecentAttempts(a) : ask[a].at - r.at \in 0..(Cooldown - 1)

Cooling(a) == \E r \in RecentAttempts(a) : ask[a].at - r.at < Cooldown

OtpRequestAllowed(a) ==
    ~Cooling(a) /\ Cardinality(RecentAttempts(a)) < AskCap

\* reserveOtpRequest: one transaction under the phone's advisory lock. The
\* cleanup removes the old rows of every phone, by this ask's time.
ReserveOtpRequest(a) ==
    /\ OtpRequestAllowed(a)
    /\ AskGoes(a, "asked", "accepted")
    /\ attempts' = {r \in attempts \cup {[phone |-> ask[a].phone, at |-> ask[a].at]} :
                        r.at >= ask[a].at - Window}
    /\ accepted' = Append(accepted, a)
    /\ UNCHANGED <<clock, codes, challenges, checkVars>>

RefuseOtpRequest(a) ==
    /\ ~OtpRequestAllowed(a)
    /\ AskGoes(a, "asked", "over")
    /\ UNCHANGED <<clock, attempts, accepted, codes, challenges, checkVars>>

StartVerification(a) ==
    /\ AskGoes(a, "accepted", "sent")
    /\ codes' = codes \cup {ask[a].phone}
    /\ UNCHANGED <<clock, attempts, accepted, challenges, checkVars>>

CreateOtpChallenge(a) ==
    /\ AskGoes(a, "sent", "answered")
    /\ challenges' = challenges \cup {a}
    /\ UNCHANGED <<clock, attempts, accepted, codes, checkVars>>

\* The provider refuses, a statement fails, or the process dies.
RequestOtpFails(a) ==
    /\ ask[a].step \in {"accepted", "sent"}
    /\ ask' = [ask EXCEPT ![a].step = "over"]
    /\ UNCHANGED <<clock, attempts, accepted, codes, challenges, checkVars>>

-----------------------------------------------------------------------------
(* verifyOtp *)

CheckGoes(v, from, to) ==
    /\ check[v].step = from
    /\ check' = [check EXCEPT ![v].step = to]

Live(a) == a \in challenges /\ clock < ask[a].at + Ttl

\* Mutant: an attempt is counted when the code turns out to be wrong.
CountNothingYet(v, a) ==
    /\ check[v].step = "idle"
    /\ Live(a)
    /\ tries[a] < TryCap
    /\ check' = [check EXCEPT ![v] = [step |-> "counted", of |-> a]]
    /\ UNCHANGED <<clock, askVars, codes, challenges, tries, guesses, customers, sessions, opened>>

\* Mutant: the UPDATE has no limit in its WHERE.
CountWithoutLimit(v, a) ==
    /\ check[v].step = "idle"
    /\ Live(a)
    /\ tries' = [tries EXCEPT ![a] = @ + 1]
    /\ check' = [check EXCEPT ![v] = [step |-> "counted", of |-> a]]
    /\ UNCHANGED <<clock, askVars, codes, challenges, guesses, customers, sessions, opened>>

\* One UPDATE counts the attempt before the code is looked at.
ReserveOtpVerificationAttempt(v, a) ==
    /\ check[v].step = "idle"
    /\ Live(a)
    /\ tries[a] < TryCap
    /\ tries' = [tries EXCEPT ![a] = @ + 1]
    /\ check' = [check EXCEPT ![v] = [step |-> "counted", of |-> a]]
    /\ UNCHANGED <<clock, askVars, codes, challenges, guesses, customers, sessions, opened>>

\* No row: the challenge is unknown, used, expired, or out of attempts.
RefuseVerification(v, a) ==
    /\ check[v].step = "idle"
    /\ ask[a].step = "answered"
    /\ ~(Live(a) /\ tries[a] < TryCap)
    /\ check' = [check EXCEPT ![v] = [step |-> "over", of |-> a]]
    /\ UNCHANGED <<clock, askVars, codes, challenges, tries, guesses, customers, sessions, opened>>

\* The provider is asked about the phone, not about the challenge.
CheckVerification(v) ==
    /\ check[v].step = "counted"
    /\ guesses' = [guesses EXCEPT ![check[v].of] = @ + 1]
    /\ \E step \in {"over"} \cup (IF ask[check[v].of].phone \in codes
                                  THEN {"approved"} ELSE {}) :
           check' = [check EXCEPT ![v].step = step]
    /\ UNCHANGED <<clock, askVars, codes, challenges, tries, customers, sessions, opened>>

\* Mutant: the row the DELETE returned is not looked at.
ConsumeWhateverIsLeft(v) ==
    /\ CheckGoes(v, "approved", "consumed")
    /\ challenges' = challenges \ {check[v].of}
    /\ UNCHANGED <<clock, askVars, codes, tries, guesses, customers, sessions, opened>>

\* One DELETE decides which of the checks of a challenge goes on.
ConsumeOtpChallenge(v) ==
    /\ Live(check[v].of)
    /\ CheckGoes(v, "approved", "consumed")
    /\ challenges' = challenges \ {check[v].of}
    /\ UNCHANGED <<clock, askVars, codes, tries, guesses, customers, sessions, opened>>

ConsumesNothing(v) ==
    /\ ~Live(check[v].of)
    /\ CheckGoes(v, "approved", "over")
    /\ UNCHANGED <<clock, askVars, codes, challenges, tries, guesses, customers, sessions, opened>>

UpsertCustomer(v) ==
    /\ CheckGoes(v, "consumed", "known")
    /\ customers' = customers \cup {ask[check[v].of].phone}
    /\ UNCHANGED <<clock, askVars, codes, challenges, tries, guesses, sessions, opened>>

CreateCustomerSession(v) ==
    /\ CheckGoes(v, "known", "answered")
    /\ sessions' = sessions \cup {v}
    /\ opened' = opened \cup {v}
    /\ UNCHANGED <<clock, askVars, codes, challenges, tries, guesses, customers>>

VerifyOtpFails(v) ==
    /\ check[v].step \in {"counted", "approved", "consumed", "known"}
    /\ check' = [check EXCEPT ![v].step = "over"]
    /\ UNCHANGED <<clock, askVars, codes, challenges, tries, guesses, customers, sessions, opened>>

\* The customer signs out, or the session's thirty days are over.
EndCustomerSession(v) ==
    /\ v \in sessions
    /\ sessions' = sessions \ {v}
    /\ UNCHANGED <<clock, askVars, codes, challenges, tries, guesses, check, customers, opened>>

TimePasses ==
    /\ clock < MaxTime
    /\ clock' = clock + 1
    /\ UNCHANGED <<askVars, codes, challenges, checkVars>>

SignInNext ==
    \/ \E a \in Asks :
        \/ \E p \in Phones : RequestOtp(a, p)
        \/ ReserveOtpRequest(a) \/ RefuseOtpRequest(a)
        \/ StartVerification(a) \/ CreateOtpChallenge(a) \/ RequestOtpFails(a)
    \/ \E v \in Checks :
        \/ \E a \in Asks : ReserveOtpVerificationAttempt(v, a) \/ RefuseVerification(v, a)
        \/ CheckVerification(v)
        \/ ConsumeOtpChallenge(v) \/ ConsumesNothing(v)
        \/ UpsertCustomer(v) \/ CreateCustomerSession(v)
        \/ VerifyOtpFails(v) \/ EndCustomerSession(v)
    \/ TimePasses

SignInSpec == SignInInit /\ [][SignInNext]_signInVars

-----------------------------------------------------------------------------
At(i) == ask[accepted[i]].at
SamePhone(i, j) == ask[accepted[i]].phone = ask[accepted[j]].phone

\* The cleanup of an ask accepted between the two had removed the i-th's row.
CleanedBefore(i, j) == \E k \in (i + 1)..(j - 1) : At(i) < At(k) - Window

(* Two codes are never sent to a phone for asks made closer together than   *)
(* the cooldown, in whichever order the asks reach the database: the later  *)
(* one to arrive must also be the later one made. Only a call held up for   *)
(* a whole window, so that another phone's call cleans the row away, gets   *)
(* past it.                                                                 *)
RequestsAreSpaced ==
    \A j \in 1..Len(accepted) : \A i \in 1..(j - 1) :
        SamePhone(i, j) => At(j) - At(i) >= Cooldown \/ CleanedBefore(i, j)

(* A phone is sent at most AskCap codes in a window, counting those whose   *)
(* rows are still there to count: the cleanup of an ask of another phone    *)
(* that was made later and arrived earlier takes away rows that a waiting   *)
(* ask should still have counted, so the cap can be passed by as many as    *)
(* fall in between.                                                         *)
HourlyCap ==
    \A j \in 1..Len(accepted) :
        Cardinality({i \in 1..(j - 1) : /\ SamePhone(i, j)
                                        /\ At(i) > At(j) - Window
                                        /\ ~CleanedBefore(i, j)}) < AskCap

(* However many checks of a challenge run at once, the provider is asked    *)
(* about it at most TryCap times: the attempt is counted before the call.   *)
GuessesAreBounded == \A a \in Asks : guesses[a] <= TryCap

(* A challenge opens one session at most, whichever of its checks were      *)
(* approved, and none once it was used; the check that used it has it alone *)
(* while it goes on to make the customer and the session.                   *)
OneSessionPerChallenge ==
    \A v, w \in Checks :
        /\ \A x \in {v, w} : x \in opened \/ check[x].step \in {"consumed", "known"}
        /\ check[v].of = check[w].of
        => v = w /\ check[v].of \notin challenges

(* What requestOtp keeps to, in whatever order its calls arrive: the        *)
(* cooldown and the hourly cap of a phone's codes.                          *)
OtpLimits == RequestsAreSpaced /\ HourlyCap

(* What verifyOtp keeps to, however many checks run at once: a bounded      *)
(* number of guesses and one session for each challenge.                    *)
ChallengesAreSpent == GuessesAreBounded /\ OneSessionPerChallenge

=============================================================================
