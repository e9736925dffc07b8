--------------------------- MODULE ProviderSignIn ---------------------------
(* Access codes and sessions of the providers.                              *)
(*                                                                          *)
(* ProviderAuthService.login looks the code up, upgrades an old kind of     *)
(* hash, and opens a session, each in a statement of its own; an            *)
(* administrator's rotation of the code is one transaction that replaces    *)
(* the credential and deletes the sessions. A login names the session it    *)
(* opens. The limiters in front of the route are SignInLimits.              *)
EXTENDS Integers, FiniteSets

CONSTANTS
    Providers,      \* providers
    Codes,          \* access codes
    NoCode,         \* what a provider without a credential has
    Logins,         \* calls of provider/auth/login
    MaxRotations    \* bound of the rotations of a provider's code

ASSUME CodesAssumption == NoCode \notin Codes /\ MaxRotations \in Nat

VARIABLES
    credential,     \* provider_access_credentials
    rotations,      \* history: how often staff have set each provider's code
    given,          \* history: the code staff last set
    verified,       \* the providers whose verification_status is 'verified'
    login,          \* where each login is
    live,           \* provider_sessions, by the login that opened it
    openedAt        \* history: the rotations of the provider at that moment

codeVars == <<credential, rotations, given, verified, login, live, openedAt>>

LoginSteps == {"idle", "legacy", "found", "open", "over"}

\* The lookup id is a digest of the code; the hash is of the old kind, the
\* digest itself, or of the new, salted kind.
Credential == [lookup : Codes \cup {NoCode}, hash : Codes \cup {NoCode},
               legacy : BOOLEAN]

CodesTypeOK ==
    /\ credential \in [Providers -> Credential]
    /\ rotations \in [Providers -> 0..MaxRotations]
    /\ given \in [Providers -> Codes \cup {NoCode}]
    /\ verified \subseteq Providers
    /\ login \in [Logins -> [step : LoginSteps, code : Codes \cup {NoCode},
                             of : Providers \cup {"none"},
                             seen : 0..MaxRotations]]
    /\ live \subseteq Logins
    /\ openedAt \in [Logins -> 0..MaxRotations]

\* Some providers have a code of the old kind from before the upgrade.
CodesInit ==
    /\ \E old \in [Providers -> Codes \cup {NoCode}] :
        /\ \A p, q \in Providers : old[p] = old[q] /\ old[p] # NoCode => p = q
        /\ credential = [p \in Providers |-> [lookup |-> old[p], hash |-> old[p],
                                              legacy |-> old[p] # NoCode]]
        /\ given = old
    /\ rotations = [p \in Providers |-> 0]
    /\ verified = Providers
    /\ login = [l \in Logins |-> [step |-> "idle", code |-> NoCode,
                                  of |-> "none", seen |-> 0]]
    /\ live = {}
    /\ openedAt = [l \in Logins |-> 0]

\* The rows the indexed lookup of findProviderByAccessCode can return.
Holders(c) == {p \in verified : credential[p].lookup = c}

\* findProviderByAccessCode: one SELECT, then the hash of the row is verified.
FindProvider(l, c, p) ==
    /\ login[l].step = "idle"
    /\ p \in Holders(c)
    /\ credential[p].hash = c
    /\ login' = [login EXCEPT ![l] =
          [step |-> IF credential[p].legacy THEN "legacy" ELSE "found",
           code |-> c, of |-> p, seen |-> rotations[p]]]
    /\ UNCHANGED <<credential, rotations, given, verified, live, openedAt>>

LoginIsRefused(l, c) ==
    /\ login[l].step = "idle"
    /\ \A p \in Holders(c) : credential[p].hash # c
    /\ login' = [login EXCEPT ![l].step = "over", ![l].code = c]
    /\ UNCHANGED <<credential, rotations, given, verified, live, openedAt>>

\* Mutant: the upgrade does not ask for the hash it has seen.
UpgradeAnyHash(l) ==
    /\ login[l].step = "legacy"
    /\ login' = [login EXCEPT ![l].step = "found"]
    /\ credential' = [credential EXCEPT ![login[l].of].hash = login[l].code,
                                        ![login[l].of].legacy = FALSE]
    /\ UNCHANGED <<rotations, given, verified, live, openedAt>>

\* The UPDATE applies only while the row still has the old hash that was seen.
UpgradeLegacyHash(l) ==
    LET p == login[l].of
        same == credential[p].legacy /\ credential[p].hash = login[l].code
    IN  /\ login[l].step = "legacy"
        /\ login' = [login EXCEPT ![l].step = "found"]
        /\ credential' = IF same THEN [credential EXCEPT ![p].legacy = FALSE]
                         ELSE credential
        /\ UNCHANGED <<rotations, given, verified, live, openedAt>>

\* One INSERT ... SELECT, which finds no row unless the provider is verified.
CreateProviderSession(l) ==
    LET p == login[l].of IN
    /\ login[l].step = "found"
    /\ p \in verified
    /\ login' = [login EXCEPT ![l].step = "open"]
    /\ live' = live \cup {l}
    /\ openedAt' = [openedAt EXCEPT ![l] = rotations[p]]
    /\ UNCHANGED <<credential, rotations, given, verified>>

\* The provider is no longer verified, a statement fails, the process dies.
LoginFails(l) ==
    /\ login[l].step \in {"legacy", "found"}
    /\ login' = [login EXCEPT ![l].step = "over"]
    /\ UNCHANGED <<credential, rotations, given, verified, live, openedAt>>

SessionsOf(p) == {l \in live : login[l].of = p}

\* Mutant: the sessions are left for their thirty days.
RotateOnly(p, c) ==
    /\ rotations[p] < MaxRotations
    /\ \A q \in Providers \ {p} : credential[q].lookup # c
    /\ credential' = [credential EXCEPT ![p] = [lookup |-> c, hash |-> c, legacy |-> FALSE]]
    /\ rotations' = [rotations EXCEPT ![p] = @ + 1]
    /\ given' = [given EXCEPT ![p] = c]
    /\ UNCHANGED <<verified, login, live, openedAt>>

\* setProviderAccessCode, one transaction; a code another provider has is a
\* unique violation, and the whole transaction is rolled back.
SetProviderAccessCode(p, c) ==
    /\ rotations[p] < MaxRotations
    /\ \A q \in Providers \ {p} : credential[q].lookup # c
    /\ credential' = [credential EXCEPT ![p] = [lookup |-> c, hash |-> c, legacy |-> FALSE]]
    /\ rotations' = [rotations EXCEPT ![p] = @ + 1]
    /\ given' = [given EXCEPT ![p] = c]
    /\ live' = live \ SessionsOf(p)
    /\ UNCHANGED <<verified, login, openedAt>>

\* Suspension and reinstatement leave the sessions where they are: a session
\* counts only while its provider is verified.
ChangeVerification(p) ==
    /\ verified' = IF p \in verified THEN verified \ {p} ELSE verified \cup {p}
    /\ UNCHANGED <<credential, rotations, given, login, live, openedAt>>

\* findProviderBySession
Admitted(l) == l \in live /\ login[l].of \in verified

\* logout asks for a session that counts; a session also ends by its age.
LogoutProvider(l) ==
    /\ Admitted(l)
    /\ live' = live \ {l}
    /\ UNCHANGED <<credential, rotations, given, verified, login, openedAt>>

ProviderSessionLapses(l) ==
    /\ l \in live
    /\ live' = live \ {l}
    /\ UNCHANGED <<credential, rotations, given, verified, login, openedAt>>

CodesNext ==
    \/ \E l \in Logins :
        \/ \E c \in Codes : (\E p \in Providers : FindProvider(l, c, p)) \/ LoginIsRefused(l, c)
        \/ UpgradeLegacyHash(l) \/ CreateProviderSession(l) \/ LoginFails(l)
        \/ LogoutProvider(l) \/ ProviderSessionLapses(l)
    \/ \E p \in Providers :
        \/ \E c \in Codes : SetProviderAccessCode(p, c)
        \/ ChangeVerification(p)

CodesSpec == CodesInit /\ [][CodesNext]_codeVars

-----------------------------------------------------------------------------
(* The code staff last set for a provider is the one that signs in: a login *)
(* that is upgrading the hash of an older code while the code is rotated    *)
(* does not bring that code's hash back under the new lookup id.            *)
GivenCodeWorks ==
    \A p \in Providers : credential[p].lookup = given[p] /\ credential[p].hash = given[p]

(* Every live session was opened since the provider's code was last         *)
(* rotated. It may still have been opened with an older code, but only by a *)
(* login that had found that code before the rotation and was overtaken by  *)
(* it: the session check does not look at the code again.                   *)
SessionsFollowRotation ==
    \A l \in live :
        LET p == login[l].of IN
        /\ openedAt[l] = rotations[p]
        /\ login[l].code # given[p] => login[l].seen < rotations[p]

(* A rotation of the access code decides who signs in: the new code works   *)
(* and the sessions the old one had opened are over.                        *)
CodesAreRotated == GivenCodeWorks /\ SessionsFollowRotation

=============================================================================
