---------------------------- MODULE SignInProofs ----------------------------
(***************************************************************************)
(* Proofs about the sign-in of providers and customers, the limiters in    *)
(* front of it and the devices they register: for any number of calls,     *)
(* phones, codes, providers, owners and tokens and every cap.              *)
(***************************************************************************)
EXTENDS CustomerSignIn, SignInLimits, ProviderSignIn, DeviceRegistry, FiniteSetTheorems, TLAPS

-----------------------------------------------------------------------------
(* Access codes.                                                           *)

USE CodesAssumption

(* What a login has found is of a provider, was found no later than now,   *)
(* and is the code still in force unless that was rotated since.           *)
LoginsAreFounded ==
    /\ \A l \in live : login[l].step = "open"
    /\ \A l \in Logins : login[l].step \in {"legacy", "found", "open"} =>
         LET p == login[l].of IN
         /\ p \in Providers
         /\ login[l].seen <= rotations[p]
         /\ login[l].seen = rotations[p] => login[l].code = given[p]

CodesInv ==
    /\ CodesTypeOK
    /\ LoginsAreFounded
    /\ \A p \in Providers : credential[p].lookup = given[p] /\ credential[p].hash = given[p]
    /\ \A l \in live : openedAt[l] = rotations[login[l].of]

USE DEF CodesInv, CodesTypeOK, LoginSteps, Credential

LEMMA CodesInitInv == CodesInit => CodesInv
BY DEF CodesInit, LoginsAreFounded

(* A login goes on with the credentials as they are, but for their kind.   *)
LEMMA LoginInv ==
    ASSUME CodesInv, NEW l \in Logins,
           \/ \E c \in Codes : (\E p \in Providers : FindProvider(l, c, p)) \/ LoginIsRefused(l, c)
           \/ UpgradeLegacyHash(l) \/ CreateProviderSession(l) \/ LoginFails(l)
           \/ LogoutProvider(l) \/ ProviderSessionLapses(l)
    PROVE  CodesInv'
<1> USE DEF LoginsAreFounded
<1>1. ASSUME NEW c \in Codes, NEW p \in Providers, FindProvider(l, c, p) PROVE CodesInv'
  <2>1. /\ login[l].step = "idle" /\ l \notin live
        /\ p \in Providers /\ c = given[p] /\ rotations[p] \in 0..MaxRotations
        /\ login' = [login EXCEPT ![l] =
             [step |-> IF credential[p].legacy THEN "legacy" ELSE "found",
              code |-> c, of |-> p, seen |-> rotations[p]]]
        /\ UNCHANGED <<credential, rotations, given, verified, live, openedAt>>
    BY <1>1 DEF FindProvider, Holders
  <2>2. CodesTypeOK'
    BY <2>1
  <2>3. LoginsAreFounded'
    BY <2>1
  <2>4. \A k \in live : login'[k] = login[k]
    BY <2>1
  <2>5. QED
    BY <2>1, <2>2, <2>3, <2>4
<1>2. ASSUME NEW c \in Codes, LoginIsRefused(l, c) PROVE CodesInv'
  <2>1. /\ login[l].step = "idle" /\ l \notin live
        /\ login' = [login EXCEPT ![l].step = "over", ![l].code = c]
        /\ UNCHANGED <<credential, rotations, given, verified, live, openedAt>>
    BY <1>2 DEF LoginIsRefused
  <2> DEFINE row == [login[l] EXCEPT !.step = "over", !.code = c]
  <2> DEFINE Rows == [step : LoginSteps, code : Codes \cup {NoCode},
                     of : Providers \cup {"none"}, seen : 0..MaxRotations]
  <2>2. row \in Rows /\ row.step = "over"
    <3>1. login[l] \in Rows
      OBVIOUS
    <3>2. QED
      BY <3>1
  <2>3. login' = [login EXCEPT ![l] = row]
    BY <2>1
  <2>4. login \in [Logins -> Rows]
    OBVIOUS
  <2> HIDE DEF row, Rows
  <2>5. /\ login' \in [Logins -> Rows] /\ login'[l].step = "over"
        /\ \A k \in Logins : k # l => login'[k] = login[k]
    BY <2>2, <2>3, <2>4
  <2>6. CodesTypeOK'
    BY <2>1, <2>5 DEF Rows
  <2>7. LoginsAreFounded'
    BY <2>1, <2>5
  <2>8. QED
    BY <2>1, <2>5, <2>6, <2>7
<1>3. CASE UpgradeLegacyHash(l)
  <2>1. /\ login[l].step = "legacy" /\ l \notin live
        /\ login' = [login EXCEPT ![l].step = "found"]
        /\ \/ credential' = credential
           \/ credential' = [credential EXCEPT ![login[l].of].legacy = FALSE]
        /\ UNCHANGED <<rotations, given, verified, live, openedAt>>
    BY <1>3 DEF UpgradeLegacyHash
  <2>2. login[l].of \in Providers
    BY <2>1
  <2>3. /\ credential' \in [Providers -> Credential]
        /\ \A p \in Providers : /\ credential'[p].lookup = credential[p].lookup
                                /\ credential'[p].hash = credential[p].hash
    <3>1. CASE credential' = credential
      BY <3>1
    <3>2. CASE credential' = [credential EXCEPT ![login[l].of].legacy = FALSE]
      <4> DEFINE row == [credential[login[l].of] EXCEPT !.legacy = FALSE]
      <4>1. credential[login[l].of] \in Credential
        BY <2>2
      <4>2. /\ row \in Credential /\ row.lookup = credential[login[l].of].lookup
            /\ row.hash = credential[login[l].of].hash
        BY <4>1
      <4>3. credential' = [credential EXCEPT ![login[l].of] = row]
        BY <3>2
      <4> HIDE DEF row
      <4>4. QED
        BY <2>2, <4>2, <4>3
    <3>3. QED
      BY <2>1, <3>1, <3>2
  <2>4. /\ login' \in [Logins -> [step : LoginSteps, code : Codes \cup {NoCode},
                                  of : Providers \cup {"none"}, seen : 0..MaxRotations]]
        /\ \A k \in Logins : /\ login'[k].of = login[k].of
                              /\ login'[k].code = login[k].code
                              /\ login'[k].seen = login[k].seen
                              /\ k # l => login'[k].step = login[k].step
    <3> DEFINE Rows == [step : LoginSteps, code : Codes \cup {NoCode},
                       of : Providers \cup {"none"}, seen : 0..MaxRotations]
               row == [login[l] EXCEPT !.step = "found"]
    <3>1. login \in [Logins -> Rows] /\ login[l] \in Rows
      OBVIOUS
    <3>2. /\ row \in Rows /\ row.of = login[l].of /\ row.code = login[l].code
          /\ row.seen = login[l].seen
      BY <3>1
    <3>3. login' = [login EXCEPT ![l] = row]
      BY <2>1
    <3> HIDE DEF row, Rows
    <3>4. /\ login' \in [Logins -> Rows] /\ login'[l] = row
          /\ \A k \in Logins : k # l => login'[k] = login[k]
      BY <3>1, <3>2, <3>3
    <3>5. QED
      BY <3>2, <3>4 DEF Rows
  <2>5. CodesTypeOK'
    BY <2>1, <2>3, <2>4
  <2>6. LoginsAreFounded'
    BY <2>1, <2>4
  <2>7. QED
    BY <2>1, <2>3, <2>4, <2>5, <2>6
<1>4. CASE CreateProviderSession(l)
  <2>1. /\ login[l].step = "found" /\ login[l].of \in Providers
        /\ rotations[login[l].of] \in 0..MaxRotations
        /\ login' = [login EXCEPT ![l].step = "open"]
        /\ live' = live \cup {l}
        /\ openedAt' = [openedAt EXCEPT ![l] = rotations[login[l].of]]
        /\ UNCHANGED <<credential, rotations, given, verified>>
    BY <1>4 DEF CreateProviderSession
  <2>2. /\ \A k \in Logins : /\ login'[k].of = login[k].of
                              /\ login'[k].code = login[k].code
                              /\ login'[k].seen = login[k].seen
                              /\ k # l => login'[k].step = login[k].step
        /\ login'[l].step = "open"
    BY <2>1
  <2> DEFINE row == [login[l] EXCEPT !.step = "open"]
             Rows == [step : LoginSteps, code : Codes \cup {NoCode},
                      of : Providers \cup {"none"}, seen : 0..MaxRotations]
  <2>3. CodesTypeOK'
    <3>1. login \in [Logins -> Rows] /\ login[l] \in Rows
      OBVIOUS
    <3>2. row \in Rows /\ login' = [login EXCEPT ![l] = row]
      BY <2>1, <3>1
    <3> HIDE DEF row, Rows
    <3>3. login' \in [Logins -> Rows]
      BY <3>1, <3>2
    <3>4. openedAt' \in [Logins -> 0..MaxRotations]
      BY <2>1
    <3>5. QED
      BY <2>1, <3>3, <3>4 DEF Rows
  <2> HIDE DEF row, Rows
  <2>4. LoginsAreFounded'
    BY <2>1, <2>2
  <2>5. \A k \in live' : openedAt'[k] = rotations'[login'[k].of]
    BY <2>1, <2>2
  <2>6. QED
    BY <2>1, <2>3, <2>4, <2>5
<1>5. CASE LoginFails(l)
  BY <1>5 DEF LoginFails
<1>6. CASE LogoutProvider(l) \/ ProviderSessionLapses(l)
  BY <1>6 DEF LogoutProvider, ProviderSessionLapses
<1>7. QED
  BY <1>1, <1>2, <1>3, <1>4, <1>5, <1>6

(* A rotation leaves every login of that provider behind.                  *)
LEMMA RotationInv ==
    ASSUME CodesInv, NEW p \in Providers, NEW c \in Codes, SetProviderAccessCode(p, c)
    PROVE  CodesInv'
<1>1. /\ rotations[p] < MaxRotations /\ MaxRotations \in Nat
      /\ credential' = [credential EXCEPT ![p] = [lookup |-> c, hash |-> c, legacy |-> FALSE]]
      /\ rotations' = [rotations EXCEPT ![p] = @ + 1]
      /\ given' = [given EXCEPT ![p] = c]
      /\ live' = {l \in live : login[l].of # p}
      /\ UNCHANGED <<verified, login, openedAt>>
  BY DEF SetProviderAccessCode, SessionsOf
<1>2. CodesTypeOK'
  BY <1>1
<1>3. LoginsAreFounded'
  <2>1. \A q \in Providers : /\ q # p => rotations'[q] = rotations[q] /\ given'[q] = given[q]
                             /\ rotations'[q] \in Nat /\ rotations[q] \in Nat
                             /\ q = p => rotations'[q] = rotations[q] + 1
    BY <1>1
  <2>2. \A l \in Logins : login[l].seen \in Nat
    OBVIOUS
  <2>3. QED
    BY <1>1, <2>1, <2>2 DEF LoginsAreFounded
<1>4. \A l \in live' : openedAt'[l] = rotations'[login'[l].of]
  BY <1>1 DEF LoginsAreFounded
<1>5. QED
  BY <1>1, <1>2, <1>3, <1>4

LEMMA CodesNextInv == CodesInv /\ [CodesNext]_codeVars => CodesInv'
<1> SUFFICES ASSUME CodesInv, [CodesNext]_codeVars PROVE CodesInv'
  OBVIOUS
<1>1. ASSUME NEW p \in Providers, ChangeVerification(p) PROVE CodesInv'
  BY <1>1 DEF ChangeVerification, LoginsAreFounded
<1>2. CASE UNCHANGED codeVars
  BY <1>2 DEF codeVars, LoginsAreFounded
<1>3. QED
  BY <1>1, <1>2, LoginInv, RotationInv DEF CodesNext

(* The code staff last set is the one that signs in, and no session opened *)
(* before the last rotation is alive, nor one of an older code but of a    *)
(* login that the rotation overtook.                                       *)
THEOREM CodesRotated == CodesSpec => []CodesAreRotated
<1>1. ASSUME CodesInv PROVE CodesAreRotated
  <2>1. ASSUME NEW l \in live, login[l].code # given[login[l].of]
        PROVE  login[l].seen < rotations[login[l].of]
    <3>1. /\ login[l].of \in Providers /\ login[l].seen <= rotations[login[l].of]
          /\ login[l].seen # rotations[login[l].of]
      BY <1>1, <2>1 DEF LoginsAreFounded
    <3>2. login[l].seen \in Nat /\ rotations[login[l].of] \in Nat
      BY <1>1, <3>1
    <3>3. QED
      BY <3>1, <3>2
  <2>2. QED
    BY <1>1, <2>1 DEF CodesAreRotated, GivenCodeWorks, SessionsFollowRotation
<1>2. QED
  BY <1>1, CodesInitInv, CodesNextInv, PTL DEF CodesSpec

-----------------------------------------------------------------------------
(* The limiters.                                                           *)

(* What a window has let in since the row last came to it.                 *)
Counted == IF limit.count < MaxAttempts THEN limit.count ELSE MaxAttempts

WindowsAreFull ==
    \A w \in Windows :
        /\ w # limit.at => admitted[w] <= MaxAttempts * (1 + returns[w])
        /\ w = limit.at => admitted[w] <= MaxAttempts * returns[w] + Counted

(* The calls past the check may each still add a failure.                  *)
FailuresToCome ==
    /\ Cardinality(Allowed) <= peak
    /\ failures + Cardinality(Allowed) < MaxFailures + peak

LimitsInv == LimitsTypeOK /\ WindowsAreFull /\ FailuresToCome

LEMMA Limits ==
    /\ MaxAttempts \in Nat \ {0} /\ MaxFailures \in Nat \ {0} /\ LastWindow \in Nat
    /\ IsFiniteSet(Tries)
BY LimitsAssumption

LEMMA AllowedIsFinite ==
    /\ IsFiniteSet(Allowed) /\ Cardinality(Allowed) \in Nat
    /\ Cardinality(Tries) \in Nat
BY Limits, FS_Subset, FS_CardinalityType DEF Allowed

LEMMA LimitsInitInv == LimitsInit => LimitsInv
<1> SUFFICES ASSUME LimitsInit PROVE LimitsInv
  OBVIOUS
<1>1. 0 \in Windows /\ peak \in 0..Cardinality(Tries)
  BY AllowedIsFinite, Limits DEF Windows, LimitsInit
<1>2. LimitsTypeOK
  BY <1>1 DEF LimitsTypeOK, LimitsInit, TrySteps
<1>3. Allowed = {} /\ Cardinality({}) = 0
  BY FS_EmptySet DEF Allowed, LimitsInit
<1>4. FailuresToCome
  BY <1>3, Limits DEF FailuresToCome, LimitsInit
<1>5. WindowsAreFull
  <2>1. \A w \in Windows : admitted[w] = 0 /\ returns[w] = 0
    BY DEF LimitsInit
  <2>2. limit.at = 0 /\ limit.count = 0 /\ Counted = 0
    BY Limits DEF LimitsInit, Counted
  <2>3. QED
    BY <2>1, <2>2, Limits DEF WindowsAreFull
<1>6. QED
  BY <1>2, <1>4, <1>5 DEF LimitsInv

(* One more of the windows is as much as it may let in.                    *)
LEMMA OneWindowMore ==
    ASSUME NEW n \in Nat
    PROVE  /\ MaxAttempts * n \in Nat
           /\ MaxAttempts * (1 + n) = MaxAttempts * n + MaxAttempts
           /\ MaxAttempts * (n + 1) = MaxAttempts * (1 + n)
BY Limits

LEMMA CountedBound ==
    ASSUME LimitsInv
    PROVE  Counted \in Nat /\ Counted <= MaxAttempts
<1>1. limit.count \in Nat
  BY DEF LimitsInv, LimitsTypeOK
<1>2. QED
  BY <1>1, Limits DEF Counted

LEMMA ReserveInv ==
    ASSUME LimitsInv, NEW t \in Tries, ReservePublicAuthAttempt(t)
    PROVE  LimitsInv'
<1> DEFINE w == try[t].at
           n == IF limit.at = w THEN limit.count + 1 ELSE 1
           back == w # limit.at /\ admitted[w] > 0
<1>1. /\ w \in Windows /\ limit.count \in Nat /\ limit.at \in Windows /\ n \in Nat \ {0}
      /\ admitted \in [Windows -> Nat] /\ returns \in [Windows -> Nat]
      /\ try[t].step = "stamped"
  BY DEF LimitsInv, LimitsTypeOK, ReservePublicAuthAttempt, TryGoes
<1>2. limit'.at = w /\ limit'.count = n
  BY DEF ReservePublicAuthAttempt, CountAttempt
<1>3. returns' = IF back THEN [returns EXCEPT ![w] = @ + 1] ELSE returns
  BY DEF ReservePublicAuthAttempt
<1>4. admitted' = IF n > MaxAttempts THEN admitted ELSE [admitted EXCEPT ![w] = @ + 1]
  BY DEF ReservePublicAuthAttempt, CountAttempt
<1>5. LimitsTypeOK'
  <2>1. returns' \in [Windows -> Nat] /\ admitted' \in [Windows -> Nat]
    BY <1>1, <1>3, <1>4
  <2>2. limit' \in [at : Windows, count : Nat]
    BY <1>1 DEF ReservePublicAuthAttempt, CountAttempt
  <2>3. try' \in [Tries -> [step : TrySteps, at : Windows]]
    BY DEF LimitsInv, LimitsTypeOK, ReservePublicAuthAttempt, CountAttempt, TryGoes, TrySteps
  <2>4. QED
    BY <2>1, <2>2, <2>3 DEF LimitsInv, LimitsTypeOK, ReservePublicAuthAttempt
<1>6. FailuresToCome'
  <2>1. Allowed' = Allowed
    BY <1>1 DEF LimitsInv, LimitsTypeOK, Allowed, ReservePublicAuthAttempt, CountAttempt, TryGoes
  <2>2. QED
    BY <2>1 DEF LimitsInv, FailuresToCome, ReservePublicAuthAttempt
<1>7. ASSUME NEW x \in Windows, x # w
      PROVE  admitted'[x] <= MaxAttempts * (1 + returns'[x])
  <2>1. admitted'[x] = admitted[x] /\ returns'[x] = returns[x]
    BY <1>1, <1>3, <1>4, <1>7
  <2>2. returns[x] \in Nat /\ admitted[x] \in Nat
    BY <1>1
  <2>3. admitted[x] <= MaxAttempts * (1 + returns[x])
    <3>1. Counted \in Nat /\ Counted <= MaxAttempts
      BY CountedBound
    <3>2. QED
      BY <2>2, <3>1, OneWindowMore, Limits DEF LimitsInv, WindowsAreFull
  <2>4. QED
    BY <2>1, <2>3
<1>8. admitted'[w] <= MaxAttempts * returns'[w] + Counted'
  <2>1. Counted' = IF n < MaxAttempts THEN n ELSE MaxAttempts
    BY <1>2 DEF Counted
  <2>2. returns[w] \in Nat /\ admitted[w] \in Nat /\ MaxAttempts \in Nat \ {0}
    BY <1>1, Limits
  <2> DEFINE most == MaxAttempts * returns[w]
  <2>3. most \in Nat /\ MaxAttempts * (returns[w] + 1) = most + MaxAttempts
        /\ MaxAttempts * (1 + returns[w]) = most + MaxAttempts
    BY <2>2, OneWindowMore
  <2>4. CASE limit.at = w
    <3>1. admitted[w] <= most + Counted
      BY <1>1, <2>4 DEF LimitsInv, WindowsAreFull
    <3>2. returns'[w] = returns[w] /\ n = limit.count + 1
      BY <1>3, <2>4
    <3>3. admitted'[w] = IF n > MaxAttempts THEN admitted[w] ELSE admitted[w] + 1
      BY <1>1, <1>4
    <3>4. MaxAttempts * returns'[w] = most
      BY <3>2
    <3> HIDE DEF most, n, w
    <3>5. QED
      BY <1>1, <2>1, <2>2, <2>3, <3>1, <3>2, <3>3, <3>4 DEF Counted
  <2>5. CASE limit.at # w
    <3>1. n = 1 /\ Counted' = 1 /\ admitted'[w] = admitted[w] + 1
      BY <1>1, <1>4, <2>1, <2>2, <2>5
    <3>2. admitted[w] <= most + MaxAttempts
      BY <1>1, <2>3, <2>5 DEF LimitsInv, WindowsAreFull
    <3>3. CASE admitted[w] > 0
      <4>1. returns'[w] = returns[w] + 1
        BY <1>1, <1>3, <2>5, <3>3
      <4>2. MaxAttempts * returns'[w] = most + MaxAttempts
        BY <2>3, <4>1
      <4> HIDE DEF most, n, w
      <4>3. QED
        BY <2>2, <2>3, <3>1, <3>2, <4>2
    <3>4. CASE admitted[w] = 0
      <4>1. returns'[w] = returns[w]
        BY <1>3, <3>4
      <4>2. MaxAttempts * returns'[w] = most
        BY <4>1
      <4> HIDE DEF most, n, w
      <4>3. QED
        BY <2>2, <2>3, <3>1, <3>4, <4>2
    <3>5. QED
      BY <2>2, <3>3, <3>4
  <2>6. QED
    BY <2>4, <2>5
<1>9. WindowsAreFull'
  BY <1>2, <1>7, <1>8 DEF WindowsAreFull, Windows
<1>10. QED
  BY <1>5, <1>6, <1>9 DEF LimitsInv

(* A call that leaves the check, or never came to it, allows no more.      *)
LEMMA TryStep ==
    ASSUME LimitsInv, NEW t \in Tries, NEW to \in TrySteps, try' = [try EXCEPT ![t].step = to]
    PROVE  /\ try' \in [Tries -> [step : TrySteps, at : Windows]]
           /\ Allowed \ {t} \subseteq Allowed'
           /\ Allowed' \subseteq Allowed \cup {t}
           /\ t \in Allowed' <=> to \in {"allowed", "right"}
BY DEF LimitsInv, LimitsTypeOK, Allowed

LEMMA AllowInv ==
    ASSUME LimitsInv, NEW t \in Tries, AssertAllowed(t)
    PROVE  LimitsInv'
<1>1. /\ try[t].step = "admitted" /\ t \notin Allowed
      /\ UNCHANGED <<present, limit, admitted, returns, failures>>
  BY DEF AssertAllowed, TryGoes, Allowed
<1>2. WindowsAreFull'
  BY <1>1 DEF LimitsInv, WindowsAreFull, Counted
<1>3. CASE TooManyFailures
  <2>1. try' = [try EXCEPT ![t].step = "over"] /\ peak' = peak
    BY <1>3 DEF AssertAllowed, TryGoes
  <2>2. Allowed' = Allowed /\ try' \in [Tries -> [step : TrySteps, at : Windows]]
    <3>1. "over" \in TrySteps
      BY DEF TrySteps
    <3>2. /\ try' \in [Tries -> [step : TrySteps, at : Windows]]
          /\ Allowed \ {t} \subseteq Allowed' /\ Allowed' \subseteq Allowed \cup {t}
          /\ t \notin Allowed'
      BY <2>1, <3>1, TryStep
    <3>3. QED
      BY <1>1, <3>2
  <2>3. QED
    BY <1>1, <1>2, <2>1, <2>2 DEF LimitsInv, LimitsTypeOK, FailuresToCome
<1>4. CASE ~TooManyFailures
  <2>1. /\ try' = [try EXCEPT ![t].step = "allowed"]
        /\ peak' = IF Cardinality(Allowed) < peak THEN peak ELSE Cardinality(Allowed) + 1
    BY <1>4 DEF AssertAllowed, TryGoes
  <2>2. Allowed' = Allowed \cup {t} /\ try' \in [Tries -> [step : TrySteps, at : Windows]]
    <3>1. "allowed" \in TrySteps
      BY DEF TrySteps
    <3>2. /\ try' \in [Tries -> [step : TrySteps, at : Windows]]
          /\ Allowed \ {t} \subseteq Allowed' /\ Allowed' \subseteq Allowed \cup {t}
          /\ t \in Allowed'
      BY <2>1, <3>1, TryStep
    <3>3. QED
      BY <3>2
  <2>3. /\ Cardinality(Allowed') = Cardinality(Allowed) + 1
        /\ Cardinality(Allowed) + 1 <= Cardinality(Tries)
    <3>1. Cardinality(Allowed \cup {t}) = Cardinality(Allowed) + 1
      BY <1>1, AllowedIsFinite, FS_AddElement
    <3>2. Cardinality(Allowed \cup {t}) <= Cardinality(Tries)
      BY Limits, FS_Subset DEF Allowed
    <3>3. QED
      BY <2>2, <3>1, <3>2
  <2>4. failures \in Nat /\ failures < MaxFailures /\ peak \in 0..Cardinality(Tries)
    BY <1>4, Limits DEF TooManyFailures, LimitsInv, LimitsTypeOK
  <2>5. FailuresToCome' /\ peak' \in 0..Cardinality(Tries)
    BY <1>1, <2>1, <2>3, <2>4, AllowedIsFinite, Limits DEF LimitsInv, FailuresToCome
  <2>6. QED
    BY <1>1, <1>2, <2>2, <2>5 DEF LimitsInv, LimitsTypeOK
<1>5. QED
  BY <1>3, <1>4

(* What ends a call leaves at most one failure where the call was.         *)
LEMMA EndInv ==
    ASSUME LimitsInv, NEW t \in Tries,
           RecordFailure(t) \/ CredentialIsRight(t) \/ ClearFailures(t) \/ TryFails(t)
    PROVE  LimitsInv'
<1>1. UNCHANGED <<present, limit, admitted, returns, peak>>
  BY DEF RecordFailure, CredentialIsRight, ClearFailures, TryFails
<1>2. WindowsAreFull'
  BY <1>1 DEF LimitsInv, WindowsAreFull, Counted
<1>3. "over" \in TrySteps /\ "right" \in TrySteps
  BY DEF TrySteps
<1>4. /\ Cardinality(Allowed) \in Nat /\ Cardinality(Allowed') \in Nat
      /\ failures \in Nat /\ peak \in Nat
      /\ Cardinality(Allowed) <= peak
      /\ failures + Cardinality(Allowed) < MaxFailures + peak
  <2>1. Cardinality(Tries) \in Nat
    BY AllowedIsFinite
  <2>2. IsFiniteSet(Allowed')
    BY Limits, FS_Subset DEF Allowed
  <2>3. QED
    BY <2>1, <2>2, AllowedIsFinite, FS_CardinalityType DEF LimitsInv, LimitsTypeOK, FailuresToCome
<1>5. CASE CredentialIsRight(t)
  <2>1. try[t].step = "allowed" /\ try' = [try EXCEPT ![t].step = "right"] /\ failures' = failures
    BY <1>5 DEF CredentialIsRight, TryGoes
  <2>2. Allowed' = Allowed /\ try' \in [Tries -> [step : TrySteps, at : Windows]]
    <3>1. t \in Allowed
      BY <2>1 DEF Allowed
    <3>2. /\ try' \in [Tries -> [step : TrySteps, at : Windows]]
          /\ Allowed \ {t} \subseteq Allowed' /\ Allowed' \subseteq Allowed \cup {t}
          /\ t \in Allowed'
      BY <1>3, <2>1, TryStep
    <3>3. QED
      BY <3>1, <3>2
  <2>3. QED
    BY <1>1, <1>2, <2>1, <2>2 DEF LimitsInv, LimitsTypeOK, FailuresToCome
<1>6. CASE RecordFailure(t) \/ ClearFailures(t)
  <2>1. /\ try[t].step \in {"allowed", "right"} /\ try' = [try EXCEPT ![t].step = "over"]
        /\ failures' \in {failures + 1, 0}
    BY <1>6 DEF RecordFailure, ClearFailures, TryGoes
  <2>2. t \in Allowed /\ Allowed' = Allowed \ {t}
        /\ try' \in [Tries -> [step : TrySteps, at : Windows]]
    <3>1. t \in Allowed
      BY <2>1 DEF Allowed
    <3>2. QED
      BY <1>3, <2>1, <3>1, TryStep
  <2>3. Cardinality(Allowed') = Cardinality(Allowed) - 1
    BY <2>2, AllowedIsFinite, FS_RemoveElement
  <2>4. FailuresToCome' /\ failures' \in Nat
    BY <1>1, <1>4, <2>1, <2>3, Limits DEF FailuresToCome
  <2>5. QED
    BY <1>1, <1>2, <2>2, <2>4 DEF LimitsInv, LimitsTypeOK
<1>7. CASE TryFails(t)
  <2>1. try' = [try EXCEPT ![t].step = "over"] /\ failures' = failures
    BY <1>7 DEF TryFails
  <2>2. Allowed' \subseteq Allowed /\ try' \in [Tries -> [step : TrySteps, at : Windows]]
    BY <1>3, <2>1, TryStep
  <2>3. Cardinality(Allowed') <= Cardinality(Allowed)
    BY <2>2, AllowedIsFinite, FS_Subset
  <2>4. FailuresToCome'
    BY <1>1, <1>4, <2>1, <2>3, Limits DEF FailuresToCome
  <2>5. QED
    BY <1>1, <1>2, <2>1, <2>2, <2>4 DEF LimitsInv, LimitsTypeOK
<1>8. QED
  BY <1>5, <1>6, <1>7

LEMMA LimitsNextInv == LimitsInv /\ [LimitsNext]_limitVars => LimitsInv'
<1> SUFFICES ASSUME LimitsInv, [LimitsNext]_limitVars PROVE LimitsInv'
  OBVIOUS
<1>1. ASSUME NEW t \in Tries, StampTry(t) PROVE LimitsInv'
  <2>1. Allowed' = Allowed /\ try' \in [Tries -> [step : TrySteps, at : Windows]]
    BY <1>1 DEF StampTry, Allowed, LimitsInv, LimitsTypeOK, TrySteps
  <2>2. QED
    BY <1>1, <2>1
       DEF StampTry, LimitsInv, LimitsTypeOK, WindowsAreFull, Counted, FailuresToCome
<1>2. CASE FailureAges
  <2>1. Cardinality(Allowed) \in Nat /\ failures \in Nat /\ failures > 0
        /\ failures' = failures - 1 /\ Cardinality(Tries) \in Nat
        /\ UNCHANGED <<present, limit, try, admitted, returns, peak>>
    BY <1>2, AllowedIsFinite DEF FailureAges, LimitsInv, LimitsTypeOK
  <2>2. LimitsTypeOK' /\ WindowsAreFull'
    BY <2>1 DEF LimitsInv, LimitsTypeOK, WindowsAreFull, Counted
  <2>3. FailuresToCome'
    <3>1. Allowed' = Allowed /\ peak \in Nat
      BY <2>1 DEF LimitsInv, LimitsTypeOK, Allowed
    <3>2. QED
      BY <2>1, <3>1, Limits DEF LimitsInv, FailuresToCome
  <2>4. QED
    BY <2>2, <2>3 DEF LimitsInv
<1>3. CASE WindowEnds
  <2>1. present' \in Windows
    BY <1>3, Limits DEF WindowEnds, LimitsInv, LimitsTypeOK, Windows
  <2>2. QED
    BY <1>3, <2>1 DEF WindowEnds, LimitsInv, LimitsTypeOK, WindowsAreFull, Counted,
       FailuresToCome, Allowed
<1>4. CASE UNCHANGED limitVars
  BY <1>4 DEF limitVars, LimitsInv, LimitsTypeOK, WindowsAreFull, Counted, FailuresToCome, Allowed
<1>5. QED
  BY <1>1, <1>2, <1>3, <1>4, ReserveInv, AllowInv, EndInv DEF LimitsNext

(* An address is let in, and a login subject may fail, no more than the    *)
(* limits allow but for what their races add.                              *)
THEOREM LimitsHeld == LimitsSpec => []SignInLimitsHold
<1>1. ASSUME LimitsInv PROVE SignInLimitsHold
  <2>1. ASSUME NEW w \in Windows PROVE admitted[w] <= MaxAttempts * (1 + returns[w])
    <3>1. /\ returns[w] \in Nat /\ admitted[w] \in Nat
          /\ Counted \in Nat /\ Counted <= MaxAttempts
      BY <1>1, Limits DEF LimitsInv, LimitsTypeOK, Counted
    <3>2. QED
      BY <1>1, <3>1, OneWindowMore, Limits DEF LimitsInv, WindowsAreFull
  <2>2. failures < MaxFailures + peak
    <3>1. failures \in Nat /\ Cardinality(Allowed) \in Nat /\ peak \in Nat
      BY <1>1, AllowedIsFinite DEF LimitsInv, LimitsTypeOK
    <3>2. QED
      BY <1>1, <3>1, Limits DEF LimitsInv, FailuresToCome
  <2>3. QED
    BY <2>1, <2>2 DEF SignInLimitsHold, PublicWindow, FailuresAreLimited
<1>2. QED
  BY <1>1, LimitsInitInv, LimitsNextInv, PTL DEF LimitsSpec

-----------------------------------------------------------------------------
(* One-time codes: the calls of requestOtp.                                *)

LEMMA Bounds ==
    /\ Cooldown \in Nat \ {0} /\ Ttl \in Nat \ {0} /\ Window \in Nat \ {0}
    /\ AskCap \in Nat \ {0} /\ TryCap \in Nat \ {0} /\ MaxTime \in Nat
    /\ Cooldown <= Window
BY SignInAssumption

AskRows == [step : AskSteps, phone : Phones \cup {"none"}, at : 0..MaxTime]

AsksTypeOK ==
    /\ clock \in 0..MaxTime
    /\ ask \in [Asks -> AskRows]
    /\ attempts \subseteq [phone : Phones, at : 0..MaxTime]
    /\ IsFiniteSet(attempts)
    /\ accepted \in Seq(Asks)

\* Those that have been begun keep their phone and their time.
Begun(a) == ask[a].step # "idle"

RowOf(i) == [phone |-> ask[accepted[i]].phone, at |-> At(i)]

(* An accepted ask is on record until an ask accepted later cleans it away. *)
RowsAreKept ==
    \A i \in 1..Len(accepted) : RowOf(i) \in attempts \/ CleanedBefore(i, Len(accepted) + 1)

AsksInv ==
    /\ AsksTypeOK
    /\ \A a \in Asks : Begun(a) => ask[a].phone \in Phones
    /\ \A i \in 1..Len(accepted) : Begun(accepted[i])
    /\ RowsAreKept
    /\ RequestsAreSpaced
    /\ HourlyCap

LEMMA AsksInitInv == SignInInit => AsksInv
<1> SUFFICES ASSUME SignInInit PROVE AsksInv
  OBVIOUS
<1>1. accepted = <<>> /\ Len(accepted) = 0 /\ accepted \in Seq(Asks) /\ 1..0 = {}
  BY DEF SignInInit
<1>2. AsksTypeOK
  BY <1>1, FS_EmptySet, Bounds DEF SignInInit, AsksTypeOK, AskRows, AskSteps
<1>3. QED
  BY <1>1, <1>2
     DEF SignInInit, AsksInv, Begun, RowsAreKept, RequestsAreSpaced, HourlyCap

(* A step that accepts no ask and changes none that was begun but for how  *)
(* far it is.                                                              *)
LEMMA AsksFrame ==
    ASSUME AsksInv, AsksTypeOK', accepted' = accepted, attempts' = attempts,
           \A a \in Asks : /\ Begun(a) => /\ ask'[a].phone = ask[a].phone
                                         /\ ask'[a].at = ask[a].at
                                         /\ ask'[a].step # "idle"
                           /\ Begun(a)' => ask'[a].phone \in Phones
    PROVE  AsksInv'
<1> DEFINE n == Len(accepted)
<1>1. n \in Nat /\ n' = n /\ \A i \in 1..n : accepted[i] \in Asks /\ Begun(accepted[i])
  BY DEF AsksInv, AsksTypeOK
<1>2. \A i \in 1..n : /\ At(i)' = At(i)
                      /\ ask'[accepted'[i]].phone = ask[accepted[i]].phone
                      /\ Begun(accepted[i])'
  BY <1>1 DEF At, Begun
<1>3. \A i, j \in 1..n : SamePhone(i, j)' <=> SamePhone(i, j)
  BY <1>2 DEF SamePhone
<1>4. ASSUME NEW i \in 1..n, NEW j \in 1..(n + 1)
      PROVE  CleanedBefore(i, j)' <=> CleanedBefore(i, j)
  <2>1. \A k \in (i + 1)..(j - 1) : k \in 1..n
    BY <1>1
  <2>2. QED
    BY <1>2, <2>1 DEF CleanedBefore
<1>5. \A i \in 1..n : RowOf(i)' = RowOf(i)
  BY <1>2 DEF RowOf
<1>6. RowsAreKept'
  BY <1>1, <1>4, <1>5 DEF AsksInv, RowsAreKept
<1>7. RequestsAreSpaced'
  <2>1. ASSUME NEW j \in 1..n, NEW i \in 1..(j - 1), SamePhone(i, j)'
        PROVE  (At(j) - At(i))' >= Cooldown \/ CleanedBefore(i, j)'
    <3>1. i \in 1..n /\ j \in 1..(n + 1)
      BY <1>1
    <3>2. SamePhone(i, j)
      BY <1>3, <2>1, <3>1
    <3>3. At(j) - At(i) >= Cooldown \/ CleanedBefore(i, j)
      BY <3>2 DEF AsksInv, RequestsAreSpaced
    <3>4. QED
      BY <1>2, <1>4, <3>1, <3>3
  <2>2. QED
    BY <1>1, <2>1 DEF RequestsAreSpaced
<1>8. HourlyCap'
  <2>1. ASSUME NEW j \in 1..n
        PROVE  Cardinality({i \in 1..(j - 1) : /\ SamePhone(i, j)'
                                               /\ At(i)' > At(j)' - Window
                                               /\ ~CleanedBefore(i, j)'}) < AskCap
    <3>1. \A i \in 1..(j - 1) : i \in 1..n
      BY <1>1
    <3>2. j \in 1..(n + 1)
      BY <1>1
    <3>3. {i \in 1..(j - 1) : SamePhone(i, j)' /\ At(i)' > At(j)' - Window /\ ~CleanedBefore(i, j)'}
            = {i \in 1..(j - 1) : SamePhone(i, j) /\ At(i) > At(j) - Window /\ ~CleanedBefore(i, j)}
      BY <1>2, <1>3, <1>4, <3>1, <3>2
    <3>4. QED
      BY <3>3 DEF AsksInv, HourlyCap
  <2>2. QED
    BY <1>1, <2>1 DEF HourlyCap
<1>9. QED
  BY <1>1, <1>2, <1>6, <1>7, <1>8 DEF AsksInv

(* The accepted ask joins the others at the end of them.                   *)
LEMMA ReserveAskInv ==
    ASSUME AsksInv, NEW a \in Asks, ReserveOtpRequest(a)
    PROVE  AsksInv'
<1> DEFINE new == [phone |-> ask[a].phone, at |-> ask[a].at]
<1> USE Bounds
<1>0. PICK n \in Nat : n = Len(accepted)
  BY DEF AsksInv, AsksTypeOK
<1>1. /\ ask[a].step = "asked" /\ ask[a].phone \in Phones /\ ask[a].at \in 0..MaxTime
      /\ ~Cooling(a) /\ Cardinality(RecentAttempts(a)) < AskCap
      /\ ask' = [ask EXCEPT ![a].step = "accepted"]
      /\ attempts' = {r \in attempts \cup {new} : r.at >= ask[a].at - Window}
      /\ accepted' = Append(accepted, a)
      /\ clock' = clock
  BY DEF ReserveOtpRequest, OtpRequestAllowed, AskGoes, AsksInv, AsksTypeOK, AskRows, Begun
<1>2. /\ n = Len(accepted) /\ n \in Nat /\ Len(accepted') = n + 1 /\ accepted' \in Seq(Asks)
      /\ \A i \in 1..n : accepted'[i] = accepted[i]
      /\ accepted'[n + 1] = a
      /\ \A i \in 1..n : accepted[i] \in Asks
  BY <1>0, <1>1 DEF AsksInv, AsksTypeOK
<1>3. \A b \in Asks : /\ ask'[b].phone = ask[b].phone /\ ask'[b].at = ask[b].at
                      /\ ask[b].at \in 0..MaxTime
                      /\ b # a => ask'[b].step = ask[b].step
                      /\ ask'[a].step = "accepted"
  BY <1>1 DEF AsksInv, AsksTypeOK, AskRows
<1>4. AsksTypeOK'
  <2>1. IsFiniteSet(attempts')
    <3>1. IsFiniteSet(attempts \cup {new})
      BY FS_AddElement DEF AsksInv, AsksTypeOK
    <3>2. QED
      BY <1>1, <3>1, FS_Subset
  <2>2. new \in [phone : Phones, at : 0..MaxTime]
    BY <1>1
  <2>3. ask' \in [Asks -> AskRows]
    <3>1. "accepted" \in AskSteps
      BY DEF AskSteps
    <3>2. QED
      BY <1>1, <3>1 DEF AsksInv, AsksTypeOK, AskRows
  <2>4. QED
    BY <1>1, <1>2, <2>1, <2>2, <2>3 DEF AsksInv, AsksTypeOK
<1>5. /\ \A i \in 1..n : At(i)' = At(i) /\ RowOf(i)' = RowOf(i) /\ At(i) \in Nat
      /\ At(n + 1)' = ask[a].at /\ RowOf(n + 1)' = new
      /\ At(n + 1)' \in Nat
  <2>1. \A i \in 1..n : At(i)' = At(i) /\ RowOf(i)' = RowOf(i) /\ At(i) \in Nat
    BY <1>2, <1>3 DEF At, RowOf
  <2>2. QED
    BY <1>1, <1>2, <1>3, <2>1 DEF At, RowOf
<1>6. \A i, j \in 1..n : SamePhone(i, j)' <=> SamePhone(i, j)
  BY <1>2, <1>3 DEF SamePhone
<1>7. ASSUME NEW i \in 1..n, NEW j \in 1..(n + 1)
      PROVE  CleanedBefore(i, j)' <=> CleanedBefore(i, j)
  <2>1. \A k \in (i + 1)..(j - 1) : k \in 1..n
    BY <1>2
  <2>2. QED
    BY <1>5, <2>1 DEF CleanedBefore
<1>8. ASSUME NEW i \in 1..n, ~CleanedBefore(i, n + 1)
      PROVE  RowOf(i) \in attempts
  BY <1>2, <1>8 DEF AsksInv, RowsAreKept
<1>9. RowsAreKept'
  <2>1. ASSUME NEW i \in 1..n
        PROVE  RowOf(i)' \in attempts' \/ CleanedBefore(i, n + 2)'
    <3>1. CASE CleanedBefore(i, n + 1)
      <4>1. PICK k \in (i + 1)..n : At(i) < At(k) - Window
        BY <1>2, <3>1 DEF CleanedBefore
      <4>2. k \in 1..n /\ k \in (i + 1)..(n + 2 - 1)
        BY <1>2
      <4>3. At(i)' < At(k)' - Window
        BY <1>5, <4>1, <4>2
      <4>4. QED
        BY <4>2, <4>3 DEF CleanedBefore
    <3>2. CASE ~CleanedBefore(i, n + 1)
      <4>1. RowOf(i) \in attempts /\ RowOf(i).at = At(i)
        BY <1>8, <3>2 DEF RowOf
      <4>2. CASE At(i) >= ask[a].at - Window
        BY <1>1, <1>5, <4>1, <4>2
      <4>3. CASE At(i) < ask[a].at - Window
        <5>1. n + 1 \in (i + 1)..(n + 2 - 1)
          BY <1>2
        <5>2. At(i)' < At(n + 1)' - Window
          BY <1>5, <4>3
        <5>3. QED
          BY <5>1, <5>2 DEF CleanedBefore
      <4>4. At(i) \in Nat /\ ask[a].at \in Nat
        BY <1>1, <1>5
      <4>5. QED
        BY <4>2, <4>3, <4>4, Bounds
    <3>3. QED
      BY <3>1, <3>2
  <2>2. RowOf(n + 1)' \in attempts'
    BY <1>1, <1>5
  <2>3. QED
    BY <1>2, <2>1, <2>2 DEF RowsAreKept
<1>10. ASSUME NEW i \in 1..n, SamePhone(i, n + 1)', ~CleanedBefore(i, n + 1)
       PROVE  /\ RowOf(i) \in attempts
              /\ At(i) > ask[a].at - Window => RowOf(i) \in RecentAttempts(a)
              /\ ask[a].at - At(i) >= Cooldown
  <2>1. RowOf(i) \in attempts
    BY <1>8, <1>10
  <2>2. RowOf(i).at = At(i) /\ RowOf(i).phone = ask[a].phone
    BY <1>2, <1>3, <1>10 DEF RowOf, SamePhone
  <2>3. At(i) > ask[a].at - Window => RowOf(i) \in RecentAttempts(a)
    BY <2>1, <2>2 DEF RecentAttempts
  <2>4. ask[a].at - At(i) >= Cooldown
    <3>1. CASE At(i) > ask[a].at - Window
      <4>1. ~(ask[a].at - RowOf(i).at < Cooldown)
        BY <1>1, <2>3, <3>1 DEF Cooling
      <4>2. At(i) \in Nat /\ ask[a].at \in Nat
        BY <1>1, <1>5
      <4>3. QED
        BY <4>1, <4>2, <2>2, Bounds
    <3>2. CASE ~(At(i) > ask[a].at - Window)
      <4>1. At(i) \in Nat /\ ask[a].at \in Nat
        BY <1>1, <1>5
      <4>2. QED
        BY <4>1, <3>2, Bounds
    <3>3. QED
      BY <3>1, <3>2
  <2>5. QED
    BY <2>1, <2>3, <2>4
<1>11. ASSUME NEW j \in 1..n
       PROVE  /\ j \in 1..(n + 1)
              /\ \A i \in 1..(j - 1) : i \in 1..n
  BY <1>2
<1>12. RequestsAreSpaced'
  <2>1. ASSUME NEW j \in 1..n, NEW i \in 1..(j - 1), SamePhone(i, j)'
        PROVE  (At(j) - At(i))' >= Cooldown \/ CleanedBefore(i, j)'
    <3>1. i \in 1..n /\ j \in 1..(n + 1)
      BY <1>11
    <3>2. At(j) - At(i) >= Cooldown \/ CleanedBefore(i, j)
      BY <1>2, <1>6, <2>1, <3>1 DEF AsksInv, RequestsAreSpaced
    <3>3. QED
      BY <1>5, <1>7, <3>1, <3>2
  <2>2. ASSUME NEW i \in 1..n, SamePhone(i, n + 1)'
        PROVE  (At(n + 1) - At(i))' >= Cooldown \/ CleanedBefore(i, n + 1)'
    <3>1. n + 1 \in 1..(n + 1)
      BY <1>2
    <3>2. QED
      BY <1>5, <1>7, <1>10, <2>2, <3>1
  <2>3. QED
    BY <1>2, <2>1, <2>2 DEF RequestsAreSpaced
<1>13. HourlyCap'
  <2>1. ASSUME NEW j \in 1..n
        PROVE  Cardinality({i \in 1..(j - 1) : /\ SamePhone(i, j)'
                                               /\ At(i)' > At(j)' - Window
                                               /\ ~CleanedBefore(i, j)'}) < AskCap
    <3>1. {i \in 1..(j - 1) : SamePhone(i, j)' /\ At(i)' > At(j)' - Window /\ ~CleanedBefore(i, j)'}
            = {i \in 1..(j - 1) : SamePhone(i, j) /\ At(i) > At(j) - Window /\ ~CleanedBefore(i, j)}
      BY <1>5, <1>6, <1>7, <1>11
    <3>2. QED
      BY <1>2, <3>1 DEF AsksInv, HourlyCap
  <2> DEFINE Counting == {i \in 1..n : /\ SamePhone(i, n + 1)'
                                       /\ At(i)' > At(n + 1)' - Window
                                       /\ ~CleanedBefore(i, n + 1)'}
  <2>2. Cardinality(Counting) < AskCap
    <3>1. IsFiniteSet(Counting) /\ Cardinality(Counting) \in Nat
      <4>1. IsFiniteSet(1..n)
        BY <1>2, FS_Interval
      <4>2. QED
        BY <4>1, FS_Subset, FS_CardinalityType
    <3>2. IsFiniteSet(RecentAttempts(a)) /\ Cardinality(RecentAttempts(a)) \in Nat
      BY FS_Subset, FS_CardinalityType DEF RecentAttempts, AsksInv, AsksTypeOK
    <3> DEFINE f == [i \in Counting |-> RowOf(i)]
    <3>3. \A i \in Counting : /\ i \in 1..n /\ SamePhone(i, n + 1)'
                              /\ ~CleanedBefore(i, n + 1) /\ At(i) > ask[a].at - Window
      <4>1. n + 1 \in 1..(n + 1)
        BY <1>2
      <4>2. QED
        BY <1>5, <1>7, <4>1
    <3>4. f \in [Counting -> RecentAttempts(a)]
      BY <1>10, <3>3
    <3>5. ASSUME NEW i \in Counting, NEW j \in Counting, i < j
          PROVE  RowOf(i) # RowOf(j)
      <4>1. SamePhone(i, j) /\ i \in 1..n /\ j \in 1..n /\ i \in 1..(j - 1)
        BY <1>2, <1>3, <3>3, <3>5 DEF SamePhone
      <4>2. ~CleanedBefore(i, j)
        <5>1. ~CleanedBefore(i, n + 1) /\ \A k \in (i + 1)..(j - 1) : k \in (i + 1)..(n + 1 - 1)
          BY <1>2, <3>3, <4>1
        <5>2. QED
          BY <5>1 DEF CleanedBefore
      <4>3. At(j) - At(i) >= Cooldown
        BY <1>2, <4>1, <4>2 DEF AsksInv, RequestsAreSpaced
      <4>4. RowOf(i).at = At(i) /\ RowOf(j).at = At(j) /\ At(i) \in Nat /\ At(j) \in Nat
        BY <1>5, <4>1 DEF RowOf
      <4>5. QED
        BY <4>3, <4>4
    <3>6. ~ \E i, j \in Counting : i # j /\ f[i] = f[j]
      <4>1. \A i, j \in Counting : i # j => i < j \/ j < i
        BY <1>2, <3>3
      <4>2. QED
        BY <3>5, <4>1
    <3> HIDE DEF Counting, f
    <3>7. ~(Cardinality(RecentAttempts(a)) < Cardinality(Counting))
      BY <3>1, <3>2, <3>4, <3>6, FS_PigeonHole
    <3>8. QED
      BY <1>1, <3>1, <3>2, <3>7
  <2>3. Cardinality({i \in 1..((n + 1) - 1) : /\ SamePhone(i, n + 1)'
                                            /\ At(i)' > At(n + 1)' - Window
                                            /\ ~CleanedBefore(i, n + 1)'}) < AskCap
    <3>1. (n + 1) - 1 = n
      BY <1>2
    <3>2. QED
      BY <2>2, <3>1
  <2>4. \A j \in 1..(n + 1) :
          Cardinality({i \in 1..(j - 1) : /\ SamePhone(i, j)'
                                          /\ At(i)' > At(j)' - Window
                                          /\ ~CleanedBefore(i, j)'}) < AskCap
    <3>1. \A j \in 1..(n + 1) : j \in 1..n \/ j = n + 1
      BY <1>2
    <3>2. QED
      BY <2>1, <2>3, <3>1
  <2>5. QED
    BY <1>2, <2>4 DEF HourlyCap
<1>14. QED
  BY <1>1, <1>2, <1>3, <1>4, <1>9, <1>12, <1>13 DEF AsksInv, Begun

(* How far an ask is changes nothing of what was accepted.                 *)
LEMMA AskGoesFrame ==
    ASSUME AsksInv, NEW a \in Asks, NEW to \in AskSteps \ {"idle"}, Begun(a),
           ask' = [ask EXCEPT ![a].step = to], UNCHANGED <<clock, attempts, accepted>>
    PROVE  AsksInv'
<1>1. AsksTypeOK'
  <2>1. ask' \in [Asks -> AskRows]
    BY DEF AsksInv, AsksTypeOK, AskRows
  <2>2. QED
    BY <2>1 DEF AsksInv, AsksTypeOK
<1>2. \A b \in Asks : /\ ask'[b].phone = ask[b].phone /\ ask'[b].at = ask[b].at
                      /\ Begun(b) => ask'[b].step # "idle"
                      /\ Begun(b)' => Begun(b)
  BY DEF AsksInv, AsksTypeOK, AskRows, Begun
<1>3. QED
  BY <1>1, <1>2, AsksFrame DEF AsksInv

LEMMA AsksNextInv == AsksInv /\ [SignInNext]_signInVars => AsksInv'
<1> SUFFICES ASSUME AsksInv, [SignInNext]_signInVars PROVE AsksInv'
  OBVIOUS
<1>1. ASSUME NEW a \in Asks, NEW p \in Phones, RequestOtp(a, p) PROVE AsksInv'
  <2>1. /\ ~Begun(a) /\ clock \in 0..MaxTime
        /\ ask' = [ask EXCEPT ![a] = [step |-> "asked", phone |-> p, at |-> clock]]
        /\ UNCHANGED <<clock, attempts, accepted>>
    BY <1>1 DEF RequestOtp, Begun, AsksInv, AsksTypeOK
  <2>2. AsksTypeOK'
    BY <2>1 DEF AsksInv, AsksTypeOK, AskRows, AskSteps
  <2>3. \A b \in Asks : /\ b # a => ask'[b] = ask[b]
                        /\ ask'[a].phone = p
    BY <2>1 DEF AsksInv, AsksTypeOK
  <2>4. \A b \in Asks : /\ Begun(b) => /\ ask'[b].phone = ask[b].phone
                                      /\ ask'[b].at = ask[b].at
                                      /\ ask'[b].step # "idle"
                        /\ Begun(b)' => ask'[b].phone \in Phones
    BY <2>1, <2>3 DEF Begun, AsksInv
  <2>5. QED
    BY <2>1, <2>2, <2>4, AsksFrame
<1>2. ASSUME NEW a \in Asks,
             RefuseOtpRequest(a) \/ StartVerification(a) \/ CreateOtpChallenge(a) \/ RequestOtpFails(a)
      PROVE  AsksInv'
  <2>1. /\ Begun(a) /\ UNCHANGED <<clock, attempts, accepted>>
        /\ \E to \in {"over", "sent", "answered"} : ask' = [ask EXCEPT ![a].step = to]
    BY <1>2 DEF RefuseOtpRequest, StartVerification, CreateOtpChallenge, RequestOtpFails,
       AskGoes, Begun
  <2>2. PICK to \in {"over", "sent", "answered"} : ask' = [ask EXCEPT ![a].step = to]
    BY <2>1
  <2>3. to \in AskSteps \ {"idle"}
    BY DEF AskSteps
  <2>4. QED
    BY <2>1, <2>2, <2>3, AskGoesFrame
<1>3. CASE UNCHANGED <<ask, attempts, accepted>> /\ clock' \in 0..MaxTime
  <2>1. AsksTypeOK'
    BY <1>3 DEF AsksInv, AsksTypeOK
  <2>2. QED
    BY <1>3, <2>1, AsksFrame DEF AsksInv, Begun
<1>4. CASE \E v \in Checks :
             \/ \E a \in Asks : ReserveOtpVerificationAttempt(v, a) \/ RefuseVerification(v, a)
             \/ CheckVerification(v) \/ ConsumeOtpChallenge(v) \/ ConsumesNothing(v)
             \/ UpsertCustomer(v) \/ CreateCustomerSession(v)
             \/ VerifyOtpFails(v) \/ EndCustomerSession(v)
  <2>1. UNCHANGED <<clock, ask, attempts, accepted>>
    BY <1>4 DEF askVars, ReserveOtpVerificationAttempt, RefuseVerification, CheckVerification,
       ConsumeOtpChallenge, ConsumesNothing, UpsertCustomer, CreateCustomerSession,
       VerifyOtpFails, EndCustomerSession
  <2>2. QED
    BY <1>3, <2>1 DEF AsksInv, AsksTypeOK
<1>5. CASE TimePasses
  <2>1. clock' \in 0..MaxTime /\ UNCHANGED <<ask, attempts, accepted>>
    BY <1>5, Bounds DEF TimePasses, askVars, AsksInv, AsksTypeOK
  <2>2. QED
    BY <1>3, <2>1
<1>6. CASE UNCHANGED signInVars
  BY <1>3, <1>6 DEF signInVars, askVars, AsksInv, AsksTypeOK
<1>7. QED
  BY <1>1, <1>2, <1>4, <1>5, <1>6, ReserveAskInv DEF SignInNext

(* Codes are sent to a phone no closer together and no more of them in a   *)
(* window than allowed, whichever order the asks arrive in, but for those  *)
(* that another phone's cleanup has made room for.                         *)
THEOREM OtpLimited == SignInSpec => []OtpLimits
<1>1. AsksInv => OtpLimits
  BY DEF AsksInv, OtpLimits
<1>2. QED
  BY <1>1, AsksInitInv, AsksNextInv, PTL DEF SignInSpec

-----------------------------------------------------------------------------
(* One-time codes: the calls of verifyOtp.                                 *)

CheckRows == [step : CheckSteps, of : Asks \cup {"none"}]

\* The checks that have counted an attempt and not yet used it.
Waiting(a) == {v \in Checks : check[v].step = "counted" /\ check[v].of = a}

\* The checks that have had the challenge to themselves.
Beyond(v) == v \in opened \/ check[v].step \in {"consumed", "known"}

ChecksInv ==
    /\ check \in [Checks -> CheckRows] /\ opened \subseteq Checks
    /\ tries \in [Asks -> 0..TryCap] /\ guesses \in [Asks -> Nat]
    /\ \A v \in Checks : check[v].step # "idle" => check[v].of \in Asks
    /\ \A a \in Asks : /\ IsFiniteSet(Waiting(a))
                        /\ guesses[a] + Cardinality(Waiting(a)) <= tries[a]
    /\ \A a \in challenges : a \in Asks /\ ask[a].step = "answered"
    /\ \A v \in opened : check[v].step = "answered"
    /\ \A v \in Checks : Beyond(v) =>
         ask[check[v].of].step = "answered" /\ check[v].of \notin challenges
    /\ \A v, w \in Checks : Beyond(v) /\ Beyond(w) /\ check[v].of = check[w].of => v = w

LEMMA ChecksInitInv == SignInInit => ChecksInv
<1> SUFFICES ASSUME SignInInit PROVE ChecksInv
  OBVIOUS
<1>1. \A a \in Asks : Waiting(a) = {}
  BY DEF Waiting, SignInInit
<1>2. \A a \in Asks : IsFiniteSet(Waiting(a)) /\ guesses[a] + Cardinality(Waiting(a)) <= tries[a]
  <2>1. \A a \in Asks : guesses[a] = 0 /\ tries[a] = 0
    BY DEF SignInInit
  <2>2. IsFiniteSet({}) /\ Cardinality({}) = 0
    BY FS_EmptySet
  <2>3. QED
    BY <1>1, <2>1, <2>2
<1>3. QED
  BY <1>2, Bounds DEF ChecksInv, SignInInit, CheckRows, CheckSteps, Beyond

(* What requestOtp does is seen by the checks only as a new challenge.     *)
LEMMA ChecksFrame ==
    ASSUME ChecksInv, UNCHANGED <<tries, guesses, check, opened>>,
           \A b \in Asks : ask[b].step = "answered" => ask'[b].step = "answered",
           \A b \in challenges' : \/ b \in challenges
                                  \/ b \in Asks /\ ask[b].step # "answered" /\ ask'[b].step = "answered"
    PROVE  ChecksInv'
<1>1. \A a \in Asks : Waiting(a)' = Waiting(a)
  BY DEF Waiting
<1>2. \A v \in Checks : (Beyond(v)' <=> Beyond(v)) /\ (Beyond(v) => check[v].of \in Asks)
  BY DEF Beyond, ChecksInv
<1>3. \A v \in Checks : Beyond(v) =>
        ask'[check[v].of].step = "answered" /\ check[v].of \notin challenges'
  BY <1>2 DEF ChecksInv
<1>4. \A a \in challenges' : a \in Asks /\ ask'[a].step = "answered"
  BY DEF ChecksInv
<1>5. QED
  BY <1>1, <1>2, <1>3, <1>4 DEF ChecksInv

(* A check goes on without going past the others.                          *)
LEMMA CheckFrame ==
    ASSUME ChecksInv, NEW v \in Checks, NEW row \in CheckRows,
           check' = [check EXCEPT ![v] = row], row.of \in Asks,
           UNCHANGED <<ask, challenges>>,
           tries' \in [Asks -> 0..TryCap], guesses' \in [Asks -> Nat],
           \/ opened' = opened
           \/ opened' = opened \cup {v} /\ row.step = "answered",
           v \notin opened,
           v \in opened' \/ row.step \in {"consumed", "known"} =>
               Beyond(v) /\ row.of = check[v].of,
           \A a \in Asks : /\ IsFiniteSet(Waiting(a)')
                           /\ guesses'[a] + Cardinality(Waiting(a)') <= tries'[a]
    PROVE  ChecksInv'
<1>1. /\ check' \in [Checks -> CheckRows] /\ opened' \subseteq Checks
      /\ check'[v] = row /\ \A w \in Checks : w # v => check'[w] = check[w]
  BY DEF ChecksInv
<1>2. \A w \in Checks : Beyond(w)' => Beyond(w) /\ check'[w].of = check[w].of
  BY <1>1 DEF Beyond
<1>3. \A w \in Checks : check'[w].step # "idle" => check'[w].of \in Asks
  BY <1>1 DEF ChecksInv
<1>4. \A w \in opened' : check'[w].step = "answered"
  BY <1>1 DEF ChecksInv
<1>5. \A w \in Checks : Beyond(w)' =>
        ask'[check'[w].of].step = "answered" /\ check'[w].of \notin challenges'
  BY <1>2 DEF ChecksInv
<1>6. \A u, w \in Checks : Beyond(u)' /\ Beyond(w)' /\ check'[u].of = check'[w].of => u = w
  BY <1>2 DEF ChecksInv
<1>7. QED
  BY <1>1, <1>3, <1>4, <1>5, <1>6 DEF ChecksInv

LEMMA WaitingNumbers ==
    ASSUME ChecksInv, NEW a \in Asks
    PROVE  /\ Cardinality(Waiting(a)) \in Nat /\ IsFiniteSet(Waiting(a))
           /\ guesses[a] \in Nat /\ tries[a] \in Nat /\ tries[a] <= TryCap
           /\ guesses[a] + Cardinality(Waiting(a)) <= tries[a]
BY Bounds, FS_CardinalityType DEF ChecksInv

(* Fewer checks wait, and no more has been guessed.                        *)
LEMMA FewerWaiting ==
    ASSUME ChecksInv, NEW v \in Checks, NEW row \in CheckRows, row.step # "counted",
           check' = [check EXCEPT ![v] = row], UNCHANGED <<tries, guesses>>
    PROVE  \A a \in Asks : /\ IsFiniteSet(Waiting(a)')
                           /\ guesses'[a] + Cardinality(Waiting(a)') <= tries'[a]
<1> SUFFICES ASSUME NEW a \in Asks
             PROVE  IsFiniteSet(Waiting(a)') /\ guesses[a] + Cardinality(Waiting(a)') <= tries[a]
  OBVIOUS
<1>1. Waiting(a)' \subseteq Waiting(a)
  BY DEF Waiting, ChecksInv
<1>2. IsFiniteSet(Waiting(a)') /\ Cardinality(Waiting(a)') <= Cardinality(Waiting(a))
  BY <1>1, WaitingNumbers, FS_Subset
<1>3. Cardinality(Waiting(a)') \in Nat
  BY <1>2, FS_CardinalityType
<1>4. QED
  BY <1>2, <1>3, WaitingNumbers

LEMMA ReserveCheckInv ==
    ASSUME ChecksInv, NEW v \in Checks, NEW a \in Asks, ReserveOtpVerificationAttempt(v, a)
    PROVE  ChecksInv'
<1> DEFINE row == [step |-> "counted", of |-> a]
<1>1. /\ check[v].step = "idle" /\ tries[a] < TryCap
      /\ tries' = [tries EXCEPT ![a] = @ + 1] /\ check' = [check EXCEPT ![v] = row]
      /\ UNCHANGED <<ask, challenges, guesses, opened>>
  BY DEF ReserveOtpVerificationAttempt, askVars
<1>2. row \in CheckRows /\ row.of = a /\ row.step = "counted"
  BY DEF CheckRows, CheckSteps
<1>3. v \notin opened /\ v \notin Waiting(a)
  BY <1>1 DEF ChecksInv, Waiting
<1>4. tries' \in [Asks -> 0..TryCap] /\ guesses' \in [Asks -> Nat]
  BY <1>1, Bounds DEF ChecksInv
<1>5. /\ Waiting(a)' = Waiting(a) \cup {v}
      /\ \A b \in Asks : b # a => Waiting(b)' = Waiting(b)
  BY <1>1, <1>2 DEF Waiting, ChecksInv
<1>6. ASSUME NEW b \in Asks
      PROVE  IsFiniteSet(Waiting(b)') /\ guesses'[b] + Cardinality(Waiting(b)') <= tries'[b]
  <2>1. CASE b = a
    <3>1. IsFiniteSet(Waiting(a) \cup {v}) /\ Cardinality(Waiting(a) \cup {v}) = Cardinality(Waiting(a)) + 1
      BY <1>3, WaitingNumbers, FS_AddElement
    <3>2. tries'[a] = tries[a] + 1 /\ guesses'[a] = guesses[a]
      BY <1>1 DEF ChecksInv
    <3>3. Cardinality(Waiting(a)) \in Nat /\ guesses[a] \in Nat /\ tries[a] \in Nat
          /\ guesses[a] + Cardinality(Waiting(a)) <= tries[a]
      BY WaitingNumbers
    <3>4. IsFiniteSet(Waiting(a)') /\ Cardinality(Waiting(a)') = Cardinality(Waiting(a)) + 1
      BY <1>5, <3>1
    <3>5. IsFiniteSet(Waiting(a)') /\ guesses'[a] + Cardinality(Waiting(a)') <= tries'[a]
      BY <3>2, <3>3, <3>4
    <3>6. QED
      BY <2>1, <3>5
  <2>2. CASE b # a
    <3>1. tries'[b] = tries[b] /\ guesses'[b] = guesses[b] /\ Waiting(b)' = Waiting(b)
      BY <1>1, <1>5, <2>2 DEF ChecksInv
    <3>2. QED
      BY <3>1, WaitingNumbers
  <2>3. QED
    BY <2>1, <2>2
<1> HIDE DEF row
<1>7. /\ check' = [check EXCEPT ![v] = row] /\ UNCHANGED <<ask, challenges>>
      /\ row \in CheckRows /\ row.of \in Asks /\ v \notin opened
  BY <1>1, <1>2, <1>3
<1>8. /\ \/ opened' = opened
         \/ opened' = opened \cup {v} /\ row.step = "answered"
      /\ v \in opened' \/ row.step \in {"consumed", "known"} =>
            Beyond(v) /\ row.of = check[v].of
  BY <1>1, <1>2, <1>3
<1>9. \A b \in Asks : /\ IsFiniteSet(Waiting(b)')
                      /\ guesses'[b] + Cardinality(Waiting(b)') <= tries'[b]
  BY <1>6
<1>10. QED
  BY <1>4, <1>7, <1>8, <1>9, CheckFrame

LEMMA CheckVerificationInv ==
    ASSUME ChecksInv, NEW v \in Checks, CheckVerification(v)
    PROVE  ChecksInv'
<1>0. PICK a \in Asks : a = check[v].of
  BY DEF CheckVerification, ChecksInv
<1>1. check[v].step = "counted" /\ a = check[v].of /\ v \in Waiting(a)
  BY <1>0 DEF CheckVerification, Waiting
<1>2. /\ guesses' = [guesses EXCEPT ![a] = @ + 1]
      /\ UNCHANGED <<ask, challenges, tries, opened>>
  BY <1>1 DEF CheckVerification, askVars
<1>3. PICK to \in {"over", "approved"} : check' = [check EXCEPT ![v].step = to]
  BY DEF CheckVerification
<1> DEFINE row == [check[v] EXCEPT !.step = to]
<1>4. /\ row \in CheckRows /\ row.of = a /\ row.step \in {"over", "approved"}
      /\ check' = [check EXCEPT ![v] = row]
  <2>1. check[v] \in CheckRows /\ to \in CheckSteps
    BY DEF ChecksInv, CheckSteps
  <2>2. row \in CheckRows /\ row.of = a /\ row.step = to
    BY <1>1, <2>1 DEF CheckRows
  <2>3. check' = [check EXCEPT ![v] = row]
    BY <1>3
  <2>4. QED
    BY <2>2, <2>3
<1> HIDE DEF row
<1>5. v \notin opened
  BY <1>1 DEF ChecksInv
<1>6. tries' \in [Asks -> 0..TryCap] /\ guesses' \in [Asks -> Nat]
  BY <1>1, <1>2 DEF ChecksInv
<1>7. /\ Waiting(a)' = Waiting(a) \ {v}
      /\ \A b \in Asks : b # a => Waiting(b)' = Waiting(b)
  <2>1. /\ check'[v] = row /\ row.step # "counted"
        /\ \A w \in Checks : w # v => check'[w] = check[w]
    BY <1>4 DEF ChecksInv
  <2>2. \A b \in Asks : Waiting(b)' = Waiting(b) \ {v}
    BY <2>1 DEF Waiting
  <2>3. \A b \in Asks : b # a => v \notin Waiting(b)
    BY <1>1 DEF Waiting
  <2>4. \A b \in Asks : b # a => Waiting(b) \ {v} = Waiting(b)
    BY <2>3
  <2>5. \A b \in Asks : b # a => Waiting(b)' = Waiting(b)
    BY <2>2, <2>4
  <2>6. QED
    BY <1>1, <2>2, <2>5
<1>8. ASSUME NEW b \in Asks
      PROVE  IsFiniteSet(Waiting(b)') /\ guesses'[b] + Cardinality(Waiting(b)') <= tries'[b]
  <2>1. CASE b = a
    <3>1. IsFiniteSet(Waiting(a) \ {v}) /\ Cardinality(Waiting(a) \ {v}) = Cardinality(Waiting(a)) - 1
      BY <1>1, WaitingNumbers, FS_RemoveElement
    <3>2. tries'[a] = tries[a] /\ guesses'[a] = guesses[a] + 1
      BY <1>1, <1>2 DEF ChecksInv
    <3>3. Cardinality(Waiting(a)) \in Nat /\ guesses[a] \in Nat /\ tries[a] \in Nat
          /\ guesses[a] + Cardinality(Waiting(a)) <= tries[a]
      BY <1>1, WaitingNumbers
    <3>4. IsFiniteSet(Waiting(a)') /\ Cardinality(Waiting(a)') = Cardinality(Waiting(a)) - 1
      BY <1>7, <3>1
    <3>5. IsFiniteSet(Waiting(a)') /\ guesses'[a] + Cardinality(Waiting(a)') <= tries'[a]
      BY <3>2, <3>3, <3>4
    <3>6. QED
      BY <2>1, <3>5
  <2>2. CASE b # a
    <3>1. tries'[b] = tries[b] /\ guesses'[b] = guesses[b] /\ Waiting(b)' = Waiting(b)
      BY <1>1, <1>2, <1>7, <2>2 DEF ChecksInv
    <3>2. QED
      BY <3>1, WaitingNumbers
  <2>3. QED
    BY <2>1, <2>2
<1>9. /\ check' = [check EXCEPT ![v] = row] /\ UNCHANGED <<ask, challenges>>
      /\ row \in CheckRows /\ row.of \in Asks /\ v \notin opened
  BY <1>1, <1>2, <1>4, <1>5
<1>10. /\ \/ opened' = opened
          \/ opened' = opened \cup {v} /\ row.step = "answered"
       /\ v \in opened' \/ row.step \in {"consumed", "known"} =>
             Beyond(v) /\ row.of = check[v].of
  BY <1>1, <1>2, <1>4, <1>5
<1>11. \A b \in Asks : /\ IsFiniteSet(Waiting(b)')
                       /\ guesses'[b] + Cardinality(Waiting(b)') <= tries'[b]
  BY <1>8
<1>12. QED
  BY <1>6, <1>9, <1>10, <1>11, CheckFrame

(* The steps that move one check along and count nothing.                  *)
LEMMA CheckGoesInv ==
    ASSUME ChecksInv, NEW v \in Checks,
           \/ \E a \in Asks : RefuseVerification(v, a)
           \/ ConsumesNothing(v) \/ UpsertCustomer(v) \/ CreateCustomerSession(v)
           \/ VerifyOtpFails(v)
    PROVE  ChecksInv'
<1>1. ASSUME NEW row \in CheckRows, check' = [check EXCEPT ![v] = row], row.of \in Asks,
             row.step \in {"over", "known", "answered"},
             row.step # "over" => check[v].step \in {"consumed", "known"} /\ row.of = check[v].of,
             v \notin opened,
             \/ opened' = opened
             \/ opened' = opened \cup {v} /\ row.step = "answered",
             UNCHANGED <<ask, challenges, tries, guesses>>
      PROVE  ChecksInv'
  <2>1. v \in opened' \/ row.step \in {"consumed", "known"} => Beyond(v) /\ row.of = check[v].of
    BY <1>1 DEF Beyond
  <2>2. row.step # "counted"
    BY <1>1
  <2>3. \A a \in Asks : /\ IsFiniteSet(Waiting(a)')
                        /\ guesses'[a] + Cardinality(Waiting(a)') <= tries'[a]
    BY <1>1, <2>2, FewerWaiting
  <2>4. tries' \in [Asks -> 0..TryCap] /\ guesses' \in [Asks -> Nat]
    BY <1>1 DEF ChecksInv
  <2>5. QED
    BY <1>1, <2>1, <2>3, <2>4, CheckFrame
<1>2. ASSUME NEW a \in Asks, RefuseVerification(v, a) PROVE ChecksInv'
  <2> DEFINE row == [step |-> "over", of |-> a]
  <2>1. /\ check[v].step = "idle" /\ check' = [check EXCEPT ![v] = row]
        /\ UNCHANGED <<ask, challenges, tries, guesses, opened>>
    BY <1>2 DEF RefuseVerification, askVars
  <2>2. row \in CheckRows /\ row.of = a /\ row.step = "over" /\ v \notin opened
    BY <2>1 DEF CheckRows, CheckSteps, ChecksInv
  <2>3. /\ row.of \in Asks /\ row.step \in {"over", "known", "answered"}
        /\ row.step # "over" => check[v].step \in {"consumed", "known"} /\ row.of = check[v].of
        /\ \/ opened' = opened
           \/ opened' = opened \cup {v} /\ row.step = "answered"
        /\ UNCHANGED <<ask, challenges, tries, guesses>>
    BY <2>1, <2>2
  <2> HIDE DEF row
  <2>4. QED
    BY <1>1, <2>1, <2>2, <2>3
<1>3. ASSUME NEW to \in {"over", "known", "answered"}, check' = [check EXCEPT ![v].step = to],
             check[v].step \notin {"idle", "answered"},
             to # "over" => check[v].step \in {"consumed", "known"},
             \/ opened' = opened
             \/ opened' = opened \cup {v} /\ to = "answered",
             UNCHANGED <<ask, challenges, tries, guesses>>
      PROVE  ChecksInv'
  <2> DEFINE row == [check[v] EXCEPT !.step = to]
  <2>1. check[v] \in CheckRows /\ to \in CheckSteps /\ check[v].of \in Asks /\ v \notin opened
    BY <1>3 DEF ChecksInv, CheckSteps
  <2>2. row \in CheckRows /\ row.of = check[v].of /\ row.step = to
    BY <2>1 DEF CheckRows
  <2>3. check' = [check EXCEPT ![v] = row]
    BY <1>3
  <2> HIDE DEF row
  <2>4. QED
    BY <1>1, <1>3, <2>1, <2>2, <2>3
<1>4. CASE ConsumesNothing(v)
  <2>1. /\ check[v].step = "approved" /\ check' = [check EXCEPT ![v].step = "over"]
        /\ UNCHANGED <<ask, challenges, tries, guesses, opened>>
    BY <1>4 DEF ConsumesNothing, CheckGoes, askVars
  <2>2. QED
    BY <1>3, <2>1
<1>5. CASE UpsertCustomer(v)
  <2>1. /\ check[v].step = "consumed" /\ check' = [check EXCEPT ![v].step = "known"]
        /\ UNCHANGED <<ask, challenges, tries, guesses, opened>>
    BY <1>5 DEF UpsertCustomer, CheckGoes, askVars
  <2>2. QED
    BY <1>3, <2>1
<1>6. CASE CreateCustomerSession(v)
  BY <1>3, <1>6 DEF CreateCustomerSession, CheckGoes, askVars
<1>7. CASE VerifyOtpFails(v)
  <2>1. /\ check[v].step \in {"counted", "approved", "consumed", "known"} /\ check' = [check EXCEPT ![v].step = "over"]
        /\ UNCHANGED <<ask, challenges, tries, guesses, opened>>
    BY <1>7 DEF VerifyOtpFails, askVars
  <2>2. QED
    BY <1>3, <2>1
<1>8. QED
  BY <1>2, <1>4, <1>5, <1>6, <1>7

(* The one check that deletes the challenge has it to itself.              *)
LEMMA ConsumeInv ==
    ASSUME ChecksInv, NEW v \in Checks, ConsumeOtpChallenge(v)
    PROVE  ChecksInv'
<1> DEFINE a == check[v].of
<1>1. /\ check[v].step = "approved" /\ a \in challenges /\ a \in Asks /\ v \notin opened
      /\ ask[a].step = "answered"
      /\ check' = [check EXCEPT ![v].step = "consumed"]
      /\ challenges' = challenges \ {a}
      /\ UNCHANGED <<ask, tries, guesses, opened>>
  BY DEF ConsumeOtpChallenge, Live, CheckGoes, ChecksInv, askVars
<1> DEFINE row == [check[v] EXCEPT !.step = "consumed"]
<1>2. /\ row \in CheckRows /\ row.of = a /\ row.step = "consumed"
      /\ check' = [check EXCEPT ![v] = row]
  <2>1. check[v] \in CheckRows /\ "consumed" \in CheckSteps
    BY DEF ChecksInv, CheckSteps
  <2>2. row \in CheckRows /\ row.of = a /\ row.step = "consumed"
    BY <2>1 DEF CheckRows
  <2>3. QED
    BY <1>1, <2>2
<1> HIDE DEF row
<1>3. /\ check' \in [Checks -> CheckRows]
      /\ check'[v] = row /\ \A w \in Checks : w # v => check'[w] = check[w]
  BY <1>2 DEF ChecksInv
<1>4. \A b \in Asks : /\ IsFiniteSet(Waiting(b)')
                      /\ guesses'[b] + Cardinality(Waiting(b)') <= tries'[b]
  BY <1>1, <1>2, FewerWaiting
<1>5. \A w \in Checks : w # v => (Beyond(w)' <=> Beyond(w))
  BY <1>1, <1>3 DEF Beyond
<1>6. \A w \in Checks : Beyond(w) => check[w].of # a
  BY <1>1 DEF ChecksInv
<1>7. \A w \in Checks : Beyond(w)' =>
        ask'[check'[w].of].step = "answered" /\ check'[w].of \notin challenges'
  BY <1>1, <1>2, <1>3, <1>5 DEF ChecksInv
<1>8. \A u, w \in Checks : Beyond(u)' /\ Beyond(w)' /\ check'[u].of = check'[w].of => u = w
  <2>1. \A w \in Checks : w # v /\ Beyond(w)' => check'[w].of # a
    BY <1>3, <1>5, <1>6
  <2>2. check'[v].of = a
    BY <1>2, <1>3
  <2>3. \A u, w \in Checks : u # v /\ w # v /\ Beyond(u)' /\ Beyond(w)' /\ check'[u].of = check'[w].of
          => u = w
    BY <1>3, <1>5 DEF ChecksInv
  <2>4. QED
    BY <2>1, <2>2, <2>3
<1>9. \A w \in Checks : check'[w].step # "idle" => check'[w].of \in Asks
  BY <1>1, <1>2, <1>3 DEF ChecksInv
<1>10. \A w \in opened' : check'[w].step = "answered"
  BY <1>1, <1>3 DEF ChecksInv
<1>11. QED
  BY <1>1, <1>3, <1>4, <1>7, <1>8, <1>9, <1>10 DEF ChecksInv

LEMMA ChecksNextInv == ChecksInv /\ AsksTypeOK /\ [SignInNext]_signInVars => ChecksInv'
<1> SUFFICES ASSUME ChecksInv, AsksTypeOK, [SignInNext]_signInVars PROVE ChecksInv'
  OBVIOUS
<1>1. ASSUME NEW a \in Asks,
             \/ \E p \in Phones : RequestOtp(a, p)
             \/ ReserveOtpRequest(a) \/ RefuseOtpRequest(a)
             \/ StartVerification(a) \/ RequestOtpFails(a)
      PROVE  ChecksInv'
  <2>1. /\ UNCHANGED <<tries, guesses, check, opened, challenges>>
        /\ ask[a].step # "answered" /\ \A b \in Asks : b # a => ask'[b] = ask[b]
    BY <1>1 DEF RequestOtp, ReserveOtpRequest, RefuseOtpRequest, StartVerification,
       RequestOtpFails, AskGoes, checkVars, AsksTypeOK
  <2>2. QED
    BY <2>1, ChecksFrame
<1>2. ASSUME NEW a \in Asks, CreateOtpChallenge(a) PROVE ChecksInv'
  <2>1. /\ UNCHANGED <<tries, guesses, check, opened>> /\ challenges' = challenges \cup {a}
        /\ ask[a].step = "sent" /\ ask'[a].step = "answered"
        /\ \A b \in Asks : b # a => ask'[b] = ask[b]
    BY <1>2 DEF CreateOtpChallenge, AskGoes, checkVars, AsksTypeOK, AskRows
  <2>2. QED
    BY <2>1, ChecksFrame
<1>3. CASE TimePasses \/ UNCHANGED signInVars \/ \E v \in Checks : EndCustomerSession(v)
  <2>1. UNCHANGED <<ask, challenges, tries, guesses, check, opened>>
    BY <1>3 DEF TimePasses, signInVars, EndCustomerSession, askVars, checkVars
  <2>2. QED
    BY <2>1, ChecksFrame
<1>4. QED
  BY <1>1, <1>2, <1>3, ReserveCheckInv, CheckVerificationInv, CheckGoesInv, ConsumeInv
     DEF SignInNext

(* However many checks of a challenge run at once, the provider of codes   *)
(* is asked about it a bounded number of times and one session is made.    *)
THEOREM ChallengesSpent == SignInSpec => []ChallengesAreSpent
<1>1. ASSUME ChecksInv PROVE ChallengesAreSpent
  <2>1. \A a \in Asks : guesses[a] <= TryCap
    BY <1>1, WaitingNumbers, Bounds
  <2>2. OneSessionPerChallenge
    BY <1>1 DEF ChecksInv, OneSessionPerChallenge, Beyond
  <2>3. QED
    BY <2>1, <2>2 DEF ChallengesAreSpent, GuessesAreBounded
<1>2. ChecksInv /\ AsksInv /\ [SignInNext]_signInVars => ChecksInv' /\ AsksInv'
  BY ChecksNextInv, AsksNextInv DEF AsksInv
<1>3. QED
  BY <1>1, <1>2, AsksInitInv, ChecksInitInv, PTL DEF SignInSpec

-----------------------------------------------------------------------------
(* Devices.                                                                *)

HIDE DEF CodesInv, CodesTypeOK, LoginSteps, Credential
USE DevicesAssumption
USE DEF Inside

(* A row is committed by a registration that is over, and the row that a   *)
(* registration has seen, if any, is one of its token.                     *)
RowsAreOver ==
  /\ IsFiniteSet(active)
  /\ \A d \in active : reg[d].step = "over"
  /\ \A c \in Registrations : reg[c].seen # NoDevice =>
       reg[reg[c].seen].step = "over" /\ reg[reg[c].seen].token = reg[c].token

(* The advisory lock: one transaction per owner.                           *)
OwnersAreSerialized ==
  \A c, d \in Registrations :
    reg[c].step \in Inside /\ reg[d].step \in Inside /\ reg[c].owner = reg[d].owner
      => c = d

(* Who has counted leaves room for its device until it ends.               *)
RoomIsLeft ==
  \A c \in Registrations : reg[c].step \in {"counted", "inserted"} =>
    Cardinality(DevicesOf(reg[c].owner)) < DeviceCap

(* The unique index: whoever has inserted is alone with its token but for  *)
(* the row it takes over.                                                  *)
InsertsAreAlone ==
  \A c \in Registrations : reg[c].step = "inserted" =>
    /\ ActiveOf(reg[c].token) \subseteq {reg[c].seen}
    /\ \A d \in Registrations :
         reg[d].step = "inserted" /\ reg[d].token = reg[c].token => d = c

DevicesInv ==
  /\ DevicesTypeOK
  /\ RowsAreOver
  /\ OwnersAreSerialized
  /\ RoomIsLeft
  /\ InsertsAreAlone
  /\ DevicesAreLimited

USE DEF DevicesInv, DevicesTypeOK

LEMMA DevicesInitInv == DevicesInit => DevicesInv
<1> SUFFICES ASSUME DevicesInit PROVE DevicesInv
  OBVIOUS
<1>1. IsFiniteSet(active) /\ \A o \in Owners : DevicesOf(o) = {}
  BY FS_EmptySet DEF DevicesInit, DevicesOf
<1>2. DeviceCapIsKept
  BY <1>1, FS_EmptySet DEF DeviceCapIsKept
<1>3. QED
  BY <1>1, <1>2 DEF DevicesInit, RowsAreOver, OwnersAreSerialized, RoomIsLeft,
     InsertsAreAlone, DevicesAreLimited, TokenHasOneOwner, ActiveOf

-----------------------------------------------------------------------------
(* A registration that is not over goes on, with the rows as they are: its *)
(* owner and token are as they were, what it has seen was there with its   *)
(* token, and the lock, the count and the index let it.                    *)
LEMMA RegistrationStep ==
  ASSUME DevicesInv, NEW c \in Registrations, NEW next,
         next \in [step : {"over"} \cup Inside, owner : Owners \cup {"none"},
                   token : Tokens \cup {"none"}, seen : Registrations \cup {NoDevice}],
         reg[c].step # "over",
         reg' = [reg EXCEPT ![c] = next], UNCHANGED active,
         next.seen # NoDevice =>
           reg[next.seen].step = "over" /\ reg[next.seen].token = next.token,
         next.step \in Inside =>
           \A d \in Registrations \ {c} :
             ~(reg[d].step \in Inside /\ reg[d].owner = next.owner),
         next.step \in {"counted", "inserted"} =>
           Cardinality(DevicesOf(next.owner)) < DeviceCap,
         next.step = "inserted" =>
           /\ ActiveOf(next.token) \subseteq {next.seen}
           /\ \A d \in Registrations : ~(reg[d].step = "inserted" /\ reg[d].token = next.token)
  PROVE  DevicesInv'
<1>1. DevicesTypeOK'
  OBVIOUS
<1>2. \A d \in Registrations : d # c => reg'[d] = reg[d]
  OBVIOUS
<1>3. reg'[c] = next /\ active' = active
  OBVIOUS
<1>4. c \notin active
  BY DEF RowsAreOver
<1>5. /\ \A o : DevicesOf(o)' = DevicesOf(o)
      /\ \A t : ActiveOf(t)' = ActiveOf(t)
  BY <1>2, <1>3, <1>4 DEF DevicesOf, ActiveOf
<1>6. RowsAreOver'
  BY <1>2, <1>3, <1>4 DEF RowsAreOver
<1>7. OwnersAreSerialized'
  BY <1>2, <1>3 DEF OwnersAreSerialized
<1>8. RoomIsLeft'
  BY <1>2, <1>3, <1>5 DEF RoomIsLeft
<1>9. InsertsAreAlone'
  <2>1. ASSUME NEW d \in Registrations, reg'[d].step = "inserted"
        PROVE  /\ ActiveOf(reg[d].token)' \subseteq {reg'[d].seen}
               /\ \A e \in Registrations :
                    reg'[e].step = "inserted" /\ reg'[e].token = reg'[d].token => e = d
    <3>1. CASE d = c
      <4>1. /\ ActiveOf(next.token) \subseteq {next.seen}
            /\ \A e \in Registrations : ~(reg[e].step = "inserted" /\ reg[e].token = next.token)
        BY <2>1, <3>1, <1>3
      <4>2. QED
        BY <4>1, <3>1, <1>2, <1>3, <1>5
    <3>2. CASE d # c
      <4>1. /\ reg'[d] = reg[d] /\ ActiveOf(reg[d].token) \subseteq {reg[d].seen}
            /\ \A e \in Registrations :
                 reg[e].step = "inserted" /\ reg[e].token = reg[d].token => e = d
        BY <2>1, <3>2, <1>2 DEF InsertsAreAlone
      <4>2. next.step = "inserted" => reg[d].token # next.token
        BY <2>1, <4>1
      <4>3. QED
        BY <4>1, <4>2, <1>2, <1>3, <1>5
    <3>3. QED
      BY <3>1, <3>2
  <2>2. QED
    BY <2>1 DEF InsertsAreAlone
<1>10. DevicesAreLimited'
  BY <1>2, <1>3, <1>4, <1>5 DEF DevicesAreLimited, TokenHasOneOwner, DeviceCapIsKept
<1>11. QED
  BY <1>1, <1>6, <1>7, <1>8, <1>9, <1>10

(* Fewer rows leave room.                                                  *)
LEMMA FewerDevices ==
  ASSUME RowsAreOver, NEW o, NEW some, some \subseteq DevicesOf(o)
  PROVE  /\ IsFiniteSet(some) /\ Cardinality(some) <= Cardinality(DevicesOf(o))
         /\ Cardinality(some) \in Nat /\ Cardinality(DevicesOf(o)) \in Nat
<1>1. IsFiniteSet(DevicesOf(o))
  BY FS_Subset DEF RowsAreOver, DevicesOf
<1>2. QED
  BY <1>1, FS_Subset, FS_CardinalityType

LEMMA RevokeInv ==
  ASSUME DevicesInv, NEW d \in Registrations, RevokeDevice(d)
  PROVE  DevicesInv'
<1>1. active' = active \ {d} /\ reg' = reg
  BY DEF RevokeDevice
<1>2. DevicesTypeOK' /\ OwnersAreSerialized'
  BY <1>1 DEF OwnersAreSerialized
<1>3. RowsAreOver'
  BY <1>1, FS_Subset DEF RowsAreOver
<1>4. \A o : DevicesOf(o)' \subseteq DevicesOf(o)
  BY <1>1 DEF DevicesOf
<1>5. \A o : /\ Cardinality(DevicesOf(o)') <= Cardinality(DevicesOf(o))
             /\ Cardinality(DevicesOf(o)') \in Nat /\ Cardinality(DevicesOf(o)) \in Nat
  BY <1>4, FewerDevices
<1>6. RoomIsLeft' /\ DeviceCapIsKept'
  <2>1. ASSUME NEW c \in Registrations, reg'[c].step \in {"counted", "inserted"}
        PROVE  Cardinality(DevicesOf(reg[c].owner)') < DeviceCap
    BY <2>1, <1>1, <1>5 DEF RoomIsLeft
  <2>2. ASSUME NEW o \in Owners
        PROVE  Cardinality(DevicesOf(o)') <= DeviceCap
    BY <1>5 DEF DevicesAreLimited, DeviceCapIsKept
  <2>3. QED
    BY <2>1, <2>2 DEF RoomIsLeft, DeviceCapIsKept
<1>7. InsertsAreAlone' /\ TokenHasOneOwner'
  BY <1>1 DEF InsertsAreAlone, ActiveOf, DevicesAreLimited, TokenHasOneOwner
<1>8. QED
  BY <1>2, <1>3, <1>6, <1>7 DEF DevicesAreLimited

(* A commit puts one row in the place of the one it takes over.            *)
LEMMA CommitInv ==
  ASSUME DevicesInv, NEW c \in Registrations, CommitRegistration(c)
  PROVE  DevicesInv'
<1> DEFINE o == reg[c].owner
           t == reg[c].token
<1>1. /\ reg[c].step = "inserted"
      /\ reg' = [reg EXCEPT ![c] = [step |-> "over", owner |-> o, token |-> t,
                                    seen |-> reg[c].seen]]
      /\ active' = (active \ {reg[c].seen}) \cup {c}
  BY DEF CommitRegistration, RegGoes, RegSees
<1>2. /\ DevicesTypeOK'
      /\ \A d \in Registrations : d # c => reg'[d] = reg[d]
      /\ \A d \in Registrations : reg'[d].owner = reg[d].owner
                                  /\ reg'[d].token = reg[d].token /\ reg'[d].seen = reg[d].seen
      /\ reg'[c].step = "over"
      /\ c \notin active
  BY <1>1 DEF RowsAreOver
<1>3. RowsAreOver'
  <2>1. IsFiniteSet(active \ {reg[c].seen})
    BY FS_Subset DEF RowsAreOver
  <2>2. IsFiniteSet(active')
    BY <1>1, <2>1, FS_AddElement
  <2>3. QED
    BY <1>1, <1>2, <2>2 DEF RowsAreOver
<1>4. OwnersAreSerialized'
  BY <1>2 DEF OwnersAreSerialized
<1>5. \A x : x # o => DevicesOf(x)' \subseteq DevicesOf(x)
  BY <1>1, <1>2 DEF DevicesOf
<1>6. \A x : x # o => /\ Cardinality(DevicesOf(x)') <= Cardinality(DevicesOf(x))
                      /\ Cardinality(DevicesOf(x)') \in Nat
                      /\ Cardinality(DevicesOf(x)) \in Nat
  BY <1>5, FewerDevices
<1>7. RoomIsLeft'
  <2>1. ASSUME NEW d \in Registrations, reg'[d].step \in {"counted", "inserted"}
        PROVE  Cardinality(DevicesOf(reg[d].owner)') < DeviceCap
    <3>1. d # c /\ reg[d].step \in {"counted", "inserted"}
      BY <2>1, <1>2
    <3>2. reg[d].owner # o
      BY <3>1, <1>1 DEF OwnersAreSerialized
    <3>3. Cardinality(DevicesOf(reg[d].owner)) < DeviceCap
      BY <3>1 DEF RoomIsLeft
    <3>4. QED
      BY <3>2, <3>3, <1>2, <1>6
  <2>2. QED
    BY <2>1 DEF RoomIsLeft
<1>8. DeviceCapIsKept'
  <2>1. ASSUME NEW x \in Owners, x # o
        PROVE  Cardinality(DevicesOf(x)') <= DeviceCap
    BY <2>1, <1>6 DEF DevicesAreLimited, DeviceCapIsKept
  <2>2. ASSUME NEW x \in Owners, x = o
        PROVE  Cardinality(DevicesOf(x)') <= DeviceCap
    <3> DEFINE others == DevicesOf(x) \ {reg[c].seen}
    <3>1. DevicesOf(x)' = others \cup {c}
      BY <2>2, <1>1, <1>2 DEF DevicesOf
    <3>2. /\ IsFiniteSet(others) /\ Cardinality(others) <= Cardinality(DevicesOf(x))
          /\ Cardinality(others) \in Nat /\ Cardinality(DevicesOf(x)) \in Nat
      <4>1. others \subseteq DevicesOf(x)
        OBVIOUS
      <4>2. QED
        BY <4>1, FewerDevices
    <3>3. c \notin others
      BY <1>2 DEF DevicesOf
    <3>4. Cardinality(others \cup {c}) = Cardinality(others) + 1
      BY <3>2, <3>3, FS_AddElement
    <3>5. Cardinality(DevicesOf(x)) < DeviceCap
      BY <2>2, <1>1 DEF RoomIsLeft
    <3>6. QED
      BY <3>1, <3>2, <3>4, <3>5
  <2>3. QED
    BY <2>1, <2>2 DEF DeviceCapIsKept
<1>9. \A d \in active' : d # c => reg'[d].token # t
  <2>1. ActiveOf(t) \subseteq {reg[c].seen}
    BY <1>1 DEF InsertsAreAlone
  <2>2. \A d \in active : d # reg[c].seen => reg[d].token # t
    BY <2>1 DEF ActiveOf
  <2>3. QED
    BY <2>2, <1>1, <1>2
<1>10. TokenHasOneOwner'
  BY <1>1, <1>2, <1>9 DEF DevicesAreLimited, TokenHasOneOwner
<1>11. InsertsAreAlone'
  <2>1. ASSUME NEW d \in Registrations, reg'[d].step = "inserted"
        PROVE  /\ reg[d].step = "inserted"
               /\ ActiveOf(reg[d].token)' \subseteq {reg[d].seen}
    <3>1. d # c /\ reg[d].step = "inserted"
      BY <2>1, <1>2
    <3>2. reg[d].token # t /\ ActiveOf(reg[d].token) \subseteq {reg[d].seen}
      BY <3>1, <1>1 DEF InsertsAreAlone
    <3>3. ActiveOf(reg[d].token)' \subseteq ActiveOf(reg[d].token)
      <4>1. \A x \in active' : x = c \/ x \in active
        BY <1>1
      <4>2. c \notin ActiveOf(reg[d].token)'
        BY <3>2, <1>1, <1>2 DEF ActiveOf
      <4>3. \A x \in active : reg'[x].token = reg[x].token
        BY <1>2
      <4>4. QED
        BY <4>1, <4>2, <4>3, <3>1, <1>2 DEF ActiveOf
    <3>4. QED
      BY <3>1, <3>2, <3>3
  <2>2. ASSUME NEW d \in Registrations, NEW e \in Registrations,
               reg'[d].step = "inserted", reg'[e].step = "inserted",
               reg'[e].token = reg'[d].token
        PROVE  e = d
    <3>1. reg[d].step = "inserted" /\ reg[e].step = "inserted" /\ reg[e].token = reg[d].token
      BY <2>1, <2>2, <1>2
    <3>2. QED
      BY <3>1 DEF InsertsAreAlone
  <2>3. \A d \in Registrations : reg'[d].step = "inserted" =>
          ActiveOf(reg[d].token)' \subseteq {reg'[d].seen}
    BY <2>1, <1>2
  <2>4. QED
    BY <2>2, <2>3 DEF InsertsAreAlone
<1>12. QED
  BY <1>2, <1>3, <1>4, <1>7, <1>8, <1>10, <1>11 DEF DevicesAreLimited

LEMMA DevicesNextInv == DevicesInv /\ [DevicesNext]_deviceVars => DevicesInv'
<1> SUFFICES ASSUME DevicesInv, [DevicesNext]_deviceVars PROVE DevicesInv'
  OBVIOUS
<1>1. ASSUME NEW c \in Registrations, NEW o \in Owners, NEW t \in Tokens,
             BeginRegistration(c, o, t)
      PROVE  DevicesInv'
  <2> DEFINE next == [step |-> "locked", owner |-> o, token |-> t, seen |-> NoDevice]
  <2>1. /\ reg[c].step = "idle" /\ reg' = [reg EXCEPT ![c] = next] /\ UNCHANGED active
        /\ \A d \in Registrations : ~(reg[d].step \in Inside /\ reg[d].owner = o)
    BY <1>1 DEF BeginRegistration, HoldsOwner
  <2>2. QED
    BY <2>1, RegistrationStep
<1>2. ASSUME NEW c \in Registrations, reg[c].step \in Inside,
             NEW to \in {"over"} \cup Inside, NEW d \in Registrations \cup {NoDevice},
             RegSees(c, d, to), UNCHANGED active,
             d # NoDevice => d = reg[c].seen \/ d \in ActiveOf(reg[c].token),
             to \in {"counted", "inserted"} =>
               Cardinality(DevicesOf(reg[c].owner)) < DeviceCap,
             to = "inserted" =>
               /\ ActiveOf(reg[c].token) \subseteq {d}
               /\ \A x \in Registrations :
                    ~(reg[x].step = "inserted" /\ reg[x].token = reg[c].token)
      PROVE  DevicesInv'
  <2> DEFINE next == [step |-> to, owner |-> reg[c].owner, token |-> reg[c].token, seen |-> d]
  <2>1. reg' = [reg EXCEPT ![c] = next]
    BY <1>2 DEF RegSees
  <2>2. d # NoDevice => reg[d].step = "over" /\ reg[d].token = reg[c].token
    BY <1>2 DEF RowsAreOver, ActiveOf
  <2>3. \A x \in Registrations \ {c} :
          ~(reg[x].step \in Inside /\ reg[x].owner = reg[c].owner)
    BY <1>2 DEF OwnersAreSerialized
  <2>4. QED
    BY <1>2, <2>1, <2>2, <2>3, RegistrationStep
<1>3. ASSUME NEW c \in Registrations,
             reg[c].step \in Inside,
             NEW to \in {"over"} \cup Inside, RegGoes(c, to), UNCHANGED active,
             to \in {"counted", "inserted"} =>
               Cardinality(DevicesOf(reg[c].owner)) < DeviceCap,
             to = "inserted" =>
               /\ ActiveOf(reg[c].token) \subseteq {reg[c].seen}
               /\ \A x \in Registrations :
                    ~(reg[x].step = "inserted" /\ reg[x].token = reg[c].token)
      PROVE  DevicesInv'
  <2>1. RegSees(c, reg[c].seen, to)
    BY <1>3 DEF RegGoes
  <2>2. QED
    BY <1>2, <1>3, <2>1
<1>4. ASSUME NEW c \in Registrations, LookForToken(c)
      PROVE  DevicesInv'
  <2>1. CASE RegGoes(c, "looked")
    BY <1>3, <1>4, <2>1 DEF LookForToken
  <2>2. CASE \E d \in ActiveOf(reg[c].token) :
               RegSees(c, d, IF RowIsFree(d) THEN "looked" ELSE "waiting")
    <3>1. PICK d \in ActiveOf(reg[c].token), to \in {"looked", "waiting"} :
            RegSees(c, d, to)
      BY <2>2
    <3>2. d \in Registrations /\ reg[c].step = "locked" /\ UNCHANGED active
      BY <1>4 DEF ActiveOf, LookForToken
    <3>3. QED
      BY <1>2, <3>1, <3>2
  <2>3. QED
    BY <1>4, <2>1, <2>2 DEF LookForToken
<1>5. ASSUME NEW c \in Registrations, StopWaiting(c)
      PROVE  DevicesInv'
  <2>1. PICK d \in {reg[c].seen, NoDevice} :
          RegSees(c, d, "looked")
    BY <1>5 DEF StopWaiting
  <2>2. reg[c].step = "waiting" /\ UNCHANGED active
    BY <1>5 DEF StopWaiting
  <2>3. QED
    BY <1>2, <2>1, <2>2
<1>6. ASSUME NEW c \in Registrations, CountDevices(c)
      PROVE  DevicesInv'
  <2>1. PICK to \in {"counted", "over"} :
          /\ RegGoes(c, to)
          /\ to = "counted" => Cardinality(DevicesOf(reg[c].owner)) < DeviceCap
    BY <1>6 DEF CountDevices
  <2>2. reg[c].step = "looked" /\ UNCHANGED active
    BY <1>6 DEF CountDevices
  <2>3. QED
    BY <1>3, <2>1, <2>2
<1>7. ASSUME NEW c \in Registrations, InsertDevice(c)
      PROVE  DevicesInv'
  <2>1. PICK to \in {"inserted", "over"} :
          /\ RegGoes(c, to)
          /\ to = "inserted" => ActiveOf(reg[c].token) \subseteq {reg[c].seen}
    BY <1>7 DEF InsertDevice
  <2>2. /\ reg[c].step = "counted" /\ UNCHANGED active
        /\ \A x \in Registrations :
             ~(reg[x].step = "inserted" /\ reg[x].token = reg[c].token)
    BY <1>7 DEF InsertDevice
  <2>3. Cardinality(DevicesOf(reg[c].owner)) < DeviceCap
    BY <2>2 DEF RoomIsLeft
  <2>4. QED
    BY <1>3, <2>1, <2>2, <2>3
<1>8. ASSUME NEW c \in Registrations, RefreshDevice(c) \/ RegistrationFails(c)
      PROVE  DevicesInv'
  BY <1>3, <1>8 DEF RefreshDevice, RegistrationFails
<1>9. CASE UNCHANGED deviceVars
  BY <1>9 DEF deviceVars, RowsAreOver, OwnersAreSerialized, RoomIsLeft, InsertsAreAlone,
     DevicesAreLimited, TokenHasOneOwner, DeviceCapIsKept, DevicesOf, ActiveOf
<1>10. QED
  BY <1>1, <1>4, <1>5, <1>6, <1>7, <1>8, <1>9, CommitInv, RevokeInv DEF DevicesNext

(* Every reachable state satisfies the inductive invariant.                *)
THEOREM DevicesInvariance == DevicesSpec => []DevicesInv
BY DevicesInitInv, DevicesNextInv, PTL DEF DevicesSpec

(* Whatever registrations, revocations and failures interleave, a token    *)
(* has one owner and an owner no more devices than the cap.                *)
THEOREM DevicesLimited == DevicesSpec => []DevicesAreLimited
BY DevicesInvariance, PTL DEF DevicesInv

(* A row goes only by a revocation, which is a step of its own, or for the *)
(* row that takes its token over.                                          *)
LEMMA RowsGoWhole ==
  ASSUME DevicesInv, DevicesNext
  PROVE  \A d \in active \ active' :
           \/ reg' = reg
           \/ \E e \in active' : reg[e].token = reg[d].token
<1>1. ASSUME NEW c \in Registrations, CommitRegistration(c)
      PROVE  \A d \in active \ active' : \E e \in active' : reg[e].token = reg[d].token
  <2>1. active' = (active \ {reg[c].seen}) \cup {c}
    BY <1>1 DEF CommitRegistration
  <2>2. \A d \in active \ active' : d = reg[c].seen /\ d # NoDevice
    BY <2>1
  <2>3. QED
    BY <2>1, <2>2 DEF RowsAreOver
<1>2. QED
  BY <1>1 DEF DevicesNext, BeginRegistration, LookForToken, StopWaiting, RefreshDevice,
     CountDevices, InsertDevice, RegistrationFails, RevokeDevice

(* A token changes hands in one step or stays where it is.                 *)
THEOREM TokensWhole == DevicesSpec => TokensChangeHandsWhole
<1>1. DevicesInv /\ [DevicesNext]_deviceVars =>
        [\A d \in active \ active' :
           \/ reg' = reg
           \/ \E e \in active' : reg[e].token = reg[d].token]_deviceVars
  BY RowsGoWhole
<1>2. QED
  BY <1>1, DevicesInvariance, PTL DEF DevicesSpec, TokensChangeHandsWhole

=============================================================================
