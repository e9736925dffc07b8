--------------------------- MODULE DeviceRegistry ---------------------------
(* The devices of customers and providers that notifications are sent to.   *)
(*                                                                          *)
(* FcmDeviceRepository.registerDevice is one transaction of several         *)
(* statements on READ COMMITTED: the advisory lock of the owner, a locking  *)
(* read of the token's active row, the rebinding of it, the count against   *)
(* the cap and the insert, which the partial unique index on active tokens  *)
(* arbitrates. A call names the row it inserts.                             *)
EXTENDS Integers, FiniteSets

CONSTANTS
    Owners,         \* customers and providers
    Tokens,         \* FCM tokens
    Registrations,  \* calls of registerDevice
    NoDevice,       \* no row
    DeviceCap       \* MAX_ACTIVE_FCM_DEVICES_PER_OWNER

ASSUME DevicesAssumption == DeviceCap \in Nat \ {0} /\ NoDevice \notin Registrations

VARIABLES
    reg,        \* each registration: where it is, for whom, and the row it has seen
    active      \* the committed rows of fcm_devices that are not revoked

deviceVars == <<reg, active>>

Inside == {"locked", "waiting", "looked", "counted", "inserted"}

DevicesTypeOK ==
    /\ reg \in [Registrations -> [step : {"idle", "over"} \cup Inside, owner : Owners \cup {"none"},
                                  token : Tokens \cup {"none"}, seen : Registrations \cup {NoDevice}]]
    /\ active \subseteq Registrations

DevicesInit ==
    /\ reg = [c \in Registrations |->
                [step |-> "idle", owner |-> "none",
                 token |-> "none", seen |-> NoDevice]]
    /\ active = {}

\* The transactions that hold an owner's advisory lock, and the lock on a row.
HoldsOwner(c, o) == reg[c].step \in Inside /\ reg[c].owner = o
HoldsRow(c, d) == reg[c].step \in {"looked", "counted", "inserted"} /\ reg[c].seen = d

RowIsFree(d) == \A c \in Registrations : ~HoldsRow(c, d)
ActiveOf(t) == {d \in active : reg[d].token = t}

RegSees(c, d, to) ==
    reg' = [reg EXCEPT ![c] = [step |-> to, owner |-> reg[c].owner,
                               token |-> reg[c].token, seen |-> d]]

RegGoes(c, to) == RegSees(c, reg[c].seen, to)

\* Mutant: the owner's registrations are not serialized.
BeginAnyway(c, o, t) ==
    /\ reg[c].step = "idle"
    /\ reg' = [reg EXCEPT ![c] = [step |-> "locked", owner |-> o, token |-> t, seen |-> NoDevice]]
    /\ UNCHANGED active

\* BEGIN and pg_advisory_xact_lock
BeginRegistration(c, o, t) ==
    /\ reg[c].step = "idle"
    /\ \A d \in Registrations : ~HoldsOwner(d, o)
    /\ reg' = [reg EXCEPT ![c] = [step |-> "locked", owner |-> o, token |-> t, seen |-> NoDevice]]
    /\ UNCHANGED active

\* SELECT ... FOR UPDATE sees the rows committed when it starts, and waits for
\* one that is locked.
LookForToken(c) ==
    /\ reg[c].step = "locked"
    /\ \/ /\ ActiveOf(reg[c].token) = {}
          /\ RegGoes(c, "looked")
       \/ \E d \in ActiveOf(reg[c].token) :
            RegSees(c, d, IF RowIsFree(d) THEN "looked" ELSE "waiting")
    /\ UNCHANGED active

\* After the wait the row is locked if it is still active; a row that took its
\* place is not looked for again.
StopWaiting(c) ==
    LET d == reg[c].seen IN
    /\ reg[c].step = "waiting"
    /\ RowIsFree(d)
    /\ RegSees(c, IF d \in active THEN d ELSE NoDevice, "looked")
    /\ UNCHANGED active

SameOwner(c) == reg[c].seen # NoDevice /\ reg[reg[c].seen].owner = reg[c].owner

\* The owner has the token: last_seen_at and platform, COMMIT.
RefreshDevice(c) ==
    /\ reg[c].step = "looked"
    /\ SameOwner(c)
    /\ RegGoes(c, "over")
    /\ UNCHANGED active

DevicesOf(o) == {d \in active : reg[d].owner = o}

\* Another owner's row is revoked inside the transaction, which nobody sees
\* before COMMIT; the owner's own rows are counted; at the cap, ROLLBACK.
CountDevices(c) ==
    /\ reg[c].step = "looked"
    /\ ~SameOwner(c)
    /\ RegGoes(c, IF Cardinality(DevicesOf(reg[c].owner)) < DeviceCap THEN "counted" ELSE "over")
    /\ UNCHANGED active

\* Mutant: nothing arbitrates the token.
InsertUnchecked(c) ==
    /\ reg[c].step = "counted"
    /\ RegGoes(c, "inserted")
    /\ UNCHANGED active

\* The unique index waits for an insert of the same token that is still open,
\* and refuses the row if another is there: ROLLBACK and a conflict.
InsertDevice(c) ==
    LET t == reg[c].token IN
    /\ reg[c].step = "counted"
    /\ \A d \in Registrations : ~(reg[d].step = "inserted" /\ reg[d].token = t)
    /\ RegGoes(c, IF ActiveOf(t) \subseteq {reg[c].seen} THEN "inserted" ELSE "over")
    /\ UNCHANGED active

CommitRegistration(c) ==
    /\ reg[c].step = "inserted"
    /\ RegGoes(c, "over")
    /\ active' = (active \ {reg[c].seen}) \cup {c}

\* A statement fails or the process dies: the database rolls back.
RegistrationFails(c) ==
    /\ reg[c].step \in Inside
    /\ RegGoes(c, "over")
    /\ UNCHANGED active

\* revokeDevice, one UPDATE of an owner's own row, and the worker's revocation
\* of a dead token; either waits for a registration that has locked the row.
RevokeDevice(d) ==
    /\ d \in active
    /\ RowIsFree(d)
    /\ active' = active \ {d}
    /\ UNCHANGED reg

DevicesNext ==
    \E c \in Registrations :
        \/ \E o \in Owners, t \in Tokens : BeginRegistration(c, o, t)
        \/ LookForToken(c) \/ StopWaiting(c) \/ RefreshDevice(c)
        \/ CountDevices(c) \/ InsertDevice(c) \/ CommitRegistration(c)
        \/ RegistrationFails(c) \/ RevokeDevice(c)

DevicesSpec == DevicesInit /\ [][DevicesNext]_deviceVars

-----------------------------------------------------------------------------
(* Two accounts never both receive a token's notifications, whichever       *)
(* registrations of it run at once.                                         *)
TokenHasOneOwner ==
    \A d, e \in active : reg[d].token = reg[e].token => d = e

(* No owner has more active devices than the cap, however many of its       *)
(* registrations arrive together.                                           *)
DeviceCapIsKept == \A o \in Owners : Cardinality(DevicesOf(o)) <= DeviceCap

(* A token changes hands in one step: a registration that is refused, at    *)
(* the cap or by the index, or that fails half way leaves the device it was *)
(* taking over with its owner.                                              *)
TokensChangeHandsWhole ==
    [][\A d \in active \ active' :
         \/ reg' = reg
         \/ \E e \in active' : reg[e].token = reg[d].token]_deviceVars

(* Concurrent registrations leave one owner for each token and no owner     *)
(* above the cap.                                                           *)
DevicesAreLimited == TokenHasOneOwner /\ DeviceCapIsKept

=============================================================================
