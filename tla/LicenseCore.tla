---------------------------- MODULE LicenseCore ----------------------------
(***************************************************************************)
(* The licence state machine of the KMXT server: merchants and programs    *)
(* that are enabled or disabled, licences (card keys), the devices bound   *)
(* to them and the client sessions that a device verifies with.            *)
(*                                                                         *)
(* Every handler of src/services runs its business rules inside one        *)
(* store.transaction(), which the store serialises, so a transaction is    *)
(* one action.  What is not atomic is a client request: it captures        *)
(* Date.now() when it is accepted and reaches its transaction later, while *)
(* other transactions commit.  A request in that window is an element of   *)
(* pending; its captured instant may be stale when it is used.             *)
(***************************************************************************)
EXTENDS Integers, FiniteSets

CONSTANTS
    Merchants, Apps, Licenses, Devices,
    Bindings,       \* ids of device_bindings rows
    Sessions,       \* client session tokens
    Requests,       \* client requests the server holds at the same time
    MerchantOf,     \* the merchant a program belongs to
    Delivered,      \* licences a fulfilled store order refers to
    DeviceLimits,   \* the values maxDevices takes; 0 is "unlimited"
    Durations,      \* the values durationDays takes, in clock ticks
    FixedExpiries,  \* the instants fixedExpiresAt takes
    SessionTtl,     \* config.clientSessionTtlSeconds, in clock ticks
    MaxTime,        \* bound on the clock
    None

ASSUME MerchantsAssumption == MerchantOf \in [Apps -> Merchants]
ASSUME BoundsAssumption ==
    /\ DeviceLimits \subseteq Nat
    /\ Durations \subseteq Nat \ {0}
    /\ FixedExpiries \subseteq Nat \ {0}
    /\ SessionTtl \in Nat \ {0}
    /\ MaxTime \in Nat
ASSUME FiniteAssumption == IsFiniteSet(Bindings)
ASSUME NoneAssumption == None \notin Apps \cup Licenses \cup Devices \cup Bindings \cup Sessions

VARIABLES
    merchant,   \* merchants[].status
    app,        \* applications[].status
    license,    \* licenses[]
    binding,    \* deviceBindings[]
    session,    \* clientSessions[]
    pending,    \* client requests between their capture of now and their transaction
    clock       \* Date.now()

vars == <<merchant, app, license, binding, session, pending, clock>>

(***************************************************************************)
(* Instants are positive; NoTime stands for null.                          *)
(***************************************************************************)
NoTime == 0

Earlier(t, u) == IF t <= u THEN t ELSE u

Status == {"active", "disabled"}

LicenseRec == [status : {"absent", "pending", "active", "disabled"},
               app : Apps \cup {None},
               activated : BOOLEAN,         \* activatedAt is set
               duration : Nat,              \* durationDays, 0 for a fixed expiry
               expiresAt : Nat,
               maxDevices : Nat]

BindingRec == [status : {"absent", "active", "revoked"},
               license : Licenses \cup {None},
               device : Devices \cup {None}]

SessionRec == [app : Apps \cup {None},
               license : Licenses \cup {None},
               binding : Bindings \cup {None},
               expiresAt : Nat]

RequestRec == [op : {"idle", "activate", "verify", "unbind"},
               app : Apps \cup {None},
               license : Licenses \cup {None},
               device : Devices \cup {None},
               session : Sessions \cup {None},
               now : Nat]

NoLicense == [status |-> "absent", app |-> None, activated |-> FALSE,
              duration |-> 0, expiresAt |-> NoTime, maxDevices |-> 0]

NoBinding == [status |-> "absent", license |-> None, device |-> None]

NoSession == [app |-> None, license |-> None, binding |-> None, expiresAt |-> NoTime]

Idle == [op |-> "idle", app |-> None, license |-> None, device |-> None,
         session |-> None, now |-> NoTime]

(***************************************************************************)
(* Reading the state.                                                      *)
(***************************************************************************)
Exists(l) == license[l].status # "absent"

Open(s) == session[s].binding # None

\* Mutant of InService: the merchant's status is not looked at.
InServiceAppOnly(a) == app[a] = "active"

\* Both status checks a client request and most admin handlers make.
InService(a) == app[a] = "active" /\ merchant[MerchantOf[a]] = "active"

\* ensureLicenseUsable: expiry is inclusive, a null expiry never passes.
Usable(l, t) ==
    /\ license[l].status # "disabled"
    /\ license[l].expiresAt = NoTime \/ t < license[l].expiresAt

ActiveBindings(l) == {b \in Bindings : binding[b].status = "active" /\ binding[b].license = l}

\* Mutant of BindingFor: the device's own binding is never found.
BindingForNobody(l, d) == {}

BindingFor(l, d) == {b \in ActiveBindings(l) : binding[b].device = d}

\* Mutant of SeatFree: off by one.
SeatFreeInclusive(l) ==
    license[l].maxDevices > 0 => Cardinality(ActiveBindings(l)) <= license[l].maxDevices

SeatFree(l) ==
    license[l].maxDevices > 0 => Cardinality(ActiveBindings(l)) < license[l].maxDevices

SessionsOfLicense(l) == {s \in Sessions : session[s].license = l}

SessionsOfBinding(b) == {s \in Sessions : session[s].binding = b}

SessionsOfApp(a) == {s \in Sessions : session[s].app = a}

SessionsOfMerchant(m) == UNION {SessionsOfApp(a) : a \in {x \in Apps : MerchantOf[x] = m}}

ExpiredSessions(t) == {s \in Sessions : Open(s) /\ session[s].expiresAt <= t}

Without(S) == [s \in Sessions |-> IF s \in S THEN NoSession ELSE session[s]]

\* Ids are random UUIDs and tokens: a new one names no row and is in no request.
FreshSession(s) == ~Open(s) /\ \A r \in Requests : pending[r].session # s

\* Mutant of FreshBinding: a revoked row is taken over.
FreshBindingOrRevoked(b) == binding[b].status # "active"

FreshBinding(b) == binding[b].status = "absent"

FreshLicense(l) == ~Exists(l) /\ \A r \in Requests : pending[r].license # l

Init ==
    /\ merchant = [m \in Merchants |-> "active"]
    /\ app = [a \in Apps |-> "active"]
    /\ license = [l \in Licenses |-> NoLicense]
    /\ binding = [b \in Bindings |-> NoBinding]
    /\ session = [s \in Sessions |-> NoSession]
    /\ pending = [r \in Requests |-> Idle]
    /\ clock = 1

(***************************************************************************)
(* Client requests: acceptance.  activate and verify read the program      *)
(* before the replay check (#getActiveApplication); unbind does not.       *)
(***************************************************************************)
Submit(r, q) ==
    /\ pending[r] = Idle
    /\ pending' = [pending EXCEPT ![r] = q]
    /\ UNCHANGED <<merchant, app, license, binding, session, clock>>

SubmitActivate(r, a, l, d) ==
    /\ InService(a)
    /\ Exists(l)
    /\ Submit(r, [Idle EXCEPT !.op = "activate", !.app = a, !.license = l,
                              !.device = d, !.now = clock])

SubmitVerify(r, a, s, d) ==
    /\ InService(a)
    /\ Open(s)
    /\ Submit(r, [Idle EXCEPT !.op = "verify", !.app = a, !.session = s,
                              !.device = d, !.now = clock])

SubmitUnbind(r, a, s, d) ==
    /\ Open(s)
    /\ Submit(r, [Idle EXCEPT !.op = "unbind", !.app = a, !.session = s,
                              !.device = d, !.now = clock])

(***************************************************************************)
(* Client requests: the transactions.                                      *)
(***************************************************************************)
CanActivate(q) ==
    /\ InService(q.app)
    /\ Exists(q.license)
    /\ license[q.license].app = q.app
    /\ Usable(q.license, q.now)
    /\ BindingFor(q.license, q.device) # {} \/ SeatFree(q.license)

\* The session lookup that verify and unbind share, expiry inclusive.
SessionAccepted(q) ==
    /\ InService(q.app)
    /\ Open(q.session)
    /\ session[q.session].app = q.app
    /\ q.now < session[q.session].expiresAt

DeviceMatches(q) ==
    LET b == session[q.session].binding IN
    binding[b].status = "active" /\ binding[b].device = q.device

CanVerify(q) ==
    /\ SessionAccepted(q)
    /\ Exists(session[q.session].license)
    /\ Usable(session[q.session].license, q.now)
    /\ DeviceMatches(q)

CanUnbind(q) == SessionAccepted(q) /\ DeviceMatches(q)

\* The first activation starts the licence's term; a later one keeps it.
TermEnd(l, t) ==
    IF ~license[l].activated /\ license[l].duration > 0
    THEN t + license[l].duration
    ELSE license[l].expiresAt

\* Mutant of Activated: every activation restarts the term.
ActivatedAgain(l, t) ==
    [license[l] EXCEPT !.activated = TRUE, !.status = "active",
                       !.expiresAt = IF @ = NoTime \/ license[l].duration > 0
                                     THEN t + license[l].duration ELSE @]

Activated(l, t) ==
    IF license[l].activated THEN license[l]
    ELSE [license[l] EXCEPT !.activated = TRUE, !.status = "active",
                            !.expiresAt = TermEnd(l, t)]

\* Mutant of SessionExpiry: not capped by the licence.
SessionExpiryUncapped(l, t) == t + SessionTtl

SessionExpiry(l, t) == Earlier(t + SessionTtl, TermEnd(l, t))

Finish(r) == pending' = [pending EXCEPT ![r] = Idle]

Activate(r, b, s) ==
    LET q == pending[r]
        l == q.license IN
    /\ q.op = "activate"
    /\ CanActivate(q)
    /\ FreshSession(s)
    /\ \/ b \in BindingFor(l, q.device) /\ UNCHANGED binding
       \/ /\ BindingFor(l, q.device) = {}
          /\ FreshBinding(b)
          /\ binding' = [binding EXCEPT
                ![b] = [status |-> "active", license |-> l, device |-> q.device]]
    /\ license' = [license EXCEPT ![l] = Activated(l, q.now)]
    /\ session' = [Without(ExpiredSessions(q.now)) EXCEPT
          ![s] = [app |-> q.app, license |-> l, binding |-> b,
                  expiresAt |-> SessionExpiry(l, q.now)]]
    /\ Finish(r)
    /\ UNCHANGED <<merchant, app, clock>>

Verify(r) ==
    LET q == pending[r]
        s == q.session IN
    /\ q.op = "verify"
    /\ CanVerify(q)
    /\ session' = [session EXCEPT
          ![s].expiresAt = Earlier(q.now + SessionTtl, license[session[s].license].expiresAt)]
    /\ Finish(r)
    /\ UNCHANGED <<merchant, app, license, binding, clock>>

Unbind(r) ==
    LET q == pending[r]
        b == session[q.session].binding IN
    /\ q.op = "unbind"
    /\ CanUnbind(q)
    /\ binding' = [binding EXCEPT ![b].status = "revoked"]
    /\ session' = Without(SessionsOfBinding(b))
    /\ Finish(r)
    /\ UNCHANGED <<merchant, app, license, clock>>

\* An error response: a rule of the transaction is broken, or storing its result fails;
\* either way the store keeps its state.
Reject(r) ==
    /\ pending[r].op # "idle"
    /\ Finish(r)
    /\ UNCHANGED <<merchant, app, license, binding, session, clock>>

(***************************************************************************)
(* Administration.                                                         *)
(***************************************************************************)

\* One batch of fresh licences, all with the same terms: a duration, or a fixed expiry
\* that was in the future when the request was validated, at or before the transaction.
Generate(a, ls, duration, fixed, limit) ==
    /\ InService(a)
    /\ ls # {} /\ \A l \in ls : FreshLicense(l)
    /\ (duration = 0) # (fixed = NoTime)
    /\ fixed # NoTime => \E validated \in 1..clock : validated < fixed
    /\ license' = [l \in Licenses |->
          IF l \in ls
          THEN [status |-> "pending", app |-> a, activated |-> FALSE,
                duration |-> duration, expiresAt |-> fixed, maxDevices |-> limit]
          ELSE license[l]]
    /\ UNCHANGED <<merchant, app, binding, session, pending, clock>>

\* Mutant of SetLicenseStatus: stores the status effectiveLicense() only presents.
SetLicenseStatusStoresExpired(l, status) ==
    /\ Exists(l)
    /\ license' = [license EXCEPT ![l].status = "expired"]
    /\ session' = Without(SessionsOfLicense(l))
    /\ UNCHANGED <<merchant, app, binding, pending, clock>>

SetLicenseStatus(l, status) ==
    /\ Exists(l)
    /\ merchant[MerchantOf[license[l].app]] = "active"
    /\ status = "active" =>
          license[l].expiresAt = NoTime \/ clock < license[l].expiresAt
    /\ license' = [license EXCEPT ![l].status =
          IF status = "disabled" THEN "disabled"
          ELSE IF license[l].activated THEN "active" ELSE "pending"]
    /\ session' = IF status = "disabled" THEN Without(SessionsOfLicense(l)) ELSE session
    /\ UNCHANGED <<merchant, app, binding, pending, clock>>

\* Mutant of DeleteLicense: the bindings stay behind.
DeleteLicenseOnly(l) ==
    /\ Exists(l)
    /\ license' = [license EXCEPT ![l] = NoLicense]
    /\ session' = Without(SessionsOfLicense(l))
    /\ UNCHANGED <<merchant, app, binding, pending, clock>>

DeleteLicense(l) ==
    /\ Exists(l)
    /\ l \notin Delivered
    /\ session' = Without(SessionsOfLicense(l))
    /\ binding' = [b \in Bindings |->
          IF binding[b].license = l THEN NoBinding ELSE binding[b]]
    /\ license' = [license EXCEPT ![l] = NoLicense]
    /\ UNCHANGED <<merchant, app, pending, clock>>

UnbindDevice(b) ==
    /\ binding[b].status = "active"
    /\ binding' = [binding EXCEPT ![b].status = "revoked"]
    /\ session' = Without(SessionsOfBinding(b))
    /\ UNCHANGED <<merchant, app, license, pending, clock>>

UnbindAllDevices(l) ==
    /\ Exists(l)
    /\ binding' = [b \in Bindings |->
          IF b \in ActiveBindings(l) THEN [binding[b] EXCEPT !.status = "revoked"]
          ELSE binding[b]]
    /\ session' = Without(SessionsOfLicense(l))
    /\ UNCHANGED <<merchant, app, license, pending, clock>>

Disconnect(b) ==
    /\ binding[b].status # "absent"
    /\ session' = Without(SessionsOfBinding(b))
    /\ UNCHANGED <<merchant, app, license, binding, pending, clock>>

SetApplicationStatus(a, status) ==
    /\ merchant[MerchantOf[a]] = "active"
    /\ app' = [app EXCEPT ![a] = status]
    /\ session' = IF status = "disabled" THEN Without(SessionsOfApp(a)) ELSE session
    /\ UNCHANGED <<merchant, license, binding, pending, clock>>

SetMerchantStatus(m, status) ==
    /\ merchant' = [merchant EXCEPT ![m] = status]
    /\ session' = IF status = "disabled" THEN Without(SessionsOfMerchant(m)) ELSE session
    /\ UNCHANGED <<app, license, binding, pending, clock>>

CleanupSessions ==
    /\ session' = Without(ExpiredSessions(clock))
    /\ UNCHANGED <<merchant, app, license, binding, pending, clock>>

Tick ==
    /\ clock < MaxTime
    /\ clock' = clock + 1
    /\ UNCHANGED <<merchant, app, license, binding, session, pending>>

ClientStep(r) ==
    \/ \E a \in Apps, l \in Licenses, d \in Devices : SubmitActivate(r, a, l, d)
    \/ \E a \in Apps, s \in Sessions, d \in Devices :
          SubmitVerify(r, a, s, d) \/ SubmitUnbind(r, a, s, d)
    \/ \E b \in Bindings, s \in Sessions : Activate(r, b, s)
    \/ Verify(r) \/ Unbind(r) \/ Reject(r)

\* Administration that touches no lease of a model (ModelDelivery).
ManageStep ==
    \/ \E a \in Apps, ls \in SUBSET Licenses, limit \in DeviceLimits,
          duration \in Durations \cup {0}, fixed \in FixedExpiries \cup {NoTime} :
          Generate(a, ls, duration, fixed, limit)
    \/ \E l \in Licenses : UnbindAllDevices(l)
    \/ \E l \in Licenses, status \in Status : SetLicenseStatus(l, status)
    \/ \E b \in Bindings : UnbindDevice(b) \/ Disconnect(b)
    \/ \E a \in Apps, status \in Status : SetApplicationStatus(a, status)
    \/ \E m \in Merchants, status \in Status : SetMerchantStatus(m, status)

AdminStep ==
    \/ ManageStep
    \/ \E l \in Licenses : DeleteLicense(l)
    \/ CleanupSessions

Next == (\E r \in Requests : ClientStep(r)) \/ AdminStep \/ Tick

Spec == Init /\ [][Next]_vars

(***************************************************************************)
(* Properties.                                                             *)
(***************************************************************************)

\* Every variable keeps its type.
TypeOK ==
    /\ merchant \in [Merchants -> Status]
    /\ app \in [Apps -> Status]
    /\ license \in [Licenses -> LicenseRec]
    /\ binding \in [Bindings -> BindingRec]
    /\ session \in [Sessions -> SessionRec]
    /\ pending \in [Requests -> RequestRec]
    /\ clock \in Nat

\* A licence with a device limit never has more active bindings than the limit, whatever
\* order activations, unbinds and re-activations of several devices commit in.
DeviceLimitHolds ==
    \A l \in Licenses :
        Exists(l) /\ license[l].maxDevices > 0 =>
            Cardinality(ActiveBindings(l)) <= license[l].maxDevices

\* A device holds at most one seat of a licence: activating again reuses the binding.
OneSeatPerDevice ==
    \A b, c \in Bindings :
        /\ binding[b].status = "active" /\ binding[c].status = "active"
        /\ binding[b].license = binding[c].license
        /\ binding[b].device = binding[c].device
        => b = c

\* A stored session is authority that still stands: its merchant, program and licence are
\* enabled and its binding is active and of that licence.  Disabling any of them, unbinding
\* the device or deleting the licence leaves no session behind, and no request that was
\* already accepted brings one back.
SessionsHaveAuthority ==
    \A s \in Sessions : Open(s) =>
        /\ app[session[s].app] = "active"
        /\ merchant[MerchantOf[session[s].app]] = "active"
        /\ license[session[s].license].status = "active"
        /\ license[session[s].license].app = session[s].app
        /\ binding[session[s].binding].status = "active"
        /\ binding[session[s].binding].license = session[s].license

\* No session outlives its licence or the session lifetime, although its expiry is computed
\* from an instant captured before the transaction.
SessionsBounded ==
    \A s \in Sessions : Open(s) =>
        /\ session[s].expiresAt <= license[session[s].license].expiresAt
        /\ session[s].expiresAt <= clock + SessionTtl

\* Bindings never outlive their licence (deletion removes them), and only a licence that
\* was activated has any.
BindingsHaveLicense ==
    \A b \in Bindings : binding[b].status # "absent" =>
        Exists(binding[b].license) /\ license[binding[b].license].activated

\* Once activated, a licence's expiry is final: no later activation on another device, no
\* disabling and re-enabling, and no stale request moves it.
ExpiryIsFinal ==
    [][\A l \in Licenses :
          license[l].activated /\ license'[l].status # "absent" =>
              license'[l].activated /\ license'[l].expiresAt = license[l].expiresAt]_vars

\* A revoked binding is never active again; the device has to take a new seat.
RevocationIsFinal ==
    [][\A b \in Bindings :
          binding[b].status = "revoked" => binding'[b].status # "active"]_vars
=============================================================================
