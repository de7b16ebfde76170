------------------------- MODULE LicenseCoreProofs -------------------------
(***************************************************************************)
(* Proofs about LicenseCore, for every set of merchants, programs,         *)
(* licences, devices, tokens and requests, and every bound.                *)
(*                                                                         *)
(* The safety invariants are not inductive as they stand: that a stored    *)
(* session has authority rests on every reference in the state being one   *)
(* of an existing row (References), on the licence life cycle              *)
(* (LicenseLifecycle) and on captured instants lying in the past           *)
(* (RequestsPast).  Inv is the conjunction.                                *)
(***************************************************************************)
EXTENDS LicenseCore, FiniteSetTheorems, TLAPS

SessionReferences ==
    \A s \in Sessions :
        /\ Open(s) => /\ session[s].app \in Apps
                      /\ session[s].license \in Licenses
                      /\ session[s].binding \in Bindings
        /\ ~Open(s) => session[s] = NoSession

RequestReferences ==
    \A r \in Requests :
        LET q == pending[r] IN
        /\ q.op # "idle" => q.app \in Apps /\ q.device \in Devices
        /\ q.op = "activate" => q.license \in Licenses
        /\ q.op \in {"verify", "unbind"} => q.session \in Sessions

BindingReferences ==
    \A b \in Bindings :
        /\ binding[b].status # "absent" =>
              binding[b].license \in Licenses /\ binding[b].device \in Devices
        /\ binding[b].status = "absent" => binding[b] = NoBinding

RequestsPast == \A r \in Requests : pending[r].now <= clock

LicenseLifecycle ==
    \A l \in Licenses :
        /\ Exists(l) => license[l].app \in Apps
        /\ license[l].status = "pending" => ~license[l].activated
        /\ license[l].status = "active" => license[l].activated
        /\ license[l].status = "absent" => license[l] = NoLicense
        /\ license[l].activated => license[l].expiresAt # NoTime
        /\ Exists(l) /\ ~license[l].activated =>
              (license[l].duration = 0) # (license[l].expiresAt = NoTime)

Inv ==
    /\ TypeOK
    /\ SessionReferences
    /\ RequestReferences
    /\ BindingReferences
    /\ RequestsPast
    /\ LicenseLifecycle
    /\ SessionsHaveAuthority
    /\ SessionsBounded
    /\ BindingsHaveLicense

-----------------------------------------------------------------------------

\* What is left of the sessions after a revocation: each is unchanged or gone.
LEMMA WithoutFact ==
    ASSUME Inv, NEW S, S \subseteq Sessions
    PROVE  /\ Without(S) \in [Sessions -> SessionRec]
           /\ \A s \in Sessions : Without(S)[s] = IF s \in S THEN NoSession ELSE session[s]
  BY DEF Inv, TypeOK, Without, SessionRec, NoSession, NoTime

LEMMA InvInit == Init => Inv
  <1> SUFFICES ASSUME Init PROVE Inv
    OBVIOUS
  <1>1. TypeOK
    BY MerchantsAssumption DEF Init, TypeOK, Status, LicenseRec, BindingRec, SessionRec, RequestRec,
         NoLicense, NoBinding, NoSession, Idle, NoTime
  <1>2. \A s \in Sessions : ~Open(s) /\ session[s] = NoSession
    BY DEF Init, Open, NoSession
  <1>3. QED
    BY <1>1, <1>2 DEF Inv, Init, SessionReferences, RequestReferences, BindingReferences, RequestsPast,
         LicenseLifecycle, SessionsHaveAuthority, SessionsBounded, BindingsHaveLicense,
         Exists, NoLicense, NoBinding, NoSession, Idle, NoTime

\* Accepting or finishing a request touches pending alone.
LEMMA SubmitPreserves ==
    ASSUME Inv, NEW r \in Requests, NEW q \in RequestRec, Submit(r, q),
           q.op # "idle" => q.app \in Apps /\ q.device \in Devices,
           q.op = "activate" => q.license \in Licenses,
           q.op \in {"verify", "unbind"} => q.session \in Sessions,
           q.now <= clock
    PROVE  Inv'
  <1>1. /\ UNCHANGED <<merchant, app, license, binding, session, clock>>
        /\ pending' = [pending EXCEPT ![r] = q]
    BY DEF Submit
  <1>2. TypeOK' /\ RequestReferences' /\ RequestsPast'
    BY <1>1 DEF Inv, TypeOK, RequestReferences, RequestsPast
  <1>3. QED
    BY <1>1, <1>2 DEF Inv, SessionReferences, BindingReferences, LicenseLifecycle,
         SessionsHaveAuthority, SessionsBounded, BindingsHaveLicense, Exists, Open, InService

LEMMA IdleIsRequest == Idle \in RequestRec /\ Idle.op = "idle" /\ Idle.now = NoTime
  BY DEF Idle, RequestRec, NoTime

LEMMA FinishFact ==
    ASSUME Inv, NEW r \in Requests, Finish(r), UNCHANGED clock
    PROVE  /\ pending' \in [Requests -> RequestRec]
           /\ RequestReferences' /\ RequestsPast'
  BY IdleIsRequest DEF Inv, TypeOK, Finish, RequestReferences, RequestsPast, NoTime

LEMMA ActivateSubmitPreserves ==
    ASSUME Inv, NEW r \in Requests, NEW a \in Apps, NEW l \in Licenses, NEW d \in Devices,
           SubmitActivate(r, a, l, d)
    PROVE  Inv'
  <1> DEFINE q == [Idle EXCEPT !.op = "activate", !.app = a, !.license = l,
                               !.device = d, !.now = clock]
  <1>1. clock \in Nat
    BY DEF Inv, TypeOK
  <1>2. /\ q \in RequestRec /\ q.op = "activate" /\ q.app = a /\ q.license = l
        /\ q.device = d /\ q.now = clock
    BY <1>1 DEF Idle, RequestRec
  <1>3. Submit(r, q)
    BY DEF SubmitActivate
  <1> HIDE DEF q
  <1>4. QED
    BY <1>1, <1>2, <1>3, SubmitPreserves

LEMMA SessionSubmitPreserves ==
    ASSUME Inv, NEW r \in Requests, NEW a \in Apps, NEW s \in Sessions, NEW d \in Devices,
           SubmitVerify(r, a, s, d) \/ SubmitUnbind(r, a, s, d)
    PROVE  Inv'
  <1> DEFINE q(op) == [Idle EXCEPT !.op = op, !.app = a, !.session = s,
                                   !.device = d, !.now = clock]
  <1>1. clock \in Nat
    BY DEF Inv, TypeOK
  <1>2. ASSUME NEW op \in {"verify", "unbind"}
        PROVE  /\ q(op) \in RequestRec /\ q(op).op = op /\ q(op).app = a /\ q(op).session = s
               /\ q(op).device = d /\ q(op).now = clock
    BY <1>1 DEF Idle, RequestRec
  <1>3. Submit(r, q("verify")) \/ Submit(r, q("unbind"))
    BY DEF SubmitVerify, SubmitUnbind
  <1> HIDE DEF q
  <1>4. QED
    BY <1>1, <1>2, <1>3, SubmitPreserves

LEMMA RejectPreserves ==
    ASSUME Inv, NEW r \in Requests, Reject(r)
    PROVE  Inv'
  <1>1. Finish(r) /\ UNCHANGED <<merchant, app, license, binding, session, clock>>
    BY DEF Reject
  <1>2. pending' \in [Requests -> RequestRec] /\ RequestReferences' /\ RequestsPast'
    BY <1>1, FinishFact
  <1>3. QED
    BY <1>1, <1>2 DEF Inv, TypeOK, SessionReferences, BindingReferences, LicenseLifecycle,
         SessionsHaveAuthority, SessionsBounded, BindingsHaveLicense, Exists, Open, InService

\* Revoking sessions alone preserves the invariant.
LEMMA DropPreserves ==
    ASSUME Inv, NEW S \in SUBSET Sessions, session' = Without(S),
           UNCHANGED <<merchant, app, license, binding, pending, clock>>
    PROVE  Inv'
  <1>1. /\ session' \in [Sessions -> SessionRec]
        /\ \A s \in Sessions : session'[s] = IF s \in S THEN NoSession ELSE session[s]
    BY WithoutFact
  <1>2. \A s \in Sessions : Open(s)' => session'[s] = session[s] /\ Open(s)
    BY <1>1 DEF Open, NoSession
  <1>3. QED
    BY <1>1, <1>2 DEF Inv, TypeOK, SessionReferences, RequestReferences, BindingReferences,
         RequestsPast, LicenseLifecycle, SessionsHaveAuthority, SessionsBounded,
         BindingsHaveLicense, Exists, Open, InService, NoSession

LEMMA DisconnectPreserves ==
    ASSUME Inv, NEW b \in Bindings, Disconnect(b)
    PROVE  Inv'
  <1>1. SessionsOfBinding(b) \in SUBSET Sessions
    BY DEF SessionsOfBinding
  <1>2. QED
    BY <1>1, DropPreserves DEF Disconnect

LEMMA CleanupPreserves == Inv /\ CleanupSessions => Inv'
  <1>1. ExpiredSessions(clock) \in SUBSET Sessions
    BY DEF ExpiredSessions
  <1>2. QED
    BY <1>1, DropPreserves DEF CleanupSessions

LEMMA VerifyPreserves ==
    ASSUME Inv, NEW r \in Requests, Verify(r)
    PROVE  Inv'
  <1> DEFINE q == pending[r]
             s == q.session
             l == session[s].license
             e == Earlier(q.now + SessionTtl, license[l].expiresAt)
  <1>1. /\ q.op = "verify" /\ CanVerify(q)
        /\ session' = [session EXCEPT ![s].expiresAt = e]
        /\ Finish(r) /\ UNCHANGED <<merchant, app, license, binding, clock>>
    BY DEF Verify
  <1>2. pending' \in [Requests -> RequestRec] /\ RequestReferences' /\ RequestsPast'
    BY <1>1, FinishFact
  <1>3. s \in Sessions /\ Open(s) /\ l \in Licenses
    BY <1>1 DEF Inv, RequestReferences, SessionReferences, CanVerify, SessionAccepted
  <1>4. e \in Nat /\ e <= license[l].expiresAt /\ e <= clock + SessionTtl
    BY <1>3, BoundsAssumption DEF Inv, TypeOK, RequestsPast, LicenseRec, RequestRec, Earlier
  <1> HIDE DEF e
  <1>5. /\ session' \in [Sessions -> SessionRec]
        /\ \A x \in Sessions : /\ session'[x].app = session[x].app
                               /\ session'[x].license = session[x].license
                               /\ session'[x].binding = session[x].binding
                               /\ x # s => session'[x] = session[x]
        /\ session'[s].expiresAt = e
    BY <1>1, <1>3, <1>4 DEF Inv, TypeOK, SessionRec
  <1> HIDE DEF q
  <1>6. SessionsBounded'
    BY <1>1, <1>3, <1>4, <1>5 DEF Inv, SessionsBounded, Open
  <1>7. SessionReferences' /\ SessionsHaveAuthority'
    BY <1>1, <1>3, <1>5 DEF Inv, SessionReferences, SessionsHaveAuthority, Open, InService
  <1>8. QED
    BY <1>1, <1>2, <1>5, <1>6, <1>7 DEF Inv, TypeOK, BindingReferences, LicenseLifecycle,
         BindingsHaveLicense, Exists

\* Revoking bindings together with every session that stands on them.
LEMMA RevokePreserves ==
    ASSUME Inv, NEW B \in SUBSET Bindings, NEW S \in SUBSET Sessions,
           \A b \in B : binding[b].status # "absent",
           \A s \in Sessions : session[s].binding \in B => s \in S,
           binding' = [b \in Bindings |->
              IF b \in B THEN [binding[b] EXCEPT !.status = "revoked"] ELSE binding[b]],
           session' = Without(S),
           pending' \in [Requests -> RequestRec], RequestReferences', RequestsPast',
           UNCHANGED <<merchant, app, license, clock>>
    PROVE  Inv'
  <1>1. /\ session' \in [Sessions -> SessionRec]
        /\ \A s \in Sessions : session'[s] = IF s \in S THEN NoSession ELSE session[s]
    BY WithoutFact
  <1>2. \A s \in Sessions : Open(s)' => session'[s] = session[s] /\ Open(s) /\ s \notin S
    BY <1>1 DEF Open, NoSession
  <1>3. /\ binding' \in [Bindings -> BindingRec]
        /\ \A b \in Bindings : /\ binding'[b].license = binding[b].license
                               /\ binding'[b].device = binding[b].device
                               /\ binding'[b].status = "absent" <=> binding[b].status = "absent"
                               /\ b \notin B => binding'[b] = binding[b]
    BY DEF Inv, TypeOK, BindingRec
  <1>4. SessionReferences' /\ SessionsHaveAuthority' /\ SessionsBounded'
    BY <1>1, <1>2, <1>3 DEF Inv, SessionReferences, SessionsHaveAuthority, SessionsBounded,
         Open, InService, NoSession
  <1>5. BindingReferences' /\ BindingsHaveLicense'
    BY <1>3 DEF Inv, BindingReferences, BindingsHaveLicense, Exists, NoBinding
  <1>6. QED
    BY <1>1, <1>3, <1>4, <1>5 DEF Inv, TypeOK, LicenseLifecycle, Exists

LEMMA UnbindPreserves ==
    ASSUME Inv, NEW r \in Requests, Unbind(r)
    PROVE  Inv'
  <1> DEFINE q == pending[r]
             b == session[q.session].binding
  <1>1. /\ q.op = "unbind" /\ CanUnbind(q)
        /\ binding' = [binding EXCEPT ![b].status = "revoked"]
        /\ session' = Without(SessionsOfBinding(b))
        /\ Finish(r) /\ UNCHANGED <<merchant, app, license, clock>>
    BY DEF Unbind
  <1>2. pending' \in [Requests -> RequestRec] /\ RequestReferences' /\ RequestsPast'
    BY <1>1, FinishFact
  <1>3. q.session \in Sessions /\ b \in Bindings /\ binding[b].status = "active"
    BY <1>1 DEF Inv, RequestReferences, SessionReferences, CanUnbind, SessionAccepted, DeviceMatches
  <1>4. binding' = [c \in Bindings |->
           IF c \in {b} THEN [binding[c] EXCEPT !.status = "revoked"] ELSE binding[c]]
    BY <1>1, <1>3 DEF Inv, TypeOK
  <1>5. SessionsOfBinding(b) \subseteq Sessions
        /\ \A s \in Sessions : session[s].binding \in {b} => s \in SessionsOfBinding(b)
    BY DEF SessionsOfBinding
  <1>6. {b} \in SUBSET Bindings /\ \A c \in {b} : binding[c].status # "absent"
    BY <1>3
  <1> HIDE DEF b, q
  <1>7. QED
    BY <1>1, <1>2, <1>4, <1>5, <1>6, RevokePreserves

LEMMA PendingUnchanged ==
    ASSUME Inv, UNCHANGED <<pending, clock>>
    PROVE  pending' \in [Requests -> RequestRec] /\ RequestReferences' /\ RequestsPast'
  BY DEF Inv, TypeOK, RequestReferences, RequestsPast

LEMMA UnbindDevicePreserves ==
    ASSUME Inv, NEW b \in Bindings, UnbindDevice(b)
    PROVE  Inv'
  <1>1. binding' = [c \in Bindings |->
           IF c \in {b} THEN [binding[c] EXCEPT !.status = "revoked"] ELSE binding[c]]
    BY DEF UnbindDevice, Inv, TypeOK
  <1>2. SessionsOfBinding(b) \subseteq Sessions
        /\ \A s \in Sessions : session[s].binding \in {b} => s \in SessionsOfBinding(b)
    BY DEF SessionsOfBinding
  <1>3. {b} \in SUBSET Bindings /\ \A c \in {b} : binding[c].status # "absent"
    BY DEF UnbindDevice
  <1>4. session' = Without(SessionsOfBinding(b)) /\ UNCHANGED <<merchant, app, license, pending, clock>>
    BY DEF UnbindDevice
  <1>5. QED
    BY <1>1, <1>2, <1>3, <1>4, PendingUnchanged, RevokePreserves

LEMMA UnbindAllPreserves ==
    ASSUME Inv, NEW l \in Licenses, UnbindAllDevices(l)
    PROVE  Inv'
  <1>1. ActiveBindings(l) \subseteq Bindings
        /\ \A b \in ActiveBindings(l) : binding[b].status # "absent"
    BY DEF ActiveBindings
  <1>2. SessionsOfLicense(l) \subseteq Sessions
        /\ \A s \in Sessions : session[s].binding \in ActiveBindings(l) => s \in SessionsOfLicense(l)
    BY NoneAssumption DEF SessionsOfLicense, ActiveBindings, Inv, SessionsHaveAuthority, Open
  <1>3. QED
    BY <1>1, <1>2, PendingUnchanged, RevokePreserves DEF UnbindAllDevices

LEMMA SetLicenseStatusPreserves ==
    ASSUME Inv, NEW l \in Licenses, NEW status \in Status, SetLicenseStatus(l, status)
    PROVE  Inv'
  <1> DEFINE S == IF status = "disabled" THEN SessionsOfLicense(l) ELSE {}
             next == IF status = "disabled" THEN "disabled"
                     ELSE IF license[l].activated THEN "active" ELSE "pending"
  <1>1. S \subseteq Sessions
    BY DEF SessionsOfLicense
  <1>2. session' = Without(S)
    <2>1. CASE status = "disabled"
      BY <2>1 DEF SetLicenseStatus
    <2>2. CASE status # "disabled"
      BY <2>2 DEF SetLicenseStatus, Without, Inv, TypeOK
    <2>3. QED
      BY <2>1, <2>2
  <1>3. /\ session' \in [Sessions -> SessionRec]
        /\ \A s \in Sessions : session'[s] = IF s \in S THEN NoSession ELSE session[s]
    BY <1>1, <1>2, WithoutFact
  <1>4. \A s \in Sessions : Open(s)' =>
           /\ session'[s] = session[s] /\ Open(s)
           /\ status = "disabled" => session[s].license # l
    BY <1>3 DEF Open, NoSession, SessionsOfLicense
  <1>5. /\ license' \in [Licenses -> LicenseRec]
        /\ \A x \in Licenses : /\ license'[x].app = license[x].app
                               /\ license'[x].activated = license[x].activated
                               /\ license'[x].duration = license[x].duration
                               /\ license'[x].expiresAt = license[x].expiresAt
                               /\ x # l => license'[x] = license[x]
        /\ license'[l].status = next /\ Exists(l)
    BY DEF SetLicenseStatus, Inv, TypeOK, LicenseRec
  <1>6. UNCHANGED <<merchant, app, binding, pending, clock>>
    BY DEF SetLicenseStatus
  <1>7. SessionReferences' /\ SessionsHaveAuthority' /\ SessionsBounded'
    BY <1>3, <1>4, <1>5, <1>6 DEF Inv, SessionReferences, SessionsHaveAuthority, SessionsBounded,
         LicenseLifecycle, Open, InService, NoSession
  <1>8. LicenseLifecycle' /\ BindingsHaveLicense'
    BY <1>5, <1>6 DEF Inv, LicenseLifecycle, BindingsHaveLicense, BindingReferences, Exists, NoLicense
  <1>9. QED
    BY <1>3, <1>5, <1>6, <1>7, <1>8, PendingUnchanged DEF Inv, TypeOK, BindingReferences

LEMMA DeleteLicensePreserves ==
    ASSUME Inv, NEW l \in Licenses, DeleteLicense(l)
    PROVE  Inv'
  <1>1. SessionsOfLicense(l) \subseteq Sessions
    BY DEF SessionsOfLicense
  <1>2. /\ session' \in [Sessions -> SessionRec]
        /\ \A s \in Sessions :
              session'[s] = IF s \in SessionsOfLicense(l) THEN NoSession ELSE session[s]
    BY <1>1, WithoutFact DEF DeleteLicense
  <1>3. \A s \in Sessions : Open(s)' =>
           session'[s] = session[s] /\ Open(s) /\ session[s].license # l
    BY <1>2 DEF Open, NoSession, SessionsOfLicense
  <1>4. /\ binding' \in [Bindings -> BindingRec]
        /\ \A b \in Bindings : binding'[b] = IF binding[b].license = l THEN NoBinding ELSE binding[b]
    BY DEF DeleteLicense, Inv, TypeOK, NoBinding, BindingRec
  <1>5. /\ license' \in [Licenses -> LicenseRec]
        /\ license'[l] = NoLicense
        /\ \A x \in Licenses : x # l => license'[x] = license[x]
    BY DEF DeleteLicense, Inv, TypeOK, NoLicense, LicenseRec, NoTime
  <1>6. UNCHANGED <<merchant, app, pending, clock>>
    BY DEF DeleteLicense
  <1>7. SessionReferences' /\ SessionsHaveAuthority' /\ SessionsBounded'
    BY <1>2, <1>3, <1>4, <1>5, <1>6 DEF Inv, SessionReferences, SessionsHaveAuthority,
         SessionsBounded, Open, InService, NoSession
  <1>8. LicenseLifecycle' /\ BindingsHaveLicense' /\ BindingReferences'
    BY <1>4, <1>5, <1>6 DEF Inv, LicenseLifecycle, BindingsHaveLicense, BindingReferences,
         Exists, NoLicense, NoBinding
  <1>9. QED
    BY <1>2, <1>4, <1>5, <1>6, <1>7, <1>8, PendingUnchanged DEF Inv, TypeOK

LEMMA GeneratePreserves ==
    ASSUME Inv, NEW a \in Apps, NEW ls \in SUBSET Licenses, NEW duration \in Durations \cup {0},
           NEW fixed \in FixedExpiries \cup {NoTime}, NEW limit \in DeviceLimits,
           Generate(a, ls, duration, fixed, limit)
    PROVE  Inv'
  <1> DEFINE fresh == [status |-> "pending", app |-> a, activated |-> FALSE,
                       duration |-> duration, expiresAt |-> fixed, maxDevices |-> limit]
  <1>1. duration \in Nat /\ fixed \in Nat /\ limit \in Nat /\ (duration = 0) # (fixed = NoTime)
    <2>1. duration \in Nat /\ fixed \in Nat /\ limit \in Nat
      BY BoundsAssumption DEF NoTime
    <2>2. (duration = 0) # (fixed = NoTime)
      BY Zenon DEF Generate
    <2>3. QED
      BY <2>1, <2>2
  <1>2. /\ fresh \in LicenseRec
        /\ fresh.app = a /\ fresh.status = "pending" /\ ~fresh.activated
        /\ (fresh.duration = 0) # (fresh.expiresAt = NoTime)
    BY <1>1 DEF LicenseRec
  <1>3. /\ license' \in [Licenses -> LicenseRec]
        /\ \A l \in Licenses : license'[l] = IF l \in ls THEN fresh ELSE license[l]
        /\ \A l \in ls : ~Exists(l)
    BY <1>2 DEF Generate, FreshLicense, Inv, TypeOK
  <1> HIDE DEF fresh
  <1>4. UNCHANGED <<merchant, app, binding, session, pending, clock>>
    BY DEF Generate
  <1>5. SessionsHaveAuthority' /\ SessionsBounded' /\ SessionReferences'
    BY <1>3, <1>4 DEF Inv, SessionReferences, SessionsHaveAuthority, SessionsBounded, Open,
         InService, Exists
  <1>6. LicenseLifecycle'
    BY <1>2, <1>3 DEF Inv, LicenseLifecycle, Exists, NoLicense
  <1>7. BindingsHaveLicense' /\ BindingReferences'
    BY <1>3, <1>4 DEF Inv, BindingsHaveLicense, BindingReferences, Exists
  <1>8. QED
    BY <1>3, <1>4, <1>5, <1>6, <1>7, PendingUnchanged DEF Inv, TypeOK

LEMMA SetApplicationStatusPreserves ==
    ASSUME Inv, NEW a \in Apps, NEW status \in Status, SetApplicationStatus(a, status)
    PROVE  Inv'
  <1> DEFINE S == IF status = "disabled" THEN SessionsOfApp(a) ELSE {}
  <1>1. S \subseteq Sessions
    BY DEF SessionsOfApp
  <1>2. session' = Without(S)
    <2>1. CASE status = "disabled"
      BY <2>1 DEF SetApplicationStatus
    <2>2. CASE status # "disabled"
      BY <2>2 DEF SetApplicationStatus, Without, Inv, TypeOK
    <2>3. QED
      BY <2>1, <2>2
  <1>3. /\ session' \in [Sessions -> SessionRec]
        /\ \A s \in Sessions : session'[s] = IF s \in S THEN NoSession ELSE session[s]
    BY <1>1, <1>2, WithoutFact
  <1>4. \A s \in Sessions : Open(s)' =>
           /\ session'[s] = session[s] /\ Open(s)
           /\ status = "disabled" => session[s].app # a
    BY <1>3 DEF Open, NoSession, SessionsOfApp
  <1>5. /\ app' \in [Apps -> Status] /\ app'[a] = status
        /\ \A x \in Apps : x # a => app'[x] = app[x]
        /\ UNCHANGED <<merchant, license, binding, pending, clock>>
    BY DEF SetApplicationStatus, Inv, TypeOK
  <1>6. SessionReferences' /\ SessionsHaveAuthority' /\ SessionsBounded'
    BY <1>3, <1>4, <1>5 DEF Inv, SessionReferences, SessionsHaveAuthority, SessionsBounded,
         Open, InService, NoSession, Status
  <1>7. QED
    BY <1>3, <1>5, <1>6, PendingUnchanged DEF Inv, TypeOK, BindingReferences, LicenseLifecycle,
         BindingsHaveLicense, Exists

LEMMA SetMerchantStatusPreserves ==
    ASSUME Inv, NEW m \in Merchants, NEW status \in Status, SetMerchantStatus(m, status)
    PROVE  Inv'
  <1> DEFINE S == IF status = "disabled" THEN SessionsOfMerchant(m) ELSE {}
  <1>1. S \subseteq Sessions
    BY DEF SessionsOfMerchant, SessionsOfApp
  <1>2. session' = Without(S)
    <2>1. CASE status = "disabled"
      BY <2>1 DEF SetMerchantStatus
    <2>2. CASE status # "disabled"
      BY <2>2 DEF SetMerchantStatus, Without, Inv, TypeOK
    <2>3. QED
      BY <2>1, <2>2
  <1>3. /\ session' \in [Sessions -> SessionRec]
        /\ \A s \in Sessions : session'[s] = IF s \in S THEN NoSession ELSE session[s]
    BY <1>1, <1>2, WithoutFact
  <1>4. \A s \in Sessions : session[s].app \in Apps /\ MerchantOf[session[s].app] = m =>
           s \in SessionsOfMerchant(m)
    BY DEF SessionsOfMerchant, SessionsOfApp
  <1>5. \A s \in Sessions : Open(s)' =>
           /\ session'[s] = session[s] /\ Open(s)
           /\ status = "disabled" => MerchantOf[session[s].app] # m
    BY <1>3, <1>4 DEF Inv, SessionReferences, Open, NoSession
  <1>6. /\ merchant' \in [Merchants -> Status] /\ merchant'[m] = status
        /\ \A x \in Merchants : x # m => merchant'[x] = merchant[x]
        /\ UNCHANGED <<app, license, binding, pending, clock>>
    BY DEF SetMerchantStatus, Inv, TypeOK
  <1>7. \A x \in Apps : MerchantOf[x] \in Merchants
    BY MerchantsAssumption
  <1>8. SessionReferences' /\ SessionsHaveAuthority' /\ SessionsBounded'
    BY <1>3, <1>5, <1>6, <1>7 DEF Inv, SessionReferences, SessionsHaveAuthority, SessionsBounded,
         Open, InService, NoSession, Status
  <1>9. QED
    BY <1>3, <1>6, <1>8, PendingUnchanged DEF Inv, TypeOK, BindingReferences, LicenseLifecycle,
         BindingsHaveLicense, Exists

LEMMA TickPreserves == Inv /\ Tick => Inv'
  <1> SUFFICES ASSUME Inv, Tick PROVE Inv'
    OBVIOUS
  <1>1. clock' = clock + 1 /\ UNCHANGED <<merchant, app, license, binding, session, pending>>
    BY DEF Tick
  <1>2. RequestsPast'
    BY <1>1 DEF Inv, TypeOK, RequestsPast, RequestRec
  <1>3. SessionsBounded'
    BY <1>1, BoundsAssumption DEF Inv, TypeOK, SessionsBounded, Open, SessionRec
  <1>4. QED
    BY <1>1, <1>2, <1>3 DEF Inv, TypeOK, SessionReferences, RequestReferences, BindingReferences,
         LicenseLifecycle, SessionsHaveAuthority, BindingsHaveLicense, Exists, Open, InService

LEMMA ActivatePreserves ==
    ASSUME Inv, NEW r \in Requests, NEW b \in Bindings, NEW s \in Sessions, Activate(r, b, s)
    PROVE  Inv'
  <1> DEFINE q == pending[r]
             l == q.license
             X == ExpiredSessions(q.now)
             e == SessionExpiry(l, q.now)
             new == [app |-> q.app, license |-> l, binding |-> b, expiresAt |-> e]
             term == TermEnd(l, q.now)
  <1>1. /\ q.op = "activate" /\ CanActivate(q) /\ FreshSession(s)
        /\ license' = [license EXCEPT ![l] = Activated(l, q.now)]
        /\ session' = [Without(X) EXCEPT ![s] = new]
        /\ Finish(r) /\ UNCHANGED <<merchant, app, clock>>
    BY DEF Activate
  <1>2. pending' \in [Requests -> RequestRec] /\ RequestReferences' /\ RequestsPast'
    BY <1>1, FinishFact
  <1>3. /\ q.app \in Apps /\ q.device \in Devices /\ l \in Licenses
        /\ q.now \in Nat /\ q.now <= clock /\ clock \in Nat
        /\ InService(q.app) /\ Exists(l) /\ license[l].app = q.app /\ Usable(l, q.now)
    BY <1>1 DEF Inv, TypeOK, RequestReferences, RequestsPast, RequestRec, CanActivate
  <1>4. license[l] \in LicenseRec
    BY <1>3 DEF Inv, TypeOK
  <1> HIDE DEF q
  <1>5. /\ term \in Nat /\ term # NoTime
        /\ license[l].activated => term = license[l].expiresAt
    BY <1>3, <1>4 DEF Inv, TermEnd, LicenseRec, LicenseLifecycle, NoTime
  <1>6. /\ license' \in [Licenses -> LicenseRec]
        /\ \A x \in Licenses : x # l => license'[x] = license[x]
        /\ license'[l].app = q.app /\ license'[l].activated /\ license'[l].status = "active"
        /\ license'[l].expiresAt = term
        /\ license[l].activated => license'[l] = license[l]
    <2> DEFINE n == Activated(l, q.now)
    <2> HIDE DEF term
    <2>1. CASE license[l].activated
      <3>1. n = license[l] /\ license[l].status = "active"
        BY <1>3, <1>4, <2>1 DEF Activated, Inv, LicenseLifecycle, Exists, Usable, LicenseRec
      <3>2. QED
        BY <1>1, <1>3, <1>4, <1>5, <2>1, <3>1 DEF Inv, TypeOK
    <2>2. CASE ~license[l].activated
      <3>1. n = [license[l] EXCEPT !.activated = TRUE, !.status = "active", !.expiresAt = term]
        BY <2>2 DEF Activated, term
      <3>2. n \in LicenseRec /\ n.app = q.app /\ n.activated /\ n.status = "active" /\ n.expiresAt = term
        BY <1>3, <1>4, <1>5, <3>1 DEF LicenseRec
      <3> HIDE DEF n
      <3>3. license' = [license EXCEPT ![l] = n]
        BY <1>1 DEF n
      <3>4. QED
        BY <1>3, <2>2, <3>2, <3>3 DEF Inv, TypeOK
    <2>3. QED
      BY <2>1, <2>2
  <1>7. e \in Nat /\ e <= term /\ e <= clock + SessionTtl
    BY <1>3, <1>5, BoundsAssumption DEF SessionExpiry, Earlier
  <1> HIDE DEF e, term
  <1>8. X \subseteq Sessions
    BY DEF ExpiredSessions
  <1> HIDE DEF X
  <1>9. /\ Without(X) \in [Sessions -> SessionRec]
        /\ \A x \in Sessions : Without(X)[x] = IF x \in X THEN NoSession ELSE session[x]
    BY <1>8, WithoutFact
  <1>10. /\ new \in SessionRec /\ new.app = q.app /\ new.license = l /\ new.binding = b
         /\ new.expiresAt = e /\ b # None
    BY <1>3, <1>7, NoneAssumption DEF SessionRec
  <1>11. /\ session' \in [Sessions -> SessionRec]
         /\ session'[s] = new
         /\ \A x \in Sessions : x # s =>
               session'[x] = session[x] \/ session'[x] = NoSession
    BY <1>1, <1>9, <1>10
  <1> HIDE DEF new
  <1>12. \A x \in Sessions : Open(x)' /\ x # s => session'[x] = session[x] /\ Open(x)
    BY <1>11 DEF Open, NoSession
  <1>13. /\ binding' \in [Bindings -> BindingRec]
         /\ binding'[b].status = "active" /\ binding'[b].license = l /\ binding'[b].device \in Devices
         /\ \A c \in Bindings : c # b => binding'[c] = binding[c]
         /\ binding[b].status # "absent" => binding'[b] = binding[b]
    <2>1. CASE b \in BindingFor(l, q.device) /\ UNCHANGED binding
      BY <2>1 DEF BindingFor, ActiveBindings, Inv, TypeOK, BindingReferences
    <2>2. CASE /\ FreshBinding(b)
               /\ binding' = [binding EXCEPT
                    ![b] = [status |-> "active", license |-> l, device |-> q.device]]
      BY <1>3, <2>2 DEF FreshBinding, Inv, TypeOK, BindingRec
    <2>3. QED
      BY <2>1, <2>2 DEF Activate, q
  <1>14. SessionReferences'
    BY <1>3, <1>10, <1>11, <1>12 DEF Inv, SessionReferences, Open, NoSession
  <1>15. SessionsHaveAuthority'
    <2> SUFFICES ASSUME NEW x \in Sessions, Open(x)'
                 PROVE  /\ InService(session[x].app)'
                        /\ license'[session'[x].license].status = "active"
                        /\ license'[session'[x].license].app = session'[x].app
                        /\ binding'[session'[x].binding].status = "active"
                        /\ binding'[session'[x].binding].license = session'[x].license
      BY DEF SessionsHaveAuthority, InService
    <2>1. CASE x = s
      BY <1>1, <1>3, <1>6, <1>10, <1>11, <1>13, <2>1 DEF InService
    <2>2. CASE x # s
      <3>1. session'[x] = session[x] /\ Open(x)
        BY <1>12, <2>2
      <3>2. /\ session[x].license \in Licenses /\ session[x].binding \in Bindings
            /\ InService(session[x].app) /\ license[session[x].license].status = "active"
            /\ license[session[x].license].activated
            /\ license[session[x].license].app = session[x].app
            /\ binding[session[x].binding].status = "active"
            /\ binding[session[x].binding].license = session[x].license
        BY <3>1 DEF Inv, SessionReferences, SessionsHaveAuthority, InService, LicenseLifecycle
      <3>3. binding'[session[x].binding] = binding[session[x].binding]
        BY <1>13, <3>2
      <3>4. license'[session[x].license] = license[session[x].license]
        BY <1>6, <3>2
      <3>5. QED
        BY <1>1, <3>1, <3>2, <3>3, <3>4 DEF InService
    <2>3. QED
      BY <2>1, <2>2
  <1>16. SessionsBounded'
    <2> SUFFICES ASSUME NEW x \in Sessions, Open(x)'
                 PROVE  /\ session'[x].expiresAt <= license'[session'[x].license].expiresAt
                        /\ session'[x].expiresAt <= clock' + SessionTtl
      BY DEF SessionsBounded
    <2>1. CASE x = s
      BY <1>1, <1>6, <1>7, <1>10, <1>11, <2>1
    <2>2. CASE x # s
      <3>1. session'[x] = session[x] /\ Open(x)
        BY <1>12, <2>2
      <3>2. session[x].license \in Licenses /\ license[session[x].license].activated
        BY <3>1 DEF Inv, SessionReferences, SessionsHaveAuthority, LicenseLifecycle
      <3>3. license'[session[x].license] = license[session[x].license]
        BY <1>6, <3>2
      <3>4. QED
        BY <1>1, <3>1, <3>3 DEF Inv, SessionsBounded
    <2>3. QED
      BY <2>1, <2>2
  <1>17. LicenseLifecycle'
    BY <1>3, <1>5, <1>6 DEF Inv, LicenseLifecycle, Exists, NoLicense
  <1>18. BindingsHaveLicense' /\ BindingReferences'
    BY <1>3, <1>6, <1>13 DEF Inv, BindingsHaveLicense, BindingReferences, Exists, NoBinding
  <1>19. QED
    BY <1>1, <1>2, <1>6, <1>11, <1>13, <1>14, <1>15, <1>16, <1>17, <1>18 DEF Inv, TypeOK

LEMMA InvNext == Inv /\ [Next]_vars => Inv'
  <1> SUFFICES ASSUME Inv, [Next]_vars PROVE Inv'
    OBVIOUS
  <1>1. CASE \E r \in Requests : ClientStep(r)
    <2>1. PICK r \in Requests : ClientStep(r)
      BY <1>1
    <2>2. CASE \E a \in Apps, l \in Licenses, d \in Devices : SubmitActivate(r, a, l, d)
      BY <2>2, ActivateSubmitPreserves
    <2>3. CASE \E a \in Apps, s \in Sessions, d \in Devices :
                  SubmitVerify(r, a, s, d) \/ SubmitUnbind(r, a, s, d)
      BY <2>3, SessionSubmitPreserves
    <2>4. CASE \E b \in Bindings, s \in Sessions : Activate(r, b, s)
      BY <2>4, ActivatePreserves
    <2>5. QED
      BY <2>1, <2>2, <2>3, <2>4, VerifyPreserves, UnbindPreserves, RejectPreserves DEF ClientStep
  <1>2. CASE AdminStep
    <2>1. CASE \E a \in Apps, ls \in SUBSET Licenses, limit \in DeviceLimits,
                  duration \in Durations \cup {0}, fixed \in FixedExpiries \cup {NoTime} :
                  Generate(a, ls, duration, fixed, limit)
      BY <2>1, GeneratePreserves
    <2>2. CASE \E l \in Licenses : DeleteLicense(l) \/ UnbindAllDevices(l)
      BY <2>2, DeleteLicensePreserves, UnbindAllPreserves
    <2>3. CASE \E l \in Licenses, status \in Status : SetLicenseStatus(l, status)
      BY <2>3, SetLicenseStatusPreserves
    <2>4. CASE \E b \in Bindings : UnbindDevice(b) \/ Disconnect(b)
      BY <2>4, UnbindDevicePreserves, DisconnectPreserves
    <2>5. CASE \E a \in Apps, status \in Status : SetApplicationStatus(a, status)
      BY <2>5, SetApplicationStatusPreserves
    <2>6. CASE \E m \in Merchants, status \in Status : SetMerchantStatus(m, status)
      BY <2>6, SetMerchantStatusPreserves
    <2>7. CASE CleanupSessions
      BY <2>7, CleanupPreserves
    <2>8. QED
      BY <1>2, <2>1, <2>2, <2>3, <2>4, <2>5, <2>6, <2>7 DEF AdminStep, ManageStep
  <1>3. CASE Tick
    BY <1>3, TickPreserves
  <1>4. CASE UNCHANGED vars
    BY <1>4 DEF vars, Inv, TypeOK, SessionReferences, RequestReferences, BindingReferences,
         RequestsPast, LicenseLifecycle, SessionsHaveAuthority, SessionsBounded,
         BindingsHaveLicense, Exists, Open, InService
  <1>5. QED
    BY <1>1, <1>2, <1>3, <1>4 DEF Next

\* Every reachable state satisfies the inductive invariant.
THEOREM Invariance == Spec => []Inv
  BY InvInit, InvNext, PTL DEF Spec

\* Every variable keeps its type in every reachable state.
THEOREM TypeCorrect == Spec => []TypeOK
  BY Invariance, PTL DEF Inv

\* Whatever requests were already accepted, a session in the store is authority that
\* still stands: the merchant, program and licence are enabled, the binding is active.
THEOREM SessionAuthority == Spec => []SessionsHaveAuthority
  BY Invariance, PTL DEF Inv

\* A session never outlives its licence or the session lifetime.
THEOREM SessionLifetime == Spec => []SessionsBounded
  BY Invariance, PTL DEF Inv

\* A binding never outlives its licence, and only activated licences have any.
THEOREM BindingOwnership == Spec => []BindingsHaveLicense
  BY Invariance, PTL DEF Inv

-----------------------------------------------------------------------------
(***************************************************************************)
(* Seats, expiry and revocation.  A step either takes one new seat         *)
(* (Activate with a fresh binding) or only gives seats back.               *)
(***************************************************************************)

\* No binding becomes active or changes hands.
SeatsGivenBack == \A b \in Bindings : binding'[b] = binding[b] \/ binding'[b].status # "active"

\* One binding, that no licence had, becomes a seat of l for d, who had none; l had room.
SeatTaken(b, l, d) ==
    /\ BindingFor(l, d) = {}
    /\ SeatFree(l)
    /\ binding[b].status = "absent"
    /\ binding' = [binding EXCEPT ![b] = [status |-> "active", license |-> l, device |-> d]]

\* The limits of existing licences do not move, and an absent licence has no seats.
LimitsKept ==
    \A l \in Licenses : Exists(l)' /\ Exists(l) => license'[l].maxDevices = license[l].maxDevices

LEMMA ActivateSeats ==
    ASSUME Inv, NEW r \in Requests, NEW b \in Bindings, NEW s \in Sessions, Activate(r, b, s)
    PROVE  /\ LimitsKept
           /\ SeatsGivenBack \/ SeatTaken(b, pending[r].license, pending[r].device)
           /\ pending[r].license \in Licenses /\ pending[r].device \in Devices
           /\ Exists(pending[r].license)
           /\ \A l \in Licenses : Exists(l)' => Exists(l)
  <1> DEFINE q == pending[r]
             l == q.license
  <1>1. q.op = "activate" /\ CanActivate(q) /\ l \in Licenses /\ q.device \in Devices /\ Exists(l)
    BY DEF Activate, Inv, RequestReferences, CanActivate
  <1>2. /\ license' = [license EXCEPT ![l] = Activated(l, q.now)]
        /\ \/ UNCHANGED binding
           \/ /\ BindingFor(l, q.device) = {}
              /\ FreshBinding(b)
              /\ binding' = [binding EXCEPT
                    ![b] = [status |-> "active", license |-> l, device |-> q.device]]
    BY DEF Activate
  <1>3. /\ license'[l].maxDevices = license[l].maxDevices
        /\ \A x \in Licenses : x # l => license'[x] = license[x]
    BY <1>1, <1>2 DEF Activated, Inv, TypeOK, LicenseRec
  <1>4. SeatsGivenBack \/ SeatTaken(b, l, q.device)
    BY <1>1, <1>2 DEF SeatsGivenBack, SeatTaken, CanActivate, FreshBinding
  <1>5. QED
    BY <1>1, <1>3, <1>4 DEF LimitsKept, Exists

\* Every other step only gives seats back.
LEMMA OtherSeats ==
    ASSUME Inv, [Next]_vars,
           ~ \E r \in Requests, b \in Bindings, s \in Sessions : Activate(r, b, s)
    PROVE  SeatsGivenBack /\ LimitsKept
  <1>1. CASE \E r \in Requests : ClientStep(r)
    <2>1. PICK r \in Requests : ClientStep(r)
      BY <1>1
    <2>2. CASE \E a \in Apps, l \in Licenses, d \in Devices : SubmitActivate(r, a, l, d)
      BY <2>2 DEF SubmitActivate, Submit, SeatsGivenBack, LimitsKept
    <2>3. CASE \E a \in Apps, s \in Sessions, d \in Devices :
                  SubmitVerify(r, a, s, d) \/ SubmitUnbind(r, a, s, d)
      BY <2>3 DEF SubmitVerify, SubmitUnbind, Submit, SeatsGivenBack, LimitsKept
    <2>4. CASE Verify(r) \/ Reject(r)
      BY <2>4 DEF Verify, Reject, SeatsGivenBack, LimitsKept
    <2>5. CASE Unbind(r)
      BY <2>5 DEF Unbind, SeatsGivenBack, LimitsKept, Inv, TypeOK, BindingRec
    <2>6. QED
      BY <2>1, <2>2, <2>3, <2>4, <2>5 DEF ClientStep
  <1>2. CASE AdminStep
    <2>1. CASE \E a \in Apps, ls \in SUBSET Licenses, limit \in DeviceLimits,
                  duration \in Durations \cup {0}, fixed \in FixedExpiries \cup {NoTime} :
                  Generate(a, ls, duration, fixed, limit)
      BY <2>1 DEF Generate, FreshLicense, SeatsGivenBack, LimitsKept
    <2>2. CASE \E l \in Licenses : DeleteLicense(l)
      BY <2>2 DEF DeleteLicense, SeatsGivenBack, LimitsKept, NoBinding, NoLicense, Exists, Inv, TypeOK
    <2>3. CASE \E l \in Licenses : UnbindAllDevices(l)
      BY <2>3 DEF UnbindAllDevices, SeatsGivenBack, LimitsKept, Inv, TypeOK, BindingRec
    <2>4. CASE \E l \in Licenses, status \in Status : SetLicenseStatus(l, status)
      BY <2>4 DEF SetLicenseStatus, SeatsGivenBack, LimitsKept, Inv, TypeOK, LicenseRec
    <2>5. CASE \E b \in Bindings : UnbindDevice(b) \/ Disconnect(b)
      BY <2>5 DEF UnbindDevice, Disconnect, SeatsGivenBack, LimitsKept, Inv, TypeOK, BindingRec
    <2>6. CASE \E a \in Apps, status \in Status : SetApplicationStatus(a, status)
      BY <2>6 DEF SetApplicationStatus, SeatsGivenBack, LimitsKept
    <2>7. CASE \E m \in Merchants, status \in Status : SetMerchantStatus(m, status)
      BY <2>7 DEF SetMerchantStatus, SeatsGivenBack, LimitsKept
    <2>8. CASE CleanupSessions
      BY <2>8 DEF CleanupSessions, SeatsGivenBack, LimitsKept
    <2>9. QED
      BY <1>2, <2>1, <2>2, <2>3, <2>4, <2>5, <2>6, <2>7, <2>8 DEF AdminStep, ManageStep
  <1>3. CASE Tick
    BY <1>3 DEF Tick, SeatsGivenBack, LimitsKept
  <1>4. CASE UNCHANGED vars
    BY <1>4 DEF vars, SeatsGivenBack, LimitsKept
  <1>5. QED
    BY <1>1, <1>2, <1>3, <1>4 DEF Next

-----------------------------------------------------------------------------

LEMMA OneSeatStep == Inv /\ OneSeatPerDevice /\ [Next]_vars => OneSeatPerDevice'
  <1> SUFFICES ASSUME Inv, OneSeatPerDevice, [Next]_vars PROVE OneSeatPerDevice'
    OBVIOUS
  <1>1. CASE SeatsGivenBack
    BY <1>1 DEF SeatsGivenBack, OneSeatPerDevice
  <1>2. ASSUME NEW b \in Bindings, NEW l \in Licenses, NEW d \in Devices, SeatTaken(b, l, d)
        PROVE  OneSeatPerDevice'
    <2>1. /\ binding'[b] = [status |-> "active", license |-> l, device |-> d]
          /\ \A c \in Bindings : c # b => binding'[c] = binding[c]
      BY <1>2 DEF SeatTaken, Inv, TypeOK
    <2>2. \A c \in Bindings :
             ~(binding[c].status = "active" /\ binding[c].license = l /\ binding[c].device = d)
      BY <1>2 DEF SeatTaken, BindingFor, ActiveBindings
    <2>3. QED
      BY <2>1, <2>2 DEF OneSeatPerDevice
  <1>3. QED
    BY <1>1, <1>2, ActivateSeats, OtherSeats

\* A device never holds two seats of one licence, for any number of devices and requests.
THEOREM OneSeat == Spec => []OneSeatPerDevice
  <1>1. Init => OneSeatPerDevice
    BY DEF Init, OneSeatPerDevice, NoBinding
  <1>2. QED
    BY <1>1, OneSeatStep, Invariance, PTL DEF Spec

LEMMA SeatsFinite == \A l : IsFiniteSet(ActiveBindings(l)) /\ Cardinality(ActiveBindings(l)) \in Nat
  BY FiniteAssumption, FS_Subset, FS_CardinalityType DEF ActiveBindings

LEMMA DeviceLimitStep == Inv /\ DeviceLimitHolds /\ [Next]_vars => DeviceLimitHolds'
  <1> SUFFICES ASSUME Inv, DeviceLimitHolds, [Next]_vars,
                      NEW l \in Licenses, Exists(l)', license'[l].maxDevices > 0
               PROVE  Cardinality(ActiveBindings(l)') <= license'[l].maxDevices
    BY DEF DeviceLimitHolds
  <1>1. LimitsKept
    BY ActivateSeats, OtherSeats
  <1>2. license'[l].maxDevices \in Nat
    BY InvNext DEF Inv, TypeOK, LicenseRec
  <1>3. CASE ~Exists(l)
    <2>1. ActiveBindings(l) = {}
      BY <1>3 DEF Inv, BindingsHaveLicense, ActiveBindings
    <2>2. SeatsGivenBack
      BY <1>3, ActivateSeats, OtherSeats
    <2>3. ActiveBindings(l)' = {}
      BY <2>1, <2>2 DEF SeatsGivenBack, ActiveBindings
    <2>4. QED
      BY <2>3, <1>2, FS_EmptySet
  <1>4. CASE Exists(l) /\ SeatsGivenBack
    <2>1. ActiveBindings(l)' \subseteq ActiveBindings(l)
      BY <1>4 DEF SeatsGivenBack, ActiveBindings
    <2>2. /\ Cardinality(ActiveBindings(l)') <= Cardinality(ActiveBindings(l))
          /\ Cardinality(ActiveBindings(l)') \in Nat
      BY <2>1, SeatsFinite, FS_Subset, FS_CardinalityType
    <2>3. Cardinality(ActiveBindings(l)) <= license[l].maxDevices
      BY <1>1, <1>4 DEF LimitsKept, DeviceLimitHolds
    <2>4. QED
      BY <2>2, <2>3, <1>1, <1>2, <1>4, SeatsFinite DEF LimitsKept
  <1>5. ASSUME Exists(l), NEW b \in Bindings, NEW x \in Licenses, NEW d \in Devices, SeatTaken(b, x, d)
        PROVE  Cardinality(ActiveBindings(l)') <= license'[l].maxDevices
    <2>1. /\ binding'[b] = [status |-> "active", license |-> x, device |-> d]
          /\ \A c \in Bindings : c # b => binding'[c] = binding[c]
          /\ binding[b].status = "absent"
      BY <1>5 DEF SeatTaken, Inv, TypeOK
    <2>2. license'[l].maxDevices = license[l].maxDevices
      BY <1>1, <1>5 DEF LimitsKept
    <2>3. CASE x # l
      <3>1. ActiveBindings(l)' = ActiveBindings(l)
        BY <2>1, <2>3 DEF ActiveBindings
      <3>2. QED
        BY <3>1, <2>2, <1>5 DEF DeviceLimitHolds
    <2>4. CASE x = l
      <3>1. ActiveBindings(l)' = ActiveBindings(l) \cup {b} /\ b \notin ActiveBindings(l)
        BY <2>1, <2>4 DEF ActiveBindings
      <3>2. Cardinality(ActiveBindings(l)') = Cardinality(ActiveBindings(l)) + 1
        BY <3>1, SeatsFinite, FS_AddElement
      <3>3. Cardinality(ActiveBindings(l)) < license[l].maxDevices
        BY <1>5, <2>2, <2>4 DEF SeatTaken, SeatFree
      <3>4. QED
        BY <3>2, <3>3, <2>2, <1>2, SeatsFinite
    <2>5. QED
      BY <2>3, <2>4
  <1>6. QED
    BY <1>3, <1>4, <1>5, ActivateSeats, OtherSeats

\* The device limit holds in every reachable state, whatever order activations, unbinds
\* and deletions commit in.
THEOREM DeviceLimit == Spec => []DeviceLimitHolds
  <1>1. Init => DeviceLimitHolds
    BY DEF Init, DeviceLimitHolds, Exists, NoLicense
  <1>2. QED
    BY <1>1, DeviceLimitStep, Invariance, PTL DEF Spec

-----------------------------------------------------------------------------

\* The action that ExpiryIsFinal allows.
TermsKept ==
    \A l \in Licenses :
        license[l].activated /\ license'[l].status # "absent" =>
            license'[l].activated /\ license'[l].expiresAt = license[l].expiresAt

LEMMA TermsKeptStep == Inv /\ [Next]_vars => TermsKept
  <1> SUFFICES ASSUME Inv, [Next]_vars PROVE TermsKept
    OBVIOUS
  <1>1. CASE UNCHANGED license
    BY <1>1 DEF TermsKept
  <1>2. ASSUME NEW r \in Requests, NEW b \in Bindings, NEW s \in Sessions, Activate(r, b, s)
        PROVE  TermsKept
    <2>1. /\ pending[r].license \in Licenses
          /\ license' = [license EXCEPT
                ![pending[r].license] = Activated(pending[r].license, pending[r].now)]
      BY <1>2 DEF Activate, CanActivate, Inv, RequestReferences
    <2>2. QED
      BY <2>1 DEF TermsKept, Activated, Inv, TypeOK
  <1>3. ASSUME NEW l \in Licenses, NEW status \in Status, SetLicenseStatus(l, status)
        PROVE  TermsKept
    BY <1>3 DEF SetLicenseStatus, TermsKept, Inv, TypeOK, LicenseRec
  <1>4. ASSUME NEW l \in Licenses, DeleteLicense(l) PROVE TermsKept
    BY <1>4 DEF DeleteLicense, TermsKept, NoLicense, Inv, TypeOK
  <1>5. ASSUME NEW a \in Apps, NEW ls \in SUBSET Licenses, NEW limit \in DeviceLimits,
               NEW duration \in Durations \cup {0}, NEW fixed \in FixedExpiries \cup {NoTime},
               Generate(a, ls, duration, fixed, limit)
        PROVE  TermsKept
    <2>1. \A l \in ls : ~license[l].activated
      BY <1>5 DEF Generate, FreshLicense, Exists, Inv, LicenseLifecycle, NoLicense
    <2>2. \A l \in Licenses : l \notin ls => license'[l] = license[l]
      BY <1>5 DEF Generate
    <2>3. QED
      BY <2>1, <2>2 DEF TermsKept
  <1>6. CASE \E r \in Requests : ClientStep(r)
    BY <1>1, <1>2, <1>6 DEF ClientStep, SubmitActivate, SubmitVerify, SubmitUnbind, Submit,
         Verify, Unbind, Reject
  <1>7. CASE AdminStep
    BY <1>1, <1>3, <1>4, <1>5, <1>7 DEF AdminStep, ManageStep, UnbindAllDevices, UnbindDevice, Disconnect,
         SetApplicationStatus, SetMerchantStatus, CleanupSessions
  <1>8. QED
    BY <1>1, <1>6, <1>7 DEF Next, Tick, vars

\* The expiry an activation fixes is never moved by a later step.
THEOREM ExpiryFinal == Spec => ExpiryIsFinal
  <1>1. Inv /\ [Next]_vars => [TermsKept]_vars
    BY TermsKeptStep
  <1>2. QED
    BY <1>1, Invariance, PTL DEF Spec, ExpiryIsFinal, TermsKept

\* The action that RevocationIsFinal allows.
StaysRevoked == \A b \in Bindings : binding[b].status = "revoked" => binding'[b].status # "active"

LEMMA StaysRevokedStep == Inv /\ [Next]_vars => StaysRevoked
  <1> SUFFICES ASSUME Inv, [Next]_vars PROVE StaysRevoked
    OBVIOUS
  <1>1. CASE SeatsGivenBack
    BY <1>1 DEF SeatsGivenBack, StaysRevoked
  <1>2. ASSUME NEW b \in Bindings, NEW l \in Licenses, NEW d \in Devices, SeatTaken(b, l, d)
        PROVE  StaysRevoked
    BY <1>2 DEF SeatTaken, StaysRevoked, Inv, TypeOK
  <1>3. QED
    BY <1>1, <1>2, ActivateSeats, OtherSeats

\* A revoked binding is never active again.
THEOREM RevocationFinal == Spec => RevocationIsFinal
  <1>1. Inv /\ [Next]_vars => [StaysRevoked]_vars
    BY StaysRevokedStep
  <1>2. QED
    BY <1>1, Invariance, PTL DEF Spec, RevocationIsFinal, StaysRevoked
=============================================================================
