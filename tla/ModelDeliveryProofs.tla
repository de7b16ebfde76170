------------------------ MODULE ModelDeliveryProofs ------------------------
(***************************************************************************)
(* Model leases for any number of artifacts, leases, requests and rows of  *)
(* the licence state machine.  Every step of the composition is a step of  *)
(* LicenseCore or leaves its variables alone, so that Inv of               *)
(* LicenseCoreProofs holds here too; what the leases need from the         *)
(* licence rows is that a row they refer to stays what it is until it is   *)
(* deleted, together with them (RowsKept).                                 *)
(***************************************************************************)
EXTENDS ModelDelivery, LicenseCoreProofs

\* A stored lease names rows, a lease request in progress does too.
LeaseReferences ==
    \A i \in Leases : lease[i].status # "absent" =>
        /\ lease[i].artifact \in Artifacts
        /\ lease[i].license \in Licenses
        /\ lease[i].binding \in Bindings

LeasingReferences ==
    \A r \in Requests : leasing[r] # NotLeasing =>
        /\ leasing[r].artifact \in Artifacts
        /\ leasing[r].license \in Licenses
        /\ leasing[r].binding \in Bindings
        /\ leasing[r].session \in Sessions

DeliveryInv ==
    /\ Inv
    /\ DeliveryTypeOK
    /\ LeaseReferences
    /\ LeasingReferences
    /\ RevokedArtifactsLeaseNothing
    /\ LeasesHaveLicense
    /\ LeasesBounded

LEMMA EmptyRowsTyped == NoLease \in LeaseRec /\ NotLeasing \in LeasingRec
BY DEF NoLease, LeaseRec, NotLeasing, LeasingRec, NoTime

LEMMA DeliveryInitial == DeliveryInit => DeliveryInv
<1> SUFFICES ASSUME DeliveryInit PROVE DeliveryInv
  OBVIOUS
<1>1. Inv
  BY InvInit DEF DeliveryInit
<1>2. DeliveryTypeOK
  BY EmptyRowsTyped DEF DeliveryInit, DeliveryTypeOK
<1> QED
  BY <1>1, <1>2
  DEF DeliveryInit, DeliveryInv, LeaseReferences, LeasingReferences, NoLease,
      RevokedArtifactsLeaseNothing, LeasesHaveLicense, LeasesBounded

-----------------------------------------------------------------------------
\* Leases are only ever added to the licence state machine.
LEMMA DeliveryStepIsLicenseStep == [DeliveryNext]_allVars => [Next]_vars
<1> SUFFICES ASSUME [DeliveryNext]_allVars PROVE [Next]_vars
  OBVIOUS
<1>1. CASE \E r \in Requests : ClientRequest(r)
  BY <1>1 DEF ClientRequest, Next
<1>2. CASE Manage \/ CleanupSessionsAndLeases \/ TimePasses
  BY <1>2 DEF Manage, CleanupSessionsAndLeases, TimePasses, Next, AdminStep
<1>3. CASE \E l \in Licenses : DeleteLicenseAndLeases(l)
  BY <1>3 DEF DeleteLicenseAndLeases, Next, AdminStep
<1>4. CASE DeliveryStep
  <2>1. CASE \E r \in Requests, x \in Artifacts : VerifyForLease(r, x)
    BY <2>1 DEF VerifyForLease, Next, ClientStep
  <2>2. CASE UNCHANGED vars
    BY <2>2
  <2> QED
    BY <1>4, <2>1, <2>2 DEF DeliveryStep, Register, Delete, SetStatus, IssueLease, RefuseLease
<1>5. CASE UNCHANGED allVars
  BY <1>5 DEF allVars
<1> QED
  BY <1>1, <1>2, <1>3, <1>4, <1>5 DEF DeliveryNext

\* Handing out model keys leaves the licence state machine as it is proved to be: every
\* theorem of LicenseCoreProofs holds of the composition (issueLease calls verify).
THEOREM DeliveryKeepsLicensing == DeliverySpec => Spec
<1>1. DeliveryInit => Init
  BY DEF DeliveryInit
<1> QED
  BY <1>1, DeliveryStepIsLicenseStep, PTL DEF DeliverySpec, Spec

-----------------------------------------------------------------------------
\* What an existing licence's row means to a lease stays, except for the licences of D.
RowsKept(D) ==
    /\ clock' >= clock
    /\ \A l \in Licenses \ D : Exists(l) => Exists(l)'
    /\ \A b \in Bindings : binding[b].status # "absent" /\ binding[b].license \notin D =>
           binding'[b].license = binding[b].license

LEMMA ClientKeepsRows ==
    ASSUME Inv, NEW r \in Requests, ClientStep(r)
    PROVE  RowsKept({})
<1>1. TypeOK
  BY DEF Inv
<1>2. CASE \E b \in Bindings, s \in Sessions : Activate(r, b, s)
  <2>1. PICK b \in Bindings, s \in Sessions : Activate(r, b, s)
    BY <1>2
  <2> DEFINE l == pending[r].license
  <2>2. l \in Licenses /\ Exists(l)
    BY <2>1 DEF Activate, CanActivate, Inv, RequestReferences
  <2>3. Activated(l, pending[r].now).status # "absent"
    BY <1>1, <2>2 DEF Activated, TypeOK, LicenseRec, Exists
  <2>4. \A k \in Licenses : Exists(k) => Exists(k)'
    BY <1>1, <2>1, <2>3 DEF Activate, Exists, TypeOK
  <2>5. \A c \in Bindings : binding[c].status # "absent" => binding'[c] = binding[c]
    BY <1>1, <2>1 DEF Activate, FreshBinding, TypeOK
  <2> QED
    BY <1>1, <2>1, <2>4, <2>5 DEF RowsKept, Activate, TypeOK
<1>3. CASE Unbind(r)
  BY <1>1, <1>3 DEF Unbind, RowsKept, Exists, TypeOK, BindingRec
<1>4. CASE UNCHANGED <<license, binding, clock>>
  BY <1>1, <1>4 DEF RowsKept, Exists, TypeOK
<1> QED
  BY <1>2, <1>3, <1>4
  DEF ClientStep, SubmitActivate, SubmitVerify, SubmitUnbind, Submit, Verify, Reject

LEMMA ManageKeepsRows == Inv /\ ManageStep => RowsKept({})
<1> SUFFICES ASSUME Inv, ManageStep PROVE RowsKept({})
  OBVIOUS
<1>1. TypeOK
  BY DEF Inv
<1>2. ASSUME NEW a \in Apps, NEW ls \in SUBSET Licenses, NEW limit \in DeviceLimits,
             NEW duration \in Durations \cup {0}, NEW fixed \in FixedExpiries \cup {NoTime},
             Generate(a, ls, duration, fixed, limit)
      PROVE  RowsKept({})
  BY <1>1, <1>2 DEF Generate, RowsKept, Exists, TypeOK
<1>3. ASSUME NEW l \in Licenses, UnbindAllDevices(l)
      PROVE  RowsKept({})
  BY <1>1, <1>3 DEF UnbindAllDevices, RowsKept, Exists, TypeOK, BindingRec
<1>4. ASSUME NEW l \in Licenses, NEW status \in Status, SetLicenseStatus(l, status)
      PROVE  RowsKept({})
  BY <1>1, <1>4 DEF SetLicenseStatus, RowsKept, Exists, TypeOK, LicenseRec
<1>5. ASSUME NEW b \in Bindings, UnbindDevice(b)
      PROVE  RowsKept({})
  BY <1>1, <1>5 DEF UnbindDevice, RowsKept, Exists, TypeOK, BindingRec
<1>6. CASE UNCHANGED <<license, binding, clock>>
  BY <1>1, <1>6 DEF RowsKept, Exists, TypeOK
<1> QED
  BY <1>2, <1>3, <1>4, <1>5, <1>6
  DEF ManageStep, Disconnect, SetApplicationStatus, SetMerchantStatus

LEMMA DeletionKeepsRows ==
    ASSUME Inv, NEW l \in Licenses, DeleteLicense(l)
    PROVE  RowsKept({l})
BY DEF Inv, TypeOK, DeleteLicense, RowsKept, Exists

LEMMA QuietKeepsRows == Inv /\ (CleanupSessions \/ Tick \/ UNCHANGED vars) => RowsKept({})
BY DEF Inv, TypeOK, CleanupSessions, Tick, vars, RowsKept, Exists

-----------------------------------------------------------------------------
\* Leases survive a step that keeps their rows; those of the rows that go, go too.
LEMMA LeasesKept ==
    ASSUME DeliveryInv, Inv', [Next]_vars, NEW D \in SUBSET Licenses, RowsKept(D),
           NEW S \in SUBSET Leases, lease' = WithoutLeases(S),
           \A i \in Leases : lease[i].license \in D => i \in S,
           UNCHANGED artifact,
           leasing' \in [Requests -> LeasingRec], LeasingReferences'
    PROVE  DeliveryInv'
<1>1. lease \in [Leases -> LeaseRec] /\ artifact \in [Artifacts -> ArtifactStatus \cup {"absent"}]
  BY DEF DeliveryInv, DeliveryTypeOK
<1>2. lease' \in [Leases -> LeaseRec]
  BY <1>1, EmptyRowsTyped DEF WithoutLeases
<1>3. \A i \in Leases : lease'[i].status # "absent" =>
          lease'[i] = lease[i] /\ i \notin S /\ lease[i].license \notin D
  BY DEF WithoutLeases, NoLease
<1>4. TermsKept
  BY TermsKeptStep DEF DeliveryInv
<1>5. ASSUME NEW i \in Leases, lease'[i].status # "absent"
      PROVE  /\ license'[lease[i].license].status # "absent"
             /\ binding'[lease[i].binding].license = lease[i].license
             /\ lease[i].expiresAt <= license'[lease[i].license].expiresAt
             /\ lease[i].expiresAt <= clock' + LeaseTtl
  <2> DEFINE l == lease[i].license
             b == lease[i].binding
  <2>1. /\ lease[i] \in LeaseRec /\ lease[i].status # "absent"
        /\ l \in Licenses \ D /\ b \in Bindings
    BY <1>1, <1>3, <1>5 DEF DeliveryInv, LeaseReferences
  <2>2. /\ Exists(l) /\ binding[b].license = l
        /\ lease[i].expiresAt <= license[l].expiresAt /\ lease[i].expiresAt <= clock + LeaseTtl
    BY <2>1 DEF DeliveryInv, LeasesHaveLicense, LeasesBounded
  <2>3. binding[b].status # "absent"
    BY <2>1, <2>2, NoneAssumption DEF DeliveryInv, Inv, BindingReferences, NoBinding
  <2>4. license[l].activated
    BY <2>1, <2>2, <2>3 DEF DeliveryInv, Inv, BindingsHaveLicense
  <2>5. license'[l].status # "absent" /\ binding'[b].license = l
    BY <2>1, <2>2, <2>3 DEF RowsKept, Exists
  <2>6. license'[l].expiresAt = license[l].expiresAt
    BY <1>4, <2>1, <2>4, <2>5 DEF TermsKept
  <2>7. lease[i].expiresAt <= clock' + LeaseTtl
    <3>1. clock \in Nat /\ clock' \in Nat /\ clock' >= clock
      BY DEF RowsKept, DeliveryInv, Inv, TypeOK
    <3>2. lease[i].expiresAt \in Nat
      BY <2>1 DEF LeaseRec
    <3> QED
      BY <2>2, <3>1, <3>2, LeaseTtlAssumption
  <2> QED
    BY <2>2, <2>5, <2>6, <2>7
<1>6. LeasesHaveLicense' /\ LeasesBounded'
  BY <1>3, <1>5 DEF LeasesHaveLicense, LeasesBounded, Exists
<1>7. LeaseReferences' /\ RevokedArtifactsLeaseNothing'
  BY <1>3, <1>2 DEF DeliveryInv, LeaseReferences, RevokedArtifactsLeaseNothing, LeaseRec
<1> QED
  BY <1>1, <1>2, <1>6, <1>7 DEF DeliveryInv, DeliveryTypeOK

LEMMA LeasingUnchanged ==
    ASSUME DeliveryInv, UNCHANGED leasing
    PROVE  leasing' \in [Requests -> LeasingRec] /\ LeasingReferences'
BY DEF DeliveryInv, DeliveryTypeOK, LeasingReferences

LEMMA LeasingEnds ==
    ASSUME DeliveryInv, NEW r \in Requests,
           leasing' = [leasing EXCEPT ![r] = NotLeasing]
    PROVE  leasing' \in [Requests -> LeasingRec] /\ LeasingReferences'
BY EmptyRowsTyped DEF DeliveryInv, DeliveryTypeOK, LeasingReferences

LEMMA NoneDropped == DeliveryInv => lease = WithoutLeases({})
BY DEF DeliveryInv, DeliveryTypeOK, WithoutLeases

\* Verification opens a lease request that names the rows of the session it verified.
LEMMA VerifyKeepsInv ==
    ASSUME DeliveryInv, Inv', NEW r \in Requests, NEW x \in Artifacts, VerifyForLease(r, x)
    PROVE  DeliveryInv'
<1> DEFINE s == pending[r].session
           new == [artifact |-> x, license |-> session[s].license,
                   binding |-> session[s].binding, session |-> s,
                   device |-> pending[r].device, since |-> clock]
<1>1. s \in Sessions /\ Open(s)
  BY DEF VerifyForLease, Verify, CanVerify, SessionAccepted, DeliveryInv, Inv, RequestReferences
<1>2. /\ session[s].license \in Licenses /\ session[s].binding \in Bindings /\ clock \in Nat
      /\ pending[r].device \in Devices \cup {None}
  <2>1. pending[r] \in RequestRec
    BY DEF DeliveryInv, Inv, TypeOK
  <2> QED
    BY <1>1, <2>1 DEF DeliveryInv, Inv, SessionReferences, TypeOK, RequestRec
<1>3. /\ new \in LeasingRec
      /\ new.artifact \in Artifacts /\ new.license \in Licenses
      /\ new.binding \in Bindings /\ new.session \in Sessions
  BY <1>1, <1>2 DEF LeasingRec
<1>4. leasing' = [leasing EXCEPT ![r] = new]
  BY DEF VerifyForLease
<1> HIDE DEF new
<1>5. leasing' \in [Requests -> LeasingRec] /\ LeasingReferences'
  BY <1>3, <1>4 DEF DeliveryInv, DeliveryTypeOK, LeasingReferences
<1>6. ClientStep(r) /\ UNCHANGED <<artifact, lease>>
  BY DEF VerifyForLease, ClientStep
<1>7. RowsKept({}) /\ [Next]_vars
  BY <1>6, ClientKeepsRows DEF DeliveryInv, Next
<1>8. lease' = WithoutLeases({})
  BY <1>6, NoneDropped
<1> QED
  BY <1>5, <1>6, <1>7, <1>8, LeasesKept

\* A new artifact has no leases: those of an id that was deleted went with it.
LEMMA RegisterKeepsInv ==
    ASSUME DeliveryInv, Inv', NEW x \in Artifacts, Register(x)
    PROVE  DeliveryInv'
<1>1. UNCHANGED <<vars, lease, leasing>> /\ artifact' = [artifact EXCEPT ![x] = "draft"]
  BY DEF Register
<1>2. DeliveryTypeOK'
  BY <1>1 DEF DeliveryInv, DeliveryTypeOK, ArtifactStatus
<1>3. \A i \in Leases : lease[i].status # "absent" => lease[i].artifact # x
  BY DEF Register, DeliveryInv, RevokedArtifactsLeaseNothing, DeliveryTypeOK, LeaseRec
<1>4. RevokedArtifactsLeaseNothing'
  BY <1>1, <1>3 DEF DeliveryInv, DeliveryTypeOK, RevokedArtifactsLeaseNothing, LeaseReferences
<1> QED
  BY <1>1, <1>2, <1>4
  DEF DeliveryInv, LeaseReferences, LeasingReferences, LeasesHaveLicense, LeasesBounded,
      Exists, vars

LEMMA SetStatusKeepsInv ==
    ASSUME DeliveryInv, Inv', NEW x \in Artifacts, NEW status \in ArtifactStatus,
           SetStatus(x, status)
    PROVE  DeliveryInv'
<1>1. /\ UNCHANGED <<vars, leasing>> /\ artifact' = [artifact EXCEPT ![x] = status]
      /\ artifact[x] \in {"draft", "active"}
  BY DEF SetStatus, DeliveryInv, DeliveryTypeOK, ArtifactStatus
<1>2. lease \in [Leases -> LeaseRec] /\ artifact \in [Artifacts -> ArtifactStatus \cup {"absent"}]
  BY DEF DeliveryInv, DeliveryTypeOK
<1>3. /\ lease' \in [Leases -> LeaseRec]
      /\ \A i \in Leases :
            /\ lease'[i].artifact = lease[i].artifact /\ lease'[i].license = lease[i].license
            /\ lease'[i].binding = lease[i].binding /\ lease'[i].expiresAt = lease[i].expiresAt
            /\ lease'[i].status = "absent" <=> lease[i].status = "absent"
            /\ lease'[i].status = "active" => lease[i].status = "active"
            /\ lease'[i].status = "active" /\ lease[i].artifact = x => status # "revoked"
            /\ lease'[i].status = "revoked" =>
                  lease[i].status = "revoked" \/ (lease[i].artifact = x /\ status = "revoked")
  <2>1. CASE status = "revoked"
    <3>1. lease' = [i \in Leases |->
              IF lease[i].artifact = x /\ lease[i].status = "active"
              THEN [lease[i] EXCEPT !.status = "revoked"] ELSE lease[i]]
      BY <2>1 DEF SetStatus, LeasesOfArtifact
    <3> QED
      BY <1>2, <2>1, <3>1 DEF LeaseRec
  <2>2. CASE status # "revoked"
    BY <1>2, <2>2 DEF SetStatus
  <2> QED
    BY <2>1, <2>2
<1>4. DeliveryTypeOK'
  BY <1>1, <1>3 DEF DeliveryInv, DeliveryTypeOK
<1>5. RevokedArtifactsLeaseNothing'
  BY <1>1, <1>2, <1>3
  DEF DeliveryInv, RevokedArtifactsLeaseNothing, LeaseReferences, ArtifactStatus
<1> QED
  BY <1>1, <1>3, <1>4, <1>5
  DEF DeliveryInv, LeaseReferences, LeasingReferences, LeasesHaveLicense, LeasesBounded,
      Exists, vars

LEMMA DeleteKeepsInv ==
    ASSUME DeliveryInv, Inv', NEW x \in Artifacts, Delete(x)
    PROVE  DeliveryInv'
<1>1. /\ UNCHANGED <<vars, leasing>> /\ artifact' = [artifact EXCEPT ![x] = "absent"]
      /\ lease' = WithoutLeases(LeasesOfArtifact(x))
  BY DEF Delete
<1>2. DeliveryTypeOK'
  BY <1>1, EmptyRowsTyped DEF DeliveryInv, DeliveryTypeOK, WithoutLeases
<1>3. \A i \in Leases : lease'[i].status # "absent" => lease'[i] = lease[i] /\ lease[i].artifact # x
  BY <1>1 DEF WithoutLeases, LeasesOfArtifact, NoLease
<1>4. RevokedArtifactsLeaseNothing'
  BY <1>1, <1>3 DEF DeliveryInv, DeliveryTypeOK, RevokedArtifactsLeaseNothing, LeaseReferences
<1> QED
  BY <1>1, <1>2, <1>3, <1>4
  DEF DeliveryInv, LeaseReferences, LeasingReferences, LeasesHaveLicense, LeasesBounded,
      Exists, vars

\* The second transaction believes nothing of the first but the names.
LEMMA IssueKeepsInv ==
    ASSUME DeliveryInv, Inv', NEW r \in Requests, NEW i \in Leases, NEW now \in 1..clock,
           IssueLease(r, i, now)
    PROVE  DeliveryInv'
<1> DEFINE q == leasing[r]
           new == [status |-> "active", artifact |-> q.artifact, license |-> q.license,
                   binding |-> q.binding, expiresAt |-> LeaseExpiry(q, now)]
<1>1. /\ q.artifact \in Artifacts /\ q.license \in Licenses
      /\ q.binding \in Bindings /\ q.session \in Sessions
  BY DEF IssueLease, DeliveryInv, LeasingReferences
<1>2. /\ CanLease(q, now) /\ lease' = [lease EXCEPT ![i] = new]
      /\ leasing' = [leasing EXCEPT ![r] = NotLeasing] /\ UNCHANGED <<vars, artifact>>
  BY DEF IssueLease
<1>3. /\ license[q.license].expiresAt \in Nat /\ session[q.session].expiresAt \in Nat
      /\ clock \in Nat
  BY <1>1 DEF DeliveryInv, Inv, TypeOK, LicenseRec, SessionRec
<1>4. /\ Exists(q.license) /\ artifact[q.artifact] = "active"
      /\ binding[q.binding].license = q.license
      /\ license[q.license].expiresAt # NoTime
  BY <1>1, <1>2 DEF CanLease, DeliveryInv, Inv, BindingsHaveLicense, LicenseLifecycle
<1>5. /\ LeaseExpiry(q, now) \in Nat
      /\ LeaseExpiry(q, now) <= license[q.license].expiresAt
      /\ LeaseExpiry(q, now) <= clock + LeaseTtl
  BY <1>3, <1>4, LeaseTtlAssumption DEF LeaseExpiry, Earlier
<1>6. /\ new \in LeaseRec /\ new.status = "active" /\ new.artifact = q.artifact
      /\ new.license = q.license /\ new.binding = q.binding
      /\ new.expiresAt = LeaseExpiry(q, now)
  BY <1>1, <1>5 DEF LeaseRec
<1> HIDE DEF new, q
<1>7. DeliveryTypeOK' /\ LeasingReferences'
  BY <1>2, <1>6, LeasingEnds DEF DeliveryInv, DeliveryTypeOK
<1>8. \A j \in Leases : lease'[j] = IF j = i THEN new ELSE lease[j]
  BY <1>2 DEF DeliveryInv, DeliveryTypeOK
<1>9. LeaseReferences' /\ RevokedArtifactsLeaseNothing'
  BY <1>1, <1>2, <1>4, <1>6, <1>8 DEF DeliveryInv, LeaseReferences, RevokedArtifactsLeaseNothing
<1>10. LeasesHaveLicense' /\ LeasesBounded'
  BY <1>2, <1>4, <1>5, <1>6, <1>8 DEF DeliveryInv, LeasesHaveLicense, LeasesBounded, Exists, vars
<1> QED
  BY <1>7, <1>9, <1>10 DEF DeliveryInv

LEMMA DeliveryStepKeepsInv == DeliveryInv /\ [DeliveryNext]_allVars => DeliveryInv'
<1> SUFFICES ASSUME DeliveryInv, [DeliveryNext]_allVars
             PROVE  DeliveryInv'
  OBVIOUS
<1>1. Inv /\ [Next]_vars /\ Inv'
  BY DeliveryStepIsLicenseStep, InvNext DEF DeliveryInv
<1>2. CASE RowsKept({}) /\ UNCHANGED deliveryVars
  BY <1>1, <1>2, LeasingUnchanged, NoneDropped, LeasesKept DEF deliveryVars
<1>3. CASE \E r \in Requests : ClientRequest(r)
  BY <1>1, <1>2, <1>3, ClientKeepsRows DEF ClientRequest
<1>4. CASE Manage
  BY <1>1, <1>2, <1>4, ManageKeepsRows DEF Manage
<1>5. CASE TimePasses \/ UNCHANGED allVars
  BY <1>1, <1>2, <1>5, QuietKeepsRows DEF TimePasses, allVars
<1>6. ASSUME NEW l \in Licenses, DeleteLicenseAndLeases(l)
      PROVE  DeliveryInv'
  <2>1. RowsKept({l})
    BY <1>1, <1>6, DeletionKeepsRows DEF DeleteLicenseAndLeases
  <2>2. /\ lease' = WithoutLeases(LeasesOfLicense(l)) /\ UNCHANGED <<artifact, leasing>>
        /\ LeasesOfLicense(l) \in SUBSET Leases
        /\ \A i \in Leases : lease[i].license \in {l} => i \in LeasesOfLicense(l)
    BY <1>6 DEF DeleteLicenseAndLeases, LeasesOfLicense
  <2> QED
    BY <1>1, <2>1, <2>2, LeasingUnchanged, LeasesKept
<1>7. CASE CleanupSessionsAndLeases
  <2>1. RowsKept({})
    BY <1>1, <1>7, QuietKeepsRows DEF CleanupSessionsAndLeases
  <2>2. /\ lease' = WithoutLeases(ExpiredLeases(clock)) /\ UNCHANGED <<artifact, leasing>>
        /\ ExpiredLeases(clock) \in SUBSET Leases
    BY <1>7 DEF CleanupSessionsAndLeases, ExpiredLeases
  <2> QED
    BY <1>1, <2>1, <2>2, LeasingUnchanged, LeasesKept
<1>8. ASSUME NEW r \in Requests, RefuseLease(r)
      PROVE  DeliveryInv'
  <2>1. RowsKept({})
    BY <1>1, <1>8, QuietKeepsRows DEF RefuseLease
  <2>2. lease' = WithoutLeases({}) /\ UNCHANGED artifact
    BY <1>8, NoneDropped DEF RefuseLease
  <2>3. leasing' \in [Requests -> LeasingRec] /\ LeasingReferences'
    BY <1>8, LeasingEnds DEF RefuseLease
  <2> QED
    BY <1>1, <2>1, <2>2, <2>3, LeasesKept
<1>9. CASE DeliveryStep
  BY <1>1, <1>8, <1>9, RegisterKeepsInv, SetStatusKeepsInv, DeleteKeepsInv, VerifyKeepsInv,
     IssueKeepsInv DEF DeliveryStep
<1> QED
  BY <1>3, <1>4, <1>5, <1>6, <1>7, <1>9 DEF DeliveryNext

LEMMA DeliveryInvariant == DeliverySpec => []DeliveryInv
BY DeliveryInitial, DeliveryStepKeepsInv, PTL DEF DeliverySpec

\* Every variable of model delivery keeps its type.
THEOREM DeliveryTyped == DeliverySpec => []DeliveryTypeOK
BY DeliveryInvariant, PTL DEF DeliveryInv

\* Revoking or deleting an artifact leaves no active lease of it, whichever lease requests
\* were verified before (setStatus, delete, issueLease).
THEOREM RevocationReaches == DeliverySpec => []RevokedArtifactsLeaseNothing
BY DeliveryInvariant, PTL DEF DeliveryInv

\* A lease's licence exists and its binding is that licence's (LicenseService.delete).
THEOREM LeasesOwned == DeliverySpec => []LeasesHaveLicense
BY DeliveryInvariant, PTL DEF DeliveryInv

\* A lease outlives neither its licence nor the lease lifetime (issueLease).
THEOREM LeasesEnd == DeliverySpec => []LeasesBounded
BY DeliveryInvariant, PTL DEF DeliveryInv

-----------------------------------------------------------------------------
\* Nothing but issueLease's second transaction stores a lease, and it checks everything.
LEMMA AuthorityStep ==
    DeliveryInv /\ [DeliveryNext]_allVars =>
        \A i \in Leases :
          lease[i].status = "absent" /\ lease'[i].status # "absent" =>
              /\ InService(ArtifactApp[lease'[i].artifact])
              /\ binding[lease'[i].binding].status = "active"
              /\ \E s \in Sessions :
                    /\ session[s].binding = lease'[i].binding
                    /\ session[s].license = lease'[i].license
                    /\ lease'[i].expiresAt <= session[s].expiresAt
<1> SUFFICES ASSUME DeliveryInv, [DeliveryNext]_allVars, NEW i \in Leases,
                    lease[i].status = "absent", lease'[i].status # "absent"
             PROVE  /\ InService(ArtifactApp[lease'[i].artifact])
                    /\ binding[lease'[i].binding].status = "active"
                    /\ \E s \in Sessions :
                          /\ session[s].binding = lease'[i].binding
                          /\ session[s].license = lease'[i].license
                          /\ lease'[i].expiresAt <= session[s].expiresAt
  OBVIOUS
<1>1. lease \in [Leases -> LeaseRec]
  BY DEF DeliveryInv, DeliveryTypeOK
<1>2. ASSUME NEW S, lease' = WithoutLeases(S)
      PROVE  FALSE
  BY <1>2 DEF WithoutLeases, NoLease
<1>3. ASSUME NEW x \in Artifacts, NEW status \in ArtifactStatus, SetStatus(x, status)
      PROVE  FALSE
  BY <1>3 DEF SetStatus
<1>4. \E r \in Requests, j \in Leases : \E now \in 1..clock : IssueLease(r, j, now)
  <2>1. CASE DeliveryStep
    BY <1>2, <1>3, <2>1
    DEF DeliveryStep, Register, Delete, VerifyForLease, RefuseLease
  <2> QED
    BY <1>2, <2>1
    DEF DeliveryNext, ClientRequest, Manage, DeleteLicenseAndLeases, CleanupSessionsAndLeases,
        TimePasses, allVars, deliveryVars
<1>5. PICK r \in Requests, j \in Leases : \E now \in 1..clock : IssueLease(r, j, now)
  BY <1>4
<1>6. PICK now \in 1..clock : IssueLease(r, j, now)
  BY <1>5
<1> DEFINE q == leasing[r]
<1>7. /\ j = i /\ CanLease(q, now)
      /\ lease'[i] = [status |-> "active", artifact |-> q.artifact, license |-> q.license,
                      binding |-> q.binding, expiresAt |-> LeaseExpiry(q, now)]
  BY <1>1, <1>6 DEF IssueLease
<1>8. q.session \in Sessions /\ q.license \in Licenses
  BY <1>6 DEF IssueLease, DeliveryInv, LeasingReferences
<1>9. /\ session[q.session].expiresAt \in Nat /\ license[q.license].expiresAt \in Nat
      /\ now \in Nat
  BY <1>8 DEF DeliveryInv, Inv, TypeOK, LicenseRec, SessionRec
<1>10. LeaseExpiry(q, now) <= session[q.session].expiresAt
  BY <1>9, LeaseTtlAssumption DEF LeaseExpiry, Earlier
<1> QED
  BY <1>7, <1>8, <1>10 DEF CanLease

\* A key is handed out only on authority that stands when the lease is stored (issueLease).
THEOREM LeasesAuthorized == DeliverySpec => LeasesNeedAuthority
BY AuthorityStep, DeliveryInvariant, PTL DEF DeliverySpec, LeasesNeedAuthority
=============================================================================
