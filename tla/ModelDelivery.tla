--------------------------- MODULE ModelDelivery ---------------------------
(***************************************************************************)
(* Model artifacts and the short leases under which a client receives an   *)
(* artifact's key (model-delivery-service.js), composed with the licence   *)
(* state machine: issueLease() first runs the verify transaction of        *)
(* LicenseCore and then, in a transaction of its own, checks everything    *)
(* again and stores the lease.  In between, any other transaction may      *)
(* commit; a request in that window is an element of leasing.              *)
(*                                                                         *)
(* A row that MySQL's issueLease reads stays locked until it commits, so   *)
(* its transaction is one action here, as the JSON store's is.             *)
(***************************************************************************)
EXTENDS LicenseCore

CONSTANTS
    Artifacts,      \* ids of model_artifacts rows
    Leases,         \* ids of model_leases rows
    ArtifactApp,    \* the program an artifact belongs to
    LeaseTtl        \* config.modelLeaseTtlSeconds, in clock ticks

ASSUME ArtifactsAssumption == ArtifactApp \in [Artifacts -> Apps]
ASSUME LeaseTtlAssumption == LeaseTtl \in Nat \ {0}
ASSUME NoArtifactAssumption == None \notin Artifacts \cup Leases

VARIABLES
    artifact,   \* modelArtifacts[].status
    lease,      \* modelLeases[]
    leasing     \* lease requests between their two transactions

deliveryVars == <<artifact, lease, leasing>>
allVars == <<vars, deliveryVars>>

ArtifactStatus == {"draft", "active", "revoked"}

LeaseRec == [status : {"absent", "active", "revoked"},
             artifact : Artifacts \cup {None},
             license : Licenses \cup {None},
             binding : Bindings \cup {None},
             expiresAt : Nat]

LeasingRec == [artifact : Artifacts \cup {None},
               license : Licenses \cup {None},
               binding : Bindings \cup {None},
               session : Sessions \cup {None},
               device : Devices \cup {None},
               since : Nat]     \* when the verification committed

NoLease == [status |-> "absent", artifact |-> None, license |-> None,
            binding |-> None, expiresAt |-> NoTime]

NotLeasing == [artifact |-> None, license |-> None, binding |-> None,
               session |-> None, device |-> None, since |-> NoTime]

DeliveryInit ==
    /\ Init
    /\ artifact = [x \in Artifacts |-> "absent"]
    /\ lease = [i \in Leases |-> NoLease]
    /\ leasing = [r \in Requests |-> NotLeasing]

-----------------------------------------------------------------------------
WithoutLeases(S) == [i \in Leases |-> IF i \in S THEN NoLease ELSE lease[i]]

LeasesOfLicense(l) == {i \in Leases : lease[i].license = l}

LeasesOfArtifact(x) == {i \in Leases : lease[i].artifact = x}

ExpiredLeases(t) == {i \in Leases : lease[i].status # "absent" /\ lease[i].expiresAt <= t}

\* Ids and tokens are random: a row that is gone does not come back under a name that a
\* lease request still holds.
NoReuse ==
    \A r \in Requests : leasing[r] # NotLeasing =>
        /\ Exists(leasing[r].license) \/ license'[leasing[r].license] = NoLicense
        /\ Open(leasing[r].session) \/ session'[leasing[r].session] = NoSession
        /\ binding[leasing[r].binding] # NoBinding \/ binding'[leasing[r].binding] = NoBinding

(***************************************************************************)
(* The licence state machine, with what its transactions do to leases.     *)
(***************************************************************************)
ClientRequest(r) ==
    /\ leasing[r] = NotLeasing
    /\ ClientStep(r)
    /\ NoReuse
    /\ UNCHANGED deliveryVars

Manage ==
    /\ ManageStep
    /\ NoReuse
    /\ UNCHANGED deliveryVars

\* Mutant of DeleteLicenseAndLeases: the leases stay behind.
DeleteLicenseKeepingLeases(l) ==
    /\ DeleteLicense(l)
    /\ UNCHANGED deliveryVars

DeleteLicenseAndLeases(l) ==
    /\ DeleteLicense(l)
    /\ lease' = WithoutLeases(LeasesOfLicense(l))
    /\ UNCHANGED <<artifact, leasing>>

CleanupSessionsAndLeases ==
    /\ CleanupSessions
    /\ lease' = WithoutLeases(ExpiredLeases(clock))
    /\ UNCHANGED <<artifact, leasing>>

TimePasses == Tick /\ UNCHANGED deliveryVars

(***************************************************************************)
(* Artifacts.                                                              *)
(***************************************************************************)
\* Mutant of Register: a status the code does not know.
RegisterPublished(x) ==
    /\ InService(ArtifactApp[x])
    /\ artifact[x] = "absent"
    /\ artifact' = [artifact EXCEPT ![x] = "published"]
    /\ UNCHANGED <<vars, lease, leasing>>

Register(x) ==
    /\ InService(ArtifactApp[x])
    /\ artifact[x] = "absent"
    /\ \A r \in Requests : leasing[r].artifact # x
    /\ artifact' = [artifact EXCEPT ![x] = "draft"]
    /\ UNCHANGED <<vars, lease, leasing>>

\* Revoking an artifact again changes nothing, any other change of a revoked one is refused.
SetStatus(x, status) ==
    /\ merchant[MerchantOf[ArtifactApp[x]]] = "active"
    /\ artifact[x] \notin {"absent", "revoked"}
    /\ artifact' = [artifact EXCEPT ![x] = status]
    /\ lease' = IF status = "revoked"
                THEN [i \in Leases |-> IF i \in LeasesOfArtifact(x) /\ lease[i].status = "active"
                                       THEN [lease[i] EXCEPT !.status = "revoked"]
                                       ELSE lease[i]]
                ELSE lease
    /\ UNCHANGED <<vars, leasing>>

Delete(x) ==
    /\ merchant[MerchantOf[ArtifactApp[x]]] = "active"
    /\ artifact[x] \in {"draft", "revoked"}
    /\ artifact' = [artifact EXCEPT ![x] = "absent"]
    /\ lease' = WithoutLeases(LeasesOfArtifact(x))
    /\ UNCHANGED <<vars, leasing>>

(***************************************************************************)
(* Lease requests.                                                         *)
(***************************************************************************)

\* The first transaction: the client's verification, which names what the second looks up.
VerifyForLease(r, x) ==
    LET s == pending[r].session IN
    /\ leasing[r] = NotLeasing
    /\ Verify(r)
    /\ leasing' = [leasing EXCEPT ![r] =
          [artifact |-> x, license |-> session[s].license, binding |-> session[s].binding,
           session |-> s, device |-> pending[r].device, since |-> clock]]
    /\ UNCHANGED <<artifact, lease>>

\* Mutant of CanLease: the verification is believed.
CanLeaseUnchecked(q, now) ==
    artifact[q.artifact] = "active" /\ Exists(q.license) /\ Usable(q.license, now)

\* Mutant of CanLease: the artifact's status is not looked at.
CanLeaseAnyArtifact(q, now) ==
    /\ Exists(q.license) /\ Usable(q.license, now)
    /\ Open(q.session) /\ now < session[q.session].expiresAt

CanLease(q, now) ==
    LET a == ArtifactApp[q.artifact] IN
    /\ InService(a)
    /\ artifact[q.artifact] = "active"
    /\ Exists(q.license) /\ license[q.license].app = a
    /\ binding[q.binding].status = "active" /\ binding[q.binding].license = q.license
    /\ binding[q.binding].device = q.device
    /\ Open(q.session) /\ session[q.session].app = a
    /\ session[q.session].license = q.license /\ session[q.session].binding = q.binding
    /\ Usable(q.license, now)
    /\ now < session[q.session].expiresAt

\* Mutant of LeaseExpiry: not capped by the session and the licence.
LeaseExpiryUncapped(q, now) == now + LeaseTtl

LeaseExpiry(q, now) ==
    LET cap == Earlier(now + LeaseTtl, session[q.session].expiresAt) IN
    IF license[q.license].expiresAt = NoTime THEN cap
    ELSE Earlier(cap, license[q.license].expiresAt)

\* The second transaction; now was read after the first committed.
IssueLease(r, i, now) ==
    LET q == leasing[r] IN
    /\ q # NotLeasing
    /\ now \in q.since..clock
    /\ CanLease(q, now)
    /\ lease[i].status = "absent"
    /\ lease' = [lease EXCEPT ![i] =
          [status |-> "active", artifact |-> q.artifact, license |-> q.license,
           binding |-> q.binding, expiresAt |-> LeaseExpiry(q, now)]]
    /\ leasing' = [leasing EXCEPT ![r] = NotLeasing]
    /\ UNCHANGED <<vars, artifact>>

RefuseLease(r) ==
    /\ leasing[r] # NotLeasing
    /\ leasing' = [leasing EXCEPT ![r] = NotLeasing]
    /\ UNCHANGED <<vars, artifact, lease>>

DeliveryStep ==
    \/ \E x \in Artifacts : Register(x) \/ Delete(x)
    \/ \E x \in Artifacts, status \in ArtifactStatus : SetStatus(x, status)
    \/ \E r \in Requests, x \in Artifacts : VerifyForLease(r, x)
    \/ \E r \in Requests, i \in Leases : \E now \in 1..clock : IssueLease(r, i, now)
    \/ \E r \in Requests : RefuseLease(r)

DeliveryNext ==
    \/ \E r \in Requests : ClientRequest(r)
    \/ Manage
    \/ \E l \in Licenses : DeleteLicenseAndLeases(l)
    \/ CleanupSessionsAndLeases
    \/ TimePasses
    \/ DeliveryStep

DeliverySpec == DeliveryInit /\ [][DeliveryNext]_allVars

(***************************************************************************)
(* Properties.                                                             *)
(***************************************************************************)

\* Every variable of this module keeps its type.
DeliveryTypeOK ==
    /\ artifact \in [Artifacts -> ArtifactStatus \cup {"absent"}]
    /\ lease \in [Leases -> LeaseRec]
    /\ leasing \in [Requests -> LeasingRec]

\* No active lease of a revoked or deleted artifact is stored, not even by a request whose
\* verification came before the revocation.
RevokedArtifactsLeaseNothing ==
    \A i \in Leases :
        /\ lease[i].status = "active" => artifact[lease[i].artifact] \in {"draft", "active"}
        /\ lease[i].status = "revoked" => artifact[lease[i].artifact] = "revoked"

\* A lease never outlives its licence's row, and its binding is one of that licence.
LeasesHaveLicense ==
    \A i \in Leases : lease[i].status # "absent" =>
        /\ Exists(lease[i].license)
        /\ binding[lease[i].binding].license = lease[i].license

\* A lease ends with its licence at the latest, and after the lease lifetime.
LeasesBounded ==
    \A i \in Leases : lease[i].status # "absent" =>
        /\ lease[i].expiresAt <= license[lease[i].license].expiresAt
        /\ lease[i].expiresAt <= clock + LeaseTtl

\* A key is handed out only on authority that stands when the lease is stored, whatever
\* the verification found before: an open session of that licence and binding, which the
\* lease does not outlive, an enabled program, and a binding that is not revoked.
LeasesNeedAuthority ==
    [][\A i \in Leases :
          lease[i].status = "absent" /\ lease'[i].status # "absent" =>
              /\ InService(ArtifactApp[lease'[i].artifact])
              /\ binding[lease'[i].binding].status = "active"
              /\ \E s \in Sessions :
                    /\ session[s].binding = lease'[i].binding
                    /\ session[s].license = lease'[i].license
                    /\ lease'[i].expiresAt <= session[s].expiresAt]_allVars
=============================================================================
