--------------------------- MODULE NativeRuntime ---------------------------
(***************************************************************************)
(* The native authorization state of the Android client                    *)
(* (native_runtime.cpp): process memory behind one mutex, called from any  *)
(* number of threads.  An action is one critical section.  An answer is    *)
(* validated between two of them, with no lock held: the first takes the   *)
(* pending request out of its slot, the last applies the verdict to        *)
(* whatever the state has become.  What makes a verdict good is left to    *)
(* the caller, AndroidClient.                                              *)
(*                                                                         *)
(* Time is std::chrono::steady_clock.  A nonce stands for a request and,   *)
(* since a request stores at most one lease, also for the random handle.   *)
(***************************************************************************)
EXTENDS Integers, FiniteSets

CONSTANTS
    Threads,
    Nonces,
    Bindings,
    PendingTtl,        \* kPendingTtl
    AuthorizationTtls, \* values of min(heartbeatAfterSeconds + 30, 900)
    HandleTtl,         \* kMaxLeaseHandleTtl
    MaxHandles,        \* kMaxLeaseHandles
    MaxTime,           \* the clock stops here (a bound)
    None

ASSUME NativeLimits ==
    /\ PendingTtl \in Nat /\ AuthorizationTtls \subseteq Nat /\ HandleTtl \in Nat
    /\ MaxHandles \in Nat /\ MaxTime \in Nat

ASSUME NativeNone == None \notin Nonces /\ None \notin Bindings

VARIABLES
    pending,     \* pending_requests and pending_model: a slot for each kind of request
    active,      \* active_binding_id
    deadline,    \* authorization_deadline
    leases,      \* lease_secrets
    epoch,       \* authorization_epoch
    generation,  \* model_request_generation
    local,       \* what each thread's validation in progress keeps on its stack
    now

state == <<pending, active, deadline, leases, epoch, generation>>

nativeVars == <<state, local, now>>

Kinds == {"activation", "verification", "unbind", "model"}

Request == [nonce : Nonces \cup {None}, created : 0..MaxTime, epoch : Nat, generation : Nat]

\* "binding" is not in the code: the binding the lease was granted to, kept for the
\* properties only.
Lease == [handle : Nonces, expires : Nat, epoch : Nat, binding : Bindings]

Local == [phase : {"none", "rejected", "consumed", "admitted"},
          kind : Kinds \cup {None},
          request : Request,
          binding : Bindings \cup {None},   \* the AuthorizationSnapshot's
          expires : Nat]

NoRequest == [nonce |-> None, created |-> 0, epoch |-> 0, generation |-> 0]

Nowhere ==
    [phase |-> "none", kind |-> None, request |-> NoRequest, binding |-> None, expires |-> 0]

NativeInit ==
    /\ pending = [k \in Kinds |-> NoRequest]
    /\ active = None
    /\ deadline = 0
    /\ leases = {}
    /\ epoch = 1
    /\ generation = 1
    /\ local = [t \in Threads |-> Nowhere]
    /\ now = 0

-----------------------------------------------------------------------------
Authorized == active # None /\ now < deadline

\* Mutant of Unexpired: expired leases stay until they are released.
UnexpiredAll == leases

\* What clean_expired_leases_locked leaves.
Unexpired == {l \in leases : now < l.expires}

\* Mutant of ClearAuthorization: the leases survive.
ClearAuthorizationOnly ==
    /\ active' = None
    /\ deadline' = 0
    /\ pending' = [k \in Kinds |-> NoRequest]
    /\ epoch' = epoch + 1
    /\ generation' = generation + 1
    /\ UNCHANGED leases

ClearAuthorization ==
    /\ active' = None
    /\ deadline' = 0
    /\ pending' = [k \in Kinds |-> NoRequest]
    /\ leases' = {}
    /\ epoch' = epoch + 1
    /\ generation' = generation + 1

Usable(r) == r.nonce # None /\ now - r.created <= PendingTtl

Return(t) == local' = [local EXCEPT ![t] = Nowhere]

-----------------------------------------------------------------------------
\* begin_request: a newer request of the kind takes the slot.
BeginRequest(kind, n) ==
    /\ kind # "model"
    /\ pending' = [pending EXCEPT ![kind] =
          [nonce |-> n, created |-> now, epoch |-> epoch, generation |-> 0]]
    /\ UNCHANGED <<active, deadline, leases, epoch, generation, local, now>>

BeginModelRequest(n) ==
    /\ UNCHANGED <<local, now>>
    /\ \/ /\ ~Authorized
          /\ ClearAuthorization
       \/ /\ Authorized
          /\ generation' = generation + 1
          /\ pending' = [pending EXCEPT !["model"] =
                [nonce |-> n, created |-> now, epoch |-> epoch, generation |-> generation + 1]]
          /\ UNCHANGED <<active, deadline, leases, epoch>>

CancelModelRequest ==
    /\ pending' = [pending EXCEPT !["model"] = NoRequest]
    /\ generation' = generation + 1
    /\ UNCHANGED <<active, deadline, leases, epoch, local, now>>

\* consume_request and consume_model_request: the slot is empty afterwards, whatever it held.
Consume(t, kind) ==
    /\ local[t].phase = "none"
    /\ pending' = [pending EXCEPT ![kind] = NoRequest]
    /\ local' = [local EXCEPT ![t] =
          [Nowhere EXCEPT !.phase = IF Usable(pending[kind]) THEN "consumed" ELSE "rejected",
                          !.kind = kind,
                          !.request = pending[kind]]]
    /\ UNCHANGED <<active, deadline, leases, epoch, generation, now>>

\* Nothing was pending, or the answer is not valid.  Only an answer to activation or
\* verification costs the authorization.
Reject(t) ==
    /\ local[t].phase # "none"
    /\ local[t].phase = "consumed" => local[t].kind # "model"
    /\ \/ local[t].kind \in {"activation", "verification"} /\ ClearAuthorization
       \/ local[t].kind \in {"unbind", "model"} /\ UNCHANGED state
    /\ Return(t)
    /\ UNCHANGED now

Consumed(t, kinds) == local[t].phase = "consumed" /\ local[t].kind \in kinds

\* Mutant of Current: the epoch a request was begun in is not compared.
CurrentAlways(t) == TRUE

Current(t) == local[t].request.epoch = epoch

\* accept_authorization and validate_unbind: an answer to a request of an earlier epoch is
\* a DEVICE_MISMATCH and changes nothing.
AcceptStale(t) ==
    /\ Consumed(t, {"activation", "verification", "unbind"})
    /\ ~Current(t)
    /\ Return(t)
    /\ UNCHANGED <<state, now>>

\* An activation starts a new epoch, even for the same binding.
AcceptActivation(t, b, ttl) ==
    /\ Consumed(t, {"activation"})
    /\ Current(t)
    /\ pending' = [k \in Kinds |-> NoRequest]
    /\ leases' = {}
    /\ epoch' = epoch + 1
    /\ generation' = generation + 1
    /\ active' = b
    /\ deadline' = now + ttl
    /\ Return(t)
    /\ UNCHANGED now

SameBinding(b) == active \in {None, b}

AcceptVerification(t, b, ttl) ==
    /\ Consumed(t, {"verification"})
    /\ Current(t)
    /\ \/ /\ SameBinding(b)
          /\ active' = b
          /\ deadline' = now + ttl
          /\ UNCHANGED <<pending, leases, epoch, generation>>
       \/ ~SameBinding(b) /\ ClearAuthorization
    /\ Return(t)
    /\ UNCHANGED now

\* The answer confirms the unbinding of b: right or wrong binding, the state is cleared.
AcceptUnbind(t, b) ==
    /\ Consumed(t, {"unbind"})
    /\ Current(t)
    /\ ClearAuthorization
    /\ Return(t)
    /\ UNCHANGED now

UnbindConfirmed(b) == active # None => Authorized /\ active = b

-----------------------------------------------------------------------------
\* authorized_snapshot in validate_model_lease; "expires" is the signed end of the lease on
\* the steady clock, capped when the snapshot is taken.
Snapshot(t, expires) ==
    /\ Consumed(t, {"model"})
    /\ Authorized
    /\ Current(t)
    /\ local' = [local EXCEPT ![t] =
          [@ EXCEPT !.phase = "admitted", !.binding = active,
                    !.expires = IF expires < now + HandleTtl THEN expires
                                ELSE now + HandleTtl]]
    /\ UNCHANGED <<state, now>>

\* What an authorization that has run out leaves behind is wiped by whoever notices.
SnapshotFails(t) ==
    /\ Consumed(t, {"model"})
    /\ ~(Authorized /\ Current(t))
    /\ \/ /\ ~Authorized
          /\ active # None \/ leases # {} \/ pending["model"] # NoRequest
          /\ ClearAuthorization
       \/ /\ Authorized \/ (active = None /\ leases = {} /\ pending["model"] = NoRequest)
          /\ UNCHANGED state
    /\ Return(t)
    /\ UNCHANGED now

\* The state was unlocked since the snapshot.
StillAdmitted(t) ==
    /\ Authorized
    /\ Current(t)
    /\ generation = local[t].request.generation
    /\ active = local[t].binding
    /\ now < local[t].expires

Room == Cardinality(Unexpired) < MaxHandles

LeaseOf(t) ==
    [handle |-> local[t].request.nonce, expires |-> local[t].expires,
     epoch |-> local[t].request.epoch, binding |-> local[t].binding]

\* store_lease_locked
StoreLease(t) ==
    /\ local[t].phase = "admitted"
    /\ StillAdmitted(t)
    /\ Room
    /\ leases' = Unexpired \cup {LeaseOf(t)}
    /\ Return(t)
    /\ UNCHANGED <<pending, active, deadline, epoch, generation, now>>

\* The handle table is full even without the expired leases.  random_handle() and the copies
\* of the key are taken to succeed.
StoreRefused(t) ==
    /\ local[t].phase = "admitted"
    /\ StillAdmitted(t)
    /\ ~Room
    /\ leases' = Unexpired
    /\ Return(t)
    /\ UNCHANGED <<pending, active, deadline, epoch, generation, now>>

StoreStale(t) ==
    /\ local[t].phase = "admitted"
    /\ ~StillAdmitted(t)
    /\ Return(t)
    /\ UNCHANGED <<state, now>>

\* decrypt_model_lease: one use of the handle.
DecryptLease(h) ==
    /\ UNCHANGED <<local, now>>
    /\ \/ /\ Authorized
          /\ leases' = {l \in Unexpired : l.handle # h}
          /\ UNCHANGED <<pending, active, deadline, epoch, generation>>
       \/ ~Authorized /\ ClearAuthorization

ReleaseLease(h) ==
    /\ leases' = {l \in Unexpired : l.handle # h}
    /\ UNCHANGED <<pending, active, deadline, epoch, generation, local, now>>

ClearAuthorizationState == ClearAuthorization /\ UNCHANGED <<local, now>>

Tick ==
    /\ now < MaxTime
    /\ now' = now + 1
    /\ UNCHANGED <<state, local>>

\* The process ends and is started again: all of this is memory.
NativeRestart ==
    /\ pending' = [k \in Kinds |-> NoRequest]
    /\ active' = None
    /\ deadline' = 0
    /\ leases' = {}
    /\ epoch' = 1
    /\ generation' = 1
    /\ local' = [t \in Threads |-> Nowhere]
    /\ UNCHANGED now

NativeNext ==
    \/ \E kind \in Kinds, n \in Nonces : BeginRequest(kind, n)
    \/ \E n \in Nonces : BeginModelRequest(n)
    \* A caller may name a handle that is unknown.
    \/ \E h \in Nonces \cup {None} : DecryptLease(h) \/ ReleaseLease(h)
    \/ \E t \in Threads :
          \/ \E kind \in Kinds : Consume(t, kind)
          \/ Reject(t) \/ AcceptStale(t)
          \/ \E b \in Bindings, ttl \in AuthorizationTtls :
                AcceptActivation(t, b, ttl) \/ AcceptVerification(t, b, ttl)
          \/ \E b \in Bindings : AcceptUnbind(t, b)
          \/ \E expires \in Nat : Snapshot(t, expires)
          \/ SnapshotFails(t)
          \/ StoreLease(t) \/ StoreRefused(t) \/ StoreStale(t)
    \/ CancelModelRequest \/ ClearAuthorizationState \/ Tick \/ NativeRestart

NativeSpec == NativeInit /\ [][NativeNext]_nativeVars

(***************************************************************************)
(* Properties.                                                             *)
(***************************************************************************)

\* Every variable of the runtime keeps its type.
NativeTypeOK ==
    /\ pending \in [Kinds -> Request]
    /\ active \in Bindings \cup {None}
    /\ deadline \in Nat
    /\ leases \in SUBSET Lease
    /\ epoch \in Nat
    /\ generation \in Nat
    /\ local \in [Threads -> Local]
    /\ now \in 0..MaxTime

\* Whatever threads do between two critical sections, a lease in the table belongs to the
\* binding that is authorized now and to the current epoch: no clear, unbinding or newer
\* activation leaves a key behind, and none arrives late.  In particular the epoch test of
\* decrypt_model_lease is a second line that is never reached.
LeasesBelongToAuthorization ==
    \A l \in leases : l.binding = active /\ l.epoch = epoch

\* The table of content keys is bounded.
HandlesBounded == Cardinality(leases) <= MaxHandles
=============================================================================
